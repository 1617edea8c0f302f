# TLA+ models of dfsch

dfsch is a Lisp-1 dialect: an interpreter library in C (`src/`), its headers
(`dfsch/`), loadable modules (`lib/`) and Scheme code on top. This directory
models the parts of it whose correctness depends on the order of steps or on
many cases at once: threads that share objects, tables with several
representations and a cache, the control stack of a thread with its non-local
exits, code that is loaded, compiled and dispatched while it changes, and what
reads, writes and computes objects.

All paths below are relative to the repository.

## 1. Inventory

### Components, their state and their operations

| component | state | operations | interacts with |
|---|---|---|---|
| Channels, `lib/threads.c` | ring buffer, `readptr`, `writeptr`, mutex, two condition variables | create, read, write | any number of threads |
| Environments, `src/dfsch.c:640-1055` | frames: values (identity hash), declarations, owner, parent; the global `environment_rwlock` | lookup, env_get, set, unset, define, declare | every thread that evaluates code |
| Identity hash, `src/eqhash.c` | small array or vector of buckets, count, cache of entry pointers | init, set, put, set_flags, set_if_exists, unset, ref | environments, breakpoints, printer, parser, serializer |
| Evaluator, `src/dfsch.c` | frame freelist and scratch pad of a thread, tail escape, `async_apply` slot | eval, apply, tail calls that reuse a frame, multiple values | environments, compiler, hash tables (through comparisons) |
| Stack unwinding, `dfsch/magic.h`, `src/dfsch.c:502-557`, `src/forms.c:316-374` | thread info: `throw_ret`, `throw_tag`, `throw_value`, `catch_list`; a jump buffer in each C frame | catch, throw, unwind-protect, thread termination | conditions, evaluator, loading |
| Conditions, `src/conditions.c` | thread info: `handler_list`, `restart_list`; global `debugger_depth` | signal, handler-bind, restart-bind, invoke-restart, enter-debugger | unwinding |
| Compiler, `src/compiler.c`, `src/forms.c` | the code of a closure before and after compilation, a count of calls, flags of variables | compile on first call, on request, beforehand; fold constants | environments, evaluator |
| Hash tables, `src/hash.c` | chained buckets, count, mask, a lock per table | ref, set, unset, set_if_exists, resize, iterate | user code, asynchronously applied procedures |
| Tables of tuples, `src/mkhash.c` | open addressing, count | ref, set, unset, reset | generic functions |
| Packages, `src/package.c` | open-addressing symbol tables, use lists, exports, aliases, global `symbol_lock` | intern, export, unintern, use, define-package, in-package | parser, loading |
| Loading, `src/load.c` | `*load-modules*`, load operations of a thread, current package | load, require, provide, when-toplevel | environments, unwinding, packages |
| Generic functions, `src/generic.c` | method list, order of specializers, cached dispatch | add and remove method, apply | tables of tuples, classes |
| Weak references, `src/weak.c` | weak tables, parasites of objects | attach, retrieve, detach | collector |
| External references, `lib/extref.c` | one table of handles with times, a sweeping thread | create, use, sweep, grow, shrink | threads, the clock |
| Queues, `lib/collections.c` | a forest of binomial trees | push, pop | comparison procedures of the program |
| Parser and tokenizer, `src/parse.c` | a stack of states, labels, a queue of characters | feed a piece, reset | ports, load, packages |
| Writer, `src/writer.c` | marks of the objects met, counter of labels | write in two passes | parser |
| Serializer, `src/serdes.c` | object numbers of writer and reader | serialize, deserialize | types, hash tables, classes |
| Lists, `src/types.c`, `src/primitives.c` | pairs, iterators | copy, append, search, property lists, sort, map and fold | mappings, procedures of the program |
| Numbers, `src/number.c`, `src/bignum.c` | none: values | arithmetic, comparison, bits, bytes | |
| Strings, `src/strings.c` | none: values | characters, search, split, replace, case, names of files | |
| JSON, `lib/json.c`; cipher modes, `lib/crypto/modes.c` | a parser fed in pieces; chained blocks, counters | feed, emit; encrypt, decrypt | ports |
| Ports, classes, introspection, bindings | buffers, glue | | |

`PROJECT.json` lists each of them with the files it is in and what is or is not
modelled of it, under `components`, and under `hazards` what is hard to test in
them, each at its line, with the properties that watch over it.

### Which behaviours are hard

* *Concurrency.* Channels are used by any number of readers and writers. Frames
  are used without a lock by the thread that made them until another thread
  takes that bias away, which it does without waiting for the owner. Caches are
  filled with what was computed before somebody else changed its source.
* *Failure.* Every error is a condition, a handler may throw from anywhere, and
  `longjmp` skips whatever is not wrapped in `DFSCH_UNWIND`: the unlocking of a
  table while its keys are compared, the second half of a pop.
* *Ordering.* Tables move entries while caches, iterators and other threads point
  to them; a definition in a package or a frame changes what code elsewhere means.
* *Streams.* Texts, JSON and encrypted data come in pieces that are cut anywhere;
  serializer and deserializer must count the same objects in the same order.
* *Time.* References expire while they are used, swept and prolonged.

### What makes each component correct

* Channel: no object is lost, repeated or reordered; nobody sleeps beside work.
* Environment: accesses that conflict are kept apart by owner or lock; what was
  defined stays bound; the lock is always released.
* Identity hash, hash tables, tables of tuples, symbol tables: each is a map whose
  entries are where they are looked for; an iteration yields each key once.
* Evaluator: a frame is used by one activation at a time, and wiped for reuse only
  when nothing reaches it; arguments and values arrive as they were.
* Unwinding and conditions: the lists of the thread match the forms being
  evaluated; cleanup code runs once; a throw arrives; handlers are not re-entered.
* Compiler: a compiled function does what it did before.
* Packages: a written symbol is read back; a name does not change its meaning
  behind one's back. Loading: once, in the right package, and it ends.
* Generic functions: the most special method first, and a cache that agrees.
* References and parasites: found as long as they should be, then gone.
* Readers and writers: what was written is read, however it is cut.
* Numbers and strings: the exact result.

## 2. Modules

Models of components, and the abstract ones they implement or are compared with:

| module | models | module | models |
|---|---|---|---|
| `Pipe` | abstract: a bounded FIFO pipe | `SymbolTable` | the symbols of a package |
| `Channel` | a channel and its threads | `Package` | packages and symbols |
| `Environment` | frames, owners, the lock | `Loading` | load, require, provide |
| `SharedTable` | a table's lock, asynchronous calls | `GenericFunction`, `MethodOrder` | dispatch and its cache |
| `Extref` | external references | `MKHash` | tables of tuples of keys |
| `Weak` | parasites of objects | `PriorityQueue` | priority queues |
| `EqHash` | the identity hash | `Parser`, `Tokenizer`, `Typed` | the parser |
| `HashTable` | hash tables, iterators | `Datum` | abstract: the grammar of data |
| `Frames` | frames and their reuse | `Writer`, `PrintAndRead` | the circular printer |
| `Unwind` | non-local exits, conditions | `Serializer` | the binary serialization |
| `ScratchPad` | arguments and values in the pad | `Bignum`, `Numbers` | exact numbers |
| `Expression`, `Compiler` | the compiler | `Strings` | strings in UTF-8 |
| `Lists` | lists, going through collections | `Json`, `CipherModes` | data formats |

The theorems about a component are in the module of its name with `Proofs`:
`UnwindProofs`, `PackageProofs` and `EqHashProofs`; the others are for several components
each: `ThreadProofs` (`Channel`, `Environment` and `Extref`), `TableProofs` (`SharedTable` and
`Weak`), `EvaluatorProofs` (`Frames` and `ScratchPad`), `LibraryProofs` (`Loading`,
`GenericFunction`, `PriorityQueue` and `CipherModes`) and `HashingProofs` (`SymbolTable`, `MKHash` and `HashTable`).

`MCThreads`, `MCEvaluator`, `MCLibrary` and `MCData` each put several components side
by side for TLC: a variable `which` says which one a behaviour is about, and the
variables of the others stay as they are, so that one run checks them all without
multiplying their states. They extend the components that theorems are about, which
is why no two of these share a name, so that a run checks the very definitions that
are proved, and instantiate the others. What a theorem assumes of the constants is an
ASSUME of these modules also. `MCCompiler` is an instance of the compiler alone;
the failing runs of `Frames`, `Unwind` and `ScratchPad` run these modules as they are.

Operators with a comment that begins `Variant:` are what a plausible bug would
make of the definition that follows. No behaviour of a model uses them; each
shows that some property would notice.

### Threads

*Channel.* `buf`, `readptr`, `writeptr` are the fields of `channel_t`;
`new_writeptr` is the local variable of `dfsch_channel_write`, one per writer. A
thread is `idle`, in its wait loop about to `check` the condition, in `wait` (in
`pthread_cond_wait`, asleep while it is in `readWait` or `writeWait`, and then
contending for the mutex), or about to `signal`. The code between two
synchronisation calls is one action: with the mutex held nothing else sees the
intermediate states. pthread's part is modelled from its use and from POSIX, with
spurious wakeups, and marked external. `sent` and `received` are history.

*Environment.* A frame has an owner, a parent and an array of slots with the names
bound in them: the small form of the identity hash, at the granularity at which
accesses may overlap. An operation goes through `check` (is the frame mine?),
`free` (an access without the lock has found its slot and has not used it yet)
or `lock`, `locked` (the same with the lock), `recheck` (the second test of owner
in `dfsch_define`) and `unlock`. `lookup`, `set` and `define` stand for the three
functions that look at owner, `get` for the readers that only take the lock,
`unset` and `declare` for the writers that always take it. Unlocking a lock that
is not held is undefined for pthread: the model lets it release somebody else's
hold or nothing, and remembers it in `broken`.

*SharedTable.* One key of a hash table, the lock of the table, and what each thread
is in the midst of, as a stack: a call that is about to `lock`, `search`, `use`
what it found, or `unlock`; the check of the `async_apply` slot, between reading
it and clearing it; the procedure applied, which may return at once, use the
table, or throw to the top level as `break` of `src/repl.c` does. A request may
come from a signal handler at any step. `set_if_not_exists` is a ref and, in a
second call, a set. When a procedure applied during a comparison throws, or takes
the lock that its own thread holds, nobody can release it any more
(`entangled`): the behaviour is not followed further, and the properties say what
holds until then.

*Extref.* The table of handles, entries with the time they are valid to, the
thread that sweeps it, and users that create handles and look them up. What
`extref_get` reads before it takes the mutex and what `dfsch_extref_ref` does
after it was released are actions of their own, and so is each turn of the loops of
`extref_resize`: an entry dropped, counted, unlinked or moved, a bucket done. What a
walk meets from an entry is a set, the least one closed under links, so that a cyclic
chain needs no special case. A tick of the clock is the time the sweeping thread
sleeps, of 10 seconds in the code, which with the times of the handles are scaled to
a few ticks; a sweep ends within one. `wrecked` says that the code has written through
an uninitialized pointer or gone round a chain that has no end, after which nothing is
promised; `MaxCount` ends a sweep that would count on for ever.

*Weak.* Parasites hang on objects through a weak table keyed by address. The
collector takes objects, marks their entries dead and lets new objects have their
addresses. `find_entry` unlinks dead entries as it passes them, and
`attach_parasite` finds and enters in two calls. `astray` are the objects that
have lost parasites through either. The identity hash of an object is a record of its
mask and count, the names in it and which name stands before which in a chain, since
a name is entered and found under one hash (`HASH`, `src/hash.c:475`) and removed under
another (`dfsch_hash`, `src/hash.c:706`): `dfsch_idhash_unset` may look in a
bucket where the name is not, and `detach_parasite` does not ask whether it was; and where
it finds the name first in its chain it drops what stands behind it (`src/hash.c:716`).
So what the documentation of `detach-parasite!` says, "Remove previously attached
parasite" (`src/weak.c:623`), does not hold of a name whose two hashes lead to different
buckets. `expected` are the names that were attached and neither detached nor lost so
since. `OwnParasites` says what remains true: nobody ever gets those of another object;
a name that was detached is there at most if it is one of those (`Misplaced`); and an
object that is not astray has all that are expected.

### The evaluator

*EqHash.* A table is a record. Entries of the vector and allocated ones live in a
heap under names, so that the cache may hold a name that the buckets have since
dropped; `Kept` is the collector, which takes entries that neither a bucket nor the
cache leads to. `PutAll` is the loop of `convert_to_large` and, bucket by bucket, of
`grow_hash`; `ChainOf` and `PlaceOf` are what `find_entry` walks. The three bit fields of a hash that the code uses are given by `Hash`.
`map` is what the operations promise; `rewritten` remembers the keys with which
the stale-cache flaws of the code can be reached, so that `MapUntilRewritten`
says how far the promise holds and `LastSetWins` the promise itself.

*Frames.* `stack` holds the activations that have to do with frames: a call
(`apply`), a let while it evaluates the values of its variables (`bind`) and in its
body (`let`), and code in an environment which nobody frees (`eval`). `retained` is
the flag `EFRAME_RETAIN`, `freelist` the list of frames to be reused, `refs` the
environments that closures and objects refer to, `leaked` those that objects got
without `dfsch_reify_environment`. The program is arbitrary. A tail call replaces
the innermost call whose escape it may have been given. The collector may take
any frames out of reach. A program that evaluates in an environment of `leaked` is
not considered: what it finds there is what `ObjectsKeepEnvironments` is about.

*Unwind.* `forms` holds a frame for each form that was entered, the stack of C: catch,
protect, handlers, restarts, signal and debugger. `reg` holds the fields of
`dfsch__thread_info_t` that the macros of `dfsch/magic.h` save and restore. The
program is arbitrary: it enters a form, leaves the innermost one, throws, signals,
invokes a restart or terminates. `longjmp` is one action per kind of frame it
lands on.

*ScratchPad.* A few cells in which the arguments of a tail call and the values
after the first wait. Expressions are built as they are evaluated: constants,
calls, catch, throw, unwind-protect, %get-values, and forms that return a value of
their own. The code that runs in an activation before its arguments are bound
overwrites the pad in one step. `astray` and `exposed` mark the forms and calls
for which the code is known to lose values; the properties are about all others.

*Compiler.* One function is called, compiled or not, in a frame under that of the
constants; beside it the same body is evaluated as it was written. Compilation
declares variables in frames of its own in the order in which it meets their
definitions. `CompiledMeansSame` says both give the same result and leave the
same frames, for programs that do none of five things, which are remembered in
`marks`, since the code is known to compile them wrongly:
`changed` (a constant is assigned), `clobbered` (a variable is declared over a
constant of the same frame), `undeclared` (a definition is in the branch of a known
condition that is left uncompiled, or in an argument compiled after the function
that uses it), `conditional` (a constant is defined in one branch and folded
after both) and `quoted`: `dfsch_constant_expression_value` gives for a quote the first
of the expression, which is the form (`src/compiler.c:105`), and not what it quotes, so
that a quoted NIL is taken for true by a compiled condition, and a constant defined as a
quote is folded to the form. Only a quote that begins with the form itself is
recognized (`dfsch_quote_expression_p`): that is how `dfsch_make_constant_ast_node` puts
a pair or a symbol into compiled code, and how generated code has it. A quote that was
read begins with the symbol (`src/parse.c:828`), and stays as it is since its
form has no compile method (`src/compiler.c:213-221`): it is not folded and does no harm.
The model has both (`Quote`).

### The library

*HashTable.* Entries are linked through `next`, since an iterator keeps a pointer to
one while others are unlinked, copied or taken over by `hash_change_size`. `Hash` is
what a key is stored under and `dfsch_hash` what `unset` and `set_if_exists` look for
it under; they agree in a `hash-table`, and need not in an `identity-hash-table`.
Unsetting the first entry of a chain empties the bucket with all entries behind it
(`src/hash.c:677`): `lost` are those keys, and `MapButForLost` says that all others
are found. An operation is one step here; what happens between the steps of
several is in `SharedTable`.

*MKHash.* Open addressing with linear probing. Entries that were unset keep their
places; a table full of them has none for a new key and the process aborts, or
the pointer that was not found is used (`src/mkhash.c:206`). `IsMap` says that
a lookup finds what was last set unless the process was aborted, and that it is not
where nothing is unset, which is how generic functions use it.

*Package, SymbolTable.* A symbol is a number, with a name and a home. Reading a
qualified name, writing a symbol, use lists, exports and aliases are operators;
interning, uninterning, using, defining a package are actions. `SymbolTable` is the
table behind one package, whose entries die when the collector takes a symbol.

*Loading.* Threads run scripts of provide, require, in-package, failing forms and
when-toplevel. `dfsch_provide` reads the list of modules in one step and defines
the longer one in another. `crossed` says that two threads were in this at once.

*GenericFunction, MethodOrder.* The order of methods is an operator, the merge sort
of the code, pass by pass and run by run. A call looks into the cache, computes and stores in three steps, and
methods are changed and the cache is reset in between; an answer stored late stays
(`late`) until the next change.

*PriorityQueue.* `head`, and `next`, `children` and `degree` of the nodes, are the fields
of the code; `pop` has the local variables of a call and how far it is. A pop takes an
action for each turn of its loops: to the last child (`NextChild`), over the roots with one
kept or two joined (`KeepRoot`, `JoinTrees`), over `degree_map` (`FirstRoot`, `PutRoot`).
It joins trees of equal degree by comparisons that may throw (`Throw`), and loses trees
when it is left so; `PopsLeast` says that nothing is ever popped twice, and that the head
is the least and nothing is lost where no pop has failed. Procedures that use the queue
whose objects they compare, and threads that share one, are left out.

### Data

*Writer, Parser, PrintAndRead.* Objects are numbers of cells of a heap. The recursion
of `dfsch_write_object` is a stack of what is left to do; it writes tokens, which
`Parser`, a record with the parser's stack and an operator for each of its
functions, reads back. `Typed` gives the parser any sequence of tokens and compares
with `Datum`, a recursive-descent reader. `Tokenizer` cuts texts into tokens, and is
fed every text whole and in pieces.

*Serializer.* Writer and reader number objects as they meet them. Canonical objects
and classes of instances shift the numbers in the cases named in the comment of
`RoundTrip`.

*Bignum, Numbers.* Words of `WORD_BITS` bits in variables one bit wider. A behaviour of
`Numbers` is a calculation; `exact` is what it should give, as a fraction of
TLA+ integers. A fixnum is shifted as an `int64_t`, of `INT_BITS` bits here
(`src/number.c:864,873`): its bits may be lost, and a count of as many bits as there are is
undefined, so that either of two outcomes may come (`ShiftCounts`). `rough` notes
what does not give the exact number: that, the complement of words that carry, and a
bit shifted out of a negative bignum. Two fractions are equal for the code whenever both
are fractions, since one is compared with itself (`src/number.c:696`); `Exact` speaks of
comparing integers. It is the build with words of 15 bits; `DFSCH_32BIT_BIGNUM`, which
nothing defines, would cut products of words (`src/bignum.c:536`).

*Strings.* A string is a sequence of bytes, kept with the sequence of characters it
is to mean; each operation is written as the code does it on bytes, and compared
with what it means on characters. Two things the code does are part of this
meaning: a lead byte of four is masked with `0x1f`, so that characters beyond
U+FFFF are read as U+FFFD, and (substring s n) with nothing behind n is an error.
A search that does not end, or goes on through a null pointer, makes the process
die: `alive`. Left out as such are splits by an empty separator, which never end.

*Lists.* A heap of pairs that share tails and run in circles, and one call of a function
on them: length, copies, append and nconc, the searches, property lists and the sort
in one step, since nobody else runs meanwhile; and the procedures that go through
collections, one application of the program's procedure at a time, which may link
the pairs otherwise while it is applied. A call may end in a value, an error, a loop
that does not end (`endless`) or an access through a null pointer (`wild`).

*Json.* The parser's stack of states, its queue of characters and what it gives to
its callback; objects are emitted and read back, but for strings that end in a
backslash, which the parser takes for an escape of the quote. *CipherModes.* The five
modes of blocks, ECB, CBC, CFB, OFB and CTR, over any bijection of blocks, and padding.
A call goes through its text block by block (`Call`); `AsWhole` compares with the modes as
they are defined, and `Deciphers` says that the reader gets the text. How two bytes are combined is
a constant: the code does it by exclusive or, the theorem needs that doing it twice
undoes it. The stream ciphers that `modes.c` makes of block ciphers are not modelled, since
none can be set up: `dfsch_make_ofb_cipher` (`lib/crypto/modes.c:356`) and
`dfsch_make_ctr_cipher` (417) do not store the block cipher they are given, which
`bs_ofb_setup` (324) and `bs_ctr_setup` (375) then read, and the type of these objects is
not one that `lib/crypto/crypto.c:88,105` accepts.

## 3. Runs

| run | result | what it checks |
|---|---|---|
| `threads` | holds | channels, environments, external references, parasites, shared tables |
| `evaluator` | holds | frames, unwinding, identity hashes, scratch pad, compiler |
| `library` | holds | packages, symbol tables, loading, generic functions, tables of tuples, hash tables, queues |
| `data` | holds | printing, parsing, tokenizing, serializing, numbers, strings, lists, JSON, cipher modes |
| `channel_two_writers` | `FIFO` fails | a channel of 2 slots, two writers |
| `environment_define` | `DefineDefines` fails | the environments of `threads` |
| `scratch_pad_values` | `AllValues` fails | a pad of 6, expressions 3 deep |
| `eqhash_last_set` | `LastSetWins` fails | the identity hash of `evaluator` |
| `frames_objects` | `ObjectsKeepEnvironments` fails | 3 frames and the top level |
| `unwind_target` | `NeverWithoutTarget` fails | 4 nested forms |
| `compiled_let` | `LetHidesConstant` fails | 256 bodies that define a constant, then let a variable |
| `strings_split` | `SplitSeparates` fails | the texts of `data` |

### The properties of the passing runs

* `threads`: `TypeOK`; `FIFO`, `ImplementsPipe`, `EveryWriteIsRead` (channels);
  `RacesAreBiased` (two conflicting accesses to a frame are kept apart, unless one is
  by the creator who began it as owner), `DefinedWithoutRace` (what was defined in a
  frame without a race is bound); `ServedInTime` (a reference is found until its time is
  over, and dropped soon after); `OwnParasites`; `TableShared` (what a search has found
  is so when it is used, set_if_not_exists sets once, the lock is held by the calls
  that took it and nobody else, and a request for an asynchronous call is seen to
  once, in turn, unless a later one has overwritten it or it came between the two
  steps of the check); `CallsEnd` (operations on frames and tables end, requests are
  seen to).
* `evaluator`: `TypeOK`, `FramesApart`, `ClearedOutOfReach` (frames); `ListsMatchStack`,
  `CleanupsOwed`, `UnwindingKeepsTarget`, `HandlerNotReentered` (unwinding);
  `MapUntilRewritten` (the identity hash keeps its shape, and is a map until something is
  unset, or set again after growth); `PassedIntact` (arguments and values);
  `CompiledMeansSame`.
* `library`: `TypeOK`, `EachNameOnce`, `WrittenReadsBack`, `MeaningsKept` (packages);
  `IsSet` (tables of symbols); `PackageOfText`, `LoadedOnce`, `ScriptsEnd` (loading); `CacheAgrees`,
  `MostSpecialFirst` (generic functions); `IsMap` (tables of tuples);
  `MapButForLost`, `IteratesOnce` (hash tables); `PopsLeast`.
* `data`: `ReadsBack` (circular printing, JSON and the serializer), `WritingEnds`,
  `ReadsGrammar`, `PiecesDoNotMatter` (tokenizer, JSON, and ciphers, whose modes are
  compared with what they are for a whole text), `Deciphers` (ciphers), `Exact` (numbers,
  strings and lists).

TLC finds 701,819 distinct states in `threads`, 1,418,386 in `evaluator`, 888,457 in
`library` and 823,477 in `data`; each takes two to four minutes.

Each property's comment in its module says what it means and what it leaves out. Some
leave out just what the code is known to get wrong, so that they do not hold of it:
`TableShared` and `CallsEnd` a procedure that throws, or waits for its own thread, with the
lock of a table held; `CacheAgrees` an answer that is stored after the reset that should
have removed it; `ReadsBack` what is serialized by its canonical name, or within an
instance during which the map of objects grows; `OwnParasites` and `MapButForLost` what
stood behind an entry that was unset; `CompiledMeansSame` the five marks of section 2;
`ServedInTime` does not say that of two threads only one may use a handle that is good
once. The hazards in `PROJECT.json` say so where it concerns them.

### Bounds, and why they are enough

* Channel: one writer, two readers, 3 slots of which 2 are usable, 5 messages, 1
  spurious wakeup. 5 messages wrap the ring round more than once, full and empty
  buffers both occur with readers asleep and awake, and the second reader lets one
  take what the other was woken for.
* Environment: 3 threads, 2 frames of two of them, 2 variables, 3 slots, 3
  operations. A race takes two threads, the third separates the creator of a frame
  from two others that meet under the lock, and three operations are one of each; a
  frame and its parent give the walk with and without lock. No frame is full, so the
  conversion of a hash, which `EqHash` models, does not occur.
* Extref: 3 handles, two of them in one bucket of the initial table of two, a user, times
  up to 3, 4 entries counted in a sweep, sweeps from 2 entries on: the table grows while it is swept, a handle is
  prolonged when it is already swept, and one expires at the very tick.
* Weak: 4 objects, two at one address, in one chain, 2 threads: a dead entry before,
  between and behind live ones. One object is given two names and detached from: hashes of
  1, 2 and 4 buckets, in which the names share a chain, in either order, and one of them is
  looked for in another bucket when there are 4.
* SharedTable: two threads, up to 3 calls and 2 requests for one of them, 4 in all: a
  procedure that uses the table in the midst of a call, a request that comes while
  another is pending, being read, or running.
* EqHash: 4 keys, three of which share a bucket that the mark of free entries hashes to
  as well, 2 small slots, a cache of 2, vectors of 4 and 8: converting needs 3 keys,
  growing 4, and two places of the cache let keys share one.
* Frames: 3 frames and the top level, activations 3 deep, a freelist of 2. Three
  frames are a call, a let within it and one that reuses or waits; depth 3 lets a
  tail call skip a let; the freelist is full with a third frame to be freed.
* Unwind: 4 nested forms, 2 tags, 2 values, 2 conditions, 2 types of handlers,
  recursion limit 0: a throw from within cleanup code inside an unwinding past a
  catch, a handler inside a handler, a debugger inside the debugger.
* ScratchPad: a pad of 6, 0 or 2 arguments or values, activations 3 deep: the pad
  overflows, and arguments wait in it while others are evaluated.
* Compiler: 5,478 bodies of up to three nested forms over two constants, one
  hidden by a variable of the frame around the function, each called twice and
  compiled again after one call.
* Packages: 4 packages, 2 names, 2 symbols, lists of one, three definitions of
  packages of which two redefine one: a name inherited, hidden, exported far away.
* SymbolTable: 5 names in a table of 8, three of which begin at one place: it fills with
  dead entries, and grows. MKHash: 5 keys, tables of 4 and more. HashTable: 4 keys,
  three in a bucket of two; a count that stays too high grows the table to 8 buckets,
  and unsetting shrinks it while an iterator is under way.
* Loading: 4 modules that require each other in a circle, one that fails and one that
  provides nothing, two threads.
* GenericFunction: 3 classes in a line, 4 methods of one and two arguments, one caller
  and one changer. PriorityQueue: 6 nodes of 2 priorities, `degree_map` of 4,
  trees of up to degree 2.
* Writer, Serializer: all heaps of 3 cells of the given kinds that hang together, which
  are all ways to share and to be circular at that size; two objects in a stream.
* Typed: all sequences of up to 6 tokens; Tokenizer: all texts of 3 characters out of
  13, and 6 long ones, in all pieces. Json: all texts of 4 characters out of 10,
  and about 150 objects.
* Numbers: words of 3 bits, fixnums up to 31, an `int64_t` of 9 bits, three more than a
  fixnum as in the code, shifts by up to 9, operands of up to three words with words
  that are zero or full, results up to `Limit`: the rare correction of the quotient digit
  and both corrections of Barrett reduction occur at this width.
* Lists: heaps of 3 pairs with every way to be linked, lists of items that repeat, and
  up to 3 applications of the procedure: a circle closed or cut behind and before the
  iterator.
* Strings: texts of up to 3 characters of one byte to four, a mark, and a character that
  gets shorter in upper case; 10 needles. CipherModes: blocks of two bytes of two bits,
  two ciphers, two vectors (the counter carries from byte to byte), 6 bytes in any
  pieces on both sides.

Deadlock is not checked where the bounds make a behaviour end: when all
messages are written, all operations done, the thread has exited or the text is read.
That nothing stops early is what `EveryWriteIsRead`, `CallsEnd`, `ScriptsEnd` and
`WritingEnds` say.

### What the failing runs show

* `channel_two_writers`: `new_writeptr` is computed before the wait
  (`lib/threads.c:375`). Two writers that find the buffer full both compute the
  same index; the second stores to a slot that the first has filled, or moves
  `writeptr` back, and an object is lost.
* `environment_define`: `dfsch_define` of a thread that is not the owner revokes the
  bias and takes the lock while the owner is within `dfsch_define` without it
  (`src/dfsch.c:978`); both use the first free slot and one variable is lost.
* `scratch_pad_values`: `%get-values` of a catch reads the values from the pad after
  catch has put it back as it was (`dfsch/magic.h:167`).
* `eqhash_last_set`: `find_entry` caches under bits 16 and up of the hash,
  `delete_entry` clears under bits 10 and up (`src/eqhash.c:229`), and `grow_hash`
  keeps the cache: a variable that was unset is still found.
* `frames_objects`: the environment in the condition of an unbound variable
  (`src/dfsch.c:790`), of a breakpoint and of a macro expansion is not marked; when
  its activation ends, the frame is zeroed and reused, and what the program then
  sees through the object are the variables of another call.
* `unwind_target`: a throw that is caught inside cleanup code resets `throw_tag`
  (`src/dfsch.c:522`); the unwinding that the cleanup code belongs to then goes on
  without a tag, no catch matches and the process aborts.
* `compiled_let`: a let of a compiled function declares its variable over a constant of
  the same frame without clearing the constant's flag (`src/compiler.c:257`): the
  variable is folded, to NIL.
* `strings_split`: `search_impl` goes on through a null pointer when nothing is found
  (`src/strings.c:1093`), unless the last character has fewer bytes than the needle: a
  split of "a,b" at "," ends the process.

Divergences met on the way that the properties leave out are named in the comments of
the properties and in section 2: keys lost behind an unset one, the four further ways to
compile wrongly, parasites lost or not detached, fixnums that lose bits when they are
shifted, stream ciphers that cannot be set up, a JSON string that ends in a backslash, characters
beyond U+FFFF, a lock left behind by a throw within a comparison. Some calls were left
out of the inputs because they read wild memory or never end: `string-trim-right` of
a string that is all in the bag, and splits by an empty separator.

### Fairness

* Channel: weak fairness of each thread's own steps, because the scheduler runs
  runnable threads and the mutex is free again and again. Threads that the
  program makes read keep on reading; a reader that stops would leave the last
  objects in the buffer. Spurious wakeups are not assumed.
* Environment: weak fairness of each operation that was begun. A thread that waits
  for the lock is enabled for good once the others have ended their bounded number
  of operations, so nothing is assumed about the order in which the lock is
  granted. SharedTable: the same, and threads go on to evaluate, so that they come to
  the place where they look at the slot.
* Loading: weak fairness of each thread. Data: weak fairness of the writer's steps.
* Everything else has safety properties only.

## 4. Proofs

`ThreadProofs` proves of a channel, with TLAPS, for every set of readers, every length
of the buffer, every number of messages and of spurious wakeups:

* `ChannelTypeCorrect`: the type invariant is inductive as it stands: it needs `BufLen > 0`, for `Succ` to stay in the ring, and that
  the two sets of threads are disjoint.
* `OneWriterFIFO`: if there is one writer, `Spec => []FIFO`. `FIFO` is not
  inductive: nothing in it says that the index a writer stores to `writeptr` is
  the successor of `writeptr`. The strengthening adds that while the writer is
  in its loop, checking or waiting, `new_writeptr = Succ(writeptr)`; this is
  just what a second writer destroys. With it a store lengthens `Buffered` by one
  at its end, a read shortens it by one at its front, and every other step leaves
  it alone; the lemmas about `Count` and `Succ` do the modular arithmetic.
* `OneWriterImplementsPipe`: with one writer each step of `Channel` is a `Put`, a
  `Take` or a stutter of `Pipe`, under the mapping of `queue` to `Buffered`.

The assumptions are the named ones of `Channel` and that there is one writer.

It proves of environments, for every set of threads, frames (with any creators and
parents) and variables, any number of slots and of operations:

* `EnvironmentTypeCorrect`: `Spec => []TypeOK`, where `TypeOK` includes that the lock is held
  by readers or by one writer.
* `BiasedRaces`: `Spec => []RacesAreBiased`. What says that two conflicting
  accesses cannot both be under the lock is not in the state of a frame, so the
  inductive invariant `LockInv` adds it: the owner of a frame is its creator or
  nobody (`OwnerIsCreator`, the bias is only ever taken away), who is within an
  access without the lock is the creator (`FreeIsCreator`), who is within one
  with the lock holds it (`LockHeld`, as long as nobody has unlocked what was not
  held), and `dfsch_define` does not find itself the owner of a frame that it has
  locked (`DefineRechecks`).
* `DefinitionsLast`: `Spec => []DefinedWithoutRace`. `DefineInv` adds that every
  race over a frame has been noted and that in a frame without one the slot
  somebody has found is still what the search would find: a writer has found
  the variable, or a free slot that is still free. `HitStep` is the step in which
  that matters. The search is a minimum of a set of slots; that there is one is
  the well-foundedness of the natural numbers (`SearchFinds`).

The assumptions are the named ones of `Environment`.

And of external references, for every set of handles with any numbers as their hashes, any
timeouts and modes, any number of threads, first size and times:

* `ServedUntilOver`: `Spec => []ServedInTime`, which is `ValidIsServed` and
  `DroppedInTime`. While the table is swept, what is valid need not be in its bucket:
  `ValidIsHeld` says that it is met on a walk from one of its `Heads`, which are what is
  left of the bucket being looked at, or, when entries are moved, what is left of the old
  chain, the later old chains and its new chain. A walk that met an entry still meets it,
  or meets it from where the old link led, when one link is changed (`WalkedCut`), and
  still meets all others when an entry is taken out behind the one before it
  (`WalkedPast`). That the last valid entry is the one before the entry looked at, or the
  end of its chain, when it may be one of another bucket, is `LastIsBefore`; that a table
  with a count of zero is empty, `CountIsOf`, on which `extref_get` relies when it
  refuses without the mutex. For `DroppedInTime` the invariant is that there is a set of entries that are not
  over before the next sweep is due, that links and buckets do not lead out of (`Fresh`):
  all that can be met is in it. A sweep begins with the empty set and adds each entry that
  it counts, and leaves the set closed as long as no first entry is over only just
  (`met`), which stays in its bucket.

The assumption is `ExtrefAssumption`: handles are numbers, timeouts are not negative, a
table has two buckets or more, and the sweeping thread is not one of the users. Neither
`MaxTime` nor `MaxCount` occurs in the proof.

`EvaluatorProofs` proves about `Frames`, for every set of frames, length of the freelist
and depth of calls:

* `TypeCorrect`: `Spec => []TypeOK`, where `TypeOK` says that all that is in use is
  allocated: nothing dangles when the collector has run.
* `FramesStayApart`: `Spec => []FramesApart`.
* `NothingInUseCleared`: `Spec => []ClearedOutOfReach`.

None of them is inductive. The invariant `Inv` says that there is a set K of frames
that outlive their activations (`Marks`): it is closed under parent, holds the
top-level environment, all marked frames and all that objects refer to, and
nothing of the freelist. That marking a frame marks those around it is what keeps
K closed. Of the activations (`Activations`) it says that a frame that will be
freed is in K only when it is marked, that the frame around one in use is in
K or in use below it, and that frames outside K are in use once. When a frame is
wiped it is not in K and no other activation uses it, so K and the frames of the
other activations are closed under parent without it (`InvCleared`). A step of the
evaluator keeps a prefix of the stack and its frames and starts at most one
activation (`EvaluatorStep`); each action is an instance of that, but for
`LetBody`, `Reify` and `Collect`, which have proofs of their own. `Reify` is where
`Marked`, the least set closed up to a marked frame, is compared with K.

The assumptions are the named ones of `Frames`.

It proves about `ScratchPad`, for a pad of every size, calls with any numbers of
arguments and any nesting:

* `ArgumentsAndValuesArrive`: `PadSpec => []PassedIntact`. Both parts of the property
  speak of one moment, when arguments have been bound and when values are returned; the
  invariant `PadInv` says where they are until then. The arguments of the innermost
  activation are what it was given, in the pad or out of it, unless they are exposed
  (`GivenThere`). Nothing that waits refers to the pad, but for an activation with a
  default under evaluation, whose first argument is bound and which is then exposed if
  the others are in the pad (`FirstBound`, in `Ordered`). A cleanup that waits has
  put aside the values that were to be returned (`Cleanup`), and so has what is being
  thrown (`ThrownRight`), which a form may take only while one unwinding is going on.
  The lemmas about the pad say that a list that is put in front of it with its end
  behind it is read back, whatever lies behind (`CopiedList`), and that the values
  after the first are those from the second cell on, which is how `values` returns its
  own arguments without moving them (`CellsBehind`, `Returned`). The assumption,
  that the end of a list is no value, is `PadAssumption`.

`PackageProofs` proves, for every set of packages, names and definitions of packages:

* `TypesCorrect`: `Spec => []TypeOK`: what a package uses, exports or is called by
  exists.
* `NamesUnique`: `Spec => []EachNameOnce`. A symbol is made only where the search of
  its package finds none of its name (`PkgFindFinds`); defining a package again
  interns several names in a row, which is followed one by one.
* `SymbolsReadBack`: `Spec => []WrittenReadsBack`. The strengthening adds that aliases
  lead to packages that exist (`AliasesExist`), that the homes of symbols do
  (`HomesExist`), and that there is a keyword package; the rest is that the searches of
  writing and reading, which are different code, find the same symbol when the name
  is not ambiguous.
* `NamesKeepMeaning`: `Spec => [][MeaningKept]_vars`, as `MeaningsKept`: no step changes
  what a name means in a package, but for the operations whose purpose that is. It
  follows from `TypeOK` and `EachNameOnce` before and after a step, since a search that
  found a symbol finds it, and no second one can have come before it.

The assumption is the named one of `Package`.

`UnwindProofs` proves, for every set of tags, values, conditions and handlers, and every
depth of the stack:

* `RegistersMatch`: `UnwindSpec => []ListsMatchStack`.
* `EveryCleanup`: `UnwindSpec => []CleanupsOwed`.
* `ThrowKeepsTarget`: `UnwindSpec => []UnwindingKeepsTarget`.
* `NotReentered`: `UnwindSpec => []HandlerNotReentered`.

They share one invariant (`Invariant`), of three parts. `Shape` says that the registers
fit the stack (`Fit`), and that what a frame has saved of them fits the frames beneath
it, so that a landing, which puts back what was saved, puts back what fits the shorter
stack; `ListsMatchStack` says nothing of what will be restored. It includes that the
handlers of a list were bound one after the other, by frames of the stack, and that
none is the one of a call of `dfsch_signal` or was bound between the two (`Apart`),
which is what keeps a handler from being applied again. `Counted` says that debuggers
on the stack are as many as `debugger_depth`, and protected bodies as many as cleanups
are owed. `Aimed` says that the throw that unwinds, and the one that waits for the
innermost cleanup it runs, has the tag it was thrown with and goes to the innermost
catch of it, until it is replaced by another throw inside a cleanup.
The assumption, that the marks of throws without a target are no tags of programs, is
`TagAssumption`.

`TableProofs` proves about `SharedTable`, for every set of threads and any number of
calls and requests:

* `TableStaysShared`: `TableSpec => []TableShared`. The invariant says that a thread is
  interrupted only where it compares keys or in a procedure (`Nested`); while the lock
  can still be released, that each thread holds it to read as often as it is within a
  call that reads, and whoever writes is alone (`Locked`), that calls are told apart
  and those that may set the key have not set it (`Numbered`), and that a call which was
  told that the key is not there began after none of those that have it set
  (`Entering`). Of the requests it says that the one in the slot came after all that
  were applied, and so did the one that a check has read, which is in the slot still
  or has been overwritten by one that is noted (`InTurn`). The assumption is
  `CallerAssumption`.

and about `Weak`, for every set of objects, addresses, chains, threads and names, any two
hashes of names, and any masks at which a hash begins, grows and shrinks:

* `ParasitesOfOwn`: `WeakSpec => []OwnParasites`. The invariant `WeakInv`
  says that objects that exist are at different addresses (`AddressesApart`); that an
  entry is in the chain of its object, that a live one is the only one of an object that
  exists, and has names that are right (`ChainsRight`): given to the object, expected of it
  or misplaced, and all that are expected unless it is astray (`Right`); and
  that an object of which any are expected has an entry unless it is astray, and one that
  is gone has none and nobody attaches any to it (`ParasitesEntered`). What `find_entry`
  leaves of a chain are live entries of it, each once (`WithoutDeadIs`), so nothing it does
  can mix up those of two objects. Of the hash of an object: entering a name adds that one
  (`WithNameIs`), resizing changes no name (`ResizedIs`), and removing one takes out what
  `TakenOut` says (`WithoutNameIs`), which has the name in it if its two hashes are the
  same, since it is then in the bucket that is searched (`TakenOutIs`). The assumption is
  `HashAssumption`: the mask is a number.

`LibraryProofs` proves, for every set of threads, scripts and modules, however they
require each other:

* `PackagesOfTexts`: `LoadSpec => []PackageOfText`. The package of a thread is what the
  innermost operation that has set one says. Inductive is that each operation has
  saved what those it is within have set (`InPackages`): leaving it then restores their
  package, whether it ended or failed. That the innermost operation is a least element
  is the well-foundedness of the natural numbers.
* `EachLoadedOnce`: `LoadSpec => []LoadedOnce`. `Once` adds that a module which provides
  itself first is in the list once it was loaded, or a thread is at its first form; a
  second thread that loads it then is just what `crossed` notes. `Providing` adds that
  who has read the list is at a provide, so that nothing else happens in between.

The assumption is `LoadingAssumption`: what texts require are modules.

and, for every set of methods, specializers and arguments, callers and changers:

* `DispatchAgrees`: `GenericSpec => []CacheAgrees`. The invariant adds that no method
  needs more keys than the cache has, unless a change of the methods has yet to reset it
  (`Fits`), and that what a caller is about to store is what dispatch computes, unless a
  change has overtaken it (`Computed`). Arguments with equal keys then have the same
  applicable methods (`KeysTell`). The assumption is `DispatchAssumption`.
* `SortedBySpeciality`: `GenericSpec => []MostSpecialFirst`. Merging takes one method
  after another: each method is taken once, and what was taken stays sorted, if `Before`
  is total and transitive on the methods (`MergeIs`). A pass over a list whose runs of `k`
  are sorted (`InRuns`) leaves all the methods in sorted runs of twice `k` (`PassIs`,
  `PassSorts`), so that the list is sorted after as many passes as it has methods at the
  latest (`SortIs`). `Before` is total and transitive where the specializers of each
  argument are in a line (`BeforeTransitive`): this is the hypothesis `InLine` of the
  property, which the code needs, since what `sort_methods` does with an order that is
  not transitive depends on where the methods stood. Passes, runs and places are
  recursive functions of numbers (`Recursion`, `Upward`).

and, for any number of objects of any priorities:

* `LeastFirst`: `QueueSpec => []PopsLeast`. The invariant `QueueInv` says that there is a
  set U of nodes that are inside, with what all their links lead to (`Linked`), in which
  every node has one parent or none and one link that leads to it, but for the roots
  (`Upwards`). Roots are, while a pop is under way, the node the walk has come to and the
  trees kept in `degree_map`, whose `next` is not looked at any more (`Loose`). `Join`, and
  the ways to end, cut and extend a list of roots, keep U so (`JoinedLinks`, `Ended`,
  `Behind`, `Kept`). A throw makes the roots of `degree_map` part of the list again, with
  the links they happen to have: therefore the invariant also says where the list from
  the head goes during the walk (`Reaches`): over some of the loose roots to the node
  the walk has come to, or astray into the children of a node that is not on it
  (`Astray`). Either way what the head leads to is a smaller U (`Threaded`, `Strayed`).
  As long as nothing was thrown U is all of what is inside, and the least set that links
  lead to (`Covers`), no node is less than its parent, and no root less than the head
  (`Whole`). That a degree fits `degree_map` is a matter of sizes: a node of degree d stands
  for 2^d nodes that were pushed (`Sizes`), those a throw has cut off included, and two
  roots stand for disjoint ones (`Subtrees`), so there would have to be more nodes than
  2^`MAX_DEGREE`. The assumption is `PriorityQueueAssumption`: priorities are numbers,
  nodes are fewer than a `size_t` counts, and powers of two double.

and, for any size of blocks, block cipher, vectors and texts of any length, cut in any way
on either side:

* `TextsArrive`: `CipherSpec => []Deciphers`, in each of the five modes. A block that was
  encrypted is decrypted with the same context, and leaves the same context behind
  (`BothInverse`). A call is a recursive function of its blocks (`CallIs`), so what was sent
  is a text P with the contexts it was sent with, one between any two blocks (`Enciphers`,
  `Sends`), and
  wherever the reader stands its context is the writer's of that place (`ReadUpTo`,
  `Receives`): this is the invariant `CipherInv`, with P the text that was to be sent and,
  once it is ended, the padding, of which the last byte is the length (`Sealed`). The
  assumption is `CipherAssumption`: a cipher tells blocks apart, combining a byte twice
  with another gives it back, and the size of a block can be written in a byte.

`HashingProofs` proves about the two tables with open addressing, for every set of
names, tuples and values, every hash, and every initial size:

* `TuplesMapped`: `MKSpec => []IsMap`. The invariant `MapInv` says that a free place has
  no value, that a key is in one place only, and that no free place lies before it on the
  way of a search for it (`Sound`); that the table holds what was last set (`Matches`);
  and that where nothing was unset all keys have values and the count is at most two
  thirds of the places, so that there is a free one. `resize_hash` is a recursive
  function of the entries that were moved: what it has moved so far is `Moved`, by
  induction over them. The assumption is `MKAssumption`.
* `SymbolsASet`: `SymbolSpec => []IsSet`. The invariant `SymbolInv` says the same of names
  and of dead entries, which are no free ones, and that `sym_count`, which counts the dead
  ones too, is at most one short of the entries that are not free, since a table that
  grows does not count the symbol that is put after that. With a mask of 3 this would not
  be enough for a free entry, which is why `SymbolAssumption` asks for more; the code has
  63, and 7 at least when a table grows.

That a search goes through all places is arithmetic (`PlaceIn`), that recursive functions
exist is `Recursion`.

It also proves about the tables of chains, for every set of keys and values, the two hashes
of `dfsch_hash_ref` and `dfsch_hash_unset` as different as they may be, and every size
at which a table begins, grows and shrinks:

* `ChainsAreMaps`: `HashTableSpec => []MapButForLost`.
* `IterationsAreWhole`: `HashTableSpec => IteratesOnce`.

They share `HashTableInv`, of two parts. `TableInv` says that the table is in order
(`Fit`): every entry is in the bucket of its key, no key has two, `count` is not below the
keys there are; that it has as many buckets as `count` (`Roomy`); and that its entries are
what was set of the keys that were not lost (`Agrees`). That chains end is part of it
(`Linear`): there is a rank that falls along `next`, so a chain is a recursive function of
rank, and what holds of its entries is shown by induction over them (`AlongChains`).
`hash_change_size` is followed entry by entry (`Recursion`, over buckets and over the
entries of one): whether an entry is taken over with what is behind it or copied, the
new vector has what was moved so far and nothing else (`Took`), and no entry that was
there before is changed, which is why an iterator on one of them is not disturbed. `WalkInv`
says of an iterator of a table that kept its size (`Walking`) that the keys on
the chain it stands on, which need not be one of the table any more, are of its bucket and
told apart; that those behind it were not seen, and those seen are of this bucket or
earlier ones; and that keys that are due are behind it or in later buckets, and in the
table. The assumption is `HashTableAssumption`: hashes are numbers, and the values that stand
for nothing are no entries, values or iterators.

`EqHashProofs` proves, for every set of keys and values, every hash, and every number of
entries of a small table, of the cache, and of buckets at first:

* `TablesAreMaps`: `HashSpec => []MapUntilRewritten`. The invariant (`Inv`) tells small
  tables from large ones. A small one agrees with what was set (`SmallAgrees`). A large one is
  `Shaped`: each chain begins with the entry of its bucket and has no entry twice, keys are
  where they are looked for (`Placed`) and have one entry (`Once`), the keys there are are
  at most `count`, which is at most the mask, and what is in the cache exists, if only
  because the cache keeps it from being collected. While nothing was
  rewritten it is also `Synced`: a free first entry has no chain behind it (`Tight`), without
  which `put` would hide one; entries are what was set; and cached entries, which
  growth leaves behind, have the values their keys have (`Current`). `Tight` does not survive
  unsetting the first entry of a chain and `Current` does not survive setting a key again
  after growth, which is what `rewritten` notes. Conversion and growth
  move entries one by one, free ones included (`Moved`, by induction over the recursive
  function). The assumption is `EqHashAssumption`: a small table has fewer entries than
  the first vector has buckets.

Model-checked only, and why:

* Liveness and everything that needs fairness, and `ENABLED`, which are out of the
  prover's reach: `EveryWriteIsRead`, `CallsEnd`, `ScriptsEnd`, `WritingEnds`.
* What recursive definitions compute for every input, since that is an induction over
  data: the parser, the writer, the serializer, numbers, strings, lists, JSON, the key
  streams of whole texts (`AsWhole`), the merge sort of `Lists`, and the compiler
  (`CompiledMeansSame`). But for `CipherModes`, their modules declare RECURSIVE operators,
  and no theorem can be reached from them.

## 5. What is not modelled

`PROJECT.json` gives the reason for each part. In short: the ciphers, hashes and other
numeric code that is straight-line arithmetic; glue to libraries, system calls and
ports, which is I/O; vendored code; Scheme code; the programs on top of the library;
vectors and
the annotations of lists, whose functions are one assignment each. Of the
modelled parts: the values of variables and entries of tables, declarations and flags
of frames, the trace and trace hooks of a thread, macros and let-constants in the
compiler, names and numerals character by character, flonums, the tables of Unicode,
byte vectors, and the C data races as such, beyond the interleaving of the steps the
models distinguish.

Most of the lines of the repository are in these parts: ports, bindings of external
libraries, vendored code, types and primitives together are far more than what has a
state that could go wrong in an unexpected order.

## 6. Plan

1. `Ports`: pushed back characters and line reading of `src/ports.c`, and their use by
   `lib/socket-port.c`.
2. The breakpoint and traced-function tables, which are created and dropped without a lock.
3. Composition: `Environment` over the two forms of the identity hash, with the
   conversion that its owner may run into; `Loading` over `Package` and `Unwind`.
