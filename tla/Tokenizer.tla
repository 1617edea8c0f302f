----------------------------- MODULE Tokenizer -----------------------------
(***************************************************************************)
(* The tokenizer of src/src/parse.c, which is given a text in pieces, as   *)
(* load gives it the blocks of a file, the terminal its lines and a port   *)
(* one character at a time, and calls the operations of the parser.        *)
(*                                                                         *)
(* A character is a string of length one.  What the tokenizer does not     *)
(* tell apart has one character here: "a" stands for the letters and the   *)
(* digits of hexadecimal numbers, "x" for the letters of no number but of  *)
(* the prefix #x, "n" for those of #n, "0" for the digits, " " for blanks  *)
(* and "~" for the backquote.                                              *)
(***************************************************************************)
EXTENDS Integers, Sequences, SequencesExt, FiniteSets

CONSTANTS Text  \* the texts that are read, as sequences of characters

VARIABLES
  text,      \* the text that is being read
  fed,       \* how much of it has been fed
  ctx,       \* the dfsch_parser_ctx_t
  first,     \* history: the context before anything of text was fed
  apart,     \* history: a piece ended between two characters that are one token
  failed     \* history: feeding text was given up for an error

vars == <<text, fed, ctx, first, apart, failed>>

P == INSTANCE Parser WITH EvalAllowed <- FALSE

Blank == {" ", "\n"}
Delimiter == Blank \union {"(", ")", ";"}
AfterDot == Blank \union {"(", ")"}
Letter == {"a", "x", "n"}
HexDigit == {"a", "0"}

NewContext == [state |-> "NONE", queue |-> <<>>, hook |-> "none", arg |-> 0,
               waiting |-> FALSE, parser |-> P!Fresh]

\* parser_reset and dfsch_parser_reset: the hook of the next atom stays.
ParserReset(c) == [c EXCEPT !.queue = <<>>, !.state = "NONE",
                            !.parser = P!Restarted(@)]

-----------------------------------------------------------------------------
(* Objects that are not made of others: a negative number for each kind    *)
(* and text.                                                               *)

Characters == <<" ", "\n", "(", ")", "'", "~", ",", "@", ".", ";", "\"", "\\",
                "#", "a", "x", "n", "0", "=", "!">>
Position(c) == CHOOSE i \in DOMAIN Characters : Characters[i] = c
Code(s) == FoldLeft(LAMBDA n, c : 20 * n + Position(c), 0, s)
Kinds == <<"atom", "number", "uninterned", "string", "byte-vector", "character">>
Atom(kind, s) == -(20 + 6 * Code(s) + CHOOSE i \in DOMAIN Kinds : Kinds[i] = kind)

Failure(c) == [c EXCEPT !.parser = P!Abort(@)]
Went(c, parser) == [c EXCEPT !.parser = parser]
ParseAtom(c, kind, s) == Went(c, P!ParseObject(c.parser, Atom(kind, s)))

\* What the hook makes of a text, or dispatch_atom if there is none.
Dispatched(c, s) ==
  CASE c.hook = "none" -> ParseAtom(c, "atom", s)
    [] c.hook = "uninterned" -> ParseAtom(c, "uninterned", s)
    [] c.hook = "number" -> IF s # <<>> /\ Range(s) \subseteq HexDigit
                            THEN ParseAtom(c, "number", s) ELSE Failure(c)

\* The hook is called before it is cleared: it stays when it does not return.
DispatchAtom(c, s) ==
  LET d == Dispatched(c, s)
  IN  IF P!Failed(d.parser) THEN d ELSE [d EXCEPT !.hook = "none"]

\* The characters between the quotation marks, escapes and all, stand for what
\* dispatch_string and dispatch_byte_vector make of them.
DispatchString(c, kind, s) == ParseAtom(c, kind, s)

-----------------------------------------------------------------------------
(* Scanning.                                                               *)

\* The place of the first character of a set from the i-th on; 0 if none.
FirstIn(s, set, i) ==
  LET found == {j \in i..Len(s) : s[j] \in set}
  IN  IF found = {} THEN 0 ELSE CHOOSE j \in found : \A k \in found : j <= k

\* The place of the quotation mark that ends a string; 0 if the text ends before.
RECURSIVE StringEnd(_, _)
StringEnd(s, i) ==
  IF i > Len(s) THEN 0
  ELSE IF s[i] = "\"" THEN i
  ELSE StringEnd(s, i + IF s[i] = "\\" /\ i < Len(s) THEN 2 ELSE 1)

From(s, i) == SubSeq(s, i, Len(s))
Before(s, i) == SubSeq(s, 1, i - 1)

Skipped(c, n) == [c EXCEPT !.queue = From(@, n + 1)]
Turned(c, state) == [c EXCEPT !.state = state]
Eaten(c, n, state) == Turned(Skipped(c, n), state)

Second(c) == IF Len(c.queue) > 1 THEN c.queue[2] ELSE "end"

-----------------------------------------------------------------------------
(* One turn of the loop of tokenizer_process in each state.                *)

\* The prefixes ~ ~@ , ,@ ,. have each a symbol.
Quote(c, n, symbol) == Went(Skipped(c, n), P!ParseQuote(c.parser, P!QUOTE - symbol))

AtNone(c) ==
  LET ch == Head(c.queue)
  IN  CASE ch \in Blank -> Skipped(c, 1)
        [] ch = "\"" -> Eaten(c, 1, "STRING")
        [] ch = "(" -> Went(Skipped(c, 1), P!ParseOpen(c.parser))
        [] ch = ")" -> Went(Skipped(c, 1), P!ParseClose(c.parser))
        [] ch = "'" -> Quote(c, 1, 0)
        [] ch = "~" -> IF Second(c) = "@" THEN Quote(c, 2, 1) ELSE Quote(c, 1, 2)
        [] ch = "," -> IF Second(c) = "@" THEN Quote(c, 2, 3)
                       ELSE IF Second(c) = "." THEN Quote(c, 2, 4) ELSE Quote(c, 1, 5)
        [] ch = "#" -> [Eaten(c, 1, "HASH") EXCEPT !.arg = 0]
        [] ch = ";" -> Eaten(c, 1, "COMMENT")
        [] ch = "." /\ Second(c) \in AfterDot \union {"end"} ->
             Went(Skipped(c, 1), P!ParseDot(c.parser))
        [] OTHER -> Turned(c, "ATOM")

\* The loop returns, to be fed more.
Wait(c) == [c EXCEPT !.waiting = TRUE]

\* Variant: a piece ends the atom it ends with.
AtAtomOfPiece(c) ==
  LET e == FirstIn(c.queue, Delimiter, 1)
  IN  IF e = 0 THEN Eaten(DispatchAtom(c, c.queue), Len(c.queue), "NONE")
      ELSE Eaten(DispatchAtom(c, Before(c.queue, e)), e - 1, "NONE")

AtAtom(c) ==
  LET e == FirstIn(c.queue, Delimiter, 1)
  IN  IF e = 0 THEN Wait(c)
      ELSE Eaten(DispatchAtom(c, Before(c.queue, e)), e - 1, "NONE")

AtString(c, kind) ==
  LET e == StringEnd(c.queue, 1)
  IN  IF e = 0 THEN Wait(c)
      ELSE Eaten(DispatchString(c, kind, Before(c.queue, e)), e, "NONE")

AtComment(c) ==
  LET e == FirstIn(c.queue, {"\n"}, 1)
  IN  IF e = 0 THEN [c EXCEPT !.queue = <<>>] ELSE Eaten(c, e - 1, "NONE")

WithHook(c, hook, arg) == [Eaten(c, 1, "ATOM") EXCEPT !.hook = hook, !.arg = arg]

AtHash(c) ==
  LET ch == Head(c.queue)
      rest == Eaten(c, 1, "NONE")
  IN  CASE ch = "0" -> [Skipped(c, 1) EXCEPT !.arg = 10 * @]
        [] ch = "n" -> Went(rest, P!ParseObject(c.parser, P!NIL))
        [] ch = "x" -> WithHook(c, "number", 16)
        [] ch = "(" -> Went(Turned(c, "NONE"), P!ParseVector(c.parser))
        [] ch = "\\" -> Eaten(c, 1, "CHAR")
        [] ch = "\"" -> Eaten(c, 1, "BYTE_VECTOR")
        [] ch = "!" -> Eaten(c, 1, "COMMENT")
        [] ch = "." -> Went(rest, P!ParseEval(c.parser))
        [] ch = "#" -> Went(rest, P!ParseTagReference(c.parser, c.arg))
        [] ch = "=" -> Went(rest, P!ParseTagDefinition(c.parser, c.arg))
        [] OTHER -> Failure(c)

\* A name of more than one letter is one of the table or fails; none of the
\* names of these letters is in it.
AtChar(c) ==
  LET e == FirstIn(c.queue, Delimiter, 1)
  IN  IF Head(c.queue) \in Letter /\ e = 0 THEN Wait(c)
      ELSE IF Head(c.queue) \in Letter /\ e > 2 THEN Failure(c)
      ELSE ParseAtom(Eaten(c, 1, "NONE"), "character", <<Head(c.queue)>>)

Turn(c) ==
  CASE c.state = "NONE" -> AtNone(c)
    [] c.state = "ATOM" -> AtAtom(c)
    [] c.state = "STRING" -> AtString(c, "string")
    [] c.state = "BYTE_VECTOR" -> AtString(c, "byte-vector")
    [] c.state = "COMMENT" -> AtComment(c)
    [] c.state = "HASH" -> AtHash(c)
    [] c.state = "CHAR" -> AtChar(c)

RECURSIVE Process(_)
Process(c) ==
  IF c.queue = <<>> \/ c.waiting \/ P!Failed(c.parser) THEN [c EXCEPT !.waiting = FALSE]
  ELSE Process(Turn(c))

Fed(c, s) == Process([c EXCEPT !.queue = @ \o s])

-----------------------------------------------------------------------------

Init ==
  /\ text \in Text
  /\ fed = 0
  /\ ctx = NewContext
  /\ first = NewContext
  /\ apart = FALSE
  /\ failed = FALSE

\* Whether the characters before and after a place are read as one token by
\* looking at the next character: ,@ and ,. and ~@ and a dot that begins an atom.
OneToken(i) ==
  /\ i < Len(text)
  /\ \/ text[i] \in {",", "~"} /\ text[i + 1] \in {"@", "."}
     \/ text[i] = "." /\ text[i + 1] \notin AfterDot

\* dfsch_parser_feed with the next characters of the text.  An error leaves
\* through the cleanup of the unwind, which resets the parser.
Feed(n) ==
  LET c == Fed(ctx, SubSeq(text, fed + 1, fed + n))
  IN  /\ ~failed
      /\ fed' = fed + n
      /\ ctx' = IF P!Failed(c.parser) THEN ParserReset(c) ELSE c
      /\ failed' = P!Failed(c.parser)
      /\ apart' = (apart \/ OneToken(fed'))
      /\ UNCHANGED <<text, first>>

\* dfsch_parser_reset, by the handler of SIGINT while a line is read, or what a
\* caller does after an error; then the text is typed again.
Reset ==
  /\ ctx' = [ParserReset(ctx) EXCEPT !.parser = P!Fresh]
  /\ first' = ctx'
  /\ fed' = 0
  /\ apart' = FALSE
  /\ failed' = FALSE
  /\ UNCHANGED text

Next == (\E n \in 1..(Len(text) - fed) : Feed(n)) \/ Reset

Spec == Init /\ [][Next]_vars

-----------------------------------------------------------------------------
(* Properties.                                                             *)

\* What the parser is in is what one piece of all it was fed would put it in:
\* how a text is cut into blocks, lines or characters does not matter, but for
\* a cut within a token of two characters (parse.c, tokenizer_process).
PiecesDoNotMatter ==
  LET whole == Fed(first, SubSeq(text, 1, fed))
  IN  ~apart => IF failed THEN P!Failed(whole.parser) ELSE ctx = whole
=============================================================================
