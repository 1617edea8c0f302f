------------------------------ MODULE MCThreads ------------------------------
(***************************************************************************)
(* An instance for TLC of what threads share: a channel, the frames of     *)
(* environments, the table of external references, the parasites of        *)
(* objects and a hash table.  A behaviour is one of one of them: which     *)
(* says of which, and the variables of the others stay as they are.        *)
(***************************************************************************)
EXTENDS Channel, Environment, Extref, SharedTable, Weak, TLC

CONSTANTS main, other, third, top, inner, x, y

VARIABLE which

allvars == <<which, channelVars, vars, tableVars, weakVars, extrefVars>>

-----------------------------------------------------------------------------
\* The top level frame of one thread and, below it, a frame of another one; a
\* third thread uses both.  The second variable is only defined, at the top.
MCParent == top :> NoFrame @@ inner :> top
MCCalls ==
  [op : Op, name : {x}, frame : Frame]
    \union {[op |-> "define", name |-> y, frame |-> top]}
MCCreator == top :> main @@ inner :> other

\* Three references, two of them in one bucket of the initial table and told
\* apart by a larger one; a sweep falls due while they are made, and after.
HandleHash == 1 :> 0 @@ 2 :> 2 @@ 3 :> 1
Kinds == {<<0, "fromnow">>, <<1, "refresh">>, <<3, "onceonly">>}

\* Four objects, two of which take turns at one address, all in one chain.
ObjectAddress == "o1" :> 1 @@ "o2" :> 1 @@ "o3" :> 2 @@ "o4" :> 3
OneChain == [a \in 1..3 |-> 1]
\* Two names that share a chain, where one of them is not looked for to be removed
\* once the hash has grown twice.
NameHash == "p" :> 0 @@ "q" :> 0
NameUnsetHash == "p" :> 0 @@ "q" :> 2

\* What the theorems about SharedTable and Extref assume holds of these constants.
ASSUME DistinctCallers == CallerAssumption
ASSUME HandlesAndTimes == ExtrefAssumption

ThreadsInit ==
  /\ which \in {"channel", "environment", "extref", "table", "weak"}
  /\ ChannelInit /\ Init /\ ExtrefInit /\ TableInit /\ WeakInit

OfChannel(A) ==
  which = "channel" /\ A /\ UNCHANGED <<which, vars, tableVars, weakVars, extrefVars>>
OfEnvironment(A) ==
  which = "environment" /\ A /\ UNCHANGED <<which, channelVars, tableVars, weakVars, extrefVars>>

OfTable(A) ==
  which = "table" /\ A /\ UNCHANGED <<which, channelVars, vars, weakVars, extrefVars>>

ThreadsNext ==
  \/ OfChannel(ChannelNext)
  \/ OfEnvironment(Next)
  \/ OfTable(TableNext)
  \/ /\ which = "extref" /\ ExtrefNext
     /\ UNCHANGED <<which, channelVars, vars, tableVars, weakVars>>
  \/ /\ which = "weak" /\ WeakNext
     /\ UNCHANGED <<which, channelVars, vars, tableVars, extrefVars>>

\* The fairness of FairChannelSpec, FairSpec and TableSpec.
ThreadsSpec ==
  /\ ThreadsInit /\ [][ThreadsNext]_allvars
  /\ \A w \in Writers :
       WF_allvars(OfChannel(BeginWrite(w) \/ Write(w) \/ Reacquire(w)))
  /\ \A r \in Readers :
       WF_allvars(OfChannel(BeginRead(r) \/ Read(r) \/ Reacquire(r)))
  /\ \A t \in Thread : WF_allvars(OfEnvironment(Step(t)))
  /\ \A c \in Caller : WF_allvars(OfTable(~entangled /\ TableStep(c)))

-----------------------------------------------------------------------------
\* Operations on frames end, and those on tables, and a thread sees to what it is
\* asked to apply (dfsch.c, hash.c).
CallsEnd == OperationsEnd /\ AllSettled
=============================================================================
