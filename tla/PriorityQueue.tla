---------------------------- MODULE PriorityQueue ---------------------------
(***************************************************************************)
(* The priority queue of src/lib/collections.c: a list of trees whose      *)
(* first root is the least.  A pop takes it, makes roots of its children   *)
(* and joins trees of equal degree, comparing objects by a procedure of    *)
(* the program.  The procedure may throw: the pop is then left as far as   *)
(* it has come.  A pop takes an action for each turn of its loops.         *)
(*                                                                         *)
(* Objects are numbered in the order they are pushed; a push whose         *)
(* comparison throws changes nothing and is left out.                      *)
(***************************************************************************)
EXTENDS Integers, Sequences

CONSTANTS
  MaxNodes,    \* bound: how many objects are pushed
  Priority,    \* what the procedure compares objects by
  MAX_DEGREE   \* 64, the bits of a size_t

NoNode == 0
Node == 1..MaxNodes
Degree == 0..(MAX_DEGREE - 1)

\* There is a degree for every tree.  (The last conjunct holds of all numbers.)
PriorityQueueAssumption ==
  /\ Priority \subseteq Int
  /\ MaxNodes \in Nat /\ MAX_DEGREE \in Nat \ {0} /\ MaxNodes < 2^MAX_DEGREE
  /\ 2^0 = 1 /\ \A d \in Degree : 2^d \in Nat /\ 2^(d + 1) = 2 * 2^d

VARIABLES
  head,
  next, children, degree,   \* of each node
  pop,         \* the call of pop: how far it is, at which node, and degree_map
  priority,    \* of the object of each node pushed
  inside,      \* history: the nodes pushed and not popped
  popped,      \* history: the nodes popped, the last one first
  failed       \* history: a pop was left by a throw

links == <<next, children, degree>>
history == <<priority, inside, popped, failed>>
queueVars == <<head, links, pop, history>>

NoRoots == [d \in Degree |-> NoNode]
NoPop == [at |-> "none", i |-> NoNode, map |-> NoRoots, res |-> NoNode]

Lt(i, j) == priority[i] < priority[j]

-----------------------------------------------------------------------------
(* dfsch_collections_priority_queue_pop                                    *)

QueueInit ==
  /\ head = NoNode
  /\ next = [i \in Node |-> NoNode] /\ children = [i \in Node |-> NoNode]
  /\ degree = [i \in Node |-> 0]
  /\ pop = NoPop
  /\ priority = <<>> /\ inside = {} /\ popped = <<>> /\ failed = FALSE

\* dfsch_collections_priority_queue_push
Push(p) ==
  LET n == Len(priority) + 1 IN
  /\ pop = NoPop /\ n <= MaxNodes
  /\ priority' = Append(priority, p)
  /\ inside' = inside \union {n}
  /\ IF head = NoNode \/ p < priority[head]
     THEN head' = n /\ next' = [next EXCEPT ![n] = head]
     ELSE next' = [next EXCEPT ![n] = next[head], ![head] = n] /\ UNCHANGED head
  /\ UNCHANGED <<children, degree, pop, popped, failed>>

\* The head is taken off the list.
Behead ==
  /\ pop = NoPop /\ head # NoNode
  /\ head' = next[head]
  /\ inside' = inside \ {head}
  /\ pop' = IF children[head] = NoNode
            THEN [NoPop EXCEPT !.at = "join", !.i = next[head], !.res = head]
            ELSE [NoPop EXCEPT !.at = "last", !.i = children[head], !.res = head]
  /\ UNCHANGED <<links, priority, popped, failed>>

NextChild ==
  /\ pop.at = "last" /\ next[pop.i] # NoNode
  /\ pop' = [pop EXCEPT !.i = next[@]]
  /\ UNCHANGED <<head, links, history>>

\* The other roots go behind the last child.
LinkChildren ==
  /\ pop.at = "last" /\ next[pop.i] = NoNode
  /\ next' = [next EXCEPT ![pop.i] = head]
  /\ head' = children[pop.res]
  /\ pop' = [pop EXCEPT !.at = "join", !.i = children[pop.res]]
  /\ UNCHANGED <<children, degree, history>>

\* The first root of its degree.
KeepRoot ==
  /\ pop.at = "join" /\ pop.i # NoNode /\ pop.map[degree[pop.i]] = NoNode
  /\ pop' = [pop EXCEPT !.map[degree[pop.i]] = pop.i, !.i = next[@]]
  /\ UNCHANGED <<head, links, history>>

\* Two trees of a degree are to be joined.
Equals == pop.at = "join" /\ pop.i # NoNode /\ pop.map[degree[pop.i]] # NoNode

\* cn becomes the first child of pn, with which the loop goes on.
Join(pn, cn) ==
  /\ next' = [next EXCEPT ![cn] = children[pn], ![pn] = next[pop.i]]
  /\ children' = [children EXCEPT ![pn] = cn]
  /\ degree' = [degree EXCEPT ![pn] = @ + 1]
  /\ pop' = [pop EXCEPT !.map[degree[pop.i]] = NoNode, !.i = pn]
  /\ UNCHANGED <<head, history>>

JoinTrees ==
  /\ Equals
  /\ LET r == pop.map[degree[pop.i]]
     IN  IF Lt(pop.i, r) THEN Join(pop.i, r) ELSE Join(r, pop.i)

\* d is the least degree of a root.
Smallest(d) == pop.map[d] # NoNode /\ \A e \in Degree : e < d => pop.map[e] = NoNode

\* The first root is the list.
FirstRoot ==
  /\ pop.at = "join" /\ pop.i = NoNode
  /\ \/ /\ pop.map = NoRoots /\ head' = NoNode /\ UNCHANGED next
        /\ pop' = [pop EXCEPT !.at = "put"]
     \/ \E d \in Degree :
          /\ Smallest(d)
          /\ head' = pop.map[d]
          /\ next' = [next EXCEPT ![pop.map[d]] = NoNode]
          /\ pop' = [pop EXCEPT !.at = "put", !.map[d] = NoNode]
  /\ UNCHANGED <<children, degree, history>>

PutBehind(r) == next' = [next EXCEPT ![r] = next[head], ![head] = r] /\ UNCHANGED head
PutBefore(r) == next' = [next EXCEPT ![r] = head] /\ head' = r

\* Variant: every root goes before the head.
PutFirst ==
  /\ pop.at = "put"
  /\ \E d \in Degree :
       /\ Smallest(d)
       /\ PutBefore(pop.map[d])
       /\ pop' = [pop EXCEPT !.map[d] = NoNode]
  /\ UNCHANGED <<children, degree, history>>

\* The others are put before the head or behind it.
PutRoot ==
  /\ pop.at = "put"
  /\ \E d \in Degree :
       /\ Smallest(d)
       /\ IF Lt(head, pop.map[d]) THEN PutBehind(pop.map[d]) ELSE PutBefore(pop.map[d])
       /\ pop' = [pop EXCEPT !.map[d] = NoNode]
  /\ UNCHANGED <<children, degree, history>>

Return ==
  /\ pop.at = "put" /\ pop.map = NoRoots
  /\ popped' = <<pop.res>> \o popped
  /\ pop' = NoPop
  /\ UNCHANGED <<head, links, priority, inside, failed>>

\* A comparison throws: the object popped is lost.
Throw ==
  /\ Equals \/ (pop.at = "put" /\ pop.map # NoRoots)
  /\ pop' = NoPop
  /\ failed' = TRUE
  /\ UNCHANGED <<head, links, priority, inside, popped>>

QueueNext ==
  \/ \E p \in Priority : Push(p)
  \/ Behead \/ NextChild \/ LinkChildren \/ KeepRoot \/ JoinTrees \/ FirstRoot \/ PutRoot
  \/ Return \/ Throw

QueueSpec == QueueInit /\ [][QueueNext]_queueVars

-----------------------------------------------------------------------------
(* Correctness.                                                            *)

\* The nodes of the trees: the least set with the head that has the children and
\* the next one of each.
InTrees ==
  {n \in Node : \A S \in SUBSET Node :
     /\ head \in S \union {NoNode}
     /\ \A i \in S : next[i] \in S \union {NoNode} /\ children[i] \in S \union {NoNode}
     => n \in S}

\* Only one link leads to a node, and none to the head.
EachOnce ==
  /\ \A i, j \in InTrees :
       /\ next[i] = next[j] /\ next[i] # NoNode => i = j
       /\ children[i] = children[j] /\ children[i] # NoNode => i = j
       /\ next[i] = children[j] => next[i] = NoNode
  /\ head # NoNode => \A i \in InTrees : next[i] # head /\ children[i] # head

\* Nothing is popped twice or out of nowhere, also from a queue whose trees were
\* half joined when a comparison threw; where none has thrown every object is
\* kept until it is popped and the head is the least (collections.c, push and
\* pop).
PopsLeast ==
  pop = NoPop =>
    /\ EachOnce /\ InTrees \subseteq inside
    /\ \A k, l \in DOMAIN popped : popped[k] = popped[l] => k = l
    /\ \A k \in DOMAIN popped : popped[k] \notin inside
    /\ ~failed => InTrees = inside /\ \A i \in inside : ~Lt(i, head)
=============================================================================
