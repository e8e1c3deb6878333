------------------------------- MODULE TopoSort -------------------------------
(***************************************************************************)
(* topological_sort: the deltas of a migration in an order that respects    *)
(* their prerequisites.  Kahn's algorithm over in-degrees with a FIFO queue; *)
(* the nodes that become ready together enter the queue by ascending key.   *)
(*                                                                         *)
(* A prerequisite that is listed twice is an edge once, and an empty list    *)
(* says what an absent entry says, so `dependencies' is a function to sets. *)
(* Of the list of nodes only its members and its length are ever looked at. *)
(***************************************************************************)
EXTENDS Integers, Sequences, FiniteSets

CONSTANTS
    Node,       \* hashable objects: the nodes, and whatever else is named
    Key,        \* [Node -> Int]: the rank of a node by sort key, then by its place in the list
    NodeSets,   \* BOUND: the sets of nodes that are sorted
    Repeats     \* BOUND: how often a node may be listed again

ASSUME NodeAssumption == IsFiniteSet(Node) /\ NodeSets \subseteq SUBSET Node

ASSUME KeyAssumption ==
    /\ Key \in [Node -> Int]
    /\ \A m, n \in Node : Key[m] = Key[n] => m = n

ASSUME RepeatsAssumption == Repeats \in Nat

VARIABLES
    nodes,      \* set(nodes)
    listed,     \* len(node_list)
    prereqs,    \* dependencies: [Node -> the nodes that must come first]
    phase,      \* "validate", "build", "sort" or "done"
    inDegree,   \* [nodes -> Nat]: prerequisites not emitted yet
    queue,      \* ready nodes, in the order they will be emitted
    result,     \* the nodes emitted so far
    answer,     \* what topological_sort returned or raised
    members     \* cycle_members of the error

input == <<nodes, listed, prereqs>>
vars == <<input, phase, inDegree, queue, result, answer, members>>

Emitted == {result[i] : i \in 1 .. Len(result)}
Queued == {queue[i] : i \in 1 .. Len(queue)}

TypeOK ==
    /\ nodes \in SUBSET Node
    /\ listed \in Nat
    /\ prereqs \in [Node -> SUBSET Node]
    /\ phase \in {"validate", "build", "sort", "done"}
    /\ inDegree \in [nodes -> Nat]
    /\ queue \in Seq(nodes)
    /\ result \in Seq(nodes)
    /\ answer \in {"none", "order", "ValueError", "KeyError",
                   "CyclicDependencyError"}
    /\ members \in SUBSET nodes

Init ==
    /\ nodes \in NodeSets
    /\ listed \in Cardinality(nodes) .. (Cardinality(nodes) + Repeats)
    /\ prereqs \in [Node -> SUBSET Node]
    /\ phase = "validate"
    /\ inDegree = [n \in nodes |-> 0]
    /\ queue = <<>>
    /\ result = <<>>
    /\ answer = "none"
    /\ members = {}

-----------------------------------------------------------------------------

\* sorted(S, key=key): the members of S by ascending key.
Sorted(S) ==
    {s \in [1 .. Cardinality(S) -> S] :
        \A i, j \in 1 .. Cardinality(S) : i < j => Key[s[i]] < Key[s[j]]}

\* Faulty variant: every node that is left counts as a successor.
DegreeOfAny(node, n) == inDegree[n] - 1

\* The in-degree of n once node is emitted.
DegreeAfter(node, n) == inDegree[n] - (IF node \in prereqs[n] THEN 1 ELSE 0)

\* Faulty variant: a successor is ready whatever else it waits for.
NewlyReached(node) == {n \in nodes : node \in prereqs[n]}

\* The successors of node whose in-degree drops to zero.
NewlyReady(node) ==
    {n \in nodes : node \in prereqs[n] /\ DegreeAfter(node, n) = 0}

\* Faulty variant: the newly ready nodes go first.
Prepend(q, s) == s \o q

Enqueue(q, s) == q \o s

\* Faulty variant: a node that waits for a single other one is not named.
RemainingAboveOne == {n \in nodes : inDegree[n] > 1}

Remaining == {n \in nodes : inDegree[n] > 0}

Raise(error) ==
    /\ phase' = "done"
    /\ answer' = error
    /\ UNCHANGED <<input, inDegree, queue, result>>

\* A prerequisite must be a node.
Validate ==
    /\ phase = "validate"
    /\ \/ /\ \E n \in Node : ~(prereqs[n] \subseteq nodes)
          /\ Raise("ValueError")
       \/ /\ \A n \in Node : prereqs[n] \subseteq nodes
          /\ phase' = "build"
          /\ UNCHANGED <<input, inDegree, queue, result, answer>>
    /\ UNCHANGED members

\* The in-degrees and the first queue.  A dependent that is no node is not
\* validated: it has no in-degree to increment.
Build ==
    /\ phase = "build"
    /\ \/ /\ \E n \in Node \ nodes : prereqs[n] # {}
          /\ Raise("KeyError")
       \/ /\ \A n \in Node \ nodes : prereqs[n] = {}
          /\ inDegree' = [n \in nodes |-> Cardinality(prereqs[n])]
          /\ queue' \in Sorted({n \in nodes : prereqs[n] = {}})
          /\ phase' = "sort"
          /\ UNCHANGED <<input, result, answer>>
    /\ UNCHANGED members

\* One round of the loop: the first ready node is emitted.
Emit ==
    LET node == Head(queue)
    IN  /\ phase = "sort"
        /\ queue # <<>>
        /\ result' = Append(result, node)
        /\ inDegree' = [n \in nodes |-> DegreeAfter(node, n)]
        /\ \E ready \in Sorted(NewlyReady(node)) :
              queue' = Enqueue(Tail(queue), ready)
        /\ UNCHANGED <<input, phase, answer, members>>

\* Faulty variants: what was emitted is not counted; only a complete order ends
\* the call.
FinishUncounted ==
    /\ phase = "sort"
    /\ queue = <<>>
    /\ phase' = "done"
    /\ answer' = "order"
    /\ UNCHANGED <<input, inDegree, queue, result, members>>
FinishComplete ==
    /\ phase = "sort"
    /\ queue = <<>>
    /\ Len(result) = listed
    /\ phase' = "done"
    /\ answer' = "order"
    /\ UNCHANGED <<input, inDegree, queue, result, members>>

\* The queue has drained.
Finish ==
    /\ phase = "sort"
    /\ queue = <<>>
    /\ \/ /\ Len(result) # listed
          /\ Raise("CyclicDependencyError")
          /\ members' = Remaining
       \/ /\ Len(result) = listed
          /\ phase' = "done"
          /\ answer' = "order"
          /\ UNCHANGED <<input, inDegree, queue, result, members>>

Next == Validate \/ Build \/ Emit \/ Finish

Spec == Init /\ [][Next]_vars

\* topological_sort is a loop of one thread.
FairSpec == Spec /\ WF_vars(Next)

-----------------------------------------------------------------------------
(* Properties *)

\* Every member of C waits for another member of C (or for itself).
Blocked(C) == \A n \in C : prereqs[n] \cap C # {}

Cyclic == \E C \in SUBSET nodes : C # {} /\ Blocked(C)

\* n is its own prerequisite, however indirectly: it is in every set that has
\* its prerequisites and the prerequisites of each of its members.
OnCycle(n) ==
    \A D \in SUBSET nodes :
        prereqs[n] \subseteq D /\ (\A m \in D : prereqs[m] \subseteq D) => n \in D

\* PREREQUISITES FIRST.  At every moment of the sort, each emitted node comes
\* after all of its prerequisites.
PrerequisitesFirst ==
    \A i \in 1 .. Len(result) : \A p \in prereqs[result[i]] :
        \E j \in 1 .. (i - 1) : result[j] = p

\* THE ANSWER IS RIGHT.  An order is returned only for an acyclic graph and has
\* every node once; a cycle is reported only if there is one, or if a node was
\* listed twice.
AnswerRight ==
    /\ answer = "order" =>
          ~Cyclic /\ Emitted = nodes /\ Len(result) = Cardinality(nodes)
    /\ answer = "CyclicDependencyError" =>
          Cyclic \/ listed # Cardinality(nodes)

\* CYCLES ARE NAMED.  The error names every node that is on a cycle.
CyclesNamed ==
    answer = "CyclicDependencyError" =>
        \A n \in nodes : OnCycle(n) => n \in members

\* The position of the last member of P in s, 0 if there is nothing to wait for.
LastOf(s, P) ==
    IF P = {} THEN 0
    ELSE CHOOSE i \in 1 .. Len(s) :
            s[i] \in P /\ \A j \in (i + 1) .. Len(s) : s[j] \notin P

\* When the last prerequisite of a node was emitted.
Released(n) == LastOf(result, prereqs[n])

\* RELEASE ORDER.  Nodes are emitted in the order in which their last
\* prerequisite was, and by key where that is the same: the order depends on the
\* graph and the keys only, not on how sets or mappings are iterated.
ReleaseOrder ==
    \A i, j \in 1 .. Len(result) :
        i < j =>
            \/ Released(result[i]) < Released(result[j])
            \/ /\ Released(result[i]) = Released(result[j])
               /\ Key[result[i]] < Key[result[j]]

\* THE SORT ENDS.  Every call returns or raises.
Terminates == <>(answer # "none")

-----------------------------------------------------------------------------
(* The inductive invariant behind the safety properties *)

Distinct(s) == \A i, j \in 1 .. Len(s) : s[i] = s[j] => i = j

\* The loop has been reached.
Sorting ==
    phase = "sort" \/ answer \in {"order", "CyclicDependencyError"}

\* What was emitted is counted; a node waits in the queue exactly when all of
\* its prerequisites were emitted, and it was not; no blocked set has lost a
\* member.
LoopInv ==
    /\ \A n \in Node : prereqs[n] \subseteq nodes
    /\ \A n \in nodes : inDegree[n] = Cardinality(prereqs[n] \ Emitted)
    /\ Distinct(queue) /\ Distinct(result)
    /\ Queued = {n \in nodes \ Emitted : prereqs[n] \subseteq Emitted}
    /\ Cardinality(Emitted) = Len(result)
    /\ \A C \in SUBSET nodes : Blocked(C) => C \cap Emitted = {}

\* What is so once the loop has ended.
EndInv ==
    /\ phase # "done" => answer = "none"
    /\ answer # "none" => phase = "done"
    /\ answer = "none" => members = {}
    /\ answer \in {"order", "CyclicDependencyError"} => queue = <<>>
    /\ answer = "order" => Len(result) = listed
    /\ answer = "CyclicDependencyError" =>
          Len(result) # listed /\ members = Remaining

SortInv ==
    /\ TypeOK
    /\ IsFiniteSet(nodes)
    /\ Cardinality(nodes) <= listed
    /\ phase \in {"validate", "build"} => queue = <<>> /\ result = <<>>
    /\ phase = "build" => \A n \in Node : prereqs[n] \subseteq nodes
    /\ ~Sorting => result = <<>>
    /\ Sorting => LoopInv
    /\ PrerequisitesFirst
    /\ EndInv

\* The members of P are in s, and i is where the last one is.
IsLast(s, P, i) ==
    IF P = {} THEN i = 0
    ELSE /\ i \in 1 .. Len(s)
         /\ s[i] \in P
         /\ \A j \in 1 .. Len(s) : s[j] \in P => j <= i

\* line has the order that emitting r gives, with the prerequisites d.
InOrder(line, r, d) ==
    /\ \A i \in 1 .. Len(line) : IsLast(r, d[line[i]], LastOf(r, d[line[i]]))
    /\ \A i, j \in 1 .. Len(line) : i < j =>
          \/ LastOf(r, d[line[i]]) < LastOf(r, d[line[j]])
          \/ /\ LastOf(r, d[line[i]]) = LastOf(r, d[line[j]])
             /\ Key[line[i]] < Key[line[j]]

\* The ready nodes wait in the order in which they will be emitted, behind
\* those that were.
OrderInv == Sorting => InOrder(result \o queue, result, prereqs)

=============================================================================
