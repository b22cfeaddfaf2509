------------------------- MODULE CircularDependencies -------------------------
(***************************************************************************)
(* lib/Lintian/Check/GroupChecks.pm, source(): which packages of one       *)
(* source depend on each other in a circle, by Tarjan's search for         *)
(* strongly connected components; and lib/Lintian/Group.pm,                *)
(* direct_dependencies(), where the edges come from.                       *)
(*                                                                         *)
(* Installables come in hash order, that is in any order, and so do the    *)
(* nodes and the neighbours of a node.  A recursive call of _tarjans_sc is *)
(* one entry of calls.                                                     *)
(***************************************************************************)
EXTENDS Integers, Sequences, FiniteSets

CONSTANTS
    Installable, Udeb,
    Name, NameOf,   \* packages of one name differ in their architecture
    Setups          \* the pairs of members and strong that are considered

ASSUME CircularAssumption ==
    /\ IsFiniteSet(Installable) /\ IsFiniteSet(Name)
    /\ Udeb \subseteq Installable /\ NameOf \in [Installable -> Name]
    /\ \A u \in Udeb, i \in Installable \ Udeb : NameOf[u] # NameOf[i]
    /\ Setups \subseteq (SUBSET Installable) \X [Installable -> SUBSET Name]

VARIABLES
    members,        \* the installables of the group (input)
    strong,         \* the names that Pre-Depends and Depends ask for (input)
    phase,
    dependencies,   \* saved_direct_dependencies: name -> installables
    nodes, edges,   \* @nodes, %edges
    number, low,    \* node_info
    index,
    stack, on_stack,
    calls,          \* the nodes whose _tarjans_sc is running, innermost last
    todo,           \* their neighbours that are still to be looked at
    scc,            \* the components found, each as a set
    hints

inputs == <<members, strong>>
search == <<number, low, index, stack, on_stack, calls, todo, scc>>
vars == <<inputs, phase, dependencies, nodes, edges, search, hints>>

NotYet == -1
Elements(s) == {s[i] : i \in DOMAIN s}
Top == calls[Len(calls)]
Least(a, b) == IF a < b THEN a ELSE b

TypeOK ==
    /\ members \subseteq Installable /\ strong \in [Installable -> SUBSET Name]
    /\ phase \in {"dependencies", "nodes", "search", "done"}
    /\ dependencies \in [Name -> SUBSET Installable]
    /\ nodes \subseteq Name /\ edges \in [Name -> SUBSET Name]
    /\ number \in [Name -> Nat \cup {NotYet}] /\ low \in [Name -> Nat \cup {NotYet}]
    /\ index \in Nat /\ stack \in Seq(Name) /\ on_stack = Elements(stack)
    /\ calls \in Seq(Name) /\ todo \in [Name -> SUBSET Name]
    /\ scc \subseteq SUBSET Name /\ hints \subseteq scc

Init ==
    /\ (\E s \in Setups : members = s[1] /\ strong = s[2]) /\ phase = "dependencies"
    /\ dependencies = [n \in Name |-> {}] /\ nodes = {} /\ edges = [n \in Name |-> {}]
    /\ number = [n \in Name |-> NotYet] /\ low = [n \in Name |-> NotYet] /\ index = 0
    /\ stack = <<>> /\ on_stack = {} /\ calls = <<>> /\ todo = [n \in Name |-> {}]
    /\ scc = {} /\ hints = {}

-----------------------------------------------------------------------------
\* What this one depends on, itself left out.
Needs(that) ==
    {this \in members : NameOf[this] # NameOf[that] /\ NameOf[this] \in strong[that]}

\* The table is keyed by name: of several installables the last one stays.
DirectDependencies ==
    /\ phase = "dependencies" /\ phase' = "nodes"
    /\ \E last \in [{NameOf[i] : i \in members} -> members] :
          /\ \A n \in DOMAIN last : NameOf[last[n]] = n
          /\ dependencies' = [n \in Name |-> IF n \in DOMAIN last THEN Needs(last[n]) ELSE {}]
    /\ UNCHANGED <<inputs, nodes, edges, search, hints>>

Dependent == {i \in members \ Udeb : dependencies[NameOf[i]] # {}}

\* The nodes are a list: two of one name count twice when it decides to go on.
CollectNodes ==
    /\ phase = "nodes"
    /\ nodes' = {NameOf[i] : i \in Dependent}
    /\ edges' = [n \in Name |-> IF n \in nodes' THEN {NameOf[d] : d \in dependencies[n]} ELSE {}]
    /\ phase' = IF Cardinality(Dependent) < 2 THEN "done" ELSE "search"
    /\ UNCHANGED <<inputs, dependencies, search, hints>>

-----------------------------------------------------------------------------
\* _tarjans_sc, up to its loop.
Call(n) ==
    /\ number' = [number EXCEPT ![n] = index] /\ low' = [low EXCEPT ![n] = index]
    /\ index' = index + 1
    /\ stack' = Append(stack, n) /\ on_stack' = on_stack \cup {n}
    /\ calls' = Append(calls, n) /\ todo' = [todo EXCEPT ![n] = edges[n]]
    /\ UNCHANGED <<inputs, phase, dependencies, nodes, edges, scc, hints>>

VisitNode ==
    /\ phase = "search" /\ calls = <<>>
    /\ \E n \in nodes : number[n] = NotYet /\ Call(n)

VisitNeighbour ==
    /\ phase = "search" /\ calls # <<>>
    /\ \E n \in todo[Top] : number[n] = NotYet /\ Call(n)

\* Mutant: every node seen before is taken for one of this component.
MeetNeighbourAnywhere ==
    /\ phase = "search" /\ calls # <<>>
    /\ \E n \in todo[Top] :
          /\ number[n] # NotYet
          /\ low' = [low EXCEPT ![Top] = Least(@, number[n])]
          /\ todo' = [todo EXCEPT ![Top] = @ \ {n}]
    /\ UNCHANGED <<inputs, phase, dependencies, nodes, edges, number, index, stack, on_stack,
                   calls, scc, hints>>

MeetNeighbour ==
    /\ phase = "search" /\ calls # <<>>
    /\ \E n \in todo[Top] :
          /\ number[n] # NotYet
          /\ low' = [low EXCEPT ![Top] = IF n \in on_stack THEN Least(@, number[n]) ELSE @]
          /\ todo' = [todo EXCEPT ![Top] = @ \ {n}]
    /\ UNCHANGED <<inputs, phase, dependencies, nodes, edges, number, index, stack, on_stack,
                   calls, scc, hints>>

\* Mutant: the popped nodes stay marked.
PopKeepsMarks ==
    \E i \in DOMAIN stack :
        /\ stack[i] = Top /\ \A j \in DOMAIN stack : stack[j] = Top => j <= i
        /\ stack' = SubSeq(stack, 1, i - 1) /\ on_stack' = on_stack
        /\ scc' = scc \cup {{stack[j] : j \in i .. Len(stack)}}

\* The stack is popped until the node itself comes off.
PopComponent ==
    \E i \in DOMAIN stack :
        /\ stack[i] = Top /\ \A j \in DOMAIN stack : stack[j] = Top => j <= i
        /\ LET component == {stack[j] : j \in i .. Len(stack)}
           IN  scc' = scc \cup {component} /\ on_stack' = on_stack \ component
        /\ stack' = SubSeq(stack, 1, i - 1)

\* Mutant: the caller does not look at what the call found.
ReturnForgetsLow ==
    /\ phase = "search" /\ calls # <<>> /\ todo[Top] = {}
    /\ IF low[Top] = number[Top] THEN PopComponent ELSE UNCHANGED <<stack, on_stack, scc>>
    /\ calls' = SubSeq(calls, 1, Len(calls) - 1)
    /\ IF Len(calls) = 1 THEN UNCHANGED todo
       ELSE LET caller == calls[Len(calls) - 1]
            IN  todo' = [todo EXCEPT ![caller] = @ \ {Top}]
    /\ UNCHANGED <<inputs, phase, dependencies, nodes, edges, number, low, index, hints>>

\* _tarjans_sc, after its loop, and what its caller does next.
Return ==
    /\ phase = "search" /\ calls # <<>> /\ todo[Top] = {}
    /\ IF low[Top] = number[Top] THEN PopComponent ELSE UNCHANGED <<stack, on_stack, scc>>
    /\ calls' = SubSeq(calls, 1, Len(calls) - 1)
    /\ IF Len(calls) = 1 THEN UNCHANGED <<low, todo>>
       ELSE LET caller == calls[Len(calls) - 1]
            IN  /\ low' = [low EXCEPT ![caller] = Least(@, low[Top])]
                /\ todo' = [todo EXCEPT ![caller] = @ \ {Top}]
    /\ UNCHANGED <<inputs, phase, dependencies, nodes, edges, number, index, hints>>

Report ==
    /\ phase = "search" /\ calls = <<>> /\ \A n \in nodes : number[n] # NotYet
    /\ hints' = {c \in scc : Cardinality(c) >= 2} /\ phase' = "done"
    /\ UNCHANGED <<inputs, dependencies, nodes, edges, search>>

Terminated == phase = "done" /\ UNCHANGED vars

Next == DirectDependencies \/ CollectNodes \/ VisitNode \/ VisitNeighbour \/ MeetNeighbour
        \/ Return \/ Report \/ Terminated

Spec == Init /\ [][Next]_vars

-----------------------------------------------------------------------------
\* The reference: m needs n if some package called m asks for some package
\* called n.  Two packages need each other, directly or through others, if
\* each set that is closed under this has both or none of them.
NeedsName(m, n) ==
    /\ m # n /\ \E i \in members : NameOf[i] = n
    /\ \E i \in members \ Udeb : NameOf[i] = m /\ n \in strong[i]
Closed == {S \in SUBSET Name : \A m \in S, n \in Name : NeedsName(m, n) => n \in S}

\* No hint without a circle: any two packages of a hint of
\* intra-source-package-circular-dependency need each other, also where
\* several packages have one name.
HintsAreCircles == hints # {} =>
    \A S \in Closed : \A c \in hints : c \subseteq S \/ c \cap S = {}

\* No circle without its hint, and each whole: where names are unique there is
\* one hint for each largest set of packages that need each other.
CirclesAreReported ==
    phase = "done" /\ (\A i, j \in members : NameOf[i] = NameOf[j] => i = j) =>
        LET closed == Closed
            circle(m) == {n \in Name : \A S \in closed : m \in S <=> n \in S}
        IN  hints = {c \in {circle(m) : m \in Name} : \E m, n \in c : m # n}
=============================================================================
