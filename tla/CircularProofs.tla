---------------------------- MODULE CircularProofs ----------------------------
(***************************************************************************)
(* Proofs about CircularDependencies: the search finds the circles, each   *)
(* whole and no other, for all groups, relations and orders of the search. *)
(***************************************************************************)
EXTENDS CircularDependencies, FiniteSetTheorems, TLAPS

\* Along the edges E a path leads from m to n.
Reach(E, m, n) ==
    \A S \in SUBSET Name : m \in S /\ (\A x \in S : E[x] \subseteq S) => n \in S

\* The running calls are on the stack, outer ones below inner ones, and each
\* still has the call it made on its list.
CallsInv ==
    /\ \A k \in DOMAIN calls : calls[k] \in on_stack
    /\ \A j, k \in DOMAIN calls : j < k => number[calls[j]] < number[calls[k]]
    /\ \A k \in DOMAIN calls : k + 1 \in DOMAIN calls => calls[k + 1] \in todo[calls[k]]

\* The stack is in the order of visits, and begins with the outermost call.
StackInv ==
    /\ \A i, j \in DOMAIN stack : i < j => number[stack[i]] < number[stack[j]]
    /\ \A n \in Name : number[n] < index
    /\ stack # <<>> => calls # <<>> /\ stack[1] = calls[1]

\* What was visited is on the stack or in a component, never in both.
VisitedInv ==
    /\ \A n \in Name : number[n] # NotYet <=> n \in on_stack \cup UNION scc
    /\ on_stack \cap UNION scc = {}

\* low is the number of a node on the stack that can be reached.
LowInv == \A n \in on_stack :
    /\ low[n] <= number[n]
    /\ \E m \in on_stack : number[m] = low[n] /\ Reach(edges, n, m)

\* Every neighbour is visited or on the list, and the list of a node whose
\* call has returned is empty.
TodoInv ==
    /\ \A n \in on_stack : todo[n] \subseteq edges[n]
    /\ \A n \in on_stack, m \in Name : m \in edges[n] /\ m \notin todo[n] => number[m] # NotYet
    /\ \A n \in on_stack : todo[n] = {} \/ n \in Elements(calls)

\* The innermost call at or below a node on the stack has a low at most the
\* number of any neighbour that the node has looked at.
NeighbourInv ==
    \A k \in DOMAIN calls, n, m \in on_stack :
        /\ number[calls[k]] <= number[n]
        /\ k + 1 \in DOMAIN calls => number[n] < number[calls[k + 1]]
        /\ m \in edges[n] /\ m \notin todo[n]
        => low[calls[k]] <= number[m]

\* A call leads to all above it on the stack, and all on the stack lead to it
\* that are not above the next call.
PathsInv ==
    \A k \in DOMAIN calls, n \in on_stack :
        /\ number[calls[k]] <= number[n] => Reach(edges, calls[k], n)
        /\ (k + 1 \in DOMAIN calls => number[n] < number[calls[k + 1]])
           => Reach(edges, n, calls[k])

\* No edge leaves the components found, and each is a whole circle.
ComponentInv ==
    /\ \A n \in UNION scc : edges[n] \subseteq UNION scc
    /\ \A c \in scc : \A m \in c, n \in Name :
          n \in c <=> Reach(edges, m, n) /\ Reach(edges, n, m)

SearchInv == /\ CallsInv /\ StackInv /\ VisitedInv /\ LowInv /\ TodoInv /\ NeighbourInv
             /\ PathsInv /\ ComponentInv

Unique == \A i, j \in members : NameOf[i] = NameOf[j] => i = j

\* The edges are needs, and all needs where names are unique.
EdgesInv ==
    /\ \A m, n \in Name : n \in edges[m] => NeedsName(m, n) /\ m \in nodes
    /\ Unique => \A m, n \in Name : NeedsName(m, n) => n \in edges[m]

DependenciesInv ==
    /\ \A n \in Name : dependencies[n] # {} =>
          \E i \in members : NameOf[i] = n /\ dependencies[n] = Needs(i)
    /\ \A i \in members : \E j \in members :
          NameOf[j] = NameOf[i] /\ dependencies[NameOf[i]] = Needs(j)

Unstarted == /\ number = [n \in Name |-> NotYet] /\ index = 0 /\ stack = <<>> /\ on_stack = {}
             /\ calls = <<>> /\ scc = {}

\* What the report says once the search is over.
DoneInv ==
    /\ calls = <<>> /\ stack = <<>>
    /\ \/ Unstarted /\ hints = {} /\ Cardinality(Dependent) < 2
       \/ (\A n \in nodes : number[n] # NotYet) /\ hints = {c \in scc : Cardinality(c) >= 2}

IInv ==
    /\ TypeOK
    /\ phase \in {"dependencies", "nodes"} => Unstarted /\ hints = {}
    /\ phase # "dependencies" => DependenciesInv
    /\ phase \in {"search", "done"} =>
          EdgesInv /\ SearchInv /\ nodes = {NameOf[i] : i \in Dependent}
    /\ phase = "search" => hints = {}
    /\ phase = "done" => DoneInv

-----------------------------------------------------------------------------
\* Paths: one of no length, an edge, two in a row, and none out of a closed set.
LEMMA ReachSelf == \A E, n : n \in Name => Reach(E, n, n)
  BY DEF Reach

LEMMA ReachEdge ==
    ASSUME NEW E \in [Name -> SUBSET Name], NEW m \in Name, NEW n \in E[m]
    PROVE  Reach(E, m, n)
  BY DEF Reach

LEMMA ReachTrans ==
    ASSUME NEW E, NEW l, NEW m, NEW n, Reach(E, l, m), Reach(E, m, n)
    PROVE  Reach(E, l, n)
  BY DEF Reach

LEMMA ReachStays ==
    ASSUME NEW E, NEW S \in SUBSET Name, \A x \in S : E[x] \subseteq S, NEW m \in S, NEW n, Reach(E, m, n)
    PROVE  n \in S
  BY DEF Reach

LEMMA StackTypes ==
    ASSUME TypeOK
    PROVE  /\ Elements(stack) \subseteq Name /\ on_stack \subseteq Name /\ Elements(calls) \subseteq Name
           /\ calls # <<>> => /\ Len(calls) \in DOMAIN calls /\ Top \in Name
                              /\ \A k \in DOMAIN calls : k <= Len(calls) /\ k \in Nat /\ k >= 1
  BY DEF TypeOK, Elements, Top

\* The innermost call has the greatest number.
LEMMA CallOrder ==
    ASSUME TypeOK, SearchInv, NEW k \in DOMAIN calls
    PROVE  /\ calls # <<>> /\ Top \in on_stack /\ number[calls[k]] <= number[Top]
           /\ k + 1 \in DOMAIN calls => number[calls[k]] < number[Top]
           /\ k + 1 \notin DOMAIN calls => calls[k] = Top
  <1>1. DOMAIN calls = 1 .. Len(calls) /\ Len(calls) \in Nat /\ k \in Nat /\ k >= 1 /\ k <= Len(calls)
    BY DEF TypeOK
  <1>2. Len(calls) \in DOMAIN calls /\ calls # <<>> /\ calls[k] \in Name /\ number[calls[k]] \in Int
    BY <1>1 DEF TypeOK, NotYet
  <1>3. Top \in on_stack
    BY <1>2 DEF SearchInv, CallsInv, Top
  <1>4. CASE k < Len(calls)
    <2>1. number[calls[k]] < number[Top]
      BY <1>2, <1>4 DEF SearchInv, CallsInv, Top
    <2>2. number[Top] \in Int
      BY <1>2 DEF TypeOK, NotYet, Top
    <2>3. QED BY <1>1, <1>2, <1>3, <1>4, <2>1, <2>2
  <1>5. CASE k = Len(calls)
    BY <1>1, <1>2, <1>3, <1>5 DEF Top
  <1>6. QED BY <1>1, <1>4, <1>5

-----------------------------------------------------------------------------
\* A call: the new node is on top of everything.
LEMMA CallStructure ==
    ASSUME TypeOK, TypeOK', SearchInv, NEW n \in Name, number[n] = NotYet, Call(n),
           calls # <<>> => n \in todo[Top], calls = <<>> => stack = <<>>
    PROVE  CallsInv' /\ StackInv' /\ VisitedInv'
  <1>1. n \notin on_stack /\ n \notin UNION scc
    BY DEF SearchInv, VisitedInv
  <1>2. /\ number' = [number EXCEPT ![n] = index] /\ index' = index + 1 /\ index \in Nat
        /\ stack' = Append(stack, n) /\ on_stack' = on_stack \cup {n} /\ calls' = Append(calls, n)
        /\ todo' = [todo EXCEPT ![n] = edges[n]] /\ scc' = scc
        /\ number \in [Name -> Nat \cup {NotYet}] /\ todo \in [Name -> SUBSET Name]
        /\ calls \in Seq(Name) /\ stack \in Seq(Name) /\ on_stack = Elements(stack)
    BY DEF Call, TypeOK
  <1>3. CallsInv'
    <2>1. \A k \in DOMAIN calls' : calls'[k] \in on_stack'
      BY <1>2 DEF SearchInv, CallsInv
    <2>2. \A m \in Name : number[m] < index
      BY DEF SearchInv, StackInv
    <2>3. \A k \in DOMAIN calls : calls[k] # n /\ calls[k] \in Name
      BY <1>1, <1>2 DEF SearchInv, CallsInv
    <2>4. \A j, k \in DOMAIN calls' : j < k => number'[calls'[j]] < number'[calls'[k]]
      BY <1>2, <2>2, <2>3 DEF SearchInv, CallsInv
    <2>5. \A k \in DOMAIN calls' : k + 1 \in DOMAIN calls' => calls'[k + 1] \in todo'[calls'[k]]
      BY <1>2, <2>3 DEF SearchInv, CallsInv, Top
    <2>6. QED BY <2>1, <2>4, <2>5 DEF CallsInv
  <1>4. StackInv'
    <2>1. \A i \in DOMAIN stack : stack[i] # n /\ stack[i] \in Name
      BY <1>1, <1>2 DEF Elements
    <2>2. \A i, j \in DOMAIN stack' : i < j => number'[stack'[i]] < number'[stack'[j]]
      BY <1>2, <2>1 DEF SearchInv, StackInv
    <2>3. \A m \in Name : number'[m] < index'
      BY <1>2 DEF SearchInv, StackInv, NotYet
    <2>4. calls' # <<>> /\ stack'[1] = calls'[1]
      <3>1. CASE calls = <<>>
        BY <1>2, <3>1
      <3>2. CASE calls # <<>>
        <4>1. stack # <<>>
          BY <1>2, <3>2, StackTypes DEF SearchInv, CallsInv, Elements
        <4>2. stack[1] = calls[1] /\ Len(stack) >= 1 /\ Len(calls) >= 1
          BY <1>2, <3>2, <4>1 DEF SearchInv, StackInv
        <4>3. QED BY <1>2, <4>2
      <3>3. QED BY <3>1, <3>2
    <2>5. QED BY <2>2, <2>3, <2>4 DEF StackInv
  <1>5. VisitedInv'
    BY <1>1, <1>2 DEF SearchInv, VisitedInv, NotYet
  <1>6. QED BY <1>3, <1>4, <1>5

LEMMA CallPaths ==
    ASSUME TypeOK, TypeOK', SearchInv, NEW n \in Name, number[n] = NotYet, Call(n),
           calls # <<>> => n \in todo[Top], calls = <<>> => stack = <<>>
    PROVE  LowInv' /\ TodoInv' /\ NeighbourInv' /\ PathsInv' /\ ComponentInv'
  <1>1. n \notin on_stack /\ n \notin UNION scc
    BY DEF SearchInv, VisitedInv
  <1>2. /\ number' = [number EXCEPT ![n] = index] /\ low' = [low EXCEPT ![n] = index]
        /\ index' = index + 1 /\ index \in Nat /\ edges' = edges /\ edges \in [Name -> SUBSET Name]
        /\ on_stack' = on_stack \cup {n} /\ calls' = Append(calls, n) /\ calls \in Seq(Name)
        /\ todo' = [todo EXCEPT ![n] = edges[n]] /\ scc' = scc /\ on_stack \subseteq Name
        /\ number \in [Name -> Nat \cup {NotYet}] /\ todo \in [Name -> SUBSET Name]
        /\ low \in [Name -> Nat \cup {NotYet}]
    BY StackTypes DEF Call, TypeOK
  <1>3. \A m \in Name : number[m] < index
    BY DEF SearchInv, StackInv
  <1>4. \A k \in DOMAIN calls : calls[k] # n /\ calls[k] \in Name
    BY <1>1, <1>2 DEF SearchInv, CallsInv
  <1>5. \A k \in DOMAIN calls' : \/ k \in DOMAIN calls /\ calls'[k] = calls[k]
                                 \/ k = Len(calls) + 1 /\ calls'[k] = n
    BY <1>2
  <1>6. \A k \in DOMAIN calls : k \in DOMAIN calls' /\ k \in Nat
                                /\ (k + 1 \in DOMAIN calls' => k + 1 \in DOMAIN calls \/ calls'[k + 1] = n)
                                /\ (k + 1 \in DOMAIN calls => k + 1 \in DOMAIN calls' /\ calls'[k + 1] = calls[k + 1])
                                /\ (k + 1 \notin DOMAIN calls => calls[k] = Top)
                                /\ k + 1 \in DOMAIN calls'
    BY <1>2 DEF Top
  <1>7. LowInv'
    <2>1. \A m \in on_stack : low'[m] <= number'[m]
      BY <1>1, <1>2 DEF SearchInv, LowInv
    <2>2. \A m \in on_stack : \E l \in on_stack' : number'[l] = low'[m] /\ Reach(edges', m, l)
      BY <1>1, <1>2 DEF SearchInv, LowInv
    <2>3. low'[n] <= number'[n] /\ number'[n] = low'[n] /\ Reach(edges', n, n)
      BY <1>2, ReachSelf
    <2>4. QED BY <1>2, <2>1, <2>2, <2>3 DEF LowInv
  <1>8. TodoInv'
    <2>1. \A m \in on_stack' : todo'[m] \subseteq edges'[m]
      BY <1>1, <1>2 DEF SearchInv, TodoInv
    <2>2. \A m \in on_stack', l \in Name : l \in edges'[m] /\ l \notin todo'[m] => number'[l] # NotYet
      BY <1>1, <1>2 DEF SearchInv, TodoInv, NotYet
    <2>3. Elements(calls) \subseteq Elements(calls') /\ n \in Elements(calls')
      <3>1. n = calls'[Len(calls) + 1] /\ Len(calls) + 1 \in DOMAIN calls'
        BY <1>2
      <3>2. \A k \in DOMAIN calls : k \in DOMAIN calls' /\ calls'[k] = calls[k]
        BY <1>2
      <3>3. QED BY <3>1, <3>2 DEF Elements
    <2>4. \A m \in on_stack' : todo'[m] = {} \/ m \in Elements(calls')
      BY <1>1, <1>2, <2>3 DEF SearchInv, TodoInv
    <2>5. QED BY <2>1, <2>2, <2>4 DEF TodoInv
  <1>9. NeighbourInv'
    <2> SUFFICES ASSUME NEW k \in DOMAIN calls', NEW l \in on_stack', NEW m \in on_stack',
                        number'[calls'[k]] <= number'[l],
                        k + 1 \in DOMAIN calls' => number'[l] < number'[calls'[k + 1]],
                        m \in edges'[l], m \notin todo'[l]
                 PROVE  low'[calls'[k]] <= number'[m]
      BY DEF NeighbourInv
    <2>1. l # n
      BY <1>2
    <2>2. l \in on_stack
      BY <1>2, <2>1
    <2>3. m # n
      BY <1>2, <2>1, <2>2 DEF SearchInv, TodoInv
    <2>4. k \in DOMAIN calls /\ calls'[k] = calls[k]
      <3>1. number'[l] = number[l] /\ number[l] < index /\ number'[n] = index
            /\ number[l] \in Int
        BY <1>2, <1>3, <2>1, <2>2 DEF NotYet
      <3>2. calls'[k] # n
        BY <1>2, <3>1
      <3>3. QED BY <1>5, <3>2
    <2>5. number'[l] = number[l] /\ number'[m] = number[m] /\ m \in on_stack
          /\ number'[calls'[k]] = number[calls[k]] /\ low'[calls'[k]] = low[calls[k]]
      BY <1>2, <1>4, <2>1, <2>3, <2>4
    <2>6. k + 1 \in DOMAIN calls => number[l] < number[calls[k + 1]]
      BY <1>2, <1>4, <1>6, <2>4, <2>5
    <2>7. m \in edges[l] /\ m \notin todo[l]
      BY <1>2, <2>1
    <2>8. QED BY <2>2, <2>4, <2>5, <2>6, <2>7 DEF SearchInv, NeighbourInv
  <1>10. PathsInv'
    <2>1. \A k \in DOMAIN calls : Reach(edges, calls[k], n)
      <3> SUFFICES ASSUME NEW k \in DOMAIN calls PROVE Reach(edges, calls[k], n)
        OBVIOUS
      <3>1. calls # <<>> /\ Top \in on_stack /\ number[calls[k]] <= number[Top]
        BY <1>4, CallOrder
      <3>2. Reach(edges, calls[k], Top)
        BY <3>1 DEF SearchInv, PathsInv
      <3>3. n \in edges[Top]
        BY <3>1 DEF SearchInv, TodoInv
      <3>4. QED BY <1>2, <3>1, <3>2, <3>3, ReachEdge, ReachTrans
    <2>2. \A m \in on_stack : calls # <<>> => Reach(edges, m, n)
      <3> SUFFICES ASSUME NEW m \in on_stack, calls # <<>> PROVE Reach(edges, m, n)
        OBVIOUS
      <3>1. Len(calls) \in DOMAIN calls /\ Len(calls) + 1 \notin DOMAIN calls
        BY <1>2
      <3>2. Reach(edges, m, Top)
        BY <3>1 DEF SearchInv, PathsInv, Top
      <3>3. QED BY <2>1, <3>1, <3>2, ReachTrans DEF Top
    <2>3. \A m \in on_stack : calls # <<>>
      BY <1>2 DEF TypeOK, Elements
    <2> SUFFICES ASSUME NEW k \in DOMAIN calls', NEW m \in on_stack'
                 PROVE  /\ number'[calls'[k]] <= number'[m] => Reach(edges, calls'[k], m)
                        /\ (k + 1 \in DOMAIN calls' => number'[m] < number'[calls'[k + 1]])
                           => Reach(edges, m, calls'[k])
      BY <1>2 DEF PathsInv
    <2>4. CASE k \notin DOMAIN calls
      <3>1. calls'[k] = n
        BY <1>5, <2>4
      <3>2. number'[n] <= number'[m] => m = n
        BY <1>2, <1>3 DEF NotYet
      <3>3. QED BY <1>2, <2>2, <2>3, <3>1, <3>2, ReachSelf
    <2>5. CASE k \in DOMAIN calls /\ m = n
      <3>1. calls'[k] = calls[k] /\ k + 1 \in DOMAIN calls'
            /\ (calls'[k + 1] = n \/ \E j \in DOMAIN calls : calls'[k + 1] = calls[j])
        BY <1>5, <1>6, <2>5, <1>2
      <3>2. ~(number'[n] < number'[calls'[k + 1]])
        BY <1>2, <1>3, <1>4, <3>1 DEF NotYet
      <3>3. QED BY <2>1, <2>5, <3>1, <3>2
    <2>6. CASE k \in DOMAIN calls /\ m # n
      <3>1. m \in on_stack /\ calls'[k] = calls[k] /\ number'[m] = number[m]
            /\ number'[calls'[k]] = number[calls[k]]
        BY <1>2, <1>4, <2>6
      <3>2. k + 1 \in DOMAIN calls => calls'[k + 1] = calls[k + 1] /\ k + 1 \in DOMAIN calls'
                                      /\ number'[calls'[k + 1]] = number[calls[k + 1]]
        BY <1>2, <1>4, <1>6, <2>6
      <3>3. QED BY <2>6, <3>1, <3>2 DEF SearchInv, PathsInv
    <2>7. QED BY <2>4, <2>5, <2>6
  <1>11. ComponentInv'
    <2>1. edges' = edges /\ scc' = scc
      BY <1>2
    <2>2. QED BY <2>1 DEF SearchInv, ComponentInv
  <1>12. QED BY <1>7, <1>8, <1>9, <1>10, <1>11

-----------------------------------------------------------------------------
\* A neighbour that was visited before.
LEMMA MeetKeepsInv ==
    ASSUME TypeOK, TypeOK', SearchInv, MeetNeighbour
    PROVE  SearchInv'
  <1>1. PICK m \in todo[Top] :
          /\ number[m] # NotYet
          /\ low' = [low EXCEPT ![Top] = IF m \in on_stack THEN Least(@, number[m]) ELSE @]
          /\ todo' = [todo EXCEPT ![Top] = @ \ {m}]
    BY DEF MeetNeighbour
  <1>2. /\ UNCHANGED <<edges, number, index, stack, on_stack, calls, scc>> /\ calls # <<>>
        /\ number \in [Name -> Nat \cup {NotYet}] /\ todo \in [Name -> SUBSET Name]
        /\ low \in [Name -> Nat \cup {NotYet}] /\ on_stack \subseteq Name /\ calls \in Seq(Name)
        /\ edges \in [Name -> SUBSET Name] /\ scc \subseteq SUBSET Name
    BY StackTypes DEF MeetNeighbour, TypeOK
  <1>3. Len(calls) \in DOMAIN calls /\ Top \in Name /\ Top \in on_stack /\ m \in Name
    BY <1>1, <1>2, StackTypes, CallOrder
  <1>4. m \in edges[Top]
    BY <1>1, <1>3 DEF SearchInv, TodoInv
  <1>5. \A n \in on_stack : /\ low'[n] <= low[n] /\ (n # Top => low'[n] = low[n])
                            /\ number[n] \in Nat /\ low[n] \in Int /\ number[n] \in Int
    BY <1>1, <1>2 DEF SearchInv, VisitedInv, Least, NotYet
  <1>6. m \in on_stack => low'[Top] <= number[m] /\ low'[Top] \in {low[Top], number[m]}
    BY <1>1, <1>2, <1>3, <1>5 DEF Least
  <1>7. CallsInv'
    <2>1. \A k \in DOMAIN calls : k + 1 \in DOMAIN calls => calls[k + 1] \in todo'[calls[k]]
      <3> SUFFICES ASSUME NEW k \in DOMAIN calls, k + 1 \in DOMAIN calls
                   PROVE  calls[k + 1] \in todo'[calls[k]]
        OBVIOUS
      <3>1. number[calls[k]] < number[Top] /\ calls[k + 1] \in todo[calls[k]] /\ calls[k] \in Name
        BY <1>2, CallOrder DEF SearchInv, CallsInv
      <3>2. calls[k] # Top
        BY <1>3, <1>5, <3>1
      <3>3. QED BY <1>1, <1>2, <1>3, <3>1, <3>2
    <2>2. QED BY <1>2, <2>1 DEF SearchInv, CallsInv
  <1>8. StackInv' /\ VisitedInv'
    BY <1>2 DEF SearchInv, StackInv, VisitedInv
  <1>9. LowInv'
    <2> SUFFICES ASSUME NEW n \in on_stack
                 PROVE  low'[n] <= number[n] /\ \E l \in on_stack : number[l] = low'[n] /\ Reach(edges, n, l)
      BY <1>2 DEF LowInv
    <2>1. low[n] <= number[n] /\ \E l \in on_stack : number[l] = low[n] /\ Reach(edges, n, l)
      BY DEF SearchInv, LowInv
    <2>2. low'[n] <= number[n]
      BY <1>1, <1>2, <1>3, <1>5, <2>1 DEF NotYet, Least
    <2>3. CASE low'[n] = low[n]
      BY <2>1, <2>2, <2>3
    <2>4. CASE low'[n] # low[n]
      <3>1. n = Top /\ m \in on_stack /\ low'[Top] = number[m]
        BY <1>1, <1>2, <1>3, <1>5, <1>6, <2>4
      <3>2. Reach(edges, Top, m)
        BY <1>2, <1>3, <1>4, ReachEdge
      <3>3. QED BY <2>2, <3>1, <3>2
    <2>5. QED BY <2>3, <2>4
  <1>10. TodoInv'
    BY <1>1, <1>2, <1>3 DEF SearchInv, TodoInv, Elements
  <1>11. NeighbourInv'
    <2> SUFFICES ASSUME NEW k \in DOMAIN calls, NEW n \in on_stack, NEW l \in on_stack,
                        number[calls[k]] <= number[n],
                        k + 1 \in DOMAIN calls => number[n] < number[calls[k + 1]],
                        l \in edges[n], l \notin todo'[n]
                 PROVE  low'[calls[k]] <= number[l]
      BY <1>2 DEF NeighbourInv
    <2>1. calls[k] \in on_stack
      BY DEF SearchInv, CallsInv
    <2>2. CASE l \notin todo[n]
      <3>1. low[calls[k]] <= number[l]
        BY <2>2 DEF SearchInv, NeighbourInv
      <3>2. low'[calls[k]] <= low[calls[k]] /\ number[l] \in Int /\ low[calls[k]] \in Int
            /\ low'[calls[k]] \in Int
        BY <1>1, <1>2, <1>3, <1>5, <2>1 DEF NotYet, Least
      <3>3. QED BY <3>1, <3>2
    <2>3. CASE l \in todo[n]
      <3>1. n = Top /\ l = m
        BY <1>1, <1>2, <2>3
      <3>2. k + 1 \in DOMAIN calls => FALSE
        <4>1. k + 1 \in DOMAIN calls => number[Top] < number[calls[k + 1]]
          BY <3>1
        <4>2. k + 1 \in DOMAIN calls => number[calls[k + 1]] <= number[Top] /\ calls[k + 1] \in on_stack
          BY CallOrder DEF SearchInv, CallsInv
        <4>3. QED BY <1>3, <1>5, <4>1, <4>2
      <3>3. calls[k] = Top
        BY <3>2, CallOrder
      <3>4. QED BY <1>6, <3>1, <3>3
    <2>4. QED BY <2>2, <2>3
  <1>12. PathsInv'
    BY <1>2 DEF SearchInv, PathsInv
  <1>13. ComponentInv'
    <2>1. edges' = edges /\ scc' = scc
      BY <1>2
    <2>2. QED BY <2>1 DEF SearchInv, ComponentInv
  <1>14. QED BY <1>7, <1>8, <1>9, <1>10, <1>11, <1>12, <1>13 DEF SearchInv

-----------------------------------------------------------------------------
\* What a pop takes off the stack: all that was visited since the node.
LEMMA PopSplits ==
    ASSUME TypeOK, SearchInv, NEW i \in DOMAIN stack, stack[i] = Top, calls # <<>>
    PROVE  /\ {stack[j] : j \in i .. Len(stack)} = {n \in on_stack : number[Top] <= number[n]}
           /\ Elements(SubSeq(stack, 1, i - 1)) = {n \in on_stack : number[n] < number[Top]}
           /\ SubSeq(stack, 1, i - 1) \in Seq(Name)
           /\ Len(SubSeq(stack, 1, i - 1)) = i - 1
           /\ \A j \in 1 .. i - 1 : SubSeq(stack, 1, i - 1)[j] = stack[j]
  <1>1. /\ stack \in Seq(Name) /\ on_stack = Elements(stack) /\ DOMAIN stack = 1 .. Len(stack)
        /\ Len(stack) \in Nat /\ i \in Nat /\ i >= 1 /\ i <= Len(stack)
    BY DEF TypeOK
  <1>2. \A j \in DOMAIN stack : number[stack[j]] \in Int
    BY DEF TypeOK, NotYet
  <1>3. \A j \in DOMAIN stack : /\ j \in Nat
                                /\ j < i => number[stack[j]] < number[Top]
                                /\ j >= i => number[Top] <= number[stack[j]]
    <2> SUFFICES ASSUME NEW j \in DOMAIN stack
                 PROVE  /\ j \in Nat
                        /\ j < i => number[stack[j]] < number[Top]
                        /\ j >= i => number[Top] <= number[stack[j]]
      OBVIOUS
    <2>1. j \in Nat /\ (j = i \/ j < i \/ i < j)
      BY <1>1
    <2>2. QED BY <1>1, <1>2, <2>1 DEF SearchInv, StackInv
  <1>4. {stack[j] : j \in i .. Len(stack)} = {n \in on_stack : number[Top] <= number[n]}
    <2>1. \A j \in i .. Len(stack) : j \in DOMAIN stack /\ j >= i
      BY <1>1
    <2>2. \A n \in on_stack : number[Top] <= number[n] => \E j \in i .. Len(stack) : n = stack[j]
      <3> SUFFICES ASSUME NEW j \in DOMAIN stack, number[Top] <= number[stack[j]]
                   PROVE  j \in i .. Len(stack)
        BY <1>1 DEF Elements
      <3>1. ~(j < i)
        BY <1>2, <1>3
      <3>2. QED BY <1>1, <3>1
    <2>3. QED BY <1>1, <1>3, <2>1, <2>2 DEF Elements
  <1>5. /\ SubSeq(stack, 1, i - 1) \in Seq(Name) /\ Len(SubSeq(stack, 1, i - 1)) = i - 1
        /\ \A j \in 1 .. i - 1 : SubSeq(stack, 1, i - 1)[j] = stack[j]
        /\ DOMAIN SubSeq(stack, 1, i - 1) = 1 .. i - 1
    BY <1>1
  <1>6. Elements(SubSeq(stack, 1, i - 1)) = {n \in on_stack : number[n] < number[Top]}
    <2>1. \A j \in 1 .. i - 1 : j \in DOMAIN stack /\ j < i
      BY <1>1
    <2>2. \A n \in on_stack : number[n] < number[Top] => \E j \in 1 .. i - 1 : n = stack[j]
      <3> SUFFICES ASSUME NEW j \in DOMAIN stack, number[stack[j]] < number[Top]
                   PROVE  j \in 1 .. i - 1
        BY <1>1 DEF Elements
      <3>1. ~(j >= i)
        BY <1>2, <1>3
      <3>2. QED BY <1>1, <3>1
    <2>3. Elements(SubSeq(stack, 1, i - 1)) = {stack[j] : j \in 1 .. i - 1}
      BY <1>5 DEF Elements
    <2>4. {stack[j] : j \in 1 .. i - 1} = {n \in on_stack : number[n] < number[Top]}
      BY <1>1, <1>3, <2>1, <2>2 DEF Elements
    <2>5. QED BY <2>3, <2>4
  <1>7. QED BY <1>4, <1>5, <1>6

\* The calls that remain, and their caller.
LEMMA CallsLeft ==
    ASSUME TypeOK, SearchInv, Return
    PROVE  /\ calls \in Seq(Name) /\ calls' = SubSeq(calls, 1, Len(calls) - 1) /\ Len(calls) \in Nat
           /\ Len(calls) >= 1 /\ Len(calls) \in DOMAIN calls /\ Len(calls) + 1 \notin DOMAIN calls
           /\ calls' \in Seq(Name)
           /\ \A k \in DOMAIN calls' : /\ k \in DOMAIN calls /\ calls'[k] = calls[k] /\ k # Len(calls)
                                       /\ k + 1 \in DOMAIN calls
                                       /\ number[calls[k]] < number[Top]
                                       /\ k + 1 \in DOMAIN calls' => calls'[k + 1] = calls[k + 1]
                                       /\ k + 1 \notin DOMAIN calls' =>
                                             k = Len(calls) - 1 /\ calls[k + 1] = Top
           /\ \A k \in DOMAIN calls : k \in DOMAIN calls' \/ calls[k] = Top
           /\ Len(calls) # 1 => Len(calls) - 1 \in DOMAIN calls'
           /\ Len(calls) = 1 => calls' = <<>> /\ calls[1] = Top
           /\ todo[Top] = {} /\ calls # <<>> /\ Top \in on_stack
  <1>1. calls \in Seq(Name) /\ calls # <<>> /\ todo[Top] = {} /\ calls' = SubSeq(calls, 1, Len(calls) - 1)
    BY DEF TypeOK, Return
  <1>2. Len(calls) \in Nat /\ Len(calls) >= 1 /\ DOMAIN calls = 1 .. Len(calls)
    BY <1>1
  <1>3. Len(calls) \in DOMAIN calls /\ Len(calls) + 1 \notin DOMAIN calls
    BY <1>2
  <1>4. /\ calls' \in Seq(Name) /\ DOMAIN calls' = 1 .. Len(calls) - 1
        /\ \A k \in 1 .. Len(calls) - 1 : calls'[k] = calls[k]
    BY <1>1, <1>2
  <1>5. \A k \in DOMAIN calls' : /\ k \in DOMAIN calls /\ calls'[k] = calls[k] /\ k # Len(calls)
                                 /\ k + 1 \in DOMAIN calls
                                 /\ k + 1 \in DOMAIN calls' => calls'[k + 1] = calls[k + 1]
                                 /\ k + 1 \notin DOMAIN calls' =>
                                       k = Len(calls) - 1 /\ calls[k + 1] = Top
    BY <1>2, <1>4 DEF Top
  <1>6. \A k \in DOMAIN calls' : number[calls[k]] < number[Top]
    BY <1>5, CallOrder
  <1>7. \A k \in DOMAIN calls : k \in DOMAIN calls' \/ calls[k] = Top
    BY <1>2, <1>4 DEF Top
  <1>8. Len(calls) # 1 => Len(calls) - 1 \in DOMAIN calls'
    BY <1>2, <1>4
  <1>9. Len(calls) = 1 => calls' = <<>> /\ calls[1] = Top
    <2>1. Len(calls) = 1 => Len(calls') = 0
      BY <1>1, <1>2
    <2>2. QED BY <1>4, <2>1 DEF Top
  <1>10. Top \in on_stack
    BY <1>3, CallOrder
  <1>11. QED BY <1>1, <1>2, <1>3, <1>4, <1>5, <1>6, <1>7, <1>8, <1>9, <1>10

\* A call that returns without a component: its low is that of a node below,
\* through which all that it visited lead to the caller.
LEMMA ReturnInnerKeepsInv ==
    ASSUME TypeOK, TypeOK', SearchInv, Return, low[Top] # number[Top]
    PROVE  SearchInv'
  <1> DEFINE caller == calls[Len(calls) - 1]
  <1>1. /\ UNCHANGED <<stack, on_stack, scc, edges, number, index>>
        /\ number \in [Name -> Nat \cup {NotYet}] /\ todo \in [Name -> SUBSET Name]
        /\ low \in [Name -> Nat \cup {NotYet}] /\ on_stack \subseteq Name
        /\ edges \in [Name -> SUBSET Name] /\ scc \subseteq SUBSET Name
        /\ stack \in Seq(Name) /\ on_stack = Elements(stack)
    BY StackTypes DEF Return, TypeOK
  <1>2. \A n \in on_stack : number[n] \in Int /\ low[n] \in Int /\ low[n] <= number[n] /\ n \in Name
    BY <1>1 DEF SearchInv, LowInv, NotYet
  <1>3. PICK u \in on_stack : number[u] = low[Top] /\ number[u] < number[Top] /\ Reach(edges, Top, u)
    BY SMTT(30), <1>2, CallsLeft DEF SearchInv, LowInv
  <1>4. Len(calls) # 1
    <2>1. SUFFICES ASSUME Len(calls) = 1 PROVE FALSE
      OBVIOUS
    <2>2. Top = stack[1]
      BY <1>1, <2>1, CallsLeft DEF SearchInv, StackInv, Elements
    <2>3. PICK j \in DOMAIN stack : u = stack[j]
      BY <1>1 DEF Elements
    <2>4. 1 \in DOMAIN stack /\ j \in Nat /\ j >= 1
      BY <1>1, <2>3
    <2>5. CASE j = 1
      BY <1>2, <1>3, <2>2, <2>3, <2>5
    <2>6. CASE 1 < j
      BY <1>2, <1>3, <2>2, <2>3, <2>4, <2>6, CallsLeft DEF SearchInv, StackInv
    <2>7. QED BY <2>4, <2>5, <2>6
  <1>5. /\ low' = [low EXCEPT ![caller] = Least(@, low[Top])]
        /\ todo' = [todo EXCEPT ![caller] = @ \ {Top}]
    BY <1>4 DEF Return
  <1>6. /\ Len(calls) - 1 \in DOMAIN calls' /\ Len(calls) - 1 \in DOMAIN calls
        /\ calls'[Len(calls) - 1] = caller /\ number[caller] < number[Top]
        /\ caller \in on_stack /\ caller # Top
        /\ Len(calls) \notin DOMAIN calls' /\ Len(calls) - 1 + 1 = Len(calls)
    BY <1>2, <1>4, CallsLeft DEF SearchInv, CallsInv
  <1>7. Top \in todo[caller] /\ Top \in edges[caller] /\ Top \in Name
    BY <1>2, <1>6, CallsLeft DEF SearchInv, CallsInv, TodoInv
  <1>8. \A k \in DOMAIN calls' : number[calls[k]] <= number[caller]
                                 /\ (k + 1 \in DOMAIN calls' => number[calls[k]] < number[caller])
                                 /\ (k + 1 \notin DOMAIN calls' => calls[k] = caller)
    <2> SUFFICES ASSUME NEW k \in DOMAIN calls'
                 PROVE  number[calls[k]] <= number[caller]
                        /\ (k + 1 \in DOMAIN calls' => number[calls[k]] < number[caller])
                        /\ (k + 1 \notin DOMAIN calls' => calls[k] = caller)
      OBVIOUS
    <2>1. k \in DOMAIN calls /\ k \in Nat /\ k <= Len(calls) - 1 /\ DOMAIN calls' = 1 .. Len(calls) - 1
      BY CallsLeft
    <2>2. CASE k < Len(calls) - 1
      BY <1>2, <1>6, <2>1, <2>2 DEF SearchInv, CallsInv
    <2>3. CASE k = Len(calls) - 1
      BY <1>2, <1>6, <2>1, <2>3
    <2>4. QED BY <2>1, <2>2, <2>3
  <1>9. /\ low'[caller] <= low[Top] /\ low'[caller] <= low[caller]
        /\ low'[caller] \in {low[caller], low[Top]}
        /\ \A n \in on_stack : low'[n] <= low[n] /\ (n # caller => low'[n] = low[n]) /\ low'[n] \in Int
    BY <1>1, <1>2, <1>5, <1>6, CallsLeft DEF Least
  <1>10. CallsInv'
    <2>1. \A k \in DOMAIN calls' : calls'[k] \in on_stack
      BY CallsLeft DEF SearchInv, CallsInv
    <2>2. \A j, k \in DOMAIN calls' : j < k => number[calls'[j]] < number[calls'[k]]
      <3>1. \A k \in DOMAIN calls' : k \in DOMAIN calls /\ calls'[k] = calls[k]
        BY CallsLeft
      <3>2. QED BY <3>1 DEF SearchInv, CallsInv
    <2>3. \A k \in DOMAIN calls' : k + 1 \in DOMAIN calls' => calls'[k + 1] \in todo'[calls'[k]]
      <3> SUFFICES ASSUME NEW k \in DOMAIN calls', k + 1 \in DOMAIN calls'
                   PROVE  calls'[k + 1] \in todo'[calls'[k]]
        OBVIOUS
      <3>1. calls[k + 1] \in todo[calls[k]] /\ calls[k] \in on_stack /\ number[calls[k]] < number[caller]
        BY <1>8, CallsLeft DEF SearchInv, CallsInv
      <3>2. calls[k] # caller
        BY <1>2, <3>1
      <3>3. QED BY <1>1, <1>5, <3>1, <3>2, CallsLeft
    <2>4. QED BY <1>1, <2>1, <2>2, <2>3 DEF CallsInv
  <1>11. StackInv' /\ VisitedInv'
    <2>1. calls' # <<>> /\ calls'[1] = calls[1]
      <3>1. 1 \in DOMAIN calls'
        BY <1>4, CallsLeft
      <3>2. QED BY <3>1, CallsLeft
    <2>2. QED BY <1>1, <2>1 DEF SearchInv, StackInv, VisitedInv
  <1>12. LowInv'
    <2> SUFFICES ASSUME NEW n \in on_stack
                 PROVE  low'[n] <= number[n] /\ \E l \in on_stack : number[l] = low'[n] /\ Reach(edges, n, l)
      BY <1>1 DEF LowInv
    <2>1. low[n] <= number[n] /\ \E l \in on_stack : number[l] = low[n] /\ Reach(edges, n, l)
      BY DEF SearchInv, LowInv
    <2>2. low'[n] <= number[n]
      BY <1>2, <1>9
    <2>3. CASE low'[n] = low[n]
      BY <2>1, <2>2, <2>3
    <2>4. CASE low'[n] # low[n]
      <3>1. n = caller /\ low'[n] = low[Top]
        BY <1>9, <2>4
      <3>2. Reach(edges, caller, u)
        BY <1>1, <1>2, <1>3, <1>6, <1>7, ReachEdge, ReachTrans
      <3>3. QED BY <1>3, <2>2, <3>1, <3>2
    <2>5. QED BY <2>3, <2>4
  <1>13. TodoInv'
    <2>1. \A n \in on_stack : todo'[n] \subseteq edges[n]
      BY <1>1, <1>5, <1>6 DEF SearchInv, TodoInv
    <2>2. \A n \in on_stack, m \in Name : m \in edges[n] /\ m \notin todo'[n] => number[m] # NotYet
      <3>1. number[Top] # NotYet
        BY CallsLeft, <1>2 DEF SearchInv, VisitedInv
      <3>2. QED BY <1>1, <1>5, <1>6, <3>1 DEF SearchInv, TodoInv
    <2>3. \A n \in Elements(calls) : n = Top \/ n \in Elements(calls')
      BY CallsLeft DEF Elements
    <2>4. \A n \in on_stack : todo'[n] = {} \/ n \in Elements(calls')
      BY <1>1, <1>5, <1>6, <2>3, CallsLeft DEF SearchInv, TodoInv
    <2>5. QED BY <1>1, <2>1, <2>2, <2>4 DEF TodoInv
  <1>14. NeighbourInv'
    <2> SUFFICES ASSUME NEW k \in DOMAIN calls', NEW n \in on_stack, NEW m \in on_stack,
                        number[calls[k]] <= number[n],
                        k + 1 \in DOMAIN calls' => number[n] < number[calls[k + 1]],
                        m \in edges[n], m \notin todo'[n]
                 PROVE  low'[calls[k]] <= number[m]
      BY <1>1, CallsLeft DEF NeighbourInv
    <2>1. k \in DOMAIN calls /\ calls[k] \in on_stack
      BY CallsLeft DEF SearchInv, CallsInv
    <2>2. CASE m \in todo[n]
      <3>1. n = caller /\ m = Top
        BY <1>1, <1>5, <2>2
      <3>2. k + 1 \notin DOMAIN calls'
        <4>1. SUFFICES ASSUME k + 1 \in DOMAIN calls' PROVE FALSE
          OBVIOUS
        <4>2. calls[k + 1] \in on_stack /\ number[calls[k + 1]] <= number[caller]
          BY <1>8, <4>1, CallsLeft DEF SearchInv, CallsInv
        <4>3. number[caller] < number[calls[k + 1]]
          BY <3>1, <4>1
        <4>4. QED BY <1>2, <1>6, <4>2, <4>3
      <3>3. calls[k] = caller
        BY <1>8, <3>2
      <3>4. QED BY SMTT(30), <1>2, <1>6, <1>9, <3>1, <3>3, CallsLeft
    <2>3. CASE m \notin todo[n] /\ k + 1 \in DOMAIN calls'
      <3>1. low[calls[k]] <= number[m]
        BY <2>1, <2>3, CallsLeft DEF SearchInv, NeighbourInv
      <3>2. QED BY <1>2, <1>9, <2>1, <3>1
    <2>4. CASE m \notin todo[n] /\ k + 1 \notin DOMAIN calls' /\ number[n] < number[Top]
      <3>1. calls[k + 1] = Top
        BY <2>4, CallsLeft
      <3>2. low[calls[k]] <= number[m]
        BY <2>1, <2>4, <3>1, CallsLeft DEF SearchInv, NeighbourInv
      <3>3. QED BY <1>2, <1>9, <2>1, <3>2
    <2>5. CASE m \notin todo[n] /\ k + 1 \notin DOMAIN calls' /\ number[Top] <= number[n]
      <3>1. calls[k] = caller
        BY <1>8, <2>5
      <3>2. low[Top] <= number[m]
        BY <2>5, CallsLeft DEF SearchInv, NeighbourInv, Top
      <3>3. QED BY <1>2, <1>6, <1>9, <3>1, <3>2, CallsLeft
    <2>6. QED BY <1>2, <2>2, <2>3, <2>4, <2>5, CallsLeft
  <1>15. PathsInv'
    <2> SUFFICES ASSUME NEW k \in DOMAIN calls', NEW n \in on_stack
                 PROVE  /\ number[calls[k]] <= number[n] => Reach(edges, calls[k], n)
                        /\ (k + 1 \in DOMAIN calls' => number[n] < number[calls[k + 1]])
                           => Reach(edges, n, calls[k])
      BY <1>1, CallsLeft DEF PathsInv
    <2>1. number[calls[k]] <= number[n] => Reach(edges, calls[k], n)
      BY CallsLeft DEF SearchInv, PathsInv
    <2>2. CASE k + 1 \in DOMAIN calls'
      BY <2>1, <2>2, CallsLeft DEF SearchInv, PathsInv
    <2>3. CASE k + 1 \notin DOMAIN calls' /\ number[n] < number[Top]
      BY <2>1, <2>3, CallsLeft DEF SearchInv, PathsInv
    <2>4. CASE k + 1 \notin DOMAIN calls' /\ number[Top] <= number[n]
      <3>1. Reach(edges, n, Top)
        BY CallsLeft DEF SearchInv, PathsInv, Top
      <3>2. calls[k + 1] = Top
        BY <2>4, CallsLeft
      <3>3. Reach(edges, u, calls[k])
        BY <1>3, <3>2, CallsLeft DEF SearchInv, PathsInv
      <3>4. QED BY <1>3, <2>1, <3>1, <3>3, ReachTrans
    <2>5. QED BY <1>2, <2>2, <2>3, <2>4, CallsLeft
  <1>16. ComponentInv'
    <2>1. edges' = edges /\ scc' = scc
      BY <1>1
    <2>2. QED BY <2>1 DEF SearchInv, ComponentInv
  <1>17. QED BY <1>10, <1>11, <1>12, <1>13, <1>14, <1>15, <1>16 DEF SearchInv

\* A call that returns with a component: no edge leaves what is popped but to
\* components found before, and all of it leads to the node and back.
LEMMA ReturnRootKeepsInv ==
    ASSUME TypeOK, TypeOK', SearchInv, Return, low[Top] = number[Top]
    PROVE  SearchInv'
  <1> DEFINE component == {n \in on_stack : number[Top] <= number[n]}
             caller == calls[Len(calls) - 1]
  <1>1. /\ UNCHANGED <<edges, number, index>>
        /\ number \in [Name -> Nat \cup {NotYet}] /\ todo \in [Name -> SUBSET Name]
        /\ low \in [Name -> Nat \cup {NotYet}] /\ on_stack \subseteq Name
        /\ edges \in [Name -> SUBSET Name] /\ scc \subseteq SUBSET Name
        /\ stack \in Seq(Name) /\ on_stack = Elements(stack) /\ on_stack' = Elements(stack')
    BY StackTypes DEF Return, TypeOK
  <1>2. \A n \in on_stack : number[n] \in Int /\ low[n] \in Int /\ low[n] <= number[n] /\ n \in Name
    BY <1>1 DEF SearchInv, LowInv, NotYet
  <1>3. PICK i \in DOMAIN stack :
          /\ stack[i] = Top /\ stack' = SubSeq(stack, 1, i - 1)
          /\ scc' = scc \cup {{stack[j] : j \in i .. Len(stack)}}
    BY DEF Return, PopComponent
  <1>4. /\ scc' = scc \cup {component} /\ on_stack' = {n \in on_stack : number[n] < number[Top]}
        /\ \A j \in DOMAIN stack' : j \in DOMAIN stack /\ stack'[j] = stack[j]
        /\ stack' # <<>> => stack # <<>> /\ stack'[1] = stack[1]
    <2>1. {stack[j] : j \in i .. Len(stack)} = component /\ i \in Nat /\ DOMAIN stack' = 1 .. i - 1
          /\ i \in DOMAIN stack /\ DOMAIN stack = 1 .. Len(stack) /\ Len(stack) \in Nat
          /\ \A j \in 1 .. i - 1 : stack'[j] = stack[j]
      <3>1. calls # <<>>
        BY CallsLeft
      <3>2. {stack[j] : j \in i .. Len(stack)} = component
        BY <1>3, <3>1, PopSplits
      <3>3. /\ SubSeq(stack, 1, i - 1) \in Seq(Name) /\ Len(SubSeq(stack, 1, i - 1)) = i - 1
            /\ \A j \in 1 .. i - 1 : SubSeq(stack, 1, i - 1)[j] = stack[j]
        BY <1>3, <3>1, PopSplits
      <3>4. DOMAIN stack' = 1 .. i - 1
        BY <1>3, <3>3
      <3>5. DOMAIN stack = 1 .. Len(stack) /\ Len(stack) \in Nat /\ i \in Nat
        BY <1>1
      <3>6. QED BY <1>3, <3>2, <3>3, <3>4, <3>5
    <2>2. on_stack' = {n \in on_stack : number[n] < number[Top]}
      BY <1>1, <1>3, CallsLeft, PopSplits
    <2>3. \A j \in DOMAIN stack' : j \in DOMAIN stack /\ stack'[j] = stack[j]
      BY <2>1
    <2>4. stack' # <<>> => 1 \in DOMAIN stack'
      <3>1. stack' \in Seq(Name)
        BY <1>1, <1>3, CallsLeft, PopSplits
      <3>2. QED BY <3>1
    <2>5. stack' # <<>> => stack # <<>> /\ stack'[1] = stack[1]
      BY <1>1, <2>3, <2>4
    <2>6. scc' = scc \cup {component}
      <3> DEFINE popped == {stack[j] : j \in i .. Len(stack)}
      <3>1. popped = component
        BY <2>1
      <3>2. scc' = scc \cup {popped}
        BY <1>3
      <3> HIDE DEF popped, component
      <3>3. QED BY <3>1, <3>2
    <2>7. QED BY <2>2, <2>3, <2>5, <2>6
  <1>5. /\ component \subseteq on_stack /\ on_stack' \subseteq on_stack /\ Top \in component
        /\ on_stack' \cap component = {} /\ on_stack = on_stack' \cup component
        /\ Top \notin on_stack' /\ UNION scc' = (UNION scc) \cup component
    <2>1. component \subseteq on_stack /\ on_stack' \subseteq on_stack
          /\ on_stack' \cap component = {} /\ on_stack = on_stack' \cup component
      BY <1>2, <1>4, CallsLeft
    <2>2. Top \in component /\ Top \notin on_stack'
      BY <1>2, <2>1, CallsLeft
    <2>3. scc' = scc \cup {component}
      BY <1>4
    <2> HIDE DEF component
    <2>4. UNION scc' = (UNION scc) \cup component
      BY <2>3
    <2>5. QED BY <2>1, <2>2, <2>4
  <1>6. \A k \in DOMAIN calls' : calls[k] \in on_stack'
    BY <1>4, CallsLeft DEF SearchInv, CallsInv
  <1>7. \A n \in on_stack' : low'[n] = low[n]
    <2>1. CASE Len(calls) = 1
      BY <2>1 DEF Return
    <2>2. CASE Len(calls) # 1
      <3>1. low' = [low EXCEPT ![caller] = Least(@, low[Top])]
        BY <2>2 DEF Return
      <3>2. caller \in on_stack' /\ number[caller] < number[Top]
        BY <1>4, <1>6, <2>2, CallsLeft
      <3>3. Least(low[caller], low[Top]) = low[caller]
        BY <1>2, <1>5, <3>2, CallsLeft DEF Least
      <3>4. QED BY <1>1, <1>2, <1>5, <3>1, <3>2, <3>3
    <2>3. QED BY <2>1, <2>2
  <1>8. /\ \A n \in on_stack' : todo'[n] \subseteq todo[n] /\ todo[n] \subseteq todo'[n] \cup {Top}
        /\ \A k \in DOMAIN calls' : k + 1 \in DOMAIN calls' => todo'[calls[k]] = todo[calls[k]]
    <2>1. CASE Len(calls) = 1
      BY <2>1 DEF Return
    <2>2. CASE Len(calls) # 1
      <3>1. todo' = [todo EXCEPT ![caller] = @ \ {Top}]
        BY <2>2 DEF Return
      <3>2. \A n \in on_stack' : todo'[n] \subseteq todo[n] /\ todo[n] \subseteq todo'[n] \cup {Top}
        BY <1>1, <1>2, <1>5, <3>1
      <3>3. ASSUME NEW k \in DOMAIN calls', k + 1 \in DOMAIN calls'
            PROVE  todo'[calls[k]] = todo[calls[k]]
        <4>1. k \in DOMAIN calls /\ Len(calls) - 1 \in DOMAIN calls /\ k < Len(calls) - 1
          BY <2>2, <3>3, CallsLeft
        <4>2. number[calls[k]] < number[caller] /\ calls[k] \in on_stack /\ caller \in on_stack
          BY <4>1 DEF SearchInv, CallsInv
        <4>3. calls[k] # caller
          BY <1>2, <4>2
        <4>4. QED BY <1>1, <1>2, <3>1, <4>2, <4>3
      <3>4. QED BY <3>2, <3>3
    <2>3. QED BY <2>1, <2>2
  <1>9. CallsInv'
    <2>1. \A k \in DOMAIN calls' : k \in DOMAIN calls /\ calls'[k] = calls[k]
      BY CallsLeft
    <2>2. \A j, k \in DOMAIN calls' : j < k => number[calls'[j]] < number[calls'[k]]
      BY <2>1 DEF SearchInv, CallsInv
    <2>3. \A k \in DOMAIN calls' : k + 1 \in DOMAIN calls' => calls'[k + 1] \in todo'[calls'[k]]
      BY <1>8, <2>1 DEF SearchInv, CallsInv
    <2>4. QED BY <1>1, <1>6, <2>1, <2>2, <2>3 DEF CallsInv
  <1>10. StackInv'
    <2>1. \A j, k \in DOMAIN stack' : j < k => number[stack'[j]] < number[stack'[k]]
      BY <1>4 DEF SearchInv, StackInv
    <2>2. ASSUME stack' # <<>> PROVE calls' # <<>> /\ stack'[1] = calls'[1]
      <3>1. stack # <<>> /\ stack'[1] = stack[1] /\ stack[1] = calls[1]
        BY <1>4, <2>2 DEF SearchInv, StackInv
      <3>2. 1 \in DOMAIN stack'
        BY <1>1, <1>3, <2>2, CallsLeft, PopSplits
      <3>3. stack'[1] \in on_stack'
        BY <1>1, <3>2 DEF Elements
      <3>4. Len(calls) # 1
        BY <1>5, <3>1, <3>3, CallsLeft
      <3>5. 1 \in DOMAIN calls'
        BY <3>4, CallsLeft
      <3>6. QED BY <3>1, <3>5, CallsLeft
    <2>3. QED BY <1>1, <2>1, <2>2 DEF SearchInv, StackInv
  <1>11. VisitedInv'
    BY <1>1, <1>5 DEF SearchInv, VisitedInv
  <1>12. LowInv'
    <2> SUFFICES ASSUME NEW n \in on_stack'
                 PROVE  \E l \in on_stack' : number[l] = low[n] /\ Reach(edges, n, l)
      BY <1>1, <1>2, <1>5, <1>7 DEF LowInv
    <2>1. PICK l \in on_stack : number[l] = low[n] /\ Reach(edges, n, l)
      BY <1>5 DEF SearchInv, LowInv
    <2>2. l \in on_stack'
      BY <1>2, <1>4, <1>5, <2>1, CallsLeft
    <2>3. QED BY <2>1, <2>2
  <1>13. TodoInv'
    <2>1. \A n \in on_stack' : todo'[n] \subseteq edges[n]
      BY <1>5, <1>8 DEF SearchInv, TodoInv
    <2>2. ASSUME NEW n \in on_stack', NEW m \in Name, m \in edges[n], m \notin todo'[n]
          PROVE  number[m] # NotYet
      <3>1. CASE m = Top
        BY <1>2, <3>1, CallsLeft DEF SearchInv, VisitedInv
      <3>2. CASE m # Top
        BY <1>5, <1>8, <2>2, <3>2 DEF SearchInv, TodoInv
      <3>3. QED BY <3>1, <3>2
    <2>3. ASSUME NEW n \in on_stack' PROVE todo'[n] = {} \/ n \in Elements(calls')
      <3>1. todo[n] = {} \/ n \in Elements(calls)
        BY <1>5 DEF SearchInv, TodoInv
      <3>2. n \in Elements(calls) => n \in Elements(calls')
        BY SMTT(30), <1>5, CallsLeft DEF Elements
      <3>3. QED BY <1>8, <3>1, <3>2
    <2>4. QED BY <1>1, <2>1, <2>2, <2>3 DEF TodoInv
  <1>14. NeighbourInv'
    <2> SUFFICES ASSUME NEW k \in DOMAIN calls', NEW n \in on_stack', NEW m \in on_stack',
                        number[calls[k]] <= number[n],
                        k + 1 \in DOMAIN calls' => number[n] < number[calls[k + 1]],
                        m \in edges[n], m \notin todo'[n]
                 PROVE  low[calls[k]] <= number[m]
      BY <1>1, <1>6, <1>7, CallsLeft DEF NeighbourInv
    <2>1. m \notin todo[n] /\ k \in DOMAIN calls /\ m \in on_stack /\ n \in on_stack
      BY <1>5, <1>8, CallsLeft
    <2>2. k + 1 \in DOMAIN calls => number[n] < number[calls[k + 1]]
      BY <1>4, CallsLeft
    <2>3. QED BY <2>1, <2>2 DEF SearchInv, NeighbourInv
  <1>15. PathsInv'
    <2> SUFFICES ASSUME NEW k \in DOMAIN calls', NEW n \in on_stack'
                 PROVE  /\ number[calls[k]] <= number[n] => Reach(edges, calls[k], n)
                        /\ (k + 1 \in DOMAIN calls' => number[n] < number[calls[k + 1]])
                           => Reach(edges, n, calls[k])
      BY <1>1, CallsLeft DEF PathsInv
    <2>1. k \in DOMAIN calls /\ n \in on_stack
      BY <1>5, CallsLeft
    <2>2. (k + 1 \in DOMAIN calls' => number[n] < number[calls[k + 1]])
          => (k + 1 \in DOMAIN calls => number[n] < number[calls[k + 1]])
      BY <1>4, CallsLeft
    <2>3. QED BY <2>1, <2>2 DEF SearchInv, PathsInv
  <1>16. \A n \in component : edges[n] \subseteq UNION scc'
    <2> SUFFICES ASSUME NEW n \in component, NEW m \in edges[n], m \notin UNION scc
                 PROVE  m \in component
      BY <1>5
    <2>1. todo[n] = {}
      <3>1. \A k \in DOMAIN calls : calls[k] = n => n = Top
        BY <1>2, <1>5, <1>6, CallsLeft
      <3>2. todo[n] = {} \/ n \in Elements(calls)
        BY <1>5 DEF SearchInv, TodoInv
      <3>3. QED BY <3>1, <3>2, CallsLeft DEF Elements
    <2>2. m \in Name /\ n \in on_stack
      BY <1>1, <1>5
    <2>3. m \in on_stack
      BY <2>1, <2>2 DEF SearchInv, TodoInv, VisitedInv
    <2>4. low[Top] <= number[m]
      BY <2>1, <2>2, <2>3, CallsLeft DEF SearchInv, NeighbourInv, Top
    <2>5. QED BY <2>3, <2>4
  <1>17. \A n \in UNION scc' : edges[n] \subseteq UNION scc'
    BY <1>5, <1>16 DEF SearchInv, ComponentInv
  <1>18. ASSUME NEW m \in component, NEW n \in Name
         PROVE  n \in component <=> Reach(edges, m, n) /\ Reach(edges, n, m)
    <2>1. \A x \in component : Reach(edges, x, Top) /\ Reach(edges, Top, x)
      BY <1>5, CallsLeft DEF SearchInv, PathsInv, Top
    <2>2. n \in component => Reach(edges, m, n) /\ Reach(edges, n, m)
      BY <2>1, ReachTrans
    <2>3. ASSUME Reach(edges, m, n), Reach(edges, n, m), n \notin component PROVE FALSE
      <3>1. UNION scc' \in SUBSET Name /\ UNION scc \in SUBSET Name
        BY <1>1, <1>5
      <3>2. n \in UNION scc'
        BY <1>5, <1>17, <2>3, <3>1, ReachStays
      <3>3. n \in UNION scc
        BY <1>5, <2>3, <3>2
      <3>4. \A x \in UNION scc : edges[x] \subseteq UNION scc
        BY DEF SearchInv, ComponentInv
      <3>5. m \in UNION scc
        BY <2>3, <3>1, <3>3, <3>4, ReachStays
      <3>6. QED BY <1>5, <3>5 DEF SearchInv, VisitedInv
    <2>4. QED BY <2>2, <2>3
  <1>19. ComponentInv'
    <2>1. \A c \in scc' : c \in scc \/ c = component
      BY <1>4
    <2>2. \A c \in scc : \A m \in c, n \in Name : n \in c <=> Reach(edges, m, n) /\ Reach(edges, n, m)
      BY DEF SearchInv, ComponentInv
    <2>3. \A c \in scc' : \A m \in c, n \in Name : n \in c <=> Reach(edges, m, n) /\ Reach(edges, n, m)
      BY <1>18, <2>1, <2>2
    <2>4. edges' = edges
      BY <1>1
    <2>5. QED BY <1>17, <2>3, <2>4 DEF ComponentInv
  <1>20. QED BY <1>9, <1>10, <1>11, <1>12, <1>13, <1>14, <1>15, <1>19 DEF SearchInv

-----------------------------------------------------------------------------
\* Types.
LEMMA TypesInit == Init => TypeOK
  BY CircularAssumption DEF Init, TypeOK, Elements, NotYet

LEMMA CallTypes ==
    ASSUME TypeOK, NEW n \in Name, Call(n)
    PROVE  TypeOK'
  <1>1. /\ number' \in [Name -> Nat \cup {NotYet}] /\ low' \in [Name -> Nat \cup {NotYet}]
        /\ index' \in Nat /\ stack' \in Seq(Name) /\ calls' \in Seq(Name)
        /\ todo' \in [Name -> SUBSET Name]
    BY DEF TypeOK, Call
  <1>2. Elements(stack') = Elements(stack) \cup {n}
    <2>1. stack \in Seq(Name) /\ stack' = Append(stack, n)
      BY DEF TypeOK, Call
    <2>2. DOMAIN stack' = DOMAIN stack \cup {Len(stack) + 1} /\ stack'[Len(stack) + 1] = n
          /\ \A i \in DOMAIN stack : stack'[i] = stack[i]
      BY <2>1
    <2>3. QED BY <2>2 DEF Elements
  <1>3. QED BY <1>1, <1>2 DEF TypeOK, Call, inputs

LEMMA ReturnTypes ==
    ASSUME TypeOK, SearchInv, Return
    PROVE  TypeOK'
  <1>1. /\ UNCHANGED <<inputs, phase, dependencies, nodes, edges, number, index, hints>>
        /\ low \in [Name -> Nat \cup {NotYet}] /\ todo \in [Name -> SUBSET Name] /\ Top \in Name
        /\ hints \subseteq scc
    BY CallsLeft, StackTypes DEF Return, TypeOK
  <1>2. low' \in [Name -> Nat \cup {NotYet}] /\ todo' \in [Name -> SUBSET Name]
    BY <1>1 DEF Return, Least
  <1>3. CASE low[Top] # number[Top]
    BY <1>1, <1>2, <1>3, CallsLeft DEF TypeOK, Return, inputs
  <1>4. CASE low[Top] = number[Top]
    <2>1. PICK i \in DOMAIN stack :
            /\ stack[i] = Top /\ stack' = SubSeq(stack, 1, i - 1)
            /\ scc' = scc \cup {{stack[j] : j \in i .. Len(stack)}}
            /\ on_stack' = on_stack \ {stack[j] : j \in i .. Len(stack)}
      BY <1>4 DEF Return, PopComponent
    <2>2. /\ {stack[j] : j \in i .. Len(stack)} = {n \in on_stack : number[Top] <= number[n]}
          /\ Elements(SubSeq(stack, 1, i - 1)) = {n \in on_stack : number[n] < number[Top]}
          /\ SubSeq(stack, 1, i - 1) \in Seq(Name)
      BY <2>1, CallsLeft, PopSplits
    <2>3. \A n \in on_stack : number[n] \in Int
      BY StackTypes DEF TypeOK, NotYet
    <2>4. number[Top] \in Int /\ on_stack \subseteq Name
      BY <2>3, CallsLeft, StackTypes
    <2>5. on_stack' = Elements(stack')
      <3>1. Elements(stack') = {n \in on_stack : number[n] < number[Top]}
        BY <2>1, <2>2
      <3>2. on_stack' = on_stack \ {n \in on_stack : number[Top] <= number[n]}
        BY <2>1, <2>2
      <3>3. QED BY <2>3, <2>4, <3>1, <3>2
    <2>6. scc' \subseteq SUBSET Name /\ scc \subseteq scc'
      <3> DEFINE popped == {stack[j] : j \in i .. Len(stack)}
      <3>1. popped \in SUBSET Name
        BY <2>2, <2>4
      <3>2. scc' = scc \cup {popped}
        BY <2>1
      <3> HIDE DEF popped
      <3>3. QED BY <3>1, <3>2 DEF TypeOK
    <2>7. QED BY <1>1, <1>2, <2>1, <2>2, <2>5, <2>6, CallsLeft DEF TypeOK, inputs
  <1>5. QED BY <1>3, <1>4

LEMMA TypesNext ==
    ASSUME TypeOK, phase = "search" => SearchInv, [Next]_vars
    PROVE  TypeOK'
  <1>1. CASE UNCHANGED vars
    BY <1>1 DEF TypeOK, vars, inputs, search, Elements
  <1>2. CASE DirectDependencies
    BY <1>2, CircularAssumption DEF DirectDependencies, TypeOK, inputs, search, Needs, Elements
  <1>3. CASE CollectNodes
    <2>1. nodes' \subseteq Name
      BY <1>3, CircularAssumption DEF CollectNodes, Dependent, TypeOK
    <2>2. edges' \in [Name -> SUBSET Name]
      BY <1>3, CircularAssumption DEF CollectNodes, TypeOK
    <2>3. QED BY <1>3, <2>1, <2>2 DEF CollectNodes, TypeOK, inputs, search, Elements
  <1>4. CASE VisitNode
    BY <1>4, CallTypes DEF VisitNode, TypeOK
  <1>5. CASE VisitNeighbour
    BY <1>5, CallTypes, StackTypes DEF VisitNeighbour, TypeOK
  <1>6. CASE MeetNeighbour
    <2>1. low' \in [Name -> Nat \cup {NotYet}] /\ todo' \in [Name -> SUBSET Name]
      BY <1>6, StackTypes DEF MeetNeighbour, TypeOK, Least
    <2>2. QED BY <1>6, <2>1 DEF MeetNeighbour, TypeOK, inputs, Elements
  <1>7. CASE Return
    BY <1>7, ReturnTypes DEF Return
  <1>8. CASE Report
    BY <1>8 DEF Report, TypeOK, inputs, search, Elements
  <1>9. CASE Terminated
    BY <1>1, <1>9 DEF Terminated
  <1>10. QED BY <1>1, <1>2, <1>3, <1>4, <1>5, <1>6, <1>7, <1>8, <1>9 DEF Next

-----------------------------------------------------------------------------
\* The edges of the search are what the packages ask for.
LEMMA CollectEdges ==
    ASSUME TypeOK, DependenciesInv, CollectNodes
    PROVE  EdgesInv' /\ nodes' = {NameOf[i] : i \in Dependent}
  <1>1. /\ UNCHANGED <<members, strong, dependencies>> /\ members \subseteq Installable
        /\ nodes' = {NameOf[i] : i \in Dependent}
        /\ edges' = [n \in Name |-> IF n \in nodes' THEN {NameOf[d] : d \in dependencies[n]} ELSE {}]
    BY DEF CollectNodes, inputs, TypeOK
  <1>2. \A m, n \in Name : NeedsName(m, n)' <=> NeedsName(m, n)
    BY <1>1 DEF NeedsName
  <1>3. ASSUME NEW m \in Name, NEW n \in Name, n \in edges'[m] PROVE NeedsName(m, n) /\ m \in nodes'
    <2>1. m \in nodes' /\ n \in {NameOf[d] : d \in dependencies[m]}
      BY <1>1, <1>3
    <2>2. PICK d \in dependencies[m] : n = NameOf[d]
      BY <2>1
    <2>3. PICK i \in members : NameOf[i] = m /\ dependencies[m] = Needs(i)
      BY <2>2 DEF DependenciesInv
    <2>4. PICK j \in members \ Udeb : NameOf[j] = m
      BY <1>1, <2>1 DEF Dependent
    <2>5. i \notin Udeb
      BY <1>1, <2>3, <2>4, CircularAssumption
    <2>6. d \in members /\ NameOf[d] # NameOf[i] /\ NameOf[d] \in strong[i]
      BY <2>2, <2>3 DEF Needs
    <2>7. QED BY <2>1, <2>2, <2>3, <2>5, <2>6 DEF NeedsName
  <1>4. ASSUME Unique, NEW m \in Name, NEW n \in Name, NeedsName(m, n) PROVE n \in edges'[m]
    <2>1. PICK i \in members \ Udeb : NameOf[i] = m /\ n \in strong[i]
      BY <1>4 DEF NeedsName
    <2>2. PICK d \in members : NameOf[d] = n
      BY <1>4 DEF NeedsName
    <2>3. m # n
      BY <1>4 DEF NeedsName
    <2>4. dependencies[m] = Needs(i)
      BY <1>4, <2>1 DEF DependenciesInv, Unique
    <2>5. d \in dependencies[m]
      BY <2>1, <2>2, <2>3, <2>4 DEF Needs
    <2>6. m \in nodes'
      BY <1>1, <2>1, <2>5 DEF Dependent
    <2>7. QED BY <1>1, <2>2, <2>5, <2>6
  <1>5. Unique' <=> Unique
    BY <1>1 DEF Unique
  <1>6. QED BY <1>1, <1>2, <1>3, <1>4, <1>5 DEF EdgesInv

LEMMA TableOfDependencies ==
    ASSUME TypeOK, DirectDependencies
    PROVE  DependenciesInv'
  <1>1. PICK last \in [{NameOf[i] : i \in members} -> members] :
          /\ \A n \in DOMAIN last : NameOf[last[n]] = n
          /\ dependencies' = [n \in Name |-> IF n \in DOMAIN last THEN Needs(last[n]) ELSE {}]
    BY DEF DirectDependencies
  <1>2. members' = members /\ strong' = strong /\ members \subseteq Installable
    BY DEF DirectDependencies, inputs, TypeOK
  <1>3. \A i : Needs(i)' = Needs(i)
    BY <1>2 DEF Needs
  <1>4. ASSUME NEW n \in Name, dependencies'[n] # {}
        PROVE  \E i \in members : NameOf[i] = n /\ dependencies'[n] = Needs(i)
    <2>1. n \in DOMAIN last /\ dependencies'[n] = Needs(last[n])
      BY <1>1, <1>4
    <2>2. QED BY <1>1, <2>1
  <1>5. ASSUME NEW i \in members
        PROVE  \E j \in members : NameOf[j] = NameOf[i] /\ dependencies'[NameOf[i]] = Needs(j)
    <2>1. NameOf[i] \in DOMAIN last /\ NameOf[i] \in Name
      BY <1>1, <1>2, CircularAssumption
    <2>2. dependencies'[NameOf[i]] = Needs(last[NameOf[i]])
      BY <1>1, <2>1
    <2>3. last[NameOf[i]] \in members
      BY <1>1, <2>1
    <2>4. QED BY <1>1, <2>1, <2>2, <2>3
  <1>6. QED BY <1>2, <1>3, <1>4, <1>5 DEF DependenciesInv

\* A search that has not begun meets the invariant of the search.
LEMMA SearchBegins ==
    ASSUME TypeOK, TypeOK', Unstarted, UNCHANGED search
    PROVE  SearchInv'
  <1>1. /\ number' = [n \in Name |-> NotYet] /\ index' = 0 /\ stack' = <<>> /\ on_stack' = {}
        /\ calls' = <<>> /\ scc' = {}
    BY DEF search, Unstarted
  <1>2. CallsInv' /\ LowInv' /\ TodoInv' /\ NeighbourInv' /\ PathsInv' /\ ComponentInv'
    BY <1>1 DEF CallsInv, LowInv, TodoInv, NeighbourInv, PathsInv, ComponentInv
  <1>3. StackInv' /\ VisitedInv'
    BY <1>1 DEF StackInv, VisitedInv, NotYet
  <1>4. QED BY <1>2, <1>3 DEF SearchInv

LEMMA EdgesKept ==
    ASSUME EdgesInv, UNCHANGED <<inputs, edges, nodes>>
    PROVE  EdgesInv'
  BY DEF EdgesInv, NeedsName, Unique, inputs

LEMMA TableKept ==
    ASSUME DependenciesInv, UNCHANGED <<inputs, dependencies>>
    PROVE  DependenciesInv'
  BY DEF DependenciesInv, Needs, inputs

LEMMA SearchKept ==
    ASSUME SearchInv, UNCHANGED <<edges, search>>
    PROVE  SearchInv'
  <1>1. CallsInv' /\ StackInv' /\ VisitedInv' /\ LowInv'
    BY DEF SearchInv, search, CallsInv, StackInv, VisitedInv, LowInv
  <1>2. TodoInv' /\ NeighbourInv' /\ PathsInv' /\ ComponentInv'
    BY DEF SearchInv, search, TodoInv, NeighbourInv, PathsInv, ComponentInv, Elements
  <1>3. QED BY <1>1, <1>2 DEF SearchInv

LEMMA NextKeepsInv ==
    ASSUME IInv, [Next]_vars
    PROVE  IInv'
  <1>1. TypeOK /\ TypeOK'
    BY TypesNext DEF IInv
  <1>2. CASE UNCHANGED vars
    <2>1. UNCHANGED <<inputs, phase, dependencies, nodes, edges, search, hints>>
      BY <1>2 DEF vars
    <2>2. (Unstarted => Unstarted') /\ (DoneInv => DoneInv') /\ Dependent' = Dependent
      BY <2>1 DEF Unstarted, DoneInv, Dependent, search, inputs
    <2>3. QED BY <1>1, <2>1, <2>2, EdgesKept, TableKept, SearchKept DEF IInv
  <1>3. CASE DirectDependencies
    <2>1. DependenciesInv'
      BY <1>1, <1>3, TableOfDependencies
    <2>2. phase' = "nodes" /\ Unstarted' /\ hints' = {}
      BY <1>3 DEF DirectDependencies, IInv, Unstarted, search
    <2>3. QED BY <1>1, <2>1, <2>2 DEF IInv
  <1>4. CASE CollectNodes
    <2>1. phase = "nodes" /\ UNCHANGED <<inputs, dependencies, search, hints>> /\ phase' \in {"search", "done"}
          /\ Unstarted /\ hints = {} /\ DependenciesInv
          /\ (phase' = "done" => Cardinality(Dependent) < 2)
      BY <1>4 DEF CollectNodes, IInv
    <2>2. EdgesInv' /\ nodes' = {NameOf[i] : i \in Dependent} /\ Dependent' = Dependent
      BY <1>1, <1>4, <2>1, CollectEdges DEF Dependent, inputs
    <2>3. DependenciesInv' /\ SearchInv'
      BY <1>1, <2>1, TableKept, SearchBegins
    <2>4. phase' = "done" => DoneInv'
      BY <2>1, <2>2 DEF DoneInv, Unstarted, search
    <2>5. QED BY <1>1, <2>1, <2>2, <2>3, <2>4 DEF IInv
  <1> DEFINE Looks == VisitNode \/ VisitNeighbour \/ MeetNeighbour \/ Return
  <1>5. CASE Looks
    <2>1. phase = "search" /\ UNCHANGED <<inputs, phase, dependencies, nodes, edges, hints>>
      BY <1>5 DEF VisitNode, VisitNeighbour, MeetNeighbour, Return, Call
    <2>2. SearchInv /\ EdgesInv /\ DependenciesInv /\ hints = {} /\ nodes = {NameOf[i] : i \in Dependent}
      BY <2>1 DEF IInv
    <2>3. ASSUME VisitNode PROVE SearchInv'
      <3>1. PICK n \in nodes : number[n] = NotYet /\ Call(n)
        BY <2>3 DEF VisitNode
      <3>2. n \in Name /\ calls = <<>> /\ stack = <<>>
        BY <1>1, <2>2, <2>3, <3>1 DEF VisitNode, TypeOK, SearchInv, StackInv
      <3>3. QED BY <1>1, <2>2, <3>1, <3>2, CallStructure, CallPaths DEF SearchInv
    <2>4. ASSUME VisitNeighbour PROVE SearchInv'
      <3>1. PICK n \in todo[Top] : number[n] = NotYet /\ Call(n)
        BY <2>4 DEF VisitNeighbour
      <3>2. n \in Name /\ calls # <<>>
        BY <1>1, <2>4, <3>1, StackTypes DEF VisitNeighbour, TypeOK
      <3>3. QED BY <1>1, <2>2, <3>1, <3>2, CallStructure, CallPaths DEF SearchInv
    <2>5. ASSUME MeetNeighbour PROVE SearchInv'
      BY <1>1, <2>2, <2>5, MeetKeepsInv
    <2>6. ASSUME Return PROVE SearchInv'
      BY <1>1, <2>2, <2>6, ReturnInnerKeepsInv, ReturnRootKeepsInv
    <2>7. SearchInv'
      BY <1>5, <2>3, <2>4, <2>5, <2>6
    <2>8. EdgesInv' /\ DependenciesInv' /\ Dependent' = Dependent
      BY <2>1, <2>2, EdgesKept, TableKept DEF Dependent, inputs
    <2>9. QED BY <1>1, <2>1, <2>2, <2>7, <2>8 DEF IInv
  <1>6. CASE Report
    <2>1. /\ phase = "search" /\ calls = <<>> /\ (\A n \in nodes : number[n] # NotYet) /\ phase' = "done"
          /\ hints' = {c \in scc : Cardinality(c) >= 2}
          /\ UNCHANGED <<inputs, dependencies, nodes, edges, search>>
      BY <1>6 DEF Report
    <2>2. SearchInv /\ EdgesInv /\ DependenciesInv /\ nodes = {NameOf[i] : i \in Dependent}
      BY <2>1 DEF IInv
    <2>3. SearchInv' /\ EdgesInv' /\ DependenciesInv' /\ Dependent' = Dependent
      BY <2>1, <2>2, SearchKept, EdgesKept, TableKept DEF Dependent, inputs
    <2>4. stack = <<>>
      BY <2>1, <2>2 DEF SearchInv, StackInv
    <2>5. DoneInv'
      BY <2>1, <2>4 DEF DoneInv, search
    <2>6. QED BY <1>1, <2>1, <2>2, <2>3, <2>5 DEF IInv
  <1>7. CASE Terminated
    BY <1>2, <1>7 DEF Terminated
  <1>8. QED BY <1>2, <1>3, <1>4, <1>5, <1>6, <1>7 DEF Next

LEMMA InitInv == Init => IInv
  <1> SUFFICES ASSUME Init PROVE IInv
    OBVIOUS
  <1>1. TypeOK
    BY TypesInit
  <1>2. QED BY <1>1 DEF Init, IInv, Unstarted

THEOREM Invariance == Spec => []IInv
  <1>1. Init => IInv
    BY InitInv
  <1>2. IInv /\ [Next]_vars => IInv'
    BY NextKeepsInv
  <1>3. QED BY <1>1, <1>2, PTL DEF Spec

-----------------------------------------------------------------------------
LEMMA TwoElements ==
    ASSUME NEW S, IsFiniteSet(S)
    PROVE  Cardinality(S) >= 2 <=> \E a, b \in S : a # b
  <1>1. Cardinality(S) \in Nat
    BY FS_CardinalityType
  <1>2. ASSUME NEW a \in S, NEW b \in S, a # b PROVE Cardinality(S) >= 2
    <2>1. Cardinality({a}) = 1 /\ IsFiniteSet({a})
      BY FS_Singleton
    <2>2. Cardinality(S) # 0 /\ Cardinality(S) # 1
      BY <1>2, FS_EmptySet, FS_Singleton
    <2>3. QED BY <1>1, <2>2
  <1>3. ASSUME Cardinality(S) >= 2 PROVE \E a, b \in S : a # b
    <2>1. S # {}
      BY <1>3, FS_EmptySet
    <2>2. PICK a \in S : TRUE
      BY <2>1
    <2>3. S # {a}
      BY <1>3, FS_Singleton
    <2>4. QED BY <2>2, <2>3
  <1>4. QED BY <1>2, <1>3

\* A set that no need leaves is closed along the edges, and where names are
\* unique there are no others.
LEMMA ClosedAlongEdges ==
    ASSUME TypeOK, EdgesInv
    PROVE  /\ \A S \in Closed : S \in SUBSET Name /\ \A n \in S : edges[n] \subseteq S
           /\ Unique => \A S \in SUBSET Name : (\A n \in S : edges[n] \subseteq S) => S \in Closed
  <1>1. \A n \in Name : edges[n] \subseteq Name
    BY DEF TypeOK
  <1>2. QED BY <1>1 DEF EdgesInv, Closed

\* HintsAreCircles, for all groups and relations.
THEOREM HintsHold == Spec => []HintsAreCircles
  <1>1. IInv => HintsAreCircles
    <2> SUFFICES ASSUME IInv, NEW S \in Closed, NEW c \in hints, NEW m \in c, m \in S, NEW n \in c
                 PROVE  n \in S
      BY DEF HintsAreCircles
    <2>1. TypeOK /\ hints # {} /\ c \in scc
      BY DEF IInv, TypeOK
    <2>2. EdgesInv /\ ComponentInv
      BY <2>1 DEF IInv, TypeOK, SearchInv
    <2>3. m \in Name /\ n \in Name
      BY <2>1 DEF TypeOK
    <2>4. Reach(edges, m, n)
      BY <2>1, <2>2, <2>3 DEF ComponentInv
    <2>5. S \in SUBSET Name /\ \A x \in S : edges[x] \subseteq S
      BY <2>1, <2>2, ClosedAlongEdges
    <2>6. QED BY <2>4, <2>5, ReachStays
  <1>2. QED BY <1>1, Invariance, PTL

\* TypeOK, for all groups and relations.
THEOREM TypesHold == Spec => []TypeOK
  <1>1. IInv => TypeOK
    BY DEF IInv
  <1>2. QED BY <1>1, Invariance, PTL

\* CirclesAreReported, for all groups and relations: the two sides name the
\* same sets, of which those with two elements are reported.
THEOREM CirclesHold == Spec => []CirclesAreReported
  <1>1. IInv => CirclesAreReported
    <2> DEFINE circle(m) == {n \in Name : \A S \in Closed : m \in S <=> n \in S}
               Circles == {c \in {circle(m) : m \in Name} : \E m, n \in c : m # n}
    <2> SUFFICES ASSUME IInv, phase = "done", Unique PROVE hints = Circles
      BY DEF CirclesAreReported, Unique
    <2>1. TypeOK /\ EdgesInv /\ ComponentInv /\ VisitedInv /\ DoneInv /\ nodes = {NameOf[i] : i \in Dependent}
      BY DEF IInv, SearchInv
    <2>2. edges \in [Name -> SUBSET Name] /\ scc \subseteq SUBSET Name /\ members \subseteq Installable
      BY <2>1 DEF TypeOK
    <2>3. \A S \in SUBSET Name : S \in Closed <=> \A x \in S : edges[x] \subseteq S
      BY <2>1, ClosedAlongEdges
    <2>4. \A S \in Closed : S \in SUBSET Name
      BY DEF Closed
    <2>5. \A m, n \in Name : n \in circle(m) <=> Reach(edges, m, n) /\ Reach(edges, n, m)
      <3> SUFFICES ASSUME NEW m \in Name, NEW n \in Name
                   PROVE  n \in circle(m) <=> Reach(edges, m, n) /\ Reach(edges, n, m)
        OBVIOUS
      <3>1. n \in circle(m) <=> \A S \in Closed : m \in S <=> n \in S
        OBVIOUS
      <3>2. Reach(edges, m, n) <=> \A S \in Closed : m \in S => n \in S
        BY <2>3, <2>4 DEF Reach
      <3>3. Reach(edges, n, m) <=> \A S \in Closed : n \in S => m \in S
        BY <2>3, <2>4 DEF Reach
      <3>4. QED BY <3>1, <3>2, <3>3
    <2>6. \A m \in Name : circle(m) \subseteq Name /\ m \in circle(m)
      OBVIOUS
    <2> HIDE DEF circle
    <2>7. ASSUME NEW m \in Name, NEW n \in circle(m), n # m
          PROVE  m \in nodes
      <3>1. n \in Name /\ Reach(edges, m, n)
        BY <2>5, <2>6, <2>7
      <3>2. edges[m] # {}
        <4>1. SUFFICES ASSUME edges[m] = {} PROVE FALSE
          OBVIOUS
        <4>2. \A x \in {m} : edges[x] \subseteq {m}
          BY <4>1
        <4>3. n \in {m}
          BY <3>1, <4>2, ReachStays
        <4>4. QED BY <2>7, <4>3
      <3>3. PICK l \in edges[m] : TRUE
        BY <3>2
      <3>4. QED BY <2>1, <2>2, <3>3 DEF EdgesInv
    <2>8. \A m \in Name : \A n \in circle(m) : m \in circle(n) /\ n \in Name
      BY <2>5, <2>6
    <2>9. CASE Unstarted /\ hints = {} /\ Cardinality(Dependent) < 2
      <3> SUFFICES ASSUME NEW c \in Circles PROVE FALSE
        BY <2>9
      <3>1. PICK m \in Name : c = circle(m)
        OBVIOUS
      <3>2. PICK n \in c : n # m
        OBVIOUS
      <3>3. m \in nodes /\ n \in nodes
        BY <2>7, <2>8, <3>1, <3>2
      <3>4. PICK i \in Dependent, j \in Dependent : NameOf[i] = m /\ NameOf[j] = n
        BY <2>1, <3>3
      <3>5. i # j
        BY <3>2, <3>4
      <3>6. IsFiniteSet(Dependent)
        <4>1. Dependent \in SUBSET Installable
          BY <2>2 DEF Dependent
        <4>2. QED BY <4>1, CircularAssumption, FS_Subset
      <3>7. Cardinality(Dependent) >= 2 /\ Cardinality(Dependent) \in Nat
        BY <3>4, <3>5, <3>6, TwoElements, FS_CardinalityType
      <3>8. QED BY <2>9, <3>7
    <2>10. CASE (\A n \in nodes : number[n] # NotYet) /\ hints = {c \in scc : Cardinality(c) >= 2}
      <3>1. \A c \in scc : Cardinality(c) >= 2 <=> \E m, n \in c : m # n
        <4> SUFFICES ASSUME NEW c \in scc PROVE Cardinality(c) >= 2 <=> \E m, n \in c : m # n
          OBVIOUS
        <4>1. IsFiniteSet(c)
          BY <2>2, CircularAssumption, FS_Subset
        <4>2. QED BY <4>1, TwoElements
      <3>2. \A c \in scc : \A m \in c : c = circle(m) /\ m \in Name
        <4> SUFFICES ASSUME NEW c \in scc, NEW m \in c PROVE c = circle(m) /\ m \in Name
          OBVIOUS
        <4>1. c \subseteq Name /\ m \in Name
          BY <2>2
        <4>2. \A n \in Name : n \in c <=> n \in circle(m)
          BY <2>1, <2>5, <4>1 DEF ComponentInv
        <4>3. QED BY <2>6, <4>1, <4>2
      <3>3. \A c \in hints : c \in Circles
        BY <2>10, <3>1, <3>2
      <3>4. \A c \in Circles : c \in hints
        <4> SUFFICES ASSUME NEW c \in Circles PROVE c \in hints
          OBVIOUS
        <4>1. PICK m \in Name : c = circle(m)
          OBVIOUS
        <4>2. PICK n \in c : n # m
          OBVIOUS
        <4>3. m \in nodes
          BY <2>7, <4>1, <4>2
        <4>4. m \in UNION scc
          <5>1. on_stack = {}
            BY <2>1 DEF DoneInv, TypeOK, Elements
          <5>2. QED BY <2>10, <4>3, <5>1, <2>1 DEF VisitedInv
        <4>5. PICK d \in scc : m \in d
          BY <4>4
        <4>6. d = c
          BY <3>2, <4>1, <4>5
        <4>7. QED BY <2>10, <3>1, <4>5, <4>6
      <3>5. QED BY <3>3, <3>4
    <2>11. QED BY <2>1, <2>9, <2>10 DEF DoneInv
  <1>2. QED BY <1>1, Invariance, PTL
=============================================================================
