-------------------------- MODULE RenderPlanProofs --------------------------
(***************************************************************************)
(* The plan of buildPlan is right for every set of routes, every number of *)
(* them, and every order of the hash maps.                                 *)
(***************************************************************************)
EXTENDS RenderPlan, SequenceLemmas, FiniteSetTheorems

(* ------------------------ the graph of the routes ------------------------ *)

RouteTypes == audioRoutes \in Seq(RoutesOf("audio")) /\ midiRoutes \in Seq(RoutesOf("midi"))

\* A list of at most n elements is a sequence.
LEMMA SeqOfIsSeq ==
  ASSUME NEW S, NEW n \in Nat, NEW s \in SeqOf(S, n)
  PROVE  s \in Seq(S)
BY SeqDef DEF SeqOf

\* Every instance of a route stands for a route.
LEMMA InstanceTypes ==
  ASSUME RouteTypes
  PROVE  /\ \A e \in Instances : Route(e) \in Routes
         /\ \A e \in Internal : Route(e).source \in Named /\ Route(e).target \in Named
         /\ \A e \in Instances : Endpoints(Route(e)) \subseteq Named
<1>1. \A e \in Instances : Route(e) \in Routes
  <2> SUFFICES ASSUME NEW e \in Instances
               PROVE  Route(e) \in Routes
    OBVIOUS
  <2>1. CASE e \in {"audio"} \X DOMAIN audioRoutes
    BY <2>1, ElementOfSeq DEF RouteTypes, RoutesOf, Route
  <2>2. CASE e \in {"midi"} \X DOMAIN midiRoutes
    BY <2>2, ElementOfSeq DEF RouteTypes, RoutesOf, Route
  <2> QED
    BY <2>1, <2>2 DEF Instances
<1>2. \A e \in Instances : Endpoints(Route(e)) \subseteq Named
  BY DEF Named
<1> QED
  BY <1>1, <1>2 DEF Internal, Endpoints

\* The values of a function on a finite set are finitely many.
LEMMA FiniteImage ==
  ASSUME NEW S, IsFiniteSet(S), NEW f, f = [x \in S |-> f[x]]
  PROVE  IsFiniteSet({f[x] : x \in S})
<1>1. f \in Surjection(S, {f[x] : x \in S})
  BY DEF Surjection
<1> QED
  BY <1>1, FS_Surjection, Zenon

\* There are finitely many routes, and so finitely many units they name.
LEMMA GraphIsFinite ==
  ASSUME RouteTypes
  PROVE  /\ IsFiniteSet(Instances) /\ IsFiniteSet(Named)
         /\ \A n : IsFiniteSet(Into(n)) /\ \A m : IsFiniteSet(Between(m, n))
<1>1. IsFiniteSet(DOMAIN audioRoutes) /\ IsFiniteSet(DOMAIN midiRoutes)
  BY FS_Interval DEF RouteTypes
<1>2. IsFiniteSet({"audio"}) /\ IsFiniteSet({"midi"})
  BY FS_Singleton
<1>3. IsFiniteSet(Instances)
  BY <1>1, <1>2, FS_Product, FS_Union DEF Instances
<1> DEFINE source == [e \in Instances |-> Route(e).source]
           target == [e \in Instances |-> Route(e).target]
<1>4. IsFiniteSet({source[e] : e \in Instances}) /\ IsFiniteSet({target[e] : e \in Instances})
  BY <1>3, FiniteImage
<1>5. Named \in SUBSET ({source[e] : e \in Instances} \cup {target[e] : e \in Instances})
  BY DEF Named, Endpoints
<1>6. IsFiniteSet(Named)
  BY <1>4, <1>5, FS_Union, FS_Subset
<1>7. \A n : Into(n) \in SUBSET Instances /\ \A m : Between(m, n) \in SUBSET Instances
  BY DEF Into, Between, Internal
<1> QED
  BY <1>3, <1>6, <1>7, FS_Subset

(* ------------------------- lists without repetition ---------------------- *)

\* There are n numbers from 1 to n.
LEMMA IntervalSize ==
  ASSUME NEW n \in Nat
  PROVE  IsFiniteSet(1..n) /\ Cardinality(1..n) = n
BY FS_Interval

\* A list out of SetToSeqs has the elements of its set, each once.
LEMMA ListOfSet ==
  ASSUME NEW S, IsFiniteSet(S), NEW s \in SetToSeqs(S)
  PROVE  s \in Seq(S) /\ ToSet(s) = S /\ IsInjective(s)
<1>1. Cardinality(S) \in Nat
  BY FS_CardinalityType
<1>2. s \in [1..Cardinality(S) -> S] /\ IsInjective(s)
  BY DEF SetToSeqs, IsInjective
<1>3. s \in Seq(S)
  BY <1>1, <1>2, SeqDef
<1>4. s \in Injection(1..Cardinality(S), S)
  BY <1>2 DEF Injection, IsInjective
<1>5. IsFiniteSet(1..Cardinality(S)) /\ Cardinality(1..Cardinality(S)) = Cardinality(S)
  BY <1>1, IntervalSize
<1>6. s \in Surjection(1..Cardinality(S), S)
  BY <1>4, <1>5, FS_Injection
<1>7. ToSet(s) = S
  BY <1>2, <1>6 DEF ToSet, Surjection
<1> QED
  BY <1>2, <1>3, <1>7

\* The length of such a list is the number of its elements.
LEMMA LengthIsNumber ==
  ASSUME NEW S, NEW s \in Seq(S), IsInjective(s)
  PROVE  IsFiniteSet(ToSet(s)) /\ Cardinality(ToSet(s)) = Len(s)
<1>1. Len(s) \in Nat /\ DOMAIN s = 1..Len(s) /\ s = [i \in 1..Len(s) |-> s[i]]
  BY ElementsAtPositions
<1>2. s \in Surjection(1..Len(s), ToSet(s)) /\ s \in Injection(1..Len(s), ToSet(s))
  BY <1>1 DEF Surjection, Injection, IsInjective, ToSet
<1>3. IsFiniteSet(1..Len(s)) /\ Cardinality(1..Len(s)) = Len(s)
  BY <1>1, IntervalSize
<1> QED
  BY <1>2, <1>3, FS_Surjection

\* Two such lists with nothing in common make one.
LEMMA ConcatDistinct ==
  ASSUME NEW S, NEW s \in Seq(S), NEW t \in Seq(S)
  PROVE  /\ s \o t \in Seq(S)
         /\ ToSet(s \o t) = ToSet(s) \cup ToSet(t)
         /\ IsInjective(s) /\ IsInjective(t) /\ ToSet(s) \cap ToSet(t) = {} => IsInjective(s \o t)
<1> DEFINE c == s \o t
<1>1. /\ c \in Seq(S) /\ Len(c) = Len(s) + Len(t)
      /\ \A i \in 1..Len(c) : c[i] = IF i <= Len(s) THEN s[i] ELSE t[i - Len(s)]
  BY ConcatProperties
<1>2. Len(s) \in Nat /\ Len(t) \in Nat /\ DOMAIN s = 1..Len(s) /\ DOMAIN t = 1..Len(t) /\ DOMAIN c = 1..Len(c)
  BY <1>1, ElementsAtPositions
<1> HIDE DEF c
<1>3. \A i \in 1..Len(s) : i \in 1..Len(c) /\ c[i] = s[i]
  BY <1>1, <1>2
<1>4. \A i \in 1..Len(t) : Len(s) + i \in 1..Len(c) /\ c[Len(s) + i] = t[i]
  <2> SUFFICES ASSUME NEW i \in 1..Len(t)
               PROVE  Len(s) + i \in 1..Len(c) /\ c[Len(s) + i] = t[i]
    OBVIOUS
  <2>1. \A k \in 1..Len(c) : ~(k <= Len(s)) => c[k] = t[k - Len(s)]
    BY <1>1, Zenon
  <2>2. Len(s) + i \in 1..Len(c) /\ ~(Len(s) + i <= Len(s)) /\ Len(s) + i - Len(s) = i
    BY <1>1, <1>2
  <2> QED
    BY <2>1, <2>2
<1>5. \A i \in 1..Len(c) : i \in 1..Len(s) \/ \E k \in 1..Len(t) : i = Len(s) + k
  <2> SUFFICES ASSUME NEW i \in 1..Len(c), i \notin 1..Len(s)
               PROVE  \E k \in 1..Len(t) : i = Len(s) + k
    OBVIOUS
  <2>1. i - Len(s) \in 1..Len(t) /\ i = Len(s) + (i - Len(s))
    BY <1>1, <1>2
  <2> QED
    BY <2>1
<1>6. ToSet(c) = ToSet(s) \cup ToSet(t)
  BY <1>2, <1>3, <1>4, <1>5 DEF ToSet
<1>7. ASSUME IsInjective(s), IsInjective(t), ToSet(s) \cap ToSet(t) = {},
             NEW i \in 1..Len(c), NEW j \in 1..Len(c), c[i] = c[j]
      PROVE  i = j
  <2>1. CASE i \in 1..Len(s) /\ j \in 1..Len(s)
    BY <1>2, <1>3, <1>7, <2>1 DEF IsInjective
  <2>2. CASE i \notin 1..Len(s) /\ j \notin 1..Len(s)
    <3>1. PICK a \in 1..Len(t), b \in 1..Len(t) : i = Len(s) + a /\ j = Len(s) + b
      BY <1>5, <2>2
    <3>2. t[a] = t[b]
      BY <1>4, <1>7, <3>1
    <3>3. a = b
      BY <1>2, <1>7, <3>2 DEF IsInjective
    <3> QED
      BY <3>1, <3>3
  <2>3. ASSUME NEW a \in 1..Len(s), NEW b \in 1..Len(t)
        PROVE  s[a] # t[b]
    BY <1>2, <1>7 DEF ToSet
  <2> QED
    BY <1>3, <1>4, <1>5, <1>7, <2>1, <2>2, <2>3
<1> QED
  BY <1>1, <1>2, <1>6, <1>7 DEF c, IsInjective

(* ----------------------------- the invariant ----------------------------- *)

\* The routes into a unit from units that have not been taken.
Waiting(n) == {e \in Into(n) : Route(e).source \notin ToSet(order)}

Lists ==
  /\ queue \in Seq(Named) /\ order \in Seq(Named)
  /\ IsInjective(queue) /\ IsInjective(order)
  /\ ToSet(queue) \cap ToSet(order) = {}

\* A counter says how many routes a unit still waits for.
Counters ==
  stage # "count" => /\ indegree \in [Named -> Int]
                     /\ \A n \in Named : indegree[n] = Cardinality(Waiting(n))

\* A unit that waits for none is in the queue or has been taken.
NoneForgotten ==
  stage # "count" => ToSet(queue) \cup ToSet(order) = {n \in Named : indegree[n] = 0}

\* A unit was taken after its sources.
TakenAfterSources ==
  \A i \in 1..Len(order) : \A e \in Into(order[i]) : \E j \in 1..(i - 1) : order[j] = Route(e).source

\* Units that wait for each other.
Stuck(S) == \A n \in S : \E e \in Into(n) : Route(e).source \in S

\* None of them has been taken.
NoneInACircle == \A S \in SUBSET Named : Stuck(S) => S \cap ToSet(order) = {}

\* What has been returned follows from the lists.
Result ==
  /\ stage \in {"count", "sort", "dummy", "fatal", "built"}
  /\ stage = "count" => Len(order) = 0 /\ Len(queue) = 0
  /\ stage \in {"dummy", "fatal", "built"} => Len(queue) = 0
  /\ stage = "dummy" => Len(order) = 0 \/ ~Complete
  /\ stage \in {"fatal", "built"} => Complete
  /\ stage = "fatal" <=> stage \in {"fatal", "built"} /\ ~(Named \subseteq unitIds)
  /\ stage # "built" => nodes = <<>>
  /\ stage = "built" =>
       nodes = [i \in 1..Len(order) |->
                  [target |-> order[i], deps |-> {e \in Instances : Route(e).target = order[i]}]]
  /\ outputs \subseteq Named

Inv ==
  /\ RouteTypes /\ Lists /\ Counters /\ NoneForgotten /\ TakenAfterSources /\ NoneInACircle /\ Result

\* Building the plan does not change the project, and so not the graph.
LEMMA SameGraph ==
  ASSUME UNCHANGED project
  PROVE  /\ RouteTypes' = RouteTypes /\ Instances' = Instances /\ Named' = Named
         /\ \A e : Route(e)' = Route(e)
         /\ \A n : Into(n)' = Into(n)
<1>1. UNCHANGED audioRoutes /\ UNCHANGED midiRoutes
  BY DEF project
<1>2. Instances' = Instances /\ \A e : Route(e)' = Route(e)
  BY <1>1 DEF Instances, Route
<1>3. Internal' = Internal
  BY <1>2 DEF Internal
<1> QED
  BY <1>1, <1>2, <1>3 DEF RouteTypes, Named, Into

\* Nothing has been taken from an empty list.
LEMMA EmptyLists ==
  /\ <<>> \in Seq(Named)
  /\ Len(<<>>) = 0
  /\ ToSet(<<>>) = {}
  /\ IsInjective(<<>>)
BY EmptySeq DEF ToSet, IsInjective

\* It holds before anything is counted.
LEMMA InvInit == Init => Inv
<1> SUFFICES ASSUME Init
             PROVE  Inv
  OBVIOUS
<1>1. RouteTypes
  BY SeqOfIsSeq, BoundsAssumption DEF Init, RouteTypes
<1>2. stage = "count" /\ order = <<>> /\ queue = <<>> /\ nodes = <<>> /\ outputs = {}
  BY DEF Init
<1>3. Lists
  BY <1>2, EmptyLists DEF Lists
<1>4. Counters /\ NoneForgotten
  BY <1>2 DEF Counters, NoneForgotten
<1>5. Len(order) = 0 /\ Len(queue) = 0
  BY <1>2, EmptyLists
<1>6. TakenAfterSources
  BY <1>5 DEF TakenAfterSources
<1>7. NoneInACircle
  BY <1>2, EmptyLists DEF NoneInACircle
<1>8. Result
  BY <1>2, <1>5 DEF Result
<1> QED
  BY <1>1, <1>3, <1>4, <1>6, <1>7, <1>8 DEF Inv

\* Counting leaves the units that wait for none in the queue.
LEMMA CountInv ==
  ASSUME Inv, Count
  PROVE  Inv'
<1>1. /\ UNCHANGED project /\ UNCHANGED order /\ UNCHANGED nodes /\ UNCHANGED outputs
      /\ stage = "count" /\ stage' = "sort"
      /\ indegree' = [n \in Named |-> Cardinality(Into(n))]
      /\ queue' \in SetToSeqs({n \in Named : indegree'[n] = 0})
  BY DEF Count, WaitsFor
<1>2. RouteTypes /\ order \in Seq(Named) /\ Len(order) = 0
  BY <1>1 DEF Inv, Lists, Result
<1>3. order = <<>> /\ ToSet(order) = {}
  BY <1>2, EmptySeq, EmptyLists
<1>4. IsFiniteSet(Named) /\ \A n : IsFiniteSet(Into(n))
  BY <1>2, GraphIsFinite
<1>5. \A n : Waiting(n)' = Into(n)
  BY <1>1, <1>3, SameGraph DEF Waiting
<1>6. Named' = Named /\ RouteTypes'
  BY <1>1, <1>2, SameGraph
<1>7. indegree' \in [Named -> Int] /\ \A n \in Named : indegree'[n] = Cardinality(Into(n))
  BY <1>1, <1>4, FS_CardinalityType
<1>8. Counters'
  BY <1>5, <1>6, <1>7 DEF Counters
<1>9. /\ queue' \in Seq({n \in Named : indegree'[n] = 0})
      /\ ToSet(queue') = {n \in Named : indegree'[n] = 0}
      /\ IsInjective(queue')
  BY <1>1, <1>4, FS_Subset, ListOfSet
<1>10. queue' \in Seq(Named)
  BY <1>9, SeqMonotonic
<1>11. Lists'
  BY <1>1, <1>3, <1>6, <1>9, <1>10 DEF Inv, Lists
<1>12. NoneForgotten'
  BY <1>1, <1>3, <1>6, <1>9 DEF NoneForgotten
<1>13. TakenAfterSources' /\ NoneInACircle'
  BY <1>1, <1>2, <1>3 DEF TakenAfterSources, NoneInACircle
<1>14. Result'
  BY <1>1, <1>6 DEF Inv, Result
<1> QED
  BY <1>6, <1>8, <1>11, <1>12, <1>13, <1>14 DEF Inv

\* What the head of the queue is, and what taking it does to the graph still to be done.
LEMMA TakeFacts ==
  ASSUME Inv, Take, NEW n, n = Head(queue)
  PROVE  /\ n \in Named /\ n \in ToSet(queue) /\ n \notin ToSet(order) /\ Waiting(n) = {}
         /\ Tail(queue) \in Seq(Named) /\ IsInjective(Tail(queue))
         /\ ToSet(Tail(queue)) = ToSet(queue) \ {n}
         /\ order' = Append(order, n)
         /\ order' \in Seq(Named) /\ IsInjective(order')
         /\ ToSet(order') = ToSet(order) \cup {n}
         /\ Named' = Named
         /\ \A m : Waiting(m)' = Waiting(m) \ Between(n, m)
         /\ \A m : Between(n, m) \subseteq Waiting(m)
<1>1. /\ stage = "sort" /\ queue # <<>> /\ UNCHANGED project /\ order' = Append(order, n)
      /\ queue \in Seq(Named) /\ order \in Seq(Named)
      /\ IsInjective(queue) /\ IsInjective(order) /\ ToSet(queue) \cap ToSet(order) = {}
  BY DEF Take, Inv, Lists
<1>2. Len(queue) # 0
  BY <1>1, EmptySeq
<1>3. /\ Tail(queue) \in Seq(Named) /\ IsInjective(Tail(queue))
      /\ ToSet(Tail(queue)) = ToSet(queue) \ {n} /\ n \in ToSet(queue)
  BY <1>1, <1>2, TailDistinct
<1>4. n \in Named /\ n \notin ToSet(order)
  BY <1>1, <1>3, ElementsAtPositions
<1>5. indegree[n] = 0 /\ indegree[n] = Cardinality(Waiting(n))
  BY <1>1, <1>3, <1>4 DEF Inv, NoneForgotten, Counters
<1>6. IsFiniteSet(Waiting(n))
  <2>1. Waiting(n) \in SUBSET Into(n) /\ IsFiniteSet(Into(n))
    BY GraphIsFinite DEF Waiting, Inv
  <2> QED
    BY <2>1, FS_Subset
<1>7. Waiting(n) = {}
  BY <1>5, <1>6, FS_EmptySet
<1>8. order' \in Seq(Named) /\ IsInjective(order') /\ ToSet(order') = ToSet(order) \cup {n}
  BY <1>1, <1>4, AppendDistinct
<1>9. Named' = Named /\ (\A m : Into(m)' = Into(m)) /\ (\A e : Route(e)' = Route(e))
  BY <1>1, SameGraph
<1>10. \A m : Waiting(m)' = Waiting(m) \ Between(n, m)
  BY <1>8, <1>9 DEF Waiting, Between
<1>11. \A m : Between(n, m) \subseteq Waiting(m)
  BY <1>4 DEF Waiting, Between
<1> QED
  BY <1>1, <1>3, <1>4, <1>7, <1>8, <1>9, <1>10, <1>11

\* Taking a unit, and counting down the units that follow it.
LEMMA TakeInv ==
  ASSUME Inv, Take
  PROVE  Inv'
<1> DEFINE n == Head(queue)
           R == Ready(n, indegree')
<1>1. /\ n \in Named /\ n \in ToSet(queue) /\ n \notin ToSet(order) /\ Waiting(n) = {}
      /\ Tail(queue) \in Seq(Named) /\ IsInjective(Tail(queue))
      /\ ToSet(Tail(queue)) = ToSet(queue) \ {n}
      /\ order' = Append(order, n)
      /\ order' \in Seq(Named) /\ IsInjective(order')
      /\ ToSet(order') = ToSet(order) \cup {n}
      /\ Named' = Named
      /\ \A m : Waiting(m)' = Waiting(m) \ Between(n, m)
      /\ \A m : Between(n, m) \subseteq Waiting(m)
  BY TakeFacts
<1>2. /\ stage = "sort" /\ stage' = stage /\ nodes' = nodes /\ outputs' = outputs /\ UNCHANGED project
      /\ indegree' = [m \in Named |-> indegree[m] - Cardinality(Between(n, m))]
  BY DEF Take
<1>3. PICK s \in SetToSeqs(R) : queue' = Tail(queue) \o s
  BY DEF Take
<1>4. /\ RouteTypes /\ RouteTypes' /\ IsFiniteSet(Named)
      /\ \A m : IsFiniteSet(Into(m)) /\ IsFiniteSet(Between(n, m))
      /\ (\A e : Route(e)' = Route(e)) /\ (\A m : Into(m)' = Into(m))
  BY <1>2, GraphIsFinite, SameGraph DEF Inv
<1>5. /\ indegree \in [Named -> Int]
      /\ \A m \in Named : indegree[m] = Cardinality(Waiting(m))
      /\ ToSet(queue) \cup ToSet(order) = {m \in Named : indegree[m] = 0}
      /\ order \in Seq(Named)
  BY <1>2 DEF Inv, Counters, NoneForgotten, Lists
<1>6. \A m : IsFiniteSet(Waiting(m))
  <2>1. \A m : Waiting(m) \in SUBSET Into(m)
    BY DEF Waiting
  <2> QED
    BY <1>4, <2>1, FS_Subset
<1>7. R \in SUBSET Named
  BY DEF Ready
<1> HIDE DEF n
<1>8. ASSUME NEW m \in Named
      PROVE  /\ indegree'[m] \in Int
             /\ indegree'[m] = Cardinality(Waiting(m)')
             /\ indegree'[m] = 0 <=> indegree[m] = 0 \/ m \in R
             /\ m \in R => indegree[m] # 0
  <2>1. Waiting(m) \cap Between(n, m) = Between(n, m)
    BY <1>1
  <2>2. /\ Cardinality(Waiting(m) \ Between(n, m)) = Cardinality(Waiting(m)) - Cardinality(Between(n, m))
        /\ IsFiniteSet(Waiting(m) \ Between(n, m))
    BY <1>6, <2>1, FS_Difference
  <2>3. Cardinality(Waiting(m)) \in Nat /\ Cardinality(Between(n, m)) \in Nat
    BY <1>4, <1>6, FS_CardinalityType
  <2>4. indegree'[m] = Cardinality(Waiting(m)) - Cardinality(Between(n, m)) /\ indegree'[m] \in Int
    BY <1>2, <1>5, <2>3
  <2>5. (Cardinality(Waiting(m)) = 0 <=> Waiting(m) = {}) /\ (Cardinality(Between(n, m)) = 0 <=> Between(n, m) = {})
    BY <1>4, <1>6, FS_EmptySet
  <2>6. m \in R <=> Between(n, m) # {} /\ indegree'[m] = 0
    BY DEF Ready
  <2>7. indegree[m] = 0 => Between(n, m) = {}
    BY <1>1, <1>5, <2>5
  <2> QED
    BY <1>1, <1>5, <2>2, <2>3, <2>4, <2>5, <2>6, <2>7
<1> HIDE DEF R
<1>9. Counters'
  BY <1>1, <1>2, <1>8 DEF Counters
<1>10. s \in Seq(R) /\ ToSet(s) = R /\ IsInjective(s)
  BY <1>3, <1>4, <1>7, FS_Subset, ListOfSet
<1>11. s \in Seq(Named)
  BY <1>7, <1>10, SeqMonotonic
<1>12. ToSet(Tail(queue)) \cap ToSet(s) = {} /\ R \cap (ToSet(queue) \cup ToSet(order)) = {}
  BY <1>1, <1>5, <1>7, <1>8, <1>10
<1>13. /\ queue' \in Seq(Named) /\ IsInjective(queue')
       /\ ToSet(queue') = (ToSet(queue) \ {n}) \cup R
  <2> DEFINE q == Tail(queue)
  <2>1. q \in Seq(Named) /\ IsInjective(q) /\ ToSet(q) \cap ToSet(s) = {}
    BY <1>1, <1>12
  <2> HIDE DEF q
  <2>2. q \o s \in Seq(Named) /\ IsInjective(q \o s) /\ ToSet(q \o s) = ToSet(q) \cup ToSet(s)
    BY <1>10, <1>11, <2>1, ConcatDistinct
  <2> QED
    BY <1>1, <1>3, <1>10, <2>2 DEF q
<1>14. Lists'
  BY <1>1, <1>12, <1>13 DEF Inv, Lists
<1>15. NoneForgotten'
  BY <1>1, <1>2, <1>5, <1>7, <1>8, <1>13 DEF NoneForgotten
<1>16. TakenAfterSources'
  <2>1. /\ Len(order') = Len(order) + 1 /\ Len(order) \in Nat
        /\ \A i \in 1..Len(order) : order'[i] = order[i]
        /\ order'[Len(order) + 1] = n
    BY <1>1, <1>5, AppendProperties
  <2>2. ASSUME NEW i \in 1..Len(order'), NEW e \in Into(order'[i])
        PROVE  \E j \in 1..(i - 1) : order'[j] = Route(e).source
    <3>1. CASE i \in 1..Len(order)
      <4>1. PICK j \in 1..(i - 1) : order[j] = Route(e).source
        BY <2>1, <2>2, <3>1 DEF Inv, TakenAfterSources
      <4>2. j \in 1..Len(order)
        BY <2>1, <3>1
      <4> QED
        BY <2>1, <4>1, <4>2
    <3>2. CASE i = Len(order) + 1
      <4>1. e \in Into(n)
        BY <2>1, <2>2, <3>2
      <4>2. Route(e).source \in ToSet(order)
        BY <1>1, <4>1 DEF Waiting
      <4>3. PICK j \in 1..Len(order) : order[j] = Route(e).source
        BY <1>5, <4>2, ElementsAtPositions
      <4> QED
        BY <2>1, <3>2, <4>3
    <3> QED
      BY <2>1, <3>1, <3>2
  <2> QED
    BY <1>4, <2>2 DEF TakenAfterSources
<1>17. NoneInACircle'
  <2>1. ASSUME NEW S \in SUBSET Named, Stuck(S)
        PROVE  S \cap ToSet(order') = {}
    <3>1. S \cap ToSet(order) = {}
      BY <2>1 DEF Inv, NoneInACircle
    <3>2. n \notin S
      BY <1>1, <2>1, <3>1 DEF Stuck, Waiting
    <3> QED
      BY <1>1, <3>1, <3>2
  <2>2. \A S : Stuck(S)' <=> Stuck(S)
    BY <1>4 DEF Stuck
  <2> QED
    BY <1>1, <2>1, <2>2 DEF NoneInACircle
<1>18. Result'
  BY <1>1, <1>2 DEF Inv, Result
<1> QED
  BY <1>4, <1>9, <1>14, <1>15, <1>16, <1>17, <1>18 DEF Inv

\* Returning leaves the graph and the lists.
LEMMA ReturnInv ==
  ASSUME Inv, ReturnDummy \/ Fail \/ Build
  PROVE  Inv'
<1>1. /\ UNCHANGED <<project, indegree, queue, order>> /\ UNCHANGED project
      /\ stage = "sort" /\ stage' \in {"dummy", "fatal", "built"} /\ queue = <<>>
  BY DEF ReturnDummy, Fail, Build
<1>2. /\ RouteTypes' = RouteTypes /\ Named' = Named /\ Instances' = Instances
      /\ (\A e : Route(e)' = Route(e)) /\ (\A n : Into(n)' = Into(n))
  BY <1>1, SameGraph
<1>3. \A n : Waiting(n)' = Waiting(n)
  BY <1>1, <1>2 DEF Waiting
<1>4. Lists' /\ Counters' /\ NoneForgotten'
  BY <1>1, <1>2, <1>3 DEF Inv, Lists, Counters, NoneForgotten
<1>5. TakenAfterSources'
  BY <1>1, <1>2 DEF Inv, TakenAfterSources
<1>6. NoneInACircle'
  BY <1>1, <1>2 DEF Inv, NoneInACircle, Stuck
<1>7. Len(queue) = 0 /\ (order = <<>> <=> Len(order) = 0)
  BY <1>1, EmptySeq DEF Inv, Lists
<1>8. Complete' = Complete /\ unitIds' = unitIds
  BY <1>1, <1>2 DEF Complete, project
<1>9. Result'
  <2>1. CASE ReturnDummy
    BY <1>1, <1>2, <1>7, <1>8, <2>1 DEF ReturnDummy, Inv, Result
  <2>2. CASE Fail
    BY <1>1, <1>2, <1>7, <1>8, <2>2 DEF Fail, Inv, Result
  <2>3. CASE Build
    <3>1. /\ stage' = "built" /\ Complete /\ Named \subseteq unitIds
          /\ nodes' = [i \in 1..Len(order) |->
                         [target |-> order[i], deps |-> {e \in Instances : Route(e).target = order[i]}]]
          /\ outputs' \subseteq Named
      BY <2>3 DEF Build
    <3>2. nodes' = [i \in 1..Len(order') |->
                      [target |-> order'[i], deps |-> {e \in Instances' : Route(e)'.target = order'[i]}]]
      BY <1>1, <1>2, <3>1
    <3> QED
      BY <1>1, <1>2, <1>7, <1>8, <3>1, <3>2 DEF Result
  <2> QED
    BY <2>1, <2>2, <2>3
<1> QED
  BY <1>2, <1>4, <1>5, <1>6, <1>9 DEF Inv

\* Every step keeps the invariant.
LEMMA InvStep == Inv /\ [Next]_vars => Inv'
<1>1. ASSUME Inv, UNCHANGED vars PROVE Inv'
  <2>1. /\ UNCHANGED <<project, stage, indegree, queue, order, nodes, outputs>> /\ UNCHANGED project
        /\ unitIds' = unitIds
    BY <1>1 DEF vars, project
  <2>2. /\ RouteTypes' = RouteTypes /\ Named' = Named /\ Instances' = Instances
        /\ (\A e : Route(e)' = Route(e)) /\ (\A n : Into(n)' = Into(n))
    BY <2>1, SameGraph
  <2>3. Complete' = Complete /\ \A n : Waiting(n)' = Waiting(n)
    BY <2>1, <2>2 DEF Complete, Waiting
  <2>4. Lists' /\ Counters' /\ NoneForgotten' /\ TakenAfterSources'
    BY <1>1, <2>1, <2>2, <2>3 DEF Inv, Lists, Counters, NoneForgotten, TakenAfterSources
  <2>5. NoneInACircle'
    BY <1>1, <2>1, <2>2 DEF Inv, NoneInACircle, Stuck
  <2>6. nodes' = [i \in 1..Len(order') |->
                    [target |-> order'[i], deps |-> {e \in Instances' : Route(e)'.target = order'[i]}]]
        <=> nodes = [i \in 1..Len(order) |->
                       [target |-> order[i], deps |-> {e \in Instances : Route(e).target = order[i]}]]
    BY <2>1, <2>2
  <2>7. Result'
    BY <1>1, <2>1, <2>2, <2>3, <2>6 DEF Inv, Result
  <2> QED
    BY <1>1, <2>2, <2>4, <2>5, <2>7 DEF Inv
<1> QED
  BY <1>1, CountInv, TakeInv, ReturnInv DEF Next

\* The strengthening holds at every moment of the call.
THEOREM InvHolds == Spec => []Inv
BY InvInit, InvStep, PTL DEF Spec

(* ------------------------------- the results ----------------------------- *)

\* The types of everything buildPlan works on.
THEOREM TypeOKHolds == Spec => []TypeOK
<1>1. Inv => TypeOK
  <2> SUFFICES ASSUME Inv
               PROVE  TypeOK
    OBVIOUS
  <2>1. audioRoutes \in Seq(Routes) /\ midiRoutes \in Seq(Routes)
    <3>1. RoutesOf("audio") \subseteq Routes /\ RoutesOf("midi") \subseteq Routes
      BY DEF RoutesOf
    <3> QED
      BY <3>1, SeqMonotonic DEF Inv, RouteTypes
  <2> QED
    BY <2>1 DEF Inv, Lists, Counters, Result, TypeOK
<1> QED
  BY <1>1, InvHolds, PTL

\* In the plan of buildPlan every unit comes after the units it takes its input from.
THEOREM SourcesComeFirstHolds == Spec => []SourcesComeFirst
<1>1. Inv => SourcesComeFirst
  <2> SUFFICES ASSUME Inv, stage = "built",
                      NEW i \in DOMAIN nodes, NEW e \in nodes[i].deps, Route(e).source # EXT
               PROVE  \E j \in 1..(i - 1) : nodes[j].target = Route(e).source
    BY DEF SourcesComeFirst
  <2>1. nodes = [k \in 1..Len(order) |->
                   [target |-> order[k], deps |-> {d \in Instances : Route(d).target = order[k]}]]
    BY DEF Inv, Result
  <2>2. i \in 1..Len(order) /\ e \in Instances /\ Route(e).target = order[i]
    BY <2>1
  <2>3. order[i] \in Nat
    <3>1. order \in Seq(Named) /\ Named \subseteq Nat
      BY InstanceTypes, RoutesAssumption, EXTAssumption DEF Inv, Lists, Named, Endpoints
    <3> QED
      BY <2>2, <3>1, ElementOfSeq
  <2>4. e \in Into(order[i])
    BY <2>2, <2>3, EXTAssumption DEF Into, Internal
  <2>5. PICK j \in 1..(i - 1) : order[j] = Route(e).source
    BY <2>2, <2>4 DEF Inv, TakenAfterSources
  <2>6. j \in 1..Len(order)
    BY <2>2 DEF Inv, Lists
  <2> QED
    BY <2>1, <2>5, <2>6
<1> QED
  BY <1>1, InvHolds, PTL

\* The route bag has the routes of the two vectors, so that the definitions of Project
\* speak of the same graph.
LEMMA SameProject ==
  ASSUME RouteTypes
  PROVE  /\ Targets(RouteBag) = Named
         /\ Edges(RouteBag) = {<<Route(e).source, Route(e).target>> : e \in Internal}
         /\ Ids(UnitObjects) = unitIds
<1>1. \A e \in Instances : Route(e) \in Routes
  BY InstanceTypes
<1>2. \A r : IsFiniteSet({e \in Instances : Route(e) = r})
  <2>1. \A r : {e \in Instances : Route(e) = r} \in SUBSET Instances
    OBVIOUS
  <2> QED
    BY <2>1, GraphIsFinite, FS_Subset
<1>3. \A r \in Routes : RouteBag[r] > 0 <=> \E e \in Instances : Route(e) = r
  <2> SUFFICES ASSUME NEW r \in Routes
               PROVE  RouteBag[r] > 0 <=> {e \in Instances : Route(e) = r} # {}
    OBVIOUS
  <2>1. RouteBag[r] = Cardinality({e \in Instances : Route(e) = r})
    BY DEF RouteBag
  <2>2. RouteBag[r] \in Nat /\ (RouteBag[r] = 0 <=> {e \in Instances : Route(e) = r} = {})
    BY <1>2, <2>1, FS_CardinalityType, FS_EmptySet
  <2> QED
    BY <2>2
<1>4. Present(RouteBag) = {Route(e) : e \in Instances}
  BY <1>1, <1>3 DEF Present
<1>5. Targets(RouteBag) = Named
  BY <1>4 DEF Targets, Named
<1>6. Edges(RouteBag) = {<<Route(e).source, Route(e).target>> : e \in Internal}
  BY <1>4 DEF Edges, Internal
<1>7. Ids(UnitObjects) = unitIds
  <2>1. \A n \in unitIds : [id |-> n, life |-> 0] \in UnitObjects /\ [id |-> n, life |-> 0].id = n
    BY DEF UnitObjects
  <2>2. \A u \in UnitObjects : u.id \in unitIds
    BY DEF UnitObjects
  <2> QED
    BY <2>1, <2>2, Zenon DEF Ids
<1> QED
  BY <1>5, <1>6, <1>7

\* Units wait for each other in the graph exactly if Project calls it cyclic.
LEMMA StuckIsCyclic ==
  ASSUME RouteTypes
  PROVE  Cyclic(RouteBag) <=> \E S \in SUBSET Named : S # {} /\ Stuck(S)
<1>1. /\ Edges(RouteBag) = {<<Route(e).source, Route(e).target>> : e \in Internal}
      /\ Targets(RouteBag) = Named
  BY SameProject
<1>2. ASSUME NEW S, NEW n
      PROVE  (\E m \in S : <<m, n>> \in Edges(RouteBag)) <=> (\E e \in Into(n) : Route(e).source \in S)
  <2>1. \A m : <<m, n>> \in Edges(RouteBag) <=> \E e \in Internal : Route(e).source = m /\ Route(e).target = n
    BY <1>1
  <2> QED
    BY <2>1, Zenon DEF Into
<1>3. ASSUME NEW S
      PROVE  Stuck(S) <=> \A n \in S : \E m \in S : <<m, n>> \in Edges(RouteBag)
  BY <1>2, Zenon DEF Stuck
<1> QED
  BY <1>1, <1>3, Zenon DEF Cyclic

\* When the queue is empty, the order is complete unless units wait for each other.
LEMMA CompleteUnlessCyclic ==
  ASSUME Inv, stage # "count", Len(queue) = 0
  PROVE  /\ Complete <=> ~Cyclic(RouteBag)
         /\ Complete => ToSet(order) = Named
         /\ Len(order) = 0 /\ Complete => Named = {}
<1>1. RouteTypes /\ queue \in Seq(Named) /\ order \in Seq(Named) /\ IsInjective(order)
  BY DEF Inv, Lists
<1>2. queue = <<>> /\ ToSet(queue) = {}
  BY <1>1, EmptySeq, EmptyLists
<1>3. /\ IsFiniteSet(Named) /\ ToSet(order) \in SUBSET Named
      /\ IsFiniteSet(ToSet(order)) /\ Cardinality(ToSet(order)) = Len(order)
  BY <1>1, GraphIsFinite, ElementsAtPositions, LengthIsNumber
<1>4. Complete <=> ToSet(order) = Named
  BY <1>3, FS_Subset DEF Complete
<1>5. ASSUME ToSet(order) = Named
      PROVE  ~Cyclic(RouteBag)
  <2>1. ASSUME NEW S \in SUBSET Named, S # {}
        PROVE  ~Stuck(S)
    BY <1>5, <2>1 DEF Inv, NoneInACircle
  <2> QED
    BY <1>1, <2>1, StuckIsCyclic
<1>6. ASSUME ToSet(order) # Named
      PROVE  Cyclic(RouteBag)
  <2> DEFINE S == Named \ ToSet(order)
  <2>1. S \in SUBSET Named /\ S # {}
    BY <1>3, <1>6
  <2>2. ASSUME NEW n \in S
        PROVE  \E e \in Into(n) : Route(e).source \in S
    <3>1. indegree[n] # 0 /\ indegree[n] = Cardinality(Waiting(n))
      BY <1>2 DEF Inv, NoneForgotten, Counters
    <3>2. Waiting(n) # {}
      BY <3>1, FS_EmptySet
    <3>3. PICK e \in Into(n) : Route(e).source \notin ToSet(order)
      BY <3>2 DEF Waiting
    <3>4. Route(e).source \in Named
      BY <1>1, InstanceTypes DEF Into
    <3> QED
      BY <3>3, <3>4
  <2>3. Stuck(S)
    BY <2>2 DEF Stuck
  <2> HIDE DEF S
  <2> QED
    BY <1>1, <2>1, <2>3, StuckIsCyclic
<1>7. Len(order) = 0 /\ Complete => Named = {}
  BY <1>3, FS_EmptySet DEF Complete
<1> QED
  BY <1>4, <1>5, <1>6, <1>7

\* buildPlan returns what the abstraction of it in Project says, which is what the model
\* of the control engine builds on: the sort loses no unit, takes none twice, and finds
\* every circle.
THEOREM OutcomeAsSpecifiedHolds == Spec => []OutcomeAsSpecified
<1>1. Inv => OutcomeAsSpecified
  <2> SUFFICES ASSUME Inv
               PROVE  OutcomeAsSpecified
    OBVIOUS
  <2>1. RouteTypes /\ order \in Seq(Named) /\ IsInjective(order)
    BY DEF Inv, Lists
  <2>2. /\ Targets(RouteBag) = Named /\ Ids(UnitObjects) = unitIds
        /\ Ids(BuildPlan(UnitObjects, RouteBag)) = IF Cyclic(RouteBag) THEN {} ELSE unitIds \cap Named
        /\ PlanIsFatal(UnitObjects, RouteBag) <=> ~Cyclic(RouteBag) /\ ~(Named \subseteq unitIds)
    BY <2>1, SameProject DEF BuildPlan, Ids, UnitObjects, PlanIsFatal
  <2>3. CASE stage = "fatal"
    <3>1. Complete /\ ~(Named \subseteq unitIds) /\ Len(queue) = 0
      BY <2>3 DEF Inv, Result
    <3>2. ~Cyclic(RouteBag)
      BY <2>3, <3>1, CompleteUnlessCyclic
    <3> QED
      BY <2>2, <2>3, <3>1, <3>2 DEF OutcomeAsSpecified
  <2>4. CASE stage = "dummy"
    <3>1. nodes = <<>> /\ Len(queue) = 0 /\ (Len(order) = 0 \/ ~Complete)
      BY <2>4 DEF Inv, Result
    <3>2. Cyclic(RouteBag) \/ Named = {}
      BY <2>4, <3>1, CompleteUnlessCyclic
    <3>3. DOMAIN nodes = {}
      BY <3>1
    <3> QED
      BY <2>2, <2>4, <3>2, <3>3 DEF OutcomeAsSpecified
  <2>5. CASE stage = "built"
    <3>1. /\ Complete /\ Named \subseteq unitIds /\ Len(queue) = 0
          /\ nodes = [i \in 1..Len(order) |->
                        [target |-> order[i], deps |-> {e \in Instances : Route(e).target = order[i]}]]
      BY <2>5 DEF Inv, Result
    <3>2. ~Cyclic(RouteBag) /\ ToSet(order) = Named
      BY <2>5, <3>1, CompleteUnlessCyclic
    <3>3. DOMAIN nodes = 1..Len(order) /\ DOMAIN order = 1..Len(order)
          /\ \A i \in 1..Len(order) : nodes[i].target = order[i]
      BY <2>1, <3>1, ElementsAtPositions
    <3>4. {nodes[i].target : i \in DOMAIN nodes} = Named
      BY <3>2, <3>3 DEF ToSet
    <3>5. \A i, j \in DOMAIN nodes : nodes[i].target = nodes[j].target => i = j
      BY <2>1, <3>3 DEF IsInjective
    <3> QED
      BY <2>2, <2>5, <3>1, <3>2, <3>4, <3>5 DEF OutcomeAsSpecified
  <2> QED
    BY <2>3, <2>4, <2>5 DEF OutcomeAsSpecified
<1> QED
  BY <1>1, InvHolds, PTL
=============================================================================
