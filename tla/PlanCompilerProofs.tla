------------------------- MODULE PlanCompilerProofs -------------------------
(***************************************************************************)
(* What the plan compiler promises for every proposal, world, start and    *)
(* setting: no kept step is lost, producers come first, reordering never   *)
(* costs a move, and the plan can be walked through the state table.       *)
(***************************************************************************)
EXTENDS PlanCompiler, SelectingProofs

-----------------------------------------------------------------------------
(* The inductive invariant.                                                *)

(* Step j waits for step i, said without the CHOOSE of Producer.           *)
Awaits(j, i) ==
  /\ i # j
  /\ \E entity \in Step(j).referenced :
       /\ i \in Intenders(entity) /\ \A k \in Intenders(entity) : i <= k
       /\ ~EntityExists(entity)

(* Whoever is in a sequence comes behind all it waits for.                 *)
Behind(seq) ==
  \A p \in DOMAIN seq : \A i \in Prepared :
    Awaits(seq[p], i) => \E q \in 1 .. p - 1 : seq[q] = i

NoCircle ==
  ~\E loop \in SUBSET Prepared :
     loop # {} /\ \A j \in loop : \E i \in loop : Awaits(j, i)

Complete == Len(order) = Len(prepared) /\ ToSet(order) = Prepared

Ordered ==
  /\ phase \in {"filter", "reorder", "compiled"}
  /\ prepared \in Seq({prepared[i] : i \in Prepared})
  /\ order \in Seq(Prepared)
  /\ \A p, q \in DOMAIN order : order[p] = order[q] => p = q
  /\ phase = "filter" => order = <<>>
  /\ phase = "reorder" => lever.reorder /\ Behind(order)
  /\ phase = "compiled" => Complete
  /\ phase = "compiled" /\ lever.reorder /\ NoCircle => Behind(order)

-----------------------------------------------------------------------------
(* Facts about the operators.                                              *)

LEMMA SomeIndices ==
  ASSUME NEW n \in Nat
  PROVE  IsFiniteSet(1 .. n) /\ Cardinality(1 .. n) = n
<1>1. 1 \in Int /\ n \in Int
  OBVIOUS
<1>2. /\ IsFiniteSet(1 .. n)
      /\ Cardinality(1 .. n) = IF 1 > n THEN 0 ELSE n - 1 + 1
  BY <1>1, FS_Interval
<1> QED BY <1>2

LEMMA Indices ==
  ASSUME prepared \in Seq({prepared[i] : i \in Prepared})
  PROVE  /\ Len(prepared) \in Nat /\ Prepared = 1 .. Len(prepared)
         /\ IsFiniteSet(Prepared) /\ Cardinality(Prepared) = Len(prepared)
<1>1. Len(prepared) \in Nat /\ Prepared = 1 .. Len(prepared)
  BY DEF Prepared
<1> QED BY <1>1, SomeIndices

(* Every nonempty set of prepared steps has a first one.                   *)
LEMMA FirstOf ==
  ASSUME prepared \in Seq({prepared[i] : i \in Prepared}),
         NEW S \in SUBSET Prepared, NEW x \in S
  PROVE  \E m \in S : \A k \in S : m <= k
<1>1. /\ IsFiniteSet(Prepared) /\ Prepared \in SUBSET Nat
  BY Indices
<1>2. IsFiniteSet(S) /\ S \in SUBSET Nat
  BY <1>1, FS_Subset
<1> QED BY <1>2, LeastMember

LEMMA FirstProduces ==
  ASSUME prepared \in Seq({prepared[i] : i \in Prepared}), NEW entity,
         Intenders(entity) # {}
  PROVE  /\ Producer(entity) \in Intenders(entity)
         /\ \A k \in Intenders(entity) : Producer(entity) <= k
         /\ \A i \in Intenders(entity) :
              (\A k \in Intenders(entity) : i <= k) => i = Producer(entity)
<1>1. Intenders(entity) \in SUBSET Prepared
  BY DEF Intenders
<1>2. \E m \in Intenders(entity) : \A k \in Intenders(entity) : m <= k
  BY <1>1, FirstOf
<1>3. /\ Producer(entity) \in Intenders(entity)
      /\ \A k \in Intenders(entity) : Producer(entity) <= k
  BY <1>2 DEF Producer
<1>4. \A i \in Intenders(entity) : i \in Nat
  BY <1>1, Indices
<1>5. \A i, k \in Nat : i <= k /\ k <= i => i = k
  OBVIOUS
<1> QED BY <1>3, <1>4, <1>5

LEMMA Waiting ==
  ASSUME prepared \in Seq({prepared[i] : i \in Prepared}), NEW j, NEW i
  PROVE  WaitsFor(j, i) <=> Awaits(j, i)
<1>1. ASSUME WaitsFor(j, i) PROVE Awaits(j, i)
  <2>1. PICK entity \in Step(j).referenced :
          Intenders(entity) # {} /\ Producer(entity) = i /\ ~EntityExists(entity)
    BY <1>1 DEF WaitsFor
  <2>2. i \in Intenders(entity) /\ \A k \in Intenders(entity) : i <= k
    BY <2>1, FirstProduces
  <2> QED BY <1>1, <2>1, <2>2 DEF WaitsFor, Awaits
<1>2. ASSUME Awaits(j, i) PROVE WaitsFor(j, i)
  <2>1. PICK entity \in Step(j).referenced :
          /\ i \in Intenders(entity) /\ \A k \in Intenders(entity) : i <= k
          /\ ~EntityExists(entity)
    BY <1>2 DEF Awaits
  <2>2. Intenders(entity) # {} /\ Producer(entity) = i
    BY <2>1, FirstProduces
  <2> QED BY <1>2, <2>1, <2>2 DEF WaitsFor, Awaits
<1> QED BY <1>1, <1>2

(* Distinct members of 1..n are n in number exactly when they are all.     *)
LEMMA AllPlaced ==
  ASSUME NEW n \in Nat, NEW seq \in Seq(1 .. n),
         \A p, q \in DOMAIN seq : seq[p] = seq[q] => p = q
  PROVE  Len(seq) = n <=> ToSet(seq) = 1 .. n
<1> DEFINE m == Len(seq)
           T == ToSet(seq)
<1>1. m \in Nat /\ DOMAIN seq = 1 .. m /\ seq \in [1 .. m -> 1 .. n]
  OBVIOUS
<1>2. T \in SUBSET (1 .. n) /\ T = {seq[p] : p \in 1 .. m}
  BY <1>1 DEF ToSet
<1>3. seq \in Bijection(1 .. m, T)
  BY <1>1, <1>2 DEF Bijection, Injection, Surjection, IsInjective
<1> HIDE DEF m, T
<1>4. /\ IsFiniteSet(1 .. m) /\ Cardinality(1 .. m) = m
      /\ IsFiniteSet(1 .. n) /\ Cardinality(1 .. n) = n
  BY <1>1, SomeIndices
<1>5. ExistsBijection(1 .. m, T)
  BY <1>3 DEF ExistsBijection
<1>6. Cardinality(T) = m
  BY <1>4, <1>5, FS_Bijection
<1>7. Cardinality(1 .. n) = Cardinality(T) => T = 1 .. n
  BY <1>2, <1>4, FS_Subset
<1> QED BY <1>4, <1>6, <1>7 DEF m, T

-----------------------------------------------------------------------------
(* Filtering keeps nothing in order yet.                                   *)

LEMMA DropKeeps ==
  ASSUME Ordered, Drop
  PROVE  Ordered'
<1>1. /\ phase = "filter" /\ UNCHANGED <<prepared, phase, order>>
  BY DEF Drop
<1> QED BY <1>1 DEF Ordered, Prepared

LEMMA KeepKeeps ==
  ASSUME Ordered, Keep
  PROVE  Ordered'
<1> DEFINE kept == [step |-> next, state |-> PickState(proposal[next].tool, Cursor)]
<1>1. /\ phase = "filter" /\ UNCHANGED <<phase, order>>
      /\ prepared' = Append(prepared, kept)
  BY DEF Keep
<1> HIDE DEF kept
<1>2. order = <<>> /\ order' = <<>>
  BY <1>1 DEF Ordered
<1>3. prepared' \in Seq({prepared'[i] : i \in Prepared'})
  <2> DEFINE n == Len(prepared)
  <2>1. n \in Nat /\ DOMAIN prepared = 1 .. n
    BY Indices DEF Ordered, Prepared
  <2>2. prepared \in Seq({prepared[i] : i \in Prepared} \cup {kept})
    BY DEF Ordered, Prepared
  <2>3. prepared' \in Seq({prepared[i] : i \in Prepared} \cup {kept})
    BY <1>1, <2>2
  <2> QED BY <2>3 DEF Prepared
<1>4. order' \in Seq(Prepared') /\ DOMAIN order' = {}
  BY <1>2
<1> QED BY <1>1, <1>2, <1>3, <1>4 DEF Ordered

LEMMA EndFilterKeeps ==
  ASSUME Ordered, EndFilter
  PROVE  Ordered'
<1>1. /\ phase = "filter" /\ UNCHANGED <<args, prepared>> /\ order = <<>>
      /\ Prepared' = Prepared
  BY DEF EndFilter, Ordered, Prepared
<1>2. Len(prepared) \in Nat /\ Prepared = 1 .. Len(prepared)
  BY Indices DEF Ordered
<1>3. CASE lever.reorder /\ Len(prepared) > 1
  <2>1. phase' = "reorder" /\ order' = <<>> /\ lever'.reorder
    BY <1>1, <1>3 DEF EndFilter, args
  <2>2. DOMAIN order' = {} /\ order' \in Seq(Prepared)
    BY <2>1
  <2> QED BY <1>1, <2>1, <2>2 DEF Ordered, Behind
<1>4. CASE ~(lever.reorder /\ Len(prepared) > 1)
  <2>1. phase' = "compiled" /\ order' = [i \in Prepared |-> i]
    BY <1>4 DEF EndFilter
  <2>2. /\ order' \in Seq(Prepared) /\ DOMAIN order' = Prepared
        /\ \A p \in Prepared : order'[p] = p
        /\ Len(order') = Len(prepared)
    BY <1>2, <2>1
  <2>3. Complete'
    BY <1>1, <2>2 DEF Complete, ToSet
  <2>4. lever'.reorder => Behind(order)'
    <3> SUFFICES ASSUME lever'.reorder, NEW p \in Prepared, NEW i \in Prepared,
                        Awaits(order[p], i)'
                 PROVE  FALSE
      BY <1>1, <2>2 DEF Behind
    <3>1. i # p
      BY <2>2 DEF Awaits
    <3>2. Len(prepared) <= 1
      BY <1>1, <1>2, <1>4 DEF args
    <3> QED BY <1>2, <3>1, <3>2
  <2>5. prepared' \in Seq({prepared'[i] : i \in Prepared'})
    BY <1>1 DEF Ordered
  <2> QED BY <1>1, <2>1, <2>2, <2>3, <2>4, <2>5 DEF Ordered
<1> QED BY <1>3, <1>4


-----------------------------------------------------------------------------
(* Reordering.                                                             *)

(* Nothing a wait depends on changes once the steps are kept.              *)
LEMMA WaitsStand ==
  ASSUME UNCHANGED <<args, prepared>>
  PROVE  /\ Prepared' = Prepared /\ lever' = lever
         /\ \A j, i : Awaits(j, i)' <=> Awaits(j, i)
         /\ NoCircle' <=> NoCircle
<1>1. Prepared' = Prepared /\ lever' = lever /\ proposal' = proposal /\ world' = world
  BY DEF Prepared, args
<1>2. ASSUME NEW j, NEW i PROVE Awaits(j, i)' <=> Awaits(j, i)
  BY <1>1 DEF Awaits, Step, Intenders, EntityExists
<1>3. NoCircle' <=> NoCircle
  BY <1>1, <1>2 DEF NoCircle
<1> QED BY <1>1, <1>2, <1>3

LEMMA PickKeeps ==
  ASSUME Ordered, Pick
  PROVE  Ordered'
<1>1. /\ phase = "reorder" /\ phase' = "reorder" /\ UNCHANGED <<args, prepared>>
  BY DEF Pick
<1>2. PICK i \in Ready : order' = Append(order, i)
  BY DEF Pick
<1>3. /\ i \in Prepared /\ i \notin Placed
      /\ \A k \in Prepared : WaitsFor(i, k) => k \in Placed
  BY DEF Ready
<1>4. /\ prepared \in Seq({prepared[k] : k \in Prepared}) /\ order \in Seq(Prepared)
      /\ \A p, q \in DOMAIN order : order[p] = order[q] => p = q
      /\ lever.reorder /\ Behind(order)
  BY <1>1 DEF Ordered
<1>5. /\ Prepared' = Prepared /\ lever' = lever
      /\ \A j, k : Awaits(j, k)' <=> Awaits(j, k)
  BY <1>1, WaitsStand
<1> DEFINE n == Len(order)
<1>6. /\ n \in Nat /\ DOMAIN order = 1 .. n /\ DOMAIN order' = 1 .. n + 1
      /\ order' \in Seq(Prepared) /\ order'[n + 1] = i
      /\ \A p \in 1 .. n : order'[p] = order[p]
  BY <1>2, <1>3, <1>4
<1>7. \A p \in 1 .. n : order[p] # i
  BY <1>3, <1>6 DEF Placed, ToSet
<1>8. \A p, q \in DOMAIN order' : order'[p] = order'[q] => p = q
  BY <1>4, <1>6, <1>7
<1>9. Behind(order)'
  <2> SUFFICES ASSUME NEW p \in 1 .. n + 1, NEW k \in Prepared, Awaits(order'[p], k)
               PROVE  \E q \in 1 .. p - 1 : order'[q] = k
    BY <1>5, <1>6 DEF Behind
  <2>1. CASE p \in 1 .. n
    <3>1. PICK q \in 1 .. p - 1 : order[q] = k
      BY <1>4, <1>6, <2>1 DEF Behind
    <3> QED BY <1>6, <2>1, <3>1
  <2>2. CASE p = n + 1
    <3>1. WaitsFor(i, k)
      BY <1>4, <1>6, <2>2, Waiting
    <3>2. PICK q \in 1 .. n : order[q] = k
      BY <1>3, <1>6, <3>1 DEF Placed, ToSet
    <3> QED BY <1>6, <2>2, <3>2
  <2> QED BY <1>6, <2>1, <2>2
<1>10. prepared' \in Seq({prepared'[k] : k \in Prepared'})
  BY <1>1, <1>4, <1>5
<1> QED BY <1>1, <1>4, <1>5, <1>6, <1>8, <1>9, <1>10 DEF Ordered

(* Steps that never become ready wait for each other in a circle.          *)
LEMMA LeftInACircle ==
  ASSUME Ordered, Ready = {}, Len(order) # Len(prepared)
  PROVE  ~NoCircle
<1>1. /\ prepared \in Seq({prepared[k] : k \in Prepared}) /\ order \in Seq(Prepared)
      /\ \A p, q \in DOMAIN order : order[p] = order[q] => p = q
  BY DEF Ordered
<1>2. Len(prepared) \in Nat /\ Prepared = 1 .. Len(prepared)
  BY <1>1, Indices
<1> DEFINE loop == Prepared \ Placed
<1>3. Placed # Prepared
  BY <1>1, <1>2, AllPlaced DEF Placed
<1>4. loop \in SUBSET Prepared /\ loop # {}
  BY <1>1, <1>3 DEF Placed, ToSet
<1>5. ASSUME NEW j \in loop PROVE \E i \in loop : Awaits(j, i)
  BY <1>1, <1>5, Waiting DEF Ready
<1> QED BY <1>4, <1>5 DEF NoCircle

LEMMA EndReorderKeeps ==
  ASSUME Ordered, EndReorder
  PROVE  Ordered'
<1> DEFINE kept == [i \in Prepared |-> i]
<1>1. /\ phase = "reorder" /\ phase' = "compiled" /\ UNCHANGED <<args, prepared>>
      /\ Ready = {}
      /\ order' = IF Len(order) = Len(prepared) THEN order ELSE kept
  BY DEF EndReorder
<1>2. /\ prepared \in Seq({prepared[k] : k \in Prepared}) /\ order \in Seq(Prepared)
      /\ \A p, q \in DOMAIN order : order[p] = order[q] => p = q
      /\ lever.reorder /\ Behind(order)
  BY <1>1 DEF Ordered
<1>3. /\ Prepared' = Prepared /\ lever' = lever
      /\ \A j, k : Awaits(j, k)' <=> Awaits(j, k)
      /\ NoCircle' <=> NoCircle
  BY <1>1, WaitsStand
<1>4. Len(prepared) \in Nat /\ Prepared = 1 .. Len(prepared)
  BY <1>2, Indices
<1>5. prepared' \in Seq({prepared'[k] : k \in Prepared'})
  BY <1>1, <1>2, <1>3
<1>6. CASE Len(order) = Len(prepared)
  <2>1. order' = order
    BY <1>1, <1>6
  <2>2. ToSet(order) = Prepared
    BY <1>2, <1>4, <1>6, AllPlaced
  <2>3. Complete'
    BY <1>1, <1>3, <1>6, <2>1, <2>2 DEF Complete
  <2>4. Behind(order)'
    BY <1>2, <1>3, <2>1 DEF Behind
  <2> QED BY <1>1, <1>2, <1>3, <1>5, <2>1, <2>3, <2>4 DEF Ordered
<1>7. CASE Len(order) # Len(prepared)
  <2>1. order' = kept /\ ~NoCircle
    BY <1>1, <1>7, LeftInACircle
  <2>2. /\ order' \in Seq(Prepared) /\ DOMAIN order' = Prepared
        /\ \A p \in Prepared : order'[p] = p
        /\ Len(order') = Len(prepared)
    BY <1>4, <2>1
  <2>3. Complete'
    BY <1>1, <1>3, <2>2 DEF Complete, ToSet
  <2> QED BY <1>1, <1>3, <1>5, <2>1, <2>2, <2>3 DEF Ordered
<1> QED BY <1>6, <1>7

LEMMA OrderedInvariant == Spec => []Ordered
<1>1. Init => Ordered
  <2> SUFFICES ASSUME Init PROVE Ordered
    OBVIOUS
  <2>1. phase = "filter" /\ order = <<>> /\ prepared = <<>>
    BY DEF Init
  <2>2. order \in Seq(Prepared) /\ DOMAIN order = {}
    BY <2>1
  <2>3. prepared \in Seq({prepared[i] : i \in Prepared})
    BY <2>1
  <2> QED BY <2>1, <2>2, <2>3 DEF Ordered
<1>2. Ordered /\ [Next]_vars => Ordered'
  <2> SUFFICES ASSUME Ordered, [Next]_vars PROVE Ordered'
    OBVIOUS
  <2>1. CASE Drop
    BY <2>1, DropKeeps
  <2>2. CASE Keep
    BY <2>2, KeepKeeps
  <2>3. CASE EndFilter
    BY <2>3, EndFilterKeeps
  <2>4. CASE Pick
    BY <2>4, PickKeeps
  <2>5. CASE EndReorder
    BY <2>5, EndReorderKeeps
  <2>6. CASE UNCHANGED vars
    <3>1. UNCHANGED <<args, prepared, order, phase>>
      BY <2>6 DEF vars, args
    <3>2. /\ Prepared' = Prepared /\ lever' = lever
          /\ \A j, k : Awaits(j, k)' <=> Awaits(j, k)
          /\ NoCircle' <=> NoCircle
      BY <3>1, WaitsStand
    <3>3. Behind(order)' <=> Behind(order)
      BY <3>1, <3>2 DEF Behind
    <3> QED BY <3>1, <3>2, <3>3 DEF Ordered, Complete
  <2> QED BY <2>1, <2>2, <2>3, <2>4, <2>5, <2>6 DEF Next
<1> QED BY <1>1, <1>2, PTL DEF Spec

-----------------------------------------------------------------------------
(* Reordering loses and repeats none of the kept steps, a plan whose steps *)
(* wait for each other in a circle included (_topological_repair).         *)
THEOREM EveryKeptStepHolds == Spec => []EveryKeptStepCompiled
<1>1. Ordered => EveryKeptStepCompiled
  BY DEF Ordered, EveryKeptStepCompiled, Compiled, Complete
<1> QED BY <1>1, OrderedInvariant, PTL

(* A reordered plan whose waits form no circle puts the first step that    *)
(* makes an entity before every step that needs it                         *)
(* (_topological_repair's producer_of and its ready loop).                 *)
THEOREM ProducersFirstHold == Spec => []ProducersFirst
<1>1. ASSUME Ordered PROVE ProducersFirst
  <2>1. /\ prepared \in Seq({prepared[k] : k \in Prepared}) /\ order \in Seq(Prepared)
        /\ \A p, q \in DOMAIN order : order[p] = order[q] => p = q
    BY <1>1 DEF Ordered
  <2> SUFFICES ASSUME Compiled, lever.reorder, Acyclic,
                      NEW j \in Prepared, NEW entity \in Step(j).referenced,
                      ~EntityExists(entity), Intenders(entity) # {},
                      NEW i \in Intenders(entity),
                      \A k \in Intenders(entity) : i <= k, i # j
               PROVE  Place(i) < Place(j)
    BY DEF ProducersFirst
  <2>2. NoCircle
    <3>1. \A x, y : WaitsFor(x, y) <=> Awaits(x, y)
      BY <2>1, Waiting
    <3> QED BY <3>1 DEF Acyclic, NoCircle
  <2>3. Behind(order) /\ Complete
    BY <1>1, <2>2 DEF Ordered, Compiled
  <2>4. i \in Prepared /\ Awaits(j, i)
    BY DEF Awaits, Intenders
  <2>5. /\ Place(i) \in DOMAIN order /\ order[Place(i)] = i
        /\ Place(j) \in DOMAIN order /\ order[Place(j)] = j
    <3>1. (\E p \in DOMAIN order : order[p] = i) /\ \E p \in DOMAIN order : order[p] = j
      BY <2>3, <2>4 DEF Complete, ToSet
    <3> QED BY <3>1 DEF Place
  <2>6. PICK q \in 1 .. Place(j) - 1 : order[q] = i
    BY <2>3, <2>4, <2>5 DEF Behind
  <2>7. DOMAIN order = 1 .. Len(order) /\ Len(order) \in Nat
    BY <2>1
  <2>8. q \in DOMAIN order /\ q < Place(j)
    BY <2>5, <2>7
  <2>9. q = Place(i)
    BY <2>1, <2>5, <2>6, <2>8
  <2> QED BY <2>8, <2>9
<1> QED BY <1>1, OrderedInvariant, PTL


-----------------------------------------------------------------------------
(* What reordering saves.                                                  *)

(* The states along the proposed order.                                    *)
Along == [i \in Prepared |-> prepared[i].state]
Proposed == [i \in Prepared |-> i]
Workable == \A i, j \in Prepared : Awaits(j, i) => i < j

(* The moves still to make when R is done in the proposed order: a step    *)
(* whose predecessor in R is in another state, and the first step of R if  *)
(* it is away from where the plan stands.                                  *)
Turns(st, R, away) ==
  {j \in R : \/ \E k \in R : /\ k < j /\ st[k] # st[j]
                             /\ \A l \in R : l < j => l <= k
             \/ j \in away /\ \A k \in R : j <= k}

Away == {j \in Prepared : order # <<>> /\ ~Stays(j)}
Left == Prepared \ Placed

Saving ==
  /\ phase = "reorder" /\ Workable =>
       Moves(order) + Cardinality(Turns(Along, Left, Away)) <= Moves(Proposed)
  /\ phase = "compiled" /\ Workable => Moves(order) <= Moves(Proposed)

LEMMA TurnsFinite ==
  ASSUME NEW n \in Nat, NEW st, NEW R \in SUBSET (1 .. n), NEW away
  PROVE  /\ Turns(st, R, away) \in SUBSET R
         /\ IsFiniteSet(Turns(st, R, away)) /\ Cardinality(Turns(st, R, away)) \in Nat
<1>1. Turns(st, R, away) \in SUBSET R
  BY DEF Turns
<1>2. IsFiniteSet(1 .. n)
  BY SomeIndices
<1>3. IsFiniteSet(Turns(st, R, away))
  BY <1>1, <1>2, FS_Subset
<1> QED BY <1>1, <1>3, FS_CardinalityType

(* Doing the first remaining step next costs the move that was counted.    *)
LEMMA FirstGoes ==
  ASSUME NEW n \in Nat, NEW st, NEW R \in SUBSET (1 .. n), NEW away, NEW after,
         NEW x \in R, \A k \in R : x <= k,
         \A j \in R : j \in after <=> st[j] # st[x]
  PROVE  Cardinality(Turns(st, R \ {x}, after)) + (IF x \in away THEN 1 ELSE 0)
           <= Cardinality(Turns(st, R, away))
<1> DEFINE rest == R \ {x}
           old == Turns(st, R, away)
           new == Turns(st, rest, after)
<1>1. \A j \in R : j \in Nat
  OBVIOUS
<1>2. ASSUME NEW j \in new PROVE j \in old \ {x}
  <2>1. j \in rest /\ x < j
    BY <1>1 DEF Turns
  <2>2. CASE \E k \in rest : /\ k < j /\ st[k] # st[j]
                             /\ \A l \in rest : l < j => l <= k
    <3>1. PICK k \in rest : k < j /\ st[k] # st[j] /\ \A l \in rest : l < j => l <= k
      BY <2>2
    <3>2. \A l \in R : l < j => l <= k
      BY <3>1
    <3> QED BY <2>1, <3>1, <3>2 DEF Turns
  <2>3. CASE j \in after /\ \A k \in rest : j <= k
    <3>1. st[x] # st[j] /\ \A l \in R : l < j => l <= x
      BY <1>1, <2>1, <2>3
    <3> QED BY <2>1, <3>1 DEF Turns
  <2> QED BY <2>2, <2>3 DEF Turns
<1>3. x \in away => x \in old
  BY DEF Turns
<1>4. /\ IsFiniteSet(old) /\ Cardinality(old) \in Nat
      /\ IsFiniteSet(new) /\ Cardinality(new) \in Nat
  <2>1. rest \in SUBSET (1 .. n)
    OBVIOUS
  <2> HIDE DEF rest
  <2> QED BY <2>1, TurnsFinite
<1> HIDE DEF old, new
<1>5. new \in SUBSET (old \ {x}) /\ IsFiniteSet(old \ {x})
  BY <1>2, <1>4, FS_RemoveElement
<1>6. Cardinality(new) <= Cardinality(old \ {x})
  BY <1>5, FS_Subset
<1>7. Cardinality(old \ {x}) = IF x \in old THEN Cardinality(old) - 1 ELSE Cardinality(old)
  BY <1>4, FS_RemoveElement
<1>8. Cardinality(new) + (IF x \in away THEN 1 ELSE 0) <= Cardinality(old)
  BY <1>3, <1>4, <1>6, <1>7
<1> QED BY <1>8 DEF old, new

(* A remaining step of the state the plan stands in costs nothing, and     *)
(* taking it out of the rest adds no move.                                 *)
LEMMA NeighbourGoes ==
  ASSUME NEW n \in Nat, NEW st, NEW R \in SUBSET (1 .. n), NEW away,
         NEW x \in R, \A j \in R : j \in away <=> st[j] # st[x]
  PROVE  Cardinality(Turns(st, R \ {x}, away)) <= Cardinality(Turns(st, R, away))
<1> DEFINE rest == R \ {x}
           old == Turns(st, R, away)
           new == Turns(st, rest, away)
           Follows(j) == x < j /\ \A l \in R : l < j => l <= x
<1>1. \A j \in R : j \in Nat
  OBVIOUS
(* Only the step after x can be a new move, and then x was one.            *)
<1>2. ASSUME NEW j \in new, j \notin old PROVE x \in old /\ Follows(j) /\ j \in R
  <2>1. j \in rest /\ j \in R /\ j # x
    BY DEF Turns
  <2>2. CASE \E k \in rest : /\ k < j /\ st[k] # st[j]
                             /\ \A l \in rest : l < j => l <= k
    <3>1. PICK k \in rest : k < j /\ st[k] # st[j] /\ \A l \in rest : l < j => l <= k
      BY <2>2
    <3>2. ~(\A l \in R : l < j => l <= k)
      BY <1>2, <2>1, <3>1 DEF Turns
    <3>3. k < x /\ x < j
      BY <1>1, <2>1, <3>1, <3>2
    <3>4. \A l \in R : (l < j => l <= x) /\ (l < x => l <= k)
      BY <1>1, <2>1, <3>1, <3>3
    <3>5. st[x] = st[j]
      BY <1>2, <2>1, <3>3, <3>4 DEF Turns
    <3> QED BY <2>1, <3>1, <3>3, <3>4, <3>5 DEF Turns
  <2>3. CASE j \in away /\ \A k \in rest : j <= k
    <3>1. ~(\A k \in R : j <= k)
      BY <1>2, <2>1, <2>3 DEF Turns
    <3>2. x < j /\ \A l \in R : l < j => l <= x
      BY <1>1, <2>1, <2>3, <3>1
    <3>3. st[x] # st[j]
      BY <2>1, <2>3
    <3> QED BY <1>2, <2>1, <3>2, <3>3 DEF Turns
  <2> QED BY <2>2, <2>3 DEF Turns
<1>3. x \notin new
  BY DEF Turns
<1>4. /\ IsFiniteSet(old) /\ Cardinality(old) \in Nat
      /\ IsFiniteSet(new) /\ Cardinality(new) \in Nat
  <2>1. rest \in SUBSET (1 .. n)
    OBVIOUS
  <2> HIDE DEF rest
  <2> QED BY <2>1, TurnsFinite
<1> HIDE DEF old, new
<1>5. ASSUME new \in SUBSET old PROVE Cardinality(new) <= Cardinality(old)
  BY <1>4, <1>5, FS_Subset
<1>6. ASSUME ~(new \in SUBSET old) PROVE Cardinality(new) <= Cardinality(old)
  <2>1. PICK j \in new : j \notin old
    BY <1>6
  <2>2. x \in old /\ Follows(j) /\ j \in R
    BY <1>2, <2>1
  <2>3. ASSUME NEW i \in new, i \notin old PROVE i = j
    <3>1. Follows(i) /\ i \in R
      BY <1>2, <2>3
    <3>2. i \in Nat /\ j \in Nat /\ x \in Nat
      BY <1>1, <2>2, <3>1
    <3> QED BY <2>2, <3>1, <3>2
  <2> DEFINE kept == old \ {x}
  <2>4. IsFiniteSet(kept) /\ Cardinality(kept) = Cardinality(old) - 1
    BY <1>4, <2>2, FS_RemoveElement
  <2>5. j \notin kept /\ new \in SUBSET (kept \cup {j})
    BY <1>3, <2>1, <2>3
  <2> HIDE DEF kept
  <2>6. IsFiniteSet(kept \cup {j}) /\ Cardinality(kept \cup {j}) = Cardinality(kept) + 1
    BY <2>4, <2>5, FS_AddElement
  <2>7. Cardinality(new) <= Cardinality(kept \cup {j})
    BY <2>5, <2>6, FS_Subset
  <2> QED BY <1>4, <2>4, <2>6, <2>7
<1>7. Cardinality(new) <= Cardinality(old)
  BY <1>5, <1>6
<1> QED BY <1>7 DEF old, new

(* One more step is one more move if it is in another state than the last. *)
LEMMA MovesAppend ==
  ASSUME NEW S, NEW seq \in Seq(S), NEW x \in S
  PROVE  /\ Moves(seq) \in Nat
         /\ Moves(Append(seq, x)) =
              Moves(seq) + IF seq # <<>> /\ prepared[x].state # prepared[seq[Len(seq)]].state
                             THEN 1 ELSE 0
<1> DEFINE n == Len(seq)
           more == Append(seq, x)
           M == {p \in 2 .. n : prepared[seq[p]].state # prepared[seq[p - 1]].state}
           M2 == {p \in 2 .. n + 1 : prepared[more[p]].state # prepared[more[p - 1]].state}
           turn == seq # <<>> /\ prepared[x].state # prepared[seq[n]].state
<1>1. /\ n \in Nat /\ Len(more) = n + 1 /\ more[n + 1] = x
      /\ \A p \in 1 .. n : more[p] = seq[p]
      /\ seq # <<>> <=> n >= 1
  OBVIOUS
<1>2. M \in SUBSET (1 .. n) /\ IsFiniteSet(1 .. n)
  BY <1>1, SomeIndices
<1>3. IsFiniteSet(M) /\ Cardinality(M) \in Nat /\ n + 1 \notin M
  BY <1>1, <1>2, FS_Subset, FS_CardinalityType
<1>4. M2 = IF turn THEN M \cup {n + 1} ELSE M
  <2>1. \A p \in 2 .. n : more[p] = seq[p] /\ more[p - 1] = seq[p - 1]
    BY <1>1
  <2>2. \A p \in 2 .. n + 1 : p \in 2 .. n \/ p = n + 1
    BY <1>1
  <2>3. n + 1 \in 2 .. n + 1 <=> n >= 1
    BY <1>1
  <2>4. n >= 1 => more[n + 1 - 1] = seq[n]
    BY <1>1
  <2>5. 2 .. n \subseteq 2 .. n + 1
    BY <1>1
  <2>6. \A p \in 2 .. n : p \in M2 <=> p \in M
    BY <2>1, <2>5
  <2>7. n + 1 \in M2 <=> turn
    BY <1>1, <2>3, <2>4
  <2>8. M2 \subseteq 2 .. n + 1 /\ M \subseteq 2 .. n
    OBVIOUS
  <2>9. \A p \in M2 : p \in M \/ (p = n + 1 /\ turn)
    BY <2>2, <2>6, <2>7, <2>8
  <2>10. \A p \in M : p \in M2
    BY <2>6, <2>8
  <2> HIDE DEF more, n, M, M2
  <2>11. turn => M2 = M \cup {n + 1}
    BY <2>7, <2>9, <2>10
  <2>12. ~turn => M2 = M
    BY <2>9, <2>10
  <2> QED BY <2>11, <2>12
<1>5. Moves(seq) = Cardinality(M) /\ Moves(more) = Cardinality(M2)
  BY <1>1 DEF Moves
<1> HIDE DEF M, M2, n
<1>6. Cardinality(M \cup {n + 1}) = Cardinality(M) + 1
  BY <1>3, FS_AddElement
<1> QED BY <1>3, <1>4, <1>5, <1>6 DEF n


-----------------------------------------------------------------------------
(* The savings stand.                                                      *)

(* Every move of the proposed order is a move counted when all is left.    *)
LEMMA AllLeft ==
  ASSUME prepared \in Seq({prepared[i] : i \in Prepared})
  PROVE  Turns(Along, Prepared, {}) =
           {p \in 2 .. Len(Proposed) : prepared[Proposed[p]].state
                                         # prepared[Proposed[p - 1]].state}
<1> DEFINE n == Len(prepared)
           M == {p \in 2 .. n : prepared[p].state # prepared[p - 1].state}
<1>1. n \in Nat /\ Prepared = 1 .. n
  BY Indices
<1>2. Proposed \in Seq(Nat) /\ Len(Proposed) = n /\ \A p \in 1 .. n : Proposed[p] = p
  BY <1>1 DEF Proposed
<1>3. \A p \in 2 .. n : p \in 1 .. n /\ p - 1 \in 1 .. n
  BY <1>1
<1>4. M = {p \in 2 .. Len(Proposed) : prepared[Proposed[p]].state
                                        # prepared[Proposed[p - 1]].state}
  BY <1>2, <1>3
<1>5. \A p \in 1 .. n : Along[p] = prepared[p].state
  BY <1>1 DEF Along
<1>6. ASSUME NEW j \in Turns(Along, Prepared, {}) PROVE j \in M
  <2>1. j \in 1 .. n
    BY <1>1 DEF Turns
  <2>2. PICK k \in 1 .. n : /\ k < j /\ Along[k] # Along[j]
                            /\ \A l \in 1 .. n : l < j => l <= k
    BY <1>1 DEF Turns
  <2>3. j - 1 \in 1 .. n /\ j - 1 < j /\ j \in 2 .. n
    BY <1>1, <2>1, <2>2
  <2>4. k = j - 1
    BY <2>1, <2>2, <2>3
  <2> QED BY <1>5, <2>1, <2>2, <2>3, <2>4
<1>7. ASSUME NEW j \in M PROVE j \in Turns(Along, Prepared, {})
  <2>1. /\ j \in 1 .. n /\ j - 1 \in 1 .. n /\ j - 1 < j
        /\ \A l \in 1 .. n : l < j => l <= j - 1
    BY <1>1
  <2>2. Along[j - 1] # Along[j]
    BY <1>5, <2>1
  <2> QED BY <1>1, <2>1, <2>2 DEF Turns
<1> QED BY <1>4, <1>6, <1>7

(* The waits, the states and the moves of a plan stand with its steps.     *)
LEMMA MovesStand ==
  ASSUME UNCHANGED <<args, prepared>>
  PROVE  /\ Prepared' = Prepared /\ Along' = Along /\ Proposed' = Proposed
         /\ Workable' <=> Workable
         /\ Moves(order)' = Moves(order') /\ Moves(Proposed)' = Moves(Proposed)
<1>1. Prepared' = Prepared /\ prepared' = prepared /\ \A j, i : Awaits(j, i)' <=> Awaits(j, i)
  BY WaitsStand
<1>2. Along' = Along /\ Proposed' = Proposed /\ (Workable' <=> Workable)
  BY <1>1 DEF Along, Proposed, Workable
<1>3. Moves(order)' = Moves(order') /\ Moves(Proposed)' = Moves(Proposed)
  BY <1>1, <1>2 DEF Moves
<1> QED BY <1>1, <1>2, <1>3

LEMMA EndFilterSaves ==
  ASSUME Ordered, EndFilter
  PROVE  Saving'
<1>1. UNCHANGED <<args, prepared>> /\ phase' \in {"reorder", "compiled"}
  BY DEF EndFilter
<1>2. /\ Prepared' = Prepared /\ Along' = Along /\ Proposed' = Proposed
      /\ Moves(order)' = Moves(order') /\ Moves(Proposed)' = Moves(Proposed)
  BY <1>1, MovesStand
<1>3. prepared \in Seq({prepared[i] : i \in Prepared})
  BY DEF Ordered
<1>4. Len(prepared) \in Nat /\ Prepared = 1 .. Len(prepared)
  BY <1>3, Indices
<1>5. ASSUME phase' = "compiled" PROVE Moves(order)' <= Moves(Proposed)'
  <2>1. order' = Proposed
    BY <1>5 DEF EndFilter, Proposed
  <2>2. Proposed \in Seq(Prepared)
    BY <1>4 DEF Proposed
  <2>3. Moves(Proposed) \in Nat
    <3>1. CASE Prepared = {}
      <4>1. Len(Proposed) = 0
        BY <2>2, <3>1
      <4>2. Moves(Proposed) = Cardinality({})
        BY <4>1 DEF Moves
      <4> QED BY <4>2, FS_EmptySet
    <3>2. CASE Prepared # {}
      BY <2>2, <3>2, MovesAppend
    <3> QED BY <3>1, <3>2
  <2> QED BY <1>2, <2>1, <2>3
<1>6. ASSUME phase' = "reorder"
      PROVE  (Moves(order) + Cardinality(Turns(Along, Left, Away)) <= Moves(Proposed))'
  <2>1. order' = <<>>
    BY <1>6 DEF EndFilter
  <2>2. Left' = Prepared /\ Away' = {}
    BY <1>2, <2>1 DEF Left, Placed, ToSet, Away
  <2>3. Turns(Along, Left, Away)' = Turns(Along, Prepared, {})
    BY <1>2, <2>2 DEF Turns
  <2>4. Moves(Proposed) = Cardinality(Turns(Along, Prepared, {}))
    BY <1>3, AllLeft DEF Moves
  <2>5. Moves(order)' = 0
    <3>1. Moves(<<>>) = Cardinality({})
      BY DEF Moves
    <3> QED BY <1>2, <2>1, <3>1, FS_EmptySet
  <2>6. Cardinality(Turns(Along, Prepared, {})) \in Nat
    BY <1>4, TurnsFinite
  <2> QED BY <1>2, <2>3, <2>4, <2>5, <2>6
<1> QED BY <1>1, <1>5, <1>6 DEF Saving

LEMMA PickSaves ==
  ASSUME Ordered, Saving, Pick
  PROVE  Saving'
<1> DEFINE n == Len(prepared)
           st == Along
           R == Left
           away == Away
<1>1. /\ phase = "reorder" /\ phase' = "reorder" /\ UNCHANGED <<args, prepared>>
  BY DEF Pick
<1>2. PICK x \in Ready : (\A j \in Ready : Goes(x, j)) /\ order' = Append(order, x)
  BY DEF Pick
<1>3. /\ prepared \in Seq({prepared[k] : k \in Prepared}) /\ order \in Seq(Prepared)
  BY <1>1 DEF Ordered
<1>4. /\ Prepared' = Prepared /\ Along' = Along /\ Proposed' = Proposed
      /\ Workable' <=> Workable
      /\ Moves(order)' = Moves(order') /\ Moves(Proposed)' = Moves(Proposed)
  BY <1>1, MovesStand
<1>5. n \in Nat /\ Prepared = 1 .. n /\ IsFiniteSet(Prepared)
  BY <1>3, Indices
<1> SUFFICES ASSUME Workable
             PROVE  (Moves(order) + Cardinality(Turns(Along, Left, Away))
                       <= Moves(Proposed))'
  BY <1>1, <1>4 DEF Saving
<1>6. x \in R /\ R \in SUBSET (1 .. n) /\ x \in Prepared
  BY <1>5 DEF Ready, Left
<1>7. Left' = R \ {x}
  <2>1. ToSet(order') = ToSet(order) \cup {x}
    <3>1. /\ DOMAIN order' = DOMAIN order \cup {Len(order) + 1}
          /\ order'[Len(order) + 1] = x
          /\ \A p \in DOMAIN order : order'[p] = order[p]
      BY <1>2, <1>3, <1>6
    <3> QED BY <3>1 DEF ToSet
  <2> QED BY <1>4, <2>1 DEF Left, Placed
<1>8. \A j \in R : j \in Away' <=> st[j] # st[x]
  <2>1. order' # <<>> /\ order'[Len(order')] = x
    BY <1>2, <1>3, <1>6
  <2> QED BY <1>1, <1>4, <1>6, <2>1 DEF Away, Stays, Along, Left
<1>9. Moves(order) \in Nat /\ Moves(order)' = Moves(order) + IF x \in away THEN 1 ELSE 0
  <2>1. x \in away <=> order # <<>> /\ prepared[x].state # prepared[order[Len(order)]].state
    BY <1>6 DEF Away, Stays
  <2> QED BY <1>2, <1>3, <1>4, <1>6, <2>1, MovesAppend
<1>10. Moves(order) + Cardinality(Turns(st, R, away)) <= Moves(Proposed)
  BY <1>1 DEF Saving
<1>11. Turns(Along, Left, Away)' = Turns(st, R \ {x}, Away')
  BY <1>4, <1>7 DEF Turns
<1>12. Cardinality(Turns(st, R \ {x}, Away')) + (IF x \in away THEN 1 ELSE 0)
         <= Cardinality(Turns(st, R, away))
  <2>1. PICK m \in R : \A k \in R : m <= k
    BY <1>3, <1>6, FirstOf DEF Left
  <2>2. m \in Ready
    <3>1. \A i \in Prepared : WaitsFor(m, i) => i \in Placed
      <4> SUFFICES ASSUME NEW i \in Prepared, WaitsFor(m, i), i \in R PROVE FALSE
        BY DEF Left
      <4>1. Awaits(m, i) /\ m \in Prepared
        BY <1>3, <1>5, <1>6, <2>1, Waiting
      <4>3. i < m
        BY <4>1 DEF Workable
      <4>2. m <= i /\ m \in Nat /\ i \in Nat
        BY <1>6, <2>1
      <4> QED BY <4>2, <4>3
    <3> QED BY <3>1 DEF Ready, Left
  <2>3. Goes(x, m)
    BY <1>2, <2>2
  <2> DEFINE after == Away'
  <2>4. \A j \in R : j \in after <=> st[j] # st[x]
    BY <1>8
  <2>5. ASSUME Stays(x) PROVE x \notin away /\ \A j \in R : j \in away <=> st[j] # st[x]
    <3>1. order # <<>> /\ prepared[x].state = prepared[order[Len(order)]].state
      BY <2>5 DEF Stays
    <3> QED BY <1>6, <3>1 DEF Away, Stays, Along, Left
  <2>6. ASSUME ~Stays(x) PROVE \A k \in R : x <= k
    <3>1. x <= m
      BY <2>3, <2>6 DEF Goes
    <3>2. m = x
      BY <1>6, <2>1, <3>1
    <3> QED BY <2>1, <3>2
  <2> HIDE DEF st, R, away, after, n
  <2>7. CASE ~Stays(x)
    BY <1>5, <1>6, <2>4, <2>6, <2>7, FirstGoes DEF after
  <2>8. CASE Stays(x)
    <3>1. \A j \in R : j \in after <=> j \in away
      BY <2>4, <2>5, <2>8
    <3>2. Turns(st, R \ {x}, after) = Turns(st, R \ {x}, away)
      BY <3>1 DEF Turns
    <3>3. Cardinality(Turns(st, R \ {x}, away)) <= Cardinality(Turns(st, R, away))
      BY <1>5, <1>6, <2>5, <2>8, NeighbourGoes
    <3>4. Cardinality(Turns(st, R \ {x}, away)) \in Nat
      <4> DEFINE rest == R \ {x}
      <4>1. rest \in SUBSET (1 .. n)
        BY <1>6
      <4> HIDE DEF rest
      <4>2. Cardinality(Turns(st, rest, away)) \in Nat
        BY <1>5, <4>1, TurnsFinite
      <4> QED BY <4>2 DEF rest
    <3> QED BY <2>5, <2>8, <3>2, <3>3, <3>4 DEF after
  <2> QED BY <2>7, <2>8
<1>13. /\ Cardinality(Turns(st, R, away)) \in Nat
       /\ Cardinality(Turns(st, R \ {x}, Away')) \in Nat
  <2> DEFINE rest == R \ {x}
  <2>1. rest \in SUBSET (1 .. n)
    BY <1>6
  <2> HIDE DEF rest, st, R, away, n
  <2>2. /\ Cardinality(Turns(st, R, away)) \in Nat
        /\ Cardinality(Turns(st, rest, Away')) \in Nat
    BY <1>5, <1>6, <2>1, TurnsFinite
  <2> QED BY <2>2 DEF rest
<1>14. Moves(Proposed) \in Nat
  <2>1. Proposed \in Seq(Prepared)
    BY <1>5 DEF Proposed
  <2> QED BY <1>6, <2>1, MovesAppend
<1> HIDE DEF st, R, away, n
<1>15. Moves(order)' + Cardinality(Turns(st, R \ {x}, Away')) <= Moves(Proposed)
  BY <1>9, <1>10, <1>12, <1>13, <1>14
<1> QED BY <1>4, <1>11, <1>15


(* Either the loop's order stands, with the moves that were counted, or    *)
(* the proposed order does.                                                *)
LEMMA EndReorderSaves ==
  ASSUME Ordered, Saving, EndReorder
  PROVE  Saving'
<1>1. /\ phase = "reorder" /\ phase' = "compiled" /\ UNCHANGED <<args, prepared>>
      /\ Ready = {}
      /\ order' = IF Len(order) = Len(prepared) THEN order ELSE Proposed
  BY DEF EndReorder, Proposed
<1>2. /\ prepared \in Seq({prepared[k] : k \in Prepared}) /\ order \in Seq(Prepared)
  BY <1>1 DEF Ordered
<1>3. /\ Prepared' = Prepared /\ Proposed' = Proposed
      /\ Workable' <=> Workable
      /\ Moves(order)' = Moves(order') /\ Moves(Proposed)' = Moves(Proposed)
  BY <1>1, MovesStand
<1>4. Len(prepared) \in Nat /\ Prepared = 1 .. Len(prepared)
  BY <1>2, Indices
<1> SUFFICES ASSUME Workable PROVE Moves(order') <= Moves(Proposed)
  BY <1>1, <1>3 DEF Saving
<1>5. CASE Prepared = {}
  <2>1. Proposed = <<>> /\ order = <<>>
    BY <1>2, <1>5 DEF Proposed
  <2>2. order' = <<>> /\ Moves(Proposed) = Cardinality({})
    BY <1>1, <2>1 DEF Moves
  <2>3. Moves(order') = Moves(Proposed) /\ Moves(Proposed) \in Nat
    BY <2>1, <2>2, FS_EmptySet
  <2> QED BY <2>3
<1>6. CASE Prepared # {}
  <2>1. Moves(Proposed) \in Nat
    <3>1. Proposed \in Seq(Prepared)
      BY <1>4 DEF Proposed
    <3> QED BY <1>6, <3>1, MovesAppend
  <2>2. Moves(order) \in Nat
    BY <1>2, <1>6, MovesAppend
  <2>3. Cardinality(Turns(Along, Left, Away)) \in Nat
    <3>1. Left \in SUBSET (1 .. Len(prepared))
      BY <1>4 DEF Left
    <3> QED BY <1>4, <3>1, TurnsFinite
  <2>4. Moves(order) <= Moves(Proposed)
    <3>1. Moves(order) + Cardinality(Turns(Along, Left, Away)) <= Moves(Proposed)
      BY <1>1 DEF Saving
    <3> QED BY <2>1, <2>2, <2>3, <3>1
  <2> QED BY <1>1, <2>1, <2>4
<1> QED BY <1>5, <1>6

(* Reordering a plan that was in a workable order never makes it walk      *)
(* through more states than the order that was proposed (the preference    *)
(* for the current state in _topological_repair).                          *)
THEOREM ReorderSavesHold == Spec => []ReorderSavesMoves
<1>1. Init => Saving
  BY DEF Init, Saving
<1>2. Ordered /\ Saving /\ [Next]_vars => Saving'
  <2> SUFFICES ASSUME Ordered, Saving, [Next]_vars PROVE Saving'
    OBVIOUS
  <2>1. CASE Drop
    BY <2>1 DEF Drop, Saving
  <2>2. CASE Keep
    BY <2>2 DEF Keep, Saving
  <2>3. CASE EndFilter
    BY <2>3, EndFilterSaves
  <2>4. CASE Pick
    BY <2>4, PickSaves
  <2>5. CASE EndReorder
    BY <2>5, EndReorderSaves
  <2>6. CASE UNCHANGED vars
    <3>1. UNCHANGED <<args, prepared, order, phase>>
      BY <2>6 DEF vars, args
    <3>2. /\ Prepared' = Prepared /\ Along' = Along
          /\ Workable' <=> Workable
          /\ Moves(order)' = Moves(order) /\ Moves(Proposed)' = Moves(Proposed)
      BY <3>1, MovesStand
    <3>3. Left' = Left /\ Away' = Away
      BY <3>1, <3>2 DEF Left, Placed, Away, Stays
    <3>4. Turns(Along, Left, Away)' = Turns(Along, Left, Away)
      BY <3>2, <3>3 DEF Turns
    <3> QED BY <3>1, <3>2, <3>4 DEF Saving
  <2> QED BY <2>1, <2>2, <2>3, <2>4, <2>5, <2>6 DEF Next
<1>3. Ordered /\ Saving => ReorderSavesMoves
  <2> SUFFICES ASSUME Ordered, Saving PROVE ReorderSavesMoves
    OBVIOUS
  <2>1. prepared \in Seq({prepared[k] : k \in Prepared})
    BY DEF Ordered
  <2>2. (\A i, j \in Prepared : WaitsFor(j, i) => i < j) => Workable
    BY <2>1, Waiting DEF Workable
  <2> QED BY <2>2 DEF Saving, ReorderSavesMoves, Compiled, Proposed
<1> QED BY <1>1, <1>2, <1>3, OrderedInvariant, PTL DEF Spec

-----------------------------------------------------------------------------
(* Routes.                                                                 *)

LEMMA LeastUpTo ==
  ASSUME NEW n \in Nat, NEW S \in SUBSET (0 .. n), NEW x \in S
  PROVE  \E m \in S : \A k \in S : m <= k
<1>1. 0 \in Int /\ n \in Int
  OBVIOUS
<1>2. IsFiniteSet(0 .. n)
  BY <1>1, FS_Interval
<1>3. IsFiniteSet(S)
  BY <1>2, FS_Subset
<1>4. S \in SUBSET Nat
  OBVIOUS
<1> QED BY <1>3, <1>4, LeastMember

LEMMA StatesFinite == Cardinality(STATES) \in Nat /\ 3 <= Cardinality(STATES)
<1> DEFINE some == {"DEPLOY", "DONE", "VALIDATE"}
           f == [k \in 1 .. 22 |-> StateOrder[k]]
<1>1. f \in Surjection(1 .. 22, STATES)
  <2>1. \A k \in 1 .. 22 : StateOrder[k] \in STATES
    BY DEF STATES, CoreStates, ExtraStates, StateOrder
  <2>2. \A s \in STATES : \E k \in 1 .. 22 : StateOrder[k] = s
    BY DEF STATES, CoreStates, ExtraStates, StateOrder
  <2> QED BY <2>1, <2>2 DEF Surjection
<1>2. IsFiniteSet(1 .. 22)
  BY SomeIndices
<1> HIDE DEF f
<1>3. IsFiniteSet(STATES)
  BY <1>1, <1>2, FS_Surjection
<1>4. IsFiniteSet({"DEPLOY"}) /\ Cardinality({"DEPLOY"}) = 1
  BY FS_Singleton
<1>5. /\ IsFiniteSet({"DEPLOY"} \cup {"DONE"})
      /\ Cardinality({"DEPLOY"} \cup {"DONE"}) = 2
  BY <1>4, FS_AddElement
<1>6. Cardinality({"DEPLOY"} \cup {"DONE"} \cup {"VALIDATE"}) = 3
  BY <1>5, FS_AddElement
<1>7. some = {"DEPLOY"} \cup {"DONE"} \cup {"VALIDATE"}
  OBVIOUS
<1>8. some \in SUBSET STATES
  BY DEF STATES, CoreStates
<1> HIDE DEF some
<1>9. Cardinality(some) <= Cardinality(STATES) /\ Cardinality(STATES) \in Nat
  BY <1>3, <1>8, FS_Subset, FS_CardinalityType
<1> QED BY <1>6, <1>7, <1>9

(* One round of the search of state_route.                                 *)
Wider(src, reach, n) ==
  IF n = 0 THEN {src}
  ELSE LET near == reach[n - 1] IN near \cup UNION {NextStates(s) : s \in near}

LEMMA SearchRuns ==
  ASSUME NEW src, NEW all \in Nat
  PROVE  \E h : h = [n \in 0 .. all |-> Wider(src, h, n)]
<1> DEFINE Searches(m) == \E h : h = [n \in 0 .. m |-> Wider(src, h, n)]
           bad == {m \in 0 .. all : ~Searches(m)}
<1>1. Searches(0)
  <2> DEFINE h == [n \in 0 .. 0 |-> {src}]
  <2>1. h = [n \in 0 .. 0 |-> Wider(src, h, n)]
    BY DEF Wider
  <2> HIDE DEF h
  <2> QED BY <2>1
<1>2. ASSUME NEW m \in Nat, Searches(m)
      PROVE  Searches(m + 1)
  <2>1. PICK h : h = [n \in 0 .. m |-> Wider(src, h, n)]
    BY <1>2
  <2> DEFINE wide == [n \in 0 .. m + 1 |->
                        IF n = m + 1 THEN Wider(src, h, n) ELSE h[n]]
  <2>2. \A n \in 0 .. m : wide[n] = h[n]
    OBVIOUS
  <2>3. ASSUME NEW n \in 0 .. m + 1
        PROVE  wide[n] = Wider(src, wide, n)
    <3>1. Wider(src, wide, n) = Wider(src, h, n)
      <4>1. CASE n = 0
        BY <4>1 DEF Wider
      <4>2. CASE n # 0
        <5>1. n - 1 \in 0 .. m
          BY <4>2
        <5>2. wide[n - 1] = h[n - 1]
          BY <2>2, <5>1
        <5> HIDE DEF wide
        <5> QED BY <5>2 DEF Wider
      <4> QED BY <4>1, <4>2
    <3>2. CASE n = m + 1
      BY <3>1, <3>2
    <3>3. CASE n # m + 1
      <4>1. n \in 0 .. m
        BY <3>3
      <4>2. wide[n] = h[n]
        BY <2>2, <4>1
      <4>3. h[n] = Wider(src, h, n)
        BY <2>1, <4>1
      <4> QED BY <3>1, <4>2, <4>3
    <3> QED BY <3>2, <3>3
  <2>4. wide = [n \in 0 .. m + 1 |-> wide[n]]
    OBVIOUS
  <2> HIDE DEF wide
  <2>5. wide = [n \in 0 .. m + 1 |-> Wider(src, wide, n)]
    BY <2>3, <2>4
  <2> QED BY <2>5
<1> HIDE DEF Searches
<1>3. bad = {}
  <2> SUFFICES ASSUME NEW x \in bad PROVE FALSE
    OBVIOUS
  <2>1. PICK m \in bad : \A k \in bad : m <= k
    <3>1. bad \in SUBSET (0 .. all)
      OBVIOUS
    <3> HIDE DEF bad
    <3> QED BY <3>1, LeastUpTo
  <2>2. m # 0 /\ m \in 0 .. all
    BY <1>1
  <2>3. m - 1 \in 0 .. all /\ m - 1 \in Nat /\ ~(m <= m - 1) /\ (m - 1) + 1 = m
    BY <2>2
  <2>4. Searches(m - 1)
    BY <2>1, <2>3
  <2>5. Searches(m)
    BY <1>2, <2>3, <2>4
  <2> QED BY <2>5
<1>4. all \in 0 .. all
  OBVIOUS
<1>5. Searches(all)
  BY <1>3, <1>4
<1> QED BY <1>5 DEF Searches

(* What the search has found after n rounds.                               *)
LEMMA SearchFacts ==
  ASSUME NEW src \in STATES
  PROVE  /\ Reaches[src][0] = {src}
         /\ \A n \in 1 .. Cardinality(STATES) :
              Reaches[src][n] = Reaches[src][n - 1]
                                  \cup UNION {NextStates(s) : s \in Reaches[src][n - 1]}
<1> DEFINE all == Cardinality(STATES)
           reach[n \in 0 .. all] ==
             IF n = 0 THEN {src}
             ELSE LET near == reach[n - 1]
                  IN  near \cup UNION {NextStates(s) : s \in near}
<1>1. all \in Nat
  BY StatesFinite
<1>2. \E f : f = [n \in 0 .. all |->
                    IF n = 0 THEN {src}
                    ELSE LET near == f[n - 1]
                         IN  near \cup UNION {NextStates(s) : s \in near}]
  <2> HIDE DEF all
  <2>1. PICK h : h = [n \in 0 .. all |-> Wider(src, h, n)]
    BY <1>1, SearchRuns
  <2>2. \A n : Wider(src, h, n) = IF n = 0 THEN {src}
                                  ELSE LET near == h[n - 1]
                                       IN  near \cup UNION {NextStates(s) : s \in near}
    BY DEF Wider
  <2>3. h = [n \in 0 .. all |->
               IF n = 0 THEN {src}
               ELSE LET near == h[n - 1]
                    IN  near \cup UNION {NextStates(s) : s \in near}]
    BY <2>1, <2>2
  <2> QED BY <2>3
<1>3. reach = [n \in 0 .. all |->
                 IF n = 0 THEN {src}
                 ELSE LET near == reach[n - 1]
                      IN  near \cup UNION {NextStates(s) : s \in near}]
  BY <1>2, Zenon
<1>4. Reaches[src] = [n \in 0 .. all |-> reach[n]]
  <2>1. Reaches[src] = Within(src)
    BY DEF Reaches
  <2>2. Within(src) = [n \in 0 .. all |-> reach[n]]
    BY Zenon DEF Within
  <2> QED BY <2>1, <2>2
<1> HIDE DEF reach
<1>5. \A n \in 0 .. all : Reaches[src][n] = reach[n]
  BY <1>4
<1>6. Reaches[src][0] = {src}
  <2>1. 0 \in 0 .. all
    BY <1>1
  <2> HIDE DEF all
  <2> QED BY <1>3, <1>5, <2>1
<1>7. ASSUME NEW n \in 1 .. all
      PROVE  Reaches[src][n] = Reaches[src][n - 1]
                                 \cup UNION {NextStates(s) : s \in Reaches[src][n - 1]}
  <2>1. n \in 0 .. all /\ n - 1 \in 0 .. all /\ n # 0
    BY <1>1
  <2>2. Reaches[src][n] = reach[n] /\ Reaches[src][n - 1] = reach[n - 1]
    BY <1>5, <2>1
  <2> HIDE DEF all
  <2>3. reach[n] = reach[n - 1] \cup UNION {NextStates(s) : s \in reach[n - 1]}
    BY <1>3, <2>1
  <2> QED BY <2>2, <2>3
<1> QED BY <1>6, <1>7

(* What is found stays found.                                              *)
LEMMA FoundStays ==
  ASSUME NEW src \in STATES, NEW m \in 0 .. Cardinality(STATES), NEW dst,
         dst \in Reaches[src][m]
  PROVE  dst \in Reaches[src][Cardinality(STATES)]
<1> DEFINE all == Cardinality(STATES)
           lost == {n \in m .. all : dst \notin Reaches[src][n]}
<1>1. all \in Nat /\ m \in Nat /\ m <= all
  BY StatesFinite
<1>2. \A n \in 1 .. all : dst \in Reaches[src][n - 1] => dst \in Reaches[src][n]
  BY SearchFacts
<1> HIDE DEF all
<1>3. lost = {}
  <2> SUFFICES ASSUME NEW x \in lost PROVE FALSE
    OBVIOUS
  <2>1. PICK n \in lost : \A k \in lost : n <= k
    <3>1. lost \in SUBSET (0 .. all)
      <4>1. \A n \in m .. all : n \in 0 .. all
        BY <1>1
      <4> QED BY <4>1
    <3> HIDE DEF lost
    <3> QED BY <1>1, <3>1, LeastUpTo
  <2>2. n # m /\ n \in m .. all
    OBVIOUS
  <2>3. n - 1 \in m .. all /\ ~(n <= n - 1) /\ n \in 1 .. all
    BY <1>1, <2>2
  <2>4. dst \in Reaches[src][n - 1]
    BY <2>1, <2>3
  <2> QED BY <1>2, <2>3, <2>4
<1>4. all \in m .. all
  BY <1>1
<1> QED BY <1>3, <1>4 DEF all

(* From every state but DONE the escape to ASK_USER, or the way back to    *)
(* ANALYZE_INTENT, opens all the others: no route is longer than three.    *)
LEMMA EverythingRoutable ==
  ASSUME NEW src \in STATES \ {"DONE"}, NEW dst \in STATES
  PROVE  Routable(src, dst)
<1> DEFINE R == Reaches[src]
           all == Cardinality(STATES)
<1>1. all \in Nat /\ 3 <= all
  BY StatesFinite
<1>2. /\ R[0] = {src}
      /\ \A n \in 1 .. all : R[n] = R[n - 1] \cup UNION {NextStates(s) : s \in R[n - 1]}
  BY SearchFacts
<1> HIDE DEF R, all
<1>3. /\ R[1] = R[0] \cup UNION {NextStates(s) : s \in R[0]}
      /\ R[2] = R[1] \cup UNION {NextStates(s) : s \in R[1]}
      /\ R[3] = R[2] \cup UNION {NextStates(s) : s \in R[2]}
  <2>1. 1 \in 1 .. all /\ 2 \in 1 .. all /\ 3 \in 1 .. all
    BY <1>1
  <2>2. 1 - 1 = 0 /\ 2 - 1 = 1 /\ 3 - 1 = 2
    OBVIOUS
  <2> QED BY <1>2, <2>1, <2>2
<1>4. "ANALYZE_INTENT" \in R[2]
  <2>1. CASE src = "ANALYZE_INTENT"
    BY <1>2, <1>3, <2>1
  <2>2. CASE src \in ExtraStates
    <3>1. "ANALYZE_INTENT" \in NextStates(src)
      BY <2>2 DEF NextStates
    <3> QED BY <1>2, <1>3, <3>1
  <2>3. CASE src = "ASK_USER"
    <3>1. "ANALYZE_INTENT" \in NextStates(src)
      BY <2>3 DEF NextStates, CoreNext, ExtraStates
    <3> QED BY <1>2, <1>3, <3>1
  <2>4. CASE src \notin ExtraStates /\ src # "ASK_USER"
    <3>1. "ASK_USER" \in NextStates(src)
      BY <2>4 DEF NextStates, IsTerminal
    <3>2. "ANALYZE_INTENT" \in NextStates("ASK_USER")
      BY DEF NextStates, CoreNext, ExtraStates
    <3>3. "ASK_USER" \in R[1]
      BY <1>2, <1>3, <3>1
    <3> QED BY <1>3, <3>2, <3>3
  <2> QED BY <2>1, <2>2, <2>3, <2>4
<1>5. dst = "ANALYZE_INTENT" \/ dst \in NextStates("ANALYZE_INTENT")
  <2>1. CASE dst \in ExtraStates
    BY <2>1 DEF NextStates, ExtraStates
  <2>2. CASE dst \in CoreStates
    <3>1. CoreNext["ANALYZE_INTENT"] =
            {"CONFIG_ALARM", "CONFIG_POINT", "MANAGE_PAGES", "GENERATE_LAYOUT",
             "BIND_POINTS", "CONFIG_HISTORY", "CONFIG_SCRIPT", "ASK_USER"} \cup Finishing
      BY DEF CoreNext
    <3>2. dst = "ANALYZE_INTENT" \/ dst \in CoreNext["ANALYZE_INTENT"]
      BY <2>2, <3>1 DEF CoreStates, Finishing
    <3>3. CoreNext["ANALYZE_INTENT"] \subseteq NextStates("ANALYZE_INTENT")
      BY DEF NextStates, ExtraStates
    <3> QED BY <3>2, <3>3
  <2> QED BY <2>1, <2>2 DEF STATES
<1>6. dst \in R[3] /\ 3 \in 0 .. all
  BY <1>1, <1>3, <1>4, <1>5
<1>7. dst \in Reaches[src][Cardinality(STATES)]
  BY <1>6, FoundStays DEF R, all
<1> QED BY <1>7 DEF Routable

-----------------------------------------------------------------------------
(* The state a step is given.                                              *)

LEMMA LengthIsNat ==
  ASSUME NEW src \in STATES \ {"DONE"}, NEW dst \in STATES
  PROVE  RouteLength(src, dst) \in 0 .. Cardinality(STATES)
<1> DEFINE all == Cardinality(STATES)
           at == {n \in 0 .. all : dst \in Reaches[src][n]}
<1>1. all \in Nat
  BY StatesFinite
<1>2. all \in at
  BY <1>1, EverythingRoutable DEF Routable
<1>3. PICK n \in at : \A k \in at : n <= k
  <2>1. at \in SUBSET (0 .. all)
    OBVIOUS
  <2> HIDE DEF at, all
  <2> QED BY <1>1, <1>2, <2>1, LeastUpTo
<1>4. n = 0 \/ dst \notin Reaches[src][n - 1]
  <2>1. n # 0 => n - 1 \in 0 .. all /\ ~(n <= n - 1)
    BY <1>1
  <2> QED BY <1>3, <2>1
<1>5. n \in 0 .. all /\ dst \in Reaches[src][n]
  OBVIOUS
<1> HIDE DEF at
<1> QED BY <1>4, <1>5 DEF RouteLength

LEMMA RankIsNat ==
  ASSUME NEW s \in STATES
  PROVE  Rank[s] \in 0 .. 22
<1>1. DOMAIN StateOrder = 1 .. 22
  BY DEF StateOrder
<1>2. \E k \in 1 .. 22 : StateOrder[k] = s
  BY DEF STATES, CoreStates, ExtraStates, StateOrder
<1>3. Rank[s] = CHOOSE k \in 1 .. 22 : StateOrder[k] = s
  BY <1>1 DEF Rank
<1>4. Rank[s] \in 1 .. 22
  BY <1>2, <1>3
<1> QED BY <1>4

(* One of the states in reach is the closest, and first among equals.      *)
LEMMA ClosestExists ==
  ASSUME NEW src \in STATES \ {"DONE"}, NEW near \in SUBSET STATES, near # {}
  PROVE  \E s \in near : \A t \in near : Closer(src, s, t)
<1> DEFINE all == Cardinality(STATES)
           lengths == {RouteLength(src, s) : s \in near}
<1>1. all \in Nat
  BY StatesFinite
<1>2. \A s \in near : RouteLength(src, s) \in 0 .. all
  BY LengthIsNat
<1>3. PICK s1 \in near : TRUE
  OBVIOUS
<1>4. PICK m \in lengths : \A k \in lengths : m <= k
  <2>1. lengths \in SUBSET (0 .. all) /\ RouteLength(src, s1) \in lengths
    BY <1>2
  <2> HIDE DEF lengths, all
  <2> QED BY <1>1, <2>1, LeastUpTo
<1> DEFINE closest == {s \in near : RouteLength(src, s) = m}
           ranks == {Rank[s] : s \in closest}
<1>5. PICK s2 \in closest : TRUE
  OBVIOUS
<1>6. PICK r \in ranks : \A k \in ranks : r <= k
  <2>1. \A s \in closest : Rank[s] \in 0 .. 22
    BY RankIsNat
  <2>2. ranks \in SUBSET (0 .. 22) /\ Rank[s2] \in ranks
    BY <2>1
  <2> HIDE DEF ranks, closest, lengths
  <2>3. 22 \in Nat
    OBVIOUS
  <2> QED BY <2>2, <2>3, LeastUpTo
<1>7. PICK s \in closest : Rank[s] = r
  OBVIOUS
<1>8. ASSUME NEW t \in near PROVE Closer(src, s, t)
  <2>1. RouteLength(src, s) = m /\ m <= RouteLength(src, t)
    BY <1>4, <1>7
  <2>2. m \in Nat /\ RouteLength(src, t) \in Nat
    BY <1>1, <1>2
  <2>3. RouteLength(src, t) = m => Rank[s] <= Rank[t]
    BY <1>6, <1>7
  <2> HIDE DEF ranks, closest, lengths
  <2> QED BY <2>1, <2>2, <2>3 DEF Closer
<1> QED BY <1>7, <1>8

(* _pick_state never fails on a tool of the pool, and what it picks        *)
(* exposes the tool.                                                       *)
LEMMA PickedExposes ==
  ASSUME NEW tool \in Permitted, NEW current \in STATES \ {"DONE"}
  PROVE  /\ PickState(tool, current) \in StatesExposing(tool)
         /\ PickState(tool, current) \in STATES \ {"DONE"}
         /\ PickState(tool, current) # "None"
<1> DEFINE owners == StatesExposing(tool)
           near == {s \in owners : Routable(current, s)}
<1>1. owners # {} /\ owners \subseteq STATES \ {"DONE"}
  BY PermittedAssumption DEF StatesExposing
<1>2. "None" \notin STATES
  BY DEF STATES, CoreStates, ExtraStates
<1>3. near = owners
  BY <1>1, EverythingRoutable
<1>4. PickState(tool, current) =
        CASE current \in owners -> current
          [] current \notin owners /\ near # {} ->
               CHOOSE s \in near : \A t \in near : Closer(current, s, t)
          [] OTHER -> "None"
  BY DEF PickState
<1> HIDE DEF near, owners
<1>5. \E s \in near : \A t \in near : Closer(current, s, t)
  BY <1>1, <1>3, ClosestExists
<1>6. (CHOOSE s \in near : \A t \in near : Closer(current, s, t)) \in near
  BY <1>5
<1>7. PickState(tool, current) \in owners
  BY <1>1, <1>3, <1>4, <1>6
<1> QED BY <1>1, <1>2, <1>7 DEF owners

-----------------------------------------------------------------------------
(* The states of the plan in the making are some the run can walk from.    *)
Walkable ==
  /\ start \in STATES \ {"DONE"} /\ lever \in Levers
  /\ \A i \in Prepared : prepared[i].state \in STATES \ {"DONE"}
  /\ DOMAIN dropped = Reasons /\ dropped["unreachable_state"] = {}

LEMMA CursorWalks ==
  ASSUME Ordered, Walkable
  PROVE  Cursor \in STATES \ {"DONE"}
<1>1. CASE prepared = <<>>
  BY <1>1 DEF Cursor, Walkable
<1>2. CASE prepared # <<>>
  <2>1. Len(prepared) \in Nat /\ Prepared = 1 .. Len(prepared)
    BY Indices DEF Ordered
  <2>2. Len(prepared) # 0
    BY <1>2 DEF Ordered
  <2>3. Len(prepared) \in Prepared
    BY <2>1, <2>2
  <2> QED BY <1>2, <2>3 DEF Cursor, Walkable
<1> QED BY <1>1, <1>2

(* No step is dropped for its state, and a kept one is of the pool.        *)
LEMMA VerdictFacts ==
  ASSUME Ordered, Walkable, NEW k
  PROVE  /\ Verdict(k) # "unreachable_state"
         /\ Verdict(k) = "kept" =>
              proposal[k].tool \in Permitted /\ Len(prepared) < lever.max_steps
<1> DEFINE raw == proposal[k]
           known == Resolved(raw) /\ raw.tool \in Permitted
           full == Len(prepared) >= lever.max_steps
           room == Len(prepared) < lever.max_steps
           inner == CASE Signature(k) \in Seen -> "duplicate"
                      [] Signature(k) \notin Seen ->
                           IF PickState(raw.tool, Cursor) = "None"
                             THEN "unreachable_state" ELSE "kept"
<1>1. Verdict(k) =
        CASE full -> "over_budget"
          [] room /\ ~known -> "unknown_tool"
          [] room /\ known /\ ~Validates(k) -> "schema_invalid"
          [] room /\ known /\ Validates(k) -> inner
  BY Zenon DEF Verdict
<1>2. full <=> ~room
  <2>1. Len(prepared) \in Nat /\ lever.max_steps \in Nat
    BY LeversAssumption DEF Ordered, Walkable
  <2> QED BY <2>1
<1>3. known => PickState(raw.tool, Cursor) # "None"
  BY CursorWalks, PickedExposes
<1>4. known => inner \in {"duplicate", "kept"}
  BY <1>3
<1> HIDE DEF inner, full, room, known
<1>5. /\ Verdict(k) # "unreachable_state"
      /\ Verdict(k) = "kept" => known /\ room
  BY <1>1, <1>2, <1>4
<1> QED BY <1>5 DEF known, room

LEMMA WalkableInit == Init => Walkable
<1> SUFFICES ASSUME Init PROVE Walkable
  OBVIOUS
<1>1. start \in STATES \ {"DONE"} /\ lever \in Levers
  BY StartsAssumption DEF Init
<1>2. Prepared = {}
  BY DEF Init, Prepared
<1>3. DOMAIN dropped = Reasons /\ dropped["unreachable_state"] = {}
  BY DEF Init, Reasons
<1> QED BY <1>1, <1>2, <1>3 DEF Walkable

LEMMA WalkableStep == Ordered /\ Walkable /\ [Next]_vars => Walkable'
<1> SUFFICES ASSUME Ordered, Walkable, [Next]_vars PROVE Walkable'
  OBVIOUS
<1>1. ASSUME UNCHANGED <<start, lever, prepared, dropped>> PROVE Walkable'
  BY <1>1 DEF Walkable, Prepared
<1>2. CASE Drop
  <2>1. /\ UNCHANGED <<start, lever, prepared>>
        /\ dropped' = [dropped EXCEPT ![Verdict(next)] = @ \cup {next}]
    BY <1>2 DEF Drop, args
  <2>2. Verdict(next) # "unreachable_state"
    BY VerdictFacts
  <2>3. DOMAIN dropped' = Reasons /\ dropped'["unreachable_state"] = {}
    BY <2>1, <2>2 DEF Walkable, Reasons
  <2> QED BY <2>1, <2>3 DEF Walkable, Prepared
<1>3. CASE Keep
  <2> DEFINE state == PickState(proposal[next].tool, Cursor)
  <2>1. /\ UNCHANGED <<start, lever, dropped>>
        /\ prepared' = Append(prepared, [step |-> next, state |-> state])
        /\ Verdict(next) = "kept"
    BY <1>3 DEF Keep, args
  <2>2. state \in STATES \ {"DONE"}
    BY <2>1, VerdictFacts, CursorWalks, PickedExposes
  <2> HIDE DEF state
  <2>3. /\ Len(prepared) \in Nat /\ Prepared = 1 .. Len(prepared)
        /\ prepared \in Seq({prepared[i] : i \in Prepared})
    BY Indices DEF Ordered
  <2>4. /\ DOMAIN prepared' = 1 .. Len(prepared) + 1
        /\ \A i \in 1 .. Len(prepared) : prepared'[i] = prepared[i]
        /\ prepared'[Len(prepared) + 1].state = state
    BY <2>1, <2>3
  <2>5. ASSUME NEW i \in Prepared' PROVE prepared'[i].state \in STATES \ {"DONE"}
    <3>1. CASE i = Len(prepared) + 1
      BY <2>2, <2>4, <3>1
    <3>2. CASE i # Len(prepared) + 1
      <4>1. i \in Prepared
        BY <2>3, <2>4, <3>2 DEF Prepared
      <4> QED BY <2>3, <2>4, <4>1 DEF Walkable
    <3> QED BY <3>1, <3>2
  <2> QED BY <2>1, <2>5 DEF Walkable
<1>4. CASE EndFilter
  BY <1>1, <1>4 DEF EndFilter, args
<1>5. CASE Pick
  BY <1>1, <1>5 DEF Pick, args
<1>6. CASE EndReorder
  BY <1>1, <1>6 DEF EndReorder, args
<1>7. CASE UNCHANGED vars
  BY <1>1, <1>7 DEF vars
<1> QED BY <1>2, <1>3, <1>4, <1>5, <1>6, <1>7 DEF Next

(* A compiled plan can be walked by legal transitions from one step to the *)
(* next, however the repair ordered it, and no step was dropped because    *)
(* the state machine could not reach a state that has its tool             *)
(* (compile_plan, _pick_state, state_route).                               *)
THEOREM PlanIsRoutableHolds == Spec => []PlanIsRoutable
<1>1. ASSUME Ordered, Walkable PROVE PlanIsRoutable
  <2>1. ASSUME Compiled, NEW p \in DOMAIN order
        PROVE  Routable(IF p = 1 THEN start ELSE prepared[order[p - 1]].state,
                        prepared[order[p]].state)
    <3>1. order \in Seq(Prepared)
      BY <1>1 DEF Ordered
    <3>2. p \in 1 .. Len(order) /\ Len(order) \in Nat /\ order[p] \in Prepared
      BY <2>1, <3>1
    <3>3. p # 1 => order[p - 1] \in Prepared
      BY <3>1, <3>2
    <3>4. /\ prepared[order[p]].state \in STATES
          /\ (IF p = 1 THEN start ELSE prepared[order[p - 1]].state) \in STATES \ {"DONE"}
      BY <1>1, <3>2, <3>3 DEF Walkable
    <3> QED BY <3>4, EverythingRoutable
  <2> QED BY <1>1, <2>1 DEF PlanIsRoutable, Walkable
<1> QED BY OrderedInvariant, WalkableInit, WalkableStep, <1>1, PTL DEF Spec

-----------------------------------------------------------------------------
(* The types, with the kept steps among those that were looked at.         *)
Examined ==
  /\ proposal \in Seq({proposal[k] : k \in DOMAIN proposal})
  /\ next \in 1 .. Len(proposal) + 1
  /\ Len(prepared) <= lever.max_steps
  /\ \A i \in Prepared :
       prepared[i].step \in 1 .. next - 1
       /\ prepared[i].state \in StatesExposing(Step(i).tool)

LEMMA ExaminedStep ==
  Ordered /\ Walkable /\ Examined /\ [Next]_vars => Examined'
<1> SUFFICES ASSUME Ordered, Walkable, Examined, [Next]_vars PROVE Examined'
  OBVIOUS
<1>1. ASSUME UNCHANGED <<proposal, lever, prepared, next>> PROVE Examined'
  BY <1>1 DEF Examined, Prepared, Step
<1>2. Len(proposal) \in Nat /\ next \in Nat /\ 1 <= next /\ next <= Len(proposal) + 1
  BY DEF Examined
<1>3. CASE Drop
  <2>1. /\ UNCHANGED <<proposal, lever, prepared>>
        /\ next' = next + 1 /\ next <= Len(proposal)
    BY <1>3 DEF Drop, args
  <2>2. next' \in 1 .. Len(proposal) + 1 /\ \A k \in 1 .. next - 1 : k \in 1 .. next' - 1
    BY <1>2, <2>1
  <2> QED BY <2>1, <2>2 DEF Examined, Prepared, Step
<1>4. CASE Keep
  <2> DEFINE state == PickState(proposal[next].tool, Cursor)
             n == Len(prepared)
  <2>1. /\ UNCHANGED <<proposal, lever>> /\ next' = next + 1 /\ next <= Len(proposal)
        /\ prepared' = Append(prepared, [step |-> next, state |-> state])
        /\ Verdict(next) = "kept"
    BY <1>4 DEF Keep, args
  <2>2. state \in StatesExposing(proposal[next].tool) /\ n < lever.max_steps
    BY <2>1, VerdictFacts, CursorWalks, PickedExposes
  <2> HIDE DEF state
  <2>3. /\ n \in Nat /\ Prepared = 1 .. n
        /\ prepared \in Seq({prepared[i] : i \in Prepared})
    BY Indices DEF Ordered
  <2>4. /\ DOMAIN prepared' = 1 .. n + 1 /\ Len(prepared') = n + 1
        /\ \A i \in 1 .. n : prepared'[i] = prepared[i]
        /\ prepared'[n + 1] = [step |-> next, state |-> state]
    BY <2>1, <2>3
  <2>5. ASSUME NEW i \in Prepared'
        PROVE  /\ prepared'[i].step \in 1 .. next' - 1
               /\ prepared'[i].state \in StatesExposing(proposal'[prepared'[i].step].tool)
    <3>1. CASE i = n + 1
      BY <1>2, <2>1, <2>2, <2>4, <3>1
    <3>2. CASE i # n + 1
      <4>1. i \in 1 .. n
        BY <2>4, <3>2 DEF Prepared
      <4>2. prepared'[i] = prepared[i]
        BY <2>4, <4>1
      <4>3. /\ prepared[i].step \in 1 .. next - 1
            /\ prepared[i].state \in StatesExposing(proposal[prepared[i].step].tool)
        BY <2>3, <4>1 DEF Examined, Step
      <4>4. prepared[i].step \in 1 .. next' - 1
        BY <1>2, <2>1, <4>3
      <4> QED BY <2>1, <4>2, <4>3, <4>4
    <3> QED BY <3>1, <3>2
  <2>6. next' \in 1 .. Len(proposal') + 1
    BY <1>2, <2>1
  <2>7. Len(prepared') <= lever'.max_steps
    <3>1. lever.max_steps \in Nat
      BY LeversAssumption DEF Walkable
    <3> QED BY <2>1, <2>2, <2>3, <2>4, <3>1
  <2>8. (proposal \in Seq({proposal[k] : k \in DOMAIN proposal}))'
    BY <2>1 DEF Examined
  <2> QED BY <2>5, <2>6, <2>7, <2>8 DEF Examined, Step
<1>5. CASE EndFilter
  BY <1>1, <1>5 DEF EndFilter, args
<1>6. CASE Pick
  BY <1>1, <1>6 DEF Pick, args
<1>7. CASE EndReorder
  BY <1>1, <1>7 DEF EndReorder, args
<1>8. CASE UNCHANGED vars
  BY <1>1, <1>8 DEF vars, args
<1> QED BY <1>3, <1>4, <1>5, <1>6, <1>7, <1>8 DEF Next

(* The compiler's working state keeps its types: a plan stays within       *)
(* max_steps, and every step of it is given a state that exposes its tool  *)
(* (compile_plan).                                                         *)
THEOREM CompileTypeCorrect == Spec => []CompileTypeOK
<1>1. Init => Examined
  <2> SUFFICES ASSUME Init PROVE Examined
    OBVIOUS
  <2>1. proposal \in Seq({proposal[k] : k \in DOMAIN proposal})
    BY ProposalsAssumption DEF Init
  <2>2. Len(proposal) \in Nat
    BY <2>1
  <2>3. lever.max_steps \in Nat /\ next = 1 /\ prepared = <<>>
    BY LeversAssumption DEF Init
  <2>4. next \in 1 .. Len(proposal) + 1 /\ Len(prepared) <= lever.max_steps /\ Prepared = {}
    BY <2>2, <2>3 DEF Prepared
  <2> QED BY <2>1, <2>4 DEF Examined
<1>2. ASSUME Ordered, Walkable, Examined PROVE CompileTypeOK
  <2>1. Len(proposal) \in Nat /\ next \in 1 .. Len(proposal) + 1
    BY <1>2 DEF Examined
  <2>2. \A i \in Prepared : prepared[i].step \in 1 .. Len(proposal)
    BY <1>2, <2>1 DEF Examined
  <2>3. IsInjective(order) /\ ToSet(order) \subseteq Prepared
    <3>1. /\ order \in Seq(Prepared)
          /\ \A p, q \in DOMAIN order : order[p] = order[q] => p = q
      BY <1>2 DEF Ordered
    <3>2. \A p \in DOMAIN order : order[p] \in Prepared
      BY <3>1
    <3> QED BY <3>1, <3>2 DEF IsInjective, ToSet
  <2> QED BY <1>2, <2>1, <2>2, <2>3 DEF CompileTypeOK, Ordered, Walkable, Examined
<1> QED BY OrderedInvariant, WalkableInit, WalkableStep, ExaminedStep, <1>1, <1>2, PTL
       DEF Spec
=============================================================================
