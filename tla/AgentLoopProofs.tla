-------------------------- MODULE AgentLoopProofs --------------------------
(***************************************************************************)
(* Properties of workflow runs and of the loop that steps them, for every  *)
(* catalogue of workflows that passes the load check, every architecture,  *)
(* set of tools and bound: first what the cursor operations of workflow.py *)
(* preserve, then the engine that performs them, then the loop.            *)
(***************************************************************************)
EXTENDS AgentLoop, TLAPS, WellFoundedInduction, SequenceTheorems


(* Least element of a set of naturals.                                     *)
LEMMA Smallest ==
  ASSUME NEW S \in SUBSET Nat, S # {}
  PROVE  \E m \in S : \A k \in S : m <= k
<1> DEFINE R == {p \in Nat \X Nat : p[1] < p[2]}
<1>1. IsWellFoundedOn(R, Nat)
  BY NatLessThanWellFounded DEF OpToRel, IsWellFoundedOn
<1> HIDE DEF R
<1>2. PICK m \in S : \A k \in S : ~ (<<k, m>> \in R)
  BY <1>1, WFMin
<1>3. \A k \in S : ~(k < m)
  <2> TAKE k \in S
  <2>1. k \in Nat /\ m \in Nat
    OBVIOUS
  <2> QED BY <1>2, <2>1 DEF R
<1> QED BY <1>3

-----------------------------------------------------------------------------
(* What the load check gives about a workflow and its steps.               *)
LEMMA WorkflowFacts ==
  ASSUME NEW wf \in Workflows
  PROVE  /\ Len(Catalogue[wf]) \in Nat \ {0}
         /\ StepIds(wf) = 1 .. Len(Catalogue[wf])
         /\ 1 \in StepIds(wf)
BY CatalogueAssumption DEF WellFormed, StepIds

LEMMA StepFacts ==
  ASSUME NEW wf \in Workflows, NEW i \in StepIds(wf)
  PROVE  /\ Step(wf, i).onFailure \in StepIds(wf) \cup {0}
         /\ Step(wf, i).kind = "conditional" =>
              /\ Step(wf, i).ifTrue \in StepIds(wf)
              /\ Step(wf, i).ifFalse \in StepIds(wf) \cup {0}
         /\ Step(wf, i).kind = "loop" =>
              /\ Step(wf, i).body \in StepIds(wf)
              /\ Step(wf, Step(wf, i).body).kind \notin {"loop", "conditional"}
              /\ Step(wf, i).maxIter \in Nat \ {0}
BY CatalogueAssumption DEF WellFormed, StepIds, Step

LEMMA ChangeOf ==
  ASSUME NEW wf \in Workflows, NEW i \in StepIds(wf)
  PROVE  <<wf, i>> \in Changes
BY DEF Changes

-----------------------------------------------------------------------------
(* Every operation leaves an execution state of the workflow.              *)
LEMMA InitialStateType ==
  ASSUME NEW wf \in Workflows
  PROVE  InitialState(wf) \in ExecState(wf)
BY WorkflowFacts DEF InitialState, ExecState

LEMMA CompleteType ==
  ASSUME NEW wf \in Workflows, NEW x \in ExecState(wf)
  PROVE  Complete(x) \in ExecState(wf)
BY DEF Complete, ExecState

LEMMA AdvanceAfterType ==
  ASSUME NEW wf \in Workflows, NEW x \in ExecState(wf), NEW i \in StepIds(wf)
  PROVE  AdvanceAfter(wf, x, i) \in ExecState(wf)
<1>1. i # Len(Catalogue[wf]) => i + 1 \in StepIds(wf)
  BY WorkflowFacts
<1> QED BY <1>1 DEF AdvanceAfter, ExecState

LEMMA AdvanceOkType ==
  ASSUME NEW wf \in Workflows, NEW x \in ExecState(wf)
  PROVE  AdvanceOk(wf, x) \in ExecState(wf)
<1> DEFINE done == [Complete(x) EXCEPT
                      !.comps = IF Step(wf, x.cur).comp
                                  THEN Append(@, <<wf, x.cur>>) ELSE @]
<1>1. x.cur \in StepIds(wf)
  BY DEF ExecState
<1>2. done \in ExecState(wf)
  <2>1. x.comps \in Seq(Changes) /\ <<wf, x.cur>> \in Changes
    BY <1>1, ChangeOf DEF ExecState
  <2>2. Append(x.comps, <<wf, x.cur>>) \in Seq(Changes)
    BY <2>1
  <2>3. \A c \in Seq(Changes) : [Complete(x) EXCEPT !.comps = c] \in ExecState(wf)
    BY CompleteType DEF ExecState
  <2>4. Complete(x).comps = x.comps
    BY DEF Complete, ExecState
  <2> QED BY <2>1, <2>2, <2>3, <2>4
<1>3. x.ret # <<>> => Last(x.ret) \in StepIds(wf) /\ Front(x.ret) \in Seq(StepIds(wf))
  BY DEF ExecState, Last, Front
<1>4. x.ret # <<>>
        => [done EXCEPT !.cur = Last(x.ret), !.ret = Front(x.ret)] \in ExecState(wf)
  BY <1>2, <1>3 DEF ExecState
<1> QED BY <1>1, <1>2, <1>4, AdvanceAfterType DEF AdvanceOk

LEMMA AbortLoopType ==
  ASSUME NEW wf \in Workflows, NEW x \in ExecState(wf)
  PROVE  AbortLoop(x) \in ExecState(wf)
<1>1. x.ret # <<>> => Last(x.ret) \in StepIds(wf) /\ Front(x.ret) \in Seq(StepIds(wf))
  BY DEF ExecState, Last, Front
<1> QED BY <1>1 DEF AbortLoop, ExecState

LEMMA AdvanceFailedType ==
  ASSUME NEW wf \in Workflows, NEW x \in ExecState(wf)
  PROVE  AdvanceFailed(wf, x) \in ExecState(wf)
<1>1. x.cur \in StepIds(wf) /\ Step(wf, x.cur).onFailure \in StepIds(wf) \cup {0}
  BY StepFacts DEF ExecState
<1> QED BY <1>1, AbortLoopType DEF AdvanceFailed, ExecState

LEMMA AdvanceType ==
  ASSUME NEW wf \in Workflows, NEW x \in ExecState(wf), NEW ok \in BOOLEAN
  PROVE  Advance(wf, x, ok) \in ExecState(wf)
BY AdvanceOkType, AdvanceFailedType DEF Advance

LEMMA ResolveConditionalType ==
  ASSUME NEW wf \in Workflows, NEW x \in ExecState(wf), NEW holds \in BOOLEAN,
         Step(wf, x.cur).kind = "conditional"
  PROVE  ResolveConditional(wf, x, holds) \in ExecState(wf)
<1>1. x.cur \in StepIds(wf)
  BY DEF ExecState
<1>2. AdvanceAfter(wf, Complete(x), x.cur) \in ExecState(wf)
  BY <1>1, CompleteType, AdvanceAfterType
<1>3. \A t \in StepIds(wf) : [Complete(x) EXCEPT !.cur = t] \in ExecState(wf)
  BY CompleteType DEF ExecState
<1> QED BY <1>1, <1>2, <1>3, StepFacts DEF ResolveConditional

LEMMA ResolveLoopType ==
  ASSUME NEW wf \in Workflows, NEW x \in ExecState(wf), NEW holds \in BOOLEAN,
         Step(wf, x.cur).kind = "loop"
  PROVE  ResolveLoop(wf, x, holds) \in ExecState(wf)
<1>1. x.cur \in StepIds(wf) /\ Step(wf, x.cur).body \in StepIds(wf)
  BY StepFacts DEF ExecState
<1>2. [Complete(x) EXCEPT !.count[x.cur] = 0] \in ExecState(wf)
  BY <1>1, CompleteType DEF ExecState
<1>3. AdvanceAfter(wf, [Complete(x) EXCEPT !.count[x.cur] = 0],
                   Step(wf, x.cur).body) \in ExecState(wf)
  BY <1>1, <1>2, AdvanceAfterType
<1>4. [x EXCEPT !.count[x.cur] = @ + 1, !.ret = Append(@, x.cur),
                !.cur = Step(wf, x.cur).body] \in ExecState(wf)
  <2>1. Append(x.ret, x.cur) \in Seq(StepIds(wf))
    BY <1>1 DEF ExecState
  <2>2. [x.count EXCEPT ![x.cur] = @ + 1] \in [StepIds(wf) -> Nat]
    BY <1>1 DEF ExecState
  <2> QED BY <1>1, <2>1, <2>2 DEF ExecState
<1> QED BY <1>3, <1>4 DEF ResolveLoop

(* The step a fast-forward stops at exists: the first one it cannot pass.  *)
LEMMA FastForwardStop ==
  ASSUME NEW wf \in Workflows, NEW x \in ExecState(wf), NEW a
  PROVE  \E stop \in x.cur .. Len(Catalogue[wf]) + 1 :
           /\ \A k \in x.cur .. stop - 1 : Skippable(wf, k, a)
           /\ stop <= Len(Catalogue[wf]) => ~Skippable(wf, stop, a)
           /\ FastForward(wf, x, a) =
                IF x.finished THEN x
                ELSE IF stop > Len(Catalogue[wf])
                  THEN [x EXCEPT !.completed = @ \cup (x.cur .. stop - 1),
                                 !.cur = Len(Catalogue[wf]), !.finished = TRUE]
                ELSE [x EXCEPT !.completed = @ \cup (x.cur .. stop - 1), !.cur = stop]
<1> DEFINE n == Len(Catalogue[wf])
           Good(j) == /\ \A k \in x.cur .. j - 1 : Skippable(wf, k, a)
                      /\ j <= n => ~Skippable(wf, j, a)
           T == {j \in x.cur .. n + 1 : j <= n => ~Skippable(wf, j, a)}
           stop == CHOOSE j \in x.cur .. n + 1 : Good(j)
<1>1. n \in Nat /\ x.cur \in 1 .. n
  BY WorkflowFacts DEF ExecState
<1>2. \E j \in x.cur .. n + 1 : Good(j)
  <2>1. n + 1 \in T /\ T \subseteq Nat
    BY <1>1
  <2>2. PICK m \in T : \A k \in T : m <= k
    BY <2>1, Smallest
  <2>3. m \in x.cur .. n + 1 /\ (m <= n => ~Skippable(wf, m, a))
    OBVIOUS
  <2>4. \A k \in x.cur .. m - 1 : k \notin T /\ k \in x.cur .. n + 1
    BY <1>1, <2>2, <2>3
  <2>5. \A k \in x.cur .. m - 1 : Skippable(wf, k, a)
    BY <2>4
  <2> QED BY <2>3, <2>5
<1>3. stop \in x.cur .. n + 1 /\ Good(stop)
  BY <1>2
<1>4. FastForward(wf, x, a) =
        IF x.finished THEN x
        ELSE IF stop > n
          THEN [[x EXCEPT !.completed = @ \cup (x.cur .. stop - 1)]
                  EXCEPT !.cur = n, !.finished = TRUE]
        ELSE [[x EXCEPT !.completed = @ \cup (x.cur .. stop - 1)] EXCEPT !.cur = stop]
  BY DEF FastForward
<1> HIDE DEF stop
<1> QED BY <1>3, <1>4 DEF ExecState

LEMMA FastForwardType ==
  ASSUME NEW wf \in Workflows, NEW x \in ExecState(wf), NEW a
  PROVE  FastForward(wf, x, a) \in ExecState(wf)
<1>1. PICK stop \in x.cur .. Len(Catalogue[wf]) + 1 :
        /\ \A k \in x.cur .. stop - 1 : Skippable(wf, k, a)
        /\ stop <= Len(Catalogue[wf]) => ~Skippable(wf, stop, a)
        /\ FastForward(wf, x, a) =
             IF x.finished THEN x
             ELSE IF stop > Len(Catalogue[wf])
               THEN [x EXCEPT !.completed = @ \cup (x.cur .. stop - 1),
                              !.cur = Len(Catalogue[wf]), !.finished = TRUE]
             ELSE [x EXCEPT !.completed = @ \cup (x.cur .. stop - 1), !.cur = stop]
  BY FastForwardStop
<1>2. /\ Len(Catalogue[wf]) \in Nat \ {0} /\ x.cur \in 1 .. Len(Catalogue[wf])
      /\ StepIds(wf) = 1 .. Len(Catalogue[wf])
  BY WorkflowFacts DEF ExecState
<1>3. (x.cur .. stop - 1) \subseteq StepIds(wf)
  BY <1>2
<1>4. x.completed \cup (x.cur .. stop - 1) \in SUBSET StepIds(wf)
  BY <1>3 DEF ExecState
<1>5. Len(Catalogue[wf]) \in StepIds(wf)
      /\ (stop <= Len(Catalogue[wf]) => stop \in StepIds(wf))
  BY <1>2
<1>6. \A C \in SUBSET StepIds(wf), t \in StepIds(wf) :
        /\ [x EXCEPT !.completed = C, !.cur = t] \in ExecState(wf)
        /\ [x EXCEPT !.completed = C, !.cur = t, !.finished = TRUE] \in ExecState(wf)
  BY DEF ExecState
<1>7. stop > Len(Catalogue[wf]) \/ stop <= Len(Catalogue[wf])
  BY <1>2
<1> QED BY <1>1, <1>4, <1>5, <1>6, <1>7

-----------------------------------------------------------------------------
(* Every operation keeps the return edge with the loop it belongs to.      *)
LEMMA EdgeAdvanceAfter ==
  ASSUME NEW wf \in Workflows, NEW x \in ExecState(wf), NEW i \in StepIds(wf),
         x.ret = <<>>
  PROVE  AdvanceAfter(wf, x, i).ret = <<>>
BY DEF AdvanceAfter, ExecState

(* A successful step pops the edge of the loop it is the body of, if any.  *)
LEMMA EdgeAdvanceOk ==
  ASSUME NEW wf \in Workflows, NEW x \in ExecState(wf), LoopEdgeOf(wf, x)
  PROVE  AdvanceOk(wf, x).ret = <<>>
<1> DEFINE done == [Complete(x) EXCEPT
                      !.comps = IF Step(wf, x.cur).comp
                                  THEN Append(@, <<wf, x.cur>>) ELSE @]
<1>1. CASE x.ret = <<>>
  <2>1. done \in [cur : StepIds(wf), completed : SUBSET StepIds(wf),
                  failed : StepIds(wf) \cup {0}, finished : BOOLEAN,
                  count : [StepIds(wf) -> Nat], ret : {<<>>},
                  comps : {done.comps}, raised : BOOLEAN]
    BY <1>1 DEF ExecState, Complete
  <2>2. AdvanceOk(wf, x) = AdvanceAfter(wf, done, x.cur)
    BY <1>1 DEF AdvanceOk
  <2> QED BY <2>1, <2>2 DEF AdvanceAfter
<1>2. CASE x.ret # <<>>
  <2>1. Len(x.ret) = 1 /\ x.ret \in Seq(StepIds(wf))
    BY <1>2 DEF LoopEdgeOf, ExecState
  <2>2. Front(x.ret) = <<>>
    BY <2>1 DEF Front
  <2>3. AdvanceOk(wf, x) = [done EXCEPT !.cur = Last(x.ret), !.ret = Front(x.ret)]
    BY <1>2 DEF AdvanceOk
  <2> QED BY <2>2, <2>3 DEF Complete, ExecState
<1> QED BY <1>1, <1>2

LEMMA EdgeAdvanceFailed ==
  ASSUME NEW wf \in Workflows, NEW x \in ExecState(wf), LoopEdgeOf(wf, x)
  PROVE  AdvanceFailed(wf, x).ret = <<>>
<1>1. AbortLoop(x).ret = <<>>
  <2>1. CASE x.ret = <<>>
    BY <2>1 DEF AbortLoop
  <2>2. CASE x.ret # <<>>
    <3>1. Len(x.ret) = 1 /\ x.ret \in Seq(StepIds(wf))
      BY <2>2 DEF LoopEdgeOf, ExecState
    <3>2. Front(x.ret) = <<>>
      BY <3>1 DEF Front
    <3>3. AbortLoop(x) = [x EXCEPT !.count[Last(x.ret)] = 0, !.ret = <<>>]
      BY <2>2, <3>2 DEF AbortLoop
    <3> QED BY <3>3 DEF ExecState
  <2> QED BY <2>1, <2>2
<1> QED BY <1>1, AbortLoopType DEF AdvanceFailed, ExecState

LEMMA EdgeAdvance ==
  ASSUME NEW wf \in Workflows, NEW x \in ExecState(wf), LoopEdgeOf(wf, x),
         NEW ok \in BOOLEAN
  PROVE  Advance(wf, x, ok).ret = <<>>
BY EdgeAdvanceOk, EdgeAdvanceFailed DEF Advance

(* Control flow steps are never loop bodies, so no edge is pending there.  *)
LEMMA NoEdgeOnControlFlow ==
  ASSUME NEW wf \in Workflows, NEW x \in ExecState(wf), LoopEdgeOf(wf, x),
         Step(wf, x.cur).kind \in {"loop", "conditional"}
  PROVE  x.ret = <<>>
<1> SUFFICES ASSUME x.ret # <<>> PROVE FALSE
  OBVIOUS
<1>1. x.ret[1] \in StepIds(wf)
  BY DEF LoopEdgeOf, ExecState
<1> QED BY <1>1, StepFacts DEF LoopEdgeOf

LEMMA EdgeConditional ==
  ASSUME NEW wf \in Workflows, NEW x \in ExecState(wf), LoopEdgeOf(wf, x),
         Step(wf, x.cur).kind = "conditional", NEW holds \in BOOLEAN
  PROVE  ResolveConditional(wf, x, holds).ret = <<>>
<1>1. x.ret = <<>> /\ x.cur \in StepIds(wf)
  BY NoEdgeOnControlFlow DEF ExecState
<1>2. Complete(x) \in ExecState(wf) /\ Complete(x).ret = <<>>
  BY <1>1, CompleteType DEF Complete, ExecState
<1>3. AdvanceAfter(wf, Complete(x), x.cur).ret = <<>>
  BY <1>1, <1>2, EdgeAdvanceAfter
<1> QED BY <1>2, <1>3 DEF ResolveConditional, ExecState

LEMMA EdgeLoop ==
  ASSUME NEW wf \in Workflows, NEW x \in ExecState(wf), LoopEdgeOf(wf, x),
         Step(wf, x.cur).kind = "loop", NEW holds \in BOOLEAN
  PROVE  LoopEdgeOf(wf, ResolveLoop(wf, x, holds))
<1> DEFINE s == Step(wf, x.cur)
<1>1. /\ x.ret = <<>> /\ x.cur \in StepIds(wf)
      /\ s.body \in StepIds(wf) /\ s.maxIter \in Nat \ {0}
  BY NoEdgeOnControlFlow, StepFacts DEF ExecState
<1>2. CASE holds /\ x.count[x.cur] < s.maxIter
  <2> DEFINE y == [x EXCEPT !.count[x.cur] = @ + 1, !.ret = Append(@, x.cur),
                            !.cur = s.body]
  <2>1. ResolveLoop(wf, x, holds) = y
    BY <1>2 DEF ResolveLoop
  <2>2. y.ret = <<x.cur>> /\ y.cur = s.body /\ y.count[x.cur] = x.count[x.cur] + 1
    BY <1>1 DEF ExecState
  <2>3. x.count[x.cur] \in Nat
    BY <1>1 DEF ExecState
  <2> HIDE DEF y
  <2>4. y.ret[1] = x.cur /\ Len(y.ret) = 1
    BY <2>2
  <2>5. y.count[x.cur] \in 1 .. s.maxIter
    BY <1>1, <1>2, <2>2, <2>3
  <2> QED BY <2>1, <2>2, <2>4, <2>5 DEF LoopEdgeOf
<1>3. CASE ~(holds /\ x.count[x.cur] < s.maxIter)
  <2> DEFINE y == [Complete(x) EXCEPT !.count[x.cur] = 0]
  <2>1. ResolveLoop(wf, x, holds) = AdvanceAfter(wf, y, s.body)
    BY <1>3 DEF ResolveLoop
  <2>2. y \in ExecState(wf) /\ y.ret = <<>>
    BY <1>1 DEF ExecState, Complete
  <2>3. AdvanceAfter(wf, y, s.body).ret = <<>>
    BY <1>1, <2>2, EdgeAdvanceAfter
  <2> QED BY <2>1, <2>3 DEF LoopEdgeOf
<1> QED BY <1>2, <1>3

(* A required or non-llm loop body is never passed over.                   *)
LEMMA EdgeFastForward ==
  ASSUME NoOptionalBody,
         NEW wf \in Workflows, NEW x \in ExecState(wf), LoopEdgeOf(wf, x), NEW a
  PROVE  LoopEdgeOf(wf, FastForward(wf, x, a))
<1>1. PICK stop \in x.cur .. Len(Catalogue[wf]) + 1 :
        /\ \A k \in x.cur .. stop - 1 : Skippable(wf, k, a)
        /\ stop <= Len(Catalogue[wf]) => ~Skippable(wf, stop, a)
        /\ FastForward(wf, x, a) =
             IF x.finished THEN x
             ELSE IF stop > Len(Catalogue[wf])
               THEN [x EXCEPT !.completed = @ \cup (x.cur .. stop - 1),
                              !.cur = Len(Catalogue[wf]), !.finished = TRUE]
             ELSE [x EXCEPT !.completed = @ \cup (x.cur .. stop - 1), !.cur = stop]
  BY FastForwardStop
<1>2. /\ Len(Catalogue[wf]) \in Nat \ {0} /\ x.cur \in 1 .. Len(Catalogue[wf])
      /\ x.cur \in StepIds(wf)
  BY WorkflowFacts DEF ExecState
<1>3. CASE x.ret = <<>>
  <2>1. FastForward(wf, x, a).ret = <<>>
    BY <1>1, <1>3 DEF ExecState
  <2> QED BY <2>1 DEF LoopEdgeOf
<1>4. CASE x.ret # <<>>
  <2>1. x.ret[1] \in StepIds(wf) /\ Step(wf, x.ret[1]).kind = "loop"
        /\ x.cur = Step(wf, x.ret[1]).body
    BY <1>4 DEF LoopEdgeOf, ExecState
  <2>2. ~IsOptional(wf, x.cur)
    BY <2>1 DEF NoOptionalBody
  <2>3. ~Skippable(wf, x.cur, a)
    BY <2>2 DEF Skippable, IsOptional
  <2>4. stop = x.cur
    BY <1>1, <1>2, <2>3
  <2>5. LET y == FastForward(wf, x, a) IN
          y.ret = x.ret /\ y.cur = x.cur /\ y.count = x.count
    BY <1>1, <1>2, <2>4 DEF ExecState
  <2> QED BY <2>5 DEF LoopEdgeOf
<1> QED BY <1>3, <1>4

-----------------------------------------------------------------------------
(* The engine.                                                             *)

(* The states a frame may be in: well typed, its return edge in place.     *)
GoodState(wf) == {x \in ExecState(wf) : NoOptionalBody => LoopEdgeOf(wf, x)}
GoodFrameOf(wf) ==
  [wf : {wf}, x : GoodState(wf), steps : Nat, ran : SUBSET StepIds(wf)]
GoodFrame == UNION {GoodFrameOf(wf) : wf \in Workflows}

EngineInv ==
  /\ frames \in Seq(GoodFrame) /\ frames # <<>>
  /\ Len(frames) > 1 => pc = "engine"
  /\ pc \in {"engine", "llm", "saga", "over", "crashed"}
  /\ effects \in Seq(Changes)
  /\ calls \in 0 .. MaxCalls

-----------------------------------------------------------------------------
(* The operations of the engine keep good states good.                     *)
LEMMA GoodInitial ==
  ASSUME NEW wf \in Workflows
  PROVE  InitialState(wf) \in GoodState(wf)
BY InitialStateType DEF GoodState, LoopEdgeOf, InitialState

LEMMA GoodAdvance ==
  ASSUME NEW wf \in Workflows, NEW x \in GoodState(wf), NEW ok \in BOOLEAN
  PROVE  Advance(wf, x, ok) \in GoodState(wf)
BY AdvanceType, EdgeAdvance DEF GoodState, LoopEdgeOf

LEMMA GoodAdvanceFailed ==
  ASSUME NEW wf \in Workflows, NEW x \in GoodState(wf)
  PROVE  AdvanceFailed(wf, x) \in GoodState(wf)
BY AdvanceFailedType, EdgeAdvanceFailed DEF GoodState, LoopEdgeOf

LEMMA GoodConditional ==
  ASSUME NEW wf \in Workflows, NEW x \in GoodState(wf), NEW holds \in BOOLEAN,
         Step(wf, x.cur).kind = "conditional"
  PROVE  ResolveConditional(wf, x, holds) \in GoodState(wf)
BY ResolveConditionalType, EdgeConditional DEF GoodState, LoopEdgeOf

LEMMA GoodLoop ==
  ASSUME NEW wf \in Workflows, NEW x \in GoodState(wf), NEW holds \in BOOLEAN,
         Step(wf, x.cur).kind = "loop"
  PROVE  ResolveLoop(wf, x, holds) \in GoodState(wf)
BY ResolveLoopType, EdgeLoop DEF GoodState

LEMMA GoodFastForward ==
  ASSUME NEW wf \in Workflows, NEW x \in GoodState(wf), NEW a
  PROVE  FastForward(wf, x, a) \in GoodState(wf)
BY FastForwardType, EdgeFastForward DEF GoodState

(* The fields no return edge depends on.                                   *)
LEMMA GoodMarks ==
  ASSUME NEW wf \in Workflows, NEW x \in GoodState(wf)
  PROVE  /\ [x EXCEPT !.raised = FALSE] \in GoodState(wf)
         /\ \A i \in StepIds(wf) :
              /\ [x EXCEPT !.failed = i, !.finished = TRUE] \in GoodState(wf)
              /\ [x EXCEPT !.raised = FALSE, !.failed = i, !.finished = TRUE]
                   \in GoodState(wf)
         /\ \A c \in Seq(Changes) : [x EXCEPT !.comps = c] \in GoodState(wf)
BY DEF GoodState, LoopEdgeOf, ExecState

LEMMA GoodSettle ==
  ASSUME NEW wf \in Workflows, NEW x \in GoodState(wf), NEW i \in StepIds(wf)
  PROVE  Settle(x, i) \in GoodState(wf)
BY GoodMarks DEF Settle

LEMMA GoodBroken ==
  ASSUME NEW wf \in Workflows, NEW x \in GoodState(wf)
  PROVE  Broken(x) \in GoodState(wf)
<1>1. x.cur \in StepIds(wf)
  BY DEF GoodState, ExecState
<1> QED BY <1>1, GoodMarks DEF Broken

-----------------------------------------------------------------------------
LEMMA FrameFacts ==
  ASSUME NEW f \in GoodFrame
  PROVE  /\ f.wf \in Workflows /\ f.x \in GoodState(f.wf) /\ f.x \in ExecState(f.wf)
         /\ f.x.cur \in StepIds(f.wf)
         /\ f.steps \in Nat /\ f.ran \subseteq StepIds(f.wf)
         /\ f \in FrameOf(f.wf)
         /\ NoOptionalBody => LoopEdgeOf(f.wf, f.x)
<1>1. PICK wf \in Workflows : f \in GoodFrameOf(wf)
  BY DEF GoodFrame
<1> QED BY <1>1 DEF GoodFrameOf, GoodState, ExecState, FrameOf

LEMMA FrameUpdate ==
  ASSUME NEW f \in GoodFrame, NEW x \in GoodState(f.wf),
         NEW n \in Nat, NEW r \in SUBSET StepIds(f.wf)
  PROVE  /\ [f EXCEPT !.x = x] \in GoodFrame
         /\ [f EXCEPT !.steps = n] \in GoodFrame
         /\ [f EXCEPT !.x = x, !.steps = n, !.ran = r] \in GoodFrame
<1>1. PICK wf \in Workflows : f \in GoodFrameOf(wf)
  BY DEF GoodFrame
<1>2. f.wf = wf
  BY <1>1 DEF GoodFrameOf
<1>3. GoodFrameOf(wf) \subseteq GoodFrame
  BY DEF GoodFrame
<1>4. /\ [f EXCEPT !.x = x] \in GoodFrameOf(wf)
      /\ [f EXCEPT !.steps = n] \in GoodFrameOf(wf)
      /\ [f EXCEPT !.x = x, !.steps = n, !.ran = r] \in GoodFrameOf(wf)
  BY <1>1, <1>2 DEF GoodFrameOf
<1> QED BY <1>3, <1>4

LEMMA NewFrameGood ==
  ASSUME NEW wf \in Workflows
  PROVE  NewFrame(wf) \in GoodFrame
<1>1. NewFrame(wf) \in GoodFrameOf(wf)
  BY GoodInitial DEF NewFrame, GoodFrameOf
<1> QED BY <1>1 DEF GoodFrame

LEMMA FrameAt ==
  ASSUME EngineInv
  PROVE  /\ Len(frames) \in Nat \ {0}
         /\ DOMAIN frames = 1 .. Len(frames)
         /\ \A k \in 1 .. Len(frames) : frames[k] \in GoodFrame
         /\ Root \in GoodFrame /\ Top \in GoodFrame
         /\ Top = frames[Len(frames)]
         /\ pc # "engine" => Len(frames) = 1
<1>1. frames \in Seq(GoodFrame) /\ frames # <<>>
  BY DEF EngineInv
<1>2. /\ Len(frames) \in Nat \ {0} /\ DOMAIN frames = 1 .. Len(frames)
      /\ \A k \in 1 .. Len(frames) : frames[k] \in GoodFrame
  BY <1>1, LenProperties, EmptySeq
<1>3. 1 \in 1 .. Len(frames) /\ Len(frames) \in 1 .. Len(frames)
  BY <1>2
<1>4. pc # "engine" => ~(Len(frames) > 1)
  BY DEF EngineInv
<1>5. pc # "engine" => Len(frames) = 1
  BY <1>2, <1>4
<1> QED BY <1>2, <1>3, <1>5 DEF Root, Top, Last

(* The frames after one of them changed.                                   *)
LEMMA SetFrame ==
  ASSUME EngineInv, NEW k \in 1 .. Len(frames), NEW f \in GoodFrame,
         frames' = [frames EXCEPT ![k] = f]
  PROVE  frames' \in Seq(GoodFrame) /\ frames' # <<>> /\ Len(frames') = Len(frames)
BY FrameAt, ExceptSeq DEF EngineInv

LEMMA InvRest ==
  ASSUME EngineInv,
         frames' \in Seq(GoodFrame), frames' # <<>>,
         Len(frames') > 1 => pc' = "engine",
         pc' \in {"engine", "llm", "saga", "over", "crashed"},
         effects' \in Seq(Changes), calls' \in 0 .. MaxCalls
  PROVE  EngineInv'
BY DEF EngineInv

-----------------------------------------------------------------------------
(* The step glue                                                           *)

LEMMA MoveTopFrame ==
  ASSUME EngineInv, NEW x \in GoodState(Top.wf), NEW executed \in BOOLEAN
  PROVE  [Top EXCEPT !.x = x, !.steps = Top.steps + 1,
                     !.ran = Top.ran \cup IF executed THEN {Top.x.cur} ELSE {}] \in GoodFrame
<1>1. /\ Top \in GoodFrame /\ Top.x.cur \in StepIds(Top.wf)
      /\ Top.ran \subseteq StepIds(Top.wf) /\ Top.steps \in Nat
  BY FrameAt, FrameFacts
<1> DEFINE r == Top.ran \cup IF executed THEN {Top.x.cur} ELSE {}
<1>2. r \in SUBSET StepIds(Top.wf) /\ Top.steps + 1 \in Nat
  BY <1>1
<1>3. \A k \in Nat, s \in SUBSET StepIds(Top.wf) :
        [Top EXCEPT !.x = x, !.steps = k, !.ran = s] \in GoodFrame
  BY <1>1, FrameUpdate
<1> QED BY <1>2, <1>3, Zenon

LEMMA MoveTopInv ==
  ASSUME EngineInv, pc = "engine",
         NEW x \in GoodState(Top.wf), NEW executed \in BOOLEAN,
         MoveTop(x, executed),
         effects' \in Seq(Changes), UNCHANGED <<pc, calls>>
  PROVE  EngineInv'
<1>1. Len(frames) \in 1 .. Len(frames)
  BY FrameAt
<1> DEFINE f == [Top EXCEPT !.x = x, !.steps = Top.steps + 1,
                            !.ran = Top.ran \cup IF executed THEN {Top.x.cur} ELSE {}]
<1>2. f \in GoodFrame
  BY MoveTopFrame
<1>3. frames' = [frames EXCEPT ![Len(frames)] = f]
  BY DEF MoveTop
<1> HIDE DEF f
<1>4. frames' \in Seq(GoodFrame) /\ frames' # <<>>
  BY <1>1, <1>2, <1>3, SetFrame
<1> QED BY <1>4 DEF EngineInv

LEMMA TopFacts ==
  ASSUME EngineInv
  PROVE  /\ Top.wf \in Workflows /\ Top.x \in GoodState(Top.wf)
         /\ Top.x.cur \in StepIds(Top.wf)
         /\ <<Top.wf, Top.x.cur>> \in Changes
BY FrameAt, FrameFacts, ChangeOf

LEMMA PerformsType ==
  ASSUME EngineInv, NEW ok, Performs(ok)
  PROVE  effects' \in Seq(Changes)
BY TopFacts, AppendProperties DEF Performs, EngineInv

LEMMA DeterministicInv ==
  ASSUME EngineInv, ExecDeterministic
  PROVE  EngineInv'
<1>1. PICK ok \in BOOLEAN :
        LET y == Advance(Top.wf, Top.x, ok) IN
        /\ MoveTop(IF y.raised
                     THEN AdvanceFailed(Top.wf, [y EXCEPT !.raised = FALSE])
                     ELSE y, ok)
        /\ Performs(ok)
  BY DEF ExecDeterministic
<1> DEFINE y == Advance(Top.wf, Top.x, ok)
           z == IF y.raised THEN AdvanceFailed(Top.wf, [y EXCEPT !.raised = FALSE])
                ELSE y
<1>2. y \in GoodState(Top.wf)
  BY TopFacts, GoodAdvance
<1>3. z \in GoodState(Top.wf)
  BY <1>2, TopFacts, GoodMarks, GoodAdvanceFailed
<1>4. MoveTop(z, ok) /\ effects' \in Seq(Changes)
  BY <1>1, PerformsType
<1>5. pc = "engine" /\ UNCHANGED <<pc, calls>>
  BY DEF ExecDeterministic, OnStep
<1> HIDE DEF z
<1> QED BY <1>3, <1>4, <1>5, MoveTopInv

LEMMA ToolCallInv ==
  ASSUME EngineInv, ExecToolCall
  PROVE  EngineInv'
<1>1. PICK ok \in BOOLEAN :
        /\ MoveTop(Settle(Advance(Top.wf, Top.x, ok), Top.x.cur), ok)
        /\ Performs(ok)
  BY DEF ExecToolCall
<1>2. Settle(Advance(Top.wf, Top.x, ok), Top.x.cur) \in GoodState(Top.wf)
  BY TopFacts, GoodAdvance, GoodSettle
<1>3. pc = "engine" /\ UNCHANGED <<pc, calls>> /\ effects' \in Seq(Changes)
  BY <1>1, PerformsType DEF ExecToolCall, OnStep
<1> QED BY <1>1, <1>2, <1>3, MoveTopInv

LEMMA ConditionalInv ==
  ASSUME EngineInv, Conditional
  PROVE  EngineInv'
<1>1. /\ pc = "engine" /\ UNCHANGED <<pc, effects, calls>>
      /\ Step(Top.wf, Top.x.cur).kind = "conditional"
  BY DEF Conditional, OnStep, TopStep
<1>2. effects' \in Seq(Changes)
  BY <1>1 DEF EngineInv
<1>3. CASE MoveTop(Broken(Top.x), FALSE)
  BY <1>1, <1>2, <1>3, TopFacts, GoodBroken, MoveTopInv
<1>4. ASSUME NEW holds \in BOOLEAN,
             MoveTop(Settle(ResolveConditional(Top.wf, Top.x, holds), Top.x.cur), TRUE)
      PROVE  EngineInv'
  <2>1. Settle(ResolveConditional(Top.wf, Top.x, holds), Top.x.cur) \in GoodState(Top.wf)
    BY <1>1, TopFacts, GoodConditional, GoodSettle
  <2> QED BY <1>1, <1>2, <1>4, <2>1, MoveTopInv
<1> QED BY <1>3, <1>4 DEF Conditional

LEMMA LoopInv ==
  ASSUME EngineInv, Loop
  PROVE  EngineInv'
<1>1. /\ pc = "engine" /\ UNCHANGED <<pc, effects, calls>>
      /\ Step(Top.wf, Top.x.cur).kind = "loop"
  BY DEF Loop, OnStep, TopStep
<1>2. effects' \in Seq(Changes)
  BY <1>1 DEF EngineInv
<1>3. CASE MoveTop(Broken(Top.x), FALSE)
  BY <1>1, <1>2, <1>3, TopFacts, GoodBroken, MoveTopInv
<1>4. ASSUME NEW holds \in BOOLEAN,
             MoveTop(Settle(ResolveLoop(Top.wf, Top.x, holds), Top.x.cur), TRUE)
      PROVE  EngineInv'
  <2>1. Settle(ResolveLoop(Top.wf, Top.x, holds), Top.x.cur) \in GoodState(Top.wf)
    BY <1>1, TopFacts, GoodLoop, GoodSettle
  <2> QED BY <1>1, <1>2, <1>4, <2>1, MoveTopInv
<1> QED BY <1>3, <1>4 DEF Loop

LEMMA EnterInv ==
  ASSUME EngineInv, EnterSubWorkflow
  PROVE  EngineInv'
<1>1. pc = "engine" /\ UNCHANGED <<pc, effects, calls>>
  BY DEF EnterSubWorkflow, OnStep
<1>2. CASE MoveTop(AdvanceFailed(Top.wf, Top.x), FALSE)
  BY <1>1, <1>2, TopFacts, GoodAdvanceFailed, MoveTopInv DEF EngineInv
<1>3. CASE TopStep.sub \in Workflows /\ frames' = Append(frames, NewFrame(TopStep.sub))
  <2>1. frames' \in Seq(GoodFrame) /\ frames' # <<>>
    BY <1>3, NewFrameGood, AppendProperties DEF EngineInv
  <2> QED BY <1>1, <2>1 DEF EngineInv
<1> QED BY <1>2, <1>3 DEF EnterSubWorkflow

LEMMA LeaveInv ==
  ASSUME EngineInv, LeaveSubWorkflow
  PROVE  EngineInv'
<1> DEFINE n == Len(frames)
           parent == frames[n - 1]
           merged == Merged(parent.x, Top.x)
           ok == Top.x.finished /\ Top.x.failed = 0
           i == parent.x.cur
           f == [parent EXCEPT !.x = Settle(Advance(parent.wf, merged, ok), i),
                               !.steps = parent.steps + 1,
                               !.ran = parent.ran \cup IF ok THEN {i} ELSE {}]
<1>1. n \in Nat /\ n > 1 /\ pc = "engine" /\ UNCHANGED <<pc, effects, calls>>
  BY FrameAt DEF LeaveSubWorkflow
<1>2. parent \in GoodFrame /\ Top \in GoodFrame
  BY <1>1, FrameAt
<1>3. /\ parent.wf \in Workflows /\ parent.x \in GoodState(parent.wf)
      /\ i \in StepIds(parent.wf) /\ parent.steps \in Nat
      /\ parent.ran \subseteq StepIds(parent.wf)
      /\ parent.x \in ExecState(parent.wf) /\ Top.x \in ExecState(Top.wf)
  BY <1>2, FrameFacts
<1>4. merged \in GoodState(parent.wf)
  <2>1. parent.x.comps \o Top.x.comps \in Seq(Changes)
    BY <1>3, ConcatProperties DEF ExecState
  <2> QED BY <1>3, <2>1, GoodMarks DEF Merged
<1>5. f \in GoodFrame
  <2>1. Settle(Advance(parent.wf, merged, ok), i) \in GoodState(parent.wf)
    BY <1>3, <1>4, GoodAdvance, GoodSettle
  <2>2. (parent.ran \cup IF ok THEN {i} ELSE {}) \in SUBSET StepIds(parent.wf)
    BY <1>3
  <2>3. parent.steps + 1 \in Nat
    BY <1>3
  <2>4. \A y \in GoodState(parent.wf), k \in Nat, r \in SUBSET StepIds(parent.wf) :
          [parent EXCEPT !.x = y, !.steps = k, !.ran = r] \in GoodFrame
    BY <1>2, FrameUpdate
  <2> QED BY <2>1, <2>2, <2>3, <2>4, Zenon
<1>6. Front(frames) \in Seq(GoodFrame) /\ Len(Front(frames)) = n - 1
      /\ Front(frames)[n - 1] = parent
  BY <1>1, FrameAt, SubSeqProperties DEF Front, EngineInv
<1>7. frames' = [Front(frames) EXCEPT ![n - 1] = f]
  BY <1>6 DEF LeaveSubWorkflow
<1> HIDE DEF f
<1>8. frames' \in Seq(GoodFrame) /\ Len(frames') = n - 1
  BY <1>1, <1>5, <1>6, <1>7, ExceptSeq
<1>9. frames' # <<>>
  BY <1>1, <1>8
<1> QED BY <1>1, <1>8, <1>9 DEF EngineInv

LEMMA ExhaustInv ==
  ASSUME EngineInv, ExhaustBudget
  PROVE  EngineInv'
<1>1. Top \in GoodFrame /\ Top = frames[Len(frames)] /\ Len(frames) \in 1 .. Len(frames)
  BY FrameAt
<1>2. [Top EXCEPT !.x = Broken(Top.x)] \in GoodFrame
  BY <1>1, TopFacts, GoodBroken, FrameUpdate, FrameFacts
<1>3. frames' = [frames EXCEPT ![Len(frames)] = [Top EXCEPT !.x = Broken(Top.x)]]
  BY <1>1 DEF ExhaustBudget
<1>4. frames' \in Seq(GoodFrame) /\ frames' # <<>>
  BY <1>1, <1>2, <1>3, SetFrame
<1> QED BY <1>4 DEF EngineInv, ExhaustBudget

LEMMA EngineStepInv ==
  ASSUME EngineInv, EngineStep
  PROVE  EngineInv'
<1>1. CASE YieldToModel
  <2>1. UNCHANGED <<frames, effects, calls>> /\ pc' = "llm" /\ ~(Len(frames) > 1)
    BY <1>1 DEF YieldToModel
  <2> QED BY <2>1 DEF EngineInv
<1> QED
  BY <1>1, DeterministicInv, ToolCallInv, ConditionalInv, LoopInv, EnterInv,
     LeaveInv, ExhaustInv DEF EngineStep

-----------------------------------------------------------------------------
(* The main loop's operations on the workflow, and the end of the run      *)

LEMMA RootFacts ==
  ASSUME EngineInv, pc # "engine"
  PROVE  /\ Len(frames) = 1 /\ Root \in GoodFrame
         /\ Root.wf \in Workflows /\ Root.x \in GoodState(Root.wf)
         /\ Root.x.cur \in StepIds(Root.wf) /\ <<Root.wf, Root.x.cur>> \in Changes
         /\ Root.x.comps \in Seq(Changes)
BY FrameAt, FrameFacts, ChangeOf DEF ExecState

LEMMA SetRootFrames ==
  ASSUME EngineInv, pc # "engine", NEW x \in GoodState(Root.wf), SetRoot(x)
  PROVE  /\ frames' \in Seq(GoodFrame) /\ frames' # <<>> /\ Len(frames') = 1
         /\ Root' = [Root EXCEPT !.x = x]
<1>1. [Root EXCEPT !.x = x] \in GoodFrame
  BY RootFacts, FrameUpdate, FrameFacts
<1>2. frames' = [frames EXCEPT ![1] = [Root EXCEPT !.x = x]]
  BY DEF SetRoot, Root
<1>3. 1 \in 1 .. Len(frames) /\ Len(frames) = 1
  <2>1. Len(frames) = 1
    BY RootFacts, Zenon
  <2> QED BY <2>1
<1>4. frames' \in Seq(GoodFrame) /\ frames' # <<>> /\ Len(frames') = 1
  BY <1>1, <1>2, <1>3, SetFrame
<1>5. frames'[1] = [Root EXCEPT !.x = x]
  BY <1>2, <1>3, FrameAt
<1> QED BY <1>4, <1>5 DEF Root

LEMMA SetRootInv ==
  ASSUME EngineInv, pc # "engine", NEW x \in GoodState(Root.wf), SetRoot(x),
         pc' \in {"llm", "saga", "over", "crashed"},
         effects' \in Seq(Changes), calls' \in 0 .. MaxCalls
  PROVE  EngineInv'
<1>1. frames' \in Seq(GoodFrame) /\ frames' # <<>> /\ Len(frames') = 1
  BY SetRootFrames, Zenon
<1>2. ~(Len(frames') > 1)
  BY <1>1
<1> QED BY <1>1, <1>2 DEF EngineInv

LEMMA ModelAdvancesInv ==
  ASSUME EngineInv, pc = "llm", NEW ok \in BOOLEAN, ModelAdvances(ok),
         effects' \in Seq(Changes), calls' = calls + 1, calls < MaxCalls
  PROVE  EngineInv'
<1> DEFINE y == Advance(Root.wf, Root.x, ok)
<1>1. [y EXCEPT !.raised = FALSE] \in GoodState(Root.wf)
  BY RootFacts, GoodAdvance, GoodMarks
<1>2. SetRoot([y EXCEPT !.raised = FALSE]) /\ pc' \in {"llm", "crashed"}
  BY DEF ModelAdvances
<1>3. calls' \in 0 .. MaxCalls
  BY EngineAssumption DEF EngineInv
<1> QED BY <1>1, <1>2, <1>3, SetRootInv

LEMMA ModelCallsInv ==
  ASSUME EngineInv, NEW ok \in BOOLEAN, NEW wrote \in BOOLEAN, ModelCalls(ok, wrote)
  PROVE  EngineInv'
<1>1. pc = "llm" /\ ModelAdvances(ok) /\ calls' = calls + 1 /\ calls < MaxCalls
  BY DEF ModelCalls
<1>2. effects' \in Seq(Changes)
  BY <1>1, RootFacts, AppendProperties DEF ModelCalls, EngineInv
<1> QED BY <1>1, <1>2, ModelAdvancesInv

LEMMA ModelSkipsInv ==
  ASSUME EngineInv, ModelSkips
  PROVE  EngineInv'
<1>1. /\ pc = "llm" /\ ModelAdvances(TRUE) /\ calls' = calls + 1 /\ calls < MaxCalls
      /\ effects' \in Seq(Changes)
  BY DEF ModelSkips, EngineInv
<1> QED BY <1>1, ModelAdvancesInv

LEMMA FastForwardInv ==
  ASSUME EngineInv, NEW a, ModelFastForwards(a)
  PROVE  EngineInv'
<1>1. FastForward(Root.wf, Root.x, a) \in GoodState(Root.wf)
  BY RootFacts, GoodFastForward DEF ModelFastForwards
<1>2. /\ pc = "llm" /\ SetRoot(FastForward(Root.wf, Root.x, a))
      /\ UNCHANGED <<pc, effects, calls>>
  BY DEF ModelFastForwards
<1>3. effects' \in Seq(Changes) /\ calls' \in 0 .. MaxCalls
  BY <1>2 DEF EngineInv
<1> QED BY <1>1, <1>2, <1>3, SetRootInv

LEMMA EngineRunsInv ==
  ASSUME EngineInv, EngineRuns
  PROVE  EngineInv'
<1>1. pc = "llm" /\ frames' = [frames EXCEPT ![1].steps = 0] /\ pc' = "engine"
      /\ UNCHANGED <<effects, calls>>
  BY DEF EngineRuns
<1>2. [Root EXCEPT !.steps = 0] \in GoodFrame
  BY <1>1, RootFacts, FrameUpdate, FrameFacts
<1>3. frames' = [frames EXCEPT ![1] = [Root EXCEPT !.steps = 0]]
  BY <1>1 DEF Root
<1>4. 1 \in 1 .. Len(frames)
  BY FrameAt
<1>5. frames' \in Seq(GoodFrame) /\ frames' # <<>>
  BY <1>2, <1>3, <1>4, SetFrame
<1> QED BY <1>1, <1>5 DEF EngineInv

LEMMA RunEndsInv ==
  ASSUME EngineInv, RunEnds
  PROVE  EngineInv'
<1>1. pc = "llm" /\ UNCHANGED <<frames, calls>> /\ pc' \in {"saga", "over"}
      /\ effects' \in {<<>>, effects}
  BY DEF RunEnds
<1>2. Len(frames) = 1 /\ pc # "engine"
  <2>1. pc # "engine"
    BY <1>1
  <2> QED BY <2>1, RootFacts, Zenon
<1>3. ~(Len(frames) > 1) /\ <<>> \in Seq(Changes)
  BY <1>2
<1> QED BY <1>1, <1>3 DEF EngineInv

(* Undoing a change leaves a sequence of changes.                          *)
LEMMA ReverseType ==
  ASSUME NEW S, NEW s \in Seq(S)
  PROVE  Reverse(s) \in Seq(S)
<1>1. Len(s) \in Nat /\ \A i \in 1 .. Len(s) : s[i] \in S
  BY LenProperties, ElementOfSeq
<1>2. \A i \in 1 .. Len(s) : (Len(s) - i) + 1 \in 1 .. Len(s)
  BY <1>1
<1> QED BY <1>1, <1>2 DEF Reverse

LEMMA RemoveFirstType ==
  ASSUME NEW S, NEW s \in Seq(S), NEW e
  PROVE  RemoveFirst(s, e) \in Seq(S)
<1> DEFINE I == {i \in 1 .. Len(s) : s[i] = e}
<1> SUFFICES ASSUME NEW i \in 1 .. Len(s), s[i] = e
             PROVE  RemoveAt(s, SelectInSeq(s, LAMBDA v : v = e)) \in Seq(S)
  BY DEF RemoveFirst
<1>1. Len(s) \in Nat /\ \A k \in 1 .. Len(s) : s[k] \in S
  BY LenProperties, ElementOfSeq
<1>2. I \in SUBSET Nat /\ I # {}
  BY <1>1
<1>3. PICK m \in I : \A k \in I : m <= k
  BY <1>2, Smallest
<1>4. SelectInSeq(s, LAMBDA v : v = e) \in 1 .. Len(s)
  BY <1>2, <1>3 DEF SelectInSeq, Min
<1> DEFINE j == SelectInSeq(s, LAMBDA v : v = e)
<1> HIDE DEF j
<1>5. j \in 1 .. Len(s)
  BY <1>4 DEF j
<1>6. SubSeq(s, 1, j - 1) \in Seq(S) /\ SubSeq(s, j + 1, Len(s)) \in Seq(S)
  <2>1. ASSUME NEW a \in 1 .. Len(s) + 1, NEW b \in 0 .. Len(s)
        PROVE  SubSeq(s, a, b) \in Seq(S)
    <3>1. a \in Int /\ b \in Int /\ \A k \in a .. b : s[k] \in S
      BY <1>1
    <3> QED BY <3>1, SubSeqProperties
  <2>2. /\ 1 \in 1 .. Len(s) + 1 /\ j - 1 \in 0 .. Len(s)
        /\ j + 1 \in 1 .. Len(s) + 1 /\ Len(s) \in 0 .. Len(s)
    BY <1>1, <1>5
  <2> QED BY <2>1, <2>2
<1> QED BY <1>6, ConcatProperties DEF RemoveAt, j

LEMMA SagaShrinks ==
  ASSUME EngineInv, pc = "saga", Root.x.comps # <<>>
  PROVE  SagaOrder(Tail(SagaOrder(Root.x.comps))) \in Seq(Changes)
<1>1. Reverse(Root.x.comps) \in Seq(Changes) /\ Reverse(Root.x.comps) # <<>>
  <2>1. Len(Root.x.comps) \in Nat \ {0} /\ Root.x.comps \in Seq(Changes)
    BY RootFacts, EmptySeq
  <2>2. DOMAIN Reverse(Root.x.comps) = 1 .. Len(Root.x.comps)
    BY DEF Reverse
  <2>3. 1 \in DOMAIN Reverse(Root.x.comps) /\ DOMAIN <<>> = {}
    BY <2>1, <2>2
  <2> QED BY <2>1, <2>3, ReverseType
<1>2. Tail(Reverse(Root.x.comps)) \in Seq(Changes)
  BY <1>1, HeadTailProperties
<1> QED BY <1>2, ReverseType DEF SagaOrder

LEMMA CompensateInv ==
  ASSUME EngineInv, Compensate
  PROVE  EngineInv'
<1>1. pc = "saga" /\ pc' \in {"over", "saga"} /\ calls' = calls /\ Root.x.comps # <<>>
  BY DEF Compensate
<1>2. effects' \in Seq(Changes)
  <2>1. \A c : Reverse(RemoveFirst(Reverse(effects), c)) \in Seq(Changes)
    BY ReverseType, RemoveFirstType DEF EngineInv
  <2> QED BY <2>1 DEF Compensate, EngineInv
<1> DEFINE left == SagaOrder(Tail(SagaOrder(Root.x.comps)))
<1>3. left \in Seq(Changes)
  BY <1>1, SagaShrinks
<1>4. [Root.x EXCEPT !.comps = left] \in GoodState(Root.wf)
  BY <1>1, <1>3, RootFacts, GoodMarks
<1>5. SetRoot([Root.x EXCEPT !.comps = left])
  BY DEF Compensate
<1>6. calls' \in 0 .. MaxCalls
  BY <1>1 DEF EngineInv
<1> HIDE DEF left
<1> QED BY <1>1, <1>2, <1>4, <1>5, <1>6, SetRootInv

-----------------------------------------------------------------------------
LEMMA EngineInvInit == EngineInit => EngineInv
<1> SUFFICES ASSUME EngineInit PROVE EngineInv
  OBVIOUS
<1>1. PICK wf \in Workflows : frames = <<NewFrame(wf)>>
  BY DEF EngineInit
<1>2. NewFrame(wf) \in GoodFrame
  BY NewFrameGood
<1>3. frames \in Seq(GoodFrame) /\ frames # <<>> /\ ~(Len(frames) > 1)
  BY <1>1, <1>2
<1>4. <<>> \in Seq(Changes) /\ 0 \in 0 .. MaxCalls
  BY EngineAssumption
<1> QED BY <1>3, <1>4 DEF EngineInit, EngineInv

LEMMA EngineNextInv == EngineInv /\ [EngineNext]_engineVars => EngineInv'
<1> SUFFICES ASSUME EngineInv, [EngineNext]_engineVars PROVE EngineInv'
  OBVIOUS
<1>1. CASE UNCHANGED engineVars
  BY <1>1 DEF engineVars, EngineInv
<1>2. CASE Ended
  BY <1>2 DEF Ended, engineVars, EngineInv
<1> QED
  BY <1>1, <1>2, EngineStepInv, ModelCallsInv, ModelSkipsInv, FastForwardInv,
     EngineRunsInv, RunEndsInv, CompensateInv DEF EngineNext

LEMMA EngineInvImplies == EngineInv => EngineTypeOK /\ LoopEdge
<1> SUFFICES ASSUME EngineInv PROVE EngineTypeOK /\ LoopEdge
  OBVIOUS
<1>1. /\ Len(frames) \in Nat \ {0} /\ DOMAIN frames = 1 .. Len(frames)
      /\ \A k \in DOMAIN frames : frames[k] \in GoodFrame
  BY FrameAt
<1>2. EngineTypeOK
  BY <1>1, FrameFacts DEF EngineTypeOK, EngineInv
<1>3. LoopEdge
  BY <1>1, FrameFacts DEF LoopEdge
<1> QED BY <1>2, <1>3

(* The execution state of every nested workflow keeps its type, whatever   *)
(* recipes were loaded and however their steps end.                        *)
THEOREM EngineTypeCorrect == EngineSpec => []EngineTypeOK
BY EngineInvInit, EngineNextInv, EngineInvImplies, PTL DEF EngineSpec

(* A return edge always belongs to the loop the cursor is in, for every    *)
(* recipe without an optional loop body.                                   *)
THEOREM LoopEdgeHolds == EngineSpec => []LoopEdge
BY EngineInvInit, EngineNextInv, EngineInvImplies, PTL DEF EngineSpec

-----------------------------------------------------------------------------
(* What an engine-driven step completes, the engine executed: completed    *)
(* grows by the cursor's step only, and only when the operation ran it.    *)
RanFrame(f) == \A i \in f.x.completed : Step(f.wf, i).kind # "llm" => i \in f.ran
RanInv == \A k \in DOMAIN frames : RanFrame(frames[k])

LEMMA CompletedByAdvanceAfter ==
  ASSUME NEW wf, NEW x \in ExecState(wf), NEW i \in StepIds(wf)
  PROVE  AdvanceAfter(wf, x, i).completed = x.completed
BY DEF AdvanceAfter, ExecState

LEMMA CompletedByFailure ==
  ASSUME NEW wf \in Workflows, NEW x \in ExecState(wf)
  PROVE  AdvanceFailed(wf, x).completed = x.completed
BY DEF AdvanceFailed, AbortLoop, ExecState

LEMMA CompletedByAdvance ==
  ASSUME NEW wf \in Workflows, NEW x \in ExecState(wf), NEW ok \in BOOLEAN
  PROVE  Advance(wf, x, ok).completed = x.completed \cup IF ok THEN {x.cur} ELSE {}
<1>1. AdvanceFailed(wf, x).completed = x.completed
  BY CompletedByFailure
<1>2. AdvanceOk(wf, x).completed = x.completed \cup {x.cur}
  <2> DEFINE c == IF Step(wf, x.cur).comp
                    THEN Append(Complete(x).comps, <<wf, x.cur>>) ELSE Complete(x).comps
             done == [Complete(x) EXCEPT !.comps = c]
  <2>1. x.cur \in StepIds(wf) /\ Complete(x) \in ExecState(wf)
        /\ Complete(x).completed = x.completed \cup {x.cur}
    BY CompleteType DEF Complete, ExecState
  <2>2. c \in Seq(Changes)
    BY <2>1, ChangeOf, AppendProperties DEF ExecState
  <2> HIDE DEF c
  <2>3. done \in ExecState(wf) /\ done.completed = x.completed \cup {x.cur}
    BY <2>1, <2>2 DEF ExecState
  <2>4. [done EXCEPT !.cur = Last(x.ret), !.ret = Front(x.ret)].completed
          = x.completed \cup {x.cur}
    BY <2>3 DEF ExecState
  <2>5. AdvanceAfter(wf, done, x.cur).completed = x.completed \cup {x.cur}
    <3> HIDE DEF done
    <3> QED BY <2>1, <2>3, CompletedByAdvanceAfter
  <2>6. AdvanceOk(wf, x) = IF x.ret # <<>>
          THEN [done EXCEPT !.cur = Last(x.ret), !.ret = Front(x.ret)]
          ELSE AdvanceAfter(wf, done, x.cur)
    <3>1. done = [Complete(x) EXCEPT
                    !.comps = IF Step(wf, x.cur).comp
                                THEN Append(@, <<wf, x.cur>>) ELSE @]
      BY DEF c
    <3> QED BY <3>1, Zenon DEF AdvanceOk
  <2> HIDE DEF done
  <2> QED BY <2>4, <2>5, <2>6
<1> QED BY <1>1, <1>2 DEF Advance

LEMMA CompletedByControl ==
  ASSUME NEW wf \in Workflows, NEW x \in ExecState(wf), NEW holds \in BOOLEAN
  PROVE  /\ Step(wf, x.cur).kind = "conditional" =>
              ResolveConditional(wf, x, holds).completed \subseteq x.completed \cup {x.cur}
         /\ Step(wf, x.cur).kind = "loop" =>
              ResolveLoop(wf, x, holds).completed \subseteq x.completed \cup {x.cur}
<1>1. x.cur \in StepIds(wf) /\ Complete(x) \in ExecState(wf)
      /\ Complete(x).completed = x.completed \cup {x.cur}
  BY CompleteType DEF Complete, ExecState
<1>2. \A j : [Complete(x) EXCEPT !.cur = j].completed = x.completed \cup {x.cur}
  BY <1>1 DEF ExecState
<1>3. AdvanceAfter(wf, Complete(x), x.cur).completed = x.completed \cup {x.cur}
  BY <1>1, CompletedByAdvanceAfter
<1>4. ASSUME Step(wf, x.cur).kind = "loop"
      PROVE  ResolveLoop(wf, x, holds).completed \subseteq x.completed \cup {x.cur}
  <2>1. Step(wf, x.cur).body \in StepIds(wf)
    BY <1>1, <1>4, StepFacts
  <2>2. /\ [Complete(x) EXCEPT !.count[x.cur] = 0] \in ExecState(wf)
        /\ [Complete(x) EXCEPT !.count[x.cur] = 0].completed = x.completed \cup {x.cur}
    BY <1>1 DEF ExecState
  <2>3. AdvanceAfter(wf, [Complete(x) EXCEPT !.count[x.cur] = 0],
                     Step(wf, x.cur).body).completed = x.completed \cup {x.cur}
    BY <2>1, <2>2, CompletedByAdvanceAfter
  <2>4. \A m, r, j : [x EXCEPT !.count[x.cur] = m, !.ret = r, !.cur = j].completed
                       = x.completed
    BY DEF ExecState
  <2> QED BY <2>3, <2>4 DEF ResolveLoop
<1> QED BY <1>2, <1>3, <1>4 DEF ResolveConditional

LEMMA CompletedBySettle ==
  ASSUME NEW wf, NEW x \in ExecState(wf), NEW i
  PROVE  Settle(x, i).completed = x.completed /\ Broken(x).completed = x.completed
         /\ [x EXCEPT !.raised = FALSE].completed = x.completed
BY DEF Settle, Broken, ExecState

LEMMA SetFrameRan ==
  ASSUME EngineInv, RanInv, NEW k \in 1 .. Len(frames), NEW f \in GoodFrame,
         RanFrame(f), frames' = [frames EXCEPT ![k] = f]
  PROVE  RanInv'
<1>1. DOMAIN frames' = DOMAIN frames /\ DOMAIN frames = 1 .. Len(frames)
  BY FrameAt
<1>2. \A j \in DOMAIN frames : frames'[j] = IF j = k THEN f ELSE frames[j]
  BY <1>1
<1> QED BY <1>1, <1>2 DEF RanInv, RanFrame

LEMMA MoveTopRan ==
  ASSUME EngineInv, RanInv, NEW x \in GoodState(Top.wf), NEW executed \in BOOLEAN,
         MoveTop(x, executed),
         x.completed \subseteq Top.x.completed \cup IF executed THEN {Top.x.cur} ELSE {}
  PROVE  RanInv'
<1>1. /\ Top \in GoodFrame /\ Top = frames[Len(frames)]
      /\ Len(frames) \in 1 .. Len(frames) /\ DOMAIN frames = 1 .. Len(frames)
  BY FrameAt
<1> DEFINE r == Top.ran \cup IF executed THEN {Top.x.cur} ELSE {}
           f == [Top EXCEPT !.x = x, !.steps = Top.steps + 1, !.ran = r]
<1>2. f \in GoodFrame
  <2>1. Top.steps + 1 \in Nat /\ r \in SUBSET StepIds(Top.wf)
    BY <1>1, FrameFacts
  <2>2. \A k \in Nat, s \in SUBSET StepIds(Top.wf) :
          [Top EXCEPT !.x = x, !.steps = k, !.ran = s] \in GoodFrame
    BY <1>1, FrameUpdate
  <2> QED BY <2>1, <2>2, Zenon
<1>3. RanFrame(f)
  <2>1. f.x = x /\ f.ran = r /\ f.wf = Top.wf
    BY <1>1, FrameFacts DEF FrameOf
  <2>2. RanFrame(Top)
    BY <1>1 DEF RanInv
  <2> QED BY <2>1, <2>2 DEF RanFrame
<1>4. frames' = [frames EXCEPT ![Len(frames)] = f]
  BY DEF MoveTop
<1> HIDE DEF f
<1> QED BY <1>1, <1>2, <1>3, <1>4, SetFrameRan

LEMMA DeterministicRan ==
  ASSUME EngineInv, RanInv, ExecDeterministic
  PROVE  RanInv'
<1>1. PICK ok \in BOOLEAN :
        LET y == Advance(Top.wf, Top.x, ok) IN
        MoveTop(IF y.raised
                  THEN AdvanceFailed(Top.wf, [y EXCEPT !.raised = FALSE])
                  ELSE y, ok)
  BY DEF ExecDeterministic
<1> DEFINE y == Advance(Top.wf, Top.x, ok)
           u == [y EXCEPT !.raised = FALSE]
           z == IF y.raised THEN AdvanceFailed(Top.wf, u) ELSE y
<1>2. y \in GoodState(Top.wf) /\ u \in GoodState(Top.wf)
  BY TopFacts, GoodAdvance, GoodMarks
<1>3. z \in GoodState(Top.wf)
  BY <1>2, TopFacts, GoodAdvanceFailed
<1>4. y.completed = Top.x.completed \cup IF ok THEN {Top.x.cur} ELSE {}
  BY TopFacts, CompletedByAdvance DEF GoodState
<1>5. AdvanceFailed(Top.wf, u).completed = y.completed
  <2> HIDE DEF y
  <2>1. u.completed = y.completed
    BY <1>2, CompletedBySettle DEF GoodState
  <2> HIDE DEF u
  <2> QED BY <1>2, <2>1, TopFacts, CompletedByFailure DEF GoodState
<1>6. MoveTop(z, ok)
  BY <1>1
<1> HIDE DEF y, u
<1>7. z.completed = Top.x.completed \cup IF ok THEN {Top.x.cur} ELSE {}
  BY <1>4, <1>5
<1> HIDE DEF z
<1> QED BY <1>3, <1>6, <1>7, MoveTopRan

LEMMA ToolCallRan ==
  ASSUME EngineInv, RanInv, ExecToolCall
  PROVE  RanInv'
<1>1. PICK ok \in BOOLEAN :
        MoveTop(Settle(Advance(Top.wf, Top.x, ok), Top.x.cur), ok)
  BY DEF ExecToolCall
<1>2. /\ Advance(Top.wf, Top.x, ok) \in GoodState(Top.wf)
      /\ Settle(Advance(Top.wf, Top.x, ok), Top.x.cur) \in GoodState(Top.wf)
  BY TopFacts, GoodAdvance, GoodSettle
<1>3. Settle(Advance(Top.wf, Top.x, ok), Top.x.cur).completed
        = Top.x.completed \cup IF ok THEN {Top.x.cur} ELSE {}
  BY <1>2, TopFacts, CompletedByAdvance, CompletedBySettle DEF GoodState
<1> QED BY <1>1, <1>2, <1>3, MoveTopRan

LEMMA BrokenRan ==
  ASSUME EngineInv, RanInv, MoveTop(Broken(Top.x), FALSE)
  PROVE  RanInv'
<1>1. Broken(Top.x) \in GoodState(Top.wf) /\ Broken(Top.x).completed = Top.x.completed
  BY TopFacts, GoodBroken, CompletedBySettle DEF GoodState
<1> QED BY <1>1, MoveTopRan

LEMMA ControlRan ==
  ASSUME EngineInv, RanInv, Conditional \/ Loop
  PROVE  RanInv'
<1>1. \/ Conditional /\ Step(Top.wf, Top.x.cur).kind = "conditional"
      \/ Loop /\ Step(Top.wf, Top.x.cur).kind = "loop"
  BY DEF Conditional, Loop, OnStep, TopStep
<1>2. ASSUME NEW y \in GoodState(Top.wf), MoveTop(Settle(y, Top.x.cur), TRUE),
             y.completed \subseteq Top.x.completed \cup {Top.x.cur}
      PROVE  RanInv'
  <2>1. /\ Settle(y, Top.x.cur) \in GoodState(Top.wf)
        /\ Settle(y, Top.x.cur).completed = y.completed
    BY TopFacts, GoodSettle, CompletedBySettle DEF GoodState
  <2> QED BY <1>2, <2>1, MoveTopRan
<1>3. ASSUME NEW holds \in BOOLEAN, Step(Top.wf, Top.x.cur).kind = "conditional",
             MoveTop(Settle(ResolveConditional(Top.wf, Top.x, holds), Top.x.cur), TRUE)
      PROVE  RanInv'
  <2>1. /\ ResolveConditional(Top.wf, Top.x, holds) \in GoodState(Top.wf)
        /\ ResolveConditional(Top.wf, Top.x, holds).completed
             \subseteq Top.x.completed \cup {Top.x.cur}
    BY <1>3, TopFacts, GoodConditional, CompletedByControl DEF GoodState
  <2> QED BY <1>2, <1>3, <2>1
<1>4. ASSUME NEW holds \in BOOLEAN, Step(Top.wf, Top.x.cur).kind = "loop",
             MoveTop(Settle(ResolveLoop(Top.wf, Top.x, holds), Top.x.cur), TRUE)
      PROVE  RanInv'
  <2>1. /\ ResolveLoop(Top.wf, Top.x, holds) \in GoodState(Top.wf)
        /\ ResolveLoop(Top.wf, Top.x, holds).completed
             \subseteq Top.x.completed \cup {Top.x.cur}
    BY <1>4, TopFacts, GoodLoop, CompletedByControl DEF GoodState
  <2> QED BY <1>2, <1>4, <2>1
<1> QED BY <1>1, <1>3, <1>4, BrokenRan DEF Conditional, Loop

LEMMA EnterRan ==
  ASSUME EngineInv, RanInv, EnterSubWorkflow
  PROVE  RanInv'
<1>1. CASE MoveTop(AdvanceFailed(Top.wf, Top.x), FALSE)
  <2>1. /\ AdvanceFailed(Top.wf, Top.x) \in GoodState(Top.wf)
        /\ AdvanceFailed(Top.wf, Top.x).completed = Top.x.completed
    BY TopFacts, GoodAdvanceFailed, CompletedByFailure DEF GoodState
  <2> QED BY <1>1, <2>1, MoveTopRan
<1>2. CASE frames' = Append(frames, NewFrame(TopStep.sub))
  <2>1. RanFrame(NewFrame(TopStep.sub))
    BY DEF RanFrame, NewFrame, InitialState
  <2>2. \A j \in DOMAIN frames' :
          \/ frames'[j] = NewFrame(TopStep.sub)
          \/ j \in DOMAIN frames /\ frames'[j] = frames[j]
    BY <1>2, FrameAt, AppendProperties DEF EngineInv
  <2> QED BY <2>1, <2>2 DEF RanInv, RanFrame
<1> QED BY <1>1, <1>2 DEF EnterSubWorkflow

LEMMA LeaveRan ==
  ASSUME EngineInv, RanInv, LeaveSubWorkflow
  PROVE  RanInv'
<1> DEFINE n == Len(frames)
           parent == frames[n - 1]
           merged == Merged(parent.x, Top.x)
           ok == Top.x.finished /\ Top.x.failed = 0
           i == parent.x.cur
           x == Settle(Advance(parent.wf, merged, ok), i)
           r == parent.ran \cup IF ok THEN {i} ELSE {}
           f == [parent EXCEPT !.x = x, !.steps = parent.steps + 1, !.ran = r]
<1>1. n \in Nat /\ n > 1 /\ n - 1 \in 1 .. n /\ DOMAIN frames = 1 .. n
  BY FrameAt DEF LeaveSubWorkflow
<1>2. parent \in GoodFrame /\ Top \in GoodFrame /\ RanFrame(parent)
  BY <1>1, FrameAt DEF RanInv
<1>3. /\ parent.wf \in Workflows /\ parent.x \in GoodState(parent.wf)
      /\ i \in StepIds(parent.wf) /\ parent.x \in ExecState(parent.wf)
      /\ Top.x \in ExecState(Top.wf) /\ parent \in FrameOf(parent.wf)
  BY <1>2, FrameFacts
<1>4. /\ merged \in GoodState(parent.wf) /\ merged.cur = i
      /\ merged.completed = parent.x.completed
  <2>1. parent.x.comps \o Top.x.comps \in Seq(Changes)
    BY <1>3, ConcatProperties DEF ExecState
  <2>2. merged \in GoodState(parent.wf)
    BY <1>3, <2>1, GoodMarks DEF Merged
  <2> QED BY <1>3, <2>2 DEF Merged, ExecState
<1>5. x.completed = parent.x.completed \cup IF ok THEN {i} ELSE {}
  <2>1. Advance(parent.wf, merged, ok) \in GoodState(parent.wf)
    BY <1>3, <1>4, GoodAdvance
  <2>2. Advance(parent.wf, merged, ok).completed
          = parent.x.completed \cup IF ok THEN {i} ELSE {}
    <3> HIDE DEF merged, i, parent
    <3>1. ok \in BOOLEAN /\ merged \in ExecState(parent.wf)
      BY <1>4 DEF GoodState
    <3> HIDE DEF ok
    <3> QED BY <1>3, <1>4, <3>1, CompletedByAdvance
  <2> QED BY <2>1, <2>2, CompletedBySettle DEF GoodState
<1>6. RanFrame(f)
  <2> HIDE DEF x, r
  <2>1. f.x = x /\ f.ran = r /\ f.wf = parent.wf
    BY <1>3 DEF FrameOf
  <2> QED BY <1>2, <1>5, <2>1 DEF RanFrame, r
<1>7. /\ Len(Front(frames)) = n - 1 /\ DOMAIN Front(frames) = 1 .. n - 1
      /\ \A k \in 1 .. n - 1 : Front(frames)[k] = frames[k]
  BY <1>1, FrameAt, SubSeqProperties DEF Front, EngineInv
<1>8. frames' = [Front(frames) EXCEPT ![n - 1] = f]
  BY <1>1, <1>7 DEF LeaveSubWorkflow
<1> HIDE DEF f
<1>9. \A k \in DOMAIN frames' :
        \/ frames'[k] = f
        \/ k \in DOMAIN frames /\ frames'[k] = frames[k]
  BY <1>1, <1>7, <1>8
<1> QED BY <1>6, <1>9 DEF RanInv, RanFrame

LEMMA ExhaustRan ==
  ASSUME EngineInv, RanInv, ExhaustBudget
  PROVE  RanInv'
<1> DEFINE f == [Top EXCEPT !.x = Broken(Top.x)]
<1>1. /\ Top \in GoodFrame /\ Top = frames[Len(frames)]
      /\ Len(frames) \in 1 .. Len(frames) /\ DOMAIN frames = 1 .. Len(frames)
  BY FrameAt
<1>2. f \in GoodFrame
  BY <1>1, TopFacts, GoodBroken, FrameUpdate, FrameFacts
<1>3. RanFrame(f)
  <2>1. f.x = Broken(Top.x) /\ f.ran = Top.ran /\ f.wf = Top.wf
    BY <1>1, FrameFacts DEF FrameOf
  <2>2. RanFrame(Top) /\ Broken(Top.x).completed = Top.x.completed
    BY <1>1, TopFacts, CompletedBySettle DEF RanInv, GoodState
  <2> QED BY <2>1, <2>2 DEF RanFrame
<1>4. frames' = [frames EXCEPT ![Len(frames)] = f]
  BY <1>1 DEF ExhaustBudget
<1> HIDE DEF f
<1> QED BY <1>1, <1>2, <1>3, <1>4, SetFrameRan

LEMMA EngineStepRan ==
  ASSUME EngineInv, RanInv, EngineStep
  PROVE  RanInv'
<1>1. CASE YieldToModel
  BY <1>1 DEF YieldToModel, RanInv
<1> QED
  BY <1>1, DeterministicRan, ToolCallRan, ControlRan, EnterRan, LeaveRan, ExhaustRan
     DEF EngineStep

(* The loop's operations on the workflow complete steps of the model only, *)
(* as long as they act while the cursor is on one.                         *)
LEMMA SetRootRan ==
  ASSUME EngineInv, RanInv, pc # "engine", NEW x \in GoodState(Root.wf), SetRoot(x),
         \A i \in x.completed : i \in Root.x.completed \/ Step(Root.wf, i).kind = "llm"
  PROVE  RanInv'
<1> DEFINE f == [Root EXCEPT !.x = x]
<1>1. Root \in GoodFrame /\ 1 \in 1 .. Len(frames) /\ DOMAIN frames = 1 .. Len(frames)
  BY FrameAt
<1>2. f \in GoodFrame
  BY <1>1, FrameUpdate, FrameFacts
<1>3. RanFrame(f)
  <2>1. f.x = x /\ f.ran = Root.ran /\ f.wf = Root.wf
    BY <1>1, FrameFacts DEF FrameOf
  <2>2. RanFrame(Root)
    BY <1>1 DEF RanInv, Root
  <2> QED BY <2>1, <2>2 DEF RanFrame
<1>4. frames' = [frames EXCEPT ![1] = f]
  BY DEF SetRoot, Root
<1> HIDE DEF f
<1> QED BY <1>1, <1>2, <1>3, <1>4, SetFrameRan

LEMMA ModelAdvancesRan ==
  ASSUME EngineInv, RanInv, pc = "llm", NEW ok \in BOOLEAN, ModelAdvances(ok),
         RootStep.kind = "llm"
  PROVE  RanInv'
<1> DEFINE y == Advance(Root.wf, Root.x, ok)
           x == [y EXCEPT !.raised = FALSE]
<1>1. Root.wf \in Workflows /\ Root.x \in GoodState(Root.wf) /\ Root.x \in ExecState(Root.wf)
  BY RootFacts DEF GoodState
<1>2. y \in GoodState(Root.wf) /\ x \in GoodState(Root.wf)
  BY <1>1, GoodAdvance, GoodMarks
<1>3. y.completed = Root.x.completed \cup IF ok THEN {Root.x.cur} ELSE {}
  BY <1>1, CompletedByAdvance
<1>4. x.completed = y.completed
  BY <1>2, CompletedBySettle DEF GoodState
<1>5. SetRoot(x)
  BY DEF ModelAdvances
<1> HIDE DEF x, y
<1>6. \A i \in x.completed : i \in Root.x.completed \/ Step(Root.wf, i).kind = "llm"
  BY <1>3, <1>4 DEF RootStep
<1> QED BY <1>2, <1>5, <1>6, SetRootRan

LEMMA FastForwardRan ==
  ASSUME EngineInv, RanInv, NEW a, ModelFastForwards(a)
  PROVE  RanInv'
<1> DEFINE x == FastForward(Root.wf, Root.x, a)
<1>1. pc = "llm" /\ ~Root.x.finished /\ SetRoot(x)
  BY DEF ModelFastForwards
<1>2. /\ Root.wf \in Workflows /\ Root.x \in ExecState(Root.wf)
      /\ x \in GoodState(Root.wf)
  BY <1>1, RootFacts, GoodFastForward DEF GoodState
<1>3. \A i \in x.completed : i \in Root.x.completed \/ Step(Root.wf, i).kind = "llm"
  <2>1. PICK stop \in Root.x.cur .. Len(Catalogue[Root.wf]) + 1 :
          /\ \A k \in Root.x.cur .. stop - 1 : Skippable(Root.wf, k, a)
          /\ stop <= Len(Catalogue[Root.wf]) => ~Skippable(Root.wf, stop, a)
          /\ FastForward(Root.wf, Root.x, a) =
               IF Root.x.finished THEN Root.x
               ELSE IF stop > Len(Catalogue[Root.wf])
                 THEN [Root.x EXCEPT !.completed = @ \cup (Root.x.cur .. stop - 1),
                                     !.cur = Len(Catalogue[Root.wf]), !.finished = TRUE]
               ELSE [Root.x EXCEPT !.completed = @ \cup (Root.x.cur .. stop - 1),
                                   !.cur = stop]
    BY <1>2, FastForwardStop
  <2>2. x.completed = Root.x.completed \cup (Root.x.cur .. stop - 1)
    BY <1>1, <1>2, <2>1 DEF ExecState
  <2> QED BY <2>1, <2>2 DEF Skippable
<1> HIDE DEF x
<1> QED BY <1>1, <1>2, <1>3, SetRootRan

LEMMA EngineRunsRan ==
  ASSUME EngineInv, RanInv, EngineRuns
  PROVE  RanInv'
<1>1. pc = "llm" /\ frames' = [frames EXCEPT ![1] = [Root EXCEPT !.steps = 0]]
  BY DEF EngineRuns, Root
<1>2. 1 \in 1 .. Len(frames) /\ Root \in GoodFrame /\ DOMAIN frames = 1 .. Len(frames)
  BY FrameAt
<1>3. [Root EXCEPT !.steps = 0] \in GoodFrame
  BY <1>1, <1>2, RootFacts, FrameUpdate, FrameFacts
<1>4. RanFrame([Root EXCEPT !.steps = 0])
  <2>1. RanFrame(Root)
    BY <1>2 DEF RanInv, Root
  <2> QED BY <1>2, <2>1, FrameFacts DEF RanFrame, FrameOf
<1> QED BY <1>1, <1>2, <1>3, <1>4, SetFrameRan

LEMMA CompensateRan ==
  ASSUME EngineInv, RanInv, Compensate
  PROVE  RanInv'
<1>1. pc = "saga" /\ Root.x.comps # <<>>
  BY DEF Compensate
<1> DEFINE left == SagaOrder(Tail(SagaOrder(Root.x.comps)))
           x == [Root.x EXCEPT !.comps = left]
<1>2. left \in Seq(Changes)
  BY <1>1, SagaShrinks
<1>3. x \in GoodState(Root.wf) /\ x.completed = Root.x.completed
  BY <1>1, <1>2, RootFacts, GoodMarks DEF GoodState, ExecState
<1>4. SetRoot(x)
  BY DEF Compensate
<1> HIDE DEF x
<1> QED BY <1>1, <1>3, <1>4, SetRootRan

-----------------------------------------------------------------------------
(* What the compensation stacks hold: each cursor operation either leaves  *)
(* the stack alone or puts the inverse of the step it completed on it.     *)

LEMMA StackAfterAdvance ==
  ASSUME NEW wf \in Workflows, NEW x \in ExecState(wf), NEW i
  PROVE  AdvanceAfter(wf, x, i).comps = x.comps
BY DEF AdvanceAfter, ExecState

LEMMA StackOfFailure ==
  ASSUME NEW wf \in Workflows, NEW x \in ExecState(wf)
  PROVE  AdvanceFailed(wf, x).comps = x.comps
<1>1. AbortLoop(x) \in ExecState(wf) /\ AbortLoop(x).comps = x.comps
  BY AbortLoopType DEF AbortLoop, ExecState
<1> QED BY <1>1 DEF AdvanceFailed, ExecState

LEMMA StackOfAdvance ==
  ASSUME NEW wf \in Workflows, NEW x \in ExecState(wf), NEW ok \in BOOLEAN
  PROVE  Advance(wf, x, ok).comps =
           IF ok /\ Step(wf, x.cur).comp THEN Append(x.comps, <<wf, x.cur>>)
           ELSE x.comps
<1> DEFINE c == IF Step(wf, x.cur).comp THEN Append(x.comps, <<wf, x.cur>>) ELSE x.comps
           done == [Complete(x) EXCEPT !.comps = c]
<1>1. x.cur \in StepIds(wf) /\ x.comps \in Seq(Changes) /\ Complete(x).comps = x.comps
  BY DEF ExecState, Complete
<1>2. c \in Seq(Changes)
  BY <1>1, ChangeOf
<1>3. done \in ExecState(wf) /\ done.comps = c
  BY <1>2, CompleteType DEF ExecState
<1>4. AdvanceOk(wf, x) =
        IF x.ret # <<>> THEN [done EXCEPT !.cur = Last(x.ret), !.ret = Front(x.ret)]
        ELSE AdvanceAfter(wf, done, x.cur)
  BY <1>1 DEF AdvanceOk
<1> HIDE DEF done, c
<1>5. AdvanceOk(wf, x).comps = c
  <2>1. \A j, r : [done EXCEPT !.cur = j, !.ret = r].comps = c
    BY <1>3 DEF ExecState
  <2>2. AdvanceAfter(wf, done, x.cur).comps = c
    BY <1>3, StackAfterAdvance
  <2> QED BY <1>4, <2>1, <2>2
<1> QED BY <1>5, StackOfFailure DEF Advance, c

LEMMA StackOfControl ==
  ASSUME NEW wf \in Workflows, NEW x \in ExecState(wf), NEW holds \in BOOLEAN
  PROVE  /\ Step(wf, x.cur).kind = "conditional" =>
              ResolveConditional(wf, x, holds).comps = x.comps
         /\ Step(wf, x.cur).kind = "loop" => ResolveLoop(wf, x, holds).comps = x.comps
<1>1. /\ x.cur \in StepIds(wf) /\ Complete(x) \in ExecState(wf)
      /\ Complete(x).comps = x.comps
  BY CompleteType DEF Complete, ExecState
<1>2. \A j : [Complete(x) EXCEPT !.cur = j].comps = x.comps
  BY <1>1 DEF ExecState
<1>3. AdvanceAfter(wf, Complete(x), x.cur).comps = x.comps
  BY <1>1, StackAfterAdvance
<1>4. /\ [Complete(x) EXCEPT !.count[x.cur] = 0] \in ExecState(wf)
      /\ [Complete(x) EXCEPT !.count[x.cur] = 0].comps = x.comps
  BY <1>1 DEF ExecState
<1>5. AdvanceAfter(wf, [Complete(x) EXCEPT !.count[x.cur] = 0],
                   Step(wf, x.cur).body).comps = x.comps
  BY <1>4, StackAfterAdvance
<1>6. \A m, r, j : [x EXCEPT !.count[x.cur] = m, !.ret = r, !.cur = j].comps = x.comps
  BY DEF ExecState
<1> QED BY <1>2, <1>3, <1>5, <1>6 DEF ResolveConditional, ResolveLoop

LEMMA StackOfMarks ==
  ASSUME NEW wf, NEW x \in ExecState(wf), NEW i
  PROVE  /\ Settle(x, i).comps = x.comps /\ Broken(x).comps = x.comps
         /\ [x EXCEPT !.raised = FALSE].comps = x.comps
BY DEF Settle, Broken, ExecState

LEMMA StackOfFastForward ==
  ASSUME NEW wf, NEW x \in ExecState(wf), NEW a
  PROVE  FastForward(wf, x, a).comps = x.comps
BY DEF FastForward, ExecState

-----------------------------------------------------------------------------
(* What becomes of the record when the stacks change.                      *)

LEMMA ThePlaces ==
  ASSUME NEW s
  PROVE  \A p : p \in Places(s) <=>
           \E k \in DOMAIN s : \E i \in DOMAIN s[k] : p = <<k, i>>
<1>1. \A k \in DOMAIN s : \A p : p \in {k} \X DOMAIN s[k] <=>
        \E i \in DOMAIN s[k] : p = <<k, i>>
  OBVIOUS
<1> QED BY <1>1 DEF Places

(* Stacks may be moved about as long as the order of what they hold stays. *)
LEMMA RecordMoves ==
  ASSUME NEW changes, NEW s, NEW t, Recorded(changes, s),
         NEW f \in [Places(s) -> Places(t)],
         \A p \in Places(s) : t[f[p][1]][f[p][2]] = s[p[1]][p[2]],
         \A p, q \in Places(s) : Below(p, q) => Below(f[p], f[q])
  PROVE  Recorded(changes, t)
<1> DEFINE undoable == {n \in DOMAIN changes : Compensable(changes[n])}
<1>1. PICK from \in [undoable -> Places(s)] :
        /\ \A n \in undoable : s[from[n][1]][from[n][2]] = changes[n]
        /\ \A m, n \in undoable : m < n => Below(from[m], from[n])
  BY DEF Recorded
<1> DEFINE to == [n \in undoable |-> f[from[n]]]
<1> HIDE DEF undoable
<1>2. to \in [undoable -> Places(t)]
  BY <1>1
<1>3. /\ \A n \in undoable : t[to[n][1]][to[n][2]] = changes[n]
      /\ \A m, n \in undoable : m < n => Below(to[m], to[n])
  BY <1>1
<1> HIDE DEF to
<1> QED BY <1>2, <1>3 DEF Recorded, undoable

(* Stacks may grow.                                                        *)
LEMMA RecordStays ==
  ASSUME NEW changes, NEW s, NEW t, Recorded(changes, s),
         DOMAIN s \subseteq DOMAIN t,
         \A k \in DOMAIN s : \A i \in DOMAIN s[k] : i \in DOMAIN t[k] /\ t[k][i] = s[k][i]
  PROVE  Recorded(changes, t)
<1> DEFINE f == [p \in Places(s) |-> p]
<1>1. \A p \in Places(s) : p \in Places(t) /\ t[p[1]][p[2]] = s[p[1]][p[2]]
  BY ThePlaces
<1>2. f \in [Places(s) -> Places(t)] /\ \A p \in Places(s) : f[p] = p
  BY <1>1
<1> HIDE DEF f
<1> QED BY <1>1, <1>2, RecordMoves

(* A change and its inverse are put on top together.                       *)
LEMMA RecordPushes ==
  ASSUME NEW n \in Nat \ {0}, NEW s, DOMAIN s = 1 .. n,
         \A k \in 1 .. n : s[k] \in Seq(Changes),
         NEW changes \in Seq(Changes), NEW c \in Changes,
         Recorded(changes, s), NEW t, DOMAIN t = 1 .. n,
         \A k \in 1 .. n : k # n => t[k] = s[k],
         t[n] = IF Compensable(c) THEN Append(s[n], c) ELSE s[n]
  PROVE  Recorded(Append(changes, c), t)
<1> DEFINE undoable == {j \in DOMAIN changes : Compensable(changes[j])}
           more == Append(changes, c)
           last == Len(changes) + 1
           now == {j \in DOMAIN more : Compensable(more[j])}
           top == <<n, Len(s[n]) + 1>>
<1>1. PICK from \in [undoable -> Places(s)] :
        /\ \A j \in undoable : s[from[j][1]][from[j][2]] = changes[j]
        /\ \A i, j \in undoable : i < j => Below(from[i], from[j])
  BY DEF Recorded
<1>2. /\ Len(changes) \in Nat /\ DOMAIN changes = 1 .. Len(changes)
      /\ DOMAIN more = 1 .. last /\ more[last] = c
      /\ \A j \in 1 .. Len(changes) : more[j] = changes[j]
  OBVIOUS
<1>3. now = undoable \cup (IF Compensable(c) THEN {last} ELSE {})
  BY <1>2
<1>4. n \in 1 .. n /\ Len(s[n]) \in Nat /\ DOMAIN s[n] = 1 .. Len(s[n])
  OBVIOUS
<1>5. ASSUME NEW p \in Places(s)
      PROVE  p \in Places(t) /\ t[p[1]][p[2]] = s[p[1]][p[2]] /\ Below(p, top)
  <2>1. PICK k \in 1 .. n : \E i \in DOMAIN s[k] : p = <<k, i>>
    <3>1. \E k \in DOMAIN s : \E i \in DOMAIN s[k] : p = <<k, i>>
      BY <1>5, ThePlaces
    <3> QED BY <3>1
  <2>2. PICK i \in DOMAIN s[k] : p = <<k, i>>
    BY <2>1
  <2>3. i \in DOMAIN t[k] /\ t[k][i] = s[k][i]
    <3>1. CASE k = n /\ Compensable(c)
      <4>1. t[n] = Append(s[n], c) /\ s[n] \in Seq(Changes)
        BY <1>4, <3>1
      <4>2. \A j \in DOMAIN s[n] : j \in DOMAIN Append(s[n], c) /\ Append(s[n], c)[j] = s[n][j]
        BY <1>4, <4>1
      <4> QED BY <3>1, <4>1, <4>2
    <3>2. CASE ~(k = n /\ Compensable(c))
      BY <3>2
    <3> QED BY <3>1, <3>2
  <2>4. p \in Places(t)
    BY <2>1, <2>2, <2>3, ThePlaces
  <2>5. k < n \/ (k = n /\ i < Len(s[n]) + 1)
    <3>1. k < n \/ k = n
      OBVIOUS
    <3>2. \A j \in DOMAIN s[n] : j < Len(s[n]) + 1
      BY <1>4
    <3> QED BY <3>1, <3>2
  <2> QED BY <2>2, <2>3, <2>4, <2>5 DEF Below
<1>6. Compensable(c) => top \in Places(t) /\ t[top[1]][top[2]] = c
  <2> SUFFICES ASSUME Compensable(c) PROVE top \in Places(t) /\ t[top[1]][top[2]] = c
    OBVIOUS
  <2>1. Len(s[n]) + 1 \in DOMAIN t[n] /\ t[n][Len(s[n]) + 1] = c
    BY <1>4
  <2> QED BY <1>4, <2>1, ThePlaces
<1> DEFINE to == [j \in now |-> IF j \in undoable THEN from[j] ELSE top]
<1>7. \A j \in undoable : j \in 1 .. Len(changes) /\ j # last
  BY <1>2
<1> HIDE DEF undoable, now, top, more
<1>8. to \in [now -> Places(t)]
  BY <1>1, <1>3, <1>5, <1>6
<1>9. \A j \in now : t[to[j][1]][to[j][2]] = more[j]
  BY <1>1, <1>2, <1>3, <1>5, <1>6, <1>7
<1>10. ASSUME NEW i \in now, NEW j \in now, i < j PROVE Below(to[i], to[j])
  <2>1. i \in undoable
    <3> SUFFICES ASSUME i \notin undoable PROVE FALSE
      OBVIOUS
    <3>1. i = last /\ j \in 1 .. last
      BY <1>2, <1>3, <1>7
    <3> QED BY <1>2, <1>10, <3>1
  <2>2. CASE j \in undoable
    BY <1>1, <1>10, <2>1, <2>2
  <2>3. CASE j \notin undoable
    <3>1. to[j] = top /\ to[i] = from[i] /\ from[i] \in Places(s)
      BY <1>1, <2>1, <2>3
    <3> QED BY <1>5, <3>1
  <2> QED BY <2>2, <2>3
<1> HIDE DEF to
<1> QED BY <1>8, <1>9, <1>10 DEF Recorded, now, more

(* A stack may be put on top of the one beneath it.                        *)
LEMMA RecordMerges ==
  ASSUME NEW n \in Nat, n > 1, NEW s, DOMAIN s = 1 .. n,
         \A k \in 1 .. n : s[k] \in Seq(Changes),
         NEW changes, Recorded(changes, s), NEW t, DOMAIN t = 1 .. n - 1,
         \A k \in 1 .. n - 1 : k # n - 1 => t[k] = s[k],
         t[n - 1] = s[n - 1] \o s[n]
  PROVE  Recorded(changes, t)
<1> DEFINE m == Len(s[n - 1])
           f == [p \in Places(s) |-> IF p[1] = n THEN <<n - 1, m + p[2]>> ELSE p]
<1>1. n \in 1 .. n /\ n - 1 \in 1 .. n /\ n - 1 \in 1 .. n - 1
  OBVIOUS
<1>2. /\ m \in Nat /\ DOMAIN s[n - 1] = 1 .. m
      /\ Len(s[n]) \in Nat /\ DOMAIN s[n] = 1 .. Len(s[n])
      /\ DOMAIN t[n - 1] = 1 .. m + Len(s[n])
      /\ \A i \in 1 .. m : t[n - 1][i] = s[n - 1][i]
      /\ \A i \in 1 .. Len(s[n]) : t[n - 1][m + i] = s[n][i]
  <2>1. s[n - 1] \in Seq(Changes) /\ s[n] \in Seq(Changes)
    BY <1>1
  <2>2. \A u, v \in Seq(Changes) :
          /\ Len(u) \in Nat /\ DOMAIN u = 1 .. Len(u)
          /\ DOMAIN (u \o v) = 1 .. Len(u) + Len(v)
          /\ \A i \in 1 .. Len(u) : (u \o v)[i] = u[i]
          /\ \A i \in 1 .. Len(v) : (u \o v)[Len(u) + i] = v[i]
    <3> SUFFICES ASSUME NEW u \in Seq(Changes), NEW v \in Seq(Changes)
                 PROVE  /\ Len(u) \in Nat /\ DOMAIN u = 1 .. Len(u)
                        /\ DOMAIN (u \o v) = 1 .. Len(u) + Len(v)
                        /\ \A i \in 1 .. Len(u) : (u \o v)[i] = u[i]
                        /\ \A i \in 1 .. Len(v) : (u \o v)[Len(u) + i] = v[i]
      OBVIOUS
    <3> QED OBVIOUS
  <2>3. /\ m \in Nat /\ DOMAIN s[n - 1] = 1 .. m
        /\ DOMAIN t[n - 1] = 1 .. m + Len(s[n])
        /\ \A i \in 1 .. m : t[n - 1][i] = s[n - 1][i]
        /\ \A i \in 1 .. Len(s[n]) : t[n - 1][m + i] = s[n][i]
    <3>1. t[n - 1] = s[n - 1] \o s[n]
      OBVIOUS
    <3>2. \A i \in 1 .. Len(s[n]) : (s[n - 1] \o s[n])[m + i] = s[n][i]
      BY ONLY <2>1, <2>2
    <3>3. \A i \in 1 .. m : (s[n - 1] \o s[n])[i] = s[n - 1][i]
      BY ONLY <2>1, <2>2
    <3>4. DOMAIN (s[n - 1] \o s[n]) = 1 .. m + Len(s[n])
      BY ONLY <2>1, <2>2
    <3>5. m \in Nat /\ DOMAIN s[n - 1] = 1 .. m
      BY ONLY <2>1, <2>2
    <3> QED BY ONLY <3>1, <3>2, <3>3, <3>4, <3>5
  <2>4. Len(s[n]) \in Nat /\ DOMAIN s[n] = 1 .. Len(s[n])
    BY <2>1, <2>2, Zenon
  <2> QED BY <2>3, <2>4, Zenon
<1> HIDE DEF m
<1>3. ASSUME NEW k \in 1 .. n, NEW i \in DOMAIN s[k]
      PROVE  LET q == IF k = n THEN <<n - 1, m + i>> ELSE <<k, i>>
             IN  q \in Places(t) /\ t[q[1]][q[2]] = s[k][i]
  <2>1. CASE k = n
    <3>1. m + i \in DOMAIN t[n - 1] /\ t[n - 1][m + i] = s[n][i]
      BY <1>2, <2>1
    <3> QED BY <1>1, <2>1, <3>1, ThePlaces
  <2>2. CASE k # n
    <3>0. k \in 1 .. n - 1
      BY <2>2
    <3>1. k \in 1 .. n - 1 /\ i \in DOMAIN t[k] /\ t[k][i] = s[k][i]
      <4>1. CASE k = n - 1
        <5>1. \A a, b \in Nat : \A j \in 1 .. a : j \in 1 .. a + b
          OBVIOUS
        <5>2. i \in 1 .. m
          BY <1>2, <4>1
        <5> QED BY <1>2, <3>0, <4>1, <5>1, <5>2
      <4>2. CASE k # n - 1
        BY <3>0, <4>2
      <4> QED BY <4>1, <4>2
    <3> QED BY <2>2, <3>1, ThePlaces
  <2> QED BY <2>1, <2>2
<1>4. ASSUME NEW p \in Places(s)
      PROVE  /\ f[p] \in Places(t) /\ t[f[p][1]][f[p][2]] = s[p[1]][p[2]]
             /\ p[1] \in 1 .. n /\ p[2] \in DOMAIN s[p[1]] /\ p = <<p[1], p[2]>>
  <2>0. PICK k \in 1 .. n : \E i \in DOMAIN s[k] : p = <<k, i>>
    BY <1>4, ThePlaces
  <2>1. PICK i \in DOMAIN s[k] : p = <<k, i>>
    BY <2>0
  <2>2. f[p] = IF k = n THEN <<n - 1, m + i>> ELSE <<k, i>>
    BY <2>1
  <2> HIDE DEF f
  <2> QED BY <1>3, <2>0, <2>1, <2>2
<1>5. f \in [Places(s) -> Places(t)]
  BY <1>4
<1>6. ASSUME NEW p \in Places(s), NEW q \in Places(s), Below(p, q)
      PROVE  Below(f[p], f[q])
  <2>1. /\ p[1] \in 1 .. n /\ p[2] \in DOMAIN s[p[1]]
        /\ q[1] \in 1 .. n /\ q[2] \in DOMAIN s[q[1]]
    BY <1>4
  <2>2. p[2] \in Nat /\ q[2] \in Nat
    BY <2>1
  <2>3. p[1] < q[1] \/ (p[1] = q[1] /\ p[2] < q[2])
    BY <1>6 DEF Below
  <2>4. CASE p[1] = n
    <3>1. q[1] = n /\ p[2] < q[2]
      BY <2>1, <2>3, <2>4
    <3>2. f[p] = <<n - 1, m + p[2]>> /\ f[q] = <<n - 1, m + q[2]>>
      BY <2>4, <3>1
    <3> QED BY <1>2, <2>2, <3>1, <3>2 DEF Below
  <2>5. CASE p[1] # n /\ q[1] # n
    BY <1>6, <2>5
  <2>6. CASE p[1] # n /\ q[1] = n
    <3>1. f[p] = p /\ f[q] = <<n - 1, m + q[2]>>
      BY <2>6
    <3>2. CASE p[1] = n - 1
      <4>1. p[2] < m + q[2]
        BY <1>2, <2>1, <2>6, <3>2
      <4> QED BY <3>1, <3>2, <4>1 DEF Below
    <3>3. CASE p[1] # n - 1
      <4>1. p[1] < n - 1
        <5>1. \A k \in 1 .. n : k # n /\ k # n - 1 => k < n - 1
          OBVIOUS
        <5> QED BY <2>1, <2>6, <3>3, <5>1
      <4> QED BY <3>1, <4>1 DEF Below
    <3> QED BY <3>2, <3>3
  <2> QED BY <2>4, <2>5, <2>6
<1>7. \A p \in Places(s) : t[f[p][1]][f[p][2]] = s[p[1]][p[2]]
  BY <1>4
<1> HIDE DEF f
<1>8. \A p, q \in Places(s) : Below(p, q) => Below(f[p], f[q])
  BY <1>6
<1>9. Recorded(changes, s)
  OBVIOUS
<1> QED BY ONLY <1>5, <1>7, <1>8, <1>9, RecordMoves


(* The stacks of the frames.                                               *)
LEMMA TheStacks ==
  ASSUME EngineInv
  PROVE  /\ Len(frames) \in Nat \ {0} /\ DOMAIN Stacks = 1 .. Len(frames)
         /\ \A k \in 1 .. Len(frames) :
              Stacks[k] = frames[k].x.comps /\ Stacks[k] \in Seq(Changes)
<1>1. \A k \in 1 .. Len(frames) : frames[k].x.comps \in Seq(Changes)
  BY FrameAt, FrameFacts DEF ExecState
<1> QED BY <1>1, FrameAt DEF Stacks

-----------------------------------------------------------------------------
(* All but entering and leaving a sub-workflow is a move of the top frame: *)
(* its step ends in success (ok) or not, and has changed the world (wrote) *)
(* or not.                                                                 *)
TopChange == <<Top.wf, Top.x.cur>>
TopMoved(f, ok, wrote) ==
  /\ f.wf = Top.wf
  /\ frames' = [frames EXCEPT ![Len(frames)] = f]
  /\ f.x.comps = IF ok /\ TopStep.comp THEN Append(Top.x.comps, TopChange)
                 ELSE Top.x.comps
  /\ effects' = IF wrote THEN Append(effects, TopChange) ELSE effects
  /\ wrote => ok

(* Only a handler or a fixed call of the engine's changes anything.        *)
EngineMoved(f, ok) ==
  /\ TopMoved(f, ok, ok /\ TopStep.writes)
  /\ ok => TopStep.kind \in {"deterministic", "tool_call"}

LEMMA TopState ==
  ASSUME EngineInv
  PROVE  /\ Top.wf \in Workflows /\ Top.x \in GoodState(Top.wf)
         /\ Top.x \in ExecState(Top.wf) /\ Top.x.cur \in StepIds(Top.wf)
         /\ TopChange \in Changes /\ TopStep.writes \in BOOLEAN
         /\ Top.x.comps \in Seq(Changes)
<1>1. /\ Top.wf \in Workflows /\ Top.x \in GoodState(Top.wf)
      /\ Top.x \in ExecState(Top.wf) /\ Top.x.cur \in StepIds(Top.wf)
  BY FrameAt, FrameFacts
<1>2. WellFormed(Catalogue[Top.wf])
  BY <1>1, CatalogueAssumption
<1>3. TopStep.writes \in BOOLEAN
  BY <1>1, <1>2 DEF WellFormed, TopStep, Step, StepIds
<1> QED BY <1>1, <1>3, ChangeOf DEF TopChange, ExecState

LEMMA MoveTopMoves ==
  ASSUME EngineInv, NEW x \in GoodState(Top.wf), NEW executed \in BOOLEAN,
         MoveTop(x, executed), NEW ok \in BOOLEAN,
         x.comps = IF ok /\ TopStep.comp THEN Append(Top.x.comps, TopChange)
                   ELSE Top.x.comps,
         effects' = IF ok /\ TopStep.writes THEN Append(effects, TopChange) ELSE effects,
         ok => TopStep.kind \in {"deterministic", "tool_call"}
  PROVE  \E f \in GoodFrame : EngineMoved(f, ok)
<1> DEFINE f == [Top EXCEPT !.x = x, !.steps = Top.steps + 1,
                            !.ran = Top.ran \cup IF executed THEN {Top.x.cur} ELSE {}]
<1>1. f \in GoodFrame
  BY MoveTopFrame
<1>2. f.x = x /\ f.wf = Top.wf
  BY FrameAt, FrameFacts DEF FrameOf
<1>3. frames' = [frames EXCEPT ![Len(frames)] = f]
  BY DEF MoveTop
<1> HIDE DEF f
<1> QED BY <1>1, <1>2, <1>3 DEF EngineMoved, TopMoved

(* A step that changes nothing leaves the stack of its frame alone.        *)
LEMMA StillMoves ==
  ASSUME EngineInv, NEW x \in GoodState(Top.wf), NEW executed \in BOOLEAN,
         MoveTop(x, executed), x.comps = Top.x.comps, effects' = effects
  PROVE  \E f \in GoodFrame, ok \in BOOLEAN : EngineMoved(f, ok)
<1>1. PICK ok \in BOOLEAN : ~ok
  OBVIOUS
<1>2. /\ effects' = IF ok /\ TopStep.writes THEN Append(effects, TopChange) ELSE effects
      /\ x.comps = IF ok /\ TopStep.comp THEN Append(Top.x.comps, TopChange)
                   ELSE Top.x.comps
  BY <1>1
<1> QED BY <1>1, <1>2, MoveTopMoves

LEMMA DeterministicMoves ==
  ASSUME EngineInv, ExecDeterministic
  PROVE  \E f \in GoodFrame, ok \in BOOLEAN : EngineMoved(f, ok)
<1>1. PICK ok \in BOOLEAN :
        LET y == Advance(Top.wf, Top.x, ok) IN
        /\ MoveTop(IF y.raised
                     THEN AdvanceFailed(Top.wf, [y EXCEPT !.raised = FALSE])
                     ELSE y, ok)
        /\ Performs(ok)
  BY DEF ExecDeterministic
<1> DEFINE y == Advance(Top.wf, Top.x, ok)
           z == IF y.raised THEN AdvanceFailed(Top.wf, [y EXCEPT !.raised = FALSE])
                ELSE y
<1>2. y \in GoodState(Top.wf) /\ y \in ExecState(Top.wf)
  BY TopFacts, GoodAdvance DEF GoodState
<1>3. y.comps = IF ok /\ TopStep.comp THEN Append(Top.x.comps, TopChange)
                ELSE Top.x.comps
  BY TopState, StackOfAdvance DEF TopStep, TopChange
<1> HIDE DEF y
<1>4. [y EXCEPT !.raised = FALSE] \in GoodState(Top.wf)
      /\ [y EXCEPT !.raised = FALSE].comps = y.comps
  BY <1>2, TopFacts, GoodMarks, StackOfMarks
<1>5. z \in GoodState(Top.wf) /\ z.comps = y.comps
  BY <1>2, <1>4, TopState, GoodAdvanceFailed, StackOfFailure DEF GoodState
<1>6. MoveTop(z, ok)
  BY <1>1 DEF y
<1>7. /\ effects' = IF ok /\ TopStep.writes THEN Append(effects, TopChange) ELSE effects
      /\ TopStep.kind = "deterministic"
  BY <1>1 DEF Performs, TopChange, ExecDeterministic, OnStep
<1> HIDE DEF z
<1>8. z.comps = IF ok /\ TopStep.comp THEN Append(Top.x.comps, TopChange)
                ELSE Top.x.comps
  BY <1>3, <1>5
<1> QED BY <1>5, <1>6, <1>7, <1>8, MoveTopMoves

LEMMA ToolCallMoves ==
  ASSUME EngineInv, ExecToolCall
  PROVE  \E f \in GoodFrame, ok \in BOOLEAN : EngineMoved(f, ok)
<1>1. PICK ok \in BOOLEAN :
        /\ MoveTop(Settle(Advance(Top.wf, Top.x, ok), Top.x.cur), ok)
        /\ Performs(ok)
  BY DEF ExecToolCall
<1> DEFINE y == Advance(Top.wf, Top.x, ok)
           z == Settle(y, Top.x.cur)
<1>2. y \in GoodState(Top.wf) /\ y \in ExecState(Top.wf)
  BY TopFacts, GoodAdvance DEF GoodState
<1>3. y.comps = IF ok /\ TopStep.comp THEN Append(Top.x.comps, TopChange)
                ELSE Top.x.comps
  BY TopState, StackOfAdvance DEF TopStep, TopChange
<1>4. MoveTop(z, ok)
  BY <1>1
<1> HIDE DEF y
<1>5. z \in GoodState(Top.wf) /\ z.comps = y.comps
  BY <1>2, TopFacts, GoodSettle, StackOfMarks
<1>6. /\ effects' = IF ok /\ TopStep.writes THEN Append(effects, TopChange) ELSE effects
      /\ TopStep.kind = "tool_call"
  BY <1>1 DEF Performs, TopChange, ExecToolCall, OnStep
<1> HIDE DEF z
<1>7. z.comps = IF ok /\ TopStep.comp THEN Append(Top.x.comps, TopChange)
                ELSE Top.x.comps
  BY <1>3, <1>5
<1> QED BY <1>4, <1>5, <1>6, <1>7, MoveTopMoves

LEMMA ControlMoves ==
  ASSUME EngineInv, Conditional \/ Loop
  PROVE  \E f \in GoodFrame, ok \in BOOLEAN : EngineMoved(f, ok)
<1>1. effects' = effects
  BY DEF Conditional, Loop
<1>2. CASE MoveTop(Broken(Top.x), FALSE)
  <2>1. Broken(Top.x) \in GoodState(Top.wf) /\ Broken(Top.x).comps = Top.x.comps
    BY TopState, GoodBroken, StackOfMarks
  <2> QED BY <1>1, <1>2, <2>1, StillMoves
<1>3. ASSUME NEW holds \in BOOLEAN, TopStep.kind = "conditional",
             MoveTop(Settle(ResolveConditional(Top.wf, Top.x, holds), Top.x.cur), TRUE)
      PROVE  \E f \in GoodFrame, ok \in BOOLEAN : EngineMoved(f, ok)
  <2> DEFINE y == ResolveConditional(Top.wf, Top.x, holds)
             z == Settle(y, Top.x.cur)
  <2>1. y \in GoodState(Top.wf) /\ y.comps = Top.x.comps
    BY <1>3, TopState, GoodConditional, StackOfControl DEF TopStep
  <2>2. MoveTop(z, TRUE)
    BY <1>3
  <2> HIDE DEF y
  <2>3. z \in GoodState(Top.wf) /\ z.comps = Top.x.comps
    BY <2>1, TopFacts, GoodSettle, StackOfMarks DEF GoodState
  <2> HIDE DEF z
  <2> QED BY <1>1, <2>2, <2>3, StillMoves
<1>4. ASSUME NEW holds \in BOOLEAN, TopStep.kind = "loop",
             MoveTop(Settle(ResolveLoop(Top.wf, Top.x, holds), Top.x.cur), TRUE)
      PROVE  \E f \in GoodFrame, ok \in BOOLEAN : EngineMoved(f, ok)
  <2> DEFINE y == ResolveLoop(Top.wf, Top.x, holds)
             z == Settle(y, Top.x.cur)
  <2>1. y \in GoodState(Top.wf) /\ y.comps = Top.x.comps
    BY <1>4, TopState, GoodLoop, StackOfControl DEF TopStep
  <2>2. MoveTop(z, TRUE)
    BY <1>4
  <2> HIDE DEF y
  <2>3. z \in GoodState(Top.wf) /\ z.comps = Top.x.comps
    BY <2>1, TopFacts, GoodSettle, StackOfMarks DEF GoodState
  <2> HIDE DEF z
  <2> QED BY <1>1, <2>2, <2>3, StillMoves
<1> QED BY <1>2, <1>3, <1>4 DEF Conditional, Loop, OnStep

(* A sub-workflow that cannot be entered fails the step.                   *)
Refuses == MoveTop(AdvanceFailed(Top.wf, Top.x), FALSE)

LEMMA RefusalMoves ==
  ASSUME EngineInv, EnterSubWorkflow, Refuses
  PROVE  \E f \in GoodFrame, ok \in BOOLEAN : EngineMoved(f, ok)
<1> DEFINE z == AdvanceFailed(Top.wf, Top.x)
<1>1. z \in GoodState(Top.wf) /\ z.comps = Top.x.comps /\ MoveTop(z, FALSE)
  BY TopState, GoodAdvanceFailed, StackOfFailure DEF Refuses
<1>2. effects' = effects
  BY DEF EnterSubWorkflow
<1> HIDE DEF z
<1> QED BY <1>1, <1>2, StillMoves

(* A frame may change without its step ending.                             *)
LEMMA TopChanges ==
  ASSUME NEW f \in GoodFrame, f.wf = Top.wf, f.x.comps = Top.x.comps,
         frames' = [frames EXCEPT ![Len(frames)] = f], effects' = effects
  PROVE  \E g \in GoodFrame, ok \in BOOLEAN : EngineMoved(g, ok)
<1>1. PICK ok \in BOOLEAN : ~ok
  OBVIOUS
<1>2. EngineMoved(f, ok)
  BY <1>1 DEF EngineMoved, TopMoved
<1> QED BY <1>2

LEMMA ExhaustMoves ==
  ASSUME EngineInv, ExhaustBudget
  PROVE  \E f \in GoodFrame, ok \in BOOLEAN : EngineMoved(f, ok)
<1> DEFINE f == [Top EXCEPT !.x = Broken(Top.x)]
<1>1. /\ Top \in GoodFrame /\ Top = frames[Len(frames)]
      /\ Len(frames) \in 1 .. Len(frames) /\ effects' = effects
  BY FrameAt DEF ExhaustBudget
<1>2. frames' = [frames EXCEPT ![Len(frames)] = f]
  BY <1>1 DEF ExhaustBudget
<1>3. f.x.comps = Top.x.comps /\ f.wf = Top.wf
  BY <1>1, FrameFacts, StackOfMarks DEF FrameOf
<1>4. f \in GoodFrame
  BY <1>1, TopFacts, GoodBroken, FrameUpdate, FrameFacts
<1> HIDE DEF f
<1> QED BY <1>1, <1>2, <1>3, <1>4, TopChanges

(* Between two engine runs the selected workflow is the top one.           *)
LEMMA RootIsTop ==
  ASSUME EngineInv, pc # "engine"
  PROVE  Len(frames) = 1 /\ Top = Root /\ TopStep = RootStep
BY FrameAt DEF Root, TopStep, RootStep

LEMMA SetRootMoves ==
  ASSUME EngineInv, pc # "engine", NEW x \in GoodState(Root.wf), SetRoot(x),
         NEW ok \in BOOLEAN, NEW wrote \in BOOLEAN, wrote => ok,
         x.comps = IF ok /\ RootStep.comp
                     THEN Append(Root.x.comps, <<Root.wf, Root.x.cur>>)
                     ELSE Root.x.comps,
         effects' = IF wrote THEN Append(effects, <<Root.wf, Root.x.cur>>) ELSE effects
  PROVE  \E f \in GoodFrame : TopMoved(f, ok, wrote)
<1> DEFINE f == [Root EXCEPT !.x = x]
<1>1. Len(frames) = 1 /\ Top = Root /\ TopStep = RootStep /\ Root \in GoodFrame
  BY RootIsTop, FrameAt
<1>2. frames' = [frames EXCEPT ![Len(frames)] = f]
  BY <1>1 DEF SetRoot, Root
<1>3. f.x = x /\ f.wf = Root.wf /\ f \in GoodFrame
  BY <1>1, FrameFacts, FrameUpdate DEF FrameOf
<1> HIDE DEF f
<1> QED BY <1>1, <1>2, <1>3 DEF TopMoved, TopChange

LEMMA ModelMoves ==
  ASSUME EngineInv, pc = "llm", NEW ok \in BOOLEAN, ModelAdvances(ok),
         NEW wrote \in BOOLEAN, wrote => ok,
         effects' = IF wrote THEN Append(effects, <<Root.wf, Root.x.cur>>) ELSE effects
  PROVE  \E f \in GoodFrame : TopMoved(f, ok, wrote)
<1> DEFINE y == Advance(Root.wf, Root.x, ok)
           z == [y EXCEPT !.raised = FALSE]
<1>1. /\ Root.wf \in Workflows /\ Root.x \in GoodState(Root.wf)
      /\ Root.x \in ExecState(Root.wf) /\ pc # "engine"
  BY FrameAt, FrameFacts
<1>2. /\ y \in GoodState(Root.wf) /\ y \in ExecState(Root.wf)
      /\ y.comps = IF ok /\ RootStep.comp
                     THEN Append(Root.x.comps, <<Root.wf, Root.x.cur>>)
                     ELSE Root.x.comps
  BY <1>1, GoodAdvance, StackOfAdvance DEF GoodState, RootStep
<1>3. SetRoot(z)
  BY DEF ModelAdvances
<1> HIDE DEF y
<1>4. z \in GoodState(Root.wf) /\ z.comps = y.comps
  BY <1>1, <1>2, GoodMarks, StackOfMarks
<1> HIDE DEF z
<1>5. z.comps = IF ok /\ RootStep.comp
                  THEN Append(Root.x.comps, <<Root.wf, Root.x.cur>>) ELSE Root.x.comps
  BY <1>2, <1>4
<1> QED BY <1>1, <1>3, <1>4, <1>5, SetRootMoves

LEMMA PassingMoves ==
  ASSUME EngineInv, NEW a, ModelFastForwards(a)
  PROVE  \E f \in GoodFrame, ok \in BOOLEAN : EngineMoved(f, ok)
<1> DEFINE x == FastForward(Root.wf, Root.x, a)
           f == [Root EXCEPT !.x = x]
<1>1. pc # "engine" /\ SetRoot(x) /\ effects' = effects
  BY DEF ModelFastForwards
<1>2. x \in GoodState(Root.wf) /\ x.comps = Root.x.comps
  BY FrameAt, FrameFacts, GoodFastForward, StackOfFastForward
<1>3. Len(frames) = 1 /\ Top = Root /\ Root \in GoodFrame
  BY <1>1, RootIsTop, FrameAt
<1>4. frames' = [frames EXCEPT ![Len(frames)] = f]
  BY <1>1, <1>3 DEF SetRoot, Root
<1> HIDE DEF x
<1>5. f.x = x /\ f.wf = Root.wf /\ f \in GoodFrame
  BY <1>2, <1>3, FrameFacts, FrameUpdate DEF FrameOf
<1> HIDE DEF f
<1> QED BY <1>1, <1>2, <1>3, <1>4, <1>5, TopChanges

LEMMA RunsMoves ==
  ASSUME EngineInv, EngineRuns
  PROVE  \E f \in GoodFrame, ok \in BOOLEAN : EngineMoved(f, ok)
<1> DEFINE f == [Root EXCEPT !.steps = 0]
<1>1. pc # "engine" /\ effects' = effects
  BY DEF EngineRuns
<1>2. Len(frames) = 1 /\ Root \in GoodFrame /\ Top = Root
  BY <1>1, RootIsTop, FrameAt
<1>3. frames' = [frames EXCEPT ![Len(frames)] = f]
  BY <1>2 DEF EngineRuns, Root
<1>4. f.x.comps = Root.x.comps /\ f.wf = Root.wf /\ f \in GoodFrame
  BY <1>2, FrameFacts, FrameUpdate DEF FrameOf
<1> HIDE DEF f
<1> QED BY <1>1, <1>2, <1>3, <1>4, TopChanges

-----------------------------------------------------------------------------
(* The record follows a move of the top frame, and the opening and closing *)
(* of one.                                                                 *)
LEMMA MovedStacks ==
  ASSUME EngineInv, NEW f, frames' = [frames EXCEPT ![Len(frames)] = f]
  PROVE  /\ DOMAIN Stacks' = 1 .. Len(frames) /\ Stacks'[Len(frames)] = f.x.comps
         /\ \A j \in 1 .. Len(frames) : j # Len(frames) => Stacks'[j] = Stacks[j]
<1>1. DOMAIN frames = 1 .. Len(frames) /\ Len(frames) \in 1 .. Len(frames)
  BY FrameAt
<1>2. /\ DOMAIN frames' = 1 .. Len(frames) /\ frames'[Len(frames)] = f
      /\ \A j \in 1 .. Len(frames) : j # Len(frames) => frames'[j] = frames[j]
  BY <1>1
<1> QED BY <1>1, <1>2 DEF Stacks

LEMMA MovedRecord ==
  ASSUME EngineInv, Recorded(effects, Stacks),
         NEW f, NEW ok \in BOOLEAN, NEW wrote \in BOOLEAN, TopMoved(f, ok, wrote)
  PROVE  Recorded(effects', Stacks')
<1> DEFINE n == Len(frames)
           c == TopChange
           s == Stacks
           t == Stacks'
           old == effects
           new == effects'
<1>1. /\ n \in Nat \ {0} /\ n \in 1 .. n
      /\ DOMAIN s = 1 .. n /\ \A k \in 1 .. n : s[k] \in Seq(Changes)
  BY TheStacks
<1>2. Top = frames[n] /\ s[n] = Top.x.comps /\ c \in Changes
  BY <1>1, FrameAt, TheStacks, TopState
<1>3. /\ DOMAIN t = 1 .. n /\ t[n] = f.x.comps
      /\ \A j \in 1 .. n : j # n => t[j] = s[j]
  BY MovedStacks DEF TopMoved
<1>4. TopStep.comp = Compensable(c)
  BY DEF Compensable, TopStep, TopChange
<1>5. t[n] = IF ok /\ Compensable(c) THEN Append(s[n], c) ELSE s[n]
  BY <1>2, <1>3, <1>4 DEF TopMoved
<1>6. old \in Seq(Changes) /\ Recorded(old, s)
  BY DEF EngineInv
<1>7. new = (IF wrote THEN Append(old, c) ELSE old) /\ (wrote => ok)
  BY DEF TopMoved
<1> HIDE DEF n, c, s, t, old, new
<1>8. CASE wrote
  <2>1. t[n] = IF Compensable(c) THEN Append(s[n], c) ELSE s[n]
    BY <1>5, <1>7, <1>8
  <2>2. Recorded(Append(old, c), t)
    <3>1. c \in Changes /\ n \in Nat \ {0} /\ old \in Seq(Changes)
      BY <1>1, <1>2, <1>6
    <3>2. DOMAIN s = 1 .. n /\ \A k \in 1 .. n : s[k] \in Seq(Changes)
      BY <1>1
    <3>3. DOMAIN t = 1 .. n /\ \A k \in 1 .. n : k # n => t[k] = s[k]
      BY <1>3
    <3>4. Recorded(old, s)
      BY <1>6
    <3> QED BY ONLY <3>1, <3>2, <3>3, <3>4, <2>1, RecordPushes
  <2> QED BY <1>7, <1>8, <2>2 DEF new, t
<1>9. CASE ~wrote
  <2>1. \A u \in Seq(Changes) : \A i \in DOMAIN u :
          i \in DOMAIN Append(u, c) /\ Append(u, c)[i] = u[i]
    OBVIOUS
  <2>2. \A k \in DOMAIN s : \A i \in DOMAIN s[k] :
          i \in DOMAIN t[k] /\ t[k][i] = s[k][i]
    <3> SUFFICES ASSUME NEW k \in 1 .. n, NEW i \in DOMAIN s[k]
                 PROVE  i \in DOMAIN t[k] /\ t[k][i] = s[k][i]
      BY <1>1
    <3>1. s[k] \in Seq(Changes)
      BY <1>1
    <3>2. t[k] = s[k] \/ t[k] = Append(s[k], c)
      BY <1>3, <1>5
    <3> QED BY <2>1, <3>1, <3>2
  <2>3. Recorded(old, t)
    BY ONLY <1>1, <1>3, <1>6, <2>2, RecordStays
  <2> QED BY <1>7, <1>9, <2>3 DEF new, t
<1> QED BY <1>8, <1>9

LEMMA EngineMovedRecord ==
  ASSUME EngineInv, Recorded(effects, Stacks),
         \E f \in GoodFrame, ok \in BOOLEAN : EngineMoved(f, ok)
  PROVE  Recorded(effects', Stacks')
<1>1. PICK f \in GoodFrame, ok \in BOOLEAN : EngineMoved(f, ok)
  OBVIOUS
<1>2. PICK wrote \in BOOLEAN : wrote = (ok /\ TopStep.writes)
  BY TopState
<1>3. TopMoved(f, ok, wrote)
  BY <1>1, <1>2 DEF EngineMoved
<1> QED BY <1>3, MovedRecord

Enters == TopStep.sub \in Workflows /\ frames' = Append(frames, NewFrame(TopStep.sub))

LEMMA EnteredStacks ==
  ASSUME EngineInv, Enters
  PROVE  /\ Len(frames') = Len(frames) + 1 /\ frames'[Len(frames) + 1].wf = TopStep.sub
         /\ \A k \in 1 .. Len(frames) : frames'[k] = frames[k]
         /\ DOMAIN Stacks' = 1 .. Len(frames) + 1 /\ Stacks'[Len(frames) + 1] = <<>>
         /\ \A k \in 1 .. Len(frames) : Stacks'[k] = Stacks[k]
<1> DEFINE n == Len(frames)
           f == NewFrame(TopStep.sub)
<1>1. frames \in Seq(GoodFrame) /\ n \in Nat /\ DOMAIN frames = 1 .. n
  BY FrameAt DEF EngineInv
<1>2. f \in GoodFrame /\ f.wf = TopStep.sub /\ f.x.comps = <<>>
  BY NewFrameGood DEF Enters, NewFrame, InitialState
<1> HIDE DEF f
<1>3. /\ Len(frames') = n + 1 /\ DOMAIN frames' = 1 .. n + 1 /\ frames'[n + 1] = f
      /\ \A k \in 1 .. n : frames'[k] = frames[k]
  BY <1>1, <1>2 DEF Enters, f
<1>4. n + 1 \in 1 .. n + 1 /\ \A k \in 1 .. n : k \in 1 .. n + 1
  BY <1>1
<1>5. \A k \in 1 .. n + 1 : Stacks'[k] = frames'[k].x.comps
  BY <1>3 DEF Stacks
<1>6. \A k \in 1 .. n : Stacks[k] = frames[k].x.comps
  BY <1>1 DEF Stacks
<1>7. DOMAIN Stacks' = 1 .. n + 1
  BY <1>3 DEF Stacks
<1> QED BY <1>2, <1>3, <1>4, <1>5, <1>6, <1>7

LEMMA EnterRecord ==
  ASSUME EngineInv, Recorded(effects, Stacks), Enters, effects' = effects
  PROVE  Recorded(effects', Stacks')
<1> DEFINE s == Stacks
           t == Stacks'
           n == Len(frames)
<1>1. /\ n \in Nat /\ DOMAIN s = 1 .. n /\ DOMAIN t = 1 .. n + 1
      /\ \A k \in 1 .. n : t[k] = s[k]
  BY TheStacks, EnteredStacks
<1>2. Recorded(effects, s)
  OBVIOUS
<1> HIDE DEF s, t, n
<1>3. DOMAIN s \subseteq DOMAIN t
      /\ \A k \in DOMAIN s : \A i \in DOMAIN s[k] : i \in DOMAIN t[k] /\ t[k][i] = s[k][i]
  BY ONLY <1>1
<1>4. Recorded(effects, t)
  BY ONLY <1>2, <1>3, RecordStays
<1> QED BY <1>4 DEF t

(* A child's stack goes on its parent's, and its parent's step may be put  *)
(* on top of it.                                                           *)
Nesting == frames[Len(frames) - 1]
LEMMA LeftStacks ==
  ASSUME EngineInv, LeaveSubWorkflow
  PROVE  LET n == Len(frames)
             c == <<Nesting.wf, Nesting.x.cur>>
             both == Stacks[n - 1] \o Stacks[n]
         IN  /\ n > 1 /\ Len(frames') = n - 1 /\ DOMAIN Stacks' = 1 .. n - 1
             /\ \A k \in 1 .. n - 1 : frames'[k].wf = frames[k].wf
             /\ \A k \in 1 .. n - 1 : k # n - 1 => frames'[k] = frames[k]
             /\ \A k \in 1 .. n - 1 : k # n - 1 => Stacks'[k] = Stacks[k]
             /\ c \in Changes /\ both \in Seq(Changes)
             /\ Stacks'[n - 1] = both \/ (Compensable(c) /\ Stacks'[n - 1] = Append(both, c))
<1> DEFINE n == Len(frames)
           parent == frames[n - 1]
           merged == Merged(parent.x, Top.x)
           ok == Top.x.finished /\ Top.x.failed = 0
           i == parent.x.cur
           y == Settle(Advance(parent.wf, merged, ok), i)
           f == [parent EXCEPT !.x = y, !.steps = parent.steps + 1,
                               !.ran = parent.ran \cup IF ok THEN {i} ELSE {}]
           c == <<parent.wf, i>>
           both == Stacks[n - 1] \o Stacks[n]
<1>1. n \in Nat /\ n > 1 /\ n - 1 \in 1 .. n /\ n \in 1 .. n
  BY FrameAt DEF LeaveSubWorkflow
<1>2. parent \in GoodFrame /\ Top \in GoodFrame /\ Top = frames[n]
  BY <1>1, FrameAt
<1>3. /\ parent.wf \in Workflows /\ parent.x \in GoodState(parent.wf)
      /\ parent.x \in ExecState(parent.wf) /\ i \in StepIds(parent.wf)
      /\ parent.x.comps \in Seq(Changes) /\ Top.x.comps \in Seq(Changes)
  BY <1>2, FrameFacts DEF ExecState
<1>4. Stacks[n - 1] = parent.x.comps /\ Stacks[n] = Top.x.comps /\ c \in Changes
  BY <1>1, <1>2, <1>3, TheStacks, ChangeOf
<1>5. /\ merged \in GoodState(parent.wf) /\ merged \in ExecState(parent.wf)
      /\ merged.comps = both /\ both \in Seq(Changes) /\ merged.cur = i
  <2>1. parent.x.comps \o Top.x.comps \in Seq(Changes)
    BY <1>3, ConcatProperties
  <2>2. merged \in GoodState(parent.wf)
    BY <1>3, <2>1, GoodMarks DEF Merged
  <2>3. merged.comps = parent.x.comps \o Top.x.comps /\ merged.cur = i
    BY <1>3 DEF Merged, ExecState
  <2> QED BY <1>4, <2>1, <2>2, <2>3 DEF GoodState
<1>6. ok \in BOOLEAN /\ Compensable(c) = Step(parent.wf, i).comp
  BY DEF Compensable
<1> HIDE DEF merged, ok, both
<1>7. /\ Advance(parent.wf, merged, ok) \in GoodState(parent.wf)
      /\ \/ Advance(parent.wf, merged, ok).comps = both
         \/ Compensable(c) /\ Advance(parent.wf, merged, ok).comps = Append(both, c)
  BY <1>3, <1>5, <1>6, GoodAdvance, StackOfAdvance
<1>8. y.comps = both \/ (Compensable(c) /\ y.comps = Append(both, c))
  BY <1>7, StackOfMarks DEF GoodState
<1>9. f.x = y /\ f.wf = parent.wf
  BY <1>2, FrameFacts DEF FrameOf
<1>10. /\ Len(Front(frames)) = n - 1 /\ Front(frames) \in Seq(GoodFrame)
       /\ \A k \in 1 .. n - 1 : Front(frames)[k] = frames[k]
  BY <1>1, FrameAt, SubSeqProperties DEF Front, EngineInv
<1>11. n - 1 \in 1 .. n - 1
  BY <1>1
<1>12. frames' = [Front(frames) EXCEPT ![n - 1] = f]
  BY <1>10, <1>11 DEF LeaveSubWorkflow, merged, ok
<1> HIDE DEF f, y
<1>13. /\ DOMAIN frames' = 1 .. n - 1 /\ frames'[n - 1] = f
       /\ \A k \in 1 .. n - 1 : k # n - 1 => frames'[k] = frames[k]
  BY <1>10, <1>11, <1>12
<1>14. Len(frames') = n - 1
  <2>1. EngineInv' /\ n - 1 \in Nat
    BY <1>1, LeaveInv
  <2>2. frames' \in Seq(GoodFrame)
    BY <2>1 DEF EngineInv
  <2>3. \A q \in Seq(GoodFrame), m \in Nat : DOMAIN q = 1 .. m => Len(q) = m
    OBVIOUS
  <2> QED BY <1>13, <2>1, <2>2, <2>3
<1>15. /\ DOMAIN Stacks' = 1 .. n - 1
       /\ \A k \in 1 .. n - 1 : Stacks'[k] = frames'[k].x.comps
  BY <1>13 DEF Stacks
<1>16. \A k \in 1 .. n - 1 : k # n - 1 => Stacks'[k] = Stacks[k]
  <2>1. \A k \in 1 .. n - 1 : k \in 1 .. n
    BY <1>1
  <2> QED BY <1>13, <1>15, <2>1, TheStacks
<1>17. Stacks'[n - 1] = both \/ (Compensable(c) /\ Stacks'[n - 1] = Append(both, c))
  BY <1>8, <1>9, <1>11, <1>13, <1>15
<1>18. \A k \in 1 .. n - 1 : frames'[k].wf = frames[k].wf
  BY <1>9, <1>13
<1> QED BY <1>1, <1>4, <1>5, <1>13, <1>14, <1>15, <1>16, <1>17, <1>18 DEF Nesting, both

LEMMA LeaveRecord ==
  ASSUME EngineInv, Recorded(effects, Stacks), LeaveSubWorkflow
  PROVE  Recorded(effects', Stacks')
<1> DEFINE n == Len(frames)
           c == <<Nesting.wf, Nesting.x.cur>>
           s == Stacks
           t == Stacks'
           both == s[n - 1] \o s[n]
<1>1. /\ n \in Nat /\ n > 1 /\ DOMAIN s = 1 .. n
      /\ \A k \in 1 .. n : s[k] \in Seq(Changes)
  BY TheStacks, LeftStacks
<1>2. /\ DOMAIN t = 1 .. n - 1 /\ both \in Seq(Changes)
      /\ \A k \in 1 .. n - 1 : k # n - 1 => t[k] = s[k]
      /\ t[n - 1] \in {both, Append(both, c)}
  BY LeftStacks
<1>3. effects' = effects /\ Recorded(effects, s)
  BY DEF LeaveSubWorkflow
<1> DEFINE u == [k \in 1 .. n - 1 |-> IF k = n - 1 THEN both ELSE s[k]]
<1> HIDE DEF s, t, n, c
<1>4. /\ DOMAIN u = 1 .. n - 1 /\ u[n - 1] = s[n - 1] \o s[n]
      /\ \A k \in 1 .. n - 1 : k # n - 1 => u[k] = s[k]
  <2>1. n - 1 \in 1 .. n - 1
    BY <1>1
  <2> QED BY <2>1
<1>5. \A k \in 1 .. n - 1 : u[k] \in Seq(Changes)
  <2>1. \A k \in 1 .. n - 1 : k \in 1 .. n
    BY <1>1
  <2> QED BY <1>1, <1>2, <1>4, <2>1
<1> HIDE DEF u
<1>6. Recorded(effects, u)
  <2>1. DOMAIN s = 1 .. n /\ \A k \in 1 .. n : s[k] \in Seq(Changes)
    BY <1>1
  <2>2. n \in Nat /\ n > 1
    BY <1>1
  <2>3. Recorded(effects, s)
    BY <1>3
  <2> QED BY ONLY <1>4, <2>1, <2>2, <2>3, RecordMerges
<1>7. DOMAIN u \subseteq DOMAIN t
      /\ \A k \in DOMAIN u : \A j \in DOMAIN u[k] : j \in DOMAIN t[k] /\ t[k][j] = u[k][j]
  <2>1. \A v \in Seq(Changes) : \A j \in DOMAIN v :
          j \in DOMAIN Append(v, c) /\ Append(v, c)[j] = v[j]
    OBVIOUS
  <2>2. \A k \in 1 .. n - 1 : t[k] = u[k] \/ t[k] = Append(u[k], c)
    BY <1>2, <1>4
  <2> QED BY <1>2, <1>4, <1>5, <2>1, <2>2
<1>8. Recorded(effects, t)
  BY ONLY <1>6, <1>7, RecordStays
<1> QED BY <1>3, <1>8 DEF t

LEMMA RecordInit == EngineInit => NoCompensationLost
<1> SUFFICES ASSUME EngineInit PROVE Recorded(effects, Stacks)
  BY DEF NoCompensationLost
<1> DEFINE undoable == {n \in DOMAIN effects : Compensable(effects[n])}
           from == [n \in undoable |-> n]
<1>1. undoable = {}
  BY DEF EngineInit
<1>2. from \in [undoable -> Places(Stacks)] /\ \A n \in undoable : FALSE
  BY <1>1
<1> QED BY <1>2 DEF Recorded

LEMMA RecordNext ==
  EngineInv /\ NoCompensationLost /\ [EngineNext]_engineVars => NoCompensationLost'
<1> SUFFICES ASSUME EngineInv, NoCompensationLost, [EngineNext]_engineVars,
                    pc' # "saga", pc' # "over"
             PROVE  Recorded(effects', Stacks')
  BY DEF NoCompensationLost, Recorded, Places
<1>1. CASE UNCHANGED <<frames, pc, effects>>
  <2>1. Recorded(effects, Stacks)
    BY <1>1 DEF NoCompensationLost
  <2>2. effects' = effects /\ Stacks' = Stacks
    BY <1>1 DEF Stacks
  <2> QED BY <2>1, <2>2
<1>2. CASE EngineStep
  <2>1. pc = "engine"
    BY <1>2 DEF EngineStep, ExecDeterministic, ExecToolCall, Conditional, Loop,
                EnterSubWorkflow, LeaveSubWorkflow, ExhaustBudget, YieldToModel, OnStep
  <2>2. Recorded(effects, Stacks)
    BY <2>1 DEF NoCompensationLost
  <2>3. CASE YieldToModel
    <3>1. effects' = effects /\ Stacks' = Stacks
      BY <2>3 DEF YieldToModel, Stacks
    <3> QED BY <2>2, <3>1
  <2>4. CASE EnterSubWorkflow
    <3>1. effects' = effects /\ (Refuses \/ Enters)
      BY <2>4 DEF EnterSubWorkflow, Refuses, Enters
    <3> QED BY <2>2, <2>4, <3>1, RefusalMoves, EngineMovedRecord, EnterRecord
  <2> QED BY <1>2, <2>2, <2>3, <2>4, DeterministicMoves, ToolCallMoves, ControlMoves,
             ExhaustMoves, EngineMovedRecord, LeaveRecord DEF EngineStep
<1>3. ASSUME NEW ok \in BOOLEAN, NEW wrote \in BOOLEAN, ModelCalls(ok, wrote)
      PROVE  Recorded(effects', Stacks')
  <2>1. /\ pc = "llm" /\ ModelAdvances(ok) /\ (wrote => ok)
        /\ effects' = IF wrote THEN Append(effects, <<Root.wf, Root.x.cur>>) ELSE effects
    BY <1>3 DEF ModelCalls
  <2>2. Recorded(effects, Stacks)
    BY <2>1 DEF NoCompensationLost
  <2>3. \E f \in GoodFrame : TopMoved(f, ok, wrote)
    BY <2>1, ModelMoves
  <2> QED BY <2>2, <2>3, MovedRecord
<1>4. CASE ModelSkips
  <2>1. PICK ok \in BOOLEAN : ok
    OBVIOUS
  <2>2. PICK wrote \in BOOLEAN : ~wrote
    OBVIOUS
  <2>3. /\ pc = "llm" /\ ModelAdvances(ok)
        /\ effects' = IF wrote THEN Append(effects, <<Root.wf, Root.x.cur>>) ELSE effects
    BY <1>4, <2>1, <2>2 DEF ModelSkips
  <2>4. Recorded(effects, Stacks)
    BY <2>3 DEF NoCompensationLost
  <2>5. \E f \in GoodFrame : TopMoved(f, ok, wrote)
    BY <2>2, <2>3, ModelMoves
  <2> QED BY <2>4, <2>5, MovedRecord
<1>5. ASSUME NEW a \in Tools, ModelFastForwards(a)
      PROVE  Recorded(effects', Stacks')
  BY <1>5, PassingMoves, EngineMovedRecord DEF NoCompensationLost, ModelFastForwards
<1>6. CASE EngineRuns
  BY <1>6, RunsMoves, EngineMovedRecord DEF NoCompensationLost, EngineRuns
<1>7. CASE RunEnds \/ Compensate
  <2>1. pc' \in {"saga", "over"}
    BY <1>7 DEF RunEnds, Compensate
  <2> QED BY <2>1
<1> QED BY <1>1, <1>2, <1>3, <1>4, <1>5, <1>6, <1>7 DEF EngineNext, Ended, engineVars

(* Until the run ends, each change that has an inverse has that inverse on *)
(* the stack of a live workflow, in the order the changes were made: when  *)
(* advance() raises half way, when a nested workflow fails, on every turn  *)
(* of a loop.                                                              *)
THEOREM NoCompensationLostHolds == EngineSpec => []NoCompensationLost
BY EngineInvInit, EngineNextInv, RecordInit, RecordNext, PTL DEF EngineSpec

-----------------------------------------------------------------------------
(* A run the engine drives alone is a transaction.                         *)

(* The recipes the model has no part in: a step has an inverse exactly     *)
(* when it changes something, and nests only such recipes.                 *)
WholeRecipes ==
  \A wf \in Workflows \ Conversed : \A i \in StepIds(wf) :
     /\ Step(wf, i).kind \in {"deterministic", "tool_call"} =>
          Step(wf, i).comp = Step(wf, i).writes
     /\ Step(wf, i).kind = "sub_workflow" =>
          ~Step(wf, i).comp /\ Step(wf, i).sub \notin Conversed

(* The log of the changes is the n stacks laid end to end.                 *)
Laid(log, stacks, n) ==
  \E off \in [1 .. n + 1 -> 0 .. Len(log)] :
     /\ off[1] = 0 /\ off[n + 1] = Len(log)
     /\ \A k \in 1 .. n :
          /\ off[k + 1] = off[k] + Len(stacks[k])
          /\ \A i \in 1 .. Len(stacks[k]) : log[off[k] + i] = stacks[k][i]

LEMMA LaidPushes ==
  ASSUME NEW n \in Nat \ {0}, NEW s, NEW t, NEW log \in Seq(Changes), NEW c \in Changes,
         \A k \in 1 .. n : s[k] \in Seq(Changes),
         Laid(log, s, n), t[n] = Append(s[n], c),
         \A k \in 1 .. n : k # n => t[k] = s[k]
  PROVE  Laid(Append(log, c), t, n)
<1>1. PICK off \in [1 .. n + 1 -> 0 .. Len(log)] :
        /\ off[1] = 0 /\ off[n + 1] = Len(log)
        /\ \A k \in 1 .. n :
             /\ off[k + 1] = off[k] + Len(s[k])
             /\ \A i \in 1 .. Len(s[k]) : log[off[k] + i] = s[k][i]
  BY DEF Laid
<1> DEFINE new == [off EXCEPT ![n + 1] = Len(log) + 1]
           more == Append(log, c)
<1>2. /\ Len(log) \in Nat /\ Len(more) = Len(log) + 1 /\ more[Len(log) + 1] = c
      /\ \A j \in 1 .. Len(log) : more[j] = log[j]
  OBVIOUS
<1>3. /\ n \in 1 .. n /\ n + 1 \in 1 .. n + 1 /\ n + 1 # 1 /\ 1 \in 1 .. n + 1
      /\ \A k \in 1 .. n : k \in 1 .. n + 1 /\ k + 1 \in 1 .. n + 1 /\ k # n + 1
      /\ \A k \in 1 .. n : k # n => k + 1 # n + 1
  OBVIOUS
<1>4. new[n + 1] = Len(log) + 1 /\ \A k \in 1 .. n : new[k] = off[k]
  BY <1>3
<1>5. new \in [1 .. n + 1 -> 0 .. Len(more)]
  <2>1. \A j \in 0 .. Len(log) : j \in 0 .. Len(more)
    BY <1>2
  <2>2. Len(log) + 1 \in 0 .. Len(more)
    BY <1>2
  <2>3. \A k \in 1 .. n + 1 : new[k] \in 0 .. Len(more)
    BY <1>3, <2>1, <2>2
  <2> QED BY <2>3
<1> HIDE DEF new, more
<1>6. ASSUME NEW k \in 1 .. n
      PROVE  /\ new[k + 1] = new[k] + Len(t[k])
             /\ \A i \in 1 .. Len(t[k]) : more[new[k] + i] = t[k][i]
  <2>1. /\ s[k] \in Seq(Changes) /\ off[k] \in 0 .. Len(log) /\ off[k + 1] \in 0 .. Len(log)
        /\ new[k] = off[k] /\ off[k + 1] = off[k] + Len(s[k])
    BY <1>1, <1>3, <1>4
  <2>2. \A i \in 1 .. Len(s[k]) : off[k] + i \in 1 .. Len(log)
    BY <1>2, <2>1
  <2>a. \A i \in 1 .. Len(s[k]) : log[off[k] + i] = s[k][i]
    BY <1>1
  <2>b. \A j \in 1 .. Len(log) : more[j] = log[j]
    BY <1>2
  <2>3. \A i \in 1 .. Len(s[k]) : more[off[k] + i] = s[k][i]
    BY ONLY <2>2, <2>a, <2>b
  <2>4. CASE k = n
    <3>1. t[k] = Append(s[k], c) /\ off[k] + Len(s[k]) = Len(log)
      BY <1>1, <2>4
    <3>2. /\ Len(t[k]) = Len(s[k]) + 1 /\ t[k][Len(s[k]) + 1] = c
          /\ \A i \in 1 .. Len(s[k]) : t[k][i] = s[k][i]
      BY <2>1, <3>1
    <3>4. off[k] + (Len(s[k]) + 1) = Len(log) + 1
      <4>1. \A x, y, z \in Nat : x + y = z => x + (y + 1) = z + 1
        OBVIOUS
      <4>2. off[k] \in Nat /\ Len(s[k]) \in Nat
        BY <2>1
      <4> QED BY ONLY <1>2, <3>1, <4>1, <4>2
    <3>3. new[k + 1] = new[k] + Len(t[k])
      BY <1>4, <2>1, <2>4, <3>2, <3>4
    <3>5. \A i \in 1 .. Len(t[k]) : i \in 1 .. Len(s[k]) \/ i = Len(s[k]) + 1
      BY <2>1, <3>2
    <3> QED BY <1>2, <2>1, <2>3, <3>2, <3>3, <3>4, <3>5
  <2>5. CASE k # n
    <3>1. t[k] = s[k] /\ new[k + 1] = off[k + 1]
      <4>1. k + 1 \in 1 .. n
        BY <2>5
      <4> QED BY <1>4, <2>5, <4>1
    <3> QED BY <2>1, <2>3, <3>1
  <2> QED BY <2>4, <2>5
<1>7. new[1] = 0 /\ new[n + 1] = Len(more)
  <2>1. 1 \in 1 .. n
    OBVIOUS
  <2> QED BY <1>1, <1>2, <1>4, <2>1 DEF more
<1> QED BY <1>5, <1>6, <1>7 DEF Laid, more

LEMMA LaidStays ==
  ASSUME NEW n \in Nat \ {0}, NEW s, NEW t, NEW log, Laid(log, s, n),
         \A k \in 1 .. n : t[k] = s[k]
  PROVE  Laid(log, t, n)
<1>1. PICK off \in [1 .. n + 1 -> 0 .. Len(log)] :
        /\ off[1] = 0 /\ off[n + 1] = Len(log)
        /\ \A k \in 1 .. n :
             /\ off[k + 1] = off[k] + Len(s[k])
             /\ \A i \in 1 .. Len(s[k]) : log[off[k] + i] = s[k][i]
  BY DEF Laid
<1>2. \A k \in 1 .. n :
        /\ off[k + 1] = off[k] + Len(t[k])
        /\ \A i \in 1 .. Len(t[k]) : log[off[k] + i] = t[k][i]
  <2> SUFFICES ASSUME NEW k \in 1 .. n
               PROVE  /\ off[k + 1] = off[k] + Len(t[k])
                      /\ \A i \in 1 .. Len(t[k]) : log[off[k] + i] = t[k][i]
    OBVIOUS
  <2>1. t[k] = s[k]
    OBVIOUS
  <2>2. /\ off[k + 1] = off[k] + Len(s[k])
        /\ \A i \in 1 .. Len(s[k]) : log[off[k] + i] = s[k][i]
    BY ONLY <1>1, k \in 1 .. n
  <2> QED BY ONLY <2>1, <2>2
<1> QED BY <1>1, <1>2 DEF Laid

LEMMA LaidOpens ==
  ASSUME NEW n \in Nat \ {0}, NEW s, NEW t, NEW log \in Seq(Changes), Laid(log, s, n),
         \A k \in 1 .. n : t[k] = s[k], t[n + 1] = <<>>
  PROVE  Laid(log, t, n + 1)
<1>1. PICK off \in [1 .. n + 1 -> 0 .. Len(log)] :
        /\ off[1] = 0 /\ off[n + 1] = Len(log)
        /\ \A k \in 1 .. n :
             /\ off[k + 1] = off[k] + Len(s[k])
             /\ \A i \in 1 .. Len(s[k]) : log[off[k] + i] = s[k][i]
  BY DEF Laid
<1> DEFINE new == [k \in 1 .. (n + 1) + 1 |-> IF k = n + 2 THEN Len(log) ELSE off[k]]
<1>2. /\ Len(log) \in Nat /\ Len(log) \in 0 .. Len(log)
      /\ \A k \in 1 .. n + 2 : k = n + 2 \/ k \in 1 .. n + 1
  OBVIOUS
<1>3. /\ \A k \in 1 .. n + 1 : k \in 1 .. (n + 1) + 1 /\ k # n + 2
      /\ n + 2 \in 1 .. (n + 1) + 1 /\ (n + 1) + 1 = n + 2
      /\ \A k \in 1 .. n : k \in 1 .. n + 1 /\ k + 1 \in 1 .. n + 1
  OBVIOUS
<1>4. new[n + 2] = Len(log) /\ \A k \in 1 .. n + 1 : new[k] = off[k]
  BY <1>3
<1>5. new \in [1 .. (n + 1) + 1 -> 0 .. Len(log)]
  BY <1>2, <1>3
<1> HIDE DEF new
<1>6. ASSUME NEW k \in 1 .. n + 1
      PROVE  /\ new[k + 1] = new[k] + Len(t[k])
             /\ \A i \in 1 .. Len(t[k]) : log[new[k] + i] = t[k][i]
  <2>1. CASE k = n + 1
    <3>1. t[k] = <<>> /\ new[k] = Len(log) /\ new[k + 1] = Len(log)
      BY <1>1, <1>3, <1>4, <2>1
    <3>2. Len(t[k]) = 0
      BY <3>1
    <3> QED BY <1>2, <3>1, <3>2
  <2>2. CASE k # n + 1
    <3>1. k \in 1 .. n
      BY <2>2
    <3>2. t[k] = s[k] /\ new[k] = off[k] /\ new[k + 1] = off[k + 1]
      BY <1>3, <1>4, <3>1
    <3> QED BY <1>1, <3>1, <3>2
  <2> QED BY <2>1, <2>2
<1>7. new[1] = 0 /\ new[(n + 1) + 1] = Len(log)
  <2>1. 1 \in 1 .. n + 1
    OBVIOUS
  <2> QED BY <1>1, <1>3, <1>4, <2>1
<1> QED BY <1>5, <1>6, <1>7 DEF Laid

LEMMA LaidMerges ==
  ASSUME NEW n \in Nat, n > 1, NEW s, NEW t, NEW log \in Seq(Changes),
         \A k \in 1 .. n : s[k] \in Seq(Changes),
         Laid(log, s, n), t[n - 1] = s[n - 1] \o s[n],
         \A k \in 1 .. n - 1 : k # n - 1 => t[k] = s[k]
  PROVE  Laid(log, t, n - 1)
<1>1. PICK off \in [1 .. n + 1 -> 0 .. Len(log)] :
        /\ off[1] = 0 /\ off[n + 1] = Len(log)
        /\ \A k \in 1 .. n :
             /\ off[k + 1] = off[k] + Len(s[k])
             /\ \A i \in 1 .. Len(s[k]) : log[off[k] + i] = s[k][i]
  BY DEF Laid
<1> DEFINE new == [k \in 1 .. (n - 1) + 1 |-> IF k = n THEN Len(log) ELSE off[k]]
<1>2. /\ Len(log) \in Nat /\ Len(log) \in 0 .. Len(log)
      /\ (n - 1) + 1 = n /\ n \in 1 .. n /\ n - 1 \in 1 .. n /\ 1 \in 1 .. n /\ 1 # n
      /\ \A k \in 1 .. n : k \in 1 .. n + 1
      /\ \A k \in 1 .. n - 1 : k \in 1 .. n /\ k # n /\ k + 1 \in 1 .. n
      /\ \A k \in 1 .. n - 1 : k # n - 1 => k + 1 # n
  OBVIOUS
<1>3. new[n] = Len(log) /\ \A k \in 1 .. n : k # n => new[k] = off[k]
  BY <1>2
<1>4. new \in [1 .. (n - 1) + 1 -> 0 .. Len(log)]
  BY <1>2
<1> HIDE DEF new
<1>5. ASSUME NEW k \in 1 .. n - 1
      PROVE  /\ new[k + 1] = new[k] + Len(t[k])
             /\ \A i \in 1 .. Len(t[k]) : log[new[k] + i] = t[k][i]
  <2>1. CASE k = n - 1
    <3>1. s[n - 1] \in Seq(Changes) /\ s[n] \in Seq(Changes)
      BY <1>2
    <3> DEFINE a == Len(s[n - 1])
               b == Len(s[n])
               o == off[n - 1]
    <3>2. /\ a \in Nat /\ b \in Nat /\ o \in Nat
          /\ off[n] = o + a /\ off[n + 1] = off[n] + b /\ off[n + 1] = Len(log)
      <4>1. off[(n - 1) + 1] = off[n - 1] + Len(s[n - 1])
        BY <1>1, <1>2
      <4>2. off[n - 1] \in 0 .. Len(log)
        BY <1>1, <1>2
      <4> QED BY <1>1, <1>2, <3>1, <4>1, <4>2
    <3>3. /\ t[k] = s[n - 1] \o s[n] /\ Len(t[k]) = a + b
          /\ \A i \in 1 .. a : t[k][i] = s[n - 1][i]
          /\ \A i \in 1 .. b : t[k][a + i] = s[n][i]
      <4>1. t[k] = s[n - 1] \o s[n]
        BY <2>1
      <4>2. \A u, v \in Seq(Changes) :
              /\ Len(u \o v) = Len(u) + Len(v)
              /\ \A i \in 1 .. Len(u) : (u \o v)[i] = u[i]
              /\ \A i \in 1 .. Len(v) : (u \o v)[Len(u) + i] = v[i]
        OBVIOUS
      <4>3. /\ Len(s[n - 1] \o s[n]) = a + b
            /\ \A i \in 1 .. a : (s[n - 1] \o s[n])[i] = s[n - 1][i]
            /\ \A i \in 1 .. b : (s[n - 1] \o s[n])[a + i] = s[n][i]
        BY ONLY <3>1, <4>2
      <4> HIDE DEF a, b
      <4> QED BY ONLY <4>1, <4>3
    <3>4. new[k + 1] = new[k] + Len(t[k])
      <4>1. new[k + 1] = Len(log) /\ new[k] = o
        BY <1>2, <1>3, <2>1
      <4>2. \A x, y, z \in Nat : (x + y) + z = x + (y + z)
        OBVIOUS
      <4> HIDE DEF a, b, o
      <4>3. Len(log) = o + (a + b)
        <5>1. Len(log) = (o + a) + b /\ o \in Nat /\ a \in Nat /\ b \in Nat
          BY ONLY <3>2
        <5> QED BY ONLY <4>2, <5>1
      <4> QED BY <3>3, <4>1, <4>3
    <3>5. /\ \A i \in 1 .. a : log[o + i] = s[n - 1][i]
          /\ \A i \in 1 .. b : log[(o + a) + i] = s[n][i]
      BY <1>1, <1>2, <3>2
    <3> HIDE DEF a, b, o
    <3>6. ASSUME NEW i \in 1 .. Len(t[k])
          PROVE  log[o + i] = t[k][i]
      <4>1. CASE i \in 1 .. a
        BY <3>3, <3>5, <4>1
      <4>2. CASE i \notin 1 .. a
        <5>1. i - a \in 1 .. b /\ a + (i - a) = i /\ (o + a) + (i - a) = o + i
          BY <3>2, <3>3, <4>2
        <5>2. log[(o + a) + (i - a)] = s[n][i - a] /\ t[k][a + (i - a)] = s[n][i - a]
          BY <3>3, <3>5, <5>1
        <5> QED BY <5>1, <5>2
      <4> QED BY <4>1, <4>2
    <3>7. new[k] = o
      BY <1>2, <1>3, <2>1 DEF o
    <3> QED BY <3>4, <3>6, <3>7
  <2>2. CASE k # n - 1
    <3>1. t[k] = s[k] /\ new[k] = off[k] /\ new[k + 1] = off[k + 1] /\ k \in 1 .. n
      BY <1>2, <1>3, <2>2
    <3> QED BY <1>1, <3>1
  <2> QED BY <2>1, <2>2
<1>6. new[1] = 0 /\ new[(n - 1) + 1] = Len(log)
  BY <1>1, <1>2, <1>3
<1> QED BY <1>4, <1>5, <1>6 DEF Laid

(* One stack is the log itself.                                            *)
LEMMA LaidAlone ==
  ASSUME NEW s, s[1] \in Seq(Changes), NEW log \in Seq(Changes)
  PROVE  Laid(log, s, 1) <=> log = s[1]
<1>1. ASSUME Laid(log, s, 1)
      PROVE  log = s[1]
  <2>1. PICK off \in [1 .. 1 + 1 -> 0 .. Len(log)] :
          /\ off[1] = 0 /\ off[1 + 1] = Len(log)
          /\ \A k \in 1 .. 1 :
               /\ off[k + 1] = off[k] + Len(s[k])
               /\ \A i \in 1 .. Len(s[k]) : log[off[k] + i] = s[k][i]
    BY <1>1 DEF Laid
  <2>2. 1 \in 1 .. 1
    OBVIOUS
  <2>3. Len(log) = 0 + Len(s[1]) /\ \A i \in 1 .. Len(s[1]) : log[0 + i] = s[1][i]
    BY <2>1, <2>2
  <2>4. Len(log) = Len(s[1]) /\ \A i \in 1 .. Len(log) : log[i] = s[1][i]
    BY <2>3
  <2> QED BY <2>4
<1>2. ASSUME log = s[1]
      PROVE  Laid(log, s, 1)
  <2> DEFINE off == [k \in 1 .. 1 + 1 |-> IF k = 1 THEN 0 ELSE Len(log)]
  <2>1. Len(log) \in Nat
    OBVIOUS
  <2>2. off \in [1 .. 1 + 1 -> 0 .. Len(log)] /\ off[1] = 0 /\ off[1 + 1] = Len(log)
    BY <2>1
  <2> HIDE DEF off
  <2>3. \A i \in 1 .. Len(s[1]) : log[0 + i] = s[1][i]
    BY <1>2
  <2>4. \A k \in 1 .. 1 :
          /\ off[k + 1] = off[k] + Len(s[k])
          /\ \A i \in 1 .. Len(s[k]) : log[off[k] + i] = s[k][i]
    <3>1. \A k \in 1 .. 1 : k = 1
      OBVIOUS
    <3> QED BY <1>2, <2>1, <2>2, <2>3, <3>1
  <2> QED BY <2>2, <2>4 DEF Laid
<1> QED BY <1>1, <1>2

(* Undoing the latest change shortens both the log and the stack by it.    *)
LEMMA UndoLast ==
  ASSUME NEW s \in Seq(Changes), s # <<>>
  PROVE  /\ Head(SagaOrder(s)) = Last(s)
         /\ SagaOrder(Tail(SagaOrder(s))) = Front(s)
         /\ Reverse(RemoveFirst(Reverse(s), Last(s))) = Front(s)
         /\ Front(s) \in Seq(Changes) /\ Len(Front(s)) = Len(s) - 1
<1> DEFINE n == Len(s)
           r == Reverse(s)
<1>1. n \in Nat \ {0} /\ DOMAIN s = 1 .. n /\ \A i \in 1 .. n : s[i] \in Changes
  BY EmptySeq
<1>2. r \in Seq(Changes) /\ Len(r) = n /\ \A i \in 1 .. n : r[i] = s[(n - i) + 1]
  <2>1. r \in Seq(Changes) /\ r = [i \in 1 .. n |-> s[(n - i) + 1]]
    BY ReverseType DEF Reverse
  <2>2. DOMAIN r = 1 .. n
    BY <2>1
  <2>3. \A q \in Seq(Changes), m \in Nat : DOMAIN q = 1 .. m => Len(q) = m
    OBVIOUS
  <2>4. Len(r) = n
    BY ONLY <1>1, <2>1, <2>2, <2>3
  <2> QED BY <2>1, <2>4
<1>3. 1 \in 1 .. n /\ r[1] = s[n] /\ r # <<>>
  <2>1. 1 \in 1 .. n /\ (n - 1) + 1 = n
    BY <1>1
  <2>2. r[1] = s[(n - 1) + 1]
    BY <1>2, <2>1
  <2>3. Len(r) # 0
    BY <1>1, <1>2
  <2> QED BY <2>1, <2>2, <2>3
<1>4. /\ Front(s) \in Seq(Changes) /\ Len(Front(s)) = n - 1
      /\ \A i \in 1 .. n - 1 : Front(s)[i] = s[i]
  BY <1>1, SubSeqProperties DEF Front
<1>5. /\ Tail(r) \in Seq(Changes) /\ Len(Tail(r)) = n - 1
      /\ \A i \in 1 .. n - 1 : Tail(r)[i] = r[i + 1]
  BY <1>1, <1>2, <1>3, HeadTailProperties
<1> HIDE DEF r
<1>6. Reverse(Tail(r)) = Front(s)
  <2> DEFINE u == Reverse(Tail(r))
  <2>1. u \in Seq(Changes) /\ u = [i \in 1 .. n - 1 |-> Tail(r)[((n - 1) - i) + 1]]
    BY <1>5, ReverseType DEF Reverse
  <2>2. ASSUME NEW i \in 1 .. n - 1
        PROVE  u[i] = Front(s)[i]
    <3>1. /\ ((n - 1) - i) + 1 \in 1 .. n - 1 /\ (((n - 1) - i) + 1) + 1 \in 1 .. n
          /\ (n - ((((n - 1) - i) + 1) + 1)) + 1 = i /\ i \in 1 .. n
      BY <1>1
    <3>2. u[i] = r[(((n - 1) - i) + 1) + 1]
      BY <1>5, <2>1, <3>1
    <3> QED BY <1>2, <1>4, <3>1, <3>2
  <2>3. DOMAIN u = 1 .. n - 1 /\ n - 1 \in Nat
    BY <1>1, <2>1
  <2>4. \A q \in Seq(Changes), m \in Nat : DOMAIN q = 1 .. m => Len(q) = m
    OBVIOUS
  <2> HIDE DEF u
  <2>5. Len(u) = n - 1
    BY ONLY <2>1, <2>3, <2>4
  <2>6. \A q, v \in Seq(Changes) :
          Len(q) = Len(v) /\ (\A i \in 1 .. Len(q) : q[i] = v[i]) => q = v
    OBVIOUS
  <2>7. u = Front(s)
    <3> HIDE DEF n
    <3> QED BY ONLY <1>4, <2>1, <2>2, <2>5, <2>6
  <2> QED BY <2>7 DEF u
<1>7. RemoveFirst(r, Last(s)) = Tail(r)
  <2> DEFINE e == Last(s)
             I == {i \in 1 .. Len(r) : r[i] = e}
  <2>1. 1 \in I /\ \A i \in I : 1 <= i
    BY <1>2, <1>3 DEF Last
  <2>2. I # {} /\ \A m \in I : (\A i \in I : m <= i) => m = 1
    BY <1>2, <2>1
  <2>3. SelectInSeq(r, LAMBDA v : v = e) = 1
    BY <2>1, <2>2 DEF SelectInSeq, Min
  <2>4. \E i \in 1 .. Len(r) : r[i] = e
    BY <2>1
  <2>5. RemoveFirst(r, e) = RemoveAt(r, 1)
    BY <2>3, <2>4 DEF RemoveFirst
  <2> DEFINE a == SubSeq(r, 1, 1 - 1)
             b == SubSeq(r, 1 + 1, Len(r))
  <2>6. a = <<>>
    BY <1>2
  <2>7. /\ b \in Seq(Changes) /\ Len(b) = n - 1
        /\ \A i \in 1 .. n - 1 : b[i] = r[i + 1]
    <3>1. /\ 1 + 1 \in Int /\ Len(r) \in Int /\ \A k \in 1 + 1 .. Len(r) : r[k] \in Changes
      BY <1>1, <1>2
    <3>2. b \in Seq(Changes) /\ Len(b) = (IF 1 + 1 <= Len(r) THEN Len(r) - (1 + 1) + 1 ELSE 0)
          /\ \A i \in 1 .. Len(r) - (1 + 1) + 1 : b[i] = r[(1 + 1) + i - 1]
      BY <3>1, SubSeqProperties
    <3>3. /\ Len(r) - (1 + 1) + 1 = n - 1 /\ (IF 1 + 1 <= Len(r) THEN Len(r) - (1 + 1) + 1 ELSE 0) = n - 1
          /\ \A i \in 1 .. n - 1 : (1 + 1) + i - 1 = i + 1
      BY <1>1, <1>2
    <3> HIDE DEF b
    <3> QED BY <3>2, <3>3
  <2>8. \A q, v \in Seq(Changes) :
          Len(q) = Len(v) /\ (\A i \in 1 .. Len(q) : q[i] = v[i]) => q = v
    OBVIOUS
  <2> HIDE DEF a, b
  <2>9. b = Tail(r)
    <3> HIDE DEF n
    <3> QED BY ONLY <1>5, <2>7, <2>8
  <2>10. a \o b = b
    BY <2>6, <2>7
  <2> QED BY <2>5, <2>9, <2>10 DEF RemoveAt, a, b
<1>8. Head(r) = Last(s)
  BY <1>2, <1>3 DEF Last
<1> QED BY <1>4, <1>6, <1>7, <1>8 DEF SagaOrder, r

(* The selected workflow stays the selected one.                           *)
LEMMA MovedRoot ==
  ASSUME EngineInv, NEW f, f.wf = Top.wf,
         frames' = [frames EXCEPT ![Len(frames)] = f]
  PROVE  /\ DOMAIN frames' = 1 .. Len(frames) /\ frames'[Len(frames)].wf = Top.wf
         /\ \A k \in 1 .. Len(frames) : frames'[k].wf = frames[k].wf
         /\ \A k \in 1 .. Len(frames) - 1 : frames'[k] = frames[k]
         /\ Root'.wf = Root.wf
<1>1. /\ DOMAIN frames = 1 .. Len(frames) /\ Len(frames) \in Nat \ {0}
      /\ Top = frames[Len(frames)]
  BY FrameAt
<1>2. /\ Len(frames) \in 1 .. Len(frames) /\ 1 \in 1 .. Len(frames)
      /\ \A k \in 1 .. Len(frames) - 1 : k \in 1 .. Len(frames) /\ k # Len(frames)
  <2>1. \A n \in Nat \ {0} : /\ n \in 1 .. n /\ 1 \in 1 .. n
                              /\ \A k \in 1 .. n - 1 : k \in 1 .. n /\ k # n
    OBVIOUS
  <2> QED BY <1>1, <2>1
<1>3. \A k \in 1 .. Len(frames) : frames'[k].wf = frames[k].wf
  BY <1>1, <1>2
<1> QED BY <1>1, <1>2, <1>3 DEF Root

LEMMA KeepsRoot ==
  ASSUME EngineInv, [EngineNext]_engineVars
  PROVE  Root'.wf = Root.wf
<1>1. CASE frames' = frames
  BY <1>1 DEF Root
<1>2. CASE \E f \in GoodFrame, ok \in BOOLEAN : EngineMoved(f, ok)
  BY <1>2, MovedRoot DEF EngineMoved, TopMoved
<1>3. CASE \E f \in GoodFrame, ok, wrote \in BOOLEAN : TopMoved(f, ok, wrote)
  BY <1>3, MovedRoot DEF TopMoved
<1>4. CASE Enters
  <2>1. 1 \in 1 .. Len(frames)
    BY FrameAt
  <2> QED BY <1>4, <2>1, EnteredStacks DEF Root
<1>5. CASE LeaveSubWorkflow
  <2>1. Len(frames) \in Nat /\ Len(frames) > 1
    BY <1>5, FrameAt, LeftStacks
  <2>2. 1 \in 1 .. Len(frames) - 1
    BY <2>1
  <2> QED BY <1>5, <2>2, LeftStacks DEF Root
<1>6. CASE EngineStep
  <2>1. CASE EnterSubWorkflow
    BY <1>2, <1>4, <2>1, RefusalMoves DEF EnterSubWorkflow, Refuses, Enters
  <2>2. CASE YieldToModel
    BY <1>1, <2>2 DEF YieldToModel
  <2> QED BY <1>2, <1>5, <1>6, <2>1, <2>2, DeterministicMoves, ToolCallMoves,
             ControlMoves, ExhaustMoves DEF EngineStep
<1>7. ASSUME NEW ok \in BOOLEAN, NEW wrote \in BOOLEAN, ModelCalls(ok, wrote)
      PROVE  Root'.wf = Root.wf
  <2>1. /\ pc = "llm" /\ ModelAdvances(ok) /\ (wrote => ok)
        /\ effects' = IF wrote THEN Append(effects, <<Root.wf, Root.x.cur>>) ELSE effects
    BY <1>7 DEF ModelCalls
  <2> QED BY <1>3, <2>1, ModelMoves
<1>8. CASE ModelSkips
  <2>1. PICK ok \in BOOLEAN, wrote \in BOOLEAN : ok /\ ~wrote
    OBVIOUS
  <2>2. /\ pc = "llm" /\ ModelAdvances(ok)
        /\ effects' = IF wrote THEN Append(effects, <<Root.wf, Root.x.cur>>) ELSE effects
    BY <1>8, <2>1 DEF ModelSkips
  <2> QED BY <1>3, <2>1, <2>2, ModelMoves
<1>9. CASE Compensate
  <2>1. /\ pc # "engine" /\ frames' = [frames EXCEPT ![1].x =
             [Root.x EXCEPT !.comps = SagaOrder(Tail(SagaOrder(@)))]]
    BY <1>9 DEF Compensate, SetRoot
  <2>2. 1 \in DOMAIN frames /\ Root \in GoodFrame
    BY <2>1, FrameAt
  <2>3. \A x : [Root EXCEPT !.x = x].wf = Root.wf
    BY <2>2, FrameFacts DEF FrameOf
  <2> QED BY <2>1, <2>2, <2>3 DEF Root
<1> QED BY <1>1, <1>2, <1>6, <1>7, <1>8, <1>9, PassingMoves, RunsMoves
        DEF EngineNext, RunEnds, Ended, engineVars

-----------------------------------------------------------------------------
(* No frame of such a run is of a recipe the model acts on, every frame    *)
(* but the top one stands on the step that nested the next, and the log is *)
(* the stacks laid end to end; the Saga is entered with the log on the     *)
(* stack of the selected workflow.                                         *)
Running ==
  /\ \A k \in 1 .. Len(frames) : frames[k].wf \notin Conversed
  /\ \A k \in 1 .. Len(frames) - 1 :
       Step(frames[k].wf, frames[k].x.cur).kind = "sub_workflow"
  /\ Laid(effects, Stacks, Len(frames))
Undoing == Rollback /\ Root.x.failed # 0 /\ effects = Root.x.comps

AloneInv ==
  Root.wf \notin Conversed =>
    /\ pc \notin {"saga", "over"} => Running
    /\ pc = "saga" => Undoing

LEMMA MovedRunning ==
  ASSUME WholeRecipes, EngineInv, Running, NEW f \in GoodFrame, NEW ok \in BOOLEAN,
         EngineMoved(f, ok)
  PROVE  /\ Running'
         /\ effects' = effects \/ \E c \in Changes : effects' = Append(effects, c)
<1> DEFINE n == Len(frames)
           c == TopChange
           s == Stacks
           t == Stacks'
           old == effects
           new == effects'
<1>1. /\ n \in Nat \ {0} /\ n \in 1 .. n /\ frames' = [frames EXCEPT ![n] = f]
      /\ f.wf = Top.wf
  BY FrameAt DEF EngineMoved, TopMoved
<1>2. Len(frames') = n
  BY <1>1, SetFrame
<1>3. \A k \in 1 .. n : s[k] \in Seq(Changes)
  BY TheStacks
<1>4. s[n] = Top.x.comps /\ c \in Changes
  BY <1>1, FrameAt, TheStacks, TopState
<1>5. t[n] = f.x.comps /\ \A k \in 1 .. n : k # n => t[k] = s[k]
  BY <1>1, MovedStacks
<1>6. ok => TopStep.comp = TopStep.writes
  <2>1. Top.wf \in Workflows /\ Top.wf \notin Conversed /\ Top.x.cur \in StepIds(Top.wf)
    BY <1>1, FrameAt, TopState DEF Running
  <2> QED BY <2>1 DEF WholeRecipes, EngineMoved, TopStep
<1>7. \/ t[n] = Append(s[n], c) /\ new = Append(old, c)
      \/ t[n] = s[n] /\ new = old
  BY <1>4, <1>5, <1>6 DEF EngineMoved, TopMoved
<1>8. Laid(old, s, n) /\ old \in Seq(Changes)
  BY DEF Running, EngineInv
<1> HIDE DEF c, s, t, old, new
<1>9. Laid(new, t, n)
  <2> HIDE DEF n
  <2>1. CASE t[n] = Append(s[n], c) /\ new = Append(old, c)
    <3>1. Laid(Append(old, c), t, n)
      <4>1. n \in Nat \ {0} /\ c \in Changes /\ t[n] = Append(s[n], c)
            /\ \A k \in 1 .. n : k # n => t[k] = s[k]
        BY <1>1, <1>4, <1>5, <2>1
      <4> QED BY ONLY <4>1, <1>3, <1>8, LaidPushes
    <3> QED BY <2>1, <3>1
  <2>2. CASE t[n] = s[n] /\ new = old
    <3>1. n \in Nat \ {0} /\ \A k \in 1 .. n : t[k] = s[k]
      BY <1>1, <1>5, <2>2
    <3>2. Laid(old, t, n)
      BY ONLY <3>1, <1>8, LaidStays
    <3> QED BY <2>2, <3>2
  <2> QED BY <1>7, <2>1, <2>2
<1>10. new = old \/ new = Append(old, c)
  BY <1>7
<1>11. /\ \A k \in 1 .. n : frames'[k].wf = frames[k].wf
       /\ \A k \in 1 .. n - 1 : frames'[k] = frames[k]
  BY <1>1, MovedRoot
<1>12. Running'
  <2>1. \A k \in 1 .. n : frames'[k].wf \notin Conversed
    BY <1>11 DEF Running
  <2>2. \A k \in 1 .. n - 1 : Step(frames'[k].wf, frames'[k].x.cur).kind = "sub_workflow"
    BY <1>11 DEF Running
  <2>3. Laid(effects', Stacks', n)
    BY <1>9 DEF new, t
  <2>4. Laid(effects, Stacks, Len(frames))' <=> Laid(effects', Stacks', Len(frames'))
    BY DEF Laid
  <2> HIDE DEF n
  <2> QED BY <1>2, <2>1, <2>2, <2>3, <2>4 DEF Running
<1> QED BY <1>4, <1>10, <1>12 DEF old, new

LEMMA EnterRunning ==
  ASSUME WholeRecipes, EngineInv, Running, EnterSubWorkflow, Enters
  PROVE  Running' /\ effects' = effects
<1> DEFINE n == Len(frames)
           s == Stacks
           t == Stacks'
<1>1. n \in Nat \ {0} /\ Top = frames[n] /\ n \in 1 .. n
  BY FrameAt
<1>2. TopStep.kind = "sub_workflow" /\ effects' = effects
  BY DEF EnterSubWorkflow, OnStep
<1>3. TopStep.sub \notin Conversed
  <2>1. Top.wf \in Workflows /\ Top.wf \notin Conversed /\ Top.x.cur \in StepIds(Top.wf)
    BY <1>1, TopState DEF Running
  <2> QED BY <1>2, <2>1 DEF WholeRecipes, TopStep
<1>4. /\ Len(frames') = n + 1 /\ frames'[n + 1].wf = TopStep.sub
      /\ \A k \in 1 .. n : frames'[k] = frames[k]
      /\ t[n + 1] = <<>> /\ \A k \in 1 .. n : t[k] = s[k]
  BY EnteredStacks
<1>5. Laid(effects, s, n) /\ effects \in Seq(Changes)
  BY DEF Running, EngineInv
<1>6. Laid(effects, t, n + 1)
  <2> HIDE DEF n, s, t
  <2>1. n \in Nat \ {0} /\ t[n + 1] = <<>> /\ \A k \in 1 .. n : t[k] = s[k]
    BY <1>1, <1>4
  <2> QED BY ONLY <1>5, <2>1, LaidOpens
<1>7. \A k \in 1 .. n + 1 : frames'[k].wf \notin Conversed
  <2>1. \A k \in 1 .. n + 1 : k \in 1 .. n \/ k = n + 1
    BY <1>1
  <2> QED BY <1>3, <1>4, <2>1 DEF Running
<1>8. \A k \in 1 .. n : Step(frames'[k].wf, frames'[k].x.cur).kind = "sub_workflow"
  <2>1. \A k \in 1 .. n : k \in 1 .. n - 1 \/ k = n
    BY <1>1
  <2>2. \A k \in 1 .. n : Step(frames[k].wf, frames[k].x.cur).kind = "sub_workflow"
    BY <1>1, <1>2, <2>1 DEF Running, TopStep
  <2> QED BY <1>4, <2>2
<1>9. Laid(effects, Stacks, Len(frames))' <=> Laid(effects', Stacks', Len(frames'))
  BY DEF Laid
<1>10. (n + 1) - 1 = n /\ Laid(effects', Stacks', n + 1)
  BY <1>1, <1>2, <1>6
<1> HIDE DEF n
<1> QED BY <1>2, <1>4, <1>7, <1>8, <1>9, <1>10 DEF Running

LEMMA LeaveRunning ==
  ASSUME WholeRecipes, EngineInv, Running, LeaveSubWorkflow
  PROVE  Running' /\ effects' = effects
<1> DEFINE n == Len(frames)
           c == <<Nesting.wf, Nesting.x.cur>>
           s == Stacks
           t == Stacks'
           both == s[n - 1] \o s[n]
<1>1. /\ n \in Nat /\ n > 1 /\ effects' = effects /\ Len(frames') = n - 1
      /\ \A k \in 1 .. n : s[k] \in Seq(Changes)
  BY TheStacks, LeftStacks DEF LeaveSubWorkflow
<1>2. /\ \A k \in 1 .. n - 1 : frames'[k].wf = frames[k].wf
      /\ \A k \in 1 .. n - 1 : k # n - 1 => frames'[k] = frames[k]
      /\ \A k \in 1 .. n - 1 : k # n - 1 => t[k] = s[k]
      /\ t[n - 1] = both \/ (Compensable(c) /\ t[n - 1] = Append(both, c))
  BY LeftStacks
<1>3. n - 1 \in 1 .. n - 1 /\ n - 1 \in 1 .. n /\ \A k \in 1 .. n - 1 : k \in 1 .. n
  BY <1>1
<1>4. ~Compensable(c)
  <2>1. /\ Nesting.wf \notin Conversed
        /\ Step(Nesting.wf, Nesting.x.cur).kind = "sub_workflow"
    BY <1>3 DEF Running, Nesting
  <2>2. Nesting \in GoodFrame
    BY <1>3, FrameAt DEF Nesting
  <2>3. Nesting.wf \in Workflows /\ Nesting.x.cur \in StepIds(Nesting.wf)
    BY <2>2, FrameFacts
  <2> QED BY <2>1, <2>3 DEF WholeRecipes, Compensable
<1>5. Laid(effects, s, n) /\ effects \in Seq(Changes)
  BY DEF Running, EngineInv
<1>6. t[n - 1] = s[n - 1] \o s[n]
  BY <1>2, <1>4
<1>7. Laid(effects, t, n - 1)
  <2> HIDE DEF n, s, t
  <2>1. n \in Nat /\ n > 1 /\ (\A k \in 1 .. n : s[k] \in Seq(Changes))
        /\ \A k \in 1 .. n - 1 : k # n - 1 => t[k] = s[k]
    BY <1>1, <1>2
  <2> QED BY ONLY <1>5, <1>6, <2>1, LaidMerges
<1>8. \A k \in 1 .. n - 1 : frames'[k].wf \notin Conversed
  BY <1>2, <1>3 DEF Running
<1>9. \A k \in 1 .. (n - 1) - 1 : Step(frames'[k].wf, frames'[k].x.cur).kind = "sub_workflow"
  <2>1. \A k \in 1 .. (n - 1) - 1 : k \in 1 .. n - 1 /\ k # n - 1
    BY <1>1
  <2> QED BY <1>2, <2>1 DEF Running
<1>10. Laid(effects, Stacks, Len(frames))' <=> Laid(effects', Stacks', Len(frames'))
  BY DEF Laid
<1>11. Laid(effects', Stacks', n - 1)
  BY <1>1, <1>7
<1> HIDE DEF n
<1> QED BY <1>1, <1>8, <1>9, <1>10, <1>11 DEF Running

-----------------------------------------------------------------------------
(* A step of the run maps to Write or a stutter, its end to Commit or      *)
(* Abort, an inverse of the Saga to TakeBack.                              *)
Going == {"engine", "llm", "crashed"}

LEMMA WriteOrStutter ==
  ASSUME Root.wf \notin Conversed, Root'.wf = Root.wf, pc \in Going, pc' \in Going,
         effects' = effects \/ \E c \in Changes : effects' = Append(effects, c)
  PROVE  [AsTransaction!Next]_(AsTransaction!transactionVars)
<1>1. Phase = "running" /\ Phase' = "running"
  BY DEF Phase, Going
<1>2. CASE effects' = effects
  BY <1>1, <1>2 DEF AsTransaction!transactionVars
<1>3. CASE \E c \in Changes : effects' = Append(effects, c)
  BY <1>1, <1>3 DEF AsTransaction!Next, AsTransaction!Write
<1> QED BY <1>2, <1>3

LEMMA RunningKept ==
  ASSUME Running, UNCHANGED <<frames, effects>>
  PROVE  Running'
<1>1. Stacks' = Stacks /\ effects' = effects /\ frames' = frames
  BY DEF Stacks
<1>2. Laid(effects, Stacks, Len(frames))' <=> Laid(effects', Stacks', Len(frames'))
  BY DEF Laid
<1>3. Laid(effects', Stacks', Len(frames'))
  BY <1>1 DEF Running
<1> QED BY <1>1, <1>2, <1>3 DEF Running

LEMMA RunningStep ==
  ASSUME WholeRecipes, EngineInv, Root.wf \notin Conversed, Running,
         pc \in Going, [EngineNext]_engineVars, ~RunEnds
  PROVE  /\ Running' /\ pc' \in Going
         /\ effects' = effects \/ \E c \in Changes : effects' = Append(effects, c)
<1>1. CASE UNCHANGED <<frames, effects>> /\ pc' \in Going
  <2>1. Running'
    BY <1>1, RunningKept
  <2> QED BY <1>1, <2>1
<1>2. CASE (\E f \in GoodFrame, ok \in BOOLEAN : EngineMoved(f, ok)) /\ pc' \in Going
  BY <1>2, MovedRunning
<1>3. CASE EnterSubWorkflow
  <2>1. pc' \in Going /\ (Refuses \/ Enters)
    BY <1>3 DEF EnterSubWorkflow, Refuses, Enters
  <2> QED BY <1>2, <1>3, <2>1, RefusalMoves, EnterRunning
<1>4. CASE LeaveSubWorkflow
  <2>1. pc' \in Going
    BY <1>4 DEF LeaveSubWorkflow
  <2> QED BY <1>4, <2>1, LeaveRunning
<1>5. CASE ExecDeterministic \/ ExecToolCall \/ Conditional \/ Loop \/ ExhaustBudget
  <2>1. pc' \in Going
    BY <1>5 DEF ExecDeterministic, ExecToolCall, Conditional, Loop, ExhaustBudget
  <2> QED BY <1>2, <1>5, <2>1, DeterministicMoves, ToolCallMoves, ControlMoves,
             ExhaustMoves
<1>6. CASE EngineStep
  <2>1. CASE YieldToModel
    BY <1>1, <2>1 DEF YieldToModel, Going
  <2> QED BY <1>3, <1>4, <1>5, <1>6, <2>1 DEF EngineStep
<1>7. CASE EngineRuns
  BY <1>2, <1>7, RunsMoves DEF EngineRuns, Going
<1>8. ASSUME NEW a \in Tools, ModelFastForwards(a)
      PROVE  /\ Running' /\ pc' \in Going
             /\ effects' = effects \/ \E c \in Changes : effects' = Append(effects, c)
  BY <1>2, <1>8, PassingMoves DEF ModelFastForwards
<1>9. ~ModelSkips /\ \A ok, wrote \in BOOLEAN : ~ModelCalls(ok, wrote)
  BY DEF ModelSkips, ModelCalls
<1>10. ~Compensate
  BY DEF Compensate, Going
<1> QED BY <1>1, <1>6, <1>7, <1>8, <1>9, <1>10 DEF EngineNext, Ended, engineVars

LEMMA EndStep ==
  ASSUME EngineInv, Root.wf \notin Conversed, Running, RunEnds
  PROVE  /\ AloneInv' /\ [AsTransaction!Next]_(AsTransaction!transactionVars)
<1>1. /\ pc = "llm" /\ frames' = frames /\ Root' = Root
      /\ pc' \in {"saga", "over"}
  BY DEF RunEnds, Root
<1>2. effects = Root.x.comps
  <2>1. Len(frames) = 1 /\ Root.x.comps \in Seq(Changes) /\ effects \in Seq(Changes)
    BY <1>1, RootFacts DEF EngineInv
  <2> DEFINE s == Stacks
  <2>2. s[1] = Root.x.comps
    <3>1. 1 \in 1 .. Len(frames)
      BY <2>1
    <3> QED BY <3>1, TheStacks DEF Root
  <2>3. Laid(effects, s, 1)
    BY <2>1 DEF Running
  <2> HIDE DEF s
  <2> QED BY <2>1, <2>2, <2>3, LaidAlone
<1>3. Phase = "running"
  BY <1>1 DEF Phase
<1>4. CASE pc' = "saga"
  <2>1. Rollback /\ Root.x.failed # 0 /\ effects' = effects
    BY <1>4 DEF RunEnds
  <2>2. Phase' = "aborting"
    BY <1>1, <1>4 DEF Phase
  <2>3. AloneInv'
    BY <1>1, <1>2, <1>4, <2>1 DEF AloneInv, Undoing
  <2> QED BY <1>1, <1>3, <2>1, <2>2, <2>3 DEF AsTransaction!Next, AsTransaction!Abort
<1>5. CASE pc' = "over"
  <2>1. AloneInv'
    BY <1>5 DEF AloneInv
  <2>2. CASE Rollback /\ Root.x.failed # 0
    <3>1. effects' = <<>>
      BY <1>5, <2>2 DEF RunEnds
    <3>2. Phase' = "aborted"
      BY <1>1, <1>5, <2>2 DEF Phase
    <3> QED BY <1>1, <1>3, <2>1, <3>1, <3>2 DEF AsTransaction!Next, AsTransaction!Abort
  <2>3. CASE ~(Rollback /\ Root.x.failed # 0)
    <3>1. effects' = effects
      BY <2>3 DEF RunEnds
    <3>2. Phase' = "committed"
      BY <1>1, <1>5, <2>3 DEF Phase
    <3> QED BY <1>1, <1>3, <2>1, <3>1, <3>2 DEF AsTransaction!Next, AsTransaction!Commit
  <2> QED BY <2>2, <2>3
<1> QED BY <1>1, <1>4, <1>5

LEMMA UndoStep ==
  ASSUME EngineInv, Root.wf \notin Conversed, Undoing, Compensate
  PROVE  /\ AloneInv' /\ [AsTransaction!Next]_(AsTransaction!transactionVars)
<1> DEFINE s == Root.x.comps
           left == SagaOrder(Tail(SagaOrder(s)))
           x == [Root.x EXCEPT !.comps = left]
<1>1. /\ pc = "saga" /\ pc # "engine" /\ s # <<>> /\ SetRoot(x)
      /\ pc' = IF Len(s) = 1 THEN "over" ELSE "saga"
  BY DEF Compensate
<1>2. s \in Seq(Changes) /\ effects = s /\ Rollback /\ Root.x.failed # 0
  BY <1>1, RootFacts DEF Undoing
<1>3. /\ Head(SagaOrder(s)) = Last(s) /\ left = Front(s)
      /\ Reverse(RemoveFirst(Reverse(s), Last(s))) = Front(s)
      /\ Front(s) \in Seq(Changes) /\ Len(Front(s)) = Len(s) - 1
  <2> HIDE DEF s
  <2> QED BY <1>1, <1>2, UndoLast
<1>4. effects' = Front(effects) /\ Len(effects') = Len(s) - 1
  BY <1>2, <1>3 DEF Compensate
<1>5. /\ x \in GoodState(Root.wf) /\ x.comps = left /\ x.failed = Root.x.failed
  <2>1. left \in Seq(Changes)
    BY <1>3
  <2>2. Root.wf \in Workflows /\ Root.x \in GoodState(Root.wf)
    BY <1>1, RootFacts
  <2> HIDE DEF left
  <2>3. x \in GoodState(Root.wf)
    BY <2>1, <2>2, GoodMarks
  <2>4. x.comps = left /\ x.failed = Root.x.failed
    BY <2>2 DEF GoodState, ExecState
  <2> QED BY <2>3, <2>4
<1> HIDE DEF x
<1>6. Root' = [Root EXCEPT !.x = x]
  BY <1>1, <1>5, SetRootFrames
<1>7. Root'.wf = Root.wf /\ Root'.x = x
  <2>1. Root \in GoodFrame
    BY FrameAt
  <2> QED BY <1>6, <2>1, FrameFacts DEF FrameOf
<1>8. (Root.x)' = x /\ (Root.wf)' = Root.wf
  BY <1>7
<1>9. AloneInv'
  BY <1>1, <1>2, <1>3, <1>4, <1>5, <1>8 DEF AloneInv, Undoing
<1>10. effects' = <<>> <=> Len(s) = 1
  <2> DEFINE new == effects'
             m == Len(s)
  <2>1. m \in Nat
    BY <1>2
  <2>2. new \in Seq(Changes) /\ Len(new) = m - 1
    BY <1>2, <1>3, <1>4
  <2> HIDE DEF new, m
  <2>3. new = <<>> <=> Len(new) = 0
    BY ONLY <2>2, EmptySeq
  <2>4. new = <<>> <=> m = 1
    BY ONLY <2>1, <2>2, <2>3
  <2> QED BY <2>4 DEF new, m
<1>11. /\ Phase = "aborting"
       /\ Phase' = IF effects' = <<>> THEN "aborted" ELSE "aborting"
  BY <1>1, <1>2, <1>5, <1>8, <1>10 DEF Phase
<1>12. effects # <<>> /\ effects' = Front(effects)
  BY <1>1, <1>2, <1>4
<1> DEFINE log == IF Root.wf \in Conversed THEN <<>> ELSE effects
<1>13. log = effects /\ log' = effects'
  BY <1>8
<1>14. AsTransaction!TakeBack
  <2>1. /\ Phase = "aborting" /\ log # <<>> /\ log' = Front(log)
        /\ Phase' = IF log' = <<>> THEN "aborted" ELSE "aborting"
    BY <1>11, <1>12, <1>13
  <2> QED BY <2>1 DEF AsTransaction!TakeBack, AsTransaction!Front, Front
<1> QED BY <1>9, <1>14 DEF AsTransaction!Next

LEMMA TransactionStep ==
  ASSUME WholeRecipes, EngineInv, AloneInv, [EngineNext]_engineVars
  PROVE  AloneInv' /\ [AsTransaction!Next]_(AsTransaction!transactionVars)
<1>1. Root'.wf = Root.wf /\ (Root.wf)' = Root.wf
  BY KeepsRoot
<1>2. CASE Root.wf \in Conversed
  <2>1. AloneInv'
    BY <1>1, <1>2 DEF AloneInv
  <2>2. Phase = "running" /\ Phase' = "running"
    BY <1>1, <1>2 DEF Phase
  <2> QED BY <1>1, <1>2, <2>1, <2>2 DEF AsTransaction!transactionVars
<1>3. CASE Root.wf \notin Conversed /\ UNCHANGED <<frames, pc, effects>>
  <2>1. AloneInv'
    <3>1. /\ (Root.wf)' = Root.wf /\ pc' = pc /\ (Undoing => Undoing')
          /\ (Running => Running')
      BY <1>3, RunningKept DEF Undoing, Root
    <3> QED BY <1>3, <3>1 DEF AloneInv
  <2>2. Phase' = Phase
    BY <1>3 DEF Phase, Root
  <2> QED BY <1>1, <1>3, <2>1, <2>2 DEF AsTransaction!transactionVars
<1>4. CASE Root.wf \notin Conversed /\ pc \in Going /\ ~RunEnds
  <2>1. Running
    BY <1>4 DEF AloneInv, Going
  <2>2. /\ Running' /\ pc' \in Going
        /\ effects' = effects \/ \E c \in Changes : effects' = Append(effects, c)
    BY <1>4, <2>1, RunningStep
  <2>3. AloneInv'
    BY <2>2 DEF AloneInv, Going
  <2> QED BY <1>1, <1>4, <2>2, <2>3, WriteOrStutter
<1>5. CASE Root.wf \notin Conversed /\ RunEnds
  <2>1. Running
    BY <1>5 DEF AloneInv, RunEnds
  <2> QED BY <1>5, <2>1, EndStep
<1>6. CASE Root.wf \notin Conversed /\ Compensate
  <2>1. Undoing
    BY <1>6 DEF AloneInv, Compensate
  <2> QED BY <1>6, <2>1, UndoStep
<1>7. CASE pc = "saga" \/ pc = "over"
  <2>1. Compensate \/ UNCHANGED <<frames, pc, effects>>
    BY <1>7 DEF EngineNext, EngineStep, ExecDeterministic, ExecToolCall, Conditional,
                Loop, EnterSubWorkflow, LeaveSubWorkflow, ExhaustBudget, YieldToModel,
                OnStep, ModelCalls, ModelSkips, ModelFastForwards, EngineRuns, RunEnds,
                Ended, engineVars
  <2> QED BY <1>2, <1>3, <1>6, <2>1
<1>8. pc \in Going \cup {"saga", "over"}
  BY DEF EngineInv, Going
<1> QED BY <1>2, <1>4, <1>5, <1>7, <1>8

LEMMA TransactionInit ==
  ASSUME EngineInit
  PROVE  (WholeRecipes => AloneInv) /\ AsTransaction!Init
<1>1. /\ Len(frames) = 1 /\ frames[1] = NewFrame(Root.wf) /\ Root = frames[1]
      /\ pc \in {"engine", "llm"} /\ effects = <<>>
  <2>1. PICK wf \in Workflows : frames = <<NewFrame(wf)>>
    BY DEF EngineInit
  <2>2. Len(frames) = 1 /\ frames[1] = NewFrame(wf) /\ Root = frames[1]
    BY <2>1 DEF Root
  <2>3. Root.wf = wf
    BY <2>2 DEF NewFrame
  <2> QED BY <2>2, <2>3 DEF EngineInit
<1>2. Root.x.comps = <<>>
  BY <1>1 DEF NewFrame, InitialState
<1>3. AsTransaction!Init
  BY <1>1 DEF AsTransaction!Init, Phase
<1>4. Laid(effects, Stacks, 1)
  <2> DEFINE s == Stacks
             log == effects
  <2>1. s[1] = <<>> /\ log = <<>>
    <3>1. EngineInv /\ 1 \in 1 .. Len(frames)
      BY <1>1, EngineInvInit
    <3> QED BY <1>1, <1>2, <3>1, TheStacks
  <2>2. s[1] \in Seq(Changes) /\ log \in Seq(Changes) /\ log = s[1]
    BY <2>1
  <2> HIDE DEF s, log
  <2>3. Laid(log, s, 1)
    BY <2>2, LaidAlone
  <2> QED BY <2>3 DEF s, log
<1>5. ASSUME Root.wf \notin Conversed
      PROVE  Running
  BY <1>1, <1>4, <1>5 DEF Running
<1> QED BY <1>1, <1>3, <1>5 DEF AloneInv

(* A run of a recipe the engine drives alone, each of whose changes has an *)
(* inverse, is a transaction: however its loops, branches and nested       *)
(* workflows end, what it did is kept whole or taken back change by        *)
(* change, newest first, to nothing.                                       *)
THEOREM RunIsATransaction == WholeRecipes => (EngineSpec => ImplementsTransaction)
<1> SUFFICES ASSUME WholeRecipes PROVE EngineSpec => ImplementsTransaction
  OBVIOUS
<1>1. EngineInit => EngineInv /\ AloneInv /\ AsTransaction!Init
  BY EngineInvInit, TransactionInit
<1>2. EngineInv /\ AloneInv /\ [EngineNext]_engineVars
        => EngineInv' /\ AloneInv' /\ [AsTransaction!Next]_(AsTransaction!transactionVars)
  BY EngineNextInv, TransactionStep
<1> QED BY <1>1, <1>2, PTL DEF EngineSpec, ImplementsTransaction, AsTransaction!Spec


-----------------------------------------------------------------------------
(* A call past the gate is still in the batch, which is what makes the     *)
(* account of answered calls exact.                                        *)
AnswerInv ==
  /\ batch \in Seq(Requests)
  /\ asked \in Nat /\ answered \in Nat
  /\ EveryCallAnswered
  /\ at \in {"gated", "open"} => batch # <<>>

(* Taking the first call off the batch and answering it keeps the account. *)
LEMMA AnswerOne ==
  ASSUME AnswerInv, batch # <<>>,
         batch' = Tail(batch), answered' = answered + 1, asked' = asked,
         at' \notin {"gated", "open"}
  PROVE  AnswerInv'
<1>1. Tail(batch) \in Seq(Requests) /\ Len(Tail(batch)) = Len(batch) - 1
  BY DEF AnswerInv
<1>2. Len(batch) \in Nat
  BY DEF AnswerInv
<1> QED BY <1>1, <1>2 DEF AnswerInv, EveryCallAnswered

LEMMA AnswerKept ==
  ASSUME AnswerInv, UNCHANGED <<batch, asked, answered>>,
         at' \in {"gated", "open"} => at \in {"gated", "open"} \/ batch # <<>>
  PROVE  AnswerInv'
BY DEF AnswerInv, EveryCallAnswered

LEMMA AnswerPrompt ==
  ASSUME AnswerInv, Prompt
  PROVE  AnswerInv'
<1>1. batch' \in Seq(Requests)
  <2>1. PICK n \in 0 .. cfg.batch :
          batch' \in [1 .. n -> IF cfg.resources THEN Requests ELSE Tools]
    BY DEF Prompt
  <2>2. batch' \in [1 .. n -> Requests]
    BY <2>1 DEF Requests
  <2> QED BY <2>2, LoopAssumption
<1>2. asked' = Len(batch') /\ answered' = 0 /\ at' = "calls"
  BY DEF Prompt
<1>3. Len(batch') \in Nat
  BY <1>1
<1> QED BY <1>1, <1>2, <1>3 DEF AnswerInv, EveryCallAnswered

LEMMA AnswerBlocked ==
  ASSUME AnswerInv, Blocked
  PROVE  AnswerInv'
<1>1. batch # <<>>
  BY DEF Blocked, AnswerInv
<1>2. asked' = asked
  BY DEF Blocked
<1>3. CASE NextCall
  BY <1>1, <1>2, <1>3, AnswerOne DEF NextCall
<1>4. CASE batch' = <<>> /\ AnswerSkipped /\ at' = "calls"
  <2>1. Len(batch) \in Nat /\ <<>> \in Seq(Requests) /\ Len(<<>>) = 0
    BY DEF AnswerInv
  <2> QED BY <1>2, <1>4, <2>1 DEF AnswerInv, EveryCallAnswered, AnswerSkipped
<1> QED BY <1>3, <1>4 DEF Blocked

LEMMA AnswerStep == AnswerInv /\ [Next]_vars => AnswerInv'
<1> SUFFICES ASSUME AnswerInv, [Next]_vars PROVE AnswerInv'
  OBVIOUS
<1>1. CASE Prompt
  BY <1>1, AnswerPrompt
<1>2. CASE Blocked
  BY <1>2, AnswerBlocked
<1>3. CASE ReadResource \/ Denied \/ Suppressed
  <2>1. NextCall /\ asked' = asked /\ batch # <<>>
    BY <1>3 DEF ReadResource, Denied, Suppressed, Permitted, answerVars, AnswerInv
  <2> QED BY <2>1, AnswerOne DEF NextCall
<1>4. CASE Dispatched
  <2>1. batch # <<>>
    BY <1>4 DEF Dispatched, Permitted, AnswerInv
  <2>2. /\ batch' = Tail(batch) /\ answered' = answered + 1 /\ asked' = asked
        /\ at' \notin {"gated", "open"}
    BY <1>4 DEF Dispatched
  <2> QED BY <2>1, <2>2, AnswerOne
<1>5. CASE Gate
  <2>1. batch # <<>> /\ UNCHANGED <<batch, asked, answered>>
    BY <1>5 DEF Gate, answerVars
  <2> QED BY <2>1, AnswerKept
<1>6. CASE RunEngineStep \/ EngineReturnsAtStart \/ OutOfTurns
  BY <1>6, AnswerKept DEF RunEngineStep, EngineReturnsAtStart, OutOfTurns, answerVars
<1>7. CASE Talk
  BY <1>7, AnswerKept
     DEF Talk, TalkMoves, TalkRunsEngine, TalkStops, EngineReturnsAtTalk,
         AfterTalk, answerVars
<1>8. CASE EndBatch
  BY <1>8, AnswerKept
     DEF EndBatch, CircuitStops, BatchEnds, AfterCalls, EngineReturnsAtBatch,
         AfterBatch, answerVars
<1>9. CASE Finish \/ Unwind \/ UNCHANGED vars
  BY <1>9, AnswerKept DEF Finish, Unwind, vars, answerVars
<1> QED
  BY <1>1, <1>2, <1>3, <1>4, <1>5, <1>6, <1>7, <1>8, <1>9
     DEF Next, HandleCall, Returned

(* Every tool call of every response gets exactly one tool message,        *)
(* whatever gate, breaker, cage, dedupe and dispatch make of the batch.    *)
THEOREM AnswersHold == Spec => []EveryCallAnswered
<1>1. Init => AnswerInv
  BY DEF Init, AnswerInv, EveryCallAnswered
<1>2. AnswerInv => EveryCallAnswered
  BY DEF AnswerInv
<1> QED BY <1>1, <1>2, AnswerStep, PTL DEF Spec

-----------------------------------------------------------------------------
(* One step of the loop, seen from the workflow.                           *)
LEMMA EngineStepOrStutter ==
  ASSUME [Next]_vars
  PROVE  [HasWorkflow => EngineNext]_engineVars
<1> USE DEF EngineNext
<1>1. CASE RunEngineStep \/ Unwind
  BY <1>1 DEF RunEngineStep, Unwind
<1>2. CASE Gate
  BY <1>2 DEF Gate
<1>3. CASE Dispatched
  BY <1>3 DEF Dispatched
<1>4. CASE TalkRunsEngine \/ EngineReturnsAtTalk
  BY <1>4 DEF TalkRunsEngine, EngineReturnsAtTalk
<1>5. CASE TalkMoves \/ TalkStops
  BY <1>5 DEF TalkMoves, TalkStops
<1>6. CASE CircuitStops \/ BatchEnds
  BY <1>6 DEF CircuitStops, BatchEnds
<1>7. CASE AfterCalls \/ EngineReturnsAtBatch
  BY <1>7 DEF AfterCalls, EngineReturnsAtBatch
<1>8. CASE Finish
  BY <1>8 DEF Finish
<1>9. CASE Prompt \/ OutOfTurns \/ EngineReturnsAtStart
  BY <1>9 DEF Prompt, OutOfTurns, EngineReturnsAtStart
<1>10. CASE ReadResource \/ Blocked \/ Denied \/ Suppressed
  BY <1>10 DEF ReadResource, Blocked, Denied, Suppressed
<1>11. CASE UNCHANGED vars
  BY <1>11 DEF vars
<1> QED
  BY <1>1, <1>2, <1>3, <1>4, <1>5, <1>6, <1>7, <1>8, <1>9, <1>10, <1>11
     DEF Next, Talk, HandleCall, EndBatch, Returned

(* Whatever the model answers, the loop acts on a workflow only through    *)
(* the operations of the engine, in an order the engine allows: what       *)
(* WorkflowEngine guarantees of its own behaviours holds in the loop.      *)
THEOREM LoopImplementsEngine == Spec => ImplementsEngine
<1>1. Init => (HasWorkflow => EngineInit)
  BY DEF Init, HasWorkflow
<1>2. [Next]_vars => [HasWorkflow => EngineNext]_engineVars
  BY EngineStepOrStutter
<1> QED BY <1>1, <1>2, PTL DEF Spec, ImplementsEngine

-----------------------------------------------------------------------------
(* The workflow keeps its inductive invariant in the loop, and without one *)
(* there is neither an engine run nor a Saga.                              *)
LoopWorkflow ==
  /\ HasWorkflow => EngineInv
  /\ ~HasWorkflow => pc \notin {"engine", "saga"}

LEMMA EngineStepFacts ==
  ASSUME EngineStep
  PROVE  pc = "engine" /\ (pc' = pc \/ pc' \in {"llm", "crashed"})
<1>1. CASE ExecDeterministic \/ ExecToolCall
  BY <1>1 DEF ExecDeterministic, ExecToolCall, OnStep
<1>2. CASE Conditional \/ Loop
  BY <1>2 DEF Conditional, Loop, OnStep
<1>3. CASE EnterSubWorkflow \/ LeaveSubWorkflow
  BY <1>3 DEF EnterSubWorkflow, LeaveSubWorkflow, OnStep
<1>4. CASE ExhaustBudget \/ YieldToModel
  BY <1>4 DEF ExhaustBudget, YieldToModel
<1> QED BY <1>1, <1>2, <1>3, <1>4 DEF EngineStep

(* What an action does to pc when no workflow was selected.                *)
LEMMA NoWorkflowStep ==
  ASSUME LoopWorkflow, ~HasWorkflow, [Next]_vars
  PROVE  frames' = frames /\ pc' \in {pc, "over"}
<1> USE DEF Live
<1>1. CASE RunEngineStep \/ Unwind
  BY <1>1, EngineStepFacts DEF RunEngineStep, Unwind, Compensate, LoopWorkflow
<1>2. CASE Gate
  BY <1>2 DEF Gate, engineVars
<1>3. CASE Dispatched
  BY <1>3 DEF Dispatched, engineVars
<1>4. CASE TalkRunsEngine \/ EngineReturnsAtTalk
  BY <1>4 DEF TalkRunsEngine, EngineReturnsAtTalk, engineVars
<1>5. CASE TalkMoves \/ TalkStops
  BY <1>5 DEF TalkMoves, TalkStops, engineVars
<1>6. CASE CircuitStops \/ BatchEnds
  BY <1>6 DEF CircuitStops, BatchEnds, engineVars
<1>7. CASE AfterCalls \/ EngineReturnsAtBatch
  BY <1>7 DEF AfterCalls, EngineReturnsAtBatch, engineVars
<1>8. CASE Finish
  BY <1>8 DEF Finish
<1>9. CASE Prompt \/ OutOfTurns \/ EngineReturnsAtStart
  BY <1>9 DEF Prompt, OutOfTurns, EngineReturnsAtStart, engineVars
<1>10. CASE ReadResource \/ Blocked \/ Denied \/ Suppressed
  BY <1>10 DEF ReadResource, Blocked, Denied, Suppressed, engineVars
<1>11. CASE UNCHANGED vars
  BY <1>11 DEF vars, engineVars
<1> QED
  BY <1>1, <1>2, <1>3, <1>4, <1>5, <1>6, <1>7, <1>8, <1>9, <1>10, <1>11
     DEF Next, Talk, HandleCall, EndBatch, Returned

LEMMA LoopWorkflowStep ==
  ASSUME LoopWorkflow, [Next]_vars
  PROVE  LoopWorkflow'
<1>1. CASE HasWorkflow
  <2>1. [EngineNext]_engineVars
    BY <1>1, EngineStepOrStutter
  <2>2. EngineInv'
    BY <1>1, <2>1, EngineNextInv DEF LoopWorkflow
  <2> QED BY <2>2 DEF LoopWorkflow, EngineInv, HasWorkflow
<1>2. CASE ~HasWorkflow
  BY <1>2, NoWorkflowStep DEF LoopWorkflow, HasWorkflow
<1> QED BY <1>1, <1>2

-----------------------------------------------------------------------------
(* The gate's pool.  While no workflow recomputes it, the pool of the      *)
(* prompt must stay good for the rest of the batch.                        *)
Permits == AllowedAtomics(fsm, WorkflowState)

GateInv ==
  /\ LoopWorkflow
  /\ pc = "engine" => at = "engine"
  /\ pc = "saga" => at = "stop"
  /\ at = "gated" => pool \subseteq Permits
  /\ at = "open" => ~Live /\ pool \subseteq Permits
  /\ at = "calls" /\ batch # <<>> /\ ~Live => pool \subseteq Permits

(* Only the cursor of an execution state matters to what is permitted.     *)
LEMMA AllowedByCursor ==
  ASSUME NEW s, NEW x, NEW y, HasWorkflow => x.cur = y.cur
  PROVE  AllowedAtomics(s, x) = AllowedAtomics(s, y)
BY DEF AllowedAtomics, StepTools

LEMMA PermitsNext ==
  ASSUME cfg' = cfg, HasWorkflow' = HasWorkflow,
         HasWorkflow => Root'.wf = Root.wf
  PROVE  Permits' = AllowedAtomics(fsm', WorkflowState')
BY DEF Permits, AllowedAtomics, StepTools

LEMMA PermitsKept ==
  ASSUME UNCHANGED <<cfg, frames, fsm>>
  PROVE  Permits' = Permits /\ Live' = Live
BY DEF Permits, AllowedAtomics, StepTools, WorkflowState, HasWorkflow, Root, Live

LEMMA VisiblePermitted ==
  ASSUME NEW s, NEW p \in Visible(s)
  PROVE  p \subseteq AllowedAtomics(s, WorkflowState)
BY DEF Visible

(* An operation of the model on the workflow leaves its name alone.        *)
LEMMA SetRootWorkflow ==
  ASSUME EngineInv, pc # "engine", NEW x \in GoodState(Root.wf), SetRoot(x)
  PROVE  HasWorkflow' /\ Root'.wf = Root.wf /\ Root'.x = x
<1>1. Root' = [Root EXCEPT !.x = x] /\ frames' # <<>>
  BY SetRootFrames
<1>2. Root \in FrameOf(Root.wf)
  BY FrameAt, FrameFacts
<1> QED BY <1>1, <1>2 DEF FrameOf, HasWorkflow

(* A call that ends the workflow leaves the cursor where it was.           *)
LEMMA FinishKeepsCursor ==
  ASSUME NEW wf \in Workflows, NEW x \in ExecState(wf), ~x.finished,
         NEW ok \in BOOLEAN, Advance(wf, x, ok).finished
  PROVE  Advance(wf, x, ok).cur = x.cur
<1>1. CASE ok
  BY <1>1 DEF Advance, AdvanceOk, AdvanceAfter, Complete, ExecState
<1>2. CASE ~ok
  BY <1>2 DEF Advance, AdvanceFailed, AbortLoop, ExecState
<1> QED BY <1>1, <1>2

LEMMA GateOnPrompt ==
  ASSUME GateInv, Prompt
  PROVE  GateInv'
<1>1. LoopWorkflow'
  BY LoopWorkflowStep DEF GateInv, Next
<1>2. Permits' = Permits
  BY PermitsKept DEF Prompt, engineVars
<1>3. pool' \subseteq Permits
  BY VisiblePermitted DEF Prompt, Permits
<1>4. at = "head" /\ at' = "calls" /\ pc' = pc
  BY DEF Prompt, engineVars
<1> QED BY <1>1, <1>2, <1>3, <1>4 DEF GateInv

(* The calls answered without a dispatch.                                  *)
LEMMA GateOnAnswered ==
  ASSUME GateInv, ReadResource \/ Denied \/ Suppressed
  PROVE  GateInv'
<1>1. LoopWorkflow'
  BY LoopWorkflowStep DEF GateInv, Next, HandleCall
<1>2. /\ UNCHANGED <<cfg, frames, fsm, pool, pc>> /\ at' = "calls"
      /\ at \in {"gated", "open"} \/ (at = "calls" /\ batch # <<>>)
  BY DEF ReadResource, Denied, Suppressed, NextCall, Permitted, engineVars, gateVars
<1>3. Permits' = Permits /\ Live' = Live
  BY <1>2, PermitsKept
<1> QED BY <1>1, <1>2, <1>3 DEF GateInv

LEMMA GateOnBlocked ==
  ASSUME GateInv, Blocked
  PROVE  GateInv'
<1>1. LoopWorkflow'
  BY LoopWorkflowStep DEF GateInv, Next, HandleCall
<1>2. UNCHANGED <<cfg, frames, pool, pc>> /\ at = "gated" /\ at' = "calls"
  BY DEF Blocked, engineVars, NextCall
<1>3. CASE batch' = <<>>
  BY <1>1, <1>2, <1>3 DEF GateInv
<1>4. CASE fsm' = fsm
  <2>1. Permits' = Permits /\ Live' = Live
    BY <1>2, <1>4, PermitsKept
  <2> QED BY <1>1, <1>2, <2>1 DEF GateInv
<1> QED BY <1>3, <1>4 DEF Blocked

LEMMA GateOnGate ==
  ASSUME GateInv, Gate
  PROVE  GateInv'
<1>1. LoopWorkflow'
  BY LoopWorkflowStep DEF GateInv, Next, HandleCall
<1>2. /\ cfg' = cfg /\ pc' = pc /\ batch' = batch
      /\ at = "calls" /\ batch # <<>> /\ at' \in {"gated", "open"}
  BY DEF Gate, ModelFastForwards, engineVars
<1>3. CASE ~Gating
  <2>1. at' = "open" /\ UNCHANGED <<frames, fsm, pool>> /\ ~Live
    BY <1>3 DEF Gate, Gating, engineVars, gateVars
  <2>2. Permits' = Permits /\ Live' = Live
    BY <1>2, <2>1, PermitsKept
  <2> QED BY <1>1, <1>2, <2>1, <2>2 DEF GateInv
<1>4. CASE Gating /\ ~Live
  <2>1. /\ at' = "gated" /\ frames' = frames
        /\ fsm' = EarlyState /\ pool' \in PoolAfterTransit(fsm')
    BY <1>4 DEF Gate, engineVars
  <2>2. Permits' = AllowedAtomics(fsm', WorkflowState)
    BY <1>2, <2>1, PermitsNext DEF HasWorkflow, Root, WorkflowState
  <2>3. pool' \subseteq AllowedAtomics(fsm', WorkflowState)
    <3>1. CASE fsm' = fsm
      <4>1. pool' = pool /\ pool \subseteq Permits
        BY <1>2, <1>4, <2>1, <3>1 DEF PoolAfterTransit, GateInv
      <4> QED BY <3>1, <4>1 DEF Permits
    <3>2. CASE fsm' # fsm
      BY <2>1, <3>2, VisiblePermitted DEF PoolAfterTransit
    <3> QED BY <3>1, <3>2
  <2> QED BY <1>1, <1>2, <2>1, <2>2, <2>3 DEF GateInv
<1>5. CASE Gating /\ Live
  <2> DEFINE x == FastForward(Root.wf, Root.x, Call)
  <2>1. /\ ModelFastForwards(Call) /\ at' = "gated"
        /\ pool' = AllowedAtomics(fsm', Root'.x)
    BY <1>5 DEF Gate, PoolOfStep
  <2>2. HasWorkflow /\ EngineInv /\ pc = "llm" /\ SetRoot(x)
    BY <1>5, <2>1 DEF Live, GateInv, LoopWorkflow, ModelFastForwards
  <2>3. x \in GoodState(Root.wf)
    BY <2>2, RootFacts, GoodFastForward
  <2>4. HasWorkflow' /\ Root'.wf = Root.wf
    BY <2>2, <2>3, SetRootWorkflow
  <2>5. Permits' = AllowedAtomics(fsm', WorkflowState')
    BY <1>2, <2>2, <2>4, PermitsNext
  <2>6. WorkflowState' = Root'.x
    BY <2>4 DEF WorkflowState
  <2> HIDE DEF x
  <2> QED BY <1>1, <1>2, <2>1, <2>5, <2>6 DEF GateInv
<1> QED BY <1>3, <1>4, <1>5

LEMMA GateOnDispatch ==
  ASSUME GateInv, Dispatched
  PROVE  GateInv'
<1>1. LoopWorkflow'
  BY LoopWorkflowStep DEF GateInv, Next, HandleCall
<1>2. /\ UNCHANGED <<cfg, fsm, pool>>
      /\ at \in {"gated", "open"} /\ at' \in {"stop", "calls"}
      /\ pc' \in {pc, "llm", "crashed"}
  BY DEF Dispatched, Permitted, gateVars, engineVars, ModelCalls, ModelAdvances
<1>3. pool \subseteq Permits /\ pc \notin {"engine", "saga"}
  BY <1>2 DEF GateInv
<1>4. CASE UNCHANGED frames
  <2>1. Permits' = Permits
    BY <1>2, <1>4, PermitsKept
  <2> QED BY <1>1, <1>2, <1>3, <2>1 DEF GateInv
<1>5. CASE ~UNCHANGED frames
  <2>1. PICK ok \in BOOLEAN : Live /\ ModelAdvances(ok) /\ pc = "llm"
    BY <1>5 DEF Dispatched, ModelCalls, engineVars
  <2> DEFINE y == Advance(Root.wf, Root.x, ok)
             x == [y EXCEPT !.raised = FALSE]
  <2>2. HasWorkflow /\ EngineInv /\ SetRoot(x)
    BY <2>1 DEF Live, GateInv, LoopWorkflow, ModelAdvances
  <2>3. /\ Root.wf \in Workflows /\ Root.x \in ExecState(Root.wf)
        /\ Root.x \in GoodState(Root.wf) /\ y \in GoodState(Root.wf)
    BY <2>1, <2>2, RootFacts, GoodAdvance DEF GoodState
  <2>4. x \in GoodState(Root.wf)
    BY <2>3, GoodMarks
  <2>5. HasWorkflow' /\ Root'.wf = Root.wf /\ Root'.x = x
    BY <2>1, <2>2, <2>4, SetRootWorkflow
  <2>6. Permits' = AllowedAtomics(fsm, x)
    BY <1>2, <2>2, <2>5, PermitsNext DEF WorkflowState
  <2>7. x.finished = y.finished /\ x.cur = y.cur
    BY <2>3 DEF GoodState, ExecState
  <2>8. ~Live' => Permits' = Permits
    <3>1. SUFFICES ASSUME ~Live' PROVE Permits' = Permits
      OBVIOUS
    <3>2. y.finished
      BY <2>5, <2>7, <3>1 DEF Live
    <3>3. y.cur = Root.x.cur
      BY <2>1, <2>3, <3>2, FinishKeepsCursor DEF Live
    <3>4. AllowedAtomics(fsm, x) = AllowedAtomics(fsm, Root.x)
      BY <2>7, <3>3, AllowedByCursor
    <3> QED BY <2>2, <2>6, <3>4 DEF Permits, WorkflowState
  <2> HIDE DEF x, y
  <2> QED BY <1>1, <1>2, <1>3, <2>8 DEF GateInv
<1> QED BY <1>4, <1>5

(* Actions that leave the batch behind.                                    *)
LEMMA GateElsewhere ==
  ASSUME GateInv, LoopWorkflow', at' \notin {"gated", "open", "calls"},
         pc' = "engine" => at' = "engine", pc' = "saga" => at' = "stop"
  PROVE  GateInv'
BY DEF GateInv

LEMMA GateStep == GateInv /\ [Next]_vars => GateInv'
<1> SUFFICES ASSUME GateInv, [Next]_vars PROVE GateInv'
  OBVIOUS
<1>1. LoopWorkflow'
  BY LoopWorkflowStep DEF GateInv
<1>2. CASE RunEngineStep
  <2>1. at = "engine" /\ at' = at /\ pc' # "saga"
    BY <1>2, EngineStepFacts DEF RunEngineStep, GateInv
  <2> QED BY <1>1, <2>1, GateElsewhere
<1>3. CASE EngineReturnsAtStart \/ OutOfTurns \/ TalkStops
  <2>1. pc' = pc /\ at \in {"engine", "head", "calls"} /\ at' \in {"head", "stop"}
        /\ (at = "engine" => pc = "llm")
    BY <1>3 DEF EngineReturnsAtStart, OutOfTurns, TalkStops, engineVars
  <2> QED BY <1>1, <2>1, GateElsewhere DEF GateInv
<1>4. CASE TalkMoves \/ CircuitStops
  <2>1. pc' = pc /\ at = "calls" /\ at' \in {"head", "stop"}
    BY <1>4 DEF TalkMoves, CircuitStops, BatchDone, engineVars
  <2> QED BY <1>1, <2>1, GateElsewhere DEF GateInv
<1>5. CASE TalkRunsEngine
  BY <1>1, <1>5, GateElsewhere DEF TalkRunsEngine, EngineRuns
<1>6. CASE EngineReturnsAtTalk
  <2>1. pc' \in {"llm", "crashed"} /\ at' \in {"head", "stop"}
    BY <1>6 DEF EngineReturnsAtTalk, AfterTalk, ModelSkips, ModelAdvances, engineVars
  <2> QED BY <1>1, <2>1, GateElsewhere
<1>7. CASE BatchEnds
  <2>1. pc' \in {pc, "llm", "crashed"} /\ at = "calls" /\ at' \in {"settle", "stop"}
    BY <1>7 DEF BatchEnds, BatchDone, ModelSkips, ModelAdvances, engineVars
  <2> QED BY <1>1, <2>1, GateElsewhere DEF GateInv
<1>8. CASE AfterCalls
  <2>1. \/ pc' = "engine" /\ at' = "engine"
        \/ pc' = pc /\ at = "settle" /\ at' \in {"head", "stop"}
    BY <1>8 DEF AfterCalls, EngineRuns, AfterBatch, engineVars
  <2> QED BY <1>1, <2>1, GateElsewhere DEF GateInv
<1>9. CASE EngineReturnsAtBatch
  <2>1. pc' = "llm" /\ at' \in {"head", "stop"}
    BY <1>9 DEF EngineReturnsAtBatch, AfterBatch, engineVars
  <2> QED BY <1>1, <2>1, GateElsewhere
<1>10. CASE Finish
  <2>1. at = "stop" /\ at' = at /\ pc' \in {"saga", "over"}
    BY <1>10 DEF Finish, RunEnds
  <2> QED BY <1>1, <2>1, GateElsewhere
<1>11. CASE Unwind
  <2>1. pc = "saga" /\ at' = at /\ pc' \in {"saga", "over"}
    BY <1>11 DEF Unwind, Compensate
  <2>2. at = "stop"
    BY <2>1 DEF GateInv
  <2> QED BY <1>1, <2>1, <2>2, GateElsewhere
<1>12. CASE UNCHANGED vars
  <2>1. /\ UNCHANGED <<cfg, frames, fsm, pool, at, pc, batch>>
    BY <1>12 DEF vars, engineVars, gateVars
  <2>2. Permits' = Permits /\ Live' = Live
    BY <2>1, PermitsKept
  <2> QED BY <1>1, <2>1, <2>2 DEF GateInv
<1> QED
  BY <1>2, <1>3, <1>4, <1>5, <1>6, <1>7, <1>8, <1>9, <1>10, <1>11, <1>12,
     GateOnPrompt, GateOnAnswered, GateOnBlocked, GateOnGate, GateOnDispatch
     DEF Next, Talk, HandleCall, EndBatch, Returned

LEMMA GateInit == Init => GateInv
<1> SUFFICES ASSUME Init PROVE GateInv
  OBVIOUS
<1>1. /\ at \in {"engine", "head"}
      /\ pc = "engine" => at = "engine"
      /\ pc \in {"engine", "llm"} /\ (~HasWorkflow => pc = "llm")
  BY DEF Init, EngineInit, HasWorkflow
<1>2. HasWorkflow => EngineInv
  BY EngineInvInit DEF Init, HasWorkflow
<1> QED BY <1>1, <1>2 DEF GateInv, LoopWorkflow

(* No call is judged at the gate by the tools of an earlier state or       *)
(* workflow step, whatever the architecture, catalogue and tool surface.   *)
THEOREM GateCurrent == Spec => []GateUsesCurrentState
<1>1. GateInv => GateUsesCurrentState
  BY DEF GateInv, Permits, GateUsesCurrentState
<1> QED BY <1>1, GateInit, GateStep, PTL DEF Spec

(* What holds of a workflow on its own holds in the loop: its type and its *)
(* return edges.                                                           *)
THEOREM LoopWorkflowSound == Spec => [](HasWorkflow => EngineTypeOK /\ LoopEdge)
<1>1. GateInv => (HasWorkflow => EngineTypeOK /\ LoopEdge)
  BY EngineInvImplies DEF GateInv, LoopWorkflow
<1> QED BY <1>1, GateInit, GateStep, PTL DEF Spec

-----------------------------------------------------------------------------
(* The model is prompted in the state and on the kind of step the engine   *)
(* left the workflow on.                                                   *)
LEMMA RootKept ==
  ASSUME UNCHANGED <<cfg, frames>>
  PROVE  /\ EngineMode' = EngineMode /\ Live' = Live
         /\ HasWorkflow' = HasWorkflow /\ Root' = Root /\ RootStep' = RootStep
BY DEF EngineMode, Live, HasWorkflow, Root, RootStep

(* The loop's only ways to the next prompt.                                *)
LEMMA WaysToPrompt ==
  ASSUME GateInv, [Next]_vars, at' = "head"
  PROVE  \/ at = "head" /\ UNCHANGED <<cfg, fsm, frames>>
         \/ EngineReturnsAtStart \/ TalkMoves \/ EngineReturnsAtTalk
         \/ AfterCalls /\ ~Live
         \/ EngineReturnsAtBatch
<1>1. ~RunEngineStep
  BY EngineStepFacts DEF RunEngineStep, GateInv
<1>2. ~(Prompt \/ OutOfTurns)
  BY DEF Prompt, OutOfTurns
<1>3. Talk => TalkMoves \/ EngineReturnsAtTalk
  BY DEF Talk, TalkRunsEngine, TalkStops
<1>4. ~HandleCall
  BY DEF HandleCall, ReadResource, Gate, Blocked, Denied, Suppressed, Dispatched, NextCall
<1>5. EndBatch => (AfterCalls /\ ~Live) \/ EngineReturnsAtBatch
  BY DEF EndBatch, CircuitStops, BatchEnds, AfterCalls
<1>6. ~(Finish \/ Unwind)
  BY DEF Finish, Unwind, Compensate, GateInv
<1>7. UNCHANGED vars => at = "head" /\ UNCHANGED <<cfg, fsm, frames>>
  BY DEF vars, gateVars, engineVars
<1> QED BY <1>1, <1>2, <1>3, <1>4, <1>5, <1>6, <1>7 DEF Next, Returned

(* Passing over an optional step when the model answers with text.         *)
LEMMA TalkSkipFacts ==
  ASSUME GateInv, EngineReturnsAtTalk, Live, EngineMode, IsOptional(Root.wf, Root.x.cur)
  PROVE  /\ HasWorkflow' /\ Root'.wf = Root.wf /\ cfg' = cfg
         /\ Root'.x = [AdvanceOk(Root.wf, Root.x) EXCEPT !.raised = FALSE]
         /\ pc' = IF AdvanceOk(Root.wf, Root.x).raised THEN "crashed" ELSE "llm"
<1> DEFINE y == AdvanceOk(Root.wf, Root.x)
<1>1. /\ pc = "llm" /\ cfg' = cfg /\ EngineInv /\ SetRoot([y EXCEPT !.raised = FALSE])
      /\ pc' = IF y.raised THEN "crashed" ELSE "llm"
  BY DEF EngineReturnsAtTalk, ModelSkips, ModelAdvances, Advance, GateInv, LoopWorkflow, Live
<1>2. y \in GoodState(Root.wf)
  BY <1>1, RootFacts, GoodAdvance DEF Advance
<1>3. [y EXCEPT !.raised = FALSE] \in GoodState(Root.wf)
  BY <1>1, <1>2, RootFacts, GoodMarks
<1> HIDE DEF y
<1>4. HasWorkflow' /\ Root'.wf = Root.wf /\ Root'.x = [y EXCEPT !.raised = FALSE]
  BY <1>1, <1>3, SetRootWorkflow
<1> QED BY <1>1, <1>4 DEF y

(* The loop goes on after a talk-only turn only in the state of the step   *)
(* the cursor is on then.                                                  *)
LEMMA SyncAfterTalk ==
  ASSUME GateInv, EngineReturnsAtTalk, at' = "head", EngineMode, Live'
  PROVE  fsm' = RootStep'.state
<1>1. /\ fsm' # fsm /\ pc' # "crashed" /\ ~Root'.x.finished /\ EngineMode
      /\ fsm' = Step(Root.wf, Root'.x.cur).state
  BY DEF EngineReturnsAtTalk, AfterTalk, EnterEngineState, Live
<1>2. Root'.wf = Root.wf
  <2>1. CASE Live /\ IsOptional(Root.wf, Root.x.cur)
    BY <2>1, TalkSkipFacts
  <2>2. CASE ~(Live /\ IsOptional(Root.wf, Root.x.cur))
    BY <2>2, RootKept DEF EngineReturnsAtTalk, engineVars
  <2> QED BY <2>1, <2>2
<1> QED BY <1>1, <1>2 DEF RootStep

LEMMA SyncStep == GateInv /\ EngineStateSync /\ [Next]_vars => EngineStateSync'
<1> SUFFICES ASSUME GateInv, EngineStateSync, [Next]_vars,
                    EngineMode', Live', at' = "head"
             PROVE  fsm' = RootStep'.state
  BY DEF EngineStateSync
<1>1. CASE at = "head" /\ UNCHANGED <<cfg, fsm, frames>>
  BY <1>1, RootKept DEF EngineStateSync
<1>2. CASE EngineReturnsAtStart
  <2>1. UNCHANGED <<cfg, frames>>
    BY <1>2 DEF EngineReturnsAtStart, engineVars
  <2> QED BY <1>2, <2>1, RootKept DEF EngineReturnsAtStart, EnterEngineState
<1>3. CASE TalkMoves \/ (AfterCalls /\ ~Live)
  <2>1. UNCHANGED <<cfg, frames>> /\ (EngineMode => ~Live)
    BY <1>3 DEF TalkMoves, AfterCalls, MayMove, LLMDrivesState, engineVars
  <2> QED BY <2>1, RootKept
<1>4. CASE EngineReturnsAtTalk
  <2>1. EngineMode
    BY <1>4 DEF EngineReturnsAtTalk, EngineMode
  <2> QED BY <1>4, <2>1, SyncAfterTalk
<1>5. CASE EngineReturnsAtBatch
  <2>1. UNCHANGED <<cfg, frames>>
    BY <1>5 DEF EngineReturnsAtBatch, engineVars
  <2>2. EngineMode /\ Live /\ RootStep' = RootStep
    BY <2>1, RootKept
  <2> QED BY <1>5, <2>2 DEF EngineReturnsAtBatch, AfterBatch, EnterEngineState, Live
<1> QED BY <1>1, <1>2, <1>3, <1>4, <1>5, WaysToPrompt

(* In engine mode the model is always prompted in the state of the step    *)
(* the cursor is on: through early transits, the breaker's diversion and   *)
(* every next_state the model asks for.                                    *)
THEOREM StateSyncHolds == Spec => []EngineStateSync
<1>1. Init => EngineStateSync
  BY DEF Init, EngineStateSync, EngineMode, Live, HasWorkflow
<1> QED BY <1>1, GateInit, GateStep, SyncStep, PTL DEF Spec

-----------------------------------------------------------------------------
(* In recipes whose optional steps precede steps of the model, passing     *)
(* over an optional step leads to a step of the model.                     *)
LEMMA SkipGoesToModel ==
  ASSUME NoOptionalBody, SkipsLeadToModel,
         NEW wf \in Workflows, NEW x \in GoodState(wf), IsOptional(wf, x.cur),
         ~AdvanceOk(wf, x).raised, ~AdvanceOk(wf, x).finished
  PROVE  Step(wf, AdvanceOk(wf, x).cur).kind = "llm"
<1>1. x \in ExecState(wf) /\ x.cur \in StepIds(wf) /\ LoopEdgeOf(wf, x)
  BY DEF GoodState, ExecState
<1>2. x.ret = <<>>
  <2>1. SUFFICES ASSUME x.ret # <<>> PROVE FALSE
    OBVIOUS
  <2>2. /\ Step(wf, x.ret[1]).kind = "loop" /\ x.cur = Step(wf, x.ret[1]).body
        /\ Len(x.ret) = 1
    BY <1>1, <2>1 DEF LoopEdgeOf
  <2>3. x.ret[1] \in StepIds(wf)
    BY <1>1, <2>2 DEF ExecState
  <2> QED BY <2>2, <2>3 DEF NoOptionalBody
<1>3. PICK done \in ExecState(wf) : /\ AdvanceOk(wf, x) = AdvanceAfter(wf, done, x.cur)
                                    /\ done.cur = x.cur
  <2> DEFINE done == [Complete(x) EXCEPT
                        !.comps = IF Step(wf, x.cur).comp
                                    THEN Append(@, <<wf, x.cur>>) ELSE @]
  <2>1. done \in ExecState(wf) /\ done.cur = x.cur
    <3>1. Complete(x) \in ExecState(wf) /\ Complete(x).cur = x.cur
      BY <1>1, CompleteType DEF Complete, ExecState
    <3>2. Append(Complete(x).comps, <<wf, x.cur>>) \in Seq(Changes)
      BY <1>1, <3>1, ChangeOf, AppendProperties DEF ExecState
    <3> QED BY <3>1, <3>2 DEF ExecState
  <2>2. AdvanceOk(wf, x) = AdvanceAfter(wf, done, x.cur)
    BY <1>2 DEF AdvanceOk
  <2> QED BY <2>1, <2>2
<1>4. x.cur # Len(Catalogue[wf]) /\ AdvanceOk(wf, x).cur = x.cur + 1
  BY <1>3 DEF AdvanceAfter, ExecState
<1> QED BY <1>1, <1>4, WorkflowFacts DEF SkipsLeadToModel

LEMMA FastForwardGoesToModel ==
  ASSUME SkipsLeadToModel,
         NEW wf \in Workflows, NEW x \in ExecState(wf), NEW a,
         Step(wf, x.cur).kind = "llm", ~FastForward(wf, x, a).finished
  PROVE  Step(wf, FastForward(wf, x, a).cur).kind = "llm"
<1>1. PICK stop \in x.cur .. Len(Catalogue[wf]) + 1 :
        /\ \A k \in x.cur .. stop - 1 : Skippable(wf, k, a)
        /\ stop <= Len(Catalogue[wf]) => ~Skippable(wf, stop, a)
        /\ FastForward(wf, x, a) =
             IF x.finished THEN x
             ELSE IF stop > Len(Catalogue[wf])
               THEN [x EXCEPT !.completed = @ \cup (x.cur .. stop - 1),
                              !.cur = Len(Catalogue[wf]), !.finished = TRUE]
             ELSE [x EXCEPT !.completed = @ \cup (x.cur .. stop - 1), !.cur = stop]
  BY FastForwardStop
<1>2. /\ Len(Catalogue[wf]) \in Nat \ {0} /\ StepIds(wf) = 1 .. Len(Catalogue[wf])
      /\ x.cur \in 1 .. Len(Catalogue[wf]) /\ stop \in Nat
  BY WorkflowFacts DEF ExecState
<1>3. stop <= Len(Catalogue[wf]) /\ FastForward(wf, x, a).cur = stop
  BY <1>1, <1>2 DEF ExecState
<1>4. CASE stop = x.cur
  BY <1>3, <1>4
<1>5. CASE stop > x.cur
  <2>1. /\ stop - 1 \in x.cur .. stop - 1 /\ stop - 1 \in StepIds(wf)
        /\ stop - 1 < Len(Catalogue[wf]) /\ (stop - 1) + 1 = stop
    BY <1>2, <1>3, <1>5
  <2>2. IsOptional(wf, stop - 1)
    BY <1>1, <2>1 DEF Skippable, IsOptional
  <2> QED BY <1>3, <2>1, <2>2 DEF SkipsLeadToModel
<1> QED BY <1>2, <1>4, <1>5

-----------------------------------------------------------------------------
(* The engine gives control back on an llm step, and until the loop takes  *)
(* up again where it left nothing moves the cursor.                        *)
ModelHasControl == at = "engine" /\ pc = "llm" /\ Live => RootStep.kind = "llm"

PromptInv == GateInv /\ ModelHasControl /\ PromptedOnModelSteps

LEMMA EngineYields ==
  ASSUME EngineStep, pc' = "llm"
  PROVE  YieldToModel
<1> USE DEF OnStep
<1>1. ~(ExecDeterministic \/ ExecToolCall \/ Conditional \/ Loop)
  BY DEF ExecDeterministic, ExecToolCall, Conditional, Loop
<1>2. ~(EnterSubWorkflow \/ LeaveSubWorkflow \/ ExhaustBudget)
  BY DEF EnterSubWorkflow, LeaveSubWorkflow, ExhaustBudget
<1> QED BY <1>1, <1>2 DEF EngineStep

LEMMA ControlStep == GateInv /\ ModelHasControl /\ [Next]_vars => ModelHasControl'
<1> SUFFICES ASSUME GateInv, ModelHasControl, [Next]_vars,
                    at' = "engine", pc' = "llm", Live'
             PROVE  RootStep'.kind = "llm"
  BY DEF ModelHasControl
<1>1. CASE RunEngineStep
  <2>1. YieldToModel /\ cfg' = cfg
    BY <1>1, EngineYields DEF RunEngineStep
  <2>2. UNCHANGED frames /\ EngineStops(Root)
    BY <2>1 DEF YieldToModel
  <2>3. Live /\ RootStep' = RootStep
    BY <2>1, <2>2, RootKept
  <2> QED BY <2>2, <2>3 DEF EngineStops, RootStep, Live
<1>2. ~(EngineReturnsAtStart \/ Prompt \/ OutOfTurns)
  BY DEF EngineReturnsAtStart, Prompt, OutOfTurns
<1>3. ~Talk
  BY DEF Talk, TalkMoves, TalkRunsEngine, TalkStops, EngineReturnsAtTalk, AfterTalk,
         EngineRuns
<1>4. ~HandleCall
  BY DEF HandleCall, ReadResource, Gate, Blocked, Denied, Suppressed, Dispatched, NextCall
<1>5. ~EndBatch
  BY DEF EndBatch, CircuitStops, BatchEnds, AfterCalls, EngineReturnsAtBatch,
         AfterBatch, EngineRuns
<1>6. ~(Finish \/ Unwind)
  BY DEF Finish, Unwind, Compensate, GateInv
<1>7. CASE UNCHANGED vars
  <2>1. UNCHANGED <<cfg, frames, at, pc>>
    BY <1>7 DEF vars, engineVars
  <2> QED BY <2>1, RootKept DEF ModelHasControl
<1> QED BY <1>1, <1>2, <1>3, <1>4, <1>5, <1>6, <1>7 DEF Next, Returned

LEMMA PromptedStep ==
  ASSUME NoOptionalBody, SkipsLeadToModel, PromptInv, [Next]_vars
  PROVE  PromptedOnModelSteps'
<1> SUFFICES ASSUME EngineMode', Live', at' = "head"
             PROVE  RootStep'.kind = "llm"
  BY DEF PromptedOnModelSteps
<1>1. CASE at = "head" /\ UNCHANGED <<cfg, fsm, frames>>
  BY <1>1, RootKept DEF PromptInv, PromptedOnModelSteps
<1>2. CASE EngineReturnsAtStart \/ EngineReturnsAtBatch
  <2>1. UNCHANGED <<cfg, frames>> /\ at = "engine" /\ pc = "llm"
    BY <1>2 DEF EngineReturnsAtStart, EngineReturnsAtBatch, engineVars
  <2> QED BY <2>1, RootKept DEF PromptInv, ModelHasControl
<1>3. CASE TalkMoves \/ (AfterCalls /\ ~Live)
  <2>1. UNCHANGED <<cfg, frames>> /\ (EngineMode => ~Live)
    BY <1>3 DEF TalkMoves, AfterCalls, MayMove, LLMDrivesState, engineVars
  <2> QED BY <2>1, RootKept
<1>4. CASE EngineReturnsAtTalk
  <2>1. CASE EngineMode /\ Live /\ IsOptional(Root.wf, Root.x.cur)
    <3> DEFINE y == AdvanceOk(Root.wf, Root.x)
    <3>1. /\ Root'.wf = Root.wf /\ Root'.x = [y EXCEPT !.raised = FALSE]
          /\ pc' = IF y.raised THEN "crashed" ELSE "llm"
      BY <1>4, <2>1, TalkSkipFacts DEF PromptInv
    <3>2. ~y.raised
      BY <1>4, <3>1 DEF EngineReturnsAtTalk, AfterTalk
    <3>3. Root.wf \in Workflows /\ Root.x \in GoodState(Root.wf)
      BY <1>4, <2>1, RootFacts
         DEF PromptInv, GateInv, LoopWorkflow, Live, EngineReturnsAtTalk
    <3>4. y \in ExecState(Root.wf)
      BY <3>3, AdvanceOkType DEF GoodState
    <3>5. Root'.x.cur = y.cur /\ Root'.x.finished = y.finished
      BY <3>1, <3>4 DEF ExecState
    <3>6. ~y.finished
      BY <3>5 DEF Live
    <3>7. Step(Root.wf, y.cur).kind = "llm"
      BY <2>1, <3>2, <3>3, <3>6, SkipGoesToModel
    <3> QED BY <3>1, <3>5, <3>7 DEF RootStep
  <2>2. CASE ~(EngineMode /\ Live /\ IsOptional(Root.wf, Root.x.cur))
    <3>1. UNCHANGED <<cfg, frames>> /\ at = "engine" /\ pc = "llm"
      BY <1>4, <2>2 DEF EngineReturnsAtTalk, engineVars
    <3> QED BY <3>1, RootKept DEF PromptInv, ModelHasControl
  <2> QED BY <2>1, <2>2
<1> QED BY <1>1, <1>2, <1>3, <1>4, WaysToPrompt DEF PromptInv

LEMMA PromptInit == Init => PromptInv
<1>1. Init => ModelHasControl /\ PromptedOnModelSteps
  BY DEF Init, ModelHasControl, PromptedOnModelSteps, EngineMode, Live, HasWorkflow
<1> QED BY <1>1, GateInit DEF PromptInv

LEMMA PromptStep ==
  ASSUME NoOptionalBody, SkipsLeadToModel
  PROVE  PromptInv /\ [Next]_vars => PromptInv'
BY GateStep, ControlStep, PromptedStep DEF PromptInv

(* In engine mode the model is prompted for llm steps only: the engine     *)
(* drives every other kind.  (Recipes whose optional steps precede steps   *)
(* of the model, none of them the body of a loop.)                         *)
THEOREM PromptsHold ==
  ASSUME NoOptionalBody, SkipsLeadToModel
  PROVE  Spec => []PromptedOnModelSteps
<1>1. PromptInv => PromptedOnModelSteps
  BY DEF PromptInv
<1> QED BY <1>1, PromptInit, PromptStep, PTL DEF Spec

-----------------------------------------------------------------------------
(* With one call per response, a call of the model is in hand only while   *)
(* the cursor is on a step of the model, so only such steps are completed  *)
(* on the model's behalf.                                                  *)
CallInHand == at \in {"gated", "open"} \/ (at = "calls" /\ batch # <<>>)

OneByOne == EngineMode /\ cfg.batch = 1

WereRunInv ==
  /\ AnswerInv /\ PromptInv
  /\ OneByOne => /\ Len(batch) <= 1
                 /\ HasWorkflow => RanInv
                 /\ Live /\ CallInHand => RootStep.kind = "llm"

LEMMA ConfigKept ==
  ASSUME [Next]_vars
  PROVE  cfg' = cfg /\ EngineMode' = EngineMode /\ OneByOne' = OneByOne
<1>1. cfg' = cfg
  <2>1. Talk => cfg' = cfg
    BY DEF Talk, TalkMoves, TalkRunsEngine, TalkStops, EngineReturnsAtTalk
  <2>2. HandleCall => cfg' = cfg
    BY DEF HandleCall, ReadResource, Gate, Blocked, Denied, Suppressed, Dispatched
  <2>3. EndBatch => cfg' = cfg
    BY DEF EndBatch, CircuitStops, BatchEnds, AfterCalls, EngineReturnsAtBatch
  <2>4. RunEngineStep \/ EngineReturnsAtStart \/ Prompt \/ OutOfTurns => cfg' = cfg
    BY DEF RunEngineStep, EngineReturnsAtStart, Prompt, OutOfTurns
  <2>5. Finish \/ Unwind \/ UNCHANGED vars => cfg' = cfg
    BY DEF Finish, Unwind, vars
  <2> QED BY <2>1, <2>2, <2>3, <2>4, <2>5 DEF Next, Returned
<1> QED BY <1>1 DEF EngineMode, OneByOne

(* The batch is one call long, or none.                                    *)
LEMMA OneCallStep ==
  ASSUME WereRunInv, OneByOne, [Next]_vars
  PROVE  /\ Len(batch') <= 1
         /\ batch' # <<>> => Prompt \/ batch' = batch
<1>1. /\ batch \in Seq(Requests) /\ Len(batch) \in Nat /\ Len(batch) <= 1
      /\ batch # <<>> => Tail(batch) = <<>>
  <2>1. batch \in Seq(Requests) /\ Len(batch) \in Nat /\ Len(batch) <= 1
    BY DEF WereRunInv, AnswerInv
  <2>2. ASSUME batch # <<>> PROVE Tail(batch) = <<>>
    <3>1. Len(batch) \in Nat \ {0} /\ Len(batch) <= 1
      BY <2>1, <2>2, EmptySeq
    <3>2. Len(batch) = 1
      <4>1. \A n \in Nat \ {0} : n <= 1 => n = 1
        OBVIOUS
      <4> QED BY <3>1, <4>1, Zenon
    <3>3. Tail(batch) \in Seq(Requests) /\ Len(Tail(batch)) = Len(batch) - 1
      BY <2>1, <2>2, HeadTailProperties
    <3>4. Len(Tail(batch)) = 0
      BY <3>2, <3>3
    <3>5. \A s \in Seq(Requests) : Len(s) = 0 => s = <<>>
      BY EmptySeq
    <3> QED BY <3>3, <3>4, <3>5
  <2> QED BY <2>1, <2>2
<1>2. CASE Prompt
  <2>1. PICK n \in 0 .. cfg.batch :
          batch' \in [1 .. n -> IF cfg.resources THEN Requests ELSE Tools]
    BY <1>2 DEF Prompt
  <2>2. n \in Nat /\ n <= 1 /\ DOMAIN batch' = 1 .. n
    BY <2>1 DEF OneByOne
  <2>3. batch' \in Seq(Requests)
    BY AnswerStep DEF WereRunInv, AnswerInv
  <2> QED BY <1>2, <2>2, <2>3
<1>3. CASE batch' = batch
  BY <1>1, <1>3
<1>4. CASE batch' = <<>>
  BY <1>4
<1>5. CASE batch' = Tail(batch) /\ batch # <<>>
  BY <1>1, <1>4, <1>5
<1>6. HandleCall => \/ batch' = batch \/ batch' = <<>>
                    \/ batch' = Tail(batch) /\ batch # <<>>
  <2>1. Blocked => batch' = <<>> \/ (batch' = Tail(batch) /\ batch # <<>>)
    BY DEF Blocked, NextCall, WereRunInv, AnswerInv
  <2>2. Gate => batch' = batch
    BY DEF Gate
  <2>3. ReadResource \/ Denied \/ Suppressed \/ Dispatched
          => batch' = Tail(batch) /\ batch # <<>>
    BY DEF ReadResource, Denied, Suppressed, Dispatched, NextCall, Permitted,
           WereRunInv, AnswerInv
  <2> QED BY <2>1, <2>2, <2>3 DEF HandleCall
<1>7. Talk \/ EndBatch => batch' = batch
  BY DEF Talk, TalkMoves, TalkRunsEngine, TalkStops, EngineReturnsAtTalk, EndBatch,
         CircuitStops, BatchEnds, AfterCalls, EngineReturnsAtBatch
<1>8. RunEngineStep \/ EngineReturnsAtStart \/ OutOfTurns \/ Finish \/ Unwind
        \/ UNCHANGED vars => batch' = batch
  BY DEF RunEngineStep, EngineReturnsAtStart, OutOfTurns, Finish, Unwind, vars
<1> QED
  BY <1>2, <1>3, <1>4, <1>5, <1>6, <1>7, <1>8 DEF Next, Returned

LEMMA CallInHandStep ==
  ASSUME SkipsLeadToModel, WereRunInv, OneByOne, [Next]_vars, Live', CallInHand'
  PROVE  RootStep'.kind = "llm"
<1>1. CASE Prompt
  <2>1. UNCHANGED <<cfg, frames>> /\ at = "head"
    BY <1>1 DEF Prompt, engineVars
  <2> QED BY <2>1, RootKept DEF WereRunInv, PromptInv, PromptedOnModelSteps, OneByOne
<1>2. CASE Gate
  <2>1. at = "calls" /\ batch # <<>> /\ cfg' = cfg
    BY <1>2 DEF Gate
  <2>2. CASE UNCHANGED frames
    BY <2>1, <2>2, RootKept DEF WereRunInv, CallInHand
  <2>3. CASE ~UNCHANGED frames
    <3> DEFINE x == FastForward(Root.wf, Root.x, Call)
    <3>1. Live /\ pc = "llm" /\ SetRoot(x) /\ EngineInv
      BY <1>2, <2>3
         DEF Gate, ModelFastForwards, engineVars, WereRunInv, PromptInv, GateInv,
             LoopWorkflow, Live
    <3>2. /\ Root.wf \in Workflows /\ Root.x \in ExecState(Root.wf)
          /\ x \in GoodState(Root.wf)
      BY <3>1, RootFacts, GoodFastForward DEF GoodState
    <3>3. Root'.wf = Root.wf /\ Root'.x = x
      BY <3>1, <3>2, SetRootWorkflow
    <3>4. Step(Root.wf, Root.x.cur).kind = "llm"
      BY <2>1, <3>1 DEF WereRunInv, CallInHand, RootStep
    <3>5. Step(Root.wf, x.cur).kind = "llm"
      BY <3>2, <3>3, <3>4, FastForwardGoesToModel DEF Live
    <3> QED BY <3>3, <3>5 DEF RootStep
  <2> QED BY <2>2, <2>3
<1>3. CASE UNCHANGED vars
  <2>1. UNCHANGED <<cfg, frames, at, batch>>
    BY <1>3 DEF vars, engineVars
  <2> QED BY <2>1, RootKept DEF WereRunInv, CallInHand
<1>4. ~(ReadResource \/ Blocked \/ Denied \/ Suppressed \/ Dispatched)
  <2>1. SUFFICES ASSUME ReadResource \/ Blocked \/ Denied \/ Suppressed \/ Dispatched
                 PROVE  FALSE
    OBVIOUS
  <2>2. at' \in {"calls", "stop"} /\ ~Prompt
    BY <2>1 DEF ReadResource, Blocked, Denied, Suppressed, Dispatched, NextCall,
                Permitted, Prompt
  <2>3. batch' = batch /\ batch # <<>>
    BY <2>2, OneCallStep DEF CallInHand
  <2>4. batch' = <<>> \/ batch' = Tail(batch)
    BY <2>1 DEF ReadResource, Blocked, Denied, Suppressed, Dispatched, NextCall
  <2>5. Len(batch) \in Nat /\ Len(Tail(batch)) = Len(batch) - 1
    BY <2>3, HeadTailProperties DEF WereRunInv, AnswerInv
  <2>6. Tail(batch) # batch
    BY <2>5
  <2> QED BY <2>3, <2>4, <2>6
<1>5. ~(Talk \/ EndBatch)
  BY DEF Talk, TalkMoves, TalkRunsEngine, TalkStops, EngineReturnsAtTalk, AfterTalk,
         EndBatch, CircuitStops, BatchEnds, AfterCalls, EngineReturnsAtBatch,
         AfterBatch, CallInHand
<1>6. ~(RunEngineStep \/ EngineReturnsAtStart \/ OutOfTurns \/ Finish \/ Unwind)
  BY EngineStepFacts
     DEF RunEngineStep, EngineReturnsAtStart, OutOfTurns, Finish, Unwind, Compensate,
         CallInHand, WereRunInv, PromptInv, GateInv
<1> QED BY <1>1, <1>2, <1>3, <1>4, <1>5, <1>6 DEF Next, HandleCall, Returned

LEMMA RanStep ==
  ASSUME WereRunInv, OneByOne, [Next]_vars, HasWorkflow'
  PROVE  RanInv'
<1>1. LoopWorkflow
  BY DEF WereRunInv, PromptInv, GateInv
<1>2. HasWorkflow /\ EngineInv /\ RanInv
  <2>1. HasWorkflow
    BY <1>1, NoWorkflowStep DEF HasWorkflow
  <2> QED BY <1>1, <2>1 DEF LoopWorkflow, WereRunInv
<1>3. CASE UNCHANGED frames
  BY <1>2, <1>3 DEF RanInv
<1>4. CASE RunEngineStep
  BY <1>2, <1>4, EngineStepRan DEF RunEngineStep
<1>5. CASE EngineReturnsAtTalk \/ BatchEnds
  <2>1. ModelSkips \/ UNCHANGED frames
    BY <1>5 DEF EngineReturnsAtTalk, BatchEnds, engineVars
  <2> QED BY <1>2, <1>3, <2>1, ModelAdvancesRan DEF ModelSkips, IsOptional, RootStep
<1>6. CASE Dispatched
  <2>1. CASE ~UNCHANGED frames
    <3>1. PICK ok \in BOOLEAN : Live /\ pc = "llm" /\ ModelAdvances(ok)
      BY <1>6, <2>1 DEF Dispatched, ModelCalls, engineVars
    <3>2. RootStep.kind = "llm"
      BY <1>6, <3>1 DEF Dispatched, Permitted, WereRunInv, CallInHand
    <3> QED BY <1>2, <3>1, <3>2, ModelAdvancesRan
  <2> QED BY <1>3, <2>1
<1>7. CASE Gate
  <2>1. ModelFastForwards(Call) \/ UNCHANGED frames
    BY <1>7 DEF Gate, engineVars
  <2> QED BY <1>2, <1>3, <2>1, FastForwardRan
<1>8. CASE TalkRunsEngine \/ AfterCalls
  <2>1. EngineRuns \/ UNCHANGED frames
    BY <1>8 DEF TalkRunsEngine, AfterCalls, engineVars
  <2> QED BY <1>2, <1>3, <2>1, EngineRunsRan
<1>9. CASE Unwind
  BY <1>2, <1>9, CompensateRan DEF Unwind
<1>10. CASE Finish \/ UNCHANGED vars
  BY <1>3, <1>10 DEF Finish, RunEnds, vars, engineVars
<1>11. CASE TalkMoves \/ TalkStops \/ CircuitStops \/ EngineReturnsAtBatch
  BY <1>3, <1>11 DEF TalkMoves, TalkStops, CircuitStops, EngineReturnsAtBatch, engineVars
<1>12. CASE Prompt \/ OutOfTurns \/ EngineReturnsAtStart
  BY <1>3, <1>12 DEF Prompt, OutOfTurns, EngineReturnsAtStart, engineVars
<1>13. CASE ReadResource \/ Blocked \/ Denied \/ Suppressed
  BY <1>3, <1>13 DEF ReadResource, Blocked, Denied, Suppressed, engineVars
<1> QED
  BY <1>4, <1>5, <1>6, <1>7, <1>8, <1>9, <1>10, <1>11, <1>12, <1>13
     DEF Next, Talk, HandleCall, EndBatch, Returned

LEMMA WereRunInit == Init => WereRunInv
<1> SUFFICES ASSUME Init PROVE WereRunInv
  OBVIOUS
<1>1. AnswerInv /\ PromptInv
  BY PromptInit DEF Init, AnswerInv, EveryCallAnswered
<1>2. Len(batch) <= 1 /\ ~CallInHand
  BY DEF Init, CallInHand
<1>3. HasWorkflow => RanInv
  <2>1. SUFFICES ASSUME HasWorkflow PROVE RanInv
    OBVIOUS
  <2>2. PICK wf \in Workflows : frames = <<NewFrame(wf)>>
    BY <2>1 DEF Init, HasWorkflow, EngineInit
  <2>3. RanFrame(NewFrame(wf))
    BY DEF RanFrame, NewFrame, InitialState
  <2> QED BY <2>2, <2>3 DEF RanInv
<1> QED BY <1>1, <1>2, <1>3 DEF WereRunInv

LEMMA WereRunStep ==
  ASSUME NoOptionalBody, SkipsLeadToModel
  PROVE  WereRunInv /\ [Next]_vars => WereRunInv'
<1> SUFFICES ASSUME WereRunInv, [Next]_vars PROVE WereRunInv'
  OBVIOUS
<1>1. AnswerInv' /\ PromptInv'
  BY AnswerStep, PromptStep DEF WereRunInv
<1>2. OneByOne' = OneByOne
  BY ConfigKept
<1> QED BY <1>1, <1>2, OneCallStep, RanStep, CallInHandStep DEF WereRunInv

(* In engine mode, while responses hold one call, every step the engine    *)
(* drives that is marked complete was executed by the engine.  (Recipes    *)
(* whose optional steps precede steps of the model, none of them the body  *)
(* of a loop.)                                                             *)
THEOREM StepsWereRun ==
  ASSUME NoOptionalBody, SkipsLeadToModel
  PROVE  Spec => []EngineStepsWereRun
<1>1. WereRunInv => EngineStepsWereRun
  <2> SUFFICES ASSUME WereRunInv, EngineMode, HasWorkflow, cfg.batch = 1
               PROVE  RanFrame(Root)
    BY DEF EngineStepsWereRun, RanFrame
  <2>1. RanInv /\ EngineInv
    BY DEF WereRunInv, OneByOne, PromptInv, GateInv, LoopWorkflow
  <2> QED BY <2>1, FrameAt DEF RanInv, Root
<1> QED BY <1>1, WereRunInit, WereRunStep, PTL DEF Spec

-----------------------------------------------------------------------------
(* A signature is cached only while nothing changed since it was observed; *)
(* an engine-driven step that only reads leaves the cache good, and an     *)
(* agent without a workflow has no such step.                              *)
CacheInv ==
  /\ GateInv
  /\ cfg \in Configs
  /\ cfg.mode = "off" => ~HasWorkflow
  /\ ~cfg.dedupe => cached = {}
  /\ CachedIsFresh

(* An engine-driven step of recipes whose handlers only read changes       *)
(* nothing.                                                                *)
LEMMA EngineOnlyReadsStep ==
  ASSUME EngineOnlyReads, EngineInv, EngineStep
  PROVE  effects' = effects
<1> USE DEF OnStep
<1>1. CASE ExecDeterministic \/ ExecToolCall
  <2>1. TopStep.kind \in {"deterministic", "tool_call"}
    BY <1>1 DEF ExecDeterministic, ExecToolCall
  <2>2. ~TopStep.writes
    BY <2>1, TopFacts DEF EngineOnlyReads, TopStep
  <2> QED BY <1>1, <2>2 DEF ExecDeterministic, ExecToolCall, Performs
<1>2. CASE Conditional \/ Loop
  BY <1>2 DEF Conditional, Loop
<1>3. CASE EnterSubWorkflow \/ LeaveSubWorkflow
  BY <1>3 DEF EnterSubWorkflow, LeaveSubWorkflow
<1>4. CASE ExhaustBudget \/ YieldToModel
  BY <1>4 DEF ExhaustBudget, YieldToModel
<1> QED BY <1>1, <1>2, <1>3, <1>4 DEF EngineStep

LEMMA FreshOnEngineStep ==
  ASSUME DedupeMeetsNoWriter, CacheInv, RunEngineStep
  PROVE  CachedIsFresh'
<1>1. cached' = cached /\ EngineStep
  BY DEF RunEngineStep
<1>2. CASE ~cfg.dedupe
  BY <1>1, <1>2 DEF CacheInv, CachedIsFresh
<1>3. CASE cfg.dedupe
  <2>1. HasWorkflow /\ EngineInv
    BY <1>1, EngineStepFacts DEF CacheInv, GateInv, LoopWorkflow
  <2>2. EngineOnlyReads
    BY <1>3, <2>1 DEF CacheInv, DedupeMeetsNoWriter
  <2>3. stale' = stale
    BY <1>1, <2>1, <2>2, EngineOnlyReadsStep DEF RunEngineStep
  <2> QED BY <1>1, <2>3 DEF CacheInv, CachedIsFresh
<1> QED BY <1>2, <1>3

LEMMA FreshOnDispatch ==
  ASSUME CacheInv, Dispatched
  PROVE  CachedIsFresh' /\ (~cfg.dedupe => cached' = {})
<1>1. PICK ok \in BOOLEAN, wrote \in BOOLEAN : (wrote => ok) /\ Observe(ok, wrote)
  BY DEF Dispatched
<1> QED BY <1>1 DEF Observe, CacheInv, CachedIsFresh

LEMMA CacheStep ==
  ASSUME DedupeMeetsNoWriter
  PROVE  CacheInv /\ [Next]_vars => CacheInv'
<1> SUFFICES ASSUME CacheInv, [Next]_vars PROVE CacheInv'
  OBVIOUS
<1>1. GateInv' /\ cfg' = cfg /\ (~HasWorkflow => ~HasWorkflow')
  BY GateStep, ConfigKept, NoWorkflowStep DEF CacheInv, GateInv, HasWorkflow
<1>2. CachedIsFresh' /\ (~cfg.dedupe => cached' = {})
  <2>1. CASE RunEngineStep
    BY <2>1, FreshOnEngineStep DEF RunEngineStep, CacheInv
  <2>2. CASE Dispatched
    BY <2>2, FreshOnDispatch
  <2>3. CASE UNCHANGED padVars
    BY <2>3 DEF padVars, CacheInv, CachedIsFresh
  <2>4. Talk => UNCHANGED padVars
    BY DEF Talk, TalkMoves, TalkRunsEngine, TalkStops, EngineReturnsAtTalk
  <2>5. HandleCall => Dispatched \/ UNCHANGED padVars
    BY DEF HandleCall, ReadResource, Gate, Blocked, Denied, Suppressed
  <2>6. EndBatch => UNCHANGED padVars
    BY DEF EndBatch, CircuitStops, BatchEnds, AfterCalls, EngineReturnsAtBatch
  <2>7. EngineReturnsAtStart \/ Prompt \/ OutOfTurns => UNCHANGED padVars
    BY DEF EngineReturnsAtStart, Prompt, OutOfTurns
  <2>8. Finish \/ Unwind \/ UNCHANGED vars => UNCHANGED padVars
    BY DEF Finish, Unwind, vars
  <2> QED
    BY <2>1, <2>2, <2>3, <2>4, <2>5, <2>6, <2>7, <2>8 DEF Next, Returned
<1> QED BY <1>1, <1>2 DEF CacheInv

(* No suppressed call is answered with an observation a later change       *)
(* outdated, whatever the model calls and whatever its calls change.  (A   *)
(* writing step the engine drives is not reported to the scratchpad: the   *)
(* hypothesis excludes dedupe beside recipes that have one.)               *)
THEOREM CacheFresh ==
  ASSUME DedupeMeetsNoWriter
  PROVE  Spec => []CachedIsFresh
<1>1. Init => CacheInv
  <2>1. Init => /\ cfg \in Configs /\ cached = {} /\ stale = {}
                /\ cfg.mode = "off" => ~HasWorkflow
    BY DEF Init, HasWorkflow
  <2> QED BY <2>1, GateInit DEF CacheInv, CachedIsFresh
<1>2. CacheInv => CachedIsFresh
  BY DEF CacheInv
<1> QED BY <1>1, <1>2, CacheStep, PTL DEF Spec
=============================================================================
