--------------------------- MODULE WorkflowEngine ---------------------------
(***************************************************************************)
(* One workflow run: the engine-native step glue of agent/orchestrator.py  *)
(* driving the cursor of agent/workflow.py, the model acting on it between *)
(* engine runs, and the Saga at the end.  What the model does is left      *)
(* open here; AgentLoop is the component that decides it.                  *)
(*                                                                         *)
(*   frames   the nested _run_engine_steps activations, the selected       *)
(*            workflow first: its name, its execution state, the local     *)
(*            counter steps, and ran, the engine-driven steps that really  *)
(*            executed (not a program variable)                            *)
(*   pc       "engine": inside _run_engine_steps; "llm": the main loop has *)
(*            control; "saga"; "over"; "crashed": an exception left run()  *)
(*   effects  what the run changed in the world and has not undone, one    *)
(*            <<workflow, step>> per change, oldest first                  *)
(*   calls    tool calls and skips the model has made, bounded by MaxCalls *)
(***************************************************************************)
EXTENDS WorkflowSteps

CONSTANTS
  Tools,          \* tools the model may call
  MaxAutoSteps,   \* Agent._MAX_AUTO_STEPS
  MaxDepth,       \* Agent._MAX_SUBWORKFLOW_DEPTH
  Rollback,       \* workflow.rollback_on_failure
  MaxCalls,       \* bound on calls
  Conversed       \* bound: the recipes during which the model may call

ASSUME EngineAssumption ==
  /\ MaxAutoSteps \in Nat /\ MaxDepth \in Nat /\ MaxCalls \in Nat
  /\ Rollback \in BOOLEAN

VARIABLES frames, pc, effects, calls

engineVars == <<frames, pc, effects, calls>>

NewFrame(wf) == [wf |-> wf, x |-> InitialState(wf), steps |-> 0, ran |-> {}]
FrameOf(wf) ==
  [wf : {wf}, x : ExecState(wf), steps : Nat, ran : SUBSET StepIds(wf)]

Root == frames[1]
Top == Last(frames)
TopStep == Step(Top.wf, Top.x.cur)
RootStep == Step(Root.wf, Root.x.cur)

EngineTypeOK ==
  /\ Len(frames) \in Nat \ {0} /\ DOMAIN frames = 1 .. Len(frames)
  /\ \A k \in DOMAIN frames :
       frames[k].wf \in Workflows /\ frames[k] \in FrameOf(frames[k].wf)
  /\ Len(frames) > 1 => pc = "engine"
  /\ pc \in {"engine", "llm", "saga", "over", "crashed"}
  /\ effects \in Seq(Changes)
  /\ calls \in 0 .. MaxCalls

EngineInit ==
  /\ \E wf \in Workflows : frames = <<NewFrame(wf)>>
  /\ pc \in {"engine", "llm"}   \* "engine" mode, "filter" mode
  /\ effects = <<>>
  /\ calls = 0

-----------------------------------------------------------------------------
(* _run_engine_steps                                                       *)

StepBudget(wf) ==
  MaxAutoSteps +
    4 * MapThenSumSet(LAMBDA i : Step(wf, i).maxIter,
                      {i \in StepIds(wf) : Step(wf, i).kind = "loop"})

OnStep(kind) ==
  /\ pc = "engine"
  /\ ~Top.x.finished
  /\ Top.steps < StepBudget(Top.wf)
  /\ TopStep.kind = kind

(* The except arm: a raise from step i is recorded as its failure.         *)
Settle(x, i) ==
  IF x.raised THEN [x EXCEPT !.raised = FALSE, !.failed = i, !.finished = TRUE]
  ELSE x

(* The engine gives the workflow up on its current step.  Mutant: without  *)
(* finishing it.                                                           *)
BrokenUnfinished(x) == [x EXCEPT !.failed = x.cur]
Broken(x) == [x EXCEPT !.failed = x.cur, !.finished = TRUE]

MoveTop(x, executed) ==
  frames' = [frames EXCEPT ![Len(frames)] =
               [Top EXCEPT !.x = x, !.steps = Top.steps + 1,
                           !.ran = Top.ran \cup IF executed THEN {Top.x.cur} ELSE {}]]

Performs(ok) ==
  effects' = IF ok /\ TopStep.writes
               THEN Append(effects, <<Top.wf, Top.x.cur>>) ELSE effects

(* The advance() after a handler is inside the handler's own try: when it  *)
(* raises, the step that just succeeded is advanced as failed.             *)
ExecDeterministic ==
  /\ OnStep("deterministic")
  /\ \E ok \in BOOLEAN :
       LET y == Advance(Top.wf, Top.x, ok) IN
       /\ MoveTop(IF y.raised
                    THEN AdvanceFailed(Top.wf, [y EXCEPT !.raised = FALSE])
                    ELSE y, ok)
       /\ Performs(ok)
  /\ UNCHANGED <<pc, calls>>

(* ok stands for: the cage let the call through and the handler succeeded. *)
ExecToolCall ==
  /\ OnStep("tool_call")
  /\ \E ok \in BOOLEAN :
       /\ MoveTop(Settle(Advance(Top.wf, Top.x, ok), Top.x.cur), ok)
       /\ Performs(ok)
  /\ UNCHANGED <<pc, calls>>

(* holds is the predicate's value; a predicate may also raise.             *)
Conditional ==
  /\ OnStep("conditional")
  /\ \/ \E holds \in BOOLEAN :
          MoveTop(Settle(ResolveConditional(Top.wf, Top.x, holds), Top.x.cur), TRUE)
     \/ MoveTop(Broken(Top.x), FALSE)
  /\ UNCHANGED <<pc, effects, calls>>

Loop ==
  /\ OnStep("loop")
  /\ \/ \E holds \in BOOLEAN :
          MoveTop(Settle(ResolveLoop(Top.wf, Top.x, holds), Top.x.cur), TRUE)
     \/ /\ Top.x.count[Top.x.cur] < TopStep.maxIter
        /\ MoveTop(Broken(Top.x), FALSE)
  /\ UNCHANGED <<pc, effects, calls>>

(* A sub-workflow runs in a frame of its own on top of its parent's.       *)
EnterSubWorkflow ==
  /\ OnStep("sub_workflow")
  /\ IF Len(frames) > MaxDepth \/ TopStep.sub \notin Workflows
       THEN MoveTop(AdvanceFailed(Top.wf, Top.x), FALSE)
       ELSE frames' = Append(frames, NewFrame(TopStep.sub))
  /\ UNCHANGED <<pc, effects, calls>>

(* Mutant: handlers are left to the model as llm steps are.                *)
EngineStopsOnHandlers(f) ==
  \/ f.x.finished
  \/ /\ f.steps < StepBudget(f.wf)
     /\ Step(f.wf, f.x.cur).kind \in {"llm", "deterministic"}

EngineStops(f) ==
  \/ f.x.finished
  \/ f.steps < StepBudget(f.wf) /\ Step(f.wf, f.x.cur).kind = "llm"

(* The child's compensations are merged whatever its outcome.              *)
(* Mutant: those of a child that failed are dropped.                       *)
MergedOnSuccess(parent, child) ==
  IF child.failed = 0 THEN [parent EXCEPT !.comps = @ \o child.comps] ELSE parent

Merged(parent, child) == [parent EXCEPT !.comps = @ \o child.comps]

(* A child that failed or stalled on an llm step fails the parent's step.  *)
LeaveSubWorkflow ==
  /\ pc = "engine"
  /\ Len(frames) > 1
  /\ EngineStops(Top)
  /\ LET parent == frames[Len(frames) - 1]
         merged == Merged(parent.x, Top.x)
         ok == Top.x.finished /\ Top.x.failed = 0
         i == parent.x.cur
     IN  frames' = [Front(frames) EXCEPT ![Len(frames) - 1] =
                      [parent EXCEPT !.x = Settle(Advance(parent.wf, merged, ok), i),
                                     !.steps = parent.steps + 1,
                                     !.ran = parent.ran \cup IF ok THEN {i} ELSE {}]]
  /\ UNCHANGED <<pc, effects, calls>>

(* The circuit-breaker on the engine's own advancement.                    *)
ExhaustBudget ==
  /\ pc = "engine"
  /\ ~Top.x.finished
  /\ Top.steps >= StepBudget(Top.wf)
  /\ frames' = [frames EXCEPT ![Len(frames)].x = Broken(Top.x)]
  /\ UNCHANGED <<pc, effects, calls>>

YieldToModel ==
  /\ pc = "engine"
  /\ Len(frames) = 1
  /\ EngineStops(Root)
  /\ pc' = "llm"
  /\ UNCHANGED <<frames, effects, calls>>

EngineStep ==
  \/ ExecDeterministic \/ ExecToolCall \/ Conditional \/ Loop
  \/ EnterSubWorkflow \/ LeaveSubWorkflow \/ ExhaustBudget \/ YieldToModel

-----------------------------------------------------------------------------
(* What the main loop does to the workflow between two engine runs.        *)

SetRoot(x) == frames' = [frames EXCEPT ![1].x = x]

(* advance() on behalf of the model, after a dispatched call or for an     *)
(* optional step it passed over; here nothing catches a WorkflowError.     *)
ModelAdvances(ok) ==
  LET y == Advance(Root.wf, Root.x, ok) IN
  /\ SetRoot([y EXCEPT !.raised = FALSE])
  /\ pc' = IF y.raised THEN "crashed" ELSE "llm"

(* A dispatched call; wrote: it succeeded and changed the world.           *)
ModelCalls(ok, wrote) ==
  /\ pc = "llm"
  /\ ~Root.x.finished
  /\ calls < MaxCalls /\ Root.wf \in Conversed
  /\ wrote => ok
  /\ ModelAdvances(ok)
  /\ effects' = IF wrote THEN Append(effects, <<Root.wf, Root.x.cur>>) ELSE effects
  /\ calls' = calls + 1

(* A turn that dispatched nothing passes over an optional step.            *)
ModelSkips ==
  /\ pc = "llm"
  /\ ~Root.x.finished
  /\ IsOptional(Root.wf, Root.x.cur)
  /\ calls < MaxCalls /\ Root.wf \in Conversed
  /\ ModelAdvances(TRUE)
  /\ calls' = calls + 1
  /\ UNCHANGED effects

ModelFastForwards(a) ==
  /\ pc = "llm"
  /\ ~Root.x.finished
  /\ SetRoot(FastForward(Root.wf, Root.x, a))
  /\ UNCHANGED <<pc, effects, calls>>

EngineRuns ==
  /\ pc = "llm"
  /\ ~Root.x.finished
  /\ frames' = [frames EXCEPT ![1].steps = 0]
  /\ pc' = "engine"
  /\ UNCHANGED <<effects, calls>>

(* The main loop is left: the task is done, the model stopped, or the turn *)
(* budget is spent.                                                        *)
RunEnds ==
  /\ pc = "llm"
  /\ LET dead == Rollback /\ Root.x.failed # 0
         saga == dead /\ Root.x.comps # <<>>
     IN  /\ pc' = IF saga THEN "saga" ELSE "over"
         /\ effects' = IF dead /\ ~saga THEN <<>> ELSE effects
  /\ UNCHANGED <<frames, calls>>

(* reversed(wf_state.compensations).  Mutant: in the order of completion.  *)
SagaInOrder(comps) == comps
SagaOrder(comps) == Reverse(comps)

(* One inverse of the Saga, last completed step first.  The inverse of the *)
(* latest change succeeds; that of an older one may be refused, because    *)
(* something later still refers to it; an inverse of no change at all      *)
(* finds nothing of the run's to undo.                                     *)
Compensate ==
  /\ pc = "saga"
  /\ Root.x.comps # <<>>
  /\ LET c == Head(SagaOrder(Root.x.comps)) IN
       \/ effects' = Reverse(RemoveFirst(Reverse(effects), c))
       \/ effects # <<>> /\ Last(effects) # c /\ effects' = effects
  /\ SetRoot([Root.x EXCEPT !.comps = SagaOrder(Tail(SagaOrder(@)))])
  /\ pc' = IF Len(Root.x.comps) = 1 THEN "over" ELSE "saga"
  /\ UNCHANGED calls

Ended == pc \in {"over", "crashed"} /\ UNCHANGED engineVars

EngineNext ==
  \/ EngineStep
  \/ \E ok, wrote \in BOOLEAN : ModelCalls(ok, wrote)
  \/ ModelSkips
  \/ \E a \in Tools : ModelFastForwards(a)
  \/ EngineRuns
  \/ RunEnds
  \/ Compensate
  \/ Ended

(* The engine run and the Saga are plain synchronous calls: once entered,  *)
(* nothing but their own next step can happen.                             *)
EngineFairness == WF_engineVars(EngineStep) /\ WF_engineVars(Compensate)

EngineSpec == EngineInit /\ [][EngineNext]_engineVars /\ EngineFairness
-----------------------------------------------------------------------------
(* A pending return edge always belongs to the loop whose body the cursor  *)
(* is on, with an iteration of that loop counted; so advance() pops the    *)
(* edge of the body it completes and never a stale one (the corruption the *)
(* load check on loop bodies and the pop in the failure branch of          *)
(* advance() are there to prevent).                                        *)
LoopEdge ==
  NoOptionalBody => \A k \in DOMAIN frames : LoopEdgeOf(frames[k].wf, frames[k].x)

Compensable(c) == Step(c[1], c[2]).comp

(* The compensation stacks, that of the selected workflow first, and the   *)
(* places on them.                                                         *)
Stacks == [k \in DOMAIN frames |-> frames[k].x.comps]
Places(stacks) == UNION {{k} \X DOMAIN stacks[k] : k \in DOMAIN stacks}
Below(p, q) == p[1] < q[1] \/ (p[1] = q[1] /\ p[2] < q[2])

(* Each change that has an inverse is at a place of its own, a later one   *)
(* above an earlier one.                                                   *)
Recorded(changes, stacks) ==
  LET undoable == {n \in DOMAIN changes : Compensable(changes[n])}
  IN  \E at \in [undoable -> Places(stacks)] :
        /\ \A n \in undoable : stacks[at[n][1]][at[n][2]] = changes[n]
        /\ \A m, n \in undoable : m < n => Below(at[m], at[n])

(* No change a step with a declared inverse made is ever missing from the  *)
(* compensation stacks of the live frames, nor out of order on them: not   *)
(* when advance() raises half way, not when a sub-workflow fails, and not  *)
(* once per iteration of a loop body.                                      *)
NoCompensationLost == pc # "saga" /\ pc # "over" => Recorded(effects, Stacks)

(* A failed workflow is atomic, "all of it, or none of it": after the Saga *)
(* of a run that failed nothing of what it changed is left.                *)
AllOrNothing ==
  Rollback /\ pc = "over" /\ Root.x.failed # 0 => effects = <<>>

(* The rollback is for a workflow that died mid-way: it never erases the   *)
(* work of one whose on_failure step recovered and which then completed    *)
(* every step of its recipe.                                               *)
RanToItsEnd == Root.x.finished /\ Root.x.completed = StepIds(Root.wf)

RecoveredWorkIsKept ==
  [][pc = "llm" /\ pc' \in {"saga", "over"} /\ RanToItsEnd
       => pc' = "over" /\ effects' = effects]_engineVars

(* For recipes each of whose changes has an inverse, whatever loops,       *)
(* branches, nests or fails in them, a run the engine drives alone is a    *)
(* transaction: what it did is kept whole or taken back change by change,  *)
(* newest first, to nothing.  (A call of the model may complete a step     *)
(* without changing anything; its inverse then undoes what it did not do.) *)
Phase ==
  IF Root.wf \in Conversed \/ pc \in {"engine", "llm", "crashed"} THEN "running"
  ELSE IF pc = "saga" THEN "aborting"
  ELSE IF Rollback /\ Root.x.failed # 0 THEN "aborted"
  ELSE "committed"

AsTransaction ==
  INSTANCE Transaction WITH
    phase <- Phase, log <- IF Root.wf \in Conversed THEN <<>> ELSE effects

ImplementsTransaction == AsTransaction!Spec

(* The engine hands control back and the Saga comes to its end whatever    *)
(* the recipe: neither a cyclic conditional, nor a loop, nor a workflow    *)
(* that nests itself can keep the runtime from returning.                  *)
RunReturns == pc \in {"engine", "saga"} ~> pc \in {"llm", "over"}
=============================================================================
