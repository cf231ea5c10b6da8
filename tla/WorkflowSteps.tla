--------------------------- MODULE WorkflowSteps ---------------------------
(***************************************************************************)
(* The WorkflowEngine of agent/workflow.py as operators on execution       *)
(* states: which step a workflow stands on and where each outcome of that  *)
(* step moves it.  WorkflowEngine and AgentLoop give the operators state.  *)
(*                                                                         *)
(* Step ids are the positions of the steps in the YAML list, 0 where the   *)
(* code has None.  A step is a record:                                     *)
(*   kind       "llm", "deterministic", "tool_call", "conditional",        *)
(*              "loop" or "sub_workflow"                                   *)
(*   state      the FSM state the step runs in                             *)
(*   tools      allowed_tools of an llm step                               *)
(*   must       must_call_tool of an llm step                              *)
(*   deps       depends_on                                                 *)
(*   onFailure  on_failure, 0 when there is none                           *)
(*   comp       whether the step declares a compensation                   *)
(*   writes     whether the handler or fixed tool of an engine-driven step *)
(*              changes the world (a fact about the recipe, not a field)   *)
(*   ifTrue, ifFalse (0: fall through), body, maxIter, sub                 *)
(***************************************************************************)
EXTENDS SequencesExt

CONSTANTS
  Catalogue,   \* WorkflowCatalogue: workflow name -> sequence of steps
  FsmStates    \* the states a step may name (STATES of state_machine.py)

Workflows == DOMAIN Catalogue
StepIds(wf) == DOMAIN Catalogue[wf]
Step(wf, i) == Catalogue[wf][i]

Kinds == {"llm", "deterministic", "tool_call", "conditional", "loop",
          "sub_workflow"}

-----------------------------------------------------------------------------
(* WorkflowDef._check_steps: what a workflow must satisfy to be loaded.    *)

(* depends_on is acyclic: every set of steps has one that depends on none  *)
(* of the others and not on itself.                                        *)
Acyclic(steps) ==
  \A S \in SUBSET DOMAIN steps \ {{}} : \E i \in S : steps[i].deps \cap S = {}

WellFormed(steps) ==
  /\ Len(steps) \in Nat \ {0} /\ DOMAIN steps = 1 .. Len(steps)
  /\ \A i \in DOMAIN steps :
       /\ steps[i].kind \in Kinds
       /\ steps[i].state \in FsmStates
       /\ steps[i].deps \subseteq DOMAIN steps
       /\ steps[i].onFailure \in DOMAIN steps \cup {0}
       /\ steps[i].kind = "llm" => steps[i].tools # {}
       /\ steps[i].kind = "conditional" =>
            /\ steps[i].ifTrue \in DOMAIN steps
            /\ steps[i].ifFalse \in DOMAIN steps \cup {0}
       /\ steps[i].kind = "loop" =>
            /\ steps[i].body \in DOMAIN steps
            /\ steps[steps[i].body].kind \notin {"loop", "conditional"}
            /\ steps[i].maxIter \in Nat \ {0}
       /\ steps[i].comp \in BOOLEAN
       /\ steps[i].must \in BOOLEAN
       /\ steps[i].writes \in BOOLEAN
  /\ Acyclic(steps)

ASSUME CatalogueAssumption == \A wf \in Workflows : WellFormed(Catalogue[wf])

-----------------------------------------------------------------------------
(* A step of some workflow, as it stands for its change or its inverse.    *)
Changes == UNION {{wf} \X StepIds(wf) : wf \in Workflows}

(* WorkflowExecutionState.  completed is kept as a set: only membership is *)
(* ever asked of the list.  raised is not program state: it marks that the *)
(* operation ended by raising WorkflowError, what it wrote before staying. *)
ExecState(wf) ==
  [cur : StepIds(wf), completed : SUBSET StepIds(wf),
   failed : StepIds(wf) \cup {0}, finished : BOOLEAN,
   count : [StepIds(wf) -> Nat], ret : Seq(StepIds(wf)),
   comps : Seq(Changes),
   raised : BOOLEAN]

InitialState(wf) ==
  [cur |-> 1, completed |-> {}, failed |-> 0, finished |-> FALSE,
   count |-> [i \in StepIds(wf) |-> 0], ret |-> <<>>, comps |-> <<>>,
   raised |-> FALSE]

(* Move to the step after step i, whose prerequisites must be complete.    *)
AdvanceAfter(wf, x, i) ==
  IF i = Len(Catalogue[wf]) THEN [x EXCEPT !.finished = TRUE]
  ELSE IF ~(Step(wf, i + 1).deps \subseteq x.completed)
    THEN [x EXCEPT !.raised = TRUE]
  ELSE [x EXCEPT !.cur = i + 1]

Complete(x) == [x EXCEPT !.completed = @ \cup {x.cur}]

(* advance(succeeded=True)                                                 *)
(* Mutant: a loop body returns to its loop before its inverse is recorded. *)
AdvanceOkReturnsFirst(wf, x) ==
  IF x.ret # <<>>
    THEN [Complete(x) EXCEPT !.cur = Last(x.ret), !.ret = Front(x.ret)]
    ELSE AdvanceAfter(wf, [Complete(x) EXCEPT
                             !.comps = IF Step(wf, x.cur).comp
                                         THEN Append(@, <<wf, x.cur>>) ELSE @],
                      x.cur)

AdvanceOk(wf, x) ==
  LET done == [Complete(x) EXCEPT
                 !.comps = IF Step(wf, x.cur).comp
                             THEN Append(@, <<wf, x.cur>>) ELSE @]
  IN  IF x.ret # <<>>
        THEN [done EXCEPT !.cur = Last(x.ret), !.ret = Front(x.ret)]
        ELSE AdvanceAfter(wf, done, x.cur)

(* A failing loop body drops its return edge and the loop's counter.       *)
(* Mutant: on_failure leaves the loop with the edge still pending.         *)
AbortLoopKeepsEdge(x) == x
AbortLoop(x) ==
  IF x.ret = <<>> THEN x
  ELSE [x EXCEPT !.count[Last(x.ret)] = 0, !.ret = Front(x.ret)]

(* advance(succeeded=False)                                                *)
AdvanceFailed(wf, x) ==
  LET y == [AbortLoop(x) EXCEPT !.failed = x.cur]
      target == Step(wf, x.cur).onFailure
  IN  IF target # 0 THEN [y EXCEPT !.cur = target] ELSE [y EXCEPT !.finished = TRUE]

Advance(wf, x, ok) == IF ok THEN AdvanceOk(wf, x) ELSE AdvanceFailed(wf, x)

ResolveConditional(wf, x, holds) ==
  LET s == Step(wf, x.cur)
      target == IF holds THEN s.ifTrue ELSE s.ifFalse
  IN  IF target = 0 THEN AdvanceAfter(wf, Complete(x), x.cur)
      ELSE [Complete(x) EXCEPT !.cur = target]

ResolveLoop(wf, x, holds) ==
  LET s == Step(wf, x.cur) IN
  IF holds /\ x.count[x.cur] < s.maxIter
    THEN [x EXCEPT !.count[x.cur] = @ + 1, !.ret = Append(@, x.cur),
                   !.cur = s.body]
    ELSE AdvanceAfter(wf, [Complete(x) EXCEPT !.count[x.cur] = 0], s.body)

-----------------------------------------------------------------------------
(* fast_forward_for_atomic: the cursor passes over consecutive optional    *)
(* steps whose whitelist lacks the tool, without asking for their          *)
(* prerequisites, their compensation or the loop they are the body of.     *)
(* Mutant: any step that does not want the tool is passed over.            *)
SkippableAny(wf, i, a) == a \notin Step(wf, i).tools

Skippable(wf, i, a) ==
  /\ Step(wf, i).kind = "llm"
  /\ a \notin Step(wf, i).tools
  /\ ~Step(wf, i).must

(* Mutant: past the last step the cursor runs off the list.                *)
FastForwardOffTheEnd(wf, x, a) ==
  LET n == Len(Catalogue[wf])
      stop == CHOOSE j \in x.cur .. n + 1 :
                /\ \A k \in x.cur .. j - 1 : Skippable(wf, k, a)
                /\ j <= n => ~Skippable(wf, j, a)
  IN  [x EXCEPT !.completed = @ \cup (x.cur .. stop - 1), !.cur = stop,
                !.finished = stop > n]

FastForward(wf, x, a) ==
  LET n == Len(Catalogue[wf])
      stop == CHOOSE j \in x.cur .. n + 1 :
                /\ \A k \in x.cur .. j - 1 : Skippable(wf, k, a)
                /\ j <= n => ~Skippable(wf, j, a)
      passed == [x EXCEPT !.completed = @ \cup (x.cur .. stop - 1)]
  IN  IF x.finished THEN x
      ELSE IF stop > n THEN [passed EXCEPT !.cur = n, !.finished = TRUE]
      ELSE [passed EXCEPT !.cur = stop]

(* step_allowed_tools: None (here the whole of all) unless an llm step.    *)
StepTools(wf, x, all) ==
  IF Step(wf, x.cur).kind = "llm" THEN Step(wf, x.cur).tools ELSE all

IsOptional(wf, i) == Step(wf, i).kind = "llm" /\ ~Step(wf, i).must
-----------------------------------------------------------------------------
(* A loop whose body is an optional llm step can lose its return edge to a *)
(* fast-forward; the properties about return edges are for recipes without *)
(* such a loop.                                                            *)
NoOptionalBody ==
  \A wf \in Workflows : \A i \in StepIds(wf) :
     Step(wf, i).kind = "loop" => ~IsOptional(wf, Step(wf, i).body)

LoopEdgeOf(wf, x) ==
  \/ x.ret = <<>>
  \/ /\ Len(x.ret) = 1
     /\ Step(wf, x.ret[1]).kind = "loop"
     /\ x.cur = Step(wf, x.ret[1]).body
     /\ x.count[x.ret[1]] \in 1 .. Step(wf, x.ret[1]).maxIter
=============================================================================
