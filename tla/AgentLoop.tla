----------------------------- MODULE AgentLoop -----------------------------
(***************************************************************************)
(* The interleaved loop of Agent.run (agent/orchestrator.py): the model    *)
(* answers a prompt with tool calls or with text, every call passes the    *)
(* state machine, the workflow step, the cage and the ReAct dedupe, and    *)
(* between two prompts the workflow engine and the state machine are       *)
(* brought back in step.  The workflow itself is WorkflowEngine's; every   *)
(* action here either takes one of its actions or leaves it alone.         *)
(*                                                                         *)
(*   cfg         the ArchitectureConfig of the agent                       *)
(*   fsm         StateMachine.current                                      *)
(*   turn        turns taken, at most cfg.turns                            *)
(*   at          where the loop is: "head" (about to prompt), "calls",     *)
(*               "gated" / "open" (a call past the gate / not gated),      *)
(*               "settle" (after the batch), "engine" (waiting for         *)
(*               _run_engine_steps to return to the point resume), "stop"  *)
(*   resume      "start", "talk" or "batch"                                *)
(*   batch       the calls of the response still to be handled             *)
(*   next        resp.next_state, "none" when there is none                *)
(*   pool        atomic_pool                                               *)
(*   dispatched  any_tool_dispatched                                       *)
(*   circuit     oos_circuit_open                                          *)
(*   oos         oos_repeats                                               *)
(*   cached      the action signatures ReActScratchpad.cached answers for: *)
(*               those completed since the epoch was last bumped           *)
(* and, not program variables:                                             *)
(*   asked, answered   calls of the response, and tool messages appended   *)
(*               to the history for them                                   *)
(*   stale       signatures whose observation a later change outdated      *)
(*   tripped     the breaker tripped during this turn                      *)
(***************************************************************************)
EXTENDS WorkflowEngine, StateMachine

CONSTANTS
  Configs,        \* the architectures an agent may be built with
  ReadOnlyTools   \* the tools policy.py takes for read-only

READ_RESOURCE_TOOL == "read_resource"

(* The levers, self.max_turns and a bound on the calls of one response.    *)
ArchitectureConfig ==
  [sm : BOOLEAN, mode : {"off", "filter", "engine"}, limit : Nat,
   rag : BOOLEAN, resources : BOOLEAN, safety : BOOLEAN, dedupe : BOOLEAN,
   turns : Nat, batch : Nat]

ASSUME LoopAssumption ==
  /\ Configs \subseteq ArchitectureConfig
  /\ FsmStates \subseteq STATES
  /\ {INITIAL_STATE, "ASK_USER", "DONE"} \subseteq FsmStates
  /\ READ_RESOURCE_TOOL \notin Tools

VARIABLES cfg, fsm, turn, at, resume, batch, next, pool, dispatched, circuit,
          oos, cached, asked, answered, stale, tripped

gateVars == <<fsm, pool>>
turnVars == <<turn, next, dispatched, circuit, tripped>>
padVars == <<cached, stale>>
answerVars == <<asked, answered>>
vars == <<engineVars, cfg, gateVars, turnVars, padVars, answerVars, at, resume,
          batch, oos>>

Requests == Tools \cup {READ_RESOURCE_TOOL}

LoopTypeOK ==
  /\ cfg \in Configs
  /\ frames # <<>> => EngineTypeOK
  /\ fsm \in FsmStates
  /\ turn \in 0 .. cfg.turns
  /\ at \in {"head", "calls", "gated", "open", "settle", "engine", "stop"}
  /\ resume \in {"start", "talk", "batch"}
  /\ batch \in Seq(Requests) /\ Len(batch) <= cfg.batch
  /\ next \in FsmStates \cup {"none"}
  /\ pool \subseteq Tools
  /\ oos \in [FsmStates \X Tools -> Nat]
  /\ cached \subseteq Tools /\ stale \subseteq Tools
  /\ asked \in Nat /\ answered \in Nat
  /\ {dispatched, circuit, tripped} \subseteq BOOLEAN

-----------------------------------------------------------------------------
HasWorkflow == frames # <<>>
Live == HasWorkflow /\ ~Root.x.finished
EngineMode == cfg.mode = "engine"

(* _llm_drives_state                                                       *)
LLMDrivesState == EngineMode => ~Live

(* _enter_engine_state: the engine forces the state, the filter asks.      *)
(* Mutant: the engine asks too.                                            *)
AskForState(from, target) == IF CanTransit(from, target) THEN target ELSE from

EnterEngineState(from, target) ==
  IF EngineMode \/ CanTransit(from, target) THEN target ELSE from

(* _allowed_atomics, for a state and an execution state.                   *)
AllowedAtomics(s, x) ==
  LET inState == IF cfg.sm THEN AllowedTools(s) \cap Tools ELSE Tools
      isStep == HasWorkflow /\ Step(Root.wf, x.cur).kind = "llm"
      inStep == IF HasWorkflow THEN StepTools(Root.wf, x, Tools) ELSE Tools
      allowed == inState \cap inStep
      stripped == {t \in allowed : t \notin ReadOnlyTools \/ isStep}
  IN  IF cfg.resources /\ stripped # {} THEN stripped ELSE allowed

WorkflowState == IF HasWorkflow THEN Root.x ELSE [cur |-> 0]

(* _visible_tools_for: Tool RAG keeps some top-k of the permitted tools.   *)
Visible(s) ==
  LET allowed == AllowedAtomics(s, WorkflowState)
  IN  IF cfg.rag THEN SUBSET allowed ELSE {allowed}

MayMove(from) == LLMDrivesState /\ next # from /\ CanTransit(from, next)

-----------------------------------------------------------------------------
(* Agent.run up to its first prompt.  FsmStates bounds the table: a state  *)
(* outside it is never asked for.                                          *)
Init ==
  /\ cfg \in Configs
  /\ \/ /\ frames = <<>> /\ pc = "llm"   \* off, or no workflow matched
        /\ effects = <<>> /\ calls = 0
     \/ /\ cfg.mode # "off"
        /\ EngineInit
        /\ pc = IF EngineMode THEN "engine" ELSE "llm"
  /\ fsm = IF HasWorkflow /\ CanTransit(INITIAL_STATE, RootStep.state)
             THEN RootStep.state ELSE INITIAL_STATE
  /\ at = IF pc = "engine" THEN "engine" ELSE "head"
  /\ resume = "start"
  /\ turn = 0 /\ batch = <<>> /\ next = "none" /\ pool = {}
  /\ dispatched = FALSE /\ circuit = FALSE /\ tripped = FALSE
  /\ oos = [k \in FsmStates \X Tools |-> 0]
  /\ cached = {} /\ stale = {}
  /\ asked = 0 /\ answered = 0

(* One step of _run_engine_steps.  What it changes in the world is not     *)
(* reported to the scratchpad.                                             *)
RunEngineStep ==
  /\ EngineStep
  /\ stale' = IF effects' # effects THEN Tools ELSE stale
  /\ UNCHANGED <<cfg, gateVars, turnVars, cached, answerVars, at, resume, batch, oos>>

(* _run_engine_steps returned before the first prompt.                     *)
EngineReturnsAtStart ==
  /\ at = "engine" /\ resume = "start" /\ pc = "llm"
  /\ fsm' = IF Live THEN EnterEngineState(fsm, RootStep.state) ELSE fsm
  /\ at' = "head"
  /\ UNCHANGED <<engineVars, cfg, pool, turnVars, padVars, answerVars, resume,
                 batch, oos>>

(* turn < self.max_turns.  Mutant: one turn too many.                      *)
TurnsLeftOffByOne == turn <= cfg.turns
TurnsLeft == turn < cfg.turns

(* turn += 1.  Mutant: only a turn with calls counts.                      *)
CountCallTurn == turn' = IF batch' = <<>> THEN turn ELSE turn + 1
CountTurn == turn' = turn + 1

(* A prompt and the model's answer.                                        *)
Prompt ==
  /\ at = "head"
  /\ TurnsLeft
  /\ pool' \in Visible(fsm)
  /\ batch' \in UNION {[1 .. n -> IF cfg.resources THEN Requests ELSE Tools]
                         : n \in 0 .. cfg.batch}
  /\ CountTurn
  /\ next' \in FsmStates \cup {"none"}
  /\ dispatched' = FALSE /\ circuit' = FALSE /\ tripped' = FALSE
  /\ asked' = Len(batch') /\ answered' = 0
  /\ at' = "calls"
  /\ UNCHANGED <<engineVars, cfg, fsm, padVars, resume, oos>>

OutOfTurns ==
  /\ at = "head"
  /\ ~TurnsLeft
  /\ at' = "stop"
  /\ UNCHANGED <<engineVars, cfg, gateVars, turnVars, padVars, answerVars,
                 resume, batch, oos>>

-----------------------------------------------------------------------------
(* The model answered with text.                                           *)
TalkMoves ==
  /\ at = "calls" /\ asked = 0
  /\ MayMove(fsm)
  /\ fsm' = next
  /\ at' = IF IsTerminal(next) THEN "stop" ELSE "head"
  /\ UNCHANGED <<engineVars, cfg, pool, turnVars, padVars, answerVars, resume,
                 batch, oos>>

TalkRunsEngine ==
  /\ at = "calls" /\ asked = 0
  /\ ~MayMove(fsm)
  /\ Live
  /\ EngineRuns
  /\ at' = "engine" /\ resume' = "talk"
  /\ UNCHANGED <<cfg, gateVars, turnVars, padVars, answerVars, batch, oos>>

TalkStops ==
  /\ at = "calls" /\ asked = 0
  /\ ~MayMove(fsm)
  /\ ~Live
  /\ at' = "stop"
  /\ UNCHANGED <<engineVars, cfg, gateVars, turnVars, padVars, answerVars,
                 resume, batch, oos>>

(* After the engine ran for a talk-only turn: engine mode passes over an   *)
(* optional step, and the loop goes on only when the state changed.        *)
AfterTalk ==
  LET target == IF Root'.x.finished THEN fsm
                ELSE EnterEngineState(fsm, Step(Root.wf, Root'.x.cur).state)
  IN  /\ fsm' = IF pc' = "crashed" THEN fsm ELSE target
      /\ at' = IF fsm' # fsm THEN "head" ELSE "stop"

EngineReturnsAtTalk ==
  /\ at = "engine" /\ resume = "talk" /\ pc = "llm"
  /\ IF EngineMode /\ Live /\ IsOptional(Root.wf, Root.x.cur)
       THEN ModelSkips ELSE UNCHANGED engineVars
  /\ AfterTalk
  /\ UNCHANGED <<cfg, pool, turnVars, padVars, answerVars, resume, batch, oos>>

-----------------------------------------------------------------------------
(* The model answered with calls: they are handled one after the other.    *)

Call == Head(batch)
NextCall == batch' = Tail(batch) /\ answered' = answered + 1 /\ at' = "calls"

ReadResource ==
  /\ at = "calls" /\ batch # <<>> /\ Call = READ_RESOURCE_TOOL
  /\ NextCall
  /\ UNCHANGED <<engineVars, cfg, gateVars, turnVars, padVars, asked, resume, oos>>

Gating == cfg.sm \/ Live

(* The gate, first half: a next_state that admits the call is taken early. *)
EarlyState ==
  IF /\ cfg.sm
     /\ Call \notin AllowedAtomics(fsm, WorkflowState)
     /\ MayMove(fsm)
     /\ Call \in AllowedAtomics(next, WorkflowState)
  THEN next ELSE fsm

(* The pool after the early transit, when no workflow recomputes it.       *)
(* Mutant: the one computed before the transit stays.                      *)
PoolKept(s) == {pool}
PoolAfterTransit(s) == IF s # fsm THEN Visible(s) ELSE {pool}

(* The pool after the fast-forward.                                         *)
PoolOfStep(s, x) == AllowedAtomics(s, x)

(* Second half: the workflow passes over optional steps to one that wants  *)
(* the call, the state follows it, and the pool is computed afresh.        *)
Gate ==
  /\ at = "calls" /\ batch # <<>> /\ Call \in Tools
  /\ IF Gating
       THEN /\ at' = "gated"
            /\ IF Live
                 THEN /\ ModelFastForwards(Call)
                      /\ fsm' = IF Root'.x.finished THEN EarlyState
                                ELSE EnterEngineState(EarlyState,
                                       Step(Root.wf, Root'.x.cur).state)
                      /\ pool' = PoolOfStep(fsm', Root'.x)
                 ELSE /\ UNCHANGED engineVars
                      /\ fsm' = EarlyState
                      /\ pool' \in PoolAfterTransit(fsm')
       ELSE at' = "open" /\ UNCHANGED <<engineVars, gateVars>>
  /\ UNCHANGED <<cfg, turn, next, dispatched, circuit, tripped, padVars,
                 answerVars, resume, batch, oos>>

Permitted == at = "open" \/ (at = "gated" /\ Call \in pool)

(* The breaker answers the call it tripped on and those it skips.  Mutant: *)
(* the skipped ones are left unanswered.                                   *)
AnswerTripping == answered' = answered + 1
AnswerSkipped == answered' = answered + Len(batch)

(* Where a tripped breaker sends the run.  Mutant: back to the start.      *)
DivertToStart(from) == IF CanTransit(from, INITIAL_STATE) THEN INITIAL_STATE ELSE from

Divert(from) == IF CanTransit(from, "ASK_USER") THEN "ASK_USER" ELSE from

(* Out of scope: the same call repeated in a state trips the breaker,      *)
(* which diverts to ASK_USER (or ends the run) and answers the calls it    *)
(* skips.                                                                  *)
Blocked ==
  /\ at = "gated" /\ Call \notin pool
  /\ LET key == <<fsm, Call>>
         trips == /\ cfg.limit > 0
                  /\ oos[key] + 1 >= cfg.limit \/ fsm = "ASK_USER"
     IN  /\ oos' = [oos EXCEPT ![key] = @ + 1]
         /\ IF trips
              THEN /\ tripped' = TRUE
                   /\ fsm' = Divert(fsm)
                   /\ circuit' = (fsm' = fsm)
                   /\ batch' = <<>>
                   /\ AnswerSkipped
                   /\ at' = "calls"
              ELSE NextCall /\ UNCHANGED <<tripped, fsm, circuit>>
  /\ UNCHANGED <<engineVars, cfg, pool, turn, next, dispatched, padVars,
                 asked, resume>>

(* The cage refuses the call (SafetyCage has the rules).                   *)
Denied ==
  /\ Permitted
  /\ cfg.safety
  /\ NextCall
  /\ UNCHANGED <<engineVars, cfg, gateVars, turnVars, padVars, asked, resume, oos>>

Suppressed ==
  /\ Permitted
  /\ cfg.dedupe /\ Call \in cached
  /\ NextCall
  /\ UNCHANGED <<engineVars, cfg, gateVars, turnVars, padVars, asked, resume, oos>>

(* The scratchpad observes a dispatched call.  Mutant: no epoch.           *)
ObserveForever(ok, wrote) ==
  /\ cached' = IF cfg.dedupe /\ ok THEN cached \cup {Call} ELSE cached
  /\ stale' = (IF wrote THEN Tools ELSE stale) \ (IF ok THEN {Call} ELSE {})

Observe(ok, wrote) ==
  /\ cached' = IF cfg.dedupe
                 THEN (IF wrote THEN {} ELSE cached) \cup (IF ok THEN {Call} ELSE {})
                 ELSE cached
  /\ stale' = (IF wrote THEN Tools ELSE stale) \ (IF ok THEN {Call} ELSE {})

Dispatched ==
  /\ Permitted
  /\ ~(cfg.dedupe /\ Call \in cached)
  /\ \E ok, wrote, schemaError \in BOOLEAN :
       /\ schemaError => ~ok
       /\ wrote => ok /\ Call \notin ReadOnlyTools
       /\ IF Live /\ ~schemaError
            THEN ModelCalls(ok, wrote) ELSE UNCHANGED engineVars
       /\ Observe(ok, wrote)
  /\ dispatched' = TRUE
  /\ batch' = Tail(batch) /\ answered' = answered + 1
  /\ at' = IF pc' = "crashed" THEN "stop" ELSE "calls"
  /\ UNCHANGED <<cfg, gateVars, turn, next, circuit, tripped, asked,
                 resume, oos>>

-----------------------------------------------------------------------------
BatchDone == at = "calls" /\ asked > 0 /\ batch = <<>>

(* The breaker fired with nowhere left to divert to.                       *)
CircuitStops ==
  /\ BatchDone /\ circuit
  /\ at' = "stop"
  /\ UNCHANGED <<engineVars, cfg, gateVars, turnVars, padVars, answerVars,
                 resume, batch, oos>>

(* A batch that dispatched nothing passes over an optional step.           *)
BatchEnds ==
  /\ BatchDone /\ ~circuit
  /\ IF ~dispatched /\ Live /\ IsOptional(Root.wf, Root.x.cur)
       THEN ModelSkips ELSE UNCHANGED engineVars
  /\ at' = IF pc' = "crashed" THEN "stop" ELSE "settle"
  /\ UNCHANGED <<cfg, gateVars, turnVars, padVars, answerVars, resume, batch, oos>>

(* Engine mode closes the run once the workflow is finished.               *)
AfterBatch(s) ==
  LET closes == EngineMode /\ HasWorkflow /\ Root.x.finished
                  /\ ~IsTerminal(s) /\ CanTransit(s, "DONE")
  IN  /\ fsm' = IF closes THEN "DONE" ELSE s
      /\ at' = IF IsTerminal(fsm') THEN "stop" ELSE "head"

(* The state change the model asked for with its calls, then the engine.   *)
AfterCalls ==
  /\ at = "settle"
  /\ LET s == IF MayMove(fsm) THEN next ELSE fsm IN
       IF Live
         THEN EngineRuns /\ fsm' = s /\ at' = "engine" /\ resume' = "batch"
         ELSE AfterBatch(s) /\ UNCHANGED <<engineVars, resume>>
  /\ UNCHANGED <<cfg, pool, turnVars, padVars, answerVars, batch, oos>>

EngineReturnsAtBatch ==
  /\ at = "engine" /\ resume = "batch" /\ pc = "llm"
  /\ AfterBatch(IF Live THEN EnterEngineState(fsm, RootStep.state) ELSE fsm)
  /\ UNCHANGED <<engineVars, cfg, pool, turnVars, padVars, answerVars, resume,
                 batch, oos>>

-----------------------------------------------------------------------------
(* Mutant: no Saga.                                                        *)
FinishWithoutSaga ==
  /\ at = "stop" /\ pc = "llm"
  /\ pc' = "over"
  /\ UNCHANGED <<frames, effects, calls, cfg, gateVars, turnVars, padVars,
                 answerVars, at, resume, batch, oos>>

Finish ==
  /\ at = "stop" /\ pc = "llm"
  /\ IF HasWorkflow THEN RunEnds
     ELSE pc' = "over" /\ UNCHANGED <<frames, effects, calls>>
  /\ UNCHANGED <<cfg, gateVars, turnVars, padVars, answerVars, at, resume,
                 batch, oos>>

Unwind ==
  /\ Compensate
  /\ UNCHANGED <<cfg, gateVars, turnVars, padVars, answerVars, at, resume,
                 batch, oos>>

Returned == pc \in {"over", "crashed"} /\ UNCHANGED vars

Talk == TalkMoves \/ TalkRunsEngine \/ TalkStops \/ EngineReturnsAtTalk
HandleCall == ReadResource \/ Gate \/ Blocked \/ Denied \/ Suppressed \/ Dispatched
EndBatch == CircuitStops \/ BatchEnds \/ AfterCalls \/ EngineReturnsAtBatch

Next ==
  \/ RunEngineStep \/ EngineReturnsAtStart
  \/ Prompt \/ OutOfTurns
  \/ Talk \/ HandleCall \/ EndBatch
  \/ Finish \/ Unwind
  \/ Returned

(* Agent.run is one synchronous call: it takes its next step as long as    *)
(* the model answers the prompt it is waiting for.                         *)
Spec == Init /\ [][Next]_vars /\ WF_vars(Next)
-----------------------------------------------------------------------------
(* What the loop and its workflow do is a behaviour of the workflow engine *)
(* with an unconstrained model: the loop never moves the cursor, records   *)
(* an effect or unwinds one but through the engine's own operations.       *)
ImplementsEngine ==
  /\ HasWorkflow => EngineInit
  /\ [][HasWorkflow => EngineNext]_engineVars

(* Strict providers reject the next request if any tool_call_id of the     *)
(* last response went unanswered: at every moment each call is either      *)
(* still to be handled or has exactly one tool message.                    *)
EveryCallAnswered == asked = answered + Len(batch)

(* The pool a call is checked against at the gate is never one of an       *)
(* earlier state or workflow step: what it permits, the state of now and   *)
(* the step of now permit.                                                 *)
GateUsesCurrentState ==
  at = "gated" => pool \subseteq AllowedAtomics(fsm, WorkflowState)

(* In engine mode the model is prompted in the state of the step the       *)
(* cursor is on, whatever it asked for and whatever the breaker did.       *)
EngineStateSync ==
  EngineMode /\ Live /\ at = "head" => fsm = RootStep.state

(* Hypotheses of the theorems about the next three properties; the shipped *)
(* recipes meet them.  A skipped optional step puts the model before its   *)
(* successor without an engine run in between; a step that the engine      *)
(* drives and that writes is not reported to the scratchpad.               *)
SkipsLeadToModel ==
  \A wf \in Workflows : \A i \in StepIds(wf) :
     IsOptional(wf, i) /\ i < Len(Catalogue[wf]) => Step(wf, i + 1).kind = "llm"

EngineOnlyReads ==
  \A wf \in Workflows : \A i \in StepIds(wf) :
     Step(wf, i).kind \in {"deterministic", "tool_call"} => ~Step(wf, i).writes

DedupeMeetsNoWriter ==
  \A c \in Configs : c.dedupe /\ c.mode # "off" => EngineOnlyReads

(* In engine mode the model is only ever prompted for an llm step: the     *)
(* engine has driven the workflow through every other kind.                *)
PromptedOnModelSteps ==
  EngineMode /\ Live /\ at = "head" => RootStep.kind = "llm"

(* While responses hold one call, no step the engine drives is marked      *)
(* complete unless the engine executed it: a call of the model never       *)
(* stands in for a handler.  (In a response of two calls it does.)         *)
EngineStepsWereRun ==
  EngineMode /\ HasWorkflow /\ cfg.batch = 1 =>
    \A i \in Root.x.completed : Step(Root.wf, i).kind # "llm" => i \in Root.ran

(* A suppressed call would have observed what the model is told it         *)
(* observed: no cached observation outlives a change to the world.         *)
CachedIsFresh == cached \cap stale = {}

(* Once the breaker tripped the next prompt is in ASK_USER: the thrash     *)
(* loop is converted into a question.  A next_state named by the refused   *)
(* response itself and a live workflow can still move on from there.       *)
BreakerAsks ==
  tripped /\ at = "head" /\ next = "none" /\ ~Live => fsm = "ASK_USER"

(* Agent.run returns: within its turn budget, whatever the model answers.  *)
RunTerminates == <>(pc \in {"over", "crashed"})
=============================================================================
