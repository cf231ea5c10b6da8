# SCADA-Agent-Demo: TLA+ models

The repository is a Python agent that configures an industrial SCADA project
through tool calls, and a set of *constraint layers* around the model: a state
machine, a workflow engine, a runtime safety policy, a ReAct scratchpad, a
planner and a crew of specialists. What makes the program interesting is that
these layers are separate pieces of state that the main loop
(`agent/orchestrator.py`, `Agent.run`) must keep in step with each other while
the model answers with anything at all. That is what is modelled here.

All source paths below are relative to the repository root.

## 1. Inventory

| component | state | operations | talks to |
|---|---|---|---|
| State machine `agent/state_machine.py` | `current`; the table `STATES` built at import time | `can_transit`, `transit`, `force_to`, `allowed_tools` | the loop, the planner and the crew move it |
| Workflow engine `agent/workflow.py` | `WorkflowExecutionState`: cursor, completed, failed, loop counters, return edges, compensations | `advance`, `resolve_conditional`, `resolve_loop`, `fast_forward_for_atomic`; the load check | the loop and the step glue call it |
| Engine step glue `orchestrator.py` 2893-3090 | a local step counter per activation | `_run_engine_steps` and one executor per step kind, nested sub-workflows | world, policy, workflow engine |
| Safety policy `agent/policy.py` | `destructive_count` | `check`, `record_execution`, `reset` | every dispatch path asks it, except the Saga |
| Dispatch and tools `agent/dispatcher.py`, `tools/*` | none / the world | parse, run the handler | world |
| World `world/memory_backend.py` | pages, points, alarms, devices, histories, scripts, deployments | `snapshot`, `restore`, the tools' writes | all |
| Interleaved loop `orchestrator.py` 880-1604 | turn, tool pool, breaker counts, the batch in progress | prompt, talk branch, call branch, settle, Saga | everything above |
| ReAct scratchpad `agent/react.py` | steps, epoch, completed signatures | `cached`, `observe` | the loop and the specialists |
| Planner and plan tier `agent/planner.py`, `orchestrator.py` 1605-2415 | plan, replans left, blackboard | compile, execute, verify, patch, replan, escalate | state machine, policy, world |
| Crew `agent/multi_agent.py`, `orchestrator.py` 2417-2890 | subtasks, shared turn budget, blackboard | route, run a specialist, critic retry | as above |
| LLM adapters `agent/llm.py` | message history, pending call ids, sticky endpoint | `call`, `reset`, failover | the loop |
| Tracer `agent/tracer.py`, runner `eval/runner.py`, supervisor `scripts/w30_supervisor.py` | trace files, counters, processes | write, resume, retry, park | threads, files |
| Metrics `eval/metrics.py`, `eval/schema.py` | none (a function of trace and golden record) | fold the world_diffs, match the final state, judge the row | reads traces |

Everything in one `Agent.run` is synchronous; the hard behaviour is not threads
but *protocol*: a batch of calls handled one by one while the cursor, the
state, the pool and the cache that each call is judged by change between them;
two engines (the model and the workflow) that both want to move the state;
failures half way through a step; and compensations. Real concurrency exists
only in the evaluation runner and its worker threads, which share the trace file
and the failover client.

What makes each component correct:

* policy: what a session destroys is capped, operations time is read-only, what
  is live was validated, however calls, failures, rollbacks and new runs interleave;
* workflow engine: return edges belong to the loop the cursor is in, nothing
  changed is missing from the compensation stack, a failed run is a transaction,
  the engine always hands control back;
* loop: every call is answered once, judged against the present state, never
  deduplicated by an outdated observation; engine-driven steps are executed by
  the engine; the run ends;
* planner: what survives the filters is in the compiled plan once, behind what
  it needs and along legal transitions;
* plan tier and crew: nothing is applied twice, a refusal or a question stays
  the answer, what is handed over is exactly what is left, budgets hold, a
  first plan that lost steps is handed over instead of executed, the run ends;
* adapters: every request pairs calls with results as strict providers demand
  and leaves nothing out; a request is given up only after every endpoint;
* tools: records carry their keys, no alarm outlives its point, every write is
  told in the world_diff, and whatever loses something is counted by the cage;
* runner and supervisor: no pair is scored twice, exit code 0 and "complete" are
  true, whoever is killed when; the campaign ends;
* scoring: a row that counts as success describes the project there is.

## 2. Modules

| module | models | notes |
|---|---|---|
| `SafetyPolicy` | the rule table and tool classes of `policy.py` | operators only |
| `SafetyCage` | sessions of calls behind the policy, the deployment tools, the Saga | EXTENDS SafetyPolicy |
| `SafetyCageProofs` | the theorems about SafetyCage | EXTENDS SafetyCage, TLAPS |
| `WorkflowSteps` | `workflow.py`: load check and cursor operations | operators on execution states |
| `WorkflowEngine` | the step glue, the acts of the main loop on the cursor, the Saga | EXTENDS WorkflowSteps |
| `Transaction` | what the Saga promises, abstractly | instantiated by WorkflowEngine |
| `StateMachine` | the table of `state_machine.py`, complete | operators only |
| `AgentLoop` | `Agent.run`'s interleaved loop | EXTENDS WorkflowEngine, StateMachine |
| `AgentLoopProofs` | lemmas about the cursor operations, then the theorems about the engine and about the loop | EXTENDS AgentLoop, TLAPS |
| `Routing` | `state_route`, `states_exposing`, `_pick_state` of `planner.py` | EXTENDS StateMachine; operators only |
| `Selecting` | Python's `sorted` and filtering comprehensions | operators only |
| `SelectingProofs` | what they return, for every finite set and sequence | EXTENDS Selecting, TLAPS |
| `PlanCompiler` | `compile_plan` step by step, `_topological_repair` pick by pick | EXTENDS Routing |
| `PlanCompilerProofs` | the theorems about filters, repair and routes | EXTENDS PlanCompiler, SelectingProofs |
| `PlanTier` | `_plan_and_execute`: request, retry, execution, replan, verification, hand-over | EXTENDS Routing, Selecting |
| `CrewTier` | `_run_multi_agent`, `_run_specialist`, and which tier answers a request | EXTENDS PlanTier |
| `CrewTierProofs` | the theorems about plan tier, crew and arbitration | EXTENDS CrewTier, SelectingProofs |
| `Conversation` | message threading and endpoint failover of `llm.py`, several threads | EXTENDS Selecting |
| `ConversationProofs` | the theorems about them | EXTENDS Conversation, SelectingProofs |
| `World` | the project's records and a tool's result | the variable `world` |
| `TagTools`, `PageTools` | every handler that writes points, alarms, histories, scripts, devices; pages, widgets, groups | EXTEND World; operators from world to result |
| `StubTools` | the tools that only answer | name sets |
| `WorldSession` | sessions of calls on one project | EXTENDS the three above |
| `WorldProofs` | the theorems about the handlers and their sessions | EXTENDS WorldSession, TLAPS |
| `Scoring` | calls and their world_diffs, and the verdict `metrics.py` computes from them | |
| `Runner` | `eval/runner.py` and the tracer's file: a process over one run directory | operators on directories and processes |
| `Campaign` | `w30_supervisor.py` over runners and the provider's account | EXTENDS Runner |
| `EvaluationProofs` | the theorems about a campaign and about the scoring | EXTENDS Campaign, Scoring, TLAPS |
| `Recipes`, `MC*` | step constructors and constant values for TLC | |

How they correspond to the code:

* **SafetyCage.** `Call` is one pass of a call through check, dispatch and
  record (lines 1276-1453, and the same three calls in the other paths);
  a refused or failed call changes nothing and is a stutter. `WorkflowFails` and
  `Compensate` are the Saga; `NewRun` is the next `Agent.run` on the same world,
  as the interactive runner makes. The world is reduced to what the rules and
  the deployment tools read: the deployment records and whether
  `_collect_validation_errors` would report something. `destroyed` counts what
  really happened, and is not a program variable.
* **WorkflowSteps / WorkflowEngine.** A workflow is a sequence of records, a step
  id its position. Each operation of `WorkflowEngine` (the class) is an operator
  from execution state to execution state, `raised` marking a `WorkflowError`
  with what was written before it. `frames` is the Python stack of nested
  `_run_engine_steps` calls. Handlers, fixed tools and predicates may do
  anything their contract allows: succeed, fail, hold, not hold, raise.
  `ran` and `effects` record what really happened.
* **AgentLoop.** `at` is the program counter of the loop; each action is the
  code between two decisions. The model is unconstrained: any batch of up to
  `cfg.batch` calls of any tools, any `next_state`. Tool RAG may keep any subset of the
  permitted tools. The policy may refuse any call. Every cursor operation
  is an action of WorkflowEngine taken as a whole, so that the loop can be
  checked to implement it (`ImplementsEngine`).
* **StateMachine.** All 22 states, their hand-written successors and tools, the
  two import-time passes. Tools that only the domain dictionaries name are the
  constant `DomainTools`.
* **PlanCompiler.** One action per iteration of the filter loop and of the
  picking loop. A proposed step says how it is named, whether its arguments
  validate, can be repaired, or lack a field another step could donate, and
  which entities it intends and references. The state table is the real one.
* **PlanTier / CrewTier.** `tier` says where the request is; an LLM call may
  return any proposed plan, a refusal or a question. A step may be refused by
  the cage, rejected by its handler for a missing entity or for a reason of its
  own. The compiler is reduced to the steps it drops, which `Bad` stands for.
  `plan.dropped` is what the code decides by, the drops of the first plan or of
  the retry adopted in its place; `plan.short` is history that no guard reads, whether the steps
  in hand are what was left of a reply, a replan's and a patch's included.
  A Specialist's response is any batch of calls over its tools.
* **Conversation.** `adapter[w]` holds `_messages` and `_pending_tool_ids` of the
  adapter of thread `w`, `history[w]` the rows the orchestrator hands over,
  `sticky` the class attribute all threads share. What an assistant does (a
  batch cut short by the breaker, a talk turn, nudges) comes from the loop's code.
* **World, TagTools, PageTools, WorldSession.** An operator per handler, from
  the world and the arguments to the result: the new world and the paths of its
  world_diff. Fields no handler branches on are one field, `note`.
* **Scoring.** A project is a function from paths to values. The scorer's side
  (`told`, `wrote`, `codes`) is computed from what the calls report alone;
  `untold` remembers what they did not report.
* **Selecting.** The library's `SortSeq` and `SelectSeq` compute the same but take
  an operator as an argument, which the provers cannot instantiate.
* **Runner / Campaign.** A process's work list is a set, taken in the order `Place`
  gives its pairs. A run directory is reduced to how often a scoreable line
  of each pair can be read, which pairs have an UNKNOWN line, and how the last
  line ends. A process is killed between any two of its steps, within a write
  too. The supervisor's child outlives it.

Operators called "Mutant" stand before the definition they are a plausible bug
of; nothing uses them. Exchanging one for the other must break the property
that `PROJECT.json` lists with it, which shows that the property can fail.

## 3. Runs

Runs that pass:

| run | shows | bounds | distinct states |
|---|---|---|---|
| `cage` | no live deployment with validation errors while rollback is not offered; the cap is exact; operations_time is read-only until a Saga runs | 2 environments, so that promotion goes through a record with a history; limits -1, 0, 2 and all rule sets, modes and prefix settings; 3 calls, above the largest limit; destructive compensations | 361,416 |
| `engine` | return edges and compensation stack with the model acting; transaction, return of control without it | six recipes; 5 calls or skips: each loop (2 iterations) can be entered, left and aborted; cyclic conditional, recursive and unknown sub-workflow, depth 2, 6 auto-steps | 6,152 |
| `loop` | answers, gate, dedupe, state sync, engine steps, refinement of the workflow engine, termination | seven configurations, without a workflow and with one shaped like `workflows/alarm_config.yaml`; 2 turns of up to 2 calls, or 4 of one; 2 tools and `read_resource`, 5 of 22 states | 191,060 |
| `compile` | the compiled plan | plans of up to 4 steps over four groups of tools, 3 worlds, 3 start states, 3 lever settings | 665,295 |
| `tiers` | plan tier, crew and their hand-overs | 5 steps about one point, 14 plans a reply may propose, 5 settings of the levers, one with a crew of no Specialist, 5 turns | 67,534 |
| `threads` | threading and failover | a thread of 3 turns of up to 2 calls and 2 runs beside one that moves the sticky index, 3 endpoints | 1,303,037 |
| `world` | the handlers' promises | 2 tags, pages, scripts and devices, an alarm, a widget, a group; two or so domains at a time, chosen so that each pair that refers to one another meets; one value of `note` can differ from another; symmetric names | 54,905 |
| `scoring` | the verdict | 3 calls, 4 projects of two or three entities, all records of up to two fields, a removal and a protected path, three match modes | 12,511 |
| `campaign` | the campaign | 2 cells of 2 pairs, 2 workers, 1 rerun, 1 kill, 1 outage, 2 stalls | 1,310,897 |

Why the bounds are enough:

* Two turns suffice for the loop because no variable but `oos`, `cached` and the
  workflow survives a turn: the first turn brings them to any value the second can
  tell apart (a counted refusal, a cached observation, a cursor on any step).
  `cfg.turns` and `cfg.batch` bound the turns and the calls of a response.
* The auto-step budget is 6 instead of 2000: it only has to be larger than the
  longest path without a cycle and small enough to be exhausted.
* `Conversed` names the recipes in which the model may act. The transaction is
  claimed for the others: a model's call may complete an undoable step without
  changing anything (a read, a skip), and its inverse then undoes what was not done.
* Four steps are enough for the repair to leave a cycle behind an emitted
  prefix, and two producers of one entity in front of and behind its user.
* Five turns let the plan tier ask, retry, replan and still hand over to a crew
  whose budget (max_turns or 1.5 per step) ends in the middle of a Specialist.
* One kill, one rerun and one outage reach each pair of "who was interrupted,
  where" and "who resumes"; the safety properties were also checked once with
  two kills and no rerun (28.7 million states).
* Three calls are a write, its loss under the same or a parent path, and a
  re-creation: what the fold of the diffs could confuse.

Deadlock is checked in every run in which the system cannot stop; `compile`,
`tiers`, `threads` and `campaign` end.

Runs that find the code disagreeing with what it says of itself (each with its
quotation in `PROJECT.json`):

| run | what happens |
|---|---|
| `cage_rollback` | validate (failed), rollback, deploy: a record with errors goes live |
| `engine_recovered` | `failed_step` survives a successful `on_failure` recovery and the whole run is rolled back |
| `scoring_siblings` | two wanted alarms match the one that exists: the leftover one is compared with the entity of its name although another has claimed it (`metrics.py` 295-306) |

Seven more counterexamples have a configuration beside the modules but are not
runs of the project; TLC finds each violated:

| configuration | property | what happens |
|---|---|---|
| `MCWorkflowEngine_partial` | `AllOrNothing` | one declared inverse switches the checkpoint restore off; changes without inverse stay (`orchestrator.py` 1531; its comment at 1524 says "all of it, or none of it") |
| `MCAgentLoop_batched` | `EngineStepsWereRunInBatches` | the second call of a batch completes a handler that never ran (`orchestrator.py` 1451; `workflow.py` 564) |
| `MCAgentLoop_stale` | `CachedIsFresh` | an observation older than an engine write is reused (`orchestrator.py` 3014; `react.py` 262) |
| `MCWorldSession_archive` | `OnlyCagedLose` | enabling a history again replaces its record and the samples in it (`manage_history.py` 58), and is not destructive (`policy.py` 113) |
| `MCPlanCompiler_setters` | `CreatorsFirst` | the first step that intends an entity counts as its producer, also when it only sets a field (`planner.py` 1320; docstring at 1304) |
| `MCTaskTiers_shortened` | `NoShortenedPlanCompletes` | a replan's reply loses a step in the compiler, what is left of it is executed, and the run ends as completed (`orchestrator.py` 2017; the comment at 1870 calls that "half the task as if it were all of it", of the first plan) |
| `MCTaskTiers_crew` | `CompletedCrewsWorked` | a Specialist that ends on the last turn of the budget lets the others run zero turns, and the crew reports completed (`orchestrator.py` 2552) |

Other places where the models showed the code doing less than a comment beside
it says, or something a reader may not expect. No run is kept for them; the
properties are stated so that they hold in spite of them, and say so.

Cage, engine and loop:

* compensations reach the handlers without check and without record
  (`orchestrator.py` 1536): a Saga destroys beyond the cap and writes in
  operations_time; `DestructiveCapped` and `RuntimeReadOnly` are about the calls
  that pass the cage;
* the inverse of a step that was skipped, or completed by a read, is recorded
  and run (`workflow.py` 493);
* a fast-forward over an optional loop body leaves the loop with its return edge
  pending (`workflow.py` 566); `LoopEdge` excludes recipes with such a body;
* the `advance()` after a dispatched call (`orchestrator.py` 1451) is in no `try`:
  an unmet `depends_on` behind a recovery jump ends the run with an exception
  (`pc = "crashed"`);
* a talk-only turn on an optional step advances after the engine ran (1101), so
  the next prompt may show a handler, or the run may end (1104) when the next
  step has the same state; `PromptedOnModelSteps` excludes recipes with an
  optional step before an engine-driven one;
* the breaker's diversion to ASK_USER is undone in the same turn by the
  `next_state` of the refused response (1478) or by a live workflow (1493);
* a batch of refused calls passes over an optional step as resource reads do
  (1468).

Planner, plan tier and crew:

* steps beyond `max_steps` are dropped without the retry other drops cause;
  duplicates collapse even where the request repeats itself; the repair may
  swap the creation and the deletion of one entity; `dropped_unreachable_state`
  never fires, because every state is routable from every other;
* the drops and the refusal of a replan in the middle of the execution are
  ignored (`orchestrator.py` 2017) and the drops of a verification patch only
  recorded (2185), so `FirstPlanNotShortened` speaks of the first plan and its
  retry only; a refusal without steps on the retry is not adopted; the cascade
  filter protects the premise of the latest failure only, and verification
  patches pass no such filter;
* the critic counts reads as success (`multi_agent.py` 301); the interleaved
  fallback starts again at turn 0.

Adapters, runner and supervisor:

* while another thread moves the sticky index, a walk may ask one endpoint twice
  and another never (`llm.py` 565); `GivesUpAfterAll` excludes it, and
  `EveryEndpointTried` states it without the exception;
* nudges are sent again until a turn in which the model only talks;
* a torn last line does not stop the supervisor but does stop a resumed runner
  (`_read_jsonl` hands every line to `json.loads`), which after three stalls
  parks a cell the provider would answer (`TornLineIsNotFatal`); the line that
  follows a torn one is lost with it;
* two processes on one directory, one of them orphaned by a killed supervisor,
  score pairs twice;
* an interrupted run writes "completed" into its metadata; `retried` is never
  counted; a pair with a terminal state of None is done for the runner and not
  for the supervisor.

Tools and scoring:

* `set_point_type` ignores alarms, `update_widget_binding` the expected types;
  `delete_page` leaves its groups, `delete_point` dangling bindings and
  histories; devices may name tags that do not exist; `ungroup_widgets` and
  `rename_point` remove something under a verb the cage does not count;
* nine tool modules, and some deployment tools, answer as if they had written
  and never do;
* the checkpoint restore is logged without a world_diff (`orchestrator.py`
  1556), so the score of such a run is that of a project that no longer exists;
  `unbind_widget_point` reports the bindings that remain; an entity deleted and
  created again stays among the removed, because `discard` takes the exact path
  (`metrics.py` 142); `VerdictMatchesWorld` excludes the three by `untold`;
* in key_fields mode the greedy choice may fail where another assignment would
  do; widgets are looked for on the page of the record's id even when that page
  was matched under another; the removal of a page the record wants a field of
  is excused from the protected paths;
* `_detect_cascade_failures` counts a failed deletion as caused by itself.

**Fairness.** `Agent.run` is one synchronous call, so `AgentLoop` and `CrewTier`
have `WF_vars(Next)`: the next statement is executed, given that the model answers
(the adapters bound a request by a timeout). `WorkflowEngine` alone claims
fairness only for what the runtime does by itself, the engine steps and the
compensations; the model and the end of the run may never come. `Campaign` is
fair to the supervisor, to each runner process that is alive, and to the owner
who tops up an empty account (the supervisor sleeps and probes until then); not
to kills and outages.

## 4. Proofs

`SafetyCageProofs` proves for every set of configurations, deployments and tools
and for every bound:

* `TypeCorrect`: `Spec => []TypeOK`, from `HandlerType` (each deployment tool
  returns a world of the declared shape).
* `CapHolds`: `Spec => []DestructiveCapped`. The cap alone is not inductive,
  because the rule reads the policy's counter and not what was executed; the
  invariant adds `CountIsExact`, that with the policy on the two are equal.
* `ReadOnlyHolds`: `Spec => RuntimeReadOnly`. A failed workflow without
  compensations restores the checkpoint, which is a change unless the world
  still equals it; that equality, while no Saga is running, is the strengthening.
* `DeployHolds`: if `rollback_deployment` is neither offered nor an inverse,
  `Spec => []DeployedPassedValidation`. The strengthening is that a record with
  errors reads "failed", in the world and in the checkpoint; `cage_rollback`
  shows the hypothesis is needed.

`AgentLoopProofs` proves of the engine, for every catalogue that passes the load
check (`CatalogueAssumption`) and every bound:

* `EngineTypeCorrect`: `EngineSpec => []EngineTypeOK`;
* `LoopEdgeHolds`: `EngineSpec => []LoopEdge`. Both follow from one inductive
  invariant, `EngineInv`: every frame on the stack is a `GoodFrame`, one whose
  execution state is typed and whose return edges are in order. Typing comes
  along because an operation keeps the edges in order only on a typed state, and
  frames are treated alike because leaving a sub-workflow moves its parent. Each
  cursor operation has one typing and one edge lemma; that a fast-forward stops
  on a step at all (`FastForwardStop`) rests on a least-element lemma drawn from
  the well-foundedness of the naturals.
* `NoCompensationLostHolds`: `EngineSpec => []NoCompensationLost`. The property is
  inductive with `EngineInv`, but only because it places the changes on the
  stacks *in order* (`Recorded`): a step pushes onto the last stack, and leaving a
  sub-workflow appends the last stack to the one below, so a placing is
  moved, extended by one, or kept (`RecordMoves`, `RecordPushes`, `RecordMerges`).
* `RunIsATransaction`: `WholeRecipes => (EngineSpec => ImplementsTransaction)`, the
  refinement of the abstract transaction, state by state and step by step. While
  a run the engine drives alone goes on, the log of what it changed is its
  frames' stacks laid end to end (`Laid`, in `Running`), and every frame but the
  last stands on the sub-workflow step it waits for; in the Saga the log is what
  is left of the root's stack (`Undoing`), so that undoing the newest
  compensation undoes the newest change. `WholeRecipes` says that a step of
  these recipes has an inverse exactly if it writes, and that they nest only such
  recipes; `MCWorkflowEngine_partial` shows that without it a failed run keeps
  part of what it did. The recipes of the run `engine` meet it.

and of the loop, for every architecture, batch length and turn budget:

* `AnswersHold`: `Spec => []EveryCallAnswered`. The strengthening, `AnswerInv`,
  says that a call past the gate is still in the batch: answering it twice, or
  answering an empty batch, is what the account excludes.
* `LoopImplementsEngine`: `Spec => ImplementsEngine`, action by action.
* `GateCurrent`: `Spec => []GateUsesCurrentState`. With no live workflow the gate
  does not compute the pool afresh, so `GateInv` carries it from the prompt
  through the batch; it survives the call that finishes a workflow because
  `advance` then leaves the cursor where it was (`FinishKeepsCursor`), and the
  fast-forward needs `EngineInv` to name the frame it moved.
* `LoopWorkflowSound`: the engine's two invariants hold inside the loop.
* `StateSyncHolds`: `Spec => []EngineStateSync`, without a hypothesis on the recipes:
  each way to the next prompt ends with the engine's state transfer.
* `PromptsHold`: `[]PromptedOnModelSteps`. `PromptInv` adds who has control: the
  engine yields on steps of the model only, and a call or a talk turn moves the
  cursor only onto such steps.
* `StepsWereRun`: `[]EngineStepsWereRun`. `WereRunInv` says of every frame what is
  completed, what ran and where its cursor is, and that with one call per
  response the call in hand is made on a step of the model.
* `CacheFresh`: `[]CachedIsFresh`; what is cached is as new as the last change,
  because a write of the model bumps the epoch and the engine's steps do not write.

`PromptsHold` and `StepsWereRun` assume `NoOptionalBody` (no loop has an optional
body) and `SkipsLeadToModel` (behind an optional step comes a step of the model);
`CacheFresh` assumes `DedupeMeetsNoWriter` (no configuration runs the dedupe beside
recipes whose handlers or fixed calls write). The shipped recipes meet all
three: their optional steps are bodies of no loop and are followed by steps of
the model, and their handlers only read. `MCAgentLoop_stale` shows that the third
is needed.

`WorldProofs` proves, for every set of tags, ids and offered domains, and every
sequence of calls:

* `WorldTypeCorrect`: `Spec => []WorldTypeOK`, and `KeysAgreeHold`:
  `Spec => []KeysAgree`. The invariant, `GoodWorld`, says both at once: each
  collection is `Keyed`, a function whose record under a key is one of those that
  may stand there. One lemma per domain says that each of its handlers keeps it.
* `AlarmsHavePointsHold`: `[]AlarmsHavePoints` if no seed has an orphaned alarm
  (`SeedsHavePoints`, true of all golden records but `golden-103`).
* `DiffTells`: `[]DiffTellsTheChange`, and `LossesCaged`: `[]LossesAreCaged`. Both are
  about every result a handler could return in a reachable project, so they are
  two more parts of `Keeps`, what each domain's lemma says of an outcome: the
  world is good, the diff names the change (`Tells`), and unless the tool is one of
  `Lossy` every collection retains its own (`RetainsAll`). `ToldFiled`, `ToldGroups`,
  `ToldPages` and `ToldWidgets` say when the diff of one collection tells its
  change, `TellsOfThese` that it then tells the change of the whole project, and
  `HoldingsRetained` that `RetainsAll` loses nothing. Both need the domains to be
  those of the registry (`SurfacesAssumption`).

`EvaluationProofs` proves, for every number of cells, pairs, workers, slots, kills,
reruns and outages:

* `CampaignInvariant`: `Spec => []CampaignInv`, with `CampaignTypeCorrect`. Its parts:
  `Typed`; `OrphansCounted` (a process without a supervisor took a kill, so a
  slot is free for a new one); `Alone` and `Fresh` (outside the named cases one
  process works on a directory, and what it has yet to do has no scoreable line);
  `Covered` (what it does not have on its list any more is on disk).
* `PairsScoredOnce`, `ExitZeroHolds`, `VerdictHolds`: `NoPairScoredTwice`,
  `ExitZeroIsComplete` and `VerdictIsTrue` follow. `RunnerAssumption` takes the
  selected pairs to be distinct, as `--all` and a sample select them; an id given
  twice with `--golden-ids` is run and scored twice (`runner.py` 171).

and of the scoring, for every set of entities, values, golden records and calls:

* `ScoringTypeCorrect` (`ScoringSpec => []ScoringTypeOK`), `NoFalseFailureHolds`
  (`[]NoFalseFailure`) and `VerdictMatchesWorldHolds` (`[]VerdictMatchesWorld`). Neither
  property is inductive, for the verdict is computed from a fold that never sees
  the project. What the calls preserve is `Tells`: as long as nothing changed
  untold, what the fold holds as put exists with that value, every other path of
  the project is as seeded, a seeded path that is missing lies under one the fold
  holds as removed, and nothing that exists does. Creating an entity under one that was removed before (`Remade`),
  unbinding and restoring a checkpoint break it, and exactly these fill `untold`.
* The verdict then only needs that each wanted entity is found or stood for by one
  of its collection. In `key_fields` mode that is the loop invariant `MatchingInv` of
  `_match_key_fields`, which holds in every round whatever the order of the
  entities, so nothing about sorting is used. That the greedy choice makes a real
  one (`FirstEntity`) needs that ids of one collection are totally ordered. What it
  does not give is `OneToOne`, which `scoring_siblings` refutes.

`PlanCompilerProofs` proves, for every proposal, world, start state and setting:

* `EveryKeptStepHolds` and `ProducersFirstHold`: `[]EveryKeptStepCompiled` and
  `[]ProducersFirst`, from `Ordered`: what was picked and what waits are the kept
  steps, none twice, and whatever was picked while something was ready had no
  unpicked step to wait for.
* `ReorderSavesHold`: `[]ReorderSavesMoves`. The strengthening, `Saving`, is that the
  moves made so far plus the moves the remaining steps need in their proposed
  order (`Turns`) never exceed the moves of the proposal: taking a step of the
  current state out of the remainder costs nothing and never lengthens it.
* `PlanIsRoutableHolds`: `[]PlanIsRoutable`. `EverythingRoutable` says of the state table
  that a search from any state but `DONE` finds every state within three rounds
  (the escape to `ASK_USER`, back to `ANALYZE_INTENT`, and on), `FoundStays` that later
  rounds keep what was found, and `ClosestExists` that `_pick_state` has a closest
  owner to pick. The inductive part, `Walkable`, is that no state of the plan in
  the making is `DONE`, whence the filter never drops a step as unreachable and
  any order of the steps can be walked. It needs that the planner's pool only
  holds tools some state exposes (`PermittedAssumption`, as `_planner_pool` builds it
  with the state machine on) and that a plan is not asked for in `DONE`
  (`StartsAssumption`).
* `CompileTypeCorrect`: `[]CompileTypeOK`, with `Examined`: the kept steps are among
  those already looked at, and each was given a state that exposes its tool.

`CrewTierProofs` proves, for every set of steps, levers, states and tools:

* `TiersInvariant`: `Spec => []TiersInv`. Its parts: `Typed`; `Control` (where the
  state machine stands in each tier); `Answers` (a refusal or a question leaves
  the world as it was and goes straight to the end); `Whole` (until a step
  has failed or a verification was asked, what is executed is whole); `Spent`
  (replans, rounds and turns against each other); `Handover` (the Specialists'
  lists are those of the plan handed over).
* `StepsApplyOnce`, `AnswersStandHold`, `HandoverHolds`, `FirstPlanWholeHolds`:
  `NoPlanStepTwice`, `FinalAnswersStand`, `HandoverIsExact` and
  `FirstPlanNotShortened` follow; the last for the first plan and the retry
  adopted in its place, not for replans and patches. `CallsHold`: `CallsWithinBudget`, with the further
  invariant `WithinBudget`, if `max_replans` is below `max_turns`
  (`ReplansFitTurns`; 2 and 12 in every shipped configuration): otherwise the
  replans alone may exceed the crew's budget.

`ConversationProofs` proves, for every number of threads, endpoints, turns, runs and
calls in a response:

* `RequestsAreThreadedHolds` and `NothingIsLostHolds`: `[]RequestsAreThreaded` and
  `[]NothingIsLost`, from `ThreadInv`. While a request is on its way (`Sent`) its
  messages are `Well`, and every result and nudge is among them. Before the next
  one (`Ready`) the list is a well one with the assistant message of the pending
  calls behind it, and each of these calls has exactly one row behind the
  history's last assistant row (`Once`); the history grows over many turns without
  such a row, and what keeps an old result from answering a new call is that an
  id belongs to its turn (`Accounted`). `KeptResults` says that selecting the
  pending ids then yields as many results as there are calls, and `WellGrows`
  that appending them, with user messages behind, keeps a list well.
* `GivesUpHolds`: `[]GivesUpAfterAll`, from `WalkInv`: an undisturbed walk has tried the
  endpoints from the sticky one on, wrapping around (`WrapsAround`).

What the last three rest on, sorting and selecting, is proved in `SelectingProofs`:
counting the smaller members is an injection of a finite set into an interval
of its size, hence onto (`InOrderSorts`).

Assumptions: only the named ones of the modules on their constants, which TLC
evaluates in every run, and the hypotheses named above.

Every invariant and every safety property of an action or a step that a passing
run checks is a theorem for all values of the constants. Model-checked only are
the liveness properties (`RunReturns`, `RunTerminates`, `TiersEnd`, `CampaignEnds`),
which are out of the prover's reach, and what the runs refute (`OneToOne`,
`CreatorsFirst` and the like), which is false. Recursively defined data is proved
about only where a recursion is bounded: that a function over `0 .. n` is defined at
all (`SearchRuns`, `MatchingRuns`) is shown for the recursion at hand, by the least
counterexample, and its values by unfolding.

## 5. Not modelled

Left out: prompt wording and rendering, Tool RAG scoring (any subset), YAML and
JSON parsing, HTTP and the adapters' other formats, the runner's rate limiter
(`slot_times` only delays) and metadata file, trajectory, tool-selection and
efficiency scores (ratios), the judges (model calls), reports and plots, the
one-shot scripts, `agent_old/` and `experiment_archive/` (superseded copies).

Simplifications a reader should know: the inverse of the latest change is
assumed to succeed, an older one may be refused; one argument set per tool in the
cage and the loop, so that a tool name is an action signature; domain tools in
hierarchical mode are their actions; which of several refusing rules is reported
first is not modelled; the plan and crew tiers are taken to be off in
`AgentLoop`, as in the architectures that use workflows alone, and the
interleaved loop is the end of a run in `CrewTier`; ids of calls are fresh
within a run; the tools' error codes are not told apart in `WorldSession`, and
of them `Scoring` keeps two. The seeds of `world` have no
orphaned alarm, which is true of most golden records and not of all: `golden-103`
(`eval/golden_dataset.jsonl:103`) seeds an alarm on a point its world lacks, and
`AlarmsHavePoints` says nothing of such a record.
