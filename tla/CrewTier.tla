------------------------------ MODULE CrewTier ------------------------------
(***************************************************************************)
(* The Supervisor / Specialist crew of agent/multi_agent.py and            *)
(* agent/orchestrator.py, and Agent.run's arbitration between the tiers:   *)
(* the plan tier first, the crew standalone or as its escalation, and the  *)
(* interleaved loop (AgentLoop) when both decline.                         *)
(***************************************************************************)
EXTENDS PlanTier

CONSTANTS
  Rankings,    \* the orders Tool RAG may put the tools in
  MaxBatch     \* bound: calls in one response

ASSUME RankingsAssumption ==
  /\ Rankings \subseteq Seq(UNION {AllowedTools(s) : s \in STATES})
  /\ \A l \in Levers : l.max_specialists \in Nat /\ l.tools_per_specialist \in Nat

VARIABLES
  subtasks,    \* [state, atomics, worklist, turns_used, successful]
  specialist,  \* the one at work, an index of subtasks
  stage,       \* "idle", "enter", "prompt", "act" or "leave"
  local,       \* its turns in this conversation
  mid_work,    \* its last response was still acting
  calls,       \* calls of that response not yet handled
  observed,    \* steps its scratchpad would answer from
  retry,       \* subtasks the critic still sends back; primary pass: NoRetry
  budget       \* turn_budget

crewVars == <<subtasks, specialist, stage, local, mid_work, calls, observed,
              retry, budget>>
vars == <<planTierVars, crewVars>>

NoRetry == <<0>>   \* the critic has not spoken yet
Primary == retry = NoRetry

-----------------------------------------------------------------------------
(* The Supervisor's routing.                                               *)

Subtask(state, atomics, worklist) ==
  [state |-> state, atomics |-> atomics, worklist |-> worklist,
   turns_used |-> 0, successful |-> 0]

(* One Specialist per state of the plan, in plan order.                    *)
RouteFromPlan(steps) ==
  LET Opens(i) == \A j \in 1 .. i - 1 : Info[steps[j]].state # Info[steps[i]].state
      opening == Ascending({i \in DOMAIN steps : Opens(i)})
      Of(state) == Kept(steps, {s \in Steps : Info[s].state = state})
      Assigned(state) == Subtask(state, {Info[s].tool : s \in ToSet(Of(state))}, Of(state))
  IN  [k \in DOMAIN opening |-> Assigned(Info[steps[opening[k]]].state)]

(* The best-ranked working states, each with its best-ranked tools.        *)
RouteFromRanking(ranked) ==
  LET Mine(state) == Kept(ranked, AllowedTools(state))
      working == {s \in STATES \ {"ANALYZE_INTENT", "ASK_USER", "DONE"} : Mine(s) # <<>>}
      Best(s) == CHOOSE i \in DOMAIN ranked : ranked[i] = Mine(s)[1]
      key == [s \in working |-> Best(s) * Len(StateOrder) + Rank[s]]
      states == InOrder(working, key)
      Least(a, b) == IF a < b THEN a ELSE b
  IN  [i \in 1 .. Least(Len(states), lever.max_specialists) |->
         Subtask(states[i],
                 {Mine(states[i])[k] : k \in 1 .. Least(Len(Mine(states[i])),
                                                       lever.tools_per_specialist)},
                 <<>>)]

(* Mutant: what the plan tier spent is not added.                          *)
TurnBudgetOfPlan ==
  IF handed.steps = <<>> THEN MaxTurns
  ELSE (3 * Len(handed.steps) + 1) \div 2
(* max_turns, or 1.5 turns per step on top of what the plan tier spent.    *)
TurnBudget ==
  IF handed.steps = <<>> THEN MaxTurns
  ELSE Max({MaxTurns, handed.turns + (3 * Len(handed.steps) + 1) \div 2})

-----------------------------------------------------------------------------
Begin(k) ==
  specialist' = k /\ stage' = "enter"

Standalone ==
  /\ tier = "ask" /\ ~lever.plan /\ lever.crew
  /\ tier' = "crew"
  /\ ending' = [path |-> "crew", completed |-> TRUE, reason |-> "standalone"]
  /\ UNCHANGED <<planVars, world, fsm, turns, crewVars>>

(* A crew without a single assignment leaves the request to the loop.      *)
StartCrew ==
  /\ tier = "crew" /\ stage = "idle"
  /\ \E ranked \in Rankings :
       LET assignments == IF handed.steps # <<>> THEN RouteFromPlan(handed.steps)
                          ELSE RouteFromRanking(ranked)
       IN  \/ /\ assignments = <<>> /\ HandBack(0)
              /\ UNCHANGED <<world, crewVars>>
           \/ /\ assignments # <<>> /\ subtasks' = assignments
              /\ budget' = TurnBudget /\ Begin(1)
              /\ UNCHANGED <<sharedVars, local, mid_work, calls, observed, retry>>
  /\ UNCHANGED planVars

(* An assignment whose state cannot be reached is skipped.                 *)
EnterState ==
  /\ stage = "enter"
  /\ IF Routable(fsm, subtasks[specialist].state)
       THEN fsm' = subtasks[specialist].state /\ stage' = "prompt"
       ELSE stage' = "leave" /\ UNCHANGED fsm
  /\ local' = 0 /\ mid_work' = FALSE /\ observed' = {}
  /\ UNCHANGED <<planVars, world, tier, turns, ending, subtasks, specialist,
                 calls, retry, budget>>

LocalCap == Max({lever.turns_per_specialist, Len(subtasks[specialist].worklist) + 1})

SpecialistTurn ==
  /\ stage = "prompt"
  /\ IF local < LocalCap /\ turns < budget
       THEN /\ local' = local + 1 /\ turns' = turns + 1
            /\ \E batch \in UNION {[1 .. n -> Steps] : n \in 0 .. MaxBatch} :
                 /\ calls' = batch
                 /\ mid_work' = (batch # <<>>)
                 /\ stage' = IF batch = <<>> THEN "leave" ELSE "act"
       ELSE stage' = "leave" /\ UNCHANGED <<local, turns, calls, mid_work>>
  /\ UNCHANGED <<planVars, world, fsm, tier, ending, subtasks, specialist,
                 observed, retry, budget>>

Changes(s) == Info[s].makes \cup Info[s].edits \cup Info[s].kills # {}

(* One call: the assignment, the cage and the scratchpad, then dispatch.   *)
SpecialistCall ==
  LET s == Head(calls)
      assigned == Info[s].tool \in subtasks[specialist].atomics
      cached == lever.dedupe /\ s \in observed
  IN
  /\ stage = "act" /\ calls # <<>>
  /\ calls' = Tail(calls)
  /\ \E code \in IF assigned THEN Outcomes(s) ELSE {"OUT_OF_SCOPE"} :
       IF code = "OK" /\ ~cached
         THEN /\ world' = After(s)
              /\ board' = board \cup Info[s].makes \cup Info[s].edits
              /\ subtasks' = [subtasks EXCEPT ![specialist].successful = @ + 1]
              /\ observed' = (IF Changes(s) THEN {} ELSE observed) \cup {s}
         ELSE UNCHANGED <<world, board, subtasks, observed>>
  /\ UNCHANGED <<lever, plan, at, replans, rounds, approved, failure, premise,
                 applied, patched, handed, fsm, tier, turns, ending, specialist,
                 stage, local, mid_work, retry, budget>>

BatchDone ==
  /\ stage = "act" /\ calls = <<>>
  /\ stage' = "prompt"
  /\ UNCHANGED <<planVars, sharedVars, subtasks, specialist, local, mid_work,
                 calls, observed, retry, budget>>

(* turns_used is charged when the conversation ends.                       *)
Charged == [subtasks EXCEPT ![specialist].turns_used = @ + local]
UnsatisfiedSubtasks(done) ==
  LET Idle(k) == done[k].turns_used > 0 /\ done[k].successful = 0
  IN  Ascending({k \in DOMAIN done : Idle(k)})

CrewEnds(completed, reason) ==
  /\ tier' = "over" /\ stage' = "idle"
  /\ fsm' = IF CanTransit(fsm, "DONE") THEN "DONE" ELSE fsm
  /\ ending' = [path |-> "crew", completed |-> completed, reason |-> reason]
  /\ UNCHANGED specialist

CriticSends(queue) ==
  IF queue = <<>> \/ turns >= budget
    THEN CrewEnds(TRUE, None) /\ retry' = <<>>
    ELSE Begin(Head(queue)) /\ retry' = Tail(queue) /\ UNCHANGED <<tier, fsm, ending>>

(* Out of budget in the middle of work is a failure of the primary pass;   *)
(* a retry that runs out of it is not.                                     *)
LeaveSpecialist ==
  /\ stage = "leave"
  /\ subtasks' = Charged
  /\ IF Primary
       THEN \/ /\ mid_work /\ turns >= budget
               /\ CrewEnds(FALSE, "max_turns exhausted") /\ UNCHANGED retry
            \/ /\ ~(mid_work /\ turns >= budget) /\ specialist < Len(subtasks)
               /\ Begin(specialist + 1) /\ UNCHANGED <<retry, tier, fsm, ending>>
            \/ /\ ~(mid_work /\ turns >= budget) /\ specialist = Len(subtasks)
               /\ CriticSends(IF lever.critic THEN UnsatisfiedSubtasks(Charged) ELSE <<>>)
       ELSE CriticSends(retry)
  /\ UNCHANGED <<planVars, world, turns, local, mid_work, calls, observed, budget>>

-----------------------------------------------------------------------------
Init ==
  /\ PlanInit
  /\ subtasks = <<>> /\ specialist = 0 /\ stage = "idle"
  /\ local = 0 /\ mid_work = FALSE /\ calls = <<>> /\ observed = {}
  /\ retry = NoRetry /\ budget = MaxTurns

CrewNext ==
  \/ Standalone \/ StartCrew \/ EnterState \/ SpecialistTurn \/ SpecialistCall
  \/ BatchDone \/ LeaveSpecialist

Next == (PlanNext /\ UNCHANGED crewVars) \/ CrewNext

Spec == Init /\ [][Next]_vars /\ WF_vars(Next)

-----------------------------------------------------------------------------
(* Properties.                                                             *)

Finished == tier = "over" \/ tier = "interleaved"

(* The control state of a run and the counters of its tiers.               *)
TiersTypeOK ==
  /\ world \subseteq UNION {Existing, UNION {Info[s].makes : s \in Steps}}
  /\ fsm \in STATES
  /\ tier \in {"ask", "ask_again", "settle", "execute", "failed", "verify",
               "patch", "crew", "interleaved", "over"}
  /\ ToSet(plan.steps) \subseteq Steps /\ at \in 1 .. Len(plan.steps) + 1
  /\ replans <= lever.max_replans /\ rounds <= lever.verify_rounds
  /\ tier = "crew" => ending.path = "crew"
  /\ stage # "idle" => tier = "crew" /\ specialist \in DOMAIN subtasks

(* However often a plan, its replans and its verification patches propose  *)
(* a step again, the plan tier applies it at most once.                    *)
NoPlanStepTwice == \A s \in Steps : applied[s] <= 1

(* The three answers that end a request without more work: a refusal with  *)
(* no steps and a clarification of the first plan leave the world as it    *)
(* was, the cage's refusal stops the plan where it is; none of them is     *)
(* taken to the crew or the interleaved loop, and a run ends on ASK_USER   *)
(* exactly when it ends to ask.                                            *)
FinalAnswersStand ==
  /\ plan.refusal /\ plan.steps = <<>> =>
       world = Existing /\ tier \notin {"crew", "interleaved"}
  /\ ending.reason = "clarify" => world = Existing
  /\ Denied => tier \in {"failed", "over"} /\ ending.path # "crew"
  /\ Finished => (fsm = "ASK_USER" <=> ending.reason \in {"clarify", "replan_clarify"})

(* The crew is handed what is left of the plan and nothing that already    *)
(* ran; every step of it is on the list of exactly one Specialist, the one *)
(* of its state, who is allowed to call its tool.                          *)
HandoverIsExact ==
  LET Carries(k, s) ==
        /\ s \in ToSet(subtasks[k].worklist)
        /\ subtasks[k].state = Info[s].state
        /\ Info[s].tool \in subtasks[k].atomics
      Holders(s) == {k \in DOMAIN subtasks : s \in ToSet(subtasks[k].worklist)}
  IN  /\ ToSet(handed.steps) \cap Executed = {}
      /\ stage # "idle" =>
           /\ \A s \in ToSet(handed.steps) :
                Cardinality(Holders(s)) = 1 /\ \A k \in Holders(s) : Carries(k, s)
           /\ \A k \in DOMAIN subtasks :
                ToSet(subtasks[k].worklist) \subseteq ToSet(handed.steps)

(* A plan run costs one call, its replans and its verification rounds; a   *)
(* crew stays within its turn budget, retries of the critic included.      *)
CallsWithinBudget ==
  IF ending.path = "crew" THEN turns <= budget
  ELSE turns <= 1 + lever.max_replans + lever.verify_rounds

(* The first plan, or the retry adopted in its place: with a crew to fall  *)
(* back on, a plan that lost steps as unknown, invalid or unreachable is   *)
(* not executed by the plan tier, not even in part, unless the planner     *)
(* refused part of the request; the crew or the interleaved loop works on  *)
(* it, or the run ends asking. So it stays until a step has failed or a    *)
(* verification was asked: what a replan or a patch loses decides nothing  *)
(* (NoShortenedPlanCompletes), and steps beyond max_steps are not counted. *)
FirstPlanNotShortened ==
  lever.crew /\ plan.short /\ ~plan.refusal /\ failure.code = "OK" /\ rounds = 0 =>
    /\ Executed = {} /\ tier \notin {"execute", "failed", "verify", "patch"}
    /\ tier = "over" => ending.path = "crew" \/ ending.reason = "clarify"

(* Every run comes to its end or is handed to the interleaved loop, if the *)
(* tiers keep being executed.                                              *)
TiersEnd == <>Finished

(* What multi_agent.py and the comment on the budget say of a crew that    *)
(* reports completed: no Specialist was cut off before its slice.          *)
CompletedCrewsWorked ==
  tier = "over" /\ ending.path = "crew" /\ ending.completed =>
    \A k \in DOMAIN subtasks : subtasks[k].turns_used > 0

(* What the comment on the escalation says of the first plan, said of the  *)
(* plan in hand: with a crew to fall back on, no plan tier reports         *)
(* completed with steps that are only part of a reply.                     *)
NoShortenedPlanCompletes ==
  tier = "over" /\ ending.path = "plan" /\ ending.completed /\ lever.crew =>
    ~plan.short \/ plan.refusal \/ ending.reason = "clarify"
=============================================================================
