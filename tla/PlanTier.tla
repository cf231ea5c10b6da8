------------------------------ MODULE PlanTier ------------------------------
(***************************************************************************)
(* The plan-and-execute tier of agent/orchestrator.py: ask for a whole     *)
(* plan, compile it, run its steps without the model, replan, verify, and  *)
(* decide who takes over.                                                  *)
(*                                                                         *)
(* A step is a name; Info gives its record                                 *)
(*   tool, state, domain   where it runs                                   *)
(*   makes, kills          ids it adds to or removes from the world        *)
(*   edits                 ids it changes: its world_diff, with makes      *)
(*   needs                 ids it references                               *)
(* A reply's steps may hold Bad, which stands for any step the compiler    *)
(* drops as unknown, schema-invalid or unreachable (PlanCompiler models    *)
(* the compiler). Steps beyond max_steps and doubled steps leave a plan    *)
(* too, but the tier does not count them as dropped and neither does Bad.  *)
(*                                                                         *)
(* plan.dropped is what the code decides by: the drops of the first plan,  *)
(* or of the retry adopted in its place. plan.short is history that no     *)
(* guard reads: whether the steps in hand are what was left of a reply,    *)
(* also of a replan's, whose drops the code forgets, and a patch's, whose  *)
(* drops it only records.                                                  *)
(***************************************************************************)
EXTENDS Routing, Selecting, FiniteSetsExt, SequencesExt

CONSTANTS
  Steps, Info,   \* steps and their records
  Bad,           \* a step that does not compile
  Proposed,      \* sequences of steps and Bad that a reply may propose
  Existing,      \* ids of the initial world
  Guarded,       \* steps the cage may refuse
  Fragile,       \* steps their handler rejects for a reason of its own
  Destructive,   \* steps a verification patch may not run
  Levers,        \* records of plan_execute and multi_agent levers
  MaxTurns

ASSUME StepsAssumption ==
  /\ Bad \notin Steps
  /\ Proposed \subseteq Seq(Steps \cup {Bad})
  /\ \A s \in Steps : /\ Info[s].state \in STATES \ {"ASK_USER", "DONE"}
                      /\ Info[s].tool \in AllowedTools(Info[s].state)
  /\ MaxTurns \in Nat \ {0}

ASSUME LeversAssumption ==
  \A l \in Levers : l.crew \in BOOLEAN /\ l.max_replans \in Nat /\ l.verify_rounds \in Nat

VARIABLES
  lever,     \* the run's levers
  world,     \* ids that exist
  fsm,       \* the state machine's current state
  tier,      \* where the run is
  turns,     \* LLM calls so far
  plan,      \* [steps, dropped, refusal, short]: the plan in hand
  at,        \* the next step of it
  replans, rounds,   \* replans and verification rounds used
  approved,  \* planned_entities: what the approved plan set out to create
  failure,   \* the step that failed last, and its code
  premise,   \* ids the last reference failure protects from being created
  applied,   \* per step, how often this tier dispatched it with success
  board,     \* entities the tier really changed
  patched,   \* steps applied in the verification round
  ending,    \* [path, completed, reason]
  handed     \* [steps, refusal, turns]: what the crew is given, with board

planVars == <<lever, plan, at, replans, rounds, approved, failure, premise,
              applied, board, patched, handed>>
sharedVars == <<world, fsm, tier, turns, ending>>
planTierVars == <<planVars, sharedVars>>

None == "none"
Intended(s) == Info[s].makes \cup Info[s].edits \cup Info[s].kills
(* Mutant: what ran is forgotten at a replan.                              *)
ExecutedThisRound == IF replans > 0 THEN {} ELSE {s \in Steps : applied[s] > 0}
Executed == {s \in Steps : applied[s] > 0}

Replies == [steps : Proposed, refusal : BOOLEAN, clarify : BOOLEAN]
(* With clarify_on_underspecified off, the field is ignored.               *)
Clarifies(r) == lever.clarify /\ r.clarify

Compile(r) ==
  [steps |-> Kept(r.steps, Steps), dropped |-> Bad \in ToSet(r.steps),
   refusal |-> r.refusal, short |-> Bad \in ToSet(r.steps)]

-----------------------------------------------------------------------------
(* The handlers, and _execute_plan_step.                                   *)

Handled(s) ==
  CASE ~(Info[s].needs \subseteq world) -> "NOT_FOUND"
    [] Info[s].needs \subseteq world /\ Info[s].makes \cap world # {} -> "EXISTS"
    [] OTHER -> IF s \in Fragile THEN "FAILED" ELSE "OK"
Outcomes(s) ==
  IF ~Routable(fsm, Info[s].state) THEN {"OUT_OF_SCOPE"}
  ELSE {Handled(s)} \cup (IF s \in Guarded THEN {"POLICY_DENIED"} ELSE {})

After(s) == (world \ Info[s].kills) \cup Info[s].makes

(* The route is walked before the cage is asked.                           *)
Attempt(s, code) ==
  /\ code \in Outcomes(s)
  /\ fsm' = IF code = "OUT_OF_SCOPE" THEN fsm ELSE Info[s].state
  /\ world' = IF code = "OK" THEN After(s) ELSE world
  /\ applied' = IF code = "OK" THEN [applied EXCEPT ![s] = @ + 1] ELSE applied
  /\ board' = IF code = "OK" THEN board \cup Info[s].makes \cup Info[s].edits
              ELSE board

-----------------------------------------------------------------------------
(* Ways out of the tier.                                                   *)

End(state, path, completed, reason) ==
  /\ tier' = "over"
  /\ fsm' = IF CanTransit(fsm, state) THEN state ELSE fsm
  /\ ending' = [path |-> path, completed |-> completed, reason |-> reason]

Asks(completed, reason) == End("ASK_USER", "plan", completed, reason)

HandBack(spent) ==
  /\ tier' = "interleaved" /\ turns' = spent
  /\ ending' = [path |-> "interleaved", completed |-> TRUE, reason |-> None]
  /\ UNCHANGED fsm

Escalate(steps, refusal, reason) ==
  /\ tier' = "crew"
  /\ handed' = [steps |-> steps, refusal |-> refusal, turns |-> turns']
  /\ ending' = [path |-> "crew", completed |-> TRUE, reason |-> reason]
  /\ UNCHANGED fsm

(* Mutant: the whole plan is handed over.                                  *)
WholePlan(steps) == steps
(* Only the un-executed remainder is handed over.                          *)
Remaining(steps) == Kept(steps, Steps \ Executed)

-----------------------------------------------------------------------------
(* Planning.                                                               *)

Unsupported ==
  /\ tier = "ask" /\ lever.plan
  /\ HandBack(0)
  /\ UNCHANGED <<planVars, world>>

MayAskAgain(p) ==
  lever.replan_on_drop /\ p.dropped /\ ~p.refusal /\ lever.max_replans > 0

AskPlan ==
  /\ tier = "ask" /\ lever.plan
  /\ turns' = 1
  /\ \E r \in Replies :
       \/ Clarifies(r) /\ Asks(TRUE, "clarify") /\ UNCHANGED plan
       \/ /\ ~Clarifies(r) /\ plan' = Compile(r)
          /\ tier' = IF MayAskAgain(plan') THEN "ask_again" ELSE "settle"
          /\ UNCHANGED <<fsm, ending>>
  /\ UNCHANGED <<lever, at, replans, rounds, approved, failure, premise,
                 applied, board, patched, handed, world>>

(* One replan that names what was dropped; it is adopted only if at least  *)
(* as much of it compiles, and it is spent either way.                     *)
AskAgain ==
  /\ tier = "ask_again"
  /\ turns' = turns + 1 /\ replans' = 1
  /\ \E r \in Replies :
       \/ Clarifies(r) /\ Asks(TRUE, "clarify") /\ UNCHANGED plan
       \/ /\ ~Clarifies(r) /\ tier' = "settle"
          /\ plan' = LET retry == Compile(r)
                     IN  IF retry.steps # <<>> /\ Len(retry.steps) >= Len(plan.steps)
                           THEN retry ELSE plan
          /\ UNCHANGED <<fsm, ending>>
  /\ UNCHANGED <<lever, at, rounds, approved, failure, premise, applied,
                 board, patched, handed, world>>

(* Mutant: a partial plan the planner partly refused goes to the crew.     *)
DroppedOrRefused == plan.dropped /\ lever.crew
(* Mutant: the replan is taken to have restored every step.                *)
DroppedAtFirst == plan.dropped /\ ~plan.refusal /\ lever.crew /\ replans = 0
StillDropped == plan.dropped /\ ~plan.refusal /\ lever.crew
SpansDomains ==
  /\ plan.steps # <<>> /\ lever.crew /\ lever.domain_gate
  /\ Cardinality({Info[s].domain : s \in ToSet(plan.steps)})
       >= Max({1, lever.min_domains})

Settle ==
  /\ tier = "settle"
  /\ \/ /\ StillDropped /\ UNCHANGED <<turns, approved>>
        /\ Escalate(plan.steps, plan.refusal, "compile_drop")
     \/ /\ ~StillDropped /\ SpansDomains /\ UNCHANGED <<turns, approved>>
        /\ Escalate(plan.steps, plan.refusal, "domain_gate")
     \/ /\ ~StillDropped /\ ~SpansDomains /\ plan.steps = <<>>
        /\ IF plan.refusal \/ ~lever.fallback
             THEN End("DONE", "plan", TRUE, IF plan.refusal THEN None ELSE "empty_plan")
                  /\ UNCHANGED turns
             ELSE HandBack(0)
        /\ UNCHANGED <<handed, approved>>
     \/ /\ ~StillDropped /\ ~SpansDomains /\ plan.steps # <<>>
        /\ tier' = "execute"
        /\ approved' = UNION {Intended(s) : s \in ToSet(plan.steps)}
        /\ UNCHANGED <<turns, handed, fsm, ending>>
  /\ at' = 1
  /\ UNCHANGED <<lever, plan, replans, rounds, failure, premise, applied,
                 board, patched, world>>

-----------------------------------------------------------------------------
(* Execution.                                                              *)

Current == plan.steps[at]

(* Mutant: the executed step stays the current one.                        *)
StayOnExecuted ==
  /\ tier \in {"execute", "patch"} /\ at <= Len(plan.steps)
  /\ Current \in Executed
  /\ UNCHANGED planTierVars
(* A replan re-proposes what already ran: a no-op.                         *)
SkipExecuted ==
  /\ tier \in {"execute", "patch"} /\ at <= Len(plan.steps)
  /\ Current \in Executed
  /\ at' = at + 1
  /\ UNCHANGED <<lever, plan, replans, rounds, approved, failure, premise,
                 applied, board, patched, handed, sharedVars>>

(* What the referenced ids of the failed step protect: those nobody        *)
(* planned to create and the world does not know.                          *)
Premise(s, code) ==
  IF lever.may_create_referenced \/ code # "NOT_FOUND" THEN {}
  ELSE Info[s].needs \ (Intended(s) \cup approved \cup world)

(* POLICY_DENIED is one of the codes a step may fail with.                 *)
Execute ==
  /\ tier = "execute" /\ at <= Len(plan.steps) /\ Current \notin Executed
  /\ \E code \in Outcomes(Current) :
       /\ Attempt(Current, code)
       /\ IF code = "OK"
            THEN at' = at + 1 /\ UNCHANGED <<tier, failure, premise>>
            ELSE /\ tier' = "failed" /\ UNCHANGED at
                 /\ failure' = [step |-> Current, code |-> code]
                 /\ premise' = Premise(Current, code)
  /\ UNCHANGED <<lever, plan, replans, rounds, approved, patched, handed,
                 turns, ending>>

(* A refusal of the cage ends the run: no replan and no second tier.       *)
Denied == failure.code = "POLICY_DENIED"
DenialEnds ==
  /\ tier = "failed" /\ Denied
  /\ End("DONE", "plan", FALSE, "policy_denied")
  /\ UNCHANGED <<planVars, world, turns>>

GiveUp(reason) ==
  IF lever.crew
    THEN Escalate(Remaining(plan.steps), plan.refusal, reason)
    ELSE End("DONE", "plan", FALSE, reason) /\ UNCHANGED handed

OutOfReplans ==
  /\ tier = "failed" /\ ~Denied /\ replans >= lever.max_replans
  /\ UNCHANGED turns
  /\ GiveUp("plan_step_failed")
  /\ UNCHANGED <<lever, plan, at, replans, rounds, approved, failure, premise,
                 applied, board, patched, world>>

Manufactures(s) == Intended(s) \cap premise # {}

(* The replan's dropped steps and its refusal are not looked at.           *)
Replan ==
  /\ tier = "failed" /\ ~Denied /\ replans < lever.max_replans
  /\ turns' = turns + 1 /\ replans' = replans + 1
  /\ \E r \in Replies :
       LET recovery == Compile(r).steps
           blocked == \E s \in ToSet(recovery) : Manufactures(s)
       IN  \/ /\ Clarifies(r) /\ r.steps = <<>>
              /\ Asks(FALSE, "replan_clarify") /\ UNCHANGED <<plan, at, handed>>
           \/ /\ ~(Clarifies(r) /\ r.steps = <<>>) /\ recovery = <<>>
              /\ GiveUp("replan_empty") /\ UNCHANGED <<plan, at>>
           \/ /\ recovery # <<>> /\ blocked
              /\ End("DONE", "plan", FALSE, "replan_cascade_blocked")
              /\ UNCHANGED <<plan, at, handed>>
           \/ /\ recovery # <<>> /\ ~blocked
              /\ plan' = [plan EXCEPT !.steps = recovery, !.short = Compile(r).short]
              /\ at' = 1 /\ tier' = "execute" /\ UNCHANGED <<fsm, ending, handed>>
  /\ UNCHANGED <<lever, rounds, approved, failure, premise, applied, board,
                 patched, world>>

ExecutedAll ==
  /\ tier = "execute" /\ at > Len(plan.steps)
  /\ IF lever.verify_rounds > 0 /\ board # {}
       THEN tier' = "verify" /\ UNCHANGED <<fsm, ending>>
       ELSE End("DONE", "plan", TRUE, None)
  /\ UNCHANGED <<planVars, world, turns>>

-----------------------------------------------------------------------------
(* Verification.                                                           *)

SafePatch(r) == Kept(Compile(r).steps, Steps \ Destructive)

Verify ==
  /\ tier = "verify"
  /\ IF rounds >= lever.verify_rounds \/ turns >= MaxTurns
       THEN End("DONE", "plan", TRUE, None) /\ UNCHANGED <<turns, rounds, plan, at, patched>>
       ELSE /\ turns' = turns + 1 /\ rounds' = rounds + 1
            /\ \E r \in Replies :
                 LET safe == SafePatch(r)
                 IN  IF safe = <<>>
                       THEN End("DONE", "plan", TRUE, None) /\ UNCHANGED <<plan, at, patched>>
                       ELSE /\ plan' = [plan EXCEPT !.steps = safe, !.short = Compile(r).short]
                            /\ at' = 1 /\ patched' = 0 /\ tier' = "patch"
                            /\ UNCHANGED <<fsm, ending>>
  /\ UNCHANGED <<lever, replans, approved, failure, premise, applied, board,
                 handed, world>>

(* A patch goes on after a failing step.                                   *)
Patch ==
  /\ tier = "patch" /\ at <= Len(plan.steps) /\ Current \notin Executed
  /\ \E code \in Outcomes(Current) :
       /\ Attempt(Current, code)
       /\ patched' = IF code = "OK" THEN patched + 1 ELSE patched
  /\ at' = at + 1
  /\ UNCHANGED <<lever, plan, replans, rounds, approved, failure, premise,
                 handed, tier, turns, ending>>

Patched ==
  /\ tier = "patch" /\ at > Len(plan.steps)
  /\ IF patched = 0 THEN End("DONE", "plan", TRUE, None)
     ELSE tier' = "verify" /\ UNCHANGED <<fsm, ending>>
  /\ UNCHANGED <<planVars, world, turns>>

-----------------------------------------------------------------------------
PlanInit ==
  /\ lever \in Levers /\ world = Existing
  /\ fsm = INITIAL_STATE
  /\ tier = "ask" /\ turns = 0
  /\ plan = [steps |-> <<>>, dropped |-> FALSE, refusal |-> FALSE, short |-> FALSE]
  /\ at = 1 /\ replans = 0 /\ rounds = 0
  /\ approved = {} /\ premise = {} /\ failure = [step |-> None, code |-> "OK"]
  /\ applied = [s \in Steps |-> 0] /\ board = {} /\ patched = 0
  /\ ending = [path |-> None, completed |-> TRUE, reason |-> None]
  /\ handed = [steps |-> <<>>, refusal |-> FALSE, turns |-> 0]

PlanNext ==
  \/ Unsupported \/ AskPlan \/ AskAgain \/ Settle
  \/ SkipExecuted \/ Execute \/ DenialEnds \/ OutOfReplans
  \/ Replan \/ ExecutedAll
  \/ Verify \/ Patch \/ Patched
=============================================================================
