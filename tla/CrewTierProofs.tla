--------------------------- MODULE CrewTierProofs ---------------------------
(***************************************************************************)
(* Proofs about the plan tier and the crew: for every set of steps and     *)
(* replies, every world, every setting of the levers and every turn        *)
(* budget, a step is applied once, the answers that end a request stand,   *)
(* the crew gets exactly what is left, calls stay within their budget and  *)
(* no first plan is executed shortened.                                    *)
(***************************************************************************)
EXTENDS CrewTier, SelectingProofs

(* Hypothesis of CallsHold: a plan's request and its replans leave a turn  *)
(* budget for the crew (max_turns is 12, max_replans 2, in every shipped   *)
(* configuration).                                                         *)
ReplansFitTurns == \A l \in Levers : l.max_replans < MaxTurns

-----------------------------------------------------------------------------
(* The inductive invariant.                                                *)

Planning == {"ask", "ask_again", "settle"}
Executing == {"execute", "failed", "verify", "patch"}
Asking == {"clarify", "replan_clarify"}

Plans == [steps : Seq(Steps), dropped : BOOLEAN, refusal : BOOLEAN, short : BOOLEAN]

Typed ==
  /\ lever \in Levers
  /\ tier \in Planning \cup Executing \cup {"crew", "interleaved", "over"}
  /\ fsm \in STATES
  /\ plan \in Plans
  /\ at \in Nat \ {0}
  /\ turns \in Nat /\ replans \in Nat /\ rounds \in Nat /\ budget \in Nat
  /\ applied \in [Steps -> 0 .. 1]
  /\ handed \in [steps : Seq(Steps), refusal : BOOLEAN, turns : Nat]

(* Before the execution nothing has happened; the state machine stands on  *)
(* ASK_USER or DONE only when the run is over, on ASK_USER when it asks.   *)
Control ==
  /\ tier \in Planning =>
       /\ fsm = INITIAL_STATE /\ world = Existing
       /\ applied = [s \in Steps |-> 0]
  /\ tier \in Planning \cup Executing =>
       ending.path = None /\ ending.reason = None
  /\ tier = "crew" => ending.path = "crew" /\ ending.reason \notin Asking
  /\ tier = "interleaved" => ending.path = "interleaved" /\ ending.reason = None
  /\ tier # "over" => fsm \notin {"ASK_USER", "DONE"}
  /\ tier = "over" => (fsm = "ASK_USER" <=> ending.reason \in Asking)

(* A refusal without steps goes from its settling to the end.              *)
Answers ==
  /\ plan.refusal /\ plan.steps = <<>> => world = Existing /\ tier \in {"settle", "over"}
  /\ tier \in {"ask", "ask_again"} => ~plan.refusal
  /\ tier \in Executing => plan.steps # <<>>
  /\ ending.reason = "clarify" => world = Existing /\ tier = "over"
  /\ Denied => tier \in {"failed", "over"} /\ ending.path # "crew"

(* A plan that is executed is whole, or a step has failed before, or a     *)
(* verification was asked. Until it is settled the plan in hand is short   *)
(* exactly if its drops are on record.                                     *)
WholeInHand ==
  lever.crew => ~plan.short \/ plan.refusal \/ failure.code # "OK" \/ rounds # 0
Whole ==
  /\ tier \in Planning => plan.short = plan.dropped
  /\ tier = "failed" => failure.code # "OK"
  /\ FirstPlanNotShortened

Spent ==
  /\ replans <= lever.max_replans /\ rounds <= lever.verify_rounds
  /\ tier = "ask" => turns = 0 /\ replans = 0
  /\ tier = "ask_again" => replans = 0 /\ lever.max_replans > 0
  /\ tier \in Planning \cup {"execute", "failed"} => rounds = 0
  /\ ending.path # "crew" => turns <= 1 + replans + rounds
  /\ tier = "crew" /\ stage = "idle" =>
       turns = handed.turns /\ turns <= 1 + replans
  /\ stage = "idle" /\ tier \notin {"over", "interleaved"} => budget = MaxTurns

WithinBudget == ending.path = "crew" => turns <= budget

(* The crew's lists are those of the plan that was handed over.            *)
IsSubtask(t) ==
  t = [state |-> t.state, atomics |-> t.atomics, worklist |-> t.worklist,
       turns_used |-> t.turns_used, successful |-> t.successful]
Lists(assigned, steps) ==
  /\ assigned \in Seq({assigned[k] : k \in DOMAIN assigned})
  /\ \A k \in DOMAIN assigned :
       /\ IsSubtask(assigned[k])
       /\ assigned[k].state \in STATES \ {"ASK_USER", "DONE"}
       /\ \A i \in DOMAIN assigned[k].worklist :
            /\ assigned[k].worklist[i] \in ToSet(steps)
            /\ assigned[k].state = Info[assigned[k].worklist[i]].state
            /\ Info[assigned[k].worklist[i]].tool \in assigned[k].atomics
  /\ \A s \in ToSet(steps) : \E k \in DOMAIN assigned :
       /\ s \in ToSet(assigned[k].worklist)
       /\ \A j \in DOMAIN assigned : s \in ToSet(assigned[j].worklist) => j = k

Handover ==
  /\ ToSet(handed.steps) \cap Executed = {}
  /\ tier \in Planning \cup Executing => handed.steps = <<>> /\ handed.turns = 0
  /\ stage # "idle" =>
       /\ tier = "crew" /\ specialist \in DOMAIN subtasks
       /\ Lists(subtasks, handed.steps)
       /\ Primary \/ retry \in Seq(DOMAIN subtasks)
  /\ stage = "idle" /\ tier \notin {"over", "interleaved"} => Primary

TiersInv == Typed /\ Control /\ Answers /\ Whole /\ Spent /\ Handover

-----------------------------------------------------------------------------
(* Facts about the operators.                                              *)

LEMMA WorkingStates ==
  \A s \in STATES \ {"ASK_USER", "DONE"} : CanTransit(s, "DONE") /\ CanTransit(s, "ASK_USER")
BY DEF CanTransit, NextStates, CoreNext, STATES, CoreStates, ExtraStates, Finishing,
       IsTerminal

LEMMA InitialState == INITIAL_STATE \in STATES \ {"ASK_USER", "DONE"}
BY DEF INITIAL_STATE, STATES, CoreStates

(* The plan tier is left with the plan as it stands.                       *)
LEMMA WholeLeft ==
  ASSUME TiersInv, UNCHANGED <<lever, plan, failure, applied, rounds>>,
         tier' \in {"crew", "interleaved", "over"},
         tier' = "over" => ending'.path = "crew" \/ ending'.reason = "clarify"
  PROVE  Whole'
<1>1. Executed' = Executed
  BY DEF Executed
<1> QED BY <1>1 DEF TiersInv, Whole, FirstPlanNotShortened, Planning

(* A plan that is whole, or a recovery, may be executed and ended.         *)
LEMMA WholeExecuted ==
  ASSUME WholeInHand', tier' \notin Planning, tier' = "failed" => failure'.code # "OK"
  PROVE  Whole'
BY DEF WholeInHand, Whole, FirstPlanNotShortened

LEMMA Compiled ==
  ASSUME NEW r \in Replies
  PROVE  Compile(r) \in Plans /\ Compile(r).short = Compile(r).dropped
<1>1. r.steps \in Seq(Steps \cup {Bad}) /\ r.refusal \in BOOLEAN
  BY StepsAssumption DEF Replies
<1>2. Kept(r.steps, Steps) \in Seq(Steps)
  BY <1>1, KeptSelects
<1>3. (Bad \in ToSet(r.steps)) \in BOOLEAN
  OBVIOUS
<1> QED BY <1>1, <1>2, <1>3 DEF Compile, Plans

LEMMA KeptOfSteps ==
  ASSUME NEW steps \in Seq(Steps), NEW keep \in SUBSET Steps
  PROVE  /\ Kept(steps, keep) \in Seq(Steps)
         /\ ToSet(Kept(steps, keep)) \subseteq keep
<1>1. Kept(steps, keep) \in Seq(Steps) /\ Kept(steps, keep) \in Seq(keep)
  BY KeptSelects
<1>2. \A k \in DOMAIN Kept(steps, keep) : Kept(steps, keep)[k] \in keep
  BY <1>1, ElementOfSeq
<1> QED BY <1>1, <1>2 DEF ToSet

LEMMA PatchOfSteps ==
  ASSUME NEW r \in Replies
  PROVE  SafePatch(r) \in Seq(Steps)
<1>1. Compile(r).steps \in Seq(Steps)
  BY Compiled DEF Plans
<1>2. Steps \ Destructive \in SUBSET Steps
  OBVIOUS
<1> QED BY <1>1, <1>2, KeptOfSteps DEF SafePatch

LEMMA MaxOfTwo ==
  ASSUME NEW a \in Nat, NEW b \in Nat
  PROVE  Max({a, b}) \in Nat /\ Max({a, b}) >= a /\ Max({a, b}) >= b
BY DEF Max

LEMMA Budgeted ==
  ASSUME Typed
  PROVE  TurnBudget \in Nat /\ TurnBudget >= MaxTurns
         /\ (handed.steps # <<>> => TurnBudget >= handed.turns)
<1> DEFINE n == Len(handed.steps)
           more == (3 * n + 1) \div 2
<1>1. n \in Nat /\ handed.turns \in Nat /\ MaxTurns \in Nat
  BY StepsAssumption DEF Typed
<1>2. more \in Nat
  <2>1. \A m \in Nat : m \div 2 \in Nat
    OBVIOUS
  <2>2. 3 * n + 1 \in Nat
    <3> HIDE DEF n
    <3> QED BY <1>1
  <2> QED BY <2>1, <2>2
<1>3. TurnBudget = IF handed.steps = <<>> THEN MaxTurns ELSE Max({MaxTurns, handed.turns + more})
  BY DEF TurnBudget
<1> HIDE DEF more
<1>4. handed.turns + more \in Nat /\ handed.turns + more >= handed.turns
  BY <1>1, <1>2
<1>5. /\ Max({MaxTurns, handed.turns + more}) \in Nat
      /\ Max({MaxTurns, handed.turns + more}) >= MaxTurns
      /\ Max({MaxTurns, handed.turns + more}) >= handed.turns + more
  BY <1>1, <1>4, MaxOfTwo
<1> QED BY <1>1, <1>2, <1>3, <1>4, <1>5

LEMMA EndsDone ==
  ASSUME fsm \in STATES \ {"ASK_USER", "DONE"}, NEW path, NEW completed, NEW reason,
         End("DONE", path, completed, reason)
  PROVE  /\ tier' = "over" /\ fsm' = "DONE" /\ fsm' \in STATES
         /\ ending' = [path |-> path, completed |-> completed, reason |-> reason]
BY WorkingStates DEF End, STATES, CoreStates

LEMMA EndsAsking ==
  ASSUME fsm \in STATES \ {"ASK_USER", "DONE"}, NEW completed, NEW reason,
         Asks(completed, reason)
  PROVE  /\ tier' = "over" /\ fsm' = "ASK_USER" /\ fsm' \in STATES
         /\ ending' = [path |-> "plan", completed |-> completed, reason |-> reason]
BY WorkingStates DEF Asks, End, STATES, CoreStates

(* The crew is not at work while the plan tier is.                         *)
LEMMA CrewIdle ==
  ASSUME TiersInv, tier \in Planning \cup Executing
  PROVE  /\ stage = "idle" /\ fsm \in STATES \ {"ASK_USER", "DONE"}
         /\ handed.steps = <<>> /\ handed.turns = 0
BY DEF TiersInv, Handover, Control, Typed, Planning, Executing

-----------------------------------------------------------------------------
(* Planning.                                                               *)

LEMMA UnsupportedKeeps ==
  ASSUME TiersInv, Unsupported, UNCHANGED crewVars
  PROVE  TiersInv'
<1>1. /\ tier = "ask" /\ tier' = "interleaved" /\ turns' = 0
      /\ ending' = [path |-> "interleaved", completed |-> TRUE, reason |-> None]
      /\ UNCHANGED <<planVars, world, fsm, crewVars>>
  BY DEF Unsupported, HandBack
<1>2. stage = "idle" /\ fsm \in STATES \ {"ASK_USER", "DONE"}
  BY <1>1, CrewIdle DEF Planning
<1>3. Typed'
  BY <1>1 DEF TiersInv, Typed, planVars, crewVars
<1>4. Control'
  BY <1>1, <1>2 DEF Control, Planning, Executing
<1>5. Answers'
  BY <1>1 DEF TiersInv, Answers, Denied, planVars, None, Executing
<1>6. Whole'
  BY <1>1, WholeLeft DEF planVars
<1>7. Spent'
  BY <1>1 DEF TiersInv, Spent, Typed, planVars, crewVars, Planning
<1>8. Handover'
  BY <1>1, <1>2 DEF TiersInv, Handover, Executed, Primary, Planning, Executing, planVars, crewVars
<1> QED BY <1>3, <1>4, <1>5, <1>6, <1>7, <1>8 DEF TiersInv

(* A run that ends by asking before anything was executed.                 *)
LEMMA ClarifyKeeps ==
  ASSUME TiersInv, tier \in {"ask", "ask_again"}, Asks(TRUE, "clarify"),
         UNCHANGED <<lever, plan, at, rounds, approved, failure, premise, applied,
                     board, patched, handed, world, crewVars>>,
         turns' \in Nat, replans' \in Nat, replans' <= lever.max_replans,
         turns' <= 1 + replans'
  PROVE  TiersInv'
<1>1. stage = "idle" /\ fsm \in STATES \ {"ASK_USER", "DONE"}
  BY CrewIdle DEF Planning
<1>2. /\ tier' = "over" /\ fsm' = "ASK_USER" /\ fsm' \in STATES
      /\ ending' = [path |-> "plan", completed |-> TRUE, reason |-> "clarify"]
  BY <1>1, EndsAsking
<1>3. Typed'
  BY <1>2 DEF TiersInv, Typed, crewVars
<1>4. Control'
  BY <1>2 DEF Control, Planning, Executing, Asking
<1>5. Answers'
  BY <1>2 DEF TiersInv, Control, Answers, Denied, Planning, Executing
<1>6. Whole'
  BY <1>2, WholeLeft
<1>7. Spent'
  <2>1. rounds = 0 /\ rounds <= lever.verify_rounds
    BY DEF TiersInv, Spent, Planning
  <2>2. lever' = lever /\ rounds' = 0 /\ replans' \in Nat
    BY <2>1
  <2>3. turns' <= 1 + replans' + rounds'
    <3>1. \A t, k \in Nat : t <= 1 + k => t <= 1 + k + 0
      OBVIOUS
    <3> QED BY <2>2, <3>1
  <2> QED BY <1>2, <2>1, <2>2, <2>3 DEF Spent
<1>8. Handover'
  BY <1>1, <1>2 DEF TiersInv, Handover, Executed, Primary, Planning, Executing, crewVars
<1> QED BY <1>3, <1>4, <1>5, <1>6, <1>7, <1>8 DEF TiersInv

(* A reply is compiled and is to be settled, or asked for once more.       *)
LEMMA RepliedKeeps ==
  ASSUME TiersInv, tier \in {"ask", "ask_again"}, tier' \in {"ask_again", "settle"},
         UNCHANGED <<lever, at, rounds, approved, failure, premise, applied,
                     board, patched, handed, world, crewVars, fsm, ending>>,
         plan' \in Plans, plan'.short = plan'.dropped, tier' = "ask_again" => MayAskAgain(plan') /\ replans' = 0,
         turns' \in Nat, replans' \in Nat, replans' <= lever.max_replans,
         turns' <= 1 + replans'
  PROVE  TiersInv'
<1>1. stage = "idle" /\ fsm \in STATES \ {"ASK_USER", "DONE"}
  BY CrewIdle DEF Planning
<1>2. lever.max_replans \in Nat
  BY LeversAssumption DEF TiersInv, Typed
<1>3. Typed'
  BY DEF TiersInv, Typed, crewVars, Planning
<1>4. Control'
  BY <1>1 DEF TiersInv, Control, Planning, Executing
<1>5. Answers'
  BY DEF TiersInv, Control, Answers, Denied, Planning, Executing, Asking, MayAskAgain, None
<1>6. Whole'
  <2>1. applied' = [s \in Steps |-> 0] /\ Executed' = {}
    BY DEF TiersInv, Control, Planning, Executed
  <2> QED BY <2>1 DEF Whole, FirstPlanNotShortened, Planning
<1>7. Spent'
  <2>1. rounds = 0 /\ rounds <= lever.verify_rounds
    BY DEF TiersInv, Spent, Planning
  <2>2. lever' = lever /\ rounds' = 0 /\ replans' \in Nat
    BY <2>1
  <2>3. turns' <= 1 + replans' + rounds'
    <3>1. \A t, k \in Nat : t <= 1 + k => t <= 1 + k + 0
      OBVIOUS
    <3> QED BY <2>2, <3>1
  <2>4. budget' = MaxTurns
    BY <1>1 DEF TiersInv, Spent, crewVars
  <2> QED BY <1>2, <2>1, <2>2, <2>3, <2>4 DEF Spent, MayAskAgain
<1>8. Handover'
  BY <1>1 DEF TiersInv, Handover, Executed, Primary, Planning, Executing, crewVars
<1> QED BY <1>3, <1>4, <1>5, <1>6, <1>7, <1>8 DEF TiersInv

LEMMA AskPlanKeeps ==
  ASSUME TiersInv, AskPlan, UNCHANGED crewVars
  PROVE  TiersInv'
<1>1. PICK r \in Replies :
         \/ Clarifies(r) /\ Asks(TRUE, "clarify") /\ UNCHANGED plan
         \/ /\ ~Clarifies(r) /\ plan' = Compile(r)
            /\ tier' = IF MayAskAgain(plan') THEN "ask_again" ELSE "settle"
            /\ UNCHANGED <<fsm, ending>>
  BY DEF AskPlan
<1>2. /\ tier = "ask" /\ turns' = 1
      /\ UNCHANGED <<lever, at, replans, rounds, approved, failure, premise,
                     applied, board, patched, handed, world>>
  BY DEF AskPlan
<1>3. /\ replans' = 0 /\ replans' <= lever.max_replans /\ turns' \in Nat
      /\ replans' \in Nat /\ turns' <= 1 + replans'
  BY <1>2 DEF TiersInv, Spent
<1>4. CASE Clarifies(r) /\ Asks(TRUE, "clarify") /\ UNCHANGED plan
  BY <1>2, <1>3, <1>4, ClarifyKeeps
<1>5. CASE /\ plan' = Compile(r)
           /\ tier' = IF MayAskAgain(plan') THEN "ask_again" ELSE "settle"
           /\ UNCHANGED <<fsm, ending>>
  BY <1>2, <1>3, <1>5, Compiled, RepliedKeeps
<1> QED BY <1>1, <1>4, <1>5

LEMMA AskAgainKeeps ==
  ASSUME TiersInv, AskAgain, UNCHANGED crewVars
  PROVE  TiersInv'
<1>1. PICK r \in Replies :
         \/ Clarifies(r) /\ Asks(TRUE, "clarify") /\ UNCHANGED plan
         \/ /\ ~Clarifies(r) /\ tier' = "settle"
            /\ plan' \in {Compile(r), plan}
            /\ UNCHANGED <<fsm, ending>>
  BY DEF AskAgain
<1>2. /\ tier = "ask_again" /\ turns' = turns + 1 /\ replans' = 1
      /\ UNCHANGED <<lever, at, rounds, approved, failure, premise,
                     applied, board, patched, handed, world>>
  BY DEF AskAgain
<1>3. lever.max_replans \in Nat
  BY LeversAssumption DEF TiersInv, Typed
<1>4. ending.path = None /\ plan \in Plans /\ turns \in Nat
  BY <1>2 DEF TiersInv, Control, Typed, Planning
<1>5. turns <= 1 + replans + rounds /\ rounds = 0 /\ replans = 0 /\ lever.max_replans > 0
  BY <1>2, <1>4 DEF TiersInv, Spent, None, Planning
<1>6. /\ replans' <= lever.max_replans /\ turns' \in Nat
      /\ replans' \in Nat /\ turns' <= 1 + replans'
  BY <1>2, <1>3, <1>4, <1>5
<1>7. CASE Clarifies(r) /\ Asks(TRUE, "clarify") /\ UNCHANGED plan
  BY <1>2, <1>6, <1>7, ClarifyKeeps
<1>8. CASE tier' = "settle" /\ plan' \in {Compile(r), plan} /\ UNCHANGED <<fsm, ending>>
  <2>1. plan' \in Plans /\ plan'.short = plan'.dropped
    BY <1>2, <1>4, <1>8, Compiled DEF TiersInv, Whole, Planning
  <2> QED BY <1>2, <1>6, <1>8, <2>1, RepliedKeeps
<1> QED BY <1>1, <1>7, <1>8

-----------------------------------------------------------------------------
(* Ways out of the plan tier.                                              *)

LEMMA DoneKeeps ==
  ASSUME TiersInv, tier \in Planning \cup Executing,
         NEW completed \in BOOLEAN, NEW reason, reason \notin Asking,
         End("DONE", "plan", completed, reason),
         WholeInHand',
         plan.refusal /\ plan.steps = <<>> => tier \in Planning,
         UNCHANGED <<lever, plan, failure, applied, handed, world, crewVars>>,
         at' \in Nat \ {0}, turns' \in Nat, replans' \in Nat, rounds' \in Nat,
         replans' <= lever.max_replans, rounds' <= lever.verify_rounds,
         turns' <= 1 + replans' + rounds'
  PROVE  TiersInv'
<1>1. stage = "idle" /\ fsm \in STATES \ {"ASK_USER", "DONE"}
  BY CrewIdle
<1>2. /\ tier' = "over" /\ fsm' = "DONE" /\ fsm' \in STATES
      /\ ending' = [path |-> "plan", completed |-> completed, reason |-> reason]
  BY <1>1, EndsDone
<1>3. Typed'
  BY <1>2 DEF TiersInv, Typed, crewVars
<1>4. Control'
  BY <1>2 DEF Control, Planning, Executing
<1>5. Answers'
  BY <1>2 DEF TiersInv, Control, Answers, Denied, Planning, Executing, Asking
<1>6. Whole'
  BY <1>2, WholeExecuted DEF Planning
<1>7. Spent'
  <2>1. lever' = lever
    OBVIOUS
  <2> QED BY <1>2, <2>1 DEF Spent, Planning
<1>8. Handover'
  BY <1>1, <1>2 DEF TiersInv, Handover, Executed, Primary, Planning, Executing, crewVars
<1> QED BY <1>3, <1>4, <1>5, <1>6, <1>7, <1>8 DEF TiersInv

LEMMA EscalateKeeps ==
  ASSUME TiersInv, tier \in Planning \cup Executing,
         NEW steps \in Seq(Steps), ToSet(steps) \cap Executed = {},
         NEW reason, reason \notin Asking, Escalate(steps, plan.refusal, reason),
         ~Denied, ~(plan.refusal /\ plan.steps = <<>>), rounds = 0,
         UNCHANGED <<lever, plan, rounds, failure, applied, world, crewVars>>,
         at' \in Nat \ {0}, turns' \in Nat, replans' \in Nat,
         replans' <= lever.max_replans, turns' <= 1 + replans'
  PROVE  TiersInv'
<1>1. /\ stage = "idle" /\ stage' = "idle" /\ fsm \in STATES \ {"ASK_USER", "DONE"}
      /\ budget = MaxTurns /\ budget' = MaxTurns /\ Primary /\ Primary'
  BY CrewIdle DEF TiersInv, Spent, Handover, Primary, crewVars, Planning, Executing
<1>2. /\ tier' = "crew" /\ fsm' = fsm
      /\ handed' = [steps |-> steps, refusal |-> plan.refusal, turns |-> turns']
      /\ ending' = [path |-> "crew", completed |-> TRUE, reason |-> reason]
  BY DEF Escalate
<1>3. Typed'
  BY <1>1, <1>2 DEF TiersInv, Typed, crewVars, Plans
<1>4. Control'
  BY <1>1, <1>2 DEF Control, Planning, Executing
<1>5. Answers'
  BY <1>2 DEF TiersInv, Answers, Denied, Asking, Executing
<1>6. Whole'
  BY <1>2, WholeLeft
<1>7. Spent'
  <2>1. lever' = lever /\ rounds' = 0 /\ rounds <= lever.verify_rounds
    BY DEF TiersInv, Spent
  <2> QED BY <1>1, <1>2, <2>1 DEF Spent, Planning
<1>8. Handover'
  BY <1>1, <1>2 DEF Handover, Executed, Planning, Executing
<1> QED BY <1>3, <1>4, <1>5, <1>6, <1>7, <1>8 DEF TiersInv

(* The tier goes on: another plan of the same kind, another step.          *)
LEMMA GoesOnKeeps ==
  ASSUME TiersInv, tier \in Executing \cup {"settle"}, tier' \in Executing,
         UNCHANGED <<lever, ending, handed, crewVars>>,
         fsm' \in STATES \ {"ASK_USER", "DONE"},
         plan' \in Plans, plan'.steps # <<>>,
         plan'.refusal = plan.refusal,
         WholeInHand', tier' = "failed" => failure'.code # "OK",
         Denied' => tier' = "failed",
         applied' \in [Steps -> 0 .. 1],
         at' \in Nat \ {0}, turns' \in Nat, replans' \in Nat, rounds' \in Nat,
         replans' <= lever.max_replans, rounds' <= lever.verify_rounds,
         tier' \in {"execute", "failed"} => rounds' = 0,
         turns' <= 1 + replans' + rounds'
  PROVE  TiersInv'
<1>1. /\ stage = "idle" /\ stage' = "idle" /\ handed' = handed
      /\ handed.steps = <<>> /\ handed.turns = 0
      /\ budget = MaxTurns /\ budget' = MaxTurns /\ Primary /\ Primary'
  BY CrewIdle DEF TiersInv, Spent, Handover, Primary, crewVars, Planning, Executing
<1>2. ending' = ending /\ ending.path = None /\ ending.reason = None
  BY DEF TiersInv, Control, Planning, Executing
<1>3. Typed'
  BY <1>1 DEF TiersInv, Typed, crewVars
<1>4. Control'
  BY <1>2 DEF Control, Planning, Executing
<1>5. Answers'
  BY <1>2 DEF Answers, Asking, None, Executing
<1>6. Whole'
  BY WholeExecuted DEF Planning, Executing
<1>7. Spent'
  <2>1. lever' = lever
    OBVIOUS
  <2> QED BY <1>1, <1>2, <2>1 DEF Spent, Planning, Executing
<1>8. Handover'
  BY <1>1 DEF Handover, Executed, Planning, Executing, ToSet
<1> QED BY <1>3, <1>4, <1>5, <1>6, <1>7, <1>8 DEF TiersInv

-----------------------------------------------------------------------------
(* Settling the plan.                                                      *)

LEMMA SettleKeeps ==
  ASSUME TiersInv, Settle, UNCHANGED crewVars
  PROVE  TiersInv'
<1>1. /\ tier = "settle" /\ at' = 1
      /\ UNCHANGED <<lever, plan, replans, rounds, failure, premise, applied,
                     board, patched, world>>
  BY DEF Settle
<1>2. /\ plan \in Plans /\ turns \in Nat /\ replans \in Nat /\ rounds \in Nat
      /\ applied = [s \in Steps |-> 0] /\ rounds = 0
      /\ replans <= lever.max_replans /\ rounds <= lever.verify_rounds
      /\ ending.path = None
  BY <1>1 DEF TiersInv, Typed, Control, Spent, Planning
<1>3. turns <= 1 + replans + rounds /\ turns <= 1 + replans
  <2>1. turns <= 1 + replans + rounds
    BY <1>2 DEF TiersInv, Spent, None
  <2>2. \A k \in Nat : 1 + k + 0 = 1 + k
    OBVIOUS
  <2> QED BY <1>2, <2>1, <2>2
<1>4. ~Denied /\ Executed = {}
  BY <1>1, <1>2 DEF TiersInv, Answers, Executed
<1>5. tier \in Planning \cup Executing /\ tier \in Executing \cup {"settle"}
  BY <1>1 DEF Planning
<1>6. /\ stage = "idle" /\ fsm \in STATES \ {"ASK_USER", "DONE"}
      /\ handed.steps = <<>> /\ handed.turns = 0
  BY <1>5, CrewIdle
<1>7. CASE /\ StillDropped /\ UNCHANGED <<turns, approved>>
           /\ Escalate(plan.steps, plan.refusal, "compile_drop")
  <2>1. ~(plan.refusal /\ plan.steps = <<>>) /\ plan.steps \in Seq(Steps)
    BY <1>2, <1>7 DEF StillDropped, Plans
  <2>2. "compile_drop" \notin Asking /\ ToSet(plan.steps) \cap Executed = {}
    BY <1>4 DEF Asking
  <2> QED BY <1>1, <1>2, <1>3, <1>4, <1>5, <1>7, <2>1, <2>2, EscalateKeeps
<1>8. CASE /\ SpansDomains /\ UNCHANGED <<turns, approved>>
           /\ Escalate(plan.steps, plan.refusal, "domain_gate")
  <2>1. ~(plan.refusal /\ plan.steps = <<>>) /\ plan.steps \in Seq(Steps)
    BY <1>2, <1>8 DEF SpansDomains, Plans
  <2>2. "domain_gate" \notin Asking /\ ToSet(plan.steps) \cap Executed = {}
    BY <1>4 DEF Asking
  <2> QED BY <1>1, <1>2, <1>3, <1>4, <1>5, <1>8, <2>1, <2>2, EscalateKeeps
<1>9. CASE /\ ~StillDropped /\ plan.steps = <<>> /\ UNCHANGED <<handed, approved>>
           /\ End("DONE", "plan", TRUE, IF plan.refusal THEN None ELSE "empty_plan")
           /\ UNCHANGED turns
  <2> DEFINE reason == IF plan.refusal THEN None ELSE "empty_plan"
  <2>1. reason \notin Asking
    BY DEF Asking, None
  <2>2. WholeInHand'
    BY <1>1, <1>9 DEF StillDropped, WholeInHand, TiersInv, Whole, Planning
  <2>3. End("DONE", "plan", TRUE, reason)
    BY <1>9
  <2>4. /\ at' \in Nat \ {0} /\ turns' \in Nat /\ replans' \in Nat /\ rounds' \in Nat
        /\ replans' <= lever.max_replans /\ rounds' <= lever.verify_rounds
        /\ turns' <= 1 + replans' + rounds'
    BY <1>1, <1>2, <1>3, <1>9
  <2>5. /\ plan.refusal /\ plan.steps = <<>> => tier \in Planning
        /\ UNCHANGED <<lever, plan, failure, applied, handed, world, crewVars>>
    BY <1>1, <1>9 DEF Planning
  <2> HIDE DEF reason
  <2> QED BY <1>5, <2>1, <2>2, <2>3, <2>4, <2>5, DoneKeeps
<1>10. CASE /\ ~plan.refusal /\ HandBack(0) /\ UNCHANGED <<handed, approved>>
  <2>1. /\ tier' = "interleaved" /\ turns' = 0 /\ fsm' = fsm
        /\ ending' = [path |-> "interleaved", completed |-> TRUE, reason |-> None]
    BY <1>10 DEF HandBack
  <2>2. Typed'
    BY <1>1, <1>10, <2>1 DEF TiersInv, Typed, crewVars
  <2>3. Control'
    BY <1>6, <2>1 DEF Control, Planning, Executing
  <2>4. Answers'
    BY <1>1, <1>4, <1>10, <2>1 DEF Answers, Denied, None, Executing
  <2>5. Whole'
    BY <1>1, <2>1, WholeLeft
  <2>6. Spent'
    BY <1>1, <1>2, <2>1 DEF Spent, Planning
  <2>7. Handover'
    BY <1>4, <1>6, <1>10, <2>1 DEF Handover, Executed, Planning, Executing, crewVars, ToSet
  <2> QED BY <2>2, <2>3, <2>4, <2>5, <2>6, <2>7 DEF TiersInv
<1>11. CASE /\ ~StillDropped /\ plan.steps # <<>> /\ tier' = "execute"
            /\ UNCHANGED <<turns, handed, fsm, ending>>
  <2>1. WholeInHand'
    BY <1>1, <1>11 DEF StillDropped, WholeInHand, TiersInv, Whole, Planning
  <2>2. applied' \in [Steps -> 0 .. 1] /\ Denied' = Denied /\ tier' \in Executing
    BY <1>1, <1>2, <1>11 DEF Denied, Executing
  <2>3. /\ at' \in Nat \ {0} /\ turns' \in Nat /\ replans' \in Nat /\ rounds' \in Nat
        /\ replans' <= lever.max_replans /\ rounds' <= lever.verify_rounds
        /\ turns' <= 1 + replans' + rounds'
    BY <1>1, <1>2, <1>3, <1>11
  <2>4. /\ UNCHANGED <<lever, ending, handed, crewVars>>
        /\ fsm' \in STATES \ {"ASK_USER", "DONE"}
        /\ plan' \in Plans /\ plan'.steps # <<>> /\ plan'.refusal = plan.refusal
    BY <1>1, <1>2, <1>6, <1>11
  <2>5. (Denied' => tier' = "failed") /\ (tier' \in {"execute", "failed"} => rounds' = 0)
    BY <1>1, <1>2, <1>4, <2>2
  <2> QED BY <1>5, <1>11, <2>1, <2>2, <2>3, <2>4, <2>5, GoesOnKeeps
<1>12. \/ /\ StillDropped /\ UNCHANGED <<turns, approved>>
          /\ Escalate(plan.steps, plan.refusal, "compile_drop")
       \/ /\ SpansDomains /\ UNCHANGED <<turns, approved>>
          /\ Escalate(plan.steps, plan.refusal, "domain_gate")
       \/ /\ ~StillDropped /\ plan.steps = <<>> /\ UNCHANGED <<handed, approved>>
          /\ End("DONE", "plan", TRUE, IF plan.refusal THEN None ELSE "empty_plan")
          /\ UNCHANGED turns
       \/ /\ ~plan.refusal /\ HandBack(0) /\ UNCHANGED <<handed, approved>>
       \/ /\ ~StillDropped /\ plan.steps # <<>> /\ tier' = "execute"
          /\ UNCHANGED <<turns, handed, fsm, ending>>
  BY DEF Settle
<1> QED BY <1>7, <1>8, <1>9, <1>10, <1>11, <1>12

-----------------------------------------------------------------------------
(* Execution.                                                              *)

LEMMA InHand ==
  ASSUME TiersInv, tier \in Executing
  PROVE  /\ lever \in Levers /\ lever.max_replans \in Nat /\ lever.verify_rounds \in Nat
         /\ plan \in Plans /\ at \in Nat \ {0} /\ applied \in [Steps -> 0 .. 1]
         /\ turns \in Nat /\ replans \in Nat /\ rounds \in Nat
         /\ replans <= lever.max_replans /\ rounds <= lever.verify_rounds
         /\ turns <= 1 + replans + rounds
         /\ (tier \in {"execute", "failed"} => rounds = 0 /\ turns <= 1 + replans)
         /\ fsm \in STATES \ {"ASK_USER", "DONE"}
         /\ WholeInHand
         /\ (tier = "failed" => failure.code # "OK")
         /\ plan.steps # <<>>
         /\ (Denied => tier = "failed")
<1>1. /\ lever \in Levers /\ lever.max_replans \in Nat /\ lever.verify_rounds \in Nat
      /\ plan \in Plans /\ at \in Nat \ {0} /\ applied \in [Steps -> 0 .. 1]
      /\ turns \in Nat /\ replans \in Nat /\ rounds \in Nat
  BY LeversAssumption DEF TiersInv, Typed
<1>2. ending.path = None
  BY DEF TiersInv, Control
<1>3. /\ replans <= lever.max_replans /\ rounds <= lever.verify_rounds
      /\ turns <= 1 + replans + rounds
      /\ (tier \in {"execute", "failed"} => rounds = 0)
  BY <1>2 DEF TiersInv, Spent, None
<1>4. tier \in {"execute", "failed"} => turns <= 1 + replans
  <2>1. \A t, k \in Nat : t <= 1 + k + 0 => t <= 1 + k
    OBVIOUS
  <2> QED BY <1>1, <1>3, <2>1
<1>5. /\ plan.steps # <<>>
      /\ (Denied => tier = "failed")
      /\ (tier = "failed" => failure.code # "OK")
  BY DEF TiersInv, Whole, Answers, Executing
<1>7. WholeInHand
  BY DEF TiersInv, Whole, FirstPlanNotShortened, WholeInHand, Executing
<1>6. fsm \in STATES \ {"ASK_USER", "DONE"}
  BY CrewIdle
<1> QED BY <1>1, <1>3, <1>4, <1>5, <1>6, <1>7

LEMMA CurrentIsStep ==
  ASSUME TiersInv, tier \in Executing, at <= Len(plan.steps)
  PROVE  Current \in Steps /\ plan.steps # <<>>
<1>1. plan.steps \in Seq(Steps) /\ at \in 1 .. Len(plan.steps)
  BY InHand DEF Plans
<1> QED BY <1>1 DEF Current

(* A dispatched step has not run before, so once is enough to count to.    *)
LEMMA Attempted ==
  ASSUME TiersInv, tier \in Executing, NEW s \in Steps \ Executed, NEW code, Attempt(s, code)
  PROVE  applied' \in [Steps -> 0 .. 1] /\ fsm' \in STATES \ {"ASK_USER", "DONE"}
<1>1. applied \in [Steps -> 0 .. 1] /\ fsm \in STATES \ {"ASK_USER", "DONE"}
  BY InHand
<1>2. applied[s] = 0
  BY <1>1 DEF Executed
<1>3. applied' \in [Steps -> 0 .. 1]
  BY <1>1, <1>2 DEF Attempt
<1>4. Info[s].state \in STATES \ {"ASK_USER", "DONE"}
  BY StepsAssumption
<1> QED BY <1>1, <1>3, <1>4 DEF Attempt

LEMMA SkipExecutedKeeps ==
  ASSUME TiersInv, SkipExecuted, UNCHANGED crewVars
  PROVE  TiersInv'
<1>1. /\ tier \in {"execute", "patch"} /\ tier \in Executing /\ at <= Len(plan.steps)
      /\ at' = at + 1 /\ tier' = tier
      /\ UNCHANGED <<lever, plan, replans, rounds, failure, applied, handed, fsm, turns, ending>>
  BY DEF SkipExecuted, sharedVars, Executing
<1>2. plan.steps # <<>>
  BY <1>1, CurrentIsStep
<1>3. at' \in Nat \ {0}
  BY <1>1, InHand
<1>4. ~Denied' /\ WholeInHand'
  BY <1>1, InHand DEF Denied, WholeInHand
<1> QED BY <1>1, <1>2, <1>3, <1>4, InHand, GoesOnKeeps DEF Denied

LEMMA ExecuteKeeps ==
  ASSUME TiersInv, Execute, UNCHANGED crewVars
  PROVE  TiersInv'
<1>1. /\ tier = "execute" /\ tier \in Executing /\ at <= Len(plan.steps)
      /\ Current \notin Executed
      /\ UNCHANGED <<lever, plan, replans, rounds, handed, turns, ending>>
  BY DEF Execute, Executing
<1>2. PICK code \in Outcomes(Current) :
        /\ Attempt(Current, code)
        /\ IF code = "OK"
             THEN at' = at + 1 /\ UNCHANGED <<tier, failure>>
             ELSE /\ tier' = "failed" /\ UNCHANGED at
                  /\ failure' = [step |-> Current, code |-> code]
  BY DEF Execute
<1>3. Current \in Steps \ Executed /\ plan.steps # <<>>
  BY <1>1, CurrentIsStep
<1>4. applied' \in [Steps -> 0 .. 1] /\ fsm' \in STATES \ {"ASK_USER", "DONE"}
  BY <1>1, <1>2, <1>3, Attempted
<1>5. at' \in Nat \ {0} /\ tier' \in {"execute", "failed"}
  BY <1>1, <1>2, InHand
<1>6. Denied' => tier' = "failed"
  BY <1>1, <1>2, InHand DEF Denied
<1>7. tier' \in Executing
  BY <1>5 DEF Executing
<1>8. WholeInHand' /\ (tier' = "failed" => failure'.code # "OK")
  BY <1>1, <1>2, InHand DEF WholeInHand
<1> QED BY <1>1, <1>3, <1>4, <1>5, <1>6, <1>7, <1>8, InHand, GoesOnKeeps

LEMMA DenialEndsKeeps ==
  ASSUME TiersInv, DenialEnds, UNCHANGED crewVars
  PROVE  TiersInv'
<1>1. /\ tier = "failed" /\ tier \in Executing
      /\ End("DONE", "plan", FALSE, "policy_denied")
      /\ UNCHANGED <<planVars, world, turns>>
  BY DEF DenialEnds, Executing
<1>2. "policy_denied" \notin Asking /\ FALSE \in BOOLEAN
  BY DEF Asking
<1>3. UNCHANGED <<lever, plan, at, replans, rounds, failure, applied, handed, world>>
  BY <1>1 DEF planVars
<1>4. (plan.refusal /\ plan.steps = <<>> => tier \in Planning) /\ WholeInHand'
  BY <1>1, <1>3, InHand DEF WholeInHand
<1> QED BY <1>1, <1>2, <1>3, <1>4, InHand, DoneKeeps

(* The remainder is handed over, or the run ends.                          *)
LEMMA GiveUpKeeps ==
  ASSUME TiersInv, tier = "failed", ~Denied, NEW reason, reason \notin Asking, GiveUp(reason),
         UNCHANGED <<lever, plan, at, rounds, failure, applied, world, crewVars>>,
         turns' \in Nat, replans' \in Nat, replans' <= lever.max_replans,
         turns' <= 1 + replans'
  PROVE  TiersInv'
<1>1. tier \in Executing /\ tier \in Planning \cup Executing
  BY DEF Executing
<1>2. at' \in Nat \ {0} /\ rounds' \in Nat /\ rounds' <= lever.verify_rounds /\ rounds = 0
      /\ rounds' = 0
  BY <1>1, InHand
<1>3. CASE Escalate(Remaining(plan.steps), plan.refusal, reason)
  <2>1. plan.steps \in Seq(Steps) /\ Steps \ Executed \in SUBSET Steps
    BY <1>1, InHand DEF Plans
  <2>2. /\ Remaining(plan.steps) \in Seq(Steps)
        /\ ToSet(Remaining(plan.steps)) \cap Executed = {}
    BY <2>1, KeptOfSteps DEF Remaining
  <2>3. ~(plan.refusal /\ plan.steps = <<>>)
    BY <1>1, InHand
  <2> QED BY <1>1, <1>2, <1>3, <2>2, <2>3, EscalateKeeps
<1>4. CASE ~lever.crew /\ End("DONE", "plan", FALSE, reason) /\ UNCHANGED handed
  <2>1. (plan.refusal /\ plan.steps = <<>> => tier \in Planning) /\ WholeInHand'
    BY <1>1, InHand DEF WholeInHand
  <2>2. turns' <= 1 + replans' + rounds'
    <3>1. \A t, k \in Nat : t <= 1 + k => t <= 1 + k + 0
      OBVIOUS
    <3> QED BY <1>2, <3>1
  <2> QED BY <1>1, <1>2, <1>4, <2>1, <2>2, DoneKeeps
<1> QED BY <1>3, <1>4 DEF GiveUp

LEMMA OutOfReplansKeeps ==
  ASSUME TiersInv, OutOfReplans, UNCHANGED crewVars
  PROVE  TiersInv'
<1>1. /\ tier = "failed" /\ tier \in Executing /\ ~Denied /\ GiveUp("plan_step_failed")
      /\ UNCHANGED <<lever, plan, at, replans, rounds, failure, applied, world, turns>>
  BY DEF OutOfReplans, Executing
<1>2. "plan_step_failed" \notin Asking
  BY DEF Asking
<1>3. /\ turns' \in Nat /\ replans' \in Nat /\ replans' <= lever.max_replans
      /\ turns' <= 1 + replans'
  BY <1>1, InHand
<1> QED BY <1>1, <1>2, <1>3, GiveUpKeeps

LEMMA ReplanKeeps ==
  ASSUME TiersInv, Replan, UNCHANGED crewVars
  PROVE  TiersInv'
<1>1. /\ tier = "failed" /\ tier \in Executing /\ tier \in Planning \cup Executing
      /\ ~Denied /\ replans < lever.max_replans
      /\ turns' = turns + 1 /\ replans' = replans + 1
      /\ UNCHANGED <<lever, rounds, failure, applied, world>>
  BY DEF Replan, Executing
<1>2. /\ turns' \in Nat /\ replans' \in Nat /\ replans' <= lever.max_replans
      /\ turns' <= 1 + replans' /\ turns' <= 1 + replans' + rounds'
      /\ rounds' = 0 /\ rounds' \in Nat /\ rounds' <= lever.verify_rounds
  <2>1. /\ turns \in Nat /\ replans \in Nat /\ rounds = 0 /\ turns <= 1 + replans
        /\ lever.max_replans \in Nat /\ rounds <= lever.verify_rounds
    BY <1>1, InHand
  <2>2. \A t, k, m \in Nat : /\ t <= 1 + k => t + 1 <= 1 + (k + 1) /\ t + 1 <= 1 + (k + 1) + 0
                             /\ k < m => k + 1 <= m
                             /\ t + 1 \in Nat /\ k + 1 \in Nat
    OBVIOUS
  <2> QED BY <1>1, <2>1, <2>2
<1>3. /\ stage = "idle" /\ fsm \in STATES \ {"ASK_USER", "DONE"}
      /\ at \in Nat \ {0} /\ plan \in Plans /\ applied \in [Steps -> 0 .. 1]
      /\ plan.steps # <<>>
  BY <1>1, CrewIdle, InHand
<1>4. PICK r \in Replies :
        \/ /\ Asks(FALSE, "replan_clarify") /\ UNCHANGED <<plan, at, handed>>
        \/ GiveUp("replan_empty") /\ UNCHANGED <<plan, at>>
        \/ /\ End("DONE", "plan", FALSE, "replan_cascade_blocked")
           /\ UNCHANGED <<plan, at, handed>>
        \/ /\ Compile(r).steps # <<>>
           /\ plan' = [plan EXCEPT !.steps = Compile(r).steps, !.short = Compile(r).short]
           /\ at' = 1 /\ tier' = "execute" /\ UNCHANGED <<fsm, ending, handed>>
  BY DEF Replan
<1>5. CASE Asks(FALSE, "replan_clarify") /\ UNCHANGED <<plan, at, handed>>
  <2>1. /\ tier' = "over" /\ fsm' = "ASK_USER" /\ fsm' \in STATES
        /\ ending' = [path |-> "plan", completed |-> FALSE, reason |-> "replan_clarify"]
    BY <1>3, <1>5, EndsAsking
  <2>2. Typed'
    BY <1>1, <1>2, <1>5, <2>1 DEF TiersInv, Typed, crewVars
  <2>3. Control'
    BY <2>1 DEF Control, Planning, Executing, Asking
  <2>4. Answers'
    BY <1>1, <1>3, <1>5, <2>1 DEF Answers, Denied, Executing
  <2>5. Whole'
    <3>1. failure'.code # "OK"
      BY <1>1, InHand
    <3> QED BY <2>1, <3>1, WholeExecuted DEF WholeInHand, Planning
  <2>6. Spent'
    BY <1>1, <1>2, <2>1 DEF Spent, Planning
  <2>7. Handover'
    BY <1>1, <1>3, <1>5, <2>1 DEF TiersInv, Handover, Executed, Planning, Executing, crewVars
  <2> QED BY <2>2, <2>3, <2>4, <2>5, <2>6, <2>7 DEF TiersInv
<1>6. CASE GiveUp("replan_empty") /\ UNCHANGED <<plan, at>>
  <2>1. "replan_empty" \notin Asking
    BY DEF Asking
  <2> QED BY <1>1, <1>2, <1>6, <2>1, GiveUpKeeps
<1>7. CASE End("DONE", "plan", FALSE, "replan_cascade_blocked") /\ UNCHANGED <<plan, at, handed>>
  <2>1. "replan_cascade_blocked" \notin Asking /\ FALSE \in BOOLEAN
    BY DEF Asking
  <2>2. /\ at' \in Nat \ {0} /\ (plan.refusal /\ plan.steps = <<>> => tier \in Planning)
        /\ WholeInHand'
    BY <1>1, <1>3, <1>7, InHand DEF WholeInHand
  <2> QED BY <1>1, <1>2, <1>7, <2>1, <2>2, DoneKeeps
<1>8. CASE /\ Compile(r).steps # <<>>
           /\ plan' = [plan EXCEPT !.steps = Compile(r).steps, !.short = Compile(r).short]
           /\ at' = 1 /\ tier' = "execute" /\ UNCHANGED <<fsm, ending, handed>>
  <2>1. plan' \in Plans /\ plan'.steps # <<>> /\ plan'.refusal = plan.refusal
    BY <1>3, <1>8, Compiled DEF Plans
  <2>2. ~Denied' /\ tier' \in Executing /\ at' \in Nat \ {0}
    BY <1>1, <1>8 DEF Denied, Executing
  <2>3. WholeInHand' /\ tier' # "failed"
    BY <1>1, <1>8, InHand DEF WholeInHand
  <2>4. applied' \in [Steps -> 0 .. 1] /\ fsm' \in STATES \ {"ASK_USER", "DONE"}
    BY <1>1, <1>3, <1>8
  <2> QED BY <1>1, <1>2, <1>8, <2>1, <2>2, <2>3, <2>4, GoesOnKeeps DEF Denied
<1> QED BY <1>4, <1>5, <1>6, <1>7, <1>8

(* What the end of an execution and of a verification leave alone.         *)
LEMMA CompletesKeeps ==
  ASSUME TiersInv, tier \in Executing, End("DONE", "plan", TRUE, None),
         UNCHANGED <<lever, plan, at, replans, failure, applied, handed, world, crewVars>>,
         turns' \in Nat, rounds' \in Nat, rounds' <= lever.verify_rounds,
         turns' <= 1 + replans + rounds', WholeInHand'
  PROVE  TiersInv'
<1>1. None \notin Asking /\ TRUE \in BOOLEAN /\ tier \in Planning \cup Executing
  BY DEF Asking, None
<1>2. /\ plan.refusal /\ plan.steps = <<>> => tier \in Planning
      /\ at' \in Nat \ {0} /\ replans' \in Nat /\ replans' <= lever.max_replans
      /\ turns' <= 1 + replans' + rounds'
  BY InHand
<1> QED BY <1>1, <1>2, DoneKeeps

LEMMA ExecutedAllKeeps ==
  ASSUME TiersInv, ExecutedAll, UNCHANGED crewVars
  PROVE  TiersInv'
<1>1. /\ tier = "execute" /\ tier \in Executing /\ at > Len(plan.steps)
      /\ UNCHANGED <<lever, plan, at, replans, rounds, failure, applied, handed, world, turns>>
      /\ \/ tier' = "verify" /\ UNCHANGED <<fsm, ending>>
         \/ End("DONE", "plan", TRUE, None)
  BY DEF ExecutedAll, Executing, planVars
<1>2. CASE End("DONE", "plan", TRUE, None)
  <2>1. WholeInHand'
    BY <1>1, InHand DEF WholeInHand
  <2> QED BY <1>1, <1>2, <2>1, InHand, CompletesKeeps
<1>3. CASE tier' = "verify" /\ UNCHANGED <<fsm, ending>>
  <2>1. tier' \in Executing /\ tier' \notin {"execute", "failed"}
    BY <1>3 DEF Executing
  <2>2. ~Denied' /\ WholeInHand'
    BY <1>1, InHand DEF Denied, WholeInHand
  <2> QED BY <1>1, <1>3, <2>1, <2>2, InHand, GoesOnKeeps DEF Denied
<1> QED BY <1>1, <1>2, <1>3

-----------------------------------------------------------------------------
(* Verification.                                                           *)

LEMMA VerifyKeeps ==
  ASSUME TiersInv, Verify, UNCHANGED crewVars
  PROVE  TiersInv'
<1>1. /\ tier = "verify" /\ tier \in Executing
      /\ UNCHANGED <<lever, replans, failure, applied, handed, world>>
  BY DEF Verify, Executing
<1>2. CASE End("DONE", "plan", TRUE, None) /\ UNCHANGED <<turns, rounds, plan, at>>
  <2>1. WholeInHand'
    BY <1>1, <1>2, InHand DEF WholeInHand
  <2> QED BY <1>1, <1>2, <2>1, InHand, CompletesKeeps
<1>3. CASE ~(rounds >= lever.verify_rounds \/ turns >= MaxTurns)
  <2>0. turns' = turns + 1 /\ rounds' = rounds + 1
    BY <1>3 DEF Verify
  <2>1. /\ turns' \in Nat /\ rounds' \in Nat /\ rounds' <= lever.verify_rounds
        /\ turns' <= 1 + replans + rounds' /\ rounds' # 0
    <3>1. /\ turns \in Nat /\ replans \in Nat /\ rounds \in Nat
          /\ lever.verify_rounds \in Nat /\ turns <= 1 + replans + rounds
      BY <1>1, InHand
    <3>2. \A t, k, n, m \in Nat : /\ t <= 1 + k + n => t + 1 <= 1 + k + (n + 1)
                                 /\ ~(n >= m) => n + 1 <= m
                                 /\ t + 1 \in Nat /\ n + 1 \in Nat /\ n + 1 # 0
      OBVIOUS
    <3> QED BY <1>3, <2>0, <3>1, <3>2
  <2> WholeInHand'
    BY <2>1 DEF WholeInHand
  <2>2. PICK r \in Replies :
          \/ End("DONE", "plan", TRUE, None) /\ UNCHANGED <<plan, at>>
          \/ /\ SafePatch(r) # <<>>
             /\ plan' = [plan EXCEPT !.steps = SafePatch(r), !.short = Compile(r).short]
             /\ at' = 1 /\ tier' = "patch" /\ UNCHANGED <<fsm, ending>>
    BY <1>3 DEF Verify
  <2>3. CASE End("DONE", "plan", TRUE, None) /\ UNCHANGED <<plan, at>>
    BY <1>1, <2>1, <2>3, CompletesKeeps
  <2>4. CASE /\ SafePatch(r) # <<>>
             /\ plan' = [plan EXCEPT !.steps = SafePatch(r), !.short = Compile(r).short]
             /\ at' = 1 /\ tier' = "patch" /\ UNCHANGED <<fsm, ending>>
    <3>1. plan' \in Plans /\ plan'.steps # <<>> /\ plan'.refusal = plan.refusal
      BY <1>1, <2>4, InHand, Compiled, PatchOfSteps DEF Plans
    <3>2. ~Denied' /\ tier' \in Executing /\ at' \in Nat \ {0}
          /\ tier' \notin {"execute", "failed"}
      BY <1>1, <2>4, InHand DEF Denied, Executing
    <3>3. /\ applied' \in [Steps -> 0 .. 1] /\ fsm' \in STATES \ {"ASK_USER", "DONE"}
          /\ replans' \in Nat /\ replans' <= lever.max_replans
          /\ turns' <= 1 + replans' + rounds'
      BY <1>1, <2>1, <2>4, InHand
    <3>4. UNCHANGED <<lever, ending, handed, crewVars>>
      BY <1>1, <2>4
    <3> QED BY <1>1, <2>1, <3>1, <3>2, <3>3, <3>4, GoesOnKeeps DEF Denied
  <2> QED BY <2>2, <2>3, <2>4
<1>4. CASE rounds >= lever.verify_rounds \/ turns >= MaxTurns
  <2>1. End("DONE", "plan", TRUE, None) /\ UNCHANGED <<turns, rounds, plan, at>>
    BY <1>4 DEF Verify
  <2> QED BY <1>2, <2>1
<1> QED BY <1>3, <1>4

LEMMA PatchKeeps ==
  ASSUME TiersInv, Patch, UNCHANGED crewVars
  PROVE  TiersInv'
<1>1. /\ tier = "patch" /\ tier \in Executing /\ at <= Len(plan.steps)
      /\ Current \notin Executed /\ at' = at + 1
      /\ UNCHANGED <<lever, plan, replans, rounds, failure, handed, tier, turns, ending>>
  BY DEF Patch, Executing
<1>2. PICK code \in Outcomes(Current) : Attempt(Current, code)
  BY DEF Patch
<1>3. Current \in Steps \ Executed
  BY <1>1, CurrentIsStep
<1>4. applied' \in [Steps -> 0 .. 1] /\ fsm' \in STATES \ {"ASK_USER", "DONE"}
  BY <1>1, <1>2, <1>3, Attempted
<1>5. at' \in Nat \ {0} /\ ~Denied' /\ WholeInHand'
  BY <1>1, InHand DEF Denied, WholeInHand
<1> QED BY <1>1, <1>4, <1>5, InHand, GoesOnKeeps DEF Denied

LEMMA PatchedKeeps ==
  ASSUME TiersInv, Patched, UNCHANGED crewVars
  PROVE  TiersInv'
<1>1. /\ tier = "patch" /\ tier \in Executing
      /\ UNCHANGED <<lever, plan, at, replans, rounds, failure, applied, handed, world, turns>>
      /\ \/ tier' = "verify" /\ UNCHANGED <<fsm, ending>>
         \/ End("DONE", "plan", TRUE, None)
  BY DEF Patched, Executing, planVars
<1>2. CASE End("DONE", "plan", TRUE, None)
  <2>1. WholeInHand'
    BY <1>1, InHand DEF WholeInHand
  <2> QED BY <1>1, <1>2, <2>1, InHand, CompletesKeeps
<1>3. CASE tier' = "verify" /\ UNCHANGED <<fsm, ending>>
  <2>1. tier' \in Executing /\ tier' \notin {"execute", "failed"}
    BY <1>3 DEF Executing
  <2>2. ~Denied' /\ WholeInHand'
    BY <1>1, InHand DEF Denied, WholeInHand
  <2> QED BY <1>1, <1>3, <2>1, <2>2, InHand, GoesOnKeeps DEF Denied
<1> QED BY <1>1, <1>2, <1>3

-----------------------------------------------------------------------------
(* The Supervisor's routing.                                               *)

LEMMA WorklistOf ==
  ASSUME NEW steps \in Seq(Steps), NEW state
  PROVE  LET list == Kept(steps, {s \in Steps : Info[s].state = state})
         IN  \A s : s \in ToSet(list) <=> s \in ToSet(steps) /\ Info[s].state = state
<1> DEFINE mine == {s \in Steps : Info[s].state = state}
           list == Kept(steps, mine)
<1> HIDE DEF mine
<1>1. \A k \in DOMAIN list : \E i \in DOMAIN steps : steps[i] = list[k] /\ steps[i] \in mine
  BY KeptRange
<1>2. \A i \in DOMAIN steps : steps[i] \in mine => \E k \in DOMAIN list : list[k] = steps[i]
  BY KeptRange
<1>3. \A i \in DOMAIN steps : steps[i] \in Steps
  OBVIOUS
<1> USE DEF mine
<1> HIDE DEF list
<1>4. \A s : s \in ToSet(list) => s \in ToSet(steps) /\ Info[s].state = state
  BY <1>1 DEF ToSet
<1>5. \A s : s \in ToSet(steps) /\ Info[s].state = state => s \in ToSet(list)
  BY <1>2, <1>3 DEF ToSet
<1> QED BY <1>4, <1>5 DEF list

(* A state is opened at the first step that runs in it, so that every      *)
(* state of the plan has exactly one Specialist.                           *)
LEMMA PlanRouted ==
  ASSUME NEW steps \in Seq(Steps)
  PROVE  Lists(RouteFromPlan(steps), steps)
<1> DEFINE st(i) == Info[steps[i]].state
           Opens(i) == \A j \in 1 .. i - 1 : st(j) # st(i)
           first == {i \in DOMAIN steps : Opens(i)}
           opening == Ascending(first)
           n == Cardinality(first)
           Of(state) == Kept(steps, {s \in Steps : Info[s].state = state})
           Tools(state) == {Info[s].tool : s \in ToSet(Of(state))}
           routed == RouteFromPlan(steps)
<1>1. DOMAIN steps = 1 .. Len(steps) /\ Len(steps) \in Nat /\ IsFiniteSet(DOMAIN steps)
  <2>1. DOMAIN steps = 1 .. Len(steps) /\ Len(steps) \in Nat
    OBVIOUS
  <2> QED BY <2>1, FS_Interval
<1>2. \A i \in DOMAIN steps : steps[i] \in Steps
  OBVIOUS
<1>3. first \in SUBSET Nat /\ IsFiniteSet(first)
  <2>1. first \in SUBSET DOMAIN steps
    OBVIOUS
  <2> QED BY <1>1, <2>1, FS_Subset
<1>4. routed = [k \in DOMAIN opening |->
                  Subtask(st(opening[k]), Tools(st(opening[k])), Of(st(opening[k])))]
  BY DEF RouteFromPlan
<1>5. \A i \in first : i \in DOMAIN steps /\ i \in Nat
  BY <1>1
<1>6. \A i, j \in first : st(i) = st(j) => i = j
  <2> SUFFICES ASSUME NEW i \in first, NEW j \in first, st(i) = st(j), i < j
               PROVE  FALSE
    BY <1>5
  <2>1. i \in 1 .. j - 1
    BY <1>1, <1>5
  <2> QED BY <2>1
<1>7. \A i \in DOMAIN steps : \E j \in first : st(j) = st(i)
  <2> SUFFICES ASSUME NEW i \in DOMAIN steps PROVE \E j \in first : st(j) = st(i)
    OBVIOUS
  <2> DEFINE same == {j \in DOMAIN steps : st(j) = st(i)}
  <2>1. same \in SUBSET Nat /\ i \in same
    BY <1>1
  <2>2. same \in SUBSET DOMAIN steps
    OBVIOUS
  <2>3. IsFiniteSet(same)
    BY <1>1, <2>2, FS_Subset
  <2>4. PICK j \in same : \A k \in same : j <= k
    BY <2>1, <2>3, LeastMember
  <2>5. \A k \in 1 .. j - 1 : k \in DOMAIN steps /\ k < j
    BY <1>1, <2>2
  <2>6. Opens(j)
    <3> SUFFICES ASSUME NEW k \in 1 .. j - 1, st(k) = st(j) PROVE FALSE
      OBVIOUS
    <3>1. k \in same
      BY <2>5
    <3>2. j \in Nat /\ k \in Nat
      BY <2>1
    <3> QED BY <2>4, <2>5, <3>1, <3>2
  <2> QED BY <2>6
<1>8. \A state, s : s \in ToSet(Of(state)) <=> s \in ToSet(steps) /\ Info[s].state = state
  BY WorklistOf
<1> HIDE DEF st, first, Of, routed
<1>9. /\ n \in Nat /\ opening \in [1 .. n -> first]
      /\ \A i \in first : \E k \in 1 .. n : opening[k] = i
      /\ \A i, j \in 1 .. n : i < j => opening[i] < opening[j]
  BY <1>3, AscendingSorts
<1> HIDE DEF opening, n
<1>10. DOMAIN routed = 1 .. n /\ routed = [k \in 1 .. n |-> routed[k]]
  BY <1>4, <1>9
<1>11. \A k \in 1 .. n : /\ opening[k] \in first
                         /\ routed[k].state = st(opening[k])
                         /\ routed[k].atomics = Tools(st(opening[k]))
                         /\ routed[k].worklist = Of(st(opening[k]))
                         /\ IsSubtask(routed[k])
  BY <1>4, <1>9 DEF Subtask, IsSubtask
<1>12. routed \in Seq({routed[k] : k \in DOMAIN routed})
  BY <1>9, <1>10
<1>13. \A k \in 1 .. n : routed[k].state \in STATES \ {"ASK_USER", "DONE"}
  BY <1>2, <1>5, <1>11, StepsAssumption DEF st
<1>14. ASSUME NEW k \in 1 .. n, NEW i \in DOMAIN routed[k].worklist
       PROVE  /\ routed[k].worklist[i] \in ToSet(steps)
              /\ routed[k].state = Info[routed[k].worklist[i]].state
              /\ Info[routed[k].worklist[i]].tool \in routed[k].atomics
  <2>1. routed[k].worklist[i] \in ToSet(Of(st(opening[k])))
    BY <1>11 DEF ToSet
  <2> QED BY <1>8, <1>11, <2>1
<1>15. \A i, j \in 1 .. n : opening[i] = opening[j] => i = j
  <2> SUFFICES ASSUME NEW i \in 1 .. n, NEW j \in 1 .. n, opening[i] = opening[j], i < j
               PROVE  FALSE
    BY <1>9
  <2>1. opening[i] < opening[j] /\ opening[i] \in Nat
    BY <1>5, <1>9, <1>11
  <2> QED BY <2>1
<1>16. ASSUME NEW s \in ToSet(steps)
       PROVE  \E k \in 1 .. n :
                /\ s \in ToSet(routed[k].worklist)
                /\ \A j \in 1 .. n : s \in ToSet(routed[j].worklist) => j = k
  <2>1. PICK i \in DOMAIN steps : steps[i] = s
    BY DEF ToSet
  <2>2. PICK f \in first : st(f) = st(i)
    BY <1>7
  <2>3. PICK k \in 1 .. n : opening[k] = f
    BY <1>9
  <2>4. Info[s].state = st(opening[k])
    BY <2>1, <2>2, <2>3 DEF st
  <2>5. s \in ToSet(routed[k].worklist)
    BY <1>8, <1>11, <2>4
  <2>6. ASSUME NEW j \in 1 .. n, s \in ToSet(routed[j].worklist) PROVE j = k
    <3>1. Info[s].state = st(opening[j])
      BY <1>8, <1>11, <2>6
    <3>2. opening[j] = opening[k]
      BY <1>6, <1>11, <2>4, <3>1
    <3> QED BY <1>15, <3>2
  <2> QED BY <2>5, <2>6
<1> QED BY <1>10, <1>11, <1>12, <1>13, <1>14, <1>16 DEF Lists, routed

LEMMA Ranked ==
  /\ IsFiniteSet(STATES)
  /\ \A s \in STATES : Rank[s] \in 1 .. Len(StateOrder)
  /\ \A s, t \in STATES : Rank[s] = Rank[t] => s = t
  /\ Len(StateOrder) = 22
<1>1. Len(StateOrder) = 22 /\ DOMAIN StateOrder = 1 .. 22
  BY DEF StateOrder
<1>2. STATES \subseteq {StateOrder[k] : k \in 1 .. 22}
  BY DEF STATES, CoreStates, ExtraStates, StateOrder
<1>3. \A s \in STATES : Rank[s] \in 1 .. 22 /\ StateOrder[Rank[s]] = s
  <2> SUFFICES ASSUME NEW s \in STATES PROVE Rank[s] \in 1 .. 22 /\ StateOrder[Rank[s]] = s
    OBVIOUS
  <2>1. \E k \in 1 .. 22 : StateOrder[k] = s
    BY <1>2
  <2>2. Rank[s] = CHOOSE k \in 1 .. 22 : StateOrder[k] = s
    BY <1>1 DEF Rank
  <2> QED BY <2>1, <2>2
<1>4. \A s, t \in STATES : Rank[s] = Rank[t] => s = t
  BY <1>3
<1>5. IsFiniteSet(STATES)
  <2>1. Rank \in [STATES -> 1 .. 22]
    BY <1>3 DEF Rank
  <2>2. Rank \in Injection(STATES, 1 .. 22)
    BY <1>4, <2>1 DEF Injection, IsInjective
  <2>3. IsFiniteSet(1 .. 22)
    <3>1. 1 \in Int /\ 22 \in Int
      OBVIOUS
    <3> QED BY <3>1, FS_Interval
  <2> QED BY <2>2, <2>3, FS_Injection
<1> QED BY <1>1, <1>3, <1>4, <1>5

LEMMA RankingRouted ==
  ASSUME NEW ranked \in Rankings, lever \in Levers
  PROVE  Lists(RouteFromRanking(ranked), <<>>)
<1> DEFINE Mine(state) == Kept(ranked, AllowedTools(state))
           working == {s \in STATES \ {"ANALYZE_INTENT", "ASK_USER", "DONE"} : Mine(s) # <<>>}
           Best(s) == CHOOSE i \in DOMAIN ranked : ranked[i] = Mine(s)[1]
           key == [s \in working |-> Best(s) * Len(StateOrder) + Rank[s]]
           states == InOrder(working, key)
           n == Cardinality(working)
           Least(a, b) == IF a < b THEN a ELSE b
           Tools(s) == {Mine(s)[k] : k \in 1 .. Least(Len(Mine(s)), lever.tools_per_specialist)}
           m == Least(Len(states), lever.max_specialists)
           routed == RouteFromRanking(ranked)
<1>1. \A s \in working : Best(s) \in Nat
  <2> SUFFICES ASSUME NEW s \in working PROVE Best(s) \in Nat
    OBVIOUS
  <2> DEFINE T == UNION {AllowedTools(t) : t \in STATES}
  <2>1. ranked \in Seq(T)
    BY RankingsAssumption
  <2> HIDE DEF T
  <2>2. Mine(s) \in Seq(T) /\ Mine(s) # <<>>
    BY <2>1, KeptSelects
  <2>3. 1 \in DOMAIN Mine(s)
    <3> HIDE DEF Mine
    <3> QED BY <2>2
  <2>4. \A k \in DOMAIN Mine(s) : \E i \in DOMAIN ranked : ranked[i] = Mine(s)[k]
    BY <2>1, KeptRange
  <2>5. DOMAIN ranked \subseteq Nat
    BY <2>1
  <2> QED BY <2>3, <2>4, <2>5
<1>2. \A s \in working : Rank[s] \in 1 .. 22 /\ s \in STATES
  BY Ranked
<1>3. key = [s \in working |-> Best(s) * 22 + Rank[s]]
  BY Ranked
<1> HIDE DEF Best
<1>4. key \in [working -> Nat]
  <2>1. \A b \in Nat, r \in 1 .. 22 : b * 22 + r \in Nat
    OBVIOUS
  <2> QED BY <1>1, <1>2, <1>3, <2>1
<1>5. \A s, t \in working : key[s] = key[t] => s = t
  <2>1. \A b, c \in Nat, r, q \in 1 .. 22 : b * 22 + r = c * 22 + q => r = q
    OBVIOUS
  <2>2. \A s, t \in working : key[s] = key[t] => Rank[s] = Rank[t]
    <3> SUFFICES ASSUME NEW s \in working, NEW t \in working, key[s] = key[t]
                 PROVE  Rank[s] = Rank[t]
      OBVIOUS
    <3>1. key[s] = Best(s) * 22 + Rank[s] /\ key[t] = Best(t) * 22 + Rank[t]
      BY <1>3
    <3>2. Best(s) \in Nat /\ Best(t) \in Nat /\ Rank[s] \in 1 .. 22 /\ Rank[t] \in 1 .. 22
      BY <1>1, <1>2
    <3> HIDE DEF key
    <3> QED BY <2>1, <3>1, <3>2
  <2> QED BY <1>2, <2>2, Ranked
<1>6. IsFiniteSet(working)
  <2>1. working \in SUBSET STATES
    OBVIOUS
  <2> QED BY <2>1, Ranked, FS_Subset
<1>7. \A s \in working : s \in STATES \ {"ASK_USER", "DONE"}
  OBVIOUS
<1>8. routed = [i \in 1 .. m |-> Subtask(states[i], Tools(states[i]), <<>>)]
  BY DEF RouteFromRanking, Best
<1> HIDE DEF working, key, Mine
<1>9. n \in Nat /\ states \in [1 .. n -> working]
  BY <1>4, <1>5, <1>6, InOrderSorts
<1> HIDE DEF states, n, Tools, routed
<1>10. Len(states) = n /\ lever.max_specialists \in Nat
  BY <1>9, RankingsAssumption
<1>11. m \in Nat /\ m <= n
  BY <1>9, <1>10
<1> HIDE DEF m
<1>12. \A k \in 1 .. m : states[k] \in working
  BY <1>9, <1>11
<1>13. DOMAIN routed = 1 .. m /\ routed = [k \in 1 .. m |-> routed[k]]
  BY <1>8
<1>14. \A k \in 1 .. m : /\ IsSubtask(routed[k]) /\ routed[k].worklist = <<>>
                         /\ routed[k].state \in STATES \ {"ASK_USER", "DONE"}
  BY <1>7, <1>8, <1>12 DEF Subtask, IsSubtask
<1>15. routed \in Seq({routed[k] : k \in DOMAIN routed})
  BY <1>11, <1>13
<1>16. ToSet(<<>>) = {} /\ DOMAIN <<>> = {}
  BY DEF ToSet
<1> QED BY <1>13, <1>14, <1>15, <1>16 DEF Lists, routed

-----------------------------------------------------------------------------
(* The crew at work.                                                       *)

(* Counting a Specialist's turns and successes leaves the lists alone.     *)
LEMMA CountingKeepsLists ==
  ASSUME NEW steps, NEW subs, Lists(subs, steps), NEW counted,
         counted = [k \in DOMAIN subs |-> counted[k]],
         \A k \in DOMAIN subs : /\ IsSubtask(counted[k])
                                /\ counted[k].state = subs[k].state
                                /\ counted[k].atomics = subs[k].atomics
                                /\ counted[k].worklist = subs[k].worklist
  PROVE  Lists(counted, steps) /\ DOMAIN counted = DOMAIN subs
<1>1. DOMAIN counted = DOMAIN subs
  OBVIOUS
<1>2. PICK n \in Nat : DOMAIN subs = 1 .. n
  BY DEF Lists
<1>3. counted \in Seq({counted[k] : k \in DOMAIN counted})
  BY <1>1, <1>2
<1>4. \A k \in DOMAIN counted :
        /\ counted[k].state \in STATES \ {"ASK_USER", "DONE"}
        /\ \A i \in DOMAIN counted[k].worklist :
             /\ counted[k].worklist[i] \in ToSet(steps)
             /\ counted[k].state = Info[counted[k].worklist[i]].state
             /\ Info[counted[k].worklist[i]].tool \in counted[k].atomics
  BY <1>1 DEF Lists
<1>5. \A s \in ToSet(steps) : \E k \in DOMAIN counted :
        /\ s \in ToSet(counted[k].worklist)
        /\ \A j \in DOMAIN counted : s \in ToSet(counted[j].worklist) => j = k
  <2>1. \A k \in DOMAIN subs : counted[k].worklist = subs[k].worklist
    OBVIOUS
  <2>2. \A s \in ToSet(steps) : \E k \in DOMAIN subs :
          /\ s \in ToSet(subs[k].worklist)
          /\ \A j \in DOMAIN subs : s \in ToSet(subs[j].worklist) => j = k
    BY DEF Lists
  <2> QED BY <1>1, <2>1, <2>2
<1> QED BY <1>1, <1>3, <1>4, <1>5 DEF Lists

LEMMA AtWork ==
  ASSUME TiersInv, stage # "idle"
  PROVE  /\ tier = "crew" /\ tier \notin Planning \cup Executing
         /\ fsm \in STATES \ {"ASK_USER", "DONE"}
         /\ ending.path = "crew" /\ ending.reason \notin Asking
         /\ turns \in Nat /\ budget \in Nat
         /\ ~Denied /\ ~(plan.refusal /\ plan.steps = <<>>)
         /\ Lists(subtasks, handed.steps)
         /\ Len(subtasks) \in Nat /\ DOMAIN subtasks = 1 .. Len(subtasks)
         /\ specialist \in DOMAIN subtasks
         /\ IsSubtask(subtasks[specialist])
         /\ subtasks[specialist].state \in STATES \ {"ASK_USER", "DONE"}
         /\ (Primary \/ retry \in Seq(DOMAIN subtasks))
<1>1. /\ tier = "crew" /\ specialist \in DOMAIN subtasks /\ Lists(subtasks, handed.steps)
      /\ (Primary \/ retry \in Seq(DOMAIN subtasks))
  BY DEF TiersInv, Handover
<1>2. Len(subtasks) \in Nat /\ DOMAIN subtasks = 1 .. Len(subtasks)
  BY <1>1 DEF Lists
<1>3. /\ IsSubtask(subtasks[specialist])
      /\ subtasks[specialist].state \in STATES \ {"ASK_USER", "DONE"}
  BY <1>1 DEF Lists
<1>4. /\ fsm \in STATES \ {"ASK_USER", "DONE"} /\ turns \in Nat /\ budget \in Nat
      /\ ending.path = "crew" /\ ending.reason \notin Asking
      /\ tier \notin Planning \cup Executing
  BY <1>1 DEF TiersInv, Typed, Control, Planning, Executing
<1>5. ~Denied /\ ~(plan.refusal /\ plan.steps = <<>>)
  BY <1>1 DEF TiersInv, Answers
<1> QED BY <1>1, <1>2, <1>3, <1>4, <1>5

(* What every step of the crew leaves alone.                               *)
CrewFrame ==
  UNCHANGED <<lever, plan, at, replans, rounds, failure, applied, handed, budget>>

LEMMA WorksOnKeeps ==
  ASSUME TiersInv, stage # "idle", stage' # "idle", CrewFrame,
         UNCHANGED <<tier, ending>>,
         fsm' \in STATES \ {"ASK_USER", "DONE"}, turns' \in Nat,
         Lists(subtasks', handed.steps), specialist' \in DOMAIN subtasks',
         Primary' \/ retry' \in Seq(DOMAIN subtasks')
  PROVE  TiersInv'
<1>1. /\ tier' = "crew" /\ tier' \notin Planning \cup Executing /\ ending' = ending
      /\ ending.path = "crew" /\ ending.reason \notin Asking
      /\ ~Denied /\ ~(plan.refusal /\ plan.steps = <<>>)
  BY AtWork
<1>2. Typed'
  BY <1>1 DEF TiersInv, Typed, CrewFrame
<1>3. Control'
  BY <1>1 DEF Control
<1>4. Answers'
  BY <1>1 DEF Answers, Denied, Asking, CrewFrame, Executing
<1>5. Whole'
  BY <1>1, WholeLeft DEF CrewFrame
<1>6. Spent'
  BY <1>1 DEF TiersInv, Spent, Planning, CrewFrame
<1>7. Handover'
  BY <1>1 DEF TiersInv, Handover, Executed, CrewFrame
<1> QED BY <1>2, <1>3, <1>4, <1>5, <1>6, <1>7 DEF TiersInv

LEMMA CrewEndsKeeps ==
  ASSUME TiersInv, stage # "idle", CrewFrame, UNCHANGED turns,
         NEW completed, NEW reason, reason \notin Asking, CrewEnds(completed, reason)
  PROVE  TiersInv'
<1>1. /\ fsm \in STATES \ {"ASK_USER", "DONE"} /\ ~Denied
      /\ ~(plan.refusal /\ plan.steps = <<>>)
  BY AtWork
<1>2. /\ tier' = "over" /\ stage' = "idle" /\ fsm' = "DONE" /\ fsm' \in STATES
      /\ ending' = [path |-> "crew", completed |-> completed, reason |-> reason]
  BY <1>1, WorkingStates DEF CrewEnds, STATES, CoreStates
<1>3. Typed'
  BY <1>2 DEF TiersInv, Typed, CrewFrame
<1>4. Control'
  BY <1>2 DEF Control, Planning, Executing
<1>5. Answers'
  BY <1>1, <1>2 DEF Answers, Denied, Asking, CrewFrame, Executing
<1>6. Whole'
  BY <1>2, WholeLeft DEF CrewFrame
<1>7. Spent'
  BY <1>2 DEF TiersInv, Spent, Planning, CrewFrame
<1>8. Handover'
  BY <1>2 DEF TiersInv, Handover, Executed, CrewFrame, Planning, Executing
<1> QED BY <1>3, <1>4, <1>5, <1>6, <1>7, <1>8 DEF TiersInv

LEMMA StandaloneKeeps ==
  ASSUME TiersInv, Standalone
  PROVE  TiersInv'
<1>1. /\ tier = "ask" /\ tier \in Planning /\ tier' = "crew"
      /\ ending' = [path |-> "crew", completed |-> TRUE, reason |-> "standalone"]
      /\ UNCHANGED <<planVars, world, fsm, turns, crewVars>>
  BY DEF Standalone, Planning
<1>2. /\ stage = "idle" /\ fsm \in STATES \ {"ASK_USER", "DONE"}
      /\ handed.steps = <<>> /\ handed.turns = 0
  BY <1>1, CrewIdle
<1>3. turns = 0 /\ replans = 0 /\ budget = MaxTurns /\ Primary
  BY <1>1, <1>2 DEF TiersInv, Spent, Handover
<1>4. Typed'
  BY <1>1 DEF TiersInv, Typed, planVars, crewVars
<1>5. Control'
  BY <1>1, <1>2 DEF Control, Planning, Executing, Asking
<1>6. Answers'
  BY <1>1 DEF TiersInv, Answers, Denied, planVars, Executing
<1>7. Whole'
  BY <1>1, WholeLeft DEF planVars
<1>8. Spent'
  BY <1>1, <1>2, <1>3 DEF TiersInv, Spent, Planning, planVars, crewVars
<1>9. Handover'
  BY <1>1, <1>2, <1>3 DEF TiersInv, Handover, Executed, Primary, Planning, Executing,
                          planVars, crewVars
<1> QED BY <1>4, <1>5, <1>6, <1>7, <1>8, <1>9 DEF TiersInv

LEMMA StartCrewKeeps ==
  ASSUME TiersInv, StartCrew
  PROVE  TiersInv'
<1>1. PICK ranked \in Rankings :
        LET assignments == IF handed.steps # <<>> THEN RouteFromPlan(handed.steps)
                           ELSE RouteFromRanking(ranked)
        IN  \/ /\ assignments = <<>> /\ HandBack(0)
               /\ UNCHANGED <<world, crewVars>>
            \/ /\ assignments # <<>> /\ subtasks' = assignments
               /\ budget' = TurnBudget /\ Begin(1)
               /\ UNCHANGED <<sharedVars, local, mid_work, calls, observed, retry>>
  BY DEF StartCrew
<1> DEFINE assignments == IF handed.steps # <<>> THEN RouteFromPlan(handed.steps)
                          ELSE RouteFromRanking(ranked)
<1>2. tier = "crew" /\ stage = "idle" /\ UNCHANGED planVars
  BY DEF StartCrew
<1>3. Lists(assignments, handed.steps)
  <2>1. lever \in Levers /\ handed.steps \in Seq(Steps)
    BY DEF TiersInv, Typed
  <2>2. CASE handed.steps # <<>>
    BY <2>1, <2>2, PlanRouted
  <2>3. CASE handed.steps = <<>>
    <3>1. Lists(RouteFromRanking(ranked), <<>>)
      BY <2>1, RankingRouted
    <3>2. assignments = RouteFromRanking(ranked)
      BY <2>3
    <3> HIDE DEF assignments
    <3> QED BY <2>3, <3>1, <3>2
  <2> QED BY <2>2, <2>3
<1> HIDE DEF assignments
<1>4. /\ fsm \in STATES \ {"ASK_USER", "DONE"} /\ ending.path = "crew"
      /\ ending.reason \notin Asking /\ ~Denied /\ ~(plan.refusal /\ plan.steps = <<>>)
      /\ Primary
  BY <1>2 DEF TiersInv, Typed, Control, Answers, Handover
<1>5. CASE /\ HandBack(0) /\ UNCHANGED <<world, crewVars>>
  <2>1. /\ tier' = "interleaved" /\ turns' = 0 /\ fsm' = fsm
        /\ ending' = [path |-> "interleaved", completed |-> TRUE, reason |-> None]
    BY <1>5 DEF HandBack
  <2>2. Typed'
    BY <1>2, <1>5, <2>1 DEF TiersInv, Typed, planVars, crewVars
  <2>3. Control'
    BY <1>4, <2>1 DEF Control, Planning, Executing
  <2>4. Answers'
    BY <1>2, <1>4, <2>1 DEF Answers, Denied, planVars, None, Executing
  <2>5. Whole'
    BY <1>2, <2>1, WholeLeft DEF planVars
  <2>6. Spent'
    BY <1>2, <2>1 DEF TiersInv, Typed, Spent, Planning, planVars
  <2>7. Handover'
    BY <1>2, <1>5, <2>1 DEF TiersInv, Handover, Executed, Planning, Executing, planVars, crewVars
  <2> QED BY <2>2, <2>3, <2>4, <2>5, <2>6, <2>7 DEF TiersInv
<1>6. CASE /\ assignments # <<>> /\ subtasks' = assignments
           /\ budget' = TurnBudget /\ Begin(1)
           /\ UNCHANGED <<sharedVars, local, mid_work, calls, observed, retry>>
  <2>1. /\ stage' = "enter" /\ specialist' = 1 /\ retry' = retry
        /\ UNCHANGED <<tier, fsm, turns, ending, world>>
    BY <1>6 DEF Begin, sharedVars
  <2>2. budget' \in Nat
    BY <1>6, Budgeted DEF TiersInv
  <2>3. specialist' \in DOMAIN subtasks'
    BY <1>3, <1>6, <2>1 DEF Lists
  <2>4. Typed'
    BY <1>2, <2>1, <2>2 DEF TiersInv, Typed, planVars
  <2>5. Control'
    BY <1>2, <1>4, <2>1 DEF Control, Planning, Executing
  <2>6. Answers'
    BY <1>2, <1>4, <2>1 DEF Answers, Denied, planVars, Asking, Executing
  <2>7. Whole'
    BY <1>2, <2>1, WholeLeft DEF planVars
  <2>8. Spent'
    BY <1>2, <1>4, <2>1 DEF TiersInv, Spent, Planning, planVars
  <2>9. Handover'
    BY <1>2, <1>3, <1>4, <1>6, <2>1, <2>3
       DEF TiersInv, Handover, Executed, Primary, Planning, Executing, planVars
  <2> QED BY <2>4, <2>5, <2>6, <2>7, <2>8, <2>9 DEF TiersInv
<1> QED BY <1>1, <1>5, <1>6 DEF assignments

LEMMA EnterStateKeeps ==
  ASSUME TiersInv, EnterState
  PROVE  TiersInv'
<1>1. /\ stage = "enter" /\ stage' \in {"prompt", "leave"}
      /\ fsm' \in {fsm, subtasks[specialist].state}
      /\ UNCHANGED <<planVars, world, tier, turns, ending, subtasks, specialist,
                     retry, budget>>
  BY DEF EnterState
<1>2. /\ stage # "idle" /\ stage' # "idle" /\ CrewFrame /\ UNCHANGED <<tier, ending>>
      /\ handed' = handed
  BY <1>1 DEF CrewFrame, planVars
<1>3. /\ fsm' \in STATES \ {"ASK_USER", "DONE"} /\ turns' \in Nat
      /\ Lists(subtasks', handed.steps) /\ specialist' \in DOMAIN subtasks'
      /\ (Primary' \/ retry' \in Seq(DOMAIN subtasks'))
  BY <1>1, <1>2, AtWork DEF Primary
<1> QED BY <1>2, <1>3, WorksOnKeeps

LEMMA SpecialistTurnKeeps ==
  ASSUME TiersInv, SpecialistTurn
  PROVE  TiersInv'
<1>1. /\ stage = "prompt" /\ stage' \in {"act", "leave"}
      /\ turns' \in {turns, turns + 1}
      /\ UNCHANGED <<planVars, world, fsm, tier, ending, subtasks, specialist,
                     retry, budget>>
  BY DEF SpecialistTurn
<1>2. /\ stage # "idle" /\ stage' # "idle" /\ CrewFrame /\ UNCHANGED <<tier, ending>>
  BY <1>1 DEF CrewFrame, planVars
<1>3. /\ fsm' \in STATES \ {"ASK_USER", "DONE"} /\ turns' \in Nat
      /\ Lists(subtasks', handed.steps) /\ specialist' \in DOMAIN subtasks'
      /\ (Primary' \/ retry' \in Seq(DOMAIN subtasks'))
  BY <1>1, <1>2, AtWork DEF Primary
<1> QED BY <1>2, <1>3, WorksOnKeeps

LEMMA BatchDoneKeeps ==
  ASSUME TiersInv, BatchDone
  PROVE  TiersInv'
<1>1. /\ stage = "act" /\ stage' = "prompt"
      /\ UNCHANGED <<planVars, sharedVars, subtasks, specialist, retry, budget>>
  BY DEF BatchDone
<1>2. /\ stage # "idle" /\ stage' # "idle" /\ CrewFrame /\ UNCHANGED <<tier, ending>>
  BY <1>1 DEF CrewFrame, planVars, sharedVars
<1>3. /\ fsm' \in STATES \ {"ASK_USER", "DONE"} /\ turns' \in Nat
      /\ Lists(subtasks', handed.steps) /\ specialist' \in DOMAIN subtasks'
      /\ (Primary' \/ retry' \in Seq(DOMAIN subtasks'))
  BY <1>1, <1>2, AtWork DEF Primary, sharedVars
<1> QED BY <1>2, <1>3, WorksOnKeeps

LEMMA SpecialistCallKeeps ==
  ASSUME TiersInv, SpecialistCall
  PROVE  TiersInv'
<1> DEFINE counted == [subtasks EXCEPT ![specialist].successful = @ + 1]
<1>1. /\ stage = "act" /\ subtasks' \in {counted, subtasks}
      /\ UNCHANGED <<lever, plan, at, replans, rounds, failure, applied, handed, fsm, tier,
                     turns, ending, specialist, stage, retry, budget>>
  BY DEF SpecialistCall
<1>2. /\ stage # "idle" /\ stage' # "idle" /\ CrewFrame /\ UNCHANGED <<tier, ending>>
  BY <1>1 DEF CrewFrame
<1>3. /\ Lists(subtasks, handed.steps) /\ DOMAIN subtasks = 1 .. Len(subtasks)
      /\ \A k \in DOMAIN subtasks : IsSubtask(subtasks[k])
  BY <1>2, AtWork DEF Lists
<1>4. Lists(counted, handed.steps) /\ DOMAIN counted = DOMAIN subtasks
  <2>1. counted = [k \in DOMAIN subtasks |-> counted[k]]
    OBVIOUS
  <2>2. \A k \in DOMAIN subtasks : /\ IsSubtask(counted[k])
                                   /\ counted[k].state = subtasks[k].state
                                   /\ counted[k].atomics = subtasks[k].atomics
                                   /\ counted[k].worklist = subtasks[k].worklist
    BY <1>3 DEF IsSubtask
  <2> HIDE DEF counted
  <2> QED BY <1>3, <2>1, <2>2, CountingKeepsLists
<1> HIDE DEF counted
<1>5. Lists(subtasks', handed.steps) /\ DOMAIN subtasks' = DOMAIN subtasks
  BY <1>1, <1>3, <1>4
<1>6. /\ fsm' \in STATES \ {"ASK_USER", "DONE"} /\ turns' \in Nat
      /\ specialist' \in DOMAIN subtasks' /\ (Primary' \/ retry' \in Seq(DOMAIN subtasks'))
  BY <1>1, <1>2, <1>5, AtWork DEF Primary
<1> QED BY <1>2, <1>5, <1>6, WorksOnKeeps

LEMMA UnsatisfiedAreSubtasks ==
  ASSUME NEW done, NEW n \in Nat, DOMAIN done = 1 .. n
  PROVE  UnsatisfiedSubtasks(done) \in Seq(DOMAIN done)
<1> DEFINE idle == {k \in DOMAIN done : done[k].turns_used > 0 /\ done[k].successful = 0}
<1>1. idle \in SUBSET Nat /\ idle \in SUBSET DOMAIN done
  OBVIOUS
<1>2. IsFiniteSet(DOMAIN done)
  <2>1. 1 \in Int /\ n \in Int
    OBVIOUS
  <2> QED BY <2>1, FS_Interval
<1>3. IsFiniteSet(idle)
  BY <1>1, <1>2, FS_Subset
<1>4. UnsatisfiedSubtasks(done) = Ascending(idle)
  BY DEF UnsatisfiedSubtasks
<1> HIDE DEF idle
<1>5. Cardinality(idle) \in Nat /\ Ascending(idle) \in [1 .. Cardinality(idle) -> idle]
  BY <1>1, <1>3, AscendingSorts
<1>6. Ascending(idle) \in [1 .. Cardinality(idle) -> DOMAIN done]
  BY <1>1, <1>5
<1> QED BY <1>4, <1>5, <1>6

(* The critic sends the next one back, or the crew is done.                *)
LEMMA CriticSendsKeeps ==
  ASSUME TiersInv, stage # "idle", CrewFrame, UNCHANGED <<turns, world>>,
         Lists(subtasks', handed.steps), DOMAIN subtasks' = DOMAIN subtasks,
         NEW queue \in Seq(DOMAIN subtasks), CriticSends(queue)
  PROVE  TiersInv'
<1>1. CASE CrewEnds(TRUE, None)
  <2>1. None \notin Asking
    BY DEF None, Asking
  <2> QED BY <1>1, <2>1, CrewEndsKeeps
<1>2. CASE queue # <<>> /\ Begin(Head(queue)) /\ retry' = Tail(queue) /\ UNCHANGED <<tier, fsm, ending>>
  <2>1. Head(queue) \in DOMAIN subtasks /\ Tail(queue) \in Seq(DOMAIN subtasks)
    BY <1>2, HeadTailProperties
  <2>2. /\ stage' # "idle" /\ specialist' \in DOMAIN subtasks'
        /\ retry' \in Seq(DOMAIN subtasks')
    BY <1>2, <2>1 DEF Begin
  <2>3. fsm' \in STATES \ {"ASK_USER", "DONE"} /\ turns' \in Nat
    BY <1>2, AtWork
  <2> QED BY <1>2, <2>2, <2>3, WorksOnKeeps
<1> QED BY <1>1, <1>2 DEF CriticSends

LEMMA LeaveSpecialistKeeps ==
  ASSUME TiersInv, LeaveSpecialist
  PROVE  TiersInv'
<1>1. /\ stage = "leave" /\ subtasks' = Charged
      /\ UNCHANGED <<planVars, world, turns, budget>>
  BY DEF LeaveSpecialist
<1>2. /\ stage # "idle" /\ CrewFrame /\ UNCHANGED <<turns, world>> /\ handed' = handed
  BY <1>1 DEF CrewFrame, planVars
<1>3. /\ Lists(subtasks, handed.steps) /\ DOMAIN subtasks = 1 .. Len(subtasks)
      /\ Len(subtasks) \in Nat /\ specialist \in DOMAIN subtasks
      /\ \A k \in DOMAIN subtasks : IsSubtask(subtasks[k])
  BY <1>2, AtWork DEF Lists
<1>4. Lists(Charged, handed.steps) /\ DOMAIN Charged = DOMAIN subtasks
  <2>1. Charged = [k \in DOMAIN subtasks |-> Charged[k]]
    BY DEF Charged
  <2>2. \A k \in DOMAIN subtasks : /\ IsSubtask(Charged[k])
                                   /\ Charged[k].state = subtasks[k].state
                                   /\ Charged[k].atomics = subtasks[k].atomics
                                   /\ Charged[k].worklist = subtasks[k].worklist
    BY <1>3 DEF IsSubtask, Charged
  <2> QED BY <1>3, <2>1, <2>2, CountingKeepsLists
<1>5. Lists(subtasks', handed.steps) /\ DOMAIN subtasks' = DOMAIN subtasks
  BY <1>1, <1>4
<1> DEFINE queue == IF lever.critic THEN UnsatisfiedSubtasks(Charged) ELSE <<>>
<1>6. queue \in Seq(DOMAIN subtasks)
  <2> DEFINE done == Charged
  <2>1. DOMAIN done = 1 .. Len(subtasks) /\ DOMAIN done = DOMAIN subtasks
    BY <1>3, <1>4
  <2> HIDE DEF done
  <2>2. UnsatisfiedSubtasks(done) \in Seq(DOMAIN subtasks)
    BY <1>3, <2>1, UnsatisfiedAreSubtasks
  <2>3. UnsatisfiedSubtasks(Charged) \in Seq(DOMAIN subtasks)
    BY <2>2 DEF done
  <2>4. <<>> \in Seq(DOMAIN subtasks)
    OBVIOUS
  <2> QED BY <2>3, <2>4
<1> HIDE DEF queue
<1>7. CASE CrewEnds(FALSE, "max_turns exhausted")
  <2>1. "max_turns exhausted" \notin Asking
    BY DEF Asking
  <2> QED BY <1>2, <1>7, <2>1, CrewEndsKeeps
<1>8. CASE /\ Primary /\ specialist < Len(subtasks)
           /\ Begin(specialist + 1) /\ UNCHANGED <<retry, tier, fsm, ending>>
  <2>1. /\ stage' # "idle" /\ specialist' \in DOMAIN subtasks' /\ Primary'
    BY <1>3, <1>5, <1>8 DEF Begin, Primary
  <2>2. fsm' \in STATES \ {"ASK_USER", "DONE"} /\ turns' \in Nat
    BY <1>2, <1>8, AtWork
  <2> QED BY <1>2, <1>5, <1>8, <2>1, <2>2, WorksOnKeeps
<1>9. CASE CriticSends(queue)
  BY <1>2, <1>5, <1>6, <1>9, CriticSendsKeeps
<1>10. CASE ~Primary /\ CriticSends(retry)
  <2>1. retry \in Seq(DOMAIN subtasks)
    BY <1>2, <1>10, AtWork
  <2> QED BY <1>2, <1>5, <1>10, <2>1, CriticSendsKeeps
<1> QED BY <1>7, <1>8, <1>9, <1>10 DEF LeaveSpecialist, queue

-----------------------------------------------------------------------------
(* The invariant holds at the start and across every step.                 *)

LEMMA InitHolds ==
  ASSUME Init
  PROVE  TiersInv /\ WithinBudget
<1>1. /\ lever \in Levers /\ world = Existing /\ fsm = INITIAL_STATE /\ tier = "ask"
      /\ turns = 0 /\ plan = [steps |-> <<>>, dropped |-> FALSE, refusal |-> FALSE, short |-> FALSE]
      /\ at = 1 /\ replans = 0 /\ rounds = 0 /\ failure = [step |-> None, code |-> "OK"]
      /\ applied = [s \in Steps |-> 0]
      /\ ending = [path |-> None, completed |-> TRUE, reason |-> None]
      /\ handed = [steps |-> <<>>, refusal |-> FALSE, turns |-> 0]
      /\ stage = "idle" /\ Primary /\ budget = MaxTurns
  BY DEF Init, PlanInit, Primary
<1>2. MaxTurns \in Nat /\ lever.max_replans \in Nat /\ lever.verify_rounds \in Nat
  BY <1>1, StepsAssumption, LeversAssumption
<1>3. Typed
  BY <1>1, <1>2, InitialState DEF Typed, Plans, Planning
<1>4. Control
  BY <1>1, InitialState DEF Control, None, Planning, Executing
<1>5. Answers
  BY <1>1 DEF Answers, Denied, None, Executing
<1>6. Whole
  BY <1>1 DEF Whole, FirstPlanNotShortened, Executed
<1>7. Spent
  BY <1>1, <1>2 DEF Spent, Planning
<1>8. Handover
  BY <1>1 DEF Handover, Executed, ToSet
<1>9. WithinBudget
  BY <1>1 DEF WithinBudget, None
<1> QED BY <1>3, <1>4, <1>5, <1>6, <1>7, <1>8, <1>9 DEF TiersInv

LEMMA StepKeeps ==
  ASSUME TiersInv, [Next]_vars
  PROVE  TiersInv'
<1>1. CASE PlanNext /\ UNCHANGED crewVars
  BY <1>1, UnsupportedKeeps, AskPlanKeeps, AskAgainKeeps, SettleKeeps, SkipExecutedKeeps,
     ExecuteKeeps, DenialEndsKeeps, OutOfReplansKeeps, ReplanKeeps, ExecutedAllKeeps,
     VerifyKeeps, PatchKeeps, PatchedKeeps DEF PlanNext
<1>2. CASE CrewNext
  BY <1>2, StandaloneKeeps, StartCrewKeeps, EnterStateKeeps, SpecialistTurnKeeps,
     SpecialistCallKeeps, BatchDoneKeeps, LeaveSpecialistKeeps DEF CrewNext
<1>3. CASE UNCHANGED vars
  <2>1. /\ UNCHANGED <<lever, plan, at, replans, rounds, failure, applied, handed, world, fsm,
                       tier, turns, ending, subtasks, specialist, stage, retry, budget>>
    BY <1>3 DEF vars, planTierVars, planVars, sharedVars, crewVars
  <2>2. Typed' /\ Control' /\ Answers'
    BY <2>1 DEF TiersInv, Typed, Control, Answers, Denied
  <2>3. Whole' /\ Spent'
    BY <2>1 DEF TiersInv, Whole, FirstPlanNotShortened, Executed, Spent
  <2>4. Handover'
    BY <2>1 DEF TiersInv, Handover, Executed, Primary
  <2> QED BY <2>2, <2>3, <2>4 DEF TiersInv
<1> QED BY <1>1, <1>2, <1>3 DEF Next

(* Where the plan tier ends a run it says so: only a crew at work or at    *)
(* its end answers for the crew's budget.                                  *)
LEMMA PlanEndsItsOwn ==
  ASSUME TiersInv, PlanNext, tier' = "over"
  PROVE  ending'.path = "plan"
<1>1. tier \in Planning \cup Executing
  BY DEF PlanNext, Unsupported, AskPlan, AskAgain, Settle, SkipExecuted, Execute, DenialEnds,
         OutOfReplans, Replan, ExecutedAll, Verify, Patch, Patched, Planning, Executing
<1>2. tier # "over"
  BY <1>1 DEF Planning, Executing
<1>3. ASSUME NEW completed, NEW reason, End("DONE", "plan", completed, reason)
      PROVE  ending'.path = "plan"
  BY <1>3 DEF End
<1>4. ASSUME NEW completed, NEW reason, Asks(completed, reason)
      PROVE  ending'.path = "plan"
  BY <1>4 DEF Asks, End
<1>5. CASE Unsupported
  BY <1>5 DEF Unsupported, HandBack
<1>6. CASE AskPlan
  BY <1>4, <1>6 DEF AskPlan
<1>7. CASE AskAgain
  BY <1>4, <1>7 DEF AskAgain
<1>8. CASE Settle
  <2>1. \/ tier' = "crew" \/ tier' = "interleaved" \/ tier' = "execute"
        \/ End("DONE", "plan", TRUE, IF plan.refusal THEN None ELSE "empty_plan")
    BY <1>8 DEF Settle, Escalate, HandBack
  <2> QED BY <1>3, <2>1
<1>9. CASE SkipExecuted \/ Execute \/ Patch
  BY <1>2, <1>9 DEF SkipExecuted, Execute, Patch, sharedVars
<1>10. CASE DenialEnds
  BY <1>3, <1>10 DEF DenialEnds
<1>11. ASSUME NEW reason, GiveUp(reason) PROVE ending'.path = "plan"
  BY <1>3, <1>11 DEF GiveUp, Escalate
<1>12. CASE OutOfReplans
  BY <1>11, <1>12 DEF OutOfReplans
<1>13. CASE Replan
  <2>1. \/ Asks(FALSE, "replan_clarify") \/ GiveUp("replan_empty")
        \/ End("DONE", "plan", FALSE, "replan_cascade_blocked") \/ tier' = "execute"
    BY <1>13 DEF Replan
  <2> QED BY <1>3, <1>4, <1>11, <2>1
<1>14. CASE ExecutedAll \/ Verify \/ Patched
  <2>1. tier' = "verify" \/ tier' = "patch" \/ End("DONE", "plan", TRUE, None)
    BY <1>14 DEF ExecutedAll, Verify, Patched
  <2> QED BY <1>3, <2>1
<1> QED BY <1>5, <1>6, <1>7, <1>8, <1>9, <1>10, <1>12, <1>13, <1>14 DEF PlanNext

LEMMA BudgetKept ==
  ASSUME ReplansFitTurns, TiersInv, WithinBudget, [Next]_vars
  PROVE  WithinBudget'
<1>1. TiersInv'
  BY StepKeeps
<1>2. /\ turns \in Nat /\ budget \in Nat /\ replans \in Nat /\ lever \in Levers
      /\ lever.max_replans \in Nat /\ MaxTurns \in Nat /\ lever.max_replans < MaxTurns
      /\ replans <= lever.max_replans
  BY LeversAssumption, StepsAssumption DEF TiersInv, Typed, Spent, ReplansFitTurns
<1>3. \A t, k, m, b \in Nat : t <= 1 + k /\ k <= m /\ m < b => t <= b
  OBVIOUS
<1>4. CASE tier' = "crew" /\ stage' = "idle"
  <2>1. /\ turns' <= 1 + replans' /\ budget' = MaxTurns /\ replans' <= lever'.max_replans
        /\ turns' \in Nat /\ replans' \in Nat /\ lever' \in Levers
    BY <1>1, <1>4 DEF TiersInv, Typed, Spent
  <2>2. lever'.max_replans \in Nat /\ lever'.max_replans < MaxTurns
    BY <2>1, LeversAssumption DEF ReplansFitTurns
  <2> QED BY <1>2, <1>3, <2>1, <2>2 DEF WithinBudget
<1>5. CASE PlanNext /\ UNCHANGED crewVars
  <2>1. tier \in Planning \cup Executing
    BY <1>5 DEF PlanNext, Unsupported, AskPlan, AskAgain, Settle, SkipExecuted, Execute,
         DenialEnds, OutOfReplans, Replan, ExecutedAll, Verify, Patch, Patched, Planning,
         Executing
  <2>2. stage' = "idle"
    BY <1>5, <2>1, CrewIdle DEF crewVars
  <2>3. CASE tier' = "over"
    BY <1>5, <2>3, PlanEndsItsOwn DEF WithinBudget
  <2>4. CASE tier' \in Planning \cup Executing \cup {"interleaved"}
    BY <1>1, <2>4 DEF TiersInv, Control, WithinBudget, None
  <2> QED BY <1>1, <1>4, <2>2, <2>3, <2>4 DEF TiersInv, Typed
<1>6. CASE Standalone
  <2>1. tier' = "crew" /\ stage' = "idle"
    BY <1>6, CrewIdle DEF Standalone, crewVars, Planning
  <2> QED BY <1>4, <2>1
<1>7. CASE StartCrew
  <2>1. tier = "crew" /\ stage = "idle" /\ turns = handed.turns /\ turns <= 1 + replans
    BY <1>7 DEF StartCrew, TiersInv, Spent
  <2>2. CASE tier' = "interleaved"
    BY <1>1, <2>2 DEF TiersInv, Control, WithinBudget
  <2>3. CASE budget' = TurnBudget /\ turns' = turns
    <3>1. TurnBudget \in Nat /\ TurnBudget >= MaxTurns
      BY Budgeted DEF TiersInv
    <3>2. turns <= MaxTurns
      BY <1>2, <1>3, <2>1
    <3>3. turns' <= budget'
      <4> DEFINE b == TurnBudget
      <4>1. budget' = b /\ b \in Nat /\ b >= MaxTurns
        BY <2>3, <3>1
      <4> HIDE DEF b
      <4> QED BY <1>2, <2>3, <3>2, <4>1
    <3> QED BY <3>3 DEF WithinBudget
  <2> QED BY <1>7, <2>2, <2>3 DEF StartCrew, HandBack, sharedVars
<1>8. CASE SpecialistTurn
  <2>1. /\ budget' = budget /\ ending' = ending /\ stage # "idle"
        /\ \/ turns' = turns
           \/ turns < budget /\ turns' = turns + 1
    BY <1>8 DEF SpecialistTurn
  <2> QED BY <1>2, <2>1 DEF WithinBudget
<1>9. CASE EnterState \/ SpecialistCall \/ BatchDone
  <2>1. turns' = turns /\ budget' = budget /\ ending' = ending
    BY <1>9 DEF EnterState, SpecialistCall, BatchDone, sharedVars
  <2> QED BY <2>1 DEF WithinBudget
<1>10. CASE LeaveSpecialist
  <2>1. stage # "idle" /\ turns' = turns /\ budget' = budget
    BY <1>10 DEF LeaveSpecialist
  <2>2. ending.path = "crew"
    BY <2>1, AtWork
  <2> QED BY <2>1, <2>2 DEF WithinBudget
<1>11. CASE UNCHANGED vars
  BY <1>11 DEF WithinBudget, vars, planTierVars, sharedVars, crewVars
<1> QED BY <1>5, <1>6, <1>7, <1>8, <1>9, <1>10, <1>11 DEF Next, CrewNext

-----------------------------------------------------------------------------
(* What the runs check, for every value of the constants.                  *)

(* The invariant itself: what the plan tier, the crew and the arbitration  *)
(* between them keep true of a run (agent/orchestrator.py, Agent.run).     *)
THEOREM TiersInvariant == Spec => []TiersInv
<1>1. Init => TiersInv
  BY InitHolds
<1>2. TiersInv /\ [Next]_vars => TiersInv'
  BY StepKeeps
<1> QED BY <1>1, <1>2, PTL DEF Spec

(* However often a step is proposed again by a replan or a patch, the plan *)
(* tier dispatches it with success at most once.                           *)
THEOREM StepsApplyOnce == Spec => []NoPlanStepTwice
<1>1. TiersInv => NoPlanStepTwice
  <2> SUFFICES ASSUME TiersInv, NEW s \in Steps PROVE applied[s] <= 1
    BY DEF NoPlanStepTwice
  <2>1. applied[s] \in 0 .. 1
    BY DEF TiersInv, Typed
  <2> QED BY <2>1
<1> QED BY <1>1, TiersInvariant, PTL

(* A refusal, a clarification and a refusal of the cage end the request,   *)
(* without another tier taking it up.                                      *)
THEOREM AnswersStandHold == Spec => []FinalAnswersStand
<1>1. TiersInv => FinalAnswersStand
  <2> SUFFICES ASSUME TiersInv PROVE FinalAnswersStand
    OBVIOUS
  <2>1. /\ plan.refusal /\ plan.steps = <<>> =>
             world = Existing /\ tier \notin {"crew", "interleaved"}
        /\ ending.reason = "clarify" => world = Existing
        /\ Denied => tier \in {"failed", "over"} /\ ending.path # "crew"
    BY DEF TiersInv, Answers
  <2>2. Finished => (fsm = "ASK_USER" <=> ending.reason \in {"clarify", "replan_clarify"})
    BY DEF TiersInv, Control, Finished, Asking, None
  <2> QED BY <2>1, <2>2 DEF FinalAnswersStand
<1> QED BY <1>1, TiersInvariant, PTL

(* The crew gets exactly the un-executed rest of the plan, each step on    *)
(* the list of the one Specialist of its state who may call its tool.      *)
THEOREM HandoverHolds == Spec => []HandoverIsExact
<1>1. TiersInv => HandoverIsExact
  <2> SUFFICES ASSUME TiersInv PROVE HandoverIsExact
    OBVIOUS
  <2> DEFINE Holders(s) == {k \in DOMAIN subtasks : s \in ToSet(subtasks[k].worklist)}
  <2>1. ToSet(handed.steps) \cap Executed = {}
    BY DEF TiersInv, Handover
  <2>2. ASSUME stage # "idle", NEW s \in ToSet(handed.steps)
        PROVE  /\ Cardinality(Holders(s)) = 1
               /\ \A k \in Holders(s) : /\ s \in ToSet(subtasks[k].worklist)
                                        /\ subtasks[k].state = Info[s].state
                                        /\ Info[s].tool \in subtasks[k].atomics
    <3>1. Lists(subtasks, handed.steps)
      BY <2>2, AtWork
    <3>2. PICK k \in DOMAIN subtasks :
            /\ s \in ToSet(subtasks[k].worklist)
            /\ \A j \in DOMAIN subtasks : s \in ToSet(subtasks[j].worklist) => j = k
      BY <3>1 DEF Lists
    <3>3. Holders(s) = {k}
      BY <3>2
    <3>4. Cardinality(Holders(s)) = 1
      BY <3>3, FS_Singleton
    <3>5. PICK i \in DOMAIN subtasks[k].worklist : subtasks[k].worklist[i] = s
      BY <3>2 DEF ToSet
    <3>6. subtasks[k].state = Info[s].state /\ Info[s].tool \in subtasks[k].atomics
      BY <3>1, <3>5 DEF Lists
    <3> QED BY <3>2, <3>3, <3>4, <3>6
  <2>3. ASSUME stage # "idle", NEW k \in DOMAIN subtasks
        PROVE  ToSet(subtasks[k].worklist) \subseteq ToSet(handed.steps)
    <3>1. Lists(subtasks, handed.steps)
      BY <2>3, AtWork
    <3>2. \A i \in DOMAIN subtasks[k].worklist : subtasks[k].worklist[i] \in ToSet(handed.steps)
      BY <3>1 DEF Lists
    <3> QED BY <3>2 DEF ToSet
  <2> QED BY <2>1, <2>2, <2>3 DEF HandoverIsExact
<1> QED BY <1>1, TiersInvariant, PTL

(* While no step has failed and no verification was asked, a plan that     *)
(* lost steps, unless partly refused, is not executed where there is a     *)
(* crew: this is about the first plan and the retry adopted in its place,  *)
(* not about replans and patches, whose losses decide nothing.             *)
THEOREM FirstPlanWholeHolds == Spec => []FirstPlanNotShortened
<1>1. TiersInv => FirstPlanNotShortened
  BY DEF TiersInv, Whole
<1> QED BY <1>1, TiersInvariant, PTL

(* A plan run costs one call, its replans and its verification rounds, and *)
(* a crew stays within its budget, what the plan spent included, provided  *)
(* that a plan and its replans alone leave the budget a turn.              *)
THEOREM CallsHold == ASSUME ReplansFitTurns PROVE Spec => []CallsWithinBudget
<1>1. Init => TiersInv /\ WithinBudget
  BY InitHolds
<1>2. TiersInv /\ WithinBudget /\ [Next]_vars => (TiersInv /\ WithinBudget)'
  BY StepKeeps, BudgetKept
<1>3. TiersInv /\ WithinBudget => CallsWithinBudget
  <2> SUFFICES ASSUME TiersInv, ending.path # "crew"
               PROVE  turns <= 1 + lever.max_replans + lever.verify_rounds
    BY DEF CallsWithinBudget, WithinBudget
  <2>1. /\ turns \in Nat /\ replans \in Nat /\ rounds \in Nat
        /\ lever.max_replans \in Nat /\ lever.verify_rounds \in Nat
        /\ turns <= 1 + replans + rounds
        /\ replans <= lever.max_replans /\ rounds <= lever.verify_rounds
    BY LeversAssumption DEF TiersInv, Typed, Spent
  <2>2. \A t, k, n, a, b \in Nat : t <= 1 + k + n /\ k <= a /\ n <= b => t <= 1 + a + b
    OBVIOUS
  <2> QED BY <2>1, <2>2
<1> QED BY <1>1, <1>2, <1>3, PTL DEF Spec
=============================================================================
