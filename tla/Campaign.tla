------------------------------ MODULE Campaign ------------------------------
(* scripts/w30_supervisor.py over the runs of eval/runner.py: a supervisor *)
(* that starts one run at a time, watches the account's balance, parks     *)
(* runs that make no progress, and may be killed and started again; its    *)
(* child outlives it. The balance is the provider's.                       *)
EXTENDS Runner

CONSTANTS Cells,         \* the runs of the campaign
          Key,           \* those of the pre-specified family
          Cost,          \* COST: tokens per case
          WorkerCounts,  \* --workers (w30 starts its runs with one)
          MaxStalls,     \* MAX_STALLS
          MaxKills,      \* bound: kills of a runner or of the supervisor
          MaxDrains      \* bound: times the account runs dry

ASSUME CampaignAssumption ==
  /\ Key \subseteq Cells /\ Cost \in [Cells -> Nat \ {0}]
  /\ WorkerCounts \subseteq Nat \ {0}
  /\ MaxStalls \in Nat \ {0} /\ MaxKills \in Nat /\ MaxDrains \in Nat

VARIABLES
  dirs,       \* the run directories
  runners,    \* the processes alive
  phase,      \* the supervisor: "decide", "wait", or how it ended
  child,      \* the process it waits for: slot, cell and done_cases before
  stalls,     \* runs without progress, per cell; lost with the supervisor
  balance,    \* "healthy" or "low"
  shared,     \* cells two processes have been alive for at once
  kills, drains

supervisor == <<phase, child, stalls>>
vars == <<dirs, runners, supervisor, balance, shared, kills, drains>>

Ended == {"complete", "parked", "stopped"}
NoChild == [slot |-> 0]

(* Only a kill orphans a process, so there is always a slot for a new one. *)
Slots == 1..(MaxKills + 1)
FreeSlot == CHOOSE s \in Slots : ~runners[s].live

(* Mutant: "cases with an llm_calls entry", which a rejected call has too. *)
TouchedCases(d) == Cardinality({p \in Pairs : d.scored[p] > 0} \cup d.void)
(* done_cases: a line that does not parse is passed over.                  *)
DoneCases(d) == Cardinality({p \in Pairs : d.scored[p] > 0})
Missing(c) == Cardinality(Pairs) - DoneCases(dirs[c])

(* build_cells, without the parked ones: the key family first, then the    *)
(* fewest tokens.                                                          *)
Remaining == {c \in Cells : Missing(c) > 0 /\ stalls[c] < MaxStalls}
Before(c, d) ==
  \/ c \in Key /\ d \notin Key
  \/ (c \in Key <=> d \in Key) /\ Missing(c) * Cost[c] < Missing(d) * Cost[d]
NextCells == {c \in Remaining : ~ \E d \in Remaining : Before(d, c)}

(* balance_cny: the balance, or None when the endpoint does not answer.    *)
Probes == {balance, "unknown"}

-----------------------------------------------------------------------------
Init ==
  /\ dirs = [c \in Cells |-> EmptyDirectory]
  /\ runners = [s \in Slots |-> Idle]
  /\ phase = "decide" /\ child = NoChild
  /\ stalls = [c \in Cells |-> 0]
  /\ balance = "healthy" /\ shared = {}
  /\ kills = 0 /\ drains = 0

(* The top of main's loop: the stop flag, or no cell left.                 *)
Stop ==
  /\ phase = "decide" /\ phase' = "stopped"
  /\ UNCHANGED <<dirs, runners, child, stalls, balance, shared, kills, drains>>

Conclude ==
  /\ phase = "decide" /\ Remaining = {}
  /\ phase' = IF \E c \in Cells : stalls[c] >= MaxStalls THEN "parked" ELSE "complete"
  /\ UNCHANGED <<dirs, runners, child, stalls, balance, shared, kills, drains>>

(* main starts the first cell, unless a probe shows the account dry (it    *)
(* then sleeps and decides anew). A slot may still hold an orphan.         *)
StartCell ==
  /\ phase = "decide"
  /\ \E c \in NextCells, w \in WorkerCounts, seen \in Probes :
       /\ seen # "low"
       /\ runners' = [runners EXCEPT ![FreeSlot] = Started(c, dirs[c], w)]
       /\ child' = [slot |-> FreeSlot, cell |-> c, done |-> DoneCases(dirs[c])]
       /\ shared' = IF \E t \in Slots : runners[t].live /\ runners[t].cell = c
                    THEN shared \cup {c} ELSE shared
  /\ phase' = "wait"
  /\ UNCHANGED <<dirs, stalls, balance, kills, drains>>

(* Mutant: only a balance known to be healthy makes a stall, and an        *)
(* unknown one clears the count.                                           *)
StallsWhenKnown(c, progress, seen) ==
  CASE progress \/ seen = "unknown" -> [stalls EXCEPT ![c] = 0]
    [] ~progress /\ seen = "healthy" -> [stalls EXCEPT ![c] = @ + 1]
    [] OTHER -> stalls
(* What main makes of a run that is over: progress clears the cell's       *)
(* stalls; no progress is a stall unless the account is seen to be dry.    *)
StallsAfter(c, progress, seen) ==
  CASE progress -> [stalls EXCEPT ![c] = 0]
    [] ~progress /\ seen # "low" -> [stalls EXCEPT ![c] = @ + 1]
    [] OTHER -> stalls

JudgeCell ==
  /\ phase = "wait" /\ ~runners[child.slot].live
  /\ \E seen \in Probes :
       stalls' = StallsAfter(child.cell, DoneCases(dirs[child.cell]) > child.done, seen)
  /\ phase' = "decide" /\ child' = NoChild
  /\ UNCHANGED <<dirs, runners, balance, shared, kills, drains>>

(* The supervisor is killed and started again: its child runs on.          *)
SupervisorDies ==
  /\ phase \in {"decide", "wait"} /\ kills < MaxKills
  /\ kills' = kills + 1
  /\ phase' = "decide" /\ child' = NoChild
  /\ stalls' = [c \in Cells |-> 0]
  /\ UNCHANGED <<dirs, runners, balance, shared, drains>>

-----------------------------------------------------------------------------
Take(s) ==
  /\ \E p \in Pairs : /\ CanTake(runners[s], p)
                      /\ runners' = [runners EXCEPT ![s] = Taken(@, p)]
  /\ UNCHANGED <<dirs, supervisor, balance, shared, kills, drains>>

(* A dry account answers 402 to everything. Anything else may fail: a case *)
(* the provider refuses (golden-059) fails on every attempt.               *)
AttemptScores(s, p) ==
  LET r == runners[s]
  IN  /\ balance = "healthy"
      /\ runners' = [runners EXCEPT ![s] = Succeeded(r, p)]
      /\ dirs' = [dirs EXCEPT ![r.cell] = WriteTrace(@, p, TRUE)]
      /\ UNCHANGED <<supervisor, balance, shared, kills, drains>>

AttemptFails(s, p) ==
  LET r == runners[s]
  IN  /\ runners' = [runners EXCEPT ![s] = Failed(r, p)]
      /\ \E d \in {dirs[r.cell], WriteTrace(dirs[r.cell], p, FALSE)} :
           dirs' = [dirs EXCEPT ![r.cell] = d]
      /\ UNCHANGED <<supervisor, balance, shared, kills, drains>>

Exit(s) ==
  /\ Drained(runners[s])
  /\ runners' = [runners EXCEPT ![s] = Idle]
  /\ UNCHANGED <<dirs, supervisor, balance, shared, kills, drains>>

RunnerDies(s) ==
  /\ runners[s].live /\ kills < MaxKills
  /\ kills' = kills + 1
  /\ \E d \in Tearings(dirs[runners[s].cell], runners[s]) :
       dirs' = [dirs EXCEPT ![runners[s].cell] = d]
  /\ runners' = [runners EXCEPT ![s] = Idle]
  /\ UNCHANGED <<supervisor, balance, shared, drains>>

RunOut ==
  /\ balance = "healthy" /\ drains < MaxDrains
  /\ balance' = "low" /\ drains' = drains + 1
  /\ UNCHANGED <<dirs, runners, supervisor, shared, kills>>

TopUp ==
  /\ balance = "low" /\ balance' = "healthy"
  /\ UNCHANGED <<dirs, runners, supervisor, shared, kills, drains>>

Busy(s) == IF runners[s].live THEN DOMAIN runners[s].busy ELSE {}
Work(s) ==
  \/ Take(s) \/ Exit(s)
  \/ \E p \in Busy(s) : AttemptScores(s, p) \/ AttemptFails(s, p)

Supervise == Conclude \/ StartCell \/ JudgeCell
Next ==
  \/ Supervise \/ Stop \/ SupervisorDies \/ RunOut \/ TopUp
  \/ \E s \in Slots : Work(s) \/ RunnerDies(s)

(* The processes keep running, agent.run returns, and somebody tops up.    *)
Spec ==
  /\ Init /\ [][Next]_vars
  /\ WF_vars(Supervise) /\ WF_vars(TopUp) /\ \A s \in Slots : WF_vars(Work(s))

-----------------------------------------------------------------------------
CampaignTypeOK ==
  /\ dirs \in [Cells -> Directories]
  /\ \A s \in Slots : runners[s] # Idle =>
       /\ runners[s].cell \in Cells /\ runners[s].workers \in WorkerCounts
       /\ runners[s].todo \subseteq Pairs
       /\ runners[s].busy \in [DOMAIN runners[s].busy -> 0..MaxReruns]
       /\ DOMAIN runners[s].busy \subseteq Pairs
  /\ phase \in {"decide", "wait"} \cup Ended
  /\ child \in {NoChild} \cup [slot : Slots, cell : Cells, done : 0..Len(Selected)]
  /\ stalls \in [Cells -> 0..MaxStalls] /\ shared \subseteq Cells
  /\ balance \in {"healthy", "low"} /\ kills \in 0..MaxKills /\ drains \in 0..MaxDrains

(* Kills, resumes, reruns and a pool of workers never make a pair count    *)
(* twice in a run directory, unless two processes shared it: a case that   *)
(* is scored twice weighs twice in the statistics of its arm. The pairs    *)
(* selected are distinct; --golden-ids takes one twice if it is given so.  *)
NoPairScoredTwice ==
  \A c \in Cells \ shared : \A p \in Pairs : dirs[c].scored[p] <= 1

(* A run about to exit with 0 has a readable scoreable line of every pair, *)
(* those it skipped included, as long as no line of the file was torn.     *)
ExitZeroIsComplete ==
  \A s \in Slots :
    LET r == runners[s]
    IN  r.live /\ r.todo = {} /\ DOMAIN r.busy = {} /\ r.failed = 0 =>
          \/ dirs[r.cell].tail # "whole"
          \/ \A p \in Pairs : dirs[r.cell].scored[p] > 0

(* "ALL CELLS COMPLETE" is said of a campaign only when every case of      *)
(* every cell reached a terminal state, whatever outages left in the files *)
(* ("the archive fills with junk that looks like data").                   *)
VerdictIsTrue ==
  phase = "complete" => \A c \in Cells, p \in Pairs : dirs[c].scored[p] > 0

(* Whatever the provider refuses, whenever processes die and the probe is  *)
(* unanswered: once the account is topped up the supervisor comes to an    *)
(* end, it never starts the same hopeless cell forever.                    *)
CampaignEnds == <>(phase \in Ended)

(* done_cases passes over a torn last line ("a torn last line is not       *)
(* fatal"); then a cell whose pairs the provider does answer is not given  *)
(* up because of it.                                                       *)
TornLineIsNotFatal ==
  phase = "parked" => \A c \in Cells : dirs[c].tail # "whole" => stalls[c] < MaxStalls
=============================================================================
