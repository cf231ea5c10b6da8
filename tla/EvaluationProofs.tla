-------------------------- MODULE EvaluationProofs --------------------------
(***************************************************************************)
(* What is proved of the evaluation.  Of a campaign, for every set of      *)
(* runs, work list, number of workers and of reruns, and any number of     *)
(* kills and outages: its types, that no pair is scored twice, that an     *)
(* exit code of 0 means a complete trace file, and that "ALL CELLS         *)
(* COMPLETE" is true.  Of the scoring, for every project and values, every *)
(* set of records and any number of calls: that the verdict of a row is    *)
(* about the project, which the scorer never sees, and that work that was  *)
(* done is not scored as a failure.                                        *)
(***************************************************************************)
EXTENDS Campaign, Scoring, FiniteSetTheorems, WellFoundedInduction, TLAPS

Process == [live : {TRUE}, cell : Cells, workers : WorkerCounts, todo : SUBSET Pairs,
            busy : UNION {[D -> 0..MaxReruns] : D \in SUBSET Pairs}, failed : Nat]
Children == [slot : Slots, cell : Cells, done : 0..Len(Selected)]

Typed ==
  /\ dirs \in [Cells -> Directories]
  /\ runners \in [Slots -> {Idle} \cup Process]
  /\ phase \in {"decide", "wait"} \cup Ended
  /\ stalls \in [Cells -> 0..MaxStalls] /\ shared \subseteq Cells
  /\ balance \in {"healthy", "low"} /\ kills \in 0..MaxKills /\ drains \in 0..MaxDrains
  /\ IF phase = "wait" THEN child \in Children /\ stalls[child.cell] < MaxStalls
     ELSE child = NoChild

(* Only kills leave processes behind that the supervisor does not wait for. *)
Orphans == {s \in Slots : runners[s].live /\ s # child.slot}
OrphansCounted == Cardinality(Orphans) <= kills

-----------------------------------------------------------------------------
LEMMA PairsFinite ==
  /\ IsFiniteSet(Pairs) /\ Cardinality(Pairs) \in Nat
  /\ Cardinality(Pairs) <= Len(Selected) /\ Len(Selected) \in Nat
<1>1. Len(Selected) \in Nat /\ Selected \in [1..Len(Selected) -> Pairs]
  BY RunnerAssumption
<1>2. Selected \in Surjection(1..Len(Selected), Pairs)
  BY <1>1 DEF Surjection, Pairs, Range
<1>3. /\ IsFiniteSet(1..Len(Selected)) /\ Cardinality(1..Len(Selected)) = Len(Selected)
  <2>1. \A n \in Nat : IsFiniteSet(1..n) /\ Cardinality(1..n) = n
    BY FS_Interval
  <2> QED BY <1>1, <2>1
<1>4. IsFiniteSet(Pairs) /\ Cardinality(Pairs) <= Len(Selected)
  BY <1>2, <1>3, FS_Surjection
<1> QED BY <1>1, <1>4, FS_CardinalityType

(* done_cases counts the pairs with a scoreable line, all of them or fewer. *)
LEMMA DoneCounts ==
  ASSUME NEW d \in Directories
  PROVE  /\ DoneCases(d) \in 0..Len(Selected) /\ DoneCases(d) <= Cardinality(Pairs)
         /\ DoneCases(d) = Cardinality(Pairs) => \A p \in Pairs : d.scored[p] > 0
<1> DEFINE done == {p \in Pairs : d.scored[p] > 0}
<1>1. done \in SUBSET Pairs
  OBVIOUS
<1>2. /\ IsFiniteSet(done) /\ Cardinality(done) <= Cardinality(Pairs)
      /\ Cardinality(Pairs) = Cardinality(done) => Pairs = done
  BY <1>1, PairsFinite, FS_Subset
<1>3. Cardinality(done) \in Nat
  BY <1>2, FS_CardinalityType
<1>4. DoneCases(d) = Cardinality(done)
  BY DEF DoneCases
<1>5. Cardinality(Pairs) = Cardinality(done) => \A p \in Pairs : d.scored[p] > 0
  BY <1>2
<1> HIDE DEF done
<1> QED BY <1>2, <1>3, <1>4, <1>5, PairsFinite

LEMMA FreeSlotIsFree ==
  ASSUME Typed, OrphansCounted, phase # "wait"
  PROVE  FreeSlot \in Slots /\ ~runners[FreeSlot].live
<1>1. /\ IsFiniteSet(Slots) /\ Cardinality(Slots) = MaxKills + 1
      /\ \A s \in Slots : s # 0
  <2>1. MaxKills \in Nat
    BY CampaignAssumption
  <2> QED BY <2>1, FS_Interval DEF Slots
<1>2. Orphans = {s \in Slots : runners[s].live}
  BY <1>1 DEF Orphans, Typed, NoChild
<1>3. Orphans # Slots
  <2>1. kills <= MaxKills /\ kills \in Nat /\ MaxKills \in Nat
    BY CampaignAssumption DEF Typed
  <2> QED BY <1>1, <2>1 DEF OrphansCounted
<1>4. \E s \in Slots : ~runners[s].live
  BY <1>2, <1>3
<1> QED BY <1>4 DEF FreeSlot

-----------------------------------------------------------------------------
(* What one step of a process makes of itself and of its run directory.    *)
Works(r, d, r2, d2) ==
  /\ d2 \in Directories /\ r2 \in {Idle} \cup Process
  /\ r2.live => /\ r2.cell = r.cell
                /\ r2.todo \cup DOMAIN r2.busy \subseteq r.todo \cup DOMAIN r.busy
                /\ r.todo \cap DOMAIN r.busy = {} => r2.todo \cap DOMAIN r2.busy = {}
  /\ \A p \in Pairs : d2.scored[p] # d.scored[p] =>
       /\ p \in DOMAIN r.busy /\ d2.scored[p] = d.scored[p] + 1
       /\ r2.live /\ r.todo \cap DOMAIN r.busy = {} => p \notin r2.todo \cup DOMAIN r2.busy
  /\ d2.tail = "whole" => d.tail = "whole"
  /\ r2.live /\ r2.failed = 0 /\ d2.tail = "whole" =>
       /\ r.failed = 0
       /\ \A p \in r.todo \cup DOMAIN r.busy :
            p \in r2.todo \cup DOMAIN r2.busy \/ d2.scored[p] > 0

LEMMA TraceWritten ==
  ASSUME NEW d \in Directories, NEW p \in Pairs, NEW ok \in BOOLEAN
  PROVE  /\ WriteTrace(d, p, ok) \in Directories
         /\ \A q \in Pairs : WriteTrace(d, p, ok).scored[q] # d.scored[q] =>
              q = p /\ ok /\ WriteTrace(d, p, ok).scored[q] = d.scored[q] + 1
         /\ WriteTrace(d, p, ok).tail = "whole" =>
              d.tail = "whole" /\ (ok => WriteTrace(d, p, ok).scored[p] > 0)
<1>1. CASE d.tail = "open"
  BY <1>1 DEF WriteTrace, Directories
<1>2. CASE d.tail # "open" /\ ok
  <2> DEFINE n == IF d.scored[p] = 2 THEN 2 ELSE d.scored[p] + 1
             e == [d EXCEPT !.scored = [d.scored EXCEPT ![p] = n]]
  <2>1. WriteTrace(d, p, ok) = e
    BY <1>2 DEF WriteTrace
  <2>2. d.scored \in [Pairs -> 0..2] /\ n \in 0..2 /\ n > 0
        /\ (n # d.scored[p] => n = d.scored[p] + 1)
    BY DEF Directories
  <2> HIDE DEF n
  <2>3. e \in Directories /\ e.tail = d.tail
        /\ \A q \in Pairs : e.scored[q] = IF q = p THEN n ELSE d.scored[q]
    BY <2>2 DEF Directories
  <2> HIDE DEF e
  <2> QED BY <1>2, <2>1, <2>2, <2>3
<1>3. CASE d.tail # "open" /\ ~ok
  BY <1>3 DEF WriteTrace, Directories
<1> QED BY <1>1, <1>2, <1>3

LEMMA PairWritten ==
  ASSUME NEW d \in Directories, NEW p \in Pairs, NEW e, e = WriteTrace(d, p, TRUE)
  PROVE  /\ e \in Directories
         /\ \A q \in Pairs : e.scored[q] # d.scored[q] =>
              q = p /\ e.scored[q] = d.scored[q] + 1
         /\ e.tail = "whole" => d.tail = "whole" /\ e.scored[p] > 0
<1>1. PICK ok \in BOOLEAN : ok
  OBVIOUS
<1>2. e = WriteTrace(d, p, ok)
  BY <1>1
<1>3. /\ WriteTrace(d, p, ok) \in Directories
      /\ \A q \in Pairs : WriteTrace(d, p, ok).scored[q] # d.scored[q] =>
           q = p /\ ok /\ WriteTrace(d, p, ok).scored[q] = d.scored[q] + 1
      /\ WriteTrace(d, p, ok).tail = "whole" =>
           d.tail = "whole" /\ (ok => WriteTrace(d, p, ok).scored[p] > 0)
  BY TraceWritten
<1> QED BY <1>1, <1>2, <1>3

LEMMA AProcess ==
  ASSUME NEW r \in Process
  PROVE  /\ r.live /\ r.cell \in Cells /\ r.todo \in SUBSET Pairs /\ r.failed \in Nat
         /\ DOMAIN r.busy \subseteq Pairs /\ r.busy = [p \in DOMAIN r.busy |-> r.busy[p]]
         /\ \A p \in DOMAIN r.busy : r.busy[p] \in 0..MaxReruns
<1>1. /\ r.live /\ r.cell \in Cells /\ r.todo \in SUBSET Pairs /\ r.failed \in Nat
      /\ r.busy \in UNION {[D -> 0..MaxReruns] : D \in SUBSET Pairs}
  BY DEF Process
<1>2. PICK D \in SUBSET Pairs : r.busy \in [D -> 0..MaxReruns]
  BY <1>1
<1> QED BY <1>1, <1>2

LEMMA ALive ==
  ASSUME Typed, NEW s \in Slots, runners[s].live
  PROVE  runners[s] \in Process /\ runners[s].cell \in Cells
<1>1. runners[s] \in Process
  BY DEF Typed, Idle
<1> QED BY <1>1, AProcess

LEMMA BusyIs ==
  ASSUME NEW b, b = [p \in DOMAIN b |-> b[p]], DOMAIN b \subseteq Pairs,
         \A p \in DOMAIN b : b[p] \in 0..MaxReruns
  PROVE  b \in UNION {[D -> 0..MaxReruns] : D \in SUBSET Pairs}
<1>1. b \in [DOMAIN b -> 0..MaxReruns]
  OBVIOUS
<1> QED BY <1>1

LEMMA TakenWorks ==
  ASSUME NEW r \in Process, NEW d \in Directories, NEW p \in Pairs, CanTake(r, p)
  PROVE  Works(r, d, Taken(r, p), d)
<1> DEFINE b == [q \in DOMAIN r.busy \cup {p} |-> IF q = p THEN 0 ELSE r.busy[q]]
           r2 == Taken(r, p)
<1>1. MaxReruns \in Nat /\ p \in r.todo
  BY RunnerAssumption DEF CanTake
<1>2. b \in UNION {[D -> 0..MaxReruns] : D \in SUBSET Pairs} /\ DOMAIN b = DOMAIN r.busy \cup {p}
  <2>1. /\ DOMAIN b = DOMAIN r.busy \cup {p} /\ b = [q \in DOMAIN b |-> b[q]]
        /\ \A q \in DOMAIN b : b[q] = IF q = p THEN 0 ELSE r.busy[q]
    OBVIOUS
  <2>2. DOMAIN r.busy \subseteq Pairs /\ \A q \in DOMAIN r.busy : r.busy[q] \in 0..MaxReruns
    BY AProcess
  <2>3. 0 \in 0..MaxReruns
    BY <1>1
  <2> HIDE DEF b
  <2>4. DOMAIN b \subseteq Pairs /\ \A q \in DOMAIN b : b[q] \in 0..MaxReruns
    BY <2>1, <2>2, <2>3
  <2> QED BY <2>1, <2>4, BusyIs
<1>3. r2 = [r EXCEPT !.busy = b, !.todo = r.todo \ {p}]
  BY DEF Taken
<1> HIDE DEF b, r2
<1>4. /\ r2 \in Process /\ r2.cell = r.cell /\ r2.failed = r.failed
      /\ r2.todo = r.todo \ {p} /\ DOMAIN r2.busy = DOMAIN r.busy \cup {p}
  BY <1>2, <1>3 DEF Process
<1> QED BY <1>1, <1>4 DEF Works, r2

LEMMA FreedIs ==
  ASSUME NEW r \in Process, NEW p \in DOMAIN r.busy
  PROVE  /\ Freed(r, p) \in Process
         /\ Freed(r, p).cell = r.cell /\ Freed(r, p).todo = r.todo
         /\ Freed(r, p).failed = r.failed
         /\ DOMAIN Freed(r, p).busy = DOMAIN r.busy \ {p}
<1> DEFINE b == [q \in DOMAIN r.busy \ {p} |-> r.busy[q]]
<1>1. b \in UNION {[D -> 0..MaxReruns] : D \in SUBSET Pairs} /\ DOMAIN b = DOMAIN r.busy \ {p}
  <2>1. /\ DOMAIN b = DOMAIN r.busy \ {p} /\ b = [q \in DOMAIN b |-> b[q]]
        /\ \A q \in DOMAIN b : b[q] = r.busy[q]
    OBVIOUS
  <2>2. DOMAIN r.busy \subseteq Pairs /\ \A q \in DOMAIN r.busy : r.busy[q] \in 0..MaxReruns
    BY AProcess
  <2> HIDE DEF b
  <2> QED BY <2>1, <2>2, BusyIs
<1>2. Freed(r, p) = [r EXCEPT !.busy = b]
  BY DEF Freed
<1> HIDE DEF b
<1> QED BY <1>1, <1>2 DEF Process

LEMMA SucceededWorks ==
  ASSUME NEW r \in Process, NEW d \in Directories, NEW p \in DOMAIN r.busy
  PROVE  Works(r, d, Succeeded(r, p), WriteTrace(d, p, TRUE))
<1>1. p \in Pairs
  BY AProcess
<1> DEFINE e == WriteTrace(d, p, TRUE)
           r2 == Succeeded(r, p)
<1>2. /\ e \in Directories
      /\ \A q \in Pairs : e.scored[q] # d.scored[q] =>
           q = p /\ e.scored[q] = d.scored[q] + 1
      /\ e.tail = "whole" => d.tail = "whole" /\ e.scored[p] > 0
  BY <1>1, PairWritten
<1>3. /\ r2 \in Process /\ r2.cell = r.cell /\ r2.todo = r.todo /\ r2.failed = r.failed
      /\ DOMAIN r2.busy = DOMAIN r.busy \ {p}
  BY FreedIs DEF Succeeded
<1> HIDE DEF e, r2
<1> QED BY <1>2, <1>3 DEF Works, e, r2

LEMMA FailedWorks ==
  ASSUME NEW r \in Process, NEW d \in Directories, NEW p \in DOMAIN r.busy,
         NEW e \in {d, WriteTrace(d, p, FALSE)}
  PROVE  Works(r, d, Failed(r, p), e)
<1>1. p \in Pairs
  BY AProcess
<1>2. /\ e \in Directories /\ \A q \in Pairs : e.scored[q] = d.scored[q]
      /\ e.tail = "whole" => d.tail = "whole"
  <2>1. CASE e = d
    BY <2>1
  <2>2. CASE e = WriteTrace(d, p, FALSE)
    BY <1>1, <2>2, TraceWritten
  <2> QED BY <2>1, <2>2
<1> DEFINE r2 == Failed(r, p)
<1>3. CASE r.busy[p] < MaxReruns
  <2> DEFINE b == [r.busy EXCEPT ![p] = r.busy[p] + 1]
  <2>1. b \in UNION {[D -> 0..MaxReruns] : D \in SUBSET Pairs} /\ DOMAIN b = DOMAIN r.busy
    <3>1. r.busy[p] \in 0..MaxReruns /\ MaxReruns \in Nat
      BY AProcess, RunnerAssumption
    <3>2. r.busy[p] + 1 \in 0..MaxReruns
      BY <1>3, <3>1
    <3>3. /\ DOMAIN b = DOMAIN r.busy /\ b = [q \in DOMAIN b |-> b[q]]
          /\ \A q \in DOMAIN b : b[q] = IF q = p THEN r.busy[p] + 1 ELSE r.busy[q]
      BY AProcess
    <3>4. DOMAIN r.busy \subseteq Pairs /\ \A q \in DOMAIN r.busy : r.busy[q] \in 0..MaxReruns
      BY AProcess
    <3> HIDE DEF b
    <3> QED BY <3>2, <3>3, <3>4, BusyIs
  <2>2. r2 = [r EXCEPT !.busy = b]
    BY <1>3 DEF Failed
  <2> HIDE DEF b, r2
  <2>3. /\ r2 \in Process /\ r2.cell = r.cell /\ r2.todo = r.todo /\ r2.failed = r.failed
        /\ DOMAIN r2.busy = DOMAIN r.busy
    BY <2>1, <2>2 DEF Process
  <2> QED BY <1>2, <2>3 DEF Works, r2
<1>4. CASE ~(r.busy[p] < MaxReruns)
  <2> DEFINE f == Freed(r, p)
  <2>1. /\ f \in Process /\ f.cell = r.cell /\ f.todo = r.todo
        /\ DOMAIN f.busy = DOMAIN r.busy \ {p}
    BY FreedIs
  <2>2. r2 = [f EXCEPT !.failed = f.failed + 1]
    BY <1>4 DEF Failed
  <2> HIDE DEF f, r2
  <2>4. f.failed \in Nat /\ f.failed + 1 \in Nat /\ f.failed + 1 # 0
    <3>1. f.failed \in Nat
      BY <2>1, AProcess
    <3>2. \A n \in Nat : n + 1 \in Nat /\ n + 1 # 0
      OBVIOUS
    <3> QED BY <3>1, <3>2, Zenon
  <2>3. /\ r2 \in Process /\ r2.cell = r.cell /\ r2.todo = r.todo /\ r2.failed # 0
        /\ DOMAIN r2.busy = DOMAIN r.busy \ {p}
    BY <2>1, <2>2, <2>4 DEF Process
  <2> QED BY <1>2, <2>3 DEF Works, r2
<1> QED BY <1>3, <1>4

LEMMA EndedWorks ==
  ASSUME NEW r \in Process, NEW d \in Directories, NEW e \in Tearings(d, r) \cup {d}
  PROVE  Works(r, d, Idle, e)
<1>1. e \in Directories /\ e.scored = d.scored /\ (e.tail = "whole" => d.tail = "whole")
  BY DEF Tearings, Directories
<1> QED BY <1>1 DEF Works, Idle

-----------------------------------------------------------------------------
(* Every action is the supervisor's, the account's or one of Works.        *)
Runs(s) ==
  \E r2 \in {Idle} \cup Process, d2 \in Directories :
    /\ runners[s] \in Process
    /\ Works(runners[s], dirs[runners[s].cell], r2, d2)
    /\ runners' = [runners EXCEPT ![s] = r2]
    /\ dirs' = [dirs EXCEPT ![runners[s].cell] = d2]
    /\ kills' \in {kills, kills + 1} /\ kills' \in 0..MaxKills
    /\ UNCHANGED <<supervisor, balance, shared, drains>>

LEMMA StepsOfARun ==
  ASSUME Typed, NEW s \in Slots, Work(s) \/ RunnerDies(s)
  PROVE  Runs(s)
<1> DEFINE r == runners[s]
           d == dirs[r.cell]
<1>1. r \in {Idle} \cup Process /\ kills \in 0..MaxKills
  BY DEF Typed
<1>2. r \in Process => r.cell \in Cells /\ d \in Directories
  BY AProcess DEF Typed
<1>3. dirs = [dirs EXCEPT ![r.cell] = d]
  BY DEF Typed
<1>4. CASE Take(s)
  <2>1. PICK p \in Pairs : CanTake(r, p) /\ runners' = [runners EXCEPT ![s] = Taken(r, p)]
    BY <1>4 DEF Take
  <2>2. r \in Process
    BY <1>1, <2>1 DEF CanTake, Idle
  <2>3. Works(r, d, Taken(r, p), d)
    BY <1>2, <2>1, <2>2, TakenWorks
  <2>4. Taken(r, p) \in {Idle} \cup Process
    BY <2>3 DEF Works
  <2> QED BY <1>1, <1>2, <1>3, <1>4, <2>1, <2>2, <2>3, <2>4 DEF Runs, Take
<1>5. CASE Exit(s)
  <2>1. r \in Process
    BY <1>1, <1>5 DEF Exit, Drained, Idle
  <2>2. Works(r, d, Idle, d)
    BY <1>2, <2>1, EndedWorks
  <2> QED BY <1>1, <1>2, <1>3, <1>5, <2>1, <2>2 DEF Runs, Exit
<1>6. ASSUME NEW p \in Busy(s), AttemptScores(s, p) \/ AttemptFails(s, p) PROVE Runs(s)
  <2>1. r \in Process /\ p \in DOMAIN r.busy
    BY <1>1, <1>6 DEF Busy, Idle
  <2>2. CASE AttemptScores(s, p)
    <3>1. Works(r, d, Succeeded(r, p), WriteTrace(d, p, TRUE))
      BY <1>2, <2>1, SucceededWorks
    <3>2. Succeeded(r, p) \in {Idle} \cup Process /\ WriteTrace(d, p, TRUE) \in Directories
      BY <3>1 DEF Works
    <3> QED BY <1>1, <2>1, <2>2, <3>1, <3>2 DEF Runs, AttemptScores
  <2>3. CASE AttemptFails(s, p)
    <3>1. PICK e \in {d, WriteTrace(d, p, FALSE)} : dirs' = [dirs EXCEPT ![r.cell] = e]
      BY <2>3 DEF AttemptFails
    <3>2. Works(r, d, Failed(r, p), e)
      BY <1>2, <2>1, FailedWorks
    <3>3. Failed(r, p) \in {Idle} \cup Process /\ e \in Directories
      BY <3>2 DEF Works
    <3> QED BY <1>1, <2>1, <2>3, <3>1, <3>2, <3>3 DEF Runs, AttemptFails
  <2> QED BY <1>6, <2>2, <2>3
<1>7. CASE RunnerDies(s)
  <2>1. r \in Process
    BY <1>1, <1>7 DEF RunnerDies, Idle
  <2>2. PICK e \in Tearings(d, r) : dirs' = [dirs EXCEPT ![r.cell] = e]
    BY <1>7 DEF RunnerDies
  <2>3. Works(r, d, Idle, e)
    BY <1>2, <2>1, EndedWorks
  <2>4. e \in Directories
    BY <2>3 DEF Works
  <2>5. kills' = kills + 1 /\ kills' \in 0..MaxKills
    BY <1>1, <1>7, CampaignAssumption DEF RunnerDies
  <2> QED BY <1>7, <2>1, <2>2, <2>3, <2>4, <2>5 DEF Runs, RunnerDies
<1> QED BY <1>4, <1>5, <1>6, <1>7 DEF Work

-----------------------------------------------------------------------------
(* The inductive invariant. A cell no two processes were alive for at once *)
(* has one process at most, and what that process has still to run is      *)
(* unscored; what a process without failures neither has to run nor is     *)
(* running is scored, while every line of its file is whole.               *)
Alone ==
  \A s, t \in Slots :
    /\ runners[s].live /\ runners[t].live
    /\ runners[s].cell = runners[t].cell /\ runners[s].cell \notin shared
    => s = t
Fresh ==
  \A s \in Slots : runners[s].live =>
    LET r == runners[s]
    IN  /\ r.todo \cap DOMAIN r.busy = {}
        /\ r.cell \notin shared =>
             \A p \in r.todo \cup DOMAIN r.busy : dirs[r.cell].scored[p] = 0
Covered ==
  \A s \in Slots :
    LET r == runners[s]
    IN  r.live /\ r.failed = 0 /\ dirs[r.cell].tail = "whole" =>
          \A p \in Pairs :
            p \in r.todo \cup DOMAIN r.busy \/ dirs[r.cell].scored[p] > 0

CampaignInv ==
  /\ Typed /\ OrphansCounted
  /\ Alone /\ Fresh /\ NoPairScoredTwice
  /\ Covered
  /\ VerdictIsTrue

(* What a step of a process preserves.                                     *)
LEMMA RunTyped ==
  ASSUME Typed, NEW s \in Slots, Runs(s)
  PROVE  Typed' /\ (OrphansCounted => OrphansCounted')
<1>1. PICK r2 \in {Idle} \cup Process, d2 \in Directories :
        /\ runners[s] \in Process
        /\ Works(runners[s], dirs[runners[s].cell], r2, d2)
        /\ runners' = [runners EXCEPT ![s] = r2]
        /\ dirs' = [dirs EXCEPT ![runners[s].cell] = d2]
        /\ kills' \in {kills, kills + 1} /\ kills' \in 0..MaxKills
        /\ UNCHANGED <<supervisor, balance, shared, drains>>
  BY DEF Runs
<1>2. Typed'
  BY <1>1 DEF Typed, supervisor
<1>3. Orphans' \subseteq Orphans
  <2>1. \A t \in Slots : runners'[t].live => runners[t].live
    BY <1>1, AProcess DEF Typed
  <2> QED BY <1>1, <2>1 DEF Orphans, supervisor
<1>4. IsFiniteSet(Orphans) /\ IsFiniteSet(Orphans')
  <2>1. IsFiniteSet(Slots)
    BY FS_Interval, CampaignAssumption DEF Slots
  <2>2. Orphans \in SUBSET Slots /\ Orphans' \in SUBSET Slots
    BY <1>3 DEF Orphans
  <2> QED BY <2>1, <2>2, FS_Subset
<1>5. /\ Cardinality(Orphans') <= Cardinality(Orphans)
      /\ Cardinality(Orphans) \in Nat /\ Cardinality(Orphans') \in Nat
  BY <1>3, <1>4, FS_Subset, FS_CardinalityType
<1>6. kills' >= kills /\ kills \in Nat /\ kills' \in Nat
  BY <1>1, CampaignAssumption DEF Typed
<1> QED BY <1>2, <1>5, <1>6 DEF OrphansCounted

LEMMA RunScores ==
  ASSUME Typed, Alone, Fresh, NoPairScoredTwice, NEW s \in Slots, Runs(s)
  PROVE  (Alone /\ Fresh /\ NoPairScoredTwice)'
<1>1. PICK r2 \in {Idle} \cup Process, d2 \in Directories :
        /\ runners[s] \in Process
        /\ Works(runners[s], dirs[runners[s].cell], r2, d2)
        /\ runners' = [runners EXCEPT ![s] = r2]
        /\ dirs' = [dirs EXCEPT ![runners[s].cell] = d2]
        /\ shared' = shared
  BY DEF Runs
<1> DEFINE r == runners[s]
           d == dirs[r.cell]
<1>2. r \in Process /\ r.live /\ r.cell \in Cells /\ d \in Directories
  BY <1>1, AProcess DEF Typed
<1>3. /\ runners'[s] = r2 /\ \A t \in Slots \ {s} : runners'[t] = runners[t]
      /\ dirs'[r.cell] = d2 /\ \A c \in Cells \ {r.cell} : dirs'[c] = dirs[c]
  BY <1>1, <1>2 DEF Typed
<1>4. /\ r2.live => /\ r2.cell = r.cell
                    /\ r2.todo \cup DOMAIN r2.busy \subseteq r.todo \cup DOMAIN r.busy
                    /\ r.todo \cap DOMAIN r.busy = {} => r2.todo \cap DOMAIN r2.busy = {}
      /\ \A p \in Pairs : d2.scored[p] # d.scored[p] =>
           /\ p \in DOMAIN r.busy /\ d2.scored[p] = d.scored[p] + 1
           /\ r2.live /\ r.todo \cap DOMAIN r.busy = {} =>
                p \notin r2.todo \cup DOMAIN r2.busy
  BY <1>1 DEF Works
<1>5. /\ r.todo \cap DOMAIN r.busy = {} /\ r.todo \cup DOMAIN r.busy \subseteq Pairs
      /\ r.cell \notin shared => \A p \in r.todo \cup DOMAIN r.busy : d.scored[p] = 0
  BY <1>2, AProcess DEF Fresh
<1> HIDE DEF r, d
<1>6. \A t \in Slots : runners'[t].live =>
        runners[t].live /\ runners'[t].cell = runners[t].cell
  BY <1>2, <1>3, <1>4 DEF r
<1>7. Alone'
  BY <1>1, <1>6 DEF Alone
<1>8. Fresh'
  <2> SUFFICES ASSUME NEW t \in Slots, runners'[t].live
               PROVE  LET q == runners'[t]
                      IN  /\ q.todo \cap DOMAIN q.busy = {}
                          /\ q.cell \notin shared =>
                               \A p \in q.todo \cup DOMAIN q.busy : dirs'[q.cell].scored[p] = 0
    BY <1>1 DEF Fresh
  <2>1. CASE t = s
    BY <1>3, <1>4, <1>5, <2>1
  <2>2. CASE t # s
    <3>1. runners'[t] = runners[t] /\ runners[t].live
      BY <1>3, <2>2
    <3>2. runners[t].cell \notin shared => runners[t].cell # r.cell
      BY <1>2, <2>2, <3>1 DEF Alone, r
    <3>3. runners[t].cell \in Cells
      BY <3>1, ALive
    <3> QED BY <1>3, <3>1, <3>2, <3>3 DEF Fresh
  <2> QED BY <2>1, <2>2
<1>9. NoPairScoredTwice'
  <2> SUFFICES ASSUME NEW c \in Cells \ shared, NEW p \in Pairs
               PROVE  dirs'[c].scored[p] <= 1
    BY <1>1 DEF NoPairScoredTwice
  <2>1. CASE c # r.cell
    BY <1>3, <2>1 DEF NoPairScoredTwice
  <2>2. CASE c = r.cell /\ d2.scored[p] = d.scored[p]
    BY <1>3, <2>2 DEF NoPairScoredTwice, d
  <2>3. CASE c = r.cell /\ d2.scored[p] # d.scored[p]
    BY <1>3, <1>4, <1>5, <2>3
  <2> QED BY <2>1, <2>2, <2>3
<1> QED BY <1>7, <1>8, <1>9

LEMMA RunCovers ==
  ASSUME Typed, Covered, VerdictIsTrue, NEW s \in Slots, Runs(s)
  PROVE  (Covered /\ VerdictIsTrue)'
<1>1. PICK r2 \in {Idle} \cup Process, d2 \in Directories :
        /\ runners[s] \in Process
        /\ Works(runners[s], dirs[runners[s].cell], r2, d2)
        /\ runners' = [runners EXCEPT ![s] = r2]
        /\ dirs' = [dirs EXCEPT ![runners[s].cell] = d2]
        /\ phase' = phase
  BY DEF Runs, supervisor
<1> DEFINE r == runners[s]
           d == dirs[r.cell]
<1>2. r \in Process /\ r.live /\ r.cell \in Cells /\ d \in Directories
  BY <1>1, AProcess DEF Typed
<1>3. /\ runners'[s] = r2 /\ \A t \in Slots \ {s} : runners'[t] = runners[t]
      /\ dirs'[r.cell] = d2 /\ \A c \in Cells \ {r.cell} : dirs'[c] = dirs[c]
  BY <1>1, <1>2 DEF Typed
<1>4. /\ r2.live => r2.cell = r.cell
      /\ d2.tail = "whole" => d.tail = "whole"
      /\ r2.live /\ r2.failed = 0 /\ d2.tail = "whole" =>
           /\ r.failed = 0
           /\ \A p \in r.todo \cup DOMAIN r.busy :
                p \in r2.todo \cup DOMAIN r2.busy \/ d2.scored[p] > 0
  BY <1>1 DEF Works
<1>5. \A p \in Pairs : d.scored[p] > 0 => d2.scored[p] > 0
  <2>1. \A p \in Pairs : d.scored[p] \in 0..2
    BY <1>2 DEF Directories
  <2>2. \A p \in Pairs : d2.scored[p] # d.scored[p] => d2.scored[p] = d.scored[p] + 1
    BY <1>1 DEF Works
  <2> HIDE DEF d
  <2> QED BY <2>1, <2>2
<1>6. r.failed = 0 /\ d.tail = "whole" =>
        \A p \in Pairs : p \in r.todo \cup DOMAIN r.busy \/ d.scored[p] > 0
  BY <1>2 DEF Covered
<1>7. \A c \in Cells, p \in Pairs :
        /\ dirs[c].scored[p] > 0 => dirs'[c].scored[p] > 0
        /\ dirs'[c].tail = "whole" => dirs[c].tail = "whole"
  BY <1>3, <1>4, <1>5
<1> HIDE DEF r, d
<1>8. Covered'
  <2> SUFFICES ASSUME NEW t \in Slots, NEW p \in Pairs, runners'[t].live,
                      runners'[t].failed = 0, dirs'[runners'[t].cell].tail = "whole"
               PROVE  \/ p \in runners'[t].todo \cup DOMAIN runners'[t].busy
                      \/ dirs'[runners'[t].cell].scored[p] > 0
    BY DEF Covered
  <2>1. CASE t = s
    BY <1>3, <1>4, <1>5, <1>6, <2>1
  <2>2. CASE t # s
    <3>1. runners'[t] = runners[t] /\ runners[t].live
      BY <1>3, <2>2
    <3>2. runners[t].cell \in Cells
      BY <3>1, ALive
    <3> QED BY <1>7, <3>1, <3>2 DEF Covered
  <2> QED BY <2>1, <2>2
<1>9. VerdictIsTrue'
  BY <1>1, <1>7 DEF VerdictIsTrue
<1> QED BY <1>8, <1>9

-----------------------------------------------------------------------------
(* What a step of the supervisor preserves.                                *)
LEMMA AStart ==
  ASSUME NEW c \in Cells, NEW d \in Directories, NEW w \in WorkerCounts
  PROVE  LET r == Started(c, d, w)
         IN  /\ r \in {Idle} \cup Process
             /\ r.live => /\ r.cell = c /\ DOMAIN r.busy = {}
                          /\ \A p \in r.todo : d.scored[p] = 0
                          /\ \A p \in Pairs : p \in r.todo \/ d.scored[p] > 0
<1> DEFINE work == Pairs \ CompletedPairs(d)
           r == [live |-> TRUE, cell |-> c, workers |-> w, todo |-> work,
                 busy |-> <<>>, failed |-> 0]
<1>1. CASE Started(c, d, w) = Idle
  BY <1>1 DEF Idle
<1>2. CASE Started(c, d, w) # Idle
  <2>1. Started(c, d, w) = r
    BY <1>2 DEF Started
  <2>2. DOMAIN <<>> = {} /\ <<>> \in UNION {[D -> 0..MaxReruns] : D \in SUBSET Pairs}
    <3>1. <<>> \in [{} -> 0..MaxReruns]
      OBVIOUS
    <3> QED BY <3>1
  <2>3. \A p \in Pairs : d.scored[p] \in 0..2
    BY DEF Directories
  <2>4. work \in SUBSET Pairs /\ \A p \in Pairs : p \in work <=> d.scored[p] = 0
    BY <2>3 DEF CompletedPairs
  <2> HIDE DEF work
  <2>5. r \in Process
    BY <2>2, <2>4 DEF Process
  <2>6. \A p \in Pairs : p \in work \/ d.scored[p] > 0
    BY <2>3, <2>4
  <2> QED BY <2>1, <2>2, <2>4, <2>5, <2>6
<1> QED BY <1>1, <1>2

LEMMA SlotsFinite ==
  IsFiniteSet(Slots) /\ \A T \in SUBSET Slots : IsFiniteSet(T) /\ Cardinality(T) \in Nat
<1>1. IsFiniteSet(Slots)
  BY FS_Interval, CampaignAssumption DEF Slots
<1>2. \A T \in SUBSET Slots : IsFiniteSet(T)
  BY <1>1, FS_Subset
<1> QED BY <1>1, <1>2, FS_CardinalityType

LEMMA StartKeeps ==
  ASSUME CampaignInv, StartCell
  PROVE  CampaignInv'
<1>1. PICK c \in NextCells, w \in WorkerCounts :
        /\ runners' = [runners EXCEPT ![FreeSlot] = Started(c, dirs[c], w)]
        /\ child' = [slot |-> FreeSlot, cell |-> c, done |-> DoneCases(dirs[c])]
        /\ shared' = IF \E t \in Slots : runners[t].live /\ runners[t].cell = c
                     THEN shared \cup {c} ELSE shared
  BY DEF StartCell
<1>2. /\ phase = "decide" /\ phase' = "wait"
      /\ UNCHANGED <<dirs, stalls, balance, kills, drains>>
  BY DEF StartCell
<1>3. c \in Cells /\ stalls[c] < MaxStalls
  BY DEF NextCells, Remaining
<1> DEFINE s == FreeSlot
           d == dirs[c]
           r == Started(c, d, w)
<1>4. s \in Slots /\ ~runners[s].live
  BY <1>2, FreeSlotIsFree DEF CampaignInv
<1>5. d \in Directories
  BY <1>3 DEF CampaignInv, Typed
<1>6. /\ r \in {Idle} \cup Process
      /\ r.live => /\ r.cell = c /\ DOMAIN r.busy = {}
                   /\ \A p \in r.todo : d.scored[p] = 0
                   /\ \A p \in Pairs : p \in r.todo \/ d.scored[p] > 0
  BY <1>3, <1>5, AStart
<1>7. DoneCases(d) \in 0..Len(Selected)
  BY <1>5, DoneCounts
<1>8. runners' = [runners EXCEPT ![s] = r]
  BY <1>1
<1> HIDE DEF s, r
<1>9. /\ runners'[s] = r /\ \A t \in Slots \ {s} : runners'[t] = runners[t]
  BY <1>4, <1>8 DEF CampaignInv, Typed
<1>10. shared \subseteq shared' /\ shared' \subseteq shared \cup {c}
       /\ \A t \in Slots : runners[t].live /\ runners[t].cell = c => c \in shared'
  BY <1>1
<1>11. Typed'
  <2>1. runners' \in [Slots -> {Idle} \cup Process]
    BY <1>4, <1>6, <1>8 DEF CampaignInv, Typed
  <2>2. child' \in Children /\ child'.cell = c
    BY <1>1, <1>3, <1>4, <1>7 DEF Children, s
  <2>3. shared' \subseteq Cells
    BY <1>3, <1>10 DEF CampaignInv, Typed
  <2> QED BY <1>2, <1>3, <2>1, <2>2, <2>3 DEF CampaignInv, Typed
<1>12. OrphansCounted'
  <2>1. child'.slot = s
    BY <1>1 DEF s
  <2>2. child = NoChild /\ 0 \notin Slots
    BY <1>2, CampaignAssumption DEF CampaignInv, Typed, Slots
  <2>3. Orphans' = Orphans
    BY <1>4, <1>9, <2>1, <2>2 DEF Orphans, NoChild
  <2> QED BY <1>2, <2>3 DEF OrphansCounted, CampaignInv
<1>13. Alone'
  BY <1>6, <1>9, <1>10 DEF CampaignInv, Alone
<1>14. Fresh'
  <2> SUFFICES ASSUME NEW t \in Slots, runners'[t].live
               PROVE  LET q == runners'[t]
                      IN  /\ q.todo \cap DOMAIN q.busy = {}
                          /\ q.cell \notin shared' =>
                               \A p \in q.todo \cup DOMAIN q.busy : dirs[q.cell].scored[p] = 0
    BY <1>2 DEF Fresh
  <2>1. CASE t = s
    BY <1>6, <1>9, <2>1 DEF d
  <2>2. CASE t # s
    BY <1>9, <1>10, <2>2 DEF CampaignInv, Fresh
  <2> QED BY <2>1, <2>2
<1>15. Covered'
  <2> SUFFICES ASSUME NEW t \in Slots, NEW p \in Pairs, runners'[t].live,
                      runners'[t].failed = 0, dirs[runners'[t].cell].tail = "whole"
               PROVE  \/ p \in runners'[t].todo \cup DOMAIN runners'[t].busy
                      \/ dirs[runners'[t].cell].scored[p] > 0
    BY <1>2 DEF Covered
  <2>1. CASE t = s
    BY <1>6, <1>9, <2>1 DEF d
  <2>2. CASE t # s
    BY <1>9, <2>2 DEF CampaignInv, Covered
  <2> QED BY <2>1, <2>2
<1>16. (NoPairScoredTwice /\ VerdictIsTrue)'
  BY <1>2, <1>10 DEF CampaignInv, NoPairScoredTwice, VerdictIsTrue
<1> QED BY <1>11, <1>12, <1>13, <1>14, <1>15, <1>16 DEF CampaignInv

(* The processes and their directories are not touched.                    *)
LEMMA RestKeeps ==
  ASSUME CampaignInv, UNCHANGED <<dirs, runners, shared>>,
         Typed', OrphansCounted', VerdictIsTrue'
  PROVE  CampaignInv'
BY DEF CampaignInv, Alone, Fresh, NoPairScoredTwice, Covered

LEMMA ConcludeKeeps ==
  ASSUME CampaignInv, Conclude
  PROVE  CampaignInv'
<1>1. /\ phase = "decide" /\ Remaining = {}
      /\ phase' = IF \E c \in Cells : stalls[c] >= MaxStalls THEN "parked" ELSE "complete"
      /\ UNCHANGED <<dirs, runners, child, stalls, balance, shared, kills, drains>>
  BY DEF Conclude
<1>2. Typed' /\ OrphansCounted'
  BY <1>1 DEF CampaignInv, Typed, OrphansCounted, Orphans, Ended
<1>3. VerdictIsTrue'
  <2> SUFFICES ASSUME phase' = "complete", NEW c \in Cells
               PROVE  \A p \in Pairs : dirs[c].scored[p] > 0
    BY <1>1 DEF VerdictIsTrue
  <2>1. stalls[c] \in 0..MaxStalls /\ MaxStalls \in Nat /\ ~(stalls[c] >= MaxStalls)
    BY <1>1, CampaignAssumption DEF CampaignInv, Typed
  <2>2. ~(Missing(c) > 0)
    BY <1>1, <2>1 DEF Remaining
  <2>3. dirs[c] \in Directories
    BY DEF CampaignInv, Typed
  <2> DEFINE n == DoneCases(dirs[c])
             k == Cardinality(Pairs)
  <2>4. /\ n \in Nat /\ k \in Nat /\ n <= k /\ ~(k - n > 0)
        /\ n = k => \A p \in Pairs : dirs[c].scored[p] > 0
    BY <2>2, <2>3, DoneCounts, PairsFinite DEF Missing
  <2> HIDE DEF n, k
  <2>5. n = k
    BY <2>4
  <2> QED BY <2>4, <2>5
<1> QED BY <1>1, <1>2, <1>3, RestKeeps

LEMMA SupervisorKeeps ==
  ASSUME CampaignInv, Stop \/ JudgeCell \/ SupervisorDies \/ RunOut \/ TopUp
  PROVE  CampaignInv'
<1>1. UNCHANGED <<dirs, runners, shared>>
  BY DEF Stop, JudgeCell, SupervisorDies, RunOut, TopUp
<1>2. CASE Stop
  BY <1>1, <1>2, RestKeeps
     DEF Stop, CampaignInv, Typed, OrphansCounted, Orphans, Ended, VerdictIsTrue
<1>3. CASE RunOut \/ TopUp
  <2>1. drains' \in 0..MaxDrains /\ balance' \in {"healthy", "low"}
    BY <1>3, CampaignAssumption DEF RunOut, TopUp, CampaignInv, Typed
  <2>2. UNCHANGED <<supervisor, kills>>
    BY <1>3 DEF RunOut, TopUp
  <2> QED BY <1>1, <2>1, <2>2, RestKeeps
      DEF CampaignInv, Typed, OrphansCounted, Orphans, VerdictIsTrue, supervisor
<1>4. CASE JudgeCell
  <2>1. /\ phase = "wait" /\ ~runners[child.slot].live
        /\ phase' = "decide" /\ child' = NoChild
        /\ UNCHANGED <<balance, kills, drains>>
    BY <1>4 DEF JudgeCell
  <2>2. stalls' \in [Cells -> 0..MaxStalls]
    <3>1. child \in Children /\ stalls[child.cell] < MaxStalls /\ child.cell \in Cells
      BY <2>1 DEF CampaignInv, Typed, Children
    <3>2. PICK seen \in Probes :
            stalls' = StallsAfter(child.cell, DoneCases(dirs[child.cell]) > child.done, seen)
      BY <1>4 DEF JudgeCell
    <3>3. /\ stalls \in [Cells -> 0..MaxStalls] /\ MaxStalls \in Nat
          /\ stalls[child.cell] + 1 \in 0..MaxStalls /\ 0 \in 0..MaxStalls
      BY <3>1, CampaignAssumption DEF CampaignInv, Typed
    <3> QED BY <3>1, <3>2, <3>3 DEF StallsAfter
  <2>3. Typed'
    BY <1>1, <2>1, <2>2 DEF CampaignInv, Typed
  <2>4. OrphansCounted'
    <3>1. 0 \notin Slots
      BY CampaignAssumption DEF Slots
    <3>2. Orphans' = Orphans
      BY <1>1, <2>1, <3>1 DEF Orphans, NoChild
    <3> QED BY <2>1, <3>2 DEF CampaignInv, OrphansCounted
  <2> QED BY <1>1, <2>1, <2>3, <2>4, RestKeeps DEF VerdictIsTrue
<1>5. CASE SupervisorDies
  <2>1. /\ kills < MaxKills /\ kills' = kills + 1
        /\ phase' = "decide" /\ child' = NoChild
        /\ stalls' = [c \in Cells |-> 0]
        /\ UNCHANGED <<balance, drains>>
    BY <1>5 DEF SupervisorDies
  <2>2. kills \in Nat /\ MaxKills \in Nat /\ MaxStalls \in Nat
    BY CampaignAssumption DEF CampaignInv, Typed
  <2>3. Typed'
    <3>1. kills' \in 0..MaxKills /\ stalls' \in [Cells -> 0..MaxStalls]
      BY <2>1, <2>2
    <3> QED BY <1>1, <2>1, <3>1 DEF CampaignInv, Typed
  <2>4. OrphansCounted'
    <3>1. Orphans \in SUBSET Slots /\ Orphans' \in SUBSET Slots
      BY DEF Orphans
    <3>2. Orphans' \in SUBSET (Orphans \cup {child.slot})
      BY <1>1 DEF Orphans
    <3>3. /\ IsFiniteSet(Orphans) /\ Cardinality(Orphans) \in Nat
          /\ Cardinality(Orphans') \in Nat
      BY <3>1, SlotsFinite
    <3>4. /\ IsFiniteSet(Orphans \cup {child.slot})
          /\ Cardinality(Orphans \cup {child.slot}) <= Cardinality(Orphans) + 1
          /\ Cardinality(Orphans \cup {child.slot}) \in Nat
      <4>1. /\ IsFiniteSet(Orphans \cup {child.slot})
            /\ Cardinality(Orphans \cup {child.slot}) =
                 IF child.slot \in Orphans THEN Cardinality(Orphans) ELSE Cardinality(Orphans) + 1
        BY <3>3, FS_AddElement
      <4>2. Cardinality(Orphans \cup {child.slot}) \in Nat
        BY <4>1, FS_CardinalityType
      <4> QED BY <3>3, <4>1, <4>2
    <3>5. Cardinality(Orphans') <= Cardinality(Orphans \cup {child.slot})
      BY <3>2, <3>4, FS_Subset
    <3> QED BY <2>1, <2>2, <3>3, <3>4, <3>5 DEF CampaignInv, OrphansCounted
  <2> QED BY <1>1, <2>1, <2>3, <2>4, RestKeeps DEF VerdictIsTrue
<1> QED BY <1>2, <1>3, <1>4, <1>5

LEMMA CampaignStarts ==
  ASSUME Init
  PROVE  CampaignInv
<1>1. EmptyDirectory \in Directories /\ \A p \in Pairs : EmptyDirectory.scored[p] = 0
  BY DEF EmptyDirectory, Directories
<1>2. Typed
  <2>1. stalls \in [Cells -> 0..MaxStalls] /\ kills \in 0..MaxKills /\ drains \in 0..MaxDrains
    BY CampaignAssumption DEF Init
  <2> QED BY <1>1, <2>1 DEF Init, Typed
<1>3. Orphans = {} /\ \A s \in Slots : ~runners[s].live
  BY DEF Init, Orphans, Idle
<1>4. OrphansCounted
  BY <1>3, FS_EmptySet DEF Init, OrphansCounted
<1>5. NoPairScoredTwice
  BY <1>1 DEF Init, NoPairScoredTwice
<1> QED BY <1>2, <1>3, <1>4, <1>5 DEF Init, CampaignInv, Alone, Fresh, Covered, VerdictIsTrue

LEMMA CampaignSteps ==
  ASSUME CampaignInv, [Next]_vars
  PROVE  CampaignInv'
<1>1. CASE UNCHANGED vars
  BY <1>1 DEF vars, supervisor, CampaignInv, Typed, OrphansCounted, Orphans, Alone, Fresh,
              NoPairScoredTwice, Covered, VerdictIsTrue
<1>2. CASE Conclude \/ StartCell
  BY <1>2, ConcludeKeeps, StartKeeps
<1>3. CASE Stop \/ JudgeCell \/ SupervisorDies \/ RunOut \/ TopUp
  BY <1>3, SupervisorKeeps
<1>4. ASSUME NEW s \in Slots, Work(s) \/ RunnerDies(s) PROVE CampaignInv'
  <2>1. Runs(s)
    BY <1>4, StepsOfARun DEF CampaignInv
  <2>2. Typed' /\ OrphansCounted'
    BY <2>1, RunTyped DEF CampaignInv
  <2>3. (Alone /\ Fresh /\ NoPairScoredTwice)'
    BY <2>1, RunScores DEF CampaignInv
  <2>4. (Covered /\ VerdictIsTrue)'
    BY <2>1, RunCovers DEF CampaignInv
  <2> QED BY <2>2, <2>3, <2>4 DEF CampaignInv
<1> QED BY <1>1, <1>2, <1>3, <1>4 DEF Next, Supervise

THEOREM CampaignInvariant == Spec => []CampaignInv
BY CampaignStarts, CampaignSteps, PTL DEF Spec

(* Every process and the supervisor keep to their types; in particular a   *)
(* kill is the only thing that leaves a process without a supervisor, so   *)
(* there is always a slot for a new one.                                   *)
THEOREM CampaignTypeCorrect == Spec => []CampaignTypeOK
<1>1. CampaignInv => CampaignTypeOK
  <2> SUFFICES ASSUME CampaignInv PROVE CampaignTypeOK
    OBVIOUS
  <2>1. ASSUME NEW s \in Slots, runners[s] # Idle
        PROVE  /\ runners[s].cell \in Cells /\ runners[s].workers \in WorkerCounts
               /\ runners[s].todo \subseteq Pairs
               /\ runners[s].busy \in [DOMAIN runners[s].busy -> 0..MaxReruns]
               /\ DOMAIN runners[s].busy \subseteq Pairs
    <3>1. runners[s] \in Process
      BY <2>1 DEF CampaignInv, Typed
    <3>2. runners[s].workers \in WorkerCounts
      BY <3>1 DEF Process
    <3> DEFINE b == runners[s].busy
    <3>3. b = [p \in DOMAIN b |-> b[p]] /\ \A p \in DOMAIN b : b[p] \in 0..MaxReruns
      BY <3>1, AProcess
    <3>4. b \in [DOMAIN b -> 0..MaxReruns]
      BY <3>3
    <3> QED BY <3>1, <3>2, <3>4, AProcess
  <2> QED BY <2>1 DEF CampaignInv, Typed, CampaignTypeOK, Children
<1> QED BY <1>1, CampaignInvariant, PTL

(* Whatever is killed, resumed and rerun, with any number of workers: in a *)
(* run directory only one process was alive for at a time, no pair has two *)
(* scoreable lines, if the run selects distinct pairs (RunnerAssumption).  *)
THEOREM PairsScoredOnce == Spec => []NoPairScoredTwice
<1>1. CampaignInv => NoPairScoredTwice
  BY DEF CampaignInv
<1> QED BY <1>1, CampaignInvariant, PTL

(* A process about to exit with 0 leaves a scoreable line of every pair of *)
(* its work list and of those it skipped, unless a line was torn.          *)
THEOREM ExitZeroHolds == Spec => []ExitZeroIsComplete
<1>1. CampaignInv => ExitZeroIsComplete
  BY DEF CampaignInv, Covered, ExitZeroIsComplete
<1> QED BY <1>1, CampaignInvariant, PTL

(* A campaign is called complete only when every pair of every run has a   *)
(* scoreable line, also while orphaned processes still write.              *)
THEOREM VerdictHolds == Spec => []VerdictIsTrue
<1>1. CampaignInv => VerdictIsTrue
  BY DEF CampaignInv
<1> QED BY <1>1, CampaignInvariant, PTL

-----------------------------------------------------------------------------
(* The scoring.                                                            *)

(* A path is of odd length, and an entity's of even length.                *)
LEMMA Parity ==
  \A m, n, k \in Nat :
    (m = 2 \/ m = 4) /\ (n = 2 \/ n = 4) /\ k = n + 1 =>
      k # m /\ (m <= k <=> m <= n)
OBVIOUS

(* Paths are short sequences of names and ids.                             *)
Names == Collections \cup Fields \cup {"widgets"} \cup Nat

LEMMA EntityFacts ==
  ASSUME NEW e \in EntityPath
  PROVE  /\ e \in Seq(Names) /\ (Len(e) = 2 \/ Len(e) = 4)
         /\ e[1] \in Collections /\ e[2] \in Nat
         /\ Len(e) = 4 => e[1] = "pages" /\ e[3] = "widgets" /\ e[4] \in Nat
<1>1. \A k, i \in Names : <<k, i>> \in Seq(Names) /\ Len(<<k, i>>) = 2
  OBVIOUS
<1>2. \A k, i, j, l \in Names :
        <<k, i, j, l>> \in Seq(Names) /\ Len(<<k, i, j, l>>) = 4
  OBVIOUS
<1>3. CASE e \in Collections \X Nat
  <2>1. e = <<e[1], e[2]>> /\ e[1] \in Collections /\ e[2] \in Nat
    BY <1>3
  <2>2. e[1] \in Names /\ e[2] \in Names
    BY <2>1 DEF Names, Collections
  <2>3. e \in Seq(Names) /\ Len(e) = 2
    BY <1>1, <2>1, <2>2
  <2> QED BY <2>1, <2>3
<1>4. CASE e \in {"pages"} \X Nat \X {"widgets"} \X Nat
  <2>1. /\ e = <<e[1], e[2], e[3], e[4]>> /\ e[2] \in Nat /\ e[4] \in Nat
        /\ e[1] = "pages" /\ e[3] = "widgets"
    BY <1>4
  <2>2. e[1] \in Names /\ e[2] \in Names /\ e[3] \in Names /\ e[4] \in Names
    BY <2>1 DEF Names, Collections
  <2>3. e \in Seq(Names) /\ Len(e) = 4
    <3>1. /\ <<e[1], e[2], e[3], e[4]>> \in Seq(Names)
          /\ Len(<<e[1], e[2], e[3], e[4]>>) = 4
      BY ONLY <1>2, <2>2
    <3> QED BY <2>1, <3>1
  <2>4. e[1] \in Collections
    BY <2>1 DEF Collections
  <2>5. /\ Len(e) = 2 \/ Len(e) = 4
        /\ Len(e) = 4 => e[1] = "pages" /\ e[3] = "widgets" /\ e[4] \in Nat
    BY ONLY <2>1, <2>3
  <2> QED BY ONLY <2>1, <2>3, <2>4, <2>5
<1> QED BY <1>3, <1>4 DEF EntityPath

LEMMA FieldFacts ==
  ASSUME NEW e \in EntityPath, NEW f \in Fields
  PROVE  /\ Field(e, f) \in Seq(Names) /\ Len(Field(e, f)) = Len(e) + 1
         /\ \A i \in 1 .. Len(e) : Field(e, f)[i] = e[i]
         /\ Field(e, f)[Len(e) + 1] = f
         /\ Entity(Field(e, f)) = e /\ Last(Field(e, f)) = f
<1>1. e \in Seq(Names) /\ f \in Names /\ Len(e) \in Nat
  BY EntityFacts DEF Fields, Names
<1>2. /\ Append(e, f) \in Seq(Names) /\ Len(Append(e, f)) = Len(e) + 1
      /\ \A i \in 1 .. Len(e) : Append(e, f)[i] = e[i]
      /\ Append(e, f)[Len(e) + 1] = f
  BY <1>1
<1>3. SubSeq(Append(e, f), 1, Len(e)) = e
  BY <1>1, <1>2
<1> QED BY <1>1, <1>2, <1>3 DEF Field, Entity, Front, Last

LEMMA PathFacts ==
  ASSUME NEW S, S \subseteq EntityPath, NEW p \in PathsOf(S)
  PROVE  /\ Entity(p) \in S /\ Last(p) \in Fields /\ p = Field(Entity(p), Last(p))
         /\ p \in Seq(Names) /\ p \notin EntityPath
<1>1. PICK e \in S, f \in Fields : p = Field(e, f)
  BY DEF PathsOf
<1>2. e \in EntityPath
  OBVIOUS
<1>3. /\ p \in Seq(Names) /\ Len(p) = Len(e) + 1 /\ Entity(p) = e /\ Last(p) = f
  BY <1>1, <1>2, FieldFacts
<1>4. /\ Len(e) = 2 \/ Len(e) = 4
      /\ p \in EntityPath => Len(p) = 2 \/ Len(p) = 4
  BY <1>2, EntityFacts
<1>5. p \notin EntityPath
  <2>1. Len(e) \in Nat /\ Len(p) \in Nat /\ Len(p) = Len(e) + 1
    BY <1>2, <1>3, EntityFacts
  <2> QED BY ONLY <1>4, <2>1, Parity
<1> QED BY <1>1, <1>3, <1>5

LEMMA PrefixMeans ==
  ASSUME NEW s \in Seq(Names), NEW t \in Seq(Names)
  PROVE  IsPrefix(s, t) <=> Len(s) <= Len(t) /\ \A i \in 1 .. Len(s) : s[i] = t[i]
<1>1. Len(s) \in Nat /\ Len(t) \in Nat
  OBVIOUS
<1>2. ASSUME Len(s) <= Len(t)
      PROVE  SubSeq(s, 1, Len(s)) = SubSeq(t, 1, Len(s))
               <=> \A i \in 1 .. Len(s) : s[i] = t[i]
  <2> DEFINE a == SubSeq(s, 1, Len(s))
             b == SubSeq(t, 1, Len(s))
  <2>1. a \in Seq(Names) /\ Len(a) = Len(s) /\ \A i \in 1 .. Len(s) : a[i] = s[i]
    BY <1>1
  <2>2. b \in Seq(Names) /\ Len(b) = Len(s) /\ \A i \in 1 .. Len(s) : b[i] = t[i]
    BY <1>1, <1>2
  <2> HIDE DEF a, b
  <2>3. a = b <=> \A i \in 1 .. Len(s) : a[i] = b[i]
    BY <2>1, <2>2
  <2> QED BY <2>1, <2>2, <2>3 DEF a, b
<1> QED BY <1>2 DEF IsPrefix

LEMMA PrefixItself ==
  ASSUME NEW s \in Seq(Names)
  PROVE  IsPrefix(s, s)
BY PrefixMeans

LEMMA PrefixTransitive ==
  ASSUME NEW s \in Seq(Names), NEW t \in Seq(Names), NEW u \in Seq(Names),
         IsPrefix(s, t), IsPrefix(t, u)
  PROVE  IsPrefix(s, u)
<1>1. Len(s) \in Nat /\ Len(t) \in Nat /\ Len(u) \in Nat
  OBVIOUS
<1>2. Len(s) <= Len(t) /\ \A i \in 1 .. Len(s) : s[i] = t[i]
  BY PrefixMeans
<1>3. Len(t) <= Len(u) /\ \A i \in 1 .. Len(t) : t[i] = u[i]
  BY PrefixMeans
<1>4. Len(s) <= Len(u) /\ \A i \in 1 .. Len(s) : s[i] = u[i]
  BY <1>1, <1>2, <1>3
<1> QED BY <1>4, PrefixMeans

LEMMA PrefixesComparable ==
  ASSUME NEW s \in Seq(Names), NEW t \in Seq(Names), NEW u \in Seq(Names),
         IsPrefix(s, u), IsPrefix(t, u)
  PROVE  SamePathOrChild(s, t)
<1>1. Len(s) \in Nat /\ Len(t) \in Nat
  OBVIOUS
<1>2. \A i \in 1 .. Len(s) : s[i] = u[i]
  BY PrefixMeans
<1>3. \A i \in 1 .. Len(t) : t[i] = u[i]
  BY PrefixMeans
<1>4. CASE Len(s) <= Len(t)
  <2>1. \A i \in 1 .. Len(s) : s[i] = t[i]
    BY <1>1, <1>2, <1>3, <1>4
  <2> QED BY <1>4, <2>1, PrefixMeans DEF SamePathOrChild
<1>5. CASE Len(t) <= Len(s)
  <2>1. \A i \in 1 .. Len(t) : t[i] = s[i]
    BY <1>1, <1>2, <1>3, <1>5
  <2> QED BY <1>5, <2>1, PrefixMeans DEF SamePathOrChild
<1> QED BY <1>1, <1>4, <1>5

(* A field lies under the entities its own entity lies under, and nothing  *)
(* lies under a field.                                                     *)
LEMMA UnderEntity ==
  ASSUME NEW r \in EntityPath, NEW e \in EntityPath, NEW f \in Fields
  PROVE  /\ IsPrefix(r, Field(e, f)) <=> IsPrefix(r, e)
         /\ ~IsPrefix(Field(e, f), r)
         /\ SamePathOrChild(Field(e, f), r) <=> IsPrefix(r, e)
<1> DEFINE p == Field(e, f)
<1>1. /\ r \in Seq(Names) /\ (Len(r) = 2 \/ Len(r) = 4)
      /\ Len(r) = 4 => r[3] = "widgets"
      /\ e \in Seq(Names) /\ (Len(e) = 2 \/ Len(e) = 4)
  BY EntityFacts
<1>2. /\ p \in Seq(Names) /\ Len(p) = Len(e) + 1 /\ p[Len(e) + 1] = f
      /\ \A i \in 1 .. Len(e) : p[i] = e[i]
  BY FieldFacts
<1>3. f # "widgets"
  BY DEF Fields
<1> HIDE DEF p
<1>4. IsPrefix(r, p) <=> Len(r) <= Len(p) /\ \A i \in 1 .. Len(r) : r[i] = p[i]
  BY <1>1, <1>2, PrefixMeans
<1>5. IsPrefix(r, e) <=> Len(r) <= Len(e) /\ \A i \in 1 .. Len(r) : r[i] = e[i]
  BY <1>1, PrefixMeans
<1>6. Len(r) <= Len(p) <=> Len(r) <= Len(e)
  <2>1. Len(r) \in Nat /\ Len(e) \in Nat /\ Len(p) \in Nat
    BY <1>1, <1>2
  <2> QED BY ONLY <1>1, <1>2, <2>1, Parity
<1>7. Len(r) <= Len(e) => \A i \in 1 .. Len(r) : p[i] = e[i]
  <2>1. Len(r) \in Nat /\ Len(e) \in Nat
    BY <1>1
  <2>2. Len(r) <= Len(e) => \A i \in 1 .. Len(r) : i \in 1 .. Len(e)
    BY ONLY <2>1
  <2> QED BY <1>2, <2>2
<1>8. IsPrefix(r, p) <=> IsPrefix(r, e)
  BY <1>4, <1>5, <1>6, <1>7
<1>9. ~IsPrefix(p, r)
  <2> SUFFICES ASSUME IsPrefix(p, r) PROVE FALSE
    OBVIOUS
  <2>1. Len(p) <= Len(r) /\ \A i \in 1 .. Len(p) : p[i] = r[i]
    BY <1>1, <1>2, PrefixMeans
  <2>2. Len(e) = 2 /\ Len(r) = 4 /\ Len(p) = 3
    BY <1>1, <1>2, <2>1
  <2>3. 3 \in 1 .. Len(p) /\ p[3] = f
    BY <1>2, <2>2
  <2> QED BY <1>1, <1>3, <2>1, <2>2, <2>3
<1> QED BY <1>8, <1>9 DEF p, SamePathOrChild
-----------------------------------------------------------------------------
(* The projects with these entities.                                       *)
WorldsOf(entities) == UNION {[d -> Values] : d \in SUBSET PathsOf(entities)}
TracesOf(entities) == [put : WorldsOf(entities), gone : SUBSET entities]

LEMMA WorldFacts ==
  ASSUME NEW S, NEW w \in WorldsOf(S)
  PROVE  /\ DOMAIN w \subseteq PathsOf(S)
         /\ w \in [DOMAIN w -> Values]
         /\ \A p \in DOMAIN w : p \in PathsOf(S) /\ w[p] \in Values
<1>1. PICK d \in SUBSET PathsOf(S) : w \in [d -> Values]
  BY DEF WorldsOf
<1> QED BY <1>1

LEMMA IsWorld ==
  ASSUME NEW S, NEW D \in SUBSET PathsOf(S), NEW w \in [D -> Values]
  PROVE  w \in WorldsOf(S)
BY DEF WorldsOf

LEMMA NothingFacts ==
  ASSUME NEW S
  PROVE  <<>> \in WorldsOf(S) /\ DOMAIN <<>> = {}
<1>1. DOMAIN <<>> = {}
  OBVIOUS
<1>2. <<>> \in [{} -> Values]
  OBVIOUS
<1>3. {} \in SUBSET PathsOf(S)
  OBVIOUS
<1> QED BY <1>1, <1>2, <1>3, IsWorld

LEMMA OnlyFacts ==
  ASSUME NEW S, NEW p \in PathsOf(S), NEW v \in Values
  PROVE  Only(p, v) \in WorldsOf(S) /\ DOMAIN Only(p, v) = {p} /\ Only(p, v)[p] = v
<1>1. Only(p, v) \in [{p} -> Values] /\ Only(p, v)[p] = v
  BY DEF Only
<1>2. {p} \in SUBSET PathsOf(S)
  OBVIOUS
<1> QED BY <1>1, <1>2, IsWorld

LEMMA OverWorld ==
  ASSUME NEW S, NEW f \in WorldsOf(S), NEW g \in WorldsOf(S)
  PROVE  Over(f, g) \in WorldsOf(S) /\ DOMAIN Over(f, g) = DOMAIN f \cup DOMAIN g
<1> DEFINE D == DOMAIN f \cup DOMAIN g
<1>1. D \in SUBSET PathsOf(S)
  BY WorldFacts
<1>2. \A p \in D : (IF p \in DOMAIN f THEN f[p] ELSE g[p]) \in Values
  BY WorldFacts
<1>3. Over(f, g) = [p \in D |-> IF p \in DOMAIN f THEN f[p] ELSE g[p]]
  BY DEF Over
<1> HIDE DEF D
<1>4. Over(f, g) \in [D -> Values]
  BY <1>2, <1>3
<1> QED BY <1>1, <1>3, <1>4, IsWorld DEF D

LEMMA OverValues ==
  ASSUME NEW f, NEW g
  PROVE  \A p \in DOMAIN f \cup DOMAIN g :
           Over(f, g)[p] = IF p \in DOMAIN f THEN f[p] ELSE g[p]
BY DEF Over

LEMMA RestrictionFacts ==
  ASSUME NEW S, NEW f \in WorldsOf(S), NEW D \in SUBSET DOMAIN f
  PROVE  [p \in D |-> f[p]] \in WorldsOf(S)
<1>1. D \in SUBSET PathsOf(S) /\ \A p \in D : f[p] \in Values
  BY WorldFacts
<1>2. [p \in D |-> f[p]] \in [D -> Values]
  BY <1>1
<1> QED BY <1>1, <1>2, IsWorld

LEMMA WithoutFacts ==
  ASSUME NEW S, NEW w \in WorldsOf(S), NEW e
  PROVE  /\ Without(w, e) \in WorldsOf(S)
         /\ DOMAIN Without(w, e) = {p \in DOMAIN w : ~IsPrefix(e, p)}
         /\ \A p \in DOMAIN Without(w, e) : Without(w, e)[p] = w[p]
<1> DEFINE D == DOMAIN w \ PathsUnder(w, e)
<1>1. D \in SUBSET DOMAIN w /\ D = {p \in DOMAIN w : ~IsPrefix(e, p)}
  BY DEF PathsUnder
<1>2. Without(w, e) = [p \in D |-> w[p]]
  BY DEF Without
<1> HIDE DEF D
<1> QED BY <1>1, <1>2, RestrictionFacts

(* What a call adds to the fold: entities are never taken out of gone, for *)
(* only fields are put, and put loses what lies under what is gone.        *)
LEMMA AggregateFacts ==
  ASSUME NEW S, S \subseteq EntityPath, NEW t \in TracesOf(S),
         NEW put \in WorldsOf(S), NEW gone \in SUBSET S
  PROVE  LET a == Aggregate(t, put, gone)
         IN  /\ a \in TracesOf(S)
             /\ a.gone = t.gone \cup gone
             /\ DOMAIN a.put = {p \in DOMAIN put \cup DOMAIN t.put :
                                  \A r \in gone : ~IsPrefix(r, p)}
             /\ \A p \in DOMAIN a.put :
                  a.put[p] = IF p \in DOMAIN put THEN put[p] ELSE t.put[p]
<1> DEFINE all == Over(put, t.put)
           kept == {p \in DOMAIN all : \A r \in gone : ~SamePathOrChild(p, r)}
           a == Aggregate(t, put, gone)
<1>1. t.put \in WorldsOf(S) /\ t.gone \in SUBSET S
  BY DEF TracesOf
<1>2. /\ all \in WorldsOf(S) /\ DOMAIN all = DOMAIN put \cup DOMAIN t.put
      /\ \A p \in DOMAIN all : all[p] = IF p \in DOMAIN put THEN put[p] ELSE t.put[p]
  BY <1>1, OverWorld, OverValues
<1>3. a = [put |-> [p \in kept |-> all[p]], gone |-> (t.gone \ DOMAIN put) \cup gone]
  BY DEF Aggregate
<1> HIDE DEF a, all
<1>4. kept \in SUBSET DOMAIN all
  OBVIOUS
<1>5. kept = {p \in DOMAIN put \cup DOMAIN t.put : \A r \in gone : ~IsPrefix(r, p)}
  <2>1. ASSUME NEW p \in DOMAIN all, NEW r \in gone
        PROVE  SamePathOrChild(p, r) <=> IsPrefix(r, p)
    <3>1. p \in PathsOf(S)
      BY <1>2, WorldFacts
    <3>2. /\ Entity(p) \in EntityPath /\ Last(p) \in Fields
          /\ p = Field(Entity(p), Last(p))
      BY <3>1, PathFacts
    <3>3. r \in EntityPath
      OBVIOUS
    <3> QED BY <3>2, <3>3, UnderEntity
  <2> QED BY <1>2, <2>1
<1>6. t.gone \cap DOMAIN put = {}
  <2> SUFFICES ASSUME NEW r \in t.gone, r \in DOMAIN put PROVE FALSE
    OBVIOUS
  <2>1. r \in PathsOf(S)
    BY WorldFacts
  <2> QED BY <1>1, <2>1, PathFacts
<1> DEFINE left == [p \in kept |-> all[p]]
<1>7. left \in WorldsOf(S)
  BY <1>2, <1>4, RestrictionFacts
<1>8. DOMAIN left = kept /\ \A p \in kept : left[p] = all[p]
  OBVIOUS
<1> HIDE DEF kept, left
<1>9. a.put = left /\ a.gone = t.gone \cup gone
  BY <1>3, <1>6 DEF left
<1>10. a \in TracesOf(S)
  <2>1. t.gone \cup gone \in SUBSET S
    BY <1>1
  <2>2. a = [put |-> left, gone |-> t.gone \cup gone]
    BY <1>3, <1>6 DEF left
  <2> QED BY <1>7, <2>1, <2>2 DEF TracesOf
<1>11. \A p \in DOMAIN a.put :
         a.put[p] = IF p \in DOMAIN put THEN put[p] ELSE t.put[p]
  BY <1>2, <1>4, <1>8, <1>9
<1>12. DOMAIN a.put = {p \in DOMAIN put \cup DOMAIN t.put :
                         \A r \in gone : ~IsPrefix(r, p)}
  BY <1>5, <1>8, <1>9
<1> QED BY <1>9, <1>10, <1>11, <1>12 DEF a
-----------------------------------------------------------------------------
(* What the fold t of the diffs tells of a project that was i and is w:    *)
(* what it puts is there as it says, what it does not put is as it was,    *)
(* what is missing was removed with an entity, and is not back.            *)
Tells(i, w, t) ==
  /\ \A p \in DOMAIN t.put : p \in DOMAIN w /\ w[p] = t.put[p]
  /\ \A p \in DOMAIN w \ DOMAIN t.put : p \in DOMAIN i /\ i[p] = w[p]
  /\ \A p \in DOMAIN i \ DOMAIN w : \E r \in t.gone : IsPrefix(r, p)
  /\ \A r \in t.gone, p \in DOMAIN w : ~IsPrefix(r, p)

LEMMA CallTells ==
  ASSUME NEW S, S \subseteq EntityPath,
         NEW i, NEW w \in WorldsOf(S), NEW t \in TracesOf(S), Tells(i, w, t),
         NEW put \in WorldsOf(S), NEW gone \in SUBSET S,
         \A p \in DOMAIN put : \A r \in t.gone \cup gone : ~IsPrefix(r, p),
         NEW after,
         DOMAIN after = DOMAIN put \cup {p \in DOMAIN w : \A r \in gone : ~IsPrefix(r, p)},
         \A p \in DOMAIN after : after[p] = IF p \in DOMAIN put THEN put[p] ELSE w[p]
  PROVE  Tells(i, after, Aggregate(t, put, gone))
<1> DEFINE a == Aggregate(t, put, gone)
<1>1. /\ a.gone = t.gone \cup gone
      /\ DOMAIN a.put = {p \in DOMAIN put \cup DOMAIN t.put : \A r \in gone : ~IsPrefix(r, p)}
      /\ \A p \in DOMAIN a.put :
           a.put[p] = IF p \in DOMAIN put THEN put[p] ELSE t.put[p]
  BY AggregateFacts
<1> HIDE DEF a
<1>2. /\ \A p \in DOMAIN t.put : p \in DOMAIN w /\ w[p] = t.put[p]
      /\ \A p \in DOMAIN w \ DOMAIN t.put : p \in DOMAIN i /\ i[p] = w[p]
      /\ \A p \in DOMAIN i \ DOMAIN w : \E r \in t.gone : IsPrefix(r, p)
      /\ \A r \in t.gone, p \in DOMAIN w : ~IsPrefix(r, p)
  BY DEF Tells
<1>3. ASSUME NEW p \in DOMAIN a.put
      PROVE  p \in DOMAIN after /\ after[p] = a.put[p]
  <2>1. CASE p \in DOMAIN put
    BY <1>1, <2>1
  <2>2. CASE p \notin DOMAIN put
    BY <1>1, <1>2, <2>2
  <2> QED BY <2>1, <2>2
<1>4. ASSUME NEW p \in DOMAIN after \ DOMAIN a.put
      PROVE  p \in DOMAIN i /\ i[p] = after[p]
  <2>1. p \notin DOMAIN put
    BY <1>1
  <2>2. p \in DOMAIN w /\ after[p] = w[p] /\ \A r \in gone : ~IsPrefix(r, p)
    BY <2>1
  <2>3. p \notin DOMAIN t.put
    BY <1>1, <2>2
  <2> QED BY <1>2, <2>2, <2>3
<1>5. ASSUME NEW p \in DOMAIN i \ DOMAIN after
      PROVE  \E r \in a.gone : IsPrefix(r, p)
  BY <1>1, <1>2
<1>6. ASSUME NEW r \in a.gone, NEW p \in DOMAIN after
      PROVE  ~IsPrefix(r, p)
  BY <1>1, <1>2
<1> QED BY <1>3, <1>4, <1>5, <1>6 DEF Tells, a

ScoringTypeOK ==
  /\ surface \in Surfaces
  /\ initial \in WorldsOf(surface) /\ world \in WorldsOf(surface)
  /\ told \in TracesOf(surface) /\ wrote \in BOOLEAN

ScoringInv ==
  /\ ScoringTypeOK
  /\ untold = {} => Tells(initial, world, told)
  /\ ~wrote => world = initial

LEMMA ScoringInvInit == ScoringInit => ScoringInv
<1> SUFFICES ASSUME ScoringInit PROVE ScoringInv
  OBVIOUS
<1>1. PICK seeded \in SUBSET surface, v \in Values : initial = Seeded(seeded, v)
  BY DEF ScoringInit
<1>2. initial \in WorldsOf(surface)
  <2> DEFINE D == {Field(e, "note") : e \in seeded}
  <2>1. D \in SUBSET PathsOf(surface)
    BY DEF PathsOf, Fields
  <2>2. initial = [p \in D |-> v]
    BY <1>1 DEF Seeded
  <2> HIDE DEF D
  <2>3. initial \in [D -> Values]
    BY <2>2
  <2> QED BY <2>1, <2>3, IsWorld
<1>3. told \in TracesOf(surface) /\ told.put = <<>> /\ told.gone = {}
  <2>1. told = [put |-> <<>>, gone |-> {}]
    BY DEF ScoringInit
  <2> QED BY <2>1, NothingFacts DEF TracesOf
<1>4. Tells(initial, world, told)
  <2>1. DOMAIN told.put = {} /\ world = initial
    BY <1>3, NothingFacts DEF ScoringInit
  <2> QED BY <1>3, <2>1 DEF Tells
<1> QED BY <1>2, <1>3, <1>4 DEF ScoringInit, ScoringInv, ScoringTypeOK

(* A call that reports put and gone and leaves the project accordingly.    *)
LEMMA ReportKeeps ==
  ASSUME ScoringInv, UNCHANGED frame, wrote' = TRUE,
         NEW put \in WorldsOf(surface), NEW gone \in SUBSET surface,
         told' = Aggregate(told, put, gone),
         world' \in WorldsOf(surface),
         untold' = {} => untold = {},
         untold' = {} =>
           /\ \A p \in DOMAIN put : \A r \in told.gone \cup gone : ~IsPrefix(r, p)
           /\ DOMAIN world' = DOMAIN put \cup
                {p \in DOMAIN world : \A r \in gone : ~IsPrefix(r, p)}
           /\ \A p \in DOMAIN world' :
                world'[p] = IF p \in DOMAIN put THEN put[p] ELSE world[p]
  PROVE  ScoringInv'
<1>1. /\ surface' = surface /\ initial' = initial
      /\ surface \in Surfaces /\ surface \subseteq EntityPath
      /\ world \in WorldsOf(surface) /\ told \in TracesOf(surface)
      /\ initial \in WorldsOf(surface)
  BY SurfacesAssumption DEF frame, ScoringInv, ScoringTypeOK
<1>2. told' \in TracesOf(surface)
  BY <1>1, AggregateFacts
<1>3. ScoringTypeOK'
  BY <1>1, <1>2 DEF ScoringTypeOK
<1>4. ASSUME untold' = {}
      PROVE  Tells(initial, world', Aggregate(told, put, gone))
  <2>1. Tells(initial, world, told)
    BY <1>4 DEF ScoringInv
  <2> QED BY <1>1, <1>4, <2>1, CallTells
<1>5. (untold = {} => Tells(initial, world, told))'
  BY <1>1, <1>4
<1> QED BY <1>3, <1>5 DEF ScoringInv

LEMMA SurfaceFacts ==
  ASSUME ScoringInv
  PROVE  /\ surface \subseteq EntityPath
         /\ world \in WorldsOf(surface) /\ initial \in WorldsOf(surface)
         /\ told \in TracesOf(surface)
         /\ told.put \in WorldsOf(surface) /\ told.gone \subseteq surface
BY SurfacesAssumption DEF ScoringInv, ScoringTypeOK, TracesOf

LEMMA FieldOfSurface ==
  ASSUME NEW e \in surface, NEW f \in Fields
  PROVE  Field(e, f) \in PathsOf(surface)
BY DEF PathsOf

LEMMA CreateKeeps ==
  ASSUME ScoringInv, NEW e \in surface, NEW v \in Values, Create(e, v)
  PROVE  ScoringInv'
<1> DEFINE p == Field(e, "note")
           put == Only(p, v)
<1>1. "note" \in Fields
  BY DEF Fields
<1>2. p \in PathsOf(surface)
  BY <1>1, FieldOfSurface
<1>3. put \in WorldsOf(surface) /\ DOMAIN put = {p} /\ put[p] = v
  BY <1>2, OnlyFacts
<1>4. /\ world' = Over(put, world) /\ Report(put, {})
      /\ untold' = untold \cup Remade(e)
  BY DEF Create
<1>5. /\ told' = Aggregate(told, put, {}) /\ wrote' = TRUE /\ UNCHANGED frame
  BY <1>4 DEF Report
<1> HIDE DEF put
<1>6. /\ world' \in WorldsOf(surface)
      /\ DOMAIN world' = DOMAIN put \cup DOMAIN world
      /\ \A q \in DOMAIN world' :
           world'[q] = IF q \in DOMAIN put THEN put[q] ELSE world[q]
  <2>1. /\ put \in WorldsOf(surface) /\ world \in WorldsOf(surface)
        /\ world' = Over(put, world)
    BY <1>3, <1>4, SurfaceFacts
  <2>2. /\ Over(put, world) \in WorldsOf(surface)
        /\ DOMAIN Over(put, world) = DOMAIN put \cup DOMAIN world
    BY ONLY <2>1, OverWorld
  <2>3. \A q \in DOMAIN put \cup DOMAIN world :
          Over(put, world)[q] = IF q \in DOMAIN put THEN put[q] ELSE world[q]
    BY ONLY OverValues
  <2> QED BY <2>1, <2>2, <2>3
<1>7. ASSUME untold' = {}, NEW r \in told.gone
      PROVE  ~IsPrefix(r, p)
  <2>1. ~IsPrefix(r, e)
    BY <1>4, <1>7 DEF Remade
  <2>2. r \in EntityPath /\ e \in EntityPath
    BY SurfaceFacts
  <2> QED BY <1>1, <2>1, <2>2, UnderEntity
<1> HIDE DEF p
<1>8. untold' = {} =>
        /\ \A q \in DOMAIN put : \A r \in told.gone \cup {} : ~IsPrefix(r, q)
        /\ DOMAIN world' = DOMAIN put \cup
             {q \in DOMAIN world : \A r \in {} : ~IsPrefix(r, q)}
        /\ \A q \in DOMAIN world' :
             world'[q] = IF q \in DOMAIN put THEN put[q] ELSE world[q]
  BY <1>3, <1>6, <1>7
<1>9. {} \in SUBSET surface /\ (untold' = {} => untold = {})
  BY <1>4
<1> QED BY <1>3, <1>5, <1>6, <1>8, <1>9, ReportKeeps

LEMMA WriteKeeps ==
  ASSUME ScoringInv, NEW e \in surface, NEW f \in Fields, NEW v \in Values,
         Write(e, f, v)
  PROVE  ScoringInv'
<1> DEFINE p == Field(e, f)
           put == Only(p, v)
<1>1. "note" \in Fields
  BY DEF Fields
<1>2. p \in PathsOf(surface)
  BY FieldOfSurface
<1>3. put \in WorldsOf(surface) /\ DOMAIN put = {p} /\ put[p] = v
  BY <1>2, OnlyFacts
<1>4. /\ Exists(world, e)
      /\ world' = Over(put, world) /\ Report(put, {})
      /\ untold' = untold
  BY DEF Write
<1>5. /\ told' = Aggregate(told, put, {}) /\ wrote' = TRUE /\ UNCHANGED frame
  BY <1>4 DEF Report
<1> HIDE DEF put
<1>6. /\ world' \in WorldsOf(surface)
      /\ DOMAIN world' = DOMAIN put \cup DOMAIN world
      /\ \A q \in DOMAIN world' :
           world'[q] = IF q \in DOMAIN put THEN put[q] ELSE world[q]
  <2>1. /\ put \in WorldsOf(surface) /\ world \in WorldsOf(surface)
        /\ world' = Over(put, world)
    BY <1>3, <1>4, SurfaceFacts
  <2>2. /\ Over(put, world) \in WorldsOf(surface)
        /\ DOMAIN Over(put, world) = DOMAIN put \cup DOMAIN world
    BY ONLY <2>1, OverWorld
  <2>3. \A q \in DOMAIN put \cup DOMAIN world :
          Over(put, world)[q] = IF q \in DOMAIN put THEN put[q] ELSE world[q]
    BY ONLY OverValues
  <2> QED BY <2>1, <2>2, <2>3
<1>7. ASSUME untold' = {}, NEW r \in told.gone
      PROVE  ~IsPrefix(r, p)
  <2>1. r \in EntityPath /\ e \in EntityPath
    BY SurfaceFacts
  <2>2. Tells(initial, world, told)
    BY <1>4, <1>7 DEF ScoringInv
  <2>3. ~IsPrefix(r, Field(e, "note"))
    BY <1>4, <2>2 DEF Exists, Tells
  <2>4. ~IsPrefix(r, e)
    BY <1>1, <2>1, <2>3, UnderEntity
  <2> QED BY <2>1, <2>4, UnderEntity
<1> HIDE DEF p
<1>8. untold' = {} =>
        /\ \A q \in DOMAIN put : \A r \in told.gone \cup {} : ~IsPrefix(r, q)
        /\ DOMAIN world' = DOMAIN put \cup
             {q \in DOMAIN world : \A r \in {} : ~IsPrefix(r, q)}
        /\ \A q \in DOMAIN world' :
             world'[q] = IF q \in DOMAIN put THEN put[q] ELSE world[q]
  BY <1>3, <1>6, <1>7
<1>9. {} \in SUBSET surface /\ (untold' = {} => untold = {})
  BY <1>4
<1> QED BY <1>3, <1>5, <1>6, <1>8, <1>9, ReportKeeps

LEMMA UnbindKeeps ==
  ASSUME ScoringInv, NEW e \in surface, Unbind(e)
  PROVE  ScoringInv'
<1> DEFINE p == Field(e, "binding")
           put == <<>>
<1>1. put \in WorldsOf(surface) /\ DOMAIN put = {}
  BY NothingFacts
<1>2. /\ world' = Without(world, p) /\ Report(put, {})
      /\ untold' = untold \cup PathsUnder(world, p)
  BY DEF Unbind
<1>3. /\ told' = Aggregate(told, put, {}) /\ wrote' = TRUE /\ UNCHANGED frame
  BY <1>2 DEF Report
<1> HIDE DEF put, p
<1>4. /\ world' \in WorldsOf(surface)
      /\ DOMAIN world' = {q \in DOMAIN world : ~IsPrefix(p, q)}
      /\ \A q \in DOMAIN world' : world'[q] = world[q]
  BY <1>2, SurfaceFacts, WithoutFacts
<1>5. untold' = {} => untold = {} /\ \A q \in DOMAIN world : ~IsPrefix(p, q)
  BY <1>2 DEF PathsUnder
<1>6. untold' = {} =>
        /\ \A q \in DOMAIN put : \A r \in told.gone \cup {} : ~IsPrefix(r, q)
        /\ DOMAIN world' = DOMAIN put \cup
             {q \in DOMAIN world : \A r \in {} : ~IsPrefix(r, q)}
        /\ \A q \in DOMAIN world' :
             world'[q] = IF q \in DOMAIN put THEN put[q] ELSE world[q]
  BY <1>1, <1>4, <1>5
<1>7. {} \in SUBSET surface
  OBVIOUS
<1> QED BY <1>1, <1>3, <1>4, <1>5, <1>6, <1>7, ReportKeeps

LEMMA DeleteKeeps ==
  ASSUME ScoringInv, NEW e \in surface, Delete(e)
  PROVE  ScoringInv'
<1> DEFINE put == <<>>
<1>1. put \in WorldsOf(surface) /\ DOMAIN put = {}
  BY NothingFacts
<1>2. world' = Without(world, e) /\ Report(put, {e}) /\ untold' = untold
  BY DEF Delete
<1>3. /\ told' = Aggregate(told, put, {e}) /\ wrote' = TRUE /\ UNCHANGED frame
  BY <1>2 DEF Report
<1> HIDE DEF put
<1>4. /\ world' \in WorldsOf(surface)
      /\ DOMAIN world' = {q \in DOMAIN world : ~IsPrefix(e, q)}
      /\ \A q \in DOMAIN world' : world'[q] = world[q]
  BY <1>2, SurfaceFacts, WithoutFacts
<1>5. untold' = {} =>
        /\ \A q \in DOMAIN put : \A r \in told.gone \cup {e} : ~IsPrefix(r, q)
        /\ DOMAIN world' = DOMAIN put \cup
             {q \in DOMAIN world : \A r \in {e} : ~IsPrefix(r, q)}
        /\ \A q \in DOMAIN world' :
             world'[q] = IF q \in DOMAIN put THEN put[q] ELSE world[q]
  BY <1>1, <1>4
<1>6. {e} \in SUBSET surface /\ (untold' = {} => untold = {})
  BY <1>2
<1> QED BY <1>1, <1>3, <1>4, <1>5, <1>6, ReportKeeps

(* The new entity is not under the old one: both are top-level.            *)
LEMMA RenamedApart ==
  ASSUME NEW e \in EntityPath, NEW new \in EntityPath, e # new,
         e[1] \in {"points", "scripts"}, new[1] = e[1]
  PROVE  ~IsPrefix(e, new)
<1>1. /\ e \in Seq(Names) /\ new \in Seq(Names)
      /\ Len(e) = 2 \/ Len(e) = 4
      /\ Len(new) = 2 \/ Len(new) = 4
      /\ Len(e) = 4 => e[1] = "pages"
      /\ Len(new) = 4 => new[1] = "pages"
  BY EntityFacts
<1>2. Len(e) = 2 /\ Len(new) = 2
  BY <1>1
<1>3. SUFFICES ASSUME IsPrefix(e, new) PROVE FALSE
  OBVIOUS
<1>4. \A i \in 1 .. Len(e) : e[i] = new[i]
  BY <1>1, <1>3, PrefixMeans
<1> QED BY <1>1, <1>2, <1>4

LEMMA RenameKeeps ==
  ASSUME ScoringInv, NEW e \in surface, NEW new \in surface, Rename(e, new)
  PROVE  ScoringInv'
<1> DEFINE p == Field(new, "note")
           left == Without(world, e)
           put == Only(p, world[Field(e, "note")])
<1>1. "note" \in Fields
  BY DEF Fields
<1>2. p \in PathsOf(surface)
  BY <1>1, FieldOfSurface
<1>3. /\ Exists(world, e) /\ ~Exists(world, new)
      /\ e[1] \in {"points", "scripts"} /\ new[1] = e[1]
      /\ world' = Over(put, left) /\ Report(put, {e})
      /\ untold' = untold \cup Remade(new)
  BY DEF Rename
<1>4. world[Field(e, "note")] \in Values
  BY <1>3, SurfaceFacts, WorldFacts DEF Exists
<1>5. put \in WorldsOf(surface) /\ DOMAIN put = {p}
  BY <1>2, <1>4, OnlyFacts
<1>6. /\ told' = Aggregate(told, put, {e}) /\ wrote' = TRUE /\ UNCHANGED frame
  BY <1>3 DEF Report
<1> HIDE DEF put
<1>7. /\ left \in WorldsOf(surface)
      /\ DOMAIN left = {q \in DOMAIN world : ~IsPrefix(e, q)}
      /\ \A q \in DOMAIN left : left[q] = world[q]
  BY SurfaceFacts, WithoutFacts
<1> HIDE DEF left
<1>8. /\ world' \in WorldsOf(surface)
      /\ DOMAIN world' = DOMAIN put \cup DOMAIN left
      /\ \A q \in DOMAIN world' :
           world'[q] = IF q \in DOMAIN put THEN put[q] ELSE left[q]
  <2>1. /\ put \in WorldsOf(surface) /\ left \in WorldsOf(surface)
        /\ world' = Over(put, left)
    BY <1>3, <1>5, <1>7
  <2>2. /\ Over(put, left) \in WorldsOf(surface)
        /\ DOMAIN Over(put, left) = DOMAIN put \cup DOMAIN left
    BY ONLY <2>1, OverWorld
  <2>3. \A q \in DOMAIN put \cup DOMAIN left :
          Over(put, left)[q] = IF q \in DOMAIN put THEN put[q] ELSE left[q]
    BY ONLY OverValues
  <2> QED BY <2>1, <2>2, <2>3
<1>9. ASSUME untold' = {}, NEW r \in told.gone \cup {e}
      PROVE  ~IsPrefix(r, p)
  <2>1. r \in EntityPath /\ new \in EntityPath /\ e \in EntityPath
    BY SurfaceFacts
  <2>2. e # new
    BY <1>3
  <2>3. ~IsPrefix(e, new)
    BY <1>3, <2>1, <2>2, RenamedApart
  <2>4. r \in told.gone => ~IsPrefix(r, new)
    BY <1>3, <1>9 DEF Remade
  <2>5. ~IsPrefix(r, new)
    BY <2>3, <2>4
  <2> QED BY <1>1, <2>1, <2>5, UnderEntity
<1> HIDE DEF p
<1>10. untold' = {} =>
        /\ \A q \in DOMAIN put : \A r \in told.gone \cup {e} : ~IsPrefix(r, q)
        /\ DOMAIN world' = DOMAIN put \cup
             {q \in DOMAIN world : \A r \in {e} : ~IsPrefix(r, q)}
        /\ \A q \in DOMAIN world' :
             world'[q] = IF q \in DOMAIN put THEN put[q] ELSE world[q]
  BY <1>5, <1>7, <1>8, <1>9
<1>11. {e} \in SUBSET surface /\ (untold' = {} => untold = {})
  BY <1>3
<1> QED BY <1>5, <1>6, <1>8, <1>10, <1>11, ReportKeeps

LEMMA RestoreKeeps ==
  ASSUME ScoringInv, RestoreCheckpoint
  PROVE  ScoringInv'
<1>1. /\ world' = initial /\ UNCHANGED <<surface, initial, told, wrote>>
      /\ untold' = untold \cup DOMAIN told.put \cup told.gone
  BY DEF RestoreCheckpoint, frame
<1>2. untold' = {} => DOMAIN told.put = {} /\ told.gone = {}
  BY <1>1
<1>3. untold' = {} => Tells(initial, initial, told)
  BY <1>2 DEF Tells
<1> QED BY <1>1, <1>3 DEF ScoringInv, ScoringTypeOK

LEMMA ScoringInvStep == ScoringInv /\ [ScoringNext]_scoringVars => ScoringInv'
<1> SUFFICES ASSUME ScoringInv, [ScoringNext]_scoringVars PROVE ScoringInv'
  OBVIOUS
<1>1. CASE \E e \in surface, v \in Values : Create(e, v)
  BY <1>1, CreateKeeps
<1>2. CASE \E e \in surface, v \in Values, f \in Fields : Write(e, f, v)
  BY <1>2, WriteKeeps
<1>3. CASE \E e \in surface : Unbind(e)
  BY <1>3, UnbindKeeps
<1>4. CASE \E e \in surface : Delete(e)
  BY <1>4, DeleteKeeps
<1>5. CASE \E e, new \in surface : Rename(e, new)
  BY <1>5, RenameKeeps
<1>6. CASE \E code \in {"POINT_NOT_FOUND", "SCHEMA_ERROR"} : Fails(code)
  BY <1>6 DEF Fails, frame, ScoringInv, ScoringTypeOK
<1>7. CASE RestoreCheckpoint
  BY <1>7, RestoreKeeps
<1>8. CASE UNCHANGED scoringVars
  BY <1>8 DEF scoringVars, ScoringInv, ScoringTypeOK
<1> QED BY <1>1, <1>2, <1>3, <1>4, <1>5, <1>6, <1>7, <1>8 DEF ScoringNext

(* The project, the trace and the record of removals keep their types, for *)
(* every set of entities and of values, and any number of calls.           *)
THEOREM ScoringTypeCorrect == ScoringSpec => []ScoringTypeOK
<1>1. ScoringInv => ScoringTypeOK
  BY DEF ScoringInv
<1> QED BY ScoringInvInit, ScoringInvStep, <1>1, PTL DEF ScoringSpec

-----------------------------------------------------------------------------
LEMMA GoldenFacts ==
  ASSUME ScoringTypeOK, NEW g \in Goldens[surface]
  PROVE  /\ g.mode \in {"strict", "subset", "key_fields"}
         /\ g.behavior \in {"success", "reject", "fail_or_clarify"}
         /\ DOMAIN g.put \subseteq PathsOf(surface)
         /\ g.gone \subseteq surface
         /\ g.unchanged \subseteq PathsOf(surface) \cup surface
<1>1. g \in GoldenRecord(PathsOf(surface), surface)
  BY GoldensAssumption DEF ScoringTypeOK
<1>2. g.put \in WorldsOf(surface)
  BY <1>1 DEF GoldenRecord, WorldsOf
<1> QED BY <1>1, <1>2, WorldFacts DEF GoldenRecord

(* Everything that changed is told: what is there was put, what is not was *)
(* removed with an entity.                                                 *)
LEMMA ChangesTold ==
  ASSUME ScoringInv, untold = {}, NEW p \in ChangedPaths
  PROVE  \/ p \in DOMAIN world /\ p \in DOMAIN told.put
         \/ p \notin DOMAIN world /\ \E r \in told.gone : IsPrefix(r, p)
<1>1. Tells(initial, world, told)
  BY DEF ScoringInv
<1> QED BY <1>1 DEF Tells, ChangedPaths

LEMMA PutTold ==
  ASSUME ScoringInv, untold = {}, NEW p \in DOMAIN told.put
  PROVE  p \in DOMAIN world /\ world[p] = told.put[p]
BY DEF ScoringInv, Tells

LEMMA GoneTold ==
  ASSUME ScoringInv, untold = {}, NEW r \in told.gone
  PROVE  PathsUnder(world, r) = {}
BY DEF ScoringInv, Tells, PathsUnder

LEMMA SuccessIsTold ==
  ASSUME ScoringInv, untold = {}, NEW g \in Goldens[surface], Achieved(g)
  PROVE  FinalStateMatch(g)
<1>1. /\ g.mode = "subset" /\ g.unchanged = {}
      /\ \A p \in DOMAIN g.put :
           p \in ChangedPaths /\ p \in DOMAIN world /\ world[p] = g.put[p]
      /\ \A e \in g.gone : Exists(initial, e) /\ ~Exists(world, e) /\ ~IsWidget(e)
  BY DEF Achieved
<1>2. ASSUME NEW p \in DOMAIN g.put
      PROVE  p \in DOMAIN told.put /\ told.put[p] = g.put[p]
  BY <1>1, ChangesTold, PutTold
<1>3. MatchedPaths(g) = DOMAIN g.put
  BY <1>1, <1>2 DEF MatchedPaths
<1>4. ASSUME NEW e \in g.gone
      PROVE  e \in told.gone
  <2> DEFINE p == Field(e, "note")
  <2>1. "note" \in Fields /\ e \in EntityPath
    BY GoldenFacts, SurfaceFacts DEF Fields, ScoringInv
  <2>2. p \in DOMAIN initial /\ p \notin DOMAIN world
    BY <1>1 DEF Exists
  <2>3. p \in ChangedPaths
    BY <2>2 DEF ChangedPaths
  <2>4. PICK r \in told.gone : IsPrefix(r, p)
    BY <2>2, <2>3, ChangesTold
  <2>5. r \in EntityPath
    BY SurfaceFacts
  <2>6. IsPrefix(r, e)
    BY <2>1, <2>4, <2>5, UnderEntity
  <2>7. r = e
    <3>1. /\ r \in Seq(Names) /\ (Len(r) = 2 \/ Len(r) = 4)
          /\ e \in Seq(Names) /\ (Len(e) = 2 \/ Len(e) = 4)
      BY <2>1, <2>5, EntityFacts
    <3>2. Len(e) = 2
      BY <1>1, <3>1 DEF IsWidget
    <3>3. Len(r) <= Len(e) /\ \A i \in 1 .. Len(r) : r[i] = e[i]
      BY <2>6, <3>1, PrefixMeans
    <3>4. Len(r) = Len(e)
      BY <3>1, <3>2, <3>3
    <3> QED BY <3>1, <3>3, <3>4
  <2> QED BY <2>7
<1> QED BY <1>1, <1>3, <1>4 DEF FinalStateMatch, ViolatedUnchanged

(* A project in which everything a record asks for by name was done passes *)
(* its final-state check, whatever else was done.                          *)
THEOREM NoFalseFailureHolds == ScoringSpec => []NoFalseFailure
<1>1. ScoringInv => NoFalseFailure
  BY SuccessIsTold DEF NoFalseFailure
<1> QED BY ScoringInvInit, ScoringInvStep, <1>1, PTL DEF ScoringSpec

-----------------------------------------------------------------------------
(* Least element of a set of naturals.                                     *)
LEMMA Smallest ==
  ASSUME NEW S \in SUBSET Nat, S # {}
  PROVE  \E m \in S : \A k \in S : m <= k
<1> DEFINE R == {p \in Nat \X Nat : p[1] < p[2]}
<1>1. IsWellFoundedOn(R, Nat)
  BY NatLessThanWellFounded DEF OpToRel, IsWellFoundedOn
<1> HIDE DEF R
<1>2. PICK m \in S : \A k \in S : ~ (<<k, m>> \in R)
  BY <1>1, WFMin
<1>3. ASSUME NEW k \in S PROVE ~(k < m)
  <2>1. k \in Nat /\ m \in Nat
    OBVIOUS
  <2> QED BY <1>2, <2>1 DEF R
<1> QED BY <1>3

(* The ids of entities of one collection and depth tell them apart, so one *)
(* of them precedes all the others.                                        *)
LEMMA FirstEntity ==
  ASSUME NEW C, C \subseteq EntityPath, C # {},
         \A c, d \in C : c[1] = d[1] /\ (IsWidget(c) <=> IsWidget(d))
  PROVE  \E c \in C : \A d \in C \ {c} : Precedes(c, d)
<1>1. ASSUME NEW c \in C
      PROVE  Ids(c)[1] = c[2] /\ Ids(c)[1] \in Nat /\ Ids(c)[2] \in Nat
  <2>1. /\ Len(c) = 2 \/ Len(c) = 4
        /\ c[2] \in Nat /\ (Len(c) = 4 => c[4] \in Nat)
    BY EntityFacts
  <2>2. CASE IsWidget(c)
    <3>1. Ids(c) = <<c[2], c[4]>>
      BY <2>2 DEF Ids
    <3> QED BY <2>1, <2>2, <3>1 DEF IsWidget
  <2>3. CASE ~IsWidget(c)
    <3>1. Ids(c) = <<c[2], 0>>
      BY <2>3 DEF Ids
    <3> QED BY <2>1, <3>1
  <2> QED BY <2>2, <2>3
<1>2. ASSUME NEW c \in C, NEW d \in C, Ids(c)[1] = Ids(d)[1], Ids(c)[2] = Ids(d)[2]
      PROVE  c = d
  <2>1. /\ c \in Seq(Names) /\ (Len(c) = 2 \/ Len(c) = 4)
        /\ d \in Seq(Names) /\ Len(d) = Len(c) /\ c[1] = d[1]
        /\ Len(c) = 4 => c[3] = "widgets" /\ d[3] = "widgets"
    BY EntityFacts DEF IsWidget
  <2>2. c[2] = d[2]
    BY <1>1, <1>2
  <2>3. CASE Len(c) = 2
    BY <2>1, <2>2, <2>3
  <2>4. CASE Len(c) = 4
    <3>1. Ids(c) = <<c[2], c[4]>> /\ Ids(d) = <<d[2], d[4]>>
      BY <2>1, <2>4 DEF Ids, IsWidget
    <3>2. c[4] = d[4] /\ c[3] = d[3]
      BY <1>2, <2>1, <2>4, <3>1
    <3>3. \A i \in 1 .. 4 : c[i] = d[i]
      BY <2>1, <2>2, <3>2
    <3> QED BY <2>1, <2>4, <3>3
  <2> QED BY <2>1, <2>3, <2>4
<1> DEFINE A == {Ids(c)[1] : c \in C}
<1>3. A \in SUBSET Nat /\ A # {}
  BY <1>1
<1>4. PICK m \in A : \A k \in A : m <= k
  <2> HIDE DEF A
  <2> QED BY <1>3, Smallest
<1> DEFINE D == {c \in C : Ids(c)[1] = m}
           B == {Ids(c)[2] : c \in D}
<1>5. B \in SUBSET Nat /\ B # {}
  BY <1>1
<1>6. PICK n \in B : \A k \in B : n <= k
  <2> HIDE DEF A, B, D
  <2> QED BY <1>5, Smallest
<1>7. PICK c \in D : Ids(c)[2] = n
  OBVIOUS
<1>8. ASSUME NEW d \in C \ {c}
      PROVE  Precedes(c, d)
  <2> DEFINE i == Ids(c)
             j == Ids(d)
  <2>1. /\ i[1] \in Nat /\ i[2] \in Nat /\ j[1] \in Nat /\ j[2] \in Nat
        /\ i[1] # j[1] \/ i[2] # j[2]
    BY <1>1, <1>2
  <2>2. i[1] <= j[1]
    BY <1>4
  <2>3. i[1] = j[1] => i[2] <= j[2]
    BY <1>6, <1>7
  <2>4. Precedes(c, d) <=> i[1] < j[1] \/ (i[1] = j[1] /\ i[2] < j[2])
    BY DEF Precedes
  <2> HIDE DEF i, j, A, B, D
  <2> QED BY <2>1, <2>2, <2>3, <2>4
<1> QED BY <1>8

(* The loop of _match_key_fields goes through well-defined states.         *)
MatchStep(g, sofar, i) ==
  IF i = 0 THEN NothingMatched ELSE MatchEntity(g, sofar[i - 1], EntitiesInOrder(g)[i])

LEMMA MatchingRuns ==
  ASSUME NEW g, NEW n \in Nat
  PROVE  \E h : h = [i \in 0 .. n |-> MatchStep(g, h, i)]
<1> DEFINE Reaches(m) == \E h : h = [i \in 0 .. m |-> MatchStep(g, h, i)]
           bad == {m \in Nat : ~Reaches(m)}
<1>1. Reaches(0)
  <2> DEFINE h == [i \in 0 .. 0 |-> NothingMatched]
  <2>1. h = [i \in 0 .. 0 |-> MatchStep(g, h, i)]
    BY DEF MatchStep
  <2> HIDE DEF h
  <2> QED BY <2>1
<1>2. ASSUME NEW m \in Nat, Reaches(m)
      PROVE  Reaches(m + 1)
  <2>1. PICK h : h = [i \in 0 .. m |-> MatchStep(g, h, i)]
    BY <1>2
  <2> DEFINE next == [i \in 0 .. m + 1 |->
                        IF i = m + 1 THEN MatchStep(g, h, i) ELSE h[i]]
  <2>2. \A i \in 0 .. m : next[i] = h[i]
    OBVIOUS
  <2>3. ASSUME NEW i \in 0 .. m + 1
        PROVE  next[i] = MatchStep(g, next, i)
    <3>1. MatchStep(g, next, i) = MatchStep(g, h, i)
      <4>1. CASE i = 0
        BY <4>1 DEF MatchStep
      <4>2. CASE i # 0
        <5>1. i - 1 \in 0 .. m
          BY <4>2
        <5>2. next[i - 1] = h[i - 1]
          BY <2>2, <5>1
        <5> HIDE DEF next
        <5> QED BY <5>2 DEF MatchStep
      <4> QED BY <4>1, <4>2
    <3>2. CASE i = m + 1
      BY <3>1, <3>2
    <3>3. CASE i # m + 1
      <4>1. i \in 0 .. m
        BY <3>3
      <4>2. next[i] = h[i]
        BY <2>2, <4>1
      <4>3. h[i] = MatchStep(g, h, i)
        BY <2>1, <4>1
      <4> QED BY <3>1, <4>2, <4>3
    <3> QED BY <3>2, <3>3
  <2>4. next = [i \in 0 .. m + 1 |-> next[i]]
    OBVIOUS
  <2> HIDE DEF next
  <2>5. next = [i \in 0 .. m + 1 |-> MatchStep(g, next, i)]
    BY <2>3, <2>4
  <2> QED BY <2>5
<1> HIDE DEF Reaches
<1>3. bad = {}
  <2> SUFFICES ASSUME bad # {} PROVE FALSE
    OBVIOUS
  <2>1. PICK m \in bad : \A k \in bad : m <= k
    <3>1. bad \in SUBSET Nat
      OBVIOUS
    <3> HIDE DEF bad
    <3> QED BY <3>1, Smallest
  <2>2. m # 0 /\ m \in Nat
    BY <1>1
  <2>3. m - 1 \in Nat /\ ~(m <= m - 1) /\ (m - 1) + 1 = m
    BY <2>2
  <2>4. Reaches(m - 1)
    BY <2>1, <2>3
  <2>5. Reaches(m)
    BY <1>2, <2>3, <2>4
  <2> QED BY <2>5
<1>4. Reaches(n)
  BY <1>3
<1> QED BY <1>4 DEF Reaches

LEMMA MatchingFacts ==
  ASSUME NEW g, Cardinality(EntitiesOf(DOMAIN g.put)) \in Nat
  PROVE  \E h :
           /\ h[0] = NothingMatched
           /\ \A i \in 1 .. Cardinality(EntitiesOf(DOMAIN g.put)) :
                h[i] = MatchEntity(g, h[i - 1], EntitiesInOrder(g)[i])
           /\ MatchKeyFields(g) = h[Cardinality(EntitiesOf(DOMAIN g.put))].found
<1> DEFINE all == Cardinality(EntitiesOf(DOMAIN g.put))
           h[i \in 0 .. all] ==
             IF i = 0 THEN NothingMatched
             ELSE MatchEntity(g, h[i - 1], EntitiesInOrder(g)[i])
<1>1. \E f : f = [i \in 0 .. all |->
                    IF i = 0 THEN NothingMatched
                    ELSE MatchEntity(g, f[i - 1], EntitiesInOrder(g)[i])]
  BY MatchingRuns DEF MatchStep
<1>2. h = [i \in 0 .. all |->
             IF i = 0 THEN NothingMatched
             ELSE MatchEntity(g, h[i - 1], EntitiesInOrder(g)[i])]
  BY <1>1, Zenon
<1>3. MatchKeyFields(g) = h[all].found
  BY Zenon DEF MatchKeyFields
<1> HIDE DEF h
<1>4. h[0] = NothingMatched
  <2>1. 0 \in 0 .. all
    OBVIOUS
  <2> HIDE DEF all
  <2> QED BY <1>2, <2>1
<1>5. ASSUME NEW i \in 1 .. all
      PROVE  h[i] = MatchEntity(g, h[i - 1], EntitiesInOrder(g)[i])
  <2>1. i \in 0 .. all /\ i # 0
    OBVIOUS
  <2> HIDE DEF all
  <2> QED BY <1>2, <2>1
<1> QED BY <1>3, <1>4, <1>5 DEF all

(* An entity of the trace that has what the record wants of e, and is e or *)
(* one of the same collection.                                             *)
StandsFor(g, c, e) ==
  /\ c \in EntitiesOf(DOMAIN told.put) /\ Satisfies(g, told.put, e, c)
  /\ c = e \/ c[1] = e[1]

(* What holds in every round: a path counts as found when some entity      *)
(* stands for its own or it is told itself.                                *)
MatchingInv(g, sofar) ==
  /\ DOMAIN sofar = {"used", "found", "alias"}
  /\ \A q \in DOMAIN sofar.alias :
       sofar.alias[q] \in EntityPath /\ sofar.alias[q][1] = q[1]
  /\ \A p \in sofar.found :
       \/ \E c : StandsFor(g, c, Entity(p))
       \/ p \in DOMAIN told.put /\ told.put[p] = g.put[p]

LEMMA ScopeFacts ==
  ASSUME NEW e, AliasScope(e) # <<>>
  PROVE  /\ AliasScope(e)[1] = e[1]
         /\ Len(AliasScope(e)) = IF IsWidget(e) THEN 3 ELSE 1
BY DEF AliasScope

(* A candidate is of the same collection as what it stands for, and they   *)
(* are all widgets, or none is.                                            *)
LEMMA CandidateFacts ==
  ASSUME NEW e, NEW alias, NEW c,
         AliasScope(c) \in AliasScopes(e, alias),
         \A q \in DOMAIN alias : alias[q] \in EntityPath /\ alias[q][1] = q[1]
  PROVE  c[1] = e[1] /\ (IsWidget(c) <=> IsWidget(e))
<1>1. CASE AliasScope(c) = AliasScope(e) /\ AliasScope(e) # <<>>
  <2>1. AliasScope(c)[1] = c[1] /\ Len(AliasScope(c)) = IF IsWidget(c) THEN 3 ELSE 1
    BY <1>1, ScopeFacts
  <2>2. AliasScope(e)[1] = e[1] /\ Len(AliasScope(e)) = IF IsWidget(e) THEN 3 ELSE 1
    BY <1>1, ScopeFacts
  <2> QED BY ONLY <1>1, <2>1, <2>2
<1>2. ASSUME NEW page \in DOMAIN alias, IsWidget(e), page = <<e[1], e[2]>>,
             AliasScope(c) = Append(alias[page], "widgets")
      PROVE  c[1] = e[1] /\ IsWidget(c)
  <2> DEFINE a == alias[page]
  <2>1. /\ a \in Seq(Names) /\ (Len(a) = 2 \/ Len(a) = 4) /\ a[1] = page[1]
        /\ "widgets" \in Names
    BY EntityFacts DEF Names
  <2>2. page[1] = e[1]
    BY <1>2
  <2> HIDE DEF a
  <2>3. /\ Append(a, "widgets") \in Seq(Names)
        /\ Len(Append(a, "widgets")) = Len(a) + 1
        /\ Append(a, "widgets")[1] = a[1]
    BY <2>1
  <2>4. AliasScope(c) = Append(a, "widgets") /\ Append(a, "widgets") # <<>>
    BY <1>2, <2>1, <2>3 DEF a
  <2>5. AliasScope(c)[1] = c[1] /\ Len(AliasScope(c)) = IF IsWidget(c) THEN 3 ELSE 1
    BY <2>4, ScopeFacts
  <2> QED BY <2>1, <2>2, <2>3, <2>4, <2>5
<1> QED BY <1>1, <1>2 DEF AliasScopes

LEMMA EntitiesTold ==
  ASSUME ScoringInv
  PROVE  EntitiesOf(DOMAIN told.put) \subseteq EntityPath
BY SurfaceFacts, WorldFacts, PathFacts DEF EntitiesOf

LEMMA MatchEntityKeeps ==
  ASSUME ScoringInv, NEW g, NEW sofar, MatchingInv(g, sofar), NEW e
  PROVE  MatchingInv(g, MatchEntity(g, sofar, e))
<1> DEFINE wanted == FieldsOf(DOMAIN g.put, e)
           fits == {c \in EntitiesOf(DOMAIN told.put) \ sofar.used :
                      Satisfies(g, told.put, e, c)}
           candidates == {c \in fits : AliasScope(c) \in AliasScopes(e, sofar.alias)}
           Found(c) ==
             [used |-> sofar.used \cup {c}, found |-> sofar.found \cup wanted,
              alias |-> IF c = e THEN sofar.alias ELSE Over(Only(e, c), sofar.alias)]
           least == CHOOSE c \in candidates :
                      \A d \in candidates \ {c} : Precedes(c, d)
           other == [sofar EXCEPT !.found = @ \cup
                       {p \in wanted : p \in DOMAIN told.put /\ told.put[p] = g.put[p]}]
<1>1. MatchEntity(g, sofar, e) = IF e \in fits THEN Found(e)
                                 ELSE IF candidates # {} THEN Found(least) ELSE other
  BY DEF MatchEntity
<1>2. /\ DOMAIN sofar = {"used", "found", "alias"}
      /\ \A q \in DOMAIN sofar.alias :
           sofar.alias[q] \in EntityPath /\ sofar.alias[q][1] = q[1]
      /\ \A p \in sofar.found :
           \/ \E c : StandsFor(g, c, Entity(p))
           \/ p \in DOMAIN told.put /\ told.put[p] = g.put[p]
  BY DEF MatchingInv
<1>3. \A p \in wanted : Entity(p) = e
  BY DEF FieldsOf
<1>4. candidates \subseteq EntityPath
  BY EntitiesTold
<1>5. \A c \in candidates : c[1] = e[1] /\ (IsWidget(c) <=> IsWidget(e))
  <2> SUFFICES ASSUME NEW c \in candidates
               PROVE  c[1] = e[1] /\ (IsWidget(c) <=> IsWidget(e))
    OBVIOUS
  <2>1. AliasScope(c) \in AliasScopes(e, sofar.alias)
    OBVIOUS
  <2> QED BY <1>2, <2>1, CandidateFacts
<1>6. candidates # {} => least \in candidates
  <2> HIDE DEF candidates
  <2> SUFFICES ASSUME candidates # {} PROVE least \in candidates
    OBVIOUS
  <2>1. \A c, d \in candidates : c[1] = d[1] /\ (IsWidget(c) <=> IsWidget(d))
    BY <1>5
  <2>2. \E c \in candidates : \A d \in candidates \ {c} : Precedes(c, d)
    BY <1>4, <2>1, FirstEntity
  <2> QED BY <2>2
<1> HIDE DEF least
<1>7. ASSUME NEW c, c \in fits, c = e \/ c \in candidates
      PROVE  MatchingInv(g, Found(c))
  <2>1. /\ Found(c).found = sofar.found \cup wanted
        /\ Found(c).alias = IF c = e THEN sofar.alias ELSE Over(Only(e, c), sofar.alias)
        /\ DOMAIN Found(c) = {"used", "found", "alias"}
    OBVIOUS
  <2>2. StandsFor(g, c, e)
    BY <1>5, <1>7 DEF StandsFor
  <2>3. \A p \in Found(c).found :
          \/ \E d : StandsFor(g, d, Entity(p))
          \/ p \in DOMAIN told.put /\ told.put[p] = g.put[p]
    BY <1>2, <1>3, <2>1, <2>2
  <2>4. ASSUME NEW q \in DOMAIN Found(c).alias
        PROVE  Found(c).alias[q] \in EntityPath /\ Found(c).alias[q][1] = q[1]
    <3>1. CASE c = e
      BY <1>2, <2>1, <2>4, <3>1
    <3>2. CASE c # e
      <4>1. c \in EntityPath /\ c[1] = e[1]
        BY <1>4, <1>5, <1>7, <3>2
      <4>2. Found(c).alias = Over(Only(e, c), sofar.alias)
        BY <2>1, <3>2
      <4>3. DOMAIN Only(e, c) = {e} /\ Only(e, c)[e] = c
        BY DEF Only
      <4>4. q \in {e} \cup DOMAIN sofar.alias
        BY <2>4, <4>2, <4>3 DEF Over
      <4>5. Over(Only(e, c), sofar.alias)[q] = IF q \in {e} THEN c ELSE sofar.alias[q]
        BY <4>3, <4>4, OverValues
      <4>6. CASE q = e
        BY <4>1, <4>2, <4>5, <4>6
      <4>7. CASE q # e
        BY <1>2, <4>2, <4>4, <4>5, <4>7
      <4> QED BY <4>6, <4>7
    <3> QED BY <3>1, <3>2
  <2> HIDE DEF Found
  <2> QED BY <2>1, <2>3, <2>4 DEF MatchingInv
<1>8. MatchingInv(g, other)
  <2>1. ASSUME NEW p \in other.found
        PROVE  \/ \E d : StandsFor(g, d, Entity(p))
               \/ p \in DOMAIN told.put /\ told.put[p] = g.put[p]
    BY <1>2, <2>1
  <2>2. other.alias = sofar.alias /\ DOMAIN other = {"used", "found", "alias"}
    BY <1>2
  <2> HIDE DEF other
  <2> QED BY <1>2, <2>1, <2>2 DEF MatchingInv
<1>9. CASE e \in fits
  <2>1. MatchingInv(g, Found(e))
    BY <1>7, <1>9
  <2> HIDE DEF fits, Found
  <2> QED BY <1>1, <1>9, <2>1
<1>10. CASE e \notin fits /\ candidates # {}
  <2>1. least \in fits /\ least \in candidates
    BY <1>6, <1>10
  <2>2. MatchingInv(g, Found(least))
    BY <1>7, <2>1
  <2> HIDE DEF fits, candidates, Found
  <2> QED BY <1>1, <1>10, <2>2
<1>11. CASE e \notin fits /\ candidates = {}
  <2> HIDE DEF fits, candidates, other
  <2> QED BY <1>1, <1>8, <1>11
<1> QED BY <1>9, <1>10, <1>11

LEMMA FoundIsTold ==
  ASSUME ScoringInv, NEW g, Cardinality(EntitiesOf(DOMAIN g.put)) \in Nat,
         NEW p \in MatchKeyFields(g)
  PROVE  \/ \E c : StandsFor(g, c, Entity(p))
         \/ p \in DOMAIN told.put /\ told.put[p] = g.put[p]
<1> DEFINE all == Cardinality(EntitiesOf(DOMAIN g.put))
<1>1. PICK h :
        /\ h[0] = NothingMatched
        /\ \A i \in 1 .. all : h[i] = MatchEntity(g, h[i - 1], EntitiesInOrder(g)[i])
        /\ MatchKeyFields(g) = h[all].found
  BY MatchingFacts
<1>2. all \in Nat
  OBVIOUS
<1> HIDE DEF all
<1>3. MatchingInv(g, h[0])
  <2>1. /\ NothingMatched.found = {} /\ NothingMatched.alias = <<>>
        /\ DOMAIN NothingMatched = {"used", "found", "alias"}
    BY DEF NothingMatched
  <2>2. DOMAIN NothingMatched.alias = {}
    BY <2>1
  <2> QED BY <1>1, <2>1, <2>2 DEF MatchingInv
<1>4. ASSUME NEW i \in 1 .. all, MatchingInv(g, h[i - 1])
      PROVE  MatchingInv(g, h[i])
  <2>1. h[i] = MatchEntity(g, h[i - 1], EntitiesInOrder(g)[i])
    BY <1>1
  <2> QED BY <1>4, <2>1, MatchEntityKeeps
<1> DEFINE bad == {i \in 0 .. all : ~MatchingInv(g, h[i])}
<1>5. bad = {}
  <2> SUFFICES ASSUME bad # {} PROVE FALSE
    OBVIOUS
  <2>1. PICK m \in bad : \A k \in bad : m <= k
    <3>1. bad \in SUBSET Nat
      BY <1>2
    <3> HIDE DEF bad
    <3> QED BY <3>1, Smallest
  <2>2. m \in 0 .. all /\ m # 0 /\ ~MatchingInv(g, h[m])
    BY <1>3
  <2>3. m \in 1 .. all /\ m - 1 \in 0 .. all /\ ~(m <= m - 1)
    BY <1>2, <2>2
  <2>4. MatchingInv(g, h[m - 1])
    BY <2>1, <2>3
  <2> QED BY <1>4, <2>2, <2>3, <2>4
<1>6. MatchingInv(g, h[all])
  BY <1>2, <1>5
<1>7. p \in h[all].found
  BY <1>1
<1> QED BY <1>6, <1>7 DEF MatchingInv

-----------------------------------------------------------------------------
LEMMA ExpectedFinite ==
  ASSUME ScoringTypeOK, NEW g \in Goldens[surface]
  PROVE  Cardinality(EntitiesOf(DOMAIN g.put)) \in Nat
<1>1. IsFiniteSet(surface) /\ surface \subseteq EntityPath
  BY SurfacesAssumption DEF ScoringTypeOK
<1>2. EntitiesOf(DOMAIN g.put) \subseteq surface
  BY <1>1, GoldenFacts, PathFacts DEF EntitiesOf
<1>3. IsFiniteSet(EntitiesOf(DOMAIN g.put))
  BY <1>1, <1>2, FS_Subset
<1> QED BY <1>3, FS_CardinalityType

(* The entity a record wants is in the project under its own name, or one  *)
(* of its collection has what is wanted of it.                             *)
LEMMA WantedIsThere ==
  ASSUME ScoringInv, untold = {}, NEW g \in Goldens[surface],
         MatchedPaths(g) = DOMAIN g.put, NEW e \in EntitiesOf(DOMAIN g.put)
  PROVE  IF g.mode = "key_fields"
         THEN \E c \in EntitiesOf(DOMAIN world) :
                Satisfies(g, world, e, c) /\ (c = e \/ c[1] = e[1])
         ELSE Satisfies(g, world, e, e)
<1>1. ScoringTypeOK /\ surface \subseteq EntityPath
  BY SurfaceFacts DEF ScoringInv
<1>2. ASSUME NEW p \in FieldsOf(DOMAIN g.put, e)
      PROVE  p \in DOMAIN g.put /\ Entity(p) = e /\ p = Field(e, Last(p))
  BY <1>1, GoldenFacts, PathFacts DEF FieldsOf
<1>3. ASSUME \A p \in FieldsOf(DOMAIN g.put, e) :
               p \in DOMAIN told.put /\ told.put[p] = g.put[p]
      PROVE  Satisfies(g, world, e, e)
  BY <1>2, <1>3, PutTold DEF Satisfies
<1>4. CASE g.mode # "key_fields"
  <2>1. \A p \in DOMAIN g.put : p \in DOMAIN told.put /\ told.put[p] = g.put[p]
    BY <1>4 DEF MatchedPaths
  <2> QED BY <1>2, <1>3, <1>4, <2>1
<1>5. CASE g.mode = "key_fields"
  <2>1. MatchKeyFields(g) = DOMAIN g.put
    BY <1>5 DEF MatchedPaths
  <2>2. Cardinality(EntitiesOf(DOMAIN g.put)) \in Nat
    BY <1>1, ExpectedFinite
  <2>3. CASE \E c : StandsFor(g, c, e)
    <3>1. PICK c : StandsFor(g, c, e)
      BY <2>3
    <3>2. c \in EntitiesOf(DOMAIN world)
      BY <3>1, PutTold DEF StandsFor, EntitiesOf
    <3>3. Satisfies(g, world, e, c)
      BY <3>1, PutTold DEF StandsFor, Satisfies
    <3> QED BY <1>5, <3>1, <3>2, <3>3 DEF StandsFor
  <2>4. CASE ~ \E c : StandsFor(g, c, e)
    <3>1. \A p \in FieldsOf(DOMAIN g.put, e) :
            p \in DOMAIN told.put /\ told.put[p] = g.put[p]
      BY <1>2, <2>1, <2>2, <2>4, FoundIsTold
    <3>2. Satisfies(g, world, e, e)
      BY <1>3, <3>1
    <3>3. PICK p \in DOMAIN g.put : Entity(p) = e
      BY DEF EntitiesOf
    <3>4. p \in DOMAIN world
      BY <3>1, <3>3, PutTold DEF FieldsOf
    <3>5. e \in EntitiesOf(DOMAIN world)
      BY <3>3, <3>4 DEF EntitiesOf
    <3> QED BY <1>5, <3>2, <3>5
  <2> QED BY <2>3, <2>4
<1> QED BY <1>4, <1>5

(* What strict mode lets pass is demanded: what is there was put, and only *)
(* what is demanded was; what is not was under an entity to be removed.    *)
LEMMA StrictIsDemanded ==
  ASSUME ScoringInv, untold = {}, NEW g \in Goldens[surface], Unexpected(g) = {},
         NEW p \in ChangedPaths
  PROVE  Demanded(g, p)
<1>1. CASE p \in DOMAIN told.put
  <2>1. p \in DOMAIN g.put
    BY <1>1 DEF Unexpected
  <2>2. p \in Seq(Names)
    BY <1>1, SurfaceFacts, WorldFacts, PathFacts
  <2> QED BY <2>1, <2>2, PrefixItself DEF Demanded, SamePathOrChild
<1>2. CASE \E r \in told.gone : IsPrefix(r, p)
  BY <1>2 DEF Unexpected, Demanded
<1> QED BY <1>1, <1>2, ChangesTold

(* A change under a protected path is demanded, when what is demanded by   *)
(* name was found.                                                         *)
LEMMA ProtectedIsDemanded ==
  ASSUME ScoringInv, untold = {}, NEW g \in Goldens[surface],
         \A q \in DOMAIN g.put : q \in DOMAIN told.put,
         ~ViolatedUnchanged(g),
         NEW u \in g.unchanged, NEW p \in ChangedPaths, SamePathOrChild(p, u)
  PROVE  Demanded(g, p)
<1>1. /\ surface \subseteq EntityPath /\ ScoringTypeOK
      /\ p \in PathsOf(surface)
  BY SurfaceFacts, WorldFacts DEF ScoringInv, ChangedPaths
<1>2. p \in Seq(Names) /\ u \in Seq(Names)
  BY <1>1, GoldenFacts, PathFacts, EntityFacts
<1>3. \A q \in DOMAIN told.put \cup told.gone :
        SamePathOrChild(q, u) =>
          q \in g.gone \/ \E d \in DOMAIN g.put : SamePathOrChild(q, d)
  BY DEF ViolatedUnchanged
<1>4. CASE p \in DOMAIN told.put
  <2>1. p \in g.gone => IsPrefix(p, p)
    BY <1>2, PrefixItself
  <2> QED BY <1>3, <1>4, <2>1 DEF Demanded
<1>5. CASE \E r \in told.gone : IsPrefix(r, p)
  <2>1. PICK r \in told.gone : IsPrefix(r, p)
    BY <1>5
  <2>2. r \in EntityPath /\ r \in Seq(Names)
    BY <1>1, SurfaceFacts, EntityFacts
  <2>3. SamePathOrChild(r, u)
    <3>1. CASE IsPrefix(p, u)
      <4>1. IsPrefix(r, u)
        BY <1>2, <2>1, <2>2, <3>1, PrefixTransitive
      <4> QED BY <4>1 DEF SamePathOrChild
    <3>2. CASE IsPrefix(u, p)
      BY <1>2, <2>1, <2>2, <3>2, PrefixesComparable
    <3> QED BY <3>1, <3>2 DEF SamePathOrChild
  <2>4. ASSUME NEW d \in DOMAIN g.put, SamePathOrChild(r, d)
        PROVE  FALSE
    <3>1. d \in DOMAIN told.put /\ d \in DOMAIN world
      BY PutTold
    <3>2. d \in PathsOf(surface)
      BY <1>1, GoldenFacts
    <3>3. /\ Entity(d) \in EntityPath /\ Last(d) \in Fields
          /\ d = Field(Entity(d), Last(d))
      BY <1>1, <3>2, PathFacts
    <3>4. IsPrefix(r, d)
      BY <2>2, <2>4, <3>3, UnderEntity DEF SamePathOrChild
    <3>5. PathsUnder(world, r) = {}
      BY GoneTold
    <3> QED BY <3>1, <3>4, <3>5 DEF PathsUnder
  <2>5. r \in g.gone
    BY <1>3, <2>3, <2>4
  <2> QED BY <2>1, <2>5 DEF Demanded
<1> QED BY <1>4, <1>5, ChangesTold

LEMMA VerdictIsAboutWorld ==
  ASSUME ScoringInv, untold = {}, NEW g \in Goldens[surface], TaskSuccess(g)
  PROVE  Holds(g) /\ (g.behavior = "reject" => world = initial)
<1>1. FinalStateMatch(g)
  BY DEF TaskSuccess
<1>2. /\ MatchedPaths(g) = DOMAIN g.put
      /\ g.gone \subseteq told.gone
      /\ g.mode = "strict" => Unexpected(g) = {}
      /\ ~ViolatedUnchanged(g)
  BY <1>1 DEF FinalStateMatch
<1>3. \A e \in EntitiesOf(DOMAIN g.put) :
        IF g.mode = "key_fields"
        THEN \E c \in EntitiesOf(DOMAIN world) :
               Satisfies(g, world, e, c) /\ (c = e \/ c[1] = e[1])
        ELSE Satisfies(g, world, e, e)
  BY <1>2, WantedIsThere
<1>4. \A e \in g.gone : PathsUnder(world, e) = {}
  BY <1>2, GoneTold
<1>5. g.mode = "strict" => \A p \in ChangedPaths : Demanded(g, p)
  BY <1>2, StrictIsDemanded
<1>6. ASSUME g.mode # "key_fields",
             NEW u \in g.unchanged, NEW p \in ChangedPaths, SamePathOrChild(p, u)
      PROVE  Demanded(g, p)
  <2>1. \A q \in DOMAIN g.put : q \in DOMAIN told.put
    BY <1>2, <1>6 DEF MatchedPaths
  <2> QED BY <1>2, <1>6, <2>1, ProtectedIsDemanded
<1>7. Holds(g)
  BY <1>3, <1>4, <1>5, <1>6 DEF Holds
<1>8. g.behavior = "reject" => world = initial
  BY DEF TaskSuccess, NoWorldMutation, ScoringInv
<1> QED BY <1>7, <1>8

(* As long as every change is told, a row that counts as done is about a   *)
(* project as its record describes, in every match mode, and one that was  *)
(* to be refused about an untouched project.                               *)
THEOREM VerdictMatchesWorldHolds == ScoringSpec => []VerdictMatchesWorld
<1>1. ScoringInv => VerdictMatchesWorld
  BY VerdictIsAboutWorld DEF VerdictMatchesWorld
<1> QED BY ScoringInvInit, ScoringInvStep, <1>1, PTL DEF ScoringSpec
=============================================================================
