------------------------------- MODULE Runner -------------------------------
(* eval/runner.py and the tracer it writes through: a process that works   *)
(* the pairs (golden id, repetition) of one run directory with a pool of   *)
(* worker threads, is killed at any moment, and resumes from the trace     *)
(* file the dead one left. Operators on a run directory and on a process;  *)
(* Campaign composes them with the supervisor that starts them.            *)
EXTENDS Naturals, FiniteSets, Sequences, Functions

CONSTANTS Selected,   \* the pairs of a run, in the order of the work list:
                      \* each once, as --all and samples select them
          MaxReruns   \* --max-reruns

Pairs == Range(Selected)

ASSUME RunnerAssumption ==
  /\ Selected \in Seq(Pairs) /\ IsInjective(Selected)
  /\ MaxReruns \in Nat

(* A run directory: how often a scoreable line of each pair can be read    *)
(* from traces.jsonl (from 2 on they all count as 2), the pairs with an    *)
(* UNKNOWN line, and the tail of the trace file: "whole", "open" (a line   *)
(* torn before its newline) or "closed" (the torn line is followed by a    *)
(* newline and stays unreadable). Nothing reads _failures.jsonl back.      *)
Directories ==
  [scored : [Pairs -> 0..2], void : SUBSET Pairs,
   tail : {"whole", "open", "closed"}]
EmptyDirectory == [scored |-> [p \in Pairs |-> 0], void |-> {}, tail |-> "whole"]

(* Tracer._write: one line under the write lock, the scoreable one of pair *)
(* p or its UNKNOWN one. Behind an open tail it lands on the torn line.    *)
WriteTrace(d, p, scoreable) ==
  CASE d.tail = "open" -> [d EXCEPT !.tail = "closed"]
    [] d.tail # "open" /\ scoreable ->
         [d EXCEPT !.scored[p] = IF @ = 2 THEN 2 ELSE @ + 1]
    [] OTHER -> [d EXCEPT !.void = @ \cup {p}]

(* _completed_pairs: the pairs a resumed run does not run again.           *)
CompletedPairs(d) == {p \in Pairs : d.scored[p] > 0}

(* _read_jsonl hands every line to json.loads.                             *)
Readable(d) == d.tail = "whole"

-----------------------------------------------------------------------------
(* A process: its directory's cell, what is left of the work list (which   *)
(* is in the order of Selected), the pairs its workers are busy with (each *)
(* with its attempt), and how many failed.                                 *)
Idle == [live |-> FALSE]

(* run_experiment up to its pool, with --resume: an unreadable trace file  *)
(* raises, and nothing left to do returns at once.                         *)
Started(c, d, w) ==
  LET work == Pairs \ CompletedPairs(d)
  IN  IF ~Readable(d) \/ work = {} THEN Idle
      ELSE [live |-> TRUE, cell |-> c, workers |-> w, todo |-> work,
            busy |-> <<>>, failed |-> 0]

(* A worker takes the next pair of the work list.                          *)
Place(p) == CHOOSE i \in DOMAIN Selected : Selected[i] = p
CanTake(r, p) ==
  /\ r.live /\ Cardinality(DOMAIN r.busy) < r.workers
  /\ p \in r.todo /\ \A q \in r.todo : Place(p) <= Place(q)
Taken(r, p) ==
  [r EXCEPT !.busy = [q \in DOMAIN @ \cup {p} |-> IF q = p THEN 0 ELSE @[q]],
            !.todo = @ \ {p}]

Freed(r, p) == [r EXCEPT !.busy = [q \in DOMAIN @ \ {p} |-> @[q]]]

(* _run_one_pair: an attempt either leaves a scoreable line, or it fails   *)
(* with an UNKNOWN line (or before the trace was opened) and is repeated   *)
(* until the reruns are used up and the failure is recorded.               *)
(* Mutant: a scored pair is tried again while reruns are left.             *)
Resampled(r, p) ==
  IF r.busy[p] < MaxReruns THEN [r EXCEPT !.busy[p] = @ + 1] ELSE Freed(r, p)
Succeeded(r, p) == Freed(r, p)

(* Mutant: a pair that used up its reruns leaves its worker uncounted.     *)
FailedUncounted(r, p) ==
  IF r.busy[p] < MaxReruns THEN [r EXCEPT !.busy[p] = @ + 1] ELSE Freed(r, p)
Failed(r, p) ==
  IF r.busy[p] < MaxReruns THEN [r EXCEPT !.busy[p] = @ + 1]
  ELSE [Freed(r, p) EXCEPT !.failed = @ + 1]

(* Pool and queue are empty: the process writes its metadata and exits     *)
(* with 0 when nothing failed.                                             *)
Drained(r) == r.live /\ r.todo = {} /\ DOMAIN r.busy = {}

(* A killed process may have been writing a line.                          *)
Tearings(d, r) ==
  IF DOMAIN r.busy # {} /\ d.tail # "open" THEN {d, [d EXCEPT !.tail = "open"]}
  ELSE {d}
=============================================================================
