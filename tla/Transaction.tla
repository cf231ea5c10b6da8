---------------------------- MODULE Transaction ----------------------------
(***************************************************************************)
(* What the Saga promises of a workflow run (the comment above it in       *)
(* agent/orchestrator.py: "all of it, or none of it"), with no step, no    *)
(* cursor and no compensation stack in it: a run grows a log of changes    *)
(* and then either keeps the whole log or takes it back, newest change     *)
(* first, until nothing is left.                                           *)
(***************************************************************************)
EXTENDS SequencesExt

CONSTANT Changes

VARIABLES phase, log

transactionVars == <<phase, log>>

Init == phase = "running" /\ log = <<>>

Write ==
  /\ phase = "running"
  /\ \E c \in Changes : log' = Append(log, c)
  /\ UNCHANGED phase

Commit == phase = "running" /\ phase' = "committed" /\ UNCHANGED log

(* At once, from the checkpoint, or change by change.                      *)
Abort ==
  /\ phase = "running"
  /\ \/ phase' = "aborted" /\ log' = <<>>
     \/ phase' = "aborting" /\ UNCHANGED log

TakeBack ==
  /\ phase = "aborting"
  /\ log # <<>>
  /\ log' = Front(log)
  /\ phase' = IF log' = <<>> THEN "aborted" ELSE "aborting"

Next == Write \/ Commit \/ Abort \/ TakeBack

Spec == Init /\ [][Next]_transactionVars
=============================================================================
