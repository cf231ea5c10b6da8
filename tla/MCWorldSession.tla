--------------------------- MODULE MCWorldSession ---------------------------
(* Small projects for WorldSession: which domains meet, and the seeds.     *)
EXTENDS WorldSession, TLC

MCSurfaces == {{"points", "alarms"}, {"points", "history"}, {"points", "devices"},
               {"alarms", "scripts"}, {"points", "pages"}, {"pages", "graphics"},
               {"history"} \cup AnswerDomains}

MCHistoryOnly == {{"history"}}

(* A project with an archive that reaches back, as the golden cases seed   *)
(* it: no tool writes samples.                                             *)
Seeded(t, n) ==
  [EmptyWorld EXCEPT
     !.points = t :> [tag |-> t, type |-> "analog", note |-> n],
     !.histories = t :> [tag |-> t, enabled |-> TRUE, stored |-> MaxStored,
                         note |-> n]]
MCSeeds == {EmptyWorld} \cup {Seeded(t, n) : t \in Tags, n \in Notes}

(* Names only are compared, and every set of calls ranges over all names.  *)
MCSymmetry == Permutations(Tags) \cup Permutations(Notes) \cup Permutations(PageIds)
                \cup Permutations(ScriptIds) \cup Permutations(DeviceIds)
=============================================================================
