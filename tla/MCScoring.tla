----------------------------- MODULE MCScoring -----------------------------
(* Small projects and the records to score them by.                        *)
EXTENDS Scoring

Point(i) == <<"points", i>>
Alarm(i) == <<"alarms", i>>
Page(i) == <<"pages", i>>
Widget(i, j) == <<"pages", i, "widgets", j>>

MCSurfaces == {{Point(1), Point(2)}, {Alarm(1), Alarm(2)},
               {Page(1), Widget(1, 1), Widget(1, 2)}, {Page(1), Page(2), Widget(1, 1)}}
MCSiblings == {{Alarm(1), Alarm(2)}}

Nothing == [behavior |-> "success", code |-> "none", mode |-> "subset",
        put |-> <<>>, gone |-> {}, unchanged |-> {}]

Puts(paths) == UNION {[d -> Values] : d \in {e \in SUBSET paths : Cardinality(e) <= 2}}

(* The records for a surface: up to two fields to find, one entity to find *)
(* removed, one protected path; and two of requests not to be followed.    *)
GoldensOf(entities) ==
  LET paths == {Field(e, f) : e \in entities, f \in {"note", "binding"}}
      protected == {{}} \cup {{u} : u \in entities}
  IN  {[Nothing EXCEPT !.mode = m, !.put = put, !.gone = gone, !.unchanged = u] :
         m \in {"strict", "subset", "key_fields"}, put \in Puts(paths),
         gone \in {{}} \cup {{e} : e \in entities}, u \in protected}
MCGoldens ==
  [s \in Surfaces |->
     GoldensOf(s) \cup
     {[Nothing EXCEPT !.behavior = "reject"],
      [Nothing EXCEPT !.behavior = "fail_or_clarify", !.code = "POINT_NOT_FOUND"]}]
=============================================================================
