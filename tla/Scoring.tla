------------------------------ MODULE Scoring ------------------------------
(***************************************************************************)
(* What a run of tool calls leaves, and what eval/metrics.py concludes     *)
(* from its trace.  The project is a function from paths to values, a path *)
(* being an entity's path and a field: <<"alarms", 1, "note">>, or         *)
(* <<"pages", 1, "widgets", 2, "note">>; ids are numbers, for the scorer   *)
(* sorts them.  The scorer never sees the project: only the world_diffs    *)
(* the calls reported and their error codes.                               *)
(*                                                                         *)
(*   initial, world   the project as seeded, and now                       *)
(*   told             the fold of the world_diffs: put and gone            *)
(*   wrote            some call reported a change                          *)
(*   codes            the error codes of the failed calls                  *)
(*   calls            calls made, at most MaxCalls (a bound)               *)
(* and, not program variables:                                             *)
(*   untold           what changed behind the diffs, or against their fold *)
(***************************************************************************)
EXTENDS Naturals, FiniteSets, SequencesExt

CONSTANTS Surfaces,   \* the sets of entities a session may touch
          Values,     \* the values of a field
          Goldens,    \* for each of them, the records it may be scored against
          MaxCalls    \* bound

VARIABLES surface, initial, world, told, wrote, codes, calls, untold

scoringVars == <<surface, initial, world, told, wrote, codes, calls, untold>>
frame == <<surface, initial>>

(* An entity of a collection of the project, and a widget on a page.       *)
Collections == {"pages", "points", "alarms", "devices", "histories", "scripts",
                "deployments"}
EntityPath == (Collections \X Nat) \cup ({"pages"} \X Nat \X {"widgets"} \X Nat)
Fields == {"note", "binding"}

ASSUME SurfacesAssumption ==
  \A s \in Surfaces : IsFiniteSet(s) /\ s \subseteq EntityPath

Field(e, f) == Append(e, f)
PathsOf(entities) == {Field(e, f) : e \in entities, f \in Fields}
Entity(path) == Front(path)
IsWidget(e) == Len(e) = 4
PathsUnder(w, e) == {p \in DOMAIN w : IsPrefix(e, p)}
Exists(w, e) == Field(e, "note") \in DOMAIN w

(* dict(x=v), and {**g, **f}.                                              *)
Only(x, v) == [y \in {x} |-> v]
Over(f, g) == [x \in DOMAIN f \cup DOMAIN g |-> IF x \in DOMAIN f THEN f[x] ELSE g[x]]

(* _same_path_or_child.                                                    *)
SamePathOrChild(p, q) == IsPrefix(p, q) \/ IsPrefix(q, p)

-----------------------------------------------------------------------------
(* _aggregate_world_diff, one call more.  Mutant: what is removed stays.   *)
AggregateKept(sofar, put, gone) ==
  [put |-> Over(put, sofar.put), gone |-> (sofar.gone \ DOMAIN put) \cup gone]
Aggregate(sofar, put, gone) ==
  LET all == Over(put, sofar.put)
      kept == {p \in DOMAIN all : \A r \in gone : ~SamePathOrChild(p, r)}
  IN  [put |-> [p \in kept |-> all[p]],
       gone |-> (sofar.gone \ DOMAIN put) \cup gone]

(* A call that succeeded with this world_diff.                             *)
Report(put, gone) ==
  /\ calls < MaxCalls /\ calls' = calls + 1
  /\ told' = Aggregate(told, put, gone)
  /\ wrote' = TRUE
  /\ UNCHANGED <<frame, codes>>

(* removed.discard takes a path that is put again out of the removed ones, *)
(* but an entity is removed by its own path and put by those of its fields.*)
Remade(e) == {r \in told.gone : IsPrefix(r, e)}

Without(w, e) == [p \in DOMAIN w \ PathsUnder(w, e) |-> w[p]]

(* create_*: the whole entity is reported.                                 *)
Create(e, v) ==
  /\ ~Exists(world, e)
  /\ IsWidget(e) => Exists(world, SubSeq(e, 1, 2))
  /\ LET put == Only(Field(e, "note"), v)
     IN  world' = Over(put, world) /\ Report(put, {})
  /\ untold' = untold \cup Remade(e)

(* set_*, update_*, bind_point: the field is reported.                     *)
Write(e, f, v) ==
  /\ Exists(world, e)
  /\ f = "binding" => IsWidget(e)
  /\ LET put == Only(Field(e, f), v)
     IN  world' = Over(put, world) /\ Report(put, {})
  /\ UNCHANGED untold

(* unbind_widget_point reports the bindings that remain, which say nothing *)
(* of the one that is gone.                                                *)
Unbind(e) ==
  /\ IsWidget(e) /\ Exists(world, e)
  /\ world' = Without(world, Field(e, "binding"))
  /\ Report(<<>>, {})
  /\ untold' = untold \cup PathsUnder(world, Field(e, "binding"))

(* delete_*, a page with its widgets.                                      *)
Delete(e) ==
  /\ Exists(world, e)
  /\ world' = Without(world, e)
  /\ Report(<<>>, {e})
  /\ UNCHANGED untold

(* rename_point, rename_script.                                            *)
Rename(e, new) ==
  /\ e[1] \in {"points", "scripts"} /\ new[1] = e[1]
  /\ Exists(world, e) /\ ~Exists(world, new)
  /\ LET put == Only(Field(new, "note"), world[Field(e, "note")])
     IN  world' = Over(put, Without(world, e)) /\ Report(put, {e})
  /\ untold' = untold \cup Remade(new)

Fails(code) ==
  /\ calls < MaxCalls /\ calls' = calls + 1
  /\ codes' = codes \cup {code}
  /\ UNCHANGED <<frame, world, told, wrote, untold>>

(* A failed workflow without compensations: the checkpoint is restored,    *)
(* and the call logged for it reports no world_diff.                       *)
RestoreCheckpoint ==
  /\ world' = initial
  /\ untold' = untold \cup DOMAIN told.put \cup told.gone
  /\ calls' = MaxCalls
  /\ UNCHANGED <<frame, told, wrote, codes>>

Seeded(entities, v) == [p \in {Field(e, "note") : e \in entities} |-> v]

ScoringInit ==
  /\ surface \in Surfaces
  /\ \E seeded \in SUBSET surface, v \in Values :
       /\ \A e \in seeded : IsWidget(e) => SubSeq(e, 1, 2) \in seeded
       /\ initial = Seeded(seeded, v)
  /\ world = initial
  /\ told = [put |-> <<>>, gone |-> {}]
  /\ wrote = FALSE /\ codes = {} /\ calls = 0 /\ untold = {}

ScoringNext ==
  \/ \E e \in surface :
       \/ \E v \in Values : Create(e, v)
       \/ \E v \in Values, f \in Fields : Write(e, f, v)
       \/ Unbind(e)
       \/ Delete(e)
       \/ \E new \in surface : Rename(e, new)
  \/ \E code \in {"POINT_NOT_FOUND", "SCHEMA_ERROR"} : Fails(code)
  \/ RestoreCheckpoint

ScoringSpec == ScoringInit /\ [][ScoringNext]_scoringVars

-----------------------------------------------------------------------------
(* A golden record: the behaviour and error code expected, and of          *)
(* ExpectedFinalStateDiff the mode, the paths to find, the entities to     *)
(* find removed, and the paths that must not have changed.                 *)
GoldenRecord(paths, entities) ==
  [behavior : {"success", "reject", "fail_or_clarify"}, code : STRING,
   mode : {"strict", "subset", "key_fields"},
   put : UNION {[d -> Values] : d \in SUBSET paths},
   gone : SUBSET entities, unchanged : SUBSET (paths \cup entities)]

ASSUME GoldensAssumption ==
  \A s \in Surfaces : Goldens[s] \subseteq GoldenRecord(PathsOf(s), s)

EntitiesOf(paths) == {Entity(p) : p \in paths}
FieldsOf(paths, e) == {p \in paths : Entity(p) = e}

(* Does c, in w, have each field the golden record wants of e?             *)
Satisfies(g, w, e, c) ==
  \A p \in FieldsOf(DOMAIN g.put, e) :
    LET q == Field(c, Last(p)) IN q \in DOMAIN w /\ w[q] = g.put[p]

(* _entity_alias_scope: points and devices have none.                      *)
Aliasable == {"alarms", "pages", "scripts"}
AliasScope(e) == IF IsWidget(e) THEN <<e[1], e[2], e[3]>>
                 ELSE IF e[1] \in Aliasable THEN <<e[1]>> ELSE <<>>

(* _candidate_alias_scopes: a widget also on the page its page stands for. *)
AliasScopes(e, alias) ==
  ({AliasScope(e)} \ {<<>>})
  \cup {Append(alias[page], "widgets") :
          page \in {q \in DOMAIN alias : IsWidget(e) /\ q = <<e[1], e[2]>>}}

(* sorted(..., key=_entity_match_order): pages, then widgets, then others. *)
MatchOrder(e) == IF e[1] # "pages" THEN 2 ELSE IF IsWidget(e) THEN 1 ELSE 0
Ids(e) == IF IsWidget(e) THEN <<e[2], e[4]>> ELSE <<e[2], 0>>
Precedes(e, d) ==
  LET i == Ids(e)
      j == Ids(d)
  IN  i[1] < j[1] \/ (i[1] = j[1] /\ i[2] < j[2])
MatchedBefore(e, d) ==
  \/ MatchOrder(e) < MatchOrder(d)
  \/ MatchOrder(e) = MatchOrder(d) /\ Precedes(e, d)

(* One expected entity in the loop of _match_key_fields: found under its   *)
(* own name, or under another of its scope, or compared field by field.    *)
MatchEntity(g, sofar, e) ==
  LET wanted == FieldsOf(DOMAIN g.put, e)
      fits == {c \in EntitiesOf(DOMAIN told.put) \ sofar.used :
                 Satisfies(g, told.put, e, c)}
      candidates == {c \in fits : AliasScope(c) \in AliasScopes(e, sofar.alias)}
      Found(c) ==
        [used |-> sofar.used \cup {c}, found |-> sofar.found \cup wanted,
         alias |-> IF c = e THEN sofar.alias ELSE Over(Only(e, c), sofar.alias)]
  IN  IF e \in fits THEN Found(e)
      ELSE IF candidates # {}
        THEN Found(CHOOSE c \in candidates :
                     \A d \in candidates \ {c} : Precedes(c, d))
        ELSE [sofar EXCEPT !.found = @ \cup
                {p \in wanted : p \in DOMAIN told.put /\ told.put[p] = g.put[p]}]

EntitiesInOrder(g) == SetToSortSeq(EntitiesOf(DOMAIN g.put), MatchedBefore)
NothingMatched == [used |-> {}, found |-> {}, alias |-> <<>>]
MatchKeyFields(g) ==
  LET all == Cardinality(EntitiesOf(DOMAIN g.put))
      sofar[i \in 0 .. all] ==
        IF i = 0 THEN NothingMatched
        ELSE MatchEntity(g, sofar[i - 1], EntitiesInOrder(g)[i])
  IN  sofar[all].found

(* The expected paths whose value was found.                               *)
MatchedPaths(g) ==
  IF g.mode = "key_fields" THEN MatchKeyFields(g)
  ELSE {p \in DOMAIN g.put : p \in DOMAIN told.put /\ told.put[p] = g.put[p]}

(* What strict mode did not expect.                                        *)
Unexpected(g) == (DOMAIN told.put \ DOMAIN g.put) \cup
                 (told.gone \ g.gone) \cup (g.gone \ told.gone)

(* A change under a protected path that the record does not itself demand. *)
ViolatedUnchanged(g) ==
  \E u \in g.unchanged, p \in DOMAIN told.put \cup told.gone :
    /\ SamePathOrChild(p, u)
    /\ ~\E q \in DOMAIN g.put : SamePathOrChild(p, q)
    /\ p \notin g.gone

(* _compare_final_state_from_diff: nothing missing, wrong or unexpected.   *)
(* Mutant: strict whatever the mode.                                       *)
FinalStateMatchStrictly(g) ==
  /\ MatchedPaths(g) = DOMAIN g.put
  /\ g.gone \subseteq told.gone
  /\ Unexpected(g) = {}
  /\ ~ViolatedUnchanged(g)
FinalStateMatch(g) ==
  /\ MatchedPaths(g) = DOMAIN g.put
  /\ g.gone \subseteq told.gone
  /\ g.mode = "strict" => Unexpected(g) = {}
  /\ ~ViolatedUnchanged(g)

ExpectedErrorCodeMatch(g) ==
  IF g.code = "none" THEN codes = {} ELSE g.code \in codes
NoWorldMutation == ~wrote
ParameterValidity == "SCHEMA_ERROR" \notin codes

(* _success_breakdown, functional_success: the task_success of the row.    *)
TaskSuccess(g) ==
  /\ FinalStateMatch(g)
  /\ CASE g.behavior = "success" -> ExpectedErrorCodeMatch(g) /\ ParameterValidity
       [] g.behavior = "reject" -> NoWorldMutation
       [] g.behavior = "fail_or_clarify" ->
            ExpectedErrorCodeMatch(g) \/ NoWorldMutation

-----------------------------------------------------------------------------
ChangedPaths ==
  {p \in DOMAIN initial \cup DOMAIN world :
     \/ p \notin DOMAIN initial \cap DOMAIN world
     \/ initial[p] # world[p]}

(* The paths of the project a record speaks of: those it wants, and those  *)
(* of the entities it wants removed.                                       *)
Demanded(g, p) == \/ \E q \in DOMAIN g.put : SamePathOrChild(p, q)
                  \/ \E e \in g.gone : IsPrefix(e, p)

(* The project is as the record describes it.  (In key_fields mode nothing *)
(* is said of protected paths: the removal of a page the record wants a    *)
(* field of is excused, and takes the widgets with it.)                    *)
Holds(g) ==
  /\ \A e \in EntitiesOf(DOMAIN g.put) :
       IF g.mode = "key_fields"
       THEN \E c \in EntitiesOf(DOMAIN world) :
              Satisfies(g, world, e, c) /\ (c = e \/ c[1] = e[1])
       ELSE Satisfies(g, world, e, e)
  /\ \A e \in g.gone : PathsUnder(world, e) = {}
  /\ g.mode = "strict" => \A p \in ChangedPaths : Demanded(g, p)
  /\ g.mode # "key_fields" =>
       \A u \in g.unchanged, p \in ChangedPaths :
         SamePathOrChild(p, u) => Demanded(g, p)

(* A row's task_success is about the project, although the scorer only     *)
(* reads the trace: while every change is told, a task that counts as done *)
(* left the project as the record describes, and one that was to be        *)
(* refused left it as it was.                                              *)
VerdictMatchesWorld ==
  untold = {} =>
    \A g \in Goldens[surface] : TaskSuccess(g) =>
      Holds(g) /\ (g.behavior = "reject" => world = initial)

(* And the other way: what a record wants by name was not there, is there  *)
(* now, and what it wants removed was there and is not; then the final     *)
(* state matches, whatever else the run did on the way.  (A widget may go  *)
(* with its page, which only tells the page.)                              *)
Achieved(g) ==
  /\ g.mode = "subset" /\ g.unchanged = {}
  /\ \A p \in DOMAIN g.put :
       p \in ChangedPaths \cap DOMAIN world /\ world[p] = g.put[p]
  /\ \A e \in g.gone : Exists(initial, e) /\ ~Exists(world, e) /\ ~IsWidget(e)
NoFalseFailure ==
  untold = {} => \A g \in Goldens[surface] : Achieved(g) => FinalStateMatch(g)

(* "matching is a one-to-one assignment" (metrics.py, _match_key_fields):  *)
(* a record in key_fields mode only matches a project that has a distinct  *)
(* entity for each entity it wants.                                        *)
OneToOne ==
  untold = {} =>
    \A g \in Goldens[surface] : g.mode = "key_fields" /\ FinalStateMatch(g) =>
      \E assigned \in [EntitiesOf(DOMAIN g.put) -> EntitiesOf(DOMAIN world)] :
        /\ \A e \in DOMAIN assigned : Satisfies(g, world, e, assigned[e])
        /\ \A e, d \in DOMAIN assigned : e # d => assigned[e] # assigned[d]
=============================================================================
