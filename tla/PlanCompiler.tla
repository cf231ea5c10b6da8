---------------------------- MODULE PlanCompiler ----------------------------
(***************************************************************************)
(* The plan compiler of agent/planner.py: compile_plan filters a proposed  *)
(* plan step by step and _topological_repair reorders what is left.        *)
(*                                                                         *)
(* A proposed step is a record                                             *)
(*   named      how the reply names the tool: "atomic", "by_action" (the   *)
(*              domain tool with an action), "by_suffix" (domain.atomic),  *)
(*              "invented" (no known atomic) or "missing" (no name)        *)
(*   tool       the atomic it resolves to                                  *)
(*   args       a name for the argument set that validates                 *)
(*   fits       "valid", "repairable" (by the shape repairs), "short" (a   *)
(*              required field is absent) or "invalid"                     *)
(*   lacks      for a short step, the fields one of which would complete it*)
(*   about      the entity its identifying arguments name                  *)
(*   fields     the split-table fields its arguments carry                 *)
(*   intended, referenced   entity paths, as sequences of segments         *)
(***************************************************************************)
EXTENDS Routing, SequencesExt

CONSTANTS
  Proposals,   \* the plans the model may propose
  Worlds,      \* the sets of two-segment entity paths that may exist
  Starts,      \* the states the state machine may be in
  Levers,      \* records [repair, reorder, max_steps]
  Permitted    \* tools the run may use at all (allowed_atomics)

ASSUME ProposalsAssumption ==
  \A plan \in Proposals : plan \in Seq({plan[k] : k \in DOMAIN plan})
(* A plan is asked for before the run ends.                                *)
ASSUME StartsAssumption == Starts \subseteq STATES \ {"DONE"}
(* _planner_pool: what some state exposes; DONE has no tools.              *)
ASSUME PermittedAssumption ==
  /\ \A t \in Permitted : StatesExposing(t) # {}
  /\ AllowedTools("DONE") = {}
ASSUME LeversAssumption ==
  \A l \in Levers : l.repair \in BOOLEAN /\ l.reorder \in BOOLEAN /\ l.max_steps \in Nat

VARIABLES
  proposal, world, start, lever,   \* the arguments of compile_plan
  next,       \* the next raw step
  prepared,   \* steps kept so far: [step |-> index, state |-> its state]
  dropped,    \* reason -> indices of the raw steps dropped for it
  phase,      \* "filter", "reorder" or "compiled"
  order,      \* _topological_repair's out, as indices of prepared
  reordered   \* diag.reordered

vars == <<proposal, world, start, lever, next, prepared, dropped, phase,
          order, reordered>>
args == <<proposal, world, start, lever>>

-----------------------------------------------------------------------------
(* One raw step.                                                           *)

Resolved(raw) == raw.named \in {"atomic", "by_action", "by_suffix"}

SplitStepSuppliers ==
  [set_alarm_high_limit |-> [kind |-> "alarm", fields |-> {"high_limit"}],
   set_alarm_low_limit |-> [kind |-> "alarm", fields |-> {"low_limit"}],
   set_threshold |-> [kind |-> "alarm", fields |-> {"high_limit", "low_limit"}],
   move_widget |-> [kind |-> "widget", fields |-> {"position"}],
   resize_widget |-> [kind |-> "widget", fields |-> {"size"}]]

SplitStepCreators ==
  [t \in {"create_analog_alarm"} |-> "alarm"]
  @@ [t \in {"create_widget", "create_valve", "create_pump", "create_tank",
             "create_text", "create_motor"} |-> "widget"]

(* The fields later steps of the plan about the same entity would donate.  *)
(* Both tables are keyed by the name as the reply writes it.               *)
Donated(k) ==
  LET raw == proposal[k]
      Donates(j) ==
        /\ proposal[j].named = "atomic"
        /\ proposal[j].tool \in DOMAIN SplitStepSuppliers
        /\ SplitStepSuppliers[proposal[j].tool].kind = SplitStepCreators[raw.tool]
        /\ proposal[j].about = raw.about
  IN  IF /\ raw.named = "atomic" /\ raw.tool \in DOMAIN SplitStepCreators
         /\ raw.fits # "valid"
        THEN UNION {proposal[j].fields \cap SplitStepSuppliers[proposal[j].tool].fields :
                      j \in {i \in k + 1 .. Len(proposal) : Donates(i)}}
               \ raw.fields
        ELSE {}

Validates(k) ==
  LET raw == proposal[k]
  IN  \/ raw.fits = "valid"
      \/ raw.fits = "repairable" /\ lever.repair
      \/ raw.fits = "short" /\ lever.repair /\ Donated(k) \cap raw.lacks # {}

Signature(k) ==
  <<proposal[k].tool, proposal[k].args,
    IF lever.repair THEN Donated(k) ELSE {}>>

Cursor == IF prepared = <<>> THEN start ELSE prepared[Len(prepared)].state
Seen == {Signature(prepared[i].step) : i \in DOMAIN prepared}

(* The filters in the order compile_plan applies them.                     *)
Reasons == {"over_budget", "unknown_tool", "schema_invalid", "duplicate",
            "unreachable_state"}
Verdict(k) ==
  LET raw == proposal[k]
      known == Resolved(raw) /\ raw.tool \in Permitted
  IN  CASE Len(prepared) >= lever.max_steps -> "over_budget"
        [] Len(prepared) < lever.max_steps /\ ~known -> "unknown_tool"
        [] Len(prepared) < lever.max_steps /\ known /\ ~Validates(k) -> "schema_invalid"
        [] Len(prepared) < lever.max_steps /\ known /\ Validates(k) ->
             CASE Signature(k) \in Seen -> "duplicate"
               [] Signature(k) \notin Seen ->
                    IF PickState(raw.tool, Cursor) = "None"
                      THEN "unreachable_state" ELSE "kept"

-----------------------------------------------------------------------------
(* Dependencies among the prepared steps.                                  *)

Step(i) == proposal[prepared[i].step]
Prepared == DOMAIN prepared

(* Only collection.id can be found in the world; deeper paths never are.   *)
EntityExists(entity) == Len(entity) = 2 /\ entity \in world

Intenders(entity) == {i \in Prepared : entity \in Step(i).intended}
(* Mutant: the last step that names the entity counts.                     *)
LastProducer(entity) ==
  CHOOSE i \in Intenders(entity) : \A j \in Intenders(entity) : j <= i
Producer(entity) == CHOOSE i \in Intenders(entity) : \A j \in Intenders(entity) : i <= j

(* Step j waits for step i: i is the producer of something j references.   *)
WaitsFor(j, i) ==
  /\ i # j
  /\ \E entity \in Step(j).referenced :
       /\ Intenders(entity) # {}
       /\ Producer(entity) = i
       /\ ~EntityExists(entity)

Placed == ToSet(order)
Ready == {j \in Prepared \ Placed : \A i \in Prepared : WaitsFor(j, i) => i \in Placed}
Stays(i) == order # <<>> /\ prepared[i].state = prepared[order[Len(order)]].state

(* Mutant: the step of another state goes first.                           *)
GoesElsewhere(i, j) ==
  \/ Stays(j) /\ ~Stays(i)
  \/ (Stays(i) <=> Stays(j)) /\ i <= j
(* Stay in the current state if possible, else the proposed order.         *)
Goes(i, j) ==
  \/ Stays(i) /\ ~Stays(j)
  \/ (Stays(i) <=> Stays(j)) /\ i <= j

-----------------------------------------------------------------------------
Init ==
  /\ proposal \in Proposals /\ world \in Worlds
  /\ start \in Starts /\ lever \in Levers
  /\ next = 1 /\ prepared = <<>>
  /\ dropped = [r \in Reasons |-> {}]
  /\ phase = "filter" /\ order = <<>> /\ reordered = FALSE

Drop ==
  /\ phase = "filter" /\ next <= Len(proposal)
  /\ Verdict(next) # "kept"
  /\ dropped' = [dropped EXCEPT ![Verdict(next)] = @ \cup {next}]
  /\ next' = next + 1
  /\ UNCHANGED <<args, prepared, phase, order, reordered>>

Keep ==
  /\ phase = "filter" /\ next <= Len(proposal)
  /\ Verdict(next) = "kept"
  /\ prepared' = Append(prepared, [step |-> next,
                                   state |-> PickState(proposal[next].tool, Cursor)])
  /\ next' = next + 1
  /\ UNCHANGED <<args, dropped, phase, order, reordered>>

EndFilter ==
  /\ phase = "filter" /\ next > Len(proposal)
  /\ IF lever.reorder /\ Len(prepared) > 1
       THEN phase' = "reorder" /\ order' = <<>>
       ELSE phase' = "compiled" /\ order' = [i \in Prepared |-> i]
  /\ UNCHANGED <<args, next, prepared, dropped, reordered>>

Pick ==
  /\ phase = "reorder" /\ Ready # {}
  /\ \E i \in Ready : (\A j \in Ready : Goes(i, j)) /\ order' = Append(order, i)
  /\ UNCHANGED <<args, next, prepared, dropped, phase, reordered>>

(* Mutant: what is ready is the plan, without the fallback.                *)
EndReorderShort ==
  /\ phase = "reorder" /\ Ready = {}
  /\ order' = order /\ reordered' = (order # [i \in Prepared |-> i])
  /\ phase' = "compiled"
  /\ UNCHANGED <<args, next, prepared, dropped>>
(* A cycle leaves steps that are never ready: the proposed order stands.   *)
EndReorder ==
  /\ phase = "reorder" /\ Ready = {}
  /\ LET kept == [i \in Prepared |-> i]
     IN  order' = IF Len(order) = Len(prepared) THEN order ELSE kept
  /\ reordered' = (Len(order) = Len(prepared) /\ order # [i \in Prepared |-> i])
  /\ phase' = "compiled"
  /\ UNCHANGED <<args, next, prepared, dropped>>

Next == Drop \/ Keep \/ EndFilter \/ Pick \/ EndReorder

Spec == Init /\ [][Next]_vars

-----------------------------------------------------------------------------
(* Properties.                                                             *)

(* The types of the compiler's working state, and the budget on its plan.  *)
CompileTypeOK ==
  /\ next \in 1 .. Len(proposal) + 1
  /\ Len(prepared) <= lever.max_steps
  /\ \A i \in Prepared :
       prepared[i].step \in 1 .. Len(proposal)
       /\ prepared[i].state \in StatesExposing(Step(i).tool)
  /\ DOMAIN dropped = Reasons
  /\ phase \in {"filter", "reorder", "compiled"}
  /\ IsInjective(order) /\ ToSet(order) \subseteq Prepared

Compiled == phase = "compiled"
Place(i) == CHOOSE p \in DOMAIN order : order[p] = i

(* The compiled plan is the kept steps, each once: reordering loses and    *)
(* repeats none of them, whatever the dependencies are, a cycle included.  *)
EveryKeptStepCompiled ==
  Compiled => Len(order) = Len(prepared) /\ ToSet(order) = Prepared

(* The waits a plan's steps have on each other form no cycle.              *)
Acyclic ==
  ~\E loop \in SUBSET Prepared :
     loop # {} /\ \A j \in loop : \E i \in loop : WaitsFor(j, i)

(* What the repair is for: unless the steps wait for each other in a       *)
(* circle, no step of a reordered plan comes before the first step that    *)
(* names, as its result, something it needs and the world does not have.   *)
ProducersFirst ==
  Compiled /\ lever.reorder /\ Acyclic =>
    \A j \in Prepared : \A entity \in Step(j).referenced :
      (~EntityExists(entity) /\ Intenders(entity) # {}) =>
        \A i \in Intenders(entity) :
          (\A k \in Intenders(entity) : i <= k) => i = j \/ Place(i) < Place(j)

(* The states were picked along the proposed order, and the plan runs in   *)
(* the repaired one: it can still be walked by legal transitions, and no   *)
(* step is lost because the state machine could not reach a tool.          *)
PlanIsRoutable ==
  /\ dropped["unreachable_state"] = {}
  /\ Compiled =>
       \A p \in DOMAIN order :
         Routable(IF p = 1 THEN start ELSE prepared[order[p - 1]].state,
                  prepared[order[p]].state)

Moves(seq) == Cardinality({p \in 2 .. Len(seq) : prepared[seq[p]].state # prepared[seq[p - 1]].state})

(* Reordering a plan that was in a workable order never makes it walk      *)
(* through more states than the order that was proposed.                   *)
ReorderSavesMoves ==
  LET proposed == [i \in Prepared |-> i]
      workable == \A i, j \in Prepared : WaitsFor(j, i) => i < j
  IN  Compiled /\ workable => Moves(order) <= Moves(proposed)

(* As the docstring of _topological_repair puts it, every producer comes   *)
(* before its consumers: a step that makes an entity the world lacks (one  *)
(* that names it as a result and does not itself need it) comes before     *)
(* every step that needs it.                                               *)
CreatorsFirst ==
  Compiled /\ lever.reorder /\ Acyclic =>
    \A i, j \in Prepared :
      \A entity \in (Step(i).intended \ Step(i).referenced) \cap Step(j).referenced :
        ~EntityExists(entity) => Place(i) < Place(j)
=============================================================================
