-------------------------- MODULE MCWorkflowEngine --------------------------
(* Small recipes for WorkflowEngine, one per construct and way of going    *)
(* wrong; the shipped ones under workflows/ have the shape of MCShipped.   *)
EXTENDS WorkflowEngine, Recipes

MCFsmStates == {"ANALYZE_INTENT"}
MCTools == {"read", "write"}

MCShipped ==
  <<Optional({"read"}), After(Model({"write"}), {1}),
    Else(After(Handler, {2}), 2)>>

(* A loop over a step of the model and one over a fixed call, the second   *)
(* with a recovery step that skips a prerequisite.                         *)
MCLooping ==
  <<While(2, 2), Undoable(Model({"write"})),
    While(4, 2), Else(Undoable(Fixed), 6), Handler, After(Handler, {5})>>

(* The last step is optional, so that a fast-forward can run out of steps. *)
MCConfirming == <<Undoable(Model({"write"})), Optional({"read"})>>

(* A conditional that may cycle forever.                                   *)
MCCyclic == <<Undoable(Fixed), If(1, 0), Nest("Child"), Undoable(Fixed)>>
MCPartial == <<Undoable(Fixed), Fixed, Handler>>
MCNested == <<Undoable(Fixed), Nest("Nested"), Nest("Unknown")>>
MCWholeChild == <<Undoable(Fixed), While(3, 2), Undoable(Fixed)>>

MCCatalogue ==
  [Shipped |-> MCShipped, Looping |-> MCLooping, Confirming |-> MCConfirming,
   Cyclic |-> MCCyclic, Child |-> MCWholeChild, Nested |-> MCNested]
MCConversed == {"Shipped", "Looping", "Confirming"}
MCPartialCatalogue == [Partial |-> MCPartial]
MCShippedCatalogue == [Shipped |-> MCShipped]
=============================================================================
