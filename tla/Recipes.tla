------------------------------ MODULE Recipes ------------------------------
(* Constructors for the steps of small workflow recipes.                   *)

Plain == [kind |-> "llm", state |-> "ANALYZE_INTENT", tools |-> {}, must |-> TRUE,
          deps |-> {}, onFailure |-> 0, comp |-> FALSE, writes |-> FALSE,
          ifTrue |-> 0, ifFalse |-> 0, body |-> 0, maxIter |-> 0, sub |-> ""]
Model(tools) == [Plain EXCEPT !.tools = tools]
Optional(tools) == [Model(tools) EXCEPT !.must = FALSE]
Handler == [Plain EXCEPT !.kind = "deterministic"]
Fixed == [Plain EXCEPT !.kind = "tool_call", !.writes = TRUE]
If(yes, no) == [Plain EXCEPT !.kind = "conditional", !.ifTrue = yes, !.ifFalse = no]
While(body, max) == [Plain EXCEPT !.kind = "loop", !.body = body, !.maxIter = max]
Nest(wf) == [Plain EXCEPT !.kind = "sub_workflow", !.sub = wf]
Undoable(step) == [step EXCEPT !.comp = TRUE]
After(step, deps) == [step EXCEPT !.deps = deps]
Else(step, target) == [step EXCEPT !.onFailure = target]
In(state, step) == [step EXCEPT !.state = state]
=============================================================================
