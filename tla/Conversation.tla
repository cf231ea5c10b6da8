---------------------------- MODULE Conversation ----------------------------
(* agent/llm.py: OpenAICompatibleLLM threads the results of a run's tool   *)
(* calls into the message list the provider sees, one list per worker      *)
(* thread, and _FailoverClients sends the request to one of several        *)
(* endpoints, the last one that worked being shared by all threads.        *)
EXTENDS Selecting, SequencesExt, Functions

CONSTANTS Workers,    \* threads, each with its agent and its adapter
          N,          \* endpoints, 0..N-1
          MaxTurns,   \* max_turns; bound: as many model calls of each thread
          MaxBatch,   \* bound: calls in one response
          MaxRuns     \* bound: runs of one agent (the runner's reruns)

ASSUME ConversationAssumption ==
  /\ N \in Nat \ {0} /\ MaxTurns \in [Workers -> Nat \ {0}]
  /\ MaxBatch \in Nat \ {0} /\ MaxRuns \in Nat

VARIABLES
  phase,     \* "ready", "dial" (choosing an endpoint), "sent" or "over"
  adapter,   \* _messages, _pending_tool_ids, _first_call
  history,   \* the rows the orchestrator keeps
  turn,      \* model calls of the run
  runs,
  walk,      \* the loop of create: attempts made, endpoints, and whether
             \* another thread moved the sticky index meanwhile
  sticky     \* _FailoverClients.sticky

vars == <<phase, adapter, history, turn, runs, walk, sticky>>

(* Rows and messages. The ids of calls and nudges are fresh in a run; what *)
(* a message says is left out.                                             *)
System == [role |-> "system"]
User(note) == [role |-> "user", note |-> note]
Assistant(calls) == [role |-> "assistant", calls |-> calls]
Result(id) == [role |-> "tool", id |-> id]
Query == User(<<0, "query">>)

FreshAdapter == [messages |-> <<>>, pending |-> <<>>, first |-> TRUE]
NoWalk == [i |-> 0, at |-> 0, tried |-> {}, moved |-> FALSE]

-----------------------------------------------------------------------------
(* call, before the request: the rows behind the last assistant row, the   *)
(* results that are still pending first, then every user row.              *)
(* Mutant: only the tool rows at the very end.                             *)
TrailingTools(rows) ==
  LET last == SelectLastInSeq(rows, LAMBDA r : r.role # "tool")
  IN  SubSeq(rows, last + 1, Len(rows))
Trailing(rows) ==
  LET last == SelectLastInSeq(rows, LAMBDA r : r.role = "assistant")
  IN  SubSeq(rows, last + 1, Len(rows))
(* A result is threaded if its call is pending, by id.                     *)
Pending(a) == {Result(id) : id \in Range(a.pending)}
Users(rows) == {r \in Range(rows) : r.role = "user"}
(* Mutant: in the order the orchestrator appended them.                    *)
ThreadedInOrder(a, rows) ==
  LET new == Trailing(rows) IN Kept(new, Pending(a) \cup Users(new))
Threaded(a, rows) ==
  LET new == Trailing(rows) IN Kept(new, Pending(a)) \o Kept(new, Users(new))

Request(a, rows) ==
  IF a.first THEN [a EXCEPT !.messages = <<System, Query>>, !.first = FALSE]
  ELSE [a EXCEPT !.messages = @ \o Threaded(a, rows), !.pending = <<>>]

(* call, after the response.                                               *)
Received(a, calls) ==
  [a EXCEPT !.messages = Append(@, Assistant(calls)), !.pending = @ \o calls]

-----------------------------------------------------------------------------
(* What a turn of the orchestrator leaves in its history: a result per     *)
(* call, with the breaker's nudge after the call that tripped it, and the  *)
(* nudge of an engine that moved to another state.                         *)
Ids(n, t) == [k \in 1..n |-> <<t, k>>]
Results(calls) == [k \in DOMAIN calls |-> Result(calls[k])]
Tripped(calls, k, t) ==
  SubSeq(Results(calls), 1, k) \o <<User(<<t, "breaker">>)>>
    \o SubSeq(Results(calls), k + 1, Len(calls))
BatchRows(calls, t) ==
  LET rows == {Results(calls)} \cup {Tripped(calls, k, t) : k \in DOMAIN calls}
  IN  rows \cup {r \o <<User(<<t, "state">>)>> : r \in rows}
TalkRows(t) ==
  {<<Assistant(<<>>)>>, <<Assistant(<<>>), User(<<t, "state">>)>>}

-----------------------------------------------------------------------------
Init ==
  /\ phase = [w \in Workers |-> "over"]
  /\ adapter = [w \in Workers |-> FreshAdapter]
  /\ history = [w \in Workers |-> <<>>]
  /\ turn = [w \in Workers |-> 0] /\ runs = [w \in Workers |-> 0]
  /\ walk = [w \in Workers |-> NoWalk]
  /\ sticky = 0

(* Agent.run or a Specialist's turn: reset, and an empty history.          *)
StartRun(w) ==
  /\ phase[w] = "over" /\ runs[w] < MaxRuns
  /\ runs' = [runs EXCEPT ![w] = @ + 1]
  /\ phase' = [phase EXCEPT ![w] = "ready"]
  /\ adapter' = [adapter EXCEPT ![w] = FreshAdapter]
  /\ history' = [history EXCEPT ![w] = <<>>]
  /\ turn' = [turn EXCEPT ![w] = 0]
  /\ UNCHANGED <<walk, sticky>>

Send(w) ==
  /\ phase[w] = "ready"
  /\ turn' = [turn EXCEPT ![w] = @ + 1]
  /\ adapter' = [adapter EXCEPT ![w] = Request(@, history[w])]
  /\ walk' = [walk EXCEPT ![w] = NoWalk]
  /\ phase' = [phase EXCEPT ![w] = "dial"]
  /\ UNCHANGED <<history, runs, sticky>>

(* One round of create's loop begins by reading the shared index.          *)
Rotated(i) == (sticky + i) % N
Dial(w) ==
  /\ phase[w] = "dial"
  /\ walk' = [walk EXCEPT ![w].at = Rotated(walk[w].i)]
  /\ phase' = [phase EXCEPT ![w] = "sent"]
  /\ UNCHANGED <<adapter, history, turn, runs, sticky>>

(* The endpoint answers: it becomes the sticky one, for every thread, and  *)
(* the orchestrator's turn follows, or the run is over and its rows are    *)
(* dropped.                                                                *)
Answered(w) ==
  /\ phase[w] = "sent"
  /\ sticky' = walk[w].at
  /\ walk' = [v \in Workers |->
       IF v = w THEN NoWalk
       ELSE [walk[v] EXCEPT !.moved = phase[v] \in {"dial", "sent"}
                                      /\ (@ \/ sticky' # sticky)]]
  /\ \E n \in 0..MaxBatch :
       LET calls == Ids(n, turn[w])
       IN  /\ adapter' = [adapter EXCEPT ![w] = Received(@, calls)]
           /\ \/ /\ turn[w] < MaxTurns[w] /\ phase' = [phase EXCEPT ![w] = "ready"]
                 /\ \E rows \in IF n = 0 THEN TalkRows(turn[w]) ELSE BatchRows(calls, turn[w]) :
                      history' = [history EXCEPT ![w] = @ \o rows]
              \/ /\ phase' = [phase EXCEPT ![w] = "over"]
                 /\ history' = [history EXCEPT ![w] = <<>>]
  /\ UNCHANGED <<turn, runs>>

(* A billing or availability error: on to the next endpoint, or raise.     *)
(* Mutant: the last rotation is missed.                                    *)
MayRotateButOnce(i) == i + 2 < N
MayRotate(i) == i < N - 1
Tried(w) == walk[w].tried \cup {walk[w].at}
Refuses(w) ==
  /\ phase[w] = "sent"
  /\ IF MayRotate(walk[w].i)
     THEN /\ walk' = [walk EXCEPT ![w].i = @ + 1, ![w].tried = Tried(w)]
          /\ phase' = [phase EXCEPT ![w] = "dial"]
     ELSE /\ walk' = [walk EXCEPT ![w] = NoWalk]
          /\ phase' = [phase EXCEPT ![w] = "over"]
  /\ UNCHANGED <<adapter, history, turn, runs, sticky>>

(* Any other error is the request's fault and leaves the run.              *)
Raises(w) ==
  /\ phase[w] = "sent"
  /\ walk' = [walk EXCEPT ![w] = NoWalk]
  /\ phase' = [phase EXCEPT ![w] = "over"]
  /\ UNCHANGED <<adapter, history, turn, runs, sticky>>

Step(w) ==
  StartRun(w) \/ Send(w) \/ Dial(w) \/ Answered(w) \/ Refuses(w) \/ Raises(w)
Next == \E w \in Workers : Step(w)
Spec == Init /\ [][Next]_vars

-----------------------------------------------------------------------------
Requests == {adapter[w].messages : w \in {v \in Workers : phase[v] \in {"dial", "sent"}}}

(* Strict providers reject a request in which the results of an assistant  *)
(* message do not follow it at once, each once, or in which a result has   *)
(* no call: no such request is ever sent.                                  *)
RequestsAreThreaded ==
  \A m \in Requests : \A k \in DOMAIN m :
    /\ m[k].role = "assistant" =>
         LET n == Len(m[k].calls)
         IN  /\ k + n <= Len(m)
             /\ \A j \in 1..n : m[k + j].role = "tool"
             /\ {m[k + j].id : j \in 1..n} = Range(m[k].calls)
    /\ m[k].role = "tool" =>
         \E j \in 1..(k - 1) : /\ m[j].role = "assistant"
                               /\ m[k].id \in Range(m[j].calls)
                               /\ k <= j + Len(m[j].calls)

(* Every result and every nudge of the orchestrator is in the request that *)
(* follows it.                                                             *)
NothingIsLost ==
  \A w \in Workers : phase[w] \in {"dial", "sent"} =>
    \A r \in Range(history[w]) :
      r.role \in {"tool", "user"} => r \in Range(adapter[w].messages)

(* The attempt whose failure would be raised follows attempts at all other *)
(* endpoints, unless another thread moved the sticky index under the walk. *)
GivesUpAfterAll ==
  \A w \in Workers : phase[w] = "sent" /\ ~MayRotate(walk[w].i) =>
    Tried(w) = 0..(N - 1) \/ walk[w].moved

(* create "rotates to the next endpoint" until it has asked each of them,  *)
(* whatever other threads do.                                              *)
EveryEndpointTried ==
  \A w \in Workers : phase[w] = "sent" /\ ~MayRotate(walk[w].i) =>
    Tried(w) = 0..(N - 1)
=============================================================================
