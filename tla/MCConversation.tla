--------------------------- MODULE MCConversation ---------------------------
(* A thread with a conversation of three requests beside one that moves    *)
(* the sticky endpoint.                                                    *)
EXTENDS Conversation, TLC

CONSTANTS talker, mover

MCWorkers == {talker, mover}
MCMaxTurns == talker :> 3 @@ mover :> 1
=============================================================================
