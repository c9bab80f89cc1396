-------------------------- MODULE MCConversation --------------------------
(* Small instances of Conversation.                                        *)
EXTENDS Conversation

CONSTANTS m1, m2    \* what the operator types
=============================================================================
