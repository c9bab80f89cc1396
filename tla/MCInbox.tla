------------------------------- MODULE MCInbox -------------------------------
(* A small instance of Inbox.                                              *)
EXTENDS Inbox, TLC

CONSTANTS a, b, k   \* two callers and a key
MCPosts == {[priority |-> "now", key |-> k], [priority |-> "later", key |-> NoKey]}
=============================================================================
