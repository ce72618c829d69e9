------------------------------ MODULE MCPOPush ------------------------------
(* Two orders, one of which may never be pushed, and two processes.         *)
EXTENDS POPush
=============================================================================
