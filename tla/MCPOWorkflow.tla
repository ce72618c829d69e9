---------------------------- MODULE MCPOWorkflow ----------------------------
(* Two requests at work at a time, in every pairing.                        *)
EXTENDS POWorkflow, TLC

Interchangeable == Permutations(Requests)
=============================================================================
