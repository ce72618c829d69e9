----------------------------- MODULE OrderLife -----------------------------
(***************************************************************************)
(* What the life of a purchase order promises, whoever moves it and        *)
(* however requests overlap: no stage is entered before the stages it      *)
(* rests on.  Artwork is reviewed before it is approved or rejected, a PI  *)
(* is taken in only once artwork was approved, goods are made and shipped  *)
(* only once a PI was approved, and only a shipped order is received.      *)
(*                                                                         *)
(* Nothing is said about the order in which stages are revisited: an order *)
(* may fall back, be cancelled, and be overwritten by a request that       *)
(* judged an older status.                                                 *)
(***************************************************************************)

VARIABLES
    status,  \* the stage the order is in
    passed   \* the gates it has passed: stages that later ones rest on

Statuses == {"draft", "design_review", "design_rejected", "design_approved",
             "pi_received", "pi_approved", "production", "shipped",
             "received", "cancelled"}

\* The stages an order must have been in to enter stage t.
Gate(t) ==
    CASE t \in {"design_rejected", "design_approved"} -> {"design_review"}
      [] t = "pi_received"                            -> {"design_approved"}
      [] t = "pi_approved"                            -> {"pi_received"}
      [] t \in {"production", "shipped"}              -> {"pi_approved"}
      [] t = "received"                               -> {"shipped"}
      [] OTHER                                        -> {}

Gates == UNION {Gate(t) : t \in Statuses}

\* An order that comes from Zoho passed its gates outside PackTrack.
Init ==
    \/ status = "draft"         /\ passed = {}
    \/ status = "design_review" /\ passed = {"design_review"}
    \/ status = "shipped"       /\ passed = Gates

Enter(t) ==
    /\ Gate(t) \subseteq passed
    /\ status' = t
    /\ passed' = passed \cup ({t} \cap Gates)

Next == \E t \in Statuses : Enter(t)

Spec == Init /\ [][Next]_<<status, passed>>

\* The gates of every stage reached were passed, and the gates of those:
\* goods on their way rest on an approved PI, and that on approved artwork.
GatesPassed == \A t \in passed \cup {status} : Gate(t) \subseteq passed
=============================================================================
