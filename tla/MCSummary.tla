----------------------------- MODULE MCSummary -----------------------------
(* Two events of one window, of which one is recorded early. *)
EXTENDS SummaryProperties

CONSTANTS e1, e2, w1, m1

SameWindow == [e \in Events |-> w1]
=============================================================================
