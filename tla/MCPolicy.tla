------------------------------ MODULE MCPolicy ------------------------------
(* Small instances of PolicyService for TLC, and the properties they check. *)
EXTENDS PolicyProperties, TLC

Tight == [elapsed |-> 1, attempts |-> 1, retries |-> 0, retryWait |-> 1, unchangedWait |-> 1]
Wide  == [elapsed |-> 2, attempts |-> 3, retries |-> 1, retryWait |-> 1, unchangedWait |-> 1]

OneLimit == {Wide}
TwoLimits == {Tight, Wide}

Symmetry == Permutations(Intents)
=============================================================================
