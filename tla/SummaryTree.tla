---------------------------- MODULE SummaryTree ----------------------------
(***************************************************************************)
(* The tree of work units that summary_partitions.prepare lays over the    *)
(* fragments of a frozen window.  A node is <<tier, index>>; the leaves    *)
(* are tier 0, and the fragments they summarize tier -1.                   *)
(***************************************************************************)
EXTENDS Integers, FiniteSets

CONSTANTS
    LeafSize,    \* fragments of one leaf (NODE_SOURCE_COUNT)
    FanIn        \* children of one inner node (FAN_IN)

ASSUME TreeAssumption == LeafSize \in Nat \ {0} /\ FanIn \in Nat \ {0, 1}

CeilDiv(a, b) == (a + b - 1) \div b

Width(n, t) ==
    IF t = -1 THEN n ELSE CeilDiv(CeilDiv(n, LeafSize), FanIn ^ t)

Top(n) == CHOOSE t \in 0..n : Width(n, t) = 1 /\ \A s \in 0..(t - 1) : Width(n, s) > 1

Tier(n, t) == {<<t, i>> : i \in 0..(Width(n, t) - 1)}
Fragments(n) == Tier(n, -1)
Nodes(n) == UNION {Tier(n, t) : t \in 0..Top(n)}
Root(n) == <<Top(n), 0>>

Arity(t) == IF t = 0 THEN LeafSize ELSE FanIn
Child(node, k) == <<node[1] - 1, node[2] * Arity(node[1]) + k>>
Below(n, node) == {c \in Tier(n, node[1] - 1) : c[2] \div Arity(node[1]) = node[2]}

-----------------------------------------------------------------------------
(* One candidate per node declares which of its sources are missing. *)

AncestorAt(f, t) ==      \* _inherited_missing: from a fragment up
    LET up[s \in -1..t] == IF s = -1 THEN f ELSE <<s, up[s - 1][2] \div Arity(s)>>
    IN  up[t]

\* _coverage with _inherited_missing: a fragment is missing where its leaf, or any
\* unit above it, declares it or the branch that holds it missing
MissingFragments(n, declared) ==
    {f \in Fragments(n) :
        \E t \in 0..Top(n) : AncestorAt(f, t - 1) \in declared[AncestorAt(f, t)]}

FragmentsBelow(n, node) == {f \in Fragments(n) : AncestorAt(f, node[1]) = node}
=============================================================================
