-------------------------- MODULE OccurrenceLedger --------------------------
(***************************************************************************)
(* What the dispatch ledger promises of one occurrence, whatever leases,   *)
(* polls, crashes and schedules do: its external effect is started at most *)
(* once, it is never represented as unsent once that effect may exist, an  *)
(* uncertain attempt is only ever settled and never tried again, and what  *)
(* has ended or was dropped stays so.                                      *)
(***************************************************************************)
EXTENDS Naturals

CONSTANT Occurrences

VARIABLES
    phase,      \* where each occurrence stands
    effects     \* external effects started for it

ledgerVars == <<phase, effects>>

LedgerInit ==
    /\ phase = [e \in Occurrences |-> "none"]
    /\ effects = [e \in Occurrences |-> 0]

\* What one occurrence may turn into, given whether its effect was started.  What has
\* ended or was dropped turns into nothing.
MayBecome(here, there, started) ==
    \/ here = "none" /\ there = "planned"
    \/ here = "planned" /\ there \in {"attempting", "dropped"}
    \/ here = "attempting" /\ there \in {"uncertain", "ended"}
    \/ here = "attempting" /\ ~started /\ there \in {"planned", "dropped"}
    \/ here \in {"attempting", "uncertain"} /\ started /\ there = "acknowledged"
    \/ here = "uncertain" /\ there = "ended"
    \/ here = "acknowledged" /\ there \in {"uncertain", "ended"}

\* One transaction may move any number of occurrences, each of them legally.
LedgerMove ==
    /\ phase' \in [Occurrences ->
                    {"none", "planned", "attempting", "uncertain", "acknowledged",
                     "ended", "dropped"}]
    /\ \A e \in Occurrences :
         phase'[e] # phase[e] => MayBecome(phase[e], phase'[e], effects[e] = 1)
    /\ UNCHANGED effects

\* The only place where an effect starts, and it starts for the first time.
LedgerEffect ==
    /\ \E e \in Occurrences :
         /\ phase[e] \in {"attempting", "uncertain"}
         /\ effects[e] = 0
         /\ effects' = [effects EXCEPT ![e] = 1]
    /\ UNCHANGED phase

LedgerNext == LedgerMove \/ LedgerEffect

LedgerSpec == LedgerInit /\ [][LedgerNext]_ledgerVars
=============================================================================
