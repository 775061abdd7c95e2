------------------------------ MODULE Releases ------------------------------
(***************************************************************************)
(* The release pointer (releases.py, class ReleaseManager): which verified *)
(* candidate is current, which one came before it, and the compatibility   *)
(* checks that stand before every start and every switch.  Four integer    *)
(* capabilities of the code become one set of data formats per candidate:  *)
(* a capability that is high enough is membership.                         *)
(***************************************************************************)
EXTENDS Integers, FiniteSets

CONSTANTS
    Candidates,      \* immutable release candidates
    None,            \* no candidate, no process
    Formats,         \* data formats whose presence needs a capability
    Caps,            \* the formats each candidate can read
    MaxEpoch         \* bound: explicit activations

ASSUME ReleaseAssumption ==
    /\ None \notin Candidates
    /\ Caps \in [Candidates -> SUBSET Formats]
    /\ MaxEpoch \in Nat

VARIABLES
    pointer,         \* releases/current.json
    intact,          \* candidates whose environment still matches its report
    data,            \* formats present in the runtime's data
    installed,       \* state/supervisor.json exists
    bootCaps         \* formats the installed bootstrap environment can read

releaseVars == <<pointer, intact, data, installed, bootCaps>>

ReleaseTypeOK ==
    /\ pointer \in [current: Candidates, previous: Candidates \cup {None}, epoch: 0..MaxEpoch]
    /\ intact \in SUBSET Candidates
    /\ data \in SUBSET Formats
    /\ installed \in BOOLEAN
    /\ bootCaps \in SUBSET Formats

\* A stopped runtime with a candidate that was activated earlier, and no new format yet.
ReleaseInit ==
    /\ \E c \in Candidates : \E other \in (Candidates \ {c}) \cup {None} :
           pointer = [current |-> c, previous |-> other, epoch |-> 0]
    /\ intact = Candidates
    /\ data = {}
    /\ installed = FALSE
    /\ bootCaps = {}

Verified(c) == c \in intact

\* _check_data_schema: every format that is present is one the code can read.
DataFits(c) == data \subseteq Caps[c]

\* Mutant: the policy of the installed bootstrap is not looked at.
BootIgnored(c) == TRUE

\* _check_bootstrap_policy: code must not introduce what the copied supervisor cannot recover.
BootFits(c) == installed => Caps[c] \subseteq bootCaps

Runnable(c) == Verified(c) /\ DataFits(c) /\ BootFits(c)

\* checked_current
CurrentRuns == Runnable(pointer.current)

Point(current, previous, epoch) ==
    pointer' = [current |-> current, previous |-> previous, epoch |-> epoch]

\* Every explicit switch is a new activation epoch, a repeated one as well.
Activate(c) ==
    /\ pointer.epoch < MaxEpoch
    /\ Runnable(c)
    /\ Point(c, IF pointer.current = c THEN pointer.previous ELSE pointer.current,
             pointer.epoch + 1)

Rollback ==
    /\ pointer.epoch < MaxEpoch
    /\ pointer.previous # None
    /\ Runnable(pointer.previous)
    /\ Point(pointer.previous, pointer.current, pointer.epoch + 1)

\* Mutant: the candidates that failed before are forgotten.
CanFallBackAnywhere(expected, failed, epoch) ==
    /\ pointer.current = expected
    /\ pointer.epoch = epoch
    /\ pointer.previous \notin {None, expected}
    /\ Runnable(pointer.previous)

\* automatic_rollback(expected_current, failed_candidates, expected_epoch)
CanFallBack(expected, failed, epoch) ==
    /\ pointer.current = expected
    /\ pointer.epoch = epoch
    /\ pointer.previous \notin failed \cup {None, expected}
    /\ Runnable(pointer.previous)

AutomaticRollback(expected, failed, epoch) ==
    /\ CanFallBack(expected, failed, epoch)
    /\ Point(pointer.previous, expected, epoch)

\* The files of a candidate are changed or removed behind the program's back.
Damage(c) ==
    /\ c \in intact
    /\ intact' = intact \ {c}
    /\ UNCHANGED <<pointer, data, installed, bootCaps>>
=============================================================================
