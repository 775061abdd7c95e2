---------------------------- MODULE MCScheduler ----------------------------
(* Small instances of Scheduler for TLC, and the properties they check.    *)
EXTENDS SchedulerProperties, TLC

EveryTwo == {[type |-> "every", value |-> 2]}
EveryOne == {[type |-> "every", value |-> 1]}
Mixed == {[type |-> "at", value |-> 1], [type |-> "every", value |-> 2],
          [type |-> "cron", value |-> 2]}

Symmetry == Permutations(Owners)
=============================================================================
