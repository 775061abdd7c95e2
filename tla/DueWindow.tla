----------------------------- MODULE DueWindow -----------------------------
(***************************************************************************)
(* The timing arithmetic of the scheduler (scheduler.py): when a schedule  *)
(* is next due, and which window of missed instants one poll turns into a  *)
(* single occurrence.                                                      *)
(*                                                                         *)
(* A schedule is [type, value].  "at" is one instant; "every" repeats each *)
(* value seconds, anchored on the job's own cursor; "cron" repeats on the  *)
(* calendar, modelled as the multiples of value, whatever the cursor is.   *)
(***************************************************************************)
EXTENDS Integers

NoDue == -1        \* Job.next_due is None

\* The largest instant of the grid anchor + k * period, k >= 0, at or before t.
LastOnGrid(anchor, period, t) == anchor + ((t - anchor) \div period) * period

\* Mutant of NextDue: the cursor stays on the instant just taken.
NextDueStays(sched, due, now, initial) ==
    CASE sched.type = "at" -> IF initial THEN sched.value ELSE NoDue
      [] sched.type = "every" -> IF initial THEN now + sched.value ELSE due
      [] OTHER -> LastOnGrid(0, sched.value, now)

(***************************************************************************)
(* next_due: the cursor of a job.  initial is TRUE when the job is created *)
(* or its schedule is set anew, and FALSE when an occurrence is taken off  *)
(* the cursor due.  The code's max(0, ..) is redundant: the branch is only *)
(* reached with now >= base.                                               *)
(***************************************************************************)
NextDue(sched, due, now, initial) ==
    CASE sched.type = "at" -> IF initial THEN sched.value ELSE NoDue
      [] sched.type = "every" ->
           IF initial \/ due = NoDue THEN now + sched.value
           ELSE IF now < due THEN due
           ELSE LastOnGrid(due, sched.value, now) + sched.value
      [] OTHER -> LastOnGrid(0, sched.value, now) + sched.value

(***************************************************************************)
(* due_window: first, last and following of a job whose cursor is due.     *)
(* Downtime coalesces into the one window first .. last.                   *)
(***************************************************************************)
WindowLast(sched, due, now) ==
    CASE sched.type = "at" -> due
      [] sched.type = "every" -> LastOnGrid(due, sched.value, now)
      [] OTHER ->
           LET prev == LastOnGrid(0, sched.value, now)
           IN  IF prev < due THEN due ELSE prev

\* Mutant of WindowFollowing: the cursor advances from its old value, not from now.
WindowFollowingCursor(sched, due, now) == NextDue(sched, due, due, FALSE)

WindowFollowing(sched, due, now) == NextDue(sched, due, now, FALSE)
=============================================================================
