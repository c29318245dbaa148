----------------------------- MODULE MCScheduler -----------------------------
(* Instances of the scheduler: two dumps, then a schedule of one.            *)
EXTENDS Scheduler

TwoThenOne == <<2, 1>>
OnlyOne == <<1>>

=============================================================================
