------------------------------- MODULE Timer -------------------------------
(***************************************************************************)
(* The monotonic clock (timer.c) the network tables read.  A unit of `now` *)
(* stands for the smallest of the intervals a table compares it with, so   *)
(* several operations may happen at one reading.                           *)
(***************************************************************************)
EXTENDS Integers

CONSTANT MaxNow     \* bound on the readings explored

VARIABLE now        \* timer_now_ns()

timer_init == now = 1

TimePasses ==
    /\ now < MaxNow
    /\ now' = now + 1

=============================================================================
