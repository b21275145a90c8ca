------------------------------- MODULE Throttle -------------------------------
(***************************************************************************)
(* The schedule of RequestThrottle::acquire (linkedin/throttle.rs): under  *)
(* a mutex a caller reserves the next slot and moves the schedule on, then *)
(* sleeps until its slot.  A caller that is dropped while it sleeps has    *)
(* reserved its slot all the same.  (The permits are in VoyagerClient.)    *)
(***************************************************************************)
EXTENDS Integers, SequencesExt

\* A caller: the time it read before it took the mutex, and the jitter it drew.
\* Reservations come in the order of the mutex, which need not be that of time.

\* The slot of a caller that finds the schedule at `next`.
Slot(next, caller) == IF next > caller.now THEN next ELSE caller.now

\* Mutant: the schedule forgets that the caller may be later than it.
ReserveFromSchedule(next, caller, interval) == next + interval + caller.jitter

Reserve(next, caller, interval) == Slot(next, caller) + interval + caller.jitter

\* Where the schedule is after each of the callers; it begins in the past.
Schedule(callers, interval) ==
  LET next[n \in 0..Len(callers)] ==
        IF n = 0 THEN 0 ELSE Reserve(next[n - 1], callers[n], interval)
  IN  next

Slots(callers, interval) ==
  [n \in 1..Len(callers) |-> Slot(Schedule(callers, interval)[n - 1], callers[n])]

=============================================================================
