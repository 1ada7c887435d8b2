------------------------------ MODULE Schedule ------------------------------
(***************************************************************************)
(* schedule.js: which delivery an order belongs to.  A pure algorithm: it  *)
(* walks forward, day by day, to the first cut-off after the order.        *)
(*                                                                         *)
(* An instant is a number of ticks since a Sunday's midnight in Karachi; a *)
(* tick stands for the least distance between two instants (and for the    *)
(* second that nextAfter adds).  A delivery date is the number of its day. *)
(***************************************************************************)
EXTENDS Naturals, FiniteSetsExt

DayTicks == 24
CutoffHour == 20
Sunday == 0
Wednesday == 3
CutoffDays == {Sunday, Wednesday}
Weekday(day) == day % 7
Cutoff(day) == day * DayTicks + CutoffHour

\* 8pm or later: missed it.
FaultyMissed(cutoff, t) == cutoff < t
Missed(cutoff, t) == cutoff <= t

CutoffsAhead(t) ==
  {day \in (t \div DayTicks)..(t \div DayTicks + 7) :
      Weekday(day) \in CutoffDays /\ ~Missed(Cutoff(day), t)}

DeliveryFor(t) ==
  LET day == Min(CutoffsAhead(t))
      gapDays == IF Weekday(day) = Sunday THEN 4 ELSE 3
  IN [date    |-> day + 1,
      label   |-> IF Weekday(day) = Sunday THEN "Monday" ELSE "Thursday",
      locksAt |-> Cutoff(day),
      opensAt |-> Cutoff(day) - gapDays * DayTicks]

NextAfter(slot) == DeliveryFor(slot.locksAt + 1)

------------------------------------------------------------------------------
(* The booking calendar as its owner wrote it down, day by day.            *)

BookedFor(t) ==
  LET hour == t % DayTicks
  IN CASE Weekday(t \div DayTicks) = 0 -> IF hour < 20 THEN "Monday" ELSE "Thursday"
       [] Weekday(t \div DayTicks) \in {1, 2} -> "Thursday"
       [] Weekday(t \div DayTicks) = 3 -> IF hour < 20 THEN "Thursday" ELSE "Monday"
       [] OTHER -> "Monday"

\* At every instant of two weeks (the first week left out, so that the
\* cut-off before it is a number), the algorithm books what the calendar says,
\* the booking window is open, and the windows follow each other without a gap
\* or an overlap: an order rolled by nextAfter is booked for the very next
\* delivery (schedule.js:51-91 against the table at schedule.js:7-13).
FollowsCalendar ==
  \A t \in (7 * DayTicks)..(21 * DayTicks) :
    LET slot == DeliveryFor(t)
        next == NextAfter(slot)
    IN /\ slot.label = BookedFor(t)
       /\ slot.opensAt <= t /\ t < slot.locksAt
       /\ Weekday(slot.date) = IF slot.label = "Monday" THEN 1 ELSE 4
       /\ next.opensAt = slot.locksAt
       /\ next.label # slot.label
=============================================================================
