------------------------------ MODULE LocalDates ------------------------------
(***************************************************************************)
(* Calendar dates without time or zone, as the rulesets use them.  The     *)
(* code keeps the instant of midnight UTC and takes year, month and day    *)
(* back from it; here a date is the record of the three.                   *)
(***************************************************************************)
EXTENDS Integers

Date(year, month, day) == [year |-> year, month |-> month, day |-> day]

LeapYear(year) == year % 4 = 0 /\ (year % 100 # 0 \/ year % 400 = 0)

DaysIn(year, month) ==
    CASE month = 2                -> IF LeapYear(year) THEN 29 ELSE 28
      [] month \in {4, 6, 9, 11}  -> 30
      [] OTHER                    -> 31

\* What LocalDate.of accepts: the date Date.UTC makes of the three numbers has
\* to be these three.  Date.UTC puts the years 0 to 99 into the twentieth
\* century, so they are refused; years before Christ are left out.
LocalDate ==
    {d \in [year : Nat, month : 1..12, day : 1..31] :
        d.year >= 100 /\ d.day <= DaysIn(d.year, d.month)}

\* isOnOrBefore
OnOrBefore(this, other) ==
    \/ this.year < other.year
    \/ this.year = other.year /\ this.month < other.month
    \/ this.year = other.year /\ this.month = other.month /\ this.day <= other.day

\* Broken: the month counts as soon as the calendar shows it.
CalendarMonthsSince(this, from) ==
    (this.year - from.year) * 12 + (this.month - from.month)

\* completedMonthsSince, of a date that is not before from: it throws there.
CompletedMonthsSince(this, from) ==
    LET months == (this.year - from.year) * 12 + (this.month - from.month)
    IN IF this.day < from.day THEN months - 1 ELSE months

\* A number that orders dates as the instants do.
Ordinal(d) == d.year * 372 + (d.month - 1) * 31 + (d.day - 1)

\* The calendar.
Tomorrow(d) ==
    IF d.day < DaysIn(d.year, d.month) THEN Date(d.year, d.month, d.day + 1)
    ELSE IF d.month < 12 THEN Date(d.year, d.month + 1, 1)
    ELSE Date(d.year + 1, 1, 1)
=============================================================================
