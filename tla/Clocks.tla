------------------------------- MODULE Clocks -------------------------------
(***************************************************************************)
(* The arithmetic of the clock drivers: the date of devices/rtc.c, the     *)
(* divisor of devices/pit.c, and the calibration and unit conversions of   *)
(* devices/timer.c.  Quantities that only enter products are scaled down   *)
(* to fit TLC's integers; every division truncates as the code's does.     *)
(***************************************************************************)
EXTENDS Integers, Sequences, FiniteSets, SequencesExt

CONSTANTS
  PIT_HZ,        \* 1193180
  PitLow,        \* the lowest frequency with a quotient below CountRange: 19
  CountRange,    \* 2^16
  TIMER_FREQ,    \* ticks per second: 100
  Thousand,      \* 1000
  UintBits,      \* bits of unsigned: 32
  FirstBit,      \* timer_calibrate starts from 1 << 10
  RefineBits     \* and refines the bits down to high_bit >> 10

----------------------------------------------------------------------------
(* devices/rtc.c *)

bcd_to_bin(x) == (x % 16) + (x \div 16) * 10
ToBcd(n) == (n \div 10) * 16 + (n % 10)       \* what the chip stores

days_per_month == <<31, 28, 31, 30, 31, 30, 31, 31, 30, 31, 30, 31>>
RECURSIVE SumDays(_)
SumDays(m) == IF m = 0 THEN 0 ELSE SumDays(m - 1) + days_per_month[m]

YearsSince1970(yy) == IF yy < 70 THEN yy + 30 ELSE yy - 70

\* The day computed from the BCD registers; hours, minutes and seconds are
\* added to it.
rtc_day(mday, mon, yy) ==
  LET year == YearsSince1970(bcd_to_bin(yy))
      m == bcd_to_bin(mon)
      leaps == IF year = 0 THEN 0 ELSE (year - 1) \div 4     \* -1 / 4 is 0 in C
  IN  year * 365 + leaps + SumDays(m)
        + (IF m > 2 /\ year % 4 = 0 THEN 1 ELSE 0) + bcd_to_bin(mday) - 1

\* The registers are read one after the other, the seconds again at the end;
\* CLOCK gives them at each moment, AT the moments of the seven reads.
rtc_read(clock, at) ==
  IF clock[at[7]].sec # clock[at[1]].sec THEN <<>>           \* read again
  ELSE <<[sec |-> clock[at[1]].sec, min |-> clock[at[2]].min, hour |-> clock[at[3]].hour,
          mday |-> clock[at[4]].mday, mon |-> clock[at[5]].mon, year |-> clock[at[6]].year]>>

----------------------------------------------------------------------------
(* devices/pit.c *)

PitCount(frequency) ==
  IF frequency < PitLow THEN 0
  ELSE IF frequency > PIT_HZ THEN 2
  ELSE (PIT_HZ + frequency \div 2) \div frequency

\* Two bytes written to the counter; the chip takes 0 as its whole range.
pit_configure_channel(frequency) ==
  LET count == PitCount(frequency) % CountRange
  IN  IF count = 0 THEN CountRange ELSE count

----------------------------------------------------------------------------
(* devices/timer.c.  TICKLOOPS is the number of loops in one timer tick. *)

Panic == -1
too_many_loops(tickLoops, loops) == loops > tickLoops

RECURSIVE Doubled(_, _)
Doubled(tickLoops, loops) ==
  LET next == (2 * loops) % 2 ^ UintBits
  IN  IF too_many_loops(tickLoops, next) THEN loops
      ELSE IF next = 0 THEN Panic ELSE Doubled(tickLoops, next)

\* Each lower bit is tried beside the high bit alone, and kept if it fits.
timer_calibrate(tickLoops) ==
  LET high_bit == Doubled(tickLoops, 2 ^ FirstBit)
      kept == {k \in 1..(RefineBits - 1) :
                 /\ high_bit \div 2 ^ k > 0
                 /\ ~ too_many_loops(tickLoops, high_bit + high_bit \div 2 ^ k)}
  IN  IF high_bit = Panic THEN Panic
      ELSE FoldLeft(LAMBDA sum, k : sum + (IF k \in kept THEN high_bit \div 2 ^ k ELSE 0),
                    high_bit, [k \in 1..(RefineBits - 1) |-> k])

\* C division truncates towards zero.
CDiv(a, b) == IF a >= 0 THEN a \div b ELSE -((-a) \div b)

busy_wait(loops) == IF loops > 0 THEN loops ELSE 0
real_time_delay(loops_per_tick, num, denom) ==
  busy_wait(CDiv(CDiv(loops_per_tick * num, Thousand) * TIMER_FREQ, denom \div Thousand))

\* What a sleep waits for: ticks, or loops.
real_time_sleep(loops_per_tick, num, denom) ==
  LET ticks == CDiv(num * TIMER_FREQ, denom)
  IN  IF ticks > 0 THEN [ticks |-> ticks, loops |-> 0]
      ELSE [ticks |-> 0, loops |-> real_time_delay(loops_per_tick, num, denom)]

----------------------------------------------------------------------------
(* What the functions promise *)

\* The calendar: years from 1970 to 2069, all leap if divisible by four.
IsLeap(y) == y % 4 = 0
DaysInMonth(y, m) == IF m = 2 /\ IsLeap(y) THEN 29 ELSE days_per_month[m]
EpochDay(y, m, d) ==
  (y - 1970) * 365 + Cardinality({k \in 1970..(y - 1) : IsLeap(k)})
    + SumDays(m - 1) + (IF m > 2 /\ IsLeap(y) THEN 1 ELSE 0) + d - 1

\* rtc_get_time counts the days between two dates of one month, and those
\* between a date and the same date four years later (from 1971 on, and if
\* both exist), as the calendar does.  Between dates in different months it
\* does not: the loop over the months includes the current one, and the leap
\* days are those of years since 1970 divisible by four.
DateRight(y) ==
  \A m \in 1..12 : \A d \in 1..DaysInMonth(y, m) :
    LET rtc(year, day) == rtc_day(ToBcd(day), ToBcd(m), ToBcd(year % 100))
    IN  /\ \A e \in 1..DaysInMonth(y, m) :
             rtc(y, e) - rtc(y, d) = EpochDay(y, m, e) - EpochDay(y, m, d)
        /\ y \in 1971..2065 =>
             rtc(y + 4, d) - rtc(y, d) = EpochDay(y + 4, m, d) - EpochDay(y, m, d)

\* A time is accepted only if the clock showed it at one moment, as long as a
\* read takes less than the seconds need to come round.
SnapshotRight(clock, at) ==
  LET r == rtc_read(clock, at)
  IN  r # <<>> => \E k \in at[1]..at[7] : r = <<clock[k]>>

\* The counter is legal in mode 2 and the nearest to the frequency asked for,
\* as long as that nearest count is legal; the slowest and the fastest rate
\* stand for the frequencies below and above the counter's range.
PitRight(frequency) ==
  LET count == pit_configure_channel(frequency)
      Off(c) == (c * frequency - PIT_HZ) ^ 2
  IN  /\ frequency < PitLow => count = CountRange
      /\ frequency > PIT_HZ => count = 2
      /\ frequency >= PitLow /\ 3 * frequency <= 2 * PIT_HZ =>
           count >= 2 /\ \A c \in 1..CountRange : Off(count) <= Off(c)

\* Calibration finds the high bit of the loops in a tick and ends less than
\* a factor of two from them; it gives up only if a tick is longer than the
\* counter's range.
CalibrationRight(tickLoops) ==
  LET r == timer_calibrate(tickLoops)
  IN  /\ r = Panic <=> tickLoops >= 2 ^ (UintBits - 1)
      /\ r # Panic /\ tickLoops >= 2 ^ FirstBit => r < 2 * tickLoops /\ 2 * r > tickLoops

\* A sleep never waits longer than asked, and less than one tick shorter; a
\* delay is shorter by less than the loops its divisions truncate.
SleepRight(loops_per_tick, num, denom) ==
  LET s == real_time_sleep(loops_per_tick, num, denom)
      exact == loops_per_tick * num * TIMER_FREQ      \* loops, times denom
      slack == TIMER_FREQ * Thousand + denom
  IN  /\ s.ticks > 0 => /\ s.ticks * denom <= num * TIMER_FREQ
                        /\ num * TIMER_FREQ < (s.ticks + 1) * denom
      /\ s.ticks = 0 /\ num >= 0 => /\ s.loops * denom <= exact
                                    /\ exact < s.loops * denom + slack
      /\ num <= 0 => s.ticks = 0 /\ s.loops = 0
=============================================================================
