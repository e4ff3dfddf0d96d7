-------------------------------- MODULE DayStats --------------------------------
(***************************************************************************)
(* A day of an energy counter as the statistics see it                     *)
(* (backend/app/stats.py): the hourly rollups keep the last value of the   *)
(* counter in every hour that has a reading, and the differences between   *)
(* them are priced.  The counter belongs to the inverter: it goes back to  *)
(* zero at the inverter's midnight, which need not be that of the          *)
(* statistics, and may be read slightly too low.                           *)
(***************************************************************************)
EXTENDS Tariff

CONSTANTS
  Hours,       \* hours of the day
  Tariffs,     \* tariffs as they are configured, with seasons
  Months,
  Starts,      \* values the counter may have at the start of the day
  MaxUse,      \* bound: energy used in an hour
  MaxOdd,      \* bound: resets, and readings that are too low
  NoReading

\* What the constants must satisfy; instances assume it.
DayAssumption ==
  /\ Hours \in Nat \ {0} /\ Starts \subseteq Nat /\ MaxUse \in Nat /\ MaxOdd \in Nat
  /\ NoReading \notin Nat
  /\ Months \subseteq 1 .. 12
  /\ \A t \in Tariffs : \A i \in DOMAIN t.seasons : {t.seasons[i].start, t.seasons[i].end} \subseteq 1 .. 12

VARIABLES
  tariff, month,
  hour,       \* hour since the start of the day
  start,      \* value of the counter at the start of the day
  counter,    \* the inverter's counter
  last,       \* of an hour: last of its rollup
  used,       \* truth: of an hour, energy used in it
  after,      \* truth: energy used since the first reading
  resets, dips

vars == <<tariff, month, hour, start, counter, last, used, after, resets, dips>>

Day  == 0 .. Hours - 1
Span == 0 .. Hours      \* the buckets that a query returns

Init ==
  /\ tariff \in Tariffs /\ month \in Months
  /\ hour = 0 /\ start \in Starts /\ counter = start
  /\ last = [h \in Span |-> NoReading] /\ used = [h \in Span |-> 0] /\ after = 0
  /\ resets = 0 /\ dips = 0

Read == \E h \in Span : last[h] # NoReading

Use ==
  /\ used[hour] < MaxUse
  /\ used' = [used EXCEPT ![hour] = @ + 1]
  /\ counter' = counter + 1
  /\ after' = IF Read THEN after + 1 ELSE after
  /\ UNCHANGED <<tariff, month, hour, start, last, resets, dips>>

Sample ==
  /\ last' = [last EXCEPT ![hour] = counter]
  /\ UNCHANGED <<tariff, month, hour, start, counter, used, after, resets, dips>>

\* A reading that is too low by one, which is less than half of it.
SampleLow ==
  /\ counter > 1 /\ dips < MaxOdd
  /\ dips' = dips + 1
  /\ last' = [last EXCEPT ![hour] = counter - 1]
  /\ UNCHANGED <<tariff, month, hour, start, counter, used, after, resets>>

NextHour ==
  /\ hour < Hours /\ hour' = hour + 1
  /\ UNCHANGED <<tariff, month, start, counter, last, used, after, resets, dips>>

\* Midnight of the inverter, or its restart.
Reset ==
  /\ resets < MaxOdd /\ resets' = resets + 1
  /\ counter' = 0
  /\ UNCHANGED <<tariff, month, hour, start, last, used, after, dips>>

Next == Use \/ Sample \/ SampleLow \/ NextHour \/ Reset

Spec == Init /\ [][Next]_vars

\* The hours that have a bucket in these rollups, in order; upTo[h] are those before h.
Buckets(rollups) ==
  LET upTo[h \in 0 .. Hours + 1] ==
        IF h = 0 THEN <<>>
        ELSE IF rollups[h - 1] = NoReading THEN upTo[h - 1] ELSE Append(upTo[h - 1], h - 1)
  IN  upTo[Hours + 1]

ReadHours == Buckets(last)

\* Mutant: a difference is priced in the hour before it.
PointsEarly ==
  LET read == ReadHours
  IN  [i \in DOMAIN read |-> [half |-> 2 * read[IF i = 1 THEN 1 ELSE i - 1], wh |-> last[read[i]]]]

\* The points _priced takes from the hourly rollups; the hour at which the next day begins is 0.
Points ==
  LET read == ReadHours
  IN  [i \in DOMAIN read |-> [half |-> 2 * (read[i] % Hours), wh |-> last[read[i]]]]

\* _priced, with the schedule of the month in which the day begins
Priced == CostOfDeltas(HourlyDeltas(Points), SchedulesFor(tariff, month).import)

\* The last value that was read in the hours; the daily rollup's.
LastIn(hours) ==
  LET read == {h \in hours : last[h] # NoReading}
  IN  IF read = {} THEN NoReading ELSE last[Max(read)]

\* _daily_total: the last of the daily buckets that the query returns, of which there are two
\* once the next day has a reading.
DailyTotal == IF LastIn({Hours}) # NoReading THEN LastIn({Hours}) ELSE LastIn(Day)

--------------------------------------------------------------------------------
TypeOK ==
  /\ tariff \in Tariffs /\ month \in Months /\ hour \in Span /\ start \in Starts /\ counter \in Nat
  /\ last \in [Span -> Nat \union {NoReading}] /\ used \in [Span -> 0 .. MaxUse]
  /\ after \in Nat /\ resets \in 0 .. MaxOdd /\ dips \in 0 .. MaxOdd

UsedUntil(h) == Total([i \in 1 .. h + 1 |-> used[i - 1]])

\* The rate of the first season that the month is one of, counting on from its first month.
MonthsOf(s) == {((s.start + i - 1) % 12) + 1 : i \in 0 .. ((s.end - s.start) % 12)}
RateInForce(half) ==
  LET now == {i \in DOMAIN tariff.seasons : month \in MonthsOf(tariff.seasons[i])}
  IN  RateAt(Parsed(IF now = {} THEN tariff.import ELSE tariff.seasons[Min(now)].import), half)

\* While the day lasts: when every hour so far was read at its end, by a counter without resets
\* and dips, the energy of every hour but the first is priced at the rate of its own hour and season.
PricedAtOwnHour ==
  hour < Hours /\ (\A h \in 0 .. hour : last[h] = start + UsedUntil(h))
    => Priced = Total([h \in 1 .. hour |-> used[h] * RateInForce(2 * h)])

\* No energy is made up: whatever resets and gaps there are, the differences add up to no more
\* than was used since the first reading, and a reading that is too low adds what it was too low;
\* and the two ways in which the program takes energy from a counter agree.
NoInventedEnergy ==
  LET deltas == HourlyDeltas(Points)
      sum    == Total([i \in 1 .. Len(deltas) |-> deltas[i].wh])
  IN  sum <= after + dips /\ CounterToWh(Points) = sum

\* A day's total is the last value that was read on that day, whatever is read afterwards.
TotalsBelongToDay == LastIn(Day) # NoReading => DailyTotal = LastIn(Day)
================================================================================
