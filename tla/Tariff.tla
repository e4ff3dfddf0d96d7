--------------------------------- MODULE Tariff ---------------------------------
(***************************************************************************)
(* Rates by time of use, and the energy of a day that is priced with them  *)
(* (backend/app/tariff.py, energy.py), as operators.  Hours of the day are *)
(* counted in half-hours, so that 2 * h is the full hour h; rates, energy  *)
(* and cost are whole numbers.                                             *)
(***************************************************************************)
EXTENDS Integers, Sequences, FiniteSetsExt, TLC, Sums

\* TouWindow.contains: [start, end), which may wrap midnight.
InWindow(w, half) ==
  IF w.start <= w.end THEN w.start <= half /\ half < w.end
  ELSE half >= w.start \/ half < w.end

\* RateSchedule.rate_at: the first window that applies, else the flat rate.
RateAt(schedule, half) ==
  LET hits == {i \in DOMAIN schedule.windows : InWindow(schedule.windows[i], half)}
  IN  IF hits = {} THEN schedule.flat ELSE schedule.windows[Min(hits)].rate

\* RateSchedule.from_dict: a number is a flat rate; what is not given is zero, or no window.
Parsed(given) ==
  IF "number" \in DOMAIN given THEN [flat |-> given.number, windows |-> <<>>]
  ELSE given @@ [flat |-> 0, windows |-> <<>>]

\* Season.contains_month: both ends belong to it, and it may wrap over the new year.
InSeason(s, month) ==
  IF s.start <= s.end THEN s.start <= month /\ month <= s.end
  ELSE month >= s.start \/ month <= s.end

\* Tariff.schedules_for: the first season that applies, else the default.
SchedulesFor(tariff, month) ==
  LET hits == {i \in DOMAIN tariff.seasons : InSeason(tariff.seasons[i], month)}
      of   == IF hits = {} THEN tariff ELSE tariff.seasons[Min(hits)]
  IN  [import |-> Parsed(of.import), export |-> Parsed(of.export)]

\* A counter went from prev to val: what was added.  A drop below half is a reset, a smaller one
\* is jitter.
Added(prev, val) ==
  IF val >= prev THEN val - prev ELSE IF 2 * val < prev THEN val ELSE 0

\* Mutant: every reading is compared with the first.
HourlyDeltasFromFirst(series) ==
  IF series = <<>> THEN <<>>
  ELSE [i \in 1 .. Len(series) - 1 |->
         [half |-> series[i + 1].half, wh |-> Added(series[1].wh, series[i + 1].wh)]]

\* hourly_deltas, of readings in the order of time: each increment belongs to the later reading.
\* (The code leaves out increments of zero, which cost nothing.)
HourlyDeltas(series) ==
  IF series = <<>> THEN <<>>
  ELSE [i \in 1 .. Len(series) - 1 |->
         [half |-> series[i + 1].half, wh |-> Added(series[i].wh, series[i + 1].wh)]]

\* cost_of_deltas
CostOfDeltas(deltas, schedule) ==
  Total([i \in 1 .. Len(deltas) |-> deltas[i].wh * RateAt(schedule, deltas[i].half)])

\* energy.counter_to_wh with its reset factor of one half.
CounterToWh(series) ==
  LET prev(i)  == series[i].wh
      cur(i)   == series[i + 1].wh
      total[i \in 0 .. Len(series) - 1] ==
        IF i = 0 THEN 0
        ELSE total[i - 1] + (IF cur(i) >= prev(i) THEN cur(i) - prev(i)
                             ELSE IF 2 * cur(i) < prev(i) THEN cur(i) ELSE 0)
  IN  IF series = <<>> THEN 0 ELSE total[Len(series) - 1]
================================================================================
