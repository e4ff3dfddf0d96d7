------------------------------ MODULE TimerPlanner ------------------------------
(***************************************************************************)
(* The planner that buys cheap energy for expensive hours                  *)
(* (backend/app/automation/planner.py): from a tariff, the battery and the *)
(* outlook for tomorrow it proposes the first two slots of the inverter's  *)
(* timer.  It is a pure function; the state is what it is applied to.      *)
(* Energy is counted in percent of the battery.                            *)
(***************************************************************************)
EXTENDS Tariff

CONSTANTS
  Hours,        \* hours of the day
  Windows,      \* time-of-use windows a tariff may have
  MaxWindows,   \* bound: windows of a tariff
  Flat,         \* flat rate
  Outlooks,     \* for tomorrow: records pv, load
  Battery,      \* BatterySpec: min_soc, max_soc, max_charge, max_discharge
  Strategy,     \* AutomationStrategy: ceiling, reserve, min_spread, step
  NoPlan

\* What the constants must satisfy; instances assume it.
PlannerAssumption ==
  /\ Hours \in Nat \ {0} /\ Flat \in Int /\ \A w \in Windows : w.rate \in Int
  /\ Strategy.step \in Nat \ {0} /\ Strategy.min_spread > 0
  /\ {Strategy.ceiling, Strategy.reserve} \subseteq Nat
  /\ {Battery.min_soc, Battery.max_soc, Battery.max_charge, Battery.max_discharge} \subseteq Nat
  /\ MaxWindows \in Nat /\ \A out \in Outlooks : out.pv \in Int /\ out.load \in Int

VARIABLES
  tariff,    \* RateSchedule
  outlook,   \* what is expected of tomorrow
  slots,     \* the first two slots of the timer
  plan       \* what was proposed, with the tariff and outlook it is for

vars == <<tariff, outlook, slots, plan>>

Day == 0 .. Hours - 1

\* _hourly_rates: sampled at the half-hour.
HourlyRates(schedule) == [h \in Day |-> RateAt(schedule, 2 * h + 1)]
RatesOf(schedule) == {HourlyRates(schedule)[h] : h \in Day}

\* Runs of hours at the target rate on a line of so many hours: first hour and length.
Runs(rates, target, length) ==
  LET at(h) == rates[h % Hours] = target
  IN  {r \in (0 .. length - 1) \X (1 .. length) :
         /\ r[1] + r[2] <= length
         /\ \A h \in r[1] .. r[1] + r[2] - 1 : at(h)
         /\ r[1] > 0 => ~at(r[1] - 1)
         /\ r[1] + r[2] < length => ~at(r[1] + r[2])}

\* The first of the longest.
Longest(runs) == CHOOSE r \in runs : \A q \in runs : q[2] < r[2] \/ (q[2] = r[2] /\ q[1] >= r[1])

\* Mutant: the day is not doubled.
WindowAroundOneDay(rates, target) ==
  LET r == Longest(Runs(rates, target, Hours))
  IN  [start |-> r[1], end |-> (r[1] + r[2]) % Hours]

\* _contiguous_window_around: runs on a doubled day, so that one may wrap; a run longer than a day
\* is passed over, and the first single hour is what is left then.
WindowAround(rates, target) ==
  LET runs == {r \in Runs(rates, target, 2 * Hours) : r[2] <= Hours}
      r    == IF runs # {} THEN Longest(runs)
              ELSE <<Min({h \in Day : rates[h] = target}), 1>>
  IN  [start |-> r[1] % Hours, end |-> (r[1] + r[2]) % Hours]

CheapestWindow(schedule) == WindowAround(HourlyRates(schedule), Min(RatesOf(schedule)))
PeakWindow(schedule)     == WindowAround(HourlyRates(schedule), Max(RatesOf(schedule)))

\* Python's round to the nearest multiple, halves to the even one.
RoundTo(x, step) ==
  LET down == x \div step
      rest == 2 * (x % step)
  IN  step * (IF rest < step \/ (rest = step /\ down % 2 = 0) THEN down ELSE down + 1)

Floor   == Max({Strategy.reserve, Battery.min_soc})
Ceiling == Min({Strategy.ceiling, Battery.max_soc})

\* overnight_target_soc_pct: clamped, then rounded.
TargetSoc(out) ==
  RoundTo(Max({Floor, Min({Ceiling, Strategy.reserve + Max({0, out.load - out.pv})})}), Strategy.step)

Nothing == [x \in {} |-> 0]

\* The slots it would like: charge from the grid in the cheap hours, keep to the reserve from the
\* peak on.
WantedSlots(schedule, target) ==
  [i \in {0, 1} |->
     IF i = 0 THEN [start |-> CheapestWindow(schedule).start, grid |-> TRUE,
                    target |-> target, power |-> Battery.max_charge]
     ELSE [start |-> PeakWindow(schedule).start, grid |-> FALSE,
           target |-> Floor, power |-> Battery.max_discharge]]

\* Mutant: both are compared with the first slot.
SlotChangesMisplaced(current, wanted) ==
  [i \in {j \in {0, 1} : current[0] # wanted[j]} |-> wanted[i]]

SlotChanges(current, wanted) == [i \in {j \in {0, 1} : current[j] # wanted[j]} |-> wanted[i]]

\* plan_timer: the changes of slots it proposes, none where it takes no action.  (Reasons and the
\* estimated saving are left out.)
PlanTimer(current, schedule, out) ==
  LET spread == Max(RatesOf(schedule)) - Min(RatesOf(schedule))
  IN  IF spread < Strategy.min_spread \/ TargetSoc(out) <= Floor THEN Nothing
      ELSE SlotChanges(current, WantedSlots(schedule, TargetSoc(out)))

--------------------------------------------------------------------------------
Slot == [start : Day, grid : BOOLEAN, target : Nat, power : Nat]

Init ==
  /\ tariff = [flat |-> Flat, windows |-> <<>>]
  /\ outlook \in Outlooks
  /\ slots = [i \in {0, 1} |-> [start |-> 0, grid |-> FALSE, target |-> Battery.max_soc, power |-> 0]]
  /\ plan = NoPlan

EditTariff ==
  /\ Len(tariff.windows) < MaxWindows
  /\ \E w \in Windows : tariff' = [tariff EXCEPT !.windows = Append(@, w)]
  /\ UNCHANGED <<outlook, slots, plan>>

Forecast == outlook' \in Outlooks /\ UNCHANGED <<tariff, slots, plan>>

Plan ==
  /\ plan' = [changes |-> PlanTimer(slots, tariff, outlook), tariff |-> tariff, outlook |-> outlook]
  /\ UNCHANGED <<tariff, outlook, slots>>

\* The proposal is carried out, maybe later.
Apply ==
  /\ plan # NoPlan /\ plan' = NoPlan
  /\ slots' = [i \in {0, 1} |-> IF i \in DOMAIN plan.changes THEN plan.changes[i] ELSE slots[i]]
  /\ UNCHANGED <<tariff, outlook>>

Next == EditTariff \/ Forecast \/ Plan \/ Apply

Spec == Init /\ [][Next]_vars

--------------------------------------------------------------------------------
TypeOK ==
  /\ tariff.windows \in Seq(Windows) /\ Len(tariff.windows) <= MaxWindows
  /\ outlook \in Outlooks /\ slots \in [{0, 1} -> Slot]
  /\ {CheapestWindow(tariff), PeakWindow(tariff)} \subseteq [start : Day, end : Day]

\* The hours of a window, which may wrap.
HoursOf(w) == {(w.start + i) % Hours : i \in 0 .. (w.end - w.start - 1) % Hours}

\* Stretches of the circle of hours at one rate.
Stretches(rates, target) ==
  {H \in {{(s + i) % Hours : i \in 0 .. n} : s \in Day, n \in Day} : \A h \in H : rates[h] = target}

\* Unless the tariff is flat, the cheapest and the peak window each hold hours of their rate only,
\* and no longer stretch of such hours exists, over midnight or not.
WindowsAreLongest ==
  LET rates == HourlyRates(tariff)
      sound(w, target) ==
        /\ HoursOf(w) \in Stretches(rates, target)
        /\ \A H \in Stretches(rates, target) : Cardinality(H) <= Cardinality(HoursOf(w))
  IN  Min(RatesOf(tariff)) # Max(RatesOf(tariff))
        => /\ sound(CheapestWindow(tariff), Min(RatesOf(tariff)))
           /\ sound(PeakWindow(tariff), Max(RatesOf(tariff)))

\* A plan that has been carried out is not proposed again while tariff and outlook stay the same.
PlanSettles ==
  [][(Apply /\ plan.tariff = tariff /\ plan.outlook = outlook)
       => PlanTimer(slots', tariff, outlook) = Nothing]_vars
================================================================================
