----------------------------- MODULE BatteryProjection -----------------------------
(***************************************************************************)
(* The forecast of the battery's state of charge (backend/app/forecast/    *)
(* battery.py) and the report per day that is made of it (forecast/        *)
(* service.py daily_summary).  A point is added for every hour of weather; *)
(* energy and power are whole watt-hours of that hour.                     *)
(***************************************************************************)
EXTENDS Integers, Sequences, FiniteSets, FiniteSetsExt

CONSTANTS
  Batteries,   \* records [min, max, charge, discharge]
  Starts,      \* states of charge at the start, of any size
  Hourly,      \* what an hour may bring, records [pv, load]
  DayHours,    \* hours of a day
  FirstHour,   \* hour of the day of the first point
  MaxPoints,   \* bound
  Grain,       \* to which the report rounds the state of charge
  None

VARIABLES
  battery,
  soc,         \* soc_wh
  points       \* SocPoints: [hour, before, soc, pv, load, batt, grid]; before is history

projectionVars == <<battery, soc, points>>

ProjectionAssumption ==
  /\ \A b \in Batteries : {b.min, b.max, b.charge, b.discharge} \subseteq Nat /\ b.min < b.max
  /\ Starts \subseteq Int /\ \A h \in Hourly : {h.pv, h.load} \subseteq Nat
  /\ {DayHours, Grain} \subseteq Nat \ {0} /\ FirstHour \in 0..DayHours - 1 /\ MaxPoints \in Nat

Lower(a, b)      == IF a <= b THEN a ELSE b
Higher(a, b)     == IF a >= b THEN a ELSE b
Clamp(v, lo, hi) == Higher(lo, Lower(hi, v))

TypeOK ==
  /\ battery \in Batteries /\ soc \in battery.min..battery.max
  /\ points \in Seq([hour : Nat, before : Nat, soc : Nat, pv : Nat, load : Nat, batt : Int, grid : Int])

Init ==
  /\ battery \in Batteries
  /\ \E s \in Starts : soc = Clamp(s, battery.min, battery.max)
  /\ points = <<>>

\* Mutant: the battery gives what it has, down to nothing, and the result is clamped.
ShareDeep(net) ==
  IF net >= 0
  THEN Clamp(net, 0, Lower(battery.charge, battery.max - soc))
  ELSE -Clamp(-net, 0, Lower(battery.discharge, soc))

\* What the battery takes (> 0) or gives (< 0) of the surplus net.
Share(net) ==
  IF net >= 0
  THEN Clamp(net, 0, Lower(battery.charge, battery.max - soc))
  ELSE -Clamp(-net, 0, Lower(battery.discharge, soc - battery.min))

\* One round of project_soc.
Step ==
  /\ Len(points) < MaxPoints
  /\ \E h \in Hourly :
       LET net  == h.pv - h.load
           batt == Share(net)
       IN  /\ soc' = Clamp(soc + batt, battery.min, battery.max)
           /\ points' = Append(points,
                [hour |-> FirstHour + Len(points), before |-> soc, soc |-> soc',
                 pv |-> h.pv, load |-> h.load, batt |-> batt, grid |-> batt - net])
  /\ UNCHANGED battery

Next == Step

Spec == Init /\ [][Next]_projectionVars

----------------------------------------------------------------------------
(* What is made of the points.                                             *)

\* first_time_at_or_below and first_time_at_or_above
FirstOf(where) == IF where = {} THEN None ELSE points[Min(where)].hour
Depletion == FirstOf({i \in DOMAIN points : points[i].soc <= battery.min})
Full      == FirstOf({i \in DOMAIN points : points[i].soc >= battery.max})

\* The report is made of rounded points.
Rounded(s) == ((2 * s + Grain) \div (2 * Grain)) * Grain

DayOf(hour) == hour \div DayHours
Days        == {DayOf(points[i].hour) : i \in DOMAIN points}

\* Mutant: the report only looks at a day's last hour.
SummaryLast(day) ==
  LET last == Max({j \in DOMAIN points : DayOf(points[j].hour) = day})
      s    == Rounded(points[last].soc)
  IN  [min |-> s, max |-> s, depleted |-> s <= battery.min]

\* daily_summary
Summary(day) ==
  LET socs == {Rounded(points[i].soc) : i \in {j \in DOMAIN points : DayOf(points[j].hour) = day}}
  IN  [min |-> Min(socs), max |-> Max(socs), depleted |-> \E s \in socs : s <= battery.min]

----------------------------------------------------------------------------
\* Energy is neither made nor lost: what the panels give and the grid adds is what the load and
\* the battery take, and the battery holds what it took.  The grid only steps in where the battery
\* is at its limit, of power or of charge, and never while it works the other way.
EnergyBalances ==
  \A i \in DOMAIN points :
    LET p == points[i] IN
    /\ p.pv + p.grid = p.load + p.batt
    /\ p.soc = p.before + p.batt
    /\ p.grid > 0 => p.batt <= 0 /\ (p.batt = -battery.discharge \/ p.soc = battery.min)
    /\ p.grid < 0 => p.batt >= 0 /\ (p.batt = battery.charge \/ p.soc = battery.max)

\* The report compares rounded charges with the limit as it is.  Where the limit is not rounded up,
\* the day of the projected depletion is called depleted, and so is a day before it only if its
\* lowest charge is within half a grain of the limit.  Where the limit is rounded up, no day is ever
\* called depleted, whatever the projection says (service.py:161).
ReportAgrees ==
  LET depleted == {d \in Days : Summary(d).depleted} IN
  IF Rounded(battery.min) > battery.min
  THEN depleted = {}
  ELSE /\ Depletion # None => DayOf(Depletion) \in depleted
       /\ \A d \in depleted : Depletion = None \/ d < DayOf(Depletion) =>
            \E i \in DOMAIN points :
              DayOf(points[i].hour) = d /\ 2 * (points[i].soc - battery.min) <= Grain
====================================================================================
