----------------------------- MODULE EnergyProofs ------------------------------
(***************************************************************************)
(* Proofs about energy: the battery's projection (BatteryProjection), the  *)
(* counters and what their energy costs (DayStats, Tariff), and the planner *)
(* (TimerPlanner), each on its own and as a part of MCParts, for any       *)
(* constants.                                                              *)
(***************************************************************************)
EXTENDS PartsProofs

--------------------------------------------------------------------------------
(* The battery's projection.                                               *)

Point == [hour : Nat, before : Nat, soc : Nat, pv : Nat, load : Nat, batt : Int, grid : Int]

\* Energy balances in every point, whose charge is one the battery can have.
ProjectInv ==
  /\ battery \in Batteries /\ soc \in battery.min..battery.max
  /\ points \in Seq(Point)
  /\ \A i \in DOMAIN points : points[i].soc >= battery.min
  /\ Project!EnergyBalances

LEMMA ProjectInitial ==
  ASSUME Project!ProjectionAssumption, Project!Init
  PROVE  ProjectInv
<1>1. PICK s \in Charges : soc = Project!Clamp(s, battery.min, battery.max)  BY DEF Project!Init
<1>2. battery \in Batteries /\ points = <<>>  BY DEF Project!Init
<1>3. s \in Int /\ battery.min \in Nat /\ battery.max \in Int /\ battery.min < battery.max
  BY <1>1, <1>2 DEF Project!ProjectionAssumption
<1>4. soc \in battery.min..battery.max
  BY <1>1, <1>3 DEF Project!Clamp, Project!Higher, Project!Lower
<1>5. points \in Seq(Point) /\ DOMAIN points = {}  BY <1>2
<1>6. QED BY <1>2, <1>4, <1>5 DEF ProjectInv, Project!EnergyBalances

\* What the battery takes or gives fits into it; it does less than asked only at a limit.
LEMMA ShareFits ==
  ASSUME Project!ProjectionAssumption, battery \in Batteries, soc \in battery.min..battery.max,
         NEW net \in Int
  PROVE  LET batt == Project!Share(net) IN
         /\ batt \in Int /\ soc + batt \in battery.min..battery.max
         /\ batt > net => batt <= 0 /\ (batt = -battery.discharge \/ soc + batt = battery.min)
         /\ batt < net => batt >= 0 /\ (batt = battery.charge \/ soc + batt = battery.max)
<1>1. /\ battery.min \in Nat /\ battery.max \in Int /\ battery.min < battery.max
      /\ battery.charge \in Nat /\ battery.discharge \in Nat /\ soc \in Int
  BY DEF Project!ProjectionAssumption
<1>2. QED
  BY <1>1 DEF Project!Share, Project!Clamp, Project!Higher, Project!Lower

LEMMA ProjectStep ==
  ASSUME Project!ProjectionAssumption, ProjectInv, [Project!Next]_projectVars
  PROVE  ProjectInv'
<1>1. CASE UNCHANGED projectVars
  BY <1>1 DEF projectVars, ProjectInv, Project!EnergyBalances
<1>2. CASE Project!Step
  <2> DEFINE batt(h) == Project!Share(h.pv - h.load)
             point(h) == [hour |-> 0 + Len(points), before |-> soc, soc |-> soc', pv |-> h.pv,
                          load |-> h.load, batt |-> batt(h), grid |-> batt(h) - (h.pv - h.load)]
  <2>1. PICK h \in Hourly :
          /\ soc' = Project!Clamp(soc + batt(h), battery.min, battery.max)
          /\ points' = Append(points, point(h)) /\ battery' = battery
    BY <1>2 DEF Project!Step
  <2> DEFINE b == batt(h)  p == point(h)
  <2>2. /\ battery \in Batteries /\ soc \in battery.min..battery.max /\ points \in Seq(Point)
        /\ h.pv \in Nat /\ h.load \in Nat /\ h.pv - h.load \in Int
        /\ battery.min \in Nat /\ battery.max \in Int
    BY DEF ProjectInv, Project!ProjectionAssumption
  <2>3. /\ b \in Int /\ soc + b \in battery.min..battery.max
        /\ b > h.pv - h.load => b <= 0 /\ (b = -battery.discharge \/ soc + b = battery.min)
        /\ b < h.pv - h.load => b >= 0 /\ (b = battery.charge \/ soc + b = battery.max)
    BY <2>2, ShareFits
  <2> HIDE DEF batt
  <2>4. soc' = soc + b
    BY <2>1, <2>2, <2>3, SMTT(30) DEF Project!Clamp, Project!Higher, Project!Lower
  <2>5. p \in Point
    <3>1. Len(points) \in Nat /\ 0 + Len(points) = Len(points)  BY <2>2, LenProperties
    <3>2. soc \in Nat /\ soc' \in Nat  BY <2>2, <2>3, <2>4
    <3>3. b - (h.pv - h.load) \in Int  BY <2>2, <2>3
    <3>4. QED BY <2>2, <2>3, <3>1, <3>2, <3>3 DEF Point
  <2>6. /\ p.before = soc /\ p.soc = soc' /\ p.pv = h.pv /\ p.load = h.load /\ p.batt = b
        /\ p.grid = b - (h.pv - h.load)
    OBVIOUS
  <2> HIDE DEF p, b, point
  <2>7. /\ p.pv + p.grid = p.load + p.batt /\ p.soc = p.before + p.batt
        /\ p.grid > 0 => p.batt <= 0 /\ (p.batt = -battery.discharge \/ p.soc = battery.min)
        /\ p.grid < 0 => p.batt >= 0 /\ (p.batt = battery.charge \/ p.soc = battery.max)
        /\ p.soc >= battery.min /\ soc' \in battery.min..battery.max
    BY <2>2, <2>3, <2>4, <2>6, SMTT(30)
  <2>8. points' = Append(points, p)  BY <2>1 DEF p
  <2>9. /\ points' \in Seq(Point) /\ DOMAIN points' = DOMAIN points \union {Len(points) + 1}
        /\ \A i \in DOMAIN points' : points'[i] = IF i = Len(points) + 1 THEN p ELSE points[i]
    BY <2>2, <2>5, <2>8, AppendProperties, LenProperties
  <2>10. \A i \in DOMAIN points' : points'[i] = p \/ (i \in DOMAIN points /\ points'[i] = points[i])
    BY <2>9
  <2>11. Project!EnergyBalances'
    BY <2>1, <2>7, <2>10 DEF ProjectInv, Project!EnergyBalances
  <2>12. \A i \in DOMAIN points' : points'[i].soc >= battery'.min
    BY <2>1, <2>7, <2>10 DEF ProjectInv
  <2>13. QED BY <2>1, <2>2, <2>7, <2>9, <2>11, <2>12 DEF ProjectInv
<1>3. QED BY <1>1, <1>2 DEF Project!Next

\* A charge that rounds to low or less is within half a grain of it.
LEMMA RoundsDown ==
  ASSUME Project!ProjectionAssumption, NEW s \in Nat, NEW low \in Nat, Project!Rounded(s) <= low
  PROVE  2 * (s - low) <= Grain
<1> DEFINE q == (2 * s + Grain) \div (2 * Grain)
<1>1. Grain \in Nat /\ Grain > 0 /\ 2 * Grain > 0  BY DEF Project!ProjectionAssumption
<1>2. q \in Int /\ 2 * s + Grain < (2 * Grain) * q + 2 * Grain  BY <1>1
<1>3. (2 * Grain) * q = 2 * (q * Grain)  BY <1>1, <1>2
<1>4. q * Grain \in Int /\ q * Grain <= low  BY <1>1, <1>2 DEF Project!Rounded
<1>5. QED BY <1>1, <1>2, <1>3, <1>4

\* A larger charge is not rounded to less.
LEMMA RoundsInOrder ==
  ASSUME Project!ProjectionAssumption, NEW s \in Nat, NEW low \in Nat, low <= s
  PROVE  /\ Project!Rounded(low) \in Int /\ Project!Rounded(s) \in Int
         /\ Project!Rounded(low) <= Project!Rounded(s)
<1> DEFINE q == (2 * s + Grain) \div (2 * Grain)
           p == (2 * low + Grain) \div (2 * Grain)
           g == 2 * Grain
<1>1. Grain \in Nat /\ Grain > 0 /\ g \in Nat /\ g > 0  BY DEF Project!ProjectionAssumption
<1>2. /\ q \in Int /\ g * q <= 2 * s + Grain /\ 2 * s + Grain < g * q + g
      /\ p \in Int /\ g * p <= 2 * low + Grain /\ 2 * low + Grain < g * p + g
  BY <1>1
<1> HIDE DEF q, p, g
<1>3. p <= q
  <2> SUFFICES ASSUME q + 1 <= p PROVE FALSE  BY <1>2
  <2>1. g * (q + 1) <= g * p  BY <1>1, <1>2, ProductMonotone
  <2>2. g * (q + 1) = g * q + g  BY <1>1, <1>2
  <2>3. g * q \in Int /\ g * p \in Int  BY <1>1, <1>2
  <2>4. QED BY <1>1, <1>2, <2>1, <2>2, <2>3
<1>4. Grain * p <= Grain * q  BY <1>1, <1>2, <1>3, ProductMonotone
<1>5. Grain * p = p * Grain /\ Grain * q = q * Grain /\ p * Grain \in Int /\ q * Grain \in Int  BY <1>1, <1>2
<1>6. Project!Rounded(low) = p * Grain /\ Project!Rounded(s) = q * Grain  BY DEF Project!Rounded, p, q
<1>7. QED BY <1>4, <1>5, <1>6

LEMMA HasMinimum ==
  ASSUME NEW n \in Nat, NEW S \in SUBSET (1..n), S # {}
  PROVE  Project!Min(S) \in S
<1>1. PICK m \in S : \A k \in S : m <= k  BY Least
<1>2. QED BY <1>1 DEF Project!Min

LEMMA ReportTrue ==
  ASSUME Project!ProjectionAssumption, ProjectInv
  PROVE  Project!ReportAgrees
<1> DEFINE depleted == {d \in Project!Days : Project!Summary(d).depleted}
<1>1. /\ points \in Seq(Point) /\ battery.min \in Nat
      /\ \A i \in DOMAIN points : points[i] \in Point /\ points[i].soc \in Nat /\ points[i].soc >= battery.min
  <2>1. points \in Seq(Point) /\ battery \in Batteries  BY DEF ProjectInv
  <2>2. \A i \in DOMAIN points : points[i] \in Point  BY <2>1, ElementOfSeq, LenProperties
  <2>3. \A i \in DOMAIN points : points[i].soc \in Nat  BY <2>2 DEF Point
  <2>4. QED BY <2>1, <2>2, <2>3 DEF ProjectInv, Project!ProjectionAssumption
<1>2. \A d : Project!Summary(d).depleted <=>
               \E i \in DOMAIN points : Project!DayOf(points[i].hour) = d
                                        /\ Project!Rounded(points[i].soc) <= battery.min
  <2> SUFFICES ASSUME NEW d
               PROVE  Project!Summary(d).depleted <=>
                        \E i \in DOMAIN points : Project!DayOf(points[i].hour) = d
                                                 /\ Project!Rounded(points[i].soc) <= battery.min
    OBVIOUS
  <2> DEFINE socs == {Project!Rounded(points[i].soc) :
                        i \in {j \in DOMAIN points : Project!DayOf(points[j].hour) = d}}
  <2>1. Project!Summary(d).depleted <=> \E s \in socs : s <= battery.min  BY DEF Project!Summary
  <2>2. QED BY <2>1
<1>3. ASSUME Project!Depletion # None, ~(Project!Rounded(battery.min) > battery.min)
      PROVE  Project!DayOf(Project!Depletion) \in depleted
  <2> DEFINE low == {i \in DOMAIN points : points[i].soc <= battery.min}
             i == Project!Min(low)
  <2>1. low # {} /\ Project!Depletion = points[i].hour
    BY <1>3 DEF Project!Depletion, Project!FirstOf
  <2>2. i \in low
    <3>1. Len(points) \in Nat /\ low \in SUBSET (1..Len(points))  BY <1>1, LenProperties
    <3>2. QED BY <2>1, <3>1, HasMinimum
  <2> HIDE DEF i
  <2>3. i \in DOMAIN points /\ points[i].soc = battery.min  BY <1>1, <2>2
  <2>4. Project!Rounded(points[i].soc) <= battery.min
    <3>1. Grain \in Nat /\ Grain > 0 /\ 2 * Grain > 0  BY DEF Project!ProjectionAssumption
    <3>2. (2 * battery.min + Grain) \div (2 * Grain) \in Int  BY <1>1, <3>1
    <3>3. Project!Rounded(battery.min) \in Int  BY <3>1, <3>2 DEF Project!Rounded
    <3>4. QED BY <1>1, <1>3, <2>3, <3>3
  <2>5. QED BY <1>2, <2>1, <2>3, <2>4 DEF Project!Days
<1>4. ASSUME NEW d \in depleted
      PROVE  \E i \in DOMAIN points :
               Project!DayOf(points[i].hour) = d /\ 2 * (points[i].soc - battery.min) <= Grain
  BY <1>1, <1>2, RoundsDown
<1>5. ASSUME Project!Rounded(battery.min) > battery.min PROVE depleted = {}
  <2> SUFFICES ASSUME NEW d \in depleted PROVE FALSE  OBVIOUS
  <2>1. PICK i \in DOMAIN points : Project!Rounded(points[i].soc) <= battery.min  BY <1>2
  <2>2. /\ Project!Rounded(battery.min) \in Int /\ Project!Rounded(points[i].soc) \in Int
        /\ Project!Rounded(battery.min) <= Project!Rounded(points[i].soc)
    BY <1>1, RoundsInOrder
  <2>3. QED BY <1>1, <1>5, <2>1, <2>2
<1> HIDE DEF depleted
<1>6. CASE Project!Rounded(battery.min) > battery.min  BY <1>5, <1>6 DEF Project!ReportAgrees, depleted
<1>7. CASE ~(Project!Rounded(battery.min) > battery.min)
  BY <1>3, <1>4, <1>7 DEF Project!ReportAgrees, depleted
<1>8. QED BY <1>6, <1>7

\* project_soc: in every hour energy balances, and the grid only steps in at a limit of the battery, for
\* any battery, start, weather and number of hours.
THEOREM EnergyIsKept ==
  /\ Project!Spec => []Project!EnergyBalances
  /\ PartsSpec => []EnergyBalances
<1> DEFINE Inv == part = "projection" => ProjectInv
<1>1. Project!Init => ProjectInv  BY ProjectInitial, PartsAssumption DEF PartsAssumption
<1>2. ProjectInv /\ [Project!Next]_projectVars => ProjectInv'  BY ProjectStep, PartsAssumption DEF PartsAssumption
<1>3. ProjectInv => Project!EnergyBalances  BY DEF ProjectInv
<1>4. PartsInit => Inv  BY <1>1 DEF PartsInit
<1>5. Inv /\ [PartsNext]_vars => Inv'  BY <1>2, OnePartMoves
<1>6. Inv => EnergyBalances  BY <1>3 DEF EnergyBalances
<1> HIDE DEF Inv
<1>7. PartsSpec => []EnergyBalances  BY <1>4, <1>5, <1>6, PTL DEF PartsSpec
<1>8. ProjectInv /\ [Project!Next]_(Project!projectionVars) => ProjectInv'  BY <1>2 DEF projectVars, Project!projectionVars
<1>9. Project!Spec => []Project!EnergyBalances  BY <1>1, <1>3, <1>8, PTL DEF Project!Spec
<1>10. QED BY <1>7, <1>9

\* daily_summary, for any length of a day and any grain: where the limit is not rounded up, the day of
\* the projected depletion is one that the report calls depleted, and an earlier day it calls so comes
\* within half a grain of the limit; where the limit is rounded up, no day is called depleted.
THEOREM ReportIsTrue ==
  /\ Project!Spec => []Project!ReportAgrees
  /\ PartsSpec => []ReportAgrees
<1> DEFINE Inv == part = "projection" => ProjectInv
<1>1. Project!Init => ProjectInv  BY ProjectInitial, PartsAssumption DEF PartsAssumption
<1>2. ProjectInv /\ [Project!Next]_projectVars => ProjectInv'  BY ProjectStep, PartsAssumption DEF PartsAssumption
<1>3. ProjectInv => Project!ReportAgrees  BY ReportTrue, PartsAssumption DEF PartsAssumption
<1>4. PartsInit => Inv  BY <1>1 DEF PartsInit
<1>5. Inv /\ [PartsNext]_vars => Inv'  BY <1>2, OnePartMoves
<1>6. Inv => ReportAgrees  BY <1>3 DEF ReportAgrees
<1> HIDE DEF Inv
<1>7. PartsSpec => []ReportAgrees  BY <1>4, <1>5, <1>6, PTL DEF PartsSpec
<1>8. ProjectInv /\ [Project!Next]_(Project!projectionVars) => ProjectInv'  BY <1>2 DEF projectVars, Project!projectionVars
<1>9. Project!Spec => []Project!ReportAgrees  BY <1>1, <1>3, <1>8, PTL DEF Project!Spec
<1>10. QED BY <1>7, <1>9

--------------------------------------------------------------------------------
(* Energy counters.                                                        *)

\* The function that adds up a, element by element.
Adds(f, n, a) == f = [i \in 0..n |-> IF i = 0 THEN 0 ELSE f[i - 1] + a[i]]

\* A function that adds up exists.
LEMMA AddsExists ==
  ASSUME NEW n \in Nat, NEW a \in [1..n -> Int]
  PROVE  \E f \in [0..n -> Int] : Adds(f, n, a)
<1> DEFINE G == [k \in 1..n |-> [w \in Int |-> w + a[k]]]
<1>1. G \in [1..n -> [Int -> Int]]  OBVIOUS
<1>2. PICK f : Recursive(f, n, Int, 0, G)
  <2> HIDE DEF G
  <2>1. 0 \in Int  OBVIOUS
  <2>2. QED BY <1>1, <2>1, Recursion, Zenon
<1>3. f \in [0..n -> Int] /\ f[0] = 0  BY <1>2 DEF Recursive
<1>4. ASSUME NEW k \in 1..n PROVE f[k] = f[k - 1] + a[k]
  <2>1. k - 1 \in 0..n  OBVIOUS
  <2>2. f[k] = G[k][f[k - 1]] /\ f[k - 1] \in Int  BY <1>2, <2>1 DEF Recursive
  <2>3. QED BY <2>2
<1>5. \A i \in 0..n : f[i] = IF i = 0 THEN 0 ELSE f[i - 1] + a[i]
  <2>1. \A i \in 0..n : i # 0 => i \in 1..n  OBVIOUS
  <2> HIDE DEF G
  <2>2. QED BY <1>3, <1>4, <2>1
<1> HIDE DEF G
<1>6. Adds(f, n, a)  BY <1>3, <1>5 DEF Adds
<1>7. QED BY <1>3, <1>6

\* Two that add up the same as far as j agree there.
LEMMA AddsAgree ==
  ASSUME NEW n \in Nat, NEW m \in Nat, NEW a, NEW b, NEW f, NEW g, Adds(f, n, a), Adds(g, m, b)
  PROVE  \A j \in Nat : j <= n /\ j <= m /\ (\A k \in 1..j : a[k] = b[k]) => f[j] = g[j]
<1> SUFFICES ASSUME NEW j \in Nat, j <= n, j <= m, \A k \in 1..j : a[k] = b[k] PROVE f[j] = g[j]  OBVIOUS
<1> DEFINE S == {k \in 0..j : f[k] = g[k]}
<1>1. 0 \in S  BY DEF Adds
<1>2. ASSUME NEW k \in 1..j, k - 1 \in S PROVE k \in S
  <2>1. k \in 0..j /\ k # 0 /\ k - 1 \in 0..j /\ k \in 0..n /\ k \in 0..m  OBVIOUS
  <2>2. f[k] = f[k - 1] + a[k] /\ g[k] = g[k - 1] + b[k]  BY <2>1, Zenon DEF Adds
  <2>3. f[k - 1] = g[k - 1] /\ a[k] = b[k]  BY <1>2
  <2>4. QED BY <2>1, <2>2, <2>3
<1> HIDE DEF S
<1>3. \A k \in 0..j : k \in S  BY <1>1, <1>2, UpTo, Zenon
<1>4. QED BY <1>3 DEF S

\* What Total computes.
LEMMA TotalAdds ==
  ASSUME NEW s, Len(s) \in Nat, NEW a \in [1..Len(s) -> Int], \A k \in 1..Len(s) : s[k] = a[k]
  PROVE  \E f \in [0..Len(s) -> Int] : Adds(f, Len(s), a) /\ Day!Total(s) = f[Len(s)]
<1> DEFINE n == Len(s)
           Is(f) == f = [i \in 0..n |-> IF i = 0 THEN 0 ELSE f[i - 1] + s[i]]
           up == CHOOSE f : Is(f)
<1>1. ASSUME NEW f PROVE Is(f) <=> Adds(f, n, a)
  <2>1. [i \in 0..n |-> IF i = 0 THEN 0 ELSE f[i - 1] + s[i]] = [i \in 0..n |-> IF i = 0 THEN 0 ELSE f[i - 1] + a[i]]
    <3>1. \A i \in 0..n : i # 0 => s[i] = a[i]  OBVIOUS
    <3>2. QED BY <3>1
  <2>2. QED BY <2>1 DEF Adds
<1>2. PICK g \in [0..n -> Int] : Adds(g, n, a)  BY AddsExists
<1>3. Is(up)  BY <1>1, <1>2
<1>4. Day!Total(s) = up[n]  BY DEF Day!Total
<1>5. Adds(up, n, a)  BY <1>1, <1>3
<1> HIDE DEF up, Is
<1> DEFINE S == {k \in 0..n : up[k] \in Int}
<1>6. 0 \in S  BY <1>5 DEF Adds
<1>7. ASSUME NEW k \in 1..n, k - 1 \in S PROVE k \in S
  <2>1. k \in 0..n /\ k # 0  OBVIOUS
  <2>2. up[k] = up[k - 1] + a[k]  BY <1>5, <2>1, Zenon DEF Adds
  <2>3. up[k - 1] \in Int /\ a[k] \in Int  BY <1>7
  <2>4. QED BY <2>1, <2>2, <2>3
<1> HIDE DEF S
<1>8. \A k \in 0..n : k \in S  BY <1>6, <1>7, UpTo, Zenon
<1>9. \A k \in 0..n : up[k] \in Int  BY <1>8 DEF S
<1>10. up = [k \in 0..n |-> up[k]]  BY <1>5 DEF Adds
<1>11. up \in [0..n -> Int]  BY <1>9, <1>10
<1>12. QED BY <1>4, <1>5, <1>11

\* The increments between the points, each at the later one.
Increments(P) == [i \in 1..Len(P) |-> IF i = 1 THEN 0 ELSE Day!Added(P[i - 1].wh, P[i].wh)]

Reading == [half : Nat, wh : Nat]

LEMMA IncrementsTyped ==
  ASSUME NEW P \in Seq(Reading)
  PROVE  /\ Len(P) \in Nat /\ \A i \in 1..Len(P) : P[i].wh \in Nat
         /\ Increments(P) \in [1..Len(P) -> Int]
         /\ \A i \in 1..(Len(P) - 1) : Day!Added(P[i].wh, P[i + 1].wh) \in Nat
<1>1. ASSUME NEW v \in Nat, NEW w \in Nat PROVE Day!Added(v, w) \in Nat  BY DEF Day!Added
<1> DEFINE n == Len(P)
<1>7. n \in Nat /\ \A i \in 1..n : P[i].wh \in Nat
  <2>1. n \in Nat  BY LenProperties
  <2>2. \A i \in 1..n : P[i] \in Reading  BY ElementOfSeq
  <2>3. QED BY <2>1, <2>2 DEF Reading
<1> HIDE DEF n
<1>2. \A i \in 1..n : i # 1 => i - 1 \in 1..n  BY <1>7
<1>3. \A i \in 1..n : i # 1 => Day!Added(P[i - 1].wh, P[i].wh) \in Nat  BY <1>1, <1>2, <1>7
<1>4. \A i \in 1..(n - 1) : i \in 1..n /\ i + 1 \in 1..n  BY <1>7
<1>5. \A i \in 1..(n - 1) : Day!Added(P[i].wh, P[i + 1].wh) \in Nat  BY <1>1, <1>4, <1>7
<1>6. QED BY <1>3, <1>5, <1>7 DEF Increments, n

\* Both ways of adding up take the sum of the increments.
LEMMA SumsAgree ==
  ASSUME NEW P \in Seq(Reading), NEW f, Adds(f, Len(P), Increments(P)), f \in [0..Len(P) -> Int]
  PROVE  LET D == Day!HourlyDeltas(P) IN
         /\ Day!CounterToWh(P) = f[Len(P)]
         /\ Day!Total([i \in 1..Len(D) |-> D[i].wh]) = f[Len(P)]
<1> DEFINE n == Len(P) - 1
           a == [i \in 1..n |-> Day!Added(P[i].wh, P[i + 1].wh)]
           D == Day!HourlyDeltas(P)
           W == [i \in 1..Len(D) |-> D[i].wh]
<1>1. CASE P = <<>>
  <2>1. Len(P) = 0  BY <1>1, EmptySeq
  <2>2. D = <<>> /\ Len(D) = 0  BY <1>1, EmptySeq DEF Day!HourlyDeltas
  <2>3. f[Len(P)] = 0  BY <2>1 DEF Adds
  <2>4. Day!CounterToWh(P) = 0  BY <1>1 DEF Day!CounterToWh
  <2>5. Len(W) = 0
    <3>1. W = [i \in 1..0 |-> D[i].wh]  BY <2>2
    <3>2. QED BY <3>1
  <2>6. [i \in 1..0 |-> 0] \in [1..Len(W) -> Int]  BY <2>5
  <2>7. PICK g \in [0..Len(W) -> Int] : Adds(g, Len(W), [i \in 1..0 |-> 0]) /\ Day!Total(W) = g[Len(W)]
    <3> HIDE DEF W
    <3>1. \A k \in 1..Len(W) : W[k] = [i \in 1..0 |-> 0][k]  BY <2>5
    <3>2. QED BY <2>5, <2>6, <3>1, TotalAdds
  <2>8. Day!Total(W) = 0  BY <2>5, <2>7 DEF Adds
  <2>9. QED BY <2>3, <2>4, <2>8
<1>2. CASE P # <<>>
  <2>1. Len(P) \in Nat \ {0} /\ n \in Nat  BY <1>2, EmptySeq, LenProperties
  <2> DEFINE g == [i \in 0..n |-> f[i + 1]]
  <2>2. a \in [1..n -> Int]  BY IncrementsTyped
  <2>3. Adds(g, n, a)
    <3>1. \A i \in 0..Len(P) : f[i] = IF i = 0 THEN 0 ELSE f[i - 1] + Increments(P)[i]  BY DEF Adds
    <3>2. f[1] = 0
      <4>1. 1 \in 0..Len(P) /\ 0 \in 0..Len(P) /\ 1 \in 1..Len(P)  BY <2>1
      <4>2. Increments(P)[1] = 0  BY <4>1 DEF Increments
      <4>3. QED BY <3>1, <4>1, <4>2
    <3>3. ASSUME NEW i \in 1..n PROVE f[i + 1] = f[i] + a[i]
      <4>1. i + 1 \in 0..Len(P) /\ i + 1 \in 1..Len(P) /\ (i + 1) - 1 = i /\ i + 1 # 0 /\ i + 1 # 1  BY <2>1
      <4>2. Increments(P)[i + 1] = a[i]  BY <4>1 DEF Increments
      <4>3. QED BY <3>1, <4>1, <4>2
    <3>4. ASSUME NEW i \in 0..n PROVE g[i] = IF i = 0 THEN 0 ELSE g[i - 1] + a[i]
      <4>1. CASE i = 0  BY <3>2, <4>1
      <4>2. CASE i # 0
        <5>1. i \in 1..n /\ i - 1 \in 0..n /\ (i - 1) + 1 = i  BY <2>1, <4>2
        <5>2. g[i] = f[i + 1] /\ g[i - 1] = f[(i - 1) + 1]  BY <5>1
        <5> HIDE DEF g, a
        <5>3. QED BY <3>3, <4>2, <5>1, <5>2
      <4>3. QED BY <4>1, <4>2
    <3>5. g = [i \in 0..n |-> g[i]]  OBVIOUS
    <3> HIDE DEF g, a
    <3>6. QED BY <3>4, <3>5 DEF Adds
  <2>4. D = [i \in 1..n |-> [half |-> P[i + 1].half, wh |-> a[i]]]  BY <1>2 DEF Day!HourlyDeltas
  <2>5. Len(D) = n /\ W = a
    <3> HIDE DEF D
    <3>1. Len(D) = n  BY <2>1, <2>4
    <3>2. \A i \in 1..n : D[i].wh = a[i]  BY <2>4
    <3>3. QED BY <3>1, <3>2
  <2>6. Day!Total(W) = g[n]
    <3>1. Len(a) = n  BY <2>1
    <3> HIDE DEF a, D, W, g, n
    <3>2. PICK h \in [0..Len(W) -> Int] : Adds(h, Len(W), a) /\ Day!Total(W) = h[Len(W)]
      BY <2>1, <2>2, <2>5, <3>1, TotalAdds
    <3>3. Adds(h, n, a) /\ Day!Total(W) = h[n]  BY <2>5, <3>1, <3>2
    <3>4. QED BY <2>1, <2>3, <3>3, AddsAgree
  <2>7. Day!CounterToWh(P) = g[n]
    <3> DEFINE Is(t) == t = [i \in 0..n |->
                 IF i = 0 THEN 0
                 ELSE t[i - 1] + (IF P[i + 1].wh >= P[i].wh THEN P[i + 1].wh - P[i].wh
                                  ELSE IF 2 * P[i + 1].wh < P[i].wh THEN P[i + 1].wh ELSE 0)]
               total == CHOOSE t : Is(t)
    <3>1. Day!CounterToWh(P) = total[n]  BY <1>2 DEF Day!CounterToWh
    <3>2. ASSUME NEW t PROVE Is(t) <=> Adds(t, n, a)
      <4>1. \A i \in 0..n : i # 0 => a[i] = IF P[i + 1].wh >= P[i].wh THEN P[i + 1].wh - P[i].wh
                                  ELSE IF 2 * P[i + 1].wh < P[i].wh THEN P[i + 1].wh ELSE 0
        BY DEF Day!Added
      <4> HIDE DEF a
      <4>2. QED BY <4>1 DEF Adds
    <3> HIDE DEF Is, g, a
    <3>3. Is(total)  BY <2>3, <3>2
    <3> HIDE DEF total
    <3>4. Adds(total, n, a)  BY <3>2, <3>3
    <3>5. QED BY <2>1, <2>3, <3>1, <3>4, AddsAgree
  <2>8. g[n] = f[Len(P)]  BY <2>1
  <2>9. QED BY <2>6, <2>7, <2>8
<1>3. QED BY <1>1, <1>2

Rollups == [Day!Span -> Nat \union {None}]

\* f[h] are the hours before h that have a bucket in l.
Gathers(f, l) ==
  /\ f \in [0..(DayHours + 1) -> Seq(Nat)]
  /\ f[0] = <<>>
  /\ \A k \in 1..(DayHours + 1) : f[k] = IF l[k - 1] = None THEN f[k - 1] ELSE Append(f[k - 1], k - 1)

\* What Buckets computes.
LEMMA BucketsGather ==
  ASSUME Day!DayAssumption, NEW l \in Rollups
  PROVE  \E f : Gathers(f, l) /\ Day!Buckets(l) = f[DayHours + 1]
<1> DEFINE n == DayHours + 1
           Step(w, k) == IF l[k - 1] = None THEN w ELSE Append(w, k - 1)
           G == [k \in 1..n |-> [w \in Seq(Nat) |-> Step(w, k)]]
           Is(f) == f = [h \in 0..n |-> IF h = 0 THEN <<>>
                                        ELSE IF l[h - 1] = None THEN f[h - 1] ELSE Append(f[h - 1], h - 1)]
           up == CHOOSE f : Is(f)
<1>1. n \in Nat  BY DEF Day!DayAssumption
<1>2. ASSUME NEW k \in 1..n, NEW w \in Seq(Nat) PROVE Step(w, k) \in Seq(Nat)
  <2>1. k - 1 \in Nat  BY <1>1
  <2>2. Append(w, k - 1) \in Seq(Nat)  BY <2>1, AppendProperties
  <2>3. QED BY <2>2
<1>3. G \in [1..n -> [Seq(Nat) -> Seq(Nat)]]
  <2> HIDE DEF Step
  <2>1. QED BY <1>2
<1>4. PICK g : Recursive(g, n, Seq(Nat), <<>>, G)
  <2> HIDE DEF G, n
  <2>1. <<>> \in Seq(Nat)  BY EmptySeq
  <2>2. QED BY <1>1, <1>3, <2>1, Recursion, Zenon
<1>5. \A k \in 1..n : g[k] = Step(g[k - 1], k) /\ k - 1 \in 0..n
  <2>1. ASSUME NEW k \in 1..n PROVE g[k] = Step(g[k - 1], k) /\ k - 1 \in 0..n
    <3>1. k - 1 \in 0..n  BY <1>1
    <3>2. g[k - 1] \in Seq(Nat) /\ g[k] = G[k][g[k - 1]]  BY <1>4, <3>1 DEF Recursive
    <3> HIDE DEF Step
    <3>3. QED BY <3>1, <3>2
  <2>2. QED BY <2>1
<1>6. Is(g)
  <2>1. g = [h \in 0..n |-> g[h]] /\ g[0] = <<>>  BY <1>4 DEF Recursive
  <2>2. \A h \in 0..n : h # 0 => h \in 1..n  BY <1>1
  <2>3. \A h \in 0..n : g[h] = IF h = 0 THEN <<>>
                               ELSE IF l[h - 1] = None THEN g[h - 1] ELSE Append(g[h - 1], h - 1)
    BY <1>5, <2>1, <2>2
  <2> HIDE DEF G
  <2>4. QED BY <2>1, <2>3
<1>7. Is(up)  BY <1>6
<1>8. Day!Buckets(l) = up[n]  BY DEF Day!Buckets
<1> HIDE DEF up
<1>9. \A k \in 1..n : up[k] = Step(up[k - 1], k)
  <2>1. \A k \in 1..n : k \in 0..n /\ k # 0  BY <1>1
  <2>2. QED BY <1>7, <2>1
<1>10. up[0] = <<>>
  <2>1. 0 \in 0..n  BY <1>1
  <2>2. QED BY <1>7, <2>1
<1>11. up = [h \in 0..n |-> up[h]]  BY <1>7
<1> DEFINE S == {k \in 0..n : up[k] \in Seq(Nat)}
<1>12. 0 \in S
  <2>1. <<>> \in Seq(Nat) /\ 0 \in 0..n  BY <1>1, EmptySeq
  <2>2. QED BY <1>10, <2>1
<1>13. ASSUME NEW k \in 1..n, k - 1 \in S PROVE k \in S
  <2>1. up[k - 1] \in Seq(Nat)  BY <1>13
  <2>2. k \in 0..n  BY <1>1
  <2> HIDE DEF Step
  <2>3. QED BY <1>2, <1>9, <2>1, <2>2
<1>14. \A k \in 0..n : k \in S
  <2> HIDE DEF S, n
  <2>1. QED BY <1>1, <1>12, <1>13, UpTo, Zenon
<1>15. up \in [0..n -> Seq(Nat)]  BY <1>11, <1>14
<1>16. Gathers(up, l)
  <2> HIDE DEF Is
  <2>1. QED BY <1>9, <1>10, <1>15 DEF Gathers
<1>17. QED BY <1>8, <1>16

\* Two rollups that agree on the hours before H, and have none after it, differ in the last bucket only.
LEMMA BucketsEnd ==
  ASSUME Day!DayAssumption, NEW l \in Rollups, NEW m \in Rollups, NEW H \in Day!Span,
         \A h \in Day!Span : h < H => l[h] = m[h],
         \A h \in Day!Span : h > H => l[h] = None /\ m[h] = None
  PROVE  \E base \in Seq(Nat) :
           /\ \A i \in 1..Len(base) : base[i] \in Day!Span /\ base[i] < H /\ l[base[i]] # None
           /\ Day!Buckets(l) = IF l[H] = None THEN base ELSE Append(base, H)
           /\ Day!Buckets(m) = IF m[H] = None THEN base ELSE Append(base, H)
<1> DEFINE n == DayHours + 1
<1>1. n \in Nat /\ H \in Nat /\ H \in 0..n /\ H + 1 \in 1..n /\ Day!Span = 0..DayHours /\ DayHours \in Nat
  BY DEF Day!DayAssumption, Day!Span
<1>2. PICK f : Gathers(f, l) /\ Day!Buckets(l) = f[n]  BY BucketsGather
<1>3. PICK g : Gathers(g, m) /\ Day!Buckets(m) = g[n]  BY BucketsGather
<1> HIDE DEF n
<1>4. /\ f \in [0..n -> Seq(Nat)] /\ f[0] = <<>> /\ g[0] = <<>>
      /\ \A k \in 1..n : f[k] = IF l[k - 1] = None THEN f[k - 1] ELSE Append(f[k - 1], k - 1)
      /\ \A k \in 1..n : g[k] = IF m[k - 1] = None THEN g[k - 1] ELSE Append(g[k - 1], k - 1)
  BY <1>2, <1>3 DEF Gathers, n
<1> DEFINE Early(b, h) == \A i \in 1..Len(b) : b[i] \in Day!Span /\ b[i] < h /\ l[b[i]] # None
           S == {k \in 0..H : f[k] = g[k] /\ Early(f[k], k)}
<1>5. \A k \in 0..H : k \in S
  <2>1. 0 \in S  BY <1>1, <1>4, EmptySeq
  <2>2. ASSUME NEW k \in 1..H, k - 1 \in S PROVE k \in S
    <3>1. k \in 1..n /\ k \in 0..H /\ k - 1 \in Day!Span /\ k - 1 < H /\ k - 1 \in 0..n /\ k - 1 < k /\ k - 1 \in Nat
      BY <1>1 DEF n
    <3>2. f[k - 1] = g[k - 1] /\ Early(f[k - 1], k - 1)  BY <2>2
    <3>3. l[k - 1] = m[k - 1]  BY <3>1
    <3>4. f[k] = g[k]  BY <1>4, <3>1, <3>2, <3>3
    <3>5. f[k - 1] \in Seq(Nat)  BY <1>4, <3>1
    <3>6. Len(f[k - 1]) \in Nat /\ \A i \in 1..Len(f[k - 1]) : f[k - 1][i] \in Nat  BY <3>5, LenProperties, ElementOfSeq
    <3>7. Early(f[k - 1], k)  BY <3>1, <3>2, <3>6
    <3>8. CASE l[k - 1] = None
      <4>1. f[k] = f[k - 1]  BY <1>4, <3>1, <3>8
      <4>2. QED BY <3>1, <3>4, <3>7, <4>1
    <3>9. CASE l[k - 1] # None
      <4>1. f[k] = Append(f[k - 1], k - 1)  BY <1>4, <3>1, <3>9
      <4>2. /\ Len(f[k]) = Len(f[k - 1]) + 1
            /\ \A i \in 1..Len(f[k - 1]) : f[k][i] = f[k - 1][i]
            /\ f[k][Len(f[k - 1]) + 1] = k - 1
        BY <3>1, <3>5, <4>1, AppendProperties
      <4>3. Early(f[k], k)  BY <3>1, <3>6, <3>7, <3>9, <4>2, SMTT(30)
      <4>4. QED BY <3>1, <3>4, <4>3
    <3>10. QED BY <3>8, <3>9
  <2> HIDE DEF S
  <2>3. QED BY <1>1, <2>1, <2>2, UpTo, Zenon
<1> DEFINE d == n - (H + 1)
           T == {k \in 0..d : f[H + 1 + k] = f[H + 1] /\ g[H + 1 + k] = g[H + 1]}
<1>6. \A k \in 0..d : k \in T
  <2>1. d \in Nat /\ 0 \in T  BY <1>1
  <2>2. ASSUME NEW k \in 1..d, k - 1 \in T PROVE k \in T
    <3>1. H + 1 + k \in 1..n /\ (H + 1 + k) - 1 = H + 1 + (k - 1) /\ (H + 1 + k) - 1 \in Day!Span /\ (H + 1 + k) - 1 > H
      BY <1>1 DEF n
    <3>2. l[(H + 1 + k) - 1] = None /\ m[(H + 1 + k) - 1] = None  BY <3>1
    <3>3. f[H + 1 + k] = f[(H + 1 + k) - 1] /\ g[H + 1 + k] = g[(H + 1 + k) - 1]  BY <1>4, <3>1, <3>2
    <3>4. QED BY <2>2, <3>1, <3>3
  <2> HIDE DEF T, d
  <2>3. QED BY <2>1, <2>2, UpTo, Zenon
<1>7. f[n] = f[H + 1] /\ g[n] = g[H + 1]
  <2>1. d \in 0..d /\ H + 1 + d = n  BY <1>1
  <2>2. QED BY <1>6, <2>1
<1>8. f[H] = g[H] /\ Early(f[H], H) /\ f[H] \in Seq(Nat)
  <2>1. f[H] \in Seq(Nat) /\ H \in 0..H  BY <1>1, <1>4
  <2>2. H \in S  BY <1>5, <2>1, Zenon
  <2>3. f[H] = g[H] /\ Early(f[H], H)
    <3> HIDE DEF Early
    <3>1. QED BY <2>2
  <2>4. QED BY <2>1, <2>3
<1>9. /\ f[H + 1] = IF l[H] = None THEN f[H] ELSE Append(f[H], H)
      /\ g[H + 1] = IF m[H] = None THEN f[H] ELSE Append(f[H], H)
  <2>1. (H + 1) - 1 = H  BY <1>1
  <2>2. QED BY <1>1, <1>4, <1>8, <2>1, SMTT(30)
<1>10. QED BY <1>2, <1>3, <1>7, <1>8, <1>9

\* What may have been used since the counter was read as v, now that it is c.
SinceRead(v, c) == IF c >= v THEN c - v ELSE c

\* What the points add up to, and what was used since each of them, is no more than there is room for.
Within(P, room, c) ==
  \E f \in [0..Len(P) -> Int] :
    /\ Adds(f, Len(P), Increments(P))
    /\ \A i \in 1..Len(P) : f[i] + SinceRead(P[i].wh, c) <= room

\* The counter moves.
LEMMA CounterMoves ==
  ASSUME NEW P \in Seq(Reading), NEW room \in Nat, NEW c \in Nat, Within(P, room, c),
         NEW more \in Nat, NEW d \in Nat,
         P # <<>> => \A v \in Nat : SinceRead(v, d) <= SinceRead(v, c) + more
  PROVE  Within(P, room + more, d)
<1>1. PICK f \in [0..Len(P) -> Int] :
        /\ Adds(f, Len(P), Increments(P))
        /\ \A i \in 1..Len(P) : f[i] + SinceRead(P[i].wh, c) <= room
  BY DEF Within
<1>2. ASSUME NEW i \in 1..Len(P) PROVE f[i] + SinceRead(P[i].wh, d) <= room + more
  <2>1. P[i].wh \in Nat /\ Len(P) \in Nat  BY IncrementsTyped
  <2>2. P # <<>>  BY <2>1, EmptySeq
  <2>3. SinceRead(P[i].wh, d) <= SinceRead(P[i].wh, c) + more  BY <2>1, <2>2
  <2>4. SinceRead(P[i].wh, d) \in Int /\ SinceRead(P[i].wh, c) \in Int  BY <2>1 DEF SinceRead
  <2>5. f[i] \in Int /\ f[i] + SinceRead(P[i].wh, c) <= room  BY <1>1, <2>1
  <2>6. QED BY <2>3, <2>4, <2>5
<1>3. QED BY <1>1, <1>2 DEF Within

LEMMA SumsBound ==
  ASSUME NEW x \in Int, NEW y \in Int, NEW t \in Int, NEW z \in Int, NEW room \in Nat, NEW more \in Nat,
         x + t <= room, y + z <= t + more
  PROVE  (x + y) + z <= room + more
OBVIOUS

\* The counter is read: a point is added, or the last one is replaced.
LEMMA CounterIsRead ==
  ASSUME NEW P \in Seq(Reading), NEW Q \in Seq(Reading), NEW b \in Nat, b <= Len(P), Len(Q) = b + 1,
         \A i \in 1..b : Q[i].wh = P[i].wh,
         NEW room \in Nat, NEW c \in Nat, Within(P, room, c), NEW more \in Nat,
         SinceRead(Q[b + 1].wh, c) <= more,
         \A w \in Nat : Day!Added(w, Q[b + 1].wh) + SinceRead(Q[b + 1].wh, c) <= SinceRead(w, c) + more
  PROVE  Within(Q, room + more, c)
<1>1. PICK f \in [0..Len(P) -> Int] :
        /\ Adds(f, Len(P), Increments(P))
        /\ \A i \in 1..Len(P) : f[i] + SinceRead(P[i].wh, c) <= room
  BY DEF Within
<1>2. Len(P) \in Nat /\ \A i \in 1..Len(P) : P[i].wh \in Nat  BY IncrementsTyped
<1>3. Len(Q) \in Nat /\ (\A i \in 1..Len(Q) : Q[i].wh \in Nat) /\ Increments(Q) \in [1..Len(Q) -> Int]
  BY IncrementsTyped
<1>4. PICK g \in [0..Len(Q) -> Int] : Adds(g, Len(Q), Increments(Q))  BY <1>3, AddsExists
<1>5. ASSUME NEW i \in 0..b PROVE g[i] = f[i]
  <2>1. i \in Nat /\ i <= Len(P) /\ i <= Len(Q)  BY <1>2
  <2>2. \A k \in 1..i : k \in 1..Len(P) /\ k \in 1..Len(Q) /\ k \in 1..b /\ (k # 1 => k - 1 \in 1..b)  BY <1>2
  <2>3. \A k \in 1..i : Increments(P)[k] = Increments(Q)[k]  BY <2>2 DEF Increments
  <2>4. Len(P) \in Nat /\ Len(Q) \in Nat /\ Adds(f, Len(P), Increments(P)) /\ Adds(g, Len(Q), Increments(Q))
    BY <1>1, <1>2, <1>3, <1>4
  <2> DEFINE n == Len(P)
             m == Len(Q)
             x == Increments(P)
             y == Increments(Q)
  <2>5. n \in Nat /\ m \in Nat /\ i \in Nat /\ i <= n /\ i <= m /\ Adds(f, n, x) /\ Adds(g, m, y)  BY <2>1, <2>4
  <2>6. \A k \in 1..i : x[k] = y[k]  BY <2>3
  <2> HIDE DEF n, m, x, y
  <2>7. \A j \in Nat : j <= n /\ j <= m /\ (\A k \in 1..j : x[k] = y[k]) => f[j] = g[j]
    BY <2>5, AddsAgree, SMTT(30)
  <2>8. QED BY <2>5, <2>6, <2>7
<1>6. ASSUME NEW i \in 1..Len(Q) PROVE g[i] + SinceRead(Q[i].wh, c) <= room + more
  <2>1. CASE i # b + 1
    <3>1. i \in 1..b /\ i \in 0..b /\ i \in 1..Len(P) /\ i \in 0..Len(P)  BY <1>2, <2>1
    <3>2. g[i] = f[i] /\ Q[i].wh = P[i].wh /\ P[i].wh \in Nat /\ f[i] \in Int  BY <1>2, <1>5, <3>1
    <3>3. SinceRead(P[i].wh, c) \in Int  BY <3>2, SMTT(30) DEF SinceRead
    <3>4. f[i] + SinceRead(P[i].wh, c) <= room  BY <1>1, <3>1
    <3>5. QED BY <3>2, <3>3, <3>4, SMTT(30)
  <2>2. CASE i = b + 1
    <3> DEFINE v == Q[b + 1].wh
    <3>1. v \in Nat  BY <1>3, <2>2
    <3>2. SinceRead(v, c) \in Int  BY <3>1 DEF SinceRead
    <3>3. i \in 0..Len(Q) /\ i # 0 /\ i - 1 = b /\ i \in 1..Len(Q)  BY <1>3, <2>2
    <3>4. g[i] = g[b] + Increments(Q)[i]  BY <1>4, <3>3, Zenon DEF Adds
    <3>5. CASE b = 0
      <4>1. Increments(Q)[i] = 0 /\ g[b] = 0  BY <1>3, <1>4, <2>2, <3>3, <3>5 DEF Increments, Adds
      <4>2. g[i] = 0  BY <3>4, <4>1
      <4> HIDE DEF v
      <4>3. SinceRead(v, c) <= more  BY DEF v
      <4>4. QED BY <2>2, <3>2, <4>2, <4>3 DEF v
    <3>6. CASE b # 0
      <4> DEFINE w == P[b].wh
      <4>1. b \in 1..b /\ b \in 0..b /\ b \in 1..Len(P) /\ b \in 0..Len(P)  BY <1>2, <3>6
      <4>2. w \in Nat /\ Q[b].wh = w /\ g[b] = f[b] /\ f[b] \in Int  BY <1>2, <1>5, <4>1
      <4>3. Increments(Q)[i] = Day!Added(w, v)  BY <2>2, <3>3, <3>6, <4>2 DEF Increments
      <4>4. f[b] + SinceRead(w, c) <= room  BY <1>1, <4>1
      <4>5. Day!Added(w, v) + SinceRead(v, c) <= SinceRead(w, c) + more  BY <4>2
      <4> HIDE DEF v, w
      <4>6. Day!Added(w, v) \in Int /\ SinceRead(w, c) \in Int  BY <3>1, <4>2 DEF Day!Added, SinceRead
      <4>7. g[i] = f[b] + Day!Added(w, v)  BY <3>4, <4>2, <4>3
      <4>8. g[i] + SinceRead(v, c) <= room + more  BY <3>2, <4>2, <4>4, <4>5, <4>6, <4>7, SumsBound
      <4>9. QED BY <2>2, <4>8 DEF v
    <3>7. QED BY <3>5, <3>6
  <2>3. QED BY <2>1, <2>2
<1>7. QED BY <1>4, <1>6 DEF Within

\* The hours of the buckets have been read.
LEMMA BucketsRead ==
  ASSUME Day!DayAssumption, NEW l \in Rollups
  PROVE  LET R == Day!Buckets(l) IN
         R \in Seq(Nat) /\ Len(R) \in Nat /\ \A i \in 1..Len(R) : R[i] \in Day!Span /\ l[R[i]] # None
<1> DEFINE H == DayHours
           R == Day!Buckets(l)
<1>1. H \in Nat /\ H \in Day!Span /\ \A h \in Day!Span : ~(h > H)  BY DEF Day!DayAssumption, Day!Span
<1>2. PICK base \in Seq(Nat) :
        /\ \A i \in 1..Len(base) : base[i] \in Day!Span /\ base[i] < H /\ l[base[i]] # None
        /\ Day!Buckets(l) = IF l[H] = None THEN base ELSE Append(base, H)
  <2> HIDE DEF H
  <2>1. QED BY <1>1, BucketsEnd
<1> HIDE DEF R
<1>3. CASE l[H] = None  BY <1>2, <1>3, LenProperties DEF R
<1>4. CASE l[H] # None
  <2> HIDE DEF H
  <2>1. R = Append(base, H)  BY <1>2, <1>4 DEF R
  <2>2. R \in Seq(Nat) /\ Len(R) = Len(base) + 1 /\ Len(base) \in Nat
        /\ (\A i \in 1..Len(base) : R[i] = base[i]) /\ R[Len(base) + 1] = H
    BY <1>1, <2>1, AppendProperties, LenProperties
  <2>3. QED BY <1>1, <1>2, <1>4, <2>2 DEF R
<1>5. QED BY <1>3, <1>4

\* The points of these hours.
PointsAt(R, l) == [i \in DOMAIN R |-> [half |-> 2 * (R[i] % DayHours), wh |-> l[R[i]]]]

LEMMA PointsTyped ==
  ASSUME Day!DayAssumption, NEW l \in Rollups
  PROVE  LET R == Day!Buckets(l)
             P == PointsAt(R, l)
         IN  P \in Seq(Reading) /\ Len(P) = Len(R) /\ \A i \in 1..Len(R) : P[i].wh = l[R[i]]
<1> DEFINE R == Day!Buckets(l)
           P == PointsAt(R, l)
<1>1. R \in Seq(Nat) /\ Len(R) \in Nat /\ \A i \in 1..Len(R) : R[i] \in Day!Span /\ l[R[i]] # None  BY BucketsRead
<1> HIDE DEF R
<1>2. DOMAIN R = 1..Len(R)  BY <1>1, LenProperties
<1>3. ASSUME NEW i \in 1..Len(R) PROVE [half |-> 2 * (R[i] % DayHours), wh |-> l[R[i]]] \in Reading
  <2>1. R[i] \in Nat  BY <1>1 DEF Day!Span
  <2>5. DayHours \in Nat /\ DayHours > 0  BY DEF Day!DayAssumption
  <2>2. R[i] % DayHours \in Nat  BY <2>1, <2>5
  <2>3. l[R[i]] \in Nat  BY <1>1 DEF Rollups
  <2>4. QED BY <2>2, <2>3 DEF Reading
<1>4. P = [i \in 1..Len(R) |-> [half |-> 2 * (R[i] % DayHours), wh |-> l[R[i]]]]  BY <1>2 DEF PointsAt
<1> HIDE DEF P
<1>5. P \in [1..Len(R) -> Reading]  BY <1>3, <1>4
<1>6. P \in Seq(Reading)  BY <1>1, <1>5
<1>7. Len(P) = Len(R)  BY <1>1, <1>4
<1>8. QED BY <1>4, <1>6, <1>7 DEF P, R

DayInv ==
  /\ Day!TypeOK
  /\ \A h \in Day!Span : h > hour => last[h] = None
  /\ Within(PointsAt(Day!Buckets(last), last), after + dips, counter)

LEMMA DayTypes ==
  ASSUME Day!DayAssumption, Day!TypeOK, [Day!Next]_dayVars PROVE Day!TypeOK'
<1> USE DEF Day!TypeOK
<1>1. Day!Span = 0..DayHours /\ DayHours \in Nat /\ MaxUse \in Nat /\ MaxOdd \in Nat  BY DEF Day!Span, Day!DayAssumption
<1>2. CASE Day!Use  BY <1>1, <1>2 DEF Day!Use
<1>3. CASE Day!Sample  BY <1>1, <1>3 DEF Day!Sample
<1>4. CASE Day!SampleLow  BY <1>1, <1>4 DEF Day!SampleLow
<1>5. CASE Day!NextHour  BY <1>1, <1>5 DEF Day!NextHour
<1>6. CASE Day!Reset  BY <1>1, <1>6 DEF Day!Reset
<1>7. CASE UNCHANGED dayVars  BY <1>7 DEF dayVars
<1>8. QED BY <1>2, <1>3, <1>4, <1>5, <1>6, <1>7 DEF Day!Next

\* Nothing is read at the start of the day.
LEMMA DayInitial == ASSUME Day!DayAssumption, Day!Init PROVE DayInv
<1> DEFINE P == PointsAt(Day!Buckets(last), last)
<1>0. Day!TypeOK  BY DEF Day!Init, Day!DayAssumption, Day!Span, Day!TypeOK
<1>1. /\ last \in Rollups /\ after = 0 /\ dips = 0 /\ \A h \in Day!Span : last[h] = None
  BY DEF Day!Init, Day!Span, Rollups
<1>2. Len(Day!Buckets(last)) \in Nat /\ \A i \in 1..Len(Day!Buckets(last)) : FALSE
  <2>1. \A i \in 1..Len(Day!Buckets(last)) : Day!Buckets(last)[i] \in Day!Span /\ last[Day!Buckets(last)[i]] # None
    BY <1>1, BucketsRead
  <2>2. QED BY <1>1, <2>1, BucketsRead
<1>3. Len(P) = 0 /\ P \in Seq(Reading)  BY <1>1, <1>2, PointsTyped
<1> HIDE DEF P
<1>4. Increments(P) \in [1..Len(P) -> Int]  BY <1>3, IncrementsTyped
<1>5. \E f \in [0..Len(P) -> Int] : Adds(f, Len(P), Increments(P))
  <2> DEFINE n == Len(P)
  <2>1. n \in Nat /\ Increments(P) \in [1..n -> Int]  BY <1>3, <1>4
  <2> HIDE DEF n
  <2>2. \E f \in [0..n -> Int] : Adds(f, n, Increments(P))  BY <2>1, AddsExists, Zenon
  <2>3. QED BY <2>2 DEF n
<1>6. Within(P, after + dips, counter)  BY <1>3, <1>5 DEF Within
<1>7. QED BY <1>0, <1>1, <1>6 DEF DayInv, P

\* A reading replaces the last bucket, or adds one.
LEMMA ReadingTaken ==
  ASSUME Day!DayAssumption, DayInv, NEW v \in Nat, NEW more \in Nat,
         SinceRead(v, counter) <= more,
         \A w \in Nat : Day!Added(w, v) + SinceRead(v, counter) <= SinceRead(w, counter) + more
  PROVE  LET l == [last EXCEPT ![hour] = v] IN
         l \in Rollups /\ Within(PointsAt(Day!Buckets(l), l), (after + dips) + more, counter)
<1> DEFINE l == [last EXCEPT ![hour] = v]
           A == Day!Buckets(last)
           B == Day!Buckets(l)
           P == PointsAt(A, last)
           Q == PointsAt(B, l)
<1>1. /\ last \in Rollups /\ hour \in Day!Span /\ counter \in Nat /\ after \in Nat /\ dips \in Nat
      /\ Within(P, after + dips, counter)
  BY DEF DayInv, Day!TypeOK, Rollups, Day!DayAssumption
<1>2. /\ l \in Rollups /\ l[hour] = v /\ v # None
      /\ \A h \in Day!Span : h # hour => l[h] = last[h]
  BY <1>1 DEF Rollups, Day!DayAssumption
<1>3. /\ \A h \in Day!Span : h < hour => last[h] = l[h]
      /\ \A h \in Day!Span : h > hour => last[h] = None /\ l[h] = None
  <2>1. \A h \in Day!Span : h \in Nat  BY DEF Day!Span, Day!DayAssumption
  <2>2. \A h \in Day!Span : h < hour \/ h > hour => h # hour  BY <1>1, <2>1
  <2>3. QED BY <1>2, <2>2 DEF DayInv
<1> HIDE DEF l, A, B
<1>4. PICK base \in Seq(Nat) :
        /\ \A i \in 1..Len(base) : base[i] \in Day!Span /\ base[i] < hour /\ last[base[i]] # None
        /\ A = IF last[hour] = None THEN base ELSE Append(base, hour)
        /\ B = IF l[hour] = None THEN base ELSE Append(base, hour)
  BY <1>1, <1>2, <1>3, BucketsEnd DEF A, B
<1> DEFINE b == Len(base)
<1>5. b \in Nat /\ hour \in Nat  BY <1>1, <1>4, LenProperties DEF Day!Span, Day!DayAssumption
<1>6. Len(B) = b + 1 /\ B[b + 1] = hour /\ \A i \in 1..b : B[i] = base[i]
  BY <1>2, <1>4, <1>5, AppendProperties
<1>7. b <= Len(A) /\ Len(A) \in Nat /\ \A i \in 1..b : A[i] = base[i]
  <2>1. CASE last[hour] = None  BY <1>4, <1>5, <2>1
  <2>2. CASE last[hour] # None
    <3>1. Len(A) = b + 1 /\ \A i \in 1..b : A[i] = base[i]  BY <1>4, <1>5, <2>2, AppendProperties
    <3>2. QED BY <1>5, <3>1
  <2>3. QED BY <2>1, <2>2
<1>8. P \in Seq(Reading) /\ Len(P) = Len(A) /\ \A i \in 1..Len(A) : P[i].wh = last[A[i]]
  BY <1>1, PointsTyped DEF A
<1>9. Q \in Seq(Reading) /\ Len(Q) = Len(B) /\ \A i \in 1..Len(B) : Q[i].wh = l[B[i]]
  BY <1>2, PointsTyped DEF B
<1>10. \A i \in 1..b : Q[i].wh = P[i].wh
  <2>1. \A i \in 1..b : i \in 1..Len(A) /\ i \in 1..Len(B) /\ base[i] \in Day!Span /\ base[i] < hour  BY <1>4, <1>5, <1>6, <1>7
  <2>2. \A i \in 1..b : Q[i].wh = l[base[i]] /\ P[i].wh = last[base[i]]  BY <1>6, <1>7, <1>8, <1>9, <2>1
  <2>3. QED BY <1>3, <2>1, <2>2
<1>11. Q[b + 1].wh = v /\ Len(Q) = b + 1
  <2>1. b + 1 \in 1..Len(B)  BY <1>5, <1>6
  <2>2. QED BY <1>2, <1>6, <1>9, <2>1
<1> HIDE DEF P, Q, b
<1>12. /\ P \in Seq(Reading) /\ Q \in Seq(Reading) /\ b \in Nat /\ b <= Len(P) /\ Len(Q) = b + 1
       /\ \A i \in 1..b : Q[i].wh = P[i].wh
       /\ after + dips \in Nat /\ counter \in Nat /\ Within(P, after + dips, counter)
  BY <1>1, <1>5, <1>7, <1>8, <1>9, <1>10, <1>11 DEF P
<1>13. Within(Q, (after + dips) + more, counter)  BY <1>11, <1>12, CounterIsRead
<1>14. QED BY <1>2, <1>13 DEF Q, B, l

\* Use, when points are there: it may be what was used since each of them.
LEMMA SinceReadGrows == ASSUME NEW v \in Nat, NEW c \in Nat PROVE SinceRead(v, c + 1) <= SinceRead(v, c) + 1
BY DEF SinceRead

\* DayInv is inductive.
LEMMA DayStep ==
  ASSUME Day!DayAssumption, DayInv, [Day!Next]_dayVars PROVE DayInv'
<1> DEFINE P == PointsAt(Day!Buckets(last), last)
           room == after + dips
<1>0. Day!TypeOK'  BY DayTypes DEF DayInv
<1>1. /\ hour \in Day!Span /\ counter \in Nat /\ last \in Rollups /\ after \in Nat /\ dips \in Nat /\ room \in Nat
      /\ \A h \in Day!Span : h > hour => last[h] = None
      /\ Within(P, room, counter)
  BY DEF DayInv, Day!TypeOK, Rollups, Day!DayAssumption
<1>2. P \in Seq(Reading) /\ (P # <<>> => Day!Read)
  <2>1. P \in Seq(Reading) /\ Len(P) = Len(Day!Buckets(last))  BY <1>1, PointsTyped
  <2>2. ASSUME P # <<>> PROVE Day!Read
    <3> DEFINE n == Len(Day!Buckets(last))
    <3>1. n \in Nat /\ n # 0  BY <1>1, <2>1, <2>2, BucketsRead, EmptySeq
    <3>2. 1 \in 1..n  BY <3>1
    <3>3. QED BY <1>1, <3>2, BucketsRead DEF Day!Read
  <2>3. QED BY <2>1, <2>2
<1> HIDE DEF P
<1>3. CASE Day!Use
  <2> DEFINE more == IF Day!Read THEN 1 ELSE 0
  <2>1. /\ UNCHANGED <<hour, last, dips>> /\ counter' = counter + 1 /\ after' = after + more
    <3>1. /\ UNCHANGED <<hour, last, dips>> /\ counter' = counter + 1
          /\ after' = IF Day!Read THEN after + 1 ELSE after
      BY <1>3 DEF Day!Use
    <3>2. QED BY <1>1, <3>1
  <2>2. more \in Nat /\ (P # <<>> => more = 1)  BY <1>2
  <2> HIDE DEF more
  <2>3. P # <<>> => \A v \in Nat : SinceRead(v, counter + 1) <= SinceRead(v, counter) + more
    BY <1>1, <2>2, SinceReadGrows
  <2>4. counter + 1 \in Nat  BY <1>1
  <2>5. Within(P, room + more, counter + 1)
    <3> HIDE DEF room
    <3>1. QED BY <1>1, <1>2, <2>2, <2>3, <2>4, CounterMoves
  <2>6. room' = room + more /\ after' \in Nat  BY <1>1, <2>1, <2>2
  <2>7. P' = P  BY <2>1 DEF P
  <2>8. Within(P', room', counter')  BY <2>1, <2>5, <2>6, <2>7
  <2>9. QED BY <1>0, <1>1, <2>1, <2>8 DEF DayInv, P
<1>4. CASE Day!Reset
  <2>1. /\ UNCHANGED <<hour, last, after, dips>> /\ counter' = 0  BY <1>4 DEF Day!Reset
  <2>2. \A v \in Nat : SinceRead(v, 0) <= SinceRead(v, counter) + 0  BY <1>1 DEF SinceRead
  <2>3. Within(P, room + 0, 0)
    <3> HIDE DEF room
    <3>1. QED BY <1>1, <1>2, <2>2, CounterMoves
  <2>4. Within(P', room', counter')
    <3>1. room' = room + 0 /\ P' = P  BY <1>1, <2>1 DEF P
    <3>2. QED BY <2>1, <2>3, <3>1
  <2>5. QED BY <1>0, <1>1, <2>1, <2>4 DEF DayInv, P
<1> DEFINE Taken(v, more) ==
             LET l == [last EXCEPT ![hour] = v] IN
             l \in Rollups /\ Within(PointsAt(Day!Buckets(l), l), room + more, counter)
<1>5. ASSUME NEW v \in Nat, NEW more \in Nat, Taken(v, more),
             UNCHANGED <<hour, counter, after>>, last' = [last EXCEPT ![hour] = v], dips' = dips + more
      PROVE  DayInv'
  <2>1. last' \in Rollups /\ Within(PointsAt(Day!Buckets(last'), last'), room + more, counter)  BY <1>5
  <2>2. room' = room + more /\ dips' \in Nat  BY <1>1, <1>5
  <2>3. \A h \in Day!Span : h > hour => last'[h] = None
    <3>1. \A h \in Day!Span : h \in Nat  BY DEF Day!Span, Day!DayAssumption
    <3>2. \A h \in Day!Span : h > hour => h # hour  BY <1>1, <3>1
    <3>3. QED BY <1>1, <1>5, <3>2 DEF Rollups
  <2>4. Within(P', room', counter')  BY <1>5, <2>1, <2>2 DEF P
  <2>5. QED BY <1>0, <2>3, <2>4, <1>5 DEF DayInv, P
<1>6. CASE Day!Sample
  <2>1. /\ UNCHANGED <<hour, counter, after>> /\ last' = [last EXCEPT ![hour] = counter] /\ dips' = dips + 0
    BY <1>1, <1>6 DEF Day!Sample
  <2>2. SinceRead(counter, counter) <= 0  BY <1>1 DEF SinceRead
  <2>3. \A w \in Nat : Day!Added(w, counter) + SinceRead(counter, counter) <= SinceRead(w, counter) + 0
    BY <1>1 DEF SinceRead, Day!Added
  <2>4. Taken(counter, 0)  BY <1>1, <2>2, <2>3, ReadingTaken
  <2> HIDE DEF Taken
  <2>5. QED BY <1>1, <1>5, <2>1, <2>4
<1>7. CASE Day!SampleLow
  <2> DEFINE v == counter - 1
  <2>1. /\ UNCHANGED <<hour, counter, after>> /\ last' = [last EXCEPT ![hour] = v] /\ dips' = dips + 1
        /\ counter > 1
    BY <1>7 DEF Day!SampleLow
  <2>2. v \in Nat /\ SinceRead(v, counter) <= 1  BY <1>1, <2>1 DEF SinceRead
  <2>3. \A w \in Nat : Day!Added(w, v) + SinceRead(v, counter) <= SinceRead(w, counter) + 1
    BY <1>1, <2>1 DEF SinceRead, Day!Added
  <2> HIDE DEF v
  <2>4. Taken(v, 1)  BY <1>1, <2>2, <2>3, ReadingTaken
  <2> HIDE DEF Taken
  <2>5. QED BY <1>5, <2>1, <2>2, <2>4
<1>8. CASE Day!NextHour
  <2>1. UNCHANGED <<counter, last, after, dips>> /\ hour < DayHours /\ hour' = hour + 1
    BY <1>8 DEF Day!NextHour
  <2>2. hour' \in Day!Span /\ \A h \in Day!Span : h > hour' => h > hour  BY <1>1, <2>1 DEF Day!Span, Day!DayAssumption
  <2>3. Within(P', room', counter')
    <3>1. P' = P /\ room' = room  BY <2>1 DEF P
    <3>2. QED BY <1>1, <2>1, <3>1
  <2>4. QED BY <1>0, <1>1, <2>1, <2>2, <2>3 DEF DayInv, P
<1>9. CASE UNCHANGED dayVars
  <2>1. UNCHANGED <<hour, counter, last, after, dips>>  BY <1>9 DEF dayVars
  <2>2. QED BY <1>0, <1>1, <2>1 DEF DayInv, P
<1>10. QED BY <1>3, <1>4, <1>6, <1>7, <1>8, <1>9 DEF Day!Next

\* What the increments come to is within what was used.
LEMMA DayIsRight == ASSUME Day!DayAssumption, DayInv PROVE Day!NoInventedEnergy
<1> DEFINE P == PointsAt(Day!Buckets(last), last)
           D == Day!HourlyDeltas(P)
           n == Len(P)
<1>1. Day!Points = P  BY DEF Day!Points, Day!ReadHours, PointsAt
<1>2. last \in Rollups /\ counter \in Nat /\ after \in Nat /\ dips \in Nat /\ Within(P, after + dips, counter)
  BY DEF DayInv, Day!TypeOK, Rollups, Day!DayAssumption
<1>3. P \in Seq(Reading)  BY <1>2, PointsTyped
<1> HIDE DEF P
<1>4. PICK f \in [0..n -> Int] :
        /\ Adds(f, n, Increments(P))
        /\ \A i \in 1..n : f[i] + SinceRead(P[i].wh, counter) <= after + dips
  BY <1>2 DEF Within
<1>5. /\ Day!CounterToWh(P) = f[n]
      /\ Day!Total([i \in 1..Len(D) |-> D[i].wh]) = f[n]
  BY <1>3, <1>4, SumsAgree
<1>6. n \in Nat /\ \A i \in 1..n : P[i].wh \in Nat  BY <1>3, IncrementsTyped
<1> HIDE DEF n
<1>7. f[n] <= after + dips
  <2>1. CASE n = 0
    <3>1. f[n] = 0  BY <1>4, <2>1 DEF Adds
    <3>2. QED BY <1>2, <3>1
  <2>2. CASE n # 0
    <3>1. n \in 1..n /\ n \in 0..n  BY <1>6, <2>2
    <3>2. SinceRead(P[n].wh, counter) \in Nat  BY <1>2, <1>6, <3>1 DEF SinceRead
    <3>3. f[n] \in Int /\ f[n] + SinceRead(P[n].wh, counter) <= after + dips  BY <1>4, <3>1
    <3>4. QED BY <1>2, <3>2, <3>3
  <2>3. QED BY <2>1, <2>2
<1>8. QED BY <1>1, <1>5, <1>7 DEF Day!NoInventedEnergy, D

\* A season's months, first to last or over the new year, are those counted on from its first.
LEMMA SeasonMonths ==
  ASSUME NEW s, s.start \in 1..12, s.end \in 1..12, NEW m \in 1..12
  PROVE  Day!InSeason(s, m) <=> m \in Day!MonthsOf(s)
<1> DEFINE a == s.start
           z == s.end
           n == (z - a) % 12
<1>1. Day!InSeason(s, m) <=> IF a <= z THEN a <= m /\ m <= z ELSE m >= a \/ m <= z  BY DEF Day!InSeason
<1>2. m \in Day!MonthsOf(s) <=> \E i \in 0..n : m = ((a + i - 1) % 12) + 1  BY DEF Day!MonthsOf
<1>3. a \in 1..12 /\ z \in 1..12  OBVIOUS
<1> HIDE DEF a, z
<1>4. n = IF a <= z THEN z - a ELSE z - a + 12  BY <1>3
<1> HIDE DEF n
<1>5. ASSUME NEW i \in 0..n PROVE (a + i - 1) % 12 = IF a + i <= 12 THEN a + i - 1 ELSE a + i - 13
  BY <1>3, <1>4
<1>6. ASSUME IF a <= z THEN a <= m /\ m <= z ELSE m >= a \/ m <= z
      PROVE  \E i \in 0..n : m = ((a + i - 1) % 12) + 1
  <2> DEFINE i == IF m >= a THEN m - a ELSE m - a + 12
  <2>1. i \in 0..n /\ m = IF a + i <= 12 THEN a + i ELSE a + i - 12  BY <1>3, <1>4, <1>6
  <2> HIDE DEF i
  <2>2. (a + i - 1) % 12 = IF a + i <= 12 THEN a + i - 1 ELSE a + i - 13  BY <1>5, <2>1
  <2>3. m = ((a + i - 1) % 12) + 1  BY <1>3, <1>4, <2>1, <2>2
  <2>4. QED BY <2>1, <2>3
<1>7. ASSUME NEW i \in 0..n, m = ((a + i - 1) % 12) + 1
      PROVE  IF a <= z THEN a <= m /\ m <= z ELSE m >= a \/ m <= z
  <2>1. m = IF a + i <= 12 THEN a + i ELSE a + i - 12  BY <1>3, <1>4, <1>5, <1>7
  <2>2. QED BY <1>3, <1>4, <2>1
<1>8. QED BY <1>1, <1>2, <1>6, <1>7

\* So the schedule of the month holds the rate in force.
LEMMA RateOfMonth ==
  ASSUME Day!DayAssumption, prices \in Tariffs, month \in Months, NEW half
  PROVE  Day!RateAt(Day!SchedulesFor(prices, month).import, half) = Day!RateInForce(half)
<1> DEFINE hits == {i \in DOMAIN prices.seasons : Day!InSeason(prices.seasons[i], month)}
           turn == {i \in DOMAIN prices.seasons : month \in Day!MonthsOf(prices.seasons[i])}
<1>1. month \in 1..12 /\ \A i \in DOMAIN prices.seasons : prices.seasons[i].start \in 1..12 /\ prices.seasons[i].end \in 1..12
  BY DEF Day!DayAssumption
<1>2. \A i \in DOMAIN prices.seasons : Day!InSeason(prices.seasons[i], month) <=> month \in Day!MonthsOf(prices.seasons[i])
  BY <1>1, SeasonMonths
<1>3. hits = turn  BY <1>2
<1> HIDE DEF hits, turn
<1>4. Day!RateAt(Day!SchedulesFor(prices, month).import, half)
        = Day!RateAt(Day!Parsed((IF hits = {} THEN prices ELSE prices.seasons[Day!Min(hits)]).import), half)
  BY DEF Day!SchedulesFor, hits
<1>5. Day!RateInForce(half)
        = Day!RateAt(Day!Parsed(IF turn = {} THEN prices.import ELSE prices.seasons[Day!Min(turn)].import), half)
  BY DEF Day!RateInForce, turn
<1>6. QED BY <1>3, <1>4, <1>5

\* What was used until an hour.
LEMMA UsedAdds ==
  ASSUME Day!DayAssumption, Day!TypeOK
  PROVE  /\ \A h \in Day!Span : Day!UsedUntil(h) \in Nat
         /\ \A h \in Day!Span : h # 0 => Day!UsedUntil(h) = Day!UsedUntil(h - 1) + used[h]
<1> DEFINE a(h) == [i \in 1..(h + 1) |-> used[i - 1]]
<1>1. DayHours \in Nat /\ used \in [0..DayHours -> Nat] /\ Day!Span = 0..DayHours
  BY DEF Day!TypeOK, Day!Span, Day!DayAssumption
<1>2. ASSUME NEW h \in 0..DayHours
      PROVE  \E f \in [0..(h + 1) -> Int] : Adds(f, h + 1, a(h)) /\ Day!UsedUntil(h) = f[h + 1]
  <2>1. h + 1 \in Nat  BY <1>1
  <2>2. \A i \in 1..(h + 1) : i - 1 \in 0..DayHours  BY <1>1
  <2>3. a(h) \in [1..(h + 1) -> Int]  BY <1>1, <2>2
  <2>4. Len(a(h)) = h + 1  BY <2>1
  <2>5. Day!UsedUntil(h) = Day!Total(a(h))  BY DEF Day!UsedUntil
  <2> DEFINE s == a(h)
  <2> HIDE DEF s
  <2>6. Len(s) \in Nat /\ s \in [1..Len(s) -> Int] /\ \A k \in 1..Len(s) : s[k] = s[k]  BY <2>1, <2>3, <2>4 DEF s
  <2>7. \E f \in [0..Len(s) -> Int] : Adds(f, Len(s), s) /\ Day!Total(s) = f[Len(s)]  BY <2>6, TotalAdds
  <2>8. QED BY <2>4, <2>5, <2>7 DEF s
<1>3. ASSUME NEW h \in 0..DayHours PROVE Day!UsedUntil(h) \in Int
  <2>1. h + 1 \in 0..(h + 1)  BY <1>1
  <2>2. QED BY <1>2, <2>1
<1>4. ASSUME NEW h \in 0..DayHours, h # 0 PROVE Day!UsedUntil(h) = Day!UsedUntil(h - 1) + used[h]
  <2>1. h - 1 \in 0..DayHours /\ (h - 1) + 1 = h /\ h \in Nat /\ h + 1 \in Nat /\ h <= h + 1
        /\ h + 1 \in 0..(h + 1) /\ h + 1 # 0 /\ (h + 1) - 1 = h /\ h + 1 \in 1..(h + 1)
    BY <1>1, <1>4
  <2>2. PICK f : Adds(f, h + 1, a(h)) /\ Day!UsedUntil(h) = f[h + 1]  BY <1>2
  <2>3. PICK g : Adds(g, h, a(h - 1)) /\ Day!UsedUntil(h - 1) = g[h]  BY <1>2, <2>1
  <2>4. f[h + 1] = f[h] + a(h)[h + 1]  BY <2>1, <2>2 DEF Adds
  <2>5. a(h)[h + 1] = used[h]  BY <2>1
  <2>6. \A k \in 1..h : a(h)[k] = a(h - 1)[k]  BY <2>1
  <2> DEFINE n == h + 1
             x == a(h)
             y == a(h - 1)
  <2>7. n \in Nat /\ h \in Nat /\ h <= n /\ h <= h /\ Adds(f, n, x) /\ Adds(g, h, y) /\ \A k \in 1..h : x[k] = y[k]
    BY <2>1, <2>2, <2>3, <2>6
  <2> HIDE DEF n, x, y
  <2>8. \A j \in Nat : j <= n /\ j <= h /\ (\A k \in 1..j : x[k] = y[k]) => f[j] = g[j]  BY <2>7, AddsAgree, SMTT(30)
  <2>9. f[h] = g[h]  BY <2>7, <2>8
  <2>10. QED BY <2>2, <2>3, <2>4, <2>5, <2>9
<1> DEFINE S == {h \in 0..DayHours : Day!UsedUntil(h) \in Nat}
<1>5. 0 \in S
  <2>1. 0 \in 0..DayHours /\ 0 + 1 = 1 /\ 1 \in 0..1 /\ 0 \in 0..1 /\ 1 - 1 = 0 /\ 1 \in 1..1  BY <1>1
  <2>2. PICK f : Adds(f, 1, a(0)) /\ Day!UsedUntil(0) = f[1]  BY <1>2, <2>1
  <2>3. f[1] = f[0] + a(0)[1] /\ f[0] = 0  BY <2>1, <2>2 DEF Adds
  <2>4. a(0)[1] = used[0]  BY <2>1
  <2>5. QED BY <1>1, <2>1, <2>2, <2>3, <2>4
<1>6. ASSUME NEW h \in 1..DayHours, h - 1 \in S PROVE h \in S
  <2>1. h \in 0..DayHours /\ h # 0  BY <1>1
  <2>2. Day!UsedUntil(h) = Day!UsedUntil(h - 1) + used[h]  BY <1>4, <2>1
  <2>3. Day!UsedUntil(h - 1) \in Nat /\ used[h] \in Nat  BY <1>1, <1>6, <2>1
  <2>4. QED BY <2>1, <2>2, <2>3
<1> HIDE DEF S
<1>7. \A h \in 0..DayHours : h \in S  BY <1>1, <1>5, <1>6, UpTo, Zenon
<1>8. QED BY <1>1, <1>4, <1>7 DEF S

\* When every hour so far was read, the buckets are those hours.
LEMMA BucketsFull ==
  ASSUME Day!DayAssumption, NEW l \in Rollups, NEW H \in Day!Span,
         \A h \in Day!Span : h <= H => l[h] # None,
         \A h \in Day!Span : h > H => l[h] = None
  PROVE  LET R == Day!Buckets(l) IN DOMAIN R = 1..(H + 1) /\ \A i \in 1..(H + 1) : R[i] = i - 1
<1> DEFINE n == DayHours + 1
<1>1. n \in Nat /\ H \in Nat /\ H + 1 \in 0..n /\ Day!Span = 0..(n - 1)  BY DEF Day!DayAssumption, Day!Span
<1>2. PICK f : Gathers(f, l) /\ Day!Buckets(l) = f[n]  BY BucketsGather
<1> HIDE DEF n
<1>3. /\ f \in [0..n -> Seq(Nat)] /\ f[0] = <<>>
      /\ \A k \in 1..n : f[k] = IF l[k - 1] = None THEN f[k - 1] ELSE Append(f[k - 1], k - 1)
  BY <1>2 DEF Gathers, n
<1> DEFINE Full(q, k) == Len(q) = k /\ \A i \in 1..k : q[i] = i - 1
           S == {k \in 0..(H + 1) : Full(f[k], k)}
<1>4. 0 \in S  BY <1>1, <1>3, EmptySeq
<1>5. ASSUME NEW k \in 1..(H + 1), k - 1 \in S PROVE k \in S
  <2>1. k \in 1..n /\ k - 1 \in 0..n /\ k - 1 \in Day!Span /\ k - 1 <= H /\ k \in 0..(H + 1) /\ k - 1 \in Nat  BY <1>1
  <2>2. f[k] = Append(f[k - 1], k - 1) /\ f[k - 1] \in Seq(Nat)  BY <1>3, <2>1
  <2>3. Len(f[k - 1]) = k - 1 /\ \A i \in 1..(k - 1) : f[k - 1][i] = i - 1  BY <1>5
  <2>4. /\ Len(f[k]) = Len(f[k - 1]) + 1
        /\ \A i \in 1..Len(f[k - 1]) : f[k][i] = f[k - 1][i]
        /\ f[k][Len(f[k - 1]) + 1] = k - 1
    BY <2>1, <2>2, AppendProperties
  <2>5. Full(f[k], k)
    <3>1. Len(f[k]) = k /\ f[k][k] = k - 1  BY <2>1, <2>3, <2>4
    <3>2. \A i \in 1..(k - 1) : f[k][i] = i - 1  BY <2>3, <2>4
    <3>3. \A i \in 1..k : i \in 1..(k - 1) \/ i = k  BY <2>1
    <3>4. \A i \in 1..k : f[k][i] = i - 1  BY <3>1, <3>2, <3>3
    <3>5. QED BY <3>1, <3>4
  <2>6. QED BY <2>1, <2>5
<1>6. \A k \in 0..(H + 1) : k \in S
  <2> HIDE DEF S
  <2>1. H + 1 \in Nat  BY <1>1
  <2>2. QED BY <1>4, <1>5, <2>1, UpTo, Zenon
<1>7. Full(f[H + 1], H + 1)
  <2>1. H + 1 \in 0..(H + 1)  BY <1>1
  <2>2. H + 1 \in S  BY <1>6, <2>1, Zenon
  <2> HIDE DEF Full
  <2>3. QED BY <2>2
<1> DEFINE d == n - (H + 1)
           T == {k \in 0..d : f[H + 1 + k] = f[H + 1]}
<1>8. d \in Nat /\ 0 \in T  BY <1>1
<1>9. ASSUME NEW k \in 1..d, k - 1 \in T PROVE k \in T
  <2>1. H + 1 + k \in 1..n /\ (H + 1 + k) - 1 = H + 1 + (k - 1) /\ (H + 1 + k) - 1 \in Day!Span /\ (H + 1 + k) - 1 > H
    BY <1>1
  <2>2. f[H + 1 + k] = f[(H + 1 + k) - 1]  BY <1>3, <2>1
  <2>3. QED BY <1>9, <2>1, <2>2
<1>10. \A k \in 0..d : k \in T
  <2> HIDE DEF T, d
  <2>1. QED BY <1>8, <1>9, UpTo, Zenon
<1>11. f[n] = f[H + 1]
  <2>1. d \in 0..d /\ H + 1 + d = n  BY <1>1
  <2>2. QED BY <1>10, <2>1
<1>12. f[H + 1] \in Seq(Nat)  BY <1>1, <1>3
<1>13. DOMAIN f[H + 1] = 1..(H + 1)  BY <1>7, <1>12, LenProperties
<1>14. QED BY <1>2, <1>7, <1>11, <1>13

\* The day's energy is priced hour by hour.
LEMMA DayIsPriced == ASSUME Day!DayAssumption, DayInv PROVE Day!PricedAtOwnHour
<1> SUFFICES ASSUME hour < DayHours, \A h \in 0..hour : last[h] = start + Day!UsedUntil(h)
             PROVE  Day!Priced = Day!Total([h \in 1..hour |-> used[h] * Day!RateInForce(2 * h)])
  BY DEF Day!PricedAtOwnHour
<1> DEFINE R == Day!Buckets(last)
           P == Day!Points
           D == Day!HourlyDeltas(P)
           sched == Day!SchedulesFor(prices, month).import
<1>1. /\ Day!TypeOK /\ hour \in Nat /\ hour \in Day!Span /\ DayHours \in Nat /\ Day!Span = 0..DayHours /\ start \in Nat
      /\ last \in Rollups /\ used \in [Day!Span -> Nat] /\ prices \in Tariffs /\ month \in Months /\ None \notin Nat
      /\ \A h \in Day!Span : h > hour => last[h] = None
  BY DEF DayInv, Day!TypeOK, Day!Span, Day!DayAssumption, Rollups
<1>2. /\ \A h \in 0..hour : h \in Day!Span /\ Day!UsedUntil(h) \in Nat /\ last[h] = start + Day!UsedUntil(h)
      /\ \A h \in 1..hour : h \in 0..hour /\ h - 1 \in 0..hour /\ Day!UsedUntil(h) = Day!UsedUntil(h - 1) + used[h]
  <2>1. \A h \in 0..hour : h \in Day!Span  BY <1>1
  <2>2. \A h \in 1..hour : h \in 0..hour /\ h - 1 \in 0..hour /\ h # 0  BY <1>1
  <2>3. QED BY <1>1, <2>1, <2>2, UsedAdds
<1>3. ASSUME NEW h \in 0..hour PROVE last[h] \in Nat /\ last[h] # None  BY <1>1, <1>2
<1>4. DOMAIN R = 1..(hour + 1) /\ \A i \in 1..(hour + 1) : R[i] = i - 1
  <2>1. \A h \in Day!Span : h <= hour => last[h] # None
    <3>1. \A h \in Day!Span : h <= hour => h \in 0..hour  BY <1>1
    <3>2. QED BY <1>3, <3>1
  <2>2. QED BY <1>1, <2>1, BucketsFull
<1> HIDE DEF R
<1>5. P = [i \in 1..(hour + 1) |-> [half |-> 2 * (R[i] % DayHours), wh |-> last[R[i]]]]
  BY <1>4 DEF Day!Points, Day!ReadHours, R
<1> HIDE DEF P
<1>6. Len(P) = hour + 1 /\ P # <<>>
  <2>1. Len(P) = hour + 1  BY <1>1, <1>5
  <2>2. QED BY <1>1, <2>1, EmptySeq
<1>7. ASSUME NEW i \in 1..(hour + 1) PROVE P[i].half = 2 * (i - 1) /\ P[i].wh = last[i - 1]
  <2>1. R[i] = i - 1 /\ i - 1 \in 0..(DayHours - 1)  BY <1>1, <1>4
  <2>2. (i - 1) % DayHours = i - 1
    <3> DEFINE k == i - 1
    <3>1. k \in 0..(DayHours - 1) /\ DayHours \in Nat \ {0}  BY <1>1, <2>1
    <3> HIDE DEF k
    <3>2. k % DayHours = k  BY <3>1
    <3>3. QED BY <3>2 DEF k
  <2>3. QED BY <1>5, <2>1, <2>2
<1>8. D = [i \in 1..hour |-> [half |-> P[i + 1].half, wh |-> Day!Added(P[i].wh, P[i + 1].wh)]]
  <2>1. Len(P) - 1 = hour  BY <1>1, <1>6
  <2>2. QED BY <1>6, <2>1 DEF Day!HourlyDeltas
<1> HIDE DEF D
<1>9. Len(D) = hour  BY <1>1, <1>8
<1>10. ASSUME NEW i \in 1..hour PROVE D[i].half = 2 * i /\ D[i].wh = used[i]
  <2>1. i \in 1..(hour + 1) /\ i + 1 \in 1..(hour + 1) /\ (i + 1) - 1 = i /\ i - 1 \in 0..hour /\ i \in 0..hour /\ i \in Day!Span
    BY <1>1
  <2>2. P[i + 1].half = 2 * i /\ P[i].wh = last[i - 1] /\ P[i + 1].wh = last[i]  BY <1>7, <2>1
  <2>3. D[i].half = P[i + 1].half /\ D[i].wh = Day!Added(P[i].wh, P[i + 1].wh)  BY <1>8
  <2>4. last[i] = last[i - 1] + used[i] /\ last[i] \in Nat /\ last[i - 1] \in Nat /\ used[i] \in Nat
    BY <1>1, <1>2, <1>3, <2>1, SMTT(30)
  <2>5. Day!Added(last[i - 1], last[i]) = used[i]  BY <2>4 DEF Day!Added
  <2>6. QED BY <2>2, <2>3, <2>5
<1>11. Day!Priced = Day!Total([i \in 1..Len(D) |-> D[i].wh * Day!RateAt(sched, D[i].half)])
  BY DEF Day!Priced, Day!CostOfDeltas, D, P
<1>12. \A i \in 1..hour : Day!RateAt(sched, 2 * i) = Day!RateInForce(2 * i)  BY <1>1, RateOfMonth
<1> HIDE DEF sched
<1>13. [i \in 1..Len(D) |-> D[i].wh * Day!RateAt(sched, D[i].half)] = [h \in 1..hour |-> used[h] * Day!RateInForce(2 * h)]
  BY <1>9, <1>10, <1>12
<1>14. QED BY <1>11, <1>13

\* Statistics: when every hour so far was read at its end, by a counter without resets and dips, the energy of
\* every hour but the first is priced at the rate of its own hour and season, for any tariff and any use.
THEOREM EnergyIsPriced ==
  /\ Day!Spec => []Day!PricedAtOwnHour
  /\ PartsSpec => []PricedAtOwnHour
<1> DEFINE Inv == part = "day" => DayInv
<1>a. Day!DayAssumption  BY PartsAssumption DEF PartsAssumption
<1>1. Day!Init => DayInv  BY <1>a, DayInitial
<1>2. DayInv /\ [Day!Next]_dayVars => DayInv'  BY <1>a, DayStep
<1>3. DayInv => Day!PricedAtOwnHour  BY <1>a, DayIsPriced
<1>4. PartsInit => Inv  BY <1>1 DEF PartsInit
<1>5. Inv /\ [PartsNext]_vars => Inv'  BY <1>2, OnePartMoves
<1>6. Inv => PricedAtOwnHour  BY <1>3 DEF PricedAtOwnHour
<1> HIDE DEF Inv
<1>7. PartsSpec => []PricedAtOwnHour  BY <1>4, <1>5, <1>6, PTL DEF PartsSpec
<1>8. DayInv /\ [Day!Next]_(Day!vars) => DayInv'  BY <1>2 DEF dayVars, Day!vars
<1>9. Day!Spec => []Day!PricedAtOwnHour  BY <1>1, <1>3, <1>8, PTL DEF Day!Spec
<1>10. QED BY <1>7, <1>9

\* Statistics: whatever the counter does and whenever it is read, its differences come to no more than was
\* used since the first reading, and what a reading is too low; both ways of taking energy from it agree.
THEOREM NoEnergyInvented ==
  /\ Day!Spec => []Day!NoInventedEnergy
  /\ PartsSpec => []NoInventedEnergy
<1> DEFINE Inv == part = "day" => DayInv
<1>a. Day!DayAssumption  BY PartsAssumption DEF PartsAssumption
<1>1. Day!Init => DayInv  BY <1>a, DayInitial
<1>2. DayInv /\ [Day!Next]_dayVars => DayInv'  BY <1>a, DayStep
<1>3. DayInv => Day!NoInventedEnergy  BY <1>a, DayIsRight
<1>4. PartsInit => Inv  BY <1>1 DEF PartsInit
<1>5. Inv /\ [PartsNext]_vars => Inv'  BY <1>2, OnePartMoves
<1>6. Inv => NoInventedEnergy  BY <1>3 DEF NoInventedEnergy
<1> HIDE DEF Inv
<1>7. PartsSpec => []NoInventedEnergy  BY <1>4, <1>5, <1>6, PTL DEF PartsSpec
<1>8. DayInv /\ [Day!Next]_(Day!vars) => DayInv'  BY <1>2 DEF dayVars, Day!vars
<1>9. Day!Spec => []Day!NoInventedEnergy  BY <1>1, <1>3, <1>8, PTL DEF Day!Spec
<1>10. QED BY <1>7, <1>9

--------------------------------------------------------------------------------
(* The planner.                                                            *)

\* What a remainder is.
LEMMA ModSmall == ASSUME NEW w \in Nat \ {0}, NEW r \in 0..(w - 1) PROVE r % w = r
BY SMT

\* On a circle of w hours: to start from the hour of x is to start from x.
LEMMA ModAdds ==
  ASSUME NEW w \in Nat \ {0}, NEW x \in Nat, NEW i \in Nat
  PROVE  ((x % w) + i) % w = (x + i) % w
<1> DEFINE q == x \div w
           r == x % w
           p == (r + i) \div w
           m == (r + i) % w
<1>1. q \in Nat /\ r \in Nat /\ x = w * q + r  BY Quotient
<1> HIDE DEF q, r
<1>2. r + i \in Nat  BY <1>1
<1>3. p \in Nat /\ m \in 0..(w - 1) /\ r + i = w * p + m  BY <1>2, Quotient
<1> HIDE DEF p, m
<1>4. w * (q + p) = w * q + w * p  BY <1>1, <1>3
<1>5. x + i = w * (q + p) + m  BY <1>1, <1>3, <1>4
<1>6. (x + i) % w = m
  <2> DEFINE e == q + p
             y == x + i
  <2>1. e \in Int /\ y = w * e + m  BY <1>1, <1>3, <1>5
  <2> HIDE DEF e, y
  <2>2. y % w = m  BY <1>3, <2>1, IsMod
  <2>3. QED BY <2>2 DEF y
<1>7. QED BY <1>6 DEF m, r

\* The length of an arc, from its ends.
LEMMA ModLength ==
  ASSUME NEW w \in Nat \ {0}, NEW x \in Nat, NEW k \in 1..w
  PROVE  (((x + k) % w) - (x % w) - 1) % w = k - 1
<1> DEFINE q == x \div w
           r == x % w
           y == x + k
           p == y \div w
           m == y % w
<1>1. q \in Nat /\ r \in Nat /\ x = w * q + r  BY Quotient
<1>2. y \in Nat  OBVIOUS
<1> HIDE DEF y
<1>8. p \in Nat /\ m \in Nat /\ y = w * p + m  BY <1>2, Quotient
<1>3. p \in Nat /\ m \in Nat /\ x + k = w * p + m  BY <1>8 DEF y
<1> HIDE DEF q, r, p, m
<1>4. w * (q - p) = w * q - w * p  BY <1>1, <1>3
<1>5. m - r - 1 = w * (q - p) + (k - 1)  BY <1>1, <1>3, <1>4
<1>6. (m - r - 1) % w = k - 1
  <2>1. k - 1 \in 0..(w - 1) /\ q - p \in Int  BY <1>1, <1>3
  <2>2. QED BY <1>5, <2>1, IsMod
<1>7. QED BY <1>6 DEF m, r, y

\* Hours of less than a whole turn are different hours.
LEMMA ModDiffers ==
  ASSUME NEW w \in Nat \ {0}, NEW s \in Nat, NEW i \in 0..(w - 1), NEW j \in 0..(w - 1)
  PROVE  (s + i) % w = (s + j) % w => i = j
<1> DEFINE x == s + i
           y == s + j
           q == x \div w
           p == y \div w
           m == x % w
           l == y % w
<1>1. x \in Nat /\ y \in Nat  OBVIOUS
<1> HIDE DEF x, y
<1>2. q \in Nat /\ m \in Nat /\ x = w * q + m  BY <1>1, Quotient
<1>3. p \in Nat /\ l \in Nat /\ y = w * p + l  BY <1>1, Quotient
<1> HIDE DEF q, p, m, l
<1>4. SUFFICES ASSUME m = l PROVE i = j  BY DEF m, l, x, y
<1>5. i - j = w * (q - p)
  <2>1. w * (q - p) = w * q - w * p  BY <1>2, <1>3
  <2>2. x - y = i - j  BY DEF x, y
  <2>3. QED BY <1>1, <1>2, <1>3, <1>4, <2>1, <2>2
<1> DEFINE d == q - p
<1>6. d \in Int /\ w * d > -w /\ w * d < w  BY <1>2, <1>3, <1>5
<1> HIDE DEF d
<1>7. d = 0
  <2>1. d >= 1 => w * d >= w  BY <1>6
  <2>2. d <= -1 => w * d <= -w  BY <1>6
  <2>3. QED BY <1>6, <2>1, <2>2
<1>8. QED BY <1>5, <1>7 DEF d

\* Every hour comes in a turn that starts anywhere.
LEMMA ModComes ==
  ASSUME NEW w \in Nat \ {0}, NEW x \in Nat, NEW b \in 0..(w - 1)
  PROVE  \E y \in x..(x + w - 1) : y % w = b
<1> DEFINE q == x \div w
           r == x % w
<1>1. q \in Nat /\ r \in 0..(w - 1) /\ x = w * q + r  BY Quotient
<1> HIDE DEF q, r
<1>2. CASE b >= r
  <2> DEFINE y == x + (b - r)
  <2>1. y \in x..(x + w - 1) /\ y = w * q + b  BY <1>1, <1>2
  <2> HIDE DEF y
  <2>2. y % w = b  BY <1>1, <2>1, IsMod
  <2>3. QED BY <2>1, <2>2
<1>3. CASE b < r
  <2>1. w * (q + 1) = w * q + w  BY <1>1
  <2> DEFINE y == x + (b - r) + w
             e == q + 1
  <2>2. y \in x..(x + w - 1) /\ y = w * e + b /\ e \in Int  BY <1>1, <1>3, <2>1
  <2> HIDE DEF y, e
  <2>3. y % w = b  BY <2>2, IsMod
  <2>4. QED BY <2>2, <2>3
<1>4. QED BY <1>1, <1>2, <1>3

\* Numbers that are bounded have a greatest one.
LEMMA Greatest ==
  ASSUME NEW n \in Nat, NEW S \in SUBSET (0..n), S # {}
  PROVE  \E m \in S : \A k \in S : k <= m
<1> DEFINE T == {n - k : k \in S}
<1>0. \A k \in S : n - k \in Nat /\ k \in Nat  OBVIOUS
<1>1. T \in SUBSET Nat /\ T # {}  BY <1>0
<1>2. PICK t \in T : \A u \in T : t <= u
  <2> HIDE DEF T
  <2>1. QED BY <1>1, Least
<1>3. PICK m \in S : t = n - m  BY <1>2
<1>4. ASSUME NEW k \in S PROVE k <= m
  <2>1. n - m <= n - k  BY <1>2, <1>3
  <2>2. QED BY <1>0, <2>1
<1>5. QED BY <1>4

\* An arc of hours has as many as it is long.
Arc(w, s, n) == {(s + i) % w : i \in 0..n}

LEMMA ArcSize ==
  ASSUME NEW w \in Nat \ {0}, NEW s \in Nat, NEW n \in 0..(w - 1)
  PROVE  Planner!Cardinality(Arc(w, s, n)) = n + 1
<1> DEFINE f == [i \in 0..n |-> (s + i) % w]
           A == Arc(w, s, n)
<1>1. f \in [0..n -> A] /\ \A a \in A : \E i \in 0..n : f[i] = a  BY DEF Arc
<1>2. \A i, j \in 0..n : f[i] = f[j] => i = j
  <2>1. ASSUME NEW i \in 0..n, NEW j \in 0..n PROVE f[i] = f[j] => i = j
    <3>1. i \in 0..(w - 1) /\ j \in 0..(w - 1)  OBVIOUS
    <3>2. (s + i) % w = (s + j) % w => i = j  BY <3>1, ModDiffers
    <3>3. QED BY <3>2
  <2>2. QED BY <2>1
<1> HIDE DEF f, A
<1>3. f \in Bijection(0..n, A)  BY <1>1, <1>2 DEF Bijection, Injection, Surjection, IsInjective
<1>4. ExistsBijection(0..n, A)  BY <1>3 DEF ExistsBijection
<1>5. IsFiniteSet(0..n) /\ Cardinality(0..n) = n + 1  BY FS_Interval
<1>6. Cardinality(A) = n + 1  BY <1>4, <1>5, FS_Bijection
<1>7. Planner!Cardinality(A) = Cardinality(A)  BY DEF Planner!Cardinality, Cardinality
<1>8. QED BY <1>6, <1>7 DEF A

\* The hours of the target rate on the doubled day.
At(rates, target, h) == rates[h % Hours] = target

\* A stretch on the doubled day lies in one of the runs.
LEMMA RunHolds ==
  ASSUME Hours \in Nat \ {0}, NEW rates, NEW target, NEW s \in Nat, NEW n \in Nat \ {0}, s + n <= 2 * Hours,
         \A h \in s..(s + n - 1) : rates[h % Hours] = target
  PROVE  \E r \in Planner!Runs(rates, target, 2 * Hours) : r[1] <= s /\ n <= r[2]
<1> DEFINE at(h) == rates[h % Hours] = target
           B == {b \in 0..s : \A h \in b..(s - 1) : at(h)}
           E == {e \in (s + n)..(2 * Hours) : \A h \in s..(e - 1) : at(h)}
<1>1. Hours \in Nat /\ 2 * Hours \in Nat  OBVIOUS
<1> DEFINE W == 2 * Hours
<1> HIDE DEF W
<1>2. W \in Nat /\ s + n <= W  BY <1>1 DEF W
<1> HIDE DEF at
<1>3. PICK b \in B : \A c \in B : b <= c
  <2>1. s \in B /\ B \in SUBSET Nat  OBVIOUS
  <2> HIDE DEF B
  <2>2. QED BY <2>1, Least
<1>4. PICK e \in E : \A c \in E : c <= e
  <2>1. s + n \in E  BY <1>2 DEF at, W
  <2>2. E \in SUBSET (0..W)  BY <1>2 DEF W
  <2> HIDE DEF E
  <2>3. QED BY <1>2, <2>1, <2>2, Greatest
<1>5. b \in Nat /\ b <= s /\ e \in Nat /\ s + n <= e /\ e <= W  BY <1>2 DEF W
<1>6. \A h \in b..(e - 1) : at(h)
  <2>1. \A h \in b..(e - 1) : h \in b..(s - 1) \/ h \in s..(e - 1)  BY <1>5
  <2>2. QED BY <2>1
<1>7. b > 0 => ~at(b - 1)
  <2>1. SUFFICES ASSUME b > 0, at(b - 1) PROVE FALSE  OBVIOUS
  <2>2. b - 1 \in 0..s  BY <1>5, <2>1
  <2>3. \A h \in (b - 1)..(s - 1) : h = b - 1 \/ h \in b..(s - 1)  BY <1>5, <2>1
  <2>4. b - 1 \in B  BY <2>1, <2>2, <2>3
  <2>5. b <= b - 1  BY <1>3, <2>4
  <2>6. QED BY <1>5, <2>5
<1>8. e < W => ~at(e)
  <2>1. SUFFICES ASSUME e < W, at(e) PROVE FALSE  OBVIOUS
  <2>2. e + 1 \in (s + n)..W  BY <1>2, <1>5, <2>1
  <2>3. \A h \in s..((e + 1) - 1) : h = e \/ h \in s..(e - 1)  BY <1>5, <2>1
  <2>4. e + 1 \in E  BY <2>1, <2>2, <2>3 DEF W
  <2>5. e + 1 <= e  BY <1>4, <2>4
  <2>6. QED BY <1>5, <2>5
<1> DEFINE r == <<b, e - b>>
<1>9. r \in (0..(W - 1)) \X (1..W) /\ r[1] = b /\ r[2] = e - b /\ r[1] + r[2] = e  BY <1>2, <1>5
<1> HIDE DEF r
<1>10. \A h \in r[1]..(r[1] + r[2] - 1) : at(h)  BY <1>6, <1>9
<1>11. (r[1] > 0 => ~at(r[1] - 1)) /\ (r[1] + r[2] < W => ~at(r[1] + r[2])) /\ r[1] + r[2] <= W
  BY <1>5, <1>7, <1>8, <1>9
<1>12. r \in Planner!Runs(rates, target, W)  BY <1>9, <1>10, <1>11 DEF Planner!Runs, at
<1>13. r[1] <= s /\ n <= r[2]  BY <1>5, <1>9
<1>14. QED BY <1>12, <1>13 DEF W

\* The longest of some runs.
LEMMA LongestRun ==
  ASSUME NEW W \in Nat, NEW L, L # {}, \A r \in L : r[1] \in 0..W /\ r[2] \in 0..W
  PROVE  Planner!Longest(L) \in L /\ \A q \in L : q[2] <= Planner!Longest(L)[2]
<1> DEFINE lengths == {r[2] : r \in L}
<1>1. PICK n \in lengths : \A k \in lengths : k <= n
  <2>1. lengths \in SUBSET (0..W) /\ lengths # {}  OBVIOUS
  <2> HIDE DEF lengths
  <2>2. QED BY <2>1, Greatest
<1>2. n \in Nat /\ \A r \in L : r[2] <= n  BY <1>1
<1> DEFINE begins == {r[1] : r \in {q \in L : q[2] = n}}
<1>3. PICK b \in begins : \A k \in begins : b <= k
  <2>1. begins \in SUBSET Nat /\ begins # {}  BY <1>1
  <2> HIDE DEF begins
  <2>2. QED BY <2>1, Least
<1>4. PICK r \in L : r[2] = n /\ r[1] = b  BY <1>3
<1> DEFINE First(p) == \A q \in L : q[2] < p[2] \/ (q[2] = p[2] /\ q[1] >= p[1])
<1>5. First(r)
  <2>1. ASSUME NEW q \in L PROVE q[2] < n \/ (q[2] = n /\ q[1] >= b)
    <3>1. q[2] <= n /\ q[2] \in Nat /\ q[1] \in Nat  BY <1>2
    <3>2. q[2] = n => b <= q[1]  BY <1>3
    <3>3. QED BY <1>2, <1>4, <3>1, <3>2
  <2>2. QED BY <1>4, <2>1
<1> DEFINE best == CHOOSE p \in L : First(p)
<1>6. best \in L /\ First(best)  BY <1>5
<1>7. Planner!Longest(L) = best  BY DEF Planner!Longest
<1> HIDE DEF best
<1>8. \A q \in L : q[2] <= best[2]
  <2>1. \A q \in L : q[2] \in Nat  OBVIOUS
  <2>2. QED BY <1>6, <2>1
<1>9. QED BY <1>6, <1>7, <1>8

LEMMA StretchIsArc ==
  ASSUME NEW rates, NEW target
  PROVE  Planner!Stretches(rates, target)
           = {H \in {Arc(Hours, s, n) : s \in Planner!Day, n \in Planner!Day} : \A h \in H : rates[h] = target}
BY DEF Planner!Stretches, Arc

\* The window around the hours of a rate, of which the day has some and not only such, holds a stretch of
\* them, and the longest.
LEMMA WindowIsLongest ==
  ASSUME Hours \in Nat \ {0}, NEW rates, NEW target,
         NEW a \in Planner!Day, rates[a] = target, NEW z \in Planner!Day, rates[z] # target
  PROVE  LET w == Planner!WindowAround(rates, target) IN
         /\ Planner!HoursOf(w) \in Planner!Stretches(rates, target)
         /\ \A H \in Planner!Stretches(rates, target) :
              Planner!Cardinality(H) <= Planner!Cardinality(Planner!HoursOf(w))
<1> DEFINE L == Planner!Runs(rates, target, 2 * Hours)
           w == Planner!WindowAround(rates, target)
<1>1. /\ Hours \in Nat /\ Hours > 0 /\ a \in 0..(Hours - 1) /\ z \in 0..(Hours - 1) /\ Planner!Day = 0..(Hours - 1)
      /\ 2 * Hours \in Nat
  BY DEF Planner!Day
<1>2. ASSUME NEW r \in L
      PROVE  /\ r[1] \in 0..(2 * Hours - 1) /\ r[2] \in 1..(2 * Hours)
             /\ \A h \in r[1]..(r[1] + r[2] - 1) : rates[h % Hours] = target
  BY DEF Planner!Runs
<1>3. ASSUME NEW r \in L PROVE r[2] < Hours
  <2>1. r[1] \in Nat /\ r[2] \in Nat  BY <1>2
  <2>2. PICK y \in r[1]..(r[1] + Hours - 1) : y % Hours = z  BY <1>1, <2>1, ModComes
  <2>3. rates[y % Hours] # target  BY <2>2
  <2>4. y \notin r[1]..(r[1] + r[2] - 1)  BY <1>2, <2>3
  <2>5. QED BY <1>1, <2>1, <2>2, <2>4, SMTT(30)
<1>4. L # {}
  <2>1. \A h \in a..(a + 1 - 1) : h = a  BY <1>1
  <2>2. a % Hours = a  BY <1>1, ModSmall
  <2>3. \A h \in a..(a + 1 - 1) : rates[h % Hours] = target  BY <2>1, <2>2
  <2>4. a \in Nat /\ 1 \in Nat \ {0} /\ a + 1 <= 2 * Hours  BY <1>1
  <2>5. \E r \in L : r[1] <= a /\ 1 <= r[2]  BY <2>3, <2>4, RunHolds
  <2>6. QED BY <2>5
<1> DEFINE r == Planner!Longest(L)
<1>5. r \in L /\ \A q \in L : q[2] <= r[2]
  <2>1. \A q \in L : q[1] \in 0..(2 * Hours) /\ q[2] \in 0..(2 * Hours)  BY <1>1, <1>2
  <2> HIDE DEF L
  <2>2. QED BY <1>1, <1>4, <2>1, LongestRun
<1>6. w = [start |-> r[1] % Hours, end |-> (r[1] + r[2]) % Hours]
  <2>1. {q \in L : q[2] <= Hours} = L  BY <1>1, <1>2, <1>3
  <2> HIDE DEF L
  <2>2. QED BY <1>4, <2>1 DEF Planner!WindowAround, L
<1> HIDE DEF L, w, r
<1>7. r[1] \in Nat /\ r[2] \in 1..(Hours - 1) /\ \A h \in r[1]..(r[1] + r[2] - 1) : rates[h % Hours] = target
  <2>1. /\ r[1] \in 0..(2 * Hours - 1) /\ r[2] \in 1..(2 * Hours)
        /\ \A h \in r[1]..(r[1] + r[2] - 1) : rates[h % Hours] = target
    BY <1>2, <1>5
  <2>2. r[2] < Hours  BY <1>3, <1>5
  <2>3. QED BY <1>1, <2>1, <2>2
<1> DEFINE b == r[1] % Hours
           n == r[2] - 1
<1>8. b \in Planner!Day /\ n \in Planner!Day /\ b \in Nat /\ n \in 0..(Hours - 1)
  <2>1. b \in 0..(Hours - 1)
    <3> DEFINE x == r[1]
    <3>1. x \in Nat  BY <1>7
    <3> HIDE DEF x
    <3>2. x % Hours \in 0..(Hours - 1)  BY <3>1, Quotient
    <3>3. QED BY <3>2 DEF x
  <2> HIDE DEF b
  <2>2. QED BY <1>1, <1>7, <2>1
<1>9. Planner!HoursOf(w) = Arc(Hours, b, n)
  <2>1. w.start = b /\ w.end = (r[1] + r[2]) % Hours  BY <1>6
  <2>2. (w.end - w.start - 1) % Hours = n
    <3> DEFINE x == r[1]
               k == r[2]
    <3>1. x \in Nat /\ k \in 1..Hours  BY <1>1, <1>7
    <3>2. w.start = x % Hours /\ w.end = (x + k) % Hours  BY <1>6
    <3> HIDE DEF x, k
    <3>3. (((x + k) % Hours) - (x % Hours) - 1) % Hours = k - 1  BY <3>1, ModLength
    <3>4. QED BY <3>2, <3>3 DEF x, k
  <2> HIDE DEF b, n
  <2>3. QED BY <2>1, <2>2 DEF Planner!HoursOf, Arc
<1>10. \A h \in Arc(Hours, b, n) : rates[h] = target
  <2>1. ASSUME NEW i \in 0..n PROVE rates[(b + i) % Hours] = target
    <3> DEFINE x == r[1]
    <3>1. x \in Nat /\ i \in Nat  BY <1>7
    <3>2. x + i \in r[1]..(r[1] + r[2] - 1)  BY <1>7
    <3>3. rates[(x + i) % Hours] = target  BY <1>7, <3>2
    <3> HIDE DEF x
    <3>4. ((x % Hours) + i) % Hours = (x + i) % Hours  BY <3>1, ModAdds
    <3>5. QED BY <3>3, <3>4 DEF x
  <2>2. QED BY <2>1 DEF Arc
<1> HIDE DEF b
<1>11. Planner!Cardinality(Arc(Hours, b, n)) = r[2]
  <2> DEFINE m == n
  <2>1. m \in 0..(Hours - 1) /\ m + 1 = r[2]  BY <1>7, <1>8
  <2> HIDE DEF m
  <2>2. Planner!Cardinality(Arc(Hours, b, m)) = m + 1  BY <1>8, <2>1, ArcSize
  <2>3. QED BY <2>1, <2>2 DEF m
<1> HIDE DEF n
<1>12. Planner!HoursOf(w) \in Planner!Stretches(rates, target)
  <2>1. Arc(Hours, b, n) \in {Arc(Hours, s, k) : s \in Planner!Day, k \in Planner!Day}
    <3>1. ASSUME NEW p \in Planner!Day, NEW q \in Planner!Day
          PROVE  Arc(Hours, p, q) \in {Arc(Hours, s, k) : s \in Planner!Day, k \in Planner!Day}
      OBVIOUS
    <3>2. QED BY <1>8, <3>1
  <2>2. \A h \in Planner!HoursOf(w) : rates[h] = target  BY <1>9, <1>10
  <2>3. Planner!HoursOf(w) \in {Arc(Hours, s, k) : s \in Planner!Day, k \in Planner!Day}  BY <1>9, <2>1
  <2>4. QED BY <2>2, <2>3, StretchIsArc
<1>13. ASSUME NEW H \in Planner!Stretches(rates, target) PROVE Planner!Cardinality(H) <= r[2]
  <2>1. PICK s \in Planner!Day, m \in Planner!Day : H = {(s + i) % Hours : i \in 0..m}  BY DEF Planner!Stretches
  <2>2. \A h \in H : rates[h] = target  BY DEF Planner!Stretches
  <2>3. s \in Nat /\ m \in 0..(Hours - 1) /\ m + 1 \in Nat \ {0} /\ s + (m + 1) <= 2 * Hours  BY <1>1
  <2>4. ASSUME NEW h \in s..(s + (m + 1) - 1) PROVE rates[h % Hours] = target
    <3>1. h - s \in 0..m /\ s + (h - s) = h  BY <2>3
    <3>2. h % Hours \in H  BY <2>1, <3>1
    <3>3. QED BY <2>2, <3>2
  <2> DEFINE k == m + 1
  <2>5. k \in Nat \ {0} /\ s + k <= 2 * Hours /\ \A h \in s..(s + k - 1) : rates[h % Hours] = target  BY <2>3, <2>4
  <2> HIDE DEF k
  <2>6. PICK q \in Planner!Runs(rates, target, 2 * Hours) : k <= q[2]  BY <2>3, <2>5, RunHolds
  <2>7. q[2] <= r[2] /\ q[2] \in Nat  BY <1>2, <1>5, <2>6 DEF L
  <2>8. Planner!Cardinality(H) = k  BY <2>1, <2>3, ArcSize DEF Arc, k
  <2>9. QED BY <1>7, <2>5, <2>6, <2>7, <2>8
<1>14. QED BY <1>9, <1>11, <1>12, <1>13 DEF w

--------------------------------------------------------------------------------
\* A plan is the one for the slots as they are.
PlanInv ==
  /\ tariff \in [flat : {Flat}, windows : Seq(Windows)]
  /\ slots = [i \in {0, 1} |-> slots[i]]
  /\ plan # None => plan.changes = Planner!PlanTimer(slots, plan.tariff, plan.outlook)

LEMMA PlanInitial == ASSUME Planner!Init PROVE PlanInv
<1>1. slots = [i \in {0, 1} |-> slots[i]]  BY DEF Planner!Init
<1>2. plan = None /\ tariff = [flat |-> Flat, windows |-> <<>>]  BY DEF Planner!Init
<1>3. <<>> \in Seq(Windows)  BY EmptySeq
<1>4. QED BY <1>1, <1>2, <1>3 DEF PlanInv

LEMMA PlanStep == ASSUME PlanInv, [Planner!Next]_plannerVars PROVE PlanInv'
<1> USE DEF PlanInv
<1>1. CASE Planner!EditTariff
  <2>1. UNCHANGED <<slots, plan>>  BY <1>1 DEF Planner!EditTariff
  <2>2. PICK w \in Windows : tariff' = [tariff EXCEPT !.windows = Append(@, w)]  BY <1>1 DEF Planner!EditTariff
  <2>3. Append(tariff.windows, w) \in Seq(Windows)  BY AppendProperties
  <2>4. QED BY <2>1, <2>2, <2>3
<1>2. CASE Planner!Forecast  BY <1>2 DEF Planner!Forecast
<1>3. CASE Planner!Plan
  <2>1. slots' = slots /\ tariff' = tariff /\ plan' = [changes |-> Planner!PlanTimer(slots, tariff, outlook), tariff |-> tariff, outlook |-> outlook]
    BY <1>3 DEF Planner!Plan
  <2>2. plan'.changes = Planner!PlanTimer(slots', plan'.tariff, plan'.outlook)  BY <2>1
  <2>3. QED BY <2>1, <2>2
<1>4. CASE Planner!Apply
  <2>1. plan' = None /\ tariff' = tariff /\ slots' = [i \in {0, 1} |-> IF i \in DOMAIN plan.changes THEN plan.changes[i] ELSE slots[i]]
    BY <1>4 DEF Planner!Apply
  <2>2. slots' = [i \in {0, 1} |-> slots'[i]]  BY <2>1
  <2>3. QED BY <2>1, <2>2
<1>5. CASE UNCHANGED plannerVars  BY <1>5 DEF plannerVars
<1>6. QED BY <1>1, <1>2, <1>3, <1>4, <1>5 DEF Planner!Next

\* Once the changes are made there are none left.
LEMMA PlanApplied ==
  ASSUME PlanInv, Planner!Apply, plan.tariff = tariff, plan.outlook = outlook
  PROVE  Planner!PlanTimer(slots', tariff, outlook) = Planner!Nothing
<1> DEFINE wantedSlots == Planner!WantedSlots(tariff, Planner!TargetSoc(outlook))
           Same(s) == Planner!PlanTimer(s, tariff, outlook)
<1>1. (\A s : Same(s) = Planner!Nothing) \/ (\A s : Same(s) = Planner!SlotChanges(s, wantedSlots))
  BY DEF Planner!PlanTimer
<1>2. /\ plan.changes = Same(slots)
      /\ slots' = [i \in {0, 1} |-> IF i \in DOMAIN plan.changes THEN plan.changes[i] ELSE slots[i]]
  BY DEF PlanInv, Planner!Apply
<1> HIDE DEF wantedSlots, Same
<1>3. CASE \A s : Same(s) = Planner!Nothing  BY <1>3 DEF Same
<1>4. CASE \A s : Same(s) = Planner!SlotChanges(s, wantedSlots)
  <2>1. plan.changes = [i \in {j \in {0, 1} : slots[j] # wantedSlots[j]} |-> wantedSlots[i]]
    BY <1>2, <1>4 DEF Planner!SlotChanges
  <2>2. \A j \in {0, 1} : slots'[j] = wantedSlots[j]  BY <1>2, <2>1
  <2>3. {j \in {0, 1} : slots'[j] # wantedSlots[j]} = {}  BY <2>2
  <2>4. Planner!SlotChanges(slots', wantedSlots) = [i \in {} |-> wantedSlots[i]]  BY <2>3 DEF Planner!SlotChanges
  <2>5. QED BY <1>4, <2>4 DEF Planner!Nothing, Same
<1>5. QED BY <1>1, <1>3, <1>4

\* plan_timer: a plan that has been carried out is not proposed again while tariff and outlook stay the same,
\* for any tariff, outlook, battery and strategy.
THEOREM PlansSettle ==
  /\ Planner!Spec => Planner!PlanSettles
  /\ PartsSpec => PlanSettles
<1> DEFINE Settles == (Planner!Apply /\ plan.tariff = tariff /\ plan.outlook = outlook)
                        => Planner!PlanTimer(slots', tariff, outlook) = Planner!Nothing
<1>1. Planner!Init => PlanInv  BY PlanInitial
<1>2. PlanInv /\ [Planner!Next]_plannerVars => PlanInv'  BY PlanStep
<1>3. PlanInv => [Settles]_(Planner!vars)  BY PlanApplied
<1>4. PartsInit => PlanInv  BY <1>1 DEF PartsInit
<1>5. PlanInv /\ [PartsNext]_vars => PlanInv'  BY <1>2, OnePartMoves
<1>6. PlanInv /\ [Planner!Next]_(Planner!vars) => PlanInv'  BY <1>2 DEF plannerVars, Planner!vars
<1>7. PartsSpec => Planner!PlanSettles  BY <1>3, <1>4, <1>5, PTL DEF PartsSpec, Planner!PlanSettles
<1>8. Planner!Spec => Planner!PlanSettles  BY <1>1, <1>3, <1>6, PTL DEF Planner!Spec, Planner!PlanSettles
<1>9. QED BY <1>7, <1>8 DEF PlanSettles

\* Whole numbers that are counted have a least and a greatest.
LEMMA Extremes ==
  ASSUME NEW n \in Nat, NEW f \in [0..n -> Int]
  PROVE  \E lo \in 0..n, hi \in 0..n : \A k \in 0..n : f[lo] <= f[k] /\ f[k] <= f[hi]
<1> DEFINE S == {k \in 0..n : \E lo \in 0..k, hi \in 0..k : \A j \in 0..k : f[lo] <= f[j] /\ f[j] <= f[hi]}
<1>1. 0 \in S  OBVIOUS
<1>2. ASSUME NEW k \in 1..n, k - 1 \in S PROVE k \in S
  <2>1. PICK lo \in 0..(k - 1), hi \in 0..(k - 1) : \A j \in 0..(k - 1) : f[lo] <= f[j] /\ f[j] <= f[hi]  BY <1>2
  <2>2. \A j \in 0..k : j \in 0..(k - 1) \/ j = k  OBVIOUS
  <2>3. k \in 0..n /\ k \in 0..k /\ lo \in 0..k /\ hi \in 0..k /\ lo \in 0..n /\ hi \in 0..n /\ \A j \in 0..k : f[j] \in Int
    OBVIOUS
  <2> DEFINE m == IF f[k] < f[lo] THEN k ELSE lo
             l == IF f[k] > f[hi] THEN k ELSE hi
  <2>4. \A j \in 0..k : f[m] <= f[j] /\ f[j] <= f[l]  BY <2>1, <2>2, <2>3
  <2>5. m \in 0..k /\ l \in 0..k  BY <2>3
  <2> HIDE DEF m, l
  <2>6. QED BY <2>3, <2>4, <2>5
<1>3. \A k \in 0..n : k \in S
  <2> HIDE DEF S
  <2>1. QED BY <1>1, <1>2, UpTo, Zenon
<1>4. n \in 0..n  OBVIOUS
<1>5. n \in S  BY <1>3, <1>4
<1>6. QED BY <1>5

\* A rate is that of a window, or the flat one.
LEMMA RatesTyped ==
  ASSUME Planner!PlannerAssumption, PlanInv, NEW half
  PROVE  Planner!RateAt(tariff, half) \in Int
<1> DEFINE hits == {i \in DOMAIN tariff.windows : Planner!InWindow(tariff.windows[i], half)}
<1>1. tariff.flat \in Int /\ tariff.windows \in Seq(Windows)  BY DEF PlanInv, Planner!PlannerAssumption
<1>2. /\ DOMAIN tariff.windows = 1..Len(tariff.windows) /\ Len(tariff.windows) \in Nat
      /\ \A i \in 1..Len(tariff.windows) : tariff.windows[i] \in Windows
  BY <1>1, LenProperties, ElementOfSeq
<1>3. hits \in SUBSET Nat /\ hits \subseteq DOMAIN tariff.windows  BY <1>2
<1> HIDE DEF hits
<1>4. hits # {} => Planner!Min(hits) \in hits
  <2>1. SUFFICES ASSUME hits # {} PROVE Planner!Min(hits) \in hits  OBVIOUS
  <2>2. PICK m \in hits : \A k \in hits : m <= k  BY <1>3, <2>1, Least
  <2>3. QED BY <2>2 DEF Planner!Min
<1>5. hits # {} => tariff.windows[Planner!Min(hits)].rate \in Int  BY <1>2, <1>3, <1>4 DEF Planner!PlannerAssumption
<1>6. QED BY <1>1, <1>5 DEF Planner!RateAt, hits

\* A day has a lowest and a highest rate.
LEMMA RatesHaveExtremes ==
  ASSUME Planner!PlannerAssumption, PlanInv
  PROVE  /\ Planner!Min(Planner!RatesOf(tariff)) \in Planner!RatesOf(tariff)
         /\ Planner!Max(Planner!RatesOf(tariff)) \in Planner!RatesOf(tariff)
<1> DEFINE rates == Planner!HourlyRates(tariff)
           S == Planner!RatesOf(tariff)
           n == Hours - 1
<1>1. n \in Nat /\ Planner!Day = 0..n  BY DEF Planner!PlannerAssumption, Planner!Day
<1>2. rates \in [0..n -> Int]  BY <1>1, RatesTyped DEF Planner!HourlyRates
<1>3. S = {rates[h] : h \in Planner!Day}  BY DEF Planner!RatesOf
<1> HIDE DEF rates, S, n
<1>4. PICK lo \in 0..n, hi \in 0..n : \A k \in 0..n : rates[lo] <= rates[k] /\ rates[k] <= rates[hi]
  BY <1>1, <1>2, Extremes
<1>5. rates[lo] \in S /\ \A y \in S : rates[lo] <= y  BY <1>1, <1>3, <1>4
<1>6. rates[hi] \in S /\ \A y \in S : rates[hi] >= y  BY <1>1, <1>2, <1>3, <1>4
<1>7. Planner!Min(S) \in S  BY <1>5 DEF Planner!Min
<1>8. Planner!Max(S) \in S  BY <1>6 DEF Planner!Max
<1>9. QED BY <1>7, <1>8 DEF S

\* Windows are sound and longest where the rates differ.
LEMMA WindowsRight == ASSUME Planner!PlannerAssumption, PlanInv PROVE Planner!WindowsAreLongest
<1> DEFINE rates == Planner!HourlyRates(tariff)
           S == Planner!RatesOf(tariff)
<1>1. Hours \in Nat \ {0}  BY DEF Planner!PlannerAssumption
<1>3. S = {rates[h] : h \in Planner!Day}  BY DEF Planner!RatesOf
<1>5. Planner!Min(S) \in S /\ Planner!Max(S) \in S  BY RatesHaveExtremes
<1> HIDE DEF rates, S
<1> DEFINE sound(w, target) ==
             /\ Planner!HoursOf(w) \in Planner!Stretches(rates, target)
             /\ \A H \in Planner!Stretches(rates, target) : Planner!Cardinality(H) <= Planner!Cardinality(Planner!HoursOf(w))
<1>6. ASSUME Planner!Min(S) # Planner!Max(S)
      PROVE  sound(Planner!CheapestWindow(tariff), Planner!Min(S)) /\ sound(Planner!PeakWindow(tariff), Planner!Max(S))
  <2>1. PICK a \in Planner!Day : rates[a] = Planner!Min(S)  BY <1>3, <1>5
  <2>2. PICK z \in Planner!Day : rates[z] = Planner!Max(S)  BY <1>3, <1>5
  <2>3. /\ Planner!CheapestWindow(tariff) = Planner!WindowAround(rates, Planner!Min(S))
        /\ Planner!PeakWindow(tariff) = Planner!WindowAround(rates, Planner!Max(S))
    BY DEF Planner!CheapestWindow, Planner!PeakWindow, rates, S
  <2> DEFINE cheap == Planner!Min(S)
             peak == Planner!Max(S)
  <2>4. rates[a] = cheap /\ rates[z] # cheap /\ rates[z] = peak /\ rates[a] # peak  BY <1>6, <2>1, <2>2
  <2> HIDE DEF cheap, peak
  <2>5. sound(Planner!WindowAround(rates, cheap), cheap)  BY <1>1, <2>4, WindowIsLongest
  <2>6. sound(Planner!WindowAround(rates, peak), peak)  BY <1>1, <2>4, WindowIsLongest
  <2> HIDE DEF sound
  <2>7. QED BY <2>3, <2>5, <2>6 DEF cheap, peak
<1>7. QED BY <1>6 DEF Planner!WindowsAreLongest, rates, S

\* The planner: unless the tariff is flat, the cheapest and the peak window hold hours of their rate only, and
\* no longer stretch of such hours exists, over midnight or not, for any windows and any number of hours.
THEOREM WindowsLongest ==
  /\ Planner!Spec => []Planner!WindowsAreLongest
  /\ PartsSpec => []WindowsAreLongest
<1>1. Planner!Init => PlanInv  BY PlanInitial
<1>2. PlanInv /\ [Planner!Next]_plannerVars => PlanInv'  BY PlanStep
<1>3. PlanInv => Planner!WindowsAreLongest  BY WindowsRight, PartsAssumption DEF PartsAssumption
<1>4. PartsInit => PlanInv  BY <1>1 DEF PartsInit
<1>5. PlanInv /\ [PartsNext]_vars => PlanInv'  BY <1>2, OnePartMoves
<1>6. PlanInv /\ [Planner!Next]_(Planner!vars) => PlanInv'  BY <1>2 DEF plannerVars, Planner!vars
<1>7. PlanInv => WindowsAreLongest  BY <1>3 DEF WindowsAreLongest
<1>8. PartsSpec => []WindowsAreLongest  BY <1>4, <1>5, <1>7, PTL DEF PartsSpec
<1>9. Planner!Spec => []Planner!WindowsAreLongest  BY <1>1, <1>3, <1>6, PTL DEF Planner!Spec
<1>10. QED BY <1>8, <1>9

--------------------------------------------------------------------------------
(* The types of the planner.                                               *)

\* A window begins and ends in the day.
LEMMA WindowTyped ==
  ASSUME Hours \in Nat \ {0}, NEW rates, NEW target, NEW a \in Planner!Day, rates[a] = target
  PROVE  Planner!WindowAround(rates, target) \in [start : Planner!Day, end : Planner!Day]
<1> DEFINE runs == {r \in Planner!Runs(rates, target, 2 * Hours) : r[2] <= Hours}
           r == IF runs # {} THEN Planner!Longest(runs)
                ELSE <<Planner!Min({h \in Planner!Day : rates[h] = target}), 1>>
<1>1. runs # {} => Planner!Longest(runs) \in runs
  <2>1. 2 * Hours \in Nat /\ \A q \in runs : q[1] \in 0..(2 * Hours) /\ q[2] \in 0..(2 * Hours)
    BY DEF Planner!Runs
  <2> HIDE DEF runs
  <2>2. QED BY <2>1, LongestRun
<1>2. \A q \in runs : q[1] \in Nat /\ q[2] \in Nat  BY DEF Planner!Runs
<1>3. Planner!Min({h \in Planner!Day : rates[h] = target}) \in Nat
  <2> DEFINE S == {h \in Planner!Day : rates[h] = target}
  <2>1. S \in SUBSET Nat /\ a \in S  BY DEF Planner!Day
  <2> HIDE DEF S
  <2>2. PICK m \in S : \A k \in S : m <= k  BY <2>1, Least
  <2>3. Planner!Min(S) \in S  BY <2>2 DEF Planner!Min
  <2>4. QED BY <2>1, <2>3 DEF S
<1>4. r[1] \in Nat /\ r[2] \in Nat
  <2> HIDE DEF runs
  <2>1. QED BY <1>1, <1>2, <1>3
<1>5. Planner!WindowAround(rates, target) = [start |-> r[1] % Hours, end |-> (r[1] + r[2]) % Hours]
  BY DEF Planner!WindowAround
<1> HIDE DEF r
<1>6. r[1] % Hours \in Planner!Day /\ (r[1] + r[2]) % Hours \in Planner!Day
  BY <1>4, Quotient DEF Planner!Day
<1>7. QED BY <1>5, <1>6

\* So do the cheapest and the peak window.
LEMMA WindowsTyped ==
  ASSUME Planner!PlannerAssumption, PlanInv
  PROVE  {Planner!CheapestWindow(tariff), Planner!PeakWindow(tariff)} \subseteq [start : Planner!Day, end : Planner!Day]
<1> DEFINE rates == Planner!HourlyRates(tariff)
           S == Planner!RatesOf(tariff)
<1>1. Hours \in Nat \ {0}  BY DEF Planner!PlannerAssumption
<1>2. S = {rates[h] : h \in Planner!Day} /\ Planner!Min(S) \in S /\ Planner!Max(S) \in S
  BY RatesHaveExtremes DEF Planner!RatesOf
<1>3. /\ Planner!CheapestWindow(tariff) = Planner!WindowAround(rates, Planner!Min(S))
      /\ Planner!PeakWindow(tariff) = Planner!WindowAround(rates, Planner!Max(S))
  BY DEF Planner!CheapestWindow, Planner!PeakWindow
<1> HIDE DEF rates, S
<1>4. PICK a \in Planner!Day : rates[a] = Planner!Min(S)  BY <1>2
<1>5. PICK z \in Planner!Day : rates[z] = Planner!Max(S)  BY <1>2
<1>6. QED BY <1>1, <1>3, <1>4, <1>5, WindowTyped

\* Of two numbers, the one is the least and the other the greatest.
LEMMA OneOfTwo ==
  ASSUME NEW a \in Int, NEW b \in Int
  PROVE  /\ Planner!Max({a, b}) \in {a, b} /\ Planner!Max({a, b}) >= a /\ Planner!Max({a, b}) >= b
         /\ Planner!Min({a, b}) \in {a, b}
<1>1. \E x \in {a, b} : \A y \in {a, b} : x >= y  BY a >= b \/ b >= a
<1>2. \E x \in {a, b} : \A y \in {a, b} : x <= y  BY a >= b \/ b >= a
<1>3. QED BY <1>1, <1>2 DEF Planner!Max, Planner!Min

LEMMA RoundedTyped ==
  ASSUME NEW x \in Nat, NEW step \in Nat \ {0}
  PROVE  Planner!RoundTo(x, step) \in Nat
<1>1. x \div step \in Nat  BY Quotient
<1> DEFINE d == x \div step
           t == IF 2 * (x % step) < step \/ (2 * (x % step) = step /\ d % 2 = 0) THEN d ELSE d + 1
<1>2. t \in Nat  BY <1>1
<1>3. Planner!RoundTo(x, step) = step * t  BY DEF Planner!RoundTo
<1> HIDE DEF t
<1>4. QED BY <1>2, <1>3

\* The slots that are wanted.
LEMMA WantedTyped ==
  ASSUME Planner!PlannerAssumption, PlanInv, outlook \in Outlooks
  PROVE  Planner!WantedSlots(tariff, Planner!TargetSoc(outlook)) \in [{0, 1} -> Planner!Slot]
<1>1. /\ Strategy.step \in Nat \ {0} /\ Strategy.reserve \in Nat /\ Strategy.ceiling \in Nat
      /\ Battery.min_soc \in Nat /\ Battery.max_soc \in Nat /\ Battery.max_charge \in Nat
      /\ Battery.max_discharge \in Nat /\ outlook.pv \in Int /\ outlook.load \in Int
  BY DEF Planner!PlannerAssumption
<1>2. Planner!Floor \in Nat /\ Planner!Ceiling \in Nat
  <2>1. Strategy.reserve \in Int /\ Strategy.ceiling \in Int /\ Battery.min_soc \in Int /\ Battery.max_soc \in Int
    BY <1>1
  <2>2. Planner!Floor \in {Strategy.reserve, Battery.min_soc} /\ Planner!Ceiling \in {Strategy.ceiling, Battery.max_soc}
    BY <2>1, OneOfTwo, Zenon DEF Planner!Floor, Planner!Ceiling
  <2>3. QED BY <1>1, <2>2
<1>3. Planner!TargetSoc(outlook) \in Nat
  <2> DEFINE deficit == Planner!Max({0, outlook.load - outlook.pv})
             wish == Planner!Min({Planner!Ceiling, Strategy.reserve + deficit})
  <2>1. deficit \in Nat
    <3>1. outlook.load - outlook.pv \in Int /\ 0 \in Int  BY <1>1
    <3>2. deficit \in {0, outlook.load - outlook.pv} /\ deficit >= 0  BY <3>1, OneOfTwo, Zenon
    <3>3. QED BY <3>1, <3>2
  <2> HIDE DEF deficit
  <2>2. wish \in Nat
    <3>1. Strategy.reserve + deficit \in Nat /\ Strategy.reserve + deficit \in Int /\ Planner!Ceiling \in Int
      BY <1>1, <1>2, <2>1
    <3>2. wish \in {Planner!Ceiling, Strategy.reserve + deficit}  BY <3>1, OneOfTwo, Zenon
    <3>3. QED BY <1>2, <3>1, <3>2
  <2>3. Planner!TargetSoc(outlook) = Planner!RoundTo(Planner!Max({Planner!Floor, wish}), Strategy.step)
    BY DEF Planner!TargetSoc, deficit
  <2> HIDE DEF wish
  <2>4. Planner!Max({Planner!Floor, wish}) \in {Planner!Floor, wish}
    <3>1. Planner!Floor \in Int /\ wish \in Int  BY <1>2, <2>2
    <3>2. QED BY <3>1, OneOfTwo, Zenon
  <2>5. Planner!Max({Planner!Floor, wish}) \in Nat  BY <1>2, <2>2, <2>4
  <2>6. QED BY <1>1, <2>3, <2>5, RoundedTyped
<1>4. Planner!CheapestWindow(tariff).start \in Planner!Day /\ Planner!PeakWindow(tariff).start \in Planner!Day
  BY WindowsTyped
<1>5. QED BY <1>1, <1>2, <1>3, <1>4 DEF Planner!WantedSlots, Planner!Slot

\* Slots are slots, and so are those that a plan would change.
PlanTypes ==
  /\ Len(tariff.windows) <= MaxWindows
  /\ outlook \in Outlooks
  /\ slots \in [{0, 1} -> Planner!Slot]
  /\ plan # None => \A i \in DOMAIN plan.changes : plan.changes[i] \in Planner!Slot

LEMMA PlanTypesInitial == Planner!PlannerAssumption /\ Planner!Init => PlanTypes
<1> SUFFICES ASSUME Planner!PlannerAssumption, Planner!Init PROVE PlanTypes  OBVIOUS
<1>1. Len(tariff.windows) <= MaxWindows  BY EmptySeq DEF Planner!Init, Planner!PlannerAssumption
<1>2. slots \in [{0, 1} -> Planner!Slot]
  <2>1. 0 \in Planner!Day /\ Battery.max_soc \in Nat  BY DEF Planner!Day, Planner!PlannerAssumption
  <2>2. QED BY <2>1 DEF Planner!Init, Planner!Slot
<1>3. QED BY <1>1, <1>2 DEF Planner!Init, PlanTypes

LEMMA PlanTypesStep ==
  ASSUME Planner!PlannerAssumption, PlanInv, PlanTypes, [Planner!Next]_plannerVars
  PROVE  PlanTypes'
<1>1. CASE Planner!EditTariff
  <2>1. PICK w \in Windows : tariff' = [tariff EXCEPT !.windows = Append(@, w)]  BY <1>1 DEF Planner!EditTariff
  <2>2. tariff'.windows = Append(tariff.windows, w) /\ tariff.windows \in Seq(Windows)  BY <2>1 DEF PlanInv
  <2>3. Len(tariff'.windows) = Len(tariff.windows) + 1 /\ Len(tariff.windows) \in Nat
    BY <2>2, AppendProperties, LenProperties
  <2>4. Len(tariff.windows) < MaxWindows /\ MaxWindows \in Nat /\ UNCHANGED <<outlook, slots, plan>>
    BY <1>1 DEF Planner!EditTariff, Planner!PlannerAssumption
  <2>5. QED BY <2>3, <2>4 DEF PlanTypes
<1>2. CASE Planner!Forecast \/ UNCHANGED plannerVars
  BY <1>2 DEF Planner!Forecast, plannerVars, PlanTypes
<1>3. CASE Planner!Plan
  <2> DEFINE wantedSlots == Planner!WantedSlots(tariff, Planner!TargetSoc(outlook))
             changes == Planner!PlanTimer(slots, tariff, outlook)
  <2>1. changes = Planner!Nothing \/ changes = Planner!SlotChanges(slots, wantedSlots)
    BY DEF Planner!PlanTimer
  <2>2. wantedSlots \in [{0, 1} -> Planner!Slot]  BY WantedTyped DEF PlanTypes
  <2>3. plan' = [changes |-> changes, tariff |-> tariff, outlook |-> outlook] /\ UNCHANGED <<tariff, outlook, slots>>
    BY <1>3 DEF Planner!Plan
  <2> HIDE DEF wantedSlots, changes
  <2>4. \A i \in DOMAIN changes : changes[i] \in Planner!Slot
    BY <2>1, <2>2 DEF Planner!Nothing, Planner!SlotChanges
  <2>5. QED BY <2>3, <2>4 DEF PlanTypes
<1>4. CASE Planner!Apply
  BY <1>4 DEF Planner!Apply, PlanTypes
<1>5. QED BY <1>1, <1>2, <1>3, <1>4 DEF Planner!Next

LEMMA PlanTyped == ASSUME Planner!PlannerAssumption, PlanInv, PlanTypes PROVE Planner!TypeOK
BY WindowsTyped DEF PlanInv, PlanTypes, Planner!TypeOK

--------------------------------------------------------------------------------
(* The types of these parts together.                                      *)

EnergyTyped ==
  /\ part = "day" => DayInv
  /\ PlanInv /\ PlanTypes
  /\ part = "projection" => ProjectInv

LEMMA EnergyTypedStays ==
  /\ PartsInit => EnergyTyped
  /\ EnergyTyped /\ [PartsNext]_vars => EnergyTyped'
<1> USE PartsAssumption DEF PartsAssumption
<1>1. PartsInit => DayInv  BY DayInitial DEF PartsInit
<1>2. PartsInit => PlanInv /\ PlanTypes  BY PlanInitial, PlanTypesInitial DEF PartsInit
<1>3. PartsInit => ProjectInv  BY ProjectInitial DEF PartsInit
<1>4. DayInv /\ [Day!Next]_dayVars => DayInv'  BY DayStep
<1>5. PlanInv /\ PlanTypes /\ [Planner!Next]_plannerVars => PlanInv' /\ PlanTypes'
  BY PlanStep, PlanTypesStep
<1>6. ProjectInv /\ [Project!Next]_projectVars => ProjectInv'  BY ProjectStep
<1>7. EnergyTyped /\ [PartsNext]_vars => EnergyTyped'
  BY <1>4, <1>5, <1>6, OnePartMoves, Zenon DEF EnergyTyped
<1>8. QED BY <1>1, <1>2, <1>3, <1>7 DEF EnergyTyped
================================================================================
