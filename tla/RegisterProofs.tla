---------------------------- MODULE RegisterProofs -----------------------------
(***************************************************************************)
(* Proofs about a device's registers: its connection (Transport), the scan *)
(* and its verdict (RegisterScan, RegisterBlocks), the bus that is         *)
(* listened to (BusSniffer), and a profile at work (ProfileCodec): what is *)
(* written to a register and read back, and what the decoders show.  Each  *)
(* is proved on its own and as a part of MCParts, for any device, map,     *)
(* limits and noise, any width of a word, any profile and any fields.      *)
(***************************************************************************)
EXTENDS EnergyProofs

--------------------------------------------------------------------------------
(* A device's connection.                                                  *)

LineStats == [transactions : Nat, failures : Nat, retries : Nat]
LineWire  == [sent : Nat, late : Nat, void : Nat, answered : Nat]

\* A caller waits only for an attempt that is still to come.
LineInv ==
  /\ call \in [Callers -> Line!Call \union {None}]
  /\ stats \in LineStats /\ wire \in LineWire
  /\ \A c \in Callers : call[c] # None /\ call[c].at = "backoff" => call[c].attempt < Attempts
  /\ Line!StatsMatchWire

\* A set that gains or loses c.
LEMMA OneMore ==
  ASSUME NEW S, NEW T, NEW c, IsFiniteSet(S), c \notin S, T = S \union {c}
  PROVE  Line!Cardinality(T) = Line!Cardinality(S) + 1 /\ Line!Cardinality(S) \in Nat
<1>1. Line!Cardinality(T) = Cardinality(T) /\ Line!Cardinality(S) = Cardinality(S)
  BY DEF Line!Cardinality, Cardinality
<1>2. QED BY <1>1, FS_AddElement, FS_CardinalityType

LEMMA OneLess ==
  ASSUME NEW S, NEW T, NEW c, IsFiniteSet(S), c \in S, T = S \ {c}
  PROVE  Line!Cardinality(T) = Line!Cardinality(S) - 1 /\ Line!Cardinality(S) \in Nat
<1>1. IsFiniteSet(T) /\ c \notin T /\ S = T \union {c}  BY FS_RemoveElement
<1>2. QED BY <1>1, OneMore

LEMMA CallersAreFinite ==
  ASSUME Line!TransportAssumption
  PROVE  IsFiniteSet(Line!Open) /\ IsFiniteSet(Line!Waiting)
         /\ Line!Cardinality(Line!Open) \in Nat /\ Line!Cardinality(Line!Waiting) \in Nat
<1>1. IsFiniteSet(Callers)  BY DEF Line!TransportAssumption, Line!IsFiniteSet, IsFiniteSet
<1>2. Line!Open \subseteq Callers /\ Line!Waiting \subseteq Callers  BY DEF Line!Open, Line!Waiting
<1>3. IsFiniteSet(Line!Open) /\ IsFiniteSet(Line!Waiting)  BY <1>1, <1>2, FS_Subset
<1>4. QED BY <1>3, FS_CardinalityType DEF Line!Cardinality, Cardinality

\* What a step of one caller leaves open, and waiting.
LEMMA OpenMoves ==
  ASSUME LineInv, NEW c \in Callers, NEW v, call' = [call EXCEPT ![c] = v]
  PROVE  /\ Line!Open' = IF v = None THEN Line!Open \ {c} ELSE Line!Open \union {c}
         /\ Line!Waiting' = IF v # None /\ v.at = "backoff" THEN Line!Waiting \union {c} ELSE Line!Waiting \ {c}
<1>1. call'[c] = v /\ \A d \in Callers : d # c => call'[d] = call[d]  BY DEF LineInv
<1>2. QED BY <1>1 DEF Line!Open, Line!Waiting

LEMMA LineInitial ==
  ASSUME Line!TransportAssumption, Line!Init
  PROVE  LineInv
<1>1. Line!Open = {} /\ Line!Waiting = {}  BY DEF Line!Init, Line!Open, Line!Waiting
<1>2. Line!Cardinality({}) = 0  BY FS_EmptySet DEF Line!Cardinality, Cardinality
<1>3. QED BY <1>1, <1>2 DEF Line!Init, LineInv, LineStats, LineWire, Line!StatsMatchWire

LEMMA LineBegins ==
  ASSUME Line!TransportAssumption, LineInv, NEW c \in Callers, NEW kind \in {"read", "write"},
         Line!Begin(c, kind), Line!HasClient
  PROVE  LineInv'
<1> USE DEF LineInv, LineStats, LineWire
<1> DEFINE v == [kind |-> kind, attempt |-> 1, at |-> "device"]
<1>1. /\ call[c] = None /\ call' = [call EXCEPT ![c] = v]
      /\ stats' = [stats EXCEPT !.transactions = @ + 1] /\ wire' = [wire EXCEPT !.sent = @ + 1]
  BY DEF Line!Begin
<1>2. v \in Line!Call /\ v # None /\ v.at = "device"  BY DEF Line!Call, Line!TransportAssumption
<1>3. Line!Open' = Line!Open \union {c} /\ Line!Waiting' = Line!Waiting \ {c}
  BY <1>1, <1>2, OpenMoves
<1>4. c \notin Line!Open /\ c \notin Line!Waiting  BY <1>1 DEF Line!Open, Line!Waiting
<1>5. Line!Cardinality(Line!Open)' = Line!Cardinality(Line!Open) + 1
  BY <1>3, <1>4, CallersAreFinite, OneMore
<1>6. Line!Cardinality(Line!Waiting)' = Line!Cardinality(Line!Waiting)
  BY <1>3, <1>4
<1>7. Line!StatsMatchWire'
  BY <1>1, <1>5, <1>6, CallersAreFinite DEF Line!StatsMatchWire
<1>8. call' \in [Callers -> Line!Call \union {None}]
      /\ \A d \in Callers : call'[d] # None /\ call'[d].at = "backoff" => call'[d].attempt < Attempts
  BY <1>1, <1>2
<1>9. stats' \in LineStats /\ wire' \in LineWire  BY <1>1
<1>10. QED BY <1>7, <1>8, <1>9

\* An attempt that failed at the device, or found no client after its backoff.
LEMMA LineGivesUp ==
  ASSUME Line!TransportAssumption, LineInv, NEW c \in Callers, call[c] # None,
         NEW n \in 1..Attempts, Line!GiveUpOrWait(c, n),
         \/ call[c].at = "device" /\ wire' = wire
         \/ call[c].at = "backoff" /\ wire' = [wire EXCEPT !.void = @ + 1]
  PROVE  LineInv'
<1> USE DEF LineInv, LineStats, LineWire
<1>1. call[c] \in Line!Call /\ None \notin Line!Call /\ Attempts \in Nat
  BY DEF Line!TransportAssumption
<1>2. /\ c \in Line!Open /\ (c \in Line!Waiting <=> call[c].at = "backoff")
      /\ wire' \in LineWire
  BY DEF Line!Open, Line!Waiting
<1>3. CASE n < Attempts
  <2> DEFINE v == [kind |-> call[c].kind, attempt |-> n, at |-> "backoff"]
  <2>1. stats' = [stats EXCEPT !.retries = @ + 1]  BY <1>3 DEF Line!GiveUpOrWait
  <2>2. v \in Line!Call /\ v.at = "backoff" /\ v.attempt = n  BY <1>1 DEF Line!Call
  <2>3. v # None  BY <1>1, <2>2
  <2>4. call' = [call EXCEPT ![c] = v]  BY <1>3 DEF Line!GiveUpOrWait, Line!Goes
  <2> HIDE DEF v
  <2>5. Line!Open' = Line!Open \union {c} /\ Line!Waiting' = Line!Waiting \union {c}
    BY <2>2, <2>3, <2>4, OpenMoves
  <2>6. Line!Cardinality(Line!Open)' = Line!Cardinality(Line!Open)  BY <1>2, <2>5
  <2>7. Line!Cardinality(Line!Waiting)' = Line!Cardinality(Line!Waiting)
                                            + IF call[c].at = "backoff" THEN 0 ELSE 1
    <3>1. CASE call[c].at = "backoff"
      <4>1. Line!Waiting' = Line!Waiting  BY <1>2, <2>5, <3>1
      <4>2. QED BY <3>1, <4>1, CallersAreFinite
    <3>2. CASE call[c].at # "backoff"
      <4>1. c \notin Line!Waiting  BY <1>2, <3>2
      <4>2. QED BY <2>5, <3>2, <4>1, CallersAreFinite, OneMore
    <3>3. QED BY <3>1, <3>2
  <2>8. Line!StatsMatchWire'
    BY <2>1, <2>6, <2>7, CallersAreFinite DEF Line!StatsMatchWire
  <2>9. call' \in [Callers -> Line!Call \union {None}]
        /\ \A d \in Callers : call'[d] # None /\ call'[d].at = "backoff" => call'[d].attempt < Attempts
    BY <1>3, <2>2, <2>3, <2>4
  <2>10. stats' \in LineStats  BY <2>1
  <2>11. QED BY <1>2, <2>8, <2>9, <2>10
<1>4. CASE ~(n < Attempts)
  <2>1. call' = [call EXCEPT ![c] = None] /\ stats' = [stats EXCEPT !.failures = @ + 1]
    BY <1>4 DEF Line!GiveUpOrWait, Line!Ends
  <2>2. Line!Open' = Line!Open \ {c} /\ Line!Waiting' = Line!Waiting \ {c}
    BY <2>1, OpenMoves
  <2>3. Line!Cardinality(Line!Open)' = Line!Cardinality(Line!Open) - 1
    BY <1>2, <2>2, CallersAreFinite, OneLess
  <2>4. Line!Cardinality(Line!Waiting)' = Line!Cardinality(Line!Waiting)
                                            - IF call[c].at = "backoff" THEN 1 ELSE 0
    <3>1. CASE call[c].at = "backoff"
      <4>1. c \in Line!Waiting  BY <1>2, <3>1
      <4>2. QED BY <2>2, <3>1, <4>1, CallersAreFinite, OneLess
    <3>2. CASE call[c].at # "backoff"
      <4>1. Line!Waiting' = Line!Waiting  BY <1>2, <2>2, <3>2
      <4>2. QED BY <3>2, <4>1, CallersAreFinite
    <3>3. QED BY <3>1, <3>2
  <2>5. Line!StatsMatchWire'
    BY <2>1, <2>3, <2>4, CallersAreFinite DEF Line!StatsMatchWire
  <2>6. call' \in [Callers -> Line!Call \union {None}]
        /\ \A d \in Callers : call'[d] # None /\ call'[d].at = "backoff" => call'[d].attempt < Attempts
    BY <2>1
  <2>7. stats' \in LineStats  BY <2>1
  <2>8. QED BY <1>2, <2>5, <2>6, <2>7
<1>5. QED BY <1>3, <1>4

LEMMA LineAnswers ==
  ASSUME Line!TransportAssumption, LineInv, NEW c \in Callers, Line!Answer(c)
  PROVE  LineInv'
<1> USE DEF LineInv, LineStats, LineWire
<1>1. /\ call[c] # None /\ call[c].at = "device" /\ call' = [call EXCEPT ![c] = None]
      /\ wire' = [wire EXCEPT !.answered = @ + 1] /\ stats' = stats
  BY DEF Line!Answer, Line!Ends
<1>2. c \in Line!Open /\ c \notin Line!Waiting  BY <1>1 DEF Line!Open, Line!Waiting
<1>3. Line!Open' = Line!Open \ {c} /\ Line!Waiting' = Line!Waiting \ {c}  BY <1>1, OpenMoves
<1>4. Line!Cardinality(Line!Open)' = Line!Cardinality(Line!Open) - 1
      /\ Line!Cardinality(Line!Waiting)' = Line!Cardinality(Line!Waiting)
  <2>1. Line!Waiting' = Line!Waiting  BY <1>2, <1>3
  <2>2. Line!Cardinality(Line!Open)' = Line!Cardinality(Line!Open) - 1
    BY <1>2, <1>3, CallersAreFinite, OneLess
  <2>3. QED BY <2>1, <2>2
<1>5. Line!StatsMatchWire'  BY <1>1, <1>4, CallersAreFinite DEF Line!StatsMatchWire
<1>6. call' \in [Callers -> Line!Call \union {None}]
      /\ \A d \in Callers : call'[d] # None /\ call'[d].at = "backoff" => call'[d].attempt < Attempts
  BY <1>1
<1>7. QED BY <1>1, <1>5, <1>6

LEMMA LineWakes ==
  ASSUME Line!TransportAssumption, LineInv, NEW c \in Callers, Line!Wake(c), Line!HasClient
  PROVE  LineInv'
<1> USE DEF LineInv, LineStats, LineWire
<1> DEFINE v == [kind |-> call[c].kind, attempt |-> call[c].attempt + 1, at |-> "device"]
<1>1. /\ call[c] # None /\ call[c].at = "backoff" /\ wire' = [wire EXCEPT !.sent = @ + 1]
      /\ stats' = stats /\ call' = [call EXCEPT ![c] = v]
  BY DEF Line!Wake, Line!Goes
<1>2. call[c] \in Line!Call /\ call[c].attempt < Attempts /\ None \notin Line!Call /\ Attempts \in Nat
  BY <1>1 DEF Line!TransportAssumption
<1>3. call[c].attempt + 1 \in 1..Attempts  BY <1>2 DEF Line!Call
<1>4. v \in Line!Call /\ v.at = "device"  BY <1>2, <1>3 DEF Line!Call
<1>5. v # None  BY <1>2, <1>4
<1> HIDE DEF v
<1>6. c \in Line!Open /\ c \in Line!Waiting  BY <1>1 DEF Line!Open, Line!Waiting
<1>7. /\ Line!Open' = Line!Open \union {c} /\ Line!Waiting' = Line!Waiting \ {c}
  BY <1>1, <1>4, <1>5, OpenMoves
<1>8. Line!Cardinality(Line!Waiting)' = Line!Cardinality(Line!Waiting) - 1
      /\ Line!Cardinality(Line!Open)' = Line!Cardinality(Line!Open)
  <2>1. Line!Open' = Line!Open  BY <1>6, <1>7
  <2>2. Line!Cardinality(Line!Waiting)' = Line!Cardinality(Line!Waiting) - 1
    BY <1>6, <1>7, CallersAreFinite, OneLess
  <2>3. QED BY <2>1, <2>2
<1>9. Line!StatsMatchWire'  BY <1>1, <1>8, CallersAreFinite DEF Line!StatsMatchWire
<1>10. call' \in [Callers -> Line!Call \union {None}]
       /\ \A d \in Callers : call'[d] # None /\ call'[d].at = "backoff" => call'[d].attempt < Attempts
  BY <1>1, <1>4, <1>5
<1>11. wire' \in LineWire  BY <1>1
<1>12. QED BY <1>1, <1>9, <1>10, <1>11

LEMMA LineStep ==
  ASSUME Line!TransportAssumption, LineInv, [Line!Next]_lineVars
  PROVE  LineInv'
<1>1. ASSUME UNCHANGED <<call, stats, wire>> PROVE LineInv'
  BY <1>1 DEF LineInv, LineStats, LineWire, Line!StatsMatchWire, Line!Open, Line!Waiting
<1>2. CASE Line!Connect \/ Line!Close \/ Line!Disconnected \/ UNCHANGED lineVars
  BY <1>1, <1>2 DEF Line!Connect, Line!Close, Line!Disconnected, lineVars
<1>3. ASSUME NEW c \in Callers, NEW kind \in {"read", "write"}, Line!Begin(c, kind) PROVE LineInv'
  <2>1. CASE Line!HasClient  BY <1>3, <2>1, LineBegins
  <2>2. CASE ~Line!HasClient
    <3>1. call' = call /\ UNCHANGED <<stats, wire>>
      BY <1>3, <2>2 DEF Line!Begin, Line!Ends, LineInv
    <3>2. QED BY <1>1, <3>1
  <2>3. QED BY <2>1, <2>2
<1>4. ASSUME NEW c \in Callers, Line!AttemptFails(c) PROVE LineInv'
  <2>1. call[c] # None /\ call[c].at = "device" /\ Line!GiveUpOrWait(c, call[c].attempt) /\ wire' = wire
    BY <1>4 DEF Line!AttemptFails
  <2>2. call[c].attempt \in 1..Attempts  BY <2>1 DEF LineInv, Line!Call
  <2>3. QED BY <2>1, <2>2, LineGivesUp
<1>5. ASSUME NEW c \in Callers, Line!Wake(c) PROVE LineInv'
  <2>1. CASE Line!HasClient  BY <1>5, <2>1, LineWakes
  <2>2. CASE ~Line!HasClient
    <3>1. call[c] # None /\ call[c].at = "backoff" /\ Line!GiveUpOrWait(c, call[c].attempt + 1)
          /\ wire' = [wire EXCEPT !.void = @ + 1]
      BY <1>5, <2>2 DEF Line!Wake
    <3>2. call[c].attempt + 1 \in 1..Attempts
      BY <3>1 DEF LineInv, Line!Call, Line!TransportAssumption
    <3>3. QED BY <3>1, <3>2, LineGivesUp
  <2>3. QED BY <2>1, <2>2
<1>6. QED BY <1>2, <1>3, <1>4, <1>5, LineAnswers DEF Line!Next

\* _with_retries: for any number of callers and attempts, the statistics are what was sent and answered,
\* and after the close nothing is sent any more.
THEOREM StatsMatch ==
  /\ Line!Spec => []Line!StatsMatchWire
  /\ PartsSpec => []StatsMatchWire
<1> DEFINE Inv == part = "transport" => LineInv
<1>1. Line!Init => LineInv  BY LineInitial, PartsAssumption DEF PartsAssumption
<1>2. LineInv /\ [Line!Next]_lineVars => LineInv'  BY LineStep, PartsAssumption DEF PartsAssumption
<1>3. LineInv => Line!StatsMatchWire  BY DEF LineInv
<1>4. PartsInit => Inv  BY <1>1 DEF PartsInit
<1>5. Inv /\ [PartsNext]_vars => Inv'  BY <1>2, OnePartMoves
<1>6. Inv => StatsMatchWire  BY <1>3 DEF StatsMatchWire
<1> HIDE DEF Inv
<1>7. PartsSpec => []StatsMatchWire  BY <1>4, <1>5, <1>6, PTL DEF PartsSpec
<1>8. LineInv /\ [Line!Next]_(Line!transportVars) => LineInv'  BY <1>2 DEF lineVars, Line!transportVars
<1>9. Line!Spec => []Line!StatsMatchWire  BY <1>1, <1>3, <1>8, PTL DEF Line!Spec
<1>10. QED BY <1>7, <1>9


--------------------------------------------------------------------------------
(* Addresses grouped into blocks.                                          *)

BlocksOf(max) == [start : Nat, count : 1..max]

\* Blocks that begin and end at one of the addresses, cover them in ascending order, and part two
\* adjacent ones only where a block is full, or if no gap at all is bridged.
Tiles(B, addrs, max) ==
  /\ B \in Seq(BlocksOf(max))
  /\ \A i \in 1..Len(B) : B[i].start \in addrs /\ B[i].start + B[i].count - 1 \in addrs
  /\ \A i, j \in 1..Len(B) : i < j => B[i].start + B[i].count <= B[j].start
  /\ \A a \in addrs : \E i \in 1..Len(B) : a \in Scan!AddressesIn(B[i])
  /\ \A i \in 1..Len(B) : \A a \in Scan!AddressesIn(B[i]) :
       a + 1 \in addrs =>
         a + 1 \in Scan!AddressesIn(B[i]) \/ B[i] = Scan!Block(a + 1 - max, max) \/ ClusterGap = 0

\* The blocks of the addresses below n reach no further.
Below(B, n) == \A i \in 1..Len(B) : B[i].start + B[i].count <= n

\* What the elements of a list of blocks are.
LEMMA BlockTyped ==
  ASSUME NEW max, NEW B \in Seq(BlocksOf(max))
  PROVE  /\ Len(B) \in Nat /\ DOMAIN B = 1..Len(B)
         /\ \A i \in 1..Len(B) : B[i].start \in Nat /\ B[i].count \in 1..max /\ B[i] = Scan!Block(B[i].start, B[i].count)
<1>1. Len(B) \in Nat /\ DOMAIN B = 1..Len(B)  BY LenProperties, Zenon
<1>2. ASSUME NEW i \in 1..Len(B)
      PROVE  B[i].start \in Nat /\ B[i].count \in 1..max /\ B[i] = Scan!Block(B[i].start, B[i].count)
  <2>1. B[i] \in BlocksOf(max)  BY ElementOfSeq, Zenon
  <2>2. QED BY <2>1 DEF BlocksOf, Scan!Block
<1>3. QED BY <1>1, <1>2

\* An address that joins or begins a block leaves a list of blocks.
LEMMA AddTyped ==
  ASSUME NEW B \in Seq([start : Nat, count : Int]), NEW n \in Nat, NEW gap, NEW max
  PROVE  Scan!AddTo(B, n, gap, max) \in Seq([start : Nat, count : Int])
<1> DEFINE S == [start : Nat, count : Int]
           b == B[Len(B)]
           joins == B # <<>> /\ n - (b.start + b.count - 1) <= gap /\ n - b.start < max
<1>1. CASE joins
  <2>1. Len(B) \in 1..Len(B) /\ b \in S
    <3>1. Len(B) \in 1..Len(B)  BY <1>1, EmptySeq
    <3>2. QED BY <3>1, ElementOfSeq, Zenon
  <2> DEFINE c == Scan!Block(b.start, n - b.start + 1)
  <2>2. c \in S  BY <2>1 DEF Scan!Block
  <2>3. Scan!AddTo(B, n, gap, max) = [B EXCEPT ![Len(B)] = c]  BY <1>1 DEF Scan!AddTo
  <2> HIDE DEF b, c, S
  <2>4. B \in Seq(S)  BY DEF S
  <2>5. Scan!AddTo(B, n, gap, max) \in Seq(S)  BY <2>1, <2>2, <2>3, <2>4, ExceptSeq
  <2>6. QED BY <2>5 DEF S
<1>2. CASE ~joins
  <2>1. Scan!Block(n, 1) \in S  BY DEF Scan!Block
  <2>2. Scan!AddTo(B, n, gap, max) = Append(B, Scan!Block(n, 1))  BY <1>2 DEF Scan!AddTo
  <2>3. QED BY <2>1, <2>2, AppendProperties
<1>3. QED BY <1>1, <1>2

\* A last block is added, or the last one is made longer.
LEMMA AddTiles ==
  ASSUME NEW addrs \in SUBSET Nat, NEW gap \in Nat, gap # 0 \/ ClusterGap = 0,
         NEW max \in Nat \ {0}, NEW n \in addrs, NEW B, Tiles(B, {a \in addrs : a < n}, max), Below(B, n)
  PROVE  /\ Tiles(Scan!AddTo(B, n, gap, max), {a \in addrs : a < n + 1}, max)
         /\ Below(Scan!AddTo(B, n, gap, max), n + 1)
<1> DEFINE C == Scan!AddTo(B, n, gap, max)
           m == Len(B)
           b == B[m]
           joins == B # <<>> /\ n - (b.start + b.count - 1) <= gap /\ n - b.start < max
           q == IF joins THEN m ELSE m + 1
           c == IF joins THEN Scan!Block(b.start, n - b.start + 1) ELSE Scan!Block(n, 1)
<1>1. B \in Seq(BlocksOf(max)) /\ n \in Nat  BY DEF Tiles
<1>2. /\ m \in Nat
      /\ \A i \in 1..m : /\ B[i].start \in Nat /\ B[i].count \in 1..max /\ B[i] = Scan!Block(B[i].start, B[i].count)
                         /\ B[i].start + B[i].count <= n
  BY <1>1, BlockTyped DEF Below
<1>3. B # <<>> <=> m # 0  BY <1>1, EmptySeq
<1>4. q \in 1..(m + 1) /\ (joins => q = m) /\ (~joins => q = m + 1)
  BY <1>2, <1>3, SMTT(30)
<1>5. /\ c.start \in Nat /\ c.count \in 1..max /\ c.start <= n /\ c.start + c.count = n + 1
      /\ c = Scan!Block(c.start, c.count)
  <2>1. CASE joins
    <3>1. m \in 1..m  BY <1>2, <1>3, <2>1
    <3>2. b.start \in Nat /\ b.start < n /\ n - b.start < max  BY <1>2, <2>1, <3>1
    <3>3. c = [start |-> b.start, count |-> n - b.start + 1]  BY <2>1 DEF Scan!Block
    <3> HIDE DEF c, b
    <3>4. QED BY <1>1, <3>2, <3>3 DEF Scan!Block
  <2>2. CASE ~joins
    <3>1. c = [start |-> n, count |-> 1]  BY <2>2 DEF Scan!Block
    <3> HIDE DEF c
    <3>2. QED BY <1>1, <3>1 DEF Scan!Block
  <2>3. QED BY <2>1, <2>2
<1>6. c \in BlocksOf(max)
  <2> HIDE DEF c
  <2>1. QED BY <1>5 DEF BlocksOf, Scan!Block
<1>7. C \in Seq(BlocksOf(max)) /\ Len(C) = q /\ \A i \in 1..q : C[i] = IF i = q THEN c ELSE B[i]
  <2>1. CASE joins
    <3>1. C = [B EXCEPT ![m] = c] /\ q = m /\ m \in 1..m  BY <1>2, <1>3, <2>1 DEF Scan!AddTo
    <3> HIDE DEF C, c, q, joins, b
    <3>2. QED BY <1>1, <1>6, <3>1, ExceptSeq
  <2>2. CASE ~joins
    <3>1. C = Append(B, c) /\ q = m + 1  BY <2>2 DEF Scan!AddTo
    <3> HIDE DEF C, c, q, joins, b
    <3>2. QED BY <1>1, <1>2, <1>6, <3>1, AppendProperties
  <2>3. QED BY <2>1, <2>2
<1>8. \A i, j \in 1..m : i < j => B[i].start + B[i].count <= B[j].start  BY DEF Tiles
<1>9. joins => c.start = B[q].start /\ q \in 1..m  BY <1>2, <1>3 DEF Scan!Block
<1>10. ~joins => c.start = n  BY DEF Scan!Block
<1>11. ~joins /\ m # 0 => n - (b.start + b.count - 1) > gap \/ n - b.start >= max
  BY <1>2, <1>3, SMTT(30)
<1> HIDE DEF C, c, q, b, joins
<1>12. C[q] = c /\ \A i \in 1..q : i # q => i \in 1..m /\ i < q /\ C[i] = B[i]  BY <1>2, <1>4, <1>7
<1>13. Below(C, n + 1)
  <2>1. ASSUME NEW i \in 1..q PROVE C[i].start + C[i].count <= n + 1
    <3>1. CASE i = q  BY <1>1, <1>5, <1>12, <3>1
    <3>2. CASE i # q
      <4>1. i \in 1..m /\ C[i] = B[i]  BY <1>12, <3>2
      <4>2. QED BY <1>1, <1>2, <4>1
    <3>3. QED BY <3>1, <3>2
  <2>2. QED BY <1>7, <2>1 DEF Below
<1>17. ASSUME NEW i \in 1..q, NEW j \in 1..q, i < j PROVE C[i].start + C[i].count <= C[j].start
  <2>1. i \in 1..m /\ C[i] = B[i]  BY <1>4, <1>12, <1>17
  <2>2. CASE j # q
    <3>1. j \in 1..m /\ C[j] = B[j]  BY <1>12, <2>2
    <3>2. QED BY <1>8, <1>17, <2>1, <3>1
  <2>3. CASE j = q /\ joins
    <3>1. j \in 1..m /\ C[j].start = B[j].start  BY <1>9, <1>12, <2>3
    <3>2. B[i].start + B[i].count <= B[j].start  BY <1>8, <1>17, <2>1, <3>1
    <3>3. QED BY <2>1, <3>1, <3>2
  <2>4. CASE j = q /\ ~joins
    <3>1. C[j].start = n  BY <1>10, <1>12, <2>4
    <3>2. QED BY <1>2, <2>1, <3>1
  <2>5. QED BY <2>2, <2>3, <2>4
<1>14. \A a \in {a \in addrs : a < n + 1} : \E i \in 1..q : a \in Scan!AddressesIn(C[i])
  <2> SUFFICES ASSUME NEW a \in addrs, a < n + 1 PROVE \E i \in 1..q : a \in Scan!AddressesIn(C[i])
    OBVIOUS
  <2>1. CASE a = n
    <3>1. n \in Scan!AddressesIn(C[q]) /\ q \in 1..q  BY <1>1, <1>4, <1>5, <1>7, SMTT(30) DEF Scan!AddressesIn
    <3>2. QED BY <2>1, <3>1
  <2>2. CASE a < n
    <3>1. PICK i \in 1..m : a \in Scan!AddressesIn(B[i])  BY <2>2 DEF Tiles
    <3>2. CASE i = q
      <4>1. a \in Scan!AddressesIn(C[q]) /\ q \in 1..q
        BY <1>1, <1>2, <1>4, <1>5, <1>7, <1>9, <2>2, <3>1, <3>2, SMTT(30) DEF Scan!AddressesIn
      <4>2. QED BY <4>1
    <3>3. CASE i # q
      <4>1. i \in 1..q /\ C[i] = B[i]  BY <1>2, <1>4, <1>7, <3>3
      <4>2. QED BY <3>1, <4>1
    <3>4. QED BY <3>2, <3>3
  <2>3. QED BY <1>1, <2>1, <2>2
<1>15. ASSUME NEW i \in 1..q, NEW a \in Scan!AddressesIn(C[i]), a + 1 \in addrs, a + 1 < n + 1
       PROVE  a + 1 \in Scan!AddressesIn(C[i]) \/ C[i] = Scan!Block(a + 1 - max, max) \/ ClusterGap = 0
  <2>1. CASE i = q
    <3>1. C[i] = c  BY <1>12, <2>1
    <3>2. a \in c.start..n /\ a + 1 \in c.start..n
      BY <1>1, <1>5, <1>15, <3>1 DEF Scan!AddressesIn
    <3>3. QED BY <1>1, <1>5, <3>1, <3>2, SMTT(30) DEF Scan!AddressesIn
  <2>2. CASE i # q
    <3>1. i \in 1..m /\ C[i] = B[i]  BY <1>2, <1>4, <1>7, <2>2
    <3>2. a \in Nat /\ B[i].start <= a /\ a < B[i].start + B[i].count
      BY <1>2, <3>1, <1>15, SMTT(30) DEF Scan!AddressesIn
    <3>3. CASE a + 1 < n
      <4>1. QED BY <1>15, <3>1, <3>3 DEF Tiles
    <3>4. CASE a + 1 = n
      <4>0. B[i].start \in Nat /\ B[i].count \in 1..max /\ B[i].start + B[i].count <= n
        BY <1>2, <3>1
      <4>1. B[i].start + B[i].count = n /\ B[i].start \in Nat /\ B[i].count \in 1..max
        BY <1>1, <4>0, <3>2, <3>4
      <4>2. i = m
        <5> SUFFICES ASSUME i # m PROVE FALSE  OBVIOUS
        <5>1. m \in 1..m /\ i < m  BY <1>2, <3>1
        <5>2. B[i].start + B[i].count <= B[m].start  BY <1>8, <3>1, <5>1
        <5>3. B[m].start \in Nat /\ B[m].count \in 1..max /\ B[m].start + B[m].count <= n  BY <1>2, <5>1
        <5>4. QED BY <1>1, <4>1, <5>2, <5>3
      <4>3. ~joins  BY <1>4, <2>2, <4>2
      <4>4. B[i] = b /\ m # 0  BY <1>2, <3>1, <4>2 DEF b
      <4>5. n - (b.start + b.count - 1) > gap \/ n - b.start >= max  BY <1>11, <4>3, <4>4
      <4> SUFFICES ASSUME gap # 0 PROVE C[i] = Scan!Block(a + 1 - max, max)  OBVIOUS
      <4>6. b.count = max /\ b.start = n - max  BY <1>1, <4>1, <4>4, <4>5, SMTT(30)
      <4>7. B[i] = Scan!Block(n - max, max)  BY <1>2, <3>1, <4>4, <4>6
      <4>8. a + 1 - max = n - max  BY <1>1, <3>2, <3>4
      <4>9. C[i] = Scan!Block(a + 1 - max, max)  BY <3>1, <4>7, <4>8, Zenon
      <4>10. QED BY <4>9
    <3>5. QED BY <1>1, <1>15, <3>2, <3>3, <3>4
  <2>3. QED BY <2>1, <2>2
<1>19. ASSUME NEW i \in 1..q
       PROVE  /\ C[i].start \in {a \in addrs : a < n + 1}
              /\ C[i].start + C[i].count - 1 \in {a \in addrs : a < n + 1}
  <2>1. \A j \in 1..m : /\ B[j].start \in addrs /\ B[j].start < n
                       /\ B[j].start + B[j].count - 1 \in addrs /\ B[j].start + B[j].count - 1 < n
    BY DEF Tiles
  <2>2. n \in Nat /\ n < n + 1 /\ \A a \in addrs : a \in Nat /\ (a < n => a < n + 1)  BY <1>1
  <2>3. CASE i = q
    <3>1. C[i].start \in addrs /\ C[i].start < n + 1
      BY <1>9, <1>10, <1>12, <2>1, <2>2, <2>3
    <3>2. C[i].start + C[i].count - 1 = n
      <4>1. C[i] = c  BY <1>12, <2>3
      <4>2. c.start + c.count - 1 = n  BY <1>5, <2>2
      <4>3. QED BY <4>1, <4>2
    <3>3. QED BY <2>2, <3>1, <3>2
  <2>4. CASE i # q
    <3>1. i \in 1..m /\ C[i] = B[i]  BY <1>12, <2>4
    <3>2. QED BY <2>1, <2>2, <3>1
  <2>5. QED BY <2>3, <2>4
<1>16. Tiles(C, {a \in addrs : a < n + 1}, max)
  <2> HIDE DEF m
  <2>1. QED BY <1>7, <1>14, <1>15, <1>17, <1>19 DEF Tiles
<1>18. QED BY <1>13, <1>16 DEF C

\* What Clusters computes.
LEMMA ClustersTile ==
  ASSUME NEW top \in Nat, NEW addrs \in SUBSET (0..top), NEW gap \in Nat, gap # 0 \/ ClusterGap = 0,
         NEW max \in Nat \ {0}
  PROVE  Tiles(Scan!Clusters(addrs, gap, max), addrs, max)
<1> DEFINE W == Seq([start : Nat, count : Int])
           Step(w, k) == IF k - 1 \in addrs THEN Scan!AddTo(w, k - 1, gap, max) ELSE w
           Is(f, n) == f = [k \in 0..n |-> IF k = 0 THEN <<>>
                              ELSE IF k - 1 \in addrs THEN Scan!AddTo(f[k - 1], k - 1, gap, max) ELSE f[k - 1]]
           end == CHOOSE n \in {0} \union {a + 1 : a \in addrs} : \A a \in addrs : a < n
           below == CHOOSE f : Is(f, end)
<1>1. end \in Nat /\ \A a \in addrs : a < end
  <2> DEFINE above == {n \in Nat : \A a \in addrs : a < n}
  <2>1. top + 1 \in above  OBVIOUS
  <2>2. PICK n \in above : \A k \in above : n <= k  BY <2>1, Least
  <2>3. n \in {0} \union {a + 1 : a \in addrs}
    <3> SUFFICES ASSUME n # 0 PROVE \E a \in addrs : n = a + 1  OBVIOUS
    <3>1. n - 1 \in Nat /\ n - 1 \notin above  BY <2>2
    <3>2. PICK a \in addrs : ~(a < n - 1)  BY <3>1
    <3>3. QED BY <2>2, <3>2
  <2>4. \A a \in addrs : a < n  BY <2>2
  <2>5. end \in {0} \union {a + 1 : a \in addrs} /\ \A a \in addrs : a < end  BY <2>3, <2>4, Zenon
  <2> HIDE DEF end
  <2>6. QED BY <2>5
<1> HIDE DEF end
<1>2. <<>> \in W  BY EmptySeq
<1>3. ASSUME NEW k \in 1..end, NEW w \in W PROVE Step(w, k) \in W
  <2>1. k - 1 \in Nat  BY <1>1
  <2>2. CASE k - 1 \in addrs  BY <2>1, <2>2, AddTyped
  <2>3. CASE k - 1 \notin addrs  BY <2>3
  <2>4. QED BY <2>2, <2>3
<1> DEFINE G == [k \in 1..end |-> [w \in W |-> Step(w, k)]]
<1>4. G \in [1..end -> [W -> W]]
  <2> HIDE DEF W, Step
  <2>1. QED BY <1>3
<1>5. PICK g : Recursive(g, end, W, <<>>, G)
  <2> HIDE DEF G, W
  <2>1. QED BY <1>1, <1>2, <1>4, Recursion
<1>6. Is(g, end)
  <2>1. ASSUME NEW k \in 1..end
        PROVE  g[k] = IF k - 1 \in addrs THEN Scan!AddTo(g[k - 1], k - 1, gap, max) ELSE g[k - 1]
    <3>1. k - 1 \in 0..end  BY <1>1
    <3>2. g[k] = G[k][g[k - 1]] /\ g[k - 1] \in W  BY <1>5, <3>1 DEF Recursive
    <3> HIDE DEF W
    <3>3. QED BY <3>2
  <2>2. g = [k \in 0..end |-> g[k]] /\ g[0] = <<>>  BY <1>5 DEF Recursive
  <2>3. \A k \in 0..end : k # 0 => k \in 1..end  BY <1>1
  <2>4. \A k \in 0..end : g[k] = IF k = 0 THEN <<>>
                                 ELSE IF k - 1 \in addrs THEN Scan!AddTo(g[k - 1], k - 1, gap, max) ELSE g[k - 1]
    BY <2>1, <2>2, <2>3
  <2> HIDE DEF G
  <2>5. QED BY <2>2, <2>4
<1>7. Is(below, end)  BY <1>6
<1>8. Scan!Clusters(addrs, gap, max) = below[end]  BY DEF Scan!Clusters, end
<1> HIDE DEF below
<1>9. 0 \in 0..end /\ end \in 0..end  BY <1>1
<1>10. below[0] = <<>>  BY <1>7, <1>9
<1>11. ASSUME NEW k \in 1..end
       PROVE  below[k] = IF k - 1 \in addrs THEN Scan!AddTo(below[k - 1], k - 1, gap, max) ELSE below[k - 1]
  <2>1. k \in 0..end /\ k # 0  BY <1>1
  <2>2. QED BY <1>7, <2>1
<1> HIDE DEF Is
<1> DEFINE S == {k \in 0..end : Tiles(below[k], {a \in addrs : a < k}, max) /\ Below(below[k], k)}
<1>12. 0 \in S
  <2>1. Tiles(<<>>, {a \in addrs : a < 0}, max)
    <3>1. Len(<<>>) = 0 /\ <<>> \in Seq(BlocksOf(max)) /\ 1..0 = {}  BY EmptySeq
    <3>2. \A a \in addrs : a \in Nat  OBVIOUS
    <3>3. \A a \in addrs : ~(a < 0)  BY <3>2
    <3>4. {a \in addrs : a < 0} = {}  BY <3>3
    <3>5. QED BY <3>1, <3>4 DEF Tiles
  <2>2. Below(<<>>, 0)  BY EmptySeq DEF Below
  <2>3. QED BY <1>9, <1>10, <2>1, <2>2
<1>13. ASSUME NEW k \in 1..end, k - 1 \in S PROVE k \in S
  <2>1. k - 1 \in Nat /\ k \in Nat /\ k = (k - 1) + 1 /\ k \in 0..end  BY <1>1
  <2>2. Tiles(below[k - 1], {a \in addrs : a < k - 1}, max) /\ Below(below[k - 1], k - 1)  BY <1>13
  <2>3. CASE k - 1 \in addrs
    <3>1. below[k] = Scan!AddTo(below[k - 1], k - 1, gap, max)  BY <1>11, <2>3
    <3>2. /\ Tiles(below[k], {a \in addrs : a < (k - 1) + 1}, max)
          /\ Below(below[k], (k - 1) + 1)
      <4> DEFINE B == below[k - 1]
                 e == k - 1
      <4>1. addrs \in SUBSET Nat  OBVIOUS
      <4>2. e \in addrs /\ Tiles(B, {a \in addrs : a < e}, max) /\ Below(B, e)  BY <2>2, <2>3
      <4> HIDE DEF B, e
      <4>3. /\ Tiles(Scan!AddTo(B, e, gap, max), {a \in addrs : a < e + 1}, max)
            /\ Below(Scan!AddTo(B, e, gap, max), e + 1)
        BY <4>1, <4>2, AddTiles, ZenonT(40)
      <4>4. QED BY <3>1, <4>3 DEF B, e
    <3>3. QED BY <2>1, <3>2
  <2>4. CASE k - 1 \notin addrs
    <3>1. below[k] = below[k - 1]  BY <1>11, <2>4
    <3>2. {a \in addrs : a < k} = {a \in addrs : a < k - 1}
      <4>1. \A a \in addrs : a \in Nat /\ a # k - 1  BY <2>4
      <4>2. \A a \in addrs : a < k <=> a < k - 1  BY <2>1, <4>1
      <4>3. QED BY <4>2
    <3>3. Below(below[k], k)
      <4>1. \A i \in 1..Len(below[k]) :
              below[k][i].start \in Nat /\ below[k][i].count \in 1..max /\ below[k][i].start + below[k][i].count <= k - 1
        BY <2>2, <3>1, BlockTyped DEF Tiles, Below
      <4>2. QED BY <2>1, <4>1 DEF Below
    <3>4. QED BY <2>1, <2>2, <3>1, <3>2, <3>3
  <2>5. QED BY <2>3, <2>4
<1> HIDE DEF S
<1>14. \A k \in 1..end : k - 1 \in S => k \in S  BY <1>13
<1>15. end \in S
  <2>1. \A k \in 0..end : k \in S  BY <1>1, <1>12, <1>14, UpTo, Zenon
  <2>2. QED BY <1>9, <2>1
<1>16. {a \in addrs : a < end} = addrs  BY <1>1
<1>17. QED BY <1>8, <1>15, <1>16 DEF S

\* Products keep the order of their factors.
LEMMA TimesMonotone ==
  ASSUME NEW a \in Int, NEW b \in Int, NEW s \in Nat, a <= b
  PROVE  a * s \in Int /\ b * s \in Int /\ a * s <= b * s
<1>1. (b - a) * s \in Nat  OBVIOUS
<1>2. QED BY <1>1

\* The blocks of a sweep.
LEMMA SweepTiles ==
  ASSUME Scan!ScanAssumption
  PROVE  Tiles(Scan!SweepBlocks, Scan!Range, BlockSize)
<1> DEFINE F        == FirstAddress
           s        == BlockSize
           n        == LastAddress - FirstAddress + 1
           K        == (n + s - 1) \div s
           count(k) == IF k * s <= n THEN s ELSE n - (k - 1) * s
           B        == Scan!SweepBlocks
<1>1. F \in Nat /\ n \in Nat /\ n > 0 /\ s \in Nat \ {0}  BY DEF Scan!ScanAssumption
<1>2. B = [k \in 1..K |-> Scan!Block(F + (k - 1) * s, count(k))]  BY DEF Scan!SweepBlocks
<1> HIDE DEF F, n, s, B
<1>3. K \in Nat /\ K * s \in Int /\ K * s >= n /\ (K - 1) * s < n
  <2>1. n + s - 1 \in Nat  BY <1>1
  <2>2. K \in Nat /\ (n + s - 1) % s \in 0..(s - 1) /\ n + s - 1 = s * K + ((n + s - 1) % s)
    BY <1>1, <2>1, Quotient
  <2> HIDE DEF K
  <2>3. s * K = K * s /\ (K - 1) * s = K * s - s /\ K * s \in Int  BY <1>1, <2>2
  <2>4. QED BY <1>1, <2>2, <2>3
<1> HIDE DEF K
<1>4. ASSUME NEW k \in 1..K
      PROVE  /\ (k - 1) * s \in Nat /\ k * s = (k - 1) * s + s
             /\ count(k) \in 1..s /\ (k - 1) * s + count(k) <= n
             /\ count(k) # s => (k - 1) * s + count(k) = n
             /\ (k - 1) * s + count(k) <= k * s
             /\ (k - 1) * s + count(k) < n => count(k) = s
  <2>1. k \in Int /\ k - 1 \in Nat /\ k - 1 <= K - 1  BY <1>3
  <2>2. (k - 1) * s <= (K - 1) * s  BY <1>1, <1>3, <2>1, TimesMonotone
  <2>3. (k - 1) * s \in Nat /\ k * s = (k - 1) * s + s  BY <1>1, <2>1
  <2>4. (K - 1) * s \in Int  BY <1>1, <1>3
  <2>5. (k - 1) * s < n  BY <1>1, <1>3, <2>2, <2>3, <2>4
  <2> DEFINE x == (k - 1) * s
  <2>6. count(k) = IF x + s <= n THEN s ELSE n - x  BY <2>3
  <2> HIDE DEF x, count
  <2>7. x \in Nat /\ x < n /\ k * s = x + s  BY <2>3, <2>5 DEF x
  <2>8. /\ count(k) \in 1..s /\ x + count(k) <= n
        /\ count(k) # s => x + count(k) = n
        /\ x + count(k) <= k * s /\ (x + count(k) < n => count(k) = s)
    BY <1>1, <2>6, <2>7
  <2>9. QED BY <2>3, <2>8 DEF x
<1> DEFINE from(k) == F + (k - 1) * s
<1>5. \A k \in 1..K : B[k] = Scan!Block(from(k), count(k))  BY <1>2
<1> HIDE DEF count
<1>6. ASSUME NEW k \in 1..K
      PROVE  B[k].start = from(k) /\ B[k].count = count(k) /\ from(k) \in Nat /\ count(k) \in 1..s
  <2>1. (k - 1) * s \in Nat /\ count(k) \in 1..s  BY <1>4
  <2>2. from(k) \in Nat  BY <1>1, <2>1
  <2> HIDE DEF from
  <2>3. B[k] = Scan!Block(from(k), count(k))  BY <1>5
  <2>4. QED BY <2>1, <2>2, <2>3 DEF Scan!Block
<1>7. B \in Seq(BlocksOf(s)) /\ Len(B) = K
  <2>1. ASSUME NEW k \in 1..K PROVE B[k] \in BlocksOf(s)
    <3> HIDE DEF from
    <3>1. B[k] = Scan!Block(from(k), count(k)) /\ from(k) \in Nat /\ count(k) \in 1..s  BY <1>5, <1>6
    <3>2. QED BY <3>1 DEF Scan!Block, BlocksOf
  <2>2. B \in [1..K -> BlocksOf(s)]  BY <1>2, <2>1
  <2>3. QED BY <1>3, <2>2
<1>8. ASSUME NEW i \in 1..K, NEW j \in 1..K, i < j PROVE B[i].start + B[i].count <= B[j].start
  <2>1. i \in Int /\ j - 1 \in Int /\ i <= j - 1  BY <1>3, <1>8
  <2>2. i * s <= (j - 1) * s /\ i * s \in Int /\ (j - 1) * s \in Int  BY <1>1, <2>1, TimesMonotone
  <2>3. (i - 1) * s + count(i) <= i * s /\ (i - 1) * s \in Nat /\ count(i) \in Int  BY <1>4
  <2>4. F + (i - 1) * s + count(i) <= F + (j - 1) * s  BY <1>1, <2>2, <2>3
  <2>5. QED BY <1>6, <2>4
<1>9. ASSUME NEW a \in Scan!Range PROVE \E i \in 1..K : a \in Scan!AddressesIn(B[i])
  <2> DEFINE t == a - F
             k == (t \div s) + 1
  <2>1. a \in Int /\ t \in Nat /\ t < n  BY DEF Scan!Range, Scan!ScanAssumption, F, n
  <2>2. t \div s \in Nat /\ t % s \in 0..(s - 1) /\ t = s * (t \div s) + (t % s)  BY <1>1, <2>1, Quotient
  <2>3. k \in Nat /\ k - 1 \in Nat /\ (k - 1) * s <= t /\ t < (k - 1) * s + s
    <3> DEFINE d == t \div s
    <3>1. s * d = d * s /\ d * s \in Nat  BY <1>1, <2>2
    <3>2. d * s <= t /\ t < d * s + s  BY <1>1, <2>1, <2>2, <3>1
    <3>3. k - 1 = d /\ k \in Nat  BY <2>2
    <3>4. QED BY <2>2, <3>2, <3>3
  <2> HIDE DEF k, t
  <2>4. k \in 1..K
    <3> SUFFICES ASSUME K < k PROVE FALSE  BY <1>3, <2>3 DEF k
    <3>1. K * s <= (k - 1) * s  BY <1>1, <1>3, <2>3, TimesMonotone
    <3>2. (k - 1) * s \in Int  BY <1>1, <2>3
    <3>3. QED BY <1>1, <1>3, <2>1, <2>3, <3>1, <3>2
  <2>5. from(k) <= a /\ a < from(k) + count(k)
    <3>1. (k - 1) * s \in Nat /\ count(k) \in Int /\ (count(k) # s => (k - 1) * s + count(k) = n)  BY <1>4, <2>4
    <3>2. a = F + t  BY <1>1, <2>1 DEF t
    <3>3. QED BY <1>1, <2>1, <2>3, <3>1, <3>2
  <2>6. a \in Scan!AddressesIn(B[k])
    <3> HIDE DEF from
    <3>1. QED BY <1>6, <2>1, <2>4, <2>5 DEF Scan!AddressesIn
  <2>7. QED BY <2>4, <2>6
<1>10. ASSUME NEW i \in 1..K, NEW a \in Scan!AddressesIn(B[i]), a + 1 \in Scan!Range
       PROVE  a + 1 \in Scan!AddressesIn(B[i]) \/ B[i] = Scan!Block(a + 1 - s, s)
  <2>1. a \in Int /\ from(i) <= a /\ a < from(i) + count(i) /\ a + 1 < F + n /\ from(i) \in Nat /\ count(i) \in 1..s
    <3>1. a + 1 < F + n  BY <1>10 DEF Scan!Range, Scan!ScanAssumption, F, n
    <3> HIDE DEF from
    <3>2. QED BY <1>6, <1>10, <3>1 DEF Scan!AddressesIn
  <2>2. CASE a + 1 < from(i) + count(i)
    <3> HIDE DEF from
    <3>1. a + 1 \in Scan!AddressesIn(B[i])  BY <1>1, <1>6, <2>1, <2>2 DEF Scan!AddressesIn
    <3>2. QED BY <3>1
  <2>3. CASE a + 1 = from(i) + count(i)
    <3>1. (i - 1) * s + count(i) < n  BY <1>1, <1>4, <2>1, <2>3
    <3>2. count(i) = s  BY <1>4, <3>1
    <3> HIDE DEF from
    <3>3. from(i) = a + 1 - s  BY <1>1, <2>1, <2>3, <3>2
    <3>4. QED BY <1>5, <3>2, <3>3
  <2>4. QED
    <3> HIDE DEF from
    <3>1. QED BY <1>1, <2>1, <2>2, <2>3
<1>12. ASSUME NEW k \in 1..K
       PROVE  B[k].start \in Scan!Range /\ B[k].start + B[k].count - 1 \in Scan!Range
  <2> DEFINE x == (k - 1) * s
  <2>1. x \in Nat /\ count(k) \in 1..s /\ x + count(k) <= n /\ from(k) = F + x  BY <1>4
  <2>2. B[k].start = from(k) /\ B[k].count = count(k)  BY <1>6
  <2>3. Scan!Range = F..(F + n - 1)  BY DEF Scan!Range, Scan!ScanAssumption, F, n
  <2> HIDE DEF x, from
  <2>4. QED BY <1>1, <2>1, <2>2, <2>3
<1>11. Tiles(B, Scan!Range, s)  BY <1>7, <1>8, <1>9, <1>10, <1>12 DEF Tiles
<1>13. QED BY <1>11 DEF B, s

----------------------------------------------------------------------------
(* The verdict.                                                            *)

\* A share a / p is compared with b / q without dividing; of equal shares the greater number counts.
NoLess(a, p, b, q) == b * p < a * q \/ (b * p = a * q /\ b <= a)

\* Of two shares one is no less than the other.
LEMMA NoLessTotal ==
  ASSUME NEW a \in Nat, NEW b \in Nat, NEW p \in Nat \ {0}, NEW q \in Nat \ {0}
  PROVE  NoLess(a, p, b, q) \/ NoLess(b, q, a, p)
<1>1. b * p \in Int /\ a * q \in Int  OBVIOUS
<1>2. QED BY <1>1 DEF NoLess

\* Shares are ordered.
LEMMA NoLessTransitive ==
  ASSUME NEW a \in Nat, NEW b \in Nat, NEW c \in Nat,
         NEW p \in Nat \ {0}, NEW q \in Nat \ {0}, NEW r \in Nat \ {0},
         NoLess(a, p, b, q), NoLess(b, q, c, r)
  PROVE  NoLess(a, p, c, r)
<1>1. /\ b * p \in Nat /\ a * q \in Nat /\ c * q \in Nat /\ b * r \in Nat /\ c * p \in Nat /\ a * r \in Nat
      /\ p \in Nat /\ q \in Nat /\ r \in Nat
  OBVIOUS
<1>2. b * p <= a * q /\ c * q <= b * r  BY <1>1 DEF NoLess
<1>3. (c * q) * p <= (b * r) * p /\ (b * p) * r <= (a * q) * r  BY <1>1, <1>2, TimesMonotone
<1>4. (c * q) * p = (c * p) * q /\ (b * r) * p = (b * p) * r /\ (a * q) * r = (a * r) * q  BY <1>1
<1>5. (c * p) * q \in Int /\ (a * r) * q \in Int /\ (b * p) * r \in Int  BY <1>1
<1>6. (c * p) * q <= (b * p) * r /\ (b * p) * r <= (a * r) * q  BY <1>3, <1>4, <1>5
<1>7. c * p <= a * r
  <2> SUFFICES ASSUME a * r + 1 <= c * p PROVE FALSE  BY <1>1
  <2>1. (a * r + 1) * q <= (c * p) * q  BY <1>1, TimesMonotone
  <2>2. (a * r + 1) * q = (a * r) * q + q  BY <1>1
  <2>3. QED BY <1>1, <1>5, <1>6, <2>1, <2>2
<1>8. CASE c * p = a * r
  <2>1. (c * p) * q = (a * r) * q  BY <1>8
  <2>2. (c * q) * p = (b * r) * p /\ (b * p) * r = (a * q) * r  BY <1>3, <1>4, <1>5, <1>6, <2>1
  <2>3. b * p = a * q
    <3> SUFFICES ASSUME b * p + 1 <= a * q PROVE FALSE  BY <1>1, <1>2
    <3>1. (b * p + 1) * r <= (a * q) * r  BY <1>1, TimesMonotone
    <3>2. (b * p + 1) * r = (b * p) * r + r  BY <1>1
    <3>3. QED BY <1>1, <1>5, <2>2, <3>1, <3>2
  <2>4. c * q = b * r
    <3> SUFFICES ASSUME c * q + 1 <= b * r PROVE FALSE  BY <1>1, <1>2
    <3>1. (c * q + 1) * p <= (b * r) * p  BY <1>1, TimesMonotone
    <3>2. (c * q + 1) * p = (c * q) * p + p  BY <1>1
    <3>3. (c * q) * p \in Int  BY <1>1
    <3>4. QED BY <1>1, <2>2, <3>1, <3>2, <3>3
  <2>5. b <= a /\ c <= b  BY <1>1, <2>3, <2>4 DEF NoLess
  <2>6. QED BY <1>8, <2>5 DEF NoLess
<1>9. QED BY <1>1, <1>7, <1>8 DEF NoLess

Everything == {Variants[i] : i \in DOMAIN Variants}
Answered(v) == Scan!Tally(v, "ok")
Weight(v)   == IF Scan!Attempted(v) = 0 THEN 1 ELSE Scan!Attempted(v)

\* Tallies are numbers, and the attempts are those answered and those refused.
LEMMA TallyTyped ==
  ASSUME Scan!ScanAssumption, NEW v \in Everything
  PROVE  /\ Scan!Tally(v, "ok") \in Nat /\ Scan!Tally(v, "unreadable") \in Nat
         /\ Answered(v) \in Nat /\ Weight(v) \in Nat \ {0}
         /\ Scan!Attempted(v) = Scan!Tally(v, "ok") + Scan!Tally(v, "unreadable")
<1>1. Map[v] \in Seq(SUBSET Scan!Range)  BY DEF Scan!ScanAssumption, Everything
<1>2. DOMAIN Map[v] = 1..Len(Map[v]) /\ Len(Map[v]) \in Nat  BY <1>1, LenProperties, Zenon
<1>3. IsFiniteSet(1..Len(Map[v]))  BY <1>2, FS_Interval
<1>4. ASSUME NEW status PROVE Scan!Tally(v, status) \in Nat
  <2> DEFINE T == {k \in DOMAIN Map[v] : Scan!EntryStatus(Map[v][k]) = status}
  <2>1. T \subseteq 1..Len(Map[v])  BY <1>2
  <2>2. IsFiniteSet(T)  BY <1>3, <2>1, FS_Subset
  <2>3. Cardinality(T) \in Nat  BY <2>2, FS_CardinalityType
  <2>4. Scan!Cardinality(T) = Cardinality(T)  BY DEF Scan!Cardinality, Cardinality
  <2>5. QED BY <2>3, <2>4 DEF Scan!Tally
<1>5. QED BY <1>4 DEF Scan!Attempted, Answered, Weight

\* Better compares shares as NoLess does.
LEMMA BetterIs ==
  ASSUME Scan!ScanAssumption, NEW v \in Everything, NEW w \in Everything
  PROVE  ~Scan!Better(w, v) <=> NoLess(Answered(v), Weight(v), Answered(w), Weight(w))
<1>1. /\ Answered(v) \in Nat /\ Weight(v) \in Nat \ {0} /\ Answered(w) \in Nat /\ Weight(w) \in Nat \ {0}
  BY TallyTyped
<1> DEFINE x == Answered(w) * Weight(v)
           y == Answered(v) * Weight(w)
<1>2. x \in Int /\ y \in Int  BY <1>1
<1>3. Scan!Better(w, v) <=> x > y \/ (x = y /\ Answered(w) > Answered(v))
  BY DEF Scan!Better, Answered, Weight
<1>4. NoLess(Answered(v), Weight(v), Answered(w), Weight(w)) <=> x < y \/ (x = y /\ Answered(w) <= Answered(v))
  BY DEF NoLess
<1> HIDE DEF x, y
<1>5. QED BY <1>1, <1>2, <1>3, <1>4

\* Some variant is eligible.
LEMMA EligibleTyped ==
  ASSUME Scan!ScanAssumption
  PROVE  Scan!Eligible \subseteq Everything /\ Scan!Eligible # {}
<1>1. 1 \in DOMAIN Variants  BY DEF Scan!ScanAssumption
<1>2. Everything # {}  BY <1>1 DEF Everything
<1>3. QED BY <1>2 DEF Scan!Eligible, Everything

\* Some variant is not beaten by any other.
LEMMA BestIsBest ==
  ASSUME Scan!ScanAssumption
  PROVE  Scan!Best \in Scan!Eligible /\ \A w \in Scan!Eligible : ~Scan!Better(w, Scan!Best)
<1> DEFINE n == Len(Variants)
           E(k) == {i \in 1..k : Variants[i] \in Scan!Eligible}
           AtLeast(i, j) == ~Scan!Better(Variants[j], Variants[i])
           Leads(k, i) == i \in E(k) /\ \A j \in E(k) : AtLeast(i, j)
           S == {k \in 0..n : E(k) # {} => \E i \in E(k) : Leads(k, i)}
<1>1. n \in Nat \ {0} /\ DOMAIN Variants = 1..n  BY DEF Scan!ScanAssumption
<1>2. ASSUME NEW i \in 1..n PROVE Variants[i] \in Everything  BY <1>1 DEF Everything
<1>3. ASSUME NEW i \in 1..n, NEW j \in 1..n PROVE AtLeast(i, j) \/ AtLeast(j, i)
  BY <1>2, BetterIs, TallyTyped, NoLessTotal
<1>4. ASSUME NEW i \in 1..n, NEW j \in 1..n, NEW k \in 1..n, AtLeast(i, j), AtLeast(j, k) PROVE AtLeast(i, k)
  <2>1. /\ Variants[i] \in Everything /\ Variants[j] \in Everything /\ Variants[k] \in Everything  BY <1>2
  <2> DEFINE a(x) == Answered(Variants[x])
             p(x) == Weight(Variants[x])
  <2>2. \A x \in {i, j, k} : a(x) \in Nat /\ p(x) \in Nat \ {0}  BY <2>1, TallyTyped
  <2>3. NoLess(a(i), p(i), a(j), p(j)) /\ NoLess(a(j), p(j), a(k), p(k))  BY <1>4, <2>1, BetterIs
  <2> HIDE DEF a, p
  <2>4. NoLess(a(i), p(i), a(k), p(k))  BY <2>2, <2>3, NoLessTransitive
  <2>5. QED BY <2>1, <2>4, BetterIs DEF a, p
<1> HIDE DEF AtLeast
<1>5. 0 \in S  BY <1>1
<1>6. ASSUME NEW k \in 1..n, k - 1 \in S PROVE k \in S
  <2>1. k \in Nat /\ k \in 0..n /\ E(k - 1) \subseteq 1..n /\ E(k) \subseteq E(k - 1) \union {k}  BY <1>1
  <2> SUFFICES ASSUME E(k) # {} PROVE \E i \in E(k) : Leads(k, i)  BY <2>1
  <2>2. E(k - 1) \subseteq E(k)  BY <2>1
  <2>3. CASE k \notin E(k)
    <3>1. E(k) = E(k - 1)  BY <2>1, <2>2, <2>3
    <3>2. PICK i \in E(k - 1) : Leads(k - 1, i)  BY <1>6, <3>1
    <3>3. QED BY <3>1, <3>2
  <2>4. CASE k \in E(k) /\ E(k - 1) = {}
    <3>1. E(k) = {k}  BY <2>1, <2>4
    <3>2. AtLeast(k, k)  BY <1>3
    <3>3. QED BY <3>1, <3>2
  <2>5. CASE k \in E(k) /\ E(k - 1) # {}
    <3>1. PICK i \in E(k - 1) : Leads(k - 1, i)  BY <1>6, <2>5
    <3>2. i \in 1..n /\ i \in E(k) /\ \A j \in E(k - 1) : AtLeast(i, j)  BY <2>1, <2>2, <3>1
    <3> HIDE DEF E
    <3>3. CASE AtLeast(i, k)
      <4>1. \A j \in E(k) : AtLeast(i, j)  BY <2>1, <3>2, <3>3
      <4>2. QED BY <3>2, <4>1
    <3>4. CASE ~AtLeast(i, k)
      <4>1. AtLeast(k, i) /\ AtLeast(k, k)  BY <1>3, <3>2, <3>4
      <4>2. ASSUME NEW j \in E(k) PROVE AtLeast(k, j)
        <5>1. CASE j = k  BY <4>1, <5>1
        <5>2. CASE j # k
          <6>1. j \in E(k - 1) /\ j \in 1..n  BY <2>1, <5>2
          <6>2. QED BY <1>4, <3>2, <4>1, <6>1
        <5>3. QED BY <5>1, <5>2
      <4>3. QED BY <2>5, <4>2
    <3>5. QED BY <3>3, <3>4
  <2>6. QED BY <2>3, <2>4, <2>5
<1> DEFINE best == {i \in DOMAIN Variants :
                     Variants[i] \in Scan!Eligible /\ \A w \in Scan!Eligible : ~Scan!Better(w, Variants[i])}
<1>7. best # {}
  <2>1. n \in S
    <3> HIDE DEF S
    <3>1. \A k \in 1..n : k - 1 \in S => k \in S  BY <1>6
    <3>2. \A k \in 0..n : k \in S  BY <1>1, <1>5, <3>1, UpTo, Zenon
    <3>3. QED BY <1>1, <3>2
  <2>2. \A w \in Scan!Eligible : \E j \in E(n) : w = Variants[j]
    BY <1>1, EligibleTyped DEF Everything
  <2>3. PICK i \in E(n) : Leads(n, i)  BY <2>1, <2>2, EligibleTyped
  <2>4. \A w \in Scan!Eligible : ~Scan!Better(w, Variants[i])
    <3> HIDE DEF E
    <3>1. QED BY <2>2, <2>3 DEF AtLeast
  <2>5. QED BY <1>1, <2>3, <2>4
<1>8. \E i \in best : \A j \in best : i <= j
  <2>1. best \in SUBSET Nat  BY <1>1
  <2> HIDE DEF best
  <2>2. QED BY <1>7, <2>1, Least
<1>9. PICK i \in best : Scan!Best = Variants[i]
  <2> DEFINE m == CHOOSE i \in best : \A j \in best : i <= j
  <2>1. Scan!Best = Variants[m]  BY DEF Scan!Best
  <2>2. m \in best
    <3> HIDE DEF best
    <3>1. QED BY <1>8
  <2> HIDE DEF m, best
  <2>3. QED BY <2>1, <2>2
<1>10. QED BY <1>9

\* If a variant was answered for entirely, the verdict's was.
LEMMA VerdictTrue ==
  ASSUME Scan!ScanAssumption,
         NEW v \in Scan!Eligible, Scan!Attempted(v) > 0, Scan!Tally(v, "unreadable") = 0
  PROVE  Scan!Tally(Scan!Best, "unreadable") = 0
<1> DEFINE b == Scan!Best
<1>1. v \in Everything /\ b \in Everything /\ ~Scan!Better(v, b)  BY EligibleTyped, BestIsBest
<1>2. NoLess(Answered(b), Weight(b), Answered(v), Weight(v))  BY <1>1, BetterIs
<1> DEFINE u == Scan!Tally(b, "unreadable")
<1>3. /\ Answered(b) \in Nat /\ Weight(b) \in Nat \ {0} /\ u \in Nat
      /\ Weight(b) = IF Answered(b) + u = 0 THEN 1 ELSE Answered(b) + u
      /\ Answered(v) \in Nat \ {0} /\ Weight(v) = Answered(v)
  BY <1>1, TallyTyped DEF Answered, Weight
<1> HIDE DEF b, u
<1>4. Weight(b) <= Answered(b)
  <2> DEFINE x == Answered(v)
             y == Answered(b)
             z == Weight(b)
  <2>1. x \in Nat \ {0} /\ y \in Nat /\ z \in Nat /\ x * z <= y * x
    <3>1. x \in Nat \ {0} /\ y \in Nat /\ z \in Nat /\ NoLess(y, z, x, x)  BY <1>2, <1>3
    <3> HIDE DEF x, y, z
    <3>2. x * z \in Int /\ y * x \in Int  BY <3>1
    <3>3. QED BY <3>1, <3>2 DEF NoLess
  <2> HIDE DEF x, y, z
  <2> SUFFICES ASSUME y + 1 <= z PROVE FALSE  BY <2>1 DEF y, z
  <2>2. (y + 1) * x <= z * x /\ (y + 1) * x \in Int /\ z * x \in Int  BY <2>1, TimesMonotone
  <2>3. (y + 1) * x = y * x + x /\ z * x = x * z /\ y * x \in Int  BY <2>1
  <2>4. QED BY <2>1, <2>2, <2>3
<1>5. u = 0  BY <1>3, <1>4
<1>6. QED BY <1>5 DEF u, b

----------------------------------------------------------------------------
(* The scan.                                                               *)

\* The addresses of the first d blocks, and those of the next that are not left to be read one by one.
Before(B, d) == {a \in Nat : \E i \in 1..d : a \in Scan!AddressesIn(B[i])}
Reached(B, d, left) ==
  Before(B, d) \union IF left = {} THEN {} ELSE Scan!AddressesIn(B[d + 1]) \ left

\* The scan of the blocks B is done with d of them.
Position(B, d) ==
  /\ d \in 0..Len(B) /\ blocks = SubSeq(B, d + 1, Len(B))
  /\ single # {} => d < Len(B) /\ single \subseteq Scan!AddressesIn(B[d + 1])

\* What was reached is known, and two adjacent words of a block are of one reading, unless it failed.
Progress(B, d) ==
  /\ DOMAIN values \union unreadable \subseteq Reached(B, d, single)
  /\ needed \intersect Reached(B, d, single) \subseteq DOMAIN values \union unreadable
  /\ single # {} => Scan!AddressesIn(B[d + 1]) \subseteq cut
  /\ \A i \in 1..d : \A a \in Scan!AddressesIn(B[i]) \intersect DOMAIN values :
       a + 1 \in Scan!AddressesIn(B[i]) \intersect DOMAIN values =>
         values[a] = values[a + 1] \/ {a, a + 1} \subseteq cut

Underway ==
  \E B \in Scan!Planned(needed) : Tiles(B, needed, BlockSize) /\ \E d \in Nat : Position(B, d) /\ Progress(B, d)

ScanInv ==
  /\ attempt \in Nat /\ noise \in Nat
  /\ DOMAIN values \intersect unreadable = {}
  /\ unreadable \subseteq refused \/ noise > Retries
  /\ blocks # <<>> /\ Scan!Asked \intersect refused = {} => attempt <= noise
  /\ needed = {} =>
       attempt = 0 /\ blocks = <<>> /\ single = {} /\ DOMAIN values = {} /\ unreadable = {} /\ likely = None
  /\ needed # {} => Underway
  /\ likely # None => blocks = <<>> /\ likely = Scan!Best

\* Nothing is asked for before the scan.
LEMMA ScanInitial == ASSUME Scan!Init PROVE ScanInv
BY DEF Scan!Init, ScanInv

\* Blocks have addresses, no two blocks the same.
LEMMA BlockAddresses ==
  ASSUME Scan!ScanAssumption, NEW B, NEW addrs, Tiles(B, addrs, BlockSize), NEW k \in 1..Len(B)
  PROVE  /\ Scan!AddressesIn(B[k]) \subseteq Nat /\ Scan!AddressesIn(B[k]) # {}
         /\ \A i \in 1..Len(B) : i < k => Scan!AddressesIn(B[i]) \intersect Scan!AddressesIn(B[k]) = {}
<1>1. \A i \in 1..Len(B) : B[i].start \in Nat /\ B[i].count \in 1..BlockSize  BY BlockTyped DEF Tiles
<1>2. B[k].start \in Nat /\ B[k].count \in Nat /\ B[k].count >= 1  BY <1>1 DEF Scan!ScanAssumption
<1>3. Scan!AddressesIn(B[k]) \subseteq Nat /\ B[k].start \in Scan!AddressesIn(B[k])  BY <1>2 DEF Scan!AddressesIn
<1>4. ASSUME NEW i \in 1..Len(B), i < k, NEW a \in Scan!AddressesIn(B[i]), a \in Scan!AddressesIn(B[k]) PROVE FALSE
  <2>1. B[i].start \in Nat /\ B[i].count \in Nat /\ B[i].start + B[i].count <= B[k].start
    BY <1>1, <1>4 DEF Tiles, Scan!ScanAssumption
  <2>2. QED BY <1>2, <1>4, <2>1, SMTT(30) DEF Scan!AddressesIn
<1>5. QED BY <1>3, <1>4

\* What the current transaction asks for was not reached before.
LEMMA AskedIsNew ==
  ASSUME Scan!ScanAssumption, NEW B, Tiles(B, needed, BlockSize), NEW d, Position(B, d), blocks # <<>>
  PROVE  /\ d + 1 \in 1..Len(B) /\ d \in Nat /\ Head(blocks) = B[d + 1]
         /\ Scan!Asked \subseteq Scan!AddressesIn(B[d + 1]) /\ Scan!Asked # {}
         /\ single # {} => Scan!Asked \subseteq single
         /\ single = {} => Scan!Asked = Scan!AddressesIn(B[d + 1])
         /\ Scan!Asked \intersect Reached(B, d, single) = {}
<1>1. B \in Seq(BlocksOf(BlockSize)) /\ Len(B) \in Nat  BY BlockTyped DEF Tiles
<1>2. d \in Nat /\ d + 1 \in 1..Len(B)
  <2>1. d \in 0..Len(B)  BY DEF Position
  <2>2. d # Len(B)
    <3> SUFFICES ASSUME d = Len(B) PROVE FALSE  OBVIOUS
    <3>1. SubSeq(B, d + 1, Len(B)) = <<>>  BY <1>1, <2>1, SubSeqEmpty
    <3>2. QED BY <3>1 DEF Position
  <2>3. QED BY <1>1, <2>1, <2>2
<1>3. Head(blocks) = B[d + 1]
  <2>1. Len(B) \in (d + 1)..Len(B)  BY <1>1, <1>2
  <2>2. QED BY <1>1, <1>2, <2>1, HeadTailOfSubSeq DEF Position
<1>4. Scan!AddressesIn(B[d + 1]) \subseteq Nat /\ Scan!AddressesIn(B[d + 1]) # {}  BY <1>2, BlockAddresses
<1>8. ASSUME NEW a \in Scan!AddressesIn(B[d + 1]), a \in Before(B, d) PROVE FALSE
  <2>1. PICK i \in 1..d : a \in Scan!AddressesIn(B[i])  BY <1>8 DEF Before
  <2>2. i \in 1..Len(B) /\ i < d + 1  BY <1>1, <1>2
  <2>3. Scan!AddressesIn(B[i]) \intersect Scan!AddressesIn(B[d + 1]) = {}  BY <1>2, <2>2, BlockAddresses
  <2>4. QED BY <1>8, <2>1, <2>3
<1>5. CASE single = {}
  <2>1. Scan!Asked = Scan!AddressesIn(B[d + 1])  BY <1>3, <1>5 DEF Scan!Asked
  <2>2. Scan!Asked \intersect Before(B, d) = {}  BY <1>8, <2>1
  <2>3. QED BY <1>2, <1>3, <1>4, <1>5, <2>1, <2>2 DEF Reached
<1>6. CASE single # {}
  <2>1. single \subseteq Scan!AddressesIn(B[d + 1]) /\ single \in SUBSET Nat  BY <1>4, <1>6 DEF Position
  <2>2. \E a \in single : \A b \in single : a <= b  BY <1>6, <2>1, Least
  <2>3. Scan!Asked \subseteq single /\ Scan!Asked # {}
    <3> DEFINE a == CHOOSE a \in single : \A b \in single : a <= b
    <3>1. a \in single  BY <2>2
    <3>2. Scan!Asked = {a}  BY <1>6 DEF Scan!Asked
    <3> HIDE DEF a
    <3>3. QED BY <3>1, <3>2
  <2>4. Scan!Asked \intersect Before(B, d) = {}  BY <1>8, <2>1, <2>3
  <2>5. QED BY <1>2, <1>3, <1>6, <2>1, <2>3, <2>4 DEF Reached
<1>7. QED BY <1>5, <1>6

\* With a transaction that is over, what it asked for is reached.
LEMMA TransactionMoves ==
  ASSUME Scan!ScanAssumption, NEW B, Tiles(B, needed, BlockSize), NEW d, Position(B, d), blocks # <<>>,
         Scan!NextTransaction
  PROVE  \E e \in Nat :
           /\ Position(B, e)'
           /\ Reached(B, e, single') = Reached(B, d, single) \union Scan!Asked
           /\ e = d \/ (e = d + 1 /\ Scan!LastOfBlock)
           /\ single' # {} => single # {} /\ e = d
<1>1. /\ d + 1 \in 1..Len(B) /\ d \in Nat /\ Head(blocks) = B[d + 1]
      /\ Scan!Asked \subseteq Scan!AddressesIn(B[d + 1]) /\ Scan!Asked # {}
      /\ single # {} => Scan!Asked \subseteq single
      /\ single = {} => Scan!Asked = Scan!AddressesIn(B[d + 1])
  BY AskedIsNew
<1>2. B \in Seq(BlocksOf(BlockSize)) /\ Len(B) \in Nat  BY BlockTyped DEF Tiles
<1>3. /\ single' = single \ Scan!Asked
      /\ blocks' = IF Scan!LastOfBlock THEN Tail(blocks) ELSE blocks
  BY DEF Scan!NextTransaction
<1>4. CASE Scan!LastOfBlock
  <2>1. blocks' = SubSeq(B, (d + 1) + 1, Len(B))
    <3>1. Len(B) \in (d + 1)..Len(B)  BY <1>1, <1>2
    <3>2. Tail(SubSeq(B, d + 1, Len(B))) = SubSeq(B, (d + 1) + 1, Len(B))
      BY <1>1, <1>2, <3>1, HeadTailOfSubSeq
    <3>3. QED BY <1>3, <1>4, <3>2 DEF Position
  <2>2. single' = {}  BY <1>3, <1>4 DEF Scan!LastOfBlock
  <2>3. Before(B, d + 1) = Before(B, d) \union Scan!AddressesIn(B[d + 1])
    <3>1. Scan!AddressesIn(B[d + 1]) \subseteq Nat  BY <1>1, BlockAddresses
    <3>2. 1..(d + 1) = (1..d) \union {d + 1}  BY <1>1
    <3>3. QED BY <3>1, <3>2 DEF Before
  <2>4. Reached(B, d, single) \union Scan!Asked = Before(B, d) \union Scan!AddressesIn(B[d + 1])
    BY <1>1, <1>4 DEF Reached, Scan!LastOfBlock
  <2>5. Position(B, d + 1)'  BY <1>1, <1>2, <2>1, <2>2 DEF Position
  <2>6. Reached(B, d + 1, single') = Before(B, d + 1)  BY <2>2 DEF Reached
  <2>7. QED BY <1>1, <1>4, <2>2, <2>3, <2>4, <2>5, <2>6
<1>5. CASE ~Scan!LastOfBlock
  <2>1. single # {} /\ single' # {} /\ single' \subseteq single  BY <1>1, <1>3, <1>5 DEF Scan!LastOfBlock
  <2>2. Position(B, d)'  BY <1>3, <1>5, <2>1 DEF Position
  <2>3. Reached(B, d, single') = Reached(B, d, single) \union Scan!Asked
    BY <1>1, <1>3, <2>1 DEF Reached
  <2>4. QED BY <1>1, <2>1, <2>2, <2>3
<1>6. QED BY <1>4, <1>5

\* The blocks of a sweep and those of a targeted read tile their addresses.
LEMMA PlansTile ==
  ASSUME Scan!ScanAssumption, NEW addrs \in SUBSET Scan!Range, NEW B \in Scan!Planned(addrs)
  PROVE  Tiles(B, addrs, BlockSize)
<1>1. CASE B = Scan!Clustered(addrs)
  <2>1. /\ addrs \in SUBSET (0..LastAddress) /\ LastAddress \in Nat
        /\ BlockSize \in Nat \ {0} /\ ClusterGap \in Nat
    BY DEF Scan!Range, Scan!ScanAssumption
  <2>2. QED BY <1>1, <2>1, ClustersTile DEF Scan!Clustered
<1>2. CASE B = Scan!SweepBlocks /\ addrs = Scan!Range  BY <1>2, SweepTiles
<1>3. QED BY <1>1, <1>2 DEF Scan!Planned

\* A scan begins with nothing reached.
LEMMA BeginScan ==
  ASSUME Scan!ScanAssumption, ScanInv, NEW addrs \in SUBSET Scan!Range, NEW B \in Scan!Planned(addrs),
         Scan!Begin(addrs, B)
  PROVE  ScanInv'
<1>1. /\ needed = {} /\ addrs # {} /\ needed' = addrs /\ blocks' = B
      /\ single' = {} /\ attempt' = 0 /\ DOMAIN values = {} /\ unreadable' = {} /\ noise' = noise
      /\ values' = values /\ likely' = None /\ noise \in Nat
  BY DEF Scan!Begin, ScanInv
<1>2. Tiles(B, addrs, BlockSize)  BY PlansTile
<1>3. Reached(B, 0, {}) = {}
  <2>1. \A i : i \notin 1..0  OBVIOUS
  <2>2. QED BY <2>1 DEF Reached, Before
<1>4. Position(B, 0)'
  <2>1. B \in Seq(BlocksOf(BlockSize)) /\ Len(B) \in Nat  BY <1>2, BlockTyped DEF Tiles
  <2>2. SubSeq(B, 0 + 1, Len(B)) = B  BY <2>1, SubSeqFull
  <2>3. QED BY <1>1, <2>1, <2>2 DEF Position
<1>5. Progress(B, 0)'
  <2>1. \A i : i \notin 1..0  OBVIOUS
  <2>2. QED BY <1>1, <1>3, <2>1 DEF Progress
<1>6. Underway'  BY <1>1, <1>2, <1>4, <1>5 DEF Underway
<1>7. QED BY <1>1, <1>6 DEF ScanInv

\* A transaction is answered.
LEMMA ReadScan ==
  ASSUME Scan!ScanAssumption, ScanInv, Scan!ReadBlock
  PROVE  ScanInv'
<1>1. /\ blocks # <<>> /\ needed # {} /\ likely' = None /\ attempt' = 0
      /\ values' = [a \in DOMAIN values \union Scan!Asked |-> IF a \in Scan!Asked THEN moment ELSE values[a]]
      /\ needed' = needed /\ unreadable' = unreadable /\ cut' = cut /\ noise' = noise /\ refused' = refused
      /\ Scan!NextTransaction /\ Underway
  BY DEF Scan!ReadBlock, Scan!NextTransaction, ScanInv
<1>2. PICK B \in Scan!Planned(needed) :
        Tiles(B, needed, BlockSize) /\ \E d \in Nat : Position(B, d) /\ Progress(B, d)
  BY <1>1 DEF Underway
<1>3. PICK d \in Nat : Position(B, d) /\ Progress(B, d)  BY <1>2
<1>4. PICK e \in Nat :
        /\ Position(B, e)'
        /\ Reached(B, e, single') = Reached(B, d, single) \union Scan!Asked
        /\ e = d \/ (e = d + 1 /\ Scan!LastOfBlock)
        /\ single' # {} => single # {} /\ e = d
  BY <1>1, <1>2, <1>3, TransactionMoves
<1>5. /\ Scan!Asked \intersect Reached(B, d, single) = {}
      /\ single = {} => Scan!Asked = Scan!AddressesIn(B[d + 1])
      /\ d + 1 \in 1..Len(B)
  BY <1>1, <1>2, <1>3, AskedIsNew
<1>6. DOMAIN values' = DOMAIN values \union Scan!Asked  BY <1>1
<1>7. Progress(B, e)'
  <2>1. DOMAIN values' \union unreadable' \subseteq Reached(B, e, single')
    BY <1>1, <1>3, <1>4, <1>6 DEF Progress
  <2>2. needed' \intersect Reached(B, e, single') \subseteq DOMAIN values' \union unreadable'
    BY <1>1, <1>3, <1>4, <1>6 DEF Progress
  <2>3. single' # {} => Scan!AddressesIn(B[e + 1]) \subseteq cut'
    BY <1>1, <1>3, <1>4 DEF Progress
  <2>4. ASSUME NEW i \in 1..e, NEW a \in Scan!AddressesIn(B[i]) \intersect DOMAIN values',
               a + 1 \in Scan!AddressesIn(B[i]) \intersect DOMAIN values'
        PROVE  values'[a] = values'[a + 1] \/ {a, a + 1} \subseteq cut'
    <3>1. CASE i \in 1..d
      <4>1. i \in 1..Len(B) /\ Scan!AddressesIn(B[i]) \subseteq Nat
        <5>1. i \in 1..Len(B)  BY <1>5, <3>1
        <5>2. QED BY <1>2, <5>1, BlockAddresses
      <4>2. {a, a + 1} \subseteq Reached(B, d, single)  BY <2>4, <3>1, <4>1 DEF Reached, Before
      <4>3. a \notin Scan!Asked /\ a + 1 \notin Scan!Asked  BY <1>5, <4>2
      <4>4. a \in DOMAIN values /\ a + 1 \in DOMAIN values  BY <1>6, <2>4, <4>3
      <4>5. values'[a] = values[a] /\ values'[a + 1] = values[a + 1]  BY <1>1, <4>3, <4>4
      <4>6. values[a] = values[a + 1] \/ {a, a + 1} \subseteq cut  BY <1>3, <2>4, <3>1, <4>4 DEF Progress
      <4>7. QED BY <1>1, <4>5, <4>6
    <3>2. CASE i \notin 1..d
      <4>1. i = d + 1  BY <1>4, <3>2
      <4>2. CASE single = {}
        <5>1. a \in Scan!Asked /\ a + 1 \in Scan!Asked  BY <1>5, <2>4, <4>1, <4>2
        <5>2. QED BY <1>1, <5>1
      <4>3. CASE single # {}  BY <1>1, <1>3, <2>4, <4>1, <4>3 DEF Progress
      <4>4. QED BY <4>2, <4>3
    <3>3. QED BY <3>1, <3>2
  <2>5. QED BY <2>1, <2>2, <2>3, <2>4 DEF Progress
<1>8. Underway'  BY <1>1, <1>2, <1>4, <1>7 DEF Underway
<1>9. DOMAIN values' \intersect unreadable' = {}
  BY <1>1, <1>3, <1>5, <1>6 DEF Progress, ScanInv
<1>10. attempt' \in Nat /\ noise' \in Nat /\ attempt' <= noise' /\ (unreadable' \subseteq refused' \/ noise' > Retries)
  BY <1>1 DEF ScanInv
<1>11. QED BY <1>1, <1>8, <1>9, <1>10 DEF ScanInv

\* An address is given up.
LEMMA AddressScan ==
  ASSUME Scan!ScanAssumption, ScanInv, Scan!AddressGivenUp
  PROVE  ScanInv'
<1>1. /\ blocks # <<>> /\ needed # {} /\ likely' = None /\ attempt' = 0 /\ single # {} /\ attempt = Retries
      /\ unreadable' = unreadable \union (Scan!Asked \intersect needed)
      /\ needed' = needed /\ values' = values /\ cut' = cut /\ refused' = refused
      /\ IF Scan!Asked \intersect refused # {} THEN noise' = noise ELSE noise' = noise + 1
      /\ Scan!NextTransaction /\ Underway
  BY DEF Scan!AddressGivenUp, Scan!Fails, Scan!NextTransaction, ScanInv
<1>2. PICK B \in Scan!Planned(needed) :
        Tiles(B, needed, BlockSize) /\ \E d \in Nat : Position(B, d) /\ Progress(B, d)
  BY <1>1 DEF Underway
<1>3. PICK d \in Nat : Position(B, d) /\ Progress(B, d)  BY <1>2
<1>4. PICK e \in Nat :
        /\ Position(B, e)'
        /\ Reached(B, e, single') = Reached(B, d, single) \union Scan!Asked
        /\ e = d \/ (e = d + 1 /\ Scan!LastOfBlock)
        /\ single' # {} => single # {} /\ e = d
  BY <1>1, <1>2, <1>3, TransactionMoves
<1>5. Scan!Asked \intersect Reached(B, d, single) = {}
  BY <1>1, <1>2, <1>3, AskedIsNew
<1>6. Progress(B, e)'
  <2>1. DOMAIN values' \union unreadable' \subseteq Reached(B, e, single')
    BY <1>1, <1>3, <1>4 DEF Progress
  <2>2. needed' \intersect Reached(B, e, single') \subseteq DOMAIN values' \union unreadable'
    BY <1>1, <1>3, <1>4 DEF Progress
  <2>3. single' # {} => Scan!AddressesIn(B[e + 1]) \subseteq cut'
    BY <1>1, <1>3, <1>4 DEF Progress
  <2>4. ASSUME NEW i \in 1..e, NEW a \in Scan!AddressesIn(B[i]) \intersect DOMAIN values,
               a + 1 \in Scan!AddressesIn(B[i]) \intersect DOMAIN values
        PROVE  values[a] = values[a + 1] \/ {a, a + 1} \subseteq cut
    <3>1. CASE i \in 1..d  BY <1>3, <2>4, <3>1 DEF Progress
    <3>2. CASE i \notin 1..d
      <4>1. i = d + 1  BY <1>4, <3>2
      <4>2. QED BY <1>1, <1>3, <2>4, <4>1 DEF Progress
    <3>3. QED BY <3>1, <3>2
  <2>5. QED BY <1>1, <2>1, <2>2, <2>3, <2>4 DEF Progress
<1>7. Underway'  BY <1>1, <1>2, <1>4, <1>6 DEF Underway
<1>8. DOMAIN values' \intersect unreadable' = {}
  BY <1>1, <1>3, <1>5 DEF Progress, ScanInv
<1>9. attempt' \in Nat /\ noise' \in Nat /\ attempt' <= noise' /\ noise <= noise'
  BY <1>1 DEF ScanInv
<1>10. unreadable' \subseteq refused' \/ noise' > Retries
  <2>1. CASE Scan!Asked \intersect refused # {}
    <3>1. Scan!Asked \subseteq refused  BY <1>1, <2>1 DEF Scan!Asked
    <3>2. QED BY <1>1, <2>1, <3>1 DEF ScanInv
  <2>2. CASE Scan!Asked \intersect refused = {}
    <3>1. attempt <= noise /\ noise' = noise + 1 /\ noise \in Nat  BY <1>1, <2>2 DEF ScanInv
    <3>2. Retries \in Nat  BY DEF Scan!ScanAssumption
    <3>3. QED BY <1>1, <3>1, <3>2
  <2>3. QED BY <2>1, <2>2
<1>11. QED BY <1>1, <1>7, <1>8, <1>9, <1>10 DEF ScanInv

\* A block is given up.
LEMMA BlockScan ==
  ASSUME Scan!ScanAssumption, ScanInv, Scan!BlockGivenUp
  PROVE  ScanInv'
<1>1. /\ blocks # <<>> /\ needed # {} /\ likely' = None /\ attempt' = 0 /\ single = {}
      /\ single' = Scan!AddressesIn(Head(blocks)) /\ cut' = cut \union Scan!AddressesIn(Head(blocks))
      /\ unreadable' = unreadable /\ blocks' = blocks
      /\ needed' = needed /\ values' = values /\ refused' = refused
      /\ noise' = noise \/ noise' = noise + 1
      /\ Underway
  BY DEF Scan!BlockGivenUp, Scan!Fails, ScanInv
<1>2. PICK B \in Scan!Planned(needed) :
        Tiles(B, needed, BlockSize) /\ \E d \in Nat : Position(B, d) /\ Progress(B, d)
  BY <1>1 DEF Underway
<1>3. PICK d \in Nat : Position(B, d) /\ Progress(B, d)  BY <1>2
<1>4. /\ d + 1 \in 1..Len(B) /\ Head(blocks) = B[d + 1]
      /\ Scan!AddressesIn(B[d + 1]) # {}
  BY <1>1, <1>2, <1>3, AskedIsNew
<1>5. Position(B, d)'  BY <1>1, <1>3, <1>4 DEF Position
<1>6. Reached(B, d, single') = Reached(B, d, single)  BY <1>1, <1>4 DEF Reached
<1>7. Progress(B, d)'  BY <1>1, <1>3, <1>4, <1>6 DEF Progress
<1>8. Underway'  BY <1>1, <1>2, <1>5, <1>7 DEF Underway
<1>9. attempt' \in Nat /\ noise' \in Nat /\ attempt' <= noise' /\ noise <= noise' /\ Retries \in Nat /\ noise \in Nat
  BY <1>1 DEF ScanInv, Scan!ScanAssumption
<1>10. unreadable' \subseteq refused' \/ noise' > Retries  BY <1>1, <1>9 DEF ScanInv
<1>11. QED BY <1>1, <1>8, <1>9, <1>10 DEF ScanInv

\* A transaction is made again.
LEMMA RetryScan ==
  ASSUME Scan!ScanAssumption, ScanInv, Scan!ReadRetried
  PROVE  ScanInv'
<1>1. /\ blocks # <<>> /\ needed # {} /\ likely' = None /\ attempt' = attempt + 1 /\ single' = single
      /\ unreadable' = unreadable /\ blocks' = blocks /\ cut' = cut
      /\ needed' = needed /\ values' = values /\ refused' = refused
      /\ IF Scan!Asked \intersect refused # {} THEN noise' = noise ELSE noise' = noise + 1
  BY DEF Scan!ReadRetried, Scan!Fails, ScanInv
<1>2. Scan!Asked' = Scan!Asked  BY <1>1 DEF Scan!Asked
<1>3. Underway'  BY <1>1 DEF ScanInv, Underway, Position, Progress
<1>4. attempt' \in Nat /\ noise' \in Nat /\ noise <= noise' /\ Retries \in Nat /\ noise \in Nat
  BY <1>1 DEF ScanInv, Scan!ScanAssumption
<1>5. Scan!Asked' \intersect refused' = {} => attempt' <= noise'  BY <1>1, <1>2, <1>4 DEF ScanInv
<1>6. unreadable' \subseteq refused' \/ noise' > Retries  BY <1>1, <1>4 DEF ScanInv
<1>7. QED BY <1>1, <1>3, <1>4, <1>5, <1>6 DEF ScanInv

\* The verdict depends on what was read, and on nothing else.
LEMMA BestStays ==
  ASSUME values' = values, unreadable' = unreadable
  PROVE  Scan!Best' = Scan!Best
<1>1. ASSUME NEW a PROVE Scan!StatusOf(a)' = Scan!StatusOf(a)  BY DEF Scan!StatusOf
<1>2. ASSUME NEW addrs PROVE Scan!EntryStatus(addrs)' = Scan!EntryStatus(addrs)
  <2> DEFINE sts == {Scan!StatusOf(a) : a \in addrs}
  <2>1. sts' = sts  BY <1>1
  <2> HIDE DEF sts
  <2>2. QED BY <2>1 DEF Scan!EntryStatus, sts
<1>3. ASSUME NEW v, NEW status PROVE Scan!Tally(v, status)' = Scan!Tally(v, status)
  <2> DEFINE T == {k \in DOMAIN Map[v] : Scan!EntryStatus(Map[v][k]) = status}
  <2>1. T' = T  BY <1>2
  <2> HIDE DEF T
  <2>2. /\ Scan!Tally(v, status) = Scan!Cardinality(T)
        /\ Scan!Tally(v, status)' = Scan!Cardinality(T')
    BY DEF Scan!Tally, T
  <2>3. QED BY <2>1, <2>2
<1>4. ASSUME NEW v PROVE Scan!Attempted(v)' = Scan!Attempted(v)  BY <1>3 DEF Scan!Attempted
<1>5. ASSUME NEW v, NEW w PROVE Scan!Better(v, w)' <=> Scan!Better(v, w)  BY <1>3, <1>4 DEF Scan!Better
<1>6. Scan!Eligible' = Scan!Eligible
  <2> DEFINE all  == {Variants[i] : i \in DOMAIN Variants}
             most == CHOOSE n \in {Scan!Attempted(v) : v \in all} : \A v \in all : Scan!Attempted(v) <= n
             enough == {v \in all : Scan!Attempted(v) >= MinAttempts /\ Scan!Attempted(v) >= most \div 4}
  <2>1. most' = most  BY <1>4
  <2> HIDE DEF most
  <2>2. enough' = enough  BY <1>4, <2>1
  <2>3. /\ Scan!Eligible = IF enough = {} THEN all ELSE enough
        /\ Scan!Eligible' = IF enough' = {} THEN all ELSE enough'
    BY DEF Scan!Eligible, most
  <2> HIDE DEF enough
  <2>4. QED BY <2>2, <2>3
<1>7. QED
  <2> DEFINE best == {i \in DOMAIN Variants :
                       Variants[i] \in Scan!Eligible /\ \A w \in Scan!Eligible : ~Scan!Better(w, Variants[i])}
  <2>1. best' = best  BY <1>5, <1>6
  <2>2. /\ Scan!Best = Variants[CHOOSE i \in best : \A j \in best : i <= j]
        /\ Scan!Best' = Variants[CHOOSE i \in best' : \A j \in best' : i <= j]
    BY DEF Scan!Best
  <2> HIDE DEF best
  <2>3. QED BY <2>1, <2>2

\* The addresses of the map are in the range.
LEMMA MapInRange ==
  ASSUME Scan!ScanAssumption,
         NEW addrs \in {Scan!Union} \union {Scan!AddressesOf(Variants[i]) : i \in DOMAIN Variants}
  PROVE  addrs \in SUBSET Scan!Range
<1>1. ASSUME NEW i \in DOMAIN Variants PROVE Scan!AddressesOf(Variants[i]) \subseteq Scan!Range
  <2>1. Map[Variants[i]] \in Seq(SUBSET Scan!Range)  BY DEF Scan!ScanAssumption
  <2>2. \A k \in DOMAIN Map[Variants[i]] : Map[Variants[i]][k] \in SUBSET Scan!Range
    BY <2>1, LenProperties, ElementOfSeq, Zenon
  <2>3. QED BY <2>2 DEF Scan!AddressesOf
<1>2. QED BY <1>1 DEF Scan!Union

\* Every step of the scanner keeps the invariant.
LEMMA ScanStep ==
  ASSUME Scan!ScanAssumption, ScanInv, [Scan!Next]_scanVars
  PROVE  ScanInv'
<1>1. CASE Scan!StartSweep  BY <1>1, BeginScan DEF Scan!StartSweep, Scan!Planned
<1>2. CASE Scan!StartTargeted
  <2>1. PICK addrs \in {Scan!Union} \union {Scan!AddressesOf(Variants[i]) : i \in DOMAIN Variants} :
          Scan!Begin(addrs, Scan!Clustered(addrs))
    BY <1>2 DEF Scan!StartTargeted
  <2>2. addrs \in SUBSET Scan!Range  BY <2>1, MapInRange
  <2>3. QED BY <2>1, <2>2, BeginScan DEF Scan!Planned
<1>3. CASE Scan!Verify
  <2>1. /\ needed # {} /\ blocks = <<>> /\ likely' = Scan!Best /\ blocks' = blocks /\ needed' = needed
        /\ single' = single /\ attempt' = attempt /\ values' = values /\ unreadable' = unreadable
        /\ refused' = refused /\ noise' = noise /\ cut' = cut
    BY <1>3 DEF Scan!Verify, Scan!Done
  <2>2. Underway'  BY <2>1 DEF ScanInv, Underway, Position, Progress
  <2>3. Scan!Best' = Scan!Best  BY <2>1, BestStays
  <2>4. QED BY <2>1, <2>2, <2>3 DEF ScanInv
<1>4. CASE UNCHANGED scanVars
  <2>1. /\ blocks' = blocks /\ needed' = needed /\ likely' = likely
        /\ single' = single /\ attempt' = attempt /\ values' = values /\ unreadable' = unreadable
        /\ refused' = refused /\ noise' = noise /\ cut' = cut
    BY <1>4 DEF scanVars
  <2>2. Underway' = Underway  BY <2>1 DEF Underway, Position, Progress
  <2>3. Scan!Best' = Scan!Best  BY <2>1, BestStays
  <2>4. Scan!Asked' = Scan!Asked  BY <2>1 DEF Scan!Asked
  <2>5. QED BY <2>1, <2>2, <2>3, <2>4 DEF ScanInv
<1>5. QED BY <1>1, <1>2, <1>3, <1>4, ReadScan, RetryScan, BlockScan, AddressScan DEF Scan!Next

----------------------------------------------------------------------------
\* What is left of the blocks holds what is needed and not known.
LEMMA ScanTrue ==
  ASSUME Scan!ScanAssumption, ScanInv
  PROVE  Scan!VerdictsAreTrue
<1> DEFINE left ==
             IF blocks = <<>> THEN {}
             ELSE UNION ({IF single = {} THEN Scan!AddressesIn(blocks[1]) ELSE single}
                         \union {Scan!AddressesIn(blocks[k]) : k \in 2..Len(blocks)})
<1>1. ASSUME NEW a \in needed PROVE a \in DOMAIN values \union unreadable \union left
  <2>1. PICK B \in Scan!Planned(needed) :
          Tiles(B, needed, BlockSize) /\ \E d \in Nat : Position(B, d) /\ Progress(B, d)
    BY DEF ScanInv, Underway
  <2>2. PICK d \in Nat : Position(B, d) /\ Progress(B, d)  BY <2>1
  <2>3. B \in Seq(BlocksOf(BlockSize)) /\ Len(B) \in Nat  BY <2>1, BlockTyped DEF Tiles
  <2>4. PICK i \in 1..Len(B) : a \in Scan!AddressesIn(B[i])  BY <2>1 DEF Tiles
  <2>5. a \in Nat  BY <2>1, <2>4, BlockAddresses
  <2>6. CASE i <= d
    <3>1. i \in 1..d  BY <2>4, <2>6
    <3>2. a \in Reached(B, d, single)  BY <2>4, <2>5, <3>1 DEF Reached, Before
    <3>3. QED BY <2>2, <3>2 DEF Progress
  <2>7. CASE i > d
    <3>1. blocks = SubSeq(B, d + 1, Len(B)) /\ d + 1 <= Len(B)  BY <2>2, <2>3, <2>7 DEF Position
    <3>2. \A k \in (d + 1)..Len(B) : B[k] \in BlocksOf(BlockSize)
      <4>1. \A k \in (d + 1)..Len(B) : k \in 1..Len(B)  BY <2>2, <2>3
      <4>2. QED BY <2>3, <4>1, ElementOfSeq
    <3>3. Len(blocks) = Len(B) - d /\ \A k \in 1..(Len(B) - d) : blocks[k] = B[d + k]
      <4>1. d + 1 \in Int /\ Len(B) \in Int  BY <2>2, <2>3
      <4>2. /\ Len(blocks) = IF d + 1 <= Len(B) THEN Len(B) - (d + 1) + 1 ELSE 0
            /\ \A k \in 1..(Len(B) - (d + 1) + 1) : blocks[k] = B[(d + 1) + k - 1]
        BY <3>1, <3>2, <4>1, SubSeqProperties
      <4>3. Len(B) - (d + 1) + 1 = Len(B) - d /\ \A k \in Int : (d + 1) + k - 1 = d + k  BY <2>2, <2>3
      <4>4. QED BY <3>1, <4>2, <4>3
    <3>4. blocks # <<>>
      <4>1. Len(B) - d # 0  BY <2>2, <2>3, <3>1
      <4>2. Len(blocks) # 0  BY <3>3, <4>1, Zenon
      <4>3. Len(<<>>) = 0  OBVIOUS
      <4>4. QED BY <4>2, <4>3, Zenon
    <3>5. CASE i = d + 1
      <4>1. blocks[1] = B[d + 1]  BY <2>2, <2>3, <3>1, <3>3
      <4>2. CASE single = {}
        <5>1. a \in Scan!AddressesIn(blocks[1])  BY <2>4, <3>5, <4>1
        <5>2. QED BY <3>4, <4>2, <5>1
      <4>3. CASE single # {} /\ a \in single  BY <3>4, <4>3
      <4>4. CASE single # {} /\ a \notin single
        <5>1. a \in Reached(B, d, single)  BY <2>4, <3>5, <4>4 DEF Reached
        <5>2. QED BY <2>2, <5>1 DEF Progress
      <4>5. QED BY <4>2, <4>3, <4>4
    <3>6. CASE i > d + 1
      <4>1. i - d \in 2..Len(blocks) /\ i - d \in 1..(Len(B) - d) /\ d + (i - d) = i
        BY <2>2, <2>3, <3>3, <3>6
      <4>2. blocks[i - d] = B[i]  BY <3>3, <4>1
      <4>3. a \in Scan!AddressesIn(blocks[i - d])  BY <2>4, <4>2
      <4>4. QED BY <3>4, <4>1, <4>3
    <3>7. QED BY <2>2, <2>3, <2>7, <3>5, <3>6
  <2>8. QED BY <2>2, <2>3, <2>6, <2>7
<1>2. unreadable \intersect DOMAIN values = {} /\ (unreadable \subseteq refused \/ noise > Retries)
  BY DEF ScanInv
<1>3. ASSUME likely # None, \E v \in Scan!Eligible : Scan!Attempted(v) > 0 /\ Scan!Tally(v, "unreadable") = 0
      PROVE  Scan!Tally(likely, "unreadable") = 0
  BY <1>3, VerdictTrue DEF ScanInv
<1> HIDE DEF left
<1>4. needed \subseteq DOMAIN values \union unreadable \union left  BY <1>1
<1>5. QED BY <1>2, <1>3, <1>4 DEF Scan!VerdictsAreTrue, left

\* Words of different transactions are of different blocks, or of one that failed.
LEMMA ScanWhole ==
  ASSUME Scan!ScanAssumption, ClusterGap # 0, ScanInv
  PROVE  Scan!WordsTogether
<1> SUFFICES ASSUME NEW a \in needed \intersect DOMAIN values,
                    a + 1 \in needed \intersect DOMAIN values, values[a] # values[a + 1]
             PROVE  \/ {a, a + 1} \subseteq cut
                    \/ \E planned \in Scan!Planned(needed) : \E i \in DOMAIN planned :
                         planned[i] = Scan!Block(a + 1 - BlockSize, BlockSize)
  BY DEF Scan!WordsTogether
<1>1. PICK B \in Scan!Planned(needed) :
        Tiles(B, needed, BlockSize) /\ \E d \in Nat : Position(B, d) /\ Progress(B, d)
  BY DEF ScanInv, Underway
<1>2. PICK d \in Nat : Position(B, d) /\ Progress(B, d)  BY <1>1
<1>3. Len(B) \in Nat /\ DOMAIN B = 1..Len(B)  BY <1>1, BlockTyped DEF Tiles
<1>4. a \in Reached(B, d, single)  BY <1>2 DEF Progress
<1>5. PICK i \in 1..Len(B) :
        a \in Scan!AddressesIn(B[i]) /\ (i \in 1..d \/ (i = d + 1 /\ single # {}))
  <2>1. CASE a \in Before(B, d)  BY <1>2, <1>3, <2>1 DEF Before, Position
  <2>2. CASE a \notin Before(B, d)
    <3>1. single # {} /\ a \in Scan!AddressesIn(B[d + 1])  BY <1>4, <2>2 DEF Reached
    <3>2. d + 1 \in 1..Len(B)  BY <1>2, <1>3, <3>1 DEF Position
    <3>3. QED BY <3>1, <3>2
  <2>3. QED BY <2>1, <2>2
<1>6. CASE a + 1 \notin Scan!AddressesIn(B[i])
  <2>1. B[i] = Scan!Block(a + 1 - BlockSize, BlockSize)  BY <1>1, <1>5, <1>6 DEF Tiles
  <2>2. QED BY <1>3, <2>1
<1>7. CASE a + 1 \in Scan!AddressesIn(B[i])
  <2>1. CASE i \in 1..d  BY <1>2, <1>5, <1>7, <2>1 DEF Progress
  <2>2. CASE i = d + 1 /\ single # {}  BY <1>2, <1>5, <1>7, <2>2 DEF Progress
  <2>3. QED BY <1>5, <2>1, <2>2
<1>8. QED BY <1>6, <1>7

\* read_targeted, verify: no address that is asked for is lost or reported twice, those listed as unreadable
\* are refused by the device unless the line is worse than the retries, and the verdict is for a variant that
\* the device answers for, for any device, map and limits.
THEOREM ScansAreTrue ==
  /\ Scan!Spec => []Scan!VerdictsAreTrue
  /\ PartsSpec => []VerdictsAreTrue
<1> DEFINE Inv == part = "scan" => ScanInv
<1>1. Scan!Init => ScanInv  BY ScanInitial
<1>2. ScanInv /\ [Scan!Next]_scanVars => ScanInv'  BY ScanStep, PartsAssumption DEF PartsAssumption
<1>3. ScanInv => Scan!VerdictsAreTrue  BY ScanTrue, PartsAssumption DEF PartsAssumption
<1>4. PartsInit => Inv  BY <1>1 DEF PartsInit
<1>5. Inv /\ [PartsNext]_vars => Inv'  BY <1>2, OnePartMoves
<1>6. Inv => VerdictsAreTrue  BY <1>3 DEF VerdictsAreTrue
<1> HIDE DEF Inv
<1>7. PartsSpec => []VerdictsAreTrue  BY <1>4, <1>5, <1>6, PTL DEF PartsSpec
<1>8. ScanInv /\ [Scan!Next]_(Scan!scanVars) => ScanInv'  BY <1>2 DEF scanVars, Scan!scanVars
<1>9. Scan!Spec => []Scan!VerdictsAreTrue  BY <1>1, <1>3, <1>8, PTL DEF Scan!Spec
<1>10. QED BY <1>7, <1>9

\* cluster_addresses, _collect_active: two adjacent words that are asked for are of one transaction, unless
\* they are of a block that failed or a full block ends between them, if addresses next to each other share a
\* block at all (--cluster-gap 0 reads each on its own).
THEOREM WordsAreTogether ==
  ASSUME ClusterGap # 0
  PROVE  /\ Scan!Spec => []Scan!WordsTogether
         /\ PartsSpec => []WordsTogether
<1> DEFINE Inv == part = "scan" => ScanInv
<1>1. Scan!Init => ScanInv  BY ScanInitial
<1>2. ScanInv /\ [Scan!Next]_scanVars => ScanInv'  BY ScanStep, PartsAssumption DEF PartsAssumption
<1>3. ScanInv => Scan!WordsTogether  BY ScanWhole, PartsAssumption DEF PartsAssumption
<1>4. PartsInit => Inv  BY <1>1 DEF PartsInit
<1>5. Inv /\ [PartsNext]_vars => Inv'  BY <1>2, OnePartMoves
<1>6. Inv => WordsTogether  BY <1>3 DEF WordsTogether
<1> HIDE DEF Inv
<1>7. PartsSpec => []WordsTogether  BY <1>4, <1>5, <1>6, PTL DEF PartsSpec
<1>8. ScanInv /\ [Scan!Next]_(Scan!scanVars) => ScanInv'  BY <1>2 DEF scanVars, Scan!scanVars
<1>9. Scan!Spec => []Scan!WordsTogether  BY <1>1, <1>3, <1>8, PTL DEF Scan!Spec
<1>10. QED BY <1>7, <1>9

--------------------------------------------------------------------------------
(* The bus that is listened to.                                            *)

\* What is pending is the request at hand, unless an answer was not heard; the request at hand is
\* pending, unless it was not heard itself.
SniffInv ==
  /\ asked \in Sniff!Requests \union {None}
  /\ pending \in [Slaves -> Sniff!Requests \union {None}]
  /\ unheard \in Nat /\ unanswered \in Nat
  /\ unanswered = 0 =>
       \A s \in Slaves : pending[s] # None => asked # None /\ s = asked.slave /\ pending[s] = asked
  /\ unheard = 0 /\ asked # None => pending[asked.slave] = asked
  /\ Sniff!PlacedRight

\* No request is pending before the first.
LEMMA SniffInitial == Sniff!SnifferAssumption /\ Sniff!Init => SniffInv
BY DEF Sniff!Init, SniffInv, Sniff!PlacedRight

\* A response to a request that is pending itself is placed where it was read from.
LEMMA OwnResponse ==
  ASSUME Sniff!SnifferAssumption, NEW r \in Sniff!Requests, NEW a \in Sniff!Words(r)
  PROVE  /\ r.run.start + (a - r.run.start) = a
         /\ Sniff!Source(r, a).table = r.table /\ Sniff!Source(r, a).address = a
<1>1. r.run.start \in Nat /\ a \in Int
  BY DEF Sniff!SnifferAssumption, Sniff!Requests, Sniff!Words
<1>2. QED BY <1>1 DEF Sniff!Source

\* A response is placed by the request it answers.
LEMMA SniffResponse ==
  ASSUME Sniff!SnifferAssumption, SniffInv, Sniff!Response
  PROVE  SniffInv'
<1> DEFINE r   == asked
           req == pending[r.slave]
           got == {a \in Sniff!Words(req) : a - req.run.start < r.run.count}
<1>1. /\ r \in Sniff!Requests /\ r # None /\ r.slave \in Slaves /\ req \in Sniff!Requests \union {None}
      /\ pending' = [pending EXCEPT ![r.slave] = None] /\ asked' = None
      /\ unheard' = unheard /\ unanswered' = unanswered
  BY DEF SniffInv, Sniff!Response, Sniff!Requests
<1>2. unanswered' = 0 => \A s \in Slaves : pending'[s] = None
  BY <1>1 DEF SniffInv
<1>3. Sniff!PlacedRight'
  <2> SUFFICES ASSUME unheard = 0 \/ unanswered = 0, NEW x \in DOMAIN mapped'
               PROVE  mapped'[x].table = x[1] /\ mapped'[x].address = x[2]
    BY <1>1 DEF Sniff!PlacedRight
  <2>1. \A y \in DOMAIN mapped : mapped[y].table = y[1] /\ mapped[y].address = y[2]
    BY DEF SniffInv, Sniff!PlacedRight
  <2>2. CASE mapped' = mapped  BY <2>1, <2>2
  <2>3. CASE mapped' # mapped
    <3>1. /\ req # None
          /\ mapped' = [y \in DOMAIN mapped \union ({r.table} \X got) |->
                         IF y \in {r.table} \X got
                         THEN Sniff!Source(r, r.run.start + (y[2] - req.run.start)) ELSE mapped[y]]
      BY <2>3 DEF Sniff!Response
    <3>2. req = r  BY <1>1, <3>1 DEF SniffInv
    <3>3. CASE x \in {r.table} \X got
      <4>1. x[1] = r.table /\ x[2] \in Sniff!Words(r)  BY <3>2, <3>3
      <4>2. mapped'[x] = Sniff!Source(r, r.run.start + (x[2] - r.run.start))  BY <3>1, <3>2, <3>3
      <4>3. QED BY <1>1, <4>1, <4>2, OwnResponse
    <3>4. CASE x \notin {r.table} \X got
      <4>1. x \in DOMAIN mapped /\ mapped'[x] = mapped[x]  BY <3>1, <3>4
      <4>2. QED BY <2>1, <4>1
    <3>5. QED BY <3>3, <3>4
  <2>4. QED BY <2>2, <2>3
<1>4. QED BY <1>1, <1>2, <1>3 DEF SniffInv

\* Every step of the bus and the listener keeps the invariant.
LEMMA SniffStep ==
  ASSUME Sniff!SnifferAssumption, SniffInv, [Sniff!Next]_sniffVars
  PROVE  SniffInv'
<1> USE DEF SniffInv
<1>1. ASSUME NEW r \in Sniff!Requests, Sniff!Request(r) PROVE SniffInv'
  <2>1. r # None /\ r.slave \in Slaves /\ asked = None /\ asked' = r /\ mapped' = mapped /\ unanswered' = unanswered
    BY <1>1 DEF Sniff!Request, Sniff!SnifferAssumption, Sniff!Requests
  <2>2. CASE pending' = [pending EXCEPT ![r.slave] = r] /\ unheard' = unheard
    BY <2>1, <2>2 DEF Sniff!PlacedRight
  <2>3. CASE unheard' = unheard + 1 /\ pending' = pending
    BY <2>1, <2>3 DEF Sniff!PlacedRight
  <2>4. QED BY <1>1, <2>2, <2>3 DEF Sniff!Request
<1>2. CASE Sniff!Response  BY <1>2, SniffResponse
<1>3. CASE Sniff!NoResponse  BY <1>3 DEF Sniff!NoResponse, Sniff!PlacedRight
<1>4. CASE UNCHANGED sniffVars  BY <1>4 DEF sniffVars, Sniff!PlacedRight
<1>5. QED BY <1>1, <1>2, <1>3, <1>4 DEF Sniff!Next

\* passive_sniff: a word stands at the address of the register it was read from, for any slaves, tables
\* and requests, unless a request and an answer were missed.
THEOREM WordsPlacedRight ==
  /\ Sniff!Spec => []Sniff!PlacedRight
  /\ PartsSpec => []PlacedRight
<1> DEFINE Inv == part = "sniff" => SniffInv
<1>1. Sniff!Init => SniffInv  BY SniffInitial, PartsAssumption DEF PartsAssumption
<1>2. SniffInv /\ [Sniff!Next]_sniffVars => SniffInv'  BY SniffStep, PartsAssumption DEF PartsAssumption
<1>3. SniffInv => Sniff!PlacedRight  BY DEF SniffInv
<1>4. PartsInit => Inv  BY <1>1 DEF PartsInit
<1>5. Inv /\ [PartsNext]_vars => Inv'  BY <1>2, OnePartMoves
<1>6. Inv => PlacedRight  BY <1>3 DEF PlacedRight
<1> HIDE DEF Inv
<1>7. PartsSpec => []PlacedRight  BY <1>4, <1>5, <1>6, PTL DEF PartsSpec
<1>8. SniffInv /\ [Sniff!Next]_(Sniff!snifferVars) => SniffInv'  BY <1>2 DEF sniffVars, Sniff!snifferVars
<1>9. Sniff!Spec => []Sniff!PlacedRight  BY <1>1, <1>3, <1>8, PTL DEF Sniff!Spec
<1>10. QED BY <1>7, <1>9

--------------------------------------------------------------------------------
(* Numbers put together from bits.                                        *)

\* What Word adds up: bits that it is given, one after the other.
LEMMA WordAdds ==
  ASSUME Codec!Width \in Nat, NEW B
  PROVE  \E f \in [0..Codec!Width -> Int] :
           /\ f[0] = 0 /\ Codec!Word(B) = f[Codec!Width]
           /\ \A k \in 1..Codec!Width : f[k] = f[k - 1] + (IF k - 1 \in B THEN 2 ^ (k - 1) ELSE 0)
<1> DEFINE n == Codec!Width
           s == [i \in 1..n |-> IF i - 1 \in B THEN 2 ^ (i - 1) ELSE 0]
<1>1. \A i \in 1..n : i - 1 \in Nat  OBVIOUS
<1>2. \A i \in 1..n : 2 ^ (i - 1) \in Nat  BY <1>1, PowerPositive
<1>3. s \in [1..n -> Int]  BY <1>2
<1>4. s \in Seq(Int) /\ Len(s) = n  BY <1>3
<1>5. Codec!Word(B) = Day!Total(s)  BY DEF Codec!Word, Codec!Total, Day!Total
<1> HIDE DEF n
<1>6. \E f \in [0..n -> Int] : Adds(f, n, s) /\ Day!Total(s) = f[n]
  <2> HIDE DEF s
  <2>1. QED BY <1>3, <1>4, TotalAdds
<1>7. PICK f \in [0..n -> Int] : Adds(f, n, s) /\ Day!Total(s) = f[n]  BY <1>6
<1>8. f[0] = 0
  <2>1. 0 \in 0..n  BY DEF n
  <2>2. QED BY <1>7, <2>1, Zenon DEF Adds
<1>9. ASSUME NEW k \in 1..n PROVE f[k] = f[k - 1] + (IF k - 1 \in B THEN 2 ^ (k - 1) ELSE 0)
  <2>1. k \in 0..n /\ k # 0  OBVIOUS
  <2>2. f[k] = f[k - 1] + s[k]
    <3> HIDE DEF s
    <3>1. QED BY <1>7, <2>1, Zenon DEF Adds
  <2>3. QED BY <2>2
<1>10. QED BY <1>5, <1>7, <1>8, <1>9 DEF n

\* A word of bits below n is a number of n bits, and has just these bits.
LEMMA WordHasBits ==
  ASSUME Codec!Width \in Nat, NEW n \in 0..Codec!Width, NEW B \in SUBSET (0..(n - 1))
  PROVE  Codec!Word(B) \in 0..(2 ^ n - 1) /\ Codec!Bits(Codec!Word(B)) = B
<1> DEFINE w == Codec!Width
<1>1. PICK f \in [0..w -> Int] :
        /\ f[0] = 0 /\ Codec!Word(B) = f[w]
        /\ \A k \in 1..w : f[k] = f[k - 1] + (IF k - 1 \in B THEN 2 ^ (k - 1) ELSE 0)
  BY WordAdds
<1> DEFINE S == {k \in 0..n : f[k] \in 0..(2 ^ k - 1) /\ \A i \in Nat : Bit(f[k], i) <=> i < k /\ i \in B}
<1>2. 0 \in S
  <2>1. 2 ^ 0 = 1 /\ 0 \in Nat /\ 0 < 2 ^ 0  OBVIOUS
  <2>2. ASSUME NEW i \in Nat PROVE ~Bit(0, i)
    <3>1. 0 <= i  OBVIOUS
    <3>2. QED BY <2>1, <3>1, BitsLow, Zenon
  <2>3. \A i \in Nat : ~(i < 0)  OBVIOUS
  <2>4. f[0] = 0 /\ 0 \in 0..n /\ 0 \in 0..(2 ^ 0 - 1)  BY <1>1, <2>1
  <2>5. QED BY <2>2, <2>3, <2>4
<1>3. ASSUME NEW k \in 1..n, k - 1 \in S PROVE k \in S
  <2> DEFINE b == IF k - 1 \in B THEN 1 ELSE 0
  <2>1. k - 1 \in Nat /\ k = (k - 1) + 1 /\ k \in 1..w /\ k \in 0..n  OBVIOUS
  <2>2. 2 ^ (k - 1) \in Nat \ {0} /\ 2 ^ k = 2 * 2 ^ (k - 1)  BY <2>1, PowerStep, PowerPositive, Zenon
  <2>3. f[k - 1] \in 0..(2 ^ (k - 1) - 1) /\ \A i \in Nat : Bit(f[k - 1], i) <=> i < k - 1 /\ i \in B  BY <1>3
  <2>4. f[k] = f[k - 1] + b * 2 ^ (k - 1)  BY <1>1, <2>1, <2>2
  <2>5. f[k] \in 0..(2 ^ k - 1)  BY <2>2, <2>3, <2>4
  <2>6. ASSUME NEW i \in Nat PROVE Bit(f[k], i) <=> i < k /\ i \in B
    <3>1. b \in Nat  OBVIOUS
    <3>2. Bit(f[k], i) <=> (IF i < k - 1 THEN Bit(f[k - 1], i) ELSE Bit(b, i - (k - 1)))
      <4> DEFINE j == k - 1
                 a == f[k - 1]
      <4>1. j \in Nat /\ a \in 0..(2 ^ j - 1) /\ f[k] = a + b * 2 ^ j  BY <2>1, <2>3, <2>4
      <4> HIDE DEF a, b, j
      <4>2. Bit(f[k], i) <=> (IF i < j THEN Bit(a, i) ELSE Bit(b, i - j))  BY <3>1, <4>1, BitsJoin, Zenon
      <4>3. QED BY <4>2 DEF a, j
    <3>3. CASE i < k - 1  BY <2>3, <3>2, <3>3
    <3>4. CASE i = k - 1
      <4>1. Bit(b, 0) <=> b = 1
        <5>1. 2 ^ 0 = 1 /\ b \div 1 = b /\ b % 2 = b  OBVIOUS
        <5>2. QED BY <5>1 DEF Bit
      <4>2. i - (k - 1) = 0 /\ ~(i < k - 1) /\ i < k  BY <3>4
      <4>3. QED BY <3>2, <3>4, <4>1, <4>2
    <3>5. CASE i > k - 1
      <4>1. i - (k - 1) \in Nat /\ 1 <= i - (k - 1) /\ ~(i < k - 1) /\ ~(i < k)  BY <3>5
      <4>2. 2 ^ 1 = 2 /\ b < 2 /\ 1 \in Nat
        <5>1. 2 ^ (0 + 1) = 2 * 2 ^ 0 /\ 2 ^ 0 = 1 /\ 0 + 1 = 1  BY PowerStep
        <5>2. QED BY <5>1
      <4>3. ~Bit(b, i - (k - 1))
        <5> HIDE DEF b
        <5>1. QED BY <3>1, <4>1, <4>2, BitsLow
      <4>4. QED BY <3>2, <4>1, <4>3
    <3>6. QED BY <3>3, <3>4, <3>5
  <2>7. QED BY <2>1, <2>5, <2>6
<1> HIDE DEF S
<1>4. \A k \in 0..n : k \in S
  <2>1. n \in Nat  OBVIOUS
  <2>2. QED BY <1>2, <1>3, <2>1, UpTo, Zenon
<1>5. f[n] \in 0..(2 ^ n - 1) /\ \A i \in Nat : Bit(f[n], i) <=> i < n /\ i \in B  BY <1>4 DEF S
<1> DEFINE T == {k \in 0..(w - n) : f[n + k] = f[n]}
<1>6. 0 \in T  BY <1>1
<1>7. ASSUME NEW k \in 1..(w - n), k - 1 \in T PROVE k \in T
  <2>1. n + k \in 1..w /\ (n + k) - 1 = n + (k - 1) /\ (n + k) - 1 \notin 0..(n - 1)  OBVIOUS
  <2>2. f[n + k] = f[(n + k) - 1] + (IF (n + k) - 1 \in B THEN 2 ^ ((n + k) - 1) ELSE 0)  BY <1>1, <2>1
  <2>3. (n + k) - 1 \notin B  BY <2>1
  <2>4. f[n + (k - 1)] = f[n] /\ f[n] \in Int  BY <1>1, <1>7
  <2>5. QED BY <2>1, <2>2, <2>3, <2>4
<1> HIDE DEF T
<1>8. w - n \in Nat  OBVIOUS
<1>9. \A k \in 0..(w - n) : k \in T  BY <1>6, <1>7, <1>8, UpTo
<1>10. f[w] = f[n]
  <2>1. w - n \in T /\ n + (w - n) = w  BY <1>8, <1>9
  <2>2. QED BY <2>1 DEF T
<1>11. Codec!Bits(f[n]) = B
  <2>1. \A i \in 0..(w - 1) : i \in Nat  OBVIOUS
  <2>2. \A i \in B : i \in 0..(w - 1) /\ i < n  OBVIOUS
  <2>3. Codec!Bits(f[n]) = {i \in 0..(w - 1) : Bit(f[n], i)}  BY DEF Codec!Bits, Bit
  <2>4. QED BY <1>5, <2>1, <2>2, <2>3
<1>12. QED BY <1>1, <1>5, <1>10, <1>11

\* The widths of words.
LEMMA Widths ==
  ASSUME Codec!CodecAssumption
  PROVE  /\ WordBits \in Nat \ {0} /\ Codec!Width \in Nat /\ Codec!Width = 4 * WordBits
         /\ WordBits \in 0..Codec!Width
         /\ Codec!Base = 2 ^ WordBits /\ Codec!Base \in Nat \ {0}
         /\ 2 ^ (WordBits - 1) \in Nat \ {0} /\ Codec!Base = 2 * 2 ^ (WordBits - 1)
<1>1. WordBits \in Nat \ {0}  BY DEF Codec!CodecAssumption
<1>2. Codec!Width = 4 * WordBits  BY DEF Codec!Width, Codec!MaxWords
<1>3. Codec!Base = 2 ^ WordBits  BY DEF Codec!Base
<1>4. WordBits - 1 \in Nat /\ WordBits = (WordBits - 1) + 1  BY <1>1
<1>5. 2 ^ WordBits = 2 * 2 ^ (WordBits - 1)  BY <1>4, PowerStep, Zenon
<1>6. 2 ^ (WordBits - 1) \in Nat \ {0} /\ 2 ^ WordBits \in Nat \ {0}  BY <1>1, <1>4, PowerPositive
<1>7. QED BY <1>1, <1>2, <1>3, <1>5, <1>6

\* What the bits of a number of n bits make is that number.
LEMMA BitsBelow ==
  ASSUME Codec!Width \in Nat, NEW n \in 0..Codec!Width, NEW v \in 0..(2 ^ n - 1)
  PROVE  Codec!Bits(v) \in SUBSET (0..(n - 1)) /\ Codec!Word(Codec!Bits(v)) = v
<1> DEFINE B == Codec!Bits(v)
           u == Codec!Word(B)
<1>1. n \in Nat /\ v \in Nat /\ v < 2 ^ n  BY PowerPositive
<1>2. B = {i \in 0..(Codec!Width - 1) : Bit(v, i)}  BY DEF Codec!Bits, Bit
<1>3. B \in SUBSET (0..(n - 1))
  <2> SUFFICES ASSUME NEW i \in B PROVE i \in 0..(n - 1)  OBVIOUS
  <2>1. i \in Nat /\ Bit(v, i)  BY <1>2
  <2>2. ~(n <= i)  BY <1>1, <2>1, BitsLow
  <2>3. QED BY <1>1, <2>1, <2>2
<1> HIDE DEF B
<1>4. u \in 0..(2 ^ n - 1) /\ Codec!Bits(u) = B  BY <1>3, WordHasBits
<1> HIDE DEF u
<1>5. \A i \in 0..(n - 1) : Bit(u, i) <=> Bit(v, i)
  <2>1. Codec!Bits(u) = {i \in 0..(Codec!Width - 1) : Bit(u, i)}  BY DEF Codec!Bits, Bit
  <2>2. \A i \in 0..(n - 1) : i \in 0..(Codec!Width - 1)  OBVIOUS
  <2>3. QED BY <1>2, <1>4, <2>1, <2>2
<1>6. u = v  BY <1>1, <1>4, <1>5, SameBits
<1>7. QED BY <1>3, <1>6 DEF B, u

LEMMA BitsOfWord ==
  ASSUME Codec!CodecAssumption, NEW v \in 0..(Codec!Base - 1)
  PROVE  Codec!Bits(v) \in SUBSET (0..(WordBits - 1)) /\ Codec!Word(Codec!Bits(v)) = v
<1>1. Codec!Width \in Nat /\ WordBits \in 0..Codec!Width /\ v \in 0..(2 ^ WordBits - 1)  BY Widths
<1>2. QED BY <1>1, BitsBelow

LEMMA WordOfBits ==
  ASSUME Codec!CodecAssumption, NEW B \in SUBSET (0..(WordBits - 1))
  PROVE  Codec!Word(B) \in 0..(Codec!Base - 1) /\ Codec!Bits(Codec!Word(B)) = B
<1>1. Codec!Width \in Nat /\ WordBits \in 0..Codec!Width  BY Widths
<1>2. Codec!Word(B) \in 0..(2 ^ WordBits - 1) /\ Codec!Bits(Codec!Word(B)) = B  BY <1>1, WordHasBits
<1>3. QED BY <1>2, Widths

\* The mask of a whole register has every bit.
LEMMA AllOnes ==
  ASSUME Codec!CodecAssumption
  PROVE  Codec!Bits(Codec!Base - 1) = 0..(WordBits - 1)
<1> DEFINE n == WordBits
           S == {k \in 0..n : \A i \in 0..(k - 1) : Bit(2 ^ k - 1, i)}
<1>0. n \in Nat /\ Codec!Width \in Nat /\ n \in 0..Codec!Width /\ Codec!Base = 2 ^ n /\ Codec!Base \in Nat \ {0}  BY Widths
<1>1. 0 \in S  BY <1>0
<1>2. ASSUME NEW k \in 1..n, k - 1 \in S PROVE k \in S
  <2> DEFINE j == k - 1
             a == 2 ^ j - 1
  <2>1. j \in Nat /\ k = j + 1  BY <1>0
  <2>2. 2 ^ k = 2 * 2 ^ j /\ 2 ^ j \in Nat \ {0}  BY <2>1, PowerStep, PowerPositive, Zenon
  <2>3. 2 ^ k - 1 = a + 1 * 2 ^ j /\ a \in 0..(2 ^ j - 1) /\ 1 \in Nat  BY <2>2
  <2>4. \A i \in 0..(j - 1) : Bit(a, i)  BY <1>2
  <2> HIDE DEF a
  <2>5. ASSUME NEW i \in 0..(k - 1) PROVE Bit(2 ^ k - 1, i)
    <3>1. i \in Nat  OBVIOUS
    <3>2. Bit(2 ^ k - 1, i) <=> (IF i < j THEN Bit(a, i) ELSE Bit(1, i - j))
      <4> HIDE DEF j
      <4>1. QED BY <2>1, <2>3, <3>1, BitsJoin, Zenon
    <3>3. CASE i < j
      <4>1. i \in 0..(j - 1)  BY <3>3
      <4>2. QED BY <2>4, <3>2, <3>3, <4>1
    <3>4. CASE i = j
      <4>1. 2 ^ 0 = 1 /\ 1 \div 1 = 1 /\ 1 % 2 = 1  OBVIOUS
      <4>2. Bit(1, 0)  BY <4>1 DEF Bit
      <4>3. i - j = 0 /\ ~(i < j)  BY <3>4
      <4>4. QED BY <3>2, <4>2, <4>3
    <3>5. QED BY <3>3, <3>4, <2>1
  <2>6. k \in 0..n  BY <1>0
  <2>7. QED BY <2>5, <2>6
<1> HIDE DEF S
<1>3. \A k \in 0..n : k \in S  BY <1>0, <1>1, <1>2, UpTo
<1>4. n \in S  BY <1>0, <1>3
<1>5. \A i \in 0..(n - 1) : Bit(2 ^ n - 1, i)  BY <1>4 DEF S
<1>6. Codec!Bits(2 ^ n - 1) = {i \in 0..(Codec!Width - 1) : Bit(2 ^ n - 1, i)}  BY DEF Codec!Bits, Bit
<1>7. 0..(n - 1) \subseteq Codec!Bits(2 ^ n - 1)  BY <1>0, <1>5, <1>6
<1>8. Codec!Bits(2 ^ n - 1) \subseteq 0..(n - 1)
  <2>1. Codec!Base - 1 \in 0..(Codec!Base - 1)  BY <1>0
  <2>2. QED BY <1>0, <2>1, BitsOfWord
<1>9. QED BY <1>0, <1>7, <1>8

--------------------------------------------------------------------------------
(* Settings.                                                               *)

WordOf == 0..(Codec!Base - 1)

\* The bits of a field.
LEMMA MaskBits ==
  ASSUME Codec!CodecAssumption, NEW f \in Fields
  PROVE  /\ Codec!Bits(f.mask) \in SUBSET (0..(WordBits - 1)) /\ Codec!Bits(f.mask) # {}
         /\ Codec!Shift(f.mask) \in Codec!Bits(f.mask) /\ Codec!Shift(f.mask) \in Nat
         /\ Codec!Whole(f) => Codec!Bits(f.mask) = 0..(WordBits - 1)
<1> DEFINE B == Codec!Bits(f.mask)
<1>1. f.mask \in 1..(Codec!Base - 1) /\ (Codec!Whole(f) => f.mask = Codec!Base - 1)
  BY DEF Codec!CodecAssumption, Codec!FieldAssumption
<1>2. B \in SUBSET (0..(WordBits - 1)) /\ Codec!Word(B) = f.mask  BY <1>1, Widths, BitsOfWord
<1>3. B # {}
  <2> SUFFICES ASSUME B = {} PROVE FALSE  OBVIOUS
  <2>1. 0 \in 0..Codec!Width /\ Codec!Width \in Nat /\ {} \in SUBSET (0..(0 - 1))  BY Widths
  <2>2. Codec!Word({}) \in 0..(2 ^ 0 - 1)  BY <2>1, WordHasBits, Zenon
  <2>3. 2 ^ 0 = 1  OBVIOUS
  <2>4. QED BY <1>1, <1>2, <2>2, <2>3
<1>4. PICK m \in B : \A k \in B : m <= k
  <2>1. B \in SUBSET Nat  BY <1>2, Widths
  <2> HIDE DEF B
  <2>2. QED BY <1>3, <2>1, Least
<1>5. Codec!Shift(f.mask) \in B  BY <1>4 DEF Codec!Shift
<1>6. Codec!Shift(f.mask) \in Nat
  <2>1. \A i \in 0..(WordBits - 1) : i \in Nat  OBVIOUS
  <2> HIDE DEF B
  <2>2. QED BY <1>2, <1>5, <2>1, Zenon
<1>7. Codec!Whole(f) => B = 0..(WordBits - 1)  BY <1>1, AllOnes
<1>8. QED BY <1>2, <1>3, <1>5, <1>6, <1>7, Zenon

\* A field sees nothing but its bits.
LEMMA DecodeByBits ==
  ASSUME Codec!CodecAssumption, NEW f \in Fields, NEW u \in WordOf, NEW v \in WordOf,
         Codec!Bits(u) \intersect Codec!Bits(f.mask) = Codec!Bits(v) \intersect Codec!Bits(f.mask)
  PROVE  Codec!DecodeSetting(f, u) = Codec!DecodeSetting(f, v)
<1>1. CASE Codec!Whole(f)
  <2>1. Codec!Bits(f.mask) = 0..(WordBits - 1)  BY <1>1, MaskBits
  <2>2. Codec!Bits(u) = Codec!Bits(v)  BY <2>1, BitsOfWord DEF WordOf
  <2>3. u = v  BY <2>2, BitsOfWord DEF WordOf
  <2>4. QED BY <2>3
<1>2. CASE ~Codec!Whole(f)
  <2>1. f.type \in {"bool", "bits"}  BY <1>2 DEF Codec!Whole
  <2>2. CASE f.type = "bool"
    <3>1. \A x : Codec!DecodeSetting(f, x) = (Codec!Bits(x) \intersect Codec!Bits(f.mask) # {})
      BY <2>2 DEF Codec!DecodeSetting
    <3>2. QED BY <3>1
  <2>3. CASE f.type = "bits"
    <3>1. \A x : Codec!DecodeSetting(f, x)
                   = Codec!Word(Codec!Bits(x) \intersect Codec!Bits(f.mask)) \div 2 ^ Codec!Shift(f.mask)
      BY <2>3 DEF Codec!DecodeSetting
    <3>2. QED BY <3>1
  <2>4. QED BY <2>1, <2>2, <2>3
<1>3. QED BY <1>1, <1>2

\* A quotient that is rounded to the nearest is off by half a divisor at most.
LEMMA RoundIsNear ==
  ASSUME NEW n \in Int, NEW d \in Nat \ {0}
  PROVE  Codec!Round(n, d) \in Int /\ 2 * (Codec!Round(n, d) * d - n) \in (-d)..d
<1> DEFINE q == n \div d
           r == n % d
<1>1. q \in Int /\ r \in 0..(d - 1) /\ n = d * q + r  BY SMT
<1>2. Codec!Round(n, d) = IF 2 * r < d \/ (2 * r = d /\ q % 2 = 0) THEN q ELSE q + 1  BY DEF Codec!Round
<1> HIDE DEF q, r
<1>3. q * d = d * q /\ (q + 1) * d = d * q + d /\ d * q \in Int  BY <1>1
<1>4. CASE 2 * r < d \/ (2 * r = d /\ q % 2 = 0)  BY <1>1, <1>2, <1>3, <1>4
<1>5. CASE ~(2 * r < d \/ (2 * r = d /\ q % 2 = 0))
  <2>1. 2 * r >= d  BY <1>1, <1>5
  <2>2. QED BY <1>1, <1>2, <1>3, <1>5, <2>1
<1>6. QED BY <1>4, <1>5

\* Setting one field: the others of the word keep their bits, and the field reads back as what was asked.
LEMMA EncodeLocal ==
  ASSUME Codec!CodecAssumption, NEW f \in Fields, NEW val \in Values[f], Codec!Encodable(f, val), NEW word \in WordOf
  PROVE  /\ Codec!EncodeSetting(f, val, word) \in WordOf
         /\ Codec!Bits(Codec!EncodeSetting(f, val, word)) \ Codec!Bits(f.mask) = Codec!Bits(word) \ Codec!Bits(f.mask)
         /\ Codec!ReadsAs(f, Codec!EncodeSetting(f, val, word), val)
<1> DEFINE e == Codec!EncodeSetting(f, val, word)
           M == Codec!Bits(f.mask)
           O == Codec!Bits(word) \ M
           s == Codec!Shift(f.mask)
<1>1. /\ f.type \in {"bool", "bits", "enum", "time", "u16", "s16"} /\ Codec!Valid(f, val)
      /\ f.scale \in Nat \ {0} /\ f.offset \in Int
  BY DEF Codec!CodecAssumption, Codec!FieldAssumption
<1>2. Codec!Bits(word) \in SUBSET (0..(WordBits - 1))  BY BitsOfWord DEF WordOf
<1>3. M \in SUBSET (0..(WordBits - 1)) /\ M # {} /\ s \in Nat  BY MaskBits
<1>4. O = Codec!Others(f, word)  BY DEF Codec!Others
<1> HIDE DEF M
<1>5. ASSUME NEW B \in SUBSET M, e = Codec!Word(O \union B)
      PROVE  e \in WordOf /\ Codec!Bits(e) = O \union B /\ Codec!Bits(e) \ M = O /\ Codec!Bits(e) \intersect M = B
  <2>1. O \union B \in SUBSET (0..(WordBits - 1))  BY <1>2, <1>3
  <2>2. e \in WordOf /\ Codec!Bits(e) = O \union B
    <3> HIDE DEF e, O
    <3>1. QED BY <1>5, <2>1, WordOfBits DEF WordOf
  <2>3. QED BY <2>2
<1>6. CASE f.type = "bool"
  <2>1. e = Codec!Word(O \union (IF val THEN M ELSE {}))
    BY <1>4, <1>6 DEF Codec!EncodeSetting, M
  <2>2. val \in BOOLEAN  BY <1>1, <1>6 DEF Codec!Valid
  <2>3. Codec!DecodeSetting(f, e) = (Codec!Bits(e) \intersect M # {})  BY <1>6 DEF Codec!DecodeSetting, M
  <2>4. Codec!ReadsAs(f, e, val) <=> Codec!DecodeSetting(f, e) = val  BY <1>6 DEF Codec!ReadsAs
  <2> HIDE DEF e, O
  <2>5. CASE val = TRUE
    <3>1. e = Codec!Word(O \union M)  BY <2>1, <2>5
    <3>2. Codec!Bits(e) \intersect M = M  BY <1>5, <3>1
    <3>3. e \in WordOf /\ Codec!Bits(e) \ M = O  BY <1>5, <3>1
    <3>4. QED BY <1>3, <2>3, <2>4, <2>5, <3>2, <3>3 DEF e, O, M
  <2>6. CASE val = FALSE
    <3>1. e = Codec!Word(O \union {})  BY <2>1, <2>6
    <3>2. {} \in SUBSET M  OBVIOUS
    <3>3. Codec!Bits(e) \intersect M = {}  BY <1>5, <3>1, <3>2
    <3>4. e \in WordOf /\ Codec!Bits(e) \ M = O  BY <1>5, <3>1, <3>2
    <3>5. QED BY <2>3, <2>4, <2>6, <3>3, <3>4 DEF e, O, M
  <2>7. QED BY <2>2, <2>5, <2>6
<1>7. CASE f.type = "bits"
  <2> DEFINE shifted == val * 2 ^ s
             B == Codec!Bits(shifted) \intersect M
  <2>1. e = Codec!Word(O \union B)  BY <1>4, <1>7 DEF Codec!EncodeSetting, M
  <2>2. val \in Nat /\ shifted < Codec!Base /\ Codec!Bits(shifted) \subseteq M
    BY <1>1, <1>7 DEF Codec!Valid, M
  <2>3. 2 ^ s \in Nat \ {0}  BY <1>3, PowerPositive
  <2>4. shifted \in 0..(Codec!Base - 1)
    <3>1. val * 2 ^ s \in Nat  BY <2>2, <2>3
    <3>2. QED BY <2>2, <3>1, Widths
  <2>5. B = Codec!Bits(shifted)  BY <2>2
  <2>6. Codec!Word(B) = shifted
    <3> HIDE DEF shifted, B
    <3>1. QED BY <2>4, <2>5, BitsOfWord
  <2>7. Codec!DecodeSetting(f, e) = Codec!Word(Codec!Bits(e) \intersect M) \div 2 ^ s
    BY <1>7 DEF Codec!DecodeSetting, M
  <2>8. shifted \div 2 ^ s = val
    <3>1. shifted = 2 ^ s * val + 0 /\ val \in Int /\ 0 \in 0..(2 ^ s - 1)  BY <2>2, <2>3
    <3> HIDE DEF shifted
    <3>2. QED BY <2>3, <3>1, IsMod, Zenon
  <2>9. Codec!ReadsAs(f, e, val) <=> Codec!DecodeSetting(f, e) = val  BY <1>7 DEF Codec!ReadsAs
  <2>10. B \in SUBSET M  OBVIOUS
  <2> HIDE DEF shifted, B, e, O
  <2>11. e \in WordOf /\ Codec!Bits(e) \ M = O /\ Codec!Bits(e) \intersect M = B  BY <1>5, <2>1, <2>10
  <2>12. QED BY <2>6, <2>7, <2>8, <2>9, <2>11 DEF e, O, M
<1>8. ASSUME Codec!Whole(f), e \in WordOf PROVE Codec!Bits(e) \ M = O
  <2>1. M = 0..(WordBits - 1)  BY <1>8, MaskBits DEF M
  <2>2. Codec!Bits(e) \in SUBSET (0..(WordBits - 1))
    <3> HIDE DEF e
    <3>1. QED BY <1>8, BitsOfWord DEF WordOf
  <2>3. QED BY <1>2, <2>1, <2>2
<1>9. CASE f.type = "enum"
  <2>1. e = val /\ Codec!DecodeSetting(f, e) = e /\ Codec!Whole(f)
    BY <1>9 DEF Codec!EncodeSetting, Codec!DecodeSetting, Codec!Whole
  <2>2. val \in WordOf  BY <1>1, <1>9 DEF Codec!Valid, WordOf
  <2>3. Codec!ReadsAs(f, e, val)  BY <1>9, <2>1 DEF Codec!ReadsAs
  <2>4. QED BY <1>8, <2>1, <2>2, <2>3 DEF M
<1>10. CASE f.type = "time"
  <2>1. e = val[1] * HourUnit + val[2] /\ Codec!DecodeSetting(f, e) = <<e \div HourUnit, e % HourUnit>> /\ Codec!Whole(f)
    BY <1>10 DEF Codec!EncodeSetting, Codec!DecodeSetting, Codec!Whole
  <2>2. /\ val[1] \in Nat /\ val[2] \in 0..(HourUnit - 1) /\ val[1] * HourUnit + val[2] < Codec!Base
        /\ val = <<val[1], val[2]>>
    BY <1>1, <1>10 DEF Codec!Valid
  <2>3. HourUnit \in Nat \ {0}  BY DEF Codec!CodecAssumption
  <2>4. e \in WordOf
    <3>1. val[1] * HourUnit \in Nat  BY <2>2, <2>3
    <3>2. QED BY <2>1, <2>2, <3>1, Widths DEF WordOf
  <2>5. e = HourUnit * val[1] + val[2] /\ val[1] \in Int  BY <2>1, <2>2, <2>3
  <2> HIDE DEF e
  <2>6. e % HourUnit = val[2] /\ e \div HourUnit = val[1]
    <3> DEFINE hours == val[1]
               minutes == val[2]
    <3>1. e = HourUnit * hours + minutes /\ hours \in Int /\ minutes \in 0..(HourUnit - 1)  BY <2>2, <2>5
    <3> HIDE DEF hours, minutes
    <3>2. e % HourUnit = minutes /\ e \div HourUnit = hours  BY <2>3, <3>1, IsMod
    <3>3. QED BY <3>2 DEF hours, minutes
  <2>7. Codec!DecodeSetting(f, e) = val  BY <2>1, <2>2, <2>6
  <2>8. Codec!ReadsAs(f, e, val)  BY <1>10, <2>7 DEF Codec!ReadsAs
  <2>9. QED BY <1>8, <2>1, <2>4, <2>8 DEF M, e
<1>11. CASE f.type \in {"u16", "s16"}
  <2> DEFINE n == Codec!RawNumber(f, val)
             base == Codec!Base
             half == 2 ^ (WordBits - 1)
  <2>1. val \in Int  BY <1>1, <1>11 DEF Codec!Valid
  <2>2. n = Codec!Round(val - f.offset, f.scale)  BY DEF Codec!RawNumber
  <2>3. n \in Int /\ 2 * (n * f.scale - (val - f.offset)) \in (-f.scale)..f.scale
    <3>1. val - f.offset \in Int  BY <1>1, <2>1
    <3>2. QED BY <1>1, <2>2, <3>1, RoundIsNear
  <2>4. e = n % base /\ Codec!Whole(f)  BY <1>11 DEF Codec!EncodeSetting, Codec!Whole
  <2>5. base \in Nat \ {0} /\ half \in Nat \ {0} /\ base = 2 * half  BY Widths
  <2>6. \/ f.type = "u16" /\ n \in 0..(base - 1)
        \/ f.type = "s16" /\ n \in (-(base \div 2))..(base \div 2 - 1)
    BY <1>11 DEF Codec!Encodable
  <2> HIDE DEF n, base, half, e
  <2>7. base \div 2 = half
    <3>1. base = 2 * half + 0 /\ 0 \in 0..(2 - 1) /\ half \in Int /\ 2 \in Nat \ {0}  BY <2>5
    <3>2. QED BY <3>1, IsMod, Zenon
  <2>8. ASSUME f.type = "u16" PROVE e \in WordOf /\ Codec!DecodeSetting(f, e) = n * f.scale + f.offset
    <3>1. n \in 0..(base - 1)  BY <2>6, <2>8
    <3>2. n = base * 0 + n /\ 0 \in Int  BY <2>5, <3>1
    <3>3. e = n  BY <2>4, <2>5, <3>1, <3>2, IsMod
    <3>4. Codec!DecodeSetting(f, e) = n * f.scale + f.offset  BY <2>8, <3>3 DEF Codec!DecodeSetting
    <3>5. QED BY <2>4, <3>1, <3>3, <3>4 DEF base, WordOf
  <2>9. ASSUME f.type = "s16" PROVE e \in WordOf /\ Codec!DecodeSetting(f, e) = n * f.scale + f.offset
    <3>1. n \in (-half)..(half - 1)  BY <2>5, <2>6, <2>7, <2>9
    <3>2. e = IF n < 0 THEN n + base ELSE n
      <4>1. CASE n < 0
        <5> DEFINE r == n + base
                   q == -1
        <5>1. r \in 0..(base - 1) /\ n = base * q + r /\ q \in Int  BY <2>5, <3>1, <4>1
        <5> HIDE DEF r, q
        <5>2. n % base = r  BY <2>5, <5>1, IsMod, ZenonT(40)
        <5>3. QED BY <2>4, <4>1, <5>2 DEF r
      <4>2. CASE ~(n < 0)
        <5>1. n \in 0..(base - 1) /\ n = base * 0 + n /\ 0 \in Int  BY <2>5, <3>1, <4>2
        <5>2. n % base = n  BY <2>5, <5>1, IsMod
        <5>3. QED BY <2>4, <4>2, <5>2
      <4>3. QED BY <4>1, <4>2
    <3>3. Codec!Signed(e, WordBits) = IF e >= half THEN e - base ELSE e  BY Widths DEF Codec!Signed, half, base
    <3>4. Codec!Signed(e, WordBits) = n /\ e \in 0..(base - 1)  BY <2>3, <2>5, <3>1, <3>2, <3>3
    <3>5. Codec!DecodeSetting(f, e) = n * f.scale + f.offset  BY <2>9, <3>4 DEF Codec!DecodeSetting
    <3>6. QED BY <2>4, <3>4, <3>5 DEF base, WordOf
  <2>10. e \in WordOf /\ Codec!DecodeSetting(f, e) = n * f.scale + f.offset  BY <1>11, <2>8, <2>9
  <2>11. Codec!ReadsAs(f, e, val)
    <3>1. 2 * (Codec!DecodeSetting(f, e) - val) \in (-f.scale)..f.scale
      <4>1. n * f.scale \in Int  BY <1>1, <2>3
      <4>2. (n * f.scale + f.offset) - val = n * f.scale - (val - f.offset)  BY <1>1, <2>1, <4>1
      <4>3. QED BY <2>3, <2>10, <4>2
    <3>2. QED BY <1>11, <3>1 DEF Codec!ReadsAs
  <2>12. QED BY <1>8, <2>4, <2>10, <2>11 DEF e, M
<1>12. QED BY <1>1, <1>6, <1>7, <1>9, <1>10, <1>11

\* What a request asks for.
Asks(s) ==
  /\ Len(s) \in Nat /\ DOMAIN s = 1..Len(s)
  /\ \A i \in 1..Len(s) :
       s[i][1] \in Fields /\ s[i][2] \in Values[s[i][1]] /\ Codec!Encodable(s[i][1], s[i][2]) /\ s[i][1].addr \in DOMAIN raw
  /\ \A i, j \in 1..Len(s) : i # j => s[i][1] # s[j][1]

LEMMA PossibleAsks ==
  ASSUME Codec!CodecAssumption, NEW s \in Codec!Possible
  PROVE  Asks(s)
<1> DEFINE one == UNION {{<<f, val>> : val \in {v \in Values[f] : Codec!Encodable(f, v)}} : f \in Fields}
<1>1. /\ s \in UNION {[1..n -> one] : n \in 1..MaxAsked} /\ \A i, j \in DOMAIN s : i # j => s[i][1] # s[j][1]
      /\ \A i \in DOMAIN s : s[i][1].addr \in DOMAIN raw
  BY DEF Codec!Possible, Codec!Requests
<1>2. \A x \in one : x[1] \in Fields /\ x[2] \in Values[x[1]] /\ Codec!Encodable(x[1], x[2])  OBVIOUS
<1> HIDE DEF one
<1>3. PICK n \in 1..MaxAsked : s \in [1..n -> one]  BY <1>1
<1>4. MaxAsked \in Nat  BY DEF Codec!CodecAssumption
<1>5. n \in Nat /\ Len(s) = n /\ DOMAIN s = 1..n  BY <1>3, <1>4
<1>6. \A i \in 1..n : s[i] \in one  BY <1>3
<1>7. QED BY <1>1, <1>2, <1>5, <1>6 DEF Asks

\* The writes made of the first fields of a request, as encode_settings goes along it.
Writes(h, s) ==
  /\ h = [n \in 0..Len(s) |-> h[n]]
  /\ h[0] = <<>>
  /\ \A n \in 1..Len(s) : h[n] = Codec!Add(h[n - 1], s[n][1], s[n][2])

RawTyped == DOMAIN raw \subseteq RegisterSpace /\ \A a \in DOMAIN raw : raw[a] \in WordOf

\* What a register will hold: what is to be written, or what was read.
LEMMA WorkingTyped ==
  ASSUME Codec!CodecAssumption, RawTyped, NEW w, \A a \in DOMAIN w : w[a] \in WordOf, NEW a
  PROVE  Codec!Working(w, a) \in WordOf
BY Widths DEF Codec!Working, RawTyped, WordOf

\* One more field is written.
LEMMA AddsOne ==
  ASSUME Codec!CodecAssumption, RawTyped, NEW w, \A a \in DOMAIN w : w[a] \in WordOf,
         NEW f \in Fields, NEW val \in Values[f], Codec!Encodable(f, val)
  PROVE  LET added == Codec!Add(w, f, val)
             e     == Codec!EncodeSetting(f, val, Codec!Working(w, f.addr))
         IN  /\ DOMAIN added = DOMAIN w \union {f.addr} /\ \A a \in DOMAIN added : added[a] \in WordOf
             /\ added = [a \in DOMAIN added |-> added[a]]
             /\ \A a : Codec!Working(added, a) = IF a = f.addr THEN e ELSE Codec!Working(w, a)
<1> DEFINE added == Codec!Add(w, f, val)
           e     == Codec!EncodeSetting(f, val, Codec!Working(w, f.addr))
           one   == [a \in {f.addr} |-> Codec!EncodeSetting(f, val, Codec!Working(w, a))]
<1>1. e \in WordOf
  <2>1. Codec!Working(w, f.addr) \in WordOf  BY WorkingTyped
  <2>2. QED BY <2>1, EncodeLocal
<1>2. DOMAIN one = {f.addr} /\ one[f.addr] = e  OBVIOUS
<1>3. added = [a \in DOMAIN w \union DOMAIN one |-> IF a \in DOMAIN one THEN one[a] ELSE w[a]]
  BY DEF Codec!Add, Codec!Updated
<1> HIDE DEF added, e, one
<1>4. DOMAIN added = DOMAIN w \union {f.addr}  BY <1>2, <1>3
<1>5. \A a \in DOMAIN added : added[a] = IF a = f.addr THEN e ELSE w[a]  BY <1>2, <1>3
<1>6. \A a \in DOMAIN added : added[a] \in WordOf  BY <1>1, <1>4, <1>5
<1>7. added = [a \in DOMAIN added |-> added[a]]  BY <1>3
<1>8. \A a : Codec!Working(added, a) = IF a = f.addr THEN e ELSE Codec!Working(w, a)
  BY <1>4, <1>5 DEF Codec!Working
<1>9. QED BY <1>4, <1>6, <1>7, <1>8 DEF added, e

\* encode_settings makes its writes field by field.
LEMMA EncodeSettingsWrites ==
  ASSUME Codec!CodecAssumption, RawTyped, NEW s, Asks(s)
  PROVE  \E h : Writes(h, s) /\ Codec!EncodeSettings(s) = h[Len(s)]
<1> DEFINE n == Len(s)
           A == {s[i][1].addr : i \in 1..n}
           W == UNION {[D -> WordOf] : D \in SUBSET A}
           Is(h) == h = [k \in 0..n |-> IF k = 0 THEN <<>> ELSE Codec!Add(h[k - 1], s[k][1], s[k][2])]
           upTo == CHOOSE h : Is(h)
           G == [k \in 1..n |-> [w \in W |-> Codec!Add(w, s[k][1], s[k][2])]]
<1>1. n \in Nat  BY DEF Asks
<1>2. <<>> \in W
  <2>1. <<>> \in [{} -> WordOf] /\ {} \in SUBSET A  OBVIOUS
  <2>2. QED BY <2>1
<1>3. ASSUME NEW k \in 1..n, NEW w \in W PROVE Codec!Add(w, s[k][1], s[k][2]) \in W
  <2>1. PICK D \in SUBSET A : w \in [D -> WordOf]  OBVIOUS
  <2> DEFINE f == s[k][1]
             val == s[k][2]
             added == Codec!Add(w, f, val)
  <2>2. f \in Fields /\ val \in Values[f] /\ Codec!Encodable(f, val)  BY DEF Asks
  <2>3. f.addr \in A  OBVIOUS
  <2>4. DOMAIN w = D /\ \A a \in DOMAIN w : w[a] \in WordOf  BY <2>1
  <2> HIDE DEF f, val, A, W, Is, upTo, G
  <2>5. /\ DOMAIN added = D \union {f.addr} /\ \A a \in DOMAIN added : added[a] \in WordOf
        /\ added = [a \in DOMAIN added |-> added[a]]
    BY <2>2, <2>4, AddsOne, ZenonT(40)
  <2> HIDE DEF added
  <2>6. added \in [DOMAIN added -> WordOf] /\ DOMAIN added \in SUBSET A  BY <2>1, <2>3, <2>5
  <2>7. added \in W  BY <2>6 DEF W
  <2>8. QED BY <2>7 DEF added, f, val
<1>4. G \in [1..n -> [W -> W]]
  <2> HIDE DEF W
  <2>1. QED BY <1>3
<1>5. PICK g : Recursive(g, n, W, <<>>, G)
  <2> HIDE DEF G, W
  <2>1. QED BY <1>1, <1>2, <1>4, Recursion, Zenon
<1>6. ASSUME NEW k \in 1..n PROVE g[k] = Codec!Add(g[k - 1], s[k][1], s[k][2])
  <2>1. k - 1 \in 0..n  BY <1>1
  <2>2. g[k] = G[k][g[k - 1]] /\ g[k - 1] \in W  BY <1>5, <2>1 DEF Recursive
  <2> HIDE DEF W
  <2>3. QED BY <2>2
<1>7. g = [k \in 0..n |-> g[k]] /\ g[0] = <<>>  BY <1>5 DEF Recursive
<1> HIDE DEF G, W, A
<1>8. Is(g)
  <2>1. \A k \in 0..n : k # 0 => k \in 1..n  BY <1>1
  <2>2. \A k \in 0..n : g[k] = IF k = 0 THEN <<>> ELSE Codec!Add(g[k - 1], s[k][1], s[k][2])  BY <1>6, <1>7, <2>1
  <2>3. QED BY <1>7, <2>2
<1>9. Is(upTo)  BY <1>8
<1>10. Codec!EncodeSettings(s) = upTo[n]  BY DEF Codec!EncodeSettings
<1> HIDE DEF upTo
<1>11. Writes(upTo, s)
  <2>1. 0 \in 0..n /\ \A k \in 1..n : k \in 0..n /\ k # 0  BY <1>1
  <2>2. QED BY <1>9, <2>1 DEF Writes
<1>12. QED BY <1>10, <1>11

\* What holds when the first k fields of a request are in w: each of them reads as was asked, and of the
\* registers that were read, only bits of theirs have changed.
SetSoFar(s, k, w) ==
  /\ DOMAIN w = {s[i][1].addr : i \in 1..k}
  /\ \A a \in DOMAIN w : w[a] \in WordOf
  /\ \A i \in 1..k : Codec!ReadsAs(s[i][1], Codec!Working(w, s[i][1].addr), s[i][2])
  /\ \A a \in DOMAIN raw : \A b :
       (\A i \in 1..k : s[i][1].addr = a => b \notin Codec!Bits(s[i][1].mask))
         => (b \in Codec!Bits(Codec!Working(w, a)) <=> b \in Codec!Bits(raw[a]))

\* The next field keeps that: it moves no bit of the fields before it, which have bits of their own.
LEMMA KeptOn ==
  ASSUME Codec!CodecAssumption, RawTyped, NEW s, Asks(s), NEW k \in 1..Len(s), NEW w, SetSoFar(s, k - 1, w)
  PROVE  SetSoFar(s, k, Codec!Add(w, s[k][1], s[k][2]))
<1> DEFINE f == s[k][1]
           val == s[k][2]
           old == Codec!Working(w, f.addr)
           e == Codec!EncodeSetting(f, val, old)
           added == Codec!Add(w, f, val)
<1>1. Len(s) \in Nat /\ f \in Fields /\ val \in Values[f] /\ Codec!Encodable(f, val)  BY DEF Asks
<1>2. \A a \in DOMAIN w : w[a] \in WordOf  BY DEF SetSoFar
<1>3. \A i \in 1..(k - 1) : i \in 1..Len(s) /\ i # k /\ s[i][1] \in Fields /\ s[i][1] # f  BY <1>1 DEF Asks
<1>4. \A i \in 1..k : i \in 1..(k - 1) \/ i = k  BY <1>1
<1>5. \A i \in 1..(k - 1) : i \in 1..k  BY <1>1
<1>6. k \in 1..k  BY <1>1
<1>7. DOMAIN w = {s[i][1].addr : i \in 1..(k - 1)}  BY DEF SetSoFar
<1>8. \A i \in 1..(k - 1) : Codec!ReadsAs(s[i][1], Codec!Working(w, s[i][1].addr), s[i][2])  BY DEF SetSoFar
<1>9. \A a \in DOMAIN raw : \A b :
        (\A i \in 1..(k - 1) : s[i][1].addr = a => b \notin Codec!Bits(s[i][1].mask))
          => (b \in Codec!Bits(Codec!Working(w, a)) <=> b \in Codec!Bits(raw[a]))
  BY DEF SetSoFar
<1> HIDE DEF f, val
<1>10. old \in WordOf  BY <1>2, WorkingTyped
<1>11. /\ DOMAIN added = DOMAIN w \union {f.addr} /\ \A a \in DOMAIN added : added[a] \in WordOf
       /\ \A a : Codec!Working(added, a) = IF a = f.addr THEN e ELSE Codec!Working(w, a)
  BY <1>1, <1>2, AddsOne
<1> HIDE DEF old
<1>12. /\ e \in WordOf /\ Codec!Bits(e) \ Codec!Bits(f.mask) = Codec!Bits(old) \ Codec!Bits(f.mask)
       /\ Codec!ReadsAs(f, e, val)
  BY <1>1, <1>10, EncodeLocal
<1> HIDE DEF e, added
<1>13. DOMAIN added = {s[i][1].addr : i \in 1..k}  BY <1>4, <1>5, <1>6, <1>7, <1>11 DEF f
<1>14. ASSUME NEW i \in 1..k
       PROVE  Codec!ReadsAs(s[i][1], Codec!Working(added, s[i][1].addr), s[i][2])
  <2>1. CASE i = k  BY <1>11, <1>12, <2>1 DEF f, val
  <2>2. CASE i \in 1..(k - 1) /\ s[i][1].addr # f.addr  BY <1>8, <1>11, <2>2
  <2>3. CASE i \in 1..(k - 1) /\ s[i][1].addr = f.addr
    <3> DEFINE g == s[i][1]
               asks == s[i][2]
    <3>1. g \in Fields /\ g # f /\ g.addr = f.addr  BY <1>3, <2>3
    <3>2. Codec!ReadsAs(g, old, asks)  BY <1>8, <2>3 DEF old
    <3>3. Codec!Working(added, g.addr) = e  BY <1>11, <2>3
    <3> HIDE DEF g, asks
    <3>4. Codec!Bits(g.mask) \intersect Codec!Bits(f.mask) = {}
      BY <1>1, <3>1 DEF Codec!CodecAssumption, Codec!FieldAssumption
    <3>5. Codec!Bits(e) \intersect Codec!Bits(g.mask) = Codec!Bits(old) \intersect Codec!Bits(g.mask)  BY <1>12, <3>4
    <3>6. Codec!DecodeSetting(g, e) = Codec!DecodeSetting(g, old)  BY <1>10, <1>12, <3>1, <3>5, DecodeByBits
    <3>7. Codec!ReadsAs(g, e, asks)  BY <3>2, <3>6 DEF Codec!ReadsAs
    <3>8. QED BY <3>3, <3>7 DEF g, asks
  <2>4. QED BY <1>4, <2>1, <2>2, <2>3
<1>15. ASSUME NEW a \in DOMAIN raw, NEW b,
              \A i \in 1..k : s[i][1].addr = a => b \notin Codec!Bits(s[i][1].mask)
       PROVE  b \in Codec!Bits(Codec!Working(added, a)) <=> b \in Codec!Bits(raw[a])
  <2>1. b \in Codec!Bits(Codec!Working(w, a)) <=> b \in Codec!Bits(raw[a])  BY <1>5, <1>9, <1>15
  <2>2. CASE a # f.addr  BY <1>11, <2>1, <2>2
  <2>3. CASE a = f.addr
    <3>1. b \notin Codec!Bits(f.mask)  BY <1>6, <1>15, <2>3 DEF f
    <3>2. b \in Codec!Bits(e) <=> b \in Codec!Bits(old)  BY <1>12, <3>1
    <3>3. Codec!Working(added, a) = e /\ Codec!Working(w, a) = old  BY <1>11, <2>3 DEF old
    <3>4. QED BY <2>1, <3>2, <3>3
  <2>4. QED BY <2>2, <2>3
<1>16. SetSoFar(s, k, added)  BY <1>11, <1>13, <1>14, <1>15 DEF SetSoFar
<1>17. QED BY <1>16 DEF added, f, val

\* So it holds of all that a request writes.
LEMMA WritesKept ==
  ASSUME Codec!CodecAssumption, RawTyped, NEW s, Asks(s)
  PROVE  SetSoFar(s, Len(s), Codec!EncodeSettings(s))
<1>1. PICK h : Writes(h, s) /\ Codec!EncodeSettings(s) = h[Len(s)]  BY EncodeSettingsWrites
<1> DEFINE S == {k \in 0..Len(s) : SetSoFar(s, k, h[k])}
<1>2. Len(s) \in Nat  BY DEF Asks
<1>3. 0 \in S
  <2>1. h[0] = <<>>  BY <1>1 DEF Writes
  <2>2. DOMAIN <<>> = {} /\ 1..0 = {}  OBVIOUS
  <2>3. ASSUME NEW a \in DOMAIN raw PROVE Codec!Working(<<>>, a) = raw[a]  BY <2>2 DEF Codec!Working
  <2>4. SetSoFar(s, 0, <<>>)  BY <2>2, <2>3 DEF SetSoFar
  <2>5. QED BY <1>2, <2>1, <2>4
<1>4. ASSUME NEW k \in 1..Len(s), k - 1 \in S PROVE k \in S
  <2>1. h[k] = Codec!Add(h[k - 1], s[k][1], s[k][2])  BY <1>1 DEF Writes
  <2>2. SetSoFar(s, k - 1, h[k - 1])  BY <1>4
  <2>3. SetSoFar(s, k, h[k])  BY <2>1, <2>2, KeptOn
  <2>4. QED BY <1>2, <2>3
<1> HIDE DEF S
<1>5. \A k \in 0..Len(s) : k \in S  BY <1>2, <1>3, <1>4, UpTo
<1>6. Len(s) \in S  BY <1>2, <1>5
<1>7. QED BY <1>1, <1>6 DEF S

LEMMA WritesLocal ==
  ASSUME Codec!CodecAssumption, RawTyped
  PROVE  Codec!WriteIsLocal
<1> SUFFICES ASSUME NEW s \in Codec!Possible
             PROVE  LET made     == Codec!Written(s)
                        written   == {s[i][1] : i \in DOMAIN s}
                        masked(a) == UNION {Codec!Bits(f.mask) : f \in {g \in written : g.addr = a}}
                    IN  /\ DOMAIN made = DOMAIN raw
                        /\ \A i \in DOMAIN s : Codec!ReadsAs(s[i][1], made[s[i][1].addr], s[i][2])
                        /\ \A a \in DOMAIN raw :
                             Codec!Bits(raw[a]) \ masked(a) = Codec!Bits(made[a]) \ masked(a)
                        /\ \A f \in Fields \ written :
                             f.addr \in DOMAIN raw =>
                               Codec!DecodeSetting(f, made[f.addr]) = Codec!DecodeSetting(f, raw[f.addr])
  BY DEF Codec!WriteIsLocal
<1> DEFINE w == Codec!EncodeSettings(s)
           made == Codec!Written(s)
           written == {s[i][1] : i \in DOMAIN s}
           masked(a) == UNION {Codec!Bits(f.mask) : f \in {g \in written : g.addr = a}}
<1>1. Asks(s)  BY PossibleAsks
<1>2. SetSoFar(s, Len(s), w)  BY <1>1, WritesKept
<1> HIDE DEF w
<1>3. DOMAIN s = 1..Len(s) /\ \A i \in DOMAIN s : s[i][1] \in Fields /\ s[i][1].addr \in DOMAIN raw  BY <1>1 DEF Asks
<1>4. made = [a \in DOMAIN raw \union DOMAIN w |-> IF a \in DOMAIN w THEN w[a] ELSE raw[a]]
  BY DEF Codec!Written, Codec!Updated, w
<1> HIDE DEF made
<1>5. DOMAIN w \subseteq DOMAIN raw  BY <1>2, <1>3 DEF SetSoFar
<1>6. DOMAIN made = DOMAIN raw  BY <1>4, <1>5
<1>7. \A a \in DOMAIN raw : made[a] = Codec!Working(w, a)  BY <1>4 DEF Codec!Working
<1>8. \A a \in DOMAIN raw : made[a] \in WordOf /\ raw[a] \in WordOf
  <2>1. \A a \in DOMAIN w : w[a] \in WordOf  BY <1>2 DEF SetSoFar
  <2>2. QED BY <1>7, <2>1, WorkingTyped DEF RawTyped
<1>9. \A i \in DOMAIN s : Codec!ReadsAs(s[i][1], made[s[i][1].addr], s[i][2])  BY <1>2, <1>3, <1>7 DEF SetSoFar
<1>10. ASSUME NEW a \in DOMAIN raw, NEW b,
              \A i \in DOMAIN s : s[i][1].addr = a => b \notin Codec!Bits(s[i][1].mask)
       PROVE  b \in Codec!Bits(made[a]) <=> b \in Codec!Bits(raw[a])
  BY <1>2, <1>3, <1>7, <1>10 DEF SetSoFar
<1>11. ASSUME NEW a \in DOMAIN raw
       PROVE  Codec!Bits(raw[a]) \ masked(a) = Codec!Bits(made[a]) \ masked(a)
  <2>1. \A b : b \notin masked(a) => \A i \in DOMAIN s : s[i][1].addr = a => b \notin Codec!Bits(s[i][1].mask)
    OBVIOUS
  <2> HIDE DEF masked
  <2>2. \A b : b \notin masked(a) => (b \in Codec!Bits(made[a]) <=> b \in Codec!Bits(raw[a]))  BY <1>10, <2>1
  <2>3. QED BY <2>2
<1>12. ASSUME NEW f \in Fields \ written, f.addr \in DOMAIN raw
       PROVE  Codec!DecodeSetting(f, made[f.addr]) = Codec!DecodeSetting(f, raw[f.addr])
  <2>1. ASSUME NEW b \in Codec!Bits(f.mask), NEW i \in DOMAIN s, s[i][1].addr = f.addr
        PROVE  b \notin Codec!Bits(s[i][1].mask)
    <3>1. s[i][1] \in Fields /\ s[i][1] # f  BY <1>3
    <3>2. Codec!Bits(s[i][1].mask) \intersect Codec!Bits(f.mask) = {}
      BY <2>1, <3>1 DEF Codec!CodecAssumption, Codec!FieldAssumption
    <3>3. QED BY <3>2
  <2>2. \A b \in Codec!Bits(f.mask) : b \in Codec!Bits(made[f.addr]) <=> b \in Codec!Bits(raw[f.addr])
    BY <1>10, <1>12, <2>1
  <2>3. Codec!Bits(made[f.addr]) \intersect Codec!Bits(f.mask) = Codec!Bits(raw[f.addr]) \intersect Codec!Bits(f.mask)
    BY <2>2
  <2>4. QED BY <1>8, <1>12, <2>3, DecodeByBits
<1>13. QED BY <1>6, <1>9, <1>11, <1>12 DEF made

LEMMA RawInitial == Codec!CodecAssumption /\ Codec!Init => RawTyped
BY Widths DEF Codec!Init, RawTyped, WordOf

LEMMA RawStep ==
  ASSUME Codec!CodecAssumption, RawTyped, [Codec!Next]_codecVars
  PROVE  RawTyped'
<1>0. WordOf' = WordOf  BY DEF WordOf, Codec!Base
<1>1. SUFFICES DOMAIN raw' \subseteq RegisterSpace /\ \A a \in DOMAIN raw' : raw'[a] \in WordOf  BY <1>0 DEF RawTyped
<1>2. ASSUME NEW a \in RegisterSpace, Codec!Change(a)
      PROVE  DOMAIN raw' \subseteq RegisterSpace /\ \A b \in DOMAIN raw' : raw'[b] \in WordOf
  <2>1. CASE \E v \in DeviceWords : raw' = Codec!Updated(raw, [b \in {a} |-> v])
    BY <2>1 DEF Codec!Updated, RawTyped, WordOf, Codec!CodecAssumption
  <2>2. CASE raw' = [b \in DOMAIN raw \ {a} |-> raw[b]]  BY <2>2 DEF RawTyped
  <2>3. QED BY <1>2, <2>1, <2>2 DEF Codec!Change
<1>3. CASE Codec!Write
  <2>1. PICK s \in Codec!Possible : raw' = Codec!Written(s)  BY <1>3 DEF Codec!Write
  <2> DEFINE w == Codec!EncodeSettings(s)
  <2>2. Asks(s)  BY PossibleAsks
  <2>3. SetSoFar(s, Len(s), w)  BY <2>2, WritesKept
  <2> HIDE DEF w
  <2>4. raw' = [a \in DOMAIN raw \union DOMAIN w |-> IF a \in DOMAIN w THEN w[a] ELSE raw[a]]
    BY <2>1 DEF Codec!Written, Codec!Updated, w
  <2>5. DOMAIN w \subseteq DOMAIN raw /\ \A a \in DOMAIN w : w[a] \in WordOf  BY <2>2, <2>3 DEF SetSoFar, Asks
  <2>6. QED BY <2>4, <2>5 DEF RawTyped
<1>4. CASE UNCHANGED codecVars  BY <1>4 DEF codecVars, RawTyped
<1>5. QED BY <1>2, <1>3, <1>4 DEF Codec!Next

\* YamlProfile.encode_settings: whatever fields a request sets, each reads back as was asked, up to the
\* rounding to its scale; the other fields of its register, and the bits that are no field's, stay as they
\* are; no other register changes.  For any width of a word, and any fields that share no bit and take
\* values that fit.
THEOREM WritesAreLocal ==
  /\ Codec!Spec => []Codec!WriteIsLocal
  /\ PartsSpec => []WriteIsLocal
<1> DEFINE Inv == part = "codec" => RawTyped
<1>0. Codec!CodecAssumption  BY PartsAssumption DEF PartsAssumption
<1>1. Codec!Init => RawTyped  BY <1>0, RawInitial
<1>2. RawTyped /\ [Codec!Next]_codecVars => RawTyped'  BY <1>0, RawStep
<1>3. RawTyped => Codec!WriteIsLocal  BY <1>0, WritesLocal
<1>4. PartsInit => Inv  BY <1>1 DEF PartsInit
<1>5. Inv /\ [PartsNext]_vars => Inv'  BY <1>2, OnePartMoves
<1>6. Inv => WriteIsLocal  BY <1>3 DEF WriteIsLocal
<1> HIDE DEF Inv
<1>7. PartsSpec => []WriteIsLocal  BY <1>4, <1>5, <1>6, PTL DEF PartsSpec
<1>8. RawTyped /\ [Codec!Next]_(Codec!codecVars) => RawTyped'  BY <1>2 DEF codecVars, Codec!codecVars
<1>9. Codec!Spec => []Codec!WriteIsLocal  BY <1>1, <1>3, <1>8, PTL DEF Codec!Spec
<1>10. QED BY <1>7, <1>9

--------------------------------------------------------------------------------
(* Metrics.                                                                *)

\* The state of a profile at work.
CodecInv == chain \in Profiles /\ RawTyped

\* The words of a metric.
LEMMA MetricWords ==
  ASSUME Codec!CodecAssumption, chain \in Profiles, NEW m \in DOMAIN Codec!Metrics
  PROVE  LET spec == Codec!Metrics[m]
             list == Codec!WordsOf(spec)
         IN  /\ Codec!WellFormed(spec) /\ m # PvTotal
             /\ list \in Seq(Int) /\ DOMAIN list = 1..Len(list) /\ Len(list) \in 1..4
             /\ spec.type \in {"u16", "s16", "enum"} => Len(list) = 1
             /\ spec.type \in {"u32", "s32"} => Len(list) = 2
             /\ DOMAIN spec.addrs = 1..Len(spec.addrs)
             /\ Len(spec.addrs) \in 1..4
             /\ \A i \in DOMAIN spec.addrs : i \in DOMAIN list /\ list[i] = spec.addrs[i]
             /\ ~Codec!Disabled(spec) => \A i \in DOMAIN list : list[i] \in 0..Codec!Base
<1> DEFINE spec == Codec!Metrics[m]
           list == Codec!WordsOf(spec)
<1>1. Codec!WellFormed(spec) /\ m # PvTotal
  BY DEF Codec!CodecAssumption, Codec!ProfileAssumption, Codec!Metrics
<1> HIDE DEF spec
<1>2. /\ spec.type \in {"u16", "s16", "u32", "s32", "enum", "bits"}
      /\ spec.addrs \in Seq(Int) /\ \A i \in DOMAIN spec.addrs : spec.addrs[i] \in (-1)..(Codec!Base - 1)
      /\ spec.type \in {"u16", "s16", "enum"} => Len(spec.addrs) = 1
      /\ spec.type \in {"u32", "s32"} => Len(spec.addrs) \in {1, 2}
      /\ spec.type = "bits" => Len(spec.addrs) \in 1..4
  BY <1>1 DEF Codec!WellFormed, Codec!MaxWords
<1>3. DOMAIN spec.addrs = 1..Len(spec.addrs) /\ Len(spec.addrs) \in 1..4 /\ \A i \in DOMAIN spec.addrs : spec.addrs[i] \in Int
  BY <1>2
<1>4. ~Codec!Disabled(spec) => \A i \in DOMAIN spec.addrs : spec.addrs[i] \in 0..(Codec!Base - 1)
  <2>1. \A x \in (-1)..(Codec!Base - 1) : x # -1 => x \in 0..(Codec!Base - 1)  BY Widths
  <2>2. QED BY <1>2, <2>1 DEF Codec!Disabled
<1>5. CASE Len(spec.addrs) = 1 /\ spec.type \in {"u32", "s32"}
  <2>1. list = <<spec.addrs[1], spec.addrs[1] + 1>>  BY <1>5 DEF Codec!WordsOf
  <2>2. spec.addrs[1] \in Int /\ DOMAIN spec.addrs = 1..1  BY <1>3, <1>5
  <2>3. list \in Seq(Int) /\ Len(list) = 2 /\ DOMAIN list = 1..2 /\ list[1] = spec.addrs[1] /\ list[2] = spec.addrs[1] + 1
    BY <2>1, <2>2
  <2> HIDE DEF list
  <2>4. ~Codec!Disabled(spec) => \A i \in DOMAIN list : list[i] \in 0..Codec!Base
    <3>1. ~Codec!Disabled(spec) => spec.addrs[1] \in 0..(Codec!Base - 1)  BY <1>4, <2>2
    <3>2. \A x \in 0..(Codec!Base - 1) : x \in 0..Codec!Base /\ x + 1 \in 0..Codec!Base  BY Widths
    <3>3. \A i \in DOMAIN list : i = 1 \/ i = 2  BY <2>3
    <3>4. QED BY <2>3, <3>1, <3>2, <3>3
  <2>5. QED BY <1>1, <1>2, <1>3, <1>5, <2>2, <2>3, <2>4 DEF list, spec
<1>6. CASE ~(Len(spec.addrs) = 1 /\ spec.type \in {"u32", "s32"})
  <2>1. list = spec.addrs  BY <1>6 DEF Codec!WordsOf
  <2> HIDE DEF list
  <2>2. ~Codec!Disabled(spec) => \A i \in DOMAIN list : list[i] \in 0..Codec!Base  BY <1>4, <2>1, Widths
  <2>3. QED BY <1>1, <1>2, <1>3, <1>6, <2>1, <2>2 DEF list, spec
<1>7. QED BY <1>5, <1>6

\* The blocks that are read hold every word of every metric that the model has.
LEMMA BlocksHold ==
  ASSUME Codec!CodecAssumption, chain \in Profiles,
         NEW m \in DOMAIN Codec!Metrics, ~Codec!Disabled(Codec!Metrics[m]), NEW i \in DOMAIN Codec!WordsOf(Codec!Metrics[m])
  PROVE  \E j \in DOMAIN Codec!BlocksRead : Codec!WordsOf(Codec!Metrics[m])[i] \in Codec!AddressesIn(Codec!BlocksRead[j])
<1> DEFINE own == {n \in DOMAIN Codec!Metrics : ~Codec!Disabled(Codec!Metrics[n])}
           list(n) == Codec!WordsOf(Codec!Metrics[n])
           words(n) == {list(n)[k] : k \in DOMAIN list(n)}
           X == Codec!Addresses
           B == Codec!BlocksRead
           top == Codec!Base
<1>1. \A n \in own : list(n) \in Seq(Int) /\ DOMAIN list(n) = 1..Len(list(n)) /\ Len(list(n)) \in 1..4
                     /\ \A k \in DOMAIN list(n) : list(n)[k] \in 0..top
  BY MetricWords
<1>2. X = UNION {words(n) : n \in own}  BY DEF Codec!Addresses
<1>3. top \in Nat  BY Widths
<1>4. m \in own  OBVIOUS
<1> HIDE DEF own, list
<1>5. X \in SUBSET (0..top)  BY <1>1, <1>2, <1>3
<1>7. list(m)[i] \in X  BY <1>2, <1>4 DEF list
<1> HIDE DEF X, top
<1>10. B = Scan!Clusters(X, Gap, MaxBlock)
  BY DEF Codec!BlocksRead, Codec!Clusters, Scan!Clusters, Codec!AddTo, Scan!AddTo, Codec!Block, Scan!Block, X
<1> HIDE DEF B
<1>11. Gap \in Nat /\ Gap # 0 /\ MaxBlock \in Nat \ {0}  BY DEF Codec!CodecAssumption
<1>12. Tiles(B, X, MaxBlock)  BY <1>3, <1>5, <1>10, <1>11, ClustersTile
<1>13. \E j \in 1..Len(B) : list(m)[i] \in Scan!AddressesIn(B[j])  BY <1>7, <1>12 DEF Tiles
<1>14. DOMAIN B = 1..Len(B)  BY <1>12, BlockTyped DEF Tiles
<1>15. \A b : Scan!AddressesIn(b) = Codec!AddressesIn(b)  BY DEF Scan!AddressesIn, Codec!AddressesIn
<1>16. QED BY <1>13, <1>14, <1>15 DEF list, B

\* A metric the model has, all of whose registers could be read.
AllRead(spec) ==
  ~Codec!Disabled(spec) /\ \A i \in DOMAIN Codec!WordsOf(spec) : Codec!WordsOf(spec)[i] \in DOMAIN raw

\* What the driver makes of it, type by type.
LEMMA DecodeKinds ==
  ASSUME NEW spec, AllRead(spec)
  PROVE  LET list == Codec!WordsOf(spec)
             low  == raw[list[1]]
             long == Codec!Long(low, raw[list[2]])
             got  == Codec!DecodeOne(spec)
         IN  /\ spec.type = "u16" => got = low * spec.scale + spec.offset
             /\ spec.type = "s16" => got = Codec!Signed(low, WordBits) * spec.scale + spec.offset
             /\ spec.type = "u32" => got = long * spec.scale + spec.offset
             /\ spec.type = "s32" => got = Codec!Signed(long, 2 * WordBits) * spec.scale + spec.offset
             /\ spec.type = "enum" => got = IF low \in DOMAIN spec.names THEN spec.names[low] ELSE low
             /\ spec.type = "bits" => got = Codec!Bits(Codec!Joined(list))
BY DEF AllRead, Codec!DecodeOne

\* A metric has a value if and only if its registers could be read.
LEMMA DecodedIfRead ==
  ASSUME Codec!CodecAssumption, CodecInv, NEW m \in DOMAIN Codec!Metrics
  PROVE  Codec!DecodeOne(Codec!Metrics[m]) # None <=> AllRead(Codec!Metrics[m])
<1> DEFINE spec == Codec!Metrics[m]
           list == Codec!WordsOf(spec)
           low  == raw[list[1]]
           high == raw[list[2]]
           long == Codec!Long(low, high)
           got  == Codec!DecodeOne(spec)
<1>1. /\ Codec!WellFormed(spec) /\ DOMAIN list = 1..Len(list) /\ Len(list) \in 1..4
      /\ spec.type \in {"u32", "s32"} => Len(list) = 2
  BY MetricWords DEF CodecInv
<1>2. /\ spec.type \in {"u16", "s16", "u32", "s32", "enum", "bits"}
      /\ spec.scale \in Int /\ spec.offset \in Int /\ \A w \in DOMAIN spec.names : spec.names[w] # None
  BY <1>1 DEF Codec!WellFormed
<1> HIDE DEF spec
<1>3. CASE ~AllRead(spec)
  <2>1. got = None  BY <1>3 DEF AllRead, Codec!DecodeOne
  <2>2. QED BY <1>3, <2>1 DEF spec
<1>4. CASE AllRead(spec)
  <2>1. /\ spec.type = "u16" => got = low * spec.scale + spec.offset
        /\ spec.type = "s16" => got = Codec!Signed(low, WordBits) * spec.scale + spec.offset
        /\ spec.type = "u32" => got = long * spec.scale + spec.offset
        /\ spec.type = "s32" => got = Codec!Signed(long, 2 * WordBits) * spec.scale + spec.offset
        /\ spec.type = "enum" => got = IF low \in DOMAIN spec.names THEN spec.names[low] ELSE low
        /\ spec.type = "bits" => got = Codec!Bits(Codec!Joined(list))
    BY <1>4, DecodeKinds
  <2>2. low \in WordOf /\ (Len(list) = 2 => high \in WordOf)  BY <1>1, <1>4 DEF AllRead, CodecInv, RawTyped
  <2>3. Codec!Base \in Nat \ {0} /\ WordBits \in Nat  BY Widths
  <2>4. None \notin Int  BY DEF Codec!CodecAssumption
  <2>5. ASSUME NEW v \in Int PROVE v * spec.scale + spec.offset # None
    <3>1. v * spec.scale + spec.offset \in Int  BY <1>2
    <3>2. QED BY <2>4, <3>1
  <2>6. ASSUME NEW v \in Int, NEW n \in Nat \ {0} PROVE Codec!Signed(v, n) \in Int
    <3>1. 2 ^ n \in Nat  BY PowerPositive
    <3>2. QED BY <3>1 DEF Codec!Signed
  <2>7. low \in Int /\ (Len(list) = 2 => long \in Int)  BY <2>2, <2>3 DEF WordOf, Codec!Long
  <2>8. WordBits \in Nat \ {0} /\ 2 * WordBits \in Nat \ {0}  BY Widths
  <2> HIDE DEF got, list, low, high, long
  <2>9. CASE spec.type \in {"u16", "s16"}
    <3>1. Codec!Signed(low, WordBits) \in Int  BY <2>6, <2>7, <2>8
    <3>2. QED BY <1>4, <2>1, <2>5, <2>7, <2>9, <3>1 DEF got, spec
  <2>10. CASE spec.type \in {"u32", "s32"}
    <3>1. long \in Int  BY <1>1, <2>7, <2>10
    <3>2. Codec!Signed(long, 2 * WordBits) \in Int  BY <2>6, <2>8, <3>1
    <3>3. QED BY <1>4, <2>1, <2>5, <2>10, <3>1, <3>2 DEF got, spec
  <2>11. CASE spec.type = "enum"
    <3>1. got # None  BY <1>2, <2>1, <2>4, <2>7, <2>11
    <3>2. QED BY <1>4, <3>1 DEF got, spec
  <2>12. CASE spec.type = "bits"
    <3>1. got \in SUBSET (0..(Codec!Width - 1))  BY <2>1, <2>12 DEF Codec!Bits
    <3>2. got # None  BY <3>1 DEF Codec!CodecAssumption
    <3>3. QED BY <1>4, <3>2 DEF got, spec
  <2>13. QED BY <1>2, <2>9, <2>10, <2>11, <2>12
<1>5. QED BY <1>3, <1>4

\* Deriving the total of the trackers adds it, and leaves the rest alone.
LEMMA DerivedAdds ==
  ASSUME NEW out, PvTotal \notin DOMAIN out
  PROVE  /\ DOMAIN Codec!Derived(out) = IF DOMAIN out \intersect Trackers = {} THEN DOMAIN out ELSE DOMAIN out \union {PvTotal}
         /\ \A m \in DOMAIN out : Codec!Derived(out)[m] = out[m]
<1> DEFINE powers == DOMAIN out \intersect Trackers
           total == Codec!PowerOf(out, powers)
<1>1. Codec!Derived(out) = IF powers = {} THEN out
        ELSE Codec!Updated(out, [m \in {PvTotal} |-> Codec!PowerOf(out, powers)])
  BY DEF Codec!Derived
<1> HIDE DEF total
<1>2. CASE powers = {}  BY <1>1, <1>2
<1>3. CASE powers # {}
  <2>1. Codec!Derived(out) = [x \in DOMAIN out \union {PvTotal} |-> IF x \in {PvTotal} THEN total ELSE out[x]]
    BY <1>1, <1>3 DEF Codec!Updated, total
  <2>2. QED BY <1>3, <2>1
<1>4. QED BY <1>2, <1>3

\* A reading has what could be read, and its values.
LEMMA DecodedHas ==
  ASSUME Codec!CodecAssumption, CodecInv
  PROVE  /\ DOMAIN Codec!Decoded =
              LET present == {m \in DOMAIN Codec!Metrics : AllRead(Codec!Metrics[m])} IN
              IF present \intersect Trackers = {} THEN present ELSE present \union {PvTotal}
         /\ \A m \in DOMAIN Codec!Metrics :
              /\ m \in DOMAIN Codec!Decoded <=> AllRead(Codec!Metrics[m])
              /\ AllRead(Codec!Metrics[m]) => Codec!Decoded[m] = Codec!DecodeOne(Codec!Metrics[m])
<1> DEFINE present == {m \in DOMAIN Codec!Metrics : Codec!DecodeOne(Codec!Metrics[m]) # None}
           read == {m \in DOMAIN Codec!Metrics : AllRead(Codec!Metrics[m])}
           out == [m \in present |-> Codec!DecodeOne(Codec!Metrics[m])]
<1>1. present = read  BY DecodedIfRead
<1>2. Codec!Decoded = Codec!Derived(out)  BY DEF Codec!Decoded
<1>3. \A m \in DOMAIN Codec!Metrics : m # PvTotal  BY MetricWords DEF CodecInv
<1>4. DOMAIN out = read /\ PvTotal \notin DOMAIN out  BY <1>1, <1>3
<1>5. \A m \in read : out[m] = Codec!DecodeOne(Codec!Metrics[m])  BY <1>1
<1> HIDE DEF out, present
<1>6. /\ DOMAIN Codec!Derived(out) = IF read \intersect Trackers = {} THEN read ELSE read \union {PvTotal}
      /\ \A m \in read : Codec!Derived(out)[m] = out[m]
  BY <1>4, DerivedAdds
<1>7. QED BY <1>2, <1>3, <1>5, <1>6

\* A device that answers all blocks gives exactly what it advertises.
LEMMA AllAdvertised ==
  ASSUME Codec!CodecAssumption, CodecInv,
         \A i \in DOMAIN Codec!BlocksRead : Codec!AddressesIn(Codec!BlocksRead[i]) \subseteq DOMAIN raw
  PROVE  DOMAIN Codec!Decoded = Codec!Capabilities
<1> DEFINE own == {m \in DOMAIN Codec!Metrics : ~Codec!Disabled(Codec!Metrics[m])}
           present == {m \in DOMAIN Codec!Metrics : AllRead(Codec!Metrics[m])}
<1>1. \A m \in own : AllRead(Codec!Metrics[m])
  <2> SUFFICES ASSUME NEW m \in own, NEW i \in DOMAIN Codec!WordsOf(Codec!Metrics[m])
               PROVE  Codec!WordsOf(Codec!Metrics[m])[i] \in DOMAIN raw
    BY DEF AllRead
  <2>1. QED BY BlocksHold DEF CodecInv
<1>2. present = own  BY <1>1 DEF AllRead
<1>3. DOMAIN Codec!Decoded = IF present \intersect Trackers = {} THEN present ELSE present \union {PvTotal}
  BY DecodedHas
<1>4. Codec!Capabilities = IF own \intersect Trackers # {} THEN own \union {PvTotal} ELSE own
  BY DEF Codec!Capabilities
<1> HIDE DEF own, present
<1>5. QED BY <1>2, <1>3, <1>4

\* The bits of several words as one number are those of the words, each at its place.
LEMMA JoinedBits ==
  ASSUME Codec!CodecAssumption, NEW list, Len(list) \in 1..4, \A i \in 1..Len(list) : raw[list[i]] \in WordOf
  PROVE  Codec!Bits(Codec!Joined(list)) =
           UNION {{j + WordBits * (i - 1) : j \in Codec!Bits(raw[list[i]])} : i \in 1..Len(list)}
<1> DEFINE n == Len(list)
           s == [i \in 1..n |-> raw[list[i]] * 2 ^ (WordBits * (i - 1))]
           at(b, k) == \E i \in 1..k : b - WordBits * (i - 1) \in Codec!Bits(raw[list[i]])
<1>1. n \in Nat /\ n <= 4 /\ WordBits \in Nat \ {0} /\ Codec!Width = 4 * WordBits
  <2>1. n \in 1..4  OBVIOUS
  <2> HIDE DEF n
  <2>2. QED BY <2>1, Widths
<1>2. \A i \in 1..n : WordBits * (i - 1) \in Nat  BY <1>1
<1>3. s \in [1..n -> Int]
  <2> SUFFICES ASSUME NEW i \in 1..n PROVE raw[list[i]] * 2 ^ (WordBits * (i - 1)) \in Int  OBVIOUS
  <2>1. raw[list[i]] \in Int
    <3>1. \A v \in WordOf : v \in Int  BY DEF WordOf
    <3>2. QED BY <3>1
  <2>2. 2 ^ (WordBits * (i - 1)) \in Nat  BY <1>2, PowerPositive
  <2>3. QED BY <2>1, <2>2
<1>4. Len(s) = n  BY <1>1
<1>5. Codec!Joined(list) = Day!Total(s)  BY DEF Codec!Joined, Codec!Total, Day!Total
<1>6. PICK f \in [0..n -> Int] : Adds(f, n, s) /\ Day!Total(s) = f[n]
  <2> HIDE DEF n, s
  <2>1. QED BY <1>1, <1>3, <1>4, TotalAdds
<1>7. f[0] = 0
  <2>1. 0 \in 0..n  BY <1>1
  <2>2. QED BY <1>6, <2>1, Zenon DEF Adds
<1>8. ASSUME NEW k \in 1..n PROVE f[k] = f[k - 1] + raw[list[k]] * 2 ^ (WordBits * (k - 1))
  <2>1. k \in 0..n /\ k # 0  BY <1>1
  <2>2. f[k] = f[k - 1] + s[k]
    <3> HIDE DEF s
    <3>1. QED BY <1>6, <2>1, Zenon DEF Adds
  <2>3. QED BY <2>2
<1>9. \A i \in 1..n : \A j \in Codec!Bits(raw[list[i]]) : j \in 0..(WordBits - 1)  BY BitsOfWord DEF WordOf
<1> DEFINE S == {k \in 0..n : f[k] \in 0..(2 ^ (WordBits * k) - 1) /\ \A b \in Nat : Bit(f[k], b) <=> at(b, k)}
<1>10. 0 \in S
  <2>1. WordBits * 0 = 0 /\ 2 ^ 0 = 1 /\ 0 \in Nat /\ 0 < 2 ^ 0 /\ 0 \in 0..n  BY <1>1
  <2>2. \A b \in Nat : 0 <= b  OBVIOUS
  <2>3. \A b \in Nat : ~Bit(0, b)  BY <2>1, <2>2, BitsLow, Zenon
  <2>4. 2 ^ (WordBits * 0) = 1  BY <2>1
  <2>5. f[0] \in 0..(2 ^ (WordBits * 0) - 1)  BY <1>7, <2>4
  <2>6. QED BY <1>7, <2>1, <2>3, <2>5
<1>11. ASSUME NEW k \in 1..n, k - 1 \in S PROVE k \in S
  <2> DEFINE K == WordBits * (k - 1)
             low == f[k - 1]
             v == raw[list[k]]
  <2>1. K \in Nat /\ WordBits * k = K + WordBits /\ k \in 0..n  BY <1>1
  <2>2. low \in 0..(2 ^ K - 1) /\ \A b \in Nat : Bit(low, b) <=> at(b, k - 1)  BY <1>11
  <2>3. v \in 0..(2 ^ WordBits - 1) /\ f[k] = low + v * 2 ^ K  BY <1>8, Widths DEF WordOf
  <2>4. \A i \in 1..(k - 1) : WordBits * (i - 1) + WordBits <= K /\ WordBits * (i - 1) \in Nat
    <3> SUFFICES ASSUME NEW i \in 1..(k - 1) PROVE WordBits * (i - 1) + WordBits <= K /\ WordBits * (i - 1) \in Nat
      OBVIOUS
    <3> DEFINE y == i - 1
               z == k - 1 - i
    <3>1. y \in Nat /\ z \in Nat /\ k - 1 = y + 1 + z  BY <1>1
    <3>2. \A x \in Nat : x * (y + 1 + z) = x * y + x + x * z /\ x * z \in Nat /\ x * y \in Nat  BY <3>1
    <3> HIDE DEF y, z
    <3>3. K = WordBits * y + WordBits + WordBits * z /\ WordBits * z \in Nat /\ WordBits * y \in Nat
      BY <1>1, <3>1, <3>2
    <3> HIDE DEF K
    <3>4. WordBits * y + WordBits <= K /\ WordBits * y \in Nat  BY <1>1, <3>3
    <3>5. QED BY <3>4 DEF y
  <2> HIDE DEF K, low, v, at
  <2>5. 2 ^ K \in Nat \ {0} /\ 2 ^ WordBits \in Nat \ {0} /\ 2 ^ (K + WordBits) = 2 ^ K * 2 ^ WordBits
    BY <1>1, <2>1, PowerAdds, PowerPositive
  <2>6. f[k] \in 0..(2 ^ (WordBits * k) - 1)
    <3>1. \A p, q, x, y \in Nat : x + 1 <= p /\ y + 1 <= q => x + y * p + 1 <= p * q /\ x + y * p \in Nat
      <4> TAKE p, q, x, y \in Nat
      <4> SUFFICES ASSUME x + 1 <= p, y + 1 <= q PROVE x + y * p + 1 <= p * q /\ x + y * p \in Nat  OBVIOUS
      <4>1. q - 1 - y \in Nat /\ q = y + 1 + (q - 1 - y)  OBVIOUS
      <4>2. \A z \in Nat : p * (y + 1 + z) = y * p + p + p * z /\ p * z \in Nat /\ y * p \in Nat  OBVIOUS
      <4>3. QED BY <4>1, <4>2
    <3>2. low \in Nat /\ low + 1 <= 2 ^ K /\ v \in Nat /\ v + 1 <= 2 ^ WordBits  BY <2>2, <2>3, <2>5
    <3>3. low + v * 2 ^ K + 1 <= 2 ^ K * 2 ^ WordBits /\ low + v * 2 ^ K \in Nat  BY <2>5, <3>1, <3>2
    <3>4. 2 ^ (WordBits * k) = 2 ^ K * 2 ^ WordBits  BY <2>1, <2>5
    <3>5. f[k] + 1 <= 2 ^ (WordBits * k) /\ f[k] \in Nat  BY <2>3, <3>3, <3>4
    <3>6. QED BY <2>5, <3>2, <3>4, <3>5
  <2>7. ASSUME NEW b \in Nat PROVE Bit(f[k], b) <=> at(b, k)
    <3>1. Bit(f[k], b) <=> IF b < K THEN Bit(low, b) ELSE Bit(v, b - K)
      <4>1. v \in Nat  BY <2>3, <2>5
      <4>2. Bit(low + v * 2 ^ K, b) <=> IF b < K THEN Bit(low, b) ELSE Bit(v, b - K)  BY <2>1, <2>2, <4>1, BitsJoin
      <4>3. QED BY <2>3, <4>2
    <3>2. \A i \in 1..k : i \in 1..(k - 1) \/ i = k  BY <1>1
    <3>3. \A i \in 1..(k - 1) : i \in 1..k /\ i \in 1..n  BY <1>1
    <3>4. CASE b < K
      <4>1. b - K \notin Codec!Bits(v)
        <5>1. b - K \notin 0..(WordBits - 1)  BY <2>1, <3>4
        <5>2. QED BY <1>9, <5>1 DEF v
      <4>2. at(b, k) <=> at(b, k - 1)  BY <3>2, <3>3, <4>1 DEF at, K, v
      <4>3. QED BY <2>2, <3>1, <3>4, <4>2
    <3>5. CASE ~(b < K)
      <4>1. \A i \in 1..(k - 1) : b - WordBits * (i - 1) \notin Codec!Bits(raw[list[i]])
        <5> SUFFICES ASSUME NEW i \in 1..(k - 1) PROVE b - WordBits * (i - 1) \notin Codec!Bits(raw[list[i]])  OBVIOUS
        <5> DEFINE d == WordBits * (i - 1)
        <5>1. d \in Nat /\ d + WordBits <= K /\ K <= b  BY <2>1, <2>4, <3>5
        <5> HIDE DEF d
        <5>2. b - d \notin 0..(WordBits - 1)  BY <1>1, <2>1, <5>1
        <5>3. QED BY <1>9, <3>3, <5>2 DEF d
      <4>2. k \in 1..k  BY <1>1
      <4>3. at(b, k) <=> b - K \in Codec!Bits(v)  BY <3>2, <4>1, <4>2 DEF at, K, v
      <4>4. b - K \in Nat  BY <2>1, <3>5
      <4>5. Codec!Bits(v) = {i \in 0..(Codec!Width - 1) : Bit(v, i)}  BY DEF Codec!Bits, Bit
      <4>6. Bit(v, b - K) => b - K < WordBits
        <5>1. v \in Nat /\ v < 2 ^ WordBits  BY <2>3, <2>5
        <5>2. ~(WordBits <= b - K) => b - K < WordBits  BY <1>1, <4>4
        <5>3. WordBits <= b - K => ~Bit(v, b - K)  BY <1>1, <4>4, <5>1, BitsLow
        <5>4. QED BY <5>2, <5>3
      <4>7. b - K < WordBits => b - K \in 0..(Codec!Width - 1)  BY <1>1, <4>4
      <4>8. QED BY <3>1, <3>5, <4>3, <4>5, <4>6, <4>7
    <3>6. QED BY <3>4, <3>5
  <2>8. QED BY <2>1, <2>6, <2>7
<1> HIDE DEF S
<1>12. \A k \in 0..n : k \in S  BY <1>1, <1>10, <1>11, UpTo
<1>13. \A b \in Nat : Bit(f[n], b) <=> at(b, n)
  <2>1. n \in S  BY <1>1, <1>12
  <2>2. QED BY <2>1 DEF S
<1>14. Codec!Bits(f[n]) = {b \in 0..(Codec!Width - 1) : Bit(f[n], b)}  BY DEF Codec!Bits, Bit
<1> DEFINE places == UNION {{j + WordBits * (i - 1) : j \in Codec!Bits(raw[list[i]])} : i \in 1..n}
<1>15. ASSUME NEW b \in 0..(Codec!Width - 1), at(b, n) PROVE b \in places
  <2>1. PICK i \in 1..n : b - WordBits * (i - 1) \in Codec!Bits(raw[list[i]])  BY <1>15
  <2>2. b = (b - WordBits * (i - 1)) + WordBits * (i - 1)  BY <1>1, <1>2
  <2>3. QED BY <2>1, <2>2
<1>16. ASSUME NEW b \in places PROVE b \in 0..(Codec!Width - 1) /\ at(b, n)
  <2>1. PICK i \in 1..n : \E j \in Codec!Bits(raw[list[i]]) : b = j + WordBits * (i - 1)  OBVIOUS
  <2>2. PICK j \in Codec!Bits(raw[list[i]]) : b = j + WordBits * (i - 1)  BY <2>1
  <2>3. j \in 0..(WordBits - 1)  BY <1>9
  <2>4. i \in {1, 2, 3, 4}  BY <1>1
  <2> DEFINE d == WordBits * (i - 1)
  <2>5. d \in 0..(3 * WordBits)  BY <1>1, <2>4
  <2> HIDE DEF d, places
  <2>6. b = j + d  BY <2>2 DEF d
  <2>7. b \in 0..(4 * WordBits - 1) /\ b - d = j  BY <1>1, <2>3, <2>5, <2>6
  <2>8. at(b, n)  BY <2>7 DEF d
  <2>9. QED BY <1>1, <2>7, <2>8
<1>17. Codec!Bits(f[n]) = places
  <2> HIDE DEF places, at
  <2>1. \A b \in 0..(Codec!Width - 1) : b \in Nat  OBVIOUS
  <2>2. QED BY <1>13, <1>14, <1>15, <1>16, <2>1
<1>18. QED BY <1>5, <1>6, <1>17

\* The files of a profile merged one after the other, as the driver does it.
Merged(h, files) ==
  h = [k \in 1..Len(files) |-> IF k = 1 THEN files[1] ELSE Codec!Merge(h[k - 1], files[k])]
\* And as the dump does it.
Dumped(h, files) ==
  h = [k \in 0..Len(files) |-> IF k = 0 THEN << >> ELSE Codec!Updated(h[k - 1], files[k].metrics)]

LEMMA MergedExists == ASSUME NEW files, Len(files) \in Nat PROVE \E h : Merged(h, files)
<1> DEFINE n == Len(files)
           Is(h, k) == h = [j \in 1..k |-> IF j = 1 THEN files[1] ELSE Codec!Merge(h[j - 1], files[j])]
           S == {k \in 0..n : \E h : Is(h, k)}
<1>1. 0 \in S
  <2> DEFINE h == [j \in 1..0 |-> files[1]]
  <2>1. Is(h, 0)  OBVIOUS
  <2> HIDE DEF h, Is
  <2>2. QED BY <2>1
<1>2. ASSUME NEW k \in 1..n, k - 1 \in S PROVE k \in S
  <2>1. PICK f : Is(f, k - 1)  BY <1>2
  <2> DEFINE next == IF k = 1 THEN files[1] ELSE Codec!Merge(f[k - 1], files[k])
             g == [j \in 1..k |-> IF j = k THEN next ELSE f[j]]
  <2>2. \A j \in 1..(k - 1) : f[j] = IF j = 1 THEN files[1] ELSE Codec!Merge(f[j - 1], files[j])  BY <2>1
  <2>3. \A j \in 1..k : j # 1 => g[j - 1] = f[j - 1]  OBVIOUS
  <2>4. \A j \in 1..k : g[j] = IF j = 1 THEN files[1] ELSE Codec!Merge(g[j - 1], files[j])
    <3> SUFFICES ASSUME NEW j \in 1..k PROVE g[j] = IF j = 1 THEN files[1] ELSE Codec!Merge(g[j - 1], files[j])  OBVIOUS
    <3>1. CASE j = k
      <4>1. g[j] = next  BY <3>1
      <4> HIDE DEF g
      <4>2. QED BY <2>3, <3>1, <4>1
    <3>2. CASE j # k
      <4>1. j \in 1..(k - 1) /\ g[j] = f[j]  BY <3>2
      <4> HIDE DEF g
      <4>2. QED BY <2>2, <2>3, <4>1
    <3>3. QED BY <3>1, <3>2
  <2>5. g = [j \in 1..k |-> g[j]]  OBVIOUS
  <2> HIDE DEF g
  <2>6. Is(g, k)  BY <2>4, <2>5
  <2> HIDE DEF Is
  <2>7. QED BY <2>6
<1> HIDE DEF S
<1>3. \A k \in 0..n : k \in S  BY <1>1, <1>2, UpTo
<1>4. n \in S  BY <1>3
<1>5. QED BY <1>4 DEF S, Merged

LEMMA DumpedExists == ASSUME NEW files, Len(files) \in Nat PROVE \E h : Dumped(h, files)
<1> DEFINE n == Len(files)
           Is(h, k) == h = [j \in 0..k |-> IF j = 0 THEN << >> ELSE Codec!Updated(h[j - 1], files[j].metrics)]
           S == {k \in 0..n : \E h : Is(h, k)}
<1>1. 0 \in S
  <2> DEFINE h == [j \in 0..0 |-> << >>]
  <2>1. Is(h, 0)  OBVIOUS
  <2> HIDE DEF h, Is
  <2>2. QED BY <2>1
<1>2. ASSUME NEW k \in 1..n, k - 1 \in S PROVE k \in S
  <2>1. PICK f : Is(f, k - 1)  BY <1>2
  <2> DEFINE next == Codec!Updated(f[k - 1], files[k].metrics)
             g == [j \in 0..k |-> IF j = k THEN next ELSE f[j]]
  <2>2. \A j \in 0..(k - 1) : f[j] = IF j = 0 THEN << >> ELSE Codec!Updated(f[j - 1], files[j].metrics)  BY <2>1
  <2>3. \A j \in 0..k : j # 0 => g[j - 1] = f[j - 1]  OBVIOUS
  <2>4. \A j \in 0..k : g[j] = IF j = 0 THEN << >> ELSE Codec!Updated(g[j - 1], files[j].metrics)
    <3> SUFFICES ASSUME NEW j \in 0..k PROVE g[j] = IF j = 0 THEN << >> ELSE Codec!Updated(g[j - 1], files[j].metrics)
      OBVIOUS
    <3>1. CASE j = k
      <4>1. g[j] = next  BY <3>1
      <4> HIDE DEF g
      <4>2. QED BY <2>3, <3>1, <4>1
    <3>2. CASE j # k
      <4>1. j \in 0..(k - 1) /\ g[j] = f[j]  BY <3>2
      <4> HIDE DEF g
      <4>2. QED BY <2>2, <2>3, <4>1
    <3>3. QED BY <3>1, <3>2
  <2>5. g = [j \in 0..k |-> g[j]]  OBVIOUS
  <2> HIDE DEF g
  <2>6. Is(g, k)  BY <2>4, <2>5
  <2> HIDE DEF Is
  <2>7. QED BY <2>6
<1> HIDE DEF S
<1>3. \A k \in 0..n : k \in S  BY <1>1, <1>2, UpTo
<1>4. n \in S  BY <1>3
<1>5. QED BY <1>4 DEF S, Dumped

\* Both find the same spec for a metric that no file overrides.
LEMMA SameSpecs ==
  ASSUME NEW files, Len(files) \in Nat \ {0}, DOMAIN files = 1..Len(files)
  PROVE  \A m \in DOMAIN Codec!MetricsOf(files) :
           (\A i \in DOMAIN files : m \notin DOMAIN files[i].overrides)
             => Codec!DumpMetricsOf(files)[m] = Codec!MetricsOf(files)[m]
<1> DEFINE n == Len(files)
           h == CHOOSE x : Merged(x, files)
           d == CHOOSE x : Dumped(x, files)
           Plain(m) == \A i \in DOMAIN files : m \notin DOMAIN files[i].overrides
           Same(k) == \A m : Plain(m) =>
                        /\ m \in DOMAIN d[k] <=> m \in DOMAIN h[k].metrics
                        /\ m \in DOMAIN d[k] => d[k][m] = h[k].metrics[m]
           S == {k \in 0..n : k = 0 \/ Same(k)}
<1>1. Codec!MetricsOf(files) = h[n].metrics  BY DEF Codec!MetricsOf, Merged
<1>2. Codec!DumpMetricsOf(files) = d[n]  BY DEF Codec!DumpMetricsOf, Dumped
<1>3. Merged(h, files)  BY MergedExists
<1>4. Dumped(d, files)  BY DumpedExists
<1> HIDE DEF h, d
<1>5. \A k \in 1..n : h[k] = IF k = 1 THEN files[1] ELSE Codec!Merge(h[k - 1], files[k])  BY <1>3 DEF Merged
<1>6. ASSUME NEW k \in 1..n
      PROVE  /\ DOMAIN d[k] = DOMAIN d[k - 1] \union DOMAIN files[k].metrics
             /\ \A m \in DOMAIN d[k] :
                  d[k][m] = IF m \in DOMAIN files[k].metrics THEN files[k].metrics[m] ELSE d[k - 1][m]
  <2>1. k \in 0..n /\ k # 0  OBVIOUS
  <2>2. d[k] = Codec!Updated(d[k - 1], files[k].metrics)  BY <1>4, <2>1, Zenon DEF Dumped
  <2>3. QED BY <2>2 DEF Codec!Updated
<1>7. ASSUME NEW k \in 1..n, k # 1, NEW m, m \notin DOMAIN files[k].overrides
      PROVE  /\ m \in DOMAIN h[k].metrics <=> m \in DOMAIN h[k - 1].metrics \union DOMAIN files[k].metrics
             /\ m \in DOMAIN h[k].metrics =>
                  h[k].metrics[m] = IF m \in DOMAIN files[k].metrics THEN files[k].metrics[m] ELSE h[k - 1].metrics[m]
  <2>1. h[k] = Codec!Merge(h[k - 1], files[k])  BY <1>5, <1>7
  <2> DEFINE both == Codec!Updated(h[k - 1].metrics, files[k].metrics)
             overrides == files[k].overrides
             patches == [x \in DOMAIN overrides |->
                           Codec!Updated(IF x \in DOMAIN both THEN both[x] ELSE << >>, overrides[x])]
  <2>2. h[k].metrics = Codec!Updated(both, patches)  BY <2>1 DEF Codec!Merge
  <2>3. /\ DOMAIN both = DOMAIN h[k - 1].metrics \union DOMAIN files[k].metrics
        /\ \A x \in DOMAIN both :
             both[x] = IF x \in DOMAIN files[k].metrics THEN files[k].metrics[x] ELSE h[k - 1].metrics[x]
    BY DEF Codec!Updated
  <2>4. DOMAIN patches = DOMAIN overrides  OBVIOUS
  <2> HIDE DEF both, patches
  <2>5. h[k].metrics = [x \in DOMAIN both \union DOMAIN patches |-> IF x \in DOMAIN patches THEN patches[x] ELSE both[x]]
    BY <2>2 DEF Codec!Updated
  <2>6. m \notin DOMAIN patches  BY <1>7, <2>4
  <2>7. /\ m \in DOMAIN h[k].metrics <=> m \in DOMAIN both
        /\ m \in DOMAIN both => h[k].metrics[m] = both[m]
    BY <2>5, <2>6
  <2>8. QED BY <2>3, <2>7
<1>8. 0 \in S  OBVIOUS
<1>9. ASSUME NEW k \in 1..n, k - 1 \in S PROVE k \in S
  <2>1. k \in DOMAIN files /\ k \in 0..n  OBVIOUS
  <2>2. CASE k = 1
    <3>1. h[1] = files[1]  BY <1>5, <2>2
    <3>2. d[0] = << >>
      <4>1. 0 \in 0..n  OBVIOUS
      <4>2. QED BY <1>4, <4>1, Zenon DEF Dumped
    <3>3. DOMAIN d[k - 1] = {}  BY <2>2, <3>2
    <3>4. /\ DOMAIN d[k] = DOMAIN files[1].metrics
          /\ \A m \in DOMAIN d[k] : d[k][m] = files[1].metrics[m]
      BY <1>6, <2>2, <3>3
    <3>5. h[k] = files[1]  BY <2>2, <3>1
    <3>6. Same(k)  BY <3>4, <3>5
    <3> HIDE DEF Same
    <3>7. QED BY <2>1, <3>6
  <2>3. CASE k # 1
    <3>1. Same(k - 1)
      <4>1. k - 1 # 0  BY <2>3
      <4> HIDE DEF Same
      <4>2. QED BY <1>9, <4>1
    <3>2. ASSUME NEW m, Plain(m)
          PROVE  /\ m \in DOMAIN d[k] <=> m \in DOMAIN h[k].metrics
                 /\ m \in DOMAIN d[k] => d[k][m] = h[k].metrics[m]
      <4>1. m \notin DOMAIN files[k].overrides  BY <2>1, <3>2
      <4>2. /\ m \in DOMAIN h[k].metrics <=> m \in DOMAIN h[k - 1].metrics \union DOMAIN files[k].metrics
            /\ m \in DOMAIN h[k].metrics =>
                 h[k].metrics[m] = IF m \in DOMAIN files[k].metrics THEN files[k].metrics[m] ELSE h[k - 1].metrics[m]
        BY <1>7, <2>3, <4>1
      <4>3. /\ m \in DOMAIN d[k - 1] <=> m \in DOMAIN h[k - 1].metrics
            /\ m \in DOMAIN d[k - 1] => d[k - 1][m] = h[k - 1].metrics[m]
        BY <3>1, <3>2
      <4>4. QED BY <1>6, <4>2, <4>3
    <3>3. Same(k)  BY <3>2
    <3> HIDE DEF Same
    <3>4. QED BY <2>1, <3>3
  <2>4. QED BY <2>2, <2>3
<1> HIDE DEF S
<1>10. \A k \in 0..n : k \in S  BY <1>8, <1>9, UpTo
<1>11. Same(n)
  <2>1. n \in S /\ n # 0  BY <1>10
  <2> HIDE DEF Same
  <2>2. QED BY <2>1 DEF S
<1>12. QED BY <1>1, <1>2, <1>11

\* What the dump makes of a metric, type by type, if all words it lists could be read.
LEMMA DumpKinds ==
  ASSUME None \notin Int, NEW spec, DOMAIN spec.addrs = 1..Len(spec.addrs), Len(spec.addrs) \in 1..4,
         \A i \in DOMAIN spec.addrs : spec.addrs[i] \in DOMAIN raw /\ raw[spec.addrs[i]] \in Int
  PROVE  LET low  == raw[spec.addrs[1]]
             long == raw[spec.addrs[2]] * Codec!Base + low
             got  == Codec!DumpDecoded(spec)
         IN  /\ spec.type = "u16" => got = low * spec.scale + spec.offset
             /\ spec.type = "s16" => got = Codec!Signed(low, WordBits) * spec.scale + spec.offset
             /\ spec.type = "u32" /\ Len(spec.addrs) = 2 => got = long * spec.scale + spec.offset
             /\ spec.type = "s32" /\ Len(spec.addrs) = 2 =>
                  got = Codec!Signed(long, 2 * WordBits) * spec.scale + spec.offset
             /\ spec.type = "enum" => got = IF low \in DOMAIN spec.names THEN spec.names[low] ELSE low
             /\ spec.type = "bits" =>
                  got = UNION {{j + WordBits * (i - 1) : j \in Codec!Bits(raw[spec.addrs[i]])} : i \in 1..Len(spec.addrs)}
<1> DEFINE n == Len(spec.addrs)
           vals == [i \in DOMAIN spec.addrs |->
                      IF spec.addrs[i] \in DOMAIN raw THEN raw[spec.addrs[i]] ELSE None]
           low == raw[spec.addrs[1]]
           long == raw[spec.addrs[2]] * Codec!Base + low
           got == Codec!DumpDecoded(spec)
           combined == UNION {{j + WordBits * (i - 1) : j \in Codec!Bits(vals[i])} : i \in DOMAIN vals}
           two == Len(vals) >= 2
           wide == vals[2] * Codec!Base + vals[1]
<1>1. got = IF \E i \in DOMAIN vals : vals[i] = None THEN None
            ELSE IF spec.type = "s16" THEN Codec!Signed(vals[1], WordBits) * spec.scale + spec.offset
            ELSE IF spec.type = "u32" /\ two THEN wide * spec.scale + spec.offset
            ELSE IF spec.type = "s32" /\ two THEN Codec!Signed(wide, 2 * WordBits) * spec.scale + spec.offset
            ELSE IF spec.type = "enum" /\ vals[1] \in DOMAIN spec.names THEN spec.names[vals[1]]
            ELSE IF spec.type = "bits" THEN combined
            ELSE IF spec.type = "u16" THEN vals[1] * spec.scale + spec.offset
            ELSE vals[1]
  BY DEF Codec!DumpDecoded
<1>2. n \in Nat /\ 1 \in 1..n
  <2>1. n \in 1..4  OBVIOUS
  <2> HIDE DEF n
  <2>2. QED BY <2>1
<1>3. DOMAIN vals = 1..n /\ Len(vals) = n /\ \A i \in 1..n : vals[i] = raw[spec.addrs[i]] /\ vals[i] # None
  <2>1. DOMAIN vals = 1..n  OBVIOUS
  <2>2. vals = [i \in 1..n |-> vals[i]]  OBVIOUS
  <2>3. \A i \in 1..n : vals[i] = raw[spec.addrs[i]] /\ vals[i] # None  OBVIOUS
  <2> HIDE DEF vals, n
  <2>4. Len(vals) = n  BY <1>2, <2>1
  <2>5. QED BY <2>1, <2>3, <2>4
<1>4. combined = UNION {{j + WordBits * (i - 1) : j \in Codec!Bits(raw[spec.addrs[i]])} : i \in 1..n}
  <2> HIDE DEF vals, n
  <2>1. QED BY <1>3
<1>5. vals[1] = low /\ (n = 2 => two /\ wide = long)
  <2>1. n = 2 => 2 \in 1..n  OBVIOUS
  <2> HIDE DEF vals, n
  <2>2. QED BY <1>2, <1>3, <2>1
<1> HIDE DEF vals, combined, two, wide, got
<1>6. ~\E i \in DOMAIN vals : vals[i] = None  BY <1>3
<1>7. QED BY <1>1, <1>4, <1>5, <1>6 DEF got

\* The dump shows what the driver decodes.
LEMMA DumpAgrees ==
  ASSUME Codec!CodecAssumption, CodecInv, NEW m \in DOMAIN Codec!Metrics,
         \A i \in DOMAIN chain : m \notin DOMAIN chain[i].overrides,
         Codec!WordsOf(Codec!Metrics[m]) = Codec!Metrics[m].addrs
  PROVE  Codec!DumpDecoded(Codec!DumpMetrics[m]) = IF m \in DOMAIN Codec!Decoded THEN Codec!Decoded[m] ELSE None
<1> DEFINE spec == Codec!Metrics[m]
           list == spec.addrs
           low  == raw[list[1]]
           high == raw[list[2]]
<1>1. Codec!DumpMetrics[m] = spec
  <2>1. Len(chain) \in Nat \ {0} /\ DOMAIN chain = 1..Len(chain)
    BY DEF CodecInv, Codec!CodecAssumption, Codec!ProfileAssumption
  <2>2. m \in DOMAIN Codec!MetricsOf(chain)  BY DEF Codec!Metrics
  <2>3. Codec!DumpMetricsOf(chain)[m] = Codec!MetricsOf(chain)[m]  BY <2>1, <2>2, SameSpecs
  <2>4. QED BY <2>3 DEF Codec!DumpMetrics, Codec!Metrics
<1>2. IF m \in DOMAIN Codec!Decoded
      THEN AllRead(spec) /\ Codec!Decoded[m] = Codec!DecodeOne(spec) ELSE ~AllRead(spec)
  BY DecodedHas
<1>3. /\ Codec!WellFormed(spec) /\ DOMAIN list = 1..Len(list) /\ Len(list) \in 1..4
      /\ spec.type \in {"u32", "s32"} => Len(list) = 2
  BY MetricWords DEF CodecInv
<1>4. spec.type \in {"u16", "s16", "u32", "s32", "enum", "bits"}  BY <1>3 DEF Codec!WellFormed
<1>5. Codec!WordsOf(spec) = list  OBVIOUS
<1>6. None \notin Int /\ RegisterSpace \subseteq Nat  BY DEF Codec!CodecAssumption
<1> HIDE DEF spec
<1>7. CASE ~AllRead(spec)
  <2>1. PICK i \in DOMAIN list : list[i] \notin DOMAIN raw
    <3>1. CASE Codec!Disabled(spec)
      <4>1. PICK i \in DOMAIN list : list[i] = -1  BY <3>1 DEF Codec!Disabled
      <4>2. -1 \notin Nat  OBVIOUS
      <4>3. list[i] \notin DOMAIN raw  BY <1>6, <4>1, <4>2 DEF CodecInv, RawTyped
      <4>4. QED BY <4>3
    <3>2. CASE ~Codec!Disabled(spec)  BY <1>5, <1>7, <3>2 DEF AllRead
    <3>3. QED BY <3>1, <3>2
  <2>2. Codec!DumpDecoded(spec) = None
    <3> DEFINE vals == [j \in DOMAIN list |-> IF list[j] \in DOMAIN raw THEN raw[list[j]] ELSE None]
    <3>1. i \in DOMAIN vals /\ vals[i] = None  BY <2>1
    <3>2. QED BY <3>1 DEF Codec!DumpDecoded
  <2>3. QED BY <1>1, <1>2, <1>7, <2>2 DEF spec
<1>8. CASE AllRead(spec)
  <2>1. \A i \in DOMAIN list : list[i] \in DOMAIN raw /\ raw[list[i]] \in WordOf
    BY <1>5, <1>8 DEF AllRead, CodecInv, RawTyped
  <2>2. \A i \in DOMAIN list : raw[list[i]] \in Int  BY <2>1, Widths DEF WordOf
  <2>3. LET got == Codec!DecodeOne(spec)
            long == Codec!Long(low, high)
        IN  /\ spec.type = "u16" => got = low * spec.scale + spec.offset
            /\ spec.type = "s16" => got = Codec!Signed(low, WordBits) * spec.scale + spec.offset
            /\ spec.type = "u32" => got = long * spec.scale + spec.offset
            /\ spec.type = "s32" => got = Codec!Signed(long, 2 * WordBits) * spec.scale + spec.offset
            /\ spec.type = "enum" => got = IF low \in DOMAIN spec.names THEN spec.names[low] ELSE low
            /\ spec.type = "bits" => got = Codec!Bits(Codec!Joined(list))
    BY <1>5, <1>8, DecodeKinds
  <2>4. LET got == Codec!DumpDecoded(spec)
            long == high * Codec!Base + low
        IN  /\ spec.type = "u16" => got = low * spec.scale + spec.offset
            /\ spec.type = "s16" => got = Codec!Signed(low, WordBits) * spec.scale + spec.offset
            /\ spec.type = "u32" /\ Len(list) = 2 => got = long * spec.scale + spec.offset
            /\ spec.type = "s32" /\ Len(list) = 2 => got = Codec!Signed(long, 2 * WordBits) * spec.scale + spec.offset
            /\ spec.type = "enum" => got = IF low \in DOMAIN spec.names THEN spec.names[low] ELSE low
            /\ spec.type = "bits" =>
                 got = UNION {{j + WordBits * (i - 1) : j \in Codec!Bits(raw[list[i]])} : i \in 1..Len(list)}
    BY <1>3, <1>6, <2>1, <2>2, DumpKinds
  <2>5. Len(list) = 2 => Codec!Long(low, high) = high * Codec!Base + low
    <3>1. Len(list) = 2 => low \in Int /\ high \in Int  BY <1>3, <2>2
    <3>2. Codec!Base \in Int  BY Widths
    <3> HIDE DEF low, high
    <3>3. QED BY <3>1, <3>2 DEF Codec!Long
  <2>6. Codec!Bits(Codec!Joined(list)) =
          UNION {{j + WordBits * (i - 1) : j \in Codec!Bits(raw[list[i]])} : i \in 1..Len(list)}
    <3>1. \A i \in 1..Len(list) : raw[list[i]] \in WordOf  BY <1>3, <2>1
    <3> HIDE DEF list
    <3>2. QED BY <1>3, <3>1, JoinedBits
  <2> HIDE DEF list, low, high
  <2>7. Codec!DumpDecoded(spec) = Codec!DecodeOne(spec)
    <3>1. CASE spec.type \in {"u16", "s16"}  BY <2>3, <2>4, <3>1
    <3>2. CASE spec.type = "u32"
      <4>1. Len(list) = 2  BY <1>3, <3>2
      <4>2. Codec!DecodeOne(spec) = Codec!Long(low, high) * spec.scale + spec.offset  BY <2>3, <3>2
      <4>3. Codec!DumpDecoded(spec) = (high * Codec!Base + low) * spec.scale + spec.offset  BY <2>4, <3>2, <4>1
      <4>4. QED BY <2>5, <4>1, <4>2, <4>3
    <3>3. CASE spec.type = "s32"
      <4>1. Len(list) = 2  BY <1>3, <3>3
      <4>2. Codec!DecodeOne(spec) = Codec!Signed(Codec!Long(low, high), 2 * WordBits) * spec.scale + spec.offset
        BY <2>3, <3>3
      <4>3. Codec!DumpDecoded(spec) = Codec!Signed(high * Codec!Base + low, 2 * WordBits) * spec.scale + spec.offset
        BY <2>4, <3>3, <4>1
      <4>4. QED BY <2>5, <4>1, <4>2, <4>3
    <3>4. CASE spec.type = "enum"  BY <2>3, <2>4, <3>4
    <3>5. CASE spec.type = "bits"  BY <2>3, <2>4, <2>6, <3>5
    <3>6. QED BY <1>4, <3>1, <3>2, <3>3, <3>4, <3>5
  <2>8. QED BY <1>1, <1>2, <1>8, <2>7 DEF spec
<1>9. QED BY <1>7, <1>8

\* So does a map entry of a number.
LEMMA MapAgrees ==
  ASSUME Codec!CodecAssumption, CodecInv, NEW m \in DOMAIN Codec!Metrics,
         Codec!Metrics[m].type \in {"u16", "s16", "u32", "s32"}, ~Codec!Disabled(Codec!Metrics[m])
  PROVE  LET spec == Codec!Metrics[m] IN
         Codec!MapDecoded([addrs |-> Codec!WordsOf(spec), mask |-> None, signed |-> spec.type \in {"s16", "s32"},
                           scale |-> spec.scale, offset |-> spec.offset]) = Codec!DecodeOne(spec)
<1> DEFINE spec == Codec!Metrics[m]
           list == Codec!WordsOf(spec)
           signed == spec.type \in {"s16", "s32"}
           e == [addrs |-> list, mask |-> None, signed |-> signed, scale |-> spec.scale, offset |-> spec.offset]
           low  == raw[list[1]]
           long == Codec!Long(low, raw[list[2]])
           present == {i \in DOMAIN list : list[i] \in DOMAIN raw}
           got == Codec!MapDecoded(e)
<1>1. /\ DOMAIN list = 1..Len(list)
      /\ spec.type \in {"u16", "s16"} => Len(list) = 1
      /\ spec.type \in {"u32", "s32"} => Len(list) = 2
  BY MetricWords DEF CodecInv
<1>2. got = IF present # DOMAIN list THEN None
            ELSE IF Len(list) = 1 THEN (IF signed THEN Codec!Signed(low, WordBits) ELSE low) * spec.scale + spec.offset
            ELSE IF Len(list) = 2 THEN (IF signed THEN Codec!Signed(long, 2 * WordBits) ELSE long) * spec.scale + spec.offset
            ELSE None
  <2>1. e.addrs = list /\ e.mask = None /\ e.signed = signed /\ e.scale = spec.scale /\ e.offset = spec.offset  OBVIOUS
  <2> HIDE DEF e, list, spec
  <2>2. QED BY <2>1 DEF Codec!MapDecoded
<1>3. spec.type \in {"u16", "s16", "u32", "s32"} /\ ~Codec!Disabled(spec)  OBVIOUS
<1> HIDE DEF spec, e, got
<1>4. CASE ~AllRead(spec)
  <2>1. present # DOMAIN list  BY <1>3, <1>4 DEF AllRead
  <2>2. Codec!DecodeOne(spec) = None  BY <1>4 DEF AllRead, Codec!DecodeOne
  <2> HIDE DEF list, present
  <2>3. QED BY <1>2, <2>1, <2>2 DEF got, e, list, spec
<1>5. CASE AllRead(spec)
  <2>1. present = DOMAIN list  BY <1>5 DEF AllRead
  <2>2. /\ spec.type = "u16" => Codec!DecodeOne(spec) = low * spec.scale + spec.offset
        /\ spec.type = "s16" => Codec!DecodeOne(spec) = Codec!Signed(low, WordBits) * spec.scale + spec.offset
        /\ spec.type = "u32" => Codec!DecodeOne(spec) = long * spec.scale + spec.offset
        /\ spec.type = "s32" => Codec!DecodeOne(spec) = Codec!Signed(long, 2 * WordBits) * spec.scale + spec.offset
    BY <1>5, DecodeKinds
  <2> HIDE DEF list, present, low, long
  <2>3. got = Codec!DecodeOne(spec)
    <3>1. CASE spec.type = "u16"
      <4>1. Len(list) = 1 /\ ~signed  BY <1>1, <3>1
      <4> HIDE DEF signed
      <4>2. QED BY <1>2, <2>1, <2>2, <3>1, <4>1
    <3>2. CASE spec.type = "s16"
      <4>1. Len(list) = 1 /\ signed  BY <1>1, <3>2
      <4> HIDE DEF signed
      <4>2. QED BY <1>2, <2>1, <2>2, <3>2, <4>1
    <3>3. CASE spec.type = "u32"
      <4>1. Len(list) = 2 /\ Len(list) # 1 /\ ~signed  BY <1>1, <3>3
      <4> HIDE DEF signed
      <4>2. QED BY <1>2, <2>1, <2>2, <3>3, <4>1
    <3>4. CASE spec.type = "s32"
      <4>1. Len(list) = 2 /\ Len(list) # 1 /\ signed  BY <1>1, <3>4
      <4> HIDE DEF signed
      <4>2. QED BY <1>2, <2>1, <2>2, <3>4, <4>1
    <3>5. QED BY <1>3, <3>1, <3>2, <3>3, <3>4
  <2>4. QED BY <2>3 DEF got, e, list, spec
<1>6. QED BY <1>4, <1>5

\* And one of a bit field.
LEMMA FieldMapAgrees ==
  ASSUME Codec!CodecAssumption, CodecInv, NEW f \in Fields, f.type = "bits", f.addr \in DOMAIN raw
  PROVE  Codec!MapDecoded([addrs |-> <<f.addr>>, mask |-> f.mask, signed |-> FALSE, scale |-> 1, offset |-> 0])
           = Codec!DecodeSetting(f, raw[f.addr])
<1> DEFINE e == [addrs |-> <<f.addr>>, mask |-> f.mask, signed |-> FALSE, scale |-> 1, offset |-> 0]
           v == raw[f.addr]
           part1 == Codec!Word(Codec!Bits(v) \intersect Codec!Bits(f.mask))
           s == Codec!Shift(f.mask)
<1>1. f.mask # None /\ v \in WordOf
  <2>1. f.mask \in 1..(Codec!Base - 1) /\ None \notin Int  BY DEF Codec!CodecAssumption, Codec!FieldAssumption
  <2>2. QED BY <2>1 DEF CodecInv, RawTyped
<1>2. Codec!DecodeSetting(f, v) = part1 \div 2 ^ s  BY DEF Codec!DecodeSetting
<1>3. Codec!MapDecoded(e) = (part1 \div 2 ^ s) * 1
  <2>1. e.addrs = <<f.addr>> /\ e.mask = f.mask /\ e.scale = 1  OBVIOUS
  <2>2. Len(e.addrs) = 1 /\ DOMAIN e.addrs = 1..1 /\ e.addrs[1] = f.addr  OBVIOUS
  <2>3. {i \in DOMAIN e.addrs : e.addrs[i] \in DOMAIN raw} = DOMAIN e.addrs  BY <2>2
  <2> HIDE DEF e
  <2>4. QED BY <1>1, <2>1, <2>2, <2>3 DEF Codec!MapDecoded
<1>4. part1 \div 2 ^ s \in Int
  <2>1. Codec!Bits(v) \intersect Codec!Bits(f.mask) \in SUBSET (0..(WordBits - 1))  BY MaskBits
  <2>2. part1 \in Nat
    <3>1. part1 \in 0..(Codec!Base - 1)  BY <2>1, WordOfBits
    <3> HIDE DEF part1
    <3>2. QED BY <3>1, Widths
  <2>3. s \in Nat  BY MaskBits
  <2>4. 2 ^ s \in Nat \ {0}  BY <2>3, PowerPositive
  <2> HIDE DEF part1, s
  <2>5. QED BY <2>2, <2>4, Quotient
<1>5. QED BY <1>2, <1>3, <1>4

LEMMA CodecInitial == Codec!CodecAssumption /\ Codec!Init => CodecInv
BY RawInitial DEF Codec!Init, CodecInv

LEMMA CodecStep ==
  ASSUME Codec!CodecAssumption, CodecInv, [Codec!Next]_codecVars
  PROVE  CodecInv'
<1>1. chain' = chain  BY DEF Codec!Next, Codec!Change, Codec!Write, codecVars
<1>2. RawTyped'  BY RawStep DEF CodecInv
<1>3. QED BY <1>1, <1>2 DEF CodecInv

LEMMA CodecAgrees ==
  ASSUME Codec!CodecAssumption, CodecInv
  PROVE  Codec!DecodersAgree
BY AllAdvertised, DumpAgrees, MapAgrees, FieldMapAgrees DEF Codec!DecodersAgree

\* The driver's decoder, the dump and decode_map_entry: a device that answers all blocks gives exactly the
\* metrics it advertises; and the three decoders show the same values, whatever registers are missing.  For
\* any width of a word, and any inheritance chain of profiles whose metrics are well-formed.
THEOREM DecodersShowTheSame ==
  /\ Codec!Spec => []Codec!DecodersAgree
  /\ PartsSpec => []DecodersAgree
<1> DEFINE Inv == part = "codec" => CodecInv
<1>0. Codec!CodecAssumption  BY PartsAssumption DEF PartsAssumption
<1>1. Codec!Init => CodecInv  BY <1>0, CodecInitial
<1>2. CodecInv /\ [Codec!Next]_codecVars => CodecInv'  BY <1>0, CodecStep
<1>3. CodecInv => Codec!DecodersAgree  BY <1>0, CodecAgrees
<1>4. PartsInit => Inv  BY <1>1 DEF PartsInit
<1>5. Inv /\ [PartsNext]_vars => Inv'  BY <1>2, OnePartMoves
<1>6. Inv => DecodersAgree  BY <1>3 DEF DecodersAgree
<1> HIDE DEF Inv
<1>7. PartsSpec => []DecodersAgree  BY <1>4, <1>5, <1>6, PTL DEF PartsSpec
<1>8. CodecInv /\ [Codec!Next]_(Codec!codecVars) => CodecInv'  BY <1>2 DEF codecVars, Codec!codecVars
<1>9. Codec!Spec => []Codec!DecodersAgree  BY <1>1, <1>3, <1>8, PTL DEF Codec!Spec
<1>10. QED BY <1>7, <1>9

--------------------------------------------------------------------------------
(* The types of a device's connection.                                     *)

\* The attempts of transactions that may still be followed by a retry.
ToRetry ==
  {p \in Callers \X (1..(Attempts - 1)) :
     /\ call[p[1]] # None
     /\ call[p[1]].attempt < p[2] \/ (call[p[1]].attempt = p[2] /\ call[p[1]].at = "device")}

LineTypes ==
  /\ link \in {"never", "open", "closing", "closed"}
  /\ outcome \in [Callers -> Line!Outcomes]
  /\ stats.transactions <= MaxCalls
  /\ stats.retries + Cardinality(ToRetry) <= (Attempts - 1) * stats.transactions

LEMMA ToRetryFinite == Line!TransportAssumption => IsFiniteSet(ToRetry) /\ Cardinality(ToRetry) \in Nat
<1> SUFFICES ASSUME Line!TransportAssumption PROVE IsFiniteSet(ToRetry) /\ Cardinality(ToRetry) \in Nat  OBVIOUS
<1>1. IsFiniteSet(Callers) /\ Attempts - 1 \in Int
  BY DEF Line!TransportAssumption, Line!IsFiniteSet, IsFiniteSet
<1>2. IsFiniteSet(1..(Attempts - 1))  BY <1>1, FS_Interval
<1>3. IsFiniteSet(Callers \X (1..(Attempts - 1)))  BY <1>1, <1>2, FS_Product
<1>4. IsFiniteSet(ToRetry)  BY <1>3, FS_Subset DEF ToRetry
<1>5. QED BY <1>4, FS_CardinalityType

\* What a step of one caller leaves to be retried.
LEMMA ToRetryMoves ==
  ASSUME LineInv, NEW c \in Callers, NEW v, call' = [call EXCEPT ![c] = v], v # None => v \in Line!Call
  PROVE  /\ \A p \in Callers \X (1..(Attempts - 1)) : p[1] # c => (p \in ToRetry' <=> p \in ToRetry)
         /\ \A k \in 1..(Attempts - 1) :
              <<c, k>> \in ToRetry' <=> v # None /\ (v.attempt < k \/ (v.attempt = k /\ v.at = "device"))
<1>1. call'[c] = v /\ \A d \in Callers : d # c => call'[d] = call[d]  BY DEF LineInv
<1>2. QED BY <1>1 DEF ToRetry

\* A transaction that goes no further back leaves no more to be retried; one that passes an attempt leaves less.
LEMMA FewerToRetry ==
  ASSUME Line!TransportAssumption, ToRetry' \subseteq ToRetry
  PROVE  /\ Cardinality(ToRetry') <= Cardinality(ToRetry) /\ Cardinality(ToRetry') \in Nat
         /\ \A p \in ToRetry \ ToRetry' : Cardinality(ToRetry') + 1 <= Cardinality(ToRetry)
<1>1. IsFiniteSet(ToRetry) /\ Cardinality(ToRetry) \in Nat  BY ToRetryFinite
<1>2. IsFiniteSet(ToRetry') /\ Cardinality(ToRetry') <= Cardinality(ToRetry) /\ Cardinality(ToRetry') \in Nat
  BY <1>1, FS_Subset, FS_CardinalityType
<1>3. ASSUME NEW p \in ToRetry \ ToRetry' PROVE Cardinality(ToRetry') + 1 <= Cardinality(ToRetry)
  <2>1. ToRetry' \subseteq ToRetry \ {p}  BY <1>3
  <2>2. IsFiniteSet(ToRetry \ {p}) /\ Cardinality(ToRetry \ {p}) = Cardinality(ToRetry) - 1
    BY <1>1, <1>3, FS_RemoveElement
  <2>3. Cardinality(ToRetry') <= Cardinality(ToRetry \ {p})  BY <2>1, <2>2, FS_Subset
  <2>4. QED BY <1>1, <1>2, <2>2, <2>3
<1>4. QED BY <1>2, <1>3

LEMMA LineTypesInitial == Line!TransportAssumption /\ Line!Init => LineTypes
<1> SUFFICES ASSUME Line!TransportAssumption, Line!Init PROVE LineTypes  OBVIOUS
<1>1. ToRetry = {}  BY DEF Line!Init, ToRetry
<1>2. Cardinality({}) = 0  BY FS_EmptySet
<1>3. QED BY <1>1, <1>2 DEF Line!Init, Line!TransportAssumption, Line!Outcomes, LineTypes

\* A transaction that is over is not retried.
LEMMA CallEndsTyped ==
  ASSUME Line!TransportAssumption, LineInv, LineTypes, NEW c \in Callers, NEW how \in Line!Outcomes,
         Line!Ends(c, how), link' = link,
         stats'.retries = stats.retries, stats'.transactions = stats.transactions
  PROVE  LineTypes'
<1>1. call' = [call EXCEPT ![c] = None] /\ outcome' = [outcome EXCEPT ![c] = how]  BY DEF Line!Ends
<1>2. /\ \A p \in Callers \X (1..(Attempts - 1)) : p[1] # c => (p \in ToRetry' <=> p \in ToRetry)
      /\ \A k \in 1..(Attempts - 1) : <<c, k>> \notin ToRetry'
  BY <1>1, ToRetryMoves
<1>3. ToRetry' \subseteq ToRetry
  <2>1. ToRetry' \subseteq Callers \X (1..(Attempts - 1))  BY DEF ToRetry
  <2>2. \A p \in ToRetry' : p[1] # c
    <3>1. \A p \in ToRetry' : p = <<p[1], p[2]>> /\ p[2] \in 1..(Attempts - 1)  BY <2>1
    <3>2. QED BY <1>2, <3>1
  <2>3. QED BY <1>2, <2>1, <2>2
<1>4. Cardinality(ToRetry') <= Cardinality(ToRetry) /\ Cardinality(ToRetry') \in Nat /\ Cardinality(ToRetry) \in Nat
  BY <1>3, FewerToRetry, ToRetryFinite
<1>5. stats.retries \in Nat /\ stats.transactions \in Nat /\ (Attempts - 1) * stats.transactions \in Int
  BY DEF LineInv, LineStats, Line!TransportAssumption
<1>6. outcome' \in [Callers -> Line!Outcomes]  BY <1>1 DEF LineTypes
<1>7. stats'.retries + Cardinality(ToRetry') <= (Attempts - 1) * stats'.transactions
  BY <1>4, <1>5 DEF LineTypes
<1>8. QED BY <1>6, <1>7 DEF LineTypes

\* A new transaction may be retried after every attempt but the last.
LEMMA LineBeginsTyped ==
  ASSUME Line!TransportAssumption, LineInv, LineTypes, NEW c \in Callers, NEW kind \in {"read", "write"},
         Line!Begin(c, kind), Line!HasClient
  PROVE  LineTypes'
<1> DEFINE v == [kind |-> kind, attempt |-> 1, at |-> "device"]
           N == {c} \X (1..(Attempts - 1))
<1>1. /\ call[c] = None /\ call' = [call EXCEPT ![c] = v] /\ outcome' = [outcome EXCEPT ![c] = None]
      /\ stats.transactions < MaxCalls /\ stats' = [stats EXCEPT !.transactions = @ + 1] /\ link' = link
  BY DEF Line!Begin
<1>2. v \in Line!Call /\ v # None  BY DEF Line!Call, Line!TransportAssumption
<1>3. stats \in LineStats /\ Attempts - 1 \in Nat /\ MaxCalls \in Nat
  BY DEF LineInv, Line!TransportAssumption
<1>4. \A k \in 1..(Attempts - 1) : <<c, k>> \in ToRetry' /\ <<c, k>> \notin ToRetry
  <2>1. v.attempt = 1 /\ v.at = "device"  OBVIOUS
  <2> HIDE DEF v
  <2>2. \A k \in 1..(Attempts - 1) :
          <<c, k>> \in ToRetry' <=> v # None /\ (v.attempt < k \/ (v.attempt = k /\ v.at = "device"))
    BY <1>1, <1>2, ToRetryMoves
  <2>3. \A k \in 1..(Attempts - 1) : <<c, k>> \in ToRetry'  BY <1>2, <1>3, <2>1, <2>2
  <2>4. \A k \in 1..(Attempts - 1) : <<c, k>> \notin ToRetry  BY <1>1 DEF ToRetry
  <2>5. QED BY <2>3, <2>4
<1>5. \A p \in Callers \X (1..(Attempts - 1)) : p[1] # c => (p \in ToRetry' <=> p \in ToRetry)
  BY <1>1, <1>2, ToRetryMoves
<1>6. ToRetry' = ToRetry \union N /\ ToRetry \intersect N = {}
  <2>1. \A p \in N : p = <<c, p[2]>> /\ p[2] \in 1..(Attempts - 1) /\ p \in Callers \X (1..(Attempts - 1)) /\ p[1] = c
    OBVIOUS
  <2>2. \A p \in Callers \X (1..(Attempts - 1)) : p[1] = c => p \in N  OBVIOUS
  <2>3. ToRetry \subseteq Callers \X (1..(Attempts - 1)) /\ ToRetry' \subseteq Callers \X (1..(Attempts - 1))
    BY DEF ToRetry
  <2> HIDE DEF N
  <2>4. QED BY <1>4, <1>5, <2>1, <2>2, <2>3
<1>7. IsFiniteSet(N) /\ Cardinality(N) = Attempts - 1
  <2>1. IsFiniteSet({c}) /\ Cardinality({c}) = 1  BY FS_Singleton
  <2>2. IsFiniteSet(1..(Attempts - 1)) /\ Cardinality(1..(Attempts - 1)) = Attempts - 1
    BY <1>3, FS_Interval
  <2>3. IsFiniteSet(N) /\ Cardinality(N) = Cardinality({c}) * Cardinality(1..(Attempts - 1))
    BY <2>1, <2>2, FS_Product
  <2> HIDE DEF N
  <2>4. QED BY <1>3, <2>1, <2>2, <2>3
<1> HIDE DEF N
<1>8. Cardinality(ToRetry') = Cardinality(ToRetry) + (Attempts - 1) /\ Cardinality(ToRetry) \in Nat
  <2>1. IsFiniteSet(ToRetry) /\ Cardinality(ToRetry) \in Nat  BY ToRetryFinite
  <2>2. Cardinality(ToRetry \union N) = Cardinality(ToRetry) + Cardinality(N) - Cardinality(ToRetry \intersect N)
    BY <1>7, <2>1, FS_Union
  <2>3. Cardinality(ToRetry \intersect N) = 0  BY <1>6, FS_EmptySet
  <2>4. QED BY <1>3, <1>6, <1>7, <2>1, <2>2, <2>3
<1>9. /\ stats'.transactions = stats.transactions + 1 /\ stats'.retries = stats.retries
      /\ stats.transactions \in Nat /\ stats.retries \in Nat
  BY <1>1, <1>3 DEF LineStats
<1>10. stats'.retries + Cardinality(ToRetry') <= (Attempts - 1) * stats'.transactions
  <2> DEFINE t == stats.transactions
             a == Attempts - 1
             r == stats.retries
             n == Cardinality(ToRetry)
  <2>1. r + n <= a * t  BY DEF LineTypes
  <2>2. t \in Nat /\ a \in Nat /\ r \in Nat /\ n \in Nat  BY <1>3, <1>8, <1>9
  <2>3. Cardinality(ToRetry') = n + a /\ stats'.transactions = t + 1 /\ stats'.retries = r  BY <1>8, <1>9
  <2> HIDE DEF t, a, r, n
  <2>4. a * (t + 1) = a * t + a /\ a * t \in Nat  BY <2>2
  <2>5. r + (n + a) <= a * (t + 1)  BY <2>1, <2>2, <2>4
  <2>6. QED BY <2>3, <2>5 DEF a
<1>11. outcome' \in [Callers -> Line!Outcomes]  BY <1>1 DEF LineTypes, Line!Outcomes
<1>12. stats'.transactions <= MaxCalls  BY <1>1, <1>3, <1>9
<1>13. QED BY <1>1, <1>10, <1>11, <1>12 DEF LineTypes

\* An attempt that failed is retried once.
LEMMA LineGivesUpTyped ==
  ASSUME Line!TransportAssumption, LineInv, LineTypes, NEW c \in Callers, call[c] # None,
         NEW n \in 1..Attempts, Line!GiveUpOrWait(c, n), link' = link,
         \/ call[c].at = "device" /\ n = call[c].attempt
         \/ call[c].at = "backoff" /\ n = call[c].attempt + 1
  PROVE  LineTypes'
<1>1. /\ call[c] \in Line!Call /\ None \notin Line!Call /\ Attempts \in Nat \ {0} /\ stats \in LineStats
      /\ Cardinality(ToRetry) \in Nat /\ stats.retries + Cardinality(ToRetry) <= (Attempts - 1) * stats.transactions
  BY ToRetryFinite DEF Line!TransportAssumption, LineInv, LineTypes
<1>2. call[c].attempt \in Nat /\ n \in Nat  BY <1>1 DEF Line!Call
<1>3. stats.retries \in Nat /\ stats.transactions \in Nat /\ stats.failures \in Nat  BY <1>1 DEF LineStats
<1>4. CASE n < Attempts
  <2> DEFINE v == [kind |-> call[c].kind, attempt |-> n, at |-> "backoff"]
  <2>1. stats' = [stats EXCEPT !.retries = @ + 1] /\ outcome' = outcome  BY <1>4 DEF Line!GiveUpOrWait
  <2>2. v \in Line!Call /\ v.at = "backoff" /\ v.attempt = n  BY <1>1 DEF Line!Call
  <2>3. v # None  BY <1>1, <2>2
  <2>4. call' = [call EXCEPT ![c] = v]  BY <1>4 DEF Line!GiveUpOrWait, Line!Goes
  <2> HIDE DEF v
  <2>5. n \in 1..(Attempts - 1)  BY <1>1, <1>2, <1>4
  <2>6. /\ \A p \in Callers \X (1..(Attempts - 1)) : p[1] # c => (p \in ToRetry' <=> p \in ToRetry)
        /\ \A k \in 1..(Attempts - 1) : <<c, k>> \in ToRetry' <=> n < k
    BY <2>2, <2>3, <2>4, ToRetryMoves
  <2>7. \A k \in 1..(Attempts - 1) : n <= k => <<c, k>> \in ToRetry
    BY <1>1, <1>2 DEF ToRetry, Line!Call
  <2>8. <<c, n>> \in ToRetry \ ToRetry'  BY <1>2, <2>5, <2>6, <2>7
  <2>9. ToRetry' \subseteq ToRetry
    <3>1. ToRetry' \subseteq Callers \X (1..(Attempts - 1))  BY DEF ToRetry
    <3>2. \A p \in ToRetry' : p[1] = c => p = <<c, p[2]>> /\ p[2] \in 1..(Attempts - 1) /\ n <= p[2]
      BY <1>1, <1>2, <2>6, <3>1
    <3>3. QED BY <2>6, <2>7, <3>1, <3>2
  <2>10. Cardinality(ToRetry') + 1 <= Cardinality(ToRetry) /\ Cardinality(ToRetry') \in Nat
    BY <2>8, <2>9, FewerToRetry
  <2>11. stats'.retries = stats.retries + 1 /\ stats'.transactions = stats.transactions
    BY <1>1, <2>1 DEF LineStats
  <2>12. stats'.retries + Cardinality(ToRetry') <= (Attempts - 1) * stats'.transactions
    <3>1. (Attempts - 1) * stats.transactions \in Int  BY <1>1, <1>3
    <3>2. QED BY <1>1, <1>3, <2>10, <2>11, <3>1
  <2>13. QED BY <2>1, <2>11, <2>12 DEF LineTypes
<1>5. CASE ~(n < Attempts)
  <2>1. Line!Ends(c, "failed") /\ stats' = [stats EXCEPT !.failures = @ + 1]
    BY <1>5 DEF Line!GiveUpOrWait
  <2>2. stats'.retries = stats.retries /\ stats'.transactions = stats.transactions
    BY <1>1, <2>1 DEF LineStats
  <2>3. QED BY <2>1, <2>2, CallEndsTyped DEF Line!Outcomes
<1>6. QED BY <1>4, <1>5

LEMMA LineTypesStep ==
  ASSUME Line!TransportAssumption, LineInv, LineTypes, [Line!Next]_lineVars
  PROVE  LineTypes'
<1>1. ASSUME UNCHANGED <<call, stats>>, link' \in {"never", "open", "closing", "closed"},
             outcome' \in [Callers -> Line!Outcomes]
      PROVE  LineTypes'
  <2>1. ToRetry' = ToRetry  BY <1>1 DEF ToRetry
  <2>2. QED BY <1>1, <2>1 DEF LineTypes
<1>2. CASE Line!Connect \/ Line!Close \/ Line!Disconnected \/ UNCHANGED lineVars
  BY <1>1, <1>2 DEF Line!Connect, Line!Close, Line!Disconnected, lineVars, LineTypes
<1>3. ASSUME NEW c \in Callers, NEW kind \in {"read", "write"}, Line!Begin(c, kind) PROVE LineTypes'
  <2>1. CASE Line!HasClient  BY <1>3, <2>1, LineBeginsTyped
  <2>2. CASE ~Line!HasClient
    BY <1>3, <2>2, CallEndsTyped DEF Line!Begin, Line!Outcomes
  <2>3. QED BY <2>1, <2>2
<1>4. ASSUME NEW c \in Callers, Line!AttemptFails(c) PROVE LineTypes'
  <2>1. /\ call[c] # None /\ call[c].at = "device" /\ Line!GiveUpOrWait(c, call[c].attempt) /\ link' = link
    BY <1>4 DEF Line!AttemptFails
  <2>2. call[c].attempt \in 1..Attempts  BY <2>1 DEF LineInv, Line!Call
  <2>3. QED BY <2>1, <2>2, LineGivesUpTyped
<1>5. ASSUME NEW c \in Callers, Line!Wake(c) PROVE LineTypes'
  <2>1. call[c] # None /\ call[c].at = "backoff" /\ link' = link  BY <1>5 DEF Line!Wake
  <2>2. call[c] \in Line!Call /\ call[c].attempt + 1 \in 1..Attempts /\ Attempts \in Nat
    BY <2>1 DEF LineInv, Line!Call, Line!TransportAssumption
  <2>3. CASE ~Line!HasClient
    <3>1. Line!GiveUpOrWait(c, call[c].attempt + 1)  BY <1>5, <2>3 DEF Line!Wake
    <3>2. QED BY <2>1, <2>2, <3>1, LineGivesUpTyped
  <2>4. CASE Line!HasClient
    <3> DEFINE v == [kind |-> call[c].kind, attempt |-> call[c].attempt + 1, at |-> "device"]
    <3>1. call' = [call EXCEPT ![c] = v] /\ UNCHANGED <<outcome, stats>>
      BY <1>5, <2>4 DEF Line!Wake, Line!Goes
    <3>2. v \in Line!Call /\ v.attempt = call[c].attempt + 1 /\ v.at = "device"  BY <2>2 DEF Line!Call
    <3>3. v # None  BY <3>2 DEF Line!TransportAssumption
    <3> HIDE DEF v
    <3>4. call[c].attempt \in Nat  BY <2>2 DEF Line!Call
    <3>5. \A k \in 1..(Attempts - 1) : <<c, k>> \in ToRetry' <=> <<c, k>> \in ToRetry
      <4>1. \A k \in 1..(Attempts - 1) : <<c, k>> \in ToRetry' <=> v.attempt <= k
        <5>1. \A k \in 1..(Attempts - 1) :
                <<c, k>> \in ToRetry' <=> v # None /\ (v.attempt < k \/ (v.attempt = k /\ v.at = "device"))
          BY <3>1, <3>2, ToRetryMoves
        <5>2. v.attempt \in Int /\ \A k \in 1..(Attempts - 1) : k \in Int  BY <2>2, <3>2
        <5>3. QED BY <3>2, <3>3, <5>1, <5>2
      <4>2. \A k \in 1..(Attempts - 1) : <<c, k>> \in ToRetry <=> call[c].attempt < k
        BY <2>1 DEF ToRetry
      <4>3. QED BY <2>2, <3>2, <3>4, <4>1, <4>2
    <3>6. \A p \in Callers \X (1..(Attempts - 1)) : p[1] # c => (p \in ToRetry' <=> p \in ToRetry)
      BY <3>1, <3>2, ToRetryMoves
    <3>7. ToRetry' = ToRetry
      <4>1. ToRetry \subseteq Callers \X (1..(Attempts - 1)) /\ ToRetry' \subseteq Callers \X (1..(Attempts - 1))
        BY DEF ToRetry
      <4>2. \A p \in Callers \X (1..(Attempts - 1)) :
              p[1] = c => p = <<c, p[2]>> /\ p[2] \in 1..(Attempts - 1)
        OBVIOUS
      <4>3. QED BY <3>5, <3>6, <4>1, <4>2
    <3>8. QED BY <2>1, <3>1, <3>7 DEF LineTypes
  <2>5. QED BY <2>3, <2>4
<1>6. ASSUME NEW c \in Callers, Line!Answer(c) PROVE LineTypes'
  <2>1. PICK how \in {"ok", "short"} : Line!Ends(c, how)  BY <1>6 DEF Line!Answer
  <2>2. QED BY <1>6, <2>1, CallEndsTyped DEF Line!Answer, Line!Outcomes
<1>7. QED BY <1>2, <1>3, <1>4, <1>5, <1>6 DEF Line!Next

LEMMA LineTyped == ASSUME Line!TransportAssumption, LineInv, LineTypes PROVE Line!TypeOK
<1> DEFINE t == stats.transactions
           a == Attempts
           w == Line!Cardinality(Line!Waiting)
           o == Line!Cardinality(Line!Open)
<1>1. /\ t \in Nat /\ stats.retries \in Nat /\ stats.failures \in Nat /\ a \in Nat \ {0} /\ MaxCalls \in Nat
      /\ wire.sent \in Nat /\ wire.void \in Nat /\ wire.late \in Nat /\ wire.answered \in Nat
      /\ w \in Nat /\ o \in Nat /\ Cardinality(ToRetry) \in Nat
  BY CallersAreFinite, ToRetryFinite DEF LineInv, LineStats, LineWire, Line!TransportAssumption
<1>2. /\ wire.sent + wire.void = t + stats.retries - w /\ t = wire.answered + stats.failures + o
      /\ t <= MaxCalls /\ stats.retries + Cardinality(ToRetry) <= (a - 1) * t
  BY DEF LineInv, Line!StatsMatchWire, LineTypes
<1> HIDE DEF t, a, w, o
<1>3. (a - 1) * t = a * t - t /\ a * t \in Nat  BY <1>1
<1>4. a * t <= MaxCalls * a
  <2>1. t * a <= MaxCalls * a  BY <1>1, <1>2, TimesMonotone
  <2>2. t * a = a * t  BY <1>1
  <2>3. QED BY <2>1, <2>2
<1>5. MaxCalls * a \in Nat  BY <1>1
<1>6. /\ t \in 0..MaxCalls /\ stats.failures \in 0..MaxCalls /\ wire.answered \in 0..MaxCalls
      /\ stats.retries \in 0..(MaxCalls * a) /\ wire.sent \in 0..(MaxCalls * a) /\ wire.void \in 0..(MaxCalls * a)
  <2>1. stats.retries <= a * t - t /\ wire.sent <= a * t /\ wire.void <= a * t  BY <1>1, <1>2, <1>3
  <2>2. QED BY <1>1, <1>2, <1>3, <1>4, <1>5, <2>1
<1>7. stats = [transactions |-> stats.transactions, failures |-> stats.failures, retries |-> stats.retries]
      /\ wire = [sent |-> wire.sent, late |-> wire.late, void |-> wire.void, answered |-> wire.answered]
  BY DEF LineInv, LineStats, LineWire
<1>8. /\ stats \in [transactions : 0..MaxCalls, failures : 0..MaxCalls, retries : 0..MaxCalls * Attempts]
      /\ wire \in [sent : 0..MaxCalls * Attempts, late : Nat, void : 0..MaxCalls * Attempts, answered : 0..MaxCalls]
  BY <1>1, <1>6, <1>7 DEF t, a
<1>9. QED BY <1>8 DEF LineInv, LineTypes, Line!TypeOK

--------------------------------------------------------------------------------
(* The types of the scan.                                                  *)

\* Blocks of the range of a sweep.
Blocks == {b \in [start : Scan!Range, count : 1..BlockSize] : Scan!AddressesIn(b) \subseteq Scan!Range}

ScanTypes ==
  /\ refused \in Devices
  /\ needed \subseteq Scan!Range /\ single \subseteq Scan!Range /\ cut \subseteq Scan!Range
  /\ unreadable \subseteq needed /\ DOMAIN values \subseteq Scan!Range
  /\ blocks \in Seq(Blocks)
  /\ attempt \in 0..Retries /\ noise \in 0..MaxNoise /\ moment \in Nat
  /\ likely \in {None} \union Everything

LEMMA ScanTypesInitial == Scan!ScanAssumption /\ Scan!Init => ScanTypes
<1> SUFFICES ASSUME Scan!ScanAssumption, Scan!Init PROVE ScanTypes  OBVIOUS
<1>1. blocks \in Seq(Blocks)  BY EmptySeq DEF Scan!Init
<1>2. QED BY <1>1 DEF Scan!ScanAssumption, Scan!Init, ScanTypes

\* Blocks that begin and end in the range stay in it.
LEMMA TilesInRange ==
  ASSUME Scan!ScanAssumption, NEW addrs \in SUBSET Scan!Range, NEW B, Tiles(B, addrs, BlockSize)
  PROVE  B \in Seq(Blocks)
<1>1. B \in Seq(BlocksOf(BlockSize)) /\ Len(B) \in Nat /\ DOMAIN B = 1..Len(B)
  BY BlockTyped DEF Tiles
<1>2. ASSUME NEW i \in 1..Len(B) PROVE B[i] \in Blocks
  <2>1. B[i] \in BlocksOf(BlockSize)  BY <1>1, ElementOfSeq, Zenon
  <2>2. B[i].start \in Scan!Range /\ B[i].start + B[i].count - 1 \in Scan!Range  BY DEF Tiles
  <2>3. Scan!AddressesIn(B[i]) \subseteq Scan!Range
    <3>1. B[i].start \in Int /\ B[i].count \in Int  BY <2>1 DEF BlocksOf, Scan!ScanAssumption
    <3>2. QED BY SMTT(30), <2>2, <3>1 DEF Scan!AddressesIn, Scan!Range, Scan!ScanAssumption
  <2>4. B[i] \in [start : Scan!Range, count : 1..BlockSize]  BY <2>1, <2>2 DEF BlocksOf
  <2>5. QED BY <2>3, <2>4 DEF Blocks
<1>3. QED BY <1>1, <1>2, SeqDef

\* What a transaction asks for is in the range, and what is left is too.
LEMMA AskedInRange ==
  ASSUME Scan!ScanAssumption, ScanTypes, blocks # <<>>
  PROVE  /\ Scan!Asked \subseteq Scan!Range /\ Scan!AddressesIn(Head(blocks)) \subseteq Scan!Range
         /\ Tail(blocks) \in Seq(Blocks)
<1>1. Head(blocks) \in Blocks /\ Tail(blocks) \in Seq(Blocks)  BY HeadTailProperties DEF ScanTypes
<1>2. Scan!AddressesIn(Head(blocks)) \subseteq Scan!Range  BY <1>1 DEF Blocks
<1>3. single # {} => \E a \in single : \A b \in single : a <= b
  <2>1. Scan!Range \subseteq Nat  BY DEF Scan!Range, Scan!ScanAssumption
  <2>2. single \in SUBSET Nat  BY <2>1 DEF ScanTypes
  <2>3. QED BY <2>2, Least
<1>4. Scan!Asked \subseteq Scan!Range
  <2> DEFINE a == CHOOSE a \in single : \A b \in single : a <= b
  <2>1. single # {} => a \in single  BY <1>3
  <2>2. Scan!Asked = IF single = {} THEN Scan!AddressesIn(Head(blocks)) ELSE {a}  BY DEF Scan!Asked
  <2> HIDE DEF a
  <2>3. QED BY <1>2, <2>1, <2>2 DEF ScanTypes
<1>5. QED BY <1>1, <1>2, <1>4

\* A scan begins with blocks of the range.
LEMMA ScanBeginsTyped ==
  ASSUME Scan!ScanAssumption, ScanInv, ScanTypes, NEW addrs \in SUBSET Scan!Range,
         NEW B \in Scan!Planned(addrs), Scan!Begin(addrs, B)
  PROVE  ScanTypes'
<1>1. Tiles(B, addrs, BlockSize)  BY PlansTile
<1>2. B \in Seq(Blocks)  BY <1>1, TilesInRange
<1>3. unreadable = {}  BY DEF Scan!Begin, ScanInv
<1>4. QED BY <1>2, <1>3 DEF Scan!Begin, ScanTypes

LEMMA ScanTypesStep ==
  ASSUME Scan!ScanAssumption, ScanInv, ScanTypes, [Scan!Next]_scanVars
  PROVE  ScanTypes'
<1>0. Retries \in Nat /\ MaxNoise \in Nat  BY DEF Scan!ScanAssumption
<1>1. CASE Scan!StartSweep
  BY <1>1, ScanBeginsTyped DEF Scan!StartSweep, Scan!Planned
<1>2. CASE Scan!StartTargeted
  <2>1. PICK addrs \in {Scan!Union} \union {Scan!AddressesOf(Variants[i]) : i \in DOMAIN Variants} :
          Scan!Begin(addrs, Scan!Clustered(addrs))
    BY <1>2 DEF Scan!StartTargeted
  <2>2. addrs \in SUBSET Scan!Range  BY <2>1, MapInRange
  <2>3. QED BY <2>1, <2>2, ScanBeginsTyped DEF Scan!Planned
<1>3. CASE Scan!Verify
  <2>1. Scan!Best \in Everything  BY BestIsBest, EligibleTyped
  <2>2. QED BY <1>3, <2>1 DEF Scan!Verify, ScanTypes
<1>4. ASSUME blocks # <<>>, Scan!NextTransaction
      PROVE  attempt' \in 0..Retries /\ single' \subseteq Scan!Range /\ blocks' \in Seq(Blocks)
  BY <1>0, <1>4, AskedInRange DEF Scan!NextTransaction, ScanTypes
<1>5. CASE Scan!ReadBlock
  <2>1. Scan!Asked \subseteq Scan!Range  BY <1>5, AskedInRange DEF Scan!ReadBlock
  <2>2. DOMAIN values' = DOMAIN values \union Scan!Asked  BY <1>5 DEF Scan!ReadBlock
  <2>3. QED BY <1>4, <1>5, <2>1, <2>2 DEF Scan!ReadBlock, ScanTypes
<1>6. ASSUME Scan!Fails
      PROVE  /\ blocks # <<>> /\ noise' \in 0..MaxNoise /\ moment' \in Nat
             /\ UNCHANGED <<refused, needed, values, likely>>
  BY <1>0, <1>6 DEF Scan!Fails, ScanTypes
<1>7. CASE Scan!ReadRetried
  BY <1>0, <1>6, <1>7 DEF Scan!ReadRetried, ScanTypes
<1>8. CASE Scan!BlockGivenUp
  BY <1>0, <1>6, <1>8, AskedInRange DEF Scan!BlockGivenUp, ScanTypes
<1>9. CASE Scan!AddressGivenUp
  BY <1>4, <1>6, <1>9 DEF Scan!AddressGivenUp, ScanTypes
<1>10. CASE UNCHANGED scanVars
  BY <1>10 DEF scanVars, ScanTypes
<1>11. QED BY <1>1, <1>2, <1>3, <1>5, <1>7, <1>8, <1>9, <1>10 DEF Scan!Next

LEMMA ScanTyped == ASSUME Scan!ScanAssumption, ScanTypes PROVE Scan!TypeOK
<1>1. blocks \in Seq([start : Scan!Range, count : 1..BlockSize])
  <2>1. Blocks \subseteq [start : Scan!Range, count : 1..BlockSize]  BY DEF Blocks
  <2> DEFINE S == [start : Scan!Range, count : 1..BlockSize]
  <2>2. Blocks \subseteq S /\ blocks \in Seq(Blocks)  BY <2>1 DEF ScanTypes
  <2> HIDE DEF S
  <2>3. blocks \in Seq(S)  BY <2>2, SeqDef
  <2>4. QED BY <2>3 DEF S
<1>2. QED BY <1>1 DEF ScanTypes, Everything, Scan!TypeOK

--------------------------------------------------------------------------------
(* The types of the bus.                                                   *)

SniffTypes ==
  /\ DOMAIN mapped \subseteq Tables \X Nat
  /\ requests \in 0..MaxRequests
  /\ unheard \in 0..requests
  /\ unanswered + (IF asked = None THEN 0 ELSE 1) \in 0..requests

LEMMA SniffTypesInitial == Sniff!SnifferAssumption /\ Sniff!Init => SniffTypes
BY DEF Sniff!SnifferAssumption, Sniff!Init, SniffTypes

LEMMA SniffTypesStep ==
  ASSUME Sniff!SnifferAssumption, SniffInv, SniffTypes, [Sniff!Next]_sniffVars
  PROVE  SniffTypes'
<1>0. /\ None \notin Sniff!Requests /\ MaxRequests \in Nat /\ unheard \in Nat /\ unanswered \in Nat
      /\ asked \in Sniff!Requests \union {None}
  BY DEF Sniff!SnifferAssumption, Sniff!Requests, SniffInv
<1>1. ASSUME NEW r \in Sniff!Requests, Sniff!Request(r) PROVE SniffTypes'
  BY <1>0, <1>1 DEF Sniff!Request, SniffTypes
<1>2. CASE Sniff!NoResponse
  BY <1>0, <1>2 DEF Sniff!NoResponse, SniffTypes
<1>3. CASE Sniff!Response
  <2>1. /\ asked # None /\ asked' = None /\ UNCHANGED <<requests, unheard, unanswered>>
        /\ asked \in Sniff!Requests
    BY <1>0, <1>3 DEF Sniff!Response
  <2>2. DOMAIN mapped' \subseteq Tables \X Nat
    <3> DEFINE req == pending[asked.slave]
               got == {a \in Sniff!Words(req) : a - req.run.start < asked.run.count}
    <3>1. asked.slave \in Slaves /\ asked.table \in Tables  BY <2>1 DEF Sniff!Requests
    <3>2. CASE mapped' = mapped  BY <3>2 DEF SniffTypes
    <3>3. CASE mapped' # mapped
      <4>1. req # None /\ DOMAIN mapped' = DOMAIN mapped \union ({asked.table} \X got)
        BY <1>3, <3>3 DEF Sniff!Response
      <4>2. req \in Sniff!Requests  BY <3>1, <4>1 DEF SniffInv
      <4>3. req.run.start \in Nat /\ req.run.count \in Nat  BY <4>2 DEF Sniff!Requests, Sniff!SnifferAssumption
      <4>4. got \subseteq Nat  BY <4>3 DEF Sniff!Words
      <4> HIDE DEF got
      <4>5. QED BY <3>1, <4>1, <4>4 DEF SniffTypes
    <3>4. QED BY <3>2, <3>3
  <2>3. QED BY <1>0, <2>1, <2>2 DEF SniffTypes
<1>4. CASE UNCHANGED sniffVars
  BY <1>4 DEF sniffVars, SniffTypes
<1>5. QED BY <1>1, <1>2, <1>3, <1>4 DEF Sniff!Next

LEMMA SniffTyped ==
  ASSUME Sniff!SnifferAssumption, SniffInv, SniffTypes
  PROVE  Sniff!TypeOK
BY DEF SniffInv, SniffTypes, Sniff!TypeOK

--------------------------------------------------------------------------------
(* The types of all parts.                                                 *)

PartNames ==
  {"webhooks", "grid", "feed", "notify", "storage", "dashboards", "clock",
   "day", "planner", "projection", "transport", "codec", "scan", "sniff"}

RegisterTyped ==
  /\ part \in PartNames
  /\ part = "transport" => LineInv /\ LineTypes
  /\ part = "codec" => CodecInv
  /\ part = "scan" => ScanInv /\ ScanTypes
  /\ part = "sniff" => SniffInv /\ SniffTypes

LEMMA RegisterTypedStays ==
  /\ PartsInit => RegisterTyped
  /\ RegisterTyped /\ [PartsNext]_vars => RegisterTyped'
<1> USE PartsAssumption DEF PartsAssumption
<1>1. PartsInit => LineInv /\ LineTypes  BY LineInitial, LineTypesInitial DEF PartsInit
<1>2. PartsInit => CodecInv  BY CodecInitial DEF PartsInit
<1>3. PartsInit => ScanInv /\ ScanTypes  BY ScanInitial, ScanTypesInitial DEF PartsInit
<1>4. PartsInit => SniffInv /\ SniffTypes  BY SniffInitial, SniffTypesInitial DEF PartsInit
<1>5. PartsInit => part \in PartNames  BY DEF PartsInit, PartNames
<1>6. LineInv /\ LineTypes /\ [Line!Next]_lineVars => LineInv' /\ LineTypes'  BY LineStep, LineTypesStep
<1>7. CodecInv /\ [Codec!Next]_codecVars => CodecInv'  BY CodecStep
<1>8. ScanInv /\ ScanTypes /\ [Scan!Next]_scanVars => ScanInv' /\ ScanTypes'  BY ScanStep, ScanTypesStep
<1>9. SniffInv /\ SniffTypes /\ [Sniff!Next]_sniffVars => SniffInv' /\ SniffTypes'
  BY SniffStep, SniffTypesStep
<1>10. RegisterTyped /\ [PartsNext]_vars => RegisterTyped'
  BY <1>6, <1>7, <1>8, <1>9, OnePartMoves, Zenon DEF RegisterTyped
<1>11. QED BY <1>1, <1>2, <1>3, <1>4, <1>5, <1>10 DEF RegisterTyped

\* What is kept gives every part its types.
LEMMA TypedParts ==
  ASSUME OutTyped, HostTyped, EnergyTyped, RegisterTyped
  PROVE  PartsTypeOK
<1> USE PartsAssumption DEF PartsAssumption
<1>1. CASE part = "webhooks"    BY <1>1, WebhooksTyped DEF OutTyped, PartsTypeOK
<1>2. CASE part = "grid"        BY <1>2, GridTyped DEF OutTyped, PartsTypeOK
<1>3. CASE part = "feed"        BY <1>3, FeedTyped DEF OutTyped, PartsTypeOK
<1>4. CASE part = "notify"      BY <1>4, NotifyTyped DEF OutTyped, AlertsInv, PartsTypeOK
<1>5. CASE part = "storage"     BY <1>5 DEF HostTyped, SoundInv, TypeInv, PartsTypeOK
<1>6. CASE part = "dashboards"  BY <1>6 DEF HostTyped, KeptInv, PartsTypeOK
<1>7. CASE part = "clock"       BY <1>7, ClockTyped DEF HostTyped, PartsTypeOK
<1>8. CASE part = "day"         BY <1>8 DEF EnergyTyped, DayInv, PartsTypeOK
<1>9. CASE part = "planner"     BY <1>9, PlanTyped DEF EnergyTyped, PartsTypeOK
<1>10. CASE part = "projection"
  <2>1. Project!TypeOK  BY <1>10 DEF EnergyTyped, ProjectInv, Point, Project!TypeOK
  <2>2. QED BY <1>10, <2>1 DEF PartsTypeOK
<1>11. CASE part = "transport"  BY <1>11, LineTyped DEF RegisterTyped, PartsTypeOK
<1>12. CASE part = "codec"
  <2>1. Codec!TypeOK  BY <1>12 DEF RegisterTyped, CodecInv, RawTyped, WordOf, Codec!TypeOK
  <2>2. QED BY <1>12, <2>1 DEF PartsTypeOK
<1>13. CASE part = "scan"       BY <1>13, ScanTyped DEF RegisterTyped, PartsTypeOK
<1>14. CASE part = "sniff"      BY <1>14, SniffTyped DEF RegisterTyped, PartsTypeOK
<1>15. QED
  BY <1>1, <1>2, <1>3, <1>4, <1>5, <1>6, <1>7, <1>8, <1>9, <1>10, <1>11, <1>12, <1>13, <1>14
     DEF RegisterTyped, PartNames

\* Every part keeps its types and its bounds, those that no guard states among them: a transaction is retried
\* less often than it has attempts and the statistics count no more (_with_retries), a pass over the webhooks
\* always has a next time (run_once), the scanner asks for no address outside its range and lists none it was
\* not asked for (collect_map, read_targeted), and a plan fills slots the inverter has (plan_timer).
THEOREM PartsTyped == PartsSpec => []PartsTypeOK
<1> DEFINE Inv == OutTyped /\ HostTyped /\ EnergyTyped /\ RegisterTyped
<1>1. PartsInit => Inv  BY OutTypedStays, HostTypedStays, EnergyTypedStays, RegisterTypedStays
<1>2. Inv /\ [PartsNext]_vars => Inv'
  BY OutTypedStays, HostTypedStays, EnergyTypedStays, RegisterTypedStays
<1>3. Inv => PartsTypeOK  BY TypedParts
<1> HIDE DEF Inv
<1>4. QED BY <1>1, <1>2, <1>3, PTL DEF PartsSpec
================================================================================
