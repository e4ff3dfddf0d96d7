------------------------------ MODULE ProfileCodec ------------------------------
(***************************************************************************)
(* A profile at work: metrics and settings decoded from registers, and     *)
(* settings encoded into them, as devices/yaml_profile.py does; and the    *)
(* decoder of the scanner's dump command, a second implementation of the   *)
(* same conventions that is used to check the first, and of its candidate  *)
(* maps, a third.                                                          *)
(*                                                                         *)
(* Words are WordBits wide (16).  Values are counted in units in which     *)
(* every scale is whole.  SettingsControl treats a field as a lane of its  *)
(* register; this module shows the arithmetic of the lanes.  The mask of a *)
(* bits metric and the other word order, which the dump does not know, are *)
(* left out.                                                               *)
(***************************************************************************)
EXTENDS Integers, Sequences, FiniteSets, RegisterBlocks, Sums
LOCAL INSTANCE FiniteSetsExt

CONSTANTS
  WordBits, Hour,     \* 16, and the 100 of HHMM
  Gap, MaxBlock,      \* 8 and 64: how addresses are grouped into transactions
  PvPowers, PvTotal,  \* the powers of the trackers, and their sum
  Registers,          \* addresses
  Words,              \* the words the device itself puts into them
  Profiles,           \* inheritance chains of profile files, base first
  Fields,             \* settings: records [addr, type, mask, scale, offset]
  Values,             \* [field -> what validation lets through]
  MaxAsked,           \* bound: fields of a request
  None

VARIABLES
  chain,  \* the files of the profile, the base first
  raw     \* [address -> word], of the registers that could be read

codecVars == <<chain, raw>>

Base       == 2 ^ WordBits
MaxWords   == 4  \* of the longest metric of bits
Width      == MaxWords * WordBits
Bits(v)    == {i \in 0..(Width - 1) : (v \div 2 ^ i) % 2 = 1}
Word(bits) == Total([i \in 1..Width |-> IF i - 1 \in bits THEN 2 ^ (i - 1) ELSE 0])
Shift(mask) == CHOOSE i \in Bits(mask) : \A j \in Bits(mask) : i <= j
Signed(v, bits) == IF v >= 2 ^ (bits - 1) THEN v - 2 ^ bits ELSE v
\* Python's round: to the nearest, from the middle to the even one.
Round(n, d) ==
  LET q == n \div d  r == 2 * (n % d) IN
  IF r < d \/ (r = d /\ q % 2 = 0) THEN q ELSE q + 1

----------------------------------------------------------------------------
(* Inheritance and metrics.  A metric is a record                          *)
(* [addrs, type, scale, offset, names], addrs the list or the one address  *)
(* of its spec; an override is a record of some of its fields.             *)

\* dict.update
Updated(old, new) == [x \in DOMAIN old \union DOMAIN new |-> IF x \in DOMAIN new THEN new[x] ELSE old[x]]

\* The child's metrics replace the parent's one by one, its overrides patch them field by field.
Merge(parent, child) ==
  LET metrics    == Updated(parent.metrics, child.metrics)
      Patched(m) == Updated(IF m \in DOMAIN metrics THEN metrics[m] ELSE << >>, child.overrides[m])
  IN  [metrics |-> Updated(metrics, [m \in DOMAIN child.overrides |-> Patched(m)]), overrides |-> << >>]
MetricsOf(files) ==
  LET upTo[n \in 1..Len(files)] == IF n = 1 THEN files[1] ELSE Merge(upTo[n - 1], files[n])
  IN  upTo[Len(files)].metrics
Metrics == MetricsOf(chain)

\* Two words as one number, the low one first.
Long(low, high)          == low + high * Base

\* An address of -1 marks a metric the model does not have.
Disabled(spec) == \E i \in DOMAIN spec.addrs : spec.addrs[i] = -1

\* A long of which only one address is given goes on at the next one.
WordsOf(spec) == IF Len(spec.addrs) = 1 /\ spec.type \in {"u32", "s32"}
                 THEN <<spec.addrs[1], spec.addrs[1] + 1>> ELSE spec.addrs

\* Mutant: the second word of such a long is not asked for.
AddressesFirst == UNION {{Metrics[m].addrs[i] : i \in DOMAIN Metrics[m].addrs} :
                           m \in {n \in DOMAIN Metrics : ~Disabled(Metrics[n])}}

Addresses == UNION {{WordsOf(Metrics[m])[i] : i \in DOMAIN WordsOf(Metrics[m])} :
                      m \in {n \in DOMAIN Metrics : ~Disabled(Metrics[n])}}
BlocksRead == Clusters(Addresses, Gap, MaxBlock)

\* The total of the trackers is advertised, and derived, if there is any.
Capabilities ==
  LET own == {m \in DOMAIN Metrics : ~Disabled(Metrics[m])} IN
  IF own \intersect PvPowers # {} THEN own \union {PvTotal} ELSE own
PowerOf(out, powers) == MapThenSumSet(LAMBDA m : out[m], powers)
Derived(out) ==
  LET powers == DOMAIN out \intersect PvPowers IN
  IF PvTotal \in DOMAIN out \/ powers = {} THEN out
  ELSE Updated(out, [m \in {PvTotal} |-> PowerOf(out, powers)])

\* The words of a metric as one number, the first one lowest.
Joined(addrs) == Total([i \in 1..Len(addrs) |-> raw[addrs[i]] * 2 ^ (WordBits * (i - 1))])

DecodeOne(spec) ==
  LET addrs == WordsOf(spec)
      w(i)  == raw[addrs[i]]
      long  == Long(w(1), w(2))
      scaled(v) == v * spec.scale + spec.offset
  IN
  IF Disabled(spec) \/ \E i \in DOMAIN addrs : addrs[i] \notin DOMAIN raw THEN None
  ELSE CASE spec.type = "u16"  -> scaled(w(1))
         [] spec.type = "s16"  -> scaled(Signed(w(1), WordBits))
         [] spec.type = "u32"  -> scaled(long)
         [] spec.type = "s32"  -> scaled(Signed(long, 2 * WordBits))
         [] spec.type = "enum" -> IF w(1) \in DOMAIN spec.names THEN spec.names[w(1)] ELSE w(1)
         [] spec.type = "bits" -> Bits(Joined(addrs))

\* decode: a metric whose registers are missing is absent.
Decoded == LET present == {m \in DOMAIN Metrics : DecodeOne(Metrics[m]) # None} IN
           Derived([m \in present |-> DecodeOne(Metrics[m])])

----------------------------------------------------------------------------
(* The dump command: later files win, metric by metric; overrides are not  *)
(* looked at, and a register that is missing shows as "?".                 *)

DumpMetricsOf(files) ==
  LET upTo[n \in 0..Len(files)] == IF n = 0 THEN << >> ELSE Updated(upTo[n - 1], files[n].metrics)
  IN  upTo[Len(files)]
DumpMetrics == DumpMetricsOf(chain)

DumpDecoded(spec) ==
  LET vals == [i \in DOMAIN spec.addrs |->
                 IF spec.addrs[i] \in DOMAIN raw THEN raw[spec.addrs[i]] ELSE None]
      scaled(v) == v * spec.scale + spec.offset
      high(v)   == v * Base
      combined  == UNION {{j + WordBits * (i - 1) : j \in Bits(vals[i])} : i \in DOMAIN vals}
      long == high(vals[2]) + vals[1]
  IN
  IF \E i \in DOMAIN vals : vals[i] = None THEN None
  ELSE IF spec.type = "s16" THEN scaled(Signed(vals[1], WordBits))
  ELSE IF spec.type = "u32" /\ Len(vals) >= 2 THEN scaled(long)
  ELSE IF spec.type = "s32" /\ Len(vals) >= 2 THEN scaled(Signed(long, 2 * WordBits))
  ELSE IF spec.type = "enum" /\ vals[1] \in DOMAIN spec.names THEN spec.names[vals[1]]
  ELSE IF spec.type = "bits" THEN combined
  ELSE IF spec.type = "u16" THEN scaled(vals[1])
  ELSE vals[1]

----------------------------------------------------------------------------
(* decode_map_entry: a candidate map knows neither types nor names, only   *)
(* addresses, a sign and a mask.  Of two words it shows the two and the    *)
(* number they may make; a word that is missing shows as "?".              *)

MapDecoded(e) ==
  LET present   == {i \in DOMAIN e.addrs : e.addrs[i] \in DOMAIN raw}
      w(i)      == raw[e.addrs[i]]
      sign(v, bits) == IF e.signed THEN Signed(v, bits) ELSE v
  IN
  IF present # DOMAIN e.addrs THEN None
  ELSE IF Len(e.addrs) = 1 /\ e.mask # None
       THEN (Word(Bits(w(1)) \intersect Bits(e.mask)) \div 2 ^ Shift(e.mask)) * e.scale
  ELSE IF Len(e.addrs) = 1 THEN sign(w(1), WordBits) * e.scale + e.offset
  ELSE IF Len(e.addrs) = 2 THEN sign(Long(w(1), w(2)), 2 * WordBits) * e.scale + e.offset
  ELSE None

----------------------------------------------------------------------------
(* Settings.                                                               *)

DecodeSetting(f, v) ==
  CASE f.type = "bool" -> Bits(v) \intersect Bits(f.mask) # {}
    [] f.type = "bits" -> Word(Bits(v) \intersect Bits(f.mask)) \div 2 ^ Shift(f.mask)
    [] f.type = "enum" -> v
    [] f.type = "time" -> <<v \div Hour, v % Hour>>
    [] f.type = "s16"  -> Signed(v, WordBits) * f.scale + f.offset
    [] f.type = "u16"  -> v * f.scale + f.offset

RawNumber(f, val) == Round(val - f.offset, f.scale)

\* The refusal of a number that does not fit the register.
Encodable(f, val) ==
  CASE f.type = "u16" -> RawNumber(f, val) \in 0..(Base - 1)
    [] f.type = "s16" -> RawNumber(f, val) \in (-(Base \div 2))..(Base \div 2 - 1)
    [] OTHER -> TRUE

\* Mutant: the other bits of the word are cleared.
OthersNone(f, current)  == {}

\* The bits of a word that a field does not cover.
Others(f, current)      == Bits(current) \ Bits(f.mask)

\* The word with the field set, onto the word it is part of.
EncodeSetting(f, val, current) ==
  LET others == Others(f, current) IN
  CASE f.type = "bool" -> Word(others \union (IF val THEN Bits(f.mask) ELSE {}))
    [] f.type = "bits" -> Word(others \union (Bits(val * 2 ^ Shift(f.mask)) \intersect Bits(f.mask)))
    [] f.type = "enum" -> val
    [] f.type = "time" -> val[1] * Hour + val[2]
    [] f.type \in {"u16", "s16"} -> RawNumber(f, val) % Base

\* Each field is composed onto what the fields before it made of their register.
Working(writes, a) ==
  IF a \in DOMAIN writes THEN writes[a] ELSE IF a \in DOMAIN raw THEN raw[a] ELSE 0
Add(writes, f, val) == Updated(writes, [a \in {f.addr} |-> EncodeSetting(f, val, Working(writes, a))])
EncodeSettings(asked) ==
  LET upTo[n \in 0..Len(asked)] ==
        IF n = 0 THEN << >> ELSE Add(upTo[n - 1], asked[n][1], asked[n][2])
  IN  upTo[Len(asked)]

----------------------------------------------------------------------------
(* What the constants must satisfy; instances assume it.                   *)

\* A metric as the files spell them: a number has one address, a long one or two.  Addresses are
\* words, too.
WellFormed(spec) ==
  /\ spec.type \in {"u16", "s16", "u32", "s32", "enum", "bits"}
  /\ spec.addrs \in Seq(Int) /\ \A i \in DOMAIN spec.addrs : spec.addrs[i] \in (-1)..(Base - 1)
  /\ Len(spec.addrs) \in CASE spec.type \in {"u16", "s16", "enum"} -> {1}
                           [] spec.type \in {"u32", "s32"} -> {1, 2}
                           [] spec.type = "bits" -> 1..MaxWords
  /\ spec.scale \in Int /\ spec.offset \in Int
  /\ \A w \in DOMAIN spec.names : spec.names[w] # None

\* The total of the trackers is in no file.
ProfileAssumption ==
  \A files \in Profiles :
    /\ Len(files) \in Nat \ {0} /\ DOMAIN files = 1..Len(files)
    /\ PvTotal \notin DOMAIN MetricsOf(files)
    /\ \A m \in DOMAIN MetricsOf(files) : WellFormed(MetricsOf(files)[m])

Whole(f) == f.type \notin {"bool", "bits"}

\* What validation lets through fits the field.
Valid(f, val) ==
  CASE f.type = "bool" -> val \in BOOLEAN
    [] f.type = "bits" -> /\ val \in Nat /\ val * 2 ^ Shift(f.mask) < Base
                          /\ Bits(val * 2 ^ Shift(f.mask)) \subseteq Bits(f.mask)
    [] f.type = "enum" -> val \in 0..(Base - 1)
    [] f.type = "time" -> /\ val[1] \in Nat /\ val[2] \in 0..(Hour - 1) /\ val[1] * Hour + val[2] < Base
                          /\ val = <<val[1], val[2]>>
    [] f.type \in {"u16", "s16"} -> val \in Int

\* Fields of one register have bits of their own.
FieldAssumption ==
  /\ \A f \in Fields :
       /\ f.type \in {"bool", "bits", "enum", "time", "u16", "s16"}
       /\ f.mask \in 1..(Base - 1) /\ (Whole(f) => f.mask = Base - 1)
       /\ f.scale \in Nat \ {0} /\ f.offset \in Int
       /\ \A val \in Values[f] : Valid(f, val)
  /\ \A f, g \in Fields : f # g /\ f.addr = g.addr => Bits(f.mask) \intersect Bits(g.mask) = {}

CodecAssumption ==
  /\ WordBits \in Nat \ {0} /\ Hour \in Nat \ {0}
  /\ Gap \in Nat \ {0} /\ MaxBlock \in Nat \ {0}
  /\ MaxAsked \in Nat /\ PvTotal \notin PvPowers
  /\ Registers \subseteq Nat /\ Words \subseteq 0..(Base - 1)
  /\ None \notin Int /\ \A bits \in SUBSET (0..(Width - 1)) : bits # None
  /\ ProfileAssumption /\ FieldAssumption

----------------------------------------------------------------------------
TypeOK ==
  /\ chain \in Profiles
  /\ DOMAIN raw \subseteq Registers /\ \A a \in DOMAIN raw : raw[a] \in 0..(Base - 1)

Init == chain \in Profiles /\ raw = [a \in Registers |-> 0]

\* The device changes a register, or one is no longer read.
Change(a) ==
  /\ \/ \E v \in Words : raw' = Updated(raw, [b \in {a} |-> v])
     \/ raw' = [b \in DOMAIN raw \ {a} |-> raw[b]]
  /\ UNCHANGED chain

\* Fields, one after the other, each with a value.
Requests ==
  LET one == UNION {{<<f, val>> : val \in {v \in Values[f] : Encodable(f, v)}} : f \in Fields}
  IN  {s \in UNION {[1..n -> one] : n \in 1..MaxAsked} :
         \A i, j \in DOMAIN s : i # j => s[i][1] # s[j][1]}
Possible == {s \in Requests : \A i \in DOMAIN s : s[i][1].addr \in DOMAIN raw}
Written(s) == Updated(raw, EncodeSettings(s))

Write ==
  /\ \E s \in Possible : raw' = Written(s)
  /\ UNCHANGED chain

Next == (\E a \in Registers : Change(a)) \/ Write

Spec == Init /\ [][Next]_codecVars
----------------------------------------------------------------------------
\* What a written field reads back as: a number up to the rounding to its scale, all else exactly.
ReadsAs(f, v, val) ==
  LET got == DecodeSetting(f, v) IN
  IF f.type \in {"u16", "s16"} THEN 2 * (got - val) \in (-f.scale)..f.scale ELSE got = val

\* Writing settings is local: each written field reads back as what was asked, every other field
\* of the register reads as before, and so do the bits that no field covers, also when two fields
\* of one register are written by one request.
WriteIsLocal ==
  \A s \in Possible :
    LET after     == Written(s)
        written   == {s[i][1] : i \in DOMAIN s}
        masked(a) == UNION {Bits(f.mask) : f \in {g \in written : g.addr = a}}
    IN  /\ DOMAIN after = DOMAIN raw
        /\ \A i \in DOMAIN s : ReadsAs(s[i][1], after[s[i][1].addr], s[i][2])
        /\ \A a \in DOMAIN raw : Bits(raw[a]) \ masked(a) = Bits(after[a]) \ masked(a)
        /\ \A f \in Fields \ written :
             f.addr \in DOMAIN raw => DecodeSetting(f, after[f.addr]) = DecodeSetting(f, raw[f.addr])

\* When every block that is read for the metrics has answered, the reading has exactly the metrics
\* that the device advertises, inherited, replaced, disabled and derived ones alike.  And the dump
\* shows what the driver decodes, whatever registers are missing, for every metric that no file of
\* the chain overrides and that lists its words.  A map entry with the words, the sign and the
\* mask of a number or of a bit field shows what the driver decodes, too.
DecodersAgree ==
  /\ (\A i \in DOMAIN BlocksRead : AddressesIn(BlocksRead[i]) \subseteq DOMAIN raw) =>
       DOMAIN Decoded = Capabilities
  /\ \A m \in DOMAIN Metrics :
       /\ \A i \in DOMAIN chain : m \notin DOMAIN chain[i].overrides
       /\ WordsOf(Metrics[m]) = Metrics[m].addrs
       => DumpDecoded(DumpMetrics[m]) = IF m \in DOMAIN Decoded THEN Decoded[m] ELSE None
  /\ \A m \in DOMAIN Metrics :
       LET spec == Metrics[m] IN
       spec.type \in {"u16", "s16", "u32", "s32"} /\ ~Disabled(spec) =>
         MapDecoded([addrs |-> WordsOf(spec), mask |-> None, signed |-> spec.type \in {"s16", "s32"},
                     scale |-> spec.scale, offset |-> spec.offset]) = DecodeOne(spec)
  /\ \A f \in Fields : f.type = "bits" /\ f.addr \in DOMAIN raw =>
       MapDecoded([addrs |-> <<f.addr>>, mask |-> f.mask, signed |-> FALSE, scale |-> 1, offset |-> 0])
         = DecodeSetting(f, raw[f.addr])
================================================================================
