------------------------------ MODULE RegisterScan ------------------------------
(***************************************************************************)
(* The register scanner, tools/regscan.py: a sweep of an address range, or *)
(* a targeted read of the addresses a candidate map needs, and the verdict *)
(* on the map's variants that is drawn from it.  A transaction reads a run *)
(* of adjacent registers and fails as a whole if the device refuses one of *)
(* them or the line is noisy; it is retried, and a block that is given up  *)
(* is read again one address at a time.                                    *)
(*                                                                         *)
(* The value of a word is the moment at which it was read, so that words   *)
(* which belong together can be told to be of one reading or of two.       *)
(***************************************************************************)
EXTENDS Integers, Sequences, FiniteSets, RegisterBlocks

CONSTANTS
  FirstAddress, LastAddress,   \* of a sweep
  Variants,     \* the columns of the candidate map, in order
  Map,          \* [variant -> sequence of the address sets of its entries]
  BlockSize, ClusterGap, Retries,
  Floor,        \* attempts a variant needs to be eligible (20)
  Devices,      \* sets of addresses that a device may refuse
  MaxNoise,     \* bound on failures that are not the device's refusal
  None

VARIABLES
  refused,      \* addresses the device does not have
  needed,       \* addresses asked for, {} before the scan
  todo,         \* blocks still to be read, the current one first
  single,       \* addresses of the current block still to be read one by one
  attempt,      \* failed attempts at the current transaction
  values,       \* [address -> moment]
  unreadable,
  moment,       \* number of transactions made
  noise, cut,   \* history: failures of the line; addresses of blocks given up
  likely        \* the variant the verdict names

scanVars == <<refused, needed, todo, single, attempt, values, unreadable, moment, noise, cut, likely>>

Range == FirstAddress..LastAddress

ScanAssumption ==
  /\ FirstAddress \in Nat /\ LastAddress \in Nat /\ FirstAddress <= LastAddress
  /\ \A d \in Devices : d \subseteq Range
  /\ BlockSize \in Nat \ {0} /\ ClusterGap \in Nat
  /\ Retries \in Nat /\ Floor \in Nat /\ MaxNoise \in Nat
  /\ Len(Variants) \in Nat \ {0} /\ DOMAIN Variants = 1..Len(Variants)
  /\ \A i \in DOMAIN Variants : Variants[i] # None /\ Map[Variants[i]] \in Seq(SUBSET Range)

AddressesOf(v) == UNION {Map[v][k] : k \in DOMAIN Map[v]}
Union          == UNION {AddressesOf(Variants[i]) : i \in DOMAIN Variants}
SweepBlocks    ==
  LET n        == LastAddress - FirstAddress + 1
      count(k) == IF k * BlockSize <= n THEN BlockSize ELSE n - (k - 1) * BlockSize
  IN  [k \in 1..((n + BlockSize - 1) \div BlockSize) |->
        Block(FirstAddress + (k - 1) * BlockSize, count(k))]
Clustered(addrs) == Clusters(addrs, ClusterGap, BlockSize)

TypeOK ==
  /\ refused \in Devices /\ needed \subseteq Range /\ unreadable \subseteq needed
  /\ single \subseteq Range /\ cut \subseteq Range
  /\ todo \in Seq([start : Range, count : 1..BlockSize])
  /\ attempt \in 0..Retries /\ noise \in 0..MaxNoise /\ moment \in Nat
  /\ DOMAIN values \subseteq Range
  /\ likely \in {None} \union {Variants[i] : i \in DOMAIN Variants}

Init ==
  /\ refused \in Devices
  /\ needed = {} /\ todo = <<>> /\ single = {} /\ attempt = 0
  /\ values = << >> /\ unreadable = {} /\ moment = 0
  /\ noise = 0 /\ cut = {} /\ likely = None

Begin(addrs, blocks) ==
  /\ needed = {} /\ addrs # {}
  /\ needed' = addrs /\ todo' = blocks
  /\ UNCHANGED <<refused, single, attempt, values, unreadable, moment, noise, cut, likely>>

\* _collect_active: the whole range in blocks.
StartSweep == Begin(Range, SweepBlocks)

\* _collect_map_targeted: the addresses of one variant, or of all of them.
StartTargeted ==
  \E addrs \in {Union} \union {AddressesOf(Variants[i]) : i \in DOMAIN Variants} :
    Begin(addrs, Clustered(addrs))

\* What the current transaction asks for: a block, or one address of a block that failed.
Asked == IF single = {} THEN AddressesIn(Head(todo))
         ELSE {CHOOSE a \in single : \A b \in single : a <= b}
LastOfBlock == single = {} \/ single = Asked

\* Every transaction ends the attempt; the block is over with its last address.
NextTransaction ==
  /\ attempt' = 0
  /\ single' = single \ Asked
  /\ todo' = IF LastOfBlock THEN Tail(todo) ELSE todo

ReadBlock ==
  /\ todo # <<>> /\ Asked \intersect refused = {}
  /\ moment' = moment + 1
  /\ values' = [a \in DOMAIN values \union Asked |-> IF a \in Asked THEN moment ELSE values[a]]
  /\ NextTransaction
  /\ UNCHANGED <<refused, needed, unreadable, noise, cut, likely>>

\* read_block: an error answer or an exception; it is tried again Retries times.
Fails ==
  /\ todo # <<>>
  /\ moment' = moment + 1
  /\ IF Asked \intersect refused # {} THEN UNCHANGED noise
     ELSE noise < MaxNoise /\ noise' = noise + 1
  /\ UNCHANGED <<refused, needed, values, likely>>

ReadRetried ==
  /\ Fails /\ attempt < Retries
  /\ attempt' = attempt + 1
  /\ UNCHANGED <<todo, single, unreadable, cut>>

\* Mutant: the isolation of a block begins at its second address.
BlockGivenUpSkipsFirst ==
  /\ Fails /\ attempt = Retries /\ single = {}
  /\ attempt' = 0
  /\ single' = {a \in AddressesIn(Head(todo)) : a # Head(todo).start}
  /\ todo' = IF Head(todo).count = 1 THEN Tail(todo) ELSE todo
  /\ cut' = cut \union AddressesIn(Head(todo))
  /\ UNCHANGED unreadable

\* A block is isolated: its addresses are read one by one.
BlockGivenUp ==
  /\ Fails /\ attempt = Retries /\ single = {}
  /\ attempt' = 0
  /\ single' = AddressesIn(Head(todo))
  /\ cut' = cut \union AddressesIn(Head(todo))
  /\ UNCHANGED <<todo, unreadable>>

\* An address that fails on its own is listed, unless it was only a filler.
AddressGivenUp ==
  /\ Fails /\ attempt = Retries /\ single # {}
  /\ unreadable' = unreadable \union (Asked \intersect needed)
  /\ NextTransaction
  /\ UNCHANGED cut

Done == needed # {} /\ todo = <<>>

----------------------------------------------------------------------------
(* verify: the variants side by side.                                      *)

StatusOf(a) == IF a \in DOMAIN values THEN "ok" ELSE IF a \in unreadable THEN "unreadable" ELSE "absent"

EntryStatus(addrs) ==
  LET sts == {StatusOf(a) : a \in addrs} IN
  IF sts = {"ok"} THEN "ok"
  ELSE IF "unreadable" \in sts THEN "unreadable"
  ELSE IF "ok" \in sts THEN "partial" ELSE "absent"

Tally(v, status) == Cardinality({k \in DOMAIN Map[v] : EntryStatus(Map[v][k]) = status})
Attempted(v)     == Tally(v, "ok") + Tally(v, "unreadable")

\* The variants with enough attempts, or all of them if there is none.
Eligible ==
  LET all    == {Variants[i] : i \in DOMAIN Variants}
      most   == CHOOSE n \in {Attempted(v) : v \in all} : \A v \in all : Attempted(v) <= n
      enough == {v \in all : Attempted(v) >= Floor /\ Attempted(v) >= most \div 4}
  IN  IF enough = {} THEN all ELSE enough

\* By the share of attempts that were answered, then by their number.
Better(v, w) ==
  LET score(x, y) == Tally(x, "ok") * (IF Attempted(y) = 0 THEN 1 ELSE Attempted(y)) IN
  \/ score(v, w) > score(w, v)
  \/ score(v, w) = score(w, v) /\ Tally(v, "ok") > Tally(w, "ok")

\* max() keeps the first of several best.
Best ==
  LET best == {i \in DOMAIN Variants :
                 Variants[i] \in Eligible /\ \A w \in Eligible : ~Better(w, Variants[i])}
  IN  Variants[CHOOSE i \in best : \A j \in best : i <= j]

Verify ==
  /\ Done /\ likely = None
  /\ likely' = Best
  /\ UNCHANGED <<refused, needed, todo, single, attempt, values, unreadable, moment, noise, cut>>

Next ==
  \/ StartSweep \/ StartTargeted
  \/ ReadBlock \/ ReadRetried \/ BlockGivenUp \/ AddressGivenUp
  \/ Verify

Spec == Init /\ [][Next]_scanVars
----------------------------------------------------------------------------
\* No address is forgotten or reported twice: each one that is needed has been read, is listed as
\* unreadable, or belongs to what is still to be read, whatever blocks failed and were taken apart;
\* and one is listed only if the device refuses it, unless the line failed more often than a
\* transaction is retried ("unreadable" is the evidence against a variant of the map).  And the
\* likely variant is one the device answers for entirely, if an eligible one is: a variant that
\* merely lists more registers does not win.
VerdictsAreTrue ==
  LET left == IF todo = <<>> THEN {}
              ELSE UNION ({IF single = {} THEN AddressesIn(todo[1]) ELSE single}
                          \union {AddressesIn(todo[k]) : k \in 2..Len(todo)})
  IN  /\ needed \subseteq DOMAIN values \union unreadable \union left
      /\ unreadable \intersect DOMAIN values = {}
      /\ unreadable \subseteq refused \/ noise > Retries
      /\ likely # None /\ (\E v \in Eligible : Attempted(v) > 0 /\ Tally(v, "unreadable") = 0) =>
           Tally(likely, "unreadable") = 0

\* The blocks that the scan of these addresses may have been planned with.
Planned(addrs) == {Clustered(addrs)} \union IF addrs = Range THEN {SweepBlocks} ELSE {}

\* Adjacent words that are both asked for come from one transaction, so that a 32-bit value made
\* of them was once held by the device: they are torn only where a full block ends or where a
\* block failed.
WordsTogether ==
  \A a \in needed \intersect DOMAIN values :
    a + 1 \in needed \intersect DOMAIN values /\ values[a] # values[a + 1] =>
      \/ {a, a + 1} \subseteq cut
      \/ \E planned \in Planned(needed) : \E i \in DOMAIN planned :
           planned[i] = Block(a + 1 - BlockSize, BlockSize)
================================================================================
