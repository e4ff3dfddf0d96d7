----------------------------- MODULE RegisterBlocks -----------------------------
(***************************************************************************)
(* Addresses grouped into runs of adjacent registers, each read by one     *)
(* transaction.  The profile (yaml_profile.py) and the scanner             *)
(* (tools/regscan.py) group alike, with limits of their own.               *)
(***************************************************************************)
EXTENDS Integers, Sequences

Block(start, count) == [start |-> start, count |-> count]
AddressesIn(b)      == b.start..(b.start + b.count - 1)

\* Mutant: a block holds one register less than it may.
AddToEarly(blocks, a, gap, max) ==
  LET b == blocks[Len(blocks)] IN
  IF blocks # <<>> /\ a - (b.start + b.count - 1) <= gap /\ a - b.start + 1 < max
  THEN [blocks EXCEPT ![Len(blocks)] = Block(b.start, a - b.start + 1)]
  ELSE Append(blocks, Block(a, 1))

\* An address joins the last block unless it is more than gap away from the block's end, or the
\* block would exceed max registers.
AddTo(blocks, a, gap, max) ==
  LET b == blocks[Len(blocks)] IN
  IF blocks # <<>> /\ a - (b.start + b.count - 1) <= gap /\ a - b.start < max
  THEN [blocks EXCEPT ![Len(blocks)] = Block(b.start, a - b.start + 1)]
  ELSE Append(blocks, Block(a, 1))

\* The addresses are added in ascending order; below[n] are the blocks of those below n.
Clusters(addrs, gap, max) ==
  LET end == CHOOSE n \in {0} \union {a + 1 : a \in addrs} : \A a \in addrs : a < n
      below[n \in 0..end] ==
        IF n = 0 THEN <<>>
        ELSE IF n - 1 \in addrs THEN AddTo(below[n - 1], n - 1, gap, max) ELSE below[n - 1]
  IN  below[end]
================================================================================
