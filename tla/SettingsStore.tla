------------------------------ MODULE SettingsStore ------------------------------
(***************************************************************************)
(* What the write path promises of the inverter's settings: a lane changes *)
(* only because a valid request asked for exactly that value of that lane, *)
(* or because the inverter changed it itself.  A request may be carried    *)
(* out in part (one run of registers written, the next one refused), never *)
(* beyond what it asked.                                                   *)
(***************************************************************************)
EXTENDS Integers

CONSTANTS Lanes, Vals, Factory, PanelLanes, Unasked,
          ValidRequests    \* lane -> wanted value or Unasked

VARIABLE regs

Init == regs = Factory

\* Some of the lanes a valid request asks for take the asked value.
Apply(q, L) ==
  /\ L # {}
  /\ \A l \in L : q[l] # Unasked
  /\ regs' = [l \in Lanes |-> IF l \in L THEN q[l] ELSE regs[l]]

Panel(l, v) == regs' = [regs EXCEPT ![l] = v]

Next ==
  \/ \E q \in ValidRequests, L \in SUBSET Lanes : Apply(q, L)
  \/ \E l \in PanelLanes, v \in Vals : Panel(l, v)

Spec == Init /\ [][Next]_regs
================================================================================
