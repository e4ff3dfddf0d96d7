--------------------------- MODULE SettingsControlProofs -------------------------
(***************************************************************************)
(* Proofs about SettingsControl, for any number of writers, fields,        *)
(* registers, requests and retries.                                        *)
(***************************************************************************)
EXTENDS SettingsControl, TLAPS

\* A run to write is part of what is still to be written.
LEMMA FirstRunSubset == ASSUME NEW S PROVE FirstRun(S) \subseteq S
BY DEF FirstRun

\* The phases of a task: outside the last two steps no outcome is set; a request being
\* carried out is valid; while it writes, it holds a complete raw map and register values.
Phase(w) ==
  /\ pc[w] \notin {"audit", "done"} => outcome[w] = "none"
  /\ pc[w] \in {"before", "raw", "write", "after"} => Valid(want[w])
  /\ pc[w] \in {"before", "raw"} => touched[w] = {}
  /\ pc[w] = "write" => Complete(w)
  /\ pc[w] \in {"write", "after"} => \A l \in Lanes : want[w][l] # WideValue

PhaseInv == \A w \in Writers : Phase(w)

TypeInv == TypeOK /\ PhaseInv

\* While a task writes, the register values it sends are lane values.
LEMMA EncodedValues ==
  ASSUME TypeInv, NEW w \in Writers, pc[w] = "write"
  PROVE  Encoded(w) \in [Lanes -> Vals]
BY ConstantsAssumption DEF TypeInv, TypeOK, PhaseInv, Phase, Complete, Valid, Encoded, ConstantsAssumption

LEMMA InitTypeInv == Init => TypeInv
BY ConstantsAssumption
   DEF Init, TypeInv, TypeOK, PhaseInv, Phase, NoWant, Blank, NoEntry, ConstantsAssumption, PCs,
       Gathering, Outcomes, Results

\* The gather and the answer of a request preserve the type invariant.
LEMMA QuietTypeInv ==
  ASSUME TypeInv, NEW w \in Writers,
         Browse(w) \/ ReadBlock(w) \/ ReadFails(w) \/ FinishGet(w) \/ CheckEtag(w)
           \/ Verify(w) \/ Audit(w) \/ Reply(w)
  PROVE  TypeInv'
<1> USE ConstantsAssumption DEF ConstantsAssumption, TypeInv, TypeOK, PhaseInv, Phase, PCs, Gathering,
        Outcomes, Results, Goto, End, Fresh, Blank, NoWant, NoEntry, Complete, Valid
<1>1. CASE Browse(w)    BY <1>1 DEF Browse
<1>2. CASE ReadBlock(w) BY <1>2 DEF ReadBlock
<1>3. CASE ReadFails(w)
  <2>1. TypeOK'   BY <1>3 DEF ReadFails
  <2>2. PhaseInv' BY <1>3 DEF ReadFails
  <2>3. QED BY <2>1, <2>2
<1>4. CASE FinishGet(w) BY <1>4 DEF FinishGet, Decoded
<1>5. CASE CheckEtag(w)
  <2>0. Decoded(buf[w]) \in [Shown -> Vals \union {Unread}]  BY DEF Decoded
  <2>a. etag' \in [Writers -> [Shown -> Vals \union {Unread}] \union {NoEtag}]
    BY <1>5, <2>0 DEF CheckEtag
  <2>1. TypeOK'   BY <1>5, <2>a DEF CheckEtag
  <2>2. PhaseInv' BY <1>5 DEF CheckEtag
  <2>3. QED BY <2>1, <2>2
<1>6. CASE Verify(w)    BY <1>6 DEF Verify, Decoded
<1>7. CASE Audit(w)
  <2>0. PICK row \in [result : Results, changes : SUBSET Lanes] :
               audit' = [audit EXCEPT ![w] = row]
    <3>1. Asked(w) \subseteq Lanes BY DEF Asked
    <3>2. CASE outcome[w] \in {"ok", "mismatch"}  BY <1>7, <3>1, <3>2 DEF Audit
    <3>3. CASE outcome[w] \notin {"ok", "mismatch"}  BY <1>7, <3>3 DEF Audit
    <3>4. QED BY <3>2, <3>3
  <2>1. audit' \in [Writers -> [result : Results, changes : SUBSET Lanes]]
    BY <2>0
  <2>2. TypeOK'   BY <1>7, <2>1 DEF Audit
  <2>3. PhaseInv' BY <1>7 DEF Audit
  <2>4. QED BY <2>2, <2>3
<1>8. CASE Reply(w)     BY <1>8 DEF Reply
<1>9. QED BY <1>1, <1>2, <1>3, <1>4, <1>5, <1>6, <1>7, <1>8

\* Starting a request: it is valid if it goes on.
LEMMA SubmitTypeInv ==
  ASSUME TypeInv, NEW w \in Writers, NEW q \in Requests, NEW conditional \in BOOLEAN,
         Submit(w, q, conditional)
  PROVE  TypeInv'
<1> USE ConstantsAssumption DEF ConstantsAssumption, TypeInv, PCs, Gathering, Outcomes, Results,
        Goto, End, Fresh, Blank, NoEntry, Submit
<1>1. TypeOK'
  <2>1. q \in [Lanes -> Vals \union {BadValue, WideValue, Unasked}]  OBVIOUS
  <2>2. pc' \in [Writers -> PCs] /\ outcome' \in [Writers -> Outcomes]
    <3>1. CASE Valid(q)   BY <3>1 DEF TypeOK
    <3>2. CASE ~Valid(q)  BY <3>2 DEF TypeOK
    <3>3. QED BY <3>1, <3>2
  <2>3. want' \in [Writers -> [Lanes -> Vals \union {BadValue, WideValue, Unasked}]]
    BY <2>1 DEF TypeOK
  <2>4. etag' \in [Writers -> [Shown -> Vals \union {Unread}] \union {NoEtag}]  BY DEF TypeOK
  <2>5. left' \in [Writers -> Nat]  BY DEF TypeOK
  <2>6. /\ buf' \in [Writers -> [Lanes -> Vals \union {Unread}]]
        /\ dirty' \in [Writers -> SUBSET Lanes]
    BY DEF TypeOK
  <2>7. /\ audit' \in [Writers -> [result : Results, changes : SUBSET Lanes]]
        /\ touched' \in [Writers -> SUBSET AddrsOf(Lanes)]
    BY DEF TypeOK
  <2>8. QED BY <2>2, <2>3, <2>4, <2>5, <2>6, <2>7 DEF TypeOK
<1>2. PhaseInv'
  <2>1. SUFFICES ASSUME NEW v \in Writers PROVE Phase(v)'  BY DEF PhaseInv
  <2>2. CASE v # w  BY <2>2 DEF TypeOK, PhaseInv, Phase, Complete, Valid
  <2>3. CASE v = w
    <3>1. want'[w] = q /\ touched'[w] = {}  BY DEF TypeOK
    <3>2. CASE Valid(q)   BY <2>3, <3>1, <3>2 DEF TypeOK, PhaseInv, Phase, Valid
    <3>3. CASE ~Valid(q)  BY <2>3, <3>1, <3>3 DEF TypeOK, PhaseInv, Phase
    <3>4. QED BY <3>2, <3>3
  <2>4. QED BY <2>2, <2>3
<1>3. QED BY <1>1, <1>2

\* Encoding: a request with a value too wide for its register never reaches the write phase.
LEMMA EncodeTypeInv ==
  ASSUME TypeInv, NEW w \in Writers, RejectEncoded(w) \/ Encode(w)
  PROVE  TypeInv'
<1> USE DEF TypeInv, PCs, Gathering, Outcomes, Goto, End
<1>1. Asked(w) \subseteq Lanes /\ AddrsOf(Asked(w)) \subseteq AddrsOf(Lanes)
  BY DEF Asked, AddrsOf
<1>2. CASE RejectEncoded(w)
  <2>1. TypeOK'  BY <1>2 DEF RejectEncoded, TypeOK, Fresh, Blank
  <2>2. PhaseInv'
    <3>1. SUFFICES ASSUME NEW v \in Writers PROVE Phase(v)'  BY DEF PhaseInv
    <3>2. Phase(v)  BY DEF PhaseInv
    <3>3. CASE v # w  BY <1>2, <3>2, <3>3 DEF RejectEncoded, Fresh, TypeOK, Phase, Complete, Valid
    <3>4. CASE v = w  BY <1>2, <3>4 DEF RejectEncoded, TypeOK, Phase
    <3>5. QED BY <3>3, <3>4
  <2>3. QED BY <2>1, <2>2
<1>3. CASE Encode(w)
  <2>1. TypeOK'
    <3>1. todo' \in [Writers -> SUBSET AddrsOf(Lanes)]  BY <1>1, <1>3 DEF Encode, TypeOK
    <3>2. {l \in Asked(w) : regs[l] = want[w][l]} \subseteq Lanes  BY <1>1
    <3>3. held' \in [Writers -> SUBSET Lanes]  BY <1>3, <3>2 DEF Encode, TypeOK
    <3>4. QED BY <1>3, <3>1, <3>3 DEF Encode, TypeOK
  <2>2. PhaseInv'
    <3>1. SUFFICES ASSUME NEW v \in Writers PROVE Phase(v)'  BY DEF PhaseInv
    <3>2. Phase(v)  BY DEF PhaseInv
    <3>3. CASE v # w  BY <1>3, <3>2, <3>3 DEF Encode, TypeOK, Phase, Complete, Valid
    <3>4. CASE v = w
      <4>1. \A l \in Lanes : want[w][l] # WideValue
        BY <1>3, ConstantsAssumption DEF Encode, Fits, Asked, ConstantsAssumption
      <4>2. Complete(w)'  BY <1>3 DEF Encode, Complete
      <4>3. QED BY <1>3, <3>2, <3>4, <4>1, <4>2 DEF Encode, TypeOK, Phase, Valid
    <3>5. QED BY <3>3, <3>4
  <2>3. QED BY <2>1, <2>2
<1>4. QED BY <1>2, <1>3

\* An attempt to write, whatever the device did with it: values stay values, and only
\* addresses still to be written are touched.
LEMMA SendTypes ==
  ASSUME TypeInv, NEW w \in Writers, pc[w] = "write", SendRun(w), Observed(w)
  PROVE  /\ regs' \in [Lanes -> Vals]
         /\ touched' \in [Writers -> SUBSET AddrsOf(Lanes)]
         /\ held' \in [Writers -> SUBSET Lanes]
         /\ dirty' \in [Writers -> SUBSET Lanes]
         /\ \A v \in Writers : v # w => touched'[v] = touched[v]
<1>1. Encoded(w) \in [Lanes -> Vals]  BY EncodedValues
<1>2. FirstRun(todo[w]) \subseteq AddrsOf(Lanes)  BY FirstRunSubset DEF TypeInv, TypeOK
<1>3. regs' \in [Lanes -> Vals]  BY <1>1 DEF SendRun, TypeInv, TypeOK
<1>4. /\ touched' \in [Writers -> SUBSET AddrsOf(Lanes)]
      /\ \A v \in Writers : v # w => touched'[v] = touched[v]
  BY <1>2, SMTT(30) DEF SendRun, TypeInv, TypeOK
<1>5. \A v \in Writers : {l \in Asked(v) : regs'[l] = want[v][l]} \subseteq Lanes  BY DEF Asked
<1>6. held' \in [Writers -> SUBSET Lanes]  BY <1>5 DEF Observed, TypeInv, TypeOK
<1>7. dirty' \in [Writers -> SUBSET Lanes]  BY DEF Observed, TypeInv, TypeOK
<1>8. QED BY <1>3, <1>4, <1>6, <1>7

LEMMA WriteTypeInv ==
  ASSUME TypeInv, NEW w \in Writers, WriteAcked(w) \/ WriteRetried(w) \/ WriteFailed(w)
  PROVE  TypeInv'
<1> USE ConstantsAssumption DEF ConstantsAssumption, TypeInv, PCs, Gathering, Outcomes, Results,
        Goto, End, Blank
<1>1. pc[w] = "write" /\ SendRun(w) /\ Observed(w)
  BY DEF WriteAcked, WriteRetried, WriteFailed
<1>2. FirstRun(todo[w]) \subseteq todo[w]  BY FirstRunSubset
<1>3. TypeOK'
  <2>1. CASE WriteAcked(w)
    <3>1. todo' \in [Writers -> SUBSET AddrsOf(Lanes)]  BY <2>1 DEF WriteAcked, TypeOK
    <3>2. buf' \in [Writers -> [Lanes -> Vals \union {Unread}]] /\ pc' \in [Writers -> PCs]
      <4>1. CASE todo'[w] = {}
        <5>1. pc' = [pc EXCEPT ![w] = "after"] /\ buf' = [buf EXCEPT ![w] = Blank]
          BY <2>1, <4>1 DEF WriteAcked
        <5>2. Blank \in [Lanes -> Vals \union {Unread}]  OBVIOUS
        <5>3. QED BY <5>1, <5>2 DEF TypeOK
      <4>2. CASE todo'[w] # {}  BY <2>1, <4>2 DEF WriteAcked, TypeOK
      <4>3. QED BY <4>1, <4>2
    <3>3. attempt' \in [Writers -> 0..(Retries - 1)]  BY <2>1 DEF WriteAcked, TypeOK
    <3>4. QED BY <1>1, <2>1, <3>1, <3>2, <3>3, SendTypes DEF WriteAcked, TypeOK
  <2>2. CASE WriteRetried(w) BY <1>1, <2>2, SendTypes DEF WriteRetried, TypeOK
  <2>3. CASE WriteFailed(w)  BY <1>1, <2>3, SendTypes DEF WriteFailed, TypeOK
  <2>4. QED BY <2>1, <2>2, <2>3
<1>4. PhaseInv'
  <2>1. SUFFICES ASSUME NEW v \in Writers PROVE Phase(v)'  BY DEF PhaseInv
  <2>2. Phase(v) /\ want' = want  BY DEF PhaseInv, WriteAcked, WriteRetried, WriteFailed
  <2>3. CASE v # w
    <3>1. touched'[v] = touched[v]  BY <1>1, <2>3, SendTypes
    <3>2. /\ pc'[v] = pc[v] /\ outcome'[v] = outcome[v] /\ buf'[v] = buf[v]
      BY <2>3 DEF TypeOK, WriteAcked, WriteRetried, WriteFailed
    <3>3. QED BY <2>2, <3>1, <3>2 DEF Phase, Complete, Valid
  <2>4. CASE v = w
    <3>1. CASE WriteAcked(w)   BY <1>1, <2>2, <2>4, <3>1 DEF WriteAcked, TypeOK, Phase, Complete, Valid
    <3>2. CASE WriteRetried(w) BY <1>1, <2>2, <2>4, <3>2 DEF WriteRetried, Phase, Complete, Valid
    <3>3. CASE WriteFailed(w)  BY <1>1, <2>2, <2>4, <3>3 DEF WriteFailed, TypeOK, Phase
    <3>4. QED BY <3>1, <3>2, <3>3
  <2>5. QED BY <2>3, <2>4
<1>5. QED BY <1>3, <1>4

LEMMA PanelTypeInv ==
  ASSUME TypeInv, NEW l \in Lanes, NEW v \in Vals, Panel(l, v)
  PROVE  TypeInv'
BY DEF TypeInv, TypeOK, PhaseInv, Phase, Complete, Panel

LEMMA NextTypeInv == TypeInv /\ [Next]_vars => TypeInv'
<1> SUFFICES ASSUME TypeInv, [Next]_vars PROVE TypeInv'  OBVIOUS
<1>1. CASE UNCHANGED vars  BY <1>1 DEF vars, TypeInv, TypeOK, PhaseInv, Phase, Complete
<1>2. ASSUME NEW w \in Writers, Browse(w) \/ Step(w) \/ Reply(w) PROVE TypeInv'
  BY <1>2, QuietTypeInv, EncodeTypeInv, WriteTypeInv DEF Step
<1>3. QED BY <1>1, <1>2, SubmitTypeInv, PanelTypeInv DEF Next

\* Every variable of the write path keeps its type.
THEOREM TypeCorrect == Spec => []TypeOK
<1>1. TypeInv => TypeOK  BY DEF TypeInv
<1>2. QED BY <1>1, InitTypeInv, NextTypeInv, PTL DEF Spec

--------------------------------------------------------------------------------
(* Refusals.                                                               *)

\* A step that writes no register leaves the touched addresses alone, or clears them.
LEMMA QuietTouches ==
  ASSUME TypeInv, NEW w \in Writers, RefusedTouchesNothing,
         Browse(w) \/ ReadBlock(w) \/ ReadFails(w) \/ FinishGet(w) \/ CheckEtag(w)
           \/ RejectEncoded(w) \/ Encode(w) \/ Verify(w) \/ Audit(w) \/ Reply(w)
  PROVE  RefusedTouchesNothing'
<1> SUFFICES ASSUME NEW v \in Writers, outcome'[v] \in Refused PROVE touched'[v] = {}
  BY DEF RefusedTouchesNothing
<1>1. CASE v # w
  <2>1. outcome'[v] = outcome[v] /\ touched'[v] = touched[v]
    BY <1>1 DEF TypeInv, TypeOK, Browse, ReadBlock, ReadFails, FinishGet, CheckEtag, RejectEncoded,
                Encode, Verify, Audit, Reply, End
  <2>2. QED BY <2>1 DEF RefusedTouchesNothing
<1>2. CASE v = w
  <2>1. CASE CheckEtag(w) \/ RejectEncoded(w)
    BY <1>2, <2>1 DEF CheckEtag, RejectEncoded, TypeInv, PhaseInv, Phase
  <2>2. CASE Reply(w)
    BY <1>2, <2>2 DEF Reply, End, TypeInv, TypeOK
  <2>3. CASE ReadFails(w) \/ Verify(w)
    BY <1>2, <2>3 DEF ReadFails, Verify, End, TypeInv, TypeOK, Refused, RefusedTouchesNothing
  <2>4. CASE Browse(w) \/ ReadBlock(w) \/ FinishGet(w) \/ Encode(w) \/ Audit(w)
    BY <1>2, <2>4 DEF Browse, ReadBlock, FinishGet, Encode, Audit, RefusedTouchesNothing
  <2>5. QED BY <2>1, <2>2, <2>3, <2>4
<1>3. QED BY <1>1, <1>2

LEMMA WriteTouches ==
  ASSUME TypeInv, NEW w \in Writers, RefusedTouchesNothing,
         WriteAcked(w) \/ WriteRetried(w) \/ WriteFailed(w)
  PROVE  RefusedTouchesNothing'
<1> SUFFICES ASSUME NEW v \in Writers, outcome'[v] \in Refused PROVE touched'[v] = {}
  BY DEF RefusedTouchesNothing
<1>1. pc[w] = "write" /\ outcome[w] = "none"
  BY DEF WriteAcked, WriteRetried, WriteFailed, TypeInv, PhaseInv, Phase
<1>2. v # w
  BY <1>1 DEF WriteAcked, WriteRetried, WriteFailed, End, TypeInv, TypeOK, Refused
<1>3. outcome'[v] = outcome[v]
  BY <1>2 DEF WriteAcked, WriteRetried, WriteFailed, End, TypeInv, TypeOK
<1>4. touched'[v] = touched[v]
  BY <1>1, <1>2, SendTypes DEF WriteAcked, WriteRetried, WriteFailed
<1>5. QED BY <1>3, <1>4 DEF RefusedTouchesNothing

LEMMA NextRefused == TypeInv /\ RefusedTouchesNothing /\ [Next]_vars => RefusedTouchesNothing'
<1> SUFFICES ASSUME TypeInv, RefusedTouchesNothing, [Next]_vars PROVE RefusedTouchesNothing'
  OBVIOUS
<1>1. CASE UNCHANGED vars  BY <1>1 DEF vars, RefusedTouchesNothing
<1>2. ASSUME NEW w \in Writers, Browse(w) \/ Step(w) \/ Reply(w) PROVE RefusedTouchesNothing'
  BY <1>2, QuietTouches, WriteTouches DEF Step
<1>3. ASSUME NEW w \in Writers, NEW q \in Requests, NEW conditional \in BOOLEAN,
             Submit(w, q, conditional)
      PROVE  RefusedTouchesNothing'
  <2>1. touched'[w] = {}  BY <1>3 DEF Submit, TypeInv, TypeOK
  <2>2. \A v \in Writers \ {w} : outcome'[v] = outcome[v] /\ touched'[v] = touched[v]
    BY <1>3 DEF Submit, End, TypeInv, TypeOK
  <2>3. QED BY <2>1, <2>2 DEF RefusedTouchesNothing
<1>4. ASSUME NEW l \in Lanes, NEW v \in Vals, Panel(l, v) PROVE RefusedTouchesNothing'
  BY <1>4 DEF Panel, RefusedTouchesNothing
<1>5. QED BY <1>1, <1>2, <1>3, <1>4 DEF Next

\* A request refused with 422, 412 or 400 has changed no register, for any number of writers.
THEOREM RefusalSafe == Spec => []RefusedTouchesNothing
<1>1. Init => RefusedTouchesNothing  BY DEF Init, RefusedTouchesNothing
<1>2. QED BY <1>1, InitTypeInv, NextTypeInv, NextRefused, PTL DEF Spec

--------------------------------------------------------------------------------
(* Read-only lanes.                                                        *)

Fixed == Lanes \ (Writable \union PanelLanes)

\* A lane nobody may change has its first value in the inverter and in every raw map that
\* has read it, which is why writing it back from a raw map is harmless.
FixedInv ==
  \A l \in Fixed : /\ regs[l] = Factory[l]
                   /\ \A w \in Writers : buf[w][l] \in {Unread, Factory[l]}

LEMMA QuietFixed ==
  ASSUME TypeInv, FixedInv, NEW w \in Writers,
         Browse(w) \/ ReadBlock(w) \/ ReadFails(w) \/ FinishGet(w) \/ CheckEtag(w)
           \/ RejectEncoded(w) \/ Encode(w) \/ Verify(w) \/ Audit(w) \/ Reply(w)
  PROVE  FixedInv'
<1> SUFFICES ASSUME NEW l \in Fixed, NEW v \in Writers
             PROVE  regs'[l] = Factory[l] /\ buf'[v][l] \in {Unread, Factory[l]}
  BY DEF FixedInv
<1> USE DEF TypeInv, TypeOK
<1>1. l \in Lanes /\ regs[l] = Factory[l] /\ buf[v][l] \in {Unread, Factory[l]}
  BY DEF FixedInv, Fixed
<1>2. regs' = regs
  BY DEF Browse, ReadBlock, ReadFails, FinishGet, CheckEtag, RejectEncoded, Encode, Verify, Audit, Reply
<1>3. CASE ReadBlock(w)  BY <1>1, <1>2, <1>3 DEF ReadBlock
<1>4. CASE Encode(w) \/ Audit(w) \/ Reply(w)
  BY <1>1, <1>2, <1>4 DEF Encode, Audit, Reply
<1>5. CASE Browse(w) \/ ReadFails(w) \/ FinishGet(w) \/ CheckEtag(w) \/ RejectEncoded(w) \/ Verify(w)
  <2>1. buf' = [buf EXCEPT ![w] = Blank]
    BY <1>5 DEF Browse, ReadFails, FinishGet, CheckEtag, RejectEncoded, Verify, Fresh
  <2>2. QED BY <1>1, <1>2, <2>1 DEF Blank
<1>6. QED BY <1>3, <1>4, <1>5

LEMMA WriteFixed ==
  ASSUME TypeInv, FixedInv, NEW w \in Writers, WriteAcked(w) \/ WriteRetried(w) \/ WriteFailed(w)
  PROVE  FixedInv'
<1>1. pc[w] = "write" /\ SendRun(w)  BY DEF WriteAcked, WriteRetried, WriteFailed
<1>2. ASSUME NEW l \in Fixed PROVE Encoded(w)[l] = Factory[l]
  <2>1. l \in Lanes /\ l \notin Writable  BY DEF Fixed
  <2>2. want[w][l] = Unasked
    BY <1>1, <2>1 DEF TypeInv, PhaseInv, Phase, Valid
  <2>3. buf[w][l] = Factory[l]
    BY <1>1, <2>1 DEF TypeInv, PhaseInv, Phase, Complete, FixedInv
  <2>4. QED BY <2>1, <2>2, <2>3 DEF Encoded
<1>3. \A l \in Fixed : regs'[l] = Factory[l]
  BY <1>1, <1>2 DEF SendRun, FixedInv, Fixed, TypeInv, TypeOK
<1>4. \A v \in Writers : buf'[v] = buf[v] \/ buf'[v] = Blank
  BY DEF WriteAcked, WriteRetried, WriteFailed, TypeInv, TypeOK
<1>5. \A l \in Lanes, v \in Writers : buf'[v][l] \in {Unread, buf[v][l]}
  BY <1>4 DEF Blank
<1>6. QED BY <1>3, <1>5 DEF FixedInv, Fixed

LEMMA NextFixed == TypeInv /\ FixedInv /\ [Next]_vars => FixedInv'
<1> SUFFICES ASSUME TypeInv, FixedInv, [Next]_vars PROVE FixedInv'  OBVIOUS
<1>1. CASE UNCHANGED vars  BY <1>1 DEF vars, FixedInv
<1>2. ASSUME NEW w \in Writers, Browse(w) \/ Step(w) \/ Reply(w) PROVE FixedInv'
  BY <1>2, QuietFixed, WriteFixed DEF Step
<1>3. ASSUME NEW w \in Writers, NEW q \in Requests, NEW conditional \in BOOLEAN,
             Submit(w, q, conditional)
      PROVE  FixedInv'
  <2>1. regs' = regs /\ buf' = [buf EXCEPT ![w] = Blank]  BY <1>3 DEF Submit, Fresh
  <2>2. \A v \in Writers, l \in Lanes : buf'[v][l] \in {Unread, buf[v][l]}
    BY <2>1 DEF Blank, TypeInv, TypeOK
  <2>3. QED BY <2>1, <2>2 DEF FixedInv, Fixed
<1>4. ASSUME NEW l \in Lanes, NEW v \in Vals, Panel(l, v) PROVE FixedInv'
  BY <1>4 DEF Panel, FixedInv, Fixed, TypeInv, TypeOK
<1>5. QED BY <1>1, <1>2, <1>3, <1>4 DEF Next

\* However the writers' read-modify-writes of shared registers interleave, tear and retry, a
\* lane outside every writable field keeps its value.
THEOREM ReadOnlySafe == Spec => []ReadOnlyLanesKept
<1>1. Init => FixedInv  BY ConstantsAssumption DEF Init, FixedInv, Fixed, Blank, ConstantsAssumption
<1>2. FixedInv => ReadOnlyLanesKept  BY DEF FixedInv, Fixed, ReadOnlyLanesKept
<1>3. QED BY <1>1, <1>2, InitTypeInv, NextTypeInv, NextFixed, PTL DEF Spec

--------------------------------------------------------------------------------
(* Read-back verification.                                                 *)

\* What a writer has seen: since its write phase began, every asked lane now holding the
\* asked value has been noted, and so has every lane the read-back saw holding it.
Noted(w) ==
  /\ pc[w] \in {"write", "after"} => \A l \in Asked(w) : regs[l] = want[w][l] => l \in held[w]
  /\ pc[w] = "after" => \A l \in Asked(w) : buf[w][l] = want[w][l] => l \in held[w]
  /\ pc[w] \in {"audit", "done"} /\ outcome[w] = "ok" => Asked(w) \subseteq held[w]

NotedInv == \A w \in Writers : Noted(w)

\* A valid request that fits its registers never asks for the unread mark.
LEMMA AskedIsRead ==
  ASSUME TypeInv, NEW w \in Writers, pc[w] \in {"write", "after"}, NEW l \in Asked(w)
  PROVE  want[w][l] # Unread
BY ConstantsAssumption
   DEF ConstantsAssumption, TypeInv, TypeOK, PhaseInv, Phase, Valid, Asked

LEMMA QuietNoted ==
  ASSUME TypeInv, NotedInv, NEW w \in Writers,
         Browse(w) \/ ReadBlock(w) \/ ReadFails(w) \/ FinishGet(w) \/ CheckEtag(w)
           \/ RejectEncoded(w) \/ Encode(w) \/ Verify(w) \/ Audit(w) \/ Reply(w)
  PROVE  NotedInv'
<1> SUFFICES ASSUME NEW v \in Writers PROVE Noted(v)'  BY DEF NotedInv
<1> USE DEF TypeInv, TypeOK
<1>1. Noted(v) /\ Noted(w)  BY DEF NotedInv
<1>2. CASE v # w
  <2>1. /\ regs' = regs /\ pc'[v] = pc[v] /\ want'[v] = want[v] /\ outcome'[v] = outcome[v]
        /\ buf'[v] = buf[v] /\ held'[v] = held[v]
    BY <1>2 DEF Browse, ReadBlock, ReadFails, FinishGet, CheckEtag, RejectEncoded, Encode, Verify,
                Audit, Reply, Fresh, Goto, End
  <2>2. QED BY <1>1, <2>1 DEF Noted, Asked
<1>3. CASE v = w
  <2>1. CASE Browse(w) \/ FinishGet(w) \/ CheckEtag(w) \/ RejectEncoded(w) \/ ReadFails(w)
    BY <1>3, <2>1 DEF Browse, FinishGet, CheckEtag, RejectEncoded, ReadFails, Goto, End, Noted
  <2>2. CASE Encode(w)  BY <1>3, <2>2 DEF Encode, Goto, Noted, Asked
  <2>3. CASE Reply(w)   BY <1>3, <2>3 DEF Reply, Goto, Noted
  <2>4. CASE Audit(w)   BY <1>1, <1>3, <2>4 DEF Audit, Goto, Noted, Asked
  <2>5. CASE ReadBlock(w)
    <3>1. /\ regs' = regs /\ pc' = pc /\ want' = want /\ held' = held /\ outcome' = outcome
      BY <2>5 DEF ReadBlock
    <3>2. \A l \in Lanes : buf'[w][l] \in {regs[l], buf[w][l]}  BY <2>5 DEF ReadBlock
    <3>3. QED BY <1>1, <1>3, <3>1, <3>2 DEF Noted, Asked
  <2>6. CASE Verify(w)
    <3>1. /\ pc[w] = "after" /\ pc'[w] = "audit" /\ want' = want /\ held' = held
          /\ outcome'[w] = "ok" => Mismatches(w) = {}
      BY <2>6 DEF Verify, Goto, End
    <3>2. Mismatches(w) = {} => Asked(w) \subseteq held[w]
      BY <1>1, <3>1 DEF Noted, Mismatches
    <3>3. QED BY <1>3, <3>1, <3>2 DEF Noted, Asked
  <2>7. QED BY <2>1, <2>2, <2>3, <2>4, <2>5, <2>6
<1>4. QED BY <1>2, <1>3

\* A write is noted by every writer that has begun its write phase.
LEMMA WriteNoted ==
  ASSUME TypeInv, NotedInv, NEW w \in Writers, WriteAcked(w) \/ WriteRetried(w) \/ WriteFailed(w)
  PROVE  NotedInv'
<1> SUFFICES ASSUME NEW v \in Writers PROVE Noted(v)'  BY DEF NotedInv
<1>1. Noted(v)  BY DEF NotedInv
<1>2. /\ want' = want /\ pc[w] = "write" /\ Observed(w)
  BY DEF WriteAcked, WriteRetried, WriteFailed
<1>3. held[v] \subseteq held'[v]  BY <1>2 DEF Observed
<1>4. pc[v] \in {"write", "after"} => \A l \in Asked(v) : regs'[l] = want[v][l] => l \in held'[v]
  BY <1>2 DEF Observed
<1>5. CASE v # w
  <2>1. pc'[v] = pc[v] /\ outcome'[v] = outcome[v] /\ buf'[v] = buf[v]
    BY <1>5 DEF WriteAcked, WriteRetried, WriteFailed, Goto, End, TypeInv, TypeOK
  <2>2. QED BY <1>1, <1>2, <1>3, <1>4, <2>1 DEF Noted, Asked
<1>6. CASE v = w
  <2>1. CASE pc'[v] = "write"  BY <1>2, <1>4, <1>6, <2>1 DEF Noted, Asked
  <2>2. CASE pc'[v] = "after"
    <3>1. buf'[v] = Blank
      BY <1>2, <1>6, <2>2 DEF WriteAcked, WriteRetried, WriteFailed, Goto, TypeInv, TypeOK
    <3>2. \A l \in Asked(v) : want[v][l] # Unread  BY <1>2, <1>6, AskedIsRead
    <3>3. QED BY <1>2, <1>4, <1>6, <2>2, <3>1, <3>2 DEF Noted, Asked, Blank
  <2>3. CASE pc'[v] \notin {"write", "after"}
    <3>1. outcome'[v] = "error"
      BY <1>2, <1>6, <2>3 DEF WriteAcked, WriteRetried, WriteFailed, Goto, End, TypeInv, TypeOK
    <3>2. QED BY <2>3, <3>1 DEF Noted
  <2>4. QED BY <2>1, <2>2, <2>3
<1>7. QED BY <1>5, <1>6

LEMMA NextNoted == TypeInv /\ NotedInv /\ [Next]_vars => NotedInv'
<1> SUFFICES ASSUME TypeInv, NotedInv, [Next]_vars PROVE NotedInv'  OBVIOUS
<1>1. CASE UNCHANGED vars  BY <1>1 DEF vars, NotedInv, Noted, Asked
<1>2. ASSUME NEW w \in Writers, Browse(w) \/ Step(w) \/ Reply(w) PROVE NotedInv'
  BY <1>2, QuietNoted, WriteNoted DEF Step
<1>3. ASSUME NEW w \in Writers, NEW q \in Requests, NEW conditional \in BOOLEAN,
             Submit(w, q, conditional)
      PROVE  NotedInv'
  <2> SUFFICES ASSUME NEW v \in Writers PROVE Noted(v)'  BY DEF NotedInv
  <2>1. CASE v = w
    BY <1>3, <2>1 DEF Submit, Goto, End, Noted, TypeInv, TypeOK
  <2>2. CASE v # w
    <3>1. /\ regs' = regs /\ pc'[v] = pc[v] /\ want'[v] = want[v] /\ outcome'[v] = outcome[v]
          /\ buf'[v] = buf[v] /\ held'[v] = held[v]
      BY <1>3, <2>2 DEF Submit, Goto, End, Fresh, TypeInv, TypeOK
    <3>2. QED BY <3>1 DEF NotedInv, Noted, Asked
  <2>3. QED BY <2>1, <2>2
<1>4. ASSUME NEW l \in Lanes, NEW x \in Vals, Panel(l, x) PROVE NotedInv'
  <2> SUFFICES ASSUME NEW v \in Writers PROVE Noted(v)'  BY DEF NotedInv
  <2>1. /\ pc' = pc /\ want' = want /\ outcome' = outcome /\ buf' = buf
        /\ \A m \in Lanes : regs'[m] = IF m = l THEN x ELSE regs[m]
    BY <1>4 DEF Panel, TypeInv, TypeOK
  <2>2. /\ held[v] \subseteq held'[v]
        /\ pc[v] \in {"write", "after"} /\ want[v][l] = x => l \in held'[v]
    BY <1>4 DEF Panel
  <2>3. Noted(v)  BY DEF NotedInv
  <2>4. QED BY <2>1, <2>2, <2>3 DEF Noted, Asked
<1>5. QED BY <1>1, <1>2, <1>3, <1>4 DEF Next

\* "ok" is never answered for a value the inverter did not hold: no other writer and no
\* silently ignored write can make the read-back report a setting that never took.
THEOREM OkIsTrue == Spec => []OkMeansTaken
<1>1. Init => NotedInv  BY DEF Init, NotedInv, Noted
<1>2. TypeInv /\ NotedInv => OkMeansTaken
  BY DEF TypeInv, PhaseInv, Phase, NotedInv, Noted, OkMeansTaken
<1>3. QED BY <1>1, <1>2, InitTypeInv, NextTypeInv, NextNoted, PTL DEF Spec

--------------------------------------------------------------------------------
(* Read-modify-write of shared registers.                                  *)

\* The raw map a request is encoded against agrees with the inverter, except on the lanes it
\* writes itself and on those others changed since they were read.
Agrees(w) ==
  pc[w] \in {"raw", "write"} =>
    \A l \in Lanes \ (Asked(w) \union dirty[w]) : buf[w][l] \in {Unread, regs[l]}

AgreeInv == \A w \in Writers : Agrees(w)

LEMMA QuietAgree ==
  ASSUME TypeInv, AgreeInv, NEW w \in Writers,
         Browse(w) \/ ReadBlock(w) \/ ReadFails(w) \/ FinishGet(w) \/ CheckEtag(w)
           \/ RejectEncoded(w) \/ Encode(w) \/ Verify(w) \/ Audit(w) \/ Reply(w)
  PROVE  AgreeInv'
<1> SUFFICES ASSUME NEW v \in Writers PROVE Agrees(v)'  BY DEF AgreeInv
<1> USE DEF TypeInv, TypeOK
<1>1. Agrees(v)  BY DEF AgreeInv
<1>2. CASE v # w
  <2>1. /\ regs' = regs /\ pc'[v] = pc[v] /\ want'[v] = want[v]
        /\ buf'[v] = buf[v] /\ dirty'[v] = dirty[v]
    BY <1>2 DEF Browse, ReadBlock, ReadFails, FinishGet, CheckEtag, RejectEncoded, Encode, Verify,
                Audit, Reply, Fresh, Goto
  <2>2. QED BY <1>1, <2>1 DEF Agrees, Asked
<1>3. CASE v = w
  <2>1. CASE Browse(w) \/ ReadFails(w) \/ FinishGet(w) \/ RejectEncoded(w) \/ Verify(w) \/ Audit(w) \/ Reply(w)
    <3>1. pc'[v] \notin {"raw", "write"}
      BY <1>3, <2>1 DEF Browse, ReadFails, FinishGet, RejectEncoded, Verify, Audit, Reply, Goto
    <3>2. QED BY <3>1 DEF Agrees
  <2>2. CASE CheckEtag(w)  BY <1>3, <2>2 DEF CheckEtag, Fresh, Blank, Agrees
  <2>3. CASE Encode(w)     BY <1>1, <1>3, <2>3 DEF Encode, Goto, Agrees, Asked
  <2>4. CASE ReadBlock(w)
    <3> DEFINE block == {l \in Lanes :
                           BlockOf[l] = Min({BlockOf[k] : k \in {m \in Lanes : buf[w][m] = Unread}})}
    <3>1. /\ buf' = [buf EXCEPT ![w] = [l \in Lanes |-> IF l \in block THEN regs[l] ELSE buf[w][l]]]
          /\ dirty' = [dirty EXCEPT ![w] = dirty[w] \ block]
          /\ pc' = pc /\ regs' = regs /\ want' = want
      BY <2>4 DEF ReadBlock
    <3>a. block \subseteq Lanes  OBVIOUS
    <3> HIDE DEF block
    <3>2. \A l \in Lanes \ block : buf'[w][l] = buf[w][l] /\ (l \in dirty[w] => l \in dirty'[w])
      BY <3>1
    <3>3. \A l \in block : buf'[w][l] = regs[l]  BY <3>1, <3>a
    <3>4. QED BY <1>1, <1>3, <3>1, <3>2, <3>3 DEF Agrees, Asked
  <2>5. QED BY <2>1, <2>2, <2>3, <2>4
<1>4. QED BY <1>2, <1>3

\* A write changes no lane it was not asked to change, if its raw map agrees there.
LEMMA NoCollateral ==
  ASSUME TypeInv, AgreeInv, NEW w \in Writers, WriteAcked(w) \/ WriteRetried(w) \/ WriteFailed(w),
         NEW l \in Lanes \ (Asked(w) \union dirty[w])
  PROVE  regs'[l] = regs[l]
<1>1. pc[w] = "write" /\ SendRun(w)  BY DEF WriteAcked, WriteRetried, WriteFailed
<1>2. want[w][l] = Unasked  BY DEF Asked
<1>3. buf[w][l] = regs[l]
  BY <1>1 DEF TypeInv, PhaseInv, Phase, Complete, AgreeInv, Agrees
<1>4. Encoded(w)[l] = regs[l]  BY <1>2, <1>3 DEF Encoded
<1>5. QED BY <1>1, <1>4 DEF SendRun

LEMMA WriteAgree ==
  ASSUME TypeInv, AgreeInv, NEW w \in Writers, WriteAcked(w) \/ WriteRetried(w) \/ WriteFailed(w)
  PROVE  AgreeInv'
<1> SUFFICES ASSUME NEW v \in Writers, pc'[v] \in {"raw", "write"},
                    NEW l \in Lanes \ (Asked(v) \union dirty'[v])
             PROVE  buf'[v][l] \in {Unread, regs'[l]}
  BY DEF AgreeInv, Agrees, Asked, WriteAcked, WriteRetried, WriteFailed
<1>1. Observed(w)  BY DEF WriteAcked, WriteRetried, WriteFailed
<1>2. CASE v # w
  <2>1. pc'[v] = pc[v] /\ buf'[v] = buf[v]
    BY <1>2 DEF WriteAcked, WriteRetried, WriteFailed, Goto, TypeInv, TypeOK
  <2>2. l \notin dirty[v] /\ regs'[l] = regs[l]
    BY <1>1, <1>2, <2>1 DEF Observed, TypeInv, TypeOK
  <2>3. QED BY <2>1, <2>2 DEF AgreeInv, Agrees
<1>3. CASE v = w
  <2>1. pc[w] = "write" /\ dirty'[w] = dirty[w] /\ buf'[w] \in {Blank, buf[w]}
    BY <1>1 DEF WriteAcked, WriteRetried, WriteFailed, Observed, TypeInv, TypeOK
  <2>2. regs'[l] = regs[l]  BY <1>3, <2>1, NoCollateral
  <2>3. QED BY <1>3, <2>1, <2>2 DEF AgreeInv, Agrees, Blank
<1>4. QED BY <1>2, <1>3

LEMMA NextAgree == TypeInv /\ AgreeInv /\ [Next]_vars => AgreeInv'
<1> SUFFICES ASSUME TypeInv, AgreeInv, [Next]_vars PROVE AgreeInv'  OBVIOUS
<1>1. CASE UNCHANGED vars  BY <1>1 DEF vars, AgreeInv, Agrees, Asked
<1>2. ASSUME NEW w \in Writers, Browse(w) \/ Step(w) \/ Reply(w) PROVE AgreeInv'
  BY <1>2, QuietAgree, WriteAgree DEF Step
<1>3. ASSUME NEW w \in Writers, NEW q \in Requests, NEW conditional \in BOOLEAN,
             Submit(w, q, conditional)
      PROVE  AgreeInv'
  <2> SUFFICES ASSUME NEW v \in Writers PROVE Agrees(v)'  BY DEF AgreeInv
  <2>1. CASE v = w
    BY <1>3, <2>1 DEF Submit, Goto, Agrees, TypeInv, TypeOK
  <2>2. CASE v # w
    <3>1. /\ regs' = regs /\ pc'[v] = pc[v] /\ want'[v] = want[v]
          /\ buf'[v] = buf[v] /\ dirty'[v] = dirty[v]
      BY <1>3, <2>2 DEF Submit, Goto, Fresh, TypeInv, TypeOK
    <3>2. QED BY <3>1 DEF AgreeInv, Agrees, Asked
  <2>3. QED BY <2>1, <2>2
<1>4. ASSUME NEW l \in Lanes, NEW x \in Vals, Panel(l, x) PROVE AgreeInv'
  <2> SUFFICES ASSUME NEW v \in Writers PROVE Agrees(v)'  BY DEF AgreeInv
  <2>1. /\ pc' = pc /\ want' = want /\ buf' = buf
        /\ \A m \in Lanes : m # l => regs'[m] = regs[m]
        /\ pc[v] \in {"raw", "write"} => dirty'[v] = dirty[v] \union {l}
    BY <1>4 DEF Panel, TypeInv, TypeOK
  <2>2. Agrees(v)  BY DEF AgreeInv
  <2>3. QED BY <2>1, <2>2 DEF Agrees, Asked
<1>5. QED BY <1>1, <1>2, <1>3, <1>4 DEF Next

\* A lost update of a neighbouring field needs another actor: a write changes a lane it was
\* not asked to change only where someone else changed it after the raw read.
THEOREM CollateralNeedsRace == Spec => CollateralOnlyIfRaced
<1>1. Init => AgreeInv  BY DEF Init, AgreeInv, Agrees
<1>2. TypeInv /\ AgreeInv =>
        \A w \in Writers :
          WriteAcked(w) \/ WriteRetried(w) \/ WriteFailed(w)
            => \A l \in Lanes \ (Asked(w) \union dirty[w]) : regs'[l] = regs[l]
  BY NoCollateral
<1>3. QED BY <1>1, <1>2, InitTypeInv, NextTypeInv, NextAgree, PTL DEF Spec, CollateralOnlyIfRaced

--------------------------------------------------------------------------------
(* The audit trail.                                                        *)

\* A request writes and changes only registers that it asks for, and is about to be audited with how
\* it ended.
Audited(w) ==
  /\ touched[w] \subseteq AddrsOf(Asked(w))
  /\ pc[w] = "write" => todo[w] \subseteq AddrsOf(Asked(w))
  /\ pc[w] = "audit" /\ touched[w] # {} => outcome[w] \in {"ok", "mismatch", "error"}
  /\ pc[w] = "done" /\ touched[w] # {} =>
       \/ audit[w].result = "lost"
       \/ /\ audit[w].result = outcome[w]
          /\ outcome[w] # "error" => touched[w] \subseteq AddrsOf(audit[w].changes)

AuditInv == \A w \in Writers : Audited(w)

\* What one task does leaves the others' requests and rows as they are.
LEMMA OthersAudited ==
  ASSUME TypeInv, NEW w \in Writers, Browse(w) \/ Step(w) \/ Reply(w), NEW v \in Writers \ {w}, Audited(v)
  PROVE  Audited(v)'
<1> USE DEF TypeInv, TypeOK, Goto, End
<1>1. /\ pc'[v] = pc[v] /\ audit'[v] = audit[v] /\ want'[v] = want[v]
      /\ outcome'[v] = outcome[v] /\ todo'[v] = todo[v]
  BY DEF Browse, Step, ReadBlock, ReadFails, FinishGet, CheckEtag, RejectEncoded, Encode,
         WriteAcked, WriteRetried, WriteFailed, Verify, Audit, Reply
<1>2. touched'[v] = touched[v]
  <2>1. CASE WriteAcked(w) \/ WriteRetried(w) \/ WriteFailed(w)
    BY <2>1, SendTypes DEF WriteAcked, WriteRetried, WriteFailed
  <2>2. CASE ~(WriteAcked(w) \/ WriteRetried(w) \/ WriteFailed(w))
    BY <2>2 DEF Browse, Step, ReadBlock, ReadFails, FinishGet, CheckEtag, RejectEncoded,
                Encode, Verify, Audit, Reply
  <2>3. QED BY <2>1, <2>2
<1>3. Asked(v)' = Asked(v)  BY <1>1 DEF Asked
<1>4. QED BY <1>1, <1>2, <1>3 DEF Audited

\* A write of w: what it changes is part of what it asks for.
LEMMA WriteAudited ==
  ASSUME TypeInv, NEW w \in Writers, WriteAcked(w) \/ WriteRetried(w) \/ WriteFailed(w), Audited(w)
  PROVE  Audited(w)'
<1> USE DEF TypeInv, TypeOK, Goto, End
<1>1. pc[w] = "write" /\ SendRun(w) /\ want' = want  BY DEF WriteAcked, WriteRetried, WriteFailed
<1>2. Asked(w)' = Asked(w) /\ AddrsOf(Asked(w))' = AddrsOf(Asked(w))  BY <1>1 DEF Asked, AddrsOf
<1>3. FirstRun(todo[w]) \subseteq AddrsOf(Asked(w))  BY <1>1, FirstRunSubset DEF Audited
<1>4. touched'[w] \subseteq AddrsOf(Asked(w))
  <2>1. touched'[w] \subseteq touched[w] \union FirstRun(todo[w])  BY <1>1 DEF SendRun
  <2>2. QED BY <1>3, <2>1 DEF Audited
<1>5. todo'[w] \subseteq todo[w]  BY DEF WriteAcked, WriteRetried, WriteFailed
<1>6. pc'[w] \in {"write", "after"} \/ (pc'[w] = "audit" /\ outcome'[w] = "error")
  BY <1>1 DEF WriteAcked, WriteRetried, WriteFailed
<1>7. QED BY <1>1, <1>2, <1>4, <1>5, <1>6 DEF Audited

\* Any other step of w.
LEMMA QuietAudited ==
  ASSUME TypeInv, NEW w \in Writers, Browse(w) \/ Step(w) \/ Reply(w), Audited(w),
         ~(WriteAcked(w) \/ WriteRetried(w) \/ WriteFailed(w))
  PROVE  Audited(w)'
<1> USE DEF TypeInv, TypeOK, Goto, End
<1>1. CASE Reply(w)
  <2>1. touched'[w] = {} /\ pc'[w] \in {"ready", "idle"}  BY <1>1 DEF Reply
  <2>2. QED BY <2>1 DEF Audited
<1>2. CASE ~Reply(w)
  <2>1. want' = want /\ touched' = touched
    BY <1>2 DEF Browse, Step, ReadBlock, ReadFails, FinishGet, CheckEtag, RejectEncoded, Encode, Verify, Audit
  <2>2. AddrsOf(Asked(w))' = AddrsOf(Asked(w))  BY <2>1 DEF Asked, AddrsOf
  <2>3. CASE Audit(w)
    <3>1. pc[w] = "audit" /\ pc'[w] = "done" /\ outcome' = outcome  BY <2>3 DEF Audit
    <3>2. \/ audit'[w].result = "lost"
          \/ outcome[w] \in {"ok", "mismatch"} /\ audit'[w] = [result |-> outcome[w], changes |-> Asked(w)]
          \/ outcome[w] \notin {"ok", "mismatch"} /\ audit'[w].result = "error"
      <4>1. CASE outcome[w] \in {"ok", "mismatch"}  BY <2>3, <4>1 DEF Audit
      <4>2. CASE outcome[w] \notin {"ok", "mismatch"}  BY <2>3, <4>2 DEF Audit
      <4>3. QED BY <4>1, <4>2
    <3>3. touched[w] # {} => outcome[w] \in {"ok", "mismatch", "error"} /\ touched[w] \subseteq AddrsOf(Asked(w))
      BY <3>1 DEF Audited
    <3>4. CASE audit'[w].result = "lost"  BY <2>1, <2>2, <3>1, <3>4 DEF Audited
    <3>5. CASE outcome[w] \in {"ok", "mismatch"} /\ audit'[w] = [result |-> outcome[w], changes |-> Asked(w)]
      <4>1. audit'[w].result = outcome'[w] /\ AddrsOf(audit'[w].changes) = AddrsOf(Asked(w))  BY <3>1, <3>5
      <4>2. (touched[w] \subseteq AddrsOf(audit[w].changes))' <=> touched'[w] \subseteq AddrsOf(audit'[w].changes)
        BY DEF AddrsOf
      <4>3. QED BY <2>1, <2>2, <3>1, <3>3, <4>1, <4>2 DEF Audited
    <3>6. CASE outcome[w] \notin {"ok", "mismatch"} /\ audit'[w].result = "error"
      <4>1. touched'[w] # {} => outcome'[w] = "error"  BY <2>1, <3>1, <3>3, <3>6
      <4>2. touched'[w] \subseteq AddrsOf(Asked(w))'  BY <2>1, <2>2 DEF Audited
      <4>3. QED BY <3>1, <3>6, <4>1, <4>2 DEF Audited
    <3>7. QED BY <3>2, <3>4, <3>5, <3>6
  <2>4. CASE Encode(w)
    <3>1. pc'[w] = "write" /\ todo'[w] = AddrsOf(Asked(w))  BY <2>4 DEF Encode
    <3>2. QED BY <2>1, <2>2, <3>1 DEF Audited
  <2>5. CASE CheckEtag(w) \/ RejectEncoded(w)
    <3>1. pc'[w] # "write" /\ touched[w] = {}  BY <2>5 DEF CheckEtag, RejectEncoded, PhaseInv, Phase
    <3>2. QED BY <2>1, <3>1 DEF Audited
  <2>6. CASE ReadBlock(w)
    BY <2>1, <2>2, <2>6 DEF ReadBlock, Gathering, Audited
  <2>7. CASE Browse(w) \/ ReadFails(w) \/ FinishGet(w) \/ Verify(w)
    <3>1. \/ pc'[w] \in {"get", "idle", "ready"}
          \/ pc'[w] = "audit" /\ outcome'[w] \in {"ok", "mismatch", "error"}
      BY <2>7 DEF Browse, ReadFails, FinishGet, Verify
    <3>2. QED BY <2>1, <2>2, <3>1 DEF Audited
  <2>8. QED BY <1>2, <2>3, <2>4, <2>5, <2>6, <2>7 DEF Step
<1>3. QED BY <1>1, <1>2

LEMMA NextAudited == TypeInv /\ AuditInv /\ [Next]_vars => AuditInv'
<1> SUFFICES ASSUME TypeInv, AuditInv, [Next]_vars PROVE AuditInv'  OBVIOUS
<1>1. CASE UNCHANGED vars  BY <1>1 DEF vars, AuditInv, Audited, Asked, AddrsOf
<1>2. ASSUME NEW w \in Writers, NEW q \in Requests, NEW conditional \in BOOLEAN,
             Submit(w, q, conditional)
      PROVE  AuditInv'
  <2> USE DEF Submit, Goto, End, TypeInv, TypeOK
  <2>1. touched'[w] = {} /\ pc'[w] # "write"  BY <1>2
  <2>2. \A v \in Writers \ {w} :
          /\ pc'[v] = pc[v] /\ touched'[v] = touched[v] /\ audit'[v] = audit[v]
          /\ want'[v] = want[v] /\ outcome'[v] = outcome[v] /\ todo' = todo
    BY <1>2
  <2> SUFFICES ASSUME NEW v \in Writers PROVE Audited(v)'  BY DEF AuditInv
  <2>3. CASE v = w  BY <2>1, <2>3 DEF Audited
  <2>4. CASE v # w  BY <2>2, <2>4 DEF AuditInv, Audited, Asked
  <2>5. QED BY <2>3, <2>4
<1>3. ASSUME NEW l \in Lanes, NEW v \in Vals, Panel(l, v) PROVE AuditInv'
  BY <1>3 DEF Panel, AuditInv, Audited, Asked, AddrsOf
<1>4. ASSUME NEW w \in Writers, Browse(w) \/ Step(w) \/ Reply(w) PROVE AuditInv'
  <2> SUFFICES ASSUME NEW v \in Writers PROVE Audited(v)'  BY DEF AuditInv
  <2>1. CASE v = w  BY <1>4, <2>1, QuietAudited, WriteAudited DEF AuditInv
  <2>2. CASE v # w  BY <1>4, <2>2, OthersAudited DEF AuditInv
  <2>3. QED BY <2>1, <2>2
<1>5. QED BY <1>1, <1>2, <1>3, <1>4 DEF Next

\* A finished request that has changed a register has an audit row with its result, unless the insert
\* of the row failed, and a row that is no error names a field of every register that was changed.
THEOREM ChangesAudited == Spec => []TouchedIsAudited
<1>1. Init => AuditInv  BY DEF Init, AuditInv, Audited
<1>2. AuditInv => TouchedIsAudited  BY DEF AuditInv, Audited, TouchedIsAudited
<1>3. QED BY <1>1, <1>2, InitTypeInv, NextTypeInv, NextAudited, PTL DEF Spec

--------------------------------------------------------------------------------
(* The abstract store.                                                     *)

\* What the store promises holds of one writer at a time, when a register that holds a writable
\* lane holds no other lane the inverter changes itself.
Serial     == \A v, w \in Writers : v = w
PanelAlone == \A l \in PanelLanes, m \in Writable : AddrOf[l] = AddrOf[m] => l = m

\* A lone writer carries out one of the requests, writes the registers it asks for and no
\* other, and is overtaken by nobody but the inverter.
Alone(w) ==
  /\ pc[w] \in {"before", "raw", "write", "after"} => want[w] \in Requests
  /\ pc[w] = "write" => todo[w] \subseteq AddrsOf(Asked(w))
  /\ dirty[w] \subseteq PanelLanes

AloneInv == \A w \in Writers : Alone(w)

LEMMA StepAlone ==
  ASSUME TypeInv, AloneInv, Serial, NEW w \in Writers, Browse(w) \/ Step(w) \/ Reply(w)
  PROVE  AloneInv'
<1> USE DEF TypeInv, TypeOK, Goto, Fresh
<1> SUFFICES Alone(w)'  BY DEF Serial, AloneInv
<1>1. Alone(w)  BY DEF AloneInv
<1>2. CASE Encode(w)
  BY <1>1, <1>2 DEF Encode, Alone, Asked
<1>3. CASE WriteAcked(w) \/ WriteRetried(w) \/ WriteFailed(w)
  <2>1. want' = want /\ pc[w] = "write" /\ pc'[w] \in {"write", "after", "audit"} /\ todo'[w] \subseteq todo[w]
    BY <1>3 DEF WriteAcked, WriteRetried, WriteFailed
  <2>2. dirty'[w] = dirty[w]  BY <1>3 DEF WriteAcked, WriteRetried, WriteFailed, Observed
  <2>3. QED BY <1>1, <2>1, <2>2 DEF Alone, Asked
<1>4. CASE ReadBlock(w)
  BY <1>1, <1>4 DEF ReadBlock, Alone, Asked
<1>5. CASE CheckEtag(w)
  BY <1>1, <1>5 DEF CheckEtag, Alone
<1>6. CASE Browse(w) \/ ReadFails(w) \/ FinishGet(w) \/ RejectEncoded(w) \/ Verify(w) \/ Audit(w)
             \/ Reply(w)
  <2>1. pc'[w] \in {"get", "idle", "ready", "audit", "done"}
    BY <1>6 DEF Browse, ReadFails, FinishGet, RejectEncoded, Verify, Audit, Reply
  <2>2. dirty'[w] \in {{}, dirty[w]}
    BY <1>6 DEF Browse, ReadFails, FinishGet, RejectEncoded, Verify, Audit, Reply
  <2>3. QED BY <1>1, <2>1, <2>2 DEF Alone
<1>7. QED BY <1>2, <1>3, <1>4, <1>5, <1>6 DEF Step

LEMMA NextAlone == Serial /\ TypeInv /\ AloneInv /\ [Next]_vars => AloneInv'
<1> SUFFICES ASSUME Serial, TypeInv, AloneInv, [Next]_vars PROVE AloneInv'  OBVIOUS
<1>1. CASE UNCHANGED vars  BY <1>1 DEF vars, AloneInv, Alone, Asked
<1>2. ASSUME NEW w \in Writers, NEW q \in Requests, NEW conditional \in BOOLEAN,
             Submit(w, q, conditional)
      PROVE  AloneInv'
  <2>1. want'[w] = q /\ dirty'[w] = {} /\ pc'[w] # "write"
    BY <1>2 DEF Submit, Fresh, Goto, TypeInv, TypeOK
  <2>2. QED BY <2>1 DEF Serial, AloneInv, Alone
<1>3. ASSUME NEW l \in Lanes, NEW v \in Vals, Panel(l, v) PROVE AloneInv'
  BY <1>3 DEF Panel, AloneInv, Alone, Asked
<1>4. QED BY <1>1, <1>2, <1>3, StepAlone DEF Next

\* One run written by a lone writer is a step of the store: it gives the asked lanes of that
\* run the asked values and leaves the rest alone.
LEMMA WriteApplies ==
  ASSUME TypeInv, AgreeInv, AloneInv, PanelAlone, NEW w \in Writers,
         WriteAcked(w) \/ WriteRetried(w) \/ WriteFailed(w), regs' # regs
  PROVE  Store!Next
<1> DEFINE L == {l \in Asked(w) : AddrOf[l] \in FirstRun(todo[w])}
<1>1. pc[w] = "write" /\ SendRun(w)  BY DEF WriteAcked, WriteRetried, WriteFailed
<1>2. regs' = [l \in Lanes |-> IF AddrOf[l] \in FirstRun(todo[w]) THEN Encoded(w)[l] ELSE regs[l]]
  BY <1>1 DEF SendRun
<1>3. /\ Valid(want[w]) /\ want[w] \in Requests /\ \A l \in Lanes : want[w][l] # WideValue
  BY <1>1 DEF TypeInv, PhaseInv, Phase, AloneInv, Alone
<1>4. FirstRun(todo[w]) \subseteq AddrsOf(Asked(w))
  BY <1>1, FirstRunSubset DEF AloneInv, Alone
<1>5. L \subseteq Lanes /\ Asked(w) \subseteq Writable  BY <1>3 DEF Valid, Asked
<1>6. \A l \in L : regs'[l] = want[w][l]  BY <1>2, <1>5 DEF Encoded, Asked
<1>7. ASSUME NEW l \in Lanes \ L PROVE regs'[l] = regs[l]
  <2>1. CASE AddrOf[l] \notin FirstRun(todo[w])  BY <1>2, <2>1
  <2>2. CASE AddrOf[l] \in FirstRun(todo[w])
    <3>1. PICK m \in Asked(w) : AddrOf[m] = AddrOf[l]  BY <1>4, <2>2 DEF AddrsOf
    <3>2. l \notin Asked(w)  BY <2>2
    <3>3. l \notin dirty[w]  BY <1>5, <3>1, <3>2 DEF AloneInv, Alone, PanelAlone
    <3>4. QED BY <3>2, <3>3, NoCollateral
  <2>3. QED BY <2>1, <2>2
<1>8. regs' = [l \in Lanes |-> IF l \in L THEN want[w][l] ELSE regs[l]]
  BY <1>2, <1>6, <1>7
<1>9. L # {}  BY <1>8 DEF TypeInv, TypeOK
<1>10. \A l \in L : want[w][l] # Unasked  BY DEF Asked
<1> HIDE DEF L
<1>11. Store!Apply(want[w], L)  BY <1>8, <1>9, <1>10 DEF Store!Apply
<1>12. QED BY <1>3, <1>5, <1>11 DEF Store!Next

LEMMA StepImplements ==
  ASSUME TypeInv, AgreeInv, AloneInv, PanelAlone, [Next]_vars
  PROVE  [Store!Next]_regs
<1>1. CASE UNCHANGED vars  BY <1>1 DEF vars
<1>2. ASSUME NEW w \in Writers, Browse(w) \/ Step(w) \/ Reply(w) PROVE [Store!Next]_regs
  <2>1. CASE WriteAcked(w) \/ WriteRetried(w) \/ WriteFailed(w)  BY <2>1, WriteApplies
  <2>2. CASE ~(WriteAcked(w) \/ WriteRetried(w) \/ WriteFailed(w))
    BY <1>2, <2>2 DEF Browse, Step, ReadBlock, ReadFails, FinishGet, CheckEtag, RejectEncoded,
                      Encode, Verify, Audit, Reply
  <2>3. QED BY <2>1, <2>2
<1>3. ASSUME NEW w \in Writers, NEW q \in Requests, NEW conditional \in BOOLEAN,
             Submit(w, q, conditional)
      PROVE  [Store!Next]_regs
  BY <1>3 DEF Submit
<1>4. ASSUME NEW l \in Lanes, NEW v \in Vals, Panel(l, v) PROVE [Store!Next]_regs
  BY <1>4 DEF Panel, Store!Panel, Store!Next
<1>5. QED BY <1>1, <1>2, <1>3, <1>4 DEF Next

\* The write path implements the abstract store: with one writer at a time, nothing but what
\* valid requests ask for, and what the inverter does itself, ever changes a setting, whatever
\* is retried, torn or refused.
THEOREM ImplementsStore ==
  ASSUME Serial, PanelAlone
  PROVE  Spec => StoreImplemented
<1>1. Init => Store!Init /\ AgreeInv /\ AloneInv
  BY DEF Init, Store!Init, AgreeInv, Agrees, AloneInv, Alone
<1>2. TypeInv /\ AgreeInv /\ AloneInv /\ [Next]_vars => [Store!Next]_regs  BY StepImplements
<1>3. TypeInv /\ AloneInv /\ [Next]_vars => AloneInv'  BY NextAlone
<1>4. QED
  BY <1>1, <1>2, <1>3, InitTypeInv, NextTypeInv, NextAgree, PTL
     DEF Spec, StoreImplemented, Store!Spec
================================================================================
