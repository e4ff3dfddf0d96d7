-------------------------------- MODULE Transport --------------------------------
(***************************************************************************)
(* A device's connection (devices/modbus_rtu.py, modbus_tcp.py and         *)
(* solarman_v5.py, which share connect, read, write, close and             *)
(* _with_retries).  The poller and the requests of the API use one source  *)
(* without a lock: each of them awaits answers and backoffs, while the     *)
(* source may be closed under it.  Every attempt takes the client the      *)
(* source has at that moment.                                              *)
(*                                                                         *)
(* Times are left out: a backoff lasts until its caller wakes.  Requests   *)
(* and answers belong to pymodbus and pysolarmanv5: an answer, an error    *)
(* response, an exception or fewer registers than asked for.               *)
(***************************************************************************)
EXTENDS Integers, FiniteSets

CONSTANTS
  Callers,     \* poller, API requests
  Attempts,    \* config.retries
  MaxCalls,    \* bound on transactions
  None

VARIABLES
  link,     \* "never", "open", "closing", "closed"; self._client is None in the first and last
  call,     \* [caller -> its transaction]
  outcome,  \* [caller -> how its last one ended]
  stats,    \* self._stats
  wire      \* history: what was sent, sent after the close, tried without a client, and answered

transportVars == <<link, call, outcome, stats, wire>>

\* A transaction: the number of the attempt at hand and whether it awaits an answer or the next one.
Call == [kind : {"read", "write"}, attempt : 1..Attempts, at : {"device", "backoff"}]

TransportAssumption ==
  Attempts \in Nat \ {0} /\ MaxCalls \in Nat /\ IsFiniteSet(Callers) /\ None \notin Call

Outcomes == {None, "ok", "short", "failed", "unconnected"}

TypeOK ==
  /\ link \in {"never", "open", "closing", "closed"}
  /\ call \in [Callers -> Call \union {None}]
  /\ outcome \in [Callers -> Outcomes]
  /\ stats \in [transactions : 0..MaxCalls, failures : 0..MaxCalls, retries : 0..MaxCalls * Attempts]
  /\ wire \in [sent : 0..MaxCalls * Attempts, late : Nat, void : 0..MaxCalls * Attempts,
               answered : 0..MaxCalls]

Init ==
  /\ link = "never"
  /\ call = [c \in Callers |-> None] /\ outcome = [c \in Callers |-> None]
  /\ stats = [transactions |-> 0, failures |-> 0, retries |-> 0]
  /\ wire = [sent |-> 0, late |-> 0, void |-> 0, answered |-> 0]

HasClient == link \in {"open", "closing"}

\* A connection that fails raises, and leaves the source without a client.
Connect ==
  /\ link = "never" /\ link' \in {"never", "open"}
  /\ UNCHANGED <<call, outcome, stats, wire>>

Goes(c, n, to) == call' = [call EXCEPT ![c] = [kind |-> @.kind, attempt |-> n, at |-> to]]

Ends(c, how) == call' = [call EXCEPT ![c] = None] /\ outcome' = [outcome EXCEPT ![c] = how]

\* read_registers and write_registers: without a client nothing is counted.
Begin(c, kind) ==
  /\ call[c] = None /\ stats.transactions < MaxCalls
  /\ IF ~HasClient
     THEN Ends(c, "unconnected") /\ UNCHANGED <<stats, wire>>
     ELSE /\ call' = [call EXCEPT ![c] = [kind |-> kind, attempt |-> 1, at |-> "device"]]
          /\ outcome' = [outcome EXCEPT ![c] = None]
          /\ stats' = [stats EXCEPT !.transactions = @ + 1]
          /\ wire' = [wire EXCEPT !.sent = @ + 1]
  /\ UNCHANGED link

\* What the attempt n of a caller leads to when it fails: a backoff, or the end.
GiveUpOrWait(c, n) ==
  IF n < Attempts
  THEN /\ Goes(c, n, "backoff")
       /\ stats' = [stats EXCEPT !.retries = @ + 1]
       /\ UNCHANGED outcome
  ELSE Ends(c, "failed") /\ stats' = [stats EXCEPT !.failures = @ + 1]

AttemptFails(c) ==
  /\ call[c] # None /\ call[c].at = "device"
  /\ GiveUpOrWait(c, call[c].attempt)
  /\ UNCHANGED <<link, wire>>

\* An answer ends the transaction; one that is short is an error to its caller that no
\* statistic counts, and is not tried again.
Answer(c) ==
  /\ call[c] # None /\ call[c].at = "device"
  /\ \/ Ends(c, "ok")
     \/ call[c].kind = "read" /\ Ends(c, "short")
  /\ wire' = [wire EXCEPT !.answered = @ + 1]
  /\ UNCHANGED <<link, stats>>

\* Mutant: a transaction keeps the client it began with.
WakeKeepsClient(c) ==
  /\ call[c] # None /\ call[c].at = "backoff"
  /\ Goes(c, call[c].attempt + 1, "device")
  /\ wire' = [wire EXCEPT !.sent = @ + 1, !.late = IF HasClient THEN @ ELSE @ + 1]
  /\ UNCHANGED <<link, outcome, stats>>

\* The next attempt; call(None) raises, which is an attempt that failed.
Wake(c) ==
  /\ call[c] # None /\ call[c].at = "backoff"
  /\ IF HasClient
     THEN /\ Goes(c, call[c].attempt + 1, "device")
          /\ wire' = [wire EXCEPT !.sent = @ + 1]
          /\ UNCHANGED <<outcome, stats>>
     ELSE GiveUpOrWait(c, call[c].attempt + 1) /\ wire' = [wire EXCEPT !.void = @ + 1]
  /\ UNCHANGED link

\* close: a Modbus client closes at once, a logger's disconnect is awaited, with the client
\* still in place, and may raise.
Close ==
  /\ link = "open" /\ link' \in {"closing", "closed"}
  /\ UNCHANGED <<call, outcome, stats, wire>>

Disconnected ==
  /\ link = "closing" /\ link' \in {"closed", "open"}
  /\ UNCHANGED <<call, outcome, stats, wire>>

Next ==
  \/ Connect \/ Close \/ Disconnected
  \/ \E c \in Callers :
       \/ \E kind \in {"read", "write"} : Begin(c, kind)
       \/ AttemptFails(c) \/ Answer(c) \/ Wake(c)

Spec == Init /\ [][Next]_transportVars

----------------------------------------------------------------------------
Open    == {c \in Callers : call[c] # None}
Waiting == {c \in Open : call[c].at = "backoff"}

\* Once close has returned, no transaction that is still in its backoffs reaches the device
\* any more; and what the Diagnostics page shows is what happened, however the transactions
\* interleave: every attempt is a transaction's first or a retry, and every transaction is
\* open, answered or a failure.
StatsMatchWire ==
  /\ wire.late = 0
  /\ wire.sent + wire.void = stats.transactions + stats.retries - Cardinality(Waiting)
  /\ stats.transactions = wire.answered + stats.failures + Cardinality(Open)
================================================================================
