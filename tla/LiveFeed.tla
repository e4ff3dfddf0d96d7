--------------------------------- MODULE LiveFeed --------------------------------
(***************************************************************************)
(* A WebSocket client of the live view (ws_live in backend/app/main.py)    *)
(* and the queue it has with the poller (poller.py: subscribe, _broadcast, *)
(* unsubscribe).  The queue is bounded; when it is full the newest         *)
(* snapshot is dropped.  Snapshots are numbered in the order of the polls. *)
(***************************************************************************)
EXTENDS Naturals, Sequences

CONSTANTS
  QueueSize,   \* asyncio.Queue(maxsize=8)
  MaxPolls,    \* bound: polls
  Closed

VARIABLES
  polls,     \* number of the latest snapshot
  queue,     \* the client's queue, Closed while it has none
  frame,     \* the snapshot on its way to the client, 0 when none is
  seen,      \* the snapshot the client shows, 0 when none
  dropped    \* history: the latest snapshot did not fit into the queue

\* What the constants must satisfy; instances assume it.
FeedAssumption == {QueueSize, MaxPolls} \subseteq Nat /\ Closed \notin Seq(Nat)

vars == <<polls, queue, frame, seen, dropped>>

Init == polls = 0 /\ queue = Closed /\ frame = 0 /\ seen = 0 /\ dropped = FALSE

\* Mutant: the snapshot is broadcast before the readings are stored.
PollBroadcastsFirst ==
  /\ polls < MaxPolls /\ polls' = polls + 1
  /\ IF queue # Closed /\ Len(queue) < QueueSize
     THEN queue' = Append(queue, polls) /\ dropped' = FALSE
     ELSE queue' = queue /\ dropped' = (queue # Closed)
  /\ UNCHANGED <<frame, seen>>

\* Mutant: the queue has no bound.
PollUnbounded ==
  /\ polls < MaxPolls /\ polls' = polls + 1
  /\ queue' = IF queue = Closed THEN Closed ELSE Append(queue, polls')
  /\ dropped' = FALSE
  /\ UNCHANGED <<frame, seen>>

\* The end of poll_once: the readings are stored, then broadcast.
Poll ==
  /\ polls < MaxPolls /\ polls' = polls + 1
  /\ IF queue # Closed /\ Len(queue) < QueueSize
     THEN queue' = Append(queue, polls') /\ dropped' = FALSE
     ELSE queue' = queue /\ dropped' = (queue # Closed)
  /\ UNCHANGED <<frame, seen>>

\* The client is accepted; after ensure_polled it subscribes and is sent the snapshot.
Connect ==
  /\ queue = Closed /\ polls > 0
  /\ queue' = <<>> /\ frame' = polls /\ dropped' = FALSE
  /\ UNCHANGED <<polls, seen>>

Sent ==
  /\ frame > 0 /\ frame' = 0 /\ seen' = frame
  /\ UNCHANGED <<polls, queue, dropped>>

Take ==
  /\ queue \notin {Closed, <<>>} /\ frame = 0
  /\ frame' = Head(queue) /\ queue' = Tail(queue)
  /\ UNCHANGED <<polls, seen, dropped>>

Disconnect ==
  /\ queue # Closed /\ queue' = Closed
  /\ frame' = 0 /\ seen' = 0 /\ dropped' = FALSE
  /\ UNCHANGED polls

Next == Poll \/ Connect \/ Sent \/ Take \/ Disconnect

Spec == Init /\ [][Next]_vars

--------------------------------------------------------------------------------
TypeOK ==
  /\ polls \in 0 .. MaxPolls /\ dropped \in BOOLEAN
  /\ queue = Closed \/ (queue \in Seq(1 .. MaxPolls) /\ Len(queue) <= QueueSize)
  /\ frame \in 0 .. polls /\ seen \in 0 .. polls

\* A client that has been sent everything there is for it shows the latest snapshot, unless that
\* one was dropped because the client was slow: none slips in between the subscription and the
\* first frame.
ShowsLatest == (queue = <<>> /\ frame = 0) => (seen = polls \/ dropped)
================================================================================
