------------------------------- MODULE GridEvents -------------------------------
(***************************************************************************)
(* Detection of grid outages (backend/app/grid_events.py): a task takes    *)
(* the snapshot, steps a detector for one device after the other, and      *)
(* inserts an event where the grid came or went.  The detector is ahead of *)
(* the table when an insert fails, which also ends the evaluation.         *)
(***************************************************************************)
EXTENDS Functions

CONSTANTS
  Homes,     \* devices
  Reports,   \* the metrics they may have
  None

\* What the metrics of a device say: run_state (None when it is absent or another state) and
\* grid_voltage_v.
Metrics == [run_state : {"on_grid", "off_grid", None}, voltage : {"up", "down", None}]

\* What the constants must satisfy; instances assume it.
GridAssumption ==
  /\ Reports \subseteq Metrics
  /\ None \notin BOOLEAN /\ None \notin [device : Homes, up : BOOLEAN]

VARIABLES
  grid,      \* snapshot: metrics of each device
  known,     \* GridEventDetector._up
  todo,      \* of the devices still to be stepped by evaluate_once: the metrics it found
  event,     \* an event that is being inserted: device and whether the grid is up
  logged,    \* last event of the device in this process: grid up?, or None
  verdict,   \* history: what the last metrics that said anything said
  missed     \* history: devices whose last event could not be inserted

vars == <<grid, known, todo, event, logged, verdict, missed>>

Nothing == [d \in Homes |-> None]

Init ==
  /\ grid \in [Homes -> Reports]
  /\ known = Nothing /\ todo = <<>> /\ event = None
  /\ logged = Nothing /\ verdict = Nothing /\ missed = {}

\* grid_up
GridUp(m) ==
  CASE m.run_state = "on_grid"  -> TRUE
    [] m.run_state = "off_grid" -> FALSE
    [] OTHER -> IF m.voltage = None THEN None ELSE m.voltage = "up"

Changes(d) ==
  /\ \E m \in Reports : grid' = [grid EXCEPT ![d] = m]
  /\ UNCHANGED <<known, todo, event, logged, verdict, missed>>

\* evaluate_once takes the snapshot; the devices come in any order.
Evaluate ==
  /\ todo = <<>> /\ event = None
  /\ todo' = grid
  /\ UNCHANGED <<grid, known, event, logged, verdict, missed>>

\* Mutant: metrics that say nothing count as an outage.
StepUnknownIsDown(d) ==
  /\ d \in DOMAIN todo /\ event = None
  /\ todo' = Restrict(todo, DOMAIN todo \ {d})
  /\ LET up == GridUp(todo[d])
     IN  /\ known' = [known EXCEPT ![d] = (up = TRUE)]
         /\ verdict' = IF up = None THEN verdict ELSE [verdict EXCEPT ![d] = up]
         /\ event' = IF known[d] \in {None, up = TRUE} THEN None ELSE [device |-> d, up |-> up = TRUE]
  /\ UNCHANGED <<grid, logged, missed>>

\* step for the next device.
Step(d) ==
  /\ d \in DOMAIN todo /\ event = None
  /\ todo' = Restrict(todo, DOMAIN todo \ {d})
  /\ LET up == GridUp(todo[d])
     IN  /\ known' = IF up = None THEN known ELSE [known EXCEPT ![d] = up]
         /\ verdict' = IF up = None THEN verdict ELSE [verdict EXCEPT ![d] = up]
         /\ event' = IF up = None \/ known[d] \in {None, up} THEN None ELSE [device |-> d, up |-> up]
  /\ UNCHANGED <<grid, logged, missed>>

Inserted ==
  /\ event # None /\ event' = None
  /\ logged' = [logged EXCEPT ![event.device] = event.up]
  /\ missed' = missed \ {event.device}
  /\ UNCHANGED <<grid, known, todo, verdict>>

\* The insert raises: _run logs it and waits for its next turn.
InsertFails ==
  /\ event # None /\ event' = None
  /\ todo' = <<>>
  /\ missed' = missed \union {event.device}
  /\ UNCHANGED <<grid, known, logged, verdict>>

Restart ==
  /\ known' = Nothing /\ todo' = <<>> /\ event' = None
  /\ logged' = Nothing /\ verdict' = Nothing /\ missed' = {}
  /\ UNCHANGED grid

Next ==
  \/ \E d \in Homes : Changes(d) \/ Step(d)
  \/ Evaluate \/ Inserted \/ InsertFails \/ Restart

Spec == Init /\ [][Next]_vars

--------------------------------------------------------------------------------
TypeOK ==
  /\ grid \in [Homes -> Metrics]
  /\ known \in [Homes -> BOOLEAN \union {None}]
  /\ DOMAIN todo \subseteq Homes /\ Range(todo) \subseteq Metrics
  /\ event \in [device : Homes, up : BOOLEAN] \union {None}
  /\ logged \in [Homes -> BOOLEAN \union {None}]
  /\ verdict \in [Homes -> BOOLEAN \union {None}]
  /\ missed \subseteq Homes

\* The last event of a device is what its metrics last said of the grid, unless the insert of a
\* later one failed: an outage is neither invented when the metrics say nothing, nor lost because
\* an event of another device could not be inserted.
LogFollowsGrid ==
  \A d \in Homes \ missed :
    (logged[d] # None /\ (event = None \/ event.device # d)) => logged[d] = verdict[d]
================================================================================
