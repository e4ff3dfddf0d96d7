--------------------------------- MODULE History --------------------------------
(***************************************************************************)
(* Readings on their way into history: the persistence task               *)
(* (backend/app/persistence.py) stores the poller's latest readings as raw *)
(* samples, rolls raw samples up into buckets and prunes old raw samples   *)
(* (storage/repository.py, aggregator.py).                                 *)
(*                                                                         *)
(* The poller publishes between any two steps of the task, a database job  *)
(* may fail, and a restart loses what is only in memory.  One row stands   *)
(* for all metrics of a reading.  A bucket is the set of the rows it was   *)
(* computed from: count, average, minimum, maximum and last follow from it.*)
(***************************************************************************)
EXTENDS Integers, FiniteSets, FiniteSetsExt

CONSTANTS
  Devices,
  Resolutions,    \* the rollup tables
  Width,          \* resolution -> width of its buckets
  Day,            \* width of the coarsest bucket
  Retention,      \* age at which raw samples are pruned
  MaintainEvery,  \* persist passes per maintenance (aggregate / persist interval)
  MaxGather,      \* bound: how old a reading may be when it is published
  MaxTime,        \* bound: the clock stops here
  MaxReadings,    \* bound: readings stored or on their way
  MaxFaults,      \* bound: failed database jobs and restarts
  Never           \* no reading yet

ASSUME HistoryAssumption ==
  /\ Day \in Nat \ {0} /\ Width \in [Resolutions -> Nat \ {0}]
  /\ \A r \in Resolutions : Day % Width[r] = 0
  /\ Retention \in Nat /\ MaintainEvery \in Nat \ {0}
  /\ MaxGather \in Nat /\ MaxTime \in Nat \ {0} /\ MaxReadings \in Nat /\ MaxFaults \in Nat
  /\ Never \notin Nat

VARIABLES
  now,        \* the host's clock
  latest,     \* Poller._latest: device -> time of its latest reading
  pc,         \* where the persistence task stands
  batch,      \* readings the current persist pass has still to look at
  persisted,  \* _last_persisted_ts
  passes,     \* persist passes since the last maintenance (elapsed)
  samples,    \* table samples
  rollup,     \* resolution -> rows its buckets were computed from
  watermark,  \* meta.rollup_watermark
  faults,     \* failed jobs and restarts so far
  stored,     \* history: every row ever stored
  late,       \* history: rows stored after the watermark had left their day
  silent      \* history: a prune ran when no reading had been rolled up for too long

vars == <<now, latest, pc, batch, persisted, passes, samples, rollup, watermark, faults,
          stored, late, silent>>

loop    == <<pc, batch, persisted, passes>>
tables  == <<samples, rollup, watermark>>
history == <<stored, late, silent>>

Times == 1..MaxTime
Row   == [device : Devices, ts : Times]

\* floor_to
BucketStart(ts, width) == ts - (ts % width)

\* The latest readings the poller holds.
Latest == {s \in Row : latest[s.device] = s.ts}

Init ==
  /\ now = 1
  /\ latest = [d \in Devices |-> Never]
  /\ pc = "sleep" /\ batch = {} /\ passes = 0
  /\ persisted = [d \in Devices |-> Never]
  /\ samples = {} /\ watermark = 0
  /\ rollup = [r \in Resolutions |-> {}]
  /\ faults = 0
  /\ stored = {} /\ late = {} /\ silent = FALSE

Tick ==
  /\ now < MaxTime
  /\ now' = now + 1
  /\ UNCHANGED <<latest, loop, tables, faults, history>>

\* A poll ends: the reading carries the time its gather began, and a slow gather may end
\* after a faster one that began later (ensure_polled next to the poll loop).
Publish(s) ==
  /\ now - MaxGather <= s.ts /\ s.ts <= now
  /\ s \notin Latest \union batch \union stored
  /\ Cardinality(Latest \union batch \union stored) < MaxReadings
  /\ latest' = [latest EXCEPT ![s.device] = s.ts]
  /\ UNCHANGED <<now, loop, tables, faults, history>>

\* persist_once takes the latest readings.
StartPass ==
  /\ pc = "sleep"
  /\ pc' = "persist"
  /\ batch' = Latest
  /\ UNCHANGED <<now, latest, persisted, passes, tables, faults, history>>

\* Skip a reading stored before.
Skip(s) ==
  /\ pc = "persist" /\ s \in batch
  /\ persisted[s.device] = s.ts
  /\ batch' = batch \ {s}
  /\ UNCHANGED <<now, latest, pc, persisted, passes, tables, faults, history>>

\* write_reading, then note the time.
Write(s) ==
  /\ pc = "persist" /\ s \in batch
  /\ persisted[s.device] # s.ts
  /\ batch' = batch \ {s}
  /\ samples' = samples \union {s}
  /\ persisted' = [persisted EXCEPT ![s.device] = s.ts]
  /\ stored' = stored \union {s}
  /\ late' = IF s.ts < BucketStart(watermark, Day) THEN late \union {s} ELSE late
  /\ UNCHANGED <<now, latest, pc, passes, rollup, watermark, faults, silent>>

\* The insert fails: logged; the reading is tried again while it is still the latest.
WriteFails(s) ==
  /\ pc = "persist" /\ s \in batch
  /\ persisted[s.device] # s.ts
  /\ faults < MaxFaults
  /\ faults' = faults + 1
  /\ batch' = batch \ {s}
  /\ UNCHANGED <<now, latest, pc, persisted, passes, tables, history>>

\* Mutants: the elapsed time is not reset; maintenance never comes due.
EndPassKeepsElapsed ==
  /\ pc = "persist" /\ batch = {}
  /\ passes' = passes + 1
  /\ pc' = IF passes + 1 >= MaintainEvery THEN "aggregate" ELSE "sleep"
  /\ UNCHANGED <<now, latest, batch, persisted, tables, faults, history>>

EndPassNeverDue ==
  /\ pc = "persist" /\ batch = {}
  /\ passes' = 0
  /\ pc' = "sleep"
  /\ UNCHANGED <<now, latest, batch, persisted, tables, faults, history>>

\* The pass is over; maintenance is due every MaintainEvery passes.
EndPass ==
  /\ pc = "persist" /\ batch = {}
  /\ IF passes + 1 >= MaintainEvery
     THEN passes' = 0 /\ pc' = "aggregate"
     ELSE passes' = passes + 1 /\ pc' = "sleep"
  /\ UNCHANGED <<now, latest, batch, persisted, tables, faults, history>>

\* Mutant: aggregation resumes at the watermark itself.
RecomputeFromWatermark == watermark

\* Aggregation recomputes every bucket from the day of the watermark on.
RecomputeFrom == BucketStart(watermark, Day)

\* Upsert of the buckets of some rows: a bucket is replaced as a whole.
Upsert(table, rows, width) ==
  LET buckets == {BucketStart(s.ts, width) : s \in rows}
  IN {s \in table : BucketStart(s.ts, width) \notin buckets} \union rows

Aggregate ==
  /\ pc = "aggregate"
  /\ LET rows == {s \in samples : s.ts >= RecomputeFrom}
     IN  /\ rollup' = [r \in Resolutions |-> Upsert(rollup[r], rows, Width[r])]
         /\ watermark' = Max({watermark} \union {s.ts : s \in rows})
  /\ pc' = "prune"
  /\ UNCHANGED <<now, latest, batch, persisted, passes, samples, faults, history>>

\* Raw samples past the retention window are deleted.
Prune ==
  /\ pc = "prune"
  /\ samples' = {s \in samples : s.ts >= now - Retention}
  /\ silent' = (silent \/ now - watermark > Retention - Day)
  /\ pc' = "sleep"
  /\ UNCHANGED <<now, latest, batch, persisted, passes, rollup, watermark, faults, stored, late>>

\* Either maintenance job fails: logged, and the rest of this maintenance is skipped.
MaintainFails ==
  /\ pc \in {"aggregate", "prune"}
  /\ faults < MaxFaults
  /\ faults' = faults + 1
  /\ pc' = "sleep"
  /\ UNCHANGED <<now, latest, batch, persisted, passes, tables, history>>

\* The process stops anywhere and starts again; only the tables survive.
Restart ==
  /\ faults < MaxFaults
  /\ faults' = faults + 1
  /\ latest' = [d \in Devices |-> Never]
  /\ persisted' = [d \in Devices |-> Never]
  /\ pc' = "sleep" /\ batch' = {} /\ passes' = 0
  /\ UNCHANGED <<now, tables, history>>

Loop == \/ StartPass \/ EndPass \/ Aggregate \/ Prune
        \/ \E s \in Row : Skip(s) \/ Write(s)

Next == \/ Tick
        \/ \E s \in Row : Publish(s) \/ WriteFails(s)
        \/ Loop \/ MaintainFails \/ Restart

Spec == Init /\ [][Next]_vars

\* The task sleeps a bounded time and its database jobs return.
FairSpec == Spec /\ WF_vars(Loop)

--------------------------------------------------------------------------------
\* Type invariant of the history path.
TypeOK ==
  /\ now \in Times
  /\ latest \in [Devices -> Times \union {Never}]
  /\ pc \in {"sleep", "persist", "aggregate", "prune"}
  /\ batch \subseteq Row
  /\ persisted \in [Devices -> Times \union {Never}]
  /\ passes \in 0..(MaintainEvery - 1)
  /\ samples \subseteq Row
  /\ rollup \in [Resolutions -> SUBSET Row]
  /\ watermark \in 0..MaxTime
  /\ faults \in 0..MaxFaults
  /\ stored \subseteq Row /\ late \subseteq Row /\ silent \in BOOLEAN

\* persistence.py:87 "the rollups already hold everything before raw is deleted": a row that
\* is no longer in the raw table is in every rollup table, unless it was stored after the
\* watermark had left its day; and charts of different resolutions show the same data.  Both hold
\* unless all devices were silent for the retention less one day.
RawOrRolledUp ==
  ~silent =>
    /\ \A s \in stored \ late : s \in samples \/ \A r \in Resolutions : s \in rollup[r]
    /\ \A q, r \in Resolutions : rollup[q] = rollup[r]

\* The rollups always catch up again with the raw table: no stored row stays out of them for
\* ever, unless it came too late.
CatchesUp ==
  []<>(silent \/ \A r \in Resolutions : stored \ late \subseteq rollup[r])

\* repository.py:404 "rollups are kept": a bucket never loses a row it was computed from.
RollupsAreKept ==
  [][\A r \in Resolutions : rollup[r] \subseteq rollup'[r]]_vars
================================================================================
