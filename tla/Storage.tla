--------------------------------- MODULE Storage ---------------------------------
(***************************************************************************)
(* The database file: opened and migrated at start (storage/db.py,         *)
(* storage/migrations.py), written to, backed up, and replaced by an       *)
(* uploaded backup.  The process may end before any step.                  *)
(*                                                                         *)
(* A migration is a script of statements, each committed on its own; the   *)
(* new version is written after the script, in a transaction that the      *)
(* next script or the end of the migrations commits.  A statement creates  *)
(* a table or an index and fails if that exists.                           *)
(***************************************************************************)
EXTENDS Naturals, Sequences

CONSTANTS
  Scripts,     \* [version -> number of statements of its script], a sequence
  Rows,        \* what is written
  MaxCrashes,  \* bound
  Torn, None   \* a file that is no database; nothing

VARIABLES
  release,    \* the schema version that the running program knows
  phase,      \* see TypeOK
  file,       \* committed content: [version, made, rows], or Torn
  version,    \* as the connection sees it, committed or not
  done,       \* statements of the current script that this run has executed
  restoring,  \* the uploaded content while it is put in place
  backup,     \* a backup the user has downloaded
  expected,   \* history: the rows that were acknowledged, or restored
  hit,        \* history: the process ended, or a write failed, where it hurts
  crashes

storageVars == <<release, phase, file, version, done, restoring, backup, expected, hit, crashes>>

Releases == 1 .. Len(Scripts)
Fresh    == [version |-> 0, made |-> {}, rows |-> {}]   \* also of a file of no bytes

Steps == UNION {{v} \X (1..Scripts[v]) : v \in Releases}   \* the statements of all scripts

Contents == [version : {0} \union Releases, made : SUBSET Steps, rows : SUBSET Rows]

StorageAssumption ==
  /\ Scripts \in Seq(Nat \ {0}) /\ Scripts # <<>> /\ MaxCrashes \in Nat
  /\ Torn \notin Contents /\ None \notin Contents

TypeOK ==
  /\ release \in Releases
  /\ phase \in {"down", "migrating", "serving",    \* of the process
                "closed", "truncated", "swapped",  \* of a restore
                "dead",                            \* serving without a connection
                "failed"}                          \* the start has failed
  /\ file \in Contents \union {Torn}
  /\ version \in {0} \union Releases
  /\ done \in Nat
  /\ restoring \in Contents \union {None} /\ backup \in Contents \union {None}
  /\ expected \subseteq Rows /\ hit \in BOOLEAN /\ crashes \in 0..MaxCrashes

Init ==
  /\ release \in Releases /\ phase = "down" /\ file = Fresh /\ version = 0 /\ done = 0
  /\ restoring = None /\ backup = None /\ expected = {} /\ hit = FALSE /\ crashes = 0

----------------------------------------------------------------------------
(* Opening and migrating.                                                  *)

\* AsyncDb.open, of the release that is now installed: connect refuses what is no database.
Boot ==
  /\ phase \in {"down", "failed"}
  /\ release' \in Releases
  /\ IF file = Torn
     THEN phase' = "failed" /\ UNCHANGED version
     ELSE phase' = "migrating" /\ version' = file.version
  /\ UNCHANGED <<file, done, restoring, backup, expected, hit, crashes>>

Unapplied == phase = "migrating" /\ version < release
Current   == <<version + 1, done + 1>>
Abort     == phase' = IF restoring = None THEN "failed" ELSE "dead"

\* executescript commits what is open, the previous version, and then each statement.
Statement ==
  /\ Unapplied /\ done < Scripts[version + 1]
  /\ IF Current \in file.made
     THEN /\ Abort /\ done' = 0
          /\ file' = [file EXCEPT !.version = version]
     ELSE /\ done' = done + 1 /\ UNCHANGED phase
          /\ file' = [file EXCEPT !.version = version, !.made = @ \union {Current}]
  /\ UNCHANGED <<release, version, restoring, backup, expected, hit, crashes>>

\* UPDATE schema_version
ScriptDone ==
  /\ Unapplied /\ done = Scripts[version + 1]
  /\ version' = version + 1 /\ done' = 0
  /\ UNCHANGED <<release, phase, file, restoring, backup, expected, hit, crashes>>

Migrated == phase' = IF restoring = None THEN "serving" ELSE "swapped"

\* Mutant: the end of run_migrations does not commit.
CommitForgotten ==
  /\ phase = "migrating" /\ version >= release
  /\ Migrated
  /\ UNCHANGED <<release, file, version, done, restoring, backup, expected, hit, crashes>>

\* The commit at the end of run_migrations.
Commit ==
  /\ phase = "migrating" /\ version >= release
  /\ file' = [file EXCEPT !.version = version]
  /\ Migrated
  /\ UNCHANGED <<release, version, done, restoring, backup, expected, hit, crashes>>

----------------------------------------------------------------------------
(* Serving.  Jobs run one after the other on the thread of the database.   *)

Write ==
  /\ phase = "serving"
  /\ \E r \in Rows \ expected :
       /\ file' = [file EXCEPT !.rows = @ \union {r}]
       /\ expected' = expected \union {r}
  /\ UNCHANGED <<release, phase, version, done, restoring, backup, hit, crashes>>

\* backup_bytes: VACUUM INTO takes a consistent copy.
Backup ==
  /\ phase = "serving"
  /\ backup' = file
  /\ UNCHANGED <<release, phase, file, version, done, restoring, expected, hit, crashes>>

\* A valid upload; the connection is closed, and no other is there until the end.
StartRestore ==
  /\ phase = "serving" /\ backup # None
  /\ phase' = "closed" /\ restoring' = backup
  /\ UNCHANGED <<release, file, version, done, backup, expected, hit, crashes>>

\* open(path, "wb")
Truncate ==
  /\ phase = "closed"
  /\ phase' = "truncated" /\ file' = Fresh
  /\ UNCHANGED <<release, version, done, restoring, backup, expected, hit, crashes>>

Replace ==
  /\ phase = "truncated"
  /\ file' = restoring /\ expected' = restoring.rows
  /\ phase' = "migrating" /\ version' = restoring.version
  /\ UNCHANGED <<release, done, restoring, backup, hit, crashes>>

\* The disk is full: the file stays as it is, and the connection closed.
ReplaceFails ==
  /\ phase = "truncated"
  /\ file' \in {Fresh, Torn} /\ hit' = TRUE
  /\ phase' = "dead" /\ restoring' = None
  /\ UNCHANGED <<release, version, done, backup, expected, crashes>>

\* Back in the event loop the new connection is assigned.  A job that the thread takes before that
\* finds the old connection, which is closed, and fails.
Assign ==
  /\ phase = "swapped"
  /\ phase' = "serving" /\ restoring' = None
  /\ UNCHANGED <<release, file, version, done, backup, expected, hit, crashes>>

\* The end of the process.  What is not committed is gone; a file that is being written is left
\* with none, some or all of its bytes.
Halfway == phase = "truncated" \/ \E s \in file.made : s[1] > file.version

Crash ==
  /\ phase \notin {"down", "failed"} /\ crashes < MaxCrashes
  /\ crashes' = crashes + 1
  /\ hit' = (hit \/ (file # Torn /\ Halfway))
  /\ file' \in IF phase = "truncated" THEN {Fresh, Torn, restoring} ELSE {file}
  /\ phase' = "down" /\ restoring' = None /\ done' = 0
  /\ UNCHANGED <<release, version, backup, expected>>

Next ==
  \/ Boot \/ Statement \/ ScriptDone \/ Commit
  \/ Write \/ Backup
  \/ StartRestore \/ Truncate \/ Replace \/ ReplaceFails \/ Assign
  \/ Crash

Spec == Init /\ [][Next]_storageVars
----------------------------------------------------------------------------
\* The program starts again after it has ended anywhere, and has all rows that were acknowledged
\* or those of the backup that was restored, whatever releases follow each other; unless it ended
\* between a statement of a migration and the commit of its version, or while a backup was being
\* written over the database.
SurvivesRestart ==
  hit \/ /\ phase \notin {"failed", "dead"}
         /\ phase = "serving" => file.rows = expected /\ file.version >= release
================================================================================
