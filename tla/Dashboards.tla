------------------------------- MODULE Dashboards -------------------------------
(***************************************************************************)
(* The dashboards (dashboards.py), one row of app_config each.  The        *)
(* builtins are seeded into the database by every start, row by row before *)
(* anything is served; from then on the rows are what is shown, and the    *)
(* seed is what a builtin is reset to.  A new release brings new seeds and *)
(* new builtins; a restored backup may be older than both.                 *)
(*                                                                         *)
(* Every request is one job of the database.  A layout stands for all that *)
(* _validate lets through.                                                 *)
(***************************************************************************)
EXTENDS Integers, Sequences, SequencesExt

CONSTANTS
  Ids,
  Builtins,    \* of a release: the ids of its builtins, in their order
  Layouts,     \* what users make
  MaxEdits, MaxStarts,   \* bounds
  None

VARIABLES
  rows,      \* [id -> the stored dashboard]
  running, unseeded,     \* the process serves; the builtins that start has yet to look at
  release, saved,        \* the program; the backup
  edited,    \* history: [id -> the layout of the last edit that has not been undone]
  edits, starts

dashboardVars == <<rows, running, unseeded, release, saved, edited, edits, starts>>

Releases == DOMAIN Builtins

\* The code's own layout of a builtin.
SeedOf(r)  == [layout |-> <<"seed", r>>, builtin |-> TRUE]
Seeds      == {SeedOf(r) : r \in Releases}
Made       == [layout : Layouts, builtin : BOOLEAN]
Contents   == [Ids -> Made \union Seeds \union {None}]
Edits      == [Ids -> Layouts \union {None}]

DashboardAssumption ==
  /\ Builtins \in Seq(Seq(Ids)) /\ Builtins # <<>> /\ {MaxEdits, MaxStarts} \subseteq Nat
  /\ \A r, q \in Releases : r <= q => ToSet(Builtins[r]) \subseteq ToSet(Builtins[q])
  /\ None \notin Layouts \union Made \union Seeds

IsBuiltin(id) == id \in ToSet(Builtins[release])

TypeOK ==
  /\ rows \in Contents /\ running \in BOOLEAN /\ release \in Releases
  /\ unseeded \in Seq(Ids)
  /\ edited \in Edits
  /\ saved # None => saved.rows \in Contents /\ saved.edited \in Edits
  /\ edits \in 0..MaxEdits /\ starts \in 0..MaxStarts

Init ==
  /\ rows = [id \in Ids |-> None] /\ running = FALSE /\ unseeded = <<>>
  /\ release = 1 /\ saved = None
  /\ edited = [id \in Ids |-> None] /\ edits = 0 /\ starts = 0

\* The process starts, maybe as the next release, and goes through its builtins.
Start ==
  /\ ~running /\ unseeded = <<>> /\ starts < MaxStarts
  /\ release' \in Releases \intersect {release, release + 1}
  /\ unseeded' = Builtins[release'] /\ starts' = starts + 1
  /\ UNCHANGED <<rows, running, saved, edited, edits>>

\* Mutant: a row that is there is seeded as well.
SeedBuiltinAlways ==
  /\ unseeded # <<>> /\ unseeded' = Tail(unseeded)
  /\ rows' = [rows EXCEPT ![Head(unseeded)] = SeedOf(release)]
  /\ running' = (unseeded' = <<>>)
  /\ UNCHANGED <<release, saved, edited, edits, starts>>

\* seed_builtins: a row that is there stays, also one a user made under an id that has become a
\* builtin's.
SeedBuiltin ==
  /\ unseeded # <<>> /\ unseeded' = Tail(unseeded)
  /\ rows' = [rows EXCEPT ![Head(unseeded)] = IF @ = None THEN SeedOf(release) ELSE @]
  /\ running' = (unseeded' = <<>>)
  /\ UNCHANGED <<release, saved, edited, edits, starts>>

\* The process ends, while it serves or while it starts.
Stop ==
  /\ running \/ unseeded # <<>>
  /\ running' = FALSE /\ unseeded' = <<>>
  /\ UNCHANGED <<rows, release, saved, edited, edits, starts>>

Edit == running /\ edits < MaxEdits /\ edits' = edits + 1

Put(id, layout) ==
  /\ Edit
  /\ rows' = [rows EXCEPT ![id] = [layout |-> layout, builtin |-> IsBuiltin(id)]]
  /\ edited' = [edited EXCEPT ![id] = layout]
  /\ UNCHANGED <<running, unseeded, release, saved, starts>>

\* A builtin is reset; any other is removed, if it is there.
Delete(id) ==
  /\ Edit
  /\ rows' = [rows EXCEPT ![id] = IF IsBuiltin(id) THEN SeedOf(release) ELSE None]
  /\ edited' = [edited EXCEPT ![id] = None]
  /\ UNCHANGED <<running, unseeded, release, saved, starts>>

Backup ==
  /\ running /\ saved' = [rows |-> rows, edited |-> edited]
  /\ UNCHANGED <<rows, running, unseeded, release, edited, edits, starts>>

\* The backup takes the place of the database; nothing is seeded until the next start.
Restore ==
  /\ Edit /\ saved # None
  /\ rows' = saved.rows /\ edited' = saved.edited
  /\ UNCHANGED <<running, unseeded, release, saved, starts>>

Next ==
  \/ Start \/ SeedBuiltin \/ Stop \/ Backup \/ Restore
  \/ \E id \in Ids : Delete(id) \/ \E layout \in Layouts : Put(id, layout)

Spec == Init /\ [][Next]_dashboardVars

----------------------------------------------------------------------------
(* What is shown.                                                          *)

AsBuiltin(row) == [row EXCEPT !.builtin = TRUE]

\* get: a builtin without a row is the seed, and a builtin whatever its row says.
Shown(id) ==
  IF rows[id] = None THEN IF IsBuiltin(id) THEN SeedOf(release) ELSE None
  ELSE IF IsBuiltin(id) THEN AsBuiltin(rows[id]) ELSE rows[id]

\* list: the builtins in their order, and the other rows.
ListedBuiltins ==
  [i \in DOMAIN Builtins[release] |->
    LET row == rows[Builtins[release][i]]
    IN  IF row = None THEN SeedOf(release) ELSE AsBuiltin(row)]
ListedUsers == {id \in Ids : rows[id] # None /\ ~IsBuiltin(id)}

\* Whatever was restored, upgraded, reset or cut off: while the process serves, every builtin is
\* there and marked as one, the list shows what each dashboard shows on its own, a user's edit is
\* shown until it is undone, and without an edit there is a builtin's seed, or nothing.
EditsKeptAndBuiltinsShown ==
  running =>
    /\ \A i \in DOMAIN ListedBuiltins :
         /\ ListedBuiltins[i] = Shown(Builtins[release][i]) /\ ListedBuiltins[i].builtin
    /\ ListedUsers = {id \in Ids : ~IsBuiltin(id) /\ Shown(id) # None}
    /\ \A id \in Ids :
         IF edited[id] # None THEN Shown(id) # None /\ Shown(id).layout = edited[id]
         ELSE IF IsBuiltin(id) THEN Shown(id) \in Seeds ELSE Shown(id) = None
================================================================================
