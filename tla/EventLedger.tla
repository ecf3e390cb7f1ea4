----------------------------- MODULE EventLedger -----------------------------
(***************************************************************************)
(* The SQLite event ledger (event_log_sqlite.py) and its copy into         *)
(* PostgreSQL (sqlite_to_postgres.py).  Opening a ledger with the old      *)
(* column eve_type rebuilds its table by a rename, a new table and a copy: *)
(* three statements, of which the first two are committed one by one.      *)
(* Other processes open the same file, log events and copy it meanwhile.   *)
(*                                                                         *)
(* An event is the number of its commit; a table is a function from row    *)
(* ids to events.                                                          *)
(***************************************************************************)
EXTENDS Naturals, FiniteSets, FiniteSetsExt, Functions

CONSTANTS
  Opener,      \* processes that open the ledger and log events
  LegacyIds,   \* row ids of a table with the old column, {} for a new file
  LastEvent,   \* bound on the events of a behaviour
  BatchSize    \* rows the migration reads at a time

ASSUME LedgerAssumption ==
  /\ LegacyIds \in SUBSET (1..LastEvent) /\ LastEvent \in Nat
  /\ BatchSize \in Nat \ {0}

VARIABLES
  orderly,   \* the processes take turns and stop between two calls, in this behaviour
  column,    \* the event column of the table events, "none" without a table
  events,    \* its rows
  sequence,  \* the largest id events has had (AUTOINCREMENT)
  backup,    \* the rows of events_legacy_eve_type
  lastEvent, \* the newest event
  pc, opened, \* per opener: progress, and the column it found
  ledger,    \* the rows of PostgreSQL's ledger_events, by legacy_event_id
  copying,   \* progress of the migration
  page, offset, expects, \* rows in hand, OFFSET, and the column it found
  target     \* what was in events when the migration began

fileVars == <<column, events, sequence, backup, lastEvent>>
openVars == <<pc, opened>>
copyVars == <<ledger, copying, page, offset, expects, target>>
vars == <<orderly, fileVars, openVars, copyVars>>

NoRows == [i \in {} |-> 0]

Init ==
  /\ orderly \in BOOLEAN
  /\ column = IF LegacyIds = {} THEN "none" ELSE "eve_type"
  /\ events = [i \in LegacyIds |-> i]
  /\ sequence = Max(LegacyIds \cup {0})
  /\ backup = NoRows
  /\ lastEvent = sequence
  /\ pc = [p \in Opener |-> "down"]
  /\ opened = [p \in Opener |-> "none"]
  /\ ledger = NoRows
  /\ copying = "idle" /\ page = NoRows /\ offset = 0 /\ expects = "none"
  /\ target = {}

Goto(p, label) == pc' = [pc EXCEPT ![p] = label]
-----------------------------------------------------------------------------
\* CREATE TABLE IF NOT EXISTS events
Open(p) ==
  /\ pc[p] = "down" /\ (orderly => \A q \in Opener : pc[q] = "down")
  /\ column' = IF column = "none" THEN "event_type" ELSE column
  /\ sequence' = IF column = "none" THEN 0 ELSE sequence
  /\ Goto(p, "inspect")
  /\ UNCHANGED <<events, backup, lastEvent, opened, copyVars>>

\* PRAGMA table_info(events): the columns, none when the table is away.
Inspect(p) ==
  /\ pc[p] = "inspect"
  /\ IF column = "eve_type" THEN Goto(p, "rename") /\ UNCHANGED opened
     ELSE /\ Goto(p, "up")
          /\ opened' = [opened EXCEPT ![p] =
               IF column = "event_type" THEN "event_type" ELSE "eve_type"]
  /\ UNCHANGED <<fileVars, copyVars>>

\* ALTER TABLE events RENAME TO events_legacy_eve_type
Rename(p) ==
  /\ pc[p] = "rename" /\ column # "none" /\ backup = NoRows
  /\ column' = "none" /\ events' = NoRows /\ sequence' = 0
  /\ backup' = events
  /\ Goto(p, "recreate")
  /\ UNCHANGED <<lastEvent, opened, copyVars>>

\* Mutant: the old table is dropped before it is copied.
RecreateAndDrop(p) ==
  /\ pc[p] = "recreate" /\ column = "none"
  /\ column' = "event_type" /\ sequence' = 0
  /\ backup' = NoRows
  /\ Goto(p, "copy")
  /\ UNCHANGED <<events, lastEvent, opened, copyVars>>

\* Mutant: the opening ends before the old rows are copied.
RecreateIsAll(p) ==
  /\ pc[p] = "recreate" /\ column = "none"
  /\ column' = "event_type" /\ sequence' = 0
  /\ Goto(p, "up")
  /\ opened' = [opened EXCEPT ![p] = "event_type"]
  /\ UNCHANGED <<events, backup, lastEvent, copyVars>>

\* CREATE TABLE events
Recreate(p) ==
  /\ pc[p] = "recreate" /\ column = "none"
  /\ column' = "event_type" /\ sequence' = 0
  /\ Goto(p, "copy")
  /\ UNCHANGED <<events, backup, lastEvent, opened, copyVars>>

\* Mutant: the copy lets the new table number its rows.
CopyRenumbered(p) ==
  /\ pc[p] = "copy"
  /\ events' = [i \in 1..Cardinality(DOMAIN backup) |->
       CHOOSE e \in Range(backup) :
         Cardinality({d \in Range(backup) : d <= e}) = i]
  /\ sequence' = Cardinality(DOMAIN backup)
  /\ Goto(p, "up")
  /\ opened' = [opened EXCEPT ![p] = "event_type"]
  /\ UNCHANGED <<column, backup, lastEvent, copyVars>>

\* INSERT INTO events SELECT ... FROM events_legacy_eve_type, and commit
Copy(p) ==
  /\ pc[p] = "copy" /\ column = "event_type"
  /\ DOMAIN events \cap DOMAIN backup = {}
  /\ events' = [i \in DOMAIN events \cup DOMAIN backup |->
                  IF i \in DOMAIN backup THEN backup[i] ELSE events[i]]
  /\ sequence' = Max(DOMAIN backup \cup {sequence})
  /\ Goto(p, "up")
  /\ opened' = [opened EXCEPT ![p] = "event_type"]
  /\ UNCHANGED <<column, backup, lastEvent, copyVars>>

\* A statement that cannot be executed raises, and the opening fails.
OpenFails(p) ==
  /\ \/ pc[p] = "rename" /\ (column = "none" \/ backup # NoRows)
     \/ pc[p] = "recreate" /\ column # "none"
     \/ pc[p] = "copy" /\ DOMAIN events \cap DOMAIN backup # {}
  /\ Goto(p, "down")
  /\ UNCHANGED <<fileVars, opened, copyVars>>

\* log_event
LogEvent(p) ==
  /\ pc[p] = "up" /\ column = opened[p] /\ lastEvent < LastEvent
  /\ lastEvent' = lastEvent + 1
  /\ sequence' = sequence + 1
  /\ events' = [i \in DOMAIN events \cup {sequence + 1} |->
                  IF i = sequence + 1 THEN lastEvent + 1 ELSE events[i]]
  /\ UNCHANGED <<column, backup, openVars, copyVars>>

\* The process ends, at its will or not.
Stop(p) ==
  /\ pc[p] = "up" \/ (~ orderly /\ pc[p] # "down")
  /\ Goto(p, "down")
  /\ UNCHANGED <<fileVars, opened, copyVars>>
-----------------------------------------------------------------------------
\* migrate_sqlite_ledger_to_postgres, from the detection of the column on
StartCopy ==
  /\ copying = "idle" /\ column # "none"
  /\ copying' = "read"
  /\ expects' = column /\ offset' = 0 /\ page' = NoRows
  /\ target' = Range(events)
  /\ UNCHANGED <<fileVars, openVars, ledger>>

\* Mutant: the newest rows come first.
NewestRows == {i \in DOMAIN events :
  Cardinality({j \in DOMAIN events : j >= i}) \in offset + 1..offset + BatchSize}

\* ORDER BY id ASC LIMIT batch_size OFFSET offset
NextRows == {i \in DOMAIN events :
  Cardinality({j \in DOMAIN events : j <= i}) \in offset + 1..offset + BatchSize}

\* Mutant: one row too many is skipped.
OffsetTooFar(rows) == offset + Cardinality(rows) + 1

OffsetAfter(rows) == offset + Cardinality(rows)

ReadPage ==
  /\ copying = "read" /\ page = NoRows /\ column = expects
  /\ page' = [i \in NextRows |-> events[i]]
  /\ offset' = OffsetAfter(NextRows)
  /\ copying' = IF NextRows = {} THEN "done" ELSE "read"
  /\ UNCHANGED <<fileVars, openVars, ledger, expects, target>>

\* append_event of one row: ON CONFLICT DO NOTHING
CopyRow ==
  /\ copying = "read" /\ page # NoRows
  /\ LET i == Min(DOMAIN page) IN
       /\ ledger' = [j \in DOMAIN ledger \cup {i} |->
                       IF j \in DOMAIN ledger THEN ledger[j] ELSE page[i]]
       /\ page' = Restrict(page, DOMAIN page \ {i})
  /\ UNCHANGED <<fileVars, openVars, copying, offset, expects, target>>

\* The table changed under it, a store fails or the process stops: the
\* migration can be started again.
CopyEnds ==
  /\ copying # "idle"
  /\ copying' = "idle" /\ page' = NoRows /\ offset' = 0 /\ target' = {}
  /\ expects' = "none"
  /\ UNCHANGED <<fileVars, openVars, ledger>>

Next ==
  /\ \/ \E p \in Opener :
          \/ Open(p) \/ Inspect(p) \/ Rename(p) \/ Recreate(p) \/ Copy(p)
          \/ OpenFails(p) \/ LogEvent(p) \/ Stop(p)
     \/ StartCopy \/ ReadPage \/ CopyRow \/ CopyEnds
  /\ UNCHANGED orderly

Spec == Init /\ [][Next]_vars
-----------------------------------------------------------------------------
Events == Range(events)
Committed == LegacyIds \cup (Max(LegacyIds \cup {0}) + 1 .. lastEvent)

Column == {"none", "eve_type", "event_type"}
Progress == {"down", "inspect", "rename", "recreate", "copy", "up"}

TypeOK ==
  /\ orderly \in BOOLEAN
  /\ column \in Column
  /\ \A rows \in {events, backup, ledger, page} :
       DOMAIN rows \subseteq 1..LastEvent /\ Range(rows) \subseteq Committed
  /\ sequence \in 0..LastEvent /\ lastEvent \in 0..LastEvent
  /\ pc \in [Opener -> Progress] /\ opened \in [Opener -> Column]
  /\ copying \in {"idle", "read", "done"}
  /\ offset \in 0..LastEvent
  /\ expects \in Column
  /\ target \subseteq Committed

\* Whoever opens the ledger at once, and wherever it stops, every event stays
\* in one of the tables of the file.
NothingDestroyed == Committed \subseteq Events \cup Range(backup)

\* Inductive, for NothingDestroyed: no id is above the sequence, so that a new
\* row never takes the place of another, and no rows are without a table.
FileInv ==
  /\ lastEvent \in Nat /\ sequence \in 0..lastEvent
  /\ DOMAIN events \subseteq 1..sequence
  /\ events = [i \in DOMAIN events |-> events[i]]
  /\ DOMAIN backup \subseteq 1..lastEvent
  /\ column = "none" => events = NoRows
  /\ pc \in [Opener -> Progress] /\ opened \in [Opener -> Column]
  /\ \A p \in Opener : pc[p] = "up" => opened[p] # "none"
  /\ NothingDestroyed

\* In a ledger that was opened, and that nobody is rebuilding, every event can
\* be read (ADR_STORAGE_HYBRID_RNFE.md:31, "SQLite mantiene compatibilidad
\* legacy del ledger").
EventsAreVisible ==
  /\ \E p \in Opener : pc[p] = "up"
  /\ \A p \in Opener : pc[p] \notin {"recreate", "copy"}
  => Committed \subseteq Events

\* So it is in a ledger whose processes take turns and finish what they open.
VisibleIfOrderly == orderly => EventsAreVisible

\* A row keeps the id under which the migration copied it: it is copied once,
\* before or after its table is rebuilt (":59, idempotente"), if the processes take
\* turns.
CopiedUnderItsId ==
  orderly => \A i \in DOMAIN ledger \cap DOMAIN events : ledger[i] = events[i]

\* A migration that ran to its end has copied all that it found, whatever a process
\* in its turn did to the table meanwhile.
CopyIsComplete == orderly /\ copying = "done" => target \subseteq Range(ledger)

\* Both together: the copy is the ledger's, row by row and as far as it was asked.
CopyIsFaithful == CopiedUnderItsId /\ CopyIsComplete

\* Inductive, for TypeOK: the newest event is no older than the old table's,
\* and the page in hand is a table.
TypesInv ==
  /\ TypeOK /\ FileInv
  /\ Max(LegacyIds \cup {0}) <= lastEvent
  /\ page = [i \in DOMAIN page |-> page[i]]

(***************************************************************************)
(* Inductive, for VisibleIfOrderly, CopyIsFaithful and ImplementsLog: when *)
(* the processes take turns, the rows of the ledger are in the backup      *)
(* while somebody rebuilds the table and in events otherwise; they only    *)
(* grow at their end, and the copy has them up to its offset.              *)
(***************************************************************************)
Rebuilding == \E p \in Opener : pc[p] \in {"recreate", "copy"}
Rows == IF Rebuilding THEN backup ELSE events
Rank(i) == Cardinality({j \in DOMAIN Rows : j <= i})

TakeTurns == \A p, q \in Opener : pc[p] # "down" /\ pc[q] # "down" => p = q

RebuildIsWhole ==
  /\ \A p \in Opener :
       /\ pc[p] = "rename" => column = "eve_type"
       /\ pc[p] = "recreate" => column = "none" /\ events = NoRows
       /\ pc[p] = "copy" => /\ column = "event_type" /\ events = NoRows
                            /\ expects = "event_type" => target = {}
  /\ column = "eve_type" => backup = NoRows
  /\ ~ Rebuilding => Range(backup) \subseteq Range(events)

RowsInOrder == \A i, j \in DOMAIN Rows : i < j => Rows[i] < Rows[j]

CopyIsPrefix ==
  /\ \A part \in {ledger, page} :
       DOMAIN part \subseteq DOMAIN Rows /\ \A i \in DOMAIN part : part[i] = Rows[i]
  /\ \A i \in DOMAIN Rows : Rank(i) <= offset => i \in DOMAIN ledger \cup DOMAIN page
  /\ \A i \in DOMAIN page : Rank(i) <= offset
  /\ offset <= Cardinality(DOMAIN Rows)

CopyIsSound ==
  /\ copying # "idle" => expects # "none"
  /\ expects = "event_type" => column = "event_type"
  /\ target \subseteq Range(Rows)
  /\ copying = "done" => target \subseteq Range(ledger)

OrderlyInv ==
  orderly => TakeTurns /\ RebuildIsWhole /\ RowsInOrder /\ CopyIsPrefix /\ CopyIsSound

\* The ledger of processes that take turns, and its copy, are a growing log and a
\* replica that follows it.
Log == INSTANCE AppendLog WITH
  log <- IF orderly THEN Events \cup Range(backup) ELSE {},
  replica <- IF orderly THEN Range(ledger) ELSE {}
ImplementsLog == Log!Spec
=============================================================================
