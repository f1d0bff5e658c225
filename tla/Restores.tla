------------------------------ MODULE Restores ------------------------------
(* Backup and restore of the core client (core/src/backup.ts): exportReplica     *)
(* writes a dump table by table, and restoreReplica validates a dump, writes a   *)
(* recovery dump of the replica and replaces the replica in one transaction that *)
(* reads the dump a second time; sync rounds and a changing file come between.   *)
(*                                                                               *)
(* A table has one row, given by its revision, and one schema-log entry.  A dump *)
(* is the sequence of its statements.  A sync round (CoreSync has its steps) is  *)
(* one step here: the host keeps a round from spanning the replacement.          *)
EXTENDS Integers, Sequences, FiniteSets

CONSTANTS
  BackupTables,    \* the tables, numbered in the order of their names
  MaxStampRev,     \* bound on revisions
  MaskedLogs       \* may the schema log change to one the last exchange seems to cover?

ASSUME RestoreConstants == /\ IsFiniteSet(BackupTables) /\ BackupTables = 1 .. Cardinality(BackupTables)
                           /\ MaxStampRev \in Nat /\ MaskedLogs \in BOOLEAN

Revs == 0 .. MaxStampRev           \* 0: no row

VARIABLES
  here,        \* the replica: [log, rows]
  there,       \* the hub, likewise
  exchange,    \* sizes of both schema logs at the last schema exchange
  unpulled,    \* tables with arrivals the pull cursors do not cover
  unpushed,    \* tables with a row the push cursors do not cover
  settled,     \* nothing changed since the last sync round
  chosen,      \* the dump the user picked
  recovery,    \* the recovery file
  phase,       \* of a restore
  left,        \* tables its recovery dump has yet to hold
  expected,    \* what the first reading of the dump found
  undo         \* the replica the last restore replaced, while its recovery file lasts

restoreVars == <<here, there, exchange, unpulled, unpushed, settled, chosen,
                 recovery, phase, left, expected, undo>>

Replica == [log : SUBSET BackupTables, rows : [BackupTables -> Revs]]
NoRevs == [t \in BackupTables |-> 0]
NoUndo == [kept |-> FALSE, was |-> [log |-> {}, rows |-> NoRevs]]
EmptyReplica == [log |-> {}, rows |-> NoRevs]

Max2(a, b) == IF a > b THEN a ELSE b

(***************************************************************************)
(* Dumps                                                                   *)
(***************************************************************************)
Statement == [kind : {"begin", "commit", "log", "entry", "table", "row"},
              t : BackupTables \cup {0}, rev : Revs]
Say(kind, t, rev) == [kind |-> kind, t |-> t, rev |-> rev]
Plain(kind) == Say(kind, 0, 0)

\* One part after the other, by the names of their tables.
ByName(part) ==
  LET upTo[n \in 0 .. Cardinality(BackupTables)] ==
        IF n = 0 THEN <<>> ELSE upTo[n - 1] \o part[n]
  IN  upTo[Cardinality(BackupTables)]

EntryPart(t) == <<Say("entry", t, 0)>>
TablePart(t, rev) ==
  <<Say("table", t, 0)>> \o IF rev = 0 THEN <<>> ELSE <<Say("row", t, rev)>>
LogPart(log) ==
  <<Plain("log")>> \o ByName([t \in BackupTables |-> IF t \in log THEN EntryPart(t) ELSE <<>>])
TableParts(replica) ==
  ByName([t \in BackupTables |->
            IF t \in replica.log THEN TablePart(t, replica.rows[t]) ELSE <<>>])

\* What exportReplica writes, and what the hub's own export writes.
Dump(replica) ==
  <<Plain("begin")>> \o LogPart(replica.log) \o TableParts(replica) \o <<Plain("commit")>>
HubDump == LogPart(there.log) \o TableParts(there)

\* readDump, one statement after the other.
Opening == [ok |-> TRUE, began |-> FALSE, committed |-> FALSE, logged |-> FALSE,
          log |-> {}, tables |-> {}, rows |-> NoRevs]

Accepts(s, said) ==
  /\ s.ok /\ ~s.committed
  /\ CASE said.kind = "begin"  -> ~s.began /\ s.tables = {} /\ ~s.logged
       [] said.kind = "commit" -> s.began
       [] said.kind = "log"    -> ~s.logged
       [] said.kind = "entry"  -> s.logged
       [] said.kind = "table"  -> said.t \notin s.tables
       [] said.kind = "row"    -> said.t \in s.tables

AfterReading(s, said) ==
  IF ~Accepts(s, said) THEN [s EXCEPT !.ok = FALSE]
  ELSE CASE said.kind = "begin"  -> [s EXCEPT !.began = TRUE]
         [] said.kind = "commit" -> [s EXCEPT !.committed = TRUE]
         [] said.kind = "log"    -> [s EXCEPT !.logged = TRUE]
         [] said.kind = "entry"  -> [s EXCEPT !.log = s.log \cup {said.t}]
         [] said.kind = "table"  -> [s EXCEPT !.tables = s.tables \cup {said.t}]
         [] said.kind = "row"    -> [s EXCEPT !.rows[said.t] = said.rev]

ReadDump(dump) ==
  LET read[n \in 0 .. Len(dump)] ==
        IF n = 0 THEN Opening ELSE AfterReading(read[n - 1], dump[n])
  IN read[Len(dump)]

\* The whole dump was read and it is complete.
Complete(dump) ==
  LET s == ReadDump(dump) IN
  dump # <<>> /\ s.ok /\ s.logged /\ (s.began => s.committed)

Held(dump) == LET s == ReadDump(dump) IN [log |-> s.log, rows |-> s.rows]

RestoreTypeOK ==
  /\ here \in Replica /\ there \in Replica
  /\ exchange \in (0 .. Cardinality(BackupTables)) \X (0 .. Cardinality(BackupTables))
  /\ unpulled \subseteq BackupTables /\ unpushed \subseteq BackupTables
  /\ chosen \in Seq(Statement) /\ recovery \in Seq(Statement)
  /\ phase \in {"idle", "exporting", "replacing"} /\ left \subseteq BackupTables
  /\ expected \in Replica
  /\ undo.kept \in BOOLEAN /\ undo.was \in Replica
  /\ settled \in BOOLEAN

RestoreInit ==
  /\ here = EmptyReplica /\ there = EmptyReplica /\ exchange = <<0, 0>>
  /\ unpulled = {} /\ unpushed = {} /\ settled = FALSE
  /\ chosen = <<>> /\ recovery = <<>>
  /\ phase = "idle" /\ left = {} /\ expected = EmptyReplica
  /\ undo = NoUndo

(***************************************************************************)
(* Edits and sync rounds                                                   *)
(***************************************************************************)
NewestRev == CHOOSE n \in Revs :
  /\ \A t \in BackupTables : here.rows[t] <= n /\ there.rows[t] <= n
  /\ \E t \in BackupTables : n \in {here.rows[t], there.rows[t]}

Sizes(log, hub) == <<Cardinality(hub), Cardinality(log)>>

\* A restore keeps the marks of the last schema exchange, which are sizes: another
\* log of the same size looks exchanged.  MaskedLogs = FALSE leaves those out.
Unmasked(log) == MaskedLogs \/ exchange # Sizes(log, there.log) \/ log = there.log

\* The write session and a restore wait for each other (replaceAll).
LocalEdit(t) ==
  /\ phase = "idle" /\ t \in here.log /\ NewestRev < MaxStampRev
  /\ here' = [here EXCEPT !.rows[t] = NewestRev + 1]
  /\ unpushed' = unpushed \cup {t} /\ settled' = FALSE
  /\ UNCHANGED <<there, exchange, unpulled, chosen, recovery, phase, left, expected, undo>>

LocalTable(t) ==
  /\ phase = "idle" /\ t \notin here.log /\ Unmasked(here.log \cup {t})
  /\ here' = [here EXCEPT !.log = @ \cup {t}] /\ settled' = FALSE
  /\ UNCHANGED <<there, exchange, unpulled, unpushed, chosen, recovery, phase, left, expected, undo>>

HubEdit(t) ==
  /\ t \in there.log /\ NewestRev < MaxStampRev
  /\ there' = [there EXCEPT !.rows[t] = NewestRev + 1]
  /\ unpulled' = unpulled \cup {t} /\ settled' = FALSE
  /\ UNCHANGED <<here, exchange, unpushed, chosen, recovery, phase, left, expected, undo>>

HubTable(t) ==
  /\ t \notin there.log
  /\ there' = [there EXCEPT !.log = @ \cup {t}] /\ settled' = FALSE
  /\ UNCHANGED <<here, exchange, unpulled, unpushed, chosen, recovery, phase, left, expected, undo>>

\* A round: the schema logs unless both are as the last exchange left them, then
\* each table's rows, the newer revision on either side.
SyncRound ==
  LET logs == IF exchange = Sizes(here.log, there.log) THEN [here |-> here.log, there |-> there.log]
              ELSE [here |-> here.log \cup there.log, there |-> here.log \cup there.log]
      new == logs.here \ here.log
      pulled == [t \in BackupTables |->
                   IF t \in logs.here /\ t \in unpulled \cup new
                     THEN Max2(here.rows[t], there.rows[t]) ELSE here.rows[t]]
  IN
  /\ logs.here \subseteq logs.there
  /\ here' = [log |-> logs.here, rows |-> pulled]
  /\ there' = [log |-> logs.there,
               rows |-> [t \in BackupTables |->
                           IF t \in unpushed THEN Max2(here.rows[t], there.rows[t])
                           ELSE there.rows[t]]]
  /\ exchange' = Sizes(here'.log, there'.log)
  /\ unpulled' = unpulled \ logs.here /\ unpushed' = unpushed \ logs.here
  /\ settled' = TRUE
  /\ UNCHANGED <<chosen, recovery, phase, left, expected, undo>>

(***************************************************************************)
(* Files                                                                   *)
(***************************************************************************)
\* The user exports the replica, downloads a hub backup, picks the recovery file
\* or a dump cut short; the file may change under a running restore (it is
\* not read while the recovery dump is written).
PickFile ==
  /\ phase # "exporting"
  /\ \/ chosen' = Dump(here)
     \/ chosen' = HubDump
     \/ chosen' = recovery
     \/ chosen' = SubSeq(Dump(here), 1, Len(Dump(here)) - 1)
  /\ UNCHANGED <<here, there, exchange, unpulled, unpushed, settled, recovery, phase,
                 left, expected, undo>>

(***************************************************************************)
(* A restore                                                               *)
(***************************************************************************)
\* The dump is valid, and the recovery file is begun with the schema log.
BeginRestore ==
  /\ phase = "idle" /\ Complete(chosen)
  /\ phase' = "exporting" /\ expected' = Held(chosen)
  /\ left' = here.log
  /\ recovery' = <<Plain("begin")>> \o LogPart(here.log)
  /\ undo' = NoUndo
  /\ UNCHANGED <<here, there, exchange, unpulled, unpushed, settled, chosen>>

\* A page of the export: one table as it is now, or the end of the dump.
Export ==
  /\ phase = "exporting"
  /\ IF left = {}
       THEN phase' = "replacing" /\ recovery' = Append(recovery, Plain("commit"))
            /\ UNCHANGED left
       ELSE LET t == CHOOSE t \in left : \A other \in left : t <= other IN
            /\ recovery' = recovery \o TablePart(t, here.rows[t])
            /\ left' = left \ {t} /\ UNCHANGED phase
  /\ UNCHANGED <<here, there, exchange, unpulled, unpushed, settled, chosen, expected, undo>>

\* Sync cursors a replacement leaves.
\* Mutant: they stay.
MutCursors(kept) == kept
Cursors(kept) == BackupTables

\* The transaction: everything is dropped, rebuilt from a second reading and, when
\* that found what the first did, kept without any of the cursors.
Replace ==
  /\ phase = "replacing" /\ Unmasked(expected.log)
  /\ phase' = "idle"
  /\ IF Complete(chosen) /\ Held(chosen) = expected
       THEN /\ here' = expected
            /\ unpulled' = Cursors(unpulled) /\ unpushed' = Cursors(unpushed)
            /\ undo' = [kept |-> TRUE, was |-> here]
            /\ settled' = FALSE
       ELSE UNCHANGED <<here, unpulled, unpushed, undo, settled>>
  /\ chosen' = <<>> /\ expected' = EmptyReplica
  /\ UNCHANGED <<there, exchange, recovery, left>>

\* The restore fails or the program ends: the transaction, if any, is rolled back.
Interrupted ==
  /\ phase # "idle" /\ phase' = "idle"
  /\ chosen' = <<>> /\ expected' = EmptyReplica /\ left' = {}
  /\ UNCHANGED <<here, there, exchange, unpulled, unpushed, settled, recovery, undo>>

RestoreNext ==
  \/ \E t \in BackupTables : LocalEdit(t) \/ LocalTable(t) \/ HubEdit(t) \/ HubTable(t)
  \/ SyncRound \/ PickFile \/ BeginRestore \/ Export \/ Replace \/ Interrupted

RestoreSpec == RestoreInit /\ [][RestoreNext]_restoreVars

(***************************************************************************)
(* What it promises                                                        *)
(***************************************************************************)
\* What a restore replaced is in its recovery file or on the hub.
Recoverable ==
  undo.kept =>
    LET held == Held(recovery) IN
    /\ Complete(recovery)
    /\ undo.was.log \subseteq held.log \cup there.log
    /\ \A t \in BackupTables :
         held.rows[t] = undo.was.rows[t] \/ there.rows[t] >= undo.was.rows[t]

\* A dump cut short anywhere is refused, the recovery dump of a failed restore too.
CutRefused == phase = "replacing" =>
  \A n \in 0 .. Len(recovery) - 1 : ~Complete(SubSeq(recovery, 1, n))

\* A sync round leaves replica and hub alike, whatever was restored before it.
Converged == settled => here = there

\* No schema exchange is skipped while the logs differ.
ExchangeDue == exchange = Sizes(here.log, there.log) => here.log = there.log

\* A restore loses nothing that its recovery file or the hub cannot give back, and
\* the next round brings both sides together again (restoreReplica).
RestoreSound == RestoreTypeOK /\ Recoverable /\ CutRefused /\ Converged /\ ExchangeDue
=============================================================================
