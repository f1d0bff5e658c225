----------------------------- MODULE CoreSchema -----------------------------
(* The schema exchange of the core client (core/src/sync.ts, syncLocked): a       *)
(* round reads the hub's cursor, and unless both schema logs stand where the last *)
(* exchange left them it pulls the hub's log, sends what the hub lacks, replays  *)
(* what it lacks itself and records where both stand now.  Programs on either    *)
(* side change their schema at any time, and a round may fail between any steps. *)
(*                                                                               *)
(* An entry is its DDL.  The tables of a log are those its entries create.       *)
EXTENDS Integers, FiniteSets

CONSTANTS
  TableEntries,     \* entries that create a table
  ColumnEntries,    \* entries that alter one
  Alters,           \* the entry that made the table an entry alters
  MaxBroken,        \* bound on rounds that fail
  LateDDL           \* may an entry arrive where the mark covers it unseen?

ASSUME SchemaConstants == /\ Alters \in [ColumnEntries -> TableEntries]
                          /\ IsFiniteSet(TableEntries \cup ColumnEntries)
                          /\ MaxBroken \in Nat /\ LateDDL \in BOOLEAN

SchemaEntries == TableEntries \cup ColumnEntries

VARIABLES
  hubEntries, hubId,      \* the hub's _schema_log and its greatest id
  ownEntries, ownId,      \* the replica's
  schemaMark,             \* _core_state.schema_exchange
  exch,                   \* locals of the round in progress
  broken                  \* rounds that failed so far

schemaVars == <<hubEntries, hubId, ownEntries, ownId, schemaMark, exch, broken>>

NoCursor == -1
Ids == 0 .. 2 * Cardinality(SchemaEntries)
Marks == [hub : Ids \cup {NoCursor}, own : Ids]
NoRound == [pc |-> "idle", cursor |-> NoCursor, tables |-> {}, known |-> {},
            pulled |-> {}, unsent |-> {}]

CoreSchemaTypeOK ==
  /\ hubEntries \subseteq SchemaEntries /\ ownEntries \subseteq SchemaEntries
  /\ hubId \in Ids /\ ownId \in Ids /\ schemaMark \in Marks /\ broken \in 0 .. MaxBroken
  /\ exch.pc \in {"idle", "compare", "pull", "push", "replay", "again", "mark"}
  /\ exch.cursor \in Ids \cup {NoCursor} /\ exch.tables \subseteq TableEntries
  /\ exch.known \cup exch.pulled \cup exch.unsent \subseteq SchemaEntries

CoreSchemaInit ==
  /\ hubEntries = {} /\ hubId = 0 /\ ownEntries = {} /\ ownId = 0
  /\ schemaMark = [hub |-> NoCursor, own |-> 0]
  /\ exch = NoRound /\ broken = 0

(***************************************************************************)
(* A round                                                                 *)
(***************************************************************************)
\* The cursor of the tables there are; a replica without any asks later.
AskCursor ==
  /\ exch.pc = "idle"
  /\ LET tables == ownEntries \cap TableEntries IN
     exch' = [NoRound EXCEPT !.pc = "compare", !.tables = tables,
                             !.cursor = IF tables = {} THEN NoCursor ELSE hubId]
  /\ UNCHANGED <<hubEntries, hubId, ownEntries, ownId, schemaMark, broken>>

\* Both logs stand where the last exchange left them.
\* Mutant: only the hub's is looked at.
MutExchanged == exch.cursor # NoCursor /\ schemaMark.hub = exch.cursor
Exchanged == exch.cursor # NoCursor /\ schemaMark = [hub |-> exch.cursor, own |-> ownId]

\* The rest of a round whose exchange is skipped is CoreSync's.
Compare ==
  /\ exch.pc = "compare"
  /\ exch' = IF Exchanged THEN NoRound
             ELSE [exch EXCEPT !.pc = "pull", !.known = ownEntries]
  /\ UNCHANGED <<hubEntries, hubId, ownEntries, ownId, schemaMark, broken>>

PullSchema ==
  /\ exch.pc = "pull"
  /\ exch' = [exch EXCEPT !.pc = IF exch.known \subseteq hubEntries THEN "replay" ELSE "push",
                          !.pulled = hubEntries, !.unsent = exch.known \ hubEntries]
  /\ UNCHANGED <<hubEntries, hubId, ownEntries, ownId, schemaMark, broken>>

\* An entry applies where its table is.
Applies(entry, log) == entry \in ColumnEntries => Alters[entry] \in log

\* The hub applies one entry after the other, and answers when it has them all.
PushEntry(entry) ==
  /\ exch.pc = "push" /\ entry \in exch.unsent \ hubEntries /\ Applies(entry, hubEntries)
  /\ hubEntries' = hubEntries \cup {entry} /\ hubId' = hubId + 1
  /\ UNCHANGED <<ownEntries, ownId, schemaMark, exch, broken>>

PushAnswered ==
  /\ exch.pc = "push" /\ exch.unsent \subseteq hubEntries
  /\ exch' = [exch EXCEPT !.pc = "replay"]
  /\ UNCHANGED <<hubEntries, hubId, ownEntries, ownId, schemaMark, broken>>

\* One transaction per entry; one a local program logged meanwhile is logged again.
ReplayEntry(entry) ==
  /\ exch.pc = "replay" /\ entry \in exch.pulled \ exch.known /\ Applies(entry, ownEntries)
  /\ ownEntries' = ownEntries \cup {entry} /\ ownId' = ownId + 1
  /\ exch' = [exch EXCEPT !.known = exch.known \cup {entry}]
  /\ UNCHANGED <<hubEntries, hubId, schemaMark, broken>>

\* The cursor is read again if the round moved the hub's log or its own tables.
Outdated == exch.cursor = NoCursor \/ exch.unsent # {} \/ ownEntries \cap TableEntries # exch.tables

Replayed ==
  /\ exch.pc = "replay" /\ exch.pulled \subseteq exch.known
  /\ exch' = [exch EXCEPT !.pc = IF Outdated THEN "again" ELSE "mark"]
  /\ UNCHANGED <<hubEntries, hubId, ownEntries, ownId, schemaMark, broken>>

CursorAgain ==
  /\ exch.pc = "again"
  /\ exch' = [exch EXCEPT !.pc = "mark", !.cursor = hubId]
  /\ UNCHANGED <<hubEntries, hubId, ownEntries, ownId, schemaMark, broken>>

MarkExchange ==
  /\ exch.pc = "mark"
  /\ schemaMark' = [hub |-> exch.cursor, own |-> ownId]
  /\ exch' = NoRound
  /\ UNCHANGED <<hubEntries, hubId, ownEntries, ownId, broken>>

\* A request fails or the program ends; what was applied stays.
RoundBreaks ==
  /\ exch.pc # "idle" /\ broken < MaxBroken
  /\ broken' = broken + 1 /\ exch' = NoRound
  /\ UNCHANGED <<hubEntries, hubId, ownEntries, ownId, schemaMark>>

(***************************************************************************)
(* Everyone else                                                           *)
(***************************************************************************)
\* The marks are read after the logs were: they cover entries that arrive in between
\* and were never exchanged.  LateDDL = FALSE leaves those out.
OwnUnseen == exch.pc \in {"pull", "push", "replay", "again", "mark"}
HubUnseen ==
  \/ exch.pc \in {"push", "again"}
  \/ exch.pc = "replay" /\ (Outdated \/ (exch.pulled \cap TableEntries) \ exch.tables # {})

OwnDDL(entry) ==
  /\ entry \notin ownEntries /\ Applies(entry, ownEntries) /\ (LateDDL \/ ~OwnUnseen)
  /\ ownEntries' = ownEntries \cup {entry} /\ ownId' = ownId + 1
  /\ UNCHANGED <<hubEntries, hubId, schemaMark, exch, broken>>

HubDDL(entry) ==
  /\ entry \notin hubEntries /\ Applies(entry, hubEntries) /\ (LateDDL \/ ~HubUnseen)
  /\ hubEntries' = hubEntries \cup {entry} /\ hubId' = hubId + 1
  /\ UNCHANGED <<ownEntries, ownId, schemaMark, exch, broken>>

ExchangeStep ==
  \/ AskCursor \/ Compare \/ PullSchema \/ PushAnswered
  \/ \E entry \in SchemaEntries : PushEntry(entry) \/ ReplayEntry(entry)
  \/ Replayed \/ CursorAgain \/ MarkExchange

CoreSchemaNext == ExchangeStep \/ RoundBreaks \/ \E entry \in SchemaEntries : OwnDDL(entry) \/ HubDDL(entry)

\* The host goes on starting rounds.
CoreSchemaSpec == CoreSchemaInit /\ [][CoreSchemaNext]_schemaVars /\ WF_schemaVars(ExchangeStep)

(***************************************************************************)
(* What it promises                                                        *)
(***************************************************************************)
\* "With it and our own log unchanged since the last exchange there is nothing to
\* pull or push."
NothingToExchange ==
  schemaMark = [hub |-> hubId, own |-> ownId] => ownEntries = hubEntries

\* An exchange is skipped only when both logs hold the same entries, and both end
\* with every entry either side logged, whatever fails (syncLocked).
SchemasAgree == [](CoreSchemaTypeOK /\ NothingToExchange) /\ <>[](ownEntries = hubEntries)
=============================================================================
