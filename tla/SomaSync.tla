------------------------------ MODULE SomaSync ------------------------------
(***************************************************************************)
(* The replica's sync round (src/soma/__init__.py, _sync_locked) against   *)
(* the hub (HttpHub and the Worker routes it calls).  Rows carry a last-   *)
(* write-wins revision (updated_at), the hub stamps every commit with its  *)
(* own arrival time (hub_at), and a round is: schema exchange, cursor,     *)
(* frozen snapshot, then pull and push table by table, then one local      *)
(* transaction that moves the checkpoints.                                 *)
(*                                                                         *)
(* A request is one step, and so is a local transaction: other writers,    *)
(* other replicas and failures fall between any two of them.  A time 0 is  *)
(* the empty string: no revision, no cursor.  A schema log only grows, so  *)
(* its max(id) is represented by the set of tables it creates.  Tables     *)
(* and rows are taken in any order (the code sorts by name and by id).     *)
(* One replica is modelled; the other devices and the hub's own jobs are    *)
(* what they do to the hub: newer rows and new tables, at any moment.      *)
(***************************************************************************)
EXTENDS Integers, FiniteSets

CONSTANTS
  Tables,         \* table names
  BaseTables,     \* tables every log starts with
  LocalTables,    \* tables the device may create
  RemoteTables,   \* tables other clients may create on the hub
  Rows,           \* row identities
  TableOf,        \* the table of each row
  Vals,           \* row contents
  BadVals,        \* contents the hub's validation rejects
  EditRows,       \* rows the Python client writes
  OtherRows,      \* rows other local programs write
  HubRows,        \* rows the hub itself or other clients write
  MonotoneEdits,  \* local writers give a row an increasing updated_at
  LateRollback,   \* clocks may be set back behind a recovery in progress
  MaxClock,       \* bound on every clock
  MaxFaults,      \* bound on failures and lost answers
  None            \* no table, no mark, no content

ASSUME ClockAssumption == MaxClock \in Nat \ {0} /\ MaxFaults \in Nat
ASSUME TableAssumption ==
  /\ TableOf \in [Rows -> Tables]
  /\ BaseTables \subseteq Tables /\ LocalTables \subseteq Tables
  /\ RemoteTables \subseteq Tables
  /\ BadVals \subseteq Vals
  /\ EditRows \subseteq Rows /\ OtherRows \subseteq Rows /\ HubRows \subseteq Rows
  /\ MonotoneEdits \in BOOLEAN /\ LateRollback \in BOOLEAN
  /\ None \notin Tables /\ None \notin Vals
  /\ \A mark \in SUBSET Tables : mark # None

VARIABLES
  hub,        \* the hub's rows: revision, content, arrival time
  hubClock,   \* the database clock that stamps arrivals
  hubLog,     \* the hub's _schema_log
  rep,        \* the replica's rows
  log,        \* the replica's _schema_log
  clock,      \* the device's clock: may be set back
  dirty,      \* the replica's _sync_dirty receipts
  st,         \* the replica's _sync_state
  rd,         \* the round in progress: locals of _sync_locked
  faults      \* failures so far

vars == <<hub, hubClock, hubLog, rep, log, clock, dirty, st, rd, faults>>

-----------------------------------------------------------------------------
Time == 0 .. MaxClock
Version == [ts : Time, val : Vals \cup {None}]
Absent == [ts |-> 0, val |-> None]
NoRows == [row \in Rows |-> Absent]
RowsOf(t) == {row \in Rows : TableOf[row] = t}

\* _sync_state of a database that never finished a round: `repair` stands
\* for checkpoint_version # '3', `bound` for a recorded hub_url, `rec` for
\* the recovery_* progress keys.
NoRecovery == [on |-> FALSE, pull |-> 0, push |-> 0, done |-> {}]
FreshState == [lastPull |-> 0, lastPush |-> 0, repair |-> TRUE, bound |-> FALSE,
               seenHub |-> None, seenLocal |-> None, rec |-> NoRecovery]

Idle == [pc |-> "idle", early |-> FALSE, fresh |-> FALSE, resumable |-> FALSE,
         hubMark |-> None, localMark |-> None, unsent |-> {}, replay |-> {},
         cursor |-> 0, quiet |-> {}, pushCursor |-> 0, cand |-> NoRows,
         frozen |-> {}, todo |-> {}, table |-> None, unread |-> {},
         page |-> NoRows, row |-> None, ahead |-> Absent, rejected |-> FALSE]

HubVersion(row) == [ts |-> hub[row].ts, val |-> hub[row].val]

\* A database that predates the checkpoint version starts bound and unrepaired.
Init ==
  /\ hub = [row \in Rows |-> [ts |-> 0, val |-> None, at |-> 0]]
  /\ hubClock = 1
  /\ hubLog = BaseTables
  /\ rep = NoRows
  /\ log = BaseTables
  /\ clock = 1
  /\ dirty = {}
  /\ \E b \in BOOLEAN : st = [FreshState EXCEPT !.bound = b]
  /\ rd = Idle
  /\ faults = 0

-----------------------------------------------------------------------------
(* The upserts: the same strict comparison on both sides. *)

\* The replica's row after an upsert of `new`.
Upsert(old, new) == IF new.ts > old.ts THEN new ELSE old

\* One row reaching the hub: a stale revision is accepted and changes
\* nothing, a newer one is validated, then stamped by the hub's clock.
HubAccepts(row, new) == new.ts > hub[row].ts /\ new.val \notin BadVals
HubRejects(row, new) == new.ts > hub[row].ts /\ new.val \in BadVals

\* Mutant: the arrival is stamped ahead of the committing clock.
MutHubCommit(row, new) ==
  hub' = IF HubAccepts(row, new)
         THEN [hub EXCEPT ![row] = [ts |-> new.ts, val |-> new.val, at |-> hubClock + 1]]
         ELSE hub

HubCommit(row, new) ==
  hub' = IF HubAccepts(row, new)
         THEN [hub EXCEPT ![row] = [ts |-> new.ts, val |-> new.val, at |-> hubClock]]
         ELSE hub

-----------------------------------------------------------------------------
(* Writers outside the round. *)

\* A write of the Python client: the row and its receipt in one transaction.
\* An import may carry any past updated_at.
Edit(row, ts, v) ==
  /\ row \in EditRows
  /\ TableOf[row] \in log
  /\ ts <= clock
  /\ MonotoneEdits => ts > rep[row].ts
  /\ rep' = [rep EXCEPT ![row] = [ts |-> ts, val |-> v]]
  /\ dirty' = dirty \cup {row}
  /\ rd' = [rd EXCEPT !.frozen = @ \ {row}]
  /\ UNCHANGED <<hub, hubClock, hubLog, log, clock, st, faults>>

\* A write by another program: no receipt, but a current revision (the
\* README's condition for such writers), hence not behind a checkpoint.
OtherWriter(row, v) ==
  /\ row \in OtherRows
  /\ TableOf[row] \in log
  /\ \A c \in {st.lastPush, st.rec.push, rd.pushCursor} : clock >= c
  /\ MonotoneEdits => clock > rep[row].ts
  /\ rep' = [rep EXCEPT ![row] = [ts |-> clock, val |-> v]]
  /\ UNCHANGED <<hub, hubClock, hubLog, log, clock, dirty, st, rd, faults>>

\* A row written on the hub: a derivation, or another client's push.
HubWrite(row, ts, v) ==
  /\ row \in HubRows
  /\ TableOf[row] \in hubLog
  /\ ts > hub[row].ts
  /\ v \notin BadVals
  /\ HubCommit(row, [ts |-> ts, val |-> v])
  /\ UNCHANGED <<hubClock, hubLog, rep, log, clock, dirty, st, rd, faults>>

\* DDL run on a device is logged there.
CreateTable(t) ==
  /\ t \in LocalTables \ log
  /\ log' = log \cup {t}
  /\ UNCHANGED <<hub, hubClock, hubLog, rep, clock, dirty, st, rd, faults>>

\* DDL pushed by another client.
RemoteSchema(t) ==
  /\ t \in RemoteTables \ hubLog
  /\ hubLog' = hubLog \cup {t}
  /\ UNCHANGED <<hub, hubClock, rep, log, clock, dirty, st, rd, faults>>

HubTick ==
  /\ hubClock < MaxClock
  /\ hubClock' = hubClock + 1
  /\ UNCHANGED <<hub, hubLog, rep, log, clock, dirty, st, rd, faults>>

\* A device's clock advances, or is set back.
SetClock(now) ==
  /\ now # clock
  /\ ~LateRollback => now >= st.rec.push
  /\ clock' = now
  /\ UNCHANGED <<hub, hubClock, hubLog, rep, log, dirty, st, rd, faults>>

-----------------------------------------------------------------------------
(* The round: the head, up to the frozen snapshot. *)

\* The round compares every row with the hub, in both directions.
FullRoundDue == st.repair \/ ~st.bound

\* Recovery of a replica bound to this hub saves its progress.
ResumableRound == st.repair /\ st.bound

\* Mutant: any verified replica reads the cursor first.
MutEarlyCursor == ~FullRoundDue

\* The cursor is read before the schema exchange only when the local log has
\* not moved since the last one.
EarlyCursor == ~FullRoundDue /\ st.seenLocal = log

\* The sync lock is held for the whole round.
Begin ==
  /\ rd.pc = "idle"
  /\ rd' = [Idle EXCEPT !.pc = IF EarlyCursor THEN "cursor" ELSE "schema",
                         !.early = EarlyCursor, !.fresh = FullRoundDue,
                         !.resumable = ResumableRound, !.localMark = log]
  /\ UNCHANGED <<hub, hubClock, hubLog, rep, log, clock, dirty, st, faults>>

\* Mutant: a table whose newest arrival is the stored cursor is not asked.
MutQuiet ==
  {t \in log : /\ st.lastPull > 0
               /\ \A row \in RowsOf(t) : hub[row].at <= st.lastPull}

\* Tables with no arrival since the stored cursor (inclusive).
Quiet ==
  {t \in log : /\ st.lastPull > 0
               /\ \A row \in RowsOf(t) : hub[row].at < st.lastPull}

\* Mutant: a schema mark read after the replay is trusted too.
MutSchemaMark == hubLog

\* Only a mark read before the replay may be trusted next round.
SchemaMark == IF rd.early THEN hubLog ELSE None

\* /v1/cursor: the newest arrival over the tables this replica knows, the
\* tables with none since the stored cursor, and the hub's schema mark.
ReadCursor ==
  /\ rd.pc = "cursor"
  /\ LET known == {row \in Rows : TableOf[row] \in log}
         exchange == rd.early /\ hubLog # st.seenHub
     IN  \E c \in {0} \cup {hub[row].at : row \in known} :
           /\ \A row \in known : hub[row].at <= c
           /\ rd' = [rd EXCEPT !.cursor = c, !.quiet = Quiet, !.hubMark = SchemaMark,
                               !.pc = IF exchange THEN "schema" ELSE "snapshot"]
  /\ UNCHANGED <<hub, hubClock, hubLog, rep, log, clock, dirty, st, faults>>

\* /v1/schema/pull, compared with the local log.
SchemaPull ==
  /\ rd.pc = "schema"
  /\ rd' = [rd EXCEPT !.unsent = log \ hubLog, !.replay = hubLog \ log,
                       !.pc = "exchange"]
  /\ UNCHANGED <<hub, hubClock, hubLog, rep, log, clock, dirty, st, faults>>

\* /v1/schema/push, entry by entry.
SchemaPush ==
  /\ rd.pc = "exchange"
  /\ \E t \in rd.unsent :
       /\ hubLog' = hubLog \cup {t}
       /\ rd' = [rd EXCEPT !.unsent = @ \ {t}]
  /\ UNCHANGED <<hub, hubClock, rep, log, clock, dirty, st, faults>>

\* One replayed entry: a local transaction of its own.
Replay ==
  /\ rd.pc = "exchange"
  /\ rd.unsent = {}
  /\ \E t \in rd.replay :
       /\ log' = log \cup {t}
       /\ rd' = [rd EXCEPT !.replay = @ \ {t}]
  /\ UNCHANGED <<hub, hubClock, hubLog, rep, clock, dirty, st, faults>>

SchemaDone ==
  /\ rd.pc = "exchange"
  /\ rd.unsent = {} /\ rd.replay = {}
  /\ rd' = [rd EXCEPT !.pc = IF rd.early THEN "snapshot" ELSE "cursor"]
  /\ UNCHANGED <<hub, hubClock, hubLog, rep, log, clock, dirty, st, faults>>

\* Recovery progress: resumed, or started at this round's cursors.
Recovery ==
  IF ~rd.resumable \/ st.rec.on THEN st.rec
  ELSE [on |-> TRUE, pull |-> rd.cursor, push |-> clock, done |-> {}]

\* The checkpoint the candidates are scanned from, before the clock check.
PushSince ==
  IF rd.resumable THEN Recovery.push
  ELSE IF rd.fresh THEN 0 ELSE st.lastPush

RolledBack == PushSince > clock
ScanFrom == IF RolledBack THEN 0 ELSE PushSince

\* Mutant: the scan excludes the checkpoint's own millisecond.
MutCandidate(row) ==
  /\ TableOf[row] \in log
  /\ rep[row].ts > 0
  /\ rep[row].ts > ScanFrom \/ row \in dirty

\* Mutant: only revisions are scanned, not receipts.
MutNoReceipts(row) ==
  /\ TableOf[row] \in log
  /\ rep[row].ts > 0
  /\ rep[row].ts >= ScanFrom

Candidate(row) ==
  /\ TableOf[row] \in log
  /\ rep[row].ts > 0
  /\ rep[row].ts >= ScanFrom \/ row \in dirty

\* One write transaction freezes the clock, the receipts and the candidate
\* rows; a clock behind the checkpoint makes recovery due.
Snapshot ==
  /\ rd.pc = "snapshot"
  /\ st' = [st EXCEPT !.rec = Recovery, !.repair = @ \/ RolledBack]
  /\ rd' = [rd EXCEPT !.pushCursor = clock, !.frozen = dirty, !.todo = log,
                       !.cand = [row \in Rows |-> IF Candidate(row) THEN rep[row] ELSE Absent],
                       !.pc = "table"]
  /\ UNCHANGED <<hub, hubClock, hubLog, rep, log, clock, dirty, faults>>

-----------------------------------------------------------------------------
(* The round: pull, then push, one table at a time. *)

\* The rows the round asks the hub for: in recovery those not verified yet;
\* none of a quiet table, unless the round is a full one.
Unread(t) ==
  IF rd.resumable THEN RowsOf(t) \ st.rec.done
  ELSE IF ~rd.fresh /\ t \in rd.quiet THEN {} ELSE RowsOf(t)

NextTable ==
  /\ rd.pc = "table"
  /\ \E t \in rd.todo :
       rd' = [rd EXCEPT !.table = t, !.todo = @ \ {t}, !.unread = Unread(t),
                        !.pc = IF Unread(t) = {} THEN "push"
                               ELSE IF rd.resumable THEN "verify" ELSE "pull"]
  /\ UNCHANGED <<hub, hubClock, hubLog, rep, log, clock, dirty, st, faults>>

PullSince == IF rd.fresh THEN 0 ELSE st.lastPull

\* The hub answers with the rows that arrived at or after the cursor.
Pulled(row) == IF hub[row].at >= PullSince THEN HubVersion(row) ELSE Absent

\* /v1/rows/pull: every page (here one row) is fetched before any is applied.
PullPage ==
  /\ rd.pc = "pull"
  /\ rd.table \in hubLog
  /\ \E row \in rd.unread :
       LET page == [rd.page EXCEPT ![row] = Pulled(row)]
       IN  rd' = [rd EXCEPT !.page = page, !.unread = @ \ {row},
                            !.pc = IF rd.unread # {row} THEN "pull"
                                   ELSE IF page = NoRows THEN "push" ELSE "apply"]
  /\ UNCHANGED <<hub, hubClock, hubLog, rep, log, clock, dirty, st, faults>>

\* The fetched rows are upserted in short transactions.
Apply ==
  /\ rd.pc = "apply"
  /\ \E row \in Rows :
       /\ rd.page[row] # Absent
       /\ LET page == [rd.page EXCEPT ![row] = Absent]
          IN  rd' = [rd EXCEPT !.page = page,
                               !.pc = IF page = NoRows THEN "push" ELSE "apply"]
       /\ rep' = [rep EXCEPT ![row] = Upsert(@, rd.page[row])]
  /\ UNCHANGED <<hub, hubClock, hubLog, log, clock, dirty, st, faults>>

\* /v1/rows/push of a frozen row.  The answer may be lost: the client then
\* sends the row again.
Push(lost) ==
  /\ rd.pc = "push"
  /\ rd.table \in hubLog
  /\ lost => faults < MaxFaults
  /\ \E row \in RowsOf(rd.table) :
       /\ rd.cand[row] # Absent
       /\ HubCommit(row, rd.cand[row])
       /\ rd' = IF lost THEN rd
                ELSE [rd EXCEPT !.cand = [@ EXCEPT ![row] = Absent],
                                !.rejected = @ \/ HubRejects(row, rd.cand[row])]
  /\ faults' = IF lost THEN faults + 1 ELSE faults
  /\ UNCHANGED <<hubClock, hubLog, rep, log, clock, dirty, st>>

EndTable ==
  /\ rd.pc = "push"
  /\ \A row \in RowsOf(rd.table) : rd.cand[row] = Absent
  /\ rd' = [rd EXCEPT !.pc = "table", !.table = None]
  /\ UNCHANGED <<hub, hubClock, hubLog, rep, log, clock, dirty, st, faults>>

-----------------------------------------------------------------------------
(* Recovery (`verify`): every page is compared with the local rows of its  *)
(* id range, applied, and what the hub lacks is pushed; progress is saved. *)

VerifyFetch ==
  /\ rd.pc = "verify"
  /\ rd.table \in hubLog
  /\ \E row \in rd.unread :
       rd' = [rd EXCEPT !.row = row, !.unread = @ \ {row},
                        !.page = [@ EXCEPT ![row] = HubVersion(row)], !.pc = "compare"]
  /\ UNCHANGED <<hub, hubClock, hubLog, rep, log, clock, dirty, st, faults>>

\* Mutant: a row missing from the page counts as held by the hub.
MutHubLacks(row) ==
  /\ rd.cand[row] = Absent
  /\ rd.page[row] # Absent
  /\ rep[row].ts > rd.page[row].ts

\* The page lacks the local row, or holds it older; candidates go separately.
HubLacks(row) ==
  /\ rd.cand[row] = Absent
  /\ rep[row].ts > rd.page[row].ts

VerifyCompare ==
  /\ rd.pc = "compare"
  /\ rd' = [rd EXCEPT !.ahead = IF HubLacks(rd.row) THEN rep[rd.row] ELSE Absent,
                       !.pc = "verifyApply"]
  /\ UNCHANGED <<hub, hubClock, hubLog, rep, log, clock, dirty, st, faults>>

VerifyApply ==
  /\ rd.pc = "verifyApply"
  /\ rep' = [rep EXCEPT ![rd.row] = Upsert(@, rd.page[rd.row])]
  /\ rd' = [rd EXCEPT !.page = NoRows,
                       !.pc = IF rd.ahead = Absent THEN "verified" ELSE "verifyPush"]
  /\ UNCHANGED <<hub, hubClock, hubLog, log, clock, dirty, st, faults>>

VerifyPush ==
  /\ rd.pc = "verifyPush"
  /\ HubCommit(rd.row, rd.ahead)
  /\ rd' = [rd EXCEPT !.rejected = @ \/ HubRejects(rd.row, rd.ahead),
                       !.ahead = Absent, !.pc = "verified"]
  /\ UNCHANGED <<hubClock, hubLog, rep, log, clock, dirty, st, faults>>

\* recovery_after, or recovery_done after the last page.
SaveProgress ==
  /\ rd.pc = "verified"
  /\ st' = [st EXCEPT !.rec.done = @ \cup {rd.row}]
  /\ rd' = [rd EXCEPT !.row = None,
                       !.pc = IF rd.unread = {} THEN "push" ELSE "verify"]
  /\ UNCHANGED <<hub, hubClock, hubLog, rep, log, clock, dirty, faults>>

-----------------------------------------------------------------------------
(* The end of a round. *)

\* One local transaction: the pull cursor always moves, the push cursor, the
\* checkpoint, the hub and the receipts only when nothing was rejected.
Checkpoint ==
  LET moved == [st EXCEPT !.lastPull = IF rd.resumable THEN st.rec.pull ELSE rd.cursor,
                          !.seenHub = rd.hubMark, !.seenLocal = rd.localMark,
                          !.rec = NoRecovery]
  IN  IF rd.rejected THEN moved
      ELSE [moved EXCEPT !.lastPush = rd.pushCursor, !.repair = FALSE, !.bound = TRUE]

\* Mutant: every receipt is acknowledged, those of newer writes too.
MutAcked == IF rd.rejected THEN {} ELSE dirty

\* Only the frozen generation of receipts is acknowledged.
Acked == IF rd.rejected THEN {} ELSE rd.frozen

Finish ==
  /\ rd.pc = "table"
  /\ rd.todo = {}
  /\ st' = Checkpoint
  /\ dirty' = dirty \ Acked
  /\ rd' = Idle
  /\ UNCHANGED <<hub, hubClock, hubLog, rep, log, clock, faults>>

\* A table created here since the exchange: the hub answers with an error,
\* and the next round sends its schema first.
TableMissing ==
  /\ \/ rd.pc \in {"pull", "verify"}
     \/ rd.pc = "push" /\ \E row \in RowsOf(rd.table) : rd.cand[row] # Absent
  /\ rd.table \notin hubLog
  /\ rd' = Idle
  /\ UNCHANGED <<hub, hubClock, hubLog, rep, log, clock, dirty, st, faults>>

\* A request that fails for good, a local error or a crash: the round's
\* locals are lost, what it committed stays.
Fail ==
  /\ rd.pc # "idle"
  /\ faults < MaxFaults
  /\ faults' = faults + 1
  /\ rd' = Idle
  /\ UNCHANGED <<hub, hubClock, hubLog, rep, log, clock, dirty, st>>

-----------------------------------------------------------------------------
Start == \/ Begin \/ ReadCursor \/ SchemaPull \/ SchemaPush
         \/ Replay \/ SchemaDone \/ Snapshot
Exchange == NextTable \/ PullPage \/ Apply \/ Push(FALSE) \/ EndTable
Verify == VerifyFetch \/ VerifyCompare \/ VerifyApply \/ VerifyPush \/ SaveProgress
Round == Start \/ Exchange \/ Verify \/ Finish \/ TableMissing

Environment ==
  \/ HubTick
  \/ \E now \in Time \ {0} : SetClock(now)
  \/ \E t \in Tables : RemoteSchema(t) \/ CreateTable(t)
  \/ \E row \in Rows, v \in Vals :
       \/ OtherWriter(row, v)
       \/ \E ts \in Time \ {0} : Edit(row, ts, v) \/ HubWrite(row, ts, v)
  \/ Push(TRUE)
  \/ Fail

Next == Round \/ Environment
Spec == Init /\ [][Next]_vars

\* watch and the background runner start a round again and again, and a round
\* that does not fail goes on to its end.
FairSpec == Spec /\ WF_vars(Round)

-----------------------------------------------------------------------------
(* Types *)

States == [lastPull : Time, lastPush : Time, repair : BOOLEAN, bound : BOOLEAN,
           seenHub : (SUBSET Tables) \cup {None}, seenLocal : (SUBSET Tables) \cup {None},
           rec : [on : BOOLEAN, pull : Time, push : Time, done : SUBSET Rows]]

Phases == {"idle", "cursor", "schema", "exchange", "snapshot", "table", "pull", "apply",
           "push", "verify", "compare", "verifyApply", "verifyPush", "verified"}

Rounds == [pc : Phases, early : BOOLEAN, fresh : BOOLEAN, resumable : BOOLEAN,
           hubMark : (SUBSET Tables) \cup {None}, localMark : (SUBSET Tables) \cup {None},
           unsent : SUBSET Tables, replay : SUBSET Tables,
           cursor : Time, quiet : SUBSET Tables, pushCursor : Time,
           cand : [Rows -> Version], frozen : SUBSET Rows, todo : SUBSET Tables,
           table : Tables \cup {None}, unread : SUBSET Rows, page : [Rows -> Version],
           row : Rows \cup {None}, ahead : Version, rejected : BOOLEAN]

\* The phases of verify that have a current row.
Comparing == {"compare", "verifyApply", "verifyPush", "verified"}

\* Every variable keeps its type, no arrival is stamped ahead of the hub's
\* clock, and a row being compared is a row.
TypeOK ==
  /\ hub \in [Rows -> [ts : Time, val : Vals \cup {None}, at : Time]]
  /\ hubClock \in Time \ {0}
  /\ hubLog \in SUBSET Tables
  /\ rep \in [Rows -> Version]
  /\ log \in SUBSET Tables
  /\ clock \in Time \ {0}
  /\ dirty \in SUBSET Rows
  /\ st \in States
  /\ rd \in Rounds
  /\ faults \in 0 .. MaxFaults
  /\ \A row \in Rows : hub[row].at <= hubClock
  /\ rd.pc \in Comparing => rd.row \in Rows

-----------------------------------------------------------------------------
(* Safety *)

Ahead(row) == rep[row].ts > hub[row].ts
Behind(row) == rep[row].ts < hub[row].ts

\* A row the hub lacks or holds older, and whose content it accepts.
Owed(row) == Ahead(row) /\ rep[row].val \notin BadVals

\* The next round's scan of receipts and revisions selects the row.
PushDue(row) ==
  \/ row \in dirty
  \/ rep[row].ts >= st.lastPush
  \/ FullRoundDue

\* No local change is forgotten: whatever fails, and however clocks and
\* writers move, the next round's scan selects every row owed to the hub.
PushCoverage == \A row \in Rows : Owed(row) => PushDue(row)

\* The same for the rows the hub rejects: "rejected rows need the hub
\* comparison again" (the comment at the end of the round).
RejectedCoverage == \A row \in Rows : Ahead(row) => PushDue(row)

\* The next round's pull asks for every arrival the row may have.
PullDue(row) == hub[row].at >= st.lastPull \/ FullRoundDue

\* No remote change is skipped: a row of a table every log starts with that
\* the hub holds newer arrived at or after the stored pull cursor.
PullCoverage ==
  \A row \in Rows : TableOf[row] \in BaseTables /\ Behind(row) => PullDue(row)

\* The README's "every device stays a complete replica": the same for the
\* tables the replica has not replayed yet.
CompleteReplica == \A row \in Rows : Behind(row) => PullDue(row)

\* An interrupted recovery may skip what it verified: a verified row owed to
\* the hub carries a receipt or was written since the recovery began.
RecoveryCoverage ==
  \A row \in st.rec.done :
    Owed(row) => row \in dirty \/ rep[row].ts >= st.rec.push

\* A round skips the schema exchange only when both logs hold the same DDL.
QuietSchema == st.seenHub = hubLog /\ st.seenLocal = log => log = hubLog

\* A receipt is dropped only for a row the hub holds, or one written again
\* since the snapshot.
ReceiptsKept ==
  [][\A row \in dirty :
       row \notin dirty' => ~Ahead(row)' \/ rep'[row].ts >= st'.lastPush]_vars

-----------------------------------------------------------------------------
(* The inductive invariant behind the push coverage. *)

Preamble == {"cursor", "schema", "exchange", "snapshot"}
Started == rd.pc \notin Preamble \cup {"idle"}

\* The round in progress, or the one after it, pushes the row.
Carried(row) ==
  \/ row \in dirty \ rd.frozen
  \/ rep[row].ts >= rd.pushCursor
  \/ rd.cand[row] = rep[row]

\* Recovery has yet to compare the row with the hub.
ToVerify(row) ==
  /\ rd.resumable
  /\ row \notin st.rec.done
  /\ \/ TableOf[row] \in rd.todo
     \/ row \in rd.unread /\ rd.pc \in Comparing \cup {"verify"}
     \/ row = rd.row /\ rd.pc \in Comparing

\* Rows exist only in tables the replica has, and the round works on those.
RowsKnown ==
  /\ \A row \in Rows : rep[row].ts > 0 \/ rd.page[row].ts > 0 => TableOf[row] \in log
  /\ rd.todo \cup {rd.table} \subseteq log \cup {None}

\* What was fetched is never newer than what the hub holds now.
PagesOld == \A row \in Rows : rd.page[row].ts <= hub[row].ts

\* The round's flags still describe the stored state until its snapshot, and
\* its table and current row belong together.
RoundShape ==
  /\ rd.pc \in Preamble => /\ rd.fresh = FullRoundDue
                       /\ rd.resumable = ResumableRound
  /\ rd.pc \in Preamble \cup {"idle", "table"} => rd.table = None
  /\ rd.pc \in Comparing \cup {"verify"} => rd.resumable
  /\ rd.pc \in Comparing \cup {"verify", "pull"} => rd.unread \subseteq RowsOf(rd.table)
  /\ rd.pc \in Comparing => rd.row \in RowsOf(rd.table)

\* No clock is behind the recovery's push cursor.
RecoveryClock ==
  /\ st.rec.push <= clock
  /\ Started /\ rd.resumable => st.rec.push <= rd.pushCursor

\* A frozen candidate not pushed yet is the row itself, unless it was written
\* since; and the scan that chose it chooses it again.
CandidatesKept ==
  Started => \A row \in Rows :
    rd.cand[row] # Absent /\ Owed(row) =>
      /\ Carried(row)
      /\ rd.resumable => row \in dirty \/ rep[row].ts >= st.rec.push

\* After its comparison a row is pushed, carried or held by the hub.
Compared ==
  /\ rd.pc \in Comparing \ {"compare"}
  /\ Owed(rd.row)
  => \/ Carried(rd.row)
     \/ rd.pc # "verified" /\ rd.ahead = rep[rd.row]

\* Every row owed to the hub has its place in the rest of the round.
InFlight ==
  Started => \A row \in Rows : Owed(row) =>
    \/ row \in dirty \ rd.frozen
    \/ rep[row].ts >= rd.pushCursor
    \/ /\ rd.cand[row] = rep[row]
       /\ TableOf[row] \in rd.todo \cup {rd.table}
    \/ ToVerify(row)

PushInv ==
  /\ RowsKnown /\ PagesOld /\ RoundShape /\ RecoveryClock
  /\ PushCoverage /\ RecoveryCoverage /\ CandidatesKept
  /\ Compared /\ InFlight

-----------------------------------------------------------------------------
(* Liveness *)

\* Writers stop (revisions are bounded), failures stop: then the replica ends
\* with the hub's revision of every row.
Convergence ==
  <>[](\A row \in Rows : TableOf[row] \in BaseTables => rep[row].ts = hub[row].ts)

\* Both logs end with every table either side created.
SchemaConvergence == <>[](log = hubLog)
=============================================================================
