------------------------------ MODULE CoreSync ------------------------------
(***************************************************************************)
(* A round of the core client (core/src/sync.ts, syncLocked) against the    *)
(* hub.  Unlike the Python client it keeps a pull and a push cursor per      *)
(* table, stores every page, receipt and cursor as soon as it has them, and  *)
(* so resumes where a failure left it.  It skips a table whose newest        *)
(* arrival is its own cursor while the hub counts as many rows at that       *)
(* arrival as it holds itself, and never replaces a row that has a pending   *)
(* edit.                                                                     *)
(*                                                                           *)
(* A step is a request or a local transaction; writers, the hub and failures *)
(* fall between.  Rows are numbers, which is the order of their ids, and a   *)
(* page or a push holds one row.  Time 0 is the empty string.  All logs have *)
(* the same tables.                                                          *)
(***************************************************************************)
EXTENDS Integers, FiniteSets

CONSTANTS
  Tables,
  Rows,            \* row identities
  TableOf,         \* the table of each row
  EditRows,        \* rows edited through the core client
  OtherRows,       \* rows other programs of the device write
  HubRows,         \* rows other clients write
  Excludable,      \* tables a round may leave out
  SameMillisecond, \* the hub may commit a row twice in one millisecond
  Clocks,          \* readings of the device's clock
  MaxRevision,     \* bound on revisions
  MaxArrival,      \* bound on the hub's clock
  MaxFaults,       \* bound on failures
  NoTable

ASSUME CoreAssumption ==
  /\ Rows \subseteq Nat \ {0} /\ IsFiniteSet(Rows)
  /\ TableOf \in [Rows -> Tables]
  /\ EditRows \subseteq Rows /\ OtherRows \subseteq Rows /\ HubRows \subseteq Rows
  /\ Excludable \subseteq Tables
  /\ SameMillisecond \in BOOLEAN
  /\ Clocks \subseteq 1 .. MaxRevision /\ Clocks # {}
  /\ MaxRevision \in Nat \ {0} /\ MaxArrival \in Nat \ {0} /\ MaxFaults \in Nat
  /\ NoTable \notin Tables

VARIABLES
  hub,        \* the hub's rows: revision and arrival
  hubClock,
  rep,        \* the device's rows: revision, whether the hub accepts it, arrival when pulled
  clock,      \* the device's clock: may be set back
  pending,    \* _core_pending: the revision of each row's receipt, or 0
  inbox,      \* _core_rejected
  cur,        \* per table: _core_sync, _core_pull_marks, _core_coverage, _core_pull_progress
  bound,      \* _core_state has the hub's endpoint
  rd,         \* the round in progress: locals of syncLocked
  faults

device == <<rep, pending, inbox, cur, bound>>
vars == <<hub, hubClock, clock, device, rd, faults>>

-----------------------------------------------------------------------------
RowsOf(t) == {row \in Rows : TableOf[row] = t}
Highest(S) == CHOOSE x \in S \cup {0} : \A y \in S : x >= y
Lowest(S) == CHOOSE x \in S : \A y \in S : x <= y

\* No count is kept.
Unknown == -1

Absent == [rev |-> 0, ok |-> TRUE, at |-> 0]
NoRows == [row \in Rows |-> Absent]

\* `after` is 0 when the table has no page progress.
FreshCursor == [pull |-> 0, push |-> 0, held |-> Unknown, proof |-> FALSE,
                since |-> 0, mark |-> 0, after |-> 0]

NoWalk == [since |-> 0, mark |-> 0, after |-> 0, quiet |-> TRUE]
NoPage == [on |-> FALSE, after |-> 0, row |-> 0, ver |-> Absent]

Idle == [pc |-> "idle", bound |-> FALSE, skip |-> {}, marks |-> [t \in Tables |-> 0],
         counts |-> [t \in Tables |-> 0], checkpoint |-> 0, frozen |-> NoRows,
         walk |-> [t \in Tables |-> NoWalk], page |-> [t \in Tables |-> NoPage],
         todo |-> {}, table |-> NoTable, deferred |-> FALSE, bad |-> FALSE,
         row |-> 0, answer |-> "none"]

Init ==
  /\ hub = [row \in Rows |-> [rev |-> 0, at |-> 0]]
  /\ hubClock = 1
  /\ rep = NoRows
  /\ clock = Lowest(Clocks)
  /\ pending = [row \in Rows |-> 0]
  /\ inbox = {}
  /\ cur = [t \in Tables |-> FreshCursor]
  /\ bound = FALSE
  /\ rd = Idle
  /\ faults = 0

-----------------------------------------------------------------------------
(* Around the round. *)

\* A write of the core client: a revision above the row's, whatever the clock
\* says, and its receipt, in one transaction.
Edit(row, ok) ==
  /\ row \in EditRows
  /\ LET rev == Highest({clock, rep[row].rev + 1})
     IN  /\ rev <= MaxRevision
         /\ rep' = [rep EXCEPT ![row].rev = rev, ![row].ok = ok]
         /\ pending' = [pending EXCEPT ![row] = rev]
  /\ UNCHANGED <<hub, hubClock, clock, inbox, cur, bound, rd, faults>>

\* A write by another program of the device: no receipt, but a current revision.
OtherWriter(row, ok) ==
  /\ row \in OtherRows
  /\ \A c \in {cur[TableOf[row]].push, rd.checkpoint} : clock >= c
  /\ clock > rep[row].rev
  /\ rep' = [rep EXCEPT ![row].rev = clock, ![row].ok = ok]
  /\ UNCHANGED <<hub, hubClock, clock, pending, inbox, cur, bound, rd, faults>>

\* The hub keeps the newest revision and stamps its arrival.
HubCommit(row, rev) ==
  hub' = IF rev > hub[row].rev
         THEN [hub EXCEPT ![row] = [rev |-> rev, at |-> hubClock]] ELSE hub

HubWrite(row, rev) ==
  /\ row \in HubRows
  /\ rev > hub[row].rev
  /\ SameMillisecond \/ hub[row].at < hubClock
  /\ HubCommit(row, rev)
  /\ UNCHANGED <<hubClock, clock, device, rd, faults>>

HubTick ==
  /\ hubClock < MaxArrival
  /\ hubClock' = hubClock + 1
  /\ UNCHANGED <<hub, clock, device, rd, faults>>

SetClock(now) ==
  /\ clock # now
  /\ clock' = now
  /\ UNCHANGED <<hub, hubClock, device, rd, faults>>

-----------------------------------------------------------------------------
(* The head of the round, up to the frozen snapshot. *)

\* A push cursor ahead of the clock is forgotten.
RolledBack(t) == cur[t].push > clock
Forgotten(c) == [t \in Tables |-> IF RolledBack(t) THEN [c[t] EXCEPT !.push = 0] ELSE c[t]]
Excluded(c, skip) == [t \in Tables |-> IF t \in skip THEN [c[t] EXCEPT !.proof = FALSE] ELSE c[t]]

Begin(skip) ==
  /\ rd.pc = "idle"
  /\ skip \subseteq Excludable
  /\ cur' = Excluded(Forgotten(cur), skip)
  /\ rd' = [Idle EXCEPT !.pc = "cursor", !.bound = bound, !.skip = skip]
  /\ UNCHANGED <<hub, hubClock, rep, clock, pending, inbox, bound, faults>>

Newest(t) == Highest({hub[row].at : row \in RowsOf(t)})
AtNewest(t) == Cardinality({row \in RowsOf(t) : hub[row].at = Newest(t)})

\* The hub's newest arrivals; the hub's name is then pinned.
ReadCursor ==
  /\ rd.pc = "cursor"
  /\ rd' = [rd EXCEPT !.pc = "snapshot", !.marks = [t \in Tables |-> Newest(t)],
                      !.counts = [t \in Tables |-> AtNewest(t)]]
  /\ bound' = TRUE
  /\ UNCHANGED <<hub, hubClock, rep, clock, pending, inbox, cur, faults>>

Included == Tables \ rd.skip

\* A table without a valid proof is pulled in full.
PullSince(t) == IF rd.bound /\ cur[t].proof THEN cur[t].pull ELSE 0
PushSince(t) == IF rd.bound /\ ~RolledBack(t) THEN cur[t].push ELSE 0

\* Mutant: only revisions are scanned, not receipts.
MutCandidate(row) ==
  /\ TableOf[row] \in Included
  /\ rep[row].rev > 0
  /\ rep[row].rev >= PushSince(TableOf[row])

Candidate(row) ==
  /\ TableOf[row] \in Included
  /\ rep[row].rev > 0
  /\ rep[row].rev >= PushSince(TableOf[row]) \/ pending[row] # 0

Resumes(t) == cur[t].after # 0 /\ cur[t].since = PullSince(t)

\* Nothing arrived since the table's cursor.
Quiet(t) ==
  /\ PullSince(t) # 0
  /\ \/ rd.marks[t] < PullSince(t)
     \/ (rd.marks[t] = PullSince(t) /\ ~Resumes(t) /\ cur[t].held = rd.counts[t])

Top == Highest({rd.marks[t] : t \in Tables})

\* Mutant: a resumed walk takes this round's mark.
MutWalk(t) ==
  [since |-> PullSince(t), quiet |-> Quiet(t), after |-> IF Resumes(t) THEN cur[t].after ELSE 0,
   mark |-> IF Quiet(t) THEN PullSince(t) ELSE Top]

\* A resumed walk keeps the mark of its first attempt.
Walk(t) ==
  [since |-> PullSince(t), quiet |-> Quiet(t), after |-> IF Resumes(t) THEN cur[t].after ELSE 0,
   mark |-> IF Resumes(t) THEN cur[t].mark ELSE IF Quiet(t) THEN PullSince(t) ELSE Top]

\* One transaction freezes the checkpoint and the candidate rows.
Snapshot ==
  /\ rd.pc = "snapshot"
  /\ cur' = Excluded(Forgotten(cur), rd.skip)
  /\ rd' = [rd EXCEPT
       !.pc = IF Included = {} THEN "certify" ELSE "table",
       !.bound = FALSE, !.skip = {}, !.checkpoint = clock, !.todo = Included,
       !.frozen = [row \in Rows |-> IF Candidate(row) THEN [rep[row] EXCEPT !.at = 0] ELSE Absent],
       !.walk = [t \in Tables |-> IF t \in Included THEN Walk(t) ELSE NoWalk],
       !.counts = [t \in Tables |-> 0]]
  /\ UNCHANGED <<hub, hubClock, rep, clock, pending, inbox, bound, faults>>

-----------------------------------------------------------------------------
(* One table: pull page by page, then push its frozen rows. *)

\* The order is the same in every round.
NextTable ==
  /\ rd.pc = "table"
  /\ LET t == CHOOSE next \in rd.todo : TRUE
     IN  rd' = [rd EXCEPT !.table = t, !.todo = @ \ {t}, !.deferred = FALSE, !.bad = FALSE,
                        !.pc = IF rd.walk[t].quiet THEN "push" ELSE "pull"]
  /\ UNCHANGED <<hub, hubClock, clock, device, faults>>

\* The rows a page may hold: arrivals at or after `since`, in the order of ids.
Arrived(t) ==
  {row \in RowsOf(t) : /\ hub[row].rev > 0
                       /\ hub[row].at >= rd.walk[t].since
                       /\ row > rd.walk[t].after}

\* One request fetches the table's next page and, while it has room, the first
\* pages of tables still to come.
Fetch(t) ==
  /\ rd.pc = "pull"
  /\ t = rd.table \/ (t \in rd.todo /\ ~rd.walk[t].quiet)
  /\ ~rd.page[t].on
  /\ LET row == IF Arrived(t) = {} THEN 0 ELSE Lowest(Arrived(t))
         ver == IF row = 0 THEN Absent ELSE [rev |-> hub[row].rev, ok |-> TRUE, at |-> hub[row].at]
     IN  rd' = [rd EXCEPT !.page[t] = [on |-> TRUE, after |-> rd.walk[t].after,
                                       row |-> row, ver |-> ver]]
  /\ UNCHANGED <<hub, hubClock, clock, device, faults>>

\* Last write wins.
Upsert(old, new) == IF new.rev > old.rev THEN new ELSE old

\* A pending edit reaches the hub before a newer row replaces it.
Defers(row, ver) == pending[row] # 0 /\ ver.rev > rep[row].rev

NoProgress(c) == [c EXCEPT !.since = 0, !.mark = 0, !.after = 0]

\* A page is applied and the progress saved in one transaction, unless a row
\* of the walk was deferred.
Apply ==
  /\ rd.pc = "pull"
  /\ rd.page[rd.table].on
  /\ LET t == rd.table
         page == rd.page[t]
         defer == page.row # 0 /\ Defers(page.row, page.ver)
         done == page.row = 0
     IN  /\ rep' = IF done \/ defer THEN rep
                   ELSE [rep EXCEPT ![page.row] = Upsert(@, page.ver)]
         /\ cur' = IF done THEN cur
                   ELSE IF defer \/ rd.deferred THEN [cur EXCEPT ![t] = NoProgress(@)]
                   ELSE [cur EXCEPT ![t] = [@ EXCEPT !.since = rd.walk[t].since,
                                              !.mark = rd.walk[t].mark, !.after = page.row]]
         /\ rd' = [rd EXCEPT !.page[t] = NoPage, !.deferred = @ \/ defer,
                             !.walk[t].after = IF done THEN 0 ELSE page.row,
                             !.pc = IF done THEN "push" ELSE "pull"]
  /\ UNCHANGED <<hub, hubClock, clock, pending, inbox, bound, faults>>

\* The hub's validation: a stale row is accepted and changes nothing.
HubAccepts(row) == rd.frozen[row].ok \/ rd.frozen[row].rev <= hub[row].rev

\* The table's frozen rows are pushed in the order of their ids.
ToPush == {row \in RowsOf(rd.table) : rd.frozen[row] # Absent}

Push ==
  /\ rd.pc = "push"
  /\ ToPush # {}
  /\ LET row == Lowest(ToPush)
     IN  /\ IF HubAccepts(row) THEN HubCommit(row, rd.frozen[row].rev) ELSE hub' = hub
         /\ rd' = [rd EXCEPT !.pc = "receipt", !.row = row,
                             !.answer = IF HubAccepts(row) THEN "accepted" ELSE "rejected"]
  /\ UNCHANGED <<hubClock, clock, device, faults>>

\* Mutant: the receipt is dropped whatever was written meanwhile.
MutReceived(row) == 0

\* A receipt newer than the pushed revision stays.
Received(row) == IF pending[row] <= rd.frozen[row].rev THEN 0 ELSE pending[row]

\* The answer is stored before the next request: a receipt is acknowledged, or
\* the row enters the inbox, unless it was edited meanwhile.
Receipt ==
  /\ rd.pc = "receipt"
  /\ LET row == rd.row
         accepted == rd.answer = "accepted"
     IN  /\ inbox' = IF accepted THEN inbox \ {row}
                     ELSE IF rep[row].rev = rd.frozen[row].rev THEN inbox \cup {row} ELSE inbox
         /\ pending' = IF accepted THEN [pending EXCEPT ![row] = Received(row)] ELSE pending
         /\ rd' = [rd EXCEPT !.pc = "push", !.frozen[row] = Absent, !.row = 0,
                             !.answer = "none", !.bad = @ \/ ~accepted]
  /\ UNCHANGED <<hub, hubClock, rep, clock, cur, bound, faults>>

HeldAt(t, mark) == Cardinality({row \in RowsOf(t) : rep[row].at = mark})

\* Mutant: the push cursor moves past rejected rows.
MutPushed(t) == rd.checkpoint

\* A table with a rejected row keeps its push cursor.
Pushed(t) == IF rd.bad THEN cur[t].push ELSE rd.checkpoint

\* A finished table keeps its cursors, whatever happens to the rest of the round.
EndTable ==
  /\ rd.pc = "push"
  /\ ToPush = {}
  /\ LET t == rd.table
         pull == IF rd.deferred THEN cur[t].pull ELSE rd.walk[t].mark
         counted == ~rd.deferred /\ pull # 0 /\ rd.marks[t] = pull
     IN  /\ cur' = [cur EXCEPT ![t] = [NoProgress(cur[t]) EXCEPT
                      !.pull = pull, !.push = Pushed(t), !.proof = cur[t].proof \/ ~rd.deferred,
                      !.held = IF rd.walk[t].quiet THEN cur[t].held
                               ELSE IF counted THEN HeldAt(t, pull) ELSE Unknown]]
         /\ rd' = [rd EXCEPT !.pc = IF rd.todo = {} THEN "certify" ELSE "table",
                             !.table = NoTable, !.walk[t] = NoWalk, !.marks[t] = 0,
                             !.deferred = FALSE, !.bad = FALSE]
  /\ UNCHANGED <<hub, hubClock, rep, clock, pending, inbox, bound, faults>>

Certify ==
  /\ rd.pc = "certify"
  /\ rd' = Idle
  /\ UNCHANGED <<hub, hubClock, clock, device, faults>>

\* A request or transaction fails, or the process dies: the locals are gone.
\* A push may have taken effect.
Fail ==
  /\ rd.pc # "idle"
  /\ faults < MaxFaults
  /\ faults' = faults + 1
  /\ rd' = Idle
  /\ UNCHANGED <<hub, hubClock, clock, device>>

Round ==
  \/ \E skip \in SUBSET Excludable : Begin(skip)
  \/ ReadCursor \/ Snapshot \/ NextTable \/ (\E t \in Tables : Fetch(t)) \/ Apply
  \/ Push \/ Receipt \/ EndTable \/ Certify

Next ==
  \/ Round \/ Fail \/ HubTick
  \/ \E row \in Rows, ok \in BOOLEAN : Edit(row, ok) \/ OtherWriter(row, ok)
  \/ \E row \in Rows, rev \in 1 .. MaxRevision : HubWrite(row, rev)
  \/ \E now \in Clocks : SetClock(now)

Spec == Init /\ [][Next]_vars

\* Hosts start a round after the one before, again and again.
FairSpec == Spec /\ WF_vars(Round)

-----------------------------------------------------------------------------
Revisions == 0 .. MaxRevision
Arrivals == 0 .. MaxArrival
Versions == [rev : Revisions, ok : BOOLEAN, at : Arrivals]
Cursors == [pull : Arrivals, push : Revisions, held : {Unknown} \cup (0 .. Cardinality(Rows)),
            proof : BOOLEAN, since : Arrivals, mark : Arrivals, after : Rows \cup {0}]
Walks == [since : Arrivals, mark : Arrivals, after : Rows \cup {0}, quiet : BOOLEAN]
Pages == [on : BOOLEAN, after : Rows \cup {0}, row : Rows \cup {0}, ver : Versions]
Phases == {"idle", "cursor", "snapshot", "table", "pull", "push", "receipt", "certify"}
Rounds == [pc : Phases, bound : BOOLEAN, skip : SUBSET Tables, marks : [Tables -> Arrivals],
           counts : [Tables -> 0 .. Cardinality(Rows)], checkpoint : Revisions,
           frozen : [Rows -> Versions], walk : [Tables -> Walks], page : [Tables -> Pages],
           todo : SUBSET Tables, table : Tables \cup {NoTable}, deferred : BOOLEAN,
           bad : BOOLEAN, row : Rows \cup {0}, answer : {"none", "accepted", "rejected"}]

\* No arrival is later than the hub's clock, and no receipt is newer than its row.
TypeOK ==
  /\ hub \in [Rows -> [rev : Revisions, at : Arrivals]]
  /\ hubClock \in Arrivals \ {0}
  /\ rep \in [Rows -> Versions]
  /\ clock \in Clocks
  /\ pending \in [Rows -> Revisions]
  /\ inbox \in SUBSET Rows
  /\ cur \in [Tables -> Cursors]
  /\ bound \in BOOLEAN
  /\ faults \in 0 .. MaxFaults
  /\ rd \in Rounds
  /\ \A row \in Rows : hub[row].at <= hubClock
  /\ \A row \in Rows : pending[row] <= rep[row].rev

Ahead(row) == rep[row].rev > hub[row].rev
Behind(row) == rep[row].rev < hub[row].rev

\* The next round that includes the row's table selects it.
PushDue(row) == pending[row] # 0 \/ rep[row].rev >= cur[TableOf[row]].push

\* No local change is forgotten, accepted or rejected: whatever fails and
\* however clocks move, a row that is newer than the hub's is sent again.
PushCoverage == \A row \in Rows : Ahead(row) => PushDue(row)

\* What waits in the inbox is sent again, so that the entry can go: also when
\* the row was edited again, or replaced by a newer one, since it was rejected.
InboxDue == \A row \in inbox : PushDue(row)

\* In every well-typed state of the rounds the inbox is due (sync.ts, rejections.ts).
InboxSound == TypeOK /\ InboxDue

\* The next round, if it reads the table now, asks for the row; if it resumes
\* past the row, the one after it will.
Since(t) == IF bound /\ cur[t].proof THEN cur[t].pull ELSE 0
Skipped(t) == Since(t) # 0 /\ Newest(t) = Since(t) /\ cur[t].after = 0 /\ cur[t].held = AtNewest(t)
PullDue(row) ==
  LET t == TableOf[row]
  IN  IF cur[t].after >= row /\ cur[t].since = Since(t)
      THEN hub[row].at >= cur[t].mark
      ELSE hub[row].at >= Since(t) /\ ~Skipped(t)

\* No remote change is skipped, by a cursor, by the page progress of an
\* unfinished walk or by the count of rows at the cursor's arrival.
PullCoverage ==
  \A row \in Rows : Behind(row) => PullDue(row)

\* A receipt belongs to the row as it stands: an edit the hub has not answered
\* is neither replaced by a pulled row nor left without its receipt's revision.
ReceiptsMatch ==
  \A row \in Rows \ OtherRows : pending[row] # 0 => pending[row] = rep[row].rev

\* Arrivals reach the replica and leave its unanswered edits alone (sync.ts).
PullSound == PullCoverage /\ ReceiptsMatch

\* The device and the hub come to agree on every row the hub accepts, if rounds
\* go on walking every table.
Converged == \A row \in Rows : rep[row].ok => rep[row].rev = hub[row].rev
Convergence == (\A t \in Tables : []<>(rd.table = t)) => <>[]Converged
=============================================================================
