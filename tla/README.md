# A verification of soma's replication

Soma (this repository) keeps a person's data in a SQLite file on each device
and replicates it through a hub, a Cloudflare Worker over one SQL database.
The hard part of the program is that replication: two programs that fail
independently, four clocks, last-write-wins revisions, cursors and receipts
that decide what is never sent again. This directory models that part in
TLA+, checks it with TLC and proves what matters most with TLAPS.

## The system

| Part | State it keeps | Operations | Talks to |
|---|---|---|---|
| Python replica sync (`src/soma/__init__.py`, `sync`) | the rows, `_schema_log`, `_sync_state` (checkpoints, recovery progress), the locals of a round | schema exchange, cursor, snapshot, pull, push, verify, finish | hub over HTTP; local writers through SQLite |
| Dirty receipts (`changes.py`) | `_sync_dirty` | track a write, rename a table | same transaction as the write; the round's acknowledgement |
| Change listener and `watch` (`RemoteChanges`, `watch`) | last sequence, live, changed, stopped; fingerprint, `again`, last round | listen, take, wait, tick, round | hub's `/v1/changes`; the sync round |
| Background runner (`background.py`) | preferences, hub, listener, backoff, status file | enable, disable, configure, tick, round | Keychain or a credential command, the sync round |
| Core client sync (`core/src/sync.ts`, `coverage.ts`) | per-table cursors, pending receipts, rejected inbox, page progress, coverage proofs | round per table, resume, certify | hub; host's writes |
| Core write path (`write.ts`, `undo.ts`, `row-actions.ts`, `rejections.ts`) | rows, `_core_pending`, undo receipts, rejections | edit, undo, discard, retry | core sync |
| Core search index and restores (`search.ts`, `backup.ts`) | index entries, queue and triggers; the whole database file | index step, rebuild; dump, validate, replace | the replica's rows; a sync round after a restore |
| Hub routes (`worker/src/index.js`, `validate.js`) | tables, `_schema_log`, `hub_at` stamps | cursor, schema pull and push, row pull and push | every client |
| Hub write checks (`write.js`, `history.js`, `patch.js`) | read guards, history events | pushChecked, isolate, patch | hub database |
| Change signal (`changes.js`) | sequence, waiters, pending tables, next push | bump, wait, flush, alarm | writers, listeners, Apple push |
| Purges (`purge.js`, `apply_purges`) | markers | apply, filter stale copies | rows in both directions |
| Subscriptions (`subscription*.js`) | events, deliveries, acknowledgements | trigger, deliver, acknowledge | external consumers |
| Derivations (`derive.js`) | provenance, cooldowns | sweep, push and resolve calls | hub tables, external endpoints |
| Apple push (`apple-push.js`) | registrations, deliveries | register, drain | Apple, the notification feed |
| Usage and notifications (`usage.js`) | counters, notification feed | admit, flush, notify, read | every route; clients' feeds |
| Changesets and governance (`changeset*.js`, `governance*.js`) | proposals, receipts, typed evidence | preview, propose, approve, purge | owner and agents |
| Login (`login.py`, `login.js`, `auth.js`, `background.py`) | Keychain, preferences, tokens, requests | login, enroll, claim, logout | owner, hub |
| Creation, views, scopes, files, queries, exports | tables of their own | see `PROJECT.json` | the routes above |

What is hard: a write, a hub commit, another device's DDL or a failure may fall
between any two steps of a round; a clock may be set back; an answer may be
lost after its request took effect; and the checkpoints stored at the end of a
round are promises about everything that was not looked at. `PROJECT.json`
lists each such hazard at its line.

What makes each part correct:

* replica sync: no local change is forgotten (push coverage), no remote change
  is skipped (pull coverage), interrupted recoveries resume safely, the schema
  exchange is skipped only when there is nothing to exchange, and rounds that
  keep being started converge;
* listener and loops: no wake-up is lost, whatever fails or restarts, and the
  credential is read once per session;
* core sync: the same coverage per table, with page progress and the count
  that lets a round skip a table whose newest arrival is its cursor;
* hub write checks: what was validated is what is committed;
* purges: what a marker covers never comes back;
* core writes, search and restores: an undo finds exactly what its write left or
  refuses; every row can be found by its text once the index says it is ready;
  what a restore replaces can be recovered, and what it brings reaches the hub;
* derivations: a stored answer is proved by the inputs it answers;
* subscriptions and pushes: at least once, and never after retirement;
* usage, changesets, governance, login: every mark crossed is notified once, a
  decision is carried out once and on what was reviewed, and no token the
  hub accepts is left where nobody can revoke it.

## Modules

`SomaSync` is one replica of the Python client and the hub, in one module
because their interaction is what is checked. One TLA+ step is one HTTP request
or one local transaction, which is where other actors can interleave.

| Variable | Code |
|---|---|
| `hub`, `hubClock`, `hubLog` | the hub's rows with `updated_at`, content and `hub_at`; its database clock; its `_schema_log` |
| `rep`, `log`, `dirty` | the device's rows, `_schema_log` and `_sync_dirty` |
| `clock` | the device's clock, which may be set back |
| `st` | `_sync_state`: `last_pull`, `last_push`, `checkpoint_version` (`repair`), `hub_url` (`bound`), `schema_seen` (`seenHub`, `seenLocal`), `recovery_*` (`rec`) |
| `rd` | the locals of `_sync_locked` and where it stands (`pc`) |
| `faults` | failures so far (a bound) |

The actions follow the code from top to bottom: `Begin`, `ReadCursor`,
`SchemaPull`, `SchemaPush`, `Replay`, `SchemaDone`, `Snapshot`, then per table
`NextTable`, `PullPage`, `Apply`, `Push`, `EndTable` or, in recovery,
`VerifyFetch`, `VerifyCompare`, `VerifyApply`, `VerifyPush`, `SaveProgress`,
and `Finish`. `TableMissing` and `Fail` end a round early: a final HTTP error,
a local error or a crash loses the round's locals and keeps what it committed.
`Push(TRUE)` is a push whose answer is lost and which `_post_idempotent`
repeats. Around the round stand `Edit` (a Python write with its receipt and any
past revision), `OtherWriter` (a program that writes without receipts but with
current revisions, as the repository's README requires), `HubWrite`,
`CreateTable`, `RemoteSchema`, `HubTick` and `SetClock`.

Abstractions: a page of the hub's answer holds one row (a real page holds up
to 200: smaller pages give more interleavings), a chunk of a push too; a schema
log is the set of the tables it creates, because both logs only grow and the
marks compared are their newest ids; contents are members of `Vals`, of which
the hub's validation rejects `BadVals`. The sort orders of tables and rows are
left open: any order is explored.

`MCSomaSync` and `MCReplica` instantiate it for TLC. `SomaSyncProofs` holds the
proofs: types, what goes to the hub, and what comes from it.

`ChangeSignal` is the hub's change sequence and the listener threads
(`RemoteChanges`): `commits` and `bumps` count what happened and what is still
being announced, `seq` is the Durable Object's sequence, `lis` the threads. A
listener's long poll is `Ask`, `Answer` (at once, or when the sequence moves, or
when the wait runs out) and `Notice`. `WatchLoop` and `BackgroundRunner` extend
it with the two loops that start rounds. In both, a round is what `SomaSync`
shows of it: it has a cursor (commits it pulls), a snapshot (local writes it
pushes) and an outcome. The database fingerprint is one bit, `touched`: the
files differ from what the loop last saw. Timers are bits too: an interval is
over or not, and the poll interval ends before the safety interval.

In `BackgroundRunner` the locals of `run` are the record `bg`; a hub object and
the listener started with it share a name, so `listening is not hub` is
`bg.remote # bg.hub`. `Restart` is the supervisor's new process. `session` is a
history variable for `CredentialOnce`. `SignalProofs` holds what the proofs about
the two loops share, `WatchLoopProofs` and `RunnerProofs` the rest.

`CoreSync` is a round of the core client (`core/src/sync.ts`) for a fixed set of
tables. `cur` holds what the device stores per table: the two cursors
(`_core_sync`), whether its coverage proof is valid (`_core_coverage`), the count
of rows at the cursor (`_core_pull_marks`) and the page progress of an unfinished
walk (`_core_pull_progress`). `pending` and `inbox` are `_core_pending` and
`_core_rejected`; `rd` holds the locals of `syncLocked`. `Fetch` may fetch the
first page of a later table ahead, as a batched request does; `Apply` defers a row
with a pending edit; `Receipt` stores an answer before the next request;
`EndTable` stores the table's cursors, which a later failure keeps. Revisions
(the device's clock) and arrivals (the hub's clock) are bounded separately, since
they are never compared. `CoreSyncProofs` holds the proofs, and those of
`CoreSchema`.

`CheckedWrite` is how the hub writes rows (`worker/src/write.js`, `validate.js`,
`patch.js`). D1 has no interactive transactions, so a request reads and validates
first, and its batch repeats the reads as guards before it writes. One step is one
read or one batch, so requests interleave between them. `tbl` is one table, `prov`
the provenance records, `q` the requests in progress: `Read`, `Judge` and `Commit`
are one attempt, and `todo`, `accepted` and `stage` say where the bisection is. A
request without history commits every half that succeeds (`stage = "group"`).
With history its halves are probes, rolled back on purpose, and the rows they
accept are committed in a last attempt (`"first"`, `"probe"`, `"final"`). A row has
an ordinary column `a` and a derived column `b`. One rule, no two rows with the
same exclusive `a`, stands for the enforced rules and for the reference and option
checks, which the same triggers make. `start` and `calm` are history variables for
`AnswerExact`. A request carries a row once, as the clients' do. Of the history
events that travel with rows only the exhausted search for a matching order is
modelled (`Ambiguous`).

`Subscriptions` is the hub's durable pull subscriptions. `sub` is
`_change_subscriptions`, `ev` is `_change_events`. `Write` is any transaction that
changes a watched row together with the trigger that records it. `CreateRead` and
`CreateCommit`, `SchemaRead` and `SchemaCommit` are the reads and the guarded batch
of a new subscription and of a schema push. A poll is `PollLoad`, `PollRead`,
`PollOffer` and `PollShow`, one statement or transaction each; deliveries are
numbered where the code draws random ids. `due` and `shown` are history variables:
what a subscription is owed and what its consumers have seen of each delivery; so
is the shape `create` keeps after the commit. Events are counted, not weighed.

`ApplePush` is one push registration and its deliveries. `reg` is the row of
`_push_registrations`, `receipts` `_push_requests`, `outcome` and `retryDue`
`_push_deliveries`. A client's request may arrive late or again (`Register`). A
drain is one invocation of `deliverPush`, one statement per step. `leased` says
that the lease has not run out; it normally runs out after its holder ended, and
under a holder that is still running only as often as `MaxSetbacks` allows.

`MCDeliveries` checks both. They share no state, so the variable `service` is
chosen at the start and a behaviour is one of them; `MCSpec` states the fairness of
each step together with that choice.
Its promise is a module of its own, `DurableQueue`: per subscription a queue of
changes that are owed, a delivery that is a prefix of it and stays as it is until it
is acknowledged. `Queue` in `Subscriptions` maps `due`, the pending delivery and its
number to that queue, and the property `QueueImplemented` is `Queue!QueueSpec`: every
step of triggers, polls and acknowledgements is a step of the queue or none. It says
more than "nothing lost": nothing is offered before its turn, shown twice under two
delivery numbers, or acknowledged by another delivery's number. `SubscriptionsProofs`
holds the proofs of all three.

Five smaller parts share the run `services`, in `MCServices`, one per behaviour.
`UsageMeter` is the hub's metering (`usage.js`): isolates that remember totals,
requests that overlap, flushes that end early. `NotificationFeed` is the feed those
and other events are read from, by one client that loses answers. `Changesets` is the
protocol of governed changesets (`changeset*.js`): preview, proposal, approval,
receipts and purge, each handler in its steps while requests are sent again.
`Governance` is the reviewed inverse of one row's history (`governance*.js`): typed
evidence in a chain, plans that read it, other writers that skip it. `DeviceLogin` is
how a token gets into the Keychain and out of it (`login.py`, `background.py`,
`login.js`, `auth.js`): two runs of login, logout, enroll or a pasted credential, the
owner's approvals and revocations, the lock, and a kill at any step. The proofs are in
`ServicesProofs`.

`MCRowWrites` puts `CheckedWrite` beside two more modules about one row's writes, again
one per behaviour. `Derivations` (`derive.js`): invocations read a row, call an
endpoint and commit the answer with its provenance if the row still is what they read;
`row`, `proof` and `cooldown` are the hub's tables, `calls` the invocations, `copy` a
client's row. A row has an input `x`, a cell derived from it and a cell derived from
that one; an answer is named by the inputs it answers, so a wrong proof shows.
`LocalWrites` (`write.ts`, `undo.ts`, `row-actions.ts`): `stored` is the table,
`journal` the last history entry, `owed` is `_core_pending`, `receipts` the volatile
undo stack. Each receipt also carries two history values, the row its own write made
and whether nobody else wrote since, which the properties need and no action reads.

`CoreSchema` is the schema exchange of `syncLocked`, one request or one replayed entry
per step; logs are sets of entries with their greatest id, and an entry that alters a
table needs the one that made it. It shares a run with `WatchLoop` (`MCWatchLoop`):
both are loops that go on asking.

`MCReplica` puts what the Python client owes the hub beside two modules about the core
client's replica, one per behaviour. `SearchIndex`
(`search.ts`): the rows, their triggers and queue, the reconciliation and the chunks of
the index step; a batch holds one row, which only adds interleavings. `Restores`
(`backup.ts`): a dump is the sequence of its statements, read by the recursive function
`ReadDump`; a restore is its validation, the recovery dump table by table, and the
replacing transaction that reads the file again. Rounds are one step there, because
`driver.ts` makes the host serialize the database: the host must not let a round span
the replacement, which `Restores` assumes. `RowProofs` holds the proofs of `Derivations`,
`LocalWrites`, `SearchIndex`, `CheckedWrite` and `Restores`.

## Runs

| Run | What it asks |
|---|---|
| `sync_exchange` | `PullCoverage`, and `Convergence` under fairness, with a table edited on the device and one that changes on the hub while rounds skip quiet tables |
| `sync_schema` | `QuietSchema` and `SchemaConvergence` with tables created on either side or both |
| `sync_late_table`, `sync_rejected_recovery` | two statements of the repository that the code does not keep (below) |
| `watch_wakeups` | in parts: `RemoteNoticed`, and `Settles` under fairness, for `soma watch` with lost bumps and failed rounds; `SchemasAgree` under fairness for the core client's schema exchange |
| `runner_wakeups` | `ChangesNoticed` (of the hub and of the device), `CredentialOnce`, and `Settles` under fairness, for the background runner |
| `core_push` | `PushCoverage`, `InboxSound`, and `Convergence` under fairness, for the core client: one row edited by it, by another program and on the hub, with rejections, clocks set back, exclusion of its table and a failure |
| `core_pull` | `PullSound` (`PullCoverage` and `ReceiptsMatch`) for the core client: two tables that change on the hub while rounds defer, fail, resume and skip |
| `row_writes` | in parts: `BatchesSound`, `AnswerExact`, `DerivedBacked`, `PatchExact` and `AllOrNothing` for batches, single writes and patches that contend for rows, a rule and provenance records; `DerivationsSound` for two invocations beside edits, pulls and patches; `WritesSound` for the core client's write session |
| `replica` | in parts: `PushCoverage`, `ReceiptsKept`, `PushInv` (which contains `RecoveryCoverage`) and the types of the Python client, for one row with all its writers, rejected contents, clocks set back and two failures; `SearchSound`; `RestoreSound` |
| `deliveries` | each delivery service by itself. A subscription: `QueueImplemented`, the refinement of `DurableQueue`, `SubscriptionsSound`, and `Drained` under fairness. A push registration: `PushSound`, `OwnGeneration`, and `Pushed` under fairness |
| `services` | in parts: `UsageSound`, `FeedComplete`, `ChangesetsSound`, `GovernanceSound`, `LoginSound` |

A name that ends in `Sound` is a conjunction of named parts, the types among them;
TLC checks the whole and the parts are there to be proved one by one.

Parts that share no state share a run: a variable chosen in the first state says
which part a behaviour is about, and the others stand still, so a run explores the sum
of its parts and not their product. `MCNext` shows it in each MC module.

Bounds of the sync runs. Time is `0 .. MaxClock` with `MaxClock = 2`: 0 is the
empty string, so there are two milliseconds, enough to tell a revision or an
arrival below, at and above a checkpoint. Every boundary test in the code
compares one stamp with one checkpoint, so more milliseconds add no new order.
One row is enough for the push properties, which speak of one row at a time;
two tables appear where one may be quiet or missing and the other not. A failure
resets the round to what is stored, and a second one interrupts a resumed
recovery, so `replica` has two. `MonotoneEdits` keeps local revisions
increasing in the runs whose properties a backdated import would leave trivially
open, and is off in `replica`. Deadlock is checked: a round or a tick can always
begin.

Bounds of the loops. Two commits let one fall into the round the other started
(`watch_wakeups`); in the runner one commit and one local write, in any order
with an enable, disable or new configuration and with one failure, rejection or
restart. Two listener names are enough, since a listener that was stopped frees
its name.

Bounds of the core client. `core_push` has revisions up to 3, so that an edit made
while its row is pushed can still be behind the round's checkpoint, and clock
readings 1 and 3. `core_pull` has arrivals up to 3: a walk resumed after a failure
loses a row only if its cursor, the row's change and another table's newest
arrival differ.

Bounds of `row_writes`. The checked writes are one request of three rows and
one of a single row. Three rows are the least that bisect unevenly, into a row
and a pair that is halved again. One of the batches has two rows that both want
the exclusive value and a third with a derived value; the other takes the value
from a row that gives it up only later in the same batch. A row reaches revision
3 if all of them write it. Two invocations derive one row with two inputs and two
derived cells, so that one may find the row changed by the other or by a writer;
a client's clock is one ahead at most, and one client edit reaches the hub while
they run. The write session has one row and two contents, two open receipts, and
revisions up to three: an undo of an undo with somebody else's edit between.
Deadlock is checked: a request can always begin.

Bounds of `replica` beside the Python row. The search index has one table of two
rows with two texts and reads that index one queued row by themselves. A restore has
two tables, which is what it takes to be interrupted between them, and two revisions,
to be older or newer than the hub. In `watch_wakeups` the core client's logs have two
tables, either or both of which both sides make, and a column that only comes after its
table; one round fails. The constants `LateDDL`, `EarlyDeletes` and `MaskedLogs` admit
three situations the code gets wrong (below); the runs, which must hold, have them
FALSE.

Bounds of `services`. Two requests are metered by one isolate (the memo is per
isolate, the counters are shared) over two periods, with one alert mark below the
cap. Two events and a page of two make a feed with pages that end early. Three
requests in two handlers leave one to be sent again while another runs; one row is
enough, since a changeset is decided as a whole. Two columns with three values make
an inverse that is partly out of date. Two runs of the command line hold the lock in
turn, and there is a token to be replaced. Deadlock is not checked: a login that is
over, with nothing else to do, may stop.

Bounds of the deliveries. Three changes and batches of at most two make a delivery
that leaves something behind; two pending events are the limit a third change
meets. Two polls race for an offer, and one lost answer makes a delivery be seen
again. Two requests register a token and replace it, with two drains, two events
and one setback. Deadlock is not checked: a registration whose session was revoked,
with its requests used and its feed full, has nothing left to do.

Fairness. `FairSpec` asks weak fairness of `Round` as one action: `watch` and
the background runner start a round again after at most ten minutes whatever
happened to the one before, and a started round goes on to its next step.
Nothing is assumed of writers, of clocks, or of failures, which are bounded.
`MCWatchLoop` asks the same of the core client's schema exchange (`Exchange1`): a host
goes on calling `sync`.
The loops' `FairSpec` asks the same of the loop, of each listener thread, of the
two intervals, and of a bump that is not lost. `MCSpec` asks that consumers go on
polling and acknowledge what they have seen, that drains are started and go on
(the Worker starts one after requests and on its schedule), and that leases run
out and retries come due, which is time; a crash or a lost answer is bounded.

## What is proved

`TypeCorrect` (module `SomaSyncProofs`): the type invariant, for every value of
the constants. It carries two facts that are more than types: no row's arrival
is later than the hub's clock, and a comparison always has its row.

`PushNeverForgets` and `PushCovered` (the same module): if
clocks are not set back behind a recovery in progress (`~LateRollback`), then
every row whose revision is ahead of the hub's and whose content the hub
accepts is selected by the next round's scan, because it has a receipt, or its
revision is at or after `last_push`, or a full round is due; and a recovery
that was interrupted has verified no such row unless it carries a receipt or
was written since the recovery began.

The invariant that makes it inductive is `PushInv`. `PushCoverage` alone is not
inductive, because `Finish` moves `last_push` past rows the round dealt with:
one must know that every owed row was dealt with. `InFlight` says so of a
started round: an owed row has a receipt the round did not freeze, or a
revision at or after the frozen clock, or is a frozen candidate of a table
still to be pushed, or has its comparison still ahead of it. `Compared`
follows one row through `verify`. `CandidatesKept` says that a candidate not
pushed yet is still the row it was frozen from unless the row was written
since. `RowsKnown`, `PagesOld`, `RoundShape` and `RecoveryClock` are the small
facts they need: a fetched page is never newer than the hub, the round's flags
still describe the stored state before its snapshot, and no clock is behind the
recovery's push cursor. The last one is the only use of `~LateRollback`; without
it the step `SetClock` is not provable, and with `LateRollback = TRUE` in
`Replica.cfg` TLC finds the counterexample (below).

`WatchTypes` and `WatchNotices` (module `WatchLoopProofs`): the types of
`soma watch` and its signal, and `RemoteNoticed`, for any number of listeners,
commits, writes and failures. `RemoteNoticed` is not inductive: when `Finish`
stores the round's cursor, it must be known that a commit after that cursor is
still announced. `NoticeInv` therefore speaks of the commits the round in
progress covers (`Covered`) instead of those the last one pulled. It adds that
the listener runs once it is started, and that it has seen no sequence the hub
has not reached (`NotAhead`), so that a bump is always news to it. TLC agrees with
`NoticeInv` on the constants of `watch_wakeups`. What listeners do on their own is
proved once, for both loops, in `SignalProofs`: `SignalKept` says that a listener that
runs and has something to say keeps it, and that a commit gives it something to say.

`RunnerIsTyped`, `RunnerNotices` and `CredentialIsReadOnce` (module `RunnerProofs`) say
the same of the background runner, through failures, configurations and restarts. Unlike
`soma watch` it may take a signal and then fail; what saves it is that a runner whose
round failed is not idle and has a timer. So `RemoteInv` speaks of rounds in progress and
of idle runners only, and `Stages` says what each place of the loop implies: a round has
a hub, a hub has a listener that runs and is not stopped, a runner without a hub has no
session and, while idle, is due. `CredentialOnce` and the loss-free restart both rest on
`Stages`.

`QuietSchemaAgrees`, `PullCovered` and `ReceiptsAreKept` (module `SomaSyncProofs`). The
first rests on `SchemaInv`: a mark stored in `schema_seen` was taken of a log that held
all the other had, and a mark a round holds is still the log it was taken of
(`RoundMarks`) or what the other log must catch up with (`FrozenInv`). The second, that
a row the hub holds newer arrived at or after the cursor the next round asks from, is
proved under `MonotoneEdits`: an import that takes a row back to an older revision hides
a version that was pulled before, which the code does not promise to find again.
`PullInv` follows a round: a row not yet pulled arrived after its cursor, is on the page
to be applied, belongs to a table still to be visited, or to one that was quiet when the
round read it. `ReceiptsAreKept` is an action property from the same facts.

`SubscriptionsAreSound` and `QueueIsImplemented` (module `SubscriptionsProofs`). The
invariant `QueueInv` says that the events kept of a subscription are a run of
consecutive numbers between what was acknowledged and what was recorded (`Kept`), in the
order they happened; that the pending delivery ends inside that run (`Cursors`); and
what each poll has read, for the steps at which it compares again (`PollFits`). With it
every step of `Subscriptions` is shown to be a step of `DurableQueue`, or to leave the
queue alone, one lemma per action: the refinement `QueueImplemented`, for any number of
subscriptions, tables, polls and changes.

`PushIsSound` and `AnswersStayWithTheirToken` (the same module). `PushInv` says where a
drain stands (`DrainInv`): while the registration is the one it claimed, under its
lease, the cursor and the token it remembers are the registration's, and the event it is
about is the next one. Two drains may both think they hold the registration after a lease
ran out, but only one has the lease's name, and a new registration has a revision no
drain has seen; so a record that is let through moves the cursor by one.

`UsageIsSound` and `FeedIsComplete` (module `ServicesProofs`). For the meter: what an
isolate remembers is at most what is stored, and a request in progress remembers a total
of its own period. For the feed: notifications are numbered in the order they are
stored, and what the client was given reaches its cursor.

`LoginIsSound`, `ChangesetsAreSound` and `GovernanceIsSound` (the same module).
`LoginInv` says what each phase of a command holds (`HandsFit`), that the lock has one
holder and what the holder knows of the Keychain (`HolderFits`), and where each token
is (`TokenFits`). `CsInv` says what a handler has read at each phase and why it is still
true when it commits: the receipt or the claim would have changed (`HandlerWorks`).
`GovInv` relates the typed evidence to the row: a column's newest event carries its
value (`HeadFits`), an event's predecessor is the one before it of that column
(`EventFits`), a plan is still the one its version was reviewed with (`AskStands`), and
a done request undid what it selected (`DoneFits`). The chain of a column is defined as
the least set closed under predecessors, not by recursion, so that it can be reasoned
about by well-founded descent.

`DerivationIsSound`, `WritesAreSound` and `SearchIsSound` (module `RowProofs`).
`DerivationInv` says that a live record is the answer of the cell's value whatever
became of its inputs, and that a record whose inputs changed is older than the row
(`RecordFits`); an invocation commits at least a tick after it read, which is what makes
the record of the other cell older. `LocalInv` says that a receipt nobody wrote over is
followed by one that starts from what it left (`Chained`), which is why undoing the one
makes the other available again. `SearchInv` speaks of each table by what the index
recorded (`TableFits`, `DescribedFits`): without its triggers a walk has yet to begin,
with them what is not recorded is queued or ahead of the walk, and a row that is gone
ahead of the walk has no entry. The theorem is about `~EarlyDeletes`: the step it
leaves out is the one deletion the index does forget (below).

`BatchesAreSound`, `AnswersAreExact`, `DerivedValuesBacked`, `PatchesAreExact` and
`HistoriesAllOrNothing` (the same module) are about the hub's checked writes, for any
rows, requests and interleaving of their reads and batches. `HubInv` says of a request
in progress that its rows are a decided prefix followed by the groups still to do
(`Decided`, `Parts`): each decided row has one answer and, as long as nobody else wrote
(`calm`), the accepted ones are those `OneByOne` accepts. `Undisturbed` says what the
table then is: what the accepted rows made of it, or, before the last attempt of a
request with history, what it was. The step that matters is an attempt that fails:
a group whose rows pass together passes row by row (`GroupExact`), a single row
that fails is one that fails by itself (`SingleExact`), and halving a group changes
neither its rows nor their order. The rule holds because a trigger fires on every row
that could break it (`RulesKept`), whatever was read before. The theorems assume
what `HubAssumption` says of the requests: at least one row, no row twice, and a
patch of one row, with a revision after the one it was made from (`patch.js` makes
it `max(now, displayed + 1)`). A group, an accepted sequence and `OneByOne` are built by
recursion over a sequence. The library's induction theorems cannot be instantiated here,
so the module begins with its own: induction over a sequence from the end from the
least natural (`SequenceInduction`), and what a recursive function over an initial
segment returns (`RecursionExists`, `IteratesAgree`).

`RestoresAreSound` (the same module) is about any tables and revisions. `RestoreInv`
says of a restore in progress what its recovery dump has (`Saved`): the schema log, and
each table that is not left, as the replica has it or older than the hub's; the replica
may still pull while the dump is written, so a table that was saved may fall behind, but
only a newer row of the hub replaces it. The dump ends with a commit only when it is
whole (`Whole`), which is why one cut short is refused: it began, and has not committed.
`Documented` says of both files that a row comes after its table's entry in the schema
log, so that what a reading accepts is a replica again (`CompleteHolds`);
`DifferencesDue` says that whatever differs from the hub is due to be pulled or pushed,
which clearing the cursors with the replacement keeps. Dumps are read by a recursion;
what it returns is a loop over states (`DumpIsRead`, `ReadingGoesOn`), and what it tells
of its dump is proved by induction over the dump (`ReadingTells`). The theorem is about
`~MaskedLogs`: the steps it leaves out give the replica another log of the size the
last exchange saw, which looks exchanged (below).

`CorePushCovered`, `InboxIsSound`, `UnansweredEditsStay` and `CorePullCovered` (module
`CoreSyncProofs`) say of the core client what `PushCovered` and `PullCovered` say of
the Python one, table by table. `PushSafe` follows a change of the device: a row ahead of
the hub, in a table the round has not finished, is frozen as it stands, was written since
the snapshot, or was refused by the table in progress, which then keeps its push cursor
(`AheadInFlight`); an accepted row is in the hub before its receipt goes (`AnswerFits`); a
frozen row stays due (`FrozenFits`). `PullSafe` follows a change of the hub: a walk has
passed only rows it pulled or that arrived since its mark (`WalkCovers`), a page passes
over nothing it should hold (`PageCovers`), stored page progress still says so after a
failure and fits the cursor it is resumed with (`ProgressCovers`, `ProgressFits`), and the
rows counted at a cursor are still there (`HeldFits`), so that a count equal to the hub's
means the same rows (`SkippedIs`). The last needs `~SameMillisecond`: a row the hub
commits again in the millisecond it was pulled keeps its arrival, and the counts agree
although the versions do not. With `SameMillisecond = TRUE` TLC finds that in
`core_pull`. `UnansweredEditsStay` is the other half of `PullSound`, without that
assumption.

`NothingIsLeftOut` (the same module): the first half of `SchemasAgree`, under `~LateDDL`.
A log's greatest id counts its entries (`IdsCount`), so a log whose id is the marked one
is the log the mark was taken of; and `ExchangeInv` follows a round's logs until it marks
them: what it pulled and what it still has to send are all the hub holds, unless the
hub's log has moved past the cursor that will be stored (`ReadsAgain`). Entries are
assumed to be finitely many.

Each inductive invariant was checked with TLC on the constants of its run before it was
proved; `PushInv` and `NoticeInv` are also properties of the runs. The assumptions are
those the modules name (`ASSUME`): constants that are counts are naturals, sets that are
walked or counted are finite, limits are positive; and the six situations named above
(`LateRollback`, `MonotoneEdits`, `EarlyDeletes`, `MaskedLogs`, `SameMillisecond`,
`LateDDL`), each stated in its theorem.

The proofs have one lemma or step per action. Lemmas about states are
stated as implications, so that they hold of primed states too. The longest leaves name
the prover and a time limit (`SMTT`, `ZenonT`), where the default one is close.

Not provable with the installed provers, and left to TLC: liveness under fairness, and
anything about ENABLED (`Convergence`, `SchemaConvergence`, `Settles`, `Drained`,
`Pushed` and the second half of `SchemasAgree`). Every other property of the runs that
must hold is a theorem.

## Statements the code does not keep

* **Late tables** (`sync_late_table`). When a round reads its cursor after the
  schema exchange, a table another client creates and fills in between is
  replayed one round later, when `last_pull` is already past its rows.
* **Rejected rows of a recovery** (`sync_rejected_recovery`). `verify` saves a
  page as done even when its push was rejected; after an interruption the
  recovery resumes past it and completes.
Divergences without a run of their own:

* The docstring of `watch` (src/soma/__init__.py:1666) says "Push local changes
  within ~1s", and the comment at lines 1685-1686 that writes made during a round
  still need pushing. `watch` looks for pending writes (line 1687) before it takes
  the fingerprint that absorbs them (line 1699), so a write in between waits for
  the interval: `LocalNoticed` of `WatchLoop` fails. The background runner takes
  them in the other order (background.py:350-351), and `runner_wakeups` checks
  `LocalNoticed` of it.
* The comment at src/soma/__init__.py:1436-1437 says recovery stays due when the
  clock was set back, even if it catches up before the next attempt. With
  `LateRollback = TRUE`, `PushCoverage` of `SomaSync` fails: a clock set back
  behind the recovery's push cursor makes every row a candidate of that round, so
  `verify` skips them all and saves its progress. If the round then fails and the
  clock catches up, the resumed recovery passes over them and completes.
* README.md:64-71 of the repository says of both loops that a failed round is
  retried after 15 seconds, doubling to two minutes; `watch` starts the next
  round at its ordinary interval, which is ten minutes while its signal is live
  (`Fail` and `IntervalOver` of `WatchLoop`). README.md:169-170 says failures
  retry after 60 seconds, doubling to an hour; background.py:19-21 says 15
  seconds, two minutes, and an hour only without a hub.
* background.py:386-388 takes the delay before it caps it: after a long series
  of credential failures the first failed round that has a hub waits as long as
  they did. The models leave delays open.
* With `SameMillisecond = TRUE`, `PullCoverage` of `CoreSync` fails: a row the
  hub commits twice in one millisecond, once before and once after it was
  pulled, leaves the count of rows at that millisecond as it was, and the table
  is skipped until something else in it changes. The comment at
  core/src/sync.ts:244-245 speaks of new rows only. The runs set it to FALSE.
* core/src/sync.ts:163-168 stores as exchanged the greatest id of both schema logs
  when it stores them, though it read the logs themselves earlier. DDL that another
  client pushes between the schema pull and a second cursor read, and DDL a local
  program logs any time after the round read its own log, is covered by the mark and
  never exchanged until the next DDL comes, against the comment at
  core/src/sync.ts:123-125: "with it and our own log unchanged since the last exchange
  there is nothing to pull or push". With `LateDDL = TRUE` TLC shows it as a violation of
  `SchemasAgree` (`CoreSchema`). The Python client avoids the first half of it
  (`SchemaMark` of `SomaSync`).
* core/src/backup.ts:550-552 resets the sync state on a restore and keeps
  `schema_exchange`, a pair of log ids. A restored log of the same size looks
  exchanged, and the hub's entries it lacks are not pulled until some DDL follows; the
  comment at core/src/backup.ts:523-524 says "the next sync pulls everything". With
  `MaskedLogs = TRUE` TLC shows it as a violation of `RestoreSound` (`Restores`).
* worker/src/derive.js:217 gives a derived row the hub's time as its revision, also when
  the row's own revision is ahead of it (a client's clock may be). The replica that
  wrote that revision then pulls a row it takes for older, and keeps its own: the
  derived value does not reach it, against the comment at derive.js:10-12 ("a replica
  pulling the row also pulls the provenance that proves it"). `Arrives` of
  `Derivations` excepts exactly this (`setBack`).
* `candidates` (derive.js:313-324) reads fifty rows in no order. Fifty rows whose cells
  cannot be derived are read again in every sweep, and a row behind them is never
  reached by it; the comment at worker/src/index.js:634-635 says of a push's
  derivations that "a failure here is retried by the cron sweep". The models leave the
  sweep's choice open.
* In `search.ts` the queue is drained before a walk begins, and the triggers come with the
  walk (core/src/search.ts:328-337, "until then the walk itself still reads every
  row"). A row indexed from the queue of a table whose triggers are gone (a rebuilt
  table) and deleted before its walk starts keeps its entry: no trigger saw the
  deletion and the walk reads only rows that exist. With `EarlyDeletes = TRUE`
  `SearchSound` fails (`SearchIndex`).
* background.py:326 replaces the listener after a configuration change seen while
  the runner retries without stopping the old one, which goes on polling the old
  hub with the old credential until its process ends.
* The comment at worker/src/usage.js:212-213 says a cap this isolate crosses "applies
  at once". A request that read the totals before another's flush stores them after
  it (line 223, after its own await), and the isolate admits requests for thirty seconds
  more. `UsageMeter` has both steps (`Decide`, `FlushSeen`) and asks only that no
  request is refused without cause.

## Not modelled, and why

`PROJECT.json` names every part and what is left out of it. The larger gaps:

* Purge markers (`purge.js`, `apply_purges`): they touch the rows, the history and
  the index of every replica and deserve a module beside a round; planned.
* Of the Python round: history events that travel with rows and are withheld with
  them, tables that still lack `hub_at`, the SQLite `LocalHub` of the tests, the
  halving of rejected chunks. Of the core round: the size rule, the clock-skew
  guard, smaller batches on request, catalogs that are not trusted yet.
* The matching of attached history events with a row's transitions
  (`history.js`): a bounded search over data, of which only its giving up shows in
  a request's answer.
* The clients' creation receipts (create-only origin), one-table pulls and saved
  views: thin layers over what is modelled.
* Catalog rules are pure and per row; they are abstracted to accepted and rejected
  contents. Scopes, files, queries and capture are authorisation and plumbing.
* The Worker's scheduled exports run on the platform's workflow engine, whose
  steps and retries are not in this repository.
* Generated clients, packaging and documents have no state of their own.

## Plan

Done: the sync rounds of both clients, the loops that start them, the hub's write
path and derivations, deliveries and their abstract queue, accounting, changesets and
governance, logins, the core client's write session, schema exchange, search index and
restores. What is left, most important first:

1. `Purge`: markers in both directions, beside a round.
2. The matching of attached history events (`history.js`), and the create-only origin.
3. The clients without a replica: one-table pulls, saved views.
