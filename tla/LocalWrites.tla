---------------------------- MODULE LocalWrites ----------------------------
(* The write path of the core client (core/src/write.ts, undo.ts and             *)
(* row-actions.ts): commitWrite stores one edit under a fresh revision, and a    *)
(* write session keeps receipts of its own edits to offer their undo, while      *)
(* synchronization, other tools and schema changes touch the same rows.          *)
(*                                                                               *)
(* A row's cells are one value.  A write that prepareWrite refuses (schema,      *)
(* triggers, catalog, coverage, references, rules) changes nothing and is not a  *)
(* step; only immutable properties are kept, since undo meets them again.        *)
EXTENDS Integers, Sequences, SequencesExt

CONSTANTS
  WriteRows,      \* the rows of one editable table
  Contents,       \* what their cells can hold
  Depth,          \* receipts a session keeps (100 in the source)
  Skew,           \* how far a stored revision may be ahead of the device's clock
  MaxEdit         \* bound on revisions and on the clock

ASSUME WriteConstants == Depth \in Nat \ {0} /\ Skew \in Nat /\ MaxEdit \in Nat \ {0}

Editions == 0 .. MaxEdit
NoCells == "none"

VARIABLES
  stored,         \* stored[r]: the row; revision 0 when this replica lacks it
  receipts,       \* the session's undo stack, oldest first
  journal,        \* journal[r]: the cells the row's last history entry left
  owed,           \* owed[r]: the revision _core_pending owes the hub, or 0
  now,            \* the device's clock
  fixed           \* the catalog holds the cells immutable

localVars == <<stored, receipts, journal, owed, now, fixed>>

LocalRow == [rev : Editions, cells : Contents \cup {NoCells}, trashed : BOOLEAN, hub : BOOLEAN]
Missing == [rev |-> 0, cells |-> NoCells, trashed |-> FALSE, hub |-> FALSE]

\* `fits`: the table still has the shape of the write.  `made` and `clean` only
\* serve the properties: the row the receipt's own write left, and whether nothing
\* but this session has written the row since.
Receipt == [row : WriteRows, before : LocalRow, after : LocalRow, fits : BOOLEAN,
            kind : {"create", "edit", "trash", "restore"},
            made : LocalRow, clean : BOOLEAN]

LocalTypeOK ==
  /\ stored \in [WriteRows -> LocalRow]
  /\ receipts \in Seq(Receipt) /\ Len(receipts) <= Depth
  /\ journal \in [WriteRows -> Contents \cup {NoCells}]
  /\ owed \in [WriteRows -> Editions]
  /\ now \in Editions
  /\ fixed \in BOOLEAN

LocalInit ==
  /\ stored = [r \in WriteRows |-> Missing]
  /\ receipts = <<>>
  /\ journal = [r \in WriteRows |-> NoCells]
  /\ owed = [r \in WriteRows |-> 0]
  /\ now = 1 /\ fixed = FALSE

(***************************************************************************)
(* One write                                                               *)
(***************************************************************************)
\* Mutant: only the revision is compared.
MutMatches(expected, row) == expected.rev = row.rev

\* Everything a receipt compares: a receipt of the hub is not a new revision.
Matches(expected, row) == [expected EXCEPT !.hub = row.hub] = row

NewRevision(before) == IF before.rev >= now THEN before.rev + 1 ELSE now

\* A cell of an immutable property keeps its value, unless the row ends trashed.
Fitting(before, cells, trashed) ==
  ~fixed \/ trashed \/ cells = before.cells \/ before.rev = 0

\* An edit may be stored.
Writable(before, cells, trashed) ==
  /\ before.rev - now <= Skew
  /\ NewRevision(before) <= MaxEdit
  /\ Fitting(before, cells, trashed)

\* The row after an edit to these cells; `before` has revision 0 for a new row.
Edited(before, cells, trashed) ==
  [rev |-> NewRevision(before), cells |-> cells, trashed |-> trashed,
   hub |-> before.rev > 0 /\ before.hub]

\* commitWrite stores the row, its history and what is owed in one transaction.
Store(r, after) ==
  /\ stored' = [stored EXCEPT ![r] = after]
  /\ journal' = IF stored[r].rev > 0 /\ after.cells # stored[r].cells
                  THEN [journal EXCEPT ![r] = after.cells] ELSE journal
  /\ owed' = [owed EXCEPT ![r] = after.rev]

(***************************************************************************)
(* The session's receipts                                                  *)
(***************************************************************************)
Kind(before, after) ==
  IF before.rev = 0 THEN "create"
  ELSE IF before.trashed = after.trashed THEN "edit"
  ELSE IF after.trashed THEN "trash" ELSE "restore"

\* Timestamps alone are nothing to undo.
Undoable(before, after) ==
  before.rev = 0 \/ before.cells # after.cells \/ before.trashed # after.trashed

\* The nearest earlier receipt of the row follows a write that restored its state.
Advance(stack, r, before, after) ==
  LET earlier == {i \in DOMAIN stack : stack[i].row = r}
      last == CHOOSE i \in earlier : \A j \in earlier : j <= i
  IN IF before.rev > 0 /\ earlier # {} /\ Matches(stack[last].after, before)
       THEN [stack EXCEPT ![last].after = after] ELSE stack

Stacked(stack, receipt) ==
  IF Len(stack) = Depth THEN Append(Tail(stack), receipt) ELSE Append(stack, receipt)

Published(r, before, after) ==
  IF Undoable(before, after)
    THEN Stacked(receipts, [row |-> r, before |-> before, after |-> after,
                         fits |-> TRUE, kind |-> Kind(before, after),
                         made |-> after, clean |-> TRUE])
    ELSE Advance(receipts, r, before, after)

\* What the inverse of a receipt makes of the row it finds: a created row is
\* trashed, otherwise only what the write changed goes back.
InverseCells(receipt, row) ==
  IF receipt.kind # "create" /\ receipt.before.cells # receipt.made.cells
    THEN receipt.before.cells ELSE row.cells

InverseTrashed(receipt, row) ==
  CASE receipt.kind \in {"create", "restore"} -> TRUE
    [] receipt.kind = "trash" -> FALSE
    [] OTHER -> row.trashed

\* Another writer changed the row: its receipts no longer describe it.
Soiled(stack, r) ==
  [i \in DOMAIN stack |->
     IF stack[i].row = r THEN [stack[i] EXCEPT !.clean = FALSE] ELSE stack[i]]

(***************************************************************************)
(* The session's operations                                                *)
(***************************************************************************)
\* write: a new row, an edit, a trash or a restore.  A selected revision that is
\* no longer the stored one is refused.
SessionWrite(r) == \E cells \in Contents, trashed \in BOOLEAN :
  LET before == stored[r]  after == Edited(before, cells, trashed) IN
  /\ Writable(before, cells, trashed)
  /\ before.rev > 0 \/ ~trashed
  /\ Store(r, after)
  /\ receipts' = Published(r, before, after)
  /\ UNCHANGED <<now, fixed>>

\* resolveRowAction, in the writer's transaction: the row is live and at the
\* revision that was shown.
Resolved(r, shown) ==
  stored[r].rev > 0 /\ ~stored[r].trashed /\ shown = stored[r].rev

\* runRowAction: the steps of a saved view's action are written as one edit.
RowAction(r) == \E cells \in Contents, shown \in Editions :
  LET before == stored[r]  after == Edited(before, cells, FALSE) IN
  /\ Resolved(r, shown)
  /\ Writable(before, cells, FALSE)
  /\ Store(r, after)
  /\ receipts' = Published(r, before, after)
  /\ UNCHANGED <<now, fixed>>

\* A reorder or an automatic default writes in the session but leaves no receipt.
Uncaptured(r) == \E cells \in Contents :
  LET before == stored[r]  after == Edited(before, cells, before.trashed) IN
  /\ before.rev > 0
  /\ Writable(before, cells, before.trashed)
  /\ Store(r, after)
  /\ receipts' = Soiled(receipts, r)
  /\ UNCHANGED <<now, fixed>>

\* undo names the newest receipt; the row must be exactly what it left.
Undo ==
  /\ receipts # <<>>
  /\ LET top == Last(receipts)
         r == top.row
         before == stored[r]
         cells == InverseCells(top, before)
         trashed == InverseTrashed(top, before)
         after == Edited(before, cells, trashed)
     IN /\ top.fits
        /\ before.rev > 0 /\ Matches(top.after, before)
        /\ Writable(before, cells, trashed)
        /\ Store(r, after)
        /\ receipts' = Advance(Front(receipts), r, top.before, after)
  /\ UNCHANGED <<now, fixed>>

\* replaceAll after a restore, or a new session: no receipt survives.
Forget ==
  /\ receipts' = <<>>
  /\ UNCHANGED <<stored, journal, owed, now, fixed>>

(***************************************************************************)
(* Everyone else                                                           *)
(***************************************************************************)
\* A pulled or foreign row replaces the stored one; a careless tool keeps its revision.
Outside(r) == \E row \in LocalRow :
  /\ row.cells # NoCells /\ row.rev >= stored[r].rev /\ row.rev > 0 /\ row # stored[r]
  /\ row.rev > stored[r].rev => row.hub
  /\ stored' = [stored EXCEPT ![r] = row]
  /\ owed' = IF row.rev > stored[r].rev THEN [owed EXCEPT ![r] = 0] ELSE owed
  /\ receipts' = IF Matches(stored[r], row) THEN receipts ELSE Soiled(receipts, r)
  /\ journal' = IF row.cells # stored[r].cells
                  THEN [journal EXCEPT ![r] = NoCells] ELSE journal
  /\ UNCHANGED <<now, fixed>>

\* The hub received the row as it stands.
Received(r) ==
  /\ owed[r] > 0 /\ owed[r] = stored[r].rev
  /\ owed' = [owed EXCEPT ![r] = 0]
  /\ stored' = [stored EXCEPT ![r].hub = TRUE]
  /\ UNCHANGED <<receipts, journal, now, fixed>>

\* The device's clock is set, forwards or back.
SetClock ==
  /\ now' \in Editions \ {0, now}
  /\ UNCHANGED <<stored, receipts, journal, owed, fixed>>

Recatalog ==
  /\ fixed' = ~fixed
  /\ UNCHANGED <<stored, receipts, journal, owed, now>>

\* Synchronization altered the table.
Reshape ==
  /\ receipts' = [i \in DOMAIN receipts |-> [receipts[i] EXCEPT !.fits = FALSE]]
  /\ UNCHANGED <<stored, journal, owed, now, fixed>>

LocalNext ==
  \/ \E r \in WriteRows : SessionWrite(r) \/ RowAction(r) \/ Uncaptured(r)
                            \/ Outside(r) \/ Received(r)
  \/ Undo \/ Forget \/ SetClock \/ Recatalog \/ Reshape

LocalSpec == LocalInit /\ [][LocalNext]_localVars

(***************************************************************************)
(* What it promises                                                        *)
(***************************************************************************)
Newest(i) == \A j \in DOMAIN receipts : receipts[j].row = receipts[i].row => j <= i

\* A receipt the session would undo finds the very row its write left, however
\* often undo, timestamps or a row of the hub moved its baseline.
UndoExact ==
  \A i \in DOMAIN receipts :
    LET t == receipts[i]  row == stored[t.row] IN
    Newest(i) /\ Matches(t.after, row) =>
      /\ row.cells = t.made.cells /\ row.trashed = t.made.trashed
      /\ t.before.rev > 0 =>
           /\ InverseCells(t, row) = t.before.cells
           /\ InverseTrashed(t, row) = t.before.trashed

\* A receipt nobody else wrote over can always be undone.
UndoAvailable ==
  \A i \in DOMAIN receipts :
    Newest(i) /\ receipts[i].clean => Matches(receipts[i].after, stored[receipts[i].row])

\* The history ends in the cells the row holds, and the hub is owed the revision
\* that is stored, or nothing when another writer's row took its place.
Accounted ==
  \A r \in WriteRows : journal[r] \in {NoCells, stored[r].cells} /\ owed[r] \in {0, stored[r].rev}

\* Undo restores exactly what its own write changed and nobody changed since, it
\* stays available until someone does, and every edit leaves its history and its
\* debt to the hub (commitWrite, publish and advance).
WritesSound == LocalTypeOK /\ UndoExact /\ UndoAvailable /\ Accounted
=============================================================================
