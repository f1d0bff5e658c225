--------------------------- MODULE CoreSyncProofs ---------------------------
(***************************************************************************)
(* What a round of the core client never loses: PushSafe follows a change  *)
(* of the device to the hub, PullSafe a change of the hub to the device.   *)
(* Both first say what the round's own record means at each phase, then    *)
(* which rows of a table in flight are still to be dealt with.  Last, its  *)
(* schema exchange is skipped only when there is nothing to exchange.      *)
(***************************************************************************)
EXTENDS CoreSync, CoreSchema, FiniteSetTheorems, WellFoundedInduction, TLAPS

-----------------------------------------------------------------------------
(* The push invariant *)

\* The tables the round has not finished.
Coming == rd.todo \cup {rd.table}

Head == {"idle", "cursor", "snapshot"}
InTable == {"pull", "push", "receipt"}

\* The record of a round fits its phase.
RoundShape ==
  /\ rd.pc \in Head => rd.todo = {} /\ \A t \in Tables : ~rd.page[t].on
  /\ rd.pc \in InTable => rd.table \in Tables \ rd.todo
  /\ rd.pc \notin InTable => rd.table = NoTable
  /\ rd.pc = "table" => rd.todo # {}
  /\ rd.pc = "receipt" => rd.row \in RowsOf(rd.table) /\ rd.frozen[rd.row] # Absent
  /\ \A t \in Tables : rd.page[t].on /\ rd.page[t].row # 0 => rd.page[t].row \in RowsOf(t)

\* A table that no round has finished.
Unsynced(t) == ~cur[t].proof /\ cur[t].push = 0 /\ cur[t].after = 0

\* The hub's name is pinned before any cursor is stored.
Binding ==
  /\ ~bound => \A t \in Tables : Unsynced(t)
  /\ rd.pc \in {"cursor", "snapshot"} /\ ~rd.bound => \A t \in Tables : Unsynced(t)
  /\ rd.pc \notin {"idle", "cursor"} => bound

\* A frozen row belongs to a table to come and stays due until it is answered.
FrozenFits ==
  \A row \in Rows : rd.frozen[row] # Absent =>
    /\ rd.frozen[row].rev > 0 /\ rd.frozen[row].rev <= rep[row].rev
    /\ TableOf[row] \in Coming /\ PushDue(row)

\* An accepted row is in the hub before its receipt is dealt with.
AnswerFits ==
  rd.pc = "receipt" /\ rd.answer = "accepted" => hub[rd.row].rev >= rd.frozen[rd.row].rev

\* A fetched row is never newer than the hub's.
PagesOld ==
  \A t \in Tables : rd.page[t].on /\ rd.page[t].row # 0 =>
    rd.page[t].ver.rev <= hub[rd.page[t].row].rev

\* The table in progress has rejected the row.
Refused(row) == rd.bad /\ TableOf[row] = rd.table /\ rd.frozen[row] = Absent

\* Written since the snapshot.
WrittenSince(row) ==
  \/ pending[row] > rd.frozen[row].rev
  \/ rep[row].rev >= rd.checkpoint /\ rep[row].rev >= cur[TableOf[row]].push

\* A row ahead of the hub is pushed by this round as it stands, or selected by the next.
AheadInFlight ==
  \A row \in Rows : TableOf[row] \in Coming /\ Ahead(row) =>
    WrittenSince(row) \/ rd.frozen[row].rev = rep[row].rev \/ Refused(row)

\* So is a row of the inbox, which exists.
InboxInFlight ==
  \A row \in inbox :
    /\ rep[row].rev > 0
    /\ TableOf[row] \in Coming => rd.frozen[row] # Absent \/ Refused(row)

Base == TypeOK /\ RoundShape

PushParts ==
  /\ Binding /\ FrozenFits /\ AnswerFits /\ PagesOld
  /\ AheadInFlight /\ InboxInFlight /\ PushCoverage /\ InboxDue

PushSafe == Base /\ PushParts

-----------------------------------------------------------------------------
(* The pull invariant *)

\* Every mark is a reading of the hub's clock, or of a row's arrival.
MarksOld ==
  \A t \in Tables :
    /\ cur[t].pull <= hubClock /\ cur[t].mark <= hubClock /\ cur[t].since <= hubClock
    /\ rd.marks[t] <= hubClock /\ rd.walk[t].mark <= hubClock /\ rd.walk[t].since <= hubClock

\* A row of the device that arrived when the hub's did is not behind it.
ArrivalsFit ==
  \A row \in Rows :
    /\ rep[row].at <= hub[row].at
    /\ rep[row].at = hub[row].at => ~Behind(row)

\* The rows counted at the cursor are still there, at its arrival or a later one.
HeldFits ==
  \A t \in Tables :
    cur[t].held <= Cardinality({row \in RowsOf(t) : rep[row].at >= cur[t].pull})

\* Page progress starts at the cursor it was stored with, and some row arrived since.
ProgressFits ==
  \A t \in Tables : cur[t].after # 0 =>
    /\ cur[t].since = Since(t) \/ Since(t) = 0
    /\ cur[t].since <= Newest(t)
    /\ rd.pc = "snapshot" => cur[t].since <= rd.marks[t]

\* What is not pulled arrived since the cursor, ...
SinceCovers == \A row \in Rows : Behind(row) => hub[row].at >= Since(TableOf[row])

\* ... and, in the part an unfinished walk has passed, since the walk's mark.
ProgressCovers ==
  \A row \in Rows :
    LET t == TableOf[row]
    IN  Behind(row) /\ cur[t].after >= row /\ cur[t].since = Since(t) => hub[row].at >= cur[t].mark

\* The walk of a table to come starts at its cursor; a quiet one ends there as well.
WalksFit ==
  \A t \in Tables \cap Coming :
    /\ rd.walk[t].since = Since(t)
    /\ rd.walk[t].quiet => rd.walk[t].mark = rd.walk[t].since

Deferring(t) == rd.table = t /\ rd.deferred

\* A walk has passed only rows it pulled, or that arrived since its mark.
WalkCovers ==
  \A row \in Rows :
    LET t == TableOf[row]
    IN  /\ t \in Coming /\ ~Deferring(t) /\ Behind(row)
        /\ row <= rd.walk[t].after \/ (t = rd.table /\ rd.pc \in {"push", "receipt"})
        => hub[row].at >= rd.walk[t].mark

\* The row a page holds is the hub's, or another arrived since.
PageFits ==
  \A t \in Tables : rd.page[t].on /\ rd.page[t].row # 0 =>
    LET row == rd.page[t].row
        ver == rd.page[t].ver
    IN  /\ row > rd.walk[t].after /\ hub[row].at >= rd.walk[t].since
        /\ rep[row].at <= ver.at /\ ver.at <= hub[row].at
        /\ ver.at = hub[row].at => ver.rev >= hub[row].rev \/ ~Behind(row)
        /\ hub[row].rev > ver.rev => hub[row].at >= rd.walk[t].mark

\* A page passes over nothing the walk should have pulled.
PageCovers ==
  \A t \in Tables : rd.page[t].on =>
    \A row \in RowsOf(t) :
      /\ Behind(row) /\ row > rd.walk[t].after
      /\ rd.page[t].row = 0 \/ row < rd.page[t].row
      => hub[row].at >= rd.walk[t].mark

PullParts ==
  /\ MarksOld /\ ArrivalsFit /\ HeldFits /\ ProgressFits /\ SinceCovers /\ ProgressCovers
  /\ WalksFit /\ WalkCovers /\ PageFits /\ PageCovers /\ ReceiptsMatch

PullSafe == PushSafe /\ PullParts

-----------------------------------------------------------------------------
(* Numbers *)

\* A non-empty set of naturals has a least element.
LEMMA LeastNatural ==
  ASSUME NEW T \in SUBSET Nat, T # {}
  PROVE  \E m \in T : \A k \in T : m <= k
<1> DEFINE F == {0 .. m : m \in T}
<1>1. F \subseteq FiniteSubsetsOf(Nat)
  <2> SUFFICES ASSUME NEW m \in T PROVE 0 .. m \in FiniteSubsetsOf(Nat)
    OBVIOUS
  <2>1. IsFiniteSet(0 .. m)
    BY FS_Interval
  <2> QED BY <2>1 DEF FiniteSubsetsOf
<1>2. F # {}
  OBVIOUS
<1>3. IsWellFoundedOn(StrictSubsetOrdering(Nat), FiniteSubsetsOf(Nat))
  BY FS_StrictSubsetOrderingWellFounded
<1>4. PICK x \in F : \A y \in F : ~ (<<y, x>> \in StrictSubsetOrdering(Nat))
  <2> HIDE DEF F
  <2> QED BY <1>1, <1>2, <1>3, WFMin
<1>5. PICK m \in T : x = 0 .. m
  OBVIOUS
<1>6. ASSUME NEW k \in T, k < m PROVE FALSE
  <2>1. 0 .. k \in F /\ 0 .. k \subseteq 0 .. m /\ 0 .. k # 0 .. m
    BY <1>6
  <2>2. <<0 .. k, 0 .. m>> \in StrictSubsetOrdering(Nat)
    BY <2>1 DEF StrictSubsetOrdering
  <2> QED BY <1>4, <1>5, <2>1, <2>2
<1> QED BY <1>6

\* What Lowest chooses.
LEMMA LowestIs ==
  ASSUME NEW S \in SUBSET Nat, S # {}
  PROVE  Lowest(S) \in S /\ \A y \in S : Lowest(S) <= y
BY LeastNatural DEF Lowest

\* What Highest chooses.
LEMMA HighestIs ==
  ASSUME NEW n \in Nat, NEW S \in SUBSET (0 .. n)
  PROVE  Highest(S) \in S \cup {0} /\ \A y \in S : Highest(S) >= y
<1> DEFINE T == S \cup {0}
           D == {n - k : k \in T}
<1>1. D \subseteq Nat /\ D # {}
  OBVIOUS
<1>2. PICK d \in D : \A e \in D : d <= e
  <2> HIDE DEF D
  <2> QED BY <1>1, LeastNatural
<1>3. PICK m \in T : d = n - m
  BY <1>2
<1>4. ASSUME NEW k \in T PROVE m >= k
  <2>1. k \in 0 .. n /\ m \in 0 .. n /\ n - k \in D
    BY <1>3, <1>4
  <2>2. n - m <= n - k
    BY <2>1, <1>2, <1>3
  <2> QED BY <2>1, <2>2
<1>5. \E x \in S \cup {0} : \A y \in S \cup {0} : x >= y
  BY <1>4
<1> QED BY <1>5 DEF Highest

\* A part of the rows is counted.
LEMMA CountType ==
  ASSUME NEW S \in SUBSET Rows
  PROVE  IsFiniteSet(S) /\ Cardinality(S) \in 0 .. Cardinality(Rows)
<1>1. IsFiniteSet(Rows)
  BY CoreAssumption
<1>2. IsFiniteSet(S) /\ Cardinality(S) <= Cardinality(Rows)
  BY <1>1, FS_Subset
<1>3. Cardinality(S) \in Nat /\ Cardinality(Rows) \in Nat
  BY <1>1, <1>2, FS_CardinalityType
<1> QED BY <1>2, <1>3

-----------------------------------------------------------------------------
(* Types *)

\* The types are made of numbers.
LEMMA Sets ==
  /\ Revisions \subseteq Nat /\ Arrivals \subseteq Nat /\ Clocks \subseteq Revisions \ {0}
  /\ 0 \in Revisions /\ 0 \in Arrivals /\ 1 \in Arrivals
  /\ Rows \subseteq Nat \ {0} /\ Cardinality(Rows) \in Nat
  /\ Absent \in Versions /\ NoRows \in [Rows -> Versions]
  /\ Unknown \in Int /\ Unknown < 0
<1>1. Cardinality(Rows) \in Nat
  BY CoreAssumption, FS_CardinalityType
<1> QED BY <1>1, CoreAssumption DEF Revisions, Arrivals, Versions, Absent, NoRows, Unknown

\* What a version, a cursor, a walk and a page are made of.
LEMMA Fields ==
  /\ \A x \in Versions : x.rev \in Revisions /\ x.ok \in BOOLEAN /\ x.at \in Arrivals
  /\ \A c \in Cursors : /\ c.pull \in Arrivals /\ c.push \in Revisions /\ c.proof \in BOOLEAN
                        /\ c.held \in Int /\ c.since \in Arrivals /\ c.mark \in Arrivals
                        /\ c.after \in Rows \cup {0}
  /\ \A w \in Walks : /\ w.since \in Arrivals /\ w.mark \in Arrivals
                      /\ w.after \in Rows \cup {0} /\ w.quiet \in BOOLEAN
  /\ \A p \in Pages : /\ p.on \in BOOLEAN /\ p.after \in Rows \cup {0}
                      /\ p.row \in Rows \cup {0} /\ p.ver \in Versions
<1>1. Unknown \in Int /\ 0 .. Cardinality(Rows) \subseteq Int
  BY Sets
<1> QED BY <1>1 DEF Versions, Cursors, Walks, Pages

\* The newest arrival of a table, and how many rows arrived then.
LEMMA NewestType ==
  ASSUME TypeOK, NEW t \in Tables
  PROVE  /\ Newest(t) \in Arrivals /\ Newest(t) <= hubClock
         /\ \A row \in RowsOf(t) : hub[row].at <= Newest(t)
         /\ AtNewest(t) \in 0 .. Cardinality(Rows)
<1> DEFINE S == {hub[row].at : row \in RowsOf(t)}
<1>1. \A row \in Rows : hub[row].at \in Arrivals /\ hub[row].at <= hubClock
  BY DEF TypeOK
<1>2. S \in SUBSET Arrivals /\ \A x \in S : x <= hubClock
  BY <1>1 DEF RowsOf
<1>3. hubClock \in Nat /\ MaxArrival \in Nat
  BY Sets, CoreAssumption DEF TypeOK
<1>4. Highest(S) \in S \cup {0} /\ \A y \in S : Highest(S) >= y
  BY <1>2, <1>3, HighestIs DEF Arrivals
<1>5. AtNewest(t) \in 0 .. Cardinality(Rows)
  BY CountType DEF AtNewest, RowsOf
<1>6. \A row \in RowsOf(t) : hub[row].at \in S /\ hub[row].at \in Nat
  BY <1>1, Sets DEF RowsOf
<1>7. Newest(t) = Highest(S)
  BY DEF Newest
<1>8. Highest(S) \in Nat /\ Highest(S) \in Arrivals /\ Highest(S) <= hubClock
  <2> HIDE DEF S
  <2>1. Arrivals \subseteq Nat /\ 0 \in Arrivals
    BY Sets
  <2>2. CASE Highest(S) \in S
    BY <1>2, <2>1, <2>2
  <2>3. CASE Highest(S) = 0
    BY <1>3, <2>1, <2>3
  <2> QED BY <1>4, <2>2, <2>3
<1> HIDE DEF S
<1>9. \A row \in RowsOf(t) : hub[row].at <= Newest(t)
  BY <1>4, <1>6, <1>7, <1>8
<1> QED BY <1>5, <1>7, <1>8, <1>9

\* The cursors of a walk.
LEMMA SinceTypes ==
  ASSUME TypeOK, NEW t \in Tables
  PROVE  PullSince(t) \in Arrivals /\ PushSince(t) \in Revisions /\ Since(t) \in Arrivals
BY Sets, Fields DEF TypeOK, PullSince, PushSince, Since

\* The mark a walk takes.
LEMMA TopType ==
  ASSUME TypeOK
  PROVE  Top \in Arrivals /\ \A t \in Tables : rd.marks[t] <= Top
<1> DEFINE S == {rd.marks[t] : t \in Tables}
<1>1. \A t \in Tables : rd.marks[t] \in Arrivals
  BY DEF TypeOK, Rounds
<1>2. S \in SUBSET Arrivals /\ \A t \in Tables : rd.marks[t] \in S
  BY <1>1
<1>3. Highest(S) \in S \cup {0} /\ \A y \in S : Highest(S) >= y
  BY <1>2, HighestIs, CoreAssumption DEF Arrivals
<1>4. Top = Highest(S)
  BY DEF Top
<1> HIDE DEF S
<1>5. Top \in Arrivals
  BY <1>2, <1>3, <1>4, Sets
<1>6. \A t \in Tables : rd.marks[t] \in Nat /\ Top \in Nat
  BY <1>1, <1>5, Sets
<1> QED BY <1>2, <1>3, <1>4, <1>5, <1>6

\* A walk is one.
LEMMA WalkType ==
  ASSUME TypeOK, NEW t \in Tables
  PROVE  Walk(t) \in Walks
<1>1. PullSince(t) \in Arrivals /\ Top \in Arrivals
  BY SinceTypes, TopType
<1>2. cur[t].mark \in Arrivals /\ cur[t].after \in Rows \cup {0}
  BY Fields DEF TypeOK
<1>3. Quiet(t) \in BOOLEAN
  BY DEF Quiet
<1> QED BY <1>1, <1>2, <1>3 DEF Walk, Walks

\* A round that has not begun is a round.
LEMMA IdleType == Idle \in Rounds
<1>1. NoWalk \in Walks /\ NoPage \in Pages
  BY Sets DEF NoWalk, NoPage, Walks, Pages
<1>2. 0 \in 0 .. Cardinality(Rows)
  BY Sets
<1> QED BY <1>1, <1>2, Sets DEF Idle, Rounds, Phases

\* The cursors kept when a round begins, and when one takes its snapshot.
LEMMA CursorsType ==
  ASSUME TypeOK, NEW skip
  PROVE  /\ Excluded(Forgotten(cur), skip) \in [Tables -> Cursors]
         /\ \A t \in Tables :
              LET new == Excluded(Forgotten(cur), skip)[t]
              IN  /\ new.push = (IF RolledBack(t) THEN 0 ELSE cur[t].push)
                  /\ new.proof = (cur[t].proof /\ t \notin skip)
                  /\ new.pull = cur[t].pull /\ new.held = cur[t].held
                  /\ new.since = cur[t].since /\ new.mark = cur[t].mark
                  /\ new.after = cur[t].after
<1> DEFINE f == Forgotten(cur)
<1>1. \A t \in Tables : /\ f[t] \in Cursors
                        /\ f[t].push = (IF RolledBack(t) THEN 0 ELSE cur[t].push)
                        /\ f[t].proof = cur[t].proof
                        /\ f[t].pull = cur[t].pull /\ f[t].held = cur[t].held
                        /\ f[t].since = cur[t].since /\ f[t].mark = cur[t].mark
                        /\ f[t].after = cur[t].after
  BY Sets, SMTT(30) DEF Forgotten, TypeOK, Cursors
<1> HIDE DEF f
<1>2. \A t \in Tables :
        LET new == Excluded(f, skip)[t]
        IN  /\ new \in Cursors
            /\ new.push = f[t].push
            /\ new.proof = (f[t].proof /\ t \notin skip)
            /\ new.pull = f[t].pull /\ new.held = f[t].held
            /\ new.since = f[t].since /\ new.mark = f[t].mark
            /\ new.after = f[t].after
  BY <1>1 DEF Excluded, Cursors
<1>3. Excluded(f, skip) \in [Tables -> Cursors]
  BY <1>2 DEF Excluded
<1> QED BY <1>1, <1>2, <1>3 DEF f

-----------------------------------------------------------------------------
(* What each step of a round does to the round's record *)

\* A round begins.
LEMMA BeginEffect ==
  ASSUME Base, NEW skip \in SUBSET Excludable, Begin(skip)
  PROVE  /\ rd.pc = "idle" /\ cur' = Excluded(Forgotten(cur), skip)
         /\ rd' \in Rounds /\ rd'.pc = "cursor" /\ rd'.bound = bound
         /\ rd'.todo = {} /\ rd'.table = NoTable
         /\ rd'.frozen = NoRows /\ rd'.checkpoint = 0 /\ ~rd'.bad /\ ~rd'.deferred
         /\ \A t \in Tables : rd'.page[t] = NoPage /\ rd'.walk[t] = NoWalk /\ rd'.marks[t] = 0
<1>1. rd' = [Idle EXCEPT !.pc = "cursor", !.bound = bound, !.skip = skip]
  BY DEF Begin
<1>2. skip \in SUBSET Tables /\ bound \in BOOLEAN
  BY CoreAssumption DEF Base, TypeOK
<1>3. Idle \in Rounds
  BY IdleType
<1>4. /\ Idle.todo = {} /\ Idle.table = NoTable /\ Idle.frozen = NoRows /\ Idle.checkpoint = 0
      /\ Idle.bad = FALSE /\ Idle.deferred = FALSE
      /\ \A t \in Tables : Idle.page[t] = NoPage /\ Idle.walk[t] = NoWalk /\ Idle.marks[t] = 0
  BY DEF Idle
<1> HIDE DEF Idle
<1>5. /\ rd' \in Rounds /\ rd'.pc = "cursor" /\ rd'.bound = bound
      /\ rd'.todo = Idle.todo /\ rd'.table = Idle.table /\ rd'.frozen = Idle.frozen
      /\ rd'.checkpoint = Idle.checkpoint /\ rd'.bad = Idle.bad /\ rd'.deferred = Idle.deferred
      /\ rd'.page = Idle.page /\ rd'.walk = Idle.walk /\ rd'.marks = Idle.marks
  BY <1>1, <1>2, <1>3 DEF Rounds, Phases
<1> QED BY <1>4, <1>5 DEF Begin

\* The hub's arrivals are read.
LEMMA ReadCursorEffect ==
  ASSUME Base, ReadCursor
  PROVE  /\ rd.pc = "cursor" /\ rd' \in Rounds /\ rd'.pc = "snapshot"
         /\ \A t \in Tables : rd'.marks[t] = Newest(t) /\ rd'.counts[t] = AtNewest(t)
         /\ rd'.bound = rd.bound /\ rd'.skip = rd.skip
         /\ rd'.checkpoint = rd.checkpoint /\ rd'.frozen = rd.frozen
         /\ rd'.walk = rd.walk /\ rd'.page = rd.page /\ rd'.todo = rd.todo
         /\ rd'.table = rd.table /\ rd'.deferred = rd.deferred /\ rd'.bad = rd.bad
         /\ rd'.row = rd.row /\ rd'.answer = rd.answer
<1> DEFINE marks == [t \in Tables |-> Newest(t)]
           counts == [t \in Tables |-> AtNewest(t)]
<1>1. rd' = [rd EXCEPT !.pc = "snapshot", !.marks = marks, !.counts = counts]
  BY DEF ReadCursor
<1>2. marks \in [Tables -> Arrivals] /\ counts \in [Tables -> 0 .. Cardinality(Rows)]
  BY NewestType DEF Base
<1>3. \A t \in Tables : marks[t] = Newest(t) /\ counts[t] = AtNewest(t)
  OBVIOUS
<1> HIDE DEF marks, counts
<1>4. /\ rd' \in Rounds /\ rd'.pc = "snapshot" /\ rd'.marks = marks /\ rd'.counts = counts
      /\ rd'.bound = rd.bound /\ rd'.skip = rd.skip
      /\ rd'.checkpoint = rd.checkpoint /\ rd'.frozen = rd.frozen
      /\ rd'.walk = rd.walk /\ rd'.page = rd.page /\ rd'.todo = rd.todo
      /\ rd'.table = rd.table /\ rd'.deferred = rd.deferred /\ rd'.bad = rd.bad
      /\ rd'.row = rd.row /\ rd'.answer = rd.answer
  BY <1>1, <1>2 DEF Base, TypeOK, Rounds, Phases
<1> QED BY <1>3, <1>4 DEF ReadCursor

\* What a round freezes of a row.
FrozenRow(row) == IF Candidate(row) THEN [rep[row] EXCEPT !.at = 0] ELSE Absent

\* The checkpoint, the candidates and the walks are frozen.
LEMMA SnapshotEffect ==
  ASSUME Base, Snapshot
  PROVE  /\ rd.pc = "snapshot" /\ cur' = Excluded(Forgotten(cur), rd.skip)
         /\ rd' \in Rounds /\ rd'.pc \in {"certify", "table"}
         /\ (rd'.pc = "table" <=> Included # {})
         /\ rd'.checkpoint = clock /\ rd'.todo = Included
         /\ \A row \in Rows : rd'.frozen[row] = FrozenRow(row)
         /\ \A t \in Included : rd'.walk[t] = Walk(t)
         /\ \A t \in Tables \ Included : rd'.walk[t] = NoWalk
         /\ rd'.marks = rd.marks /\ rd'.page = rd.page /\ rd'.table = rd.table
<1> DEFINE frozen == [row \in Rows |-> FrozenRow(row)]
           walk == [t \in Tables |-> IF t \in Included THEN Walk(t) ELSE NoWalk]
           counts == [t \in Tables |-> 0]
           pc == IF Included = {} THEN "certify" ELSE "table"
<1>1. rd' = [rd EXCEPT !.pc = pc, !.bound = FALSE, !.skip = {}, !.checkpoint = clock,
                      !.todo = Included, !.frozen = frozen, !.walk = walk, !.counts = counts]
  BY DEF Snapshot, FrozenRow
<1>2. frozen \in [Rows -> Versions]
  BY Sets DEF FrozenRow, Base, TypeOK, Versions
<1>3. walk \in [Tables -> Walks]
  <2>1. NoWalk \in Walks
    BY Sets DEF NoWalk, Walks
  <2> QED BY <2>1, WalkType DEF Base
<1>4. counts \in [Tables -> 0 .. Cardinality(Rows)] /\ Included \in SUBSET Tables
  BY Sets DEF Included
<1>5. clock \in Revisions
  BY Sets DEF Base, TypeOK
<1>6. /\ \A row \in Rows : frozen[row] = FrozenRow(row)
      /\ \A t \in Included : walk[t] = Walk(t)
      /\ \A t \in Tables \ Included : walk[t] = NoWalk
  BY <1>4
<1>7. pc \in {"certify", "table"} /\ (pc = "table" <=> Included # {})
  OBVIOUS
<1> HIDE DEF frozen, walk, counts, pc
<1>8. /\ rd' \in Rounds /\ rd'.pc = pc /\ rd'.checkpoint = clock /\ rd'.todo = Included
      /\ rd'.frozen = frozen /\ rd'.walk = walk
      /\ rd'.marks = rd.marks /\ rd'.page = rd.page /\ rd'.table = rd.table
  BY <1>1, <1>2, <1>3, <1>4, <1>5, <1>7 DEF Base, TypeOK, Rounds, Phases
<1> QED BY <1>6, <1>7, <1>8 DEF Snapshot

\* The next table is opened.
LEMMA NextTableEffect ==
  ASSUME Base, NextTable
  PROVE  /\ rd.pc = "table" /\ rd.table = NoTable /\ rd' \in Rounds
         /\ rd'.table \in rd.todo /\ rd'.todo = rd.todo \ {rd'.table}
         /\ rd'.pc = (IF rd.walk[rd'.table].quiet THEN "push" ELSE "pull")
         /\ ~rd'.deferred /\ ~rd'.bad
         /\ rd'.bound = rd.bound /\ rd'.skip = rd.skip /\ rd'.marks = rd.marks
         /\ rd'.counts = rd.counts /\ rd'.checkpoint = rd.checkpoint
         /\ rd'.frozen = rd.frozen /\ rd'.walk = rd.walk /\ rd'.page = rd.page
         /\ rd'.row = rd.row /\ rd'.answer = rd.answer
<1> DEFINE t == CHOOSE next \in rd.todo : TRUE
           pc == IF rd.walk[t].quiet THEN "push" ELSE "pull"
           todo == rd.todo \ {t}
<1>1. rd' = [rd EXCEPT !.table = t, !.todo = todo, !.deferred = FALSE, !.bad = FALSE, !.pc = pc]
  BY DEF NextTable, Base, TypeOK, Rounds
<1>2. rd.pc = "table" /\ rd.todo # {} /\ rd.table = NoTable
  BY DEF NextTable, Base, RoundShape, InTable
<1>3. t \in rd.todo /\ t \in Tables
  BY <1>2 DEF Base, TypeOK, Rounds
<1>4. pc \in Phases /\ todo \in SUBSET Tables
  BY DEF Phases, Base, TypeOK, Rounds
<1> HIDE DEF t
<1>5. todo = rd.todo \ {t} /\ pc = IF rd.walk[t].quiet THEN "push" ELSE "pull"
  OBVIOUS
<1> HIDE DEF pc, todo
<1>6. /\ rd' \in Rounds /\ rd'.table = t /\ rd'.todo = todo /\ rd'.pc = pc
      /\ rd'.deferred = FALSE /\ rd'.bad = FALSE
      /\ rd'.bound = rd.bound /\ rd'.skip = rd.skip /\ rd'.marks = rd.marks
      /\ rd'.counts = rd.counts /\ rd'.checkpoint = rd.checkpoint
      /\ rd'.frozen = rd.frozen /\ rd'.walk = rd.walk /\ rd'.page = rd.page
      /\ rd'.row = rd.row /\ rd'.answer = rd.answer
  BY <1>1, <1>3, <1>4 DEF Base, TypeOK, Rounds
<1> QED BY <1>2, <1>3, <1>5, <1>6

\* The page the hub answers with.
FetchedRow(t) == IF Arrived(t) = {} THEN 0 ELSE Lowest(Arrived(t))
FetchedVersion(t) ==
  IF FetchedRow(t) = 0 THEN Absent
  ELSE [rev |-> hub[FetchedRow(t)].rev, ok |-> TRUE, at |-> hub[FetchedRow(t)].at]

\* What it holds.
LEMMA FetchedIs ==
  ASSUME Base, NEW t \in Tables
  PROVE  /\ FetchedRow(t) \in RowsOf(t) \cup {0} /\ FetchedVersion(t) \in Versions
         /\ FetchedRow(t) # 0 =>
              /\ FetchedRow(t) \in Arrived(t)
              /\ FetchedVersion(t).rev = hub[FetchedRow(t)].rev
              /\ FetchedVersion(t).at = hub[FetchedRow(t)].at
         /\ \A row \in Arrived(t) : FetchedRow(t) # 0 /\ FetchedRow(t) <= row
<1>1. Arrived(t) \subseteq RowsOf(t) /\ RowsOf(t) \subseteq Rows
  BY DEF Arrived, RowsOf
<1>2. Rows \subseteq Nat \ {0}
  BY Sets
<1>3. CASE Arrived(t) = {}
  BY <1>3, Sets DEF FetchedRow, FetchedVersion
<1>4. CASE Arrived(t) # {}
  <2>1. /\ FetchedRow(t) \in Arrived(t) /\ \A row \in Arrived(t) : FetchedRow(t) <= row
    BY <1>1, <1>2, <1>4, LowestIs DEF FetchedRow
  <2>2. FetchedRow(t) \in Rows /\ FetchedRow(t) # 0
    BY <1>1, <1>2, <2>1
  <2>3. hub[FetchedRow(t)].rev \in Revisions /\ hub[FetchedRow(t)].at \in Arrivals
    BY <2>2 DEF Base, TypeOK
  <2> QED BY <1>1, <2>1, <2>2, <2>3 DEF FetchedVersion, Versions
<1> QED BY <1>3, <1>4

\* A page is fetched.
LEMMA FetchEffect ==
  ASSUME Base, NEW t \in Tables, Fetch(t)
  PROVE  /\ rd.pc = "pull" /\ t \in Coming /\ ~rd.page[t].on /\ rd' \in Rounds
         /\ t # rd.table => ~rd.walk[t].quiet
         /\ rd'.page[t] = [on |-> TRUE, after |-> rd.walk[t].after,
                           row |-> FetchedRow(t), ver |-> FetchedVersion(t)]
         /\ \A u \in Tables \ {t} : rd'.page[u] = rd.page[u]
         /\ rd'.pc = rd.pc /\ rd'.bound = rd.bound /\ rd'.skip = rd.skip
         /\ rd'.marks = rd.marks /\ rd'.counts = rd.counts
         /\ rd'.checkpoint = rd.checkpoint /\ rd'.frozen = rd.frozen
         /\ rd'.walk = rd.walk /\ rd'.todo = rd.todo /\ rd'.table = rd.table
         /\ rd'.deferred = rd.deferred /\ rd'.bad = rd.bad /\ rd'.row = rd.row
         /\ rd'.answer = rd.answer
<1> DEFINE new == [on |-> TRUE, after |-> rd.walk[t].after,
                   row |-> FetchedRow(t), ver |-> FetchedVersion(t)]
           page == [rd.page EXCEPT ![t] = new]
<1>1. rd' = [rd EXCEPT !.page = page]
  BY DEF Fetch, FetchedRow, FetchedVersion
<1>2. new \in Pages
  <2>1. rd.walk[t].after \in Rows \cup {0}
    BY Fields DEF Base, TypeOK, Rounds
  <2>2. FetchedRow(t) \in Rows \cup {0} /\ FetchedVersion(t) \in Versions
    BY FetchedIs DEF RowsOf
  <2> QED BY <2>1, <2>2 DEF Pages
<1> HIDE DEF new
<1>3. /\ page \in [Tables -> Pages] /\ page[t] = new
      /\ \A u \in Tables \ {t} : page[u] = rd.page[u]
  BY <1>2 DEF Base, TypeOK, Rounds
<1> HIDE DEF page
<1>4. /\ rd' \in Rounds /\ rd'.page = page
      /\ rd'.pc = rd.pc /\ rd'.bound = rd.bound /\ rd'.skip = rd.skip
      /\ rd'.marks = rd.marks /\ rd'.counts = rd.counts
      /\ rd'.checkpoint = rd.checkpoint /\ rd'.frozen = rd.frozen
      /\ rd'.walk = rd.walk /\ rd'.todo = rd.todo /\ rd'.table = rd.table
      /\ rd'.deferred = rd.deferred /\ rd'.bad = rd.bad /\ rd'.row = rd.row
      /\ rd'.answer = rd.answer
  BY <1>1, <1>3 DEF Base, TypeOK, Rounds
<1> QED BY <1>3, <1>4 DEF Fetch, Coming, new

\* The page to be applied: whether it ends the walk, or meets a pending edit.
Page == rd.page[rd.table]
Ended == Page.row = 0
Deferred == ~Ended /\ Defers(Page.row, Page.ver)

\* A page is applied.
LEMMA ApplyEffect ==
  ASSUME Base, Apply
  PROVE  LET t == rd.table
         IN  /\ rd.pc = "pull" /\ t \in Tables \ rd.todo /\ Page.on /\ Page \in Pages
             /\ rd' \in Rounds /\ cur' \in [Tables -> Cursors]
             /\ rep' = (IF Ended \/ Deferred THEN rep
                       ELSE [rep EXCEPT ![Page.row] = Upsert(@, Page.ver)])
             /\ \A u \in Tables \ {t} : cur'[u] = cur[u]
             /\ cur'[t].pull = cur[t].pull /\ cur'[t].push = cur[t].push
             /\ cur'[t].held = cur[t].held /\ cur'[t].proof = cur[t].proof
             /\ Ended => cur'[t] = cur[t]
             /\ ~Ended /\ (Deferred \/ rd.deferred) => cur'[t].after = 0
             /\ ~Ended /\ ~(Deferred \/ rd.deferred) =>
                  /\ cur'[t].since = rd.walk[t].since /\ cur'[t].mark = rd.walk[t].mark
                  /\ cur'[t].after = Page.row
             /\ cur'[t].since \in {0, cur[t].since, rd.walk[t].since}
             /\ cur'[t].mark \in {0, cur[t].mark, rd.walk[t].mark}
             /\ rd'.pc = (IF Ended THEN "push" ELSE "pull")
             /\ rd'.deferred = (rd.deferred \/ Deferred)
             /\ rd'.page[t] = NoPage
             /\ \A u \in Tables \ {t} : rd'.page[u] = rd.page[u] /\ rd'.walk[u] = rd.walk[u]
             /\ rd'.walk[t].since = rd.walk[t].since /\ rd'.walk[t].mark = rd.walk[t].mark
             /\ rd'.walk[t].quiet = rd.walk[t].quiet
             /\ rd'.walk[t].after = (IF Ended THEN 0 ELSE Page.row)
             /\ rd'.bound = rd.bound /\ rd'.skip = rd.skip /\ rd'.marks = rd.marks
             /\ rd'.counts = rd.counts /\ rd'.checkpoint = rd.checkpoint
             /\ rd'.frozen = rd.frozen /\ rd'.todo = rd.todo /\ rd'.table = rd.table
             /\ rd'.bad = rd.bad /\ rd'.row = rd.row /\ rd'.answer = rd.answer
<1> DEFINE t == rd.table
           pc == IF Ended THEN "push" ELSE "pull"
           deferred == rd.deferred \/ Deferred
           page == [rd.page EXCEPT ![t] = NoPage]
           after == IF Ended THEN 0 ELSE Page.row
           walk == [rd.walk EXCEPT ![t] = [rd.walk[t] EXCEPT !.after = after]]
           saved == [cur[t] EXCEPT !.since = rd.walk[t].since, !.mark = rd.walk[t].mark,
                                   !.after = Page.row]
           kept == IF Ended THEN cur[t]
                   ELSE IF Deferred \/ rd.deferred THEN NoProgress(cur[t]) ELSE saved
<1>1. rd.pc = "pull" /\ t \in Tables /\ t \notin rd.todo /\ Page.on
  BY DEF Apply, Base, RoundShape, InTable, Page
<1>2. /\ Page \in Pages /\ Page.row \in Rows \cup {0} /\ cur[t] \in Cursors
      /\ rd.walk[t] \in Walks
  BY <1>1, Fields DEF Base, TypeOK, Rounds, Page
<1>3. /\ rd.walk[t].since \in Arrivals /\ rd.walk[t].mark \in Arrivals
      /\ after \in Rows \cup {0}
  BY <1>2, Fields
<1>4. rd' = [rd EXCEPT !.page = page, !.deferred = deferred, !.walk = walk, !.pc = pc]
  <2>1. rd' = [rd EXCEPT !.page[t] = NoPage, !.deferred = @ \/ Deferred,
                         !.walk[t].after = after, !.pc = pc]
    BY DEF Apply, Page, Ended, Deferred
  <2> HIDE DEF after, pc
  <2> QED BY <2>1, <1>1 DEF Base, TypeOK, Rounds
<1>5. cur' = [cur EXCEPT ![t] = kept]
  <2>1. CASE Ended
    BY <1>1, <2>1 DEF Apply, Page, Ended, Deferred, Base, TypeOK
  <2>2. CASE ~Ended
    BY <1>1, <2>2 DEF Apply, Page, Ended, Deferred, Base, TypeOK
  <2> QED BY <2>1, <2>2
<1>6. /\ saved \in Cursors /\ saved.since = rd.walk[t].since /\ saved.mark = rd.walk[t].mark
      /\ saved.after = Page.row /\ saved.pull = cur[t].pull /\ saved.push = cur[t].push
      /\ saved.held = cur[t].held /\ saved.proof = cur[t].proof
  BY <1>2, <1>3 DEF Cursors
<1>7. /\ NoProgress(cur[t]) \in Cursors /\ NoProgress(cur[t]).since = 0
      /\ NoProgress(cur[t]).mark = 0 /\ NoProgress(cur[t]).after = 0
      /\ NoProgress(cur[t]).pull = cur[t].pull /\ NoProgress(cur[t]).push = cur[t].push
      /\ NoProgress(cur[t]).held = cur[t].held /\ NoProgress(cur[t]).proof = cur[t].proof
  BY <1>2, Sets DEF NoProgress, Cursors
<1> HIDE DEF saved
<1>8. /\ kept \in Cursors /\ kept.pull = cur[t].pull /\ kept.push = cur[t].push
      /\ kept.held = cur[t].held /\ kept.proof = cur[t].proof
      /\ Ended => kept = cur[t]
      /\ ~Ended /\ (Deferred \/ rd.deferred) => kept = NoProgress(cur[t])
      /\ ~Ended /\ ~(Deferred \/ rd.deferred) => kept = saved
  BY <1>2, <1>6, <1>7
<1> HIDE DEF kept
<1>9. /\ cur' \in [Tables -> Cursors] /\ cur'[t] = kept
      /\ \A u \in Tables \ {t} : cur'[u] = cur[u]
  BY <1>1, <1>5, <1>8 DEF Base, TypeOK
<1>10. /\ page \in [Tables -> Pages] /\ page[t] = NoPage
       /\ \A u \in Tables \ {t} : page[u] = rd.page[u]
  <2>1. NoPage \in Pages
    BY Sets DEF NoPage, Pages
  <2> QED BY <1>1, <2>1 DEF Base, TypeOK, Rounds
<1>11. /\ walk \in [Tables -> Walks] /\ \A u \in Tables \ {t} : walk[u] = rd.walk[u]
       /\ walk[t].since = rd.walk[t].since /\ walk[t].mark = rd.walk[t].mark
       /\ walk[t].quiet = rd.walk[t].quiet /\ walk[t].after = after
  <2> DEFINE w == [rd.walk[t] EXCEPT !.after = after]
  <2>1. /\ w \in Walks /\ w.since = rd.walk[t].since /\ w.mark = rd.walk[t].mark
        /\ w.quiet = rd.walk[t].quiet /\ w.after = after
    BY <1>2, <1>3 DEF Walks
  <2> HIDE DEF w
  <2>2. walk = [rd.walk EXCEPT ![t] = w]
    BY DEF w
  <2> QED BY <1>1, <2>1, <2>2 DEF Base, TypeOK, Rounds
<1>12. pc \in Phases /\ deferred \in BOOLEAN
  BY DEF Phases, Base, TypeOK, Rounds
<1> HIDE DEF page, walk
<1>13. /\ rd' \in Rounds /\ rd'.pc = pc /\ rd'.deferred = deferred /\ rd'.page = page
       /\ rd'.walk = walk
       /\ rd'.bound = rd.bound /\ rd'.skip = rd.skip /\ rd'.marks = rd.marks
       /\ rd'.counts = rd.counts /\ rd'.checkpoint = rd.checkpoint
       /\ rd'.frozen = rd.frozen /\ rd'.todo = rd.todo /\ rd'.table = rd.table
       /\ rd'.bad = rd.bad /\ rd'.row = rd.row /\ rd'.answer = rd.answer
  <2> HIDE DEF pc, deferred
  <2> QED BY <1>4, <1>10, <1>11, <1>12 DEF Base, TypeOK, Rounds
<1>14. rep' = (IF Ended \/ Deferred THEN rep ELSE [rep EXCEPT ![Page.row] = Upsert(@, Page.ver)])
  BY DEF Apply, Page, Ended, Deferred
<1>15. cur'[t].since \in {0, cur[t].since, rd.walk[t].since}
       /\ cur'[t].mark \in {0, cur[t].mark, rd.walk[t].mark}
  BY <1>6, <1>7, <1>8, <1>9
<1> QED BY <1>1, <1>2, <1>6, <1>7, <1>8, <1>9, <1>10, <1>11, <1>13, <1>14, <1>15

\* The row to be pushed next.
Pushing == Lowest(ToPush)

\* A row is pushed.
LEMMA PushEffect ==
  ASSUME Base, Push
  PROVE  /\ rd.pc = "push" /\ rd.table \in Tables \ rd.todo
         /\ Pushing \in RowsOf(rd.table) /\ rd.frozen[Pushing] # Absent
         /\ IF HubAccepts(Pushing) THEN HubCommit(Pushing, rd.frozen[Pushing].rev) ELSE hub' = hub
         /\ rd' \in Rounds /\ rd'.pc = "receipt" /\ rd'.row = Pushing
         /\ rd'.answer = (IF HubAccepts(Pushing) THEN "accepted" ELSE "rejected")
         /\ rd'.bound = rd.bound /\ rd'.skip = rd.skip /\ rd'.marks = rd.marks
         /\ rd'.counts = rd.counts /\ rd'.checkpoint = rd.checkpoint
         /\ rd'.frozen = rd.frozen /\ rd'.walk = rd.walk /\ rd'.page = rd.page
         /\ rd'.todo = rd.todo /\ rd'.table = rd.table /\ rd'.deferred = rd.deferred
         /\ rd'.bad = rd.bad
<1>1. rd.pc = "push" /\ rd.table \in Tables \ rd.todo
  BY DEF Push, Base, RoundShape, InTable
<1>2. ToPush # {} /\ ToPush \subseteq Rows /\ ToPush \subseteq Nat
  BY Sets DEF Push, ToPush, RowsOf
<1>3. Pushing \in ToPush /\ Pushing \in Rows
  BY <1>2, LowestIs DEF Pushing
<1>4. Pushing \in RowsOf(rd.table) /\ rd.frozen[Pushing] # Absent
  BY <1>3 DEF ToPush
<1> DEFINE answer == IF HubAccepts(Pushing) THEN "accepted" ELSE "rejected"
<1>5. /\ IF HubAccepts(Pushing) THEN HubCommit(Pushing, rd.frozen[Pushing].rev) ELSE hub' = hub
      /\ rd' = [rd EXCEPT !.pc = "receipt", !.row = Pushing, !.answer = answer]
  BY DEF Push, Pushing
<1>6. answer \in {"none", "accepted", "rejected"}
  OBVIOUS
<1> HIDE DEF answer
<1>7. /\ rd' \in Rounds /\ rd'.pc = "receipt" /\ rd'.row = Pushing /\ rd'.answer = answer
      /\ rd'.bound = rd.bound /\ rd'.skip = rd.skip /\ rd'.marks = rd.marks
      /\ rd'.counts = rd.counts /\ rd'.checkpoint = rd.checkpoint
      /\ rd'.frozen = rd.frozen /\ rd'.walk = rd.walk /\ rd'.page = rd.page
      /\ rd'.todo = rd.todo /\ rd'.table = rd.table /\ rd'.deferred = rd.deferred
      /\ rd'.bad = rd.bad
  BY <1>3, <1>5, <1>6 DEF Base, TypeOK, Rounds, Phases
<1> QED BY <1>1, <1>4, <1>5, <1>7 DEF answer

\* An answer is dealt with.
LEMMA ReceiptEffect ==
  ASSUME Base, Receipt
  PROVE  /\ rd.pc = "receipt" /\ rd.table \in Tables \ rd.todo
         /\ rd.row \in RowsOf(rd.table) /\ rd.row \in Rows /\ rd.frozen[rd.row] # Absent
         /\ rd' \in Rounds /\ rd'.pc = "push" /\ rd'.frozen[rd.row] = Absent
         /\ \A row \in Rows \ {rd.row} : rd'.frozen[row] = rd.frozen[row]
         /\ rd'.bad = (rd.bad \/ rd.answer # "accepted")
         /\ rd.answer = "accepted" =>
              inbox' = inbox \ {rd.row} /\ pending' = [pending EXCEPT ![rd.row] = Received(rd.row)]
         /\ rd.answer # "accepted" =>
              /\ pending' = pending
              /\ inbox' = (IF rep[rd.row].rev = rd.frozen[rd.row].rev
                          THEN inbox \cup {rd.row} ELSE inbox)
         /\ rd'.bound = rd.bound /\ rd'.skip = rd.skip /\ rd'.marks = rd.marks
         /\ rd'.counts = rd.counts /\ rd'.checkpoint = rd.checkpoint
         /\ rd'.walk = rd.walk /\ rd'.page = rd.page /\ rd'.todo = rd.todo
         /\ rd'.table = rd.table /\ rd'.deferred = rd.deferred
<1>1. /\ rd.pc = "receipt" /\ rd.table \in Tables \ rd.todo
      /\ rd.row \in RowsOf(rd.table) /\ rd.frozen[rd.row] # Absent
  BY DEF Receipt, Base, RoundShape, InTable
<1>2. rd.row \in Rows
  BY <1>1 DEF RowsOf
<1> DEFINE frozen == [rd.frozen EXCEPT ![rd.row] = Absent]
           bad == rd.bad \/ rd.answer # "accepted"
<1>3. rd' = [rd EXCEPT !.pc = "push", !.frozen = frozen, !.row = 0, !.answer = "none", !.bad = bad]
  BY DEF Receipt, Base, TypeOK, Rounds
<1>4. /\ frozen \in [Rows -> Versions] /\ frozen[rd.row] = Absent
      /\ \A row \in Rows \ {rd.row} : frozen[row] = rd.frozen[row]
  BY <1>2, Sets DEF Base, TypeOK, Rounds
<1>5. bad \in BOOLEAN
  BY DEF Base, TypeOK, Rounds
<1> HIDE DEF frozen, bad
<1>6. /\ rd' \in Rounds /\ rd'.pc = "push" /\ rd'.frozen = frozen /\ rd'.bad = bad
      /\ rd'.bound = rd.bound /\ rd'.skip = rd.skip /\ rd'.marks = rd.marks
      /\ rd'.counts = rd.counts /\ rd'.checkpoint = rd.checkpoint
      /\ rd'.walk = rd.walk /\ rd'.page = rd.page /\ rd'.todo = rd.todo
      /\ rd'.table = rd.table /\ rd'.deferred = rd.deferred
  BY <1>3, <1>4, <1>5 DEF Base, TypeOK, Rounds, Phases
<1>7. /\ rd.answer = "accepted" =>
           inbox' = inbox \ {rd.row} /\ pending' = [pending EXCEPT ![rd.row] = Received(rd.row)]
      /\ rd.answer # "accepted" =>
           /\ pending' = pending
           /\ inbox' = (IF rep[rd.row].rev = rd.frozen[rd.row].rev
                       THEN inbox \cup {rd.row} ELSE inbox)
  BY DEF Receipt
<1> QED BY <1>1, <1>2, <1>4, <1>6, <1>7 DEF bad

\* A table is finished.
LEMMA EndTableEffect ==
  ASSUME Base, EndTable
  PROVE  LET t == rd.table
             pull == IF rd.deferred THEN cur[t].pull ELSE rd.walk[t].mark
             counted == ~rd.deferred /\ pull # 0 /\ rd.marks[t] = pull
         IN  /\ rd.pc = "push" /\ t \in Tables \ rd.todo /\ ToPush = {}
             /\ rd' \in Rounds /\ cur' \in [Tables -> Cursors]
             /\ \A u \in Tables \ {t} : cur'[u] = cur[u]
             /\ cur'[t].since = 0 /\ cur'[t].mark = 0 /\ cur'[t].after = 0
             /\ cur'[t].pull = pull /\ cur'[t].push = Pushed(t)
             /\ cur'[t].proof = (cur[t].proof \/ ~rd.deferred)
             /\ cur'[t].held = (IF rd.walk[t].quiet THEN cur[t].held
                               ELSE IF counted THEN HeldAt(t, pull) ELSE Unknown)
             /\ rd'.pc = (IF rd.todo = {} THEN "certify" ELSE "table")
             /\ rd'.table = NoTable /\ ~rd'.deferred /\ ~rd'.bad
             /\ \A u \in Tables \ {t} : rd'.walk[u] = rd.walk[u] /\ rd'.marks[u] = rd.marks[u]
             /\ rd'.walk[t] = NoWalk /\ rd'.marks[t] = 0
             /\ rd'.bound = rd.bound /\ rd'.skip = rd.skip /\ rd'.counts = rd.counts
             /\ rd'.checkpoint = rd.checkpoint /\ rd'.frozen = rd.frozen
             /\ rd'.page = rd.page /\ rd'.todo = rd.todo /\ rd'.row = rd.row
             /\ rd'.answer = rd.answer
<1> DEFINE t == rd.table
           pull == IF rd.deferred THEN cur[t].pull ELSE rd.walk[t].mark
           counted == ~rd.deferred /\ pull # 0 /\ rd.marks[t] = pull
           proof == cur[t].proof \/ ~rd.deferred
           held == IF rd.walk[t].quiet THEN cur[t].held
                   ELSE IF counted THEN HeldAt(t, pull) ELSE Unknown
           new == [NoProgress(cur[t]) EXCEPT !.pull = pull, !.push = Pushed(t),
                                             !.proof = proof, !.held = held]
           pc == IF rd.todo = {} THEN "certify" ELSE "table"
           walk == [rd.walk EXCEPT ![t] = NoWalk]
           marks == [rd.marks EXCEPT ![t] = 0]
<1>1. rd.pc = "push" /\ t \in Tables /\ t \notin rd.todo /\ ToPush = {}
  BY DEF EndTable, Base, RoundShape, InTable
<1>2. cur[t] \in Cursors /\ rd.walk[t] \in Walks /\ rd.checkpoint \in Revisions
  BY <1>1 DEF Base, TypeOK, Rounds
<1>3. pull \in Arrivals /\ Pushed(t) \in Revisions /\ proof \in BOOLEAN
  BY <1>2, Fields DEF Pushed
<1>4. held \in {Unknown} \cup (0 .. Cardinality(Rows))
  <2>1. HeldAt(t, pull) \in 0 .. Cardinality(Rows)
    BY CountType DEF HeldAt, RowsOf
  <2>2. cur[t].held \in {Unknown} \cup (0 .. Cardinality(Rows))
    BY <1>2 DEF Cursors
  <2> QED BY <2>1, <2>2
<1>5. /\ rd' = [rd EXCEPT !.pc = pc, !.table = NoTable, !.walk = walk, !.marks = marks,
                         !.deferred = FALSE, !.bad = FALSE]
      /\ cur' = [cur EXCEPT ![t] = new]
  <2>1. rd' = [rd EXCEPT !.pc = pc, !.table = NoTable, !.walk = walk, !.marks = marks,
                         !.deferred = FALSE, !.bad = FALSE]
    BY <1>1 DEF EndTable, Base, TypeOK, Rounds
  <2>2. cur' = [cur EXCEPT ![t] = new]
    BY DEF EndTable
  <2> QED BY <2>1, <2>2
<1>6. NoProgress(cur[t]) \in Cursors /\ NoProgress(cur[t]).since = 0
      /\ NoProgress(cur[t]).mark = 0 /\ NoProgress(cur[t]).after = 0
  BY <1>2, Sets DEF NoProgress, Cursors
<1>7. walk \in [Tables -> Walks] /\ walk[t] = NoWalk /\ \A u \in Tables \ {t} : walk[u] = rd.walk[u]
  <2>1. NoWalk \in Walks
    BY Sets DEF NoWalk, Walks
  <2> QED BY <1>1, <2>1 DEF Base, TypeOK, Rounds
<1>8. marks \in [Tables -> Arrivals] /\ marks[t] = 0 /\ \A u \in Tables \ {t} : marks[u] = rd.marks[u]
  BY <1>1, Sets DEF Base, TypeOK, Rounds
<1>9. pc \in Phases
  BY DEF Phases
<1>10. /\ pull = (IF rd.deferred THEN cur[t].pull ELSE rd.walk[t].mark)
       /\ proof = (cur[t].proof \/ ~rd.deferred)
       /\ held = (IF rd.walk[t].quiet THEN cur[t].held
                 ELSE IF counted THEN HeldAt(t, pull) ELSE Unknown)
       /\ pc = (IF rd.todo = {} THEN "certify" ELSE "table")
  OBVIOUS
<1> HIDE DEF pull, proof, held, pc, walk, marks
<1>11. /\ new \in Cursors /\ new.since = 0 /\ new.mark = 0 /\ new.after = 0
       /\ new.pull = pull /\ new.push = Pushed(t) /\ new.proof = proof /\ new.held = held
  <2> HIDE DEF NoProgress
  <2> QED BY <1>3, <1>4, <1>6 DEF Cursors
<1> HIDE DEF new
<1>12. /\ cur' \in [Tables -> Cursors] /\ cur'[t] = new
       /\ \A u \in Tables \ {t} : cur'[u] = cur[u]
  BY <1>1, <1>5, <1>11 DEF Base, TypeOK
<1>13. /\ rd' \in Rounds /\ rd'.pc = pc /\ rd'.table = NoTable /\ rd'.walk = walk
       /\ rd'.marks = marks /\ rd'.deferred = FALSE /\ rd'.bad = FALSE
       /\ rd'.bound = rd.bound /\ rd'.skip = rd.skip /\ rd'.counts = rd.counts
       /\ rd'.checkpoint = rd.checkpoint /\ rd'.frozen = rd.frozen
       /\ rd'.page = rd.page /\ rd'.todo = rd.todo /\ rd'.row = rd.row
       /\ rd'.answer = rd.answer
  BY <1>5, <1>7, <1>8, <1>9 DEF Base, TypeOK, Rounds
<1> QED BY <1>1, <1>7, <1>8, <1>10, <1>11, <1>12, <1>13 DEF pull

-----------------------------------------------------------------------------
(* Every step keeps the types and the shape of the round *)

\* What a row of the hub, and of the device, is made of.
LEMMA Numbers ==
  ASSUME TypeOK
  PROVE  /\ \A row \in Rows : /\ hub[row].rev \in Nat /\ hub[row].at \in Nat
                              /\ rep[row].rev \in Nat /\ rep[row].at \in Nat
                              /\ pending[row] \in Nat /\ rd.frozen[row].rev \in Nat
                              /\ TableOf[row] \in Tables /\ row \in RowsOf(TableOf[row])
                              /\ hub[row].at <= hubClock
         /\ hubClock \in Nat /\ clock \in Nat /\ rd.checkpoint \in Nat
<1>1. Revisions \subseteq Nat /\ Arrivals \subseteq Nat /\ Clocks \subseteq Revisions
  BY Sets
<1>2. \A row \in Rows : TableOf[row] \in Tables /\ row \in RowsOf(TableOf[row])
  BY CoreAssumption DEF RowsOf
<1>3. \A row \in Rows : rep[row] \in Versions /\ rd.frozen[row] \in Versions
  BY DEF TypeOK, Rounds
<1>4. hubClock \in Nat /\ clock \in Nat /\ rd.checkpoint \in Nat
  BY <1>1 DEF TypeOK, Rounds
<1>5. \A row \in Rows : rep[row].rev \in Nat /\ rep[row].at \in Nat /\ rd.frozen[row].rev \in Nat
  BY <1>1, <1>3, Fields
<1>6. \A row \in Rows : hub[row].rev \in Nat /\ hub[row].at \in Nat /\ pending[row] \in Nat
                      /\ hub[row].at <= hubClock
  BY <1>1 DEF TypeOK
<1> QED BY <1>2, <1>4, <1>5, <1>6

\* The cursors, marks and walks of a table.
LEMMA TableNumbers ==
  ASSUME TypeOK, NEW t \in Tables
  PROVE  /\ cur[t].pull \in Nat /\ cur[t].push \in Nat /\ cur[t].held \in Int
         /\ cur[t].since \in Nat /\ cur[t].mark \in Nat /\ cur[t].after \in Nat
         /\ rd.marks[t] \in Nat /\ rd.walk[t].since \in Nat /\ rd.walk[t].mark \in Nat
         /\ rd.walk[t].after \in Nat /\ rd.page[t].row \in Nat
         /\ rd.page[t].ver.rev \in Nat /\ rd.page[t].ver.at \in Nat
         /\ Since(t) \in Nat
<1>1. Revisions \subseteq Nat /\ Arrivals \subseteq Nat /\ Rows \cup {0} \subseteq Nat
  BY Sets
<1>2. /\ cur[t] \in Cursors /\ rd.marks[t] \in Arrivals /\ rd.walk[t] \in Walks
      /\ rd.page[t] \in Pages
  BY DEF TypeOK, Rounds
<1>3. /\ cur[t].pull \in Nat /\ cur[t].push \in Nat /\ cur[t].held \in Int
      /\ cur[t].since \in Nat /\ cur[t].mark \in Nat /\ cur[t].after \in Nat
  BY <1>1, <1>2, Fields
<1>4. /\ rd.walk[t].since \in Nat /\ rd.walk[t].mark \in Nat /\ rd.walk[t].after \in Nat
      /\ rd.page[t].row \in Nat /\ rd.page[t].ver \in Versions
  BY <1>1, <1>2, Fields
<1>5. rd.page[t].ver.rev \in Nat /\ rd.page[t].ver.at \in Nat
  BY <1>1, <1>4, Fields
<1>6. rd.marks[t] \in Nat /\ Since(t) \in Nat
  BY <1>1, <1>2, SinceTypes
<1> QED BY <1>3, <1>4, <1>5, <1>6

HubRows0 == [rev : Revisions, at : Arrivals]

\* No hub row goes back, and what is new arrives now.
HubGrown ==
  /\ hubClock' >= hubClock
  /\ \A row \in Rows :
       /\ hub'[row].rev >= hub[row].rev /\ hub'[row].at >= hub[row].at
       /\ hub'[row].rev > hub[row].rev => hub'[row].at = hubClock
       /\ hub'[row].rev = hub[row].rev => hub'[row].at = hub[row].at

\* What a commit does to the hub.
LEMMA CommitIs ==
  ASSUME TypeOK, NEW row \in Rows, NEW rev \in Revisions, HubCommit(row, rev), hubClock' = hubClock
  PROVE  /\ hub' \in [Rows -> HubRows0] /\ \A r \in Rows : hub'[r].at <= hubClock
         /\ HubGrown
         /\ \A r \in Rows \ {row} : hub'[r] = hub[r]
         /\ hub'[row].rev >= rev
         /\ hub'[row].rev \in {rev, hub[row].rev}
<1>1. /\ hub \in [Rows -> HubRows0] /\ hubClock \in Arrivals
      /\ \A r \in Rows : hub[r].at <= hubClock /\ hub[r].rev \in Nat /\ hub[r].at \in Nat
  BY Numbers DEF TypeOK, HubRows0
<1>2. hubClock \in Nat /\ rev \in Nat
  BY <1>1, Sets
<1>3. CASE rev > hub[row].rev
  <2>1. hub' = [hub EXCEPT ![row] = [rev |-> rev, at |-> hubClock]]
    BY <1>3 DEF HubCommit
  <2>2. /\ hub'[row].rev = rev /\ hub'[row].at = hubClock /\ \A r \in Rows \ {row} : hub'[r] = hub[r]
        /\ hub' \in [Rows -> HubRows0]
    BY <1>1, <2>1 DEF HubRows0
  <2> QED BY <1>1, <1>2, <1>3, <2>2 DEF HubGrown
<1>4. CASE ~(rev > hub[row].rev)
  <2>1. hub' = hub
    BY <1>4 DEF HubCommit
  <2> QED BY <1>1, <1>2, <1>4, <2>1 DEF HubGrown
<1> QED BY <1>3, <1>4

\* An unchanged hub has not gone back.
LEMMA SameHub == TypeOK /\ hub' = hub /\ hubClock' = hubClock => HubGrown
BY Numbers DEF HubGrown

\* The shape of a round that is given up or over.
LEMMA IdleBase ==
  ASSUME Base, rd' = Idle, UNCHANGED <<hub, hubClock, clock, device>>, faults' \in 0 .. MaxFaults
  PROVE  Base'
<1>1. rd' \in Rounds
  BY IdleType
<1>2. TypeOK'
  BY <1>1 DEF Base, TypeOK, device
<1>3. RoundShape'
  BY DEF RoundShape, Idle, InTable, Head, NoPage
<1> QED BY <1>2, <1>3 DEF Base

\* The actions that change nothing but the round's record and the cursors.
LEMMA QuietBase ==
  ASSUME Base, rd' \in Rounds, cur' \in [Tables -> Cursors], bound' \in BOOLEAN,
         UNCHANGED <<hub, hubClock, rep, clock, pending, inbox, faults>>
  PROVE  TypeOK'
BY DEF Base, TypeOK

\* The initial state.
LEMMA BaseInit == Init => Base
<1> SUFFICES ASSUME Init PROVE Base
  OBVIOUS
<1>1. rd \in Rounds
  BY IdleType DEF Init
<1>2. cur \in [Tables -> Cursors]
  <2>1. FreshCursor \in Cursors
    BY Sets DEF FreshCursor, Cursors
  <2> QED BY <2>1 DEF Init
<1>3. clock \in Clocks
  <2>1. Clocks \in SUBSET Nat /\ Clocks # {}
    BY Sets, CoreAssumption
  <2> QED BY <2>1, LowestIs DEF Init
<1>4. hub \in [Rows -> HubRows0] /\ \A row \in Rows : hub[row].at <= hubClock
  BY Sets DEF Init, HubRows0
<1>5. pending \in [Rows -> Revisions] /\ \A row \in Rows : pending[row] <= rep[row].rev
  BY Sets DEF Init, NoRows, Absent
<1>6. 0 \in 0 .. MaxFaults
  BY CoreAssumption
<1>7. hubClock \in Arrivals \ {0} /\ rep \in [Rows -> Versions] /\ inbox \in SUBSET Rows
      /\ bound \in BOOLEAN /\ faults \in 0 .. MaxFaults
  <2>1. 1 \in Arrivals \ {0} /\ NoRows \in [Rows -> Versions]
    BY Sets
  <2>2. /\ hubClock = 1 /\ rep = NoRows /\ inbox = {} /\ bound = FALSE /\ faults = 0
    BY DEF Init
  <2> QED BY <1>6, <2>1, <2>2
<1>t. TypeOK
  BY <1>1, <1>2, <1>3, <1>4, <1>5, <1>7 DEF TypeOK, HubRows0
<1>8. RoundShape
  BY DEF Init, RoundShape, Idle, InTable, Head, NoPage
<1> QED BY <1>t, <1>8 DEF Base

\* The actions of a round.
LEMMA BaseRound == Base /\ Round => Base'
<1> SUFFICES ASSUME Base, Round PROVE Base'
  OBVIOUS
<1>1. ASSUME NEW skip \in SUBSET Excludable, Begin(skip) PROVE Base'
  <2>1. TypeOK'
    BY <1>1, BeginEffect, CursorsType, QuietBase DEF Begin, Base, TypeOK
  <2>2. RoundShape'
    BY <1>1, BeginEffect DEF RoundShape, InTable, Head, NoPage
  <2> QED BY <2>1, <2>2 DEF Base
<1>2. CASE ReadCursor
  <2>1. TypeOK'
    BY <1>2, ReadCursorEffect, QuietBase DEF ReadCursor, Base, TypeOK
  <2>2. RoundShape'
    BY <1>2, ReadCursorEffect DEF Base, RoundShape, InTable, Head
  <2> QED BY <2>1, <2>2 DEF Base
<1>3. CASE Snapshot
  <2>1. TypeOK'
    BY <1>3, SnapshotEffect, CursorsType, QuietBase DEF Snapshot, Base, TypeOK
  <2>2. RoundShape'
    BY <1>3, SnapshotEffect DEF Base, RoundShape, InTable, Head
  <2> QED BY <2>1, <2>2 DEF Base
<1>4. CASE NextTable
  <2>1. TypeOK'
    BY <1>4, NextTableEffect, QuietBase DEF NextTable, device, Base, TypeOK
  <2>2. rd'.table \in Tables \ rd'.todo /\ rd'.pc \in {"push", "pull"} /\ rd'.page = rd.page
    BY <1>4, NextTableEffect DEF Base, TypeOK, Rounds
  <2>3. RoundShape'
    BY <2>2 DEF Base, RoundShape, InTable, Head
  <2> QED BY <2>1, <2>3 DEF Base
<1>5. ASSUME NEW t \in Tables, Fetch(t) PROVE Base'
  <2>1. TypeOK'
    BY <1>5, FetchEffect, QuietBase DEF Fetch, device, Base, TypeOK
  <2>2. \A u \in Tables : rd'.page[u].on /\ rd'.page[u].row # 0 => rd'.page[u].row \in RowsOf(u)
    <3>1. /\ rd'.page[t] = [on |-> TRUE, after |-> rd.walk[t].after,
                             row |-> FetchedRow(t), ver |-> FetchedVersion(t)]
          /\ \A u \in Tables \ {t} : rd'.page[u] = rd.page[u]
      BY <1>5, FetchEffect
    <3>2. FetchedRow(t) \in RowsOf(t) \cup {0}
      BY FetchedIs
    <3>3. rd'.page[t].row \in RowsOf(t) \cup {0}
      BY <3>1, <3>2
    <3>4. \A u \in Tables : rd.page[u].on /\ rd.page[u].row # 0 => rd.page[u].row \in RowsOf(u)
      BY DEF Base, RoundShape
    <3> QED BY <3>1, <3>3, <3>4
  <2>3. RoundShape'
    BY <1>5, <2>2, FetchEffect DEF Base, RoundShape, InTable, Head
  <2> QED BY <2>1, <2>3 DEF Base
<1>6. CASE Apply
  <2>1. /\ Page.row # 0 => Page.row \in RowsOf(rd.table)
        /\ Page.ver \in Versions /\ RowsOf(rd.table) \subseteq Rows
    <3>1. rd.page[rd.table].on /\ rd.table \in Tables /\ Page \in Pages
      BY <1>6, ApplyEffect DEF Page
    <3> QED BY <3>1, Fields DEF Base, RoundShape, Page, RowsOf
  <2>2. rep' \in [Rows -> Versions] /\ \A row \in Rows : rep'[row].rev >= rep[row].rev
    <3>1. rep \in [Rows -> Versions] /\ \A row \in Rows : rep[row].rev \in Nat
      BY Numbers DEF Base, TypeOK
    <3>2. CASE Ended \/ Deferred
      BY <1>6, <3>1, <3>2, ApplyEffect
    <3>3. CASE ~(Ended \/ Deferred)
      <4>1. Page.row \in Rows /\ rep' = [rep EXCEPT ![Page.row] = Upsert(rep[Page.row], Page.ver)]
        BY <1>6, <2>1, <3>3, ApplyEffect DEF Ended
      <4>2. /\ Upsert(rep[Page.row], Page.ver) \in Versions
            /\ Upsert(rep[Page.row], Page.ver).rev >= rep[Page.row].rev
        <5>1. Page.ver.rev \in Nat /\ rep[Page.row].rev \in Nat
          BY <2>1, <3>1, <4>1, Fields, Sets
        <5> QED BY <2>1, <3>1, <4>1, <5>1 DEF Upsert
      <4> QED BY <3>1, <4>1, <4>2
    <3> QED BY <3>2, <3>3
  <2>3. \A row \in Rows : pending[row] <= rep'[row].rev
    <3>1. \A row \in Rows : rep[row].rev \in Nat /\ pending[row] \in Nat /\ rep'[row].rev \in Nat
      BY <2>2, Numbers, Fields, Sets DEF Base
    <3> QED BY <2>2, <3>1 DEF Base, TypeOK
  <2>4. TypeOK'
    BY <1>6, <2>2, <2>3, ApplyEffect DEF Apply, Base, TypeOK
  <2>5. RoundShape'
    <3>1. rd'.table = rd.table /\ rd'.todo = rd.todo /\ rd'.pc \in {"push", "pull"}
          /\ rd.table \in Tables \ rd.todo
      BY <1>6, ApplyEffect
    <3>2. \A u \in Tables : rd'.page[u] = rd.page[u] \/ ~rd'.page[u].on
      BY <1>6, ApplyEffect DEF NoPage
    <3>3. \A u \in Tables : rd'.page[u].on /\ rd'.page[u].row # 0 => rd'.page[u].row \in RowsOf(u)
      BY <3>2 DEF Base, RoundShape
    <3> QED BY <3>1, <3>3 DEF RoundShape, InTable, Head
  <2> QED BY <2>4, <2>5 DEF Base
<1>7. CASE Push
  <2>1. Pushing \in Rows /\ rd.frozen[Pushing].rev \in Revisions
    BY <1>7, PushEffect, Fields DEF RowsOf, Base, TypeOK, Rounds
  <2>2. hub' \in [Rows -> HubRows0] /\ \A r \in Rows : hub'[r].at <= hubClock
    <3>1. CASE HubAccepts(Pushing)
      BY <1>7, <2>1, <3>1, PushEffect, CommitIs DEF Base, Push
    <3>2. CASE ~HubAccepts(Pushing)
      BY <1>7, <3>2, PushEffect DEF Base, TypeOK, HubRows0
    <3> QED BY <3>1, <3>2
  <2>3. TypeOK'
    BY <1>7, <2>2, PushEffect DEF Push, device, Base, TypeOK, HubRows0
  <2>4. RoundShape'
    BY <1>7, PushEffect DEF Base, RoundShape, InTable, Head
  <2> QED BY <2>3, <2>4 DEF Base
<1>8. CASE Receipt
  <2>1. inbox' \in SUBSET Rows
    BY <1>8, ReceiptEffect DEF Base, TypeOK
  <2>2. pending' \in [Rows -> Revisions] /\ \A row \in Rows : pending'[row] <= rep[row].rev
    <3>1. Received(rd.row) \in {0, pending[rd.row]} /\ rd.row \in Rows
      BY <1>8, ReceiptEffect DEF Received
    <3>2. \A row \in Rows : 0 <= rep[row].rev
      BY Numbers DEF Base
    <3> QED BY <1>8, <3>1, <3>2, ReceiptEffect, Sets DEF Base, TypeOK
  <2>3. TypeOK'
    BY <1>8, <2>1, <2>2, ReceiptEffect DEF Receipt, Base, TypeOK
  <2>4. RoundShape'
    BY <1>8, ReceiptEffect DEF Base, RoundShape, InTable, Head
  <2> QED BY <2>3, <2>4 DEF Base
<1>9. CASE EndTable
  <2>1. TypeOK'
    BY <1>9, EndTableEffect, QuietBase DEF EndTable, Base, TypeOK
  <2>2. RoundShape'
    BY <1>9, EndTableEffect DEF Base, RoundShape, InTable, Head
  <2> QED BY <2>1, <2>2 DEF Base
<1>10. CASE Certify
  BY <1>10, IdleBase DEF Certify, Base, TypeOK
<1> QED BY <1>1, <1>2, <1>3, <1>4, <1>5, <1>6, <1>7, <1>8, <1>9, <1>10 DEF Round

\* A step that leaves the round alone.
LEMMA ShapeKept == RoundShape /\ rd' = rd => RoundShape'
BY DEF RoundShape, InTable, Head

\* A write on the device: the row, and perhaps its receipt, take a new revision.
LEMMA WriteIs ==
  ASSUME Base, NEW row \in Rows, NEW ok \in BOOLEAN, Edit(row, ok) \/ OtherWriter(row, ok)
  PROVE  /\ rep' \in [Rows -> Versions] /\ rep'[row].rev > rep[row].rev
         /\ rep'[row].at = rep[row].at
         /\ \A r \in Rows \ {row} : rep'[r] = rep[r]
         /\ \/ row \in EditRows /\ pending' = [pending EXCEPT ![row] = rep'[row].rev]
            \/ row \in OtherRows /\ pending' = pending /\ rep'[row].rev = clock
         /\ Base'
<1>1. clock \in Nat /\ rep \in [Rows -> Versions] /\ rep[row].rev \in Nat /\ clock \in Revisions
  BY Numbers, Sets DEF Base, TypeOK
<1>2. PICK rev \in Nat :
        /\ rev <= MaxRevision /\ rev > rep[row].rev
        /\ rep' = [rep EXCEPT ![row].rev = rev, ![row].ok = ok]
        /\ \/ row \in EditRows /\ pending' = [pending EXCEPT ![row] = rev]
           \/ row \in OtherRows /\ pending' = pending /\ rev = clock
  <2>1. CASE Edit(row, ok)
    <3> DEFINE S == {clock, rep[row].rev + 1}
               n == clock + rep[row].rev + 1
    <3>1. n \in Nat /\ S \in SUBSET (0 .. n)
      BY <1>1
    <3>2. Highest(S) \in S \cup {0} /\ \A y \in S : Highest(S) >= y
      <4> HIDE DEF S, n
      <4> QED BY <3>1, HighestIs
    <3>3. Highest(S) \in Nat /\ Highest(S) >= rep[row].rev + 1
      BY <1>1, <3>2
    <3>4. /\ Highest(S) <= MaxRevision /\ row \in EditRows
          /\ rep' = [rep EXCEPT ![row].rev = Highest(S), ![row].ok = ok]
          /\ pending' = [pending EXCEPT ![row] = Highest(S)]
      BY <2>1 DEF Edit
    <3> HIDE DEF S
    <3>5. Highest(S) > rep[row].rev
      BY <1>1, <3>3
    <3> QED BY <3>3, <3>4, <3>5
  <2>2. CASE OtherWriter(row, ok)
    <3>1. clock <= MaxRevision
      BY <1>1, CoreAssumption DEF Revisions
    <3> QED BY <1>1, <2>2, <3>1 DEF OtherWriter
  <2> QED BY <2>1, <2>2
<1>3. rev \in Revisions
  BY <1>2, CoreAssumption DEF Revisions
<1>4. /\ rep' \in [Rows -> Versions] /\ rep'[row].rev = rev /\ rep'[row].at = rep[row].at
      /\ \A r \in Rows \ {row} : rep'[r] = rep[r]
  BY <1>1, <1>2, <1>3 DEF Versions
<1>5. pending' \in [Rows -> Revisions] /\ \A r \in Rows : pending'[r] <= rep'[r].rev
  <2>1. pending \in [Rows -> Revisions] /\ \A r \in Rows : pending[r] <= rep[r].rev
    BY DEF Base, TypeOK
  <2>2. pending[row] \in Nat
    BY Numbers DEF Base
  <2> QED BY <1>1, <1>2, <1>3, <1>4, <2>1, <2>2
<1>6. UNCHANGED <<hub, hubClock, clock, inbox, cur, bound, rd, faults>>
  BY DEF Edit, OtherWriter
<1>7. Base'
  BY <1>4, <1>5, <1>6, ShapeKept DEF Base, TypeOK
<1> QED BY <1>2, <1>4, <1>7

\* A commit by another client.
LEMMA HubWriteIs ==
  ASSUME Base, NEW row \in Rows, NEW rev \in 1 .. MaxRevision, HubWrite(row, rev)
  PROVE  /\ HubGrown /\ Base'
         /\ \A r \in Rows \ {row} : hub'[r] = hub[r]
         /\ hub'[row].at = hubClock
<1>1. rev \in Revisions /\ hubClock' = hubClock /\ HubCommit(row, rev) /\ rev > hub[row].rev
  BY DEF HubWrite, Revisions
<1>2. /\ hub' \in [Rows -> HubRows0] /\ \A r \in Rows : hub'[r].at <= hubClock
      /\ HubGrown /\ \A r \in Rows \ {row} : hub'[r] = hub[r]
      /\ hub'[row].rev >= rev
  BY <1>1, CommitIs DEF Base
<1>3. TypeOK' /\ RoundShape'
  BY <1>1, <1>2, ShapeKept DEF HubWrite, device, Base, TypeOK, HubRows0
<1>4. hub'[row].at = hubClock
  <2>1. hub' = [hub EXCEPT ![row] = [rev |-> rev, at |-> hubClock]] /\ hub \in [Rows -> HubRows0]
    BY <1>1 DEF HubCommit, Base, TypeOK, HubRows0
  <2> QED BY <2>1
<1> QED BY <1>2, <1>3, <1>4 DEF Base

\* Every step keeps the types and the shape: writers, the hub, failures, the round.
LEMMA BaseStep == Base /\ [Next]_vars => Base'
<1> SUFFICES ASSUME Base, [Next]_vars PROVE Base'
  OBVIOUS
<1>1. CASE Round
  BY <1>1, BaseRound
<1>2. CASE Fail
  <2>1. faults' \in 0 .. MaxFaults
    BY <1>2, CoreAssumption DEF Fail, Base, TypeOK
  <2> QED BY <1>2, <2>1, IdleBase DEF Fail
<1>3. CASE HubTick
  <2>1. hubClock \in Nat /\ \A row \in Rows : hub[row].at \in Nat /\ hub[row].at <= hubClock
    BY Numbers DEF Base
  <2>2. hubClock' \in Arrivals \ {0} /\ \A row \in Rows : hub[row].at <= hubClock'
    <3>1. hubClock' = hubClock + 1 /\ hubClock < MaxArrival /\ MaxArrival \in Nat
      BY <1>3, CoreAssumption DEF HubTick
    <3>2. hubClock' \in Arrivals \ {0}
      BY <2>1, <3>1 DEF Arrivals
    <3>3. \A row \in Rows : hub[row].at <= hubClock'
      BY <2>1, <3>1
    <3> QED BY <3>2, <3>3
  <2> QED BY <1>3, <2>2, ShapeKept DEF HubTick, device, Base, TypeOK
<1>4. ASSUME NEW row \in Rows, NEW ok \in BOOLEAN, Edit(row, ok) \/ OtherWriter(row, ok)
      PROVE  Base'
  BY <1>4, WriteIs
<1>5. ASSUME NEW row \in Rows, NEW rev \in 1 .. MaxRevision, HubWrite(row, rev) PROVE Base'
  BY <1>5, HubWriteIs
<1>6. ASSUME NEW now \in Clocks, SetClock(now) PROVE Base'
  BY <1>6, ShapeKept DEF SetClock, device, Base, TypeOK
<1>7. CASE UNCHANGED vars
  BY <1>7, ShapeKept DEF vars, device, Base, TypeOK
<1> QED BY <1>1, <1>2, <1>3, <1>4, <1>5, <1>6, <1>7 DEF Next

-----------------------------------------------------------------------------
(* The push invariant is kept *)

\* A fetched row's version is a number, and its row exists.
LEMMA PageNumbers ==
  ASSUME Base, NEW t \in Tables, rd.page[t].on, rd.page[t].row # 0
  PROVE  /\ rd.page[t].row \in Rows /\ TableOf[rd.page[t].row] = t
         /\ rd.page[t].ver.rev \in Nat /\ rd.page[t].ver.at \in Nat
BY TableNumbers DEF Base, RoundShape, RowsOf

\* The hub only grows: what was fetched stays old.
LEMMA PagesStay ==
  ASSUME Base, Base', PagesOld, HubGrown,
         \A t \in Tables : rd'.page[t] = rd.page[t] \/ ~rd'.page[t].on
  PROVE  PagesOld'
<1> SUFFICES ASSUME NEW t \in Tables, rd'.page[t].on, rd'.page[t].row # 0
             PROVE  rd'.page[t].ver.rev <= hub'[rd'.page[t].row].rev
  BY DEF PagesOld
<1>1. rd'.page[t] = rd.page[t]
  OBVIOUS
<1>2. /\ rd.page[t].row \in Rows /\ rd.page[t].ver.rev \in Nat
      /\ rd.page[t].ver.rev <= hub[rd.page[t].row].rev
  BY <1>1, PageNumbers DEF PagesOld
<1>3. /\ hub[rd.page[t].row].rev \in Nat /\ hub'[rd.page[t].row].rev \in Nat
      /\ hub'[rd.page[t].row].rev >= hub[rd.page[t].row].rev
  <2>1. hub'[rd.page[t].row].rev \in Revisions
    BY <1>2 DEF Base, TypeOK
  <2> QED BY <1>2, <2>1, Numbers, Sets DEF Base, HubGrown
<1> QED BY <1>1, <1>2, <1>3

\* A row that the device did not write can only stop being ahead.
LEMMA AheadBefore ==
  ASSUME Base, Base', HubGrown, NEW row \in Rows, rep'[row].rev = rep[row].rev, Ahead(row)'
  PROVE  Ahead(row)
<1>1. hub'[row].rev \in Revisions
  BY DEF Base, TypeOK
<1>2. hub'[row].rev \in Nat /\ hub[row].rev \in Nat /\ rep[row].rev \in Nat
  BY <1>1, Numbers, Sets DEF Base
<1> QED BY <1>2 DEF Ahead, HubGrown

\* Cursors that only fall keep every row due.
LEMMA DueStays ==
  ASSUME Base, Base', NEW row \in Rows, PushDue(row), pending'[row] = pending[row] \/ pending'[row] # 0,
         rep'[row].rev >= rep[row].rev,
         cur'[TableOf[row]].push \in {0, cur[TableOf[row]].push}
  PROVE  PushDue(row)'
<1>1. TableOf[row] \in Tables /\ rep[row].rev \in Nat
  BY Numbers DEF Base
<1>2. rep'[row] \in Versions
  BY DEF Base, TypeOK
<1>3. cur[TableOf[row]].push \in Nat /\ rep'[row].rev \in Nat
  BY <1>1, <1>2, TableNumbers, Fields, Sets DEF Base
<1> QED BY <1>1, <1>3 DEF PushDue

\* The device is not written, and cursors only fall.
LEMMA CoverageStays ==
  ASSUME PushSafe, Base', HubGrown, rep' = rep, pending' = pending, inbox' = inbox,
         \A t \in Tables : cur'[t].push \in {0, cur[t].push}
  PROVE  PushCoverage' /\ InboxDue' /\ \A row \in Rows : PushDue(row) => PushDue(row)'
<1>1. \A row \in Rows : rep[row].rev >= rep[row].rev /\ TableOf[row] \in Tables
  BY Numbers DEF PushSafe, Base
<1>2. ASSUME NEW row \in Rows, PushDue(row) PROVE PushDue(row)'
  BY <1>1, <1>2, DueStays DEF PushSafe
<1>3. PushCoverage'
  BY <1>2, AheadBefore DEF PushCoverage, PushSafe, PushParts
<1>4. InboxDue'
  <2>1. inbox \subseteq Rows
    BY DEF PushSafe, Base, TypeOK
  <2> QED BY <1>2, <2>1 DEF InboxDue, PushSafe, PushParts
<1> QED BY <1>2, <1>3, <1>4

\* The device waits: only the hub and the clocks move, and pages are fetched.
LEMMA WaitingPush ==
  ASSUME PushSafe, Base', HubGrown, rep' = rep, pending' = pending, inbox' = inbox, cur' = cur,
         rd'.frozen = rd.frozen, rd'.checkpoint = rd.checkpoint, rd'.bad = rd.bad,
         rd'.todo = rd.todo, rd'.table = rd.table, rd'.row = rd.row, rd'.answer = rd.answer,
         rd'.pc = "receipt" => rd.pc = "receipt"
  PROVE  /\ FrozenFits' /\ AnswerFits' /\ AheadInFlight' /\ InboxInFlight'
         /\ PushCoverage' /\ InboxDue'
<1>1. PushCoverage' /\ InboxDue' /\ \A row \in Rows : PushDue(row) => PushDue(row)'
  BY CoverageStays
<1>2. FrozenFits'
  BY <1>1 DEF FrozenFits, Coming, PushSafe, PushParts
<1>3. AnswerFits'
  <2> SUFFICES ASSUME rd'.pc = "receipt", rd'.answer = "accepted"
               PROVE  hub'[rd'.row].rev >= rd'.frozen[rd'.row].rev
    BY DEF AnswerFits
  <2>1. rd.row \in Rows /\ hub[rd.row].rev >= rd.frozen[rd.row].rev
    BY DEF PushSafe, PushParts, AnswerFits, Base, RoundShape, RowsOf
  <2>2. hub'[rd.row].rev \in Revisions
    BY <2>1 DEF Base, TypeOK
  <2>3. hub'[rd.row].rev \in Nat /\ hub[rd.row].rev \in Nat /\ rd.frozen[rd.row].rev \in Nat
    BY <2>1, <2>2, Numbers, Sets DEF PushSafe, Base
  <2> QED BY <2>1, <2>3 DEF HubGrown
<1>4. AheadInFlight'
  <2> SUFFICES ASSUME NEW row \in Rows, TableOf[row] \in Coming', Ahead(row)'
               PROVE  (WrittenSince(row) \/ rd.frozen[row].rev = rep[row].rev \/ Refused(row))'
    BY DEF AheadInFlight
  <2>1. Ahead(row) /\ TableOf[row] \in Coming
    BY AheadBefore DEF Coming, PushSafe
  <2>2. WrittenSince(row) \/ rd.frozen[row].rev = rep[row].rev \/ Refused(row)
    BY <2>1 DEF PushSafe, PushParts, AheadInFlight
  <2> QED BY <2>2 DEF WrittenSince, Refused
<1>5. InboxInFlight'
  BY DEF PushSafe, PushParts, InboxInFlight, Refused, Coming
<1> QED BY <1>1, <1>2, <1>3, <1>4, <1>5

\* Nothing is frozen and no table is to come.
LEMMA NothingComing ==
  ASSUME Base', rd'.todo = {}, rd'.table = NoTable, rd'.frozen = NoRows, rd'.pc # "receipt",
         InboxInFlight, inbox' = inbox, rep' = rep
  PROVE  FrozenFits' /\ AnswerFits' /\ AheadInFlight' /\ InboxInFlight'
<1>1. \A row \in Rows : TableOf[row] \notin Coming'
  BY CoreAssumption DEF Coming
<1>2. inbox \subseteq Rows
  BY DEF Base, TypeOK
<1> QED BY <1>1, <1>2 DEF FrozenFits, AnswerFits, AheadInFlight, InboxInFlight, NoRows

\* The round is given up, or over.
LEMMA IdlePush ==
  ASSUME PushSafe, Base', rd' = Idle, UNCHANGED <<hub, hubClock, device>>
  PROVE  PushParts'
<1>1. HubGrown
  BY SameHub DEF PushSafe, Base
<1>2. /\ rd'.todo = {} /\ rd'.table = NoTable /\ rd'.frozen = NoRows /\ rd'.pc = "idle"
      /\ \A t \in Tables : ~rd'.page[t].on
  BY DEF Idle, NoPage
<1>3. UNCHANGED <<rep, pending, inbox, cur, bound>>
  BY DEF device
<1>4. PushCoverage' /\ InboxDue'
  <2>1. \A t \in Tables : cur'[t].push \in {0, cur[t].push}
    BY <1>3
  <2> QED BY <1>1, <1>3, <2>1, CoverageStays
<1>5. FrozenFits' /\ AnswerFits' /\ AheadInFlight' /\ InboxInFlight'
  BY <1>2, <1>3, NothingComing DEF PushSafe, PushParts
<1>6. PagesOld' /\ Binding'
  BY <1>2, <1>3 DEF PagesOld, Binding, Unsynced, PushSafe, PushParts
<1> QED BY <1>4, <1>5, <1>6 DEF PushParts

\* A round begins: push cursors ahead of the clock are forgotten.
LEMMA BeginPush ==
  ASSUME PushSafe, Base', NEW skip \in SUBSET Excludable, Begin(skip)
  PROVE  PushParts'
<1> DEFINE new == Excluded(Forgotten(cur), skip)
<1>1. /\ cur' = new /\ rd'.pc = "cursor" /\ rd'.bound = bound /\ rd'.todo = {}
      /\ rd'.table = NoTable /\ rd'.frozen = NoRows /\ \A t \in Tables : rd'.page[t] = NoPage
  BY BeginEffect DEF PushSafe
<1>2. UNCHANGED <<hub, hubClock, rep, pending, inbox, bound>>
  BY DEF Begin
<1>3. HubGrown
  BY <1>2, SameHub DEF PushSafe, Base
<1>4. \A t \in Tables :
        /\ cur'[t].push \in {0, cur[t].push} /\ cur'[t].after = cur[t].after
        /\ cur'[t].proof => cur[t].proof
  <2>1. \A t \in Tables :
          /\ new[t].push = (IF RolledBack(t) THEN 0 ELSE cur[t].push)
          /\ new[t].proof = (cur[t].proof /\ t \notin skip) /\ new[t].after = cur[t].after
    BY CursorsType DEF PushSafe, Base
  <2> QED BY <1>1, <2>1
<1>5. PushCoverage' /\ InboxDue'
  BY <1>2, <1>3, <1>4, CoverageStays
<1>6. FrozenFits' /\ AnswerFits' /\ AheadInFlight' /\ InboxInFlight'
  BY <1>1, <1>2, NothingComing DEF PushSafe, PushParts
<1>7. PagesOld'
  BY <1>1 DEF PagesOld, NoPage
<1>8. Binding'
  <2>1. \A t \in Tables : Unsynced(t) => Unsynced(t)'
    BY <1>4 DEF Unsynced
  <2> QED BY <1>1, <1>2, <2>1 DEF PushSafe, PushParts, Binding
<1> QED BY <1>5, <1>6, <1>7, <1>8 DEF PushParts

\* The hub's arrivals are read, and its name is pinned.
LEMMA ReadCursorPush ==
  ASSUME PushSafe, Base', ReadCursor
  PROVE  PushParts'
<1>1. /\ rd.pc = "cursor" /\ rd'.pc = "snapshot" /\ rd'.bound = rd.bound
      /\ rd'.frozen = rd.frozen /\ rd'.checkpoint = rd.checkpoint /\ rd'.bad = rd.bad
      /\ rd'.todo = rd.todo /\ rd'.table = rd.table /\ rd'.row = rd.row
      /\ rd'.answer = rd.answer /\ rd'.page = rd.page
  BY ReadCursorEffect DEF PushSafe
<1>2. UNCHANGED <<hub, hubClock, rep, pending, inbox, cur>> /\ bound' = TRUE
  BY DEF ReadCursor
<1>3. HubGrown
  BY <1>2, SameHub DEF PushSafe, Base
<1>4. /\ FrozenFits' /\ AnswerFits' /\ AheadInFlight' /\ InboxInFlight'
      /\ PushCoverage' /\ InboxDue'
  BY <1>1, <1>2, <1>3, WaitingPush
<1>5. PagesOld'
  BY <1>1, <1>3, PagesStay DEF PushSafe, PushParts
<1>6. Binding'
  BY <1>1, <1>2 DEF PushSafe, PushParts, Binding, Unsynced
<1> QED BY <1>4, <1>5, <1>6 DEF PushParts

\* A page is fetched.
LEMMA FetchPush ==
  ASSUME PushSafe, Base', NEW t \in Tables, Fetch(t)
  PROVE  PushParts'
<1>1. /\ rd.pc = "pull" /\ rd'.pc = rd.pc /\ rd'.bound = rd.bound
      /\ rd'.frozen = rd.frozen /\ rd'.checkpoint = rd.checkpoint /\ rd'.bad = rd.bad
      /\ rd'.todo = rd.todo /\ rd'.table = rd.table /\ rd'.row = rd.row
      /\ rd'.answer = rd.answer
      /\ rd'.page[t] = [on |-> TRUE, after |-> rd.walk[t].after,
                        row |-> FetchedRow(t), ver |-> FetchedVersion(t)]
      /\ \A u \in Tables \ {t} : rd'.page[u] = rd.page[u]
  BY FetchEffect DEF PushSafe
<1>2. UNCHANGED <<hub, hubClock, rep, pending, inbox, cur, bound>>
  BY DEF Fetch, device
<1>3. HubGrown
  BY <1>2, SameHub DEF PushSafe, Base
<1>4. /\ FrozenFits' /\ AnswerFits' /\ AheadInFlight' /\ InboxInFlight'
      /\ PushCoverage' /\ InboxDue'
  BY <1>1, <1>2, <1>3, WaitingPush
<1>5. PagesOld'
  <2> SUFFICES ASSUME NEW u \in Tables, rd'.page[u].on, rd'.page[u].row # 0
               PROVE  rd'.page[u].ver.rev <= hub'[rd'.page[u].row].rev
    BY DEF PagesOld
  <2>1. CASE u # t
    BY <1>1, <1>2, <2>1 DEF PushSafe, PushParts, PagesOld
  <2>2. CASE u = t
    <3>1. FetchedRow(t) # 0 /\ rd'.page[u].row = FetchedRow(t) /\ rd'.page[u].ver = FetchedVersion(t)
      BY <1>1, <2>2
    <3>2. FetchedRow(t) \in Rows /\ FetchedVersion(t).rev = hub[FetchedRow(t)].rev
      BY <3>1, FetchedIs DEF PushSafe, RowsOf
    <3>3. hub[FetchedRow(t)].rev \in Nat
      BY <3>2, Numbers DEF PushSafe, Base
    <3> QED BY <1>2, <3>1, <3>2, <3>3
  <2> QED BY <2>1, <2>2
<1>6. Binding'
  BY <1>1, <1>2 DEF PushSafe, PushParts, Binding, Unsynced
<1> QED BY <1>4, <1>5, <1>6 DEF PushParts

\* A row the next round selects is a candidate of this one.
LEMMA DueIsCandidate ==
  ASSUME PushSafe, rd.pc = "snapshot", NEW row \in Rows, TableOf[row] \in Included,
         rep[row].rev > 0
  PROVE  PushDue(row) => Candidate(row)
<1>1. TableOf[row] \in Tables /\ rep[row].rev \in Nat
  BY Numbers DEF PushSafe, Base
<1>2. cur[TableOf[row]].push \in Nat
  BY <1>1, TableNumbers DEF PushSafe, Base
<1>3. PushSince(TableOf[row]) \in {0, cur[TableOf[row]].push}
  BY DEF PushSince
<1> QED BY <1>1, <1>2, <1>3 DEF PushDue, Candidate

\* The snapshot freezes every row that is due.
LEMMA SnapshotPush ==
  ASSUME PushSafe, Base', Snapshot
  PROVE  PushParts'
<1> DEFINE new == Excluded(Forgotten(cur), rd.skip)
<1>1. /\ rd.pc = "snapshot" /\ cur' = new /\ rd'.pc \in {"certify", "table"}
      /\ rd'.checkpoint = clock /\ rd'.todo = Included
      /\ \A row \in Rows : rd'.frozen[row] = FrozenRow(row)
      /\ rd'.page = rd.page /\ rd'.table = rd.table
  BY SnapshotEffect DEF PushSafe
<1>2. UNCHANGED <<hub, hubClock, rep, pending, inbox, bound>>
  BY DEF Snapshot
<1>3. HubGrown
  BY <1>2, SameHub DEF PushSafe, Base
<1>4. \A t \in Tables :
        /\ cur'[t].push = (IF RolledBack(t) THEN 0 ELSE cur[t].push)
        /\ cur'[t].after = cur[t].after
        /\ cur'[t].proof => cur[t].proof
  <2>1. \A t \in Tables :
          /\ new[t].push = (IF RolledBack(t) THEN 0 ELSE cur[t].push)
          /\ new[t].proof = (cur[t].proof /\ t \notin rd.skip) /\ new[t].after = cur[t].after
    BY CursorsType DEF PushSafe, Base
  <2> QED BY <1>1, <2>1
<1>5. PushCoverage' /\ InboxDue' /\ \A row \in Rows : PushDue(row) => PushDue(row)'
  BY <1>2, <1>3, <1>4, CoverageStays
<1>6. rd.table = NoTable /\ \A row \in Rows : TableOf[row] \in Coming' <=> TableOf[row] \in Included
  <2>1. rd.table = NoTable
    BY <1>1 DEF PushSafe, Base, RoundShape, InTable
  <2> QED BY <1>1, <2>1, CoreAssumption DEF Coming
<1>7. \A row \in Rows : /\ rep[row] \in Versions /\ rep[row].rev \in Nat /\ hub[row].rev \in Nat
                       /\ TableOf[row] \in Tables
  BY Numbers DEF PushSafe, Base, TypeOK
<1>8. ASSUME NEW row \in Rows
      PROVE  /\ Candidate(row) => rd'.frozen[row].rev = rep[row].rev
             /\ rd'.frozen[row] # Absent => Candidate(row)
  BY <1>1, <1>7 DEF FrozenRow, Versions
<1>9. FrozenFits'
  <2> SUFFICES ASSUME NEW row \in Rows, rd'.frozen[row] # Absent
               PROVE  /\ rd'.frozen[row].rev > 0 /\ rd'.frozen[row].rev <= rep'[row].rev
                      /\ TableOf[row] \in Coming' /\ PushDue(row)'
    BY DEF FrozenFits
  <2>1. Candidate(row) /\ rd'.frozen[row].rev = rep[row].rev
    BY <1>8
  <2>2. rep[row].rev > 0 /\ TableOf[row] \in Included
    BY <2>1 DEF Candidate
  <2>3. PushDue(row)'
    <3>1. CASE RolledBack(TableOf[row])
      BY <1>2, <1>4, <1>7, <2>2, <3>1 DEF PushDue
    <3>2. CASE ~rd.bound
      <4>1. cur[TableOf[row]].push = 0
        BY <1>1, <1>7, <3>2 DEF PushSafe, PushParts, Binding, Unsynced
      <4> QED BY <1>2, <1>4, <1>7, <4>1 DEF PushDue
    <3>3. CASE rd.bound /\ ~RolledBack(TableOf[row])
      BY <1>2, <1>4, <1>7, <2>1, <3>3 DEF Candidate, PushSince, PushDue
    <3> QED BY <3>1, <3>2, <3>3
  <2> QED BY <1>2, <1>6, <1>7, <2>1, <2>2, <2>3
<1>10. AnswerFits'
  BY <1>1 DEF AnswerFits
<1>11. AheadInFlight'
  <2> SUFFICES ASSUME NEW row \in Rows, TableOf[row] \in Coming', Ahead(row)'
               PROVE  rd'.frozen[row].rev = rep'[row].rev
    BY DEF AheadInFlight
  <2>1. Ahead(row)
    BY <1>2, <1>3, AheadBefore DEF PushSafe
  <2>2. PushDue(row) /\ rep[row].rev > 0
    BY <1>7, <2>1 DEF PushSafe, PushParts, PushCoverage, Ahead
  <2>3. Candidate(row)
    BY <1>1, <1>6, <2>2, DueIsCandidate
  <2> QED BY <1>2, <1>8, <2>3
<1>12. InboxInFlight'
  <2> SUFFICES ASSUME NEW row \in inbox
               PROVE  rep[row].rev > 0 /\ (TableOf[row] \in Coming' => rd'.frozen[row] # Absent)
    BY <1>2 DEF InboxInFlight
  <2>1. row \in Rows /\ rep[row].rev > 0 /\ PushDue(row)
    BY DEF PushSafe, Base, TypeOK, PushParts, InboxInFlight, InboxDue
  <2>2. TableOf[row] \in Included => Candidate(row)
    BY <1>1, <2>1, DueIsCandidate
  <2>3. Candidate(row) => rd'.frozen[row] # Absent
    BY <1>8, <2>1 DEF Absent
  <2> QED BY <1>6, <2>1, <2>2, <2>3
<1>13. PagesOld'
  BY <1>1, <1>3, PagesStay DEF PushSafe, PushParts
<1>14. Binding'
  BY <1>1, <1>2 DEF PushSafe, PushParts, Binding
<1> QED BY <1>5, <1>9, <1>10, <1>11, <1>12, <1>13, <1>14 DEF PushParts

\* The next table is opened.
LEMMA NextTablePush ==
  ASSUME PushSafe, Base', NextTable
  PROVE  PushParts'
<1>1. /\ rd.pc = "table" /\ rd.table = NoTable
      /\ rd'.table \in rd.todo /\ rd'.todo = rd.todo \ {rd'.table} /\ rd'.pc \in {"push", "pull"}
      /\ rd'.frozen = rd.frozen /\ rd'.checkpoint = rd.checkpoint /\ rd'.page = rd.page
  BY NextTableEffect DEF PushSafe
<1>2. UNCHANGED <<hub, hubClock, rep, pending, inbox, cur, bound>>
  BY DEF NextTable, device
<1>3. HubGrown
  BY <1>2, SameHub DEF PushSafe, Base
<1>4. PushCoverage' /\ InboxDue' /\ \A row \in Rows : PushDue(row) => PushDue(row)'
  <2>1. \A t \in Tables : cur'[t].push \in {0, cur[t].push}
    BY <1>2
  <2> QED BY <1>2, <1>3, <2>1, CoverageStays
<1>5. \A row \in Rows : /\ TableOf[row] \in Coming <=> TableOf[row] \in Coming'
                       /\ TableOf[row] # rd.table
  BY <1>1, CoreAssumption DEF Coming
<1>6. FrozenFits'
  BY <1>1, <1>2, <1>4, <1>5 DEF PushSafe, PushParts, FrozenFits
<1>7. AnswerFits'
  BY <1>1 DEF AnswerFits
<1>8. AheadInFlight'
  <2> SUFFICES ASSUME NEW row \in Rows, TableOf[row] \in Coming', Ahead(row)'
               PROVE  (WrittenSince(row) \/ rd.frozen[row].rev = rep[row].rev)'
    BY DEF AheadInFlight
  <2>1. Ahead(row) /\ TableOf[row] \in Coming /\ TableOf[row] # rd.table
    BY <1>2, <1>3, <1>5, AheadBefore DEF PushSafe
  <2>2. WrittenSince(row) \/ rd.frozen[row].rev = rep[row].rev
    BY <2>1 DEF PushSafe, PushParts, AheadInFlight, Refused
  <2> QED BY <1>1, <1>2, <2>2 DEF WrittenSince
<1>9. InboxInFlight'
  <2>1. inbox \subseteq Rows
    BY DEF PushSafe, Base, TypeOK
  <2> QED BY <1>1, <1>2, <1>5, <2>1 DEF PushSafe, PushParts, InboxInFlight, Refused
<1>10. PagesOld'
  BY <1>1, <1>3, PagesStay DEF PushSafe, PushParts
<1>11. Binding'
  BY <1>1, <1>2 DEF PushSafe, PushParts, Binding, Unsynced
<1> QED BY <1>4, <1>6, <1>7, <1>8, <1>9, <1>10, <1>11 DEF PushParts

\* What applying a page does to a row: nothing, or the hub's version replaces it.
LEMMA AppliedIs ==
  ASSUME PushSafe, Base', Apply, NEW row \in Rows
  PROVE  /\ rep'[row] = rep[row] \/ (/\ row = Page.row /\ ~Ended /\ ~Deferred
                                    /\ Page.ver.rev > rep[row].rev /\ rep'[row] = Page.ver)
         /\ rep'[row].rev >= rep[row].rev /\ rep'[row].rev \in Nat
         /\ rep'[row] # rep[row] => rep'[row].rev <= hub[row].rev
<1>1. rd.pc = "pull" /\ rd.table \in Tables /\ Page.on /\ Page = rd.page[rd.table]
      /\ rep' = (IF Ended \/ Deferred THEN rep
                ELSE [rep EXCEPT ![Page.row] = Upsert(@, Page.ver)])
  BY ApplyEffect DEF PushSafe, Page
<1>2. rep \in [Rows -> Versions] /\ rep[row].rev \in Nat
  BY Numbers DEF PushSafe, Base, TypeOK
<1>3. CASE Ended \/ Deferred \/ row # Page.row
  BY <1>1, <1>2, <1>3, SMTT(30)
<1>4. CASE ~Ended /\ ~Deferred /\ row = Page.row
  <2>1. rep'[row] = Upsert(rep[row], Page.ver)
    BY <1>1, <1>2, <1>4
  <2>2. Page.ver.rev \in Nat /\ Page.ver.rev <= hub[row].rev
    BY <1>1, <1>4, PageNumbers DEF PushSafe, PushParts, PagesOld, Ended
  <2> QED BY <1>2, <1>4, <2>1, <2>2 DEF Upsert
<1> QED BY <1>3, <1>4

\* A page is applied: no row gets ahead of the hub, and none is taken back.
LEMMA ApplyPush ==
  ASSUME PushSafe, Base', Apply
  PROVE  PushParts'
<1>1. /\ rd.pc = "pull" /\ rd.table \in Tables
      /\ \A u \in Tables \ {rd.table} : cur'[u] = cur[u]
      /\ cur'[rd.table].push = cur[rd.table].push /\ cur'[rd.table].proof = cur[rd.table].proof
      /\ rd'.pc = (IF Ended THEN "push" ELSE "pull")
      /\ rd'.page[rd.table] = NoPage
      /\ \A u \in Tables \ {rd.table} : rd'.page[u] = rd.page[u]
  BY ApplyEffect DEF PushSafe
<1>2. /\ rd'.frozen = rd.frozen /\ rd'.checkpoint = rd.checkpoint /\ rd'.bad = rd.bad
      /\ rd'.todo = rd.todo /\ rd'.table = rd.table
  BY ApplyEffect DEF PushSafe
<1>3. UNCHANGED <<hub, hubClock, pending, inbox, bound>>
  BY DEF Apply
<1>4. HubGrown
  BY <1>3, SameHub DEF PushSafe, Base
<1>5. \A t \in Tables : cur'[t].push = cur[t].push
  BY <1>1
<1>6. \A row \in Rows : /\ rep'[row].rev >= rep[row].rev /\ rep'[row].rev \in Nat
                       /\ rep[row].rev \in Nat /\ hub[row].rev \in Nat /\ TableOf[row] \in Tables
                       /\ cur[TableOf[row]].push \in Nat
                       /\ rd.frozen[row].rev \in Nat /\ rd.checkpoint \in Nat
  BY AppliedIs, Numbers, TableNumbers DEF PushSafe, Base
<1>7. ASSUME NEW row \in Rows, PushDue(row) PROVE PushDue(row)'
  BY <1>3, <1>5, <1>6, <1>7, DueStays DEF PushSafe
<1>8. ASSUME NEW row \in Rows, Ahead(row)' PROVE Ahead(row) /\ rep'[row] = rep[row]
  <2>1. rep'[row] = rep[row]
    BY <1>3, <1>6, <1>8, AppliedIs DEF Ahead
  <2> QED BY <1>3, <1>8, <2>1 DEF Ahead
<1>9. PushCoverage' /\ InboxDue'
  <2>1. inbox \subseteq Rows
    BY DEF PushSafe, Base, TypeOK
  <2>2. PushCoverage'
    BY <1>7, <1>8 DEF PushSafe, PushParts, PushCoverage
  <2> QED BY <1>3, <1>7, <2>1, <2>2 DEF PushSafe, PushParts, InboxDue
<1>10. FrozenFits'
  <2> SUFFICES ASSUME NEW row \in Rows, rd'.frozen[row] # Absent
               PROVE  /\ rd'.frozen[row].rev > 0 /\ rd'.frozen[row].rev <= rep'[row].rev
                      /\ TableOf[row] \in Coming' /\ PushDue(row)'
    BY DEF FrozenFits
  <2>1. /\ rd.frozen[row].rev > 0 /\ rd.frozen[row].rev <= rep[row].rev
        /\ TableOf[row] \in Coming /\ PushDue(row)
    BY <1>2 DEF PushSafe, PushParts, FrozenFits
  <2> QED BY <1>2, <1>6, <1>7, <2>1 DEF Coming
<1>11. AnswerFits'
  BY <1>1 DEF AnswerFits
<1>12. AheadInFlight'
  <2> SUFFICES ASSUME NEW row \in Rows, TableOf[row] \in Coming', Ahead(row)'
               PROVE  (WrittenSince(row) \/ rd.frozen[row].rev = rep[row].rev \/ Refused(row))'
    BY DEF AheadInFlight
  <2>1. Ahead(row) /\ TableOf[row] \in Coming /\ rep'[row] = rep[row]
    BY <1>2, <1>8 DEF Coming
  <2>2. WrittenSince(row) \/ rd.frozen[row].rev = rep[row].rev \/ Refused(row)
    BY <2>1 DEF PushSafe, PushParts, AheadInFlight
  <2>3. cur'[TableOf[row]].push = cur[TableOf[row]].push
    BY <1>5, <1>6
  <2> QED BY <1>2, <1>3, <2>1, <2>2, <2>3 DEF WrittenSince, Refused
<1>13. InboxInFlight'
  <2> SUFFICES ASSUME NEW row \in inbox
               PROVE  /\ rep'[row].rev > 0
                      /\ TableOf[row] \in Coming' => rd'.frozen[row] # Absent \/ Refused(row)'
    BY <1>3 DEF InboxInFlight
  <2>1. row \in Rows /\ rep[row].rev > 0
        /\ (TableOf[row] \in Coming => rd.frozen[row] # Absent \/ Refused(row))
    BY DEF PushSafe, Base, TypeOK, PushParts, InboxInFlight
  <2> QED BY <1>2, <1>6, <2>1 DEF Coming, Refused
<1>14. PagesOld'
  <2>1. \A t \in Tables : rd'.page[t] = rd.page[t] \/ ~rd'.page[t].on
    BY <1>1 DEF NoPage
  <2> QED BY <1>4, <2>1, PagesStay DEF PushSafe, PushParts
<1>15. Binding'
  <2>1. bound = TRUE
    BY <1>1 DEF PushSafe, PushParts, Binding, Base, TypeOK
  <2> QED BY <1>1, <1>3, <2>1 DEF Binding
<1> QED BY <1>9, <1>10, <1>11, <1>12, <1>13, <1>14, <1>15 DEF PushParts

\* A row is pushed: the hub takes it, or already had a newer one, or refuses it.
LEMMA PushPush ==
  ASSUME PushSafe, Base', Push
  PROVE  PushParts' /\ HubGrown /\ \A r \in Rows \ {Pushing} : hub'[r] = hub[r]
<1>1. /\ rd.pc = "push" /\ Pushing \in RowsOf(rd.table)
      /\ IF HubAccepts(Pushing) THEN HubCommit(Pushing, rd.frozen[Pushing].rev) ELSE hub' = hub
      /\ rd'.pc = "receipt" /\ rd'.row = Pushing
      /\ rd'.answer = (IF HubAccepts(Pushing) THEN "accepted" ELSE "rejected")
  BY PushEffect DEF PushSafe
<1>2. /\ rd'.frozen = rd.frozen /\ rd'.checkpoint = rd.checkpoint /\ rd'.bad = rd.bad
      /\ rd'.todo = rd.todo /\ rd'.table = rd.table /\ rd'.page = rd.page
  BY PushEffect DEF PushSafe
<1>3. UNCHANGED <<hubClock, rep, pending, inbox, cur, bound>>
  BY DEF Push, device
<1>4. Pushing \in Rows /\ rd.frozen[Pushing].rev \in Revisions
  <2>1. Pushing \in Rows
    BY <1>1 DEF RowsOf
  <2>2. rd.frozen[Pushing] \in Versions
    BY <2>1 DEF PushSafe, Base, TypeOK, Rounds
  <2> QED BY <2>1, <2>2, Fields
<1>5. /\ HubGrown
      /\ HubAccepts(Pushing) => hub'[Pushing].rev >= rd.frozen[Pushing].rev
      /\ \A r \in Rows \ {Pushing} : hub'[r] = hub[r]
  <2>1. CASE HubAccepts(Pushing)
    BY <1>1, <1>3, <1>4, <2>1, CommitIs DEF PushSafe, Base
  <2>2. CASE ~HubAccepts(Pushing)
    BY <1>1, <1>3, <2>2, SameHub DEF PushSafe, Base
  <2> QED BY <2>1, <2>2
<1>6. AnswerFits'
  BY <1>1, <1>2, <1>5 DEF AnswerFits
<1>7. PushCoverage' /\ InboxDue' /\ \A row \in Rows : PushDue(row) => PushDue(row)'
  <2>1. \A t \in Tables : cur'[t].push \in {0, cur[t].push}
    BY <1>3
  <2> QED BY <1>3, <1>5, <2>1, CoverageStays
<1>8. FrozenFits'
  BY <1>2, <1>3, <1>7 DEF FrozenFits, Coming, PushSafe, PushParts
<1>9. AheadInFlight'
  <2> SUFFICES ASSUME NEW row \in Rows, TableOf[row] \in Coming', Ahead(row)'
               PROVE  (WrittenSince(row) \/ rd.frozen[row].rev = rep[row].rev \/ Refused(row))'
    BY DEF AheadInFlight
  <2>1. Ahead(row) /\ TableOf[row] \in Coming
    BY <1>2, <1>3, <1>5, AheadBefore DEF Coming, PushSafe
  <2>2. WrittenSince(row) \/ rd.frozen[row].rev = rep[row].rev \/ Refused(row)
    BY <2>1 DEF PushSafe, PushParts, AheadInFlight
  <2> QED BY <1>2, <1>3, <2>2 DEF WrittenSince, Refused
<1>10. InboxInFlight'
  BY <1>2, <1>3 DEF PushSafe, PushParts, InboxInFlight, Refused, Coming
<1>11. PagesOld'
  BY <1>2, <1>5, PagesStay DEF PushSafe, PushParts
<1>12. Binding'
  BY <1>1, <1>3 DEF PushSafe, PushParts, Binding, Unsynced
<1> QED BY <1>5, <1>6, <1>7, <1>8, <1>9, <1>10, <1>11, <1>12 DEF PushParts

\* An answer is dealt with: a receipt goes only if nothing newer was written, or
\* the newer write is due by its revision.
LEMMA ReceiptPush ==
  ASSUME PushSafe, Base', Receipt
  PROVE  PushParts'
<1>0. PICK x \in Rows : x = rd.row
  BY ReceiptEffect DEF PushSafe
<1>1. /\ rd.pc = "receipt" /\ x \in Rows /\ rd.frozen[x] # Absent /\ TableOf[x] = rd.table
      /\ rd'.pc = "push" /\ rd'.frozen[x] = Absent
      /\ \A row \in Rows \ {x} : rd'.frozen[row] = rd.frozen[row]
      /\ rd'.bad = (rd.bad \/ rd.answer # "accepted")
      /\ rd'.checkpoint = rd.checkpoint /\ rd'.todo = rd.todo /\ rd'.table = rd.table
      /\ rd'.page = rd.page
  BY <1>0, ReceiptEffect DEF PushSafe, RowsOf
<1>2. /\ rd.answer = "accepted" =>
           inbox' = inbox \ {x} /\ pending' = [pending EXCEPT ![x] = Received(x)]
      /\ rd.answer # "accepted" =>
           /\ pending' = pending
           /\ inbox' = (IF rep[x].rev = rd.frozen[x].rev THEN inbox \cup {x} ELSE inbox)
  BY <1>0, ReceiptEffect DEF PushSafe
<1>3. UNCHANGED <<hub, hubClock, rep, cur, bound>>
  BY DEF Receipt
<1>4. HubGrown
  BY <1>3, SameHub DEF PushSafe, Base
<1>5. \A row \in Rows : /\ rep[row].rev \in Nat /\ hub[row].rev \in Nat /\ pending[row] \in Nat
                       /\ rd.frozen[row].rev \in Nat
  BY Numbers DEF PushSafe, Base
<1>6. \A row \in Rows : row # x => pending'[row] = pending[row]
  BY <1>1, <1>2 DEF PushSafe, Base, TypeOK
<1>7. /\ rd.frozen[x].rev > 0 /\ PushDue(x) /\ rd.frozen[x].rev <= rep[x].rev
      /\ TableOf[x] \in Coming
  BY <1>1 DEF PushSafe, PushParts, FrozenFits
<1>8. ASSUME NEW row \in Rows, PushDue(row), row # x \/ rd.answer # "accepted"
      PROVE  PushDue(row)'
  BY <1>2, <1>3, <1>6, <1>8 DEF PushDue
<1>9. ASSUME rd.answer = "accepted", Ahead(x)
      PROVE  PushDue(x)' /\ WrittenSince(x)'
  <2>1. hub[x].rev >= rd.frozen[x].rev
    BY <1>0, <1>1, <1>9 DEF PushSafe, PushParts, AnswerFits
  <2>2. WrittenSince(x)
    BY <1>1, <1>5, <1>7, <1>9, <2>1 DEF PushSafe, PushParts, AheadInFlight, Ahead, Refused
  <2>3. pending'[x] = Received(x)
    BY <1>1, <1>2, <1>9 DEF PushSafe, Base, TypeOK
  <2>4. CASE pending[x] > rd.frozen[x].rev
    <3>1. pending'[x] = pending[x] /\ pending[x] # 0
      BY <1>1, <1>5, <1>7, <2>3, <2>4 DEF Received
    <3> QED BY <1>1, <1>5, <1>7, <2>4, <3>1 DEF PushDue, WrittenSince, Absent
  <2>5. CASE rep[x].rev >= rd.checkpoint /\ rep[x].rev >= cur[TableOf[x]].push
    BY <1>1, <1>3, <2>5 DEF PushDue, WrittenSince
  <2> QED BY <2>2, <2>4, <2>5 DEF WrittenSince
<1>10. ASSUME NEW row \in Rows, Ahead(row)' PROVE Ahead(row)
  BY <1>3, <1>10 DEF Ahead
<1>11. PushCoverage'
  <2> SUFFICES ASSUME NEW row \in Rows, Ahead(row)' PROVE PushDue(row)'
    BY DEF PushCoverage
  <2>1. Ahead(row) /\ PushDue(row)
    BY <1>10 DEF PushSafe, PushParts, PushCoverage
  <2> QED BY <1>8, <1>9, <2>1
<1>12. InboxDue'
  <2> SUFFICES ASSUME NEW row \in inbox' PROVE PushDue(row)'
    BY DEF InboxDue
  <2>1. row \in Rows /\ (row \in inbox \/ row = x) /\ (row = x => rd.answer # "accepted")
    BY <1>1, <1>2 DEF PushSafe, Base, TypeOK
  <2>2. PushDue(row)
    BY <1>7, <2>1 DEF PushSafe, PushParts, InboxDue
  <2> QED BY <1>8, <2>1, <2>2
<1>13. FrozenFits'
  <2> SUFFICES ASSUME NEW row \in Rows, rd'.frozen[row] # Absent
               PROVE  /\ rd'.frozen[row].rev > 0 /\ rd'.frozen[row].rev <= rep'[row].rev
                      /\ TableOf[row] \in Coming' /\ PushDue(row)'
    BY DEF FrozenFits
  <2>1. row # x /\ rd'.frozen[row] = rd.frozen[row]
    BY <1>1
  <2>2. /\ rd.frozen[row].rev > 0 /\ rd.frozen[row].rev <= rep[row].rev
        /\ TableOf[row] \in Coming /\ PushDue(row)
    BY <2>1 DEF PushSafe, PushParts, FrozenFits
  <2> QED BY <1>1, <1>3, <1>8, <2>1, <2>2 DEF Coming
<1>14. AnswerFits'
  BY <1>1 DEF AnswerFits
<1>15. AheadInFlight'
  <2> SUFFICES ASSUME NEW row \in Rows, TableOf[row] \in Coming', Ahead(row)'
               PROVE  (WrittenSince(row) \/ rd.frozen[row].rev = rep[row].rev \/ Refused(row))'
    BY DEF AheadInFlight
  <2>1. Ahead(row) /\ TableOf[row] \in Coming
    BY <1>1, <1>10 DEF Coming
  <2>2. CASE row # x
    <3>1. WrittenSince(row) \/ rd.frozen[row].rev = rep[row].rev \/ Refused(row)
      BY <2>1 DEF PushSafe, PushParts, AheadInFlight
    <3> QED BY <1>1, <1>3, <1>6, <2>2, <3>1 DEF WrittenSince, Refused
  <2>3. CASE row = x /\ rd.answer = "accepted"
    BY <1>9, <2>1, <2>3
  <2>4. CASE row = x /\ rd.answer # "accepted"
    BY <1>1, <2>4 DEF Refused
  <2> QED BY <2>2, <2>3, <2>4
<1>16. InboxInFlight'
  <2> SUFFICES ASSUME NEW row \in inbox'
               PROVE  /\ rep'[row].rev > 0
                      /\ TableOf[row] \in Coming' => rd'.frozen[row] # Absent \/ Refused(row)'
    BY DEF InboxInFlight
  <2>1. row \in Rows /\ (row \in inbox \/ row = x) /\ (row = x => rd.answer # "accepted")
    BY <1>1, <1>2 DEF PushSafe, Base, TypeOK
  <2>2. CASE row = x
    <3>1. rep'[row].rev > 0
      BY <1>3, <1>5, <1>7, <2>2
    <3>2. rd'.bad /\ TableOf[row] = rd'.table /\ rd'.frozen[row] = Absent
      BY <1>1, <2>1, <2>2
    <3> QED BY <3>1, <3>2 DEF Refused
  <2>3. CASE row # x
    <3>1. rep[row].rev > 0 /\ (TableOf[row] \in Coming => rd.frozen[row] # Absent \/ Refused(row))
      BY <2>1, <2>3 DEF PushSafe, PushParts, InboxInFlight
    <3> QED BY <1>1, <1>3, <2>1, <2>3, <3>1 DEF Coming, Refused
  <2> QED BY <2>2, <2>3
<1>17. PagesOld'
  BY <1>1, <1>4, PagesStay DEF PushSafe, PushParts
<1>18. Binding'
  BY <1>1, <1>3 DEF PushSafe, PushParts, Binding, Unsynced
<1> QED BY <1>11, <1>12, <1>13, <1>14, <1>15, <1>16, <1>17, <1>18 DEF PushParts

\* A table is finished: its push cursor moves only if the hub refused none of its
\* rows, and then every row is answered or was written since.
LEMMA EndTablePush ==
  ASSUME PushSafe, Base', EndTable
  PROVE  PushParts'
<1>0. PICK t \in Tables : t = rd.table
  BY EndTableEffect DEF PushSafe
<1>1. /\ rd.pc = "push" /\ t \notin rd.todo /\ ToPush = {}
      /\ \A u \in Tables \ {t} : cur'[u] = cur[u]
      /\ cur'[t].push = Pushed(t)
      /\ rd'.pc \in {"certify", "table"} /\ rd'.table = NoTable
      /\ rd'.frozen = rd.frozen /\ rd'.checkpoint = rd.checkpoint /\ rd'.todo = rd.todo
      /\ rd'.page = rd.page
  BY <1>0, EndTableEffect DEF PushSafe
<1>2. UNCHANGED <<hub, hubClock, rep, pending, inbox, bound>>
  BY DEF EndTable
<1>3. HubGrown
  BY <1>2, SameHub DEF PushSafe, Base
<1>4. \A row \in Rows : /\ TableOf[row] \in Tables /\ rep[row].rev \in Nat /\ hub[row].rev \in Nat
                       /\ pending[row] \in Nat
  BY Numbers DEF PushSafe, Base
<1>5. \A row \in Rows : TableOf[row] = t => rd.frozen[row] = Absent
  BY <1>0, <1>1 DEF ToPush, RowsOf
<1>6. \A row \in Rows : TableOf[row] \in Coming' <=> TableOf[row] \in Coming /\ TableOf[row] # t
  BY <1>0, <1>1, <1>4, CoreAssumption DEF Coming
<1>7. t \in Coming /\ \A row \in Rows : Ahead(row)' => Ahead(row)
  BY <1>0, <1>2 DEF Coming, Ahead
<1>8. ASSUME NEW row \in Rows, PushDue(row), TableOf[row] # t PROVE PushDue(row)'
  BY <1>1, <1>2, <1>4, <1>8 DEF PushDue
<1>9. ASSUME NEW row \in Rows, PushDue(row), TableOf[row] = t, rd.bad PROVE PushDue(row)'
  BY <1>1, <1>2, <1>9 DEF PushDue, Pushed
<1>10. PushCoverage'
  <2> SUFFICES ASSUME NEW row \in Rows, Ahead(row)' PROVE PushDue(row)'
    BY DEF PushCoverage
  <2>1. Ahead(row)
    BY <1>2 DEF Ahead
  <2>2. PushDue(row)
    BY <2>1 DEF PushSafe, PushParts, PushCoverage
  <2>3. CASE TableOf[row] = t /\ ~rd.bad
    <3>1. rd.frozen[row].rev = 0 /\ rep[row].rev > 0
      BY <1>4, <1>5, <2>1, <2>3 DEF Absent, Ahead
    <3>2. WrittenSince(row)
      BY <1>7, <2>1, <2>3, <3>1 DEF PushSafe, PushParts, AheadInFlight, Refused
    <3>3. pending[row] # 0 \/ rep[row].rev >= rd.checkpoint
      BY <1>4, <3>1, <3>2 DEF WrittenSince
    <3>4. cur'[TableOf[row]].push = rd.checkpoint
      BY <1>1, <2>3 DEF Pushed
    <3> QED BY <1>2, <3>3, <3>4 DEF PushDue
  <2> QED BY <1>8, <1>9, <2>2, <2>3
<1>11. InboxDue'
  <2> SUFFICES ASSUME NEW row \in inbox PROVE PushDue(row)'
    BY <1>2 DEF InboxDue
  <2>1. row \in Rows /\ PushDue(row)
    BY DEF PushSafe, Base, TypeOK, PushParts, InboxDue
  <2>2. TableOf[row] = t => rd.bad
    BY <1>5, <1>7, <2>1 DEF PushSafe, PushParts, InboxInFlight, Refused
  <2> QED BY <1>8, <1>9, <2>1, <2>2
<1>12. FrozenFits'
  <2> SUFFICES ASSUME NEW row \in Rows, rd'.frozen[row] # Absent
               PROVE  /\ rd'.frozen[row].rev > 0 /\ rd'.frozen[row].rev <= rep'[row].rev
                      /\ TableOf[row] \in Coming' /\ PushDue(row)'
    BY DEF FrozenFits
  <2>1. /\ rd.frozen[row].rev > 0 /\ rd.frozen[row].rev <= rep[row].rev
        /\ TableOf[row] \in Coming /\ PushDue(row) /\ TableOf[row] # t
    BY <1>1, <1>5 DEF PushSafe, PushParts, FrozenFits
  <2> QED BY <1>1, <1>2, <1>6, <1>8, <2>1
<1>13. AnswerFits'
  BY <1>1 DEF AnswerFits
<1>14. AheadInFlight'
  <2> SUFFICES ASSUME NEW row \in Rows, TableOf[row] \in Coming', Ahead(row)'
               PROVE  (WrittenSince(row) \/ rd.frozen[row].rev = rep[row].rev)'
    BY DEF AheadInFlight
  <2>1. Ahead(row) /\ TableOf[row] \in Coming /\ TableOf[row] # t
    BY <1>6, <1>7
  <2>2. WrittenSince(row) \/ rd.frozen[row].rev = rep[row].rev
    BY <1>0, <2>1 DEF PushSafe, PushParts, AheadInFlight, Refused
  <2>3. cur'[TableOf[row]] = cur[TableOf[row]]
    BY <1>1, <1>4, <2>1
  <2> QED BY <1>1, <1>2, <2>2, <2>3 DEF WrittenSince
<1>15. InboxInFlight'
  <2> SUFFICES ASSUME NEW row \in inbox
               PROVE  rep[row].rev > 0 /\ (TableOf[row] \in Coming' => rd'.frozen[row] # Absent)
    BY <1>2 DEF InboxInFlight
  <2>1. row \in Rows
    BY DEF PushSafe, Base, TypeOK
  <2> QED BY <1>0, <1>1, <1>6, <2>1 DEF PushSafe, PushParts, InboxInFlight, Refused
<1>16. PagesOld'
  BY <1>1, <1>3, PagesStay DEF PushSafe, PushParts
<1>17. Binding'
  <2>1. bound
    BY <1>1 DEF PushSafe, PushParts, Binding
  <2> QED BY <1>1, <1>2, <2>1 DEF Binding
<1> QED BY <1>10, <1>11, <1>12, <1>13, <1>14, <1>15, <1>16, <1>17 DEF PushParts

\* A write on the device has a receipt, or a revision at or after every push cursor.
LEMMA WritePush ==
  ASSUME PushSafe, Base', NEW x \in Rows, NEW ok \in BOOLEAN, Edit(x, ok) \/ OtherWriter(x, ok)
  PROVE  PushParts'
<1>1. /\ rep'[x].rev > rep[x].rev /\ \A r \in Rows \ {x} : rep'[r] = rep[r]
      /\ \/ pending' = [pending EXCEPT ![x] = rep'[x].rev]
         \/ pending' = pending /\ rep'[x].rev = clock /\ OtherWriter(x, ok)
  <2>1. CASE Edit(x, ok)
    <3>2. rep'[x].rev = Highest({clock, rep[x].rev + 1})
      <4>1. rep \in [Rows -> Versions]
        BY DEF PushSafe, Base, TypeOK
      <4> QED BY <2>1, <4>1 DEF Edit, Versions
    <3>3. pending' = [pending EXCEPT ![x] = rep'[x].rev]
      BY <2>1, <3>2 DEF Edit
    <3> QED BY <3>3, WriteIs DEF PushSafe
  <2>2. CASE OtherWriter(x, ok)
    <3>1. pending' = pending /\ rep'[x].rev = clock
      <4>1. rep \in [Rows -> Versions]
        BY DEF PushSafe, Base, TypeOK
      <4> QED BY <2>2, <4>1 DEF OtherWriter, Versions
    <3> QED BY <2>2, <3>1, WriteIs DEF PushSafe
  <2> QED BY <2>1, <2>2
<1>2. UNCHANGED <<hub, hubClock, clock, inbox, cur, bound, rd, faults>>
  BY DEF Edit, OtherWriter
<1>3. HubGrown
  BY <1>2, SameHub DEF PushSafe, Base
<1>4. /\ \A row \in Rows : /\ TableOf[row] \in Tables /\ rep[row].rev \in Nat /\ hub[row].rev \in Nat
                           /\ pending[row] \in Nat /\ rd.frozen[row].rev \in Nat
                           /\ rd.frozen[row].rev <= rep[row].rev
      /\ rep'[x].rev \in Nat
  <2>1. rep'[x].rev \in Nat
    <3>1. rep'[x] \in Versions
      BY DEF Base, TypeOK
    <3> QED BY <3>1, Fields, Sets
  <2>2. \A row \in Rows : rd.frozen[row] = Absent => rd.frozen[row].rev = 0
    BY DEF Absent
  <2>3. \A row \in Rows : /\ TableOf[row] \in Tables /\ rep[row].rev \in Nat /\ hub[row].rev \in Nat
                         /\ pending[row] \in Nat /\ rd.frozen[row].rev \in Nat
    BY Numbers DEF PushSafe, Base
  <2>4. \A row \in Rows : rd.frozen[row] # Absent => rd.frozen[row].rev <= rep[row].rev
    BY DEF PushSafe, PushParts, FrozenFits
  <2> QED BY <2>1, <2>2, <2>3, <2>4
<1>5. pending \in [Rows -> Revisions] /\ \A row \in Rows \ {x} : pending'[row] = pending[row]
  BY <1>1 DEF PushSafe, Base, TypeOK
<1>6. PushDue(x)' /\ WrittenSince(x)'
  <2>1. CASE pending' = [pending EXCEPT ![x] = rep'[x].rev]
    <3>1. pending'[x] = rep'[x].rev
      BY <1>5, <2>1
    <3>2. pending'[x] # 0 /\ pending'[x] > rd.frozen[x].rev
      BY <1>1, <1>4, <3>1
    <3> QED BY <1>2, <3>2 DEF PushDue, WrittenSince
  <2>2. CASE rep'[x].rev = clock /\ OtherWriter(x, ok)
    <3>1. clock >= cur[TableOf[x]].push /\ clock >= rd.checkpoint
      BY <2>2 DEF OtherWriter
    <3> QED BY <1>2, <2>2, <3>1 DEF PushDue, WrittenSince
  <2> QED BY <1>1, <2>1, <2>2
<1>7. ASSUME NEW row \in Rows, row # x PROVE (PushDue(row) <=> PushDue(row)') /\ (Ahead(row)' => Ahead(row))
  BY <1>1, <1>2, <1>5, <1>7 DEF PushDue, Ahead
<1>8. PushCoverage'
  BY <1>6, <1>7 DEF PushSafe, PushParts, PushCoverage
<1>9. InboxDue'
  <2>1. inbox \subseteq Rows
    BY DEF PushSafe, Base, TypeOK
  <2> QED BY <1>2, <1>6, <1>7, <2>1 DEF PushSafe, PushParts, InboxDue
<1>10. FrozenFits'
  <2> SUFFICES ASSUME NEW row \in Rows, rd.frozen[row] # Absent
               PROVE  /\ rd.frozen[row].rev > 0 /\ rd.frozen[row].rev <= rep'[row].rev
                      /\ TableOf[row] \in Coming /\ PushDue(row)'
    BY <1>2 DEF FrozenFits, Coming
  <2>1. /\ rd.frozen[row].rev > 0 /\ TableOf[row] \in Coming /\ PushDue(row)
    BY DEF PushSafe, PushParts, FrozenFits
  <2>2. rd.frozen[row].rev <= rep'[row].rev
    BY <1>1, <1>4
  <2> QED BY <1>6, <1>7, <2>1, <2>2
<1>11. AnswerFits'
  BY <1>2 DEF PushSafe, PushParts, AnswerFits
<1>12. AheadInFlight'
  <2> SUFFICES ASSUME NEW row \in Rows, TableOf[row] \in Coming', Ahead(row)'
               PROVE  (WrittenSince(row) \/ rd.frozen[row].rev = rep[row].rev \/ Refused(row))'
    BY DEF AheadInFlight
  <2>1. CASE row = x
    BY <1>6, <2>1
  <2>2. CASE row # x
    <3>1. Ahead(row) /\ TableOf[row] \in Coming
      BY <1>2, <1>7, <2>2 DEF Coming
    <3>2. WrittenSince(row) \/ rd.frozen[row].rev = rep[row].rev \/ Refused(row)
      BY <3>1 DEF PushSafe, PushParts, AheadInFlight
    <3> QED BY <1>1, <1>2, <1>5, <2>2, <3>2 DEF WrittenSince, Refused
  <2> QED BY <2>1, <2>2
<1>13. InboxInFlight'
  <2> SUFFICES ASSUME NEW row \in inbox
               PROVE  /\ rep'[row].rev > 0
                      /\ TableOf[row] \in Coming => rd.frozen[row] # Absent \/ Refused(row)
    BY <1>2 DEF InboxInFlight, Coming, Refused
  <2>1. row \in Rows
    BY DEF PushSafe, Base, TypeOK
  <2> QED BY <1>1, <1>4, <2>1 DEF PushSafe, PushParts, InboxInFlight
<1>14. PagesOld'
  BY <1>2, <1>3, PagesStay DEF PushSafe, PushParts
<1>15. Binding'
  BY <1>2 DEF PushSafe, PushParts, Binding, Unsynced
<1> QED BY <1>8, <1>9, <1>10, <1>11, <1>12, <1>13, <1>14, <1>15 DEF PushParts

\* The hub and the clocks move while the device waits.
LEMMA OutsidePush ==
  ASSUME PushSafe, Base', HubGrown, UNCHANGED <<device, rd>>
  PROVE  PushParts'
<1>1. UNCHANGED <<rep, pending, inbox, cur, bound, rd>>
  BY DEF device
<1>2. /\ FrozenFits' /\ AnswerFits' /\ AheadInFlight' /\ InboxInFlight'
      /\ PushCoverage' /\ InboxDue'
  BY <1>1, WaitingPush
<1>3. PagesOld'
  BY <1>1, PagesStay DEF PushSafe, PushParts
<1>4. Binding'
  BY <1>1 DEF PushSafe, PushParts, Binding, Unsynced
<1> QED BY <1>2, <1>3, <1>4 DEF PushParts

\* The initial state.
LEMMA PushInit == Init => PushSafe
<1> SUFFICES ASSUME Init PROVE PushSafe
  OBVIOUS
<1>1. Base
  BY BaseInit
<1>2. /\ rd.pc = "idle" /\ rd.todo = {} /\ rd.table = NoTable /\ rd.frozen = NoRows
      /\ \A t \in Tables : ~rd.page[t].on
  BY DEF Init, Idle, NoPage
<1>3. /\ inbox = {} /\ \A row \in Rows : ~Ahead(row)
      /\ \A t \in Tables : Unsynced(t)
  BY DEF Init, NoRows, Absent, Ahead, Unsynced, FreshCursor
<1>4. \A row \in Rows : TableOf[row] \in Tables /\ NoRows[row] = Absent
  BY CoreAssumption DEF NoRows
<1> QED BY <1>1, <1>2, <1>3, <1>4
        DEF PushSafe, PushParts, Binding, FrozenFits, AnswerFits, PagesOld, AheadInFlight,
            InboxInFlight, PushCoverage, InboxDue

\* Every step keeps the push invariant.
LEMMA PushStep == PushSafe /\ [Next]_vars => PushSafe'
<1> SUFFICES ASSUME PushSafe, [Next]_vars PROVE PushSafe'
  OBVIOUS
<1>b. Base'
  BY BaseStep DEF PushSafe
<1> SUFFICES PushParts'
  BY <1>b DEF PushSafe
<1>1. CASE Round
  <2>1. ASSUME NEW skip \in SUBSET Excludable, Begin(skip) PROVE PushParts'
    BY <1>b, <2>1, BeginPush
  <2>2. ASSUME NEW t \in Tables, Fetch(t) PROVE PushParts'
    BY <1>b, <2>2, FetchPush
  <2>3. CASE Certify
    BY <1>b, <2>3, IdlePush DEF Certify
  <2> QED BY <1>1, <1>b, <2>1, <2>2, <2>3, ReadCursorPush, SnapshotPush, NextTablePush, ApplyPush,
             PushPush, ReceiptPush, EndTablePush DEF Round
<1>2. CASE Fail
  BY <1>2, <1>b, IdlePush DEF Fail
<1>3. ASSUME NEW row \in Rows, NEW ok \in BOOLEAN, Edit(row, ok) \/ OtherWriter(row, ok)
      PROVE  PushParts'
  BY <1>3, <1>b, WritePush
<1>4. ASSUME NEW row \in Rows, NEW rev \in 1 .. MaxRevision, HubWrite(row, rev) PROVE PushParts'
  <2>1. HubGrown
    BY <1>4, HubWriteIs DEF PushSafe
  <2> QED BY <1>4, <1>b, <2>1, OutsidePush DEF HubWrite
<1>5. CASE HubTick
  <2>1. HubGrown
    <3>1. hubClock \in Nat /\ hub' = hub /\ hubClock' = hubClock + 1
      BY <1>5, Numbers DEF HubTick, PushSafe, Base
    <3> QED BY <3>1, Numbers DEF HubGrown, PushSafe, Base
  <2> QED BY <1>5, <1>b, <2>1, OutsidePush DEF HubTick
<1>6. ASSUME NEW now \in Clocks, SetClock(now) PROVE PushParts'
  BY <1>6, <1>b, SameHub, OutsidePush DEF SetClock, PushSafe, Base
<1>7. CASE UNCHANGED vars
  BY <1>7, <1>b, SameHub, OutsidePush DEF vars, PushSafe, Base
<1> QED BY <1>1, <1>2, <1>3, <1>4, <1>5, <1>6, <1>7 DEF Next

\* In every reachable state of the core client's rounds (syncLocked), a row newer
\* than the hub's is selected by the next round of its table, whatever fails,
\* whatever the hub refuses and however the device's clock is set.
THEOREM CorePushCovered == Spec => []PushCoverage
<1>1. PushSafe => PushCoverage
  BY DEF PushSafe, PushParts
<1> QED BY <1>1, PushInit, PushStep, PTL DEF Spec

\* The state is well typed and what waits in the inbox is sent again.
THEOREM InboxIsSound == Spec => []InboxSound
<1>1. PushSafe => InboxSound
  BY DEF PushSafe, PushParts, Base, InboxSound
<1> QED BY <1>1, PushInit, PushStep, PTL DEF Spec

-----------------------------------------------------------------------------
(* The pull invariant is kept *)

\* The rows and tables of the next state are made of numbers too.
LEMMA NextNumbers ==
  ASSUME Base'
  PROVE  /\ \A row \in Rows : /\ hub'[row].rev \in Nat /\ hub'[row].at \in Nat
                              /\ rep'[row].rev \in Nat /\ rep'[row].at \in Nat
         /\ \A t \in Tables : /\ cur'[t].pull \in Nat /\ cur'[t].since \in Nat
                              /\ cur'[t].mark \in Nat /\ cur'[t].after \in Nat
                              /\ cur'[t].held \in Int /\ cur'[t].proof \in BOOLEAN
                              /\ Since(t)' \in Nat
         /\ hubClock' \in Nat
<1>1. Revisions \subseteq Nat /\ Arrivals \subseteq Nat /\ Rows \cup {0} \subseteq Nat /\ 0 \in Nat
  BY Sets
<1>2. \A row \in Rows : rep'[row] \in Versions
  BY DEF Base, TypeOK
<1>3. \A row \in Rows : hub'[row].rev \in Revisions /\ hub'[row].at \in Arrivals
  BY DEF Base, TypeOK
<1>4. \A row \in Rows : rep'[row].rev \in Nat /\ rep'[row].at \in Nat
  BY <1>1, <1>2, Fields
<1>5. \A t \in Tables : cur'[t] \in Cursors
  BY DEF Base, TypeOK
<1>6. \A t \in Tables : /\ cur'[t].pull \in Nat /\ cur'[t].since \in Nat
                        /\ cur'[t].mark \in Nat /\ cur'[t].after \in Nat
                        /\ cur'[t].held \in Int /\ cur'[t].proof \in BOOLEAN
  BY <1>1, <1>5, Fields
<1>7. \A t \in Tables : Since(t)' \in Nat
  BY <1>6 DEF Since
<1>8. hubClock' \in Nat
  BY <1>1 DEF Base, TypeOK
<1> QED BY <1>1, <1>3, <1>4, <1>6, <1>7, <1>8

\* A row is behind the hub since before, or the hub's version arrives now.
LEMMA BehindBefore ==
  ASSUME Base, Base', HubGrown, NEW row \in Rows, rep'[row].rev >= rep[row].rev, Behind(row)'
  PROVE  \/ Behind(row) /\ hub'[row].at = hub[row].at /\ hub'[row].rev = hub[row].rev
         \/ hub'[row].rev > hub[row].rev /\ hub'[row].at = hubClock
<1>1. /\ hub[row].rev \in Nat /\ hub'[row].rev \in Nat
      /\ rep[row].rev \in Nat /\ rep'[row].rev \in Nat
  BY Numbers, NextNumbers DEF Base
<1>2. CASE hub'[row].rev > hub[row].rev
  BY <1>2 DEF HubGrown
<1>3. CASE hub'[row].rev = hub[row].rev
  BY <1>1, <1>3 DEF HubGrown, Behind
<1> QED BY <1>1, <1>2, <1>3 DEF HubGrown

\* The pull invariant's parts that speak of no page and no walk.
AtRest == ArrivalsFit /\ HeldFits /\ ProgressFits /\ SinceCovers /\ ProgressCovers

\* The parts that do.
OnTheWay == WalksFit /\ WalkCovers /\ PageFits /\ PageCovers

\* The rows counted at a cursor stay counted.
LEMMA HeldStays ==
  ASSUME PullSafe, Base', NEW t \in Tables, cur'[t].held = cur[t].held, cur'[t].pull <= cur[t].pull,
         \A row \in Rows : rep'[row].at >= rep[row].at
  PROVE  cur'[t].held <= Cardinality({row \in RowsOf(t) : rep'[row].at >= cur'[t].pull})
<1> DEFINE S == {row \in RowsOf(t) : rep[row].at >= cur[t].pull}
           T == {row \in RowsOf(t) : rep'[row].at >= cur'[t].pull}
<1>1. cur[t].held <= Cardinality(S)
  BY DEF PullSafe, PullParts, HeldFits
<1>2. /\ \A row \in Rows : rep[row].at \in Nat /\ rep'[row].at \in Nat
      /\ cur[t].pull \in Nat /\ cur'[t].pull \in Nat /\ cur[t].held \in Int
  BY Numbers, TableNumbers, NextNumbers DEF PullSafe, PushSafe, Base
<1>3. RowsOf(t) \subseteq Rows
  BY DEF RowsOf
<1>4. S \in SUBSET Rows /\ T \in SUBSET Rows
  BY <1>3
<1>5. S \subseteq T
  BY <1>2, <1>3
<1> HIDE DEF S, T
<1>6. IsFiniteSet(S) /\ IsFiniteSet(T) /\ Cardinality(S) \in Nat /\ Cardinality(T) \in Nat
  <2>1. Cardinality(Rows) \in Nat
    BY Sets
  <2> QED BY <1>4, <2>1, CountType
<1>7. Cardinality(S) <= Cardinality(T)
  BY <1>5, <1>6, FS_Subset
<1>8. cur'[t].held <= Cardinality(T)
  BY <1>1, <1>2, <1>6, <1>7
<1> QED BY <1>8 DEF T

\* The newest arrival is some row's, and none is newer.
LEMMA NewestOf ==
  ASSUME NEW h \in [Rows -> HubRows0], NEW t \in Tables
  PROVE  LET newest == Highest({h[row].at : row \in RowsOf(t)})
         IN  /\ newest \in Nat /\ \A row \in RowsOf(t) : h[row].at <= newest
             /\ newest = 0 \/ \E row \in RowsOf(t) : h[row].at = newest
<1> DEFINE S == {h[row].at : row \in RowsOf(t)}
<1>1. \A row \in RowsOf(t) : h[row].at \in Arrivals
  BY DEF RowsOf, HubRows0
<1>2. S \in SUBSET (0 .. MaxArrival) /\ S \subseteq Nat /\ MaxArrival \in Nat
  BY <1>1, Sets, CoreAssumption DEF Arrivals
<1>3. \A x \in S : \E row \in RowsOf(t) : h[row].at = x
  OBVIOUS
<1>4. \A row \in RowsOf(t) : h[row].at \in S
  OBVIOUS
<1> HIDE DEF S
<1>5. Highest(S) \in S \cup {0} /\ \A y \in S : Highest(S) >= y
  BY <1>2, HighestIs
<1>6. Highest(S) \in Nat
  <2>1. CASE Highest(S) \in S
    BY <1>2, <2>1
  <2>2. CASE Highest(S) = 0
    BY <2>2
  <2> QED BY <1>5, <2>1, <2>2
<1>7. \A row \in RowsOf(t) : h[row].at <= Highest(S)
  BY <1>2, <1>4, <1>5, <1>6
<1> QED BY <1>3, <1>5, <1>6, <1>7 DEF S

\* The newest arrival only moves on.
LEMMA NewestGrows ==
  ASSUME Base, Base', HubGrown, NEW t \in Tables
  PROVE  Newest(t)' >= Newest(t) /\ Newest(t) \in Nat /\ Newest(t)' \in Nat
<1>1. hub \in [Rows -> HubRows0] /\ hub' \in [Rows -> HubRows0]
  BY DEF Base, TypeOK, HubRows0
<1>2. /\ Newest(t) \in Nat /\ \A row \in RowsOf(t) : hub[row].at <= Newest(t)
      /\ Newest(t) = 0 \/ \E row \in RowsOf(t) : hub[row].at = Newest(t)
  BY <1>1, NewestOf DEF Newest
<1>3. Newest(t)' \in Nat /\ \A row \in RowsOf(t) : hub'[row].at <= Newest(t)'
  BY <1>1, NewestOf DEF Newest
<1>4. CASE Newest(t) = 0
  BY <1>2, <1>3, <1>4
<1>5. ASSUME NEW row \in RowsOf(t), hub[row].at = Newest(t) PROVE Newest(t)' >= Newest(t)
  <2>1. row \in Rows
    BY DEF RowsOf
  <2>2. hub'[row].at >= hub[row].at /\ hub'[row].at \in Nat
    BY <2>1, NextNumbers DEF HubGrown
  <2> QED BY <1>2, <1>3, <1>5, <2>2
<1> QED BY <1>2, <1>3, <1>4, <1>5

\* Progress that fits a cursor that lost its proof fitted it before.
LEMMA ProgressBefore ==
  ASSUME PullSafe, NEW t \in Tables, cur[t].after # 0, NEW s \in {0, Since(t)}, cur[t].since = s
  PROVE  cur[t].since = Since(t)
BY DEF PullSafe, PullParts, ProgressFits

\* The device's cursors, pages and walks wait: rows are written, on the hub or on
\* the device, and receipts dealt with.
LEMMA WaitingRest ==
  ASSUME PullSafe, Base', HubGrown,
         \A row \in Rows : hub'[row].rev > hub[row].rev => hub[row].at < hubClock \/ ~Behind(row)',
         \A row \in Rows : rep'[row].rev >= rep[row].rev /\ rep'[row].at = rep[row].at,
         cur' = cur, bound' = bound, rd'.marks = rd.marks, rd'.walk = rd.walk,
         rd'.pc = "snapshot" => rd.pc = "snapshot"
  PROVE  AtRest' /\ MarksOld'
<1>1. \A t \in Tables : Since(t)' = Since(t) /\ Since(t) \in Nat
  BY TableNumbers DEF Since, PullSafe, PushSafe, Base
<1>2. /\ \A row \in Rows : /\ hub[row].at \in Nat /\ rep[row].at \in Nat /\ hub'[row].at \in Nat
                           /\ rep[row].rev \in Nat /\ hub[row].rev \in Nat
                           /\ rep'[row].rev \in Nat /\ hub'[row].rev \in Nat
                           /\ TableOf[row] \in Tables /\ hub[row].at <= hubClock
      /\ hubClock \in Nat /\ hubClock' \in Nat /\ hubClock' >= hubClock
  BY Numbers, NextNumbers DEF PullSafe, PushSafe, Base, HubGrown
<1>3. MarksOld'
  <2>1. \A t \in Tables : /\ cur[t].pull \in Nat /\ cur[t].mark \in Nat /\ cur[t].since \in Nat
                          /\ rd.marks[t] \in Nat /\ rd.walk[t].mark \in Nat
                          /\ rd.walk[t].since \in Nat
    BY TableNumbers DEF PullSafe, PushSafe, Base
  <2>2. MarksOld
    BY DEF PullSafe, PullParts
  <2> QED BY <1>2, <2>1, <2>2 DEF MarksOld
<1>4. ArrivalsFit'
  <2> SUFFICES ASSUME NEW row \in Rows
               PROVE  rep'[row].at <= hub'[row].at /\ (rep'[row].at = hub'[row].at => ~Behind(row)')
    BY DEF ArrivalsFit
  <2>1. rep[row].at <= hub[row].at /\ (rep[row].at = hub[row].at => ~Behind(row))
    BY DEF PullSafe, PullParts, ArrivalsFit
  <2>2. hub'[row].at >= hub[row].at
    BY DEF HubGrown
  <2>3. ASSUME rep'[row].at = hub'[row].at, Behind(row)' PROVE FALSE
    <3>1. CASE Behind(row) /\ hub'[row].at = hub[row].at
      BY <2>1, <2>3, <3>1
    <3>2. CASE hub'[row].rev > hub[row].rev /\ hub'[row].at = hubClock
      BY <1>2, <2>1, <2>3, <3>2
    <3> QED BY <2>3, <3>1, <3>2, BehindBefore DEF PullSafe, PushSafe
  <2> QED BY <1>2, <2>1, <2>2, <2>3
<1>5. HeldFits'
  <2> SUFFICES ASSUME NEW t \in Tables
               PROVE  cur'[t].held <= Cardinality({row \in RowsOf(t) : rep'[row].at >= cur'[t].pull})
    BY DEF HeldFits, RowsOf
  <2>1. cur[t].pull <= cur[t].pull
    BY TableNumbers DEF PullSafe, PushSafe, Base
  <2>2. \A row \in Rows : rep'[row].at >= rep[row].at
    BY <1>2
  <2> QED BY <2>1, <2>2, HeldStays
<1>6. ProgressFits'
  <2> SUFFICES ASSUME NEW t \in Tables, cur[t].after # 0
               PROVE  /\ cur[t].since = Since(t) \/ Since(t) = 0
                      /\ cur[t].since <= Newest(t)'
                      /\ rd'.pc = "snapshot" => cur[t].since <= rd.marks[t]
    BY <1>1 DEF ProgressFits
  <2>1. /\ cur[t].since = Since(t) \/ Since(t) = 0
        /\ cur[t].since <= Newest(t)
        /\ rd.pc = "snapshot" => cur[t].since <= rd.marks[t]
    BY DEF PullSafe, PullParts, ProgressFits
  <2>2. cur[t].since \in Nat
    BY TableNumbers DEF PullSafe, PushSafe, Base
  <2>3. Newest(t)' >= Newest(t) /\ Newest(t) \in Nat /\ Newest(t)' \in Nat
    BY NewestGrows DEF PullSafe, PushSafe
  <2> QED BY <2>1, <2>2, <2>3
<1>7. SinceCovers' /\ ProgressCovers'
  <2> SUFFICES ASSUME NEW row \in Rows, Behind(row)'
               PROVE  LET t == TableOf[row]
                      IN  /\ hub'[row].at >= Since(t)
                          /\ cur[t].after >= row /\ cur[t].since = Since(t)
                               => hub'[row].at >= cur[t].mark
    BY <1>1, <1>2 DEF SinceCovers, ProgressCovers
  <2> DEFINE t == TableOf[row]
  <2>1. t \in Tables /\ Since(t) \in {0, cur[t].pull}
    BY <1>2 DEF Since
  <2>2. cur[t].pull <= hubClock /\ cur[t].mark <= hubClock /\ 0 <= hubClock
    BY <1>2, <2>1 DEF PullSafe, PullParts, MarksOld
  <2>3. CASE Behind(row) /\ hub'[row].at = hub[row].at
    BY <2>1, <2>3 DEF PullSafe, PullParts, SinceCovers, ProgressCovers
  <2>4. CASE hub'[row].at = hubClock
    <3>1. Since(t) <= hubClock
      BY <2>1, <2>2
    <3> QED BY <2>2, <2>4, <3>1
  <2> QED BY <2>3, <2>4, BehindBefore DEF PullSafe, PushSafe
<1> QED BY <1>3, <1>4, <1>5, <1>6, <1>7 DEF AtRest

\* The walks and pages then wait as well.
LEMMA WaitingWay ==
  ASSUME PullSafe, Base', HubGrown,
         \A row \in Rows : hub'[row].rev > hub[row].rev => hub[row].at < hubClock \/ ~Behind(row)',
         \A row \in Rows : rep'[row].rev >= rep[row].rev /\ rep'[row].at = rep[row].at,
         cur' = cur, bound' = bound, rd'.walk = rd.walk, rd'.page = rd.page, rd'.todo = rd.todo,
         rd'.table = rd.table, rd'.deferred = rd.deferred,
         rd'.pc \in {"push", "receipt"} => rd.pc \in {"push", "receipt"}
  PROVE  OnTheWay'
<1>1. \A t \in Tables : Since(t)' = Since(t) /\ Deferring(t)' = Deferring(t)
  BY DEF Since, Deferring
<1>2. Coming' = Coming
  BY DEF Coming
<1>3. \A row \in Rows : /\ hub[row].at \in Nat /\ rep[row].at \in Nat /\ hub'[row].at \in Nat
                        /\ rep[row].rev \in Nat /\ hub[row].rev \in Nat
                        /\ rep'[row].rev \in Nat /\ hub'[row].rev \in Nat
                        /\ TableOf[row] \in Tables /\ hub[row].at <= hubClock
                        /\ hubClock \in Nat /\ hub'[row].at >= hub[row].at
  BY Numbers, NextNumbers DEF PullSafe, PushSafe, Base, HubGrown
<1>4. ASSUME NEW row \in Rows, Behind(row)'
      PROVE  (Behind(row) /\ hub'[row].at = hub[row].at) \/ hub'[row].at = hubClock
  BY <1>4, BehindBefore DEF PullSafe, PushSafe
<1>5. \A t \in Tables : /\ rd.walk[t].mark <= hubClock /\ rd.walk[t].mark \in Nat
                        /\ rd.walk[t].since \in Nat
  BY TableNumbers DEF PullSafe, PullParts, MarksOld, PushSafe, Base
<1>6. WalksFit'
  BY <1>1, <1>2 DEF WalksFit, PullSafe, PullParts
<1>7. WalkCovers'
  <2> SUFFICES ASSUME NEW row \in Rows, TableOf[row] \in Coming, ~Deferring(TableOf[row]), Behind(row)',
                      \/ row <= rd.walk[TableOf[row]].after
                      \/ TableOf[row] = rd.table /\ rd'.pc \in {"push", "receipt"}
               PROVE  hub'[row].at >= rd.walk[TableOf[row]].mark
    BY <1>1, <1>2, <1>3 DEF WalkCovers
  <2>1. CASE Behind(row) /\ hub'[row].at = hub[row].at
    BY <2>1 DEF WalkCovers, PullSafe, PullParts
  <2>2. CASE hub'[row].at = hubClock
    BY <1>3, <1>5, <2>2
  <2> QED BY <1>4, <2>1, <2>2
<1>8. PageFits'
  <2> SUFFICES ASSUME NEW t \in Tables, rd.page[t].on, rd.page[t].row # 0
               PROVE  LET row == rd.page[t].row
                          ver == rd.page[t].ver
                      IN  /\ row > rd.walk[t].after /\ hub'[row].at >= rd.walk[t].since
                          /\ rep'[row].at <= ver.at /\ ver.at <= hub'[row].at
                          /\ ver.at = hub'[row].at => ver.rev >= hub'[row].rev \/ ~Behind(row)'
                          /\ hub'[row].rev > ver.rev => hub'[row].at >= rd.walk[t].mark
    BY DEF PageFits, Behind
  <2>1. PICK row \in Rows : row = rd.page[t].row /\ TableOf[row] = t
    BY PageNumbers DEF PullSafe, PushSafe
  <2>2. PICK ver \in Versions : ver = rd.page[t].ver /\ ver.rev \in Nat /\ ver.at \in Nat
    <3>1. rd.page[t] \in Pages
      BY DEF PullSafe, PushSafe, Base, TypeOK, Rounds
    <3> QED BY <3>1, Fields, Sets
  <2>3. /\ row > rd.walk[t].after /\ hub[row].at >= rd.walk[t].since
        /\ rep[row].at <= ver.at /\ ver.at <= hub[row].at
        /\ ver.at = hub[row].at => ver.rev >= hub[row].rev \/ ~Behind(row)
        /\ hub[row].rev > ver.rev => hub[row].at >= rd.walk[t].mark
    BY <2>1, <2>2 DEF PageFits, PullSafe, PullParts
  <2>4. hub'[row].at >= rd.walk[t].since /\ rep'[row].at <= ver.at /\ ver.at <= hub'[row].at
    BY <1>3, <1>5, <2>2, <2>3
  <2>5. CASE hub'[row].rev = hub[row].rev
    <3>1. hub'[row].at = hub[row].at
      BY <2>5 DEF HubGrown
    <3>2. Behind(row)' => Behind(row)
      BY <1>3, <2>5 DEF Behind
    <3> QED BY <2>1, <2>2, <2>3, <2>4, <2>5, <3>1, <3>2
  <2>6. CASE hub'[row].rev > hub[row].rev
    <3>1. hub'[row].at = hubClock /\ (hub[row].at < hubClock \/ ~Behind(row)')
      BY <2>6 DEF HubGrown
    <3>2. hub'[row].at >= rd.walk[t].mark
      BY <1>3, <1>5, <3>1
    <3>3. ver.at = hub'[row].at => ~Behind(row)'
      BY <1>3, <2>2, <2>3, <3>1
    <3> QED BY <2>1, <2>2, <2>3, <2>4, <3>2, <3>3
  <2> QED BY <1>3, <2>5, <2>6 DEF HubGrown
<1>9. PageCovers'
  <2> SUFFICES ASSUME NEW t \in Tables, rd.page[t].on, NEW row \in RowsOf(t), Behind(row)',
                      row > rd.walk[t].after, rd.page[t].row = 0 \/ row < rd.page[t].row
               PROVE  hub'[row].at >= rd.walk[t].mark
    BY DEF PageCovers, RowsOf
  <2>1. row \in Rows
    BY DEF RowsOf
  <2>2. CASE Behind(row) /\ hub'[row].at = hub[row].at
    BY <2>2 DEF PageCovers, PullSafe, PullParts
  <2>3. CASE hub'[row].at = hubClock
    BY <1>3, <1>5, <2>1, <2>3
  <2> QED BY <1>4, <2>1, <2>2, <2>3
<1> QED BY <1>6, <1>7, <1>8, <1>9 DEF OnTheWay

\* Cursors keep their arrivals, and perhaps lose their proof, as a round begins.
LEMMA WeakerRest ==
  ASSUME PullSafe, Base', UNCHANGED <<hub, hubClock, rep>>,
         \A t \in Tables :
           /\ cur'[t].pull = cur[t].pull /\ cur'[t].held = cur[t].held
           /\ cur'[t].since = cur[t].since /\ cur'[t].mark = cur[t].mark
           /\ cur'[t].after = cur[t].after /\ Since(t)' \in {0, Since(t)},
         rd'.pc = "snapshot" => \A t \in Tables : rd'.marks[t] = Newest(t)
  PROVE  AtRest'
<1>1. /\ \A row \in Rows : /\ rep[row].at \in Nat /\ hub[row].at \in Nat /\ TableOf[row] \in Tables
                           /\ row \in Nat \ {0}
      /\ \A t \in Tables : cur[t].pull \in Nat /\ Since(t) \in Nat /\ cur[t].after \in Nat
  BY Numbers, TableNumbers, Sets DEF PullSafe, PushSafe, Base
<1>2. \A row \in Rows : Behind(row)' = Behind(row)
  BY DEF Behind
<1>3. ArrivalsFit'
  BY <1>2 DEF ArrivalsFit, PullSafe, PullParts
<1>4. HeldFits'
  <2> SUFFICES ASSUME NEW t \in Tables
               PROVE  cur'[t].held <= Cardinality({row \in RowsOf(t) : rep'[row].at >= cur'[t].pull})
    BY DEF HeldFits, RowsOf
  <2>1. cur'[t].pull <= cur[t].pull /\ \A row \in Rows : rep'[row].at >= rep[row].at
    BY <1>1
  <2> QED BY <2>1, HeldStays
<1>5. ProgressFits'
  <2> SUFFICES ASSUME NEW t \in Tables, cur[t].after # 0
               PROVE  /\ cur[t].since = Since(t)' \/ Since(t)' = 0
                      /\ cur[t].since <= Newest(t)'
                      /\ rd'.pc = "snapshot" => cur[t].since <= rd'.marks[t]
    BY DEF ProgressFits
  <2>1. Newest(t)' = Newest(t)
    BY DEF Newest
  <2>2. (cur[t].since = Since(t) \/ Since(t) = 0) /\ cur[t].since <= Newest(t)
    BY DEF ProgressFits, PullSafe, PullParts
  <2> QED BY <2>1, <2>2
<1>6. SinceCovers'
  <2> SUFFICES ASSUME NEW row \in Rows, Behind(row) PROVE hub[row].at >= Since(TableOf[row])'
    BY <1>2 DEF SinceCovers
  <2>1. hub[row].at >= Since(TableOf[row])
    BY DEF SinceCovers, PullSafe, PullParts
  <2> QED BY <1>1, <2>1
<1>7. ProgressCovers'
  <2> SUFFICES ASSUME NEW row \in Rows, Behind(row), cur[TableOf[row]].after >= row,
                      cur[TableOf[row]].since = Since(TableOf[row])'
               PROVE  hub[row].at >= cur[TableOf[row]].mark
    BY <1>1, <1>2 DEF ProgressCovers
  <2>1. cur[TableOf[row]].after # 0
    BY <1>1
  <2>2. cur[TableOf[row]].since = Since(TableOf[row])
    BY <1>1, <2>1, ProgressBefore
  <2> QED BY <2>2 DEF ProgressCovers, PullSafe, PullParts
<1> QED BY <1>3, <1>4, <1>5, <1>6, <1>7 DEF AtRest

\* No table is to come, and no page is held.
LEMMA NothingOnTheWay ==
  ASSUME rd'.todo = {}, rd'.table = NoTable, \A t \in Tables : ~rd'.page[t].on
  PROVE  OnTheWay'
<1>1. Tables \cap Coming' = {} /\ \A row \in Rows : TableOf[row] \in Tables
  BY CoreAssumption DEF Coming
<1>2. WalksFit' /\ PageFits' /\ PageCovers'
  BY <1>1 DEF WalksFit, PageFits, PageCovers
<1>3. WalkCovers'
  BY <1>1 DEF WalkCovers
<1> QED BY <1>2, <1>3 DEF OnTheWay

\* A round begins, ends or is given up.
LEMMA HeadPull ==
  ASSUME PullSafe, Base', UNCHANGED <<hub, hubClock, rep, bound>>,
         rd'.todo = {}, rd'.table = NoTable, rd'.pc # "snapshot",
         \A t \in Tables : rd'.page[t] = NoPage /\ rd'.walk[t] = NoWalk /\ rd'.marks[t] = 0,
         \A t \in Tables :
           /\ cur'[t].pull = cur[t].pull /\ cur'[t].held = cur[t].held
           /\ cur'[t].since = cur[t].since /\ cur'[t].mark = cur[t].mark
           /\ cur'[t].after = cur[t].after /\ (cur'[t].proof => cur[t].proof)
  PROVE  AtRest' /\ MarksOld' /\ OnTheWay'
<1>1. \A t \in Tables : Since(t)' \in {0, Since(t)}
  BY DEF Since
<1>2. AtRest'
  BY <1>1, WeakerRest
<1>3. OnTheWay'
  BY NothingOnTheWay DEF NoPage
<1>4. MarksOld'
  <2>1. hubClock \in Nat
    BY Numbers DEF PullSafe, PushSafe, Base
  <2> QED BY <2>1 DEF MarksOld, NoWalk, PullSafe, PullParts
<1> QED BY <1>2, <1>3, <1>4

\* A round begins.
LEMMA BeginPull ==
  ASSUME PullSafe, Base', NEW skip \in SUBSET Excludable, Begin(skip)
  PROVE  AtRest' /\ MarksOld' /\ OnTheWay'
<1> DEFINE new == Excluded(Forgotten(cur), skip)
<1>1. /\ cur' = new /\ rd'.pc = "cursor"
      /\ rd'.todo = {} /\ rd'.table = NoTable
      /\ \A t \in Tables : rd'.page[t] = NoPage /\ rd'.walk[t] = NoWalk /\ rd'.marks[t] = 0
  BY BeginEffect DEF PullSafe, PushSafe
<1>2. \A t \in Tables :
        /\ cur'[t].pull = cur[t].pull /\ cur'[t].held = cur[t].held
        /\ cur'[t].since = cur[t].since /\ cur'[t].mark = cur[t].mark
        /\ cur'[t].after = cur[t].after /\ (cur'[t].proof => cur[t].proof)
  <2>1. \A t \in Tables :
          /\ new[t].proof = (cur[t].proof /\ t \notin skip)
          /\ new[t].pull = cur[t].pull /\ new[t].held = cur[t].held
          /\ new[t].since = cur[t].since /\ new[t].mark = cur[t].mark
          /\ new[t].after = cur[t].after
    BY CursorsType DEF PullSafe, PushSafe, Base
  <2> QED BY <1>1, <2>1
<1> QED BY <1>1, <1>2, HeadPull DEF Begin

\* A round ends or is given up.
LEMMA IdlePull ==
  ASSUME PullSafe, Base', UNCHANGED <<hub, hubClock, device>>, rd' = Idle
  PROVE  AtRest' /\ MarksOld' /\ OnTheWay'
<1>1. /\ rd'.pc = "idle" /\ rd'.todo = {} /\ rd'.table = NoTable
      /\ \A t \in Tables : rd'.page[t] = NoPage /\ rd'.walk[t] = NoWalk /\ rd'.marks[t] = 0
  BY DEF Idle
<1> QED BY <1>1, HeadPull DEF device

\* The hub's newest arrivals are read, and its name pinned.
LEMMA ReadCursorPull ==
  ASSUME PullSafe, Base', ReadCursor
  PROVE  AtRest' /\ MarksOld' /\ OnTheWay'
<1>1. /\ rd.pc = "cursor" /\ rd'.walk = rd.walk /\ rd'.page = rd.page /\ rd'.todo = rd.todo
      /\ rd'.table = rd.table /\ \A t \in Tables : rd'.marks[t] = Newest(t)
  BY ReadCursorEffect DEF PullSafe, PushSafe
<1>2. \A t \in Tables : Since(t)' \in {0, Since(t)}
  <2>1. ~bound => \A t \in Tables : ~cur[t].proof
    BY DEF PullSafe, PushSafe, PushParts, Binding, Unsynced
  <2>2. cur' = cur /\ bound' = TRUE /\ bound \in BOOLEAN
    BY DEF ReadCursor, PullSafe, PushSafe, Base, TypeOK
  <2> QED BY <2>1, <2>2 DEF Since
<1>3. AtRest'
  BY <1>1, <1>2, WeakerRest DEF ReadCursor
<1>4. OnTheWay'
  <2>1. rd.todo = {} /\ rd.table = NoTable /\ \A t \in Tables : ~rd.page[t].on
    BY <1>1 DEF PullSafe, PushSafe, Base, RoundShape, Head, InTable
  <2> QED BY <1>1, <2>1, NothingOnTheWay
<1>5. MarksOld'
  <2>1. \A t \in Tables : Newest(t) <= hubClock
    BY NewestType DEF PullSafe, PushSafe, Base
  <2> QED BY <1>1, <2>1 DEF MarksOld, ReadCursor, PullSafe, PullParts
<1> QED BY <1>3, <1>4, <1>5

\* The mark of a new walk is a reading of the hub's clock.
LEMMA TopOld ==
  ASSUME TypeOK, MarksOld
  PROVE  Top <= hubClock
<1> DEFINE S == {rd.marks[t] : t \in Tables}
<1>1. \A t \in Tables : rd.marks[t] \in Arrivals /\ rd.marks[t] <= hubClock
  BY DEF TypeOK, Rounds, MarksOld
<1>2. S \in SUBSET Arrivals /\ \A x \in S : x <= hubClock
  BY <1>1
<1>3. Highest(S) \in S \cup {0}
  BY <1>2, HighestIs, CoreAssumption DEF Arrivals
<1>4. hubClock \in Nat
  BY Numbers
<1> HIDE DEF S
<1>5. Highest(S) <= hubClock
  BY <1>2, <1>3, <1>4
<1> QED BY <1>5 DEF Top, S

\* When a round takes its snapshot, its cursors are the device's.
LEMMA SnapshotSince ==
  ASSUME PullSafe, rd.pc = "snapshot", NEW t \in Tables
  PROVE  PullSince(t) = Since(t)
<1>1. bound
  BY DEF PullSafe, PushSafe, PushParts, Binding
<1>2. ~rd.bound => ~cur[t].proof
  BY DEF PullSafe, PushSafe, PushParts, Binding, Unsynced
<1> QED BY <1>1, <1>2 DEF PullSince, Since

\* The walks start at the cursors, or where an unfinished walk stopped.
LEMMA SnapshotPull ==
  ASSUME PullSafe, Base', Snapshot
  PROVE  AtRest' /\ MarksOld' /\ OnTheWay'
<1> DEFINE new == Excluded(Forgotten(cur), rd.skip)
<1>1. /\ rd.pc = "snapshot" /\ cur' = new /\ rd'.pc \in {"certify", "table"}
      /\ rd'.todo = Included /\ rd'.table = rd.table /\ rd'.marks = rd.marks
      /\ rd'.page = rd.page
      /\ \A t \in Included : rd'.walk[t] = Walk(t)
      /\ \A t \in Tables \ Included : rd'.walk[t] = NoWalk
  BY SnapshotEffect DEF PullSafe, PushSafe
<1>2. UNCHANGED <<hub, hubClock, rep, bound>> /\ bound
  BY <1>1 DEF Snapshot, PullSafe, PushSafe, PushParts, Binding
<1>3. rd.table = NoTable /\ \A t \in Tables : ~rd.page[t].on
  BY <1>1 DEF PullSafe, PushSafe, Base, RoundShape, Head, InTable
<1>4. \A t \in Tables :
        /\ cur'[t].pull = cur[t].pull /\ cur'[t].held = cur[t].held
        /\ cur'[t].since = cur[t].since /\ cur'[t].mark = cur[t].mark
        /\ cur'[t].after = cur[t].after /\ cur'[t].proof = (cur[t].proof /\ t \notin rd.skip)
  <2>1. \A t \in Tables :
          /\ new[t].proof = (cur[t].proof /\ t \notin rd.skip)
          /\ new[t].pull = cur[t].pull /\ new[t].held = cur[t].held
          /\ new[t].since = cur[t].since /\ new[t].mark = cur[t].mark
          /\ new[t].after = cur[t].after
    BY CursorsType DEF PullSafe, PushSafe, Base
  <2> QED BY <1>1, <2>1
<1>5. \A t \in Tables : Since(t)' \in {0, Since(t)} /\ (t \in Included => Since(t)' = Since(t))
  BY <1>2, <1>4 DEF Since, Included
<1>6. AtRest'
  BY <1>1, <1>2, <1>4, <1>5, WeakerRest
<1>7. Tables \cap Coming' \subseteq Included /\ Included \subseteq Tables
  BY <1>1, <1>3, CoreAssumption DEF Coming, Included
<1>8. \A t \in Tables : PullSince(t) = Since(t)
  BY <1>1, SnapshotSince
<1>9. ASSUME NEW t \in Included
      PROVE  /\ rd'.walk[t].since = Since(t)
             /\ rd'.walk[t].quiet => rd'.walk[t].mark = Since(t)
             /\ rd'.walk[t].after = (IF Resumes(t) THEN cur[t].after ELSE 0)
             /\ rd'.walk[t].mark \in {cur[t].mark, Since(t), Top}
             /\ Resumes(t) => rd'.walk[t].mark = cur[t].mark /\ cur[t].since = Since(t)
  <2>1. t \in Tables /\ rd'.walk[t] = Walk(t) /\ PullSince(t) = Since(t)
    BY <1>1, <1>7, <1>8
  <2>2. Quiet(t) /\ Resumes(t) => FALSE
    <3>1. Resumes(t) => cur[t].since = Since(t) /\ cur[t].since <= rd.marks[t]
      BY <1>1, <2>1 DEF Resumes, ProgressFits, PullSafe, PullParts
    <3>2. rd.marks[t] \in Nat /\ Since(t) \in Nat
      BY <2>1, TableNumbers DEF PullSafe, PushSafe, Base
    <3> QED BY <2>1, <3>1, <3>2 DEF Quiet
  <2> QED BY <2>1, <2>2 DEF Walk, Resumes
<1>10. MarksOld'
  <2>1. /\ \A t \in Tables : /\ cur[t].pull <= hubClock /\ cur[t].mark <= hubClock
                             /\ cur[t].since <= hubClock /\ rd.marks[t] <= hubClock
        /\ Top <= hubClock /\ hubClock \in Nat
    BY TopOld, Numbers DEF MarksOld, PullSafe, PullParts, PushSafe, Base
  <2>2. \A t \in Tables : Since(t) <= hubClock
    BY <2>1 DEF Since
  <2>3. \A t \in Tables : rd'.walk[t].mark <= hubClock /\ rd'.walk[t].since <= hubClock
    <3>1. \A t \in Included : rd'.walk[t].mark <= hubClock /\ rd'.walk[t].since <= hubClock
      BY <1>7, <1>9, <2>1, <2>2
    <3>2. \A t \in Tables \ Included : rd'.walk[t].mark <= hubClock /\ rd'.walk[t].since <= hubClock
      BY <1>1, <2>1 DEF NoWalk
    <3> QED BY <3>1, <3>2
  <2> QED BY <1>1, <1>2, <1>4, <2>1, <2>3 DEF MarksOld
<1>11. OnTheWay'
  <2>1. WalksFit'
    BY <1>5, <1>7, <1>9 DEF WalksFit
  <2>2. WalkCovers'
    <3> SUFFICES ASSUME NEW row \in Rows, TableOf[row] \in Included, Behind(row),
                        row <= rd'.walk[TableOf[row]].after
                 PROVE  hub[row].at >= rd'.walk[TableOf[row]].mark
      <4>1. \A row \in Rows : TableOf[row] \in Coming' => TableOf[row] \in Included
        BY <1>7, CoreAssumption
      <4> QED BY <1>1, <1>2, <4>1 DEF WalkCovers, Behind
    <3>1. row \in Nat \ {0}
      BY Sets
    <3>2. Resumes(TableOf[row]) /\ row <= cur[TableOf[row]].after
      BY <1>9, <3>1
    <3>3. cur[TableOf[row]].after >= row
      <4>1. cur[TableOf[row]].after \in Nat
        BY <1>7, TableNumbers DEF PullSafe, PushSafe, Base
      <4> QED BY <3>1, <3>2, <4>1
    <3> QED BY <1>9, <3>2, <3>3 DEF ProgressCovers, PullSafe, PullParts
  <2>3. PageFits' /\ PageCovers'
    BY <1>1, <1>3 DEF PageFits, PageCovers
  <2> QED BY <2>1, <2>2, <2>3 DEF OnTheWay
<1> QED BY <1>6, <1>10, <1>11

\* The round's record of walks and the device's cursors are left alone.
LEMMA SameRest ==
  ASSUME PullSafe, Base', UNCHANGED <<hub, hubClock, rep, cur, bound>>,
         rd'.marks = rd.marks, rd'.walk = rd.walk, rd'.pc # "snapshot"
  PROVE  AtRest' /\ MarksOld'
<1>1. HubGrown
  BY SameHub DEF PullSafe, PushSafe, Base
<1>2. \A row \in Rows : /\ rep'[row].rev >= rep[row].rev /\ rep'[row].at = rep[row].at
                        /\ ~(hub'[row].rev > hub[row].rev)
  BY Numbers DEF PullSafe, PushSafe, Base
<1> QED BY <1>1, <1>2, WaitingRest

\* The next table is opened: a quiet one has nothing to pull.
LEMMA NextTablePull ==
  ASSUME PullSafe, Base', NextTable
  PROVE  AtRest' /\ MarksOld' /\ OnTheWay'
<1>1. /\ rd.pc = "table" /\ rd.table = NoTable /\ rd'.table \in rd.todo
      /\ rd'.todo = rd.todo \ {rd'.table}
      /\ rd'.pc = (IF rd.walk[rd'.table].quiet THEN "push" ELSE "pull")
      /\ ~rd'.deferred /\ rd'.marks = rd.marks /\ rd'.walk = rd.walk /\ rd'.page = rd.page
  BY NextTableEffect DEF PullSafe, PushSafe
<1>2. UNCHANGED <<hub, hubClock, rep, cur, bound>>
  BY DEF NextTable, device
<1>3. AtRest' /\ MarksOld'
  BY <1>1, <1>2, SameRest
<1>4. \A t \in Tables : Since(t)' = Since(t) /\ ~Deferring(t)'
  BY <1>1, <1>2 DEF Since, Deferring
<1>5. Coming' = rd.todo /\ rd.todo \subseteq Coming /\ rd.todo \subseteq Tables
  BY <1>1 DEF Coming, PullSafe, PushSafe, Base, TypeOK, Rounds
<1>6. \A row \in Rows : Behind(row)' = Behind(row)
  BY <1>2 DEF Behind
<1>7. WalksFit'
  BY <1>1, <1>4, <1>5 DEF WalksFit, PullSafe, PullParts
<1>8. WalkCovers'
  <2> SUFFICES ASSUME NEW row \in Rows, TableOf[row] \in rd.todo, Behind(row),
                      \/ row <= rd.walk[TableOf[row]].after
                      \/ TableOf[row] = rd'.table /\ rd'.pc \in {"push", "receipt"}
               PROVE  hub[row].at >= rd.walk[TableOf[row]].mark
    BY <1>1, <1>2, <1>5, <1>6 DEF WalkCovers
  <2>1. TableOf[row] \in Coming /\ TableOf[row] \in Tables /\ ~Deferring(TableOf[row])
    BY <1>1, <1>5, CoreAssumption DEF Deferring
  <2>2. CASE row <= rd.walk[TableOf[row]].after
    BY <2>1, <2>2 DEF WalkCovers, PullSafe, PullParts
  <2>3. CASE TableOf[row] = rd'.table /\ rd'.pc \in {"push", "receipt"}
    <3>1. rd.walk[TableOf[row]].quiet
      BY <1>1, <2>3
    <3>2. rd.walk[TableOf[row]].mark = Since(TableOf[row])
      BY <2>1, <3>1 DEF WalksFit, PullSafe, PullParts
    <3> QED BY <3>2 DEF SinceCovers, PullSafe, PullParts
  <2> QED BY <2>2, <2>3
<1>9. PageFits' /\ PageCovers'
  BY <1>1, <1>2, <1>6 DEF PageFits, PageCovers, Behind, RowsOf, PullSafe, PullParts
<1> QED BY <1>3, <1>7, <1>8, <1>9 DEF OnTheWay

\* A page is the first row the walk has not passed; what it skips arrived before
\* the cursor, and so is not missing.
LEMMA FetchPull ==
  ASSUME PullSafe, Base', NEW t \in Tables, Fetch(t)
  PROVE  AtRest' /\ MarksOld' /\ OnTheWay'
<1>1. /\ rd.pc = "pull" /\ t \in Coming
      /\ rd'.page[t] = [on |-> TRUE, after |-> rd.walk[t].after,
                        row |-> FetchedRow(t), ver |-> FetchedVersion(t)]
      /\ \A u \in Tables \ {t} : rd'.page[u] = rd.page[u]
      /\ rd'.pc = rd.pc /\ rd'.marks = rd.marks /\ rd'.walk = rd.walk /\ rd'.todo = rd.todo
      /\ rd'.table = rd.table /\ rd'.deferred = rd.deferred
  BY FetchEffect DEF PullSafe, PushSafe
<1>2. UNCHANGED <<hub, hubClock, rep, cur, bound>>
  BY DEF Fetch, device
<1>3. AtRest' /\ MarksOld'
  BY <1>1, <1>2, SameRest
<1>4. /\ Coming' = Coming /\ \A u \in Tables : Since(u)' = Since(u) /\ Deferring(u)' = Deferring(u)
      /\ \A row \in Rows : Behind(row)' = Behind(row)
  BY <1>1, <1>2 DEF Coming, Since, Deferring, Behind
<1>5. WalksFit'
  BY <1>1, <1>4 DEF WalksFit, PullSafe, PullParts
<1>6. WalkCovers'
  BY <1>1, <1>2, <1>4, CoreAssumption DEF WalkCovers, PullSafe, PullParts
<1>7. /\ rd'.page[t].row = FetchedRow(t) /\ rd'.page[t].ver = FetchedVersion(t)
      /\ FetchedRow(t) \in RowsOf(t) \cup {0}
      /\ FetchedRow(t) # 0 =>
           /\ FetchedRow(t) \in Arrived(t)
           /\ FetchedVersion(t).rev = hub[FetchedRow(t)].rev
           /\ FetchedVersion(t).at = hub[FetchedRow(t)].at
      /\ \A row \in Arrived(t) : FetchedRow(t) # 0 /\ FetchedRow(t) <= row
  BY <1>1, FetchedIs DEF PullSafe, PushSafe
<1>8. ASSUME FetchedRow(t) # 0
      PROVE  LET row == FetchedRow(t)
                 ver == FetchedVersion(t)
             IN  /\ row > rd.walk[t].after /\ hub[row].at >= rd.walk[t].since
                 /\ rep[row].at <= ver.at /\ ver.at <= hub[row].at
                 /\ ver.rev = hub[row].rev /\ hub[row].rev \in Nat
  <2>1. PICK row \in Rows : row = FetchedRow(t) /\ row \in Arrived(t)
    BY <1>7, <1>8 DEF RowsOf
  <2>2. row > rd.walk[t].after /\ hub[row].at >= rd.walk[t].since
    BY <2>1 DEF Arrived
  <2>3. rep[row].at <= hub[row].at /\ hub[row].rev \in Nat /\ hub[row].at \in Nat
    BY <2>1, Numbers DEF ArrivalsFit, PullSafe, PullParts, PushSafe, Base
  <2> QED BY <1>7, <1>8, <2>1, <2>2, <2>3
<1>9. PageFits'
  <2> SUFFICES ASSUME NEW u \in Tables, rd'.page[u].on, rd'.page[u].row # 0
               PROVE  LET row == rd'.page[u].row
                          ver == rd'.page[u].ver
                      IN  /\ row > rd.walk[u].after /\ hub[row].at >= rd.walk[u].since
                          /\ rep[row].at <= ver.at /\ ver.at <= hub[row].at
                          /\ ver.at = hub[row].at =>
                               ver.rev >= hub[row].rev \/ ~(rep[row].rev < hub[row].rev)
                          /\ hub[row].rev > ver.rev => hub[row].at >= rd.walk[u].mark
    BY <1>1, <1>2 DEF PageFits, Behind
  <2>1. CASE u = t
    BY <1>7, <1>8, <2>1
  <2>2. CASE u # t
    BY <1>1, <2>2 DEF PageFits, Behind, PullSafe, PullParts
  <2> QED BY <2>1, <2>2
<1>10. PageCovers'
  <2> SUFFICES ASSUME NEW u \in Tables, rd'.page[u].on, NEW row \in RowsOf(u), Behind(row),
                      row > rd.walk[u].after, rd'.page[u].row = 0 \/ row < rd'.page[u].row
               PROVE  hub[row].at >= rd.walk[u].mark
    BY <1>1, <1>2, <1>4 DEF PageCovers, RowsOf
  <2>1. CASE u # t
    BY <1>1, <2>1 DEF PageCovers, PullSafe, PullParts
  <2>2. CASE u = t
    <3>1. /\ row \in Rows /\ row \in RowsOf(t) /\ TableOf[row] = t /\ row \in Nat
          /\ hub[row].rev \in Nat /\ rep[row].rev \in Nat /\ hub[row].at \in Nat
      BY <2>2, Numbers, Sets DEF RowsOf, PullSafe, PushSafe, Base
    <3>2. hub[row].rev > 0
      BY <3>1 DEF Behind
    <3>3. hub[row].at >= rd.walk[t].since
      BY <1>1, <3>1 DEF WalksFit, SinceCovers, PullSafe, PullParts
    <3>4. row \in Arrived(t)
      BY <2>2, <3>1, <3>2, <3>3 DEF Arrived
    <3>5. FetchedRow(t) # 0 /\ FetchedRow(t) <= row /\ FetchedRow(t) \in Nat
      <4>1. FetchedRow(t) \in Rows \cup {0}
        BY <1>7 DEF RowsOf
      <4> QED BY <1>7, <3>4, <4>1, Sets
    <3> QED BY <1>7, <2>2, <3>1, <3>5
  <2> QED BY <2>1, <2>2
<1> QED BY <1>3, <1>5, <1>6, <1>9, <1>10 DEF OnTheWay

\* What the page to be applied says of the rows of its table.
LEMMA PageIs ==
  ASSUME PullSafe, Apply
  PROVE  /\ rd.pc = "pull" /\ rd.table \in Tables \ rd.todo /\ rd.table \in Coming
         /\ Page.on /\ Page = rd.page[rd.table]
         /\ ~Ended => /\ Page.row \in Rows /\ TableOf[Page.row] = rd.table
                      /\ Page.row > rd.walk[rd.table].after
                      /\ hub[Page.row].at >= rd.walk[rd.table].since
                      /\ rep[Page.row].at <= Page.ver.at /\ Page.ver.at <= hub[Page.row].at
                      /\ Page.ver.at = hub[Page.row].at =>
                           Page.ver.rev >= hub[Page.row].rev \/ ~Behind(Page.row)
                      /\ hub[Page.row].rev > Page.ver.rev =>
                           hub[Page.row].at >= rd.walk[rd.table].mark
                      /\ Page.ver.rev \in Nat /\ Page.ver.at \in Nat
<1>1. /\ rd.pc = "pull" /\ rd.table \in Tables \ rd.todo /\ Page.on /\ Page = rd.page[rd.table]
  BY ApplyEffect DEF PullSafe, PushSafe, Page
<1>2. rd.table \in Coming
  BY DEF Coming
<1>3. ASSUME ~Ended
      PROVE  /\ Page.row \in Rows /\ TableOf[Page.row] = rd.table
             /\ Page.ver.rev \in Nat /\ Page.ver.at \in Nat
  BY <1>1, <1>3, PageNumbers DEF Ended, PullSafe, PushSafe
<1>4. ASSUME ~Ended
      PROVE  /\ Page.row > rd.walk[rd.table].after
             /\ hub[Page.row].at >= rd.walk[rd.table].since
             /\ rep[Page.row].at <= Page.ver.at /\ Page.ver.at <= hub[Page.row].at
             /\ Page.ver.at = hub[Page.row].at =>
                  Page.ver.rev >= hub[Page.row].rev \/ ~Behind(Page.row)
             /\ hub[Page.row].rev > Page.ver.rev => hub[Page.row].at >= rd.walk[rd.table].mark
  BY <1>1, <1>4 DEF Ended, PageFits, PullSafe, PullParts
<1> QED BY <1>1, <1>2, <1>3, <1>4

\* What a walk has passed with the page, and still misses, arrived since its mark.
LEMMA Passed ==
  ASSUME PullSafe, Base', Apply, ~rd.deferred, ~Deferred,
         NEW row \in RowsOf(rd.table), Behind(row)', Ended \/ row <= Page.row
  PROVE  hub[row].at >= rd.walk[rd.table].mark
<1> DEFINE t == rd.table
<1>1. /\ t \in Tables /\ t \in Coming /\ Page.on /\ Page = rd.page[t] /\ rd.pc = "pull"
      /\ row \in Rows /\ TableOf[row] = t
  BY PageIs DEF RowsOf
<1>2. /\ rep[row].rev \in Nat /\ rep'[row].rev \in Nat /\ rep'[row].rev >= rep[row].rev
      /\ hub[row].rev \in Nat /\ hub'[row].rev = hub[row].rev
      /\ row \in Nat /\ rd.walk[t].after \in Nat /\ Page.row \in Nat
  <2>1. rep'[row].rev \in Nat /\ rep'[row].rev >= rep[row].rev
    BY <1>1, AppliedIs DEF PullSafe
  <2>2. hub' = hub
    BY DEF Apply
  <2>3. rep[row].rev \in Nat /\ hub[row].rev \in Nat /\ row \in Nat
    BY <1>1, Numbers, Sets DEF PullSafe, PushSafe, Base
  <2>4. rd.walk[t].after \in Nat /\ Page.row \in Nat
    BY <1>1, TableNumbers DEF PullSafe, PushSafe, Base
  <2> QED BY <2>1, <2>2, <2>3, <2>4
<1>3. Behind(row)
  BY <1>2 DEF Behind
<1>4. CASE row <= rd.walk[t].after
  <2>1. ~Deferring(TableOf[row])
    BY DEF Deferring
  <2> QED BY <1>1, <1>3, <1>4, <2>1 DEF WalkCovers, PullSafe, PullParts
<1>5. CASE row > rd.walk[t].after /\ (Ended \/ row < Page.row)
  <2>1. rd.page[t].on /\ (rd.page[t].row = 0 \/ row < rd.page[t].row)
    BY <1>1, <1>5 DEF Ended
  <2> QED BY <1>1, <1>3, <1>5, <2>1 DEF PageCovers, PullSafe, PullParts
<1>6. CASE ~Ended /\ row = Page.row
  <2>1. rep'[row].rev >= Page.ver.rev /\ Page.ver.rev \in Nat
    <3>1. Page.ver.rev \in Nat
      BY <1>6, PageIs
    <3>2. rep'[row] = Upsert(rep[row], Page.ver)
      <4>1. rep' = [rep EXCEPT ![Page.row] = Upsert(@, Page.ver)]
        BY <1>6, ApplyEffect DEF PullSafe, PushSafe
      <4> QED BY <1>1, <1>6, <4>1 DEF PullSafe, PushSafe, Base, TypeOK
    <3> QED BY <1>2, <3>1, <3>2 DEF Upsert
  <2>2. hub[row].rev > Page.ver.rev
    BY <1>2, <2>1 DEF Behind
  <2> QED BY <1>6, <2>2, PageIs
<1>7. \/ row <= rd.walk[t].after
      \/ row > rd.walk[t].after /\ (Ended \/ row < Page.row)
      \/ ~Ended /\ row = Page.row
  BY <1>2
<1> QED BY <1>4, <1>5, <1>6, <1>7

\* A page is applied, and the progress saved unless a row was deferred.
LEMMA ApplyPull ==
  ASSUME PullSafe, Base', Apply
  PROVE  AtRest' /\ MarksOld' /\ OnTheWay'
<1> DEFINE t == rd.table
<1>1. /\ rd.pc = "pull" /\ t \in Tables \ rd.todo /\ t \in Coming /\ t \in Tables
      /\ Page.on /\ Page = rd.page[t]
  BY PageIs
<1>2. /\ \A u \in Tables \ {t} : cur'[u] = cur[u]
      /\ cur'[t].pull = cur[t].pull /\ cur'[t].held = cur[t].held
      /\ cur'[t].proof = cur[t].proof
      /\ Ended => cur'[t] = cur[t]
      /\ ~Ended /\ (Deferred \/ rd.deferred) => cur'[t].after = 0
      /\ ~Ended /\ ~(Deferred \/ rd.deferred) =>
           /\ cur'[t].since = rd.walk[t].since /\ cur'[t].mark = rd.walk[t].mark
           /\ cur'[t].after = Page.row
      /\ cur'[t].since \in {0, cur[t].since, rd.walk[t].since}
      /\ cur'[t].mark \in {0, cur[t].mark, rd.walk[t].mark}
  BY ApplyEffect DEF PullSafe, PushSafe
<1>3. /\ rd'.pc = (IF Ended THEN "push" ELSE "pull")
      /\ rd'.deferred = (rd.deferred \/ Deferred)
      /\ rd'.page[t] = NoPage
      /\ \A u \in Tables \ {t} : rd'.page[u] = rd.page[u] /\ rd'.walk[u] = rd.walk[u]
      /\ rd'.walk[t].since = rd.walk[t].since /\ rd'.walk[t].mark = rd.walk[t].mark
      /\ rd'.walk[t].quiet = rd.walk[t].quiet
      /\ rd'.walk[t].after = (IF Ended THEN 0 ELSE Page.row)
      /\ rd'.marks = rd.marks /\ rd'.todo = rd.todo /\ rd'.table = rd.table
  BY ApplyEffect DEF PullSafe, PushSafe
<1>4. UNCHANGED <<hub, hubClock, bound>> /\ Coming' = Coming
      /\ \A u \in Tables : Since(u)' = Since(u) /\ Since(u) \in Nat
  <2>1. UNCHANGED <<hub, hubClock, bound>>
    BY DEF Apply
  <2>2. \A u \in Tables : cur'[u].pull = cur[u].pull /\ cur'[u].proof = cur[u].proof
    BY <1>2
  <2> QED BY <1>3, <2>1, <2>2, TableNumbers DEF Coming, Since, PullSafe, PushSafe, Base
<1>5. /\ \A row \in Rows : /\ rep[row].at \in Nat /\ hub[row].at \in Nat /\ rep'[row].at \in Nat
                           /\ rep[row].rev \in Nat /\ hub[row].rev \in Nat
                           /\ rep'[row].rev \in Nat /\ row \in Nat \ {0}
                           /\ TableOf[row] \in Tables /\ row \in RowsOf(TableOf[row])
      /\ hubClock \in Nat
  BY Numbers, NextNumbers, Sets DEF PullSafe, PushSafe, Base
<1>6. ASSUME NEW row \in Rows
      PROVE  /\ rep'[row] = rep[row] \/ (/\ row = Page.row /\ ~Ended /\ ~Deferred
                                        /\ Page.ver.rev > rep[row].rev /\ rep'[row] = Page.ver)
             /\ rep'[row].rev >= rep[row].rev /\ rep'[row].at >= rep[row].at
             /\ Behind(row)' => Behind(row)
  <2>1. /\ rep'[row] = rep[row] \/ (/\ row = Page.row /\ ~Ended /\ ~Deferred
                                   /\ Page.ver.rev > rep[row].rev /\ rep'[row] = Page.ver)
        /\ rep'[row].rev >= rep[row].rev
    BY AppliedIs DEF PullSafe
  <2>2. rep'[row].at >= rep[row].at
    <3>1. CASE rep'[row] = rep[row]
      BY <1>5, <3>1
    <3>2. CASE row = Page.row /\ ~Ended /\ rep'[row] = Page.ver
      BY <1>5, <3>2, PageIs
    <3> QED BY <2>1, <3>1, <3>2
  <2>3. Behind(row)' => Behind(row)
    BY <1>4, <1>5, <2>1 DEF Behind
  <2> QED BY <2>1, <2>2, <2>3
<1>7. ArrivalsFit'
  <2> SUFFICES ASSUME NEW row \in Rows
               PROVE  rep'[row].at <= hub[row].at /\ (rep'[row].at = hub[row].at => ~Behind(row)')
    BY <1>4 DEF ArrivalsFit
  <2>1. CASE rep'[row] = rep[row]
    BY <1>6, <2>1 DEF ArrivalsFit, PullSafe, PullParts
  <2>2. CASE /\ row = Page.row /\ ~Ended /\ Page.ver.rev > rep[row].rev /\ rep'[row] = Page.ver
    <3>1. /\ Page.ver.at <= hub[row].at /\ Page.ver.rev \in Nat
          /\ Page.ver.at = hub[row].at => Page.ver.rev >= hub[row].rev \/ ~Behind(row)
      BY <2>2, PageIs
    <3>2. Page.ver.at = hub[row].at => Page.ver.rev >= hub[row].rev
      BY <1>5, <2>2, <3>1 DEF Behind
    <3> QED BY <1>4, <1>5, <2>2, <3>1, <3>2 DEF Behind
  <2> QED BY <1>6, <2>1, <2>2
<1>8. HeldFits'
  <2> SUFFICES ASSUME NEW u \in Tables
               PROVE  cur'[u].held <= Cardinality({row \in RowsOf(u) : rep'[row].at >= cur'[u].pull})
    BY DEF HeldFits, RowsOf
  <2>1. cur'[u].pull = cur[u].pull /\ cur'[u].held = cur[u].held /\ cur[u].pull \in Nat
    BY <1>2, TableNumbers DEF PullSafe, PushSafe, Base
  <2>2. cur'[u].pull <= cur[u].pull
    BY <2>1
  <2> QED BY <1>6, <2>1, <2>2, HeldStays
<1>9. ProgressFits'
  <2> SUFFICES ASSUME NEW u \in Tables, cur'[u].after # 0
               PROVE  /\ cur'[u].since = Since(u) \/ Since(u) = 0
                      /\ cur'[u].since <= Newest(u)
    <3>1. rd'.pc # "snapshot" /\ \A u \in Tables : Newest(u)' = Newest(u)
      BY <1>3, <1>4 DEF Newest
    <3> QED BY <1>4, <3>1 DEF ProgressFits
  <2>1. CASE cur'[u] = cur[u]
    BY <2>1 DEF ProgressFits, PullSafe, PullParts
  <2>2. CASE u = t /\ ~Ended /\ cur'[t].since = rd.walk[t].since
    <3>1. cur'[t].since = Since(t)
      BY <1>1, <2>2 DEF WalksFit, PullSafe, PullParts
    <3>2. Page.row \in RowsOf(t) /\ Page.row \in Rows /\ hub[Page.row].at >= rd.walk[t].since
      BY <2>2, PageIs DEF RowsOf
    <3>3. hub[Page.row].at <= Newest(t) /\ Newest(t) \in Nat
      BY <1>1, <3>2, NewestType, Sets DEF PullSafe, PushSafe, Base
    <3>4. rd.walk[t].since \in Nat
      BY <1>1, TableNumbers DEF PullSafe, PushSafe, Base
    <3> QED BY <1>5, <2>2, <3>1, <3>2, <3>3, <3>4
  <2> QED BY <1>2, <2>1, <2>2
<1>10. SinceCovers'
  BY <1>4, <1>5, <1>6 DEF SinceCovers, PullSafe, PullParts
<1>11. ProgressCovers'
  <2> SUFFICES ASSUME NEW row \in Rows, Behind(row)', cur'[TableOf[row]].after >= row,
                      cur'[TableOf[row]].since = Since(TableOf[row])
               PROVE  hub[row].at >= cur'[TableOf[row]].mark
    BY <1>4, <1>5 DEF ProgressCovers
  <2>1. Behind(row)
    BY <1>6
  <2>2. CASE cur'[TableOf[row]] = cur[TableOf[row]]
    BY <2>1, <2>2 DEF ProgressCovers, PullSafe, PullParts
  <2>3. CASE /\ TableOf[row] = t /\ ~Ended /\ ~(Deferred \/ rd.deferred)
    <3>1. row <= Page.row /\ cur'[t].mark = rd.walk[t].mark
      <4>1. Page.row \in Nat
        BY <1>5, <2>3, PageIs
      <4> QED BY <1>2, <1>5, <2>3, <4>1
    <3>2. row \in RowsOf(t)
      BY <1>5, <2>3
    <3> QED BY <2>3, <3>1, <3>2, Passed
  <2>4. CASE TableOf[row] = t /\ ~Ended /\ (Deferred \/ rd.deferred)
    BY <1>2, <1>5, <2>4
  <2> QED BY <1>2, <1>5, <2>2, <2>3, <2>4
<1>12. AtRest'
  BY <1>7, <1>8, <1>9, <1>10, <1>11 DEF AtRest
<1>13. MarksOld'
  <2> SUFFICES ASSUME NEW u \in Tables
               PROVE  /\ cur'[u].pull <= hubClock /\ cur'[u].mark <= hubClock
                      /\ cur'[u].since <= hubClock /\ rd.marks[u] <= hubClock
                      /\ rd'.walk[u].mark <= hubClock /\ rd'.walk[u].since <= hubClock
    BY <1>3, <1>4 DEF MarksOld
  <2>1. /\ cur[u].pull <= hubClock /\ cur[u].mark <= hubClock /\ cur[u].since <= hubClock
        /\ rd.marks[u] <= hubClock /\ rd.walk[u].mark <= hubClock /\ rd.walk[u].since <= hubClock
        /\ 0 <= hubClock
    BY <1>5 DEF MarksOld, PullSafe, PullParts
  <2>2. CASE u = t
    BY <1>2, <1>3, <2>1, <2>2
  <2>3. CASE u # t
    BY <1>2, <1>3, <2>1, <2>3
  <2> QED BY <2>2, <2>3
<1>14. WalksFit'
  <2> SUFFICES ASSUME NEW u \in Tables \cap Coming
               PROVE  /\ rd'.walk[u].since = Since(u)
                      /\ rd'.walk[u].quiet => rd'.walk[u].mark = rd'.walk[u].since
    BY <1>4 DEF WalksFit
  <2>1. /\ rd.walk[u].since = Since(u)
        /\ rd.walk[u].quiet => rd.walk[u].mark = rd.walk[u].since
    BY DEF WalksFit, PullSafe, PullParts
  <2>2. CASE u = t
    BY <1>3, <2>1, <2>2
  <2>3. CASE u # t
    BY <1>3, <2>1, <2>3
  <2> QED BY <2>2, <2>3
<1>15. WalkCovers'
  <2> SUFFICES ASSUME NEW row \in Rows, TableOf[row] \in Coming, ~Deferring(TableOf[row])',
                      Behind(row)',
                      \/ row <= rd'.walk[TableOf[row]].after
                      \/ TableOf[row] = rd'.table /\ rd'.pc \in {"push", "receipt"}
               PROVE  hub[row].at >= rd'.walk[TableOf[row]].mark
    <3>1. \A row \in Rows : TableOf[row] \in Tables /\ Deferring(TableOf[row])' \in BOOLEAN
      BY <1>5 DEF Deferring
    <3> QED BY <1>4, <3>1 DEF WalkCovers
  <2>1. CASE TableOf[row] = t
    <3>1. ~rd.deferred /\ ~Deferred
      BY <1>3, <2>1 DEF Deferring
    <3>2. Ended \/ row <= Page.row
      BY <1>3, <1>5, <2>1
    <3>3. row \in RowsOf(t)
      BY <1>5, <2>1
    <3>4. hub[row].at >= rd.walk[t].mark
      BY <3>1, <3>2, <3>3, Passed
    <3> QED BY <1>3, <2>1, <3>4
  <2>2. CASE TableOf[row] # t
    <3>1. Behind(row) /\ ~Deferring(TableOf[row])
      BY <1>6, <2>2 DEF Deferring
    <3>2. row <= rd.walk[TableOf[row]].after /\ rd'.walk[TableOf[row]] = rd.walk[TableOf[row]]
      BY <1>3, <1>5, <2>2
    <3> QED BY <3>1, <3>2 DEF WalkCovers, PullSafe, PullParts
  <2> QED BY <2>1, <2>2
<1>16. PageFits'
  <2> SUFFICES ASSUME NEW u \in Tables, rd'.page[u].on, rd'.page[u].row # 0
               PROVE  LET row == rd'.page[u].row
                          ver == rd'.page[u].ver
                      IN  /\ row > rd'.walk[u].after /\ hub[row].at >= rd'.walk[u].since
                          /\ rep'[row].at <= ver.at /\ ver.at <= hub[row].at
                          /\ ver.at = hub[row].at =>
                               ver.rev >= hub[row].rev \/ ~(rep'[row].rev < hub[row].rev)
                          /\ hub[row].rev > ver.rev => hub[row].at >= rd'.walk[u].mark
    BY <1>4 DEF PageFits, Behind
  <2>1. u # t /\ rd'.page[u] = rd.page[u] /\ rd'.walk[u] = rd.walk[u]
    BY <1>3 DEF NoPage
  <2>2. rd.page[u].row \in Rows /\ TableOf[rd.page[u].row] = u
    BY <2>1, PageNumbers DEF PullSafe, PushSafe
  <2>3. ~Ended => TableOf[Page.row] = t
    BY PageIs
  <2>4. rep'[rd.page[u].row] = rep[rd.page[u].row]
    BY <1>6, <2>1, <2>2, <2>3
  <2> QED BY <2>1, <2>4 DEF PageFits, Behind, PullSafe, PullParts
<1>17. PageCovers'
  <2> SUFFICES ASSUME NEW u \in Tables, rd'.page[u].on, NEW row \in RowsOf(u), Behind(row)',
                      row > rd'.walk[u].after, rd'.page[u].row = 0 \/ row < rd'.page[u].row
               PROVE  hub[row].at >= rd'.walk[u].mark
    BY <1>4 DEF PageCovers, RowsOf
  <2>1. u # t /\ rd'.page[u] = rd.page[u] /\ rd'.walk[u] = rd.walk[u]
    BY <1>3 DEF NoPage
  <2>2. Behind(row)
    BY <1>6 DEF RowsOf
  <2> QED BY <2>1, <2>2 DEF PageCovers, PullSafe, PullParts
<1> QED BY <1>12, <1>13, <1>14, <1>15, <1>16, <1>17 DEF OnTheWay

\* A table is finished: its cursor moves to the walk's mark, unless a row was deferred.
LEMMA EndTablePull ==
  ASSUME PullSafe, Base', EndTable
  PROVE  AtRest' /\ MarksOld' /\ OnTheWay'
<1>t. rd.table \in Tables /\ rd.pc = "push"
  BY EndTableEffect DEF PullSafe, PushSafe
<1>0. PICK t \in Tables : t = rd.table
  BY <1>t
<1> DEFINE pull == IF rd.deferred THEN cur[t].pull ELSE rd.walk[t].mark
<1>1. /\ rd.pc = "push" /\ t \in Tables \ rd.todo /\ t \in Tables /\ t \in Coming
      /\ \A u \in Tables \ {t} : cur'[u] = cur[u]
      /\ cur'[t].since = 0 /\ cur'[t].mark = 0 /\ cur'[t].after = 0 /\ cur'[t].pull = pull
      /\ cur'[t].proof = (cur[t].proof \/ ~rd.deferred)
  BY <1>0, EndTableEffect DEF Coming, PullSafe, PushSafe
<1>2. cur'[t].held = (IF rd.walk[t].quiet THEN cur[t].held
                     ELSE IF ~rd.deferred /\ pull # 0 /\ rd.marks[t] = pull
                          THEN HeldAt(t, pull) ELSE Unknown)
  BY <1>0, EndTableEffect DEF PullSafe, PushSafe
<1>3. /\ rd'.pc \in {"certify", "table"} /\ rd'.table = NoTable
      /\ \A u \in Tables \ {t} : rd'.walk[u] = rd.walk[u] /\ rd'.marks[u] = rd.marks[u]
      /\ rd'.walk[t] = NoWalk /\ rd'.marks[t] = 0 /\ rd'.page = rd.page /\ rd'.todo = rd.todo
  BY <1>0, EndTableEffect DEF PullSafe, PushSafe
<1>4. UNCHANGED <<hub, hubClock, rep, bound>> /\ bound
  BY <1>1 DEF EndTable, PullSafe, PushSafe, PushParts, Binding
<1>5. /\ \A row \in Rows : /\ rep[row].at \in Nat /\ hub[row].at \in Nat /\ row \in Nat \ {0}
                           /\ TableOf[row] \in Tables
      /\ hubClock \in Nat /\ Since(t) \in Nat /\ cur[t].pull \in Nat
      /\ cur[t].pull <= hubClock /\ rd.walk[t].mark <= hubClock
  BY <1>1, Numbers, TableNumbers, Sets DEF MarksOld, PullSafe, PullParts, PushSafe, Base
<1>6. /\ \A u \in Tables \ {t} : Since(u)' = Since(u)
      /\ rd.deferred => Since(t)' = Since(t)
      /\ ~rd.deferred => Since(t)' = rd.walk[t].mark
  <2>1. rd.deferred \in BOOLEAN /\ cur[t].proof \in BOOLEAN
    BY <1>1, Fields DEF PullSafe, PushSafe, Base, TypeOK, Rounds
  <2> QED BY <1>1, <1>4, <2>1 DEF Since
<1>7. \A row \in Rows : Behind(row)' = Behind(row)
  BY <1>4 DEF Behind
<1>8. /\ rd.walk[t].since = Since(t)
      /\ rd.walk[t].quiet => rd.walk[t].mark = rd.walk[t].since
  BY <1>1 DEF WalksFit, PullSafe, PullParts
<1>9. ArrivalsFit'
  BY <1>4, <1>7 DEF ArrivalsFit, PullSafe, PullParts
<1>10. HeldFits'
  <2> SUFFICES ASSUME NEW u \in Tables
               PROVE  cur'[u].held <= Cardinality({row \in RowsOf(u) : rep'[row].at >= cur'[u].pull})
    BY DEF HeldFits, RowsOf
  <2>1. \A row \in Rows : rep'[row].at >= rep[row].at
    BY <1>4, <1>5
  <2>2. cur[u].pull \in Nat
    BY TableNumbers DEF PullSafe, PushSafe, Base
  <2>3. CASE u # t
    <3>1. cur'[u].held = cur[u].held /\ cur'[u].pull <= cur[u].pull
      BY <1>1, <2>2, <2>3
    <3> QED BY <2>1, <3>1, HeldStays
  <2>4. CASE u = t /\ rd.walk[t].quiet
    <3>1. pull <= cur[t].pull
      <4>1. Since(t) \in {0, cur[t].pull}
        BY DEF Since
      <4> QED BY <1>5, <1>8, <2>4, <4>1
    <3>2. cur'[u].held = cur[u].held /\ cur'[u].pull <= cur[u].pull
      BY <1>1, <1>2, <2>4, <3>1
    <3> QED BY <2>1, <3>2, HeldStays
  <2>5. CASE u = t /\ ~rd.walk[t].quiet
    <3> DEFINE S == {row \in RowsOf(t) : rep[row].at = pull}
               T == {row \in RowsOf(t) : rep'[row].at >= cur'[t].pull}
    <3>1. pull \in Nat
      BY <1>1, <1>5, TableNumbers DEF PullSafe, PushSafe, Base
    <3>2. RowsOf(t) \subseteq Rows
      BY DEF RowsOf
    <3>3. S \subseteq T
      BY <1>1, <1>4, <1>5, <3>1, <3>2
    <3>4. S \in SUBSET Rows /\ T \in SUBSET Rows
      BY <3>2
    <3>5. cur'[t].held \in {Cardinality(S), Unknown}
      BY <1>2, <2>5 DEF HeldAt
    <3> HIDE DEF S, T
    <3>6. IsFiniteSet(T) /\ Cardinality(S) \in Nat /\ Cardinality(T) \in Nat
      <4>1. Cardinality(Rows) \in Nat
        BY Sets
      <4> QED BY <3>4, <4>1, CountType
    <3>7. Cardinality(S) <= Cardinality(T)
      BY <3>3, <3>6, FS_Subset
    <3>8. cur'[t].held <= Cardinality(T)
      <4>1. Unknown <= Cardinality(T)
        BY <3>6 DEF Unknown
      <4> QED BY <3>5, <3>7, <4>1
    <3> QED BY <2>5, <3>8 DEF T
  <2> QED BY <2>3, <2>4, <2>5
<1>11. ProgressFits'
  <2> SUFFICES ASSUME NEW u \in Tables, cur'[u].after # 0
               PROVE  /\ cur'[u].since = Since(u)' \/ Since(u)' = 0
                      /\ cur'[u].since <= Newest(u)
    <3>1. rd'.pc # "snapshot" /\ \A u \in Tables : Newest(u)' = Newest(u)
      BY <1>3, <1>4 DEF Newest
    <3> QED BY <3>1 DEF ProgressFits
  <2>1. u # t /\ cur'[u] = cur[u]
    BY <1>1
  <2> QED BY <1>6, <2>1 DEF ProgressFits, PullSafe, PullParts
<1>12. SinceCovers'
  <2> SUFFICES ASSUME NEW row \in Rows, Behind(row) PROVE hub[row].at >= Since(TableOf[row])'
    BY <1>4, <1>7 DEF SinceCovers
  <2>1. CASE TableOf[row] # t \/ rd.deferred
    <3>1. Since(TableOf[row])' = Since(TableOf[row])
      BY <1>5, <1>6, <2>1
    <3> QED BY <3>1 DEF SinceCovers, PullSafe, PullParts
  <2>2. CASE TableOf[row] = t /\ ~rd.deferred
    <3>1. hub[row].at >= rd.walk[t].mark
      BY <1>0, <1>1, <2>2 DEF WalkCovers, Deferring, PullSafe, PullParts
    <3> QED BY <1>6, <2>2, <3>1
  <2> QED BY <2>1, <2>2
<1>13. ProgressCovers'
  <2> SUFFICES ASSUME NEW row \in Rows, Behind(row), cur'[TableOf[row]].after >= row,
                      cur'[TableOf[row]].since = Since(TableOf[row])'
               PROVE  hub[row].at >= cur'[TableOf[row]].mark
    BY <1>4, <1>7 DEF ProgressCovers
  <2>1. TableOf[row] # t /\ cur'[TableOf[row]] = cur[TableOf[row]]
    BY <1>1, <1>5
  <2>2. Since(TableOf[row])' = Since(TableOf[row])
    BY <1>5, <1>6, <2>1
  <2> QED BY <2>1, <2>2 DEF ProgressCovers, PullSafe, PullParts
<1>14. AtRest'
  BY <1>9, <1>10, <1>11, <1>12, <1>13 DEF AtRest
<1>15. MarksOld'
  <2> SUFFICES ASSUME NEW u \in Tables
               PROVE  /\ cur'[u].pull <= hubClock /\ cur'[u].mark <= hubClock
                      /\ cur'[u].since <= hubClock /\ rd'.marks[u] <= hubClock
                      /\ rd'.walk[u].mark <= hubClock /\ rd'.walk[u].since <= hubClock
    BY <1>4 DEF MarksOld
  <2>1. CASE u = t
    BY <1>1, <1>3, <1>5, <2>1 DEF NoWalk
  <2>2. CASE u # t
    BY <1>1, <1>3, <2>2 DEF MarksOld, PullSafe, PullParts
  <2> QED BY <2>1, <2>2
<1>16. Coming' = rd.todo \cup {NoTable} /\ NoTable \notin Tables /\ rd.todo \subseteq Coming
  BY <1>3, CoreAssumption DEF Coming
<1>17. WalksFit'
  <2> SUFFICES ASSUME NEW u \in Tables \cap rd.todo
               PROVE  /\ rd'.walk[u].since = Since(u)'
                      /\ rd'.walk[u].quiet => rd'.walk[u].mark = rd'.walk[u].since
    BY <1>16 DEF WalksFit
  <2>1. u # t /\ u \in Coming /\ rd'.walk[u] = rd.walk[u] /\ Since(u)' = Since(u)
    BY <1>1, <1>3, <1>6, <1>16
  <2> QED BY <2>1 DEF WalksFit, PullSafe, PullParts
<1>18. WalkCovers'
  <2> SUFFICES ASSUME NEW row \in Rows, TableOf[row] \in rd.todo, Behind(row),
                      \/ row <= rd'.walk[TableOf[row]].after
                      \/ TableOf[row] = NoTable
               PROVE  hub[row].at >= rd'.walk[TableOf[row]].mark
    BY <1>3, <1>4, <1>5, <1>7, <1>16 DEF WalkCovers
  <2>1. TableOf[row] # t /\ TableOf[row] \in Coming /\ ~Deferring(TableOf[row])
    BY <1>0, <1>1, <1>16 DEF Deferring
  <2>2. rd'.walk[TableOf[row]] = rd.walk[TableOf[row]] /\ TableOf[row] # NoTable
    BY <1>3, <1>5, <1>16, <2>1
  <2> QED BY <2>1, <2>2 DEF WalkCovers, PullSafe, PullParts
<1>19. PageFits'
  <2> SUFFICES ASSUME NEW u \in Tables, rd.page[u].on, rd.page[u].row # 0
               PROVE  LET row == rd.page[u].row
                          ver == rd.page[u].ver
                      IN  /\ row > rd'.walk[u].after /\ hub[row].at >= rd'.walk[u].since
                          /\ rep[row].at <= ver.at /\ ver.at <= hub[row].at
                          /\ ver.at = hub[row].at => ver.rev >= hub[row].rev \/ ~Behind(row)
                          /\ hub[row].rev > ver.rev => hub[row].at >= rd'.walk[u].mark
    BY <1>3, <1>4 DEF PageFits, Behind
  <2>1. LET row == rd.page[u].row
            ver == rd.page[u].ver
        IN  /\ row > rd.walk[u].after /\ hub[row].at >= rd.walk[u].since
            /\ rep[row].at <= ver.at /\ ver.at <= hub[row].at
            /\ ver.at = hub[row].at => ver.rev >= hub[row].rev \/ ~Behind(row)
            /\ hub[row].rev > ver.rev => hub[row].at >= rd.walk[u].mark
    BY DEF PageFits, PullSafe, PullParts
  <2>2. rd.page[u].row \in Rows
    BY PageNumbers DEF PullSafe, PushSafe
  <2>3. CASE u = t
    <3>1. rd.page[u].row > 0 /\ hub[rd.page[u].row].at >= 0
      BY <1>5, <2>2
    <3> QED BY <1>3, <2>1, <2>3, <3>1 DEF NoWalk
  <2>4. CASE u # t
    BY <1>3, <2>1, <2>4
  <2> QED BY <2>3, <2>4
<1>20. PageCovers'
  <2> SUFFICES ASSUME NEW u \in Tables, rd.page[u].on, NEW row \in RowsOf(u), Behind(row),
                      row > rd'.walk[u].after, rd.page[u].row = 0 \/ row < rd.page[u].row
               PROVE  hub[row].at >= rd'.walk[u].mark
    BY <1>3, <1>4, <1>7 DEF PageCovers, RowsOf
  <2>1. CASE u = t
    <3>1. hub[row].at \in Nat
      BY <1>5 DEF RowsOf
    <3> QED BY <1>3, <2>1, <3>1 DEF NoWalk
  <2>2. CASE u # t
    BY <1>3, <2>2 DEF PageCovers, PullSafe, PullParts
  <2> QED BY <2>1, <2>2
<1> QED BY <1>14, <1>15, <1>17, <1>18, <1>19, <1>20 DEF OnTheWay

\* A row is pushed: the device holds what the hub then holds, or something newer.
LEMMA PushPull ==
  ASSUME PullSafe, Base', Push
  PROVE  AtRest' /\ MarksOld' /\ OnTheWay'
<1>1. /\ HubGrown /\ \A r \in Rows \ {Pushing} : hub'[r] = hub[r]
  BY PushPush DEF PullSafe
<1>2. /\ Pushing \in RowsOf(rd.table) /\ rd.frozen[Pushing] # Absent /\ rd.pc = "push"
      /\ IF HubAccepts(Pushing) THEN HubCommit(Pushing, rd.frozen[Pushing].rev) ELSE hub' = hub
      /\ rd'.marks = rd.marks /\ rd'.walk = rd.walk /\ rd'.page = rd.page /\ rd'.todo = rd.todo
      /\ rd'.table = rd.table /\ rd'.deferred = rd.deferred /\ rd'.pc = "receipt"
  BY PushEffect DEF PullSafe, PushSafe
<1>3. UNCHANGED <<hubClock, rep, cur, bound>>
  BY DEF Push, device
<1>4. \A row \in Rows : /\ rep[row].rev \in Nat /\ rep[row].at \in Nat /\ hub[row].rev \in Nat
                       /\ hub'[row].rev \in Nat
  BY Numbers, NextNumbers DEF PullSafe, PushSafe, Base
<1>5. PICK x \in Rows : x = Pushing
  BY <1>2 DEF RowsOf
<1>6. hub'[x].rev > hub[x].rev => ~Behind(x)'
  <2>1. rd.frozen[x].rev <= rep[x].rev /\ rd.frozen[x].rev \in Nat
    BY <1>2, <1>5, Numbers DEF FrozenFits, PullSafe, PushSafe, PushParts, Base
  <2>2. hub'[x].rev > hub[x].rev => hub'[x].rev = rd.frozen[x].rev
    <3>1. CASE HubAccepts(Pushing)
      <4>1. rd.frozen[x].rev \in Revisions
        <5>1. rd.frozen[x] \in Versions
          BY DEF PullSafe, PushSafe, Base, TypeOK, Rounds
        <5> QED BY <5>1, Fields
      <4>2. HubCommit(x, rd.frozen[x].rev)
        BY <1>2, <1>5, <3>1
      <4>3. hub'[x].rev \in {rd.frozen[x].rev, hub[x].rev}
        BY <1>3, <4>1, <4>2, CommitIs DEF PullSafe, PushSafe, Base
      <4> QED BY <1>4, <4>3
    <3>2. CASE ~HubAccepts(Pushing)
      BY <1>2, <1>4, <3>2
    <3> QED BY <3>1, <3>2
  <2> QED BY <1>3, <1>4, <2>1, <2>2 DEF Behind
<1>7. \A row \in Rows : hub'[row].rev > hub[row].rev => hub[row].at < hubClock \/ ~Behind(row)'
  <2> SUFFICES ASSUME NEW row \in Rows, hub'[row].rev > hub[row].rev PROVE ~Behind(row)'
    OBVIOUS
  <2>1. row = x
    BY <1>1, <1>4, <1>5
  <2> QED BY <1>6, <2>1
<1>8. \A row \in Rows : rep'[row].rev >= rep[row].rev /\ rep'[row].at = rep[row].at
  BY <1>3, <1>4
<1>9. AtRest' /\ MarksOld'
  BY <1>1, <1>2, <1>3, <1>7, <1>8, WaitingRest
<1>10. OnTheWay'
  BY <1>1, <1>2, <1>3, <1>7, <1>8, WaitingWay
<1> QED BY <1>9, <1>10

\* An answer is dealt with.
LEMMA ReceiptPull ==
  ASSUME PullSafe, Base', Receipt
  PROVE  AtRest' /\ MarksOld' /\ OnTheWay'
<1>1. UNCHANGED <<hub, hubClock, rep, cur, bound>>
  BY DEF Receipt
<1>2. /\ rd.pc = "receipt" /\ rd'.pc = "push"
      /\ rd'.marks = rd.marks /\ rd'.walk = rd.walk /\ rd'.page = rd.page /\ rd'.todo = rd.todo
      /\ rd'.table = rd.table /\ rd'.deferred = rd.deferred
  BY ReceiptEffect DEF PullSafe, PushSafe
<1>3. HubGrown
  BY <1>1, SameHub DEF PullSafe, PushSafe, Base
<1>4. \A row \in Rows : /\ rep'[row].rev >= rep[row].rev /\ rep'[row].at = rep[row].at
                        /\ ~(hub'[row].rev > hub[row].rev)
  BY <1>1, Numbers DEF PullSafe, PushSafe, Base
<1>5. AtRest' /\ MarksOld'
  BY <1>1, <1>2, SameRest
<1>6. OnTheWay'
  BY <1>1, <1>2, <1>3, <1>4, WaitingWay
<1> QED BY <1>5, <1>6

\* The round waits: rows are written, and clocks move.
LEMMA OutsidePull ==
  ASSUME PullSafe, Base', HubGrown,
         \A row \in Rows : hub'[row].rev > hub[row].rev => hub[row].at < hubClock \/ ~Behind(row)',
         \A row \in Rows : rep'[row].rev >= rep[row].rev /\ rep'[row].at = rep[row].at,
         UNCHANGED <<cur, bound, rd>>
  PROVE  AtRest' /\ MarksOld' /\ OnTheWay'
<1>1. AtRest' /\ MarksOld'
  BY WaitingRest
<1>2. OnTheWay'
  BY WaitingWay
<1> QED BY <1>1, <1>2

\* An unanswered edit keeps its receipt's revision: what would replace it is deferred.
LEMMA ReceiptsStay ==
  ASSUME PushSafe, ReceiptsMatch, Base', Next
  PROVE  ReceiptsMatch'
<1> SUFFICES ASSUME NEW x \in Rows, x \notin OtherRows, pending'[x] # 0 PROVE pending'[x] = rep'[x].rev
  BY DEF ReceiptsMatch
<1>1. /\ pending[x] # 0 => pending[x] = rep[x].rev
      /\ pending[x] \in Nat /\ rep[x].rev \in Nat
  BY Numbers DEF ReceiptsMatch, PushSafe, Base
<1>2. CASE UNCHANGED <<pending, rep>>
  BY <1>1, <1>2
<1>3. CASE Apply
  <2>1. pending' = pending
    BY <1>3 DEF Apply
  <2>2. CASE rep'[x] = rep[x]
    BY <1>1, <2>1, <2>2
  <2>3. CASE x = Page.row /\ ~Ended /\ ~Deferred /\ Page.ver.rev > rep[x].rev
    BY <2>1, <2>3 DEF Deferred, Defers
  <2> QED BY <1>3, <2>2, <2>3, AppliedIs
<1>4. CASE Receipt
  <2>1. rep' = rep
    BY <1>4 DEF Receipt
  <2>2. rd.row \in Rows /\ pending \in [Rows -> Revisions]
    BY <1>4, ReceiptEffect DEF PushSafe, Base, TypeOK
  <2>3. pending'[x] \in {0, pending[x]}
    <3>1. CASE rd.answer = "accepted"
      <4>1. pending' = [pending EXCEPT ![rd.row] = Received(rd.row)]
        BY <1>4, <3>1, ReceiptEffect DEF PushSafe
      <4>2. Received(rd.row) \in {0, pending[rd.row]}
        BY DEF Received
      <4> QED BY <2>2, <4>1, <4>2
    <3>2. CASE rd.answer # "accepted"
      BY <1>4, <3>2, ReceiptEffect DEF PushSafe
    <3> QED BY <3>1, <3>2
  <2> QED BY <1>1, <2>1, <2>3
<1>5. ASSUME NEW row \in Rows, NEW ok \in BOOLEAN, Edit(row, ok) \/ OtherWriter(row, ok)
      PROVE  pending'[x] = rep'[x].rev
  <2>1. /\ \A r \in Rows \ {row} : rep'[r] = rep[r]
        /\ \/ row \in EditRows /\ pending' = [pending EXCEPT ![row] = rep'[row].rev]
           \/ row \in OtherRows /\ pending' = pending /\ rep'[row].rev = clock
    BY <1>5, WriteIs DEF PushSafe
  <2>2. pending \in [Rows -> Revisions]
    BY DEF PushSafe, Base, TypeOK
  <2>3. CASE x = row
    BY <2>1, <2>2, <2>3
  <2>4. CASE x # row
    BY <1>1, <2>1, <2>2, <2>4
  <2> QED BY <2>3, <2>4
<1>6. CASE \/ \E skip \in SUBSET Excludable : Begin(skip)
           \/ ReadCursor \/ Snapshot \/ NextTable \/ (\E t \in Tables : Fetch(t))
           \/ Push \/ EndTable \/ Certify
  BY <1>2, <1>6 DEF Begin, ReadCursor, Snapshot, NextTable, Fetch, Push, EndTable, Certify, device
<1>7. CASE Fail \/ HubTick
  BY <1>2, <1>7 DEF Fail, HubTick, device
<1>8. CASE \/ \E row \in Rows, rev \in 1 .. MaxRevision : HubWrite(row, rev)
           \/ \E now \in Clocks : SetClock(now)
  BY <1>2, <1>8 DEF HubWrite, SetClock, device
<1> QED BY <1>3, <1>4, <1>5, <1>6, <1>7, <1>8 DEF Next, Round

\* The same for every step.
LEMMA ReceiptsStep == PushSafe /\ ReceiptsMatch /\ [Next]_vars => ReceiptsMatch'
<1> SUFFICES ASSUME PushSafe, ReceiptsMatch, [Next]_vars PROVE ReceiptsMatch'
  OBVIOUS
<1>1. CASE Next
  <2>1. Base'
    BY <1>1, BaseStep DEF PushSafe
  <2> QED BY <1>1, <2>1, ReceiptsStay
<1>2. CASE UNCHANGED vars
  BY <1>2 DEF vars, device, ReceiptsMatch
<1> QED BY <1>1, <1>2

\* A new device has nothing, and misses nothing.
LEMMA PullInit == Init => PullSafe
<1> SUFFICES ASSUME Init PROVE PullSafe
  OBVIOUS
<1>1. PushSafe
  BY PushInit
<1>2. /\ hub = [row \in Rows |-> [rev |-> 0, at |-> 0]] /\ hubClock = 1 /\ rep = NoRows
      /\ pending = [row \in Rows |-> 0] /\ cur = [t \in Tables |-> FreshCursor]
      /\ rd.pc = "idle" /\ rd.todo = {} /\ rd.table = NoTable
      /\ \A t \in Tables : rd.page[t] = NoPage /\ rd.walk[t] = NoWalk /\ rd.marks[t] = 0
  BY DEF Init, Idle
<1>3. \A row \in Rows : ~Behind(row) /\ TableOf[row] \in Tables
  BY <1>2, CoreAssumption DEF Behind, NoRows, Absent
<1>4. MarksOld
  BY <1>2 DEF MarksOld, FreshCursor, NoWalk
<1>5. ArrivalsFit
  BY <1>2, <1>3 DEF ArrivalsFit, NoRows, Absent
<1>6. HeldFits
  <2> SUFFICES ASSUME NEW t \in Tables
               PROVE  cur[t].held <= Cardinality({row \in RowsOf(t) : rep[row].at >= cur[t].pull})
    BY DEF HeldFits
  <2> DEFINE S == {row \in RowsOf(t) : rep[row].at >= cur[t].pull}
  <2>1. S \in SUBSET Rows
    BY DEF RowsOf
  <2> HIDE DEF S
  <2>2. Cardinality(S) \in Nat
    BY <2>1, CountType, Sets
  <2>3. cur[t].held <= Cardinality(S)
    BY <1>2, <2>2 DEF FreshCursor, Unknown
  <2> QED BY <2>3 DEF S
<1>7. ProgressFits /\ SinceCovers /\ ProgressCovers
  BY <1>2, <1>3 DEF ProgressFits, SinceCovers, ProgressCovers, FreshCursor
<1>8. WalksFit /\ WalkCovers /\ PageFits /\ PageCovers
  BY <1>2, <1>3, CoreAssumption DEF WalksFit, WalkCovers, PageFits, PageCovers, Coming, NoPage
<1>9. ReceiptsMatch
  BY <1>2 DEF ReceiptsMatch
<1> QED BY <1>1, <1>4, <1>5, <1>6, <1>7, <1>8, <1>9 DEF PullSafe, PullParts

\* Every step keeps the pull invariant, if no row arrives twice in a millisecond.
LEMMA PullStep == ~SameMillisecond /\ PullSafe /\ [Next]_vars => PullSafe'
<1> SUFFICES ASSUME ~SameMillisecond, PullSafe, [Next]_vars PROVE PullSafe'
  OBVIOUS
<1>b. Base' /\ PushSafe' /\ ReceiptsMatch'
  BY BaseStep, PushStep, ReceiptsStep DEF PullSafe, PullParts, PushSafe
<1> SUFFICES AtRest' /\ MarksOld' /\ OnTheWay'
  BY <1>b DEF PullSafe, PullParts, AtRest, OnTheWay
<1>n. \A row \in Rows : /\ rep[row].rev \in Nat /\ rep[row].at \in Nat /\ hub[row].rev \in Nat
                       /\ hub[row].at \in Nat
  BY Numbers DEF PullSafe, PushSafe, Base
<1>1. CASE Round
  <2>1. ASSUME NEW skip \in SUBSET Excludable, Begin(skip) PROVE AtRest' /\ MarksOld' /\ OnTheWay'
    BY <1>b, <2>1, BeginPull
  <2>2. ASSUME NEW t \in Tables, Fetch(t) PROVE AtRest' /\ MarksOld' /\ OnTheWay'
    BY <1>b, <2>2, FetchPull
  <2>3. CASE Certify
    BY <1>b, <2>3, IdlePull DEF Certify
  <2> QED BY <1>1, <1>b, <2>1, <2>2, <2>3, ReadCursorPull, SnapshotPull, NextTablePull, ApplyPull,
             PushPull, ReceiptPull, EndTablePull DEF Round
<1>2. CASE Fail
  BY <1>2, <1>b, IdlePull DEF Fail
<1>3. ASSUME NEW x \in Rows, NEW ok \in BOOLEAN, Edit(x, ok) \/ OtherWriter(x, ok)
      PROVE  AtRest' /\ MarksOld' /\ OnTheWay'
  <2>1. UNCHANGED <<hub, hubClock, cur, bound, rd>>
    BY <1>3 DEF Edit, OtherWriter
  <2>2. /\ rep'[x].rev > rep[x].rev /\ rep'[x].at = rep[x].at
        /\ \A r \in Rows \ {x} : rep'[r] = rep[r]
    BY <1>3, WriteIs DEF PullSafe, PushSafe
  <2>3. \A row \in Rows : /\ rep'[row].rev >= rep[row].rev /\ rep'[row].at = rep[row].at
                          /\ ~(hub'[row].rev > hub[row].rev)
    <3>1. rep'[x].rev \in Nat
      BY <1>b, NextNumbers
    <3> QED BY <1>n, <2>1, <2>2, <3>1
  <2>4. HubGrown
    BY <2>1, SameHub DEF PullSafe, PushSafe, Base
  <2> QED BY <1>b, <2>1, <2>3, <2>4, OutsidePull
<1>4. ASSUME NEW x \in Rows, NEW rev \in 1 .. MaxRevision, HubWrite(x, rev)
      PROVE  AtRest' /\ MarksOld' /\ OnTheWay'
  <2>1. HubGrown /\ \A r \in Rows \ {x} : hub'[r] = hub[r]
    BY <1>4, HubWriteIs DEF PullSafe, PushSafe
  <2>2. UNCHANGED <<rep, cur, bound, rd>> /\ hub[x].at < hubClock
    BY <1>4 DEF HubWrite, device
  <2>3. \A row \in Rows : /\ rep'[row].rev >= rep[row].rev /\ rep'[row].at = rep[row].at
                          /\ hub'[row].rev > hub[row].rev => hub[row].at < hubClock \/ ~Behind(row)'
    BY <1>n, <2>1, <2>2
  <2> QED BY <1>b, <2>1, <2>2, <2>3, OutsidePull
<1>5. CASE HubTick \/ (\E now \in Clocks : SetClock(now)) \/ UNCHANGED vars
  <2>1. UNCHANGED <<hub, rep, cur, bound, rd>>
    BY <1>5 DEF HubTick, SetClock, vars, device
  <2>2. HubGrown
    <3>1. hubClock \in Nat /\ hubClock' \in {hubClock, hubClock + 1}
      BY <1>5, Numbers DEF HubTick, SetClock, vars, PullSafe, PushSafe, Base
    <3> QED BY <1>n, <2>1, <3>1 DEF HubGrown
  <2>3. \A row \in Rows : /\ rep'[row].rev >= rep[row].rev /\ rep'[row].at = rep[row].at
                          /\ ~(hub'[row].rev > hub[row].rev)
    BY <1>n, <2>1
  <2> QED BY <1>b, <2>1, <2>2, <2>3, OutsidePull
<1> QED BY <1>1, <1>2, <1>3, <1>4, <1>5 DEF Next

\* A table that is skipped has, at the cursor's arrival, every row the hub counts.
LEMMA SkippedIs ==
  ASSUME PullSafe, NEW t \in Tables, Skipped(t), NEW x \in RowsOf(t), hub[x].at >= Since(t)
  PROVE  ~Behind(x)
<1> DEFINE S == {row \in RowsOf(t) : rep[row].at >= cur[t].pull}
           T == {row \in RowsOf(t) : hub[row].at = Newest(t)}
<1>1. /\ Since(t) = cur[t].pull /\ Newest(t) = cur[t].pull /\ cur[t].held = Cardinality(T)
      /\ cur[t].pull \in Nat
  BY TableNumbers DEF Skipped, Since, AtNewest, PullSafe, PushSafe, Base
<1>2. RowsOf(t) \subseteq Rows
  BY DEF RowsOf
<1>3. \A row \in RowsOf(t) : /\ rep[row].at \in Nat /\ hub[row].at \in Nat
                            /\ rep[row].at <= hub[row].at /\ hub[row].at <= cur[t].pull
  BY <1>1, <1>2, Numbers, NewestType DEF ArrivalsFit, PullSafe, PullParts, PushSafe, Base
<1>4. S \in SUBSET T /\ T \in SUBSET Rows
  BY <1>1, <1>2, <1>3
<1>5. Cardinality(T) <= Cardinality(S)
  BY <1>1 DEF HeldFits, PullSafe, PullParts
<1>6. x \in T
  BY <1>1, <1>3
<1>7. S = T
  <2> HIDE DEF S, T
  <2>1. IsFiniteSet(T)
    BY <1>4, CountType
  <2>2. Cardinality(S) <= Cardinality(T) /\ IsFiniteSet(S)
    BY <1>4, <2>1, FS_Subset
  <2>3. Cardinality(S) \in Nat /\ Cardinality(T) \in Nat
    BY <2>1, <2>2, FS_CardinalityType
  <2>4. Cardinality(S) = Cardinality(T)
    BY <1>5, <2>2, <2>3
  <2> QED BY <1>4, <2>1, <2>4, FS_Subset
<1>8. rep[x].at = hub[x].at
  BY <1>1, <1>3, <1>6, <1>7
<1> QED BY <1>2, <1>8 DEF ArrivalsFit, PullSafe, PullParts

\* The invariant is what the property says.
LEMMA PullSafeSays == PullSafe => PullSound
<1> SUFFICES ASSUME PullSafe PROVE PullSound
  OBVIOUS
<1>1. ASSUME NEW row \in Rows, Behind(row) PROVE PullDue(row)
  <2> DEFINE t == TableOf[row]
  <2>1. t \in Tables /\ row \in RowsOf(t)
    BY Numbers DEF PullSafe, PushSafe, Base
  <2>2. hub[row].at >= Since(t)
    BY <1>1 DEF SinceCovers, PullSafe, PullParts
  <2>3. ~Skipped(t)
    BY <1>1, <2>1, <2>2, SkippedIs
  <2>4. cur[t].after >= row /\ cur[t].since = Since(t) => hub[row].at >= cur[t].mark
    BY <1>1 DEF ProgressCovers, PullSafe, PullParts
  <2> QED BY <2>2, <2>3, <2>4 DEF PullDue
<1>2. ReceiptsMatch
  BY DEF PullSafe, PullParts
<1> QED BY <1>1, <1>2 DEF PullSound, PullCoverage

\* In every reachable state of the core client's rounds (syncLocked), the receipt of
\* a row that only this client writes carries the row's revision: a page never
\* replaces an edit the hub has not answered.
THEOREM UnansweredEditsStay == Spec => []ReceiptsMatch
<1>1. Init => ReceiptsMatch
  BY DEF Init, ReceiptsMatch
<1> QED BY <1>1, PushInit, PushStep, ReceiptsStep, PTL DEF Spec

\* If the hub commits no row twice in one millisecond, a row the device has not got
\* is asked for by the next round of its table: no cursor, saved page progress or
\* count of rows at the cursor's arrival skips it.
THEOREM CorePullCovered == ~SameMillisecond => (Spec => []PullSound)
<1> SUFFICES ASSUME ~SameMillisecond PROVE Spec => []PullSound
  OBVIOUS
<1>1. PullSafe /\ [Next]_vars => PullSafe'
  BY PullStep
<1> QED BY <1>1, PullInit, PullSafeSays, PTL DEF Spec

-----------------------------------------------------------------------------
(* The schema exchange of the core client *)

ExchangeStages == {"idle", "compare", "pull", "push", "replay", "again", "mark"}

ExchangeTypes ==
  /\ hubEntries \in SUBSET SchemaEntries /\ ownEntries \in SUBSET SchemaEntries
  /\ schemaMark \in [hub : Nat \cup {NoCursor}, own : Nat]
  /\ exch \in [pc : ExchangeStages, cursor : Nat \cup {NoCursor}, tables : SUBSET TableEntries,
               known : SUBSET SchemaEntries, pulled : SUBSET SchemaEntries,
               unsent : SUBSET SchemaEntries]
  /\ broken \in 0 .. MaxBroken

\* A log's greatest id counts its entries, so a log whose id stands still is the same.
IdsCount == hubId = Cardinality(hubEntries) /\ ownId = Cardinality(ownEntries)

\* The mark never runs ahead, and where it stands level the logs agree.
MarkInv ==
  /\ schemaMark.hub <= hubId /\ schemaMark.own <= ownId
  /\ schemaMark = [hub |-> hubId, own |-> ownId] => ownEntries = hubEntries

\* The round will read the hub's cursor a second time.
ReadsAgain == Outdated \/ (exch.pulled \cap TableEntries) \ exch.tables # {}

\* What a round that has pulled knows of both logs.
Level == exch.pulled \cup exch.unsent = hubEntries

ExchangeInv ==
  /\ exch.cursor <= hubId
  /\ exch.pc \in {"pull", "push", "replay"} => exch.known = ownEntries
  /\ exch.pc = "push" =>
       /\ exch.unsent = ownEntries \ exch.pulled /\ exch.unsent # {}
       /\ exch.pulled \subseteq hubEntries /\ hubEntries \subseteq exch.pulled \cup exch.unsent
  /\ exch.pc = "replay" =>
       /\ exch.unsent \subseteq ownEntries /\ ownEntries \subseteq exch.pulled \cup exch.unsent
       /\ ReadsAgain \/ exch.cursor = hubId => Level
  /\ exch.pc = "again" => ownEntries = hubEntries
  /\ exch.pc = "mark" => exch.cursor \in Nat /\ (exch.cursor = hubId => ownEntries = hubEntries)

SchemaInv == ExchangeTypes /\ IdsCount /\ MarkInv /\ ExchangeInv

\* A new entry of a log makes it larger by one, within the bound on ids.
LEMMA EntryCounts ==
  ASSUME NEW log \in SUBSET SchemaEntries, NEW entry \in SchemaEntries, entry \notin log
  PROVE  /\ log \cup {entry} \in SUBSET SchemaEntries /\ Cardinality(log) \in Nat
         /\ Cardinality(log \cup {entry}) = Cardinality(log) + 1
<1>1. IsFiniteSet(SchemaEntries)
  BY SchemaConstants DEF SchemaEntries
<1>2. IsFiniteSet(log)
  BY <1>1, FS_Subset
<1> QED BY <1>2, FS_AddElement, FS_CardinalityType

LEMMA LogSize ==
  ASSUME NEW log \in SUBSET SchemaEntries
  PROVE  Cardinality(log) \in Ids /\ Cardinality(log) \in Nat
<1>1. IsFiniteSet(SchemaEntries)
  BY SchemaConstants DEF SchemaEntries
<1>2. /\ Cardinality(log) \in Nat /\ Cardinality(SchemaEntries) \in Nat
      /\ Cardinality(log) <= Cardinality(SchemaEntries)
  BY <1>1, FS_Subset, FS_CardinalityType
<1>3. Cardinality(log) \in 0 .. 2 * Cardinality(SchemaEntries)
  BY <1>2
<1> QED BY <1>2, <1>3 DEF Ids

LEMMA SchemaInvInit == CoreSchemaInit => SchemaInv
<1> SUFFICES ASSUME CoreSchemaInit PROVE SchemaInv
  OBVIOUS
<1> USE SchemaConstants DEF CoreSchemaInit, NoRound, NoCursor
<1>1. ExchangeTypes
  BY DEF ExchangeTypes, ExchangeStages
<1>2. IdsCount
  BY FS_EmptySet DEF IdsCount
<1>3. MarkInv /\ ExchangeInv
  BY DEF MarkInv, ExchangeInv
<1> QED BY <1>1, <1>2, <1>3 DEF SchemaInv

LEMMA SchemaInvStep ==
  ASSUME ~LateDDL, SchemaInv, [CoreSchemaNext]_schemaVars
  PROVE  SchemaInv'
<1> USE SchemaConstants DEF NoCursor
<1>t. ExchangeTypes /\ IdsCount /\ MarkInv /\ ExchangeInv
  BY DEF SchemaInv
<1>i. hubId \in Nat /\ ownId \in Nat
  BY <1>t, LogSize DEF ExchangeTypes, IdsCount
<1>n. NoRound \in [pc : ExchangeStages, cursor : Nat \cup {NoCursor},
                   tables : SUBSET TableEntries, known : SUBSET SchemaEntries,
                   pulled : SUBSET SchemaEntries, unsent : SUBSET SchemaEntries]
      /\ NoRound.pc = "idle" /\ NoRound.cursor = -1
  BY DEF NoRound, ExchangeStages
<1>0. CASE UNCHANGED schemaVars
  BY <1>t, <1>0 DEF schemaVars, SchemaInv, ExchangeTypes, IdsCount, MarkInv, ExchangeInv,
                    ReadsAgain, Outdated, Level
<1>l. ASSUME UNCHANGED <<hubEntries, hubId, ownEntries, ownId, schemaMark>>
      PROVE  IdsCount' /\ MarkInv'
  BY <1>t, <1>l DEF IdsCount, MarkInv
<1>1. CASE AskCursor
  <2> DEFINE tables == ownEntries \cap TableEntries
             cursor == IF tables = {} THEN NoCursor ELSE hubId
             new == [NoRound EXCEPT !.pc = "compare", !.tables = tables, !.cursor = cursor]
  <2>1. exch' = new /\ UNCHANGED <<hubEntries, hubId, ownEntries, ownId, schemaMark, broken>>
    BY <1>1 DEF AskCursor
  <2>c. cursor \in Nat \cup {NoCursor} /\ cursor <= hubId /\ tables \in SUBSET TableEntries
    BY <1>i
  <2> HIDE DEF tables, cursor
  <2>2. new \in [pc : ExchangeStages, cursor : Nat \cup {NoCursor}, tables : SUBSET TableEntries,
               known : SUBSET SchemaEntries, pulled : SUBSET SchemaEntries,
               unsent : SUBSET SchemaEntries] /\ new.pc = "compare" /\ new.cursor <= hubId
    BY <2>c DEF ExchangeStages, NoRound
  <2> HIDE DEF new
  <2>3. ExchangeTypes' /\ ExchangeInv'
    BY <1>t, <2>1, <2>2 DEF ExchangeTypes, ExchangeInv
  <2> QED BY <1>l, <2>1, <2>3 DEF SchemaInv
<1>b. ASSUME UNCHANGED <<hubEntries, hubId, ownEntries, ownId, schemaMark>>,
             broken' \in 0 .. MaxBroken, exch' = NoRound
      PROVE  SchemaInv'
  <2>1. ExchangeTypes' /\ ExchangeInv'
    BY <1>t, <1>b, <1>n, <1>i DEF ExchangeTypes, ExchangeInv
  <2> QED BY <1>l, <1>b, <2>1 DEF SchemaInv
<1>2. CASE Compare
  <2>1. CASE exch' = NoRound
    BY <1>2, <1>b, <1>t, <2>1 DEF Compare, ExchangeTypes
  <2>2. CASE exch' = [exch EXCEPT !.pc = "pull", !.known = ownEntries]
    <3>1. UNCHANGED <<hubEntries, hubId, ownEntries, ownId, schemaMark, broken>>
      BY <1>2 DEF Compare
    <3>2. ExchangeTypes' /\ ExchangeInv'
      BY <1>t, <1>i, <2>2, <3>1 DEF ExchangeTypes, ExchangeInv, ExchangeStages
    <3> QED BY <1>l, <3>1, <3>2 DEF SchemaInv
  <2> QED BY <1>2, <2>1, <2>2 DEF Compare
<1>3. CASE PullSchema
  <2> DEFINE level == exch.known \subseteq hubEntries
  <2>1. /\ exch' = [exch EXCEPT !.pc = IF level THEN "replay" ELSE "push",
                          !.pulled = hubEntries, !.unsent = exch.known \ hubEntries]
        /\ UNCHANGED <<hubEntries, hubId, ownEntries, ownId, schemaMark, broken>>
        /\ exch.pc = "pull" /\ exch.known = ownEntries
    BY <1>3, <1>t DEF PullSchema, ExchangeInv
  <2>2. /\ exch'.pc = (IF level THEN "replay" ELSE "push") /\ exch'.pulled = hubEntries
        /\ exch'.unsent = exch.known \ hubEntries /\ exch'.known = exch.known
        /\ exch'.cursor = exch.cursor
    BY <1>t, <2>1 DEF ExchangeTypes
  <2>3. ExchangeTypes'
    BY <1>t, <2>1 DEF ExchangeTypes, ExchangeStages
  <2>4. ExchangeInv'
    BY <1>t, <2>1, <2>2 DEF ExchangeTypes, ExchangeInv, Level
  <2> QED BY <1>l, <2>1, <2>3, <2>4 DEF SchemaInv
<1>4. CASE PushAnswered
  <2>1. /\ exch' = [exch EXCEPT !.pc = "replay"] /\ exch.unsent \subseteq hubEntries
        /\ UNCHANGED <<hubEntries, hubId, ownEntries, ownId, schemaMark, broken>>
        /\ exch.pc = "push"
    BY <1>4 DEF PushAnswered
  <2>3. ExchangeTypes'
    BY <1>t, <2>1 DEF ExchangeTypes, ExchangeStages
  <2>4. ExchangeInv'
    BY <1>t, <2>1 DEF ExchangeTypes, ExchangeInv, Level
  <2> QED BY <1>l, <2>1, <2>3, <2>4 DEF SchemaInv
<1>5. ASSUME NEW entry \in SchemaEntries, PushEntry(entry) PROVE SchemaInv'
  <2>1. /\ entry \in exch.unsent /\ entry \notin hubEntries /\ exch.pc = "push"
        /\ hubEntries' = hubEntries \cup {entry} /\ hubId' = hubId + 1
        /\ UNCHANGED <<ownEntries, ownId, schemaMark, exch, broken>>
    BY <1>5 DEF PushEntry
  <2>2. ExchangeTypes' /\ IdsCount'
    BY <1>t, <1>5, <2>1, EntryCounts DEF ExchangeTypes, IdsCount
  <2>3. MarkInv'
    BY <1>t, <1>i, <2>1 DEF MarkInv, ExchangeTypes
  <2>4. ExchangeInv'
    BY <1>t, <1>i, <2>1 DEF ExchangeInv, ExchangeTypes
  <2> QED BY <2>2, <2>3, <2>4 DEF SchemaInv
<1>6. ASSUME NEW entry \in SchemaEntries, ReplayEntry(entry) PROVE SchemaInv'
  <2>1. /\ entry \in exch.pulled /\ entry \notin ownEntries /\ exch.pc = "replay"
        /\ ownEntries' = ownEntries \cup {entry} /\ ownId' = ownId + 1
        /\ exch' = [exch EXCEPT !.known = exch.known \cup {entry}]
        /\ UNCHANGED <<hubEntries, hubId, schemaMark, broken>>
    BY <1>6, <1>t DEF ReplayEntry, ExchangeInv
  <2>2. ExchangeTypes' /\ IdsCount'
    BY <1>t, <1>6, <2>1, EntryCounts DEF ExchangeTypes, IdsCount
  <2>3. MarkInv'
    BY <1>t, <1>i, <2>1 DEF MarkInv, ExchangeTypes
  <2>4. /\ exch'.pc = "replay" /\ exch'.cursor = exch.cursor /\ exch'.tables = exch.tables
        /\ exch'.known = exch.known \cup {entry} /\ exch'.pulled = exch.pulled
        /\ exch'.unsent = exch.unsent
    BY <1>t, <2>1 DEF ExchangeTypes
  <2>5. ReadsAgain' => ReadsAgain
    BY <1>t, <2>1, <2>4 DEF ReadsAgain, Outdated, ExchangeTypes
  <2>6. ExchangeInv'
    BY <1>t, <1>i, <2>1, <2>4, <2>5 DEF ExchangeInv, Level
  <2> QED BY <2>2, <2>3, <2>6 DEF SchemaInv
<1>7. CASE Replayed
  <2>1. /\ exch' = [exch EXCEPT !.pc = IF Outdated THEN "again" ELSE "mark"]
        /\ UNCHANGED <<hubEntries, hubId, ownEntries, ownId, schemaMark, broken>>
        /\ exch.pc = "replay" /\ exch.pulled \subseteq ownEntries
    BY <1>7, <1>t DEF Replayed, ExchangeInv
  <2>2. ownEntries = exch.pulled \cup exch.unsent
    BY <1>t, <2>1 DEF ExchangeInv
  <2>3. ExchangeTypes'
    BY <1>t, <2>1 DEF ExchangeTypes, ExchangeStages
  <2>4. ~Outdated => exch.cursor \in Nat
    BY <1>t DEF ExchangeTypes, Outdated
  <2>5. exch'.pc = (IF Outdated THEN "again" ELSE "mark") /\ exch'.cursor = exch.cursor
    BY <1>t, <2>1 DEF ExchangeTypes
  <2>6. Outdated \/ exch.cursor = hubId => ownEntries = hubEntries
    BY <1>t, <2>1, <2>2 DEF ExchangeInv, ReadsAgain, Level
  <2>7. ExchangeInv'
    BY <1>t, <2>1, <2>4, <2>5, <2>6 DEF ExchangeInv
  <2> QED BY <1>l, <2>1, <2>3, <2>7 DEF SchemaInv
<1>8. CASE CursorAgain
  <2>1. /\ exch' = [exch EXCEPT !.pc = "mark", !.cursor = hubId]
        /\ UNCHANGED <<hubEntries, hubId, ownEntries, ownId, schemaMark, broken>>
        /\ exch.pc = "again"
    BY <1>8 DEF CursorAgain
  <2>2. exch'.pc = "mark" /\ exch'.cursor = hubId /\ exch' \in
             [pc : ExchangeStages, cursor : Nat \cup {NoCursor}, tables : SUBSET TableEntries,
              known : SUBSET SchemaEntries, pulled : SUBSET SchemaEntries,
              unsent : SUBSET SchemaEntries]
    BY <1>t, <1>i, <2>1 DEF ExchangeTypes, ExchangeStages
  <2>3. ExchangeTypes'
    BY <1>t, <2>1, <2>2 DEF ExchangeTypes
  <2>4. ownEntries = hubEntries
    BY <1>t, <2>1 DEF ExchangeInv
  <2>5. ExchangeInv'
    BY <1>i, <2>1, <2>2, <2>4 DEF ExchangeInv
  <2> QED BY <1>l, <2>1, <2>3, <2>5 DEF SchemaInv
<1>9. CASE MarkExchange
  <2>1. /\ schemaMark' = [hub |-> exch.cursor, own |-> ownId] /\ exch' = NoRound
        /\ UNCHANGED <<hubEntries, hubId, ownEntries, ownId, broken>>
        /\ exch.cursor \in Nat /\ exch.cursor <= hubId
        /\ (exch.cursor = hubId => ownEntries = hubEntries)
    BY <1>9, <1>t DEF MarkExchange, ExchangeInv
  <2>2. ExchangeTypes' /\ ExchangeInv' /\ IdsCount'
    BY <1>t, <1>n, <1>i, <2>1 DEF ExchangeTypes, ExchangeInv, IdsCount
  <2>3. MarkInv'
    BY <1>i, <2>1 DEF MarkInv
  <2> QED BY <2>2, <2>3 DEF SchemaInv
<1>10. CASE RoundBreaks
  BY <1>10, <1>b, <1>t DEF RoundBreaks, ExchangeTypes
<1>11. ASSUME NEW entry \in SchemaEntries, OwnDDL(entry) PROVE SchemaInv'
  <2>1. /\ entry \notin ownEntries /\ exch.pc \notin {"pull", "push", "replay", "again", "mark"}
        /\ ownEntries' = ownEntries \cup {entry} /\ ownId' = ownId + 1
        /\ UNCHANGED <<hubEntries, hubId, schemaMark, exch, broken>>
    BY <1>11 DEF OwnDDL, OwnUnseen
  <2>2. ExchangeTypes' /\ IdsCount'
    BY <1>t, <1>11, <2>1, EntryCounts DEF ExchangeTypes, IdsCount
  <2>3. MarkInv'
    BY <1>t, <1>i, <2>1 DEF MarkInv, ExchangeTypes
  <2>4. ExchangeInv'
    BY <1>t, <2>1 DEF ExchangeInv
  <2> QED BY <2>2, <2>3, <2>4 DEF SchemaInv
<1>12. ASSUME NEW entry \in SchemaEntries, HubDDL(entry) PROVE SchemaInv'
  <2>1. /\ entry \notin hubEntries /\ exch.pc \notin {"push", "again"}
        /\ (exch.pc = "replay" => ~ReadsAgain)
        /\ hubEntries' = hubEntries \cup {entry} /\ hubId' = hubId + 1
        /\ UNCHANGED <<ownEntries, ownId, schemaMark, exch, broken>>
    BY <1>12 DEF HubDDL, HubUnseen, ReadsAgain
  <2>2. ExchangeTypes' /\ IdsCount'
    BY <1>t, <1>12, <2>1, EntryCounts DEF ExchangeTypes, IdsCount
  <2>3. MarkInv'
    BY <1>t, <1>i, <2>1 DEF MarkInv, ExchangeTypes
  <2>4. ReadsAgain' = ReadsAgain /\ exch.cursor < hubId'
    BY <1>t, <1>i, <2>1 DEF ReadsAgain, Outdated, ExchangeInv, ExchangeTypes
  <2>5. ExchangeInv'
    BY <1>t, <1>i, <2>1, <2>4 DEF ExchangeInv, ExchangeTypes
  <2> QED BY <2>2, <2>3, <2>5 DEF SchemaInv
<1> QED BY <1>0, <1>1, <1>2, <1>3, <1>4, <1>5, <1>6, <1>7, <1>8, <1>9, <1>10, <1>11, <1>12
     DEF CoreSchemaNext, ExchangeStep

\* Where no entry arrives unseen between the logs being read and the mark being set, a
\* round of the core client skips its schema exchange only when both logs hold the same
\* entries, for any entries, however many rounds break off (syncLocked).
THEOREM NothingIsLeftOut ==
  ~LateDDL => (CoreSchemaSpec => [](CoreSchemaTypeOK /\ NothingToExchange))
<1> SUFFICES ASSUME ~LateDDL
             PROVE  CoreSchemaSpec => [](CoreSchemaTypeOK /\ NothingToExchange)
  OBVIOUS
<1>1. SchemaInv /\ [CoreSchemaNext]_schemaVars => SchemaInv'
  BY SchemaInvStep
<1>2. ASSUME SchemaInv PROVE CoreSchemaTypeOK /\ NothingToExchange
  <2>1. ExchangeTypes /\ IdsCount /\ MarkInv /\ ExchangeInv
    BY <1>2 DEF SchemaInv
  <2>2. hubId \in Ids /\ ownId \in Ids
    BY <2>1, LogSize DEF ExchangeTypes, IdsCount
  <2>3. Ids = 0 .. 2 * Cardinality(SchemaEntries) /\ 2 * Cardinality(SchemaEntries) \in Nat
    <3>1. IsFiniteSet(SchemaEntries)
      BY SchemaConstants DEF SchemaEntries
    <3>2. Cardinality(SchemaEntries) \in Nat
      BY <3>1, FS_CardinalityType
    <3> QED BY <3>2 DEF Ids
  <2>4. schemaMark \in Marks
    <3>1. schemaMark.hub \in Ids \cup {NoCursor} /\ schemaMark.own \in Ids
      BY <2>1, <2>2, <2>3 DEF ExchangeTypes, MarkInv
    <3> QED BY <2>1, <3>1 DEF ExchangeTypes, Marks
  <2>5. exch.cursor \in Ids \cup {NoCursor}
    BY <2>1, <2>2, <2>3 DEF ExchangeTypes, ExchangeInv
  <2>6. CoreSchemaTypeOK
    BY <2>1, <2>2, <2>4, <2>5 DEF ExchangeTypes, ExchangeStages, CoreSchemaTypeOK
  <2> QED BY <2>1, <2>6 DEF MarkInv, NothingToExchange
<1> QED BY <1>1, <1>2, SchemaInvInit, PTL DEF CoreSchemaSpec
=============================================================================
