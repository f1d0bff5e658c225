--------------------------- MODULE SomaSyncProofs ---------------------------
(***************************************************************************)
(* What SomaSync never gets wrong, on the way to the hub and back.         *)
(*                                                                         *)
(* First the types: every action sets a few fields of the round's record,  *)
(* and each case of TypeStep types the new values first.                   *)
(*                                                                         *)
(* Then PushInv, which is inductive: no local change the hub would accept  *)
(* is ever outside the next round's scan, and recovery may skip what it    *)
(* verified.  Hub revisions only grow, so a row that a step does not write *)
(* can only stop being owed; a pulled row is never ahead of the hub; a     *)
(* local write carries a receipt newer than the frozen ones, or a revision *)
(* not behind the checkpoints; and from the snapshot on, each row owed to  *)
(* the hub is a frozen candidate of a table to come, or in the part of the *)
(* table that recovery has not compared yet.                               *)
(*                                                                         *)
(* Last, what a round takes over from the hub, and what it lets go of: the *)
(* pull cursor never passes a change the replica has yet to take over, a   *)
(* receipt is dropped only for what the hub holds, and the marks that let  *)
(* a round skip the schema exchange name DDL that both logs hold.          *)
(***************************************************************************)
EXTENDS SomaSync, TLAPS

-----------------------------------------------------------------------------
(* Types *)

\* The constants of the state's types belong to them.
LEMMA Sentinels ==
  /\ 0 \in Time /\ Absent \in Version /\ NoRows \in [Rows -> Version]
  /\ Absent.ts = 0
BY ClockAssumption DEF Time, Absent, Version, NoRows

\* What a version is made of.
LEMMA VersionFields ==
  ASSUME NEW x \in Version
  PROVE  x.ts \in Time /\ x.val \in Vals \cup {None} /\ x.ts \in Nat
BY ClockAssumption DEF Version, Time

\* A round that has not begun is a round.
LEMMA IdleType == Idle \in Rounds
BY Sentinels DEF Idle, Rounds, Phases

\* An upsert on the replica keeps a version.
LEMMA UpsertType ==
  ASSUME NEW x \in Version, NEW y \in Version
  PROVE  Upsert(x, y) \in Version
BY DEF Upsert

HubRow == [ts : Time, val : Vals \cup {None}, at : Time]

\* What TypeOK says of the hub, kept by one commit.
HubType == /\ hub \in [Rows -> HubRow]
           /\ \A row \in Rows : hub[row].at <= hubClock

\* A commit keeps the hub's rows well typed and stamped by its clock.
LEMMA CommitType ==
  ASSUME HubType, hubClock \in Time \ {0}, NEW row \in Rows, NEW new \in Version,
         HubCommit(row, new), hubClock' = hubClock
  PROVE  HubType'
BY VersionFields, ClockAssumption DEF HubType, HubRow, HubCommit, HubAccepts, Time

\* The version of a hub row.
LEMMA HubVersionType ==
  ASSUME HubType, NEW row \in Rows
  PROVE  HubVersion(row) \in Version /\ HubVersion(row).ts = hub[row].ts
BY DEF HubType, HubRow, HubVersion, Version

\* The initial state is well typed.
LEMMA TypeInit == Init => TypeOK
<1> SUFFICES ASSUME Init PROVE TypeOK
  OBVIOUS
<1>1. st \in States
  <2>1. PICK b \in BOOLEAN : st = [FreshState EXCEPT !.bound = b]
    BY DEF Init
  <2> QED BY <2>1, Sentinels DEF FreshState, NoRecovery, States
<1>2. 1 \in Time \ {0}
  BY ClockAssumption DEF Time
<1>3. rd.pc \notin Comparing
  BY DEF Init, Idle, Comparing
<1> QED BY <1>1, <1>2, <1>3, Sentinels, IdleType, TableAssumption, ClockAssumption
        DEF Init, TypeOK, Time

\* Every step keeps the types: one case per action.
LEMMA TypeStep == TypeOK /\ [Next]_vars => TypeOK'
<1> SUFFICES ASSUME TypeOK, [Next]_vars PROVE TypeOK'
  OBVIOUS
<1> USE Sentinels
<1>h. HubType
  BY DEF TypeOK, HubType, HubRow
<1>1. CASE Begin
  <2>1. /\ log \in SUBSET Tables
        /\ FullRoundDue \in BOOLEAN /\ ResumableRound \in BOOLEAN /\ EarlyCursor \in BOOLEAN
    BY DEF TypeOK, States, FullRoundDue, ResumableRound, EarlyCursor
  <2> DEFINE pc == IF EarlyCursor THEN "cursor" ELSE "schema"
  <2>2. pc \in Phases \ Comparing
    BY DEF Phases, Comparing
  <2>3. rd' = [Idle EXCEPT !.pc = pc, !.early = EarlyCursor, !.fresh = FullRoundDue,
                           !.resumable = ResumableRound, !.localMark = log]
    BY <1>1 DEF Begin
  <2> HIDE DEF pc, Idle
  <2>4. PICK early \in BOOLEAN, fresh \in BOOLEAN, resumable \in BOOLEAN :
          rd' = [Idle EXCEPT !.pc = pc, !.early = early, !.fresh = fresh,
                             !.resumable = resumable, !.localMark = log]
    BY <2>1, <2>3
  <2> DEFINE flagged == [Idle EXCEPT !.early = early, !.fresh = fresh,
                                     !.resumable = resumable]
  <2>5. flagged \in Rounds /\ rd' = [flagged EXCEPT !.pc = pc, !.localMark = log]
    BY ZenonT(40), <2>4, IdleType DEF Rounds
  <2> HIDE DEF flagged
  <2>6. log \in (SUBSET Tables) \cup {None}
    BY DEF TypeOK
  <2>7. rd' \in Rounds /\ rd'.pc \notin Comparing
    BY <2>2, <2>5, <2>6 DEF Rounds
  <2> QED BY <1>1, <2>7 DEF Begin, TypeOK
<1>2. CASE ReadCursor
  <2>1. Quiet \in SUBSET Tables /\ SchemaMark \in (SUBSET Tables) \cup {None}
    BY DEF TypeOK, Quiet, SchemaMark
  <2>2. PICK c \in {0} \cup {hub[row].at : row \in {row \in Rows : TableOf[row] \in log}} :
          rd' = [rd EXCEPT !.cursor = c, !.quiet = Quiet, !.hubMark = SchemaMark,
                   !.pc = IF rd.early /\ hubLog # st.seenHub THEN "schema" ELSE "snapshot"]
    BY <1>2 DEF ReadCursor
  <2>3. c \in Time
    BY <2>2 DEF TypeOK
  <2> DEFINE pc == IF rd.early /\ hubLog # st.seenHub THEN "schema" ELSE "snapshot"
  <2>4. pc \in Phases \ Comparing
    BY DEF Phases, Comparing
  <2>5. rd' = [rd EXCEPT !.cursor = c, !.quiet = Quiet, !.hubMark = SchemaMark, !.pc = pc]
    BY <2>2
  <2> HIDE DEF pc
  <2>6. rd' \in Rounds /\ rd'.pc \notin Comparing
    BY <2>1, <2>3, <2>4, <2>5 DEF TypeOK, Rounds
  <2> QED BY <1>2, <2>6 DEF ReadCursor, TypeOK
<1>3. CASE SchemaPull
  <2>1. rd' \in Rounds /\ rd'.pc \notin Comparing
    BY <1>3 DEF SchemaPull, TypeOK, Rounds, Phases, Comparing
  <2> QED BY <1>3, <2>1 DEF SchemaPull, TypeOK
<1>4. CASE SchemaPush
  <2>1. rd' \in Rounds /\ hubLog' \in SUBSET Tables /\ rd'.pc \notin Comparing
    BY SMTT(30), <1>4 DEF SchemaPush, TypeOK, Rounds, Phases, Comparing
  <2> QED BY <1>4, <2>1 DEF SchemaPush, TypeOK
<1>5. CASE Replay
  <2>1. rd' \in Rounds /\ log' \in SUBSET Tables /\ rd'.pc \notin Comparing
    BY SMTT(30), <1>5 DEF Replay, TypeOK, Rounds, Phases, Comparing
  <2> QED BY <1>5, <2>1 DEF Replay, TypeOK
<1>6. CASE SchemaDone
  <2>1. rd' \in Rounds /\ rd'.pc \notin Comparing
    BY SMTT(30), <1>6 DEF SchemaDone, TypeOK, Rounds, Phases, Comparing
  <2> QED BY <1>6, <2>1 DEF SchemaDone, TypeOK
<1>7. CASE Snapshot
  <2>1. st' \in States
    BY <1>7 DEF Snapshot, Recovery, TypeOK, States, Rounds
  <2>2. rd' \in Rounds /\ rd'.pc \notin Comparing
    BY <1>7 DEF Snapshot, TypeOK, Rounds, Phases, Comparing
  <2> QED BY <1>7, <2>1, <2>2 DEF Snapshot, TypeOK
<1>8. CASE NextTable
  <2>1. PICK t \in rd.todo :
          rd' = [rd EXCEPT !.table = t, !.todo = @ \ {t}, !.unread = Unread(t),
                           !.pc = IF Unread(t) = {} THEN "push"
                                  ELSE IF rd.resumable THEN "verify" ELSE "pull"]
    BY <1>8 DEF NextTable
  <2>2. Unread(t) \in SUBSET Rows
    BY DEF Unread, RowsOf
  <2> DEFINE pc == IF Unread(t) = {} THEN "push"
                   ELSE IF rd.resumable THEN "verify" ELSE "pull"
  <2>3. pc \in Phases \ Comparing
    BY DEF Phases, Comparing
  <2>4. rd' = [rd EXCEPT !.table = t, !.todo = @ \ {t}, !.unread = Unread(t), !.pc = pc]
    BY <2>1
  <2> HIDE DEF pc
  <2>5. rd' \in Rounds /\ rd'.pc \notin Comparing
    BY <2>2, <2>3, <2>4 DEF TypeOK, Rounds
  <2> QED BY <1>8, <2>5 DEF NextTable, TypeOK
<1>9. CASE PullPage
  <2>1. \A row \in Rows : Pulled(row) \in Version
    BY <1>h, HubVersionType DEF Pulled
  <2>2. PICK row \in rd.unread :
          LET page == [rd.page EXCEPT ![row] = Pulled(row)]
          IN  rd' = [rd EXCEPT !.page = page, !.unread = @ \ {row},
                               !.pc = IF rd.unread # {row} THEN "pull"
                                      ELSE IF page = NoRows THEN "push" ELSE "apply"]
    BY <1>9 DEF PullPage
  <2> DEFINE page == [rd.page EXCEPT ![row] = Pulled(row)]
             pc == IF rd.unread # {row} THEN "pull"
                   ELSE IF page = NoRows THEN "push" ELSE "apply"
  <2>3. rd' = [rd EXCEPT !.page = page, !.unread = @ \ {row}, !.pc = pc]
    BY <2>2
  <2>4. page \in [Rows -> Version] /\ pc \in Phases \ Comparing
    BY <2>1 DEF TypeOK, Rounds, Phases, Comparing
  <2> HIDE DEF page, pc
  <2>5. rd' \in Rounds /\ rd'.pc \notin Comparing
    BY <2>3, <2>4 DEF TypeOK, Rounds
  <2> QED BY <1>9, <2>5 DEF PullPage, TypeOK
<1>10. CASE Apply
  <2>1. PICK row \in Rows :
          /\ rep' = [rep EXCEPT ![row] = Upsert(@, rd.page[row])]
          /\ LET page == [rd.page EXCEPT ![row] = Absent]
             IN  rd' = [rd EXCEPT !.page = page,
                                  !.pc = IF page = NoRows THEN "push" ELSE "apply"]
    BY <1>10 DEF Apply
  <2> DEFINE page == [rd.page EXCEPT ![row] = Absent]
             pc == IF page = NoRows THEN "push" ELSE "apply"
  <2>2. rd' = [rd EXCEPT !.page = page, !.pc = pc]
    BY <2>1
  <2>3. page \in [Rows -> Version] /\ pc \in Phases \ Comparing
    BY DEF TypeOK, Rounds, Phases, Comparing
  <2>4. rep' \in [Rows -> Version]
    BY <2>1, UpsertType DEF TypeOK, Rounds
  <2> HIDE DEF page, pc
  <2>5. rd' \in Rounds /\ rd'.pc \notin Comparing
    BY <2>2, <2>3 DEF TypeOK, Rounds
  <2> QED BY <1>10, <2>4, <2>5 DEF Apply, TypeOK
<1>11. ASSUME NEW lost \in BOOLEAN, Push(lost) PROVE TypeOK'
  <2>1. PICK row \in RowsOf(rd.table) :
          /\ HubCommit(row, rd.cand[row])
          /\ rd' = IF lost THEN rd
                   ELSE [rd EXCEPT !.cand = [@ EXCEPT ![row] = Absent],
                                   !.rejected = @ \/ HubRejects(row, rd.cand[row])]
    BY <1>11 DEF Push
  <2>2. row \in Rows /\ rd.cand[row] \in Version
    BY DEF RowsOf, TypeOK, Rounds
  <2>3. HubType'
    BY <1>11, <1>h, <2>1, <2>2, CommitType DEF Push, TypeOK
  <2> DEFINE cand == [rd.cand EXCEPT ![row] = Absent]
             rejected == rd.rejected \/ HubRejects(row, rd.cand[row])
  <2>4. rd' = IF lost THEN rd ELSE [rd EXCEPT !.cand = cand, !.rejected = rejected]
    BY <2>1
  <2>5. cand \in [Rows -> Version] /\ rejected \in BOOLEAN
    BY DEF TypeOK, Rounds
  <2> HIDE DEF cand, rejected
  <2>6. rd' \in Rounds /\ rd'.pc = rd.pc
    BY ZenonT(40), <2>4, <2>5 DEF TypeOK, Rounds
  <2>7. faults' \in 0 .. MaxFaults
    BY <1>11, ClockAssumption DEF Push, TypeOK
  <2> QED BY <1>11, <2>3, <2>6, <2>7 DEF Push, TypeOK, HubType, HubRow, Comparing
<1>12. CASE EndTable
  <2>1. rd' \in Rounds /\ rd'.pc \notin Comparing
    BY <1>12 DEF EndTable, TypeOK, Rounds, Phases, Comparing
  <2> QED BY <1>12, <2>1 DEF EndTable, TypeOK
<1>13. CASE VerifyFetch
  <2>1. PICK row \in rd.unread :
          rd' = [rd EXCEPT !.row = row, !.unread = @ \ {row},
                           !.page = [@ EXCEPT ![row] = HubVersion(row)], !.pc = "compare"]
    BY <1>13 DEF VerifyFetch
  <2>2. row \in Rows /\ HubVersion(row) \in Version
    BY <1>h, HubVersionType DEF TypeOK, Rounds
  <2> DEFINE page == [rd.page EXCEPT ![row] = HubVersion(row)]
  <2>3. page \in [Rows -> Version]
    BY <2>2 DEF TypeOK, Rounds
  <2>4. rd' = [rd EXCEPT !.row = row, !.unread = @ \ {row}, !.page = page, !.pc = "compare"]
    BY <2>1
  <2> HIDE DEF page
  <2>5. rd' \in Rounds /\ rd'.row \in Rows
    BY <2>2, <2>3, <2>4 DEF TypeOK, Rounds, Phases
  <2> QED BY <1>13, <2>5 DEF VerifyFetch, TypeOK
<1>14. CASE VerifyCompare
  <2>1. rd.row \in Rows
    BY <1>14 DEF VerifyCompare, TypeOK, Comparing
  <2> DEFINE ahead == IF HubLacks(rd.row) THEN rep[rd.row] ELSE Absent
  <2>2. ahead \in Version
    BY <2>1 DEF TypeOK
  <2>3. rd' = [rd EXCEPT !.ahead = ahead, !.pc = "verifyApply"]
    BY <1>14 DEF VerifyCompare
  <2> HIDE DEF ahead
  <2>4. rd' \in Rounds /\ rd'.row = rd.row
    BY <2>2, <2>3 DEF TypeOK, Rounds, Phases
  <2> QED BY <1>14, <2>1, <2>4 DEF VerifyCompare, TypeOK
<1>15. CASE VerifyApply
  <2>1. rd.row \in Rows
    BY <1>15 DEF VerifyApply, TypeOK, Comparing
  <2>2. rep' \in [Rows -> Version]
    BY <1>15, <2>1, UpsertType DEF VerifyApply, TypeOK, Rounds
  <2>3. rd' \in Rounds /\ rd'.row = rd.row
    BY ZenonT(40), <1>15 DEF VerifyApply, TypeOK, Rounds, Phases
  <2> QED BY <1>15, <2>1, <2>2, <2>3 DEF VerifyApply, TypeOK
<1>16. CASE VerifyPush
  <2>1. rd.row \in Rows /\ rd.ahead \in Version
    BY <1>16 DEF VerifyPush, TypeOK, Comparing, Rounds
  <2>2. HubType'
    BY <1>16, <1>h, <2>1, CommitType DEF VerifyPush, TypeOK
  <2> DEFINE rejected == rd.rejected \/ HubRejects(rd.row, rd.ahead)
  <2>3. rejected \in BOOLEAN
    BY DEF TypeOK, Rounds
  <2>4. rd' = [rd EXCEPT !.rejected = rejected, !.ahead = Absent, !.pc = "verified"]
    BY <1>16 DEF VerifyPush
  <2> HIDE DEF rejected
  <2>5. rd' \in Rounds /\ rd'.row = rd.row
    BY ZenonT(40), <2>3, <2>4 DEF TypeOK, Rounds, Phases
  <2> QED BY <1>16, <2>1, <2>2, <2>5 DEF VerifyPush, TypeOK, HubType, HubRow
<1>17. CASE SaveProgress
  <2>1. rd.row \in Rows
    BY <1>17 DEF SaveProgress, TypeOK, Comparing
  <2> DEFINE done == st.rec.done \cup {rd.row}
  <2>2. done \in SUBSET Rows /\ st' = [st EXCEPT !.rec = [@ EXCEPT !.done = done]]
    BY <1>17, <2>1 DEF SaveProgress, TypeOK, States
  <2> HIDE DEF done
  <2>3. st' \in States
    BY <2>2 DEF TypeOK, States
  <2>4. rd' \in Rounds /\ rd'.pc \notin Comparing
    BY ZenonT(40), <1>17 DEF SaveProgress, TypeOK, Rounds, Phases, Comparing
  <2> QED BY <1>17, <2>3, <2>4 DEF SaveProgress, TypeOK
<1>18. CASE Finish
  <2>1. NoRecovery \in [on : BOOLEAN, pull : Time, push : Time, done : SUBSET Rows]
    BY DEF NoRecovery
  <2> DEFINE pull == IF rd.resumable THEN st.rec.pull ELSE rd.cursor
             moved == [st EXCEPT !.lastPull = pull, !.seenHub = rd.hubMark,
                                 !.seenLocal = rd.localMark, !.rec = NoRecovery]
  <2>5. pull \in Time /\ rd.pushCursor \in Time
    BY DEF TypeOK, States, Rounds
  <2>6. st' = IF rd.rejected THEN moved
              ELSE [moved EXCEPT !.lastPush = rd.pushCursor, !.repair = FALSE, !.bound = TRUE]
    BY <1>18 DEF Finish, Checkpoint
  <2>7. rd.hubMark \in (SUBSET Tables) \cup {None} /\ rd.localMark \in (SUBSET Tables) \cup {None}
    BY DEF TypeOK, Rounds
  <2> HIDE DEF pull, NoRecovery
  <2>8. moved \in States
    BY <2>1, <2>5, <2>7 DEF TypeOK, States
  <2> HIDE DEF moved
  <2>2. st' \in States
    BY <2>5, <2>6, <2>8 DEF States
  <2>3. rd' \in Rounds /\ rd'.pc \notin Comparing
    BY <1>18, IdleType DEF Finish, Idle, Comparing
  <2>4. dirty' \in SUBSET Rows
    BY <1>18 DEF Finish, TypeOK
  <2> QED BY <1>18, <2>2, <2>3, <2>4 DEF Finish, TypeOK
<1>19. CASE TableMissing
  <2>1. rd' \in Rounds /\ rd'.pc \notin Comparing
    BY <1>19, IdleType DEF TableMissing, Idle, Comparing
  <2> QED BY <1>19, <2>1 DEF TableMissing, TypeOK
<1>20. CASE Fail
  <2>1. rd' \in Rounds /\ rd'.pc \notin Comparing
    BY <1>20, IdleType DEF Fail, Idle, Comparing
  <2>2. faults' \in 0 .. MaxFaults
    BY <1>20, ClockAssumption DEF Fail, TypeOK
  <2> QED BY <1>20, <2>1, <2>2 DEF Fail, TypeOK
<1>21. CASE HubTick
  <2>1. hubClock' \in Time \ {0} /\ hubClock' >= hubClock
    BY <1>21, ClockAssumption DEF HubTick, TypeOK, Time
  <2>2. \A row \in Rows : hub[row].at \in Nat
    BY ClockAssumption DEF TypeOK, Time
  <2>3. \A row \in Rows : hub[row].at <= hubClock'
    BY <1>21, <2>1, <2>2, ClockAssumption DEF HubTick, TypeOK, Time
  <2> QED BY <1>21, <2>1, <2>3 DEF HubTick, TypeOK
<1>22. ASSUME NEW now \in Time \ {0}, SetClock(now) PROVE TypeOK'
  BY <1>22 DEF SetClock, TypeOK
<1>23. ASSUME NEW t \in Tables, RemoteSchema(t) \/ CreateTable(t) PROVE TypeOK'
  BY <1>23 DEF RemoteSchema, CreateTable, TypeOK
<1>24. ASSUME NEW row \in Rows, NEW v \in Vals, OtherWriter(row, v) PROVE TypeOK'
  <2>1. [ts |-> clock, val |-> v] \in Version
    BY DEF TypeOK, Version
  <2>2. rep' \in [Rows -> Version]
    BY <1>24, <2>1 DEF OtherWriter, TypeOK
  <2> QED BY <1>24, <2>2 DEF OtherWriter, TypeOK
<1>25. ASSUME NEW row \in Rows, NEW v \in Vals, NEW ts \in Time \ {0}, Edit(row, ts, v)
       PROVE  TypeOK'
  <2>1. [ts |-> ts, val |-> v] \in Version
    BY DEF Version
  <2>2. rep' \in [Rows -> Version] /\ dirty' \in SUBSET Rows
    BY <1>25, <2>1 DEF Edit, TypeOK
  <2>3. rd' \in Rounds /\ rd'.pc = rd.pc /\ rd'.row = rd.row
    BY <1>25 DEF Edit, TypeOK, Rounds
  <2> QED BY <1>25, <2>2, <2>3 DEF Edit, TypeOK
<1>26. ASSUME NEW row \in Rows, NEW v \in Vals, NEW ts \in Time \ {0}, HubWrite(row, ts, v)
       PROVE  TypeOK'
  <2>1. [ts |-> ts, val |-> v] \in Version
    BY DEF Version
  <2>2. HubType'
    BY <1>26, <1>h, <2>1, CommitType DEF HubWrite, TypeOK
  <2> QED BY <1>26, <2>2 DEF HubWrite, TypeOK, HubType, HubRow
<1>27. CASE UNCHANGED vars
  BY <1>27 DEF vars, TypeOK
<1> QED
  BY <1>1, <1>2, <1>3, <1>4, <1>5, <1>6, <1>7, <1>8, <1>9, <1>10, <1>11, <1>12, <1>13,
     <1>14, <1>15, <1>16, <1>17, <1>18, <1>19, <1>20, <1>21, <1>22, <1>23, <1>24, <1>25,
     <1>26, <1>27
  DEF Next, Round, Start, Exchange, Verify, Environment

\* Every reachable state is well typed: no request, failure or writer of the
\* round (_sync_locked) leaves a checkpoint, a receipt or a page ill formed,
\* and hub arrivals never pass the hub's clock.
THEOREM TypeCorrect == Spec => []TypeOK
<1>1. Init => TypeOK
  BY TypeInit
<1>2. TypeOK /\ [Next]_vars => TypeOK'
  BY TypeStep
<1> QED BY <1>1, <1>2, PTL DEF Spec


-----------------------------------------------------------------------------
(* Facts about rows *)

\* The revisions and cursors of a well-typed state are numbers.
LEMMA Numbers ==
  ASSUME TypeOK, NEW row \in Rows
  PROVE  /\ rep[row] \in Version /\ rd.cand[row] \in Version /\ rd.page[row] \in Version
         /\ rep[row].ts \in Nat /\ hub[row].ts \in Nat /\ rd.page[row].ts \in Nat
         /\ TableOf[row] \in Tables
<1>1. rep[row] \in Version /\ rd.cand[row] \in Version /\ rd.page[row] \in Version
  BY DEF TypeOK, Rounds
<1>2. hub[row].ts \in Nat
  BY ClockAssumption DEF TypeOK, Time
<1> QED BY <1>1, <1>2, VersionFields, TableAssumption

\* So are the checkpoints and the clocks.
LEMMA Cursors ==
  ASSUME TypeOK
  PROVE  /\ st.lastPush \in Nat /\ st.rec.push \in Nat
         /\ rd.pushCursor \in Nat /\ clock \in Nat
BY ClockAssumption DEF TypeOK, Time, States, Rounds

\* No hub row goes back to an older revision.
HubGrown == \A row \in Rows : hub[row].ts <= hub'[row].ts

\* An unchanged hub has not gone back.
LEMMA SameHub == TypeOK /\ hub' = hub => HubGrown
BY Numbers DEF HubGrown

\* A commit never takes a row back, and lands an owed revision.
LEMMA CommitGrows ==
  ASSUME TypeOK, NEW row \in Rows, NEW new \in Version, HubCommit(row, new)
  PROVE  /\ HubGrown
         /\ new.ts > hub[row].ts /\ new.val \notin BadVals => hub'[row].ts = new.ts
<1>1. hub \in [Rows -> [ts : Time, val : Vals \cup {None}, at : Time]]
  BY DEF TypeOK
<1>2. \A r \in Rows : hub[r].ts \in Nat
  BY Numbers
<1>3. new.ts \in Nat
  BY VersionFields
<1>4. CASE HubAccepts(row, new)
  <2>1. /\ hub'[row].ts = new.ts
        /\ \A r \in Rows \ {row} : hub'[r] = hub[r]
    BY <1>1, <1>4 DEF HubCommit
  <2>2. new.ts > hub[row].ts
    BY <1>4 DEF HubAccepts
  <2> QED BY <2>1, <2>2, <1>2, <1>3 DEF HubGrown
<1>5. CASE ~HubAccepts(row, new)
  <2>1. hub' = hub
    BY <1>5 DEF HubCommit
  <2> QED BY <2>1, <1>2, <1>5 DEF HubGrown, HubAccepts
<1> QED BY <1>4, <1>5

\* A row a step does not write can only stop being owed.
LEMMA OwedBefore ==
  ASSUME TypeOK, TypeOK', HubGrown, NEW row \in Rows, rep'[row] = rep[row], Owed(row)'
  PROVE  Owed(row)
<1>1. rep[row].ts \in Nat /\ hub[row].ts \in Nat
  BY Numbers
<1>2. hub'[row].ts \in Nat
  BY ClockAssumption DEF TypeOK, Time
<1> QED BY <1>1, <1>2 DEF Owed, Ahead, HubGrown

\* An owed row exists.
LEMMA OwedExists ==
  ASSUME TypeOK, NEW row \in Rows, Owed(row)
  PROVE  rep[row].ts > 0 /\ rep[row] # Absent
BY Numbers, Sentinels DEF Owed, Ahead

-----------------------------------------------------------------------------
(* Steps that write no row of the replica *)

\* What the state outside the round promises.
Stored ==
  /\ \A row \in Rows : rep[row].ts > 0 => TableOf[row] \in log
  /\ st.rec.push <= clock
  /\ PushCoverage
  /\ RecoveryCoverage

\* What the round in progress promises.
InRound ==
  /\ \A row \in Rows : rd.page[row].ts > 0 => TableOf[row] \in log
  /\ rd.todo \cup {rd.table} \subseteq log \cup {None}
  /\ PagesOld /\ RoundShape
  /\ Started /\ rd.resumable => st.rec.push <= rd.pushCursor
  /\ CandidatesKept /\ Compared /\ InFlight

\* The two parts of PushInv.
LEMMA Parts == PushInv <=> Stored /\ InRound
BY DEF PushInv, Stored, InRound, RowsKnown, RecoveryClock

\* A row still owed after the step was owed before, and was not written.
OwedStays == \A row \in Rows : Owed(row)' => Owed(row) /\ rep'[row] = rep[row]

\* A step that changes neither receipts nor checkpoints, and writes only rows
\* the hub holds.
NoLocalWrite ==
  /\ OwedStays
  /\ dirty' = dirty /\ st' = st
  /\ log \subseteq log'
  /\ st.rec.push <= clock'
  /\ \A row \in Rows : rep'[row].ts > 0 => TableOf[row] \in log'

\* A step that writes nothing of the replica keeps what is stored.
LEMMA StoredKept ==
  ASSUME TypeOK, TypeOK', Stored, NoLocalWrite
  PROVE  Stored'
<1>1. PushCoverage'
  BY DEF Stored, NoLocalWrite, OwedStays, PushCoverage, PushDue, FullRoundDue
<1>2. RecoveryCoverage'
  <2> SUFFICES ASSUME NEW row \in st'.rec.done, Owed(row)'
               PROVE  row \in dirty' \/ rep'[row].ts >= st'.rec.push
    BY DEF RecoveryCoverage
  <2>1. row \in st.rec.done /\ row \in Rows
    BY DEF NoLocalWrite, TypeOK, States
  <2> QED BY <2>1 DEF Stored, NoLocalWrite, OwedStays, RecoveryCoverage
<1> QED BY <1>1, <1>2 DEF Stored, NoLocalWrite

\* Before its snapshot a round promises nothing about its candidates.
LEMMA NotStarted ==
  rd.pc \in Preamble \cup {"idle"} => ~Started /\ CandidatesKept /\ Compared /\ InFlight
BY DEF Started, Preamble, CandidatesKept, Compared, InFlight, Comparing

\* The same of the state after a step.
LEMMA NotStartedNext ==
  ASSUME rd'.pc \in Preamble \cup {"idle"}
  PROVE  ~Started' /\ CandidatesKept' /\ Compared' /\ InFlight'
<1>1. (rd.pc \in Preamble \cup {"idle"} => ~Started /\ CandidatesKept /\ Compared /\ InFlight)'
  BY NotStarted, PTL
<1> QED BY <1>1

\* No round in progress, nothing promised.
LEMMA IdleRound == TypeOK /\ rd = Idle => InRound
<1> SUFFICES ASSUME TypeOK, rd = Idle PROVE InRound
  OBVIOUS
<1>1. rd.pc = "idle" /\ rd.page = NoRows /\ rd.todo = {} /\ rd.table = None
  BY DEF Idle
<1>2. \A row \in Rows : rd.page[row].ts = 0
  BY <1>1 DEF NoRows, Absent
<1>3. ~Started /\ CandidatesKept /\ Compared /\ InFlight
  BY <1>1, NotStarted
<1>4. RoundShape
  BY <1>1 DEF RoundShape, Preamble, Comparing
<1>5. \A row \in Rows : hub[row].ts >= 0
  BY Numbers
<1> QED BY <1>1, <1>2, <1>3, <1>4, <1>5 DEF InRound, PagesOld

\* The step abandons the round, or begins one.
LEMMA IdleNext ==
  ASSUME TypeOK, TypeOK', rd' = Idle
  PROVE  InRound'
<1>1. (TypeOK /\ rd = Idle => InRound)'
  BY IdleRound, PTL
<1> QED BY <1>1

\* A step that writes nothing on the device.
LEMMA Untouched ==
  ASSUME TypeOK, TypeOK', Stored, HubGrown, rep' = rep, dirty' = dirty, st' = st,
         log \subseteq log', st.rec.push <= clock'
  PROVE  NoLocalWrite
<1>1. OwedStays
  BY OwedBefore DEF OwedStays
<1> QED BY <1>1 DEF NoLocalWrite, Stored

\* What was fetched stays old.
LEMMA PagesStay ==
  ASSUME TypeOK, TypeOK', PagesOld, HubGrown, rd'.page = rd.page
  PROVE  PagesOld'
<1> SUFFICES ASSUME NEW row \in Rows PROVE rd'.page[row].ts <= hub'[row].ts
  BY DEF PagesOld
<1>1. rd.page[row].ts \in Nat /\ hub[row].ts \in Nat
  BY Numbers
<1>2. hub'[row].ts \in Nat
  BY ClockAssumption DEF TypeOK, Time
<1> QED BY <1>1, <1>2 DEF PagesOld, HubGrown

\* The environment moves while the round waits.
LEMMA WaitingRound ==
  ASSUME TypeOK, TypeOK', Stored, InRound, NoLocalWrite, HubGrown, rd' = rd
  PROVE  InRound'
<1>1. PagesOld'
  BY PagesStay DEF InRound
<1>2. RoundShape'
  BY DEF InRound, RoundShape, NoLocalWrite, FullRoundDue, ResumableRound
<1>3. CandidatesKept'
  BY DEF InRound, CandidatesKept, Started, NoLocalWrite, OwedStays, Carried
<1>4. Compared'
  <2> SUFFICES ASSUME rd.pc \in Comparing \ {"compare"}, Owed(rd.row)'
               PROVE  \/ Carried(rd.row)'
                      \/ rd.pc # "verified" /\ rd.ahead = rep'[rd.row]
    BY DEF Compared
  <2>1. rd.row \in Rows
    BY DEF TypeOK
  <2> QED BY <2>1 DEF InRound, Compared, NoLocalWrite, OwedStays, Carried
<1>5. InFlight'
  BY DEF InRound, InFlight, Started, NoLocalWrite, OwedStays, ToVerify
<1> QED BY <1>1, <1>2, <1>3, <1>4, <1>5 DEF InRound, NoLocalWrite, Started

-----------------------------------------------------------------------------
(* The head of a round *)

\* Up to the snapshot a round only collects marks, cursors and schema entries.
LEMMA HeadStep ==
  ASSUME TypeOK, TypeOK', InRound, HubGrown, st' = st, log \subseteq log',
         rd.pc \in Preamble, rd'.pc \in Preamble,
         rd'.page = rd.page, rd'.todo = rd.todo, rd'.table = rd.table,
         rd'.fresh = rd.fresh, rd'.resumable = rd.resumable
  PROVE  InRound'
<1>1. ~Started' /\ CandidatesKept' /\ Compared' /\ InFlight'
  BY NotStartedNext
<1>2. PagesOld'
  BY PagesStay DEF InRound
<1>3. RoundShape'
  BY DEF InRound, RoundShape, Preamble, Comparing, FullRoundDue, ResumableRound
<1> QED BY <1>1, <1>2, <1>3 DEF InRound

\* The actions before the snapshot.
LEMMA HeadNext ==
  ASSUME TypeOK, TypeOK', Stored, InRound,
         Begin \/ ReadCursor \/ SchemaPull \/ SchemaPush \/ Replay \/ SchemaDone
  PROVE  Stored' /\ InRound'
<1>1. /\ rep' = rep /\ dirty' = dirty /\ st' = st /\ hub' = hub /\ clock' = clock
      /\ log \subseteq log'
  BY DEF Begin, ReadCursor, SchemaPull, SchemaPush, Replay, SchemaDone
<1>2. HubGrown
  BY <1>1, SameHub
<1>3. Stored'
  BY <1>1, <1>2, Untouched, StoredKept DEF Stored
<1>4. CASE Begin
  <2>1. /\ rd'.pc \in Preamble /\ rd'.page = NoRows /\ rd'.todo = {} /\ rd'.table = None
        /\ rd'.fresh = FullRoundDue /\ rd'.resumable = ResumableRound
    BY <1>4 DEF Begin, Idle, Preamble
  <2>2. ~Started' /\ CandidatesKept' /\ Compared' /\ InFlight'
    BY <2>1, NotStartedNext
  <2>3. \A row \in Rows : rd'.page[row].ts = 0 /\ hub'[row].ts \in Nat
    BY <1>1, <2>1, Numbers DEF NoRows, Absent
  <2>4. RoundShape'
    BY <1>1, <2>1 DEF RoundShape, Preamble, Comparing, FullRoundDue, ResumableRound
  <2> QED BY <1>3, <2>1, <2>2, <2>3, <2>4 DEF InRound, PagesOld
<1>5. CASE ReadCursor \/ SchemaPull \/ SchemaPush \/ Replay \/ SchemaDone
  <2>1. /\ rd.pc \in Preamble /\ rd'.pc \in Preamble
        /\ rd'.page = rd.page /\ rd'.todo = rd.todo /\ rd'.table = rd.table
        /\ rd'.fresh = rd.fresh /\ rd'.resumable = rd.resumable
    <3>1. CASE ReadCursor
      <4>1. PICK c : rd' = [rd EXCEPT !.cursor = c, !.quiet = Quiet, !.hubMark = SchemaMark,
                              !.pc = IF rd.early /\ hubLog # st.seenHub
                                     THEN "schema" ELSE "snapshot"]
        BY <3>1 DEF ReadCursor
      <4>2. rd.pc \in Preamble
        BY <3>1 DEF ReadCursor, Preamble
      <4> QED BY <4>1, <4>2 DEF Preamble, TypeOK, Rounds
    <3>2. CASE SchemaPull \/ SchemaPush
      BY ZenonT(40), <3>2 DEF SchemaPull, SchemaPush, Preamble, TypeOK, Rounds
    <3>3. CASE Replay \/ SchemaDone
      BY <3>3 DEF Replay, SchemaDone, Preamble, TypeOK, Rounds
    <3> QED BY <1>5, <3>1, <3>2, <3>3
  <2> QED BY <1>1, <1>2, <1>3, <2>1, HeadStep
<1> QED BY <1>3, <1>4, <1>5

-----------------------------------------------------------------------------
(* The snapshot *)

\* The scan of a round that just froze its clock selects every row owed to the
\* hub, or recovery will compare it.
LEMMA ScanCovers ==
  ASSUME TypeOK, Stored, RoundShape, Snapshot, NEW row \in Rows, Owed(row)
  PROVE  Candidate(row) \/ (rd.resumable /\ row \notin Recovery.done)
<1>1. /\ rd.fresh = FullRoundDue /\ rd.resumable = ResumableRound
  BY DEF Snapshot, RoundShape, Preamble
<1>2. /\ rep[row].ts \in Nat /\ rep[row].ts > 0 /\ TableOf[row] \in log
  BY Numbers, OwedExists DEF Stored
<1>3. /\ st.lastPush \in Nat /\ st.rec.push \in Nat /\ clock \in Nat
  BY Cursors
<1>4. row \in dirty => Candidate(row)
  BY <1>2 DEF Candidate
<1>5. ASSUME row \notin dirty PROVE Candidate(row) \/ (rd.resumable /\ row \notin Recovery.done)
  <2>1. CASE rd.resumable /\ st.rec.on
    <3>1. Recovery = st.rec /\ PushSince = st.rec.push
      BY <2>1 DEF Recovery, PushSince
    <3>2. CASE row \in st.rec.done
      <4>1. rep[row].ts >= st.rec.push
        BY <1>5, <3>2 DEF Stored, RecoveryCoverage
      <4> QED BY <1>2, <1>3, <3>1, <4>1 DEF Candidate, ScanFrom
    <3> QED BY <2>1, <3>1, <3>2
  <2>2. CASE rd.resumable /\ ~st.rec.on
    BY <2>2 DEF Recovery
  <2>3. CASE ~rd.resumable /\ rd.fresh
    BY <1>2, <2>3 DEF Candidate, ScanFrom, PushSince
  <2>4. CASE ~rd.resumable /\ ~rd.fresh
    <3>1. rep[row].ts >= st.lastPush
      BY <1>1, <1>5, <2>4 DEF Stored, PushCoverage, PushDue
    <3> QED BY <1>2, <1>3, <2>4, <3>1 DEF Candidate, ScanFrom, PushSince
  <2> QED BY <2>1, <2>2, <2>3, <2>4
<1> QED BY <1>4, <1>5

\* A recovery never scans from before its own cursor.
LEMMA RecoveryScan ==
  ASSUME TypeOK, Stored, Snapshot, rd.resumable
  PROVE  /\ Recovery.push <= clock /\ Recovery.push \in Nat
         /\ ScanFrom = Recovery.push
<1>1. st.rec.push \in Nat /\ clock \in Nat /\ st.rec.push <= clock
  BY Cursors DEF Stored
<1>2. Recovery.push \in Nat /\ Recovery.push <= clock
  BY <1>1 DEF Recovery
<1> QED BY <1>1, <1>2 DEF ScanFrom, RolledBack, PushSince

\* The snapshot keeps what is stored, and the round takes every owed row on.
LEMMA SnapshotNext ==
  ASSUME TypeOK, TypeOK', Stored, InRound, Snapshot
  PROVE  Stored' /\ InRound'
<1>1. /\ rep' = rep /\ dirty' = dirty /\ hub' = hub /\ clock' = clock /\ log' = log
      /\ rd.pc = "snapshot"
  BY DEF Snapshot
<1>2. /\ st'.rec = Recovery /\ st'.repair = (st.repair \/ RolledBack)
      /\ st'.lastPush = st.lastPush /\ st'.bound = st.bound
  BY DEF Snapshot, TypeOK, States
<1>3. /\ rd'.pc = "table" /\ rd'.pushCursor = clock /\ rd'.frozen = dirty /\ rd'.todo = log
      /\ rd'.page = rd.page /\ rd'.table = rd.table /\ rd'.resumable = rd.resumable
      /\ rd'.cand = [row \in Rows |-> IF Candidate(row) THEN rep[row] ELSE Absent]
  BY DEF Snapshot, TypeOK, Rounds
<1>4. rd.resumable = ResumableRound /\ rd.table = None
  BY <1>1 DEF InRound, RoundShape, Preamble
<1>5. HubGrown
  BY <1>1, SameHub
<1>6. \A row \in Rows : Owed(row)' => Owed(row)
  BY <1>1 DEF Owed, Ahead
<1>7. Recovery.push <= clock
  BY Cursors DEF Stored, Recovery
<1>8. PushCoverage'
  BY <1>1, <1>2, <1>6 DEF Stored, PushCoverage, PushDue, FullRoundDue
<1>9. RecoveryCoverage'
  <2>1. st'.rec = st.rec \/ st'.rec.done = {}
    BY <1>2 DEF Recovery
  <2>2. st.rec.done \subseteq Rows
    BY DEF TypeOK, States
  <2> QED BY <1>1, <1>6, <2>1, <2>2 DEF Stored, RecoveryCoverage
<1>10. Stored'
  BY <1>1, <1>2, <1>7, <1>8, <1>9 DEF Stored
<1>11. PagesOld'
  BY <1>3, <1>5, PagesStay DEF InRound
<1>12. RoundShape'
  BY <1>3, <1>4 DEF RoundShape, Preamble, Comparing
<1>13. CandidatesKept'
  <2> SUFFICES ASSUME NEW row \in Rows, rd'.cand[row] # Absent, Owed(row)'
               PROVE  /\ Carried(row)'
                      /\ rd'.resumable => row \in dirty' \/ rep'[row].ts >= st'.rec.push
    BY DEF CandidatesKept
  <2>1. Candidate(row) /\ rd'.cand[row] = rep[row]
    BY <1>3
  <2>2. rd.resumable => row \in dirty \/ rep[row].ts >= Recovery.push
    BY <2>1, RecoveryScan DEF Candidate
  <2> QED BY <1>1, <1>2, <1>3, <2>1, <2>2 DEF Carried
<1>14. Compared'
  BY <1>3 DEF Compared, Comparing
<1>15. InFlight'
  <2> SUFFICES ASSUME NEW row \in Rows, Owed(row)'
               PROVE  \/ rd'.cand[row] = rep'[row] /\ TableOf[row] \in rd'.todo
                      \/ ToVerify(row)'
    BY DEF InFlight
  <2>1. Owed(row)
    BY <1>6
  <2>2. TableOf[row] \in log
    BY <2>1, OwedExists DEF Stored
  <2>3. Candidate(row) \/ (rd.resumable /\ row \notin Recovery.done)
    BY <2>1, ScanCovers DEF InRound
  <2> QED BY <1>1, <1>2, <1>3, <2>2, <2>3 DEF ToVerify
<1>16. Started' /\ rd'.resumable => st'.rec.push <= rd'.pushCursor
  BY <1>2, <1>3, <1>7
<1> QED BY <1>1, <1>3, <1>4, <1>10, <1>11, <1>12, <1>13, <1>14, <1>15, <1>16 DEF InRound

-----------------------------------------------------------------------------
(* Table by table *)

\* The frozen part of the round: candidates only leave it.
SameSnapshot ==
  /\ rd'.frozen = rd.frozen /\ rd'.pushCursor = rd.pushCursor
  /\ rd'.resumable = rd.resumable
  /\ \A row \in Rows : rd'.cand[row] \in {rd.cand[row], Absent}

\* A candidate still frozen keeps its reason.
LEMMA CandidatesStay ==
  ASSUME TypeOK, TypeOK', InRound, Started, OwedStays, SameSnapshot,
         dirty' = dirty, st'.rec.push = st.rec.push
  PROVE  /\ CandidatesKept'
         /\ Started' /\ rd'.resumable => st'.rec.push <= rd'.pushCursor
<1>1. CandidatesKept'
  <2> SUFFICES ASSUME NEW row \in Rows, rd'.cand[row] # Absent, Owed(row)'
               PROVE  /\ Carried(row)'
                      /\ rd'.resumable => row \in dirty' \/ rep'[row].ts >= st'.rec.push
    BY DEF CandidatesKept
  <2>1. rd'.cand[row] = rd.cand[row] /\ Owed(row) /\ rep'[row] = rep[row]
    BY DEF SameSnapshot, OwedStays
  <2> QED BY <2>1 DEF InRound, CandidatesKept, SameSnapshot, Carried
<1> QED BY <1>1 DEF InRound, SameSnapshot

\* The next table is opened: its rows are pulled, or verified, or quiet.
LEMMA NextTableNext ==
  ASSUME TypeOK, TypeOK', Stored, InRound, NextTable
  PROVE  Stored' /\ InRound'
<1>1. /\ rep' = rep /\ dirty' = dirty /\ st' = st /\ hub' = hub /\ clock' = clock
      /\ log' = log /\ rd.pc = "table"
  BY DEF NextTable
<1>2. HubGrown
  BY <1>1, SameHub
<1>3. NoLocalWrite
  BY <1>1, <1>2, Untouched DEF Stored
<1>4. PICK t \in rd.todo :
        rd' = [rd EXCEPT !.table = t, !.todo = @ \ {t}, !.unread = Unread(t),
                         !.pc = IF Unread(t) = {} THEN "push"
                                ELSE IF rd.resumable THEN "verify" ELSE "pull"]
  BY DEF NextTable
<1>5. /\ SameSnapshot /\ rd'.page = rd.page /\ rd'.cand = rd.cand
      /\ rd'.table = t /\ rd'.todo = rd.todo \ {t} /\ rd'.unread = Unread(t)
  BY ZenonT(40), <1>4 DEF TypeOK, Rounds, SameSnapshot
<1>6. rd'.pc = IF Unread(t) = {} THEN "push" ELSE IF rd.resumable THEN "verify" ELSE "pull"
  BY <1>4 DEF TypeOK, Rounds
<1>7. Started /\ rd.table = None /\ Unread(t) \subseteq RowsOf(t)
  BY <1>1 DEF Started, Preamble, InRound, RoundShape, Unread
<1>8. CandidatesKept' /\ (Started' /\ rd'.resumable => st'.rec.push <= rd'.pushCursor)
  BY <1>1, <1>3, <1>5, <1>7, CandidatesStay DEF NoLocalWrite
<1>9. PagesOld'
  BY <1>2, <1>5, PagesStay DEF InRound
<1>10. RoundShape'
  BY <1>5, <1>6, <1>7 DEF RoundShape, Preamble, Comparing, SameSnapshot
<1>11. Compared'
  BY <1>6 DEF Compared, Comparing
<1>12. InFlight'
  <2> SUFFICES ASSUME NEW row \in Rows, Owed(row)'
               PROVE  \/ row \in dirty' \ rd'.frozen
                      \/ rep'[row].ts >= rd'.pushCursor
                      \/ /\ rd'.cand[row] = rep'[row]
                         /\ TableOf[row] \in rd'.todo \cup {rd'.table}
                      \/ ToVerify(row)'
    BY DEF InFlight
  <2>1. Owed(row) /\ TableOf[row] # None
    BY <1>3, TableAssumption DEF NoLocalWrite, OwedStays
  <2>2. \/ row \in dirty \ rd.frozen
        \/ rep[row].ts >= rd.pushCursor
        \/ rd.cand[row] = rep[row] /\ TableOf[row] \in rd.todo
        \/ ToVerify(row)
    BY <1>7, <2>1 DEF InRound, InFlight
  <2>3. CASE ToVerify(row)
    <3>1. rd.resumable /\ row \notin st.rec.done /\ TableOf[row] \in rd.todo
      BY <1>1, <2>3 DEF ToVerify, Comparing
    <3>2. CASE TableOf[row] = t
      <4>1. row \in Unread(t)
        BY <3>1, <3>2 DEF Unread, RowsOf
      <4> QED BY <1>1, <1>5, <1>6, <3>1, <4>1 DEF ToVerify, SameSnapshot
    <3>3. CASE TableOf[row] # t
      BY <1>1, <1>5, <3>1, <3>3 DEF ToVerify, SameSnapshot
    <3> QED BY <3>2, <3>3
  <2> QED BY <1>1, <1>5, <2>2, <2>3 DEF SameSnapshot
<1>13. Stored'
  BY <1>3, StoredKept
<1> QED BY <1>1, <1>5, <1>8, <1>9, <1>10, <1>11, <1>12, <1>13 DEF InRound

\* A page is fetched: what it holds is what the hub holds now.
LEMMA PullPageNext ==
  ASSUME TypeOK, TypeOK', Stored, InRound, PullPage
  PROVE  Stored' /\ InRound'
<1>1. /\ rep' = rep /\ dirty' = dirty /\ st' = st /\ hub' = hub /\ clock' = clock
      /\ log' = log /\ rd.pc = "pull"
  BY DEF PullPage
<1>2. HubGrown
  BY <1>1, SameHub
<1>3. NoLocalWrite
  BY <1>1, <1>2, Untouched DEF Stored
<1>4. PICK row \in rd.unread :
        LET page == [rd.page EXCEPT ![row] = Pulled(row)]
        IN  rd' = [rd EXCEPT !.page = page, !.unread = @ \ {row},
                             !.pc = IF rd.unread # {row} THEN "pull"
                                    ELSE IF page = NoRows THEN "push" ELSE "apply"]
  BY DEF PullPage
<1>5. /\ SameSnapshot /\ rd'.cand = rd.cand /\ rd'.table = rd.table /\ rd'.todo = rd.todo
      /\ rd'.unread = rd.unread \ {row} /\ rd'.page = [rd.page EXCEPT ![row] = Pulled(row)]
      /\ rd'.pc \in {"pull", "push", "apply"}
  BY ZenonT(40), <1>4 DEF TypeOK, Rounds, SameSnapshot
<1>6. Started /\ rd.unread \subseteq RowsOf(rd.table) /\ row \in Rows /\ TableOf[row] = rd.table
  BY <1>1 DEF Started, Preamble, InRound, RoundShape, RowsOf
<1>7. CandidatesKept' /\ (Started' /\ rd'.resumable => st'.rec.push <= rd'.pushCursor)
  BY <1>1, <1>3, <1>5, <1>6, CandidatesStay DEF NoLocalWrite
<1>8. Pulled(row).ts <= hub[row].ts
  <2>1. HubVersion(row).ts = hub[row].ts
    BY DEF HubVersion
  <2> QED BY <2>1, <1>6, Numbers, Sentinels DEF Pulled
<1>9. PagesOld' /\ \A r \in Rows : rd'.page[r].ts > 0 => TableOf[r] \in log'
  <2>1. \A r \in Rows : \/ rd'.page[r] = rd.page[r]
                        \/ r = row /\ rd'.page[r] = Pulled(row)
    BY <1>5, <1>6 DEF TypeOK, Rounds
  <2>2. rd.table \in log
    BY <1>6, TableAssumption DEF InRound
  <2> QED BY <1>1, <1>6, <1>8, <2>1, <2>2 DEF InRound, PagesOld
<1>10. RoundShape'
  BY <1>5, <1>6 DEF RoundShape, Preamble, Comparing
<1>11. Compared'
  BY <1>5 DEF Compared, Comparing
<1>12. InFlight'
  BY <1>1, <1>3, <1>5, <1>6
  DEF InRound, InFlight, ToVerify, NoLocalWrite, OwedStays, SameSnapshot, Comparing
<1>13. Stored'
  BY <1>3, StoredKept
<1> QED BY <1>1, <1>5, <1>7, <1>9, <1>10, <1>11, <1>12, <1>13 DEF InRound

\* A fetched row that is upserted is not ahead of the hub.
LEMMA Upserted ==
  ASSUME TypeOK, TypeOK', Stored, InRound, NEW row \in Rows, hub' = hub, dirty' = dirty,
         st' = st, log' = log, clock' = clock,
         rep' = [rep EXCEPT ![row] = Upsert(@, rd.page[row])]
  PROVE  NoLocalWrite
<1>1. \A r \in Rows \ {row} : rep'[r] = rep[r]
  BY DEF TypeOK
<1>2. rep'[row] = rep[row] \/ (rep'[row] = rd.page[row] /\ rd.page[row].ts > rep[row].ts)
  BY DEF TypeOK, Upsert
<1>3. rep'[row] = rep[row] \/ ~Owed(row)'
  <2>1. rd.page[row].ts <= hub[row].ts /\ rd.page[row].ts \in Nat /\ hub[row].ts \in Nat
    BY Numbers DEF InRound, PagesOld
  <2> QED BY <1>2, <2>1 DEF Owed, Ahead
<1>4. OwedStays
  <2>1. \A r \in Rows : rep'[r] = rep[r] => (Owed(r)' => Owed(r))
    BY SameHub, OwedBefore
  <2> QED BY <1>1, <1>3, <2>1 DEF OwedStays
<1>5. \A r \in Rows : rep'[r].ts > 0 => TableOf[r] \in log
  <2>1. rep[row].ts \in Nat
    BY Numbers
  <2> QED BY <1>1, <1>2, <2>1 DEF Stored, InRound
<1> QED BY <1>4, <1>5 DEF NoLocalWrite, Stored

\* A fetched row is upserted.
LEMMA ApplyNext ==
  ASSUME TypeOK, TypeOK', Stored, InRound, Apply
  PROVE  Stored' /\ InRound'
<1>1. /\ dirty' = dirty /\ st' = st /\ hub' = hub /\ clock' = clock
      /\ log' = log /\ rd.pc = "apply"
  BY DEF Apply
<1>2. PICK row \in Rows :
        /\ rep' = [rep EXCEPT ![row] = Upsert(@, rd.page[row])]
        /\ LET page == [rd.page EXCEPT ![row] = Absent]
           IN  rd' = [rd EXCEPT !.page = page,
                                !.pc = IF page = NoRows THEN "push" ELSE "apply"]
  BY DEF Apply
<1>3. NoLocalWrite
  BY <1>1, <1>2, Upserted
<1>4. /\ SameSnapshot /\ rd'.cand = rd.cand /\ rd'.table = rd.table /\ rd'.todo = rd.todo
      /\ rd'.page = [rd.page EXCEPT ![row] = Absent]
      /\ rd'.pc \in {"push", "apply"}
  BY <1>2 DEF TypeOK, Rounds, SameSnapshot
<1>5. Started
  BY <1>1 DEF Started, Preamble
<1>6. CandidatesKept' /\ (Started' /\ rd'.resumable => st'.rec.push <= rd'.pushCursor)
  BY <1>1, <1>3, <1>4, <1>5, CandidatesStay DEF NoLocalWrite
<1>7. PagesOld' /\ \A r \in Rows : rd'.page[r].ts > 0 => TableOf[r] \in log'
  <2>1. \A r \in Rows : rd'.page[r] = rd.page[r] \/ rd'.page[r] = Absent
    BY <1>4 DEF TypeOK, Rounds
  <2>2. \A r \in Rows : hub[r].ts \in Nat
    BY Numbers
  <2> QED BY <1>1, <2>1, <2>2, Sentinels DEF InRound, PagesOld
<1>8. RoundShape'
  BY <1>4 DEF RoundShape, Preamble, Comparing
<1>9. Compared'
  BY <1>4 DEF Compared, Comparing
<1>10. InFlight'
  BY <1>1, <1>3, <1>4, <1>5
  DEF InRound, InFlight, ToVerify, NoLocalWrite, OwedStays, SameSnapshot, Comparing
<1>11. Stored'
  BY <1>3, StoredKept
<1> QED BY <1>1, <1>4, <1>6, <1>7, <1>8, <1>9, <1>10, <1>11 DEF InRound

\* A candidate is pushed, and the answer arrives or is lost.
LEMMA PushNext ==
  ASSUME TypeOK, TypeOK', Stored, InRound, NEW lost \in BOOLEAN, Push(lost)
  PROVE  Stored' /\ InRound'
<1>1. /\ rep' = rep /\ dirty' = dirty /\ st' = st /\ clock' = clock
      /\ log' = log /\ rd.pc = "push"
  BY DEF Push
<1>2. PICK row \in RowsOf(rd.table) :
        /\ HubCommit(row, rd.cand[row])
        /\ rd' = IF lost THEN rd
                 ELSE [rd EXCEPT !.cand = [@ EXCEPT ![row] = Absent],
                                 !.rejected = @ \/ HubRejects(row, rd.cand[row])]
  BY DEF Push
<1>3. row \in Rows /\ rd.cand[row] \in Version
  BY Numbers DEF RowsOf
<1>4. HubGrown
  BY <1>2, <1>3, CommitGrows
<1>5. NoLocalWrite
  BY <1>1, <1>4, Untouched DEF Stored
<1>6. Stored'
  BY <1>5, StoredKept
<1>7. CASE lost
  BY <1>2, <1>4, <1>5, <1>6, <1>7, WaitingRound
<1>8. CASE ~lost
  <2>1. /\ rd'.page = rd.page /\ rd'.table = rd.table /\ rd'.todo = rd.todo /\ rd'.pc = "push"
        /\ rd'.frozen = rd.frozen /\ rd'.pushCursor = rd.pushCursor
        /\ rd'.resumable = rd.resumable
        /\ rd'.cand = [rd.cand EXCEPT ![row] = Absent]
    BY <1>1, <1>2, <1>8 DEF TypeOK, Rounds
  <2>2. \A r \in Rows : rd'.cand[r] = rd.cand[r] \/ (r = row /\ rd'.cand[r] = Absent)
    BY <2>1 DEF TypeOK, Rounds
  <2>3. SameSnapshot
    BY <2>1, <2>2 DEF SameSnapshot
  <2>4. Started
    BY <1>1 DEF Started, Preamble
  <2>5. CandidatesKept' /\ (Started' /\ rd'.resumable => st'.rec.push <= rd'.pushCursor)
    BY <1>1, <1>5, <2>3, <2>4, CandidatesStay DEF NoLocalWrite
  <2>6. PagesOld'
    BY <1>4, <2>1, PagesStay DEF InRound
  <2>7. RoundShape'
    BY <2>1 DEF RoundShape, Preamble, Comparing
  <2>8. Compared'
    BY <2>1 DEF Compared, Comparing
  <2>9. InFlight'
    <3> SUFFICES ASSUME NEW r \in Rows, Owed(r)'
                 PROVE  \/ r \in dirty' \ rd'.frozen
                        \/ rep'[r].ts >= rd'.pushCursor
                        \/ /\ rd'.cand[r] = rep'[r]
                           /\ TableOf[r] \in rd'.todo \cup {rd'.table}
                        \/ ToVerify(r)'
      BY DEF InFlight
    <3>1. Owed(r) /\ rep'[r] = rep[r]
      BY <1>5 DEF NoLocalWrite, OwedStays
    <3>2. ~(r = row /\ rd.cand[r] = rep[r])
      <4> SUFFICES ASSUME r = row, rd.cand[r] = rep[r] PROVE FALSE
        OBVIOUS
      <4>1. hub'[row].ts = rep[row].ts
        BY <1>2, <1>3, <3>1, CommitGrows DEF Owed, Ahead
      <4>2. rep[row].ts \in Nat
        BY <1>3, Numbers
      <4> QED BY <3>1, <4>1, <4>2 DEF Owed, Ahead
    <3>3. \/ r \in dirty \ rd.frozen
          \/ rep[r].ts >= rd.pushCursor
          \/ rd.cand[r] = rep[r] /\ TableOf[r] \in rd.todo \cup {rd.table}
          \/ ToVerify(r)
      BY <2>4, <3>1 DEF InRound, InFlight
    <3>4. ToVerify(r) => ToVerify(r)'
      BY <1>1, <2>1 DEF ToVerify, Comparing
    <3> QED BY <1>1, <2>1, <2>2, <3>2, <3>3, <3>4
  <2> QED BY <1>1, <1>6, <2>1, <2>5, <2>6, <2>7, <2>8, <2>9 DEF InRound
<1> QED BY <1>7, <1>8

\* A table is done when all its candidates have been answered.
LEMMA EndTableNext ==
  ASSUME TypeOK, TypeOK', Stored, InRound, EndTable
  PROVE  Stored' /\ InRound'
<1>1. /\ rep' = rep /\ dirty' = dirty /\ st' = st /\ hub' = hub /\ clock' = clock
      /\ log' = log /\ rd.pc = "push"
      /\ \A row \in RowsOf(rd.table) : rd.cand[row] = Absent
  BY DEF EndTable
<1>2. HubGrown
  BY <1>1, SameHub
<1>3. NoLocalWrite
  BY <1>1, <1>2, Untouched DEF Stored
<1>4. /\ SameSnapshot /\ rd'.page = rd.page /\ rd'.cand = rd.cand /\ rd'.table = None
      /\ rd'.todo = rd.todo /\ rd'.pc = "table"
  BY DEF EndTable, TypeOK, Rounds, SameSnapshot
<1>5. Started
  BY <1>1 DEF Started, Preamble
<1>6. CandidatesKept' /\ (Started' /\ rd'.resumable => st'.rec.push <= rd'.pushCursor)
  BY <1>1, <1>3, <1>4, <1>5, CandidatesStay DEF NoLocalWrite
<1>7. PagesOld'
  BY <1>2, <1>4, PagesStay DEF InRound
<1>8. RoundShape'
  BY <1>4 DEF RoundShape, Preamble, Comparing
<1>9. Compared'
  BY <1>4 DEF Compared, Comparing
<1>10. InFlight'
  <2>1. \A row \in Rows : Owed(row)' =>
          Owed(row) /\ rep[row] # Absent /\ (rd.cand[row] = rep[row] => TableOf[row] # rd.table)
    BY <1>1, <1>3, OwedExists DEF NoLocalWrite, OwedStays, RowsOf
  <2> QED BY <1>1, <1>4, <1>5, <2>1
          DEF InRound, InFlight, ToVerify, SameSnapshot, Comparing
<1>11. Stored'
  BY <1>3, StoredKept
<1> QED BY <1>1, <1>4, <1>6, <1>7, <1>8, <1>9, <1>10, <1>11 DEF InRound

-----------------------------------------------------------------------------
(* Recovery *)

\* A page is fetched for comparison.
LEMMA VerifyFetchNext ==
  ASSUME TypeOK, TypeOK', Stored, InRound, VerifyFetch
  PROVE  Stored' /\ InRound'
<1>1. /\ rep' = rep /\ dirty' = dirty /\ st' = st /\ hub' = hub /\ clock' = clock
      /\ log' = log /\ rd.pc = "verify"
  BY DEF VerifyFetch
<1>2. HubGrown
  BY <1>1, SameHub
<1>3. NoLocalWrite
  BY <1>1, <1>2, Untouched DEF Stored
<1>4. PICK row \in rd.unread :
        rd' = [rd EXCEPT !.row = row, !.unread = @ \ {row},
                         !.page = [@ EXCEPT ![row] = HubVersion(row)], !.pc = "compare"]
  BY DEF VerifyFetch
<1>5. /\ SameSnapshot /\ rd'.cand = rd.cand /\ rd'.table = rd.table /\ rd'.todo = rd.todo
      /\ rd'.unread = rd.unread \ {row} /\ rd'.page = [rd.page EXCEPT ![row] = HubVersion(row)]
      /\ rd'.pc = "compare" /\ rd'.row = row
  BY <1>4 DEF TypeOK, Rounds, SameSnapshot
<1>6. /\ Started /\ rd.resumable /\ rd.unread \subseteq RowsOf(rd.table)
      /\ row \in Rows /\ TableOf[row] = rd.table
  BY <1>1 DEF Started, Preamble, InRound, RoundShape, RowsOf
<1>7. CandidatesKept' /\ (Started' /\ rd'.resumable => st'.rec.push <= rd'.pushCursor)
  BY <1>1, <1>3, <1>5, <1>6, CandidatesStay DEF NoLocalWrite
<1>8. PagesOld' /\ \A r \in Rows : rd'.page[r].ts > 0 => TableOf[r] \in log'
  <2>1. \A r \in Rows : \/ rd'.page[r] = rd.page[r]
                        \/ r = row /\ rd'.page[r] = HubVersion(row)
    BY <1>5, <1>6 DEF TypeOK, Rounds
  <2>2. rd.table \in log
    BY <1>6, TableAssumption DEF InRound
  <2>3. HubVersion(row).ts = hub[row].ts /\ hub[row].ts \in Nat
    BY <1>6, Numbers DEF HubVersion
  <2> QED BY <1>1, <1>6, <2>1, <2>2, <2>3 DEF InRound, PagesOld
<1>9. RoundShape'
  BY <1>4, <1>5, <1>6 DEF RoundShape, Preamble, Comparing, SameSnapshot
<1>10. Compared'
  BY <1>5 DEF Compared, Comparing
<1>11. InFlight'
  BY <1>1, <1>3, <1>5, <1>6
  DEF InRound, InFlight, ToVerify, NoLocalWrite, OwedStays, SameSnapshot, Comparing
<1>12. Stored'
  BY <1>3, StoredKept
<1> QED BY <1>1, <1>5, <1>7, <1>8, <1>9, <1>10, <1>11, <1>12 DEF InRound

\* A step of the comparison of one row: it stays the current row.
ComparisonStep ==
  /\ rd.pc \in Comparing /\ rd'.pc \in Comparing
  /\ SameSnapshot /\ rd'.cand = rd.cand /\ rd'.table = rd.table /\ rd'.todo = rd.todo
  /\ rd'.unread = rd.unread /\ rd'.row = rd.row

\* What every such step keeps.
LEMMA ComparisonKept ==
  ASSUME TypeOK, TypeOK', Stored, InRound, NoLocalWrite, ComparisonStep
  PROVE  /\ Stored' /\ RoundShape' /\ CandidatesKept' /\ InFlight'
         /\ rd'.todo \cup {rd'.table} \subseteq log' \cup {None}
         /\ Started' /\ rd'.resumable => st'.rec.push <= rd'.pushCursor
<1>1. Started
  BY DEF ComparisonStep, Comparing, Started, Preamble
<1>2. CandidatesKept' /\ (Started' /\ rd'.resumable => st'.rec.push <= rd'.pushCursor)
  BY <1>1, CandidatesStay DEF NoLocalWrite, ComparisonStep
<1>3. RoundShape'
  BY DEF InRound, RoundShape, ComparisonStep, SameSnapshot, Comparing, Preamble
<1>4. InFlight'
  BY <1>1 DEF InRound, InFlight, ToVerify, NoLocalWrite, OwedStays, ComparisonStep, SameSnapshot
<1>5. Stored'
  BY StoredKept
<1> QED BY <1>2, <1>3, <1>4, <1>5 DEF InRound, NoLocalWrite, ComparisonStep

\* The current row exists and is a candidate kept, compared or held.
LEMMA VerifyCompareNext ==
  ASSUME TypeOK, TypeOK', Stored, InRound, VerifyCompare
  PROVE  Stored' /\ InRound'
<1>1. /\ rep' = rep /\ dirty' = dirty /\ st' = st /\ hub' = hub /\ clock' = clock
      /\ log' = log /\ rd.pc = "compare"
  BY DEF VerifyCompare
<1>2. HubGrown
  BY <1>1, SameHub
<1>3. NoLocalWrite
  BY <1>1, <1>2, Untouched DEF Stored
<1>4. /\ ComparisonStep /\ rd'.page = rd.page /\ rd'.pc = "verifyApply"
      /\ rd'.ahead = IF HubLacks(rd.row) THEN rep[rd.row] ELSE Absent
  BY <1>1 DEF VerifyCompare, TypeOK, Rounds, SameSnapshot, ComparisonStep, Comparing
<1>5. rd.row \in Rows /\ Started
  BY <1>1 DEF TypeOK, Comparing, Started, Preamble
<1>6. PagesOld'
  BY <1>2, <1>4, PagesStay DEF InRound
<1>7. Compared'
  <2> PICK row \in Rows : row = rd.row
    BY <1>5
  <2> SUFFICES ASSUME Owed(row)' PROVE Carried(row)' \/ rd'.ahead = rep'[row]
    BY <1>4 DEF Compared, ComparisonStep
  <2>1. Owed(row)
    BY <1>3 DEF NoLocalWrite, OwedStays
  <2>2. CASE HubLacks(row)
    BY <1>1, <1>4, <2>2
  <2>3. CASE rd.cand[row] # Absent
    <3>1. Carried(row)
      BY <1>5, <2>1, <2>3 DEF InRound, CandidatesKept
    <3> QED BY <1>1, <1>4, <3>1 DEF Carried, ComparisonStep, SameSnapshot
  <2>4. CASE ~HubLacks(row) /\ rd.cand[row] = Absent
    <3>1. rep[row].ts <= rd.page[row].ts /\ rd.page[row].ts <= hub[row].ts
      BY <2>4, Numbers DEF HubLacks, InRound, PagesOld
    <3> QED BY <2>1, <3>1, Numbers DEF Owed, Ahead
  <2> QED BY <2>2, <2>3, <2>4
<1>8. /\ Stored' /\ RoundShape' /\ CandidatesKept' /\ InFlight'
      /\ rd'.todo \cup {rd'.table} \subseteq log' \cup {None}
      /\ Started' /\ rd'.resumable => st'.rec.push <= rd'.pushCursor
  BY <1>3, <1>4, ComparisonKept
<1> QED BY <1>1, <1>4, <1>6, <1>7, <1>8 DEF InRound

\* The compared page is applied.
LEMMA VerifyApplyNext ==
  ASSUME TypeOK, TypeOK', Stored, InRound, VerifyApply
  PROVE  Stored' /\ InRound'
<1>1. /\ dirty' = dirty /\ st' = st /\ hub' = hub /\ clock' = clock
      /\ log' = log /\ rd.pc = "verifyApply"
      /\ rep' = [rep EXCEPT ![rd.row] = Upsert(@, rd.page[rd.row])]
  BY DEF VerifyApply
<1>2. rd.row \in Rows
  BY <1>1 DEF TypeOK, Comparing
<1>3. NoLocalWrite
  BY <1>1, <1>2, Upserted
<1>4. /\ ComparisonStep /\ rd'.page = NoRows /\ rd'.ahead = rd.ahead
      /\ rd'.pc = IF rd.ahead = Absent THEN "verified" ELSE "verifyPush"
  BY <1>1 DEF VerifyApply, TypeOK, Rounds, SameSnapshot, ComparisonStep, Comparing
<1>5. PagesOld' /\ \A r \in Rows : rd'.page[r].ts > 0 => TableOf[r] \in log'
  <2>1. \A r \in Rows : rd'.page[r].ts = 0 /\ hub'[r].ts \in Nat
    BY <1>1, <1>4, Numbers DEF NoRows, Absent
  <2> QED BY <2>1 DEF PagesOld
<1>6. Compared'
  <2> PICK row \in Rows : row = rd.row
    BY <1>2
  <2> SUFFICES ASSUME Owed(row)'
               PROVE  Carried(row)' \/ (rd'.pc # "verified" /\ rd'.ahead = rep'[row])
    BY <1>4 DEF Compared, ComparisonStep
  <2>1. Owed(row) /\ rep'[row] = rep[row] /\ rep[row] # Absent
    BY <1>3, OwedExists DEF NoLocalWrite, OwedStays
  <2>2. Carried(row) \/ rd.ahead = rep[row]
    BY <1>1, <2>1 DEF InRound, Compared, Comparing
  <2>3. Carried(row) => Carried(row)'
    BY <1>1, <1>4, <2>1 DEF Carried, ComparisonStep, SameSnapshot
  <2> QED BY <1>4, <2>1, <2>2, <2>3
<1>7. /\ Stored' /\ RoundShape' /\ CandidatesKept' /\ InFlight'
      /\ rd'.todo \cup {rd'.table} \subseteq log' \cup {None}
      /\ Started' /\ rd'.resumable => st'.rec.push <= rd'.pushCursor
  BY <1>3, <1>4, ComparisonKept
<1> QED BY <1>5, <1>6, <1>7 DEF InRound

\* What the hub lacked is pushed.
LEMMA VerifyPushNext ==
  ASSUME TypeOK, TypeOK', Stored, InRound, VerifyPush
  PROVE  Stored' /\ InRound'
<1>1. /\ rep' = rep /\ dirty' = dirty /\ st' = st /\ clock' = clock
      /\ log' = log /\ rd.pc = "verifyPush" /\ HubCommit(rd.row, rd.ahead)
  BY DEF VerifyPush
<1>2. rd.row \in Rows /\ rd.ahead \in Version
  BY <1>1 DEF TypeOK, Comparing, Rounds
<1>3. HubGrown
  BY <1>1, <1>2, CommitGrows
<1>4. NoLocalWrite
  BY <1>1, <1>3, Untouched DEF Stored
<1>5. /\ ComparisonStep /\ rd'.page = rd.page /\ rd'.pc = "verified"
  BY <1>1 DEF VerifyPush, TypeOK, Rounds, SameSnapshot, ComparisonStep, Comparing
<1>6. PagesOld'
  BY <1>3, <1>5, PagesStay DEF InRound
<1>7. Compared'
  <2> PICK row \in Rows : row = rd.row
    BY <1>2
  <2> SUFFICES ASSUME Owed(row)' PROVE Carried(row)'
    BY <1>5 DEF Compared, ComparisonStep
  <2>1. Owed(row)
    BY <1>4 DEF NoLocalWrite, OwedStays
  <2>2. rd.ahead # rep[row]
    <3> SUFFICES ASSUME rd.ahead = rep[row] PROVE FALSE
      OBVIOUS
    <3>1. hub'[row].ts = rep'[row].ts
      BY <1>1, <1>2, <2>1, CommitGrows DEF Owed, Ahead
    <3>2. rep[row].ts \in Nat
      BY Numbers
    <3> QED BY <1>1, <3>1, <3>2 DEF Owed, Ahead
  <2>3. Carried(row)
    BY <1>1, <2>1, <2>2 DEF InRound, Compared, Comparing
  <2> QED BY <1>1, <1>5, <2>3 DEF Carried, ComparisonStep, SameSnapshot
<1>8. /\ Stored' /\ RoundShape' /\ CandidatesKept' /\ InFlight'
      /\ rd'.todo \cup {rd'.table} \subseteq log' \cup {None}
      /\ Started' /\ rd'.resumable => st'.rec.push <= rd'.pushCursor
  BY <1>4, <1>5, ComparisonKept
<1> QED BY <1>1, <1>5, <1>6, <1>7, <1>8 DEF InRound

\* Progress is saved past the compared row: it is carried by the scan that
\* the resumed recovery would repeat.
LEMMA SaveProgressNext ==
  ASSUME TypeOK, TypeOK', Stored, InRound, SaveProgress
  PROVE  Stored' /\ InRound'
<1>1. /\ rep' = rep /\ dirty' = dirty /\ hub' = hub /\ clock' = clock
      /\ log' = log /\ rd.pc = "verified"
  BY DEF SaveProgress
<1>2. /\ st'.lastPush = st.lastPush /\ st'.repair = st.repair /\ st'.bound = st.bound
      /\ st'.rec.push = st.rec.push /\ st'.rec.done = st.rec.done \cup {rd.row}
  BY DEF SaveProgress, TypeOK, States
<1>3. /\ SameSnapshot /\ rd'.page = rd.page /\ rd'.cand = rd.cand /\ rd'.table = rd.table
      /\ rd'.todo = rd.todo /\ rd'.unread = rd.unread
      /\ rd'.pc = IF rd.unread = {} THEN "push" ELSE "verify"
  BY DEF SaveProgress, TypeOK, Rounds, SameSnapshot
<1>4. /\ Started /\ rd.resumable /\ rd.unread \subseteq RowsOf(rd.table)
      /\ rd.row \in Rows /\ TableOf[rd.row] = rd.table
  BY <1>1 DEF Started, Preamble, InRound, RoundShape, RowsOf, Comparing
<1>5. HubGrown
  BY <1>1, SameHub
<1>6. \A row \in Rows : Owed(row)' => Owed(row)
  BY <1>1 DEF Owed, Ahead
<1>7. OwedStays
  BY <1>1, <1>6 DEF OwedStays
<1>8. Owed(rd.row) => Carried(rd.row)
  BY <1>1 DEF InRound, Compared, Comparing
<1>9. Owed(rd.row) => rd.row \in dirty \/ rep[rd.row].ts >= st.rec.push
  <2> SUFFICES ASSUME Owed(rd.row), rd.row \notin dirty PROVE rep[rd.row].ts >= st.rec.push
    OBVIOUS
  <2>1. rep[rd.row] # Absent /\ rep[rd.row].ts \in Nat
    BY <1>4, Numbers, OwedExists
  <2>2. CASE rep[rd.row].ts >= rd.pushCursor
    <3>1. st.rec.push <= rd.pushCursor
      BY <1>4 DEF InRound
    <3> QED BY <2>1, <2>2, <3>1, Cursors
  <2>3. CASE rd.cand[rd.row] = rep[rd.row]
    BY <1>4, <2>1, <2>3 DEF InRound, CandidatesKept
  <2> QED BY <1>8, <2>2, <2>3 DEF Carried
<1>10. Stored'
  <2>1. PushCoverage'
    BY <1>1, <1>2, <1>6 DEF Stored, PushCoverage, PushDue, FullRoundDue
  <2>2. RecoveryCoverage'
    <3> SUFFICES ASSUME NEW row \in st'.rec.done, Owed(row)'
                 PROVE  row \in dirty' \/ rep'[row].ts >= st'.rec.push
      BY DEF RecoveryCoverage
    <3>1. row \in Rows /\ (row \in st.rec.done \/ row = rd.row)
      BY <1>2, <1>4 DEF TypeOK, States
    <3> QED BY <1>1, <1>2, <1>6, <1>9, <3>1 DEF Stored, RecoveryCoverage
  <2> QED BY <1>1, <1>2, <2>1, <2>2 DEF Stored
<1>11. CandidatesKept' /\ (Started' /\ rd'.resumable => st'.rec.push <= rd'.pushCursor)
  BY <1>1, <1>2, <1>3, <1>4, <1>7, CandidatesStay
<1>12. PagesOld'
  BY <1>3, <1>5, PagesStay DEF InRound
<1>13. RoundShape'
  BY <1>3, <1>4 DEF RoundShape, Preamble, Comparing, SameSnapshot
<1>14. Compared'
  BY <1>3 DEF Compared, Comparing
<1>15. InFlight'
  <2> SUFFICES ASSUME NEW row \in Rows, Owed(row)'
               PROVE  \/ row \in dirty \ rd.frozen
                      \/ rep[row].ts >= rd.pushCursor
                      \/ /\ rd.cand[row] = rep[row]
                         /\ TableOf[row] \in rd.todo \cup {rd.table}
                      \/ ToVerify(row)'
    BY <1>1, <1>3 DEF InFlight, SameSnapshot
  <2>1. Owed(row)
    BY <1>6
  <2>2. CASE row = rd.row
    BY <1>4, <1>8, <2>1, <2>2 DEF Carried
  <2>3. CASE row # rd.row
    <3>1. ToVerify(row) => ToVerify(row)'
      BY <1>1, <1>2, <1>3, <2>3 DEF ToVerify, SameSnapshot, Comparing
    <3> QED BY <1>4, <2>1, <3>1 DEF InRound, InFlight
  <2> QED BY <2>2, <2>3
<1> QED BY <1>1, <1>3, <1>10, <1>11, <1>12, <1>13, <1>14, <1>15 DEF InRound

-----------------------------------------------------------------------------
(* The end of a round, and the writers around it *)

\* A clean round moves the push cursor past rows that are all held by the hub,
\* written since the snapshot, or carry a newer receipt.
LEMMA FinishNext ==
  ASSUME TypeOK, TypeOK', Stored, InRound, Finish
  PROVE  Stored' /\ InRound'
<1>1. /\ rep' = rep /\ hub' = hub /\ clock' = clock /\ log' = log
      /\ rd.pc = "table" /\ rd.todo = {} /\ rd' = Idle /\ dirty' = dirty \ Acked
  BY DEF Finish
<1>2. /\ st'.rec = NoRecovery
      /\ rd.rejected => /\ st'.lastPush = st.lastPush /\ st'.repair = st.repair
                        /\ st'.bound = st.bound
      /\ ~rd.rejected => st'.lastPush = rd.pushCursor
  BY DEF Finish, Checkpoint, TypeOK, States
<1>3. \A row \in Rows : Owed(row)' => Owed(row)
  BY <1>1 DEF Owed, Ahead
<1>4. PushCoverage'
  <2> SUFFICES ASSUME NEW row \in Rows, Owed(row)' PROVE PushDue(row)'
    BY DEF PushCoverage
  <2>1. Owed(row)
    BY <1>3
  <2>2. CASE rd.rejected
    BY <1>1, <1>2, <2>1, <2>2 DEF Acked, Stored, PushCoverage, PushDue, FullRoundDue
  <2>3. CASE ~rd.rejected
    <3>1. Started /\ rd.table = None /\ TableOf[row] # None
      BY <1>1, TableAssumption DEF Started, Preamble, InRound, RoundShape
    <3>2. ~ToVerify(row)
      BY <1>1 DEF ToVerify, Comparing
    <3>3. row \in dirty \ rd.frozen \/ rep[row].ts >= rd.pushCursor
      BY <1>1, <2>1, <3>1, <3>2 DEF InRound, InFlight
    <3> QED BY <1>1, <1>2, <2>3, <3>3 DEF Acked, PushDue
  <2> QED BY <2>2, <2>3
<1>5. RecoveryCoverage'
  BY <1>2 DEF RecoveryCoverage, NoRecovery
<1>6. st'.rec.push <= clock'
  BY <1>1, <1>2, Cursors DEF NoRecovery
<1>7. InRound'
  BY <1>1, IdleNext
<1> QED BY <1>1, <1>4, <1>5, <1>6, <1>7 DEF Stored

\* A round that fails keeps what it stored.
LEMMA AbandonNext ==
  ASSUME TypeOK, TypeOK', Stored, InRound, TableMissing \/ Fail
  PROVE  Stored' /\ InRound'
<1>1. /\ rep' = rep /\ dirty' = dirty /\ st' = st /\ hub' = hub /\ clock' = clock
      /\ log' = log /\ rd' = Idle
  BY DEF TableMissing, Fail
<1>2. NoLocalWrite
  BY <1>1, SameHub, Untouched DEF Stored
<1> QED BY <1>1, <1>2, IdleNext, StoredKept

\* What a local write of one row disturbs: the row is either covered by a
\* fresh receipt or not behind any cursor.
LEMMA WriteNext ==
  ASSUME TypeOK, TypeOK', Stored, InRound, NEW row \in Rows,
         hub' = hub, st' = st, log' = log, clock' = clock, TableOf[row] \in log,
         \A r \in Rows \ {row} : rep'[r] = rep[r],
         dirty \subseteq dirty',
         \A r \in Rows \ {row} : r \in dirty \ rd.frozen => r \in dirty' \ rd'.frozen,
         \E frozen : rd' = [rd EXCEPT !.frozen = frozen],
         \/ row \in dirty' \ rd'.frozen
         \/ \A c \in {st.lastPush, st.rec.push, rd.pushCursor} : rep'[row].ts >= c
  PROVE  Stored' /\ InRound'
<1>1. /\ rd'.pc = rd.pc /\ rd'.page = rd.page /\ rd'.todo = rd.todo /\ rd'.table = rd.table
      /\ rd'.cand = rd.cand /\ rd'.pushCursor = rd.pushCursor /\ rd'.resumable = rd.resumable
      /\ rd'.fresh = rd.fresh /\ rd'.unread = rd.unread /\ rd'.row = rd.row
      /\ rd'.ahead = rd.ahead
  BY DEF TypeOK, Rounds
<1>2. \A r \in Rows \ {row} : (Owed(r)' => Owed(r)) /\ (Carried(r) => Carried(r)')
  BY <1>1 DEF Owed, Ahead, Carried
<1>3. Carried(row)' /\ (row \in dirty' \/ rep'[row].ts >= st.rec.push)
  BY <1>1 DEF Carried
<1>4. PushCoverage'
  BY <1>2 DEF Stored, PushCoverage, PushDue, FullRoundDue
<1>5. RecoveryCoverage'
  <2>1. st'.rec.done \subseteq Rows
    BY DEF TypeOK, States
  <2> QED BY <1>2, <1>3, <2>1 DEF Stored, RecoveryCoverage
<1>6. Stored'
  BY <1>4, <1>5 DEF Stored
<1>7. PagesOld'
  BY <1>1, SameHub, PagesStay DEF InRound
<1>8. RoundShape'
  BY <1>1 DEF InRound, RoundShape, FullRoundDue, ResumableRound
<1>9. CandidatesKept'
  <2> SUFFICES ASSUME Started, NEW r \in Rows, rd.cand[r] # Absent, Owed(r)'
               PROVE  /\ Carried(r)'
                      /\ rd.resumable => r \in dirty' \/ rep'[r].ts >= st.rec.push
    BY <1>1 DEF CandidatesKept, Started
  <2>1. CASE r = row
    BY <1>3, <2>1
  <2>2. CASE r # row
    BY <1>2, <2>2 DEF InRound, CandidatesKept
  <2> QED BY <2>1, <2>2
<1>10. Compared'
  <2> SUFFICES ASSUME rd.pc \in Comparing \ {"compare"}, Owed(rd.row)'
               PROVE  Carried(rd.row)' \/ (rd.pc # "verified" /\ rd.ahead = rep'[rd.row])
    BY <1>1 DEF Compared
  <2>1. PICK r \in Rows : r = rd.row /\ Owed(r)'
    BY <1>1 DEF TypeOK, Owed, Ahead
  <2>2. Carried(r)' \/ (rd.pc # "verified" /\ rd.ahead = rep'[r])
    BY <1>2, <1>3, <2>1 DEF InRound, Compared
  <2> QED BY <1>1, <2>1, <2>2 DEF Carried
<1>11. InFlight'
  <2> SUFFICES ASSUME Started, NEW r \in Rows, Owed(r)'
               PROVE  \/ r \in dirty' \ rd'.frozen
                      \/ rep'[r].ts >= rd.pushCursor
                      \/ /\ rd.cand[r] = rep'[r]
                         /\ TableOf[r] \in rd.todo \cup {rd.table}
                      \/ ToVerify(r)'
    BY <1>1 DEF InFlight, Started
  <2>1. CASE r = row
    BY <2>1
  <2>2. CASE r # row
    <3>1. ToVerify(r) => ToVerify(r)'
      BY <1>1 DEF ToVerify
    <3> QED BY <1>2, <2>2, <3>1 DEF InRound, InFlight
  <2> QED BY <2>1, <2>2
<1>12. Started' /\ rd'.resumable => st'.rec.push <= rd'.pushCursor
  BY <1>1 DEF InRound, Started
<1> QED BY <1>1, <1>6, <1>7, <1>8, <1>9, <1>10, <1>11, <1>12 DEF InRound

\* A write of the Python client leaves a receipt newer than the frozen ones.
LEMMA EditNext ==
  ASSUME TypeOK, TypeOK', Stored, InRound,
         NEW row \in Rows, NEW v \in Vals, NEW ts \in Time \ {0}, Edit(row, ts, v)
  PROVE  Stored' /\ InRound'
<1>1. /\ hub' = hub /\ st' = st /\ log' = log /\ clock' = clock /\ TableOf[row] \in log
      /\ dirty' = dirty \cup {row}
      /\ rd' = [rd EXCEPT !.frozen = @ \ {row}]
      /\ rep' = [rep EXCEPT ![row] = [ts |-> ts, val |-> v]]
  BY DEF Edit
<1>2. rd'.frozen = rd.frozen \ {row} /\ \A r \in Rows \ {row} : rep'[r] = rep[r]
  BY <1>1 DEF TypeOK, Rounds
<1>3. \E frozen : rd' = [rd EXCEPT !.frozen = frozen]
  BY <1>1
<1> QED BY <1>1, <1>2, <1>3, WriteNext

\* Another program's write carries a revision not behind any cursor.
LEMMA OtherWriterNext ==
  ASSUME TypeOK, TypeOK', Stored, InRound,
         NEW row \in Rows, NEW v \in Vals, OtherWriter(row, v)
  PROVE  Stored' /\ InRound'
<1>1. /\ hub' = hub /\ st' = st /\ log' = log /\ clock' = clock /\ TableOf[row] \in log
      /\ dirty' = dirty /\ rd' = rd
      /\ rep' = [rep EXCEPT ![row] = [ts |-> clock, val |-> v]]
      /\ \A c \in {st.lastPush, st.rec.push, rd.pushCursor} : clock >= c
  BY DEF OtherWriter
<1>2. rep'[row].ts = clock /\ \A r \in Rows \ {row} : rep'[r] = rep[r]
  BY <1>1 DEF TypeOK
<1>3. \E frozen : rd' = [rd EXCEPT !.frozen = frozen]
  <2>1. rd' = [rd EXCEPT !.frozen = rd.frozen]
    BY <1>1 DEF TypeOK, Rounds
  <2> QED BY <2>1
<1> QED BY <1>1, <1>2, <1>3, WriteNext

\* The hub, its clock, its other writers, and the device's clock and DDL.
LEMMA AroundNext ==
  ASSUME TypeOK, TypeOK', Stored, InRound, ~LateRollback,
         \/ HubTick
         \/ \E now \in Time \ {0} : SetClock(now)
         \/ \E t \in Tables : RemoteSchema(t) \/ CreateTable(t)
         \/ \E row \in Rows, v \in Vals, ts \in Time \ {0} : HubWrite(row, ts, v)
         \/ UNCHANGED vars
  PROVE  Stored' /\ InRound'
<1>1. /\ rep' = rep /\ dirty' = dirty /\ st' = st /\ rd' = rd /\ log \subseteq log'
  BY DEF HubTick, SetClock, RemoteSchema, CreateTable, HubWrite, vars
<1>2. HubGrown
  <2>1. CASE \E row \in Rows, v \in Vals, ts \in Time \ {0} : HubWrite(row, ts, v)
    <3>1. PICK row \in Rows, v \in Vals, ts \in Time \ {0} : HubWrite(row, ts, v)
      BY <2>1
    <3>2. [ts |-> ts, val |-> v] \in Version
      BY DEF Version
    <3> QED BY <3>1, <3>2, CommitGrows DEF HubWrite
  <2>2. CASE hub' = hub
    BY <2>2, SameHub
  <2> QED BY <2>1, <2>2 DEF HubTick, SetClock, RemoteSchema, CreateTable, vars
<1>3. st.rec.push <= clock'
  <2>1. CASE \E now \in Time \ {0} : SetClock(now)
    <3>1. PICK now \in Time \ {0} : SetClock(now)
      BY <2>1
    <3>2. clock' = now /\ now >= st.rec.push
      BY <3>1 DEF SetClock
    <3>3. now \in Nat /\ st.rec.push \in Nat
      BY Cursors, ClockAssumption DEF Time
    <3> QED BY <3>2, <3>3
  <2>2. CASE clock' = clock
    BY <2>2 DEF Stored
  <2> QED BY <2>1, <2>2 DEF HubTick, RemoteSchema, CreateTable, HubWrite, vars
<1>4. NoLocalWrite
  BY <1>1, <1>2, <1>3, Untouched
<1> QED BY <1>1, <1>2, <1>4, WaitingRound, StoredKept

-----------------------------------------------------------------------------
(* The theorem *)

\* The initial state promises nothing yet.
LEMMA PushInit == Init => Stored /\ InRound
<1> SUFFICES ASSUME Init PROVE Stored /\ InRound
  OBVIOUS
<1>1. TypeOK
  BY TypeInit
<1>2. \A row \in Rows : rep[row].ts = 0
  BY DEF Init, NoRows, Absent
<1>3. PICK b \in BOOLEAN : st = [FreshState EXCEPT !.bound = b]
  BY DEF Init
<1>4. st.rec = NoRecovery /\ st.repair = TRUE
  BY <1>3 DEF FreshState
<1>5. PushCoverage /\ RecoveryCoverage
  BY <1>4 DEF PushCoverage, PushDue, FullRoundDue, RecoveryCoverage, NoRecovery
<1>6. st.rec.push <= clock
  BY <1>1, <1>4, Cursors DEF NoRecovery
<1>7. InRound
  BY <1>1, IdleRound DEF Init
<1> QED BY <1>2, <1>5, <1>6, <1>7 DEF Stored

\* Every step keeps the invariant.
LEMMA PushStep ==
  ASSUME TypeOK, TypeOK', Stored, InRound, ~LateRollback, [Next]_vars
  PROVE  Stored' /\ InRound'
<1>1. CASE Start
  BY <1>1, HeadNext, SnapshotNext DEF Start
<1>2. CASE Exchange
  BY <1>2, NextTableNext, PullPageNext, ApplyNext, PushNext, EndTableNext DEF Exchange
<1>3. CASE Verify
  BY <1>3, VerifyFetchNext, VerifyCompareNext, VerifyApplyNext, VerifyPushNext,
     SaveProgressNext DEF Verify
<1>4. CASE Finish \/ TableMissing
  BY <1>4, FinishNext, AbandonNext
<1>5. CASE Environment
  BY <1>5, AroundNext, EditNext, OtherWriterNext, PushNext, AbandonNext DEF Environment
<1>6. CASE UNCHANGED vars
  BY <1>6, AroundNext
<1> QED BY <1>1, <1>2, <1>3, <1>4, <1>5, <1>6 DEF Next, Round

\* No local change is forgotten, whatever fails and however writers and the
\* hub's clock move: a row the hub would accept is always in the scan of the
\* next round's snapshot, and recovery never skips a row it would have to
\* push.  The device's clock may be set back, but not behind a recovery in
\* progress: with LateRollback = TRUE TLC finds a row that is lost.
THEOREM PushNeverForgets ==
  ASSUME ~LateRollback
  PROVE  Spec => []PushInv
<1>1. Init => TypeOK /\ Stored /\ InRound
  BY TypeInit, PushInit
<1>2. (TypeOK /\ Stored /\ InRound) /\ [Next]_vars => (TypeOK /\ Stored /\ InRound)'
  BY TypeStep, PushStep
<1>3. TypeOK /\ Stored /\ InRound => PushInv
  BY Parts
<1> QED BY <1>1, <1>2, <1>3, PTL DEF Spec

\* What PushInv promises of the state between rounds, as the runs check it.
THEOREM PushCovered ==
  ASSUME ~LateRollback
  PROVE  Spec => [](PushCoverage /\ RecoveryCoverage)
<1>1. PushInv => PushCoverage /\ RecoveryCoverage
  BY DEF PushInv
<1> QED BY <1>1, PushNeverForgets, PTL

-----------------------------------------------------------------------------
(* What one step may do to rows and logs *)

\* A row of the hub is as it was, or it arrived just now and is newer.
Arrives(row) ==
  \/ hub'[row] = hub[row]
  \/ hub'[row].at = hubClock /\ hub'[row].ts > hub[row].ts

\* Logs, clocks of the hub and revisions only grow.
Grows ==
  /\ \A row \in Rows : Arrives(row)
  /\ hubClock <= hubClock' /\ hubLog \subseteq hubLog' /\ log \subseteq log'
  /\ MonotoneEdits => \A row \in Rows : rep[row].ts <= rep'[row].ts

-----------------------------------------------------------------------------
(* The inductive invariants *)

\* Where the pull cursor stands when the round ends.
NextPull == IF rd.resumable THEN st.rec.pull ELSE rd.cursor

Base(row) == TableOf[row] \in BaseTables

\* The rest of the round asks for the version the hub holds now.
ToFetch(row) ==
  /\ \/ TableOf[row] \in rd.todo /\ (rd.resumable => row \notin st.rec.done)
     \/ row \in rd.unread /\ rd.pc \in Comparing \cup {"pull", "verify"}
  /\ rd.fresh \/ (TableOf[row] \notin rd.quiet /\ hub[row].at >= st.lastPull)

\* The round has that version, and is about to apply it.
Fetched(row) ==
  /\ rd.page[row] = HubVersion(row)
  /\ \/ rd.pc = "pull" /\ row \notin rd.unread
     \/ rd.pc = "apply"
     \/ rd.pc \in {"compare", "verifyApply"} /\ row = rd.row

\* A change the replica lacks is fetched, or comes after the cursor.
Taken == Started => \A row \in Rows :
  Base(row) /\ Behind(row) => hub[row].at >= NextPull \/ ToFetch(row) \/ Fetched(row)

\* A quiet table has nothing new from before the cursor.
QuietTables == rd.pc \in Preamble /\ ~rd.fresh => \A row \in Rows :
  TableOf[row] \in rd.quiet => hub[row].at < st.lastPull \/ hub[row].at >= rd.cursor

\* Recovery took over what it verified, or it arrived since.
Verified == \A row \in st.rec.done : Base(row) /\ Behind(row) => hub[row].at >= st.rec.pull

\* Recovery works on rows of a table that is not to come again, one at a time.
Recovering ==
  /\ rd.pc \in Comparing \cup {"verify"} => rd.resumable /\ \A row \in rd.unread : TableOf[row] \notin rd.todo
  /\ rd.pc \in Comparing => rd.row \notin rd.unread /\ TableOf[rd.row] \notin rd.todo

PullInv ==
  /\ BaseTables \subseteq log
  /\ rd.cursor <= hubClock /\ st.rec.pull <= hubClock /\ st.lastPull <= hubClock
  /\ rd.pc \in Preamble => rd.fresh = FullRoundDue /\ rd.resumable = ResumableRound
  /\ PullCoverage /\ Verified /\ QuietTables /\ Recovering /\ Taken

\* A row with a frozen receipt is held by the hub, written again since, or still a
\* candidate, while nothing was rejected.
FrozenHeld == Started /\ ~rd.rejected => \A row \in rd.frozen : Ahead(row) =>
  \/ rep[row].ts >= rd.pushCursor
  \/ rd.cand[row] = rep[row] /\ TableOf[row] \in rd.todo \cup {rd.table}

\* The round's table and the rows it still asks for belong together.
TableShape ==
  /\ rd.pc \in Preamble \cup {"idle", "table"} => rd.table = None
  /\ rd.pc \in Comparing \cup {"verify", "pull"} => rd.unread \subseteq RowsOf(rd.table)

FrozenInv == RowsKnown /\ PagesOld /\ TableShape /\ FrozenHeld

\* The marks of the round in progress: what its device had at its start is on the
\* hub once the exchange is over, and what the hub had is on the device.
RoundMarks ==
  /\ rd.localMark # None /\ rd.localMark \subseteq log
  /\ rd.early \/ rd.pc \notin {"schema", "exchange"} => rd.localMark \subseteq hubLog
  /\ rd.pc = "exchange" => rd.localMark \subseteq hubLog \cup rd.unsent
  /\ rd.pc = "cursor" \/ (~rd.early /\ rd.pc \in {"schema", "exchange"}) => rd.hubMark = None
  /\ rd.hubMark # None /\ rd.pc = "schema" => rd.hubMark \subseteq hubLog
  /\ rd.hubMark # None /\ rd.pc = "exchange" => rd.hubMark \subseteq log \cup rd.replay
  /\ rd.hubMark # None /\ rd.pc \notin {"schema", "exchange"} => rd.hubMark \subseteq log

SchemaInv ==
  /\ st.seenHub # None => st.seenHub \subseteq log
  /\ st.seenLocal # None => st.seenLocal \subseteq hubLog
  /\ rd.pc # "idle" => RoundMarks

-----------------------------------------------------------------------------
(* Steps *)

\* The types that arithmetic needs.
LEMMA Times ==
  ASSUME TypeOK
  PROVE  /\ hubClock \in Nat /\ st.lastPull \in Nat /\ st.rec.pull \in Nat /\ rd.cursor \in Nat
         /\ \A row \in Rows : hub[row].at \in Nat /\ hub[row].ts \in Nat /\ rep[row].ts \in Nat
<1>1. hubClock \in Nat /\ st.lastPull \in Nat /\ st.rec.pull \in Nat /\ rd.cursor \in Nat
  BY ClockAssumption DEF TypeOK, Time, States, Rounds
<1>2. \A row \in Rows : hub[row].at \in Nat
  BY ClockAssumption DEF TypeOK, Time
<1> QED BY <1>1, <1>2, Numbers

\* A commit of one row.
LEMMA CommitArrives ==
  ASSUME TypeOK, NEW row \in Rows, NEW new \in Version, HubCommit(row, new)
  PROVE  \A r \in Rows : Arrives(r)
<1>1. hub \in [Rows -> [ts : Time, val : Vals \cup {None}, at : Time]]
  BY DEF TypeOK
<1>2. CASE HubAccepts(row, new)
  <2>1. hub' = [hub EXCEPT ![row] = [ts |-> new.ts, val |-> new.val, at |-> hubClock]]
    BY <1>2 DEF HubCommit
  <2> QED BY <1>1, <1>2, <2>1 DEF Arrives, HubAccepts
<1>3. CASE ~HubAccepts(row, new)
  BY <1>3 DEF HubCommit, Arrives
<1> QED BY <1>2, <1>3

\* An upsert takes no row back.
LEMMA UpsertGrows ==
  ASSUME NEW x \in Version, NEW y \in Version
  PROVE  /\ x.ts <= Upsert(x, y).ts /\ y.ts <= Upsert(x, y).ts
         /\ Upsert(x, y) \in {x, y}
BY VersionFields DEF Upsert

LEMMA NothingArrives ==
  ASSUME TypeOK, hub' = hub, hubClock' = hubClock, hubLog' = hubLog, log' = log, rep' = rep
  PROVE  Grows
BY Times DEF Grows, Arrives

\* Every step only adds.
LEMMA StepGrows ==
  ASSUME TypeOK, TypeOK', [Next]_vars
  PROVE  Grows
<1>t. \A row \in Rows : rep[row].ts \in Nat /\ hub[row].ts \in Nat /\ hub[row].at \in Nat /\ rep[row] \in Version
  BY Numbers, Times
<1>c. hubClock \in Nat
  BY Times
<1>1. CASE Start
  <2>1. hub' = hub /\ hubClock' = hubClock /\ rep' = rep /\ hubLog \subseteq hubLog' /\ log \subseteq log'
    BY <1>1 DEF Start, Begin, ReadCursor, SchemaPull, SchemaPush, Replay, SchemaDone, Snapshot
  <2> QED BY <1>t, <1>c, <2>1 DEF Grows, Arrives
<1>2. CASE Apply
  <2>1. PICK row \in Rows : rep' = [rep EXCEPT ![row] = Upsert(@, rd.page[row])]
    BY <1>2 DEF Apply
  <2>2. rd.page[row] \in Version /\ rep \in [Rows -> Version]
    BY Numbers DEF TypeOK
  <2>3. \A r \in Rows : rep[r].ts <= rep'[r].ts
    BY <1>t, <2>1, <2>2, UpsertGrows
  <2> QED BY <1>2, <1>t, <1>c, <2>3 DEF Apply, Grows, Arrives
<1>3. ASSUME NEW lost \in BOOLEAN, Push(lost) PROVE Grows
  <2>1. PICK row \in RowsOf(rd.table) : HubCommit(row, rd.cand[row])
    BY <1>3 DEF Push
  <2>2. row \in Rows /\ rd.cand[row] \in Version
    BY Numbers DEF RowsOf
  <2>3. \A r \in Rows : Arrives(r)
    BY <2>1, <2>2, CommitArrives
  <2> QED BY <1>3, <1>t, <1>c, <2>3 DEF Push, Grows
<1>4. CASE NextTable \/ PullPage \/ EndTable \/ VerifyFetch \/ VerifyCompare \/ SaveProgress \/ Finish \/ TableMissing \/ Fail
  BY <1>4, NothingArrives DEF NextTable, PullPage, EndTable, VerifyFetch, VerifyCompare, SaveProgress,
     Finish, TableMissing, Fail
<1>5. CASE VerifyApply
  <2>1. rep' = [rep EXCEPT ![rd.row] = Upsert(@, rd.page[rd.row])] /\ rd.row \in Rows
    BY <1>5 DEF VerifyApply, TypeOK, Comparing
  <2>2. rd.page[rd.row] \in Version /\ rep \in [Rows -> Version]
    BY <2>1, Numbers DEF TypeOK
  <2>3. \A r \in Rows : rep[r].ts <= rep'[r].ts
    BY <1>t, <2>1, <2>2, UpsertGrows
  <2> QED BY <1>5, <1>t, <1>c, <2>3 DEF VerifyApply, Grows, Arrives
<1>6. CASE VerifyPush
  <2>1. HubCommit(rd.row, rd.ahead) /\ rd.row \in Rows /\ rd.ahead \in Version
    BY <1>6 DEF VerifyPush, TypeOK, Comparing, Rounds
  <2>2. \A r \in Rows : Arrives(r)
    BY <2>1, CommitArrives
  <2> QED BY <1>6, <1>t, <1>c, <2>2 DEF VerifyPush, Grows
<1>7. ASSUME NEW row \in Rows, NEW v \in Vals, NEW ts \in Time \ {0}, Edit(row, ts, v) \/ OtherWriter(row, v)
      PROVE  Grows
  <2>1. \E n \in Time \ {0} : rep' = [rep EXCEPT ![row] = [ts |-> n, val |-> v]] /\ (MonotoneEdits => n > rep[row].ts)
    BY <1>7 DEF Edit, OtherWriter, TypeOK
  <2>2. MonotoneEdits => \A r \in Rows : rep[r].ts <= rep'[r].ts
    BY <1>t, <2>1, ClockAssumption DEF TypeOK, Time
  <2> QED BY <1>7, <1>t, <1>c, <2>2 DEF Edit, OtherWriter, Grows, Arrives
<1>8. ASSUME NEW row \in Rows, NEW v \in Vals, NEW ts \in Time \ {0}, HubWrite(row, ts, v) PROVE Grows
  <2>1. [ts |-> ts, val |-> v] \in Version
    BY DEF Version
  <2>2. \A r \in Rows : Arrives(r)
    BY <1>8, <2>1, CommitArrives DEF HubWrite
  <2> QED BY <1>8, <1>t, <1>c, <2>2 DEF HubWrite, Grows
<1>9. CASE HubTick \/ (\E now \in Time \ {0} : SetClock(now)) \/ \E t \in Tables : RemoteSchema(t) \/ CreateTable(t)
  BY <1>9, <1>t, <1>c DEF HubTick, SetClock, RemoteSchema, CreateTable, Grows, Arrives
<1>10. CASE UNCHANGED vars
  BY <1>10, NothingArrives DEF vars
<1>11. CASE Round
  BY <1>1, <1>2, <1>3, <1>4, <1>5, <1>6, <1>11 DEF Round, Exchange, Verify
<1>12. CASE Environment
  <2>1. CASE \E row \in Rows, v \in Vals :
               OtherWriter(row, v) \/ \E ts \in Time \ {0} : Edit(row, ts, v) \/ HubWrite(row, ts, v)
    <3>1. PICK row \in Rows, v \in Vals :
            OtherWriter(row, v) \/ \E ts \in Time \ {0} : Edit(row, ts, v) \/ HubWrite(row, ts, v)
      BY <2>1
    <3>2. 1 \in Time \ {0}
      BY ClockAssumption DEF Time
    <3> QED BY <1>7, <1>8, <3>1, <3>2
  <2> QED BY <1>3, <1>4, <1>9, <1>12, <2>1 DEF Environment
<1> QED BY <1>10, <1>11, <1>12 DEF Next

-----------------------------------------------------------------------------
(* The schema marks *)

LEMMA SchemaStarts == Init => SchemaInv
<1> SUFFICES ASSUME Init PROVE SchemaInv
  OBVIOUS
<1>1. st.seenHub = None /\ st.seenLocal = None /\ rd.pc = "idle"
  BY DEF Init, FreshState, Idle
<1> QED BY <1>1 DEF SchemaInv

\* A step that leaves the marks and the phase alone, or moves on to a phase after the
\* exchange, keeps them: logs only grow.
LEMMA MarksStay ==
  ASSUME TypeOK, TypeOK', SchemaInv, Grows,
         st'.seenHub = st.seenHub, st'.seenLocal = st.seenLocal,
         rd'.localMark = rd.localMark, rd'.hubMark = rd.hubMark, rd'.early = rd.early,
         \/ rd'.pc = rd.pc /\ rd'.unsent = rd.unsent /\ rd'.replay = rd.replay
         \/ rd.pc \notin {"idle", "cursor", "schema", "exchange"} /\ rd'.pc \notin {"idle", "cursor", "schema", "exchange"}
  PROVE  SchemaInv'
<1>1. hubLog \subseteq hubLog' /\ log \subseteq log'
  BY DEF Grows
<1>2. CASE rd'.pc = rd.pc /\ rd'.unsent = rd.unsent /\ rd'.replay = rd.replay
  BY <1>1, <1>2 DEF SchemaInv, RoundMarks
<1>3. CASE rd.pc \notin {"idle", "cursor", "schema", "exchange"} /\ rd'.pc \notin {"idle", "cursor", "schema", "exchange"}
  BY <1>1, <1>3 DEF SchemaInv, RoundMarks
<1> QED BY <1>2, <1>3

\* The head of a round is where the marks are read and made good.
LEMMA SchemaHead ==
  ASSUME TypeOK, TypeOK', SchemaInv,
         Begin \/ ReadCursor \/ SchemaPull \/ SchemaPush \/ Replay \/ SchemaDone
  PROVE  SchemaInv'
<1>0. hubLog \in SUBSET Tables /\ log \in SUBSET Tables /\ hubLog # None /\ log # None
  BY TableAssumption DEF TypeOK
<1>1. CASE Begin
  <2>1. /\ st' = st /\ log' = log /\ hubLog' = hubLog /\ rd'.localMark = log /\ rd'.hubMark = None
        /\ rd'.early = EarlyCursor /\ rd'.pc = IF EarlyCursor THEN "cursor" ELSE "schema"
    BY <1>1 DEF Begin, Idle
  <2>2. EarlyCursor => log \subseteq hubLog
    BY <1>0 DEF EarlyCursor, SchemaInv
  <2> QED BY <1>0, <2>1, <2>2 DEF SchemaInv, RoundMarks
<1>2. CASE ReadCursor
  <2>1. PICK c : rd' = [rd EXCEPT !.cursor = c, !.quiet = Quiet, !.hubMark = SchemaMark,
                              !.pc = IF rd.early /\ hubLog # st.seenHub
                                     THEN "schema" ELSE "snapshot"]
    BY <1>2 DEF ReadCursor
  <2>2. /\ st' = st /\ log' = log /\ hubLog' = hubLog /\ rd'.localMark = rd.localMark /\ rd'.early = rd.early
        /\ rd'.hubMark = IF rd.early THEN hubLog ELSE None
        /\ rd'.pc = IF rd.early /\ hubLog # st.seenHub THEN "schema" ELSE "snapshot"
        /\ rd.pc = "cursor"
    BY ZenonT(40), <1>2, <2>1 DEF ReadCursor, TypeOK, Rounds, SchemaMark
  <2> QED BY <1>0, <2>2 DEF SchemaInv, RoundMarks
<1>3. CASE SchemaPull
  <2>1. /\ st' = st /\ log' = log /\ hubLog' = hubLog /\ rd'.localMark = rd.localMark /\ rd'.early = rd.early
        /\ rd'.hubMark = rd.hubMark /\ rd'.unsent = log \ hubLog /\ rd'.replay = hubLog \ log
        /\ rd'.pc = "exchange" /\ rd.pc = "schema"
    BY <1>3 DEF SchemaPull, TypeOK, Rounds
  <2> QED BY <1>0, <2>1 DEF SchemaInv, RoundMarks
<1>4. CASE SchemaPush
  <2>1. PICK t \in rd.unsent : hubLog' = hubLog \cup {t} /\ rd' = [rd EXCEPT !.unsent = @ \ {t}]
    BY <1>4 DEF SchemaPush
  <2>2. /\ st' = st /\ log' = log /\ rd'.localMark = rd.localMark /\ rd'.early = rd.early
        /\ rd'.hubMark = rd.hubMark /\ rd'.unsent = rd.unsent \ {t} /\ rd'.replay = rd.replay
        /\ rd'.pc = rd.pc /\ rd.pc = "exchange"
    BY <1>4, <2>1 DEF SchemaPush, TypeOK, Rounds
  <2> QED BY <1>0, <2>1, <2>2 DEF SchemaInv, RoundMarks
<1>5. CASE Replay
  <2>1. PICK t \in rd.replay : log' = log \cup {t} /\ rd' = [rd EXCEPT !.replay = @ \ {t}]
    BY <1>5 DEF Replay
  <2>2. /\ st' = st /\ hubLog' = hubLog /\ rd'.localMark = rd.localMark /\ rd'.early = rd.early
        /\ rd'.hubMark = rd.hubMark /\ rd'.unsent = rd.unsent /\ rd'.replay = rd.replay \ {t}
        /\ rd'.pc = rd.pc /\ rd.pc = "exchange"
    BY <1>5, <2>1 DEF Replay, TypeOK, Rounds
  <2> QED BY <1>0, <2>1, <2>2 DEF SchemaInv, RoundMarks
<1>6. CASE SchemaDone
  <2>1. /\ st' = st /\ log' = log /\ hubLog' = hubLog /\ rd'.localMark = rd.localMark /\ rd'.early = rd.early
        /\ rd'.hubMark = rd.hubMark /\ rd.unsent = {} /\ rd.replay = {}
        /\ rd'.pc = IF rd.early THEN "snapshot" ELSE "cursor"
        /\ rd.pc = "exchange"
    BY <1>6 DEF SchemaDone, TypeOK, Rounds
  <2> QED BY <1>0, <2>1 DEF SchemaInv, RoundMarks
<1> QED BY <1>1, <1>2, <1>3, <1>4, <1>5, <1>6

\* A round that ended holds no mark.
LEMMA SchemaIdle ==
  ASSUME TypeOK, SchemaInv, Grows, rd' = Idle,
         \/ st'.seenHub = st.seenHub /\ st'.seenLocal = st.seenLocal
         \/ st'.seenHub = rd.hubMark /\ st'.seenLocal = rd.localMark /\ rd.pc = "table"
  PROVE  SchemaInv'
<1>1. rd'.pc = "idle"
  BY DEF Idle
<1> QED BY <1>1 DEF SchemaInv, RoundMarks, Grows

LEMMA SchemaStep ==
  ASSUME TypeOK, TypeOK', SchemaInv, [Next]_vars
  PROVE  SchemaInv'
<1>g. Grows
  BY StepGrows
<1>1. CASE Start
  <2>1. CASE Snapshot
    <3>1. /\ st'.seenHub = st.seenHub /\ st'.seenLocal = st.seenLocal
          /\ rd'.localMark = rd.localMark /\ rd'.hubMark = rd.hubMark /\ rd'.early = rd.early
          /\ rd'.pc = "table" /\ rd.pc = "snapshot"
      BY <2>1 DEF Snapshot, TypeOK, Rounds, States
    <3> QED BY <1>g, <3>1, MarksStay
  <2> QED BY <1>1, <2>1, SchemaHead DEF Start
<1>2. CASE NextTable \/ PullPage \/ Apply \/ EndTable
  <2>1. /\ st' = st /\ rd'.localMark = rd.localMark /\ rd'.hubMark = rd.hubMark /\ rd'.early = rd.early
        /\ rd.pc \in {"table", "pull", "apply", "push"} /\ rd'.pc \in {"table", "pull", "apply", "push", "verify"}
    <3>1. CASE NextTable
      <4>1. PICK t \in rd.todo :
              rd' = [rd EXCEPT !.table = t, !.todo = @ \ {t}, !.unread = Unread(t),
                               !.pc = IF Unread(t) = {} THEN "push"
                                      ELSE IF rd.resumable THEN "verify" ELSE "pull"]
        BY <3>1 DEF NextTable
      <4> QED BY <3>1, <4>1 DEF NextTable, TypeOK, Rounds
    <3>2. CASE PullPage
      BY ZenonT(40), <3>2 DEF PullPage, TypeOK, Rounds
    <3>3. CASE Apply
      BY ZenonT(40), <3>3 DEF Apply, TypeOK, Rounds
    <3>4. CASE EndTable
      BY ZenonT(40), <3>4 DEF EndTable, TypeOK, Rounds
    <3> QED BY <1>2, <3>1, <3>2, <3>3, <3>4
  <2> QED BY <1>g, <2>1, MarksStay
<1>3. CASE VerifyFetch \/ VerifyCompare \/ VerifyApply
  <2>1. /\ st' = st /\ rd'.localMark = rd.localMark /\ rd'.hubMark = rd.hubMark /\ rd'.early = rd.early
        /\ rd.pc \in Comparing \cup {"verify"} /\ rd'.pc \in Comparing
    <3>1. CASE VerifyFetch
      BY ZenonT(40), <3>1 DEF VerifyFetch, TypeOK, Rounds, Comparing
    <3>2. CASE VerifyCompare
      BY ZenonT(40), <3>2 DEF VerifyCompare, TypeOK, Rounds, Comparing
    <3>3. CASE VerifyApply
      BY ZenonT(40), <3>3 DEF VerifyApply, TypeOK, Rounds, Comparing
    <3> QED BY <1>3, <3>1, <3>2, <3>3
  <2> QED BY <1>g, <2>1, MarksStay DEF Comparing
<1>4. CASE VerifyPush \/ SaveProgress
  <2>1. /\ st'.seenHub = st.seenHub /\ st'.seenLocal = st.seenLocal
        /\ rd'.localMark = rd.localMark /\ rd'.hubMark = rd.hubMark /\ rd'.early = rd.early
        /\ rd.pc \in Comparing /\ rd'.pc \in Comparing \cup {"push", "verify"}
    <3>1. CASE VerifyPush
      BY <3>1 DEF VerifyPush, TypeOK, Rounds, Comparing
    <3>2. CASE SaveProgress
      <4>1. st'.seenHub = st.seenHub /\ st'.seenLocal = st.seenLocal
        BY <3>2 DEF SaveProgress, TypeOK, States
      <4>2. /\ rd'.localMark = rd.localMark /\ rd'.hubMark = rd.hubMark /\ rd'.early = rd.early
            /\ rd.pc = "verified" /\ rd'.pc \in {"push", "verify"}
        BY <3>2 DEF SaveProgress, TypeOK, Rounds
      <4> QED BY <4>1, <4>2 DEF Comparing
    <3> QED BY <1>4, <3>1, <3>2
  <2> QED BY <1>g, <2>1, MarksStay DEF Comparing
<1>5. ASSUME NEW lost \in BOOLEAN, Push(lost) PROVE SchemaInv'
  <2>1. /\ st' = st /\ rd'.localMark = rd.localMark /\ rd'.hubMark = rd.hubMark /\ rd'.early = rd.early
        /\ rd.pc = "push" /\ rd'.pc = "push"
    BY <1>5 DEF Push, TypeOK, Rounds
  <2> QED BY <1>g, <2>1, MarksStay
<1>6. CASE Finish
  <2>1. /\ rd' = Idle /\ st'.seenHub = rd.hubMark /\ st'.seenLocal = rd.localMark /\ rd.pc = "table"
    BY <1>6 DEF Finish, Checkpoint, TypeOK, States
  <2> QED BY <1>g, <2>1, SchemaIdle
<1>7. CASE TableMissing \/ Fail
  BY <1>7, <1>g, SchemaIdle DEF TableMissing, Fail
<1>8. ASSUME NEW row \in Rows, NEW v \in Vals, NEW ts \in Time \ {0}, Edit(row, ts, v) PROVE SchemaInv'
  <2>1. /\ st' = st /\ rd'.localMark = rd.localMark /\ rd'.hubMark = rd.hubMark /\ rd'.early = rd.early
        /\ rd'.pc = rd.pc /\ rd'.unsent = rd.unsent /\ rd'.replay = rd.replay
    BY <1>8 DEF Edit, TypeOK, Rounds
  <2> QED BY <1>g, <2>1, MarksStay
<1>9. ASSUME st' = st, rd' = rd PROVE SchemaInv'
  BY <1>9, <1>g, MarksStay
<1>10. CASE UNCHANGED vars
  BY <1>9, <1>10 DEF vars
<1>11. CASE Environment
  BY <1>5, <1>7, <1>8, <1>9, <1>11 DEF Environment, HubTick, SetClock, RemoteSchema, CreateTable, OtherWriter, HubWrite
<1> QED BY <1>1, <1>2, <1>3, <1>4, <1>5, <1>6, <1>7, <1>10, <1>11 DEF Next, Round, Exchange, Verify

\* A round skips the schema exchange only when both logs hold the same DDL, whatever
\* was created on either side since the marks were taken.
THEOREM QuietSchemaAgrees == Spec => []QuietSchema
<1>1. TypeOK /\ SchemaInv => QuietSchema
  <2> SUFFICES ASSUME TypeOK, SchemaInv, st.seenHub = hubLog, st.seenLocal = log PROVE log = hubLog
    BY DEF QuietSchema
  <2>1. hubLog # None /\ log # None
    BY TableAssumption DEF TypeOK
  <2> QED BY <2>1 DEF SchemaInv
<1>2. Init => TypeOK /\ SchemaInv
  BY TypeInit, SchemaStarts
<1>3. (TypeOK /\ SchemaInv) /\ [Next]_vars => (TypeOK /\ SchemaInv)'
  BY TypeStep, SchemaStep
<1> QED BY <1>1, <1>2, <1>3, PTL DEF Spec

-----------------------------------------------------------------------------
(* The pull cursor *)

\* A row the replica lacks after a step it lacked before, in the same version, or that
\* version arrived just now.
LEMMA BehindBefore ==
  ASSUME TypeOK, TypeOK', MonotoneEdits, Grows, NEW row \in Rows, Behind(row)'
  PROVE  (hub'[row] = hub[row] /\ Behind(row)) \/ hub'[row].at = hubClock
<1>1. rep[row].ts \in Nat /\ hub[row].ts \in Nat
  BY Numbers
<1>2. rep'[row].ts \in Nat
  BY VersionFields DEF TypeOK
<1> QED BY <1>1, <1>2 DEF Grows, Arrives, Behind

\* What the stored state promises stays promised while no round ends.
LEMMA PullStoredKept ==
  ASSUME TypeOK, TypeOK', MonotoneEdits, Grows, PullInv,
         st'.lastPull = st.lastPull, st'.bound = st.bound, st.repair => st'.repair
  PROVE  /\ PullCoverage' /\ BaseTables \subseteq log' /\ st'.lastPull <= hubClock'
         /\ st'.rec = st.rec => Verified' /\ st'.rec.pull <= hubClock'
<1>1. /\ hubClock \in Nat /\ st.lastPull \in Nat /\ st.rec.pull \in Nat
      /\ st.lastPull <= hubClock /\ st.rec.pull <= hubClock /\ hubClock <= hubClock'
      /\ \A row \in Rows : hub[row].at \in Nat
  BY Times DEF PullInv, Grows
<1>2. hubClock' \in Nat
  BY ClockAssumption DEF TypeOK, Time
<1>3. PullCoverage'
  <2> SUFFICES ASSUME NEW row \in Rows, Base(row), Behind(row)' PROVE PullDue(row)'
    BY DEF PullCoverage, Base
  <2>1. CASE hub'[row].at = hubClock
    BY <1>1, <2>1 DEF PullDue
  <2>2. CASE hub'[row] = hub[row] /\ Behind(row)
    BY <2>2 DEF PullInv, PullCoverage, PullDue, Base, FullRoundDue
  <2> QED BY <2>1, <2>2, BehindBefore
<1>4. ASSUME st'.rec = st.rec PROVE Verified'
  <2> SUFFICES ASSUME NEW row \in st.rec.done, Base(row), Behind(row)' PROVE hub'[row].at >= st.rec.pull
    BY <1>4 DEF Verified, Base
  <2>1. row \in Rows
    BY DEF TypeOK, States
  <2>2. CASE hub'[row].at = hubClock
    BY <1>1, <2>2
  <2>3. CASE hub'[row] = hub[row] /\ Behind(row)
    BY <2>3 DEF PullInv, Verified
  <2> QED BY <2>1, <2>2, <2>3, BehindBefore
<1> QED BY <1>1, <1>2, <1>3, <1>4 DEF PullInv, Grows

\* A change already accounted for stays so when the rest of the round still asks for
\* it, or still has it.
LEMMA TakenStays ==
  ASSUME TypeOK, TypeOK', MonotoneEdits, Grows, PullInv, Started, NextPull' = NextPull,
         \A row \in Rows :
           hub'[row] = hub[row] /\ Base(row) /\ Behind(row) /\ Behind(row)' /\ (ToFetch(row) \/ Fetched(row))
             => hub'[row].at >= NextPull \/ ToFetch(row)' \/ Fetched(row)'
  PROVE  Taken'
<1> SUFFICES ASSUME NEW row \in Rows, Base(row), Behind(row)'
             PROVE  hub'[row].at >= NextPull \/ ToFetch(row)' \/ Fetched(row)'
  BY DEF Taken, Base
<1>1. /\ hubClock \in Nat /\ NextPull \in Nat /\ NextPull <= hubClock
  BY Times DEF PullInv, NextPull
<1>2. CASE hub'[row].at = hubClock
  BY <1>1, <1>2
<1>3. CASE hub'[row] = hub[row] /\ Behind(row)
  BY <1>3 DEF PullInv, Taken
<1> QED BY <1>2, <1>3, BehindBefore

\* A step of the round after its snapshot.
LEMMA PullRound ==
  ASSUME TypeOK, TypeOK', MonotoneEdits, Grows, PullInv, st' = st, rd'.cursor = rd.cursor,
         rd'.pc \notin Preamble, Recovering', Taken'
  PROVE  PullInv'
<1>1. rd.cursor \in Nat /\ hubClock \in Nat
  BY Times
<1>2. hubClock' \in Nat
  BY ClockAssumption DEF TypeOK, Time
<1> QED BY <1>1, <1>2, PullStoredKept DEF PullInv, QuietTables, Grows

\* The round is over, or given up.
LEMMA PullGivenUp ==
  ASSUME TypeOK, TypeOK', MonotoneEdits, Grows, PullInv, st' = st, rd' = Idle
  PROVE  PullInv'
<1>1. rd'.pc = "idle" /\ rd'.cursor = 0
  BY DEF Idle
<1>2. hubClock' \in Nat
  BY ClockAssumption DEF TypeOK, Time
<1> QED BY <1>1, <1>2, PullStoredKept DEF PullInv, QuietTables, Recovering, Comparing, Taken, Started, Preamble

\* The environment moves while the round waits.
LEMMA PullWaits ==
  ASSUME TypeOK, TypeOK', MonotoneEdits, Grows, PullInv, st' = st,
         \/ rd' = rd
         \/ \E row : rd' = [rd EXCEPT !.frozen = @ \ {row}]
  PROVE  PullInv'
<1>1. /\ rd'.pc = rd.pc /\ rd'.cursor = rd.cursor /\ rd'.fresh = rd.fresh /\ rd'.resumable = rd.resumable
      /\ rd'.todo = rd.todo /\ rd'.unread = rd.unread /\ rd'.quiet = rd.quiet /\ rd'.page = rd.page
      /\ rd'.row = rd.row
  BY DEF TypeOK, Rounds
<1>2. /\ rd.cursor \in Nat /\ hubClock \in Nat /\ rd.cursor <= hubClock /\ hubClock <= hubClock'
      /\ \A row \in Rows : hub[row].at \in Nat
  BY Times DEF PullInv, Grows
<1>3. hubClock' \in Nat
  BY ClockAssumption DEF TypeOK, Time
<1>4. QuietTables'
  <2> SUFFICES ASSUME rd.pc \in Preamble, ~rd.fresh, NEW row \in Rows, TableOf[row] \in rd.quiet
               PROVE  hub'[row].at < st.lastPull \/ hub'[row].at >= rd.cursor
    BY <1>1 DEF QuietTables
  <2> QED BY <1>2 DEF PullInv, QuietTables, Grows, Arrives
<1>5. Taken'
  <2>1. CASE Started
    <3>1. NextPull' = NextPull
      BY <1>1 DEF NextPull
    <3>2. ASSUME NEW row \in Rows, hub'[row] = hub[row]
          PROVE  (ToFetch(row) => ToFetch(row)') /\ (Fetched(row) => Fetched(row)')
      BY <1>1, <3>2 DEF ToFetch, Fetched, HubVersion
    <3> QED BY <2>1, <3>1, <3>2, TakenStays
  <2>2. CASE ~Started
    BY <1>1, <2>2 DEF Taken, Started
  <2> QED BY <2>1, <2>2
<1>6. rd'.pc \in Preamble => rd'.fresh = FullRoundDue' /\ rd'.resumable = ResumableRound'
  BY <1>1 DEF PullInv, FullRoundDue, ResumableRound
<1>7. Recovering'
  BY <1>1 DEF PullInv, Recovering
<1> QED BY <1>1, <1>2, <1>3, <1>4, <1>5, <1>6, <1>7, PullStoredKept DEF PullInv

LEMMA PullStarts == Init => PullInv
<1> SUFFICES ASSUME Init PROVE PullInv
  OBVIOUS
<1>1. PICK b \in BOOLEAN : st = [FreshState EXCEPT !.bound = b]
  BY DEF Init
<1>2. st.lastPull = 0 /\ st.rec.pull = 0 /\ st.rec.done = {} /\ st.repair
  BY <1>1 DEF FreshState, NoRecovery
<1>3. hubClock = 1 /\ log = BaseTables /\ rd.pc = "idle" /\ rd.cursor = 0
  BY DEF Init, Idle
<1> QED BY <1>2, <1>3 DEF PullInv, PullCoverage, PullDue, FullRoundDue, Verified, QuietTables, Recovering, Comparing, Taken, Started, Preamble

\* Up to the snapshot only the cursor and the quiet tables are read.
LEMMA PullHead ==
  ASSUME TypeOK, TypeOK', MonotoneEdits, Grows, PullInv,
         Begin \/ ReadCursor \/ SchemaPull \/ SchemaPush \/ Replay \/ SchemaDone
  PROVE  PullInv'
<1>1. /\ st' = st /\ hub' = hub /\ hubClock' = hubClock
  BY DEF Begin, ReadCursor, SchemaPull, SchemaPush, Replay, SchemaDone
<1>2. hubClock \in Nat /\ \A row \in Rows : hub[row].at \in Nat
  BY Times
<1>3. /\ rd'.pc \in Preamble /\ rd'.cursor <= hubClock /\ QuietTables'
      /\ rd'.fresh = FullRoundDue /\ rd'.resumable = ResumableRound
  <2>1. CASE Begin
    <3>1. /\ rd'.pc \in {"cursor", "schema"} /\ rd'.cursor = 0 /\ rd'.quiet = {}
          /\ rd'.fresh = FullRoundDue /\ rd'.resumable = ResumableRound
      BY <2>1 DEF Begin, Idle
    <3> QED BY <1>2, <3>1 DEF QuietTables, Preamble
  <2>2. CASE ReadCursor
    <3>1. PICK c \in {0} \cup {hub[row].at : row \in {row \in Rows : TableOf[row] \in log}} :
            rd' = [rd EXCEPT !.cursor = c, !.quiet = Quiet, !.hubMark = SchemaMark,
                             !.pc = IF rd.early /\ hubLog # st.seenHub THEN "schema" ELSE "snapshot"]
      BY <2>2 DEF ReadCursor
    <3>2. /\ rd'.pc \in {"schema", "snapshot"} /\ rd'.cursor = c /\ rd'.quiet = Quiet
          /\ rd'.fresh = rd.fresh /\ rd'.resumable = rd.resumable /\ rd.pc = "cursor"
      BY <2>2, <3>1 DEF ReadCursor, TypeOK, Rounds
    <3>3. c <= hubClock
      BY <1>2, <3>1 DEF TypeOK
    <3>4. \A row \in Rows : TableOf[row] \in Quiet => hub[row].at < st.lastPull
      BY DEF Quiet, RowsOf
    <3> QED BY <1>1, <3>2, <3>3, <3>4 DEF QuietTables, Preamble, PullInv
  <2>3. CASE SchemaPull \/ SchemaPush \/ Replay \/ SchemaDone
    <3>1. /\ rd'.pc \in Preamble /\ rd.pc \in Preamble /\ rd'.cursor = rd.cursor /\ rd'.quiet = rd.quiet
          /\ rd'.fresh = rd.fresh /\ rd'.resumable = rd.resumable
      <4>1. CASE SchemaPull \/ SchemaPush
        BY ZenonT(40), <4>1 DEF SchemaPull, SchemaPush, Preamble, TypeOK, Rounds
      <4>2. CASE Replay \/ SchemaDone
        BY <4>2 DEF Replay, SchemaDone, Preamble, TypeOK, Rounds
      <4> QED BY <2>3, <4>1, <4>2
    <3> QED BY <1>1, <3>1 DEF QuietTables, PullInv
  <2> QED BY <2>1, <2>2, <2>3
<1>4. Taken' /\ Recovering'
  BY <1>3 DEF Taken, Started, Recovering, Comparing, Preamble
<1> QED BY <1>1, <1>3, <1>4, PullStoredKept DEF PullInv, FullRoundDue, ResumableRound

\* From its snapshot on the round has every row before it, but those of quiet tables
\* and those a recovery has verified.
LEMMA PullSnapshot ==
  ASSUME TypeOK, TypeOK', MonotoneEdits, Grows, PullInv, Snapshot
  PROVE  PullInv'
<1>1. /\ rd.pc = "snapshot" /\ hub' = hub /\ hubClock' = hubClock /\ rep' = rep /\ log' = log
  BY DEF Snapshot
<1>2. /\ st'.rec = Recovery /\ st'.repair = (st.repair \/ RolledBack)
      /\ st'.lastPull = st.lastPull /\ st'.bound = st.bound
  BY DEF Snapshot, TypeOK, States
<1>3. /\ rd'.pc = "table" /\ rd'.todo = log /\ rd'.cursor = rd.cursor /\ rd'.fresh = rd.fresh
      /\ rd'.resumable = rd.resumable /\ rd'.quiet = rd.quiet
  BY DEF Snapshot, TypeOK, Rounds
<1>4. rd.fresh = FullRoundDue /\ rd.resumable = ResumableRound
  BY <1>1 DEF PullInv, Preamble
<1>5. \/ Recovery = st.rec
      \/ Recovery.pull = rd.cursor /\ Recovery.done = {} /\ rd.resumable
  BY DEF Recovery
<1>6. Recovery.pull <= hubClock /\ \A row \in Recovery.done : Base(row) /\ Behind(row) => hub[row].at >= Recovery.pull
  BY <1>5 DEF PullInv, Verified
<1>7. Verified' /\ st'.rec.pull <= hubClock'
  <2>1. \A row \in Rows : Behind(row)' <=> Behind(row)
    BY <1>1 DEF Behind
  <2>2. Recovery.done \subseteq Rows
    BY <1>5 DEF TypeOK, States
  <2> QED BY <1>1, <1>2, <1>6, <2>1, <2>2 DEF Verified, Base
<1>8. Taken'
  <2> SUFFICES ASSUME NEW row \in Rows, Base(row), Behind(row)
               PROVE  hub[row].at >= NextPull' \/ ToFetch(row)'
    BY <1>1 DEF Taken, Base, Behind
  <2>1. TableOf[row] \in log
    BY DEF Base, PullInv
  <2>2. CASE rd.resumable
    <3>1. rd.fresh
      BY <1>4, <2>2 DEF FullRoundDue, ResumableRound
    <3>2. CASE row \in Recovery.done
      BY <1>2, <1>3, <1>6, <2>2, <3>2 DEF NextPull
    <3>3. CASE row \notin Recovery.done
      BY <1>2, <1>3, <2>1, <2>2, <3>1, <3>3 DEF ToFetch
    <3> QED BY <3>2, <3>3
  <2>3. CASE ~rd.resumable /\ rd.fresh
    BY <1>3, <2>1, <2>3 DEF ToFetch
  <2>4. CASE ~rd.resumable /\ ~rd.fresh
    <3>1. hub[row].at >= st.lastPull
      BY <1>4, <2>4 DEF PullInv, PullCoverage, PullDue, Base
    <3>2. CASE TableOf[row] \in rd.quiet
      <4>1. hub[row].at < st.lastPull \/ hub[row].at >= rd.cursor
        BY <1>1, <2>4, <3>2 DEF PullInv, QuietTables, Preamble
      <4>2. hub[row].at \in Nat /\ st.lastPull \in Nat
        BY Times
      <4> QED BY <1>3, <2>4, <3>1, <4>1, <4>2 DEF NextPull
    <3>3. CASE TableOf[row] \notin rd.quiet
      BY <1>1, <1>2, <1>3, <2>1, <2>4, <3>1, <3>3 DEF ToFetch
    <3> QED BY <3>2, <3>3
  <2> QED BY <2>2, <2>3, <2>4
<1>9. PullCoverage' /\ BaseTables \subseteq log' /\ st'.lastPull <= hubClock'
  BY <1>2, PullStoredKept
<1> QED BY <1>1, <1>3, <1>7, <1>8, <1>9 DEF PullInv, QuietTables, Recovering, Comparing, Preamble

\* A table is opened: its rows are asked for, unless it is quiet or verified.
LEMMA PullNextTable ==
  ASSUME TypeOK, TypeOK', MonotoneEdits, Grows, PullInv, NextTable
  PROVE  PullInv'
<1>1. st' = st /\ hub' = hub /\ rep' = rep /\ rd.pc = "table"
  BY DEF NextTable
<1>2. PICK t \in rd.todo :
        rd' = [rd EXCEPT !.table = t, !.todo = @ \ {t}, !.unread = Unread(t),
                         !.pc = IF Unread(t) = {} THEN "push"
                                ELSE IF rd.resumable THEN "verify" ELSE "pull"]
  BY DEF NextTable
<1>3. /\ rd'.todo = rd.todo \ {t} /\ rd'.unread = Unread(t) /\ rd'.cursor = rd.cursor
      /\ rd'.fresh = rd.fresh /\ rd'.resumable = rd.resumable /\ rd'.quiet = rd.quiet
      /\ rd'.pc = IF Unread(t) = {} THEN "push" ELSE IF rd.resumable THEN "verify" ELSE "pull"
  BY ZenonT(40), <1>2 DEF TypeOK, Rounds
<1>4. NextPull' = NextPull /\ Started
  BY <1>1, <1>3 DEF NextPull, Started, Preamble
<1>5. ASSUME NEW row \in Rows, ToFetch(row) PROVE ToFetch(row)'
  <2>1. /\ TableOf[row] \in rd.todo /\ (rd.resumable => row \notin st.rec.done)
        /\ rd.fresh \/ (TableOf[row] \notin rd.quiet /\ hub[row].at >= st.lastPull)
    BY <1>1, <1>5 DEF ToFetch, Comparing
  <2>2. CASE TableOf[row] = t
    <3>1. row \in Unread(t)
      BY <2>1, <2>2 DEF Unread, RowsOf
    <3>2. rd'.pc \in {"pull", "verify"}
      BY <1>3, <3>1
    <3> QED BY <1>1, <1>3, <2>1, <3>1, <3>2 DEF ToFetch
  <2>3. CASE TableOf[row] # t
    BY <1>1, <1>3, <2>1, <2>3 DEF ToFetch
  <2> QED BY <2>2, <2>3
<1>6. \A row \in Rows : ~Fetched(row)
  BY <1>1 DEF Fetched
<1>7. Taken'
  BY <1>4, <1>5, <1>6, TakenStays
<1>8. rd'.pc \notin Preamble /\ Recovering'
  <2>1. Unread(t) \subseteq RowsOf(t)
    BY DEF Unread
  <2> QED BY <1>3, <2>1 DEF Preamble, Recovering, Comparing, RowsOf
<1> QED BY <1>1, <1>3, <1>7, <1>8, PullRound

\* What a page brings is the version the hub holds now.
LEMMA PullPull ==
  ASSUME TypeOK, TypeOK', MonotoneEdits, Grows, PullInv, PullPage
  PROVE  PullInv'
<1>1. st' = st /\ hub' = hub /\ rep' = rep /\ rd.pc = "pull"
  BY DEF PullPage
<1>2. PICK row \in rd.unread :
        rd' = [rd EXCEPT !.page = [rd.page EXCEPT ![row] = Pulled(row)], !.unread = @ \ {row},
                         !.pc = IF rd.unread # {row} THEN "pull"
                                ELSE IF [rd.page EXCEPT ![row] = Pulled(row)] = NoRows THEN "push" ELSE "apply"]
  BY DEF PullPage
<1> DEFINE page == [rd.page EXCEPT ![row] = Pulled(row)]
<1>3. /\ rd'.todo = rd.todo /\ rd'.unread = rd.unread \ {row} /\ rd'.cursor = rd.cursor
      /\ rd'.fresh = rd.fresh /\ rd'.resumable = rd.resumable /\ rd'.quiet = rd.quiet
      /\ rd'.page = page
      /\ rd'.pc = IF rd.unread # {row} THEN "pull" ELSE IF page = NoRows THEN "push" ELSE "apply"
  BY ZenonT(40), <1>2 DEF TypeOK, Rounds
<1>4. NextPull' = NextPull /\ Started
  BY <1>1, <1>3 DEF NextPull, Started, Preamble
<1>5. /\ row \in Rows /\ page[row] = Pulled(row) /\ \A r \in Rows \ {row} : page[r] = rd.page[r]
  BY DEF TypeOK, Rounds
<1> HIDE DEF page
<1>6. ASSUME NEW r \in Rows, Behind(r), page[r] = HubVersion(r), r \notin rd.unread \ {row} PROVE Fetched(r)'
  <2>1. hub[r].ts > 0 /\ HubVersion(r).ts = hub[r].ts
    BY <1>6, Numbers DEF Behind, HubVersion
  <2>2. page # NoRows
    BY <1>6, <2>1 DEF NoRows, Absent
  <2> QED BY <1>1, <1>3, <1>6, <2>2 DEF Fetched, HubVersion
<1>7. ASSUME NEW r \in Rows, Behind(r), ToFetch(r) \/ Fetched(r) PROVE ToFetch(r)' \/ Fetched(r)'
  <2>1. CASE r = row /\ ToFetch(r)
    <3>1. Pulled(row) = HubVersion(row)
      BY <1>5, <2>1, Times DEF ToFetch, Pulled, PullSince
    <3> QED BY <1>5, <1>6, <1>7, <2>1, <3>1
  <2>2. CASE r # row /\ ToFetch(r)
    BY <1>1, <1>3, <2>2 DEF ToFetch, Comparing
  <2>3. CASE r # row /\ Fetched(r)
    BY <1>1, <1>5, <1>6, <1>7, <2>3 DEF Fetched
  <2>4. ~(r = row /\ Fetched(r))
    BY <1>1 DEF Fetched
  <2> QED BY <1>7, <2>1, <2>2, <2>3, <2>4
<1>8. Taken'
  BY <1>4, <1>7, TakenStays
<1>9. rd'.pc \notin Preamble /\ Recovering'
  BY <1>3 DEF Preamble, Recovering, Comparing
<1> QED BY <1>1, <1>3, <1>8, <1>9, PullRound

\* Applied, it is no longer lacked.
LEMMA PullApply ==
  ASSUME TypeOK, TypeOK', MonotoneEdits, Grows, PullInv, Apply
  PROVE  PullInv'
<1>1. st' = st /\ hub' = hub /\ rd.pc = "apply"
  BY DEF Apply
<1>2. PICK row \in Rows :
        /\ rd' = [rd EXCEPT !.page = [rd.page EXCEPT ![row] = Absent],
                            !.pc = IF [rd.page EXCEPT ![row] = Absent] = NoRows THEN "push" ELSE "apply"]
        /\ rep' = [rep EXCEPT ![row] = Upsert(@, rd.page[row])]
  BY DEF Apply
<1> DEFINE page == [rd.page EXCEPT ![row] = Absent]
<1>3. /\ rd'.todo = rd.todo /\ rd'.unread = rd.unread /\ rd'.cursor = rd.cursor
      /\ rd'.fresh = rd.fresh /\ rd'.resumable = rd.resumable /\ rd'.quiet = rd.quiet
      /\ rd'.page = page /\ rd'.pc = IF page = NoRows THEN "push" ELSE "apply"
  BY <1>2 DEF TypeOK, Rounds
<1>4. NextPull' = NextPull /\ Started
  BY <1>1, <1>3 DEF NextPull, Started, Preamble
<1>5. \A r \in Rows \ {row} : page[r] = rd.page[r]
  BY DEF TypeOK, Rounds
<1> HIDE DEF page
<1>6. ASSUME NEW r \in Rows, Behind(r), Behind(r)', ToFetch(r) \/ Fetched(r) PROVE ToFetch(r)' \/ Fetched(r)'
  <2>1. CASE ToFetch(r)
    BY <1>1, <1>3, <2>1 DEF ToFetch, Comparing
  <2>2. CASE Fetched(r) /\ r # row
    <3>1. page[r] = HubVersion(r) /\ HubVersion(r).ts = hub[r].ts /\ hub[r].ts > 0
      BY <1>5, <1>6, <2>2, Numbers DEF Fetched, HubVersion, Behind
    <3>2. page # NoRows
      BY <3>1 DEF NoRows, Absent
    <3> QED BY <1>1, <1>3, <3>1, <3>2 DEF Fetched, HubVersion
  <2>3. ~(Fetched(r) /\ r = row)
    <3> SUFFICES ASSUME Fetched(r), r = row PROVE FALSE
      OBVIOUS
    <3>1. rep'[row] = Upsert(rep[row], rd.page[row])
      BY <1>2 DEF TypeOK
    <3>2. rd.page[row].ts = hub[row].ts
      BY DEF Fetched, HubVersion
    <3>3. hub[row].ts <= rep'[row].ts /\ hub[row].ts \in Nat /\ rep'[row].ts \in Nat
      <4>1. rep'[row] \in Version
        BY DEF TypeOK
      <4> QED BY <3>1, <3>2, <4>1, Numbers, UpsertGrows, VersionFields
    <3> QED BY <1>1, <1>6, <3>3 DEF Behind
  <2> QED BY <1>6, <2>1, <2>2, <2>3
<1>7. Taken'
  BY <1>4, <1>6, TakenStays
<1>8. rd'.pc \notin Preamble /\ Recovering'
  BY <1>3 DEF Preamble, Recovering, Comparing
<1> QED BY <1>1, <1>3, <1>7, <1>8, PullRound

LEMMA PullPush ==
  ASSUME TypeOK, TypeOK', MonotoneEdits, Grows, PullInv, NEW lost \in BOOLEAN, Push(lost)
  PROVE  PullInv'
<1>1. /\ st' = st /\ rd.pc = "push"
      /\ rd'.todo = rd.todo /\ rd'.unread = rd.unread /\ rd'.cursor = rd.cursor
      /\ rd'.fresh = rd.fresh /\ rd'.resumable = rd.resumable /\ rd'.quiet = rd.quiet
      /\ rd'.pc = "push"
  BY DEF Push, TypeOK, Rounds
<1>2. NextPull' = NextPull /\ Started
  BY <1>1 DEF NextPull, Started, Preamble
<1>3. ASSUME NEW r \in Rows, hub'[r] = hub[r], ToFetch(r) \/ Fetched(r) PROVE ToFetch(r)'
  BY <1>1, <1>3 DEF ToFetch, Fetched, Comparing
<1>4. Taken'
  BY <1>2, <1>3, TakenStays
<1>5. rd'.pc \notin Preamble /\ Recovering'
  BY <1>1 DEF Preamble, Recovering, Comparing
<1> QED BY <1>1, <1>4, <1>5, PullRound

LEMMA PullEndTable ==
  ASSUME TypeOK, TypeOK', MonotoneEdits, Grows, PullInv, EndTable
  PROVE  PullInv'
<1>1. /\ st' = st /\ hub' = hub /\ rd.pc = "push"
      /\ rd'.todo = rd.todo /\ rd'.unread = rd.unread /\ rd'.cursor = rd.cursor
      /\ rd'.fresh = rd.fresh /\ rd'.resumable = rd.resumable /\ rd'.quiet = rd.quiet
      /\ rd'.pc = "table"
  BY DEF EndTable, TypeOK, Rounds
<1>2. NextPull' = NextPull /\ Started
  BY <1>1 DEF NextPull, Started, Preamble
<1>3. ASSUME NEW r \in Rows, ToFetch(r) \/ Fetched(r) PROVE ToFetch(r)'
  BY <1>1, <1>3 DEF ToFetch, Fetched, Comparing
<1>4. Taken'
  BY <1>2, <1>3, TakenStays
<1>5. rd'.pc \notin Preamble /\ Recovering'
  BY <1>1 DEF Preamble, Recovering, Comparing
<1> QED BY <1>1, <1>4, <1>5, PullRound

\* Recovery asks for a row, compares it and takes over what the hub holds newer.
LEMMA PullVerifyFetch ==
  ASSUME TypeOK, TypeOK', MonotoneEdits, Grows, PullInv, VerifyFetch
  PROVE  PullInv'
<1>1. st' = st /\ hub' = hub /\ rd.pc = "verify"
  BY DEF VerifyFetch
<1>2. PICK row \in rd.unread :
        rd' = [rd EXCEPT !.row = row, !.unread = @ \ {row},
                         !.page = [@ EXCEPT ![row] = HubVersion(row)], !.pc = "compare"]
  BY DEF VerifyFetch
<1>3. /\ rd'.todo = rd.todo /\ rd'.unread = rd.unread \ {row} /\ rd'.cursor = rd.cursor
      /\ rd'.fresh = rd.fresh /\ rd'.resumable = rd.resumable /\ rd'.quiet = rd.quiet
      /\ rd'.page = [rd.page EXCEPT ![row] = HubVersion(row)] /\ rd'.pc = "compare" /\ rd'.row = row
  BY <1>2 DEF TypeOK, Rounds
<1>4. NextPull' = NextPull /\ Started
  BY <1>1, <1>3 DEF NextPull, Started, Preamble
<1>5. row \in Rows /\ TableOf[row] \notin rd.todo /\ rd.resumable
  BY <1>1 DEF TypeOK, Rounds, PullInv, Recovering
<1>6. rd'.page[row] = HubVersion(row)
  BY <1>3, <1>5 DEF TypeOK, Rounds
<1>7. ASSUME NEW r \in Rows, ToFetch(r) \/ Fetched(r) PROVE ToFetch(r)' \/ Fetched(r)'
  <2>1. CASE r = row
    BY <1>1, <1>3, <1>6, <2>1 DEF Fetched, HubVersion
  <2>2. CASE r # row
    BY <1>1, <1>3, <1>7, <2>2 DEF ToFetch, Fetched, Comparing
  <2> QED BY <2>1, <2>2
<1>8. Taken'
  BY <1>4, <1>7, TakenStays
<1>9. rd'.pc \notin Preamble /\ Recovering'
  BY <1>1, <1>3, <1>5 DEF Preamble, Recovering, Comparing, PullInv
<1> QED BY <1>1, <1>3, <1>8, <1>9, PullRound

LEMMA PullVerifyCompare ==
  ASSUME TypeOK, TypeOK', MonotoneEdits, Grows, PullInv, VerifyCompare
  PROVE  PullInv'
<1>1. /\ st' = st /\ hub' = hub /\ rd.pc = "compare" /\ rd'.pc = "verifyApply"
      /\ rd'.todo = rd.todo /\ rd'.unread = rd.unread /\ rd'.cursor = rd.cursor
      /\ rd'.fresh = rd.fresh /\ rd'.resumable = rd.resumable /\ rd'.quiet = rd.quiet
      /\ rd'.page = rd.page /\ rd'.row = rd.row
  BY DEF VerifyCompare, TypeOK, Rounds
<1>2. NextPull' = NextPull /\ Started
  BY <1>1 DEF NextPull, Started, Preamble
<1>3. ASSUME NEW r \in Rows, ToFetch(r) \/ Fetched(r) PROVE ToFetch(r)' \/ Fetched(r)'
  BY <1>1, <1>3 DEF ToFetch, Fetched, Comparing, HubVersion
<1>4. Taken'
  BY <1>2, <1>3, TakenStays
<1>5. rd'.pc \notin Preamble /\ Recovering'
  BY <1>1 DEF Preamble, Recovering, Comparing, PullInv
<1> QED BY <1>1, <1>4, <1>5, PullRound

LEMMA PullVerifyApply ==
  ASSUME TypeOK, TypeOK', MonotoneEdits, Grows, PullInv, VerifyApply
  PROVE  PullInv'
<1>1. /\ st' = st /\ hub' = hub /\ rd.pc = "verifyApply" /\ rd'.pc \in {"verified", "verifyPush"}
      /\ rd'.todo = rd.todo /\ rd'.unread = rd.unread /\ rd'.cursor = rd.cursor
      /\ rd'.fresh = rd.fresh /\ rd'.resumable = rd.resumable /\ rd'.quiet = rd.quiet
      /\ rd'.row = rd.row /\ rep' = [rep EXCEPT ![rd.row] = Upsert(@, rd.page[rd.row])]
  BY DEF VerifyApply, TypeOK, Rounds
<1>2. NextPull' = NextPull /\ Started /\ rd.row \in Rows
  BY <1>1 DEF NextPull, Started, Preamble, TypeOK, Comparing
<1>3. ASSUME NEW r \in Rows, Behind(r)', ToFetch(r) \/ Fetched(r) PROVE ToFetch(r)'
  <2>1. CASE ToFetch(r)
    BY <1>1, <2>1 DEF ToFetch, Comparing
  <2>2. ~Fetched(r)
    <3> SUFFICES ASSUME Fetched(r) PROVE FALSE
      OBVIOUS
    <3>1. r = rd.row /\ rd.page[r].ts = hub[r].ts
      BY <1>1 DEF Fetched, HubVersion
    <3>2. rep'[r] = Upsert(rep[r], rd.page[r])
      BY <1>1, <3>1 DEF TypeOK
    <3>3. hub[r].ts <= rep'[r].ts /\ hub[r].ts \in Nat /\ rep'[r].ts \in Nat
      <4>1. rep'[r] \in Version
        BY DEF TypeOK
      <4> QED BY <3>1, <3>2, <4>1, Numbers, UpsertGrows, VersionFields
    <3> QED BY <1>1, <1>3, <3>3 DEF Behind
  <2> QED BY <1>3, <2>1, <2>2
<1>4. Taken'
  BY <1>2, <1>3, TakenStays
<1>5. rd'.pc \notin Preamble /\ Recovering'
  BY <1>1 DEF Preamble, Recovering, Comparing, PullInv
<1> QED BY <1>1, <1>4, <1>5, PullRound

LEMMA PullVerifyPush ==
  ASSUME TypeOK, TypeOK', MonotoneEdits, Grows, PullInv, VerifyPush
  PROVE  PullInv'
<1>1. /\ st' = st /\ rd.pc = "verifyPush" /\ rd'.pc = "verified"
      /\ rd'.todo = rd.todo /\ rd'.unread = rd.unread /\ rd'.cursor = rd.cursor
      /\ rd'.fresh = rd.fresh /\ rd'.resumable = rd.resumable /\ rd'.quiet = rd.quiet
      /\ rd'.row = rd.row
  BY DEF VerifyPush, TypeOK, Rounds
<1>2. NextPull' = NextPull /\ Started
  BY <1>1 DEF NextPull, Started, Preamble
<1>3. ASSUME NEW r \in Rows, hub'[r] = hub[r], ToFetch(r) \/ Fetched(r) PROVE ToFetch(r)'
  BY <1>1, <1>3 DEF ToFetch, Fetched, Comparing
<1>4. Taken'
  BY <1>2, <1>3, TakenStays
<1>5. rd'.pc \notin Preamble /\ Recovering'
  BY <1>1 DEF Preamble, Recovering, Comparing, PullInv
<1> QED BY <1>1, <1>4, <1>5, PullRound

\* Only what was taken over counts as verified.
LEMMA PullSaveProgress ==
  ASSUME TypeOK, TypeOK', MonotoneEdits, Grows, PullInv, SaveProgress
  PROVE  PullInv'
<1>1. /\ hub' = hub /\ hubClock' = hubClock /\ rep' = rep /\ rd.pc = "verified"
      /\ rd'.pc = IF rd.unread = {} THEN "push" ELSE "verify"
      /\ rd'.todo = rd.todo /\ rd'.unread = rd.unread /\ rd'.cursor = rd.cursor
      /\ rd'.fresh = rd.fresh /\ rd'.resumable = rd.resumable /\ rd'.quiet = rd.quiet
  BY DEF SaveProgress, TypeOK, Rounds
<1>2. /\ st'.lastPull = st.lastPull /\ st'.repair = st.repair /\ st'.bound = st.bound
      /\ st'.rec.pull = st.rec.pull /\ st'.rec.done = st.rec.done \cup {rd.row}
  BY DEF SaveProgress, TypeOK, States
<1>3. NextPull' = NextPull /\ Started /\ rd.row \in Rows
  BY <1>1, <1>2 DEF NextPull, Started, Preamble, TypeOK, Comparing
<1>4. rd.row \notin rd.unread /\ TableOf[rd.row] \notin rd.todo /\ rd.resumable
  BY <1>1 DEF PullInv, Recovering, Comparing
<1>5. Base(rd.row) /\ Behind(rd.row) => hub[rd.row].at >= st.rec.pull
  BY <1>1, <1>3, <1>4 DEF PullInv, Taken, ToFetch, Fetched, NextPull
<1>6. Verified'
  <2> SUFFICES ASSUME NEW row \in st'.rec.done, Base(row), Behind(row) PROVE hub[row].at >= st.rec.pull
    BY <1>1, <1>2 DEF Verified, Base, Behind
  <2> QED BY <1>2, <1>5 DEF PullInv, Verified
<1>7. ASSUME NEW r \in Rows, ToFetch(r) \/ Fetched(r) PROVE ToFetch(r)'
  <2>1. CASE r \in rd.unread
    BY <1>1, <1>2, <1>7, <2>1 DEF ToFetch, Fetched
  <2>2. CASE TableOf[r] \in rd.todo
    BY <1>1, <1>2, <1>4, <1>7, <2>2 DEF ToFetch, Fetched
  <2> QED BY <1>1, <1>7, <2>1, <2>2 DEF ToFetch, Fetched
<1>8. Taken'
  BY <1>3, <1>7, TakenStays
<1>9. rd'.pc \notin Preamble /\ Recovering'
  BY <1>1, <1>4 DEF Preamble, Recovering, Comparing, PullInv
<1>10. PullCoverage' /\ BaseTables \subseteq log' /\ st'.lastPull <= hubClock'
  BY <1>2, PullStoredKept
<1> QED BY <1>1, <1>2, <1>6, <1>8, <1>9, <1>10 DEF PullInv, QuietTables

\* The cursor moves when no table is left: what is lacked arrived at it, or after.
LEMMA PullFinish ==
  ASSUME TypeOK, TypeOK', MonotoneEdits, Grows, PullInv, Finish
  PROVE  PullInv'
<1>1. /\ hub' = hub /\ hubClock' = hubClock /\ rep' = rep /\ log' = log /\ rd.pc = "table" /\ rd.todo = {}
      /\ rd'.pc = "idle" /\ rd'.cursor = 0
  BY DEF Finish, Idle
<1>2. st'.lastPull = NextPull /\ st'.rec = NoRecovery
  BY DEF Finish, Checkpoint, NextPull, TypeOK, States
<1>3. NextPull \in Nat /\ NextPull <= hubClock /\ hubClock \in Nat
  BY Times DEF NextPull, PullInv
<1>4. PullCoverage'
  <2> SUFFICES ASSUME NEW row \in Rows, Base(row), Behind(row) PROVE hub[row].at >= NextPull
    BY <1>1, <1>2 DEF PullCoverage, PullDue, Base, Behind
  <2>1. Started /\ ~ToFetch(row) /\ ~Fetched(row)
    BY <1>1 DEF Started, Preamble, ToFetch, Fetched, Comparing
  <2> QED BY <2>1 DEF PullInv, Taken
<1>5. Verified' /\ st'.rec.pull = 0
  BY <1>2 DEF Verified, NoRecovery
<1> QED BY <1>1, <1>2, <1>3, <1>4, <1>5 DEF PullInv, QuietTables, Recovering, Comparing, Taken, Started, Preamble

LEMMA PullStep ==
  ASSUME TypeOK, TypeOK', MonotoneEdits, PullInv, [Next]_vars
  PROVE  PullInv'
<1>g. Grows
  BY StepGrows
<1>1. CASE Start
  BY <1>1, <1>g, PullHead, PullSnapshot DEF Start
<1>2. CASE Exchange \/ Verify
  BY <1>2, <1>g, PullNextTable, PullPull, PullApply, PullPush, PullEndTable, PullVerifyFetch, PullVerifyCompare,
     PullVerifyApply, PullVerifyPush, PullSaveProgress DEF Exchange, Verify
<1>3. CASE Finish \/ TableMissing \/ Fail
  BY <1>3, <1>g, PullFinish, PullGivenUp DEF TableMissing, Fail
<1>4. ASSUME NEW row \in Rows, NEW v \in Vals, NEW ts \in Time \ {0}, Edit(row, ts, v) PROVE PullInv'
  BY <1>4, <1>g, PullWaits DEF Edit
<1>5. ASSUME st' = st, rd' = rd PROVE PullInv'
  BY <1>5, <1>g, PullWaits
<1>6. CASE Environment
  BY <1>3, <1>4, <1>5, <1>6, <1>g, PullPush
     DEF Environment, HubTick, SetClock, RemoteSchema, CreateTable, OtherWriter, HubWrite
<1>7. CASE UNCHANGED vars
  BY <1>5, <1>7 DEF vars
<1> QED BY <1>1, <1>2, <1>3, <1>6, <1>7 DEF Next, Round

\* No remote change is skipped, whatever fails and however clocks are set: what the
\* replica lacks of a table it knows arrived at or after the cursor the next round
\* asks from.  A local write that takes a row back to an older revision is outside
\* this promise.
THEOREM PullCovered ==
  ASSUME MonotoneEdits
  PROVE  Spec => []PullCoverage
<1>1. Init => TypeOK /\ PullInv
  BY TypeInit, PullStarts
<1>2. (TypeOK /\ PullInv) /\ [Next]_vars => (TypeOK /\ PullInv)'
  BY TypeStep, PullStep
<1>3. TypeOK /\ PullInv => PullCoverage
  BY DEF PullInv
<1> QED BY <1>1, <1>2, <1>3, PTL DEF Spec

-----------------------------------------------------------------------------
(* The receipts *)

\* Hub revisions only grow.
LEMMA GrowsHub ==
  ASSUME TypeOK, TypeOK', Grows
  PROVE  HubGrown
<1> SUFFICES ASSUME NEW row \in Rows PROVE hub[row].ts <= hub'[row].ts
  BY DEF HubGrown
<1>1. hub[row].ts \in Nat
  BY Numbers
<1>2. hub'[row].ts \in Nat
  BY ClockAssumption DEF TypeOK, Time
<1>3. Arrives(row)
  BY DEF Grows
<1> QED BY <1>1, <1>2, <1>3 DEF Arrives

\* A row that a step does not write can only stop being ahead of the hub.
LEMMA AheadBefore ==
  ASSUME TypeOK, TypeOK', Grows, NEW row \in Rows, rep'[row] = rep[row], Ahead(row)'
  PROVE  Ahead(row)
<1>1. rep[row].ts \in Nat /\ hub[row].ts \in Nat
  BY Numbers
<1>2. hub'[row].ts \in Nat
  BY ClockAssumption DEF TypeOK, Time
<1> QED BY <1>1, <1>2, GrowsHub DEF Ahead, HubGrown

\* A page that is fetched or dropped is no newer than the hub, and of a known table.
LEMMA PagesKnown ==
  ASSUME TypeOK, TypeOK', Grows, FrozenInv,
         \A row \in Rows :
           \/ rd'.page[row] \in {rd.page[row], Absent}
           \/ rd'.page[row].ts = hub[row].ts /\ TableOf[row] \in log
  PROVE  PagesOld' /\ \A row \in Rows : rd'.page[row].ts > 0 => TableOf[row] \in log'
<1> SUFFICES ASSUME NEW row \in Rows
             PROVE  rd'.page[row].ts <= hub'[row].ts /\ (rd'.page[row].ts > 0 => TableOf[row] \in log')
  BY DEF PagesOld
<1>1. hub[row].ts \in Nat /\ rd.page[row].ts \in Nat /\ rd.page[row].ts <= hub[row].ts /\ log \subseteq log'
  BY Numbers DEF FrozenInv, PagesOld, Grows
<1>2. hub'[row].ts \in Nat /\ hub[row].ts <= hub'[row].ts
  BY GrowsHub, ClockAssumption DEF TypeOK, Time, HubGrown
<1>3. rd.page[row].ts > 0 => TableOf[row] \in log
  BY DEF FrozenInv, RowsKnown
<1> QED BY <1>1, <1>2, <1>3, Sentinels

\* A row with a frozen receipt stays accounted for when the step writes only rows that
\* the hub then holds, or that come after the snapshot, and no candidate is lost.
LEMMA FrozenStays ==
  ASSUME TypeOK, TypeOK', Grows, FrozenInv, Started,
         rd'.pushCursor = rd.pushCursor, rd'.frozen \subseteq rd.frozen, rd.rejected => rd'.rejected,
         \A row \in rd'.frozen : ~rd'.rejected /\ Ahead(row)' =>
           \/ rep'[row].ts >= rd'.pushCursor
           \/ /\ rep'[row] = rep[row]
              /\ rd.cand[row] = rep[row] /\ TableOf[row] \in rd.todo \cup {rd.table} =>
                   rd'.cand[row] = rep[row] /\ TableOf[row] \in rd'.todo \cup {rd'.table}
  PROVE  FrozenHeld'
<1> SUFFICES ASSUME ~rd'.rejected, NEW row \in rd'.frozen, Ahead(row)'
             PROVE  \/ rep'[row].ts >= rd'.pushCursor
                    \/ rd'.cand[row] = rep'[row] /\ TableOf[row] \in rd'.todo \cup {rd'.table}
  BY DEF FrozenHeld
<1>1. row \in Rows /\ row \in rd.frozen
  BY DEF TypeOK, Rounds
<1>2. CASE rep'[row].ts >= rd'.pushCursor
  BY <1>2
<1>3. CASE ~(rep'[row].ts >= rd'.pushCursor)
  <2>1. rep'[row] = rep[row] /\ Ahead(row)
    BY <1>1, <1>3, AheadBefore
  <2> QED BY <1>1, <1>3, <2>1 DEF FrozenInv, FrozenHeld
<1> QED BY <1>2, <1>3

\* A step that writes no row of the replica keeps its rows known.
LEMMA RowsStay ==
  ASSUME FrozenInv, Grows, rep' = rep
  PROVE  \A row \in Rows : rep'[row].ts > 0 => TableOf[row] \in log'
BY DEF FrozenInv, RowsKnown, Grows

LEMMA FrozenIdle ==
  ASSUME TypeOK, TypeOK', Grows, FrozenInv, rep' = rep, rd' = Idle
  PROVE  FrozenInv'
<1>1. /\ rd'.pc = "idle" /\ rd'.page = NoRows /\ rd'.todo = {} /\ rd'.table = None
  BY DEF Idle
<1>2. \A row \in Rows : rd'.page[row] = Absent
  BY <1>1 DEF NoRows
<1>3. PagesOld' /\ \A row \in Rows : rd'.page[row].ts > 0 => TableOf[row] \in log'
  BY <1>2, PagesKnown
<1> QED BY <1>1, <1>3, RowsStay DEF FrozenInv, RowsKnown, TableShape, FrozenHeld, Started, Preamble, Comparing

LEMMA FrozenStarts == Init => FrozenInv
<1> SUFFICES ASSUME Init PROVE FrozenInv
  OBVIOUS
<1>1. /\ rd.pc = "idle" /\ rd.page = NoRows /\ rd.todo = {} /\ rd.table = None /\ rep = NoRows
  BY DEF Init, Idle
<1>2. TypeOK
  BY TypeInit
<1>3. \A row \in Rows : rd.page[row].ts = 0 /\ rep[row].ts = 0 /\ hub[row].ts \in Nat
  BY <1>1, <1>2, Numbers DEF NoRows, Absent
<1> QED BY <1>1, <1>3 DEF FrozenInv, RowsKnown, PagesOld, TableShape, FrozenHeld, Started, Preamble, Comparing

\* The environment, while the round waits.
LEMMA FrozenWaits ==
  ASSUME TypeOK, TypeOK', Grows, FrozenInv,
         \/ rd' = rd
         \/ \E row : rd' = [rd EXCEPT !.frozen = @ \ {row}],
         \A row \in Rows :
           \/ rep'[row] = rep[row]
           \/ TableOf[row] \in log /\ (row \notin rd'.frozen \/ rep'[row].ts >= rd.pushCursor)
  PROVE  FrozenInv'
<1>1. /\ rd'.pc = rd.pc /\ rd'.todo = rd.todo /\ rd'.unread = rd.unread /\ rd'.page = rd.page
      /\ rd'.table = rd.table /\ rd'.cand = rd.cand /\ rd'.pushCursor = rd.pushCursor
      /\ rd'.rejected = rd.rejected /\ rd'.frozen \subseteq rd.frozen
  BY DEF TypeOK, Rounds
<1>2. PagesOld' /\ \A row \in Rows : rd'.page[row].ts > 0 => TableOf[row] \in log'
  BY <1>1, PagesKnown
<1>3. RowsKnown'
  BY <1>1, <1>2 DEF FrozenInv, RowsKnown, Grows
<1>4. FrozenHeld'
  <2>1. CASE Started
    <3>1. rd'.frozen \subseteq Rows
      BY DEF TypeOK, Rounds
    <3>2. \A row \in rd'.frozen : rep'[row] = rep[row] \/ rep'[row].ts >= rd'.pushCursor
      BY <1>1, <3>1
    <3> QED BY <1>1, <2>1, <3>2, FrozenStays
  <2>2. CASE ~Started
    BY <1>1, <2>2 DEF FrozenHeld, Started
  <2> QED BY <2>1, <2>2
<1> QED BY <1>1, <1>2, <1>3, <1>4 DEF FrozenInv, TableShape

LEMMA FrozenHead ==
  ASSUME TypeOK, TypeOK', Grows, FrozenInv,
         Begin \/ ReadCursor \/ SchemaPull \/ SchemaPush \/ Replay \/ SchemaDone
  PROVE  FrozenInv'
<1>1. rep' = rep
  BY DEF Begin, ReadCursor, SchemaPull, SchemaPush, Replay, SchemaDone
<1>2. CASE Begin
  <2>1. rd'.pc \in Preamble /\ rd'.page = NoRows /\ rd'.todo = {} /\ rd'.table = None
    BY <1>2 DEF Begin, Idle, Preamble
  <2>2. \A row \in Rows : rd'.page[row] = Absent
    BY <2>1 DEF NoRows
  <2>3. PagesOld' /\ \A row \in Rows : rd'.page[row].ts > 0 => TableOf[row] \in log'
    BY <2>2, PagesKnown
  <2> QED BY <1>1, <2>1, <2>3, RowsStay DEF FrozenInv, RowsKnown, TableShape, FrozenHeld, Started, Preamble, Comparing
<1>3. CASE ReadCursor \/ SchemaPull \/ SchemaPush \/ Replay \/ SchemaDone
  <2>1. /\ rd.pc \in Preamble /\ rd'.pc \in Preamble /\ rd'.page = rd.page /\ rd'.todo = rd.todo /\ rd'.table = rd.table
    <3>1. CASE ReadCursor
      <4>1. PICK c : rd' = [rd EXCEPT !.cursor = c, !.quiet = Quiet, !.hubMark = SchemaMark,
                              !.pc = IF rd.early /\ hubLog # st.seenHub
                                     THEN "schema" ELSE "snapshot"]
        BY <3>1 DEF ReadCursor
      <4> QED BY <3>1, <4>1 DEF ReadCursor, Preamble, TypeOK, Rounds
    <3>2. CASE SchemaPull \/ SchemaPush
      BY <3>2 DEF SchemaPull, SchemaPush, Preamble, TypeOK, Rounds
    <3>3. CASE Replay \/ SchemaDone
      BY <3>3 DEF Replay, SchemaDone, Preamble, TypeOK, Rounds
    <3> QED BY <1>3, <3>1, <3>2, <3>3
  <2>2. PagesOld' /\ \A row \in Rows : rd'.page[row].ts > 0 => TableOf[row] \in log'
    BY <2>1, PagesKnown
  <2>3. rd'.todo \cup {rd'.table} \subseteq log' \cup {None}
    BY <2>1 DEF FrozenInv, RowsKnown, Grows
  <2>4. TableShape' /\ FrozenHeld'
    BY <2>1 DEF FrozenInv, TableShape, FrozenHeld, Started, Preamble, Comparing
  <2> QED BY <1>1, <2>2, <2>3, <2>4, RowsStay DEF FrozenInv, RowsKnown
<1> QED BY <1>2, <1>3

\* A row with a receipt is a candidate.
LEMMA FrozenSnapshot ==
  ASSUME TypeOK, TypeOK', Grows, FrozenInv, Snapshot
  PROVE  FrozenInv'
<1>1. /\ rd.pc = "snapshot" /\ hub' = hub /\ rep' = rep /\ log' = log
  BY DEF Snapshot
<1>2. /\ rd'.pc = "table" /\ rd'.todo = log /\ rd'.table = rd.table /\ rd'.page = rd.page /\ rd'.frozen = dirty
      /\ rd'.cand = [row \in Rows |-> IF Candidate(row) THEN rep[row] ELSE Absent]
  BY DEF Snapshot, TypeOK, Rounds
<1>3. rd.table = None
  BY <1>1 DEF FrozenInv, TableShape, Preamble
<1>4. PagesOld' /\ \A row \in Rows : rd'.page[row].ts > 0 => TableOf[row] \in log'
  BY <1>2, PagesKnown
<1>5. FrozenHeld'
  <2> SUFFICES ASSUME NEW row \in dirty, Ahead(row) PROVE rd'.cand[row] = rep[row] /\ TableOf[row] \in log
    BY <1>1, <1>2 DEF FrozenHeld, Ahead
  <2>1. row \in Rows
    BY DEF TypeOK
  <2>2. rep[row].ts > 0
    BY <2>1, Numbers DEF Ahead
  <2>3. TableOf[row] \in log
    BY <2>1, <2>2 DEF FrozenInv, RowsKnown
  <2> QED BY <1>2, <2>1, <2>2, <2>3 DEF Candidate
<1> QED BY <1>1, <1>2, <1>3, <1>4, <1>5, RowsStay DEF FrozenInv, RowsKnown, TableShape, Preamble, Comparing

LEMMA FrozenNextTable ==
  ASSUME TypeOK, TypeOK', Grows, FrozenInv, NextTable
  PROVE  FrozenInv'
<1>1. rep' = rep /\ log' = log /\ rd.pc = "table"
  BY DEF NextTable
<1>2. PICK t \in rd.todo :
        rd' = [rd EXCEPT !.table = t, !.todo = @ \ {t}, !.unread = Unread(t),
                         !.pc = IF Unread(t) = {} THEN "push"
                                ELSE IF rd.resumable THEN "verify" ELSE "pull"]
  BY DEF NextTable
<1>3. /\ rd'.todo = rd.todo \ {t} /\ rd'.table = t /\ rd'.unread = Unread(t) /\ rd'.page = rd.page
      /\ rd'.cand = rd.cand /\ rd'.pushCursor = rd.pushCursor /\ rd'.frozen = rd.frozen /\ rd'.rejected = rd.rejected
      /\ rd'.pc \in {"push", "verify", "pull"}
  BY ZenonT(40), <1>2 DEF TypeOK, Rounds
<1>4. rd.table = None /\ Unread(t) \subseteq RowsOf(t) /\ Started
  BY <1>1 DEF FrozenInv, TableShape, Unread, Started, Preamble
<1>5. PagesOld' /\ \A row \in Rows : rd'.page[row].ts > 0 => TableOf[row] \in log'
  BY <1>3, PagesKnown
<1>6. FrozenHeld'
  <2>1. \A row \in Rows : TableOf[row] # None
    BY TableAssumption
  <2>2. rd'.frozen \subseteq Rows
    BY DEF TypeOK, Rounds
  <2> QED BY <1>1, <1>3, <1>4, <2>1, <2>2, FrozenStays
<1>7. rd'.todo \cup {rd'.table} \subseteq log' \cup {None}
  BY <1>1, <1>3 DEF FrozenInv, RowsKnown
<1> QED BY <1>1, <1>3, <1>4, <1>5, <1>6, <1>7, RowsStay DEF FrozenInv, RowsKnown, TableShape, Preamble, Comparing

\* Steps within a table that write no row of the replica and lose no candidate.
LEMMA FrozenInTable ==
  ASSUME TypeOK, TypeOK', Grows, FrozenInv, Started, rep' = rep,
         rd'.todo = rd.todo, rd'.table = rd.table, rd'.cand = rd.cand, rd'.pushCursor = rd.pushCursor,
         rd'.frozen = rd.frozen, rd.rejected => rd'.rejected, rd'.unread \subseteq rd.unread,
         rd.pc \in Comparing \cup {"verify", "pull"}, rd'.pc \in Comparing \cup {"verify", "pull", "push", "apply"},
         \A row \in Rows :
           \/ rd'.page[row] \in {rd.page[row], Absent}
           \/ rd'.page[row].ts = hub[row].ts /\ row \in rd.unread
  PROVE  FrozenInv'
<1>1. \A row \in rd.unread : TableOf[row] \in log
  BY TableAssumption DEF FrozenInv, TableShape, RowsOf, RowsKnown
<1>2. PagesOld' /\ \A row \in Rows : rd'.page[row].ts > 0 => TableOf[row] \in log'
  BY <1>1, PagesKnown
<1>3. FrozenHeld'
  BY FrozenStays
<1>4. TableShape'
  BY DEF FrozenInv, TableShape, Preamble, Comparing
<1> QED BY <1>2, <1>3, <1>4, RowsStay DEF FrozenInv, RowsKnown, Grows

LEMMA FrozenFetch ==
  ASSUME TypeOK, TypeOK', Grows, FrozenInv, PullPage \/ VerifyFetch \/ VerifyCompare \/ VerifyPush \/ SaveProgress
  PROVE  FrozenInv'
<1>1. CASE PullPage
  <2>1. PICK row \in rd.unread :
          rd' = [rd EXCEPT !.page = [rd.page EXCEPT ![row] = Pulled(row)], !.unread = @ \ {row},
                           !.pc = IF rd.unread # {row} THEN "pull"
                                  ELSE IF [rd.page EXCEPT ![row] = Pulled(row)] = NoRows THEN "push" ELSE "apply"]
    BY <1>1 DEF PullPage
  <2>2. /\ rd'.todo = rd.todo /\ rd'.table = rd.table /\ rd'.cand = rd.cand /\ rd'.pushCursor = rd.pushCursor
        /\ rd'.frozen = rd.frozen /\ rd'.rejected = rd.rejected /\ rd'.unread = rd.unread \ {row}
        /\ rd'.page = [rd.page EXCEPT ![row] = Pulled(row)] /\ rd'.pc \in {"pull", "push", "apply"}
    BY <2>1 DEF TypeOK, Rounds
  <2>3. \A r \in Rows : \/ rd'.page[r] \in {rd.page[r], Absent}
                        \/ rd'.page[r].ts = hub[r].ts /\ r \in rd.unread
    BY <2>2 DEF Pulled, HubVersion, TypeOK, Rounds
  <2>4. Started /\ rep' = rep /\ rd.pc = "pull"
    BY <1>1 DEF PullPage, Started, Preamble
  <2> QED BY <2>2, <2>3, <2>4, FrozenInTable
<1>2. CASE VerifyFetch
  <2>1. PICK row \in rd.unread :
          rd' = [rd EXCEPT !.row = row, !.unread = @ \ {row},
                           !.page = [@ EXCEPT ![row] = HubVersion(row)], !.pc = "compare"]
    BY <1>2 DEF VerifyFetch
  <2>2. /\ rd'.todo = rd.todo /\ rd'.table = rd.table /\ rd'.cand = rd.cand /\ rd'.pushCursor = rd.pushCursor
        /\ rd'.frozen = rd.frozen /\ rd'.rejected = rd.rejected /\ rd'.unread = rd.unread \ {row}
        /\ rd'.page = [rd.page EXCEPT ![row] = HubVersion(row)] /\ rd'.pc = "compare"
    BY <2>1 DEF TypeOK, Rounds
  <2>3. \A r \in Rows : \/ rd'.page[r] \in {rd.page[r], Absent}
                        \/ rd'.page[r].ts = hub[r].ts /\ r \in rd.unread
    BY <2>2 DEF HubVersion, TypeOK, Rounds
  <2>4. Started /\ rep' = rep /\ rd.pc = "verify"
    BY <1>2 DEF VerifyFetch, Started, Preamble
  <2> QED BY <2>2, <2>3, <2>4, FrozenInTable DEF Comparing
<1>3. CASE VerifyCompare \/ VerifyPush \/ SaveProgress
  <2>1. /\ rd'.todo = rd.todo /\ rd'.table = rd.table /\ rd'.cand = rd.cand /\ rd'.pushCursor = rd.pushCursor
        /\ rd'.frozen = rd.frozen /\ (rd.rejected => rd'.rejected) /\ rd'.unread = rd.unread
        /\ rd'.page = rd.page /\ rd.pc \in {"compare", "verifyPush", "verified"}
        /\ rd'.pc \in {"verifyApply", "verified", "push", "verify"} /\ rep' = rep
    <3>1. CASE VerifyCompare
      BY <3>1 DEF VerifyCompare, TypeOK, Rounds
    <3>2. CASE VerifyPush
      BY <3>2 DEF VerifyPush, TypeOK, Rounds
    <3>3. CASE SaveProgress
      BY <3>3 DEF SaveProgress, TypeOK, Rounds
    <3> QED BY <1>3, <3>1, <3>2, <3>3
  <2>2. Started
    BY <2>1 DEF Started, Preamble
  <2> QED BY <2>1, <2>2, FrozenInTable DEF Comparing
<1> QED BY <1>1, <1>2, <1>3

\* What a page brings is not ahead of the hub.
LEMMA FrozenApply ==
  ASSUME TypeOK, TypeOK', Grows, FrozenInv, Apply \/ VerifyApply
  PROVE  FrozenInv'
<1>1. /\ rd'.todo = rd.todo /\ rd'.table = rd.table /\ rd'.cand = rd.cand /\ rd'.pushCursor = rd.pushCursor
      /\ rd'.frozen = rd.frozen /\ rd'.rejected = rd.rejected /\ rd'.unread = rd.unread
      /\ \/ rd.pc = "apply" /\ rd'.pc \in {"apply", "push"}
         \/ rd.pc = "verifyApply" /\ rd'.pc \in {"verifyPush", "verified"}
      /\ hub' = hub /\ log' = log
  BY ZenonT(40) DEF Apply, VerifyApply, TypeOK, Rounds
<1>2. PICK row \in Rows :
        /\ rep' = [rep EXCEPT ![row] = Upsert(@, rd.page[row])]
        /\ rd'.page \in {[rd.page EXCEPT ![row] = Absent], NoRows}
  <2>1. CASE Apply
    <3>1. PICK row \in Rows :
        /\ rd' = [rd EXCEPT !.page = [rd.page EXCEPT ![row] = Absent],
                            !.pc = IF [rd.page EXCEPT ![row] = Absent] = NoRows THEN "push" ELSE "apply"]
        /\ rep' = [rep EXCEPT ![row] = Upsert(@, rd.page[row])]
      BY <2>1 DEF Apply
    <3>2. rd'.page = [rd.page EXCEPT ![row] = Absent]
      BY <3>1 DEF TypeOK, Rounds
    <3> QED BY <3>1, <3>2
  <2>2. CASE VerifyApply
    <3>1. rd.row \in Rows /\ rd'.page = NoRows /\ rep' = [rep EXCEPT ![rd.row] = Upsert(@, rd.page[rd.row])]
      BY <2>2 DEF VerifyApply, TypeOK, Rounds, Comparing
    <3> QED BY <3>1
  <2> QED BY <2>1, <2>2
<1>3. \A r \in Rows : rd'.page[r] \in {rd.page[r], Absent}
  BY <1>2 DEF NoRows, TypeOK, Rounds
<1>4. PagesOld' /\ \A r \in Rows : rd'.page[r].ts > 0 => TableOf[r] \in log'
  BY <1>3, PagesKnown
<1>5. \A r \in Rows : rep'[r] = rep[r] \/ rep'[r] = rd.page[r]
  BY <1>2 DEF Upsert, TypeOK
<1>6. \A r \in Rows : rep'[r].ts > 0 => TableOf[r] \in log'
  BY <1>1, <1>5 DEF FrozenInv, RowsKnown
<1>7. Started
  BY <1>1 DEF Started, Preamble
<1>8. ASSUME NEW r \in Rows, Ahead(r)' PROVE rep'[r] = rep[r]
  <2>1. rd.page[r].ts <= hub[r].ts /\ rd.page[r].ts \in Nat /\ hub[r].ts \in Nat
    BY Numbers DEF FrozenInv, PagesOld
  <2> QED BY <1>1, <1>5, <1>8, <2>1 DEF Ahead
<1>9. FrozenHeld'
  <2>1. rd'.frozen \subseteq Rows
    BY DEF TypeOK, Rounds
  <2> QED BY <1>1, <1>7, <1>8, <2>1, FrozenStays
<1>10. TableShape'
  BY <1>1 DEF FrozenInv, TableShape, Preamble, Comparing
<1> QED BY <1>1, <1>4, <1>6, <1>9, <1>10 DEF FrozenInv, RowsKnown

\* A candidate that is answered is held by the hub, or was rejected.
LEMMA FrozenPush ==
  ASSUME TypeOK, TypeOK', Grows, FrozenInv, NEW lost \in BOOLEAN, Push(lost)
  PROVE  FrozenInv'
<1>1. /\ rep' = rep /\ log' = log /\ rd.pc = "push"
  BY DEF Push
<1>2. PICK row \in RowsOf(rd.table) :
        /\ HubCommit(row, rd.cand[row])
        /\ rd' = IF lost THEN rd
                 ELSE [rd EXCEPT !.cand = [@ EXCEPT ![row] = Absent],
                                 !.rejected = @ \/ HubRejects(row, rd.cand[row])]
  BY DEF Push
<1>3. row \in Rows /\ rd.cand[row] \in Version
  BY Numbers DEF RowsOf
<1>4. CASE lost
  BY <1>1, <1>2, <1>4, FrozenWaits
<1>5. CASE ~lost
  <2>1. /\ rd'.page = rd.page /\ rd'.table = rd.table /\ rd'.todo = rd.todo /\ rd'.pc = "push"
        /\ rd'.frozen = rd.frozen /\ rd'.pushCursor = rd.pushCursor /\ rd'.unread = rd.unread
        /\ rd'.rejected = (rd.rejected \/ HubRejects(row, rd.cand[row]))
        /\ rd'.cand = [rd.cand EXCEPT ![row] = Absent]
    BY <1>1, <1>2, <1>5 DEF TypeOK, Rounds
  <2>2. \A r \in Rows \ {row} : rd'.cand[r] = rd.cand[r]
    BY <2>1 DEF TypeOK, Rounds
  <2>3. ASSUME ~rd'.rejected, rd.cand[row] = rep[row] PROVE ~Ahead(row)'
    <3>1. CASE rep[row].ts > hub[row].ts
      <4>1. rep[row].val \notin BadVals
        BY <2>1, <2>3, <3>1 DEF HubRejects
      <4>2. hub'[row].ts = rep[row].ts
        BY <1>2, <1>3, <2>3, <3>1, <4>1, CommitGrows
      <4> QED BY <1>1, <1>3, <4>2, Numbers DEF Ahead
    <3>2. CASE ~(rep[row].ts > hub[row].ts)
      BY <1>1, <1>3, <3>2, AheadBefore DEF Ahead
    <3> QED BY <3>1, <3>2
  <2>4. Started
    BY <1>1 DEF Started, Preamble
  <2>5. FrozenHeld'
    <3>1. rd'.frozen \subseteq Rows
      BY DEF TypeOK, Rounds
    <3>2. ASSUME NEW r \in rd'.frozen, ~rd'.rejected, Ahead(r)', rd.cand[r] = rep[r]
          PROVE  rd'.cand[r] = rep[r]
      BY <2>2, <2>3, <3>1, <3>2
    <3> QED BY <1>1, <2>1, <2>4, <3>2, FrozenStays
  <2>6. PagesOld' /\ \A r \in Rows : rd'.page[r].ts > 0 => TableOf[r] \in log'
    BY <2>1, PagesKnown
  <2> QED BY <1>1, <2>1, <2>5, <2>6, RowsStay DEF FrozenInv, RowsKnown, TableShape, Preamble, Comparing
<1> QED BY <1>4, <1>5

LEMMA FrozenEndTable ==
  ASSUME TypeOK, TypeOK', Grows, FrozenInv, EndTable
  PROVE  FrozenInv'
<1>1. /\ rep' = rep /\ log' = log /\ rd.pc = "push" /\ \A row \in RowsOf(rd.table) : rd.cand[row] = Absent
      /\ rd'.page = rd.page /\ rd'.table = None /\ rd'.todo = rd.todo /\ rd'.pc = "table"
      /\ rd'.frozen = rd.frozen /\ rd'.pushCursor = rd.pushCursor /\ rd'.rejected = rd.rejected
      /\ rd'.cand = rd.cand /\ rd'.unread = rd.unread
  BY DEF EndTable, TypeOK, Rounds
<1>2. Started
  BY <1>1 DEF Started, Preamble
<1>3. ASSUME NEW r \in Rows, Ahead(r)', rd.cand[r] = rep[r], TableOf[r] = rd.table PROVE FALSE
  <2>1. rep[r] = Absent /\ Ahead(r)
    BY <1>1, <1>3, AheadBefore DEF RowsOf
  <2> QED BY <2>1, Numbers, Sentinels DEF Ahead
<1>4. FrozenHeld'
  <2>1. rd'.frozen \subseteq Rows
    BY DEF TypeOK, Rounds
  <2> QED BY <1>1, <1>2, <1>3, <2>1, FrozenStays
<1>5. PagesOld' /\ \A r \in Rows : rd'.page[r].ts > 0 => TableOf[r] \in log'
  BY <1>1, PagesKnown
<1> QED BY <1>1, <1>4, <1>5, RowsStay DEF FrozenInv, RowsKnown, TableShape, Preamble, Comparing

LEMMA FrozenStep ==
  ASSUME TypeOK, TypeOK', FrozenInv, [Next]_vars
  PROVE  FrozenInv'
<1>g. Grows
  BY StepGrows
<1>1. CASE Start
  BY <1>1, <1>g, FrozenHead, FrozenSnapshot DEF Start
<1>2. CASE Exchange \/ Verify
  BY <1>2, <1>g, FrozenNextTable, FrozenFetch, FrozenApply, FrozenPush, FrozenEndTable DEF Exchange, Verify
<1>3. CASE Finish \/ TableMissing \/ Fail
  BY <1>3, <1>g, FrozenIdle DEF Finish, TableMissing, Fail
<1>4. ASSUME NEW row \in Rows, NEW v \in Vals, NEW ts \in Time \ {0}, Edit(row, ts, v) PROVE FrozenInv'
  <2>1. /\ rep' = [rep EXCEPT ![row] = [ts |-> ts, val |-> v]] /\ TableOf[row] \in log
        /\ rd' = [rd EXCEPT !.frozen = @ \ {row}]
    BY <1>4 DEF Edit
  <2>2. row \notin rd'.frozen /\ \A r \in Rows \ {row} : rep'[r] = rep[r]
    BY <2>1 DEF TypeOK, Rounds
  <2> QED BY <1>g, <2>1, <2>2, FrozenWaits
<1>5. ASSUME NEW row \in Rows, NEW v \in Vals, OtherWriter(row, v) PROVE FrozenInv'
  <2>1. /\ rep' = [rep EXCEPT ![row] = [ts |-> clock, val |-> v]] /\ TableOf[row] \in log
        /\ rd' = rd /\ clock >= rd.pushCursor
    BY <1>5 DEF OtherWriter
  <2>2. rep'[row].ts = clock /\ \A r \in Rows \ {row} : rep'[r] = rep[r]
    BY <2>1 DEF TypeOK
  <2> QED BY <1>g, <2>1, <2>2, FrozenWaits
<1>6. ASSUME rep' = rep, rd' = rd PROVE FrozenInv'
  BY <1>6, <1>g, FrozenWaits
<1>7. CASE Environment
  BY <1>3, <1>4, <1>5, <1>6, <1>7, <1>g, FrozenPush
     DEF Environment, HubTick, SetClock, RemoteSchema, CreateTable, HubWrite
<1>8. CASE UNCHANGED vars
  BY <1>6, <1>8 DEF vars
<1> QED BY <1>1, <1>2, <1>3, <1>7, <1>8 DEF Next, Round

\* Receipts leave only at the end of a round in which nothing was rejected.
LEMMA ReceiptsStep ==
  ASSUME TypeOK, TypeOK', FrozenInv, [Next]_vars, NEW row \in dirty, row \notin dirty'
  PROVE  ~Ahead(row)' \/ rep'[row].ts >= st'.lastPush
<1>1. Finish
  BY DEF Next, Round, Start, Exchange, Verify, Environment, Begin, ReadCursor, SchemaPull, SchemaPush, Replay,
         SchemaDone, Snapshot, NextTable, PullPage, Apply, Push, EndTable, VerifyFetch, VerifyCompare, VerifyApply,
         VerifyPush, SaveProgress, TableMissing, Fail, HubTick, SetClock, RemoteSchema, CreateTable, OtherWriter,
         Edit, HubWrite, vars
<1>2. /\ hub' = hub /\ rep' = rep /\ rd.pc = "table" /\ rd.todo = {} /\ ~rd.rejected /\ row \in rd.frozen
  BY <1>1 DEF Finish, Acked
<1>3. st'.lastPush = rd.pushCursor
  BY <1>1, <1>2 DEF Finish, Checkpoint, TypeOK, States
<1>4. rd.table = None /\ Started /\ TableOf[row] # None
  BY <1>2, TableAssumption DEF FrozenInv, TableShape, Started, Preamble, TypeOK
<1> QED BY <1>2, <1>3, <1>4 DEF FrozenInv, FrozenHeld, Ahead

\* A receipt is dropped only for a row the hub holds, or one written again since the
\* snapshot, whatever was rejected, lost or written meanwhile.
THEOREM ReceiptsAreKept == Spec => ReceiptsKept
<1>1. Init => TypeOK /\ FrozenInv
  BY TypeInit, FrozenStarts
<1>2. (TypeOK /\ FrozenInv) /\ [Next]_vars => (TypeOK /\ FrozenInv)'
  BY TypeStep, FrozenStep
<1>3. (TypeOK /\ FrozenInv) /\ [Next]_vars =>
        [\A row \in dirty : row \notin dirty' => ~Ahead(row)' \/ rep'[row].ts >= st'.lastPush]_vars
  BY TypeStep, ReceiptsStep
<1> QED BY <1>1, <1>2, <1>3, PTL DEF Spec, ReceiptsKept
=============================================================================
