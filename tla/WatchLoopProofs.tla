-------------------------- MODULE WatchLoopProofs ---------------------------
(***************************************************************************)
(* Proofs about WatchLoop: its types, and that no remote change goes         *)
(* unnoticed, for any number of commits, writes, failures and listeners.     *)
(***************************************************************************)
EXTENDS WatchLoop, SignalProofs

\* The numbers and the flags of a round stay in the loop's types as the counters
\* they are bounded by grow.
LEMMA LoopKept ==
  ASSUME TypeOK, commits' \in Nat, edits' \in Nat, commits <= commits', edits <= edits',
         UNCHANGED lp
  PROVE  lp' \in LoopTypes'
BY SignalAssumption, WatchAssumption DEF TypeOK, SignalTypeOK, LoopTypes

\* A step of the loop's counter alone keeps its locals.
LEMMA GotoTypes ==
  ASSUME TypeOK, UNCHANGED <<commits, edits>>,
         NEW pc \in {"tick", "take", "decide", "cursor", "snapshot", "finish", "pending",
                     "absorb", "sleep"},
         Goto(pc)
  PROVE  lp' \in LoopTypes'
BY DEF TypeOK, LoopTypes, Goto

\* Every step of the loop or of the signal keeps the types.
LEMMA TypeStep ==
  ASSUME TypeOK, [Next]_vars
  PROVE  TypeOK'
<1> USE SignalAssumption, WatchAssumption
<1>0. /\ SignalTypeOK /\ commits \in Nat /\ edits \in 0 .. MaxEdits
      /\ sent \in 0 .. edits /\ pulled \in 0 .. commits
      /\ touched \in BOOLEAN /\ again \in BOOLEAN
      /\ elapsed \in [poll : BOOLEAN, safety : BOOLEAN]
      /\ lp \in LoopTypes /\ failures \in 0 .. MaxFailures
  BY DEF TypeOK, SignalTypeOK
<1>1. CASE StartListener
  <2>1. lp' \in LoopTypes'
    BY <1>1, GotoTypes DEF StartListener
  <2>2. SignalTypeOK'
    BY <1>0, <1>1, SignalMoved, ListenerKept DEF StartListener
  <2>3. QED
    BY <1>0, <1>1, <2>1, <2>2 DEF TypeOK, StartListener
<1>2. CASE Tick
  <2>1. lp' \in LoopTypes'
    BY <1>0, <1>2 DEF Tick, LoopTypes, signal
  <2>2. QED
    BY <1>0, <1>2, <2>1, SignalSame DEF TypeOK, Tick, signal
<1>3. CASE Take
  <2>1. lis[Listener].changed \in BOOLEAN
    BY <1>0, ListenerKept DEF ListenerTypes
  <2>2. lp' \in LoopTypes'
    BY <1>0, <1>3, <2>1 DEF Take, LoopTypes
  <2>3. SignalTypeOK'
    BY <1>0, <1>3, SignalMoved, ListenerKept DEF Take
  <2>4. QED
    BY <1>0, <1>3, <2>2, <2>3 DEF TypeOK, Take
<1>4. CASE Decide
  <2>1. again' \in BOOLEAN /\ UNCHANGED <<signal, edits, sent, pulled, touched, elapsed, failures>>
    BY <1>0, <1>4 DEF Decide
  <2>2. lp' \in LoopTypes'
    <3>1. Goto("cursor") \/ Goto("sleep")
      BY <1>4 DEF Decide
    <3>2. UNCHANGED <<commits, edits>>
      BY <2>1 DEF signal
    <3>3. QED
      BY <3>1, <3>2, GotoTypes
  <2>3. QED
    BY <1>0, <2>1, <2>2, SignalSame DEF TypeOK, signal
<1>5. CASE Cursor
  <2>1. lp' \in LoopTypes'
    <3>1. UNCHANGED <<commits, edits>> /\ commits \in 0 .. commits /\ edits \in 0 .. edits
      BY <1>0, <1>5 DEF Cursor, signal
    <3>2. [lp EXCEPT !.pc = "snapshot", !.cursor = commits] \in LoopTypes
      BY <1>0, <3>1 DEF LoopTypes
    <3>3. LoopTypes' = LoopTypes
      BY <3>1 DEF LoopTypes
    <3>4. QED
      BY <1>5, <3>2, <3>3 DEF Cursor
  <2>2. QED
    BY <1>0, <1>5, <2>1, SignalSame DEF TypeOK, Cursor, signal
<1>6. CASE Snapshot
  <2>1. lp' \in LoopTypes'
    <3>1. UNCHANGED <<commits, edits>> /\ commits \in 0 .. commits /\ edits \in 0 .. edits
      BY <1>0, <1>6 DEF Snapshot, signal
    <3>2. [lp EXCEPT !.pc = "finish", !.snapshot = edits] \in LoopTypes
      BY <1>0, <3>1 DEF LoopTypes
    <3>3. LoopTypes' = LoopTypes
      BY <3>1 DEF LoopTypes
    <3>4. QED
      BY <1>6, <3>2, <3>3 DEF Snapshot
  <2>2. QED
    BY <1>0, <1>6, <2>1, SignalSame DEF TypeOK, Snapshot, signal
<1>7. CASE Finish
  <2>1. lp' \in LoopTypes' /\ lp.cursor \in 0 .. commits /\ lp.snapshot \in 0 .. edits
    BY <1>0, <1>7 DEF Finish, LoopTypes, signal
  <2>2. QED
    BY <1>0, <1>7, <2>1, SignalSame DEF TypeOK, Finish, signal
<1>8. CASE Pending
  <2>1. lp' \in LoopTypes'
    BY <1>8, GotoTypes DEF Pending, signal
  <2>2. QED
    BY <1>0, <1>8, <2>1, SignalSame DEF TypeOK, Pending, signal
<1>9. CASE Absorb
  <2>1. lp' \in LoopTypes'
    BY <1>9, GotoTypes DEF Absorb
  <2>2. SignalTypeOK'
    BY <1>0, <1>9, SignalMoved, ListenerKept DEF Absorb, Absorbed
  <2>3. QED
    BY <1>0, <1>9, <2>1, <2>2 DEF TypeOK, Absorb
<1>10. CASE Sleep
  <2>1. lp' \in LoopTypes'
    BY <1>10, GotoTypes DEF Sleep, signal
  <2>2. QED
    BY <1>0, <1>10, <2>1, SignalSame DEF TypeOK, Sleep, signal
<1>11. CASE Reject
  <2>1. lp' \in LoopTypes' /\ lp.cursor \in 0 .. commits
    BY <1>0, <1>11 DEF Reject, LoopTypes, signal
  <2>2. QED
    BY <1>0, <1>11, <2>1, SignalSame DEF TypeOK, Reject, signal
<1>12. CASE Fail
  <2>1. lp' \in LoopTypes'
    BY <1>0, <1>12 DEF Fail, LoopTypes, signal
  <2>2. touched' \in BOOLEAN
    BY <1>0, <1>12 DEF Fail
  <2>3. QED
    BY <1>0, <1>12, <2>1, <2>2, SignalSame DEF TypeOK, Fail, signal
<1>13. CASE Edit
  <2>1. UNCHANGED <<signal, sent, pulled, again, elapsed, lp, failures>>
        /\ edits' = edits + 1 /\ edits < MaxEdits /\ touched' = TRUE
    BY <1>13 DEF Edit
  <2>2. lp' \in LoopTypes'
    BY <1>0, <2>1, LoopKept DEF signal
  <2>3. QED
    BY <1>0, <2>1, <2>2, SignalSame DEF TypeOK, signal
<1>14. ASSUME Time PROVE TypeOK'
  <2>1. elapsed' \in [poll : BOOLEAN, safety : BOOLEAN]
    BY <1>0, <1>14 DEF Time, PollOver, SafetyOver
  <2>2. UNCHANGED <<signal, edits, sent, pulled, touched, again, lp, failures>>
    BY <1>14 DEF Time, PollOver, SafetyOver
  <2>3. lp' \in LoopTypes'
    BY <1>0, <2>2, LoopKept DEF signal
  <2>4. QED
    BY <1>0, <2>1, <2>2, <2>3, SignalSame DEF TypeOK, signal
<1>15. CASE SignalNext /\ UNCHANGED loop
  <2>1. SignalTypeOK' /\ commits <= commits' /\ commits' \in Nat
    BY <1>0, <1>15, SignalTypes DEF SignalTypeOK
  <2>2. UNCHANGED <<edits, sent, pulled, touched, again, elapsed, lp, failures>>
    BY <1>15 DEF loop
  <2>3. lp' \in LoopTypes'
    BY <1>0, <2>1, <2>2, LoopKept
  <2>4. QED
    BY <1>0, <2>1, <2>2, <2>3 DEF TypeOK
<1>16. CASE UNCHANGED vars
  <2>1. UNCHANGED <<signal, edits, sent, pulled, touched, again, elapsed, lp, failures>>
    BY <1>16 DEF vars, loop
  <2>2. lp' \in LoopTypes'
    BY <1>0, <2>1, LoopKept DEF signal
  <2>3. QED
    BY <1>0, <2>1, <2>2, SignalSame DEF TypeOK, signal
<1>17. QED
  BY <1>1, <1>2, <1>3, <1>4, <1>5, <1>6, <1>7, <1>8, <1>9, <1>10, <1>11, <1>12, <1>13,
     <1>14, <1>15, <1>16 DEF Next, Loop

\* The types hold at the start.
LEMMA WatchStart == Init => TypeOK
<1> SUFFICES ASSUME Init PROVE TypeOK
  OBVIOUS
<1>1. NewListener \in ListenerTypes
  BY DEF NewListener, ListenerTypes, Unseen
<1>2. SignalTypeOK
  BY <1>1, SignalAssumption DEF Init, SignalInit, SignalTypeOK
<1>3. commits = 0 /\ edits = 0
  BY DEF Init, SignalInit
<1>4. [Start EXCEPT !.pc = "start"] \in LoopTypes
  <2>1. 0 \in 0 .. commits /\ 0 \in 0 .. edits
    BY <1>3
  <2>2. Start \in LoopTypes
    BY <2>1 DEF Start, LoopTypes
  <2>3. QED
    BY <2>2 DEF LoopTypes
<1>5. lp \in LoopTypes
  BY <1>4 DEF Init
<1>6. edits \in 0 .. MaxEdits /\ sent \in 0 .. edits /\ pulled \in 0 .. commits
      /\ failures \in 0 .. MaxFailures
  BY <1>3, WatchAssumption DEF Init
<1>7. elapsed \in [poll : BOOLEAN, safety : BOOLEAN] /\ touched \in BOOLEAN /\ again \in BOOLEAN
  BY DEF Init
<1>8. QED
  BY <1>2, <1>5, <1>6, <1>7 DEF TypeOK

\* soma watch keeps its types: no more is sent or pulled than was written or
\* committed, and every bump is counted once.
THEOREM WatchTypes == Spec => []TypeOK
<1>1. Init => TypeOK
  BY WatchStart
<1>2. TypeOK /\ [Next]_vars => TypeOK'
  BY TypeStep
<1>3. QED
  BY <1>1, <1>2, PTL DEF Spec

-----------------------------------------------------------------------------
\* NoticeInv holds again after every step of the loop and of the signal.
LEMMA NoticeStep ==
  ASSUME TypeOK, TypeOK', NoticeInv, [Next]_vars
  PROVE  NoticeInv'
<1> USE SignalAssumption, WatchAssumption
<1>0. /\ Listener \in Listeners /\ lis \in [Listeners -> ListenerTypes]
      /\ lis[Listener].changed \in BOOLEAN /\ lp \in LoopTypes
      /\ commits \in Nat /\ pulled \in Nat /\ lp.cursor \in Nat
      /\ lost \in Nat /\ failures \in Nat /\ pulled <= commits
  BY DEF TypeOK, SignalTypeOK, ListenerTypes, LoopTypes
<1>b. NotAhead(Listener)'
  <2>1. CASE SignalNext
    BY <1>0, <2>1, NotAheadKept DEF NoticeInv, TypeOK
  <2>2. CASE StartListener
    <3>1. lis'[Listener] = Started(Listener) /\ seq' \in Nat
      BY <1>0, <2>2 DEF StartListener, TypeOK, SignalTypeOK
    <3>2. QED
      BY <3>1 DEF Started, NewListener, Unseen, NotAhead
  <2>3. CASE Take
    <3>1. lis'[Listener] = Taken(Listener) /\ seq' = seq
      BY <1>0, <2>3 DEF Take
    <3>2. QED
      BY <1>0, <3>1 DEF Taken, ListenerTypes, NoticeInv, NotAhead
  <2>4. CASE UNCHANGED <<seq, lis>>
    BY <2>4 DEF NoticeInv, NotAhead
  <2>5. CASE Absorb
    BY <1>0, <2>5 DEF Absorb, Absorbed, NoticeInv, NotAhead
  <2>6. QED
    BY <2>1, <2>2, <2>3, <2>4, <2>5
    DEF Next, Loop, Time, Tick, Decide, Cursor, Snapshot, Finish, Pending, Sleep, Reject,
        Fail, Edit, PollOver, SafetyOver, vars, signal
<1>1. CASE StartListener
  <2>1. lis'[Listener] = Started(Listener) /\ UNCHANGED <<commits, bumps, seq, lost, pulled>>
        /\ lp'.pc = "tick" /\ failures' = failures
    BY <1>0, <1>1 DEF StartListener, Goto, LoopTypes
  <2>2. lis'[Listener].pc = "ask" /\ lis'[Listener].seen = Unseen /\ ~lis'[Listener].stopped
    BY <2>1 DEF Started, NewListener
  <2>3. seq' \in Nat
    BY DEF TypeOK, SignalTypeOK
  <2>4. WillSignal(Listener)'
    BY <2>2, <2>3 DEF WillSignal, Unseen
  <2>5. QED
    BY <1>b, <2>1, <2>2, <2>4 DEF NoticeInv
<1>2. CASE Tick
  <2>1. UNCHANGED <<commits, bumps, seq, lis, lost, pulled, failures>>
        /\ lp.pc = "tick" /\ lp'.pc = "take"
    BY <1>0, <1>2 DEF Tick, signal, LoopTypes
  <2>2. QED
    BY <1>b, <2>1 DEF NoticeInv, Covered, WillRead, WillSignal, News
<1>3. CASE Take
  <2>1. UNCHANGED <<commits, bumps, seq, lost, pulled, failures>>
        /\ lis'[Listener] = Taken(Listener)
        /\ lp.pc = "take" /\ lp'.pc = "decide" /\ lp'.signalled = lis[Listener].changed
    BY <1>0, <1>3 DEF Take, LoopTypes
  <2>2. /\ lis'[Listener].pc = lis[Listener].pc /\ lis'[Listener].seen = lis[Listener].seen
        /\ lis'[Listener].got = lis[Listener].got
        /\ lis'[Listener].stopped = lis[Listener].stopped
    BY <1>0, <2>1 DEF Taken, ListenerTypes
  <2>3. QED
    BY <1>b, <1>0, <2>1, <2>2 DEF NoticeInv, Covered, WillRead, WillSignal, News
<1>4. CASE Decide
  <2>1. UNCHANGED <<commits, bumps, seq, lis, lost, pulled, failures>> /\ lp.pc = "decide"
        /\ (lp'.pc = "cursor" \/ (lp'.pc = "sleep" /\ ~lp.signalled))
    BY <1>0, <1>4 DEF Decide, Goto, signal, LoopTypes
  <2>2. QED
    BY <1>b, <2>1 DEF NoticeInv, Covered, WillRead, WillSignal, News
<1>5. CASE Cursor
  <2>1. UNCHANGED <<commits, bumps, seq, lis, lost, pulled, failures>> /\ lp.pc = "cursor"
        /\ lp'.pc = "snapshot" /\ lp'.cursor = commits
    BY <1>0, <1>5 DEF Cursor, signal, LoopTypes
  <2>2. QED
    BY <1>b, <1>0, <2>1 DEF NoticeInv, Covered, WillRead, WillSignal, News
<1>6. CASE Snapshot
  <2>1. UNCHANGED <<commits, bumps, seq, lis, lost, pulled, failures>> /\ lp.pc = "snapshot"
        /\ lp'.pc = "finish" /\ lp'.cursor = lp.cursor
    BY <1>0, <1>6 DEF Snapshot, signal, LoopTypes
  <2>2. QED
    BY <1>b, <2>1 DEF NoticeInv, Covered, WillRead, WillSignal, News
<1>7. CASE Finish
  <2>1. UNCHANGED <<commits, bumps, seq, lis, lost, failures>> /\ lp.pc = "finish"
        /\ lp'.pc = "pending" /\ pulled' = lp.cursor
    BY <1>0, <1>7 DEF Finish, signal, LoopTypes
  <2>2. QED
    BY <1>b, <2>1 DEF NoticeInv, Covered, WillRead, WillSignal, News
<1>8. CASE Pending
  <2>1. UNCHANGED <<commits, bumps, seq, lis, lost, pulled, failures>> /\ lp.pc = "pending"
        /\ lp'.pc = "absorb"
    BY <1>0, <1>8 DEF Pending, Goto, signal, LoopTypes
  <2>2. QED
    BY <1>b, <2>1 DEF NoticeInv, Covered, WillRead, WillSignal, News
<1>9. CASE Absorb
  <2>1. UNCHANGED <<commits, bumps, seq, lost, pulled, failures>> /\ lp.pc = "absorb"
        /\ lp'.pc = "sleep" /\ lis'[Listener] = lis[Listener]
    BY <1>0, <1>9 DEF Absorb, Absorbed, Goto, LoopTypes
  <2>2. QED
    BY <1>b, <2>1 DEF NoticeInv, Covered, WillRead, WillSignal, News
<1>10. CASE Sleep
  <2>1. UNCHANGED <<commits, bumps, seq, lis, lost, pulled, failures>> /\ lp.pc = "sleep"
        /\ lp'.pc = "tick"
    BY <1>0, <1>10 DEF Sleep, Goto, signal, LoopTypes
  <2>2. QED
    BY <1>b, <2>1 DEF NoticeInv, Covered, WillRead, WillSignal, News
<1>11. CASE Reject \/ Fail
  <2>1. UNCHANGED <<bumps, seq, lis>> /\ failures' # 0 /\ lp.pc # "start"
    BY <1>0, <1>11 DEF Reject, Fail, signal
  <2>2. QED
    BY <1>b, <2>1 DEF NoticeInv
<1>12. CASE Edit \/ Time
  <2>1. UNCHANGED <<commits, bumps, seq, lis, lost, pulled, failures, lp>>
    BY <1>12 DEF Edit, Time, PollOver, SafetyOver, signal
  <2>2. QED
    BY <1>b, <2>1 DEF NoticeInv, Covered, WillRead, WillSignal, News
<1>13. CASE SignalNext /\ UNCHANGED loop
  <2>1. UNCHANGED <<pulled, failures, lp>>
    BY <1>13 DEF loop
  <2>2. CASE lp.pc = "start"
    BY <1>b, <2>1, <2>2 DEF NoticeInv
  <2>3. CASE lp.pc # "start"
    <3>1. /\ lis'[Listener].pc \in {"ask", "polling", "answered"}
          /\ ~lis'[Listener].stopped
      BY <1>0, <1>13, <2>3, ListenerRuns DEF NoticeInv, TypeOK
    <3>2. commits <= commits' /\ lost <= lost'
      BY <1>13, SignalTypes DEF TypeOK
    <3> lost \in Nat /\ lost' \in Nat /\ commits' \in Nat
      BY DEF TypeOK, SignalTypeOK
    <3>3. Covered' = Covered /\ (WillRead' <=> WillRead) /\ Covered \in Nat
      BY <1>0, <2>1 DEF Covered, WillRead
    <3>4. ASSUME lost' = 0 PROVE /\ WillSignal(Listener) => WillSignal(Listener)'
                                 /\ commits < commits' => WillSignal(Listener)'
      BY <1>0, <1>13, <2>3, <3>4, SignalKept DEF NoticeInv, TypeOK
    <3>5. QED
      BY <1>b, <1>0, <2>1, <2>3, <3>1, <3>2, <3>3, <3>4 DEF NoticeInv
  <2>4. QED
    BY <2>2, <2>3
<1>14. CASE UNCHANGED vars
  BY <1>b, <1>14 DEF vars, signal, loop, NoticeInv, Covered, WillRead, WillSignal, News
<1>15. QED
  BY <1>1, <1>2, <1>3, <1>4, <1>5, <1>6, <1>7, <1>8, <1>9, <1>10, <1>11, <1>12, <1>13,
     <1>14 DEF Next, Loop

\* No remote change goes unnoticed by soma watch: as long as no bump was lost
\* and no round failed, a commit the replica has not pulled is being signalled,
\* or a round that covers it runs or is about to.
THEOREM WatchNotices == Spec => []RemoteNoticed
<1>1. Init => TypeOK
  BY WatchStart
<1>2. Init => NoticeInv
  <2> SUFFICES ASSUME Init PROVE NoticeInv
    OBVIOUS
  <2>1. lp.pc = "start"
    BY DEF Init, Start
  <2>2. lis[Listener] = NewListener /\ seq = 0
    BY WatchAssumption DEF Init, SignalInit
  <2>3. QED
    BY <2>1, <2>2 DEF NoticeInv, NotAhead, NewListener, Unseen
<1>3. TypeOK /\ [Next]_vars => TypeOK'
  BY TypeStep
<1>4. TypeOK /\ TypeOK' /\ NoticeInv /\ [Next]_vars => NoticeInv'
  BY NoticeStep
<1>5. TypeOK /\ NoticeInv => RemoteNoticed
  <2> SUFFICES ASSUME TypeOK, NoticeInv, lost = 0, failures = 0, pulled < commits,
                      ~WillSignal(Listener), ~WillRead, lp.pc # "start"
               PROVE  InRound
    BY DEF RemoteNoticed
  <2>1. commits \in Nat /\ pulled \in Nat /\ lp.cursor \in 0 .. commits
    BY SignalAssumption DEF TypeOK, SignalTypeOK, LoopTypes
  <2>2. QED
    BY <2>1 DEF NoticeInv, Covered, InRound
<1>6. QED
  BY <1>1, <1>2, <1>3, <1>4, <1>5, PTL DEF Spec
=============================================================================
