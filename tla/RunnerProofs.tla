---------------------------- MODULE RunnerProofs ----------------------------
(***************************************************************************)
(* Proofs about BackgroundRunner: its types, that an idle runner misses no     *)
(* change of the hub or of the device, and that it reads a credential once,     *)
(* for any number of commits, writes, configurations, failures and listeners.  *)
(***************************************************************************)
EXTENDS BackgroundRunner, SignalProofs

-----------------------------------------------------------------------------
(* The inductive invariant *)

Locals ==
  [pc : {"top", "decide", "auth", "cursor", "snapshot", "finish", "absorb", "pending"},
   state : Running, known : {None} \cup (0 .. MaxConfigs),
   hub : Listeners \cup {None}, remote : Listeners \cup {None},
   changed : BOOLEAN, again : BOOLEAN, next : BOOLEAN, safety : BOOLEAN,
   cursor : Nat, snapshot : Nat]

RunnerTypes ==
  /\ SignalTypeOK
  /\ prefs \in [enabled : BOOLEAN, revision : 0 .. MaxConfigs]
  /\ edits \in 0 .. MaxEdits /\ sent \in Nat /\ pulled \in Nat
  /\ touched \in BOOLEAN /\ session \in BOOLEAN
  /\ failures \in 0 .. MaxFailures
  /\ bg \in Locals

\* Nothing is read that was not written.
Bounds == bg.cursor <= commits /\ bg.snapshot <= edits /\ sent <= edits /\ pulled <= commits

\* A round has a hub, a hub has a listener that runs, and a runner without a hub
\* has no session and, while idle, is due.
Stages ==
  /\ bg.hub # None => /\ bg.remote = bg.hub
                      /\ lis[bg.hub].pc \in {"ask", "polling", "answered"}
                      /\ ~lis[bg.hub].stopped
  /\ bg.pc \in {"cursor", "snapshot", "finish", "absorb", "pending"} => bg.hub # None
  /\ bg.pc = "auth" => bg.hub = None
  /\ bg.pc \in {"auth", "cursor", "snapshot", "finish"} => ~Idle
  /\ session => bg.hub # None
  /\ Idle /\ bg.hub = None => bg.next

AllBehind == \A l \in Listeners : NotAhead(l)

\* What the round in progress will have pulled, or the last one has.
RoundCovers == IF bg.pc \in {"snapshot", "finish"} THEN bg.cursor ELSE pulled

\* RemoteNoticed, said of a round in progress too.
RemoteInv ==
  \A h \in Listeners :
    lost = 0 /\ bg.hub = h /\ (Idle \/ bg.pc \in {"snapshot", "finish"})
      /\ RoundCovers < commits => WillSignal(h)

\* LocalNoticed, of a runner that was disabled too.
LocalInv ==
  Idle /\ sent < edits =>
    \/ bg.next \/ touched \/ bg.again
    \/ (bg.pc = "decide" /\ bg.changed)
    \/ bg.pc \in {"absorb", "pending"}

RunnerInv == RunnerTypes /\ Bounds /\ Stages /\ AllBehind /\ RemoteInv /\ LocalInv

LEMMA RunnerStarts == Init => RunnerInv
<1> SUFFICES ASSUME Init PROVE RunnerInv
  OBVIOUS
<1> USE SignalAssumption, RunnerAssumption
<1>0. /\ commits = 0 /\ bumps = 0 /\ seq = 0 /\ lost = 0 /\ lis = [l \in Listeners |-> NewListener]
      /\ bg = Launched("none") /\ edits = 0 /\ sent = 0 /\ pulled = 0
      /\ touched = FALSE /\ session = FALSE /\ failures = 0
      /\ prefs \in [enabled : BOOLEAN, revision : 0 .. MaxConfigs]
  BY DEF Init, SignalInit
<1>1. /\ NewListener \in ListenerTypes /\ NewListener.seen = -1 /\ NewListener.got = -1
      /\ Launched("none") \in Locals
  BY DEF NewListener, ListenerTypes, Unseen, Launched, Locals, Running
<1>2. /\ bg.hub = None /\ bg.pc = "top" /\ bg.state = "none" /\ bg.cursor = 0 /\ bg.snapshot = 0
  BY <1>0 DEF Launched
<1>3. SignalTypeOK
  BY <1>0, <1>1 DEF SignalTypeOK
<1>4. RunnerTypes
  <2>1. edits \in 0 .. MaxEdits /\ failures \in 0 .. MaxFailures /\ sent \in Nat /\ pulled \in Nat
    BY <1>0
  <2>2. bg \in Locals /\ touched \in BOOLEAN /\ session \in BOOLEAN
    BY <1>0, <1>1
  <2> QED BY <1>0, <1>3, <2>1, <2>2 DEF RunnerTypes
<1>5. Bounds /\ Stages
  BY <1>0, <1>2 DEF Bounds, Stages, Idle
<1>6. AllBehind
  <2> SUFFICES ASSUME NEW l \in Listeners PROVE lis[l].seen <= seq /\ lis[l].got <= seq
    BY DEF AllBehind, NotAhead
  <2>1. lis[l].seen = -1 /\ lis[l].got = -1
    BY <1>0, <1>1
  <2>2. -1 <= 0
    OBVIOUS
  <2> QED BY <1>0, <2>1, <2>2
<1>7. RemoteInv /\ LocalInv
  BY <1>2 DEF RemoteInv, LocalInv, Idle
<1> QED BY <1>4, <1>5, <1>6, <1>7 DEF RunnerInv

\* What the listeners say is the same after a step that leaves the signal alone.
LEMMA SignalStays ==
  ASSUME SignalTypeOK, AllBehind, UNCHANGED signal
  PROVE  /\ SignalTypeOK' /\ AllBehind' /\ commits' = commits /\ lost' = lost /\ lis' = lis
         /\ \A l \in Listeners : WillSignal(l)' <=> WillSignal(l)
<1>1. UNCHANGED <<commits, bumps, seq, lis, lost>>
  BY DEF signal
<1>2. SignalTypeOK'
  BY <1>1 DEF SignalTypeOK
<1>3. AllBehind'
  BY <1>1 DEF AllBehind, NotAhead
<1>4. \A l \in Listeners : WillSignal(l)' <=> WillSignal(l)
  BY <1>1 DEF WillSignal, News
<1> QED BY <1>1, <1>2, <1>3, <1>4

\* What the loop does to one listener leaves the others as they are.
LEMMA ListenerMoves ==
  ASSUME SignalTypeOK, AllBehind, UNCHANGED <<commits, bumps, seq, lost>>, NEW l \in Listeners,
         NEW v, v \in {Started(l), Taken(l), Halted(l)}, lis' = [lis EXCEPT ![l] = v]
  PROVE  /\ SignalTypeOK' /\ AllBehind' /\ lis'[l] = v
         /\ \A k \in Listeners \ {l} : lis'[k] = lis[k] /\ (WillSignal(k)' <=> WillSignal(k))
<1>0. lis \in [Listeners -> ListenerTypes] /\ lis[l] \in ListenerTypes /\ seq \in Nat
  BY SignalAssumption DEF SignalTypeOK
<1>1. Started(l) \in ListenerTypes /\ Taken(l) \in ListenerTypes /\ Halted(l) \in ListenerTypes
  BY <1>0, ListenerKept DEF Halted, ListenerTypes
<1>2. SignalTypeOK'
  BY <1>1, SignalMoved
<1>3. lis'[l] = v /\ \A k \in Listeners \ {l} : lis'[k] = lis[k]
  BY <1>0
<1>4. v.seen <= seq /\ v.got <= seq
  <2>1. CASE v = Started(l)
    BY <1>0, <2>1 DEF Started, NewListener, Unseen
  <2>2. CASE v = Taken(l) \/ v = Halted(l)
    BY <1>0, <2>2 DEF Taken, Halted, ListenerTypes, AllBehind, NotAhead
  <2> QED BY <2>1, <2>2
<1>5. AllBehind'
  BY <1>3, <1>4 DEF AllBehind, NotAhead
<1>6. \A k \in Listeners \ {l} : WillSignal(k)' <=> WillSignal(k)
  BY <1>3 DEF WillSignal, News
<1> QED BY <1>2, <1>3, <1>5, <1>6

-----------------------------------------------------------------------------
(* Every step keeps it *)

LEMMA RunnerStep == RunnerInv /\ [Next]_vars => RunnerInv'
<1> SUFFICES ASSUME RunnerInv, [Next]_vars PROVE RunnerInv'
  OBVIOUS
<1> USE SignalAssumption, RunnerAssumption
<1>t. RunnerTypes /\ Bounds /\ Stages /\ AllBehind /\ RemoteInv /\ LocalInv /\ SignalTypeOK
  BY DEF RunnerInv, RunnerTypes
<1>n. /\ commits \in Nat /\ lost \in Nat /\ edits \in Nat /\ sent \in Nat /\ pulled \in Nat
      /\ bg \in Locals /\ bg.cursor \in Nat /\ bg.snapshot \in Nat
  BY <1>t DEF RunnerTypes, SignalTypeOK, Locals
<1>l. bg.hub # None => bg.hub \in Listeners
  BY <1>n DEF Locals

\* Steps that leave the signal alone.
<1>s. ASSUME UNCHANGED signal
      PROVE  /\ SignalTypeOK' /\ AllBehind' /\ commits' = commits /\ lost' = lost /\ lis' = lis
             /\ \A l \in Listeners : WillSignal(l)' <=> WillSignal(l)
  BY <1>s, <1>t, SignalStays
<1>1. CASE Cursor
  <2>1. /\ UNCHANGED <<signal, prefs, edits, sent, pulled, touched, session, failures>>
        /\ bg' = [bg EXCEPT !.pc = "snapshot", !.cursor = commits] /\ bg.pc = "cursor"
    BY <1>1 DEF Cursor
  <2>2. /\ bg' \in Locals /\ bg'.pc = "snapshot" /\ bg'.cursor = commits
        /\ bg'.snapshot = bg.snapshot /\ bg'.hub = bg.hub /\ bg'.remote = bg.remote
        /\ bg'.state = bg.state
    BY <1>n, <2>1 DEF Locals
  <2>3. RunnerTypes'
    BY <1>t, <1>s, <2>1, <2>2 DEF RunnerTypes, Locals
  <2>4. Bounds' /\ Stages'
    BY <1>t, <1>n, <1>s, <2>1, <2>2 DEF Bounds, Stages, Idle
  <2>5. RemoteInv' /\ LocalInv'
    BY <1>t, <1>n, <1>s, <2>1, <2>2 DEF RemoteInv, RoundCovers, LocalInv, Stages, Idle
  <2> QED BY <1>s, <2>1, <2>3, <2>4, <2>5 DEF RunnerInv
<1>2. CASE Snapshot
  <2>1. /\ UNCHANGED <<signal, prefs, edits, sent, pulled, touched, session, failures>>
        /\ bg' = [bg EXCEPT !.pc = "finish", !.snapshot = edits] /\ bg.pc = "snapshot"
    BY <1>2 DEF Snapshot
  <2>2. /\ bg' \in Locals /\ bg'.pc = "finish" /\ bg'.cursor = bg.cursor
        /\ bg'.snapshot = edits /\ bg'.hub = bg.hub /\ bg'.remote = bg.remote
        /\ bg'.state = bg.state
    BY <1>n, <2>1 DEF Locals
  <2>3. RunnerTypes'
    BY <1>t, <1>s, <2>1, <2>2 DEF RunnerTypes, Locals
  <2>4. Bounds' /\ Stages'
    BY <1>t, <1>n, <1>s, <2>1, <2>2 DEF Bounds, Stages, Idle
  <2>5. RemoteInv' /\ LocalInv'
    BY <1>t, <1>n, <1>l, <1>s, <2>1, <2>2 DEF RemoteInv, RoundCovers, LocalInv, Stages, Idle
  <2> QED BY <1>s, <2>1, <2>3, <2>4, <2>5 DEF RunnerInv
<1>3. CASE Finish
  <2>1. /\ UNCHANGED <<signal, prefs, edits, session, failures>>
        /\ sent' = bg.snapshot /\ pulled' = bg.cursor /\ touched' = TRUE
        /\ bg' = [bg EXCEPT !.pc = "absorb", !.state = "idle", !.cursor = 0, !.snapshot = 0]
        /\ bg.pc = "finish"
    BY <1>3 DEF Finish
  <2>2. /\ bg' \in Locals /\ bg'.pc = "absorb" /\ bg'.cursor = 0
        /\ bg'.snapshot = 0 /\ bg'.hub = bg.hub /\ bg'.remote = bg.remote
        /\ bg'.state = "idle"
    BY <1>n, <2>1 DEF Locals, Running
  <2>3. RunnerTypes'
    BY <1>t, <1>n, <1>s, <2>1, <2>2 DEF RunnerTypes, Locals
  <2>4. Bounds' /\ Stages'
    BY <1>t, <1>n, <1>s, <2>1, <2>2 DEF Bounds, Stages, Idle
  <2>5. RemoteInv' /\ LocalInv'
    BY <1>t, <1>n, <1>l, <1>s, <2>1, <2>2 DEF RemoteInv, RoundCovers, LocalInv, Stages, Idle
  <2> QED BY <1>s, <2>1, <2>3, <2>4, <2>5 DEF RunnerInv
<1>4. CASE Absorb
  <2>1. /\ UNCHANGED <<signal, prefs, edits, sent, pulled, session, failures>>
        /\ touched' = FALSE /\ bg' = [bg EXCEPT !.pc = "pending"] /\ bg.pc = "absorb"
    BY <1>4 DEF Absorb
  <2>2. /\ bg' \in Locals /\ bg'.pc = "pending" /\ bg'.cursor = bg.cursor
        /\ bg'.snapshot = bg.snapshot /\ bg'.hub = bg.hub /\ bg'.remote = bg.remote
        /\ bg'.state = bg.state
    BY <1>n, <2>1 DEF Locals
  <2>3. RunnerTypes'
    BY <1>t, <1>s, <2>1, <2>2 DEF RunnerTypes, Locals
  <2>4. Bounds' /\ Stages'
    BY <1>t, <1>n, <1>s, <2>1, <2>2 DEF Bounds, Stages, Idle
  <2>5. RemoteInv' /\ LocalInv'
    BY <1>t, <1>n, <1>l, <1>s, <2>1, <2>2 DEF RemoteInv, RoundCovers, LocalInv, Stages, Idle
  <2> QED BY <1>s, <2>1, <2>3, <2>4, <2>5 DEF RunnerInv
<1>5. CASE Pending
  <2> DEFINE unsent == sent < edits
  <2>1. /\ UNCHANGED <<signal, prefs, edits, sent, pulled, touched, session, failures>>
        /\ bg' = [bg EXCEPT !.pc = "top", !.again = unsent, !.next = FALSE, !.safety = FALSE]
        /\ bg.pc = "pending"
    BY <1>5 DEF Pending
  <2>u. unsent \in BOOLEAN /\ (sent < edits => unsent)
    OBVIOUS
  <2> HIDE DEF unsent
  <2>2. /\ bg' \in Locals /\ bg'.pc = "top" /\ bg'.cursor = bg.cursor
        /\ bg'.snapshot = bg.snapshot /\ bg'.hub = bg.hub /\ bg'.remote = bg.remote
        /\ bg'.state = bg.state /\ bg'.again = unsent
    BY <1>n, <2>1, <2>u DEF Locals
  <2>3. RunnerTypes'
    BY <1>t, <1>s, <2>1, <2>2 DEF RunnerTypes, Locals
  <2>4. Bounds' /\ Stages'
    BY <1>t, <1>n, <1>s, <2>1, <2>2 DEF Bounds, Stages, Idle
  <2>5. RemoteInv' /\ LocalInv'
    BY <1>t, <1>n, <1>l, <1>s, <2>1, <2>u, <2>2 DEF RemoteInv, RoundCovers, LocalInv, Stages, Idle
  <2> QED BY <1>s, <2>1, <2>3, <2>4, <2>5 DEF RunnerInv

\* A tick begins with the listener of a hub that is gone.
<1>d. ASSUME DropListener, UNCHANGED <<commits, bumps, seq, lost>>
      PROVE  /\ SignalTypeOK' /\ AllBehind'
             /\ \A h \in Listeners : bg.hub = h =>
                  lis'[h] = lis[h] /\ (WillSignal(h)' <=> WillSignal(h)) /\ Kept = h
             /\ Kept \in Listeners \cup {None}
  <2>1. CASE Gone
    <3>1. bg.remote \in Listeners /\ bg.remote # bg.hub
      BY <1>n, <2>1 DEF Gone, Locals
    <3>2. lis' = [lis EXCEPT ![bg.remote] = Halted(bg.remote)]
      BY <1>d, <2>1 DEF DropListener
    <3>3. /\ SignalTypeOK' /\ AllBehind'
          /\ \A k \in Listeners \ {bg.remote} : lis'[k] = lis[k] /\ (WillSignal(k)' <=> WillSignal(k))
      BY <1>t, <1>d, <3>1, <3>2, ListenerMoves
    <3>4. bg.hub = None
      BY <1>t, <3>1 DEF Stages
    <3> QED BY <2>1, <3>3, <3>4 DEF Kept
  <2>2. CASE ~Gone
    <3>1. UNCHANGED signal
      BY <1>d, <2>2 DEF DropListener, signal
    <3>2. Kept = bg.remote
      BY <2>2 DEF Kept
    <3> QED BY <1>s, <1>t, <1>n, <1>l, <3>1, <3>2 DEF Stages, Locals
  <2> QED BY <2>1, <2>2
<1>6. CASE Disabled
  <2>1. /\ DropListener /\ session' = FALSE
        /\ UNCHANGED <<commits, bumps, seq, lost, prefs, edits, sent, pulled, touched, failures>>
        /\ bg' = [bg EXCEPT !.hub = None, !.remote = Kept, !.known = None, !.next = TRUE,
                             !.state = "disabled"] /\ bg.pc = "top"
    BY <1>6 DEF Disabled
  <2>2. /\ bg' \in Locals /\ bg'.pc = "top" /\ bg'.cursor = bg.cursor
        /\ bg'.snapshot = bg.snapshot /\ bg'.hub = None /\ bg'.state = "disabled"
    BY <1>n, <1>d, <2>1 DEF Locals, Running
  <2>3. RunnerTypes'
    BY <1>t, <1>d, <2>1, <2>2 DEF RunnerTypes, Locals
  <2>4. Bounds' /\ Stages'
    BY <1>t, <1>n, <2>1, <2>2 DEF Bounds, Stages, Idle
  <2>5. RemoteInv' /\ LocalInv'
    BY <2>2 DEF RemoteInv, LocalInv, Idle
  <2> QED BY <1>d, <2>1, <2>3, <2>4, <2>5 DEF RunnerInv
<1>7. CASE Read
  <2> DEFINE seen == [bg EXCEPT !.pc = "decide", !.changed = touched, !.remote = Kept]
             new == prefs.revision # bg.known
  <2>1. /\ DropListener /\ touched' = FALSE /\ bg.pc = "top"
        /\ session' = (session /\ ~new)
        /\ bg' = IF new THEN [seen EXCEPT !.hub = None, !.next = TRUE, !.known = prefs.revision]
                 ELSE seen
        /\ UNCHANGED <<commits, bumps, seq, lost, prefs, edits, sent, pulled, failures>>
    BY <1>7 DEF Read
  <2>s. /\ seen \in Locals /\ seen.pc = "decide" /\ seen.changed = touched /\ seen.remote = Kept
        /\ seen.cursor = bg.cursor /\ seen.snapshot = bg.snapshot /\ seen.hub = bg.hub
        /\ seen.state = bg.state /\ seen.again = bg.again /\ seen.next = bg.next
    BY <1>n, <1>t, <1>d, <2>1 DEF Locals, RunnerTypes
  <2>p. prefs.revision \in 0 .. MaxConfigs
    BY <1>t DEF RunnerTypes
  <2> HIDE DEF seen, new
  <2>2. /\ bg' \in Locals /\ bg'.pc = "decide" /\ bg'.cursor = bg.cursor
        /\ bg'.snapshot = bg.snapshot /\ bg'.state = bg.state /\ bg'.again = bg.again
        /\ bg'.changed = touched /\ bg'.remote = Kept
        /\ (new => bg'.hub = None /\ bg'.next = TRUE /\ session' = FALSE)
        /\ (~new => bg'.hub = bg.hub /\ bg'.next = bg.next /\ session' = session)
    <3>1. CASE new
      BY <2>1, <2>s, <2>p, <3>1 DEF Locals
    <3>2. CASE ~new
      BY <1>t, <2>1, <2>s, <3>2 DEF RunnerTypes
    <3> QED BY <3>1, <3>2
  <2>3. RunnerTypes'
    BY <1>t, <1>d, <2>1, <2>2 DEF RunnerTypes, Locals
  <2>i. bg.hub # None => lis'[bg.hub] = lis[bg.hub] /\ Kept = bg.hub
    BY <1>l, <1>d, <2>1
  <2>4. Bounds' /\ Stages'
    BY <1>t, <1>n, <2>1, <2>2, <2>i DEF Bounds, Stages, Idle
  <2>5. RemoteInv'
    BY <1>t, <1>d, <2>1, <2>2 DEF RemoteInv, RoundCovers, Idle
  <2>6. LocalInv'
    BY <1>t, <2>1, <2>2 DEF LocalInv, Idle
  <2> QED BY <1>d, <2>1, <2>3, <2>4, <2>5, <2>6 DEF RunnerInv
<1>8. CASE Decide
  <2> DEFINE looked == [bg EXCEPT !.changed = FALSE]
  <2>1. /\ bg.pc = "decide" /\ UNCHANGED <<commits, bumps, seq, lost>>
        /\ lis' = IF bg.remote = None THEN lis
                  ELSE [lis EXCEPT ![bg.remote] = Taken(bg.remote)]
        /\ UNCHANGED <<prefs, edits, sent, pulled, touched, session, failures>>
    BY <1>8 DEF Decide
  <2>k. looked \in Locals /\ looked.hub = bg.hub /\ looked.remote = bg.remote
        /\ looked.cursor = bg.cursor /\ looked.snapshot = bg.snapshot
        /\ looked.state = bg.state /\ looked.next = bg.next /\ looked.again = bg.again
    BY <1>n DEF Locals
  <2>2. /\ SignalTypeOK' /\ AllBehind'
        /\ \A h \in Listeners : bg.hub = h =>
             /\ lis'[h].pc = lis[h].pc /\ lis'[h].stopped = lis[h].stopped
             /\ ~lis[h].changed => (WillSignal(h)' <=> WillSignal(h))
    <3>1. CASE bg.remote = None
      <4>1. UNCHANGED signal
        BY <2>1, <3>1 DEF signal
      <4> QED BY <1>s, <4>1
    <3>2. CASE bg.remote # None
      <4>1. PICK k \in Listeners : k = bg.remote
        BY <1>n, <3>2 DEF Locals
      <4>2. /\ SignalTypeOK' /\ AllBehind' /\ lis'[k] = Taken(k)
        BY <1>t, <2>1, <3>2, <4>1, ListenerMoves
      <4>3. lis[k] \in ListenerTypes
        BY <1>t DEF SignalTypeOK
      <4>4. /\ lis'[k].pc = lis[k].pc /\ lis'[k].seen = lis[k].seen
            /\ lis'[k].got = lis[k].got /\ lis'[k].changed = FALSE
            /\ lis'[k].stopped = lis[k].stopped
        BY <4>2, <4>3 DEF Taken, ListenerTypes
      <4>5. ~lis[k].changed => (WillSignal(k)' <=> WillSignal(k))
        BY <2>1, <4>4 DEF WillSignal, News
      <4>6. \A h \in Listeners : bg.hub = h => h = k
        BY <1>t, <4>1 DEF Stages
      <4> QED BY <4>2, <4>4, <4>5, <4>6
    <3> QED BY <3>1, <3>2
  <2>i. bg.hub # None => lis'[bg.hub].pc = lis[bg.hub].pc /\ lis'[bg.hub].stopped = lis[bg.hub].stopped
    BY <1>l, <2>2
  <2>3. CASE Due \/ Wanted
    <3>1. \/ /\ bg.hub = None
             /\ bg' = [looked EXCEPT !.pc = "auth", !.again = FALSE, !.state = "authenticating"]
          \/ /\ bg.hub # None
             /\ bg' = [looked EXCEPT !.pc = "cursor", !.again = FALSE, !.state = "syncing"]
      BY <1>8, <2>3 DEF Decide
    <3> HIDE DEF looked
    <3>2. /\ bg' \in Locals /\ bg'.cursor = bg.cursor /\ bg'.snapshot = bg.snapshot
          /\ bg'.hub = bg.hub /\ bg'.remote = bg.remote
          /\ bg'.state \in {"authenticating", "syncing"}
          /\ bg'.pc = (IF bg.hub = None THEN "auth" ELSE "cursor")
      <4>1. CASE bg.hub = None
        <5>1. bg' = [looked EXCEPT !.pc = "auth", !.again = FALSE, !.state = "authenticating"]
          BY <3>1, <4>1
        <5>2. "authenticating" \in Running
          BY DEF Running
        <5>3. bg' \in Locals /\ bg'.state = "authenticating" /\ bg'.pc = "auth"
          BY <2>k, <5>1, <5>2 DEF Locals
        <5>4. /\ bg'.cursor = looked.cursor /\ bg'.snapshot = looked.snapshot
              /\ bg'.hub = looked.hub /\ bg'.remote = looked.remote
          BY <2>k, <5>1 DEF Locals
        <5> QED BY <2>k, <4>1, <5>3, <5>4
      <4>2. CASE bg.hub # None
        <5>1. bg' = [looked EXCEPT !.pc = "cursor", !.again = FALSE, !.state = "syncing"]
          BY <3>1, <4>2
        <5>2. "syncing" \in Running
          BY DEF Running
        <5>3. bg' \in Locals /\ bg'.state = "syncing" /\ bg'.pc = "cursor"
          BY <2>k, <5>1, <5>2 DEF Locals
        <5>4. /\ bg'.cursor = looked.cursor /\ bg'.snapshot = looked.snapshot
              /\ bg'.hub = looked.hub /\ bg'.remote = looked.remote
          BY <2>k, <5>1 DEF Locals
        <5> QED BY <2>k, <4>2, <5>3, <5>4
      <4> QED BY <4>1, <4>2
    <3>3. RunnerTypes'
      BY <1>t, <2>1, <2>2, <3>2 DEF RunnerTypes, Locals
    <3>4. Bounds' /\ Stages'
      BY <1>t, <1>n, <2>1, <2>i, <3>2 DEF Bounds, Stages, Idle
    <3>5. RemoteInv' /\ LocalInv'
      BY <3>2 DEF RemoteInv, LocalInv, Idle
    <3> QED BY <2>2, <3>3, <3>4, <3>5 DEF RunnerInv
  <2>4. CASE ~(Due \/ Wanted)
    <3>1. bg' = [looked EXCEPT !.pc = "top"]
      BY <1>8, <2>4 DEF Decide
    <3> HIDE DEF looked
    <3>2. /\ bg' \in Locals /\ bg'.cursor = bg.cursor /\ bg'.snapshot = bg.snapshot
          /\ bg'.hub = bg.hub /\ bg'.remote = bg.remote /\ bg'.state = bg.state
          /\ bg'.pc = "top" /\ bg'.next = bg.next /\ bg'.again = bg.again
      BY <2>k, <3>1 DEF Locals
    <3>3. RunnerTypes'
      BY <1>t, <2>1, <2>2, <3>2 DEF RunnerTypes, Locals
    <3>4. Bounds' /\ Stages'
      BY <1>t, <1>n, <2>1, <2>i, <3>2 DEF Bounds, Stages, Idle
    <3>5. Idle /\ bg.hub # None => ~bg.changed /\ ~bg.again /\ ~lis[bg.hub].changed
      <4> SUFFICES ASSUME Idle, bg.hub # None PROVE ~bg.changed /\ ~bg.again /\ ~Signalled
        BY <1>t DEF Stages, Signalled
      <4> QED BY <2>4 DEF Wanted
    <3>6. RemoteInv'
      BY <1>t, <2>1, <2>2, <3>2, <3>5 DEF RemoteInv, RoundCovers, Idle
    <3>7. LocalInv'
      BY <1>t, <2>1, <3>2, <3>5 DEF LocalInv, Stages, Idle
    <3> QED BY <2>2, <3>3, <3>4, <3>6, <3>7 DEF RunnerInv
  <2> QED BY <2>3, <2>4
<1>9. CASE Auth
  <2> DEFINE l == CHOOSE free \in Free : TRUE
  <2>1. /\ Free # {} /\ lis' = [lis EXCEPT ![l] = Started(l)] /\ session' = TRUE
        /\ bg' = [bg EXCEPT !.pc = "cursor", !.hub = l, !.remote = l, !.state = "syncing"]
        /\ UNCHANGED <<commits, bumps, seq, lost, prefs, edits, sent, pulled, touched, failures>>
    BY <1>9 DEF Auth
  <2>l. l \in Listeners
    BY <2>1 DEF Free
  <2> HIDE DEF l
  <2>2. /\ SignalTypeOK' /\ AllBehind' /\ lis'[l] = Started(l)
    BY <1>t, <2>1, <2>l, ListenerMoves
  <2>3. Started(l).pc = "ask" /\ ~Started(l).stopped
    BY DEF Started, NewListener
  <2>4. /\ bg' \in Locals /\ bg'.cursor = bg.cursor /\ bg'.snapshot = bg.snapshot
        /\ bg'.hub = l /\ bg'.remote = l /\ bg'.state = "syncing" /\ bg'.pc = "cursor"
    BY <1>n, <2>1, <2>l DEF Locals, Running
  <2>5. RunnerTypes'
    BY <1>t, <2>1, <2>2, <2>4 DEF RunnerTypes, Locals
  <2>6. Bounds' /\ Stages'
    BY <1>t, <1>n, <2>1, <2>l, <2>2, <2>3, <2>4 DEF Bounds, Stages, Idle
  <2>7. RemoteInv' /\ LocalInv'
    BY <2>4 DEF RemoteInv, LocalInv, Idle
  <2> QED BY <2>2, <2>5, <2>6, <2>7 DEF RunnerInv

\* A failed round is not idle, and keeps the hub unless its credential was refused.
<1>f. ASSUME NEW kind, bg' = Failed(kind), UNCHANGED <<signal, prefs, edits, sent>>,
             pulled' \in {pulled, bg.cursor}, touched' \in BOOLEAN,
             session' \in BOOLEAN, session' => session /\ kind # "denied",
             failures' \in 0 .. MaxFailures
      PROVE  RunnerInv'
  <2> DEFINE hub == IF KeepsHub(kind) THEN bg.hub ELSE None
  <2>h. hub \in Listeners \cup {None} /\ (hub # None => hub = bg.hub)
        /\ (kind # "denied" => hub = bg.hub)
    BY <1>n DEF KeepsHub, Locals
  <2>1. bg' = [bg EXCEPT !.pc = "top", !.state = "retrying", !.hub = hub,
                         !.next = FALSE, !.cursor = 0, !.snapshot = 0]
    BY <1>f DEF Failed
  <2> HIDE DEF hub
  <2>2. /\ bg' \in Locals /\ bg'.cursor = 0 /\ bg'.snapshot = 0
        /\ bg'.hub = hub /\ bg'.remote = bg.remote /\ bg'.state = "retrying" /\ bg'.pc = "top"
    BY <1>n, <2>h, <2>1 DEF Locals, Running
  <2>3. pulled' \in Nat /\ pulled' <= commits
    BY <1>t, <1>n, <1>f DEF Bounds
  <2>4. RunnerTypes'
    BY <1>t, <1>s, <1>f, <2>2, <2>3 DEF RunnerTypes, Locals
  <2>5. Bounds' /\ Stages'
    BY <1>t, <1>n, <1>s, <1>f, <2>h, <2>2, <2>3 DEF Bounds, Stages, Idle
  <2>6. RemoteInv' /\ LocalInv'
    BY <2>2 DEF RemoteInv, LocalInv, Idle
  <2> QED BY <1>s, <1>f, <2>4, <2>5, <2>6 DEF RunnerInv
<1>m. failures < MaxFailures => failures + 1 \in 0 .. MaxFailures
  BY <1>t DEF RunnerTypes
<1>10. CASE Reject
  <2>1. /\ bg' = Failed("rejected") /\ pulled' = bg.cursor /\ touched' = TRUE
        /\ failures < MaxFailures /\ failures' = failures + 1
        /\ UNCHANGED <<signal, prefs, edits, sent, session>>
    BY <1>10 DEF Reject
  <2> QED BY <1>t, <1>f, <1>m, <2>1 DEF RunnerTypes
<1>11. ASSUME NEW kind \in Kinds, Fail(kind) PROVE RunnerInv'
  <2>1. /\ bg' = Failed(kind) /\ UNCHANGED <<signal, prefs, edits, sent, pulled>>
        /\ failures < MaxFailures /\ failures' = failures + 1
        /\ touched' = (touched \/ bg.pc = "finish")
        /\ session' = (session /\ kind # "denied")
    BY <1>11 DEF Fail
  <2>2. touched' \in BOOLEAN /\ session' \in BOOLEAN /\ (session' => session /\ kind # "denied")
    BY <1>t, <2>1 DEF RunnerTypes
  <2> QED BY <1>f, <1>m, <2>1, <2>2
<1>12. CASE Restart
  <2> DEFINE state == IF bg.pc \in {"absorb", "pending"} THEN "syncing" ELSE bg.state
  <2>1. /\ failures < MaxFailures /\ failures' = failures + 1
        /\ lis' = [l \in Listeners |-> NewListener] /\ bg' = Launched(state)
        /\ touched' = FALSE /\ session' = FALSE
        /\ UNCHANGED <<commits, bumps, seq, lost, prefs, edits, sent, pulled>>
    BY <1>12 DEF Restart
  <2>s. state \in Running
    BY <1>n DEF Locals, Running
  <2> HIDE DEF state
  <2>2. /\ bg' \in Locals /\ bg'.cursor = 0 /\ bg'.snapshot = 0 /\ bg'.hub = None
        /\ bg'.remote = None /\ bg'.pc = "top" /\ bg'.next = TRUE
    BY <2>1, <2>s DEF Launched, Locals
  <2>3. NewListener \in ListenerTypes /\ NewListener.seen = -1 /\ NewListener.got = -1
    BY DEF NewListener, ListenerTypes, Unseen
  <2>4. SignalTypeOK'
    BY <1>t, <2>1, <2>3 DEF SignalTypeOK
  <2>5. AllBehind'
    <3>1. seq' \in Nat
      BY <1>t, <2>1 DEF SignalTypeOK
    <3> QED BY <2>1, <2>3, <3>1 DEF AllBehind, NotAhead
  <2>6. RunnerTypes'
    BY <1>t, <1>m, <2>1, <2>2, <2>4 DEF RunnerTypes, Locals
  <2>7. Bounds' /\ Stages'
    BY <1>t, <1>n, <2>1, <2>2 DEF Bounds, Stages, Idle
  <2>8. RemoteInv' /\ LocalInv'
    BY <2>2 DEF RemoteInv, LocalInv
  <2> QED BY <2>5, <2>6, <2>7, <2>8 DEF RunnerInv
<1>13. ASSUME NEW on \in BOOLEAN, Configure(on) PROVE RunnerInv'
  <2>1. /\ prefs.revision < MaxConfigs /\ prefs' = [enabled |-> on, revision |-> prefs.revision + 1]
        /\ UNCHANGED <<signal, bg, edits, sent, pulled, touched, session, failures>>
    BY <1>13 DEF Configure
  <2>2. RunnerTypes'
    BY <1>t, <1>s, <2>1 DEF RunnerTypes, Locals
  <2>3. Bounds' /\ Stages' /\ LocalInv'
    BY <1>t, <1>s, <2>1 DEF Bounds, Stages, Idle, LocalInv
  <2>4. RemoteInv'
    BY <1>t, <1>l, <1>s, <2>1 DEF RemoteInv, RoundCovers, Idle
  <2> QED BY <1>s, <2>1, <2>2, <2>3, <2>4 DEF RunnerInv
<1>14. CASE Edit
  <2>1. /\ edits < MaxEdits /\ edits' = edits + 1 /\ touched' = TRUE
        /\ UNCHANGED <<signal, prefs, bg, sent, pulled, session, failures>>
    BY <1>14 DEF Edit
  <2>2. RunnerTypes'
    BY <1>t, <1>s, <2>1 DEF RunnerTypes, Locals
  <2>3. Bounds' /\ Stages' /\ LocalInv'
    BY <1>t, <1>n, <1>s, <2>1 DEF Bounds, Stages, Idle, LocalInv
  <2>4. RemoteInv'
    BY <1>t, <1>l, <1>s, <2>1 DEF RemoteInv, RoundCovers, Idle
  <2> QED BY <1>s, <2>1, <2>2, <2>3, <2>4 DEF RunnerInv
<1>15. CASE NextOver \/ SafetyOver
  <2>1. /\ bg' = [bg EXCEPT !.next = TRUE] \/ bg' = [bg EXCEPT !.safety = TRUE]
        /\ UNCHANGED <<signal, prefs, edits, sent, pulled, touched, session, failures>>
    BY <1>15 DEF NextOver, SafetyOver
  <2>2. /\ bg' \in Locals /\ bg'.cursor = bg.cursor /\ bg'.snapshot = bg.snapshot
        /\ bg'.hub = bg.hub /\ bg'.remote = bg.remote /\ bg'.state = bg.state
        /\ bg'.pc = bg.pc /\ (bg.next => bg'.next) /\ bg'.again = bg.again
        /\ bg'.changed = bg.changed
    <3>1. CASE bg' = [bg EXCEPT !.next = TRUE]
      BY <1>n, <3>1 DEF Locals
    <3>2. CASE bg' = [bg EXCEPT !.safety = TRUE]
      BY <1>n, <3>2 DEF Locals
    <3> QED BY <2>1, <3>1, <3>2
  <2>3. RunnerTypes'
    BY <1>t, <1>s, <2>1, <2>2 DEF RunnerTypes, Locals
  <2>4. Bounds' /\ Stages' /\ LocalInv'
    BY <1>t, <1>s, <2>1, <2>2 DEF Bounds, Stages, Idle, LocalInv
  <2>5. RemoteInv'
    BY <1>t, <1>l, <1>s, <2>1, <2>2 DEF RemoteInv, RoundCovers, Idle
  <2> QED BY <1>s, <2>1, <2>3, <2>4, <2>5 DEF RunnerInv
<1>16. CASE SignalNext /\ UNCHANGED runner
  <2>1. UNCHANGED <<prefs, bg, edits, sent, pulled, touched, session, failures>>
    BY <1>16 DEF runner
  <2>2. SignalTypeOK' /\ commits <= commits' /\ lost <= lost'
    BY <1>t, <1>16, SignalTypes
  <2>3. AllBehind'
    BY <1>t, <1>16, NotAheadKept DEF AllBehind
  <2>4. commits' \in Nat /\ lost' \in Nat
    BY <2>2 DEF SignalTypeOK
  <2>5. RunnerTypes'
    BY <1>t, <2>1, <2>2 DEF RunnerTypes, Locals
  <2>6. Bounds'
    BY <1>t, <1>n, <2>1, <2>2, <2>4 DEF Bounds
  <2>7. Stages'
    BY <1>t, <1>l, <1>16, <2>1, ListenerRuns DEF Stages, Idle
  <2>8. LocalInv'
    BY <1>t, <2>1 DEF LocalInv, Idle
  <2>9. RemoteInv'
    <3> SUFFICES ASSUME NEW h \in Listeners, lost' = 0, bg.hub = h,
                        Idle \/ bg.pc \in {"snapshot", "finish"}, RoundCovers < commits'
                 PROVE  WillSignal(h)'
      BY <2>1 DEF RemoteInv, RoundCovers, Idle
    <3>1. /\ NotAhead(h) /\ lis[h].pc \in {"ask", "polling", "answered"} /\ ~lis[h].stopped
      BY <1>t DEF Stages, AllBehind
    <3>2. /\ WillSignal(h) => WillSignal(h)'
          /\ commits < commits' => WillSignal(h)'
      BY <1>t, <1>16, <3>1, SignalKept
    <3>3. lost = 0 /\ (RoundCovers < commits \/ commits < commits')
      BY <1>n, <2>2, <2>4 DEF RoundCovers
    <3> QED BY <1>t, <3>2, <3>3 DEF RemoteInv
  <2> QED BY <2>3, <2>5, <2>6, <2>7, <2>8, <2>9 DEF RunnerInv
<1>17. CASE UNCHANGED vars
  <2>1. UNCHANGED <<signal, prefs, bg, edits, sent, pulled, touched, session, failures>>
    BY <1>17 DEF vars, runner
  <2>2. RunnerTypes' /\ Bounds' /\ Stages' /\ LocalInv'
    BY <1>t, <1>s, <2>1 DEF RunnerTypes, Locals, Bounds, Stages, Idle, LocalInv
  <2>3. RemoteInv'
    BY <1>t, <1>l, <1>s, <2>1 DEF RemoteInv, RoundCovers, Idle
  <2> QED BY <1>s, <2>1, <2>2, <2>3 DEF RunnerInv
<1> QED BY <1>1, <1>2, <1>3, <1>4, <1>5, <1>6, <1>7, <1>8, <1>9, <1>10, <1>11, <1>12, <1>13,
           <1>14, <1>15, <1>16, <1>17 DEF Next, Loop, Time

LEMMA RunnerAlways == Spec => []RunnerInv
<1> QED BY RunnerStarts, RunnerStep, PTL DEF Spec

-----------------------------------------------------------------------------
(* What it promises *)

\* The background runner keeps its types: a round has a hub and its listener, and no more
\* is sent or pulled than was written or committed (background.py, run).
THEOREM RunnerIsTyped == Spec => []TypeOK
<1>1. ASSUME RunnerInv PROVE TypeOK
  <2>1. RunnerTypes /\ Bounds /\ Stages
    BY <1>1 DEF RunnerInv
  <2>2. /\ SignalTypeOK /\ commits \in Nat /\ edits \in Nat /\ sent \in Nat /\ pulled \in Nat
        /\ bg.cursor \in Nat /\ bg.snapshot \in Nat /\ bg \in Locals
    BY <2>1, SignalAssumption, RunnerAssumption DEF RunnerTypes, SignalTypeOK, Locals
  <2>3. /\ sent \in 0 .. edits /\ pulled \in 0 .. commits
        /\ bg.cursor \in 0 .. commits /\ bg.snapshot \in 0 .. edits
    BY <2>1, <2>2 DEF Bounds
  <2>4. bg \in [pc : {"top", "decide", "auth", "cursor", "snapshot", "finish",
                     "absorb", "pending"},
               state : Running, known : {None} \cup (0 .. MaxConfigs),
               hub : Listeners \cup {None}, remote : Listeners \cup {None},
               changed : BOOLEAN, again : BOOLEAN, next : BOOLEAN, safety : BOOLEAN,
               cursor : 0 .. commits, snapshot : 0 .. edits]
    BY <2>2, <2>3 DEF Locals
  <2> QED BY <2>1, <2>3, <2>4 DEF TypeOK, RunnerTypes, Stages
<1> QED BY <1>1, RunnerAlways, PTL

\* An idle runner misses no change, for any number of commits, writes, configurations,
\* failures and restarts: unless a bump was lost, a commit it has not pulled is being
\* signalled, and a write it has not sent is seen by the fingerprint, by the look for
\* writes made during the round, or before the next one (background.py, run).
THEOREM RunnerNotices == Spec => []ChangesNoticed
<1>1. ASSUME RunnerInv PROVE ChangesNoticed
  <2>1. Stages /\ RemoteInv /\ LocalInv
    BY <1>1 DEF RunnerInv
  <2>2. RemoteNoticed
    <3> SUFFICES ASSUME lost = 0, Idle, pulled < commits, ~bg.next
                 PROVE  bg.hub # None /\ WillSignal(bg.remote)
      BY DEF RemoteNoticed
    <3>1. bg.hub # None /\ bg.remote = bg.hub /\ bg.pc \notin {"snapshot", "finish"}
      BY <2>1 DEF Stages
    <3>2. bg.hub \in Listeners
      BY <1>1, <3>1 DEF RunnerInv, RunnerTypes, Locals
    <3>3. WillSignal(bg.hub)
      BY <2>1, <3>1, <3>2 DEF RemoteInv, RoundCovers
    <3> QED BY <3>1, <3>3
  <2>3. LocalNoticed
    BY <2>1 DEF LocalNoticed, LocalInv
  <2> QED BY <2>2, <2>3 DEF ChangesNoticed
<1> QED BY <1>1, RunnerAlways, PTL

\* "A credential command is read once per enabled session/configuration": the runner
\* authenticates only when it has no session, because a session goes with a hub and
\* every step that forgets the hub ends it.
THEOREM CredentialIsReadOnce == Spec => []CredentialOnce
<1>1. ASSUME RunnerInv PROVE CredentialOnce
  BY <1>1 DEF RunnerInv, Stages, CredentialOnce
<1> QED BY <1>1, RunnerAlways, PTL
=============================================================================
