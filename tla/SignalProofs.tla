---------------------------- MODULE SignalProofs ----------------------------
(***************************************************************************)
(* Facts about the change signal and its listeners that the proofs about the *)
(* two loops share: its types, and that a listener which runs tells its loop   *)
(* of every commit whose bump is not lost.                                    *)
(***************************************************************************)
EXTENDS ChangeSignal, TLAPS

\* The signal's own steps keep its types: a bump is counted once.
LEMMA SignalTypes ==
  ASSUME SignalTypeOK, SignalNext
  PROVE  SignalTypeOK' /\ commits <= commits' /\ lost <= lost'
<1> DEFINE Grows == commits <= commits' /\ lost <= lost'
<1> USE SignalAssumption DEF SignalTypeOK
<1>1. CASE Commit
  BY <1>1 DEF Commit
<1>2. CASE Bump
  BY <1>2 DEF Bump
<1>3. CASE LoseBump
  BY <1>3 DEF LoseBump
<1>4. ASSUME NEW l \in Listeners, Ask(l) PROVE SignalTypeOK' /\ Grows
  <2>1. Over \in ListenerTypes /\ [lis[l] EXCEPT !.pc = "polling"] \in ListenerTypes
    BY DEF ListenerTypes, Over, NewListener, Unseen
  <2>2. QED
    BY <1>4, <2>1 DEF Ask
<1>5. ASSUME NEW l \in Listeners, Answer(l) PROVE SignalTypeOK' /\ Grows
  <2>1. [lis[l] EXCEPT !.pc = "answered", !.got = seq, !.live = TRUE] \in ListenerTypes
    BY DEF ListenerTypes
  <2>2. lis' = [lis EXCEPT ![l] = [lis[l] EXCEPT !.pc = "answered", !.got = seq,
                                                 !.live = TRUE]]
    BY <1>5 DEF Answer
  <2>3. QED
    BY <1>5, <2>1, <2>2 DEF Answer
<1>6. ASSUME NEW l \in Listeners, Notice(l) PROVE SignalTypeOK' /\ Grows
  <2> DEFINE heard == lis[l].changed \/ News(l)
             noticed == [lis[l] EXCEPT !.pc = "ask", !.seen = lis[l].got, !.got = Unseen,
                                       !.changed = heard]
  <2>1. lis[l] \in ListenerTypes /\ heard \in BOOLEAN
    BY DEF ListenerTypes, News
  <2>2. noticed \in ListenerTypes
    <3> HIDE DEF heard
    <3> QED
      BY <2>1 DEF ListenerTypes, Unseen
  <2>3. lis' = [lis EXCEPT ![l] = noticed]
    BY <1>6 DEF Notice
  <2> HIDE DEF noticed
  <2>4. QED
    BY <1>6, <2>2, <2>3 DEF Notice
<1>7. ASSUME NEW l \in Listeners, PollFails(l) PROVE SignalTypeOK' /\ Grows
  <2>1. [lis[l] EXCEPT !.pc = "ask", !.live = FALSE] \in ListenerTypes
    BY DEF ListenerTypes
  <2>2. lis' = [lis EXCEPT ![l] = [lis[l] EXCEPT !.pc = "ask", !.live = FALSE]]
    BY <1>7 DEF PollFails
  <2>3. lost' \in 0 .. MaxLost
    BY <1>7 DEF PollFails
  <2>4. QED
    BY <1>7, <2>1, <2>2, <2>3 DEF PollFails
<1>8. QED
  BY <1>1, <1>2, <1>3, <1>4, <1>5, <1>6, <1>7 DEF SignalNext, Listen

\* What a loop does to its listener keeps the listener's types.
LEMMA ListenerKept ==
  ASSUME SignalTypeOK, NEW l \in Listeners
  PROVE  /\ lis[l] \in ListenerTypes
         /\ Started(l) \in ListenerTypes
         /\ Taken(l) \in ListenerTypes
BY DEF SignalTypeOK, ListenerTypes, Started, Taken, NewListener, Unseen

LEMMA SignalMoved ==
  ASSUME SignalTypeOK, UNCHANGED <<commits, bumps, seq, lost>>,
         NEW l \in Listeners, NEW v \in ListenerTypes, lis' = [lis EXCEPT ![l] = v]
  PROVE  SignalTypeOK'
BY DEF SignalTypeOK

LEMMA SignalSame ==
  ASSUME SignalTypeOK, UNCHANGED signal
  PROVE  SignalTypeOK'
BY DEF SignalTypeOK, signal

\* A listener stays behind the sequence.
LEMMA NotAheadKept ==
  ASSUME SignalTypeOK, NEW k \in Listeners, SignalNext, NotAhead(k)
  PROVE  NotAhead(k)'
<1>0. /\ lis \in [Listeners -> ListenerTypes]
      /\ seq \in Nat /\ Unseen <= seq
      /\ lis[k].seen \in Int /\ lis[k].got \in Int
  BY SignalAssumption DEF SignalTypeOK, ListenerTypes, Unseen
<1>1. CASE Commit \/ Bump \/ LoseBump
  BY <1>0, <1>1 DEF Commit, Bump, LoseBump, NotAhead
<1>2. ASSUME NEW l \in Listeners, Ask(l) \/ Answer(l) \/ Notice(l) \/ PollFails(l),
             l # k
      PROVE  NotAhead(k)'
  BY <1>0, <1>2 DEF Ask, Answer, Notice, PollFails, NotAhead
<1>3. CASE Ask(k)
  BY <1>0, <1>3 DEF Ask, Over, NewListener, ListenerTypes, NotAhead
<1>4. CASE Answer(k)
  BY <1>0, <1>4 DEF Answer, ListenerTypes, NotAhead
<1>5. CASE Notice(k)
  BY <1>0, <1>5 DEF Notice, ListenerTypes, NotAhead
<1>6. CASE PollFails(k)
  BY <1>0, <1>6 DEF PollFails, ListenerTypes, NotAhead
<1>7. QED
  BY <1>1, <1>2, <1>3, <1>4, <1>5, <1>6 DEF SignalNext, Listen

\* A listener that is not stopped keeps running.
LEMMA ListenerRuns ==
  ASSUME SignalTypeOK, NEW k \in Listeners, SignalNext,
         lis[k].pc \in {"ask", "polling", "answered"}, ~lis[k].stopped
  PROVE  lis'[k].pc \in {"ask", "polling", "answered"} /\ ~lis'[k].stopped
<1>0. lis \in [Listeners -> ListenerTypes]
  BY SignalAssumption DEF SignalTypeOK
<1>1. CASE Commit \/ Bump \/ LoseBump
  BY <1>1 DEF Commit, Bump, LoseBump
<1>2. ASSUME NEW l \in Listeners, Ask(l) \/ Answer(l) \/ Notice(l) \/ PollFails(l),
             l # k
      PROVE  lis'[k] = lis[k]
  BY <1>0, <1>2 DEF Ask, Answer, Notice, PollFails
<1>3. CASE Ask(k)
  BY <1>0, <1>3 DEF Ask, ListenerTypes
<1>4. CASE Answer(k)
  BY <1>0, <1>4 DEF Answer, ListenerTypes
<1>5. CASE Notice(k)
  BY <1>0, <1>5 DEF Notice, ListenerTypes
<1>6. CASE PollFails(k)
  BY <1>0, <1>6 DEF PollFails, ListenerTypes
<1>7. QED
  BY <1>1, <1>2, <1>3, <1>4, <1>5, <1>6 DEF SignalNext, Listen

\* A listener that has something to say keeps it until its loop takes it, and a
\* commit gives it something to say.
LEMMA SignalKept ==
  ASSUME SignalTypeOK, NEW k \in Listeners, SignalNext, NotAhead(k), lost' = 0,
         lis[k].pc \in {"ask", "polling", "answered"}, ~lis[k].stopped
  PROVE  /\ WillSignal(k) => WillSignal(k)'
         /\ commits < commits' => WillSignal(k)'
<1> USE SignalAssumption
<1> DEFINE Goal == /\ WillSignal(k) => WillSignal(k)'
                   /\ commits < commits' => WillSignal(k)'
<1>0. /\ lis \in [Listeners -> ListenerTypes]
      /\ \A l \in Listeners : lis[l].changed \in BOOLEAN
      /\ commits \in Nat /\ seq \in Nat /\ bumps \in Nat /\ lost \in Nat
  BY DEF SignalTypeOK, ListenerTypes
<1>1. CASE Commit
  BY <1>1, <1>0 DEF Commit, WillSignal
<1>2. CASE Bump
  <2>1. lis[k].seen # seq + 1 /\ lis[k].got # seq + 1
    <3>1. lis[k].seen \in Int /\ lis[k].got \in Int
      BY <1>0, SignalAssumption DEF ListenerTypes, Unseen
    <3>2. QED
      BY <1>0, <3>1 DEF NotAhead
  <2>2. UNCHANGED <<commits, lis>> /\ seq' = seq + 1 /\ bumps' = bumps - 1
    BY <1>2 DEF Bump
  <2>3. CASE lis[k].pc = "answered"
    BY <1>0, <2>1, <2>2, <2>3 DEF WillSignal, News
  <2>4. CASE lis[k].pc \in {"ask", "polling"}
    BY <1>0, <2>1, <2>2, <2>4 DEF WillSignal, News
  <2>5. QED
    BY <2>3, <2>4
<1>3. CASE LoseBump
  BY <1>3, <1>0 DEF LoseBump
<1>4. ASSUME NEW l \in Listeners, Ask(l) PROVE Goal
  <2>1. CASE l = k
    <3>1. lis'[k] = [lis[k] EXCEPT !.pc = "polling"]
      BY <1>4, <1>0, <2>1 DEF Ask
    <3>2. QED
      BY <1>4, <1>0, <2>1, <3>1 DEF Ask, WillSignal, ListenerTypes
  <2>2. CASE l # k
    BY <1>4, <1>0, <2>2 DEF Ask, WillSignal, News
  <2>3. QED
    BY <2>1, <2>2
<1>5. ASSUME NEW l \in Listeners, Answer(l) PROVE Goal
  <2>1. CASE l = k
    <3>1. lis'[k] = [lis[k] EXCEPT !.pc = "answered", !.got = seq, !.live = TRUE]
      BY <1>5, <1>0, <2>1 DEF Answer
    <3>2. QED
      BY <1>5, <1>0, <2>1, <3>1 DEF Answer, WillSignal, News, ListenerTypes
  <2>2. CASE l # k
    BY <1>5, <1>0, <2>2 DEF Answer, WillSignal, News
  <2>3. QED
    BY <2>1, <2>2
<1>6. ASSUME NEW l \in Listeners, Notice(l) PROVE Goal
  <2>1. CASE l = k
    <3>1. lis'[k] = [lis[k] EXCEPT !.pc = "ask", !.seen = lis[k].got,
                              !.got = Unseen, !.changed = lis[k].changed \/ News(k)]
      BY <1>6, <1>0, <2>1 DEF Notice
    <3> DEFINE heard == lis[k].changed \/ News(k)
    <3>2. lis'[k].pc = "ask" /\ lis'[k].seen = lis[k].got
          /\ lis'[k].changed = heard
      <4> HIDE DEF heard
      <4> lis'[k] = [lis[k] EXCEPT !.pc = "ask", !.seen = lis[k].got,
                             !.got = Unseen, !.changed = heard]
        BY <3>1 DEF heard
      <4> QED
        BY <1>0 DEF ListenerTypes
    <3>3. lis[k].pc = "answered" /\ UNCHANGED <<commits, bumps, seq>>
      BY <1>6, <2>1 DEF Notice
    <3>4. CASE heard
      BY <3>2, <3>4 DEF WillSignal
    <3>5. CASE ~heard
      BY <1>0, <3>2, <3>3, <3>5 DEF WillSignal
    <3>6. QED
      BY <3>4, <3>5
  <2>2. CASE l # k
    BY <1>6, <1>0, <2>2 DEF Notice, WillSignal, News
  <2>3. QED
    BY <2>1, <2>2
<1>7. ASSUME NEW l \in Listeners, PollFails(l) PROVE Goal
  BY <1>7, <1>0 DEF PollFails
<1>8. QED
  BY <1>1, <1>2, <1>3, <1>4, <1>5, <1>6, <1>7 DEF SignalNext, Listen
=============================================================================
