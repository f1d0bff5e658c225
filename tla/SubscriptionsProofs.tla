------------------------ MODULE SubscriptionsProofs ------------------------
(***************************************************************************)
(* A subscription implements the durable queue it promises (DurableQueue),  *)
(* and is sound.  Everything rests on one fact: the events kept of a           *)
(* subscription are a run, one event for each number after its acknowledged     *)
(* cursor and up to its last.  So a rank among them is a distance of numbers,  *)
(* and a delivery, which is a range of numbers, is a prefix of the queue.      *)
(*                                                                            *)
(* Then ApplePush: a drain whose claim still holds stands where the             *)
(* registration does, so nobody else has moved it on.                          *)
(***************************************************************************)
EXTENDS Subscriptions, ApplePush, FiniteSetTheorems, TLAPS

-----------------------------------------------------------------------------
(* Runs of events *)

Event == [seq : Nat, change : Nat]

\* One event for each number after `a`, up to `b`.
Run(es, a, b) ==
  /\ es \in SUBSET Event
  /\ \A e \in es : a < e.seq /\ e.seq <= b
  /\ \A n \in (a + 1) .. b : \E e \in es : e.seq = n
  /\ \A e, f \in es : e.seq = f.seq => e = f

\* The event with a number.
At(es, n) == CHOOSE e \in es : e.seq = n

\* A number of the run has its event, and no other.
LEMMA RunAt ==
  ASSUME NEW es, NEW a \in Nat, NEW b \in Nat, Run(es, a, b), NEW n \in (a + 1) .. b
  PROVE  /\ At(es, n) \in es /\ At(es, n).seq = n
         /\ \A e \in es : e.seq = n => e = At(es, n)
<1>1. \E e \in es : e.seq = n
  BY DEF Run
<1>2. At(es, n) \in es /\ At(es, n).seq = n
  BY <1>1 DEF At
<1> QED BY <1>2 DEF Run

\* A run is as large as the distance it covers.
LEMMA RunSize ==
  ASSUME NEW es, NEW a \in Nat, NEW b \in Nat, a <= b, Run(es, a, b)
  PROVE  IsFiniteSet(es) /\ Cardinality(es) = b - a
<1> DEFINE F == [n \in (a + 1) .. b |-> At(es, n)]
<1>1. F \in Bijection((a + 1) .. b, es)
  <2>1. F \in [(a + 1) .. b -> es]
    BY RunAt
  <2>2. \A m, n \in (a + 1) .. b : F[m] = F[n] => m = n
    BY RunAt
  <2>3. \A e \in es : \E n \in (a + 1) .. b : F[n] = e
    <3> SUFFICES ASSUME NEW e \in es PROVE \E n \in (a + 1) .. b : F[n] = e
      OBVIOUS
    <3>1. e.seq \in (a + 1) .. b
      BY DEF Run, Event
    <3>2. F[e.seq] = e
      BY <3>1, RunAt
    <3> QED BY <3>1, <3>2
  <2> QED BY <2>1, <2>2, <2>3 DEF Bijection, Injection, Surjection, IsInjective
<1>2. IsFiniteSet((a + 1) .. b) /\ Cardinality((a + 1) .. b) = b - a
  <2>1. a + 1 \in Int /\ b \in Int
    OBVIOUS
  <2>2. /\ IsFiniteSet((a + 1) .. b)
        /\ Cardinality((a + 1) .. b) = IF a + 1 > b THEN 0 ELSE b - (a + 1) + 1
    BY <2>1, FS_Interval
  <2> QED BY <2>2
<1>3. ExistsBijection((a + 1) .. b, es)
  BY <1>1 DEF ExistsBijection
<1> QED BY <1>2, <1>3, FS_Bijection

\* The run up to a number, and the run after it.
UpTo(es, n) == {e \in es : e.seq <= n}
Later(es, n) == {e \in es : e.seq > n}

LEMMA RunParts ==
  ASSUME NEW es, NEW a \in Nat, NEW b \in Nat, Run(es, a, b), NEW n \in a .. b
  PROVE  /\ Run(UpTo(es, n), a, n) /\ Run(Later(es, n), n, b)
         /\ \A k \in (a + 1) .. n : At(UpTo(es, n), k) = At(es, k)
         /\ \A k \in (n + 1) .. b : At(Later(es, n), k) = At(es, k)
<1>1. Run(UpTo(es, n), a, n)
  BY DEF Run, UpTo, Event
<1>2. Run(Later(es, n), n, b)
  BY DEF Run, Later, Event
<1>3. n \in Nat
  OBVIOUS
<1>4. ASSUME NEW k \in (a + 1) .. n PROVE At(UpTo(es, n), k) = At(es, k)
  <2>1. At(UpTo(es, n), k) \in UpTo(es, n) /\ At(UpTo(es, n), k).seq = k
    BY <1>1, <1>3, RunAt
  <2>2. k \in (a + 1) .. b
    OBVIOUS
  <2> QED BY <2>1, <2>2, RunAt DEF UpTo
<1>5. ASSUME NEW k \in (n + 1) .. b PROVE At(Later(es, n), k) = At(es, k)
  <2>1. At(Later(es, n), k) \in Later(es, n) /\ At(Later(es, n), k).seq = k
    BY <1>2, <1>3, RunAt
  <2>2. k \in (a + 1) .. b
    OBVIOUS
  <2> QED BY <2>1, <2>2, RunAt DEF Later
<1> QED BY <1>1, <1>2, <1>4, <1>5

\* In a run the k-th event is the one k numbers after its start.
LEMMA RunOrdered ==
  ASSUME NEW es, NEW a \in Nat, NEW b \in Nat, a <= b, Run(es, a, b)
  PROVE  /\ Ordered(es) = [k \in 1 .. (b - a) |-> At(es, a + k).change]
         /\ Ordered(es) \in Seq(Nat) /\ Len(Ordered(es)) = b - a
<1> DEFINE Kth(k) == CHOOSE e \in es : Cardinality({f \in es : f.seq <= e.seq}) = k
<1>1. Cardinality(es) = b - a
  BY RunSize
<1>2. ASSUME NEW k \in 1 .. (b - a) PROVE Kth(k) = At(es, a + k)
  <2>1. ASSUME NEW e \in es PROVE Cardinality({f \in es : f.seq <= e.seq}) = e.seq - a
    <3>1. e.seq \in a .. b /\ e.seq \in Nat
      BY DEF Run, Event
    <3>2. Run({f \in es : f.seq <= e.seq}, a, e.seq)
      BY <3>1, RunParts DEF UpTo
    <3>3. a <= e.seq
      BY <3>1
    <3> QED BY <3>1, <3>2, <3>3, RunSize
  <2>2. a + k \in (a + 1) .. b
    OBVIOUS
  <2>3. At(es, a + k) \in es /\ At(es, a + k).seq = a + k
    BY <2>2, RunAt
  <2>4. Kth(k) \in es /\ Cardinality({f \in es : f.seq <= Kth(k).seq}) = k
    BY <2>1, <2>3
  <2>5. Kth(k).seq - a = k /\ Kth(k).seq \in Nat
    BY <2>1, <2>4 DEF Run, Event
  <2>6. Kth(k).seq = a + k
    BY <2>5
  <2> QED BY <2>2, <2>4, <2>6, RunAt
<1>3. Ordered(es) = [k \in 1 .. (b - a) |-> Kth(k).change]
  BY <1>1 DEF Ordered
<1>4. Ordered(es) = [k \in 1 .. (b - a) |-> At(es, a + k).change]
  BY <1>2, <1>3
<1>5. \A k \in 1 .. (b - a) : At(es, a + k).change \in Nat
  <2> SUFFICES ASSUME NEW k \in 1 .. (b - a) PROVE At(es, a + k).change \in Nat
    OBVIOUS
  <2>1. a + k \in (a + 1) .. b
    OBVIOUS
  <2>2. At(es, a + k) \in Event
    BY <2>1, RunAt DEF Run
  <2> QED BY <2>2 DEF Event
<1> QED BY <1>4, <1>5

\* No events, no queue.
LEMMA NoneOrdered == Ordered({}) = << >>
<1>1. Run({}, 0, 0)
  BY DEF Run
<1>2. Ordered({}) \in Seq(Nat) /\ Len(Ordered({})) = 0
  BY <1>1, RunOrdered
<1> QED BY <1>2

\* The run up to a number is a prefix of the queue, the one after it the rest.
LEMMA PartsOrdered ==
  ASSUME NEW es, NEW a \in Nat, NEW b \in Nat, Run(es, a, b), NEW n \in a .. b
  PROVE  /\ Ordered(UpTo(es, n)) = SubSeq(Ordered(es), 1, n - a)
         /\ Ordered(Later(es, n)) = SubSeq(Ordered(es), n - a + 1, Len(Ordered(es)))
<1>1. /\ n \in Nat /\ a <= b /\ a <= n /\ n <= b
  OBVIOUS
<1>2. /\ Run(UpTo(es, n), a, n) /\ Run(Later(es, n), n, b)
      /\ \A k \in (a + 1) .. n : At(UpTo(es, n), k) = At(es, k)
      /\ \A k \in (n + 1) .. b : At(Later(es, n), k) = At(es, k)
  BY RunParts
<1>3. /\ Ordered(es) = [k \in 1 .. (b - a) |-> At(es, a + k).change]
      /\ Len(Ordered(es)) = b - a
  BY <1>1, RunOrdered
<1>4. Ordered(UpTo(es, n)) = [k \in 1 .. (n - a) |-> At(UpTo(es, n), a + k).change]
  BY <1>1, <1>2, RunOrdered
<1>5. Ordered(Later(es, n)) = [k \in 1 .. (b - n) |-> At(Later(es, n), n + k).change]
  BY <1>1, <1>2, RunOrdered
<1>6. SubSeq(Ordered(es), 1, n - a) = [k \in 1 .. (n - a) |-> Ordered(es)[k]]
  BY <1>1
<1>7. SubSeq(Ordered(es), n - a + 1, b - a) = [k \in 1 .. (b - n) |-> Ordered(es)[n - a + k]]
  <2>1. SubSeq(Ordered(es), n - a + 1, b - a)
          = [k \in 1 .. (1 + (b - a) - (n - a + 1)) |-> Ordered(es)[(n - a + 1) + k - 1]]
    OBVIOUS
  <2>2. 1 + (b - a) - (n - a + 1) = b - n
    BY <1>1
  <2>3. \A k \in 1 .. (b - n) : (n - a + 1) + k - 1 = n - a + k
    BY <1>1
  <2> QED BY <2>1, <2>2, <2>3
<1>8. ASSUME NEW k \in 1 .. (n - a) PROVE At(UpTo(es, n), a + k).change = Ordered(es)[k]
  BY <1>1, <1>2, <1>3
<1>9. ASSUME NEW k \in 1 .. (b - n) PROVE At(Later(es, n), n + k).change = Ordered(es)[n - a + k]
  <2>1. n + k \in (n + 1) .. b /\ n - a + k \in 1 .. (b - a) /\ a + (n - a + k) = n + k
    BY <1>1
  <2> QED BY <1>2, <1>3, <2>1
<1> QED BY ZenonT(40), <1>3, <1>4, <1>5, <1>6, <1>7, <1>8, <1>9

\* A new event goes to the end of the queue.
LEMMA MoreOrdered ==
  ASSUME NEW es, NEW a \in Nat, NEW b \in Nat, a <= b, Run(es, a, b), NEW c \in Nat
  PROVE  /\ Run(es \cup {[seq |-> b + 1, change |-> c]}, a, b + 1)
         /\ Ordered(es \cup {[seq |-> b + 1, change |-> c]}) = Append(Ordered(es), c)
<1> DEFINE new == [seq |-> b + 1, change |-> c]
           more == es \cup {new}
<1>1. new \in Event /\ new.seq = b + 1 /\ new.change = c
  BY DEF Event
<1>2. Run(more, a, b + 1)
  <2>1. more \in SUBSET Event
    BY <1>1 DEF Run
  <2>2. \A e \in more : a < e.seq /\ e.seq <= b + 1 /\ (e # new => e.seq <= b)
    BY <1>1 DEF Run, Event
  <2>3. \A n \in (a + 1) .. (b + 1) : \E e \in more : e.seq = n
    <3> SUFFICES ASSUME NEW n \in (a + 1) .. (b + 1) PROVE \E e \in more : e.seq = n
      OBVIOUS
    <3>1. CASE n = b + 1
      BY <1>1, <3>1
    <3>2. CASE n \in (a + 1) .. b
      BY <3>2 DEF Run
    <3> QED BY <3>1, <3>2
  <2>4. \A e, f \in more : e.seq = f.seq => e = f
    <3> SUFFICES ASSUME NEW e \in more, NEW f \in more, e.seq = f.seq PROVE e = f
      OBVIOUS
    <3>1. CASE e = new \/ f = new
      BY <1>1, <2>1, <2>2, <3>1 DEF Event
    <3>2. CASE e \in es /\ f \in es
      BY <3>2 DEF Run
    <3> QED BY <3>1, <3>2
  <2> QED BY <2>1, <2>2, <2>3, <2>4 DEF Run
<1>0. es \subseteq more /\ new \in more
  OBVIOUS
<1> HIDE DEF more
<1>3. /\ Ordered(es) = [k \in 1 .. (b - a) |-> At(es, a + k).change]
      /\ Ordered(es) \in Seq(Nat) /\ Len(Ordered(es)) = b - a
  BY RunOrdered
<1>4. Ordered(more) = [k \in 1 .. (b + 1 - a) |-> At(more, a + k).change]
  <2>1. a <= b + 1 /\ b + 1 \in Nat
    OBVIOUS
  <2> QED BY <1>2, <2>1, RunOrdered
<1>5. At(more, b + 1) = new
  <2>1. b + 1 \in (a + 1) .. (b + 1) /\ b + 1 \in Nat
    OBVIOUS
  <2> QED BY <1>0, <1>1, <1>2, <2>1, RunAt
<1>6. ASSUME NEW k \in 1 .. (b - a) PROVE At(more, a + k) = At(es, a + k)
  <2>1. a + k \in (a + 1) .. b /\ a + k \in (a + 1) .. (b + 1)
    OBVIOUS
  <2>2. At(es, a + k) \in es /\ At(es, a + k).seq = a + k
    BY <2>1, RunAt
  <2> QED BY <1>0, <1>2, <2>1, <2>2, RunAt
<1>7. Append(Ordered(es), c) = [k \in 1 .. (b - a + 1) |-> IF k <= b - a THEN Ordered(es)[k] ELSE c]
  BY <1>3
<1>8. ASSUME NEW k \in 1 .. (b - a + 1)
      PROVE At(more, a + k).change = IF k <= b - a THEN Ordered(es)[k] ELSE c
  <2>1. CASE k <= b - a
    <3>1. k \in 1 .. (b - a)
      BY <2>1
    <3>2. At(more, a + k) = At(es, a + k)
      BY <1>6, <3>1
    <3> QED BY <1>3, <3>1, <3>2
  <2>2. CASE k = b - a + 1
    BY <1>1, <1>5, <2>2
  <2> QED BY <2>1, <2>2
<1>9. b + 1 - a = b - a + 1
  OBVIOUS
<1>10. Ordered(more) = Append(Ordered(es), c)
  BY <1>4, <1>7, <1>8, <1>9
<1> QED BY <1>2, <1>10 DEF more
-----------------------------------------------------------------------------
(* The invariant *)

Shape == [wide : Nat, broken : Nat]
Subscription ==
  [state : {"none", "active", "paused", "retired"}, src : SUBSET Tables, seq : Nat,
   acked : Nat, offers : Nat, pending : Nat, through : Nat, last : Nat, count : Nat]
Polling == [pc : {"idle", "read", "offer", "show"}, acked : Nat, through : Nat]

Types ==
  /\ shape \in [Tables -> Shape]
  /\ sub \in [Subs -> Subscription]
  /\ ev \in [Subs -> SUBSET Event]
  /\ create = [s \in Subs |-> create[s]]
  /\ poll \in [Subs -> [Polls -> Polling]]
  /\ shown \in [Subs -> [1 .. MaxWrites -> SUBSET SUBSET Event]]
  /\ writes \in 0 .. MaxWrites /\ faults \in 0 .. MaxFaults

\* What is kept is what was recorded and is not acknowledged; a delivery has a
\* number of its own and acknowledges something.
Cursors(s) ==
  /\ sub[s].acked <= sub[s].seq /\ sub[s].seq <= writes
  /\ Run(ev[s], sub[s].acked, sub[s].seq)
  /\ sub[s].count = sub[s].seq - sub[s].acked /\ sub[s].count <= MaxPending
  /\ sub[s].through <= sub[s].seq /\ sub[s].last <= sub[s].offers
  /\ sub[s].pending = 0 => sub[s].offers <= sub[s].acked
  /\ sub[s].pending # 0 =>
       /\ sub[s].pending = sub[s].offers /\ sub[s].offers <= sub[s].acked + 1
       /\ sub[s].acked < sub[s].through
       /\ sub[s].through <= sub[s].acked + BatchSize

\* A subscription that is not there has nothing, one that is watches something.
Existence(s) ==
  /\ sub[s].state = "none" =>
       sub[s] = Nobody /\ ev[s] = {} /\ \A p \in Polls : poll[s][p].pc = "idle"
  /\ sub[s].state # "none" => sub[s].src # {}
  /\ create[s].pc = "read" =>
       sub[s].state = "none" /\ create[s].src # {} /\ create[s].src \subseteq Tables

\* The cursor a poll read may be behind; while it is not, the batch it found
\* is the next one.
PollFits(s, p) ==
  LET v == poll[s][p]
  IN  /\ v.pc \in {"read", "offer"} => v.acked <= sub[s].acked
      /\ v.pc = "offer" =>
           /\ v.through <= sub[s].seq
           /\ v.acked = sub[s].acked =>
                v.acked < v.through /\ v.through <= v.acked + BatchSize

\* A schema push read the tables of whoever was watching.
PushFits ==
  push.pc = "read" =>
    /\ push.table \in Tables /\ push.kind \in {"add", "break"}
    /\ shape[push.table].wide + shape[push.table].broken < MaxDDL
    /\ \A s \in push.active :
         s \in Subs /\ sub[s].state # "none" /\ sub[s].src \subseteq DOMAIN push.shape

Bounded == \A t \in Tables : shape[t].wide + shape[t].broken <= MaxDDL

QueueInv ==
  /\ Types /\ PushFits /\ Bounded /\ TriggersFit
  /\ \A s \in Subs : Cursors(s) /\ Existence(s) /\ \A p \in Polls : PollFits(s, p)

\* The invariant says what the type invariant says.
LEMMA QueueInvTypes == QueueInv => SubscriptionsSound
<1> SUFFICES ASSUME QueueInv PROVE TypeOK
  BY DEF SubscriptionsSound, QueueInv
<1>1. ASSUME NEW t \in Tables PROVE shape[t] \in [wide : 0 .. MaxDDL, broken : 0 .. MaxDDL]
  BY SubscriptionAssumption DEF QueueInv, Types, Shape, Bounded
<1>2. ASSUME NEW s \in Subs
      PROVE  /\ sub[s].state \in {"none", "active", "paused", "retired"} /\ sub[s].src \subseteq Tables
             /\ sub[s].acked <= sub[s].seq /\ sub[s].through <= sub[s].seq
             /\ sub[s].count \in 0 .. MaxPending /\ sub[s].count = Cardinality(ev[s])
             /\ sub[s].pending \in 0 .. sub[s].offers /\ sub[s].last \in 0 .. sub[s].offers
             /\ sub[s].pending # 0 => sub[s].acked < sub[s].through
             /\ \A p \in Polls : poll[s][p].pc \in {"idle", "read", "offer", "show"}
  <2>1. sub[s] \in Subscription /\ Cursors(s)
    BY DEF QueueInv, Types
  <2>2. sub[s].count = Cardinality(ev[s])
    BY <2>1, RunSize DEF Cursors, Subscription
  <2>3. \A p \in Polls : poll[s][p] \in Polling
    BY DEF QueueInv, Types
  <2> QED BY <2>1, <2>2, <2>3, SubscriptionAssumption DEF Cursors, Subscription, Polling
<1> QED BY <1>1, <1>2 DEF TypeOK, QueueInv, Types

-----------------------------------------------------------------------------
(* The invariant is inductive *)

\* What the invariant says of one subscription.
Kept(s) == Cursors(s) /\ Existence(s) /\ \A p \in Polls : PollFits(s, p)

\* A step that leaves a subscription alone keeps what is said of it.
LEMMA Untouched ==
  ASSUME Types, Types', NEW s \in Subs, Kept(s), sub'[s] = sub[s], ev'[s] = ev[s],
         poll'[s] = poll[s], create'[s] = create[s], writes <= writes'
  PROVE  Kept(s)'
<1>1. sub[s] \in Subscription /\ writes \in Nat /\ writes' \in Nat
  BY SubscriptionAssumption DEF Types
<1>2. Cursors(s)'
  BY <1>1 DEF Kept, Cursors, Subscription
<1> QED BY <1>2 DEF Kept, Existence, PollFits

\* A step that changes neither a schema nor who watches what keeps the fit of triggers.
LEMMA FitUntouched ==
  ASSUME TriggersFit, PushFits, Bounded, Types, Types', UNCHANGED <<shape, create, push>>,
         \A s \in Subs : sub'[s].state = sub[s].state /\ sub'[s].src = sub[s].src
  PROVE  TriggersFit' /\ PushFits' /\ Bounded'
BY DEF TriggersFit, PushFits, Bounded, Watching

\* At first nothing watches.
LEMMA QueueInvInit == Init => QueueInv
<1> SUFFICES ASSUME Init PROVE QueueInv
  OBVIOUS
<1>1. Nobody \in Subscription /\ NoPoll \in Polling
  BY DEF Nobody, Subscription, NoPoll, Polling
<1>2. Types
  BY <1>1, SubscriptionAssumption DEF Init, Types, Shape
<1>3. PushFits /\ Bounded /\ TriggersFit
  <2>1. PushFits
    BY DEF Init, PushFits, NoPush
  <2>2. Bounded
    BY SubscriptionAssumption DEF Init, Bounded
  <2>3. \A s \in Subs : ~Watching(s)
    BY DEF Init, Watching, Nobody
  <2> QED BY <2>1, <2>2, <2>3 DEF TriggersFit
<1>4. ASSUME NEW s \in Subs PROVE Kept(s)
  <2>1. Run({}, 0, 0)
    BY DEF Run
  <2>2. sub[s] = Nobody /\ ev[s] = {} /\ create[s] = NoCreate /\ writes = 0
        /\ \A p \in Polls : poll[s][p] = NoPoll
    BY DEF Init
  <2>3. Cursors(s)
    BY <2>1, <2>2, SubscriptionAssumption DEF Cursors, Nobody
  <2> QED BY <2>2, <2>3 DEF Kept, Existence, PollFits, Nobody, NoCreate, NoPoll
<1> QED BY <1>2, <1>3, <1>4 DEF QueueInv, Kept

\* A recorded change extends the run of each subscription that watches.
LEMMA WriteKeeps ==
  ASSUME QueueInv, NEW t \in Tables, Write(t)
  PROVE  QueueInv'
<1> DEFINE on == {s \in Triggers(t) : Records(s)}
<1>1. /\ writes < MaxWrites /\ writes' = writes + 1 /\ writes \in Nat
      /\ shape' = shape /\ create' = create /\ push' = push /\ poll' = poll
      /\ shown' = shown /\ faults' = faults
      /\ \A s \in on : sub[s].count < MaxPending
  <2>1. writes \in Nat
    BY SubscriptionAssumption DEF QueueInv, Types
  <2>2. \A s \in on : sub[s].count < MaxPending
    BY DEF Write
  <2> QED BY <2>1, <2>2 DEF Write
<1>2. ASSUME NEW s \in Subs
      PROVE  /\ sub[s] \in Subscription /\ Kept(s)
             /\ s \in on => /\ sub'[s] = [sub[s] EXCEPT !.seq = @ + 1, !.count = @ + 1]
                            /\ ev'[s] = ev[s] \cup {[seq |-> sub[s].seq + 1, change |-> writes']}
                            /\ sub[s].state # "none" /\ sub[s].count < MaxPending
             /\ s \notin on => sub'[s] = sub[s] /\ ev'[s] = ev[s]
  BY DEF Write, QueueInv, Types, Kept, Records
<1>0. on \subseteq Subs
  BY DEF Triggers
<1> HIDE DEF on
<1>a. ASSUME NEW s \in on
      PROVE  /\ sub'[s] \in Subscription
             /\ sub'[s].seq = sub[s].seq + 1 /\ sub'[s].count = sub[s].count + 1
             /\ sub'[s].state = sub[s].state /\ sub'[s].src = sub[s].src
             /\ sub'[s].acked = sub[s].acked /\ sub'[s].offers = sub[s].offers
             /\ sub'[s].pending = sub[s].pending /\ sub'[s].through = sub[s].through
             /\ sub'[s].last = sub[s].last
  <2>1. sub[s] \in Subscription /\ sub'[s] = [sub[s] EXCEPT !.seq = @ + 1, !.count = @ + 1]
    BY <1>0, <1>2
  <2>2. /\ sub[s].seq + 1 \in Nat /\ sub[s].count + 1 \in Nat
    BY <2>1 DEF Subscription
  <2>3. sub'[s] \in Subscription
    BY <2>1, <2>2 DEF Subscription
  <2>4. sub'[s].seq = sub[s].seq + 1 /\ sub'[s].count = sub[s].count + 1
    BY <2>1 DEF Subscription
  <2> QED BY <2>1, <2>3, <2>4 DEF Subscription
<1>3. ASSUME NEW s \in on
      PROVE  /\ ev'[s] \in SUBSET Event
             /\ Run(ev'[s], sub[s].acked, sub[s].seq + 1)
  <2>1. s \in Subs
    BY <1>0
  <2>2. /\ sub[s].acked \in Nat /\ sub[s].seq \in Nat /\ writes' \in Nat
        /\ sub[s].acked <= sub[s].seq /\ Run(ev[s], sub[s].acked, sub[s].seq)
    <3>1. sub[s] \in Subscription /\ Cursors(s)
      BY <1>2, <2>1 DEF Kept
    <3> QED BY <1>1, <3>1 DEF Subscription, Cursors
  <2>3. Run(ev'[s], sub[s].acked, sub[s].seq + 1)
    <3>1. ev'[s] = ev[s] \cup {[seq |-> sub[s].seq + 1, change |-> writes']}
      BY <1>2, <2>1
    <3>2. Run(ev[s] \cup {[seq |-> sub[s].seq + 1, change |-> writes']}, sub[s].acked, sub[s].seq + 1)
      BY <2>2, MoreOrdered, Zenon
    <3> QED BY <3>1, <3>2
  <2> QED BY <2>3 DEF Run
<1>4. Types'
  <2>1. sub' = [s \in Subs |-> sub'[s]] /\ ev' = [s \in Subs |-> ev'[s]]
    BY DEF Write
  <2>2. \A s \in Subs : sub'[s] \in Subscription /\ ev'[s] \in SUBSET Event
    BY <1>2, <1>a, <1>3 DEF QueueInv, Types
  <2>3. sub' \in [Subs -> Subscription] /\ ev' \in [Subs -> SUBSET Event]
    BY <2>1, <2>2
  <2> QED BY <1>1, <2>3, SubscriptionAssumption DEF QueueInv, Types
<1>5. TriggersFit' /\ PushFits' /\ Bounded'
  <2>1. \A s \in Subs : sub'[s].state = sub[s].state /\ sub'[s].src = sub[s].src
    BY <1>2, <1>a
  <2> QED BY <1>1, <1>4, <2>1, FitUntouched DEF QueueInv
<1>6. ASSUME NEW s \in Subs PROVE Kept(s)'
  <2>1. CASE s \in on
    <3>1. /\ sub[s] \in Subscription /\ Cursors(s) /\ sub[s].count < MaxPending
          /\ sub[s].state # "none"
      BY <1>2, <2>1 DEF Kept
    <3>2. Cursors(s)'
      BY <1>1, <1>a, <1>3, <2>1, <3>1, SubscriptionAssumption DEF Cursors, Subscription
    <3>3. ASSUME NEW p \in Polls PROVE PollFits(s, p)'
      <4>1. poll[s][p] \in Polling /\ PollFits(s, p)
        BY ZenonT(40), <1>2 DEF QueueInv, Types, Kept
      <4>2. poll'[s][p] = poll[s][p]
        BY <1>1
      <4> QED BY <1>a, <2>1, <3>1, <4>1, <4>2 DEF PollFits, Subscription, Polling
    <3>4. Existence(s)'
      BY <1>1, <1>2, <1>a, <2>1, <3>1 DEF Kept, Existence
    <3> QED BY <3>2, <3>3, <3>4 DEF Kept
  <2>2. CASE s \notin on
    <3>1. writes <= writes'
      BY <1>1
    <3> QED BY <1>1, <1>2, <1>4, <2>2, <3>1, Untouched DEF QueueInv
  <2> QED BY <2>1, <2>2
<1> QED BY <1>4, <1>5, <1>6 DEF QueueInv, Kept

\* Reading for a subscription changes only the request.
LEMMA CreateReadKeeps ==
  ASSUME QueueInv, NEW s \in Subs, CreateRead(s)
  PROVE  QueueInv'
<1>1. /\ UNCHANGED <<shape, sub, ev, push, poll, shown, writes, faults>>
      /\ sub[s].state = "none"
  BY DEF CreateRead
<1>2. PICK src \in (SUBSET Tables) \ {{}} :
        create' = [create EXCEPT ![s] =
          [pc |-> "read", src |-> src, shape |-> ShapesOf(src), triggers |-> TriggersOn(src)]]
  BY DEF CreateRead
<1>3. create' = [r \in Subs |-> create'[r]] /\ \A r \in Subs \ {s} : create'[r] = create[r]
  BY <1>2 DEF QueueInv, Types
<1>4. create'[s].src = src /\ src # {} /\ src \subseteq Tables
  <2>1. create'[s] = [pc |-> "read", src |-> src, shape |-> ShapesOf(src), triggers |-> TriggersOn(src)]
    BY <1>2 DEF QueueInv, Types
  <2> QED BY <1>2, <2>1
<1>5. Types'
  BY <1>1, <1>3 DEF QueueInv, Types
<1>6. PushFits' /\ Bounded' /\ TriggersFit'
  BY <1>1, <1>3 DEF QueueInv, PushFits, Bounded, TriggersFit, Watching
<1>7. ASSUME NEW r \in Subs PROVE Kept(r)'
  <2>1. Cursors(r)' /\ \A p \in Polls : PollFits(r, p)'
    BY <1>1 DEF QueueInv, Cursors, PollFits
  <2>2. Existence(r)'
    BY <1>1, <1>3, <1>4 DEF QueueInv, Existence
  <2> QED BY <2>1, <2>2 DEF Kept
<1> QED BY <1>5, <1>6, <1>7 DEF QueueInv, Kept

\* A new subscription fits: its tables are as they were when its columns were read.
LEMMA CreateCommitKeeps ==
  ASSUME QueueInv, NEW s \in Subs, CreateCommit(s)
  PROVE  QueueInv'
<1> DEFINE c == create[s]
<1>1. /\ UNCHANGED <<shape, ev, push, poll, shown, writes, faults>>
      /\ c.pc = "read" /\ sub[s] = Nobody /\ sub[s].state = "none" /\ ev[s] = {}
      /\ c.src # {} /\ c.src \subseteq Tables
  BY DEF CreateCommit, QueueInv, Existence
<1>2. create' = [r \in Subs |-> create'[r]] /\ \A r \in Subs \ {s} : create'[r] = create[r]
  BY DEF CreateCommit, QueueInv, Types
<1>3. create'[s].pc = "idle" /\ (Unchanged(c) => create'[s].shape = c.shape)
  BY DEF CreateCommit, QueueInv, Types, NoCreate
<1>4. CASE Unchanged(c)
  <2>1. sub' = [sub EXCEPT ![s] = [Nobody EXCEPT !.state = "active", !.src = c.src]]
    BY <1>4 DEF CreateCommit
  <2>2. /\ sub'[s] = [Nobody EXCEPT !.state = "active", !.src = c.src]
        /\ \A r \in Subs \ {s} : sub'[r] = sub[r]
    BY <2>1 DEF QueueInv, Types
  <2>3. /\ sub'[s].state = "active" /\ sub'[s].src = c.src
        /\ sub'[s].seq = 0 /\ sub'[s].acked = 0 /\ sub'[s].offers = 0 /\ sub'[s].pending = 0
        /\ sub'[s].through = 0 /\ sub'[s].last = 0 /\ sub'[s].count = 0
    BY <2>2 DEF Nobody
  <2>4. sub'[s] \in Subscription
    <3>1. sub'[s] = [state |-> "active", src |-> c.src, seq |-> 0, acked |-> 0, offers |-> 0,
                     pending |-> 0, through |-> 0, last |-> 0, count |-> 0]
      BY <2>2 DEF Nobody
    <3> QED BY <1>1, <3>1 DEF Subscription
  <2>5. Types'
    <3>1. sub' \in [Subs -> Subscription]
      BY <2>1, <2>2, <2>4 DEF QueueInv, Types
    <3> QED BY <1>1, <1>2, <3>1 DEF QueueInv, Types
  <2>6. PushFits' /\ Bounded'
    BY <1>1, <2>2 DEF QueueInv, PushFits, Bounded
  <2>7. TriggersFit'
    <3> SUFFICES ASSUME NEW r \in Subs, Watching(r)', NEW t \in sub'[r].src
                 PROVE  shape'[t].broken = create'[r].shape[t].broken
      BY DEF TriggersFit
    <3>1. CASE r = s
      <4>1. t \in c.src
        BY <2>3, <3>1
      <4>2. c.shape = ShapesOf(c.src)
        BY <1>4 DEF Unchanged
      <4>3. c.shape[t] = shape[t]
        BY <4>1, <4>2 DEF ShapesOf
      <4> QED BY <1>1, <1>3, <1>4, <3>1, <4>3
    <3>2. CASE r # s
      BY <1>1, <1>2, <2>2, <3>2 DEF QueueInv, TriggersFit, Watching
    <3> QED BY <3>1, <3>2
  <2>8. ASSUME NEW r \in Subs PROVE Kept(r)'
    <3>1. CASE r = s
      <4>1. Run({}, 0, 0) /\ ev'[s] = {} /\ writes' \in Nat
        BY <1>1 DEF Run, QueueInv, Types
      <4>2. Cursors(s)'
        BY <2>3, <4>1, SubscriptionAssumption DEF Cursors
      <4>3. \A p \in Polls : poll[s][p].pc = "idle"
        BY <1>1 DEF QueueInv, Existence
      <4>4. Existence(s)' /\ \A p \in Polls : PollFits(s, p)'
        BY <1>1, <1>3, <2>3, <4>3 DEF Existence, PollFits
      <4> QED BY <3>1, <4>2, <4>4 DEF Kept
    <3>2. CASE r # s
      <4>1. writes \in Nat
        BY DEF QueueInv, Types
      <4>2. writes <= writes'
        BY <1>1, <4>1
      <4> QED BY <1>1, <1>2, <2>2, <2>5, <3>2, <4>2, Untouched DEF QueueInv, Kept
    <3> QED BY <3>1, <3>2
  <2> QED BY <2>5, <2>6, <2>7, <2>8 DEF QueueInv, Kept
<1>5. CASE ~Unchanged(c)
  <2>1. sub' = sub
    BY <1>5 DEF CreateCommit
  <2>2. Types'
    BY <1>1, <1>2, <2>1 DEF QueueInv, Types
  <2>3. PushFits' /\ Bounded' /\ TriggersFit'
    BY <1>1, <1>2, <2>1 DEF QueueInv, PushFits, Bounded, TriggersFit, Watching
  <2>4. ASSUME NEW r \in Subs PROVE Kept(r)'
    BY <1>1, <1>2, <1>3, <2>1 DEF QueueInv, Kept, Cursors, PollFits, Existence
  <2> QED BY <2>2, <2>3, <2>4 DEF QueueInv, Kept
<1> QED BY <1>4, <1>5

\* A change of state never makes a subscription that is not there.
LEMMA SetStateKeeps ==
  ASSUME QueueInv, NEW s \in Subs, NEW state \in {"active", "paused", "retired"},
         SetState(s, state)
  PROVE  QueueInv'
<1>1. /\ UNCHANGED <<shape, ev, create, push, poll, shown, writes, faults>>
      /\ sub[s].state \notin {"none", "retired"}
      /\ sub' = [sub EXCEPT ![s].state = state]
  BY DEF SetState
<1>2. sub[s] \in Subscription
  BY DEF QueueInv, Types
<1>3. /\ sub'[s] = [sub[s] EXCEPT !.state = state]
      /\ \A r \in Subs \ {s} : sub'[r] = sub[r]
      /\ sub' = [r \in Subs |-> sub'[r]]
  BY <1>1 DEF QueueInv, Types
<1>4. /\ sub'[s].state = state
      /\ sub'[s].src = sub[s].src /\ sub'[s].seq = sub[s].seq /\ sub'[s].acked = sub[s].acked
      /\ sub'[s].offers = sub[s].offers /\ sub'[s].pending = sub[s].pending
      /\ sub'[s].through = sub[s].through /\ sub'[s].last = sub[s].last
      /\ sub'[s].count = sub[s].count
  BY <1>2, <1>3 DEF Subscription
<1>5. Types'
  <2>1. sub'[s] \in Subscription
    BY <1>2, <1>3 DEF Subscription
  <2>2. \A r \in Subs : sub'[r] \in Subscription
    BY <1>3, <2>1 DEF QueueInv, Types
  <2>3. sub' \in [Subs -> Subscription]
    BY <1>3, <2>2
  <2> QED BY <1>1, <2>3 DEF QueueInv, Types
<1>6. sub[s].state \in {"active", "paused"}
  BY <1>1, <1>2 DEF Subscription
<1>7. PushFits' /\ Bounded' /\ TriggersFit'
  <2>1. \A r \in Subs : /\ sub'[r].src = sub[r].src
                        /\ sub[r].state # "none" => sub'[r].state # "none"
                        /\ Watching(r)' => Watching(r)
    BY <1>3, <1>4, <1>6 DEF Watching
  <2>2. PushFits' /\ Bounded'
    BY <1>1, <2>1 DEF QueueInv, PushFits, Bounded
  <2> QED BY <1>1, <2>1, <2>2 DEF QueueInv, TriggersFit
<1>8. ASSUME NEW r \in Subs PROVE Kept(r)'
  <2>1. CASE r = s
    <3>1. Cursors(s)'
      BY <1>1, <1>4 DEF QueueInv, Cursors
    <3>2. Existence(s)' /\ \A p \in Polls : PollFits(s, p)'
      BY <1>1, <1>4, <1>6 DEF QueueInv, Existence, PollFits
    <3> QED BY <2>1, <3>1, <3>2 DEF Kept
  <2>2. CASE r # s
    <3>1. writes \in Nat
      BY DEF QueueInv, Types
    <3>2. writes <= writes'
      BY <1>1, <3>1
    <3> QED BY <1>1, <1>3, <1>5, <2>2, <3>2, Untouched DEF QueueInv, Kept
  <2> QED BY <2>1, <2>2
<1> QED BY <1>5, <1>7, <1>8 DEF QueueInv, Kept

\* Reading who watches what: those who do, do watch tables that were read.
LEMMA SchemaReadKeeps ==
  ASSUME QueueInv, NEW t \in Tables, NEW kind \in {"add", "break"}, SchemaRead(t, kind)
  PROVE  QueueInv'
<1>1. /\ UNCHANGED <<shape, sub, ev, create, poll, shown, writes, faults>>
      /\ shape[t].wide + shape[t].broken < MaxDDL
  BY DEF SchemaRead
<1>2. push'.table = t /\ push'.kind = kind /\ push'.active = {s \in Subs : Watching(s)} /\ push'.shape = ShapesOf(Watched)
  BY DEF SchemaRead
<1>3. PushFits'
  <2>1. \A s \in push'.active : s \in Subs /\ sub[s].state # "none" /\ sub[s].src \subseteq Watched
    BY <1>2 DEF Watching, Watched
  <2>2. DOMAIN push'.shape = Watched
    BY <1>2 DEF ShapesOf
  <2> QED BY <1>1, <1>2, <2>1, <2>2 DEF PushFits
<1>4. Types' /\ Bounded' /\ TriggersFit'
  BY <1>1 DEF QueueInv, Types, Bounded, TriggersFit, Watching
<1>5. ASSUME NEW s \in Subs PROVE Kept(s)'
  BY <1>1 DEF QueueInv, Kept, Cursors, Existence, PollFits
<1> QED BY <1>3, <1>4, <1>5 DEF QueueInv, Kept

\* A change that breaks a table is refused while anyone who watches it is as
\* the push read.
LEMMA SchemaCommitKeeps ==
  ASSUME QueueInv, SchemaCommit
  PROVE  QueueInv'
<1>1. /\ UNCHANGED <<sub, ev, create, poll, shown, writes, faults>>
      /\ push.pc = "read" /\ push'.pc = "idle"
  BY DEF SchemaCommit, NoPush
<1>2. /\ push.table \in Tables /\ push.kind \in {"add", "break"}
      /\ shape[push.table].wide + shape[push.table].broken < MaxDDL
      /\ \A s \in push.active : sub[s].src \subseteq DOMAIN push.shape
  BY <1>1 DEF QueueInv, PushFits
<1>3. shape \in [Tables -> Shape]
  BY DEF QueueInv, Types
<1>4. PushFits'
  BY <1>1 DEF PushFits
<1>5. ASSUME NEW s \in Subs PROVE Kept(s)'
  BY <1>1 DEF QueueInv, Kept, Cursors, Existence, PollFits
<1>6. CASE shape' = shape
  BY <1>1, <1>4, <1>5, <1>6 DEF QueueInv, Types, Bounded, TriggersFit, Watching, Kept
<1>7. CASE Allowed(push) /\ push.kind = "add"
  <2>1. shape' = [shape EXCEPT ![push.table].wide = @ + 1]
    BY <1>7 DEF SchemaCommit
  <2>2. /\ shape' \in [Tables -> Shape]
        /\ shape'[push.table].wide = shape[push.table].wide + 1
        /\ \A t \in Tables : shape'[t].broken = shape[t].broken
        /\ \A t \in Tables \ {push.table} : shape'[t] = shape[t]
    BY <1>2, <1>3, <2>1 DEF Shape
  <2>3. Bounded'
    BY <1>2, <1>3, <2>2, SubscriptionAssumption DEF QueueInv, Bounded, Shape
  <2>4. TriggersFit'
    BY <1>1, <2>2 DEF QueueInv, Types, Subscription, TriggersFit, Watching
  <2> QED BY <1>1, <1>4, <1>5, <2>2, <2>3, <2>4 DEF QueueInv, Types, Kept
<1>8. CASE Allowed(push) /\ push.kind = "break"
  <2>1. shape' = [shape EXCEPT ![push.table].broken = @ + 1]
    BY <1>8 DEF SchemaCommit
  <2>2. /\ shape' \in [Tables -> Shape]
        /\ shape'[push.table].broken = shape[push.table].broken + 1
        /\ shape'[push.table].wide = shape[push.table].wide
        /\ \A t \in Tables \ {push.table} : shape'[t] = shape[t]
    BY <1>2, <1>3, <2>1 DEF Shape
  <2>3. Bounded'
    BY <1>2, <1>3, <2>2, SubscriptionAssumption DEF QueueInv, Bounded, Shape
  <2>4. \A s \in Subs : Watching(s) => push.table \notin sub[s].src
    BY <1>2, <1>8 DEF Allowed
  <2>5. TriggersFit'
    <3> SUFFICES ASSUME NEW s \in Subs, Watching(s)', NEW t \in sub'[s].src
                 PROVE  shape'[t].broken = create'[s].shape[t].broken
      BY DEF TriggersFit
    <3>1. Watching(s) /\ t \in sub[s].src /\ create'[s] = create[s] /\ sub[s] \in Subscription
      BY <1>1 DEF Watching, QueueInv, Types
    <3>2. t \in Tables /\ t # push.table
      BY <2>4, <3>1 DEF Subscription
    <3>3. shape[t].broken = create[s].shape[t].broken
      BY <3>1 DEF QueueInv, TriggersFit
    <3> QED BY <2>2, <3>1, <3>2, <3>3
  <2> QED BY <1>1, <1>4, <1>5, <2>2, <2>3, <2>5 DEF QueueInv, Types, Kept
<1> QED BY <1>2, <1>6, <1>7, <1>8 DEF SchemaCommit

\* A poll that moves on changes nothing else, but what its consumer has seen.
LEMMA PollKeeps ==
  ASSUME QueueInv, NEW s \in Subs, NEW p \in Polls, NEW v \in Polling,
         poll' = [poll EXCEPT ![s][p] = v], PollFits(s, p)', sub[s].state # "none",
         shown' \in [Subs -> [1 .. MaxWrites -> SUBSET SUBSET Event]], faults' \in 0 .. MaxFaults,
         UNCHANGED <<shape, sub, ev, create, push, writes>>
  PROVE  QueueInv'
<1>1. /\ poll' \in [Subs -> [Polls -> Polling]]
      /\ \A r \in Subs, q \in Polls : r # s \/ q # p => poll'[r][q] = poll[r][q]
  BY DEF QueueInv, Types
<1>2. Types'
  BY <1>1 DEF QueueInv, Types
<1>3. PushFits' /\ Bounded' /\ TriggersFit'
  BY DEF QueueInv, PushFits, Bounded, TriggersFit, Watching
<1>4. ASSUME NEW r \in Subs PROVE Kept(r)'
  <2>1. Cursors(r)'
    BY DEF QueueInv, Cursors
  <2>2. Existence(r)'
    BY <1>1 DEF QueueInv, Existence
  <2>3. ASSUME NEW q \in Polls PROVE PollFits(r, q)'
    <3>1. CASE r = s /\ q = p
      BY <3>1
    <3>2. CASE r # s \/ q # p
      BY <1>1, <3>2 DEF QueueInv, PollFits
    <3> QED BY <3>1, <3>2
  <2> QED BY <2>1, <2>2, <2>3 DEF Kept
<1> QED BY <1>2, <1>3, <1>4 DEF QueueInv, Kept

\* A poll reads the cursor.
LEMMA PollLoadKeeps ==
  ASSUME QueueInv, NEW s \in Subs, NEW p \in Polls, PollLoad(s, p)
  PROVE  QueueInv'
<1> DEFINE v == [pc |-> IF ~Deliverable(s) \/ sub[s].pending # 0 THEN "show" ELSE "read",
                 acked |-> sub[s].acked, through |-> 0]
<1>1. /\ UNCHANGED <<shape, sub, ev, create, push, shown, writes, faults>>
      /\ sub[s].state # "none" /\ poll' = [poll EXCEPT ![s][p] = v]
  BY DEF PollLoad
<1>2. sub[s].acked \in Nat
  BY DEF QueueInv, Types, Subscription
<1>3. v \in Polling
  BY <1>2 DEF Polling
<1>4. poll'[s][p] = v
  BY <1>1 DEF QueueInv, Types
<1>5. PollFits(s, p)'
  BY <1>1, <1>2, <1>4 DEF PollFits
<1> QED BY <1>1, <1>3, <1>5, PollKeeps DEF QueueInv, Types

\* A poll that found a batch.
LEMMA OfferPoll ==
  ASSUME NEW v \in Polling, NEW n
  PROVE  [v EXCEPT !.pc = "offer", !.through = n]
           = [pc |-> "offer", acked |-> v.acked, through |-> n]
<1> DEFINE x == [v EXCEPT !.pc = "offer", !.through = n]
           w == [pc |-> "offer", acked |-> v.acked, through |-> n]
<1>1. DOMAIN v = {"pc", "acked", "through"}
  BY DEF Polling
<1>2. DOMAIN x = DOMAIN v /\ DOMAIN w = {"pc", "acked", "through"}
  OBVIOUS
<1>3. x["pc"] = w["pc"] /\ x["acked"] = w["acked"] /\ x["through"] = w["through"]
  BY <1>1
<1>4. x = [f \in DOMAIN v |-> x[f]] /\ w = [f \in DOMAIN w |-> w[f]]
  OBVIOUS
<1> HIDE DEF x, w
<1>5. x = w
  BY <1>1, <1>2, <1>3, <1>4
<1> QED BY <1>5 DEF x, w

\* The events a poll finds after the cursor it read are those that are kept, since the
\* subscription's is not behind: as many as fit are the numbers up to a batch from the cursor.
LEMMA PollReadKeeps ==
  ASSUME QueueInv, NEW s \in Subs, NEW p \in Polls, PollRead(s, p)
  PROVE  QueueInv'
<1> DEFINE v == poll[s][p]
           a == sub[s].acked
           b == sub[s].seq
           fresh == {e.seq : e \in {e \in ev[s] : e.seq > v.acked}}
<1>1. /\ UNCHANGED <<shape, sub, ev, create, push, shown, writes, faults>>
      /\ v.pc = "read"
      /\ \/ poll' = [poll EXCEPT ![s][p] = NoPoll]
         \/ \E n \in fresh :
              /\ Cardinality({k \in fresh : k <= n}) <= BatchSize
              /\ poll' = [poll EXCEPT ![s][p].pc = "offer", ![s][p].through = n]
  BY DEF PollRead
<1>2. /\ v \in Polling /\ sub[s] \in Subscription /\ Run(ev[s], a, b) /\ PollFits(s, p)
      /\ sub[s].state # "none"
  <2>1. Cursors(s) /\ Existence(s) /\ PollFits(s, p)
    BY DEF QueueInv
  <2> QED BY <1>1, <2>1 DEF QueueInv, Types, Cursors, Existence
<1>3. /\ a \in Nat /\ b \in Nat /\ v.acked \in Nat /\ v.acked <= a
  BY <1>1, <1>2 DEF Polling, Subscription, PollFits
<1>4. fresh = (a + 1) .. b
  <2>1. \A e \in ev[s] : e.seq \in (a + 1) .. b /\ e.seq > v.acked
    BY <1>2, <1>3 DEF Run, Event
  <2>2. \A n \in (a + 1) .. b : \E e \in ev[s] : e.seq = n
    BY <1>2 DEF Run
  <2>3. \A n : n \in fresh <=> \E e \in ev[s] : e.seq = n
    BY <2>1
  <2> QED BY <2>1, <2>2, <2>3
<1>5. CASE poll' = [poll EXCEPT ![s][p] = NoPoll]
  <2>1. NoPoll \in Polling /\ poll'[s][p] = NoPoll
    BY <1>5 DEF NoPoll, Polling, QueueInv, Types
  <2>2. PollFits(s, p)'
    BY <2>1 DEF PollFits, NoPoll
  <2> QED BY <1>1, <1>2, <1>5, <2>1, <2>2, PollKeeps DEF QueueInv, Types
<1>6. ASSUME NEW n \in fresh, Cardinality({k \in fresh : k <= n}) <= BatchSize,
             poll' = [poll EXCEPT ![s][p].pc = "offer", ![s][p].through = n]
      PROVE  QueueInv'
  <2> DEFINE w == [pc |-> "offer", acked |-> v.acked, through |-> n]
  <2>1. n \in (a + 1) .. b /\ n \in Nat
    BY <1>3, <1>4
  <2>2. n - a <= BatchSize
    <3>1. {k \in fresh : k <= n} = (a + 1) .. n
      BY <1>3, <1>4, <2>1
    <3>2. Cardinality((a + 1) .. n) = n - a
      <4>1. a + 1 \in Int /\ n \in Int
        BY <1>3, <2>1
      <4>2. Cardinality((a + 1) .. n) = IF a + 1 > n THEN 0 ELSE n - (a + 1) + 1
        BY <4>1, FS_Interval
      <4> QED BY <1>3, <2>1, <4>2
    <3> QED BY <1>6, <3>1, <3>2
  <2>3. w \in Polling
    BY <1>3, <2>1 DEF Polling
  <2>4. poll' = [poll EXCEPT ![s][p] = w]
    <3>1. poll \in [Subs -> [Polls -> Polling]]
      BY DEF QueueInv, Types
    <3>2. [v EXCEPT !.pc = "offer", !.through = n] = w
      BY <1>2, OfferPoll
    <3>3. poll' = [poll EXCEPT ![s][p] = [v EXCEPT !.pc = "offer", !.through = n]]
      BY <1>6, <3>1
    <3> QED BY <3>2, <3>3
  <2>5. poll'[s][p] = w
    BY <2>4 DEF QueueInv, Types
  <2>6. PollFits(s, p)'
    <3>1. sub'[s].acked = a /\ sub'[s].seq = b
      BY <1>1
    <3> QED BY <1>3, <2>1, <2>2, <2>5, <3>1, SubscriptionAssumption DEF PollFits
  <2> QED BY <1>1, <1>2, <2>3, <2>4, <2>6, PollKeeps DEF QueueInv, Types
<1> QED BY <1>1, <1>5, <1>6

\* What a delivery that is made leaves of its subscription.
Offered(s, upTo) == [sub[s] EXCEPT !.pending = sub[s].offers + 1, !.offers = @ + 1, !.through = upTo]

\* What an acknowledgement leaves of it.
Acked(s, d) == [sub[s] EXCEPT !.count = @ - Cardinality(Batch(s)), !.acked = sub[s].through,
                              !.last = d, !.pending = 0, !.through = 0]

LEMMA OfferedFields ==
  ASSUME NEW s, sub[s] \in Subscription, NEW upTo \in Nat
  PROVE  LET x == Offered(s, upTo)
         IN  /\ x \in Subscription
             /\ x.pending = sub[s].offers + 1 /\ x.offers = sub[s].offers + 1 /\ x.through = upTo
             /\ x.state = sub[s].state /\ x.src = sub[s].src /\ x.seq = sub[s].seq
             /\ x.acked = sub[s].acked /\ x.last = sub[s].last /\ x.count = sub[s].count
<1> DEFINE x == Offered(s, upTo)
<1>1. x = [sub[s] EXCEPT !.pending = sub[s].offers + 1, !.offers = sub[s].offers + 1, !.through = upTo]
  BY DEF Offered
<1>2. sub[s].offers + 1 \in Nat
  BY DEF Subscription
<1> HIDE DEF x
<1>3. x \in Subscription
  BY <1>1, <1>2 DEF Subscription
<1>4. /\ x.pending = sub[s].offers + 1 /\ x.offers = sub[s].offers + 1 /\ x.through = upTo
      /\ x.state = sub[s].state /\ x.src = sub[s].src /\ x.seq = sub[s].seq
      /\ x.acked = sub[s].acked /\ x.last = sub[s].last /\ x.count = sub[s].count
  BY <1>1 DEF Subscription
<1> QED BY <1>3, <1>4 DEF x

LEMMA AckedFields ==
  ASSUME NEW s, sub[s] \in Subscription, NEW d \in Nat, NEW c \in Nat,
         sub[s].count - Cardinality(Batch(s)) = c
  PROVE  LET x == Acked(s, d)
         IN  /\ x \in Subscription
             /\ x.count = c /\ x.acked = sub[s].through /\ x.last = d /\ x.pending = 0 /\ x.through = 0
             /\ x.state = sub[s].state /\ x.src = sub[s].src /\ x.seq = sub[s].seq
             /\ x.offers = sub[s].offers
<1> DEFINE x == Acked(s, d)
<1>1. x = [sub[s] EXCEPT !.count = c, !.acked = sub[s].through, !.last = d, !.pending = 0, !.through = 0]
  BY DEF Acked
<1>2. sub[s].through \in Nat
  BY DEF Subscription
<1> HIDE DEF x
<1>3. x \in Subscription
  BY <1>1, <1>2 DEF Subscription
<1>4. /\ x.count = c /\ x.acked = sub[s].through /\ x.last = d /\ x.pending = 0 /\ x.through = 0
      /\ x.state = sub[s].state /\ x.src = sub[s].src /\ x.seq = sub[s].seq
      /\ x.offers = sub[s].offers
  BY <1>1 DEF Subscription
<1> QED BY <1>3, <1>4 DEF x

\* A batch is offered only while the cursor it was found from is the
\* subscription's, so it is the next one.
LEMMA PollOfferKeeps ==
  ASSUME QueueInv, NEW s \in Subs, NEW p \in Polls, PollOffer(s, p)
  PROVE  QueueInv'
<1> DEFINE v == poll[s][p]
           w == [v EXCEPT !.pc = "show"]
<1>1. /\ UNCHANGED <<shape, ev, create, push, shown, writes, faults>>
      /\ v.pc = "offer" /\ poll' = [poll EXCEPT ![s][p].pc = "show"]
  BY DEF PollOffer
<1>2. /\ v \in Polling /\ sub[s] \in Subscription /\ PollFits(s, p) /\ Cursors(s)
      /\ sub[s].state # "none"
  <2>1. Cursors(s) /\ Existence(s) /\ PollFits(s, p)
    BY DEF QueueInv
  <2> QED BY <1>1, <2>1 DEF QueueInv, Types, Existence
<1>3. w \in Polling /\ w.pc = "show"
  BY <1>2 DEF Polling
<1>4. /\ poll' \in [Subs -> [Polls -> Polling]] /\ poll'[s][p] = w
      /\ \A r \in Subs, q \in Polls : r # s \/ q # p => poll'[r][q] = poll[r][q]
  BY <1>1, <1>3 DEF QueueInv, Types
<1>5. PollFits(s, p)'
  BY <1>3, <1>4 DEF PollFits
<1>6. CASE ~Offers(v, s)
  <2>1. sub' = sub
    BY <1>6 DEF PollOffer
  <2>2. poll' = [poll EXCEPT ![s][p] = w]
    BY <1>1 DEF QueueInv, Types
  <2> HIDE DEF w
  <2> QED BY <1>1, <1>2, <1>3, <1>5, <2>1, <2>2, PollKeeps DEF QueueInv, Types
<1>7. CASE Offers(v, s)
  <2>1. sub' = [sub EXCEPT ![s] = Offered(s, v.through)]
    BY <1>7 DEF PollOffer, Offered, QueueInv, Types
  <2>2. /\ sub'[s] = Offered(s, v.through) /\ \A r \in Subs \ {s} : sub'[r] = sub[r]
        /\ sub' = [r \in Subs |-> sub'[r]]
    BY <2>1 DEF QueueInv, Types
  <2>3. /\ sub'[s] \in Subscription
        /\ sub'[s].pending = sub[s].offers + 1 /\ sub'[s].offers = sub[s].offers + 1
        /\ sub'[s].through = v.through
        /\ sub'[s].state = sub[s].state /\ sub'[s].src = sub[s].src /\ sub'[s].seq = sub[s].seq
        /\ sub'[s].acked = sub[s].acked /\ sub'[s].last = sub[s].last /\ sub'[s].count = sub[s].count
    BY <1>2, <2>2, OfferedFields DEF Polling
  <2>4. Types'
    <3>1. \A r \in Subs : sub'[r] \in Subscription
      BY <2>2, <2>3 DEF QueueInv, Types
    <3>2. sub' \in [Subs -> Subscription]
      BY <2>2, <3>1
    <3> QED BY <1>1, <1>4, <3>2 DEF QueueInv, Types
  <2>5. PushFits' /\ Bounded' /\ TriggersFit'
    <3>1. \A r \in Subs : sub'[r].state = sub[r].state /\ sub'[r].src = sub[r].src
      BY <2>2, <2>3
    <3> QED BY <1>1, <2>4, <3>1, FitUntouched DEF QueueInv
  <2>6. ASSUME NEW r \in Subs PROVE Cursors(r)'
    <3>1. CASE r = s
      <4>1. /\ sub[s].pending = 0 /\ sub[s].acked = v.acked
            /\ v.acked < v.through /\ v.through <= v.acked + BatchSize /\ v.through <= sub[s].seq
        BY <1>1, <1>2, <1>7 DEF Offers, PollFits
      <4> QED BY <1>1, <1>2, <2>3, <3>1, <4>1, SubscriptionAssumption DEF Cursors, Subscription
    <3>2. CASE r # s
      BY <1>1, <2>2, <3>2 DEF QueueInv, Cursors
    <3> QED BY <3>1, <3>2
  <2>7. ASSUME NEW r \in Subs PROVE Existence(r)'
    BY <1>1, <1>2, <1>4, <2>2, <2>3 DEF QueueInv, Existence
  <2>8. ASSUME NEW r \in Subs, NEW q \in Polls PROVE PollFits(r, q)'
    <3>1. CASE r = s /\ q = p
      BY <1>5, <3>1
    <3>2. CASE r # s \/ q # p
      <4>1. poll'[r][q] = poll[r][q] /\ sub'[r].acked = sub[r].acked /\ sub'[r].seq = sub[r].seq
        BY <1>4, <2>2, <2>3, <3>2
      <4>2. PollFits(r, q)
        BY DEF QueueInv
      <4> QED BY <4>1, <4>2 DEF PollFits
    <3> QED BY <3>1, <3>2
  <2> QED BY <2>4, <2>5, <2>6, <2>7, <2>8 DEF QueueInv
<1> QED BY <1>6, <1>7

\* A delivery's number is within those there may be.
LEMMA PendingBounded ==
  ASSUME QueueInv, NEW s \in Subs, sub[s].pending # 0
  PROVE  sub[s].pending \in 1 .. MaxWrites
<1>1. sub[s] \in Subscription /\ Cursors(s) /\ writes \in 0 .. MaxWrites
  BY DEF QueueInv, Types
<1> QED BY <1>1, SubscriptionAssumption DEF Subscription, Cursors

\* A consumer sees events of the subscription.
LEMMA PollShowKeeps ==
  ASSUME QueueInv, NEW s \in Subs, NEW p \in Polls, NEW lost \in BOOLEAN, PollShow(s, p, lost)
  PROVE  QueueInv'
<1>1. /\ UNCHANGED <<shape, sub, ev, create, push, writes>>
      /\ poll[s][p].pc = "show" /\ poll' = [poll EXCEPT ![s][p] = NoPoll]
  BY DEF PollShow
<1>2. NoPoll \in Polling /\ poll'[s][p] = NoPoll
  BY <1>1 DEF NoPoll, Polling, QueueInv, Types
<1>3. PollFits(s, p)'
  BY <1>2 DEF PollFits, NoPoll
<1>4. sub[s].state # "none"
  BY <1>1 DEF QueueInv, Existence
<1>5. faults' \in 0 .. MaxFaults
  BY SubscriptionAssumption DEF PollShow, QueueInv, Types
<1>6. shown' \in [Subs -> [1 .. MaxWrites -> SUBSET SUBSET Event]]
  <2>1. shown \in [Subs -> [1 .. MaxWrites -> SUBSET SUBSET Event]] /\ ev[s] \in SUBSET Event
    BY DEF QueueInv, Types
  <2>2. Batch(s) \in SUBSET Event
    BY <2>1 DEF Batch
  <2>3. CASE shown' = shown
    BY <2>1, <2>3
  <2>4. CASE /\ sub[s].pending # 0
             /\ shown' = [shown EXCEPT ![s][sub[s].pending] = @ \cup {Batch(s)}]
    <3> DEFINE d == sub[s].pending
    <3>1. d \in 1 .. MaxWrites
      BY <2>4, PendingBounded
    <3>2. shown[s][d] \cup {Batch(s)} \in SUBSET SUBSET Event
      <4>1. shown[s][d] \in SUBSET SUBSET Event
        <5>1. shown[s] \in [1 .. MaxWrites -> SUBSET SUBSET Event]
          BY <2>1
        <5> HIDE DEF d
        <5> QED BY <3>1, <5>1
      <4> QED BY <2>2, <4>1
    <3> HIDE DEF d
    <3>3. [shown[s] EXCEPT ![d] = shown[s][d] \cup {Batch(s)}] \in [1 .. MaxWrites -> SUBSET SUBSET Event]
      BY <2>1, <3>1, <3>2
    <3>4. shown' = [shown EXCEPT ![s] = [shown[s] EXCEPT ![d] = shown[s][d] \cup {Batch(s)}]]
      BY <2>4 DEF d
    <3> QED BY <2>1, <3>3, <3>4
  <2> QED BY <2>3, <2>4 DEF PollShow
<1> QED BY <1>1, <1>2, <1>3, <1>4, <1>5, <1>6, PollKeeps

\* What is acknowledged is what the offered delivery holds.
LEMMA AckKeeps ==
  ASSUME QueueInv, NEW s \in Subs, NEW d \in 1 .. MaxWrites, Ack(s, d)
  PROVE  QueueInv'
<1> DEFINE a == sub[s].acked
           b == sub[s].seq
           n == sub[s].through
<1>1. UNCHANGED <<shape, create, push, poll, shown, writes, faults>>
  BY DEF Ack
<1>2. /\ sub[s] \in Subscription /\ Cursors(s) /\ Existence(s) /\ Run(ev[s], a, b)
      /\ a \in Nat /\ b \in Nat /\ n \in Nat /\ ev \in [Subs -> SUBSET Event]
  <2>1. sub[s] \in Subscription /\ Cursors(s) /\ Existence(s) /\ ev \in [Subs -> SUBSET Event]
    BY DEF QueueInv, Types
  <2> QED BY <2>1 DEF Subscription, Cursors
<1>3. CASE sub[s].pending = d
  <2>1. /\ sub' = [sub EXCEPT ![s] = Acked(s, d)] /\ ev' = [ev EXCEPT ![s] = Later(ev[s], n)]
    BY <1>3 DEF Ack, AckedThrough, Acked, Later
  <2>2. d \in Nat /\ d # 0 /\ a < n /\ n <= b /\ n \in a .. b /\ d <= a + 1
        /\ d = sub[s].offers
    BY <1>2, <1>3 DEF Cursors
  <2>3. Run(Later(ev[s], n), n, b) /\ Run(UpTo(ev[s], n), a, n)
    BY <1>2, <2>2, RunParts
  <2>4. Cardinality(Batch(s)) = n - a
    <3>1. Batch(s) = UpTo(ev[s], n)
      BY <1>2 DEF Batch, UpTo, Run
    <3>2. a <= n
      BY <1>2, <2>2
    <3> QED BY <1>2, <2>3, <3>1, <3>2, RunSize
  <2>5. sub[s].count - Cardinality(Batch(s)) = b - n /\ b - n \in Nat
    BY <1>2, <2>2, <2>4 DEF Cursors
  <2>6. /\ sub'[s] = Acked(s, d) /\ ev'[s] = Later(ev[s], n)
        /\ \A r \in Subs \ {s} : sub'[r] = sub[r] /\ ev'[r] = ev[r]
        /\ sub' = [r \in Subs |-> sub'[r]]
    BY <2>1 DEF QueueInv, Types
  <2>7. /\ sub'[s] \in Subscription
        /\ sub'[s].count = b - n /\ sub'[s].acked = n /\ sub'[s].last = d
        /\ sub'[s].pending = 0 /\ sub'[s].through = 0
        /\ sub'[s].state = sub[s].state /\ sub'[s].src = sub[s].src /\ sub'[s].seq = b
        /\ sub'[s].offers = sub[s].offers
    BY <1>2, <2>2, <2>5, <2>6, AckedFields
  <2>8. Types'
    <3>1. \A r \in Subs : sub'[r] \in Subscription
      BY <2>6, <2>7 DEF QueueInv, Types
    <3>2. sub' \in [Subs -> Subscription]
      BY <2>6, <3>1
    <3>3. ev' \in [Subs -> SUBSET Event]
      BY <1>2, <2>1 DEF Later
    <3> QED BY <1>1, <3>2, <3>3 DEF QueueInv, Types
  <2>9. PushFits' /\ Bounded' /\ TriggersFit'
    <3>1. \A r \in Subs : sub'[r].state = sub[r].state /\ sub'[r].src = sub[r].src
      BY <2>6, <2>7
    <3> QED BY <1>1, <2>8, <3>1, FitUntouched DEF QueueInv
  <2>10. ASSUME NEW r \in Subs PROVE Kept(r)'
    <3>1. CASE r = s
      <4>1. Cursors(s)'
        <5>1. sub[s].count <= MaxPending /\ sub[s].count = b - a /\ b <= writes /\ writes \in Nat
          BY <1>2, SubscriptionAssumption DEF Cursors, QueueInv, Types
        <5> QED BY <1>1, <1>2, <2>2, <2>3, <2>6, <2>7, <5>1, SubscriptionAssumption DEF Cursors
      <4>2. Existence(s)'
        BY <1>1, <1>2, <1>3, <2>2, <2>7 DEF Existence, Nobody
      <4>3. ASSUME NEW p \in Polls PROVE PollFits(s, p)'
        <5>1. poll[s][p] \in Polling /\ PollFits(s, p) /\ poll' = poll
          BY <1>1 DEF QueueInv, Types
        <5> QED BY <1>2, <2>2, <2>7, <5>1 DEF PollFits, Polling
      <4> QED BY <3>1, <4>1, <4>2, <4>3 DEF Kept
    <3>2. CASE r # s
      <4>1. writes <= writes'
        BY <1>1, SubscriptionAssumption DEF QueueInv, Types
      <4>2. sub'[r] = sub[r] /\ ev'[r] = ev[r] /\ Kept(r)
        BY <2>6, <3>2 DEF QueueInv, Kept
      <4> QED BY <1>1, <2>8, <4>1, <4>2, Untouched DEF QueueInv
    <3> QED BY <3>1, <3>2
  <2> QED BY <2>8, <2>9, <2>10 DEF QueueInv, Kept
<1>4. CASE sub[s].pending # d
  <2>1. sub' = sub /\ ev' = [ev EXCEPT ![s] = {e \in @ : e.seq > a}]
    BY <1>4 DEF Ack
  <2>2. {e \in ev[s] : e.seq > a} = ev[s]
    BY <1>2 DEF Run, Event
  <2>3. ev' = ev
    BY <1>2, <2>1, <2>2
  <2>4. Types'
    BY <1>1, <2>1, <2>3 DEF QueueInv, Types
  <2>5. PushFits' /\ Bounded' /\ TriggersFit'
    BY <1>1, <2>1, <2>4, FitUntouched DEF QueueInv
  <2>6. ASSUME NEW r \in Subs PROVE Kept(r)'
    <3>1. writes <= writes'
      BY <1>1, SubscriptionAssumption DEF QueueInv, Types
    <3> QED BY <1>1, <2>1, <2>3, <2>4, <3>1, Untouched DEF QueueInv, Kept
  <2> QED BY <2>4, <2>5, <2>6 DEF QueueInv, Kept
<1> QED BY <1>3, <1>4

\* Every step keeps the invariant.
LEMMA QueueInvStep == QueueInv /\ [Next]_vars => QueueInv'
<1> SUFFICES ASSUME QueueInv, [Next]_vars PROVE QueueInv'
  OBVIOUS
<1>1. ASSUME NEW t \in Tables, Write(t) PROVE QueueInv'
  BY <1>1, WriteKeeps
<1>2. ASSUME NEW t \in Tables, NEW kind \in {"add", "break"}, SchemaRead(t, kind) PROVE QueueInv'
  BY <1>2, SchemaReadKeeps
<1>3. CASE SchemaCommit
  BY <1>3, SchemaCommitKeeps
<1>4. ASSUME NEW s \in Subs, CreateRead(s) PROVE QueueInv'
  BY <1>4, CreateReadKeeps
<1>5. ASSUME NEW s \in Subs, CreateCommit(s) PROVE QueueInv'
  BY <1>5, CreateCommitKeeps
<1>6. ASSUME NEW s \in Subs, NEW state \in {"active", "paused", "retired"}, SetState(s, state)
      PROVE  QueueInv'
  BY <1>6, SetStateKeeps
<1>7. ASSUME NEW s \in Subs, NEW p \in Polls, Poll(s, p) \/ PollShow(s, p, TRUE) PROVE QueueInv'
  BY <1>7, PollLoadKeeps, PollReadKeeps, PollOfferKeeps, PollShowKeeps DEF Poll
<1>8. ASSUME NEW s \in Subs, NEW d \in 1 .. MaxWrites, Ack(s, d) PROVE QueueInv'
  BY <1>8, AckKeeps
<1>9. CASE UNCHANGED vars
  BY ZenonT(40), <1>9 DEF vars, QueueInv, Types, PushFits, Bounded, TriggersFit, Watching, Cursors, Existence, PollFits
<1> QED BY <1>1, <1>2, <1>3, <1>4, <1>5, <1>6, <1>7, <1>8, <1>9 DEF Next

\* The events kept of a subscription are a run, whatever polls, acknowledgements,
\* schema pushes and lost answers do.
LEMMA Invariance == Spec => []QueueInv
BY QueueInvInit, QueueInvStep, PTL DEF Spec

\* Stored subscriptions are well typed and hold what their counters say, a
\* delivery is never past what was recorded, and no schema push takes from a table the
\* columns a subscription's triggers record (subscriptions.js).
THEOREM SubscriptionsAreSound == Spec => []SubscriptionsSound
BY Invariance, QueueInvTypes, PTL

-----------------------------------------------------------------------------
(* The durable queue *)

\* The number of events up to one of the run's numbers.
LEMMA RunUpTo ==
  ASSUME NEW es, NEW a \in Nat, NEW b \in Nat, Run(es, a, b), NEW n \in a .. b
  PROVE  Cardinality({e \in es : e.seq <= n}) = n - a
<1>1. Run(UpTo(es, n), a, n)
  BY RunParts
<1>2. n \in Nat /\ a <= n
  OBVIOUS
<1>3. Cardinality(UpTo(es, n)) = n - a
  BY <1>1, <1>2, RunSize
<1> QED BY <1>3 DEF UpTo

\* The size of an open delivery, and the length of a queue.
LEMMA Sizes ==
  ASSUME QueueInv, NEW s \in Subs
  PROVE  /\ sub[s] \in Subscription
         /\ QueueOf[s] = Ordered(ev[s]) /\ Len(QueueOf[s]) = sub[s].seq - sub[s].acked
         /\ OfferOf[s].number = sub[s].offers
         /\ OfferOf[s].size = IF sub[s].pending = 0 THEN 0 ELSE sub[s].through - sub[s].acked
<1>1. sub[s] \in Subscription /\ Cursors(s)
  BY DEF QueueInv, Types
<1>2. /\ sub[s].acked \in Nat /\ sub[s].seq \in Nat /\ sub[s].acked <= sub[s].seq
      /\ Run(ev[s], sub[s].acked, sub[s].seq)
  BY <1>1 DEF Subscription, Cursors
<1>3. Len(Ordered(ev[s])) = sub[s].seq - sub[s].acked
  BY <1>2, RunOrdered
<1>4. sub[s].pending # 0 =>
        Cardinality({e \in ev[s] : e.seq <= sub[s].through}) = sub[s].through - sub[s].acked
  <2> SUFFICES ASSUME sub[s].pending # 0
               PROVE  Cardinality({e \in ev[s] : e.seq <= sub[s].through}) = sub[s].through - sub[s].acked
    OBVIOUS
  <2>1. sub[s].through \in sub[s].acked .. sub[s].seq
    BY <1>1 DEF Subscription, Cursors
  <2> QED BY <1>2, <2>1, RunUpTo
<1> QED BY <1>1, <1>3, <1>4 DEF QueueOf, OfferOf

\* A step that changes no subscription and no event, and what nobody was given.
LEMMA SameQueues ==
  ASSUME sub' = sub, ev' = ev
  PROVE  WatchOf' = WatchOf /\ QueueOf' = QueueOf /\ OfferOf' = OfferOf
BY DEF WatchOf, QueueOf, OfferOf, Watching

\* A step that leaves the whole queue as it is.
LEMMA QueueStutters ==
  ASSUME sub' = sub, ev' = ev, shown' = shown, writes' = writes
  PROVE  UNCHANGED Queue!queueVars
<1>1. GivenOf' = GivenOf
  BY DEF GivenOf
<1> QED BY <1>1, SameQueues DEF Queue!queueVars

\* A recorded change goes to the end of the queues that watch its table.
LEMMA WriteIsChange ==
  ASSUME QueueInv, NEW t \in Tables, Write(t)
  PROVE  Queue!Change(t)
<1> DEFINE on == {s \in Subs : t \in WatchOf[s]}
<1>1. on = {s \in Triggers(t) : Records(s)}
  BY DEF WatchOf, Triggers, Records, Watching
<1>2. writes' = writes + 1 /\ shown' = shown /\ writes' \in Nat
  <2>1. writes \in Nat
    BY SubscriptionAssumption DEF QueueInv, Types
  <2>2. writes' = writes + 1 /\ shown' = shown
    BY Zenon DEF Write
  <2> QED BY <2>1, <2>2
<1>3. ASSUME NEW s \in Subs
      PROVE  /\ s \in on => /\ sub'[s] = [sub[s] EXCEPT !.seq = @ + 1, !.count = @ + 1]
                            /\ ev'[s] = ev[s] \cup {[seq |-> sub[s].seq + 1, change |-> writes']}
                            /\ sub[s].count < MaxPending
             /\ s \notin on => sub'[s] = sub[s] /\ ev'[s] = ev[s]
  BY <1>1 DEF Write
<1>4. on \subseteq Subs
  OBVIOUS
<1> HIDE DEF on
<1>5. ASSUME NEW s \in Subs
      PROVE  /\ sub'[s].state = sub[s].state /\ sub'[s].src = sub[s].src
             /\ sub'[s].offers = sub[s].offers /\ sub'[s].pending = sub[s].pending
             /\ sub'[s].through = sub[s].through
  <2>1. sub[s] \in Subscription
    BY DEF QueueInv, Types
  <2> QED BY <1>3, <2>1 DEF Subscription
<1>6. ASSUME NEW s \in on
      PROVE  /\ Len(QueueOf[s]) < MaxPending
             /\ Ordered(ev'[s]) = Append(QueueOf[s], writes + 1)
             /\ {e \in ev'[s] : e.seq <= sub[s].through} = {e \in ev[s] : e.seq <= sub[s].through}
  <2>1. s \in Subs /\ Cursors(s)
    BY <1>4 DEF QueueInv
  <2>2. sub[s] \in Subscription /\ QueueOf[s] = Ordered(ev[s])
        /\ Len(QueueOf[s]) = sub[s].seq - sub[s].acked
    BY <2>1, Sizes
  <2>3. Len(QueueOf[s]) < MaxPending
    BY <1>3, <2>1, <2>2 DEF Cursors
  <2>4. /\ sub[s].acked \in Nat /\ sub[s].seq \in Nat /\ sub[s].acked <= sub[s].seq
        /\ sub[s].through \in Nat /\ sub[s].through <= sub[s].seq
        /\ Run(ev[s], sub[s].acked, sub[s].seq) /\ writes' \in Nat
    BY <1>2, <2>1, <2>2 DEF Subscription, Cursors
  <2>5. ev'[s] = ev[s] \cup {[seq |-> sub[s].seq + 1, change |-> writes']}
    BY <1>3, <2>1
  <2>6. Ordered(ev[s] \cup {[seq |-> sub[s].seq + 1, change |-> writes']}) = Append(Ordered(ev[s]), writes')
    <3>1. Run(ev[s], sub[s].acked, sub[s].seq) /\ sub[s].acked <= sub[s].seq
      BY <2>4
    <3>2. sub[s].acked \in Nat /\ sub[s].seq \in Nat /\ writes' \in Nat
      BY <2>4
    <3> QED BY <3>1, <3>2, MoreOrdered, Zenon
  <2>7. {e \in ev'[s] : e.seq <= sub[s].through} = {e \in ev[s] : e.seq <= sub[s].through}
    <3> DEFINE new == [seq |-> sub[s].seq + 1, change |-> writes']
    <3>1. ~(new.seq <= sub[s].through)
      BY <2>4
    <3> HIDE DEF new
    <3> QED BY <2>5, <3>1 DEF new
  <2> QED BY <1>2, <2>2, <2>3, <2>5, <2>6, <2>7
<1>7. WatchOf' = WatchOf
  BY <1>5 DEF WatchOf, Watching
<1>8. OfferOf' = OfferOf
  <2>1. ASSUME NEW s \in Subs
        PROVE  {e \in ev'[s] : e.seq <= sub'[s].through} = {e \in ev[s] : e.seq <= sub[s].through}
    BY <1>3, <1>5, <1>6
  <2> QED BY <1>5, <2>1 DEF OfferOf
<1>9. QueueOf' = [s \in Subs |-> IF s \in on THEN Append(QueueOf[s], writes + 1) ELSE QueueOf[s]]
  <2>1. \A s \in Subs : Ordered(ev'[s]) = IF s \in on THEN Append(QueueOf[s], writes + 1) ELSE QueueOf[s]
    BY <1>3, <1>6 DEF QueueOf
  <2> QED BY <2>1 DEF QueueOf
<1>10. GivenOf' = GivenOf
  BY <1>2 DEF GivenOf
<1> QED BY <1>2, <1>6, <1>7, <1>8, <1>9, <1>10 DEF Queue!Change, on

\* A subscription that is created begins to watch.
LEMMA CreateIsSubscribe ==
  ASSUME QueueInv, NEW s \in Subs, CreateCommit(s)
  PROVE  \/ \E src \in SUBSET Tables : Queue!Subscribe(s, src)
         \/ UNCHANGED Queue!queueVars
<1> DEFINE c == create[s]
<1>1. /\ UNCHANGED <<ev, shown, writes>>
      /\ sub[s] = Nobody /\ c.src # {} /\ c.src \in SUBSET Tables
  BY DEF CreateCommit, QueueInv, Existence
<1>2. CASE ~Unchanged(c)
  BY <1>1, <1>2, QueueStutters DEF CreateCommit
<1>3. CASE Unchanged(c)
  <2>1. sub' = [sub EXCEPT ![s] = [Nobody EXCEPT !.state = "active", !.src = c.src]]
    BY <1>3 DEF CreateCommit
  <2>2. /\ sub'[s].state = "active" /\ sub'[s].src = c.src
        /\ sub'[s].offers = 0 /\ sub'[s].pending = 0
        /\ \A r \in Subs \ {s} : sub'[r] = sub[r]
    BY <2>1 DEF Nobody, QueueInv, Types
  <2>3. WatchOf[s] = {} /\ WatchOf' = [WatchOf EXCEPT ![s] = c.src]
    <3>1. ~Watching(s) /\ Watching(s)' /\ \A r \in Subs \ {s} : Watching(r)' = Watching(r)
      BY <1>1, <2>2 DEF Watching, Nobody
    <3>2. WatchOf' = [r \in Subs |-> IF r = s THEN c.src ELSE WatchOf[r]]
      BY <2>2, <3>1 DEF WatchOf
    <3>3. WatchOf[s] = {} /\ WatchOf = [r \in Subs |-> WatchOf[r]]
      BY <3>1 DEF WatchOf
    <3> QED BY <3>2, <3>3
  <2>4. OfferOf' = OfferOf
    <3>1. sub[s].offers = 0 /\ sub[s].pending = 0
      BY <1>1 DEF Nobody
    <3>2. \A r \in Subs : /\ sub'[r].offers = sub[r].offers /\ sub'[r].pending = sub[r].pending
                          /\ sub[r].pending # 0 => sub'[r].through = sub[r].through
      BY <2>2, <3>1
    <3> QED BY <1>1, <3>2 DEF OfferOf
  <2>5. QueueOf' = QueueOf /\ GivenOf' = GivenOf
    BY <1>1 DEF QueueOf, GivenOf
  <2> QED BY <1>1, <2>3, <2>4, <2>5 DEF Queue!Subscribe
<1> QED BY <1>2, <1>3

\* One that is retired stops watching; pausing one changes nothing for its queue.
LEMMA SetStateIsRetire ==
  ASSUME QueueInv, NEW s \in Subs, NEW state \in {"active", "paused", "retired"},
         SetState(s, state)
  PROVE  Queue!Retire(s) \/ UNCHANGED Queue!queueVars
<1>1. /\ ev' = ev /\ shown' = shown /\ writes' = writes
      /\ sub[s].state \notin {"none", "retired"}
      /\ sub' = [sub EXCEPT ![s].state = state]
  BY DEF SetState
<1>2. sub[s] \in Subscription /\ sub[s].state \in {"active", "paused"}
  BY <1>1 DEF QueueInv, Types, Subscription
<1>3. /\ sub'[s] = [sub[s] EXCEPT !.state = state]
      /\ \A r \in Subs \ {s} : sub'[r] = sub[r]
  BY <1>1 DEF QueueInv, Types
<1>4. /\ sub'[s].state = state /\ sub'[s].src = sub[s].src /\ sub'[s].offers = sub[s].offers
      /\ sub'[s].pending = sub[s].pending /\ sub'[s].through = sub[s].through
  BY <1>2, <1>3 DEF Subscription
<1>5. OfferOf' = OfferOf
  <2>1. \A r \in Subs : /\ sub'[r].offers = sub[r].offers /\ sub'[r].pending = sub[r].pending
                        /\ sub'[r].through = sub[r].through
    BY <1>3, <1>4
  <2> QED BY <1>1, <2>1 DEF OfferOf
<1>6. QueueOf' = QueueOf /\ GivenOf' = GivenOf
  BY <1>1 DEF QueueOf, GivenOf
<1>7. CASE state = "retired"
  <2>1. WatchOf' = [WatchOf EXCEPT ![s] = {}]
    BY <1>3, <1>4, <1>7 DEF WatchOf, Watching
  <2> QED BY <1>1, <1>5, <1>6, <2>1 DEF Queue!Retire
<1>8. CASE state # "retired"
  <2>1. WatchOf' = WatchOf
    BY <1>2, <1>3, <1>4, <1>8 DEF WatchOf, Watching
  <2> QED BY <1>1, <1>5, <1>6, <2>1 DEF Queue!queueVars
<1> QED BY <1>7, <1>8

\* The batch that is offered is the front of the queue.
LEMMA PollOfferIsOffer ==
  ASSUME QueueInv, NEW s \in Subs, NEW p \in Polls, PollOffer(s, p)
  PROVE  (\E n \in 1 .. BatchSize : Queue!Offer(s, n)) \/ UNCHANGED Queue!queueVars
<1> DEFINE v == poll[s][p]
           n == v.through - sub[s].acked
<1>1. ev' = ev /\ shown' = shown /\ writes' = writes /\ v.pc = "offer"
  BY DEF PollOffer
<1>2. CASE ~Offers(v, s)
  BY <1>1, <1>2, QueueStutters DEF PollOffer
<1>3. CASE Offers(v, s)
  <2>1. v \in Polling /\ sub[s] \in Subscription /\ PollFits(s, p) /\ Cursors(s)
    BY DEF QueueInv, Types
  <2>2. /\ sub[s].pending = 0 /\ sub[s].acked \in Nat /\ sub[s].seq \in Nat /\ v.through \in Nat
        /\ sub[s].acked < v.through /\ v.through <= sub[s].acked + BatchSize
        /\ v.through <= sub[s].seq /\ Run(ev[s], sub[s].acked, sub[s].seq)
    BY <1>1, <1>3, <2>1 DEF Offers, PollFits, Polling, Subscription, Cursors
  <2>3. sub' = [sub EXCEPT ![s] = Offered(s, v.through)]
    BY <1>3 DEF PollOffer, Offered, QueueInv, Types
  <2>4. /\ sub'[s] = Offered(s, v.through) /\ \A r \in Subs \ {s} : sub'[r] = sub[r]
    BY <2>3 DEF QueueInv, Types
  <2>5. /\ sub'[s].pending = sub[s].offers + 1 /\ sub'[s].offers = sub[s].offers + 1
        /\ sub'[s].through = v.through
        /\ sub'[s].state = sub[s].state /\ sub'[s].src = sub[s].src
        /\ sub'[s].pending # 0
    BY <2>1, <2>2, <2>4, OfferedFields DEF Subscription
  <2>6. n \in 1 .. BatchSize /\ n <= Len(QueueOf[s]) /\ OfferOf[s].size = 0
    BY <2>2, Sizes, SubscriptionAssumption
  <2>7. Cardinality({e \in ev[s] : e.seq <= v.through}) = n
    <3>1. v.through \in sub[s].acked .. sub[s].seq
      BY <2>2
    <3> QED BY <2>2, <3>1, RunUpTo
  <2>8. WatchOf' = WatchOf
    BY <2>4, <2>5 DEF WatchOf, Watching
  <2>9. OfferOf' = [OfferOf EXCEPT ![s] = [number |-> OfferOf[s].number + 1, size |-> n]]
    BY ZenonT(40), <1>1, <2>4, <2>5, <2>7 DEF OfferOf
  <2>10. QueueOf' = QueueOf /\ GivenOf' = GivenOf
    BY <1>1 DEF QueueOf, GivenOf
  <2> HIDE DEF n
  <2> QED BY <1>1, <2>6, <2>8, <2>9, <2>10 DEF Queue!Offer
<1> QED BY <1>2, <1>3

\* What a consumer is given is the front of the queue.
LEMMA PollShowIsGive ==
  ASSUME QueueInv, NEW s \in Subs, NEW p \in Polls, NEW lost \in BOOLEAN, PollShow(s, p, lost)
  PROVE  Queue!Give(s) \/ UNCHANGED Queue!queueVars
<1>1. sub' = sub /\ ev' = ev /\ writes' = writes
  BY DEF PollShow
<1>2. CASE shown' = shown
  BY <1>1, <1>2, QueueStutters
<1>3. CASE /\ sub[s].pending # 0
           /\ shown' = [shown EXCEPT ![s][sub[s].pending] = @ \cup {Batch(s)}]
  <2> DEFINE d == sub[s].pending
             n == sub[s].through
  <2>1. d \in 1 .. MaxWrites
    BY <1>3, PendingBounded
  <2>2. sub[s] \in Subscription /\ Cursors(s) /\ shown \in [Subs -> [1 .. MaxWrites -> SUBSET SUBSET Event]]
    BY DEF QueueInv, Types
  <2>3. /\ sub[s].acked \in Nat /\ sub[s].seq \in Nat /\ n \in Nat /\ sub[s].acked < n /\ n <= sub[s].seq
        /\ Run(ev[s], sub[s].acked, sub[s].seq) /\ d = sub[s].offers
    BY <1>3, <2>2 DEF Subscription, Cursors
  <2>4. OfferOf[s].number = d /\ OfferOf[s].size = n - sub[s].acked /\ OfferOf[s].size # 0
    BY <1>3, <2>3, Sizes
  <2>5. Ordered(Batch(s)) = Queue!Front(s)
    <3>1. Batch(s) = UpTo(ev[s], n)
      BY <2>3 DEF Batch, UpTo, Run
    <3>2. n \in sub[s].acked .. sub[s].seq
      BY <2>3
    <3>3. Ordered(UpTo(ev[s], n)) = SubSeq(Ordered(ev[s]), 1, n - sub[s].acked)
      BY <2>3, <3>2, PartsOrdered
    <3>4. QueueOf[s] = Ordered(ev[s])
      BY Sizes
    <3> QED BY <2>4, <3>1, <3>3, <3>4 DEF Queue!Front
  <2>6. GivenOf' = [GivenOf EXCEPT ![s][d] = @ \cup {Ordered(Batch(s))}]
    <3> HIDE DEF d
    <3>1. \A r \in Subs, k \in 1 .. MaxWrites :
            shown'[r][k] = IF r = s /\ k = d THEN shown[s][d] \cup {Batch(s)} ELSE shown[r][k]
      BY <1>3, <2>1, <2>2 DEF d
    <3>2. {Ordered(es) : es \in shown[s][d] \cup {Batch(s)}}
            = {Ordered(es) : es \in shown[s][d]} \cup {Ordered(Batch(s))}
      OBVIOUS
    <3>3. \A r \in Subs, k \in 1 .. MaxWrites :
            {Ordered(es) : es \in shown'[r][k]}
              = IF r = s /\ k = d THEN GivenOf[s][d] \cup {Ordered(Batch(s))} ELSE GivenOf[r][k]
      BY <2>1, <3>1, <3>2 DEF GivenOf
    <3>4. GivenOf' = [r \in Subs |-> [k \in 1 .. MaxWrites |->
                       IF r = s /\ k = d THEN GivenOf[s][d] \cup {Ordered(Batch(s))} ELSE GivenOf[r][k]]]
      BY <3>3 DEF GivenOf
    <3>5. GivenOf = [r \in Subs |-> [k \in 1 .. MaxWrites |-> GivenOf[r][k]]]
      BY DEF GivenOf
    <3>6. [GivenOf EXCEPT ![s][d] = @ \cup {Ordered(Batch(s))}]
            = [r \in Subs |-> [k \in 1 .. MaxWrites |->
                 IF r = s /\ k = d THEN GivenOf[s][d] \cup {Ordered(Batch(s))} ELSE GivenOf[r][k]]]
      BY <2>1, <3>5
    <3> QED BY <3>4, <3>6
  <2>7. WatchOf' = WatchOf /\ QueueOf' = QueueOf /\ OfferOf' = OfferOf
    BY <1>1, SameQueues
  <2> QED BY <1>1, <2>4, <2>5, <2>6, <2>7 DEF Queue!Give
<1> QED BY <1>2, <1>3 DEF PollShow

\* An acknowledgement of the open delivery removes that front; any other changes nothing.
LEMMA AckIsAcknowledge ==
  ASSUME QueueInv, NEW s \in Subs, NEW d \in 1 .. MaxWrites, Ack(s, d)
  PROVE  Queue!Acknowledge(s) \/ UNCHANGED Queue!queueVars
<1> DEFINE a == sub[s].acked
           b == sub[s].seq
           n == sub[s].through
<1>1. shown' = shown /\ writes' = writes /\ shown[s][d] # {}
  BY DEF Ack
<1>2. /\ sub[s] \in Subscription /\ Cursors(s) /\ Run(ev[s], a, b)
      /\ a \in Nat /\ b \in Nat /\ n \in Nat /\ ev \in [Subs -> SUBSET Event]
      /\ d \in Nat /\ d # 0
  <2>1. sub[s] \in Subscription /\ Cursors(s) /\ ev \in [Subs -> SUBSET Event]
    BY DEF QueueInv, Types
  <2> QED BY <2>1, SubscriptionAssumption DEF Subscription, Cursors
<1>3. CASE sub[s].pending = d
  <2>1. /\ sub' = [sub EXCEPT ![s] = Acked(s, d)] /\ ev' = [ev EXCEPT ![s] = Later(ev[s], n)]
    BY <1>3 DEF Ack, AckedThrough, Acked, Later
  <2>2. a < n /\ n <= b /\ n \in a .. b /\ d = sub[s].offers
    BY <1>2, <1>3 DEF Cursors
  <2>3. sub[s].count - Cardinality(Batch(s)) = b - n /\ b - n \in Nat
    <3>1. Batch(s) = {e \in ev[s] : e.seq <= n}
      BY <1>2 DEF Batch, Run
    <3>2. Cardinality({e \in ev[s] : e.seq <= n}) = n - a
      BY <1>2, <2>2, RunUpTo
    <3> QED BY <1>2, <2>2, <3>1, <3>2 DEF Cursors
  <2>4. /\ sub'[s] = Acked(s, d) /\ ev'[s] = Later(ev[s], n)
        /\ \A r \in Subs \ {s} : sub'[r] = sub[r] /\ ev'[r] = ev[r]
    BY <2>1 DEF QueueInv, Types
  <2>5. /\ sub'[s].pending = 0 /\ sub'[s].state = sub[s].state /\ sub'[s].src = sub[s].src
        /\ sub'[s].offers = sub[s].offers
    BY <1>2, <2>3, <2>4, AckedFields
  <2>6. /\ OfferOf[s].number = d /\ OfferOf[s].size = n - a /\ OfferOf[s].size # 0
        /\ QueueOf[s] = Ordered(ev[s])
    BY <1>2, <1>3, <2>2, Sizes
  <2>7. GivenOf[s][OfferOf[s].number] # {}
    BY <1>1, <2>6 DEF GivenOf
  <2>8. QueueOf' = [QueueOf EXCEPT ![s] = SubSeq(QueueOf[s], OfferOf[s].size + 1, Len(QueueOf[s]))]
    <3>1. Ordered(Later(ev[s], n)) = SubSeq(QueueOf[s], n - a + 1, Len(QueueOf[s]))
      <4>1. Ordered(Later(ev[s], n)) = SubSeq(Ordered(ev[s]), n - a + 1, Len(Ordered(ev[s])))
        BY <1>2, <2>2, PartsOrdered
      <4> QED BY <2>6, <4>1
    <3>2. \A r \in Subs : Ordered(ev'[r]) =
             IF r = s THEN SubSeq(QueueOf[s], OfferOf[s].size + 1, Len(QueueOf[s])) ELSE QueueOf[r]
      BY <2>4, <2>6, <3>1 DEF QueueOf
    <3> QED BY <3>2 DEF QueueOf
  <2>9. OfferOf' = [OfferOf EXCEPT ![s].size = 0]
    <3>1. OfferOf' = [r \in Subs |-> IF r = s THEN [number |-> sub[s].offers, size |-> 0] ELSE OfferOf[r]]
      BY <2>4, <2>5 DEF OfferOf
    <3>2. OfferOf = [r \in Subs |-> OfferOf[r]]
          /\ [OfferOf[s] EXCEPT !.size = 0] = [number |-> sub[s].offers, size |-> 0]
      <4>1. OfferOf = [r \in Subs |-> OfferOf[r]]
        BY DEF OfferOf
      <4>2. OfferOf[s] = [number |-> sub[s].offers, size |-> OfferOf[s].size]
        BY DEF OfferOf
      <4>3. \A x, y : [[number |-> x, size |-> y] EXCEPT !.size = 0] = [number |-> x, size |-> 0]
        OBVIOUS
      <4> QED BY <4>1, <4>2, <4>3
    <3>3. [OfferOf EXCEPT ![s].size = 0] = [OfferOf EXCEPT ![s] = [OfferOf[s] EXCEPT !.size = 0]]
      BY <3>2
    <3> QED BY <3>1, <3>2, <3>3
  <2>10. WatchOf' = WatchOf
    BY <2>4, <2>5 DEF WatchOf, Watching
  <2>11. GivenOf' = GivenOf
    BY <1>1 DEF GivenOf
  <2> QED BY <1>1, <2>6, <2>7, <2>8, <2>9, <2>10, <2>11 DEF Queue!Acknowledge
<1>4. CASE sub[s].pending # d
  <2>1. sub' = sub /\ ev' = [ev EXCEPT ![s] = {e \in @ : e.seq > a}]
    BY <1>4 DEF Ack
  <2>2. {e \in ev[s] : e.seq > a} = ev[s]
    BY <1>2 DEF Run, Event
  <2>3. ev' = ev
    BY <1>2, <2>1, <2>2
  <2> QED BY <1>1, <2>1, <2>3, QueueStutters
<1> QED BY <1>3, <1>4

\* An empty table of subscriptions is a set of empty queues.
LEMMA InitIsQueueInit == Init => Queue!QueueInit
<1> SUFFICES ASSUME Init PROVE Queue!QueueInit
  OBVIOUS
<1>1. WatchOf = [s \in Subs |-> {}]
  BY DEF Init, WatchOf, Watching, Nobody
<1>2. QueueOf = [s \in Subs |-> << >>]
  BY NoneOrdered DEF Init, QueueOf
<1>3. OfferOf = [s \in Subs |-> [number |-> 0, size |-> 0]]
  BY DEF Init, OfferOf, Nobody
<1>4. GivenOf = [s \in Subs |-> [d \in 1 .. MaxWrites |-> {}]]
  BY DEF Init, GivenOf
<1> QED BY <1>1, <1>2, <1>3, <1>4 DEF Init, Queue!QueueInit

\* Every step is one of the queue's, or invisible to its consumer.
LEMMA StepIsQueueStep == QueueInv /\ [Next]_vars => [Queue!QueueNext]_(Queue!queueVars)
<1> SUFFICES ASSUME QueueInv, [Next]_vars PROVE [Queue!QueueNext]_(Queue!queueVars)
  OBVIOUS
<1> USE DEF Queue!QueueNext
<1>1. ASSUME NEW t \in Tables, Write(t) PROVE Queue!QueueNext
  BY <1>1, WriteIsChange
<1>2. ASSUME NEW s \in Subs, CreateCommit(s) PROVE Queue!QueueNext \/ UNCHANGED Queue!queueVars
  BY <1>2, CreateIsSubscribe
<1>3. ASSUME NEW s \in Subs, NEW state \in {"active", "paused", "retired"}, SetState(s, state)
      PROVE  Queue!QueueNext \/ UNCHANGED Queue!queueVars
  BY <1>3, SetStateIsRetire
<1>4. ASSUME NEW s \in Subs, NEW p \in Polls, PollOffer(s, p)
      PROVE  Queue!QueueNext \/ UNCHANGED Queue!queueVars
  BY <1>4, PollOfferIsOffer
<1>5. ASSUME NEW s \in Subs, NEW p \in Polls, NEW lost \in BOOLEAN, PollShow(s, p, lost)
      PROVE  Queue!QueueNext \/ UNCHANGED Queue!queueVars
  BY <1>5, PollShowIsGive
<1>6. ASSUME NEW s \in Subs, NEW d \in 1 .. MaxWrites, Ack(s, d)
      PROVE  Queue!QueueNext \/ UNCHANGED Queue!queueVars
  BY <1>6, AckIsAcknowledge
<1>7. ASSUME NEW s \in Subs, CreateRead(s) PROVE UNCHANGED Queue!queueVars
  BY <1>7, QueueStutters DEF CreateRead
<1>8. ASSUME NEW t \in Tables, NEW kind, SchemaRead(t, kind) PROVE UNCHANGED Queue!queueVars
  BY <1>8, QueueStutters DEF SchemaRead
<1>9. CASE SchemaCommit
  BY <1>9, QueueStutters DEF SchemaCommit
<1>10. ASSUME NEW s \in Subs, NEW p \in Polls, PollLoad(s, p) \/ PollRead(s, p)
       PROVE  UNCHANGED Queue!queueVars
  <2>1. sub' = sub /\ ev' = ev /\ shown' = shown /\ writes' = writes
    BY <1>10 DEF PollLoad, PollRead
  <2> QED BY <2>1, QueueStutters
<1>11. CASE UNCHANGED vars
  BY <1>11, QueueStutters DEF vars
<1> HIDE DEF Queue!QueueNext
<1>12. CASE Next
  <2>1. CASE \E s \in Subs, p \in Polls : Poll(s, p) \/ PollShow(s, p, TRUE)
    BY <1>4, <1>5, <1>10, <2>1 DEF Poll
  <2>2. CASE \E s \in Subs : CreateRead(s) \/ CreateCommit(s)
    BY <1>2, <1>7, <2>2
  <2>3. CASE \E t \in Tables : Write(t) \/ \E kind \in {"add", "break"} : SchemaRead(t, kind)
    BY <1>1, <1>8, <2>3
  <2> QED BY <1>3, <1>6, <1>9, <1>12, <2>1, <2>2, <2>3 DEF Next
<1> QED BY <1>11, <1>12

\* A change subscription is a durable queue (subscriptions.js,
\* subscription-delivery.js): every change of a watched row waits in it, once
\* and in order, until its consumer has been given it and has acknowledged it,
\* and a delivery stays what it was until then; for any number of subscriptions,
\* tables, polls and changes, whatever answers are lost and whichever polls meet.
THEOREM QueueIsImplemented == Spec => QueueImplemented
BY InitIsQueueInit, Invariance, StepIsQueueStep, PTL DEF QueueImplemented, Spec, Queue!QueueSpec

-----------------------------------------------------------------------------
(* Push deliveries *)

Delivering == {"next", "check", "send", "record"}
DrainStages == Delivering \cup {"idle", "claim", "release"}

PushTypes ==
  /\ feed \in 0 .. MaxEvents
  /\ reg \in [state : {"none", "active", "revoked"}, revision : Nat, made : 0 .. MaxRevision,
              token : DeviceTokens \cup {NoOne}, base : Nat, cursor : Nat,
              lease : Drains \cup {NoOne}, leased : BOOLEAN]
  /\ asked \in [Requests -> [kind : {"none", "active", "revoked"},
                             token : DeviceTokens \cup {NoOne}, expected : Nat]]
  /\ receipts \in [Requests -> Nat]
  /\ outcome \in [1 .. MaxEvents -> {"none", "accepted", "permanent", "retry"}]
  /\ drain \in [Drains -> [pc : DrainStages, revision : Nat, token : DeviceTokens \cup {NoOne},
                           cursor : Nat, event : Nat, verdict : Verdicts]]

\* The registration names its newest revision, and a token exactly while active.
RegistrationInv ==
  /\ reg.revision = reg.made
  /\ reg.base <= reg.cursor /\ reg.cursor <= feed
  /\ reg.token \in DeviceTokens <=> reg.state = "active"
  /\ reg.leased => reg.lease # NoOne

RequestInv(r) ==
  /\ asked[r].kind = "active" <=> asked[r].token \in DeviceTokens
  /\ receipts[r] <= reg.made

\* A drain whose claim still holds stands where the registration does.
DrainInv(d) ==
  /\ drain[d].revision <= reg.made
  /\ drain[d].cursor <= feed /\ drain[d].event <= feed
  /\ drain[d].pc \in {"check", "send", "record"} => drain[d].event = drain[d].cursor + 1
  /\ drain[d].pc = "record" /\ drain[d].verdict = "invalid" => drain[d].revision < MaxRevision
  /\ drain[d].pc \in Delivering /\ Current(d) =>
       drain[d].cursor = reg.cursor /\ drain[d].token = reg.token

\* Nothing is recorded of events that have not come.
FeedInv == FeedInOrder /\ \A e \in (feed + 1) .. MaxEvents : outcome[e] = "none"

PushInv ==
  /\ PushTypes /\ RegistrationInv
  /\ \A r \in Requests : RequestInv(r)
  /\ \A d \in Drains : DrainInv(d)
  /\ FeedInv

LEMMA PushInvInit == PushInit => PushInv
<1> SUFFICES ASSUME PushInit PROVE PushInv
  OBVIOUS
<1> USE PushAssumption DEF PushInit, Unregistered, NotAsked, NoDrain
<1>1. PushTypes
  BY DEF PushTypes, DrainStages, Delivering, Verdicts
<1>2. RegistrationInv
  BY DEF RegistrationInv
<1>3. ASSUME NEW r \in Requests PROVE RequestInv(r)
  BY DEF RequestInv
<1>4. ASSUME NEW d \in Drains PROVE DrainInv(d)
  BY DEF DrainInv, Delivering
<1>5. FeedInv
  BY DEF FeedInv, FeedInOrder
<1> QED BY <1>1, <1>2, <1>3, <1>4, <1>5 DEF PushInv

\* A step of a drain that leaves the registration and the feed alone keeps the
\* invariant when it keeps it of that drain.
LEMMA DrainAlone ==
  ASSUME PushInv, NEW d \in Drains, NEW new, drain' = [drain EXCEPT ![d] = new],
         new \in [pc : DrainStages, revision : Nat, token : DeviceTokens \cup {NoOne},
                  cursor : Nat, event : Nat, verdict : Verdicts],
         UNCHANGED <<feed, reg, asked, receipts, outcome, session>>,
         new.revision <= reg.made, new.cursor <= feed, new.event <= feed,
         new.pc \in {"check", "send", "record"} => new.event = new.cursor + 1,
         new.pc = "record" /\ new.verdict = "invalid" => new.revision < MaxRevision,
         new.pc \in Delivering /\ session /\ reg.state = "active"
           /\ reg.revision = new.revision /\ reg.lease = d => new.cursor = reg.cursor /\ new.token = reg.token
  PROVE  PushInv'
<1>1. PushTypes'
  BY DEF PushInv, PushTypes
<1>2. RegistrationInv' /\ FeedInv'
  BY DEF PushInv, RegistrationInv, FeedInv, FeedInOrder
<1>3. ASSUME NEW r \in Requests PROVE RequestInv(r)'
  BY DEF PushInv, RequestInv
<1>4. ASSUME NEW c \in Drains PROVE DrainInv(c)'
  <2>1. DrainInv(c) /\ drain \in [Drains -> [pc : DrainStages, revision : Nat,
           token : DeviceTokens \cup {NoOne}, cursor : Nat, event : Nat, verdict : Verdicts]]
    BY DEF PushInv, PushTypes
  <2>2. CASE c = d
    <3>1. drain'[c] = new
      BY <2>1, <2>2
    <3> QED BY <2>2, <3>1 DEF DrainInv, Current
  <2>3. CASE c # d
    <3>1. drain'[c] = drain[c]
      BY <2>1, <2>3
    <3> QED BY <2>1, <3>1 DEF DrainInv, Current
  <2> QED BY <2>2, <2>3
<1> QED BY <1>1, <1>2, <1>3, <1>4 DEF PushInv

LEMMA PushInvStep == PushInv /\ [PushNext]_pushVars => PushInv'
<1> SUFFICES ASSUME PushInv, [PushNext]_pushVars PROVE PushInv'
  OBVIOUS
<1> USE PushAssumption
<1> DEFINE Row == [pc : DrainStages, revision : Nat, token : DeviceTokens \cup {NoOne},
                   cursor : Nat, event : Nat, verdict : Verdicts]
<1>t. /\ PushTypes /\ RegistrationInv /\ FeedInv
      /\ \A r \in Requests : RequestInv(r)
      /\ \A d \in Drains : DrainInv(d)
  BY DEF PushInv
<1>n. NoDrain \in Row
  BY DEF NoDrain, DrainStages, Verdicts
<1>0. CASE UNCHANGED pushVars
  BY <1>t, <1>0 DEF PushInv, pushVars, PushTypes, RegistrationInv, RequestInv, DrainInv, Current,
                    FeedInv, FeedInOrder
<1>1. ASSUME NEW r \in Requests, AskRegistration(r) PROVE PushInv'
  <2>1. UNCHANGED <<feed, reg, receipts, outcome, session, drain>>
    BY <1>1 DEF AskRegistration
  <2>2. PICK kind \in {"active", "revoked"}, token \in DeviceTokens :
          asked' = [asked EXCEPT ![r] = [kind |-> kind, expected |-> reg.revision,
                                         token |-> IF kind = "active" THEN token ELSE NoOne]]
    BY <1>1 DEF AskRegistration
  <2>3. PushTypes'
    BY <1>t, <2>1, <2>2 DEF PushTypes
  <2>4. RegistrationInv' /\ FeedInv'
    BY <1>t, <2>1 DEF RegistrationInv, FeedInv, FeedInOrder
  <2>5. ASSUME NEW q \in Requests PROVE RequestInv(q)'
    BY <1>t, <2>1, <2>2 DEF RequestInv, PushTypes
  <2>6. ASSUME NEW d \in Drains PROVE DrainInv(d)'
    BY <1>t, <2>1 DEF DrainInv, Current
  <2> QED BY <2>3, <2>4, <2>5, <2>6 DEF PushInv
<1>2. ASSUME NEW r \in Requests, Register(r) PROVE PushInv'
  <2>1. /\ UNCHANGED <<feed, asked, outcome, session, drain>>
        /\ reg' = Registered(asked[r]) /\ asked[r].kind # "none"
        /\ receipts' = [receipts EXCEPT ![r] = reg'.revision]
        /\ Same(asked[r]) \/ reg.made < MaxRevision
    BY <1>2 DEF Register
  <2>a. asked[r] \in [kind : {"none", "active", "revoked"},
                      token : DeviceTokens \cup {NoOne}, expected : Nat]
    BY <1>t DEF PushTypes
  <2>2. CASE Same(asked[r])
    <3>1. reg' = reg
      BY <2>1, <2>2 DEF Registered
    <3>2. PushTypes'
      BY <1>t, <2>1, <3>1 DEF PushTypes
    <3>3. RegistrationInv' /\ FeedInv'
      BY <1>t, <2>1, <3>1 DEF RegistrationInv, FeedInv, FeedInOrder
    <3>4. ASSUME NEW q \in Requests PROVE RequestInv(q)'
      BY <1>t, <2>1, <3>1 DEF RequestInv, PushTypes, RegistrationInv
    <3>5. ASSUME NEW d \in Drains PROVE DrainInv(d)'
      BY <1>t, <2>1, <3>1 DEF DrainInv, Current
    <3> QED BY <3>2, <3>3, <3>4, <3>5 DEF PushInv
  <2>3. CASE ~Same(asked[r])
    <3>1. /\ reg'.state = asked[r].kind /\ reg'.revision = reg.made + 1
          /\ reg'.made = reg.made + 1 /\ reg'.token = asked[r].token
          /\ reg'.base = BaseFor(asked[r]) /\ reg'.cursor = CursorFor(asked[r])
          /\ reg'.lease = NoOne /\ reg'.leased = FALSE /\ reg.made < MaxRevision
      BY <2>1, <2>3 DEF Registered
    <3>b. \/ BaseFor(asked[r]) = feed /\ CursorFor(asked[r]) = feed
          \/ BaseFor(asked[r]) = reg.base /\ CursorFor(asked[r]) = reg.cursor
      BY DEF BaseFor, CursorFor
    <3>c. BaseFor(asked[r]) \in Nat /\ CursorFor(asked[r]) \in Nat
      BY <1>t, <3>b DEF PushTypes
    <3>m. reg.made \in Nat /\ reg.made + 1 \in 0 .. MaxRevision
      BY <1>t, <3>1 DEF PushTypes
    <3>d. reg' \in [state : {"none", "active", "revoked"}, revision : Nat,
              made : 0 .. MaxRevision, token : DeviceTokens \cup {NoOne}, base : Nat,
              cursor : Nat, lease : Drains \cup {NoOne}, leased : BOOLEAN]
      BY <2>1, <2>3, <2>a, <3>c, <3>m DEF Registered
    <3>2. PushTypes'
      BY <1>t, <2>1, <3>1, <3>m, <3>d DEF PushTypes
    <3>3. RegistrationInv'
      BY <1>t, <2>1, <2>a, <3>1, <3>b DEF RegistrationInv, RequestInv, PushTypes
    <3>4. FeedInv'
      BY <1>t, <2>1, <3>1, <3>b DEF FeedInv, FeedInOrder, PushTypes
    <3>5. ASSUME NEW q \in Requests PROVE RequestInv(q)'
      BY <1>t, <2>1, <3>1, <3>m DEF RequestInv, PushTypes
    <3>6. ASSUME NEW d \in Drains PROVE DrainInv(d)'
      <4>1. reg'.lease # d
        BY <3>1
      <4> QED BY <1>t, <2>1, <3>1, <3>m, <4>1 DEF DrainInv, Current, PushTypes
    <3> QED BY <3>2, <3>3, <3>4, <3>5, <3>6 DEF PushInv
  <2> QED BY <2>2, <2>3
<1>3. CASE RevokeSession
  BY <1>t, <1>3 DEF PushInv, RevokeSession, PushTypes, RegistrationInv, RequestInv, DrainInv,
                    Current, FeedInv, FeedInOrder
<1>4. CASE Notify
  <2>1. /\ UNCHANGED <<reg, asked, receipts, outcome, session, drain>>
        /\ feed' = feed + 1 /\ feed < MaxEvents
    BY <1>4 DEF Notify
  <2>2. PushTypes' /\ RegistrationInv'
    BY <1>t, <2>1 DEF PushTypes, RegistrationInv
  <2>3. FeedInv'
    BY <1>t, <2>1 DEF FeedInv, FeedInOrder, PushTypes, RegistrationInv
  <2>4. ASSUME NEW q \in Requests PROVE RequestInv(q)'
    BY <1>t, <2>1 DEF RequestInv
  <2>5. ASSUME NEW d \in Drains PROVE DrainInv(d)'
    BY <1>t, <2>1 DEF DrainInv, Current, PushTypes
  <2> QED BY <2>2, <2>3, <2>4, <2>5 DEF PushInv
<1>5. CASE LeaseExpires
  <2>1. /\ UNCHANGED <<feed, asked, receipts, outcome, session, drain>>
        /\ reg' = [reg EXCEPT !.leased = FALSE]
    BY <1>5 DEF LeaseExpires
  <2>2. PushTypes' /\ RegistrationInv'
    BY <1>t, <2>1 DEF PushTypes, RegistrationInv
  <2>3. FeedInv'
    BY <1>t, <2>1 DEF FeedInv, FeedInOrder, PushTypes
  <2>4. ASSUME NEW q \in Requests PROVE RequestInv(q)'
    BY <1>t, <2>1 DEF RequestInv, PushTypes
  <2>5. ASSUME NEW d \in Drains PROVE DrainInv(d)'
    BY <1>t, <2>1 DEF DrainInv, Current, PushTypes
  <2> QED BY <2>2, <2>3, <2>4, <2>5 DEF PushInv
<1>6. ASSUME NEW d \in Drains, Drain(d) \/ Crash(d) PROVE PushInv'
  <2>t. /\ drain \in [Drains -> Row] /\ drain[d] \in Row /\ DrainInv(d)
        /\ feed \in Nat /\ reg.made \in Nat
    BY <1>t DEF PushTypes
  <2>1. CASE Select(d)
    <3> DEFINE new == [NoDrain EXCEPT !.pc = "claim", !.revision = reg.revision]
    <3>1. new \in Row /\ new.pc = "claim" /\ new.revision = reg.made /\ new.cursor = 0
          /\ new.event = 0 /\ new.pc \notin {"check", "send", "record"} \cup Delivering
      BY <1>n, <1>t DEF NoDrain, RegistrationInv, PushTypes, DrainStages, Delivering
    <3>2. drain' = [drain EXCEPT ![d] = new] /\ UNCHANGED <<feed, reg, asked, receipts, outcome, session>>
      BY <2>1 DEF Select
    <3> HIDE DEF new
    <3>3. new.revision <= reg.made /\ new.cursor <= feed /\ new.event <= feed
      BY <2>t, <3>1
    <3> QED BY <3>1, <3>2, <3>3, DrainAlone
  <2>n. ASSUME drain' = [drain EXCEPT ![d] = NoDrain],
               UNCHANGED <<feed, reg, asked, receipts, outcome, session>>
        PROVE  PushInv'
    <3>1. /\ NoDrain.pc \notin {"check", "send", "record"} \cup Delivering
          /\ NoDrain.revision = 0 /\ NoDrain.cursor = 0 /\ NoDrain.event = 0
      BY DEF NoDrain, Delivering
    <3>2. NoDrain.revision <= reg.made /\ NoDrain.cursor <= feed /\ NoDrain.event <= feed
      BY <2>t, <3>1
    <3> QED BY <1>n, <2>n, <3>1, <3>2, DrainAlone
  <2>2. CASE Claim(d)
    <3>1. CASE ~Claimable(d)
      BY <2>2, <2>n, <3>1 DEF Claim
    <3>2. CASE Claimable(d)
      <4> DEFINE new == [drain[d] EXCEPT !.pc = "next", !.token = reg.token,
                                         !.cursor = reg.cursor]
      <4>1. /\ reg' = [reg EXCEPT !.lease = d, !.leased = TRUE]
            /\ drain' = [drain EXCEPT ![d] = new]
            /\ UNCHANGED <<feed, asked, receipts, outcome, session>>
        BY <2>2, <3>2, <2>t DEF Claim
      <4>2. /\ new \in Row /\ new.pc = "next" /\ new.cursor = reg.cursor
            /\ new.token = reg.token /\ new.revision = drain[d].revision
            /\ new.event = drain[d].event
        BY <1>t, <2>t DEF PushTypes, DrainStages, Delivering
      <4> HIDE DEF new
      <4>3. PushTypes'
        BY <1>t, <4>1, <4>2 DEF PushTypes
      <4>4. RegistrationInv'
        BY <1>t, <4>1 DEF PushTypes, RegistrationInv
      <4>5. FeedInv'
        BY <1>t, <4>1 DEF PushTypes, FeedInv, FeedInOrder
      <4>6. ASSUME NEW q \in Requests PROVE RequestInv(q)'
        BY <1>t, <4>1 DEF RequestInv, PushTypes
      <4>7. ASSUME NEW c \in Drains PROVE DrainInv(c)'
        <5>1. CASE c = d
          <6>1. drain'[c] = new
            BY <2>t, <4>1, <5>1
          <6>2. reg'.made = reg.made /\ reg'.cursor = reg.cursor /\ reg'.token = reg.token
            BY <1>t, <4>1 DEF PushTypes
          <6> QED BY <1>t, <2>t, <4>1, <4>2, <6>1, <6>2 DEF DrainInv, RegistrationInv
        <5>2. CASE c # d
          <6>1. drain'[c] = drain[c] /\ DrainInv(c)
            BY <1>t, <2>t, <4>1, <5>2
          <6>2. reg'.made = reg.made /\ reg'.lease = d
            BY <1>t, <4>1 DEF PushTypes
          <6> QED BY <4>1, <5>2, <6>1, <6>2 DEF DrainInv, Current
        <5> QED BY <5>1, <5>2
      <4> QED BY <4>3, <4>4, <4>5, <4>6, <4>7 DEF PushInv
    <3> QED BY <3>1, <3>2
  <2>3. CASE NextEvent(d)
    <3> DEFINE e == After(drain[d].cursor)
    <3>1. /\ UNCHANGED <<feed, reg, asked, receipts, outcome, session>> /\ drain[d].pc = "next"
          /\ \/ e <= feed /\ drain' = [drain EXCEPT ![d].event = e, ![d].pc = "check"]
             \/ drain' = [drain EXCEPT ![d].pc = "release"]
      BY <2>3 DEF NextEvent
    <3>2. CASE e <= feed /\ drain' = [drain EXCEPT ![d].event = e, ![d].pc = "check"]
      <4> DEFINE new == [drain[d] EXCEPT !.event = e, !.pc = "check"]
      <4>1. drain' = [drain EXCEPT ![d] = new]
        BY <2>t, <3>2
      <4>e. e = drain[d].cursor + 1 /\ e \in Nat
        BY <2>t DEF After
      <4> HIDE DEF e
      <4>2. /\ new \in Row /\ new.pc = "check" /\ new.event = drain[d].cursor + 1
            /\ new.cursor = drain[d].cursor /\ new.token = drain[d].token
            /\ new.revision = drain[d].revision /\ new.event <= feed
        BY <2>t, <3>2, <4>e DEF DrainStages, Delivering
      <4> HIDE DEF new
      <4> QED BY <2>t, <3>1, <4>1, <4>2, DrainAlone DEF DrainInv, Current, Delivering
    <3>3. CASE drain' = [drain EXCEPT ![d].pc = "release"]
      <4> DEFINE new == [drain[d] EXCEPT !.pc = "release"]
      <4>1. drain' = [drain EXCEPT ![d] = new]
        BY <2>t, <3>3
      <4>2. /\ new \in Row /\ new.pc = "release" /\ new.event = drain[d].event
            /\ new.cursor = drain[d].cursor /\ new.revision = drain[d].revision
        BY <2>t DEF DrainStages, Delivering
      <4> HIDE DEF new
      <4> QED BY <2>t, <3>1, <4>1, <4>2, DrainAlone DEF DrainInv, Delivering
    <3> QED BY <3>1, <3>2, <3>3
  <2>4. CASE CheckSend(d)
    <3> DEFINE new == [drain[d] EXCEPT !.pc = IF Current(d) THEN "send" ELSE "release"]
    <3>1. drain' = [drain EXCEPT ![d] = new] /\ UNCHANGED <<feed, reg, asked, receipts, outcome, session>>
          /\ drain[d].pc = "check"
      BY <2>t, <2>4 DEF CheckSend
    <3>2. /\ new \in Row /\ new.pc \in {"send", "release"} /\ new.event = drain[d].event
          /\ new.cursor = drain[d].cursor /\ new.revision = drain[d].revision
          /\ new.token = drain[d].token
      BY <2>t DEF DrainStages, Delivering
    <3> HIDE DEF new
    <3> QED BY <2>t, <3>1, <3>2, DrainAlone DEF DrainInv, Current, Delivering
  <2>5. CASE TooLong(d)
    <3> DEFINE new == [drain[d] EXCEPT !.pc = "record", !.verdict = "permanent"]
    <3>1. drain' = [drain EXCEPT ![d] = new] /\ UNCHANGED <<feed, reg, asked, receipts, outcome, session>>
          /\ drain[d].pc = "check"
      BY <2>t, <2>5 DEF TooLong
    <3>2. /\ new \in Row /\ new.pc = "record" /\ new.event = drain[d].event
          /\ new.cursor = drain[d].cursor /\ new.revision = drain[d].revision
          /\ new.token = drain[d].token /\ new.verdict = "permanent"
      BY <2>t DEF DrainStages, Delivering, Verdicts
    <3> HIDE DEF new
    <3> QED BY <2>t, <3>1, <3>2, DrainAlone DEF DrainInv, Current, Delivering
  <2>6. ASSUME NEW verdict \in Verdicts, Send(d, verdict) PROVE PushInv'
    <3> DEFINE new == [drain[d] EXCEPT !.pc = "record", !.verdict = verdict]
    <3>1. drain' = [drain EXCEPT ![d] = new] /\ UNCHANGED <<feed, reg, asked, receipts, outcome, session>>
          /\ drain[d].pc = "send" /\ (verdict = "invalid" => drain[d].revision < MaxRevision)
      BY <2>t, <2>6 DEF Send
    <3>2. /\ new \in Row /\ new.pc = "record" /\ new.event = drain[d].event
          /\ new.cursor = drain[d].cursor /\ new.revision = drain[d].revision
          /\ new.token = drain[d].token /\ new.verdict = verdict
      BY <2>t DEF DrainStages, Delivering
    <3> HIDE DEF new
    <3> QED BY <2>t, <3>1, <3>2, DrainAlone DEF DrainInv, Current, Delivering
  <2>7. CASE Record(d)
    <3> DEFINE e == drain[d].event
               stop == drain[d].verdict \in {"retry", "invalid"}
               new == [drain[d] EXCEPT !.pc = IF stop THEN "release" ELSE "next",
                                       !.cursor = IF stop THEN @ ELSE e]
    <3>1. /\ drain' = [drain EXCEPT ![d] = new] /\ UNCHANGED <<feed, asked, receipts, session>>
          /\ drain[d].pc = "record"
      BY <2>t, <2>7 DEF Record
    <3>2. /\ new \in Row /\ new.pc = (IF stop THEN "release" ELSE "next")
          /\ new.event = e /\ new.cursor = (IF stop THEN drain[d].cursor ELSE e)
          /\ new.revision = drain[d].revision /\ new.token = drain[d].token
      BY <2>t DEF DrainStages, Delivering
    <3> HIDE DEF new
    <3>3. CASE ~Recordable(d)
      <4>1. UNCHANGED <<reg, outcome>>
        BY <2>7, <3>3 DEF Record
      <4>2. ~(session /\ reg.state = "active" /\ reg.revision = new.revision /\ reg.lease = d)
        BY <3>2, <3>3 DEF Recordable, Current
      <4>3. new.revision <= reg.made /\ new.cursor <= feed /\ new.event <= feed
        BY <2>t, <3>2 DEF DrainInv
      <4>4. new.pc \notin {"check", "send", "record"}
        BY <3>2
      <4> QED BY <3>1, <3>2, <4>1, <4>2, <4>3, <4>4, DrainAlone
    <3>4. CASE Recordable(d)
      <4>1. /\ Current(d) /\ drain[d].cursor = reg.cursor /\ drain[d].token = reg.token
            /\ e = reg.cursor + 1 /\ e <= feed /\ e \in 1 .. MaxEvents /\ reg.cursor \in Nat
            /\ reg.state = "active" /\ reg.lease = d /\ reg.revision = drain[d].revision
        BY <1>t, <2>t, <3>1, <3>4 DEF Recordable, Current, DrainInv, Delivering, PushTypes
      <4>2. /\ outcome' = [outcome EXCEPT ![e] = Verdict(d)]
            /\ Verdict(d) \in {"accepted", "permanent", "retry"}
            /\ Verdict(d) = "retry" <=> drain[d].verdict = "retry"
        BY <2>t, <2>7, <3>4 DEF Record, Verdict, Verdicts
      <4>o. \A f \in 1 .. MaxEvents : outcome'[f] = IF f = e THEN Verdict(d) ELSE outcome[f]
        BY <1>t, <4>2 DEF PushTypes
      <4>3. CASE drain[d].verdict = "retry"
        <5>1. reg' = reg
          BY <2>7, <4>2, <4>3 DEF Record
        <5>2. PushTypes'
          BY <1>t, <2>t, <3>1, <3>2, <4>2, <5>1 DEF PushTypes
        <5>3. RegistrationInv'
          BY <1>t, <3>1, <5>1 DEF RegistrationInv
        <5>4. FeedInv'
          BY <1>t, <3>1, <4>1, <4>o, <4>2, <4>3, <5>1 DEF FeedInv, FeedInOrder, PushTypes
        <5>5. ASSUME NEW q \in Requests PROVE RequestInv(q)'
          BY <1>t, <3>1, <5>1 DEF RequestInv
        <5>6. ASSUME NEW c \in Drains PROVE DrainInv(c)'
          <6>1. CASE c = d
            <7>1. drain'[c] = new
              BY <2>t, <3>1, <6>1
            <7> QED BY <2>t, <3>1, <3>2, <4>3, <5>1, <6>1, <7>1 DEF DrainInv, Delivering
          <6>2. CASE c # d
            <7>1. drain'[c] = drain[c] /\ DrainInv(c)
              BY <1>t, <2>t, <3>1, <6>2
            <7> QED BY <3>1, <5>1, <7>1 DEF DrainInv, Current
          <6> QED BY <6>1, <6>2
        <5> QED BY <5>2, <5>3, <5>4, <5>5, <5>6 DEF PushInv
      <4>4. CASE drain[d].verdict = "invalid"
        <5>v. Verdict(d) = "permanent"
          BY <4>4 DEF Verdict
        <5>1. reg' = [reg EXCEPT !.cursor = e, !.state = "revoked", !.token = NoOne,
                                 !.revision = reg.made + 1, !.made = @ + 1]
          BY <2>7, <3>4, <4>4, <5>v DEF Record
        <5>m. reg.made + 1 \in 0 .. MaxRevision /\ reg.made + 1 \in Nat
          BY <1>t, <2>t, <3>1, <4>1, <4>4 DEF PushTypes, RegistrationInv, DrainInv
        <5>f. /\ reg'.cursor = e /\ reg'.state = "revoked" /\ reg'.token = NoOne
              /\ reg'.revision = reg.made + 1 /\ reg'.made = reg.made + 1
              /\ reg'.base = reg.base /\ reg'.lease = reg.lease /\ reg'.leased = reg.leased
              /\ reg' \in [state : {"none", "active", "revoked"}, revision : Nat,
                   made : 0 .. MaxRevision, token : DeviceTokens \cup {NoOne}, base : Nat,
                   cursor : Nat, lease : Drains \cup {NoOne}, leased : BOOLEAN]
          BY <1>t, <4>1, <5>1, <5>m DEF PushTypes
        <5>2. PushTypes'
          BY <1>t, <2>t, <3>1, <3>2, <4>2, <5>f DEF PushTypes
        <5>3. RegistrationInv'
          BY <1>t, <3>1, <4>1, <5>f DEF RegistrationInv, PushTypes
        <5>4. FeedInv'
          BY <1>t, <3>1, <4>1, <4>o, <5>v, <5>f DEF FeedInv, FeedInOrder, PushTypes
        <5>5. ASSUME NEW q \in Requests PROVE RequestInv(q)'
          BY <1>t, <2>t, <3>1, <5>f DEF RequestInv, PushTypes
        <5>6. ASSUME NEW c \in Drains PROVE DrainInv(c)'
          <6>0. ~Current(c)'
            BY <5>f DEF Current
          <6>1. CASE c = d
            <7>1. drain'[c] = new
              BY <2>t, <3>1, <6>1
            <7> QED BY <2>t, <3>1, <3>2, <4>4, <5>f, <6>0, <6>1, <7>1 DEF DrainInv, Delivering
          <6>2. CASE c # d
            <7>1. drain'[c] = drain[c] /\ DrainInv(c) /\ drain[c] \in Row
              BY <1>t, <2>t, <3>1, <6>2
            <7> QED BY <2>t, <3>1, <5>f, <6>0, <7>1 DEF DrainInv
          <6> QED BY <6>1, <6>2
        <5> QED BY <5>2, <5>3, <5>4, <5>5, <5>6 DEF PushInv
      <4>5. CASE drain[d].verdict \notin {"retry", "invalid"}
        <5>v. Verdict(d) \in {"accepted", "permanent"}
          BY <4>2, <4>5
        <5>1. reg' = [reg EXCEPT !.cursor = e]
          BY <2>7, <3>4, <4>5, <5>v DEF Record
        <5>f. /\ reg'.cursor = e /\ reg'.state = reg.state /\ reg'.token = reg.token
              /\ reg'.revision = reg.revision /\ reg'.made = reg.made
              /\ reg'.base = reg.base /\ reg'.lease = reg.lease /\ reg'.leased = reg.leased
              /\ reg' \in [state : {"none", "active", "revoked"}, revision : Nat,
                   made : 0 .. MaxRevision, token : DeviceTokens \cup {NoOne}, base : Nat,
                   cursor : Nat, lease : Drains \cup {NoOne}, leased : BOOLEAN]
          BY <1>t, <4>1, <5>1 DEF PushTypes
        <5>2. PushTypes'
          BY <1>t, <2>t, <3>1, <3>2, <4>2, <5>f DEF PushTypes
        <5>3. RegistrationInv'
          <6>1. reg.base \in Nat /\ reg.base <= reg.cursor
            BY <1>t DEF RegistrationInv, PushTypes
          <6>2. reg.base <= e /\ e <= feed'
            BY <3>1, <4>1, <6>1
          <6>3. /\ reg.revision = reg.made /\ (reg.leased => reg.lease # NoOne)
                /\ (reg.token \in DeviceTokens <=> reg.state = "active")
            BY <1>t DEF RegistrationInv
          <6> QED BY <5>f, <6>2, <6>3 DEF RegistrationInv
        <5>4. FeedInv'
          BY <1>t, <3>1, <4>1, <4>o, <5>v, <5>f DEF FeedInv, FeedInOrder, PushTypes
        <5>5. ASSUME NEW q \in Requests PROVE RequestInv(q)'
          BY <1>t, <2>t, <3>1, <5>f DEF RequestInv, PushTypes
        <5>6. ASSUME NEW c \in Drains PROVE DrainInv(c)'
          <6>1. CASE c = d
            <7>1. drain'[c] = new
              BY <2>t, <3>1, <6>1
            <7> QED BY <2>t, <3>1, <3>2, <4>1, <4>5, <5>f, <6>1, <7>1 DEF DrainInv, Delivering
          <6>2. CASE c # d
            <7>1. drain'[c] = drain[c] /\ DrainInv(c)
              BY <1>t, <2>t, <3>1, <6>2
            <7>2. ~Current(c)'
              BY <4>1, <5>f, <6>2 DEF Current
            <7> QED BY <3>1, <5>f, <7>1, <7>2 DEF DrainInv
          <6> QED BY <6>1, <6>2
        <5> QED BY <5>2, <5>3, <5>4, <5>5, <5>6 DEF PushInv
      <4> QED BY <4>3, <4>4, <4>5
    <3> QED BY <3>3, <3>4
  <2>8. CASE Release(d)
    <3>1. CASE ~Holds(d)
      BY <2>8, <2>n, <3>1 DEF Release
    <3>2. CASE Holds(d)
      <4>1. /\ reg' = [reg EXCEPT !.lease = NoOne, !.leased = FALSE]
            /\ drain' = [drain EXCEPT ![d] = NoDrain]
            /\ UNCHANGED <<feed, asked, receipts, outcome, session>>
        BY <2>8, <3>2 DEF Release
      <4>f. reg'.made = reg.made /\ reg'.lease = NoOne
        BY <1>t, <4>1 DEF PushTypes
      <4>2. PushTypes' /\ RegistrationInv'
        BY <1>t, <1>n, <4>1 DEF PushTypes, RegistrationInv
      <4>3. FeedInv'
        BY <1>t, <4>1 DEF PushTypes, FeedInv, FeedInOrder
      <4>4. ASSUME NEW q \in Requests PROVE RequestInv(q)'
        BY <1>t, <4>1, <4>f DEF RequestInv
      <4>5. ASSUME NEW c \in Drains PROVE DrainInv(c)'
        <5>0. ~Current(c)'
          BY <4>f DEF Current
        <5>1. CASE c = d
          <6>1. drain'[c] = NoDrain
            BY <2>t, <4>1, <5>1
          <6> QED BY <2>t, <4>1, <4>f, <5>0, <5>1, <6>1 DEF DrainInv, NoDrain
        <5>2. CASE c # d
          <6>1. drain'[c] = drain[c] /\ DrainInv(c)
            BY <1>t, <2>t, <4>1, <5>2
          <6> QED BY <4>1, <4>f, <5>0, <6>1 DEF DrainInv
        <5> QED BY <5>1, <5>2
      <4> QED BY <4>2, <4>3, <4>4, <4>5 DEF PushInv
    <3> QED BY <3>1, <3>2
  <2>9. CASE Crash(d)
    BY <2>9, <2>n DEF Crash
  <2> QED BY <1>6, <2>1, <2>2, <2>3, <2>4, <2>5, <2>6, <2>7, <2>8, <2>9 DEF Drain
<1>7. ASSUME NEW e \in 1 .. MaxEvents, RetryDue(e) PROVE PushInv'
  BY <1>t, <1>7 DEF PushInv, RetryDue, PushTypes, RegistrationInv, RequestInv, DrainInv,
                    Current, FeedInv, FeedInOrder
<1> QED BY <1>0, <1>1, <1>2, <1>3, <1>4, <1>5, <1>6, <1>7 DEF PushNext

LEMMA PushInvAlways == PushSpec => []PushInv
<1> QED BY PushInvInit, PushInvStep, PTL DEF PushSpec

\* For any number of drains, requests and tokens, whatever is late, fails, crashes or
\* outlives its lease: a registration's cursor takes the feed in order, skips no event
\* and decides none twice (apple-push.js).
THEOREM PushIsSound == PushSpec => []PushSound
<1>1. ASSUME PushInv PROVE PushSound
  <2>1. PushTypes /\ RegistrationInv /\ FeedInOrder
    BY <1>1 DEF PushInv, FeedInv
  <2>2. \A r \in Requests : RequestInv(r)
    BY <1>1 DEF PushInv
  <2>3. \A d \in Drains : DrainInv(d)
    BY <1>1 DEF PushInv
  <2>4. \A d \in Drains : drain[d].cursor \in 0 .. feed /\ drain[d].event \in 0 .. feed
    BY <2>1, <2>3, PushAssumption DEF DrainInv, PushTypes
  <2>5. \A r \in Requests : asked[r].kind \in {"none", "active", "revoked"}
                           /\ receipts[r] \in 0 .. reg.made
    BY <2>1, <2>2, PushAssumption DEF RequestInv, PushTypes
  <2> QED BY <2>1, <2>4, <2>5, PushAssumption
       DEF PushSound, PushTypeOK, PushTypes, RegistrationInv
<1> QED BY <1>1, PushInvAlways, PTL

\* "Old-generation invalid token responses cannot revoke a new generation": for every
\* instance, a drain's record changes the registration only while the token is the one
\* it sent to.
THEOREM AnswersStayWithTheirToken == PushSpec => OwnGeneration
<1>1. ASSUME PushInv, [PushNext]_pushVars
      PROVE  [\A d \in Drains : drain[d].pc = "record" /\ drain'[d].pc # "record" /\ reg' # reg =>
                reg.token = drain[d].token]_pushVars
  <2> SUFFICES ASSUME PushNext, NEW d \in Drains,
                      drain[d].pc = "record", drain'[d].pc # "record", reg' # reg
               PROVE  reg.token = drain[d].token
    BY <1>1
  <2>t. PushTypes /\ DrainInv(d)
    BY <1>1 DEF PushInv
  <2>1. CASE Record(d)
    <3>1. Current(d)
      BY <2>1 DEF Record, Recordable
    <3> QED BY <2>t, <3>1 DEF DrainInv, Delivering
  <2>2. ~Record(d) => drain'[d] = drain[d] \/ reg' = reg
    <3>1. PICK c \in Drains : Drain(c) \/ Crash(c)
      BY DEF PushNext, AskRegistration, Register, RevokeSession, Notify, LeaseExpires, RetryDue
    <3>2. CASE c = d
      BY <3>1, <3>2 DEF Drain, Select, Claim, NextEvent, CheckSend, TooLong, Send, Release, Crash
    <3>3. CASE c # d
      BY <2>t, <3>1, <3>3 DEF PushTypes, Drain, Select, Claim, NextEvent, CheckSend, TooLong, Send,
                              Record, Release, Crash
    <3> QED BY <3>2, <3>3
  <2> QED BY <2>1, <2>2
<1> QED BY <1>1, PushInvAlways, PTL DEF PushSpec, OwnGeneration
=============================================================================
