--------------------------- MODULE Subscriptions ---------------------------
(***************************************************************************)
(* Durable change subscriptions of the hub (worker/src/subscriptions.js,      *)
(* subscription-delivery.js, subscription-triggers.js).  Triggers record an   *)
(* event in the transaction that changes a watched row; consumers poll for    *)
(* deliveries and acknowledge them; schema pushes may not change a watched    *)
(* table under its triggers.                                                 *)
(*                                                                          *)
(* One step is one batch or one statement, which is where requests           *)
(* interleave.  Creating a subscription and pushing a schema change both      *)
(* read first and repeat their reads as guards when they commit.             *)
(***************************************************************************)
EXTENDS Integers, FiniteSets, Sequences

CONSTANTS
  Subs,        \* subscriptions
  Tables,      \* tables they may watch
  Polls,       \* concurrent polls of one subscription
  MaxWrites,   \* bound on row changes
  MaxDDL,      \* bound on schema changes
  MaxFaults,   \* bound on answers that are lost
  MaxPending,  \* max_pending_events
  BatchSize    \* events per delivery, at most

ASSUME SubscriptionAssumption ==
  /\ MaxWrites \in Nat /\ MaxDDL \in Nat /\ MaxFaults \in Nat
  /\ MaxPending \in Nat \ {0} /\ BatchSize \in Nat \ {0}

VARIABLES
  shape,    \* per table, its schema changes: `wide` additions, `broken` others
  sub,      \* _change_subscriptions
  ev,       \* _change_events: per subscription the events kept
  create,   \* requests that create a subscription: what they read
  push,     \* the schema push in progress
  poll,     \* polls in progress
  shown,    \* per subscription and delivery, the batches a consumer has seen
  writes, faults

vars == <<shape, sub, ev, create, push, poll, shown, writes, faults>>

-----------------------------------------------------------------------------
Nobody == [state |-> "none", src |-> {}, seq |-> 0, acked |-> 0, offers |-> 0,
           pending |-> 0, through |-> 0, last |-> 0, count |-> 0]
NoCreate == [pc |-> "idle", src |-> {}, shape |-> <<>>, triggers |-> <<>>]
NoPush == [pc |-> "idle", table |-> "", kind |-> "add", active |-> {}, shape |-> <<>>]
NoPoll == [pc |-> "idle", acked |-> 0, through |-> 0]

Init ==
  /\ shape = [t \in Tables |-> [wide |-> 0, broken |-> 0]]
  /\ sub = [s \in Subs |-> Nobody]
  /\ ev = [s \in Subs |-> {}]
  /\ create = [s \in Subs |-> NoCreate]
  /\ push = NoPush
  /\ poll = [s \in Subs |-> [p \in Polls |-> NoPoll]]
  /\ shown = [s \in Subs |-> [d \in 1 .. MaxWrites |-> {}]]
  /\ writes = 0 /\ faults = 0

Watching(s) == sub[s].state \in {"active", "paused"}

\* Triggers are created with the subscription and dropped when it retires.
Triggers(t) == {s \in Subs : Watching(s) /\ t \in sub[s].src}

Watched == UNION {sub[s].src : s \in {s \in Subs : Watching(s)}}

-----------------------------------------------------------------------------
(* Recording *)

\* "deliver and record / record only / stop recording"
Records(s) == sub[s].state \in {"active", "paused"}

\* A watched row changes, by any writer; a subscription at its capacity aborts
\* the transaction that would exceed it.
Write(t) ==
  LET on == {s \in Triggers(t) : Records(s)}
  IN  /\ writes < MaxWrites
      /\ \A s \in on : sub[s].count < MaxPending
      /\ writes' = writes + 1
      /\ sub' = [s \in Subs |-> IF s \in on
                   THEN [sub[s] EXCEPT !.seq = @ + 1, !.count = @ + 1] ELSE sub[s]]
      /\ ev' = [s \in Subs |-> IF s \in on
                  THEN ev[s] \cup {[seq |-> sub[s].seq + 1, change |-> writes']} ELSE ev[s]]
      /\ UNCHANGED <<shape, create, push, poll, shown, faults>>

-----------------------------------------------------------------------------
(* Administration *)

TriggersOn(src) == [t \in src |-> Triggers(t)]
ShapesOf(ts) == [t \in ts |-> shape[t]]

\* The tables' columns and triggers are read.
CreateRead(s) ==
  /\ sub[s].state = "none" /\ create[s].pc = "idle"
  /\ \E src \in (SUBSET Tables) \ {{}} :
       create' = [create EXCEPT ![s] =
         [pc |-> "read", src |-> src, shape |-> ShapesOf(src), triggers |-> TriggersOn(src)]]
  /\ UNCHANGED <<shape, sub, ev, push, poll, shown, writes, faults>>

\* Mutant: the tables are not read again.
MutUnchanged(c) == TRUE

\* What was read is unchanged when the batch repeats it.
Unchanged(c) == ShapesOf(c.src) = c.shape /\ TriggersOn(c.src) = c.triggers

\* The subscription and its triggers, or an error.
CreateCommit(s) ==
  LET c == create[s]
  IN  /\ c.pc = "read"
      /\ create' = [create EXCEPT ![s] = IF Unchanged(c) THEN [NoCreate EXCEPT !.shape = c.shape] ELSE NoCreate]
      /\ sub' = IF Unchanged(c)
                THEN [sub EXCEPT ![s] = [Nobody EXCEPT !.state = "active", !.src = c.src]] ELSE sub
      /\ UNCHANGED <<shape, ev, push, poll, shown, writes, faults>>

\* Paused, active again, or retired for good.
SetState(s, state) ==
  /\ sub[s].state \notin {"none", "retired", state}
  /\ sub' = [sub EXCEPT ![s].state = state]
  /\ UNCHANGED <<shape, ev, create, push, poll, shown, writes, faults>>

\* A schema push reads who watches what.
SchemaRead(t, kind) ==
  /\ push.pc = "idle" /\ shape[t].wide + shape[t].broken < MaxDDL
  /\ push' = [pc |-> "read", table |-> t, kind |-> kind,
              active |-> {s \in Subs : Watching(s)},
              shape |-> ShapesOf(Watched)]
  /\ UNCHANGED <<shape, sub, ev, create, poll, shown, writes, faults>>

\* The watched objects are as they were read, and, but for an added nullable
\* column, still are once the statement has run.
Allowed(q) ==
  /\ {s \in Subs : Watching(s)} = q.active
  /\ ShapesOf(DOMAIN q.shape) = q.shape
  /\ q.kind = "break" => q.table \notin DOMAIN q.shape

SchemaCommit ==
  /\ push.pc = "read"
  /\ push' = NoPush
  /\ shape' = IF ~Allowed(push) THEN shape
              ELSE IF push.kind = "add" THEN [shape EXCEPT ![push.table].wide = @ + 1]
              ELSE [shape EXCEPT ![push.table].broken = @ + 1]
  /\ UNCHANGED <<sub, ev, create, poll, shown, writes, faults>>

-----------------------------------------------------------------------------
(* Delivery *)

\* Mutant: only an active subscription delivers.
MutDeliverable(s) == sub[s].state = "active"

\* A paused subscription delivers nothing, a retired one what it still holds.
Deliverable(s) == sub[s].state # "paused"

\* The status row is read; a delivery is already offered, or is to be made.
PollLoad(s, p) ==
  /\ poll[s][p].pc = "idle" /\ sub[s].state # "none"
  /\ poll' = [poll EXCEPT ![s][p] =
       [pc |-> IF ~Deliverable(s) \/ sub[s].pending # 0 THEN "show" ELSE "read",
        acked |-> sub[s].acked, through |-> 0]]
  /\ UNCHANGED <<shape, sub, ev, create, push, shown, writes, faults>>

\* Events after the cursor that was read, as many as fit; without any the
\* answer is empty, or the poll begins again.
PollRead(s, p) ==
  LET v == poll[s][p]
      fresh == {e.seq : e \in {e \in ev[s] : e.seq > v.acked}}
  IN  /\ v.pc = "read"
      /\ \/ /\ fresh = {}
            /\ poll' = [poll EXCEPT ![s][p] = NoPoll]
         \/ \E n \in fresh :
              /\ Cardinality({k \in fresh : k <= n}) <= BatchSize
              /\ poll' = [poll EXCEPT ![s][p].pc = "offer", ![s][p].through = n]
      /\ UNCHANGED <<shape, sub, ev, create, push, shown, writes, faults>>

\* "Another poll may have offered first, or an ACK may have advanced the cursor."
Offers(v, s) == sub[s].pending = 0 /\ sub[s].acked = v.acked /\ Deliverable(s)

PollOffer(s, p) ==
  LET v == poll[s][p]
  IN  /\ v.pc = "offer"
      /\ sub' = IF Offers(v, s)
                THEN [sub EXCEPT ![s].pending = sub[s].offers + 1, ![s].offers = @ + 1,
                                 ![s].through = v.through]
                ELSE sub
      /\ poll' = [poll EXCEPT ![s][p].pc = "show"]
      /\ UNCHANGED <<shape, ev, create, push, shown, writes, faults>>

\* Mutant: the batch of a delivery includes what came after it was offered.
MutBatch(s) == {e \in ev[s] : e.seq > sub[s].acked}

\* The events of the offered delivery.
Batch(s) == {e \in ev[s] : e.seq > sub[s].acked /\ e.seq <= sub[s].through}

\* Status and events in one transaction, as the answer, which may be lost.
PollShow(s, p, lost) ==
  /\ poll[s][p].pc = "show"
  /\ lost => faults < MaxFaults
  /\ faults' = IF lost THEN faults + 1 ELSE faults
  /\ shown' = IF lost \/ ~Deliverable(s) \/ sub[s].pending = 0 THEN shown
              ELSE [shown EXCEPT ![s][sub[s].pending] = @ \cup {Batch(s)}]
  /\ poll' = [poll EXCEPT ![s][p] = NoPoll]
  /\ UNCHANGED <<shape, sub, ev, create, push, writes>>

AckedThrough(s) == sub[s].through

\* A consumer acknowledges a delivery it has seen, perhaps again; one that is
\* neither offered nor the last one acknowledged is refused.
Ack(s, d) ==
  LET upTo == IF sub[s].pending = d THEN AckedThrough(s) ELSE sub[s].acked
  IN  /\ shown[s][d] # {}
      /\ d \in {sub[s].pending, sub[s].last}
      /\ sub' = IF sub[s].pending = d
                THEN [sub EXCEPT ![s].count = @ - Cardinality(Batch(s)), ![s].acked = upTo,
                                 ![s].last = d, ![s].pending = 0, ![s].through = 0]
                ELSE sub
      /\ ev' = [ev EXCEPT ![s] = {e \in @ : e.seq > upTo}]
      /\ UNCHANGED <<shape, create, push, poll, shown, writes, faults>>

-----------------------------------------------------------------------------
Poll(s, p) == PollLoad(s, p) \/ PollRead(s, p) \/ PollOffer(s, p) \/ PollShow(s, p, FALSE)

Next ==
  \/ \E t \in Tables : Write(t) \/ \E kind \in {"add", "break"} : SchemaRead(t, kind)
  \/ SchemaCommit
  \/ \E s \in Subs : CreateRead(s) \/ CreateCommit(s)
  \/ \E s \in Subs, state \in {"active", "paused", "retired"} : SetState(s, state)
  \/ \E s \in Subs, p \in Polls : Poll(s, p) \/ PollShow(s, p, TRUE)
  \/ \E s \in Subs, d \in 1 .. MaxWrites : Ack(s, d)

Spec == Init /\ [][Next]_vars

\* A consumer keeps polling and acknowledges what it has seen.
FairSpec ==
  /\ Spec
  /\ \A s \in Subs : \A p \in Polls : WF_vars(Poll(s, p))
  /\ \A s \in Subs : WF_vars(\E d \in 1 .. MaxWrites : Ack(s, d))

-----------------------------------------------------------------------------
TypeOK ==
  /\ \A t \in Tables : shape[t] \in [wide : 0 .. MaxDDL, broken : 0 .. MaxDDL]
  /\ \A s \in Subs :
       /\ sub[s].state \in {"none", "active", "paused", "retired"} /\ sub[s].src \subseteq Tables
       /\ sub[s].acked <= sub[s].seq /\ sub[s].through <= sub[s].seq
       /\ sub[s].count \in 0 .. MaxPending /\ sub[s].count = Cardinality(ev[s])
       /\ sub[s].pending \in 0 .. sub[s].offers /\ sub[s].last \in 0 .. sub[s].offers
       /\ sub[s].pending # 0 => sub[s].acked < sub[s].through
       /\ \A p \in Polls : poll[s][p].pc \in {"idle", "read", "offer", "show"}
  /\ writes \in 0 .. MaxWrites /\ faults \in 0 .. MaxFaults

\* The events of a subscription as its consumer gets them.
Ordered(es) ==
  [k \in 1 .. Cardinality(es) |->
     (CHOOSE e \in es : Cardinality({f \in es : f.seq <= e.seq}) = k).change]

\* What its consumer knows of a subscription: what is watched, the changes that
\* wait, the delivery on offer, and what it was given.
WatchOf == [s \in Subs |-> IF Watching(s) THEN sub[s].src ELSE {}]
QueueOf == [s \in Subs |-> Ordered(ev[s])]
OfferOf == [s \in Subs |->
  [number |-> sub[s].offers,
   size |-> IF sub[s].pending = 0 THEN 0 ELSE Cardinality({e \in ev[s] : e.seq <= sub[s].through})]]
GivenOf == [s \in Subs |-> [d \in 1 .. MaxWrites |-> {Ordered(es) : es \in shown[s][d]}]]

\* A subscription is a durable queue: while it is active or paused every change
\* of a watched row is in it, once and in order, until it is acknowledged;
\* "until ACK, return the identical batch"; an acknowledgement removes what its
\* consumer has been given, no more and no less; and a change is refused only
\* at the capacity: whatever polls, acknowledgements and lost answers do.
Queue == INSTANCE DurableQueue WITH
  Sources <- Tables, MaxChanges <- MaxWrites, Capacity <- MaxPending, changes <- writes,
  watch <- WatchOf, queue <- QueueOf, offer <- OfferOf, given <- GivenOf

QueueImplemented == Queue!QueueSpec

\* A table keeps the columns its subscriptions were created for, whichever of
\* a schema push and a new subscription comes first.
TriggersFit ==
  \A s \in Subs : Watching(s) =>
    \A t \in sub[s].src : shape[t].broken = create[s].shape[t].broken

\* The stored subscriptions are well typed and fit the tables they watch, whatever
\* DDL, cursors and deliveries come between (subscriptions.js).
SubscriptionsSound == TypeOK /\ TriggersFit

\* A consumer that keeps polling drains its subscription.
Drained == \A s \in Subs : []<>(ev[s] = {} \/ sub[s].state = "paused")
=============================================================================
