---------------------------- MODULE DurableQueue ----------------------------
(***************************************************************************)
(* What a change subscription promises its consumer: every change of what it   *)
(* watches waits in its queue, in order, until the consumer has been given it   *)
(* and has said so.  A delivery is a prefix of the queue that stays as it is     *)
(* until it is acknowledged, however often it is given.                         *)
(***************************************************************************)
EXTENDS Integers, Sequences

CONSTANTS
  Subs,        \* subscriptions
  Sources,     \* what they may watch
  MaxChanges,  \* bound on changes, and on deliveries
  Capacity,    \* changes in a queue, at most
  BatchSize    \* changes in a delivery, at most

VARIABLES
  changes,   \* changes so far
  watch,     \* per subscription what it watches
  queue,     \* per subscription the changes it is owed
  offer,     \* per subscription its deliveries so far, and the size of an open one
  given      \* per subscription and delivery, what the consumer was given

queueVars == <<changes, watch, queue, offer, given>>

QueueInit ==
  /\ changes = 0
  /\ watch = [s \in Subs |-> {}]
  /\ queue = [s \in Subs |-> <<>>]
  /\ offer = [s \in Subs |-> [number |-> 0, size |-> 0]]
  /\ given = [s \in Subs |-> [d \in 1 .. MaxChanges |-> {}]]

Subscribe(s, src) ==
  /\ watch[s] = {} /\ src # {}
  /\ watch' = [watch EXCEPT ![s] = src]
  /\ UNCHANGED <<changes, queue, offer, given>>

\* What is in the queue stays due.
Retire(s) ==
  /\ watch' = [watch EXCEPT ![s] = {}]
  /\ UNCHANGED <<changes, queue, offer, given>>

\* A change that does not fit is refused.
Change(t) ==
  LET on == {s \in Subs : t \in watch[s]}
  IN  /\ \A s \in on : Len(queue[s]) < Capacity
      /\ changes' = changes + 1
      /\ queue' = [s \in Subs |-> IF s \in on THEN Append(queue[s], changes + 1) ELSE queue[s]]
      /\ UNCHANGED <<watch, offer, given>>

Offer(s, n) ==
  /\ offer[s].size = 0 /\ n <= Len(queue[s])
  /\ offer' = [offer EXCEPT ![s] = [number |-> offer[s].number + 1, size |-> n]]
  /\ UNCHANGED <<changes, watch, queue, given>>

Front(s) == SubSeq(queue[s], 1, offer[s].size)

Give(s) ==
  /\ offer[s].size # 0
  /\ given' = [given EXCEPT ![s][offer[s].number] = @ \cup {Front(s)}]
  /\ UNCHANGED <<changes, watch, queue, offer>>

Acknowledge(s) ==
  /\ offer[s].size # 0 /\ given[s][offer[s].number] # {}
  /\ queue' = [queue EXCEPT ![s] = SubSeq(queue[s], offer[s].size + 1, Len(queue[s]))]
  /\ offer' = [offer EXCEPT ![s].size = 0]
  /\ UNCHANGED <<changes, watch, given>>

QueueNext ==
  \/ \E t \in Sources : Change(t)
  \/ \E s \in Subs, src \in SUBSET Sources : Subscribe(s, src)
  \/ \E s \in Subs : Retire(s) \/ Give(s) \/ Acknowledge(s) \/ \E n \in 1 .. BatchSize : Offer(s, n)

QueueSpec == QueueInit /\ [][QueueNext]_queueVars
=============================================================================
