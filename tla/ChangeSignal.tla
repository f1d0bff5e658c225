---------------------------- MODULE ChangeSignal ----------------------------
(***************************************************************************)
(* The hub's change sequence (worker/src/changes.js) and the replicas'      *)
(* listener threads (RemoteChanges in src/soma/__init__.py).  A commit that *)
(* changes replicated rows is followed by a bump of the sequence, a request *)
(* of its own that may be late or lost.  A listener long-polls the sequence *)
(* and tells its loop, through an event, that it moved.                     *)
(*                                                                          *)
(* The two loops that own listeners, WatchLoop and BackgroundRunner, extend *)
(* this module and compose their steps with its own.                        *)
(***************************************************************************)
EXTENDS Integers

CONSTANTS
  Listeners,    \* listener threads
  MaxCommits,   \* bound on commits on the hub
  MaxLost       \* bound on lost bumps and failed polls

ASSUME SignalAssumption == MaxCommits \in Nat /\ MaxLost \in Nat

VARIABLES
  commits,   \* commits so far that changed replicated rows
  bumps,     \* bumps sent and not yet applied
  seq,       \* the sequence of the ChangeSignal object
  lis,       \* the listeners
  lost       \* bumps and polls lost so far

signal == <<commits, bumps, seq, lis, lost>>

-----------------------------------------------------------------------------
\* No sequence seen yet.
Unseen == -1

\* `off` is not started and `over` has left its loop; `stopped` is the stop
\* flag, `live` is FALSE also while unknown, and `got` is the answer in hand.
NewListener == [pc |-> "off", seen |-> Unseen, got |-> Unseen,
                live |-> FALSE, changed |-> FALSE, stopped |-> FALSE]
Over == [NewListener EXCEPT !.pc = "over"]

SignalInit ==
  /\ commits = 0
  /\ bumps = 0
  /\ seq = 0
  /\ lis = [l \in Listeners |-> NewListener]
  /\ lost = 0

\* A commit by another client or a job of the hub; its bump follows.
Commit ==
  /\ commits < MaxCommits
  /\ commits' = commits + 1
  /\ bumps' = bumps + 1
  /\ UNCHANGED <<seq, lis, lost>>

\* Mutant: a bump that was applied is sent again.
MutBump ==
  /\ bumps > 0
  /\ seq < MaxCommits
  /\ seq' = seq + 1
  /\ UNCHANGED <<commits, bumps, lis, lost>>

\* The bump reaches the object: the sequence moves.
Bump ==
  /\ bumps > 0
  /\ bumps' = bumps - 1
  /\ seq' = seq + 1
  /\ UNCHANGED <<commits, lis, lost>>

\* A failed bump never fails the write that caused it.
LoseBump ==
  /\ bumps > 0
  /\ lost < MaxLost
  /\ bumps' = bumps - 1
  /\ lost' = lost + 1
  /\ UNCHANGED <<commits, seq, lis>>

-----------------------------------------------------------------------------
(* A listener: RemoteChanges.run *)

\* The top of the loop: stop, or ask for the sequence.
Ask(l) ==
  /\ lis[l].pc = "ask"
  /\ lis' = [lis EXCEPT ![l] = IF @.stopped THEN Over ELSE [@ EXCEPT !.pc = "polling"]]
  /\ UNCHANGED <<commits, bumps, seq, lost>>

\* The object answers at once when its sequence is not the one seen, and
\* otherwise when it moves or the wait runs out.
Answer(l) ==
  /\ lis[l].pc = "polling"
  /\ lis' = [lis EXCEPT ![l].pc = "answered", ![l].got = seq, ![l].live = TRUE]
  /\ UNCHANGED <<commits, bumps, seq, lost>>

\* Mutant: the first answer is only a starting point.
MutNews(l) == lis[l].seen # Unseen /\ lis[l].got # lis[l].seen

\* The first answer is news too.
News(l) == lis[l].got # lis[l].seen

Notice(l) ==
  /\ lis[l].pc = "answered"
  /\ lis' = [lis EXCEPT ![l] = [lis[l] EXCEPT !.pc = "ask", !.seen = lis[l].got, !.got = Unseen,
                                             !.changed = lis[l].changed \/ News(l)]]
  /\ UNCHANGED <<commits, bumps, seq, lost>>

\* The channel fails: the loop polls instead, and the listener tries again.
PollFails(l) ==
  /\ lis[l].pc = "polling"
  /\ lost < MaxLost
  /\ lost' = lost + 1
  /\ lis' = [lis EXCEPT ![l].pc = "ask", ![l].live = FALSE]
  /\ UNCHANGED <<commits, bumps, seq>>

Listen(l) == Ask(l) \/ Answer(l) \/ Notice(l)
SignalNext ==
  \/ Commit \/ Bump \/ LoseBump
  \/ \E l \in Listeners : Listen(l) \/ PollFails(l)

-----------------------------------------------------------------------------
(* What a loop does to its listener; it combines these with its own steps. *)

Started(l) == [NewListener EXCEPT !.pc = "ask"]
Taken(l) == [lis[l] EXCEPT !.changed = FALSE]
Halted(l) == [lis[l] EXCEPT !.stopped = TRUE]

\* The listener has told its loop of a change, or is going to.
WillSignal(l) ==
  \/ lis[l].changed
  \/ bumps > 0
  \/ (lis[l].pc \in {"ask", "polling"} /\ lis[l].seen # seq)
  \/ (lis[l].pc = "answered" /\ (News(l) \/ lis[l].got # seq))

\* The listener has seen no sequence the object has not reached.
NotAhead(l) == lis[l].seen <= seq /\ lis[l].got <= seq

ListenerTypes ==
  [pc : {"off", "ask", "polling", "answered", "over"},
   seen : {Unseen} \cup (0 .. MaxCommits), got : {Unseen} \cup (0 .. MaxCommits),
   live : BOOLEAN, changed : BOOLEAN, stopped : BOOLEAN]

\* Every bump belongs to a commit and is applied or lost once.
SignalTypeOK ==
  /\ commits \in 0 .. MaxCommits
  /\ bumps \in 0 .. MaxCommits
  /\ seq \in 0 .. MaxCommits
  /\ lost \in 0 .. MaxLost
  /\ lis \in [Listeners -> ListenerTypes]
  /\ seq + bumps <= commits
=============================================================================
