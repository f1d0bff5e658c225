-------------------------- MODULE NotificationFeed --------------------------
(***************************************************************************)
(* The notification feed and its routes (worker/src/usage.js).  Producers       *)
(* insert notifications under ids that are their dedupe keys; a client pages    *)
(* through them by sequence number and marks them read; a delivery test is      *)
(* inserted and, later, deleted.                                              *)
(*                                                                          *)
(* A route is one batch; its answer reaches the client later, or never.        *)
(***************************************************************************)
EXTENDS Integers, FiniteSets

CONSTANTS
  Events,       \* what producers notify, each with its own id
  TestId,       \* the id of a delivery test
  PageLimit,    \* notifications per page, at most
  MaxSeq        \* bound on sequence numbers

ASSUME FeedAssumption == TestId \notin Events /\ PageLimit \in Nat \ {0} /\ MaxSeq \in Nat

VARIABLES
  notes,      \* _notifications
  lastNote,   \* the highest sequence number ever given
  follower,   \* a client: its cursor, what it was given, and the answer on its way to it
  marking     \* the mark-read request on its way to the hub

feedVars == <<notes, lastNote, follower, marking>>

-----------------------------------------------------------------------------
NoAnswer == [items |-> {}, next |-> 0]

FeedInit ==
  /\ notes = {} /\ lastNote = 0
  /\ follower = [after |-> 0, got |-> {}, answer |-> NoAnswer]
  /\ marking = 0

\* Mutant: the number after the last one that is kept.
MutNextSeq == IF notes = {} THEN 1 ELSE 1 + CHOOSE s \in {n.seq : n \in notes} : \A n \in notes : n.seq <= s

\* AUTOINCREMENT: a number is never given again.
NextSeq == lastNote + 1

\* INSERT OR IGNORE
Insert(id) ==
  /\ lastNote < MaxSeq
  /\ \A n \in notes : n.id # id
  /\ notes' = notes \cup {[seq |-> NextSeq, id |-> id, read |-> FALSE]}
  /\ lastNote' = NextSeq
  /\ UNCHANGED <<follower, marking>>

\* Deleted by its id, producer and type: nothing else is.
DeleteTest ==
  /\ notes' = {n \in notes : n.id # TestId}
  /\ UNCHANGED <<lastNote, follower, marking>>

\* What follows the cursor, oldest first and up to the limit; the next cursor
\* is that of the last item.
Page ==
  LET after == {n \in notes : n.seq > follower.after}
      page == {n \in after : Cardinality({k \in after : k.seq <= n.seq}) <= PageLimit}
      last == CHOOSE s \in {n.seq : n \in page} : \A n \in page : n.seq <= s
  IN  /\ follower.answer = NoAnswer /\ page # {}
      /\ follower' = [follower EXCEPT !.answer = [items |-> {n.id : n \in page}, next |-> last]]
      /\ UNCHANGED <<notes, lastNote, marking>>

Answered ==
  /\ follower.answer # NoAnswer
  /\ follower' = [follower EXCEPT !.after = follower.answer.next, !.got = @ \cup follower.answer.items,
                                  !.answer = NoAnswer]
  /\ UNCHANGED <<notes, lastNote, marking>>

AnswerLost ==
  /\ follower.answer # NoAnswer
  /\ follower' = [follower EXCEPT !.answer = NoAnswer]
  /\ UNCHANGED <<notes, lastNote, marking>>

\* The client asks that everything through its cursor be marked read.
AskMark ==
  /\ marking' = follower.after
  /\ UNCHANGED <<notes, lastNote, follower>>

\* Mutant: all that is unread is marked.
MutMarked(n) == TRUE

Marked(n) == n.seq <= marking

MarkRead ==
  /\ marking # 0
  /\ notes' = {[n EXCEPT !.read = @ \/ Marked(n)] : n \in notes}
  /\ marking' = 0
  /\ UNCHANGED <<lastNote, follower>>

-----------------------------------------------------------------------------
FeedNext ==
  \/ \E id \in Events \cup {TestId} : Insert(id)
  \/ DeleteTest \/ Page \/ Answered \/ AnswerLost \/ AskMark \/ MarkRead

FeedSpec == FeedInit /\ [][FeedNext]_feedVars

-----------------------------------------------------------------------------
FeedTypeOK ==
  /\ lastNote \in 0 .. MaxSeq /\ marking \in 0 .. follower.after
  /\ notes \subseteq [seq : 1 .. lastNote, id : Events \cup {TestId}, read : BOOLEAN]
  /\ follower.after \in 0 .. lastNote /\ follower.answer.next \in 0 .. lastNote

\* A client that follows its cursor was given everything before it, and nothing
\* is marked read that no client was given, although the newest notifications
\* may have been deleted in between and answers and requests arrive late.
FeedComplete ==
  /\ FeedTypeOK
  /\ \A n \in notes : (n.seq <= follower.after \/ n.read) => n.id \in follower.got
  /\ \A n \in notes : \A k \in notes : n.seq = k.seq \/ n.id = k.id => n = k
=============================================================================
