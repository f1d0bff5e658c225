----------------------------- MODULE WatchLoop ------------------------------
(***************************************************************************)
(* `soma watch` (src/soma/__init__.py, watch): a loop that starts a sync     *)
(* round when the database file changed, when its listener signals a remote  *)
(* change, when a write landed during the last round, or when the interval   *)
(* since the last round is over.                                            *)
(*                                                                          *)
(* A round is what SomaSync shows of it: it reads the hub's cursor, freezes  *)
(* the local writes, and, if it succeeds, has pulled every commit before the *)
(* cursor and pushed every write before the snapshot.  Local writes, commits *)
(* and the listener's steps fall between any two steps of the loop.          *)
(***************************************************************************)
EXTENDS ChangeSignal

CONSTANTS
  Listener,     \* the loop's listener
  MaxEdits,     \* bound on local writes
  MaxFailures   \* bound on rounds that fail or are rejected

ASSUME WatchAssumption ==
  Listener \in Listeners /\ MaxEdits \in Nat /\ MaxFailures \in Nat

VARIABLES
  edits,     \* local writes so far
  sent,      \* local writes the last good round had in its snapshot
  pulled,    \* commits before the last good round's cursor
  touched,   \* the database file differs from the loop's fingerprint
  again,     \* a write landed while the last round ran
  elapsed,   \* the poll and the safety interval since the last round are over
  lp,        \* the loop: where it stands and its locals
  failures   \* rounds failed or rejected so far

loop == <<edits, sent, pulled, touched, again, elapsed, lp, failures>>
vars == <<signal, loop>>

-----------------------------------------------------------------------------
\* `outcome` is the last round's: "ok", "rejected", "failed" or none yet.
Start == [pc |-> "tick", changed |-> FALSE, signalled |-> FALSE,
          cursor |-> 0, snapshot |-> 0, outcome |-> "none"]

Init ==
  /\ SignalInit
  /\ edits = 0 /\ sent = 0 /\ pulled = 0
  /\ touched = FALSE /\ again = FALSE
  /\ elapsed = [poll |-> TRUE, safety |-> TRUE]
  /\ lp = [Start EXCEPT !.pc = "start"]
  /\ failures = 0

Goto(pc) == lp' = [lp EXCEPT !.pc = pc]

\* The listener is started before the loop is entered.
StartListener ==
  /\ lp.pc = "start"
  /\ lis' = [lis EXCEPT ![Listener] = Started(Listener)]
  /\ Goto("tick")
  /\ UNCHANGED <<commits, bumps, seq, lost, edits, sent, pulled, touched, again,
                 elapsed, failures>>

\* db_changed: a difference from the fingerprint is seen and absorbed.
Tick ==
  /\ lp.pc = "tick"
  /\ lp' = [lp EXCEPT !.pc = "take", !.changed = touched]
  /\ touched' = FALSE
  /\ UNCHANGED <<signal, edits, sent, pulled, again, elapsed, failures>>

Take ==
  /\ lp.pc = "take"
  /\ lp' = [lp EXCEPT !.pc = "decide", !.signalled = lis[Listener].changed]
  /\ lis' = [lis EXCEPT ![Listener] = Taken(Listener)]
  /\ UNCHANGED <<commits, bumps, seq, lost, edits, sent, pulled, touched, again,
                 elapsed, failures>>

\* Mutant: with the signal live there is no safety net.
MutIntervalOver == ~lis[Listener].live /\ elapsed.poll

\* With a live listener only the safety interval starts a round by itself.
IntervalOver == IF lis[Listener].live THEN elapsed.safety ELSE elapsed.poll

Decide ==
  /\ lp.pc = "decide"
  /\ IF lp.changed \/ lp.signalled \/ again \/ IntervalOver
     THEN again' = FALSE /\ Goto("cursor")
     ELSE again' = again /\ Goto("sleep")
  /\ UNCHANGED <<signal, edits, sent, pulled, touched, elapsed, failures>>

Cursor ==
  /\ lp.pc = "cursor"
  /\ lp' = [lp EXCEPT !.pc = "snapshot", !.cursor = commits]
  /\ UNCHANGED <<signal, edits, sent, pulled, touched, again, elapsed, failures>>

Snapshot ==
  /\ lp.pc = "snapshot"
  /\ lp' = [lp EXCEPT !.pc = "finish", !.snapshot = edits]
  /\ UNCHANGED <<signal, edits, sent, pulled, touched, again, elapsed, failures>>

\* A round always writes its checkpoints, so the file changes.
Finish ==
  /\ lp.pc = "finish"
  /\ sent' = lp.snapshot
  /\ pulled' = lp.cursor
  /\ touched' = TRUE
  /\ lp' = [lp EXCEPT !.pc = "pending", !.outcome = "ok"]
  /\ UNCHANGED <<signal, edits, again, elapsed, failures>>

\* Rejected rows: what was pulled stays, nothing is acknowledged.
Reject ==
  /\ lp.pc = "finish"
  /\ failures < MaxFailures
  /\ failures' = failures + 1
  /\ pulled' = lp.cursor
  /\ touched' = TRUE
  /\ lp' = [lp EXCEPT !.pc = "absorb", !.outcome = "rejected"]
  /\ UNCHANGED <<signal, edits, sent, again, elapsed>>

\* Any exception of the round is reported, and the loop goes on.
Fail ==
  /\ lp.pc \in {"cursor", "snapshot", "finish", "pending"}
  /\ failures < MaxFailures
  /\ failures' = failures + 1
  /\ \E wrote \in BOOLEAN : touched' = (touched \/ wrote)
  /\ lp' = [lp EXCEPT !.pc = "absorb", !.outcome = "failed"]
  /\ UNCHANGED <<signal, edits, sent, pulled, again, elapsed>>

\* pending_local_writes: a receipt, or a revision since the snapshot.
Pending ==
  /\ lp.pc = "pending"
  /\ again' = (sent < edits)
  /\ Goto("absorb")
  /\ UNCHANGED <<signal, edits, sent, pulled, touched, elapsed, failures>>

\* Mutant: the end of a round clears the signal too.
MutAbsorbed == Taken(Listener)

Absorbed == lis[Listener]

\* The new fingerprint absorbs every write up to now; the interval begins.
Absorb ==
  /\ lp.pc = "absorb"
  /\ touched' = FALSE
  /\ elapsed' = [poll |-> FALSE, safety |-> FALSE]
  /\ lis' = [lis EXCEPT ![Listener] = Absorbed]
  /\ Goto("sleep")
  /\ UNCHANGED <<commits, bumps, seq, lost, edits, sent, pulled, again, failures>>

\* The tick ends after a second, or as soon as the listener signals.
Sleep ==
  /\ lp.pc = "sleep"
  /\ Goto("tick")
  /\ UNCHANGED <<signal, edits, sent, pulled, touched, again, elapsed, failures>>

-----------------------------------------------------------------------------
\* A write of a local program.
Edit ==
  /\ edits < MaxEdits
  /\ edits' = edits + 1
  /\ touched' = TRUE
  /\ UNCHANGED <<signal, sent, pulled, again, elapsed, lp, failures>>

\* Time passes: the poll interval ends before the safety interval.
PollOver ==
  /\ ~elapsed.poll
  /\ elapsed' = [elapsed EXCEPT !.poll = TRUE]
  /\ UNCHANGED <<signal, edits, sent, pulled, touched, again, lp, failures>>

SafetyOver ==
  /\ elapsed.poll /\ ~elapsed.safety
  /\ elapsed' = [elapsed EXCEPT !.safety = TRUE]
  /\ UNCHANGED <<signal, edits, sent, pulled, touched, again, lp, failures>>

Loop ==
  \/ StartListener \/ Tick \/ Take \/ Decide \/ Cursor \/ Snapshot
  \/ Finish \/ Pending \/ Absorb \/ Sleep
Time == PollOver \/ SafetyOver

Next ==
  \/ Loop \/ Reject \/ Fail \/ Edit \/ Time
  \/ (SignalNext /\ UNCHANGED loop)

Spec == Init /\ [][Next]_vars

\* The loop and its listener are threads that keep running, time passes, and a
\* bump that is not lost arrives.
FairSpec ==
  /\ Spec
  /\ WF_vars(Loop) /\ WF_vars(Time)
  /\ WF_vars(Bump /\ UNCHANGED loop) /\ WF_vars(Listen(Listener) /\ UNCHANGED loop)

-----------------------------------------------------------------------------
LoopTypes ==
  [pc : {"start", "tick", "take", "decide", "cursor", "snapshot", "finish", "pending",
         "absorb", "sleep"},
   changed : BOOLEAN, signalled : BOOLEAN, cursor : 0 .. commits,
   snapshot : 0 .. edits, outcome : {"none", "ok", "rejected", "failed"}]

TypeOK ==
  /\ SignalTypeOK
  /\ edits \in 0 .. MaxEdits
  /\ sent \in 0 .. edits
  /\ pulled \in 0 .. commits
  /\ touched \in BOOLEAN /\ again \in BOOLEAN
  /\ elapsed \in [poll : BOOLEAN, safety : BOOLEAN]
  /\ lp \in LoopTypes
  /\ failures \in 0 .. MaxFailures

\* The loop is on its way into a round that has not read the cursor yet.
WillRead == lp.pc = "cursor" \/ (lp.pc = "decide" /\ lp.signalled)

\* A round in progress covers the commit.
InRound == lp.pc \in {"snapshot", "finish"} /\ lp.cursor = commits

\* No remote change goes unnoticed: as long as no bump was lost and no round
\* failed, a commit the replica has not pulled is being signalled, or a round
\* that covers it runs or is about to.  The loop never has to wait for the
\* safety interval to see it.
RemoteNoticed ==
  lost = 0 /\ failures = 0 /\ pulled < commits =>
    WillSignal(Listener) \/ WillRead \/ InRound \/ lp.pc = "start"

\* The commits the round in progress, or else the last good one, has pulled.
Covered == IF lp.pc \in {"snapshot", "finish"} THEN lp.cursor ELSE pulled

\* The inductive form of RemoteNoticed: it says of a round in progress what
\* RemoteNoticed says after it, that the listener runs once it is started, and
\* that a bump always takes the sequence past what the listener has seen.
NoticeInv ==
  /\ NotAhead(Listener)
  /\ lp.pc # "start" =>
       /\ lis[Listener].pc \in {"ask", "polling", "answered"}
       /\ ~lis[Listener].stopped
  /\ lost = 0 /\ failures = 0 /\ Covered < commits =>
       WillSignal(Listener) \/ WillRead \/ lp.pc = "start"

\* The loop is on its way into a round that has not taken its snapshot yet.
WillSend ==
  \/ lp.pc \in {"cursor", "snapshot"}
  \/ (lp.pc \in {"take", "decide"} /\ lp.changed)

\* "Push local changes within ~1s" (watch's docstring): after a good round a
\* write that was not sent starts a round at the next tick.  It does not hold: a
\* write between Pending and Absorb is seen by neither (README.md).
LocalNoticed ==
  lp.outcome = "ok" /\ lp.pc \notin {"finish", "pending"} /\ sent < edits =>
    touched \/ again \/ WillSend

\* Once writers and failures stop, everything is sent and pulled.
Settles == <>[](sent = edits /\ pulled = commits)
=============================================================================
