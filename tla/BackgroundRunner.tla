-------------------------- MODULE BackgroundRunner --------------------------
(***************************************************************************)
(* The supervised background runner (src/soma/background.py, run): a loop    *)
(* that obeys the preferences file, reads the credential when it has no hub, *)
(* keeps one listener for that hub, starts sync rounds as `soma watch` does, *)
(* and backs off after failures.  A hub object and the listener started with *)
(* it share a name: `listening is not hub` is `remote # hub`.                *)
(***************************************************************************)
EXTENDS ChangeSignal

CONSTANTS
  None,           \* no hub, no listener, no configuration
  MaxConfigs,     \* bound on changes of the preferences
  MaxEdits,       \* bound on local writes
  MaxFailures     \* bound on failures, rejections and restarts

ASSUME RunnerAssumption ==
  /\ None \notin Listeners
  /\ {MaxConfigs, MaxEdits, MaxFailures} \subseteq Nat

VARIABLES
  prefs,     \* the preferences file: enabled, and its revision
  bg,        \* the locals of run
  edits,     \* local writes so far
  sent,      \* local writes the last good round had in its snapshot
  pulled,    \* commits before the last good round's cursor
  touched,   \* the database file differs from the fingerprint
  session,   \* this configuration's credential was read, and not refused since
  failures

runner == <<prefs, bg, edits, sent, pulled, touched, session, failures>>
vars == <<signal, runner>>

-----------------------------------------------------------------------------
\* Locals that are not used any more are reset.  `next` and `safety` tell that next_sync and last_round + SAFETY_SECONDS
\* are past: how long a failure delays the next round is left open.
Launched(state) ==
  [pc |-> "top", state |-> state, known |-> None, hub |-> None, remote |-> None,
   changed |-> FALSE, again |-> FALSE, next |-> TRUE, safety |-> TRUE,
   cursor |-> 0, snapshot |-> 0]

Init ==
  /\ SignalInit
  /\ \E on \in BOOLEAN : prefs = [enabled |-> on, revision |-> 0]
  /\ bg = Launched("none")
  /\ edits = 0 /\ sent = 0 /\ pulled = 0
  /\ touched = FALSE
  /\ session = FALSE
  /\ failures = 0

Idle == bg.state = "idle"

\* A tick, after a second's sleep or, while idle, at once after a signal, begins
\* with this: a listener of a hub that is gone is stopped.
Gone == bg.remote # None /\ bg.remote # bg.hub
DropListener == lis' = IF Gone THEN [lis EXCEPT ![bg.remote] = Halted(bg.remote)] ELSE lis
Kept == IF Gone THEN None ELSE bg.remote

Disabled ==
  /\ bg.pc = "top"
  /\ DropListener
  /\ ~prefs.enabled
  /\ bg' = [bg EXCEPT !.hub = None, !.remote = Kept, !.known = None, !.next = TRUE,
                      !.state = "disabled"]
  /\ session' = FALSE
  /\ UNCHANGED <<commits, bumps, seq, lost, prefs, edits, sent, pulled, touched, failures>>

\* A new configuration forgets the hub and is due at once.
Read ==
  /\ bg.pc = "top"
  /\ DropListener
  /\ prefs.enabled
  /\ LET seen == [bg EXCEPT !.pc = "decide", !.changed = touched, !.remote = Kept]
         new  == prefs.revision # bg.known
     IN  /\ bg' = IF new THEN [seen EXCEPT !.hub = None, !.next = TRUE,
                                           !.known = prefs.revision]
                  ELSE seen
         /\ session' = (session /\ ~new)
  /\ touched' = FALSE
  /\ UNCHANGED <<commits, bumps, seq, lost, prefs, edits, sent, pulled, failures>>

\* Mutant: an idle runner relies on its signals.
MutDue == ~Idle /\ bg.next

\* While idle with a live listener the poll is only a safety net.
Due ==
  IF Idle /\ bg.remote # None /\ (bg.remote # None => lis[bg.remote].live)
  THEN bg.safety ELSE bg.next

Signalled == bg.remote # None /\ (bg.remote # None => lis[bg.remote].changed)

Wanted == (bg.changed \/ Signalled \/ bg.again) /\ bg.hub # None /\ Idle

Decide ==
  /\ bg.pc = "decide"
  /\ lis' = IF bg.remote = None THEN lis
            ELSE [lis EXCEPT ![bg.remote] = Taken(bg.remote)]
  /\ LET looked == [bg EXCEPT !.changed = FALSE]
     IN  bg' = IF ~(Due \/ Wanted) THEN [looked EXCEPT !.pc = "top"]
               ELSE IF bg.hub = None
               THEN [looked EXCEPT !.pc = "auth", !.again = FALSE, !.state = "authenticating"]
               ELSE [looked EXCEPT !.pc = "cursor", !.again = FALSE, !.state = "syncing"]
  /\ UNCHANGED <<commits, bumps, seq, lost, prefs, edits, sent, pulled, touched,
                 session, failures>>

\* The credential is read, and the hub gets a listener of its own; which of the
\* free names it takes makes no difference.
Free == {l \in Listeners : lis[l].pc \in {"off", "over"}}

Auth ==
  /\ bg.pc = "auth"
  /\ Free # {}
  /\ LET l == CHOOSE free \in Free : TRUE
     IN  /\ lis' = [lis EXCEPT ![l] = Started(l)]
         /\ bg' = [bg EXCEPT !.pc = "cursor", !.hub = l, !.remote = l, !.state = "syncing"]
  /\ session' = TRUE
  /\ UNCHANGED <<commits, bumps, seq, lost, prefs, edits, sent, pulled, touched, failures>>

-----------------------------------------------------------------------------
(* The round, as SomaSync shows it. *)

Cursor ==
  /\ bg.pc = "cursor"
  /\ bg' = [bg EXCEPT !.pc = "snapshot", !.cursor = commits]
  /\ UNCHANGED <<signal, prefs, edits, sent, pulled, touched, session, failures>>

Snapshot ==
  /\ bg.pc = "snapshot"
  /\ bg' = [bg EXCEPT !.pc = "finish", !.snapshot = edits]
  /\ UNCHANGED <<signal, prefs, edits, sent, pulled, touched, session, failures>>

Finish ==
  /\ bg.pc = "finish"
  /\ sent' = bg.snapshot
  /\ pulled' = bg.cursor
  /\ touched' = TRUE
  /\ bg' = [bg EXCEPT !.pc = "absorb", !.state = "idle", !.cursor = 0, !.snapshot = 0]
  /\ UNCHANGED <<signal, prefs, edits, session, failures>>

\* The fingerprint absorbs the round's own writes, and then the writes made
\* meanwhile are looked for.
Absorb ==
  /\ bg.pc = "absorb"
  /\ touched' = FALSE
  /\ bg' = [bg EXCEPT !.pc = "pending"]
  /\ UNCHANGED <<signal, prefs, edits, sent, pulled, session, failures>>

\* Mutant: nothing looks for the writes made during the round.
MutPending ==
  /\ bg.pc = "pending"
  /\ bg' = [bg EXCEPT !.pc = "top", !.next = FALSE, !.safety = FALSE]
  /\ UNCHANGED <<signal, prefs, edits, sent, pulled, touched, session, failures>>

Pending ==
  /\ bg.pc = "pending"
  /\ bg' = [bg EXCEPT !.pc = "top", !.again = sent < edits,
                      !.next = FALSE, !.safety = FALSE]
  /\ UNCHANGED <<signal, prefs, edits, sent, pulled, touched, session, failures>>

\* Mutant: any failure forgets the hub.
MutKeepsHub(kind) == FALSE

\* Only a refused credential forgets the hub.
KeepsHub(kind) == kind # "denied"

\* The except branch of the loop: what failed decides whether the hub is kept.
Failed(kind) ==
  [bg EXCEPT !.pc = "top", !.state = "retrying", !.hub = IF KeepsHub(kind) THEN @ ELSE None,
             !.next = FALSE, !.cursor = 0, !.snapshot = 0]

\* Rows the hub rejects fail the round after it has pulled.
Reject ==
  /\ bg.pc = "finish"
  /\ failures < MaxFailures
  /\ failures' = failures + 1
  /\ pulled' = bg.cursor
  /\ touched' = TRUE
  /\ bg' = Failed("rejected")
  /\ UNCHANGED <<signal, prefs, edits, sent, session>>

\* Rows a failed round wrote change the file; a runner that is not idle does not
\* act on it.
Fail(kind) ==
  /\ failures < MaxFailures
  /\ CASE kind = "locked" -> bg.pc \in {"cursor", "snapshot", "finish", "pending"}
       [] kind = "denied" -> bg.pc \in {"cursor", "finish"}
       [] kind = "credential" -> bg.pc = "auth"
       [] kind = "network" -> bg.pc \in {"cursor", "finish"}
  /\ failures' = failures + 1
  /\ touched' = (touched \/ bg.pc = "finish")
  /\ bg' = Failed(kind)
  /\ session' = (session /\ kind # "denied")
  /\ UNCHANGED <<signal, prefs, edits, sent, pulled>>

\* The process is supervised: it dies with its threads, and starts again with
\* the status file's state, which is written at the end of a tick, and with a
\* new fingerprint.
Restart ==
  /\ failures < MaxFailures
  /\ failures' = failures + 1
  /\ lis' = [l \in Listeners |-> NewListener]
  /\ bg' = Launched(IF bg.pc \in {"absorb", "pending"} THEN "syncing" ELSE bg.state)
  /\ touched' = FALSE
  /\ session' = FALSE
  /\ UNCHANGED <<commits, bumps, seq, lost, prefs, edits, sent, pulled>>

-----------------------------------------------------------------------------
(* What happens around the loop. *)

\* `soma background enable` and `disable`: every update has a new revision.
Configure(on) ==
  /\ prefs.revision < MaxConfigs
  /\ prefs' = [enabled |-> on, revision |-> prefs.revision + 1]
  /\ UNCHANGED <<signal, bg, edits, sent, pulled, touched, session, failures>>

Edit ==
  /\ edits < MaxEdits
  /\ edits' = edits + 1
  /\ touched' = TRUE
  /\ UNCHANGED <<signal, prefs, bg, sent, pulled, session, failures>>

NextOver ==
  /\ ~bg.next
  /\ bg' = [bg EXCEPT !.next = TRUE]
  /\ UNCHANGED <<signal, prefs, edits, sent, pulled, touched, session, failures>>

SafetyOver ==
  /\ bg.next /\ ~bg.safety
  /\ bg' = [bg EXCEPT !.safety = TRUE]
  /\ UNCHANGED <<signal, prefs, edits, sent, pulled, touched, session, failures>>

Loop ==
  \/ Disabled \/ Read \/ Decide \/ Auth \/ Cursor \/ Snapshot
  \/ Finish \/ Absorb \/ Pending
Time == NextOver \/ SafetyOver
Kinds == {"locked", "denied", "credential", "network"}

Next ==
  \/ Loop \/ Time \/ Reject \/ Restart \/ Edit
  \/ \E kind \in Kinds : Fail(kind)
  \/ \E on \in BOOLEAN : Configure(on)
  \/ (SignalNext /\ UNCHANGED runner)

Spec == Init /\ [][Next]_vars

\* The supervisor keeps the loop running, its listener threads run, time
\* passes, and a bump that is not lost arrives.
FairSpec ==
  /\ Spec
  /\ WF_vars(Loop) /\ WF_vars(NextOver) /\ WF_vars(SafetyOver)
  /\ WF_vars(Bump /\ UNCHANGED runner)
  /\ \A l \in Listeners : WF_vars(Listen(l) /\ UNCHANGED runner)

-----------------------------------------------------------------------------
Running == {"authenticating", "syncing", "idle", "retrying", "disabled", "none"}

TypeOK ==
  /\ SignalTypeOK
  /\ prefs \in [enabled : BOOLEAN, revision : 0 .. MaxConfigs]
  /\ edits \in 0 .. MaxEdits
  /\ sent \in 0 .. edits
  /\ pulled \in 0 .. commits
  /\ touched \in BOOLEAN /\ session \in BOOLEAN
  /\ failures \in 0 .. MaxFailures
  /\ bg \in [pc : {"top", "decide", "auth", "cursor", "snapshot", "finish",
                   "absorb", "pending"},
             state : Running, known : {None} \cup (0 .. MaxConfigs),
             hub : Listeners \cup {None}, remote : Listeners \cup {None},
             changed : BOOLEAN, again : BOOLEAN, next : BOOLEAN, safety : BOOLEAN,
             cursor : 0 .. commits, snapshot : 0 .. edits]
  /\ bg.hub # None => bg.remote = bg.hub

\* The loop is on its way into a round that has not read the cursor yet.
WillRead == bg.pc \in {"auth", "cursor"}

\* While idle and enabled, a remote change is being signalled, or a round that
\* covers it runs, or one is due, unless a bump was lost.
RemoteNoticed ==
  lost = 0 /\ Idle /\ prefs.enabled /\ pulled < commits =>
    \/ bg.next
    \/ (bg.hub # None /\ WillSignal(bg.remote))
    \/ WillRead

\* While idle and enabled, no local write is absorbed with the round's own:
\* it has changed the fingerprint, it was seen to have landed during the round,
\* or the loop has not looked yet.
LocalNoticed ==
  Idle /\ prefs.enabled /\ sent < edits =>
    \/ bg.next \/ touched \/ bg.again
    \/ (bg.pc = "decide" /\ bg.changed)
    \/ bg.pc \in {"absorb", "pending"}

\* No change is missed while the runner is idle, the hub's or the device's.
ChangesNoticed == RemoteNoticed /\ LocalNoticed

\* "A credential command is read once per enabled session/configuration; a
\* rejected credential is reloaded with backoff" (README).
CredentialOnce == bg.pc = "auth" => ~session

\* If the runner stays enabled, everything is sent and pulled in the end.
Settles == <>[]prefs.enabled => <>[](sent = edits /\ pulled = commits)
=============================================================================
