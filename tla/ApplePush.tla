----------------------------- MODULE ApplePush -----------------------------
(***************************************************************************)
(* Push registrations and deliveries (worker/src/apple-push.js) of one        *)
(* session and app profile.  Native clients register and revoke with          *)
(* compare-and-swap requests that may be delivered late or twice; any number  *)
(* of drains send the notification feed to the registered device under a      *)
(* lease, one statement of the store at a time.                              *)
(***************************************************************************)
EXTENDS Integers

CONSTANTS
  DeviceTokens,  \* APNs tokens of the device, over time
  Requests,      \* request ids of the client
  Drains,        \* invocations that drain the feed
  MaxEvents,     \* bound on notifications
  MaxRevision,   \* bound on registration revisions
  MaxSetbacks,   \* bound on failed sends, crashes and leases outlived
  NoOne          \* no token, no lease

ASSUME PushAssumption ==
  /\ MaxEvents \in Nat /\ MaxRevision \in Nat /\ MaxSetbacks \in Nat
  /\ NoOne \notin DeviceTokens \cup Drains

VARIABLES
  feed,      \* notifications so far: the newest sequence
  reg,       \* the row of _push_registrations
  asked,     \* the requests the client has sent
  receipts,  \* _push_requests: the revision a request was confirmed with
  outcome,   \* _push_deliveries of the installation, per event
  retryDue,  \* whether an event's next attempt is due
  session,   \* whether the session's token is still valid
  drain,     \* drains in progress
  setbacks

pushVars == <<feed, reg, asked, receipts, outcome, retryDue, session, drain, setbacks>>

-----------------------------------------------------------------------------
\* `made` counts revisions, which are random ids in the code; `leased` is
\* whether the lease has not run out.
Unregistered == [state |-> "none", revision |-> 0, made |-> 0, token |-> NoOne,
                 base |-> 0, cursor |-> 0, lease |-> NoOne, leased |-> FALSE]
NotAsked == [kind |-> "none", token |-> NoOne, expected |-> 0]
NoDrain == [pc |-> "idle", revision |-> 0, token |-> NoOne, cursor |-> 0, event |-> 0,
            verdict |-> "retry"]

Verdicts == {"accepted", "permanent", "invalid", "retry"}

PushInit ==
  /\ feed = 0
  /\ reg = Unregistered
  /\ asked = [r \in Requests |-> NotAsked]
  /\ receipts = [r \in Requests |-> 0]
  /\ outcome = [e \in 1 .. MaxEvents |-> "none"]
  /\ retryDue = [e \in 1 .. MaxEvents |-> TRUE]
  /\ session = TRUE
  /\ drain = [d \in Drains |-> NoDrain]
  /\ setbacks = 0

-----------------------------------------------------------------------------
(* Registration *)

\* The client asks, with the revision it last read; 0 is none.
AskRegistration(r) ==
  /\ asked[r].kind = "none"
  /\ \E kind \in {"active", "revoked"}, token \in DeviceTokens :
       asked' = [asked EXCEPT ![r] = [kind |-> kind, expected |-> reg.revision,
                                      token |-> IF kind = "active" THEN token ELSE NoOne]]
  /\ UNCHANGED <<feed, reg, receipts, outcome, retryDue, session, drain, setbacks>>

\* The first registration and a reactivation start after what is in the feed.
CursorFor(q) ==
  IF reg.state = "none" \/ (reg.state = "revoked" /\ q.kind = "active") THEN feed ELSE reg.cursor

BaseFor(q) ==
  IF reg.state = "none" \/ (reg.state = "revoked" /\ q.kind = "active") THEN feed ELSE reg.base

\* The same token again keeps the generation and its lease.
Same(q) == reg.state = "active" /\ q.kind = "active" /\ q.token = reg.token

\* Mutant: a new token does not begin a new generation.
MutRegistered(q) ==
  IF reg.state = "active" /\ q.kind = "active" THEN [reg EXCEPT !.token = q.token]
  ELSE [state |-> q.kind, revision |-> reg.made + 1, made |-> reg.made + 1, token |-> q.token,
        base |-> BaseFor(q), cursor |-> CursorFor(q), lease |-> NoOne, leased |-> FALSE]

Registered(q) ==
  IF Same(q) THEN reg
  ELSE [state |-> q.kind, revision |-> reg.made + 1, made |-> reg.made + 1, token |-> q.token,
        base |-> BaseFor(q), cursor |-> CursorFor(q), lease |-> NoOne, leased |-> FALSE]

\* The request arrives, perhaps again: it takes effect while its revision is
\* the current one, its session is valid and it has no receipt.
Register(r) ==
  /\ asked[r].kind # "none" /\ session /\ receipts[r] = 0
  /\ asked[r].expected = reg.revision
  /\ Same(asked[r]) \/ reg.made < MaxRevision
  /\ reg' = Registered(asked[r])
  /\ receipts' = [receipts EXCEPT ![r] = reg'.revision]
  /\ UNCHANGED <<feed, asked, outcome, retryDue, session, drain, setbacks>>

RevokeSession ==
  /\ session
  /\ session' = FALSE
  /\ UNCHANGED <<feed, reg, asked, receipts, outcome, retryDue, drain, setbacks>>

Notify ==
  /\ feed < MaxEvents
  /\ feed' = feed + 1
  /\ UNCHANGED <<reg, asked, receipts, outcome, retryDue, session, drain, setbacks>>

-----------------------------------------------------------------------------
(* Delivery *)

After(cursor) == cursor + 1

\* A drain finds the registration: active, free, its next event due.
Select(d) ==
  /\ drain[d].pc = "idle"
  /\ session /\ reg.state = "active" /\ ~reg.leased
  /\ After(reg.cursor) <= feed /\ retryDue[After(reg.cursor)]
  /\ drain' = [drain EXCEPT ![d] = [NoDrain EXCEPT !.pc = "claim", !.revision = reg.revision]]
  /\ UNCHANGED <<feed, reg, asked, receipts, outcome, retryDue, session, setbacks>>

\* Mutant: a lease that has run out still holds.
MutClaimable(d) ==
  session /\ reg.state = "active" /\ reg.revision = drain[d].revision /\ reg.lease = NoOne

Claimable(d) ==
  session /\ reg.state = "active" /\ reg.revision = drain[d].revision /\ ~reg.leased

Claim(d) ==
  /\ drain[d].pc = "claim"
  /\ reg' = IF Claimable(d) THEN [reg EXCEPT !.lease = d, !.leased = TRUE] ELSE reg
  /\ drain' = [drain EXCEPT ![d] =
       IF Claimable(d) THEN [@ EXCEPT !.pc = "next", !.token = reg.token, !.cursor = reg.cursor]
                       ELSE NoDrain]
  /\ UNCHANGED <<feed, asked, receipts, outcome, retryDue, session, setbacks>>

\* The next event, if there is one and it is due.  A drain that claimed has the
\* budget for one event at least.
NextEvent(d) ==
  LET e == After(drain[d].cursor)
      due == e <= feed /\ retryDue[e]
  IN  /\ drain[d].pc = "next"
      /\ \/ /\ due
            /\ drain' = [drain EXCEPT ![d].event = e, ![d].pc = "check"]
         \/ /\ ~due \/ drain[d].event # 0
            /\ drain' = [drain EXCEPT ![d].pc = "release"]
      /\ UNCHANGED <<feed, reg, asked, receipts, outcome, retryDue, session, setbacks>>

\* A payload that is too long is not sent; otherwise the registration must
\* still be the one that was claimed, under this drain's lease.
Current(d) ==
  session /\ reg.state = "active" /\ reg.revision = drain[d].revision /\ reg.lease = d

CheckSend(d) ==
  /\ drain[d].pc = "check"
  /\ drain' = [drain EXCEPT ![d].pc = IF Current(d) THEN "send" ELSE "release"]
  /\ UNCHANGED <<feed, reg, asked, receipts, outcome, retryDue, session, setbacks>>

TooLong(d) ==
  /\ drain[d].pc = "check"
  /\ drain' = [drain EXCEPT ![d].pc = "record", ![d].verdict = "permanent"]
  /\ UNCHANGED <<feed, reg, asked, receipts, outcome, retryDue, session, setbacks>>

\* Apple's answer, or a failure that is worth another attempt.
Send(d, verdict) ==
  /\ drain[d].pc = "send"
  /\ verdict = "retry" => setbacks < MaxSetbacks
  /\ verdict = "invalid" => drain[d].revision < MaxRevision
  /\ setbacks' = IF verdict = "retry" THEN setbacks + 1 ELSE setbacks
  /\ drain' = [drain EXCEPT ![d].pc = "record", ![d].verdict = verdict]
  /\ UNCHANGED <<feed, reg, asked, receipts, outcome, retryDue, session>>

\* Mutant: the lease is not part of the guard.
MutRecordable(d) == session /\ reg.state = "active" /\ reg.revision = drain[d].revision

\* Both statements of the record are guarded like the send.
Recordable(d) == Current(d)

Verdict(d) == IF drain[d].verdict = "invalid" THEN "permanent" ELSE drain[d].verdict

\* The outcome; a bad token ends the generation, anything but a retry
\* moves the cursor.
Record(d) ==
  LET e == drain[d].event
      invalid == drain[d].verdict = "invalid"
  IN  /\ drain[d].pc = "record"
      /\ outcome' = IF Recordable(d) THEN [outcome EXCEPT ![e] = Verdict(d)] ELSE outcome
      /\ retryDue' = IF Recordable(d) THEN [retryDue EXCEPT ![e] = Verdict(d) # "retry"] ELSE retryDue
      /\ reg' = CASE ~Recordable(d) \/ Verdict(d) = "retry" -> reg
                  [] Recordable(d) /\ invalid ->
                       [reg EXCEPT !.cursor = e, !.state = "revoked", !.token = NoOne,
                                   !.revision = reg.made + 1, !.made = @ + 1]
                  [] OTHER -> [reg EXCEPT !.cursor = e]
      /\ drain' = [drain EXCEPT ![d].pc = IF drain[d].verdict \in {"retry", "invalid"}
                                          THEN "release" ELSE "next",
                                ![d].cursor = IF drain[d].verdict \in {"retry", "invalid"} THEN @ ELSE e]
      /\ UNCHANGED <<feed, asked, receipts, session, setbacks>>

Holds(d) == reg.lease = d

Release(d) ==
  /\ drain[d].pc = "release"
  /\ reg' = IF Holds(d) THEN [reg EXCEPT !.lease = NoOne, !.leased = FALSE] ELSE reg
  /\ drain' = [drain EXCEPT ![d] = NoDrain]
  /\ UNCHANGED <<feed, asked, receipts, outcome, retryDue, session, setbacks>>

\* The invocation ends anywhere; its lease stays.
Crash(d) ==
  /\ drain[d].pc # "idle" /\ setbacks < MaxSetbacks
  /\ setbacks' = setbacks + 1
  /\ drain' = [drain EXCEPT ![d] = NoDrain]
  /\ UNCHANGED <<feed, reg, asked, receipts, outcome, retryDue, session>>

\* A lease runs out: long after its holder ended, or, rarely, under it.
Running(d) == drain[d].pc \notin {"idle", "claim"}

LeaseExpires ==
  LET early == \E d \in Drains : reg.lease = d /\ Running(d)
  IN  /\ reg.leased
      /\ early => setbacks < MaxSetbacks
      /\ setbacks' = IF early THEN setbacks + 1 ELSE setbacks
      /\ reg' = [reg EXCEPT !.leased = FALSE]
      /\ UNCHANGED <<feed, asked, receipts, outcome, retryDue, session, drain>>

RetryDue(e) ==
  /\ ~retryDue[e]
  /\ retryDue' = [retryDue EXCEPT ![e] = TRUE]
  /\ UNCHANGED <<feed, reg, asked, receipts, outcome, session, drain, setbacks>>

-----------------------------------------------------------------------------
Drain(d) ==
  \/ Select(d) \/ Claim(d) \/ NextEvent(d) \/ CheckSend(d) \/ TooLong(d)
  \/ \E verdict \in Verdicts : Send(d, verdict)
  \/ Record(d) \/ Release(d)

PushNext ==
  \/ \E r \in Requests : AskRegistration(r) \/ Register(r)
  \/ RevokeSession \/ Notify \/ LeaseExpires
  \/ \E d \in Drains : Drain(d) \/ Crash(d)
  \/ \E e \in 1 .. MaxEvents : RetryDue(e)

PushSpec == PushInit /\ [][PushNext]_pushVars

-----------------------------------------------------------------------------
PushTypeOK ==
  /\ feed \in 0 .. MaxEvents
  /\ reg.state \in {"none", "active", "revoked"} /\ reg.revision \in 0 .. reg.made
  /\ reg.made \in 0 .. MaxRevision
  /\ reg.base <= reg.cursor /\ reg.cursor <= feed
  /\ reg.token \in DeviceTokens <=> reg.state = "active"
  /\ reg.lease \in Drains \cup {NoOne} /\ (reg.leased => reg.lease # NoOne)
  /\ \A r \in Requests : asked[r].kind \in {"none", "active", "revoked"} /\ receipts[r] \in 0 .. reg.made
  /\ outcome \in [1 .. MaxEvents -> {"none", "accepted", "permanent", "retry"}]
  /\ \A d \in Drains : drain[d].cursor \in 0 .. feed /\ drain[d].event \in 0 .. feed

\* The cursor of a registration stands after the events that are decided and
\* before those that are not: none is skipped and none is taken again, however
\* many drains run, crash or outlive their lease.
FeedInOrder ==
  \A e \in 1 .. feed :
    /\ reg.base < e /\ e <= reg.cursor => outcome[e] \in {"accepted", "permanent"}
    /\ reg.cursor < e => outcome[e] \in {"none", "retry"}

\* Drains, leases and registrations stay well typed and take the feed in order,
\* however they overlap (apple-push.js).
PushSound == PushTypeOK /\ FeedInOrder

\* "Old-generation invalid token responses cannot revoke a new generation": an
\* answer changes the registration only while it is the one it was sent for.
OwnGeneration ==
  [][\A d \in Drains : drain[d].pc = "record" /\ drain'[d].pc # "record" /\ reg' # reg =>
       reg.token = drain[d].token]_pushVars

\* While the registration is active its feed is drained, as long as drains are
\* started again, leases run out and retries come due.
Pushed == []<>(~session \/ reg.state # "active" \/ reg.cursor = feed)
=============================================================================
