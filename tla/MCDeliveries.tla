---------------------------- MODULE MCDeliveries ----------------------------
(* A small instance of the hub's two delivery services for TLC.  They share no   *)
(* state, so a behaviour is one of them: which, is chosen at the start.         *)
EXTENDS Subscriptions, ApplePush

VARIABLE service

all == <<service, vars, pushVars>>

MCInit == Init /\ PushInit /\ service \in {"subscriptions", "push"}

MCNext ==
  \/ service = "subscriptions" /\ Next /\ UNCHANGED <<service, pushVars>>
  \/ service = "push" /\ PushNext /\ UNCHANGED <<service, vars>>

\* A step of one service, for its fairness.
Polls1(s, p) == service = "subscriptions" /\ Poll(s, p) /\ UNCHANGED <<service, pushVars>>
Acks1(s) == /\ service = "subscriptions" /\ \E d \in 1 .. MaxWrites : Ack(s, d)
            /\ UNCHANGED <<service, pushVars>>
Drains1(d) == service = "push" /\ Drain(d) /\ UNCHANGED <<service, vars>>
Expires1 == service = "push" /\ LeaseExpires /\ UNCHANGED <<service, vars>>
Retries1(e) == service = "push" /\ RetryDue(e) /\ UNCHANGED <<service, vars>>

MCSpec ==
  /\ MCInit /\ [][MCNext]_all
  /\ \A s \in Subs : WF_all(Acks1(s)) /\ \A p \in Polls : WF_all(Polls1(s, p))
  /\ \A d \in Drains : WF_all(Drains1(d))
  /\ WF_all(Expires1)
  /\ \A e \in 1 .. MaxEvents : WF_all(Retries1(e))
=============================================================================
