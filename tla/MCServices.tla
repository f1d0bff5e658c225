----------------------------- MODULE MCServices -----------------------------
(* A small instance of five parts of the hub and its clients that share no      *)
(* state: a behaviour is one of them, chosen at the start.                      *)
EXTENDS UsageMeter, NotificationFeed, Changesets, Governance, DeviceLogin, TLC

VARIABLE service

all == <<service, usageVars, feedVars, csVars, govVars, loginVars>>

\* Values are only compared within a column, so any row is a start like any other.
MCInit ==
  /\ UsageInit /\ FeedInit /\ CsInit /\ GovInit /\ LoginInit
  /\ service \in {"usage", "feed", "changesets", "governance", "login"}
  /\ val = [c \in Cols |-> CHOOSE v \in Values : TRUE]

MCNext ==
  /\ service' = service
  /\ \/ service = "usage" /\ UsageNext /\ UNCHANGED <<feedVars, csVars, govVars, loginVars>>
     \/ service = "feed" /\ FeedNext /\ UNCHANGED <<usageVars, csVars, govVars, loginVars>>
     \/ service = "changesets" /\ CsNext /\ UNCHANGED <<usageVars, feedVars, govVars, loginVars>>
     \/ service = "governance" /\ GovNext /\ UNCHANGED <<usageVars, feedVars, csVars, loginVars>>
     \/ service = "login" /\ LoginNext /\ UNCHANGED <<usageVars, feedVars, csVars, govVars>>

\* The parts are given the same model values where each may permute them.
Symmetric == Permutations(Cols) \cup Permutations(Runs) \cup Permutations(Requests)

MCSpec == MCInit /\ [][MCNext]_all
=============================================================================
