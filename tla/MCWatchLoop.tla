---------------------------- MODULE MCWatchLoop -----------------------------
(* A small instance of two loops that go on asking, a behaviour being one of      *)
(* them: soma watch, and the core client's schema exchange.                      *)
EXTENDS WatchLoop, CoreSchema

CONSTANTS thread, e1, c1

MCAlters == [ddl \in {c1} |-> e1]

VARIABLE asking

all == <<asking, vars, schemaVars>>

MCInit == Init /\ CoreSchemaInit /\ asking \in {"watch", "schema"}

MCNext ==
  \/ asking = "watch" /\ Next /\ UNCHANGED <<asking, schemaVars>>
  \/ asking = "schema" /\ CoreSchemaNext /\ UNCHANGED <<asking, vars>>

\* A step of one of them, for its fairness.
Watch(A) == asking = "watch" /\ A /\ UNCHANGED <<asking, schemaVars>>
Exchange1 == asking = "schema" /\ ExchangeStep /\ UNCHANGED <<asking, vars>>

MCSpec ==
  /\ MCInit /\ [][MCNext]_all
  /\ WF_all(Watch(Loop)) /\ WF_all(Watch(Time))
  /\ WF_all(Watch(Bump /\ UNCHANGED loop)) /\ WF_all(Watch(Listen(Listener) /\ UNCHANGED loop))
  /\ WF_all(Exchange1)
=============================================================================
