----------------------------- MODULE MCReplica -----------------------------
(* A small instance of what must not get lost in a replica, in parts that share   *)
(* no state; a behaviour is one of them, chosen at the start: a row the Python     *)
(* client owes the hub, the core client's search index, and its restores.         *)
EXTENDS SomaSync, SearchIndex, Restores

CONSTANTS t1, t2, t3, r11, r12, r21

MCTableOf == [r \in Rows |-> IF r = r21 THEN t2 ELSE t1]

VARIABLE part

all == <<part, vars, searchVars, restoreVars>>

MCInit ==
  /\ Init /\ SearchInit /\ RestoreInit
  /\ part \in {"sync", "search", "restore"}
  /\ part = "sync" \/ ~st.bound
  /\ part = "search" \/ wanted = {}

MCNext ==
  /\ part' = part
  /\ \/ part = "sync" /\ Next /\ UNCHANGED <<searchVars, restoreVars>>
     \/ part = "search" /\ SearchNext /\ UNCHANGED <<vars, restoreVars>>
     \/ part = "restore" /\ RestoreNext /\ UNCHANGED <<vars, searchVars>>

MCSpec == MCInit /\ [][MCNext]_all
=============================================================================
