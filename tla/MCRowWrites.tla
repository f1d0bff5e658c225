--------------------------- MODULE MCRowWrites ---------------------------
(* A small instance for TLC of what rows go through when they are written: the   *)
(* hub's checked writes and its derivations, and the core client's own writes.   *)
(* They share no state, so a behaviour is one of them: which, is chosen at the   *)
(* start.  Of the checked writes, `batch` sends batches of three rows that       *)
(* contend for the exclusive contents, `single` writes that interfere.           *)
EXTENDS CheckedWrite, Derivations, LocalWrites

CONSTANTS i1, i2, i3, x, y, d, batch, single

Write(i, rev, a, b) == [id |-> i, rev |-> rev, a |-> a, b |-> b]

\* Two rows want x; the derived value of the third may lack its record.
Fresh == <<Write(i1, 1, x, Keep), Write(i2, 1, x, Keep), Write(i3, 1, y, d)>>

\* The second row would take x before the first gives it up.
Later == <<Write(i2, 2, x, Keep), Write(i1, 2, Gone, Keep), Write(i3, 2, Keep, d)>>

Request(kind, rows, guard) == [kind |-> kind, rows |-> rows, expected |-> guard]

MCOffers ==
  [r \in Reqs |->
     IF r = batch
     THEN {Request(kind, Fresh, 0) : kind \in {"push", "history", "insert"}}
            \cup {Request(kind, Later, 0) : kind \in {"push", "history"}}
     ELSE {Request("push", <<Write(i2, 2, y, Keep)>>, 0),
           Request("patch", <<Write(i3, 2, x, Keep)>>, 1),
           Request("patch", <<Write(i3, 3, Keep, d)>>, 1)}]

VARIABLE part

all == <<part, vars, derivationVars, localVars>>

MCInit ==
  /\ Init /\ DerivationInit /\ LocalInit /\ part \in {"hub", "derivation", "client"}
  /\ part = "derivation" \/ row.x = CHOOSE v \in Inputs : TRUE

MCNext ==
  /\ part' = part
  /\ \/ part = "hub" /\ Next /\ UNCHANGED <<derivationVars, localVars>>
     \/ part = "derivation" /\ DerivationNext /\ UNCHANGED <<vars, localVars>>
     \/ part = "client" /\ LocalNext /\ UNCHANGED <<vars, derivationVars>>

MCSpec == MCInit /\ [][MCNext]_all
=============================================================================
