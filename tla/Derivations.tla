---------------------------- MODULE Derivations ----------------------------
(* The hub's derivation engine (worker/src/derive.js): a derived cell is filled  *)
(* by an outside endpoint, which several invocations (a push, a sweep, a direct  *)
(* request) may call for the same row while clients edit it.  The row has an     *)
(* input `x`, a cell `y` derived from x and a cell `z` derived from y.           *)
(*                                                                               *)
(* An answer is named by the inputs it answers.  A refused value, a reply without *)
(* the column and a failed call write nothing and are one outcome.               *)
EXTENDS Integers

CONSTANTS
  Inputs,        \* what the input cell can hold
  Invocations,   \* concurrent invocations of the Worker
  ClockSkew,     \* how far a client's clock may be ahead of the hub's
  MaxTime,       \* bound on the hub's clock
  MaxUpdates     \* bound on what clients write

ASSUME DerivationConstants == ClockSkew \in Nat /\ MaxTime \in Nat \ {0} /\ MaxUpdates \in Nat

Empty == "empty"
Blank == "blank"                   \* the answer to an empty input
DerivedCells == {"y", "z"}
CellValues == Inputs \cup {Empty, Blank}
Source(c) == IF c = "y" THEN "x" ELSE "y"
Answer(input) == IF input = Empty THEN Blank ELSE input

\* Revisions may run ahead of the hub's clock, and one past it.
Times == 0 .. MaxTime + ClockSkew + MaxUpdates

VARIABLES
  row,          \* the hub's row: its cells, its revision and its arrival time
  proof,        \* proof[c]: the live provenance record of a derived cell
  calls,        \* calls[i]: what an invocation is doing
  cooldown,     \* cooldown[c]: no call to this cell's endpoint before that time
  time,         \* the hub's clock
  copy,         \* a client's copy of the row
  fresh,        \* the client has pulled the hub's last arrival
  updates,      \* writes of clients so far
  edited,       \* the copy holds an edit the hub has not accepted
  setBack       \* a derivation lowered the row's revision

derivationVars == <<row, proof, calls, cooldown, time, copy, fresh, updates, edited, setBack>>

HubRow == [x : CellValues, y : CellValues, z : CellValues, rev : Times, at : Times]
NoProof == [inputs |-> Empty, at |-> 0, live |-> FALSE]
NoCall == [cell |-> "y", seen |-> [x |-> Empty, y |-> Empty, z |-> Empty, rev |-> 0, at |-> 0],
         at |-> 0, step |-> "idle"]

DerivationTypeOK ==
  /\ row \in HubRow /\ copy \in HubRow
  /\ proof \in [DerivedCells -> [inputs : CellValues, at : Times, live : BOOLEAN]]
  /\ calls \in [Invocations -> [cell : DerivedCells, seen : HubRow, at : Times,
                                step : {"idle", "calling"}]]
  /\ cooldown \in [DerivedCells -> 0 .. MaxTime]
  /\ time \in 1 .. MaxTime /\ updates \in 0 .. MaxUpdates
  /\ fresh \in BOOLEAN /\ edited \in BOOLEAN /\ setBack \in BOOLEAN

DerivationInit ==
  /\ \E v \in Inputs : row = [x |-> v, y |-> Empty, z |-> Empty, rev |-> 0, at |-> 0]
  /\ proof = [c \in DerivedCells |-> NoProof]
  /\ calls = [i \in Invocations |-> NoCall]
  /\ cooldown = [c \in DerivedCells |-> 0]
  /\ time = 1 /\ copy = row /\ fresh = TRUE /\ updates = 0
  /\ edited = FALSE /\ setBack = FALSE

(***************************************************************************)
(* What needs a derivation                                                 *)
(***************************************************************************)
\* staleWork: no live record, or one for other inputs.
StaleCell(c) == ~proof[c].live \/ proof[c].inputs # row[Source(c)]

\* candidates: the prefilter of the sweep, before it hashes anything.
Prefiltered(c) == ~proof[c].live \/ row.rev > proof[c].at

(***************************************************************************)
(* One derivation: read, call, commit                                      *)
(***************************************************************************)
\* deriveRows reads the row and calls the endpoint, unless it asked for a pause.
Call(i, c) ==
  /\ calls[i].step = "idle"
  /\ cooldown[c] <= time
  /\ calls' = [calls EXCEPT ![i] = [cell |-> c, seen |-> row, at |-> time, step |-> "calling"]]
  /\ UNCHANGED <<row, proof, cooldown, time, copy, fresh, updates, edited, setBack>>

\* Who asks for a cell: the sweep for what its filter finds, a push for what is
\* stale, a client for the revision it displays, and soma derive for any.
SweepCall(i, c) == Prefiltered(c) /\ StaleCell(c) /\ Call(i, c)
PushCall(i, c) == StaleCell(c) /\ Call(i, c)
ResolveCall(i, c) == copy.rev = row.rev /\ Call(i, c)
DeriveCall(i, c) == Call(i, c)

\* The end of the pause a refusing endpoint asks for: none, or here a tick.
RetryAfter == {0, time + 1}

\* The call failed or gave nothing to store; the latest end of a pause stands.
Refused(i) == \E until \in RetryAfter :
  /\ calls[i].step = "calling" /\ until <= MaxTime
  /\ calls' = [calls EXCEPT ![i] = NoCall]
  /\ cooldown' = [cooldown EXCEPT ![calls[i].cell] = IF until > @ THEN until ELSE @]
  /\ UNCHANGED <<row, proof, time, copy, fresh, updates, edited, setBack>>

\* Mutant: the revision is left alone.
MutRestamped == row.rev

\* The revision a derivation gives the row.
Restamped == time

\* The row it answered still stands.
Untouched(i) == row = calls[i].seen

\* The answer came, at least a tick later: the cell, its record and the arrival
\* are one batch, which fails when the row is not the one that was read.
CommitAnswer(i) ==
  /\ calls[i].step = "calling" /\ time > calls[i].at
  /\ calls' = [calls EXCEPT ![i] = NoCall]
  /\ IF Untouched(i)
       THEN LET c == calls[i].cell  input == calls[i].seen[Source(c)] IN
            /\ row' = [row EXCEPT ![c] = Answer(input), !.rev = Restamped, !.at = time]
            /\ proof' = [proof EXCEPT ![c] = [inputs |-> input, at |-> time, live |-> TRUE]]
            /\ fresh' = FALSE
            /\ setBack' = (setBack \/ Restamped <= row.rev)
       ELSE UNCHANGED <<row, proof, fresh, setBack>>
  /\ UNCHANGED <<cooldown, time, copy, updates, edited>>

(***************************************************************************)
(* Clients                                                                 *)
(***************************************************************************)
\* The client edits its copy: its clock is near the hub's, and the revision new.
ClientEdit == \E v \in Inputs, clock \in time .. time + ClockSkew :
  /\ updates < MaxUpdates /\ v # copy.x
  /\ updates' = updates + 1 /\ edited' = TRUE
  /\ copy' = [copy EXCEPT !.x = v, !.rev = IF clock > @ THEN clock ELSE @ + 1]
  /\ UNCHANGED <<row, proof, calls, cooldown, time, fresh, setBack>>

\* A pushed derived cell needs the record of its value and of the pushed inputs.
Backed(pushed) == \A c \in DerivedCells :
  pushed[c] # row[c] =>
    /\ proof[c].live /\ proof[c].inputs = pushed[Source(c)]
    /\ pushed[c] = Answer(proof[c].inputs)

ClientPush ==
  /\ copy.rev > row.rev /\ Backed(copy)
  /\ row' = [copy EXCEPT !.at = time] /\ fresh' = TRUE /\ edited' = FALSE /\ setBack' = FALSE
  /\ UNCHANGED <<proof, calls, cooldown, time, copy, updates>>

\* The client merges the arrival: only a newer revision replaces its copy.
ClientPull ==
  /\ ~fresh
  /\ fresh' = TRUE
  /\ IF row.rev > copy.rev
       THEN copy' = row /\ edited' = FALSE /\ setBack' = FALSE
       ELSE UNCHANGED <<copy, edited, setBack>>
  /\ UNCHANGED <<row, proof, calls, cooldown, time, updates>>

\* Another program patches the row on the hub.
Patch == \E v \in Inputs :
  /\ updates < MaxUpdates /\ v # row.x
  /\ updates' = updates + 1
  /\ row' = [row EXCEPT !.x = v, !.rev = IF time > @ THEN time ELSE @ + 1, !.at = time]
  /\ fresh' = FALSE
  /\ UNCHANGED <<proof, calls, cooldown, time, copy, edited, setBack>>

Tick ==
  /\ time < MaxTime
  /\ time' = time + 1
  /\ UNCHANGED <<row, proof, calls, cooldown, copy, fresh, updates, edited, setBack>>

DerivationNext ==
  \/ \E i \in Invocations :
       \/ \E c \in DerivedCells :
            SweepCall(i, c) \/ PushCall(i, c) \/ ResolveCall(i, c) \/ DeriveCall(i, c)
       \/ Refused(i) \/ CommitAnswer(i)
  \/ ClientEdit \/ ClientPush \/ ClientPull \/ Patch \/ Tick

DerivationSpec == DerivationInit /\ [][DerivationNext]_derivationVars

(***************************************************************************)
(* What it promises                                                        *)
(***************************************************************************)
\* A record of the row's inputs vouches for the very cell it is about.
Vouched ==
  \A c \in DerivedCells : proof[c].live /\ proof[c].inputs = row[Source(c)]
                       => row[c] = Answer(row[Source(c)])

\* The sweep's cheap filter on revisions hides no cell that is stale.
SweepFinds == \A c \in DerivedCells : StaleCell(c) => Prefiltered(c)

\* A client that has pulled the last arrival and has no edit of its own holds the
\* hub's row, unless a derivation set the revision back (it takes the hub's time
\* even when the row is ahead of it): a copy with the newer revision stays as it is.
Arrives == fresh /\ ~edited /\ ~setBack => copy = [row EXCEPT !.at = copy.at]

\* What overlapping derivations, edits and patches leave is backed by its record,
\* found again when it is stale, and reaches the clients (derive.js).
DerivationsSound == DerivationTypeOK /\ Vouched /\ SweepFinds /\ Arrives
=============================================================================
