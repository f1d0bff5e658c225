------------------------------ MODULE RowProofs ------------------------------
(***************************************************************************)
(* What becomes of a row's contents: a derived cell is the answer its record    *)
(* vouches for, an undo finds what its write left, the search index holds the   *)
(* text of every row once its step is done, the hub's checked writes keep its   *)
(* rules and answer exactly, as if the rows had come one by one, and a restore  *)
(* loses nothing that its recovery file or the hub cannot give back.  Each part *)
(* has its inductive invariant, the steps that keep it, and the properties as   *)
(* theorems of its specification.                                               *)
(***************************************************************************)
EXTENDS CheckedWrite, Restores, Derivations, LocalWrites, SearchIndex, FiniteSetTheorems, SequenceTheorems, WellFoundedInduction, TLAPS

-----------------------------------------------------------------------------
(* Derivations *)

\* The row's revision and the copy's leave room for the writes that may come.
Dated == row.rev <= MaxTime + ClockSkew + updates /\ copy.rev <= MaxTime + ClockSkew + updates

\* What is on record is the cell, whatever its inputs have become, and no record is
\* newer than the row.
RecordFits(c) ==
  /\ proof[c].live => row[c] = Answer(proof[c].inputs) /\ proof[c].at <= row.at /\ proof[c].at <= row.rev
  /\ proof[c].live /\ proof[c].inputs # row[Source(c)] => proof[c].at < row.rev

\* What an invocation saw had arrived before it called.
CallFits(i) == calls[i].step = "calling" => calls[i].seen.at <= calls[i].at

\* A copy without an edit of its own is the hub's row, or older and still to be pulled.
CopyFits == ~edited /\ ~setBack => \/ copy = [row EXCEPT !.at = copy.at]
                                   \/ ~fresh /\ copy.rev < row.rev

DerivationInv ==
  /\ DerivationTypeOK /\ Dated /\ row.at <= time
  /\ \A c \in DerivedCells : RecordFits(c)
  /\ \A i \in Invocations : CallFits(i)
  /\ CopyFits

\* The arithmetic of the clocks.
LEMMA DerivationTimes ==
  ASSUME DerivationTypeOK
  PROVE  /\ MaxTime \in Nat /\ ClockSkew \in Nat /\ MaxUpdates \in Nat /\ Times = 0 .. MaxTime + ClockSkew + MaxUpdates
         /\ time \in 1 .. MaxTime /\ time \in Nat /\ updates \in 0 .. MaxUpdates /\ updates \in Nat
         /\ row.rev \in Nat /\ row.at \in Nat /\ copy.rev \in Nat /\ copy.at \in Nat
         /\ \A c \in DerivedCells : proof[c].at \in Nat
         /\ \A i \in Invocations : calls[i].at \in Nat /\ calls[i].seen.at \in Nat
<1>1. MaxTime \in Nat /\ ClockSkew \in Nat /\ MaxUpdates \in Nat
  BY DerivationConstants
<1>2. Times \subseteq Nat
  BY <1>1 DEF Times
<1>3. time \in Nat /\ updates \in Nat
  BY <1>1 DEF DerivationTypeOK
<1>4. row.rev \in Times /\ row.at \in Times /\ copy.rev \in Times /\ copy.at \in Times
  BY DEF DerivationTypeOK, HubRow
<1>5. \A c \in DerivedCells : proof[c].at \in Times
  BY DEF DerivationTypeOK
<1>6. \A i \in Invocations : calls[i].at \in Times /\ calls[i].seen.at \in Times
  BY DEF DerivationTypeOK, HubRow
<1> QED BY <1>1, <1>2, <1>3, <1>4, <1>5, <1>6 DEF DerivationTypeOK, Times

LEMMA SourceCells ==
  /\ Source("y") = "x" /\ Source("z") = "y" /\ DerivedCells = {"y", "z"}
  /\ \A v \in CellValues : Answer(v) \in CellValues
BY DEF Source, DerivedCells, Answer, CellValues

LEMMA DerivationStarts == DerivationInit => DerivationInv
<1> SUFFICES ASSUME DerivationInit PROVE DerivationInv
  OBVIOUS
<1>1. PICK v \in Inputs : row = [x |-> v, y |-> Empty, z |-> Empty, rev |-> 0, at |-> 0]
  BY DEF DerivationInit
<1>2. 0 \in Times /\ MaxTime + ClockSkew + updates >= 0 /\ 1 \in 1 .. MaxTime /\ 0 \in 0 .. MaxTime /\ 0 \in 0 .. MaxUpdates
  BY DerivationConstants DEF Times, DerivationInit
<1>3. row \in HubRow /\ row.rev = 0 /\ row.at = 0
  BY <1>1, <1>2 DEF HubRow, CellValues
<1>4. NoCall \in [cell : DerivedCells, seen : HubRow, at : Times, step : {"idle", "calling"}]
  BY <1>2 DEF NoCall, HubRow, DerivedCells, CellValues
<1>5. NoProof \in [inputs : CellValues, at : Times, live : BOOLEAN]
  BY <1>2 DEF NoProof, CellValues
<1>6. DerivationTypeOK
  BY <1>2, <1>3, <1>4, <1>5 DEF DerivationInit, DerivationTypeOK
<1>7. Dated /\ row.at <= time
  BY <1>2, <1>3 DEF Dated, DerivationInit
<1>8. \A c \in DerivedCells : RecordFits(c)
  BY DEF RecordFits, DerivationInit, NoProof
<1>9. \A i \in Invocations : CallFits(i)
  BY DEF CallFits, DerivationInit, NoCall
<1>10. CopyFits
  BY <1>1 DEF CopyFits, DerivationInit
<1> QED BY <1>6, <1>7, <1>8, <1>9, <1>10 DEF DerivationInv

\* An invocation reads the row and calls.
LEMMA CallKeeps ==
  ASSUME DerivationInv, NEW i \in Invocations, NEW c \in DerivedCells, Call(i, c)
  PROVE  DerivationInv'
<1> DEFINE call == [cell |-> c, seen |-> row, at |-> time, step |-> "calling"]
<1>0. DerivationTypeOK /\ row.at <= time
  BY DEF DerivationInv
<1>1. /\ calls' = [calls EXCEPT ![i] = call]
      /\ UNCHANGED <<row, proof, cooldown, time, copy, fresh, updates, edited, setBack>>
  BY DEF Call
<1>2. time \in Times
  BY <1>0, DerivationTimes
<1>3. call \in [cell : DerivedCells, seen : HubRow, at : Times, step : {"idle", "calling"}]
  BY <1>0, <1>2 DEF DerivationTypeOK
<1>4. DerivationTypeOK'
  BY <1>0, <1>1, <1>3 DEF DerivationTypeOK, HubRow, Times
<1>5. \A k \in Invocations : CallFits(k)'
  <2> SUFFICES ASSUME NEW k \in Invocations PROVE CallFits(k)'
    OBVIOUS
  <2>1. CASE k = i
    <3>1. calls'[k] = call
      BY <2>1, <1>0, <1>1 DEF DerivationTypeOK
    <3> QED BY <3>1, <1>0 DEF CallFits
  <2>2. CASE k # i
    <3>1. calls'[k] = calls[k] /\ CallFits(k)
      BY <2>2, <1>0, <1>1 DEF DerivationTypeOK, DerivationInv
    <3> QED BY <3>1 DEF CallFits
  <2> QED BY <2>1, <2>2
<1>6. \A d \in DerivedCells : RecordFits(d)'
  BY <1>1 DEF DerivationInv, RecordFits
<1>7. (Dated /\ row.at <= time /\ CopyFits)'
  BY <1>1 DEF DerivationInv, Dated, CopyFits
<1> QED BY <1>4, <1>5, <1>6, <1>7 DEF DerivationInv

\* A call that gave nothing.
LEMMA RefusedKeeps ==
  ASSUME DerivationInv, NEW i \in Invocations, Refused(i)
  PROVE  DerivationInv'
<1>0. DerivationTypeOK
  BY DEF DerivationInv
<1>1. PICK until \in RetryAfter :
        /\ until <= MaxTime
        /\ calls' = [calls EXCEPT ![i] = NoCall]
        /\ cooldown' = [cooldown EXCEPT ![calls[i].cell] = IF until > @ THEN until ELSE @]
        /\ UNCHANGED <<row, proof, time, copy, fresh, updates, edited, setBack>>
  BY DEF Refused
<1>2. until \in 0 .. MaxTime
  <2>1. until \in Nat /\ MaxTime \in Nat
    BY <1>0, DerivationTimes DEF RetryAfter
  <2> QED BY <1>1, <2>1
<1>3. NoCall \in [cell : DerivedCells, seen : HubRow, at : Times, step : {"idle", "calling"}]
  <2>1. 0 \in Times
    BY <1>0, DerivationTimes
  <2> QED BY <2>1 DEF NoCall, HubRow, DerivedCells, CellValues
<1>4. cooldown' \in [DerivedCells -> 0 .. MaxTime]
  BY <1>0, <1>1, <1>2 DEF DerivationTypeOK
<1>5. DerivationTypeOK'
  BY <1>0, <1>1, <1>3, <1>4 DEF DerivationTypeOK, HubRow, Times
<1>6. \A k \in Invocations : CallFits(k)'
  <2> SUFFICES ASSUME NEW k \in Invocations PROVE CallFits(k)'
    OBVIOUS
  <2>1. CASE k = i
    <3>1. calls'[k].step = "idle"
      BY <2>1, <1>0, <1>1 DEF DerivationTypeOK, NoCall
    <3> QED BY <3>1 DEF CallFits
  <2>2. CASE k # i
    <3>1. calls'[k] = calls[k] /\ CallFits(k)
      BY <2>2, <1>0, <1>1 DEF DerivationTypeOK, DerivationInv
    <3> QED BY <3>1 DEF CallFits
  <2> QED BY <2>1, <2>2
<1>7. \A d \in DerivedCells : RecordFits(d)'
  BY <1>1 DEF DerivationInv, RecordFits
<1>8. (Dated /\ row.at <= time /\ CopyFits)'
  BY <1>1 DEF DerivationInv, Dated, CopyFits
<1> QED BY <1>5, <1>6, <1>7, <1>8 DEF DerivationInv

\* The answer's batch, on a row that still stands or on none.
LEMMA CommitKeeps ==
  ASSUME DerivationInv, NEW i \in Invocations, CommitAnswer(i)
  PROVE  DerivationInv'
<1>0. DerivationTypeOK
  BY DEF DerivationInv
<1> USE DerivationTimes, <1>0
<1>1. /\ calls[i].step = "calling" /\ time > calls[i].at
      /\ calls' = [calls EXCEPT ![i] = NoCall]
      /\ UNCHANGED <<cooldown, time, copy, updates, edited>>
  BY DEF CommitAnswer
<1>2. NoCall \in [cell : DerivedCells, seen : HubRow, at : Times, step : {"idle", "calling"}]
  <2>1. 0 \in Times
    OBVIOUS
  <2> QED BY <2>1 DEF NoCall, HubRow, DerivedCells, CellValues
<1>3. calls' \in [Invocations -> [cell : DerivedCells, seen : HubRow, at : Times, step : {"idle", "calling"}]]
  BY <1>1, <1>2 DEF DerivationTypeOK
<1>4. \A k \in Invocations : CallFits(k)'
  <2> SUFFICES ASSUME NEW k \in Invocations PROVE CallFits(k)'
    OBVIOUS
  <2>1. CASE k = i
    <3>1. calls'[k].step = "idle"
      BY <2>1, <1>1 DEF DerivationTypeOK, NoCall
    <3> QED BY <3>1 DEF CallFits
  <2>2. CASE k # i
    <3>1. calls'[k] = calls[k] /\ CallFits(k)
      BY <2>2, <1>1 DEF DerivationTypeOK, DerivationInv
    <3> QED BY <3>1 DEF CallFits
  <2> QED BY <2>1, <2>2
<1>5. CASE ~Untouched(i)
  <2>1. UNCHANGED <<row, proof, fresh, setBack>>
    BY <1>5 DEF CommitAnswer
  <2>2. DerivationTypeOK'
    BY <2>1, <1>1, <1>3 DEF DerivationTypeOK, HubRow, Times
  <2>3. \A d \in DerivedCells : RecordFits(d)'
    BY <2>1 DEF DerivationInv, RecordFits
  <2>4. (Dated /\ row.at <= time /\ CopyFits)'
    BY <2>1, <1>1 DEF DerivationInv, Dated, CopyFits
  <2> QED BY <1>4, <2>2, <2>3, <2>4 DEF DerivationInv
<1>6. CASE Untouched(i)
  <2> DEFINE c == calls[i].cell
             input == row[Source(c)]
  <2>1. row = calls[i].seen /\ c \in DerivedCells /\ row.at < time
    <3>1. row = calls[i].seen /\ calls[i].seen.at <= calls[i].at
      BY <1>6, <1>1 DEF Untouched, DerivationInv, CallFits
    <3>2. c \in DerivedCells
      BY DEF DerivationTypeOK
    <3> QED BY <3>1, <3>2, <1>1
  <2>2. /\ row' = [row EXCEPT ![c] = Answer(input), !.rev = time, !.at = time]
        /\ proof' = [proof EXCEPT ![c] = [inputs |-> input, at |-> time, live |-> TRUE]]
        /\ fresh' = FALSE /\ setBack' = (setBack \/ time <= row.rev)
    BY <1>6, <2>1 DEF CommitAnswer, Restamped
  <2>3. c \in {"y", "z"} /\ Source(c) \in {"x", "y"} /\ Source(c) # c /\ row \in HubRow
    BY <2>1 DEF DerivedCells, Source, DerivationTypeOK
  <2> HIDE DEF c
  <2>4. input \in CellValues /\ Answer(input) \in CellValues
    BY <2>3, SourceCells DEF HubRow
  <2> HIDE DEF input
  <2>5. /\ row' \in HubRow /\ row'.rev = time /\ row'.at = time /\ row'[c] = Answer(input)
        /\ row'[Source(c)] = row[Source(c)]
        /\ row'.x = row.x
        /\ \A d \in DerivedCells \ {c} : row'[d] = row[d]
    <3>1. time \in Times
      OBVIOUS
    <3>2. CASE c = "y"
      <4>1. row' = [x |-> row.x, y |-> Answer(input), z |-> row.z, rev |-> time, at |-> time]
        BY <2>2, <2>3, <3>2 DEF HubRow
      <4> QED BY <4>1, <3>1, <3>2, <2>3, <2>4 DEF HubRow, DerivedCells, Source
    <3>3. CASE c = "z"
      <4>1. row' = [x |-> row.x, y |-> row.y, z |-> Answer(input), rev |-> time, at |-> time]
        BY <2>2, <2>3, <3>3 DEF HubRow
      <4> QED BY <4>1, <3>1, <3>3, <2>3, <2>4 DEF HubRow, DerivedCells, Source
    <3> QED BY <3>2, <3>3, <2>3
  <2>6. proof' \in [DerivedCells -> [inputs : CellValues, at : Times, live : BOOLEAN]]
    <3>1. time \in Times
      OBVIOUS
    <3> QED BY <3>1, <2>2, <2>4 DEF DerivationTypeOK
  <2>7. DerivationTypeOK'
    BY <2>5, <2>6, <2>2, <1>1, <1>3 DEF DerivationTypeOK, HubRow, Times
  <2>8. \A d \in DerivedCells : RecordFits(d)'
    <3> SUFFICES ASSUME NEW d \in DerivedCells PROVE RecordFits(d)'
      OBVIOUS
    <3>1. CASE d = c
      <4>1. proof'[d] = [inputs |-> input, at |-> time, live |-> TRUE]
        BY <2>2, <3>1 DEF DerivationTypeOK
      <4>2. row'[Source(d)] = input /\ row'[d] = Answer(input)
        BY <2>5, <3>1 DEF input
      <4> QED BY <4>1, <4>2, <2>5 DEF RecordFits
    <3>2. CASE d # c
      <4>1. proof'[d] = proof[d] /\ row'[d] = row[d] /\ RecordFits(d)
        BY <2>2, <2>5, <3>2 DEF DerivationTypeOK, DerivationInv
      <4>2. proof[d].live => proof[d].at < time
        BY <4>1, <2>1 DEF RecordFits
      <4> QED BY <4>1, <4>2, <2>5 DEF RecordFits
    <3> QED BY <3>1, <3>2
  <2>9. Dated'
    BY <2>5, <1>1 DEF DerivationInv, Dated
  <2>10. (row.at <= time)'
    BY <2>5, <1>1
  <2>11. CopyFits'
    <3>1. ASSUME ~edited', ~setBack' PROVE copy.rev < time
      <4>1. ~edited /\ ~setBack /\ ~(time <= row.rev)
        BY <3>1, <2>2, <1>1
      <4>2. copy.rev <= row.rev
        BY <4>1, <2>3 DEF DerivationInv, CopyFits, HubRow
      <4> QED BY <4>1, <4>2
    <3>2. ~fresh' /\ copy' = copy /\ row'.rev = time
      BY <2>2, <2>5, <1>1
    <3> QED BY <3>1, <3>2 DEF CopyFits
  <2> QED BY <1>4, <2>7, <2>8, <2>9, <2>10, <2>11 DEF DerivationInv
<1> QED BY <1>5, <1>6

\* A client's edit leaves the hub alone.
LEMMA EditKeeps ==
  ASSUME DerivationInv, ClientEdit
  PROVE  DerivationInv'
<1>0. DerivationTypeOK
  BY DEF DerivationInv
<1> USE DerivationTimes, <1>0
<1>1. PICK v \in Inputs, clock \in time .. time + ClockSkew :
        /\ updates < MaxUpdates
        /\ updates' = updates + 1 /\ edited' = TRUE
        /\ copy' = [copy EXCEPT !.x = v, !.rev = IF clock > @ THEN clock ELSE @ + 1]
        /\ UNCHANGED <<row, proof, calls, cooldown, time, fresh, setBack>>
  BY DEF ClientEdit
<1>2. clock \in Nat /\ clock <= MaxTime + ClockSkew
  BY <1>1
<1>3. copy'.rev \in Nat /\ copy'.rev <= MaxTime + ClockSkew + updates'
  <2>1. copy'.rev = IF clock > copy.rev THEN clock ELSE copy.rev + 1
    BY <1>1 DEF DerivationTypeOK, HubRow
  <2>2. copy.rev <= MaxTime + ClockSkew + updates
    BY DEF DerivationInv, Dated
  <2>3. /\ copy.rev \in Nat /\ updates \in Nat /\ MaxTime \in Nat /\ ClockSkew \in Nat
        /\ updates' = updates + 1
    BY <1>1
  <2>4. CASE clock > copy.rev
    <3>1. copy'.rev = clock
      BY <2>1, <2>4
    <3> QED BY <3>1, <2>3, <1>2
  <2>5. CASE ~(clock > copy.rev)
    <3>1. copy'.rev = copy.rev + 1
      BY <2>1, <2>5
    <3> QED BY SMTT(30), <3>1, <2>2, <2>3
  <2> QED BY <2>4, <2>5
<1>4. updates' \in 0 .. MaxUpdates /\ updates' \in Nat
  BY <1>1
<1>5. copy'.rev \in Times
  BY <1>3, <1>4
<1>6. copy' \in HubRow
  <2>1. copy \in HubRow /\ v \in CellValues
    BY DEF DerivationTypeOK, CellValues
  <2> QED BY <2>1, <1>1, <1>5 DEF HubRow
<1>7. DerivationTypeOK'
  BY <1>1, <1>4, <1>6 DEF DerivationTypeOK, HubRow, Times
<1>8. Dated'
  BY SMTT(30), <1>1, <1>3, <1>4 DEF DerivationInv, Dated
<1>9. (row.at <= time)' /\ \A c \in DerivedCells : RecordFits(c)'
  BY <1>1 DEF DerivationInv, RecordFits
<1>10. CopyFits' /\ \A i \in Invocations : CallFits(i)'
  BY <1>1 DEF DerivationInv, CallFits, CopyFits
<1> QED BY <1>7, <1>8, <1>9, <1>10 DEF DerivationInv

\* A push replaces the row by a newer one whose derived cells are backed.
LEMMA PushKeeps ==
  ASSUME DerivationInv, ClientPush
  PROVE  DerivationInv'
<1>0. DerivationTypeOK
  BY DEF DerivationInv
<1> USE DerivationTimes, <1>0
<1>1. /\ copy.rev > row.rev /\ Backed(copy)
      /\ row' = [copy EXCEPT !.at = time] /\ fresh' = TRUE /\ edited' = FALSE /\ setBack' = FALSE
      /\ UNCHANGED <<proof, calls, cooldown, time, copy, updates>>
  BY DEF ClientPush
<1>2. /\ row' = [x |-> copy.x, y |-> copy.y, z |-> copy.z, rev |-> copy.rev, at |-> time]
      /\ copy \in HubRow /\ row' \in HubRow
  <2>1. copy \in HubRow /\ time \in Times
    BY DEF DerivationTypeOK
  <2> QED BY <2>1, <1>1 DEF HubRow
<1>3. DerivationTypeOK'
  BY <1>1, <1>2 DEF DerivationTypeOK, HubRow, Times
<1>4. Dated' /\ (row.at <= time)'
  BY <1>1, <1>2 DEF DerivationInv, Dated
<1>5. \A c \in DerivedCells : RecordFits(c)'
  <2> SUFFICES ASSUME NEW c \in DerivedCells, proof[c].live
               PROVE  row'[c] = Answer(proof[c].inputs) /\ proof[c].at <= time /\ proof[c].at < copy.rev
    BY <1>1, <1>2 DEF RecordFits
  <2>1. RecordFits(c) /\ row.at <= time
    BY DEF DerivationInv
  <2>2. row'[c] = copy[c]
    BY <1>2 DEF DerivedCells
  <2>3. row'[c] = Answer(proof[c].inputs)
    BY <2>1, <2>2, <1>1 DEF RecordFits, Backed
  <2> QED BY <2>1, <2>3, <1>1 DEF RecordFits
<1>6. \A i \in Invocations : CallFits(i)'
  BY <1>1 DEF DerivationInv, CallFits
<1>7. CopyFits'
  BY <1>1, <1>2 DEF CopyFits, HubRow
<1> QED BY <1>3, <1>4, <1>5, <1>6, <1>7 DEF DerivationInv

\* A pull takes the row when it is newer.
LEMMA PullKeeps ==
  ASSUME DerivationInv, ClientPull
  PROVE  DerivationInv'
<1>0. DerivationTypeOK
  BY DEF DerivationInv
<1> USE DerivationTimes, <1>0
<1>1. /\ fresh' = TRUE
      /\ UNCHANGED <<row, proof, calls, cooldown, time, updates>>
      /\ \/ row.rev > copy.rev /\ copy' = row /\ edited' = FALSE /\ setBack' = FALSE
         \/ ~(row.rev > copy.rev) /\ UNCHANGED <<copy, edited, setBack>>
  BY DEF ClientPull
<1>2. DerivationTypeOK'
  BY <1>1 DEF DerivationTypeOK, HubRow, Times
<1>3. Dated' /\ (row.at <= time)'
  BY <1>1 DEF DerivationInv, Dated
<1>4. (\A c \in DerivedCells : RecordFits(c)') /\ \A i \in Invocations : CallFits(i)'
  BY <1>1 DEF DerivationInv, RecordFits, CallFits
<1>5. CopyFits'
  <2>1. row \in HubRow
    BY DEF DerivationTypeOK
  <2>2. row = [row EXCEPT !.at = row.at]
    BY <2>1 DEF HubRow
  <2> QED BY <2>2, <1>1 DEF DerivationInv, CopyFits
<1> QED BY <1>2, <1>3, <1>4, <1>5 DEF DerivationInv

\* A patch leaves the row newer than every record.
LEMMA PatchKeeps ==
  ASSUME DerivationInv, Patch
  PROVE  DerivationInv'
<1>0. DerivationTypeOK
  BY DEF DerivationInv
<1> USE DerivationTimes, <1>0
<1> DEFINE rev == IF time > row.rev THEN time ELSE row.rev + 1
<1>1. PICK v \in Inputs :
        /\ updates < MaxUpdates
        /\ updates' = updates + 1
        /\ row' = [row EXCEPT !.x = v, !.rev = rev, !.at = time]
        /\ fresh' = FALSE
        /\ UNCHANGED <<proof, calls, cooldown, time, copy, edited, setBack>>
  BY DEF Patch
<1>2. rev \in Nat /\ rev > row.rev /\ rev <= MaxTime + ClockSkew + updates'
  BY SMTT(30), <1>1 DEF DerivationInv, Dated
<1> HIDE DEF rev
<1>3. updates' \in 0 .. MaxUpdates /\ updates' \in Nat
  BY <1>1
<1>4. rev \in Times /\ time \in Times
  BY <1>2, <1>3
<1>5. /\ row' = [x |-> v, y |-> row.y, z |-> row.z, rev |-> rev, at |-> time]
      /\ row' \in HubRow /\ row \in HubRow
  <2>1. row \in HubRow /\ v \in CellValues
    BY DEF DerivationTypeOK, CellValues
  <2> QED BY <2>1, <1>1, <1>4 DEF HubRow
<1>6. DerivationTypeOK'
  BY <1>1, <1>3, <1>5 DEF DerivationTypeOK, HubRow, Times
<1>7. Dated' /\ (row.at <= time)'
  BY SMTT(30), <1>1, <1>2, <1>3, <1>5 DEF DerivationInv, Dated
<1>8. \A c \in DerivedCells : RecordFits(c)'
  <2> SUFFICES ASSUME NEW c \in DerivedCells, proof[c].live
               PROVE  row'[c] = Answer(proof[c].inputs) /\ proof[c].at <= time /\ proof[c].at < rev
    BY SMTT(30), <1>1, <1>2, <1>5 DEF RecordFits
  <2>1. RecordFits(c) /\ row.at <= time /\ row'[c] = row[c]
    BY <1>5 DEF DerivationInv, DerivedCells
  <2> QED BY SMTT(30), <2>1, <1>2 DEF RecordFits
<1>9. \A i \in Invocations : CallFits(i)'
  BY <1>1 DEF DerivationInv, CallFits
<1>10. CopyFits'
  <2> SUFFICES ASSUME ~edited, ~setBack PROVE copy.rev < rev
    BY <1>1, <1>5 DEF CopyFits
  <2>1. copy.rev <= row.rev
    BY <1>5 DEF DerivationInv, CopyFits, HubRow
  <2> QED BY <2>1, <1>2
<1> QED BY <1>6, <1>7, <1>8, <1>9, <1>10 DEF DerivationInv

LEMMA DerivationSteps == DerivationInv /\ [DerivationNext]_derivationVars => DerivationInv'
<1> SUFFICES ASSUME DerivationInv, [DerivationNext]_derivationVars PROVE DerivationInv'
  OBVIOUS
<1>1. CASE UNCHANGED derivationVars
  BY <1>1 DEF derivationVars, DerivationInv, DerivationTypeOK, HubRow, Times, Dated, RecordFits, CallFits, CopyFits
<1>2. ASSUME NEW i \in Invocations, NEW c \in DerivedCells,
             SweepCall(i, c) \/ PushCall(i, c) \/ ResolveCall(i, c) \/ DeriveCall(i, c)
      PROVE  DerivationInv'
  BY <1>2, CallKeeps DEF SweepCall, PushCall, ResolveCall, DeriveCall
<1>3. ASSUME NEW i \in Invocations, Refused(i) \/ CommitAnswer(i) PROVE DerivationInv'
  BY <1>3, RefusedKeeps, CommitKeeps
<1>4. CASE ClientEdit \/ ClientPush \/ ClientPull \/ Patch
  BY <1>4, EditKeeps, PushKeeps, PullKeeps, PatchKeeps
<1>5. CASE Tick
  <2>1. DerivationTypeOK
    BY DEF DerivationInv
  <2>2. time' = time + 1 /\ time < MaxTime /\ UNCHANGED <<row, proof, calls, cooldown, copy, fresh, updates, edited, setBack>>
    BY <1>5 DEF Tick
  <2>3. time' \in 1 .. MaxTime /\ time' >= time
    BY <2>1, <2>2, DerivationTimes
  <2>4. DerivationTypeOK'
    BY <2>1, <2>2, <2>3 DEF DerivationTypeOK, HubRow, Times
  <2>5. (row.at <= time)'
    BY <2>1, <2>2, <2>3, DerivationTimes DEF DerivationInv
  <2> QED BY <2>2, <2>4, <2>5 DEF DerivationInv, Dated, RecordFits, CallFits, CopyFits
<1> QED BY <1>1, <1>2, <1>3, <1>4, <1>5 DEF DerivationNext

\* Whatever overlapping derivations, edits, pushes and patches leave, a cell is the answer
\* its record vouches for, a stale cell passes the sweep's filter, and a client that has
\* pulled and has nothing of its own holds the hub's row unless a derivation set it back.
THEOREM DerivationIsSound == DerivationSpec => []DerivationsSound
<1>1. DerivationInv => DerivationsSound
  <2> SUFFICES ASSUME DerivationInv PROVE DerivationsSound
    OBVIOUS
  <2>1. DerivationTypeOK
    BY DEF DerivationInv
  <2>2. Vouched
    BY DEF DerivationInv, Vouched, RecordFits
  <2>3. SweepFinds
    BY <2>1, DerivationTimes DEF DerivationInv, SweepFinds, StaleCell, Prefiltered, RecordFits
  <2>4. Arrives
    BY DEF DerivationInv, Arrives, CopyFits
  <2> QED BY <2>1, <2>2, <2>3, <2>4 DEF DerivationsSound
<1> QED BY DerivationStarts, DerivationSteps, <1>1, PTL DEF DerivationSpec

-----------------------------------------------------------------------------
(* LocalWrites *)

\* A set of naturals has a least member: of the intervals from 0 up to one of
\* them, one contains no other.
LEMMA LeastNatural ==
  ASSUME NEW T \in SUBSET Nat, T # {}
  PROVE  \E m \in T : \A k \in T : m <= k
<1> DEFINE F == {0 .. m : m \in T}
<1>1. F \subseteq FiniteSubsetsOf(Nat)
  <2> SUFFICES ASSUME NEW m \in T PROVE 0 .. m \in FiniteSubsetsOf(Nat)
    OBVIOUS
  <2>1. IsFiniteSet(0 .. m)
    BY FS_Interval
  <2> QED BY <2>1 DEF FiniteSubsetsOf
<1>2. F # {}
  OBVIOUS
<1>3. IsWellFoundedOn(StrictSubsetOrdering(Nat), FiniteSubsetsOf(Nat))
  BY FS_StrictSubsetOrderingWellFounded
<1>4. PICK x \in F : \A y \in F : ~ (<<y, x>> \in StrictSubsetOrdering(Nat))
  <2> HIDE DEF F
  <2> QED BY <1>1, <1>2, <1>3, WFMin
<1>5. PICK m \in T : x = 0 .. m
  OBVIOUS
<1>6. ASSUME NEW k \in T, k < m PROVE FALSE
  <2>1. 0 .. k \in F /\ 0 .. k \subseteq 0 .. m /\ 0 .. k # 0 .. m
    BY <1>6
  <2>2. 0 .. k \in SUBSET Nat /\ 0 .. m \in SUBSET Nat
    OBVIOUS
  <2>3. <<0 .. k, 0 .. m>> \in StrictSubsetOrdering(Nat)
    <3> DEFINE low == 0 .. k
               high == 0 .. m
    <3>1. low \in SUBSET Nat /\ high \in SUBSET Nat /\ low \subseteq high /\ low # high
      BY <2>1, <2>2
    <3> HIDE DEF low, high
    <3>2. <<low, high>> \in StrictSubsetOrdering(Nat)
      BY <3>1 DEF StrictSubsetOrdering
    <3> QED BY <3>2 DEF low, high
  <2> QED BY <1>4, <1>5, <2>1, <2>3
<1> QED BY <1>6

\* So does one that is bounded have a last.
LEMMA GreatestBelow ==
  ASSUME NEW n \in Nat, NEW T \in SUBSET (1 .. n), T # {}
  PROVE  \E m \in T : \A k \in T : k <= m
<1> DEFINE D == {n - k : k \in T}
<1>1. D \subseteq Nat /\ D # {}
  <2>1. \A k \in T : k \in Nat /\ k <= n /\ n - k \in Nat
    OBVIOUS
  <2>2. D \subseteq Nat
    BY <2>1
  <2>3. PICK k \in T : TRUE
    OBVIOUS
  <2>4. n - k \in D
    OBVIOUS
  <2> QED BY <2>2, <2>4
<1>2. PICK d \in D : \A e \in D : d <= e
  <2> HIDE DEF D
  <2> QED BY <1>1, LeastNatural
<1>3. PICK m \in T : d = n - m
  BY <1>2
<1>4. ASSUME NEW k \in T PROVE k <= m
  <2>1. k \in 1 .. n /\ m \in 1 .. n /\ n - k \in D
    BY <1>3, <1>4
  <2>2. n - m <= n - k
    BY <2>1, <1>2, <1>3
  <2> QED BY <2>1, <2>2
<1> QED BY <1>4

\* A receipt names its write, and its baseline holds what the write left.
ReceiptFits(t) ==
  /\ t.kind = Kind(t.before, t.made)
  /\ t.after.cells = t.made.cells /\ t.after.trashed = t.made.trashed /\ t.after.rev > 0

\* The next receipt of the row was written on what a clean one left, and the newest
\* clean one is what is stored.
Chained(stack) ==
  \A i, j \in DOMAIN stack :
    /\ stack[i].row = stack[j].row /\ i < j /\ stack[i].clean
    /\ \A k \in DOMAIN stack : stack[k].row = stack[i].row => k <= i \/ k >= j
    => Matches(stack[i].after, stack[j].before)

IsNewest(stack, i) == \A j \in DOMAIN stack : stack[j].row = stack[i].row => j <= i

StackFits(stack, rows) ==
  /\ stack \in Seq(Receipt)
  /\ \A i \in DOMAIN stack : ReceiptFits(stack[i])
  /\ Chained(stack)
  /\ \A i \in DOMAIN stack :
       stack[i].clean /\ IsNewest(stack, i) => Matches(stack[i].after, rows[stack[i].row])

LocalInv ==
  /\ LocalTypeOK /\ now > 0
  /\ \A r \in WriteRows : stored[r].rev = 0 => stored[r].cells = NoCells
  /\ Accounted
  /\ StackFits(receipts, stored)

LEMMA MatchesMeans ==
  ASSUME NEW a \in LocalRow, NEW b \in LocalRow
  PROVE  Matches(a, b) <=> a.rev = b.rev /\ a.cells = b.cells /\ a.trashed = b.trashed
BY DEF Matches, LocalRow

LEMMA EditionsAreNaturals ==
  /\ MaxEdit \in Nat \ {0} /\ Skew \in Nat /\ Depth \in Nat \ {0} /\ Editions \subseteq Nat
  /\ 0 \in Editions /\ 1 \in Editions
BY WriteConstants DEF Editions

LEMMA SeqOfLength ==
  ASSUME NEW S, NEW n \in Nat, NEW s \in [1 .. n -> S]
  PROVE  s \in Seq(S) /\ Len(s) = n
<1>1. s \in Seq(S)
  BY SeqDef
<1> QED BY <1>1

LEMMA KindMeans ==
  ASSUME NEW a \in LocalRow, NEW b \in LocalRow
  PROVE  /\ Kind(a, b) \in {"create", "edit", "trash", "restore"}
         /\ Kind(a, b) = "create" <=> a.rev = 0
         /\ Kind(a, b) = "restore" => a.trashed
         /\ Kind(a, b) = "trash" => ~a.trashed
         /\ Kind(a, b) = "edit" => a.trashed = b.trashed
<1>1. a.trashed \in BOOLEAN /\ b.trashed \in BOOLEAN
  BY DEF LocalRow
<1>2. CASE a.rev = 0
  <2>1. Kind(a, b) = "create"
    BY <1>2 DEF Kind
  <2> QED BY <1>2, <2>1
<1>3. CASE a.rev # 0 /\ a.trashed /\ ~b.trashed
  <2>1. Kind(a, b) = "restore"
    BY <1>3 DEF Kind
  <2> QED BY <1>3, <2>1
<1>4. CASE a.rev # 0 /\ b.trashed /\ ~a.trashed
  <2>1. Kind(a, b) = "trash"
    BY <1>4 DEF Kind
  <2> QED BY <1>4, <2>1
<1>5. CASE a.rev # 0 /\ a.trashed = b.trashed
  <2>1. Kind(a, b) = "edit"
    BY <1>5 DEF Kind
  <2> QED BY <1>5, <2>1
<1> QED BY <1>1, <1>2, <1>3, <1>4, <1>5

\* What a stack holds.
LEMMA StackItems ==
  ASSUME NEW stack \in Seq(Receipt)
  PROVE  /\ Len(stack) \in Nat /\ DOMAIN stack = 1 .. Len(stack)
         /\ \A i \in DOMAIN stack :
              /\ stack[i] \in Receipt /\ stack[i].row \in WriteRows /\ stack[i].clean \in BOOLEAN
              /\ stack[i].before \in LocalRow /\ stack[i].after \in LocalRow /\ stack[i].made \in LocalRow
<1>1. Len(stack) \in Nat /\ DOMAIN stack = 1 .. Len(stack)
  OBVIOUS
<1>2. \A i \in DOMAIN stack : stack[i] \in Receipt
  BY <1>1, ElementOfSeq
<1> QED BY <1>1, <1>2 DEF Receipt

\* Dropping the oldest receipt.
LEMMA TailFits ==
  ASSUME NEW stack, NEW rows, StackFits(stack, rows), stack # <<>>
  PROVE  StackFits(Tail(stack), rows) /\ Len(Tail(stack)) = Len(stack) - 1
<1> DEFINE rest == Tail(stack)
<1>1. /\ stack \in Seq(Receipt) /\ Len(stack) \in Nat /\ DOMAIN stack = 1 .. Len(stack)
      /\ rest \in Seq(Receipt) /\ Len(rest) = Len(stack) - 1 /\ DOMAIN rest = 1 .. Len(rest)
      /\ \A i \in DOMAIN rest : i + 1 \in DOMAIN stack /\ rest[i] = stack[i + 1]
  BY DEF StackFits
<1>2. \A j \in DOMAIN stack : j # 1 => j - 1 \in DOMAIN rest /\ stack[j] = rest[j - 1]
  <2> SUFFICES ASSUME NEW j \in DOMAIN stack, j # 1 PROVE j - 1 \in DOMAIN rest /\ stack[j] = rest[j - 1]
    OBVIOUS
  <2>1. j \in Nat /\ j - 1 \in DOMAIN rest
    BY <1>1
  <2>2. (j - 1) + 1 = j
    BY <2>1
  <2> QED BY <1>1, <2>1, <2>2
<1> HIDE DEF rest
<1>3. \A i \in DOMAIN rest : ReceiptFits(rest[i])
  BY <1>1 DEF StackFits
<1>4. Chained(rest)
  <2> SUFFICES ASSUME NEW i \in DOMAIN rest, NEW j \in DOMAIN rest,
                      rest[i].row = rest[j].row, i < j, rest[i].clean,
                      \A k \in DOMAIN rest : rest[k].row = rest[i].row => k <= i \/ k >= j
               PROVE  Matches(rest[i].after, rest[j].before)
    BY DEF Chained
  <2>1. i \in Nat /\ j \in Nat /\ i >= 1
    BY <1>1
  <2>2. /\ i + 1 \in DOMAIN stack /\ rest[i] = stack[i + 1]
        /\ j + 1 \in DOMAIN stack /\ rest[j] = stack[j + 1] /\ i + 1 < j + 1
    BY <1>1, <2>1
  <2>3. ASSUME NEW k \in DOMAIN stack, stack[k].row = stack[i + 1].row PROVE k <= i + 1 \/ k >= j + 1
    <3>1. k \in Nat
      BY <1>1
    <3>2. CASE k = 1
      BY <3>2, <2>1
    <3>3. CASE k # 1
      <4>1. k - 1 \in DOMAIN rest /\ rest[k - 1] = stack[k]
        BY <1>2, <3>3
      <4>2. k - 1 <= i \/ k - 1 >= j
        BY <4>1, <2>2, <2>3
      <4> QED BY <4>2, <3>1, <2>1
    <3> QED BY <3>2, <3>3
  <2> QED BY <2>2, <2>3 DEF StackFits, Chained
<1>5. ASSUME NEW i \in DOMAIN rest, rest[i].clean, IsNewest(rest, i)
      PROVE  Matches(rest[i].after, rows[rest[i].row])
  <2>1. i \in Nat /\ i >= 1 /\ i + 1 \in DOMAIN stack /\ rest[i] = stack[i + 1]
    BY <1>1
  <2>2. ASSUME NEW j \in DOMAIN stack, stack[j].row = stack[i + 1].row PROVE j <= i + 1
    <3>1. j \in Nat
      BY <1>1
    <3>2. CASE j = 1
      BY <3>2, <2>1
    <3>3. CASE j # 1
      <4>1. j - 1 <= i
        BY <1>2, <3>3, <2>1, <2>2, <1>5 DEF IsNewest
      <4> QED BY <4>1, <3>1, <2>1
    <3> QED BY <3>2, <3>3
  <2>3. IsNewest(stack, i + 1)
    BY <2>2 DEF IsNewest
  <2> QED BY <2>1, <2>3, <1>5 DEF StackFits
<1>6. Len(rest) = Len(stack) - 1 /\ rest \in Seq(Receipt)
  BY <1>1
<1> QED BY <1>3, <1>4, <1>5, <1>6 DEF StackFits, rest

\* A receipt for the row that was stored goes on top.
LEMMA AppendFits ==
  ASSUME NEW stack, NEW rows, StackFits(stack, rows),
         NEW t \in Receipt, ReceiptFits(t), t.before = rows[t.row],
         NEW then, then[t.row] = t.after, \A o \in WriteRows : o # t.row => then[o] = rows[o],
         t.after \in LocalRow
  PROVE  StackFits(Append(stack, t), then) /\ Len(Append(stack, t)) = Len(stack) + 1
<1> DEFINE all == Append(stack, t)
           n == Len(stack) + 1
<1>1. /\ stack \in Seq(Receipt) /\ Len(stack) \in Nat /\ DOMAIN stack = 1 .. Len(stack)
      /\ all \in Seq(Receipt) /\ Len(all) = n /\ DOMAIN all = 1 .. n /\ n \in Nat
      /\ all[n] = t /\ \A i \in DOMAIN stack : i \in DOMAIN all /\ all[i] = stack[i] /\ i < n /\ i \in Nat
  BY DEF StackFits
<1>2. \A i \in DOMAIN all : i # n => i \in DOMAIN stack
  BY <1>1
<1>3. n \in DOMAIN all
  BY <1>1
<1> HIDE DEF all, n
<1>4. \A i \in DOMAIN all : ReceiptFits(all[i])
  BY <1>1, <1>2 DEF StackFits
<1>5. Chained(all)
  <2> SUFFICES ASSUME NEW i \in DOMAIN all, NEW j \in DOMAIN all,
                      all[i].row = all[j].row, i < j, all[i].clean,
                      \A k \in DOMAIN all : all[k].row = all[i].row => k <= i \/ k >= j
               PROVE  Matches(all[i].after, all[j].before)
    BY DEF Chained
  <2>1. i \in Nat /\ j \in Nat /\ j <= n
    BY <1>1
  <2>2. i \in DOMAIN stack /\ all[i] = stack[i]
    BY <2>1, <1>1, <1>2
  <2>3. CASE j = n
    <3>1. ASSUME NEW k \in DOMAIN stack, stack[k].row = stack[i].row PROVE k <= i
      <4>1. k \in DOMAIN all /\ all[k].row = all[i].row /\ k < n /\ k \in Nat
        BY <1>1, <2>2, <3>1
      <4> QED BY <4>1, <2>1, <2>3
    <3>2. Matches(stack[i].after, rows[stack[i].row])
      BY <3>1, <2>2 DEF StackFits, IsNewest
    <3> QED BY <3>2, <2>2, <2>3, <1>1
  <2>4. CASE j # n
    <3>1. j \in DOMAIN stack /\ all[j] = stack[j]
      BY <2>4, <1>1, <1>2
    <3>2. \A k \in DOMAIN stack : stack[k].row = stack[i].row => k <= i \/ k >= j
      BY <1>1, <2>2
    <3> QED BY <3>1, <3>2, <2>2 DEF StackFits, Chained
  <2> QED BY <2>3, <2>4
<1>6. ASSUME NEW i \in DOMAIN all, all[i].clean, IsNewest(all, i)
      PROVE  Matches(all[i].after, then[all[i].row])
  <2>1. CASE i = n
    BY <2>1, <1>1, MatchesMeans
  <2>2. CASE i # n
    <3>1. i \in DOMAIN stack /\ all[i] = stack[i] /\ i < n /\ i \in Nat /\ n \in Nat
      BY <2>2, <1>1, <1>2
    <3>2. all[n].row # all[i].row
      BY <3>1, <1>3, <1>6 DEF IsNewest
    <3>3. IsNewest(stack, i)
      BY <3>1, <1>1, <1>6 DEF IsNewest
    <3>4. Matches(stack[i].after, rows[stack[i].row])
      BY <3>1, <3>3, <1>6 DEF StackFits
    <3>5. stack[i].row \in WriteRows
      BY <3>1, <1>1, StackItems
    <3> QED BY <3>1, <3>2, <3>4, <3>5, <1>1
  <2> QED BY <2>1, <2>2
<1>7. all \in Seq(Receipt) /\ Len(all) = Len(stack) + 1
  BY <1>1 DEF n
<1> QED BY <1>4, <1>5, <1>6, <1>7 DEF StackFits, all

\* Taking the newest receipt away uncovers the row as it was before its write.
LEMMA FrontFits ==
  ASSUME NEW stack, NEW rows, StackFits(stack, rows), stack # <<>>,
         NEW then, then[Last(stack).row] = Last(stack).before,
         \A o \in WriteRows : o # Last(stack).row => then[o] = rows[o]
  PROVE  /\ StackFits(Front(stack), then) /\ Len(Front(stack)) = Len(stack) - 1
         /\ Last(stack) \in Receipt /\ ReceiptFits(Last(stack))
<1> DEFINE rest == Front(stack)
           n == Len(stack)
<1>1. /\ stack \in Seq(Receipt) /\ n \in Nat \ {0} /\ DOMAIN stack = 1 .. n
      /\ Last(stack) = stack[n] /\ n \in DOMAIN stack
  BY DEF StackFits, Last
<1>2. /\ rest \in Seq(Receipt) /\ Len(rest) = n - 1 /\ DOMAIN rest = 1 .. n - 1
      /\ \A i \in DOMAIN rest : i \in DOMAIN stack /\ rest[i] = stack[i] /\ i < n /\ i \in Nat
  <2>1. n - 1 \in Nat /\ 1 \in Int /\ n - 1 \in Int /\ \A i \in 1 .. n - 1 : i \in 1 .. n /\ i < n /\ i \in Nat
    BY <1>1
  <2>2. \A i \in 1 .. n - 1 : stack[i] \in Receipt
    BY <2>1, <1>1, StackItems
  <2>3. rest = SubSeq(stack, 1, n - 1)
    BY DEF Front
  <2> HIDE DEF n, rest
  <2>4. /\ rest \in Seq(Receipt)
        /\ Len(rest) = IF 1 <= n - 1 THEN (n - 1) - 1 + 1 ELSE 0
        /\ \A i \in 1 .. (n - 1) - 1 + 1 : rest[i] = stack[1 + i - 1]
    BY <2>1, <2>2, <2>3, SubSeqProperties
  <2>5. Len(rest) = n - 1 /\ (n - 1) - 1 + 1 = n - 1 /\ \A i \in 1 .. n - 1 : 1 + i - 1 = i
    BY <2>1, <2>4
  <2>6. DOMAIN rest = 1 .. n - 1
    BY <2>4, <2>5
  <2>7. \A i \in 1 .. n - 1 : rest[i] = stack[i]
    BY <2>4, <2>5
  <2> QED BY <2>1, <2>4, <2>5, <2>6, <2>7, <1>1
<1>3. \A i \in DOMAIN stack : i # n => i \in DOMAIN rest
  BY <1>1, <1>2
<1> HIDE DEF rest, n
<1>4. \A i \in DOMAIN rest : ReceiptFits(rest[i])
  BY <1>2 DEF StackFits
<1>5. Chained(rest)
  <2> SUFFICES ASSUME NEW i \in DOMAIN rest, NEW j \in DOMAIN rest,
                      rest[i].row = rest[j].row, i < j, rest[i].clean,
                      \A k \in DOMAIN rest : rest[k].row = rest[i].row => k <= i \/ k >= j
               PROVE  Matches(rest[i].after, rest[j].before)
    BY DEF Chained
  <2>1. i \in DOMAIN stack /\ j \in DOMAIN stack /\ rest[i] = stack[i] /\ rest[j] = stack[j] /\ j < n /\ j \in Nat
    BY <1>2
  <2>2. ASSUME NEW k \in DOMAIN stack, stack[k].row = stack[i].row PROVE k <= i \/ k >= j
    <3>1. CASE k = n
      BY <3>1, <2>1, <1>1
    <3>2. CASE k # n
      <4>1. k \in DOMAIN rest /\ rest[k] = stack[k]
        BY <3>2, <1>2, <1>3
      <4> QED BY <4>1, <2>1, <2>2
    <3> QED BY <3>1, <3>2
  <2> QED BY <2>1, <2>2 DEF StackFits, Chained
<1>6. ASSUME NEW i \in DOMAIN rest, rest[i].clean, IsNewest(rest, i)
      PROVE  Matches(rest[i].after, then[rest[i].row])
  <2>1. i \in DOMAIN stack /\ rest[i] = stack[i] /\ i < n /\ i \in Nat /\ stack[i].row \in WriteRows
    BY <1>1, <1>2, StackItems
  <2>2. CASE stack[i].row = stack[n].row
    <3>1. ASSUME NEW k \in DOMAIN stack, stack[k].row = stack[i].row PROVE k <= i \/ k >= n
      <4>1. CASE k = n
        BY <4>1, <1>1
      <4>2. CASE k # n
        BY <4>2, <3>1, <2>1, <1>2, <1>3, <1>6 DEF IsNewest
      <4> QED BY <4>1, <4>2
    <3>2. Matches(stack[i].after, stack[n].before)
      BY <3>1, <2>1, <2>2, <1>1, <1>6 DEF StackFits, Chained
    <3> QED BY <3>2, <2>1, <2>2, <1>1
  <2>3. CASE stack[i].row # stack[n].row
    <3>1. ASSUME NEW k \in DOMAIN stack, stack[k].row = stack[i].row PROVE k <= i
      <4>1. k # n
        BY <3>1, <2>3
      <4> QED BY <4>1, <3>1, <2>1, <1>2, <1>3, <1>6 DEF IsNewest
    <3>2. Matches(stack[i].after, rows[stack[i].row])
      BY <3>1, <2>1, <1>6 DEF StackFits, IsNewest
    <3> QED BY <3>2, <2>1, <2>3, <1>1
  <2> QED BY <2>2, <2>3
<1>7. rest \in Seq(Receipt) /\ Len(rest) = Len(stack) - 1
  BY <1>2 DEF n
<1>8. Last(stack) \in Receipt /\ ReceiptFits(Last(stack))
  BY <1>1 DEF StackFits
<1> QED BY <1>4, <1>5, <1>6, <1>7, <1>8 DEF StackFits, rest

\* A write that restores the state of the row moves the baseline of its newest receipt.
LEMMA AdvanceFits ==
  ASSUME NEW stack, NEW rows, StackFits(stack, rows),
         NEW r \in WriteRows, rows[r] \in LocalRow,
         NEW after \in LocalRow, after.rev > 0,
         rows[r].rev > 0 => after.cells = rows[r].cells /\ after.trashed = rows[r].trashed,
         NEW then, then[r] = after, \A o \in WriteRows : o # r => then[o] = rows[o]
  PROVE  /\ StackFits(Advance(stack, r, rows[r], after), then)
         /\ Len(Advance(stack, r, rows[r], after)) = Len(stack)
<1> DEFINE moved == Advance(stack, r, rows[r], after)
           earlier == {i \in DOMAIN stack : stack[i].row = r}
           last == CHOOSE i \in earlier : \A j \in earlier : j <= i
           moves == rows[r].rev > 0 /\ earlier # {} /\ Matches(stack[last].after, rows[r])
<1>1. stack \in Seq(Receipt) /\ Len(stack) \in Nat /\ DOMAIN stack = 1 .. Len(stack)
  BY DEF StackFits
<1>2. moved = IF moves THEN [stack EXCEPT ![last].after = after] ELSE stack
  BY DEF Advance
<1>3. ASSUME earlier # {} PROVE last \in earlier /\ \A j \in earlier : j <= last
  <2>1. \E i \in earlier : \A j \in earlier : j <= i
    <3>1. earlier \in SUBSET (1 .. Len(stack))
      BY <1>1
    <3> HIDE DEF earlier
    <3> QED BY <3>1, <1>1, <1>3, GreatestBelow
  <2> QED BY <2>1
<1> HIDE DEF moved, last
<1>4. ASSUME NEW i \in DOMAIN stack, stack[i].row = r, stack[i].clean, IsNewest(stack, i)
      PROVE  moves /\ i = last
  <2>1. i \in earlier /\ last \in earlier /\ last <= i /\ i <= last
    BY <1>3, <1>4 DEF IsNewest
  <2>2. i = last
    BY <2>1, <1>1
  <2>3. Matches(stack[i].after, rows[r]) /\ stack[i].after \in LocalRow /\ stack[i].after.rev > 0
    BY <1>1, <1>4, StackItems DEF StackFits, ReceiptFits
  <2>4. rows[r].rev > 0
    BY <2>3, MatchesMeans
  <2> QED BY <2>1, <2>2, <2>3, <2>4
<1>5. CASE ~moves
  <2>1. moved = stack
    BY <1>2, <1>5
  <2>2. ASSUME NEW i \in DOMAIN stack, stack[i].clean, IsNewest(stack, i)
        PROVE  Matches(stack[i].after, then[stack[i].row])
    <3>1. stack[i].row # r /\ stack[i].row \in WriteRows
      BY <1>1, <1>4, <1>5, <2>2, StackItems
    <3> QED BY <3>1, <2>2 DEF StackFits
  <2> QED BY <2>1, <2>2 DEF StackFits, moved
<1>6. CASE moves
  <2>1. last \in DOMAIN stack /\ stack[last].row = r /\ last \in Nat /\ \A j \in DOMAIN stack : stack[j].row = r => j <= last
    BY <1>1, <1>3, <1>6
  <2>2. moved = [stack EXCEPT ![last].after = after]
    BY <1>2, <1>6
  <2>3. stack[last] \in Receipt /\ stack[last].after \in LocalRow
    BY <1>1, <2>1, StackItems
  <2>4. moved[last] = [stack[last] EXCEPT !.after = after] /\ DOMAIN moved = DOMAIN stack
    BY <1>1, <2>1, <2>2
  <2>5. /\ moved[last] \in Receipt /\ moved[last].after = after /\ moved[last].row = r
        /\ moved[last].before = stack[last].before /\ moved[last].clean = stack[last].clean
        /\ moved[last].kind = stack[last].kind /\ moved[last].made = stack[last].made
    BY <2>1, <2>3, <2>4 DEF Receipt
  <2>6. \A i \in DOMAIN stack : i # last => moved[i] = stack[i]
    BY <1>1, <2>2
  <2>7. moved \in Seq(Receipt) /\ Len(moved) = Len(stack)
    <3>1. \A i \in 1 .. Len(stack) : moved[i] \in Receipt
      BY <1>1, <2>5, <2>6
    <3>2. moved \in [1 .. Len(stack) -> Receipt]
      BY <3>1, <1>1, <2>2, <2>4
    <3> QED BY <3>2, <1>1, SeqOfLength
  <2>8. after.cells = stack[last].after.cells /\ after.trashed = stack[last].after.trashed
    BY <1>6, <2>3, MatchesMeans
  <2>9. \A i \in DOMAIN stack : ReceiptFits(moved[i])
    <3> SUFFICES ASSUME NEW i \in DOMAIN stack PROVE ReceiptFits(moved[i])
      OBVIOUS
    <3>1. ReceiptFits(stack[i])
      BY DEF StackFits
    <3>2. CASE i = last
      <4>1. ReceiptFits(moved[last])
        BY <3>1, <3>2, <2>5, <2>8 DEF ReceiptFits
      <4> QED BY <4>1, <3>2
    <3>3. CASE i # last
      BY <3>1, <3>3, <2>6
    <3> QED BY <3>2, <3>3
  <2>10. \A i \in DOMAIN stack : moved[i].row = stack[i].row /\ moved[i].before = stack[i].before /\ moved[i].clean = stack[i].clean
    BY <2>1, <2>5, <2>6
  <2>11. Chained(moved)
    <3> SUFFICES ASSUME NEW i \in DOMAIN stack, NEW j \in DOMAIN stack,
                        stack[i].row = stack[j].row, i < j, stack[i].clean,
                        \A k \in DOMAIN stack : stack[k].row = stack[i].row => k <= i \/ k >= j
                 PROVE  Matches(moved[i].after, stack[j].before)
      BY <2>4, <2>10 DEF Chained
    <3>1. i # last
      BY <2>1, <1>1
    <3> QED BY <3>1, <2>6 DEF StackFits, Chained
  <2>12. ASSUME NEW i \in DOMAIN stack, stack[i].clean, IsNewest(stack, i)
         PROVE  Matches(moved[i].after, then[stack[i].row])
    <3>1. CASE stack[i].row = r
      BY <3>1, <2>12, <1>4, <2>5, MatchesMeans
    <3>2. CASE stack[i].row # r
      <4>1. i # last /\ stack[i].row \in WriteRows
        BY <3>2, <1>1, <2>1, StackItems
      <4> QED BY <4>1, <3>2, <2>6, <2>12 DEF StackFits
    <3> QED BY <3>1, <3>2
  <2>13. \A i \in DOMAIN stack : IsNewest(moved, i) <=> IsNewest(stack, i)
    BY <2>4, <2>10 DEF IsNewest
  <2> QED BY <2>4, <2>7, <2>9, <2>10, <2>11, <2>12, <2>13 DEF StackFits, moved
<1> QED BY <1>5, <1>6

\* Marking receipts, or moving rows they do not vouch for, keeps them.
LEMMA MarkedFits ==
  ASSUME NEW stack, NEW rows, StackFits(stack, rows),
         NEW marked \in Seq(Receipt), Len(marked) = Len(stack),
         NEW then,
         \A i \in DOMAIN stack :
           /\ marked[i].row = stack[i].row /\ marked[i].before = stack[i].before
           /\ marked[i].after = stack[i].after /\ marked[i].made = stack[i].made
           /\ marked[i].kind = stack[i].kind
           /\ marked[i].clean => stack[i].clean
           /\ marked[i].clean /\ Matches(stack[i].after, rows[stack[i].row])
                => Matches(stack[i].after, then[stack[i].row])
  PROVE  StackFits(marked, then)
<1>1. DOMAIN marked = DOMAIN stack
  BY StackItems DEF StackFits
<1>2. \A i \in DOMAIN marked : ReceiptFits(marked[i])
  BY <1>1 DEF StackFits, ReceiptFits
<1>3. Chained(marked)
  <2> SUFFICES ASSUME NEW i \in DOMAIN stack, NEW j \in DOMAIN stack,
                      stack[i].row = stack[j].row, i < j, stack[i].clean,
                      \A k \in DOMAIN stack : stack[k].row = stack[i].row => k <= i \/ k >= j
               PROVE  Matches(stack[i].after, stack[j].before)
    BY <1>1 DEF Chained
  <2> QED BY DEF StackFits, Chained
<1>4. \A i \in DOMAIN stack : IsNewest(marked, i) <=> IsNewest(stack, i)
  BY <1>1 DEF IsNewest
<1>5. ASSUME NEW i \in DOMAIN marked, marked[i].clean, IsNewest(marked, i)
      PROVE  Matches(marked[i].after, then[marked[i].row])
  <2>1. Matches(stack[i].after, rows[stack[i].row])
    BY <1>1, <1>4, <1>5 DEF StackFits
  <2> QED BY <2>1, <1>1, <1>5
<1> QED BY <1>2, <1>3, <1>5 DEF StackFits

\* Another writer's row soils its receipts.
LEMMA SoiledFits ==
  ASSUME NEW stack, NEW rows, StackFits(stack, rows), NEW r \in WriteRows,
         NEW then, \A o \in WriteRows : o # r => then[o] = rows[o]
  PROVE  StackFits(Soiled(stack, r), then) /\ Len(Soiled(stack, r)) = Len(stack)
<1> DEFINE marked == Soiled(stack, r)
<1>1. stack \in Seq(Receipt) /\ Len(stack) \in Nat /\ DOMAIN stack = 1 .. Len(stack)
  BY StackItems DEF StackFits
<1>2. /\ DOMAIN marked = DOMAIN stack
      /\ \A i \in DOMAIN stack :
           /\ stack[i].row = r => marked[i] = [stack[i] EXCEPT !.clean = FALSE]
           /\ stack[i].row # r => marked[i] = stack[i]
  BY DEF Soiled
<1>3. marked \in [1 .. Len(stack) -> Receipt]
  <2>1. \A i \in 1 .. Len(stack) : stack[i] \in Receipt /\ [stack[i] EXCEPT !.clean = FALSE] \in Receipt
    <3>1. \A t \in Receipt : [t EXCEPT !.clean = FALSE] \in Receipt
      BY DEF Receipt
    <3> QED BY <3>1, <1>1, StackItems
  <2>2. \A i \in 1 .. Len(stack) : marked[i] \in Receipt
    BY <2>1, <1>1, <1>2
  <2>3. marked = [i \in 1 .. Len(stack) |-> IF stack[i].row = r THEN [stack[i] EXCEPT !.clean = FALSE] ELSE stack[i]]
    BY <1>1 DEF Soiled
  <2> HIDE DEF marked
  <2> QED BY <2>2, <2>3
<1> HIDE DEF marked
<1>4. marked \in Seq(Receipt) /\ Len(marked) = Len(stack)
  BY <1>1, <1>3, SeqOfLength
<1>5. ASSUME NEW i \in DOMAIN stack
      PROVE  /\ marked[i].row = stack[i].row /\ marked[i].before = stack[i].before
             /\ marked[i].after = stack[i].after /\ marked[i].made = stack[i].made
             /\ marked[i].kind = stack[i].kind
             /\ marked[i].clean => stack[i].clean
             /\ marked[i].clean /\ Matches(stack[i].after, rows[stack[i].row])
                  => Matches(stack[i].after, then[stack[i].row])
  <2>1. stack[i] \in Receipt /\ stack[i].row \in WriteRows
    BY <1>1, StackItems
  <2>2. CASE stack[i].row = r
    <3>1. marked[i] = [stack[i] EXCEPT !.clean = FALSE]
      BY <1>2, <2>2
    <3> QED BY <3>1, <2>1 DEF Receipt
  <2>3. CASE stack[i].row # r
    BY <2>1, <2>3, <1>2
  <2> QED BY <2>2, <2>3
<1>6. StackFits(marked, then)
  BY <1>4, <1>5, MarkedFits
<1> QED BY <1>4, <1>6 DEF marked

\* What the inverse of a receipt makes of the row it finds.
LEMMA InverseMeans ==
  ASSUME NEW t \in Receipt, ReceiptFits(t), NEW found \in LocalRow, Matches(t.after, found)
  PROVE  /\ found.cells = t.made.cells /\ found.trashed = t.made.trashed
         /\ t.before.rev > 0 => InverseCells(t, found) = t.before.cells /\ InverseTrashed(t, found) = t.before.trashed
         /\ InverseCells(t, found) \in Contents \cup {NoCells} /\ InverseTrashed(t, found) \in BOOLEAN
<1>1. /\ t.after \in LocalRow /\ t.before \in LocalRow /\ t.made \in LocalRow
      /\ t.kind = Kind(t.before, t.made)
      /\ t.after.cells = t.made.cells /\ t.after.trashed = t.made.trashed
  BY DEF Receipt, ReceiptFits
<1>2. found.cells = t.made.cells /\ found.trashed = t.made.trashed
  BY <1>1, MatchesMeans
<1>3. t.before.trashed \in BOOLEAN /\ t.made.trashed \in BOOLEAN /\ found.trashed \in BOOLEAN /\ t.before.rev \in Nat
      /\ t.before.cells \in Contents \cup {NoCells} /\ found.cells \in Contents \cup {NoCells}
  BY <1>1, EditionsAreNaturals DEF LocalRow
<1>4. InverseCells(t, found) \in {t.before.cells, found.cells}
  BY DEF InverseCells
<1>5. t.kind \in {"create", "edit", "trash", "restore"}
  BY DEF Receipt
<1>6. InverseTrashed(t, found) \in BOOLEAN
  BY <1>3, <1>5 DEF InverseTrashed
<1>7. ASSUME t.before.rev > 0
      PROVE  InverseCells(t, found) = t.before.cells /\ InverseTrashed(t, found) = t.before.trashed
  <2>1. t.before.rev # 0 /\ t.kind # "create"
    BY <1>1, <1>3, <1>7, KindMeans
  <2>2. InverseCells(t, found) = t.before.cells
    BY <2>1, <1>2 DEF InverseCells
  <2>3. CASE t.kind = "restore"
    <3>1. t.before.trashed = TRUE
      BY <2>3, <1>1, <1>3, KindMeans
    <3> QED BY <3>1, <2>2, <2>3 DEF InverseTrashed
  <2>4. CASE t.kind = "trash"
    <3>1. t.before.trashed = FALSE
      BY <2>4, <1>1, <1>3, KindMeans
    <3> QED BY <3>1, <2>2, <2>4 DEF InverseTrashed
  <2>5. CASE t.kind = "edit"
    <3>1. t.before.trashed = t.made.trashed
      BY <2>5, <1>1, <1>3, KindMeans
    <3> QED BY <3>1, <2>2, <2>5, <1>2 DEF InverseTrashed
  <2> QED BY <2>1, <2>3, <2>4, <2>5, <1>5
<1> QED BY <1>2, <1>3, <1>4, <1>6, <1>7

-----------------------------------------------------------------------------
(* LocalWrites: the steps *)

LEMMA LocalStarts == LocalInit => LocalInv
<1> SUFFICES ASSUME LocalInit PROVE LocalInv
  OBVIOUS
<1> USE DEF LocalInit
<1>1. Missing \in LocalRow
  BY EditionsAreNaturals DEF Missing, LocalRow
<1>2. <<>> \in Seq(Receipt) /\ Len(<<>>) = 0 /\ DOMAIN <<>> = {} /\ 0 <= Depth
  BY EditionsAreNaturals
<1>3. LocalTypeOK
  BY <1>1, <1>2, EditionsAreNaturals DEF LocalTypeOK
<1>4. \A r \in WriteRows : stored[r].rev = 0 /\ stored[r].cells = NoCells
  BY DEF Missing
<1>5. Accounted
  BY <1>4 DEF Accounted
<1>6. StackFits(receipts, stored)
  BY <1>2 DEF StackFits, Chained
<1> QED BY <1>3, <1>4, <1>5, <1>6 DEF LocalInv

\* What a stored edit leaves.
LEMMA EditedMeans ==
  ASSUME LocalInv, NEW r \in WriteRows, NEW cells \in Contents \cup {NoCells}, NEW trashed \in BOOLEAN,
         Writable(stored[r], cells, trashed)
  PROVE  /\ Edited(stored[r], cells, trashed) \in LocalRow
         /\ Edited(stored[r], cells, trashed).cells = cells
         /\ Edited(stored[r], cells, trashed).trashed = trashed
         /\ Edited(stored[r], cells, trashed).rev > 0
         /\ stored[r] \in LocalRow
<1>1. stored[r] \in LocalRow /\ now \in Nat /\ now > 0
  BY EditionsAreNaturals DEF LocalInv, LocalTypeOK
<1>2. stored[r].rev \in Nat /\ stored[r].hub \in BOOLEAN
  BY <1>1, EditionsAreNaturals DEF LocalRow
<1>3. NewRevision(stored[r]) \in Nat /\ NewRevision(stored[r]) > 0 /\ NewRevision(stored[r]) <= MaxEdit
  BY <1>1, <1>2 DEF NewRevision, Writable
<1>4. NewRevision(stored[r]) \in Editions
  BY <1>3, EditionsAreNaturals DEF Editions
<1>5. (stored[r].rev > 0 /\ stored[r].hub) \in BOOLEAN
  OBVIOUS
<1> QED BY <1>1, <1>3, <1>4, <1>5 DEF Edited, LocalRow

\* Storing an edit keeps the books, whatever becomes of the receipts.
LEMMA StoreKeeps ==
  ASSUME LocalInv, NEW r \in WriteRows, NEW cells \in Contents \cup {NoCells}, NEW trashed \in BOOLEAN,
         Writable(stored[r], cells, trashed), Store(r, Edited(stored[r], cells, trashed)),
         UNCHANGED <<now, fixed>>,
         StackFits(receipts', [stored EXCEPT ![r] = Edited(stored[r], cells, trashed)]),
         Len(receipts') <= Depth
  PROVE  LocalInv'
<1> DEFINE after == Edited(stored[r], cells, trashed)
<1>1. after \in LocalRow /\ after.cells = cells /\ after.rev > 0 /\ stored[r] \in LocalRow /\ after.rev \in Nat
  <2>1. after \in LocalRow /\ after.cells = cells /\ after.rev > 0 /\ stored[r] \in LocalRow
    BY EditedMeans
  <2> HIDE DEF after
  <2> QED BY <2>1, EditionsAreNaturals DEF LocalRow
<1>2. /\ stored' = [stored EXCEPT ![r] = after]
      /\ journal' = IF stored[r].rev > 0 /\ after.cells # stored[r].cells
                      THEN [journal EXCEPT ![r] = after.cells] ELSE journal
      /\ owed' = [owed EXCEPT ![r] = after.rev]
  BY DEF Store
<1>3. StackFits(receipts', stored')
  BY <1>2
<1> HIDE DEF after
<1>4. LocalTypeOK /\ now > 0 /\ Accounted /\ \A o \in WriteRows : stored[o].rev = 0 => stored[o].cells = NoCells
  BY DEF LocalInv
<1>5. stored' \in [WriteRows -> LocalRow] /\ owed' \in [WriteRows -> Editions]
  BY <1>1, <1>2, <1>4 DEF LocalTypeOK, LocalRow
<1>6. journal' \in [WriteRows -> Contents \cup {NoCells}]
  BY <1>1, <1>2, <1>4 DEF LocalTypeOK
<1>7. LocalTypeOK'
  BY <1>3, <1>4, <1>5, <1>6 DEF LocalTypeOK, StackFits, LocalRow, Receipt, Editions
<1>8. stored'[r] = after /\ owed'[r] = after.rev /\ \A o \in WriteRows : o # r => stored'[o] = stored[o] /\ owed'[o] = owed[o] /\ journal'[o] = journal[o]
  BY <1>2, <1>4 DEF LocalTypeOK
<1>9. journal'[r] \in {NoCells, after.cells}
  <2>1. stored[r].rev \in Nat /\ journal[r] \in {NoCells, stored[r].cells}
    BY <1>1, <1>4, EditionsAreNaturals DEF Accounted, LocalRow
  <2>2. CASE stored[r].rev > 0 /\ after.cells # stored[r].cells
    BY <2>2, <1>2, <1>4 DEF LocalTypeOK
  <2>3. CASE after.cells = stored[r].cells
    BY <2>1, <2>3, <1>2
  <2>4. CASE ~(stored[r].rev > 0)
    <3>1. stored[r].cells = NoCells
      BY <2>1, <2>4, <1>4
    <3> QED BY <3>1, <2>1, <2>4, <1>2
  <2> QED BY <2>2, <2>3, <2>4
<1>10. Accounted'
  BY <1>8, <1>9, <1>4 DEF Accounted
<1>11. \A o \in WriteRows : stored'[o].rev = 0 => stored'[o].cells = NoCells
  BY <1>8, <1>1, <1>4
<1> QED BY <1>3, <1>4, <1>7, <1>10, <1>11 DEF LocalInv, StackFits, Chained, IsNewest

\* The receipts after a write the session publishes.
LEMMA PublishedFits ==
  ASSUME LocalInv, NEW r \in WriteRows, NEW after \in LocalRow, after.rev > 0
  PROVE  /\ StackFits(Published(r, stored[r], after), [stored EXCEPT ![r] = after])
         /\ Len(Published(r, stored[r], after)) <= Depth
<1> DEFINE then == [stored EXCEPT ![r] = after]
           t == [row |-> r, before |-> stored[r], after |-> after, fits |-> TRUE,
                 kind |-> Kind(stored[r], after), made |-> after, clean |-> TRUE]
<1>1. /\ StackFits(receipts, stored) /\ stored \in [WriteRows -> LocalRow] /\ Len(receipts) <= Depth
      /\ receipts \in Seq(Receipt) /\ Len(receipts) \in Nat
  BY DEF LocalInv, LocalTypeOK
<1>2. then[r] = after /\ \A o \in WriteRows : o # r => then[o] = stored[o]
  BY <1>1
<1>3. stored[r] \in LocalRow /\ stored[r].rev \in Nat
  BY <1>1, EditionsAreNaturals DEF LocalRow
<1> HIDE DEF then
<1>4. CASE ~Undoable(stored[r], after)
  <2>1. Published(r, stored[r], after) = Advance(receipts, r, stored[r], after)
    BY <1>4 DEF Published
  <2>2. after.cells = stored[r].cells /\ after.trashed = stored[r].trashed
    BY <1>4 DEF Undoable
  <2> HIDE DEF t
  <2>3. StackFits(Advance(receipts, r, stored[r], after), then) /\ Len(Advance(receipts, r, stored[r], after)) = Len(receipts)
    BY <2>2, <1>1, <1>2, <1>3, AdvanceFits
  <2> QED BY <2>1, <2>3, <1>1 DEF then
<1>5. CASE Undoable(stored[r], after)
  <2>1. t \in Receipt /\ t.row = r /\ t.before = stored[r] /\ t.after = after
    BY <1>3, KindMeans DEF Receipt
  <2>2. ReceiptFits(t)
    BY DEF ReceiptFits
  <2>3. Published(r, stored[r], after) = Stacked(receipts, t)
    BY <1>5 DEF Published
  <2> HIDE DEF t
  <2>4. CASE Len(receipts) = Depth
    <3>1. receipts # <<>>
      BY <2>4, <1>1, EditionsAreNaturals
    <3>2. StackFits(Tail(receipts), stored) /\ Len(Tail(receipts)) = Len(receipts) - 1
      BY <3>1, <1>1, TailFits
    <3>3. StackFits(Append(Tail(receipts), t), then) /\ Len(Append(Tail(receipts), t)) = Len(Tail(receipts)) + 1
      BY <3>2, <2>1, <2>2, <1>2, <1>3, AppendFits
    <3>4. Published(r, stored[r], after) = Append(Tail(receipts), t)
      BY <2>3, <2>4 DEF Stacked
    <3> QED BY <3>2, <3>3, <3>4, <1>1 DEF then
  <2>5. CASE Len(receipts) # Depth
    <3>1. StackFits(Append(receipts, t), then) /\ Len(Append(receipts, t)) = Len(receipts) + 1
      BY <2>1, <2>2, <1>1, <1>2, <1>3, AppendFits
    <3>2. Published(r, stored[r], after) = Append(receipts, t)
      BY <2>3, <2>5 DEF Stacked
    <3> QED BY <3>1, <3>2, <2>5, <1>1, EditionsAreNaturals DEF then
  <2> QED BY <2>4, <2>5
<1> QED BY <1>4, <1>5

\* The session's own writes.
LEMMA SessionKeeps ==
  ASSUME LocalInv, NEW r \in WriteRows, SessionWrite(r) \/ RowAction(r) \/ Uncaptured(r)
  PROVE  LocalInv'
<1>1. CASE SessionWrite(r) \/ RowAction(r)
  <2>1. PICK cells \in Contents, trashed \in BOOLEAN :
          /\ Writable(stored[r], cells, trashed)
          /\ Store(r, Edited(stored[r], cells, trashed))
          /\ receipts' = Published(r, stored[r], Edited(stored[r], cells, trashed))
          /\ UNCHANGED <<now, fixed>>
    <3>1. CASE SessionWrite(r)
      BY <3>1 DEF SessionWrite
    <3>2. CASE RowAction(r)
      BY <3>2 DEF RowAction
    <3> QED BY <1>1, <3>1, <3>2
  <2> DEFINE after == Edited(stored[r], cells, trashed)
  <2>2. after \in LocalRow /\ after.rev > 0
    BY <2>1, EditedMeans
  <2> HIDE DEF after
  <2>3. StackFits(receipts', [stored EXCEPT ![r] = after]) /\ Len(receipts') <= Depth
    <3>1. receipts' = Published(r, stored[r], after)
      BY <2>1 DEF after
    <3> QED BY <3>1, <2>2, PublishedFits
  <2> QED BY <2>1, <2>3, StoreKeeps DEF after
<1>2. CASE Uncaptured(r)
  <2>1. PICK cells \in Contents :
          /\ Writable(stored[r], cells, stored[r].trashed)
          /\ Store(r, Edited(stored[r], cells, stored[r].trashed))
          /\ receipts' = Soiled(receipts, r)
          /\ UNCHANGED <<now, fixed>>
    BY <1>2 DEF Uncaptured
  <2>2. stored[r].trashed \in BOOLEAN /\ stored \in [WriteRows -> LocalRow] /\ Len(receipts) <= Depth
    BY DEF LocalInv, LocalTypeOK, LocalRow
  <2> DEFINE after == Edited(stored[r], cells, stored[r].trashed)
             then == [stored EXCEPT ![r] = after]
  <2>3. \A o \in WriteRows : o # r => then[o] = stored[o]
    BY <2>2
  <2> HIDE DEF then
  <2>4. StackFits(Soiled(receipts, r), then) /\ Len(Soiled(receipts, r)) = Len(receipts)
    BY <2>3, SoiledFits DEF LocalInv
  <2>5. StackFits(receipts', then) /\ Len(receipts') <= Depth
    BY <2>1, <2>2, <2>4
  <2> QED BY <2>1, <2>2, <2>5, StoreKeeps DEF then
<1> QED BY <1>1, <1>2

\* Undo takes the newest receipt and puts the row back.
LEMMA UndoKeeps ==
  ASSUME LocalInv, Undo
  PROVE  LocalInv'
<1> DEFINE top == Last(receipts)
           r == top.row
           before == stored[r]
           cells == InverseCells(top, before)
           trashed == InverseTrashed(top, before)
           after == Edited(before, cells, trashed)
           rest == Front(receipts)
           back == [stored EXCEPT ![r] = top.before]
           then == [stored EXCEPT ![r] = after]
<1>1. /\ receipts # <<>> /\ before.rev > 0 /\ Matches(top.after, before)
      /\ Writable(before, cells, trashed) /\ Store(r, after)
      /\ receipts' = Advance(rest, r, top.before, after)
      /\ UNCHANGED <<now, fixed>>
  BY DEF Undo
<1>2. /\ StackFits(receipts, stored) /\ stored \in [WriteRows -> LocalRow] /\ Len(receipts) <= Depth
      /\ receipts \in Seq(Receipt) /\ Len(receipts) \in Nat
  BY DEF LocalInv, LocalTypeOK
<1>3. top \in Receipt /\ r \in WriteRows /\ top.before \in LocalRow /\ top.before.rev \in Nat
  <2>1. top \in Receipt
    BY <1>1, <1>2 DEF Last
  <2> QED BY <2>1, EditionsAreNaturals DEF Receipt, LocalRow
<1>4. back[r] = top.before /\ \A o \in WriteRows : o # r => back[o] = stored[o]
  BY <1>2, <1>3
<1> HIDE DEF back
<1>5. StackFits(rest, back) /\ Len(rest) = Len(receipts) - 1 /\ ReceiptFits(top)
  BY <1>1, <1>2, <1>4, FrontFits
<1>6. /\ top.before.rev > 0 => cells = top.before.cells /\ trashed = top.before.trashed
      /\ cells \in Contents \cup {NoCells} /\ trashed \in BOOLEAN
  <2>1. before \in LocalRow
    BY <1>2, <1>3
  <2> QED BY <2>1, <1>1, <1>3, <1>5, InverseMeans
<1>7. after \in LocalRow /\ after.rev > 0 /\ after.cells = cells /\ after.trashed = trashed
  <2> HIDE DEF cells, trashed, r
  <2> QED BY <1>1, <1>3, <1>6, EditedMeans
<1>8. then[r] = after /\ \A o \in WriteRows : o # r => then[o] = back[o]
  BY <1>2, <1>3, <1>4
<1>9. StackFits(receipts', then) /\ Len(receipts') <= Depth
  <2> HIDE DEF top, r, before, cells, trashed, after, rest, then
  <2>1. /\ StackFits(Advance(rest, r, back[r], after), then)
        /\ Len(Advance(rest, r, back[r], after)) = Len(rest)
    BY <1>3, <1>4, <1>5, <1>6, <1>7, <1>8, AdvanceFits
  <2> QED BY <2>1, <1>1, <1>2, <1>4, <1>5, EditionsAreNaturals
<1> HIDE DEF cells, trashed, r
<1> QED BY <1>1, <1>3, <1>6, <1>9, StoreKeeps

\* Everyone else, and the clock.
LEMMA OthersKeep ==
  ASSUME LocalInv,
         \/ \E r \in WriteRows : Outside(r) \/ Received(r)
         \/ Forget \/ SetClock \/ Recatalog \/ Reshape
  PROVE  LocalInv'
<1>0. /\ LocalTypeOK /\ now > 0 /\ Accounted /\ StackFits(receipts, stored)
      /\ \A o \in WriteRows : stored[o].rev = 0 => stored[o].cells = NoCells
  BY DEF LocalInv
<1>00. stored \in [WriteRows -> LocalRow] /\ receipts \in Seq(Receipt) /\ Len(receipts) \in Nat /\ Len(receipts) <= Depth
  BY <1>0 DEF LocalTypeOK
<1>1. ASSUME NEW r \in WriteRows, Outside(r) PROVE LocalInv'
  <2>1. PICK arrival \in LocalRow :
          /\ arrival.rev >= stored[r].rev /\ arrival.rev > 0
          /\ stored' = [stored EXCEPT ![r] = arrival]
          /\ owed' = IF arrival.rev > stored[r].rev THEN [owed EXCEPT ![r] = 0] ELSE owed
          /\ receipts' = IF Matches(stored[r], arrival) THEN receipts ELSE Soiled(receipts, r)
          /\ journal' = IF arrival.cells # stored[r].cells THEN [journal EXCEPT ![r] = NoCells] ELSE journal
          /\ UNCHANGED <<now, fixed>>
    BY <1>1 DEF Outside
  <2> DEFINE then == [stored EXCEPT ![r] = arrival]
  <2>2. then[r] = arrival /\ (\A o \in WriteRows : o # r => then[o] = stored[o]) /\ then \in [WriteRows -> LocalRow]
    BY <1>00
  <2> HIDE DEF then
  <2>3. StackFits(receipts', then) /\ Len(receipts') <= Depth
    <3>1. CASE Matches(stored[r], arrival)
      <4>1. \A o \in WriteRows : Matches(stored[o], then[o])
        <5> SUFFICES ASSUME NEW o \in WriteRows PROVE Matches(stored[o], then[o])
          OBVIOUS
        <5>1. stored[o] \in LocalRow
          BY <1>00
        <5> QED BY <5>1, <3>1, <2>2, MatchesMeans
      <4>2. ASSUME NEW i \in DOMAIN receipts, Matches(receipts[i].after, stored[receipts[i].row])
            PROVE  Matches(receipts[i].after, then[receipts[i].row])
        <5>1. receipts[i].row \in WriteRows /\ receipts[i].after \in LocalRow
          BY <1>00, StackItems
        <5>2. stored[receipts[i].row] \in LocalRow /\ then[receipts[i].row] \in LocalRow
          BY <5>1, <2>2, <1>00
        <5> QED BY <4>1, <4>2, <5>1, <5>2, MatchesMeans
      <4>3. StackFits(receipts, then)
        BY <4>2, <1>0, <1>00, MarkedFits
      <4> QED BY <4>3, <3>1, <2>1, <1>00
    <3>2. CASE ~Matches(stored[r], arrival)
      <4>1. StackFits(Soiled(receipts, r), then) /\ Len(Soiled(receipts, r)) = Len(receipts)
        BY <1>0, <2>2, SoiledFits
      <4> QED BY <4>1, <3>2, <2>1, <1>00
    <3> QED BY <3>1, <3>2
  <2>4. StackFits(receipts', stored') /\ stored' = then
    BY <2>1, <2>3 DEF then
  <2>5. /\ owed' \in [WriteRows -> Editions] /\ journal' \in [WriteRows -> Contents \cup {NoCells}]
        /\ owed'[r] \in {0, arrival.rev} /\ journal'[r] \in {NoCells, arrival.cells}
        /\ \A o \in WriteRows : o # r => owed'[o] = owed[o] /\ journal'[o] = journal[o]
    <3>1. /\ owed \in [WriteRows -> Editions] /\ journal \in [WriteRows -> Contents \cup {NoCells}]
          /\ 0 \in Editions /\ stored[r].rev \in Nat /\ arrival.rev \in Nat
          /\ owed[r] \in {0, stored[r].rev} /\ journal[r] \in {NoCells, stored[r].cells}
      BY <1>0, EditionsAreNaturals DEF LocalTypeOK, Accounted, LocalRow
    <3>2. CASE arrival.rev > stored[r].rev
      BY <3>1, <3>2, <2>1
    <3>3. CASE ~(arrival.rev > stored[r].rev)
      BY <3>1, <3>3, <2>1
    <3> QED BY <3>2, <3>3
  <2>6. LocalTypeOK'
    BY <2>1, <2>2, <2>3, <2>4, <2>5, <1>0 DEF LocalTypeOK, StackFits, LocalRow, Receipt, Editions
  <2>7. Accounted'
    BY <2>2, <2>4, <2>5, <1>0 DEF Accounted
  <2>8. \A o \in WriteRows : stored'[o].rev = 0 => stored'[o].cells = NoCells
    BY <2>1, <2>2, <2>4, <1>0
  <2> QED BY <2>1, <2>4, <2>6, <2>7, <2>8, <1>0 DEF LocalInv, StackFits, Chained, IsNewest
<1>2. ASSUME NEW r \in WriteRows, Received(r) PROVE LocalInv'
  <2>1. /\ owed' = [owed EXCEPT ![r] = 0] /\ stored' = [stored EXCEPT ![r].hub = TRUE]
        /\ UNCHANGED <<receipts, journal, now, fixed>>
    BY <1>2 DEF Received
  <2>2. ASSUME NEW o \in WriteRows
        PROVE  /\ stored'[o] \in LocalRow /\ stored'[o].rev = stored[o].rev /\ stored'[o].cells = stored[o].cells
               /\ stored'[o].trashed = stored[o].trashed
    <3>1. stored[o] \in LocalRow
      BY <1>00
    <3>2. stored'[o] = IF o = r THEN [stored[o] EXCEPT !.hub = TRUE] ELSE stored[o]
      BY <2>1, <1>00
    <3> QED BY <3>1, <3>2 DEF LocalRow
  <2>3. stored' \in [WriteRows -> LocalRow] /\ owed' \in [WriteRows -> Editions]
    <3>1. DOMAIN stored' = WriteRows /\ stored' = [o \in WriteRows |-> stored'[o]]
      BY <2>1, <1>00
    <3>2. stored' \in [WriteRows -> LocalRow]
      BY <3>1, <2>2
    <3>3. owed' \in [WriteRows -> Editions]
      BY <2>1, <1>0, EditionsAreNaturals DEF LocalTypeOK
    <3> QED BY <3>2, <3>3
  <2> DEFINE then == stored'
  <2>4. ASSUME NEW i \in DOMAIN receipts, Matches(receipts[i].after, stored[receipts[i].row])
        PROVE  Matches(receipts[i].after, then[receipts[i].row])
    <3>1. receipts[i].row \in WriteRows /\ receipts[i].after \in LocalRow
      BY <1>00, StackItems
    <3>2. stored[receipts[i].row] \in LocalRow
      BY <3>1, <1>00
    <3> QED BY <2>2, <2>4, <3>1, <3>2, MatchesMeans
  <2>5. StackFits(receipts, then)
    <3> HIDE DEF then
    <3> QED BY <2>4, <1>0, <1>00, MarkedFits
  <2>6. LocalTypeOK'
    BY <2>1, <2>3, <1>0 DEF LocalTypeOK, LocalRow, Receipt, Editions
  <2>7. Accounted'
    BY <2>1, <2>2, <1>0 DEF Accounted, LocalTypeOK
  <2> QED BY <2>1, <2>2, <2>5, <2>6, <2>7, <1>0 DEF LocalInv, StackFits, Chained, IsNewest
<1>3. CASE Forget
  <2>1. receipts' = <<>> /\ UNCHANGED <<stored, journal, owed, now, fixed>>
    BY <1>3 DEF Forget
  <2>2. <<>> \in Seq(Receipt) /\ Len(<<>>) = 0 /\ DOMAIN <<>> = {} /\ 0 <= Depth
    BY EditionsAreNaturals
  <2>3. StackFits(receipts', stored')
    BY <2>1, <2>2 DEF StackFits, Chained
  <2>4. (LocalTypeOK /\ Accounted)'
    BY <2>1, <2>2, <1>0 DEF LocalTypeOK, LocalRow, Receipt, Editions, Accounted
  <2> QED BY <2>1, <2>3, <2>4, <1>0 DEF LocalInv, StackFits, Chained, IsNewest
<1>4. CASE SetClock \/ Recatalog
  <2>1. UNCHANGED <<stored, receipts, journal, owed>> /\ now' \in Editions /\ now' > 0 /\ fixed' \in BOOLEAN
    <3>1. CASE SetClock
      <4>1. now' \in Editions /\ now' # 0 /\ UNCHANGED <<stored, receipts, journal, owed, fixed>>
        BY <3>1 DEF SetClock
      <4>2. now' \in Nat /\ fixed \in BOOLEAN
        BY <4>1, <1>0, EditionsAreNaturals DEF LocalTypeOK
      <4> QED BY <4>1, <4>2
    <3>2. CASE Recatalog
      BY <3>2, <1>0 DEF Recatalog, LocalTypeOK
    <3> QED BY <1>4, <3>1, <3>2
  <2> QED BY <2>1, <1>0 DEF LocalInv, LocalTypeOK, LocalRow, Receipt, Editions, Accounted, StackFits, Chained, IsNewest
<1>5. CASE Reshape
  <2>1. /\ receipts' = [i \in DOMAIN receipts |-> [receipts[i] EXCEPT !.fits = FALSE]]
        /\ UNCHANGED <<stored, journal, owed, now, fixed>>
    BY <1>5 DEF Reshape
  <2>2. DOMAIN receipts = 1 .. Len(receipts)
    BY <1>00
  <2>3. ASSUME NEW i \in DOMAIN receipts
        PROVE  /\ receipts'[i] \in Receipt /\ receipts'[i].row = receipts[i].row
               /\ receipts'[i].before = receipts[i].before /\ receipts'[i].after = receipts[i].after
               /\ receipts'[i].made = receipts[i].made /\ receipts'[i].kind = receipts[i].kind
               /\ receipts'[i].clean = receipts[i].clean
    <3>1. receipts[i] \in Receipt /\ receipts'[i] = [receipts[i] EXCEPT !.fits = FALSE]
      BY <2>1, <1>00, StackItems
    <3> QED BY <3>1 DEF Receipt
  <2> DEFINE marked == receipts'
  <2>4. marked \in [1 .. Len(receipts) -> Receipt]
    BY <2>1, <2>2, <2>3
  <2>5. marked \in Seq(Receipt) /\ Len(marked) = Len(receipts)
    BY <2>4, <1>00, SeqOfLength
  <2>6. StackFits(marked, stored)
    <3> HIDE DEF marked
    <3>1. \A i \in DOMAIN receipts :
            /\ marked[i].row = receipts[i].row /\ marked[i].before = receipts[i].before
            /\ marked[i].after = receipts[i].after /\ marked[i].made = receipts[i].made
            /\ marked[i].kind = receipts[i].kind /\ marked[i].clean = receipts[i].clean
      BY <2>3 DEF marked
    <3> QED BY <3>1, <2>5, <1>0, MarkedFits
  <2>7. LocalTypeOK'
    BY <2>1, <2>5, <1>00, <1>0 DEF LocalTypeOK, LocalRow, Receipt, Editions
  <2> QED BY <2>1, <2>6, <2>7, <1>0 DEF LocalInv, Accounted, StackFits, Chained, IsNewest
<1> QED BY <1>1, <1>2, <1>3, <1>4, <1>5

LEMMA LocalSteps == LocalInv /\ [LocalNext]_localVars => LocalInv'
<1> SUFFICES ASSUME LocalInv, [LocalNext]_localVars PROVE LocalInv'
  OBVIOUS
<1>1. CASE UNCHANGED localVars
  BY <1>1 DEF localVars, LocalInv, LocalTypeOK, LocalRow, Receipt, Editions, Accounted, StackFits, Chained, IsNewest
<1>2. CASE LocalNext
  BY <1>2, SessionKeeps, UndoKeeps, OthersKeep DEF LocalNext
<1> QED BY <1>1, <1>2

\* For any rows, contents, depth and clocks: undo puts back exactly what its write changed
\* and nobody changed since, stays available until someone does, and every edit leaves its
\* history and its debt to the hub.
THEOREM WritesAreSound == LocalSpec => []WritesSound
<1>1. LocalInv => WritesSound
  <2> SUFFICES ASSUME LocalInv PROVE WritesSound
    OBVIOUS
  <2>1. LocalTypeOK /\ Accounted /\ StackFits(receipts, stored)
    BY DEF LocalInv
  <2>2. ASSUME NEW i \in DOMAIN receipts
        PROVE  /\ receipts[i] \in Receipt /\ receipts[i].row \in WriteRows /\ ReceiptFits(receipts[i])
               /\ stored[receipts[i].row] \in LocalRow
    BY <2>1, StackItems DEF LocalTypeOK, StackFits
  <2>3. UndoExact
    BY <2>2, InverseMeans DEF UndoExact
  <2>4. UndoAvailable
    BY <2>1 DEF UndoAvailable, StackFits, IsNewest, Newest
  <2> QED BY <2>1, <2>3, <2>4 DEF WritesSound
<1> QED BY LocalStarts, LocalSteps, <1>1, PTL DEF LocalSpec

-----------------------------------------------------------------------------
(* SearchIndex *)

\* The entry is the row's, by the definition the index recorded.
Recorded(t, id) ==
  entry[t][id] = IF text[t][id] = NoText THEN NoEntry
                 ELSE [text |-> text[t][id], def |-> tracked[t]]

\* A described table: with its triggers, what is not recorded is queued or ahead of the
\* walk; without them the walk has yet to begin, or the table is to be reconciled; and a
\* row that is gone ahead of the walk has no entry, unless it is queued or to be purged.
DescribedFits(t) ==
  /\ t \in trigger => t \in ready.trigger
  /\ work[t].purge => work[t].back = 0
  /\ t \in trigger => \A id \in SearchIds :
       Recorded(t, id) \/ <<t, id>> \in queue \/ (work[t].back # NoWalk /\ id > work[t].back)
  /\ t \notin trigger /\ t \notin ready.trigger => work[t].back = 0
  /\ work[t].back # NoWalk /\ (t \in trigger \/ t \notin ready.trigger) =>
       \A id \in SearchIds : id > work[t].back /\ text[t][id] = NoText /\ <<t, id>> \notin queue
                               => entry[t][id] = NoEntry \/ work[t].purge

\* The index describes the tables the last reconciliation wanted; what it does not
\* describe has no entries, or is to be purged.
TableFits(t) ==
  /\ t \in ready.wanted => tracked[t] = ready.def[t] /\ tracked[t] # Untracked
  /\ t \notin ready.wanted => tracked[t] = Untracked
  /\ ~Described(t) => \A id \in SearchIds : entry[t][id] = NoEntry \/ work[t].purge
  /\ Described(t) => DescribedFits(t)

SearchInv == SearchTypeOK /\ \A t \in SearchTables : TableFits(t)

LEMMA SearchNumbers ==
  /\ SearchIds \subseteq Nat /\ \A id \in SearchIds : id > 0 /\ id \in Nat
  /\ NoWalk = -1 /\ \A d \in Definitions : d # Untracked
BY SearchConstants DEF NoWalk, Definitions, Untracked

\* The typed fields of a table.
LEMMA SearchFields ==
  ASSUME SearchTypeOK, NEW t \in SearchTables
  PROVE  /\ def[t] \in Definitions /\ tracked[t] \in Definitions \cup {Untracked}
         /\ work[t] = [purge |-> work[t].purge, back |-> work[t].back]
         /\ work[t].purge \in BOOLEAN /\ work[t].back \in {NoWalk, 0} \cup SearchIds /\ work[t].back \in Int
         /\ work[t] \in [purge : BOOLEAN, back : {NoWalk, 0} \cup SearchIds]
<1>1. work[t] \in [purge : BOOLEAN, back : {NoWalk, 0} \cup SearchIds]
  BY DEF SearchTypeOK
<1>2. work[t].back \in {NoWalk, 0} \cup SearchIds
  BY <1>1
<1>3. work[t].back \in Int
  <2>1. {NoWalk, 0} \cup SearchIds \subseteq Int
    <3>1. NoWalk \in Int
      BY DEF NoWalk
    <3>2. SearchIds \subseteq Int
      BY SearchNumbers
    <3> QED BY <3>1, <3>2
  <2> QED BY <1>2, <2>1, ZenonT(30)
<1>4. def[t] \in Definitions /\ tracked[t] \in Definitions \cup {Untracked}
  BY DEF SearchTypeOK
<1> QED BY <1>1, <1>2, <1>3, <1>4

\* A step that leaves a table alone keeps it.
LEMMA TableStays ==
  ASSUME NEW t \in SearchTables, TableFits(t),
         text'[t] = text[t], entry'[t] = entry[t], tracked'[t] = tracked[t], work'[t] = work[t],
         t \in trigger' <=> t \in trigger,
         \A id \in SearchIds : <<t, id>> \in queue' <=> <<t, id>> \in queue,
         t \in (ready.wanted)' <=> t \in ready.wanted,
         t \in (ready.trigger)' <=> t \in ready.trigger,
         (ready.def)'[t] = ready.def[t]
  PROVE  TableFits(t)'
<1>1. DescribedFits(t) => DescribedFits(t)'
  BY DEF DescribedFits, Recorded
<1> QED BY <1>1 DEF TableFits, Described

\* Of a table that is current, the index's record is what the hub wants now.
LEMMA ReconciledMeans ==
  ASSUME SearchInv, Reconciled, NEW t \in SearchTables
  PROVE  /\ ready.wanted = wanted /\ ready.trigger = trigger /\ ready.def = def
         /\ Described(t) <=> t \in wanted
         /\ Described(t) => tracked[t] = def[t]
BY SearchFields, SearchNumbers DEF SearchInv, TableFits, Described, Reconciled, Stamp

LEMMA SearchStarts == SearchInit => SearchInv
<1> SUFFICES ASSUME SearchInit PROVE SearchInv
  OBVIOUS
<1>1. 0 \in Definitions /\ NoEntry \in [text : Texts \cup {NoText}, def : Definitions]
  BY DEF Definitions, NoEntry
<1>2. NoWork \in [purge : BOOLEAN, back : {NoWalk, 0} \cup SearchIds]
  BY DEF NoWork
<1>3. SearchTypeOK
  BY <1>1, <1>2 DEF SearchInit, SearchTypeOK
<1>4. ASSUME NEW t \in SearchTables PROVE TableFits(t)
  BY DEF SearchInit, TableFits, Described, NeverReady
<1> QED BY <1>3, <1>4 DEF SearchInv

\* A program writes or deletes a row.
LEMMA EditRowKeeps ==
  ASSUME SearchInv, ~EarlyDeletes, NEW t \in SearchTables, NEW id \in SearchIds, EditRow(t, id)
  PROVE  SearchInv'
<1>1. PICK new \in Texts \cup {NoText} :
        /\ new # NoText \/ ~Forgettable(t, id)
        /\ text' = [text EXCEPT ![t][id] = new]
        /\ queue' = IF t \in trigger THEN queue \cup {<<t, id>>} ELSE queue
        /\ UNCHANGED <<def, wanted, trigger, entry, tracked, work, ready>>
  BY DEF EditRow
<1>2. SearchTypeOK /\ \A u \in SearchTables : TableFits(u)
  BY DEF SearchInv
<1>3. /\ \A u \in SearchTables : u # t => text'[u] = text[u]
      /\ text'[t][id] = new /\ \A i \in SearchIds : i # id => text'[t][i] = text[t][i]
      /\ text' \in [SearchTables -> [SearchIds -> Texts \cup {NoText}]]
  BY <1>1, <1>2 DEF SearchTypeOK
<1>4. SearchTypeOK'
  BY <1>1, <1>2, <1>3 DEF SearchTypeOK, NeverReady, Definitions, NoWalk, Untracked
<1>5. ASSUME NEW u \in SearchTables, u # t PROVE TableFits(u)'
  BY <1>1, <1>2, <1>3, <1>5, TableStays
<1>6. TableFits(t)'
  <2>1. ASSUME Described(t) PROVE DescribedFits(t)'
    <3>1. DescribedFits(t)
      BY <1>2, <2>1 DEF TableFits
    <3>2. CASE t \in trigger
      <4>1. queue' = queue \cup {<<t, id>>}
        BY <1>1, <3>2
      <4>2. \A i \in SearchIds : i # id => (<<t, i>> \in queue' <=> <<t, i>> \in queue) /\ text'[t][i] = text[t][i]
        <5>1. \A i \in SearchIds : i # id => (<<t, i>> \in queue' <=> <<t, i>> \in queue)
          BY <4>1
        <5> QED BY <5>1, <1>3
      <4>3. <<t, id>> \in queue'
        BY <4>1
      <4> QED BY <4>2, <4>3, <3>1, <3>2, <1>1 DEF DescribedFits, Recorded
    <3>3. CASE t \notin trigger
      <4>1. queue' = queue
        BY <1>1, <3>3
      <4>2. ASSUME t \notin ready.trigger, text'[t][id] = NoText
            PROVE  entry[t][id] = NoEntry \/ work[t].purge
        <5>1. work[t].back = 0 /\ ~Forgettable(t, id)
          BY <4>2, <3>1, <3>3, <1>1, <1>3 DEF DescribedFits
        <5>2. work[t].purge \in BOOLEAN /\ work[t] = [purge |-> work[t].purge, back |-> work[t].back]
          BY <1>2, SearchFields
        <5>3. CASE ~work[t].purge
          <6>1. work[t] = [purge |-> FALSE, back |-> 0]
            BY <5>1, <5>2, <5>3
          <6> QED BY <6>1, <5>1, <3>3 DEF Forgettable
        <5> QED BY <5>3
      <4> QED BY <4>1, <4>2, <3>1, <3>3, <1>1, <1>3 DEF DescribedFits
    <3> QED BY <3>2, <3>3
  <2> QED BY <2>1, <1>1, <1>2 DEF TableFits, Described
<1> QED BY <1>4, <1>5, <1>6 DEF SearchInv

\* What is to be indexed changes, or a table loses its triggers.
LEMMA AroundKeeps ==
  ASSUME SearchInv, NEW t \in SearchTables, Redefine(t) \/ Choose(t) \/ Rebuild(t)
  PROVE  SearchInv'
<1>1. SearchTypeOK /\ \A u \in SearchTables : TableFits(u)
  BY DEF SearchInv
<1>2. CASE Redefine(t)
  <2>1. /\ def' = [def EXCEPT ![t] = 1 - @]
        /\ UNCHANGED <<text, wanted, trigger, entry, queue, tracked, work, ready>>
    BY <1>2 DEF Redefine
  <2>2. def' \in [SearchTables -> Definitions]
    <3>1. \A d \in Definitions : 1 - d \in Definitions
      BY DEF Definitions
    <3> QED BY <3>1, <2>1, <1>1 DEF SearchTypeOK
  <2>3. SearchTypeOK'
    BY <2>1, <2>2, <1>1 DEF SearchTypeOK, NeverReady, Definitions, NoWalk, Untracked
  <2>4. ASSUME NEW u \in SearchTables PROVE TableFits(u)'
    BY <2>1, <1>1, TableStays
  <2> QED BY <2>3, <2>4 DEF SearchInv
<1>3. CASE Choose(t)
  <2>1. /\ wanted' \subseteq SearchTables
        /\ UNCHANGED <<text, def, trigger, entry, queue, tracked, work, ready>>
    BY <1>1, <1>3 DEF Choose, SearchTypeOK
  <2>2. SearchTypeOK'
    BY <2>1, <1>1 DEF SearchTypeOK, NeverReady, Definitions, NoWalk, Untracked
  <2>3. ASSUME NEW u \in SearchTables PROVE TableFits(u)'
    BY <2>1, <1>1, TableStays
  <2> QED BY <2>2, <2>3 DEF SearchInv
<1>4. CASE Rebuild(t)
  <2>1. /\ trigger' = trigger \ {t}
        /\ UNCHANGED <<text, def, wanted, entry, queue, tracked, work, ready>>
    BY <1>4 DEF Rebuild
  <2>2. SearchTypeOK'
    BY <2>1, <1>1 DEF SearchTypeOK, NeverReady, Definitions, NoWalk, Untracked
  <2>3. ASSUME NEW u \in SearchTables, u # t PROVE TableFits(u)'
    BY <2>1, <2>3, <1>1, TableStays
  <2>4. TableFits(t)'
    <3>1. TableFits(t)
      BY <1>1
    <3>2. Described(t) => DescribedFits(t)'
      BY <3>1, <2>1 DEF TableFits, DescribedFits
    <3> QED BY <3>1, <3>2, <2>1 DEF TableFits, Described
  <2> QED BY <2>2, <2>3, <2>4 DEF SearchInv
<1> QED BY <1>2, <1>3, <1>4

\* The cache is lost or the replica restored: nothing is described, and nothing is there.
LEMMA LossKeeps ==
  ASSUME SearchInv, LoseCache \/ \E rows \in Restorable : Restored(rows)
  PROVE  SearchInv'
<1>1. SearchTypeOK
  BY DEF SearchInv
<1>2. /\ entry' = [t \in SearchTables |-> [id \in SearchIds |-> NoEntry]]
      /\ queue' = {} /\ tracked' = [t \in SearchTables |-> Untracked] /\ ready' = NeverReady
      /\ trigger' \subseteq SearchTables /\ UNCHANGED <<def, wanted>>
      /\ text' \in [SearchTables -> [SearchIds -> Texts \cup {NoText}]]
      /\ work' \in [SearchTables -> [purge : BOOLEAN, back : {NoWalk, 0} \cup SearchIds]]
  <2>1. CASE LoseCache
    <3>1. NoWork \in [purge : BOOLEAN, back : {NoWalk, 0} \cup SearchIds]
      BY DEF NoWork
    <3> QED BY <3>1, <2>1, <1>1 DEF LoseCache, SearchTypeOK
  <2>2. ASSUME NEW rows \in Restorable, Restored(rows)
        PROVE  /\ entry' = [t \in SearchTables |-> [id \in SearchIds |-> NoEntry]]
               /\ queue' = {} /\ tracked' = [t \in SearchTables |-> Untracked] /\ ready' = NeverReady
               /\ trigger' \subseteq SearchTables /\ UNCHANGED <<def, wanted>>
               /\ text' \in [SearchTables -> [SearchIds -> Texts \cup {NoText}]]
               /\ work' \in [SearchTables -> [purge : BOOLEAN, back : {NoWalk, 0} \cup SearchIds]]
    <3>1. rows \in [SearchTables -> [SearchIds -> Texts \cup {NoText}]]
      BY DEF Restorable
    <3> QED BY <3>1, <2>2, <1>1 DEF Restored, SearchTypeOK
  <2> QED BY <2>1, <2>2
<1>3. SearchTypeOK'
  <2>1. NoEntry \in [text : Texts \cup {NoText}, def : Definitions]
    BY DEF NoEntry, Definitions
  <2>2. entry' \in [SearchTables -> [SearchIds -> [text : Texts \cup {NoText}, def : Definitions]]]
    BY <2>1, <1>2
  <2> QED BY <2>2, <1>1, <1>2 DEF SearchTypeOK, NeverReady, Definitions, NoWalk, Untracked
<1>4. ASSUME NEW t \in SearchTables PROVE TableFits(t)'
  <2>1. tracked'[t] = Untracked /\ (ready.wanted)' = {} /\ \A id \in SearchIds : entry'[t][id] = NoEntry
    BY <1>2 DEF NeverReady
  <2>2. (~Described(t))'
    BY <2>1 DEF Described
  <2> QED BY <2>1, <2>2 DEF TableFits
<1> QED BY <1>3, <1>4 DEF SearchInv

\* A reconciliation retires what is not wanted and walks what changed.
LEMMA ReconcileKeeps ==
  ASSUME SearchInv, Reconcile
  PROVE  SearchInv'
<1>1. SearchTypeOK /\ \A t \in SearchTables : TableFits(t)
  BY DEF SearchInv
<1>2. /\ trigger' = trigger \cap wanted
      /\ queue' = {o \in queue : o[1] \notin Retired}
      /\ tracked' = [t \in SearchTables |-> IF t \in Retired THEN Untracked
                                            ELSE IF Changed(t) THEN def[t] ELSE tracked[t]]
      /\ work' = [t \in SearchTables |->
                    IF t \in Retired THEN [purge |-> TRUE, back |-> NoWalk]
                    ELSE IF Changed(t) THEN [purge |-> Entries(t) # {}, back |-> 0]
                    ELSE work[t]]
      /\ ready' = [def |-> def, wanted |-> wanted, trigger |-> trigger \cap wanted]
      /\ UNCHANGED <<text, def, wanted, entry>>
  BY DEF Reconcile
<1>3. (ready.def)' = def /\ (ready.wanted)' = wanted /\ (ready.trigger)' = trigger \cap wanted
  BY <1>2
<1>4. ASSUME NEW t \in SearchTables
      PROVE  /\ tracked'[t] \in Definitions \cup {Untracked}
             /\ work'[t] \in [purge : BOOLEAN, back : {NoWalk, 0} \cup SearchIds]
             /\ TableFits(t)'
  <2> USE SearchFields, <1>1
  <2>1. CASE t \in Retired
    <3>1. tracked'[t] = Untracked /\ work'[t] = [purge |-> TRUE, back |-> NoWalk] /\ t \notin wanted
      BY <1>2, <2>1 DEF Retired
    <3>2. (~Described(t))' /\ work'[t].purge
      BY <3>1 DEF Described
    <3> QED BY <3>1, <3>2, <1>3 DEF TableFits
  <2>2. CASE t \notin Retired /\ Changed(t)
    <3>1. tracked'[t] = def[t] /\ work'[t] = [purge |-> Entries(t) # {}, back |-> 0] /\ t \in wanted
      BY <1>2, <2>2 DEF Changed
    <3>2. def[t] \in Definitions /\ def[t] # Untracked
      BY SearchNumbers
    <3>3. work'[t].back = 0 /\ work'[t].purge = (Entries(t) # {}) /\ 0 # NoWalk
      BY <3>1, SearchNumbers
    <3>4. \A id \in SearchIds : id > 0 /\ (entry'[t][id] = NoEntry \/ work'[t].purge)
      BY <3>3, <1>2, SearchNumbers DEF Entries
    <3>5. DescribedFits(t)'
      BY <3>3, <3>4, <1>2, <1>3 DEF DescribedFits
    <3> QED BY <3>1, <3>2, <3>5, <1>3 DEF TableFits, Described
  <2>3. CASE t \notin Retired /\ ~Changed(t)
    <3>1. tracked'[t] = tracked[t] /\ work'[t] = work[t]
      BY <1>2, <2>3
    <3>2. TableFits(t)
      OBVIOUS
    <3>3. CASE t \notin wanted
      <4>1. ~Described(t) /\ tracked[t] = Untracked
        BY <2>3, <3>3 DEF Retired, Described
      <4>2. (~Described(t))'
        BY <4>1, <3>1 DEF Described
      <4> QED BY <4>1, <4>2, <3>1, <3>2, <3>3, <1>2, <1>3 DEF TableFits
    <3>4. CASE t \in wanted
      <4>1. tracked[t] = def[t] /\ t \in trigger /\ def[t] # Untracked
        BY <2>3, <3>4, SearchNumbers DEF Changed
      <4>2. DescribedFits(t)
        BY <4>1, <3>2 DEF TableFits, Described
      <4>3. t \in trigger' /\ t \in (ready.trigger)'
        BY <4>1, <3>4, <1>2, <1>3
      <4>4. \A id \in SearchIds : <<t, id>> \in queue' <=> <<t, id>> \in queue
        BY <2>3, <1>2
      <4>5. DescribedFits(t)'
        BY <4>1, <4>2, <4>3, <4>4, <3>1, <1>2 DEF DescribedFits, Recorded
      <4> QED BY <4>1, <4>5, <3>1, <3>4, <1>3 DEF TableFits, Described
    <3> QED BY <3>1, <3>3, <3>4
  <2> QED BY <2>1, <2>2, <2>3
<1>5. SearchTypeOK'
  <2>1. tracked' \in [SearchTables -> Definitions \cup {Untracked}]
    BY <1>2, <1>4
  <2>2. work' \in [SearchTables -> [purge : BOOLEAN, back : {NoWalk, 0} \cup SearchIds]]
    BY <1>2, <1>4
  <2>3. ready' \in [def : [SearchTables -> Definitions], wanted : SUBSET SearchTables, trigger : SUBSET SearchTables]
    BY <1>1, <1>2 DEF SearchTypeOK
  <2>4. queue' \subseteq SearchTables \X SearchIds /\ trigger' \subseteq SearchTables
    BY <1>1, <1>2 DEF SearchTypeOK
  <2> QED BY <2>1, <2>2, <2>3, <2>4, <1>1, <1>2 DEF SearchTypeOK, NeverReady, Definitions, NoWalk, Untracked
<1> QED BY <1>4, <1>5 DEF SearchInv

\* A chunk of a purge.
LEMMA PurgeKeeps ==
  ASSUME SearchInv, NEW t \in SearchTables, Purge(t)
  PROVE  SearchInv'
<1>1. SearchTypeOK /\ \A u \in SearchTables : TableFits(u)
  BY DEF SearchInv
<1>2. work[t].purge /\ UNCHANGED <<text, def, wanted, trigger, queue, tracked, ready>>
  BY DEF Purge
<1>3. ASSUME NEW gone \in Entries(t), entry' = [entry EXCEPT ![t][gone] = NoEntry], UNCHANGED work
      PROVE  SearchInv'
  <2>1. gone \in SearchIds
    BY DEF Entries
  <2>2. /\ \A u \in SearchTables : u # t => entry'[u] = entry[u]
        /\ entry'[t][gone] = NoEntry /\ \A i \in SearchIds : i # gone => entry'[t][i] = entry[t][i]
    BY <2>1, <1>1, <1>3 DEF SearchTypeOK
  <2>3. entry' \in [SearchTables -> [SearchIds -> [text : Texts \cup {NoText}, def : Definitions]]]
    <3>1. NoEntry \in [text : Texts \cup {NoText}, def : Definitions]
      BY DEF NoEntry, Definitions
    <3> QED BY <3>1, <2>1, <1>1, <1>3 DEF SearchTypeOK
  <2>4. SearchTypeOK'
    BY <2>3, <1>1, <1>2, <1>3 DEF SearchTypeOK, NeverReady, Definitions, NoWalk, Untracked
  <2>5. ASSUME NEW u \in SearchTables, u # t PROVE TableFits(u)'
    BY <2>2, <2>5, <1>1, <1>2, <1>3, TableStays
  <2>6. Described(t) => DescribedFits(t)'
    <3> SUFFICES ASSUME Described(t) PROVE DescribedFits(t)'
      OBVIOUS
    <3>1. DescribedFits(t)
      BY <1>1 DEF TableFits
    <3>2. work[t].back = 0 /\ 0 # NoWalk /\ \A id \in SearchIds : id > 0
      BY <3>1, <1>2, SearchNumbers DEF DescribedFits
    <3> QED BY <3>1, <3>2, <1>2, <1>3 DEF DescribedFits
  <2>7. TableFits(t)'
    BY <2>6, <1>1, <1>2, <1>3 DEF TableFits, Described
  <2> QED BY <2>4, <2>5, <2>7 DEF SearchInv
<1>4. ASSUME Entries(t) = {}, work' = [work EXCEPT ![t].purge = FALSE], UNCHANGED entry
      PROVE  SearchInv'
  <2>1. \A id \in SearchIds : entry[t][id] = NoEntry
    BY <1>4 DEF Entries
  <2>2. /\ \A u \in SearchTables : u # t => work'[u] = work[u]
        /\ work'[t] = [work[t] EXCEPT !.purge = FALSE]
    BY <1>1, <1>4 DEF SearchTypeOK
  <2>3. work'[t].purge = FALSE /\ work'[t].back = work[t].back
        /\ work'[t] \in [purge : BOOLEAN, back : {NoWalk, 0} \cup SearchIds]
    <3>1. work[t] \in [purge : BOOLEAN, back : {NoWalk, 0} \cup SearchIds]
      BY <1>1, SearchFields
    <3> QED BY <3>1, <2>2
  <2>4. work' \in [SearchTables -> [purge : BOOLEAN, back : {NoWalk, 0} \cup SearchIds]]
    BY <2>2, <2>3, <1>1, <1>4 DEF SearchTypeOK
  <2>5. SearchTypeOK'
    BY <2>4, <1>1, <1>2, <1>4 DEF SearchTypeOK, NeverReady, Definitions, NoWalk, Untracked
  <2>6. ASSUME NEW u \in SearchTables, u # t PROVE TableFits(u)'
    BY <2>2, <2>6, <1>1, <1>2, <1>4, TableStays
  <2>7. Described(t) => DescribedFits(t)'
    <3> SUFFICES ASSUME Described(t) PROVE DescribedFits(t)'
      OBVIOUS
    <3>1. DescribedFits(t)
      BY <1>1 DEF TableFits
    <3> QED BY <3>1, <2>1, <2>3, <1>2, <1>4 DEF DescribedFits, Recorded
  <2>8. TableFits(t)'
    BY <2>1, <2>7, <1>1, <1>2, <1>4 DEF TableFits, Described
  <2> QED BY <2>5, <2>6, <2>8 DEF SearchInv
<1> QED BY <1>3, <1>4 DEF Purge

\* What a batch makes of a table's entries.
LEMMA IndexedMeans ==
  ASSUME SearchTypeOK, NEW t \in SearchTables, NEW ids, tracked[t] = def[t]
  PROVE  /\ Indexed(t, ids) \in [SearchTables -> [SearchIds -> [text : Texts \cup {NoText}, def : Definitions]]]
         /\ \A u \in SearchTables : u # t => Indexed(t, ids)[u] = entry[u]
         /\ \A id \in SearchIds : id \notin ids => Indexed(t, ids)[t][id] = entry[t][id]
         /\ \A id \in SearchIds : id \in ids =>
              Indexed(t, ids)[t][id] = IF text[t][id] = NoText THEN NoEntry
                                       ELSE [text |-> text[t][id], def |-> tracked[t]]
<1> DEFINE new == [id \in SearchIds |->
                     IF id \notin ids THEN entry[t][id]
                     ELSE IF text[t][id] = NoText THEN NoEntry
                     ELSE [text |-> text[t][id], def |-> def[t]]]
<1>1. /\ entry \in [SearchTables -> [SearchIds -> [text : Texts \cup {NoText}, def : Definitions]]]
      /\ \A id \in SearchIds : text[t][id] \in Texts \cup {NoText}
      /\ def[t] \in Definitions /\ NoEntry \in [text : Texts \cup {NoText}, def : Definitions]
  BY DEF SearchTypeOK, NoEntry, Definitions
<1>2. Indexed(t, ids) = [entry EXCEPT ![t] = new]
  BY DEF Indexed
<1>3. new \in [SearchIds -> [text : Texts \cup {NoText}, def : Definitions]]
  BY <1>1
<1>4. \A id \in SearchIds : new[id] = IF id \notin ids THEN entry[t][id]
                                     ELSE IF text[t][id] = NoText THEN NoEntry
                                     ELSE [text |-> text[t][id], def |-> tracked[t]]
  OBVIOUS
<1> HIDE DEF new
<1> QED BY <1>1, <1>2, <1>3, <1>4

\* One queued row is indexed.
LEMMA DrainKeeps ==
  ASSUME SearchInv, NEW t \in SearchTables, Drain(t)
  PROVE  SearchInv'
<1>1. SearchTypeOK /\ \A u \in SearchTables : TableFits(u)
  BY DEF SearchInv
<1>2. Reconciled /\ UNCHANGED <<text, def, wanted, trigger, tracked, work, ready>>
  BY DEF Drain
<1>3. CASE ~Described(t)
  <2>1. queue' = {o \in queue : o[1] # t} /\ UNCHANGED entry
    BY <1>3 DEF Drain
  <2>2. SearchTypeOK'
    BY <2>1, <1>1, <1>2 DEF SearchTypeOK, NeverReady, Definitions, NoWalk, Untracked
  <2>3. ASSUME NEW u \in SearchTables, u # t PROVE TableFits(u)'
    <3>1. \A id \in SearchIds : <<u, id>> \in queue' <=> <<u, id>> \in queue
      BY <2>1, <2>3
    <3> QED BY <3>1, <2>1, <1>1, <1>2, TableStays
  <2>4. TableFits(t)'
    BY <2>1, <1>1, <1>2, <1>3 DEF TableFits, Described
  <2> QED BY <2>2, <2>3, <2>4 DEF SearchInv
<1>4. CASE Described(t)
  <2>1. PICK id \in SearchIds : queue' = queue \ {<<t, id>>} /\ entry' = Indexed(t, {id})
    BY <1>4 DEF Drain, Queued
  <2>2. tracked[t] = def[t] /\ DescribedFits(t)
    BY <1>1, <1>2, <1>4, ReconciledMeans DEF TableFits
  <2>3. /\ entry' \in [SearchTables -> [SearchIds -> [text : Texts \cup {NoText}, def : Definitions]]]
        /\ \A u \in SearchTables : u # t => entry'[u] = entry[u]
        /\ \A i \in SearchIds : i # id => entry'[t][i] = entry[t][i]
        /\ entry'[t][id] = IF text[t][id] = NoText THEN NoEntry ELSE [text |-> text[t][id], def |-> tracked[t]]
    <3>1. id \in {id} /\ \A i \in SearchIds : i # id => i \notin {id}
      OBVIOUS
    <3> HIDE DEF Indexed
    <3> QED BY <3>1, <2>1, <2>2, <1>1, IndexedMeans
  <2>4. \A u \in SearchTables, i \in SearchIds : u # t \/ i # id => (<<u, i>> \in queue' <=> <<u, i>> \in queue)
    BY <2>1
  <2>5. SearchTypeOK'
    BY <2>1, <2>3, <1>1, <1>2 DEF SearchTypeOK, NeverReady, Definitions, NoWalk, Untracked
  <2>6. ASSUME NEW u \in SearchTables, u # t PROVE TableFits(u)'
    BY <2>3, <2>4, <2>6, <1>1, <1>2, TableStays
  <2>7. Recorded(t, id)'
    BY <2>3, <1>2 DEF Recorded
  <2>8. \A i \in SearchIds : i # id /\ Recorded(t, i) => Recorded(t, i)'
    BY <2>3, <1>2 DEF Recorded
  <2>9. text[t][id] = NoText => entry'[t][id] = NoEntry
    BY <2>3
  <2>10. DescribedFits(t)'
    BY <2>2, <2>3, <2>4, <2>7, <2>8, <2>9, <1>2 DEF DescribedFits
  <2>11. TableFits(t)'
    BY <2>10, <1>1, <1>2, <1>4 DEF TableFits, Described
  <2> QED BY <2>5, <2>6, <2>11 DEF SearchInv
<1> QED BY <1>3, <1>4

\* A read indexes the queue itself.
LEMMA ReadKeeps ==
  ASSUME SearchInv, ReadIndex
  PROVE  SearchInv'
<1>1. SearchTypeOK /\ \A t \in SearchTables : TableFits(t)
  BY DEF SearchInv
<1>2. /\ Reconciled /\ Walks = {} /\ queue' = {}
      /\ entry' = [t \in SearchTables |-> IF ~Described(t) THEN entry[t] ELSE Indexed(t, Queued(t))[t]]
      /\ UNCHANGED <<text, def, wanted, trigger, tracked, work, ready>>
  BY DEF ReadIndex
<1>3. ASSUME NEW t \in SearchTables
      PROVE  /\ entry'[t] \in [SearchIds -> [text : Texts \cup {NoText}, def : Definitions]]
             /\ TableFits(t)'
  <2>1. CASE ~Described(t)
    <3>1. entry'[t] = entry[t]
      BY <1>2, <2>1
    <3> QED BY <3>1, <2>1, <1>1, <1>2 DEF TableFits, Described, SearchTypeOK
  <2>2. CASE Described(t)
    <3>1. tracked[t] = def[t] /\ DescribedFits(t) /\ work[t].back = NoWalk
      BY <1>1, <1>2, <2>2, ReconciledMeans DEF TableFits, Walks
    <3>2. entry'[t] = Indexed(t, Queued(t))[t]
      BY <1>2, <2>2
    <3>3. /\ entry'[t] \in [SearchIds -> [text : Texts \cup {NoText}, def : Definitions]]
          /\ \A id \in SearchIds : id \notin Queued(t) => entry'[t][id] = entry[t][id]
          /\ \A id \in SearchIds : id \in Queued(t) =>
               entry'[t][id] = IF text[t][id] = NoText THEN NoEntry ELSE [text |-> text[t][id], def |-> tracked[t]]
      <4> HIDE DEF Indexed, Queued
      <4> QED BY <3>1, <3>2, <1>1, IndexedMeans
    <3>4. ASSUME t \in trigger, NEW id \in SearchIds PROVE Recorded(t, id)'
      <4>1. CASE id \in Queued(t)
        BY <4>1, <3>3, <1>2 DEF Recorded
      <4>2. CASE id \notin Queued(t)
        <5>1. Recorded(t, id)
          BY <4>2, <3>1, <3>4 DEF DescribedFits, Queued
        <5> QED BY <5>1, <4>2, <3>3, <1>2 DEF Recorded
      <4> QED BY <4>1, <4>2
    <3>5. DescribedFits(t)'
      BY <3>1, <3>4, <1>2 DEF DescribedFits
    <3> QED BY <3>3, <3>5, <2>2, <1>1, <1>2 DEF TableFits, Described
  <2> QED BY <2>1, <2>2
<1>4. entry' \in [SearchTables -> [SearchIds -> [text : Texts \cup {NoText}, def : Definitions]]]
  BY <1>2, <1>3
<1>5. SearchTypeOK'
  BY <1>1, <1>2, <1>4 DEF SearchTypeOK, NeverReady, Definitions, NoWalk, Untracked
<1> QED BY <1>3, <1>5 DEF SearchInv

\* The next row of a walk, or its end.
LEMMA WalkKeeps ==
  ASSUME SearchInv, NEW t \in SearchTables, Walk(t)
  PROVE  SearchInv'
<1> DEFINE next == {id \in SearchIds : Described(t) /\ text[t][id] # NoText /\ id > work[t].back}
           first == CHOOSE i \in next : \A j \in next : i <= j
<1>1. SearchTypeOK /\ \A u \in SearchTables : TableFits(u)
  BY DEF SearchInv
<1>2. /\ Reconciled /\ Purges = {} /\ queue = {} /\ work[t].back # NoWalk
      /\ IF next = {} THEN work' = [work EXCEPT ![t] = NoWork] /\ UNCHANGED entry
                      ELSE work' = [work EXCEPT ![t].back = first] /\ entry' = Indexed(t, {first})
      /\ trigger' = Armed(t) /\ ready' = [ready EXCEPT !.trigger = Armed(t)]
      /\ UNCHANGED <<text, def, wanted, queue, tracked>>
  BY DEF Walk, Walks
<1>3. /\ ready.wanted = wanted /\ ready.trigger = trigger /\ ready.def = def
      /\ ~work[t].purge /\ \A u \in SearchTables : ~work[u].purge
  BY <1>2, ReconciledMeans DEF Purges
<1>4. /\ ready' = [def |-> def, wanted |-> wanted, trigger |-> Armed(t)]
      /\ (ready.wanted)' = wanted /\ (ready.def)' = def /\ (ready.trigger)' = Armed(t)
  BY <1>2 DEF Reconciled, Stamp
<1>5. Armed(t) \in {trigger, trigger \cup {t}}
  BY DEF Armed
<1> HIDE DEF first, next
<1>6. work[t].back \in Int /\ work[t] \in [purge : BOOLEAN, back : {NoWalk, 0} \cup SearchIds]
  BY <1>1, SearchFields
<1> USE DEF first, next
<1>7. ASSUME entry' \in [SearchTables -> [SearchIds -> [text : Texts \cup {NoText}, def : Definitions]]],
             work' \in [SearchTables -> [purge : BOOLEAN, back : {NoWalk, 0} \cup SearchIds]],
             \A u \in SearchTables : u # t => entry'[u] = entry[u] /\ work'[u] = work[u],
             TableFits(t)'
      PROVE  SearchInv'
  <2>1. ready' \in [def : [SearchTables -> Definitions], wanted : SUBSET SearchTables, trigger : SUBSET SearchTables]
    BY <1>1, <1>4, <1>5 DEF SearchTypeOK
  <2>2. SearchTypeOK'
    BY <2>1, <1>1, <1>2, <1>5, <1>7 DEF SearchTypeOK, NeverReady, Definitions, NoWalk, Untracked
  <2>3. ASSUME NEW u \in SearchTables, u # t PROVE TableFits(u)'
    <3>1. u \in trigger' <=> u \in trigger
      BY <1>2, <1>5, <2>3
    <3>2. u \in (ready.trigger)' <=> u \in ready.trigger
      BY <1>3, <1>4, <1>5, <2>3
    <3> QED BY <3>1, <3>2, <2>3, <1>1, <1>2, <1>3, <1>4, <1>7, TableStays
  <2> QED BY <2>2, <2>3, <1>7 DEF SearchInv
<1>8. CASE ~Described(t)
  <2>1. next = {} /\ work' = [work EXCEPT ![t] = NoWork] /\ UNCHANGED entry
    BY <1>2, <1>8
  <2>2. work' \in [SearchTables -> [purge : BOOLEAN, back : {NoWalk, 0} \cup SearchIds]]
    BY <2>1, <1>1 DEF SearchTypeOK, NoWork
  <2>3. \A u \in SearchTables : u # t => work'[u] = work[u]
    BY <2>1, <1>1 DEF SearchTypeOK
  <2>4. TableFits(t)'
    BY <2>1, <1>1, <1>2, <1>3, <1>4, <1>8 DEF TableFits, Described
  <2>5. entry' \in [SearchTables -> [SearchIds -> [text : Texts \cup {NoText}, def : Definitions]]]
    BY <2>1, <1>1 DEF SearchTypeOK
  <2> QED BY <2>1, <2>2, <2>3, <2>4, <2>5, <1>7
<1>9. CASE Described(t)
  <2>1. DescribedFits(t) /\ tracked[t] = def[t]
    BY <1>1, <1>2, <1>9, ReconciledMeans DEF TableFits
  <2>2. t \in trigger \/ work[t].back = 0
    BY <2>1, <1>3 DEF DescribedFits
  <2>3. t \in trigger'
    BY <2>2, <1>2, <1>9 DEF Armed, Arms
  <2>4. t \in (ready.trigger)'
    BY <2>3, <1>2, <1>4
  <2>5. ASSUME NEW i \in SearchIds, text[t][i] = NoText, i > work[t].back PROVE entry[t][i] = NoEntry
    BY <2>5, <2>1, <1>2, <1>3 DEF DescribedFits
  <2>6. ASSUME NEW i \in SearchIds, ~(i > work[t].back) PROVE Recorded(t, i)
    <3>1. t \in trigger
      BY <2>2, <2>6, SearchNumbers
    <3> QED BY <3>1, <2>1, <2>6, <1>2 DEF DescribedFits
  <2>7. ASSUME NEW i \in SearchIds, i \notin next PROVE Recorded(t, i)
    <3>1. CASE i > work[t].back
      <4>1. text[t][i] = NoText /\ entry[t][i] = NoEntry
        BY <2>5, <2>7, <3>1, <1>9
      <4> QED BY <4>1 DEF Recorded
    <3> QED BY <3>1, <2>6
  <2>8. CASE next = {}
    <3>1. work' = [work EXCEPT ![t] = NoWork] /\ UNCHANGED entry
      BY <2>8, <1>2
    <3>2. /\ work' \in [SearchTables -> [purge : BOOLEAN, back : {NoWalk, 0} \cup SearchIds]]
          /\ work'[t] = NoWork /\ \A u \in SearchTables : u # t => work'[u] = work[u]
      BY <3>1, <1>1 DEF SearchTypeOK, NoWork
    <3>3. work'[t].back = NoWalk /\ ~work'[t].purge
      BY <3>2 DEF NoWork
    <3>4. \A i \in SearchIds : Recorded(t, i)'
      BY <2>7, <2>8, <3>1, <1>2 DEF Recorded
    <3>5. DescribedFits(t)'
      BY <2>3, <2>4, <3>3, <3>4 DEF DescribedFits
    <3>6. TableFits(t)'
      BY <3>5, <1>1, <1>2, <1>3, <1>4, <1>9 DEF TableFits, Described
    <3>7. entry' \in [SearchTables -> [SearchIds -> [text : Texts \cup {NoText}, def : Definitions]]]
      BY <3>1, <1>1 DEF SearchTypeOK
    <3> QED BY <3>1, <3>2, <3>6, <3>7, <1>7
  <2>9. CASE next # {}
    <3>1. first \in next /\ \A j \in next : first <= j
      <4>1. next \in SUBSET Nat
        BY SearchNumbers
      <4> HIDE DEF next
      <4>2. \E i \in next : \A j \in next : i <= j
        BY <4>1, <2>9, LeastNatural
      <4> QED BY <4>2
    <3>2. first \in SearchIds /\ first \in Nat /\ first > work[t].back
      BY <3>1, SearchNumbers
    <3>3. work' = [work EXCEPT ![t].back = first] /\ entry' = Indexed(t, {first})
      BY <2>9, <1>2
    <3>4. \A i \in SearchIds : i \notin next \/ i >= first
      BY <3>1
    <3> HIDE DEF first, next
    <3>5. /\ work'[t] = [work[t] EXCEPT !.back = first] /\ \A u \in SearchTables : u # t => work'[u] = work[u]
      BY <3>3, <1>1 DEF SearchTypeOK
    <3>6. /\ work'[t].back = first /\ work'[t].purge = work[t].purge
          /\ work'[t] \in [purge : BOOLEAN, back : {NoWalk, 0} \cup SearchIds]
      BY <3>2, <3>5, <1>6
    <3>7. work' \in [SearchTables -> [purge : BOOLEAN, back : {NoWalk, 0} \cup SearchIds]]
      BY <3>3, <3>5, <3>6, <1>1 DEF SearchTypeOK
    <3>8. /\ entry' \in [SearchTables -> [SearchIds -> [text : Texts \cup {NoText}, def : Definitions]]]
          /\ \A u \in SearchTables : u # t => entry'[u] = entry[u]
          /\ \A i \in SearchIds : i # first => entry'[t][i] = entry[t][i]
          /\ entry'[t][first] = IF text[t][first] = NoText THEN NoEntry ELSE [text |-> text[t][first], def |-> tracked[t]]
      <4>1. first \in {first} /\ \A i \in SearchIds : i # first => i \notin {first}
        OBVIOUS
      <4>2. first \in SearchIds /\ entry' = Indexed(t, {first}) /\ tracked[t] = def[t] /\ SearchTypeOK
        BY <3>2, <3>3, <2>1, <1>1
      <4>3. /\ Indexed(t, {first}) \in [SearchTables -> [SearchIds -> [text : Texts \cup {NoText}, def : Definitions]]]
            /\ \A u \in SearchTables : u # t => Indexed(t, {first})[u] = entry[u]
            /\ \A id \in SearchIds : id \notin {first} => Indexed(t, {first})[t][id] = entry[t][id]
            /\ \A id \in SearchIds : id \in {first} =>
                 Indexed(t, {first})[t][id] = IF text[t][id] = NoText THEN NoEntry
                                              ELSE [text |-> text[t][id], def |-> tracked[t]]
        BY <4>2, IndexedMeans
      <4> QED BY <4>1, <4>2, <4>3
    <3>9. ASSUME NEW i \in SearchIds PROVE Recorded(t, i)' \/ i > first
      <4>1. CASE i = first
        BY <4>1, <3>8, <1>2 DEF Recorded
      <4>2. CASE i # first /\ i \notin next
        BY <4>2, <2>7, <3>8, <1>2 DEF Recorded
      <4>3. CASE i # first /\ i \in next
        <5>1. i \in Nat /\ i >= first
          BY <4>3, <3>4, SearchNumbers
        <5> QED BY <5>1, <4>3, <3>2
      <4> QED BY <4>1, <4>2, <4>3
    <3>10. ASSUME NEW i \in SearchIds, i > first, text[t][i] = NoText PROVE entry'[t][i] = NoEntry
      <4>1. i \in Nat /\ first \in Nat /\ work[t].back \in Int /\ i > first /\ first > work[t].back
        BY <3>2, <3>10, <1>6, SearchNumbers
      <4>2. i # first /\ i > work[t].back
        BY <4>1
      <4> QED BY <4>2, <3>8, <3>10, <2>5
    <3>11. work'[t].back # NoWalk
      BY <3>2, <3>6, SearchNumbers
    <3>12. DescribedFits(t)'
      BY <2>3, <2>4, <3>6, <3>9, <3>10, <3>11, <1>2, <1>3 DEF DescribedFits
    <3>13. TableFits(t)'
      BY <3>12, <1>1, <1>2, <1>3, <1>4, <1>9 DEF TableFits, Described
    <3> QED BY <3>5, <3>7, <3>8, <3>13, <1>7
  <2> QED BY <2>8, <2>9
<1> QED BY <1>8, <1>9

LEMMA SearchSteps == ~EarlyDeletes /\ SearchInv /\ [SearchNext]_searchVars => SearchInv'
<1> SUFFICES ASSUME ~EarlyDeletes, SearchInv, [SearchNext]_searchVars PROVE SearchInv'
  OBVIOUS
<1>1. CASE UNCHANGED searchVars
  <2>1. UNCHANGED <<text, def, wanted, trigger, entry, queue, tracked, work, ready>>
    BY <1>1 DEF searchVars
  <2>2. SearchTypeOK'
    BY <2>1 DEF SearchInv, SearchTypeOK, NeverReady, Definitions, NoWalk, Untracked
  <2>3. ASSUME NEW t \in SearchTables PROVE TableFits(t)'
    BY <2>1, TableStays DEF SearchInv
  <2> QED BY <2>2, <2>3 DEF SearchInv
<1>2. CASE SearchNext
  BY <1>2, EditRowKeeps, AroundKeeps, LossKeeps, ReconcileKeeps, PurgeKeeps, DrainKeeps, ReadKeeps, WalkKeeps
     DEF SearchNext
<1> QED BY <1>1, <1>2

\* For any tables, rows and texts: but for the one deletion `Forgettable` names, which the
\* index is known to forget, whatever is edited, chosen, redefined, rebuilt, lost or restored
\* between the chunks, a row whose entry is not current is queued or will be walked, and a
\* finished step leaves exactly the entries of the rows.
THEOREM SearchIsSound == ~EarlyDeletes => (SearchSpec => []SearchSound)
<1> SUFFICES ASSUME ~EarlyDeletes PROVE SearchSpec => []SearchSound
  OBVIOUS
<1>1. SearchInv => SearchSound
  <2> SUFFICES ASSUME SearchInv PROVE SearchSound
    OBVIOUS
  <2>1. SearchTypeOK /\ \A t \in SearchTables : TableFits(t)
    BY DEF SearchInv
  <2>2. ASSUME Reconciled, NEW t \in SearchTables, NEW id \in SearchIds
        PROVE  \/ Current(t, id) /\ t \in wanted
               \/ t \notin wanted /\ (entry[t][id] = NoEntry \/ work[t].purge)
               \/ t \in wanted /\ (id \in Queued(t) \/ (t \in Walks /\ id > work[t].back))
    <3>1. CASE t \notin wanted
      BY <3>1, <2>1, <2>2, ReconciledMeans DEF TableFits
    <3>2. CASE t \in wanted
      <4>1. Described(t) /\ tracked[t] = def[t] /\ DescribedFits(t) /\ ready.trigger = trigger
        BY <3>2, <2>1, <2>2, ReconciledMeans DEF TableFits
      <4>2. CASE t \in trigger
        <5>1. Recorded(t, id) => Current(t, id)
          BY <4>1 DEF Recorded, Current
        <5> QED BY <5>1, <4>1, <4>2, <3>2 DEF DescribedFits, Queued, Walks
      <4>3. CASE t \notin trigger
        <5>1. work[t].back = 0
          BY <4>1, <4>3 DEF DescribedFits
        <5> QED BY <5>1, <3>2, SearchNumbers DEF Walks
      <4> QED BY <4>2, <4>3
    <3> QED BY <3>1, <3>2
  <2>3. Covered
    BY <2>2 DEF Covered
  <2>4. DoneExact
    BY <2>2 DEF DoneExact, Purges, Walks, Queued
  <2>5. Answering
    <3>1. ASSUME Reconciled PROVE {t \in SearchTables : Described(t)} = wanted
      <4>1. wanted \subseteq SearchTables /\ \A t \in SearchTables : Described(t) <=> t \in wanted
        BY <2>1, <3>1, ReconciledMeans DEF SearchTypeOK
      <4> QED BY <4>1
    <3> QED BY <3>1 DEF Answering
  <2> QED BY <2>1, <2>3, <2>4, <2>5 DEF SearchSound
<1> QED BY SearchStarts, SearchSteps, <1>1, PTL DEF SearchSpec

-----------------------------------------------------------------------------
(* CheckedWrite: sequences *)

\* What holds of the empty sequence and survives every Append holds of all.
LEMMA SequenceInduction ==
  ASSUME NEW S, NEW T \in SUBSET Seq(S), <<>> \in T,
         \A u \in T, x \in S : Append(u, x) \in T
  PROVE  T = Seq(S)
<1> SUFFICES ASSUME NEW s \in Seq(S), s \notin T PROVE FALSE
  OBVIOUS
<1> DEFINE Unreached == {n \in Nat : \E u \in Seq(S) \ T : Len(u) = n}
<1>1. Len(s) \in Unreached
  BY LenProperties
<1>2. PICK m \in Unreached : \A k \in Unreached : m <= k
  BY <1>1, LeastNatural
<1>3. PICK u \in Seq(S) : u \notin T /\ Len(u) = m
  BY <1>2
<1>4. u # <<>> /\ Len(u) \in Nat \ {0}
  BY <1>3, EmptySeq, LenProperties
<1>5. PICK v \in Seq(S), x \in S : u = Append(v, x)
  BY <1>4, SequenceEmptyOrAppend
<1>6. v \in Seq(S) \ T
  BY <1>3, <1>5
<1>7. Len(v) \in Nat /\ Len(u) = Len(v) + 1
  BY <1>5, AppendProperties, LenProperties
<1>8. Len(v) \in Unreached
  BY <1>6, <1>7
<1> HIDE DEF Unreached
<1> QED BY <1>2, <1>3, <1>7, <1>8

\* A function defined by recursion over an interval exists.
StepsOf(X, n) == [1 .. n -> [X -> X]]
Iterates(X, x0, n, Step, f) ==
  /\ f \in [0 .. n -> X] /\ f[0] = x0
  /\ \A k \in 1 .. n : f[k] = Step[k][f[k - 1]]

LEMMA RecursionExists ==
  ASSUME NEW X, NEW x0 \in X, NEW N \in Nat, NEW Step \in StepsOf(X, N)
  PROVE  \E f : Iterates(X, x0, N, Step, f)
<1> USE DEF StepsOf, Iterates
<1> DEFINE Fits(f, n) == f[0] = x0 /\ \A k \in 1 .. n : f[k] = Step[k][f[k - 1]]
           Lacking == {n \in 0 .. N : ~ \E f \in [0 .. n -> X] : Fits(f, n)}
<1> SUFFICES ASSUME Lacking # {} PROVE FALSE
  <2>1. N \notin Lacking
    OBVIOUS
  <2> QED BY <2>1
<1>1. PICK n \in Lacking : \A k \in Lacking : n <= k
  BY LeastNatural, Lacking \subseteq Nat
<1>2. CASE n = 0
  <2>1. [k \in 0 .. 0 |-> x0] \in [0 .. n -> X] /\ Fits([k \in 0 .. 0 |-> x0], n)
    BY <1>2
  <2> QED BY <2>1, <1>1
<1>3. CASE n # 0
  <2>1. n - 1 \in 0 .. N /\ n - 1 \notin Lacking
    <3>1. n \in 0 .. N
      BY <1>1
    <3> HIDE DEF Lacking
    <3> QED BY <3>1, <1>1, <1>3
  <2>2. PICK f \in [0 .. n - 1 -> X] : Fits(f, n - 1)
    BY <2>1
  <2> DEFINE g == [k \in 0 .. n |-> IF k = n THEN Step[n][f[n - 1]] ELSE f[k]]
  <2>3. n \in 1 .. N /\ f[n - 1] \in X
    BY <1>1, <1>3, <2>2
  <2>4. Step[n][f[n - 1]] \in X
    BY <2>3
  <2>5. g \in [0 .. n -> X]
    BY <2>3, <2>4
  <2>6. g[0] = x0
    BY <1>3, <2>2
  <2>7. ASSUME NEW k \in 1 .. n PROVE g[k] = Step[k][g[k - 1]]
    <3>1. k - 1 \in 0 .. n - 1 /\ g[k - 1] = f[k - 1]
      BY <2>3
    <3>2. CASE k = n
      BY <3>1, <3>2
    <3>3. CASE k # n
      BY <2>2, <3>1, <3>3
    <3> QED BY <3>2, <3>3
  <2> QED BY <2>5, <2>6, <2>7, <1>1
<1> QED BY <1>2, <1>3

\* The functions that go through a sequence and keep, one after the other, the
\* members they may after those they kept: what Keeping and OneByOne are made of.
Picks(S, ws, may, f) ==
  /\ f \in [0 .. Len(ws) -> Seq(S)] /\ f[0] = <<>>
  /\ \A k \in 1 .. Len(ws) :
       f[k] = IF <<f[k - 1], ws[k]>> \in may THEN Append(f[k - 1], ws[k]) ELSE f[k - 1]

LEMMA PicksExist ==
  ASSUME NEW S, NEW ws \in Seq(S), NEW may
  PROVE  \E f : Picks(S, ws, may, f)
<1> DEFINE Step == [k \in 1 .. Len(ws) |-> [u \in Seq(S) |->
                      IF <<u, ws[k]>> \in may THEN Append(u, ws[k]) ELSE u]]
<1>1. Len(ws) \in Nat /\ <<>> \in Seq(S)
  BY LenProperties, EmptySeq
<1>2. ASSUME NEW k \in 1 .. Len(ws), NEW u \in Seq(S) PROVE Append(u, ws[k]) \in Seq(S)
  BY ElementOfSeq, AppendProperties
<1>3. Step \in [1 .. Len(ws) -> [Seq(S) -> Seq(S)]]
  BY <1>2
<1>4. \A k \in 1 .. Len(ws), u \in Seq(S) :
        Step[k][u] = IF <<u, ws[k]>> \in may THEN Append(u, ws[k]) ELSE u
  OBVIOUS
<1> HIDE DEF Step
<1>5. PICK f : Iterates(Seq(S), <<>>, Len(ws), Step, f)
  <2>1. Step \in StepsOf(Seq(S), Len(ws))
    BY <1>3 DEF StepsOf
  <2> QED BY <1>1, <2>1, RecursionExists
<1>6. /\ f \in [0 .. Len(ws) -> Seq(S)] /\ f[0] = <<>>
      /\ \A k \in 1 .. Len(ws) : f[k] = Step[k][f[k - 1]]
  BY <1>5 DEF Iterates
<1>7. ASSUME NEW k \in 1 .. Len(ws)
      PROVE  f[k] = IF <<f[k - 1], ws[k]>> \in may THEN Append(f[k - 1], ws[k]) ELSE f[k - 1]
  <2>1. f[k - 1] \in Seq(S) /\ f[k] = Step[k][f[k - 1]]
    BY <1>1, <1>6
  <2> QED BY <2>1, <1>4
<1> QED BY <1>6, <1>7 DEF Picks

\* They depend on the members gone through only.
LEMMA PicksAgree ==
  ASSUME NEW S, NEW u \in Seq(S), NEW v \in Seq(S), NEW may, NEW f, NEW g,
         Picks(S, u, may, f), Picks(S, v, may, g), Len(u) <= Len(v),
         \A k \in 1 .. Len(u) : u[k] = v[k]
  PROVE  \A k \in 0 .. Len(u) : f[k] = g[k]
<1> DEFINE Differ == {k \in 0 .. Len(u) : f[k] # g[k]}
<1>1. Len(u) \in Nat /\ Len(v) \in Nat
  BY LenProperties
<1>2. SUFFICES ASSUME Differ # {} PROVE FALSE
  BY <1>1
<1>3. PICK k \in Differ : \A j \in Differ : k <= j
  <2>1. Differ \in SUBSET Nat
    BY <1>1
  <2> HIDE DEF Differ
  <2> QED BY <1>2, <2>1, LeastNatural
<1>4. k \in 0 .. Len(u) /\ f[k] # g[k]
  BY <1>3
<1>5. k # 0
  BY <1>4 DEF Picks
<1>6. k - 1 \in 0 .. Len(u) /\ k \in 1 .. Len(u) /\ k \in 1 .. Len(v)
  BY <1>1, <1>4, <1>5
<1>7. f[k - 1] = g[k - 1]
  <2>1. k - 1 \notin Differ
    <3> HIDE DEF Differ
    <3> QED BY <1>1, <1>3, <1>4
  <2> QED BY <2>1, <1>6
<1> QED BY <1>4, <1>6, <1>7 DEF Picks

\* One more member is kept or is not.
LEMMA PicksAppend ==
  ASSUME NEW S, NEW ws \in Seq(S), NEW x \in S, NEW may, NEW f, NEW g,
         Picks(S, ws, may, f), Picks(S, Append(ws, x), may, g)
  PROVE  /\ f[Len(ws)] \in Seq(S)
         /\ g[Len(Append(ws, x))] = IF <<f[Len(ws)], x>> \in may THEN Append(f[Len(ws)], x) ELSE f[Len(ws)]
<1> DEFINE n == Len(ws)
<1>1. /\ n \in Nat /\ Append(ws, x) \in Seq(S) /\ Len(Append(ws, x)) = n + 1
      /\ \A i \in 1 .. n : Append(ws, x)[i] = ws[i]
      /\ Append(ws, x)[n + 1] = x
  BY AppendProperties, LenProperties
<1>2. f[n] = g[n] /\ f[n] \in Seq(S)
  <2>1. \A k \in 0 .. Len(ws) : f[k] = g[k]
    <3>1. Len(ws) <= Len(Append(ws, x)) /\ \A k \in 1 .. Len(ws) : ws[k] = Append(ws, x)[k]
      BY <1>1
    <3> DEFINE more == Append(ws, x)
    <3>2. more \in Seq(S) /\ Picks(S, more, may, g) /\ Len(ws) <= Len(more)
          /\ \A k \in 1 .. Len(ws) : ws[k] = more[k]
      BY <1>1, <3>1
    <3> HIDE DEF more
    <3> QED BY <3>2, PicksAgree
  <2>2. n \in 0 .. n
    BY <1>1
  <2> QED BY <2>1, <2>2 DEF Picks
<1>3. n + 1 \in 1 .. Len(Append(ws, x)) /\ (n + 1) - 1 = n
  BY <1>1
<1> QED BY <1>1, <1>2, <1>3 DEF Picks

\* Two that went through the same sequence are one.
LEMMA PicksUnique ==
  ASSUME NEW S, NEW ws \in Seq(S), NEW may, NEW f, NEW g, Picks(S, ws, may, f), Picks(S, ws, may, g)
  PROVE  f[Len(ws)] = g[Len(ws)]
<1>1. Len(ws) \in Nat
  BY LenProperties
<1> QED BY <1>1, PicksAgree

\* A function that follows the rule wherever it is typed follows it.
LEMMA PicksTyped ==
  ASSUME NEW S, NEW ws \in Seq(S), NEW may, NEW h, h = [k \in 0 .. Len(ws) |-> h[k]], h[0] = <<>>,
         \A k \in 1 .. Len(ws) : h[k - 1] \in Seq(S) =>
           h[k] = IF <<h[k - 1], ws[k]>> \in may THEN Append(h[k - 1], ws[k]) ELSE h[k - 1]
  PROVE  Picks(S, ws, may, h)
<1> DEFINE Bad == {k \in 0 .. Len(ws) : h[k] \notin Seq(S)}
<1>1. Len(ws) \in Nat
  BY LenProperties
<1>2. ASSUME Bad # {} PROVE FALSE
  <2>1. PICK k \in Bad : \A j \in Bad : k <= j
    <3>1. Bad \in SUBSET Nat
      BY <1>1
    <3> HIDE DEF Bad
    <3> QED BY <1>2, <3>1, LeastNatural
  <2>2. k \in 0 .. Len(ws) /\ h[k] \notin Seq(S)
    BY <2>1
  <2>3. k # 0
    BY <2>2, EmptySeq
  <2>4. k - 1 \in 0 .. Len(ws) /\ k \in 1 .. Len(ws)
    BY <1>1, <2>2, <2>3
  <2>5. h[k - 1] \in Seq(S)
    <3>1. k - 1 \notin Bad
      <4> HIDE DEF Bad
      <4> QED BY <1>1, <2>1, <2>2
    <3> QED BY <3>1, <2>4
  <2>6. ws[k] \in S
    BY <2>4, ElementOfSeq
  <2> QED BY <2>2, <2>4, <2>5, <2>6, AppendProperties
<1>3. \A k \in 0 .. Len(ws) : h[k] \in Seq(S)
  BY <1>2
<1>4. h \in [0 .. Len(ws) -> Seq(S)]
  BY <1>3
<1>5. \A k \in 1 .. Len(ws) : k - 1 \in 0 .. Len(ws)
  BY <1>1
<1> QED BY <1>3, <1>4, <1>5 DEF Picks

LEMMA KeepingPicks ==
  ASSUME NEW S, NEW ws \in Seq(S), NEW fine
  PROVE  \E f : Picks(S, ws, Seq(S) \X fine, f) /\ Keeping(ws, fine) = f[Len(ws)]
<1> DEFINE h == CHOOSE h : h = [k \in 0 .. Len(ws) |->
                   IF k = 0 THEN <<>>
                   ELSE IF ws[k] \in fine THEN Append(h[k - 1], ws[k]) ELSE h[k - 1]]
<1>1. PICK f : Picks(S, ws, Seq(S) \X fine, f)
  BY PicksExist
<1>2. Len(ws) \in Nat
  BY LenProperties
<1>3. f = [k \in 0 .. Len(ws) |->
             IF k = 0 THEN <<>>
             ELSE IF ws[k] \in fine THEN Append(f[k - 1], ws[k]) ELSE f[k - 1]]
  <2>1. f \in [0 .. Len(ws) -> Seq(S)] /\ f[0] = <<>>
    BY <1>1 DEF Picks
  <2>2. ASSUME NEW k \in 0 .. Len(ws), k # 0
        PROVE  f[k] = IF ws[k] \in fine THEN Append(f[k - 1], ws[k]) ELSE f[k - 1]
    <3>1. k \in 1 .. Len(ws) /\ k - 1 \in 0 .. Len(ws)
      BY <1>2, <2>2
    <3> QED BY <1>1, <2>1, <3>1 DEF Picks
  <2> QED BY <2>1, <2>2
<1>4. h = [k \in 0 .. Len(ws) |->
             IF k = 0 THEN <<>>
             ELSE IF ws[k] \in fine THEN Append(h[k - 1], ws[k]) ELSE h[k - 1]]
  BY <1>3
<1>5. Keeping(ws, fine) = h[Len(ws)]
  BY DEF Keeping
<1> HIDE DEF h
<1>6. h = [k \in 0 .. Len(ws) |-> h[k]] /\ h[0] = <<>>
  BY <1>2, <1>4
<1>7. ASSUME NEW k \in 1 .. Len(ws), h[k - 1] \in Seq(S)
      PROVE  h[k] = IF <<h[k - 1], ws[k]>> \in Seq(S) \X fine THEN Append(h[k - 1], ws[k]) ELSE h[k - 1]
  <2>1. k \in 0 .. Len(ws) /\ k # 0
    BY <1>2
  <2> QED BY <1>4, <1>7, <2>1
<1>8. Picks(S, ws, Seq(S) \X fine, h)
  BY <1>6, <1>7, PicksTyped
<1> QED BY <1>5, <1>8

\* The answer of one-by-one writes, likewise: a row is taken after those before it.
Takeable(S, t, source, kind) == {p \in Seq(S) \X S : Takes(t, source, kind, p[1], p[2])}

LEMMA OneByOnePicks ==
  ASSUME NEW S, NEW ws \in Seq(S), NEW t, NEW source, NEW kind
  PROVE  \E f : /\ Picks(S, ws, Takeable(S, t, source, kind), f)
               /\ OneByOne(t, source, kind, ws) = f[Len(ws)]
<1> DEFINE May == Takeable(S, t, source, kind)
           h == CHOOSE h : h = [k \in 0 .. Len(ws) |->
                   IF k = 0 THEN <<>>
                   ELSE IF Takes(t, source, kind, h[k - 1], ws[k])
                        THEN Append(h[k - 1], ws[k]) ELSE h[k - 1]]
<1>1. PICK f : Picks(S, ws, May, f)
  <2> HIDE DEF May
  <2> QED BY PicksExist
<1>2. Len(ws) \in Nat
  BY LenProperties
<1>3. \A u \in Seq(S), w \in S : <<u, w>> \in May <=> Takes(t, source, kind, u, w)
  BY DEF Takeable
<1> HIDE DEF May
<1>4. f = [k \in 0 .. Len(ws) |->
             IF k = 0 THEN <<>>
             ELSE IF Takes(t, source, kind, f[k - 1], ws[k]) THEN Append(f[k - 1], ws[k]) ELSE f[k - 1]]
  <2>1. f \in [0 .. Len(ws) -> Seq(S)] /\ f[0] = <<>>
    BY <1>1 DEF Picks
  <2>2. ASSUME NEW k \in 0 .. Len(ws), k # 0
        PROVE  f[k] = IF Takes(t, source, kind, f[k - 1], ws[k]) THEN Append(f[k - 1], ws[k]) ELSE f[k - 1]
    <3>1. k \in 1 .. Len(ws) /\ k - 1 \in 0 .. Len(ws)
      BY <1>2, <2>2
    <3>2. f[k - 1] \in Seq(S) /\ ws[k] \in S
      BY <2>1, <3>1, ElementOfSeq
    <3> QED BY <1>1, <1>3, <3>1, <3>2 DEF Picks
  <2> QED BY <2>1, <2>2
<1>5. h = [k \in 0 .. Len(ws) |->
             IF k = 0 THEN <<>>
             ELSE IF Takes(t, source, kind, h[k - 1], ws[k]) THEN Append(h[k - 1], ws[k]) ELSE h[k - 1]]
  BY <1>4
<1>6. OneByOne(t, source, kind, ws) = h[Len(ws)]
  BY DEF OneByOne
<1> HIDE DEF h
<1>7. h = [k \in 0 .. Len(ws) |-> h[k]] /\ h[0] = <<>>
  BY <1>2, <1>5
<1>8. ASSUME NEW k \in 1 .. Len(ws), h[k - 1] \in Seq(S)
      PROVE  h[k] = IF <<h[k - 1], ws[k]>> \in May THEN Append(h[k - 1], ws[k]) ELSE h[k - 1]
  <2>1. k \in 0 .. Len(ws) /\ k # 0 /\ ws[k] \in S
    BY <1>2, ElementOfSeq
  <2> QED BY <1>3, <1>5, <1>8, <2>1
<1>9. Picks(S, ws, May, h)
  BY <1>7, <1>8, PicksTyped
<1> QED BY <1>6, <1>9 DEF May

LEMMA MembersConcat ==
  ASSUME NEW S, NEW u \in Seq(S), NEW v \in Seq(S)
  PROVE  ToSet(u \o v) = ToSet(u) \cup ToSet(v)
<1>1. /\ u \o v \in Seq(S) /\ Len(u) \in Nat /\ Len(v) \in Nat /\ Len(u \o v) = Len(u) + Len(v)
      /\ DOMAIN u = 1 .. Len(u) /\ DOMAIN v = 1 .. Len(v) /\ DOMAIN (u \o v) = 1 .. Len(u \o v)
      /\ \A i \in 1 .. Len(u) + Len(v) : (u \o v)[i] = IF i <= Len(u) THEN u[i] ELSE v[i - Len(u)]
  BY ConcatProperties, LenProperties
<1>2. ASSUME NEW i \in 1 .. Len(u) + Len(v) PROVE (u \o v)[i] \in ToSet(u) \cup ToSet(v)
  <2>1. CASE i <= Len(u)
    BY <1>1, <2>1 DEF ToSet
  <2>2. CASE ~ (i <= Len(u))
    <3>1. i - Len(u) \in 1 .. Len(v)
      BY <1>1, <2>2
    <3> QED BY <1>1, <2>2, <3>1 DEF ToSet
  <2> QED BY <2>1, <2>2
<1>3. ASSUME NEW i \in 1 .. Len(u) PROVE u[i] \in ToSet(u \o v)
  <2>1. i \in 1 .. Len(u) + Len(v) /\ i <= Len(u)
    BY <1>1
  <2> QED BY <1>1, <2>1 DEF ToSet
<1>4. ASSUME NEW i \in 1 .. Len(v) PROVE v[i] \in ToSet(u \o v)
  <2>1. Len(u) + i \in 1 .. Len(u) + Len(v) /\ ~ (Len(u) + i <= Len(u)) /\ (Len(u) + i) - Len(u) = i
    BY <1>1
  <2> QED BY <1>1, <2>1 DEF ToSet
<1> QED BY <1>1, <1>2, <1>3, <1>4 DEF ToSet

LEMMA MembersAppend ==
  ASSUME NEW S, NEW u \in Seq(S), NEW x \in S
  PROVE  ToSet(Append(u, x)) = ToSet(u) \cup {x}
<1>1. <<x>> \in Seq(S) /\ ToSet(<<x>>) = {x}
  BY DEF ToSet
<1>2. Append(u, x) = u \o <<x>>
  BY AppendIsConcat
<1>3. ToSet(u \o <<x>>) = ToSet(u) \cup ToSet(<<x>>)
  BY <1>1, MembersConcat
<1> QED BY <1>1, <1>2, <1>3

LEMMA MembersOf ==
  /\ ToSet(<<>>) = {}
  /\ \A S : \A u \in Seq(S) : ToSet(u) \subseteq S /\ \A k \in 1 .. Len(u) : u[k] \in ToSet(u)
BY ElementOfSeq, LenProperties DEF ToSet

\* A longer second half is a longer whole.
LEMMA AppendToConcat ==
  ASSUME NEW S, NEW u \in Seq(S), NEW v \in Seq(S), NEW x \in S
  PROVE  u \o Append(v, x) = Append(u \o v, x) /\ u \o v \in Seq(S) /\ Append(v, x) \in Seq(S)
<1>1. <<x>> \in Seq(S) /\ u \o v \in Seq(S) /\ Append(v, x) \in Seq(S)
  BY ConcatProperties, AppendProperties
<1>2. Append(v, x) = v \o <<x>> /\ Append(u \o v, x) = (u \o v) \o <<x>>
  BY <1>1, AppendIsConcat
<1> QED BY <1>1, <1>2, ConcatAssociative

LEMMA KeepingEmpty ==
  ASSUME NEW fine
  PROVE  Keeping(<<>>, fine) = <<>>
<1>1. <<>> \in Seq({}) /\ Len(<<>>) = 0
  BY EmptySeq
<1>2. PICK f : Picks({}, <<>>, Seq({}) \X fine, f) /\ Keeping(<<>>, fine) = f[Len(<<>>)]
  BY <1>1, KeepingPicks
<1> QED BY <1>1, <1>2 DEF Picks

LEMMA KeepingType ==
  ASSUME NEW S, NEW ws \in Seq(S), NEW fine
  PROVE  Keeping(ws, fine) \in Seq(S)
<1>1. PICK f : Picks(S, ws, Seq(S) \X fine, f) /\ Keeping(ws, fine) = f[Len(ws)]
  BY KeepingPicks
<1>2. Len(ws) \in 0 .. Len(ws)
  BY LenProperties
<1> QED BY <1>1, <1>2 DEF Picks

LEMMA KeepingAppend ==
  ASSUME NEW S, NEW ws \in Seq(S), NEW x \in S, NEW fine
  PROVE  Keeping(Append(ws, x), fine) = IF x \in fine THEN Append(Keeping(ws, fine), x) ELSE Keeping(ws, fine)
<1> DEFINE may == Seq(S) \X fine
<1>1. Append(ws, x) \in Seq(S)
  BY AppendProperties
<1>2. PICK f : Picks(S, ws, may, f) /\ Keeping(ws, fine) = f[Len(ws)]
  BY KeepingPicks
<1>3. PICK g : Picks(S, Append(ws, x), may, g) /\ Keeping(Append(ws, x), fine) = g[Len(Append(ws, x))]
  BY <1>1, KeepingPicks
<1>4. /\ f[Len(ws)] \in Seq(S)
      /\ g[Len(Append(ws, x))] = IF <<f[Len(ws)], x>> \in may THEN Append(f[Len(ws)], x) ELSE f[Len(ws)]
  <2> HIDE DEF may
  <2> QED BY <1>2, <1>3, PicksAppend
<1> QED BY <1>2, <1>3, <1>4

\* Keeping goes through two sequences as through one after the other.
LEMMA KeepingConcat ==
  ASSUME NEW S, NEW u \in Seq(S), NEW v \in Seq(S), NEW fine
  PROVE  Keeping(u \o v, fine) = Keeping(u, fine) \o Keeping(v, fine)
<1> DEFINE T == {z \in Seq(S) : Keeping(u \o z, fine) = Keeping(u, fine) \o Keeping(z, fine)}
<1>1. <<>> \in T
  BY KeepingType, KeepingEmpty, EmptySeq, ConcatEmptySeq
<1>2. ASSUME NEW z \in T, NEW x \in S PROVE Append(z, x) \in T
  <2>1. z \in Seq(S) /\ Keeping(u \o z, fine) = Keeping(u, fine) \o Keeping(z, fine)
    BY <1>2
  <2>2. u \o Append(z, x) = Append(u \o z, x) /\ u \o z \in Seq(S) /\ Append(z, x) \in Seq(S)
    BY <2>1, AppendToConcat
  <2>3. /\ Keeping(Append(u \o z, x), fine) = IF x \in fine THEN Append(Keeping(u \o z, fine), x) ELSE Keeping(u \o z, fine)
        /\ Keeping(Append(z, x), fine) = IF x \in fine THEN Append(Keeping(z, fine), x) ELSE Keeping(z, fine)
    <3>1. ASSUME NEW y \in Seq(S)
          PROVE  Keeping(Append(y, x), fine) = IF x \in fine THEN Append(Keeping(y, fine), x) ELSE Keeping(y, fine)
      BY KeepingAppend
    <3> QED BY <2>1, <2>2, <3>1
  <2>4. Keeping(u, fine) \in Seq(S) /\ Keeping(z, fine) \in Seq(S)
    BY <2>1, KeepingType
  <2>5. Keeping(u, fine) \o Append(Keeping(z, fine), x) = Append(Keeping(u, fine) \o Keeping(z, fine), x)
    BY <2>4, AppendToConcat
  <2> QED BY <2>1, <2>2, <2>3, <2>5
<1>3. T = Seq(S)
  <2>1. T \in SUBSET Seq(S)
    OBVIOUS
  <2> HIDE DEF T
  <2> QED BY <1>1, <1>2, <2>1, SequenceInduction
<1> QED BY <1>3

\* What is kept are the fine members.
LEMMA KeepingMembers ==
  ASSUME NEW S, NEW ws \in Seq(S), NEW fine
  PROVE  ToSet(Keeping(ws, fine)) = ToSet(ws) \cap fine
<1> DEFINE P(z) == ToSet(Keeping(z, fine)) = ToSet(z) \cap fine
           T == {z \in Seq(S) : P(z)}
<1>1. P(<<>>)
  BY KeepingEmpty, EmptySeq, MembersOf
<1>2. ASSUME NEW z \in Seq(S), NEW x \in S, P(z) PROVE P(Append(z, x))
  <2>1. Append(z, x) \in Seq(S) /\ Keeping(z, fine) \in Seq(S)
    BY AppendProperties, KeepingType
  <2>2. Keeping(Append(z, x), fine) = IF x \in fine THEN Append(Keeping(z, fine), x) ELSE Keeping(z, fine)
    BY KeepingAppend
  <2>3. ToSet(Append(z, x)) = ToSet(z) \cup {x}
    BY MembersAppend
  <2>4. ToSet(Append(Keeping(z, fine), x)) = ToSet(Keeping(z, fine)) \cup {x}
    BY <2>1, MembersAppend
  <2>5. CASE x \in fine
    BY <1>2, <2>2, <2>3, <2>4, <2>5
  <2>6. CASE x \notin fine
    BY <1>2, <2>2, <2>3, <2>6
  <2> QED BY <2>5, <2>6
<1>3. T = Seq(S)
  <2> HIDE DEF P
  <2>1. T \in SUBSET Seq(S) /\ <<>> \in T /\ \A z \in T, x \in S : Append(z, x) \in T
    BY <1>1, <1>2, EmptySeq, AppendProperties
  <2> HIDE DEF T
  <2> QED BY <2>1, SequenceInduction
<1>4. P(ws)
  <2> HIDE DEF P
  <2> QED BY <1>3
<1> QED BY <1>4

\* A sequence of fine members is kept.
LEMMA KeepingAll ==
  ASSUME NEW S, NEW ws \in Seq(S), NEW fine
  PROVE  ToSet(ws) \subseteq fine => Keeping(ws, fine) = ws
<1> DEFINE P(z) == ToSet(z) \subseteq fine => Keeping(z, fine) = z
           T == {z \in Seq(S) : P(z)}
<1>1. P(<<>>)
  BY KeepingEmpty, EmptySeq, MembersOf
<1>2. ASSUME NEW z \in Seq(S), NEW x \in S, P(z) PROVE P(Append(z, x))
  <2>1. Append(z, x) \in Seq(S) /\ Keeping(z, fine) \in Seq(S)
    BY AppendProperties, KeepingType
  <2>2. Keeping(Append(z, x), fine) = IF x \in fine THEN Append(Keeping(z, fine), x) ELSE Keeping(z, fine)
    BY KeepingAppend
  <2>3. ToSet(Append(z, x)) = ToSet(z) \cup {x}
    BY MembersAppend
  <2>4. ToSet(Append(Keeping(z, fine), x)) = ToSet(Keeping(z, fine)) \cup {x}
    BY <2>1, MembersAppend
  <2>5. CASE x \in fine
    BY <1>2, <2>2, <2>3, <2>4, <2>5
  <2>6. CASE x \notin fine
    BY <1>2, <2>2, <2>3, <2>6
  <2> QED BY <2>5, <2>6
<1>3. T = Seq(S)
  <2> HIDE DEF P
  <2>1. T \in SUBSET Seq(S) /\ <<>> \in T /\ \A z \in T, x \in S : Append(z, x) \in T
    BY <1>1, <1>2, EmptySeq, AppendProperties
  <2> HIDE DEF T
  <2> QED BY <2>1, SequenceInduction
<1>4. P(ws)
  <2> HIDE DEF P
  <2> QED BY <1>3
<1> QED BY <1>4

-----------------------------------------------------------------------------
(* CheckedWrite: rows of a request *)

LEMMA IdsOfAppend ==
  ASSUME NEW ws \in Seq(Writes), NEW w \in Writes
  PROVE  IdsOf(Append(ws, w)) = IdsOf(ws) \cup {w.id}
BY MembersAppend DEF IdsOf

LEMMA IdsOfConcat ==
  ASSUME NEW u \in Seq(Writes), NEW v \in Seq(Writes)
  PROVE  IdsOf(u \o v) = IdsOf(u) \cup IdsOf(v)
BY MembersConcat DEF IdsOf

LEMMA IdsOfEmpty == IdsOf(<<>>) = {}
BY MembersOf DEF IdsOf

LEMMA IdsOfWrites ==
  ASSUME NEW ws \in Seq(Writes)
  PROVE  IdsOf(ws) \subseteq Ids /\ \A w \in ToSet(ws) : w \in Writes /\ w.id \in IdsOf(ws)
<1>1. ToSet(ws) \subseteq Writes
  BY MembersOf
<1> QED BY <1>1 DEF IdsOf, Writes

LEMMA DistinctConcat ==
  ASSUME NEW u \in Seq(Writes), NEW v \in Seq(Writes)
  PROVE  Distinct(u \o v) <=> Distinct(u) /\ Distinct(v) /\ IdsOf(u) \cap IdsOf(v) = {}
<1>1. /\ u \o v \in Seq(Writes) /\ Len(u) \in Nat /\ Len(v) \in Nat /\ Len(u \o v) = Len(u) + Len(v)
      /\ DOMAIN u = 1 .. Len(u) /\ DOMAIN v = 1 .. Len(v) /\ DOMAIN (u \o v) = 1 .. Len(u) + Len(v)
      /\ \A i \in 1 .. Len(u) + Len(v) : (u \o v)[i] = IF i <= Len(u) THEN u[i] ELSE v[i - Len(u)]
  BY ConcatProperties, LenProperties
<1>2. \A i \in 1 .. Len(u) : i \in DOMAIN (u \o v) /\ (u \o v)[i] = u[i]
  BY <1>1
<1>3. \A i \in 1 .. Len(v) : Len(u) + i \in DOMAIN (u \o v) /\ (u \o v)[Len(u) + i] = v[i]
  BY <1>1
<1>4. /\ \A x \in IdsOf(u) : \E i \in 1 .. Len(u) : u[i].id = x
      /\ \A x \in IdsOf(v) : \E i \in 1 .. Len(v) : v[i].id = x
      /\ \A i \in 1 .. Len(u) : u[i].id \in IdsOf(u)
      /\ \A i \in 1 .. Len(v) : v[i].id \in IdsOf(v)
  BY <1>1 DEF IdsOf, ToSet
<1>5. ASSUME Distinct(u \o v) PROVE Distinct(u) /\ Distinct(v) /\ IdsOf(u) \cap IdsOf(v) = {}
  <2>1. Distinct(u)
    BY <1>1, <1>2, <1>5 DEF Distinct
  <2>2. Distinct(v)
    <3> SUFFICES ASSUME NEW j \in 1 .. Len(v), NEW k \in 1 .. Len(v), v[j].id = v[k].id PROVE j = k
      BY <1>1 DEF Distinct
    <3>1. Len(u) + j = Len(u) + k
      BY <1>3, <1>5 DEF Distinct
    <3> QED BY <3>1, <1>1
  <2>3. ASSUME NEW x \in IdsOf(u), x \in IdsOf(v) PROVE FALSE
    <3>1. PICK i \in 1 .. Len(u) : u[i].id = x
      BY <1>4
    <3>2. PICK j \in 1 .. Len(v) : v[j].id = x
      BY <1>4, <2>3
    <3>3. i = Len(u) + j
      BY <1>2, <1>3, <1>5, <3>1, <3>2 DEF Distinct
    <3> QED BY <3>3, <1>1
  <2> QED BY <2>1, <2>2, <2>3
<1>6. ASSUME Distinct(u), Distinct(v), IdsOf(u) \cap IdsOf(v) = {} PROVE Distinct(u \o v)
  <2> SUFFICES ASSUME NEW j \in 1 .. Len(u) + Len(v), NEW k \in 1 .. Len(u) + Len(v),
                      (u \o v)[j].id = (u \o v)[k].id
               PROVE  j = k
    BY <1>1 DEF Distinct
  <2>1. \A i \in 1 .. Len(u) + Len(v) : \/ i \in 1 .. Len(u) /\ (u \o v)[i] = u[i]
                                       \/ /\ i - Len(u) \in 1 .. Len(v) /\ ~ (i <= Len(u))
                                          /\ (u \o v)[i] = v[i - Len(u)]
    BY <1>1
  <2>2. CASE j \in 1 .. Len(u) /\ k \in 1 .. Len(u)
    BY <1>1, <1>2, <1>6, <2>2 DEF Distinct
  <2>3. CASE j - Len(u) \in 1 .. Len(v) /\ k - Len(u) \in 1 .. Len(v) /\ ~ (j <= Len(u)) /\ ~ (k <= Len(u))
    <3>1. j - Len(u) = k - Len(u)
      BY <1>1, <1>6, <2>3 DEF Distinct
    <3> QED BY <3>1, <1>1
  <2>4. CASE j \in 1 .. Len(u) /\ k - Len(u) \in 1 .. Len(v) /\ ~ (k <= Len(u))
    <3>1. u[j].id = v[k - Len(u)].id
      BY <1>1, <2>4
    <3> QED BY <3>1, <1>4, <1>6, <2>4
  <2>5. CASE k \in 1 .. Len(u) /\ j - Len(u) \in 1 .. Len(v) /\ ~ (j <= Len(u))
    <3>1. u[k].id = v[j - Len(u)].id
      BY <1>1, <2>5
    <3> QED BY <3>1, <1>4, <1>6, <2>5
  <2> QED BY <2>1, <2>2, <2>3, <2>4, <2>5
<1> QED BY <1>5, <1>6

LEMMA DistinctAppend ==
  ASSUME NEW ws \in Seq(Writes), NEW w \in Writes
  PROVE  Distinct(Append(ws, w)) <=> Distinct(ws) /\ w.id \notin IdsOf(ws)
<1>1. <<w>> \in Seq(Writes) /\ IdsOf(<<w>>) = {w.id} /\ Distinct(<<w>>)
  BY DEF IdsOf, ToSet, Distinct
<1>2. Append(ws, w) = ws \o <<w>>
  BY AppendIsConcat
<1> DEFINE one == <<w>>
<1>3. one \in Seq(Writes) /\ IdsOf(one) = {w.id} /\ Distinct(one)
  BY <1>1
<1> HIDE DEF one
<1>4. Distinct(ws \o one) <=> Distinct(ws) /\ Distinct(one) /\ IdsOf(ws) \cap IdsOf(one) = {}
  BY <1>3, DistinctConcat
<1> QED BY <1>2, <1>3, <1>4 DEF one

LEMMA DistinctMembers ==
  ASSUME NEW ws \in Seq(Writes), Distinct(ws), NEW v \in ToSet(ws), NEW w \in ToSet(ws), v.id = w.id
  PROVE  v = w
BY DEF Distinct, ToSet

\* What Keeping leaves has no row twice either.
LEMMA KeepingDistinct ==
  ASSUME NEW ws \in Seq(Writes), NEW fine
  PROVE  /\ IdsOf(Keeping(ws, fine)) \subseteq IdsOf(ws)
         /\ Distinct(ws) => Distinct(Keeping(ws, fine))
<1>1. \A z \in Seq(Writes) : IdsOf(Keeping(z, fine)) \subseteq IdsOf(z)
  BY KeepingMembers DEF IdsOf
<1> DEFINE P(z) == Distinct(z) => Distinct(Keeping(z, fine))
           T == {z \in Seq(Writes) : P(z)}
<1>2. P(<<>>)
  BY KeepingEmpty
<1>3. ASSUME NEW z \in Seq(Writes), NEW x \in Writes, P(z) PROVE P(Append(z, x))
  <2>1. Keeping(z, fine) \in Seq(Writes)
    BY KeepingType
  <2>2. Keeping(Append(z, x), fine) = IF x \in fine THEN Append(Keeping(z, fine), x) ELSE Keeping(z, fine)
    BY KeepingAppend
  <2>3. Distinct(Append(z, x)) <=> Distinct(z) /\ x.id \notin IdsOf(z)
    BY DistinctAppend
  <2>4. Distinct(Append(Keeping(z, fine), x)) <=> Distinct(Keeping(z, fine)) /\ x.id \notin IdsOf(Keeping(z, fine))
    BY <2>1, DistinctAppend
  <2> QED BY <1>1, <1>3, <2>2, <2>3, <2>4
<1>4. T = Seq(Writes)
  <2> HIDE DEF P
  <2>1. T \in SUBSET Seq(Writes) /\ <<>> \in T /\ \A z \in T, x \in Writes : Append(z, x) \in T
    BY <1>2, <1>3, EmptySeq, AppendProperties
  <2> HIDE DEF T
  <2> QED BY <2>1, SequenceInduction
<1>5. P(ws)
  <2> HIDE DEF P
  <2> QED BY <1>4
<1> QED BY <1>1, <1>5

-----------------------------------------------------------------------------
(* What a batch writes *)

StoredRow == [rev : 0 .. MaxRev, a : Vals \cup {Gone, Null}, b : Derived \cup {Null}]

LEMMA MergedType ==
  ASSUME NEW one \in StoredRow, NEW w \in Writes
  PROVE  Merged(one, w) \in StoredRow /\ Merged(one, w).rev = w.rev /\ w.rev \in Nat /\ w.rev > 0
BY HubAssumption DEF StoredRow, Writes, Merged

\* Each row of the batch becomes what its own write makes of it.
LEMMA WrittenAt ==
  ASSUME NEW t \in Tables, NEW kind, NEW ws \in Seq(Writes), Distinct(ws)
  PROVE  /\ Written(t, kind, ws) \in Tables
         /\ \A i \in Ids \ IdsOf(ws) : Written(t, kind, ws)[i] = t[i]
         /\ \A w \in ToSet(ws) : Written(t, kind, ws)[w.id] =
                                 IF Applies(kind, t[w.id], w) THEN Merged(t[w.id], w) ELSE t[w.id]
<1> DEFINE of(i) == CHOOSE w \in ToSet(ws) : w.id = i
<1>1. \A i \in Ids : Written(t, kind, ws)[i] =
                   IF i \in IdsOf(ws) /\ Applies(kind, t[i], of(i)) THEN Merged(t[i], of(i)) ELSE t[i]
  BY DEF Written
<1>2. ASSUME NEW w \in ToSet(ws) PROVE w.id \in Ids /\ w.id \in IdsOf(ws) /\ of(w.id) = w /\ w \in Writes
  <2>1. of(w.id) \in ToSet(ws) /\ of(w.id).id = w.id
    OBVIOUS
  <2>2. of(w.id) = w
    <3> HIDE DEF of
    <3> QED BY <2>1, DistinctMembers
  <2> QED BY <2>2, IdsOfWrites
<1>3. \A i \in IdsOf(ws) : \E w \in ToSet(ws) : w.id = i
  BY DEF IdsOf
<1> HIDE DEF of
<1>4. \A i \in Ids : t[i] \in StoredRow
  BY DEF Tables, StoredRow
<1>5. ASSUME NEW i \in Ids PROVE Written(t, kind, ws)[i] \in StoredRow
  <2>1. CASE i \in IdsOf(ws)
    <3>1. PICK w \in ToSet(ws) : w.id = i
      BY <1>3, <2>1
    <3>2. Merged(t[i], w) \in StoredRow
      BY <1>2, <1>4, <3>1, MergedType
    <3> QED BY <1>1, <1>2, <1>4, <3>1, <3>2
  <2>2. CASE i \notin IdsOf(ws)
    BY <1>1, <1>4, <2>2
  <2> QED BY <2>1, <2>2
<1>6. Written(t, kind, ws) = [i \in Ids |-> Written(t, kind, ws)[i]]
  BY DEF Written
<1>7. Written(t, kind, ws) \in Tables
  BY <1>5, <1>6 DEF Tables, StoredRow
<1> QED BY <1>1, <1>2, <1>7

LEMMA WrittenEmpty ==
  ASSUME NEW t \in Tables, NEW kind
  PROVE  Written(t, kind, <<>>) = t
<1>1. Written(t, kind, <<>>) = [i \in Ids |-> t[i]]
  BY IdsOfEmpty DEF Written
<1> QED BY <1>1 DEF Tables

\* One batch after the other writes what both in one would.
LEMMA WrittenConcat ==
  ASSUME NEW t \in Tables, NEW kind, NEW u \in Seq(Writes), NEW v \in Seq(Writes), Distinct(u \o v)
  PROVE  Written(Written(t, kind, u), kind, v) = Written(t, kind, u \o v)
<1> DEFINE once == Written(t, kind, u)
           twice == Written(once, kind, v)
           whole == u \o v
           all_ == Written(t, kind, whole)
<1>1. Distinct(u) /\ Distinct(v) /\ IdsOf(u) \cap IdsOf(v) = {} /\ u \o v \in Seq(Writes)
      /\ IdsOf(u \o v) = IdsOf(u) \cup IdsOf(v) /\ ToSet(u \o v) = ToSet(u) \cup ToSet(v)
  BY DistinctConcat, IdsOfConcat, MembersConcat, ConcatProperties
<1>2. /\ once \in Tables
      /\ \A i \in Ids \ IdsOf(u) : once[i] = t[i]
      /\ \A w \in ToSet(u) : once[w.id] = IF Applies(kind, t[w.id], w) THEN Merged(t[w.id], w) ELSE t[w.id]
  BY <1>1, WrittenAt
<1>3. /\ twice \in Tables
      /\ \A i \in Ids \ IdsOf(v) : twice[i] = once[i]
      /\ \A w \in ToSet(v) : twice[w.id] = IF Applies(kind, once[w.id], w) THEN Merged(once[w.id], w) ELSE once[w.id]
  <2> HIDE DEF once
  <2> QED BY <1>1, <1>2, WrittenAt
<1>4. /\ all_ \in Tables
      /\ \A i \in Ids \ IdsOf(whole) : all_[i] = t[i]
      /\ \A w \in ToSet(whole) : all_[w.id] = IF Applies(kind, t[w.id], w) THEN Merged(t[w.id], w) ELSE t[w.id]
  <2>1. whole \in Seq(Writes) /\ Distinct(whole)
    BY <1>1
  <2> HIDE DEF whole
  <2> QED BY <2>1, WrittenAt
<1> HIDE DEF once, twice, all_
<1>5. ASSUME NEW i \in Ids PROVE twice[i] = all_[i]
  <2>1. CASE i \in IdsOf(v)
    <3>1. PICK w \in ToSet(v) : w.id = i
      BY <2>1 DEF IdsOf
    <3>2. i \notin IdsOf(u)
      BY <1>1, <2>1
    <3> QED BY <1>1, <1>2, <1>3, <1>4, <3>1, <3>2
  <2>2. CASE i \in IdsOf(u)
    <3>1. PICK w \in ToSet(u) : w.id = i
      BY <2>2 DEF IdsOf
    <3>2. i \notin IdsOf(v)
      BY <1>1, <2>2
    <3> QED BY <1>1, <1>2, <1>3, <1>4, <3>1, <3>2
  <2>3. CASE i \notin IdsOf(u) /\ i \notin IdsOf(v)
    BY <1>1, <1>2, <1>3, <1>4, <2>3
  <2> QED BY <2>1, <2>2, <2>3
<1>6. twice = all_
  BY <1>3, <1>4, <1>5 DEF Tables
<1> QED BY <1>6 DEF twice, once, all_

LEMMA KeepingSame ==
  ASSUME NEW S, NEW ws \in Seq(S), NEW fine, NEW good, \A w \in ToSet(ws) : w \in fine <=> w \in good
  PROVE  Keeping(ws, fine) = Keeping(ws, good)
<1> DEFINE P(z) == (\A w \in ToSet(z) : w \in fine <=> w \in good) => Keeping(z, fine) = Keeping(z, good)
           T == {z \in Seq(S) : P(z)}
<1>1. P(<<>>)
  BY KeepingEmpty
<1>2. ASSUME NEW z \in Seq(S), NEW x \in S, P(z) PROVE P(Append(z, x))
  <2>1. ToSet(Append(z, x)) = ToSet(z) \cup {x}
    BY MembersAppend
  <2>2. Keeping(Append(z, x), fine) = IF x \in fine THEN Append(Keeping(z, fine), x) ELSE Keeping(z, fine)
    BY KeepingAppend
  <2>3. Keeping(Append(z, x), good) = IF x \in good THEN Append(Keeping(z, good), x) ELSE Keeping(z, good)
    BY KeepingAppend
  <2> QED BY <1>2, <2>1, <2>2, <2>3
<1>3. T = Seq(S)
  <2> HIDE DEF P
  <2>1. T \in SUBSET Seq(S) /\ <<>> \in T /\ \A z \in T, x \in S : Append(z, x) \in T
    BY <1>1, <1>2, EmptySeq, AppendProperties
  <2> HIDE DEF T
  <2> QED BY <2>1, SequenceInduction
<1>4. P(ws)
  <2> HIDE DEF P
  <2> QED BY <1>3
<1> QED BY <1>4

-----------------------------------------------------------------------------
(* What the triggers see *)

LEMMA RuleFailsAppend ==
  ASSUME NEW t, NEW kind, NEW ws \in Seq(Writes), NEW w \in Writes
  PROVE  RuleFails(t, kind, Append(ws, w)) <=>
           \/ RuleFails(t, kind, ws)
           \/ Applies(kind, t[w.id], w) /\ Breaks(Written(t, kind, Append(ws, w)), w.id)
<1> DEFINE more == Append(ws, w)
           n == Len(ws)
<1>1. /\ n \in Nat /\ more \in Seq(Writes) /\ Len(more) = n + 1
      /\ \A i \in 1 .. n : more[i] = ws[i]
      /\ more[n + 1] = w
  BY AppendProperties, LenProperties
<1>2. ASSUME NEW k \in 1 .. n PROVE SubSeq(more, 1, k) = SubSeq(ws, 1, k)
  <2> HIDE DEF more
  <2> QED BY <1>1
<1>3. SubSeq(more, 1, n + 1) = more
  <2> HIDE DEF more
  <2> QED BY <1>1
<1> DEFINE Fires(u, k) == Applies(kind, t[u[k].id], u[k]) /\ Breaks(Written(t, kind, SubSeq(u, 1, k)), u[k].id)
<1>4. \A k \in 1 .. n : Fires(more, k) <=> Fires(ws, k)
  <2> HIDE DEF more
  <2> QED BY <1>1, <1>2
<1>5. Fires(more, n + 1) <=> Applies(kind, t[w.id], w) /\ Breaks(Written(t, kind, more), w.id)
  <2> HIDE DEF more
  <2> QED BY <1>1, <1>3
<1>6. RuleFails(t, kind, more) <=> \E k \in 1 .. n + 1 : Fires(more, k)
  <2> HIDE DEF more
  <2> QED BY <1>1 DEF RuleFails
<1>7. RuleFails(t, kind, ws) <=> \E k \in 1 .. n : Fires(ws, k)
  BY DEF RuleFails
<1>8. \A k : k \in 1 .. n + 1 <=> k \in 1 .. n \/ k = n + 1
  BY <1>1
<1> HIDE DEF Fires, more, n
<1> QED BY <1>4, <1>5, <1>6, <1>7, <1>8 DEF more

LEMMA RuleFailsEmpty == \A t, kind : ~ RuleFails(t, kind, <<>>)
BY DEF RuleFails

LEMMA RuleFailsOne ==
  ASSUME NEW t, NEW kind, NEW w \in Writes
  PROVE  RuleFails(t, kind, <<w>>) <=> Applies(kind, t[w.id], w) /\ Breaks(Written(t, kind, <<w>>), w.id)
<1>1. <<>> \in Seq(Writes) /\ Append(<<>>, w) = <<w>>
  BY EmptySeq
<1>2. RuleFails(t, kind, Append(<<>>, w)) <=>
        \/ RuleFails(t, kind, <<>>)
        \/ Applies(kind, t[w.id], w) /\ Breaks(Written(t, kind, Append(<<>>, w)), w.id)
  <2> DEFINE u == <<>>
  <2>1. u \in Seq(Writes)
    BY <1>1
  <2> HIDE DEF u
  <2>2. RuleFails(t, kind, Append(u, w)) <=>
        \/ RuleFails(t, kind, u)
        \/ Applies(kind, t[w.id], w) /\ Breaks(Written(t, kind, Append(u, w)), w.id)
    BY <2>1, RuleFailsAppend
  <2> QED BY <2>2 DEF u
<1> QED BY <1>1, <1>2, RuleFailsEmpty

\* A batch fails like two of its parts, one after the other.
LEMMA RuleFailsConcat ==
  ASSUME NEW t \in Tables, NEW kind, NEW u \in Seq(Writes), NEW v \in Seq(Writes), Distinct(u \o v)
  PROVE  RuleFails(t, kind, u \o v) <=> RuleFails(t, kind, u) \/ RuleFails(Written(t, kind, u), kind, v)
<1> DEFINE once == Written(t, kind, u)
           P(z) == Distinct(u \o z) => (RuleFails(t, kind, u \o z) <=> RuleFails(t, kind, u) \/ RuleFails(once, kind, z))
           T == {z \in Seq(Writes) : P(z)}
<1>1. P(<<>>)
  BY RuleFailsEmpty, ConcatEmptySeq
<1>2. ASSUME NEW z \in Seq(Writes), NEW x \in Writes, P(z) PROVE P(Append(z, x))
  <2> SUFFICES ASSUME Distinct(u \o Append(z, x))
               PROVE  RuleFails(t, kind, u \o Append(z, x)) <=> RuleFails(t, kind, u) \/ RuleFails(once, kind, Append(z, x))
    OBVIOUS
  <2>1. u \o Append(z, x) = Append(u \o z, x) /\ u \o z \in Seq(Writes) /\ Append(z, x) \in Seq(Writes)
    BY AppendToConcat
  <2>2. Distinct(u \o z) /\ x.id \notin IdsOf(u \o z)
    BY <2>1, DistinctAppend
  <2>3. x.id \notin IdsOf(u) /\ x.id \in Ids /\ Distinct(u)
    <3>1. x.id \notin IdsOf(u)
      BY <2>2, IdsOfConcat
    <3>2. Distinct(u)
      BY <2>2, DistinctConcat
    <3> QED BY <3>1, <3>2 DEF Writes
  <2>4. once[x.id] = t[x.id]
    BY <2>3, WrittenAt
  <2>5. Written(once, kind, Append(z, x)) = Written(t, kind, Append(u \o z, x))
    <3> DEFINE more == Append(z, x)
    <3>1. more \in Seq(Writes) /\ Distinct(u \o more)
      BY <2>1
    <3>2. Written(once, kind, more) = Written(t, kind, u \o more)
      <4> HIDE DEF more
      <4> QED BY <3>1, WrittenConcat
    <3> QED BY <3>2, <2>1
  <2>6. RuleFails(t, kind, Append(u \o z, x)) <=>
          \/ RuleFails(t, kind, u \o z)
          \/ Applies(kind, t[x.id], x) /\ Breaks(Written(t, kind, Append(u \o z, x)), x.id)
    <3> DEFINE y == u \o z
    <3>1. y \in Seq(Writes)
      BY <2>1
    <3> HIDE DEF y
    <3>2. RuleFails(t, kind, Append(y, x)) <=>
          \/ RuleFails(t, kind, y)
          \/ Applies(kind, t[x.id], x) /\ Breaks(Written(t, kind, Append(y, x)), x.id)
      BY <3>1, RuleFailsAppend
    <3> QED BY <3>2 DEF y
  <2>7. RuleFails(once, kind, Append(z, x)) <=>
          \/ RuleFails(once, kind, z)
          \/ Applies(kind, once[x.id], x) /\ Breaks(Written(once, kind, Append(z, x)), x.id)
    <3> HIDE DEF once
    <3> QED BY RuleFailsAppend
  <2> HIDE DEF once
  <2> QED BY <1>2, <2>1, <2>2, <2>4, <2>5, <2>6, <2>7
<1>3. T = Seq(Writes)
  <2> HIDE DEF P
  <2>1. T \in SUBSET Seq(Writes) /\ <<>> \in T /\ \A z \in T, x \in Writes : Append(z, x) \in T
    BY <1>1, <1>2, EmptySeq, AppendProperties
  <2> HIDE DEF T
  <2> QED BY <2>1, SequenceInduction
<1>4. P(v)
  <2> HIDE DEF P
  <2> QED BY <1>3
<1> QED BY <1>4

-----------------------------------------------------------------------------
(* One-by-one writes *)

LEMMA OneByOneType ==
  ASSUME NEW ws \in Seq(Writes), NEW t, NEW source, NEW kind
  PROVE  OneByOne(t, source, kind, ws) \in Seq(Writes)
<1> DEFINE May == Takeable(Writes, t, source, kind)
<1>1. PICK f : Picks(Writes, ws, May, f) /\ OneByOne(t, source, kind, ws) = f[Len(ws)]
  BY OneByOnePicks
<1>2. Len(ws) \in 0 .. Len(ws)
  BY LenProperties
<1> QED BY <1>1, <1>2 DEF Picks

LEMMA OneByOneEmpty == \A t, source, kind : OneByOne(t, source, kind, <<>>) = <<>>
<1> SUFFICES ASSUME NEW t, NEW source, NEW kind PROVE OneByOne(t, source, kind, <<>>) = <<>>
  OBVIOUS
<1> DEFINE u == <<>>
<1>1. u \in Seq(Writes) /\ Len(u) = 0
  BY EmptySeq
<1> HIDE DEF u
<1> DEFINE May == Takeable(Writes, t, source, kind)
<1>2. PICK f : Picks(Writes, u, May, f) /\ OneByOne(t, source, kind, u) = f[Len(u)]
  BY <1>1, OneByOnePicks
<1> QED BY <1>1, <1>2 DEF Picks, u

LEMMA OneByOneAppend ==
  ASSUME NEW ws \in Seq(Writes), NEW w \in Writes, NEW t, NEW source, NEW kind
  PROVE  OneByOne(t, source, kind, Append(ws, w)) =
           IF Takes(t, source, kind, OneByOne(t, source, kind, ws), w)
           THEN Append(OneByOne(t, source, kind, ws), w) ELSE OneByOne(t, source, kind, ws)
<1> DEFINE May == Takeable(Writes, t, source, kind)
           more == Append(ws, w)
<1>1. more \in Seq(Writes)
  BY AppendProperties
<1>2. PICK f : Picks(Writes, ws, May, f) /\ OneByOne(t, source, kind, ws) = f[Len(ws)]
  BY OneByOnePicks
<1>3. PICK g : Picks(Writes, more, May, g) /\ OneByOne(t, source, kind, more) = g[Len(more)]
  <2> HIDE DEF more
  <2> QED BY <1>1, OneByOnePicks
<1>4. /\ f[Len(ws)] \in Seq(Writes)
      /\ g[Len(more)] = IF <<f[Len(ws)], w>> \in May THEN Append(f[Len(ws)], w) ELSE f[Len(ws)]
  <2> HIDE DEF May
  <2> QED BY <1>2, <1>3, PicksAppend
<1>5. <<f[Len(ws)], w>> \in May <=> Takes(t, source, kind, f[Len(ws)], w)
  BY <1>4 DEF Takeable
<1> HIDE DEF May
<1> QED BY <1>2, <1>3, <1>4, <1>5

\* The rows that pass when they are validated against a table.
FineOf(t, source, kind) ==
  {w \in Writes : /\ ~ (kind = "insert" /\ Exists(t[w.id]))
                  /\ \/ Stale(t[w.id], w)
                     \/ Valid(t[w.id], w, source[w.id])}

LEMMA StaleUnwritten ==
  ASSUME NEW one \in StoredRow, NEW w \in Writes, NEW kind \in Kinds, kind # "patch",
         Stale(one, w), ~ (kind = "insert" /\ Exists(one))
  PROVE  ~ Applies(kind, one, w)
BY HubAssumption DEF StoredRow, Writes, Kinds, Stale, Exists, Applies

\* A row is taken when it passes by itself and its trigger does not fire.
LEMMA TakesIff ==
  ASSUME NEW t \in Tables, NEW source, NEW kind \in Kinds, kind # "patch",
         NEW o \in Seq(Writes), Distinct(o), NEW x \in Writes, x.id \notin IdsOf(o)
  PROVE  Takes(t, source, kind, o, x) <=>
           /\ x \in FineOf(t, source, kind)
           /\ ~ (Applies(kind, t[x.id], x) /\ Breaks(Written(t, kind, Append(o, x)), x.id))
<1> DEFINE after == Written(t, kind, o)
<1>1. x.id \in Ids
  BY DEF Writes
<1>2. after \in Tables /\ after[x.id] = t[x.id] /\ t[x.id] \in StoredRow
  BY <1>1, WrittenAt DEF Tables, StoredRow
<1>3. RuleFails(after, kind, <<x>>) <=> Applies(kind, after[x.id], x) /\ Breaks(Written(after, kind, <<x>>), x.id)
  BY RuleFailsOne
<1>4. Written(after, kind, <<x>>) = Written(t, kind, Append(o, x))
  <2> DEFINE one == <<x>>
  <2>1. one \in Seq(Writes) /\ Append(o, x) = o \o one
    BY AppendIsConcat
  <2>2. Distinct(o \o one)
    BY <2>1, DistinctAppend
  <2>3. Written(Written(t, kind, o), kind, one) = Written(t, kind, o \o one)
    <3> HIDE DEF one
    <3> QED BY <2>1, <2>2, WrittenConcat
  <2> QED BY <2>1, <2>3
<1>5. Stale(t[x.id], x) /\ ~ (kind = "insert" /\ Exists(t[x.id])) => ~ Applies(kind, t[x.id], x)
  BY <1>2, StaleUnwritten
<1>6. Takes(t, source, kind, o, x) <=>
        /\ ~ (kind = "insert" /\ Exists(t[x.id]))
        /\ \/ Stale(after[x.id], x)
           \/ Valid(after[x.id], x, source[x.id]) /\ ~ RuleFails(after, kind, <<x>>)
  BY DEF Takes
<1>7. x \in FineOf(t, source, kind) <=>
        /\ ~ (kind = "insert" /\ Exists(t[x.id]))
        /\ \/ Stale(t[x.id], x)
           \/ Valid(t[x.id], x, source[x.id])
  BY DEF FineOf
<1> HIDE DEF after
<1> QED BY <1>2, <1>3, <1>4, <1>5, <1>6, <1>7

\* What is taken passes the validation, each row once, and fires no trigger.
LEMMA OneByOneSafe ==
  ASSUME NEW ws \in Seq(Writes), Distinct(ws), NEW t \in Tables, NEW source, NEW kind \in Kinds, kind # "patch"
  PROVE  /\ ToSet(OneByOne(t, source, kind, ws)) \subseteq ToSet(ws) \cap FineOf(t, source, kind)
         /\ IdsOf(OneByOne(t, source, kind, ws)) \subseteq IdsOf(ws)
         /\ Distinct(OneByOne(t, source, kind, ws))
         /\ ~ RuleFails(t, kind, OneByOne(t, source, kind, ws))
<1> DEFINE taken(z) == OneByOne(t, source, kind, z)
           P(z) == Distinct(z) =>
                     /\ ToSet(taken(z)) \subseteq ToSet(z) \cap FineOf(t, source, kind)
                     /\ Distinct(taken(z)) /\ ~ RuleFails(t, kind, taken(z))
           T == {z \in Seq(Writes) : P(z)}
<1>1. P(<<>>)
  <2>1. taken(<<>>) = <<>> /\ Distinct(<<>>)
    BY OneByOneEmpty DEF Distinct
  <2> QED BY <2>1, MembersOf, RuleFailsEmpty
<1>2. ASSUME NEW z \in Seq(Writes), NEW x \in Writes, P(z) PROVE P(Append(z, x))
  <2> SUFFICES ASSUME Distinct(Append(z, x)) PROVE P(Append(z, x))
    OBVIOUS
  <2>1. Distinct(z) /\ x.id \notin IdsOf(z) /\ ToSet(Append(z, x)) = ToSet(z) \cup {x} /\ x.id \in Ids
    <3>1. ToSet(Append(z, x)) = ToSet(z) \cup {x}
      BY MembersAppend
    <3>2. x.id \in Ids
      BY DEF Writes
    <3> QED BY <3>1, <3>2, DistinctAppend
  <2>2. taken(z) \in Seq(Writes)
    BY OneByOneType
  <2>3. taken(Append(z, x)) = IF Takes(t, source, kind, taken(z), x) THEN Append(taken(z), x) ELSE taken(z)
    BY OneByOneAppend
  <2>4. ToSet(taken(z)) \subseteq ToSet(z) \cap FineOf(t, source, kind) /\ Distinct(taken(z)) /\ ~ RuleFails(t, kind, taken(z))
    BY <1>2, <2>1
  <2> DEFINE o == taken(z)
  <2> HIDE DEF taken
  <2>5. x.id \notin IdsOf(o)
    BY <2>1, <2>4 DEF IdsOf
  <2>6. CASE Takes(t, source, kind, o, x)
    <3>1. /\ x \in FineOf(t, source, kind)
          /\ ~ (Applies(kind, t[x.id], x) /\ Breaks(Written(t, kind, Append(o, x)), x.id))
      BY <2>2, <2>4, <2>5, <2>6, TakesIff
    <3>2. ToSet(Append(o, x)) = ToSet(o) \cup {x} /\ Distinct(Append(o, x))
      BY <2>2, <2>4, <2>5, MembersAppend, DistinctAppend
    <3>3. ~ RuleFails(t, kind, Append(o, x))
      BY <2>2, <2>4, <3>1, RuleFailsAppend
    <3> QED BY <2>1, <2>3, <2>4, <2>6, <3>1, <3>2, <3>3
  <2>7. CASE ~ Takes(t, source, kind, o, x)
    BY <2>1, <2>3, <2>4, <2>7
  <2> QED BY <2>6, <2>7
<1>3. T = Seq(Writes)
  <2> HIDE DEF P
  <2>1. T \in SUBSET Seq(Writes) /\ <<>> \in T /\ \A z \in T, x \in Writes : Append(z, x) \in T
    BY <1>1, <1>2, EmptySeq, AppendProperties
  <2> HIDE DEF T
  <2> QED BY <2>1, SequenceInduction
<1>4. P(ws)
  <2> HIDE DEF P
  <2> QED BY <1>3
<1> QED BY <1>4 DEF IdsOf

\* The rows of a batch that commits are those one-by-one writes would take.
LEMMA GroupExact ==
  ASSUME NEW t \in Tables, NEW source, NEW kind \in Kinds, kind # "patch",
         NEW pre \in Seq(Writes), NEW g \in Seq(Writes), Distinct(pre \o g),
         ~ RuleFails(t, kind, OneByOne(t, source, kind, pre) \o Keeping(g, FineOf(t, source, kind)))
  PROVE  OneByOne(t, source, kind, pre \o g) =
           OneByOne(t, source, kind, pre) \o Keeping(g, FineOf(t, source, kind))
<1> DEFINE F == FineOf(t, source, kind)
           taken(z) == OneByOne(t, source, kind, z)
           kept(z) == Keeping(z, F)
           P(z) == Distinct(pre \o z) /\ ~ RuleFails(t, kind, taken(pre) \o kept(z))
                     => taken(pre \o z) = taken(pre) \o kept(z)
           T == {z \in Seq(Writes) : P(z)}
<1>1. P(<<>>)
  <2>1. kept(<<>>) = <<>> /\ taken(pre) \in Seq(Writes)
    BY KeepingEmpty, OneByOneType
  <2> QED BY <2>1, ConcatEmptySeq
<1>2. ASSUME NEW z \in Seq(Writes), NEW x \in Writes, P(z) PROVE P(Append(z, x))
  <2> DEFINE o == taken(pre) \o kept(z)
             whole == pre \o z
  <2> SUFFICES ASSUME Distinct(pre \o Append(z, x)), ~ RuleFails(t, kind, taken(pre) \o kept(Append(z, x)))
               PROVE  taken(pre \o Append(z, x)) = taken(pre) \o kept(Append(z, x))
    OBVIOUS
  <2>1. pre \o Append(z, x) = Append(whole, x) /\ whole \in Seq(Writes)
    BY AppendToConcat
  <2>2. Distinct(whole) /\ x.id \notin IdsOf(whole)
    <3> HIDE DEF whole
    <3> QED BY <2>1, DistinctAppend
  <2>3. taken(pre) \in Seq(Writes) /\ kept(z) \in Seq(Writes)
    BY OneByOneType, KeepingType
  <2>4. o \in Seq(Writes) /\ taken(pre) \o Append(kept(z), x) = Append(o, x)
    <3> HIDE DEF taken, kept
    <3> QED BY <2>3, AppendToConcat
  <2>5. kept(Append(z, x)) = IF x \in F THEN Append(kept(z), x) ELSE kept(z)
    <3> HIDE DEF F
    <3> QED BY KeepingAppend
  <2>6. taken(Append(whole, x)) = IF Takes(t, source, kind, taken(whole), x) THEN Append(taken(whole), x) ELSE taken(whole)
    <3> HIDE DEF whole
    <3> QED BY <2>1, OneByOneAppend
  <2>7. Distinct(taken(whole)) /\ IdsOf(taken(whole)) \subseteq IdsOf(whole)
    <3> HIDE DEF whole
    <3> QED BY <2>1, <2>2, OneByOneSafe
  <2>8. RuleFails(t, kind, Append(o, x)) <=>
          \/ RuleFails(t, kind, o)
          \/ Applies(kind, t[x.id], x) /\ Breaks(Written(t, kind, Append(o, x)), x.id)
    <3>1. o \in Seq(Writes)
      BY <2>4
    <3> HIDE DEF o, taken, kept, F, whole, P
    <3> QED BY <3>1, RuleFailsAppend
  <2>9. ~ RuleFails(t, kind, o)
    <3>1. CASE x \in F
      <4>1. taken(pre) \o kept(Append(z, x)) = Append(o, x)
        BY <2>4, <2>5, <3>1
      <4>2. ~ RuleFails(t, kind, Append(o, x))
        BY <4>1
      <4> HIDE DEF o, taken, kept, F, whole, P
      <4> QED BY <4>2, <2>8
    <3>2. CASE x \notin F
      BY <2>5, <3>2
    <3> QED BY <3>1, <3>2
  <2>10. taken(whole) = o
    BY <1>2, <2>2, <2>9
  <2> HIDE DEF o, taken, kept, F, whole
  <2>11. Takes(t, source, kind, o, x) <=>
           x \in F /\ ~ (Applies(kind, t[x.id], x) /\ Breaks(Written(t, kind, Append(o, x)), x.id))
    BY <2>2, <2>4, <2>7, <2>10, TakesIff DEF F
  <2>12. CASE x \in F
    BY <2>1, <2>4, <2>5, <2>6, <2>8, <2>10, <2>11, <2>12
  <2>13. CASE x \notin F
    BY <2>1, <2>5, <2>6, <2>10, <2>11, <2>13 DEF o
  <2> QED BY <2>12, <2>13
<1>3. T = Seq(Writes)
  <2> HIDE DEF P
  <2>1. T \in SUBSET Seq(Writes) /\ <<>> \in T /\ \A z \in T, x \in Writes : Append(z, x) \in T
    BY <1>1, <1>2, EmptySeq, AppendProperties
  <2> HIDE DEF T
  <2> QED BY <2>1, SequenceInduction
<1>4. P(g)
  <2> HIDE DEF P
  <2> QED BY <1>3
<1> QED BY <1>4

\* A row whose trigger fires after those taken is not taken.
LEMMA SingleExact ==
  ASSUME NEW t \in Tables, NEW source, NEW kind \in Kinds, kind # "patch",
         NEW pre \in Seq(Writes), NEW x \in Writes, Distinct(Append(pre, x)),
         RuleFails(t, kind, Append(OneByOne(t, source, kind, pre), x))
  PROVE  OneByOne(t, source, kind, Append(pre, x)) = OneByOne(t, source, kind, pre)
<1> DEFINE o == OneByOne(t, source, kind, pre)
<1>1. Distinct(pre) /\ x.id \notin IdsOf(pre)
  BY DistinctAppend
<1>2. o \in Seq(Writes) /\ Distinct(o) /\ IdsOf(o) \subseteq IdsOf(pre) /\ ~ RuleFails(t, kind, o)
  BY <1>1, OneByOneType, OneByOneSafe
<1>3. OneByOne(t, source, kind, Append(pre, x)) = IF Takes(t, source, kind, o, x) THEN Append(o, x) ELSE o
  BY OneByOneAppend
<1> HIDE DEF o
<1>4. Applies(kind, t[x.id], x) /\ Breaks(Written(t, kind, Append(o, x)), x.id)
  BY <1>2, RuleFailsAppend DEF o
<1>5. ~ Takes(t, source, kind, o, x)
  BY <1>1, <1>2, <1>4, TakesIff
<1> QED BY <1>3, <1>5 DEF o

-----------------------------------------------------------------------------
(* The groups still to do *)

\* They agree as far as their steps do.
LEMMA IteratesAgree ==
  ASSUME NEW X, NEW x0, NEW m \in Nat, NEW n \in Nat, m <= n, NEW A, NEW B, NEW f, NEW g,
         Iterates(X, x0, m, A, f), Iterates(X, x0, n, B, g),
         \A k \in 1 .. m : A[k] = B[k]
  PROVE  f[m] = g[m]
<1> DEFINE Differ == {k \in 0 .. m : f[k] # g[k]}
<1>1. SUFFICES ASSUME Differ # {} PROVE FALSE
  BY <1>1
<1>2. PICK k \in Differ : \A j \in Differ : k <= j
  <2>1. Differ \in SUBSET Nat
    OBVIOUS
  <2> HIDE DEF Differ
  <2> QED BY <1>1, <2>1, LeastNatural
<1>3. k \in 0 .. m /\ f[k] # g[k]
  BY <1>2
<1>4. k # 0
  BY <1>3 DEF Iterates
<1>5. k - 1 \in 0 .. m /\ k \in 1 .. m /\ k \in 1 .. n
  BY <1>3, <1>4
<1>6. f[k - 1] = g[k - 1]
  <2>1. k - 1 \notin Differ
    <3> HIDE DEF Differ
    <3> QED BY <1>2, <1>3
  <2> QED BY <2>1, <1>5
<1>7. f[k] = A[k][f[k - 1]] /\ g[k] = B[k][g[k - 1]] /\ A[k] = B[k]
  BY <1>5 DEF Iterates
<1> QED BY <1>3, <1>6, <1>7

\* A group has a row; the groups of a request, one after the other, are its rows.
Groups == Seq(Writes) \ {<<>>}
Joining(gs) == [k \in 1 .. Len(gs) |-> [u \in Seq(Writes) |-> u \o gs[k]]]
Joins(gs, f) == Iterates(Seq(Writes), <<>>, Len(gs), Joining(gs), f)
Joined(gs) == (CHOOSE f : Joins(gs, f))[Len(gs)]

LEMMA JoinsExist ==
  ASSUME NEW gs \in Seq(Groups)
  PROVE  \E f : Joins(gs, f) /\ Joined(gs) = f[Len(gs)] /\ Joined(gs) \in Seq(Writes)
<1>1. Len(gs) \in Nat /\ <<>> \in Seq(Writes)
  BY LenProperties, EmptySeq
<1>2. ASSUME NEW k \in 1 .. Len(gs), NEW u \in Seq(Writes) PROVE u \o gs[k] \in Seq(Writes)
  <2>1. gs[k] \in Seq(Writes)
    BY ElementOfSeq DEF Groups
  <2> QED BY <2>1, ConcatProperties
<1>3. Joining(gs) \in StepsOf(Seq(Writes), Len(gs))
  BY <1>2 DEF Joining, StepsOf
<1>4. \E f : Joins(gs, f)
  BY <1>1, <1>3, RecursionExists DEF Joins
<1> DEFINE f == CHOOSE f : Joins(gs, f)
<1>5. Joins(gs, f) /\ Joined(gs) = f[Len(gs)]
  BY <1>4 DEF Joined
<1>6. f[Len(gs)] \in Seq(Writes)
  <2> HIDE DEF f
  <2>1. f \in [0 .. Len(gs) -> Seq(Writes)] /\ Len(gs) \in 0 .. Len(gs)
    BY <1>1, <1>5 DEF Joins, Iterates
  <2> QED BY <2>1
<1> HIDE DEF f
<1> QED BY <1>5, <1>6

LEMMA JoinedEmpty == Joined(<<>>) = <<>>
<1> DEFINE gs == <<>>
<1>1. gs \in Seq(Groups) /\ Len(gs) = 0
  BY EmptySeq
<1> HIDE DEF gs
<1>2. PICK f : Joins(gs, f) /\ Joined(gs) = f[Len(gs)]
  BY <1>1, JoinsExist
<1>3. Joined(gs) = <<>>
  BY <1>1, <1>2 DEF Joins, Iterates
<1> QED BY <1>3 DEF gs

LEMMA JoinedAppend ==
  ASSUME NEW gs \in Seq(Groups), NEW g \in Groups
  PROVE  Joined(Append(gs, g)) = Joined(gs) \o g
<1> DEFINE more == Append(gs, g)
           n == Len(gs)
<1>1. /\ n \in Nat /\ more \in Seq(Groups) /\ Len(more) = n + 1
      /\ \A i \in 1 .. n : more[i] = gs[i]
      /\ more[n + 1] = g
  BY AppendProperties, LenProperties
<1> HIDE DEF more
<1>2. PICK f : Joins(gs, f) /\ Joined(gs) = f[n] /\ Joined(gs) \in Seq(Writes)
  BY JoinsExist
<1>3. PICK h : Joins(more, h) /\ Joined(more) = h[n + 1]
  BY <1>1, JoinsExist
<1>4. ASSUME NEW k \in 1 .. n PROVE Joining(gs)[k] = Joining(more)[k]
  <2>1. k \in 1 .. Len(gs) /\ k \in 1 .. Len(more) /\ more[k] = gs[k]
    BY <1>1
  <2> QED BY <2>1 DEF Joining
<1>5. f[n] = h[n]
  <2>1. Iterates(Seq(Writes), <<>>, n, Joining(gs), f) /\ Iterates(Seq(Writes), <<>>, n + 1, Joining(more), h)
    BY <1>1, <1>2, <1>3 DEF Joins
  <2>2. n <= n + 1 /\ n + 1 \in Nat
    BY <1>1
  <2> HIDE DEF n
  <2> QED BY <1>1, <1>4, <2>1, <2>2, IteratesAgree
<1>6. h[n + 1] = Joining(more)[n + 1][h[n]]
  <2>1. n + 1 \in 1 .. Len(more) /\ (n + 1) - 1 = n
    BY <1>1
  <2> HIDE DEF n
  <2> QED BY <1>1, <1>3, <2>1 DEF Joins, Iterates
<1>7. Joining(more)[n + 1][h[n]] = h[n] \o g
  <2>1. n + 1 \in 1 .. Len(more) /\ h[n] \in Seq(Writes)
    BY <1>1, <1>2, <1>5
  <2> QED BY <1>1, <2>1 DEF Joining
<1> QED BY <1>2, <1>3, <1>5, <1>6, <1>7 DEF more

LEMMA JoinedType == ASSUME NEW gs \in Seq(Groups) PROVE Joined(gs) \in Seq(Writes)
BY JoinsExist

LEMMA JoinedConcat ==
  ASSUME NEW u \in Seq(Groups), NEW v \in Seq(Groups)
  PROVE  Joined(u \o v) = Joined(u) \o Joined(v)
<1> DEFINE P(z) == Joined(u \o z) = Joined(u) \o Joined(z)
           T == {z \in Seq(Groups) : P(z)}
<1>1. P(<<>>)
  BY JoinedType, JoinedEmpty, ConcatEmptySeq
<1>2. ASSUME NEW z \in Seq(Groups), NEW g \in Groups, P(z) PROVE P(Append(z, g))
  <2>1. u \o Append(z, g) = Append(u \o z, g) /\ u \o z \in Seq(Groups) /\ Append(z, g) \in Seq(Groups)
    BY AppendToConcat
  <2>2. Joined(Append(u \o z, g)) = Joined(u \o z) \o g
    <3> DEFINE y == u \o z
    <3>1. y \in Seq(Groups)
      BY <2>1
    <3> HIDE DEF y
    <3>2. Joined(Append(y, g)) = Joined(y) \o g
      BY <3>1, JoinedAppend
    <3> QED BY <3>2 DEF y
  <2>3. Joined(Append(z, g)) = Joined(z) \o g
    BY JoinedAppend
  <2>4. (Joined(u) \o Joined(z)) \o g = Joined(u) \o (Joined(z) \o g)
    <3>1. Joined(u) \in Seq(Writes) /\ Joined(z) \in Seq(Writes) /\ g \in Seq(Writes)
      BY JoinedType DEF Groups
    <3> DEFINE a == Joined(u)
               b == Joined(z)
    <3>2. a \in Seq(Writes) /\ b \in Seq(Writes) /\ g \in Seq(Writes)
      BY <3>1
    <3> HIDE DEF a, b
    <3>3. (a \o b) \o g = a \o (b \o g)
      BY <3>2, ConcatAssociative
    <3> QED BY <3>3 DEF a, b
  <2> QED BY <1>2, <2>1, <2>2, <2>3, <2>4
<1>3. T = Seq(Groups)
  <2> HIDE DEF P
  <2>1. T \in SUBSET Seq(Groups) /\ <<>> \in T /\ \A z \in T, g \in Groups : Append(z, g) \in T
    BY <1>1, <1>2, EmptySeq, AppendProperties
  <2> HIDE DEF T
  <2> QED BY <2>1, SequenceInduction
<1>4. P(v)
  <2> HIDE DEF P
  <2> QED BY <1>3
<1> QED BY <1>4

LEMMA JoinedOne ==
  ASSUME NEW g \in Groups
  PROVE  <<g>> \in Seq(Groups) /\ Joined(<<g>>) = g
<1> DEFINE none == <<>>
<1>1. none \in Seq(Groups) /\ Append(none, g) = <<g>>
  BY EmptySeq
<1>2. Joined(none) = <<>>
  BY JoinedEmpty
<1> HIDE DEF none
<1>3. Joined(Append(none, g)) = Joined(none) \o g
  BY <1>1, JoinedAppend
<1>4. <<>> \o g = g
  BY ConcatEmptySeq DEF Groups
<1> QED BY <1>1, <1>2, <1>3, <1>4, AppendProperties

\* The first group and the rest.
LEMMA JoinedFirst ==
  ASSUME NEW gs \in Seq(Groups), gs # <<>>
  PROVE  /\ Head(gs) \in Groups /\ Tail(gs) \in Seq(Groups)
         /\ Joined(gs) = Head(gs) \o Joined(Tail(gs))
<1>1. Head(gs) \in Groups /\ Tail(gs) \in Seq(Groups) /\ gs = <<Head(gs)>> \o Tail(gs)
  BY HeadTailProperties, ConcatProperties
<1> DEFINE one == <<Head(gs)>>
<1>2. one \in Seq(Groups) /\ Joined(one) = Head(gs)
  BY <1>1, JoinedOne
<1>3. gs = one \o Tail(gs)
  BY <1>1
<1> HIDE DEF one
<1>4. Joined(one \o Tail(gs)) = Joined(one) \o Joined(Tail(gs))
  BY <1>1, <1>2, JoinedConcat
<1> QED BY <1>1, <1>2, <1>3, <1>4

\* Bisecting the first of them leaves the rows as they are.
LEMMA JoinedHalves ==
  ASSUME NEW gs \in Seq(Groups), gs # <<>>, Len(Head(gs)) # 1
  PROVE  /\ Halves(Head(gs)) \o Tail(gs) \in Seq(Groups) \ {<<>>}
         /\ Joined(Halves(Head(gs)) \o Tail(gs)) = Joined(gs)
<1> DEFINE g == Head(gs)
           m == Len(g) \div 2
           x == SubSeq(g, 1, m)
           y == SubSeq(g, m + 1, Len(g))
           two == <<x, y>>
<1>1. g \in Groups /\ Tail(gs) \in Seq(Groups) /\ Joined(gs) = g \o Joined(Tail(gs))
  BY JoinedFirst
<1>2. g \in Seq(Writes) /\ g # <<>> /\ Len(g) \in Nat /\ Len(g) # 0 /\ Len(g) # 1
  BY <1>1, EmptySeq, LenProperties DEF Groups
<1> HIDE DEF g
<1>3. m \in 1 .. Len(g) - 1
  <2> DEFINE l == Len(g)
  <2>1. l \in Nat /\ l # 0 /\ l # 1
    BY <1>2
  <2> HIDE DEF l
  <2>2. l \div 2 \in 1 .. l - 1
    BY <2>1
  <2> QED BY <2>2 DEF l
<1> HIDE DEF m
<1>4. x \in Groups /\ y \in Groups /\ x \o y = g
  <2>1. \A i \in 1 .. Len(g) : g[i] \in Writes
    BY <1>2, ElementOfSeq
  <2>2. x \in Seq(Writes) /\ Len(x) = m
    BY <1>2, <1>3, <2>1, SubSeqProperties
  <2>3. y \in Seq(Writes) /\ Len(y) = Len(g) - m
    <3>1. m + 1 \in Int /\ Len(g) \in Int /\ \A i \in m + 1 .. Len(g) : g[i] \in Writes
      BY <1>2, <1>3, <2>1
    <3>2. y \in Seq(Writes) /\ Len(y) = IF m + 1 <= Len(g) THEN Len(g) - (m + 1) + 1 ELSE 0
      BY <3>1, SubSeqProperties
    <3> QED BY <1>2, <1>3, <3>2
  <2>4. x # <<>> /\ y # <<>>
    <3> HIDE DEF x, y
    <3>1. Len(x) # 0 /\ Len(y) # 0
      BY <1>2, <1>3, <2>2, <2>3
    <3> QED BY <3>1, EmptySeq
  <2>5. x \o y = g
    <3>1. 1 \in 1 .. Len(g) + 1 /\ m \in 1 - 1 .. Len(g) /\ Len(g) \in m .. Len(g)
      BY <1>2, <1>3
    <3>2. x \o y = SubSeq(g, 1, Len(g))
      BY <1>2, <3>1, ConcatAdjacentSubSeq
    <3> QED BY <1>2, <3>2, SubSeqFull
  <2> QED BY <2>2, <2>3, <2>4, <2>5 DEF Groups
<1>5. Halves(g) = two
  BY DEF Halves, m
<1> HIDE DEF x, y
<1>6. two \in Seq(Groups) /\ Joined(two) = x \o y /\ two # <<>>
  <2> DEFINE one == <<x>>
  <2>1. one \in Seq(Groups) /\ Joined(one) = x
    BY <1>4, JoinedOne
  <2>2. two = Append(one, y)
    OBVIOUS
  <2> HIDE DEF one
  <2>3. Joined(Append(one, y)) = Joined(one) \o y
    BY <1>4, <2>1, JoinedAppend
  <2>4. y \in Groups /\ Append(one, y) \in Seq(Groups) /\ Append(one, y) # <<>>
    BY <1>4, <2>1, AppendProperties
  <2> HIDE DEF two
  <2> QED BY <2>1, <2>2, <2>3, <2>4
<1> HIDE DEF two
<1>7. Joined(two \o Tail(gs)) = Joined(two) \o Joined(Tail(gs)) /\ two \o Tail(gs) \in Seq(Groups)
  BY <1>1, <1>6, JoinedConcat, ConcatProperties
<1>8. two \o Tail(gs) # <<>>
  BY <1>1, <1>6, EmptySeq, ConcatProperties, LenProperties
<1> QED BY <1>1, <1>4, <1>5, <1>6, <1>7, <1>8 DEF g

\* Their rows are those of the groups.
LEMMA JoinedIds ==
  ASSUME NEW gs \in Seq(Groups)
  PROVE  IdsOf(Joined(gs)) = UNION {IdsOf(gs[k]) : k \in DOMAIN gs}
<1> DEFINE P(z) == IdsOf(Joined(z)) = UNION {IdsOf(z[k]) : k \in DOMAIN z}
           T == {z \in Seq(Groups) : P(z)}
<1>1. P(<<>>)
  BY JoinedEmpty, IdsOfEmpty
<1>2. ASSUME NEW z \in Seq(Groups), NEW g \in Groups, P(z) PROVE P(Append(z, g))
  <2> DEFINE more == Append(z, g)
             n == Len(z)
  <2>1. /\ n \in Nat /\ DOMAIN more = 1 .. n + 1 /\ DOMAIN z = 1 .. n
        /\ \A i \in 1 .. n : more[i] = z[i]
        /\ more[n + 1] = g
    BY AppendProperties, LenProperties
  <2>2. IdsOf(Joined(more)) = IdsOf(Joined(z)) \cup IdsOf(g)
    <3>1. Joined(z) \in Seq(Writes) /\ g \in Seq(Writes) /\ Joined(more) = Joined(z) \o g
      BY JoinedType, JoinedAppend DEF Groups
    <3> HIDE DEF more
    <3> QED BY <3>1, IdsOfConcat
  <2> HIDE DEF more, n
  <2>3. UNION {IdsOf(more[k]) : k \in DOMAIN more} = (UNION {IdsOf(z[k]) : k \in DOMAIN z}) \cup IdsOf(g)
    <3>1. \A k : k \in 1 .. n + 1 <=> k \in 1 .. n \/ k = n + 1
      BY <2>1
    <3> QED BY <2>1, <3>1
  <2> QED BY <1>2, <2>2, <2>3 DEF more
<1>3. T = Seq(Groups)
  <2> HIDE DEF P
  <2>1. T \in SUBSET Seq(Groups) /\ <<>> \in T /\ \A z \in T, g \in Groups : Append(z, g) \in T
    BY <1>1, <1>2, EmptySeq, AppendProperties
  <2> HIDE DEF T
  <2> QED BY <2>1, SequenceInduction
<1>4. P(gs)
  <2> HIDE DEF P
  <2> QED BY <1>3
<1> QED BY <1>4

-----------------------------------------------------------------------------
(* The invariant of a request *)

HubRequests ==
  [pc : {"idle", "read", "judge", "commit", "done"}, kind : Kinds, rows : Seq(Writes), expected : Nat,
   stage : {"group", "first", "probe", "final"}, todo : Seq(Groups),
   view : Tables \cup {<<>>}, sources : [Ids -> Sources] \cup {<<>>},
   accepted : Seq(Writes), rejected : SUBSET Ids, existing : SUBSET Ids,
   start : Tables \cup {<<>>}, calm : BOOLEAN]

\* What was asked.
Asked(s) ==
  /\ s.rows # <<>> /\ Distinct(s.rows)
  /\ s.kind = "patch" => Len(s.rows) = 1 /\ s.expected < s.rows[1].rev
  /\ s.kind = "history" <=> s.stage \in {"first", "probe", "final"}

\* The rows ds are decided, the rest is still to do, each has one answer; undisturbed,
\* those accepted are the ones one-by-one writes would accept.
Decided(s, p, ds) ==
  /\ s.rows = ds \o Joined(s.todo)
  /\ IdsOf(ds) = IdsOf(s.accepted) \cup s.rejected \cup s.existing
  /\ IdsOf(s.accepted) \cap (s.rejected \cup s.existing) = {}
  /\ s.rejected \cap s.existing = {}
  /\ Distinct(s.accepted)
  /\ s.calm => s.start \in Tables
  /\ s.calm /\ s.kind # "patch" => s.accepted = OneByOne(s.start, p, s.kind, ds)
Parts(s, p) == \E ds \in Seq(Writes) : Decided(s, p, ds)

\* What there is to do in each stage.
Place(s) ==
  /\ s.stage = "first" => s.todo = <<s.rows>> /\ s.accepted = <<>> /\ s.rejected = {} /\ s.existing = {}
  /\ s.stage = "final" => s.todo = <<>>
  /\ s.stage \in {"group", "probe"} => s.todo # <<>>
  /\ s.kind = "patch" => s.todo = <<s.rows>> /\ s.accepted = <<>>

\* Undisturbed, the table is what the request has made of it.
Undisturbed(s, t) ==
  s.calm => t = IF s.stage = "group" THEN Written(s.start, s.kind, s.accepted) ELSE s.start

Seen(s, t) ==
  /\ s.view \in Tables
  /\ s.kind = "patch" => s.view[s.rows[1].id].rev = s.expected
  /\ s.calm => s.view = t

Attested(s, p) == s.sources \in [Ids -> Sources] /\ (s.calm => s.sources = p)

Stored(s, t) == \A w \in ToSet(s.accepted) : t[w.id].rev >= w.rev

RequestOK(s, t, p) ==
  /\ s \in HubRequests
  /\ s.pc = "idle" => s = NoRequest
  /\ s.pc # "idle" => Asked(s) /\ Parts(s, p)
  /\ s.pc \in {"read", "judge", "commit"} => Place(s) /\ Undisturbed(s, t)
  /\ s.pc \in {"judge", "commit"} => Seen(s, t)
  /\ s.pc = "commit" => Attested(s, p)
  /\ s.pc = "done" => s.todo = <<>>
  /\ s.pc # "idle" /\ (s.pc = "done" \/ s.stage = "group") => Stored(s, t)

HubInv ==
  /\ tbl \in Tables /\ prov \in [Ids -> Sources] /\ DOMAIN q = Reqs
  /\ RulesHold
  /\ \A r \in Reqs : RequestOK(q[r], tbl, prov)
-----------------------------------------------------------------------------
(* What an attempt is about *)

\* The rules go on holding when no trigger fires.
LEMMA RulesKept ==
  ASSUME NEW t \in Tables, NEW kind, NEW ws \in Seq(Writes), Distinct(ws), ~ RuleFails(t, kind, ws),
         \A i \in Ids : ~ Breaks(t, i)
  PROVE  \A i \in Ids : ~ Breaks(Written(t, kind, ws), i)
<1> DEFINE P(z) == Distinct(z) /\ ~ RuleFails(t, kind, z) => \A i \in Ids : ~ Breaks(Written(t, kind, z), i)
           T == {z \in Seq(Writes) : P(z)}
<1>1. P(<<>>)
  BY WrittenEmpty
<1>2. ASSUME NEW z \in Seq(Writes), NEW x \in Writes, P(z) PROVE P(Append(z, x))
  <2> DEFINE one == <<x>>
             after == Written(t, kind, z)
             new == Written(t, kind, Append(z, x))
  <2> SUFFICES ASSUME Distinct(Append(z, x)), ~ RuleFails(t, kind, Append(z, x))
               PROVE  \A i \in Ids : ~ Breaks(new, i)
    OBVIOUS
  <2>1. Distinct(z) /\ x.id \notin IdsOf(z) /\ x.id \in Ids
    BY DistinctAppend DEF Writes
  <2>2. ~ RuleFails(t, kind, z) /\ ~ (Applies(kind, t[x.id], x) /\ Breaks(new, x.id))
    BY RuleFailsAppend
  <2>3. \A i \in Ids : ~ Breaks(after, i)
    BY <1>2, <2>1, <2>2
  <2>4. after \in Tables /\ after[x.id] = t[x.id]
    BY <2>1, WrittenAt
  <2>5. one \in Seq(Writes) /\ Append(z, x) = z \o one /\ Distinct(one) /\ IdsOf(one) = {x.id} /\ x \in ToSet(one)
    <3>1. one \in Seq(Writes) /\ Distinct(one) /\ IdsOf(one) = {x.id} /\ x \in ToSet(one)
      BY DEF Distinct, IdsOf, ToSet
    <3>2. Append(z, x) = z \o one
      BY AppendIsConcat
    <3> QED BY <3>1, <3>2
  <2> HIDE DEF one
  <2>6. Written(after, kind, one) = new
    BY <2>5, WrittenConcat
  <2> HIDE DEF after, new
  <2>7. /\ \A i \in Ids \ {x.id} : new[i] = after[i]
        /\ new[x.id] = IF Applies(kind, after[x.id], x) THEN Merged(after[x.id], x) ELSE after[x.id]
    BY <2>4, <2>5, <2>6, WrittenAt
  <2>8. CASE Applies(kind, t[x.id], x)
    BY <2>1, <2>2, <2>3, <2>7, <2>8 DEF Breaks
  <2>9. CASE ~ Applies(kind, t[x.id], x)
    BY <2>3, <2>4, <2>7, <2>9 DEF Breaks
  <2> QED BY <2>8, <2>9
<1>3. T = Seq(Writes)
  <2> HIDE DEF P
  <2>1. T \in SUBSET Seq(Writes) /\ <<>> \in T /\ \A z \in T, x \in Writes : Append(z, x) \in T
    BY <1>1, <1>2, EmptySeq, AppendProperties
  <2> HIDE DEF T
  <2> QED BY <2>1, SequenceInduction
<1>4. P(ws)
  <2> HIDE DEF P
  <2> QED BY <1>3
<1> QED BY <1>4

\* The next group takes up where the rows decided end.
LEMMA NextGroup ==
  ASSUME NEW s \in HubRequests, Asked(s), NEW p, NEW ds \in Seq(Writes), Decided(s, p, ds), s.todo # <<>>
  PROVE  /\ Head(s.todo) \in Seq(Writes) /\ Head(s.todo) # <<>> /\ Tail(s.todo) \in Seq(Groups)
         /\ ds \o Head(s.todo) \in Seq(Writes)
         /\ s.rows = (ds \o Head(s.todo)) \o Joined(Tail(s.todo))
         /\ IdsOf(ds \o Head(s.todo)) = IdsOf(ds) \cup IdsOf(Head(s.todo))
         /\ IdsOf(ds) \cap IdsOf(Head(s.todo)) = {}
         /\ Distinct(ds \o Head(s.todo)) /\ Distinct(ds) /\ Distinct(Head(s.todo))
         /\ s.accepted \o Head(s.todo) \in Seq(Writes) /\ Distinct(s.accepted \o Head(s.todo))
         /\ IdsOf(s.accepted \o Head(s.todo)) = IdsOf(s.accepted) \cup IdsOf(Head(s.todo))
<1> DEFINE g == Head(s.todo)
           rest == Joined(Tail(s.todo))
           acc == s.accepted
<1>1. s.todo \in Seq(Groups) /\ acc \in Seq(Writes) /\ s.rows \in Seq(Writes)
  BY DEF HubRequests
<1>2. g \in Groups /\ Tail(s.todo) \in Seq(Groups) /\ Joined(s.todo) = g \o rest
  BY <1>1, JoinedFirst
<1>3. rest \in Seq(Writes) /\ g \in Seq(Writes) /\ g # <<>>
  BY <1>2, JoinedType DEF Groups
<1> HIDE DEF g, rest, acc
<1>4. s.rows = (ds \o g) \o rest
  <2>1. s.rows = ds \o (g \o rest)
    BY <1>2 DEF Decided
  <2>2. (ds \o g) \o rest = ds \o (g \o rest)
    BY <1>3, ConcatAssociative
  <2> QED BY <2>1, <2>2
<1>5. ds \o g \in Seq(Writes) /\ acc \o g \in Seq(Writes)
  BY <1>1, <1>3, ConcatProperties
<1> DEFINE more == ds \o g
<1>6. Distinct(more)
  <2>1. Distinct(more \o rest) /\ more \in Seq(Writes)
    BY <1>4, <1>5 DEF Asked
  <2> HIDE DEF more
  <2> QED BY <2>1, <1>3, DistinctConcat
<1>7. Distinct(ds) /\ Distinct(g) /\ IdsOf(ds) \cap IdsOf(g) = {}
  BY <1>3, <1>6, DistinctConcat
<1>8. IdsOf(acc) \subseteq IdsOf(ds) /\ Distinct(acc)
  BY DEF Decided, acc
<1>9. Distinct(acc \o g)
  BY <1>1, <1>3, <1>7, <1>8, DistinctConcat
<1>10. IdsOf(ds \o g) = IdsOf(ds) \cup IdsOf(g) /\ IdsOf(acc \o g) = IdsOf(acc) \cup IdsOf(g)
  BY <1>1, <1>3, IdsOfConcat
<1> QED BY <1>2, <1>3, <1>4, <1>5, <1>6, <1>7, <1>9, <1>10 DEF g, rest, acc

\* The rows of an attempt, and those of them that pass.
LEMMA AttemptFits ==
  ASSUME NEW s \in HubRequests, Asked(s), NEW p, Parts(s, p), Place(s)
  PROVE  /\ Attempted(s) \in Seq(Writes) /\ Distinct(Attempted(s))
         /\ Passed(s) \in Seq(Writes) /\ Distinct(Passed(s))
         /\ ToSet(Passed(s)) = ToSet(Attempted(s)) \cap Fine(s)
         /\ IdsOf(Passed(s)) \subseteq IdsOf(Attempted(s)) \ Present(s)
         /\ Present(s) \subseteq IdsOf(Attempted(s))
         /\ s.kind # "insert" => Present(s) = {}
         /\ s.stage = "final" => Attempted(s) = s.accepted
         /\ s.stage = "probe" => Attempted(s) = s.accepted \o Head(s.todo)
         /\ s.stage \in {"group", "first"} => Attempted(s) = Head(s.todo)
<1>1. PICK ds \in Seq(Writes) : Decided(s, p, ds)
  BY DEF Parts
<1>2. /\ s.stage = "final" => Attempted(s) = s.accepted
      /\ s.stage = "probe" => Attempted(s) = s.accepted \o Head(s.todo)
      /\ s.stage \in {"group", "first"} => Attempted(s) = Head(s.todo)
      /\ s.stage \in {"group", "first", "probe", "final"}
      /\ s.accepted \in Seq(Writes) /\ Distinct(s.accepted)
  BY <1>1 DEF Attempted, HubRequests, Decided
<1>3. s.stage # "final" => s.todo # <<>>
  <2>1. s.stage = "first" => s.todo = <<s.rows>>
    BY DEF Place
  <2>2. <<s.rows>> # <<>>
    OBVIOUS
  <2> QED BY <1>2, <2>1, <2>2 DEF Place
<1>4. Attempted(s) \in Seq(Writes) /\ Distinct(Attempted(s))
  <2>1. CASE s.stage = "final"
    BY <1>2, <2>1
  <2>2. CASE s.stage # "final"
    <3>1. Head(s.todo) \in Seq(Writes) /\ Distinct(Head(s.todo))
          /\ s.accepted \o Head(s.todo) \in Seq(Writes) /\ Distinct(s.accepted \o Head(s.todo))
      BY <1>1, <1>3, <2>2, NextGroup
    <3> QED BY <1>2, <2>2, <3>1
  <2> QED BY <2>1, <2>2
<1>5. Passed(s) \in Seq(Writes) /\ Distinct(Passed(s)) /\ IdsOf(Passed(s)) \subseteq IdsOf(Attempted(s))
      /\ ToSet(Passed(s)) = ToSet(Attempted(s)) \cap Fine(s)
  BY <1>4, KeepingType, KeepingDistinct, KeepingMembers DEF Passed
<1>6. IdsOf(Passed(s)) \cap Present(s) = {}
  BY <1>5 DEF IdsOf, Fine
<1>7. Present(s) \subseteq IdsOf(Attempted(s)) /\ (s.kind # "insert" => Present(s) = {})
  BY DEF Present
<1> QED BY <1>2, <1>4, <1>5, <1>6, <1>7

-----------------------------------------------------------------------------
(* Between two attempts *)

\* What is decided does not depend on where the request is.
SameAnswer(s, z) ==
  /\ z.kind = s.kind /\ z.rows = s.rows /\ z.todo = s.todo /\ z.expected = s.expected
  /\ z.accepted = s.accepted /\ z.rejected = s.rejected /\ z.existing = s.existing
  /\ z.start = s.start /\ z.calm = s.calm

LEMMA PartsSame ==
  ASSUME NEW s, NEW z, NEW p, SameAnswer(s, z), Parts(s, p)
  PROVE  Parts(z, p)
<1>1. PICK ds \in Seq(Writes) : Decided(s, p, ds)
  BY DEF Parts
<1>2. Decided(z, p, ds)
  BY <1>1 DEF Decided, SameAnswer
<1> QED BY <1>2 DEF Parts

LEMMA GotoFits ==
  ASSUME NEW s \in HubRequests, NEW pc \in {"read", "done"}
  PROVE  /\ Goto(s, pc) \in HubRequests /\ SameAnswer(s, Goto(s, pc))
         /\ Goto(s, pc).pc = pc /\ Goto(s, pc).stage = s.stage
BY DEF Goto, HubRequests, SameAnswer

Between(s, t, p) ==
  /\ s \in HubRequests /\ Asked(s) /\ Parts(s, p)
  /\ s.stage \in {"first", "final"} \/ s.kind = "patch" => s.todo = <<>>
  /\ s.stage \in {"group", "probe"} => Undisturbed(s, t)
  /\ s.stage # "probe" => Stored(s, t)

LEMMA ProceedFits ==
  ASSUME NEW s, NEW t, NEW p, Between(s, t, p)
  PROVE  RequestOK(Proceed(s), t, p)
<1> DEFINE z == Proceed(s)
<1>1. s \in HubRequests /\ Asked(s) /\ Parts(s, p) /\ s.stage \in {"group", "first", "probe", "final"}
  BY DEF Between, HubRequests
<1>2. CASE s.todo # <<>>
  <2>1. z = Goto(s, "read")
    BY <1>2 DEF Proceed
  <2>2. z \in HubRequests /\ SameAnswer(s, z) /\ z.pc = "read" /\ z.stage = s.stage
    BY <1>1, <2>1, GotoFits
  <2> HIDE DEF z
  <2>3. Parts(z, p)
    BY <1>1, <2>2, PartsSame
  <2>4. Asked(z)
    BY <1>1, <2>2 DEF Asked, SameAnswer
  <2>5. Place(z) /\ Undisturbed(z, t) /\ (z.stage = "group" => Stored(z, t))
    BY <1>1, <1>2, <2>2 DEF Between, Place, Undisturbed, Stored, SameAnswer
  <2>6. RequestOK(z, t, p)
    BY <2>2, <2>3, <2>4, <2>5 DEF RequestOK
  <2> QED BY <2>6 DEF z
<1>3. CASE s.todo = <<>> /\ s.stage = "probe" /\ s.accepted # <<>>
  <2>1. z = [Goto(s, "read") EXCEPT !.stage = "final"]
    BY <1>3 DEF Proceed
  <2> DEFINE y == Goto(s, "read")
  <2>2. y \in HubRequests /\ SameAnswer(s, y) /\ y.pc = "read"
    BY <1>1, GotoFits
  <2> HIDE DEF y
  <2>3. z \in HubRequests /\ SameAnswer(s, z) /\ z.pc = "read" /\ z.stage = "final"
    BY <2>1, <2>2 DEF HubRequests, SameAnswer, y
  <2> HIDE DEF z
  <2>4. Parts(z, p)
    BY <1>1, <2>3, PartsSame
  <2>5. z.kind = "history"
    BY <1>1, <1>3, <2>3 DEF Asked, SameAnswer
  <2>6. Asked(z)
    BY <1>1, <1>3, <2>3, <2>5 DEF Asked, SameAnswer
  <2>7. Place(z) /\ Undisturbed(z, t)
    BY <1>1, <1>3, <2>3, <2>5 DEF Between, Place, Undisturbed, SameAnswer
  <2>8. RequestOK(z, t, p)
    BY <2>3, <2>4, <2>6, <2>7 DEF RequestOK
  <2> QED BY <2>8 DEF z
<1>4. CASE s.todo = <<>> /\ ~ (s.stage = "probe" /\ s.accepted # <<>>)
  <2>1. z = Goto(s, "done")
    BY <1>4 DEF Proceed
  <2>2. z \in HubRequests /\ SameAnswer(s, z) /\ z.pc = "done" /\ z.stage = s.stage
    BY <1>1, <2>1, GotoFits
  <2> HIDE DEF z
  <2>3. Parts(z, p)
    BY <1>1, <2>2, PartsSame
  <2>4. Asked(z)
    BY <1>1, <2>2 DEF Asked, SameAnswer
  <2>5. Stored(s, t)
    BY <1>4, MembersOf DEF Between, Stored
  <2>6. Stored(z, t) /\ z.todo = <<>>
    BY <1>4, <2>2, <2>5 DEF Stored, SameAnswer
  <2>7. RequestOK(z, t, p)
    BY <2>2, <2>3, <2>4, <2>6 DEF RequestOK
  <2> QED BY <2>7 DEF z
<1> QED BY <1>2, <1>3, <1>4

\* A request that is turned down as a whole; undisturbed, only a patch is.
LEMMA RejectAllFits ==
  ASSUME NEW s \in HubRequests, Asked(s), NEW t, NEW p, s.calm => s.start \in Tables /\ s.kind = "patch"
  PROVE  RequestOK(RejectAll(s), t, p) /\ RejectAll(s).pc = "done" /\ RejectAll(s).accepted = <<>>
<1> DEFINE z == RejectAll(s)
<1>1. s.rows \in Seq(Writes) /\ IdsOf(s.rows) \subseteq Ids /\ <<>> \in Seq(Writes) /\ <<>> \in Seq(Groups)
  BY IdsOfWrites, EmptySeq DEF HubRequests
<1>2. /\ z \in HubRequests /\ z.pc = "done" /\ z.todo = <<>> /\ z.accepted = <<>>
      /\ z.rejected = IdsOf(s.rows) /\ z.existing = {}
      /\ z.kind = s.kind /\ z.rows = s.rows /\ z.expected = s.expected /\ z.stage = s.stage
      /\ z.start = s.start /\ z.calm = s.calm
  BY <1>1 DEF RejectAll, Goto, HubRequests
<1> HIDE DEF z
<1>3. Asked(z)
  BY <1>2 DEF Asked
<1>4. z.rows = s.rows \o Joined(z.todo)
  <2>1. s.rows \o <<>> = s.rows
    BY <1>1, ConcatEmptySeq
  <2> QED BY <1>2, <2>1, JoinedEmpty
<1>5. Distinct(<<>>)
  BY DEF Distinct
<1>6. Decided(z, p, s.rows)
  BY <1>2, <1>4, <1>5, IdsOfEmpty DEF Decided
<1>7. Parts(z, p)
  BY <1>1, <1>6 DEF Parts
<1>8. Stored(z, t)
  BY <1>2, MembersOf DEF Stored
<1>9. RequestOK(z, t, p)
  BY <1>2, <1>3, <1>7, <1>8 DEF RequestOK
<1> QED BY <1>2, <1>9 DEF z

\* A request something else came between.
LEMMA DisturbedFits ==
  ASSUME NEW s, NEW t \in Tables, NEW p, RequestOK(s, t, p), NEW t2 \in Tables, NEW p2,
         \A i \in Ids : t2[i].rev >= t[i].rev
  PROVE  RequestOK(Disturbed(s), t2, p2)
<1> DEFINE z == Disturbed(s)
<1>1. CASE s.pc = "idle"
  <2>1. z = s /\ s = NoRequest /\ s \in HubRequests
    BY <1>1 DEF RequestOK, Disturbed
  <2> QED BY <1>1, <2>1 DEF RequestOK
<1>2. CASE s.pc # "idle"
  <2>1. s \in HubRequests /\ Asked(s) /\ Parts(s, p)
    BY <1>2 DEF RequestOK
  <2>2. z = [s EXCEPT !.calm = FALSE, !.start = <<>>]
    BY <1>2 DEF Disturbed
  <2>3. /\ z \in HubRequests /\ z.pc = s.pc /\ z.stage = s.stage /\ z.todo = s.todo
        /\ z.accepted = s.accepted /\ z.rejected = s.rejected /\ z.existing = s.existing
        /\ z.kind = s.kind /\ z.rows = s.rows /\ z.expected = s.expected
        /\ z.view = s.view /\ z.sources = s.sources /\ z.calm = FALSE
    BY <2>1, <2>2 DEF HubRequests
  <2> HIDE DEF z
  <2>4. Asked(z)
    BY <2>1, <2>3 DEF Asked
  <2>5. Parts(z, p2)
    <3>1. PICK ds \in Seq(Writes) : Decided(s, p, ds)
      BY <2>1 DEF Parts
    <3>2. Decided(z, p2, ds)
      BY <3>1, <2>3 DEF Decided
    <3> QED BY <3>2 DEF Parts
  <2>6. Stored(s, t) => Stored(z, t2)
    <3> SUFFICES ASSUME Stored(s, t), NEW w \in ToSet(s.accepted) PROVE t2[w.id].rev >= w.rev
      BY <2>3 DEF Stored
    <3>1. w \in Writes
      BY <2>1, MembersOf DEF HubRequests
    <3>2. w.id \in Ids /\ w.rev \in Int
      BY <3>1 DEF Writes
    <3>3. t[w.id].rev >= w.rev /\ t2[w.id].rev >= t[w.id].rev
      BY <3>2 DEF Stored
    <3>4. t[w.id].rev \in Int /\ t2[w.id].rev \in Int
      BY <3>2 DEF Tables
    <3> QED BY <3>2, <3>3, <3>4
  <2>7. Place(s) => Place(z)
    BY <2>3 DEF Place
  <2>8. Undisturbed(z, t2)
    BY <2>3 DEF Undisturbed
  <2>9. Seen(s, t) => Seen(z, t2)
    BY <2>3 DEF Seen
  <2>10. Attested(s, p) => Attested(z, p2)
    BY <2>3 DEF Attested
  <2>11. RequestOK(z, t2, p2)
    BY <1>2, <2>3, <2>4, <2>5, <2>6, <2>7, <2>8, <2>9, <2>10 DEF RequestOK
  <2> QED BY <2>11 DEF z
<1> QED BY <1>1, <1>2

-----------------------------------------------------------------------------
(* An attempt nothing came between *)

LEMMA PrefixOfConcat ==
  ASSUME NEW S, NEW u \in Seq(S), NEW v \in Seq(S)
  PROVE  IsPrefix(u, u \o v)
<1>1. Len(u) \in Nat /\ Len(u \o v) = Len(u) + Len(v) /\ Len(v) \in Nat
  BY ConcatProperties, LenProperties
<1>2. SubSeq(u \o v, 1, Len(u)) = SubSeq(u, 1, Len(u))
  <2>1. CASE Len(u) = 0
    BY <2>1, SubSeqEmpty
  <2>2. CASE Len(u) # 0
    <3>1. 1 \in 1 .. Len(u) /\ Len(u) \in 1 .. Len(u)
      BY <1>1, <2>2
    <3> QED BY <3>1, SubSeqOfConcat1
  <2> QED BY <2>1, <2>2
<1> QED BY <1>1, <1>2 DEF IsPrefix

LEMMA PrefixMembers ==
  ASSUME NEW S, NEW u \in Seq(S), NEW v \in Seq(S), IsPrefix(u, v)
  PROVE  ToSet(u) \subseteq ToSet(v)
<1> DEFINE n == Len(u)
<1>1. n \in Nat /\ Len(v) \in Nat /\ n <= Len(v) /\ DOMAIN u = 1 .. n /\ DOMAIN v = 1 .. Len(v)
  BY LenProperties DEF IsPrefix
<1>2. SubSeq(u, 1, n) = SubSeq(v, 1, n)
  BY DEF IsPrefix
<1>3. ASSUME NEW i \in 1 .. n PROVE u[i] = v[i]
  <2>1. SubSeq(u, 1, n)[i] = u[i] /\ SubSeq(v, 1, n)[i] = v[i]
    BY <1>1
  <2> QED BY <1>2, <2>1
<1> QED BY <1>1, <1>3 DEF ToSet

\* A request whose rows are read, and their provenance; while nothing came between,
\* what it saw is what there is.
Judged(s, t, p) ==
  /\ s \in HubRequests /\ Asked(s) /\ Parts(s, p)
  /\ Place(s) /\ Undisturbed(s, t) /\ Seen(s, t) /\ Attested(s, p)

\* Those of the next group one-by-one writes would accept.
Kept(s, p) == Keeping(Head(s.todo), FineOf(s.start, p, s.kind))

\* An attempt at the next group is an attempt at the rows accepted and those.
LEMMA CalmAttempt ==
  ASSUME NEW s, NEW t \in Tables, NEW p, Judged(s, t, p), s.calm, s.kind # "patch", s.stage # "final",
         NEW ds \in Seq(Writes), Decided(s, p, ds)
  PROVE  /\ s.todo # <<>> /\ Kept(s, p) \in Seq(Writes) /\ Distinct(s.accepted \o Kept(s, p))
         /\ RuleFails(t, s.kind, Passed(s)) <=> RuleFails(s.start, s.kind, s.accepted \o Kept(s, p))
         /\ s.stage = "probe" => Passed(s) = s.accepted \o Kept(s, p)
         /\ s.stage # "probe" => Passed(s) = Kept(s, p)
<1> DEFINE acc == s.accepted
           g == Head(s.todo)
           F == FineOf(s.start, p, s.kind)
           K == Keeping(g, F)
<1>1. /\ s \in HubRequests /\ Asked(s) /\ Parts(s, p) /\ Place(s) /\ s.kind \in Kinds
      /\ acc \in Seq(Writes) /\ s.start \in Tables /\ s.view = t /\ s.sources = p
      /\ s.stage \in {"group", "first", "probe"}
      /\ acc = OneByOne(s.start, p, s.kind, ds)
  BY DEF Judged, HubRequests, Seen, Attested, Decided
<1>2. s.todo # <<>>
  <2>1. s.stage = "first" => s.todo = <<s.rows>>
    BY <1>1 DEF Place
  <2>2. <<s.rows>> # <<>>
    OBVIOUS
  <2> QED BY <1>1, <2>1, <2>2 DEF Place
<1>3. /\ g \in Seq(Writes) /\ Distinct(g) /\ Distinct(ds) /\ IdsOf(ds) \cap IdsOf(g) = {}
      /\ IdsOf(acc) \subseteq IdsOf(ds)
  BY <1>1, <1>2, NextGroup DEF Decided
<1>4. ToSet(acc) \subseteq F /\ Distinct(acc) /\ ~ RuleFails(s.start, s.kind, acc)
  <2> HIDE DEF acc, F
  <2> QED BY <1>1, <1>3, OneByOneSafe DEF F
<1>5. K \in Seq(Writes) /\ Distinct(K) /\ IdsOf(K) \subseteq IdsOf(g)
  <2> HIDE DEF g, F
  <2> QED BY <1>3, KeepingType, KeepingDistinct
<1>6. Distinct(acc \o K)
  <2> HIDE DEF acc, g, K
  <2> QED BY <1>1, <1>3, <1>4, <1>5, DistinctConcat
<1>7. CASE s.stage = "probe"
  <2>1. s.kind = "history" /\ t = s.start /\ Attempted(s) = acc \o g
    BY <1>1, <1>7, AttemptFits DEF Judged, Asked, Undisturbed
  <2>2. Present(s) = {}
    BY <2>1 DEF Present
  <2>3. Fine(s) = F
    BY <1>1, <2>1, <2>2 DEF Fine, FineOf
  <2>4. Keeping(acc \o g, F) = Keeping(acc, F) \o Keeping(g, F)
    <3>1. acc \in Seq(Writes) /\ g \in Seq(Writes)
      BY <1>1, <1>3
    <3> HIDE DEF acc, g, F, K
    <3> QED BY <3>1, KeepingConcat
  <2>5. Keeping(acc, F) = acc
    <3> HIDE DEF acc, F
    <3> QED BY <1>1, <1>4, KeepingAll
  <2>6. Passed(s) = acc \o K
    BY <2>1, <2>3, <2>4, <2>5 DEF Passed
  <2> QED BY <1>2, <1>5, <1>6, <1>7, <2>1, <2>6 DEF Kept
<1>8. CASE s.stage \in {"group", "first"}
  <2>1. Attempted(s) = g
    BY <1>1, <1>8, AttemptFits
  <2>2. t = Written(s.start, s.kind, acc)
    <3>1. CASE s.stage = "group"
      BY <3>1 DEF Judged, Undisturbed
    <3>2. CASE s.stage = "first"
      BY <1>1, <3>2, WrittenEmpty DEF Judged, Undisturbed, Place
    <3> QED BY <1>8, <3>1, <3>2
  <2>3. \A w \in ToSet(g) : w \in Writes /\ w.id \in Ids /\ w.id \in IdsOf(g) /\ w.id \notin IdsOf(acc)
    <3> HIDE DEF g, acc
    <3>1. \A w \in ToSet(g) : w \in Writes /\ w.id \in IdsOf(g)
      BY <1>3, IdsOfWrites
    <3> QED BY <1>3, <3>1 DEF Writes
  <2>4. \A w \in ToSet(g) : t[w.id] = s.start[w.id]
    <3> HIDE DEF g, acc
    <3>1. \A i \in Ids \ IdsOf(acc) : Written(s.start, s.kind, acc)[i] = s.start[i]
      BY <1>1, <1>4, WrittenAt
    <3> QED BY <2>2, <2>3, <3>1
  <2>5. \A w \in ToSet(g) : w \in Fine(s) <=> w \in F
    <3>1. \A w \in ToSet(g) : w.id \in Present(s) <=> s.kind = "insert" /\ Exists(t[w.id])
      BY <1>1, <2>1, <2>3 DEF Present
    <3> QED BY <1>1, <2>3, <2>4, <3>1 DEF Fine, FineOf
  <2>6. Passed(s) = K
    <3>1. Keeping(g, Fine(s)) = Keeping(g, F)
      <4> HIDE DEF g, F
      <4> QED BY <1>3, <2>5, KeepingSame
    <3> QED BY <2>1, <3>1 DEF Passed
  <2>7. RuleFails(s.start, s.kind, acc \o K) <=> RuleFails(s.start, s.kind, acc) \/ RuleFails(t, s.kind, K)
    <3> HIDE DEF acc, K
    <3> QED BY <1>1, <1>5, <1>6, <2>2, RuleFailsConcat
  <2> QED BY <1>2, <1>4, <1>5, <1>6, <1>8, <2>6, <2>7 DEF Kept
<1> QED BY <1>1, <1>7, <1>8

\* The batch of the rows accepted does not fail.
LEMMA CalmFinal ==
  ASSUME NEW s, NEW t \in Tables, NEW p, Judged(s, t, p), s.calm, s.stage = "final",
         NEW ds \in Seq(Writes), Decided(s, p, ds)
  PROVE  s.kind = "history" /\ Passed(s) = s.accepted /\ ~ RuleFails(t, s.kind, Passed(s))
<1> DEFINE acc == s.accepted
           F == FineOf(s.start, p, s.kind)
<1>1. /\ s \in HubRequests /\ Asked(s) /\ Parts(s, p) /\ Place(s) /\ s.kind = "history" /\ s.todo = <<>>
      /\ acc \in Seq(Writes) /\ s.start \in Tables /\ s.view = t /\ s.sources = p /\ t = s.start
      /\ acc = OneByOne(s.start, p, s.kind, ds)
  BY DEF Judged, HubRequests, Seen, Attested, Decided, Place, Asked, Undisturbed
<1>2. Distinct(ds)
  <2>1. ds \o <<>> = ds
    BY ConcatEmptySeq
  <2> QED BY <1>1, <2>1, JoinedEmpty DEF Decided, Asked
<1>3. ToSet(acc) \subseteq F /\ ~ RuleFails(s.start, s.kind, acc)
  <2> HIDE DEF acc, F
  <2> QED BY <1>1, <1>2, OneByOneSafe DEF F, Kinds
<1>4. Attempted(s) = acc
  BY <1>1, AttemptFits
<1>5. Present(s) = {}
  BY <1>1 DEF Present
<1>6. Fine(s) = F
  BY <1>1, <1>5 DEF Fine, FineOf
<1>7. Keeping(acc, F) = acc
  <2> HIDE DEF acc, F
  <2> QED BY <1>1, <1>3, KeepingAll
<1> QED BY <1>1, <1>3, <1>4, <1>6, <1>7 DEF Passed

\* The rows written do not get older, and those that pass are stored.
LEMMA WriteGrows ==
  ASSUME NEW s, NEW t \in Tables, NEW p, Judged(s, t, p),
         \A i \in IdsOf(Passed(s)) : t[i] = s.view[i],
         NEW t2, t2 = Written(t, s.kind, Passed(s))
  PROVE  /\ t2 \in Tables /\ \A i \in Ids : t2[i].rev >= t[i].rev
         /\ \A w \in ToSet(Passed(s)) : t2[w.id].rev >= w.rev
<1> DEFINE ws == Passed(s)
<1>1. /\ s \in HubRequests /\ Asked(s) /\ Parts(s, p) /\ Place(s) /\ s.kind \in Kinds /\ s.view \in Tables
      /\ s.kind = "patch" => s.view[s.rows[1].id].rev = s.expected
  BY DEF Judged, HubRequests, Seen
<1>2. /\ ws \in Seq(Writes) /\ Distinct(ws) /\ ToSet(ws) = ToSet(Attempted(s)) \cap Fine(s)
      /\ IdsOf(ws) \subseteq IdsOf(Attempted(s)) \ Present(s)
      /\ s.stage \in {"group", "first"} => Attempted(s) = Head(s.todo)
  BY <1>1, AttemptFits
<1>3. /\ t2 \in Tables
      /\ \A i \in Ids \ IdsOf(ws) : t2[i] = t[i]
      /\ \A w \in ToSet(ws) : t2[w.id] = IF Applies(s.kind, t[w.id], w) THEN Merged(t[w.id], w) ELSE t[w.id]
  <2> HIDE DEF ws
  <2> QED BY <1>2, WrittenAt DEF ws
<1> HIDE DEF ws
<1>4. ASSUME NEW w \in ToSet(ws)
      PROVE  /\ w.id \in Ids /\ t[w.id].rev \in Int /\ t2[w.id].rev \in Int /\ w.rev \in Int
             /\ t2[w.id].rev >= w.rev /\ t2[w.id].rev >= t[w.id].rev
  <2>1. w \in Writes /\ w.id \in IdsOf(ws)
    BY <1>2, IdsOfWrites
  <2>2. w.id \in Ids /\ w.rev \in 1 .. MaxRev /\ t[w.id].rev \in 0 .. MaxRev /\ t2[w.id].rev \in 0 .. MaxRev
        /\ MaxRev \in Nat
    BY <1>3, <2>1, HubAssumption DEF Writes, Tables
  <2>3. t[w.id] = s.view[w.id] /\ Merged(t[w.id], w).rev = w.rev
    BY <2>1 DEF ws, Merged
  <2>4. CASE s.kind = "patch"
    <3>1. s.rows \in Seq(Writes) /\ Len(s.rows) = 1 /\ s.expected < s.rows[1].rev /\ s.todo = <<s.rows>>
          /\ s.stage = "group" /\ s.expected \in Nat
      BY <1>1, <2>4 DEF Asked, Place, HubRequests
    <3>2. Head(<<s.rows>>) = s.rows
      OBVIOUS
    <3>3. w \in ToSet(s.rows)
      BY <1>2, <3>1, <3>2
    <3>4. w = s.rows[1]
      BY <3>1, <3>3 DEF ToSet
    <3>5. t2[w.id].rev = w.rev /\ t[w.id].rev = s.expected
      BY <1>1, <1>3, <2>3, <2>4, <3>4 DEF Applies
    <3> QED BY <2>2, <3>1, <3>4, <3>5
  <2>5. CASE s.kind = "insert"
    <3>1. w.id \in IdsOf(Attempted(s)) /\ w.id \notin Present(s)
      BY <1>2, <2>1
    <3>2. t[w.id].rev = 0
      BY <2>3, <2>5, <3>1 DEF Present, Exists
    <3>3. t2[w.id].rev = w.rev
      BY <1>3, <2>3, <2>5, <3>2 DEF Applies, Exists
    <3> QED BY <2>2, <3>2, <3>3
  <2>6. CASE s.kind \in {"push", "history"}
    <3>1. Applies(s.kind, t[w.id], w) <=> w.rev > t[w.id].rev
      BY <2>6 DEF Applies
    <3> QED BY <1>3, <2>2, <2>3, <3>1
  <2> QED BY <1>1, <2>4, <2>5, <2>6 DEF Kinds
<1>5. ASSUME NEW i \in Ids PROVE t2[i].rev >= t[i].rev
  <2>1. CASE i \in IdsOf(ws)
    <3>1. PICK w \in ToSet(ws) : w.id = i
      BY <2>1 DEF IdsOf
    <3> QED BY <1>4, <3>1
  <2>2. CASE i \notin IdsOf(ws)
    <3>1. t2[i] = t[i] /\ t[i].rev \in 0 .. MaxRev
      BY <1>3, <2>2 DEF Tables
    <3> QED BY <3>1, HubAssumption
  <2> QED BY <2>1, <2>2
<1> QED BY <1>3, <1>4, <1>5 DEF ws

-----------------------------------------------------------------------------
(* After an attempt *)

\* Undisturbed, the rows accepted before come out accepted again.
LEMMA NoDivergence ==
  ASSUME NEW s, NEW t \in Tables, NEW p, Judged(s, t, p), s.calm
  PROVE  ~ Diverged(s)
<1> SUFFICES ASSUME s.stage = "probe", ~ IsPrefix(s.accepted, Passed(s)) PROVE FALSE
  BY DEF Diverged
<1>1. PICK ds \in Seq(Writes) : Decided(s, p, ds)
  BY DEF Judged, Parts
<1>2. s.kind = "history" /\ s.accepted \in Seq(Writes)
  BY DEF Judged, Asked, HubRequests
<1>3. Passed(s) = s.accepted \o Kept(s, p) /\ Kept(s, p) \in Seq(Writes)
  BY <1>1, <1>2, CalmAttempt
<1>4. IsPrefix(s.accepted, s.accepted \o Kept(s, p))
  BY <1>2, <1>3, PrefixOfConcat
<1> QED BY <1>3, <1>4

\* The rows accepted once the attempt has succeeded.
Accepting(s) == IF s.stage = "group" THEN s.accepted \o Passed(s) ELSE Passed(s)

\* The answers to the rows of the group join those to the rows before it.
LEMMA AnswersJoin ==
  ASSUME NEW s, NEW t \in Tables, NEW p, Judged(s, t, p), ~ Diverged(s), s.stage # "final",
         NEW ds \in Seq(Writes), Decided(s, p, ds)
  PROVE  /\ s.todo # <<>> /\ Accepting(s) \in Seq(Writes) /\ Distinct(Accepting(s))
         /\ s.stage # "probe" => Accepting(s) = s.accepted \o Passed(s)
         /\ LET rejected == s.rejected \cup (IdsOf(Attempted(s)) \ (IdsOf(Passed(s)) \cup Present(s)))
                existing == s.existing \cup Present(s)
            IN  /\ IdsOf(ds \o Head(s.todo)) = IdsOf(Accepting(s)) \cup rejected \cup existing
                /\ IdsOf(Accepting(s)) \cap (rejected \cup existing) = {}
                /\ rejected \cap existing = {}
                /\ rejected \subseteq Ids /\ existing \subseteq Ids
<1> DEFINE acc == s.accepted
           g == Head(s.todo)
           ws == Passed(s)
           A == Attempted(s)
<1>1. /\ s \in HubRequests /\ Asked(s) /\ Parts(s, p) /\ Place(s) /\ acc \in Seq(Writes)
      /\ s.stage \in {"group", "first", "probe"}
      /\ s.rejected \subseteq Ids /\ s.existing \subseteq Ids
  BY DEF Judged, HubRequests
<1>2. s.todo # <<>>
  <2>1. s.stage = "first" => s.todo = <<s.rows>>
    BY <1>1 DEF Place
  <2>2. <<s.rows>> # <<>>
    OBVIOUS
  <2> QED BY <1>1, <2>1, <2>2 DEF Place
<1>3. /\ g \in Seq(Writes) /\ IdsOf(ds) \cap IdsOf(g) = {}
      /\ IdsOf(ds \o g) = IdsOf(ds) \cup IdsOf(g)
      /\ IdsOf(acc \o g) = IdsOf(acc) \cup IdsOf(g)
  BY <1>1, <1>2, NextGroup
<1>4. /\ ws \in Seq(Writes) /\ Distinct(ws) /\ A \in Seq(Writes)
      /\ IdsOf(ws) \subseteq IdsOf(A) \ Present(s)
      /\ Present(s) \subseteq IdsOf(A)
      /\ s.kind # "insert" => Present(s) = {}
      /\ s.stage = "probe" => A = acc \o g
      /\ s.stage \in {"group", "first"} => A = g
  BY <1>1, AttemptFits
<1>5. /\ IdsOf(ds) = IdsOf(acc) \cup s.rejected \cup s.existing
      /\ IdsOf(acc) \cap (s.rejected \cup s.existing) = {}
      /\ s.rejected \cap s.existing = {} /\ Distinct(acc)
  BY DEF Decided
<1>6. IdsOf(A) \subseteq Ids
  BY <1>4, IdsOfWrites
<1>7. CASE s.stage \in {"group", "first"}
  <2> DEFINE both == acc \o ws
  <2>1. Accepting(s) = both
    <3>1. s.stage = "first" => acc = <<>>
      BY <1>1 DEF Place
    <3>2. <<>> \o ws = ws
      BY <1>4, ConcatEmptySeq
    <3> QED BY <1>7, <3>1, <3>2 DEF Accepting
  <2>2. A = g
    BY <1>4, <1>7
  <2> HIDE DEF acc, ws, g, A
  <2>3. both \in Seq(Writes) /\ IdsOf(both) = IdsOf(acc) \cup IdsOf(ws)
    BY <1>1, <1>4, IdsOfConcat, ConcatProperties
  <2>4. Distinct(both)
    BY <1>1, <1>3, <1>4, <1>5, <2>2, DistinctConcat
  <2> HIDE DEF both
  <2>5. /\ IdsOf(ds \o g) = IdsOf(both) \cup (s.rejected \cup (IdsOf(A) \ (IdsOf(ws) \cup Present(s))))
                               \cup (s.existing \cup Present(s))
        /\ IdsOf(both) \cap ((s.rejected \cup (IdsOf(A) \ (IdsOf(ws) \cup Present(s))))
                               \cup (s.existing \cup Present(s))) = {}
        /\ (s.rejected \cup (IdsOf(A) \ (IdsOf(ws) \cup Present(s)))) \cap (s.existing \cup Present(s)) = {}
    BY <1>3, <1>4, <1>5, <2>2, <2>3
  <2>6. s.stage # "probe" => Accepting(s) = both
    BY <2>1
  <2> QED BY <1>1, <1>2, <1>4, <1>6, <2>1, <2>3, <2>4, <2>5, <2>6 DEF acc, ws, g, A, both
<1>8. CASE s.stage = "probe"
  <2>1. Accepting(s) = ws /\ A = acc \o g /\ s.kind = "history" /\ Present(s) = {}
    BY <1>1, <1>4, <1>8 DEF Accepting, Asked
  <2>2. IsPrefix(acc, ws)
    BY <1>8 DEF Diverged
  <2>3. IdsOf(acc) \subseteq IdsOf(ws)
    <3> HIDE DEF acc, ws
    <3> QED BY <1>1, <1>4, <2>2, PrefixMembers DEF IdsOf
  <2> HIDE DEF acc, ws, g, A
  <2>4. /\ IdsOf(ds \o g) = IdsOf(ws) \cup (s.rejected \cup (IdsOf(A) \ (IdsOf(ws) \cup Present(s))))
                               \cup (s.existing \cup Present(s))
        /\ IdsOf(ws) \cap ((s.rejected \cup (IdsOf(A) \ (IdsOf(ws) \cup Present(s))))
                               \cup (s.existing \cup Present(s))) = {}
        /\ (s.rejected \cup (IdsOf(A) \ (IdsOf(ws) \cup Present(s)))) \cap (s.existing \cup Present(s)) = {}
    BY <1>3, <1>4, <1>5, <2>1, <2>3
  <2> QED BY <1>1, <1>2, <1>4, <1>6, <1>8, <2>1, <2>4 DEF acc, ws, g, A
<1> QED BY <1>1, <1>7, <1>8

\* The request once an attempt has succeeded, its answers noted.
Noted(s) ==
  [s EXCEPT
     !.accepted = Accepting(s),
     !.rejected = s.rejected \cup (IdsOf(Attempted(s)) \ (IdsOf(Passed(s)) \cup Present(s))),
     !.existing = s.existing \cup Present(s),
     !.todo = IF s.todo = <<>> THEN s.todo ELSE Tail(s.todo)]

LEMMA SucceedNoted ==
  ASSUME NEW s \in HubRequests
  PROVE  Succeed(s) = IF Diverged(s) THEN RejectAll(s) ELSE Proceed(Noted(s))
BY DEF Succeed, Noted, Accepting, HubRequests

LEMMA NotedParts ==
  ASSUME NEW s, NEW t \in Tables, NEW p, Judged(s, t, p), ~ Diverged(s), ~ RuleFails(t, s.kind, Passed(s))
  PROVE  /\ Noted(s) \in HubRequests /\ Asked(Noted(s)) /\ Parts(Noted(s), p)
         /\ s.stage \in {"first", "final"} \/ s.kind = "patch" => Noted(s).todo = <<>>
<1> DEFINE z == Noted(s)
           acc == s.accepted
           ws == Passed(s)
<1>1. /\ s \in HubRequests /\ Asked(s) /\ Parts(s, p) /\ Place(s) /\ acc \in Seq(Writes)
      /\ s.stage \in {"group", "first", "probe", "final"} /\ s.todo \in Seq(Groups) /\ s.kind \in Kinds
      /\ s.rejected \subseteq Ids /\ s.existing \subseteq Ids
  BY DEF Judged, HubRequests
<1>2. PICK ds \in Seq(Writes) : Decided(s, p, ds)
  BY <1>1 DEF Parts
<1>3. /\ z.pc = s.pc /\ z.stage = s.stage /\ z.kind = s.kind /\ z.rows = s.rows /\ z.expected = s.expected
      /\ z.start = s.start /\ z.calm = s.calm
      /\ z.accepted = Accepting(s)
      /\ z.rejected = s.rejected \cup (IdsOf(Attempted(s)) \ (IdsOf(Passed(s)) \cup Present(s)))
      /\ z.existing = s.existing \cup Present(s)
      /\ z.todo = IF s.todo = <<>> THEN s.todo ELSE Tail(s.todo)
  BY <1>1 DEF Noted, HubRequests
<1>4. Accepting(s) \in Seq(Writes) /\ z.rejected \subseteq Ids /\ z.existing \subseteq Ids /\ z.todo \in Seq(Groups)
      => z \in HubRequests
  BY <1>1 DEF Noted, HubRequests
<1> HIDE DEF z
<1>5. Asked(z)
  BY <1>1, <1>3 DEF Asked
<1>6. CASE s.stage # "final"
  <2>1. /\ s.todo # <<>> /\ Accepting(s) \in Seq(Writes) /\ Distinct(Accepting(s))
        /\ s.stage # "probe" => Accepting(s) = s.accepted \o Passed(s)
        /\ IdsOf(ds \o Head(s.todo)) = IdsOf(Accepting(s)) \cup z.rejected \cup z.existing
        /\ IdsOf(Accepting(s)) \cap (z.rejected \cup z.existing) = {}
        /\ z.rejected \cap z.existing = {}
        /\ z.rejected \subseteq Ids /\ z.existing \subseteq Ids
    <3>1. z.rejected = s.rejected \cup (IdsOf(Attempted(s)) \ (IdsOf(Passed(s)) \cup Present(s)))
          /\ z.existing = s.existing \cup Present(s)
      BY <1>3
    <3> QED BY <1>2, <1>6, <3>1, AnswersJoin
  <2>2. /\ Tail(s.todo) \in Seq(Groups) /\ ds \o Head(s.todo) \in Seq(Writes) /\ Head(s.todo) \in Seq(Writes)
        /\ s.rows = (ds \o Head(s.todo)) \o Joined(Tail(s.todo)) /\ Distinct(ds \o Head(s.todo))
    BY <1>1, <1>2, <2>1, NextGroup
  <2>3. z \in HubRequests /\ z.todo = Tail(s.todo)
    BY <1>3, <1>4, <2>1, <2>2
  <2>4. s.calm /\ s.kind # "patch" => Accepting(s) = OneByOne(s.start, p, s.kind, ds \o Head(s.todo))
    <3> SUFFICES ASSUME s.calm, s.kind # "patch"
                 PROVE  Accepting(s) = OneByOne(s.start, p, s.kind, ds \o Head(s.todo))
      OBVIOUS
    <3>1. /\ RuleFails(t, s.kind, ws) <=> RuleFails(s.start, s.kind, acc \o Kept(s, p))
          /\ s.stage = "probe" => ws = acc \o Kept(s, p)
          /\ s.stage # "probe" => ws = Kept(s, p)
      BY <1>2, <1>6, CalmAttempt
    <3>2. Accepting(s) = acc \o Kept(s, p)
      BY <2>1, <3>1 DEF Accepting
    <3>3. s.start \in Tables /\ acc = OneByOne(s.start, p, s.kind, ds)
      BY <1>2 DEF Decided
    <3>4. ~ RuleFails(s.start, s.kind, acc \o Kept(s, p))
      BY <3>1
    <3> DEFINE g == Head(s.todo)
    <3>5. g \in Seq(Writes) /\ Distinct(ds \o g)
      BY <2>2
    <3>6. ~ RuleFails(s.start, s.kind, OneByOne(s.start, p, s.kind, ds) \o Keeping(g, FineOf(s.start, p, s.kind)))
      BY <3>3, <3>4 DEF Kept
    <3> DEFINE kind == s.kind
               start == s.start
    <3>7. /\ kind \in Kinds /\ kind # "patch" /\ start \in Tables
          /\ ~ RuleFails(start, kind, OneByOne(start, p, kind, ds) \o Keeping(g, FineOf(start, p, kind)))
      BY <1>1, <3>3, <3>6
    <3> HIDE DEF g, acc, ws, kind, start
    <3>8. OneByOne(start, p, kind, ds \o g) = OneByOne(start, p, kind, ds) \o Keeping(g, FineOf(start, p, kind))
      BY <3>5, <3>7, GroupExact
    <3> QED BY <3>2, <3>3, <3>8 DEF Kept, g, kind, start
  <2>5. Decided(z, p, ds \o Head(s.todo))
    <3>1. s.calm => s.start \in Tables
      BY <1>2 DEF Decided
    <3> QED BY <1>3, <2>1, <2>2, <2>3, <2>4, <3>1 DEF Decided
  <2>6. Parts(z, p)
    BY <2>2, <2>5 DEF Parts
  <2>7. s.stage = "first" \/ s.kind = "patch" => z.todo = <<>>
    <3>1. Tail(<<s.rows>>) = <<>>
      OBVIOUS
    <3> QED BY <1>1, <2>3, <3>1 DEF Place
  <2> QED BY <1>5, <1>6, <2>3, <2>6, <2>7 DEF z
<1>7. CASE s.stage = "final"
  <2>1. s.kind = "history" /\ s.todo = <<>> /\ Attempted(s) = acc /\ Present(s) = {}
    BY <1>1, <1>7, AttemptFits DEF Asked, Place
  <2>2. ws \in Seq(Writes) /\ Distinct(ws) /\ IdsOf(ws) \subseteq IdsOf(acc)
    BY <1>1, <2>1, AttemptFits
  <2>3. /\ IdsOf(ds) = IdsOf(acc) \cup s.rejected \cup s.existing
        /\ IdsOf(acc) \cap (s.rejected \cup s.existing) = {} /\ s.rejected \cap s.existing = {}
        /\ s.rows = ds \o Joined(s.todo)
        /\ s.calm => s.start \in Tables /\ acc = OneByOne(s.start, p, s.kind, ds)
    BY <1>2, <2>1 DEF Decided
  <2>4. s.calm => ws = acc
    BY <1>2, <1>7, CalmFinal
  <2>5. IdsOf(acc) \subseteq Ids
    BY <1>1, IdsOfWrites
  <2>6. z.accepted = ws /\ z.rejected = s.rejected \cup (IdsOf(acc) \ IdsOf(ws)) /\ z.existing = s.existing
        /\ z.todo = s.todo
    BY <1>3, <1>7, <2>1 DEF Accepting
  <2>7. z \in HubRequests
    <3>1. Accepting(s) = ws
      BY <1>7 DEF Accepting
    <3> HIDE DEF acc, ws
    <3> QED BY <1>1, <1>4, <2>2, <2>5, <2>6, <3>1
  <2> HIDE DEF acc, ws
  <2>8. Decided(z, p, ds)
    BY <1>3, <2>2, <2>3, <2>4, <2>6 DEF Decided
  <2>9. Parts(z, p)
    BY <2>8 DEF Parts
  <2> QED BY <1>5, <2>1, <2>6, <2>7, <2>9 DEF z
<1> QED BY <1>6, <1>7

\* A batch that went through leaves a request that may go on.
LEMMA SucceedFits ==
  ASSUME NEW s, NEW t \in Tables, NEW p, Judged(s, t, p), s.stage = "group" => Stored(s, t),
         ~ RuleFails(t, s.kind, Passed(s)), \A i \in IdsOf(Passed(s)) : t[i] = s.view[i],
         NEW t2, t2 = IF s.stage = "probe" THEN t ELSE Written(t, s.kind, Passed(s))
  PROVE  RequestOK(Succeed(s), t2, p)
<1> DEFINE z == Noted(s)
           new == Written(t, s.kind, Passed(s))
<1>1. s \in HubRequests /\ Asked(s) /\ Parts(s, p) /\ Place(s) /\ s.accepted \in Seq(Writes)
      /\ s.stage \in {"group", "first", "probe", "final"} /\ s.kind \in Kinds
  BY DEF Judged, HubRequests
<1>2. CASE Diverged(s)
  <2>1. ~ s.calm
    BY <1>2, NoDivergence
  <2>2. RequestOK(RejectAll(s), t2, p)
    BY <1>1, <2>1, RejectAllFits
  <2> QED BY <1>1, <1>2, <2>2, SucceedNoted
<1>3. CASE ~ Diverged(s)
  <2>1. /\ z \in HubRequests /\ Asked(z) /\ Parts(z, p)
        /\ s.stage \in {"first", "final"} \/ s.kind = "patch" => z.todo = <<>>
    BY <1>3, NotedParts
  <2>2. /\ z.stage = s.stage /\ z.kind = s.kind /\ z.start = s.start /\ z.calm = s.calm
        /\ z.accepted = Accepting(s)
    BY <1>1 DEF Noted, HubRequests
  <2> HIDE DEF z
  <2>3. /\ new \in Tables /\ \A i \in Ids : new[i].rev >= t[i].rev
        /\ \A w \in ToSet(Passed(s)) : new[w.id].rev >= w.rev
    BY WriteGrows
  <2>4. Passed(s) \in Seq(Writes)
    BY <1>1, AttemptFits
  <2>5. s.stage = "group" => Accepting(s) = s.accepted \o Passed(s) /\ Distinct(s.accepted \o Passed(s)) /\ Distinct(s.accepted)
    <3> SUFFICES ASSUME s.stage = "group"
                 PROVE  Accepting(s) = s.accepted \o Passed(s) /\ Distinct(s.accepted \o Passed(s)) /\ Distinct(s.accepted)
      OBVIOUS
    <3>1. PICK ds \in Seq(Writes) : Decided(s, p, ds)
      BY <1>1 DEF Parts
    <3>2. Distinct(Accepting(s)) /\ Accepting(s) = s.accepted \o Passed(s)
      BY <1>3, <3>1, AnswersJoin
    <3> QED BY <3>1, <3>2 DEF Decided
  <2>6. s.stage \in {"group", "probe"} => Undisturbed(z, t2)
    <3>1. CASE s.stage = "group"
      <4> SUFFICES ASSUME s.calm PROVE t2 = Written(s.start, s.kind, s.accepted \o Passed(s))
        BY <2>2, <2>5, <3>1 DEF Undisturbed
      <4>1. t = Written(s.start, s.kind, s.accepted) /\ s.start \in Tables
        BY <1>1, <3>1 DEF Judged, Undisturbed, Parts, Decided
      <4> DEFINE acc == s.accepted
                 ws == Passed(s)
      <4>2. acc \in Seq(Writes) /\ ws \in Seq(Writes) /\ Distinct(acc \o ws)
        BY <1>1, <2>4, <2>5, <3>1
      <4> HIDE DEF acc, ws
      <4>3. Written(Written(s.start, s.kind, acc), s.kind, ws) = Written(s.start, s.kind, acc \o ws)
        BY <4>1, <4>2, WrittenConcat
      <4> QED BY <3>1, <4>1, <4>3 DEF acc, ws
    <3>2. CASE s.stage = "probe"
      BY <2>2, <3>2 DEF Judged, Undisturbed
    <3> QED BY <3>1, <3>2
  <2>7. s.stage # "probe" => Stored(z, t2)
    <3> SUFFICES ASSUME s.stage # "probe", NEW w \in ToSet(Accepting(s)) PROVE new[w.id].rev >= w.rev
      BY <2>2 DEF Stored
    <3>1. CASE w \in ToSet(Passed(s))
      BY <2>3, <3>1
    <3>2. CASE s.stage = "group" /\ w \in ToSet(s.accepted)
      <4>1. w \in Writes
        BY <1>1, <3>2, MembersOf
      <4>2. w.id \in Ids /\ w.rev \in Int
        BY <4>1 DEF Writes
      <4>3. t[w.id].rev >= w.rev
        BY <3>2 DEF Stored
      <4>4. new[w.id].rev \in Int /\ t[w.id].rev \in Int /\ new[w.id].rev >= t[w.id].rev
        BY <2>3, <4>2 DEF Tables
      <4> QED BY <4>2, <4>3, <4>4
    <3>3. w \in ToSet(Passed(s)) \/ (s.stage = "group" /\ w \in ToSet(s.accepted))
      <4>1. ToSet(s.accepted \o Passed(s)) = ToSet(s.accepted) \cup ToSet(Passed(s))
        BY <1>1, <2>4, MembersConcat
      <4> QED BY <2>5, <4>1 DEF Accepting
    <3> QED BY <3>1, <3>2, <3>3
  <2>8. Between(z, t2, p)
    BY <2>1, <2>2, <2>6, <2>7 DEF Between
  <2>9. RequestOK(Proceed(z), t2, p)
    BY <2>8, ProceedFits
  <2> QED BY <1>1, <1>3, <2>9, SucceedNoted DEF z
<1> QED BY <1>2, <1>3

-----------------------------------------------------------------------------
(* After an attempt that failed *)

\* The row that fails alone is rejected, and one-by-one writes would not take it.
LEMMA SingleParts ==
  ASSUME NEW s, NEW t \in Tables, NEW p, Judged(s, t, p), s.calm => RuleFails(t, s.kind, Passed(s)),
         s.stage \in {"group", "probe"}, Len(Head(s.todo)) = 1,
         NEW z, z = [s EXCEPT !.rejected = s.rejected \cup IdsOf(Head(s.todo)), !.todo = Tail(s.todo)]
  PROVE  /\ z \in HubRequests /\ Asked(z) /\ Parts(z, p)
         /\ s.kind = "patch" => z.todo = <<>>
<1> DEFINE acc == s.accepted
           g == Head(s.todo)
<1>1. /\ s \in HubRequests /\ Asked(s) /\ Parts(s, p) /\ Place(s) /\ acc \in Seq(Writes) /\ s.kind \in Kinds
      /\ s.todo # <<>> /\ s.rejected \subseteq Ids
  BY DEF Judged, HubRequests, Place
<1>2. PICK ds \in Seq(Writes) : Decided(s, p, ds)
  BY <1>1 DEF Parts
<1>3. /\ Tail(s.todo) \in Seq(Groups) /\ ds \o g \in Seq(Writes) /\ g \in Seq(Writes)
      /\ s.rows = (ds \o g) \o Joined(Tail(s.todo)) /\ Distinct(ds \o g)
      /\ IdsOf(ds \o g) = IdsOf(ds) \cup IdsOf(g) /\ IdsOf(ds) \cap IdsOf(g) = {}
      /\ Distinct(ds)
  BY <1>1, <1>2, NextGroup
<1>4. IdsOf(g) \subseteq Ids
  BY <1>3, IdsOfWrites
<1>5. /\ z \in HubRequests /\ z.stage = s.stage /\ z.kind = s.kind /\ z.rows = s.rows /\ z.expected = s.expected
      /\ z.start = s.start /\ z.calm = s.calm /\ z.accepted = acc /\ z.existing = s.existing
      /\ z.rejected = s.rejected \cup IdsOf(g) /\ z.todo = Tail(s.todo)
  BY <1>1, <1>3, <1>4 DEF HubRequests
<1>6. Asked(z)
  BY <1>1, <1>5 DEF Asked
<1>7. /\ IdsOf(ds) = IdsOf(acc) \cup s.rejected \cup s.existing
      /\ IdsOf(acc) \cap (s.rejected \cup s.existing) = {} /\ s.rejected \cap s.existing = {} /\ Distinct(acc)
      /\ s.calm => s.start \in Tables
      /\ s.calm /\ s.kind # "patch" => acc = OneByOne(s.start, p, s.kind, ds)
  BY <1>2 DEF Decided
<1>8. s.calm /\ s.kind # "patch" => acc = OneByOne(s.start, p, s.kind, ds \o g)
  <2> SUFFICES ASSUME s.calm, s.kind # "patch" PROVE acc = OneByOne(s.start, p, s.kind, ds \o g)
    OBVIOUS
  <2> DEFINE x == g[1]
             kind == s.kind
             start == s.start
             F == FineOf(start, p, kind)
             K == Keeping(g, F)
             none == <<>>
             one == <<x>>
  <2>1. RuleFails(start, kind, acc \o K)
    BY <1>2, CalmAttempt DEF Kept
  <2>2. start \in Tables /\ acc = OneByOne(start, p, kind, ds) /\ kind \in Kinds /\ kind # "patch"
    BY <1>1, <1>7
  <2>3. x \in Writes /\ g = one
    <3>1. Len(g) = 1 /\ g \in Seq(Writes)
      BY <1>3
    <3> HIDE DEF g
    <3>2. g[1] \in Writes
      BY <3>1, ElementOfSeq
    <3>3. <<g[1]>> \in Seq(Writes) /\ Len(<<g[1]>>) = 1 /\ <<g[1]>>[1] = g[1]
      BY <3>2
    <3>4. g = <<g[1]>>
      BY <3>1, <3>3, SeqEqual
    <3> QED BY <3>2, <3>4
  <2>4. none \in Seq(Writes) /\ Append(none, x) = one
    BY EmptySeq
  <2>5. Keeping(none, F) = none
    <3> HIDE DEF F
    <3> QED BY KeepingEmpty
  <2>6. K = IF x \in F THEN one ELSE none
    <3> HIDE DEF none, one, F, x, g
    <3>1. Keeping(Append(none, x), F) = IF x \in F THEN Append(Keeping(none, F), x) ELSE Keeping(none, F)
      BY <2>3, <2>4, KeepingAppend
    <3> QED BY <2>3, <2>4, <2>5, <3>1
  <2>7. ~ RuleFails(start, kind, acc)
    <3> HIDE DEF acc, start, kind
    <3> QED BY <1>3, <2>2, OneByOneSafe
  <2>8. acc \o none = acc /\ Append(acc, x) = acc \o one /\ Append(ds, x) = ds \o one
    <3> HIDE DEF acc, x, g
    <3>1. acc \o none = acc
      BY <1>1, ConcatEmptySeq
    <3>2. Append(acc, x) = acc \o <<x>> /\ Append(ds, x) = ds \o <<x>>
      BY <1>1, <2>3, AppendIsConcat
    <3> QED BY <3>1, <3>2
  <2> HIDE DEF acc, x, g, kind, start, F, none, one, K
  <2>9. RuleFails(start, kind, Append(acc, x))
    BY <2>1, <2>6, <2>7, <2>8
  <2>10. Distinct(Append(ds, x))
    BY <1>3, <2>3, <2>8
  <2>11. OneByOne(start, p, kind, Append(ds, x)) = OneByOne(start, p, kind, ds)
    BY <2>2, <2>3, <2>9, <2>10, SingleExact
  <2> QED BY <2>2, <2>3, <2>8, <2>11 DEF kind, start
<1> HIDE DEF acc, g
<1>9. Decided(z, p, ds \o g)
  <2>1. z.rows = (ds \o g) \o Joined(z.todo)
    BY <1>3, <1>5
  <2>2. /\ IdsOf(ds \o g) = IdsOf(acc) \cup (s.rejected \cup IdsOf(g)) \cup s.existing
        /\ IdsOf(acc) \cap ((s.rejected \cup IdsOf(g)) \cup s.existing) = {}
        /\ (s.rejected \cup IdsOf(g)) \cap s.existing = {}
    BY <1>3, <1>7
  <2> QED BY <1>5, <1>7, <1>8, <2>1, <2>2 DEF Decided
<1>10. Parts(z, p)
  BY <1>3, <1>9 DEF Parts
<1>11. s.kind = "patch" => z.todo = <<>>
  <2>1. Tail(<<s.rows>>) = <<>>
    OBVIOUS
  <2> QED BY <1>1, <1>5, <2>1 DEF Place
<1> QED BY <1>5, <1>6, <1>10, <1>11

LEMMA FailFits ==
  ASSUME NEW s, NEW t \in Tables, NEW p, Judged(s, t, p), s.stage = "group" => Stored(s, t),
         s.calm => RuleFails(t, s.kind, Passed(s))
  PROVE  RequestOK(Fail(s), t, p)
<1>1. s \in HubRequests /\ Asked(s) /\ Parts(s, p) /\ Place(s) /\ s.accepted \in Seq(Writes) /\ s.kind \in Kinds
      /\ s.todo \in Seq(Groups) /\ s.stage \in {"group", "first", "probe", "final"}
  BY DEF Judged, HubRequests
<1>2. PICK ds \in Seq(Writes) : Decided(s, p, ds)
  BY <1>1 DEF Parts
<1> DEFINE y == Goto(s, "read")
<1>3. y \in HubRequests /\ SameAnswer(s, y) /\ y.pc = "read" /\ y.stage = s.stage
  BY <1>1, GotoFits
<1>4. CASE s.stage = "first"
  <2> DEFINE z == [y EXCEPT !.stage = "probe"]
  <2>1. Fail(s) = z
    BY <1>4 DEF Fail, Diverged
  <2> HIDE DEF y
  <2>2. z \in HubRequests /\ SameAnswer(s, z) /\ z.pc = "read" /\ z.stage = "probe"
    BY <1>3 DEF HubRequests, SameAnswer
  <2> HIDE DEF z
  <2>3. Parts(z, p)
    BY <1>1, <2>2, PartsSame
  <2>4. z.kind = "history"
    BY <1>1, <1>4, <2>2 DEF Asked, SameAnswer
  <2>5. Asked(z)
    BY <1>1, <2>2, <2>4 DEF Asked, SameAnswer
  <2>6. z.todo # <<>>
    <3>1. <<s.rows>> # <<>>
      OBVIOUS
    <3> QED BY <1>1, <1>4, <2>2, <3>1 DEF Place, SameAnswer
  <2>7. Place(z) /\ Undisturbed(z, t)
    BY <1>1, <1>4, <2>2, <2>4, <2>6 DEF Judged, Place, Undisturbed, SameAnswer
  <2>8. RequestOK(z, t, p)
    BY <2>2, <2>3, <2>5, <2>7 DEF RequestOK
  <2> QED BY <2>1, <2>8
<1>5. CASE s.stage = "final" \/ Diverged(s)
  <2>1. s.stage # "first"
    BY <1>5 DEF Diverged
  <2>2. Fail(s) = RejectAll(s)
    BY <1>5, <2>1 DEF Fail, Diverged
  <2>3. ~ s.calm
    BY <1>2, <1>5, CalmFinal, NoDivergence
  <2> QED BY <1>1, <2>2, <2>3, RejectAllFits
<1>6. CASE s.stage \in {"group", "probe"} /\ ~ Diverged(s) /\ Len(Head(s.todo)) = 1
  <2> DEFINE z == [s EXCEPT !.rejected = s.rejected \cup IdsOf(Head(s.todo)), !.todo = Tail(s.todo)]
  <2>1. Fail(s) = Proceed(z)
    BY <1>1, <1>6 DEF Fail, HubRequests
  <2>2. /\ z \in HubRequests /\ Asked(z) /\ Parts(z, p)
        /\ s.kind = "patch" => z.todo = <<>>
    BY <1>6, SingleParts
  <2>3. /\ z.stage = s.stage /\ z.kind = s.kind /\ z.start = s.start /\ z.calm = s.calm /\ z.accepted = s.accepted
    BY <1>1 DEF HubRequests
  <2> HIDE DEF z
  <2>4. Between(z, t, p)
    BY <1>6, <2>2, <2>3 DEF Between, Judged, Undisturbed, Stored
  <2> QED BY <2>1, <2>4, ProceedFits
<1>7. CASE s.stage \in {"group", "probe"} /\ ~ Diverged(s) /\ Len(Head(s.todo)) # 1
  <2> DEFINE z == [y EXCEPT !.todo = Halves(Head(s.todo)) \o Tail(s.todo)]
  <2>1. Fail(s) = z
    BY <1>1, <1>7 DEF Fail, Goto, HubRequests
  <2>2. s.todo # <<>>
    BY <1>1, <1>7 DEF Place
  <2>3. /\ Halves(Head(s.todo)) \o Tail(s.todo) \in Seq(Groups) \ {<<>>}
        /\ Joined(Halves(Head(s.todo)) \o Tail(s.todo)) = Joined(s.todo)
    BY <1>1, <1>7, <2>2, JoinedHalves
  <2> DEFINE gs == Halves(Head(s.todo)) \o Tail(s.todo)
  <2>4. gs \in Seq(Groups) /\ gs # <<>> /\ Joined(gs) = Joined(s.todo)
    BY <2>3
  <2> HIDE DEF gs, y
  <2>5. /\ z \in HubRequests /\ z.pc = "read" /\ z.stage = s.stage /\ z.kind = s.kind /\ z.rows = s.rows
        /\ z.expected = s.expected /\ z.start = s.start /\ z.calm = s.calm /\ z.accepted = s.accepted
        /\ z.rejected = s.rejected /\ z.existing = s.existing /\ z.todo = gs
    BY <1>3, <2>4 DEF HubRequests, SameAnswer, gs
  <2> HIDE DEF z
  <2>6. Asked(z)
    BY <1>1, <2>5 DEF Asked
  <2>7. Decided(z, p, ds)
    BY <1>2, <2>4, <2>5 DEF Decided
  <2>8. Parts(z, p)
    BY <2>7 DEF Parts
  <2>9. s.kind # "patch"
    <3>1. Head(<<s.rows>>) = s.rows
      OBVIOUS
    <3> QED BY <1>1, <1>7, <3>1 DEF Place, Asked
  <2>10. Place(z) /\ Undisturbed(z, t) /\ (z.stage = "group" => Stored(z, t))
    BY <1>7, <2>4, <2>5, <2>9 DEF Judged, Place, Undisturbed, Stored
  <2>11. RequestOK(z, t, p)
    BY <2>5, <2>6, <2>8, <2>10 DEF RequestOK
  <2> QED BY <2>1, <2>11
<1> QED BY <1>1, <1>4, <1>5, <1>6, <1>7

-----------------------------------------------------------------------------
(* The steps of the hub *)

LEMMA IdleFits ==
  ASSUME NEW t, NEW p
  PROVE  NoRequest \in HubRequests /\ RequestOK(NoRequest, t, p)
<1>1. <<>> \in Seq(Writes) /\ <<>> \in Seq(Groups)
  BY EmptySeq
<1>2. NoRequest \in HubRequests
  BY <1>1 DEF NoRequest, HubRequests, Kinds
<1> QED BY <1>2 DEF NoRequest, RequestOK

LEMMA HubInit == Init => HubInv
<1> SUFFICES ASSUME Init PROVE HubInv
  OBVIOUS
<1>1. tbl \in Tables
  BY HubAssumption DEF Init, Tables, Absent
<1>2. prov \in [Ids -> Sources]
  BY DEF Init, Sources
<1>3. RulesHold
  BY HubAssumption DEF Init, RulesHold, Breaks, Absent
<1>4. \A r \in Reqs : RequestOK(q[r], tbl, prov)
  BY IdleFits DEF Init
<1> QED BY <1>1, <1>2, <1>3, <1>4 DEF Init, HubInv

\* One request goes on and nothing is written.
LEMMA OneGoesOn ==
  ASSUME HubInv, NEW r \in Reqs, NEW z, RequestOK(z, tbl, prov),
         q' = [q EXCEPT ![r] = z], UNCHANGED <<tbl, prov>>
  PROVE  HubInv'
<1>1. DOMAIN q' = Reqs /\ \A k \in Reqs : q'[k] = IF k = r THEN z ELSE q[k]
  BY DEF HubInv
<1>2. RulesHold'
  BY DEF HubInv, RulesHold
<1>3. \A k \in Reqs : RequestOK(q'[k], tbl, prov)
  BY <1>1 DEF HubInv
<1> QED BY <1>1, <1>2, <1>3 DEF HubInv

LEMMA BeginFits ==
  ASSUME HubInv, NEW r \in Reqs, Begin(r)
  PROVE  HubInv'
<1>1. PICK o \in Offers[r] :
        q' = [q EXCEPT ![r] = [NoRequest EXCEPT
               !.pc = "read", !.kind = o.kind, !.rows = o.rows, !.expected = o.expected,
               !.stage = IF o.kind = "history" THEN "first" ELSE "group",
               !.todo = <<o.rows>>, !.start = tbl]]
  BY DEF Begin
<1>2. Offer(o)
  BY HubAssumption
<1> DEFINE rows == o.rows
           z == [NoRequest EXCEPT
               !.pc = "read", !.kind = o.kind, !.rows = o.rows, !.expected = o.expected,
               !.stage = IF o.kind = "history" THEN "first" ELSE "group",
               !.todo = <<o.rows>>, !.start = tbl]
           none == <<>>
<1>3. /\ rows \in Groups /\ rows \in Seq(Writes) /\ rows # <<>> /\ o.kind \in Kinds /\ o.expected \in Nat
      /\ Distinct(rows)
      /\ o.kind = "patch" => Len(rows) = 1 /\ o.expected < rows[1].rev
  BY <1>2 DEF Offer, Groups
<1>4. <<rows>> \in Seq(Groups) /\ Joined(<<rows>>) = rows
  <2> HIDE DEF rows
  <2> QED BY <1>3, JoinedOne
<1>5. tbl \in Tables
  BY DEF HubInv
<1>6. none \in Seq(Writes) /\ none \o rows = rows /\ IdsOf(none) = {} /\ Distinct(none)
      /\ \A kind : OneByOne(tbl, prov, kind, none) = none
  <2>1. IdsOf(none) = {} /\ Distinct(none) /\ \A kind : OneByOne(tbl, prov, kind, none) = none
    BY IdsOfEmpty, OneByOneEmpty DEF Distinct
  <2>2. none \in Seq(Writes) /\ none \o rows = rows
    <3> HIDE DEF rows
    <3> QED BY <1>3, EmptySeq, ConcatEmptySeq
  <2> QED BY <2>1, <2>2
<1>7. /\ z \in HubRequests /\ z.pc = "read" /\ z.kind = o.kind /\ z.rows = rows /\ z.expected = o.expected
      /\ z.stage = (IF o.kind = "history" THEN "first" ELSE "group") /\ z.todo = <<rows>>
      /\ z.accepted = none /\ z.rejected = {} /\ z.existing = {} /\ z.start = tbl /\ z.calm = TRUE
  <2> DEFINE stage == IF o.kind = "history" THEN "first" ELSE "group"
             todo == <<rows>>
             y == NoRequest
  <2>1. y \in HubRequests /\ stage \in {"first", "group"} /\ todo \in Seq(Groups) /\ tbl \in Tables \cup {<<>>}
    BY <1>4, <1>5, IdleFits
  <2>2. /\ y.accepted = none /\ y.rejected = {} /\ y.existing = {} /\ y.calm = TRUE
    BY DEF NoRequest
  <2>3. z = [y EXCEPT !.pc = "read", !.kind = o.kind, !.rows = rows, !.expected = o.expected,
                      !.stage = stage, !.todo = todo, !.start = tbl]
    OBVIOUS
  <2> HIDE DEF z, y, stage, todo, rows, none
  <2>4. /\ z \in HubRequests /\ z.pc = "read" /\ z.kind = o.kind /\ z.rows = rows /\ z.expected = o.expected
        /\ z.stage = stage /\ z.todo = todo
        /\ z.accepted = y.accepted /\ z.rejected = y.rejected /\ z.existing = y.existing
        /\ z.start = tbl /\ z.calm = y.calm
    BY <1>3, <2>1, <2>3 DEF HubRequests
  <2> QED BY <2>2, <2>4 DEF stage, todo
<1> HIDE DEF z, rows, none
<1>8. Asked(z)
  BY <1>3, <1>7 DEF Asked, Kinds
<1>9. Decided(z, prov, none)
  BY <1>4, <1>5, <1>6, <1>7 DEF Decided
<1>10. Parts(z, prov)
  BY <1>6, <1>9 DEF Parts
<1>11. Place(z)
  BY <1>7 DEF Place, none
<1>12. Undisturbed(z, tbl)
  BY <1>5, <1>7, WrittenEmpty DEF Undisturbed, none
<1>13. Stored(z, tbl)
  BY <1>7, MembersOf DEF Stored, none
<1>14. RequestOK(z, tbl, prov)
  BY <1>7, <1>8, <1>10, <1>11, <1>12, <1>13 DEF RequestOK
<1>15. q' = [q EXCEPT ![r] = z] /\ UNCHANGED <<tbl, prov>>
  BY <1>1 DEF Begin, z
<1> QED BY <1>14, <1>15, OneGoesOn

LEMMA ReadFits ==
  ASSUME HubInv, NEW r \in Reqs, Read(r)
  PROVE  HubInv'
<1> DEFINE s == q[r]
<1>1. /\ s.pc = "read" /\ RequestOK(s, tbl, prov) /\ tbl \in Tables
      /\ s \in HubRequests /\ Asked(s) /\ Parts(s, prov) /\ Place(s) /\ Undisturbed(s, tbl)
      /\ s.stage = "group" => Stored(s, tbl)
  BY DEF Read, HubInv, RequestOK
<1>2. CASE Expects(s)
  <2> DEFINE z == [s EXCEPT !.pc = "judge", !.view = tbl]
  <2>1. q' = [q EXCEPT ![r] = z] /\ UNCHANGED <<tbl, prov>>
    BY <1>2 DEF Read
  <2>2. /\ z \in HubRequests /\ SameAnswer(s, z) /\ z.pc = "judge" /\ z.stage = s.stage /\ z.view = tbl
    BY <1>1 DEF HubRequests, SameAnswer
  <2>3. s.kind = "patch" => tbl[s.rows[1].id].rev = s.expected
    <3> SUFFICES ASSUME s.kind = "patch" PROVE tbl[s.rows[1].id].rev = s.expected
      OBVIOUS
    <3>1. s.rows \in Seq(Writes) /\ 1 \in 1 .. Len(s.rows)
      BY <1>1 DEF HubRequests, Asked
    <3>2. s.rows[1] \in ToSet(s.rows)
      BY <3>1, MembersOf
    <3>3. s.rows[1].id \in IdsOf(s.rows)
      BY <3>2 DEF IdsOf
    <3> QED BY <1>2, <3>3 DEF Expects
  <2> HIDE DEF z, s
  <2>4. Parts(z, prov)
    BY <1>1, <2>2, PartsSame
  <2>5. Asked(z) /\ Place(z) /\ Undisturbed(z, tbl) /\ (z.stage = "group" => Stored(z, tbl))
    BY <1>1, <2>2 DEF Asked, Place, Undisturbed, Stored, SameAnswer
  <2>6. Seen(z, tbl)
    BY <1>1, <2>2, <2>3 DEF Seen, SameAnswer
  <2>7. RequestOK(z, tbl, prov)
    BY <2>2, <2>4, <2>5, <2>6 DEF RequestOK
  <2> QED BY <2>1, <2>7, OneGoesOn
<1>3. CASE ~ Expects(s)
  <2>1. q' = [q EXCEPT ![r] = RejectAll(s)] /\ UNCHANGED <<tbl, prov>>
    BY <1>3 DEF Read
  <2>2. s.kind = "patch"
    BY <1>3 DEF Expects
  <2>3. s.calm => s.start \in Tables
    BY <1>1 DEF Parts, Decided
  <2> HIDE DEF s
  <2>4. RequestOK(RejectAll(s), tbl, prov)
    BY <1>1, <2>2, <2>3, RejectAllFits
  <2> QED BY <2>1, <2>4, OneGoesOn
<1> QED BY <1>2, <1>3

LEMMA JudgeFits ==
  ASSUME HubInv, NEW r \in Reqs, Judge(r)
  PROVE  HubInv'
<1> DEFINE old == q[r]
           s == [old EXCEPT !.sources = prov]
<1>1. /\ RequestOK(old, tbl, prov) /\ tbl \in Tables /\ prov \in [Ids -> Sources] /\ old.pc = "judge"
  <2>1. old \in HubRequests
    BY DEF HubInv, RequestOK
  <2>2. s.pc = "judge"
    BY DEF Judge
  <2>3. s.pc = old.pc
    BY <2>1 DEF HubRequests
  <2> QED BY <2>2, <2>3 DEF HubInv
<1>2. q' = [q EXCEPT ![r] = IF Passed(s) = <<>> THEN Succeed(s) ELSE [s EXCEPT !.pc = "commit"]]
      /\ UNCHANGED <<tbl, prov>>
  BY DEF Judge
<1> HIDE DEF old
<1>3. /\ old \in HubRequests /\ Asked(old) /\ Parts(old, prov) /\ Place(old) /\ Undisturbed(old, tbl)
      /\ Seen(old, tbl) /\ (old.stage = "group" => Stored(old, tbl))
  BY <1>1 DEF RequestOK
<1>4. /\ s \in HubRequests /\ SameAnswer(old, s) /\ s.pc = "judge" /\ s.stage = old.stage /\ s.view = old.view
      /\ s.sources = prov
  BY <1>1, <1>3 DEF HubRequests, SameAnswer
<1> HIDE DEF s
<1>5. Parts(s, prov)
  BY <1>3, <1>4, PartsSame
<1>6. /\ Asked(s) /\ Place(s) /\ Undisturbed(s, tbl) /\ Seen(s, tbl) /\ Attested(s, prov)
      /\ s.stage = "group" => Stored(s, tbl)
  BY <1>1, <1>3, <1>4 DEF Asked, Place, Undisturbed, Seen, Attested, Stored, SameAnswer
<1>7. Judged(s, tbl, prov)
  BY <1>4, <1>5, <1>6 DEF Judged
<1>8. CASE Passed(s) = <<>>
  <2>1. Written(tbl, s.kind, Passed(s)) = tbl
    BY <1>1, <1>8, WrittenEmpty
  <2>2. ~ RuleFails(tbl, s.kind, Passed(s)) /\ \A i \in IdsOf(Passed(s)) : tbl[i] = s.view[i]
    BY <1>8, RuleFailsEmpty, IdsOfEmpty
  <2>3. tbl = IF s.stage = "probe" THEN tbl ELSE Written(tbl, s.kind, Passed(s))
    BY <2>1
  <2>4. RequestOK(Succeed(s), tbl, prov)
    BY <1>1, <1>6, <1>7, <2>2, <2>3, SucceedFits
  <2>5. q' = [q EXCEPT ![r] = Succeed(s)]
    BY <1>2, <1>8
  <2> QED BY <1>2, <2>4, <2>5, OneGoesOn
<1>9. CASE Passed(s) # <<>>
  <2> DEFINE z == [s EXCEPT !.pc = "commit"]
  <2>1. q' = [q EXCEPT ![r] = z]
    BY <1>2, <1>9
  <2>2. /\ z \in HubRequests /\ SameAnswer(s, z) /\ z.pc = "commit" /\ z.stage = s.stage /\ z.view = s.view
        /\ z.sources = s.sources
    BY <1>4 DEF HubRequests, SameAnswer
  <2> HIDE DEF z
  <2>3. Parts(z, prov)
    BY <1>5, <2>2, PartsSame
  <2>4. /\ Asked(z) /\ Place(z) /\ Undisturbed(z, tbl) /\ Seen(z, tbl) /\ Attested(z, prov)
        /\ z.stage = "group" => Stored(z, tbl)
    BY <1>6, <2>2 DEF Asked, Place, Undisturbed, Seen, Attested, Stored, SameAnswer
  <2>5. RequestOK(z, tbl, prov)
    BY <2>2, <2>3, <2>4 DEF RequestOK
  <2> QED BY <1>2, <2>1, <2>5, OneGoesOn
<1> QED BY <1>8, <1>9

\* A request at its commit.
LEMMA CommitJudged ==
  ASSUME HubInv, NEW r \in Reqs, q[r].pc = "commit"
  PROVE  /\ tbl \in Tables /\ Judged(q[r], tbl, prov)
         /\ q[r].stage = "group" => Stored(q[r], tbl)
         /\ Passed(q[r]) \in Seq(Writes) /\ Distinct(Passed(q[r]))
         /\ ToSet(Passed(q[r])) = ToSet(Attempted(q[r])) \cap Fine(q[r])
         /\ Guarded(q[r]) => \A i \in IdsOf(Passed(q[r])) : tbl[i] = q[r].view[i]
         /\ q[r].calm => Guarded(q[r])
<1> DEFINE s == q[r]
<1>1. RequestOK(s, tbl, prov) /\ tbl \in Tables /\ s.pc = "commit"
  BY DEF HubInv
<1> HIDE DEF s
<1>2. Judged(s, tbl, prov) /\ (s.stage = "group" => Stored(s, tbl))
  BY <1>1 DEF RequestOK, Judged
<1>3. /\ Passed(s) \in Seq(Writes) /\ Distinct(Passed(s))
      /\ ToSet(Passed(s)) = ToSet(Attempted(s)) \cap Fine(s)
      /\ IdsOf(Passed(s)) \subseteq IdsOf(Attempted(s))
  BY <1>2, AttemptFits DEF Judged
<1>4. Guarded(s) => \A i \in IdsOf(Passed(s)) : tbl[i] = s.view[i]
  BY <1>3 DEF Guarded
<1>5. s.calm => Guarded(s)
  BY <1>2 DEF Judged, Seen, Attested, Guarded
<1> QED BY <1>1, <1>2, <1>3, <1>4, <1>5 DEF s

LEMMA CommitFits ==
  ASSUME HubInv, NEW r \in Reqs, Commit(r)
  PROVE  HubInv'
<1> DEFINE s == q[r]
           ok == Guarded(s) /\ ~ RuleFails(tbl, s.kind, Passed(s))
           new == Written(tbl, s.kind, Passed(s))
<1>1. /\ s.pc = "commit"
      /\ tbl' = IF ok /\ ~ Probe(s) THEN new ELSE tbl
      /\ prov' = prov
  BY DEF Commit
<1>2. DOMAIN q' = Reqs /\ \A k \in Reqs : q'[k] = CASE k = r -> IF ok THEN Succeed(s) ELSE Fail(s)
                                                    [] k # r /\ tbl' # tbl -> Disturbed(q[k])
                                                    [] OTHER -> q[k]
  BY DEF Commit
<1>3. /\ tbl \in Tables /\ Judged(s, tbl, prov) /\ (s.stage = "group" => Stored(s, tbl))
      /\ Passed(s) \in Seq(Writes) /\ Distinct(Passed(s))
      /\ Guarded(s) => \A i \in IdsOf(Passed(s)) : tbl[i] = s.view[i]
      /\ s.calm => Guarded(s)
  BY <1>1, CommitJudged
<1>4. ASSUME ok PROVE /\ new \in Tables /\ \A i \in Ids : new[i].rev >= tbl[i].rev
                      /\ \A i \in Ids : ~ Breaks(new, i)
  <2>1. new \in Tables /\ \A i \in Ids : new[i].rev >= tbl[i].rev
    <3> HIDE DEF s
    <3> QED BY <1>3, <1>4, WriteGrows
  <2>2. \A i \in Ids : ~ Breaks(tbl, i)
    BY DEF HubInv, RulesHold
  <2>3. \A i \in Ids : ~ Breaks(new, i)
    <3> DEFINE ws == Passed(s)
               kind == s.kind
    <3>1. ws \in Seq(Writes) /\ Distinct(ws) /\ ~ RuleFails(tbl, kind, ws)
      BY <1>3, <1>4
    <3>2. \A i \in Ids : ~ Breaks(Written(tbl, kind, ws), i)
      <4> HIDE DEF ws, kind, s
      <4> QED BY <1>3, <2>2, <3>1, RulesKept
    <3> QED BY <3>2
  <2> QED BY <2>1, <2>3
<1>5. RequestOK(q'[r], tbl', prov')
  <2>1. CASE ok
    <3>1. tbl' = IF s.stage = "probe" THEN tbl ELSE new
      BY <1>1, <2>1 DEF Probe
    <3> DEFINE t2 == tbl'
    <3>2. t2 = IF s.stage = "probe" THEN tbl ELSE Written(tbl, s.kind, Passed(s))
      BY <3>1
    <3>3. q'[r] = Succeed(s)
      BY <1>2, <2>1
    <3> HIDE DEF t2, s
    <3>4. RequestOK(Succeed(s), t2, prov)
      BY <1>3, <2>1, <3>2, SucceedFits
    <3> QED BY <1>1, <3>3, <3>4 DEF t2
  <2>2. CASE ~ ok
    <3>1. q'[r] = Fail(s) /\ tbl' = tbl
      BY <1>1, <1>2, <2>2
    <3>2. s.calm => RuleFails(tbl, s.kind, Passed(s))
      BY <1>3, <2>2
    <3> HIDE DEF s
    <3>3. RequestOK(Fail(s), tbl, prov)
      BY <1>3, <3>2, FailFits
    <3> QED BY <1>1, <3>1, <3>3
  <2> QED BY <2>1, <2>2
<1>6. \A i \in Ids : tbl'[i].rev >= tbl[i].rev
  <2>1. \A i \in Ids : tbl[i].rev \in Int
    BY <1>3 DEF Tables
  <2> QED BY <1>1, <1>4, <2>1
<1>7. ASSUME NEW k \in Reqs, k # r PROVE RequestOK(q'[k], tbl', prov')
  <2>1. RequestOK(q[k], tbl, prov)
    BY DEF HubInv
  <2>2. CASE tbl' # tbl
    <3>1. q'[k] = Disturbed(q[k])
      BY <1>2, <1>7, <2>2
    <3> DEFINE t2 == tbl'
               y == q[k]
    <3>2. \A i \in Ids : t2[i].rev >= tbl[i].rev
      BY <1>6
    <3>3. RequestOK(y, tbl, prov)
      BY <2>1
    <3>4. t2 \in Tables /\ tbl \in Tables
      BY <1>1, <1>3, <1>4
    <3> HIDE DEF t2, y
    <3>5. RequestOK(Disturbed(y), t2, prov)
      BY <3>2, <3>3, <3>4, DisturbedFits
    <3> QED BY <1>1, <3>1, <3>5 DEF t2, y
  <2>3. CASE tbl' = tbl
    <3>1. q'[k] = q[k]
      BY <1>2, <1>7, <2>3
    <3> QED BY <1>1, <2>1, <2>3, <3>1
  <2> QED BY <2>2, <2>3
<1>8. tbl' \in Tables /\ RulesHold'
  <2>1. \A i \in Ids : ~ Breaks(tbl, i)
    BY DEF HubInv, RulesHold
  <2>2. tbl' = tbl \/ (ok /\ tbl' = new)
    BY <1>1
  <2>3. tbl' \in Tables /\ \A i \in Ids : ~ Breaks(tbl', i)
    <3> HIDE DEF ok, new
    <3> QED BY <1>3, <1>4, <2>1, <2>2
  <2> QED BY <2>3 DEF RulesHold
<1>9. prov' \in [Ids -> Sources]
  BY <1>1 DEF HubInv
<1> QED BY <1>2, <1>5, <1>7, <1>8, <1>9 DEF HubInv

\* A request turned down as a whole after something came between.
LEMMA TurnedDown ==
  ASSUME NEW s \in HubRequests, Asked(s), NEW t, NEW p
  PROVE  RequestOK(Disturbed(RejectAll(s)), t, p)
<1> DEFINE y == [s EXCEPT !.calm = FALSE, !.start = <<>>]
<1>1. y \in HubRequests /\ y.calm = FALSE
  BY DEF HubRequests
<1>2. Asked(y)
  BY DEF Asked, HubRequests
<1>3. Disturbed(RejectAll(s)) = RejectAll(y)
  BY DEF Disturbed, RejectAll, Goto, HubRequests
<1> HIDE DEF y
<1>4. RequestOK(RejectAll(y), t, p)
  BY <1>1, <1>2, RejectAllFits
<1> QED BY <1>3, <1>4

LEMMA OutOfBudgetFits ==
  ASSUME HubInv, NEW r \in Reqs, OutOfBudget(r)
  PROVE  HubInv'
<1> DEFINE s == q[r]
<1>1. /\ s.pc \in {"read", "judge", "commit"} /\ s.kind # "patch" /\ UNCHANGED <<tbl, prov>>
      /\ q' = [q EXCEPT ![r] =
           IF s.kind = "history" THEN Disturbed(RejectAll(s))
           ELSE [Disturbed(Goto(s, "done")) EXCEPT
                   !.todo = <<>>,
                   !.rejected = @ \cup UNION {IdsOf(s.todo[k]) : k \in DOMAIN s.todo}]]
  BY DEF OutOfBudget
<1>2. /\ s \in HubRequests /\ Asked(s) /\ Parts(s, prov) /\ s.todo \in Seq(Groups) /\ s.rows \in Seq(Writes)
      /\ s.kind \in Kinds /\ s.stage \in {"group", "first", "probe", "final"}
      /\ s.stage = "group" => Stored(s, tbl)
  <2>1. s.pc # "idle" /\ RequestOK(s, tbl, prov)
    BY <1>1 DEF HubInv
  <2>2. s \in HubRequests
    BY <2>1 DEF RequestOK
  <2> QED BY <2>1, <2>2 DEF RequestOK, HubRequests
<1>3. CASE s.kind = "history"
  <2>1. q' = [q EXCEPT ![r] = Disturbed(RejectAll(s))]
    BY <1>1, <1>3
  <2> HIDE DEF s
  <2>2. RequestOK(Disturbed(RejectAll(s)), tbl, prov)
    BY <1>2, TurnedDown
  <2> QED BY <1>1, <2>1, <2>2, OneGoesOn
<1>4. CASE s.kind # "history"
  <2> DEFINE late == UNION {IdsOf(s.todo[k]) : k \in DOMAIN s.todo}
             y == Disturbed(Goto(s, "done"))
             z == [y EXCEPT !.todo = <<>>, !.rejected = y.rejected \cup late]
  <2>1. q' = [q EXCEPT ![r] = z]
    BY <1>1, <1>4
  <2> HIDE DEF s
  <2>2. PICK ds \in Seq(Writes) : Decided(s, prov, ds)
    BY <1>2 DEF Parts
  <2>3. late = IdsOf(Joined(s.todo)) /\ Joined(s.todo) \in Seq(Writes)
    BY <1>2, JoinedIds, JoinedType
  <2> HIDE DEF late
  <2> DEFINE rest == Joined(s.todo)
  <2>4. /\ late \subseteq Ids /\ IdsOf(s.rows) = IdsOf(ds) \cup late /\ IdsOf(ds) \cap late = {}
    <3>1. s.rows = ds \o rest /\ rest \in Seq(Writes) /\ late = IdsOf(rest) /\ Distinct(ds \o rest)
      BY <1>2, <2>2, <2>3 DEF Decided, Asked
    <3> HIDE DEF rest
    <3> QED BY <3>1, IdsOfConcat, DistinctConcat, IdsOfWrites
  <2>5. <<>> \in Seq(Groups)
    BY EmptySeq
  <2>6. /\ z \in HubRequests /\ z.pc = "done" /\ z.todo = <<>> /\ z.calm = FALSE /\ z.stage = s.stage
        /\ z.kind = s.kind /\ z.rows = s.rows /\ z.expected = s.expected /\ z.accepted = s.accepted
        /\ z.rejected = s.rejected \cup late /\ z.existing = s.existing
    BY <1>2, <2>4, <2>5 DEF Disturbed, Goto, HubRequests
  <2> HIDE DEF z
  <2>7. Asked(z)
    BY <1>2, <2>6 DEF Asked
  <2>8. Decided(z, prov, s.rows)
    <3>1. s.rows = s.rows \o Joined(<<>>)
      BY <1>2, JoinedEmpty, ConcatEmptySeq
    <3>2. /\ IdsOf(ds) = IdsOf(s.accepted) \cup s.rejected \cup s.existing
          /\ IdsOf(s.accepted) \cap (s.rejected \cup s.existing) = {} /\ s.rejected \cap s.existing = {}
          /\ Distinct(s.accepted)
      BY <2>2 DEF Decided
    <3>3. /\ IdsOf(s.rows) = IdsOf(s.accepted) \cup (s.rejected \cup late) \cup s.existing
          /\ IdsOf(s.accepted) \cap ((s.rejected \cup late) \cup s.existing) = {}
          /\ (s.rejected \cup late) \cap s.existing = {}
      BY <2>4, <3>2
    <3> QED BY <2>6, <3>1, <3>2, <3>3 DEF Decided
  <2>9. Parts(z, prov)
    BY <1>2, <2>8 DEF Parts
  <2>10. Stored(z, tbl)
    BY <1>2, <1>4, <2>6 DEF Asked, Stored
  <2>11. RequestOK(z, tbl, prov)
    BY <2>6, <2>7, <2>9, <2>10 DEF RequestOK
  <2> QED BY <1>1, <2>1, <2>11, OneGoesOn
<1> QED BY <1>3, <1>4

LEMMA AmbiguousFits ==
  ASSUME HubInv, NEW r \in Reqs, Ambiguous(r)
  PROVE  HubInv'
<1> DEFINE s == q[r]
<1>1. q' = [q EXCEPT ![r] = Disturbed(RejectAll(s))] /\ UNCHANGED <<tbl, prov>> /\ s.pc = "judge"
  BY DEF Ambiguous
<1>2. s \in HubRequests /\ Asked(s)
  BY <1>1 DEF HubInv, RequestOK
<1> HIDE DEF s
<1>3. RequestOK(Disturbed(RejectAll(s)), tbl, prov)
  BY <1>2, TurnedDown
<1> QED BY <1>1, <1>3, OneGoesOn

LEMMA AbortFits ==
  ASSUME HubInv, NEW r \in Reqs, Abort(r)
  PROVE  HubInv'
BY IdleFits, OneGoesOn DEF Abort

LEMMA DeriveFits ==
  ASSUME HubInv, NEW i \in Sourced, NEW a \in Vals, NEW b \in Derived, Derive(i, <<a, b>>)
  PROVE  HubInv'
<1>1. tbl' = tbl /\ prov' = [prov EXCEPT ![i] = <<a, b>>] /\ q' = [r \in Reqs |-> Disturbed(q[r])]
  BY DEF Derive
<1>2. tbl \in Tables /\ prov' \in [Ids -> Sources]
  BY <1>1, HubAssumption DEF HubInv, Sources
<1>3. ASSUME NEW r \in Reqs PROVE RequestOK(q'[r], tbl', prov')
  <2> DEFINE y == q[r]
             p2 == prov'
  <2>1. RequestOK(y, tbl, prov)
    BY DEF HubInv
  <2>2. \A k \in Ids : tbl[k].rev >= tbl[k].rev
    <3>1. \A k \in Ids : tbl[k].rev \in Int
      BY <1>2 DEF Tables
    <3> QED BY <3>1
  <2>3. q'[r] = Disturbed(y)
    BY <1>1
  <2> HIDE DEF y, p2
  <2>4. RequestOK(Disturbed(y), tbl, p2)
    BY <1>2, <2>1, <2>2, DisturbedFits
  <2> QED BY <1>1, <2>3, <2>4 DEF p2
<1>4. RulesHold'
  BY <1>1 DEF HubInv, RulesHold
<1>5. DOMAIN q' = Reqs
  BY <1>1
<1> QED BY <1>1, <1>2, <1>3, <1>4, <1>5 DEF HubInv

LEMMA HubStep == HubInv /\ [Next]_vars => HubInv'
<1> SUFFICES ASSUME HubInv, [Next]_vars PROVE HubInv'
  OBVIOUS
<1>1. CASE UNCHANGED vars
  BY <1>1 DEF vars, HubInv, RulesHold
<1>2. CASE \E r \in Reqs : Begin(r) \/ Read(r) \/ Judge(r) \/ Commit(r)
  BY <1>2, BeginFits, ReadFits, JudgeFits, CommitFits
<1>3. CASE \E r \in Reqs : OutOfBudget(r) \/ Ambiguous(r) \/ Abort(r)
  BY <1>3, OutOfBudgetFits, AmbiguousFits, AbortFits
<1>4. CASE \E i \in Sourced, a \in Vals, b \in Derived : Derive(i, <<a, b>>)
  BY <1>4, DeriveFits
<1> QED BY <1>1, <1>2, <1>3, <1>4 DEF Next

\* The invariant holds of every behaviour of the hub.
LEMMA HubInvariant == Spec => []HubInv
<1>1. Init => HubInv
  BY HubInit
<1>2. HubInv /\ [Next]_vars => HubInv'
  BY HubStep
<1> QED BY <1>1, <1>2, PTL DEF Spec

-----------------------------------------------------------------------------
(* What the hub promises of its writes *)

\* Whatever requests are in flight, the table and what is known of each request are
\* well typed, and an enforced rule holds of what is committed: a batch is checked row
\* by row by its triggers, and commits as a whole or not at all.
THEOREM BatchesAreSound == Spec => []BatchesSound
<1>1. HubInv => BatchesSound
  <2> SUFFICES ASSUME HubInv PROVE BatchesSound
    OBVIOUS
  <2>1. ASSUME NEW r \in Reqs
        PROVE  /\ q[r].pc \in {"idle", "read", "judge", "commit", "done"}
               /\ q[r].kind \in Kinds /\ q[r].stage \in {"group", "first", "probe", "final"}
               /\ ToSet(q[r].rows) \cup ToSet(q[r].accepted) \subseteq Writes
               /\ q[r].rejected \cup q[r].existing \subseteq Ids
               /\ \A k \in DOMAIN q[r].todo : q[r].todo[k] # <<>>
               /\ q[r].pc \in {"judge", "commit"} => q[r].view \in Tables
               /\ q[r].pc = "commit" => q[r].sources \in [Ids -> Sources]
    <3> DEFINE s == q[r]
    <3>1. RequestOK(s, tbl, prov)
      BY DEF HubInv
    <3> HIDE DEF s
    <3>2. s \in HubRequests
      BY <3>1 DEF RequestOK
    <3>3. /\ s.rows \in Seq(Writes) /\ s.accepted \in Seq(Writes) /\ s.todo \in Seq(Groups)
          /\ s.pc \in {"idle", "read", "judge", "commit", "done"}
          /\ s.kind \in Kinds /\ s.stage \in {"group", "first", "probe", "final"}
          /\ s.rejected \cup s.existing \subseteq Ids
      BY <3>2 DEF HubRequests
    <3>4. ToSet(s.rows) \cup ToSet(s.accepted) \subseteq Writes
      BY <3>3, MembersOf
    <3>5. \A k \in DOMAIN s.todo : s.todo[k] # <<>>
      BY <3>3, ElementOfSeq, LenProperties DEF Groups
    <3>6. /\ s.pc \in {"judge", "commit"} => s.view \in Tables
          /\ s.pc = "commit" => s.sources \in [Ids -> Sources]
      BY <3>1 DEF RequestOK, Seen, Attested
    <3> QED BY <3>3, <3>4, <3>5, <3>6 DEF s
  <2>2. TypeOK
    BY <2>1 DEF HubInv, TypeOK
  <2> QED BY <2>2 DEF HubInv, BatchesSound
<1> QED BY <1>1, HubInvariant, PTL

\* The answer to a request names every one of its rows once; a row it calls accepted
\* is stored, or a newer one is; and with nobody else at work it accepts exactly the
\* rows one-by-one writes would, however its batches failed and were bisected.
THEOREM AnswersAreExact == Spec => []AnswerExact
<1>1. HubInv => AnswerExact
  <2> SUFFICES ASSUME HubInv, NEW r \in Reqs, q[r].pc = "done"
               PROVE  /\ IdsOf(q[r].rows) = IdsOf(q[r].accepted) \cup q[r].rejected \cup q[r].existing
                      /\ IdsOf(q[r].accepted) \cap (q[r].rejected \cup q[r].existing) = {}
                      /\ q[r].rejected \cap q[r].existing = {}
                      /\ \A w \in ToSet(q[r].accepted) : tbl[w.id].rev >= w.rev
                      /\ q[r].calm /\ q[r].kind # "patch" =>
                           q[r].accepted = OneByOne(q[r].start, prov, q[r].kind, q[r].rows)
    BY DEF AnswerExact, EveryRowAnswered, AcceptedStored, IsolationExact
  <2> DEFINE s == q[r]
  <2>1. RequestOK(s, tbl, prov) /\ s.pc = "done"
    BY DEF HubInv
  <2> HIDE DEF s
  <2>2. Parts(s, prov) /\ s.todo = <<>> /\ Stored(s, tbl)
    BY <2>1 DEF RequestOK
  <2>3. PICK ds \in Seq(Writes) : Decided(s, prov, ds)
    BY <2>2 DEF Parts
  <2>4. s.rows = ds
    <3>1. ds \o <<>> = ds
      BY ConcatEmptySeq
    <3> QED BY <2>2, <2>3, <3>1, JoinedEmpty DEF Decided
  <2>5. /\ IdsOf(s.rows) = IdsOf(s.accepted) \cup s.rejected \cup s.existing
        /\ IdsOf(s.accepted) \cap (s.rejected \cup s.existing) = {} /\ s.rejected \cap s.existing = {}
        /\ \A w \in ToSet(s.accepted) : tbl[w.id].rev >= w.rev
        /\ s.calm /\ s.kind # "patch" => s.accepted = OneByOne(s.start, prov, s.kind, s.rows)
    BY <2>2, <2>3, <2>4 DEF Decided, Stored
  <2> QED BY <2>5 DEF s
<1> QED BY <1>1, HubInvariant, PTL

-----------------------------------------------------------------------------
(* What its steps never do *)

\* Only a commit whose guards hold changes the table, and it writes what passed.
LEMMA OnlyCommitsWrite ==
  ASSUME Next, tbl' # tbl
  PROVE  \E r \in Reqs : /\ Commit(r) /\ q[r].pc = "commit" /\ Guarded(q[r]) /\ ~ Probe(q[r])
                         /\ ~ RuleFails(tbl, q[r].kind, Passed(q[r]))
                         /\ tbl' = Written(tbl, q[r].kind, Passed(q[r]))
<1>1. PICK r \in Reqs : Commit(r)
  BY DEF Next, Begin, Read, Judge, OutOfBudget, Ambiguous, Abort, Derive
<1> QED BY <1>1 DEF Commit

\* What was validated against is in the table as it commits.
LEMMA WrittenBacked ==
  ASSUME HubInv, NEW r \in Reqs, q[r].pc = "commit", Guarded(q[r]),
         NEW i \in Ids, NEW new, new = Written(tbl, q[r].kind, Passed(q[r])),
         new[i].b # tbl[i].b, new[i].a # Gone
  PROVE  prov[i] = <<new[i].a, new[i].b>>
<1> DEFINE s == q[r]
           ws == Passed(s)
<1>1. /\ tbl \in Tables /\ Judged(s, tbl, prov)
      /\ ws \in Seq(Writes) /\ Distinct(ws)
      /\ ToSet(ws) = ToSet(Attempted(s)) \cap Fine(s)
      /\ \A k \in IdsOf(ws) : tbl[k] = s.view[k]
  BY CommitJudged
<1>2. /\ \A k \in Ids \ IdsOf(ws) : new[k] = tbl[k]
      /\ \A w \in ToSet(ws) : new[w.id] = IF Applies(s.kind, tbl[w.id], w) THEN Merged(tbl[w.id], w) ELSE tbl[w.id]
  <2> DEFINE kind == s.kind
  <2>1. new = Written(tbl, kind, ws) /\ ws \in Seq(Writes) /\ Distinct(ws) /\ tbl \in Tables
    BY <1>1
  <2> HIDE DEF ws, kind, s
  <2> QED BY <2>1, WrittenAt DEF kind
<1>3. i \in IdsOf(ws)
  BY <1>2
<1>4. PICK w \in ToSet(ws) : w.id = i
  BY <1>3 DEF IdsOf
<1>5. s.kind \in Kinds /\ Guarded(s)
  BY <1>1 DEF Judged, HubRequests
<1> HIDE DEF s, ws
<1>6. new[i] = Merged(tbl[i], w) /\ Applies(s.kind, tbl[i], w)
  BY <1>2, <1>4
<1>7. /\ w \in Writes /\ w \in ToSet(Attempted(s)) /\ w.id \notin Present(s)
      /\ Stale(s.view[i], w) \/ Valid(s.view[i], w, s.sources[i])
      /\ s.view[i] = tbl[i] /\ i \in IdsOf(Attempted(s))
  BY <1>1, <1>3, <1>4 DEF Fine, IdsOf
<1>8. tbl[i].rev \in Nat /\ w.rev \in Nat /\ w.rev > 0
  BY <1>1, <1>7, HubAssumption DEF Tables, Writes
<1>9. ~ Stale(tbl[i], w)
  <2>1. CASE s.kind = "patch"
    <3>1. /\ s.rows \in Seq(Writes) /\ Len(s.rows) = 1 /\ s.todo = <<s.rows>> /\ s.stage = "group"
          /\ s.expected < s.rows[1].rev /\ s.view[s.rows[1].id].rev = s.expected
      BY <1>1, <2>1 DEF Judged, Asked, Place, Seen, HubRequests
    <3>2. Attempted(s) = s.rows
      <4>1. Head(<<s.rows>>) = s.rows
        OBVIOUS
      <4> QED BY <3>1, <4>1 DEF Attempted
    <3>3. w = s.rows[1]
      BY <1>7, <3>1, <3>2 DEF ToSet
    <3>4. tbl[i].rev = s.expected
      BY <1>4, <1>7, <3>1, <3>3
    <3> QED BY <1>8, <3>1, <3>3, <3>4 DEF Stale
  <2>2. CASE s.kind = "insert"
    BY <1>6, <2>2 DEF Applies, Stale
  <2>3. CASE s.kind \in {"push", "history"}
    <3>1. w.rev > tbl[i].rev
      BY <1>6, <2>3 DEF Applies
    <3> QED BY <1>8, <3>1 DEF Stale
  <2> QED BY <1>5, <2>1, <2>2, <2>3 DEF Kinds
<1>10. NeedsSource(s.view[i], w) /\ Merged(s.view[i], w).a # Gone
  BY <1>6, <1>7, <1>9 DEF NeedsSource
<1>11. s.sources[i] = <<Merged(s.view[i], w).a, Merged(s.view[i], w).b>>
  BY <1>7, <1>9, <1>10 DEF Valid
<1>12. prov[i] = s.sources[i]
  BY <1>4, <1>5, <1>7, <1>10 DEF Guarded
<1> QED BY <1>6, <1>7, <1>11, <1>12

\* A derived value is only ever written beside the contents its provenance record, as
\* it is at that moment, was computed from: the guards of the batch repeat what its
\* validation read.
THEOREM DerivedValuesBacked == Spec => DerivedBacked
<1>1. HubInv /\ [Next]_vars =>
        [\A i \in Ids : tbl'[i].b # tbl[i].b /\ tbl'[i].a # Gone => prov[i] = <<tbl'[i].a, tbl'[i].b>>]_vars
  <2> SUFFICES ASSUME HubInv, Next, NEW i \in Ids, tbl'[i].b # tbl[i].b, tbl'[i].a # Gone
               PROVE  prov[i] = <<tbl'[i].a, tbl'[i].b>>
    OBVIOUS
  <2>1. PICK r \in Reqs : /\ q[r].pc = "commit" /\ Guarded(q[r])
                          /\ tbl' = Written(tbl, q[r].kind, Passed(q[r]))
    BY OnlyCommitsWrite
  <2> DEFINE new == tbl'
  <2>2. /\ new = Written(tbl, q[r].kind, Passed(q[r]))
        /\ new[i].b # tbl[i].b /\ new[i].a # Gone
    BY <2>1
  <2> HIDE DEF new
  <2>3. prov[i] = <<new[i].a, new[i].b>>
    BY <2>1, <2>2, WrittenBacked
  <2> QED BY <2>3 DEF new
<1> QED BY <1>1, HubInvariant, PTL DEF Spec, DerivedBacked

\* Accepting no row, a patch changed none.
LEMMA PatchStep ==
  ASSUME HubInv, Next, NEW r \in Reqs, q[r].kind = "patch", q[r].pc = "commit", q'[r].pc = "done"
  PROVE  \A i \in IdsOf(q'[r].accepted) : tbl[i].rev = q[r].expected
<1> DEFINE s == q[r]
           ok == Guarded(s) /\ ~ RuleFails(tbl, s.kind, Passed(s))
<1>1. /\ tbl \in Tables /\ Judged(s, tbl, prov)
      /\ ToSet(Passed(s)) = ToSet(Attempted(s)) \cap Fine(s)
      /\ Guarded(s) => \A i \in IdsOf(Passed(s)) : tbl[i] = s.view[i]
      /\ s.kind = "patch" /\ s.pc = "commit"
      /\ Passed(s) \in Seq(Writes)
  BY CommitJudged
<1>2. Commit(r)
  <2>1. CASE \E k \in Reqs : Commit(k)
    <3>1. PICK k \in Reqs : Commit(k)
      BY <2>1
    <3>2. CASE k # r
      <4>1. q'[r] = Disturbed(q[r]) \/ q'[r] = q[r]
        BY <3>1, <3>2 DEF Commit
      <4>2. q'[r].pc = "commit"
        BY <1>1, <4>1 DEF Disturbed, Judged, HubRequests
      <4> QED BY <4>2
    <3> QED BY <3>1, <3>2
  <2>2. CASE \E k \in Reqs : Begin(k) \/ Read(k) \/ Judge(k) \/ OutOfBudget(k) \/ Ambiguous(k) \/ Abort(k)
    <3>1. PICK k \in Reqs : Begin(k) \/ Read(k) \/ Judge(k) \/ OutOfBudget(k) \/ Ambiguous(k) \/ Abort(k)
      BY <2>2
    <3>2. DOMAIN q = Reqs
      BY DEF HubInv
    <3>3. CASE k # r
      <4>1. q'[r] = q[r]
        BY <3>1, <3>2, <3>3 DEF Begin, Read, Judge, OutOfBudget, Ambiguous, Abort
      <4> QED BY <4>1
    <3>4. CASE k = r
      <4>1. Abort(r)
        <5>1. ~ Begin(r) /\ ~ Read(r) /\ ~ OutOfBudget(r) /\ ~ Ambiguous(r)
          BY DEF Begin, Read, OutOfBudget, Ambiguous
        <5>2. ~ Judge(r)
          <6>1. [q[r] EXCEPT !.sources = prov].pc = q[r].pc
            BY <1>1 DEF Judged, HubRequests
          <6> QED BY <6>1 DEF Judge
        <5> QED BY <3>1, <3>4, <5>1, <5>2
      <4>2. q'[r] = NoRequest
        BY <3>2, <4>1 DEF Abort
      <4> QED BY <4>2 DEF NoRequest
    <3> QED BY <3>3, <3>4
  <2>3. CASE \E i \in Sourced, a \in Vals, b \in Derived : Derive(i, <<a, b>>)
    <3>1. q'[r] = Disturbed(q[r])
      BY <2>3 DEF Derive
    <3>2. q'[r].pc = "commit"
      BY <1>1, <3>1 DEF Disturbed, Judged, HubRequests
    <3> QED BY <3>2
  <2> QED BY <2>1, <2>2, <2>3 DEF Next
<1>3. q'[r] = IF ok THEN Succeed(s) ELSE Fail(s)
  BY <1>2 DEF Commit
<1> HIDE DEF s
<1>4. /\ s \in HubRequests /\ s.rows \in Seq(Writes) /\ Len(s.rows) = 1 /\ s.todo = <<s.rows>> /\ s.stage = "group"
      /\ s.accepted = <<>> /\ s.view[s.rows[1].id].rev = s.expected
  BY <1>1 DEF Judged, Asked, Place, Seen, HubRequests
<1>5. Head(<<s.rows>>) = s.rows /\ Tail(<<s.rows>>) = <<>> /\ <<s.rows>> # <<>>
  OBVIOUS
<1>6. Attempted(s) = s.rows /\ ~ Diverged(s) /\ <<>> \o Passed(s) = Passed(s)
  BY <1>1, <1>4, <1>5, ConcatEmptySeq DEF Attempted, Diverged
<1>7. CASE ok
  <2>1. Succeed(s) = Proceed(Noted(s))
    BY <1>4, <1>6, SucceedNoted
  <2>2. Noted(s).accepted = Passed(s) /\ Noted(s) \in HubRequests
    <3>1. Noted(s) \in HubRequests
      BY <1>1, <1>6, <1>7, NotedParts
    <3>2. Noted(s).accepted = Accepting(s)
      BY <1>4 DEF Noted, HubRequests
    <3> QED BY <1>4, <1>6, <3>1, <3>2 DEF Accepting
  <2>3. Proceed(Noted(s)).accepted = Noted(s).accepted
    BY <2>2 DEF Proceed, Goto, HubRequests
  <2>4. ASSUME NEW i \in IdsOf(Passed(s)) PROVE tbl[i].rev = s.expected
    <3>1. PICK w \in ToSet(Passed(s)) : w.id = i
      BY DEF IdsOf
    <3>2. w = s.rows[1]
      <4>1. w \in ToSet(s.rows)
        BY <1>1, <1>6, <3>1
      <4>2. s.rows \in Seq(Writes) /\ Len(s.rows) = 1
        BY <1>4
      <4> QED BY <4>1, <4>2 DEF ToSet
    <3> QED BY <1>1, <1>4, <1>7, <3>1, <3>2
  <2> QED BY <1>3, <1>7, <2>1, <2>2, <2>3, <2>4 DEF s
<1>8. CASE ~ ok
  <2> DEFINE z == [s EXCEPT !.rejected = s.rejected \cup IdsOf(Head(s.todo)), !.todo = Tail(s.todo)]
  <2>1. Fail(s) = Proceed(z)
    BY <1>4, <1>5, <1>6 DEF Fail, HubRequests
  <2>2. z.accepted = <<>> /\ z.todo = <<>> /\ z.stage = "group" /\ DOMAIN z = DOMAIN s
    BY <1>4, <1>5 DEF HubRequests
  <2>3. Proceed(z).accepted = <<>>
    <3>1. Proceed(z) = [z EXCEPT !.pc = "done", !.view = <<>>, !.sources = <<>>]
      BY <2>2 DEF Proceed, Goto
    <3>2. Proceed(z).accepted = z.accepted
      BY <1>4, <3>1 DEF HubRequests
    <3> QED BY <2>2, <3>2
  <2> QED BY <1>3, <1>8, <2>1, <2>3, IdsOfEmpty
<1> QED BY <1>7, <1>8

\* A patch changes the row at the revision its client displayed and at no later one:
\* the revision is among what the batch checks again.
THEOREM PatchesAreExact == Spec => PatchExact
<1>1. HubInv /\ [Next]_vars =>
        [\A r \in Reqs : q[r].kind = "patch" /\ q[r].pc = "commit" /\ q'[r].pc = "done" =>
           \A i \in IdsOf(q'[r].accepted) : tbl[i].rev = q[r].expected]_vars
  BY PatchStep
<1> QED BY <1>1, HubInvariant, PTL DEF Spec, PatchExact

\* A step of a request with history that writes is its last.
LEMMA HistoryStep ==
  ASSUME HubInv, Next, NEW r \in Reqs, q[r].kind = "history", q'[r].pc # q[r].pc, tbl' # tbl
  PROVE  q'[r].pc = "done"
<1>1. PICK k \in Reqs : Commit(k) /\ q[k].pc = "commit" /\ Guarded(q[k]) /\ ~ Probe(q[k])
                        /\ ~ RuleFails(tbl, q[k].kind, Passed(q[k]))
  BY OnlyCommitsWrite
<1>2. CASE k # r
  <2>1. q'[r] = Disturbed(q[r])
    BY <1>1, <1>2 DEF Commit
  <2>2. q[r] \in HubRequests
    BY DEF HubInv, RequestOK
  <2> QED BY <2>1, <2>2 DEF Disturbed, HubRequests
<1>3. CASE k = r
  <2> DEFINE s == q[r]
  <2>1. q'[r] = Succeed(s)
    BY <1>1, <1>3 DEF Commit
  <2>2. /\ tbl \in Tables /\ Judged(s, tbl, prov) /\ s.kind = "history" /\ s.stage # "probe"
        /\ ~ RuleFails(tbl, s.kind, Passed(s))
    BY <1>1, <1>3, CommitJudged DEF Probe
  <2> HIDE DEF s
  <2>3. s \in HubRequests /\ s.stage \in {"first", "final"}
    BY <2>2 DEF Judged, Asked
  <2>4. ~ Diverged(s)
    BY <2>2 DEF Diverged
  <2>5. Noted(s).todo = <<>> /\ Noted(s) \in HubRequests
    BY <2>2, <2>3, <2>4, NotedParts
  <2>6. Noted(s).stage = s.stage
    BY <2>3 DEF Noted, HubRequests
  <2>7. Proceed(Noted(s)).pc = "done"
    BY <2>2, <2>5, <2>6 DEF Proceed, Goto, HubRequests
  <2> QED BY <2>1, <2>3, <2>4, <2>7, SucceedNoted
<1> QED BY <1>2, <1>3

\* A request with history attached writes in its last step or not at all: no row
\* commits while the history of another is undecided.
THEOREM HistoriesAllOrNothing == Spec => AllOrNothing
<1>1. HubInv /\ [Next]_vars =>
        [\A r \in Reqs : q[r].kind = "history" /\ q'[r].pc # q[r].pc /\ tbl' # tbl => q'[r].pc = "done"]_vars
  BY HistoryStep
<1> QED BY <1>1, HubInvariant, PTL DEF Spec, AllOrNothing

-----------------------------------------------------------------------------
(* Restores: recursions *)

\* A function that follows the recursion is the one it defines.
LEMMA RecursionIs ==
  ASSUME NEW X, NEW x0 \in X, NEW N \in Nat, NEW Step \in StepsOf(X, N), NEW h,
         h = [n \in 0 .. N |-> h[n]], h[0] = x0,
         \A k \in 1 .. N : h[k - 1] \in X => h[k] = Step[k][h[k - 1]]
  PROVE  Iterates(X, x0, N, Step, h)
<1> DEFINE Bad == {k \in 0 .. N : h[k] \notin X}
<1>1. ASSUME NEW k \in 1 .. N, NEW x \in X PROVE Step[k][x] \in X
  BY DEF StepsOf
<1>2. ASSUME Bad # {} PROVE FALSE
  <2>1. PICK k \in Bad : \A j \in Bad : k <= j
    <3>1. Bad \in SUBSET Nat
      OBVIOUS
    <3> HIDE DEF Bad
    <3> QED BY <1>2, <3>1, LeastNatural
  <2>2. k \in 0 .. N /\ h[k] \notin X
    BY <2>1
  <2>3. k # 0
    BY <2>2
  <2>4. k - 1 \in 0 .. N /\ k \in 1 .. N
    BY <2>2, <2>3
  <2>5. h[k - 1] \in X
    <3>1. k - 1 \notin Bad
      <4> HIDE DEF Bad
      <4> QED BY <2>1, <2>2
    <3> QED BY <3>1, <2>4
  <2> QED BY <1>1, <2>2, <2>4, <2>5
<1>3. \A k \in 0 .. N : h[k] \in X
  BY <1>2
<1>4. h \in [0 .. N -> X]
  BY <1>3
<1>5. \A k \in 1 .. N : k - 1 \in 0 .. N
  OBVIOUS
<1> QED BY <1>3, <1>4, <1>5 DEF Iterates

-----------------------------------------------------------------------------
(* Restores: reading a dump *)

ReadStates == [ok : BOOLEAN, began : BOOLEAN, committed : BOOLEAN, logged : BOOLEAN,
               log : SUBSET (BackupTables \cup {0}), tables : SUBSET (BackupTables \cup {0}),
               rows : [BackupTables -> Revs]]

LEMMA RevsAreNaturals ==
  /\ MaxStampRev \in Nat /\ Revs \subseteq Nat /\ 0 \in Revs /\ Revs = 0 .. MaxStampRev
  /\ Cardinality(BackupTables) \in Nat /\ IsFiniteSet(BackupTables)
  /\ BackupTables = 1 .. Cardinality(BackupTables) /\ BackupTables \subseteq Nat /\ 0 \notin BackupTables
  /\ NoRevs \in [BackupTables -> Revs]
<1>1. Cardinality(BackupTables) \in Nat
  BY RestoreConstants, FS_CardinalityType
<1> QED BY <1>1, RestoreConstants DEF Revs, NoRevs

LEMMA OpeningType == Opening \in ReadStates
BY RevsAreNaturals DEF Opening, ReadStates

LEMMA AfterReadingType ==
  ASSUME NEW s \in ReadStates, NEW x \in Statement
  PROVE  AfterReading(s, x) \in ReadStates
<1>1. /\ x.kind \in {"begin", "commit", "log", "entry", "table", "row"}
      /\ x.t \in BackupTables \cup {0} /\ x.rev \in Revs
  BY DEF Statement
<1>2. [s EXCEPT !.rows[x.t] = x.rev] \in ReadStates
  BY <1>1 DEF ReadStates
<1>3. [s EXCEPT !.log = s.log \cup {x.t}] \in ReadStates /\ [s EXCEPT !.tables = s.tables \cup {x.t}] \in ReadStates
  BY <1>1 DEF ReadStates
<1>4. /\ [s EXCEPT !.ok = FALSE] \in ReadStates /\ [s EXCEPT !.began = TRUE] \in ReadStates
      /\ [s EXCEPT !.committed = TRUE] \in ReadStates /\ [s EXCEPT !.logged = TRUE] \in ReadStates
  BY DEF ReadStates
<1> QED BY <1>1, <1>2, <1>3, <1>4 DEF AfterReading

LEMMA SameReading ==
  \A u, v \in ReadStates :
    (/\ u.ok = v.ok /\ u.began = v.began /\ u.committed = v.committed /\ u.logged = v.logged
     /\ u.log = v.log /\ u.tables = v.tables /\ u.rows = v.rows) => u = v
BY DEF ReadStates

Readings(d) == [k \in 1 .. Len(d) |-> [s \in ReadStates |-> AfterReading(s, d[k])]]
Reads(d, f) == Iterates(ReadStates, Opening, Len(d), Readings(d), f)

LEMMA ReadingsType ==
  ASSUME NEW d \in Seq(Statement)
  PROVE  Len(d) \in Nat /\ Readings(d) \in StepsOf(ReadStates, Len(d))
<1>1. Len(d) \in Nat /\ \A k \in 1 .. Len(d) : d[k] \in Statement
  BY LenProperties, ElementOfSeq
<1> QED BY <1>1, AfterReadingType DEF Readings, StepsOf

LEMMA DumpIsRead ==
  ASSUME NEW d \in Seq(Statement)
  PROVE  \E f : Reads(d, f) /\ ReadDump(d) = f[Len(d)]
<1> DEFINE h == CHOOSE h : h = [n \in 0 .. Len(d) |->
                   IF n = 0 THEN Opening ELSE AfterReading(h[n - 1], d[n])]
<1>1. Len(d) \in Nat /\ Readings(d) \in StepsOf(ReadStates, Len(d))
  BY ReadingsType
<1>2. PICK f : Reads(d, f)
  BY <1>1, OpeningType, RecursionExists DEF Reads
<1>3. f = [n \in 0 .. Len(d) |-> IF n = 0 THEN Opening ELSE AfterReading(f[n - 1], d[n])]
  <2>1. f \in [0 .. Len(d) -> ReadStates] /\ f[0] = Opening
    BY <1>2 DEF Reads, Iterates
  <2>2. ASSUME NEW n \in 0 .. Len(d), n # 0 PROVE f[n] = AfterReading(f[n - 1], d[n])
    <3>1. n \in 1 .. Len(d) /\ n - 1 \in 0 .. Len(d)
      BY <1>1, <2>2
    <3>2. f[n] = Readings(d)[n][f[n - 1]] /\ f[n - 1] \in ReadStates
      BY <1>2, <2>1, <3>1 DEF Reads, Iterates
    <3> QED BY <3>1, <3>2 DEF Readings
  <2> QED BY <2>1, <2>2
<1>4. h = [n \in 0 .. Len(d) |-> IF n = 0 THEN Opening ELSE AfterReading(h[n - 1], d[n])]
  BY <1>3
<1>5. ReadDump(d) = h[Len(d)]
  BY DEF ReadDump
<1> HIDE DEF h
<1>6. h = [n \in 0 .. Len(d) |-> h[n]] /\ h[0] = Opening
  BY <1>1, <1>4
<1>7. ASSUME NEW k \in 1 .. Len(d), h[k - 1] \in ReadStates
      PROVE  h[k] = Readings(d)[k][h[k - 1]]
  <2>1. k \in 0 .. Len(d) /\ k # 0
    BY <1>1
  <2>2. h[k] = AfterReading(h[k - 1], d[k])
    BY <1>4, <2>1
  <2> QED BY <1>7, <2>2 DEF Readings
<1>8. Reads(d, h)
  BY <1>1, <1>6, <1>7, OpeningType, RecursionIs DEF Reads
<1> QED BY <1>5, <1>8

LEMMA ReadingStarts == ReadDump(<<>>) = Opening
<1>1. <<>> \in Seq(Statement) /\ Len(<<>>) = 0
  BY EmptySeq
<1>2. PICK f : Reads(<<>>, f) /\ ReadDump(<<>>) = f[Len(<<>>)]
  BY <1>1, DumpIsRead
<1> QED BY <1>1, <1>2 DEF Reads, Iterates

LEMMA ReadingType ==
  ASSUME NEW d \in Seq(Statement)
  PROVE  ReadDump(d) \in ReadStates
<1>1. PICK f : Reads(d, f) /\ ReadDump(d) = f[Len(d)]
  BY DumpIsRead
<1>2. Len(d) \in 0 .. Len(d)
  BY LenProperties
<1> QED BY <1>1, <1>2 DEF Reads, Iterates

\* One statement more is one step more.
LEMMA ReadingGoesOn ==
  ASSUME NEW d \in Seq(Statement), NEW x \in Statement
  PROVE  ReadDump(Append(d, x)) = AfterReading(ReadDump(d), x)
<1> DEFINE e == Append(d, x)
<1>1. /\ e \in Seq(Statement) /\ Len(d) \in Nat /\ Len(e) = Len(d) + 1
      /\ e[Len(e)] = x /\ \A k \in 1 .. Len(d) : e[k] = d[k]
  BY AppendProperties, LenProperties
<1> HIDE DEF e
<1>2. PICK f : Reads(d, f) /\ ReadDump(d) = f[Len(d)]
  BY DumpIsRead
<1>3. PICK g : Reads(e, g) /\ ReadDump(e) = g[Len(e)]
  BY <1>1, DumpIsRead
<1>4. f[Len(d)] = g[Len(d)]
  <2>1. \A k \in 1 .. Len(d) : Readings(d)[k] = Readings(e)[k]
    BY <1>1 DEF Readings
  <2>2. Len(d) \in Nat /\ Len(e) \in Nat /\ Len(d) <= Len(e)
    BY <1>1
  <2>3. /\ Iterates(ReadStates, Opening, Len(d), Readings(d), f)
        /\ Iterates(ReadStates, Opening, Len(e), Readings(e), g)
    BY <1>2, <1>3 DEF Reads
  <2> HIDE DEF Readings
  <2> QED BY <2>1, <2>2, <2>3, IteratesAgree
<1>5. Len(e) \in 1 .. Len(e) /\ Len(e) - 1 = Len(d)
  BY <1>1
<1>6. g[Len(e)] = Readings(e)[Len(e)][g[Len(d)]]
  BY <1>3, <1>5 DEF Reads, Iterates
<1>7. ReadDump(d) \in ReadStates
  BY ReadingType
<1>8. g[Len(e)] = AfterReading(g[Len(d)], x)
  BY <1>1, <1>2, <1>4, <1>5, <1>6, <1>7 DEF Readings
<1> QED BY <1>2, <1>3, <1>4, <1>8 DEF e

-----------------------------------------------------------------------------
(* Restores: what a reading tells of its dump *)

\* Each row comes after the entry of its table in the schema log.
Documented(d) ==
  \A i \in 1 .. Len(d) :
    /\ d[i].kind = "entry" => d[i].t \in BackupTables
    /\ d[i].kind = "row" => \E j \in 1 .. i - 1 : d[j].kind = "entry" /\ d[j].t = d[i].t

\* The reading saw a commit only where there is one, a begin where the dump has it first,
\* and, when all was in order, every entry and no row of a table without one.
Told(d, s) ==
  /\ s \in ReadStates
  /\ s.committed => \E i \in 1 .. Len(d) : d[i].kind = "commit"
  /\ d # <<>> /\ d[1].kind = "begin" => s.began \/ ~s.ok
  /\ s.ok => \A i \in 1 .. Len(d) : d[i].kind = "entry" => d[i].t \in s.log
  /\ s.ok => \A t \in s.log : \E i \in 1 .. Len(d) : d[i].kind = "entry" /\ d[i].t = t
  /\ Documented(d) /\ s.ok => \A t \in BackupTables : s.rows[t] # 0 => t \in s.log

LEMMA ReadingTells ==
  ASSUME NEW d \in Seq(Statement)
  PROVE  Told(d, ReadDump(d))
<1> DEFINE P(z) == Told(z, ReadDump(z))
           T == {z \in Seq(Statement) : P(z)}
<1>1. P(<<>>)
  <2>1. Opening \in ReadStates /\ Len(<<>>) = 0 /\ \A t \in BackupTables : Opening.rows[t] = 0
    BY OpeningType DEF Opening, NoRevs
  <2>2. ~Opening.committed /\ Opening.log = {} /\ ReadDump(<<>>) = Opening
    BY ReadingStarts DEF Opening
  <2>3. \A i \in 1 .. Len(<<>>) : FALSE
    BY <2>1
  <2> QED BY <2>1, <2>2, <2>3 DEF Told
<1>2. ASSUME NEW z \in Seq(Statement), NEW x \in Statement, P(z) PROVE P(Append(z, x))
  <2> DEFINE e == Append(z, x)
             s == ReadDump(z)
             u == ReadDump(e)
  <2>1. /\ Len(z) \in Nat /\ Len(e) = Len(z) + 1 /\ e[Len(e)] = x
        /\ \A k \in 1 .. Len(z) : e[k] = z[k] /\ k \in 1 .. Len(e)
        /\ Len(e) \in 1 .. Len(e) /\ \A k \in 1 .. Len(e) : k \in 1 .. Len(z) \/ k = Len(e)
    BY AppendProperties, LenProperties
  <2>2. u = AfterReading(s, x) /\ u \in ReadStates
    BY ReadingGoesOn, ReadingType, AppendProperties
  <2>3. Told(z, s)
    BY <1>2
  <2>4. x.kind \in {"begin", "commit", "log", "entry", "table", "row"} /\ x.t \in BackupTables \cup {0}
    BY DEF Statement
  <2>5. z = <<>> => s = Opening /\ Len(z) = 0
    BY ReadingStarts
  <2>6. z # <<>> => Len(z) # 0
    BY EmptySeq, LenProperties
  <2>7. Documented(e) => Documented(z)
    <3> SUFFICES ASSUME Documented(e), NEW i \in 1 .. Len(z)
                 PROVE  /\ z[i].kind = "entry" => z[i].t \in BackupTables
                        /\ z[i].kind = "row" => \E j \in 1 .. i - 1 : z[j].kind = "entry" /\ z[j].t = z[i].t
      BY DEF Documented
    <3>1. i \in 1 .. Len(e) /\ e[i] = z[i] /\ \A j \in 1 .. i - 1 : j \in 1 .. Len(z)
      BY <2>1
    <3>2. \A j \in 1 .. i - 1 : e[j] = z[j]
      BY <2>1, <3>1
    <3> HIDE DEF e
    <3> QED BY <3>1, <3>2 DEF Documented
  <2>8. Documented(e) /\ x.kind = "row" => \E j \in 1 .. Len(z) : z[j].kind = "entry" /\ z[j].t = x.t
    <3> SUFFICES ASSUME Documented(e), x.kind = "row"
                 PROVE  \E j \in 1 .. Len(z) : z[j].kind = "entry" /\ z[j].t = x.t
      OBVIOUS
    <3>1. PICK j \in 1 .. Len(e) - 1 : e[j].kind = "entry" /\ e[j].t = x.t
      <4> HIDE DEF e
      <4> QED BY <2>1 DEF Documented
    <3>2. j \in 1 .. Len(z)
      BY <2>1, <3>1
    <3> QED BY <2>1, <3>1, <3>2
  <2>9. s \in ReadStates
    BY <2>3 DEF Told
  <2> HIDE DEF e, s, u
  <2>10. /\ u.ok => s.ok /\ Accepts(s, x)
         /\ s.began => u.began
         /\ u.committed => s.committed \/ x.kind = "commit"
         /\ u.ok /\ x.kind = "begin" => u.began
         /\ u.ok => u.log = IF x.kind = "entry" THEN s.log \cup {x.t} ELSE s.log
         /\ u.ok => \A t \in BackupTables : u.rows[t] = s.rows[t] \/ (x.kind = "row" /\ x.t = t)
    <3>1. CASE ~Accepts(s, x)
      BY <2>2, <2>9, <3>1 DEF AfterReading, ReadStates
    <3>2. CASE Accepts(s, x) /\ x.kind = "row"
      BY <2>2, <2>9, <3>2 DEF AfterReading, ReadStates, Accepts
    <3>3. CASE Accepts(s, x) /\ x.kind # "row"
      BY <2>2, <2>4, <2>9, <3>3 DEF AfterReading, ReadStates, Accepts
    <3> QED BY <3>1, <3>2, <3>3
  <2>11. u.committed => \E i \in 1 .. Len(e) : e[i].kind = "commit"
    BY <2>1, <2>3, <2>10 DEF Told
  <2>12. e # <<>> /\ e[1].kind = "begin" => u.began \/ ~u.ok
    <3>1. CASE z = <<>>
      BY <2>1, <2>5, <2>10, <3>1
    <3>2. CASE z # <<>>
      <4>1. e[1] = z[1]
        BY <2>1, <2>6, <3>2
      <4> QED BY <2>3, <2>10, <3>2, <4>1 DEF Told
    <3> QED BY <3>1, <3>2
  <2>13. u.ok => \A i \in 1 .. Len(e) : e[i].kind = "entry" => e[i].t \in u.log
    BY <2>1, <2>3, <2>10 DEF Told
  <2>14. u.ok => \A t \in u.log : \E i \in 1 .. Len(e) : e[i].kind = "entry" /\ e[i].t = t
    <3> SUFFICES ASSUME u.ok, NEW t \in u.log PROVE \E i \in 1 .. Len(e) : e[i].kind = "entry" /\ e[i].t = t
      OBVIOUS
    <3>1. CASE t \in s.log
      BY <2>1, <2>3, <2>10, <3>1 DEF Told
    <3>2. CASE t \notin s.log
      BY <2>1, <2>10, <3>2
    <3> QED BY <3>1, <3>2
  <2>15. ASSUME Documented(e), u.ok, NEW t \in BackupTables, u.rows[t] # 0 PROVE t \in u.log
    <3>1. s.ok /\ Documented(z)
      BY <2>7, <2>10, <2>15
    <3>2. CASE s.rows[t] # 0
      BY <2>3, <2>10, <2>15, <3>1, <3>2 DEF Told
    <3>3. CASE s.rows[t] = 0
      <4>1. x.kind = "row" /\ x.t = t
        BY <2>10, <2>15, <3>3
      <4>2. t \in s.log
        BY <2>3, <2>8, <2>15, <3>1, <4>1 DEF Told
      <4> QED BY <2>10, <2>15, <4>2
    <3> QED BY <3>2, <3>3
  <2> QED BY <2>2, <2>11, <2>12, <2>13, <2>14, <2>15 DEF Told, e, u
<1> HIDE DEF P
<1>3. T = Seq(Statement)
  <2>1. T \in SUBSET Seq(Statement) /\ <<>> \in T
    BY <1>1, EmptySeq
  <2>2. \A z \in T, x \in Statement : Append(z, x) \in T
    BY <1>2, AppendProperties
  <2> HIDE DEF T
  <2> QED BY <2>1, <2>2, SequenceInduction
<1>4. P(d)
  BY <1>3
<1> QED BY <1>4 DEF P

-----------------------------------------------------------------------------
(* Restores: dumps *)

\* The parts of the tables, one after the other.
Laying(S, part) == [n \in 1 .. Cardinality(BackupTables) |-> [u \in Seq(S) |-> u \o part[n]]]
Lays(S, part, f) == Iterates(Seq(S), <<>>, Cardinality(BackupTables), Laying(S, part), f)

LEMMA PartsAreLaid ==
  ASSUME NEW S, NEW part \in [BackupTables -> Seq(S)]
  PROVE  \E f : Lays(S, part, f) /\ ByName(part) = f[Cardinality(BackupTables)]
<1> DEFINE N == Cardinality(BackupTables)
           h == CHOOSE h : h = [n \in 0 .. N |-> IF n = 0 THEN <<>> ELSE h[n - 1] \o part[n]]
<1>1. N \in Nat /\ BackupTables = 1 .. N
  BY RevsAreNaturals
<1>2. ASSUME NEW n \in 1 .. N, NEW u \in Seq(S) PROVE u \o part[n] \in Seq(S)
  <2>1. part[n] \in Seq(S)
    BY <1>1
  <2> QED BY <2>1, ConcatProperties
<1>3. Laying(S, part) \in StepsOf(Seq(S), N) /\ <<>> \in Seq(S)
  BY <1>2, EmptySeq DEF Laying, StepsOf
<1>4. PICK f : Lays(S, part, f)
  <2> HIDE DEF N
  <2> QED BY <1>1, <1>3, RecursionExists DEF Lays, N
<1>5. f = [n \in 0 .. N |-> IF n = 0 THEN <<>> ELSE f[n - 1] \o part[n]]
  <2>1. f \in [0 .. N -> Seq(S)] /\ f[0] = <<>>
    BY <1>4 DEF Lays, Iterates
  <2>2. ASSUME NEW n \in 0 .. N, n # 0 PROVE f[n] = f[n - 1] \o part[n]
    <3>1. n \in 1 .. N /\ n - 1 \in 0 .. N
      BY <1>1, <2>2
    <3>2. f[n] = Laying(S, part)[n][f[n - 1]] /\ f[n - 1] \in Seq(S)
      BY <1>4, <2>1, <3>1 DEF Lays, Iterates
    <3> QED BY <3>1, <3>2 DEF Laying
  <2> QED BY <2>1, <2>2
<1>6. h = [n \in 0 .. N |-> IF n = 0 THEN <<>> ELSE h[n - 1] \o part[n]]
  BY <1>5
<1>7. ByName(part) = h[N]
  BY DEF ByName
<1> HIDE DEF h, N
<1>8. h = [n \in 0 .. N |-> h[n]] /\ h[0] = <<>>
  BY <1>1, <1>6
<1>9. ASSUME NEW k \in 1 .. N, h[k - 1] \in Seq(S) PROVE h[k] = Laying(S, part)[k][h[k - 1]]
  <2>1. k \in 0 .. N /\ k # 0
    BY <1>1
  <2>2. h[k] = h[k - 1] \o part[k]
    BY <1>6, <2>1
  <2> QED BY <1>9, <2>2 DEF Laying, N
<1>10. Lays(S, part, h)
  <2>1. Iterates(Seq(S), <<>>, N, Laying(S, part), h)
    BY <1>1, <1>3, <1>8, <1>9, RecursionIs
  <2> QED BY <2>1 DEF Lays, N
<1> QED BY <1>7, <1>10 DEF N

\* What they are made of, up to each table.
LEMMA LaidParts ==
  ASSUME NEW S, NEW part \in [BackupTables -> Seq(S)], NEW f, Lays(S, part, f)
  PROVE  /\ f \in [0 .. Cardinality(BackupTables) -> Seq(S)] /\ f[0] = <<>>
         /\ \A n \in BackupTables : /\ n - 1 \in 0 .. Cardinality(BackupTables)
                                    /\ n \in 0 .. Cardinality(BackupTables) /\ part[n] \in Seq(S)
                                    /\ f[n - 1] \in Seq(S) /\ f[n] = f[n - 1] \o part[n]
<1> DEFINE N == Cardinality(BackupTables)
<1>1. N \in Nat /\ BackupTables = 1 .. N
  BY RevsAreNaturals
<1> HIDE DEF N
<1>2. f \in [0 .. N -> Seq(S)] /\ f[0] = <<>>
  BY DEF Lays, Iterates, N
<1>3. ASSUME NEW n \in BackupTables
      PROVE  n - 1 \in 0 .. N /\ n \in 0 .. N /\ part[n] \in Seq(S) /\ f[n - 1] \in Seq(S) /\ f[n] = f[n - 1] \o part[n]
  <2>1. n \in 1 .. N /\ n - 1 \in 0 .. N /\ n \in 0 .. N
    BY <1>1
  <2>2. f[n] = Laying(S, part)[n][f[n - 1]] /\ f[n - 1] \in Seq(S)
    BY <1>2, <2>1 DEF Lays, Iterates, N
  <2>3. f[n] = f[n - 1] \o part[n]
    BY <2>1, <2>2 DEF Laying, N
  <2> QED BY <2>1, <2>2, <2>3
<1> QED BY <1>2, <1>3 DEF N

LEMMA PartsByName ==
  ASSUME NEW S, NEW part \in [BackupTables -> Seq(S)]
  PROVE  /\ ByName(part) \in Seq(S)
         /\ ToSet(ByName(part)) = UNION {ToSet(part[t]) : t \in BackupTables}
<1> DEFINE N == Cardinality(BackupTables)
<1>1. N \in Nat /\ BackupTables = 1 .. N
  BY RevsAreNaturals
<1>2. PICK f : Lays(S, part, f) /\ ByName(part) = f[N]
  BY PartsAreLaid
<1> HIDE DEF N
<1>3. /\ f \in [0 .. N -> Seq(S)] /\ f[0] = <<>>
      /\ \A n \in 1 .. N : n - 1 \in 0 .. N /\ part[n] \in Seq(S) /\ f[n - 1] \in Seq(S) /\ f[n] = f[n - 1] \o part[n]
  <2>1. Lays(S, part, f) /\ part \in [BackupTables -> Seq(S)]
    BY <1>2
  <2>2. /\ f \in [0 .. Cardinality(BackupTables) -> Seq(S)] /\ f[0] = <<>>
        /\ \A n \in BackupTables : /\ n - 1 \in 0 .. Cardinality(BackupTables)
                                   /\ n \in 0 .. Cardinality(BackupTables) /\ part[n] \in Seq(S)
                                   /\ f[n - 1] \in Seq(S) /\ f[n] = f[n - 1] \o part[n]
    BY <2>1, LaidParts
  <2> QED BY <1>1, <2>2 DEF N
<1> DEFINE Members(n) == UNION {ToSet(part[t]) : t \in 1 .. n}
           Wrong == {n \in 0 .. N : ToSet(f[n]) # Members(n)}
<1>4. ASSUME Wrong # {} PROVE FALSE
  <2>1. PICK n \in Wrong : \A m \in Wrong : n <= m
    <3>1. Wrong \in SUBSET Nat
      BY <1>1
    <3> HIDE DEF Wrong
    <3> QED BY <1>4, <3>1, LeastNatural
  <2>2. n \in 0 .. N /\ ToSet(f[n]) # Members(n)
    BY <2>1
  <2>3. CASE n = 0
    <3>1. Members(0) = {}
      OBVIOUS
    <3> QED BY <1>3, <2>2, <2>3, <3>1, MembersOf
  <2>4. CASE n # 0
    <3>1. n \in 1 .. N /\ n - 1 \in 0 .. N
      BY <1>1, <2>2, <2>4
    <3>2. ToSet(f[n - 1]) = Members(n - 1)
      <4>1. n - 1 \notin Wrong
        <5> HIDE DEF Wrong
        <5> QED BY <1>1, <2>1, <2>2
      <4> HIDE DEF Members
      <4> QED BY <3>1, <4>1
    <3>3. ToSet(f[n]) = ToSet(f[n - 1]) \cup ToSet(part[n])
      <4>1. part[n] \in Seq(S) /\ f[n - 1] \in Seq(S) /\ f[n] = f[n - 1] \o part[n]
        BY <1>3, <3>1
      <4> QED BY <4>1, MembersConcat
    <3>4. Members(n) = Members(n - 1) \cup ToSet(part[n])
      <4>1. 1 .. n = (1 .. n - 1) \cup {n}
        BY <1>1, <3>1
      <4> QED BY <4>1
    <3> QED BY <2>2, <3>2, <3>3, <3>4
  <2> QED BY <2>3, <2>4
<1>5. N \in 0 .. N /\ N \notin Wrong
  BY <1>1, <1>4
<1>6. ToSet(f[N]) = Members(N)
  BY <1>5
<1> QED BY <1>1, <1>2, <1>3, <1>5, <1>6

LEMMA Statements ==
  /\ \A kind \in {"begin", "commit", "log"} :
       Plain(kind) \in Statement /\ Plain(kind).kind = kind /\ Plain(kind) = [kind |-> kind, t |-> 0, rev |-> 0]
  /\ \A t \in BackupTables : /\ EntryPart(t) \in Seq(Statement) /\ ToSet(EntryPart(t)) = {Say("entry", t, 0)}
                             /\ Say("entry", t, 0) \in Statement
  /\ \A t \in BackupTables, n \in Revs :
       /\ TablePart(t, n) \in Seq(Statement)
       /\ \A x \in ToSet(TablePart(t, n)) : x.kind \in {"table", "row"} /\ x.t = t
<1>1. 0 \in Revs
  BY RevsAreNaturals
<1>2. \A kind \in {"begin", "commit", "log"} :
       Plain(kind) \in Statement /\ Plain(kind).kind = kind /\ Plain(kind) = [kind |-> kind, t |-> 0, rev |-> 0]
  BY <1>1 DEF Plain, Say, Statement
<1>3. ASSUME NEW t \in BackupTables
      PROVE  /\ EntryPart(t) \in Seq(Statement) /\ ToSet(EntryPart(t)) = {Say("entry", t, 0)}
             /\ Say("entry", t, 0) \in Statement
  BY <1>1 DEF EntryPart, Say, Statement, ToSet
<1>4. ASSUME NEW t \in BackupTables, NEW n \in Revs
      PROVE  /\ TablePart(t, n) \in Seq(Statement)
             /\ \A x \in ToSet(TablePart(t, n)) : x.kind \in {"table", "row"} /\ x.t = t
  <2>1. Say("table", t, 0) \in Statement /\ Say("row", t, n) \in Statement
    BY <1>1 DEF Say, Statement
  <2> DEFINE rest == IF n = 0 THEN <<>> ELSE <<Say("row", t, n)>>
  <2>2. /\ <<Say("table", t, 0)>> \in Seq(Statement) /\ ToSet(<<Say("table", t, 0)>>) = {Say("table", t, 0)}
        /\ rest \in Seq(Statement) /\ ToSet(rest) \subseteq {Say("row", t, n)}
    BY <2>1, MembersOf, EmptySeq DEF ToSet
  <2>3. TablePart(t, n) = <<Say("table", t, 0)>> \o rest
    BY DEF TablePart
  <2> HIDE DEF rest
  <2>4. /\ TablePart(t, n) \in Seq(Statement)
        /\ ToSet(TablePart(t, n)) \subseteq {Say("table", t, 0), Say("row", t, n)}
    <3> DEFINE u == <<Say("table", t, 0)>>
    <3>1. u \in Seq(Statement) /\ ToSet(u) = {Say("table", t, 0)} /\ TablePart(t, n) = u \o rest
      BY <2>2, <2>3
    <3> HIDE DEF u
    <3>2. u \o rest \in Seq(Statement)
      BY <2>2, <3>1, ConcatProperties
    <3>3. ToSet(u \o rest) = ToSet(u) \cup ToSet(rest)
      BY <2>2, <3>1, MembersConcat
    <3> QED BY <2>2, <3>1, <3>2, <3>3
  <2>5. /\ Say("table", t, 0).kind = "table" /\ Say("table", t, 0).t = t
        /\ Say("row", t, n).kind = "row" /\ Say("row", t, n).t = t
    BY DEF Say
  <2> QED BY <2>4, <2>5
<1> QED BY <1>2, <1>3, <1>4

LEMMA LogPartSays ==
  ASSUME NEW log \in SUBSET BackupTables
  PROVE  /\ LogPart(log) \in Seq(Statement)
         /\ ToSet(LogPart(log)) = {Plain("log")} \cup {Say("entry", t, 0) : t \in log}
<1> DEFINE part == [t \in BackupTables |-> IF t \in log THEN EntryPart(t) ELSE <<>>]
<1>1. part \in [BackupTables -> Seq(Statement)]
  BY Statements, EmptySeq
<1>2. \A t \in BackupTables : ToSet(part[t]) = IF t \in log THEN {Say("entry", t, 0)} ELSE {}
  BY Statements, MembersOf
<1>3. <<Plain("log")>> \in Seq(Statement) /\ ToSet(<<Plain("log")>>) = {Plain("log")}
  BY Statements DEF ToSet
<1>4. LogPart(log) = <<Plain("log")>> \o ByName(part)
  BY DEF LogPart
<1> HIDE DEF part
<1>5. ByName(part) \in Seq(Statement) /\ ToSet(ByName(part)) = {Say("entry", t, 0) : t \in log}
  <2>1. ByName(part) \in Seq(Statement) /\ ToSet(ByName(part)) = UNION {ToSet(part[t]) : t \in BackupTables}
    BY <1>1, PartsByName
  <2>2. UNION {ToSet(part[t]) : t \in BackupTables} = {Say("entry", t, 0) : t \in log}
    BY <1>2
  <2> QED BY <2>1, <2>2
<1> DEFINE u == <<Plain("log")>>
           v == ByName(part)
<1>6. /\ u \in Seq(Statement) /\ ToSet(u) = {Plain("log")} /\ LogPart(log) = u \o v
      /\ v \in Seq(Statement) /\ ToSet(v) = {Say("entry", t, 0) : t \in log}
  BY <1>3, <1>4, <1>5
<1> HIDE DEF u, v
<1>7. u \o v \in Seq(Statement)
  BY <1>6, ConcatProperties
<1>8. ToSet(u \o v) = ToSet(u) \cup ToSet(v)
  BY <1>6, MembersConcat
<1> QED BY <1>6, <1>7, <1>8

LEMMA TablePartsSay ==
  ASSUME NEW one \in Replica
  PROVE  /\ TableParts(one) \in Seq(Statement)
         /\ \A x \in ToSet(TableParts(one)) : x.kind \in {"table", "row"} /\ x.t \in one.log
<1> DEFINE part == [t \in BackupTables |-> IF t \in one.log THEN TablePart(t, one.rows[t]) ELSE <<>>]
<1>1. \A t \in BackupTables : one.rows[t] \in Revs
  BY DEF Replica
<1>2. part \in [BackupTables -> Seq(Statement)]
  BY <1>1, Statements, EmptySeq
<1>3. \A t \in BackupTables : \A x \in ToSet(part[t]) : x.kind \in {"table", "row"} /\ x.t = t /\ t \in one.log
  BY <1>1, Statements, MembersOf
<1>4. TableParts(one) = ByName(part)
  BY DEF TableParts
<1> HIDE DEF part
<1> QED BY <1>2, <1>3, <1>4, PartsByName

\* Rows whose entries a dump has may follow it.
LEMMA DocumentedConcat ==
  ASSUME NEW u \in Seq(Statement), NEW v \in Seq(Statement), Documented(u),
         \A x \in ToSet(v) : /\ x.kind = "entry" => x.t \in BackupTables
                             /\ x.kind = "row" => \E y \in ToSet(u) : y.kind = "entry" /\ y.t = x.t
  PROVE  Documented(u \o v)
<1> DEFINE w == u \o v
<1>1. /\ Len(u) \in Nat /\ Len(v) \in Nat /\ Len(w) = Len(u) + Len(v)
      /\ \A i \in 1 .. Len(u) : w[i] = u[i]
      /\ \A i \in 1 .. Len(v) : w[Len(u) + i] = v[i]
  BY ConcatProperties, LenProperties
<1> HIDE DEF w
<1> SUFFICES ASSUME NEW i \in 1 .. Len(w)
             PROVE  /\ w[i].kind = "entry" => w[i].t \in BackupTables
                    /\ w[i].kind = "row" => \E j \in 1 .. i - 1 : w[j].kind = "entry" /\ w[j].t = w[i].t
  BY DEF Documented, w
<1>2. CASE i <= Len(u)
  <2>1. i \in 1 .. Len(u) /\ \A j \in 1 .. i - 1 : j \in 1 .. Len(u)
    BY <1>1, <1>2
  <2> QED BY <1>1, <2>1 DEF Documented
<1>3. CASE i > Len(u)
  <2>1. i - Len(u) \in 1 .. Len(v) /\ w[i] = v[i - Len(u)] /\ \A j \in 1 .. Len(u) : j \in 1 .. i - 1
    BY <1>1, <1>3
  <2>2. w[i] \in ToSet(v)
    BY <2>1, MembersOf
  <2>3. ASSUME w[i].kind = "row" PROVE \E j \in 1 .. i - 1 : w[j].kind = "entry" /\ w[j].t = w[i].t
    <3>1. PICK y \in ToSet(u) : y.kind = "entry" /\ y.t = w[i].t
      BY <2>2, <2>3
    <3>2. PICK j \in 1 .. Len(u) : u[j] = y
      BY LenProperties DEF ToSet
    <3> QED BY <1>1, <2>1, <3>1, <3>2
  <2> QED BY <2>2, <2>3
<1> QED BY <1>1, <1>2, <1>3

\* A dump cut short is one too.
LEMMA DocumentedCut ==
  ASSUME NEW d \in Seq(Statement), Documented(d), NEW n \in 0 .. Len(d)
  PROVE  SubSeq(d, 1, n) \in Seq(Statement) /\ Documented(SubSeq(d, 1, n))
<1> DEFINE e == SubSeq(d, 1, n)
<1>1. /\ e \in Seq(Statement) /\ Len(e) = n /\ Len(d) \in Nat /\ n \in Nat
      /\ \A i \in 1 .. n : e[i] = d[i] /\ i \in 1 .. Len(d)
  BY SubSeqProperties, LenProperties
<1> HIDE DEF e
<1>2. \A i \in 1 .. Len(e) : \A j \in 1 .. i - 1 : j \in 1 .. n
  BY <1>1
<1>3. Documented(e)
  BY <1>1, <1>2 DEF Documented
<1> QED BY <1>1, <1>3 DEF e

LEMMA DumpsAreDocumented ==
  ASSUME NEW one \in Replica
  PROVE  /\ Dump(one) \in Seq(Statement) /\ Documented(Dump(one))
         /\ LogPart(one.log) \o TableParts(one) \in Seq(Statement)
         /\ Documented(LogPart(one.log) \o TableParts(one))
<1> DEFINE b == <<Plain("begin")>>
           c == <<Plain("commit")>>
           l == LogPart(one.log)
           p == TableParts(one)
<1>1. one.log \in SUBSET BackupTables
  BY DEF Replica
<1>2. /\ b \in Seq(Statement) /\ c \in Seq(Statement)
      /\ ToSet(b) = {Plain("begin")} /\ ToSet(c) = {Plain("commit")}
      /\ Plain("begin").kind = "begin" /\ Plain("commit").kind = "commit" /\ Plain("log").kind = "log"
  BY Statements DEF ToSet
<1>3. \A t \in one.log : Say("entry", t, 0).kind = "entry" /\ Say("entry", t, 0).t = t
  BY DEF Say
<1>4. /\ l \in Seq(Statement)
      /\ \A x \in ToSet(l) : x.kind \in {"log", "entry"} /\ (x.kind = "entry" => x.t \in BackupTables)
      /\ \A t \in one.log : \E y \in ToSet(l) : y.kind = "entry" /\ y.t = t
  BY <1>1, <1>2, <1>3, LogPartSays
<1>5. p \in Seq(Statement) /\ \A x \in ToSet(p) : x.kind \in {"table", "row"} /\ x.t \in one.log
  BY TablePartsSay
<1>6. Dump(one) = ((b \o l) \o p) \o c
  BY DEF Dump
<1> HIDE DEF b, c, l, p
<1>7. Documented(<<>>) /\ <<>> \in Seq(Statement)
  BY EmptySeq DEF Documented
<1>8. Documented(b) /\ Documented(l)
  <2>1. <<>> \o b = b /\ <<>> \o l = l
    BY <1>2, <1>4, ConcatEmptySeq
  <2>2. \A x \in ToSet(b) : x.kind \notin {"entry", "row"}
    BY <1>2
  <2>3. Documented(<<>> \o b)
    BY <1>2, <1>7, <2>2, DocumentedConcat
  <2>4. \A x \in ToSet(l) : x.kind # "row" /\ (x.kind = "entry" => x.t \in BackupTables)
    BY <1>4
  <2>5. Documented(<<>> \o l)
    BY <1>4, <1>7, <2>4, DocumentedConcat
  <2> QED BY <2>1, <2>3, <2>5
<1>9. b \o l \in Seq(Statement) /\ Documented(b \o l) /\ ToSet(b \o l) = ToSet(b) \cup ToSet(l)
  <2>1. \A x \in ToSet(l) : x.kind # "row" /\ (x.kind = "entry" => x.t \in BackupTables)
    BY <1>4
  <2> QED BY <1>2, <1>4, <1>8, <2>1, DocumentedConcat, ConcatProperties, MembersConcat
<1>10. \A x \in ToSet(p) : x.kind # "entry" /\ \E y \in ToSet(l) : y.kind = "entry" /\ y.t = x.t
  BY <1>4, <1>5
<1>11. l \o p \in Seq(Statement) /\ Documented(l \o p)
  BY <1>4, <1>5, <1>8, <1>10, DocumentedConcat, ConcatProperties
<1>12. (b \o l) \o p \in Seq(Statement) /\ Documented((b \o l) \o p)
  <2>1. \A x \in ToSet(p) : x.kind # "entry" /\ \E y \in ToSet(b \o l) : y.kind = "entry" /\ y.t = x.t
    BY <1>9, <1>10
  <2> QED BY <1>5, <1>9, <2>1, DocumentedConcat, ConcatProperties
<1>13. ((b \o l) \o p) \o c \in Seq(Statement) /\ Documented(((b \o l) \o p) \o c)
  <2>1. \A x \in ToSet(c) : x.kind \notin {"entry", "row"}
    BY <1>2
  <2> QED BY <1>2, <1>12, <2>1, DocumentedConcat, ConcatProperties
<1> QED BY <1>6, <1>11, <1>13 DEF l, p

EntryParts(log) == [t \in BackupTables |-> IF t \in log THEN EntryPart(t) ELSE <<>>]

\* Entries read after the log's own statement are its log.
LEMMA ReadingEntries ==
  ASSUME NEW d \in Seq(Statement), NEW log \in SUBSET BackupTables,
         ReadDump(d).ok, ReadDump(d).logged, ~ReadDump(d).committed
  PROVE  ReadDump(d \o ByName(EntryParts(log))) = [ReadDump(d) EXCEPT !.log = ReadDump(d).log \cup log]
<1> DEFINE N == Cardinality(BackupTables)
           part == EntryParts(log)
           s == ReadDump(d)
           After(n) == [s EXCEPT !.log = s.log \cup (log \cap 1 .. n)]
<1>1. N \in Nat /\ BackupTables = 1 .. N
  BY RevsAreNaturals
<1>2. part \in [BackupTables -> Seq(Statement)]
  BY Statements, EmptySeq DEF EntryParts
<1> HIDE DEF part
<1>3. PICK f : Lays(Statement, part, f) /\ ByName(part) = f[N]
  BY <1>2, PartsAreLaid
<1>4. s \in ReadStates
  BY ReadingType
<1> HIDE DEF N, s
<1>5. /\ f \in [0 .. N -> Seq(Statement)] /\ f[0] = <<>>
      /\ \A n \in 1 .. N : n - 1 \in 0 .. N /\ part[n] \in Seq(Statement) /\ f[n - 1] \in Seq(Statement) /\ f[n] = f[n - 1] \o part[n]
  <2>1. Lays(Statement, part, f) /\ part \in [BackupTables -> Seq(Statement)]
    BY <1>2, <1>3
  <2>2. /\ f \in [0 .. Cardinality(BackupTables) -> Seq(Statement)] /\ f[0] = <<>>
        /\ \A n \in BackupTables : /\ n - 1 \in 0 .. Cardinality(BackupTables)
                                   /\ n \in 0 .. Cardinality(BackupTables) /\ part[n] \in Seq(Statement)
                                   /\ f[n - 1] \in Seq(Statement) /\ f[n] = f[n - 1] \o part[n]
    BY <2>1, LaidParts
  <2> QED BY <1>1, <2>2 DEF N
<1> DEFINE Wrong == {n \in 0 .. N : ReadDump(d \o f[n]) # After(n)}
<1>6. ASSUME Wrong # {} PROVE FALSE
  <2>1. PICK n \in Wrong : \A m \in Wrong : n <= m
    <3>1. Wrong \in SUBSET Nat
      BY <1>1
    <3> HIDE DEF Wrong
    <3> QED BY <1>6, <3>1, LeastNatural
  <2>2. n \in 0 .. N /\ ReadDump(d \o f[n]) # After(n)
    BY <2>1
  <2>3. CASE n = 0
    <3>1. After(0) = s
      <4>1. s.log \cup (log \cap 1 .. 0) = s.log
        OBVIOUS
      <4> QED BY <1>4, <4>1 DEF ReadStates
    <3>2. d \o f[0] = d
      BY <1>5, ConcatEmptySeq
    <3> HIDE DEF After
    <3> QED BY <2>2, <2>3, <3>1, <3>2 DEF s
  <2>4. CASE n # 0
    <3>1. n \in 1 .. N /\ n - 1 \in 0 .. N
      BY <1>1, <2>2, <2>4
    <3>2. ReadDump(d \o f[n - 1]) = After(n - 1)
      <4>1. n - 1 \notin Wrong
        <5> HIDE DEF Wrong
        <5> QED BY <1>1, <2>1, <2>2
      <4> HIDE DEF After
      <4> QED BY <3>1, <4>1
    <3>3. f[n] = f[n - 1] \o part[n] /\ f[n - 1] \in Seq(Statement)
      BY <1>5, <3>1
    <3>4. 1 .. n = (1 .. n - 1) \cup {n} /\ n \in BackupTables
      BY <1>1, <3>1
    <3>5. CASE n \notin log
      <4>1. part[n] = <<>> /\ f[n] = f[n - 1]
        BY <3>3, <3>4, <3>5, ConcatEmptySeq DEF part, EntryParts
      <4>2. log \cap 1 .. n = log \cap 1 .. n - 1
        BY <3>4, <3>5
      <4> QED BY <2>2, <3>2, <4>1, <4>2
    <3>6. CASE n \in log
      <4> DEFINE x == Say("entry", n, 0)
      <4>1. x \in Statement /\ x.kind = "entry" /\ x.t = n
        BY <3>4, Statements DEF Say
      <4>2. part[n] = <<x>>
        BY <3>4, <3>6 DEF part, EntryParts, EntryPart
      <4> HIDE DEF x
      <4>3. d \o f[n] = Append(d \o f[n - 1], x) /\ d \o f[n - 1] \in Seq(Statement)
        <5> DEFINE w == f[n - 1]
        <5>1. w \in Seq(Statement) /\ f[n] = w \o <<x>>
          BY <3>3, <4>2
        <5> HIDE DEF w
        <5>2. Append(w, x) = w \o <<x>>
          BY <4>1, <5>1, AppendIsConcat
        <5>3. d \o Append(w, x) = Append(d \o w, x) /\ d \o w \in Seq(Statement)
          BY <4>1, <5>1, AppendToConcat
        <5> QED BY <5>1, <5>2, <5>3 DEF w
      <4>4. ReadDump(d \o f[n]) = AfterReading(After(n - 1), x)
        <5> HIDE DEF After
        <5> QED BY <3>2, <4>1, <4>3, ReadingGoesOn
      <4>5. s.ok /\ s.logged /\ ~s.committed
        BY DEF s
      <4>6. Accepts(After(n - 1), x)
        BY <1>4, <4>1, <4>5 DEF Accepts, ReadStates
      <4>7. AfterReading(After(n - 1), x) = [s EXCEPT !.log = (s.log \cup (log \cap 1 .. n - 1)) \cup {n}]
        BY <1>4, <4>1, <4>6 DEF AfterReading, ReadStates
      <4>8. (s.log \cup (log \cap 1 .. n - 1)) \cup {n} = s.log \cup (log \cap 1 .. n)
        BY <3>4, <3>6
      <4> QED BY <2>2, <4>4, <4>7, <4>8
    <3> QED BY <3>5, <3>6
  <2> HIDE DEF After, Wrong
  <2> QED BY <2>3, <2>4
<1>7. N \in 0 .. N /\ N \notin Wrong
  <2>1. Wrong = {}
    BY <1>6
  <2>2. N \in 0 .. N
    BY <1>1
  <2> HIDE DEF Wrong
  <2> QED BY <2>1, <2>2
<1>8. ReadDump(d \o f[N]) = After(N)
  BY <1>7
<1>9. log \cap 1 .. N = log
  BY <1>1
<1> QED BY <1>3, <1>8, <1>9 DEF s, part

\* The state a recovery dump is in when it has its schema log.
LogRead(log) == [Opening EXCEPT !.began = TRUE, !.logged = TRUE, !.log = log]

LEMMA LogReadType == \A log \in SUBSET BackupTables : LogRead(log) \in ReadStates
BY OpeningType DEF LogRead, ReadStates

LEMMA LogIsRead ==
  ASSUME NEW log \in SUBSET BackupTables
  PROVE  ReadDump(<<Plain("begin")>> \o LogPart(log)) = LogRead(log)
<1> DEFINE b == <<Plain("begin")>>
           bl == Append(b, Plain("log"))
           part == EntryParts(log)
<1>1. /\ Plain("begin") \in Statement /\ Plain("begin").kind = "begin"
      /\ Plain("log") \in Statement /\ Plain("log").kind = "log"
  BY Statements
<1>2. <<>> \in Seq(Statement) /\ b = Append(<<>>, Plain("begin")) /\ b \in Seq(Statement)
  BY <1>1, EmptySeq
<1>3. bl \in Seq(Statement) /\ bl = b \o <<Plain("log")>> /\ <<Plain("log")>> \in Seq(Statement)
  BY <1>1, <1>2, AppendProperties, AppendIsConcat
<1>4. part \in [BackupTables -> Seq(Statement)]
  BY Statements, EmptySeq DEF EntryParts
<1>5. ByName(part) \in Seq(Statement)
  <2> HIDE DEF part
  <2> QED BY <1>4, PartsByName
<1>6. LogPart(log) = <<Plain("log")>> \o ByName(part)
  BY DEF LogPart, EntryParts
<1>7. b \o LogPart(log) = bl \o ByName(part)
  <2> HIDE DEF part, b, bl
  <2> QED BY <1>2, <1>3, <1>5, <1>6, ConcatAssociative
<1>8. ReadDump(b) = AfterReading(Opening, Plain("begin"))
  BY <1>1, <1>2, ReadingStarts, ReadingGoesOn
<1>9. ReadDump(bl) = AfterReading(ReadDump(b), Plain("log"))
  <2> HIDE DEF b
  <2> QED BY <1>1, <1>2, ReadingGoesOn
<1>10. AfterReading(Opening, Plain("begin")) = [Opening EXCEPT !.began = TRUE]
  BY <1>1 DEF AfterReading, Accepts, Opening
<1>11. AfterReading([Opening EXCEPT !.began = TRUE], Plain("log")) = LogRead({})
  <2> DEFINE s == [Opening EXCEPT !.began = TRUE]
             x == Plain("log")
  <2>1. s.ok /\ ~s.committed /\ ~s.logged /\ x.kind = "log"
    BY <1>1 DEF Opening
  <2>4. [s EXCEPT !.logged = TRUE] = LogRead({})
    <3> DEFINE u == [s EXCEPT !.logged = TRUE]
               v == LogRead({})
    <3>1. /\ u.ok = v.ok /\ u.began = v.began /\ u.committed = v.committed /\ u.logged = v.logged
          /\ u.log = v.log /\ u.tables = v.tables /\ u.rows = v.rows
      BY DEF Opening, LogRead
    <3>2. u \in ReadStates
      BY OpeningType DEF ReadStates
    <3>3. v \in ReadStates
      <4>1. {} \in SUBSET BackupTables
        OBVIOUS
      <4> QED BY <4>1, LogReadType
    <3> HIDE DEF u, v
    <3>4. u = v
      BY <3>1, <3>2, <3>3, SameReading
    <3> QED BY <3>4 DEF u, v
  <2> HIDE DEF s, x
  <2>2. Accepts(s, x)
    BY <2>1 DEF Accepts
  <2>3. AfterReading(s, x) = [s EXCEPT !.logged = TRUE]
    BY <2>1, <2>2 DEF AfterReading
  <2> QED BY <2>3, <2>4 DEF s, x
<1>12. ReadDump(bl) = LogRead({})
  BY <1>8, <1>9, <1>10, <1>11
<1>13. LogRead({}).ok /\ LogRead({}).logged /\ ~LogRead({}).committed /\ LogRead({}).log = {}
  BY DEF LogRead, Opening
<1> HIDE DEF b, bl
<1>14. ReadDump(bl \o ByName(part)) = [LogRead({}) EXCEPT !.log = {} \cup log]
  <2>2. ReadDump(bl).ok /\ ReadDump(bl).logged /\ ~ReadDump(bl).committed
    BY <1>12, <1>13
  <2>3. ReadDump(bl \o ByName(part)) = [ReadDump(bl) EXCEPT !.log = ReadDump(bl).log \cup log]
    BY <1>3, <2>2, ReadingEntries
  <2> QED BY <1>12, <1>13, <2>3
<1>15. [LogRead({}) EXCEPT !.log = {} \cup log] = LogRead(log)
  BY DEF LogRead, Opening
<1> QED BY <1>7, <1>14, <1>15 DEF b

\* A sequence of two after another one.
LEMMA TwoMore ==
  ASSUME NEW S, NEW d \in Seq(S), NEW x \in S, NEW y \in S
  PROVE  d \o (<<x>> \o <<y>>) = Append(Append(d, x), y)
<1> DEFINE X == <<x>>
           Y == <<y>>
           e == Append(d, x)
<1>1. X \in Seq(S) /\ Y \in Seq(S) /\ e \in Seq(S)
  BY AppendProperties
<1>2. e = d \o X
  BY AppendIsConcat
<1> HIDE DEF e
<1>3. Append(e, y) = e \o Y
  BY <1>1, AppendIsConcat
<1> HIDE DEF X, Y
<1>4. (d \o X) \o Y = d \o (X \o Y)
  BY <1>1, ConcatAssociative
<1> QED BY <1>2, <1>3, <1>4 DEF X, Y, e

TableRead(s, t, n) == [s EXCEPT !.tables = s.tables \cup {t}, !.rows[t] = n]

\* A table that was not read yet is read as it stands.
LEMMA TableIsRead ==
  ASSUME NEW d \in Seq(Statement), NEW t \in BackupTables, NEW n \in Revs,
         ReadDump(d).ok, ~ReadDump(d).committed, t \notin ReadDump(d).tables,
         ReadDump(d).rows[t] = 0
  PROVE  ReadDump(d \o TablePart(t, n)) = TableRead(ReadDump(d), t, n)
<1> DEFINE s == ReadDump(d)
           x == Say("table", t, 0)
           y == Say("row", t, n)
           u == [s EXCEPT !.tables = s.tables \cup {t}]
<1>1. /\ x \in Statement /\ x.kind = "table" /\ x.t = t
      /\ y \in Statement /\ y.kind = "row" /\ y.t = t /\ y.rev = n
  BY RevsAreNaturals DEF Say, Statement
<1>2. s \in ReadStates
  BY ReadingType
<1>3. TablePart(t, n) = <<x>> \o IF n = 0 THEN <<>> ELSE <<y>>
  BY DEF TablePart
<1>4. s.ok /\ ~s.committed /\ t \notin s.tables /\ s.rows[t] = 0
  OBVIOUS
<1>5. ReadDump(Append(d, x)) = AfterReading(s, x) /\ Append(d, x) \in Seq(Statement)
  <2> HIDE DEF x
  <2> QED BY <1>1, ReadingGoesOn, AppendProperties
<1> HIDE DEF s, x, y
<1>6. AfterReading(s, x) = u
  BY <1>1, <1>2, <1>4 DEF AfterReading, Accepts, ReadStates
<1>7. d \o <<x>> = Append(d, x) /\ <<x>> \in Seq(Statement) /\ <<y>> \in Seq(Statement)
  BY <1>1, AppendIsConcat
<1>8. CASE n = 0
  <2>1. TablePart(t, n) = <<x>>
    BY <1>3, <1>7, <1>8, ConcatEmptySeq
  <2>2. u = TableRead(s, t, n)
    <3>1. [s.rows EXCEPT ![t] = n] = s.rows
      BY <1>2, <1>4, <1>8 DEF ReadStates
    <3> QED BY <1>2, <3>1 DEF ReadStates, TableRead
  <2> QED BY <1>5, <1>6, <1>7, <2>1, <2>2 DEF s
<1>9. CASE n # 0
  <2>1. d \o TablePart(t, n) = Append(Append(d, x), y)
    <3>1. TablePart(t, n) = <<x>> \o <<y>>
      BY <1>3, <1>9
    <3>2. d \o (<<x>> \o <<y>>) = Append(Append(d, x), y)
      BY <1>1, TwoMore
    <3> QED BY <3>1, <3>2
  <2>2. ReadDump(Append(Append(d, x), y)) = AfterReading(u, y)
    BY <1>1, <1>5, <1>6, ReadingGoesOn
  <2>3. Accepts(u, y)
    BY <1>1, <1>2, <1>4 DEF Accepts, ReadStates
  <2>4. AfterReading(u, y) = [u EXCEPT !.rows[t] = n]
    BY <1>1, <2>3 DEF AfterReading
  <2>5. [u EXCEPT !.rows[t] = n] = TableRead(s, t, n)
    BY <1>2 DEF ReadStates, TableRead
  <2> QED BY <2>1, <2>2, <2>4, <2>5 DEF s
<1> QED BY <1>8, <1>9 DEF s
-----------------------------------------------------------------------------
(* Restores: the invariant *)

\* A replica has rows of the tables in its log only.
Rooted(one) == \A t \in BackupTables : t \notin one.log => one.rows[t] = 0

\* What differs is still to be pulled or pushed.
DifferencesDue ==
  \A t \in BackupTables : /\ there.rows[t] > here.rows[t] => t \in unpulled
                          /\ here.rows[t] > there.rows[t] => t \in unpushed

\* The last exchange saw no more than the hub's log has.
MarksFit == exchange[1] <= Cardinality(there.log) /\ ExchangeDue

\* No statement but the last ends the dump, and that one when it is whole.
Whole(d, done) ==
  /\ d # <<>> /\ d[1].kind = "begin"
  /\ \A i \in 1 .. Len(d) : d[i].kind = "commit" => done /\ i = Len(d)

\* What the recovery dump has of the replica: its log, and the tables that are not left.
Saved(s) ==
  /\ s.ok /\ s.began /\ s.logged /\ (s.committed <=> phase = "replacing")
  /\ left \subseteq s.log \cap here.log /\ here.log \subseteq s.log \cup there.log
  /\ \A t \in left : t \notin s.tables /\ s.rows[t] = 0
  /\ \A t \in BackupTables \ left : s.rows[t] = here.rows[t] \/ there.rows[t] >= here.rows[t]

Saving ==
  phase # "idle" =>
    /\ ~undo.kept /\ Whole(recovery, phase = "replacing") /\ Saved(ReadDump(recovery))
    /\ phase = "replacing" => left = {}

RestoreInv ==
  /\ RestoreTypeOK
  /\ Documented(chosen) /\ Documented(recovery)
  /\ Rooted(here) /\ Rooted(there) /\ Rooted(expected)
  /\ DifferencesDue /\ Converged /\ MarksFit /\ Recoverable /\ Saving

LEMMA Logs ==
  ASSUME NEW L \in SUBSET BackupTables
  PROVE  /\ IsFiniteSet(L) /\ Cardinality(L) \in Nat /\ Cardinality(L) \in 0 .. Cardinality(BackupTables)
         /\ \A t \in BackupTables \ L : L \cup {t} \in SUBSET BackupTables /\ Cardinality(L \cup {t}) = Cardinality(L) + 1
<1>1. IsFiniteSet(L) /\ Cardinality(L) \in Nat /\ Cardinality(L) <= Cardinality(BackupTables)
  BY RevsAreNaturals, FS_Subset, FS_CardinalityType
<1>2. \A t \in BackupTables \ L : Cardinality(L \cup {t}) = Cardinality(L) + 1
  BY <1>1, FS_AddElement
<1> QED BY <1>1, <1>2, RevsAreNaturals

LEMMA NewestIsNewest ==
  ASSUME here \in Replica, there \in Replica, BackupTables # {}
  PROVE  /\ NewestRev \in Revs
         /\ \A t \in BackupTables : here.rows[t] <= NewestRev /\ there.rows[t] <= NewestRev
<1> DEFINE Held2 == {n \in Revs : \E t \in BackupTables : n \in {here.rows[t], there.rows[t]}}
           Room == {m \in Nat : \E n \in Held2 : m = MaxStampRev - n}
<1>1. \A t \in BackupTables : here.rows[t] \in Revs /\ there.rows[t] \in Revs
  BY DEF Replica
<1>2. PICK t \in BackupTables : TRUE
  OBVIOUS
<1>3. MaxStampRev - here.rows[t] \in Room
  BY <1>1, <1>2, RevsAreNaturals
<1>4. PICK m \in Room : \A k \in Room : m <= k
  <2>1. Room \in SUBSET Nat
    OBVIOUS
  <2> HIDE DEF Room
  <2> QED BY <1>3, <2>1, LeastNatural
<1>5. PICK n \in Held2 : m = MaxStampRev - n
  BY <1>4
<1>6. ASSUME NEW k \in Held2 PROVE k <= n
  <2>1. MaxStampRev - k \in Room
    BY RevsAreNaturals
  <2>2. m <= MaxStampRev - k
    <3> HIDE DEF Room
    <3> QED BY <1>4, <2>1
  <2>3. k \in Revs /\ n \in Revs
    BY <1>5
  <2> QED BY <1>5, <2>2, <2>3, RevsAreNaturals
<1>7. \A u \in BackupTables : here.rows[u] \in Held2 /\ there.rows[u] \in Held2
  BY <1>1
<1>8. /\ n \in Revs
      /\ \A u \in BackupTables : here.rows[u] <= n /\ there.rows[u] <= n
      /\ \E u \in BackupTables : n \in {here.rows[u], there.rows[u]}
  BY <1>5, <1>6, <1>7
<1> QED BY <1>8 DEF NewestRev

\* A complete dump of a documented file is a replica with rows in its log only.
LEMMA CompleteHolds ==
  ASSUME NEW d \in Seq(Statement), Documented(d), Complete(d)
  PROVE  Held(d) \in Replica /\ Rooted(Held(d))
<1> DEFINE s == ReadDump(d)
<1>1. Told(d, s) /\ s.ok
  BY ReadingTells DEF Complete
<1> HIDE DEF s
<1>2. \A t \in s.log : t \in BackupTables
  BY <1>1 DEF Told, Documented
<1>3. s.rows \in [BackupTables -> Revs] /\ \A t \in BackupTables : s.rows[t] # 0 => t \in s.log
  BY <1>1 DEF Told, ReadStates
<1> QED BY <1>2, <1>3 DEF Held, Replica, Rooted, s

LEMMA ExtremesAreReplicas ==
  /\ EmptyReplica \in Replica /\ Rooted(EmptyReplica) /\ NoUndo.kept = FALSE /\ NoUndo.was \in Replica
BY RevsAreNaturals DEF EmptyReplica, NoUndo, Replica, Rooted, NoRevs

LEMMA RestoreStarts == RestoreInit => RestoreInv
<1> SUFFICES ASSUME RestoreInit PROVE RestoreInv
  OBVIOUS
<1>1. Cardinality({}) = 0 /\ Cardinality(BackupTables) \in Nat
  BY RevsAreNaturals, FS_EmptySet
<1>2. <<>> \in Seq(Statement) /\ Len(<<>>) = 0
  BY EmptySeq
<1>3. EmptyReplica.log = {} /\ \A t \in BackupTables : EmptyReplica.rows[t] = 0
  BY DEF EmptyReplica, NoRevs
<1>4. RestoreTypeOK
  <2>1. here \in Replica /\ there \in Replica /\ expected \in Replica
    BY ExtremesAreReplicas DEF RestoreInit
  <2>2. undo.kept \in BOOLEAN /\ undo.was \in Replica
    BY ExtremesAreReplicas DEF RestoreInit
  <2>3. exchange \in (0 .. Cardinality(BackupTables)) \X (0 .. Cardinality(BackupTables))
    BY <1>1 DEF RestoreInit
  <2>4. /\ unpulled = {} /\ unpushed = {} /\ left = {} /\ settled = FALSE /\ phase = "idle"
        /\ chosen \in Seq(Statement) /\ recovery \in Seq(Statement)
    BY <1>2 DEF RestoreInit
  <2> QED BY <2>1, <2>2, <2>3, <2>4 DEF RestoreTypeOK
<1>5. Documented(chosen) /\ Documented(recovery)
  BY <1>2 DEF RestoreInit, Documented
<1>6. Rooted(here) /\ Rooted(there) /\ Rooted(expected)
  BY ExtremesAreReplicas DEF RestoreInit
<1>7. DifferencesDue
  BY <1>3 DEF RestoreInit, DifferencesDue
<1>8. Converged /\ Recoverable /\ Saving
  BY DEF RestoreInit, Converged, Recoverable, Saving, NoUndo
<1>9. MarksFit
  BY <1>1, <1>3 DEF RestoreInit, MarksFit, ExchangeDue
<1> QED BY <1>4, <1>5, <1>6, <1>7, <1>8, <1>9 DEF RestoreInv

\* What an undo needs is kept when the hub only gets newer.
LEMMA RecoverableStays ==
  ASSUME RestoreTypeOK, Recoverable, undo' = undo, recovery' = recovery, there' \in Replica,
         there.log \subseteq there'.log, \A t \in BackupTables : there'.rows[t] >= there.rows[t]
  PROVE  Recoverable'
<1> SUFFICES ASSUME undo.kept
             PROVE  /\ Complete(recovery)
                    /\ undo.was.log \subseteq Held(recovery).log \cup there'.log
                    /\ \A t \in BackupTables : \/ Held(recovery).rows[t] = undo.was.rows[t]
                                               \/ there'.rows[t] >= undo.was.rows[t]
  BY DEF Recoverable
<1>1. /\ Complete(recovery) /\ undo.was.log \subseteq Held(recovery).log \cup there.log
      /\ \A t \in BackupTables : Held(recovery).rows[t] = undo.was.rows[t] \/ there.rows[t] >= undo.was.rows[t]
  BY DEF Recoverable
<1>2. \A t \in BackupTables : undo.was.rows[t] \in Nat /\ there.rows[t] \in Nat /\ there'.rows[t] \in Nat
  BY RevsAreNaturals DEF RestoreTypeOK, Replica
<1> QED BY <1>1, <1>2

\* What is being saved stays so when the replica is as it was.
LEMMA SavingStays ==
  ASSUME RestoreTypeOK, Saving, here' = here, there' \in Replica, there.log \subseteq there'.log,
         \A t \in BackupTables : there'.rows[t] >= there.rows[t],
         undo' = undo, recovery' = recovery, phase' = phase, left' = left
  PROVE  Saving'
<1> DEFINE s == ReadDump(recovery)
<1> SUFFICES ASSUME phase # "idle" PROVE Saving'
  BY DEF Saving
<1>1. /\ ~undo.kept /\ Whole(recovery, phase = "replacing") /\ Saved(s)
      /\ phase = "replacing" => left = {}
  BY DEF Saving
<1>2. \A t \in BackupTables : here.rows[t] \in Nat /\ there.rows[t] \in Nat /\ there'.rows[t] \in Nat
  BY RevsAreNaturals DEF RestoreTypeOK, Replica
<1> HIDE DEF s
<1>3. /\ s.ok /\ s.began /\ s.logged /\ (s.committed <=> phase = "replacing")
      /\ left \subseteq s.log \cap here.log /\ here.log \subseteq s.log \cup there'.log
      /\ \A t \in left : t \notin s.tables /\ s.rows[t] = 0
      /\ \A t \in BackupTables \ left : s.rows[t] = here.rows[t] \/ there'.rows[t] >= here.rows[t]
  BY <1>1, <1>2 DEF Saved
<1>4. Saved(s)'
  BY <1>3 DEF Saved, s
<1> QED BY <1>1, <1>4 DEF Saving, Whole, s

LEMMA LocalEditKept ==
  ASSUME RestoreInv, NEW t \in BackupTables, LocalEdit(t)
  PROVE  RestoreInv'
<1> DEFINE n == NewestRev + 1
<1>1. RestoreTypeOK /\ here \in Replica /\ there \in Replica
  BY DEF RestoreInv, RestoreTypeOK
<1>2. /\ n \in Revs /\ n \in Nat
      /\ \A u \in BackupTables : /\ here.rows[u] < n /\ there.rows[u] < n
                                 /\ here.rows[u] \in Nat /\ there.rows[u] \in Nat
  <2>1. NewestRev \in Revs /\ \A u \in BackupTables : here.rows[u] <= NewestRev /\ there.rows[u] <= NewestRev
    BY <1>1, NewestIsNewest
  <2>2. \A u \in BackupTables : here.rows[u] \in Nat /\ there.rows[u] \in Nat
    BY <1>1, RevsAreNaturals DEF Replica
  <2>3. NewestRev < MaxStampRev
    BY DEF LocalEdit
  <2> HIDE DEF NewestRev
  <2> QED BY <2>1, <2>2, <2>3, RevsAreNaturals
<1> HIDE DEF n
<1>3. /\ here' = [here EXCEPT !.rows[t] = n] /\ unpushed' = unpushed \cup {t} /\ settled' = FALSE
      /\ phase = "idle" /\ t \in here.log
      /\ UNCHANGED <<there, exchange, unpulled, chosen, recovery, phase, left, expected, undo>>
  BY DEF LocalEdit, n
<1>4. /\ here' \in Replica /\ here'.log = here.log
      /\ \A u \in BackupTables : here'.rows[u] = IF u = t THEN n ELSE here.rows[u]
  BY <1>1, <1>2, <1>3 DEF Replica
<1>5. RestoreTypeOK'
  BY <1>1, <1>3, <1>4 DEF RestoreTypeOK
<1>6. Rooted(here)'
  BY <1>3, <1>4 DEF RestoreInv, Rooted
<1>7. DifferencesDue'
  BY <1>2, <1>3, <1>4 DEF RestoreInv, DifferencesDue
<1>8. MarksFit'
  BY <1>3, <1>4 DEF RestoreInv, MarksFit, ExchangeDue
<1>9. Recoverable'
  BY <1>3 DEF RestoreInv, Recoverable
<1>10. Rooted(there)' /\ Rooted(expected)' /\ Documented(chosen)' /\ Documented(recovery)'
  BY <1>3 DEF RestoreInv, Rooted, Documented
<1> QED BY <1>3, <1>5, <1>6, <1>7, <1>8, <1>9, <1>10 DEF RestoreInv, Converged, Saving

LEMMA LocalTableKept ==
  ASSUME ~MaskedLogs, RestoreInv, NEW t \in BackupTables, LocalTable(t)
  PROVE  RestoreInv'
<1>1. RestoreTypeOK /\ here \in Replica /\ there \in Replica
  BY DEF RestoreInv, RestoreTypeOK
<1>2. /\ here' = [here EXCEPT !.log = @ \cup {t}] /\ settled' = FALSE
      /\ phase = "idle" /\ Unmasked(here.log \cup {t})
      /\ UNCHANGED <<there, exchange, unpulled, unpushed, chosen, recovery, phase, left, expected, undo>>
  BY DEF LocalTable
<1>3. here' \in Replica /\ here'.log = here.log \cup {t} /\ here'.rows = here.rows
  BY <1>1, <1>2 DEF Replica
<1>4. RestoreTypeOK'
  BY <1>1, <1>2, <1>3 DEF RestoreTypeOK
<1>5. Rooted(here)' /\ DifferencesDue'
  BY <1>2, <1>3 DEF RestoreInv, Rooted, DifferencesDue
<1>6. MarksFit'
  BY <1>2, <1>3 DEF RestoreInv, MarksFit, ExchangeDue, Unmasked
<1>7. Recoverable'
  BY <1>2 DEF RestoreInv, Recoverable
<1>8. Rooted(there)' /\ Rooted(expected)' /\ Documented(chosen)' /\ Documented(recovery)'
  BY <1>2 DEF RestoreInv, Rooted, Documented
<1> QED BY <1>2, <1>4, <1>5, <1>6, <1>7, <1>8 DEF RestoreInv, Converged, Saving

LEMMA HubEditKept ==
  ASSUME RestoreInv, NEW t \in BackupTables, HubEdit(t)
  PROVE  RestoreInv'
<1> DEFINE n == NewestRev + 1
<1>1. RestoreTypeOK /\ here \in Replica /\ there \in Replica
  BY DEF RestoreInv, RestoreTypeOK
<1>2. /\ n \in Revs /\ n \in Nat
      /\ \A u \in BackupTables : /\ here.rows[u] < n /\ there.rows[u] < n
                                 /\ here.rows[u] \in Nat /\ there.rows[u] \in Nat
  <2>1. NewestRev \in Revs /\ \A u \in BackupTables : here.rows[u] <= NewestRev /\ there.rows[u] <= NewestRev
    BY <1>1, NewestIsNewest
  <2>2. \A u \in BackupTables : here.rows[u] \in Nat /\ there.rows[u] \in Nat
    BY <1>1, RevsAreNaturals DEF Replica
  <2>3. NewestRev < MaxStampRev
    BY DEF HubEdit
  <2> HIDE DEF NewestRev
  <2> QED BY <2>1, <2>2, <2>3, RevsAreNaturals
<1> HIDE DEF n
<1>3. /\ there' = [there EXCEPT !.rows[t] = n] /\ unpulled' = unpulled \cup {t} /\ settled' = FALSE
      /\ t \in there.log
      /\ UNCHANGED <<here, exchange, unpushed, chosen, recovery, phase, left, expected, undo>>
  BY DEF HubEdit, n
<1>4. /\ there' \in Replica /\ there'.log = there.log
      /\ \A u \in BackupTables : there'.rows[u] = IF u = t THEN n ELSE there.rows[u]
  BY <1>1, <1>2, <1>3 DEF Replica
<1>5. \A u \in BackupTables : there'.rows[u] >= there.rows[u]
  BY <1>2, <1>4
<1>6. RestoreTypeOK'
  BY <1>1, <1>3, <1>4 DEF RestoreTypeOK
<1>7. Rooted(there)'
  BY <1>3, <1>4 DEF RestoreInv, Rooted
<1>8. DifferencesDue'
  BY <1>2, <1>3, <1>4 DEF RestoreInv, DifferencesDue
<1>9. MarksFit'
  BY <1>3, <1>4 DEF RestoreInv, MarksFit, ExchangeDue
<1>10. Recoverable' /\ Saving'
  BY <1>1, <1>3, <1>4, <1>5, RecoverableStays, SavingStays DEF RestoreInv
<1>11. Rooted(here)' /\ Rooted(expected)' /\ Documented(chosen)' /\ Documented(recovery)'
  BY <1>3 DEF RestoreInv, Rooted, Documented
<1> QED BY <1>3, <1>6, <1>7, <1>8, <1>9, <1>10, <1>11 DEF RestoreInv, Converged

LEMMA HubTableKept ==
  ASSUME RestoreInv, NEW t \in BackupTables, HubTable(t)
  PROVE  RestoreInv'
<1>1. RestoreTypeOK /\ here \in Replica /\ there \in Replica
  BY DEF RestoreInv, RestoreTypeOK
<1>2. /\ there' = [there EXCEPT !.log = @ \cup {t}] /\ settled' = FALSE /\ t \notin there.log
      /\ UNCHANGED <<here, exchange, unpulled, unpushed, chosen, recovery, phase, left, expected, undo>>
  BY DEF HubTable
<1>3. there' \in Replica /\ there'.log = there.log \cup {t} /\ there'.rows = there.rows
  BY <1>1, <1>2 DEF Replica
<1>4. \A u \in BackupTables : there'.rows[u] >= there.rows[u]
  BY <1>1, <1>3, RevsAreNaturals DEF Replica
<1>5. RestoreTypeOK'
  BY <1>1, <1>2, <1>3 DEF RestoreTypeOK
<1>6. Rooted(there)' /\ DifferencesDue'
  BY <1>2, <1>3 DEF RestoreInv, Rooted, DifferencesDue
<1>7. MarksFit'
  <2>1. Cardinality(there.log) \in Nat /\ Cardinality(there'.log) = Cardinality(there.log) + 1
    BY <1>1, <1>2, <1>3, Logs DEF Replica
  <2>2. exchange[1] \in Nat /\ exchange[1] <= Cardinality(there.log)
    BY <1>1, RevsAreNaturals DEF RestoreInv, MarksFit, RestoreTypeOK
  <2>3. exchange'[1] < Cardinality(there'.log)
    BY <1>2, <2>1, <2>2
  <2>4. Sizes(here.log, there.log)'[1] = Cardinality(there'.log)
    BY DEF Sizes
  <2>5. (exchange # Sizes(here.log, there.log))'
    BY <1>2, <2>1, <2>2, <2>3, <2>4
  <2> QED BY <1>2, <2>1, <2>2, <2>3, <2>5 DEF MarksFit, ExchangeDue
<1>8. Recoverable' /\ Saving'
  BY <1>1, <1>2, <1>3, <1>4, RecoverableStays, SavingStays DEF RestoreInv
<1>9. Rooted(here)' /\ Rooted(expected)' /\ Documented(chosen)' /\ Documented(recovery)'
  BY <1>2 DEF RestoreInv, Rooted, Documented
<1> QED BY <1>2, <1>5, <1>6, <1>7, <1>8, <1>9 DEF RestoreInv, Converged

\* A round leaves both sides alike, with everything either had.
LEMMA RoundsAgree ==
  ASSUME RestoreInv, SyncRound
  PROVE  /\ here' \in Replica /\ here' = there' /\ Rooted(here')
         /\ here.log \subseteq here'.log /\ there.log \subseteq here'.log
         /\ \A t \in BackupTables : here'.rows[t] >= here.rows[t] /\ here'.rows[t] >= there.rows[t]
<1> DEFINE both == here.log \cup there.log
           logs == IF exchange = Sizes(here.log, there.log) THEN [here |-> here.log, there |-> there.log]
                   ELSE [here |-> here.log \cup there.log, there |-> here.log \cup there.log]
<1>1. here \in Replica /\ there \in Replica
  BY DEF RestoreInv, RestoreTypeOK
<1>2. logs.here = both /\ logs.there = both
  BY DEF RestoreInv, MarksFit, ExchangeDue
<1>3. /\ here' = [log |-> logs.here,
                  rows |-> [t \in BackupTables |->
                              IF t \in logs.here /\ t \in unpulled \cup (logs.here \ here.log)
                              THEN Max2(here.rows[t], there.rows[t]) ELSE here.rows[t]]]
      /\ there' = [log |-> logs.there,
                   rows |-> [t \in BackupTables |->
                               IF t \in unpushed THEN Max2(here.rows[t], there.rows[t]) ELSE there.rows[t]]]
  BY DEF SyncRound
<1> HIDE DEF logs
<1>4. /\ here'.log = both /\ there'.log = both
      /\ \A t \in BackupTables :
           /\ here'.rows[t] = IF t \in both /\ t \in unpulled \cup (both \ here.log)
                              THEN Max2(here.rows[t], there.rows[t]) ELSE here.rows[t]
           /\ there'.rows[t] = IF t \in unpushed THEN Max2(here.rows[t], there.rows[t]) ELSE there.rows[t]
  BY <1>2, <1>3
<1>5. ASSUME NEW t \in BackupTables
      PROVE  /\ here'.rows[t] = there'.rows[t] /\ here'.rows[t] \in Revs
             /\ here'.rows[t] >= here.rows[t] /\ here'.rows[t] >= there.rows[t]
             /\ t \notin both => here'.rows[t] = 0
  <2>1. here.rows[t] \in Revs /\ there.rows[t] \in Revs /\ here.rows[t] \in Nat /\ there.rows[t] \in Nat
    BY <1>1, RevsAreNaturals DEF Replica
  <2>2. /\ there.rows[t] > here.rows[t] => t \in unpulled
        /\ here.rows[t] > there.rows[t] => t \in unpushed
        /\ t \notin here.log => here.rows[t] = 0
        /\ t \notin there.log => there.rows[t] = 0
    BY DEF RestoreInv, DifferencesDue, Rooted
  <2> QED BY <1>4, <2>1, <2>2 DEF Max2
<1>6. here' = there'
  <2>1. here'.rows = there'.rows
    <3>1. here'.rows = [t \in BackupTables |-> here'.rows[t]] /\ there'.rows = [t \in BackupTables |-> there'.rows[t]]
      BY <1>3
    <3> QED BY <1>5, <3>1
  <2> QED BY <1>2, <1>3, <2>1
<1>7. both \subseteq BackupTables
  BY <1>1 DEF Replica
<1>8. here' \in Replica
  <2>1. here'.rows \in [BackupTables -> Revs]
    <3>1. here'.rows = [t \in BackupTables |-> here'.rows[t]]
      BY <1>3
    <3> QED BY <1>5, <3>1
  <2> QED BY <1>2, <1>3, <1>7, <2>1 DEF Replica
<1>9. Rooted(here')
  BY <1>4, <1>5 DEF Rooted
<1> QED BY <1>4, <1>5, <1>6, <1>8, <1>9

LEMMA SyncRoundKept ==
  ASSUME RestoreInv, SyncRound
  PROVE  RestoreInv'
<1>1. RestoreTypeOK /\ here \in Replica /\ there \in Replica
  BY DEF RestoreInv, RestoreTypeOK
<1>2. /\ here' \in Replica /\ here' = there' /\ Rooted(here')
      /\ here.log \subseteq here'.log /\ there.log \subseteq here'.log
      /\ \A t \in BackupTables : here'.rows[t] >= here.rows[t] /\ here'.rows[t] >= there.rows[t]
  BY RoundsAgree
<1>3. /\ exchange' = Sizes(here'.log, there'.log)
      /\ unpulled' \subseteq unpulled /\ unpushed' \subseteq unpushed /\ settled' = TRUE
      /\ UNCHANGED <<chosen, recovery, phase, left, expected, undo>>
  BY DEF SyncRound
<1>4. here'.log \in SUBSET BackupTables
  BY <1>2 DEF Replica
<1>5. Cardinality(here'.log) \in 0 .. Cardinality(BackupTables) /\ Cardinality(here'.log) \in Nat
  BY <1>4, Logs
<1>6. RestoreTypeOK'
  <2>1. exchange' \in (0 .. Cardinality(BackupTables)) \X (0 .. Cardinality(BackupTables))
    BY <1>2, <1>3, <1>5 DEF Sizes
  <2> QED BY <1>1, <1>2, <1>3, <2>1 DEF RestoreTypeOK
<1>7. Rooted(here)' /\ Rooted(there)' /\ Converged'
  BY <1>2 DEF Rooted, Converged
<1>8. DifferencesDue'
  <2>1. \A t \in BackupTables : there'.rows[t] \in Nat /\ here'.rows[t] = there'.rows[t]
    BY <1>2, RevsAreNaturals DEF Replica
  <2> QED BY <2>1 DEF DifferencesDue
<1>9. MarksFit'
  BY <1>2, <1>3, <1>5 DEF MarksFit, ExchangeDue, Sizes
<1>10. Recoverable'
  BY <1>1, <1>2, <1>3, RecoverableStays DEF RestoreInv
<1>11. Saving'
  <2> DEFINE s == ReadDump(recovery)
  <2> SUFFICES ASSUME phase # "idle" PROVE Saving'
    BY <1>3 DEF Saving
  <2>1. /\ ~undo.kept /\ Whole(recovery, phase = "replacing") /\ Saved(s)
        /\ phase = "replacing" => left = {}
    BY DEF RestoreInv, Saving
  <2> HIDE DEF s
  <2>2. \A t \in BackupTables : there'.rows[t] \in Nat /\ here'.rows[t] = there'.rows[t]
    BY <1>2, RevsAreNaturals DEF Replica
  <2>3. /\ s.ok /\ s.began /\ s.logged /\ (s.committed <=> phase = "replacing")
        /\ left \subseteq s.log \cap here'.log /\ here'.log \subseteq s.log \cup there'.log
        /\ \A t \in left : t \notin s.tables /\ s.rows[t] = 0
        /\ \A t \in BackupTables \ left : s.rows[t] = here'.rows[t] \/ there'.rows[t] >= here'.rows[t]
    BY <1>2, <2>1, <2>2 DEF Saved
  <2>4. Saved(s)'
    BY <1>3, <2>3 DEF Saved, s
  <2> QED BY <1>3, <2>1, <2>4 DEF Saving, Whole, s
<1>12. Rooted(expected)' /\ Documented(chosen)' /\ Documented(recovery)'
  BY <1>3 DEF RestoreInv, Rooted, Documented
<1> QED BY <1>6, <1>7, <1>8, <1>9, <1>10, <1>11, <1>12 DEF RestoreInv

LEMMA PickFileKept ==
  ASSUME RestoreInv, PickFile
  PROVE  RestoreInv'
<1>1. RestoreTypeOK /\ here \in Replica /\ there \in Replica /\ recovery \in Seq(Statement)
  BY DEF RestoreInv, RestoreTypeOK
<1>2. UNCHANGED <<here, there, exchange, unpulled, unpushed, settled, recovery, phase, left, expected, undo>>
  BY DEF PickFile
<1>3. chosen' \in Seq(Statement) /\ Documented(chosen')
  <2>1. CASE chosen' = Dump(here)
    BY <1>1, <2>1, DumpsAreDocumented
  <2>2. CASE chosen' = HubDump
    BY <1>1, <2>2, DumpsAreDocumented DEF HubDump
  <2>3. CASE chosen' = recovery
    BY <1>1, <2>3 DEF RestoreInv
  <2>4. CASE chosen' = SubSeq(Dump(here), 1, Len(Dump(here)) - 1)
    <3> DEFINE d == Dump(here)
    <3>1. d \in Seq(Statement) /\ Documented(d)
      BY <1>1, DumpsAreDocumented
    <3>2. chosen' = SubSeq(d, 1, Len(d) - 1)
      BY <2>4
    <3> HIDE DEF d
    <3>3. CASE d = <<>>
      <4>1. SubSeq(d, 1, Len(d) - 1) = <<>>
        BY <3>1, <3>3, LenProperties, EmptySeq, SubSeqEmpty
      <4>2. chosen' = <<>>
        BY <3>2, <4>1
      <4>3. Documented(<<>>) /\ <<>> \in Seq(Statement)
        BY EmptySeq DEF Documented
      <4> QED BY <4>2, <4>3
    <3>4. CASE d # <<>>
      <4>1. Len(d) - 1 \in 0 .. Len(d)
        BY <3>1, <3>4, EmptySeq, LenProperties
      <4> QED BY <3>1, <3>2, <4>1, DocumentedCut
    <3> QED BY <3>3, <3>4
  <2> QED BY <2>1, <2>2, <2>3, <2>4 DEF PickFile
<1>4. RestoreTypeOK'
  BY <1>1, <1>2, <1>3 DEF RestoreTypeOK
<1>5. Rooted(here)' /\ Rooted(there)' /\ Rooted(expected)' /\ Documented(recovery)' /\ Documented(chosen)'
  BY <1>2, <1>3 DEF RestoreInv, Rooted, Documented
<1>6. DifferencesDue' /\ Converged' /\ MarksFit'
  BY <1>2 DEF RestoreInv, DifferencesDue, Converged, MarksFit, ExchangeDue
<1>7. Recoverable' /\ Saving'
  <2>1. \A t \in BackupTables : there.rows[t] >= there.rows[t]
    BY <1>1, RevsAreNaturals DEF Replica
  <2> QED BY <1>1, <1>2, <2>1, RecoverableStays, SavingStays DEF RestoreInv
<1> QED BY <1>4, <1>5, <1>6, <1>7 DEF RestoreInv

LEMMA BeginRestoreKept ==
  ASSUME RestoreInv, BeginRestore
  PROVE  RestoreInv'
<1> DEFINE b == <<Plain("begin")>>
           l == LogPart(here.log)
           d == b \o l
<1>1. RestoreTypeOK /\ here \in Replica /\ there \in Replica /\ here.log \in SUBSET BackupTables /\ chosen \in Seq(Statement)
  BY DEF RestoreInv, RestoreTypeOK, Replica
<1>2. /\ Complete(chosen) /\ phase' = "exporting" /\ expected' = Held(chosen) /\ left' = here.log
      /\ recovery' = d /\ undo' = NoUndo
      /\ UNCHANGED <<here, there, exchange, unpulled, unpushed, settled, chosen>>
  BY DEF BeginRestore
<1>3. /\ b \in Seq(Statement) /\ ToSet(b) = {Plain("begin")} /\ Len(b) = 1 /\ b[1] = Plain("begin")
      /\ Plain("begin").kind = "begin" /\ Plain("log").kind = "log"
  BY Statements DEF ToSet
<1>4. /\ l \in Seq(Statement) /\ \A t \in here.log : Say("entry", t, 0).kind = "entry" /\ Say("entry", t, 0).t = t
      /\ ToSet(l) = {Plain("log")} \cup {Say("entry", t, 0) : t \in here.log}
  BY <1>1, LogPartSays DEF Say
<1>5. ReadDump(d) = LogRead(here.log)
  BY <1>1, LogIsRead
<1> HIDE DEF b, l
<1>6. /\ d \in Seq(Statement) /\ ToSet(d) = ToSet(b) \cup ToSet(l) /\ Len(d) \in Nat /\ Len(d) >= 1 /\ d[1].kind = "begin"
  <2>1. d \in Seq(Statement) /\ Len(d) = Len(b) + Len(l) /\ Len(l) \in Nat /\ d[1] = b[1]
    BY <1>3, <1>4, ConcatProperties, LenProperties
  <2> QED BY <1>3, <1>4, <2>1, MembersConcat
<1> HIDE DEF d
<1>7. \A i \in 1 .. Len(d) : d[i].kind \in {"begin", "log", "entry"} /\ (d[i].kind = "entry" => d[i].t \in here.log)
  <2>1. \A x \in ToSet(d) : x.kind \in {"begin", "log", "entry"} /\ (x.kind = "entry" => x.t \in here.log)
    BY <1>3, <1>4, <1>6
  <2> QED BY <1>6, <2>1, MembersOf
<1>8. Documented(recovery)' /\ Documented(chosen)'
  <2>1. Documented(d)
    BY <1>1, <1>7 DEF Documented
  <2> QED BY <1>2, <2>1 DEF RestoreInv, Documented
<1>9. expected' \in Replica /\ Rooted(expected')
  BY <1>1, <1>2, CompleteHolds DEF RestoreInv
<1>10. RestoreTypeOK'
  BY <1>1, <1>2, <1>6, <1>9, ExtremesAreReplicas DEF RestoreTypeOK
<1>11. Rooted(here)' /\ Rooted(there)' /\ Rooted(expected)'
  BY <1>2, <1>9 DEF RestoreInv, Rooted
<1>12. DifferencesDue' /\ Converged' /\ MarksFit'
  BY <1>2 DEF RestoreInv, DifferencesDue, Converged, MarksFit, ExchangeDue
<1>13. Recoverable'
  BY <1>2, ExtremesAreReplicas DEF Recoverable
<1>14. Saving'
  <2> DEFINE s == LogRead(here.log)
  <2>1. /\ s.ok /\ s.began /\ s.logged /\ ~s.committed /\ s.log = here.log /\ s.tables = {}
        /\ \A t \in BackupTables : s.rows[t] = 0
    BY DEF LogRead, Opening, NoRevs
  <2> HIDE DEF s
  <2>2. \A t \in BackupTables \ here.log : s.rows[t] = here.rows[t]
    BY <2>1 DEF RestoreInv, Rooted
  <2>3. /\ s.ok /\ s.began /\ s.logged /\ (s.committed <=> phase' = "replacing")
        /\ left' \subseteq s.log \cap here'.log /\ here'.log \subseteq s.log \cup there'.log
        /\ \A t \in left' : t \notin s.tables /\ s.rows[t] = 0
        /\ \A t \in BackupTables \ left' : s.rows[t] = here'.rows[t] \/ there'.rows[t] >= here'.rows[t]
    BY <1>1, <1>2, <2>1, <2>2
  <2>4. Saved(ReadDump(recovery))'
    BY <1>2, <1>5, <2>3 DEF Saved, s
  <2>5. Whole(recovery, phase = "replacing")'
    <3>1. d # <<>> /\ \A i \in 1 .. Len(d) : d[i].kind # "commit"
      BY <1>6, <1>7, EmptySeq
    <3> QED BY <1>2, <1>6, <3>1 DEF Whole
  <2>6. ~undo'.kept /\ phase' # "replacing"
    BY <1>2, ExtremesAreReplicas
  <2> QED BY <2>4, <2>5, <2>6 DEF Saving
<1> QED BY <1>8, <1>10, <1>11, <1>12, <1>13, <1>14 DEF RestoreInv

\* The recovery dump gets its commit.
LEMMA ExportEnds ==
  ASSUME RestoreInv, phase = "exporting", left = {}
  PROVE  LET d == Append(recovery, Plain("commit")) IN
         /\ d \in Seq(Statement) /\ Documented(d) /\ Whole(d, TRUE)
         /\ ReadDump(d) = [ReadDump(recovery) EXCEPT !.committed = TRUE]
<1> DEFINE c == Plain("commit")
           s == ReadDump(recovery)
           d == Append(recovery, c)
<1>1. c \in Statement /\ c.kind = "commit" /\ recovery \in Seq(Statement) /\ Documented(recovery)
  BY Statements DEF RestoreInv, RestoreTypeOK
<1>2. Whole(recovery, FALSE) /\ s.ok /\ s.began /\ ~s.committed
  BY DEF RestoreInv, Saving, Saved, Whole
<1> HIDE DEF c, s, d
<1>3. /\ d \in Seq(Statement) /\ Len(recovery) \in Nat /\ Len(d) = Len(recovery) + 1
      /\ d[Len(d)] = c /\ \A k \in 1 .. Len(recovery) : d[k] = recovery[k]
      /\ \A k \in 1 .. Len(d) : k \in 1 .. Len(recovery) \/ k = Len(d)
  BY <1>1, AppendProperties, LenProperties DEF d
<1>4. Documented(d)
  <2>1. <<c>> \in Seq(Statement) /\ ToSet(<<c>>) = {c}
    BY <1>1 DEF ToSet
  <2>2. Documented(recovery \o <<c>>)
    BY <1>1, <2>1, DocumentedConcat
  <2> QED BY <1>1, <2>2, AppendIsConcat DEF d
<1>5. Whole(d, TRUE)
  <2>1. recovery # <<>> => Len(recovery) >= 1
    BY <1>1, EmptySeq
  <2>2. d # <<>>
    BY <1>3, EmptySeq
  <2> QED BY <1>2, <1>3, <2>1, <2>2 DEF Whole
<1>6. ReadDump(d) = AfterReading(s, c)
  BY <1>1, ReadingGoesOn DEF d, s
<1>7. AfterReading(s, c) = [s EXCEPT !.committed = TRUE]
  BY <1>1, <1>2 DEF AfterReading, Accepts
<1> QED BY <1>3, <1>4, <1>5, <1>6, <1>7 DEF c, d, s

\* The recovery dump gets one table more, as it is now.
LEMMA ExportGoesOn ==
  ASSUME RestoreInv, phase = "exporting", NEW t \in left
  PROVE  LET d == recovery \o TablePart(t, here.rows[t])
             s == ReadDump(recovery)
         IN  /\ d \in Seq(Statement) /\ Documented(d) /\ Whole(d, FALSE)
             /\ ReadDump(d) = TableRead(s, t, here.rows[t])
<1> DEFINE p == TablePart(t, here.rows[t])
           s == ReadDump(recovery)
           d == recovery \o p
<1>1. /\ recovery \in Seq(Statement) /\ Documented(recovery) /\ t \in BackupTables /\ here.rows[t] \in Revs
  BY DEF RestoreInv, RestoreTypeOK, Replica
<1>2. /\ Whole(recovery, FALSE) /\ s.ok /\ s.began /\ ~s.committed
      /\ t \in s.log /\ t \notin s.tables /\ s.rows[t] = 0
  BY DEF RestoreInv, Saving, Saved, Whole
<1>3. p \in Seq(Statement) /\ \A x \in ToSet(p) : x.kind \in {"table", "row"} /\ x.t = t
  BY <1>1, Statements
<1>4. ReadDump(d) = TableRead(s, t, here.rows[t])
  <2> DEFINE r == here.rows[t]
  <2>1. /\ r \in Revs /\ ReadDump(recovery).ok /\ ~ReadDump(recovery).committed
        /\ t \notin ReadDump(recovery).tables /\ ReadDump(recovery).rows[t] = 0
    BY <1>1, <1>2
  <2> HIDE DEF r
  <2>2. ReadDump(recovery \o TablePart(t, r)) = TableRead(ReadDump(recovery), t, r)
    BY <1>1, <2>1, TableIsRead
  <2> QED BY <2>2 DEF r
<1>5. Told(recovery, s)
  BY <1>1, ReadingTells
<1> HIDE DEF p, s
<1>6. \E y \in ToSet(recovery) : y.kind = "entry" /\ y.t = t
  <2>1. PICK i \in 1 .. Len(recovery) : recovery[i].kind = "entry" /\ recovery[i].t = t
    BY <1>2, <1>5 DEF Told
  <2> QED BY <1>1, <2>1, MembersOf
<1>7. Documented(d)
  BY <1>1, <1>3, <1>6, DocumentedConcat
<1>8. /\ d \in Seq(Statement) /\ Len(recovery) \in Nat /\ Len(p) \in Nat /\ Len(d) = Len(recovery) + Len(p)
      /\ \A i \in 1 .. Len(recovery) : d[i] = recovery[i]
      /\ \A i \in 1 .. Len(d) : i \in 1 .. Len(recovery) \/ (i - Len(recovery) \in 1 .. Len(p) /\ d[i] = p[i - Len(recovery)])
  BY <1>1, <1>3, ConcatProperties, LenProperties
<1> HIDE DEF d
<1>9. Whole(d, FALSE)
  <2>1. Len(recovery) >= 1
    BY <1>1, <1>2, EmptySeq DEF Whole
  <2>2. d # <<>> /\ d[1].kind = "begin"
    BY <1>2, <1>8, <2>1, EmptySeq DEF Whole
  <2>3. ASSUME NEW i \in 1 .. Len(d) PROVE d[i].kind # "commit"
    <3>1. CASE i \in 1 .. Len(recovery)
      BY <1>2, <1>8, <3>1 DEF Whole
    <3>2. CASE i \notin 1 .. Len(recovery)
      <4>1. d[i] \in ToSet(p)
        BY <1>3, <1>8, <3>2, MembersOf
      <4> QED BY <1>3, <4>1
    <3> QED BY <3>1, <3>2
  <2> QED BY <2>2, <2>3 DEF Whole
<1> QED BY <1>4, <1>7, <1>8, <1>9 DEF d, p, s

LEMMA ExportKept ==
  ASSUME RestoreInv, Export
  PROVE  RestoreInv'
<1> DEFINE s == ReadDump(recovery)
<1>1. RestoreTypeOK /\ here \in Replica /\ there \in Replica /\ recovery \in Seq(Statement) /\ left \subseteq BackupTables
  BY DEF RestoreInv, RestoreTypeOK
<1>2. /\ phase = "exporting"
      /\ UNCHANGED <<here, there, exchange, unpulled, unpushed, settled, chosen, expected, undo>>
  BY DEF Export
<1>3. ~undo.kept /\ Saved(s)
  BY <1>2 DEF RestoreInv, Saving
<1>4. s \in ReadStates
  BY <1>1, ReadingType
<1>5. /\ recovery' \in Seq(Statement) /\ Documented(recovery') /\ Whole(recovery', phase' = "replacing")
      /\ phase' \in {"exporting", "replacing"} /\ left' \subseteq left
      /\ phase' = "replacing" => left' = {}
      /\ Saved(ReadDump(recovery))'
  <2>1. CASE left = {}
    <3>1. phase' = "replacing" /\ recovery' = Append(recovery, Plain("commit")) /\ left' = left
      BY <2>1 DEF Export
    <3>2. /\ recovery' \in Seq(Statement) /\ Documented(recovery') /\ Whole(recovery', TRUE)
          /\ ReadDump(recovery') = [s EXCEPT !.committed = TRUE]
      BY <1>2, <2>1, <3>1, ExportEnds
    <3> HIDE DEF s
    <3> DEFINE u == [s EXCEPT !.committed = TRUE]
    <3>3. /\ u.ok = s.ok /\ u.began = s.began /\ u.logged = s.logged /\ u.committed = TRUE
          /\ u.log = s.log /\ u.tables = s.tables /\ u.rows = s.rows
      BY <1>4 DEF ReadStates
    <3> HIDE DEF u
    <3>4. /\ u.ok /\ u.began /\ u.logged /\ (u.committed <=> phase' = "replacing")
          /\ left' \subseteq u.log \cap here'.log /\ here'.log \subseteq u.log \cup there'.log
          /\ \A t \in left' : t \notin u.tables /\ u.rows[t] = 0
          /\ \A t \in BackupTables \ left' : u.rows[t] = here'.rows[t] \/ there'.rows[t] >= here'.rows[t]
      BY <1>2, <1>3, <3>1, <3>3 DEF Saved
    <3>5. Saved(ReadDump(recovery))'
      BY <3>2, <3>4 DEF Saved, u
    <3> QED BY <2>1, <3>1, <3>2, <3>5
  <2>2. CASE left # {}
    <3> DEFINE t == CHOOSE t \in left : \A other \in left : t <= other
    <3>1. t \in left
      <4>1. left \in SUBSET Nat
        BY <1>1, RevsAreNaturals
      <4>2. \E m \in left : \A k \in left : m <= k
        BY <2>2, <4>1, LeastNatural
      <4> QED BY <4>2
    <3>2. recovery' = recovery \o TablePart(t, here.rows[t]) /\ left' = left \ {t} /\ phase' = phase
      BY <2>2 DEF Export
    <3> HIDE DEF t
    <3> DEFINE u == TableRead(s, t, here.rows[t])
    <3>3. /\ recovery' \in Seq(Statement) /\ Documented(recovery') /\ Whole(recovery', FALSE)
          /\ ReadDump(recovery') = u
      BY <1>2, <3>1, <3>2, ExportGoesOn
    <3> HIDE DEF s
    <3>4. /\ u.ok = s.ok /\ u.began = s.began /\ u.logged = s.logged /\ u.committed = s.committed
          /\ u.log = s.log /\ u.tables = s.tables \cup {t}
          /\ \A o \in BackupTables : u.rows[o] = IF o = t THEN here.rows[t] ELSE s.rows[o]
      BY <1>1, <1>4, <3>1 DEF ReadStates, TableRead
    <3> HIDE DEF u
    <3>5. /\ u.ok /\ u.began /\ u.logged /\ (u.committed <=> phase' = "replacing")
          /\ left' \subseteq u.log \cap here'.log /\ here'.log \subseteq u.log \cup there'.log
          /\ \A o \in left' : o \notin u.tables /\ u.rows[o] = 0
          /\ \A o \in BackupTables \ left' : u.rows[o] = here'.rows[o] \/ there'.rows[o] >= here'.rows[o]
      BY <1>1, <1>2, <1>3, <3>2, <3>4 DEF Saved
    <3>6. Saved(ReadDump(recovery))'
      BY <3>3, <3>5 DEF Saved
    <3> QED BY <1>2, <3>2, <3>3, <3>6
  <2> QED BY <2>1, <2>2
<1>6. Whole(recovery, phase = "replacing")'
  BY <1>5 DEF Whole
<1>7. Saving'
  BY <1>2, <1>3, <1>5, <1>6 DEF Saving
<1>8. RestoreTypeOK'
  BY <1>1, <1>2, <1>5 DEF RestoreTypeOK
<1>9. Rooted(here)' /\ Rooted(there)' /\ Rooted(expected)' /\ Documented(chosen)' /\ Documented(recovery)'
  BY <1>2, <1>5 DEF RestoreInv, Rooted, Documented
<1>10. DifferencesDue' /\ Converged' /\ MarksFit'
  BY <1>2 DEF RestoreInv, DifferencesDue, Converged, MarksFit, ExchangeDue
<1>11. Recoverable'
  BY <1>2, <1>3 DEF Recoverable
<1> QED BY <1>7, <1>8, <1>9, <1>10, <1>11 DEF RestoreInv

LEMMA ReplaceKept ==
  ASSUME ~MaskedLogs, RestoreInv, Replace
  PROVE  RestoreInv'
<1>1. RestoreTypeOK /\ here \in Replica /\ there \in Replica /\ expected \in Replica
  BY DEF RestoreInv, RestoreTypeOK
<1>2. /\ phase = "replacing" /\ Unmasked(expected.log) /\ phase' = "idle"
      /\ chosen' = <<>> /\ expected' = EmptyReplica
      /\ UNCHANGED <<there, exchange, recovery, left>>
  BY DEF Replace
<1>3. Rooted(expected)' /\ Documented(chosen)' /\ Documented(recovery)' /\ Rooted(there)' /\ Saving'
      /\ expected' \in Replica /\ chosen' \in Seq(Statement)
  BY <1>2, ExtremesAreReplicas, EmptySeq DEF RestoreInv, Rooted, Documented, Saving
<1>4. CASE ~(Complete(chosen) /\ Held(chosen) = expected)
  <2>1. UNCHANGED <<here, unpulled, unpushed, undo, settled>>
    BY <1>4 DEF Replace
  <2>2. RestoreTypeOK'
    BY <1>1, <1>2, <1>3, <2>1 DEF RestoreTypeOK
  <2>3. Rooted(here)' /\ DifferencesDue' /\ Converged' /\ MarksFit' /\ Recoverable'
    BY <1>2, <2>1 DEF RestoreInv, Rooted, DifferencesDue, Converged, MarksFit, ExchangeDue, Recoverable
  <2> QED BY <1>3, <2>2, <2>3 DEF RestoreInv
<1>5. CASE Complete(chosen) /\ Held(chosen) = expected
  <2>1. /\ here' = expected /\ unpulled' = BackupTables /\ unpushed' = BackupTables
        /\ undo' = [kept |-> TRUE, was |-> here] /\ settled' = FALSE
    BY <1>5 DEF Replace, Cursors
  <2>2. RestoreTypeOK'
    BY <1>1, <1>2, <1>3, <2>1 DEF RestoreTypeOK
  <2>3. Rooted(here)' /\ DifferencesDue' /\ Converged'
    BY <2>1 DEF RestoreInv, Rooted, DifferencesDue, Converged
  <2>4. MarksFit'
    BY <1>2, <2>1 DEF RestoreInv, MarksFit, ExchangeDue, Unmasked
  <2>5. Recoverable'
    <3> DEFINE s == ReadDump(recovery)
    <3>1. recovery # <<>> /\ Saved(s) /\ left = {}
      BY <1>2 DEF RestoreInv, Saving, Whole
    <3>2. Complete(recovery) /\ Held(recovery) = [log |-> s.log, rows |-> s.rows]
      BY <1>2, <3>1 DEF Complete, Held, Saved
    <3> HIDE DEF s
    <3>3. /\ here.log \subseteq s.log \cup there.log
          /\ \A t \in BackupTables : s.rows[t] = here.rows[t] \/ there.rows[t] >= here.rows[t]
      BY <3>1 DEF Saved
    <3> QED BY <1>2, <2>1, <3>2, <3>3 DEF Recoverable
  <2> QED BY <1>3, <2>2, <2>3, <2>4, <2>5 DEF RestoreInv
<1> QED BY <1>4, <1>5

LEMMA InterruptedKept ==
  ASSUME RestoreInv, Interrupted
  PROVE  RestoreInv'
<1>1. RestoreTypeOK
  BY DEF RestoreInv
<1>2. /\ phase' = "idle" /\ chosen' = <<>> /\ expected' = EmptyReplica /\ left' = {}
      /\ UNCHANGED <<here, there, exchange, unpulled, unpushed, settled, recovery, undo>>
  BY DEF Interrupted
<1>3. RestoreTypeOK'
  BY <1>1, <1>2, ExtremesAreReplicas, EmptySeq DEF RestoreTypeOK
<1>4. /\ Rooted(here)' /\ Rooted(there)' /\ Rooted(expected)' /\ Documented(chosen)' /\ Documented(recovery)' /\ Saving'
  BY <1>2, ExtremesAreReplicas, EmptySeq DEF RestoreInv, Rooted, Documented, Saving
<1>5. DifferencesDue' /\ Converged' /\ MarksFit' /\ Recoverable'
  BY <1>2 DEF RestoreInv, DifferencesDue, Converged, MarksFit, ExchangeDue, Recoverable
<1> QED BY <1>3, <1>4, <1>5 DEF RestoreInv

LEMMA RestoreStepKept ==
  ASSUME ~MaskedLogs, RestoreInv, [RestoreNext]_restoreVars
  PROVE  RestoreInv'
<1>1. CASE \E t \in BackupTables : LocalEdit(t) \/ LocalTable(t) \/ HubEdit(t) \/ HubTable(t)
  BY <1>1, LocalEditKept, LocalTableKept, HubEditKept, HubTableKept
<1>2. CASE SyncRound
  BY <1>2, SyncRoundKept
<1>3. CASE PickFile
  BY <1>3, PickFileKept
<1>4. CASE BeginRestore
  BY <1>4, BeginRestoreKept
<1>5. CASE Export
  BY <1>5, ExportKept
<1>6. CASE Replace
  BY <1>6, ReplaceKept
<1>7. CASE Interrupted
  BY <1>7, InterruptedKept
<1>8. CASE UNCHANGED restoreVars
  BY <1>8 DEF restoreVars, RestoreInv, RestoreTypeOK, Rooted, Documented, DifferencesDue, Converged,
              MarksFit, ExchangeDue, Recoverable, Saving, Saved, Whole
<1> QED BY <1>1, <1>2, <1>3, <1>4, <1>5, <1>6, <1>7, <1>8 DEF RestoreNext

\* A dump that began and did not commit is refused.
LEMMA CutDumpsRefused ==
  ASSUME RestoreInv
  PROVE  CutRefused
<1> SUFFICES ASSUME phase = "replacing", NEW n \in 0 .. Len(recovery) - 1
             PROVE  ~Complete(SubSeq(recovery, 1, n))
  BY DEF CutRefused
<1> DEFINE e == SubSeq(recovery, 1, n)
<1>1. recovery \in Seq(Statement) /\ Documented(recovery) /\ Whole(recovery, TRUE)
  BY DEF RestoreInv, RestoreTypeOK, Saving, Whole
<1>2. Len(recovery) \in Nat /\ n \in Nat /\ n \in 0 .. Len(recovery) /\ n < Len(recovery)
  BY <1>1, LenProperties
<1>3. e \in Seq(Statement) /\ Len(e) = n /\ \A i \in 1 .. n : e[i] = recovery[i]
  BY <1>1, <1>2, SubSeqProperties, LenProperties
<1> HIDE DEF e
<1>4. CASE e = <<>>
  BY <1>4 DEF Complete, e
<1>5. CASE e # <<>>
  <2>1. n >= 1
    BY <1>2, <1>3, <1>5, EmptySeq
  <2>2. e[1].kind = "begin" /\ \A i \in 1 .. Len(e) : e[i].kind # "commit"
    BY <1>1, <1>2, <1>3, <2>1 DEF Whole
  <2>3. Told(e, ReadDump(e))
    BY <1>3, ReadingTells
  <2>4. ReadDump(e).ok => ReadDump(e).began /\ ~ReadDump(e).committed
    BY <1>5, <2>2, <2>3 DEF Told
  <2> QED BY <2>4 DEF Complete, e
<1> QED BY <1>4, <1>5

\* What a restore replaced is in its recovery file or on the hub until the file is written
\* again, a dump cut short anywhere is refused, and a round after it leaves replica and hub
\* alike, however rounds, edits and changing files come between its steps; but for the
\* schema logs the marks of the last exchange mistake for each other (MaskedLogs).
THEOREM RestoresAreSound == ~MaskedLogs => (RestoreSpec => []RestoreSound)
<1> SUFFICES ASSUME ~MaskedLogs PROVE RestoreSpec => []RestoreSound
  OBVIOUS
<1>1. RestoreInit => RestoreInv
  BY RestoreStarts
<1>2. RestoreInv /\ [RestoreNext]_restoreVars => RestoreInv'
  BY RestoreStepKept
<1>3. RestoreInv => RestoreSound
  BY CutDumpsRefused DEF RestoreInv, RestoreSound, MarksFit
<1> QED BY <1>1, <1>2, <1>3, PTL DEF RestoreSpec
=============================================================================
