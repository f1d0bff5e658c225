---------------------------- MODULE CheckedWrite ----------------------------
(***************************************************************************)
(* The hub's checked writes (worker/src/write.js, validate.js, patch.js).    *)
(* D1 has transactional batches but no interactive transactions: a request   *)
(* reads and validates first, and its batch repeats the reads as guards,      *)
(* then writes, then checks every new row with triggers.  A batch that fails  *)
(* is bisected until the rows that fail by themselves are found.             *)
(*                                                                          *)
(* One step is one batch or one read of the database, so requests interleave  *)
(* between preflight and commit.  A row has an ordinary column `a` and a      *)
(* derived column `b` that may only change with a matching provenance        *)
(* record; an enforced rule says that no two rows share an exclusive `a`.     *)
(***************************************************************************)
EXTENDS Integers, SequencesExt

CONSTANTS
  Ids,         \* rows of the table
  Vals,        \* contents of column a
  Exclusive,   \* contents of a that at most one row may have
  Derived,     \* contents of column b
  Sourced,     \* rows whose provenance is written
  MaxRev,      \* bound on revisions
  Reqs,        \* requests in flight
  Offers,      \* what each of them may ask for
  Null, Gone,  \* an empty cell; the contents of a deleted row
  Keep         \* a column the write does not carry

VARIABLES
  tbl,    \* the table
  prov,   \* the provenance record of each row: the contents it vouches for
  q       \* the requests

vars == <<tbl, prov, q>>

\* A sparse write: only the columns it carries, and its revision.
Writes == [id : Ids, rev : 1 .. MaxRev, a : Vals \cup {Gone, Keep}, b : Derived \cup {Keep}]

\* `push` has no history attached and `history` has; `expected` is the revision
\* a patch was made from.  A request carries a row once, as its senders do.
Kinds == {"push", "history", "insert", "patch"}

\* No row twice.
Distinct(ws) == \A j, k \in DOMAIN ws : ws[j].id = ws[k].id => j = k

\* A patch is of one row, and its revision is after the one it was made from.
Offer(o) ==
  /\ o.kind \in Kinds /\ o.rows \in Seq(Writes) \ {<<>>} /\ o.expected \in Nat
  /\ Distinct(o.rows)
  /\ o.kind = "patch" => Len(o.rows) = 1 /\ o.expected < o.rows[1].rev

ASSUME HubAssumption ==
  /\ MaxRev \in Nat
  /\ Exclusive \subseteq Vals /\ Sourced \subseteq Ids
  /\ {Null, Gone, Keep} \cap (Vals \cup Derived) = {}
  /\ \A r \in Reqs : \A o \in Offers[r] : Offer(o)

Absent == [rev |-> 0, a |-> Null, b |-> Null]
IdsOf(ws) == {w.id : w \in ToSet(ws)}

\* `start` and `calm` are history variables: the table when the request began,
\* and whether nothing else has written since.
NoRequest == [pc |-> "idle", kind |-> "push", rows |-> <<>>, expected |-> 0,
              stage |-> "group", todo |-> <<>>, view |-> <<>>, sources |-> <<>>,
              accepted |-> <<>>, rejected |-> {}, existing |-> {},
              start |-> <<>>, calm |-> TRUE]

Init ==
  /\ tbl = [i \in Ids |-> Absent]
  /\ prov = [i \in Ids |-> Null]
  /\ q = [r \in Reqs |-> NoRequest]

-----------------------------------------------------------------------------
(* One row: what is validated before, and checked with, its write. *)

Merged(row, w) == [rev |-> w.rev,
                   a |-> IF w.a = Keep THEN row.a ELSE w.a,
                   b |-> IF w.b = Keep THEN row.b ELSE w.b]

Exists(row) == row.rev # 0
Stale(row, w) == Exists(row) /\ w.rev <= row.rev

\* The provenance record is looked up when the derived column would change.
NeedsSource(row, w) ==
  ~Stale(row, w) /\ Merged(row, w).a # Gone /\ Merged(row, w).b # row.b

\* A deletion is approved as it is.  Otherwise the row as it will be has its
\* required column, and a derived value comes from the contents beside it.
Valid(row, w, source) ==
  \/ Merged(row, w).a = Gone
  \/ /\ Merged(row, w).a # Null
     /\ NeedsSource(row, w) => source = <<Merged(row, w).a, Merged(row, w).b>>

\* The statement of the write changes the row: an upsert the older one, an
\* insert the absent one, a patch whatever is there.
Applies(kind, row, w) ==
  CASE kind = "patch" -> TRUE
    [] kind = "insert" -> ~Exists(row)
    [] OTHER -> w.rev > row.rev

Written(t, kind, ws) ==
  [i \in Ids |-> LET w == CHOOSE w \in ToSet(ws) : w.id = i
                 IN  IF i \in IdsOf(ws) /\ Applies(kind, t[i], w)
                     THEN Merged(t[i], w) ELSE t[i]]

Breaks(t, i) == t[i].a \in Exclusive /\ \E j \in Ids \ {i} : t[j].a = t[i].a

\* Mutant: the rule sees the table as it was before the batch.
MutRuleFails(t, kind, ws) ==
  \E k \in 1 .. Len(ws) :
    /\ Applies(kind, t[ws[k].id], ws[k])
    /\ Breaks(Written(t, kind, <<ws[k]>>), ws[k].id)

\* The triggers fire row by row, and see the rows the batch wrote before.
RuleFails(t, kind, ws) ==
  \E k \in 1 .. Len(ws) :
    /\ Applies(kind, t[ws[k].id], ws[k])
    /\ Breaks(Written(t, kind, SubSeq(ws, 1, k)), ws[k].id)

-----------------------------------------------------------------------------
(* One attempt at a group of rows. *)

\* Mutant: the second half of a failed batch is probed without the first.
MutAttempted(s) == IF s.stage = "final" THEN s.accepted ELSE Head(s.todo)

\* A probe comes after the rows accepted so far; the last attempt is them.
Attempted(s) ==
  CASE s.stage = "probe" -> s.accepted \o Head(s.todo)
    [] s.stage = "final" -> s.accepted
    [] OTHER -> Head(s.todo)

\* insert leaves rows that exist alone.
Present(s) == IF s.kind = "insert" THEN {i \in IdsOf(Attempted(s)) : Exists(s.view[i])} ELSE {}

\* The rows that pass validation.
Fine(s) == {w \in Writes : /\ w.id \notin Present(s)
                          /\ \/ Stale(s.view[w.id], w)
                             \/ Valid(s.view[w.id], w, s.sources[w.id])}

\* The members of `fine` in a sequence, in its order.
Keeping(ws, fine) ==
  LET upTo[k \in 0 .. Len(ws)] ==
        IF k = 0 THEN <<>>
        ELSE IF ws[k] \in fine THEN Append(upTo[k - 1], ws[k]) ELSE upTo[k - 1]
  IN  upTo[Len(ws)]

Passed(s) == Keeping(Attempted(s), Fine(s))

\* Mutant: only the rows are read again, not the provenance behind them.
MutGuarded(s) == \A i \in IdsOf(Attempted(s)) : tbl[i] = s.view[i]

\* Every preflight read has the same answer inside the transaction.
Guarded(s) ==
  /\ \A i \in IdsOf(Attempted(s)) : tbl[i] = s.view[i]
  /\ \A w \in ToSet(Attempted(s)) :
       NeedsSource(s.view[w.id], w) => prov[w.id] = s.sources[w.id]

\* Nothing read for one attempt is used in the next.
Goto(s, pc) == [s EXCEPT !.pc = pc, !.view = <<>>, !.sources = <<>>]

\* The next group; after the probes the rows they accepted, in one batch.
Proceed(s) ==
  CASE s.todo # <<>> -> Goto(s, "read")
    [] s.todo = <<>> /\ s.stage = "probe" /\ s.accepted # <<>> ->
         [Goto(s, "read") EXCEPT !.stage = "final"]
    [] OTHER -> Goto(s, "done")

RejectAll(s) == [Goto(s, "done") EXCEPT !.todo = <<>>, !.accepted = <<>>,
                                        !.rejected = IdsOf(s.rows), !.existing = {}]

\* The rows accepted before must come out accepted again, in the same order.
Diverged(s) == s.stage = "probe" /\ ~IsPrefix(s.accepted, Passed(s))

Succeed(s) ==
  IF Diverged(s) THEN RejectAll(s)
  ELSE Proceed([s EXCEPT
         !.accepted = IF s.stage = "group" THEN @ \o Passed(s) ELSE Passed(s),
         !.rejected = @ \cup (IdsOf(Attempted(s)) \ (IdsOf(Passed(s)) \cup Present(s))),
         !.existing = @ \cup Present(s),
         !.todo = IF @ = <<>> THEN @ ELSE Tail(@)])

Halves(ws) == <<SubSeq(ws, 1, Len(ws) \div 2), SubSeq(ws, Len(ws) \div 2 + 1, Len(ws))>>

\* A group that fails is bisected, a row that fails alone is rejected.  With
\* history attached nothing is written before all that is decided.
Fail(s) ==
  CASE s.stage = "first" -> [Goto(s, "read") EXCEPT !.stage = "probe"]
    [] s.stage = "final" \/ Diverged(s) -> RejectAll(s)
    [] s.stage \in {"group", "probe"} /\ ~Diverged(s) /\ Len(Head(s.todo)) = 1 ->
         Proceed([s EXCEPT !.rejected = @ \cup IdsOf(Head(s.todo)), !.todo = Tail(@)])
    [] OTHER -> [Goto(s, "read") EXCEPT !.todo = Halves(Head(@)) \o Tail(@)]

-----------------------------------------------------------------------------
(* The requests *)

Begin(r) ==
  /\ q[r].pc \in {"idle", "done"}
  /\ \E o \in Offers[r] :
       q' = [q EXCEPT ![r] = [NoRequest EXCEPT
               !.pc = "read", !.kind = o.kind, !.rows = o.rows, !.expected = o.expected,
               !.stage = IF o.kind = "history" THEN "first" ELSE "group",
               !.todo = <<o.rows>>, !.start = tbl]]
  /\ UNCHANGED <<tbl, prov>>

\* Mutant: any revision of the row is patched.
MutExpects(s) == TRUE

\* A patch starts from the live row at the revision its client displayed.
Expects(s) ==
  s.kind = "patch" =>
    \A i \in IdsOf(s.rows) : tbl[i].rev = s.expected /\ tbl[i].a # Gone

\* The rows of the attempt are read.
Read(r) ==
  /\ q[r].pc = "read"
  /\ q' = [q EXCEPT ![r] = IF Expects(@) THEN [@ EXCEPT !.pc = "judge", !.view = tbl]
                                         ELSE RejectAll(@)]
  /\ UNCHANGED <<tbl, prov>>

\* Their provenance is read and they are validated; if none passes, there is
\* nothing to commit.
Judge(r) ==
  LET s == [q[r] EXCEPT !.sources = prov]
  IN  /\ s.pc = "judge"
      /\ q' = [q EXCEPT ![r] = IF Passed(s) = <<>> THEN Succeed(s)
                               ELSE [s EXCEPT !.pc = "commit"]]
      /\ UNCHANGED <<tbl, prov>>

\* The history variables of a request that was interfered with.
Disturbed(s) == IF s.pc = "idle" THEN s ELSE [s EXCEPT !.calm = FALSE, !.start = <<>>]

\* Mutant: a probe is not rolled back.
MutProbe(s) == FALSE

\* A probe is made to fail at its end.
Probe(s) == s.stage = "probe"

\* One transaction: guards, writes, triggers.
Commit(r) ==
  LET s == q[r]
      ok == Guarded(s) /\ ~RuleFails(tbl, s.kind, Passed(s))
  IN  /\ s.pc = "commit"
      /\ tbl' = IF ok /\ ~Probe(s) THEN Written(tbl, s.kind, Passed(s)) ELSE tbl
      /\ q' = [k \in Reqs |-> CASE k = r -> IF ok THEN Succeed(s) ELSE Fail(s)
                               [] k # r /\ tbl' # tbl -> Disturbed(q[k])
                               [] OTHER -> q[k]]
      /\ UNCHANGED prov

\* The request has used up its statements: so has every later attempt.
OutOfBudget(r) ==
  LET s == q[r]
  IN  /\ s.pc \in {"read", "judge", "commit"} /\ s.kind # "patch"
      /\ q' = [q EXCEPT ![r] =
           IF s.kind = "history" THEN Disturbed(RejectAll(s))
           ELSE [Disturbed(Goto(s, "done")) EXCEPT
                   !.todo = <<>>,
                   !.rejected = @ \cup UNION {IdsOf(s.todo[k]) : k \in DOMAIN s.todo}]]
      /\ UNCHANGED <<tbl, prov>>

\* The attached events cannot be matched within the search budget.
Ambiguous(r) ==
  /\ q[r].pc = "judge" /\ q[r].kind = "history"
  /\ Passed([q[r] EXCEPT !.sources = prov]) # <<>>
  /\ q' = [q EXCEPT ![r] = Disturbed(RejectAll(@))]
  /\ UNCHANGED <<tbl, prov>>

\* Any other error, or the end of the worker: no answer.
Abort(r) ==
  /\ q[r].pc \in {"read", "judge", "commit"}
  /\ q' = [q EXCEPT ![r] = NoRequest]
  /\ UNCHANGED <<tbl, prov>>

\* A provenance record is written, by a push of its own.
Derive(i, source) ==
  /\ prov[i] # source
  /\ prov' = [prov EXCEPT ![i] = source]
  /\ q' = [r \in Reqs |-> Disturbed(q[r])]
  /\ UNCHANGED tbl

Next ==
  \/ \E r \in Reqs : Begin(r) \/ Read(r) \/ Judge(r) \/ Commit(r)
  \/ \E r \in Reqs : OutOfBudget(r) \/ Ambiguous(r) \/ Abort(r)
  \/ \E i \in Sourced, a \in Vals, b \in Derived : Derive(i, <<a, b>>)

Spec == Init /\ [][Next]_vars

-----------------------------------------------------------------------------
Sources == {Null} \cup (Vals \X Derived)
Tables == [Ids -> [rev : 0 .. MaxRev, a : Vals \cup {Gone, Null}, b : Derived \cup {Null}]]

TypeOK ==
  /\ tbl \in Tables
  /\ prov \in [Ids -> Sources]
  /\ \A r \in Reqs :
       /\ q[r].pc \in {"idle", "read", "judge", "commit", "done"}
       /\ q[r].kind \in Kinds /\ q[r].stage \in {"group", "first", "probe", "final"}
       /\ ToSet(q[r].rows) \cup ToSet(q[r].accepted) \subseteq Writes
       /\ q[r].rejected \cup q[r].existing \subseteq Ids
       /\ \A k \in DOMAIN q[r].todo : q[r].todo[k] # <<>>
       /\ q[r].pc \in {"judge", "commit"} => q[r].view \in Tables
       /\ q[r].pc = "commit" => q[r].sources \in [Ids -> Sources]

\* An enforced rule about several rows holds of what is committed, whatever
\* order the requests and the rows of their batches come in.
RulesHold == \A i \in Ids : ~Breaks(tbl, i)

\* Whatever order requests and rows come in, what is stored is well typed and
\* keeps the rules (pushChecked's isolation and commit).
BatchesSound == TypeOK /\ RulesHold

\* A derived value is only ever written beside the contents its provenance
\* record, as it is at that moment, was computed from.
DerivedBacked ==
  [][\A i \in Ids : tbl'[i].b # tbl[i].b /\ tbl'[i].a # Gone =>
       prov[i] = <<tbl'[i].a, tbl'[i].b>>]_vars

\* A patch changes the row its client displayed and no later one.
PatchExact ==
  [][\A r \in Reqs : q[r].kind = "patch" /\ q[r].pc = "commit" /\ q'[r].pc = "done" =>
       \A i \in IdsOf(q'[r].accepted) : tbl[i].rev = q[r].expected]_vars

\* The answer says of every row of the request one thing.
EveryRowAnswered ==
  \A r \in Reqs : q[r].pc = "done" =>
    /\ IdsOf(q[r].rows) = IdsOf(q[r].accepted) \cup q[r].rejected \cup q[r].existing
    /\ IdsOf(q[r].accepted) \cap (q[r].rejected \cup q[r].existing) = {}
    /\ q[r].rejected \cap q[r].existing = {}

\* A row that is reported accepted is stored, or one at least as new is: its
\* sender forgets it.
AcceptedStored ==
  \A r \in Reqs : q[r].pc = "done" =>
    \A w \in ToSet(q[r].accepted) : tbl[w.id].rev >= w.rev

\* "no sibling may commit until ALL history decisions are known": a request
\* with history writes in its last step or not at all.
AllOrNothing ==
  [][\A r \in Reqs : q[r].kind = "history" /\ q'[r].pc # q[r].pc /\ tbl' # tbl =>
       q'[r].pc = "done"]_vars

\* Whether a write of one row succeeds after those of `taken`.
Takes(t, source, kind, taken, w) ==
  LET now == Written(t, kind, taken)
  IN  /\ ~(kind = "insert" /\ Exists(t[w.id]))
      /\ \/ Stale(now[w.id], w)
         \/ Valid(now[w.id], w, source[w.id]) /\ ~RuleFails(now, kind, <<w>>)

\* The rows one-by-one writes would accept, in the order of the request: what
\* the isolation of a batch stands for.
OneByOne(t, source, kind, ws) ==
  LET upTo[k \in 0 .. Len(ws)] ==
        IF k = 0 THEN <<>>
        ELSE IF Takes(t, source, kind, upTo[k - 1], ws[k])
             THEN Append(upTo[k - 1], ws[k]) ELSE upTo[k - 1]
  IN  upTo[Len(ws)]

\* Bisection rejects exactly the rows that fail by themselves: when nothing
\* interferes, a request accepts what one-by-one writes would.
IsolationExact ==
  \A r \in Reqs : q[r].pc = "done" /\ q[r].calm /\ q[r].kind # "patch" =>
    q[r].accepted = OneByOne(q[r].start, prov, q[r].kind, q[r].rows)

\* What a client is told of its rows is right: each is answered once, an
\* accepted one is stored, and with nobody else at work the accepted ones are
\* those one-by-one writes would accept.
AnswerExact == EveryRowAnswered /\ AcceptedStored /\ IsolationExact
=============================================================================
