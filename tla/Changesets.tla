----------------------------- MODULE Changesets -----------------------------
(***************************************************************************)
(* Governed changesets of the hub (worker/src/changeset.js,                   *)
(* changeset-governance.js, changeset-store.js, and the purge of what they     *)
(* keep in purge.js).  A preview reads whole tables and seals what it read in  *)
(* a token; a proposal keeps that reading; an approval reads again, requires   *)
(* the same reading, and writes the rows, the proposal's state and the         *)
(* request's receipt in one batch that repeats every read as a guard.          *)
(*                                                                          *)
(* Requests carry an idempotency key and are sent again until they are         *)
(* answered, so two handlers may work for the same key.  One step is one read  *)
(* or one batch; a handler may end at any of them.                            *)
(***************************************************************************)
EXTENDS Integers, FiniteSets

CONSTANTS
  CsRows,        \* rows of the table
  CsTargets,     \* those the changeset writes
  Keys,          \* idempotency keys, each used for one request
  Handlers,      \* requests being handled at once
  MaxRevision,   \* bound on writes of rows
  MaxPurges      \* bound on purges

ASSUME ChangesetAssumption ==
  CsTargets \subseteq CsRows /\ MaxRevision \in Nat \ {0} /\ MaxPurges \in Nat

VARIABLES
  rev,       \* per row its revision; negative: purged, with that invalidation
  latest,    \* the last revision or invalidation given out
  ask,       \* per key the request its client made, and what its token holds
  prop,      \* _governance_changesets: the proposal that a key created
  receipt,   \* _governance_changeset_receipts
  handler,   \* handlers at work
  told,      \* per key, the final answers its client was given
  applied,   \* history: the changesets written, with the rows as they were
  purged     \* history: per row its last purge

csVars == <<rev, latest, ask, prop, receipt, handler, told, applied, purged>>

-----------------------------------------------------------------------------
Top == MaxRevision + MaxPurges
Reading == [CsRows -> -Top .. Top]
Unread == [r \in CsRows |-> 0]
NoKey == "no key"
NoAsk == [op |-> "none", prop |-> NoKey, reads |-> Unread, late |-> FALSE]
NoProposal == [state |-> "none", reads |-> Unread]
NoReceipt == [kind |-> "none", reads |-> Unread]
NotHandling == [pc |-> "idle", key |-> NoKey, reads |-> Unread]

CsInit ==
  /\ rev = [r \in CsRows |-> 1]
  /\ ask = [k \in Keys |-> NoAsk]
  /\ prop = [k \in Keys |-> NoProposal]
  /\ receipt = [k \in Keys |-> NoReceipt]
  /\ handler = [h \in Handlers |-> NotHandling]
  /\ told = [k \in Keys |-> {}]
  /\ applied = {} /\ latest = 1 /\ purged = [r \in CsRows |-> 0]

-----------------------------------------------------------------------------
(* Clients *)

\* A new changeset is previewed, and proposed with the token of the preview.
AskCreate(k) ==
  /\ ask[k].op = "none"
  /\ ask' = [ask EXCEPT ![k] = [op |-> "create", prop |-> k, reads |-> rev, late |-> FALSE]]
  /\ UNCHANGED <<rev, latest, prop, receipt, handler, told, applied, purged>>

\* A pending proposal whose reading still holds is previewed, and approved with
\* the token of that preview.
AskApprove(k, p) ==
  /\ ask[k].op = "none" /\ prop[p].state = "pending" /\ prop[p].reads = rev
  /\ ask' = [ask EXCEPT ![k] = [op |-> "approve", prop |-> p, reads |-> rev, late |-> FALSE]]
  /\ UNCHANGED <<rev, latest, prop, receipt, handler, told, applied, purged>>

AskReject(k, p) ==
  /\ ask[k].op = "none" /\ prop[p].state = "pending"
  /\ ask' = [ask EXCEPT ![k] = [op |-> "reject", prop |-> p, reads |-> Unread, late |-> FALSE]]
  /\ UNCHANGED <<rev, latest, prop, receipt, handler, told, applied, purged>>

\* Five minutes pass.
TokenExpires(k) ==
  /\ ask[k].op \in {"create", "approve"} /\ ~ask[k].late
  /\ ask' = [ask EXCEPT ![k].late = TRUE]
  /\ UNCHANGED <<rev, latest, prop, receipt, handler, told, applied, purged>>

\* The request reaches a handler, for the first time or again.
Dispatch(h, k) ==
  /\ handler[h].pc = "idle" /\ ask[k].op # "none" /\ told[k] = {}
  /\ handler' = [handler EXCEPT ![h] = [NotHandling EXCEPT !.pc = "replay", !.key = k]]
  /\ UNCHANGED <<rev, latest, ask, prop, receipt, told, applied, purged>>

-----------------------------------------------------------------------------
(* The handler *)

HandlerGoes(h, pc) == handler' = [handler EXCEPT ![h].pc = pc]

\* Its answer, and the end of its work.
Answers(h, kind) ==
  /\ told' = [told EXCEPT ![handler[h].key] = @ \cup {kind}]
  /\ handler' = [handler EXCEPT ![h] = NotHandling]

\* The receipt of the key answers; without one the work is done, or settled.
Replay(h) ==
  LET k == handler[h].key
  IN  /\ handler[h].pc \in {"replay", "recover"}
      /\ IF receipt[k].kind # "none" THEN Answers(h, receipt[k].kind)
         ELSE HandlerGoes(h, IF handler[h].pc = "replay" THEN "load" ELSE "settle") /\ UNCHANGED told
      /\ UNCHANGED <<rev, latest, ask, prop, receipt, applied, purged>>

\* The proposal is still there and pending, and the token in time.
Load(h) ==
  LET q == ask[handler[h].key]
  IN  /\ handler[h].pc = "load"
      /\ HandlerGoes(h, IF q.op # "create" /\ prop[q.prop].state = "purged" THEN "gone"
                 ELSE IF q.late \/ (q.op # "create" /\ prop[q.prop].state # "pending") THEN "settle"
                 ELSE IF q.op = "reject" THEN "commit" ELSE "plan")
      /\ UNCHANGED <<rev, latest, ask, prop, receipt, told, applied, purged>>

\* The tables are read again and the changes prepared; they must be those of
\* the token, and of the proposal.
Plan(h) ==
  LET q == ask[handler[h].key]
      fits == rev = q.reads /\ (q.op = "approve" => prop[q.prop].reads = rev)
  IN  /\ handler[h].pc = "plan"
      /\ handler' = [handler EXCEPT ![h].pc = IF fits THEN "commit" ELSE "settle",
                                    ![h].reads = IF fits THEN rev ELSE Unread]
      /\ UNCHANGED <<rev, latest, ask, prop, receipt, told, applied, purged>>

\* Mutant: the rows are not guarded, only the proposal.
MutGuarded(h) ==
  LET q == ask[handler[h].key] IN q.op = "create" \/ prop[q.prop].state = "pending"

\* The reads of the handler, repeated in the batch.
Guarded(h) ==
  LET q == ask[handler[h].key]
  IN  /\ q.op = "reject" \/ rev = handler[h].reads
      /\ q.op = "create" \/ prop[q.prop].state = "pending"

\* Mutant: the receipt is written when the rows are, whatever its key.
MutFirstReceipt(k) == TRUE

\* The primary key excludes every late execution of that key.
FirstReceipt(k) == receipt[k].kind = "none"

\* Guards, rows, proposal and receipt in one batch.  An approval is answered
\* from its receipt.
CommitSet(h) ==
  LET k == handler[h].key
      q == ask[k]
  IN  /\ handler[h].pc = "commit"
      /\ q.op = "approve" => latest < Top
      /\ IF ~(Guarded(h) /\ FirstReceipt(k))
         THEN HandlerGoes(h, "recover") /\ UNCHANGED <<rev, latest, prop, receipt, told, applied>>
         ELSE /\ receipt' = [receipt EXCEPT ![k] = [kind |-> "done", reads |-> handler[h].reads]]
              /\ IF q.op = "approve"
                 THEN /\ latest' = latest + 1
                      /\ rev' = [r \in CsRows |-> IF r \in CsTargets THEN latest + 1 ELSE rev[r]]
                      /\ applied' = applied \cup {[key |-> k, prop |-> q.prop, before |-> rev]}
                      /\ prop' = [prop EXCEPT ![q.prop].state = "approved"]
                      /\ HandlerGoes(h, "replay") /\ UNCHANGED told
                 ELSE /\ prop' = IF q.op = "reject" THEN [prop EXCEPT ![q.prop].state = "rejected"]
                                 ELSE [prop EXCEPT ![k] = [state |-> "pending", reads |-> handler[h].reads]]
                      /\ Answers(h, "done") /\ UNCHANGED <<rev, latest, applied>>
      /\ UNCHANGED <<ask, purged>>

\* A refusal is final once its receipt says so; another's receipt answers first.
SettleSet(h) ==
  LET k == handler[h].key
      kind == IF handler[h].pc = "gone" THEN "gone" ELSE "refused"
  IN  /\ handler[h].pc \in {"settle", "gone"}
      /\ IF FirstReceipt(k)
         THEN receipt' = [receipt EXCEPT ![k] = [NoReceipt EXCEPT !.kind = kind]] /\ Answers(h, kind)
         ELSE Answers(h, receipt[k].kind) /\ UNCHANGED receipt
      /\ UNCHANGED <<rev, latest, ask, prop, applied, purged>>

\* The handler ends, or its answer is lost.
Dies(h) ==
  /\ handler[h].pc # "idle"
  /\ handler' = [handler EXCEPT ![h] = NotHandling]
  /\ UNCHANGED <<rev, latest, ask, prop, receipt, told, applied, purged>>

-----------------------------------------------------------------------------
(* Everyone else *)

Write(r) ==
  /\ latest < MaxRevision
  /\ latest' = latest + 1 /\ rev' = [rev EXCEPT ![r] = latest + 1]
  /\ UNCHANGED <<ask, prop, receipt, handler, told, applied, purged>>

\* Mutant: the proposals are purged, the receipts kept.
MutRedacted(k) == receipt[k]

\* A refusal of a purged proposal names no row and stays.
Redacted(k) ==
  IF receipt[k].kind \in {"none", "gone"} THEN receipt[k] ELSE [NoReceipt EXCEPT !.kind = "purged"]

\* A row is purged, with every proposal and receipt that may depend on it.
Purge(r) ==
  /\ Cardinality({s \in CsRows : purged[s] # 0}) < MaxPurges /\ latest < Top /\ rev[r] > 0
  /\ latest' = latest + 1
  /\ rev' = [rev EXCEPT ![r] = -(latest + 1)]
  /\ purged' = [purged EXCEPT ![r] = latest + 1]
  /\ prop' = [k \in Keys |-> IF prop[k].state = "none" THEN prop[k] ELSE [NoProposal EXCEPT !.state = "purged"]]
  /\ receipt' = [k \in Keys |-> Redacted(k)]
  /\ UNCHANGED <<ask, handler, told, applied>>

-----------------------------------------------------------------------------
CsNext ==
  \/ \E k \in Keys : AskCreate(k) \/ TokenExpires(k)
  \/ \E k, p \in Keys : AskApprove(k, p) \/ AskReject(k, p)
  \/ \E h \in Handlers, k \in Keys : Dispatch(h, k)
  \/ \E h \in Handlers : Replay(h) \/ Load(h) \/ Plan(h) \/ CommitSet(h) \/ SettleSet(h) \/ Dies(h)
  \/ \E r \in CsRows : Write(r) \/ Purge(r)

CsSpec == CsInit /\ [][CsNext]_csVars

-----------------------------------------------------------------------------
CsTypeOK ==
  /\ rev \in Reading /\ latest \in 1 .. Top /\ purged \in [CsRows -> 0 .. Top]
  /\ ask \in [Keys -> [op : {"none", "create", "approve", "reject"}, prop : Keys \cup {NoKey}, reads : Reading, late : BOOLEAN]]
  /\ prop \in [Keys -> [state : {"none", "pending", "approved", "rejected", "purged"}, reads : Reading]]
  /\ receipt \in [Keys -> [kind : {"none", "done", "refused", "gone", "purged"}, reads : Reading]]
  /\ handler \in [Handlers -> [pc : {"idle", "replay", "load", "plan", "commit", "recover", "settle", "gone"},
                               key : Keys \cup {NoKey}, reads : Reading]]

\* A proposal is written once at most, by one key, from exactly the rows its
\* approver was shown, and never after it was rejected.
ApprovedAsShown ==
  \A a \in applied :
    /\ a.before = ask[a.key].reads
    /\ \A b \in applied : b.prop = a.prop \/ b.key = a.key => b = a
    /\ prop[a.prop].state \in {"approved", "purged"}
    /\ \A k \in Keys : ask[k].op = "reject" /\ ask[k].prop = a.prop => receipt[k].kind # "done"

\* What a client was told of its key is what happened, and it is told one
\* thing: done if it was done, and refused only if it never will be.
ToldTrue ==
  \A k \in Keys :
    /\ \E kind \in {"done", "refused", "gone"} : told[k] \subseteq {kind, "purged"}
    /\ \A kind \in told[k] : receipt[k].kind \in {kind, "purged"}
    /\ receipt[k].kind = "done" /\ ask[k].op = "approve" <=>
         (\E a \in applied : a.key = k) /\ receipt[k].kind # "purged"
    /\ told[k] \cap {"refused", "gone"} # {} => \A a \in applied : a.key # k

\* After a purge no proposal and no receipt holds what was read before it.
Erased ==
  \A k \in Keys, r \in CsRows :
    /\ prop[k].state \in {"pending", "approved", "rejected"} => prop[k].reads[r] >= purged[r] \/ prop[k].reads[r] = -purged[r]
    /\ receipt[k].kind = "done" /\ ask[k].op # "reject" => receipt[k].reads[r] >= purged[r] \/ receipt[k].reads[r] = -purged[r]

\* The protocol of a changeset is right in all its parts.
ChangesetsSound == CsTypeOK /\ ApprovedAsShown /\ ToldTrue /\ Erased
=============================================================================
