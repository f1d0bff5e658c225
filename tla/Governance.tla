----------------------------- MODULE Governance -----------------------------
(***************************************************************************)
(* Reviewed inverses of one row's history (worker/src/governance.js,         *)
(* governance-preview.js, governance-evidence.js, governance-continuity.js,   *)
(* governance-proposals.js, governance-store.js, core/src/governance.ts).     *)
(*                                                                          *)
(* A checked write records each changed cell as a typed event that names the  *)
(* event before it; heads say where each column's chain ends.  Whatever        *)
(* changes a row or its history in another way breaks the chain.  A preview    *)
(* turns selected events into the values before them when an unbroken chain    *)
(* leads from the present value to all of them and to nothing else; a user     *)
(* approves that proposal version, and one batch writes row, proposal and       *)
(* receipt under the guard of everything the plan read.                        *)
(***************************************************************************)
EXTENDS Integers, Sequences, FiniteSets

CONSTANTS
  Cols,        \* columns of the row
  Values,      \* what a cell may hold
  Requests,    \* idempotency keys
  MaxLog,      \* bound on changes of cells
  MaxStamp,    \* bound on changes of what plans read
  MaxVersions  \* bound on versions of a proposal

ASSUME GovernanceAssumption ==
  IsFiniteSet(Cols) /\ IsFiniteSet(Requests) /\ {MaxLog, MaxStamp, MaxVersions} \subseteq Nat

VARIABLES
  val,       \* the row
  rowRev,    \* its revision
  log,       \* history: every change of a cell; "event" has typed evidence
  head,      \* _governance_heads: the last event of an unbroken chain, or 0
  guards,    \* the continuity triggers are installed
  stamp,     \* changes of row, revision, history, heads, invalidations, guards
  asked,     \* per key the request its client made, with its token
  plans,     \* per key the states its handlers have planned the commit from
  proposal,  \* _governance_proposals and _governance_versions, by creating key
  reply,     \* _governance_receipts
  done,      \* history: the approved writes
  erased     \* history: per column the end of the log at its last purge

rowVars == <<val, rowRev, log, head, guards>>
govVars == <<val, rowRev, log, head, guards, stamp, asked, plans, proposal, reply, done, erased>>

-----------------------------------------------------------------------------
NoProposer == "no key"
NoAskYet == [op |-> "none", prop |-> NoProposer, ver |-> 0, sel |-> {}, stamp |-> 0]
NoProposalYet == [state |-> "none", ver |-> 0, sel |-> {}, base |-> 0, all |-> {}]
NoReply == [kind |-> "none", sel |-> {}, prop |-> NoProposer]

GovInit ==
  /\ val \in [Cols -> Values] /\ rowRev = 0 /\ log = <<>> /\ head = [c \in Cols |-> 0]
  /\ guards = TRUE /\ stamp = 0
  /\ asked = [k \in Requests |-> NoAskYet]
  /\ plans = [k \in Requests |-> {}]
  /\ proposal = [k \in Requests |-> NoProposalYet]
  /\ reply = [k \in Requests |-> NoReply]
  /\ done = {} /\ erased = [c \in Cols |-> 0]

-----------------------------------------------------------------------------
(* Evidence *)

ColsOf(sel) == {log[i].col : i \in sel}

IsEvent(i) == i \in DOMAIN log /\ log[i].kind = "event"

\* S holds the column's head and, with an event, the one before it.
Leads(c, S) ==
  /\ IsEvent(head[c]) => head[c] \in S
  /\ \A i \in S : IsEvent(log[i].prev) => log[i].prev \in S

\* The events that lead back from the head of a column.
Chain(c) == {i \in DOMAIN log : \A S \in SUBSET DOMAIN log : Leads(c, S) => i \in S}

FirstPicked(c, sel) == CHOOSE i \in sel : log[i].col = c /\ \A j \in sel : log[j].col = c => i <= j

\* Mutant: later changes that are not selected are passed over.
MutOnly(c, sel) == {i \in Chain(c) : i >= FirstPicked(c, sel)} \cap sel # {}

\* No unselected event of the column since the first selected one.
Only(c, sel) == {i \in Chain(c) : i >= FirstPicked(c, sel)} = {i \in sel : log[i].col = c}

\* The present value is where the chain leads.
HeadCurrent(c) == head[c] # 0 /\ log[head[c]].after = val[c]

\* The selected events can be undone, and something would change.
Reversible(sel) ==
  /\ guards /\ sel # {} /\ sel \subseteq 1 .. Len(log)
  /\ \A c \in ColsOf(sel) : Only(c, sel) /\ HeadCurrent(c)
  /\ \E c \in ColsOf(sel) : log[FirstPicked(c, sel)].before # val[c]

InverseOf(sel) == [c \in Cols |-> IF c \in ColsOf(sel) THEN log[FirstPicked(c, sel)].before ELSE val[c]]

-----------------------------------------------------------------------------
(* Writes of the row *)

\* The log after the cells of row v replace the present ones.
Logged(v, kind) ==
  LET changed == {c \in Cols : v[c] # val[c]}
      entry(c) == [col |-> c, before |-> val[c], after |-> v[c], kind |-> kind,
                   prev |-> IF kind = "event" THEN head[c] ELSE 0]
  IN  IF changed = {} THEN {log}
      ELSE {log \o [n \in 1 .. Cardinality(changed) |-> entry(order[n])] :
              order \in {f \in [1 .. Cardinality(changed) -> changed] : \A m, n \in DOMAIN f : f[m] = f[n] => m = n}}

Last(c, l) == CHOOSE i \in Len(log) + 1 .. Len(l) : l[i].col = c

\* The inputs of a write: one cell changes.
Changes(v) == \E c \in Cols, x \in Values : x # val[c] /\ v = [val EXCEPT ![c] = x]

\* A checked write: its triggers record every cell that changes.
Tracked(v) ==
  /\ Len(log) + Cardinality({c \in Cols : v[c] # val[c]}) <= MaxLog
  /\ \E l \in Logged(v, "event") :
       /\ log' = l
       /\ head' = [c \in Cols |-> IF v[c] # val[c] THEN Last(c, l) ELSE head[c]]
  /\ val' = v /\ rowRev' = rowRev + 1 /\ stamp' = stamp + 1
  /\ UNCHANGED guards

Bounded == stamp < MaxStamp /\ Len(log) < MaxLog

\* Without the guards a checked write keeps its plain history only.
CheckedWrite(v) ==
  /\ Bounded /\ Changes(v)
  /\ IF guards THEN Tracked(v)
     ELSE /\ log' \in Logged(v, "plain") /\ Len(log') <= MaxLog /\ val' = v /\ rowRev' = rowRev + 1 /\ stamp' = stamp + 1
          /\ UNCHANGED <<head, guards>>
  /\ UNCHANGED <<asked, plans, proposal, reply, done, erased>>

\* Heads of the cells that change without an event of this hub.
Broken(v) == [c \in Cols |-> IF v[c] # val[c] THEN 0 ELSE head[c]]

\* A push whose own history explains the change: the facts are kept, untyped.
ExplainedPush(v) ==
  /\ Bounded /\ Changes(v) /\ guards
  /\ log' \in Logged(v, "plain") /\ Len(log') <= MaxLog
  /\ head' = Broken(v)
  /\ val' = v /\ rowRev' = rowRev + 1 /\ stamp' = stamp + 1
  /\ UNCHANGED <<guards, asked, plans, proposal, reply, done, erased>>

\* Another program's statement, a trigger or a derivation: the row's chains end
\* at the continuity triggers, where there are any.
OtherWrite(v) ==
  /\ Bounded /\ Changes(v)
  /\ log' \in Logged(v, "plain") /\ Len(log') <= MaxLog
  /\ head' = IF guards THEN [c \in Cols |-> 0] ELSE head
  /\ val' = v /\ rowRev' \in {rowRev, rowRev + 1} /\ stamp' = stamp + 1
  /\ UNCHANGED <<guards, asked, plans, proposal, reply, done, erased>>

\* A schema change drops the guards, or alters the table under them.
LoseGuards ==
  /\ stamp < MaxStamp /\ guards
  /\ guards' = FALSE /\ stamp' = stamp + 1
  /\ UNCHANGED <<val, rowRev, log, head, asked, plans, proposal, reply, done, erased>>

\* A missing guard is a gap in every chain of the table.
Kept(c) == 0

EnsureGuards ==
  /\ stamp < MaxStamp /\ ~guards
  /\ guards' = TRUE /\ head' = [c \in Cols |-> Kept(c)] /\ stamp' = stamp + 1
  /\ UNCHANGED <<val, rowRev, log, asked, plans, proposal, reply, done, erased>>

\* A row of history is edited or deleted: its evidence goes, and its column's chain.
EditHistory(i) ==
  /\ stamp < MaxStamp /\ log[i].kind = "event"
  /\ log' = [log EXCEPT ![i].kind = "plain"]
  /\ head' = [head EXCEPT ![log[i].col] = 0]
  /\ stamp' = stamp + 1
  /\ UNCHANGED <<val, rowRev, guards, asked, plans, proposal, reply, done, erased>>

-----------------------------------------------------------------------------
(* Requests *)

Asks(k, op, p, ver, sel) ==
  /\ asked[k].op = "none"
  /\ asked' = [asked EXCEPT ![k] = [op |-> op, prop |-> p, ver |-> ver, sel |-> sel, stamp |-> stamp]]
  /\ UNCHANGED <<val, rowRev, log, head, guards, stamp, plans, proposal, reply, done, erased>>

\* A new inverse is previewed; its token asks for a proposal, or for a new
\* version of one.
AskPropose(k, sel) == Reversible(sel) /\ Asks(k, "create", k, 0, sel)
AskEdit(k, p, sel) == proposal[p].state = "pending" /\ Reversible(sel) /\ Asks(k, "edit", p, proposal[p].ver, sel)

\* A pending proposal is previewed: it still starts from the row's revision.
AskApproval(k, p) ==
  /\ proposal[p].state = "pending" /\ Reversible(proposal[p].sel) /\ proposal[p].base = rowRev
  /\ Asks(k, "approve", p, proposal[p].ver, proposal[p].sel)

AskRejection(k, p) == proposal[p].state = "pending" /\ Asks(k, "reject", p, proposal[p].ver, {})

-----------------------------------------------------------------------------
(* The handler *)

\* The proposal is still pending in the version the request names.
Stands(q) == q.op = "create" \/ (proposal[q.prop].state = "pending" /\ proposal[q.prop].ver = q.ver)

\* The token's plan is what a plan of today gives.
Same(q) ==
  q.op = "reject" \/ (/\ Reversible(q.sel) /\ q.stamp = stamp
                      /\ q.op = "approve" => proposal[q.prop].base = rowRev /\ proposal[q.prop].sel = q.sel)

\* A handler reads and plans the commit; the request may be sent again, so
\* several do.
Serve(k) ==
  /\ asked[k].op \notin {"none", "answered"}
  /\ Stands(asked[k]) /\ Same(asked[k])
  /\ plans' = [plans EXCEPT ![k] = @ \cup {stamp}]
  /\ UNCHANGED <<val, rowRev, log, head, guards, stamp, asked, proposal, reply, done, erased>>

\* Mutant: only the proposal is guarded.
MutUnmoved(k, at) == TRUE

\* Everything the plan read still reads the same.
Unmoved(k, at) == at = stamp \/ asked[k].op = "reject"

\* The answer of the key, kept in its receipt; the request is sent no more.
Receipt(k, kind, sel) ==
  /\ reply' = [reply EXCEPT ![k] = [kind |-> kind, sel |-> sel, prop |-> asked[k].prop]]
  /\ asked' = [asked EXCEPT ![k] = [NoAskYet EXCEPT !.op = "answered"]]
  /\ plans' = [plans EXCEPT ![k] = {}]

\* Row, proposal and receipt in one batch.
CommitAsk(k, at) ==
  LET q == asked[k] p == q.prop
  IN  /\ at \in plans[k]
      /\ Unmoved(k, at) /\ Stands(q)
      /\ Receipt(k, "done", IF q.op = "reject" THEN proposal[p].sel ELSE q.sel)
      /\ \/ /\ q.op = "approve"
            /\ Tracked(InverseOf(q.sel))
            /\ proposal' = [proposal EXCEPT ![p].state = "approved"]
            /\ done' = done \cup {[prop |-> p, ver |-> q.ver, sel |-> q.sel, at |-> Len(log)]}
         \/ /\ q.op = "reject"
            /\ proposal' = [proposal EXCEPT ![p].state = "rejected"]
            /\ UNCHANGED <<rowVars, stamp, done>>
         \/ /\ q.op \in {"create", "edit"} /\ proposal[p].ver < MaxVersions
            /\ proposal' = [proposal EXCEPT ![p] = [state |-> "pending", ver |-> @.ver + 1, sel |-> q.sel, base |-> rowRev,
                                                    all |-> @.all \cup q.sel]]
            /\ UNCHANGED <<rowVars, stamp, done>>
      /\ UNCHANGED erased

\* A handler refuses: the plan or the batch does not stand, or the token has run
\* out, which it may at any time.  The receipt makes it final and keeps no field.
Conclude(k) ==
  /\ asked[k].op \notin {"none", "answered"}
  /\ asked[k].op = "reject" => ~Stands(asked[k])
  /\ Receipt(k, "refused", {})
  /\ UNCHANGED <<val, rowRev, log, head, guards, stamp, proposal, done, erased>>

\* Every version of an affected proposal counts, later edited columns too.
Touches(p, c) == c \in ColsOf(proposal[p].all)

\* A column's history is purged, with every proposal and receipt that shows it.
PurgeHistory(c) ==
  /\ stamp < MaxStamp /\ erased[c] = 0
  /\ \E i \in DOMAIN log : log[i].col = c
  /\ erased' = [erased EXCEPT ![c] = Len(log)]
  /\ log' = [i \in DOMAIN log |-> IF log[i].col = c THEN [log[i] EXCEPT !.kind = "plain"] ELSE log[i]]
  /\ head' = [head EXCEPT ![c] = 0] /\ stamp' = stamp + 1
  /\ proposal' = [p \in Requests |-> IF proposal[p].state # "none" /\ Touches(p, c)
                                     THEN [NoProposalYet EXCEPT !.state = "purged"] ELSE proposal[p]]
  /\ reply' = [k \in Requests |->
       IF reply[k].kind = "none" THEN reply[k]
       ELSE IF c \in ColsOf(reply[k].sel) \/ (reply[k].kind = "done" /\ Touches(reply[k].prop, c))
            THEN [reply[k] EXCEPT !.kind = "purged", !.sel = {}] ELSE reply[k]]
  /\ UNCHANGED <<val, rowRev, guards, asked, plans, done>>

-----------------------------------------------------------------------------
GovNext ==
  \/ \E v \in {[val EXCEPT ![c] = x] : c \in Cols, x \in Values} : CheckedWrite(v) \/ ExplainedPush(v) \/ OtherWrite(v)
  \/ LoseGuards \/ EnsureGuards
  \/ \E i \in DOMAIN log : EditHistory(i)
  \/ \E k \in Requests, sel \in SUBSET DOMAIN log : AskPropose(k, sel)
  \/ \E k, p \in Requests, sel \in SUBSET DOMAIN log : AskEdit(k, p, sel)
  \/ \E k, p \in Requests : AskApproval(k, p) \/ AskRejection(k, p)
  \/ \E k \in Requests : Serve(k) \/ Conclude(k)
  \/ \E k \in Requests : \E at \in plans[k] : CommitAsk(k, at)
  \/ \E c \in Cols : PurgeHistory(c)

GovSpec == GovInit /\ [][GovNext]_govVars

-----------------------------------------------------------------------------
Latest == MaxStamp + Cardinality(Requests)
Entries == [col : Cols, before : Values, after : Values, kind : {"event", "plain"}, prev : 0 .. MaxLog]
GovTypeOK ==
  /\ val \in [Cols -> Values] /\ rowRev \in 0 .. Latest /\ stamp \in 0 .. Latest
  /\ Len(log) <= MaxLog /\ \A i \in DOMAIN log : log[i] \in Entries
  /\ head \in [Cols -> 0 .. MaxLog] /\ guards \in BOOLEAN
  /\ \A k \in Requests :
       /\ asked[k] \in [op : {"none", "create", "edit", "approve", "reject", "answered"}, prop : Requests \cup {NoProposer}, ver : 0 .. MaxVersions,
                      sel : SUBSET (1 .. MaxLog), stamp : 0 .. Latest]
       /\ proposal[k] \in [state : {"none", "pending", "approved", "rejected", "purged"}, ver : 0 .. MaxVersions,
                           sel : SUBSET (1 .. MaxLog), base : 0 .. Latest, all : SUBSET (1 .. MaxLog)]
       /\ reply[k] \in [kind : {"none", "done", "refused", "purged"}, sel : SUBSET (1 .. MaxLog), prop : Requests \cup {NoProposer}]
  /\ plans \in [Requests -> SUBSET (0 .. Latest)]

\* An approved inverse takes each selected column back to its value before the
\* first selected change, over no change of that column that was not selected,
\* whoever made it, and changes no other column.
InverseExact ==
  \A x \in done, i \in 1 .. MaxLog :
    i <= x.at /\ (\E j \in x.sel : log[j].col = log[i].col /\ j <= i) => i \in x.sel

\* One approval of a proposal at most, of the version that was current, never
\* beside a rejection.
OneVerdict ==
  /\ \A x, y \in done : x.prop = y.prop => x = y
  /\ \A x \in done : proposal[x.prop].state = "purged" \/ (proposal[x.prop].state = "approved" /\ proposal[x.prop].ver = x.ver)

\* A purged column's history is in no proposal and no receipt.
HistoryErased ==
  \A k \in Requests : \A i \in proposal[k].all \cup reply[k].sel : i > erased[log[i].col]

GovernanceSound == GovTypeOK /\ InverseExact /\ OneVerdict /\ HistoryErased
=============================================================================
