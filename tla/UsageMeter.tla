----------------------------- MODULE UsageMeter -----------------------------
(***************************************************************************)
(* The hub's usage meter, hard cap and usage notifications                   *)
(* (worker/src/usage.js).  Every request runs under a meter; when it has       *)
(* settled, a flush adds what it used to the period's counters, and the flush  *)
(* that takes the total across an alert mark or the cap writes a notification. *)
(* An isolate keeps the totals it read last, for thirty seconds, and refuses   *)
(* the capped routes while they are at the cap.                               *)
(*                                                                          *)
(* One step is one statement or batch of AUTH_DB, or the code between two      *)
(* awaits.  Any request may end early at any of them.                         *)
(***************************************************************************)
EXTENDS Integers, FiniteSets

CONSTANTS
  Isolates,     \* isolates of the Worker, each with its memo of the totals
  Metered,      \* requests in progress at once
  MaxPeriod,    \* bound on usage periods
  MaxRows,      \* rows one request may use, at most
  MaxTotal,     \* bound on the rows of a period
  Cap,          \* rows at which the capped routes are refused
  Marks         \* totals that are notified: the alert marks and the cap

ASSUME UsageAssumption ==
  /\ Isolates # {} /\ MaxPeriod \in Nat \ {0} /\ MaxRows \in Nat /\ MaxTotal \in Nat
  /\ Cap \in Nat \ {0} /\ Marks \subseteq Nat \ {0}

VARIABLES
  clock,     \* the current period
  total,     \* _usage, summed: the rows of each period
  memo,      \* `seen`: per isolate the totals it last stored, and whether they are fresh
  meter,     \* requests, from their arrival to the end of their flush
  feed,      \* _notifications: the ids of the alerts in it
  missed     \* history: the notifications a request was to write when it ended early

usageVars == <<clock, total, memo, meter, feed, missed>>

-----------------------------------------------------------------------------
Periods == 1 .. MaxPeriod
NoMemo == [period |-> 0, total |-> 0, fresh |-> FALSE]
NoRequest == [pc |-> "idle", iso |-> CHOOSE i \in Isolates : TRUE, period |-> 0, rows |-> 0,
              after |-> 0, refused |-> FALSE, owed |-> {}]
Alert(p, m) == [period |-> p, mark |-> m]

UsageInit ==
  /\ clock = 1 /\ total = [p \in Periods |-> 0]
  /\ memo = [i \in Isolates |-> NoMemo]
  /\ meter = [r \in Metered |-> NoRequest]
  /\ feed = {} /\ missed = {}

\* The first total at or past its cap.
Over(t) == t >= Cap

\* Mutant: a total that lands on a mark has not reached it.
MutCrossings(before, after) == {m \in Marks : before < m /\ after > m}

\* The marks a flush takes the total across.
Crossings(before, after) == {m \in Marks : before < m /\ after >= m}

-----------------------------------------------------------------------------
(* Admission *)

\* Mutant: the memo of the last period still answers.
MutRemembered(i) == memo[i].fresh

\* The memo answers for the current period, for thirty seconds.
Remembered(i) == memo[i].period = clock /\ memo[i].fresh

\* A request of a route that is never refused, or a scheduled backup.
ArriveUncapped(r, i) ==
  /\ meter[r].pc = "idle"
  /\ meter' = [meter EXCEPT ![r] = [NoRequest EXCEPT !.pc = "work", !.iso = i]]
  /\ UNCHANGED <<clock, total, memo, feed, missed>>

\* Any other request, or the sweep: the memo decides, or the totals are read.
ArriveCapped(r, i) ==
  /\ meter[r].pc = "idle"
  /\ meter' = [meter EXCEPT ![r] =
       IF Remembered(i)
       THEN [NoRequest EXCEPT !.pc = "work", !.iso = i, !.refused = Over(memo[i].total),
                              !.period = IF Over(memo[i].total) THEN clock ELSE 0]
       ELSE [NoRequest EXCEPT !.pc = "read", !.iso = i, !.period = clock]]
  /\ UNCHANGED <<clock, total, memo, feed, missed>>

ReadTotals(r) ==
  /\ meter[r].pc = "read"
  /\ meter' = [meter EXCEPT ![r].pc = "decide", ![r].after = total[meter[r].period]]
  /\ UNCHANGED <<clock, total, memo, feed, missed>>

Decide(r) ==
  LET q == meter[r]
  IN  /\ q.pc = "decide"
      /\ memo' = [memo EXCEPT ![q.iso] = [period |-> q.period, total |-> q.after, fresh |-> TRUE]]
      /\ meter' = [meter EXCEPT ![r] =
           [NoRequest EXCEPT !.pc = "work", !.iso = q.iso, !.refused = Over(q.after),
                             !.period = IF Over(q.after) THEN q.period ELSE 0]]
      /\ UNCHANGED <<clock, total, feed, missed>>

\* A preview reads the totals for itself, keeps nothing and is not metered.
Preview(r) ==
  /\ meter[r].pc = "idle"
  /\ meter' = [meter EXCEPT ![r] =
       [NoRequest EXCEPT !.pc = "answered", !.period = clock, !.refused = Over(total[clock])]]
  /\ UNCHANGED <<clock, total, memo, feed, missed>>

-----------------------------------------------------------------------------
(* The flush, once the response and what it handed to waitUntil have settled *)

\* The rows its statements reported.
Used == 0 .. MaxRows

\* What the request used, refused or not, goes to the period it ends in.
SettleMeter(r) ==
  /\ meter[r].pc = "work"
  /\ \E n \in Used :
       meter' = [meter EXCEPT ![r].pc = "flush", ![r].rows = n, ![r].period = clock, ![r].refused = FALSE]
  /\ UNCHANGED <<clock, total, memo, feed, missed>>

\* The counters and their new total, in one batch.
FlushBatch(r) ==
  LET q == meter[r]
  IN  /\ q.pc = "flush" /\ total[q.period] + q.rows <= MaxTotal
      /\ total' = [total EXCEPT ![q.period] = @ + q.rows]
      /\ meter' = [meter EXCEPT ![r].pc = "seen", ![r].after = total[q.period] + q.rows]
      /\ UNCHANGED <<clock, memo, feed, missed>>

\* "so a cap this isolate crosses applies at once"
FlushSeen(r) ==
  LET q == meter[r]
      owed == Crossings(q.after - q.rows, q.after)
  IN  /\ q.pc = "seen"
      /\ memo' = [memo EXCEPT ![q.iso] = [period |-> q.period, total |-> q.after, fresh |-> TRUE]]
      /\ meter' = [meter EXCEPT ![r] = IF owed = {} THEN NoRequest ELSE [NoRequest EXCEPT !.pc = "notify", !.period = q.period, !.owed = owed]]
      /\ UNCHANGED <<clock, total, feed, missed>>

\* One notification at a time, the lowest mark first; the id is the dedupe key.
Notify(r) ==
  LET q == meter[r]
      m == CHOOSE m \in q.owed : \A k \in q.owed : m <= k
  IN  /\ q.pc = "notify"
      /\ feed' = feed \cup {Alert(q.period, m)}
      /\ meter' = [meter EXCEPT ![r] = IF q.owed = {m} THEN NoRequest ELSE [q EXCEPT !.owed = @ \ {m}]]
      /\ UNCHANGED <<clock, total, memo, missed>>

\* What a request has yet to notify.
Owed(q) ==
  IF q.pc = "seen" THEN {Alert(q.period, m) : m \in Crossings(q.after - q.rows, q.after)}
  ELSE {Alert(q.period, m) : m \in q.owed}

\* The request is over, or its isolate is gone, or a statement failed: nothing
\* of its flush is tried again.
End(r) ==
  /\ meter[r].pc # "idle"
  /\ meter' = [meter EXCEPT ![r] = NoRequest]
  /\ missed' = missed \cup Owed(meter[r])
  /\ UNCHANGED <<clock, total, memo, feed>>

-----------------------------------------------------------------------------
(* Time *)

NextPeriod ==
  /\ clock < MaxPeriod /\ clock' = clock + 1
  /\ UNCHANGED <<total, memo, meter, feed, missed>>

\* Thirty seconds pass for an isolate.
Ages(i) ==
  /\ memo[i].fresh
  /\ memo' = [memo EXCEPT ![i].fresh = FALSE]
  /\ UNCHANGED <<clock, total, meter, feed, missed>>

-----------------------------------------------------------------------------
UsageNext ==
  \/ \E r \in Metered, i \in Isolates : ArriveUncapped(r, i) \/ ArriveCapped(r, i)
  \/ \E r \in Metered :
       ReadTotals(r) \/ Decide(r) \/ Preview(r) \/ SettleMeter(r) \/ FlushBatch(r) \/ FlushSeen(r) \/ Notify(r) \/ End(r)
  \/ \E i \in Isolates : Ages(i)
  \/ NextPeriod

UsageSpec == UsageInit /\ [][UsageNext]_usageVars

-----------------------------------------------------------------------------
UsageTypeOK ==
  /\ clock \in Periods
  /\ total \in [Periods -> 0 .. MaxTotal]
  /\ memo \in [Isolates -> [period : 0 .. MaxPeriod, total : 0 .. MaxTotal, fresh : BOOLEAN]]
  /\ meter \in [Metered ->
       [pc : {"idle", "read", "decide", "work", "answered", "flush", "seen", "notify"}, iso : Isolates,
        period : 0 .. MaxPeriod, rows : 0 .. MaxRows, after : 0 .. MaxTotal, refused : BOOLEAN,
        owed : SUBSET Marks]]
  /\ feed \cup missed \subseteq [period : Periods, mark : Marks]

\* A mark is notified exactly when the period's total has reached it: by the
\* one flush that took it there, whatever flushes run beside it, unless that
\* flush ended early.
Alerted ==
  \A p \in Periods, m \in Marks :
    total[p] >= m <=> \/ Alert(p, m) \in feed \cup missed
                      \/ \E r \in Metered : Alert(p, m) \in Owed(meter[r])

\* A request is refused only in a period that has reached the cap, however old
\* the totals are that its isolate remembers.
RefusedRightly == \A r \in Metered : meter[r].refused => total[meter[r].period] >= Cap

\* The account of use is right in all its parts.
UsageSound == UsageTypeOK /\ Alerted /\ RefusedRightly
=============================================================================
