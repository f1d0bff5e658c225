---------------------------- MODULE SearchIndex ----------------------------
(* The search index of the core client (core/src/search.ts): a disposable cache  *)
(* that host steps build in chunks while any program edits the rows, changes the *)
(* catalog, the settings or the schema, and searches read what there is.         *)
(*                                                                               *)
(* A step is one transaction of a reconciliation and any number of chunks; since *)
(* a transaction of several is a sequence of transactions of one, each is an     *)
(* action.  A batch holds one row.                                               *)
EXTENDS Integers, FiniteSets

CONSTANTS
  SearchTables,    \* the tables of the replica
  SearchIds,       \* their rows' ids, walked in order
  Texts,           \* the text of a row
  SmallQueue,      \* rows a read indexes itself (200 in the source)
  EarlyDeletes     \* may a row be deleted between a drain and the walk's start?

ASSUME SearchConstants == SearchIds \subseteq Nat \ {0} /\ SmallQueue \in Nat
                          /\ EarlyDeletes \in BOOLEAN

NoText == "none"
NoWalk == -1                        \* no walk is owed; 0 is a walk not yet begun
Untracked == -1
Definitions == 0 .. 1               \* what the catalog and the schema say to index

VARIABLES
  text,         \* text[t][id]: the row, or NoText
  def,          \* def[t]: the definition of the table's entries
  wanted,       \* the tables the index should hold
  trigger,      \* the tables whose queue triggers are installed
  entry,        \* entry[t][id]: the row's index entry
  queue,        \* _core_search_dirty
  tracked,      \* tracked[t]: the fingerprint in _core_search_state
  work,         \* _core_search_work
  ready         \* the schema, catalog and settings of the last reconciliation

searchVars == <<text, def, wanted, trigger, entry, queue, tracked, work, ready>>

NoEntry == [text |-> NoText, def |-> 0]
NoWork == [purge |-> FALSE, back |-> NoWalk]
NeverReady == [def |-> [t \in SearchTables |-> Untracked], wanted |-> {}, trigger |-> {}]

SearchTypeOK ==
  /\ text \in [SearchTables -> [SearchIds -> Texts \cup {NoText}]]
  /\ def \in [SearchTables -> Definitions]
  /\ wanted \subseteq SearchTables /\ trigger \subseteq SearchTables
  /\ entry \in [SearchTables -> [SearchIds -> [text : Texts \cup {NoText}, def : Definitions]]]
  /\ queue \subseteq SearchTables \X SearchIds
  /\ tracked \in [SearchTables -> Definitions \cup {Untracked}]
  /\ work \in [SearchTables -> [purge : BOOLEAN, back : {NoWalk, 0} \cup SearchIds]]
  /\ ready = NeverReady
       \/ ready \in [def : [SearchTables -> Definitions],
                     wanted : SUBSET SearchTables, trigger : SUBSET SearchTables]

SearchInit ==
  /\ text = [t \in SearchTables |-> [id \in SearchIds |-> NoText]]
  /\ def = [t \in SearchTables |-> 0]
  /\ wanted \in SUBSET SearchTables
  /\ trigger = {}
  /\ entry = [t \in SearchTables |-> [id \in SearchIds |-> NoEntry]]
  /\ queue = {}
  /\ tracked = [t \in SearchTables |-> Untracked]
  /\ work = [t \in SearchTables |-> NoWork]
  /\ ready = NeverReady

(***************************************************************************)
(* Everyone else                                                           *)
(***************************************************************************)
\* Nothing that decides what is indexed moved since the last reconciliation.
Stamp == [def |-> def, wanted |-> wanted, trigger |-> trigger]
Reconciled == ready = Stamp

\* The queue is drained before the walk that installs the triggers, so a row indexed
\* from the queue of a table without them and then deleted is never looked at again.
Forgettable(t, id) ==
  t \notin trigger /\ work[t] = [purge |-> FALSE, back |-> 0] /\ entry[t][id] # NoEntry

\* Any program writes or deletes a row; its triggers queue the row with it.
\* EarlyDeletes = FALSE leaves out the deletion the index forgets.
EditRow(t, id) == \E new \in (Texts \cup {NoText}) \ {text[t][id]} :
  /\ EarlyDeletes \/ new # NoText \/ ~Forgettable(t, id)
  /\ text' = [text EXCEPT ![t][id] = new]
  /\ queue' = IF t \in trigger THEN queue \cup {<<t, id>>} ELSE queue
  /\ UNCHANGED <<def, wanted, trigger, entry, tracked, work, ready>>

\* The catalog or the table's columns change.
Redefine(t) ==
  /\ def' = [def EXCEPT ![t] = 1 - @]
  /\ UNCHANGED <<text, wanted, trigger, entry, queue, tracked, work, ready>>

\* The table enters or leaves the index: its catalog, its size or a choice.
Choose(t) ==
  /\ wanted' = IF t \in wanted THEN wanted \ {t} ELSE wanted \cup {t}
  /\ UNCHANGED <<text, def, trigger, entry, queue, tracked, work, ready>>

\* A rebuilt table comes back without its triggers.
Rebuild(t) ==
  /\ trigger' = trigger \ {t}
  /\ UNCHANGED <<text, def, wanted, entry, queue, tracked, work, ready>>

\* initSearch finds an incomplete cache and drops all of it.
LoseCache ==
  /\ entry' = [t \in SearchTables |-> [id \in SearchIds |-> NoEntry]]
  /\ queue' = {}
  /\ tracked' = [t \in SearchTables |-> Untracked]
  /\ work' = [t \in SearchTables |-> NoWork]
  /\ ready' = NeverReady
  /\ UNCHANGED <<text, def, wanted, trigger>>

\* Backups to restore: every row has the same text, or none.
Restorable == {[t \in SearchTables |-> [id \in SearchIds |-> v]] : v \in Texts \cup {NoText}}

\* A restored replica comes without triggers and with an empty index; what the last
\* reconciliation owed stays in _core_search_work.
Restored(rows) ==
  /\ text' = rows
  /\ trigger' = {}
  /\ entry' = [t \in SearchTables |-> [id \in SearchIds |-> NoEntry]]
  /\ queue' = {}
  /\ tracked' = [t \in SearchTables |-> Untracked]
  /\ ready' = NeverReady
  /\ UNCHANGED <<def, wanted, work>>

(***************************************************************************)
(* The index step                                                          *)
(***************************************************************************)
Queued(t) == {id \in SearchIds : <<t, id>> \in queue}
Described(t) == tracked[t] # Untracked
Entries(t) == {id \in SearchIds : entry[t][id] # NoEntry}
Retired == {t \in SearchTables : Described(t) /\ t \notin wanted}

\* The table's entries must be built anew.
Changed(t) == t \in wanted /\ ~(tracked[t] = def[t] /\ t \in trigger)

\* Retired tables stop answering and are purged in chunks; changed ones are purged
\* of older entries and walked again.
Reconcile ==
  /\ ~Reconciled
  /\ trigger' = trigger \cap wanted
  /\ queue' = {q \in queue : q[1] \notin Retired}
  /\ tracked' = [t \in SearchTables |-> IF t \in Retired THEN Untracked
                                        ELSE IF Changed(t) THEN def[t] ELSE tracked[t]]
  /\ work' = [t \in SearchTables |->
                IF t \in Retired THEN [purge |-> TRUE, back |-> NoWalk]
                ELSE IF Changed(t) THEN [purge |-> Entries(t) # {}, back |-> 0]
                ELSE work[t]]
  /\ ready' = [def |-> def, wanted |-> wanted, trigger |-> trigger \cap wanted]
  /\ UNCHANGED <<text, def, wanted, entry>>

Purges == {t \in SearchTables : work[t].purge}
Walks == {t \in SearchTables : work[t].back # NoWalk}

\* One chunk of a purge; when no entry is left the purge is over.
Purge(t) ==
  /\ Reconciled /\ work[t].purge
  /\ \/ \E id \in Entries(t) :
          entry' = [entry EXCEPT ![t][id] = NoEntry] /\ UNCHANGED work
     \/ Entries(t) = {} /\ work' = [work EXCEPT ![t].purge = FALSE] /\ UNCHANGED entry
  /\ UNCHANGED <<text, def, wanted, trigger, queue, tracked, ready>>

\* indexBatch replaces the entries of rows by what the rows hold.
Indexed(t, ids) ==
  [entry EXCEPT ![t] = [id \in SearchIds |->
     IF id \notin ids THEN @[id]
     ELSE IF text[t][id] = NoText THEN NoEntry
     ELSE [text |-> text[t][id], def |-> def[t]]]]

\* One queued row; the queue of a table the index no longer describes is dropped.
Drain(t) ==
  /\ Reconciled /\ Purges = {}
  /\ \E id \in Queued(t) :
       /\ \A other \in Queued(t) : id <= other
       /\ IF ~Described(t)
            THEN queue' = {q \in queue : q[1] # t} /\ UNCHANGED entry
            ELSE queue' = queue \ {<<t, id>>} /\ entry' = Indexed(t, {id})
  /\ UNCHANGED <<text, def, wanted, trigger, tracked, work, ready>>

\* A walk installs the table's triggers as it starts.
\* Mutant: they are installed as it ends.
MutArms(t) == \A id \in SearchIds : text[t][id] = NoText \/ id <= work[t].back
Arms(t) == work[t].back = 0

\* The walk of a table the index no longer describes, left by a restore, is dropped.
Armed(t) == IF Described(t) /\ Arms(t) THEN trigger \cup {t} ELSE trigger

\* The next row of a walk; the step records the triggers as reconciled.
Walk(t) ==
  /\ Reconciled /\ Purges = {} /\ queue = {} /\ t \in Walks
  /\ LET next == {id \in SearchIds : Described(t) /\ text[t][id] # NoText /\ id > work[t].back} IN
     IF next = {}
       THEN work' = [work EXCEPT ![t] = NoWork] /\ UNCHANGED entry
       ELSE LET id == CHOOSE i \in next : \A j \in next : i <= j IN
            work' = [work EXCEPT ![t].back = id] /\ entry' = Indexed(t, {id})
  /\ trigger' = Armed(t)
  /\ ready' = [ready EXCEPT !.trigger = Armed(t)]
  /\ UNCHANGED <<text, def, wanted, queue, tracked>>

\* A read of a current index first indexes a small queue itself.
ReadIndex ==
  /\ Reconciled /\ queue # {} /\ Cardinality(queue) <= SmallQueue
  /\ Purges = {} /\ Walks = {}
  /\ queue' = {}
  /\ entry' = [t \in SearchTables |->
                 IF ~Described(t) THEN entry[t]
                 ELSE Indexed(t, Queued(t))[t]]
  /\ UNCHANGED <<text, def, wanted, trigger, tracked, work, ready>>

SearchNext ==
  \/ \E t \in SearchTables :
       \/ \E id \in SearchIds : EditRow(t, id)
       \/ Redefine(t) \/ Choose(t) \/ Rebuild(t)
       \/ Purge(t) \/ Drain(t) \/ Walk(t)
  \/ \E rows \in Restorable : Restored(rows)
  \/ LoseCache \/ Reconcile \/ ReadIndex

SearchSpec == SearchInit /\ [][SearchNext]_searchVars

(***************************************************************************)
(* What it promises                                                        *)
(***************************************************************************)
Current(t, id) ==
  entry[t][id] = IF text[t][id] = NoText THEN NoEntry
                 ELSE [text |-> text[t][id], def |-> def[t]]

\* Where nothing moved since the last reconciliation, a row whose entry is not
\* current is queued, will be walked, or awaits a purge.
Covered ==
  Reconciled =>
    \A t \in SearchTables, id \in SearchIds :
      \/ Current(t, id) /\ t \in wanted
      \/ t \notin wanted /\ (entry[t][id] = NoEntry \/ work[t].purge)
      \/ t \in wanted /\ (id \in Queued(t) \/ (t \in Walks /\ id > work[t].back))

\* `done` means what it says: the entries are exactly those of the tables' rows.
DoneExact ==
  Reconciled /\ queue = {} /\ Purges = {} /\ Walks = {} =>
    \A t \in SearchTables, id \in SearchIds :
      IF t \in wanted THEN Current(t, id) ELSE entry[t][id] = NoEntry

\* Once a step reconciled, only tables the index should hold answer.
Answering == Reconciled => {t \in SearchTables : Described(t)} = wanted

\* The index never forgets a row: whatever is edited, chosen, redefined or rebuilt
\* between chunks, the step's `done` comes with exactly the rows (search.ts).
SearchSound == SearchTypeOK /\ Covered /\ DoneExact /\ Answering
=============================================================================
