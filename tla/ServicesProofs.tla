--------------------------- MODULE ServicesProofs ---------------------------
(***************************************************************************)
(* Who may write what on the hub: every token it accepts has someone to look   *)
(* after it and the authority its owner was shown; a governed changeset is     *)
(* written once, as it was reviewed, and answered as it happened; and an       *)
(* approved inverse undoes what was selected and nothing else.  Then the        *)
(* services that keep their own tables, the usage meter and the notification   *)
(* feed.  Each part has its inductive invariant, the steps that keep it, and     *)
(* the property as a theorem of its specification.                             *)
(***************************************************************************)
EXTENDS UsageMeter, NotificationFeed, DeviceLogin, Changesets, Governance,
        FiniteSetTheorems, SequenceTheorems, WellFoundedInduction, TLAPS

-----------------------------------------------------------------------------
(* The inductive invariant of tokens and commands *)

Phases == {"idle", "session", "ask", "wait", "lock", "store", "prefs", "rollback", "cleanup", "revoke", "signout", "delete", "file"}
Commands == [pc : Phases, prev : Tokens \cup {Nothing}, token : Tokens \cup {Nothing}, created : BOOLEAN, profile : BOOLEAN]

\* Under the credential lock; installing; ending a session.
Installing == {"store", "prefs", "rollback"}
Ending == {"revoke", "signout", "delete"}
Holding == Installing \cup Ending

\* A token the hub has been told of, if it is one.
Known(t) == t # Nothing => t \in made /\ registry[t] # "none"

\* Somebody looks after the token, or will.
LookedAfter(t) ==
  \/ keychain = t \/ t \in excused
  \/ \E p \in Runs : run[p].token = t /\ run[p].created
  \/ lock # Nothing /\ run[lock].prev = t

\* The lock, and what its holder knows of the Keychain and the preferences.
HolderFits(p) ==
  /\ lock = p <=> run[p].pc \in Holding
  /\ run[p].pc = "store" => keychain = run[p].prev
  /\ run[p].pc \in (Holding \ {"store"}) => keychain = run[p].token
  /\ run[p].pc \in Installing /\ run[p].prev = Nothing /\ prefs = "keychain" => excused # {}
  /\ run[p].pc \in {"signout", "delete"} /\ run[p].token # Nothing => registry[run[p].token] = "revoked"
  /\ run[p].pc = "delete" => prefs = "signed_out"

\* The tokens in a command's hands.
HandsFit(p) ==
  /\ run[p].token = Nothing => run[p].pc \in {"idle", "ask", "signout", "delete"}
  /\ run[p].token # Nothing => run[p].token \in made
  /\ Known(run[p].prev)
  /\ run[p].pc \notin {"wait", "file"} => Known(run[p].token)
  /\ run[p].created => run[p].pc \in {"wait", "lock", "cleanup", "file"} \cup Installing
  /\ run[p].pc \in {"wait", "cleanup", "file"} => run[p].created
  /\ run[p].pc \in {"session", "lock"} \cup Installing => run[p].created \/ run[p].token = run[p].prev \/ run[p].token \in excused
  /\ run[p].pc \in Ending => run[p].prev = Nothing

\* What the hub holds of a token.
TokenFits(t) ==
  /\ registry[t] = "none" => authority[t] = "none" /\ grant[t] = 0
  /\ registry[t] # "none" => t \in made
  /\ authority[t] = "agent" => t \in excused
  /\ t \in made /\ registry[t] # "revoked" => LookedAfter(t)
  /\ t \in ended => registry[t] = "revoked"
  /\ grant[t] # 0 => authority[t] = "none" /\ [token |-> t, revision |-> grant[t]] \in page
  /\ authority[t] = "user" => [token |-> t, revision |-> 0] \in page

LoginInv ==
  /\ LoginTypeOK
  /\ Known(keychain)
  /\ \A f \in page : f.token \in made
  /\ prefs = "keychain" /\ keychain = Nothing => excused # {}
  /\ \A p \in Runs : HolderFits(p) /\ HandsFit(p)
  /\ \A t \in Tokens : TokenFits(t)
-----------------------------------------------------------------------------
(* Tokens: what a command's step must leave behind *)

LEMMA CommandFields ==
  ASSUME LoginTypeOK, NEW p \in Runs
  PROVE  /\ run[p] \in Commands
         /\ run[p].pc \in Phases /\ run[p].created \in BOOLEAN /\ run[p].profile \in BOOLEAN
         /\ run[p].prev \in Tokens \cup {Nothing} /\ run[p].token \in Tokens \cup {Nothing}
<1>1. run \in [Runs -> Commands]
  BY DEF LoginTypeOK, Commands, Phases
<1>2. run[p] \in Commands
  BY <1>1
<1> QED BY <1>2 DEF Commands

\* No other command is disturbed by a step of p, and the hub only revokes.
Alone(p) ==
  /\ \A q \in Runs \ {p} : run'[q] = run[q] /\ (lock' = q <=> lock = q)
  /\ lock' \in {lock, p, Nothing} /\ lock \in {lock', p, Nothing}
  /\ lock # p => keychain' = keychain /\ prefs' = prefs
  /\ page' = page /\ grant' = grant /\ authority' = authority
  /\ \A t \in Tokens : registry'[t] = registry[t] \/ (registry[t] = "active" /\ registry'[t] = "revoked")
  /\ excused \subseteq excused' /\ made \subseteq made'

\* Tokens that a step of p could leave without anybody.
InHands(p, t) ==
  \/ t \notin made \/ keychain = t \/ (run[p].token = t /\ run[p].created) \/ (lock = p /\ run[p].prev = t)

\* The commands beside p fit as they did.
LEMMA OthersFit ==
  ASSUME LoginInv, LoginTypeOK', NEW p \in Runs, Alone(p), NEW q \in Runs, q # p
  PROVE  HolderFits(q)' /\ HandsFit(q)'
<1>1. run'[q] = run[q] /\ (lock' = q <=> lock = q) /\ HolderFits(q) /\ HandsFit(q)
  BY DEF LoginInv, Alone
<1>2. \A t \in Tokens : registry[t] # "none" => registry'[t] # "none"
  BY DEF Alone
<1>3. \A t \in Tokens : registry[t] = "revoked" => registry'[t] = "revoked"
  BY DEF Alone
<1>4. run[q].prev \in Tokens \cup {Nothing} /\ run[q].token \in Tokens \cup {Nothing}
  BY CommandFields DEF LoginInv
<1>5. run[q].pc \in Holding => keychain' = keychain /\ prefs' = prefs
  BY <1>1 DEF HolderFits, Alone
<1>6. HolderFits(q)'
  BY <1>1, <1>3, <1>4, <1>5 DEF HolderFits, Holding, Installing, Ending, Alone
<1>7. HandsFit(q)'
  BY <1>1, <1>2, <1>4 DEF HandsFit, Known, Alone
<1> QED BY <1>6, <1>7

\* Nobody loses a token that p does not hold.
LEMMA StillLookedAfter ==
  ASSUME LoginInv, NEW p \in Runs, Alone(p), NEW t \in Tokens, LookedAfter(t), ~InHands(p, t)
  PROVE  LookedAfter(t)'
<1>1. CASE t \in excused
  BY <1>1 DEF LookedAfter, Alone
<1>2. CASE \E q \in Runs : run[q].token = t /\ run[q].created
  <2>1. PICK q \in Runs : run[q].token = t /\ run[q].created
    BY <1>2
  <2>2. q # p /\ run'[q] = run[q]
    BY <2>1 DEF InHands, Alone
  <2> QED BY <2>1, <2>2 DEF LookedAfter
<1>3. CASE lock # Nothing /\ run[lock].prev = t
  <2>1. lock # p /\ lock \in Runs
    BY <1>3 DEF InHands, LoginInv, LoginTypeOK
  <2>2. lock' = lock /\ run'[lock] = run[lock]
    BY <2>1 DEF Alone
  <2> QED BY <1>3, <2>2 DEF LookedAfter
<1> QED BY <1>1, <1>2, <1>3 DEF LookedAfter, InHands

\* What is left to show of a step of command p.
LEMMA CommandStep ==
  ASSUME LoginInv, LoginTypeOK', NEW p \in Runs, Alone(p),
         HolderFits(p)', HandsFit(p)', Known(keychain)',
         prefs' = "keychain" /\ keychain' = Nothing => excused' # {},
         \A t \in Tokens : t \in ended' => t \in ended \/ registry'[t] = "revoked",
         \A t \in Tokens : t \in made' /\ registry'[t] # "revoked" /\ InHands(p, t) => LookedAfter(t)'
  PROVE  LoginInv'
<1>1. \A q \in Runs : HolderFits(q)' /\ HandsFit(q)'
  BY OthersFit
<1>2. ASSUME NEW t \in Tokens PROVE TokenFits(t)'
  <2>1. TokenFits(t) /\ (registry'[t] = registry[t] \/ (registry[t] = "active" /\ registry'[t] = "revoked"))
    BY DEF LoginInv, Alone
  <2>2. t \in made' /\ registry'[t] # "revoked" => LookedAfter(t)'
    <3>1. CASE InHands(p, t)
      BY <3>1
    <3>2. CASE ~InHands(p, t)
      <4>1. t \in made /\ (registry'[t] # "revoked" => registry[t] # "revoked")
        BY <2>1, <3>2 DEF InHands
      <4>2. registry'[t] # "revoked" => LookedAfter(t)
        BY <2>1, <4>1 DEF TokenFits
      <4> QED BY <3>2, <4>2, StillLookedAfter
    <3> QED BY <3>1, <3>2
  <2> QED BY <2>1, <2>2 DEF TokenFits, Alone
<1>3. \A f \in page' : f.token \in made'
  BY DEF LoginInv, Alone
<1> QED BY <1>1, <1>2, <1>3 DEF LoginInv
-----------------------------------------------------------------------------
(* Tokens: the commands *)

\* A step of p that leaves hub, Keychain, preferences and lock alone.
Quietly(p) ==
  /\ \A q \in Runs \ {p} : run'[q] = run[q]
  /\ run' \in [Runs -> Commands]
  /\ UNCHANGED <<hubVars, localVars, ended>>
  /\ excused \subseteq excused' /\ made \subseteq made' /\ excused' \subseteq made' /\ made' \subseteq Tokens

\* Outside the lock only what p holds itself is to be looked at.
LEMMA QuietStep ==
  ASSUME LoginInv, NEW p \in Runs, Quietly(p), lock # p, run'[p].pc \notin Holding, HandsFit(p)',
         \A t \in Tokens : t \notin made /\ t \in made' => run'[p].token = t /\ run'[p].created,
         run[p].created => \/ run[p].token \in excused' \/ registry[run[p].token] = "revoked"
                           \/ run'[p].created /\ run'[p].token = run[p].token
  PROVE  LoginInv'
<1>1. LoginTypeOK'
  BY DEF LoginInv, LoginTypeOK, Quietly, Commands, Phases, hubVars, localVars
<1>2. Alone(p)
  BY DEF Quietly, Alone, hubVars, localVars
<1>3. HolderFits(p)'
  BY DEF HolderFits, Quietly, localVars, Holding, Installing, Ending
<1>4. Known(keychain)' /\ (prefs' = "keychain" /\ keychain' = Nothing => excused' # {}) /\ ended' = ended
  BY DEF LoginInv, Known, Quietly, localVars, hubVars
<1>5. ASSUME NEW t \in Tokens, t \in made', registry'[t] # "revoked", InHands(p, t)
      PROVE  LookedAfter(t)'
  BY <1>5 DEF InHands, LookedAfter, Quietly, hubVars, localVars
<1> QED BY <1>1, <1>2, <1>3, <1>4, <1>5, CommandStep

\* A command's new record, and everybody else's old one.
LEMMA Replaced ==
  ASSUME LoginTypeOK, NEW p \in Runs, NEW c \in Commands, run' = [run EXCEPT ![p] = c]
  PROVE  run'[p] = c /\ (\A q \in Runs \ {p} : run'[q] = run[q]) /\ run' \in [Runs -> Commands]
BY DEF LoginTypeOK, Commands, Phases

\* A command that only goes on to another phase.
LEMMA GoesOn ==
  ASSUME LoginTypeOK, NEW p \in Runs, NEW pc \in Phases, RunGoes(p, pc)
  PROVE  /\ run'[p].pc = pc /\ run'[p].token = run[p].token /\ run'[p].prev = run[p].prev
         /\ run'[p].created = run[p].created /\ run'[p].profile = run[p].profile
         /\ \A q \in Runs \ {p} : run'[q] = run[q]
         /\ run' \in [Runs -> Commands]
<1>1. run \in [Runs -> Commands]
  BY DEF LoginTypeOK, Commands, Phases
<1> QED BY <1>1 DEF RunGoes, Commands

LEMMA HasEnded ==
  ASSUME LoginTypeOK, NEW p \in Runs, Ends(p)
  PROVE  /\ run'[p].pc = "idle" /\ run'[p].token = Nothing /\ run'[p].prev = Nothing /\ run'[p].created = FALSE
         /\ \A q \in Runs \ {p} : run'[q] = run[q]
         /\ run' \in [Runs -> Commands]
<1>1. NotRunning \in Commands
  BY DEF NotRunning, Commands, Phases
<1> QED BY <1>1, Replaced DEF Ends, NotRunning

\* A command that has ended has nothing in hand.
LEMMA IdleFits ==
  ASSUME LoginTypeOK, NEW p \in Runs, Ends(p)
  PROVE  HandsFit(p)' /\ run'[p].pc \notin Holding
BY HasEnded DEF HandsFit, Known, Holding, Installing, Ending

\* What LoginInv says of one command.
LEMMA OneCommand ==
  ASSUME LoginInv, NEW p \in Runs
  PROVE  /\ LoginTypeOK /\ HolderFits(p) /\ HandsFit(p) /\ Known(keychain)
         /\ run[p].pc \in Phases /\ run[p].created \in BOOLEAN
         /\ run[p].prev \in Tokens \cup {Nothing} /\ run[p].token \in Tokens \cup {Nothing}
         /\ keychain \in Tokens \cup {Nothing} /\ excused \subseteq made /\ made \subseteq Tokens
         /\ lock \in Runs \cup {Nothing} /\ p # Nothing
BY CommandFields, LoginAssumption DEF LoginInv, LoginTypeOK

LEMMA LoginFits ==
  ASSUME LoginInv, NEW p \in Runs, Login(p)
  PROVE  LoginInv'
<1>1. PICK profile \in BOOLEAN :
        run' = [run EXCEPT ![p] = [pc |-> IF keychain = Nothing THEN "ask" ELSE "session", prev |-> keychain,
                                   token |-> keychain, created |-> FALSE, profile |-> profile]]
  BY DEF Login
<1> DEFINE c == [pc |-> IF keychain = Nothing THEN "ask" ELSE "session", prev |-> keychain,
                 token |-> keychain, created |-> FALSE, profile |-> profile]
<1>2. c \in Commands /\ run' = [run EXCEPT ![p] = c]
  BY <1>1, OneCommand DEF Commands, Phases
<1>3. run'[p] = c /\ (\A q \in Runs \ {p} : run'[q] = run[q]) /\ run' \in [Runs -> Commands]
  BY <1>2, OneCommand, Replaced
<1>4. Quietly(p)
  BY <1>3, OneCommand DEF Quietly, Login
<1>5. lock # p /\ ~run[p].created
  BY OneCommand DEF Login, HolderFits, HandsFit, Holding, Installing, Ending
<1>6. run'[p].pc \notin Holding
  BY <1>3 DEF Holding, Installing, Ending
<1>7. HandsFit(p)'
  BY <1>3, <1>4, OneCommand DEF HandsFit, Known, Quietly, hubVars, Installing, Ending
<1> QED BY <1>4, <1>5, <1>6, <1>7, QuietStep DEF Login

LEMMA CheckSessionFits ==
  ASSUME LoginInv, NEW p \in Runs, CheckSession(p)
  PROVE  LoginInv'
<1>1. lock # p /\ ~run[p].created /\ run[p].pc = "session"
  BY OneCommand DEF CheckSession, HolderFits, HandsFit, Holding, Installing, Ending
<1>2. CASE RunGoes(p, "lock")
  <2>1. Quietly(p)
    BY <1>2, OneCommand, GoesOn DEF Quietly, CheckSession, Phases
  <2>2. HandsFit(p)' /\ run'[p].pc \notin Holding
    BY <1>1, <1>2, <2>1, OneCommand, GoesOn DEF HandsFit, Known, Quietly, hubVars, Phases, Holding, Installing, Ending
  <2> QED BY <1>1, <2>1, <2>2, QuietStep DEF CheckSession
<1>3. CASE RunGoes(p, "ask")
  <2>1. Quietly(p)
    BY <1>3, OneCommand, GoesOn DEF Quietly, CheckSession, Phases
  <2>2. HandsFit(p)' /\ run'[p].pc \notin Holding
    BY <1>1, <1>3, <2>1, OneCommand, GoesOn DEF HandsFit, Known, Quietly, hubVars, Phases, Holding, Installing, Ending
  <2> QED BY <1>1, <2>1, <2>2, QuietStep DEF CheckSession
<1>4. CASE Ends(p)
  <2>1. Quietly(p)
    BY <1>4, OneCommand, HasEnded DEF Quietly, CheckSession
  <2> QED BY <1>1, <1>4, <2>1, IdleFits, OneCommand, QuietStep DEF CheckSession
<1> QED BY <1>2, <1>3, <1>4 DEF CheckSession

LEMMA RequestFits ==
  ASSUME LoginInv, NEW p \in Runs, NEW t \in Tokens, RequestEnrollment(p, t)
  PROVE  LoginInv'
<1>1. lock # p /\ ~run[p].created /\ run[p].pc = "ask"
  BY OneCommand DEF RequestEnrollment, HolderFits, HandsFit, Holding, Installing, Ending
<1>2. run \in [Runs -> Commands]
  BY OneCommand DEF LoginTypeOK, Commands, Phases
<1>3. /\ run'[p].pc = "wait" /\ run'[p].token = t /\ run'[p].created /\ run'[p].prev = run[p].prev
      /\ run' \in [Runs -> Commands] /\ \A q \in Runs \ {p} : run'[q] = run[q]
  BY ZenonT(40), <1>2 DEF RequestEnrollment, Commands, Phases
<1>4. Quietly(p) /\ made' = made \cup {t}
  BY <1>3, OneCommand DEF Quietly, RequestEnrollment
<1>5. HandsFit(p)' /\ run'[p].pc \notin Holding
  BY <1>1, <1>3, <1>4, OneCommand, LoginAssumption DEF HandsFit, Known, Quietly, hubVars, Holding, Installing, Ending
<1> QED BY <1>1, <1>3, <1>4, <1>5, QuietStep

LEMMA ApprovedFits ==
  ASSUME LoginInv, NEW p \in Runs, Approved(p)
  PROVE  LoginInv'
<1>1. lock # p /\ run[p].created /\ run[p].pc = "wait" /\ registry[run[p].token] = "active"
  BY OneCommand DEF Approved, HolderFits, HandsFit, Holding, Installing, Ending
<1>2. PICK pc \in {"cleanup", "lock"} : RunGoes(p, pc)
  BY DEF Approved
<1>3. Quietly(p)
  BY <1>2, OneCommand, GoesOn DEF Quietly, Approved, Phases
<1>4. HandsFit(p)' /\ run'[p].pc \notin Holding
  BY <1>1, <1>2, <1>3, OneCommand, GoesOn DEF HandsFit, Known, Quietly, hubVars, Phases, Holding, Installing, Ending
<1>5. run'[p].created /\ run'[p].token = run[p].token
  BY <1>1, <1>2, OneCommand, GoesOn DEF Phases
<1> QED BY <1>1, <1>3, <1>4, <1>5, QuietStep DEF Approved

LEMMA GiveUpFits ==
  ASSUME LoginInv, NEW p \in Runs, GiveUp(p)
  PROVE  LoginInv'
<1>1. lock # p /\ run[p].token \in made
  BY OneCommand DEF GiveUp, HolderFits, HandsFit, Holding, Installing, Ending
<1>2. Quietly(p)
  BY <1>1, OneCommand, HasEnded DEF Quietly, GiveUp
<1>3. HandsFit(p)' /\ run'[p].pc \notin Holding
  BY IdleFits, OneCommand DEF GiveUp
<1> QED BY <1>1, <1>2, <1>3, QuietStep DEF GiveUp

\* A token pasted into a login; one handed to a private file.
LEMMA PastedFits ==
  ASSUME LoginInv, NEW p \in Runs, NEW t \in Tokens, PastedLogin(p, t)
  PROVE  LoginInv'
<1> DEFINE c == [NotRunning EXCEPT !.pc = "lock", !.prev = keychain, !.token = t]
<1>1. c \in Commands /\ c.pc = "lock" /\ c.prev = keychain /\ c.token = t /\ c.created = FALSE
  BY OneCommand DEF NotRunning, Commands, Phases
<1>2. run'[p] = c /\ (\A q \in Runs \ {p} : run'[q] = run[q]) /\ run' \in [Runs -> Commands]
  BY <1>1, OneCommand, Replaced DEF PastedLogin
<1> HIDE DEF c
<1>3. Quietly(p)
  BY <1>2, OneCommand DEF Quietly, PastedLogin
<1>4. lock # p /\ ~run[p].created
  BY OneCommand DEF PastedLogin, HolderFits, HandsFit, Holding, Installing, Ending
<1>5. t \in excused /\ Known(t)
  BY OneCommand DEF PastedLogin, LoginInv, TokenFits, Known
<1>6. HandsFit(p)' /\ run'[p].pc \notin Holding
  BY <1>1, <1>2, <1>3, <1>5, OneCommand, LoginAssumption DEF HandsFit, Known, Quietly, hubVars, Holding, Installing, Ending
<1> QED BY <1>3, <1>4, <1>6, QuietStep DEF PastedLogin

LEMMA StartFits ==
  ASSUME LoginInv, NEW p \in Runs, NEW t \in Tokens, StartEnrollment(p, t)
  PROVE  LoginInv'
<1> DEFINE c == [NotRunning EXCEPT !.pc = "file", !.token = t, !.created = TRUE, !.profile = TRUE]
<1>1. c \in Commands /\ c.pc = "file" /\ c.prev = Nothing /\ c.token = t /\ c.created = TRUE
  BY OneCommand DEF NotRunning, Commands, Phases
<1>2. run'[p] = c /\ (\A q \in Runs \ {p} : run'[q] = run[q]) /\ run' \in [Runs -> Commands]
  BY <1>1, OneCommand, Replaced DEF StartEnrollment
<1> HIDE DEF c
<1>3. Quietly(p) /\ made' = made \cup {t}
  BY <1>2, OneCommand DEF Quietly, StartEnrollment
<1>4. lock # p /\ ~run[p].created
  BY OneCommand DEF StartEnrollment, HolderFits, HandsFit, Holding, Installing, Ending
<1>5. HandsFit(p)' /\ run'[p].pc \notin Holding
  BY <1>1, <1>2, <1>3, OneCommand, LoginAssumption DEF HandsFit, Known, Quietly, hubVars, Holding, Installing, Ending
<1> QED BY <1>1, <1>2, <1>3, <1>4, <1>5, QuietStep DEF StartEnrollment

-----------------------------------------------------------------------------
(* Tokens: the commands under the lock *)

\* The end of a login that cannot install its token.
LEMMA FailedFits ==
  ASSUME LoginInv, NEW p \in Runs, run[p].pc \in {"lock"} \cup Installing, Failed(p),
         UNCHANGED <<registry, made>>, excused \subseteq excused'
  PROVE  /\ HandsFit(p)' /\ run'[p].pc \notin Holding
         /\ \A q \in Runs \ {p} : run'[q] = run[q]
         /\ run' \in [Runs -> Commands]
         /\ run[p].created => run'[p].created /\ run'[p].token = run[p].token
<1>1. CASE run[p].created
  <2>1. RunGoes(p, "cleanup")
    BY <1>1 DEF Failed
  <2>2. HandsFit(p)' /\ run'[p].pc \notin Holding
    BY <1>1, <2>1, OneCommand, GoesOn DEF HandsFit, Known, Phases, Holding, Installing, Ending
  <2> QED BY <2>1, <2>2, OneCommand, GoesOn DEF Phases
<1>2. CASE ~run[p].created
  BY <1>2, IdleFits, HasEnded, OneCommand DEF Failed
<1> QED BY <1>1, <1>2

LEMMA TakeLockFits ==
  ASSUME LoginInv, NEW p \in Runs, TakeLock(p)
  PROVE  LoginInv'
<1>1. run[p].pc = "lock" /\ lock # p /\ UNCHANGED <<hubVars, keychain, prefs, made, excused, ended>>
  BY OneCommand DEF TakeLock, HolderFits, Holding, Installing, Ending
<1>2. CASE lock = Nothing /\ Unchanged(p)
  <2>1. PICK pc \in {"prefs", "store"} : RunGoes(p, pc) /\ (pc = "prefs" <=> run[p].token = run[p].prev)
    BY <1>2 DEF TakeLock
  <2>2. lock' = p /\ keychain = run[p].prev
    BY <1>2 DEF TakeLock, Unchanged
  <2>3. /\ run'[p].pc = pc /\ run'[p].token = run[p].token /\ run'[p].prev = run[p].prev /\ run'[p].created = run[p].created
        /\ (\A q \in Runs \ {p} : run'[q] = run[q]) /\ run' \in [Runs -> Commands]
    BY <2>1, OneCommand, GoesOn DEF Phases
  <2>4. LoginTypeOK'
    BY <1>1, <2>2, <2>3, OneCommand DEF LoginTypeOK, hubVars, Commands, Phases
  <2>5. Alone(p)
    BY <1>1, <1>2, <2>2, <2>3, LoginAssumption DEF Alone, hubVars
  <2>6. prefs = "keychain" /\ keychain = Nothing => excused # {}
    BY DEF LoginInv
  <2>7. HolderFits(p)'
    BY <1>1, <2>1, <2>2, <2>3, <2>6 DEF HolderFits, Holding, Installing, Ending
  <2>8. HandsFit(p)'
    BY <1>1, <2>1, <2>3, OneCommand DEF HandsFit, Known, hubVars, Installing, Ending
  <2>9. ASSUME NEW t \in Tokens, t \in made', InHands(p, t) PROVE LookedAfter(t)'
    BY <1>1, <2>2, <2>3, <2>9 DEF InHands, LookedAfter
  <2> QED BY <1>1, <2>4, <2>5, <2>6, <2>7, <2>8, <2>9, OneCommand, CommandStep DEF Known, hubVars
<1>3. CASE ~(lock = Nothing /\ Unchanged(p))
  <2>1. UNCHANGED lock /\ Failed(p)
    BY <1>3 DEF TakeLock
  <2>2. /\ HandsFit(p)' /\ run'[p].pc \notin Holding
        /\ run[p].created => run'[p].created /\ run'[p].token = run[p].token
        /\ (\A q \in Runs \ {p} : run'[q] = run[q]) /\ run' \in [Runs -> Commands]
    BY <1>1, <2>1, FailedFits DEF hubVars
  <2>3. Quietly(p)
    BY <1>1, <2>1, <2>2, OneCommand DEF Quietly, localVars
  <2> QED BY <1>1, <2>2, <2>3, QuietStep
<1> QED BY <1>2, <1>3

\* The types of a step under the lock.
LEMMA LockedTypes ==
  ASSUME LoginInv, UNCHANGED <<hubVars, made>>, run' \in [Runs -> Commands],
         keychain' \in Tokens \cup {Nothing}, prefs' \in {prefs, "keychain", "signed_out"},
         lock' \in Runs \cup {Nothing}, excused' \subseteq made, ended' \subseteq made
  PROVE  LoginTypeOK'
BY DEF LoginInv, LoginTypeOK, hubVars, Commands, Phases

LEMMA StoreFits ==
  ASSUME LoginInv, NEW p \in Runs, Store(p)
  PROVE  LoginInv'
<1>1. /\ run[p].pc = "store" /\ lock = p /\ keychain = run[p].prev /\ UNCHANGED <<hubVars, prefs, made, ended>>
      /\ run[p].token \in made /\ run[p].token # Nothing /\ Known(run[p].token) /\ Known(run[p].prev)
  BY OneCommand DEF Store, HolderFits, HandsFit, Holding, Installing, Ending
<1>2. keychain \in made \cup {Nothing} /\ ended \subseteq made
  BY OneCommand DEF Known, LoginTypeOK
<1>3. CASE keychain' = run[p].token /\ RunGoes(p, "prefs") /\ UNCHANGED <<lock, excused>>
  <2>1. /\ run'[p].pc = "prefs" /\ run'[p].token = run[p].token /\ run'[p].prev = run[p].prev /\ run'[p].created = run[p].created
        /\ (\A q \in Runs \ {p} : run'[q] = run[q]) /\ run' \in [Runs -> Commands]
    BY <1>3, OneCommand, GoesOn DEF Phases
  <2>2. LoginTypeOK'
    BY <1>1, <1>2, <1>3, <2>1, OneCommand, LockedTypes
  <2>3. Alone(p)
    BY <1>1, <1>3, <2>1 DEF Alone, hubVars
  <2>4. HolderFits(p)'
    BY <1>1, <1>3, <2>1, OneCommand DEF HolderFits, Holding, Installing, Ending
  <2>5. HandsFit(p)'
    BY <1>1, <1>3, <2>1, OneCommand DEF HandsFit, Known, hubVars, Installing, Ending
  <2>6. ASSUME NEW t \in Tokens, t \in made', InHands(p, t) PROVE LookedAfter(t)'
    BY <1>1, <1>3, <2>1, <2>6, OneCommand DEF InHands, LookedAfter
  <2>7. Known(keychain)' /\ keychain' # Nothing
    BY <1>1, <1>3 DEF Known, hubVars
  <2> QED BY <1>1, <2>2, <2>3, <2>4, <2>5, <2>6, <2>7, CommandStep
<1>4. CASE /\ keychain' \in {keychain, Nothing} /\ lock' = Nothing /\ Failed(p)
           /\ excused' = excused \cup ({run[p].prev} \ {keychain', Nothing})
  <2>1. /\ HandsFit(p)' /\ run'[p].pc \notin Holding
        /\ run[p].created => run'[p].created /\ run'[p].token = run[p].token
        /\ (\A q \in Runs \ {p} : run'[q] = run[q]) /\ run' \in [Runs -> Commands]
    BY <1>1, <1>4, FailedFits DEF hubVars, Installing
  <2>2. excused' \subseteq made
    BY <1>1, <1>4, OneCommand DEF Known
  <2>3. LoginTypeOK'
    BY <1>1, <1>2, <1>4, <2>1, <2>2, OneCommand, LockedTypes
  <2>4. Alone(p)
    BY <1>1, <1>4, <2>1, OneCommand, LoginAssumption DEF Alone, hubVars
  <2>5. HolderFits(p)'
    BY <1>4, <2>1, OneCommand DEF HolderFits, Holding, Installing, Ending
  <2>6. Known(keychain)'
    BY <1>1, <1>4, OneCommand DEF Known, hubVars
  <2>7. prefs' = "keychain" /\ keychain' = Nothing => excused' # {}
    BY <1>1, <1>4 DEF LoginInv
  <2>8. ASSUME NEW t \in Tokens, t \in made', InHands(p, t) PROVE LookedAfter(t)'
    BY <1>1, <1>4, <2>1, <2>8, OneCommand, LoginAssumption DEF InHands, LookedAfter
  <2> QED BY <1>1, <2>1, <2>3, <2>4, <2>5, <2>6, <2>7, <2>8, CommandStep
<1> QED BY <1>3, <1>4 DEF Store

LEMMA SavePrefsFits ==
  ASSUME LoginInv, NEW p \in Runs, SavePrefs(p)
  PROVE  LoginInv'
<1>1. /\ run[p].pc = "prefs" /\ lock = p /\ keychain = run[p].token /\ UNCHANGED <<hubVars, keychain, made, ended>>
      /\ run[p].token \in made /\ run[p].token # Nothing /\ Known(run[p].token) /\ Known(run[p].prev)
  BY OneCommand DEF SavePrefs, HolderFits, HandsFit, Holding, Installing, Ending
<1>2. Known(keychain)' /\ keychain' # Nothing /\ ended \subseteq made
  BY <1>1, OneCommand DEF Known, hubVars, LoginTypeOK
<1>3. CASE /\ prefs' = "keychain" /\ lock' = Nothing /\ Ends(p)
           /\ excused' = excused \cup ({run[p].prev} \ {keychain, Nothing})
  <2>1. /\ HandsFit(p)' /\ run'[p].pc \notin Holding
        /\ (\A q \in Runs \ {p} : run'[q] = run[q]) /\ run' \in [Runs -> Commands]
    BY <1>3, IdleFits, HasEnded, OneCommand
  <2>2. excused' \subseteq made
    BY <1>1, <1>3, OneCommand DEF Known
  <2>3. LoginTypeOK'
    BY <1>1, <1>2, <1>3, <2>1, <2>2, OneCommand, LockedTypes
  <2>4. Alone(p)
    BY <1>1, <1>3, <2>1, OneCommand, LoginAssumption DEF Alone, hubVars
  <2>5. HolderFits(p)'
    BY <1>3, <2>1, OneCommand DEF HolderFits, Holding, Installing, Ending
  <2>6. ASSUME NEW t \in Tokens, t \in made', InHands(p, t) PROVE LookedAfter(t)'
    BY <1>1, <1>3, <2>6, OneCommand, LoginAssumption DEF InHands, LookedAfter
  <2> QED BY <1>1, <1>2, <2>1, <2>3, <2>4, <2>5, <2>6, CommandStep
<1>4. CASE UNCHANGED <<prefs, lock, excused>> /\ RunGoes(p, "rollback")
  <2>1. /\ run'[p].pc = "rollback" /\ run'[p].token = run[p].token /\ run'[p].prev = run[p].prev /\ run'[p].created = run[p].created
        /\ (\A q \in Runs \ {p} : run'[q] = run[q]) /\ run' \in [Runs -> Commands]
    BY <1>4, OneCommand, GoesOn DEF Phases
  <2>2. LoginTypeOK'
    BY <1>1, <1>2, <1>4, <2>1, OneCommand, LockedTypes
  <2>3. Alone(p)
    BY <1>1, <1>4, <2>1 DEF Alone, hubVars
  <2>4. HolderFits(p)'
    BY <1>1, <1>4, <2>1, OneCommand DEF HolderFits, Holding, Installing, Ending
  <2>5. HandsFit(p)'
    BY <1>1, <1>4, <2>1, OneCommand DEF HandsFit, Known, hubVars, Installing, Ending
  <2>6. ASSUME NEW t \in Tokens, t \in made', InHands(p, t) PROVE LookedAfter(t)'
    BY <1>1, <1>4, <2>1, <2>6, OneCommand DEF InHands, LookedAfter
  <2> QED BY <1>1, <1>2, <2>2, <2>3, <2>4, <2>5, <2>6, CommandStep
<1> QED BY <1>3, <1>4 DEF SavePrefs

LEMMA RollbackFits ==
  ASSUME LoginInv, NEW p \in Runs, Rollback(p)
  PROVE  LoginInv'
<1>1. /\ run[p].pc = "rollback" /\ lock = p /\ keychain = run[p].token /\ UNCHANGED <<hubVars, prefs, made, ended>>
      /\ lock' = Nothing /\ Failed(p)
      /\ run[p].token \in made /\ run[p].token # Nothing /\ Known(run[p].token) /\ Known(run[p].prev)
      /\ run[p].created \/ run[p].token = run[p].prev \/ run[p].token \in excused
      /\ run[p].prev = Nothing /\ prefs = "keychain" => excused # {}
  BY OneCommand DEF Rollback, HolderFits, HandsFit, Holding, Installing, Ending
<1>2. ended \subseteq made
  BY OneCommand DEF LoginTypeOK
<1>3. \/ keychain' = run[p].prev /\ UNCHANGED excused
      \/ /\ run[p].token # run[p].prev /\ keychain' \in {keychain, Nothing}
         /\ excused' = excused \cup ({run[p].prev} \ {Nothing})
  BY DEF Rollback, Restored
<1>4. excused \subseteq excused' /\ excused' \subseteq made
  BY <1>1, <1>3, OneCommand DEF Known
<1>5. /\ HandsFit(p)' /\ run'[p].pc \notin Holding
      /\ run[p].created => run'[p].created /\ run'[p].token = run[p].token
      /\ (\A q \in Runs \ {p} : run'[q] = run[q]) /\ run' \in [Runs -> Commands]
  BY <1>1, <1>4, FailedFits DEF hubVars, Installing
<1>6. LoginTypeOK'
  BY <1>1, <1>2, <1>3, <1>4, <1>5, OneCommand, LockedTypes
<1>7. Alone(p)
  BY <1>1, <1>4, <1>5, OneCommand, LoginAssumption DEF Alone, hubVars
<1>8. HolderFits(p)'
  BY <1>1, <1>5, OneCommand DEF HolderFits, Holding, Installing, Ending
<1>9. Known(keychain)'
  BY <1>1, <1>3, OneCommand DEF Known, hubVars
<1>10. prefs' = "keychain" /\ keychain' = Nothing => excused' # {}
  BY <1>1, <1>3
<1>11. ASSUME NEW t \in Tokens, t \in made', InHands(p, t) PROVE LookedAfter(t)'
  BY <1>1, <1>3, <1>4, <1>5, <1>11, OneCommand, LoginAssumption DEF InHands, LookedAfter
<1> QED BY <1>1, <1>6, <1>7, <1>5, <1>8, <1>9, <1>10, <1>11, CommandStep

\* A command that revokes, or leaves a token to its owner, and ends.
LEMMA RevokesAndEnds ==
  ASSUME LoginInv, NEW p \in Runs, lock # p, Ends(p), UNCHANGED <<grant, authority, revision, page, localVars, made, ended>>,
         registry' \in {registry, [registry EXCEPT ![run[p].token] = "revoked"]},
         registry' # registry => registry[run[p].token] = "active",
         excused \subseteq excused', excused' \subseteq made,
         run[p].created => registry'[run[p].token] = "revoked" \/ run[p].token \in excused'
  PROVE  LoginInv'
<1>1. /\ HandsFit(p)' /\ run'[p].pc \notin Holding
      /\ (\A q \in Runs \ {p} : run'[q] = run[q]) /\ run' \in [Runs -> Commands]
  BY IdleFits, HasEnded, OneCommand
<1>2. registry \in [Tokens -> {"none", "active", "revoked"}] /\ registry' \in [Tokens -> {"none", "active", "revoked"}]
  BY OneCommand DEF LoginTypeOK
<1>3. \A t \in Tokens : registry'[t] = registry[t] \/ (registry[t] = "active" /\ registry'[t] = "revoked")
  BY <1>2
<1>4. LoginTypeOK'
  BY <1>1, <1>2, OneCommand DEF LoginTypeOK, localVars, Commands, Phases
<1>5. Alone(p)
  BY <1>1, <1>3 DEF Alone, localVars
<1>6. HolderFits(p)'
  BY <1>1 DEF HolderFits, Holding, Installing, Ending, localVars
<1>7. Known(keychain)' /\ (prefs' = "keychain" /\ keychain' = Nothing => excused' # {})
  BY <1>3, OneCommand DEF Known, localVars, LoginInv
<1>8. ASSUME NEW t \in Tokens, t \in made', registry'[t] # "revoked", InHands(p, t) PROVE LookedAfter(t)'
  BY <1>8 DEF InHands, LookedAfter, localVars
<1> QED BY <1>1, <1>4, <1>5, <1>6, <1>7, <1>8, CommandStep

LEMMA CleanupFits ==
  ASSUME LoginInv, NEW p \in Runs, Cleanup(p)
  PROVE  LoginInv'
<1>1. run[p].pc = "cleanup" /\ lock # p /\ run[p].created /\ run[p].token \in made
  BY OneCommand DEF Cleanup, HolderFits, HandsFit, Holding, Installing, Ending
<1>2. registry[run[p].token] \in {"active", "revoked"} /\ registry \in [Tokens -> {"none", "active", "revoked"}]
  BY <1>1, OneCommand DEF HandsFit, Known, LoginTypeOK
<1>3. CASE /\ registry' = (IF registry[run[p].token] = "active" THEN [registry EXCEPT ![run[p].token] = "revoked"] ELSE registry)
           /\ UNCHANGED excused
  BY <1>1, <1>2, <1>3, OneCommand, RevokesAndEnds DEF Cleanup
<1>4. CASE excused' = excused \cup {run[p].token} /\ UNCHANGED registry
  BY <1>1, <1>2, <1>4, OneCommand, RevokesAndEnds DEF Cleanup
<1> QED BY <1>3, <1>4 DEF Cleanup

LEMMA ClaimFits ==
  ASSUME LoginInv, NEW p \in Runs, Claim(p)
  PROVE  LoginInv'
<1>1. run[p].pc = "file" /\ lock # p /\ run[p].created /\ run[p].token \in made /\ registry[run[p].token] = "active"
  BY OneCommand DEF Claim, HolderFits, HandsFit, Holding, Installing, Ending
<1>2. registry \in [Tokens -> {"none", "active", "revoked"}]
  BY OneCommand DEF LoginTypeOK
<1>3. CASE grant[run[p].token] # 0
  BY <1>1, <1>2, <1>3, OneCommand, RevokesAndEnds DEF Claim
<1>4. CASE grant[run[p].token] = 0 /\ Ends(p)
  BY <1>1, <1>2, <1>4, OneCommand, RevokesAndEnds DEF Claim
<1>5. CASE grant[run[p].token] = 0 /\ UNCHANGED run
  <2>1. /\ registry' = [registry EXCEPT ![run[p].token] = "revoked"]
        /\ UNCHANGED <<grant, authority, revision, page, localVars, run, made, excused, ended>>
    BY <1>5 DEF Claim
  <2>2. LoginTypeOK'
    BY <2>1, OneCommand DEF LoginTypeOK, localVars
  <2>3. Alone(p)
    BY <1>1, <1>2, <2>1 DEF Alone, localVars
  <2>4. HolderFits(p)' /\ HandsFit(p)'
    BY <1>1, <2>1, <2>3, OneCommand DEF HolderFits, HandsFit, Known, localVars, Alone, Holding, Installing, Ending
  <2>5. Known(keychain)' /\ (prefs' = "keychain" /\ keychain' = Nothing => excused' # {})
    BY <2>1, <2>3, OneCommand DEF Known, Alone, localVars, LoginInv
  <2>6. ASSUME NEW t \in Tokens, t \in made', InHands(p, t) PROVE LookedAfter(t)'
    BY <1>1, <2>1, <2>6 DEF InHands, LookedAfter, localVars
  <2> QED BY <2>1, <2>2, <2>3, <2>4, <2>5, <2>6, CommandStep
<1> QED BY <1>3, <1>4, <1>5 DEF Claim

LEMMA EnableFits ==
  ASSUME LoginInv, NEW p \in Runs, NEW t \in Tokens, Enable(p, t)
  PROVE  LoginInv'
<1> DEFINE c == [pc |-> IF t = keychain THEN "prefs" ELSE "store", prev |-> keychain, token |-> t,
                 created |-> FALSE, profile |-> FALSE]
<1>1. /\ c \in Commands /\ c.pc \in {"prefs", "store"} /\ (c.pc = "prefs" => t = keychain)
      /\ c.prev = keychain /\ c.token = t /\ c.created = FALSE
  BY OneCommand DEF Commands, Phases
<1>2. run'[p] = c /\ (\A q \in Runs \ {p} : run'[q] = run[q]) /\ run' \in [Runs -> Commands]
  BY <1>1, OneCommand, Replaced DEF Enable
<1> HIDE DEF c
<1>3. ~run[p].created /\ lock = Nothing /\ lock' = p /\ UNCHANGED <<hubVars, keychain, prefs, made, excused, ended>>
  BY OneCommand DEF Enable, HandsFit, Holding, Installing, Ending
<1>4. t \in excused /\ Known(t)
  BY OneCommand DEF Enable, LoginInv, TokenFits, Known
<1>5. LoginTypeOK'
  BY <1>2, <1>3, OneCommand, LockedTypes DEF LoginTypeOK
<1>6. Alone(p)
  BY <1>2, <1>3, LoginAssumption DEF Alone, hubVars
<1>7. prefs = "keychain" /\ keychain = Nothing => excused # {}
  BY DEF LoginInv
<1>8. HolderFits(p)'
  BY <1>1, <1>2, <1>3, <1>7 DEF HolderFits, Holding, Installing, Ending
<1>9. HandsFit(p)'
  BY <1>1, <1>2, <1>3, <1>4, OneCommand, LoginAssumption DEF HandsFit, Known, hubVars, Installing, Ending
<1>10. ASSUME NEW u \in Tokens, u \in made', InHands(p, u) PROVE LookedAfter(u)'
  BY <1>3, <1>10, OneCommand DEF InHands, LookedAfter
<1> QED BY <1>3, <1>5, <1>6, <1>7, <1>8, <1>9, <1>10, OneCommand, CommandStep DEF Known, hubVars

LEMMA LogoutFits ==
  ASSUME LoginInv, NEW p \in Runs, Logout(p)
  PROVE  LoginInv'
<1> DEFINE c == [NotRunning EXCEPT !.pc = IF keychain = Nothing THEN "signout" ELSE "revoke", !.token = keychain]
<1>1. /\ c \in Commands /\ c.pc \in {"revoke", "signout"} /\ (c.pc = "signout" <=> keychain = Nothing)
      /\ c.prev = Nothing /\ c.token = keychain /\ c.created = FALSE
  BY OneCommand DEF Commands, Phases, NotRunning
<1>2. run'[p] = c /\ (\A q \in Runs \ {p} : run'[q] = run[q]) /\ run' \in [Runs -> Commands]
  BY <1>1, OneCommand, Replaced DEF Logout
<1> HIDE DEF c
<1>3. ~run[p].created /\ lock = Nothing /\ lock' = p /\ UNCHANGED <<hubVars, keychain, prefs, made, excused, ended>>
  BY OneCommand DEF Logout, HandsFit, Holding, Installing, Ending
<1>4. LoginTypeOK'
  BY <1>2, <1>3, OneCommand, LockedTypes DEF LoginTypeOK
<1>5. Alone(p)
  BY <1>2, <1>3, LoginAssumption DEF Alone, hubVars
<1>6. HolderFits(p)'
  BY <1>1, <1>2, <1>3 DEF HolderFits, Holding, Installing, Ending
<1>7. HandsFit(p)'
  BY <1>1, <1>2, <1>3, OneCommand, LoginAssumption DEF HandsFit, Known, hubVars, Installing, Ending
<1>8. ASSUME NEW u \in Tokens, u \in made', InHands(p, u) PROVE LookedAfter(u)'
  BY <1>3, <1>8, OneCommand DEF InHands, LookedAfter
<1>9. Known(keychain)' /\ (prefs' = "keychain" /\ keychain' = Nothing => excused' # {})
  BY <1>3, OneCommand DEF Known, hubVars, LoginInv
<1> QED BY <1>3, <1>4, <1>5, <1>6, <1>7, <1>8, <1>9, CommandStep

LEMMA RevokeSavedFits ==
  ASSUME LoginInv, NEW p \in Runs, RevokeSaved(p)
  PROVE  LoginInv'
<1>1. /\ run[p].pc = "revoke" /\ lock = p /\ keychain = run[p].token /\ run[p].prev = Nothing /\ ~run[p].created
      /\ run[p].token \in Tokens /\ registry[run[p].token] # "none" /\ run[p].token \in made
      /\ UNCHANGED <<grant, authority, revision, page, keychain, prefs, made, excused, ended>>
  BY OneCommand DEF RevokeSaved, HolderFits, HandsFit, Known, Holding, Installing, Ending
<1>2. registry' \in {registry, [registry EXCEPT ![run[p].token] = IF @ = "active" THEN "revoked" ELSE @]}
  BY DEF RevokeSaved
<1>3. registry \in [Tokens -> {"none", "active", "revoked"}] /\ registry' \in [Tokens -> {"none", "active", "revoked"}]
  BY <1>1, <1>2, OneCommand DEF LoginTypeOK
<1>4. \A t \in Tokens : registry'[t] = registry[t] \/ (registry[t] = "active" /\ registry'[t] = "revoked")
  BY <1>1, <1>2, <1>3
<1>5. Known(keychain)' /\ (prefs' = "keychain" /\ keychain' = Nothing => excused' # {})
  BY <1>1, <1>4, OneCommand DEF Known, LoginInv
<1>6. CASE SignsOut(p) /\ RunGoes(p, "signout") /\ UNCHANGED lock
  <2>1. /\ run'[p].pc = "signout" /\ run'[p].token = run[p].token /\ run'[p].prev = run[p].prev /\ run'[p].created = run[p].created
        /\ (\A q \in Runs \ {p} : run'[q] = run[q]) /\ run' \in [Runs -> Commands]
    BY <1>6, OneCommand, GoesOn DEF Phases
  <2>2. LoginTypeOK'
    BY <1>1, <1>3, <1>6, <2>1, OneCommand DEF LoginTypeOK, Commands, Phases
  <2>3. Alone(p)
    BY <1>1, <1>4, <1>6, <2>1 DEF Alone
  <2>4. registry'[run[p].token] = "revoked"
    BY <1>1, <1>3, <1>4, <1>6 DEF SignsOut
  <2>5. HolderFits(p)' /\ HandsFit(p)'
    BY <1>1, <1>6, <2>1, <2>4, LoginAssumption DEF HolderFits, HandsFit, Known, Holding, Installing, Ending
  <2>6. ASSUME NEW t \in Tokens, t \in made', InHands(p, t) PROVE LookedAfter(t)'
    BY <1>1, <2>6, LoginAssumption DEF InHands, LookedAfter
  <2> QED BY <1>1, <1>5, <2>2, <2>3, <2>5, <2>6, CommandStep
<1>7. CASE Ends(p) /\ lock' = Nothing
  <2>1. /\ HandsFit(p)' /\ run'[p].pc \notin Holding
        /\ (\A q \in Runs \ {p} : run'[q] = run[q]) /\ run' \in [Runs -> Commands]
    BY <1>7, IdleFits, HasEnded, OneCommand
  <2>2. LoginTypeOK'
    BY <1>1, <1>3, <1>7, <2>1, OneCommand DEF LoginTypeOK, Commands, Phases
  <2>3. Alone(p)
    BY <1>1, <1>4, <1>7, <2>1, OneCommand, LoginAssumption DEF Alone
  <2>4. HolderFits(p)'
    BY <1>7, <2>1, OneCommand DEF HolderFits, Holding, Installing, Ending
  <2>5. ASSUME NEW t \in Tokens, t \in made', InHands(p, t) PROVE LookedAfter(t)'
    BY <1>1, <2>5, LoginAssumption DEF InHands, LookedAfter
  <2> QED BY <1>1, <1>5, <2>1, <2>2, <2>3, <2>4, <2>5, CommandStep
<1> QED BY <1>6, <1>7 DEF RevokeSaved

LEMMA SignOutFits ==
  ASSUME LoginInv, NEW p \in Runs, SignOut(p)
  PROVE  LoginInv'
<1>1. /\ run[p].pc = "signout" /\ lock = p /\ keychain = run[p].token /\ run[p].prev = Nothing /\ ~run[p].created
      /\ (run[p].token # Nothing => registry[run[p].token] = "revoked")
      /\ UNCHANGED <<hubVars, keychain, made, excused, ended>>
  BY OneCommand DEF SignOut, HolderFits, HandsFit, Holding, Installing, Ending
<1>2. prefs' = "signed_out" /\ RunGoes(p, "delete") /\ lock' = lock
  BY <1>1 DEF SignOut
<1>3. /\ run'[p].pc = "delete" /\ run'[p].token = run[p].token /\ run'[p].prev = run[p].prev /\ run'[p].created = run[p].created
      /\ (\A q \in Runs \ {p} : run'[q] = run[q]) /\ run' \in [Runs -> Commands]
  BY <1>2, OneCommand, GoesOn DEF Phases
<1>4. LoginTypeOK'
  BY <1>1, <1>2, <1>3, OneCommand, LockedTypes DEF LoginTypeOK
<1>5. Alone(p)
  BY <1>1, <1>2, <1>3 DEF Alone, hubVars
<1>6. HolderFits(p)' /\ HandsFit(p)'
  BY <1>1, <1>2, <1>3, OneCommand DEF HolderFits, HandsFit, Known, hubVars, Holding, Installing, Ending
<1>7. ASSUME NEW t \in Tokens, t \in made', InHands(p, t) PROVE LookedAfter(t)'
  BY <1>1, <1>7, LoginAssumption DEF InHands, LookedAfter
<1> QED BY <1>1, <1>2, <1>4, <1>5, <1>6, <1>7, OneCommand, CommandStep DEF Known, hubVars

LEMMA DeleteFits ==
  ASSUME LoginInv, NEW p \in Runs, Delete(p)
  PROVE  LoginInv'
<1>1. /\ run[p].pc = "delete" /\ lock = p /\ keychain = run[p].token /\ run[p].prev = Nothing /\ ~run[p].created
      /\ (run[p].token # Nothing => registry[run[p].token] = "revoked" /\ run[p].token \in made)
      /\ prefs = "signed_out"
  BY OneCommand DEF Delete, HolderFits, HandsFit, Holding, Installing, Ending
<1>2. /\ keychain' = Nothing /\ lock' = Nothing /\ Ends(p) /\ UNCHANGED <<hubVars, prefs, made, excused>>
      /\ ended' = ended \cup ({run[p].token} \ {Nothing})
  BY DEF Delete
<1>3. /\ HandsFit(p)' /\ run'[p].pc \notin Holding
      /\ (\A q \in Runs \ {p} : run'[q] = run[q]) /\ run' \in [Runs -> Commands]
  BY <1>2, IdleFits, HasEnded, OneCommand
<1>4. ended' \subseteq made
  BY <1>1, <1>2, OneCommand DEF LoginTypeOK
<1>5. LoginTypeOK'
  BY <1>1, <1>2, <1>3, <1>4, OneCommand, LockedTypes
<1>6. Alone(p)
  BY <1>1, <1>2, <1>3, OneCommand, LoginAssumption DEF Alone, hubVars
<1>7. HolderFits(p)'
  BY <1>2, <1>3, OneCommand DEF HolderFits, Holding, Installing, Ending
<1>8. ASSUME NEW t \in Tokens, t \in made', registry'[t] # "revoked", InHands(p, t) PROVE LookedAfter(t)'
  BY <1>1, <1>2, <1>8, LoginAssumption DEF InHands, LookedAfter, hubVars
<1>9. \A t \in Tokens : t \in ended' => t \in ended \/ registry'[t] = "revoked"
  BY <1>1, <1>2 DEF hubVars
<1>10. Known(keychain)' /\ prefs' # "keychain"
  BY <1>1, <1>2 DEF Known
<1> QED BY <1>3, <1>5, <1>6, <1>7, <1>8, <1>9, <1>10, CommandStep

LEMMA KilledFits ==
  ASSUME LoginInv, NEW p \in Runs, Killed(p)
  PROVE  LoginInv'
<1>1. /\ lock' = IF lock = p THEN Nothing ELSE lock
      /\ excused' = excused \cup ({run[p].token, run[p].prev} \ {Nothing})
      /\ Ends(p) /\ UNCHANGED <<hubVars, keychain, prefs, made, ended>>
  BY DEF Killed
<1>2. /\ HandsFit(p)' /\ run'[p].pc \notin Holding
      /\ (\A q \in Runs \ {p} : run'[q] = run[q]) /\ run' \in [Runs -> Commands]
  BY <1>1, IdleFits, HasEnded, OneCommand
<1>3. excused \subseteq excused' /\ excused' \subseteq made /\ ended \subseteq made
  BY <1>1, OneCommand DEF HandsFit, Known, LoginTypeOK
<1>4. lock' \in Runs \cup {Nothing} /\ lock' # p
  BY <1>1, OneCommand
<1>5. LoginTypeOK'
  BY <1>1, <1>2, <1>3, <1>4, OneCommand, LockedTypes
<1>6. Alone(p)
  BY <1>1, <1>2, <1>3, <1>4, OneCommand, LoginAssumption DEF Alone, hubVars
<1>7. HolderFits(p)'
  BY <1>2, <1>4 DEF HolderFits, Holding, Installing, Ending
<1>8. ASSUME NEW t \in Tokens, t \in made', InHands(p, t) PROVE LookedAfter(t)'
  BY <1>1, <1>3, <1>8, LoginAssumption DEF InHands, LookedAfter
<1>9. Known(keychain)' /\ (prefs' = "keychain" /\ keychain' = Nothing => excused' # {})
  BY <1>1, <1>3, OneCommand DEF Known, hubVars, LoginInv
<1> QED BY <1>1, <1>2, <1>5, <1>6, <1>7, <1>8, <1>9, CommandStep

-----------------------------------------------------------------------------
(* Tokens: the owner and the hub *)

\* Commands and their tokens are as they were when only the hub moves.
LEMMA HubMoves ==
  ASSUME LoginInv, UNCHANGED <<run, localVars>>, excused \subseteq excused', made \subseteq made',
         \A t \in Tokens : registry[t] # "none" => registry'[t] # "none",
         \A t \in Tokens : registry[t] = "revoked" => registry'[t] = "revoked"
  PROVE  /\ \A p \in Runs : HolderFits(p)' /\ HandsFit(p)'
         /\ Known(keychain)' /\ (prefs' = "keychain" /\ keychain' = Nothing => excused' # {})
         /\ \A t \in Tokens : LookedAfter(t) => LookedAfter(t)'
<1>1. ASSUME NEW p \in Runs PROVE HolderFits(p)' /\ HandsFit(p)'
  <2>1. HolderFits(p) /\ HandsFit(p)
    BY OneCommand
  <2>2. run[p].prev \in Tokens \cup {Nothing} /\ run[p].token \in Tokens \cup {Nothing}
    BY OneCommand
  <2> QED BY <2>1, <2>2 DEF HolderFits, HandsFit, Known, localVars
<1>2. Known(keychain)' /\ (prefs' = "keychain" /\ keychain' = Nothing => excused' # {})
  BY DEF LoginInv, LoginTypeOK, Known, localVars
<1>3. \A t \in Tokens : LookedAfter(t) => LookedAfter(t)'
  BY DEF LookedAfter, localVars
<1> QED BY <1>1, <1>2, <1>3

LEMMA OpenPageFits ==
  ASSUME LoginInv, NEW t \in Tokens, OpenPage(t)
  PROVE  LoginInv'
<1>1. t \in made /\ UNCHANGED <<registry, grant, authority, revision, localVars, run, made, excused, ended>>
  BY OneCommand, LoginAssumption DEF OpenPage, HandsFit
<1>2. PICK shown \in {0, revision} : page' = page \cup {[token |-> t, revision |-> shown]}
  BY DEF OpenPage
<1>3. LoginTypeOK'
  BY <1>1, <1>2, LoginAssumption DEF LoginInv, LoginTypeOK, localVars
<1>4. \A f \in page' : f.token \in made'
  BY <1>1, <1>2 DEF LoginInv
<1>5. \A u \in Tokens : TokenFits(u)'
  BY <1>1, <1>2, HubMoves DEF LoginInv, TokenFits
<1> QED BY <1>1, <1>3, <1>4, <1>5, HubMoves DEF LoginInv

\* A token that is approved has the authority and the grant its page shows.
LEMMA ApproveFits ==
  ASSUME LoginInv, NEW f \in page, Approve(f)
  PROVE  LoginInv'
<1> DEFINE t == f.token
<1>1. /\ t \in Tokens /\ t \in made /\ f = [token |-> t, revision |-> f.revision] /\ f.revision \in Nat
      /\ revision \in Nat \ {0} /\ FormCurrent(f) /\ Registered(f) /\ TokenFits(t)
      /\ UNCHANGED <<revision, page, localVars, run, made, excused, ended>>
      /\ authority[t] \in {"none", "user", "agent"} /\ grant[t] \in Nat
  BY LoginAssumption DEF LoginInv, LoginTypeOK, Approve
<1>2. /\ registry' = [registry EXCEPT ![t] = "active"]
      /\ grant' = [grant EXCEPT ![t] = IF f.revision = 0 THEN 0 ELSE revision]
      /\ authority' = IF f.revision = 0 /\ authority[t] = "none" THEN [authority EXCEPT ![t] = "user"] ELSE authority
  BY DEF Approve
<1> HIDE DEF t
<1>3. LoginTypeOK'
  BY <1>1, <1>2, LoginAssumption DEF LoginInv, LoginTypeOK, localVars
<1>4. registry[t] # "revoked" /\ registry'[t] = "active"
  BY <1>1, <1>2 DEF Registered, t, LoginInv, LoginTypeOK
<1>5. \A u \in Tokens \ {t} : registry'[u] = registry[u] /\ grant'[u] = grant[u] /\ authority'[u] = authority[u]
  BY <1>2 DEF LoginInv, LoginTypeOK
<1>6. /\ \A u \in Tokens : registry[u] # "none" => registry'[u] # "none"
      /\ \A u \in Tokens : registry[u] = "revoked" => registry'[u] = "revoked"
  BY <1>4, <1>5
<1>7. \A u \in Tokens : LookedAfter(u) => LookedAfter(u)'
  BY <1>1, <1>6, HubMoves
<1>8. ASSUME NEW u \in Tokens, u # t PROVE TokenFits(u)'
  BY <1>1, <1>5, <1>7, <1>8 DEF LoginInv, TokenFits
<1>9. grant'[t] = IF f.revision = 0 THEN 0 ELSE revision
  BY <1>1, <1>2 DEF LoginInv, LoginTypeOK
<1>10. authority'[t] = IF f.revision = 0 /\ authority[t] = "none" THEN "user" ELSE authority[t]
  BY <1>1, <1>2 DEF LoginInv, LoginTypeOK
<1>11. grant'[t] # 0 => authority'[t] = "none" /\ [token |-> t, revision |-> grant'[t]] \in page
  <2>1. CASE f.revision # 0
    <3>1. f.revision = revision /\ grant'[t] = f.revision
      BY <1>1, <1>9, <2>1 DEF FormCurrent
    <3>2. authority[t] = "none"
      BY <1>1, <2>1 DEF Registered, TokenFits, t
    <3> QED BY <1>1, <1>10, <2>1, <3>1, <3>2
  <2> QED BY <1>9, <2>1
<1>12. authority'[t] = "user" => [token |-> t, revision |-> 0] \in page
  BY <1>1, <1>10 DEF TokenFits
<1>13. authority'[t] = "agent" => t \in excused
  BY <1>1, <1>10 DEF TokenFits
<1>14. TokenFits(t)'
  BY <1>1, <1>4, <1>7, <1>11, <1>12, <1>13 DEF TokenFits
<1> QED BY <1>1, <1>3, <1>6, <1>8, <1>14, HubMoves DEF LoginInv

LEMMA ProfileFits == LoginInv /\ ProfileChanges => LoginInv'
<1> SUFFICES ASSUME LoginInv, ProfileChanges PROVE LoginInv'
  OBVIOUS
<1>1. LoginTypeOK'
  BY LoginAssumption DEF LoginInv, LoginTypeOK, ProfileChanges, localVars
<1>2. \A u \in Tokens : TokenFits(u)'
  BY HubMoves DEF LoginInv, TokenFits, ProfileChanges
<1> QED BY <1>1, <1>2, HubMoves DEF LoginInv, ProfileChanges

LEMMA RevokeFits ==
  ASSUME LoginInv, NEW t \in Tokens, Revoke(t)
  PROVE  LoginInv'
<1>1. /\ registry[t] = "active" /\ registry' = [registry EXCEPT ![t] = "revoked"]
      /\ UNCHANGED <<grant, authority, revision, page, localVars, run, made, excused, ended>>
  BY DEF Revoke
<1>2. LoginTypeOK' /\ \A u \in Tokens : registry'[u] = IF u = t THEN "revoked" ELSE registry[u]
  BY <1>1 DEF LoginInv, LoginTypeOK, localVars
<1>3. \A u \in Tokens : LookedAfter(u) => LookedAfter(u)'
  BY <1>1, <1>2, HubMoves
<1>4. ASSUME NEW u \in Tokens PROVE TokenFits(u)'
  <2>1. TokenFits(u)
    BY DEF LoginInv
  <2>2. registry'[u] # "revoked" => u # t
    BY <1>2
  <2> QED BY <1>1, <1>2, <1>3, <2>1, <2>2 DEF TokenFits
<1> QED BY <1>1, <1>2, <1>4, HubMoves DEF LoginInv

LEMMA MintFits ==
  ASSUME LoginInv, NEW t \in Tokens, MintToken(t)
  PROVE  LoginInv'
<1>1. /\ t \notin made /\ registry[t] = "none"
      /\ registry' = [registry EXCEPT ![t] = "active"] /\ authority' = [authority EXCEPT ![t] = "agent"]
      /\ made' = made \cup {t} /\ excused' = excused \cup {t}
      /\ UNCHANGED <<grant, revision, page, localVars, run, ended>>
  BY DEF MintToken
<1>2. /\ LoginTypeOK'
      /\ \A u \in Tokens : registry'[u] = IF u = t THEN "active" ELSE registry[u]
      /\ \A u \in Tokens : authority'[u] = IF u = t THEN "agent" ELSE authority[u]
  BY <1>1 DEF LoginInv, LoginTypeOK, localVars
<1>3. \A u \in Tokens : LookedAfter(u) => LookedAfter(u)'
  BY <1>1, <1>2, HubMoves
<1>4. ASSUME NEW u \in Tokens, u # t PROVE TokenFits(u)'
  BY <1>1, <1>2, <1>3, <1>4 DEF LoginInv, TokenFits
<1>5. TokenFits(t)'
  <2>1. TokenFits(t) /\ t \notin ended
    BY <1>1 DEF LoginInv, LoginTypeOK
  <2>2. LookedAfter(t)'
    BY <1>1 DEF LookedAfter
  <2> QED BY <1>1, <1>2, <2>1, <2>2 DEF TokenFits
<1>6. \A f \in page' : f.token \in made'
  BY <1>1 DEF LoginInv
<1> QED BY <1>1, <1>2, <1>4, <1>5, <1>6, HubMoves DEF LoginInv

-----------------------------------------------------------------------------
LEMMA LoginStarts == LoginInit => LoginInv
<1> SUFFICES ASSUME LoginInit PROVE LoginInv
  OBVIOUS
<1>1. LoginTypeOK
  BY LoginAssumption DEF LoginInit, LoginTypeOK, NotRunning
<1>2. \A p \in Runs : HolderFits(p) /\ HandsFit(p)
  BY LoginAssumption DEF LoginInit, NotRunning, HolderFits, HandsFit, Known, Holding, Installing, Ending
<1>3. \A t \in Tokens : TokenFits(t)
  BY DEF LoginInit, TokenFits
<1> QED BY <1>1, <1>2, <1>3 DEF LoginInit, LoginInv, Known

LEMMA LoginSteps == LoginInv /\ [LoginNext]_loginVars => LoginInv'
<1> SUFFICES ASSUME LoginInv, [LoginNext]_loginVars PROVE LoginInv'
  OBVIOUS
<1>1. ASSUME NEW t \in Tokens, OpenPage(t) \/ Revoke(t) \/ MintToken(t) PROVE LoginInv'
  BY <1>1, OpenPageFits, RevokeFits, MintFits
<1>2. ASSUME NEW f \in page, Approve(f) PROVE LoginInv'
  BY <1>2, ApproveFits
<1>3. ASSUME NEW p \in Runs, NEW t \in Tokens,
             RequestEnrollment(p, t) \/ Enable(p, t) \/ PastedLogin(p, t) \/ StartEnrollment(p, t)
      PROVE  LoginInv'
  BY <1>3, RequestFits, EnableFits, PastedFits, StartFits
<1>4. ASSUME NEW p \in Runs, Login(p) \/ CheckSession(p) \/ Approved(p) \/ GiveUp(p) \/ TakeLock(p) \/ Store(p) \/ SavePrefs(p)
      PROVE  LoginInv'
  BY <1>4, LoginFits, CheckSessionFits, ApprovedFits, GiveUpFits, TakeLockFits, StoreFits, SavePrefsFits
<1>5. ASSUME NEW p \in Runs,
             Rollback(p) \/ Cleanup(p) \/ Claim(p) \/ Logout(p) \/ RevokeSaved(p) \/ SignOut(p) \/ Delete(p) \/ Killed(p)
      PROVE  LoginInv'
  BY <1>5, RollbackFits, CleanupFits, ClaimFits, LogoutFits, RevokeSavedFits, SignOutFits, DeleteFits, KilledFits
<1>6. CASE ProfileChanges
  BY <1>6, ProfileFits
<1>7. CASE UNCHANGED loginVars
  BY <1>7 DEF loginVars, LoginInv, LoginTypeOK, Known, HolderFits, HandsFit, TokenFits, LookedAfter
<1> QED BY <1>1, <1>2, <1>3, <1>4, <1>5, <1>6, <1>7 DEF LoginNext

\* Whatever logins, logouts, pasted tokens, approvals, revocations and kills
\* interleave: a token the hub accepts is installed, in somebody's hands, or one the
\* owner was told of; a logged-out token stays refused; and a token has only the
\* authority its owner was shown.
THEOREM LoginIsSound == LoginSpec => []LoginSound
<1>1. LoginInv => LoginSound
  <2> SUFFICES ASSUME LoginInv PROVE LoginSound
    OBVIOUS
  <2>1. NoOrphan
    BY DEF LoginInv, TokenFits, LookedAfter, NoOrphan
  <2>2. LoggedOut /\ GrantsShown
    BY DEF LoginInv, LoginTypeOK, TokenFits, LoggedOut, GrantsShown
  <2>3. SignedIn
    BY DEF LoginInv, SignedIn
  <2> QED BY <2>1, <2>2, <2>3 DEF LoginInv, LoginSound
<1> QED BY LoginStarts, LoginSteps, <1>1, PTL DEF LoginSpec

-----------------------------------------------------------------------------
(* The inductive invariant of changesets *)

\* What a request asks for; a handler's work.
AskFits(k) ==
  /\ ask[k].op \in {"approve", "reject"} => ask[k].prop \in Keys /\ prop[ask[k].prop].state # "none"
  /\ ask[k].op = "none" => receipt[k].kind = "none"

HandlerWorks(h) ==
  LET k == handler[h].key
  IN  handler[h].pc # "idle" =>
        /\ k \in Keys /\ ask[k].op # "none"
        /\ handler[h].pc = "plan" => ask[k].op \in {"create", "approve"}
        /\ handler[h].pc = "commit" => ask[k].op = "reject" \/ handler[h].reads = ask[k].reads

\* A proposal is what its key's receipt says was done; so is a rejection.
ProposalFits(k) ==
  /\ prop[k].state # "none" => receipt[k].kind \in {"done", "purged"}
  /\ receipt[k].kind = "done" /\ ask[k].op = "reject" => prop[ask[k].prop].state = "rejected"
  /\ receipt[k].kind = "done" /\ ask[k].op = "approve" => \E a \in applied : a.key = k

\* What was written was asked for, read as it stands, and answered for.
AppliedFits(a) ==
  /\ a.key \in Keys /\ a.prop \in Keys
  /\ ask[a.key].op = "approve" /\ ask[a.key].prop = a.prop /\ ask[a.key].reads = a.before
  /\ receipt[a.key].kind \in {"done", "purged"}
  /\ prop[a.prop].state \in {"approved", "purged"}

\* What was told is in the receipt, or was until it was purged.
ToldFits(k) ==
  /\ \E kind \in {"done", "refused", "gone"} : told[k] \subseteq {kind, "purged"}
  /\ \A kind \in told[k] : receipt[k].kind \in {kind, "purged"}
  /\ told[k] \cap {"refused", "gone"} # {} => \A a \in applied : a.key # k

\* A reading after the last purge of its rows.
After(reads) == \A r \in CsRows : reads[r] >= purged[r] \/ reads[r] = -purged[r]

ErasedFits(k) ==
  /\ prop[k].state \in {"pending", "approved", "rejected"} => After(prop[k].reads)
  /\ receipt[k].kind = "done" /\ ask[k].op # "reject" => After(receipt[k].reads)

CsInv ==
  /\ CsTypeOK
  /\ told \in [Keys -> SUBSET {"done", "refused", "gone", "purged"}]
  /\ \A k \in Keys : AskFits(k) /\ ProposalFits(k) /\ ToldFits(k) /\ ErasedFits(k)
  /\ \A h \in Handlers : HandlerWorks(h)
  /\ \A a \in applied : AppliedFits(a)
  /\ \A a, b \in applied : a.prop = b.prop \/ a.key = b.key => a = b
  /\ \A r \in CsRows : purged[r] <= latest
  /\ After(rev)

Asked == [op : {"none", "create", "approve", "reject"}, prop : Keys \cup {NoKey}, reads : Reading, late : BOOLEAN]
Proposals == [state : {"none", "pending", "approved", "rejected", "purged"}, reads : Reading]
Receipts == [kind : {"none", "done", "refused", "gone", "purged"}, reads : Reading]
Working == [pc : {"idle", "replay", "load", "plan", "commit", "recover", "settle", "gone"}, key : Keys \cup {NoKey}, reads : Reading]
Kinds == {"done", "refused", "gone", "purged"}

CsTypes ==
  /\ rev \in Reading /\ latest \in 1 .. Top /\ purged \in [CsRows -> 0 .. Top]
  /\ ask \in [Keys -> Asked] /\ prop \in [Keys -> Proposals]
  /\ receipt \in [Keys -> Receipts] /\ handler \in [Handlers -> Working]

LEMMA TypesNamed == (CsTypeOK <=> CsTypes) /\ (CsTypeOK' <=> CsTypes')
BY DEF CsTypeOK, CsTypes, Asked, Proposals, Receipts, Working

LEMMA Bounds ==
  /\ Top \in Nat /\ MaxRevision \in Nat \ {0} /\ MaxRevision <= Top
  /\ Unread \in Reading /\ [r \in CsRows |-> 1] \in Reading
BY ChangesetAssumption DEF Top, Unread, Reading

LEMMA CsFields ==
  ASSUME CsTypeOK, NEW k \in Keys
  PROVE  /\ ask[k] \in Asked /\ prop[k] \in Proposals /\ receipt[k] \in Receipts
         /\ ask[k].op \in {"none", "create", "approve", "reject"} /\ ask[k].reads \in Reading
         /\ prop[k].state \in {"none", "pending", "approved", "rejected", "purged"} /\ prop[k].reads \in Reading
         /\ receipt[k].kind \in {"none"} \cup Kinds /\ receipt[k].reads \in Reading
<1>1. ask[k] \in Asked /\ prop[k] \in Proposals /\ receipt[k] \in Receipts
  BY TypesNamed DEF CsTypes
<1> QED BY <1>1 DEF Asked, Proposals, Receipts, Kinds

LEMMA HandlerFields ==
  ASSUME CsTypeOK, NEW h \in Handlers
  PROVE  handler[h] \in Working /\ handler[h].reads \in Reading
<1>1. handler[h] \in Working
  BY TypesNamed DEF CsTypes
<1> QED BY <1>1 DEF Working

\* A step that moves one handler and nothing else.
LEMMA HandlerMoves ==
  ASSUME CsInv, NEW h \in Handlers, NEW w \in Working, handler' = [handler EXCEPT ![h] = w],
         UNCHANGED <<rev, latest, ask, prop, receipt, told, applied, purged>>, HandlerWorks(h)'
  PROVE  CsInv'
<1>1. handler'[h] = w /\ (\A g \in Handlers \ {h} : handler'[g] = handler[g]) /\ CsTypes'
  BY TypesNamed DEF CsInv, CsTypes
<1>2. \A g \in Handlers : HandlerWorks(g)'
  BY <1>1 DEF CsInv, HandlerWorks
<1> QED BY SMTT(30), <1>1, <1>2, TypesNamed DEF CsInv, CsTypeOK, CsTypes, Asked, Proposals, Receipts, Working,
           AskFits, ProposalFits, ToldFits, ErasedFits, AppliedFits, After

\* A handler that only goes on to another phase.
LEMMA HandlerGoesOn ==
  ASSUME CsTypeOK, NEW h \in Handlers,
         NEW pc \in {"idle", "replay", "load", "plan", "commit", "recover", "settle", "gone"}, HandlerGoes(h, pc)
  PROVE  /\ [handler[h] EXCEPT !.pc = pc] \in Working
         /\ handler' = [handler EXCEPT ![h] = [handler[h] EXCEPT !.pc = pc]]
         /\ handler' \in [Handlers -> Working]
         /\ handler'[h].pc = pc /\ handler'[h].key = handler[h].key /\ handler'[h].reads = handler[h].reads
         /\ \A g \in Handlers \ {h} : handler'[g] = handler[g]
<1>1. handler \in [Handlers -> Working]
  BY TypesNamed DEF CsTypes
<1>2. [handler[h] EXCEPT !.pc = pc] \in Working
  BY <1>1 DEF Working
<1>3. handler' = [handler EXCEPT ![h] = [handler[h] EXCEPT !.pc = pc]]
  BY DEF HandlerGoes
<1>4. handler'[h] = [handler[h] EXCEPT !.pc = pc]
  BY <1>1, <1>3
<1> QED BY <1>1, <1>2, <1>3, <1>4 DEF Working

LEMMA NotHandlingTyped == NotHandling \in Working /\ NotHandling.pc = "idle" /\ NotHandling.key = NoKey
BY Bounds DEF NotHandling, Working

LEMMA DispatchWorks ==
  ASSUME CsInv, NEW h \in Handlers, NEW k \in Keys, Dispatch(h, k)
  PROVE  CsInv'
<1> DEFINE w == [NotHandling EXCEPT !.pc = "replay", !.key = k]
<1>1. w \in Working /\ w.pc = "replay" /\ w.key = k
  BY Bounds DEF NotHandling, Working
<1> HIDE DEF w
<1>2. handler' = [handler EXCEPT ![h] = w] /\ UNCHANGED <<rev, latest, ask, prop, receipt, told, applied, purged>>
  BY DEF Dispatch, w
<1>3. handler'[h] = w
  BY <1>2 DEF CsInv, CsTypeOK
<1>4. HandlerWorks(h)'
  BY <1>1, <1>2, <1>3 DEF HandlerWorks, Dispatch
<1> QED BY <1>1, <1>2, <1>4, HandlerMoves

LEMMA DiesWorks ==
  ASSUME CsInv, NEW h \in Handlers, Dies(h)
  PROVE  CsInv'
<1>1. handler'[h] = NotHandling
  BY DEF Dies, CsInv, CsTypeOK
<1>2. HandlerWorks(h)'
  BY <1>1, NotHandlingTyped DEF HandlerWorks
<1> QED BY <1>2, NotHandlingTyped, HandlerMoves DEF Dies

LEMMA LoadWorks ==
  ASSUME CsInv, NEW h \in Handlers, Load(h)
  PROVE  CsInv'
<1> DEFINE q == ask[handler[h].key]
<1>1. handler[h].pc = "load" /\ handler[h].key \in Keys /\ q.op # "none"
  BY DEF Load, CsInv, HandlerWorks
<1>2. q.op \in {"none", "create", "approve", "reject"}
  BY <1>1, CsFields DEF CsInv
<1>3. PICK pc \in {"gone", "settle", "commit", "plan"} :
        HandlerGoes(h, pc) /\ (pc = "commit" => q.op = "reject") /\ (pc = "plan" => q.op # "reject")
  BY DEF Load
<1> HIDE DEF q
<1>4. UNCHANGED <<rev, latest, ask, prop, receipt, told, applied, purged>>
  BY DEF Load
<1>5. /\ handler' = [handler EXCEPT ![h] = [handler[h] EXCEPT !.pc = pc]] /\ [handler[h] EXCEPT !.pc = pc] \in Working
      /\ handler'[h].pc = pc /\ handler'[h].key = handler[h].key
  BY ZenonT(40), <1>3, HandlerGoesOn DEF CsInv
<1>6. HandlerWorks(h)'
  BY <1>1, <1>2, <1>3, <1>4, <1>5 DEF HandlerWorks, q
<1> QED BY <1>4, <1>5, <1>6, HandlerMoves

LEMMA PlanWorks ==
  ASSUME CsInv, NEW h \in Handlers, Plan(h)
  PROVE  CsInv'
<1>1. handler[h].pc = "plan" /\ handler[h].key \in Keys /\ ask[handler[h].key].op # "none"
  BY DEF Plan, CsInv, HandlerWorks
<1>2. PICK fits \in BOOLEAN :
        /\ handler' = [handler EXCEPT ![h].pc = IF fits THEN "commit" ELSE "settle", ![h].reads = IF fits THEN rev ELSE Unread]
        /\ fits => rev = ask[handler[h].key].reads
  BY DEF Plan
<1>3. UNCHANGED <<rev, latest, ask, prop, receipt, told, applied, purged>>
  BY DEF Plan
<1> DEFINE w == [handler[h] EXCEPT !.pc = IF fits THEN "commit" ELSE "settle", !.reads = IF fits THEN rev ELSE Unread]
<1>4. handler \in [Handlers -> Working] /\ rev \in Reading
  BY TypesNamed DEF CsInv, CsTypes
<1>5. /\ w \in Working /\ w.pc = (IF fits THEN "commit" ELSE "settle") /\ w.key = handler[h].key
      /\ w.reads = IF fits THEN rev ELSE Unread
  BY <1>4, Bounds DEF Working
<1>6. handler' = [handler EXCEPT ![h] = w]
  BY <1>2
<1> HIDE DEF w
<1>7. handler'[h] = w
  BY <1>4, <1>6
<1>8. HandlerWorks(h)'
  BY <1>1, <1>2, <1>3, <1>5, <1>7 DEF HandlerWorks
<1> QED BY <1>3, <1>5, <1>6, <1>8, HandlerMoves

\* A key gets its request.
LEMMA AskMoves ==
  ASSUME CsInv, NEW k \in Keys, NEW q \in Asked, ask[k].op = "none", q.op # "none",
         q.op \in {"approve", "reject"} => q.prop \in Keys /\ prop[q.prop].state # "none",
         ask' = [ask EXCEPT ![k] = q], UNCHANGED <<rev, latest, prop, receipt, handler, told, applied, purged>>
  PROVE  CsInv'
<1>1. ask'[k] = q /\ (\A j \in Keys \ {k} : ask'[j] = ask[j]) /\ CsTypes'
  BY TypesNamed DEF CsInv, CsTypes
<1>2. receipt[k].kind = "none"
  BY DEF CsInv, AskFits
<1>3. \A j \in Keys : AskFits(j)' /\ ProposalFits(j)' /\ ToldFits(j)' /\ ErasedFits(j)'
  BY <1>1, <1>2 DEF CsInv, AskFits, ProposalFits, ToldFits, ErasedFits, After
<1>4. \A h \in Handlers : HandlerWorks(h)'
  BY <1>1 DEF CsInv, HandlerWorks
<1>5. \A a \in applied' : AppliedFits(a)'
  BY <1>1 DEF CsInv, AppliedFits
<1>6. After(rev)'
  BY DEF CsInv, After
<1> QED BY <1>1, <1>3, <1>4, <1>5, <1>6, TypesNamed DEF CsInv

LEMMA AskCreateFits ==
  ASSUME CsInv, NEW k \in Keys, AskCreate(k)
  PROVE  CsInv'
<1> DEFINE q == [op |-> "create", prop |-> k, reads |-> rev, late |-> FALSE]
<1>1. q \in Asked /\ q.op = "create"
  BY DEF CsInv, CsTypeOK, Asked
<1>2. ask' = [ask EXCEPT ![k] = q] /\ ask[k].op = "none" /\ UNCHANGED <<rev, latest, prop, receipt, handler, told, applied, purged>>
  BY DEF AskCreate
<1> HIDE DEF q
<1> QED BY <1>1, <1>2, AskMoves

LEMMA AskVerdictFits ==
  ASSUME CsInv, NEW k \in Keys, NEW p \in Keys, AskApprove(k, p) \/ AskReject(k, p)
  PROVE  CsInv'
<1>1. PICK op \in {"approve", "reject"}, reads \in {rev, Unread} :
        /\ ask' = [ask EXCEPT ![k] = [op |-> op, prop |-> p, reads |-> reads, late |-> FALSE]]
        /\ ask[k].op = "none" /\ prop[p].state = "pending"
        /\ UNCHANGED <<rev, latest, prop, receipt, handler, told, applied, purged>>
  BY DEF AskApprove, AskReject
<1> DEFINE q == [op |-> op, prop |-> p, reads |-> reads, late |-> FALSE]
<1>2. q \in Asked /\ q.op \in {"approve", "reject"} /\ q.prop = p
  BY Bounds DEF CsInv, CsTypeOK, Asked
<1>3. ask' = [ask EXCEPT ![k] = q]
  BY <1>1
<1> HIDE DEF q
<1> QED BY <1>1, <1>2, <1>3, AskMoves

LEMMA ExpiryFits ==
  ASSUME CsInv, NEW k \in Keys, TokenExpires(k)
  PROVE  CsInv'
<1>1. ask' = [ask EXCEPT ![k].late = TRUE] /\ UNCHANGED <<rev, latest, prop, receipt, handler, told, applied, purged>>
  BY DEF TokenExpires
<1>2. ask \in [Keys -> Asked]
  BY TypesNamed DEF CsInv, CsTypes
<1>3. /\ ask' \in [Keys -> Asked]
      /\ \A j \in Keys : ask'[j].op = ask[j].op /\ ask'[j].prop = ask[j].prop /\ ask'[j].reads = ask[j].reads
  BY <1>1, <1>2 DEF Asked
<1>4. CsTypeOK'
  BY <1>1, <1>3, TypesNamed DEF CsInv, CsTypes
<1>5. \A j \in Keys : AskFits(j)' /\ ProposalFits(j)' /\ ToldFits(j)' /\ ErasedFits(j)'
  BY <1>1, <1>3 DEF CsInv, AskFits, ProposalFits, ToldFits, ErasedFits, After
<1>6. \A h \in Handlers : HandlerWorks(h)'
  BY <1>1, <1>3 DEF CsInv, HandlerWorks
<1>7. \A a \in applied' : AppliedFits(a)'
  BY <1>1, <1>3 DEF CsInv, AppliedFits
<1> QED BY <1>1, <1>4, <1>5, <1>6, <1>7 DEF CsInv, After

-----------------------------------------------------------------------------
(* Changesets: answers *)

\* A key is answered with what its receipt says, written now or before.
LEMMA AnswerStep ==
  ASSUME CsInv, NEW h \in Handlers, NEW k \in Keys, handler[h].key = k, NEW kind \in Kinds,
         ask[k].op # "none", Answers(h, kind), UNCHANGED <<rev, latest, ask, prop, applied, purged>>,
         \/ UNCHANGED receipt /\ receipt[k].kind = kind
         \/ /\ receipt[k].kind = "none" /\ kind \in {"refused", "gone"}
            /\ receipt' = [receipt EXCEPT ![k] = [NoReceipt EXCEPT !.kind = kind]]
  PROVE  CsInv'
<1>1. /\ told' = [told EXCEPT ![k] = @ \cup {kind}] /\ handler' = [handler EXCEPT ![h] = NotHandling]
      /\ told'[k] = told[k] \cup {kind} /\ \A j \in Keys \ {k} : told'[j] = told[j]
  BY DEF Answers, CsInv
<1>2. /\ receipt' \in [Keys -> Receipts] /\ receipt'[k].kind = kind
      /\ \A j \in Keys \ {k} : receipt'[j] = receipt[j]
      /\ receipt[k].kind = "none" => kind \in {"refused", "gone"}
      /\ receipt[k].kind # "none" => receipt' = receipt
  <2>1. receipt \in [Keys -> Receipts]
    BY TypesNamed DEF CsInv, CsTypes
  <2>2. [NoReceipt EXCEPT !.kind = kind] \in Receipts /\ [NoReceipt EXCEPT !.kind = kind].kind = kind
    BY Bounds DEF NoReceipt, Receipts, Kinds
  <2> QED BY <2>1, <2>2 DEF Kinds
<1>3. CsTypes' /\ told' \in [Keys -> SUBSET Kinds]
  BY ZenonT(40), <1>1, <1>2, TypesNamed, NotHandlingTyped DEF CsInv, CsTypes, Kinds
<1>4. \A g \in Handlers : HandlerWorks(g)'
  <2>1. handler'[h] = NotHandling /\ \A g \in Handlers \ {h} : handler'[g] = handler[g]
    BY <1>1 DEF CsInv, CsTypeOK
  <2> QED BY <2>1, NotHandlingTyped DEF CsInv, HandlerWorks
<1>5. prop[k].state # "none" => receipt[k].kind # "none"
  BY DEF CsInv, ProposalFits
<1>6. ASSUME NEW j \in Keys PROVE AskFits(j)' /\ ProposalFits(j)' /\ ErasedFits(j)'
  BY <1>2, <1>5 DEF CsInv, AskFits, ProposalFits, ErasedFits, After, Kinds
<1>7. ASSUME NEW a \in applied PROVE AppliedFits(a)' /\ (kind \in {"refused", "gone"} => a.key # k)
  BY <1>2 DEF CsInv, AppliedFits
<1>8. ToldFits(k)'
  <2>1. ToldFits(k) /\ told[k] \in SUBSET Kinds
    BY DEF CsInv, Kinds
  <2>2. \A x \in told[k] : x = kind \/ kind = "purged"
    BY <1>2, <2>1 DEF ToldFits, Kinds
  <2>3. \E x \in {"done", "refused", "gone"} : told'[k] \subseteq {x, "purged"}
    <3>1. CASE kind = "purged"
      BY <1>1, <2>1, <3>1 DEF ToldFits
    <3>2. CASE kind # "purged"
      BY <1>1, <2>2, <3>2 DEF Kinds
    <3> QED BY <3>1, <3>2
  <2>4. \A x \in told'[k] : receipt'[k].kind \in {x, "purged"}
    BY <1>1, <1>2, <2>2
  <2>5. told'[k] \cap {"refused", "gone"} # {} => \A a \in applied' : a.key # k
    BY <1>1, <1>7, <2>1 DEF ToldFits
  <2> QED BY <2>3, <2>4, <2>5 DEF ToldFits
<1>9. ASSUME NEW j \in Keys, j # k PROVE ToldFits(j)'
  BY <1>1, <1>2, <1>9 DEF CsInv, ToldFits
<1> QED BY <1>3, <1>4, <1>6, <1>7, <1>8, <1>9, TypesNamed DEF CsInv, After, Kinds

LEMMA ReplayWorks ==
  ASSUME CsInv, NEW h \in Handlers, Replay(h)
  PROVE  CsInv'
<1>1. handler[h].pc \in {"replay", "recover"} /\ handler[h].key \in Keys /\ ask[handler[h].key].op # "none"
  BY DEF Replay, CsInv, HandlerWorks
<1>2. CASE receipt[handler[h].key].kind # "none"
  <2>1. receipt[handler[h].key].kind \in Kinds
    BY <1>1, <1>2, CsFields DEF CsInv
  <2> QED BY <1>1, <1>2, <2>1, AnswerStep DEF Replay
<1>3. CASE receipt[handler[h].key].kind = "none"
  <2>1. PICK pc \in {"load", "settle"} : HandlerGoes(h, pc)
    BY <1>3 DEF Replay
  <2>2. /\ handler' = [handler EXCEPT ![h] = [handler[h] EXCEPT !.pc = pc]] /\ [handler[h] EXCEPT !.pc = pc] \in Working
        /\ handler'[h].pc = pc /\ handler'[h].key = handler[h].key
    BY ZenonT(40), <2>1, HandlerGoesOn DEF CsInv
  <2>3. UNCHANGED <<rev, latest, ask, prop, receipt, told, applied, purged>>
    BY <1>3 DEF Replay
  <2>4. HandlerWorks(h)'
    BY <1>1, <2>2, <2>3 DEF HandlerWorks
  <2> QED BY <2>2, <2>3, <2>4, HandlerMoves
<1> QED BY <1>2, <1>3

LEMMA SettleWorks ==
  ASSUME CsInv, NEW h \in Handlers, SettleSet(h)
  PROVE  CsInv'
<1>1. handler[h].pc \in {"settle", "gone"} /\ handler[h].key \in Keys /\ ask[handler[h].key].op # "none"
  BY DEF SettleSet, CsInv, HandlerWorks
<1>2. CASE FirstReceipt(handler[h].key)
  <2>1. PICK kind \in {"refused", "gone"} :
          /\ receipt' = [receipt EXCEPT ![handler[h].key] = [NoReceipt EXCEPT !.kind = kind]]
          /\ Answers(h, kind)
    BY <1>2 DEF SettleSet
  <2>2. UNCHANGED <<rev, latest, ask, prop, applied, purged>> /\ receipt[handler[h].key].kind = "none" /\ kind \in Kinds
    BY <1>2 DEF SettleSet, FirstReceipt, Kinds
  <2> QED BY <1>1, <2>1, <2>2, AnswerStep
<1>3. CASE ~FirstReceipt(handler[h].key)
  <2>1. receipt[handler[h].key].kind \in Kinds
    BY <1>1, <1>3, CsFields DEF CsInv, FirstReceipt
  <2>2. Answers(h, receipt[handler[h].key].kind) /\ UNCHANGED <<receipt, rev, latest, ask, prop, applied, purged>>
    BY <1>3 DEF SettleSet
  <2> QED BY <1>1, <2>1, <2>2, AnswerStep
<1> QED BY <1>2, <1>3

-----------------------------------------------------------------------------
(* Changesets: the batch *)

\* A key without a receipt has nothing written, proposed or told.
LEMMA NothingYet ==
  ASSUME CsInv, NEW k \in Keys, receipt[k].kind = "none"
  PROVE  told[k] = {} /\ prop[k].state = "none" /\ \A a \in applied : a.key # k
<1>1. told[k] \subseteq Kinds /\ ToldFits(k)
  BY DEF CsInv, Kinds
<1>2. \A x \in told[k] : x \in Kinds /\ FALSE
  BY <1>1 DEF ToldFits, Kinds
<1>3. prop[k].state = "none"
  BY CsFields DEF CsInv, ProposalFits
<1>4. \A a \in applied : a.key # k
  BY DEF CsInv, AppliedFits
<1> QED BY <1>2, <1>3, <1>4

\* What a commit that goes through has before it.
Commits(h) == handler[h].pc = "commit" /\ Guarded(h) /\ FirstReceipt(handler[h].key) /\ CommitSet(h)

LEMMA CommitStarts ==
  ASSUME CsInv, NEW h \in Handlers, Commits(h), NEW k, k = handler[h].key
  PROVE  /\ k \in Keys /\ ask[k].op \in {"create", "approve", "reject"} /\ receipt[k].kind = "none"
         /\ ask[k].op # "reject" => handler[h].reads = rev /\ ask[k].reads = rev
         /\ ask[k].op # "create" => ask[k].prop \in Keys /\ prop[ask[k].prop].state = "pending"
         /\ [kind |-> "done", reads |-> handler[h].reads] \in Receipts
         /\ receipt' = [receipt EXCEPT ![k] = [kind |-> "done", reads |-> handler[h].reads]]
         /\ receipt' \in [Keys -> Receipts] /\ receipt'[k].kind = "done" /\ receipt'[k].reads = handler[h].reads
         /\ \A j \in Keys \ {k} : receipt'[j] = receipt[j]
         /\ UNCHANGED <<ask, purged>>
<1>1. k \in Keys /\ ask[k].op # "none" /\ (ask[k].op = "reject" \/ handler[h].reads = ask[k].reads)
  BY DEF Commits, CsInv, HandlerWorks
<1>2. ask[k].op \in {"create", "approve", "reject"}
  BY <1>1, CsFields DEF CsInv
<1>3. /\ receipt[k].kind = "none"
      /\ ask[k].op = "reject" \/ rev = handler[h].reads
      /\ ask[k].op = "create" \/ prop[ask[k].prop].state = "pending"
  BY DEF Commits, Guarded, FirstReceipt
<1>4. ask[k].op # "create" => ask[k].prop \in Keys
  BY <1>1, <1>2 DEF CsInv, AskFits
<1>5. [kind |-> "done", reads |-> handler[h].reads] \in Receipts
  BY HandlerFields DEF CsInv, Receipts
<1>6. receipt' = [receipt EXCEPT ![k] = [kind |-> "done", reads |-> handler[h].reads]] /\ UNCHANGED <<ask, purged>>
  BY DEF Commits, CommitSet
<1>7. receipt \in [Keys -> Receipts]
  BY TypesNamed DEF CsInv, CsTypes
<1> QED BY <1>1, <1>2, <1>3, <1>4, <1>5, <1>6, <1>7

\* A proposal is created, or rejected.
LEMMA ProposalCommits ==
  ASSUME CsInv, NEW h \in Handlers, Commits(h), ask[handler[h].key].op \in {"create", "reject"}
  PROVE  CsInv'
<1>1. PICK k : k = handler[h].key
  OBVIOUS
<1>2. /\ k \in Keys /\ ask[k].op \in {"create", "reject"} /\ receipt[k].kind = "none"
      /\ ask[k].op = "create" => handler[h].reads = rev
      /\ ask[k].op = "reject" => ask[k].prop \in Keys /\ prop[ask[k].prop].state = "pending"
      /\ receipt' \in [Keys -> Receipts] /\ receipt'[k].kind = "done" /\ receipt'[k].reads = handler[h].reads
      /\ \A j \in Keys \ {k} : receipt'[j] = receipt[j]
      /\ UNCHANGED <<ask, purged, rev, latest, applied>>
  BY <1>1, CommitStarts DEF Commits, CommitSet
<1>3. /\ Answers(h, "done")
      /\ prop' = IF ask[k].op = "reject" THEN [prop EXCEPT ![ask[k].prop].state = "rejected"]
                 ELSE [prop EXCEPT ![k] = [state |-> "pending", reads |-> handler[h].reads]]
  BY <1>1, <1>2 DEF Commits, CommitSet
<1>4. told[k] = {} /\ prop[k].state = "none" /\ \A a \in applied : a.key # k
  BY <1>2, NothingYet
<1>5. prop \in [Keys -> Proposals] /\ handler[h].reads \in Reading
  BY TypesNamed, HandlerFields DEF CsInv, CsTypes
<1>6. PICK p \in Keys : /\ p = IF ask[k].op = "reject" THEN ask[k].prop ELSE k
                        /\ prop[p].state = IF ask[k].op = "reject" THEN "pending" ELSE "none"
  BY <1>2, <1>4
<1>7. /\ prop' \in [Keys -> Proposals] /\ \A j \in Keys \ {p} : prop'[j] = prop[j]
      /\ prop'[p].state = IF ask[k].op = "reject" THEN "rejected" ELSE "pending"
      /\ prop'[p].reads = IF ask[k].op = "reject" THEN prop[p].reads ELSE handler[h].reads
  BY <1>2, <1>3, <1>5, <1>6 DEF Proposals
<1>8. /\ told'[k] = {"done"} /\ (\A j \in Keys \ {k} : told'[j] = told[j]) /\ told' \in [Keys -> SUBSET Kinds]
      /\ handler' = [handler EXCEPT ![h] = NotHandling]
  BY <1>1, <1>2, <1>3, <1>4 DEF Answers, CsInv, Kinds
<1>9. CsTypeOK'
  BY <1>2, <1>7, <1>8, TypesNamed, NotHandlingTyped DEF CsInv, CsTypes
<1>10. \A g \in Handlers : HandlerWorks(g)'
  <2>1. handler'[h] = NotHandling /\ \A g \in Handlers \ {h} : handler'[g] = handler[g]
    BY <1>8 DEF CsInv, CsTypeOK
  <2> QED BY <1>2, <2>1, NotHandlingTyped DEF CsInv, HandlerWorks
<1>11. ASSUME NEW j \in Keys PROVE AskFits(j)'
  BY <1>2, <1>7 DEF CsInv, AskFits
<1>12. ASSUME NEW j \in Keys PROVE ProposalFits(j)'
  <2>1. ProposalFits(j) /\ AskFits(j)
    BY DEF CsInv
  <2>2. CASE j = k
    BY <1>2, <1>6, <1>7, <2>2 DEF ProposalFits
  <2>3. CASE j # k
    BY <1>2, <1>6, <1>7, <2>1, <2>3 DEF ProposalFits, AskFits
  <2> QED BY <2>2, <2>3
<1>13. ASSUME NEW j \in Keys PROVE ToldFits(j)'
  BY <1>2, <1>4, <1>8 DEF CsInv, ToldFits
<1>14. ASSUME NEW j \in Keys PROVE ErasedFits(j)'
  <2>1. ErasedFits(j) /\ ErasedFits(p) /\ (ask[k].op = "create" => After(handler[h].reads))
    BY <1>2 DEF CsInv
  <2>2. CASE ask[k].op = "create"
    BY <1>2, <1>6, <1>7, <2>1, <2>2 DEF ErasedFits, After
  <2>3. CASE ask[k].op = "reject"
    BY <1>2, <1>6, <1>7, <2>1, <2>3 DEF ErasedFits, After
  <2> QED BY <1>2, <2>2, <2>3
<1>15. ASSUME NEW a \in applied PROVE AppliedFits(a)'
  BY <1>2, <1>4, <1>6, <1>7 DEF CsInv, AppliedFits
<1> QED BY <1>2, <1>8, <1>9, <1>10, <1>11, <1>12, <1>13, <1>14, <1>15 DEF CsInv, After, Kinds

\* An approved proposal is written.
LEMMA ApprovalCommits ==
  ASSUME CsInv, NEW h \in Handlers, Commits(h), ask[handler[h].key].op = "approve"
  PROVE  CsInv'
<1>1. PICK k : k = handler[h].key
  OBVIOUS
<1>2. PICK p : p = ask[k].prop
  OBVIOUS
<1>3. /\ k \in Keys /\ p \in Keys /\ ask[k].op = "approve" /\ receipt[k].kind = "none" /\ prop[p].state = "pending"
      /\ handler[h].reads = rev /\ ask[k].reads = rev
      /\ receipt' \in [Keys -> Receipts] /\ receipt'[k].kind = "done" /\ receipt'[k].reads = rev
      /\ \A j \in Keys \ {k} : receipt'[j] = receipt[j]
      /\ UNCHANGED <<ask, purged>>
  <2>1. ask[k].op = "approve"
    BY <1>1
  <2>2. /\ k \in Keys /\ receipt[k].kind = "none" /\ handler[h].reads = rev /\ ask[k].reads = rev
        /\ ask[k].prop \in Keys /\ prop[ask[k].prop].state = "pending"
    BY <1>1, <2>1, CommitStarts
  <2>3. /\ receipt' \in [Keys -> Receipts] /\ receipt'[k].kind = "done" /\ receipt'[k].reads = handler[h].reads
        /\ (\A j \in Keys \ {k} : receipt'[j] = receipt[j]) /\ UNCHANGED <<ask, purged>>
    BY <1>1, CommitStarts
  <2> QED BY <1>2, <2>1, <2>2, <2>3
<1> DEFINE new == [key |-> k, prop |-> p, before |-> rev]
<1>4. /\ latest < Top /\ latest' = latest + 1
      /\ rev' = [r \in CsRows |-> IF r \in CsTargets THEN latest + 1 ELSE rev[r]]
      /\ applied' = applied \cup {new}
      /\ prop' = [prop EXCEPT ![p].state = "approved"]
      /\ HandlerGoes(h, "replay") /\ UNCHANGED told
  BY <1>1, <1>2, <1>3 DEF Commits, CommitSet
<1>5. told[k] = {} /\ prop[k].state = "none" /\ \A a \in applied : a.key # k
  BY <1>3, NothingYet
<1>6. new.key = k /\ new.prop = p /\ new.before = rev
  OBVIOUS
<1> HIDE DEF new
<1>7. prop \in [Keys -> Proposals] /\ rev \in Reading /\ latest \in 1 .. Top /\ purged \in [CsRows -> 0 .. Top] /\ Top \in Nat
  BY TypesNamed, Bounds DEF CsInv, CsTypes
<1>8. /\ prop' \in [Keys -> Proposals] /\ \A j \in Keys \ {p} : prop'[j] = prop[j]
      /\ prop'[p].state = "approved" /\ prop'[p].reads = prop[p].reads
  BY <1>3, <1>4, <1>7 DEF Proposals
<1>9. /\ handler'[h].pc = "replay" /\ handler'[h].key = k /\ handler' \in [Handlers -> Working]
      /\ \A g \in Handlers \ {h} : handler'[g] = handler[g]
  BY <1>1, <1>4, HandlerGoesOn DEF CsInv
<1>10. rev' \in Reading /\ latest' \in 1 .. Top
  BY <1>4, <1>7 DEF Reading
<1>11. CsTypeOK'
  BY <1>3, <1>8, <1>9, <1>10, TypesNamed DEF CsInv, CsTypes
<1>12. \A g \in Handlers : HandlerWorks(g)'
  BY <1>3, <1>9 DEF CsInv, HandlerWorks
<1>13. ASSUME NEW j \in Keys PROVE AskFits(j)'
  BY <1>3, <1>8 DEF CsInv, AskFits
<1>14. ASSUME NEW j \in Keys PROVE ProposalFits(j)'
  <2>1. ProposalFits(j) /\ AskFits(j) /\ p # k
    BY <1>3, <1>5 DEF CsInv
  <2>2. CASE j = k
    BY <1>3, <1>4, <1>5, <1>6, <1>8, <2>1, <2>2 DEF ProposalFits
  <2>3. CASE j # k
    BY <1>3, <1>4, <1>8, <2>1, <2>3 DEF ProposalFits, AskFits
  <2> QED BY <2>2, <2>3
<1>15. ASSUME NEW j \in Keys PROVE ToldFits(j)'
  BY <1>3, <1>4, <1>5, <1>6 DEF CsInv, ToldFits
<1>16. ASSUME NEW j \in Keys PROVE ErasedFits(j)'
  <2>1. ErasedFits(j) /\ ErasedFits(p) /\ After(rev)
    BY <1>3 DEF CsInv
  <2> QED BY <1>3, <1>8, <2>1 DEF ErasedFits, After
<1>17. ASSUME NEW a \in applied' PROVE AppliedFits(a)'
  <2>1. CASE a = new
    BY <1>2, <1>3, <1>6, <1>8, <2>1 DEF AppliedFits
  <2>2. CASE a \in applied
    <3>1. AppliedFits(a) /\ a.key # k /\ a.prop # p
      BY <1>3, <1>5, <2>2 DEF CsInv, AppliedFits
    <3> QED BY <1>3, <1>8, <3>1 DEF AppliedFits
  <2> QED BY <1>4, <2>1, <2>2
<1>18. ASSUME NEW a \in applied', NEW b \in applied', a.prop = b.prop \/ a.key = b.key PROVE a = b
  <2>1. \A c \in applied : c.prop # p /\ c.key # k
    BY <1>3, <1>5 DEF CsInv, AppliedFits
  <2> QED BY <1>4, <1>6, <1>18, <2>1 DEF CsInv
<1>19. (\A r \in CsRows : purged'[r] <= latest') /\ After(rev)'
  <2>1. \A r \in CsRows : purged[r] <= latest /\ purged[r] \in Nat
    BY <1>7 DEF CsInv
  <2>2. \A r \in CsRows : rev[r] >= purged[r] \/ rev[r] = -purged[r]
    BY DEF CsInv, After
  <2>3. \A r \in CsRows : rev'[r] >= purged[r] \/ rev'[r] = -purged[r]
    BY <1>4, <1>7, <2>1, <2>2
  <2> QED BY <1>3, <1>4, <1>7, <2>1, <2>3 DEF After
<1> QED BY <1>4, <1>11, <1>12, <1>13, <1>14, <1>15, <1>16, <1>17, <1>18, <1>19 DEF CsInv

LEMMA CommitWorks ==
  ASSUME CsInv, NEW h \in Handlers, CommitSet(h)
  PROVE  CsInv'
<1>1. handler[h].pc = "commit" /\ handler[h].key \in Keys /\ ask[handler[h].key].op # "none"
  BY DEF CommitSet, CsInv, HandlerWorks
<1>2. CASE Guarded(h) /\ FirstReceipt(handler[h].key)
  <2>1. Commits(h) /\ ask[handler[h].key].op \in {"create", "approve", "reject"}
    BY <1>1, <1>2, CsFields DEF Commits, CsInv
  <2> QED BY <2>1, ProposalCommits, ApprovalCommits
<1>3. CASE ~(Guarded(h) /\ FirstReceipt(handler[h].key))
  <2>1. HandlerGoes(h, "recover") /\ UNCHANGED <<rev, latest, ask, prop, receipt, told, applied, purged>>
    BY <1>3 DEF CommitSet
  <2>2. /\ handler' = [handler EXCEPT ![h] = [handler[h] EXCEPT !.pc = "recover"]] /\ [handler[h] EXCEPT !.pc = "recover"] \in Working
        /\ handler'[h].pc = "recover" /\ handler'[h].key = handler[h].key
    BY <2>1, HandlerGoesOn DEF CsInv
  <2>3. HandlerWorks(h)'
    BY <1>1, <2>1, <2>2 DEF HandlerWorks
  <2> QED BY <2>1, <2>2, <2>3, HandlerMoves
<1> QED BY <1>2, <1>3

-----------------------------------------------------------------------------
(* Changesets: everyone else *)

LEMMA WriteFits ==
  ASSUME CsInv, NEW r \in CsRows, Write(r)
  PROVE  CsInv'
<1>1. /\ latest < MaxRevision /\ latest' = latest + 1 /\ rev' = [rev EXCEPT ![r] = latest + 1]
      /\ UNCHANGED <<ask, prop, receipt, handler, told, applied, purged>>
  BY DEF Write
<1>2. rev \in Reading /\ latest \in 1 .. Top /\ purged \in [CsRows -> 0 .. Top]
  BY TypesNamed DEF CsInv, CsTypes
<1>3. rev' \in Reading /\ latest' \in 1 .. Top
  BY <1>1, <1>2, Bounds DEF Reading
<1>4. CsTypeOK'
  BY <1>1, <1>3, TypesNamed DEF CsInv, CsTypes
<1>5. (\A s \in CsRows : purged'[s] <= latest') /\ After(rev)'
  <2>1. \A s \in CsRows : purged[s] <= latest /\ purged[s] \in Nat /\ (rev[s] >= purged[s] \/ rev[s] = -purged[s])
    BY <1>2, Bounds DEF CsInv, After
  <2>2. \A s \in CsRows : rev'[s] = IF s = r THEN latest + 1 ELSE rev[s]
    BY <1>1, <1>2 DEF Reading
  <2> QED BY <1>1, <1>2, <2>1, <2>2, Bounds DEF After
<1>6. \A k \in Keys : AskFits(k)' /\ ProposalFits(k)' /\ ToldFits(k)' /\ ErasedFits(k)'
  BY <1>1 DEF CsInv, AskFits, ProposalFits, ToldFits, ErasedFits, After
<1>7. (\A h \in Handlers : HandlerWorks(h)') /\ \A a \in applied' : AppliedFits(a)'
  BY <1>1 DEF CsInv, HandlerWorks, AppliedFits
<1> QED BY <1>1, <1>4, <1>5, <1>6, <1>7 DEF CsInv

\* No reading survives a purge.
LEMMA PurgeFits ==
  ASSUME CsInv, NEW r \in CsRows, Purge(r)
  PROVE  CsInv'
<1>1. /\ latest < Top /\ latest' = latest + 1
      /\ rev' = [rev EXCEPT ![r] = -(latest + 1)] /\ purged' = [purged EXCEPT ![r] = latest + 1]
      /\ prop' = [k \in Keys |-> IF prop[k].state = "none" THEN prop[k] ELSE [NoProposal EXCEPT !.state = "purged"]]
      /\ receipt' = [k \in Keys |-> Redacted(k)]
      /\ UNCHANGED <<ask, handler, told, applied>>
  BY DEF Purge
<1>2. /\ rev \in Reading /\ latest \in 1 .. Top /\ purged \in [CsRows -> 0 .. Top]
      /\ prop \in [Keys -> Proposals] /\ receipt \in [Keys -> Receipts]
  BY TypesNamed DEF CsInv, CsTypes
<1>3. rev' \in Reading /\ latest' \in 1 .. Top /\ purged' \in [CsRows -> 0 .. Top]
  BY <1>1, <1>2, Bounds DEF Reading
<1>4. /\ [NoProposal EXCEPT !.state = "purged"] \in Proposals /\ [NoProposal EXCEPT !.state = "purged"].state = "purged"
      /\ [NoReceipt EXCEPT !.kind = "purged"] \in Receipts /\ [NoReceipt EXCEPT !.kind = "purged"].kind = "purged"
  BY Bounds DEF NoProposal, NoReceipt, Proposals, Receipts
<1>5. /\ prop' \in [Keys -> Proposals]
      /\ \A k \in Keys : IF prop[k].state = "none" THEN prop'[k] = prop[k] ELSE prop'[k].state = "purged"
  BY <1>1, <1>2, <1>4
<1>6. /\ receipt' \in [Keys -> Receipts]
      /\ \A k \in Keys : IF receipt[k].kind \in {"none", "gone"} THEN receipt'[k] = receipt[k] ELSE receipt'[k].kind = "purged"
  BY <1>1, <1>2, <1>4 DEF Redacted
<1>7. CsTypeOK'
  BY <1>1, <1>3, <1>5, <1>6, TypesNamed DEF CsInv, CsTypes
<1>8. (\A s \in CsRows : purged'[s] <= latest') /\ After(rev)'
  <2>1. \A s \in CsRows : purged[s] <= latest /\ purged[s] \in Nat /\ (rev[s] >= purged[s] \/ rev[s] = -purged[s])
    BY <1>2, Bounds DEF CsInv, After
  <2>2. \A s \in CsRows : /\ rev'[s] = IF s = r THEN -(latest + 1) ELSE rev[s]
                          /\ purged'[s] = IF s = r THEN latest + 1 ELSE purged[s]
    BY <1>1, <1>2 DEF Reading
  <2> QED BY <1>1, <1>2, <2>1, <2>2, Bounds DEF After
<1>9. ASSUME NEW k \in Keys PROVE AskFits(k)' /\ ProposalFits(k)' /\ ToldFits(k)' /\ ErasedFits(k)'
  <2>1. AskFits(k) /\ ProposalFits(k) /\ ToldFits(k) /\ told[k] \subseteq Kinds
    BY DEF CsInv, Kinds
  <2>2. AskFits(k)'
    BY <1>1, <1>5, <1>6, <2>1 DEF AskFits
  <2>3. receipt'[k].kind # "done" /\ (prop'[k].state # "none" => receipt'[k].kind = "purged")
    BY <1>5, <1>6, <2>1 DEF ProposalFits
  <2>4. prop'[k].state \in {"none", "purged"}
    BY <1>5
  <2>5. ToldFits(k)'
    <3>1. \A kind \in told[k] : receipt'[k].kind \in {kind, "purged"}
      BY <1>6, <2>1 DEF ToldFits
    <3> QED BY <1>1, <2>1, <3>1 DEF ToldFits
  <2> QED BY <2>2, <2>3, <2>4, <2>5 DEF ProposalFits, ErasedFits
<1>10. ASSUME NEW a \in applied PROVE AppliedFits(a)'
  BY <1>1, <1>5, <1>6 DEF CsInv, AppliedFits
<1>11. \A h \in Handlers : HandlerWorks(h)'
  BY <1>1 DEF CsInv, HandlerWorks
<1> QED BY <1>1, <1>7, <1>8, <1>9, <1>10, <1>11 DEF CsInv

-----------------------------------------------------------------------------
LEMMA CsStarts == CsInit => CsInv
<1> SUFFICES ASSUME CsInit PROVE CsInv
  OBVIOUS
<1>1. NoAsk \in Asked /\ NoProposal \in Proposals /\ NoReceipt \in Receipts
  BY Bounds DEF NoAsk, NoProposal, NoReceipt, Asked, Proposals, Receipts
<1>2. CsTypeOK
  BY <1>1, Bounds, TypesNamed, NotHandlingTyped DEF CsInit, CsTypes
<1>3. \A k \in Keys : AskFits(k) /\ ProposalFits(k) /\ ToldFits(k) /\ ErasedFits(k)
  BY DEF CsInit, NoAsk, NoProposal, NoReceipt, AskFits, ProposalFits, ToldFits, ErasedFits
<1>4. \A h \in Handlers : HandlerWorks(h)
  BY NotHandlingTyped DEF CsInit, HandlerWorks
<1> QED BY <1>2, <1>3, <1>4 DEF CsInit, CsInv, After

LEMMA CsSteps == CsInv /\ [CsNext]_csVars => CsInv'
<1> SUFFICES ASSUME CsInv, [CsNext]_csVars PROVE CsInv'
  OBVIOUS
<1>1. ASSUME NEW k \in Keys, AskCreate(k) \/ TokenExpires(k) PROVE CsInv'
  BY <1>1, AskCreateFits, ExpiryFits
<1>2. ASSUME NEW k \in Keys, NEW p \in Keys, AskApprove(k, p) \/ AskReject(k, p) PROVE CsInv'
  BY <1>2, AskVerdictFits
<1>3. ASSUME NEW h \in Handlers, NEW k \in Keys, Dispatch(h, k) PROVE CsInv'
  BY <1>3, DispatchWorks
<1>4. ASSUME NEW h \in Handlers, Replay(h) \/ Load(h) \/ Plan(h) \/ CommitSet(h) \/ SettleSet(h) \/ Dies(h) PROVE CsInv'
  BY <1>4, ReplayWorks, LoadWorks, PlanWorks, CommitWorks, SettleWorks, DiesWorks
<1>5. ASSUME NEW r \in CsRows, Write(r) \/ Purge(r) PROVE CsInv'
  BY <1>5, WriteFits, PurgeFits
<1>6. CASE UNCHANGED csVars
  BY SMTT(30), <1>6 DEF csVars, CsInv, CsTypeOK, Asked, AskFits, ProposalFits, ToldFits, ErasedFits, After, HandlerWorks, AppliedFits
<1> QED BY <1>1, <1>2, <1>3, <1>4, <1>5, <1>6 DEF CsNext

\* However handlers of one key overlap, end and are asked again: a changeset is
\* written once at most, from the rows its approver was shown; an answer says what
\* happened; and no proposal or receipt outlives the purge of a row it read.
THEOREM ChangesetsAreSound == CsSpec => []ChangesetsSound
<1>1. CsInv => ChangesetsSound
  <2> SUFFICES ASSUME CsInv PROVE ChangesetsSound
    OBVIOUS
  <2>1. ASSUME NEW a \in applied PROVE AppliedFits(a)
    BY DEF CsInv
  <2>2. ApprovedAsShown
    <3>1. ASSUME NEW a \in applied, NEW k \in Keys, ask[k].op = "reject", ask[k].prop = a.prop
          PROVE  receipt[k].kind # "done"
      BY <2>1, <3>1 DEF CsInv, ProposalFits, AppliedFits
    <3>2. \A a, b \in applied : b.prop = a.prop \/ b.key = a.key => b = a
      BY DEF CsInv
    <3> QED BY <2>1, <3>1, <3>2 DEF ApprovedAsShown, AppliedFits
  <2>3. ASSUME NEW k \in Keys
        PROVE  receipt[k].kind = "done" /\ ask[k].op = "approve" <=> (\E a \in applied : a.key = k) /\ receipt[k].kind # "purged"
    BY <2>1 DEF CsInv, ProposalFits, AppliedFits
  <2>4. ToldTrue
    BY <2>3 DEF CsInv, ToldFits, ToldTrue
  <2>5. Erased
    BY DEF CsInv, ErasedFits, After, Erased
  <2> QED BY <2>2, <2>4, <2>5 DEF CsInv, ChangesetsSound
<1> QED BY CsStarts, CsSteps, <1>1, PTL DEF CsSpec

-----------------------------------------------------------------------------
(* The inductive invariant of reviewed inverses *)

Replied == {k \in Requests : asked[k].op = "answered"}
Pointed(k) == asked[k].op \in {"create", "edit", "approve", "reject"}

\* Under the guards a head is the last change of its column, and an event names the
\* change before it, or none.
HeadFits(c) ==
  guards /\ head[c] # 0 => /\ head[c] \in DOMAIN log /\ log[head[c]].col = c
                           /\ \A i \in DOMAIN log : log[i].col = c => i <= head[c]

EventFits(i) ==
  log[i].kind = "event" =>
    /\ i > erased[log[i].col]
    /\ log[i].prev # 0 => /\ log[i].prev \in 1 .. i - 1 /\ log[log[i].prev].col = log[i].col
                          /\ \A j \in 1 .. i - 1 : log[j].col = log[i].col => j <= log[i].prev

\* Changes that no purge has reached.
Unpurged(sel) == \A i \in sel : i \in DOMAIN log /\ i > erased[log[i].col]

\* What is asked for, planned and proposed.
AskStands(k) ==
  /\ Pointed(k) => asked[k].prop \in Requests
  /\ asked[k].op = "create" => asked[k].prop = k
  /\ proposal[k].state # "none" => asked[k].op = "answered"
  /\ proposal[k].state = "none" => proposal[k].all = {}
  /\ reply[k].kind = "none" => reply[k].sel = {}
  /\ proposal[k].sel \subseteq proposal[k].all /\ Unpurged(proposal[k].all \cup reply[k].sel)
  /\ \A at \in plans[k] : /\ Pointed(k) /\ at <= stamp
                          /\ \A s \in {asked[k].sel} : at = stamp /\ asked[k].op # "reject" => Reversible(s)

\* What was written was exact when it was, and is its proposal's one verdict.
DoneFits(x) ==
  /\ x.prop \in Requests /\ x.at \in 0 .. Len(log) /\ x.sel \subseteq 1 .. x.at
  /\ \A i \in 1 .. x.at : (\E j \in x.sel : log[j].col = log[i].col /\ j <= i) => i \in x.sel
  /\ proposal[x.prop].state = "purged" \/ (proposal[x.prop].state = "approved" /\ proposal[x.prop].ver = x.ver)

GovInv ==
  /\ GovTypeOK /\ log \in Seq(Entries) /\ erased \in [Cols -> 0 .. Len(log)]
  /\ rowRev <= stamp /\ stamp <= MaxStamp + Cardinality(Replied)
  /\ DOMAIN asked = Requests /\ DOMAIN proposal = Requests /\ DOMAIN reply = Requests
  /\ \A c \in Cols : HeadFits(c)
  /\ \A i \in DOMAIN log : EventFits(i)
  /\ \A k \in Requests : AskStands(k)
  /\ \A x \in done : DoneFits(x)
  /\ \A x, y \in done : x.prop = y.prop => x = y

\* A set of numbers that is not empty has a least one: of the intervals that end in
\* them, one contains no other.
LEMMA LeastOf ==
  ASSUME NEW T \in SUBSET Nat, T # {}
  PROVE  \E m \in T : \A k \in T : m <= k
<1> DEFINE F == {0 .. m : m \in T}
<1>1. F \subseteq FiniteSubsetsOf(Nat)
  <2> SUFFICES ASSUME NEW m \in T PROVE 0 .. m \in FiniteSubsetsOf(Nat)
    OBVIOUS
  <2>1. IsFiniteSet(0 .. m)
    BY FS_Interval
  <2> QED BY <2>1 DEF FiniteSubsetsOf
<1>2. F # {}
  OBVIOUS
<1>3. IsWellFoundedOn(StrictSubsetOrdering(Nat), FiniteSubsetsOf(Nat))
  BY FS_StrictSubsetOrderingWellFounded
<1>4. PICK x \in F : \A y \in F : ~ (<<y, x>> \in StrictSubsetOrdering(Nat))
  <2> HIDE DEF F
  <2> QED BY <1>1, <1>2, <1>3, WFMin
<1>5. PICK m \in T : x = 0 .. m
  OBVIOUS
<1>6. ASSUME NEW k \in T, k < m PROVE FALSE
  <2>1. 0 .. k \in F /\ 0 .. k \subseteq 0 .. m /\ 0 .. k # 0 .. m
    BY <1>6
  <2>2. <<0 .. k, 0 .. m>> \in StrictSubsetOrdering(Nat)
    BY <2>1 DEF StrictSubsetOrdering
  <2> QED BY <1>4, <1>5, <2>1, <2>2
<1> QED BY <1>6

-----------------------------------------------------------------------------
(* Governance: evidence *)

LEMMA GovFields ==
  ASSUME GovTypeOK
  PROVE  /\ log \in Seq(Entries) => Len(log) \in Nat /\ DOMAIN log = 1 .. Len(log) /\ Len(log) <= MaxLog
         /\ \A c \in Cols : val[c] \in Values /\ head[c] \in 0 .. MaxLog
         /\ MaxLog \in Nat /\ MaxStamp \in Nat /\ MaxVersions \in Nat
         /\ Cardinality(Requests) \in Nat /\ rowRev \in Nat /\ stamp \in Nat
BY GovernanceAssumption, FS_CardinalityType DEF GovTypeOK, Latest

\* The first change picked of a column is one of those picked, and none is before it.
LEMMA FirstIsFirst ==
  ASSUME NEW sel \in SUBSET Nat, NEW c, NEW j \in sel, log[j].col = c
  PROVE  /\ FirstPicked(c, sel) \in sel /\ log[FirstPicked(c, sel)].col = c
         /\ \A i \in sel : log[i].col = c => FirstPicked(c, sel) <= i
<1> DEFINE T == {i \in sel : log[i].col = c}
<1>1. T \in SUBSET Nat /\ T # {}
  OBVIOUS
<1>2. PICK m \in T : \A i \in T : m <= i
  <2> HIDE DEF T
  <2> QED BY <1>1, LeastOf
<1>3. \E i \in sel : log[i].col = c /\ \A k \in sel : log[k].col = c => i <= k
  BY <1>2
<1> QED BY <1>3 DEF FirstPicked

\* A chain holds every change of its column from any of its members on: the events
\* after one that is missing would lead from the head without the members before it.
LEMMA ChainUnbroken ==
  ASSUME GovInv, guards, NEW c \in Cols, NEW i \in Chain(c), NEW j \in DOMAIN log, log[j].col = c, i <= j
  PROVE  j \in Chain(c)
<1> SUFFICES ASSUME j \notin Chain(c) PROVE FALSE
  OBVIOUS
<1>1. /\ DOMAIN log = 1 .. Len(log) /\ Len(log) \in Nat /\ i \in DOMAIN log
      /\ \A S \in SUBSET DOMAIN log : Leads(c, S) => i \in S
  BY GovFields DEF GovInv, Chain
<1> DEFINE S == {k \in DOMAIN log : IsEvent(k) /\ log[k].col = c /\ k > j}
<1>2. PICK U \in SUBSET DOMAIN log : Leads(c, U) /\ j \notin U
  BY DEF Chain
<1>3. IsEvent(head[c]) => head[c] \in U /\ head[c] \in 1 .. Len(log)
  BY <1>1, <1>2 DEF Leads, IsEvent
<1>4. IsEvent(head[c]) => head[c] \in S \cap U
  <2> SUFFICES ASSUME IsEvent(head[c]) PROVE head[c] \in S \cap U
    OBVIOUS
  <2>1. head[c] # 0 /\ HeadFits(c)
    BY <1>3 DEF GovInv
  <2>2. log[head[c]].col = c /\ j <= head[c] /\ head[c] # j
    BY <1>2, <1>3, <2>1 DEF HeadFits
  <2> QED BY <1>1, <1>3, <2>2
<1>5. ASSUME NEW k \in S \cap U, IsEvent(log[k].prev) PROVE log[k].prev \in S \cap U
  <2>1. log[k].prev \in U /\ log[k].prev \in 1 .. Len(log)
    BY <1>1, <1>2, <1>5 DEF Leads, IsEvent
  <2>2. EventFits(k) /\ k \in 1 .. Len(log) /\ k > j /\ log[k].kind = "event" /\ log[k].col = c
    BY <1>1, <1>5 DEF GovInv, IsEvent
  <2>3. log[log[k].prev].col = c /\ j <= log[k].prev
    BY <1>1, <2>1, <2>2 DEF EventFits
  <2>4. log[k].prev # j
    BY <1>2, <2>1
  <2> QED BY <1>1, <1>5, <2>1, <2>3, <2>4
<1>6. Leads(c, S \cap U) /\ S \cap U \subseteq DOMAIN log
  <2> HIDE DEF S
  <2> QED BY <1>2, <1>4, <1>5 DEF Leads
<1>7. i \in S
  BY <1>1, <1>6
<1> QED BY <1>1, <1>7

\* A chain consists of events of the log.
LEMMA ChainEvents ==
  ASSUME NEW c, NEW i \in Chain(c)
  PROVE  IsEvent(i)
<1> DEFINE S == {k \in DOMAIN log : IsEvent(k)}
<1>1. Leads(c, S)
  BY DEF Leads, IsEvent
<1> QED BY <1>1 DEF Chain

\* A selection that can be undone has been unbroken since its first changes.
LEMMA ReversibleExact ==
  ASSUME GovInv, NEW sel, Reversible(sel)
  PROVE  /\ sel \subseteq 1 .. Len(log) /\ Unpurged(sel)
         /\ \A c \in ColsOf(sel) : c \in Cols /\ FirstPicked(c, sel) \in DOMAIN log
         /\ \A i \in 1 .. Len(log) : (\E j \in sel : log[j].col = log[i].col /\ j <= i) => i \in sel
<1>1. /\ guards /\ sel \subseteq 1 .. Len(log) /\ Len(log) \in Nat /\ DOMAIN log = 1 .. Len(log)
      /\ \A c \in ColsOf(sel) : {i \in Chain(c) : i >= FirstPicked(c, sel)} = {i \in sel : log[i].col = c}
  BY GovFields DEF GovInv, Reversible, Only
<1>2. sel \in SUBSET Nat /\ \A i \in DOMAIN log : log[i].col \in Cols
  BY <1>1 DEF GovInv, GovTypeOK, Entries
<1>3. ASSUME NEW j \in sel
      PROVE  /\ log[j].col \in ColsOf(sel) /\ FirstPicked(log[j].col, sel) \in sel
             /\ log[FirstPicked(log[j].col, sel)].col = log[j].col /\ FirstPicked(log[j].col, sel) <= j
             /\ j \in Chain(log[j].col) /\ FirstPicked(log[j].col, sel) \in Chain(log[j].col)
  <2>1. /\ FirstPicked(log[j].col, sel) \in sel /\ FirstPicked(log[j].col, sel) <= j
        /\ log[FirstPicked(log[j].col, sel)].col = log[j].col
    BY <1>2, FirstIsFirst
  <2>2. log[j].col \in ColsOf(sel)
    BY DEF ColsOf
  <2> QED BY <1>1, <2>1, <2>2
<1>4. Unpurged(sel)
  <2> SUFFICES ASSUME NEW j \in sel PROVE j > erased[log[j].col]
    BY <1>1 DEF Unpurged
  <2>1. log[j].kind = "event" /\ j \in DOMAIN log
    BY <1>1, <1>3, ChainEvents DEF IsEvent
  <2> QED BY <2>1 DEF GovInv, EventFits
<1>5. ASSUME NEW i \in 1 .. Len(log), NEW j \in sel, log[j].col = log[i].col, j <= i
      PROVE  i \in sel
  <2> DEFINE c == log[j].col
  <2>1. c \in ColsOf(sel) /\ c \in Cols /\ FirstPicked(c, sel) \in Chain(c) /\ FirstPicked(c, sel) \in sel /\ FirstPicked(c, sel) <= j
    BY <1>1, <1>2, <1>3
  <2>2. log[i].col = c
    BY <1>5
  <2> HIDE DEF c
  <2>3. FirstPicked(c, sel) \in Nat /\ FirstPicked(c, sel) <= i
    <3>1. \A n \in Nat : n <= j => n <= i
      BY <1>1, <1>2, <1>5
    <3> QED BY <1>2, <2>1, <3>1
  <2>4. i \in Chain(c)
    BY <1>1, <2>1, <2>2, <2>3, ChainUnbroken
  <2> QED BY <1>1, <2>1, <2>3, <2>4
<1>6. ASSUME NEW c \in ColsOf(sel) PROVE c \in Cols /\ FirstPicked(c, sel) \in DOMAIN log
  <2>1. PICK j \in sel : c = log[j].col
    BY DEF ColsOf
  <2> QED BY <1>1, <1>2, <1>3, <2>1
<1> QED BY <1>1, <1>4, <1>5, <1>6

-----------------------------------------------------------------------------
(* Governance: the history grows *)

\* What every write of the row does to the log: the changes of some columns, one
\* each, follow, as facts or, under the guards, as events after the columns' heads.
Grown ==
  /\ log' \in Seq(Entries) /\ Len(log') \in Len(log) .. MaxLog
  /\ \A i \in 1 .. Len(log) : log'[i] = log[i]
  /\ \A i \in Len(log) + 1 .. Len(log') : log'[i].kind = "event" => guards /\ log'[i].prev = head[log'[i].col]
  /\ \A i, j \in Len(log) + 1 .. Len(log') : log'[i].col = log'[j].col => i = j

Shape(v, kind, l) ==
  /\ l \in Seq(Entries) /\ Len(l) = Len(log) + Cardinality({c \in Cols : v[c] # val[c]}) /\ Len(l) >= Len(log)
  /\ \A i \in 1 .. Len(log) : l[i] = log[i]
  /\ \A i \in Len(log) + 1 .. Len(l) : l[i].kind = kind /\ (kind = "event" => l[i].prev = head[l[i].col])
  /\ \A i, j \in Len(log) + 1 .. Len(l) : l[i].col = l[j].col => i = j
  /\ \A i \in Len(log) + 1 .. Len(l) : l[i].col \in Cols /\ v[l[i].col] # val[l[i].col]
  /\ \A c \in Cols : v[c] # val[c] => \E i \in Len(log) + 1 .. Len(l) : l[i].col = c

LEMMA LoggedShape ==
  ASSUME GovInv, NEW v \in [Cols -> Values], NEW kind \in {"event", "plain"}, NEW l \in Logged(v, kind)
  PROVE  Shape(v, kind, l)
<1> DEFINE changed == {c \in Cols : v[c] # val[c]}
           n == Cardinality(changed)
           entry(c) == [col |-> c, before |-> val[c], after |-> v[c], kind |-> kind,
                        prev |-> IF kind = "event" THEN head[c] ELSE 0]
<1>1. /\ log \in Seq(Entries) /\ Len(log) \in Nat /\ DOMAIN log = 1 .. Len(log) /\ Len(log) <= MaxLog /\ MaxLog \in Nat
      /\ \A c \in Cols : val[c] \in Values /\ head[c] \in 0 .. MaxLog
  BY GovFields DEF GovInv
<1>2. IsFiniteSet(changed) /\ n \in Nat
  BY GovernanceAssumption, FS_Subset, FS_CardinalityType
<1>3. CASE changed = {}
  <2>1. l = log
    BY <1>3 DEF Logged
  <2>2. n = 0
    BY <1>3, FS_EmptySet
  <2>3. \A c \in Cols : v[c] = val[c]
    BY <1>3
  <2>4. Len(l) = Len(log) + Cardinality({c \in Cols : v[c] # val[c]})
    BY <1>1, <2>1, <2>2
  <2>5. \A i \in Len(log) + 1 .. Len(l) : FALSE
    BY <1>1, <2>1
  <2>6. Len(l) >= Len(log) /\ l \in Seq(Entries)
    BY <1>1, <2>1
  <2> QED BY <2>1, <2>3, <2>4, <2>5, <2>6 DEF Shape
<1>4. CASE changed # {}
  <2>1. PICK order \in [1 .. n -> changed] :
          /\ \A i, j \in 1 .. n : order[i] = order[j] => j = i
          /\ l = log \o [i \in 1 .. n |-> entry(order[i])]
    BY <1>4 DEF Logged
  <2> DEFINE g == [i \in 1 .. n |-> entry(order[i])]
  <2>2. \A c \in changed : entry(c) \in Entries /\ entry(c).col = c /\ entry(c).kind = kind
                           /\ entry(c).prev = IF kind = "event" THEN head[c] ELSE 0
    BY <1>1 DEF Entries
  <2>3. order \in Injection(1 .. n, changed)
    <3>1. \A i, j \in 1 .. n : order[i] = order[j] => i = j
      BY <2>1
    <3>2. order \in [1 .. n -> changed]
      BY <2>1
    <3> HIDE DEF changed, n
    <3> QED BY <3>1, <3>2 DEF Injection, IsInjective
  <2>4. IsFiniteSet(1 .. n) /\ Cardinality(1 .. n) = n
    BY <1>2, FS_Interval
  <2>5. order \in Surjection(1 .. n, changed)
    <3> HIDE DEF changed, n, entry
    <3>1. n = Cardinality(changed)
      BY DEF n
    <3> QED BY <1>2, <2>3, <2>4, <3>1, FS_Injection
  <2> HIDE DEF changed, n, entry
  <2>6. g \in Seq(Entries) /\ Len(g) = n /\ \A i \in 1 .. n : g[i] = entry(order[i])
    BY <1>2, <2>1, <2>2
  <2>a. l = log \o g
    BY <2>1
  <2> HIDE DEF g
  <2>7. /\ l \in Seq(Entries) /\ Len(l) = Len(log) + n
        /\ \A i \in 1 .. Len(log) + n : l[i] = IF i <= Len(log) THEN log[i] ELSE g[i - Len(log)]
    BY <1>1, <2>a, <2>6, ConcatProperties
  <2>8. ASSUME NEW i \in Len(log) + 1 .. Len(l)
        PROVE  /\ i - Len(log) \in 1 .. n /\ l[i] = entry(order[i - Len(log)])
               /\ order[i - Len(log)] \in changed /\ l[i].col = order[i - Len(log)]
               /\ l[i].kind = kind /\ (kind = "event" => l[i].prev = head[l[i].col])
    <3>1. i - Len(log) \in 1 .. n /\ l[i] = g[i - Len(log)]
      BY <1>1, <1>2, <2>7
    <3>2. order[i - Len(log)] \in changed
      BY <2>1, <3>1
    <3> QED BY <2>2, <2>6, <3>1, <3>2
  <2>9. ASSUME NEW i \in Len(log) + 1 .. Len(l), NEW j \in Len(log) + 1 .. Len(l), l[i].col = l[j].col
        PROVE  i = j
    <3>1. order[i - Len(log)] = order[j - Len(log)] /\ i - Len(log) \in 1 .. n /\ j - Len(log) \in 1 .. n
      BY <2>8, <2>9
    <3>2. i - Len(log) = j - Len(log)
      <4> DEFINE a == i - Len(log)
                 b == j - Len(log)
      <4>1. a \in 1 .. n /\ b \in 1 .. n /\ order[a] = order[b]
        BY <3>1
      <4> HIDE DEF a, b
      <4>2. a = b
        BY <2>1, <4>1
      <4> QED BY <4>2 DEF a, b
    <3>3. i \in Int /\ j \in Int /\ Len(log) \in Int
      BY <1>1, <1>2, <2>7
    <3> QED BY <3>2, <3>3
  <2>10. ASSUME NEW i \in 1 .. Len(log) PROVE l[i] = log[i]
    <3>1. i \in 1 .. Len(log) + n /\ i <= Len(log)
      BY <1>1, <1>2
    <3> QED BY <2>7, <3>1
  <2>11. ASSUME NEW c \in changed PROVE \E i \in Len(log) + 1 .. Len(l) : l[i].col = c
    <3>1. PICK m \in 1 .. n : order[m] = c
      BY <2>5 DEF Surjection
    <3>2. m + Len(log) \in Len(log) + 1 .. Len(l) /\ (m + Len(log)) - Len(log) = m
      BY <1>1, <1>2, <2>7
    <3>3. l[m + Len(log)].col = order[(m + Len(log)) - Len(log)]
      BY <2>8, <3>2
    <3> QED BY <3>1, <3>2, <3>3
  <2>12. Len(l) = Len(log) + Cardinality({c \in Cols : v[c] # val[c]}) /\ Len(l) >= Len(log)
    BY <1>1, <1>2, <2>7 DEF n, changed
  <2>13. \A i \in Len(log) + 1 .. Len(l) : l[i].col \in Cols /\ v[l[i].col] # val[l[i].col]
    BY <2>8 DEF changed
  <2>14. \A c \in Cols : v[c] # val[c] => \E i \in Len(log) + 1 .. Len(l) : l[i].col = c
    BY <2>11 DEF changed
  <2>15. \A i \in Len(log) + 1 .. Len(l) : l[i].kind = kind /\ (kind = "event" => l[i].prev = head[l[i].col])
    BY <2>8
  <2> QED BY <2>7, <2>9, <2>10, <2>12, <2>13, <2>14, <2>15 DEF Shape
<1> QED BY <1>3, <1>4

LEMMA LoggedGrows ==
  ASSUME GovInv, NEW v \in [Cols -> Values], NEW kind \in {"event", "plain"}, log' \in Logged(v, kind),
         Len(log') <= MaxLog, kind = "event" => guards
  PROVE  Grown
<1>1. PICK l \in Logged(v, kind) : l = log'
  OBVIOUS
<1>2. Shape(v, kind, l)
  BY LoggedShape
<1>3. Len(log) \in Nat /\ MaxLog \in Nat
  BY GovFields DEF GovInv
<1>4. Len(l) \in Len(log) .. MaxLog
  BY <1>1, <1>2, <1>3, LenProperties DEF Shape
<1>5. \A i \in Len(log) + 1 .. Len(l) : l[i].kind = "event" => guards /\ l[i].prev = head[l[i].col]
  BY <1>2 DEF Shape
<1> QED BY <1>1, <1>2, <1>4, <1>5 DEF Grown, Shape

\* A checked write, under the guards.
LEMMA TrackedGrows ==
  ASSUME GovInv, guards, NEW v \in [Cols -> Values], Tracked(v)
  PROVE  /\ Grown /\ head' \in [Cols -> 0 .. MaxLog] /\ val' = v /\ UNCHANGED guards
         /\ rowRev' = rowRev + 1 /\ stamp' = stamp + 1
         /\ \A c \in Cols :
              \/ head'[c] = head[c] /\ \A i \in Len(log) + 1 .. Len(log') : log'[i].col # c
              \/ head'[c] \in Len(log) + 1 .. Len(log') /\ log'[head'[c]].col = c
<1>1. PICK l \in Logged(v, "event") :
        log' = l /\ head' = [c \in Cols |-> IF v[c] # val[c] THEN Last(c, l) ELSE head[c]]
  BY DEF Tracked
<1>2. Shape(v, "event", l)
  BY LoggedShape
<1>3. Len(l) <= MaxLog
  BY <1>2 DEF Tracked, Shape
<1>a. Grown
  BY <1>1, <1>3, LoggedGrows
<1>4. ASSUME NEW c \in Cols
      PROVE  /\ \/ head'[c] = head[c] /\ \A i \in Len(log) + 1 .. Len(log') : log'[i].col # c
                \/ head'[c] \in Len(log) + 1 .. Len(log') /\ log'[head'[c]].col = c
             /\ head'[c] \in 0 .. MaxLog
  <2>1. CASE v[c] = val[c]
    <3>1. \A i \in Len(log) + 1 .. Len(l) : l[i].col # c
      BY <1>2, <2>1 DEF Shape
    <3>2. head'[c] = head[c] /\ head[c] \in 0 .. MaxLog
      <4>1. head[c] \in 0 .. MaxLog
        BY GovFields DEF GovInv
      <4> QED BY <1>1, <2>1, <4>1
    <3> QED BY <1>1, <3>1, <3>2
  <2>2. CASE v[c] # val[c]
    <3>1. head'[c] = Last(c, l) /\ \E i \in Len(log) + 1 .. Len(l) : l[i].col = c
      BY <1>1, <1>2, <2>2 DEF Shape
    <3>2. Last(c, l) \in Len(log) + 1 .. Len(l) /\ l[Last(c, l)].col = c
      BY <3>1 DEF Last
    <3>3. Len(log) \in Nat /\ Len(l) \in Nat /\ Len(l) <= MaxLog /\ MaxLog \in Nat
      BY <1>1, <1>2, <1>3, GovFields, LenProperties DEF GovInv, Shape
    <3> QED BY <1>1, <3>1, <3>2, <3>3
  <2> QED BY <2>1, <2>2
<1>5. head' \in [Cols -> 0 .. MaxLog]
  BY <1>1, <1>4
<1> QED BY <1>a, <1>4, <1>5 DEF Tracked

-----------------------------------------------------------------------------
(* Governance: the invariant's parts *)

AskRecords == [op : {"none", "create", "edit", "approve", "reject", "answered"}, prop : Requests \cup {NoProposer},
               ver : 0 .. MaxVersions, sel : SUBSET (1 .. MaxLog), stamp : 0 .. Latest]
ProposalRecords == [state : {"none", "pending", "approved", "rejected", "purged"}, ver : 0 .. MaxVersions,
                    sel : SUBSET (1 .. MaxLog), base : 0 .. Latest, all : SUBSET (1 .. MaxLog)]
ReplyRecords == [kind : {"none", "done", "refused", "purged"}, sel : SUBSET (1 .. MaxLog), prop : Requests \cup {NoProposer}]

RowFits ==
  /\ val \in [Cols -> Values] /\ rowRev \in Nat /\ stamp \in Nat /\ rowRev <= stamp
  /\ log \in Seq(Entries) /\ Len(log) <= MaxLog /\ erased \in [Cols -> 0 .. Len(log)]
  /\ head \in [Cols -> 0 .. MaxLog] /\ guards \in BOOLEAN
  /\ \A c \in Cols : HeadFits(c)
  /\ \A i \in DOMAIN log : EventFits(i)

RequestsFit ==
  /\ stamp <= MaxStamp + Cardinality(Replied)
  /\ plans \in [Requests -> SUBSET (0 .. Latest)]
  /\ DOMAIN asked = Requests /\ DOMAIN proposal = Requests /\ DOMAIN reply = Requests
  /\ \A k \in Requests : asked[k] \in AskRecords /\ proposal[k] \in ProposalRecords /\ reply[k] \in ReplyRecords
  /\ \A k \in Requests : AskStands(k)

VerdictsFit ==
  /\ \A x \in done : DoneFits(x)
  /\ \A x, y \in done : x.prop = y.prop => x = y

LEMMA AnsweredFinite ==
  /\ IsFiniteSet(Replied) /\ Cardinality(Replied) \in Nat /\ Cardinality(Replied) <= Cardinality(Requests)
  /\ (IsFiniteSet(Replied) /\ Cardinality(Replied) \in Nat /\ Cardinality(Replied) <= Cardinality(Requests))'
<1>1. Replied \subseteq Requests /\ Replied' \subseteq Requests
  BY DEF Replied
<1>2. \A S \in SUBSET Requests : IsFiniteSet(S) /\ Cardinality(S) \in Nat /\ Cardinality(S) <= Cardinality(Requests)
  BY GovernanceAssumption, FS_Subset, FS_CardinalityType
<1> QED BY <1>1, <1>2

LEMMA GovParts ==
  /\ GovInv => RowFits /\ RequestsFit /\ VerdictsFit
  /\ (RowFits /\ RequestsFit /\ VerdictsFit)' => GovInv'
<1>1. GovInv => RowFits
  BY GovFields DEF GovInv, RowFits, GovTypeOK
<1>2. GovInv => RequestsFit /\ VerdictsFit
  BY DEF GovInv, GovTypeOK, RequestsFit, VerdictsFit, AskRecords, ProposalRecords, ReplyRecords
<1>3. ASSUME (RowFits /\ RequestsFit /\ VerdictsFit)' PROVE GovInv'
  <2>1. MaxStamp \in Nat /\ Cardinality(Requests) \in Nat
    BY GovernanceAssumption, FS_CardinalityType
  <2>2. stamp' \in 0 .. Latest /\ rowRev' \in 0 .. Latest
    BY <1>3, <2>1, AnsweredFinite DEF RowFits, RequestsFit, Latest
  <2>3. \A i \in DOMAIN log' : log'[i] \in Entries
    BY <1>3 DEF RowFits
  <2>4. GovTypeOK'
    BY <1>3, <2>2, <2>3 DEF GovTypeOK, RowFits, RequestsFit, AskRecords, ProposalRecords, ReplyRecords
  <2> QED BY <1>3, <2>4 DEF GovInv, RowFits, RequestsFit, VerdictsFit
<1> QED BY <1>1, <1>2, <1>3

\* What a request must keep while the row moves on: its changes stay where they are,
\* as unpurged as they were.
Lasting == \A i \in DOMAIN log : i > erased[log[i].col] => i \in DOMAIN log' /\ i > erased'[log'[i].col]

LEMMA SameRow ==
  ASSUME UNCHANGED <<val, log, head, guards>>
  PROVE  \A s : Reversible(s) => Reversible(s)'
<1>1. \A i : IsEvent(i)' <=> IsEvent(i)
  BY DEF IsEvent
<1>2. \A c, S : Leads(c, S)' <=> Leads(c, S)
  BY <1>1 DEF Leads
<1>3. \A c : Chain(c)' = Chain(c)
  BY <1>2 DEF Chain
<1>4. \A c, s : FirstPicked(c, s)' = FirstPicked(c, s)
  BY DEF FirstPicked
<1>5. \A s : ColsOf(s)' = ColsOf(s)
  BY DEF ColsOf
<1>6. \A c, s : Only(c, s)' <=> Only(c, s)
  BY <1>3, <1>4 DEF Only
<1>7. \A c : HeadCurrent(c)' <=> HeadCurrent(c)
  BY DEF HeadCurrent
<1> QED BY <1>4, <1>5, <1>6, <1>7 DEF Reversible

-----------------------------------------------------------------------------
(* Governance: what the row's steps have in common *)

\* The row moves on, no request does.
LEMMA RequestsWait ==
  ASSUME GovInv, Lasting, stamp < MaxStamp, stamp' = stamp + 1, UNCHANGED <<asked, plans, proposal, reply>>
  PROVE  RequestsFit'
<1>1. stamp \in Nat /\ MaxStamp \in Nat /\ RequestsFit
  BY GovFields, GovParts DEF GovInv
<1>2. stamp' <= MaxStamp + Cardinality(Replied')
  BY <1>1, AnsweredFinite
<1>3. ASSUME NEW k \in Requests PROVE AskStands(k)'
  <2>1. AskStands(k)
    BY DEF GovInv
  <2>2. \A at \in plans[k] : at <= stamp' /\ at # stamp'
    BY <1>1, <2>1 DEF AskStands, RequestsFit
  <2>3. Unpurged(proposal[k].all \cup reply[k].sel)'
    BY <2>1 DEF AskStands, Unpurged, Lasting
  <2> QED BY <2>1, <2>2, <2>3 DEF AskStands, Pointed
<1> QED BY <1>1, <1>2, <1>3 DEF RequestsFit

\* The columns of the log stay, no proposal that was approved is anything but purged.
LEMMA VerdictsStand ==
  ASSUME GovInv, log' \in Seq(Entries), Len(log) <= Len(log'), UNCHANGED done,
         \A i \in 1 .. Len(log) : log'[i].col = log[i].col,
         \A p \in Requests : proposal[p].state \in {"approved", "purged"} => proposal'[p] = proposal[p] \/ proposal'[p].state = "purged"
  PROVE  VerdictsFit'
<1>1. Len(log) \in Nat /\ Len(log') \in Nat
  BY GovFields, LenProperties DEF GovInv
<1>2. ASSUME NEW x \in done PROVE DoneFits(x)'
  <2>1. DoneFits(x)
    BY DEF GovInv
  <2>2. x.prop \in Requests /\ x.at \in 0 .. Len(log') /\ x.sel \subseteq 1 .. x.at
    BY <1>1, <2>1 DEF DoneFits
  <2>3. proposal'[x.prop].state = "purged" \/ (proposal'[x.prop].state = "approved" /\ proposal'[x.prop].ver = x.ver)
    BY <2>1 DEF DoneFits
  <2>4. \A i \in 1 .. x.at : i \in 1 .. Len(log)
    BY <1>1, <2>1 DEF DoneFits
  <2>5. \A i \in 1 .. x.at : (\E j \in x.sel : log'[j].col = log'[i].col /\ j <= i) => i \in x.sel
    BY <2>1, <2>2, <2>4 DEF DoneFits
  <2> QED BY <2>2, <2>3, <2>5 DEF DoneFits
<1> QED BY <1>2 DEF GovInv, VerdictsFit

\* Every write of the row: a head ends, stays while its column does, or is the
\* column's new change.
LEMMA RowMoves ==
  ASSUME GovInv, Grown, val' \in [Cols -> Values], head' \in [Cols -> 0 .. MaxLog],
         rowRev' \in {rowRev, rowRev + 1}, stamp' = stamp + 1, UNCHANGED <<guards, erased>>,
         guards => \A c \in Cols :
           \/ head'[c] = 0
           \/ head'[c] = head[c] /\ \A i \in Len(log) + 1 .. Len(log') : log'[i].col # c
           \/ head'[c] \in Len(log) + 1 .. Len(log') /\ log'[head'[c]].col = c
  PROVE  RowFits' /\ Lasting
<1>1. /\ log \in Seq(Entries) /\ Len(log) \in Nat /\ DOMAIN log = 1 .. Len(log) /\ MaxLog \in Nat
      /\ \A c \in Cols : head[c] \in 0 .. MaxLog
      /\ rowRev \in Nat /\ stamp \in Nat
  BY GovFields DEF GovInv
<1>2. /\ log' \in Seq(Entries) /\ Len(log') \in Nat /\ Len(log) <= Len(log') /\ Len(log') <= MaxLog
      /\ DOMAIN log' = 1 .. Len(log') /\ \A i \in DOMAIN log' : log'[i] \in Entries
  BY <1>1, LenProperties DEF Grown
<1>3. ASSUME NEW c \in Cols PROVE HeadFits(c)'
  <2> SUFFICES ASSUME guards, head'[c] # 0
               PROVE  /\ head'[c] \in DOMAIN log' /\ log'[head'[c]].col = c
                      /\ \A i \in DOMAIN log' : log'[i].col = c => i <= head'[c]
    BY DEF HeadFits
  <2>1. CASE head'[c] = head[c] /\ \A i \in Len(log) + 1 .. Len(log') : log'[i].col # c
    <3>1. /\ head[c] \in 1 .. Len(log) /\ log[head[c]].col = c
          /\ \A i \in 1 .. Len(log) : log[i].col = c => i <= head[c]
      BY <1>1, <2>1 DEF GovInv, HeadFits
    <3>2. \A i \in 1 .. Len(log') : i \in 1 .. Len(log) \/ i \in Len(log) + 1 .. Len(log')
      BY <1>1, <1>2
    <3> QED BY <1>1, <1>2, <2>1, <3>1, <3>2 DEF Grown
  <2>2. CASE head'[c] \in Len(log) + 1 .. Len(log') /\ log'[head'[c]].col = c
    <3>1. ASSUME NEW i \in 1 .. Len(log'), log'[i].col = c PROVE i <= head'[c]
      <4>1. CASE i <= Len(log)
        BY <1>1, <1>2, <2>2, <4>1
      <4>2. CASE i > Len(log)
        <5>1. i \in Len(log) + 1 .. Len(log')
          BY <1>1, <1>2, <4>2
        <5>2. i = head'[c]
          BY <2>2, <3>1, <5>1 DEF Grown
        <5> QED BY <1>1, <1>2, <5>1, <5>2
      <4> QED BY <1>1, <1>2, <4>1, <4>2
    <3> QED BY <1>1, <1>2, <2>2, <3>1
  <2> QED BY <2>1, <2>2
<1>4. \A c \in Cols : erased[c] \in 0 .. Len(log)
  BY DEF GovInv
<1>5. ASSUME NEW i \in DOMAIN log' PROVE EventFits(i)'
  <2> SUFFICES ASSUME log'[i].kind = "event" PROVE EventFits(i)'
    BY DEF EventFits
  <2>1. CASE i <= Len(log)
    <3>1. i \in 1 .. Len(log) /\ log'[i] = log[i] /\ \A j \in 1 .. i - 1 : log'[j] = log[j]
      BY <1>1, <1>2, <2>1 DEF Grown
    <3>2. EventFits(i)
      BY <1>1, <3>1 DEF GovInv
    <3> QED BY <3>1, <3>2 DEF EventFits
  <2>2. CASE i > Len(log)
    <3>1. i \in Len(log) + 1 .. Len(log')
      BY <1>1, <1>2, <2>2
    <3> DEFINE c == log'[i].col
    <3>2. guards /\ log'[i].prev = head[c] /\ c \in Cols
      BY <1>2, <3>1 DEF Grown, Entries
    <3>3. i > erased[c]
      BY SMTT(30), <1>1, <1>4, <2>2, <3>2
    <3>4. ASSUME head[c] # 0
          PROVE  /\ head[c] \in 1 .. i - 1 /\ log'[head[c]].col = c
                 /\ \A j \in 1 .. i - 1 : log'[j].col = c => j <= head[c]
      <4>1. /\ head[c] \in 1 .. Len(log) /\ log[head[c]].col = c
            /\ \A j \in 1 .. Len(log) : log[j].col = c => j <= head[c]
        BY <1>1, <3>2, <3>4 DEF GovInv, HeadFits
      <4>2. ASSUME NEW j \in 1 .. i - 1, log'[j].col = c PROVE j \in 1 .. Len(log)
        <5>1. CASE j > Len(log)
          <6>1. j \in Len(log) + 1 .. Len(log') /\ j # i
            BY <1>1, <1>2, <3>1, <5>1
          <6> QED BY <3>1, <4>2, <6>1 DEF Grown
        <5>2. i \in Nat /\ j \in Nat /\ j >= 1
          BY <1>1, <1>2
        <5> QED BY <1>1, <5>1, <5>2
      <4>3. head[c] \in 1 .. i - 1
        <5>1. i \in Nat /\ head[c] \in 1 .. Len(log) /\ Len(log) < i
          BY <1>1, <1>2, <2>2, <4>1
        <5> QED BY <1>1, <5>1
      <4> QED BY <4>1, <4>2, <4>3 DEF Grown
    <3> HIDE DEF c
    <3> QED BY <3>2, <3>3, <3>4 DEF EventFits, c
  <2> QED BY <1>1, <1>2, <2>1, <2>2
<1>6. erased' \in [Cols -> 0 .. Len(log')]
  <2>1. erased \in [Cols -> 0 .. Len(log)]
    BY DEF GovInv
  <2>2. 0 .. Len(log) \subseteq 0 .. Len(log')
    BY <1>1, <1>2
  <2> QED BY <2>1, <2>2
<1>7. rowRev' \in Nat /\ stamp' \in Nat /\ rowRev' <= stamp' /\ guards' \in BOOLEAN
  BY <1>1 DEF GovInv, GovTypeOK
<1>8. Lasting
  BY <1>1, <1>2 DEF Lasting, Grown
<1> QED BY <1>2, <1>3, <1>5, <1>6, <1>7, <1>8 DEF RowFits

LEMMA WriteSteps ==
  ASSUME GovInv, NEW v \in [Cols -> Values], CheckedWrite(v) \/ ExplainedPush(v) \/ OtherWrite(v)
  PROVE  GovInv'
<1>1. /\ log \in Seq(Entries) /\ Len(log) \in Nat /\ stamp \in Nat
      /\ head \in [Cols -> 0 .. MaxLog] /\ 0 \in 0 .. MaxLog
  BY GovFields DEF GovInv, GovTypeOK
<1>2. /\ Grown /\ val' \in [Cols -> Values] /\ head' \in [Cols -> 0 .. MaxLog] /\ UNCHANGED guards
      /\ rowRev' \in {rowRev, rowRev + 1} /\ stamp' = stamp + 1
      /\ guards => \A c \in Cols :
           \/ head'[c] = 0
           \/ head'[c] = head[c] /\ \A i \in Len(log) + 1 .. Len(log') : log'[i].col # c
           \/ head'[c] \in Len(log) + 1 .. Len(log') /\ log'[head'[c]].col = c
  <2>1. CASE CheckedWrite(v) /\ guards
    <3>1. Tracked(v)
      BY <2>1 DEF CheckedWrite
    <3> QED BY <2>1, <3>1, TrackedGrows
  <2>2. CASE CheckedWrite(v) /\ ~guards
    <3>1. log' \in Logged(v, "plain") /\ Len(log') <= MaxLog
      BY <2>2 DEF CheckedWrite
    <3>2. Grown
      BY <3>1, LoggedGrows
    <3> QED BY <1>1, <2>2, <3>2 DEF CheckedWrite
  <2>3. CASE ExplainedPush(v)
    <3>1. PICK l \in Logged(v, "plain") : log' = l
      BY <2>3 DEF ExplainedPush
    <3>2. Grown
      BY <2>3, LoggedGrows DEF ExplainedPush
    <3>3. Shape(v, "plain", l)
      BY LoggedShape
    <3>4. head' \in [Cols -> 0 .. MaxLog]
      BY <1>1, <2>3 DEF ExplainedPush, Broken
    <3>5. ASSUME NEW c \in Cols, head'[c] # 0
          PROVE  head'[c] = head[c] /\ \A i \in Len(log) + 1 .. Len(log') : log'[i].col # c
      <4>1. v[c] = val[c] /\ head'[c] = head[c]
        BY <2>3, <3>5 DEF ExplainedPush, Broken
      <4> QED BY <3>1, <3>3, <4>1 DEF Shape
    <3> QED BY <2>3, <3>2, <3>4, <3>5 DEF ExplainedPush
  <2>4. CASE OtherWrite(v)
    <3>1. Grown
      BY <2>4, LoggedGrows DEF OtherWrite
    <3>2. head' \in [Cols -> 0 .. MaxLog] /\ (guards => \A c \in Cols : head'[c] = 0)
      BY <1>1, <2>4 DEF OtherWrite
    <3> QED BY <2>4, <3>1, <3>2 DEF OtherWrite
  <2> QED BY <2>1, <2>2, <2>3, <2>4
<1>3. UNCHANGED <<asked, plans, proposal, reply, done, erased>> /\ stamp < MaxStamp
  BY DEF CheckedWrite, ExplainedPush, OtherWrite, Bounded
<1>4. RowFits' /\ Lasting
  BY <1>2, <1>3, RowMoves
<1>5. RequestsFit'
  BY <1>2, <1>3, <1>4, RequestsWait
<1>6. log' \in Seq(Entries) /\ Len(log) <= Len(log') /\ \A i \in 1 .. Len(log) : log'[i].col = log[i].col
  <2>1. MaxLog \in Nat
    BY GovernanceAssumption
  <2>2. Len(log') \in Len(log) .. MaxLog /\ log' \in Seq(Entries) /\ \A i \in 1 .. Len(log) : log'[i] = log[i]
    BY <1>2 DEF Grown
  <2> QED BY SMTT(30), <1>1, <2>1, <2>2
<1>7. VerdictsFit'
  BY <1>3, <1>6, VerdictsStand
<1> QED BY <1>4, <1>5, <1>7, GovParts

-----------------------------------------------------------------------------
(* Governance: guards, history and purges *)

LEMMA GuardSteps ==
  ASSUME GovInv, LoseGuards \/ EnsureGuards
  PROVE  GovInv'
<1>1. /\ RowFits /\ stamp' = stamp + 1 /\ stamp < MaxStamp
      /\ UNCHANGED <<val, rowRev, log, asked, plans, proposal, reply, done, erased>>
  BY GovParts DEF LoseGuards, EnsureGuards
<1>2. /\ guards' \in BOOLEAN /\ head' \in [Cols -> 0 .. MaxLog]
      /\ \A c \in Cols : guards' => head'[c] = 0
  <2>1. CASE LoseGuards
    BY <1>1, <2>1 DEF LoseGuards, RowFits
  <2>2. CASE EnsureGuards
    BY <2>2, GovernanceAssumption DEF EnsureGuards, Kept
  <2> QED BY <2>1, <2>2
<1>3. \A c \in Cols : HeadFits(c)'
  BY <1>2 DEF HeadFits
<1>4. \A i \in DOMAIN log : EventFits(i)'
  BY <1>1 DEF RowFits, EventFits
<1>5. RowFits' /\ Lasting
  BY <1>1, <1>2, <1>3, <1>4 DEF RowFits, Lasting
<1>6. RequestsFit'
  BY <1>1, <1>5, RequestsWait
<1>7. VerdictsFit'
  <2>1. Len(log) <= Len(log') /\ log' \in Seq(Entries)
    BY <1>1, LenProperties DEF RowFits
  <2> QED BY <1>1, <2>1, VerdictsStand
<1> QED BY <1>5, <1>6, <1>7, GovParts

\* Events of the log become plain facts and heads end, no event of a column without
\* its head doing so, and nothing else in the log changes.
Forgotten ==
  /\ log' \in Seq(Entries) /\ Len(log') = Len(log) /\ DOMAIN log' = DOMAIN log
  /\ \A i \in DOMAIN log : log'[i].col = log[i].col /\ log'[i].prev = log[i].prev
  /\ \A i \in DOMAIN log : log'[i].kind = "event" => log[i].kind = "event"
  /\ head' \in [Cols -> 0 .. MaxLog] /\ \A c \in Cols : head'[c] \in {0, head[c]}

LEMMA RowForgets ==
  ASSUME GovInv, Forgotten, UNCHANGED <<val, rowRev, guards>>, stamp' = stamp + 1,
         erased' \in [Cols -> 0 .. Len(log)],
         \A i \in DOMAIN log : log'[i].kind = "event" => erased'[log[i].col] = erased[log[i].col]
  PROVE  RowFits'
<1>1. RowFits /\ Len(log) \in Nat /\ DOMAIN log = 1 .. Len(log)
  BY GovFields, GovParts DEF GovInv
<1>2. \A c \in Cols : HeadFits(c)'
  <2> SUFFICES ASSUME NEW c \in Cols, guards, head'[c] # 0 PROVE HeadFits(c)'
    BY DEF HeadFits
  <2>1. HeadFits(c) /\ head'[c] = head[c]
    BY <1>1 DEF RowFits, Forgotten
  <2> QED BY <2>1 DEF HeadFits, Forgotten
<1>3. ASSUME NEW i \in DOMAIN log, log'[i].kind = "event" PROVE EventFits(i)'
  <2>1. EventFits(i) /\ log[i].kind = "event" /\ i \in 1 .. Len(log)
    BY <1>1, <1>3 DEF RowFits, Forgotten
  <2>2. log'[i].col = log[i].col /\ log'[i].prev = log[i].prev /\ erased'[log[i].col] = erased[log[i].col]
    BY <1>3 DEF Forgotten
  <2>3. \A j \in 1 .. i - 1 : j \in DOMAIN log /\ log'[j].col = log[j].col
    BY <1>1, <2>1 DEF Forgotten
  <2> QED BY <2>1, <2>2, <2>3 DEF EventFits
<1>4. \A i \in DOMAIN log' : EventFits(i)'
  BY <1>3 DEF EventFits, Forgotten
<1> QED BY <1>1, <1>2, <1>4 DEF RowFits, Forgotten

LEMMA HistorySteps ==
  ASSUME GovInv, NEW i \in DOMAIN log, EditHistory(i)
  PROVE  GovInv'
<1>1. /\ RowFits /\ Len(log) \in Nat /\ DOMAIN log = 1 .. Len(log) /\ log[i] \in Entries /\ 0 \in 0 .. MaxLog
  BY GovFields, GovParts DEF GovInv, RowFits
<1>2. Forgotten
  <2>1. \A j \in DOMAIN log : log[j] \in Entries
    BY <1>1 DEF RowFits
  <2>2. [log[i] EXCEPT !.kind = "plain"] \in Entries
    BY <1>1 DEF Entries
  <2>3. log' = [log EXCEPT ![i] = [log[i] EXCEPT !.kind = "plain"]]
    BY DEF EditHistory
  <2>4. log' \in Seq(Entries) /\ Len(log') = Len(log) /\ DOMAIN log' = DOMAIN log
    BY <1>1, <2>2, <2>3, ExceptSeq DEF RowFits
  <2>5. \A j \in DOMAIN log : j # i => log'[j] = log[j]
    BY <2>3
  <2>6. log'[i].kind = "plain" /\ log'[i].col = log[i].col /\ log'[i].prev = log[i].prev
    BY <1>1, <2>3 DEF Entries
  <2>7. head' \in [Cols -> 0 .. MaxLog] /\ \A c \in Cols : head'[c] \in {0, head[c]}
    BY <1>1 DEF RowFits, EditHistory
  <2> QED BY <2>4, <2>5, <2>6, <2>7 DEF Forgotten
<1>3. /\ stamp < MaxStamp /\ stamp' = stamp + 1
      /\ UNCHANGED <<val, rowRev, guards, asked, plans, proposal, reply, done, erased>>
  BY DEF EditHistory
<1>4. RowFits'
  BY <1>1, <1>2, <1>3, RowForgets DEF RowFits
<1>5. RequestsFit'
  <2>1. Lasting
    BY <1>2, <1>3 DEF Lasting, Forgotten
  <2> QED BY <1>3, <2>1, RequestsWait
<1>6. VerdictsFit'
  <2>1. Len(log) <= Len(log') /\ \A j \in 1 .. Len(log) : log'[j].col = log[j].col
    BY <1>1, <1>2 DEF Forgotten
  <2>2. log' \in Seq(Entries)
    BY <1>2 DEF Forgotten
  <2> QED BY <1>3, <2>1, <2>2, VerdictsStand
<1> QED BY <1>4, <1>5, <1>6, GovParts

LEMMA PurgeSteps ==
  ASSUME GovInv, NEW c \in Cols, PurgeHistory(c)
  PROVE  GovInv'
<1>1. /\ RowFits /\ RequestsFit /\ Len(log) \in Nat /\ DOMAIN log = 1 .. Len(log) /\ 0 \in 0 .. MaxLog
      /\ \A i \in DOMAIN log : log[i] \in Entries
  BY GovFields, GovParts DEF GovInv, RowFits
<1>2. Forgotten /\ \A i \in DOMAIN log : log'[i].kind = "event" => log[i].col # c
  <2>1. log' = [i \in 1 .. Len(log) |-> IF log[i].col = c THEN [log[i] EXCEPT !.kind = "plain"] ELSE log[i]]
    BY <1>1 DEF PurgeHistory
  <2>2. \A i \in 1 .. Len(log) : log[i].col = c => /\ log'[i] \in Entries /\ log'[i].col = log[i].col /\ log'[i].prev = log[i].prev
                                                   /\ log'[i].kind = "plain"
    BY <1>1, <2>1 DEF Entries
  <2>3. \A i \in 1 .. Len(log) : log[i].col # c => log'[i] = log[i]
    BY <2>1
  <2>4. log' \in Seq(Entries) /\ Len(log') = Len(log) /\ DOMAIN log' = DOMAIN log
    <3>1. log' \in [1 .. Len(log) -> Entries]
      BY <1>1, <2>1, <2>2, <2>3
    <3> QED BY <1>1, <3>1
  <2>5. head' \in [Cols -> 0 .. MaxLog] /\ \A d \in Cols : head'[d] \in {0, head[d]}
    BY <1>1 DEF RowFits, PurgeHistory
  <2> QED BY <1>1, <2>2, <2>3, <2>4, <2>5 DEF Forgotten
<1>3. /\ stamp < MaxStamp /\ stamp' = stamp + 1 /\ UNCHANGED <<val, rowRev, guards, asked, plans, done>>
      /\ erased' = [erased EXCEPT ![c] = Len(log)]
  BY DEF PurgeHistory
<1>4. RowFits'
  <2>1. erased' \in [Cols -> 0 .. Len(log)]
    BY <1>1, <1>3 DEF RowFits
  <2>2. \A i \in DOMAIN log : log'[i].kind = "event" => erased'[log[i].col] = erased[log[i].col]
    BY <1>1, <1>2, <1>3 DEF RowFits
  <2> QED BY <1>2, <1>3, <2>1, <2>2, RowForgets
<1>5. ASSUME NEW i \in DOMAIN log, i > erased[log[i].col], log[i].col # c
      PROVE  i \in DOMAIN log' /\ i > erased'[log'[i].col]
  <2>1. log'[i].col = log[i].col /\ log[i].col \in Cols /\ DOMAIN log' = DOMAIN log
    BY <1>1, <1>2 DEF Forgotten, Entries
  <2> QED BY <1>1, <1>3, <1>5, <2>1 DEF RowFits
<1>6. ASSUME NEW k \in Requests
      PROVE  /\ proposal'[k] \in ProposalRecords /\ reply'[k] \in ReplyRecords
             /\ AskStands(k)' /\ (proposal'[k] = proposal[k] \/ proposal'[k].state = "purged")
  <2>1. AskStands(k) /\ proposal[k] \in ProposalRecords /\ reply[k] \in ReplyRecords /\ asked'[k] = asked[k] /\ plans'[k] = plans[k]
    BY <1>1, <1>3 DEF RequestsFit
  <2>2. /\ proposal'[k] \in ProposalRecords /\ proposal'[k].sel \subseteq proposal'[k].all
        /\ (proposal'[k] = proposal[k] \/ (proposal[k].state # "none" /\ proposal'[k].state = "purged"))
        /\ (proposal'[k].state = "none" => proposal'[k].all = {})
        /\ \A i \in proposal'[k].all : i \in DOMAIN log /\ i > erased[log[i].col] /\ log[i].col # c
    <3>1. CASE proposal[k].state # "none" /\ Touches(k, c)
      <4>1. proposal'[k] = [NoProposalYet EXCEPT !.state = "purged"]
        BY <3>1 DEF PurgeHistory
      <4>2. /\ proposal'[k].state = "purged" /\ proposal'[k].sel = {} /\ proposal'[k].all = {} /\ proposal'[k].ver = 0
            /\ proposal'[k].base = 0 /\ proposal'[k] = [state |-> "purged", ver |-> 0, sel |-> {}, base |-> 0, all |-> {}]
        BY <4>1 DEF NoProposalYet
      <4>3. 0 \in 0 .. MaxVersions /\ 0 \in 0 .. Latest
        BY GovernanceAssumption, FS_CardinalityType DEF Latest
      <4>4. proposal'[k] \in ProposalRecords
        BY <4>2, <4>3 DEF ProposalRecords
      <4> QED BY <3>1, <4>2, <4>4
    <3>2. CASE ~ (proposal[k].state # "none" /\ Touches(k, c))
      <4>1. proposal'[k] = proposal[k]
        BY <3>2 DEF PurgeHistory
      <4>2. \A i \in proposal[k].all : i \in DOMAIN log /\ i > erased[log[i].col]
        BY <2>1 DEF AskStands, Unpurged
      <4>3. \A i \in proposal[k].all : log[i].col # c
        BY <2>1, <3>2 DEF AskStands, Touches, ColsOf
      <4> QED BY <2>1, <4>1, <4>2, <4>3 DEF AskStands
    <3> QED BY <3>1, <3>2
  <2>3. /\ reply'[k] \in ReplyRecords /\ (reply'[k].kind = "none" => reply'[k].sel = {})
        /\ \A i \in reply'[k].sel : i \in DOMAIN log /\ i > erased[log[i].col] /\ log[i].col # c
    <3>1. \A i \in reply[k].sel : i \in DOMAIN log /\ i > erased[log[i].col]
      BY <2>1 DEF AskStands, Unpurged
    <3>2. CASE reply[k].kind = "none"
      <4>1. reply'[k] = reply[k] /\ reply[k].sel = {}
        BY <2>1, <3>2 DEF PurgeHistory, AskStands
      <4> QED BY <2>1, <4>1
    <3>3. CASE reply[k].kind # "none" /\ (c \in ColsOf(reply[k].sel) \/ (reply[k].kind = "done" /\ Touches(reply[k].prop, c)))
      <4>1. reply'[k] = [reply[k] EXCEPT !.kind = "purged", !.sel = {}]
        BY <3>3 DEF PurgeHistory
      <4>2. reply'[k] \in ReplyRecords /\ reply'[k].kind = "purged" /\ reply'[k].sel = {}
        BY <2>1, <4>1 DEF ReplyRecords
      <4> QED BY <4>2
    <3>4. CASE reply[k].kind # "none" /\ ~ (c \in ColsOf(reply[k].sel) \/ (reply[k].kind = "done" /\ Touches(reply[k].prop, c)))
      <4>1. reply'[k] = reply[k] /\ c \notin ColsOf(reply[k].sel)
        BY <3>4 DEF PurgeHistory
      <4>2. \A i \in reply[k].sel : log[i].col # c
        BY <4>1 DEF ColsOf
      <4> QED BY <2>1, <3>1, <3>4, <4>1, <4>2
    <3> QED BY <3>2, <3>3, <3>4
  <2>4. Unpurged(proposal[k].all \cup reply[k].sel)'
    <3> SUFFICES ASSUME NEW i \in proposal'[k].all \cup reply'[k].sel PROVE i \in DOMAIN log' /\ i > erased'[log'[i].col]
      BY DEF Unpurged
    <3>1. i \in DOMAIN log /\ i > erased[log[i].col] /\ log[i].col # c
      BY <2>2, <2>3
    <3> QED BY <1>5, <3>1
  <2>5. \A at \in plans[k] : at <= stamp' /\ at # stamp'
    BY <1>1, <1>3, <2>1 DEF AskStands, RequestsFit, RowFits
  <2> QED BY <2>1, <2>2, <2>3, <2>4, <2>5 DEF AskStands, Pointed
<1>7. RequestsFit'
  <2>1. stamp \in Nat /\ MaxStamp \in Nat /\ UNCHANGED Replied
    BY <1>1, <1>3, GovernanceAssumption DEF RowFits, Replied
  <2>2. stamp' <= MaxStamp + Cardinality(Replied')
    BY <1>3, <2>1, AnsweredFinite
  <2>3. DOMAIN proposal' = Requests /\ DOMAIN reply' = Requests
    BY DEF PurgeHistory
  <2> QED BY <1>1, <1>3, <1>6, <2>2, <2>3 DEF RequestsFit
<1>8. VerdictsFit'
  <2>1. log' \in Seq(Entries) /\ Len(log) <= Len(log') /\ \A j \in 1 .. Len(log) : log'[j].col = log[j].col
    BY <1>1, <1>2 DEF Forgotten
  <2> QED BY <1>3, <1>6, <2>1, VerdictsStand
<1> QED BY <1>4, <1>7, <1>8, GovParts

-----------------------------------------------------------------------------
(* Governance: requests *)

LEMMA RequestFields ==
  ASSUME GovInv, NEW k \in Requests
  PROVE  /\ asked[k] \in AskRecords /\ proposal[k] \in ProposalRecords /\ reply[k] \in ReplyRecords /\ AskStands(k)
         /\ plans[k] \in SUBSET (0 .. Latest) /\ stamp \in 0 .. Latest /\ rowRev \in 0 .. Latest /\ DOMAIN log \subseteq 1 .. MaxLog
<1>1. Len(log) \in Nat /\ DOMAIN log = 1 .. Len(log) /\ Len(log) <= MaxLog /\ MaxLog \in Nat
  BY GovFields DEF GovInv
<1>2. DOMAIN log \subseteq 1 .. MaxLog
  BY <1>1
<1> QED BY <1>2, GovParts DEF RequestsFit, GovInv, GovTypeOK

\* The row rests.
LEMMA RowRests ==
  ASSUME GovInv, UNCHANGED <<rowVars, stamp, erased>>
  PROVE  RowFits' /\ Lasting
<1>1. RowFits /\ UNCHANGED <<val, rowRev, log, head, guards>>
  BY GovParts DEF rowVars
<1>2. \A c \in Cols : HeadFits(c)'
  BY <1>1 DEF RowFits, HeadFits
<1>3. \A i \in DOMAIN log : EventFits(i)'
  BY <1>1 DEF RowFits, EventFits
<1> QED BY <1>1, <1>2, <1>3 DEF RowFits, Lasting

\* A client makes a request.
LEMMA AskSteps ==
  ASSUME GovInv, NEW k \in Requests, NEW op \in {"create", "edit", "approve", "reject"}, NEW p \in Requests,
         NEW ver \in 0 .. MaxVersions, NEW sel \in SUBSET (1 .. MaxLog), op = "create" => p = k, Asks(k, op, p, ver, sel)
  PROVE  GovInv'
<1> DEFINE r == [op |-> op, prop |-> p, ver |-> ver, sel |-> sel, stamp |-> stamp]
<1>1. /\ asked[k].op = "none" /\ asked' = [asked EXCEPT ![k] = r]
      /\ UNCHANGED <<rowVars, stamp, plans, proposal, reply, done, erased>>
  BY DEF Asks, rowVars
<1>2. r \in AskRecords /\ r.op = op /\ r.prop = p
  BY RequestFields DEF AskRecords
<1> HIDE DEF r
<1>3. RowFits' /\ RequestsFit
  BY <1>1, RowRests, GovParts
<1>4. DOMAIN asked' = Requests /\ \A j \in Requests : asked'[j] = IF j = k THEN r ELSE asked[j]
  BY <1>1, <1>3 DEF RequestsFit
<1>5. Replied' = Replied
  BY <1>1, <1>2, <1>4 DEF Replied
<1>6. ASSUME NEW j \in Requests PROVE AskStands(j)'
  <2>1. AskStands(j)
    BY <1>3 DEF RequestsFit
  <2>2. Unpurged(proposal[j].all \cup reply[j].sel)'
    BY <1>1, <2>1 DEF AskStands, Unpurged, rowVars
  <2>3. CASE j = k
    <3>1. asked'[j] = r /\ plans'[j] = {} /\ proposal'[j].state = "none"
      BY <1>1, <1>4, <2>1, <2>3 DEF AskStands, Pointed
    <3> QED BY <1>1, <1>2, <2>1, <2>2, <2>3, <3>1 DEF AskStands, Pointed
  <2>4. CASE j # k
    <3>1. asked'[j] = asked[j]
      BY <1>4, <2>4
    <3>2. \A s : Reversible(s) => Reversible(s)'
      BY <1>1, SameRow DEF rowVars
    <3> QED BY <1>1, <2>1, <2>2, <3>1, <3>2 DEF AskStands, Pointed
  <2> QED BY <2>3, <2>4
<1>7. RequestsFit'
  BY <1>1, <1>2, <1>3, <1>4, <1>5, <1>6 DEF RequestsFit
<1>8. VerdictsFit'
  BY <1>1, <1>3, GovParts DEF VerdictsFit, DoneFits, rowVars
<1> QED BY <1>3, <1>7, <1>8, GovParts

LEMMA ServeSteps ==
  ASSUME GovInv, NEW k \in Requests, Serve(k)
  PROVE  GovInv'
<1>1. /\ asked[k].op \notin {"none", "answered"} /\ Same(asked[k]) /\ plans' = [plans EXCEPT ![k] = plans[k] \cup {stamp}]
      /\ UNCHANGED <<rowVars, stamp, asked, proposal, reply, done, erased>>
  BY DEF Serve, rowVars
<1>2. RowFits' /\ RequestsFit /\ stamp \in 0 .. Latest
  BY <1>1, RowRests, GovParts, RequestFields
<1>3. plans' \in [Requests -> SUBSET (0 .. Latest)] /\ \A j \in Requests : plans'[j] = IF j = k THEN plans[k] \cup {stamp} ELSE plans[j]
  BY <1>1, <1>2 DEF RequestsFit
<1>4. ASSUME NEW j \in Requests PROVE AskStands(j)'
  <2>1. AskStands(j) /\ asked[j] \in AskRecords
    BY <1>2 DEF RequestsFit
  <2>2. Unpurged(proposal[j].all \cup reply[j].sel)'
    BY <1>1, <2>1 DEF AskStands, Unpurged, rowVars
  <2>3. \A s : Reversible(s) => Reversible(s)'
    BY <1>1, SameRow DEF rowVars
  <2>4. ASSUME NEW at \in plans'[j]
        PROVE  Pointed(j) /\ at <= stamp /\ \A s \in {asked[j].sel} : at = stamp /\ asked[j].op # "reject" => Reversible(s)
    <3>1. CASE at \in plans[j]
      BY <2>1, <3>1 DEF AskStands
    <3>2. CASE at \notin plans[j]
      <4>1. j = k /\ at = stamp
        BY <1>3, <2>4, <3>2
      <4> QED BY <1>1, <1>2, <2>1, <4>1 DEF AskRecords, Pointed, Same
    <3> QED BY <3>1, <3>2
  <2> QED BY <1>1, <2>1, <2>2, <2>3, <2>4 DEF AskStands, Pointed
<1>5. Replied' = Replied
  BY <1>1 DEF Replied
<1>6. RequestsFit'
  BY <1>1, <1>2, <1>3, <1>4, <1>5 DEF RequestsFit
<1>7. VerdictsFit'
  BY <1>1, GovParts DEF VerdictsFit, DoneFits, rowVars
<1> QED BY <1>2, <1>6, <1>7, GovParts

\* A request is answered: its receipt is written, and one proposal at most, its own
\* or that of a request that was answered before, becomes r; the row rests or moves on.
LEMMA AnswerFits ==
  ASSUME GovInv, NEW k \in Requests, Pointed(k), NEW answer \in {"done", "refused"}, NEW sel \in SUBSET (1 .. MaxLog),
         Receipt(k, answer, sel), Unpurged(sel),
         NEW p \in Requests, NEW r \in ProposalRecords,
         DOMAIN proposal' = Requests, \A j \in Requests : proposal'[j] = IF j = p THEN r ELSE proposal[j],
         p = k \/ asked[p].op = "answered", r.state = "none" => r.all = {}, r.sel \subseteq r.all, Unpurged(r.all),
         Lasting, UNCHANGED <<rowVars, stamp>> \/ stamp' = stamp + 1
  PROVE  RequestsFit'
<1> DEFINE q == [kind |-> answer, sel |-> sel, prop |-> asked[k].prop]
           z == [NoAskYet EXCEPT !.op = "answered"]
<1>1. RequestsFit /\ asked[k].prop \in Requests /\ stamp \in Nat
  BY GovParts DEF AskStands, RequestsFit, RowFits
<1>2. q \in ReplyRecords /\ q.kind = answer /\ q.sel = sel
  BY <1>1 DEF ReplyRecords
<1>3. z \in AskRecords /\ z.op = "answered"
  <2>1. z = [op |-> "answered", prop |-> NoProposer, ver |-> 0, sel |-> {}, stamp |-> 0]
    BY DEF NoAskYet
  <2>2. 0 \in 0 .. MaxVersions /\ 0 \in 0 .. Latest
    BY GovernanceAssumption, FS_CardinalityType DEF Latest
  <2> HIDE DEF z
  <2> QED BY <2>1, <2>2 DEF AskRecords
<1>4. reply' = [reply EXCEPT ![k] = q] /\ asked' = [asked EXCEPT ![k] = z] /\ plans' = [plans EXCEPT ![k] = {}]
  BY DEF Receipt
<1> HIDE DEF q, z
<1>5. /\ DOMAIN asked' = Requests /\ DOMAIN proposal' = Requests /\ DOMAIN reply' = Requests
      /\ plans' \in [Requests -> SUBSET (0 .. Latest)]
      /\ \A j \in Requests : /\ asked'[j] = IF j = k THEN z ELSE asked[j]
                             /\ reply'[j] = IF j = k THEN q ELSE reply[j]
                             /\ plans'[j] = IF j = k THEN {} ELSE plans[j]
                             /\ proposal'[j] = IF j = p THEN r ELSE proposal[j]
  BY <1>1, <1>4 DEF RequestsFit
<1>6. k \notin Replied /\ Replied' = Replied \cup {k}
  BY <1>3, <1>5 DEF Replied, Pointed
<1>7. Cardinality(Replied') = Cardinality(Replied) + 1
  BY <1>6, AnsweredFinite, FS_AddElement
<1>8. stamp' <= MaxStamp + Cardinality(Replied')
  BY <1>1, <1>7, AnsweredFinite, GovernanceAssumption DEF RequestsFit
<1>9. ASSUME NEW j \in Requests PROVE AskStands(j)'
  <2>1. AskStands(j)
    BY <1>1 DEF RequestsFit
  <2>2. Unpurged(proposal[j].all \cup reply[j].sel)'
    <3> SUFFICES ASSUME NEW i \in proposal'[j].all \cup reply'[j].sel PROVE i \in DOMAIN log' /\ i > erased'[log'[i].col]
      BY DEF Unpurged
    <3>1. i \in DOMAIN log /\ i > erased[log[i].col]
      BY <1>2, <1>5, <2>1 DEF AskStands, Unpurged
    <3> QED BY <3>1 DEF Lasting
  <2>3. proposal'[j].sel \subseteq proposal'[j].all /\ (proposal'[j].state = "none" => proposal'[j].all = {})
        /\ (reply'[j].kind = "none" => reply'[j].sel = {})
    BY <1>2, <1>5, <2>1 DEF AskStands
  <2>4. proposal'[j].state # "none" => asked'[j].op = "answered"
    BY <1>3, <1>5, <2>1 DEF AskStands
  <2>5. CASE j = k
    <3>1. asked'[j].op = "answered" /\ plans'[j] = {}
      BY <1>3, <1>5, <2>5
    <3> QED BY <2>2, <2>3, <2>4, <3>1 DEF AskStands, Pointed
  <2>6. CASE j # k
    <3>1. asked'[j] = asked[j] /\ plans'[j] = plans[j]
      BY <1>5, <2>6
    <3>2. ASSUME NEW at \in plans[j]
          PROVE  Pointed(j) /\ at <= stamp' /\ \A s \in {asked[j].sel} : at = stamp' /\ asked[j].op # "reject" => Reversible(s)'
      <4>0. at \in Nat
        BY <1>1 DEF RequestsFit
      <4>1. CASE UNCHANGED <<rowVars, stamp>>
        <5>1. \A s : Reversible(s) => Reversible(s)'
          BY <4>1, SameRow DEF rowVars
        <5> QED BY <2>1, <4>1, <5>1 DEF AskStands
      <4>2. CASE stamp' = stamp + 1
        BY <1>1, <2>1, <4>0, <4>2 DEF AskStands
      <4> QED BY <4>1, <4>2
    <3> QED BY <2>1, <2>2, <2>3, <2>4, <3>1, <3>2 DEF AskStands, Pointed
  <2> QED BY <2>5, <2>6
<1>10. \A j \in Requests : asked'[j] \in AskRecords /\ proposal'[j] \in ProposalRecords /\ reply'[j] \in ReplyRecords
  BY <1>1, <1>2, <1>3, <1>5 DEF RequestsFit
<1> QED BY <1>5, <1>8, <1>9, <1>10 DEF RequestsFit

LEMMA ConcludeSteps ==
  ASSUME GovInv, NEW k \in Requests, Conclude(k)
  PROVE  GovInv'
<1>1. Receipt(k, "refused", {}) /\ UNCHANGED <<rowVars, stamp, proposal, done, erased>>
  BY DEF Conclude, rowVars
<1>2. /\ AskStands(k) /\ Pointed(k) /\ proposal[k] \in ProposalRecords /\ proposal[k].state = "none" /\ proposal[k].all = {}
      /\ proposal[k].sel \subseteq proposal[k].all
  BY RequestFields DEF Conclude, Pointed, AskRecords, AskStands
<1>3. RowFits' /\ Lasting
  BY <1>1, RowRests
<1>4. DOMAIN proposal' = Requests /\ \A j \in Requests : proposal'[j] = IF j = k THEN proposal[k] ELSE proposal[j]
  BY <1>1, GovParts DEF RequestsFit
<1>5. Unpurged({}) /\ Unpurged(proposal[k].all)
  BY <1>2 DEF Unpurged
<1>6. RequestsFit'
  <2>1. PICK r \in ProposalRecords : r = proposal[k]
    BY <1>2
  <2> QED BY <1>1, <1>2, <1>3, <1>4, <1>5, <2>1, AnswerFits
<1>7. VerdictsFit'
  BY <1>1, GovParts DEF VerdictsFit, DoneFits, rowVars
<1> QED BY <1>3, <1>6, <1>7, GovParts

\* What a batch finds: a proposal that is its own or was answered before, and a plan
\* that stands.
LEMMA BatchFinds ==
  ASSUME GovInv, NEW k \in Requests, NEW at \in plans[k], CommitAsk(k, at)
  PROVE  /\ Pointed(k) /\ asked[k] \in AskRecords /\ asked[k].prop \in Requests
         /\ proposal[asked[k].prop] \in ProposalRecords
         /\ asked[k].op = "create" => asked[k].prop = k /\ proposal[k].state = "none"
         /\ asked[k].op # "create" => /\ proposal[asked[k].prop].state = "pending" /\ proposal[asked[k].prop].ver = asked[k].ver
                                      /\ asked[asked[k].prop].op = "answered"
         /\ asked[k].op # "reject" => Reversible(asked[k].sel)
<1>1. AskStands(k) /\ asked[k] \in AskRecords
  BY RequestFields
<1>2. Pointed(k) /\ asked[k].prop \in Requests
  BY <1>1 DEF AskStands
<1>3. asked[k].op # "reject" => Reversible(asked[k].sel)
  BY <1>1 DEF AskStands, CommitAsk, Unmoved
<1>4. Stands(asked[k])
  BY DEF CommitAsk
<1>5. AskStands(asked[k].prop) /\ proposal[asked[k].prop] \in ProposalRecords
  BY <1>2, RequestFields
<1> QED BY <1>1, <1>2, <1>3, <1>4, <1>5 DEF AskStands, Stands, Pointed

\* The inverse of what can be undone is a row.
LEMMA InverseFits ==
  ASSUME GovInv, NEW sel, Reversible(sel)
  PROVE  InverseOf(sel) \in [Cols -> Values]
<1>1. \A c \in Cols : val[c] \in Values
  BY GovFields DEF GovInv
<1>2. \A c \in ColsOf(sel) : log[FirstPicked(c, sel)].before \in Values
  <2>1. \A c \in ColsOf(sel) : FirstPicked(c, sel) \in DOMAIN log
    BY ReversibleExact
  <2>2. \A i \in DOMAIN log : log[i].before \in Values
    BY DEF GovInv, GovTypeOK, Entries
  <2> QED BY <2>1, <2>2
<1> QED BY <1>1, <1>2 DEF InverseOf

LEMMA ApproveSteps ==
  ASSUME GovInv, NEW k \in Requests, NEW at \in plans[k], CommitAsk(k, at), asked[k].op = "approve"
  PROVE  GovInv'
<1>1. PICK p \in Requests : p = asked[k].prop
  BY BatchFinds
<1>2. PICK s : s = asked[k].sel
  OBVIOUS
<1> DEFINE x == [prop |-> p, ver |-> asked[k].ver, sel |-> s, at |-> Len(log)]
           r == [proposal[p] EXCEPT !.state = "approved"]
<1>3. /\ Receipt(k, "done", s) /\ Tracked(InverseOf(s)) /\ proposal' = [proposal EXCEPT ![p] = r] /\ done' = done \cup {x}
      /\ UNCHANGED erased
  BY <1>1, <1>2 DEF CommitAsk
<1>4. /\ Pointed(k) /\ proposal[p] \in ProposalRecords /\ proposal[p].state = "pending" /\ proposal[p].ver = asked[k].ver
      /\ asked[p].op = "answered" /\ Reversible(s) /\ AskStands(p)
  BY <1>1, <1>2, BatchFinds, RequestFields
<1>5. r \in ProposalRecords /\ r.state = "approved" /\ r.sel = proposal[p].sel /\ r.all = proposal[p].all /\ r.ver = proposal[p].ver
  BY <1>4 DEF ProposalRecords
<1>6. x.prop = p /\ x.ver = proposal[p].ver /\ x.sel = s /\ x.at = Len(log)
  BY <1>4
<1> HIDE DEF x, r
<1>7. /\ s \subseteq 1 .. Len(log) /\ Unpurged(s) /\ Len(log) \in Nat /\ Len(log) <= MaxLog /\ MaxLog \in Nat
      /\ \A i \in 1 .. Len(log) : (\E j \in s : log[j].col = log[i].col /\ j <= i) => i \in s
  BY <1>4, ReversibleExact, GovFields DEF GovInv
<1>8. PICK v \in [Cols -> Values] : v = InverseOf(s)
  BY <1>4, InverseFits
<1>9. /\ Grown /\ val' \in [Cols -> Values] /\ head' \in [Cols -> 0 .. MaxLog] /\ UNCHANGED guards
      /\ rowRev' = rowRev + 1 /\ stamp' = stamp + 1
      /\ \A c \in Cols :
           \/ head'[c] = head[c] /\ \A i \in Len(log) + 1 .. Len(log') : log'[i].col # c
           \/ head'[c] \in Len(log) + 1 .. Len(log') /\ log'[head'[c]].col = c
  <2>1. guards /\ Tracked(v)
    BY <1>3, <1>4, <1>8 DEF Reversible
  <2> QED BY <2>1, TrackedGrows
<1>10. RowFits' /\ Lasting
  BY <1>3, <1>9, RowMoves
<1>11. DOMAIN proposal' = Requests /\ \A j \in Requests : proposal'[j] = IF j = p THEN r ELSE proposal[j]
  BY <1>3, GovParts DEF RequestsFit
<1>12. RequestsFit'
  <2>1. s \in SUBSET (1 .. MaxLog)
    BY <1>7
  <2>2. r.sel \subseteq r.all /\ Unpurged(r.all)
    BY <1>4, <1>5 DEF AskStands, Unpurged
  <2> QED BY <1>3, <1>4, <1>5, <1>7, <1>9, <1>10, <1>11, <2>1, <2>2, AnswerFits
<1>13. /\ log' \in Seq(Entries) /\ Len(log') \in Nat /\ Len(log) <= Len(log') /\ \A i \in 1 .. Len(log) : log'[i] = log[i]
  <2>1. Len(log') \in Len(log) .. MaxLog /\ log' \in Seq(Entries) /\ \A i \in 1 .. Len(log) : log'[i] = log[i]
    BY <1>9 DEF Grown
  <2> QED BY <1>7, <2>1
<1>14. \A y \in done : DoneFits(y) /\ y.prop # p
  BY <1>4 DEF GovInv, DoneFits
<1>15. ASSUME NEW y \in done' PROVE DoneFits(y)'
  <2>1. CASE y = x
    <3>1. y.at \in 0 .. Len(log') /\ y.sel \subseteq 1 .. y.at /\ y.prop \in Requests
      <4>1. Len(log) \in 0 .. Len(log')
        BY <1>7, <1>13
      <4> QED BY <1>6, <1>7, <2>1, <4>1
    <3>2. \A i \in 1 .. y.at : (\E j \in y.sel : log'[j].col = log'[i].col /\ j <= i) => i \in y.sel
      BY <1>6, <1>7, <1>13, <2>1
    <3>3. proposal'[y.prop].state = "approved" /\ proposal'[y.prop].ver = y.ver
      BY <1>5, <1>6, <1>11, <2>1
    <3> QED BY <3>1, <3>2, <3>3 DEF DoneFits
  <2>2. CASE y \in done
    <3>1. DoneFits(y) /\ y.prop # p
      BY <1>14, <2>2
    <3>2. y.at \in 0 .. Len(log') /\ y.at \in Nat /\ y.at <= Len(log)
      BY <1>7, <1>13, <3>1 DEF DoneFits
    <3>3. \A i \in 1 .. y.at : i \in 1 .. Len(log)
      BY <1>7, <3>2
    <3>4. \A i \in 1 .. y.at : (\E j \in y.sel : log'[j].col = log'[i].col /\ j <= i) => i \in y.sel
      BY <1>13, <3>1, <3>3 DEF DoneFits
    <3>5. proposal'[y.prop] = proposal[y.prop]
      BY <1>11, <3>1 DEF DoneFits
    <3> QED BY <3>1, <3>2, <3>4, <3>5 DEF DoneFits
  <2> QED BY <1>3, <1>15, <2>1, <2>2
<1>16. \A y, z \in done' : y.prop = z.prop => y = z
  BY <1>3, <1>6, <1>14 DEF GovInv
<1>17. VerdictsFit'
  BY <1>15, <1>16 DEF VerdictsFit
<1> QED BY <1>10, <1>12, <1>17, GovParts

\* A rejection, a new proposal or a new version leaves the row alone.
LEMMA PaperSteps ==
  ASSUME GovInv, NEW k \in Requests, NEW at \in plans[k], CommitAsk(k, at), asked[k].op # "approve"
  PROVE  GovInv'
<1>1. PICK p \in Requests : p = asked[k].prop
  BY BatchFinds
<1>2. /\ Pointed(k) /\ asked[k] \in AskRecords /\ proposal[p] \in ProposalRecords /\ AskStands(p)
      /\ proposal[p].state \in {"none", "pending"}
      /\ p = k \/ asked[p].op = "answered"
  BY <1>1, BatchFinds, RequestFields
<1>3. UNCHANGED <<rowVars, stamp, done, erased>>
  BY <1>2 DEF CommitAsk, Pointed
<1>4. RowFits' /\ Lasting
  BY <1>3, RowRests
<1>5. /\ proposal[p].sel \subseteq proposal[p].all /\ Unpurged(proposal[p].all) /\ Unpurged(proposal[p].sel)
      /\ proposal[p].sel \in SUBSET (1 .. MaxLog) /\ proposal[p].all \in SUBSET (1 .. MaxLog)
  BY <1>2 DEF AskStands, Unpurged, ProposalRecords
<1>6. DOMAIN proposal = Requests
  BY GovParts DEF RequestsFit
<1>7. CASE asked[k].op = "reject"
  <2> DEFINE r == [proposal[p] EXCEPT !.state = "rejected"]
  <2>1. PICK sel \in SUBSET (1 .. MaxLog) : sel = proposal[p].sel
    BY <1>5
  <2>2. Receipt(k, "done", sel) /\ proposal' = [proposal EXCEPT ![p] = r]
    BY <1>1, <1>7, <2>1 DEF CommitAsk
  <2>3. r \in ProposalRecords /\ r.state = "rejected" /\ r.sel = proposal[p].sel /\ r.all = proposal[p].all
    BY <1>2 DEF ProposalRecords
  <2> HIDE DEF r
  <2>4. DOMAIN proposal' = Requests /\ \A j \in Requests : proposal'[j] = IF j = p THEN r ELSE proposal[j]
    BY <1>6, <2>2
  <2>5. RequestsFit'
    BY <1>2, <1>3, <1>4, <1>5, <2>1, <2>2, <2>3, <2>4, AnswerFits
  <2>6. VerdictsFit'
    <3>1. \A y \in done : DoneFits(y) /\ y.prop # p
      BY <1>2 DEF GovInv, DoneFits
    <3>2. \A y \in done : DoneFits(y)'
      BY <1>3, <2>4, <3>1 DEF DoneFits, rowVars
    <3> QED BY <1>3, <3>2 DEF VerdictsFit, GovInv
  <2> QED BY <1>4, <2>5, <2>6, GovParts
<1>8. CASE asked[k].op \in {"create", "edit"}
  <2>1. PICK sel : sel = asked[k].sel
    OBVIOUS
  <2>2. PICK r : r = [state |-> "pending", ver |-> proposal[p].ver + 1, sel |-> sel, base |-> rowRev, all |-> proposal[p].all \cup sel]
    OBVIOUS
  <2>3. Receipt(k, "done", sel) /\ proposal' = [proposal EXCEPT ![p] = r] /\ proposal[p].ver < MaxVersions
    BY <1>1, <1>8, <2>1, <2>2 DEF CommitAsk
  <2>4. Reversible(sel) /\ sel \in SUBSET (1 .. MaxLog)
    BY <1>2, <1>8, <2>1, BatchFinds DEF AskRecords
  <2>5. Unpurged(sel) /\ Unpurged(proposal[p].all \cup sel)
    BY <1>5, <2>4, ReversibleExact DEF Unpurged
  <2>6. r \in ProposalRecords /\ r.state = "pending" /\ r.sel = sel /\ r.all = proposal[p].all \cup sel
    <3>1. proposal[p].ver + 1 \in 0 .. MaxVersions
      BY <1>2, <2>3, GovernanceAssumption DEF ProposalRecords
    <3>2. rowRev \in 0 .. Latest
      BY RequestFields
    <3> QED BY <1>5, <2>2, <2>4, <3>1, <3>2 DEF ProposalRecords
  <2>7. DOMAIN proposal' = Requests /\ \A j \in Requests : proposal'[j] = IF j = p THEN r ELSE proposal[j]
    BY <1>6, <2>3
  <2>8. RequestsFit'
    <3>1. r.sel \subseteq r.all /\ Unpurged(r.all) /\ r.state # "none"
      BY <2>5, <2>6
    <3> QED BY <1>2, <1>3, <1>4, <2>3, <2>4, <2>5, <2>6, <2>7, <3>1, AnswerFits
  <2>9. VerdictsFit'
    <3>1. \A y \in done : DoneFits(y) /\ y.prop # p
      BY <1>2 DEF GovInv, DoneFits
    <3>2. \A y \in done : DoneFits(y)'
      BY <1>3, <2>7, <3>1 DEF DoneFits, rowVars
    <3> QED BY <1>3, <3>2 DEF VerdictsFit, GovInv
  <2> QED BY <1>4, <2>8, <2>9, GovParts
<1> QED BY <1>2, <1>7, <1>8 DEF Pointed

-----------------------------------------------------------------------------
(* Governance: the theorem *)

LEMMA GovStarts == GovInit => GovInv
<1> SUFFICES ASSUME GovInit PROVE GovInv
  OBVIOUS
<1>1. /\ MaxLog \in Nat /\ MaxStamp \in Nat /\ MaxVersions \in Nat /\ Cardinality(Requests) \in Nat
  BY GovernanceAssumption, FS_CardinalityType
<1>2. Latest \in Nat /\ 0 \in 0 .. Latest /\ 0 \in 0 .. MaxVersions /\ 0 \in 0 .. MaxLog
  BY <1>1 DEF Latest
<1>3. log \in Seq(Entries) /\ Len(log) = 0 /\ DOMAIN log = {}
  BY EmptySeq DEF GovInit
<1>4. Cardinality(Replied) \in Nat
  BY AnsweredFinite
<1>5. ASSUME NEW k \in Requests
      PROVE  asked[k] \in AskRecords /\ proposal[k] \in ProposalRecords /\ reply[k] \in ReplyRecords
  BY <1>2 DEF GovInit, NoAskYet, NoProposalYet, NoReply, AskRecords, ProposalRecords, ReplyRecords
<1>6. GovTypeOK
  BY <1>1, <1>2, <1>3, <1>5 DEF GovInit, GovTypeOK, AskRecords, ProposalRecords, ReplyRecords
<1>7. \A c \in Cols : HeadFits(c)
  BY DEF GovInit, HeadFits
<1>8. \A k \in Requests : AskStands(k)
  BY DEF GovInit, AskStands, NoAskYet, NoProposalYet, NoReply, Pointed, Unpurged
<1>9. erased \in [Cols -> 0 .. Len(log)]
  BY <1>3 DEF GovInit
<1> QED BY <1>1, <1>3, <1>4, <1>6, <1>7, <1>8, <1>9 DEF GovInv, GovInit

LEMMA GovSteps == GovInv /\ [GovNext]_govVars => GovInv'
<1> SUFFICES ASSUME GovInv, [GovNext]_govVars PROVE GovInv'
  OBVIOUS
<1>0. val \in [Cols -> Values]
  BY DEF GovInv, GovTypeOK
<1>1. ASSUME NEW v \in {[val EXCEPT ![c] = x] : c \in Cols, x \in Values}, CheckedWrite(v) \/ ExplainedPush(v) \/ OtherWrite(v)
      PROVE  GovInv'
  <2>1. v \in [Cols -> Values]
    BY <1>0
  <2> QED BY <1>1, <2>1, WriteSteps
<1>2. CASE LoseGuards \/ EnsureGuards
  BY <1>2, GuardSteps
<1>3. ASSUME NEW i \in DOMAIN log, EditHistory(i) PROVE GovInv'
  BY <1>3, HistorySteps
<1>4. ASSUME NEW k \in Requests, NEW sel \in SUBSET DOMAIN log, AskPropose(k, sel) PROVE GovInv'
  <2>1. sel \in SUBSET (1 .. MaxLog) /\ 0 \in 0 .. MaxVersions
    BY RequestFields, GovernanceAssumption
  <2>2. Asks(k, "create", k, 0, sel)
    BY <1>4 DEF AskPropose
  <2> QED BY <2>1, <2>2, AskSteps
<1>5. ASSUME NEW k \in Requests, NEW p \in Requests, NEW sel \in SUBSET DOMAIN log, AskEdit(k, p, sel) PROVE GovInv'
  <2>1. sel \in SUBSET (1 .. MaxLog) /\ proposal[p].ver \in 0 .. MaxVersions
    BY RequestFields DEF ProposalRecords
  <2>2. PICK ver \in 0 .. MaxVersions : ver = proposal[p].ver
    BY <2>1
  <2>3. Asks(k, "edit", p, ver, sel)
    BY <1>5, <2>2 DEF AskEdit
  <2> QED BY <2>1, <2>3, AskSteps
<1>6. ASSUME NEW k \in Requests, NEW p \in Requests, AskApproval(k, p) \/ AskRejection(k, p) PROVE GovInv'
  <2>1. proposal[p].ver \in 0 .. MaxVersions /\ proposal[p].sel \in SUBSET (1 .. MaxLog) /\ {} \in SUBSET (1 .. MaxLog)
    BY RequestFields DEF ProposalRecords
  <2>2. PICK ver \in 0 .. MaxVersions, sel \in SUBSET (1 .. MaxLog) : ver = proposal[p].ver /\ sel = proposal[p].sel
    BY <2>1
  <2>3. Asks(k, "approve", p, ver, sel) \/ Asks(k, "reject", p, ver, {})
    BY <1>6, <2>2 DEF AskApproval, AskRejection
  <2> QED BY <2>1, <2>3, AskSteps
<1>7. ASSUME NEW k \in Requests, Serve(k) \/ Conclude(k) PROVE GovInv'
  BY <1>7, ServeSteps, ConcludeSteps
<1>8. ASSUME NEW k \in Requests, NEW at \in plans[k], CommitAsk(k, at) PROVE GovInv'
  BY <1>8, ApproveSteps, PaperSteps
<1>9. ASSUME NEW c \in Cols, PurgeHistory(c) PROVE GovInv'
  BY <1>9, PurgeSteps
<1>10. CASE UNCHANGED govVars
  <2>1. UNCHANGED <<rowVars, val, rowRev, log, head, guards, stamp, asked, plans, proposal, reply, done, erased>>
    BY <1>10 DEF govVars, rowVars
  <2>2. RowFits'
    BY <2>1, RowRests
  <2>3. RequestsFit'
    <3>1. Replied' = Replied
      BY <2>1 DEF Replied
    <3>2. \A s : Reversible(s) => Reversible(s)'
      BY <2>1, SameRow
    <3>3. \A k \in Requests : AskStands(k)'
      BY <2>1, <3>2, GovParts DEF RequestsFit, AskStands, Pointed, Unpurged
    <3> QED BY <2>1, <3>1, <3>3, GovParts DEF RequestsFit
  <2>4. VerdictsFit'
    BY <2>1, GovParts DEF VerdictsFit, DoneFits
  <2> QED BY <2>2, <2>3, <2>4, GovParts
<1> QED BY <1>1, <1>2, <1>3, <1>4, <1>5, <1>6, <1>7, <1>8, <1>9, <1>10 DEF GovNext

\* Whoever writes to the row or its history, an approved inverse undid exactly what
\* was selected, over nothing that was not, a proposal has one verdict, and a purged
\* change is in no proposal and no receipt.
THEOREM GovernanceIsSound == GovSpec => []GovernanceSound
<1>1. GovInv => GovernanceSound
  <2> SUFFICES ASSUME GovInv PROVE GovernanceSound
    OBVIOUS
  <2>1. Len(log) \in Nat /\ DOMAIN log = 1 .. Len(log) /\ Len(log) <= MaxLog /\ MaxLog \in Nat
    BY GovFields DEF GovInv
  <2>2. InverseExact
    <3> SUFFICES ASSUME NEW x \in done, NEW i \in 1 .. MaxLog, i <= x.at, \E j \in x.sel : log[j].col = log[i].col /\ j <= i
                 PROVE  i \in x.sel
      BY DEF InverseExact
    <3>1. DoneFits(x)
      BY DEF GovInv
    <3>2. i \in 1 .. x.at
      BY <2>1, <3>1 DEF DoneFits
    <3> QED BY <3>1, <3>2 DEF DoneFits
  <2>3. OneVerdict
    BY DEF GovInv, DoneFits, OneVerdict
  <2>4. HistoryErased
    BY DEF GovInv, AskStands, Unpurged, HistoryErased
  <2> QED BY <2>2, <2>3, <2>4 DEF GovInv, GovernanceSound
<1> QED BY GovStarts, GovSteps, <1>1, PTL DEF GovSpec

-----------------------------------------------------------------------------
(* Numbers *)

\* A set of numbers that is not empty has a least one: of the intervals that end in
\* them, one contains no other.
LEMMA LeastNatural ==
  ASSUME NEW T \in SUBSET Nat, T # {}
  PROVE  \E m \in T : \A k \in T : m <= k
<1> DEFINE F == {0 .. m : m \in T}
<1>1. F \subseteq FiniteSubsetsOf(Nat)
  <2> SUFFICES ASSUME NEW m \in T PROVE 0 .. m \in FiniteSubsetsOf(Nat)
    OBVIOUS
  <2>1. IsFiniteSet(0 .. m)
    BY FS_Interval
  <2> QED BY <2>1 DEF FiniteSubsetsOf
<1>2. F # {}
  OBVIOUS
<1>3. IsWellFoundedOn(StrictSubsetOrdering(Nat), FiniteSubsetsOf(Nat))
  BY FS_StrictSubsetOrderingWellFounded
<1>4. PICK x \in F : \A y \in F : ~ (<<y, x>> \in StrictSubsetOrdering(Nat))
  <2> HIDE DEF F
  <2> QED BY <1>1, <1>2, <1>3, WFMin
<1>5. PICK m \in T : x = 0 .. m
  OBVIOUS
<1>6. ASSUME NEW k \in T, k < m PROVE FALSE
  <2>1. 0 .. k \in F /\ 0 .. k \subseteq 0 .. m /\ 0 .. k # 0 .. m
    BY <1>6
  <2>2. <<0 .. k, 0 .. m>> \in StrictSubsetOrdering(Nat)
    BY <2>1 DEF StrictSubsetOrdering
  <2> QED BY <1>4, <1>5, <2>1, <2>2
<1> QED BY <1>6

-----------------------------------------------------------------------------
(* The usage meter *)

MeterRecord ==
  [pc : {"idle", "read", "decide", "work", "answered", "flush", "seen", "notify"}, iso : Isolates,
   period : 0 .. MaxPeriod, rows : 0 .. MaxRows, after : 0 .. MaxTotal, refused : BOOLEAN,
   owed : SUBSET Marks]
MemoRecord == [period : 0 .. MaxPeriod, total : 0 .. MaxTotal, fresh : BOOLEAN]

\* What a request knows of its period is no more than the period has.
MeterFits(q) ==
  /\ q.pc \in {"read", "decide", "flush", "seen", "notify"} => q.period \in Periods
  /\ q.pc # "notify" => q.owed = {}
  /\ q.pc = "notify" => q.owed # {}
  /\ q.pc = "decide" => q.after <= total[q.period]
  /\ q.pc = "seen" => q.after <= total[q.period] /\ q.rows <= q.after
  /\ q.pc # "seen" => \A m \in q.owed : q.period \in Periods /\ m <= total[q.period]
  /\ q.refused => q.period \in Periods /\ Cap <= total[q.period]

\* Neither is what an isolate remembers.
MemoFits(i) ==
  memo[i].period # 0 => memo[i].total <= total[memo[i].period]

UsageInv ==
  /\ UsageTypeOK /\ Alerted
  /\ \A r \in Metered : MeterFits(meter[r])
  /\ \A i \in Isolates : MemoFits(i)

\* A request that has not come.
LEMMA NoRequestType ==
  /\ NoRequest \in MeterRecord /\ NoRequest.owed = {} /\ NoRequest.pc = "idle"
  /\ ~NoRequest.refused
<1>1. (CHOOSE i \in Isolates : TRUE) \in Isolates
  BY UsageAssumption
<1> QED BY <1>1, UsageAssumption DEF NoRequest, MeterRecord

\* A step that adds no rows and writes no notification, after which one request
\* owes what it owed, and knows no more than there is.
LEMMA MeterKeeps ==
  ASSUME UsageInv, NEW r \in Metered, NEW q \in MeterRecord,
         meter' = [meter EXCEPT ![r] = q], MeterFits(q), Owed(q) = Owed(meter[r]),
         total' = total, feed' = feed, missed' = missed,
         clock' = clock, memo' \in [Isolates -> MemoRecord], \A i \in Isolates : MemoFits(i)'
  PROVE  UsageInv'
<1>1. /\ meter \in [Metered -> MeterRecord]
      /\ meter' \in [Metered -> MeterRecord]
      /\ meter'[r] = q /\ \A s \in Metered : s # r => meter'[s] = meter[s]
  BY DEF UsageInv, UsageTypeOK, MeterRecord
<1>2. UsageTypeOK'
  BY <1>1 DEF UsageInv, UsageTypeOK, MeterRecord, MemoRecord
<1>3. \A s \in Metered : Owed(meter'[s]) = Owed(meter[s])
  BY <1>1
<1>4. Alerted'
  BY <1>3 DEF UsageInv, Alerted
<1>5. ASSUME NEW s \in Metered PROVE MeterFits(meter[s])'
  BY <1>1 DEF UsageInv, MeterFits
<1> QED BY <1>2, <1>4, <1>5 DEF UsageInv

\* A step that only moves a request on.
LEMMA MeterMoves ==
  ASSUME UsageInv, NEW r \in Metered, NEW q \in MeterRecord,
         meter' = [meter EXCEPT ![r] = q], MeterFits(q), Owed(q) = Owed(meter[r]),
         UNCHANGED <<clock, total, memo, feed, missed>>
  PROVE  UsageInv'
<1>1. memo' \in [Isolates -> MemoRecord] /\ \A i \in Isolates : MemoFits(i)'
  BY DEF UsageInv, UsageTypeOK, MemoRecord, MemoFits
<1> QED BY <1>1, MeterKeeps

\* What is known of a request.
LEMMA MeterOf ==
  ASSUME UsageInv, NEW r \in Metered
  PROVE  /\ meter[r] \in MeterRecord /\ MeterFits(meter[r])
         /\ clock \in Periods /\ clock \in 1 .. MaxPeriod /\ total \in [Periods -> 0 .. MaxTotal]
         /\ memo \in [Isolates -> MemoRecord] /\ meter \in [Metered -> MeterRecord]
BY DEF UsageInv, UsageTypeOK, MeterRecord, MemoRecord, Periods

\* A request that owes nothing.
LEMMA OwesNothing ==
  ASSUME NEW q, q.pc # "seen", q.owed = {}
  PROVE  Owed(q) = {}
BY DEF Owed

\* What a request that has not come is made of.
LEMMA NoRequestFields ==
  \E i : NoRequest = [pc |-> "idle", iso |-> i, period |-> 0, rows |-> 0,
                      after |-> 0, refused |-> FALSE, owed |-> {}]
BY DEF NoRequest

\* An uncapped request just begins.
LEMMA ArriveUncappedKeeps ==
  ASSUME UsageInv, NEW r \in Metered, NEW i \in Isolates, ArriveUncapped(r, i)
  PROVE  UsageInv'
<1> DEFINE q == [NoRequest EXCEPT !.pc = "work", !.iso = i]
<1>1. /\ meter[r].pc = "idle" /\ meter' = [meter EXCEPT ![r] = q]
      /\ UNCHANGED <<clock, total, memo, feed, missed>>
  BY DEF ArriveUncapped
<1>z. ASSUME NEW z, z = q
      PROVE  z = [pc |-> "work", iso |-> i, period |-> 0, rows |-> 0, after |-> 0, refused |-> FALSE, owed |-> {}]
  <2>1. PICK i0 : NoRequest = [pc |-> "idle", iso |-> i0, period |-> 0, rows |-> 0,
                                   after |-> 0, refused |-> FALSE, owed |-> {}]
    BY NoRequestFields
  <2> QED BY <1>z, <2>1
<1> HIDE DEF q
<1>2. q = [pc |-> "work", iso |-> i, period |-> 0, rows |-> 0, after |-> 0, refused |-> FALSE, owed |-> {}]
  BY <1>z
<1>3. q \in MeterRecord /\ MeterFits(q)
  BY <1>2, UsageAssumption DEF MeterRecord, MeterFits
<1>4. Owed(q) = Owed(meter[r])
  BY <1>1, <1>2, MeterOf, OwesNothing DEF MeterFits
<1> QED BY <1>1, <1>3, <1>4, MeterMoves

\* A remembered total is of the current period and no more than it has now.
LEMMA ArriveCappedKeeps ==
  ASSUME UsageInv, NEW r \in Metered, NEW i \in Isolates, ArriveCapped(r, i)
  PROVE  UsageInv'
<1>1. meter[r].pc = "idle" /\ UNCHANGED <<clock, total, memo, feed, missed>>
  BY DEF ArriveCapped
<1>2. memo[i] \in MemoRecord /\ MemoFits(i) /\ clock \in 1 .. MaxPeriod /\ clock \in Periods
      /\ total \in [Periods -> 0 .. MaxTotal]
  BY MeterOf DEF UsageInv
<1>3. Owed(meter[r]) = {}
  BY <1>1, MeterOf, OwesNothing DEF MeterFits
<1>4. CASE Remembered(i)
  <2> DEFINE refused == Over(memo[i].total)
             p == IF Over(memo[i].total) THEN clock ELSE 0
             q == [NoRequest EXCEPT !.pc = "work", !.iso = i, !.refused = refused, !.period = p]
  <2>1. meter' = [meter EXCEPT ![r] = q]
    BY <1>4 DEF ArriveCapped
  <2>z. ASSUME NEW z, z = q
        PROVE  z = [pc |-> "work", iso |-> i, period |-> p, rows |-> 0, after |-> 0, refused |-> refused, owed |-> {}]
    <3>1. PICK i0 : NoRequest = [pc |-> "idle", iso |-> i0, period |-> 0, rows |-> 0,
                                     after |-> 0, refused |-> FALSE, owed |-> {}]
      BY NoRequestFields
    <3> QED BY <2>z, <3>1
  <2>3. refused \in BOOLEAN /\ p \in 0 .. MaxPeriod
    BY <1>2, UsageAssumption DEF Over
  <2>4. refused => p \in Periods /\ Cap <= total[p]
    <3>1. memo[i].total <= total[clock]
      BY <1>2, <1>4, UsageAssumption DEF Remembered, MemoFits
    <3> QED BY <1>2, <3>1, UsageAssumption DEF Over, MemoRecord
  <2> HIDE DEF q, refused, p
  <2>2. q = [pc |-> "work", iso |-> i, period |-> p, rows |-> 0, after |-> 0, refused |-> refused, owed |-> {}]
    BY <2>z
  <2>5. q \in MeterRecord /\ MeterFits(q)
    BY <2>2, <2>3, <2>4, UsageAssumption DEF MeterRecord, MeterFits
  <2>6. Owed(q) = {}
    BY <2>2, OwesNothing
  <2> QED BY <1>1, <1>3, <2>1, <2>5, <2>6, MeterMoves
<1>5. CASE ~Remembered(i)
  <2> DEFINE q == [NoRequest EXCEPT !.pc = "read", !.iso = i, !.period = clock]
  <2>1. meter' = [meter EXCEPT ![r] = q]
    BY <1>5 DEF ArriveCapped
  <2>z. ASSUME NEW z, z = q
        PROVE  z = [pc |-> "read", iso |-> i, period |-> clock, rows |-> 0, after |-> 0, refused |-> FALSE, owed |-> {}]
    <3>1. PICK i0 : NoRequest = [pc |-> "idle", iso |-> i0, period |-> 0, rows |-> 0,
                                     after |-> 0, refused |-> FALSE, owed |-> {}]
      BY NoRequestFields
    <3> QED BY <2>z, <3>1
  <2> HIDE DEF q
  <2>2. q = [pc |-> "read", iso |-> i, period |-> clock, rows |-> 0, after |-> 0, refused |-> FALSE, owed |-> {}]
    BY <2>z
  <2>3. q \in MeterRecord /\ MeterFits(q)
    BY <1>2, <2>2, UsageAssumption DEF MeterRecord, MeterFits
  <2>4. Owed(q) = {}
    BY <2>2, OwesNothing
  <2> QED BY <1>1, <1>3, <2>1, <2>3, <2>4, MeterMoves
<1> QED BY <1>4, <1>5

\* The fields of a record that a step changes in two.
LEMMA ReadFields ==
  ASSUME NEW x \in MeterRecord, NEW pc, NEW after, NEW z, z = [x EXCEPT !.pc = pc, !.after = after]
  PROVE  z = [pc |-> pc, iso |-> x.iso, period |-> x.period, rows |-> x.rows, after |-> after,
              refused |-> x.refused, owed |-> x.owed]
BY DEF MeterRecord

\* The total that is read is the period's.
LEMMA ReadTotalsKeeps ==
  ASSUME UsageInv, NEW r \in Metered, ReadTotals(r)
  PROVE  UsageInv'
<1> DEFINE x == meter[r]
           q == [x EXCEPT !.pc = "decide", !.after = total[x.period]]
<1>1. /\ x.pc = "read" /\ UNCHANGED <<clock, total, memo, feed, missed>>
      /\ meter' = [meter EXCEPT ![r].pc = "decide", ![r].after = total[meter[r].period]]
  BY DEF ReadTotals
<1>2. x \in MeterRecord /\ MeterFits(x) /\ total \in [Periods -> 0 .. MaxTotal]
      /\ meter \in [Metered -> MeterRecord]
  BY MeterOf
<1>3. meter' = [meter EXCEPT ![r] = q]
  BY <1>1, <1>2
<1>4. q = [pc |-> "decide", iso |-> x.iso, period |-> x.period, rows |-> x.rows,
           after |-> total[x.period], refused |-> x.refused, owed |-> x.owed]
  BY <1>2, ReadFields
<1>5. x.period \in Periods /\ total[x.period] \in 0 .. MaxTotal /\ x.owed = {}
  BY <1>1, <1>2 DEF MeterFits
<1> HIDE DEF q
<1>6. q \in MeterRecord /\ MeterFits(q)
  BY <1>2, <1>4, <1>5 DEF MeterRecord, MeterFits
<1>7. Owed(q) = {} /\ Owed(x) = {}
  BY <1>1, <1>4, <1>5, OwesNothing
<1> QED BY <1>1, <1>3, <1>6, <1>7, MeterMoves

\* What was read is remembered, and decides.
LEMMA DecideKeeps ==
  ASSUME UsageInv, NEW r \in Metered, Decide(r)
  PROVE  UsageInv'
<1> DEFINE x == meter[r]
           refused == Over(x.after)
           p == IF Over(x.after) THEN x.period ELSE 0
           q == [NoRequest EXCEPT !.pc = "work", !.iso = x.iso, !.refused = refused, !.period = p]
           new == [period |-> x.period, total |-> x.after, fresh |-> TRUE]
<1>1. /\ x.pc = "decide" /\ UNCHANGED <<clock, total, feed, missed>>
      /\ memo' = [memo EXCEPT ![x.iso] = new]
      /\ meter' = [meter EXCEPT ![r] = q]
  BY DEF Decide
<1>2. /\ x \in MeterRecord /\ MeterFits(x) /\ total \in [Periods -> 0 .. MaxTotal]
      /\ memo \in [Isolates -> MemoRecord]
  BY MeterOf
<1>3. x.period \in Periods /\ x.after <= total[x.period] /\ x.owed = {}
  BY <1>1, <1>2 DEF MeterFits
<1>z. ASSUME NEW z, z = q
      PROVE  z = [pc |-> "work", iso |-> x.iso, period |-> p, rows |-> 0, after |-> 0, refused |-> refused, owed |-> {}]
  <2>1. PICK i0 : NoRequest = [pc |-> "idle", iso |-> i0, period |-> 0, rows |-> 0,
                                   after |-> 0, refused |-> FALSE, owed |-> {}]
    BY NoRequestFields
  <2> QED BY <1>z, <2>1
<1>5. new \in MemoRecord
  BY <1>2 DEF MeterRecord, MemoRecord
<1>6. memo' \in [Isolates -> MemoRecord]
  BY <1>1, <1>2, <1>5 DEF MeterRecord
<1>7. ASSUME NEW i \in Isolates PROVE MemoFits(i)'
  <2>1. CASE i = x.iso
    BY <1>1, <1>2, <1>3, <2>1 DEF MemoFits
  <2>2. CASE i # x.iso
    BY <1>1, <1>2, <2>2 DEF UsageInv, MemoFits
  <2> QED BY <2>1, <2>2
<1>8. refused => p \in Periods /\ Cap <= total[p]
  BY <1>2, <1>3, UsageAssumption DEF Over, MeterRecord
<1>9. refused \in BOOLEAN /\ p \in 0 .. MaxPeriod
  BY <1>2, UsageAssumption DEF Over, MeterRecord
<1> HIDE DEF q, refused, p
<1>4. q = [pc |-> "work", iso |-> x.iso, period |-> p, rows |-> 0, after |-> 0, refused |-> refused, owed |-> {}]
  BY <1>z
<1>10. q \in MeterRecord /\ MeterFits(q)
  BY <1>2, <1>4, <1>8, <1>9, UsageAssumption DEF MeterRecord, MeterFits
<1>11. Owed(q) = {} /\ Owed(x) = {}
  BY <1>1, <1>3, <1>4, OwesNothing
<1> QED BY <1>1, <1>6, <1>7, <1>10, <1>11, MeterKeeps

\* A preview decides from the totals themselves.
LEMMA PreviewKeeps ==
  ASSUME UsageInv, NEW r \in Metered, Preview(r)
  PROVE  UsageInv'
<1> DEFINE refused == Over(total[clock])
           q == [NoRequest EXCEPT !.pc = "answered", !.period = clock, !.refused = refused]
<1>1. /\ meter[r].pc = "idle" /\ UNCHANGED <<clock, total, memo, feed, missed>>
      /\ meter' = [meter EXCEPT ![r] = q]
  BY DEF Preview
<1>2. /\ clock \in Periods /\ clock \in 0 .. MaxPeriod /\ total[clock] \in 0 .. MaxTotal
  BY MeterOf
<1>z. ASSUME NEW z, z = q
      PROVE  z = [pc |-> "answered", iso |-> NoRequest.iso, period |-> clock, rows |-> 0, after |-> 0,
           refused |-> refused, owed |-> {}]
  <2>1. PICK i0 : NoRequest = [pc |-> "idle", iso |-> i0, period |-> 0, rows |-> 0,
                                   after |-> 0, refused |-> FALSE, owed |-> {}]
    BY NoRequestFields
  <2> QED BY <1>z, <2>1
<1>4. refused \in BOOLEAN /\ (refused => Cap <= total[clock]) /\ NoRequest.iso \in Isolates
  BY <1>2, UsageAssumption, NoRequestType DEF Over, MeterRecord
<1> HIDE DEF q, refused
<1>3. q = [pc |-> "answered", iso |-> NoRequest.iso, period |-> clock, rows |-> 0, after |-> 0,
           refused |-> refused, owed |-> {}]
  BY <1>z
<1>5. q \in MeterRecord /\ MeterFits(q)
  BY <1>2, <1>3, <1>4, UsageAssumption DEF MeterRecord, MeterFits
<1>6. Owed(q) = {} /\ Owed(meter[r]) = {}
  BY <1>1, <1>3, MeterOf, OwesNothing DEF MeterFits
<1> QED BY <1>1, <1>5, <1>6, MeterMoves

\* What a request used goes to the period it ends in.
LEMMA SettleMeterKeeps ==
  ASSUME UsageInv, NEW r \in Metered, SettleMeter(r)
  PROVE  UsageInv'
<1> DEFINE x == meter[r]
<1>1. /\ x.pc = "work" /\ UNCHANGED <<clock, total, memo, feed, missed>>
  BY DEF SettleMeter
<1>2. PICK n \in Used :
        meter' = [meter EXCEPT ![r].pc = "flush", ![r].rows = n, ![r].period = clock, ![r].refused = FALSE]
  BY DEF SettleMeter
<1> DEFINE q == [x EXCEPT !.pc = "flush", !.rows = n, !.period = clock, !.refused = FALSE]
<1>3. x \in MeterRecord /\ MeterFits(x) /\ clock \in Periods /\ clock \in 0 .. MaxPeriod
      /\ meter \in [Metered -> MeterRecord]
  BY MeterOf
<1>4. meter' = [meter EXCEPT ![r] = q]
  BY <1>2, <1>3
<1>z. ASSUME NEW z, z = q
      PROVE  z = [pc |-> "flush", iso |-> x.iso, period |-> clock, rows |-> n, after |-> x.after,
                  refused |-> FALSE, owed |-> x.owed]
  BY <1>3, <1>z DEF MeterRecord
<1> HIDE DEF q
<1>5. q = [pc |-> "flush", iso |-> x.iso, period |-> clock, rows |-> n, after |-> x.after,
           refused |-> FALSE, owed |-> x.owed]
  BY <1>z
<1>6. q \in MeterRecord /\ MeterFits(q)
  BY <1>1, <1>3, <1>5 DEF MeterRecord, MeterFits, Used
<1>7. Owed(q) = {} /\ Owed(x) = {}
  BY <1>1, <1>3, <1>5, OwesNothing DEF MeterFits
<1> QED BY <1>1, <1>4, <1>6, <1>7, MeterMoves

\* More rows only make more of what is known true.
LEMMA MeterGrows ==
  ASSUME UsageInv, NEW r \in Metered, total' \in [Periods -> 0 .. MaxTotal],
         \A p \in Periods : total[p] <= total'[p]
  PROVE  MeterFits(meter[r])' \/ meter'[r] # meter[r]
<1> SUFFICES ASSUME meter'[r] = meter[r] PROVE MeterFits(meter[r])'
  OBVIOUS
<1> DEFINE q == meter[r]
<1>1. /\ q \in MeterRecord /\ MeterFits(q) /\ total \in [Periods -> 0 .. MaxTotal]
  BY MeterOf
<1>2. \A p \in Periods : total[p] \in Nat /\ total'[p] \in Nat
  BY <1>1, UsageAssumption
<1>3. q.after \in Nat
  BY <1>1, UsageAssumption DEF MeterRecord
<1>4. \A m \in q.owed : m \in Nat
  BY <1>1, UsageAssumption DEF MeterRecord
<1> QED BY <1>1, <1>2, <1>3, <1>4, UsageAssumption DEF MeterFits

\* The flush that takes the total across a mark is the one that owes its notification.
LEMMA FlushBatchKeeps ==
  ASSUME UsageInv, NEW r \in Metered, FlushBatch(r)
  PROVE  UsageInv'
<1> DEFINE x == meter[r]
           p0 == x.period
           t == total[p0] + x.rows
           q == [x EXCEPT !.pc = "seen", !.after = t]
<1>1. /\ x.pc = "flush" /\ t <= MaxTotal /\ total' = [total EXCEPT ![p0] = t]
      /\ meter' = [meter EXCEPT ![r].pc = "seen", ![r].after = t]
      /\ UNCHANGED <<clock, memo, feed, missed>>
  BY DEF FlushBatch
<1>2. /\ x \in MeterRecord /\ MeterFits(x) /\ total \in [Periods -> 0 .. MaxTotal]
      /\ meter \in [Metered -> MeterRecord]
  BY MeterOf
<1>3. p0 \in Periods /\ x.owed = {} /\ x.rows \in Nat /\ total[p0] \in Nat /\ t \in 0 .. MaxTotal
  BY <1>1, <1>2, UsageAssumption DEF MeterFits, MeterRecord
<1>4. meter' = [meter EXCEPT ![r] = q]
  BY <1>1, <1>2
<1>5. q = [pc |-> "seen", iso |-> x.iso, period |-> p0, rows |-> x.rows, after |-> t,
           refused |-> x.refused, owed |-> x.owed]
  BY <1>2, ReadFields
<1> HIDE DEF q
<1>6. /\ total' \in [Periods -> 0 .. MaxTotal] /\ total'[p0] = t
      /\ \A p \in Periods \ {p0} : total'[p] = total[p]
      /\ \A p \in Periods : total[p] \in Nat /\ total[p] <= total'[p]
  BY <1>1, <1>2, <1>3, UsageAssumption
<1>7. /\ q \in MeterRecord /\ meter' \in [Metered -> MeterRecord] /\ meter'[r] = q
      /\ \A s \in Metered \ {r} : meter'[s] = meter[s]
  BY <1>2, <1>3, <1>4, <1>5 DEF MeterRecord
<1>8. UsageTypeOK'
  BY <1>1, <1>6, <1>7 DEF UsageInv, UsageTypeOK, MeterRecord
<1>9. ASSUME NEW s \in Metered PROVE MeterFits(meter[s])'
  <2>1. CASE s = r
    <3>1. x.refused => Cap <= total[p0]
      BY <1>2 DEF MeterFits
    <3> QED BY <1>3, <1>5, <1>6, <1>7, <2>1, <3>1, UsageAssumption DEF MeterFits
  <2>2. CASE s # r
    BY <1>6, <1>7, <2>2, MeterGrows
  <2> QED BY <2>1, <2>2
<1>10. ASSUME NEW i \in Isolates PROVE MemoFits(i)'
  <2>1. memo[i] \in MemoRecord /\ MemoFits(i)
    BY MeterOf DEF UsageInv
  <2>2. memo[i].period # 0 => memo[i].period \in Periods
    BY <2>1, UsageAssumption DEF MemoRecord, Periods
  <2> QED BY <1>1, <1>6, <2>1, <2>2, UsageAssumption DEF MemoFits, MemoRecord
<1>11. Owed(x) = {}
  BY <1>1, <1>3, OwesNothing
<1>12. Owed(q) = {Alert(p0, m) : m \in {m \in Marks : total[p0] < m /\ t >= m}}
  <2>1. t - x.rows = total[p0]
    BY <1>3
  <2> QED BY <1>5, <2>1 DEF Owed, Crossings
<1>13. Alerted'
  <2> SUFFICES ASSUME NEW p \in Periods, NEW m \in Marks
               PROVE  total'[p] >= m <=> \/ Alert(p, m) \in feed' \cup missed'
                                         \/ \E s \in Metered : Alert(p, m) \in Owed(meter'[s])
    BY DEF Alerted, Owed
  <2>1. m \in Nat
    BY UsageAssumption
  <2>2. total[p] >= m <=> \/ Alert(p, m) \in feed \cup missed
                          \/ \E s \in Metered : Alert(p, m) \in Owed(meter[s])
    BY DEF UsageInv, Alerted
  <2>3. (\E s \in Metered : Alert(p, m) \in Owed(meter'[s]))
          <=> (\E s \in Metered : Alert(p, m) \in Owed(meter[s])) \/ Alert(p, m) \in Owed(q)
    BY <1>7, <1>11
  <2>4. Alert(p, m) \in Owed(q) <=> p = p0 /\ total[p0] < m /\ t >= m
    BY <1>12 DEF Alert
  <2>5. total'[p] >= m <=> total[p] >= m \/ (p = p0 /\ total[p0] < m /\ t >= m)
    <3>1. CASE p = p0
      BY <1>3, <1>6, <2>1, <3>1
    <3>2. CASE p # p0
      BY <1>6, <2>1, <3>2
    <3> QED BY <3>1, <3>2
  <2> QED BY <1>1, <2>2, <2>3, <2>4, <2>5
<1> QED BY <1>8, <1>9, <1>10, <1>13 DEF UsageInv

\* It remembers the total, and goes on to notify what it owes.
LEMMA FlushSeenKeeps ==
  ASSUME UsageInv, NEW r \in Metered, FlushSeen(r)
  PROVE  UsageInv'
<1> DEFINE x == meter[r]
           owed == Crossings(x.after - x.rows, x.after)
           q == IF owed = {} THEN NoRequest ELSE [NoRequest EXCEPT !.pc = "notify", !.period = x.period, !.owed = owed]
           new == [period |-> x.period, total |-> x.after, fresh |-> TRUE]
<1>1. /\ x.pc = "seen" /\ UNCHANGED <<clock, total, feed, missed>>
      /\ memo' = [memo EXCEPT ![x.iso] = new]
      /\ meter' = [meter EXCEPT ![r] = q]
  BY DEF FlushSeen
<1>2. /\ x \in MeterRecord /\ MeterFits(x) /\ total \in [Periods -> 0 .. MaxTotal]
      /\ memo \in [Isolates -> MemoRecord]
  BY MeterOf
<1>3. x.period \in Periods /\ x.after <= total[x.period] /\ x.rows <= x.after
  BY <1>1, <1>2 DEF MeterFits
<1>4. memo' \in [Isolates -> MemoRecord]
  BY <1>1, <1>2 DEF MeterRecord, MemoRecord
<1>5. ASSUME NEW i \in Isolates PROVE MemoFits(i)'
  <2>1. CASE i = x.iso
    BY <1>1, <1>2, <1>3, <2>1 DEF MemoFits
  <2>2. CASE i # x.iso
    BY <1>1, <1>2, <2>2 DEF UsageInv, MemoFits
  <2> QED BY <2>1, <2>2
<1>6. Owed(x) = {Alert(x.period, m) : m \in owed}
  BY <1>1 DEF Owed
<1>7. CASE owed = {}
  <2>1. Owed(NoRequest) = {} /\ Owed(x) = {}
    BY <1>6, <1>7, NoRequestType, OwesNothing
  <2>2. NoRequest \in MeterRecord /\ MeterFits(NoRequest)
    BY NoRequestType DEF MeterFits
  <2> QED BY <1>1, <1>4, <1>5, <1>7, <2>1, <2>2, MeterKeeps
<1>8. CASE owed # {}
  <2> DEFINE w == [NoRequest EXCEPT !.pc = "notify", !.period = x.period, !.owed = owed]
  <2>1. meter' = [meter EXCEPT ![r] = w]
    BY <1>1, <1>8
  <2>z. ASSUME NEW z, z = w
        PROVE  \E i : z = [pc |-> "notify", iso |-> i, period |-> x.period, rows |-> 0, after |-> 0,
                           refused |-> FALSE, owed |-> owed]
    <3>1. PICK i0 : NoRequest = [pc |-> "idle", iso |-> i0, period |-> 0, rows |-> 0,
                                 after |-> 0, refused |-> FALSE, owed |-> {}]
      BY NoRequestFields
    <3> HIDE DEF owed
    <3> QED BY <2>z, <3>1
  <2>2. w.iso \in Isolates
    BY NoRequestType DEF MeterRecord
  <2>3. \A m \in owed : m \in Marks /\ m <= total[x.period]
    BY <1>2, <1>3, UsageAssumption DEF Crossings, MeterRecord
  <2> HIDE DEF w, owed
  <2>4. PICK i : w = [pc |-> "notify", iso |-> i, period |-> x.period, rows |-> 0, after |-> 0,
                      refused |-> FALSE, owed |-> owed]
    BY <2>z
  <2>5. w \in MeterRecord /\ MeterFits(w)
    BY <1>2, <1>3, <1>8, <2>2, <2>3, <2>4, UsageAssumption DEF MeterRecord, MeterFits
  <2>6. Owed(w) = Owed(x)
    BY <1>6, <2>4 DEF Owed
  <2> QED BY <1>1, <1>4, <1>5, <2>1, <2>5, <2>6, MeterKeeps
<1> QED BY <1>7, <1>8

\* A notification that leaves a request's debt is in the feed, or is counted as missed.
LEMMA DebtMoves ==
  ASSUME UsageInv, NEW r \in Metered, NEW q \in MeterRecord,
         meter' = [meter EXCEPT ![r] = q], MeterFits(q), UNCHANGED <<clock, total, memo>>,
         feed \subseteq feed', missed \subseteq missed',
         Owed(q) \subseteq Owed(meter[r]),
         (feed' \cup missed') \ (feed \cup missed) \subseteq Owed(meter[r]),
         Owed(meter[r]) \subseteq Owed(q) \cup feed' \cup missed',
         feed' \cup missed' \subseteq [period : Periods, mark : Marks]
  PROVE  UsageInv'
<1>1. /\ meter' \in [Metered -> MeterRecord] /\ meter'[r] = q
      /\ \A s \in Metered \ {r} : meter'[s] = meter[s]
  BY MeterOf
<1>2. UsageTypeOK'
  BY <1>1 DEF UsageInv, UsageTypeOK, MeterRecord
<1>3. ASSUME NEW s \in Metered PROVE MeterFits(meter[s])'
  BY <1>1 DEF UsageInv, MeterFits
<1>4. Alerted'
  <2> SUFFICES ASSUME NEW p \in Periods, NEW m \in Marks
               PROVE  total'[p] >= m <=> \/ Alert(p, m) \in feed' \cup missed'
                                         \/ \E s \in Metered : Alert(p, m) \in Owed(meter'[s])
    BY DEF Alerted, Owed
  <2>1. total[p] >= m <=> \/ Alert(p, m) \in feed \cup missed
                          \/ \E s \in Metered : Alert(p, m) \in Owed(meter[s])
    BY DEF UsageInv, Alerted
  <2> DEFINE a == Alert(p, m)
  <2> HIDE DEF a
  <2>2. (\/ a \in feed \cup missed \/ \E s \in Metered : a \in Owed(meter[s]))
          <=> (\/ a \in feed' \cup missed' \/ \E s \in Metered : a \in Owed(meter'[s]))
    BY <1>1
  <2> QED BY <2>1, <2>2 DEF a
<1>5. \A i \in Isolates : MemoFits(i)'
  BY DEF UsageInv, MemoFits
<1> QED BY <1>2, <1>3, <1>4, <1>5 DEF UsageInv

\* What a request owes is something to notify.
LEMMA OwedType ==
  ASSUME UsageInv, NEW r \in Metered
  PROVE  Owed(meter[r]) \subseteq [period : Periods, mark : Marks]
<1>1. meter[r] \in MeterRecord /\ MeterFits(meter[r])
  BY MeterOf
<1>2. CASE meter[r].pc = "seen"
  BY <1>1, <1>2 DEF MeterFits, Owed, Crossings, Alert
<1>3. CASE meter[r].pc # "seen"
  BY <1>1, <1>3 DEF MeterFits, Owed, Alert, MeterRecord
<1> QED BY <1>2, <1>3

\* A request that is gone owes nothing, and what it knew no longer matters.
LEMMA NoRequestFits ==
  NoRequest \in MeterRecord /\ MeterFits(NoRequest) /\ Owed(NoRequest) = {}
<1>1. NoRequest \in MeterRecord /\ NoRequest.owed = {} /\ NoRequest.pc = "idle" /\ ~NoRequest.refused
  BY NoRequestType
<1> QED BY <1>1, OwesNothing DEF MeterFits

\* The lowest mark it owes is notified.
LEMMA NotifyKeeps ==
  ASSUME UsageInv, NEW r \in Metered, Notify(r)
  PROVE  UsageInv'
<1> DEFINE x == meter[r]
           m == CHOOSE m \in x.owed : \A k \in x.owed : m <= k
           w == [x EXCEPT !.owed = @ \ {m}]
           q == IF x.owed = {m} THEN NoRequest ELSE w
<1>1. /\ x.pc = "notify" /\ feed' = feed \cup {Alert(x.period, m)}
      /\ meter' = [meter EXCEPT ![r] = q]
      /\ UNCHANGED <<clock, total, memo, missed>>
  BY DEF Notify
<1>2. x \in MeterRecord /\ MeterFits(x)
  BY MeterOf
<1>3. Owed(x) = {Alert(x.period, k) : k \in x.owed}
  BY <1>1 DEF Owed
<1>4. x.owed # {} /\ x.owed \in SUBSET Nat /\ x.owed \subseteq Marks
  BY <1>1, <1>2, UsageAssumption DEF MeterFits, MeterRecord
<1>5. m \in x.owed
  <2>1. \E k \in x.owed : \A j \in x.owed : k <= j
    BY <1>4, LeastNatural
  <2> QED BY <2>1
<1>6. Alert(x.period, m) \in Owed(x)
  BY <1>3, <1>5
<1>7. feed' \cup missed' \subseteq [period : Periods, mark : Marks]
  <2>1. feed \cup missed \subseteq [period : Periods, mark : Marks]
    BY DEF UsageInv, UsageTypeOK
  <2> QED BY <1>1, <1>6, <2>1, OwedType
<1> HIDE DEF m
<1>8. CASE x.owed = {m}
  <2>1. meter' = [meter EXCEPT ![r] = NoRequest]
    BY <1>1, <1>8
  <2>2. Owed(x) = {Alert(x.period, m)}
    BY <1>3, <1>8
  <2> HIDE DEF x, q
  <2> QED BY <1>1, <1>7, <2>1, <2>2, NoRequestFits, DebtMoves DEF x
<1>9. CASE x.owed # {m}
  <2>1. meter' = [meter EXCEPT ![r] = w]
    BY <1>1, <1>9
  <2>2. w = [pc |-> x.pc, iso |-> x.iso, period |-> x.period, rows |-> x.rows, after |-> x.after,
             refused |-> x.refused, owed |-> x.owed \ {m}]
    BY <1>2 DEF MeterRecord
  <2> HIDE DEF w, q
  <2>3. w \in MeterRecord
    BY <1>2, <2>2 DEF MeterRecord
  <2>4. w.owed # {} /\ w.owed \subseteq x.owed
    BY <1>5, <1>9, <2>2
  <2>5. MeterFits(w)
    BY <1>1, <1>2, <2>2, <2>4 DEF MeterFits
  <2>6. Owed(w) = {Alert(x.period, k) : k \in x.owed \ {m}}
    BY <1>1, <2>2 DEF Owed
  <2>7. Owed(w) \subseteq Owed(x) /\ Owed(x) \subseteq Owed(w) \cup {Alert(x.period, m)}
    BY <1>3, <2>6
  <2> HIDE DEF x
  <2> QED BY <1>1, <1>6, <1>7, <2>1, <2>3, <2>5, <2>7, DebtMoves DEF x
<1> QED BY <1>8, <1>9

\* A request that ends early leaves its notifications missed.
LEMMA EndKeeps ==
  ASSUME UsageInv, NEW r \in Metered, End(r)
  PROVE  UsageInv'
<1>1. /\ meter' = [meter EXCEPT ![r] = NoRequest] /\ missed' = missed \cup Owed(meter[r])
      /\ UNCHANGED <<clock, total, memo, feed>>
  BY DEF End
<1>2. feed \cup missed \subseteq [period : Periods, mark : Marks]
  BY DEF UsageInv, UsageTypeOK
<1>3. feed' \cup missed' \subseteq [period : Periods, mark : Marks]
  BY <1>1, <1>2, OwedType
<1> QED BY <1>1, <1>3, NoRequestFits, DebtMoves

\* What an isolate remembers only ages.
LEMMA AgesKeeps ==
  ASSUME UsageInv, NEW i \in Isolates, Ages(i)
  PROVE  UsageInv'
<1>1. memo' = [memo EXCEPT ![i].fresh = FALSE] /\ UNCHANGED <<clock, total, meter, feed, missed>>
  BY DEF Ages
<1>2. memo \in [Isolates -> MemoRecord]
  BY DEF UsageInv, UsageTypeOK, MemoRecord
<1>3. /\ memo' \in [Isolates -> MemoRecord]
      /\ \A j \in Isolates : memo'[j].period = memo[j].period /\ memo'[j].total = memo[j].total
  BY <1>1, <1>2 DEF MemoRecord
<1>4. UsageTypeOK'
  BY <1>1, <1>3 DEF UsageInv, UsageTypeOK, MemoRecord
<1>5. Alerted'
  BY <1>1 DEF UsageInv, Alerted, Owed
<1>6. \A r \in Metered : MeterFits(meter[r])'
  BY <1>1 DEF UsageInv, MeterFits
<1>7. \A j \in Isolates : MemoFits(j)'
  BY <1>1, <1>3 DEF UsageInv, MemoFits
<1> QED BY <1>4, <1>5, <1>6, <1>7 DEF UsageInv

LEMMA NextPeriodKeeps ==
  ASSUME UsageInv, NextPeriod
  PROVE  UsageInv'
<1>1. /\ clock < MaxPeriod /\ clock' = clock + 1
      /\ UNCHANGED <<total, memo, meter, feed, missed>>
  BY DEF NextPeriod
<1>2. clock' \in Periods
  BY <1>1, UsageAssumption DEF UsageInv, UsageTypeOK, Periods
<1>3. UsageTypeOK'
  BY <1>1, <1>2 DEF UsageInv, UsageTypeOK
<1>4. Alerted'
  BY <1>1 DEF UsageInv, Alerted, Owed
<1>5. (\A r \in Metered : MeterFits(meter[r])') /\ \A j \in Isolates : MemoFits(j)'
  BY <1>1 DEF UsageInv, MeterFits, MemoFits
<1> QED BY <1>3, <1>4, <1>5 DEF UsageInv

LEMMA UsageStarts == UsageInit => UsageInv
<1> SUFFICES ASSUME UsageInit PROVE UsageInv
  OBVIOUS
<1>1. \A r \in Metered : meter[r] = NoRequest
  BY DEF UsageInit
<1>2. \A p \in Periods : total[p] = 0
  BY DEF UsageInit
<1>3. UsageTypeOK
  <2>1. NoMemo \in MemoRecord
    BY UsageAssumption DEF NoMemo, MemoRecord
  <2>2. meter \in [Metered -> MeterRecord] /\ memo \in [Isolates -> MemoRecord]
    BY <2>1, NoRequestType DEF UsageInit
  <2>3. clock \in Periods /\ total \in [Periods -> 0 .. MaxTotal]
    BY UsageAssumption DEF UsageInit, Periods
  <2> QED BY <2>2, <2>3 DEF UsageInit, UsageTypeOK, MeterRecord, MemoRecord
<1>4. Alerted
  <2> SUFFICES ASSUME NEW p \in Periods, NEW m \in Marks
               PROVE  /\ ~(total[p] >= m) /\ Alert(p, m) \notin feed \cup missed
                      /\ \A r \in Metered : Alert(p, m) \notin Owed(meter[r])
    BY DEF Alerted
  <2>1. \A r \in Metered : Owed(meter[r]) = {}
    BY <1>1, NoRequestFits
  <2>2. m \in Nat \ {0}
    BY UsageAssumption
  <2> QED BY <1>2, <2>1, <2>2 DEF UsageInit
<1>5. \A r \in Metered : MeterFits(meter[r])
  BY <1>1, NoRequestFits
<1>6. \A i \in Isolates : MemoFits(i)
  BY DEF UsageInit, MemoFits, NoMemo
<1> QED BY <1>3, <1>4, <1>5, <1>6 DEF UsageInv

LEMMA UsageStep == UsageInv /\ [UsageNext]_usageVars => UsageInv'
<1> SUFFICES ASSUME UsageInv, [UsageNext]_usageVars PROVE UsageInv'
  OBVIOUS
<1>1. ASSUME NEW r \in Metered, NEW i \in Isolates, ArriveUncapped(r, i) \/ ArriveCapped(r, i)
      PROVE  UsageInv'
  BY <1>1, ArriveUncappedKeeps, ArriveCappedKeeps
<1>2. ASSUME NEW r \in Metered,
             ReadTotals(r) \/ Decide(r) \/ Preview(r) \/ SettleMeter(r) \/ FlushBatch(r) \/ FlushSeen(r)
               \/ Notify(r) \/ End(r)
      PROVE  UsageInv'
  BY <1>2, ReadTotalsKeeps, DecideKeeps, PreviewKeeps, SettleMeterKeeps, FlushBatchKeeps,
     FlushSeenKeeps, NotifyKeeps, EndKeeps
<1>3. CASE UNCHANGED usageVars
  BY <1>3 DEF usageVars, UsageInv, UsageTypeOK, Alerted, Owed, MeterFits, MemoFits
<1> QED BY <1>1, <1>2, <1>3, AgesKeeps, NextPeriodKeeps DEF UsageNext

\* The account of use is right: a mark is notified exactly when the period has reached
\* it, by one flush, and a request is refused only in a period at its cap.
THEOREM UsageIsSound == UsageSpec => []UsageSound
<1>1. UsageInv => UsageSound
  BY DEF UsageInv, UsageSound, RefusedRightly, MeterFits, UsageTypeOK, Periods
<1> QED BY <1>1, UsageStarts, UsageStep, PTL DEF UsageSpec

-----------------------------------------------------------------------------
(* The notification feed *)

NoteIds == Events \cup {TestId}
NoteRecord == [seq : Nat \ {0}, id : NoteIds, read : BOOLEAN]
AnswerRecord == [items : SUBSET NoteIds, next : Nat]
FollowerRecord == [after : Nat, got : SUBSET NoteIds, answer : AnswerRecord]

\* The client was given a notification it may have moved past, or that is read.
Given(n) == (n.seq <= follower.after \/ n.read) => n.id \in follower.got

\* An answer on its way holds all that lies between the cursor and the next one.
AnswerHolds ==
  follower.answer # NoAnswer =>
    /\ follower.after <= follower.answer.next
    /\ \A n \in notes : follower.after < n.seq /\ n.seq <= follower.answer.next => n.id \in follower.answer.items

FeedInv ==
  /\ notes \subseteq NoteRecord /\ IsFiniteSet(notes) /\ lastNote \in 0 .. MaxSeq
  /\ \A n \in notes : n.seq <= lastNote
  /\ follower \in FollowerRecord
  /\ follower.after <= lastNote /\ follower.answer.next <= lastNote
  /\ marking \in Nat /\ marking <= follower.after
  /\ \A n \in notes : Given(n)
  /\ \A n \in notes : \A k \in notes : n.seq = k.seq \/ n.id = k.id => n = k
  /\ AnswerHolds

LEMMA FeedInvSound == FeedInv => FeedComplete
BY FeedAssumption DEF FeedInv, FeedComplete, FeedTypeOK, NoteRecord, NoteIds, FollowerRecord, AnswerRecord, Given

LEMMA NoAnswerType == NoAnswer \in AnswerRecord /\ NoAnswer.next = 0
BY DEF NoAnswer, AnswerRecord

LEMMA FeedStarts == FeedInit => FeedInv
<1> SUFFICES ASSUME FeedInit PROVE FeedInv
  OBVIOUS
<1>1. notes = {} /\ lastNote = 0 /\ marking = 0 /\ follower = [after |-> 0, got |-> {}, answer |-> NoAnswer]
  BY DEF FeedInit
<1>2. IsFiniteSet(notes)
  BY <1>1, FS_EmptySet
<1> QED BY <1>1, <1>2, NoAnswerType, FeedAssumption DEF FeedInv, FollowerRecord, AnswerHolds

\* A notification gets a number that no other ever had.
LEMMA InsertKeeps ==
  ASSUME FeedInv, NEW id \in NoteIds, Insert(id)
  PROVE  FeedInv'
<1> DEFINE new == [seq |-> lastNote + 1, id |-> id, read |-> FALSE]
<1>1. /\ lastNote < MaxSeq /\ \A n \in notes : n.id # id
      /\ notes' = notes \cup {new} /\ lastNote' = lastNote + 1 /\ UNCHANGED <<follower, marking>>
  BY DEF Insert, NextSeq
<1>2. lastNote \in Nat /\ lastNote' \in 0 .. MaxSeq /\ lastNote < lastNote'
  BY <1>1, FeedAssumption DEF FeedInv
<1>3. IsFiniteSet(notes')
  BY <1>1, FS_AddElement DEF FeedInv
<1>4. new \in NoteRecord /\ new.seq = lastNote' /\ new.id = id /\ new.read = FALSE
  BY <1>1, <1>2 DEF NoteRecord
<1>5. \A n \in notes : n.seq \in Nat /\ n.seq <= lastNote /\ n.seq # new.seq /\ n.id # new.id
  BY <1>1, <1>2 DEF FeedInv, NoteRecord
<1>6. follower.after \in Nat /\ follower.answer.next \in Nat /\ follower.after <= lastNote /\ follower.answer.next <= lastNote
  BY DEF FeedInv, FollowerRecord, AnswerRecord
<1> HIDE DEF new
<1>7. \A n \in notes' : Given(n)'
  BY <1>1, <1>2, <1>4, <1>6 DEF FeedInv, Given
<1>8. AnswerHolds'
  BY <1>1, <1>2, <1>4, <1>6 DEF FeedInv, AnswerHolds
<1>9. \A n \in notes' : \A k \in notes' : n.seq = k.seq \/ n.id = k.id => n = k
  BY <1>1, <1>5 DEF FeedInv
<1>10. (\A n \in notes' : n.seq <= lastNote') /\ follower'.after <= lastNote' /\ follower'.answer.next <= lastNote'
  BY <1>1, <1>2, <1>4, <1>5, <1>6
<1>11. notes' \subseteq NoteRecord /\ follower' \in FollowerRecord /\ marking' \in Nat /\ marking' <= follower'.after
  BY <1>1, <1>4 DEF FeedInv
<1> QED BY <1>2, <1>3, <1>7, <1>8, <1>9, <1>10, <1>11 DEF FeedInv

LEMMA DeleteTestKeeps ==
  ASSUME FeedInv, DeleteTest
  PROVE  FeedInv'
<1>1. notes' \subseteq notes /\ UNCHANGED <<lastNote, follower, marking>>
  BY DEF DeleteTest
<1>2. IsFiniteSet(notes')
  BY <1>1, FS_Subset DEF FeedInv
<1> QED BY <1>1, <1>2 DEF FeedInv, Given, AnswerHolds

\* The page holds every notification from the cursor to its last one: fewer precede
\* any of them than precede the last.
LEMMA PageKeeps ==
  ASSUME FeedInv, Page
  PROVE  FeedInv'
<1> DEFINE after == {n \in notes : n.seq > follower.after}
           upTo(n) == {k \in after : k.seq <= n.seq}
           shown == {n \in after : Cardinality(upTo(n)) <= PageLimit}
           seqs == {n.seq : n \in shown}
           last == CHOOSE s \in seqs : \A n \in shown : n.seq <= s
           ids == {n.id : n \in shown}
<1>1. /\ shown # {} /\ UNCHANGED <<notes, lastNote, marking>>
      /\ follower' = [follower EXCEPT !.answer = [items |-> ids, next |-> last]]
  BY DEF Page
<1>2. \A n \in notes : n \in NoteRecord /\ n.seq \in Nat /\ n.seq <= lastNote /\ n.id \in NoteIds
  BY DEF FeedInv, NoteRecord
<1>3. lastNote \in Nat /\ follower \in FollowerRecord /\ follower.after \in Nat
  BY FeedAssumption DEF FeedInv, FollowerRecord
<1>4. last \in seqs /\ \A n \in shown : n.seq <= last
  <2> DEFINE T == {lastNote - n.seq : n \in shown}
  <2>1. T \in SUBSET Nat /\ T # {}
    <3>1. ASSUME NEW n \in shown PROVE lastNote - n.seq \in Nat
      <4>1. n \in notes
        OBVIOUS
      <4> HIDE DEF shown
      <4> QED BY <1>2, <1>3, <4>1
    <3> HIDE DEF shown
    <3> QED BY <1>1, <3>1
  <2>2. PICK m \in T : \A k \in T : m <= k
    BY <2>1, LeastNatural
  <2>3. PICK l \in shown : m = lastNote - l.seq
    BY <2>2
  <2>4. l.seq \in seqs /\ \A n \in shown : n.seq <= l.seq
    <3>1. ASSUME NEW n \in shown PROVE n.seq <= l.seq
      <4>1. n \in notes /\ l \in notes /\ lastNote - n.seq \in T
        OBVIOUS
      <4>2. m <= lastNote - n.seq
        BY <2>2, <4>1
      <4> HIDE DEF shown
      <4> QED BY <1>2, <1>3, <2>3, <4>1, <4>2
    <3> HIDE DEF shown
    <3> QED BY <3>1
  <2> QED BY <2>4
<1>5. PICK l \in shown : l.seq = last
  BY <1>4
<1>6. ASSUME NEW n \in notes, n.seq > follower.after, n.seq <= last PROVE n \in shown
  <2>1. l \in after /\ n \in after /\ Cardinality(upTo(l)) <= PageLimit
    BY <1>5, <1>6
  <2>2. upTo(n) \subseteq upTo(l) /\ upTo(l) \subseteq notes
    <3>1. ASSUME NEW k \in notes, k.seq <= n.seq PROVE k.seq <= l.seq
      <4>1. l \in notes
        OBVIOUS
      <4> HIDE DEF shown, last
      <4> QED BY <1>2, <1>5, <1>6, <3>1, <4>1
    <3> QED BY <3>1
  <2>3. IsFiniteSet(upTo(l))
    BY <2>2, FS_Subset DEF FeedInv
  <2>4. /\ Cardinality(upTo(n)) <= Cardinality(upTo(l))
        /\ Cardinality(upTo(n)) \in Nat /\ Cardinality(upTo(l)) \in Nat
    <3>1. IsFiniteSet(upTo(n)) /\ Cardinality(upTo(n)) <= Cardinality(upTo(l))
      BY <2>2, <2>3, FS_Subset
    <3> QED BY <2>3, <3>1, FS_CardinalityType
  <2> HIDE DEF upTo, after
  <2>5. Cardinality(upTo(n)) <= PageLimit
    BY <2>1, <2>4, FeedAssumption
  <2> QED BY <2>1, <2>5
<1>7. last \in Nat /\ last <= lastNote /\ follower.after <= last
  <2>1. l \in notes /\ l.seq > follower.after
    BY <1>5
  <2> HIDE DEF last, shown
  <2> QED BY <1>2, <1>3, <1>5, <2>1
<1>8. ids \subseteq NoteIds
  BY <1>2
<1> HIDE DEF shown, last, ids
<1>9. /\ follower'.answer = [items |-> ids, next |-> last]
      /\ follower'.after = follower.after /\ follower'.got = follower.got
  BY <1>1, <1>3 DEF FollowerRecord
<1>10. follower' \in FollowerRecord
  BY <1>1, <1>3, <1>7, <1>8 DEF FollowerRecord, AnswerRecord
<1>11. AnswerHolds'
  BY <1>1, <1>6, <1>7, <1>9 DEF AnswerHolds, ids
<1>12. follower'.after <= lastNote' /\ follower'.answer.next <= lastNote'
  BY <1>1, <1>7, <1>9 DEF FeedInv
<1>13. \A n \in notes' : Given(n)'
  BY <1>1, <1>9 DEF FeedInv, Given
<1> QED BY <1>1, <1>9, <1>10, <1>11, <1>12, <1>13 DEF FeedInv

\* The cursor moves to the end of what was given.
LEMMA AnsweredKeeps ==
  ASSUME FeedInv, Answered
  PROVE  FeedInv'
<1>1. /\ follower.answer # NoAnswer /\ UNCHANGED <<notes, lastNote, marking>>
      /\ follower' = [follower EXCEPT !.after = follower.answer.next, !.got = @ \cup follower.answer.items,
                                      !.answer = NoAnswer]
  BY DEF Answered
<1>2. follower \in FollowerRecord /\ follower.after \in Nat /\ follower.answer.next \in Nat
      /\ follower.got \subseteq NoteIds /\ follower.answer.items \subseteq NoteIds
  BY DEF FeedInv, FollowerRecord, AnswerRecord
<1>3. follower' = [after |-> follower.answer.next, got |-> follower.got \cup follower.answer.items, answer |-> NoAnswer]
  BY <1>1, <1>2 DEF FollowerRecord
<1>4. follower' \in FollowerRecord
  BY <1>2, <1>3, NoAnswerType DEF FollowerRecord
<1>5. \A n \in notes : n.seq \in Nat
  BY DEF FeedInv, NoteRecord
<1>6. follower.after <= follower.answer.next
  BY <1>1 DEF FeedInv, AnswerHolds
<1>7. ASSUME NEW n \in notes PROVE Given(n)'
  <2>1. Given(n) /\ (follower.after < n.seq /\ n.seq <= follower.answer.next => n.id \in follower.answer.items)
    BY <1>1 DEF FeedInv, AnswerHolds
  <2> QED BY <1>2, <1>3, <1>5, <2>1 DEF Given
<1>8. AnswerHolds'
  BY <1>3 DEF AnswerHolds
<1>9. /\ follower'.after <= lastNote' /\ follower'.answer.next <= lastNote'
      /\ marking' \in Nat /\ marking' <= follower'.after
  BY <1>1, <1>2, <1>3, <1>6, NoAnswerType, FeedAssumption DEF FeedInv
<1> QED BY <1>1, <1>4, <1>7, <1>8, <1>9 DEF FeedInv

LEMMA AnswerLostKeeps ==
  ASSUME FeedInv, AnswerLost
  PROVE  FeedInv'
<1>1. /\ UNCHANGED <<notes, lastNote, marking>>
      /\ follower' = [follower EXCEPT !.answer = NoAnswer]
  BY DEF AnswerLost
<1>2. follower \in FollowerRecord
  BY DEF FeedInv
<1>3. /\ follower'.answer = NoAnswer /\ follower'.after = follower.after /\ follower'.got = follower.got
      /\ follower' \in FollowerRecord
  BY <1>1, <1>2, NoAnswerType DEF FollowerRecord
<1>4. lastNote \in Nat
  BY FeedAssumption DEF FeedInv
<1> QED BY <1>1, <1>3, <1>4, NoAnswerType DEF FeedInv, Given, AnswerHolds

LEMMA AskMarkKeeps ==
  ASSUME FeedInv, AskMark
  PROVE  FeedInv'
<1>1. marking' = follower.after /\ UNCHANGED <<notes, lastNote, follower>>
  BY DEF AskMark
<1>2. follower.after \in Nat
  BY DEF FeedInv, FollowerRecord
<1> QED BY <1>1, <1>2 DEF FeedInv, Given, AnswerHolds

\* Only what was given is marked.
LEMMA MarkReadKeeps ==
  ASSUME FeedInv, MarkRead
  PROVE  FeedInv'
<1> DEFINE F == [n \in notes |-> [n EXCEPT !.read = @ \/ Marked(n)]]
<1>1. /\ notes' = {F[n] : n \in notes} /\ marking' = 0 /\ UNCHANGED <<lastNote, follower>>
  BY DEF MarkRead
<1>2. ASSUME NEW n \in notes
      PROVE  F[n] \in NoteRecord /\ F[n] = [seq |-> n.seq, id |-> n.id, read |-> n.read \/ Marked(n)]
  <2>1. n \in NoteRecord /\ Marked(n) \in BOOLEAN
    BY DEF FeedInv, Marked
  <2> QED BY <2>1 DEF NoteRecord
<1>3. IsFiniteSet(notes')
  <2>1. F \in Surjection(notes, notes')
    BY <1>1 DEF Surjection
  <2> QED BY <2>1, FS_Surjection DEF FeedInv
<1> HIDE DEF F
<1>4. ASSUME NEW w \in notes' PROVE \E n \in notes : w = F[n] /\ w.seq = n.seq /\ w.id = n.id /\ w.read = (n.read \/ Marked(n))
  <2>1. PICK n \in notes : w = F[n]
    BY <1>1
  <2>2. F[n] = [seq |-> n.seq, id |-> n.id, read |-> n.read \/ Marked(n)]
    BY <1>2
  <2> QED BY <2>1, <2>2
<1>5. marking <= follower.after /\ marking \in Nat /\ follower.after \in Nat /\ \A n \in notes : n.seq \in Nat
  BY DEF FeedInv, FollowerRecord, NoteRecord
<1>6. ASSUME NEW w \in notes' PROVE Given(w)'
  <2>1. PICK n \in notes : w.seq = n.seq /\ w.id = n.id /\ w.read = (n.read \/ Marked(n))
    BY <1>4
  <2>2. Given(n)
    BY DEF FeedInv
  <2>3. Marked(n) => n.seq <= follower.after
    BY <1>5 DEF Marked
  <2> QED BY <1>1, <2>1, <2>2, <2>3 DEF Given
<1>7. \A w \in notes' : \A k \in notes' : w.seq = k.seq \/ w.id = k.id => w = k
  BY <1>4 DEF FeedInv
<1>8. AnswerHolds'
  <2> SUFFICES ASSUME follower.answer # NoAnswer
               PROVE  /\ follower.after <= follower.answer.next
                      /\ \A w \in notes' : follower.after < w.seq /\ w.seq <= follower.answer.next
                                             => w.id \in follower.answer.items
    BY <1>1 DEF AnswerHolds
  <2> QED BY <1>4 DEF FeedInv, AnswerHolds
<1>9. notes' \subseteq NoteRecord /\ \A w \in notes' : w.seq <= lastNote
  <2>1. notes' \subseteq NoteRecord
    BY <1>1, <1>2
  <2>2. ASSUME NEW w \in notes' PROVE w.seq <= lastNote
    BY <1>4 DEF FeedInv
  <2> QED BY <2>1, <2>2
<1> QED BY <1>1, <1>3, <1>5, <1>6, <1>7, <1>8, <1>9 DEF FeedInv

LEMMA FeedStep == FeedInv /\ [FeedNext]_feedVars => FeedInv'
<1> SUFFICES ASSUME FeedInv, [FeedNext]_feedVars PROVE FeedInv'
  OBVIOUS
<1>1. ASSUME NEW id \in Events \cup {TestId}, Insert(id) PROVE FeedInv'
  BY <1>1, InsertKeeps DEF NoteIds
<1>2. CASE UNCHANGED feedVars
  BY <1>2 DEF feedVars, FeedInv, Given, AnswerHolds
<1> QED BY <1>1, <1>2, DeleteTestKeeps, PageKeeps, AnsweredKeeps, AnswerLostKeeps, AskMarkKeeps, MarkReadKeeps
        DEF FeedNext

\* A client that follows its cursor is given everything before it, and nothing is
\* marked read that it was not given.
THEOREM FeedIsComplete == FeedSpec => []FeedComplete
BY FeedStarts, FeedStep, FeedInvSound, PTL DEF FeedSpec
=============================================================================
