----------------------------- MODULE DeviceLogin -----------------------------
(***************************************************************************)
(* Device tokens from the approval page to the Keychain and back              *)
(* (src/soma/login.py, background.py save_credential, credentials.py;          *)
(* worker/src/login.js, auth.js, enrollment-profile.js and the session and      *)
(* token routes of index.js).                                                 *)
(*                                                                          *)
(* A login makes its own token, shows its fingerprint to the owner, polls       *)
(* until the hub knows it, and installs it: Keychain item, then preferences,   *)
(* under the credential lock, and the other way round when one of them fails.  *)
(* Logins, logouts and pasted credentials of one data directory interleave,    *)
(* each may be killed at any step, and the owner approves and revokes when     *)
(* they like, links that were abandoned included.                             *)
(***************************************************************************)
EXTENDS Integers, FiniteSets

CONSTANTS
  Tokens,      \* tokens, each made at most once
  Runs,        \* commands: login, logout, enable
  MaxChanges   \* bound on changes of the enrollment profile

Nothing == "no token"

ASSUME LoginAssumption == MaxChanges \in Nat /\ Nothing \notin Tokens /\ Nothing \notin Runs

VARIABLES
  registry,    \* _tokens: per fingerprint "none", "active" or "revoked"
  grant,       \* _tokens.enrollment_revision: 0 for a full token
  authority,   \* _governance_authorities of the token
  revision,    \* the enrollment profile's revision now
  page,        \* approval pages open in the owner's browser
  keychain,    \* the item of this data directory and endpoint, or Nothing
  prefs,       \* background.json: "none", "keychain" or "signed_out"
  lock,        \* who holds credentials.lock
  run,         \* the commands
  made,        \* tokens made by a login, or pasted
  excused,     \* history: tokens whose cleanup the owner was told to do, or which
               \* the command that held them could not clean up: it was killed, it
               \* gave up waiting, or another credential was pasted over them
  ended        \* history: tokens a logout has reported gone

loginVars == <<registry, grant, authority, revision, page, keychain, prefs, lock, run, made, excused, ended>>

-----------------------------------------------------------------------------
NotRunning == [pc |-> "idle", prev |-> Nothing, token |-> Nothing, created |-> FALSE, profile |-> FALSE]

LoginInit ==
  /\ registry = [t \in Tokens |-> "none"] /\ grant = [t \in Tokens |-> 0]
  /\ authority = [t \in Tokens |-> "none"]
  /\ revision = 1 /\ page = {}
  /\ keychain = Nothing /\ prefs = "none" /\ lock = Nothing
  /\ run = [p \in Runs |-> NotRunning]
  /\ made = {} /\ excused = {} /\ ended = {}

hubVars == <<registry, grant, authority, revision, page>>
localVars == <<keychain, prefs, lock>>

RunGoes(p, pc) == run' = [run EXCEPT ![p].pc = pc]
Ends(p) == run' = [run EXCEPT ![p] = NotRunning]

-----------------------------------------------------------------------------
(* The hub *)

\* The owner opens an approval link, which never expires; a profile's grants are
\* shown as they are now.
OpenPage(t) ==
  /\ \E p \in Runs : run[p].pc \in {"wait", "file"} /\ run[p].token = t
  /\ \A f \in page : f.token # t  \* bound: one page per token
  /\ \E shown \in {0, revision} : page' = page \cup {[token |-> t, revision |-> shown]}
  /\ UNCHANGED <<registry, grant, authority, revision, localVars, run, made, excused, ended>>

\* The profile is still what the form showed.
FormCurrent(f) == f.revision \in {0, revision}

\* A token is approved anew, or again while active and for the same grant.
Registered(f) ==
  registry[f.token] = "none" \/ (registry[f.token] = "active" /\ grant[f.token] = f.revision)

\* The form is submitted.  A full token gets its authority in the same batch,
\* unless it has one.
Approve(f) ==
  /\ f \in page /\ FormCurrent(f) /\ Registered(f)
  /\ registry' = [registry EXCEPT ![f.token] = "active"]
  /\ grant' = [grant EXCEPT ![f.token] = IF f.revision = 0 THEN 0 ELSE revision]
  /\ authority' = IF f.revision = 0 /\ authority[f.token] = "none" THEN [authority EXCEPT ![f.token] = "user"] ELSE authority
  /\ UNCHANGED <<revision, page, localVars, run, made, excused, ended>>

ProfileChanges ==
  /\ revision <= MaxChanges /\ revision' = revision + 1
  /\ UNCHANGED <<registry, grant, authority, page, localVars, run, made, excused, ended>>

\* The owner, or the admin token, revokes a device.
Revoke(t) ==
  /\ registry[t] = "active"
  /\ registry' = [registry EXCEPT ![t] = "revoked"]
  /\ UNCHANGED <<grant, authority, revision, page, localVars, run, made, excused, ended>>

\* An agent's token is made with the admin token, to be pasted.
MintToken(t) ==
  /\ t \notin made /\ registry[t] = "none"
  /\ registry' = [registry EXCEPT ![t] = "active"] /\ authority' = [authority EXCEPT ![t] = "agent"]
  /\ made' = made \cup {t} /\ excused' = excused \cup {t}
  /\ UNCHANGED <<grant, revision, page, localVars, run, ended>>

-----------------------------------------------------------------------------
(* soma login *)

Login(p) ==
  /\ run[p].pc = "idle"
  /\ \E profile \in BOOLEAN :
       run' = [run EXCEPT ![p] = [pc |-> IF keychain = Nothing THEN "ask" ELSE "session", prev |-> keychain,
                                  token |-> keychain, created |-> FALSE, profile |-> profile]]
  /\ UNCHANGED <<hubVars, localVars, made, excused, ended>>

\* The saved token still answers, or it is asked for anew; other answers fail.
\* A full session does not satisfy a profile login.
CheckSession(p) ==
  /\ run[p].pc = "session"
  /\ \/ /\ registry[run[p].prev] = "active" /\ (run[p].profile => grant[run[p].prev] # 0)
        /\ RunGoes(p, "lock")
     \/ registry[run[p].prev] # "active" /\ RunGoes(p, "ask")
     \/ Ends(p)
  /\ UNCHANGED <<hubVars, localVars, made, excused, ended>>

\* A new token; its fingerprint goes to the approval page.
RequestEnrollment(p, t) ==
  /\ run[p].pc = "ask" /\ t \notin made
  /\ made' = made \cup {t}
  /\ run' = [run EXCEPT ![p].pc = "wait", ![p].token = t, ![p].created = TRUE]
  /\ UNCHANGED <<hubVars, localVars, excused, ended>>

\* The hub knows the token.  An approval that is not of the profile asked for is
\* cleaned up.
Approved(p) ==
  /\ run[p].pc = "wait" /\ registry[run[p].token] = "active"
  /\ RunGoes(p, IF run[p].profile /\ grant[run[p].token] = 0 THEN "cleanup" ELSE "lock")
  /\ UNCHANGED <<hubVars, localVars, made, excused, ended>>

\* Five minutes pass, or the hub answers with something else: no cleanup, the
\* approval may still come.
GiveUp(p) ==
  /\ run[p].pc = "wait"
  /\ Ends(p) /\ excused' = excused \cup {run[p].token}
  /\ UNCHANGED <<hubVars, localVars, made, ended>>

\* A login that cannot install what it was given.
Failed(p) == IF run[p].created THEN RunGoes(p, "cleanup") ELSE Ends(p)

Unchanged(p) == keychain = run[p].prev

\* The credential lock, or none of it; then the Keychain must be as it was.
TakeLock(p) ==
  /\ run[p].pc = "lock"
  /\ IF lock = Nothing /\ Unchanged(p)
     THEN lock' = p /\ RunGoes(p, IF run[p].token = run[p].prev THEN "prefs" ELSE "store")
     ELSE UNCHANGED lock /\ Failed(p)
  /\ UNCHANGED <<hubVars, keychain, prefs, made, excused, ended>>

\* The old item is deleted before the new one is added; only a login that made
\* its token cleans up.
Store(p) ==
  /\ run[p].pc = "store"
  /\ \/ keychain' = run[p].token /\ RunGoes(p, "prefs") /\ UNCHANGED <<lock, excused>>
     \/ keychain' \in {keychain, Nothing} /\ lock' = Nothing /\ Failed(p)
        /\ excused' = excused \cup ({run[p].prev} \ {keychain', Nothing})
  /\ UNCHANGED <<hubVars, prefs, made, ended>>

\* The preferences are replaced as one file, or not.  A pasted token replaces
\* one that goes on being accepted.
SavePrefs(p) ==
  /\ run[p].pc = "prefs"
  /\ \/ prefs' = "keychain" /\ lock' = Nothing /\ Ends(p)
        /\ excused' = excused \cup ({run[p].prev} \ {keychain, Nothing})
     \/ UNCHANGED <<prefs, lock, excused>> /\ RunGoes(p, "rollback")
  /\ UNCHANGED <<hubVars, keychain, made, ended>>

\* Mutant: the Keychain item stays.
MutRestored(p) == keychain
Restored(p) == run[p].prev

\* The Keychain as it was before the install; when that fails too, the command
\* says so.
Rollback(p) ==
  /\ run[p].pc = "rollback"
  /\ \/ keychain' = Restored(p) /\ UNCHANGED excused
     \/ /\ run[p].token # run[p].prev /\ keychain' \in {keychain, Nothing}
        /\ excused' = excused \cup ({run[p].prev} \ {Nothing})
  /\ lock' = Nothing /\ Failed(p)
  /\ UNCHANGED <<hubVars, prefs, made, ended>>

\* The new token is revoked, or the owner is told to revoke it.  A token the hub
\* does not know cannot be.
Cleanup(p) ==
  LET t == run[p].token
  IN  /\ run[p].pc = "cleanup"
      /\ \/ registry' = (IF registry[t] = "active" THEN [registry EXCEPT ![t] = "revoked"] ELSE registry) /\ UNCHANGED excused
         \/ excused' = excused \cup {t} /\ UNCHANGED registry
      /\ Ends(p)
      /\ UNCHANGED <<grant, authority, revision, page, localVars, made, ended>>

\* soma background enable --token-stdin: a pasted token is installed the same way.
Enable(p, t) ==
  /\ run[p].pc = "idle" /\ lock = Nothing /\ authority[t] = "agent"
  /\ lock' = p
  /\ run' = [run EXCEPT ![p] = [pc |-> IF t = keychain THEN "prefs" ELSE "store", prev |-> keychain, token |-> t,
                                created |-> FALSE, profile |-> FALSE]]
  /\ UNCHANGED <<hubVars, keychain, prefs, made, excused, ended>>

\* soma login --token-stdin: the pasted token is validated, and nobody else may
\* be signed in.
PastedLogin(p, t) ==
  /\ run[p].pc = "idle" /\ authority[t] = "agent" /\ registry[t] = "active"
  /\ keychain \notin {Nothing, t} => registry[keychain] # "active"
  /\ run' = [run EXCEPT ![p] = [NotRunning EXCEPT !.pc = "lock", !.prev = keychain, !.token = t]]
  /\ UNCHANGED <<hubVars, localVars, made, excused, ended>>

\* soma enroll: the token waits in a private state file, which outlives the
\* command.
StartEnrollment(p, t) ==
  /\ run[p].pc = "idle" /\ t \notin made
  /\ made' = made \cup {t}
  /\ run' = [run EXCEPT ![p] = [NotRunning EXCEPT !.pc = "file", !.token = t, !.created = TRUE, !.profile = TRUE]]
  /\ UNCHANGED <<hubVars, localVars, excused, ended>>

\* The approved token is handed over; an approval of something else is revoked,
\* and its file removed.  The file stays when either cannot be done.
Claim(p) ==
  LET t == run[p].token
  IN  /\ run[p].pc = "file" /\ registry[t] = "active"
      /\ IF grant[t] # 0 THEN Ends(p) /\ excused' = excused \cup {t} /\ UNCHANGED registry
         ELSE /\ registry' = [registry EXCEPT ![t] = "revoked"] /\ UNCHANGED excused
              /\ Ends(p) \/ UNCHANGED run
      /\ UNCHANGED <<grant, authority, revision, page, localVars, made, ended>>

-----------------------------------------------------------------------------
(* soma logout *)

Logout(p) ==
  /\ run[p].pc = "idle" /\ lock = Nothing
  /\ lock' = p
  /\ run' = [run EXCEPT ![p] = [NotRunning EXCEPT !.pc = IF keychain = Nothing THEN "signout" ELSE "revoke", !.token = keychain]]
  /\ UNCHANGED <<hubVars, keychain, prefs, made, excused, ended>>

\* The hub has revoked the token, or does not accept it.
SignsOut(p) == registry'[run[p].token] # "active"

RevokeSaved(p) ==
  LET t == run[p].token
  IN  /\ run[p].pc = "revoke"
      /\ registry' \in {registry, [registry EXCEPT ![t] = IF @ = "active" THEN "revoked" ELSE @]}
      /\ \/ SignsOut(p) /\ RunGoes(p, "signout") /\ UNCHANGED lock
         \/ Ends(p) /\ lock' = Nothing
      /\ UNCHANGED <<grant, authority, revision, page, keychain, prefs, made, excused, ended>>

\* The preferences say so before the item is deleted.
SignOut(p) ==
  /\ run[p].pc = "signout"
  /\ IF keychain = run[p].token
     THEN prefs' = "signed_out" /\ RunGoes(p, "delete") /\ UNCHANGED lock
     ELSE UNCHANGED prefs /\ Ends(p) /\ lock' = Nothing
  /\ UNCHANGED <<hubVars, keychain, made, excused, ended>>

Delete(p) ==
  /\ run[p].pc = "delete"
  /\ keychain' = Nothing /\ lock' = Nothing /\ Ends(p)
  /\ ended' = ended \cup ({run[p].token} \ {Nothing})
  /\ UNCHANGED <<hubVars, prefs, made, excused>>

\* The command is killed; its locks go with it.
Killed(p) ==
  /\ run[p].pc \notin {"idle", "file"}
  /\ lock' = IF lock = p THEN Nothing ELSE lock
  /\ excused' = excused \cup ({run[p].token, run[p].prev} \ {Nothing})
  /\ Ends(p)
  /\ UNCHANGED <<hubVars, keychain, prefs, made, ended>>

-----------------------------------------------------------------------------
LoginNext ==
  \/ \E t \in Tokens : OpenPage(t) \/ Revoke(t) \/ MintToken(t)
  \/ \E f \in page : Approve(f)
  \/ ProfileChanges
  \/ \E p \in Runs, t \in Tokens : RequestEnrollment(p, t) \/ Enable(p, t) \/ PastedLogin(p, t) \/ StartEnrollment(p, t)
  \/ \E p \in Runs :
       \/ Login(p) \/ CheckSession(p) \/ Approved(p) \/ GiveUp(p) \/ TakeLock(p) \/ Store(p) \/ SavePrefs(p)
       \/ Rollback(p) \/ Cleanup(p) \/ Claim(p) \/ Logout(p) \/ RevokeSaved(p) \/ SignOut(p) \/ Delete(p) \/ Killed(p)

LoginSpec == LoginInit /\ [][LoginNext]_loginVars

-----------------------------------------------------------------------------
LoginTypeOK ==
  /\ registry \in [Tokens -> {"none", "active", "revoked"}]
  /\ revision \in 1 .. MaxChanges + 1 /\ grant \in [Tokens -> 0 .. MaxChanges + 1]
  /\ authority \in [Tokens -> {"none", "user", "agent"}]
  /\ page \subseteq [token : Tokens, revision : 0 .. MaxChanges + 1]
  /\ keychain \in Tokens \cup {Nothing} /\ prefs \in {"none", "keychain", "signed_out"} /\ lock \in Runs \cup {Nothing}
  /\ run \in [Runs -> [pc : {"idle", "session", "ask", "wait", "lock", "store", "prefs", "rollback", "cleanup", "revoke", "signout", "delete", "file"},
                       prev : Tokens \cup {Nothing}, token : Tokens \cup {Nothing}, created : BOOLEAN, profile : BOOLEAN]]
  /\ made \subseteq Tokens /\ excused \subseteq made /\ ended \subseteq made

\* Every token the hub accepts is installed, in the hands of a command that will
\* install or revoke it, or one its owner has to look after.
NoOrphan ==
  \A t \in Tokens :
    registry[t] = "active" => \/ keychain = t \/ t \in excused
                              \/ \E p \in Runs : run[p].token = t /\ run[p].created
                              \/ lock # Nothing /\ run[lock].prev = t

\* A token a logout reported gone is never accepted again, whatever other
\* commands were under way with it.
LoggedOut ==
  \A t \in ended : registry[t] # "active"

\* Signed in means there is a credential, once nobody is at work and nobody was
\* killed at it.
SignedIn == prefs = "keychain" /\ keychain = Nothing => lock # Nothing \/ excused # {}

\* A profile token holds the grant of a page the owner saw and no authority of
\* a user; a user's authority comes from an approval alone.
GrantsShown ==
  \A t \in Tokens :
    /\ grant[t] # 0 => authority[t] = "none" /\ [token |-> t, revision |-> grant[t]] \in page
    /\ authority[t] = "user" => [token |-> t, revision |-> 0] \in page

LoginSound == LoginTypeOK /\ NoOrphan /\ LoggedOut /\ SignedIn /\ GrantsShown
=============================================================================
