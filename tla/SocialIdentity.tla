--------------------------- MODULE SocialIdentity ---------------------------
(***************************************************************************)
(* How one social manager (internal/social/manager.go) gets, saves and     *)
(* reloads its profile and its keys.                                       *)
(*                                                                         *)
(* There are three files: state.json with the profile, identity.json with  *)
(* the keys in the clear (wallet login) and identity.enc.json with the     *)
(* keys under a passphrase (init and unlock).  A handler holds m.mu for    *)
(* its whole run and writes one file after the other with os.WriteFile,    *)
(* which truncates before it writes.  Keys are named by the user id        *)
(* derived from them; the nth identity a manager generates is n.           *)
(***************************************************************************)
EXTENDS Integers, FiniteSets

CONSTANTS
  Wallets,      \* wallet addresses
  Flows,        \* which combinations of "wallet" and "passphrase" are used
  MaxIds,       \* bound: identities generated
  MaxRestarts,  \* bound: crashes with restart
  WritesTear,   \* a crash during a write leaves a truncated file
  WritesFail,   \* a write may return an error
  Absent,       \* the content of a file that is not there
  Torn          \* the content of a file that does not parse

VARIABLES
  profile,    \* m.profile, or NoProfile
  identity,   \* m.identity, or NoKeys
  running,    \* m.cancel # nil: the receive loop and the ticker run
  pc,         \* which write the handler inside m.mu has come to
  stateFile,  \* state.json
  plainFile,  \* identity.json
  encFile,    \* identity.enc.json
  made,       \* identities generated so far
  restarts,   \* restarts so far
  shown,      \* the user ids that logins and inits have returned
  ways,       \* the ways in that are used with this data directory
  harm        \* what has befallen writes: "failed", or "torn" by a crash

vars == <<profile, identity, running, pc, stateFile, plainFile, encFile,
          made, restarts, shown, ways, harm>>
memory == <<profile, identity, running>>
files  == <<stateFile, plainFile, encFile>>

-----------------------------------------------------------------------------
UserIds   == 1..MaxIds
NoKeys    == 0
Profile   == [user : UserIds, wallet : Wallets]
NoProfile == [user |-> NoKeys, wallet |-> Absent]

ASSUME IdentityAssumption ==
  /\ Flows \subseteq SUBSET {"wallet", "passphrase"}
  /\ MaxIds \in Nat /\ MaxRestarts \in Nat
  /\ WritesTear \in BOOLEAN /\ WritesFail \in BOOLEAN
  /\ Absent # Torn
  /\ {Absent, Torn} \cap (Nat \cup Profile) = {}

Unreadable == {Absent, Torn}
Keys(file) == IF file \in Unreadable THEN NoKeys ELSE file

(* Variants: a missing file is not told from a profile; the file is not    *)
(* read.                                                                   *)
RawProfile(sf)    == IF sf = Torn THEN NoProfile ELSE sf
ForgetProfile(sf) == NoProfile

SavedProfile(sf) == IF sf \in Unreadable THEN NoProfile ELSE sf

(* The manager's profile is a whole profile or none, whatever NewManager   *)
(* found in state.json, and only known users are returned.                 *)
TypeOK ==
  /\ profile \in Profile \cup {NoProfile}
  /\ identity \in UserIds \cup {NoKeys}
  /\ running \in BOOLEAN
  /\ pc \in {"idle", "login", "init", "state", "relogin", "save"}
  /\ stateFile \in Profile \cup Unreadable
  /\ plainFile \in UserIds \cup Unreadable
  /\ encFile \in UserIds \cup Unreadable
  /\ made \in 0..MaxIds /\ restarts \in 0..MaxRestarts
  /\ shown \subseteq UserIds
  /\ ways \in Flows /\ harm \subseteq {"failed", "torn"}

(* An empty data directory.                                                *)
Init ==
  /\ profile = NoProfile /\ identity = NoKeys /\ running = FALSE /\ pc = "idle"
  /\ stateFile = Absent /\ plainFile = Absent /\ encFile = Absent
  /\ made = 0 /\ restarts = 0 /\ shown = {}
  /\ ways \in Flows /\ harm = {}

-----------------------------------------------------------------------------
(* Variants: keys that are loaded already are kept; the identity file is   *)
(* left for later.                                                         *)
GenerateKeepKeys(w, next) ==
  /\ made < MaxIds
  /\ made' = made + 1
  /\ profile' = [user |-> made + 1, wallet |-> w]
  /\ identity' = IF identity = NoKeys THEN made + 1 ELSE identity
  /\ pc' = next

GenerateStateFirst(w, next) ==
  /\ made < MaxIds
  /\ made' = made + 1
  /\ profile' = [user |-> made + 1, wallet |-> w]
  /\ identity' = made + 1
  /\ pc' = "state"

(* A new profile with fresh keys, in memory only; "next" is the write that *)
(* follows.                                                                *)
Generate(w, next) ==
  /\ made < MaxIds
  /\ made' = made + 1
  /\ profile' = [user |-> made + 1, wallet |-> w]
  /\ identity' = made + 1
  /\ pc' = next

(* loadIdentityPlainLocked: the keys after it, if it returns no error.     *)
PlainKeys == IF identity = NoKeys THEN Keys(plainFile) ELSE identity

(* LoginWithWallet.  A torn identity.json is an error unless the keys are  *)
(* in memory already; a missing one is not.                                *)
LoginNew(w) ==
  /\ "wallet" \in ways /\ pc = "idle"
  /\ identity # NoKeys \/ plainFile # Torn
  /\ profile = NoProfile
  /\ Generate(w, "login")
  /\ UNCHANGED <<running, files, restarts, shown, ways, harm>>

LoginAgain(w) ==
  /\ "wallet" \in ways /\ pc = "idle"
  /\ identity # NoKeys \/ plainFile # Torn
  /\ profile # NoProfile
  /\ identity' = PlainKeys
  /\ pc' = IF profile.wallet = w /\ identity' # NoKeys THEN "relogin" ELSE "idle"
  /\ UNCHANGED <<profile, running, files, made, restarts, shown, ways, harm>>

(* Init with a passphrase.                                                 *)
InitProfile(w) ==
  /\ "passphrase" \in ways /\ pc = "idle"
  /\ profile = NoProfile
  /\ Generate(w, "init")
  /\ UNCHANGED <<running, files, restarts, shown, ways, harm>>

(* startLoopLocked: the loop and the ticker start once, and only with a    *)
(* profile and keys.                                                       *)
Started(p, keys) == running \/ (p # NoProfile /\ keys # NoKeys)

(* Variant: the keys in memory are not looked at.                          *)
OpenedKeys == Keys(encFile)

(* unlock: the right passphrase opens what is in identity.enc.json, unless *)
(* the keys are in memory already.                                         *)
UnlockedKeys == IF identity = NoKeys THEN Keys(encFile) ELSE identity

Unlock ==
  /\ "passphrase" \in ways /\ pc = "idle"
  /\ UnlockedKeys # NoKeys
  /\ identity' = UnlockedKeys
  /\ running' = Started(profile, identity')
  /\ UNCHANGED <<profile, pc, files, made, restarts, shown, ways, harm>>

(* UpdateProfile, which may change the wallet address.                     *)
UpdateProfile(w) ==
  /\ pc = "idle"
  /\ profile # NoProfile
  /\ profile' = [profile EXCEPT !.wallet = w]
  /\ pc' = "save"
  /\ UNCHANGED <<identity, running, files, made, restarts, shown, ways, harm>>

(* Any other handler or loop step that ends in saveStateLocked (Social).   *)
SomeSave ==
  /\ pc = "idle" /\ running
  /\ pc' = "save"
  /\ UNCHANGED <<memory, files, made, restarts, shown, ways, harm>>

-----------------------------------------------------------------------------
(* The writes.  One that fails may have truncated the file.                *)

FailedContent(old) == {old, Torn}

WriteIdentity ==
  /\ \/ pc = "login" /\ plainFile' = identity /\ UNCHANGED encFile
     \/ pc = "init" /\ encFile' = identity /\ UNCHANGED plainFile
  /\ pc' = "state"
  /\ UNCHANGED <<memory, stateFile, made, restarts, shown, ways, harm>>

(* saveIdentity returned an error: so does the handler, with the profile   *)
(* and the keys left in memory and the loop not started.                   *)
IdentityWriteFails ==
  /\ WritesFail
  /\ \/ pc = "login" /\ plainFile' \in FailedContent(plainFile) /\ UNCHANGED encFile
     \/ pc = "init" /\ encFile' \in FailedContent(encFile) /\ UNCHANGED plainFile
  /\ pc' = "idle" /\ harm' = harm \cup {"failed"}
  /\ UNCHANGED <<memory, stateFile, made, restarts, shown, ways>>

(* saveStateLocked, and what its callers do after it: a login or an init   *)
(* starts the loop and returns the user id.                                *)
WriteState ==
  /\ pc \in {"state", "relogin", "save"}
  /\ stateFile' = profile
  /\ running' = IF pc = "save" THEN running ELSE Started(profile, identity)
  /\ shown' = IF pc = "save" THEN shown ELSE shown \cup {profile.user}
  /\ pc' = "idle"
  /\ UNCHANGED <<profile, identity, plainFile, encFile, made, restarts, ways, harm>>

(* A second login ignores the error; the others return it or are done.     *)
StateWriteFails ==
  /\ WritesFail
  /\ pc \in {"state", "relogin", "save"}
  /\ stateFile' \in FailedContent(stateFile)
  /\ running' = IF pc = "relogin" THEN Started(profile, identity) ELSE running
  /\ shown' = IF pc = "relogin" THEN shown \cup {profile.user} ELSE shown
  /\ pc' = "idle" /\ harm' = harm \cup {"failed"}
  /\ UNCHANGED <<profile, identity, plainFile, encFile, made, restarts, ways>>

-----------------------------------------------------------------------------
(* What a crash leaves of the file being written.                          *)
Torns(file, writing) == IF writing /\ WritesTear THEN {file, Torn} ELSE {file}

(* NewManager: loadState, then loadIdentityPlainLocked; their errors are   *)
(* ignored.  The passphrase of the configuration, if any, is tried last.   *)
Restart ==
  /\ restarts < MaxRestarts
  /\ restarts' = restarts + 1
  /\ stateFile' \in Torns(stateFile, pc \in {"state", "relogin", "save"})
  /\ plainFile' \in Torns(plainFile, pc = "login")
  /\ encFile' \in Torns(encFile, pc = "init")
  /\ profile' = SavedProfile(stateFile')
  /\ \/ identity' = Keys(plainFile')
     \/ /\ Keys(plainFile') = NoKeys /\ "passphrase" \in ways
        /\ identity' = Keys(encFile')
  /\ running' = (profile' # NoProfile /\ identity' # NoKeys)
  /\ pc' = "idle"
  /\ harm' = IF files' = files THEN harm ELSE harm \cup {"torn"}
  /\ UNCHANGED <<made, shown, ways>>

Next ==
  \/ \E w \in Wallets : \/ LoginNew(w)
                        \/ LoginAgain(w)
                        \/ InitProfile(w)
                        \/ UpdateProfile(w)
  \/ Unlock
  \/ SomeSave
  \/ WriteIdentity
  \/ IdentityWriteFails
  \/ WriteState
  \/ StateWriteFails
  \/ Restart

Spec == Init /\ [][Next]_vars

-----------------------------------------------------------------------------
(* Properties.                                                             *)
NoneFailed == "failed" \notin harm

(* The manager signs and decrypts with the keys of the user its profile    *)
(* names: whatever crash fell between the two files or tore one of them, a *)
(* reloaded profile is never paired with the keys of another identity, in  *)
(* a data directory that is used with one way in and where no write fails. *)
SameUser ==
  /\ NoneFailed /\ Cardinality(ways) = 1
  /\ profile # NoProfile /\ identity # NoKeys
  => identity = profile.user

(* A profile that was saved can be used again after a restart: one of the  *)
(* identity files holds its keys, in whatever order logins, inits and      *)
(* crashes that tear files come, as long as no write returns an error.     *)
ProfileHasKeys ==
  NoneFailed /\ SavedProfile(stateFile) # NoProfile =>
    SavedProfile(stateFile).user \in {Keys(plainFile), Keys(encFile)}

(* Logins and inits on one data directory, in any order, return one and    *)
(* the same user id across restarts, as long as every write was whole.     *)
OneUser == harm = {} => Cardinality(shown) <= 1

(* Whatever writes fail or were torn, and however logins, inits and        *)
(* unlocks are mixed, a process that has a profile keeps its user, also    *)
(* through a login that failed and is tried again; and it never goes on    *)
(* with other keys than those its loop was started with.                   *)
SignsAsOne ==
  [][restarts' = restarts =>
       /\ profile # NoProfile => profile'.user = profile.user
       /\ running => running' /\ identity' = identity]_vars
=============================================================================
