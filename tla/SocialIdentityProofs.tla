-------------------------- MODULE SocialIdentityProofs --------------------------
(***************************************************************************)
(* Proofs about SocialIdentity, for any wallets, any number of identities  *)
(* and of restarts, and whatever writes fail or tear.                      *)
(***************************************************************************)
EXTENDS SocialIdentity, FiniteSetTheorems, TLAPS

(* A profile is neither missing nor a file's lack of content.              *)
LEMMA Distinct ==
  /\ NoProfile \notin Profile
  /\ Absent \notin Profile /\ Torn \notin Profile /\ Absent # Torn
  /\ NoKeys \notin UserIds /\ Absent \notin UserIds /\ Torn \notin UserIds
<1>1. Absent \notin Nat /\ Torn \notin Nat
  BY IdentityAssumption
<1>2. NoKeys \notin UserIds /\ UserIds \subseteq Nat
  BY IdentityAssumption DEF NoKeys, UserIds
<1>3. ASSUME NoProfile \in Profile PROVE FALSE
  <2>1. NoProfile.user \in UserIds
    BY <1>3 DEF Profile
  <2> QED BY <2>1, <1>2 DEF NoProfile
<1> QED BY <1>1, <1>2, <1>3, IdentityAssumption

(* What a readable file holds is what was written to it.                   *)
LEMMA FileContents ==
  ASSUME NEW f
  PROVE  /\ f \in UserIds => Keys(f) = f
         /\ f \in UserIds \cup Unreadable => Keys(f) \in UserIds \cup {NoKeys}
         /\ f \in UserIds \cup Unreadable /\ Keys(f) # NoKeys => f = Keys(f)
         /\ f \in Profile => SavedProfile(f) = f
         /\ f \in Profile \cup Unreadable => SavedProfile(f) \in Profile \cup {NoProfile}
         /\ f \in Profile \cup Unreadable /\ SavedProfile(f) # NoProfile
              => f \in Profile /\ SavedProfile(f) = f
BY Distinct DEF Keys, SavedProfile, Unreadable

-----------------------------------------------------------------------------
LEMMA IdentityInitType == Init => TypeOK
<1>1. 0 \in 0..MaxIds /\ 0 \in 0..MaxRestarts
  BY IdentityAssumption
<1> QED BY <1>1 DEF Init, TypeOK, Unreadable

(* What a handler that is about to write has in memory.                    *)
Ready ==
  /\ pc \in {"login", "init", "state", "relogin"} => profile # NoProfile /\ identity # NoKeys
  /\ pc = "save" => profile # NoProfile

LEMMA Generated ==
  ASSUME TypeOK, NEW w \in Wallets, NEW n, Generate(w, n)
  PROVE  /\ profile' \in Profile /\ profile'.user = identity' /\ identity' \in UserIds
         /\ made' \in 0..MaxIds /\ pc' = n
BY IdentityAssumption DEF TypeOK, Generate, Profile, UserIds

LEMMA IdentityNextType == ASSUME TypeOK, Ready, [Next]_vars PROVE TypeOK'
<1> USE FileContents DEF TypeOK, memory, files
<1>1. ASSUME NEW w \in Wallets, LoginNew(w) PROVE TypeOK'
  BY Generated, <1>1 DEF LoginNew
<1>2. ASSUME NEW w \in Wallets, LoginAgain(w) PROVE TypeOK'
  BY <1>2 DEF LoginAgain, PlainKeys
<1>3. ASSUME NEW w \in Wallets, InitProfile(w) PROVE TypeOK'
  BY Generated, <1>3 DEF InitProfile
<1>4. ASSUME NEW w \in Wallets, UpdateProfile(w) PROVE TypeOK'
  <2>1. profile \in Profile
    BY <1>4 DEF UpdateProfile
  <2>2. profile' \in Profile
    BY <1>4, <2>1 DEF UpdateProfile, Profile
  <2> QED BY <1>4, <2>2 DEF UpdateProfile
<1>5. CASE Unlock
  BY <1>5 DEF Unlock, UnlockedKeys, Started
<1>6. CASE SomeSave
  BY <1>6 DEF SomeSave
<1>7. CASE WriteIdentity
  BY <1>7 DEF WriteIdentity, Ready
<1>8. CASE IdentityWriteFails
  BY <1>8 DEF IdentityWriteFails, FailedContent, Unreadable
<1>9. CASE WriteState
  <2>1. profile \in Profile /\ profile.user \in UserIds
    BY <1>9 DEF WriteState, Ready, Profile
  <2>2. running' \in BOOLEAN
    BY <1>9 DEF WriteState, Started
  <2> QED BY <1>9, <2>1, <2>2 DEF WriteState
<1>10. CASE StateWriteFails
  <2>1. profile \in Profile /\ profile.user \in UserIds
    BY <1>10 DEF StateWriteFails, Ready, Profile
  <2>2. stateFile' \in Profile \cup Unreadable
    BY <1>10 DEF StateWriteFails, FailedContent, Unreadable
  <2>3. running' \in BOOLEAN
    BY <1>10 DEF StateWriteFails, Started
  <2> QED BY <1>10, <2>1, <2>2, <2>3 DEF StateWriteFails
<1>11. CASE Restart
  <2>1. /\ stateFile' \in Profile \cup Unreadable
        /\ plainFile' \in UserIds \cup Unreadable
        /\ encFile' \in UserIds \cup Unreadable
    BY <1>11 DEF Restart, Torns, Unreadable
  <2>2. identity' \in UserIds \cup {NoKeys}
    BY <1>11, <2>1 DEF Restart
  <2>3. restarts' \in 0..MaxRestarts
    BY <1>11, IdentityAssumption DEF Restart
  <2>4. profile' \in Profile \cup {NoProfile}
    BY <1>11, <2>1 DEF Restart
  <2> QED BY <1>11, <2>1, <2>2, <2>3, <2>4 DEF Restart
<1>12. CASE UNCHANGED vars
  BY <1>12 DEF vars
<1> QED
  BY <1>1, <1>2, <1>3, <1>4, <1>5, <1>6, <1>7, <1>8, <1>9, <1>10, <1>11, <1>12 DEF Next

(* A loop that runs has a profile and keys.                                *)
LoopReady == running => profile # NoProfile /\ identity # NoKeys

LEMMA ReadyInit == Init => Ready /\ LoopReady
BY DEF Init, Ready, LoopReady

LEMMA ReadyNext ==
  ASSUME TypeOK, Ready, LoopReady, [Next]_vars
  PROVE  Ready' /\ LoopReady'
<1> USE DEF Ready, LoopReady, memory
<1>1. ASSUME NEW w \in Wallets, LoginNew(w) PROVE Ready' /\ LoopReady'
  BY Generated, Distinct, <1>1 DEF LoginNew
<1>2. ASSUME NEW w \in Wallets, LoginAgain(w) PROVE Ready' /\ LoopReady'
  BY <1>2 DEF LoginAgain, PlainKeys
<1>3. ASSUME NEW w \in Wallets, InitProfile(w) PROVE Ready' /\ LoopReady'
  BY Generated, Distinct, <1>3 DEF InitProfile
<1>4. ASSUME NEW w \in Wallets, UpdateProfile(w) PROVE Ready' /\ LoopReady'
  <2>1. profile \in Profile
    BY <1>4 DEF UpdateProfile, TypeOK
  <2>2. profile' # NoProfile
    BY <1>4, <2>1, Distinct DEF UpdateProfile, Profile
  <2> QED BY <1>4, <2>2 DEF UpdateProfile
<1>5. CASE Unlock
  BY <1>5 DEF Unlock, UnlockedKeys, Started
<1>6. CASE SomeSave
  BY <1>6 DEF SomeSave
<1>7. CASE WriteIdentity
  BY <1>7 DEF WriteIdentity
<1>8. CASE IdentityWriteFails
  BY <1>8 DEF IdentityWriteFails
<1>9. CASE WriteState
  BY <1>9 DEF WriteState, Started
<1>10. CASE StateWriteFails
  BY <1>10 DEF StateWriteFails, Started
<1>11. CASE Restart
  BY <1>11 DEF Restart
<1>12. CASE UNCHANGED vars
  BY <1>12 DEF vars
<1> QED
  BY <1>1, <1>2, <1>3, <1>4, <1>5, <1>6, <1>7, <1>8, <1>9, <1>10, <1>11, <1>12 DEF Next

LEMMA ReadyAlways == Spec => [](TypeOK /\ Ready /\ LoopReady)
<1>1. Init => TypeOK /\ Ready /\ LoopReady
  BY IdentityInitType, ReadyInit
<1>2. TypeOK /\ Ready /\ LoopReady /\ [Next]_vars => (TypeOK /\ Ready /\ LoopReady)'
  BY IdentityNextType, ReadyNext
<1> QED BY <1>1, <1>2, PTL DEF Spec

(* A manager has a whole profile or none, and returns only users it has    *)
(* generated keys for (NewManager, LoginWithWallet, Init).                 *)
THEOREM IdentityTypeCorrect == Spec => []TypeOK
BY ReadyAlways, PTL

(* Whatever writes fail or tear, and however logins, inits and unlocks are *)
(* mixed, a live process keeps the user of its profile and the keys its    *)
(* loop was started with (LoginWithWallet, Init, unlock, startLoopLocked). *)
THEOREM LiveUserFixed == Spec => SignsAsOne
<1>1. ASSUME TypeOK, LoopReady, [Next]_vars, restarts' = restarts
      PROVE  /\ profile # NoProfile => profile'.user = profile.user
             /\ running => running' /\ identity' = identity
  <2> USE <1>1 DEF LoopReady, memory
  <2> DEFINE Same == /\ profile # NoProfile => profile'.user = profile.user
                     /\ running => running' /\ identity' = identity
  <2>1. ASSUME NEW w \in Wallets, LoginNew(w) PROVE Same
    BY <2>1 DEF LoginNew
  <2>2. ASSUME NEW w \in Wallets, LoginAgain(w) PROVE Same
    BY <2>2 DEF LoginAgain, PlainKeys
  <2>3. ASSUME NEW w \in Wallets, InitProfile(w) PROVE Same
    BY <2>3 DEF InitProfile
  <2>4. ASSUME NEW w \in Wallets, UpdateProfile(w) PROVE Same
    <3>1. profile \in Profile
      BY <2>4 DEF UpdateProfile, TypeOK
    <3>2. profile'.user = profile.user
      BY <2>4, <3>1 DEF UpdateProfile, Profile
    <3> QED BY <2>4, <3>2 DEF UpdateProfile
  <2>5. CASE Unlock
    BY <2>5 DEF Unlock, UnlockedKeys, Started
  <2>6. CASE SomeSave
    BY <2>6 DEF SomeSave
  <2>7. CASE WriteIdentity
    BY <2>7 DEF WriteIdentity
  <2>8. CASE IdentityWriteFails
    BY <2>8 DEF IdentityWriteFails
  <2>9. CASE WriteState
    BY <2>9 DEF WriteState, Started
  <2>10. CASE StateWriteFails
    BY <2>10 DEF StateWriteFails, Started
  <2>11. CASE Restart
    BY <2>11 DEF Restart, TypeOK
  <2>12. CASE UNCHANGED vars
    BY <2>12 DEF vars
  <2> QED
    BY <2>1, <2>2, <2>3, <2>4, <2>5, <2>6, <2>7, <2>8, <2>9, <2>10, <2>11, <2>12 DEF Next
<1>2. TypeOK /\ LoopReady /\ [Next]_vars =>
        [restarts' = restarts =>
           /\ profile # NoProfile => profile'.user = profile.user
           /\ running => running' /\ identity' = identity]_vars
  BY <1>1
<1> QED BY <1>2, ReadyAlways, PTL DEF Spec, SignsAsOne

-----------------------------------------------------------------------------
(* A profile in state.json is the one in memory, and the keys were written *)
(* before it: only before they are does a profile wait for its keys, and   *)
(* then there is none in state.json.                                       *)
FilesAgree ==
  /\ stateFile \notin Unreadable => /\ profile # NoProfile
                                   /\ stateFile.user = profile.user
                                   /\ pc \notin {"login", "init"}
  /\ profile # NoProfile =>
       IF pc \in {"login", "init"} THEN identity = profile.user
       ELSE profile.user \in {Keys(plainFile), Keys(encFile)}

(* The wallet writes identity.json, the passphrase identity.enc.json.      *)
OneKeyFile ==
  /\ ways = {"wallet"} => encFile = Absent /\ pc # "init"
  /\ ways = {"passphrase"} => plainFile = Absent /\ pc # "login"

Paired ==
  Cardinality(ways) = 1 /\ profile # NoProfile /\ identity # NoKeys => identity = profile.user

(* With whole writes, the user ids returned are that of state.json.        *)
ShownAgree ==
  harm = {} => /\ Torn # stateFile
               /\ \A u \in shown : stateFile # Absent /\ u = stateFile.user

(* What holds as long as no write has returned an error.                   *)
WholeInv == NoneFailed => FilesAgree /\ OneKeyFile /\ Paired /\ ShownAgree

(* One way in is the wallet or the passphrase.                             *)
LEMMA OneWay ==
  ASSUME TypeOK, Cardinality(ways) = 1
  PROVE  ways = {"wallet"} \/ ways = {"passphrase"}
<1>1. ways \subseteq {"wallet", "passphrase"}
  BY IdentityAssumption DEF TypeOK
<1>2. ways # {}
  BY FS_EmptySet
<1>3. ways # {"wallet", "passphrase"}
  <2>1. IsFiniteSet({"wallet"}) /\ Cardinality({"wallet"}) = 1
    BY FS_Singleton
  <2>2. Cardinality({"wallet"} \cup {"passphrase"}) = 2
    BY <2>1, FS_AddElement, "passphrase" \notin {"wallet"}
  <2>3. {"wallet"} \cup {"passphrase"} = {"wallet", "passphrase"}
    OBVIOUS
  <2> QED BY <2>2, <2>3
<1> QED BY <1>1, <1>2, <1>3

LEMMA WholeInit == Init => WholeInv
BY Distinct
DEF Init, WholeInv, FilesAgree, OneKeyFile, Paired, ShownAgree, Unreadable

(* What a file holds after a crash.                                        *)
LEMMA TornFile ==
  ASSUME NEW f, NEW g, NEW b \in BOOLEAN, g \in Torns(f, b)
  PROVE  /\ g = f \/ g = Torn
         /\ ~ b => g = f
         /\ g \notin Unreadable => g = f
BY DEF Torns, Unreadable

LEMMA WholeNext ==
  ASSUME TypeOK, TypeOK', Ready, WholeInv, [Next]_vars
  PROVE  WholeInv'
<1> SUFFICES ASSUME NoneFailed' PROVE WholeInv'
  BY DEF WholeInv
<1> USE DEF memory, files
<1>a. UNCHANGED ways /\ harm \subseteq harm'
  BY DEF Next, vars, LoginNew, LoginAgain, InitProfile, Unlock, UpdateProfile, SomeSave,
         WriteIdentity, IdentityWriteFails, WriteState, StateWriteFails, Restart
<1>b. NoneFailed
  BY <1>a DEF NoneFailed
<1>d. FilesAgree /\ OneKeyFile /\ Paired /\ ShownAgree
  BY <1>b DEF WholeInv
<1>e. Cardinality(ways) = 1 => ways = {"wallet"} \/ ways = {"passphrase"}
  BY OneWay
<1>f. profile # NoProfile => profile.user # NoKeys
  BY Distinct DEF TypeOK, Profile
<1> DEFINE Inv == FilesAgree /\ OneKeyFile /\ Paired /\ ShownAgree
<1> SUFFICES Inv'
  BY DEF WholeInv
<1> USE <1>a, <1>d, <1>e, Distinct DEF FilesAgree, OneKeyFile, Paired, ShownAgree
<1>1. ASSUME NEW w \in Wallets, LoginNew(w) PROVE Inv'
  BY Generated, <1>1 DEF LoginNew, Unreadable, TypeOK
<1>2. ASSUME NEW w \in Wallets, LoginAgain(w) PROVE Inv'
  <2>1. ASSUME Cardinality(ways) = 1, identity = NoKeys, identity' # NoKeys
        PROVE  identity' = profile.user
    <3>1. "wallet" \in ways /\ profile # NoProfile /\ pc = "idle"
      BY <1>2 DEF LoginAgain
    <3>2. encFile = Absent
      BY <1>e, <2>1, <3>1
    <3>3. identity' = Keys(plainFile) /\ Keys(encFile) = NoKeys
      BY <1>2, <2>1, <3>2 DEF LoginAgain, PlainKeys, Keys, Unreadable
    <3> QED BY <2>1, <3>1, <3>3, <1>f
  <2>2. Paired'
    BY <1>2, <2>1 DEF LoginAgain, PlainKeys
  <2> QED BY <1>2, <2>2 DEF LoginAgain, PlainKeys
<1>3. ASSUME NEW w \in Wallets, InitProfile(w) PROVE Inv'
  BY Generated, <1>3 DEF InitProfile, Unreadable, TypeOK
<1>4. ASSUME NEW w \in Wallets, UpdateProfile(w) PROVE Inv'
  <2>1. profile \in Profile
    BY <1>4 DEF UpdateProfile, TypeOK
  <2>2. profile'.user = profile.user /\ profile # NoProfile /\ profile' # NoProfile
    BY <1>4, <2>1 DEF UpdateProfile, Profile
  <2> QED BY <1>4, <2>2 DEF UpdateProfile
<1>5. CASE Unlock
  <2>1. ASSUME Cardinality(ways) = 1, identity = NoKeys, profile # NoProfile
        PROVE  identity' = profile.user
    <3>1. "passphrase" \in ways /\ pc = "idle" /\ identity' # NoKeys
      BY <1>5 DEF Unlock
    <3>2. plainFile = Absent
      BY <1>e, <2>1, <3>1
    <3>3. identity' = Keys(encFile) /\ Keys(plainFile) = NoKeys
      BY <1>5, <2>1, <3>2 DEF Unlock, UnlockedKeys, Keys, Unreadable
    <3> QED BY <2>1, <3>1, <3>3, <1>f
  <2>2. Paired'
    BY <1>5, <2>1 DEF Unlock, UnlockedKeys
  <2> QED BY <1>5, <2>2 DEF Unlock
<1>6. CASE SomeSave
  BY <1>6 DEF SomeSave
<1>7. CASE WriteIdentity
  <2>1. identity \in UserIds /\ identity = profile.user /\ profile # NoProfile
    BY <1>7 DEF WriteIdentity, Ready, TypeOK
  <2>2. Keys(identity) = identity
    BY <2>1, FileContents
  <2>3. FilesAgree'
    BY <1>7, <2>1, <2>2 DEF WriteIdentity
  <2> QED BY <1>7, <2>1, <2>3 DEF WriteIdentity
<1>8. CASE IdentityWriteFails
  BY <1>8 DEF IdentityWriteFails, NoneFailed
<1>9. CASE WriteState
  <2>1. profile \in Profile /\ profile \notin Unreadable
    BY <1>9 DEF WriteState, Ready, TypeOK, Unreadable
  <2>2. harm = {} => \A u \in shown : u = profile.user
    BY DEF Unreadable
  <2> QED BY <1>9, <2>1, <2>2 DEF WriteState, Ready, Unreadable
<1>10. CASE StateWriteFails
  BY <1>10 DEF StateWriteFails, NoneFailed
<1>11. CASE Restart
  <2>1. /\ stateFile' = stateFile \/ stateFile' = Torn
        /\ plainFile' = plainFile \/ plainFile' = Torn
        /\ encFile' = encFile \/ encFile' = Torn
        /\ pc \notin {"login", "init"} => UNCHANGED <<plainFile, encFile>>
    <3>1. /\ stateFile' \in Torns(stateFile, pc \in {"state", "relogin", "save"})
          /\ plainFile' \in Torns(plainFile, pc = "login")
          /\ encFile' \in Torns(encFile, pc = "init")
      BY <1>11 DEF Restart
    <3> QED BY <3>1 DEF Torns
  <2>2. IF stateFile' \in Unreadable THEN profile' = NoProfile
        ELSE profile' = stateFile' /\ stateFile' = stateFile
    BY <1>11, <2>1 DEF Restart, SavedProfile, Unreadable
  <2>3. stateFile \notin Unreadable => stateFile \in Profile
    BY DEF TypeOK
  <2>4. FilesAgree'
    BY <1>11, <2>1, <2>2, <2>3 DEF Restart
  <2>5. pc' = "idle" /\ (harm' = {} => harm = {} /\ UNCHANGED <<files, shown>>)
    BY <1>11 DEF Restart
  <2>6. ASSUME ways = {"wallet"} PROVE encFile' = Absent
    BY <2>6, <1>11, TornFile DEF Restart
  <2>7. ASSUME ways = {"passphrase"} PROVE plainFile' = Absent
    BY <2>7, <1>11, TornFile DEF Restart
  <2>8. OneKeyFile'
    BY <2>5, <2>6, <2>7
  <2>9. identity' = Keys(plainFile') \/ identity' = Keys(encFile')
    BY <1>11 DEF Restart
  <2>10. ASSUME Cardinality(ways) = 1, profile' # NoProfile, identity' # NoKeys
         PROVE  identity' = profile'.user
    <3>1. profile'.user \in {Keys(plainFile'), Keys(encFile')} /\ profile'.user # NoKeys
      BY <2>2, <2>3, <2>4, <2>5, <2>10 DEF Profile
    <3>2. Keys(Absent) = NoKeys
      BY DEF Keys, Unreadable
    <3> QED BY <2>6, <2>7, <2>9, <2>10, <3>1, <3>2
  <2>11. ShownAgree'
    BY <2>5
  <2> QED BY <2>4, <2>8, <2>10, <2>11
<1>12. CASE UNCHANGED vars
  BY <1>12 DEF vars
<1> QED
  BY <1>1, <1>2, <1>3, <1>4, <1>5, <1>6, <1>7, <1>8, <1>9, <1>10, <1>11, <1>12 DEF Next

LEMMA WholeAlways == Spec => [](TypeOK /\ WholeInv)
<1>1. Init => WholeInv
  BY WholeInit
<1>2. TypeOK /\ TypeOK' /\ Ready /\ WholeInv /\ [Next]_vars => WholeInv'
  BY WholeNext
<1> QED BY <1>1, <1>2, ReadyAlways, PTL DEF Spec

(* With one way in and no write that fails, a profile is never paired with *)
(* the keys of another identity, whatever crash fell between the two files *)
(* or tore one (LoginWithWallet, Init, NewManager).                        *)
THEOREM NeverMixed == Spec => []SameUser
<1>1. WholeInv => SameUser
  BY DEF WholeInv, Paired, SameUser
<1> QED BY <1>1, WholeAlways, PTL

(* The keys of a profile in state.json are in one of the identity files,   *)
(* in any mix of logins, inits and torn files: saveIdentityPlainLocked and *)
(* saveIdentity come before saveStateLocked.                               *)
THEOREM KeysAreSaved == Spec => []ProfileHasKeys
<1>1. ASSUME TypeOK, WholeInv PROVE ProfileHasKeys
  <2> SUFFICES ASSUME NoneFailed, SavedProfile(stateFile) # NoProfile
               PROVE  SavedProfile(stateFile).user \in {Keys(plainFile), Keys(encFile)}
    BY DEF ProfileHasKeys
  <2>1. stateFile \in Profile /\ SavedProfile(stateFile) = stateFile
    BY <1>1, FileContents DEF TypeOK
  <2>2. stateFile \notin Unreadable
    BY <2>1, Distinct DEF Unreadable
  <2> QED BY <1>1, <2>1, <2>2 DEF WholeInv, FilesAgree
<1> QED BY <1>1, WholeAlways, PTL

(* As long as every write was whole, logins and inits in any order return  *)
(* one user id for the life of a data directory (LoginWithWallet, Init).   *)
THEOREM UserKeepsId == Spec => []OneUser
<1>1. ASSUME WholeInv PROVE OneUser
  <2> SUFFICES ASSUME harm = {} PROVE Cardinality(shown) <= 1
    BY DEF OneUser
  <2>1. shown \subseteq {stateFile.user}
    BY <1>1 DEF WholeInv, ShownAgree, NoneFailed
  <2>2. IsFiniteSet({stateFile.user}) /\ Cardinality({stateFile.user}) = 1
    BY FS_Singleton
  <2> QED BY <2>1, <2>2, FS_Subset
<1> QED BY <1>1, WholeAlways, PTL
=============================================================================
