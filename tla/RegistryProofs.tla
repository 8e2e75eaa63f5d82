--------------------------- MODULE RegistryProofs ---------------------------
(***************************************************************************)
(* Proofs about the registry contract.  The lemmas say what Push and       *)
(* SwapPop do to a list with positions; both lists of the contract are     *)
(* cases of them.                                                          *)
(***************************************************************************)
EXTENDS AssemblerRegistry, SequenceTheorems, TLAPS

Elements(list) == {list[i] : i \in 1..Len(list)}

(* A list of elements of S whose positions are right.                      *)
IndexedList(list, pos, S) ==
  /\ list \in Seq(S)
  /\ pos \in [S -> 0..Len(list)]
  /\ Indexed(list, pos, S)

(* A function on 1..n is a sequence of length n.                           *)
LEMMA FunctionIsSeq ==
  ASSUME NEW S, NEW n \in Nat, NEW f \in [1..n -> S]
  PROVE  f \in Seq(S) /\ Len(f) = n
<1>1. f \in Seq(S)
  BY SeqDef
<1>2. Len(f) \in Nat /\ 1..Len(f) = 1..n
  BY <1>1, LenProperties
<1> QED
  BY <1>1, <1>2

(* Pushing an element that has no position keeps the positions right, adds *)
(* it to the elements and changes no other element's being listed.         *)
LEMMA PushKeeps ==
  ASSUME NEW S, NEW list, NEW pos, IndexedList(list, pos, S),
         NEW x \in S, pos[x] = 0
  PROVE  /\ IndexedList(Pushed(list, x), PushedPos(pos, list, x), S)
         /\ Elements(Pushed(list, x)) = Elements(list) \cup {x}
         /\ \A y \in S : PushedPos(pos, list, x)[y] # 0 <=> pos[y] # 0 \/ y = x
<1> DEFINE new == Append(list, x)
           newPos == [pos EXCEPT ![x] = Len(list) + 1]
<1>1. /\ list \in Seq(S) /\ pos \in [S -> 0..Len(list)] /\ Len(list) \in Nat
      /\ \A i \in 1..Len(list) : list[i] \in S /\ pos[list[i]] = i
      /\ \A y \in S : pos[y] # 0 => list[pos[y]] = y
  BY DEF IndexedList, Indexed
<1>2. /\ new \in Seq(S) /\ Len(new) = Len(list) + 1
      /\ \A i \in 1..Len(list) : new[i] = list[i]
      /\ new[Len(list) + 1] = x
  BY <1>1, AppendProperties
<1> HIDE DEF new
<1>3. newPos \in [S -> 0..Len(new)]
  BY <1>1, <1>2
<1>4. \A i \in 1..Len(list) : list[i] # x
  BY <1>1
<1>5. \A i \in 1..Len(new) : newPos[new[i]] = i
  BY <1>1, <1>2, <1>4
<1>6. ASSUME NEW y \in S, newPos[y] # 0
      PROVE  new[newPos[y]] = y
  <2>1. CASE y = x
    BY <1>1, <1>2, <2>1
  <2>2. CASE y # x
    <3>1. newPos[y] = pos[y] /\ pos[y] \in 1..Len(list)
      BY <1>1, <1>6, <2>2
    <3> QED
      BY <1>1, <1>2, <3>1
  <2> QED
    BY <2>1, <2>2
<1>7. \A y \in S : newPos[y] # 0 <=> pos[y] # 0 \/ y = x
  BY <1>1
<1>8. Elements(new) = Elements(list) \cup {x}
  BY <1>1, <1>2 DEF Elements
<1> QED
  BY <1>2, <1>3, <1>5, <1>6, <1>7, <1>8 DEF IndexedList, Indexed, Pushed, PushedPos, new

(* Moving the last element to the place of the one that is removed keeps   *)
(* the positions right and takes exactly that one out.                     *)
LEMMA PopKeeps ==
  ASSUME NEW S, NEW list, NEW pos, IndexedList(list, pos, S),
         NEW x \in S, pos[x] # 0
  PROVE  /\ IndexedList(SwapPop(list, pos[x]), PoppedPos(pos, list, x), S)
         /\ Elements(SwapPop(list, pos[x])) = Elements(list) \ {x}
         /\ \A y \in S : PoppedPos(pos, list, x)[y] # 0 <=> pos[y] # 0 /\ y # x
<1> DEFINE n == Len(list)
           p == pos[x]
           last == list[n]
           new == [k \in 1..(n - 1) |-> IF k = p THEN last ELSE list[k]]
           newPos == [pos EXCEPT ![last] = p, ![x] = 0]
<1>1. /\ list \in Seq(S) /\ pos \in [S -> 0..n] /\ n \in Nat
      /\ \A i \in 1..n : list[i] \in S /\ pos[list[i]] = i
      /\ \A y \in S : pos[y] # 0 => list[pos[y]] = y
  BY DEF IndexedList, Indexed
<1>2. p \in 1..n /\ list[p] = x /\ n - 1 \in Nat
  BY <1>1
<1>3. last \in S /\ pos[last] = n
  BY <1>1, <1>2
<1>4. new \in [1..(n - 1) -> S]
  BY <1>1, <1>3
<1>5. new \in Seq(S) /\ Len(new) = n - 1
  BY <1>2, <1>4, FunctionIsSeq
<1>6. \A y \in S : newPos[y] = IF y = x THEN 0 ELSE IF y = last THEN p ELSE pos[y]
  BY <1>1, <1>3
<1>6a. newPos \in [S -> Nat]
  BY <1>1, <1>2, <1>3
<1>6b. \A k \in 1..(n - 1) : new[k] = IF k = p THEN last ELSE list[k]
  OBVIOUS
<1> HIDE DEF new, newPos
<1>7. ASSUME NEW y \in S, y # x
      PROVE  /\ newPos[y] # 0 <=> pos[y] # 0
             /\ newPos[y] \in 0..(n - 1)
             /\ newPos[y] # 0 => new[newPos[y]] = y
  <2>1. CASE y = last
    <3>1. p # n
      BY <1>2, <1>3, <1>7, <2>1
    <3>2. newPos[y] = p /\ p \in 1..(n - 1)
      BY <1>2, <1>6, <1>7, <2>1, <3>1
    <3>3. new[p] = last
      BY <1>6b, <3>2
    <3> QED
      BY <1>1, <1>2, <1>3, <2>1, <3>2, <3>3
  <2>2. CASE y # last
    <3>1. newPos[y] = pos[y] /\ pos[y] \in 0..n
      BY <1>1, <1>6, <1>7, <2>2
    <3>2. pos[y] # n
      BY <1>1, <1>2, <2>2
    <3>3. pos[y] # 0 => pos[y] \in 1..(n - 1) /\ pos[y] # p /\ list[pos[y]] = y
      BY <1>1, <1>2, <1>7, <3>1, <3>2
    <3>4. pos[y] # 0 => new[pos[y]] = y
      BY <1>6b, <3>3
    <3> QED
      BY <1>2, <3>1, <3>2, <3>4
  <2> QED
    BY <2>1, <2>2
<1>8. newPos[x] = 0
  BY <1>6
<1>9. newPos \in [S -> 0..(n - 1)]
  <2>1. \A y \in S : newPos[y] \in 0..(n - 1)
    BY <1>2, <1>7, <1>8
  <2> QED
    BY <1>6a, <2>1
<1>10. ASSUME NEW i \in 1..(n - 1)
       PROVE  newPos[new[i]] = i /\ new[i] # x /\ new[i] \in Elements(list)
  <2>1. CASE i = p
    <3>1. new[i] = last /\ last # x
      BY <1>2, <1>3, <1>6b, <2>1
    <3> QED
      BY <1>1, <1>2, <1>3, <1>6, <2>1, <3>1 DEF Elements
  <2>2. CASE i # p
    <3>1. new[i] = list[i] /\ i \in 1..n
      BY <1>1, <1>6b, <2>2
    <3>2. list[i] \in S /\ pos[list[i]] = i
      BY <1>1, <3>1
    <3>3. list[i] # x /\ list[i] # last
      BY <1>1, <1>3, <2>2, <3>2
    <3> QED
      BY <1>6, <3>1, <3>2, <3>3 DEF Elements
  <2> QED
    BY <2>1, <2>2
<1>11. Elements(new) = Elements(list) \ {x}
  <2>1. ASSUME NEW y \in Elements(new)
        PROVE  y \in Elements(list) \ {x}
    BY <1>5, <1>10, <2>1 DEF Elements
  <2>2. ASSUME NEW y \in Elements(list), y # x
        PROVE  y \in Elements(new)
    <3>1. y \in S /\ pos[y] # 0
      BY <1>1, <2>2 DEF Elements
    <3>2. newPos[y] \in 1..Len(new) /\ new[newPos[y]] = y
      BY <1>2, <1>5, <1>7, <2>2, <3>1
    <3> QED
      BY <3>2 DEF Elements
  <2> QED
    BY <2>1, <2>2
<1>12. IndexedList(new, newPos, S)
  BY <1>5, <1>7, <1>8, <1>9, <1>10 DEF IndexedList, Indexed
<1>13. \A y \in S : newPos[y] # 0 <=> pos[y] # 0 /\ y # x
  BY <1>7, <1>8
<1> QED
  BY <1>11, <1>12, <1>13 DEF SwapPop, PoppedPos, Last, new, newPos

-----------------------------------------------------------------------------
(* The inductive invariant, by the three parts of the storage.             *)

BootnodesOK ==
  /\ IndexedList(bootnodeIds, bootnodePos, BootnodeId)
  /\ bootnodes \in [BootnodeId -> Multiaddr \cup {NoEntry}]
  /\ \A b \in BootnodeId : bootnodes[b] # NoEntry <=> bootnodePos[b] # 0

ContactsOK ==
  /\ IndexedList(contacts, contactPos, Address)
  /\ isContact \in [Address -> BOOLEAN]
  /\ \A a \in Address : isContact[a] <=> contactPos[a] # 0

RequestsOK ==
  /\ requests \in Seq(Request)
  /\ pendingOf \in [Address -> 0..Len(requests)]
  /\ reviewedBy \subseteq (1..Len(requests)) \X Address
  /\ PendingIsOpen
  /\ OpenIsUnreviewed

IInv == owner \in Address /\ BootnodesOK /\ ContactsOK /\ RequestsOK

(* The parts together are the invariants the runs check.                   *)
LEMMA IInvImplies ==
  ASSUME IInv
  PROVE  TypeOK /\ ListsAgree /\ PendingIsOpen /\ OpenIsUnreviewed
BY DEF IInv, BootnodesOK, ContactsOK, RequestsOK, IndexedList, TypeOK, ListsAgree

(* The contract as it is deployed satisfies the invariant.                 *)
LEMMA InitIInv ==
  ASSUME Init
  PROVE  IInv
<1>1. BootnodesOK
  <2>1. << >> \in Seq(BootnodeId) /\ Len(<< >>) = 0
    BY EmptySeq
  <2> QED
    BY <2>1, RegistryAssumption DEF Init, BootnodesOK, IndexedList, Indexed
<1>2. ContactsOK
  <2>1. << Deployer >> \in Seq(Address) /\ Len(<< Deployer >>) = 1 /\ << Deployer >>[1] = Deployer
    BY RegistryAssumption
  <2>2. contacts \in Seq(Address) /\ Len(contacts) = 1 /\ contacts[1] = Deployer
    BY <2>1 DEF Init
  <2>3. /\ contactPos \in [Address -> 0..1]
        /\ \A a \in Address : contactPos[a] = IF a = Deployer THEN 1 ELSE 0
    BY DEF Init
  <2>4. Indexed(contacts, contactPos, Address)
    BY <2>2, <2>3, RegistryAssumption DEF Indexed
  <2>5. isContact = [a \in Address |-> a = Deployer]
    BY DEF Init
  <2>6. isContact \in [Address -> BOOLEAN]
    BY <2>5
  <2>7. ASSUME NEW a \in Address
        PROVE  isContact[a] <=> contactPos[a] # 0
    <3>1. isContact[a] <=> a = Deployer
      BY <2>5, Zenon
    <3>2. contactPos[a] # 0 <=> a = Deployer
      BY <2>3
    <3> QED
      BY <3>1, <3>2
  <2> QED
    BY <2>2, <2>3, <2>4, <2>6, <2>7 DEF ContactsOK, IndexedList
<1>3. RequestsOK
  <2>1. << >> \in Seq(Request) /\ Len(<< >>) = 0
    BY EmptySeq
  <2> QED
    BY <2>1 DEF Init, RequestsOK, PendingIsOpen, OpenIsUnreviewed
<1> QED
  BY <1>1, <1>2, <1>3, RegistryAssumption DEF Init, IInv

(* Elements of the list of contacts are the accounts isContact holds of.   *)
LEMMA Members ==
  ASSUME ContactsOK, NEW a \in Address
  PROVE  isContact[a] <=> a \in Elements(contacts)
BY DEF ContactsOK, IndexedList, Indexed, Elements

(* What the three operations on the lists leave of their parts.            *)
LEMMA EnlistKeeps ==
  ASSUME ContactsOK, NEW who \in Address, ~ isContact[who], Enlist(who)
  PROVE  ContactsOK' /\ Elements(contacts') = Elements(contacts) \cup {who}
<1>1. IndexedList(contacts, contactPos, Address) /\ contactPos[who] = 0
  BY DEF ContactsOK
<1>2. /\ IndexedList(contacts', contactPos', Address)
      /\ Elements(contacts') = Elements(contacts) \cup {who}
      /\ \A y \in Address : contactPos'[y] # 0 <=> contactPos[y] # 0 \/ y = who
  BY <1>1, PushKeeps DEF Enlist
<1> QED
  BY <1>2 DEF Enlist, ContactsOK

LEMMA RemoveContactKeeps ==
  ASSUME ContactsOK, NEW who \in Address, RemoveContact(who)
  PROVE  ContactsOK' /\ Elements(contacts') = Elements(contacts) \ {who}
<1>1. IndexedList(contacts, contactPos, Address) /\ contactPos[who] # 0
  BY DEF ContactsOK, RemoveContact
<1>2. /\ IndexedList(contacts', contactPos', Address)
      /\ Elements(contacts') = Elements(contacts) \ {who}
      /\ \A y \in Address : contactPos'[y] # 0 <=> contactPos[y] # 0 /\ y # who
  BY <1>1, PopKeeps DEF RemoveContact
<1> QED
  BY <1>2 DEF RemoveContact, ContactsOK

LEMMA UpsertBootnodeKeeps ==
  ASSUME BootnodesOK, NEW id \in BootnodeId, NEW addr \in Multiaddr, UpsertBootnode(id, addr)
  PROVE  BootnodesOK'
<1>1. IndexedList(bootnodeIds, bootnodePos, BootnodeId)
  BY DEF BootnodesOK
<1>2. bootnodes' = [bootnodes EXCEPT ![id] = addr] /\ addr # NoEntry
  BY RegistryAssumption DEF UpsertBootnode
<1>3. CASE bootnodePos[id] = 0
  <2>1. /\ IndexedList(bootnodeIds', bootnodePos', BootnodeId)
        /\ \A y \in BootnodeId : bootnodePos'[y] # 0 <=> bootnodePos[y] # 0 \/ y = id
    BY <1>1, <1>3, PushKeeps DEF UpsertBootnode
  <2> QED
    BY <1>2, <2>1 DEF BootnodesOK
<1>4. CASE bootnodePos[id] # 0
  BY <1>2, <1>4 DEF BootnodesOK, UpsertBootnode
<1> QED
  BY <1>3, <1>4

LEMMA RemoveBootnodeKeeps ==
  ASSUME BootnodesOK, NEW id \in BootnodeId, RemoveBootnode(id)
  PROVE  BootnodesOK'
<1>1. IndexedList(bootnodeIds, bootnodePos, BootnodeId) /\ bootnodePos[id] # 0
  BY DEF BootnodesOK, RemoveBootnode
<1>2. /\ IndexedList(bootnodeIds', bootnodePos', BootnodeId)
      /\ \A y \in BootnodeId : bootnodePos'[y] # 0 <=> bootnodePos[y] # 0 /\ y # id
  BY <1>1, PopKeeps DEF RemoveBootnode
<1> QED
  BY <1>2 DEF RemoveBootnode, BootnodesOK
-----------------------------------------------------------------------------
(* The requests.                                                           *)

(* A new request is open, unreviewed and the applicant's pending one.      *)
LEMMA SubmitKeeps ==
  ASSUME RequestsOK, NEW who \in Address, SubmitContactRequest(who)
  PROVE  RequestsOK'
<1> DEFINE new == [applicant |-> who, status |-> "Pending", reviewer |-> NoReviewer]
           n == Len(requests)
<1>1. requests \in Seq(Request) /\ n \in Nat /\ new \in Request /\ requests' = Append(requests, new)
  BY DEF RequestsOK, SubmitContactRequest, Request
<1>2. /\ requests' \in Seq(Request) /\ Len(requests') = n + 1
      /\ \A i \in 1..n : requests'[i] = requests[i]
      /\ requests'[n + 1] = new
  BY <1>1, AppendProperties
<1>3. DOMAIN requests = 1..n /\ DOMAIN requests' = 1..(n + 1)
  BY <1>1, <1>2, LenProperties
<1>4. requests'[n + 1].status = "Pending" /\ requests'[n + 1].applicant = who
  BY <1>2
<1>5. /\ pendingOf' = [pendingOf EXCEPT ![who] = n + 1]
      /\ pendingOf \in [Address -> 0..n]
      /\ reviewedBy' = reviewedBy /\ reviewedBy \subseteq (1..n) \X Address
  BY DEF RequestsOK, SubmitContactRequest
<1>6. PendingIsOpen'
  <2> SUFFICES ASSUME NEW a \in Address, pendingOf'[a] # 0
               PROVE  /\ pendingOf'[a] \in DOMAIN requests'
                      /\ requests'[pendingOf'[a]].status = "Pending"
                      /\ requests'[pendingOf'[a]].applicant = a
    BY DEF PendingIsOpen, Open
  <2>1. CASE a = who
    BY <1>1, <1>3, <1>4, <1>5, <2>1
  <2>2. CASE a # who
    <3>1. pendingOf'[a] = pendingOf[a] /\ pendingOf[a] \in 1..n
      BY <1>1, <1>5, <2>2
    <3>2. requests[pendingOf[a]].status = "Pending" /\ requests[pendingOf[a]].applicant = a
      BY <3>1 DEF RequestsOK, PendingIsOpen, Open
    <3> QED
      BY <1>1, <1>2, <1>3, <3>1, <3>2
  <2> QED
    BY <2>1, <2>2
<1>7. OpenIsUnreviewed'
  <2> SUFFICES ASSUME NEW i \in 1..(n + 1), Open(i)', NEW a \in Address
               PROVE  <<i, a>> \notin reviewedBy
    BY <1>2, <1>5 DEF OpenIsUnreviewed
  <2>1. CASE i = n + 1
    BY <1>1, <1>5, <2>1
  <2>2. CASE i \in 1..n
    BY <1>2, <1>3, <2>2 DEF RequestsOK, OpenIsUnreviewed, Open
  <2> QED
    BY <1>1, <2>1, <2>2
<1>8. pendingOf' \in [Address -> 0..Len(requests')]
  BY <1>1, <1>2, <1>5
<1>9. reviewedBy' \subseteq (1..Len(requests')) \X Address
  BY <1>1, <1>2, <1>5
<1> QED
  BY <1>2, <1>6, <1>7, <1>8, <1>9 DEF RequestsOK

(* Closing a request, with or without a review of it, leaves no pending    *)
(* entry that points at it.                                                *)
LEMMA CloseKeeps ==
  ASSUME RequestsOK, NEW id, Open(id), NEW status \in Closed,
         NEW reviewer \in Address \cup {NoReviewer}, Close(id, status, reviewer),
         NEW r \in Address, reviewedBy' \in {reviewedBy, reviewedBy \cup {<<id, r>>}}
  PROVE  RequestsOK'
<1> DEFINE n == Len(requests)
           app == requests[id].applicant
<1>1. /\ requests \in Seq(Request) /\ n \in Nat /\ id \in 1..n
      /\ \A i \in 1..n : requests[i] \in Request
  BY DEF RequestsOK, Open
<1>2. app \in Address
  BY <1>1 DEF Request
<1>3. requests' = [requests EXCEPT ![id] = [requests[id] EXCEPT !.status = status,
                                                             !.reviewer = reviewer]]
  BY <1>1 DEF Close, Request
<1>4. [requests[id] EXCEPT !.status = status, !.reviewer = reviewer] \in Request
  BY <1>1 DEF Request
<1>5. /\ requests' \in Seq(Request) /\ Len(requests') = n
      /\ requests'[id].status = status
      /\ \A i \in 1..n : requests'[i].applicant = requests[i].applicant
      /\ \A i \in 1..n : i # id => requests'[i] = requests[i]
  <2>1. requests' \in Seq(Request) /\ Len(requests') = n
    BY <1>1, <1>3, <1>4, ExceptSeq
  <2>2. \A i \in 1..n : requests'[i] = IF i = id
          THEN [requests[id] EXCEPT !.status = status, !.reviewer = reviewer] ELSE requests[i]
    BY <1>1, <1>3
  <2> QED
    BY <1>1, <2>1, <2>2 DEF Request
<1>6. /\ DOMAIN requests = 1..n /\ DOMAIN requests' = 1..n
      /\ requests'[id].status # "Pending"
  BY <1>1, <1>5, LenProperties DEF Closed
<1>7. /\ pendingOf \in [Address -> 0..n]
      /\ \A a \in Address : pendingOf'[a] = IF a = app /\ pendingOf[a] = id THEN 0 ELSE pendingOf[a]
      /\ pendingOf' \in [Address -> 0..n]
  BY <1>1, <1>2 DEF RequestsOK, Close
<1>8. PendingIsOpen'
  <2> SUFFICES ASSUME NEW a \in Address, pendingOf'[a] # 0
               PROVE  /\ pendingOf'[a] \in DOMAIN requests'
                      /\ requests'[pendingOf'[a]].status = "Pending"
                      /\ requests'[pendingOf'[a]].applicant = a
    BY DEF PendingIsOpen, Open
  <2>1. pendingOf'[a] = pendingOf[a] /\ pendingOf[a] \in 1..n
    BY <1>1, <1>7
  <2>2. requests[pendingOf[a]].status = "Pending" /\ requests[pendingOf[a]].applicant = a
    BY <2>1 DEF RequestsOK, PendingIsOpen, Open
  <2>3. pendingOf[a] # id
    BY <1>1, <1>7, <2>1, <2>2
  <2> QED
    BY <1>5, <1>6, <2>1, <2>2, <2>3
<1>9. OpenIsUnreviewed'
  <2> SUFFICES ASSUME NEW i \in 1..n, Open(i)', NEW a \in Address
               PROVE  <<i, a>> \notin reviewedBy'
    BY <1>5 DEF OpenIsUnreviewed
  <2>1. i # id /\ Open(i)
    BY <1>5, <1>6 DEF Open
  <2>2. <<i, a>> \notin reviewedBy
    BY <2>1 DEF RequestsOK, OpenIsUnreviewed
  <2> QED
    BY <2>1, <2>2
<1>10. reviewedBy' \subseteq (1..n) \X Address
  BY <1>1 DEF RequestsOK
<1> QED
  BY <1>5, <1>7, <1>8, <1>9, <1>10 DEF RequestsOK
-----------------------------------------------------------------------------
(* Every transaction keeps the invariant.                                  *)
LEMMA StepIInv ==
  ASSUME IInv, [Next]_vars
  PROVE  IInv'
<1>1. owner \in Address /\ BootnodesOK /\ ContactsOK /\ RequestsOK
  BY DEF IInv
<1>2. ASSUME UNCHANGED bootnodeVars
      PROVE  BootnodesOK'
  BY <1>1, <1>2 DEF BootnodesOK, bootnodeVars
<1>3. ASSUME UNCHANGED contactVars
      PROVE  ContactsOK'
  BY <1>1, <1>3 DEF ContactsOK, contactVars
<1>4. ASSUME UNCHANGED requestVars
      PROVE  RequestsOK'
  BY <1>1, <1>4 DEF RequestsOK, requestVars, PendingIsOpen, OpenIsUnreviewed, Open
<1>5. CASE UNCHANGED vars
  BY <1>1, <1>2, <1>3, <1>4, <1>5 DEF vars, IInv
<1>6. ASSUME NEW a \in Address, TransferOwnership(a)
      PROVE  IInv'
  BY <1>1, <1>2, <1>3, <1>4, <1>6 DEF TransferOwnership, IInv
<1>7. ASSUME NEW a \in Address, AddContact(a)
      PROVE  IInv'
  <2>1. ContactsOK'
    BY <1>1, <1>7, EnlistKeeps DEF AddContact
  <2> QED
    BY <1>1, <1>2, <1>4, <1>7, <2>1 DEF AddContact, IInv
<1>8. ASSUME NEW a \in Address, RemoveContact(a)
      PROVE  IInv'
  <2>1. ContactsOK'
    BY <1>1, <1>8, RemoveContactKeeps
  <2>2. RequestsOK'
    <3>1. /\ requests' = requests /\ reviewedBy' = reviewedBy
          /\ pendingOf' = [pendingOf EXCEPT ![a] = 0]
      BY <1>8 DEF RemoveContact
    <3>2. pendingOf' \in [Address -> 0..Len(requests)]
      BY <1>1, <3>1, LenProperties DEF RequestsOK
    <3>3. PendingIsOpen'
      BY <1>1, <3>1 DEF RequestsOK, PendingIsOpen, Open
    <3> QED
      BY <1>1, <3>1, <3>2, <3>3 DEF RequestsOK, OpenIsUnreviewed, Open
  <2> QED
    BY <1>1, <1>2, <1>8, <2>1, <2>2 DEF RemoveContact, IInv
<1>9. ASSUME NEW a \in Address, SubmitContactRequest(a)
      PROVE  IInv'
  <2>1. RequestsOK'
    BY <1>1, <1>9, SubmitKeeps
  <2> QED
    BY <1>1, <1>2, <1>3, <1>9, <2>1 DEF SubmitContactRequest, IInv
<1>10. ASSUME NEW b \in BootnodeId, NEW m \in Multiaddr, UpsertBootnode(b, m)
       PROVE  IInv'
  <2>1. BootnodesOK'
    BY <1>1, <1>10, UpsertBootnodeKeeps
  <2> QED
    BY <1>1, <1>3, <1>4, <1>10, <2>1 DEF UpsertBootnode, IInv
<1>11. ASSUME NEW b \in BootnodeId, RemoveBootnode(b)
       PROVE  IInv'
  <2>1. BootnodesOK'
    BY <1>1, <1>11, RemoveBootnodeKeeps
  <2> QED
    BY <1>1, <1>3, <1>4, <1>11, <2>1 DEF RemoveBootnode, IInv
<1>12. ASSUME NEW id, NEW status \in Closed, Review(id, status)
       PROVE  RequestsOK' /\ BootnodesOK' /\ owner' \in Address
  <2>1. RequestsOK'
    BY <1>1, <1>12, CloseKeeps DEF Review
  <2> QED
    BY <1>1, <1>2, <1>12, <2>1 DEF Review
<1>13. ASSUME NEW id \in 1..Len(requests), ApproveRequest(id)
       PROVE  IInv'
  <2>1. RequestsOK' /\ BootnodesOK' /\ owner' \in Address
    BY <1>12, <1>13 DEF ApproveRequest, Closed
  <2>2. requests[id].applicant \in Address
    <3>1. requests[id] \in Request
      BY <1>1, <1>13, ElementOfSeq DEF RequestsOK
    <3> QED
      BY <3>1 DEF Request
  <2>3. ContactsOK'
    BY <1>1, <1>3, <1>13, <2>2, EnlistKeeps DEF ApproveRequest
  <2> QED
    BY <2>1, <2>3 DEF IInv
<1>14. ASSUME NEW id \in 1..Len(requests), RejectRequest(id)
       PROVE  IInv'
  BY <1>3, <1>12, <1>14 DEF RejectRequest, Closed, IInv
<1>15. ASSUME NEW id \in 1..Len(requests), CancelMyPendingRequest(id)
       PROVE  IInv'
  <2>1. RequestsOK'
    BY <1>1, <1>15, CloseKeeps, RegistryAssumption DEF CancelMyPendingRequest, Closed
  <2> QED
    BY <1>1, <1>2, <1>3, <1>15, <2>1 DEF CancelMyPendingRequest, IInv
<1> QED
  BY <1>5, <1>6, <1>7, <1>8, <1>9, <1>10, <1>11, <1>13, <1>14, <1>15 DEF Next

(* The invariant holds in every reachable state of the contract.           *)
THEOREM Inductive == Spec => []IInv
<1>1. Init => IInv
  BY InitIInv
<1>2. IInv /\ [Next]_vars => IInv'
  BY StepIInv
<1> QED
  BY <1>1, <1>2, PTL DEF Spec

(* Storage stays well typed and no stored position ever lies outside its   *)
(* list.                                                                   *)
THEOREM TypeCorrect == Spec => []TypeOK
<1>1. IInv => TypeOK
  BY IInvImplies
<1> QED
  BY <1>1, Inductive, PTL

(* Lists, positions, isContact and bootnode entries never disagree.        *)
THEOREM ListsCorrect == Spec => []ListsAgree
<1>1. IInv => ListsAgree
  BY IInvImplies
<1> QED
  BY <1>1, Inductive, PTL

(* No pending entry points at a closed request or at someone else's.       *)
THEOREM PendingCorrect == Spec => []PendingIsOpen
<1>1. IInv => PendingIsOpen
  BY IInvImplies
<1> QED
  BY <1>1, Inductive, PTL

(* The check that reverts with AlreadyReviewed never fires.                *)
THEOREM ReviewsCorrect == Spec => []OpenIsUnreviewed
<1>1. IInv => OpenIsUnreviewed
  BY IInvImplies
<1> QED
  BY <1>1, Inductive, PTL
-----------------------------------------------------------------------------
(* A request that was decided or cancelled stays as it is, in every step   *)
(* of every behaviour.                                                     *)
THEOREM ClosedStaysClosed == Spec => ClosedIsFinal
<1> DEFINE Final == \A id \in 1..Len(requests) :
                      requests[id].status \in Closed => requests'[id] = requests[id]
<1>1. ASSUME IInv, [Next]_vars
      PROVE  Final
  <2> SUFFICES ASSUME NEW id \in 1..Len(requests), requests[id].status \in Closed
               PROVE  requests'[id] = requests[id]
    OBVIOUS
  <2>1. requests \in Seq(Request)
    BY <1>1 DEF IInv, RequestsOK
  <2>2. ~ Open(id)
    BY DEF Open, Closed
  <2>3. CASE requests' = requests
    BY <2>3
  <2>4. ASSUME NEW a \in Address, SubmitContactRequest(a)
        PROVE  requests'[id] = requests[id]
    <3>1. \E r \in Request : requests' = Append(requests, r)
      BY <2>4 DEF SubmitContactRequest, Request
    <3> QED
      BY <2>1, <3>1, AppendProperties
  <2>5. ASSUME NEW i, Open(i), NEW s, NEW r, Close(i, s, r)
        PROVE  requests'[id] = requests[id]
    <3>1. i # id
      BY <2>2, <2>5
    <3> QED
      BY <2>1, <2>5, <3>1, LenProperties DEF Close
  <2> QED
    BY <1>1, <2>3, <2>4, <2>5
    DEF Next, vars, requestVars, TransferOwnership, AddContact, RemoveContact, UpsertBootnode,
        RemoveBootnode, ApproveRequest, RejectRequest, CancelMyPendingRequest, Review
<1>2. Spec => [][Final]_vars
  BY <1>1, Inductive, PTL DEF Spec
<1> QED
  BY <1>2 DEF ClosedIsFinal

-----------------------------------------------------------------------------
(* The refinement: the contract implements ContactBook.                    *)

Verdicts == [id \in 1..Len(requests) |-> [applicant |-> requests[id].applicant,
                                          verdict |-> requests[id].status]]

(* Closing a request decides it in the book.                               *)
LEMMA CloseDecides ==
  ASSUME RequestsOK, NEW id \in 1..Len(requests), Open(id),
         NEW status \in Closed, NEW reviewer, Close(id, status, reviewer)
  PROVE  /\ Verdicts[id].verdict = "Pending"
         /\ Verdicts[id].applicant = requests[id].applicant
         /\ Verdicts' = [Verdicts EXCEPT ![id].verdict = status]
         /\ Len(Verdicts) = Len(requests)
<1>1. /\ requests \in Seq(Request) /\ Len(requests) \in Nat
      /\ DOMAIN requests = 1..Len(requests)
      /\ \A i \in 1..Len(requests) : requests[i] \in Request
  BY LenProperties DEF RequestsOK
<1>2. /\ DOMAIN requests' = 1..Len(requests)
      /\ \A i \in 1..Len(requests) : i # id => requests'[i] = requests[i]
      /\ requests'[id].status = status /\ requests'[id].applicant = requests[id].applicant
  BY <1>1 DEF Close, Request
<1>3. Len(requests') = Len(requests)
  BY <1>1 DEF Close
<1>4. Verdicts' = [Verdicts EXCEPT ![id].verdict = status]
  BY <1>1, <1>2, <1>3 DEF Verdicts
<1> QED
  BY <1>1, <1>4 DEF Verdicts, Open

(* A submitted request is appended to the book.                            *)
LEMMA SubmitApplies ==
  ASSUME RequestsOK, NEW who \in Address, SubmitContactRequest(who)
  PROVE  Verdicts' = Append(Verdicts, [applicant |-> who, verdict |-> "Pending"])
<1> DEFINE new == [applicant |-> who, status |-> "Pending", reviewer |-> NoReviewer]
           n == Len(requests)
<1>1. requests \in Seq(Request) /\ n \in Nat /\ new \in Request /\ requests' = Append(requests, new)
  BY DEF RequestsOK, SubmitContactRequest, Request
<1>2. /\ Len(requests') = n + 1
      /\ \A i \in 1..n : requests'[i] = requests[i]
      /\ requests'[n + 1] = new
  BY <1>1, AppendProperties
<1> DEFINE V == [applicant : Address, verdict : {"Pending"} \cup Closed]
           v == [applicant |-> who, verdict |-> "Pending"]
<1>3. Verdicts \in Seq(V) /\ Len(Verdicts) = n
  <2>1. \A i \in 1..n : requests[i] \in Request
    BY <1>1
  <2>2. Verdicts \in [1..n -> V]
    BY <2>1 DEF Verdicts, Request
  <2> QED
    BY <1>1, <2>2, FunctionIsSeq
<1>4. /\ Append(Verdicts, v) \in Seq(V) /\ Len(Append(Verdicts, v)) = n + 1
      /\ \A i \in 1..n : Append(Verdicts, v)[i] = Verdicts[i]
      /\ Append(Verdicts, v)[n + 1] = v
  BY <1>3, AppendProperties
<1>5. Append(Verdicts, v) = [i \in 1..(n + 1) |-> Append(Verdicts, v)[i]]
  BY <1>4, LenProperties
<1>6. \A i \in 1..(n + 1) : Append(Verdicts, v)[i] =
        [applicant |-> requests'[i].applicant, verdict |-> requests'[i].status]
  <2>1. \A i \in 1..n : Verdicts[i] =
          [applicant |-> requests[i].applicant, verdict |-> requests[i].status]
    BY DEF Verdicts
  <2> QED
    BY <1>1, <1>2, <1>4, <2>1
<1>7. Verdicts' = [i \in 1..(n + 1) |-> Append(Verdicts, v)[i]]
  BY <1>2, <1>6 DEF Verdicts
<1> QED
  BY <1>5, <1>7

(* Every step of the contract is a step of the book or leaves it alone.    *)
LEMMA StepBook ==
  ASSUME IInv, [Next]_vars
  PROVE  [Book!Next]_(Book!vars)
<1> DEFINE M == Elements(contacts)
           M1 == Elements(contacts')
<1>1. ContactsOK /\ RequestsOK /\ BootnodesOK
  BY DEF IInv
<1>2. \A a \in Address : isContact[a] <=> a \in M
  BY <1>1, Members
<1>3. CASE contacts' = contacts /\ bootnodes' = bootnodes /\ requests' = requests
  BY <1>3 DEF Book!vars
<1>4. ASSUME NEW a \in Address, AddContact(a)
      PROVE  Book!Next
  <2>1. a \notin M /\ M1 = M \cup {a}
    BY <1>1, <1>2, <1>4, EnlistKeeps DEF AddContact
  <2>2. Book!Join(a)
    BY <1>4, <2>1 DEF Book!Join, AddContact, Elements, bootnodeVars, requestVars
  <2> QED
    BY <2>2 DEF Book!Next
<1>5. ASSUME NEW a \in Address, RemoveContact(a)
      PROVE  Book!Next
  <2>1. a \in M /\ M1 = M \ {a}
    BY <1>1, <1>2, <1>5, RemoveContactKeeps DEF RemoveContact, ContactsOK
  <2>2. Book!Leave(a)
    BY <1>5, <2>1 DEF Book!Leave, RemoveContact, Elements, bootnodeVars
  <2> QED
    BY <2>2 DEF Book!Next
<1>6. ASSUME NEW a \in Address, SubmitContactRequest(a)
      PROVE  Book!Next
  <2>1. a \notin M
    BY <1>2, <1>6 DEF SubmitContactRequest
  <2>2. Verdicts' = Append(Verdicts, [applicant |-> a, verdict |-> "Pending"])
    BY <1>1, <1>6, SubmitApplies
  <2>3. Book!Apply(a)
    BY <1>6, <2>1, <2>2
    DEF Book!Apply, SubmitContactRequest, Elements, Verdicts, bootnodeVars, contactVars
  <2> QED
    BY <2>3 DEF Book!Next
<1>7. ASSUME NEW b \in BootnodeId, NEW m \in Multiaddr, UpsertBootnode(b, m)
      PROVE  Book!Next
  <2>1. Book!List(b, m)
    BY <1>7 DEF Book!List, UpsertBootnode, contactVars, requestVars
  <2> QED
    BY <2>1 DEF Book!Next
<1>8. ASSUME NEW b \in BootnodeId, RemoveBootnode(b)
      PROVE  Book!Next
  <2>1. Book!List(b, NoEntry)
    BY <1>8 DEF Book!List, RemoveBootnode, contactVars, requestVars
  <2> QED
    BY <2>1 DEF Book!Next
<1>9. ASSUME NEW id \in 1..Len(requests), NEW status \in Closed, NEW reviewer, Open(id),
             Close(id, status, reviewer), bootnodes' = bootnodes,
             M1 = IF status = "Approved" THEN M \cup {requests[id].applicant} ELSE M
      PROVE  Book!Next
  <2>1. /\ Verdicts[id].verdict = "Pending"
        /\ Verdicts[id].applicant = requests[id].applicant
        /\ Verdicts' = [Verdicts EXCEPT ![id].verdict = status]
        /\ Len(Verdicts) = Len(requests)
    BY <1>1, <1>9, CloseDecides
  <2>2. Book!Decide(id, status)
    BY <1>9, <2>1 DEF Book!Decide, Verdicts, Elements
  <2> QED
    BY <2>1, <2>2 DEF Book!Next, Closed, Verdicts
<1>10. ASSUME NEW id \in 1..Len(requests), ApproveRequest(id)
       PROVE  Book!Next
  <2>1. requests[id].applicant \in Address
    <3>1. requests[id] \in Request
      BY <1>1, ElementOfSeq DEF RequestsOK
    <3> QED
      BY <3>1 DEF Request
  <2>2. M1 = M \cup {requests[id].applicant}
    BY <1>1, <1>2, <1>10, <2>1, EnlistKeeps DEF ApproveRequest, contactVars
  <2> QED
    BY <1>9, <1>10, <2>2 DEF ApproveRequest, Review, Closed, bootnodeVars
<1>11. ASSUME NEW id \in 1..Len(requests), RejectRequest(id)
       PROVE  Book!Next
  BY <1>9, <1>11 DEF RejectRequest, Review, Closed, bootnodeVars, contactVars
<1>12. ASSUME NEW id \in 1..Len(requests), CancelMyPendingRequest(id)
       PROVE  Book!Next
  BY <1>9, <1>12 DEF CancelMyPendingRequest, Closed, bootnodeVars, contactVars
<1>13. ASSUME NEW a \in Address, TransferOwnership(a)
       PROVE  [Book!Next]_(Book!vars)
  BY <1>3, <1>13 DEF TransferOwnership, bootnodeVars, contactVars, requestVars
<1>14. CASE UNCHANGED vars
  BY <1>3, <1>14 DEF vars, bootnodeVars, contactVars, requestVars
<1> QED
  BY <1>4, <1>5, <1>6, <1>7, <1>8, <1>10, <1>11, <1>12, <1>13, <1>14 DEF Next

(* For any accounts, bootnodes and number of requests, the contract        *)
(* implements the book: ImplementsBook is the formula the run checks.      *)
THEOREM Implements == Spec => ImplementsBook
<1>1. Init => Book!Init
  <2> SUFFICES ASSUME Init
               PROVE  Book!Init
    OBVIOUS
  <2>1. Elements(<< Deployer >>) = {Deployer}
    BY DEF Elements
  <2>2. Len(<< >>) = 0
    OBVIOUS
  <2> QED
    BY <2>1, <2>2 DEF Init, Book!Init, Elements
<1>2. IInv /\ [Next]_vars => [Book!Next]_(Book!vars)
  BY StepBook
<1> QED
  BY <1>1, <1>2, Inductive, PTL DEF Spec, ImplementsBook, Book!Spec
=============================================================================
