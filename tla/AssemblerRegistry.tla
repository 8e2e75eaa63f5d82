-------------------------- MODULE AssemblerRegistry --------------------------
(***************************************************************************)
(* The registry contract of the social application                         *)
(* (contracts/AssemblerRegistry.sol): bootnodes, contacts and requests to  *)
(* become a contact.                                                       *)
(*                                                                         *)
(* A transaction is one step; one that reverts changes nothing, and is not *)
(* a step.  Neither list keeps an order: an element is removed by moving   *)
(* the last one into its place, so that every element's position is stored *)
(* as well.  Notes, times and events are left out, and so is the zero      *)
(* address, which every operation refuses.                                 *)
(***************************************************************************)
EXTENDS Integers, Sequences

CONSTANTS
  Address,      \* accounts
  Deployer,     \* the account that deployed the contract
  BootnodeId,   \* bootnode ids
  Multiaddr,    \* bootnode addresses
  NoEntry,      \* the entry of a bootnode id that is not there
  NoReviewer,   \* the reviewer of a request nobody has reviewed
  MaxRequests   \* bound: requests submitted

ASSUME RegistryAssumption ==
  /\ Deployer \in Address
  /\ NoEntry \notin Multiaddr
  /\ NoReviewer \notin Address
  /\ MaxRequests \in Nat

VARIABLES
  owner,        \* owner
  bootnodeIds,  \* _bootnodeIds
  bootnodePos,  \* _bootnodePosPlusOne
  bootnodes,    \* _bootnodes
  contacts,     \* _contacts
  contactPos,   \* _contactPosPlusOne
  isContact,    \* isContact
  requests,     \* _requests[1 .. nextRequestId - 1]
  pendingOf,    \* pendingRequestIdOf
  reviewedBy    \* the true entries of reviewedBy

bootnodeVars == <<bootnodeIds, bootnodePos, bootnodes>>
contactVars  == <<contacts, contactPos, isContact>>
requestVars  == <<requests, pendingOf, reviewedBy>>
vars == <<owner, bootnodeVars, contactVars, requestVars>>

Closed  == {"Approved", "Rejected", "Cancelled"}
Request == [applicant : Address, status : {"Pending"} \cup Closed,
            reviewer : Address \cup {NoReviewer}]

-----------------------------------------------------------------------------
(* A list with the positions of its elements; position 0 is none.          *)

Pushed(list, x)       == Append(list, x)
PushedPos(pos, list, x) == [pos EXCEPT ![x] = Len(list) + 1]

Last(list) == list[Len(list)]

(* Variants: the place before the last one is moved; the moved element     *)
(* keeps its old position; the removed element keeps its position.         *)
PopTooFar(list, i) ==
  [k \in 1..(Len(list) - 1) |-> IF k = i THEN list[Len(list) - 1] ELSE list[k]]
MovedKeepsPos(pos, list, x) == [pos EXCEPT ![x] = 0]
RemovedKeepsPos(pos, list, x) == [pos EXCEPT ![Last(list)] = pos[x]]

SwapPop(list, i) ==
  [k \in 1..(Len(list) - 1) |-> IF k = i THEN Last(list) ELSE list[k]]

PoppedPos(pos, list, x) == [pos EXCEPT ![Last(list)] = pos[x], ![x] = 0]

Init ==
  /\ owner = Deployer
  /\ bootnodeIds = << >>
  /\ bootnodePos = [b \in BootnodeId |-> 0]
  /\ bootnodes = [b \in BootnodeId |-> NoEntry]
  /\ contacts = << Deployer >>
  /\ contactPos = [a \in Address |-> IF a = Deployer THEN 1 ELSE 0]
  /\ isContact = [a \in Address |-> a = Deployer]
  /\ requests = << >>
  /\ pendingOf = [a \in Address |-> 0]
  /\ reviewedBy = {}

-----------------------------------------------------------------------------
TransferOwnership(new) ==
  /\ owner' = new
  /\ UNCHANGED <<bootnodeVars, contactVars, requestVars>>

UpsertBootnode(id, addr) ==
  /\ IF bootnodePos[id] = 0
       THEN /\ bootnodeIds' = Pushed(bootnodeIds, id)
            /\ bootnodePos' = PushedPos(bootnodePos, bootnodeIds, id)
       ELSE UNCHANGED <<bootnodeIds, bootnodePos>>
  /\ bootnodes' = [bootnodes EXCEPT ![id] = addr]
  /\ UNCHANGED <<owner, contactVars, requestVars>>

RemoveBootnode(id) ==
  /\ bootnodePos[id] # 0
  /\ bootnodeIds' = SwapPop(bootnodeIds, bootnodePos[id])
  /\ bootnodePos' = PoppedPos(bootnodePos, bootnodeIds, id)
  /\ bootnodes' = [bootnodes EXCEPT ![id] = NoEntry]
  /\ UNCHANGED <<owner, contactVars, requestVars>>

(* _addContact                                                             *)
Enlist(who) ==
  /\ isContact' = [isContact EXCEPT ![who] = TRUE]
  /\ contacts' = Pushed(contacts, who)
  /\ contactPos' = PushedPos(contactPos, contacts, who)

AddContact(who) ==
  /\ ~ isContact[who]
  /\ Enlist(who)
  /\ UNCHANGED <<owner, bootnodeVars, requestVars>>

RemoveContact(who) ==
  /\ contactPos[who] # 0
  /\ contacts' = SwapPop(contacts, contactPos[who])
  /\ contactPos' = PoppedPos(contactPos, contacts, who)
  /\ isContact' = [isContact EXCEPT ![who] = FALSE]
  /\ pendingOf' = [pendingOf EXCEPT ![who] = 0]
  /\ UNCHANGED <<owner, bootnodeVars, requests, reviewedBy>>

-----------------------------------------------------------------------------
SubmitContactRequest(who) ==
  /\ Len(requests) < MaxRequests
  /\ ~ isContact[who]
  /\ pendingOf[who] = 0
  /\ requests' = Append(requests, [applicant |-> who, status |-> "Pending",
                                   reviewer |-> NoReviewer])
  /\ pendingOf' = [pendingOf EXCEPT ![who] = Len(requests) + 1]
  /\ UNCHANGED <<owner, bootnodeVars, contactVars, reviewedBy>>

(* Variant: what was decided may be decided again.                         *)
Redecidable(id) == id \in DOMAIN requests

Open(id) == id \in DOMAIN requests /\ requests[id].status = "Pending"

(* Variants: the status is forgotten; the applicant's pending entry stays. *)
CloseKeepStatus(id, status, reviewer) ==
  /\ requests' = [requests EXCEPT ![id].reviewer = reviewer]
  /\ pendingOf' = [pendingOf EXCEPT
       ![requests[id].applicant] = IF @ = id THEN 0 ELSE @]

CloseKeepPending(id, status, reviewer) ==
  /\ requests' = [requests EXCEPT ![id].status = status, ![id].reviewer = reviewer]
  /\ UNCHANGED pendingOf

Close(id, status, reviewer) ==
  /\ requests' = [requests EXCEPT ![id].status = status, ![id].reviewer = reviewer]
  /\ pendingOf' = [pendingOf EXCEPT
       ![requests[id].applicant] = IF @ = id THEN 0 ELSE @]

Review(id, status) ==
  /\ Open(id)
  /\ <<id, owner>> \notin reviewedBy
  /\ reviewedBy' = reviewedBy \cup {<<id, owner>>}
  /\ Close(id, status, owner)
  /\ UNCHANGED <<owner, bootnodeVars>>

ApproveRequest(id) ==
  /\ Review(id, "Approved")
  /\ IF isContact[requests[id].applicant]
       THEN UNCHANGED contactVars
       ELSE Enlist(requests[id].applicant)

RejectRequest(id) ==
  /\ Review(id, "Rejected")
  /\ UNCHANGED contactVars

(* By the applicant, who is the sender.                                    *)
CancelMyPendingRequest(id) ==
  /\ Open(id)
  /\ Close(id, "Cancelled", NoReviewer)
  /\ UNCHANGED <<owner, bootnodeVars, contactVars, reviewedBy>>

Next ==
  \/ \E a \in Address : \/ TransferOwnership(a)
                        \/ AddContact(a)
                        \/ RemoveContact(a)
                        \/ SubmitContactRequest(a)
  \/ \E b \in BootnodeId : \/ \E m \in Multiaddr : UpsertBootnode(b, m)
                           \/ RemoveBootnode(b)
  \/ \E id \in 1..Len(requests) : \/ ApproveRequest(id)
                                  \/ RejectRequest(id)
                                  \/ CancelMyPendingRequest(id)

Spec == Init /\ [][Next]_vars

-----------------------------------------------------------------------------
(* Properties.                                                             *)

(* The storage is well typed, and no stored position lies outside its      *)
(* list: reads by position never revert.                                   *)
TypeOK ==
  /\ owner \in Address
  /\ bootnodeIds \in Seq(BootnodeId)
  /\ bootnodePos \in [BootnodeId -> 0..Len(bootnodeIds)]
  /\ bootnodes \in [BootnodeId -> Multiaddr \cup {NoEntry}]
  /\ contacts \in Seq(Address)
  /\ contactPos \in [Address -> 0..Len(contacts)]
  /\ isContact \in [Address -> BOOLEAN]
  /\ requests \in Seq(Request)
  /\ pendingOf \in [Address -> 0..Len(requests)]
  /\ reviewedBy \subseteq (1..Len(requests)) \X Address

Indexed(list, pos, S) ==
  /\ \A i \in 1..Len(list) : pos[list[i]] = i
  /\ \A x \in S : pos[x] # 0 => list[pos[x]] = x

(* Each list, its positions and its entries say the same: an account is in *)
(* the list of contacts, once, exactly if isContact says so, and a bootnode *)
(* id is listed, once, exactly if it has an entry.                         *)
ListsAgree ==
  /\ Indexed(bootnodeIds, bootnodePos, BootnodeId)
  /\ Indexed(contacts, contactPos, Address)
  /\ \A a \in Address : isContact[a] <=> contactPos[a] # 0
  /\ \A b \in BootnodeId : bootnodes[b] # NoEntry <=> bootnodePos[b] # 0

(* A pending entry points at an open request of that account: an applicant *)
(* is never locked out by a request that is closed.                        *)
PendingIsOpen ==
  \A a \in Address : pendingOf[a] # 0 =>
    Open(pendingOf[a]) /\ requests[pendingOf[a]].applicant = a

(* An open request has no reviews, so that AlreadyReviewed never stands in *)
(* the way of a decision.                                                  *)
OpenIsUnreviewed ==
  \A id \in 1..Len(requests) : Open(id) => \A a \in Address : <<id, a>> \notin reviewedBy

(* What was decided or cancelled stays as it is.                           *)
ClosedIsFinal ==
  [][\A id \in 1..Len(requests) :
       requests[id].status \in Closed => requests'[id] = requests[id]]_vars

(* An account has at most one open request.                                *)
OneOpenRequest ==
  \A i, j \in 1..Len(requests) :
    Open(i) /\ Open(j) /\ requests[i].applicant = requests[j].applicant => i = j

(* The listed contacts, what getBootnode answers and the requests with     *)
(* their statuses behave as ContactBook says: removing one element moves   *)
(* another but neither loses nor doubles it.                               *)
Book == INSTANCE ContactBook WITH
  members   <- {contacts[i] : i \in 1..Len(contacts)},
  directory <- bootnodes,
  verdicts  <- [id \in 1..Len(requests) |-> [applicant |-> requests[id].applicant,
                                             verdict |-> requests[id].status]]
ImplementsBook == Book!Spec
=============================================================================
