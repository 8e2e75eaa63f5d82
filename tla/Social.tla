------------------------------- MODULE Social -------------------------------
(***************************************************************************)
(* The social manager (internal/social/manager.go) of every user, the      *)
(* files it saves, and the P2P service that carries its envelopes.         *)
(*                                                                         *)
(* Each user runs one process.  Its HTTP handlers and its receive loop     *)
(* share the fields of Manager under m.mu; a handler that publishes holds  *)
(* m.mu across the call to the service and saves state.json afterwards, so *)
(* a crash may fall between the two.  The receive loop subscribes to the   *)
(* presence topic and the user's inbox topic with one FromOffset, takes    *)
(* the next record, handles it, and commits its offset in a second         *)
(* critical section.                                                       *)
(*                                                                         *)
(* An initialised, unlocked identity is assumed (SocialIdentity models how *)
(* one comes about).  A user is a user id: once NewManager has met a torn  *)
(* state.json the next login or init makes another id, so that the user is *)
(* at an end.  Ids made from time.UnixNano are unique.  Every client runs  *)
(* this program: handleSecure would also take an envelope in which another *)
(* program names a from_user_id or a request of its own choice, since it   *)
(* ties neither to the key that signed.  The service keeps a subscription  *)
(* for as long as the process lives (SocialSubscription lets it forget     *)
(* them).  Requests of strangers are always let in: every way to set the   *)
(* settings goes through normalizeSettings, which allows them.             *)
(***************************************************************************)
EXTENDS Integers, FiniteSets, Sequences

CONSTANTS
  Users,           \* user ids
  ReqId,           \* bound: the request ids that may be made, and by whom for whom
  DmId,            \* bound: the message ids that may be made
  Invite,          \* bound: the invite links that circulate, by owner
  MaxCopies,       \* bound: times the service delivers one envelope
  Crashing,        \* bound: the users whose process may crash
  MaxRestarts,     \* bound: crashes with restart per user
  MaxPresence,     \* bound: records in the presence topic
  PublishMayFail,  \* the service may answer a publish with an error
  SaveMayFail,     \* bound: the users whose os.WriteFile may fail or be cut by a crash
  NoUser           \* no user: the value of "inviting" outside the handler

ASSUME BoundsAssumption ==
  /\ ReqId \subseteq [from : Users, to : Users, n : Nat]
  /\ DmId \subseteq [from : Users, to : Users, n : Nat]
  /\ Invite \subseteq [owner : Users, n : Nat]
  /\ MaxCopies \in Nat /\ MaxRestarts \in Nat /\ MaxPresence \in Nat
  /\ PublishMayFail \in BOOLEAN
  /\ Crashing \subseteq Users /\ SaveMayFail \subseteq Users
  /\ NoUser \notin Users

VARIABLES
  mem,       \* mem[u]: the maps of u's Manager
  disk,      \* disk[u]: what u's state.json held when it was last written whole
  file,      \* file[u]: "whole", "torn" by a write that stopped halfway, or "lost"
             \* once NewManager has found it torn and starts without a profile
  seen,      \* seen[u]: seenMessageIDs, in memory only
  pc,        \* pc[u]: where u's receive loop is
  from,      \* from[u]: the subscription delivers the records after this offset
  skipped,   \* history: skipped[u] is the value of from[u] when u last subscribed
             \* without a cursor for the inbox
  lock,      \* lock[u]: "saving" while a handler holds m.mu after its publish
  inviting,  \* inviting[u]: whose invite SendFriendRequestByInvite has consumed
  life,      \* life[u]: how often u's process has been restarted
  sent,      \* every envelope any service node has accepted
  inbox      \* inbox[u]: the log of u's inbox topic, offsets counted from 1

vars == <<mem, disk, file, seen, pc, from, skipped, lock, inviting, life, sent, inbox>>
saved == <<disk, file>>
loop == <<pc, from, skipped>>

-----------------------------------------------------------------------------
(* Ids, envelopes and the persisted state.                                 *)

Decided == {"accepted", "rejected"}
Status  == {"none", "pending_out", "pending_in"} \cup Decided

(* A knownUsers entry: absent, with an empty PeerID, with a PeerID.        *)
Peer == {"unknown", "no_peer", "peer"}

(* Secure envelopes.  Every publish makes a fresh msg_id, so an envelope   *)
(* stands for its msg_id: a life of a process answers a request once.      *)
Request(r)         == [type |-> "friend_request", from |-> r.from, to |-> r.to,
                       ref |-> r]
Response(r, st, k) == [type |-> "friend_response", from |-> r.to, to |-> r.from,
                       ref |-> r, status |-> st, life |-> k]
Message(d)         == [type |-> "dm_message", from |-> d.from, to |-> d.to,
                       ref |-> d]

Envelope == {Request(r) : r \in ReqId}
            \cup {Response(r, st, k) : r \in ReqId, st \in Decided, k \in 0..MaxRestarts}
            \cup {Message(d) : d \in DmId}

(* persistedState without the profile: requests[r] = "none" and dms[d] = 0 *)
(* say that the id is in no map; dms[d] counts the copies of d a           *)
(* conversation holds; presence and cursor are the cursors of the presence *)
(* and of the inbox topic, 0 if the map has none.                          *)
State == [known    : [Users -> Peer],
          requests : [ReqId -> Status],
          friends  : SUBSET Users,
          dms      : [DmId -> Nat],
          nonces   : SUBSET Invite,
          presence : Nat,
          cursor   : Nat]

EmptyState == [known    |-> [v \in Users |-> "unknown"],
               requests |-> [r \in ReqId |-> "none"],
               friends  |-> {},
               dms      |-> [d \in DmId |-> 0],
               nonces   |-> {},
               presence |-> 0,
               cursor   |-> 0]

(* The maps, the file, the receive loop and the log of every user stay     *)
(* well formed; above all, a request only ever has a status that           *)
(* RespondFriendRequest and the front end know.                            *)
TypeOK ==
  /\ mem \in [Users -> State]
  /\ disk \in [Users -> State]
  /\ file \in [Users -> {"whole", "torn", "lost"}]
  /\ seen \in [Users -> SUBSET Envelope]
  /\ pc \in [Users -> {"subscribe", "pull", "commit", "commit_presence"}]
  /\ from \in [Users -> Nat] /\ skipped \in [Users -> Nat]
  /\ lock \in [Users -> {"free", "saving"}]
  /\ inviting \in [Users -> Users \cup {NoUser}]
  /\ life \in [Users -> 0..MaxRestarts]
  /\ sent \subseteq Envelope
  /\ inbox \in [Users -> Seq(Envelope)]

Init ==
  /\ mem = [u \in Users |-> EmptyState]
  /\ disk = [u \in Users |-> EmptyState]
  /\ file = [u \in Users |-> "whole"]
  /\ seen = [u \in Users |-> {}]
  /\ pc = [u \in Users |-> "subscribe"]
  /\ from = [u \in Users |-> 0] /\ skipped = [u \in Users |-> 0]
  /\ lock = [u \in Users |-> "free"]
  /\ inviting = [u \in Users |-> NoUser]
  /\ life = [u \in Users |-> 0]
  /\ sent = {}
  /\ inbox = [u \in Users |-> <<>>]

-----------------------------------------------------------------------------
(* What a handler does to the maps of one user.                            *)

SetRequest(s, r, st) == [s EXCEPT !.requests[r] = st]

AddFriendIf(s, v, st) ==
  [s EXCEPT !.friends = IF st = "accepted" THEN @ \cup {v} ELSE @]

AddMessage(s, d) == [s EXCEPT !.dms[d] = @ + 1]

SetKnown(s, v, p) == [s EXCEPT !.known[v] = p]

UseNonce(s, t) == [s EXCEPT !.nonces = @ \cup {t}]

SetCursor(s, o) == [s EXCEPT !.cursor = o]

SetPresence(s, o) == [s EXCEPT !.presence = o]

(* Variant: the status is not looked at.                                   *)
AnswerAny(s, r) == s.requests[r] # "none"

(* RespondFriendRequest takes a request that waits for an answer, and      *)
(* refuses any other as "request already handled".                         *)
CanAnswer(s, r) == s.requests[r] = "pending_in"

(* Variant: the status is one RespondFriendRequest does not know.          *)
MisnamedStatus(s, e) == SetRequest(s, e.ref, "pending")

(* handleSecure on an envelope with a new msg_id.                          *)
AfterFriendRequest(s, e) == SetRequest(s, e.ref, "pending_in")

(* Variant: a response to an unknown request is dropped.                   *)
DropUnknownResponse(s, e) ==
  IF s.requests[e.ref] = "none" THEN s
  ELSE AddFriendIf(SetRequest(s, e.ref, e.status), e.from, e.status)

(* A response is taken even for a request that a crash has erased.         *)
AfterFriendResponse(s, e) ==
  AddFriendIf(IF s.requests[e.ref] = "none" THEN s ELSE SetRequest(s, e.ref, e.status),
              e.from, e.status)

-----------------------------------------------------------------------------
(* Steps shared by the handlers.                                           *)

SetMem(u, s) == mem' = [mem EXCEPT ![u] = s]

(* m.mu can be taken, and there is a profile.                              *)
Free(u) == lock[u] = "free" /\ file[u] # "lost"

(* saveStateLocked with s in memory.  os.WriteFile truncates the file      *)
(* before it writes: when it fails, the file is as it was or torn.  A      *)
(* crash during the write is a write that fails and a Restart.             *)
SaveState(u, s) ==
  \/ /\ disk' = [disk EXCEPT ![u] = s]
     /\ file' = [file EXCEPT ![u] = "whole"]
  \/ /\ u \in SaveMayFail
     /\ file' \in {file, [file EXCEPT ![u] = "torn"]}
     /\ UNCHANGED disk

SetAndSave(u, s) == SetMem(u, s) /\ SaveState(u, s)

(* publishSecureLocked or SendDirect, under m.mu: on success the handler   *)
(* goes on to saveStateLocked; on an error it returns without saving, and  *)
(* the service may have accepted the envelope all the same.                *)
Publish(u, e) ==
  \/ /\ sent' = sent \cup {e}
     /\ lock' = [lock EXCEPT ![u] = "saving"]
  \/ /\ PublishMayFail
     /\ sent' \in {sent, sent \cup {e}}
     /\ UNCHANGED lock

(* The error return before anything is published.                          *)
ReturnError == UNCHANGED <<sent, lock>>

(* SendFriendRequest(v), called by a handler of its own or as the second   *)
(* half of SendFriendRequestByInvite.                                      *)
RequestFriend(u, v) ==
  /\ Free(u)
  /\ mem[u].known[v] # "unknown"
  /\ \E r \in ReqId :
       /\ r.from = u /\ r.to = v
       /\ mem[u].requests[r] = "none" /\ Request(r) \notin sent   \* a fresh id
       /\ SetMem(u, SetRequest(mem[u], r, "pending_out"))
       /\ Publish(u, Request(r))
  /\ UNCHANGED <<saved, seen, loop, life, inbox>>

-----------------------------------------------------------------------------
(* HTTP handlers.                                                          *)

SendFriendRequest(u) ==
  /\ \E v \in Users : RequestFriend(u, v)
  /\ UNCHANGED inviting

RespondFriendRequest(u) ==
  /\ Free(u)
  /\ \E r \in ReqId, st \in Decided :
       /\ CanAnswer(mem[u], r)
       /\ SetMem(u, AddFriendIf(SetRequest(mem[u], r, st), r.from, st))
       /\ IF mem[u].known[r.from] = "unknown"
          THEN ReturnError
          ELSE Publish(u, Response(r, st, life[u]))
  /\ UNCHANGED <<saved, seen, loop, inviting, life, inbox>>

SendDirectMessage(u) ==
  /\ Free(u)
  /\ \E d \in DmId :
       /\ d.from = u /\ d.to \in mem[u].friends
       /\ mem[u].known[d.to] # "unknown"
       /\ mem[u].dms[d] = 0 /\ Message(d) \notin sent             \* a fresh id
       /\ SetMem(u, AddMessage(mem[u], d))
       /\ IF mem[u].known[d.to] = "no_peer"
          THEN ReturnError
          ELSE Publish(u, Message(d))
  /\ UNCHANGED <<saved, seen, loop, inviting, life, inbox>>

(* saveStateLocked at the end of the three handlers above; m.mu is free.   *)
Save(u) ==
  /\ lock[u] = "saving"
  /\ SaveState(u, mem[u])
  /\ lock' = [lock EXCEPT ![u] = "free"]
  /\ UNCHANGED <<mem, seen, loop, inviting, life, sent, inbox>>

(* SendFriendRequestByInvite up to its Unlock: the nonce is used up, the   *)
(* owner's entry is overwritten by the payload, which has no peer_id.      *)
ConsumeInvite(u) ==
  /\ Free(u)
  /\ inviting[u] = NoUser
  /\ \E t \in Invite :
       /\ t \notin mem[u].nonces
       /\ SetAndSave(u, SetKnown(UseNonce(mem[u], t), t.owner, "no_peer"))
       /\ inviting' = [inviting EXCEPT ![u] = t.owner]
  /\ UNCHANGED <<seen, loop, lock, life, sent, inbox>>

(* ... and its tail: the call of SendFriendRequest, which may refuse the   *)
(* wallet address or signature it was given.                               *)
RequestByInvite(u) ==
  /\ inviting[u] # NoUser
  /\ \/ RequestFriend(u, inviting[u])
     \/ UNCHANGED <<mem, saved, seen, loop, lock, life, sent, inbox>>
  /\ inviting' = [inviting EXCEPT ![u] = NoUser]

-----------------------------------------------------------------------------
(* The receive loop.                                                       *)

(* ensureSubscribed, when the service answers: both topics from the least  *)
(* cursor in the map.  Whether FromOffset names the last record known or   *)
(* the first one wanted is up to the service.                              *)
FromOffset(s) ==
  IF s.presence = 0 \/ s.cursor = 0 \/ s.presence > s.cursor
    THEN IF s.cursor = 0 THEN s.presence ELSE s.cursor
    ELSE s.presence

Subscribe(u) ==
  /\ pc[u] = "subscribe" /\ Free(u)
  /\ pc' = [pc EXCEPT ![u] = "pull"]
  /\ \E o \in {FromOffset(mem[u]), FromOffset(mem[u]) - 1} \cap Nat :
       /\ from' = [from EXCEPT ![u] = o]
       /\ skipped' = [skipped EXCEPT ![u] = IF mem[u].cursor = 0 THEN o ELSE @]
  /\ UNCHANGED <<mem, saved, seen, lock, inviting, life, sent, inbox>>

(* The next offset of a topic with cursor c that Pull returns and          *)
(* shouldProcess lets through.                                             *)
NextOffset(u, c) == IF from[u] > c THEN from[u] + 1 ELSE c + 1

(* A presence record of v.  The user's own changes nothing.                *)
HandlePresence(u) ==
  /\ pc[u] = "pull" /\ Free(u)
  /\ NextOffset(u, mem[u].presence) <= MaxPresence
  /\ \/ \E v \in Users \ {u}, p \in {"no_peer", "peer"} :
          SetAndSave(u, SetKnown(mem[u], v, p))
     \/ UNCHANGED <<mem, saved>>
  /\ pc' = [pc EXCEPT ![u] = "commit_presence"]
  /\ UNCHANGED <<from, skipped, seen, lock, inviting, life, sent, inbox>>

(* Pull has returned a record of the inbox and shouldProcess let it        *)
(* through.                                                                *)
Pulled(u) ==
  /\ pc[u] = "pull" /\ Free(u)
  /\ NextOffset(u, mem[u].cursor) <= Len(inbox[u])

NextRecord(u) == inbox[u][NextOffset(u, mem[u].cursor)]

(* handleSecure: a msg_id of this life is dropped ...                      *)
DropSeen(u) ==
  /\ Pulled(u)
  /\ NextRecord(u) \in seen[u]
  /\ pc' = [pc EXCEPT ![u] = "commit"]
  /\ UNCHANGED <<mem, saved, seen, from, skipped, lock, inviting, life, sent, inbox>>

(* Variant: the msg_id is not remembered.                                  *)
ForgetSeen(u) ==
  /\ Pulled(u)
  /\ NextRecord(u) \notin seen[u]
  /\ pc' = [pc EXCEPT ![u] = "commit"]
  /\ UNCHANGED <<seen, from, skipped, lock, inviting, life, sent, inbox>>

(* ... any other is marked as seen, and handled by its type.               *)
MarkSeen(u) ==
  /\ Pulled(u)
  /\ NextRecord(u) \notin seen[u]
  /\ seen' = [seen EXCEPT ![u] = @ \cup {NextRecord(u)}]
  /\ pc' = [pc EXCEPT ![u] = "commit"]
  /\ UNCHANGED <<from, skipped, lock, inviting, life, sent, inbox>>

(* Variant: the request id is not looked up.                               *)
RenewKnownRequest(u) ==
  /\ MarkSeen(u)
  /\ NextRecord(u).type = "friend_request"
  /\ mem[u].requests[NextRecord(u).ref] # "none"
  /\ SetAndSave(u, AfterFriendRequest(mem[u], NextRecord(u)))

(* A request id already in the map: return, nothing is saved.              *)
HandleKnownRequest(u) ==
  /\ MarkSeen(u)
  /\ NextRecord(u).type = "friend_request"
  /\ mem[u].requests[NextRecord(u).ref] # "none"
  /\ UNCHANGED <<mem, saved>>

HandleFriendRequest(u) ==
  /\ MarkSeen(u)
  /\ NextRecord(u).type = "friend_request"
  /\ mem[u].requests[NextRecord(u).ref] = "none"
  /\ SetAndSave(u, AfterFriendRequest(mem[u], NextRecord(u)))

HandleFriendResponse(u) ==
  /\ MarkSeen(u)
  /\ NextRecord(u).type = "friend_response"
  /\ SetAndSave(u, AfterFriendResponse(mem[u], NextRecord(u)))

HandleDirectMessage(u) ==
  /\ MarkSeen(u)
  /\ NextRecord(u).type = "dm_message"
  /\ SetAndSave(u, AddMessage(mem[u], NextRecord(u).ref))

ProcessRecord(u) ==
  \/ DropSeen(u)
  \/ HandleKnownRequest(u)
  \/ HandleFriendRequest(u)
  \/ HandleFriendResponse(u)
  \/ HandleDirectMessage(u)

(* Variant: the offset committed is the one before the record.             *)
CommitTooLittle(u) == NextOffset(u, mem[u].cursor) - 1

RecordOffset(u) == NextOffset(u, mem[u].cursor)

CommitCursor(u) ==
  /\ pc[u] \in {"commit", "commit_presence"} /\ Free(u)
  /\ SetAndSave(u, IF pc[u] = "commit"
                     THEN SetCursor(mem[u], RecordOffset(u))
                     ELSE SetPresence(mem[u], NextOffset(u, mem[u].presence)))
  /\ pc' = [pc EXCEPT ![u] = "pull"]
  /\ UNCHANGED <<from, skipped, seen, lock, inviting, life, sent, inbox>>

-----------------------------------------------------------------------------
(* Variant: state.json is there but cannot be read.                        *)
LoadNothing(u) == EmptyState

(* The process dies anywhere and NewManager loads what was saved.  The     *)
(* error of a torn file is ignored; then there is no profile either, and   *)
(* every handler refuses to work for this user.                            *)
LoadState(u) == IF file[u] = "whole" THEN disk[u] ELSE EmptyState

Restart(u) ==
  /\ u \in Crashing /\ life[u] < MaxRestarts /\ file[u] # "lost"
  /\ life' = [life EXCEPT ![u] = @ + 1]
  /\ SetMem(u, LoadState(u))
  /\ seen' = [seen EXCEPT ![u] = {}]
  /\ file' = [file EXCEPT ![u] = IF @ = "torn" THEN "lost" ELSE @]
  /\ pc' = [pc EXCEPT ![u] = "subscribe"]
  /\ lock' = [lock EXCEPT ![u] = "free"]
  /\ inviting' = [inviting EXCEPT ![u] = NoUser]
  /\ UNCHANGED <<disk, from, skipped, sent, inbox>>

(* The service (external): an accepted envelope reaches the recipient's    *)
(* log late, several times, out of order, or never.                        *)
Deliver(u) ==
  /\ \E e \in sent :
       /\ e.to = u
       /\ Cardinality({i \in DOMAIN inbox[u] : inbox[u][i] = e}) < MaxCopies
       /\ inbox' = [inbox EXCEPT ![u] = Append(@, e)]
  /\ UNCHANGED <<mem, saved, seen, loop, lock, inviting, life, sent>>

Next ==
  \E u \in Users :
    \/ SendFriendRequest(u)
    \/ RespondFriendRequest(u)
    \/ SendDirectMessage(u)
    \/ Save(u)
    \/ ConsumeInvite(u)
    \/ RequestByInvite(u)
    \/ Subscribe(u)
    \/ HandlePresence(u)
    \/ ProcessRecord(u)
    \/ CommitCursor(u)
    \/ Restart(u)
    \/ Deliver(u)

Spec == Init /\ [][Next]_vars

(* The loop never stops while the process lives, the service answers it,   *)
(* and a handler inside m.mu gets its answer and saves.                    *)
Fairness ==
  \A u \in Users : /\ WF_vars(Save(u))
                   /\ WF_vars(Subscribe(u))
                   /\ WF_vars(ProcessRecord(u))
                   /\ WF_vars(CommitCursor(u))

FairSpec == Spec /\ Fairness

-----------------------------------------------------------------------------
(* Properties.                                                             *)

(* What handling e leaves behind in a user's maps.                         *)
Applied(s, e) ==
  /\ e.type = "friend_request" => s.requests[e.ref] # "none"
  /\ e.type = "friend_response" => s.requests[e.ref] # "pending_out"
  /\ e.type = "friend_response" /\ e.status = "accepted" => e.from \in s.friends
  /\ e.type = "dm_message" => s.dms[e.ref] > 0

(* Every record whose offset is committed has had its effect, in memory    *)
(* and in the file that carries the same cursor: whatever the crash or the *)
(* failed write between processRecord and commitCursor, no envelope that   *)
(* reached the log is skipped after the restart.  Exempt are the records   *)
(* the service was told to skip, by a FromOffset that was the presence     *)
(* topic's cursor, while the inbox had none.                               *)
CommittedIsDurable ==
  \A u \in Users :
    /\ \A i \in (skipped[u] + 1)..mem[u].cursor : Applied(mem[u], inbox[u][i])
    /\ \A i \in (skipped[u] + 1)..disk[u].cursor : Applied(disk[u], inbox[u][i])

(* Once the answer to a request is in u's state.json it stays as it is: no *)
(* redelivered request (its msg_id is forgotten by the crash, the request  *)
(* id is not), failed write or restart makes the request pending again or  *)
(* lets u answer it otherwise.                                             *)
AnswersStand(u, s, t) ==
  \A r \in ReqId : r.to = u /\ r.from # u /\ s.requests[r] \in Decided =>
                      t.requests[r] = s.requests[r]

DecisionStands == [][\A u \in Users : AnswersStand(u, disk[u], disk'[u])]_disk

(* seenMessageIDs is not saved: a message may be appended again after each *)
(* restart, but redelivery within a life of the process never adds a copy. *)
OneCopyPerLife ==
  \A u \in Users : \A d \in DmId :
    d.to = u /\ d.from # u => /\ mem[u].dms[d] <= life[u] + 1
                             /\ disk[u].dms[d] <= life[u] + 1

(* state.json only grows: over any number of saves, failed or torn saves   *)
(* and restarts, no request, friend, message, used invite or committed     *)
(* offset that the file once held whole is gone when it is next written    *)
(* whole.  A user whose process starts on a torn file never saves again.   *)
Extends(s, t) ==
  /\ \A r \in ReqId : s.requests[r] # "none" => t.requests[r] # "none"
  /\ s.friends \subseteq t.friends
  /\ \A d \in DmId : s.dms[d] <= t.dms[d]
  /\ s.nonces \subseteq t.nonces
  /\ s.presence <= t.presence
  /\ s.cursor <= t.cursor

FileOnlyGrows == [][\A u \in Users : Extends(disk[u], disk'[u])]_disk

(* The inductive invariant behind the three above.                         *)

LogSound ==       \* the log holds accepted envelopes, addressed to its user
  \A u \in Users : \A i \in 1..Len(inbox[u]) :
    inbox[u][i] \in sent /\ inbox[u][i].to = u

AnswersAsked ==   \* only requests that were sent are answered
  \A e \in sent : e.type = "friend_response" => Request(e.ref) \in sent

PendingSound ==   \* a request waits for u's answer only if it was sent to u
  \A u \in Users : \A r \in ReqId :
    mem[u].requests[r] = "pending_in" \/ disk[u].requests[r] = "pending_in"
    => r.to = u /\ Request(r) \in sent

FromSound ==      \* the subscription starts at the cursor, or skips to where it starts
  \A u \in Users : pc[u] # "subscribe" =>
    from[u] <= mem[u].cursor \/ (mem[u].cursor = 0 /\ skipped[u] = from[u])

CursorSound ==    \* the cursors stay in the log; what is being committed was seen
  \A u \in Users :
    /\ mem[u].cursor <= Len(inbox[u]) /\ disk[u].cursor <= Len(inbox[u])
    /\ pc[u] = "commit" => RecordOffset(u) <= Len(inbox[u]) /\ NextRecord(u) \in seen[u]

SeenApplied ==    \* what was seen has had its effect in memory
  \A u \in Users : \A e \in seen[u] : e \in sent /\ e.to = u /\ Applied(mem[u], e)

DiskBehind ==     \* the file is an earlier state of the memory, with the same answers;
                  \* a user whose file is lost saves no more
  \A u \in Users : IF file[u] = "lost"
                     THEN lock[u] = "free"
                     ELSE Extends(disk[u], mem[u]) /\ AnswersStand(u, disk[u], mem[u])

CopiesCounted ==  \* a received message has a copy per earlier life, one more if seen
  \A u \in Users : \A d \in DmId :
    d.to = u /\ d.from # u
    => /\ mem[u].dms[d] <= life[u] + (IF Message(d) \in seen[u] THEN 1 ELSE 0)
       /\ disk[u].dms[d] <= life[u] + 1

IInv ==
  /\ TypeOK
  /\ LogSound
  /\ AnswersAsked
  /\ PendingSound
  /\ FromSound
  /\ CursorSound
  /\ SeenApplied
  /\ CommittedIsDurable
  /\ DiskBehind
  /\ CopiesCounted

(* What u's loop never sees: everything, once its file is lost; else the   *)
(* records before the start of the inbox.                                  *)
Missed(u, i) == file[u] = "lost" \/ i <= skipped[u]

(* Every record that reaches the log of a user is handled and committed,   *)
(* however often the process restarts and whatever other topic it has got  *)
(* further in.                                                             *)
InboxDrains ==
  \A u \in Users : []<>(\A i \in DOMAIN inbox[u] : i <= mem[u].cursor \/ Missed(u, i))

(* An acceptance that reaches the asker's log makes the addressee a friend *)
(* for good.                                                               *)
InLog(u, e) == \E i \in DOMAIN inbox[u] : inbox[u][i] = e

MissedAll(u, e) == \A i \in DOMAIN inbox[u] : inbox[u][i] = e => Missed(u, i)

AcceptanceLands ==
  \A r \in ReqId, k \in 0..MaxRestarts :
    LET e == Response(r, "accepted", k)
    IN  InLog(r.from, e) ~>
          [](r.to \in mem[r.from].friends \/ MissedAll(r.from, e))

-----------------------------------------------------------------------------
(* Without restarts the managers implement FriendRequests.                 *)

DecisionIn(st) == IF st \in Decided THEN st ELSE "open"

FR == INSTANCE FriendRequests WITH
        asked   <- {r \in ReqId : Request(r) \in sent},
        answer  <- [r \in ReqId |-> DecisionIn(mem[r.to].requests[r])],
        learned <- [r \in ReqId |-> DecisionIn(mem[r.from].requests[r])],
        friends <- [u \in Users |-> mem[u].friends]

ImplementsFriendRequests == FR!FRSpec
=============================================================================
