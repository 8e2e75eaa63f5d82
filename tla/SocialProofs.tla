---------------------------- MODULE SocialProofs ----------------------------
(***************************************************************************)
(* Proofs about Social, for every set of users, of ids and of invites and  *)
(* every bound.  TypeOK first; then the inductive invariant from which the *)
(* safety properties of the runs follow; last the refinement of            *)
(* FriendRequests by the managers that are not restarted.                  *)
(***************************************************************************)
EXTENDS Social, TLAPS

-----------------------------------------------------------------------------
(* Type correctness.                                                       *)

(* An envelope is a request, a response or a message about a known id.     *)
LEMMA EnvelopeShape ==
  ASSUME NEW e \in Envelope
  PROVE  /\ e.from \in Users /\ e.to \in Users
         /\ e.type \in {"friend_request", "friend_response", "dm_message"}
         /\ e.type = "friend_request" => e.ref \in ReqId /\ e = Request(e.ref)
         /\ e.type = "friend_response" => /\ e.ref \in ReqId /\ e.status \in Decided
                                          /\ e.from = e.ref.to /\ e.to = e.ref.from
         /\ e.type = "dm_message" => e.ref \in DmId /\ e = Message(e.ref)
<1>1. CASE \E r \in ReqId : e = Request(r)
  BY <1>1, BoundsAssumption DEF Request
<1>2. CASE \E r \in ReqId, st \in Decided, k \in 0..MaxRestarts : e = Response(r, st, k)
  BY <1>2, BoundsAssumption DEF Response
<1>3. CASE \E d \in DmId : e = Message(d)
  BY <1>3, BoundsAssumption DEF Message
<1>4. QED
  BY <1>1, <1>2, <1>3 DEF Envelope

LEMMA RequestIsEnvelope ==
  ASSUME NEW r \in ReqId PROVE Request(r) \in Envelope
BY DEF Envelope

LEMMA ResponseIsEnvelope ==
  ASSUME NEW r \in ReqId, NEW st \in Decided, NEW k \in 0..MaxRestarts
  PROVE  Response(r, st, k) \in Envelope
BY DEF Envelope

LEMMA MessageIsEnvelope ==
  ASSUME NEW d \in DmId PROVE Message(d) \in Envelope
BY DEF Envelope

FileKind == [Users -> {"whole", "torn", "lost"}]

(* Whatever saveStateLocked does, the files stay well formed.              *)
LEMMA SaveType ==
  ASSUME NEW u \in Users, NEW s \in State, disk \in [Users -> State], file \in FileKind,
         SaveState(u, s)
  PROVE  disk' \in [Users -> State] /\ file' \in FileKind
BY DEF SaveState, FileKind

LEMMA PublishType ==
  ASSUME NEW u \in Users, NEW e \in Envelope, sent \subseteq Envelope,
         lock \in [Users -> {"free", "saving"}], Publish(u, e)
  PROVE  /\ sent' \subseteq Envelope
         /\ lock' \in [Users -> {"free", "saving"}]
BY DEF Publish

(* The updates of one user's maps.                                         *)
LEMMA SetRequestType ==
  ASSUME NEW s \in State, NEW r \in ReqId, NEW st \in Status
  PROVE  SetRequest(s, r, st) \in State
BY DEF SetRequest, State

LEMMA AddFriendIfType ==
  ASSUME NEW s \in State, NEW v \in Users, NEW st
  PROVE  AddFriendIf(s, v, st) \in State
BY DEF AddFriendIf, State

LEMMA AddMessageType ==
  ASSUME NEW s \in State, NEW d \in DmId
  PROVE  AddMessage(s, d) \in State
BY DEF AddMessage, State

LEMMA SetKnownType ==
  ASSUME NEW s \in State, NEW v \in Users, NEW p \in Peer
  PROVE  SetKnown(s, v, p) \in State
BY DEF SetKnown, State

LEMMA UseNonceType ==
  ASSUME NEW s \in State, NEW t \in Invite
  PROVE  UseNonce(s, t) \in State
BY DEF UseNonce, State

LEMMA SetCursorType ==
  ASSUME NEW s \in State, NEW o \in Nat
  PROVE  SetCursor(s, o) \in State /\ SetPresence(s, o) \in State
BY DEF SetCursor, SetPresence, State

(* The offsets the receive loop computes.                                  *)
LEMMA FromOffsetType ==
  ASSUME NEW s \in State
  PROVE  /\ FromOffset(s) \in Nat
         /\ s.cursor # 0 => FromOffset(s) <= s.cursor
<1>1. s.presence \in Nat /\ s.cursor \in Nat
  BY DEF State
<1>2. QED
  BY <1>1 DEF FromOffset

LEMMA NextOffsetType ==
  ASSUME TypeOK, NEW u \in Users, NEW c \in Nat
  PROVE  /\ NextOffset(u, c) \in Nat /\ NextOffset(u, c) > c
         /\ NextOffset(u, c) > from[u] /\ NextOffset(u, c) >= 1
BY DEF TypeOK, NextOffset

LEMMA RecordOffsetType ==
  ASSUME TypeOK, NEW u \in Users
  PROVE  /\ mem[u].cursor \in Nat /\ RecordOffset(u) \in Nat /\ RecordOffset(u) >= 1
         /\ RecordOffset(u) > mem[u].cursor /\ RecordOffset(u) > from[u]
<1>1. mem[u].cursor \in Nat
  BY DEF TypeOK, State
<1>2. QED
  BY <1>1, NextOffsetType DEF RecordOffset

LEMMA SetMemType ==
  ASSUME NEW u \in Users, NEW s \in State, mem \in [Users -> State], SetMem(u, s)
  PROVE  mem' \in [Users -> State] /\ mem'[u] = s
BY DEF SetMem

LEMMA SetAndSaveType ==
  ASSUME NEW u \in Users, NEW s \in State, mem \in [Users -> State],
         disk \in [Users -> State], file \in FileKind, SetAndSave(u, s)
  PROVE  mem' \in [Users -> State] /\ disk' \in [Users -> State] /\ file' \in FileKind
BY SetMemType, SaveType DEF SetAndSave

LEMMA InitType == Init => TypeOK
BY BoundsAssumption DEF Init, TypeOK, EmptyState, State, Peer, Status

LEMMA RequestFriendType ==
  ASSUME TypeOK, NEW u \in Users, NEW v \in Users, RequestFriend(u, v)
  PROVE  /\ mem' \in [Users -> State]
         /\ sent' \subseteq Envelope
         /\ lock' \in [Users -> {"free", "saving"}]
<1>1. PICK r \in ReqId : /\ SetMem(u, SetRequest(mem[u], r, "pending_out"))
                         /\ Publish(u, Request(r))
  BY DEF RequestFriend
<1>2. sent' \subseteq Envelope /\ lock' \in [Users -> {"free", "saving"}]
  BY <1>1, RequestIsEnvelope, PublishType DEF TypeOK
<1>3. mem' \in [Users -> State]
  <2>1. "pending_out" \in Status /\ mem[u] \in State
    BY DEF TypeOK, Status
  <2>2. QED
    BY <1>1, <2>1, SetRequestType, SetMemType DEF TypeOK
<1>4. QED
  BY <1>2, <1>3

LEMMA NextRecordType ==
  ASSUME TypeOK, NEW u \in Users, Pulled(u)
  PROVE  /\ NextRecord(u) \in Envelope /\ RecordOffset(u) \in 1..Len(inbox[u])
         /\ NextRecord(u) = inbox[u][RecordOffset(u)]
<1>1. RecordOffset(u) \in Nat /\ RecordOffset(u) >= 1 /\ inbox[u] \in Seq(Envelope)
  BY RecordOffsetType DEF TypeOK
<1>2. RecordOffset(u) \in 1..Len(inbox[u]) /\ NextRecord(u) = inbox[u][RecordOffset(u)]
  BY <1>1 DEF Pulled, RecordOffset, NextRecord
<1>3. QED
  BY <1>1, <1>2

(* The tuples of variables that steps leave alone.                         *)
LEMMA SavedSame == UNCHANGED saved <=> UNCHANGED <<disk, file>>
BY DEF saved

LEMMA LoopSame == UNCHANGED loop <=> UNCHANGED <<pc, from, skipped>>
BY DEF loop

LEMMA EmptyStateType == EmptyState \in State
BY DEF EmptyState, State, Peer, Status

LEMMA TypeStep == TypeOK /\ [Next]_vars => TypeOK'
<1> SUFFICES ASSUME TypeOK, [Next]_vars PROVE TypeOK'
  OBVIOUS
<1>1. CASE UNCHANGED vars
  BY <1>1 DEF vars, TypeOK
<1>2. ASSUME NEW u \in Users, SendFriendRequest(u) PROVE TypeOK'
  BY <1>2, RequestFriendType, SavedSame, LoopSame
     DEF SendFriendRequest, RequestFriend, TypeOK
<1>3. ASSUME NEW u \in Users, RespondFriendRequest(u) PROVE TypeOK'
  <2>1. PICK r \in ReqId, st \in Decided :
          /\ SetMem(u, AddFriendIf(SetRequest(mem[u], r, st), r.from, st))
          /\ IF mem[u].known[r.from] = "unknown" THEN ReturnError
             ELSE Publish(u, Response(r, st, life[u]))
    BY <1>3 DEF RespondFriendRequest
  <2>2. sent' \subseteq Envelope /\ lock' \in [Users -> {"free", "saving"}]
    <3>1. Response(r, st, life[u]) \in Envelope
      BY ResponseIsEnvelope DEF TypeOK
    <3>2. QED
      BY <2>1, <3>1, PublishType DEF TypeOK, ReturnError
  <2>3. mem' \in [Users -> State]
    <3>1. r.from \in Users /\ st \in Status /\ mem[u] \in State
      BY BoundsAssumption DEF TypeOK, Status
    <3>2. AddFriendIf(SetRequest(mem[u], r, st), r.from, st) \in State
      BY <3>1, SetRequestType, AddFriendIfType
    <3>3. QED
      BY <2>1, <3>2, SetMemType DEF TypeOK
  <2>4. QED
    BY <1>3, <2>2, <2>3, SavedSame, LoopSame DEF RespondFriendRequest, TypeOK
<1>4. ASSUME NEW u \in Users, SendDirectMessage(u) PROVE TypeOK'
  <2>1. PICK d \in DmId :
          /\ SetMem(u, AddMessage(mem[u], d))
          /\ IF mem[u].known[d.to] = "no_peer" THEN ReturnError
             ELSE Publish(u, Message(d))
    BY <1>4 DEF SendDirectMessage
  <2>2. sent' \subseteq Envelope /\ lock' \in [Users -> {"free", "saving"}]
    BY <2>1, MessageIsEnvelope, PublishType DEF TypeOK, ReturnError
  <2>3. mem' \in [Users -> State]
    BY <2>1, AddMessageType, SetMemType DEF TypeOK
  <2>4. QED
    BY <1>4, <2>2, <2>3, SavedSame, LoopSame DEF SendDirectMessage, TypeOK
<1>5. ASSUME NEW u \in Users, Save(u) PROVE TypeOK'
  BY <1>5, SaveType, LoopSame DEF Save, FileKind, TypeOK
<1>6. ASSUME NEW u \in Users, ConsumeInvite(u) PROVE TypeOK'
  <2>1. PICK t \in Invite :
          /\ SetAndSave(u, SetKnown(UseNonce(mem[u], t), t.owner, "no_peer"))
          /\ inviting' = [inviting EXCEPT ![u] = t.owner]
    BY <1>6 DEF ConsumeInvite
  <2>2. t.owner \in Users
    BY BoundsAssumption
  <2>3. SetKnown(UseNonce(mem[u], t), t.owner, "no_peer") \in State
    BY <2>2, UseNonceType, SetKnownType DEF TypeOK, Peer
  <2>4. mem' \in [Users -> State] /\ disk' \in [Users -> State] /\ file' \in FileKind
    BY <2>1, <2>3, SetAndSaveType DEF FileKind, TypeOK
  <2>5. QED
    BY <1>6, <2>1, <2>2, <2>4, LoopSame DEF ConsumeInvite, FileKind, TypeOK
<1>7. ASSUME NEW u \in Users, RequestByInvite(u) PROVE TypeOK'
  <2>1. CASE RequestFriend(u, inviting[u])
    <3>1. inviting[u] \in Users
      BY <1>7 DEF RequestByInvite, TypeOK
    <3>2. QED
      BY <1>7, <2>1, <3>1, RequestFriendType, SavedSame, LoopSame
         DEF RequestByInvite, RequestFriend, TypeOK
  <2>2. CASE UNCHANGED <<mem, saved, seen, loop, lock, life, sent, inbox>>
    BY <1>7, <2>2, SavedSame, LoopSame DEF RequestByInvite, TypeOK
  <2>3. QED
    BY <1>7, <2>1, <2>2 DEF RequestByInvite
<1>8. ASSUME NEW u \in Users, HandlePresence(u) PROVE TypeOK'
  <2>1. mem' \in [Users -> State] /\ disk' \in [Users -> State] /\ file' \in FileKind
    <3>1. CASE UNCHANGED <<mem, saved>>
      BY <3>1, SavedSame DEF TypeOK, FileKind
    <3>2. CASE \E v \in Users \ {u}, p \in {"no_peer", "peer"} :
                 SetAndSave(u, SetKnown(mem[u], v, p))
      <4>1. PICK v \in Users, p \in Peer : SetAndSave(u, SetKnown(mem[u], v, p))
        BY <3>2 DEF Peer
      <4>2. QED
        BY <4>1, SetKnownType, SetAndSaveType DEF FileKind, TypeOK
    <3>3. QED
      BY <1>8, <3>1, <3>2 DEF HandlePresence
  <2>2. QED
    BY <1>8, <2>1 DEF HandlePresence, FileKind, TypeOK
<1>9. ASSUME NEW u \in Users, ProcessRecord(u) PROVE TypeOK'
  <2>1. NextRecord(u) \in Envelope
    BY <1>9, NextRecordType DEF ProcessRecord, DropSeen, HandleKnownRequest,
         HandleFriendRequest, HandleFriendResponse, HandleDirectMessage, MarkSeen
  <2> DEFINE e == NextRecord(u)
  <2>2. CASE DropSeen(u)
    BY <2>2, SavedSame DEF DropSeen, TypeOK
  <2>3. CASE HandleKnownRequest(u)
    BY <2>1, <2>3, SavedSame DEF HandleKnownRequest, MarkSeen, TypeOK
  <2>4. CASE HandleFriendRequest(u)
    <3>1. e.ref \in ReqId /\ "pending_in" \in Status
      BY <2>1, <2>4, EnvelopeShape DEF HandleFriendRequest, Status
    <3>2. AfterFriendRequest(mem[u], e) \in State
      BY <3>1, SetRequestType DEF TypeOK, AfterFriendRequest
    <3>3. mem' \in [Users -> State] /\ disk' \in [Users -> State] /\ file' \in FileKind
      BY <2>4, <3>2, SetAndSaveType DEF FileKind, HandleFriendRequest, TypeOK
    <3>4. QED
      BY <2>1, <2>4, <3>3 DEF HandleFriendRequest, MarkSeen, FileKind, TypeOK
  <2>5. CASE HandleFriendResponse(u)
    <3>1. e.ref \in ReqId /\ e.status \in Status /\ e.from \in Users
      BY <2>1, <2>5, EnvelopeShape DEF HandleFriendResponse, Status
    <3>2. AfterFriendResponse(mem[u], e) \in State
      BY <3>1, SetRequestType, AddFriendIfType DEF TypeOK, AfterFriendResponse
    <3>3. mem' \in [Users -> State] /\ disk' \in [Users -> State] /\ file' \in FileKind
      BY <2>5, <3>2, SetAndSaveType DEF FileKind, HandleFriendResponse, TypeOK
    <3>4. QED
      BY <2>1, <2>5, <3>3 DEF HandleFriendResponse, MarkSeen, FileKind, TypeOK
  <2>6. CASE HandleDirectMessage(u)
    <3>1. e.ref \in DmId
      BY <2>1, <2>6, EnvelopeShape DEF HandleDirectMessage
    <3>2. mem' \in [Users -> State] /\ disk' \in [Users -> State] /\ file' \in FileKind
      BY <2>6, <3>1, AddMessageType, SetAndSaveType DEF FileKind, HandleDirectMessage, TypeOK
    <3>3. QED
      BY <2>1, <2>6, <3>2 DEF HandleDirectMessage, MarkSeen, FileKind, TypeOK
  <2>7. QED
    BY <1>9, <2>2, <2>3, <2>4, <2>5, <2>6 DEF ProcessRecord
<1>10. ASSUME NEW u \in Users, CommitCursor(u) PROVE TypeOK'
  <2>1. PICK s \in State : SetAndSave(u, s)
    <3>1. /\ mem[u] \in State /\ mem[u].presence \in Nat
          /\ RecordOffset(u) \in Nat
      BY RecordOffsetType DEF TypeOK, State
    <3>2. NextOffset(u, mem[u].presence) \in Nat
      BY <3>1, NextOffsetType
    <3>3. /\ SetCursor(mem[u], RecordOffset(u)) \in State
          /\ SetPresence(mem[u], NextOffset(u, mem[u].presence)) \in State
      BY <3>1, <3>2, SetCursorType
    <3>4. QED
      BY <1>10, <3>3 DEF CommitCursor
  <2>2. mem' \in [Users -> State] /\ disk' \in [Users -> State] /\ file' \in FileKind
    BY <2>1, SetAndSaveType DEF FileKind, TypeOK
  <2>3. QED
    BY <1>10, <2>2 DEF CommitCursor, FileKind, TypeOK
<1>11. ASSUME NEW u \in Users, Restart(u) PROVE TypeOK'
  <2>1. LoadState(u) \in State
    BY EmptyStateType DEF LoadState, TypeOK
  <2>2. mem' \in [Users -> State]
    BY <1>11, <2>1, SetMemType DEF Restart, TypeOK
  <2>3. life' \in [Users -> 0..MaxRestarts]
    BY <1>11, BoundsAssumption DEF Restart, TypeOK
  <2>4. /\ file' \in FileKind /\ seen' \in [Users -> SUBSET Envelope]
        /\ inviting' \in [Users -> Users \cup {NoUser}]
    BY <1>11 DEF Restart, FileKind, TypeOK
  <2>5. /\ pc' \in [Users -> {"subscribe", "pull", "commit", "commit_presence"}]
        /\ lock' \in [Users -> {"free", "saving"}]
    BY <1>11 DEF Restart, TypeOK
  <2>6. QED
    BY <1>11, <2>2, <2>3, <2>4, <2>5 DEF Restart, FileKind, TypeOK
<1>12. ASSUME NEW u \in Users, Deliver(u) PROVE TypeOK'
  BY <1>12, SavedSame, LoopSame DEF Deliver, TypeOK
<1>13. ASSUME NEW u \in Users, Subscribe(u) PROVE TypeOK'
  <2>1. PICK o \in Nat :
          /\ from' = [from EXCEPT ![u] = o]
          /\ skipped' = [skipped EXCEPT ![u] = IF mem[u].cursor = 0 THEN o ELSE @]
    BY <1>13 DEF Subscribe
  <2>2. QED
    BY <1>13, <2>1, SavedSame DEF Subscribe, TypeOK
<1>14. QED
  BY <1>1, <1>2, <1>3, <1>4, <1>5, <1>6, <1>7, <1>8, <1>9, <1>10, <1>11, <1>12,
     <1>13 DEF Next

(* Every reachable state of Social is well typed.                          *)
THEOREM TypeCorrect == Spec => []TypeOK
<1>1. QED
  BY InitType, TypeStep, PTL DEF Spec

-----------------------------------------------------------------------------
(* The inductive invariant IInv.                                           *)

(* t comes after s in the life of u: nothing is forgotten and no answer    *)
(* of u's is changed.                                                      *)
Follows(u, s, t) == Extends(s, t) /\ AnswersStand(u, s, t)

LEMMA FollowsReflexive ==
  ASSUME NEW u, NEW s \in State PROVE Follows(u, s, s)
BY DEF Follows, Extends, AnswersStand, State

LEMMA FollowsTransitive ==
  ASSUME NEW u, NEW s \in State, NEW t \in State, NEW v \in State,
         Follows(u, s, t), Follows(u, t, v)
  PROVE  Follows(u, s, v)
<1>1. \A d \in DmId : s.dms[d] \in Nat /\ t.dms[d] \in Nat /\ v.dms[d] \in Nat
  BY DEF State
<1>2. /\ s.cursor \in Nat /\ t.cursor \in Nat /\ v.cursor \in Nat
      /\ s.presence \in Nat /\ t.presence \in Nat /\ v.presence \in Nat
  BY DEF State
<1>3. Extends(s, v)
  BY <1>1, <1>2 DEF Extends, Follows
<1>4. AnswersStand(u, s, v)
  BY DEF AnswersStand, Follows
<1>5. QED
  BY <1>3, <1>4 DEF Follows

(* How the maps of u change in a step that is not a restart: besides, only  *)
(* a request that was never sent becomes outgoing.                          *)
Evolves(u, s, t) ==
  /\ Follows(u, s, t)
  /\ \A r \in ReqId : t.requests[r] = "pending_out" =>
                        s.requests[r] = "pending_out" \/ Request(r) \notin sent

LEMMA EvolvesReflexive ==
  ASSUME NEW u, NEW s \in State PROVE Evolves(u, s, s)
BY FollowsReflexive DEF Evolves

LEMMA EvolvesTransitive ==
  ASSUME NEW u, NEW s \in State, NEW t \in State, NEW v \in State,
         Evolves(u, s, t), Evolves(u, t, v)
  PROVE  Evolves(u, s, v)
<1>1. Follows(u, s, v)
  BY FollowsTransitive DEF Evolves
<1>2. QED
  BY <1>1 DEF Evolves

(* What was applied stays applied.                                         *)
LEMMA AppliedStays ==
  ASSUME NEW u, NEW s \in State, NEW t \in State, NEW e \in Envelope, e \in sent,
         AnswersAsked, Evolves(u, s, t), Applied(s, e)
  PROVE  Applied(t, e)
<1>0. Extends(s, t)
  BY DEF Evolves, Follows
<1>1. CASE e.type = "friend_request"
  <2>1. e.ref \in ReqId
    BY <1>1, EnvelopeShape
  <2>2. QED
    BY <1>0, <1>1, <2>1 DEF Applied, Extends
<1>2. CASE e.type = "friend_response"
  <2>1. e.ref \in ReqId /\ Request(e.ref) \in sent
    BY <1>2, EnvelopeShape DEF AnswersAsked
  <2>2. t.requests[e.ref] # "pending_out"
    BY <1>2, <2>1 DEF Applied, Evolves
  <2>3. QED
    BY <1>0, <1>2, <2>2 DEF Applied, Extends
<1>3. CASE e.type = "dm_message"
  <2>1. e.ref \in DmId
    BY <1>3, EnvelopeShape
  <2>2. s.dms[e.ref] \in Nat /\ t.dms[e.ref] \in Nat /\ s.dms[e.ref] <= t.dms[e.ref]
    BY <1>0, <2>1 DEF State, Extends
  <2>3. QED
    BY <1>3, <2>2 DEF Applied
<1>4. QED
  BY <1>1, <1>2, <1>3, EnvelopeShape

(* Every update of the maps is an evolution.                               *)
LEMMA SetRequestEvolves ==
  ASSUME NEW u \in Users, NEW s \in State, NEW r \in ReqId, NEW st \in Status,
         st # "none",
         s.requests[r] \notin Decided \/ r.from = u \/ r.to # u,
         st = "pending_out" => Request(r) \notin sent
  PROVE  Evolves(u, s, SetRequest(s, r, st))
<1> DEFINE t == SetRequest(s, r, st)
<1>1. /\ t.requests = [s.requests EXCEPT ![r] = st]
      /\ t.friends = s.friends /\ t.dms = s.dms /\ t.nonces = s.nonces
      /\ t.presence = s.presence /\ t.cursor = s.cursor
      /\ s.requests \in [ReqId -> Status] /\ \A d \in DmId : s.dms[d] \in Nat
      /\ s.presence \in Nat /\ s.cursor \in Nat
  BY DEF SetRequest, State
<1> HIDE DEF t
<1>2. Extends(s, t)
  BY <1>1 DEF Extends
<1>3. AnswersStand(u, s, t)
  BY <1>1 DEF AnswersStand
<1>4. Evolves(u, s, t)
  BY <1>1, <1>2, <1>3 DEF Evolves, Follows
<1>5. QED
  BY <1>4 DEF t

(* An update that leaves the requests alone and takes nothing away.        *)
LEMMA RequestsKeptEvolves ==
  ASSUME NEW u, NEW s \in State, NEW t \in State, t.requests = s.requests,
         s.friends \subseteq t.friends, \A d \in DmId : s.dms[d] <= t.dms[d],
         s.nonces \subseteq t.nonces, s.presence <= t.presence, s.cursor <= t.cursor
  PROVE  Evolves(u, s, t)
BY DEF Evolves, Follows, Extends, AnswersStand

LEMMA AddFriendIfEvolves ==
  ASSUME NEW u, NEW s \in State, NEW v \in Users, NEW st
  PROVE  /\ Evolves(u, s, AddFriendIf(s, v, st))
         /\ AddFriendIf(s, v, st).requests = s.requests
         /\ AddFriendIf(s, v, st).dms = s.dms
         /\ AddFriendIf(s, v, st).cursor = s.cursor
<1> DEFINE t == AddFriendIf(s, v, st)
<1>1. /\ t \in State /\ t.requests = s.requests /\ s.friends \subseteq t.friends
      /\ t.dms = s.dms /\ t.nonces = s.nonces /\ t.presence = s.presence
      /\ t.cursor = s.cursor /\ s.presence \in Nat /\ s.cursor \in Nat
      /\ \A d \in DmId : s.dms[d] \in Nat
  BY AddFriendIfType DEF AddFriendIf, State
<1> HIDE DEF t
<1>2. Evolves(u, s, t)
  BY <1>1, RequestsKeptEvolves
<1>3. QED
  BY <1>1, <1>2 DEF t

LEMMA AddMessageEvolves ==
  ASSUME NEW u, NEW s \in State, NEW d \in DmId
  PROVE  /\ Evolves(u, s, AddMessage(s, d))
         /\ AddMessage(s, d).requests = s.requests
         /\ AddMessage(s, d).cursor = s.cursor
         /\ AddMessage(s, d).dms[d] = s.dms[d] + 1
         /\ \A c \in DmId : c # d => AddMessage(s, d).dms[c] = s.dms[c]
<1> DEFINE t == AddMessage(s, d)
<1>1. t \in State /\ s.presence \in Nat /\ s.cursor \in Nat /\ \A c \in DmId : s.dms[c] \in Nat
  BY AddMessageType DEF State
<1>2. /\ t.requests = s.requests /\ t.friends = s.friends /\ t.nonces = s.nonces
      /\ t.presence = s.presence /\ t.cursor = s.cursor
  BY DEF AddMessage, State
<1>3. t.dms[d] = s.dms[d] + 1 /\ \A c \in DmId : c # d => t.dms[c] = s.dms[c]
  BY DEF AddMessage, State
<1> HIDE DEF t
<1>4. \A c \in DmId : s.dms[c] <= t.dms[c]
  BY <1>1, <1>3
<1>5. Evolves(u, s, t)
  BY <1>1, <1>2, <1>4, RequestsKeptEvolves
<1>6. QED
  BY <1>2, <1>3, <1>5 DEF t

LEMMA SetKnownEvolves ==
  ASSUME NEW u, NEW s \in State, NEW v \in Users, NEW p \in Peer
  PROVE  /\ Evolves(u, s, SetKnown(s, v, p))
         /\ SetKnown(s, v, p).requests = s.requests
         /\ SetKnown(s, v, p).dms = s.dms
         /\ SetKnown(s, v, p).cursor = s.cursor
<1> DEFINE t == SetKnown(s, v, p)
<1>1. /\ t \in State /\ t.requests = s.requests /\ t.friends = s.friends
      /\ t.dms = s.dms /\ t.nonces = s.nonces /\ t.presence = s.presence
      /\ t.cursor = s.cursor /\ s.presence \in Nat /\ s.cursor \in Nat
      /\ \A d \in DmId : s.dms[d] \in Nat
  BY SetKnownType DEF SetKnown, State
<1> HIDE DEF t
<1>2. Evolves(u, s, t)
  BY <1>1, RequestsKeptEvolves
<1>3. QED
  BY <1>1, <1>2 DEF t

LEMMA UseNonceEvolves ==
  ASSUME NEW u, NEW s \in State, NEW i \in Invite
  PROVE  /\ Evolves(u, s, UseNonce(s, i))
         /\ UseNonce(s, i).requests = s.requests
         /\ UseNonce(s, i).dms = s.dms
         /\ UseNonce(s, i).cursor = s.cursor
<1> DEFINE t == UseNonce(s, i)
<1>1. /\ t \in State /\ t.requests = s.requests /\ t.friends = s.friends
      /\ t.dms = s.dms /\ s.nonces \subseteq t.nonces /\ t.presence = s.presence
      /\ t.cursor = s.cursor /\ s.presence \in Nat /\ s.cursor \in Nat
      /\ \A d \in DmId : s.dms[d] \in Nat
  BY UseNonceType DEF UseNonce, State
<1> HIDE DEF t
<1>2. Evolves(u, s, t)
  BY <1>1, RequestsKeptEvolves
<1>3. QED
  BY <1>1, <1>2 DEF t

LEMMA SetCursorEvolves ==
  ASSUME NEW u, NEW s \in State, NEW o \in Nat, o >= s.cursor
  PROVE  /\ Evolves(u, s, SetCursor(s, o))
         /\ SetCursor(s, o).requests = s.requests
         /\ SetCursor(s, o).dms = s.dms
         /\ SetCursor(s, o).cursor = o
<1> DEFINE t == SetCursor(s, o)
<1>1. /\ t \in State /\ t.requests = s.requests /\ t.friends = s.friends
      /\ t.dms = s.dms /\ t.nonces = s.nonces /\ t.presence = s.presence
      /\ t.cursor = o /\ s.presence \in Nat /\ s.cursor \in Nat
      /\ \A d \in DmId : s.dms[d] \in Nat
  BY SetCursorType DEF SetCursor, State
<1> HIDE DEF t
<1>2. Evolves(u, s, t)
  BY <1>1, RequestsKeptEvolves
<1>3. QED
  BY <1>1, <1>2 DEF t

LEMMA SetPresenceEvolves ==
  ASSUME NEW u, NEW s \in State, NEW o \in Nat, o >= s.presence
  PROVE  /\ Evolves(u, s, SetPresence(s, o))
         /\ SetPresence(s, o).requests = s.requests
         /\ SetPresence(s, o).dms = s.dms
         /\ SetPresence(s, o).cursor = s.cursor
<1> DEFINE t == SetPresence(s, o)
<1>1. /\ t \in State /\ t.requests = s.requests /\ t.friends = s.friends
      /\ t.dms = s.dms /\ t.nonces = s.nonces /\ t.presence = o
      /\ t.cursor = s.cursor /\ s.presence \in Nat /\ s.cursor \in Nat
      /\ \A d \in DmId : s.dms[d] \in Nat
  BY SetCursorType DEF SetPresence, State
<1> HIDE DEF t
<1>2. Evolves(u, s, t)
  BY <1>1, RequestsKeptEvolves
<1>3. QED
  BY <1>1, <1>2 DEF t

(* What the receive loop of w would handle depends on these alone.         *)
LEMMA SameRecord ==
  ASSUME NEW w, from'[w] = from[w], mem'[w].cursor = mem[w].cursor
  PROVE  /\ RecordOffset(w)' = RecordOffset(w)
         /\ NextRecord(w) = inbox[w][RecordOffset(w)]
         /\ NextRecord(w)' = inbox'[w][RecordOffset(w)]
BY DEF RecordOffset, NextRecord, NextOffset

(* What saveStateLocked leaves on disk.                                    *)
LEMMA SaveFacts ==
  ASSUME TypeOK, NEW u \in Users, NEW t, SaveState(u, t), file[u] # "lost"
  PROVE  /\ disk'[u] = disk[u] \/ disk'[u] = t
         /\ \A w \in Users \ {u} : disk'[w] = disk[w] /\ file'[w] = file[w]
         /\ file'[u] # "lost"
BY DEF SaveState, TypeOK

LEMMA SetMemFacts ==
  ASSUME TypeOK, NEW u \in Users, NEW t, SetMem(u, t)
  PROVE  /\ mem' = [mem EXCEPT ![u] = t] /\ mem'[u] = t
         /\ \A w \in Users \ {u} : mem'[w] = mem[w]
BY DEF SetMem, TypeOK

(* A step that is neither a restart nor the commit of an inbox record:     *)
(* nothing is received, what is published answers only requests that were  *)
(* sent.                                                                   *)
Quiet(u) ==
  /\ UNCHANGED <<seen, from, skipped, life, inbox>>
  /\ \A w \in Users : pc'[w] = "commit" => pc[w] = "commit"
  /\ \A w \in Users : pc[w] = "subscribe" => pc'[w] = "subscribe"
  /\ \A w \in Users \ {u} : /\ mem'[w] = mem[w] /\ disk'[w] = disk[w]
                            /\ file'[w] = file[w] /\ lock'[w] = lock[w]
  /\ file[u] # "lost" /\ file'[u] # "lost"
  /\ Evolves(u, mem[u], mem'[u])
  /\ disk'[u] = disk[u] \/ disk'[u] = mem'[u]
  /\ mem'[u].cursor = mem[u].cursor
  /\ \A r \in ReqId : mem'[u].requests[r] = "pending_in" => mem[u].requests[r] = "pending_in"
  /\ \A d \in DmId : d.to = u /\ d.from # u => mem'[u].dms[d] = mem[u].dms[d]
  /\ sent \subseteq sent'
  /\ \A e \in sent' \ sent : e.type = "friend_response" => Request(e.ref) \in sent

(* The file after a step of u that saves or does not.                      *)
LEMMA DiskStays ==
  ASSUME IInv, TypeOK', NEW u \in Users,
         \A w \in Users \ {u} : /\ mem'[w] = mem[w] /\ disk'[w] = disk[w]
                                /\ file'[w] = file[w] /\ lock'[w] = lock[w],
         file[u] # "lost", file'[u] # "lost",
         Evolves(u, mem[u], mem'[u]),
         disk'[u] = disk[u] \/ disk'[u] = mem'[u]
  PROVE  /\ DiskBehind'
         /\ \A w \in Users : Follows(w, disk[w], disk'[w])
<1>1. \A w \in Users : /\ mem[w] \in State /\ mem'[w] \in State
                       /\ disk[w] \in State /\ disk'[w] \in State
  BY DEF IInv, TypeOK
<1>2. Follows(u, disk[u], mem[u]) /\ Follows(u, mem[u], mem'[u])
  BY DEF IInv, DiskBehind, Follows, Evolves
<1>3. Follows(u, disk[u], mem'[u])
  BY <1>1, <1>2, FollowsTransitive
<1>4. Follows(u, disk'[u], mem'[u]) /\ Follows(u, disk[u], disk'[u])
  BY <1>1, <1>3, FollowsReflexive
<1>5. DiskBehind'
  <2> SUFFICES ASSUME NEW w \in Users
               PROVE  IF file'[w] = "lost" THEN lock'[w] = "free"
                      ELSE Extends(disk'[w], mem'[w]) /\ AnswersStand(w, disk'[w], mem'[w])
    BY DEF DiskBehind
  <2>1. CASE w = u
    BY <1>4, <2>1 DEF Follows
  <2>2. CASE w # u
    BY <2>2 DEF IInv, DiskBehind
  <2>3. QED
    BY <2>1, <2>2
<1>6. \A w \in Users : Follows(w, disk[w], disk'[w])
  <2> SUFFICES ASSUME NEW w \in Users, w # u PROVE Follows(w, disk[w], disk'[w])
    BY <1>4
  <2>1. QED
    BY <1>1, FollowsReflexive
<1>7. QED
  BY <1>5, <1>6

(* A record of the inbox that was sent to w and applied stays applied.     *)
LEMMA CommittedStays ==
  ASSUME IInv, TypeOK', NEW w \in Users, inbox' = inbox, skipped'[w] = skipped[w],
         Evolves(w, mem[w], mem'[w]), mem'[w].cursor = mem[w].cursor,
         disk'[w] = disk[w] \/ disk'[w] = mem'[w]
  PROVE  /\ \A i \in (skipped'[w] + 1)..mem'[w].cursor : Applied(mem'[w], inbox'[w][i])
         /\ \A i \in (skipped'[w] + 1)..disk'[w].cursor : Applied(disk'[w], inbox'[w][i])
<1>1. /\ mem[w] \in State /\ mem'[w] \in State /\ disk[w] \in State
      /\ skipped[w] \in Nat /\ mem[w].cursor \in Nat
  BY DEF IInv, TypeOK, State
<1>2. ASSUME NEW i \in (skipped[w] + 1)..mem[w].cursor PROVE Applied(mem'[w], inbox[w][i])
  <2>1. i \in 1..Len(inbox[w])
    <3>1. Len(inbox[w]) \in Nat /\ mem[w].cursor <= Len(inbox[w])
      BY DEF IInv, CursorSound, TypeOK
    <3>2. QED
      BY <1>1, <3>1
  <2>2. inbox[w][i] \in sent /\ inbox[w][i] \in Envelope
    BY <2>1 DEF IInv, LogSound, TypeOK
  <2>3. Applied(mem[w], inbox[w][i]) /\ AnswersAsked
    BY <1>2 DEF IInv, CommittedIsDurable
  <2>4. QED
    BY <1>1, <2>2, <2>3, AppliedStays
<1>3. \A i \in (skipped[w] + 1)..disk[w].cursor : Applied(disk[w], inbox[w][i])
  BY DEF IInv, CommittedIsDurable
<1>4. QED
  BY <1>2, <1>3

(* CommittedIsDurable of one user, and of its step.                        *)
LEMMA CommittedOfAll ==
  ASSUME \A w \in Users :
           /\ \A i \in (skipped'[w] + 1)..mem'[w].cursor : Applied(mem'[w], inbox'[w][i])
           /\ \A i \in (skipped'[w] + 1)..disk'[w].cursor : Applied(disk'[w], inbox'[w][i])
  PROVE  CommittedIsDurable'
BY DEF CommittedIsDurable

(* What was seen has still had its effect.                                 *)
LEMMA SeenStays ==
  ASSUME IInv, TypeOK', NEW w \in Users, NEW e \in seen[w], sent \subseteq sent',
         Evolves(w, mem[w], mem'[w])
  PROVE  e \in sent' /\ e.to = w /\ Applied(mem'[w], e)
<1>1. /\ e \in sent /\ e \in Envelope /\ e.to = w /\ Applied(mem[w], e) /\ AnswersAsked
      /\ mem[w] \in State /\ mem'[w] \in State
  BY DEF IInv, SeenApplied, TypeOK
<1>2. QED
  BY <1>1, AppliedStays

LEMMA QuietStep ==
  ASSUME IInv, TypeOK', NEW u \in Users, Quiet(u)
  PROVE  IInv'
<1>1. \A w \in Users : /\ mem[w] \in State /\ mem'[w] \in State
                       /\ disk[w] \in State /\ disk'[w] \in State
                       /\ mem[w].cursor \in Nat /\ from[w] \in Nat
  BY DEF IInv, TypeOK, State
<1>2. \A w \in Users : Evolves(w, mem[w], mem'[w])
  BY <1>1, EvolvesReflexive DEF Quiet
<1>3. \A w \in Users : disk'[w] = disk[w] \/ disk'[w] = mem'[w]
  BY DEF Quiet
<1>4. \A w \in Users : mem'[w].cursor = mem[w].cursor
  BY DEF Quiet
<1>5. LogSound'
  BY DEF IInv, LogSound, Quiet
<1>6. AnswersAsked'
  BY DEF IInv, AnswersAsked, Quiet, Request
<1>7. PendingSound'
  <2> SUFFICES ASSUME NEW w \in Users, NEW r \in ReqId,
                      mem'[w].requests[r] = "pending_in" \/ disk'[w].requests[r] = "pending_in"
               PROVE  r.to = w /\ Request(r) \in sent'
    BY DEF PendingSound
  <2>1. mem[w].requests[r] = "pending_in" \/ disk[w].requests[r] = "pending_in"
    BY <1>3 DEF Quiet
  <2>2. QED
    BY <2>1 DEF IInv, PendingSound, Quiet
<1>8. FromSound'
  BY <1>4 DEF IInv, FromSound, Quiet
<1>9. CursorSound'
  <2> SUFFICES ASSUME NEW w \in Users
               PROVE  /\ mem'[w].cursor <= Len(inbox'[w]) /\ disk'[w].cursor <= Len(inbox'[w])
                      /\ pc'[w] = "commit" => /\ RecordOffset(w)' <= Len(inbox'[w])
                                              /\ NextRecord(w)' \in seen'[w]
    BY DEF CursorSound
  <2>1. inbox' = inbox /\ seen' = seen /\ from'[w] = from[w]
    BY DEF Quiet
  <2>2. RecordOffset(w)' = RecordOffset(w) /\ NextRecord(w)' = NextRecord(w)
    BY <1>4, <2>1, SameRecord
  <2>3. disk'[w].cursor <= Len(inbox[w]) /\ mem'[w].cursor <= Len(inbox[w])
    BY <1>3, <1>4 DEF IInv, CursorSound
  <2>4. QED
    BY <2>1, <2>2, <2>3 DEF IInv, CursorSound, Quiet
<1>10. SeenApplied'
  <2> SUFFICES ASSUME NEW w \in Users, NEW e \in seen[w]
               PROVE  e \in sent' /\ e.to = w /\ Applied(mem'[w], e)
    BY DEF SeenApplied, Quiet
  <2>1. QED
    BY <1>2, SeenStays DEF Quiet
<1>11. CommittedIsDurable'
  <2>1. inbox' = inbox /\ \A w \in Users : skipped'[w] = skipped[w]
    BY DEF Quiet
  <2>2. QED
    BY <1>2, <1>3, <1>4, <2>1, CommittedStays, CommittedOfAll
<1>12. DiskBehind'
  BY DiskStays DEF Quiet
<1>13. CopiesCounted'
  <2> SUFFICES ASSUME NEW w \in Users, NEW d \in DmId, d.to = w, d.from # w
               PROVE  /\ mem'[w].dms[d] <= life[w] + (IF Message(d) \in seen[w] THEN 1 ELSE 0)
                      /\ disk'[w].dms[d] <= life[w] + 1
    BY DEF CopiesCounted, Quiet
  <2>1. mem'[w].dms[d] = mem[w].dms[d]
    BY DEF Quiet
  <2>2. mem[w].dms[d] \in Nat /\ life[w] \in Nat
    <3>1. mem[w].dms[d] \in Nat
      BY <1>1 DEF State
    <3>2. life[w] \in Nat
      BY BoundsAssumption DEF IInv, TypeOK
    <3>3. QED
      BY <3>1, <3>2
  <2>3. /\ mem[w].dms[d] <= life[w] + (IF Message(d) \in seen[w] THEN 1 ELSE 0)
        /\ disk[w].dms[d] <= life[w] + 1
    BY DEF IInv, CopiesCounted
  <2>4. mem[w].dms[d] <= life[w] + 1
    BY <2>2, <2>3
  <2>5. QED
    BY <1>3, <2>1, <2>3, <2>4
<1>14. QED
  BY <1>5, <1>6, <1>7, <1>8, <1>9, <1>10, <1>11, <1>12, <1>13 DEF IInv

(* A publish adds at most its own envelope.                                *)
LEMMA PublishSent ==
  ASSUME NEW u, NEW e, Publish(u, e)
  PROVE  sent \subseteq sent' /\ sent' \subseteq sent \cup {e}
BY DEF Publish

LEMMA OtherLocks ==
  ASSUME TypeOK, NEW u \in Users, NEW e, Publish(u, e) \/ ReturnError
  PROVE  \A w \in Users : w # u => lock'[w] = lock[w]
BY DEF Publish, ReturnError, TypeOK

(* A handler that changes u's maps to t and publishes, or returns an error. *)
LEMMA PublishedQuiet ==
  ASSUME IInv, NEW u \in Users, NEW t \in State, SetMem(u, t), Free(u),
         UNCHANGED <<disk, file, seen, pc, from, skipped, life, inbox>>,
         \A w \in Users : w # u => lock'[w] = lock[w],
         sent \subseteq sent',
         \A e \in sent' \ sent : e.type = "friend_response" => Request(e.ref) \in sent,
         Evolves(u, mem[u], t), t.cursor = mem[u].cursor,
         \A r \in ReqId : t.requests[r] = "pending_in" => mem[u].requests[r] = "pending_in",
         \A d \in DmId : d.to = u /\ d.from # u => t.dms[d] = mem[u].dms[d]
  PROVE  Quiet(u)
<1>1. mem'[u] = t /\ \A w \in Users \ {u} : mem'[w] = mem[w]
  BY SetMemFacts DEF IInv
<1>2. QED
  BY <1>1 DEF Quiet, Free

LEMMA RequestFriendQuiet ==
  ASSUME IInv, NEW u \in Users, NEW v \in Users, RequestFriend(u, v)
  PROVE  Quiet(u)
<1>1. PICK r \in ReqId : /\ mem[u].requests[r] = "none" /\ Request(r) \notin sent
                         /\ SetMem(u, SetRequest(mem[u], r, "pending_out"))
                         /\ Publish(u, Request(r))
  BY DEF RequestFriend
<1> DEFINE t == SetRequest(mem[u], r, "pending_out")
<1>2. mem[u] \in State /\ "pending_out" \in Status
  BY DEF IInv, TypeOK, Status
<1>3. t \in State /\ Evolves(u, mem[u], t)
  BY <1>1, <1>2, SetRequestType, SetRequestEvolves DEF Decided
<1>4. \A e \in sent' \ sent : e.type = "friend_request"
  BY <1>1, PublishSent DEF Request
<1>5. /\ t.cursor = mem[u].cursor
      /\ t.dms = mem[u].dms
      /\ \A q \in ReqId : t.requests[q] = "pending_in" => mem[u].requests[q] = "pending_in"
  BY <1>2 DEF SetRequest, State
<1>6. sent \subseteq sent' /\ \A w \in Users : w # u => lock'[w] = lock[w]
  BY <1>1, PublishSent, OtherLocks DEF IInv
<1>7. Free(u) /\ UNCHANGED <<disk, file, seen, pc, from, skipped, life, inbox>>
  BY SavedSame, LoopSame DEF RequestFriend
<1>8. SetMem(u, t)
  BY <1>1
<1> HIDE DEF t
<1>9. QED
  BY <1>3, <1>4, <1>5, <1>6, <1>7, <1>8, PublishedQuiet

LEMMA RespondQuiet ==
  ASSUME IInv, NEW u \in Users, RespondFriendRequest(u)
  PROVE  Quiet(u)
<1>1. PICK r \in ReqId, st \in Decided :
        /\ mem[u].requests[r] = "pending_in"
        /\ SetMem(u, AddFriendIf(SetRequest(mem[u], r, st), r.from, st))
        /\ IF mem[u].known[r.from] = "unknown" THEN ReturnError
           ELSE Publish(u, Response(r, st, life[u]))
  BY DEF RespondFriendRequest, CanAnswer
<1> DEFINE s == SetRequest(mem[u], r, st)
           t == AddFriendIf(s, r.from, st)
<1>2. /\ mem[u] \in State /\ st \in Status /\ st # "none" /\ st # "pending_out"
      /\ st # "pending_in" /\ r.from \in Users
  BY BoundsAssumption DEF IInv, TypeOK, Status, Decided
<1>3. s \in State /\ t \in State
  BY <1>2, SetRequestType, AddFriendIfType
<1>4. Evolves(u, mem[u], s)
  BY <1>1, <1>2, SetRequestEvolves DEF Decided
<1>5. /\ s.cursor = mem[u].cursor
      /\ s.dms = mem[u].dms
      /\ \A q \in ReqId : s.requests[q] = "pending_in" => mem[u].requests[q] = "pending_in"
  BY <1>2 DEF SetRequest, State
<1>6. SetMem(u, t) /\ t = AddFriendIf(s, r.from, st)
  BY <1>1
<1> HIDE DEF s, t
<1>7. /\ Evolves(u, s, t) /\ t.requests = s.requests /\ t.dms = s.dms /\ t.cursor = s.cursor
  BY <1>2, <1>3, <1>6, AddFriendIfEvolves
<1>8. Evolves(u, mem[u], t)
  BY <1>2, <1>3, <1>4, <1>7, EvolvesTransitive
<1>9. /\ sent \subseteq sent' /\ sent' \subseteq sent \cup {Response(r, st, life[u])}
      /\ \A w \in Users : w # u => lock'[w] = lock[w]
  BY <1>1, PublishSent, OtherLocks DEF ReturnError, IInv
<1>10. Request(r) \in sent
  BY <1>1 DEF IInv, PendingSound
<1>11. \A e \in sent' \ sent : e.type = "friend_response" => Request(e.ref) \in sent
  BY <1>9, <1>10 DEF Response
<1>12. Free(u) /\ UNCHANGED <<disk, file, seen, pc, from, skipped, life, inbox>>
  BY SavedSame, LoopSame DEF RespondFriendRequest
<1>13. QED
  BY <1>3, <1>5, <1>6, <1>7, <1>8, <1>9, <1>11, <1>12, PublishedQuiet

LEMMA SendMessageQuiet ==
  ASSUME IInv, NEW u \in Users, SendDirectMessage(u)
  PROVE  Quiet(u)
<1>1. PICK d \in DmId : /\ d.from = u
                        /\ SetMem(u, AddMessage(mem[u], d))
                        /\ IF mem[u].known[d.to] = "no_peer" THEN ReturnError
                           ELSE Publish(u, Message(d))
  BY DEF SendDirectMessage
<1> DEFINE t == AddMessage(mem[u], d)
<1>2. mem[u] \in State
  BY DEF IInv, TypeOK
<1>3. /\ t \in State /\ Evolves(u, mem[u], t) /\ t.cursor = mem[u].cursor
      /\ t.requests = mem[u].requests
      /\ \A c \in DmId : c # d => t.dms[c] = mem[u].dms[c]
  BY <1>2, AddMessageType, AddMessageEvolves
<1>4. \A c \in DmId : c.to = u /\ c.from # u => t.dms[c] = mem[u].dms[c]
  BY <1>1, <1>3
<1>5. /\ sent \subseteq sent' /\ sent' \subseteq sent \cup {Message(d)}
      /\ \A w \in Users : w # u => lock'[w] = lock[w]
  BY <1>1, PublishSent, OtherLocks DEF ReturnError, IInv
<1>6. \A e \in sent' \ sent : e.type = "dm_message"
  BY <1>5 DEF Message
<1>7. Free(u) /\ UNCHANGED <<disk, file, seen, pc, from, skipped, life, inbox>>
  BY SavedSame, LoopSame DEF SendDirectMessage
<1>8. SetMem(u, t)
  BY <1>1
<1> HIDE DEF t
<1>9. QED
  BY <1>3, <1>4, <1>5, <1>6, <1>7, <1>8, PublishedQuiet

(* An update that is saved at once, and publishes nothing.                 *)
LEMMA SavedQuiet ==
  ASSUME IInv, NEW u \in Users, NEW t \in State, SetAndSave(u, t), Free(u),
         UNCHANGED <<seen, from, skipped, lock, life, sent, inbox>>,
         \A w \in Users : pc'[w] = "commit" => pc[w] = "commit",
         \A w \in Users : pc[w] = "subscribe" => pc'[w] = "subscribe",
         Evolves(u, mem[u], t), t.cursor = mem[u].cursor,
         t.requests = mem[u].requests, t.dms = mem[u].dms
  PROVE  Quiet(u)
<1>1. mem'[u] = t /\ \A w \in Users \ {u} : mem'[w] = mem[w]
  BY SetMemFacts DEF SetAndSave, IInv
<1>2. /\ disk'[u] = disk[u] \/ disk'[u] = t
      /\ \A w \in Users \ {u} : disk'[w] = disk[w] /\ file'[w] = file[w]
      /\ file[u] # "lost" /\ file'[u] # "lost"
  BY SaveFacts DEF SetAndSave, IInv, Free
<1>3. QED
  BY <1>1, <1>2 DEF Quiet

LEMMA SaveQuiet ==
  ASSUME IInv, NEW u \in Users, Save(u)
  PROVE  Quiet(u)
<1>1. mem[u] \in State /\ Evolves(u, mem[u], mem[u])
  BY EvolvesReflexive DEF IInv, TypeOK
<1>2. file[u] # "lost"
  BY DEF Save, IInv, DiskBehind
<1>3. /\ disk'[u] = disk[u] \/ disk'[u] = mem[u]
      /\ \A w \in Users \ {u} : disk'[w] = disk[w] /\ file'[w] = file[w]
      /\ file'[u] # "lost"
  BY <1>2, SaveFacts DEF Save, IInv
<1>4. /\ mem' = mem /\ \A w \in Users \ {u} : lock'[w] = lock[w]
      /\ UNCHANGED <<pc, from, skipped, seen, life, sent, inbox>>
  BY LoopSame DEF Save, IInv, TypeOK
<1>5. QED
  BY <1>1, <1>2, <1>3, <1>4 DEF Quiet

LEMMA ConsumeInviteQuiet ==
  ASSUME IInv, NEW u \in Users, ConsumeInvite(u)
  PROVE  Quiet(u)
<1>1. PICK i \in Invite : SetAndSave(u, SetKnown(UseNonce(mem[u], i), i.owner, "no_peer"))
  BY DEF ConsumeInvite
<1> DEFINE s == UseNonce(mem[u], i)
           t == SetKnown(s, i.owner, "no_peer")
<1>2. mem[u] \in State /\ i.owner \in Users /\ "no_peer" \in Peer
  BY BoundsAssumption DEF IInv, TypeOK, Peer
<1>3. s \in State /\ t \in State
  BY <1>2, UseNonceType, SetKnownType
<1>4. /\ Evolves(u, mem[u], s) /\ s.cursor = mem[u].cursor
      /\ s.requests = mem[u].requests /\ s.dms = mem[u].dms
  BY <1>2, UseNonceEvolves
<1>5. SetAndSave(u, t) /\ t = SetKnown(s, i.owner, "no_peer")
  BY <1>1
<1> HIDE DEF s, t
<1>6. /\ Evolves(u, s, t) /\ t.cursor = s.cursor
      /\ t.requests = s.requests /\ t.dms = s.dms
  BY <1>2, <1>3, <1>5, SetKnownEvolves
<1>7. Evolves(u, mem[u], t)
  BY <1>2, <1>3, <1>4, <1>6, EvolvesTransitive
<1>8. Free(u) /\ UNCHANGED <<seen, pc, from, skipped, lock, life, sent, inbox>>
  BY LoopSame DEF ConsumeInvite
<1>9. QED
  BY <1>3, <1>4, <1>5, <1>6, <1>7, <1>8, SavedQuiet

LEMMA HandlePresenceQuiet ==
  ASSUME IInv, NEW u \in Users, HandlePresence(u)
  PROVE  Quiet(u)
<1>1. /\ Free(u) /\ UNCHANGED <<seen, from, skipped, lock, life, sent, inbox>>
      /\ \A w \in Users : pc'[w] = "commit" => pc[w] = "commit"
      /\ \A w \in Users : pc[w] = "subscribe" => pc'[w] = "subscribe"
  BY DEF HandlePresence, IInv, TypeOK
<1>2. mem[u] \in State
  BY DEF IInv, TypeOK
<1>3. CASE UNCHANGED <<mem, saved>>
  <2>1. mem' = mem /\ disk' = disk /\ file' = file /\ Evolves(u, mem[u], mem[u])
    BY <1>2, <1>3, SavedSame, EvolvesReflexive
  <2>2. QED
    BY <1>1, <2>1 DEF Quiet, Free
<1>4. CASE \E v \in Users \ {u}, p \in {"no_peer", "peer"} :
             SetAndSave(u, SetKnown(mem[u], v, p))
  <2>1. PICK v \in Users, p \in Peer : SetAndSave(u, SetKnown(mem[u], v, p))
    BY <1>4 DEF Peer
  <2> DEFINE t == SetKnown(mem[u], v, p)
  <2>2. /\ t \in State /\ Evolves(u, mem[u], t) /\ SetAndSave(u, t)
        /\ t.cursor = mem[u].cursor /\ t.requests = mem[u].requests /\ t.dms = mem[u].dms
    BY <1>2, <2>1, SetKnownType, SetKnownEvolves
  <2> HIDE DEF t
  <2>3. QED
    BY <1>1, <2>2, SavedQuiet
<1>5. QED
  BY <1>3, <1>4 DEF HandlePresence

(* commitCursor of a presence record.                                      *)
LEMMA CommitPresenceQuiet ==
  ASSUME IInv, NEW u \in Users, CommitCursor(u), pc[u] # "commit"
  PROVE  Quiet(u)
<1> DEFINE o == NextOffset(u, mem[u].presence)
           t == SetPresence(mem[u], o)
<1>1. /\ Free(u) /\ UNCHANGED <<seen, from, skipped, lock, life, sent, inbox>>
      /\ \A w \in Users : pc'[w] = "commit" => pc[w] = "commit"
      /\ \A w \in Users : pc[w] = "subscribe" => pc'[w] = "subscribe"
      /\ SetAndSave(u, t)
  BY DEF CommitCursor, IInv, TypeOK
<1>2. mem[u] \in State /\ mem[u].presence \in Nat
  BY DEF IInv, TypeOK, State
<1>3. o \in Nat /\ o >= mem[u].presence
  BY <1>2, NextOffsetType DEF IInv
<1> HIDE DEF o
<1>4. /\ t \in State /\ Evolves(u, mem[u], t)
      /\ t.cursor = mem[u].cursor /\ t.requests = mem[u].requests /\ t.dms = mem[u].dms
  BY <1>2, <1>3, SetCursorType, SetPresenceEvolves
<1> HIDE DEF t
<1>5. QED
  BY <1>1, <1>4, SavedQuiet

(* A step that changes at most whose invite is being worked on.            *)
LEMMA SameStep ==
  ASSUME IInv, TypeOK', UNCHANGED <<mem, saved, seen, loop, lock, life, sent, inbox>>
  PROVE  IInv'
<1>1. UNCHANGED <<mem, disk, file, seen, pc, from, skipped, lock, life, sent, inbox>>
  BY SavedSame, LoopSame
<1>2. LogSound' /\ AnswersAsked' /\ PendingSound' /\ FromSound'
  BY <1>1 DEF IInv, LogSound, AnswersAsked, PendingSound, FromSound
<1>3. CursorSound' /\ SeenApplied'
  BY <1>1 DEF IInv, CursorSound, SeenApplied, RecordOffset, NextRecord, NextOffset
<1>4. CommittedIsDurable' /\ DiskBehind' /\ CopiesCounted'
  BY <1>1 DEF IInv, CommittedIsDurable, DiskBehind, CopiesCounted
<1>5. QED
  BY <1>2, <1>3, <1>4 DEF IInv

LEMMA RequestByInviteStep ==
  ASSUME IInv, TypeOK', NEW u \in Users, RequestByInvite(u)
  PROVE  IInv'
<1>1. CASE RequestFriend(u, inviting[u])
  <2>1. inviting[u] \in Users
    BY DEF RequestByInvite, IInv, TypeOK
  <2>2. QED
    BY <1>1, <2>1, RequestFriendQuiet, QuietStep
<1>2. CASE UNCHANGED <<mem, saved, seen, loop, lock, life, sent, inbox>>
  BY <1>2, SameStep
<1>3. QED
  BY <1>1, <1>2 DEF RequestByInvite

(* The record about to be handled was sent to u.                           *)
LEMMA PulledSound ==
  ASSUME IInv, NEW u \in Users, Pulled(u)
  PROVE  /\ NextRecord(u) \in Envelope /\ NextRecord(u) \in sent
         /\ NextRecord(u).to = u /\ file[u] # "lost"
<1>1. /\ RecordOffset(u) \in 1..Len(inbox[u]) /\ NextRecord(u) \in Envelope
      /\ NextRecord(u) = inbox[u][RecordOffset(u)]
  BY NextRecordType DEF IInv
<1>2. QED
  BY <1>1 DEF IInv, LogSound, Pulled, Free

(* A record with a new msg_id is handled: the maps of u become t, in which *)
(* the record is applied.                                                  *)
Receive(u, t) ==
  /\ MarkSeen(u)
  /\ mem' = [mem EXCEPT ![u] = t]
  /\ \A w \in Users \ {u} : disk'[w] = disk[w] /\ file'[w] = file[w]
  /\ disk'[u] = disk[u] \/ disk'[u] = t
  /\ file'[u] # "lost"
  /\ Evolves(u, mem[u], t)
  /\ t.cursor = mem[u].cursor
  /\ Applied(t, NextRecord(u))
  /\ \A r \in ReqId : t.requests[r] = "pending_in" =>
       mem[u].requests[r] = "pending_in" \/ NextRecord(u) = Request(r)
  /\ \A d \in DmId : d.to = u /\ d.from # u =>
       t.dms[d] <= mem[u].dms[d] + (IF Message(d) = NextRecord(u) THEN 1 ELSE 0)

LEMMA ReceiveStep ==
  ASSUME IInv, TypeOK', NEW u \in Users, NEW t \in State, Receive(u, t)
  PROVE  /\ IInv'
         /\ \A w \in Users : Follows(w, disk[w], disk'[w])
<1> DEFINE e == NextRecord(u)
<1>1. /\ Pulled(u) /\ e \notin seen[u]
      /\ seen' = [seen EXCEPT ![u] = @ \cup {e}]
      /\ pc' = [pc EXCEPT ![u] = "commit"]
      /\ UNCHANGED <<from, skipped, lock, inviting, life, sent, inbox>>
  BY DEF Receive, MarkSeen
<1>2. e \in Envelope /\ e \in sent /\ e.to = u /\ file[u] # "lost"
  BY <1>1, PulledSound
<1>3. \A w \in Users : /\ mem[w] \in State /\ mem'[w] \in State
                       /\ disk[w] \in State /\ disk'[w] \in State
  BY DEF IInv, TypeOK
<1>4. mem'[u] = t /\ \A w \in Users \ {u} : mem'[w] = mem[w]
  BY DEF Receive, IInv, TypeOK
<1>5. \A w \in Users : Evolves(w, mem[w], mem'[w]) /\ mem'[w].cursor = mem[w].cursor
  BY <1>3, <1>4, EvolvesReflexive DEF Receive
<1>6. \A w \in Users : disk'[w] = disk[w] \/ disk'[w] = mem'[w]
  BY <1>4 DEF Receive
<1>7. LogSound' /\ AnswersAsked'
  BY <1>1 DEF IInv, LogSound, AnswersAsked
<1>8. PendingSound'
  <2> SUFFICES ASSUME NEW w \in Users, NEW r \in ReqId,
                      mem'[w].requests[r] = "pending_in" \/ disk'[w].requests[r] = "pending_in"
               PROVE  r.to = w /\ Request(r) \in sent
    BY <1>1 DEF PendingSound
  <2>1. \/ mem[w].requests[r] = "pending_in" \/ disk[w].requests[r] = "pending_in"
        \/ w = u /\ e = Request(r)
    BY <1>4, <1>6 DEF Receive
  <2>2. QED
    BY <1>2, <2>1 DEF IInv, PendingSound, Request
<1>9. FromSound'
  <2>1. \A w \in Users : pc'[w] # "subscribe" => pc[w] # "subscribe"
    BY <1>1 DEF Pulled, IInv, TypeOK
  <2>2. QED
    BY <1>1, <1>5, <2>1 DEF IInv, FromSound
<1>10. CursorSound'
  <2> SUFFICES ASSUME NEW w \in Users
               PROVE  /\ mem'[w].cursor <= Len(inbox'[w]) /\ disk'[w].cursor <= Len(inbox'[w])
                      /\ pc'[w] = "commit" => /\ RecordOffset(w)' <= Len(inbox'[w])
                                              /\ NextRecord(w)' \in seen'[w]
    BY DEF CursorSound
  <2>1. inbox' = inbox /\ from'[w] = from[w]
    BY <1>1
  <2>2. RecordOffset(w)' = RecordOffset(w) /\ NextRecord(w)' = NextRecord(w)
    BY <1>5, <2>1, SameRecord
  <2>3. disk'[w].cursor <= Len(inbox[w]) /\ mem'[w].cursor <= Len(inbox[w])
    BY <1>5, <1>6 DEF IInv, CursorSound
  <2>4. CASE w = u
    <3>1. RecordOffset(u) <= Len(inbox[u])
      BY <1>1 DEF Pulled, RecordOffset
    <3>2. e \in seen'[u]
      BY <1>1 DEF IInv, TypeOK
    <3>3. QED
      BY <2>1, <2>2, <2>3, <2>4, <3>1, <3>2
  <2>5. CASE w # u
    <3>1. pc'[w] = pc[w] /\ seen'[w] = seen[w]
      BY <1>1, <2>5 DEF IInv, TypeOK
    <3>2. QED
      BY <2>1, <2>2, <2>3, <3>1 DEF IInv, CursorSound
  <2>6. QED
    BY <2>4, <2>5
<1>11. SeenApplied'
  <2> SUFFICES ASSUME NEW w \in Users, NEW f \in seen'[w]
               PROVE  f \in sent' /\ f.to = w /\ Applied(mem'[w], f)
    BY DEF SeenApplied
  <2>1. CASE f \in seen[w]
    BY <1>1, <1>5, <2>1, SeenStays
  <2>2. CASE w = u /\ f = e
    BY <1>1, <1>2, <1>4, <2>2 DEF Receive
  <2>3. QED
    BY <1>1, <2>1, <2>2 DEF IInv, TypeOK
<1>12. CommittedIsDurable'
  <2>1. inbox' = inbox /\ \A w \in Users : skipped'[w] = skipped[w]
    BY <1>1
  <2>2. QED
    BY <1>5, <1>6, <2>1, CommittedStays, CommittedOfAll
<1>13. DiskBehind' /\ \A w \in Users : Follows(w, disk[w], disk'[w])
  <2>1. \A w \in Users \ {u} : /\ mem'[w] = mem[w] /\ disk'[w] = disk[w]
                               /\ file'[w] = file[w] /\ lock'[w] = lock[w]
    BY <1>1, <1>4 DEF Receive
  <2>2. file[u] # "lost" /\ file'[u] # "lost" /\ Evolves(u, mem[u], mem'[u])
    BY <1>2, <1>5 DEF Receive
  <2>3. QED
    BY <1>6, <2>1, <2>2, DiskStays
<1>14. CopiesCounted'
  <2> SUFFICES ASSUME NEW w \in Users, NEW d \in DmId, d.to = w, d.from # w
               PROVE  /\ mem'[w].dms[d] <= life[w] + (IF Message(d) \in seen'[w] THEN 1 ELSE 0)
                      /\ disk'[w].dms[d] <= life[w] + 1
    BY <1>1 DEF CopiesCounted
  <2>1. /\ mem[w].dms[d] \in Nat /\ mem'[w].dms[d] \in Nat /\ life[w] \in Nat
        /\ mem[w].dms[d] <= life[w] + (IF Message(d) \in seen[w] THEN 1 ELSE 0)
        /\ disk[w].dms[d] <= life[w] + 1
    <3>1. mem[w].dms[d] \in Nat /\ mem'[w].dms[d] \in Nat
      BY <1>3 DEF State
    <3>2. life[w] \in Nat
      BY BoundsAssumption DEF IInv, TypeOK
    <3>3. /\ mem[w].dms[d] <= life[w] + (IF Message(d) \in seen[w] THEN 1 ELSE 0)
          /\ disk[w].dms[d] <= life[w] + 1
      BY DEF IInv, CopiesCounted
    <3>4. QED
      BY <3>1, <3>2, <3>3
  <2>2. mem'[w].dms[d] <= life[w] + (IF Message(d) \in seen'[w] THEN 1 ELSE 0)
    <3>1. CASE w # u
      <4>1. mem'[w] = mem[w] /\ seen'[w] = seen[w]
        BY <1>1, <1>4, <3>1 DEF IInv, TypeOK
      <4>2. QED
        BY <2>1, <4>1
    <3>2. CASE w = u /\ Message(d) = e
      <4>1. Message(d) \notin seen[u] /\ Message(d) \in seen'[u]
        BY <1>1, <3>2 DEF IInv, TypeOK
      <4>2. mem'[u].dms[d] <= mem[u].dms[d] + 1
        BY <1>4, <3>2 DEF Receive
      <4>3. QED
        BY <2>1, <3>2, <4>1, <4>2
    <3>3. CASE w = u /\ Message(d) # e
      <4>1. mem'[u].dms[d] <= mem[u].dms[d] + 0
        BY <1>4, <3>3 DEF Receive
      <4>2. Message(d) \in seen'[u] <=> Message(d) \in seen[u]
        BY <1>1, <3>3 DEF IInv, TypeOK
      <4>3. QED
        BY <2>1, <3>3, <4>1, <4>2
    <3>4. QED
      BY <3>1, <3>2, <3>3
  <2>3. mem'[w].dms[d] <= life[w] + 1
    BY <2>1, <2>2
  <2>4. QED
    BY <1>6, <2>1, <2>2, <2>3
<1>15. QED
  BY <1>7, <1>8, <1>9, <1>10, <1>11, <1>12, <1>13, <1>14 DEF IInv

(* The four handlers of handleSecure.                                      *)
LEMMA HandlersReceive ==
  ASSUME IInv, NEW u \in Users,
         \/ HandleKnownRequest(u) \/ HandleFriendRequest(u)
         \/ HandleFriendResponse(u) \/ HandleDirectMessage(u)
  PROVE  \E t \in State : Receive(u, t)
<1> DEFINE e == NextRecord(u)
           s == mem[u]
<1>1. MarkSeen(u) /\ Pulled(u)
  BY DEF HandleKnownRequest, HandleFriendRequest, HandleFriendResponse,
         HandleDirectMessage, MarkSeen
<1>2. e \in Envelope /\ e \in sent /\ e.to = u /\ s \in State /\ file[u] # "lost"
  BY <1>1, PulledSound DEF IInv, TypeOK
<1>3. \A t \in State : SetAndSave(u, t) =>
        /\ mem' = [mem EXCEPT ![u] = t]
        /\ \A w \in Users \ {u} : disk'[w] = disk[w] /\ file'[w] = file[w]
        /\ disk'[u] = disk[u] \/ disk'[u] = t
        /\ file'[u] # "lost"
  BY <1>2, SaveFacts, SetMemFacts DEF SetAndSave, IInv
<1>4. CASE HandleKnownRequest(u)
  <2>1. Applied(s, e)
    BY <1>4 DEF HandleKnownRequest, Applied
  <2>2. mem' = [mem EXCEPT ![u] = s] /\ disk' = disk /\ file' = file
    BY <1>4, SavedSame DEF HandleKnownRequest, IInv, TypeOK
  <2>3. \A d \in DmId : s.dms[d] \in Nat
    BY <1>2 DEF State
  <2>4. Receive(u, s)
    BY <1>1, <1>2, <2>1, <2>2, <2>3, EvolvesReflexive DEF Receive
  <2>5. QED
    BY <1>2, <2>4
<1>5. CASE HandleFriendRequest(u)
  <2> DEFINE t == AfterFriendRequest(s, e)
  <2>1. e.ref \in ReqId /\ e = Request(e.ref) /\ "pending_in" \in Status
    BY <1>2, <1>5, EnvelopeShape DEF HandleFriendRequest, Status
  <2>2. t \in State /\ Evolves(u, s, t)
    BY <1>2, <1>5, <2>1, SetRequestType, SetRequestEvolves
       DEF AfterFriendRequest, HandleFriendRequest, Decided
  <2>3. /\ t.cursor = s.cursor /\ t.dms = s.dms /\ t.requests[e.ref] = "pending_in"
        /\ \A r \in ReqId : r # e.ref => t.requests[r] = s.requests[r]
        /\ \A d \in DmId : s.dms[d] \in Nat
    BY <1>2, <2>1 DEF AfterFriendRequest, SetRequest, State
  <2>4. Applied(t, e)
    BY <1>5, <2>3 DEF HandleFriendRequest, Applied
  <2>5. SetAndSave(u, t)
    BY <1>5 DEF HandleFriendRequest
  <2>6. \A r \in ReqId : t.requests[r] = "pending_in" =>
          s.requests[r] = "pending_in" \/ e = Request(r)
    BY <2>1, <2>3
  <2>7. Receive(u, t)
    BY <1>1, <1>3, <2>2, <2>3, <2>4, <2>5, <2>6 DEF Receive
  <2>8. QED
    BY <2>2, <2>7
<1>6. CASE HandleFriendResponse(u)
  <2> DEFINE q == IF s.requests[e.ref] = "none" THEN s ELSE SetRequest(s, e.ref, e.status)
             t == AfterFriendResponse(s, e)
  <2>1. /\ e.ref \in ReqId /\ e.status \in Status /\ e.from \in Users
        /\ e.status \in Decided /\ e.type = "friend_response" /\ e.ref.from = u
    BY <1>2, <1>6, EnvelopeShape DEF HandleFriendResponse, Status
  <2>2. q \in State /\ t \in State /\ t = AddFriendIf(q, e.from, e.status)
    BY <1>2, <2>1, SetRequestType, AddFriendIfType DEF AfterFriendResponse
  <2>3. Evolves(u, s, q)
    BY <1>2, <2>1, SetRequestEvolves, EvolvesReflexive DEF Decided
  <2>4. /\ q.cursor = s.cursor /\ q.dms = s.dms
        /\ q.requests[e.ref] \in {"none", e.status}
        /\ \A r \in ReqId : r # e.ref => q.requests[r] = s.requests[r]
        /\ \A d \in DmId : s.dms[d] \in Nat
    BY <1>2, <2>1 DEF SetRequest, State
  <2>5. SetAndSave(u, t)
    BY <1>6 DEF HandleFriendResponse
  <2> HIDE DEF q, t
  <2>6. /\ Evolves(u, q, t)
        /\ t.cursor = q.cursor /\ t.dms = q.dms /\ t.requests = q.requests
    BY <2>1, <2>2, AddFriendIfEvolves
  <2>7. e.status = "accepted" => e.from \in t.friends
    BY <2>2 DEF AddFriendIf, State
  <2>8. Evolves(u, s, t)
    BY <1>2, <2>2, <2>3, <2>6, EvolvesTransitive
  <2>9. Applied(t, e)
    BY <2>1, <2>4, <2>6, <2>7 DEF Applied, Decided
  <2>10. \A r \in ReqId : t.requests[r] = "pending_in" => s.requests[r] = "pending_in"
    BY <2>1, <2>4, <2>6 DEF Decided
  <2>11. t.cursor = s.cursor /\ \A d \in DmId : t.dms[d] = s.dms[d] /\ s.dms[d] \in Nat
    BY <2>4, <2>6
  <2>12. Receive(u, t)
    BY <1>1, <1>3, <2>2, <2>5, <2>8, <2>9, <2>10, <2>11 DEF Receive
  <2>13. QED
    BY <2>2, <2>12
<1>7. CASE HandleDirectMessage(u)
  <2> DEFINE t == AddMessage(s, e.ref)
  <2>1. e.ref \in DmId /\ e = Message(e.ref) /\ e.type = "dm_message"
    BY <1>2, <1>7, EnvelopeShape DEF HandleDirectMessage
  <2>2. /\ t \in State /\ Evolves(u, s, t)
        /\ t.cursor = s.cursor /\ t.requests = s.requests
        /\ t.dms[e.ref] = s.dms[e.ref] + 1
        /\ \A d \in DmId : d # e.ref => t.dms[d] = s.dms[d]
    BY <1>2, <2>1, AddMessageType, AddMessageEvolves
  <2>3. \A d \in DmId : s.dms[d] \in Nat
    BY <1>2 DEF State
  <2>4. SetAndSave(u, t)
    BY <1>7 DEF HandleDirectMessage
  <2> HIDE DEF t
  <2>5. Applied(t, e)
    BY <2>1, <2>2, <2>3 DEF Applied
  <2>6. \A d \in DmId : t.dms[d] <= s.dms[d] + (IF Message(d) = e THEN 1 ELSE 0)
    BY <2>1, <2>2, <2>3
  <2>7. Receive(u, t)
    BY <1>1, <1>3, <2>2, <2>4, <2>5, <2>6 DEF Receive
  <2>8. QED
    BY <2>2, <2>7
<1>8. QED
  BY <1>4, <1>5, <1>6, <1>7

LEMMA DropSeenStep ==
  ASSUME IInv, TypeOK', NEW u \in Users, DropSeen(u)
  PROVE  IInv'
<1>1. UNCHANGED <<mem, disk, file, seen, from, skipped, lock, inviting, life, sent, inbox>>
  BY SavedSame DEF DropSeen
<1>2. /\ pc' = [pc EXCEPT ![u] = "commit"] /\ NextRecord(u) \in seen[u]
      /\ RecordOffset(u) <= Len(inbox[u]) /\ pc[u] = "pull"
  BY DEF DropSeen, Pulled, RecordOffset
<1>3. \A w \in Users : RecordOffset(w)' = RecordOffset(w) /\ NextRecord(w)' = NextRecord(w)
  BY <1>1, SameRecord
<1>4. CursorSound'
  BY <1>1, <1>2, <1>3 DEF IInv, CursorSound, TypeOK
<1>5. FromSound'
  BY <1>1, <1>2 DEF IInv, FromSound, TypeOK
<1>6. LogSound' /\ AnswersAsked' /\ PendingSound'
  BY <1>1 DEF IInv, LogSound, AnswersAsked, PendingSound
<1>7. SeenApplied' /\ CommittedIsDurable'
  BY <1>1 DEF IInv, SeenApplied, CommittedIsDurable
<1>8. DiskBehind' /\ CopiesCounted'
  BY <1>1 DEF IInv, DiskBehind, CopiesCounted
<1>9. QED
  BY <1>4, <1>5, <1>6, <1>7, <1>8 DEF IInv

(* Without a cursor nothing is committed yet, in memory or on disk; with   *)
(* one, the subscription starts no later than the cursor.                  *)
LEMMA SubscribeStep ==
  ASSUME IInv, TypeOK', NEW u \in Users, Subscribe(u)
  PROVE  IInv'
<1>1. PICK o \in {FromOffset(mem[u]), FromOffset(mem[u]) - 1} \cap Nat :
        /\ from' = [from EXCEPT ![u] = o]
        /\ skipped' = [skipped EXCEPT ![u] = IF mem[u].cursor = 0 THEN o ELSE @]
  BY DEF Subscribe
<1>2. /\ Free(u) /\ pc' = [pc EXCEPT ![u] = "pull"]
      /\ UNCHANGED <<mem, disk, file, seen, lock, inviting, life, sent, inbox>>
  BY SavedSame DEF Subscribe
<1>3. /\ mem[u] \in State /\ disk[u] \in State /\ mem[u].cursor \in Nat
      /\ disk[u].cursor \in Nat /\ disk[u].cursor <= mem[u].cursor
  BY <1>2 DEF IInv, TypeOK, State, DiskBehind, Extends, Free
<1>4. o \in Nat /\ (mem[u].cursor # 0 => o <= mem[u].cursor)
  <2>1. FromOffset(mem[u]) \in Nat
        /\ (mem[u].cursor # 0 => FromOffset(mem[u]) <= mem[u].cursor)
    BY <1>3, FromOffsetType
  <2>2. QED
    BY <1>3, <2>1
<1>5. /\ from'[u] = o /\ (mem[u].cursor = 0 => skipped'[u] = o)
      /\ (mem[u].cursor # 0 => skipped'[u] = skipped[u])
      /\ \A w \in Users \ {u} :
           from'[w] = from[w] /\ skipped'[w] = skipped[w] /\ pc'[w] = pc[w]
      /\ pc'[u] = "pull"
  BY <1>1, <1>2 DEF IInv, TypeOK
<1>6. FromSound'
  <2> SUFFICES ASSUME NEW w \in Users, pc'[w] # "subscribe"
               PROVE  from'[w] <= mem'[w].cursor \/ (mem'[w].cursor = 0 /\ skipped'[w] = from'[w])
    BY DEF FromSound
  <2>1. CASE w = u
    BY <1>2, <1>4, <1>5, <2>1
  <2>2. CASE w # u
    BY <1>2, <1>5, <2>2 DEF IInv, FromSound
  <2>3. QED
    BY <2>1, <2>2
<1>7. CommittedIsDurable'
  <2> SUFFICES ASSUME NEW w \in Users
               PROVE  /\ \A i \in (skipped'[w] + 1)..mem[w].cursor : Applied(mem[w], inbox[w][i])
                      /\ \A i \in (skipped'[w] + 1)..disk[w].cursor :
                           Applied(disk[w], inbox[w][i])
    <3>1. mem' = mem /\ disk' = disk /\ inbox' = inbox
      BY <1>2
    <3>2. QED
      BY <3>1, CommittedOfAll
  <2>1. CASE w = u /\ mem[u].cursor = 0
    BY <1>3, <1>4, <1>5, <2>1
  <2>2. CASE w # u \/ mem[u].cursor # 0
    <3>1. skipped'[w] = skipped[w]
      BY <1>5, <2>2
    <3>2. QED
      BY <3>1 DEF IInv, CommittedIsDurable
  <2>3. QED
    BY <2>1, <2>2
<1>8. CursorSound'
  <2> SUFFICES ASSUME NEW w \in Users
               PROVE  /\ mem'[w].cursor <= Len(inbox'[w]) /\ disk'[w].cursor <= Len(inbox'[w])
                      /\ pc'[w] = "commit" => /\ RecordOffset(w)' <= Len(inbox'[w])
                                              /\ NextRecord(w)' \in seen'[w]
    BY DEF CursorSound
  <2>1. CASE w = u
    BY <1>2, <1>5, <2>1 DEF IInv, CursorSound
  <2>2. CASE w # u
    <3>1. /\ RecordOffset(w)' = RecordOffset(w) /\ NextRecord(w)' = NextRecord(w)
          /\ pc'[w] = pc[w]
      BY <1>2, <1>5, <2>2, SameRecord
    <3>2. QED
      BY <1>2, <3>1 DEF IInv, CursorSound
  <2>3. QED
    BY <2>1, <2>2
<1>9. LogSound' /\ AnswersAsked' /\ PendingSound' /\ SeenApplied'
  BY <1>2 DEF IInv, LogSound, AnswersAsked, PendingSound, SeenApplied
<1>10. DiskBehind' /\ CopiesCounted'
  BY <1>2 DEF IInv, DiskBehind, CopiesCounted
<1>11. QED
  BY <1>6, <1>7, <1>8, <1>9, <1>10 DEF IInv

(* The commit of an inbox record: the cursor moves on to a record that was *)
(* seen, over none but those the subscription skipped.                     *)
LEMMA CommitCursorStep ==
  ASSUME IInv, TypeOK', NEW u \in Users, CommitCursor(u), pc[u] = "commit"
  PROVE  /\ IInv'
         /\ \A w \in Users : Follows(w, disk[w], disk'[w])
<1> DEFINE o == RecordOffset(u)
           t == SetCursor(mem[u], o)
<1>1. /\ SetAndSave(u, t) /\ Free(u) /\ pc' = [pc EXCEPT ![u] = "pull"]
      /\ UNCHANGED <<from, skipped, seen, lock, inviting, life, sent, inbox>>
  BY DEF CommitCursor
<1>2. \A w \in Users : /\ mem[w] \in State /\ mem'[w] \in State
                       /\ disk[w] \in State /\ disk'[w] \in State
                       /\ mem[w].cursor \in Nat /\ skipped[w] \in Nat /\ from[w] \in Nat
                       /\ Len(inbox[w]) \in Nat
  <2>1. \A w \in Users : /\ mem[w] \in State /\ mem'[w] \in State
                         /\ disk[w] \in State /\ disk'[w] \in State
                         /\ skipped[w] \in Nat /\ from[w] \in Nat
    BY DEF IInv, TypeOK
  <2>2. \A w \in Users : mem[w].cursor \in Nat
    BY <2>1 DEF State
  <2>3. \A w \in Users : Len(inbox[w]) \in Nat
    BY DEF IInv, TypeOK
  <2>4. QED
    BY <2>1, <2>2, <2>3
<1>3. /\ mem'[u] = t /\ \A w \in Users \ {u} : mem'[w] = mem[w]
      /\ disk'[u] = disk[u] \/ disk'[u] = t
      /\ \A w \in Users \ {u} : disk'[w] = disk[w] /\ file'[w] = file[w]
      /\ file[u] # "lost" /\ file'[u] # "lost"
  BY <1>1, SetMemFacts, SaveFacts DEF SetAndSave, IInv, Free
<1>4. /\ o \in Nat /\ o >= 1 /\ o > mem[u].cursor /\ o > from[u] /\ o <= Len(inbox[u])
      /\ inbox[u][o] \in seen[u]
      /\ o = mem[u].cursor + 1 \/ (mem[u].cursor = 0 /\ skipped[u] = from[u] /\ o = from[u] + 1)
  <2>1. o \in Nat /\ o >= 1 /\ o > mem[u].cursor /\ o > from[u]
    BY RecordOffsetType DEF IInv
  <2>2. o <= Len(inbox[u]) /\ inbox[u][o] \in seen[u]
    BY SameRecord DEF IInv, CursorSound, RecordOffset, NextRecord
  <2>3. from[u] <= mem[u].cursor \/ (mem[u].cursor = 0 /\ skipped[u] = from[u])
    BY DEF IInv, FromSound
  <2>4. o = IF from[u] > mem[u].cursor THEN from[u] + 1 ELSE mem[u].cursor + 1
    BY DEF RecordOffset, NextOffset
  <2>5. QED
    BY <1>2, <2>1, <2>2, <2>3, <2>4
<1> HIDE DEF o
<1>5. /\ Evolves(u, mem[u], t) /\ t.cursor = o
      /\ t.requests = mem[u].requests /\ t.dms = mem[u].dms
  <2>1. mem[u] \in State /\ mem[u].cursor \in Nat /\ o \in Nat /\ o >= mem[u].cursor
    BY <1>2, <1>4
  <2>2. QED
    BY <2>1, SetCursorEvolves
<1> HIDE DEF t
<1>6. \A w \in Users : Evolves(w, mem[w], mem'[w])
  BY <1>2, <1>3, <1>5, EvolvesReflexive
<1>7. \A w \in Users : disk'[w] = disk[w] \/ disk'[w] = mem'[w]
  BY <1>3
<1>8. LogSound' /\ AnswersAsked'
  BY <1>1 DEF IInv, LogSound, AnswersAsked
<1>9. PendingSound'
  BY <1>1, <1>3, <1>5 DEF IInv, PendingSound
<1>10. FromSound'
  <2> SUFFICES ASSUME NEW w \in Users, pc'[w] # "subscribe"
               PROVE  from'[w] <= mem'[w].cursor \/ (mem'[w].cursor = 0 /\ skipped'[w] = from'[w])
    BY DEF FromSound
  <2>1. CASE w = u
    BY <1>1, <1>2, <1>3, <1>4, <1>5, <2>1
  <2>2. CASE w # u
    BY <1>1, <1>3, <2>2 DEF IInv, FromSound, TypeOK
  <2>3. QED
    BY <2>1, <2>2
<1>11. CursorSound'
  <2> SUFFICES ASSUME NEW w \in Users
               PROVE  /\ mem'[w].cursor <= Len(inbox'[w]) /\ disk'[w].cursor <= Len(inbox'[w])
                      /\ pc'[w] = "commit" => /\ RecordOffset(w)' <= Len(inbox'[w])
                                              /\ NextRecord(w)' \in seen'[w]
    BY DEF CursorSound
  <2>1. CASE w = u
    <3>1. pc'[u] # "commit" /\ inbox' = inbox
      BY <1>1 DEF IInv, TypeOK
    <3>2. disk[u].cursor <= Len(inbox[u])
      BY DEF IInv, CursorSound
    <3>3. QED
      BY <1>3, <1>4, <1>5, <2>1, <3>1, <3>2
  <2>2. CASE w # u
    <3>1. /\ RecordOffset(w)' = RecordOffset(w) /\ NextRecord(w)' = NextRecord(w)
      BY <1>1, <1>3, <2>2, SameRecord
    <3>2. pc'[w] = pc[w] /\ mem'[w] = mem[w] /\ disk'[w] = disk[w]
      BY <1>1, <1>3, <2>2 DEF IInv, TypeOK
    <3>3. QED
      BY <1>1, <3>1, <3>2 DEF IInv, CursorSound
  <2>3. QED
    BY <2>1, <2>2
<1>12. SeenApplied'
  <2> SUFFICES ASSUME NEW w \in Users, NEW f \in seen[w]
               PROVE  f \in sent' /\ f.to = w /\ Applied(mem'[w], f)
    BY <1>1 DEF SeenApplied
  <2>1. QED
    BY <1>1, <1>6, SeenStays
<1>13. CommittedIsDurable'
  <2>1. ASSUME NEW i \in (skipped[u] + 1)..o PROVE Applied(t, inbox[u][i])
    <3>1. CASE i = o
      BY <1>1, <1>3, <1>4, <1>6, <3>1, SeenStays
    <3>2. CASE i # o
      <4>1. i \in (skipped[u] + 1)..mem[u].cursor /\ i \in 1..Len(inbox[u])
        BY <1>2, <1>4, <2>1, <3>2
      <4>2. /\ Applied(mem[u], inbox[u][i]) /\ AnswersAsked
            /\ inbox[u][i] \in sent /\ inbox[u][i] \in Envelope
        BY <4>1 DEF IInv, CommittedIsDurable, LogSound, TypeOK
      <4>3. QED
        BY <1>2, <1>3, <1>6, <4>2, AppliedStays
    <3>3. QED
      BY <3>1, <3>2
  <2> SUFFICES ASSUME NEW w \in Users
               PROVE  /\ \A i \in (skipped'[w] + 1)..mem'[w].cursor :
                           Applied(mem'[w], inbox'[w][i])
                      /\ \A i \in (skipped'[w] + 1)..disk'[w].cursor :
                           Applied(disk'[w], inbox'[w][i])
    BY CommittedOfAll
  <2>2. CASE w = u
    <3>1. skipped'[u] = skipped[u] /\ inbox' = inbox
      BY <1>1
    <3>2. \A i \in (skipped[u] + 1)..disk[u].cursor : Applied(disk[u], inbox[u][i])
      BY DEF IInv, CommittedIsDurable
    <3>3. QED
      BY <1>3, <1>5, <2>1, <2>2, <3>1, <3>2
  <2>3. CASE w # u
    <3>1. /\ skipped'[w] = skipped[w] /\ inbox' = inbox /\ mem'[w] = mem[w]
          /\ disk'[w] = disk[w]
      BY <1>1, <1>3, <2>3
    <3>2. QED
      BY <3>1 DEF IInv, CommittedIsDurable
  <2>4. QED
    BY <2>2, <2>3
<1>14. DiskBehind' /\ \A w \in Users : Follows(w, disk[w], disk'[w])
  <2>1. \A w \in Users \ {u} : /\ mem'[w] = mem[w] /\ disk'[w] = disk[w]
                               /\ file'[w] = file[w] /\ lock'[w] = lock[w]
    BY <1>1, <1>3
  <2>2. file[u] # "lost" /\ file'[u] # "lost" /\ Evolves(u, mem[u], mem'[u])
    BY <1>3, <1>6
  <2>3. QED
    BY <1>7, <2>1, <2>2, DiskStays
<1>15. CopiesCounted'
  <2> SUFFICES ASSUME NEW w \in Users, NEW d \in DmId, d.to = w, d.from # w
               PROVE  /\ mem'[w].dms[d] <= life[w] + (IF Message(d) \in seen[w] THEN 1 ELSE 0)
                      /\ disk'[w].dms[d] <= life[w] + 1
    BY <1>1 DEF CopiesCounted
  <2>1. mem'[w].dms[d] = mem[w].dms[d]
    BY <1>3, <1>5
  <2>2. mem[w].dms[d] \in Nat /\ life[w] \in Nat
    <3>1. mem[w].dms[d] \in Nat
      BY <1>2 DEF State
    <3>2. life[w] \in Nat
      BY BoundsAssumption DEF IInv, TypeOK
    <3>3. QED
      BY <3>1, <3>2
  <2>3. /\ mem[w].dms[d] <= life[w] + (IF Message(d) \in seen[w] THEN 1 ELSE 0)
        /\ disk[w].dms[d] <= life[w] + 1
    BY DEF IInv, CopiesCounted
  <2>4. mem[w].dms[d] <= life[w] + 1
    BY <2>2, <2>3
  <2>5. QED
    BY <1>7, <2>1, <2>3, <2>4
<1>16. QED
  BY <1>8, <1>9, <1>10, <1>11, <1>12, <1>13, <1>14, <1>15 DEF IInv

(* After a restart the memory is the file, or empty, and nothing has been  *)
(* seen.                                                                   *)
LEMMA RestartStep ==
  ASSUME IInv, TypeOK', NEW u \in Users, Restart(u)
  PROVE  IInv'
<1>1. /\ SetMem(u, LoadState(u)) /\ seen' = [seen EXCEPT ![u] = {}]
      /\ pc' = [pc EXCEPT ![u] = "subscribe"] /\ life' = [life EXCEPT ![u] = @ + 1]
      /\ file' = [file EXCEPT ![u] = IF @ = "torn" THEN "lost" ELSE @]
      /\ lock' = [lock EXCEPT ![u] = "free"] /\ file[u] # "lost"
      /\ UNCHANGED <<disk, from, skipped, sent, inbox>>
  BY DEF Restart
<1>2. /\ mem'[u] = LoadState(u) /\ seen'[u] = {} /\ pc'[u] = "subscribe"
      /\ life'[u] = life[u] + 1 /\ lock'[u] = "free"
      /\ file'[u] = IF file[u] = "torn" THEN "lost" ELSE file[u]
  BY <1>1, SetMemFacts DEF IInv, TypeOK
<1>3. \A w \in Users \ {u} : /\ mem'[w] = mem[w] /\ seen'[w] = seen[w] /\ pc'[w] = pc[w]
                             /\ life'[w] = life[w] /\ lock'[w] = lock[w] /\ file'[w] = file[w]
  BY <1>1, SetMemFacts DEF IInv, TypeOK
<1>4. \/ file[u] = "whole" /\ file'[u] = "whole" /\ mem'[u] = disk[u]
      \/ file[u] = "torn" /\ file'[u] = "lost" /\ mem'[u] = EmptyState
  BY <1>1, <1>2 DEF LoadState, IInv, TypeOK
<1>5. /\ EmptyState.cursor = 0 /\ \A r \in ReqId : EmptyState.requests[r] = "none"
      /\ \A d \in DmId : EmptyState.dms[d] = 0
  BY DEF EmptyState
<1>6. \A w \in Users : disk[w] \in State /\ skipped[w] \in Nat /\ Len(inbox[w]) \in Nat
  BY DEF IInv, TypeOK
<1>7. LogSound' /\ AnswersAsked'
  BY <1>1 DEF IInv, LogSound, AnswersAsked
<1>8. PendingSound'
  <2> SUFFICES ASSUME NEW w \in Users, NEW r \in ReqId,
                      mem'[w].requests[r] = "pending_in" \/ disk[w].requests[r] = "pending_in"
               PROVE  r.to = w /\ Request(r) \in sent
    BY <1>1 DEF PendingSound
  <2>1. mem[w].requests[r] = "pending_in" \/ disk[w].requests[r] = "pending_in"
    BY <1>3, <1>4, <1>5
  <2>2. QED
    BY <2>1 DEF IInv, PendingSound
<1>9. FromSound'
  BY <1>1, <1>2, <1>3 DEF IInv, FromSound
<1>10. CursorSound'
  <2> SUFFICES ASSUME NEW w \in Users
               PROVE  /\ mem'[w].cursor <= Len(inbox'[w]) /\ disk'[w].cursor <= Len(inbox'[w])
                      /\ pc'[w] = "commit" => /\ RecordOffset(w)' <= Len(inbox'[w])
                                              /\ NextRecord(w)' \in seen'[w]
    BY DEF CursorSound
  <2>1. inbox' = inbox /\ disk' = disk /\ disk[w].cursor <= Len(inbox[w])
    BY <1>1 DEF IInv, CursorSound
  <2>2. CASE w = u
    BY <1>2, <1>4, <1>5, <1>6, <2>1, <2>2
  <2>3. CASE w # u
    <3>1. RecordOffset(w)' = RecordOffset(w) /\ NextRecord(w)' = NextRecord(w)
      BY <1>1, <1>3, <2>3, SameRecord
    <3>2. QED
      BY <1>3, <2>1, <2>3, <3>1 DEF IInv, CursorSound
  <2>4. QED
    BY <2>2, <2>3
<1>11. SeenApplied'
  BY <1>1, <1>2, <1>3 DEF IInv, SeenApplied
<1>12. CommittedIsDurable'
  <2> SUFFICES ASSUME NEW w \in Users
               PROVE  /\ \A i \in (skipped[w] + 1)..mem'[w].cursor :
                           Applied(mem'[w], inbox[w][i])
                      /\ \A i \in (skipped[w] + 1)..disk[w].cursor :
                           Applied(disk[w], inbox[w][i])
    <3>1. inbox' = inbox /\ disk' = disk /\ skipped' = skipped
      BY <1>1
    <3>2. QED
      BY <3>1, CommittedOfAll
  <2>1. \/ mem'[w] = disk[w] \/ mem'[w] = mem[w] \/ mem'[w].cursor = 0
    BY <1>3, <1>4, <1>5
  <2>2. QED
    BY <1>6, <2>1 DEF IInv, CommittedIsDurable
<1>13. DiskBehind'
  <2> SUFFICES ASSUME NEW w \in Users
               PROVE  IF file'[w] = "lost" THEN lock'[w] = "free"
                      ELSE Extends(disk[w], mem'[w]) /\ AnswersStand(w, disk[w], mem'[w])
    BY <1>1 DEF DiskBehind
  <2>1. CASE w = u
    BY <1>2, <1>4, <1>6, <2>1, FollowsReflexive DEF Follows
  <2>2. CASE w # u
    BY <1>3, <2>2 DEF IInv, DiskBehind
  <2>3. QED
    BY <2>1, <2>2
<1>14. CopiesCounted'
  <2> SUFFICES ASSUME NEW w \in Users, NEW d \in DmId, d.to = w, d.from # w
               PROVE  /\ mem'[w].dms[d] <= life'[w] + (IF Message(d) \in seen'[w] THEN 1 ELSE 0)
                      /\ disk[w].dms[d] <= life'[w] + 1
    BY <1>1 DEF CopiesCounted
  <2>1. disk[w].dms[d] \in Nat
    BY <1>6 DEF State
  <2>2. life[w] \in Nat
    BY BoundsAssumption DEF IInv, TypeOK
  <2>3. /\ mem[w].dms[d] <= life[w] + (IF Message(d) \in seen[w] THEN 1 ELSE 0)
        /\ disk[w].dms[d] <= life[w] + 1
    BY DEF IInv, CopiesCounted
  <2>4. CASE w = u
    <3>1. mem'[u].dms[d] <= life[u] + 1
      BY <1>4, <1>5, <2>1, <2>2, <2>3, <2>4
    <3>2. QED
      BY <1>2, <2>1, <2>2, <2>3, <2>4, <3>1
  <2>5. CASE w # u
    BY <1>3, <2>3, <2>5
  <2>6. QED
    BY <2>4, <2>5
<1>15. QED
  BY <1>7, <1>8, <1>9, <1>10, <1>11, <1>12, <1>13, <1>14 DEF IInv

LEMMA AppendFacts ==
  ASSUME NEW S, NEW q \in Seq(S), NEW e \in S
  PROVE  /\ Len(q) <= Len(Append(q, e))
         /\ \A i \in 1..Len(q) : Append(q, e)[i] = q[i]
         /\ \A i \in 1..Len(Append(q, e)) : i \in 1..Len(q) \/ Append(q, e)[i] = e
OBVIOUS

(* A delivery appends to a log; what was there stays.                      *)
LEMMA DeliverStep ==
  ASSUME IInv, TypeOK', NEW u \in Users, Deliver(u)
  PROVE  IInv'
<1>1. PICK e \in sent : e.to = u /\ inbox' = [inbox EXCEPT ![u] = Append(@, e)]
  BY DEF Deliver
<1>2. UNCHANGED <<mem, disk, file, seen, pc, from, skipped, lock, inviting, life, sent>>
  BY SavedSame, LoopSame DEF Deliver
<1>3. \A w \in Users : /\ inbox[w] \in Seq(Envelope) /\ Len(inbox[w]) \in Nat
                       /\ inbox'[w] = IF w = u THEN Append(inbox[w], e) ELSE inbox[w]
  BY <1>1 DEF IInv, TypeOK
<1>4. \A w \in Users : /\ Len(inbox[w]) <= Len(inbox'[w])
                       /\ \A i \in 1..Len(inbox[w]) : inbox'[w][i] = inbox[w][i]
                       /\ \A i \in 1..Len(inbox'[w]) :
                            i \in 1..Len(inbox[w]) \/ (w = u /\ inbox'[w][i] = e)
  <2> SUFFICES ASSUME NEW w \in Users
               PROVE  /\ Len(inbox[w]) <= Len(inbox'[w])
                      /\ \A i \in 1..Len(inbox[w]) : inbox'[w][i] = inbox[w][i]
                      /\ \A i \in 1..Len(inbox'[w]) :
                            i \in 1..Len(inbox[w]) \/ (w = u /\ inbox'[w][i] = e)
    OBVIOUS
  <2>1. CASE w # u
    BY <1>3, <2>1
  <2>2. CASE w = u
    <3>1. e \in Envelope /\ inbox[w] \in Seq(Envelope)
      BY <1>3 DEF IInv, TypeOK
    <3>2. inbox'[w] = Append(inbox[w], e)
      BY <1>3, <2>2
    <3>3. QED
      BY <2>2, <3>1, <3>2, AppendFacts
  <2>3. QED
    BY <2>1, <2>2
<1>5. LogSound'
  BY <1>1, <1>2, <1>4 DEF IInv, LogSound
<1>6. \A w \in Users : /\ mem[w].cursor \in Nat /\ mem[w].cursor <= Len(inbox[w])
                       /\ disk[w].cursor \in Nat /\ disk[w].cursor <= Len(inbox[w])
                       /\ skipped[w] \in Nat /\ Len(inbox'[w]) \in Nat
  <2>1. \A w \in Users : mem[w] \in State /\ disk[w] \in State /\ skipped[w] \in Nat
    BY DEF IInv, TypeOK
  <2>2. \A w \in Users : mem[w].cursor \in Nat /\ disk[w].cursor \in Nat
    BY <2>1 DEF State
  <2>3. \A w \in Users : Len(inbox'[w]) \in Nat
    BY DEF TypeOK
  <2>4. QED
    BY <2>1, <2>2, <2>3 DEF IInv, CursorSound
<1>7. CursorSound'
  <2> SUFFICES ASSUME NEW w \in Users
               PROVE  /\ mem'[w].cursor <= Len(inbox'[w]) /\ disk'[w].cursor <= Len(inbox'[w])
                      /\ pc'[w] = "commit" => /\ RecordOffset(w)' <= Len(inbox'[w])
                                              /\ NextRecord(w)' \in seen'[w]
    BY DEF CursorSound
  <2>1. /\ mem' = mem /\ disk' = disk /\ seen' = seen /\ pc' = pc
        /\ mem[w].cursor <= Len(inbox'[w]) /\ disk[w].cursor <= Len(inbox'[w])
    BY <1>2, <1>3, <1>4, <1>6
  <2>2. /\ RecordOffset(w)' = RecordOffset(w)
        /\ NextRecord(w) = inbox[w][RecordOffset(w)]
        /\ NextRecord(w)' = inbox'[w][RecordOffset(w)]
    BY <1>2, SameRecord
  <2>3. ASSUME pc[w] = "commit"
        PROVE  RecordOffset(w) <= Len(inbox'[w]) /\ inbox'[w][RecordOffset(w)] \in seen[w]
    <3>1. RecordOffset(w) <= Len(inbox[w]) /\ inbox[w][RecordOffset(w)] \in seen[w]
      BY <2>2, <2>3 DEF IInv, CursorSound
    <3>2. RecordOffset(w) \in Nat /\ RecordOffset(w) >= 1
      BY RecordOffsetType DEF IInv
    <3>3. RecordOffset(w) \in 1..Len(inbox[w])
      BY <1>3, <3>1, <3>2
    <3>4. QED
      BY <1>3, <1>4, <1>6, <3>1, <3>2, <3>3
  <2>4. QED
    BY <2>1, <2>2, <2>3
<1>8. CommittedIsDurable'
  <2>1. \A w \in Users :
          /\ \A i \in (skipped[w] + 1)..mem[w].cursor : inbox'[w][i] = inbox[w][i]
          /\ \A i \in (skipped[w] + 1)..disk[w].cursor : inbox'[w][i] = inbox[w][i]
    <3>1. \A w \in Users : /\ (skipped[w] + 1)..mem[w].cursor \subseteq 1..Len(inbox[w])
                           /\ (skipped[w] + 1)..disk[w].cursor \subseteq 1..Len(inbox[w])
      BY <1>3, <1>6
    <3>2. QED
      BY <1>4, <3>1
  <2> SUFFICES ASSUME NEW w \in Users
               PROVE  /\ \A i \in (skipped[w] + 1)..mem[w].cursor :
                           Applied(mem[w], inbox'[w][i])
                      /\ \A i \in (skipped[w] + 1)..disk[w].cursor :
                           Applied(disk[w], inbox'[w][i])
    <3>1. mem' = mem /\ disk' = disk /\ skipped' = skipped
      BY <1>2
    <3>2. QED
      BY <3>1, CommittedOfAll
  <2>2. QED
    BY <2>1 DEF IInv, CommittedIsDurable
<1>9. AnswersAsked' /\ PendingSound' /\ FromSound' /\ SeenApplied'
  BY <1>2 DEF IInv, AnswersAsked, PendingSound, FromSound, SeenApplied
<1>10. DiskBehind' /\ CopiesCounted'
  BY <1>2 DEF IInv, DiskBehind, CopiesCounted
<1>11. QED
  BY <1>5, <1>7, <1>8, <1>9, <1>10 DEF IInv

LEMMA InitIInv == Init => IInv
<1> SUFFICES ASSUME Init PROVE IInv
  OBVIOUS
<1>1. TypeOK
  BY InitType
<1>2. \A u \in Users : /\ mem[u] = EmptyState /\ disk[u] = EmptyState
                       /\ inbox[u] = <<>> /\ seen[u] = {} /\ pc[u] = "subscribe"
                       /\ life[u] = 0 /\ skipped[u] = 0 /\ file[u] = "whole"
  BY DEF Init
<1>3. /\ EmptyState \in State /\ EmptyState.cursor = 0
      /\ \A r \in ReqId : EmptyState.requests[r] = "none"
      /\ \A d \in DmId : EmptyState.dms[d] = 0
  BY EmptyStateType DEF EmptyState
<1>4. LogSound /\ AnswersAsked /\ PendingSound /\ CursorSound /\ SeenApplied /\ FromSound
  BY <1>2, <1>3
     DEF Init, LogSound, AnswersAsked, PendingSound, FromSound, CursorSound, SeenApplied
<1>5. DiskBehind
  BY <1>2, <1>3, FollowsReflexive DEF DiskBehind, Follows
<1>6. CommittedIsDurable /\ CopiesCounted
  BY <1>2, <1>3 DEF CommittedIsDurable, CopiesCounted
<1>7. QED
  BY <1>1, <1>4, <1>5, <1>6 DEF IInv

LEMMA IInvStep == IInv /\ [Next]_vars => IInv'
<1> SUFFICES ASSUME IInv, [Next]_vars PROVE IInv'
  OBVIOUS
<1>1. TypeOK'
  BY TypeStep DEF IInv
<1>2. CASE UNCHANGED vars
  <2>1. UNCHANGED <<mem, saved, seen, loop, lock, life, sent, inbox>>
    BY <1>2, SavedSame, LoopSame DEF vars
  <2>2. QED
    BY <1>1, <2>1, SameStep
<1>3. ASSUME NEW u \in Users,
             \/ SendFriendRequest(u) \/ RespondFriendRequest(u) \/ SendDirectMessage(u)
             \/ Save(u) \/ ConsumeInvite(u) \/ HandlePresence(u)
      PROVE  IInv'
  <2>1. Quiet(u)
    BY <1>3, RequestFriendQuiet, RespondQuiet, SendMessageQuiet, SaveQuiet,
       ConsumeInviteQuiet, HandlePresenceQuiet DEF SendFriendRequest
  <2>2. QED
    BY <1>1, <2>1, QuietStep
<1>4. ASSUME NEW u \in Users, RequestByInvite(u) PROVE IInv'
  BY <1>1, <1>4, RequestByInviteStep
<1>5. ASSUME NEW u \in Users, Subscribe(u) PROVE IInv'
  BY <1>1, <1>5, SubscribeStep
<1>6. ASSUME NEW u \in Users, ProcessRecord(u) PROVE IInv'
  BY <1>1, <1>6, DropSeenStep, HandlersReceive, ReceiveStep DEF ProcessRecord
<1>7. ASSUME NEW u \in Users, CommitCursor(u) PROVE IInv'
  BY <1>1, <1>7, CommitCursorStep, CommitPresenceQuiet, QuietStep
<1>8. ASSUME NEW u \in Users, Restart(u) PROVE IInv'
  BY <1>1, <1>8, RestartStep
<1>9. ASSUME NEW u \in Users, Deliver(u) PROVE IInv'
  BY <1>1, <1>9, DeliverStep
<1>10. QED
  BY <1>2, <1>3, <1>4, <1>5, <1>6, <1>7, <1>8, <1>9 DEF Next

(* IInv holds in every reachable state.                                    *)
THEOREM Inductive == Spec => []IInv
<1>1. QED
  BY InitIInv, IInvStep, PTL DEF Spec

(* No record whose offset was committed is without its effect, in memory   *)
(* or on disk, whatever crashes and failed writes came before: the cursor  *)
(* and the effects it stands for are in the same file.  Exempt are the     *)
(* records before the start of the inbox, which the subscription skipped.  *)
THEOREM Durable == Spec => []CommittedIsDurable
<1>1. IInv => CommittedIsDurable
  BY DEF IInv
<1>2. QED
  BY <1>1, Inductive, PTL

(* The copies of a received message are bounded by the lives of the        *)
(* process, however often the service delivers it.                         *)
THEOREM CopiesBounded == Spec => []OneCopyPerLife
<1>1. IInv => OneCopyPerLife
  <2> SUFFICES ASSUME IInv, NEW u \in Users, NEW d \in DmId, d.to = u, d.from # u
               PROVE  /\ mem[u].dms[d] <= life[u] + 1
                      /\ disk[u].dms[d] <= life[u] + 1
    BY DEF OneCopyPerLife
  <2>1. mem[u].dms[d] \in Nat
    BY DEF IInv, TypeOK, State
  <2>2. life[u] \in Nat
    BY BoundsAssumption DEF IInv, TypeOK
  <2>3. /\ mem[u].dms[d] <= life[u] + (IF Message(d) \in seen[u] THEN 1 ELSE 0)
        /\ disk[u].dms[d] <= life[u] + 1
    BY DEF IInv, CopiesCounted
  <2>4. QED
    BY <2>1, <2>2, <2>3
<1>2. QED
  BY <1>1, Inductive, PTL

(* A step takes a file to itself or to the memory that grew out of it.     *)
LEMMA FileStep ==
  ASSUME IInv, TypeOK', Next
  PROVE  \A w \in Users : Follows(w, disk[w], disk'[w])
<1>1. ASSUME NEW u \in Users, Quiet(u) PROVE \A w \in Users : Follows(w, disk[w], disk'[w])
  BY <1>1, DiskStays DEF Quiet
<1>2. ASSUME disk' = disk PROVE \A w \in Users : Follows(w, disk[w], disk'[w])
  <2>1. \A w \in Users : disk[w] \in State
    BY DEF IInv, TypeOK
  <2>2. QED
    BY <1>2, <2>1, FollowsReflexive
<1>3. PICK u \in Users :
        \/ SendFriendRequest(u) \/ RespondFriendRequest(u) \/ SendDirectMessage(u)
        \/ Save(u) \/ ConsumeInvite(u) \/ RequestByInvite(u) \/ Subscribe(u)
        \/ HandlePresence(u) \/ ProcessRecord(u) \/ CommitCursor(u) \/ Restart(u)
        \/ Deliver(u)
  BY DEF Next
<1>4. CASE SendFriendRequest(u) \/ RespondFriendRequest(u) \/ SendDirectMessage(u)
           \/ RequestByInvite(u)
  <2>1. disk' = disk
    BY <1>4, SavedSame DEF SendFriendRequest, RequestFriend, RespondFriendRequest,
         SendDirectMessage, RequestByInvite
  <2>2. QED
    BY <1>2, <2>1
<1>5. CASE Subscribe(u) \/ Restart(u) \/ Deliver(u) \/ DropSeen(u)
  <2>1. disk' = disk
    BY <1>5, SavedSame DEF Subscribe, Restart, Deliver, DropSeen
  <2>2. QED
    BY <1>2, <2>1
<1>6. CASE Save(u) \/ ConsumeInvite(u) \/ HandlePresence(u)
  BY <1>1, <1>6, SaveQuiet, ConsumeInviteQuiet, HandlePresenceQuiet
<1>7. CASE CommitCursor(u)
  BY <1>1, <1>7, CommitCursorStep, CommitPresenceQuiet
<1>8. CASE \/ HandleKnownRequest(u) \/ HandleFriendRequest(u)
           \/ HandleFriendResponse(u) \/ HandleDirectMessage(u)
  BY <1>8, HandlersReceive, ReceiveStep
<1>9. QED
  BY <1>3, <1>4, <1>5, <1>6, <1>7, <1>8 DEF ProcessRecord

(* What a whole state.json has said is in every later whole state.json of  *)
(* the user, whatever writes failed or were torn in between.               *)
THEOREM FileGrows == Spec => FileOnlyGrows
<1>1. IInv /\ TypeOK' /\ [Next]_vars => [\A u \in Users : Extends(disk[u], disk'[u])]_disk
  BY FileStep DEF vars, Follows
<1>2. QED
  BY <1>1, Inductive, TypeCorrect, PTL DEF Spec, FileOnlyGrows

(* An answer that has reached the file is never made pending again or      *)
(* replaced by the other one: neither by a request that is delivered again *)
(* to a process that has forgotten its msg_id, nor by a restart.           *)
THEOREM AnswersKept == Spec => DecisionStands
<1>1. IInv /\ TypeOK' /\ [Next]_vars =>
        [\A u \in Users : AnswersStand(u, disk[u], disk'[u])]_disk
  BY FileStep DEF vars, Follows
<1>2. QED
  BY <1>1, Inductive, TypeCorrect, PTL DEF Spec, DecisionStands

-----------------------------------------------------------------------------
(* Without restarts, Social implements FriendRequests.                     *)

(* What asker and addressee of r have in their maps: a request that went    *)
(* out is known to its asker and never waits for the asker's own answer;    *)
(* a decision the asker has learned, and every response in the network, is  *)
(* the decision the addressee has made.                                     *)
AgreedOn(r) ==
  LET asker     == mem[r.from].requests[r]
      addressee == mem[r.to].requests[r]
  IN  /\ Request(r) \in sent => asker # "none"
      /\ asker # "pending_in"
      /\ asker \in Decided => addressee = asker
      /\ asker = "accepted" => r.to \in mem[r.from].friends
      /\ \A e \in sent : e.type = "friend_response" /\ e.ref = r =>
           r.from # r.to /\ addressee = e.status

Agreed == \A r \in ReqId : AgreedOn(r)

FRStep == [FR!FRNext]_(FR!fvars)

LEMMA RequestsDiffer ==
  ASSUME NEW r \in ReqId, NEW q \in ReqId, Request(q) = Request(r)
  PROVE  q = r
BY DEF Request

(* A step that asks, decides and learns nothing.                           *)
Idle ==
  /\ \A w \in Users : /\ mem'[w].requests = mem[w].requests
                      /\ mem'[w].friends = mem[w].friends
  /\ sent \subseteq sent'
  /\ \A e \in sent' \ sent : e.type = "dm_message"

LEMMA IdleStep ==
  ASSUME Agreed, Idle
  PROVE  Agreed' /\ FRStep
<1>1. \A r \in ReqId : r.from \in Users /\ r.to \in Users
  BY BoundsAssumption
<1>2. \A r \in ReqId : Request(r) \in sent' <=> Request(r) \in sent
  BY DEF Idle, Request
<1>3. Agreed'
  <2> SUFFICES ASSUME NEW r \in ReqId PROVE AgreedOn(r)'
    BY DEF Agreed
  <2>1. AgreedOn(r) /\ r.from \in Users /\ r.to \in Users
    BY <1>1 DEF Agreed
  <2>2. /\ mem'[r.from].requests = mem[r.from].requests
        /\ mem'[r.from].friends = mem[r.from].friends
        /\ mem'[r.to].requests = mem[r.to].requests
    BY <2>1 DEF Idle
  <2>3. \A e \in sent' : e.type = "friend_response" => e \in sent
    BY DEF Idle
  <2>4. Request(r)' = Request(r)
    BY DEF Request
  <2>5. QED
    BY <1>2, <2>1, <2>2, <2>3, <2>4 DEF AgreedOn
<1>4. UNCHANGED FR!fvars
  <2>1. {r \in ReqId : Request(r) \in sent'} = {r \in ReqId : Request(r) \in sent}
    BY <1>2
  <2>2. \A r \in ReqId : /\ mem'[r.to].requests = mem[r.to].requests
                         /\ mem'[r.from].requests = mem[r.from].requests
    BY <1>1 DEF Idle
  <2>3. [u \in Users |-> mem'[u].friends] = [u \in Users |-> mem[u].friends]
    BY DEF Idle
  <2>4. QED
    BY <2>1, <2>2, <2>3 DEF FR!fvars, DecisionIn, Request
<1>5. QED
  BY <1>3, <1>4 DEF FRStep

(* A step in which only u's entry of r, u's friends and the envelopes about *)
(* r change keeps what holds of the other requests.                         *)
OnlyAbout(u, r) ==
  /\ \A w \in Users, q \in ReqId :
       w # u \/ q # r => mem'[w].requests[q] = mem[w].requests[q]
  /\ \A w \in Users : w # u => mem'[w].friends = mem[w].friends
  /\ mem[u].friends \subseteq mem'[u].friends
  /\ sent \subseteq sent'
  /\ \A e \in sent' \ sent : e.type \in {"friend_request", "friend_response"} /\ e.ref = r

LEMMA OthersAgree ==
  ASSUME Agreed, NEW u \in Users, NEW r \in ReqId, OnlyAbout(u, r), AgreedOn(r)'
  PROVE  Agreed'
<1> SUFFICES ASSUME NEW q \in ReqId, q # r PROVE AgreedOn(q)'
  BY DEF Agreed
<1>1. AgreedOn(q) /\ q.from \in Users /\ q.to \in Users
  BY BoundsAssumption DEF Agreed
<1>2. /\ mem'[q.from].requests[q] = mem[q.from].requests[q]
      /\ mem'[q.to].requests[q] = mem[q.to].requests[q]
      /\ mem[q.from].friends \subseteq mem'[q.from].friends
  BY <1>1 DEF OnlyAbout
<1>3. /\ Request(q) \in sent' => Request(q) \in sent
      /\ \A e \in sent' : e.type = "friend_response" /\ e.ref = q => e \in sent
  BY DEF OnlyAbout, Request
<1>4. Request(q)' = Request(q)
  BY DEF Request
<1>5. QED
  BY <1>1, <1>2, <1>3, <1>4 DEF AgreedOn

(* A request goes out, if the service took it: it is asked.                *)
LEMMA RequestFriendAsks ==
  ASSUME TypeOK, Agreed, AnswersAsked, NEW u \in Users, NEW v \in Users, RequestFriend(u, v)
  PROVE  Agreed' /\ FRStep
<1>1. PICK r \in ReqId : /\ r.from = u /\ r.to = v
                         /\ mem[u].requests[r] = "none" /\ Request(r) \notin sent
                         /\ SetMem(u, SetRequest(mem[u], r, "pending_out"))
                         /\ Publish(u, Request(r))
  BY DEF RequestFriend
<1>2. /\ mem' = [mem EXCEPT ![u] = SetRequest(mem[u], r, "pending_out")]
      /\ mem[u] \in State
  BY <1>1 DEF TypeOK, SetMem
<1>3. /\ mem'[u].requests = [mem[u].requests EXCEPT ![r] = "pending_out"]
      /\ mem'[u].friends = mem[u].friends
      /\ \A w \in Users : w # u => mem'[w] = mem[w]
  BY <1>2 DEF TypeOK, SetRequest, State
<1>4. mem'[u].requests[r] = "pending_out"
  BY <1>2, <1>3 DEF State
<1>5. sent \subseteq sent' /\ sent' \subseteq sent \cup {Request(r)}
  BY <1>1, PublishSent
<1>6. OnlyAbout(u, r)
  <2>1. \A q \in ReqId : q # r => mem'[u].requests[q] = mem[u].requests[q]
    BY <1>2, <1>3 DEF State
  <2>2. \A w \in Users, q \in ReqId :
          w # u \/ q # r => mem'[w].requests[q] = mem[w].requests[q]
    BY <1>3, <2>1
  <2>3. \A e \in sent' \ sent : e.type = "friend_request" /\ e.ref = r
    BY <1>5 DEF Request
  <2>4. QED
    BY <1>3, <1>5, <2>2, <2>3 DEF OnlyAbout
<1>7. AgreedOn(r)'
  <2>1. \A e \in sent' : e.type = "friend_response" /\ e.ref = r => e \in sent
    BY <1>5 DEF Request
  <2>2. \A e \in sent' : ~ (e.type = "friend_response" /\ e.ref = r)
    BY <1>1, <2>1 DEF AnswersAsked
  <2>3. QED
    BY <1>1, <1>4, <2>2 DEF AgreedOn, Decided
<1>8. FRStep
  <2>1. \A q \in ReqId : q.from \in Users /\ q.to \in Users
    BY BoundsAssumption
  <2>2. \A q \in ReqId : DecisionIn(mem'[q.to].requests[q]) = DecisionIn(mem[q.to].requests[q])
    BY <1>1, <1>4, <1>6, <2>1 DEF OnlyAbout, DecisionIn, Decided
  <2>3. \A q \in ReqId :
          DecisionIn(mem'[q.from].requests[q]) = DecisionIn(mem[q.from].requests[q])
    BY <1>1, <1>4, <1>6, <2>1 DEF OnlyAbout, DecisionIn, Decided
  <2>4. \A w \in Users : mem'[w].friends = mem[w].friends
    BY <1>3
  <2>5. /\ [q \in ReqId |-> DecisionIn(mem'[q.to].requests[q])]
             = [q \in ReqId |-> DecisionIn(mem[q.to].requests[q])]
        /\ [q \in ReqId |-> DecisionIn(mem'[q.from].requests[q])]
             = [q \in ReqId |-> DecisionIn(mem[q.from].requests[q])]
        /\ [w \in Users |-> mem'[w].friends] = [w \in Users |-> mem[w].friends]
    BY <2>2, <2>3, <2>4
  <2>6. CASE Request(r) \in sent'
    <3>1. \A q \in ReqId : Request(q) \in sent' <=> Request(q) \in sent \/ q = r
      BY <1>5, <2>6, RequestsDiffer
    <3>2. {q \in ReqId : Request(q) \in sent'} = {q \in ReqId : Request(q) \in sent} \cup {r}
      BY <3>1
    <3>3. FR!Ask(r)
      BY <2>5, <3>2 DEF FR!Ask, DecisionIn, Request
    <3>4. QED
      BY <3>3 DEF FRStep, FR!FRNext
  <2>7. CASE Request(r) \notin sent'
    <3>1. {q \in ReqId : Request(q) \in sent'} = {q \in ReqId : Request(q) \in sent}
      BY <1>5, <2>7
    <3>2. UNCHANGED FR!fvars
      BY <2>5, <3>1 DEF FR!fvars, DecisionIn, Request
    <3>3. QED
      BY <3>2 DEF FRStep
  <2>8. QED
    BY <2>6, <2>7
<1>9. QED
  BY <1>6, <1>7, <1>8, OthersAgree

(* The addressee's answer decides the request: it was asked by another      *)
(* user, and no decision or response was there before.                      *)
LEMMA RespondDecides ==
  ASSUME IInv, TypeOK', Agreed, NEW u \in Users, RespondFriendRequest(u)
  PROVE  Agreed' /\ FRStep
<1>1. PICK r \in ReqId, st \in Decided :
        /\ mem[u].requests[r] = "pending_in"
        /\ SetMem(u, AddFriendIf(SetRequest(mem[u], r, st), r.from, st))
        /\ IF mem[u].known[r.from] = "unknown" THEN ReturnError
           ELSE Publish(u, Response(r, st, life[u]))
  BY DEF RespondFriendRequest, CanAnswer
<1>2. r.to = u /\ Request(r) \in sent /\ AgreedOn(r) /\ sent \subseteq Envelope
  BY <1>1 DEF IInv, PendingSound, Agreed, TypeOK
<1>3. r.from # u /\ r.from \in Users
  BY <1>1, <1>2, BoundsAssumption DEF AgreedOn
<1>4. /\ mem' = [mem EXCEPT ![u] = AddFriendIf(SetRequest(mem[u], r, st), r.from, st)]
      /\ mem[u] \in State
  BY <1>1 DEF IInv, TypeOK, SetMem
<1>5. /\ mem'[u].requests = [mem[u].requests EXCEPT ![r] = st]
      /\ mem'[u].friends = IF st = "accepted" THEN mem[u].friends \cup {r.from}
                           ELSE mem[u].friends
      /\ \A w \in Users : w # u => mem'[w] = mem[w]
  BY <1>4 DEF IInv, TypeOK, AddFriendIf, SetRequest, State
<1>6. /\ mem'[u].requests[r] = st
      /\ \A q \in ReqId : q # r => mem'[u].requests[q] = mem[u].requests[q]
  BY <1>4, <1>5 DEF State
<1>7. sent \subseteq sent' /\ sent' \subseteq sent \cup {Response(r, st, life[u])}
  BY <1>1, PublishSent DEF ReturnError
<1>8. Response(r, st, life[u]).type = "friend_response"
      /\ Response(r, st, life[u]).ref = r /\ Response(r, st, life[u]).status = st
  BY DEF Response
<1>9. OnlyAbout(u, r)
  <2>1. \A w \in Users, q \in ReqId :
          w # u \/ q # r => mem'[w].requests[q] = mem[w].requests[q]
    BY <1>5, <1>6
  <2>2. \A e \in sent' \ sent : e.type = "friend_response" /\ e.ref = r
    BY <1>7, <1>8
  <2>3. QED
    BY <1>5, <1>7, <2>1, <2>2 DEF OnlyAbout
<1>10. \A e \in sent : ~ (e.type = "friend_response" /\ e.ref = r)
  BY <1>1, <1>2, EnvelopeShape DEF AgreedOn, Decided
<1>11. mem[r.from].requests[r] \notin Decided
  BY <1>1, <1>2 DEF AgreedOn, Decided
<1>12. AgreedOn(r)'
  <2>1. mem'[r.from] = mem[r.from]
    BY <1>3, <1>5
  <2>2. \A e \in sent' : e.type = "friend_response" /\ e.ref = r => e.status = st
    BY <1>7, <1>8, <1>10
  <2>3. QED
    BY <1>2, <1>3, <1>6, <1>11, <2>1, <2>2 DEF AgreedOn, Decided
<1>13. FR!Decide(r, st)
  <2>1. \A q \in ReqId : q.from \in Users /\ q.to \in Users
    BY BoundsAssumption
  <2>2. \A q \in ReqId : q # r => mem'[q.to].requests[q] = mem[q.to].requests[q]
    BY <1>9, <2>1 DEF OnlyAbout
  <2>3. \A q \in ReqId : mem'[q.from].requests[q] = mem[q.from].requests[q]
    BY <1>3, <1>9, <2>1 DEF OnlyAbout
  <2>4. \A q \in ReqId : Request(q) \in sent' <=> Request(q) \in sent
    BY <1>7, <1>8 DEF Request
  <2>5. {q \in ReqId : Request(q) \in sent'} = {q \in ReqId : Request(q) \in sent}
    BY <2>4
  <2>6. [q \in ReqId |-> DecisionIn(mem'[q.to].requests[q])]
          = [[q \in ReqId |-> DecisionIn(mem[q.to].requests[q])] EXCEPT ![r] = st]
    BY <1>2, <1>6, <2>2 DEF DecisionIn
  <2>7. [q \in ReqId |-> DecisionIn(mem'[q.from].requests[q])]
          = [q \in ReqId |-> DecisionIn(mem[q.from].requests[q])]
    BY <2>3
  <2>8. [w \in Users |-> mem'[w].friends]
          = [[w \in Users |-> mem[w].friends] EXCEPT
               ![r.to] = IF st = "accepted" THEN @ \cup {r.from} ELSE @]
    BY <1>2, <1>5
  <2>9. r \in {q \in ReqId : Request(q) \in sent}
        /\ [q \in ReqId |-> DecisionIn(mem[q.to].requests[q])][r] = "open"
    BY <1>1, <1>2 DEF DecisionIn, Decided
  <2>10. QED
    BY <2>5, <2>6, <2>7, <2>8, <2>9 DEF FR!Decide, FR!Befriend, FR!Open, DecisionIn, Request
<1>14. FRStep
  BY <1>13 DEF FRStep, FR!FRNext, FR!Answers, Decided
<1>15. QED
  BY <1>9, <1>12, <1>14, OthersAgree

(* A request that reaches its addressee is not yet decided.                *)
LEMMA HandleRequestWaits ==
  ASSUME IInv, TypeOK', Agreed, NEW u \in Users, HandleFriendRequest(u)
  PROVE  Agreed' /\ FRStep
<1> DEFINE e0 == NextRecord(u)
<1>0. /\ SetMem(u, SetRequest(mem[u], e0.ref, "pending_in"))
      /\ e0.type = "friend_request" /\ mem[u].requests[e0.ref] = "none" /\ Pulled(u)
      /\ sent' = sent
  BY DEF HandleFriendRequest, SetAndSave, AfterFriendRequest, MarkSeen
<1>1. PICK r \in ReqId :
        /\ e0 = Request(r) /\ mem[u].requests[r] = "none"
        /\ SetMem(u, SetRequest(mem[u], r, "pending_in")) /\ sent' = sent
  BY <1>0, PulledSound, EnvelopeShape
<1>2. e0 \in sent /\ e0.to = u
  BY <1>0, PulledSound
<1>4. r.to = u /\ Request(r) \in sent /\ AgreedOn(r) /\ sent \subseteq Envelope
  BY <1>1, <1>2 DEF Request, Agreed, IInv, TypeOK
<1>5. r.from # u /\ r.from \in Users
  BY <1>1, <1>4, BoundsAssumption DEF AgreedOn
<1>6. mem' = [mem EXCEPT ![u] = SetRequest(mem[u], r, "pending_in")] /\ mem[u] \in State
  BY <1>1 DEF IInv, TypeOK, SetMem
<1>7. /\ mem'[u].requests = [mem[u].requests EXCEPT ![r] = "pending_in"]
      /\ mem'[u].friends = mem[u].friends
      /\ \A w \in Users : w # u => mem'[w] = mem[w]
  BY <1>6 DEF IInv, TypeOK, SetRequest, State
<1>8. /\ mem'[u].requests[r] = "pending_in"
      /\ \A q \in ReqId : q # r => mem'[u].requests[q] = mem[u].requests[q]
  BY <1>6, <1>7 DEF State
<1>9. OnlyAbout(u, r)
  <2>1. \A w \in Users, q \in ReqId :
          w # u \/ q # r => mem'[w].requests[q] = mem[w].requests[q]
    BY <1>7, <1>8
  <2>2. QED
    BY <1>1, <1>7, <2>1 DEF OnlyAbout
<1>10. \A f \in sent : ~ (f.type = "friend_response" /\ f.ref = r)
  BY <1>1, <1>4, EnvelopeShape DEF AgreedOn, Decided
<1>11. AgreedOn(r)'
  <2>1. mem'[r.from] = mem[r.from]
    BY <1>5, <1>7
  <2>2. mem[r.from].requests[r] \notin Decided
    BY <1>1, <1>4 DEF AgreedOn, Decided
  <2>3. QED
    BY <1>1, <1>4, <1>10, <2>1, <2>2 DEF AgreedOn, Decided
<1>12. UNCHANGED FR!fvars
  <2>1. \A q \in ReqId : q.from \in Users /\ q.to \in Users
    BY BoundsAssumption
  <2>2. \A q \in ReqId : DecisionIn(mem'[q.to].requests[q]) = DecisionIn(mem[q.to].requests[q])
    BY <1>1, <1>4, <1>8, <1>9, <2>1 DEF OnlyAbout, DecisionIn, Decided
  <2>3. \A q \in ReqId : mem'[q.from].requests[q] = mem[q.from].requests[q]
    BY <1>5, <1>9, <2>1 DEF OnlyAbout
  <2>4. \A w \in Users : mem'[w].friends = mem[w].friends
    BY <1>7
  <2>5. /\ [q \in ReqId |-> DecisionIn(mem'[q.to].requests[q])]
             = [q \in ReqId |-> DecisionIn(mem[q.to].requests[q])]
        /\ [q \in ReqId |-> DecisionIn(mem'[q.from].requests[q])]
             = [q \in ReqId |-> DecisionIn(mem[q.from].requests[q])]
        /\ [w \in Users |-> mem'[w].friends] = [w \in Users |-> mem[w].friends]
    BY <2>2, <2>3, <2>4
  <2>6. QED
    BY <1>1, <2>5 DEF FR!fvars, DecisionIn, Request
<1>13. QED
  BY <1>9, <1>11, <1>12, OthersAgree DEF FRStep

(* A response carries the addressee's decision: the asker learns it, or     *)
(* has learned it before.                                                   *)
LEMMA HandleResponseLearns ==
  ASSUME IInv, TypeOK', Agreed, NEW u \in Users, HandleFriendResponse(u)
  PROVE  Agreed' /\ FRStep
<1>0. NextRecord(u) \in Envelope /\ NextRecord(u) \in sent /\ NextRecord(u).to = u
  BY PulledSound DEF HandleFriendResponse, MarkSeen
<1>1. PICK e \in Envelope :
        /\ e \in sent /\ e.to = u /\ e.type = "friend_response"
        /\ SetMem(u, AfterFriendResponse(mem[u], e)) /\ sent' = sent
  BY <1>0 DEF HandleFriendResponse, SetAndSave, MarkSeen
<1>2. PICK r \in ReqId, st \in Decided : r = e.ref /\ st = e.status
  BY <1>1, EnvelopeShape
<1>3. r.from = u /\ e.from = r.to
  BY <1>1, <1>2, EnvelopeShape
<1>4. Request(r) \in sent /\ AgreedOn(r)
  BY <1>1, <1>2, <1>3 DEF Agreed, IInv, AnswersAsked
<1>5. /\ r.to # u /\ r.to \in Users
      /\ mem[r.to].requests[r] = st /\ mem[u].requests[r] # "none"
  BY <1>1, <1>2, <1>3, <1>4, BoundsAssumption DEF AgreedOn
<1>6. SetMem(u, AddFriendIf(SetRequest(mem[u], r, st), r.to, st))
  BY <1>1, <1>2, <1>3, <1>5 DEF AfterFriendResponse
<1>7. /\ mem' = [mem EXCEPT ![u] = AddFriendIf(SetRequest(mem[u], r, st), r.to, st)]
      /\ mem[u] \in State
  BY <1>6 DEF IInv, TypeOK, SetMem
<1>8. /\ mem'[u].requests = [mem[u].requests EXCEPT ![r] = st]
      /\ mem'[u].friends = IF st = "accepted" THEN mem[u].friends \cup {r.to}
                           ELSE mem[u].friends
      /\ \A w \in Users : w # u => mem'[w] = mem[w]
  BY <1>7 DEF IInv, TypeOK, AddFriendIf, SetRequest, State
<1>9. /\ mem'[u].requests[r] = st
      /\ \A q \in ReqId : q # r => mem'[u].requests[q] = mem[u].requests[q]
  BY <1>7, <1>8 DEF State
<1>10. OnlyAbout(u, r)
  <2>1. \A w \in Users, q \in ReqId :
          w # u \/ q # r => mem'[w].requests[q] = mem[w].requests[q]
    BY <1>8, <1>9
  <2>2. QED
    BY <1>1, <1>8, <2>1 DEF OnlyAbout
<1>11. AgreedOn(r)'
  <2>1. mem'[r.to] = mem[r.to]
    BY <1>5, <1>8
  <2>2. st = "accepted" => r.to \in mem'[u].friends
    BY <1>8
  <2>3. \A f \in sent : f.type = "friend_response" /\ f.ref = r => r.from # r.to /\ f.status = st
    BY <1>4, <1>5 DEF AgreedOn
  <2>4. QED
    BY <1>1, <1>3, <1>5, <1>9, <2>1, <2>2, <2>3 DEF AgreedOn, Decided
<1>12. /\ \A q \in ReqId : mem'[q.to].requests[q] = mem[q.to].requests[q]
       /\ \A q \in ReqId : q # r => mem'[q.from].requests[q] = mem[q.from].requests[q]
  <2>1. \A q \in ReqId : q.from \in Users /\ q.to \in Users
    BY BoundsAssumption
  <2>2. QED
    BY <1>5, <1>10, <2>1 DEF OnlyAbout
<1>13. [q \in ReqId |-> DecisionIn(mem'[q.to].requests[q])]
         = [q \in ReqId |-> DecisionIn(mem[q.to].requests[q])]
  BY <1>12
<1>14. ASSUME mem[u].requests[r] \in Decided PROVE FRStep
  <2>1. mem[u].requests[r] = st /\ (st = "accepted" => r.to \in mem[u].friends)
    BY <1>3, <1>4, <1>5, <1>14 DEF AgreedOn
  <2>2. \A q \in ReqId : mem'[q.from].requests[q] = mem[q.from].requests[q]
    BY <1>3, <1>9, <1>12, <2>1
  <2>3. \A w \in Users : mem'[w].friends = mem[w].friends
    BY <1>8, <2>1
  <2>4. /\ [q \in ReqId |-> DecisionIn(mem'[q.from].requests[q])]
             = [q \in ReqId |-> DecisionIn(mem[q.from].requests[q])]
        /\ [w \in Users |-> mem'[w].friends] = [w \in Users |-> mem[w].friends]
    BY <2>2, <2>3
  <2>5. UNCHANGED FR!fvars
    BY <1>1, <1>13, <2>4 DEF FR!fvars, DecisionIn, Request
  <2>6. QED
    BY <2>5 DEF FRStep
<1>15. ASSUME mem[u].requests[r] \notin Decided PROVE FRStep
  <2>1. [q \in ReqId |-> DecisionIn(mem'[q.from].requests[q])]
          = [[q \in ReqId |-> DecisionIn(mem[q.from].requests[q])] EXCEPT ![r] = st]
    BY <1>3, <1>9, <1>12 DEF DecisionIn
  <2>2. [w \in Users |-> mem'[w].friends]
          = [[w \in Users |-> mem[w].friends] EXCEPT
               ![r.from] = IF st = "accepted" THEN @ \cup {r.to} ELSE @]
    BY <1>3, <1>8
  <2>3. /\ [q \in ReqId |-> DecisionIn(mem[q.to].requests[q])][r] = st
        /\ [q \in ReqId |-> DecisionIn(mem[q.from].requests[q])][r] = "open"
        /\ st # "open"
    BY <1>3, <1>5, <1>15 DEF DecisionIn, Decided
  <2>4. FR!Learn(r)
    BY <1>1, <1>13, <2>1, <2>2, <2>3
       DEF FR!Learn, FR!Befriend, FR!Open, DecisionIn, Request
  <2>5. QED
    BY <2>4 DEF FRStep, FR!FRNext
<1>16. QED
  BY <1>10, <1>11, <1>14, <1>15, OthersAgree

(* The other handlers leave requests, friends and answers alone.           *)
LEMMA SendMessageIdle ==
  ASSUME TypeOK, NEW u \in Users, SendDirectMessage(u)
  PROVE  Idle
<1>1. PICK d \in DmId : /\ SetMem(u, AddMessage(mem[u], d))
                        /\ IF mem[u].known[d.to] = "no_peer" THEN ReturnError
                           ELSE Publish(u, Message(d))
  BY DEF SendDirectMessage
<1>2. sent \subseteq sent' /\ sent' \subseteq sent \cup {Message(d)}
  BY <1>1, PublishSent DEF ReturnError
<1>3. /\ mem' = [mem EXCEPT ![u] = AddMessage(mem[u], d)]
      /\ AddMessage(mem[u], d).requests = mem[u].requests
      /\ AddMessage(mem[u], d).friends = mem[u].friends
  BY <1>1 DEF SetMem, TypeOK, AddMessage, State
<1>4. QED
  BY <1>2, <1>3 DEF TypeOK, Idle, Message

LEMMA SavedIdle ==
  ASSUME TypeOK, NEW u \in Users, NEW t \in State, SetMem(u, t), UNCHANGED sent,
         t.requests = mem[u].requests, t.friends = mem[u].friends
  PROVE  Idle
BY DEF TypeOK, SetMem, Idle

LEMMA ConsumeInviteIdle ==
  ASSUME TypeOK, NEW u \in Users, ConsumeInvite(u)
  PROVE  Idle
<1>1. PICK i \in Invite : SetMem(u, SetKnown(UseNonce(mem[u], i), i.owner, "no_peer"))
  BY DEF ConsumeInvite, SetAndSave
<1> DEFINE s == UseNonce(mem[u], i)
           t == SetKnown(s, i.owner, "no_peer")
<1>2. mem[u] \in State /\ i.owner \in Users /\ "no_peer" \in Peer
  BY BoundsAssumption DEF TypeOK, Peer
<1>3. s \in State /\ s.requests = mem[u].requests /\ s.friends = mem[u].friends
  BY <1>2, UseNonceType DEF UseNonce, State
<1> HIDE DEF s
<1>4. t \in State /\ t.requests = s.requests /\ t.friends = s.friends
  BY <1>2, <1>3, SetKnownType DEF SetKnown, State
<1> HIDE DEF t
<1>5. QED
  BY <1>1, <1>3, <1>4, SavedIdle DEF ConsumeInvite, s, t

LEMMA HandlePresenceIdle ==
  ASSUME TypeOK, NEW u \in Users, HandlePresence(u)
  PROVE  Idle
<1>1. CASE UNCHANGED <<mem, saved>>
  BY <1>1 DEF HandlePresence, Idle
<1>2. CASE \E v \in Users \ {u}, p \in {"no_peer", "peer"} :
             SetAndSave(u, SetKnown(mem[u], v, p))
  <2>1. PICK v \in Users, p \in Peer : SetMem(u, SetKnown(mem[u], v, p))
    BY <1>2 DEF SetAndSave, Peer
  <2>2. mem[u] \in State /\ SetKnown(mem[u], v, p) \in State
    BY SetKnownType DEF TypeOK
  <2>3. /\ SetKnown(mem[u], v, p).requests = mem[u].requests
        /\ SetKnown(mem[u], v, p).friends = mem[u].friends
    BY <2>2 DEF SetKnown, State
  <2>4. QED
    BY <2>1, <2>2, <2>3, SavedIdle DEF HandlePresence
<1>3. QED
  BY <1>1, <1>2 DEF HandlePresence

LEMMA HandleMessageIdle ==
  ASSUME IInv, NEW u \in Users, HandleDirectMessage(u)
  PROVE  Idle
<1> DEFINE d == NextRecord(u).ref
           t == AddMessage(mem[u], d)
<1>1. SetMem(u, t) /\ sent' = sent /\ d \in DmId /\ TypeOK
  BY PulledSound, EnvelopeShape DEF HandleDirectMessage, SetAndSave, MarkSeen, IInv
<1> HIDE DEF d
<1>2. t \in State /\ t.requests = mem[u].requests /\ t.friends = mem[u].friends
  BY <1>1, AddMessageType DEF TypeOK, AddMessage, State
<1>3. QED
  BY <1>1, <1>2, SavedIdle

LEMMA CommitCursorIdle ==
  ASSUME TypeOK, NEW u \in Users, CommitCursor(u)
  PROVE  Idle
<1>1. mem[u] \in State /\ mem[u].presence \in Nat
  BY DEF TypeOK, State
<1>2. RecordOffset(u) \in Nat /\ NextOffset(u, mem[u].presence) \in Nat
  BY <1>1, RecordOffsetType, NextOffsetType
<1>3. PICK t \in State : /\ SetMem(u, t) /\ t.requests = mem[u].requests
                         /\ t.friends = mem[u].friends
  <2>1. \A o \in Nat :
          /\ SetCursor(mem[u], o) \in State /\ SetPresence(mem[u], o) \in State
          /\ SetCursor(mem[u], o).requests = mem[u].requests
          /\ SetCursor(mem[u], o).friends = mem[u].friends
          /\ SetPresence(mem[u], o).requests = mem[u].requests
          /\ SetPresence(mem[u], o).friends = mem[u].friends
    BY <1>1, SetCursorType DEF SetCursor, SetPresence, State
  <2>2. CASE pc[u] = "commit"
    BY <1>2, <2>1, <2>2 DEF CommitCursor, SetAndSave
  <2>3. CASE pc[u] # "commit"
    BY <1>2, <2>1, <2>3 DEF CommitCursor, SetAndSave
  <2>4. QED
    BY <2>2, <2>3
<1>4. sent' = sent
  BY DEF CommitCursor
<1>5. QED
  BY <1>3, <1>4, SavedIdle

LEMMA ImplementsInit == Init => Agreed /\ FR!FRInit
<1> SUFFICES ASSUME Init PROVE Agreed /\ FR!FRInit
  OBVIOUS
<1>1. /\ sent = {}
      /\ \A u \in Users : mem[u].friends = {}
      /\ \A u \in Users, r \in ReqId : mem[u].requests[r] = "none"
  BY DEF Init, EmptyState
<1>2. \A r \in ReqId : r.from \in Users /\ r.to \in Users
  BY BoundsAssumption
<1>3. Agreed
  BY <1>1, <1>2 DEF Agreed, AgreedOn, Decided
<1>4. /\ {r \in ReqId : Request(r) \in sent} = {}
      /\ \A r \in ReqId : /\ DecisionIn(mem[r.to].requests[r]) = "open"
                          /\ DecisionIn(mem[r.from].requests[r]) = "open"
  BY <1>1, <1>2 DEF DecisionIn, Decided
<1>5. FR!FRInit
  BY <1>1, <1>4 DEF FR!FRInit, FR!Open
<1>6. QED
  BY <1>3, <1>5

LEMMA ImplementsStep ==
  ASSUME MaxRestarts = 0
  PROVE  IInv /\ TypeOK' /\ Agreed /\ [Next]_vars => Agreed' /\ FRStep
<1> SUFFICES ASSUME IInv, TypeOK', Agreed, [Next]_vars PROVE Agreed' /\ FRStep
  OBVIOUS
<1>1. TypeOK /\ AnswersAsked
  BY DEF IInv
<1>2. ASSUME UNCHANGED <<mem, sent>> PROVE Agreed' /\ FRStep
  BY <1>2, IdleStep DEF Idle
<1>3. CASE UNCHANGED vars
  BY <1>2, <1>3 DEF vars
<1>4. ASSUME NEW u \in Users, SendFriendRequest(u) PROVE Agreed' /\ FRStep
  BY <1>1, <1>4, RequestFriendAsks DEF SendFriendRequest
<1>5. ASSUME NEW u \in Users, RespondFriendRequest(u) PROVE Agreed' /\ FRStep
  BY <1>5, RespondDecides
<1>6. ASSUME NEW u \in Users, SendDirectMessage(u) PROVE Agreed' /\ FRStep
  BY <1>1, <1>6, SendMessageIdle, IdleStep
<1>7. ASSUME NEW u \in Users, Save(u) PROVE Agreed' /\ FRStep
  BY <1>2, <1>7 DEF Save
<1>8. ASSUME NEW u \in Users, ConsumeInvite(u) PROVE Agreed' /\ FRStep
  BY <1>1, <1>8, ConsumeInviteIdle, IdleStep
<1>9. ASSUME NEW u \in Users, RequestByInvite(u) PROVE Agreed' /\ FRStep
  <2>1. inviting[u] \in Users
    BY <1>1, <1>9 DEF RequestByInvite, TypeOK
  <2>2. QED
    BY <1>1, <1>2, <1>9, <2>1, RequestFriendAsks DEF RequestByInvite
<1>10. ASSUME NEW u \in Users, HandlePresence(u) PROVE Agreed' /\ FRStep
  BY <1>1, <1>10, HandlePresenceIdle, IdleStep
<1>11. ASSUME NEW u \in Users, ProcessRecord(u) PROVE Agreed' /\ FRStep
  <2>1. ASSUME DropSeen(u) PROVE Agreed' /\ FRStep
    BY <1>2, <2>1 DEF DropSeen
  <2>2. ASSUME HandleKnownRequest(u) PROVE Agreed' /\ FRStep
    BY <1>2, <2>2 DEF HandleKnownRequest, MarkSeen
  <2>3. ASSUME HandleFriendRequest(u) PROVE Agreed' /\ FRStep
    BY <2>3, HandleRequestWaits
  <2>4. ASSUME HandleFriendResponse(u) PROVE Agreed' /\ FRStep
    BY <2>4, HandleResponseLearns
  <2>5. ASSUME HandleDirectMessage(u) PROVE Agreed' /\ FRStep
    BY <2>5, HandleMessageIdle, IdleStep
  <2>6. QED
    BY <1>11, <2>1, <2>2, <2>3, <2>4, <2>5 DEF ProcessRecord
<1>12. ASSUME NEW u \in Users, CommitCursor(u) PROVE Agreed' /\ FRStep
  BY <1>1, <1>12, CommitCursorIdle, IdleStep
<1>13. ASSUME NEW u \in Users, Restart(u) PROVE FALSE
  BY <1>1, <1>13 DEF Restart, TypeOK
<1>14. ASSUME NEW u \in Users, Deliver(u) \/ Subscribe(u) PROVE Agreed' /\ FRStep
  BY <1>2, <1>14 DEF Deliver, Subscribe
<1>15. QED
  BY <1>3, <1>4, <1>5, <1>6, <1>7, <1>8, <1>9, <1>10, <1>11, <1>12, <1>13, <1>14 DEF Next

(* Without restarts asker and addressee never hold different decisions of   *)
(* a request, and no response in the network carries another one.           *)
THEOREM Agreement ==
  ASSUME MaxRestarts = 0
  PROVE  Spec => []Agreed
<1>1. Init => Agreed
  BY ImplementsInit
<1>2. IInv /\ TypeOK' /\ Agreed /\ [Next]_vars => Agreed'
  BY ImplementsStep
<1>3. QED
  BY <1>1, <1>2, Inductive, TypeCorrect, PTL DEF Spec

(* Without restarts Social implements FriendRequests, for every set of      *)
(* users and requests: lost, repeated and reordered envelopes, failed       *)
(* publishes and writes and the locks show through as nothing but its       *)
(* steps.                                                                   *)
THEOREM Implements ==
  ASSUME MaxRestarts = 0
  PROVE  Spec => ImplementsFriendRequests
<1>1. Init => FR!FRInit
  BY ImplementsInit
<1>2. IInv /\ TypeOK' /\ Agreed /\ [Next]_vars => [FR!FRNext]_(FR!fvars)
  BY ImplementsStep DEF FRStep
<1>3. QED
  BY <1>1, <1>2, Inductive, TypeCorrect, Agreement, PTL
     DEF Spec, ImplementsFriendRequests, FR!FRSpec

=============================================================================
