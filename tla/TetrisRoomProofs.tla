--------------------------- MODULE TetrisRoomProofs ---------------------------
(***************************************************************************)
(* Proofs about TetrisRoom, for any number of nodes, versions and calls,   *)
(* in any order of the events.                                             *)
(***************************************************************************)
EXTENDS TetrisRoom, FiniteSetTheorems, WellFoundedInduction, TLAPS

-----------------------------------------------------------------------------
(* Data.                                                                   *)

LEMMA LeastNat ==
  ASSUME NEW S \in SUBSET Nat, S # {}
  PROVE  \E m \in S : \A k \in S : m <= k
<1>1. PICK m \in S : \A k \in S : ~ (<<k, m>> \in OpToRel(<, Nat))
  BY NatLessThanWellFounded, WFMin
<1>2. ASSUME NEW k \in S PROVE m <= k
  <2>1. <<k, m>> \in Nat \X Nat
    OBVIOUS
  <2>2. ~ (k < m)
    BY <1>1, <2>1 DEF OpToRel
  <2> QED BY <2>2
<1> QED BY <1>2

(* There is a first among any offers (tryMatchLocked: order).              *)
LEMMA FirstOffer ==
  ASSUME NEW S, S # {}, \A o \in S : o.ping \in Nat /\ o.id \in Nat
  PROVE  First(S) \in S
<1>1. PICK p \in {o.ping : o \in S} : \A k \in {o.ping : o \in S} : p <= k
  BY LeastNat
<1>2. PICK i \in {o.id : o \in {a \in S : a.ping = p}} :
        \A k \in {o.id : o \in {a \in S : a.ping = p}} : i <= k
  BY LeastNat
<1>3. PICK a \in S : a.ping = p /\ a.id = i
  BY <1>2
<1>4. ASSUME NEW b \in S PROVE Before(a, b)
  <2>1. p <= b.ping /\ p \in Nat /\ b.ping \in Nat
    BY <1>1
  <2>2. b.ping = p => i <= b.id
    BY <1>2
  <2> QED BY <1>3, <2>1, <2>2 DEF Before
<1> QED BY <1>4 DEF First

(* Without one of them, at least two offers leave at least one.            *)
LEMMA OneLeft ==
  ASSUME NEW S, Cardinality(S) >= 2, NEW a
  PROVE  S # {} /\ S \ {a} # {}
<1>1. S # {}
  BY FS_EmptySet
<1>2. S # {a}
  BY FS_Singleton
<1> QED BY <1>1, <1>2

LEMMA AppendedEvent ==
  ASSUME NEW S, NEW q \in Seq(S), NEW e \in S
  PROVE  /\ Append(q, e) \in Seq(S)
         /\ \A i \in DOMAIN Append(q, e) :
              Append(q, e)[i] = e \/ (i \in DOMAIN q /\ Append(q, e)[i] = q[i])
OBVIOUS

(* What is left of a queue is some of what was in it.                      *)
LEMMA RemainingEvents ==
  ASSUME NEW S, NEW q \in Seq(S), NEW at \in DOMAIN q
  PROVE  /\ q[at] \in S
         /\ Without(q, at) \in Seq(S)
         /\ \A j \in DOMAIN Without(q, at) : \E k \in DOMAIN q : Without(q, at)[j] = q[k]
<1>1. Len(q) \in Nat /\ DOMAIN q = 1..Len(q) /\ \A k \in DOMAIN q : q[k] \in S
  OBVIOUS
<1>2. at \in Nat /\ 1 <= at /\ at <= Len(q)
  BY <1>1
<1>3. DOMAIN Without(q, at) = 1..Len(q) - 1
  BY DEF Without
<1>4. ASSUME NEW j \in 1..Len(q) - 1
      PROVE  \E k \in DOMAIN q : Without(q, at)[j] = q[k]
  <2>1. Without(q, at)[j] = IF j < at THEN q[j] ELSE q[j + 1]
    BY DEF Without
  <2>2. j \in DOMAIN q /\ j + 1 \in DOMAIN q
    BY <1>1
  <2> QED BY <2>1, <2>2
<1>5. \A j \in 1..Len(q) - 1 : Without(q, at)[j] \in S
  BY <1>1, <1>4
<1>6. Len(q) - 1 \in Nat
  BY <1>1, <1>2
<1>7. Without(q, at) \in [1..Len(q) - 1 -> S]
  BY <1>5 DEF Without
<1>8. Without(q, at) \in Seq(S)
  BY <1>6, <1>7
<1> QED BY <1>1, <1>3, <1>4, <1>8

LEMMA PlacesInQueue == ASSUME NEW q, NEW at \in Places(q) PROVE at \in DOMAIN q
BY DEF Places

(* Publishing and consuming keep the queues well formed.                   *)
LEMMA PublishedType ==
  ASSUME NEW S, NEW Q \in [Nodes -> [Nodes -> Seq(S)]], NEW n \in Nodes, NEW e \in S, NEW R
  PROVE  Published(Q, n, e, R) \in [Nodes -> [Nodes -> Seq(S)]]
<1>1. ASSUME NEW m \in Nodes PROVE [Q[m] EXCEPT ![n] = Append(@, e)] \in [Nodes -> Seq(S)]
  BY AppendedEvent
<1> QED BY <1>1 DEF Published

LEMMA ConsumedType ==
  ASSUME NEW S, NEW Q \in [Nodes -> [Nodes -> Seq(S)]], NEW n \in Nodes, NEW f \in Nodes,
         NEW at \in DOMAIN Q[n][f]
  PROVE  Consumed(Q, n, f, at) \in [Nodes -> [Nodes -> Seq(S)]]
<1>1. Without(Q[n][f], at) \in Seq(S)
  BY RemainingEvents
<1> QED BY <1>1 DEF Consumed

-----------------------------------------------------------------------------
(* The match.                                                              *)

LEMMA CandidatesType ==
  ASSUME TypeOK, NEW n \in Nodes, NEW p \in Player \cup {NoPlayer},
         NEW offers \in SUBSET Offer, NEW v \in Versions
  PROVE  \A o \in Candidates(n, p, offers, v) :
           o.ping \in Nat /\ o.id \in Nat /\ o.id \in Nodes
<1>a. Nodes \subseteq Nat
  BY TetrisAssumption
<1> USE <1>a
<1>1. \A o \in offers : o.ping \in Nat /\ o.id \in Nat /\ o.id \in Nodes
  BY DEF Offer
<1>2. p # NoPlayer => p.ping \in Nat
  BY DEF Player
<1>3. OfferOf(n, p).id = n /\ OfferOf(n, p).ping = p.ping
  BY DEF OfferOf
<1>4. \A o \in Candidates(n, p, offers, v) :
        o \in offers \/ (p # NoPlayer /\ o = OfferOf(n, p))
  BY DEF Candidates
<1> QED BY <1>1, <1>2, <1>3, <1>4

LEMMA MatchType ==
  ASSUME TypeOK, NEW n \in Nodes, NEW p \in Player \cup {NoPlayer},
         NEW offers \in SUBSET Offer, NEW v \in Versions,
         MayMatch(n, Candidates(n, p, offers, v), v)
  PROVE  MatchOf(n, Candidates(n, p, offers, v), v) \in Room
<1> DEFINE cands == Candidates(n, p, offers, v)
           host  == First(cands)
           other == First(cands \ {host})
<1>1. cands # {} /\ cands \ {host} # {}
  BY OneLeft DEF MayMatch
<1>2. \A o \in cands : o.ping \in Nat /\ o.id \in Nat /\ o.id \in Nodes
  BY CandidatesType
<1> HIDE DEF cands
<1>3. host \in cands /\ other \in cands
  BY <1>1, <1>2, FirstOffer
<1>4. host.id \in Nodes /\ other.id \in Nodes
  BY <1>2, <1>3
<1>5. seq[n] + 1 \in Nat
  BY DEF TypeOK
<1> QED BY <1>4, <1>5 DEF MatchOf, Room, cands

(* Only a node whose own player is ready and not seated makes a room: the  *)
(* offers of others do not include that player.                            *)
LEMMA MatchIsOwn ==
  ASSUME TypeOK, NEW n \in Nodes, NEW p \in Player \cup {NoPlayer},
         NEW offers \in SUBSET Offer, \A o \in offers : o.id # n, NEW v \in Versions,
         MayMatch(n, Candidates(n, p, offers, v), v)
  PROVE  p \in Player /\ p.room = NoRoom
<1> DEFINE cands == Candidates(n, p, offers, v)
           host  == First(cands)
           other == First(cands \ {host})
<1>1. cands # {} /\ cands \ {host} # {}
  BY OneLeft DEF MayMatch
<1>2. \A o \in cands : o.ping \in Nat /\ o.id \in Nat
  BY CandidatesType
<1>3. host \in cands /\ other \in cands
  <2> HIDE DEF cands
  <2> QED BY <1>1, <1>2, FirstOffer
<1>4. n \in {host.id, other.id}
  BY DEF MayMatch, MatchOf
<1>5. \E o \in cands : o.id = n
  <2> HIDE DEF cands, host, other
  <2> QED BY <1>3, <1>4
<1> QED BY <1>5 DEF Candidates

(* The node that makes a room is its owner.                                *)
LEMMA MatchOwner ==
  ASSUME NEW n \in Nodes, NEW cands, NEW v, MayMatch(n, cands, v),
         MatchOf(n, cands, v).members \subseteq Nodes
  PROVE  Owner(MatchOf(n, cands, v)) = n
<1> DEFINE M == MatchOf(n, cands, v).members
<1>1. n \in M /\ (\A m \in M : n <= m) /\ M \subseteq Nat
  BY TetrisAssumption DEF MayMatch
<1> HIDE DEF M
<1>2. (CHOOSE m \in M : \A k \in M : m <= k) = n
  <2>1. PICK c \in M : c = (CHOOSE m \in M : \A k \in M : m <= k) /\ \A k \in M : c <= k
    BY <1>1
  <2>2. c <= n /\ n <= c /\ c \in Nat /\ n \in Nat
    BY <1>1, <2>1
  <2> QED BY <2>1, <2>2
<1> QED BY <1>2 DEF Owner, M

(* What tryMatchLocked leaves well formed.                                 *)
LEMMA TryMatchType ==
  ASSUME TypeOK, NEW n \in Nodes, NEW p \in Player \cup {NoPlayer},
         NEW offers \in SUBSET Offer, \A o \in offers : o.id # n, NEW v \in Versions,
         TryMatch(n, p, offers, v)
  PROVE  /\ player' \in [Nodes -> Player \cup {NoPlayer}]
         /\ remote' \in [Nodes -> SUBSET Offer]
         /\ rooms' \in [Nodes -> SUBSET Room]
         /\ seq' \in [Nodes -> Nat]
         /\ roomQ' \in [Nodes -> [Nodes -> Seq(Assigned \cup RoomInput)]]
         /\ \A m \in Nodes : \A o \in remote'[m] : o.id # m
<1> DEFINE cands == Candidates(n, p, offers, v)
           room  == MatchOf(n, cands, v)
<1>1. CASE MayMatch(n, cands, v)
  <2>1. room \in Room
    BY <1>1, MatchType
  <2>2. p \in Player
    BY <1>1, MatchIsOwn
  <2> HIDE DEF room
  <2>3. Seated(p, room.id) \in Player
    BY <2>1, <2>2 DEF Seated, Room, Player, Control, Human, Agent
  <2>4. [type |-> "room_assigned", room |-> room] \in Assigned \cup RoomInput
    BY <2>1 DEF Assigned
  <2>5. PICK R \in Receivers :
          roomQ' = Published(roomQ, n, [type |-> "room_assigned", room |-> room], R)
    BY <1>1 DEF TryMatch, room
  <2>6. roomQ' \in [Nodes -> [Nodes -> Seq(Assigned \cup RoomInput)]]
    BY <2>4, <2>5, PublishedType DEF TypeOK
  <2>7. /\ seq' = [seq EXCEPT ![n] = @ + 1]
        /\ rooms' = [rooms EXCEPT ![n] = PutRoom(@, room)]
        /\ player' = [player EXCEPT ![n] = Seated(p, room.id)]
        /\ remote' = [remote EXCEPT ![n] = {o \in offers : o.id \notin room.members}]
    BY <1>1 DEF TryMatch, room
  <2>8. PutRoom(rooms[n], room) \in SUBSET Room
    BY <2>1 DEF TypeOK, PutRoom
  <2>9. /\ player' \in [Nodes -> Player \cup {NoPlayer}]
        /\ rooms' \in [Nodes -> SUBSET Room]
        /\ seq' \in [Nodes -> Nat]
    BY <2>3, <2>7, <2>8 DEF TypeOK
  <2>10. remote' \in [Nodes -> SUBSET Offer] /\ \A m \in Nodes : \A o \in remote'[m] : o.id # m
    BY <2>7 DEF TypeOK
  <2> QED BY <2>6, <2>9, <2>10
<1>2. CASE ~ MayMatch(n, cands, v)
  BY <1>2 DEF TryMatch, TypeOK
<1> QED BY <1>1, <1>2

-----------------------------------------------------------------------------
(* Type correctness.                                                       *)

(* A node hears of a player from that player's node, and of its own player *)
(* only as long as it has it: a restart forgets what was published before. *)
Heard ==
  \A n, f \in Nodes :
    /\ \A i \in DOMAIN playerQ[n][f] : playerQ[n][f][i].id = f
    /\ player[n] = NoPlayer => playerQ[n][n] = << >>

(* What tryMatchLocked does to the seats.                                  *)
LEMMA TryMatchPlayer ==
  ASSUME TypeOK, NEW n \in Nodes, NEW p \in Player \cup {NoPlayer},
         NEW offers \in SUBSET Offer, \A o \in offers : o.id # n, NEW v \in Versions,
         TryMatch(n, p, offers, v)
  PROVE  /\ \A m \in Nodes \ {n} : player'[m] = player[m]
         /\ player'[n] = NoPlayer => p = NoPlayer
<1> DEFINE cands == Candidates(n, p, offers, v)
           room  == MatchOf(n, cands, v)
<1>1. player \in [Nodes -> Player \cup {NoPlayer}] /\ player'[n] \in Player \cup {NoPlayer}
  BY TryMatchType DEF TypeOK
<1>2. CASE MayMatch(n, cands, v)
  <2>1. p \in Player /\ room \in Room
    BY <1>2, MatchIsOwn, MatchType
  <2>2. player' = [player EXCEPT ![n] = Seated(p, room.id)]
    BY <1>2 DEF TryMatch
  <2> HIDE DEF room
  <2>3. Seated(p, room.id) \in Player
    BY <2>1 DEF Seated, Room, Player, Control, Human, Agent
  <2> QED BY <1>1, <2>2, <2>3, TetrisAssumption
<1>3. CASE ~ MayMatch(n, cands, v)
  BY <1>1, <1>3 DEF TryMatch
<1> QED BY <1>2, <1>3

(* A consumer takes the event at "at" of a queue.                          *)
TookOffer(n, f, at) ==
  /\ LET o   == playerQ[n][f][at]
         own == o.id = n /\ player[n] # NoPlayer
         p   == IF own THEN Refreshed(player[n], o) ELSE player[n]
         offers == IF own THEN remote[n] ELSE PutOffer(remote[n], o)
     IN  TryMatch(n, p, offers, o.version)
  /\ playerQ' = Consumed(playerQ, n, f, at)

TookRoom(n, f, at) ==
  /\ roomQ[n][f][at].type = "room_assigned"
  /\ LET room == roomQ[n][f][at].room
     IN  /\ rooms' = [rooms EXCEPT ![n] = PutRoom(@, room)]
         /\ remote' = [remote EXCEPT ![n] = {o \in @ : o.id \notin room.members}]
         /\ player' = IF player[n] # NoPlayer /\ n \in room.members
                        THEN [player EXCEPT ![n] = Seated(@, room.id)]
                        ELSE player
  /\ roomQ' = Consumed(roomQ, n, f, at)

LEMMA EventTaken ==
  ASSUME NEW n, NEW f
  PROVE  /\ ConsumePlayerEvent(n, f) => \E at \in DOMAIN playerQ[n][f] : TookOffer(n, f, at)
         /\ ConsumeRoomAssigned(n, f) => \E at \in DOMAIN roomQ[n][f] : TookRoom(n, f, at)
         /\ ConsumeRoomInput(n, f) =>
              \E at \in DOMAIN roomQ[n][f] :
                /\ roomQ[n][f][at].type = "room_input"
                /\ states' = [states EXCEPT ![n] = Upserted(n, roomQ[n][f][at].state)]
                /\ roomQ' = Consumed(roomQ, n, f, at)
BY PlacesInQueue DEF ConsumePlayerEvent, ConsumeRoomAssigned, ConsumeRoomInput, TookOffer, TookRoom

(* What an event of the players topic is matched with.                     *)
LEMMA EventOperands ==
  ASSUME TypeOK, Heard, NEW n \in Nodes, NEW f \in Nodes, NEW at \in DOMAIN playerQ[n][f]
  PROVE  LET o   == playerQ[n][f][at]
             own == o.id = n /\ player[n] # NoPlayer
             p   == IF own THEN Refreshed(player[n], o) ELSE player[n]
             offers == IF own THEN remote[n] ELSE PutOffer(remote[n], o)
         IN  /\ o \in Offer /\ o.version \in Versions
             /\ p \in Player \cup {NoPlayer} /\ (player[n] # NoPlayer => p \in Player)
             /\ offers \in SUBSET Offer /\ \A q \in offers : q.id # n
<1> DEFINE o   == playerQ[n][f][at]
           own == o.id = n /\ player[n] # NoPlayer
<1>1. o \in Offer /\ o.id = f /\ o.version \in Versions
  <2>1. playerQ[n][f] \in Seq(Offer)
    BY DEF TypeOK
  <2>2. o \in Offer
    BY <2>1, RemainingEvents
  <2>3. o.id = f
    BY <2>2 DEF Heard
  <2> QED BY <2>2, <2>3 DEF Offer
<1>2. o.id = n => player[n] # NoPlayer
  BY <1>1 DEF Heard
<1>3. player[n] # NoPlayer => Refreshed(player[n], o) \in Player /\ player[n] \in Player
  BY <1>1 DEF Refreshed, TypeOK, Player, Offer
<1>4. remote[n] \in SUBSET Offer /\ \A q \in remote[n] : q.id # n
  BY DEF TypeOK
<1>5. PutOffer(remote[n], o) \in SUBSET Offer
  BY <1>1, <1>4 DEF PutOffer
<1>6. ~ own => \A q \in PutOffer(remote[n], o) : q.id # n
  BY <1>2, <1>4 DEF PutOffer
<1>7. player[n] \in Player \cup {NoPlayer}
  BY DEF TypeOK
<1> QED BY <1>1, <1>3, <1>4, <1>5, <1>6, <1>7

(* What an event of the rooms topic carries.                               *)
LEMMA RoomEvent ==
  ASSUME TypeOK, NEW n \in Nodes, NEW f \in Nodes, NEW at \in DOMAIN roomQ[n][f]
  PROVE  /\ roomQ[n][f][at].type = "room_assigned" => roomQ[n][f][at].room \in Room
         /\ roomQ[n][f][at].type = "room_input" => roomQ[n][f][at].state \in Snapshot
<1>1. roomQ[n][f] \in Seq(Assigned \cup RoomInput)
  BY DEF TypeOK
<1>2. roomQ[n][f][at] \in Assigned \cup RoomInput
  BY <1>1, RemainingEvents
<1> QED BY <1>2 DEF Assigned, RoomInput

LEMMA UpsertedType ==
  ASSUME TypeOK, NEW n \in Nodes, NEW s \in Snapshot PROVE Upserted(n, s) \in SUBSET Snapshot
BY DEF TypeOK, Upserted, PutState

LEMMA ReportedPing == ASSUME NEW n \in Nodes, NEW ping \in Pings[n] PROVE ping \in Nat
BY TetrisAssumption

LEMMA CountType ==
  ASSUME TypeOK, NEW n \in Nodes, NEW op \in Operations, Count(n, op)
  PROVE  /\ calls' \in [Nodes -> [Operations -> Nat]]
         /\ \A m \in Nodes : \A x \in Operations : calls'[m][x] <= Bounds[m][x]
<1>1. Bounds \in [Nodes -> [Operations -> Nat]] /\ calls \in [Nodes -> [Operations -> Nat]]
  BY TetrisAssumption DEF TypeOK
<1>2. Bounds[n][op] \in Nat /\ calls[n][op] \in Nat /\ calls[n][op] < Bounds[n][op]
  BY <1>1 DEF Count
<1>3. calls[n][op] + 1 \in Nat /\ calls[n][op] + 1 <= Bounds[n][op]
  BY <1>2
<1>4. calls' = [calls EXCEPT ![n][op] = calls[n][op] + 1]
  BY DEF Count
<1> QED BY <1>1, <1>3, <1>4 DEF TypeOK

LEMMA RoomInitType == Init => TypeOK /\ Heard
<1> SUFFICES ASSUME Init PROVE TypeOK /\ Heard
  OBVIOUS
<1>1. Quiet \in [Nodes -> Seq(Offer)] /\ Quiet \in [Nodes -> Seq(Assigned \cup RoomInput)]
  BY DEF Quiet
<1>2. NoCalls \in [Operations -> Nat] /\ \A op \in Operations : NoCalls[op] = 0
  BY DEF NoCalls
<1>3. Idle \in [Control -> Input \cup {NoInput}]
  BY DEF Idle
<1>4. \A n \in Nodes : \A op \in Operations : Bounds[n][op] \in Nat
  BY TetrisAssumption
<1>5. \A n \in Nodes : \A op \in Operations : calls[n][op] <= Bounds[n][op]
  BY <1>2, <1>4 DEF Init
<1>6. TypeOK
  BY <1>1, <1>2, <1>3, <1>5 DEF Init, TypeOK
<1> QED BY <1>6 DEF Init, Heard, Quiet

LEMMA ClientType ==
  ASSUME TypeOK, Heard, NEW n \in Nodes, ClientStep(n)
  PROVE  TypeOK' /\ Heard'
<1>1. player[n] # NoPlayer => player[n] \in Player
  BY DEF TypeOK
<1>2. ASSUME NEW v \in Versions, RegisterPlayer(n, v) PROVE TypeOK' /\ Heard'
  <2>1. player'[n] \in Player /\ player' \in [Nodes -> Player \cup {NoPlayer}]
    BY <1>2 DEF RegisterPlayer, TypeOK, Player, NoRoom, Control, Human, Agent
  <2>2. \A m \in Nodes \ {n} : player'[m] = player[m]
    BY <1>2 DEF RegisterPlayer, TypeOK
  <2>3. TypeOK'
    BY <1>2, <2>1, CountType DEF RegisterPlayer, TypeOK, Operations
  <2> QED BY <1>2, <2>1, <2>2, <2>3, TetrisAssumption DEF RegisterPlayer, Heard
<1>3. ASSUME NEW v \in Versions, UpsertPlayer(n, v) PROVE TypeOK' /\ Heard'
  <2>1. player'[n] \in Player /\ player' \in [Nodes -> Player \cup {NoPlayer}]
    BY <1>1, <1>3 DEF UpsertPlayer, TypeOK, Player
  <2>2. \A m \in Nodes \ {n} : player'[m] = player[m]
    BY <1>3 DEF UpsertPlayer, TypeOK
  <2>3. TypeOK'
    BY <1>3, <2>1, CountType DEF UpsertPlayer, TypeOK, Operations
  <2> QED BY <1>3, <2>1, <2>2, <2>3, TetrisAssumption DEF UpsertPlayer, Heard
<1>4. ASSUME NEW ping \in Pings[n], SetReady(n, ping) PROVE TypeOK' /\ Heard'
  <2> DEFINE p == [player[n] EXCEPT !.ready = TRUE, !.ping = ping]
  <2>1. p \in Player /\ p.version \in Versions /\ p.ping \in Nat
    BY <1>1, <1>4, ReportedPing DEF SetReady, Player
  <2>2. OfferOf(n, p) \in Offer /\ OfferOf(n, p).id = n
    BY <2>1 DEF OfferOf, Offer
  <2>3. PICK R \in Receivers : playerQ' = Published(playerQ, n, OfferOf(n, p), R)
    BY <1>4 DEF SetReady
  <2>4. /\ TryMatch(n, p, remote[n], p.version)
        /\ remote[n] \in SUBSET Offer /\ \A o \in remote[n] : o.id # n
    BY <1>4 DEF SetReady, TypeOK
  <2>5. playerQ' \in [Nodes -> [Nodes -> Seq(Offer)]]
    BY <2>2, <2>3, PublishedType DEF TypeOK
  <2> HIDE DEF p
  <2>6. /\ player' \in [Nodes -> Player \cup {NoPlayer}]
        /\ remote' \in [Nodes -> SUBSET Offer]
        /\ rooms' \in [Nodes -> SUBSET Room]
        /\ seq' \in [Nodes -> Nat]
        /\ roomQ' \in [Nodes -> [Nodes -> Seq(Assigned \cup RoomInput)]]
        /\ \A m \in Nodes : \A o \in remote'[m] : o.id # m
    BY <2>1, <2>4, TryMatchType
  <2>7. TypeOK'
    BY <1>4, <2>5, <2>6, CountType DEF SetReady, TypeOK, Operations
  <2>8. player'[n] # NoPlayer /\ \A m \in Nodes \ {n} : player'[m] = player[m]
    BY <2>1, <2>4, TryMatchPlayer, TetrisAssumption
  <2>9. ASSUME NEW m \in Nodes, NEW f \in Nodes
        PROVE  /\ \A i \in DOMAIN playerQ'[m][f] : playerQ'[m][f][i].id = f
               /\ player'[m] = NoPlayer => playerQ'[m][m] = << >>
    <3>1. playerQ[m] \in [Nodes -> Seq(Offer)]
      BY DEF TypeOK
    <3>2. CASE m \in R
      <4>1. playerQ'[m] = [playerQ[m] EXCEPT ![n] = Append(@, OfferOf(n, p))]
        BY <2>3, <3>2 DEF Published
      <4>2. f # n => playerQ'[m][f] = playerQ[m][f]
        BY <3>1, <4>1
      <4>3. playerQ'[m][n] = Append(playerQ[m][n], OfferOf(n, p)) /\ playerQ[m][n] \in Seq(Offer)
        BY <3>1, <4>1
      <4>4. \A i \in DOMAIN playerQ'[m][n] : playerQ'[m][n][i].id = n
        BY <2>2, <4>3, AppendedEvent DEF Heard
      <4>5. m # n => playerQ'[m][m] = playerQ[m][m]
        BY <3>1, <4>1
      <4> QED BY <2>8, <4>2, <4>4, <4>5 DEF Heard
    <3>3. CASE m \notin R
      <4>1. playerQ'[m] = playerQ[m]
        BY <2>3, <3>3 DEF Published
      <4> QED BY <2>8, <4>1 DEF Heard
    <3> QED BY <3>2, <3>3
  <2> QED BY <2>7, <2>9 DEF Heard
<1>5. ASSUME NEW c \in Control, ToggleControl(n, c) PROVE TypeOK' /\ Heard'
  <2>1. player'[n] \in Player /\ player' \in [Nodes -> Player \cup {NoPlayer}]
    BY <1>1, <1>5 DEF ToggleControl, InRoom, TypeOK, Player
  <2>2. \A m \in Nodes \ {n} : player'[m] = player[m]
    BY <1>5 DEF ToggleControl, TypeOK
  <2>3. TypeOK'
    BY <1>5, <2>1, CountType DEF ToggleControl, TypeOK, Operations
  <2> QED BY <1>5, <2>1, <2>2, <2>3, TetrisAssumption DEF ToggleControl, Heard
<1>6. ASSUME NEW c \in Control, SubmitInput(n, c) PROVE TypeOK' /\ Heard'
  <2> DEFINE new == [state |-> [room |-> player[n].room, player |-> n, snap |-> calls[n].sync + 1],
                     stage |-> "checked", left |-> Nodes]
  <2>1. player[n].room \in Nat
    BY <1>1, <1>6 DEF SubmitInput, InRoom, Player
  <2>2. calls[n].sync \in Nat
    BY DEF TypeOK, Operations
  <2>3. calls[n].sync + 1 \in Nat \ {0}
    BY <2>2
  <2>4. new \in Input
    BY <2>1, <2>3 DEF Input, Snapshot
  <2>5. input' = [input EXCEPT ![n][c] = new]
    BY <1>6 DEF SubmitInput
  <2> HIDE DEF new
  <2>6. input' \in [Nodes -> [Control -> Input \cup {NoInput}]]
    BY <2>4, <2>5 DEF TypeOK
  <2>7. TypeOK'
    BY <1>6, <2>6, CountType DEF SubmitInput, TypeOK, Operations
  <2> QED BY <1>6, <2>7 DEF SubmitInput, Heard
<1> QED BY <1>2, <1>3, <1>4, <1>5, <1>6 DEF ClientStep

LEMMA NodeType ==
  ASSUME TypeOK, Heard, NEW n \in Nodes, NodeStep(n)
  PROVE  TypeOK' /\ Heard'
<1>1. ASSUME NEW c \in Control, StoreInput(n, c) PROVE TypeOK' /\ Heard'
  <2>1. input[n][c] \in Input
    BY <1>1 DEF StoreInput, TypeOK
  <2>2. Upserted(n, input[n][c].state) \in SUBSET Snapshot
    BY <2>1, UpsertedType DEF Input
  <2>3. states' \in [Nodes -> SUBSET Snapshot]
    BY <1>1, <2>2 DEF StoreInput, TypeOK
  <2>4. [input[n][c] EXCEPT !.stage = "stored"] \in Input
    BY <2>1 DEF Input
  <2>5. input' \in [Nodes -> [Control -> Input \cup {NoInput}]]
    BY <1>1, <2>4 DEF StoreInput, TypeOK
  <2> QED BY <1>1, <2>3, <2>5 DEF StoreInput, TypeOK, Heard
<1>2. ASSUME NEW c \in Control, PublishInput(n, c) PROVE TypeOK' /\ Heard'
  <2> DEFINE event == [type |-> "room_input", state |-> input[n][c].state]
  <2>1. event \in Assigned \cup RoomInput
    BY <1>2 DEF PublishInput, TypeOK, Input, RoomInput
  <2>2. PICK R : roomQ' = Published(roomQ, n, event, R)
    BY <1>2 DEF PublishInput
  <2> HIDE DEF event
  <2>3. roomQ' \in [Nodes -> [Nodes -> Seq(Assigned \cup RoomInput)]]
    BY <2>1, <2>2, PublishedType DEF TypeOK
  <2>4. input' \in [Nodes -> [Control -> Input \cup {NoInput}]]
    <3>1. input[n][c] \in Input
      BY <1>2 DEF PublishInput, TypeOK
    <3>2. PICK rest \in Input : input' = [input EXCEPT ![n][c] =
            IF rest.left = {} THEN NoInput ELSE rest]
      <4>1. \A m \in Nodes : [input[n][c] EXCEPT !.left = @ \ {m}] \in Input
        BY <3>1 DEF Input
      <4>2. input[n][c].left \subseteq Nodes
        BY <3>1 DEF Input
      <4> QED BY <1>2, <4>1, <4>2 DEF PublishInput
    <3> QED BY <3>2 DEF TypeOK
  <2>5. UNCHANGED <<player, remote, rooms, states, seq, playerQ, calls>>
    BY <1>2 DEF PublishInput
  <2>6. TypeOK'
    BY <2>3, <2>4, <2>5 DEF TypeOK
  <2> QED BY <2>5, <2>6 DEF Heard
<1>3. ASSUME NEW f \in Nodes, ConsumePlayerEvent(n, f) PROVE TypeOK' /\ Heard'
  <2>0. PICK at \in DOMAIN playerQ[n][f] : TookOffer(n, f, at)
    BY <1>3, EventTaken
  <2> DEFINE o   == playerQ[n][f][at]
             own == o.id = n /\ player[n] # NoPlayer
             p   == IF own THEN Refreshed(player[n], o) ELSE player[n]
             offers == IF own THEN remote[n] ELSE PutOffer(remote[n], o)
  <2>1. TryMatch(n, p, offers, o.version)
    BY <2>0 DEF TookOffer
  <2>2. /\ o.version \in Versions
        /\ p \in Player \cup {NoPlayer} /\ (player[n] # NoPlayer => p \in Player)
        /\ offers \in SUBSET Offer /\ \A q \in offers : q.id # n
    BY <2>1, EventOperands
  <2>3. playerQ' = Consumed(playerQ, n, f, at)
    BY <2>0 DEF TookOffer
  <2>4. playerQ' \in [Nodes -> [Nodes -> Seq(Offer)]]
    BY <2>3, ConsumedType DEF TypeOK
  <2> HIDE DEF o, own, p, offers
  <2>5. /\ player' \in [Nodes -> Player \cup {NoPlayer}]
        /\ remote' \in [Nodes -> SUBSET Offer]
        /\ rooms' \in [Nodes -> SUBSET Room]
        /\ seq' \in [Nodes -> Nat]
        /\ roomQ' \in [Nodes -> [Nodes -> Seq(Assigned \cup RoomInput)]]
        /\ \A m \in Nodes : \A x \in remote'[m] : x.id # m
    BY <2>1, <2>2, TryMatchType
  <2>6. /\ \A m \in Nodes \ {n} : player'[m] = player[m]
        /\ player'[n] = NoPlayer => p = NoPlayer
    BY <2>1, <2>2, TryMatchPlayer
  <2>7. TypeOK'
    BY <1>3, <2>4, <2>5 DEF ConsumePlayerEvent, TypeOK
  <2>8. ASSUME NEW m \in Nodes PROVE player'[m] = NoPlayer => player[m] = NoPlayer
    <3>1. NoPlayer \notin Player
      BY TetrisAssumption
    <3> QED BY <2>2, <2>6, <3>1
  <2>9. ASSUME NEW m \in Nodes, NEW g \in Nodes
        PROVE  /\ \A i \in DOMAIN playerQ'[m][g] : playerQ'[m][g][i].id = g
               /\ playerQ[m][g] = << >> => playerQ'[m][g] = << >>
    <3>1. playerQ \in [Nodes -> [Nodes -> Seq(Offer)]] /\ playerQ[n][f] \in Seq(Offer)
      BY DEF TypeOK
    <3>2. CASE m = n /\ g = f
      <4>1. playerQ'[m][g] = Without(playerQ[n][f], at)
        BY <2>3, <3>1, <3>2 DEF Consumed
      <4>2. \A i \in DOMAIN playerQ'[m][g] : playerQ'[m][g][i].id = g
        BY <3>1, <3>2, <4>1, RemainingEvents DEF Heard
      <4>3. playerQ[m][g] # << >>
        BY <3>2
      <4> QED BY <4>2, <4>3
    <3>3. CASE ~ (m = n /\ g = f)
      <4>1. playerQ'[m][g] = playerQ[m][g]
        BY <2>3, <3>1, <3>3 DEF Consumed
      <4> QED BY <4>1 DEF Heard
    <3> QED BY <3>2, <3>3
  <2> QED BY <2>7, <2>8, <2>9 DEF Heard
<1>4. ASSUME NEW f \in Nodes, ConsumeRoomAssigned(n, f) PROVE TypeOK' /\ Heard'
  <2>0. PICK at \in DOMAIN roomQ[n][f] : TookRoom(n, f, at)
    BY <1>4, EventTaken
  <2> DEFINE room == roomQ[n][f][at].room
  <2>1. room \in Room
    BY <2>0, RoomEvent DEF TookRoom
  <2>2. /\ rooms' = [rooms EXCEPT ![n] = PutRoom(@, room)]
        /\ remote' = [remote EXCEPT ![n] = {o \in @ : o.id \notin room.members}]
        /\ player' = IF player[n] # NoPlayer /\ n \in room.members
                       THEN [player EXCEPT ![n] = Seated(@, room.id)]
                       ELSE player
        /\ roomQ' = Consumed(roomQ, n, f, at)
    BY <2>0 DEF TookRoom
  <2> HIDE DEF room
  <2>3. rooms' \in [Nodes -> SUBSET Room]
    BY <2>1, <2>2 DEF TypeOK, PutRoom
  <2>4. remote' \in [Nodes -> SUBSET Offer] /\ \A m \in Nodes : \A o \in remote'[m] : o.id # m
    BY <2>2 DEF TypeOK
  <2>5. roomQ' \in [Nodes -> [Nodes -> Seq(Assigned \cup RoomInput)]]
    BY <2>1, <2>2, ConsumedType DEF TypeOK
  <2>6. player[n] # NoPlayer => Seated(player[n], room.id) \in Player
    BY <2>1 DEF TypeOK, Seated, Room, Player, Control, Human, Agent
  <2>7. /\ player' \in [Nodes -> Player \cup {NoPlayer}]
        /\ \A m \in Nodes \ {n} : player'[m] = player[m]
    BY <2>2, <2>6 DEF TypeOK
  <2>8. player[n] # NoPlayer => player'[n] # NoPlayer
    <3>1. NoPlayer \notin Player
      BY TetrisAssumption
    <3> QED BY <2>2, <2>6, <3>1 DEF TypeOK
  <2>9. TypeOK'
    BY <1>4, <2>3, <2>4, <2>5, <2>7 DEF ConsumeRoomAssigned, TypeOK
  <2> QED BY <1>4, <2>7, <2>8, <2>9 DEF ConsumeRoomAssigned, Heard
<1>5. ASSUME NEW f \in Nodes, ConsumeRoomInput(n, f) PROVE TypeOK' /\ Heard'
  <2>0. PICK at \in DOMAIN roomQ[n][f] :
          /\ roomQ[n][f][at].type = "room_input"
          /\ states' = [states EXCEPT ![n] = Upserted(n, roomQ[n][f][at].state)]
          /\ roomQ' = Consumed(roomQ, n, f, at)
    BY <1>5, EventTaken
  <2>1. roomQ[n][f][at].state \in Snapshot
    BY <2>0, RoomEvent
  <2>2. Upserted(n, roomQ[n][f][at].state) \in SUBSET Snapshot
    BY <2>1, UpsertedType
  <2>3. states' \in [Nodes -> SUBSET Snapshot]
    BY <2>0, <2>2 DEF TypeOK
  <2>4. roomQ' \in [Nodes -> [Nodes -> Seq(Assigned \cup RoomInput)]]
    BY <2>0, ConsumedType DEF TypeOK
  <2>5. UNCHANGED <<player, remote, rooms, seq, input, playerQ, calls>>
    BY <1>5 DEF ConsumeRoomInput
  <2>6. TypeOK'
    BY <2>3, <2>4, <2>5 DEF TypeOK
  <2> QED BY <2>5, <2>6 DEF Heard
<1> QED BY <1>1, <1>2, <1>3, <1>4, <1>5 DEF NodeStep

LEMMA RestartType ==
  ASSUME TypeOK, Heard, NEW n \in Nodes, Restart(n)
  PROVE  TypeOK' /\ Heard'
<1>1. Quiet \in [Nodes -> Seq(Offer)] /\ Quiet \in [Nodes -> Seq(Assigned \cup RoomInput)]
  BY DEF Quiet
<1>2. Idle \in [Control -> Input \cup {NoInput}]
  BY DEF Idle
<1> DEFINE life == [NoCalls EXCEPT !.restart = calls[n].restart + 1]
<1>3. Bounds \in [Nodes -> [Operations -> Nat]] /\ calls \in [Nodes -> [Operations -> Nat]]
  BY TetrisAssumption DEF TypeOK
<1>4. /\ "restart" \in Operations
      /\ calls[n].restart < Bounds[n].restart
      /\ calls' = [calls EXCEPT ![n] = life]
  BY DEF Restart, Operations
<1>5. calls[n].restart \in Nat /\ Bounds[n].restart \in Nat
  BY <1>3, <1>4
<1>6. calls[n].restart + 1 \in Nat /\ calls[n].restart + 1 <= Bounds[n].restart
  BY <1>4, <1>5
<1>7. life \in [Operations -> Nat] /\ \A op \in Operations : life[op] <= Bounds[n][op]
  <2>1. life = [op \in Operations |-> IF op = "restart" THEN calls[n].restart + 1 ELSE 0]
    BY <1>4 DEF NoCalls
  <2>2. \A op \in Operations : life[op] \in Nat
    BY <1>6, <2>1
  <2>3. \A op \in Operations : Bounds[n][op] \in Nat
    BY <1>3
  <2>4. \A op \in Operations : life[op] <= Bounds[n][op]
    BY <1>6, <2>1, <2>3
  <2> HIDE DEF life
  <2> QED BY <2>1, <2>2, <2>4
<1> HIDE DEF life
<1>8. /\ calls' \in [Nodes -> [Operations -> Nat]]
      /\ \A m \in Nodes : \A op \in Operations : calls'[m][op] <= Bounds[m][op]
  BY <1>3, <1>4, <1>7 DEF TypeOK
<1>9. TypeOK'
  BY <1>1, <1>2, <1>8 DEF Restart, TypeOK
<1>10. \A m, f \in Nodes : (m = n /\ playerQ'[m][f] = << >>) \/
                           (m # n /\ playerQ'[m] = playerQ[m] /\ player'[m] = player[m])
  BY DEF Restart, TypeOK, Quiet
<1> QED BY <1>9, <1>10 DEF Heard

LEMMA RoomNextType ==
  ASSUME TypeOK, Heard, [Next]_vars PROVE TypeOK' /\ Heard'
<1>1. CASE UNCHANGED vars
  BY <1>1 DEF vars, TypeOK, Heard
<1> QED BY <1>1, ClientType, NodeType, RestartType DEF Next

(* The managers stay well formed, and no node takes its own player for     *)
(* another one (handlePlayerEvent, tryMatchLocked).                        *)
THEOREM RoomTypeCorrect == Spec => []TypeOK
<1>1. TypeOK /\ Heard /\ [Next]_vars => (TypeOK /\ Heard)'
  BY RoomNextType
<1> QED BY RoomInitType, <1>1, PTL DEF Spec

LEMMA RoomHeard == Spec => [](TypeOK /\ Heard)
<1>1. TypeOK /\ Heard /\ [Next]_vars => (TypeOK /\ Heard)'
  BY RoomNextType
<1> QED BY RoomInitType, <1>1, PTL DEF Spec

-----------------------------------------------------------------------------
(* Seats and rooms.                                                        *)

(* tryMatchLocked makes a room for a player who has none, or puts the      *)
(* player back as it was given.                                            *)
PutBack(n, p) ==
  /\ UNCHANGED <<rooms, seq, roomQ>>
  /\ player' = [player EXCEPT ![n] = p]

RoomMade(n, p, room, R) ==
  /\ room.id = seq[n] + 1 /\ room.members # {} /\ Owner(room) = n
  /\ seq' = [seq EXCEPT ![n] = @ + 1]
  /\ rooms' = [rooms EXCEPT ![n] = PutRoom(@, room)]
  /\ player' = [player EXCEPT ![n] = Seated(p, room.id)]
  /\ roomQ' = Published(roomQ, n, [type |-> "room_assigned", room |-> room], R)

LEMMA TryMatchSeat ==
  ASSUME TypeOK, NEW n \in Nodes, NEW p \in Player \cup {NoPlayer},
         NEW offers \in SUBSET Offer, \A o \in offers : o.id # n, NEW v \in Versions,
         TryMatch(n, p, offers, v)
  PROVE  \/ PutBack(n, p)
         \/ /\ p \in Player /\ p.room = NoRoom
            /\ \E room \in Room, R \in Receivers : RoomMade(n, p, room, R)
<1> DEFINE cands == Candidates(n, p, offers, v)
           room  == MatchOf(n, cands, v)
<1>1. CASE MayMatch(n, cands, v)
  <2>1. room \in Room
    BY <1>1, MatchType
  <2>2. p \in Player /\ p.room = NoRoom
    BY <1>1, MatchIsOwn
  <2>3. room.members \subseteq Nodes
    BY <2>1 DEF Room
  <2>4. room.id = seq[n] + 1 /\ room.members # {}
    BY DEF MatchOf
  <2>5. Owner(room) = n
    BY <1>1, <2>3, MatchOwner
  <2>6. \E R \in Receivers : RoomMade(n, p, room, R)
    <3> HIDE DEF cands
    <3> QED BY <1>1, <2>4, <2>5 DEF TryMatch, RoomMade, cands
  <2> QED BY <2>1, <2>2, <2>6
<1>2. CASE ~ MayMatch(n, cands, v)
  BY <1>2 DEF TryMatch, PutBack
<1> QED BY <1>1, <1>2

LEMMA TryMatchSettled ==
  ASSUME TypeOK, SeatedIsSettled, NEW n \in Nodes, NEW p \in Player \cup {NoPlayer},
         NEW offers \in SUBSET Offer, \A o \in offers : o.id # n, NEW v \in Versions,
         p = NoPlayer => SeatOf(n) = NoRoom,
         p # NoPlayer => /\ p.room = SeatOf(n)
                         /\ SeatOf(n) # NoRoom => ~ p.ready,
         TryMatch(n, p, offers, v)
  PROVE  SeatedIsSettled'
<1>1. NoPlayer \notin Player /\ player \in [Nodes -> Player \cup {NoPlayer}]
  BY TetrisAssumption DEF TypeOK
<1>2. CASE PutBack(n, p)
  BY <1>1, <1>2 DEF PutBack, SeatedIsSettled, SeatOf
<1>3. ASSUME p \in Player, NEW room \in Room, NEW R, RoomMade(n, p, room, R)
      PROVE  SeatedIsSettled'
  <2>1. room \in rooms'[n]
    BY <1>3 DEF RoomMade, PutRoom, TypeOK
  <2>2. player'[n].room = room.id /\ ~ player'[n].ready
    BY <1>1, <1>3 DEF RoomMade, Seated, Player
  <2>3. \A m \in Nodes \ {n} : player'[m] = player[m] /\ rooms'[m] = rooms[m]
    BY <1>1, <1>3 DEF RoomMade, TypeOK
  <2> QED BY <2>1, <2>2, <2>3 DEF SeatedIsSettled, SeatOf
<1>4. \/ PutBack(n, p)
      \/ p \in Player /\ \E room \in Room, R \in Receivers : RoomMade(n, p, room, R)
  BY TryMatchSeat
<1> QED BY <1>2, <1>3, <1>4

(* A player who is in a room keeps its entry when it hears of itself.      *)
LEMMA RefreshedSeat ==
  ASSUME NEW p \in Player, NEW o \in Offer
  PROVE  /\ Refreshed(p, o) \in Player /\ Refreshed(p, o).room = p.room
         /\ p.room # NoRoom => Refreshed(p, o) = p
BY DEF Refreshed, Player, Offer

LEMMA SettledNext ==
  ASSUME TypeOK, Heard, SeatedIsSettled, [Next]_vars PROVE SeatedIsSettled'
<1>1. NoPlayer \notin Player /\ player \in [Nodes -> Player \cup {NoPlayer}]
  BY TetrisAssumption DEF TypeOK
<1>2. ASSUME NEW n \in Nodes, NEW v \in Versions, RegisterPlayer(n, v) PROVE SeatedIsSettled'
  BY <1>1, <1>2 DEF RegisterPlayer, SeatedIsSettled, SeatOf
<1>3. ASSUME NEW n \in Nodes, NEW v \in Versions, UpsertPlayer(n, v) PROVE SeatedIsSettled'
  <2>1. player[n] \in Player /\ player' = [player EXCEPT ![n].version = v] /\ rooms' = rooms
    BY <1>1, <1>3 DEF UpsertPlayer
  <2>2. /\ player'[n] \in Player /\ player'[n].room = player[n].room
        /\ player'[n].ready = player[n].ready
    BY <1>1, <2>1 DEF Player
  <2> QED BY <1>1, <2>1, <2>2 DEF SeatedIsSettled, SeatOf
<1>4. ASSUME NEW n \in Nodes, NEW c \in Control, ToggleControl(n, c) PROVE SeatedIsSettled'
  <2>1. player[n] \in Player /\ player' = [player EXCEPT ![n].control = c] /\ rooms' = rooms
    BY <1>1, <1>4 DEF ToggleControl, InRoom
  <2>2. /\ player'[n] \in Player /\ player'[n].room = player[n].room
        /\ player'[n].ready = player[n].ready
    BY <1>1, <2>1 DEF Player
  <2> QED BY <1>1, <2>1, <2>2 DEF SeatedIsSettled, SeatOf
<1>5. ASSUME NEW n \in Nodes, NEW ping \in Pings[n], SetReady(n, ping) PROVE SeatedIsSettled'
  <2> DEFINE p == [player[n] EXCEPT !.ready = TRUE, !.ping = ping]
  <2>1. player[n] \in Player /\ player[n].room = NoRoom /\ TryMatch(n, p, remote[n], p.version)
    BY <1>1, <1>5 DEF SetReady
  <2>2. p \in Player /\ p.room = NoRoom /\ p.version \in Versions
    BY <2>1, ReportedPing DEF Player
  <2> HIDE DEF p
  <2>3. remote[n] \in SUBSET Offer /\ \A o \in remote[n] : o.id # n
    BY DEF TypeOK
  <2>4. SeatOf(n) = NoRoom
    BY <2>1 DEF SeatOf
  <2> QED BY <1>1, <2>1, <2>2, <2>3, <2>4, TryMatchSettled
<1>6. ASSUME NEW n \in Nodes, NEW f \in Nodes, ConsumePlayerEvent(n, f) PROVE SeatedIsSettled'
  <2>0. PICK at \in DOMAIN playerQ[n][f] : TookOffer(n, f, at)
    BY <1>6, EventTaken
  <2> DEFINE o   == playerQ[n][f][at]
             own == o.id = n /\ player[n] # NoPlayer
             p   == IF own THEN Refreshed(player[n], o) ELSE player[n]
             offers == IF own THEN remote[n] ELSE PutOffer(remote[n], o)
  <2>1. TryMatch(n, p, offers, o.version)
    BY <2>0 DEF TookOffer
  <2>2. /\ o \in Offer /\ o.version \in Versions
        /\ p \in Player \cup {NoPlayer} /\ (player[n] # NoPlayer => p \in Player)
        /\ offers \in SUBSET Offer /\ \A q \in offers : q.id # n
    BY <2>1, EventOperands
  <2> HIDE DEF o, own
  <2>3. player[n] # NoPlayer =>
          p.room = player[n].room /\ (player[n].room # NoRoom => p = player[n])
    BY <1>1, <2>2, RefreshedSeat
  <2>4. player[n] = NoPlayer => p = NoPlayer
    BY DEF own
  <2> HIDE DEF p, offers
  <2>5. /\ p = NoPlayer => SeatOf(n) = NoRoom
        /\ p # NoPlayer => /\ p.room = SeatOf(n)
                           /\ SeatOf(n) # NoRoom => ~ p.ready
    BY <1>1, <2>2, <2>3, <2>4 DEF SeatOf, SeatedIsSettled
  <2> QED BY <2>1, <2>2, <2>5, TryMatchSettled
<1>7. ASSUME NEW n \in Nodes, NEW f \in Nodes, ConsumeRoomAssigned(n, f)
      PROVE  SeatedIsSettled'
  <2>0. PICK at \in DOMAIN roomQ[n][f] : TookRoom(n, f, at)
    BY <1>7, EventTaken
  <2> DEFINE room == roomQ[n][f][at].room
  <2>1. room \in Room
    BY <2>0, RoomEvent DEF TookRoom
  <2>2. /\ rooms' = [rooms EXCEPT ![n] = PutRoom(@, room)]
        /\ player' = IF player[n] # NoPlayer /\ n \in room.members
                       THEN [player EXCEPT ![n] = Seated(@, room.id)]
                       ELSE player
    BY <2>0 DEF TookRoom
  <2> HIDE DEF room
  <2>3. rooms'[n] = PutRoom(rooms[n], room) /\ \A m \in Nodes \ {n} : rooms'[m] = rooms[m]
    BY <2>2 DEF TypeOK
  <2>4. room \in rooms'[n] /\ \A r \in rooms[n] : \E q \in rooms'[n] : q.id = r.id
    BY <2>3 DEF PutRoom
  <2>5. CASE player[n] # NoPlayer /\ n \in room.members
    <3>1. player'[n].room = room.id /\ ~ player'[n].ready
      BY <1>1, <2>2, <2>5 DEF Seated, Player
    <3>2. \A m \in Nodes \ {n} : player'[m] = player[m]
      BY <1>1, <2>2, <2>5
    <3> QED BY <2>3, <2>4, <3>1, <3>2 DEF SeatedIsSettled, SeatOf
  <2>6. CASE ~ (player[n] # NoPlayer /\ n \in room.members)
    BY <2>2, <2>3, <2>4, <2>6 DEF SeatedIsSettled, SeatOf
  <2> QED BY <2>5, <2>6
<1>8. ASSUME NEW n \in Nodes, Restart(n) PROVE SeatedIsSettled'
  BY <1>1, <1>8 DEF Restart, SeatedIsSettled, SeatOf, TypeOK
<1>9. ASSUME UNCHANGED <<player, rooms>> PROVE SeatedIsSettled'
  BY <1>9 DEF SeatedIsSettled, SeatOf
<1>10. ASSUME NEW n \in Nodes, NEW c \in Control,
              SubmitInput(n, c) \/ StoreInput(n, c) \/ PublishInput(n, c)
       PROVE  UNCHANGED <<player, rooms>>
  BY <1>10 DEF SubmitInput, StoreInput, PublishInput
<1>11. ASSUME NEW n \in Nodes, NEW f \in Nodes, ConsumeRoomInput(n, f)
       PROVE  UNCHANGED <<player, rooms>>
  BY <1>11 DEF ConsumeRoomInput
<1>12. ASSUME NEW n \in Nodes, ClientStep(n) PROVE SeatedIsSettled'
  BY <1>2, <1>3, <1>4, <1>5, <1>9, <1>10, <1>12 DEF ClientStep
<1>13. ASSUME NEW n \in Nodes, NodeStep(n) PROVE SeatedIsSettled'
  BY <1>6, <1>7, <1>9, <1>10, <1>11, <1>13 DEF NodeStep
<1>14. CASE UNCHANGED vars
  BY <1>9, <1>14 DEF vars
<1> QED BY <1>8, <1>12, <1>13, <1>14 DEF Next

(* Whoever is told a room id finds the room on the node, and is not        *)
(* matched again (tryMatchLocked, handleRoomEvent).                        *)
THEOREM SeatsSettled == Spec => []SeatedIsSettled
<1>1. Init => SeatedIsSettled
  BY DEF Init, SeatedIsSettled, SeatOf
<1>2. TypeOK /\ Heard /\ SeatedIsSettled /\ [Next]_vars => SeatedIsSettled'
  BY SettledNext
<1> QED BY RoomHeard, <1>1, <1>2, PTL DEF Spec

-----------------------------------------------------------------------------
(* Owners and their rooms.                                                 *)

(* No node is started again.                                               *)
NoRestarts == \A n \in Nodes : Bounds[n].restart = 0

Rooms == UNION {Known(n) : n \in Nodes}

(* The node is in its first life.                                          *)
FirstLife(n) == calls[n].restart = 0

(* A node makes one room at most in its first life, whatever the others    *)
(* do: a node that has made a room has its player in one from then on.     *)
RoomsInv ==
  /\ \A r \in Rooms : r.id # NoRoom /\ Owner(r) \in Nodes
  /\ \A r \in Rooms : FirstLife(Owner(r)) => seq[Owner(r)] # 0
  /\ \A r, q \in Rooms : FirstLife(Owner(r)) /\ Owner(r) = Owner(q) => r = q
  /\ \A n \in Nodes : seq[n] # 0 => SeatOf(n) # NoRoom

(* A publication adds the room it announces, if any; consuming adds none.  *)
LEMMA PublishedRooms ==
  ASSUME TypeOK, NEW n \in Nodes, NEW e \in Assigned \cup RoomInput, NEW R,
         roomQ' = Published(roomQ, n, e, R), NEW m \in Nodes, NEW r \in InFlight(m)'
  PROVE  r \in InFlight(m) \/ (e.type = "room_assigned" /\ r = e.room)
<1>1. PICK f \in Nodes : \E i \in DOMAIN roomQ'[m][f] :
        roomQ'[m][f][i].type = "room_assigned" /\ r = roomQ'[m][f][i].room
  BY DEF InFlight
<1>2. PICK i \in DOMAIN roomQ'[m][f] :
        roomQ'[m][f][i].type = "room_assigned" /\ r = roomQ'[m][f][i].room
  BY <1>1
<1>3. roomQ \in [Nodes -> [Nodes -> Seq(Assigned \cup RoomInput)]]
  BY DEF TypeOK
<1>4. roomQ'[m][f] = roomQ[m][f] \/ roomQ'[m][f] = Append(roomQ[m][f], e)
  BY <1>3 DEF Published
<1>5. roomQ'[m][f][i] = e \/ (i \in DOMAIN roomQ[m][f] /\ roomQ'[m][f][i] = roomQ[m][f][i])
  <2> DEFINE T == Assigned \cup RoomInput
             q == roomQ[m][f]
  <2>1. q \in Seq(T) /\ e \in T
    BY <1>3
  <2>2. roomQ'[m][f] = q \/ roomQ'[m][f] = Append(q, e)
    BY <1>4
  <2> HIDE DEF T, q
  <2>3. \A j \in DOMAIN Append(q, e) :
          Append(q, e)[j] = e \/ (j \in DOMAIN q /\ Append(q, e)[j] = q[j])
    BY <2>1, AppendedEvent
  <2>4. roomQ'[m][f][i] = e \/ (i \in DOMAIN q /\ roomQ'[m][f][i] = q[i])
    BY <1>2, <2>2, <2>3
  <2> QED BY <2>4 DEF q
<1> QED BY <1>2, <1>5 DEF InFlight

LEMMA ConsumedRooms ==
  ASSUME TypeOK, NEW n \in Nodes, NEW f \in Nodes, NEW at \in DOMAIN roomQ[n][f],
         roomQ' = Consumed(roomQ, n, f, at), NEW m \in Nodes
  PROVE  InFlight(m)' \subseteq InFlight(m)
<1> SUFFICES ASSUME NEW r \in InFlight(m)' PROVE r \in InFlight(m)
  OBVIOUS
<1>1. PICK g \in Nodes : \E i \in DOMAIN roomQ'[m][g] :
        roomQ'[m][g][i].type = "room_assigned" /\ r = roomQ'[m][g][i].room
  BY DEF InFlight
<1>2. PICK i \in DOMAIN roomQ'[m][g] :
        roomQ'[m][g][i].type = "room_assigned" /\ r = roomQ'[m][g][i].room
  BY <1>1
<1>3. roomQ \in [Nodes -> [Nodes -> Seq(Assigned \cup RoomInput)]]
  BY DEF TypeOK
<1>4. CASE roomQ'[m][g] = roomQ[m][g]
  BY <1>2, <1>4 DEF InFlight
<1>5. CASE m = n /\ g = f /\ roomQ'[m][g] = Without(roomQ[n][f], at)
  <2>1. \E k \in DOMAIN roomQ[m][g] : roomQ'[m][g][i] = roomQ[m][g][k]
    BY <1>2, <1>3, <1>5, RemainingEvents
  <2> QED BY <1>2, <2>1 DEF InFlight
<1> QED BY <1>3, <1>4, <1>5 DEF Consumed

(* The room of an event to be taken is known already.                       *)
LEMMA NextRoom ==
  ASSUME TypeOK, NEW n \in Nodes, NEW f \in Nodes, NEW at \in DOMAIN roomQ[n][f],
         roomQ[n][f][at].type = "room_assigned"
  PROVE  roomQ[n][f][at].room \in Rooms
<1>1. roomQ[n][f][at].room \in InFlight(n)
  BY DEF InFlight
<1> QED BY <1>1 DEF Known, Rooms

(* A call does not start a node again.                                     *)
LEMMA CountedLife ==
  ASSUME TypeOK, NEW n \in Nodes, NEW op \in Operations \ {"restart"}, Count(n, op)
  PROVE  \A m \in Nodes : calls'[m].restart = calls[m].restart
BY DEF Count, TypeOK, Operations

(* What leaves the counters alone and makes no room.                       *)
LEMMA NoNewRoom ==
  ASSUME RoomsInv, Rooms' \subseteq Rooms, seq' = seq,
         \A m \in Nodes : calls'[m].restart = calls[m].restart,
         \A n \in Nodes : SeatOf(n) # NoRoom => SeatOf(n)' # NoRoom
  PROVE  RoomsInv'
BY DEF RoomsInv, FirstLife

LEMMA TryMatchRooms ==
  ASSUME TypeOK, RoomsInv, NEW n \in Nodes, NEW p \in Player \cup {NoPlayer},
         NEW offers \in SUBSET Offer, \A o \in offers : o.id # n, NEW v \in Versions,
         p = NoPlayer => SeatOf(n) = NoRoom,
         p # NoPlayer => p.room = SeatOf(n),
         \A m \in Nodes : calls'[m].restart = calls[m].restart,
         TryMatch(n, p, offers, v)
  PROVE  RoomsInv'
<1>1. NoPlayer \notin Player /\ player \in [Nodes -> Player \cup {NoPlayer}]
  BY TetrisAssumption DEF TypeOK
<1>2. ASSUME PutBack(n, p) PROVE RoomsInv'
  <2>1. Rooms' = Rooms /\ seq' = seq
    BY <1>2 DEF PutBack, Rooms, Known, InFlight
  <2>2. \A m \in Nodes : SeatOf(m)' = SeatOf(m)
    BY <1>1, <1>2 DEF PutBack, SeatOf
  <2> QED BY <2>1, <2>2, NoNewRoom
<1>3. ASSUME p \in Player, p.room = NoRoom,
             NEW room \in Room, NEW R, RoomMade(n, p, room, R)
      PROVE  RoomsInv'
  <2> DEFINE e == [type |-> "room_assigned", room |-> room]
  <2>1. seq[n] = 0
    BY <1>1, <1>3 DEF RoomsInv
  <2>2. seq \in [Nodes -> Nat] /\ room.id = 1 /\ Owner(room) = n
    BY <1>3, <2>1 DEF RoomMade, TypeOK
  <2>3. seq'[n] = 1 /\ \A m \in Nodes \ {n} : seq'[m] = seq[m]
    BY <1>3, <2>1, <2>2 DEF RoomMade
  <2>4. \A r \in Rooms : FirstLife(Owner(r)) => Owner(r) # n
    BY <2>1 DEF RoomsInv
  <2>5. \A m \in Nodes : rooms'[m] \subseteq rooms[m] \cup {room}
    BY <1>3 DEF RoomMade, PutRoom, TypeOK
  <2>6. e \in Assigned \cup RoomInput /\ e.room = room /\ roomQ' = Published(roomQ, n, e, R)
    BY <1>3 DEF RoomMade, Assigned
  <2> HIDE DEF e
  <2>7. \A m \in Nodes : \A r \in InFlight(m)' : r \in InFlight(m) \/ r = room
    BY <2>6, PublishedRooms
  <2>8. \A r \in Rooms' : r \in Rooms \/ r = room
    BY <2>5, <2>7 DEF Rooms, Known
  <2>9. player'[n].room = room.id /\ player'[n] \in Player
    BY <1>1, <1>3 DEF RoomMade, Seated, Player, Room, Control, Human, Agent
  <2>10. \A m \in Nodes \ {n} : player'[m] = player[m]
    BY <1>1, <1>3 DEF RoomMade
  <2>11. \A m \in Nodes : seq'[m] # 0 => SeatOf(m)' # NoRoom
    <3>1. SeatOf(n)' # NoRoom
      BY <1>1, <2>2, <2>9 DEF SeatOf, NoRoom
    <3>2. \A m \in Nodes \ {n} : SeatOf(m)' = SeatOf(m)
      BY <2>10 DEF SeatOf
    <3> QED BY <2>3, <3>1, <3>2 DEF RoomsInv
  <2>12. \A m \in Nodes : FirstLife(m)' <=> FirstLife(m)
    BY DEF FirstLife
  <2>13. \A r \in Rooms' : r.id # NoRoom /\ Owner(r) \in Nodes
    BY <2>2, <2>8 DEF RoomsInv, NoRoom
  <2>14. ASSUME NEW r \in Rooms', FirstLife(Owner(r)) PROVE seq'[Owner(r)] # 0
    <3>1. CASE r = room
      BY <2>2, <2>3, <3>1
    <3>2. CASE r \in Rooms
      <4>1. Owner(r) # n /\ seq[Owner(r)] # 0
        BY <2>4, <2>14, <3>2 DEF RoomsInv
      <4>2. seq'[Owner(r)] = seq[Owner(r)]
        BY <1>3, <2>2, <4>1 DEF RoomMade
      <4> QED BY <4>1, <4>2
    <3> QED BY <2>8, <3>1, <3>2
  <2>15. \A r, q \in Rooms' : FirstLife(Owner(r)) /\ Owner(r) = Owner(q) => r = q
    BY <2>2, <2>4, <2>8 DEF RoomsInv
  <2> QED BY <2>11, <2>12, <2>13, <2>14, <2>15 DEF RoomsInv
<1>4. \/ PutBack(n, p)
      \/ /\ p \in Player /\ p.room = NoRoom
         /\ \E room \in Room, R \in Receivers : RoomMade(n, p, room, R)
  BY TryMatchSeat
<1> QED BY <1>2, <1>3, <1>4

LEMMA OwnersNext ==
  ASSUME TypeOK, Heard, RoomsInv, [Next]_vars PROVE RoomsInv'
<1>1. NoPlayer \notin Player /\ player \in [Nodes -> Player \cup {NoPlayer}]
  BY TetrisAssumption DEF TypeOK
<1>2. ASSUME NEW n \in Nodes, NEW v \in Versions, RegisterPlayer(n, v) PROVE RoomsInv'
  <2>1. Rooms' = Rooms /\ seq' = seq
    BY <1>2 DEF RegisterPlayer, Rooms, Known, InFlight
  <2>2. \A m \in Nodes : SeatOf(m) # NoRoom => SeatOf(m)' # NoRoom
    BY <1>1, <1>2 DEF RegisterPlayer, SeatOf
  <2>c. \A m \in Nodes : calls'[m].restart = calls[m].restart
    BY <1>2, CountedLife DEF RegisterPlayer, Operations
  <2> QED BY <2>c, <2>1, <2>2, NoNewRoom
<1>3. ASSUME NEW n \in Nodes, NEW v \in Versions, UpsertPlayer(n, v) PROVE RoomsInv'
  <2>1. Rooms' = Rooms /\ seq' = seq
    BY <1>3 DEF UpsertPlayer, Rooms, Known, InFlight
  <2>2. player'[n] \in Player /\ player'[n].room = player[n].room
    BY <1>1, <1>3 DEF UpsertPlayer, Player
  <2>3. \A m \in Nodes \ {n} : player'[m] = player[m]
    BY <1>1, <1>3 DEF UpsertPlayer
  <2>4. \A m \in Nodes : SeatOf(m) # NoRoom => SeatOf(m)' # NoRoom
    BY <1>1, <2>2, <2>3 DEF SeatOf
  <2>c. \A m \in Nodes : calls'[m].restart = calls[m].restart
    BY <1>3, CountedLife DEF UpsertPlayer, Operations
  <2> QED BY <2>c, <2>1, <2>4, NoNewRoom
<1>4. ASSUME NEW n \in Nodes, NEW c \in Control, ToggleControl(n, c) PROVE RoomsInv'
  <2>1. Rooms' = Rooms /\ seq' = seq
    BY <1>4 DEF ToggleControl, Rooms, Known, InFlight
  <2>2. player'[n] \in Player /\ player'[n].room = player[n].room
    BY <1>1, <1>4 DEF ToggleControl, InRoom, Player
  <2>3. \A m \in Nodes \ {n} : player'[m] = player[m]
    BY <1>1, <1>4 DEF ToggleControl
  <2>4. \A m \in Nodes : SeatOf(m) # NoRoom => SeatOf(m)' # NoRoom
    BY <1>1, <2>2, <2>3 DEF SeatOf
  <2>c. \A m \in Nodes : calls'[m].restart = calls[m].restart
    BY <1>4, CountedLife DEF ToggleControl, Operations
  <2> QED BY <2>c, <2>1, <2>4, NoNewRoom
<1>5. ASSUME NEW n \in Nodes, NEW ping \in Pings[n], SetReady(n, ping) PROVE RoomsInv'
  <2> DEFINE p == [player[n] EXCEPT !.ready = TRUE, !.ping = ping]
  <2>1. player[n] \in Player /\ player[n].room = NoRoom /\ TryMatch(n, p, remote[n], p.version)
    BY <1>1, <1>5 DEF SetReady
  <2>2. p \in Player /\ p.room = NoRoom /\ p.version \in Versions
    BY <2>1, ReportedPing DEF Player
  <2> HIDE DEF p
  <2>3. remote[n] \in SUBSET Offer /\ \A o \in remote[n] : o.id # n
    BY DEF TypeOK
  <2>4. SeatOf(n) = NoRoom
    BY <2>1 DEF SeatOf
  <2>5. \A m \in Nodes : calls'[m].restart = calls[m].restart
    BY <1>5, CountedLife DEF SetReady, Operations
  <2> QED BY <1>1, <2>1, <2>2, <2>3, <2>4, <2>5, TryMatchRooms
<1>6. ASSUME NEW n \in Nodes, NEW f \in Nodes, ConsumePlayerEvent(n, f) PROVE RoomsInv'
  <2>0. PICK at \in DOMAIN playerQ[n][f] : TookOffer(n, f, at)
    BY <1>6, EventTaken
  <2> DEFINE o   == playerQ[n][f][at]
             own == o.id = n /\ player[n] # NoPlayer
             p   == IF own THEN Refreshed(player[n], o) ELSE player[n]
             offers == IF own THEN remote[n] ELSE PutOffer(remote[n], o)
  <2>1. TryMatch(n, p, offers, o.version)
    BY <2>0 DEF TookOffer
  <2>2. /\ o \in Offer /\ o.version \in Versions
        /\ p \in Player \cup {NoPlayer} /\ (player[n] # NoPlayer => p \in Player)
        /\ offers \in SUBSET Offer /\ \A q \in offers : q.id # n
    BY <2>1, EventOperands
  <2> HIDE DEF o, own
  <2>3. player[n] # NoPlayer => p.room = player[n].room
    BY <1>1, <2>2, RefreshedSeat
  <2>4. player[n] = NoPlayer => p = NoPlayer
    BY DEF own
  <2> HIDE DEF p, offers
  <2>5. /\ p = NoPlayer => SeatOf(n) = NoRoom
        /\ p # NoPlayer => p.room = SeatOf(n)
    BY <1>1, <2>2, <2>3, <2>4 DEF SeatOf
  <2>6. calls' = calls
    BY <1>6 DEF ConsumePlayerEvent
  <2> QED BY <2>1, <2>2, <2>5, <2>6, TryMatchRooms
<1>7. ASSUME NEW n \in Nodes, NEW f \in Nodes, ConsumeRoomAssigned(n, f) PROVE RoomsInv'
  <2>0. PICK at \in DOMAIN roomQ[n][f] : TookRoom(n, f, at)
    BY <1>7, EventTaken
  <2> DEFINE room == roomQ[n][f][at].room
  <2>1. room \in Room /\ room \in Rooms
    BY <2>0, RoomEvent, NextRoom DEF TookRoom
  <2>2. /\ rooms' = [rooms EXCEPT ![n] = PutRoom(@, room)]
        /\ player' = IF player[n] # NoPlayer /\ n \in room.members
                       THEN [player EXCEPT ![n] = Seated(@, room.id)]
                       ELSE player
        /\ roomQ' = Consumed(roomQ, n, f, at) /\ seq' = seq /\ calls' = calls
    BY <1>7, <2>0 DEF ConsumeRoomAssigned, TookRoom
  <2> HIDE DEF room
  <2>3. \A m \in Nodes : rooms'[m] \subseteq rooms[m] \cup {room}
    BY <2>2 DEF PutRoom, TypeOK
  <2>4. \A m \in Nodes : InFlight(m)' \subseteq InFlight(m)
    BY <2>1, <2>2, ConsumedRooms
  <2>5. Rooms' \subseteq Rooms
    BY <2>1, <2>3, <2>4 DEF Rooms, Known
  <2>6. room.id # NoRoom
    BY <2>1 DEF RoomsInv
  <2>7. CASE player[n] # NoPlayer /\ n \in room.members
    <3>1. player'[n].room = room.id /\ player'[n] \in Player
      BY <1>1, <2>1, <2>2, <2>7 DEF Seated, Player, Room, Control, Human, Agent
    <3>2. \A m \in Nodes \ {n} : player'[m] = player[m]
      BY <1>1, <2>2, <2>7
    <3>3. \A m \in Nodes : SeatOf(m) # NoRoom => SeatOf(m)' # NoRoom
      BY <1>1, <2>6, <3>1, <3>2 DEF SeatOf
    <3> QED BY <2>2, <2>5, <3>3, NoNewRoom
  <2>8. CASE ~ (player[n] # NoPlayer /\ n \in room.members)
    <3>1. \A m \in Nodes : SeatOf(m)' = SeatOf(m)
      BY <2>2, <2>8 DEF SeatOf
    <3> QED BY <2>2, <2>5, <3>1, NoNewRoom
  <2> QED BY <2>7, <2>8
<1>8. ASSUME NEW n \in Nodes, Restart(n) PROVE RoomsInv'
  <2>1. /\ rooms' = [rooms EXCEPT ![n] = {}] /\ roomQ' = [roomQ EXCEPT ![n] = Quiet]
        /\ player' = [player EXCEPT ![n] = NoPlayer] /\ seq' = [seq EXCEPT ![n] = 0]
    BY <1>8 DEF Restart
  <2>2. ~ FirstLife(n)' /\ \A m \in Nodes \ {n} : FirstLife(m)' <=> FirstLife(m)
    <3>1. /\ calls'[n].restart = calls[n].restart + 1 /\ calls[n].restart \in Nat
          /\ \A m \in Nodes \ {n} : calls'[m] = calls[m]
      BY <1>8 DEF Restart, TypeOK, Operations, NoCalls
    <3> QED BY <3>1 DEF FirstLife
  <2>3. \A m \in Nodes : Known(m)' \subseteq Known(m)
    <3>1. /\ \A m \in Nodes \ {n} : rooms'[m] = rooms[m] /\ roomQ'[m] = roomQ[m]
          /\ rooms'[n] = {} /\ roomQ'[n] = Quiet
      BY <2>1 DEF TypeOK
    <3>2. InFlight(n)' = {}
      BY <3>1 DEF InFlight, Quiet
    <3>3. \A m \in Nodes \ {n} : InFlight(m)' = InFlight(m)
      BY <3>1 DEF InFlight
    <3> QED BY <3>1, <3>2, <3>3 DEF Known
  <2>4. Rooms' \subseteq Rooms
    BY <2>3 DEF Rooms
  <2>5. \A m \in Nodes \ {n} : seq'[m] = seq[m] /\ SeatOf(m)' = SeatOf(m)
    BY <2>1 DEF TypeOK, SeatOf
  <2>6. seq'[n] = 0
    BY <2>1 DEF TypeOK
  <2> QED BY <2>2, <2>4, <2>5, <2>6 DEF RoomsInv
<1>9. ASSUME UNCHANGED <<player, rooms, seq>>, Rooms' \subseteq Rooms,
             \A m \in Nodes : calls'[m].restart = calls[m].restart
      PROVE  RoomsInv'
  <2>1. \A m \in Nodes : SeatOf(m)' = SeatOf(m)
    BY <1>9 DEF SeatOf
  <2> QED BY <1>9, <2>1, NoNewRoom
<1>10. ASSUME NEW n \in Nodes, NEW c \in Control, SubmitInput(n, c) \/ StoreInput(n, c)
       PROVE  RoomsInv'
  <2>1. UNCHANGED <<player, rooms, seq, roomQ>>
    BY <1>10 DEF SubmitInput, StoreInput
  <2>2. \A m \in Nodes : calls'[m].restart = calls[m].restart
    BY <1>10, CountedLife DEF SubmitInput, StoreInput, Operations
  <2> QED BY <1>9, <2>1, <2>2 DEF Rooms, Known, InFlight
<1>11. ASSUME NEW n \in Nodes, NEW c \in Control, PublishInput(n, c) PROVE RoomsInv'
  <2> DEFINE e == [type |-> "room_input", state |-> input[n][c].state]
  <2>1. e \in Assigned \cup RoomInput /\ e.type # "room_assigned"
    BY <1>11 DEF PublishInput, TypeOK, Input, RoomInput
  <2>2. PICK R : roomQ' = Published(roomQ, n, e, R)
    BY <1>11 DEF PublishInput
  <2> HIDE DEF e
  <2>3. \A m \in Nodes : InFlight(m)' \subseteq InFlight(m)
    BY <2>1, <2>2, PublishedRooms
  <2>4. UNCHANGED <<player, rooms, seq, calls>>
    BY <1>11 DEF PublishInput
  <2>5. Rooms' \subseteq Rooms
    BY <2>3, <2>4 DEF Rooms, Known
  <2> QED BY <1>9, <2>4, <2>5
<1>12. ASSUME NEW n \in Nodes, NEW f \in Nodes, ConsumeRoomInput(n, f) PROVE RoomsInv'
  <2>1. \A m \in Nodes : InFlight(m)' \subseteq InFlight(m)
    BY <1>12, EventTaken, ConsumedRooms
  <2>2. UNCHANGED <<player, rooms, seq, calls>>
    BY <1>12 DEF ConsumeRoomInput
  <2>3. Rooms' \subseteq Rooms
    BY <2>1, <2>2 DEF Rooms, Known
  <2> QED BY <1>9, <2>2, <2>3
<1>13. CASE UNCHANGED vars
  BY <1>9, <1>13 DEF vars, Rooms, Known, InFlight
<1>14. ASSUME NEW n \in Nodes, ClientStep(n) PROVE RoomsInv'
  BY <1>2, <1>3, <1>4, <1>5, <1>10, <1>14 DEF ClientStep
<1>15. ASSUME NEW n \in Nodes, NodeStep(n) PROVE RoomsInv'
  BY <1>6, <1>7, <1>10, <1>11, <1>12, <1>15 DEF NodeStep
<1> QED BY <1>8, <1>13, <1>14, <1>15 DEF Next

(* A node makes one room in its first life, and every node that hears of it *)
(* holds that same room, whatever else is restarted, lost or heard late     *)
(* (tryMatchLocked, handleRoomEvent).                                       *)
THEOREM OneRoomInFirstLife == Spec => []RoomsInv
<1>1. Init => RoomsInv
  BY DEF Init, RoomsInv, Rooms, Known, InFlight, Quiet
<1>2. TypeOK /\ Heard /\ RoomsInv /\ [Next]_vars => RoomsInv'
  BY OwnersNext
<1> QED BY RoomHeard, <1>1, <1>2, PTL DEF Spec

(* As long as no node is started again, a room id and the node that gave   *)
(* it are one room on every node, whatever was lost and in whatever order  *)
(* the publishers were heard (tryMatchLocked, handleRoomEvent).            *)
THEOREM OwnersNeverDisagree == ASSUME NoRestarts PROVE Spec => []OwnersAgree
<1>1. TypeOK => \A n \in Nodes : FirstLife(n)
  <2>1. TypeOK => \A n \in Nodes : calls[n].restart \in Nat /\ calls[n].restart <= 0
    BY DEF TypeOK, NoRestarts, Operations
  <2> QED BY <2>1 DEF FirstLife
<1>2. TypeOK /\ RoomsInv => OwnersAgree
  BY <1>1 DEF RoomsInv, Rooms, OwnersAgree
<1> QED BY RoomHeard, OneRoomInFirstLife, <1>2, PTL

-----------------------------------------------------------------------------
(* Pairs.                                                                  *)

(* An offer per player, and two different players in a room.               *)
OneEach(offers) == \A o, p \in offers : o.id = p.id => o = p
Paired(r)       == \E a, b \in Nodes : a # b /\ r.members = {a, b}

PairsInv ==
  /\ \A n \in Nodes : OneEach(remote[n])
  /\ \A r \in Rooms : Paired(r)

(* The two first of the candidates are two players.                        *)
LEMMA MatchPairs ==
  ASSUME TypeOK, NEW n \in Nodes, NEW p \in Player \cup {NoPlayer},
         NEW offers \in SUBSET Offer, \A o \in offers : o.id # n, OneEach(offers),
         NEW v \in Versions, MayMatch(n, Candidates(n, p, offers, v), v)
  PROVE  Paired(MatchOf(n, Candidates(n, p, offers, v), v))
<1> DEFINE cands == Candidates(n, p, offers, v)
           host  == First(cands)
           other == First(cands \ {host})
<1>1. cands # {} /\ cands \ {host} # {}
  BY OneLeft DEF MayMatch
<1>2. \A o \in cands : o.ping \in Nat /\ o.id \in Nat /\ o.id \in Nodes
  BY CandidatesType
<1>3. \A o, q \in cands : o.id = q.id => o = q
  <2>1. \A o \in cands : o \in offers \/ o = OfferOf(n, p)
    BY DEF Candidates
  <2>2. OfferOf(n, p).id = n
    BY DEF OfferOf
  <2> QED BY <2>1, <2>2 DEF OneEach
<1> HIDE DEF cands
<1>4. host \in cands /\ other \in cands \ {host}
  BY <1>1, <1>2, FirstOffer
<1>5. host.id \in Nodes /\ other.id \in Nodes /\ host.id # other.id
  BY <1>2, <1>3, <1>4
<1> QED BY <1>5 DEF MatchOf, Paired, cands

LEMMA TryMatchPairs ==
  ASSUME TypeOK, PairsInv, NEW n \in Nodes, NEW p \in Player \cup {NoPlayer},
         NEW offers \in SUBSET Offer, \A o \in offers : o.id # n, OneEach(offers),
         NEW v \in Versions, TryMatch(n, p, offers, v)
  PROVE  PairsInv'
<1> DEFINE cands == Candidates(n, p, offers, v)
           room  == MatchOf(n, cands, v)
<1>1. CASE MayMatch(n, cands, v)
  <2>1. room \in Room /\ Paired(room)
    BY <1>1, MatchType, MatchPairs
  <2>2. PICK R \in Receivers :
          roomQ' = Published(roomQ, n, [type |-> "room_assigned", room |-> room], R)
    BY <1>1 DEF TryMatch
  <2>3. /\ rooms' = [rooms EXCEPT ![n] = PutRoom(@, room)]
        /\ remote' = [remote EXCEPT ![n] = {o \in offers : o.id \notin room.members}]
    BY <1>1 DEF TryMatch
  <2> HIDE DEF room, cands
  <2> DEFINE e == [type |-> "room_assigned", room |-> room]
  <2>4. e \in Assigned \cup RoomInput /\ e.room = room
    BY <2>1 DEF Assigned
  <2>5. roomQ' = Published(roomQ, n, e, R)
    BY <2>2
  <2> HIDE DEF e
  <2>6. \A m \in Nodes : \A r \in InFlight(m)' : r \in InFlight(m) \/ r = room
    BY <2>4, <2>5, PublishedRooms
  <2>7. \A m \in Nodes : rooms'[m] \subseteq rooms[m] \cup {room}
    BY <2>3 DEF PutRoom, TypeOK
  <2>8. \A r \in Rooms' : r \in Rooms \/ r = room
    BY <2>6, <2>7 DEF Rooms, Known
  <2>9. \A m \in Nodes : OneEach(remote'[m])
    BY <2>3 DEF PairsInv, OneEach, TypeOK
  <2>10. \A r \in Rooms' : Paired(r)
    BY <2>1, <2>8 DEF PairsInv
  <2> QED BY <2>9, <2>10 DEF PairsInv
<1>2. CASE ~ MayMatch(n, cands, v)
  <2>1. UNCHANGED <<rooms, roomQ>> /\ remote' = [remote EXCEPT ![n] = offers]
    BY <1>2 DEF TryMatch
  <2>2. Rooms' = Rooms
    BY <2>1 DEF Rooms, Known, InFlight
  <2>3. \A m \in Nodes : OneEach(remote'[m])
    BY <2>1 DEF PairsInv, TypeOK
  <2> QED BY <2>2, <2>3 DEF PairsInv
<1> QED BY <1>1, <1>2

LEMMA NoNewPair ==
  ASSUME PairsInv, Rooms' \subseteq Rooms, \A n \in Nodes : remote'[n] \subseteq remote[n]
  PROVE  PairsInv'
BY DEF PairsInv, OneEach

LEMMA PairsNext ==
  ASSUME TypeOK, Heard, PairsInv, [Next]_vars PROVE PairsInv'
<1>1. NoPlayer \notin Player /\ player \in [Nodes -> Player \cup {NoPlayer}]
  BY TetrisAssumption DEF TypeOK
<1>2. ASSUME UNCHANGED <<remote, rooms>>, \A m \in Nodes : InFlight(m)' \subseteq InFlight(m)
      PROVE  PairsInv'
  <2>1. Rooms' \subseteq Rooms
    BY <1>2 DEF Rooms, Known
  <2> QED BY <1>2, <2>1, NoNewPair
<1>3. ASSUME UNCHANGED <<remote, rooms, roomQ>> PROVE PairsInv'
  BY <1>2, <1>3 DEF InFlight
<1>4. ASSUME NEW n \in Nodes, NEW ping \in Pings[n], SetReady(n, ping) PROVE PairsInv'
  <2> DEFINE p == [player[n] EXCEPT !.ready = TRUE, !.ping = ping]
  <2>1. player[n] \in Player /\ TryMatch(n, p, remote[n], p.version)
    BY <1>1, <1>4 DEF SetReady
  <2>2. p \in Player /\ p.version \in Versions
    BY <2>1, ReportedPing DEF Player
  <2> HIDE DEF p
  <2>3. remote[n] \in SUBSET Offer /\ (\A o \in remote[n] : o.id # n) /\ OneEach(remote[n])
    BY DEF TypeOK, PairsInv
  <2> QED BY <2>1, <2>2, <2>3, TryMatchPairs
<1>5. ASSUME NEW n \in Nodes, NEW f \in Nodes, ConsumePlayerEvent(n, f) PROVE PairsInv'
  <2>0. PICK at \in DOMAIN playerQ[n][f] : TookOffer(n, f, at)
    BY <1>5, EventTaken
  <2> DEFINE o   == playerQ[n][f][at]
             own == o.id = n /\ player[n] # NoPlayer
             p   == IF own THEN Refreshed(player[n], o) ELSE player[n]
             offers == IF own THEN remote[n] ELSE PutOffer(remote[n], o)
  <2>1. TryMatch(n, p, offers, o.version)
    BY <2>0 DEF TookOffer
  <2>2. /\ o \in Offer /\ o.version \in Versions /\ p \in Player \cup {NoPlayer}
        /\ offers \in SUBSET Offer /\ \A q \in offers : q.id # n
    BY <2>1, EventOperands
  <2> HIDE DEF o, own, p
  <2>3. OneEach(offers)
    BY DEF PairsInv, OneEach, PutOffer
  <2> HIDE DEF offers
  <2> QED BY <2>1, <2>2, <2>3, TryMatchPairs
<1>6. ASSUME NEW n \in Nodes, NEW f \in Nodes, ConsumeRoomAssigned(n, f) PROVE PairsInv'
  <2>0. PICK at \in DOMAIN roomQ[n][f] : TookRoom(n, f, at)
    BY <1>6, EventTaken
  <2> DEFINE room == roomQ[n][f][at].room
  <2>1. room \in Rooms
    BY <2>0, NextRoom DEF TookRoom
  <2>2. /\ rooms' = [rooms EXCEPT ![n] = PutRoom(@, room)]
        /\ remote' = [remote EXCEPT ![n] = {o \in @ : o.id \notin room.members}]
        /\ roomQ' = Consumed(roomQ, n, f, at)
    BY <2>0 DEF TookRoom
  <2> HIDE DEF room
  <2>3. \A m \in Nodes : rooms'[m] \subseteq rooms[m] \cup {room}
    BY <2>2 DEF PutRoom, TypeOK
  <2>4. \A m \in Nodes : InFlight(m)' \subseteq InFlight(m)
    BY <2>1, <2>2, ConsumedRooms
  <2>5. Rooms' \subseteq Rooms
    BY <2>1, <2>3, <2>4 DEF Rooms, Known
  <2>6. \A m \in Nodes : remote'[m] \subseteq remote[m]
    BY <2>2 DEF TypeOK
  <2> QED BY <2>5, <2>6, NoNewPair
<1>7. ASSUME NEW n \in Nodes, Restart(n) PROVE PairsInv'
  <2>1. /\ rooms' = [rooms EXCEPT ![n] = {}] /\ roomQ' = [roomQ EXCEPT ![n] = Quiet]
        /\ remote' = [remote EXCEPT ![n] = {}]
    BY <1>7 DEF Restart
  <2>2. /\ \A m \in Nodes \ {n} : rooms'[m] = rooms[m] /\ roomQ'[m] = roomQ[m]
        /\ rooms'[n] = {} /\ roomQ'[n] = Quiet
    BY <2>1 DEF TypeOK
  <2>3. InFlight(n)' = {} /\ \A m \in Nodes \ {n} : InFlight(m)' = InFlight(m)
    BY <2>2 DEF InFlight, Quiet
  <2>4. Rooms' \subseteq Rooms
    BY <2>2, <2>3 DEF Rooms, Known
  <2>5. \A m \in Nodes : remote'[m] \subseteq remote[m]
    BY <2>1 DEF TypeOK
  <2> QED BY <2>4, <2>5, NoNewPair
<1>8. ASSUME NEW n \in Nodes, NEW c \in Control, PublishInput(n, c) PROVE PairsInv'
  <2> DEFINE e == [type |-> "room_input", state |-> input[n][c].state]
  <2>1. e \in Assigned \cup RoomInput /\ e.type # "room_assigned"
    BY <1>8 DEF PublishInput, TypeOK, Input, RoomInput
  <2>2. PICK R : roomQ' = Published(roomQ, n, e, R)
    BY <1>8 DEF PublishInput
  <2> HIDE DEF e
  <2>3. \A m \in Nodes : InFlight(m)' \subseteq InFlight(m)
    BY <2>1, <2>2, PublishedRooms
  <2>4. UNCHANGED <<remote, rooms>>
    BY <1>8 DEF PublishInput
  <2> QED BY <1>2, <2>3, <2>4
<1>9. ASSUME NEW n \in Nodes, NEW f \in Nodes, ConsumeRoomInput(n, f) PROVE PairsInv'
  <2>1. \A m \in Nodes : InFlight(m)' \subseteq InFlight(m)
    BY <1>9, EventTaken, ConsumedRooms
  <2> QED BY <1>2, <1>9, <2>1 DEF ConsumeRoomInput
<1>10. ASSUME NEW n \in Nodes, ClientStep(n) PROVE PairsInv'
  <2>1. ASSUME NEW v \in Versions, RegisterPlayer(n, v) \/ UpsertPlayer(n, v)
        PROVE  PairsInv'
    BY <1>3, <2>1 DEF RegisterPlayer, UpsertPlayer
  <2>2. ASSUME NEW c \in Control, ToggleControl(n, c) \/ SubmitInput(n, c)
        PROVE  PairsInv'
    BY <1>3, <2>2 DEF ToggleControl, SubmitInput
  <2> QED BY <1>4, <1>10, <2>1, <2>2 DEF ClientStep
<1>11. ASSUME NEW n \in Nodes, NodeStep(n) PROVE PairsInv'
  <2>1. ASSUME NEW c \in Control, StoreInput(n, c) PROVE PairsInv'
    BY <1>3, <2>1 DEF StoreInput
  <2> QED BY <1>5, <1>6, <1>8, <1>9, <1>11, <2>1 DEF NodeStep
<1>12. CASE UNCHANGED vars
  BY <1>3, <1>12 DEF vars
<1> QED BY <1>7, <1>10, <1>11, <1>12 DEF Next

(* A match is made of two different players: no player is ever seated       *)
(* against itself, however often its offers are heard (tryMatchLocked,      *)
(* handlePlayerEvent).                                                      *)
THEOREM RoomsPair == Spec => []PairsInv
<1>1. Init => PairsInv
  BY DEF Init, PairsInv, OneEach, Rooms, Known, InFlight, Quiet
<1>2. TypeOK /\ Heard /\ PairsInv /\ [Next]_vars => PairsInv'
  BY PairsNext
<1> QED BY RoomHeard, <1>1, <1>2, PTL DEF Spec

TwoNodes == \E a, b : Nodes = {a, b}

(* Two nodes that were never restarted and whose players are in rooms of   *)
(* the same id hold the same room with both players in it, whatever was    *)
(* lost (tryMatchLocked, consumeRoomEvents).  With three it is false:      *)
(* every manager counts its rooms from 1, and hears of the others' room_1. *)
THEOREM PlayersSeatedTogether == ASSUME TwoNodes PROVE Spec => []SeatedTogether
<1>1. TypeOK /\ RoomsInv /\ PairsInv /\ SeatedIsSettled => SeatedTogether
  <2> SUFFICES ASSUME RoomsInv, PairsInv, SeatedIsSettled,
                      NEW n \in Nodes, NEW m \in Nodes, FirstLife(n), FirstLife(m),
                      SeatOf(n) # NoRoom, SeatOf(n) = SeatOf(m)
               PROVE  \E r \in rooms[n] \cap rooms[m] :
                        r.id = SeatOf(n) /\ {n, m} \subseteq r.members
    BY DEF SeatedTogether, FirstLife
  <2>1. PICK r \in rooms[n] : r.id = SeatOf(n)
    BY DEF SeatedIsSettled
  <2>2. PICK q \in rooms[m] : q.id = SeatOf(n)
    BY DEF SeatedIsSettled
  <2>3. r \in Rooms /\ q \in Rooms
    BY DEF Rooms, Known
  <2>4. r.members = Nodes /\ q.members = Nodes
    BY <2>3 DEF PairsInv, Paired, TwoNodes
  <2>5. CASE n = m
    BY <2>1, <2>4, <2>5
  <2>6. CASE n # m
    <3>1. FirstLife(Owner(r)) /\ Owner(r) = Owner(q)
      <4>1. \A k \in Nodes : FirstLife(k)
        BY <2>6 DEF TwoNodes
      <4> QED BY <2>3, <2>4, <4>1 DEF RoomsInv, Owner
    <3>2. r = q
      BY <2>3, <3>1 DEF RoomsInv
    <3> QED BY <2>1, <2>2, <2>4, <3>2
  <2> QED BY <2>5, <2>6
<1> QED BY RoomTypeCorrect, OneRoomInFirstLife, RoomsPair, SeatsSettled, <1>1, PTL
=============================================================================
