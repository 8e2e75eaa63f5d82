----------------------------- MODULE TetrisRoom -----------------------------
(***************************************************************************)
(* Matchmaking and room state of the tetris nodes                          *)
(* (internal/tetrisroom/manager.go) over a publish/subscribe network       *)
(* (internal/core/network).                                                *)
(*                                                                         *)
(* A node holds one local player, named by the node.  It announces that    *)
(* the player is ready on the topic tetris.player and what happens in      *)
(* rooms on the topic tetris.room; a goroutine per topic consumes both,    *)
(* the node's own events included.  The network merges publishers in any   *)
(* order; it may drop, and it may reorder also what one publisher sent.    *)
(*                                                                         *)
(* The topic of a single room feeds only HTTP streams, and of its events   *)
(* control_switch_applied and inputs other than state_sync change nothing  *)
(* in any node: they are left out.                                         *)
(***************************************************************************)
EXTENDS Integers, FiniteSets, Sequences

CONSTANTS
  Nodes,        \* nodes, which are also the ids of their players
  Versions,     \* versions of the game a client may register
  Pings,        \* pings the clients of each node may report
  Lossy,        \* a subscriber may miss an event
  Ordered,      \* a subscriber gets one publisher's events in the order sent
  Bounds,       \* bound: Bounds[n][op] calls of op in a life of node n, where
                \* op is to register, to get ready, to switch control or to
                \* submit a snapshot, and Bounds[n].restart restarts of n
  NoPlayer,     \* the seat of a node nobody has registered at
  NoInput       \* no SubmitInput is running

Operations == {"upsert", "ready", "toggle", "sync", "restart"}

VARIABLES
  player,   \* player[n]: the entry of m.players, or NoPlayer
  remote,   \* remote[n]: m.remote, the ready players elsewhere
  rooms,    \* rooms[n]: m.rooms, at most one room per id
  states,   \* states[n]: m.states, at most one snapshot per room and player
  seq,      \* seq[n]: the room counter
  input,    \* input[n][s]: the SubmitInput that client s is waiting for
  playerQ,  \* playerQ[n][f]: events of f on tetris.player that n has to consume
  roomQ,    \* roomQ[n][f]: events of f on tetris.room that n has to consume
  calls     \* calls[n]: how often each bounded operation was called

vars == <<player, remote, rooms, states, seq, input, playerQ, roomQ, calls>>

-----------------------------------------------------------------------------
(* Control modes and input sources have the same names.                    *)
Human   == "human"
Agent   == "agent"
Control == {Human, Agent}

(* Rooms are numbered: "room_" and the counter.  0 is the empty room id.   *)
NoRoom == 0

Player == [version : Versions, ping : Nat, ready : BOOLEAN,
           room : Nat, control : Control]
Offer  == [id : Nodes, version : Versions, ping : Nat]
Room   == [id : Nat, version : Versions, host : Nodes, members : SUBSET Nodes]
Snapshot == [room : Nat, player : Nodes, snap : Nat \ {0}]
Assigned  == [type : {"room_assigned"}, room : Room]
RoomInput == [type : {"room_input"}, state : Snapshot]
Input == [state : Snapshot, stage : {"checked", "stored"}, left : SUBSET Nodes]

ASSUME TetrisAssumption ==
  /\ Nodes \subseteq Nat /\ Pings \in [Nodes -> SUBSET Nat]
  /\ Lossy \in BOOLEAN /\ Ordered \in BOOLEAN
  /\ Bounds \in [Nodes -> [Operations -> Nat]]
  /\ NoPlayer \notin Player /\ NoInput \notin Input

NoCalls == [op \in Operations |-> 0]
Quiet   == [f \in Nodes |-> << >>]
Idle    == [s \in Control |-> NoInput]

Init ==
  /\ player  = [n \in Nodes |-> NoPlayer]
  /\ remote  = [n \in Nodes |-> {}]
  /\ rooms   = [n \in Nodes |-> {}]
  /\ states  = [n \in Nodes |-> {}]
  /\ seq     = [n \in Nodes |-> 0]
  /\ input   = [n \in Nodes |-> Idle]
  /\ playerQ = [n \in Nodes |-> Quiet]
  /\ roomQ   = [n \in Nodes |-> Quiet]
  /\ calls   = [n \in Nodes |-> NoCalls]

Count(n, op) ==
  /\ calls[n][op] < Bounds[n][op]
  /\ calls' = [calls EXCEPT ![n][op] = @ + 1]

-----------------------------------------------------------------------------
(* The network.                                                            *)

(* The nodes that get an event.                                            *)
Receivers == IF Lossy THEN SUBSET Nodes ELSE {Nodes}

Published(queue, n, event, receivers) ==
  [m \in Nodes |-> IF m \in receivers
                     THEN [queue[m] EXCEPT ![n] = Append(@, event)]
                     ELSE queue[m]]

(* The places of a queue from which the next event may be taken.           *)
Places(q) == {i \in DOMAIN q : Ordered => i = 1}

Without(q, i) == [j \in 1..Len(q) - 1 |-> IF j < i THEN q[j] ELSE q[j + 1]]

Consumed(queue, n, f, i) == [queue EXCEPT ![n][f] = Without(@, i)]

-----------------------------------------------------------------------------
(* The maps of a manager, as sets of entries.                              *)

PutOffer(offers, o) == {p \in offers : p.id # o.id} \cup {o}

PutRoom(rs, r) == {q \in rs : q.id # r.id} \cup {r}

PutState(ss, s) ==
  {t \in ss : t.room # s.room \/ t.player # s.player} \cup {s}

(* Variant: a node trusts what it has of its own player.                   *)
KeepOwn(n, s) ==
  IF s.player = n /\ (\E t \in states[n] : t.room = s.room /\ t.player = n)
    THEN states[n]
    ELSE IF \E r \in rooms[n] : r.id = s.room THEN PutState(states[n], s) ELSE states[n]

(* upsertRoomState: a snapshot for a room the node does not know is        *)
(* dropped.                                                                *)
Upserted(n, s) ==
  IF \E r \in rooms[n] : r.id = s.room THEN PutState(states[n], s) ELSE states[n]

Seated(p, id) == [p EXCEPT !.room = id, !.ready = FALSE, !.control = Human]

OfferOf(n, p) == [id |-> n, version |-> p.version, ping |-> p.ping]

-----------------------------------------------------------------------------
(* tryMatchLocked: the two ready players of the version with the lowest    *)
(* pings make a room, if the node is the one with the lower id.            *)

Candidates(n, p, offers, version) ==
  LET local == p # NoPlayer /\ p.ready /\ p.room = NoRoom
  IN  {o \in offers \cup (IF local THEN {OfferOf(n, p)} ELSE {}) : o.version = version}

Before(a, b) == a.ping < b.ping \/ (a.ping = b.ping /\ a.id <= b.id)

First(offers) == CHOOSE a \in offers : \A b \in offers : Before(a, b)

MatchOf(n, offers, version) ==
  LET host  == First(offers)
      other == First(offers \ {host})
  IN  [id |-> seq[n] + 1, version |-> version, host |-> host.id,
       members |-> {host.id, other.id}]

(* Variants: either of the two may make the room; the owner must also host. *)
AnyMemberMatches(n, offers, version) ==
  /\ Cardinality(offers) >= 2
  /\ n \in MatchOf(n, offers, version).members

HostMatches(n, offers, version) ==
  /\ Cardinality(offers) >= 2
  /\ n = MatchOf(n, offers, version).host
  /\ \A m \in MatchOf(n, offers, version).members : n <= m

MayMatch(n, offers, version) ==
  /\ Cardinality(offers) >= 2
  /\ n \in MatchOf(n, offers, version).members
  /\ \A m \in MatchOf(n, offers, version).members : n <= m

(* The node's player and offers become p and offers, and what follows from *)
(* the match they allow.                                                   *)
TryMatch(n, p, offers, version) ==
  LET cands == Candidates(n, p, offers, version)
      room  == MatchOf(n, cands, version)
  IN  \/ /\ MayMatch(n, cands, version)
         /\ seq' = [seq EXCEPT ![n] = @ + 1]
         /\ rooms' = [rooms EXCEPT ![n] = PutRoom(@, room)]
         /\ player' = [player EXCEPT ![n] = Seated(p, room.id)]
         /\ remote' = [remote EXCEPT ![n] = {o \in offers : o.id \notin room.members}]
         /\ \E R \in Receivers :
              roomQ' = Published(roomQ, n, [type |-> "room_assigned", room |-> room], R)
      \/ /\ ~ MayMatch(n, cands, version)
         /\ player' = [player EXCEPT ![n] = p]
         /\ remote' = [remote EXCEPT ![n] = offers]
         /\ UNCHANGED <<seq, rooms, roomQ>>

-----------------------------------------------------------------------------
(* The operations.                                                         *)

(* UpsertPlayer and RegisterPlayer for a player the node does not have.    *)
RegisterPlayer(n, v) ==
  /\ Count(n, "upsert")
  /\ player[n] = NoPlayer
  /\ player' = [player EXCEPT ![n] = [version |-> v, ping |-> 0, ready |-> FALSE,
                                      room |-> NoRoom, control |-> Human]]
  /\ UNCHANGED <<remote, rooms, states, seq, input, playerQ, roomQ>>

UpsertPlayer(n, v) ==
  /\ Count(n, "upsert")
  /\ player[n] # NoPlayer
  /\ player[n].room # NoRoom => v = player[n].version
  /\ player' = [player EXCEPT ![n].version = v]
  /\ UNCHANGED <<remote, rooms, states, seq, input, playerQ, roomQ>>

SetReady(n, ping) ==
  /\ Count(n, "ready")
  /\ player[n] # NoPlayer /\ player[n].room = NoRoom
  /\ LET p == [player[n] EXCEPT !.ready = TRUE, !.ping = ping]
     IN  /\ \E R \in Receivers : playerQ' = Published(playerQ, n, OfferOf(n, p), R)
         /\ TryMatch(n, p, remote[n], p.version)
  /\ UNCHANGED <<states, input>>

(* The room whose members the operations on a room check.                  *)
InRoom(n) ==
  /\ player[n] # NoPlayer
  /\ \E r \in rooms[n] : r.id = player[n].room /\ n \in r.members

ToggleControl(n, mode) ==
  /\ Count(n, "toggle")
  /\ InRoom(n)
  /\ player' = [player EXCEPT ![n].control = mode]
  /\ UNCHANGED <<remote, rooms, states, seq, input, playerQ, roomQ>>

(* SubmitInput of a state_sync, from its checks under the read lock over   *)
(* upsertRoomState, which takes the lock again, to the publication.        *)
SubmitInput(n, source) ==
  /\ Count(n, "sync")
  /\ input[n][source] = NoInput
  /\ InRoom(n) /\ player[n].control = source
  /\ input' = [input EXCEPT ![n][source] =
       [state |-> [room |-> player[n].room, player |-> n, snap |-> calls[n].sync + 1],
        stage |-> "checked", left |-> Nodes]]
  /\ UNCHANGED <<player, remote, rooms, states, seq, playerQ, roomQ>>

StoreInput(n, source) ==
  /\ input[n][source] # NoInput /\ input[n][source].stage = "checked"
  /\ states' = [states EXCEPT ![n] = Upserted(n, input[n][source].state)]
  /\ input' = [input EXCEPT ![n][source].stage = "stored"]
  /\ UNCHANGED <<player, remote, rooms, seq, playerQ, roomQ, calls>>

(* The publication holds no lock of the manager and sends to one           *)
(* subscriber after the other, in any order ("left" are still to be sent   *)
(* to), so that two of them may reach subscribers in different orders.     *)
PublishInput(n, source) ==
  /\ input[n][source] # NoInput /\ input[n][source].stage = "stored"
  /\ \E m \in input[n][source].left :
       /\ \E R \in IF Lossy THEN SUBSET {m} ELSE {{m}} :
            roomQ' = Published(roomQ, n,
                       [type |-> "room_input", state |-> input[n][source].state], R)
       /\ LET rest == [input[n][source] EXCEPT !.left = @ \ {m}]
          IN  input' = [input EXCEPT ![n][source] = IF rest.left = {} THEN NoInput ELSE rest]
  /\ UNCHANGED <<player, remote, rooms, states, seq, playerQ, calls>>

-----------------------------------------------------------------------------
(* The consumers.                                                          *)

(* Variant: also one in a room is refreshed.                               *)
AlwaysRefreshed(p, o) ==
  [p EXCEPT !.ready = TRUE, !.ping = o.ping, !.version = o.version]

(* The node's player after the event "o" about it; one in a room keeps     *)
(* what it has.                                                            *)
Refreshed(p, o) ==
  IF p.room = NoRoom THEN [p EXCEPT !.ready = TRUE, !.ping = o.ping, !.version = o.version]
                     ELSE p

(* Variant: the node's own events count as offers of others.               *)
OfferToSelf(n, f) ==
  /\ \E i \in Places(playerQ[n][f]) :
       /\ LET o == playerQ[n][f][i]
          IN  TryMatch(n, player[n], PutOffer(remote[n], o), o.version)
       /\ playerQ' = Consumed(playerQ, n, f, i)
  /\ UNCHANGED <<states, input, calls>>

ConsumePlayerEvent(n, f) ==
  /\ \E i \in Places(playerQ[n][f]) :
       /\ LET o   == playerQ[n][f][i]
              own == o.id = n /\ player[n] # NoPlayer
              p   == IF own THEN Refreshed(player[n], o) ELSE player[n]
              offers == IF own THEN remote[n] ELSE PutOffer(remote[n], o)
          IN  TryMatch(n, p, offers, o.version)
       /\ playerQ' = Consumed(playerQ, n, f, i)
  /\ UNCHANGED <<states, input, calls>>

ConsumeRoomAssigned(n, f) ==
  /\ \E i \in Places(roomQ[n][f]) :
       /\ roomQ[n][f][i].type = "room_assigned"
       /\ LET room == roomQ[n][f][i].room
          IN  /\ rooms' = [rooms EXCEPT ![n] = PutRoom(@, room)]
              /\ remote' = [remote EXCEPT ![n] = {o \in @ : o.id \notin room.members}]
              /\ player' = IF player[n] # NoPlayer /\ n \in room.members
                             THEN [player EXCEPT ![n] = Seated(@, room.id)]
                             ELSE player
       /\ roomQ' = Consumed(roomQ, n, f, i)
  /\ UNCHANGED <<states, seq, input, playerQ, calls>>

ConsumeRoomInput(n, f) ==
  /\ \E i \in Places(roomQ[n][f]) :
       /\ roomQ[n][f][i].type = "room_input"
       /\ states' = [states EXCEPT ![n] = Upserted(n, roomQ[n][f][i].state)]
       /\ roomQ' = Consumed(roomQ, n, f, i)
  /\ UNCHANGED <<player, remote, rooms, seq, input, playerQ, calls>>

-----------------------------------------------------------------------------
(* NewManager again: nothing is kept on disk, and the subscriptions start  *)
(* with what is published from now on.                                     *)
Restart(n) ==
  /\ calls[n].restart < Bounds[n].restart
  /\ player'  = [player EXCEPT ![n] = NoPlayer]
  /\ remote'  = [remote EXCEPT ![n] = {}]
  /\ rooms'   = [rooms EXCEPT ![n] = {}]
  /\ states'  = [states EXCEPT ![n] = {}]
  /\ seq'     = [seq EXCEPT ![n] = 0]
  /\ input'   = [input EXCEPT ![n] = Idle]
  /\ playerQ' = [playerQ EXCEPT ![n] = Quiet]
  /\ roomQ'   = [roomQ EXCEPT ![n] = Quiet]
  /\ calls'   = [calls EXCEPT ![n] = [NoCalls EXCEPT !.restart = calls[n].restart + 1]]

ClientStep(n) ==
  \/ \E v \in Versions : RegisterPlayer(n, v) \/ UpsertPlayer(n, v)
  \/ \E ping \in Pings[n] : SetReady(n, ping)
  \/ \E c \in Control : ToggleControl(n, c) \/ SubmitInput(n, c)

NodeStep(n) ==
  \/ \E c \in Control : StoreInput(n, c) \/ PublishInput(n, c)
  \/ \E f \in Nodes : \/ ConsumePlayerEvent(n, f)
                      \/ ConsumeRoomAssigned(n, f)
                      \/ ConsumeRoomInput(n, f)

Next == \E n \in Nodes : ClientStep(n) \/ NodeStep(n) \/ Restart(n)

Spec == Init /\ [][Next]_vars

(* A handler that was called runs to its end, and each consumer goroutine  *)
(* goes on with the next event.  Clients call when they like.              *)
Fairness ==
  \A n \in Nodes :
    /\ \A c \in Control : WF_vars(StoreInput(n, c) \/ PublishInput(n, c))
    /\ WF_vars(\E f \in Nodes : ConsumePlayerEvent(n, f))
    /\ WF_vars(\E f \in Nodes : ConsumeRoomAssigned(n, f) \/ ConsumeRoomInput(n, f))

FairSpec == Spec /\ Fairness

-----------------------------------------------------------------------------
(* Properties.                                                             *)

(* What the fields of the managers and the subscriptions may hold; above   *)
(* all, the offers of others never include the local player.               *)
TypeOK ==
  /\ player \in [Nodes -> Player \cup {NoPlayer}]
  /\ remote \in [Nodes -> SUBSET Offer]
  /\ rooms \in [Nodes -> SUBSET Room]
  /\ states \in [Nodes -> SUBSET Snapshot]
  /\ seq \in [Nodes -> Nat]
  /\ input \in [Nodes -> [Control -> Input \cup {NoInput}]]
  /\ playerQ \in [Nodes -> [Nodes -> Seq(Offer)]]
  /\ roomQ \in [Nodes -> [Nodes -> Seq(Assigned \cup RoomInput)]]
  /\ calls \in [Nodes -> [Operations -> Nat]]
  /\ \A n \in Nodes : \A op \in Operations : calls[n][op] <= Bounds[n][op]
  /\ \A n \in Nodes : \A o \in remote[n] : o.id # n

SeatOf(n) == IF player[n] = NoPlayer THEN NoRoom ELSE player[n].room

(* The rooms a node knows or has still to be told of.                      *)
InFlight(n) ==
  UNION {{roomQ[n][f][i].room : i \in {j \in DOMAIN roomQ[n][f] :
                                         roomQ[n][f][j].type = "room_assigned"}} :
         f \in Nodes}
Known(n) == rooms[n] \cup InFlight(n)

Owner(r) == CHOOSE m \in r.members : \A k \in r.members : m <= k

(* Every node holds the same room under the name an owner gave it: the     *)
(* events of one owner never contradict each other, whoever else is        *)
(* matching at the time.                                                   *)
OwnersAgree ==
  \A n, m \in Nodes : \A r \in Known(n), q \in Known(m) :
    r.id = q.id /\ Owner(r) = Owner(q) => r = q

(* The player who is told a room id finds that room on its own node, and   *)
(* is out of the running: tetrisapi resolves the room of a player and      *)
(* then asks for the room.                                                 *)
SeatedIsSettled ==
  \A n \in Nodes : SeatOf(n) # NoRoom =>
    /\ \E r \in rooms[n] : r.id = SeatOf(n)
    /\ ~ player[n].ready

(* Players whose nodes put them in a room of the same id play each other:  *)
(* both nodes hold the same room, and both players are in it, whatever     *)
(* events were lost.  A manager counts from room_1 again after a restart,  *)
(* so that this holds only between nodes that were not restarted; and      *)
(* every manager counts from room_1, so that it holds for two nodes only.  *)
SeatedTogether ==
  \A n, m \in {k \in Nodes : calls[k].restart = 0} :
    SeatOf(n) # NoRoom /\ SeatOf(n) = SeatOf(m) =>
      \E r \in rooms[n] \cap rooms[m] : r.id = SeatOf(n) /\ {n, m} \subseteq r.members

Waiting(n, v) ==
  player[n] # NoPlayer /\ player[n].ready /\ player[n].version = v

(* Two players who have both clicked Ready for the same version do not     *)
(* wait for ever.                                                          *)
PairsUp ==
  \A n, m \in Nodes : \A v \in Versions :
    n # m => (Waiting(n, v) /\ Waiting(m, v) ~> SeatOf(n) # NoRoom /\ SeatOf(m) # NoRoom)

(* A snapshot of n is on its way: some subscribers have it, some do not.   *)
Sending(n, c) == input[n][c] # NoInput /\ input[n][c].left # Nodes

(* When nothing more is submitted, the nodes of a room come to hold the    *)
(* same snapshot of every player, in whatever order the two clients of a   *)
(* node had theirs stored and published, as long as no two publications of *)
(* a node overlap: those may reach two subscribers in different orders.    *)
SnapshotsConverge ==
  [](\A n \in Nodes : ~ (Sending(n, Human) /\ Sending(n, Agent))) =>
    <>[](\A n, m \in Nodes :
           SeatOf(n) # NoRoom /\ SeatOf(n) = SeatOf(m) => states[n] = states[m])
=============================================================================
