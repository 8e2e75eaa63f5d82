------------------------------ MODULE LocalTetris ------------------------------
(***************************************************************************)
(* The server of the local game (internal/localtetrisapi/server.go): one   *)
(* seat, the snapshots of its game, and the event streams of the room.     *)
(*                                                                         *)
(* A store is guarded by one RWMutex.  A critical section under Lock is    *)
(* one action.  publish holds RLock over several steps and sends into the  *)
(* channels of the streams one by one, without waiting; a stream that ends *)
(* takes Lock to close its channel.  Requests that are refused change      *)
(* nothing and are left out, as are those that only read.                  *)
(*                                                                         *)
(* What an event says is abstracted away, and of a snapshot only who sent  *)
(* it (the field source) is kept.                                          *)
(***************************************************************************)
EXTENDS Naturals

CONSTANTS
  Players,  \* names under which a player may register
  Clients,  \* requests that may be served at the same time
  Streams,  \* streams that may be open at the same time
  Cap,      \* slots of a stream's channel
  None      \* nobody, and no snapshot

Modes == {"human", "agent"}
Seat  == [id : Players, ready : BOOLEAN, mode : Modes]

ASSUME LocalTetrisAssumption ==
  /\ Cap \in Nat \ {0}
  /\ None \notin Modes \cup Seat

VARIABLES
  player,   \* the seat: who has it (the host and only member of the room),
            \* whether the player is ready, and the control mode
  states,   \* states[p]: the source of the snapshot kept for p
  call,     \* call[c]: how far the request is, and the channels publish
            \* has not sent to yet
  stream,   \* stream[s]: where the handler of the stream is
  waiting,  \* waiting[s]: how many events wait in its channel
  modes     \* history: the control modes the seat has had since it was taken

vars == <<player, states, call, stream, waiting, modes>>

NoCall == [step |-> "idle", todo |-> {}]

(* The seat, the snapshots, the requests and the streams are well formed;  *)
(* no channel holds more than its slots.                                   *)
TypeOK ==
  /\ player \in Seat \cup {None}
  /\ states \in [Players -> Modes \cup {None}]
  /\ call \in [Clients -> [step : {"idle", "unlocked", "sending"}, todo : SUBSET Streams]]
  /\ stream \in [Streams -> {"off", "open", "leaving"}]
  /\ waiting \in [Streams -> 0..Cap]
  /\ modes \subseteq Modes

NoStates == [p \in Players |-> None]

Init ==
  /\ player = None /\ modes = {}
  /\ states = NoStates
  /\ call = [c \in Clients |-> NoCall]
  /\ stream = [s \in Streams |-> "off"]
  /\ waiting = [s \in Streams |-> 0]

-----------------------------------------------------------------------------
(* The lock.  Lock waits for every publish that holds RLock.               *)

LockFree == \A c \in Clients : call[c].step # "sending"

(* The channels in the map subs.                                           *)
Subs == {s \in Streams : stream[s] # "off"}

IsSeated(p) == player # None /\ player.id = p

-----------------------------------------------------------------------------
(* Requests.                                                               *)

(* Variant: the snapshots of the game before are kept.                     *)
RegisterOnly(p) ==
  /\ LockFree
  /\ player' = [id |-> p, ready |-> FALSE, mode |-> "human"]
  /\ modes' = {"human"}
  /\ UNCHANGED <<states, call, stream, waiting>>

Register(p) ==
  /\ LockFree
  /\ player' = [id |-> p, ready |-> FALSE, mode |-> "human"]
  /\ modes' = {"human"}
  /\ states' = NoStates
  /\ UNCHANGED <<call, stream, waiting>>

Ready(p) ==
  /\ LockFree /\ IsSeated(p)
  /\ player' = [player EXCEPT !.ready = TRUE]
  /\ UNCHANGED <<states, call, stream, waiting, modes>>

(* The request of c has changed the store and will publish what it did.    *)
Unlocked(c) ==
  /\ call[c].step = "idle"
  /\ call' = [call EXCEPT ![c].step = "unlocked"]

Control(c, p, mode) ==
  /\ LockFree /\ IsSeated(p)
  /\ player' = [player EXCEPT !.mode = mode]
  /\ modes' = modes \cup {mode}
  /\ Unlocked(c)
  /\ UNCHANGED <<states, stream, waiting>>

(* Of the actions of a player only state_sync is kept.                     *)
Input(c, p, source, sync) ==
  /\ LockFree /\ IsSeated(p)
  /\ player.mode = source
  /\ states' = IF sync THEN [states EXCEPT ![p] = source] ELSE states
  /\ Unlocked(c)
  /\ UNCHANGED <<player, stream, waiting, modes>>

-----------------------------------------------------------------------------
(* publish.                                                                *)

BeginPublish(c) ==
  /\ call[c].step = "unlocked"
  /\ call' = [call EXCEPT ![c] = [step |-> "sending", todo |-> Subs]]
  /\ UNCHANGED <<player, states, stream, waiting, modes>>

Sent(c, s) ==
  /\ call[c].step = "sending" /\ s \in call[c].todo
  /\ call' = [call EXCEPT ![c].todo = @ \ {s}]
  /\ UNCHANGED <<player, states, stream, modes>>

(* Variant: the channel is taken to be large enough.                       *)
SendAnyway(c, s) ==
  /\ Sent(c, s)
  /\ waiting' = [waiting EXCEPT ![s] = @ + 1]

(* Variant: the send waits for a free slot.                                *)
SendAndWait(c, s) ==
  /\ Sent(c, s)
  /\ waiting[s] < Cap
  /\ waiting' = [waiting EXCEPT ![s] = @ + 1]

(* An event that finds the channel full is dropped.                        *)
SendTo(c, s) ==
  /\ Sent(c, s)
  /\ waiting' = [waiting EXCEPT ![s] = IF @ < Cap THEN @ + 1 ELSE @]

(* RUnlock, and the answer to the client.                                  *)
EndPublish(c) ==
  /\ call[c].step = "sending" /\ call[c].todo = {}
  /\ call' = [call EXCEPT ![c] = NoCall]
  /\ UNCHANGED <<player, states, stream, waiting, modes>>

-----------------------------------------------------------------------------
(* handleRoomStream.                                                       *)

(* A fresh channel.                                                        *)
OpenStream(s) ==
  /\ LockFree /\ stream[s] = "off"
  /\ stream' = [stream EXCEPT ![s] = "open"]
  /\ waiting' = [waiting EXCEPT ![s] = 0]
  /\ UNCHANGED <<player, states, call, modes>>

WriteEvent(s) ==
  /\ stream[s] = "open" /\ waiting[s] > 0
  /\ waiting' = [waiting EXCEPT ![s] = @ - 1]
  /\ UNCHANGED <<player, states, call, stream, modes>>

(* The client is gone, or a write fails.                                   *)
Leave(s) ==
  /\ stream[s] = "open"
  /\ stream' = [stream EXCEPT ![s] = "leaving"]
  /\ UNCHANGED <<player, states, call, waiting, modes>>

(* Variant: the channel is closed without the lock.                        *)
CloseAtOnce(s) ==
  /\ stream[s] = "leaving"
  /\ stream' = [stream EXCEPT ![s] = "off"]
  /\ waiting' = [waiting EXCEPT ![s] = 0]
  /\ UNCHANGED <<player, states, call, modes>>

(* The deferred function.                                                  *)
CloseStream(s) ==
  /\ LockFree /\ stream[s] = "leaving"
  /\ stream' = [stream EXCEPT ![s] = "off"]
  /\ waiting' = [waiting EXCEPT ![s] = 0]
  /\ UNCHANGED <<player, states, call, modes>>

-----------------------------------------------------------------------------
PublishStep(c) ==
  \/ BeginPublish(c)
  \/ \E s \in Streams : SendTo(c, s)
  \/ EndPublish(c)

Next ==
  \/ \E p \in Players : Register(p) \/ Ready(p)
  \/ \E c \in Clients, p \in Players, m \in Modes :
       Control(c, p, m) \/ \E sync \in BOOLEAN : Input(c, p, m, sync)
  \/ \E c \in Clients : PublishStep(c)
  \/ \E s \in Streams :
       OpenStream(s) \/ WriteEvent(s) \/ Leave(s) \/ CloseStream(s)

Spec == Init /\ [][Next]_vars

(* A goroutine that can run does.  A pending Lock holds back later RLocks, *)
(* so that a stream that ends is not overtaken for ever.  Nobody has to    *)
(* read a stream.                                                          *)
Fairness ==
  /\ \A c \in Clients : WF_vars(PublishStep(c))
  /\ \A s \in Streams : SF_vars(CloseStream(s))

FairSpec == Spec /\ Fairness

-----------------------------------------------------------------------------
(* Properties.                                                             *)

(* Who registers takes over the seat but nothing of the game played there  *)
(* before: a snapshot is of the player who has the seat now, and comes     *)
(* from a side that has had the control since the seat was taken, also     *)
(* when a player registers again or the control was switched back          *)
(* (handleRegister, handleControl, handleInput).                           *)
SeatOwnsStates ==
  \A p \in Players : states[p] # None => IsSeated(p) /\ states[p] \in modes

(* No event is sent into a channel that has been closed, which would end   *)
(* the process: the channels a publish still has to send to are in the map *)
(* (publish, the deferred function of handleRoomStream).                   *)
SendersSafe == \A c \in Clients : call[c].todo \subseteq Subs

(* A request that publishes is answered, and a stream whose client is gone *)
(* is closed, although nobody may be reading the streams: a publish that   *)
(* holds RLock and a stream that wants Lock never wait for each other      *)
(* (publish, handleRoomStream).                                            *)
HandlersReturn ==
  /\ \A c \in Clients : (call[c].step # "idle") ~> (call[c].step = "idle")
  /\ \A s \in Streams : (stream[s] = "leaving") ~> (stream[s] = "off")
=============================================================================
