-------------------------- MODULE LocalTetrisProofs --------------------------
(***************************************************************************)
(* Proofs about LocalTetris, for any number of players, of requests at the *)
(* same time, of streams and of slots: the store is well formed, nothing   *)
(* of an earlier game stays behind, and no closed channel is sent to.      *)
(***************************************************************************)
EXTENDS LocalTetris, TLAPS

LEMMA LocalInitType == Init => TypeOK
BY LocalTetrisAssumption DEF Init, TypeOK, NoStates, NoCall

(* What is proved of every step is proved of each action; the invariant    *)
(* LInv below needs the same cases.                                        *)
LEMMA LocalNextType == ASSUME TypeOK, [Next]_vars PROVE TypeOK'
<1> USE LocalTetrisAssumption
<1>1. ASSUME NEW p \in Players, Register(p) PROVE TypeOK'
  BY <1>1 DEF Register, TypeOK, Seat, Modes, NoStates
<1>2. ASSUME NEW p \in Players, Ready(p) PROVE TypeOK'
  BY <1>2 DEF Ready, IsSeated, TypeOK, Seat
<1>3. ASSUME NEW c \in Clients, NEW p \in Players, NEW m \in Modes, Control(c, p, m)
      PROVE  TypeOK'
  BY <1>3 DEF Control, Unlocked, IsSeated, TypeOK, Seat
<1>4. ASSUME NEW c \in Clients, NEW p \in Players, NEW m \in Modes, NEW y \in BOOLEAN,
             Input(c, p, m, y)
      PROVE  TypeOK'
  BY <1>4 DEF Input, Unlocked, TypeOK
<1>5. ASSUME NEW c \in Clients, PublishStep(c) PROVE TypeOK'
  <2>1. CASE BeginPublish(c)
    BY <2>1 DEF BeginPublish, Subs, TypeOK
  <2>2. ASSUME NEW s \in Streams, SendTo(c, s) PROVE TypeOK'
    <3>1. waiting' \in [Streams -> 0..Cap]
      BY <2>2 DEF SendTo, TypeOK
    <3> QED BY <2>2, <3>1 DEF SendTo, Sent, TypeOK
  <2>3. CASE EndPublish(c)
    BY <2>3 DEF EndPublish, NoCall, TypeOK
  <2> QED BY <1>5, <2>1, <2>2, <2>3 DEF PublishStep
<1>6. ASSUME NEW s \in Streams, OpenStream(s) PROVE TypeOK'
  BY <1>6 DEF OpenStream, TypeOK
<1>7. ASSUME NEW s \in Streams, WriteEvent(s) PROVE TypeOK'
  BY <1>7 DEF WriteEvent, TypeOK
<1>8. ASSUME NEW s \in Streams, Leave(s) PROVE TypeOK'
  BY <1>8 DEF Leave, TypeOK
<1>9. ASSUME NEW s \in Streams, CloseStream(s) PROVE TypeOK'
  BY <1>9 DEF CloseStream, TypeOK
<1>10. CASE UNCHANGED vars
  BY <1>10 DEF vars, TypeOK
<1> QED BY <1>1, <1>2, <1>3, <1>4, <1>5, <1>6, <1>7, <1>8, <1>9, <1>10 DEF Next

(* The seat, the snapshots and the streams stay well formed, and no        *)
(* channel ever holds more than its slots (publish).                       *)
THEOREM LocalTypeCorrect == Spec => []TypeOK
<1>1. TypeOK /\ [Next]_vars => TypeOK'
  BY LocalNextType
<1> QED BY LocalInitType, <1>1, PTL DEF Spec

-----------------------------------------------------------------------------
(* The control mode of the seat is one it has had; only a request that     *)
(* holds the lock has channels to send to.                                 *)
LInv ==
  /\ SeatOwnsStates
  /\ SendersSafe
  /\ player # None => player.mode \in modes
  /\ \A c \in Clients : call[c].todo # {} => call[c].step = "sending"

LEMMA LocalInitInv == Init => LInv
BY DEF Init, LInv, SeatOwnsStates, SendersSafe, NoStates, NoCall

LEMMA LocalNextInv == ASSUME TypeOK, LInv, [Next]_vars PROVE LInv'
<1> USE LocalTetrisAssumption
<1>1. ASSUME NEW p \in Players, Register(p) PROVE LInv'
  <2>1. SeatOwnsStates'
    BY <1>1 DEF Register, SeatOwnsStates, NoStates
  <2>2. SendersSafe'
    BY <1>1 DEF Register, LInv, SendersSafe, Subs
  <2>3. player'.mode \in modes'
    BY <1>1 DEF Register
  <2> QED BY <1>1, <2>1, <2>2, <2>3 DEF Register, LInv
<1>2. ASSUME NEW p \in Players, Ready(p) PROVE LInv'
  <2>1. player # None /\ player \in Seat
    BY <1>2 DEF Ready, IsSeated, TypeOK
  <2>2. player'.id = player.id /\ player'.mode = player.mode /\ player' \in Seat
    BY <1>2, <2>1 DEF Ready, Seat
  <2>3. SeatOwnsStates'
    BY <1>2, <2>1, <2>2 DEF Ready, LInv, SeatOwnsStates, IsSeated
  <2> QED BY <1>2, <2>1, <2>2, <2>3 DEF Ready, LInv, SendersSafe, Subs
<1>3. ASSUME NEW c \in Clients, NEW p \in Players, NEW m \in Modes, Control(c, p, m)
      PROVE  LInv'
  <2>1. player # None /\ player \in Seat
    BY <1>3 DEF Control, IsSeated, TypeOK
  <2>2. player'.id = player.id /\ player'.mode = m /\ player' \in Seat
    BY <1>3, <2>1 DEF Control, Seat
  <2>3. SeatOwnsStates' /\ player'.mode \in modes'
    BY <1>3, <2>1, <2>2 DEF Control, LInv, SeatOwnsStates, IsSeated
  <2>4. SendersSafe' /\ (\A d \in Clients : call[d].todo # {} => call[d].step = "sending")'
    BY <1>3 DEF Control, Unlocked, TypeOK, LInv, SendersSafe, Subs
  <2> QED BY <2>3, <2>4 DEF LInv
<1>4. ASSUME NEW c \in Clients, NEW p \in Players, NEW m \in Modes, NEW y \in BOOLEAN,
             Input(c, p, m, y)
      PROVE  LInv'
  <2>1. SeatOwnsStates' /\ (player # None => player.mode \in modes)'
    BY <1>4 DEF Input, TypeOK, LInv, SeatOwnsStates, IsSeated, Seat
  <2>2. SendersSafe' /\ (\A d \in Clients : call[d].todo # {} => call[d].step = "sending")'
    BY <1>4 DEF Input, Unlocked, TypeOK, LInv, SendersSafe, Subs
  <2> QED BY <2>1, <2>2 DEF LInv
<1>5. ASSUME NEW c \in Clients, PublishStep(c) PROVE LInv'
  <2>1. CASE BeginPublish(c)
    BY <2>1 DEF BeginPublish, TypeOK, LInv, SeatOwnsStates, SendersSafe, IsSeated, Subs
  <2>2. ASSUME NEW s \in Streams, SendTo(c, s) PROVE LInv'
    BY <2>2 DEF SendTo, Sent, TypeOK, LInv, SeatOwnsStates, SendersSafe, IsSeated, Subs
  <2>3. CASE EndPublish(c)
    BY <2>3 DEF EndPublish, NoCall, TypeOK, LInv, SeatOwnsStates, SendersSafe, IsSeated, Subs
  <2> QED BY <1>5, <2>1, <2>2, <2>3 DEF PublishStep
<1>6. ASSUME NEW s \in Streams, OpenStream(s) PROVE LInv'
  BY <1>6 DEF OpenStream, TypeOK, LInv, SeatOwnsStates, SendersSafe, IsSeated, Subs
<1>7. ASSUME NEW s \in Streams, WriteEvent(s) PROVE LInv'
  BY <1>7 DEF WriteEvent, LInv, SeatOwnsStates, SendersSafe, IsSeated, Subs
<1>8. ASSUME NEW s \in Streams, Leave(s) PROVE LInv'
  BY <1>8 DEF Leave, TypeOK, LInv, SeatOwnsStates, SendersSafe, IsSeated, Subs
<1>9. ASSUME NEW s \in Streams, CloseStream(s) PROVE LInv'
  <2>1. \A c \in Clients : call'[c].todo = {}
    BY <1>9 DEF CloseStream, LockFree, LInv
  <2> QED BY <1>9, <2>1 DEF CloseStream, LInv, SeatOwnsStates, SendersSafe, IsSeated
<1>10. CASE UNCHANGED vars
  BY <1>10 DEF vars, LInv, SeatOwnsStates, SendersSafe, IsSeated, Subs
<1> QED BY <1>1, <1>2, <1>3, <1>4, <1>5, <1>6, <1>7, <1>8, <1>9, <1>10 DEF Next

LEMMA LocalInvariant == Spec => []LInv
<1>1. TypeOK /\ LInv /\ [Next]_vars => LInv'
  BY LocalNextInv
<1> QED BY LocalTypeCorrect, LocalInitInv, <1>1, PTL DEF Spec

(* Nothing of the game before is left when a player takes the seat, and a  *)
(* snapshot is from a side that had the control (handleRegister,           *)
(* handleInput).                                                           *)
THEOREM SeatOwns == Spec => []SeatOwnsStates
BY LocalInvariant, PTL DEF LInv

(* No publish ever sends into a channel that is closed (publish,           *)
(* handleRoomStream).                                                      *)
THEOREM NoSendOnClosed == Spec => []SendersSafe
BY LocalInvariant, PTL DEF LInv
=============================================================================
