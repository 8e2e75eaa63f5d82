----------------------------- MODULE TetrisGame -----------------------------
(***************************************************************************)
(* The game in the tetris page (apps/tetris-web/web/tetris.html): the      *)
(* board and its pieces, and the callbacks that work on them: keys, the    *)
(* animation frame, the timer that restarts a lost game in agent mode, and *)
(* what the room session does to the game when its answers arrive.         *)
(*                                                                         *)
(* A callback runs to its end before the next.  The board is the set of    *)
(* its filled cells <<x, y>>, rows counted from the top; a matrix is the   *)
(* set of its filled cells.  Colours, score and speed are left out: of the *)
(* speed only that a frame moves the piece down or does not.               *)
(*                                                                         *)
(* The handler of the room stream is left out, because the server names    *)
(* its events "room" (internal/tetrisapi/server.go) and the browser hands  *)
(* named events to no onmessage handler.                                   *)
(***************************************************************************)
EXTENDS Integers, FiniteSets, Sequences

CONSTANTS
  ROWS, COLS,  \* size of the board
  SHAPES,      \* the pieces: records of a size and the filled cells
  MaxFrames,   \* bound: animation frames requested and not yet run
  MaxTimers    \* bound: restart timers running at a time

ASSUME GameAssumption ==
  /\ ROWS \in Nat \ {0} /\ COLS \in Nat \ {0}
  /\ MaxFrames \in Nat /\ MaxTimers \in Nat
  /\ \A s \in SHAPES : s.size \in 1..COLS /\ s.size <= ROWS + 1 /\ s.cells # {}
                       /\ s.cells \subseteq (0..s.size - 1) \X (0..s.size - 1)

VARIABLES
  board,        \* the filled cells
  current,      \* the piece in play
  next,         \* the shape that comes after it
  running, paused, gameOver, gameStarted,
  controlMode,  \* "human" or "agent"
  frames,       \* how many calls of tick the browser still owes
  timers        \* how many restart timers are running

vars == <<board, current, next, running, paused, gameOver, gameStarted,
          controlMode, frames, timers>>
flags == <<running, paused, gameOver, gameStarted, controlMode, frames, timers>>

-----------------------------------------------------------------------------
(* Board and pieces.                                                       *)
Cells == (0..COLS - 1) \X (0..ROWS - 1)

Control == {"human", "agent"}

RandomPiece(s) == [size |-> s.size, cells |-> s.cells,
                   x |-> (COLS - s.size) \div 2, y |-> -1]

Occupied(p) == {<<p.x + c[1], p.y + c[2]>> : c \in p.cells}

Collide(p, b) ==
  \E c \in Occupied(p) : \/ c[1] < 0 \/ c[1] >= COLS \/ c[2] >= ROWS
                         \/ c \in b

Merged(p, b) == b \cup {c \in Occupied(p) : c[2] >= 0}

Full(b, y) == \A x \in 0..COLS - 1 : <<x, y>> \in b

(* Row y is taken out, an empty row put on top.                            *)
Spliced(b, y) ==
  {c \in b : c[2] > y} \cup {<<c[1], c[2] + 1>> : c \in {d \in b : d[2] < y}}

(* The loop of clearLines, from the row and the board it is at.            *)
LoopState == (-1..ROWS) \X SUBSET Cells

(* Variant: the row that has come down to y is not looked at again.        *)
SkipRow[s \in LoopState] ==
  LET y == s[1]  b == s[2]
  IN  IF y < 0 THEN b
      ELSE IF Full(b, y) THEN SkipRow[<<y - 1, Spliced(b, y)>>]
      ELSE SkipRow[<<y - 1, b>>]

SkippingClear(b) == SkipRow[<<ROWS - 1, b>>]

ClearFrom[s \in LoopState] ==
  LET y == s[1]  b == s[2]
  IN  IF y < 0 THEN b
      ELSE IF Full(b, y) THEN ClearFrom[<<y, Spliced(b, y)>>]
      ELSE ClearFrom[<<y - 1, b>>]

ClearLines(b) == ClearFrom[<<ROWS - 1, b>>]

(* Variant: the turned cells are written over those that were there.       *)
RotateOver(p) == p.cells \cup {<<p.size - 1 - c[2], c[1]>> : c \in p.cells}

RotateMatrix(p) == {<<p.size - 1 - c[2], c[1]>> : c \in p.cells}

Kicks == <<0, -1, 1, -2, 2>>

(* Variant: a piece that fits nowhere is left turned.                      *)
TurnAnyway(p, b) == [p EXCEPT !.cells = RotateMatrix(p)]

(* The turned piece at the first kick where it fits, or the piece as it is. *)
Rotated(p, b) ==
  LET Kicked(i) == [p EXCEPT !.cells = RotateMatrix(p), !.x = @ + Kicks[i]]
      fits      == {i \in 1..Len(Kicks) : ~ Collide(Kicked(i), b)}
  IN  IF fits = {} THEN p ELSE Kicked(CHOOSE i \in fits : \A j \in fits : i <= j)

Moved(p, dx, dy) == [p EXCEPT !.x = @ + dx, !.y = @ + dy]

(* The piece where a hard drop lets it lie.                                *)
Fallen(p, b) ==
  LET blocked == {k \in 0..ROWS + 2 : Collide(Moved(p, 0, k), b)}
  IN  Moved(p, 0, (CHOOSE k \in blocked : \A j \in blocked : k <= j) - 1)

-----------------------------------------------------------------------------
(* What the callbacks are made of.                                         *)

(* mergePiece, clearLines and spawnPiece for a piece p that lies: "over"   *)
(* says that the next piece has no room.  In agent mode a timer is set.    *)
Lock(p) ==
  LET b    == ClearLines(Merged(p, board))
      over == Collide(RandomPiece(next), b)
  IN  /\ board' = b
      /\ current' = RandomPiece(next)
      /\ next' \in SHAPES
      /\ running' = ~ over
      /\ gameOver' = over
      /\ timers' = IF over /\ controlMode = "agent" THEN timers + 1 ELSE timers
      /\ timers' <= MaxTimers

Playing == running /\ ~ paused /\ ~ gameOver

SoftDrop ==
  \/ /\ ~ Collide(Moved(current, 0, 1), board)
     /\ current' = Moved(current, 0, 1)
     /\ UNCHANGED <<board, next, running, gameOver, timers>>
  \/ /\ Collide(Moved(current, 0, 1), board)
     /\ Lock(current)

RequestFrame ==
  /\ frames < MaxFrames
  /\ frames' = frames + 1

(* restartGame, then startGame, which does nothing for a game that was     *)
(* started before and not registered anew.  Every caller of startGame has  *)
(* called restartGame first.                                               *)
RestartAndStart(started) ==
  /\ board' = {}
  /\ \E s \in SHAPES : current' = RandomPiece(s)
  /\ next' \in SHAPES
  /\ paused' = FALSE /\ gameOver' = FALSE
  /\ gameStarted' = TRUE
  /\ running' = ~ started
  /\ IF started THEN UNCHANGED frames ELSE RequestFrame

-----------------------------------------------------------------------------
(* The callbacks.                                                          *)

(* The page is loaded: bootstrap has called restartGame.                   *)
Init ==
  /\ board = {}
  /\ \E s \in SHAPES : current = RandomPiece(s)
  /\ next \in SHAPES
  /\ running = FALSE /\ paused = FALSE /\ gameOver = FALSE /\ gameStarted = FALSE
  /\ controlMode = "human"
  /\ frames = 0 /\ timers = 0

(* Keys and buttons, in human mode only.                                   *)
Human == controlMode = "human"

MoveKey(dx) ==
  /\ Human /\ Playing
  /\ ~ Collide(Moved(current, dx, 0), board)
  /\ current' = Moved(current, dx, 0)
  /\ UNCHANGED <<board, next, flags>>

DownKey ==
  /\ Human /\ Playing
  /\ SoftDrop
  /\ UNCHANGED <<paused, gameStarted, controlMode, frames>>

RotateKey ==
  /\ Human /\ Playing
  /\ current' = Rotated(current, board)
  /\ UNCHANGED <<board, next, flags>>

DropKey ==
  /\ Human /\ Playing
  /\ Lock(Fallen(current, board))
  /\ UNCHANGED <<paused, gameStarted, controlMode, frames>>

(* Variant: the frame is left to the loop that was paused.                 *)
PauseOnly ==
  /\ Human /\ running /\ ~ gameOver
  /\ paused' = ~ paused
  /\ UNCHANGED <<board, current, next, running, gameOver, gameStarted,
                 controlMode, frames, timers>>

PauseKey ==
  /\ Human /\ running /\ ~ gameOver
  /\ paused' = ~ paused
  /\ IF paused THEN RequestFrame ELSE UNCHANGED frames
  /\ UNCHANGED <<board, current, next, running, gameOver, gameStarted,
                 controlMode, timers>>

RestartKey ==
  /\ Human
  /\ RestartAndStart(FALSE)
  /\ UNCHANGED <<controlMode, timers>>

(* tick: it asks for the next frame also when the piece it moved down was  *)
(* the last.                                                               *)
Tick ==
  /\ frames > 0
  /\ \/ /\ ~ Playing
        /\ frames' = frames - 1
        /\ UNCHANGED <<board, current, next, running, gameOver, timers>>
     \/ /\ Playing
        /\ SoftDrop \/ UNCHANGED <<board, current, next, running, gameOver, timers>>
        /\ UNCHANGED frames
  /\ UNCHANGED <<paused, gameStarted, controlMode>>

(* Variant: the game still counts as started.                              *)
TimerStartsNothing ==
  /\ timers > 0
  /\ timers' = timers - 1
  /\ RestartAndStart(gameStarted)
  /\ UNCHANGED controlMode

(* The timer that spawnPiece has set.                                      *)
RestartTimer ==
  /\ timers > 0
  /\ timers' = timers - 1
  /\ RestartAndStart(FALSE)
  /\ UNCHANGED controlMode

-----------------------------------------------------------------------------
(* What the session does to the game when an answer of the server arrives. *)

(* registerPlayer, before it asks the server.                              *)
RegisterPlayer ==
  /\ gameStarted' = FALSE
  /\ controlMode' = "human"
  /\ UNCHANGED <<board, current, next, running, paused, gameOver, frames, timers>>

(* A room from ready, from a poll or from restoreExistingRoom.             *)
EnterRoom ==
  /\ RestartAndStart(gameStarted)
  /\ UNCHANGED <<controlMode, timers>>

(* toggleAgent, and restoreExistingRoom before it asks for the room: the   *)
(* mode is what the server says.                                           *)
SwitchControl(mode) ==
  /\ controlMode' = mode
  /\ UNCHANGED <<board, current, next, running, paused, gameOver, gameStarted,
                 frames, timers>>

Next ==
  \/ \E dx \in {-1, 1} : MoveKey(dx)
  \/ DownKey
  \/ RotateKey
  \/ DropKey
  \/ PauseKey
  \/ RestartKey
  \/ Tick
  \/ RestartTimer
  \/ RegisterPlayer
  \/ EnterRoom
  \/ \E mode \in Control : SwitchControl(mode)

Spec == Init /\ [][Next]_vars

(* The browser runs what it was asked to run; nobody has to press a key.   *)
FairSpec == Spec /\ WF_vars(Tick) /\ WF_vars(RestartTimer)

-----------------------------------------------------------------------------
(* Properties.                                                             *)

(* The filled cells lie on the board, and the piece is one of the shapes,  *)
(* turned any number of times.                                             *)
TypeOK ==
  /\ board \subseteq Cells
  /\ current.size \in 1..COLS /\ current.x \in Int /\ current.y \in Int
  /\ \E s \in SHAPES : current.size = s.size /\ Cardinality(current.cells) = Cardinality(s.cells)
  /\ next \in SHAPES
  /\ {running, paused, gameOver, gameStarted} \subseteq BOOLEAN
  /\ controlMode \in Control
  /\ frames \in 0..MaxFrames /\ timers \in 0..MaxTimers

(* Until the game is over the piece in play lies within the walls and over *)
(* no filled cell, whatever turns, kicks, drops and restarts came before.  *)
InPlay == ~ gameOver => ~ Collide(current, board)

(* A game that is not paused or over goes on by itself: a call of tick is  *)
(* due.  Pausing, resuming and restarting between two frames never loses   *)
(* the loop.                                                               *)
FrameDue == Playing => frames > 0

(* What a board is after its full rows are gone: every other cell falls by *)
(* the number of full rows below it.                                       *)
Collapsed(b) ==
  {<<c[1], c[2] + Cardinality({y \in 0..ROWS - 1 : y > c[2] /\ Full(b, y)})>> :
     c \in {d \in b : ~ Full(b, d[2])}}

Lies(p) == ~ Collide(p, board) /\ Collide(Moved(p, 0, 1), board)

(* The board only changes by a restart or by a piece that lies on the      *)
(* floor or on filled cells, whose full rows then collapse: the loop of    *)
(* splices in clearLines takes out every full row and no other.            *)
RowsCollapse ==
  [][board' \notin {board, {}} =>
       \E p \in {current, Fallen(current, board)} :
         Lies(p) /\ board' = Collapsed(Merged(p, board))]_vars

(* In agent mode the session is kept alive: a game that was lost in it     *)
(* runs again, whatever the user and the server do before the timer fires. *)
KeptAlive == timers > 0 ~> running
=============================================================================
