----------------------------- MODULE GameProofs -----------------------------
(* Proofs about TetrisGame.tla, for every size of the board and every set  *)
(* of shapes that fit: the piece in play never overlaps, a game in play    *)
(* always has a frame due, the loop of clearLines takes out every full row *)
(* and no other, and the board only changes by a piece that lies.  For the *)
(* first two it does not matter what clearLines computes: whatever board   *)
(* it leaves, spawnPiece looks whether the next piece fits.                *)
EXTENDS TetrisGame, FiniteSetTheorems, WellFoundedInduction, TLAPS

(* The counters, the walls the next piece must respect, and the two        *)
(* properties.                                                             *)
GInv ==
  /\ frames \in Nat /\ timers \in Nat
  /\ {running, paused, gameOver, gameStarted} \subseteq BOOLEAN
  /\ InPlay
  /\ FrameDue

(* On an empty board every shape has room at the top, where RandomPiece    *)
(* puts it: between the walls and above the floor.                         *)
LEMMA RoomAtTheTop ==
  ASSUME NEW s \in SHAPES
  PROVE  ~ Collide(RandomPiece(s), {})
<1>1. s.size \in 1..COLS /\ s.size <= ROWS + 1 /\ COLS \in Nat /\ ROWS \in Nat
      /\ s.cells \subseteq (0..s.size - 1) \X (0..s.size - 1)
  BY GameAssumption
<1> DEFINE left == (COLS - s.size) \div 2
<1>2. left \in Nat /\ left + s.size <= COLS
  BY <1>1, SMT
<1>3. ASSUME NEW c \in Occupied(RandomPiece(s))
      PROVE  c[1] >= 0 /\ c[1] < COLS /\ c[2] < ROWS
  <2>1. PICK d \in s.cells : c = <<left + d[1], -1 + d[2]>>
    BY DEF Occupied, RandomPiece
  <2>2. d[1] \in 0..s.size - 1 /\ d[2] \in 0..s.size - 1
    BY <1>1
  <2>. QED
    BY <1>1, <1>2, <2>1, <2>2
<1>4. \A c \in Occupied(RandomPiece(s)) : ~ (c[1] < 0 \/ c[1] >= COLS \/ c[2] >= ROWS)
  <2>1. ASSUME NEW c \in Occupied(RandomPiece(s))
        PROVE  c[1] \in Int /\ c[2] \in Int
    <3>1. PICK d \in s.cells : c = <<left + d[1], -1 + d[2]>>
      BY DEF Occupied, RandomPiece
    <3>2. d[1] \in 0..s.size - 1 /\ d[2] \in 0..s.size - 1
      BY <1>1
    <3>. QED
      BY <1>2, <3>1, <3>2
  <2>. QED
    BY <1>1, <1>3, <2>1
<1>. QED
  BY <1>4 DEF Collide

(* A turn that is made, at whatever kick, leaves the piece where it fits.  *)
LEMMA RotationFits ==
  ASSUME NEW p, NEW b, ~ Collide(p, b)
  PROVE  ~ Collide(Rotated(p, b), b)
<1> DEFINE Kicked(i) == [p EXCEPT !.cells = RotateMatrix(p), !.x = @ + Kicks[i]]
           fits      == {i \in 1..Len(Kicks) : ~ Collide(Kicked(i), b)}
           first     == CHOOSE i \in fits : \A j \in fits : i <= j
<1>1. CASE fits = {}
  BY <1>1 DEF Rotated
<1>2. CASE fits # {}
  <2>1. fits \subseteq 1..5
    BY DEF Kicks
  <2>2. \E i \in fits : \A j \in fits : i <= j
    <3> HIDE DEF fits
    <3>1. \A j \in fits : j = 1 \/ j = 2 \/ j = 3 \/ j = 4 \/ j = 5
      BY <2>1
    <3>2. CASE 1 \in fits
      BY <3>1, <3>2
    <3>3. CASE 1 \notin fits /\ 2 \in fits
      BY <3>1, <3>3
    <3>4. CASE 1 \notin fits /\ 2 \notin fits /\ 3 \in fits
      BY <3>1, <3>4
    <3>5. CASE 1 \notin fits /\ 2 \notin fits /\ 3 \notin fits /\ 4 \in fits
      BY <3>1, <3>5
    <3>6. CASE 1 \notin fits /\ 2 \notin fits /\ 3 \notin fits /\ 4 \notin fits
      BY <1>2, <3>1, <3>6
    <3>. QED
      BY <3>2, <3>3, <3>4, <3>5, <3>6
  <2>3. first \in fits
    <3> HIDE DEF fits
    <3>. QED  BY <2>2
  <2>4. ~ Collide(Kicked(first), b)
    BY <2>3
  <2>5. Rotated(p, b) = Kicked(first)
    BY <1>2 DEF Rotated
  <2>. QED
    BY <2>4, <2>5
<1>. QED
  BY <1>1, <1>2

(* After a lock the game is over or the new piece fits, and a frame that   *)
(* was due still is.                                                       *)
LEMMA LockKeeps ==
  ASSUME GInv, NEW p, Lock(p), paused' = paused, gameStarted' = gameStarted,
         frames' = frames, Playing
  PROVE  GInv'
<1>1. timers' \in Nat
  BY DEF Lock, GInv
<1>2. running' \in BOOLEAN /\ gameOver' \in BOOLEAN
  <2> DEFINE over == Collide(RandomPiece(next), ClearLines(Merged(p, board)))
  <2>1. over \in BOOLEAN
    BY Zenon DEF Collide
  <2>2. running' = ~ over /\ gameOver' = over
    BY Zenon DEF Lock
  <2> HIDE DEF over
  <2>. QED
    BY <2>1, <2>2
<1>3. InPlay'
  BY DEF Lock, InPlay
<1>4. FrameDue'
  BY DEF GInv, FrameDue, Playing
<1>. QED
  BY <1>1, <1>2, <1>3, <1>4 DEF GInv

LEMMA DropKeeps ==
  ASSUME GInv, SoftDrop, paused' = paused, gameStarted' = gameStarted,
         frames' = frames, Playing
  PROVE  GInv'
<1>1. CASE /\ ~ Collide(Moved(current, 0, 1), board)
           /\ current' = Moved(current, 0, 1)
           /\ UNCHANGED <<board, next, running, gameOver, timers>>
  BY <1>1 DEF GInv, InPlay, FrameDue, Playing
<1>2. CASE Lock(current)
  BY <1>2, LockKeeps
<1>. QED
  BY <1>1, <1>2 DEF SoftDrop

LEMMA RestartKeeps ==
  ASSUME GInv, NEW started \in BOOLEAN, RestartAndStart(started), timers' \in Nat
  PROVE  GInv'
<1>1. InPlay'
  BY RoomAtTheTop DEF RestartAndStart, InPlay
<1>2. CASE started
  BY <1>1, <1>2 DEF RestartAndStart, GInv, FrameDue, Playing
<1>3. CASE ~ started
  <2>1. frames' \in Nat /\ frames' > 0
    BY <1>3 DEF RestartAndStart, RequestFrame, GInv
  <2>. QED
    BY <1>1, <1>3, <2>1 DEF RestartAndStart, GInv, FrameDue
<1>. QED
  BY <1>2, <1>3

(* Every callback keeps the invariant.                                     *)
THEOREM Inductive == Spec => []GInv
<1>1. Init => GInv
  <2> SUFFICES ASSUME Init PROVE GInv
    OBVIOUS
  <2>1. InPlay
    BY RoomAtTheTop DEF Init, InPlay
  <2>. QED
    BY <2>1 DEF Init, GInv, FrameDue, Playing
<1>2. GInv /\ [Next]_vars => GInv'
  <2> SUFFICES ASSUME GInv, [Next]_vars PROVE GInv'
    OBVIOUS
  <2>1. ASSUME NEW dx \in {-1, 1}, MoveKey(dx)
        PROVE  GInv'
    BY <2>1 DEF MoveKey, flags, GInv, InPlay, FrameDue, Playing
  <2>2. CASE DownKey
    BY <2>2, DropKeeps DEF DownKey
  <2>3. CASE RotateKey
    <3>1. ~ Collide(current', board')
      BY <2>3, RotationFits DEF RotateKey, Playing, GInv, InPlay
    <3>. QED
      BY <2>3, <3>1 DEF RotateKey, flags, GInv, InPlay, FrameDue, Playing
  <2>4. CASE DropKey
    BY <2>4, LockKeeps DEF DropKey
  <2>5. CASE PauseKey
    BY <2>5 DEF PauseKey, RequestFrame, GInv, InPlay, FrameDue, Playing
  <2>6. CASE RestartKey
    BY <2>6, RestartKeeps DEF RestartKey, GInv
  <2>7. CASE Tick
    <3>1. CASE ~ Playing
      BY <2>7, <3>1 DEF Tick, GInv, InPlay, FrameDue, Playing
    <3>2. CASE Playing /\ SoftDrop
      BY <2>7, <3>2, DropKeeps DEF Tick
    <3>3. CASE Playing /\ UNCHANGED <<board, current, next, running, gameOver, timers>>
      BY <2>7, <3>3 DEF Tick, GInv, InPlay, FrameDue, Playing
    <3>. QED
      BY <2>7, <3>1, <3>2, <3>3 DEF Tick
  <2>8. CASE RestartTimer
    <3>1. timers' \in Nat
      BY <2>8 DEF RestartTimer, GInv
    <3>. QED
      BY <2>8, <3>1, RestartKeeps DEF RestartTimer
  <2>9. CASE RegisterPlayer
    BY <2>9 DEF RegisterPlayer, GInv, InPlay, FrameDue, Playing
  <2>10. CASE EnterRoom
    BY <2>10, RestartKeeps DEF EnterRoom, GInv
  <2>11. ASSUME NEW mode \in Control, SwitchControl(mode)
         PROVE  GInv'
    BY <2>11 DEF SwitchControl, GInv, InPlay, FrameDue, Playing
  <2>12. CASE UNCHANGED vars
    BY <2>12 DEF vars, GInv, InPlay, FrameDue, Playing
  <2>. QED
    BY <2>1, <2>2, <2>3, <2>4, <2>5, <2>6, <2>7, <2>8, <2>9, <2>10, <2>11, <2>12
    DEF Next
<1>. QED
  BY <1>1, <1>2, PTL DEF Spec

(* On any board and with any shapes, the piece in play is never outside    *)
(* the walls or over a filled cell (collide, tryRotate, spawnPiece).       *)
THEOREM PieceInPlay == Spec => []InPlay
<1>1. GInv => InPlay
  BY DEF GInv
<1>. QED
  BY <1>1, Inductive, PTL

(* However keys, timers and answers fall between two frames, a game in     *)
(* play has a call of tick due (startGame, pauseGame, tick).               *)
THEOREM LoopNeverLost == Spec => []FrameDue
<1>1. GInv => FrameDue
  BY DEF GInv
<1>. QED
  BY <1>1, Inductive, PTL

-----------------------------------------------------------------------------
(* What clearLines computes.  ClearFrom is defined by a recursion that     *)
(* stays at a row as long as it is full; Collapsed says at once where      *)
(* every cell ends.  They are the same for two reasons: the rows as they   *)
(* collapse from a row on satisfy the recursion, and nothing else does.    *)

LEMMA LeastNat ==
  ASSUME NEW S \in SUBSET Nat, S # {}
  PROVE  \E m \in S : \A k \in S : m <= k
<1>1. PICK m \in S : \A k \in S : ~ (<<k, m>> \in OpToRel(<, Nat))
  BY NatLessThanWellFounded, WFMin
<1>2. ASSUME NEW k \in S PROVE m <= k
  <2>1. <<k, m>> \in Nat \X Nat
    OBVIOUS
  <2>2. ~ (k < m)
    BY <1>1, <2>1 DEF OpToRel
  <2>. QED
    BY <2>2
<1>. QED
  BY <1>2

LEMMA CellFacts ==
  ASSUME NEW b \in SUBSET Cells, NEW c \in b
  PROVE  /\ c = <<c[1], c[2]>>
         /\ c[1] \in 0..COLS - 1 /\ c[2] \in 0..ROWS - 1
BY GameAssumption DEF Cells

LEMMA SizeFacts == ROWS \in Nat \ {0} /\ COLS \in Nat \ {0} /\ 0 \in 0..COLS - 1
BY GameAssumption

(* A row outside the board is never full.                                  *)
LEMMA FullOnBoard ==
  ASSUME NEW b \in SUBSET Cells, NEW y, Full(b, y)
  PROVE  y \in 0..ROWS - 1
<1>1. <<0, y>> \in b
  BY SizeFacts DEF Full
<1>. QED
  BY <1>1 DEF Cells

LEMMA SplicedType ==
  ASSUME NEW b \in SUBSET Cells, NEW y \in 0..ROWS - 1
  PROVE  Spliced(b, y) \in SUBSET Cells
<1>1. ASSUME NEW c \in b, c[2] < y PROVE <<c[1], c[2] + 1>> \in Cells
  <2>1. c[1] \in 0..COLS - 1 /\ c[2] \in 0..ROWS - 1
    BY CellFacts
  <2>2. c[2] + 1 \in 0..ROWS - 1
    BY <1>1, <2>1, SizeFacts
  <2>. QED
    BY <2>1, <2>2 DEF Cells
<1>. QED
  BY <1>1 DEF Spliced

(* After a splice at y the rows over y have come down by one.              *)
LEMMA SplicedCell ==
  ASSUME NEW b \in SUBSET Cells, NEW y \in 0..ROWS - 1, NEW x \in 0..COLS - 1, NEW z \in Int
  PROVE  <<x, z>> \in Spliced(b, y) <=>
           \/ z > y /\ <<x, z>> \in b
           \/ z <= y /\ <<x, z - 1>> \in b
<1>1. ASSUME NEW d \in b, d[2] < y, <<x, z>> = <<d[1], d[2] + 1>>
      PROVE  z <= y /\ <<x, z - 1>> \in b
  <2>1. d = <<d[1], d[2]>> /\ d[2] \in Int
    BY CellFacts
  <2>2. x = d[1] /\ z = d[2] + 1
    BY <1>1
  <2>3. z - 1 = d[2]
    BY <2>1, <2>2
  <2>4. <<x, z - 1>> = d
    BY <2>1, <2>2, <2>3
  <2>. QED
    BY <1>1, <2>1, <2>2, <2>4
<1>2. ASSUME z <= y, <<x, z - 1>> \in b PROVE <<x, z>> \in Spliced(b, y)
  <2> DEFINE d == <<x, z - 1>>
  <2>1. d \in b /\ d[2] < y /\ <<d[1], d[2] + 1>> = <<x, z>>
    BY <1>2
  <2>. QED
    BY <2>1 DEF Spliced
<1>3. z > y /\ <<x, z>> \in b => <<x, z>> \in Spliced(b, y)
  BY DEF Spliced
<1>4. <<x, z>> \in Spliced(b, y) =>
        \/ z > y /\ <<x, z>> \in b
        \/ \E d \in b : d[2] < y /\ <<x, z>> = <<d[1], d[2] + 1>>
  BY DEF Spliced
<1>. QED
  BY <1>1, <1>2, <1>3, <1>4

LEMMA SplicedFull ==
  ASSUME NEW b \in SUBSET Cells, NEW y \in 0..ROWS - 1, NEW z \in Int, z <= y
  PROVE  Full(Spliced(b, y), z) <=> Full(b, z - 1)
<1>1. \A x \in 0..COLS - 1 : <<x, z>> \in Spliced(b, y) <=> <<x, z - 1>> \in b
  <2>1. ~ (z > y)
    OBVIOUS
  <2>. QED
    BY <2>1, SplicedCell
<1>. QED
  BY <1>1 DEF Full

-----------------------------------------------------------------------------
(* The recursion has one solution.                                         *)

ClearsBy(f) ==
  f = [s \in LoopState |->
         IF s[1] < 0 THEN s[2]
         ELSE IF Full(s[2], s[1]) THEN f[<<s[1], Spliced(s[2], s[1])>>]
         ELSE f[<<s[1] - 1, s[2]>>]]

LEMMA ClearFromChosen == ClearFrom = CHOOSE f : ClearsBy(f)
BY DEF ClearFrom, ClearsBy

LEMMA OneStep ==
  ASSUME NEW f, ClearsBy(f), NEW y \in -1..ROWS, NEW b \in SUBSET Cells
  PROVE  f[<<y, b>>] = IF y < 0 THEN b
                       ELSE IF Full(b, y) THEN f[<<y, Spliced(b, y)>>]
                       ELSE f[<<y - 1, b>>]
BY DEF ClearsBy, LoopState

(* The rows above row k are empty.                                         *)
EmptyAbove(b, k) == \A c \in b : c[2] >= k

LEMMA OneSolution ==
  ASSUME NEW f, ClearsBy(f), NEW g, ClearsBy(g), NEW y \in -1..ROWS, NEW b \in SUBSET Cells
  PROVE  f[<<y, b>>] = g[<<y, b>>]
<1> DEFINE Bad(z, d) == f[<<z, d>>] # g[<<z, d>>]
           Rows      == {n \in Nat : n - 1 \in -1..ROWS /\ \E d \in SUBSET Cells : Bad(n - 1, d)}
<1> SUFFICES ASSUME Bad(y, b) PROVE FALSE
  OBVIOUS
<1>1. y + 1 \in Rows
  <2>1. y + 1 \in Nat /\ (y + 1) - 1 = y
    BY SizeFacts
  <2>2. Bad((y + 1) - 1, b)
    BY <2>1
  <2> HIDE DEF Bad
  <2>. QED
    BY <2>1, <2>2
<1>2. PICK n \in Rows : \A k \in Rows : n <= k
  <2>1. Rows \in SUBSET Nat /\ Rows # {}
    BY <1>1
  <2> HIDE DEF Rows
  <2>. QED
    BY <2>1, LeastNat
<1> DEFINE z == n - 1
<1>3. z \in -1..ROWS /\ n \in Nat /\ \E d \in SUBSET Cells : Bad(z, d)
  BY <1>2
<1>4. \A d \in SUBSET Cells : z >= 0 => ~ Bad(z - 1, d)
  <2> SUFFICES ASSUME NEW d \in SUBSET Cells, z >= 0, Bad(z - 1, d) PROVE FALSE
    OBVIOUS
  <2>1. n - 1 \in Nat /\ (n - 1) - 1 \in -1..ROWS
    BY <1>3, SizeFacts
  <2>2. n - 1 \in Rows
    BY <2>1
  <2> HIDE DEF Rows, Bad
  <2>. QED
    BY <1>2, <1>3, <2>2
<1> DEFINE Gaps == {m \in Nat : m <= n /\ \E d \in SUBSET Cells :
                                  Bad(z, d) /\ EmptyAbove(d, n - m)}
<1>5. n \in Gaps
  <2>1. PICK d \in SUBSET Cells : Bad(z, d)
    BY <1>3
  <2>2. EmptyAbove(d, 0) /\ n - n = 0
    BY <1>3, CellFacts, SizeFacts DEF EmptyAbove
  <2>. QED
    BY <1>3, <2>1, <2>2
<1>6. PICK m \in Gaps : \A k \in Gaps : m <= k
  <2>1. Gaps \in SUBSET Nat /\ Gaps # {}
    BY <1>5
  <2> HIDE DEF Gaps
  <2>. QED
    BY <2>1, LeastNat
<1>7. PICK d \in SUBSET Cells : Bad(z, d) /\ EmptyAbove(d, n - m)
  BY <1>6
<1>8. m \in Nat /\ m <= n
  BY <1>6
<1> HIDE DEF Rows, z
<1>9. z = n - 1
  BY DEF z
<1>10. CASE z < 0
  BY <1>3, <1>7, <1>10, OneStep
<1>11. CASE z >= 0 /\ ~ Full(d, z)
  <2>1. ~ Bad(z - 1, d)
    BY <1>4, <1>11
  <2>2. f[<<z, d>>] = f[<<z - 1, d>>] /\ g[<<z, d>>] = g[<<z - 1, d>>]
    BY <1>3, <1>11, OneStep
  <2>. QED
    BY <1>7, <2>1, <2>2
<1>12. CASE z >= 0 /\ Full(d, z)
  <2> DEFINE e == Spliced(d, z)
  <2>1. z \in 0..ROWS - 1
    BY <1>12, FullOnBoard
  <2>2. e \in SUBSET Cells
    BY <2>1, SplicedType
  <2>3. Bad(z, e)
    <3>1. f[<<z, d>>] = f[<<z, e>>] /\ g[<<z, d>>] = g[<<z, e>>]
      BY <1>3, <1>12, <2>1, OneStep
    <3>. QED
      BY <1>7, <3>1
  <2>4. m # 0
    <3>1. <<0, z>> \in d
      BY <1>12, SizeFacts DEF Full
    <3>2. z >= n - m
      BY <1>7, <3>1 DEF EmptyAbove
    <3>. QED
      BY <1>3, <1>8, <1>9, <3>2
  <2>5. EmptyAbove(e, n - (m - 1))
    <3> SUFFICES ASSUME NEW c \in e PROVE c[2] >= n - m + 1
      BY <1>3, <1>8 DEF EmptyAbove
    <3>1. c[1] \in 0..COLS - 1 /\ c[2] \in 0..ROWS - 1 /\ c = <<c[1], c[2]>>
      BY <2>2, CellFacts
    <3>2. CASE c[2] > z
      BY <1>3, <1>8, <1>9, <2>1, <2>4, <3>1, <3>2
    <3>3. CASE c[2] <= z
      <4>1. <<c[1], c[2] - 1>> \in d
        BY <2>1, <3>1, <3>3, SplicedCell
      <4>2. c[2] - 1 >= n - m
        BY <1>7, <4>1 DEF EmptyAbove
      <4>. QED
        BY <1>3, <1>8, <3>1, <4>2
    <3>. QED
      BY <2>1, <3>1, <3>2, <3>3
  <2>6. m - 1 \in Gaps
    <3>1. m - 1 \in Nat /\ m - 1 <= n
      BY <1>3, <1>8, <2>4
    <3> HIDE DEF e, Bad
    <3>. QED
      BY <2>2, <2>3, <2>5, <3>1
  <2> HIDE DEF Gaps
  <2>. QED
    BY <1>6, <1>8, <2>6
<1>. QED
  BY <1>3, <1>10, <1>11, <1>12

-----------------------------------------------------------------------------
(* The rows as they collapse from row y on solve the recursion.            *)

RowsBelow(b, r, y) == {z \in 0..ROWS - 1 : z > r /\ z <= y /\ Full(b, z)}

Landed(b, y, c) == <<c[1], c[2] + Cardinality(RowsBelow(b, c[2], y))>>

Stays(b, y) == {d \in b : d[2] > y \/ ~ Full(b, d[2])}

CollapsedFrom(b, y) == {Landed(b, y, c) : c \in Stays(b, y)}

LEMMA RowsBelowFinite ==
  ASSUME NEW b, NEW r, NEW y
  PROVE  IsFiniteSet(RowsBelow(b, r, y)) /\ Cardinality(RowsBelow(b, r, y)) \in Nat
<1>1. RowsBelow(b, r, y) \subseteq 0..ROWS - 1
  BY DEF RowsBelow
<1>2. IsFiniteSet(0..ROWS - 1)
  BY SizeFacts, FS_Interval
<1>. QED
  BY <1>1, <1>2, FS_Subset, FS_CardinalityType

LEMMA NothingToClear ==
  ASSUME NEW b \in SUBSET Cells
  PROVE  CollapsedFrom(b, -1) = b
<1>1. ASSUME NEW c \in b PROVE c \in Stays(b, -1) /\ Landed(b, -1, c) = c
  <2>1. c = <<c[1], c[2]>> /\ c[2] \in Nat
    BY CellFacts, SizeFacts
  <2>2. RowsBelow(b, c[2], -1) = {}
    BY <2>1 DEF RowsBelow
  <2>3. Cardinality(RowsBelow(b, c[2], -1)) = 0
    BY <2>2, FS_EmptySet
  <2>. QED
    BY <2>1, <2>3 DEF Stays, Landed
<1>2. Stays(b, -1) \subseteq b
  BY DEF Stays
<1>. QED
  BY <1>1, <1>2 DEF CollapsedFrom

LEMMA RowNotFull ==
  ASSUME NEW b \in SUBSET Cells, NEW y \in 0..ROWS, ~ Full(b, y)
  PROVE  CollapsedFrom(b, y) = CollapsedFrom(b, y - 1)
<1>1. Stays(b, y) = Stays(b, y - 1)
  <2>1. ASSUME NEW d \in b
        PROVE  (d[2] > y \/ ~ Full(b, d[2])) <=> (d[2] > y - 1 \/ ~ Full(b, d[2]))
    <3>1. d[2] \in Int /\ y \in Int
      BY CellFacts, SizeFacts
    <3>2. d[2] > y - 1 <=> d[2] > y \/ d[2] = y
      BY <3>1
    <3>. QED
      BY <3>2
  <2>. QED
    BY <2>1 DEF Stays
<1>2. ASSUME NEW r PROVE RowsBelow(b, r, y) = RowsBelow(b, r, y - 1)
  <2>1. \A z \in 0..ROWS - 1 : Full(b, z) => (z <= y <=> z <= y - 1)
    BY SizeFacts
  <2>. QED
    BY <2>1 DEF RowsBelow
<1>. QED
  BY <1>1, <1>2 DEF CollapsedFrom, Landed

(* A splice takes out one full row below every cell that comes down.       *)
LEMMA SplicedRowsBelow ==
  ASSUME NEW b \in SUBSET Cells, NEW y \in 0..ROWS - 1, Full(b, y), NEW r \in Nat, r < y
  PROVE  Cardinality(RowsBelow(b, r, y))
           = Cardinality(RowsBelow(Spliced(b, y), r + 1, y)) + 1
<1> DEFINE e == Spliced(b, y)
           A == RowsBelow(b, r, y - 1)
           B == RowsBelow(e, r + 1, y)
           down == [z \in A |-> z + 1]
<1>1. \A z \in 0..ROWS - 1 : z <= y => (Full(e, z) <=> Full(b, z - 1))
  BY SizeFacts, SplicedFull
<1>2. ASSUME NEW z \in A PROVE z \in Nat /\ z + 1 \in B
  <2>1. z \in 0..ROWS - 1 /\ z > r /\ z <= y - 1 /\ Full(b, z)
    BY DEF RowsBelow
  <2>2. z + 1 \in 0..ROWS - 1 /\ z + 1 <= y /\ z + 1 > r + 1 /\ (z + 1) - 1 = z
    BY <2>1, SizeFacts
  <2>3. Full(e, z + 1)
    BY <1>1, <2>1, <2>2
  <2> HIDE DEF e
  <2>. QED
    BY <2>1, <2>2, <2>3 DEF RowsBelow
<1>3. ASSUME NEW w \in B PROVE \E z \in A : w = z + 1
  <2>1. w \in 0..ROWS - 1 /\ w > r + 1 /\ w <= y /\ Full(b, w - 1)
    BY <1>1 DEF RowsBelow
  <2>2. w - 1 \in A
    BY <2>1, SizeFacts DEF RowsBelow
  <2>. QED
    BY <2>1, <2>2
<1> HIDE DEF e
<1>4. down \in Bijection(A, B)
  <2>1. down \in [A -> B]
    BY <1>2
  <2>2. down \in Injection(A, B)
    <3> HIDE DEF A, B
    <3>. QED
      BY <1>2, <2>1 DEF Injection, IsInjective
  <2>3. down \in Surjection(A, B)
    <3> HIDE DEF A, B
    <3>. QED
      BY <1>3, <2>1 DEF Surjection
  <2>. QED
    BY <2>2, <2>3 DEF Bijection
<1>5. IsFiniteSet(A) /\ IsFiniteSet(B) /\ Cardinality(A) \in Nat /\ Cardinality(B) \in Nat
  BY RowsBelowFinite
<1>6. Cardinality(A) = Cardinality(B)
  <2> HIDE DEF A, B, down
  <2>. QED
    BY <1>4, <1>5, FS_Bijection DEF ExistsBijection
<1>7. RowsBelow(b, r, y) = A \cup {y} /\ y \notin A
  BY SizeFacts DEF RowsBelow
<1>8. Cardinality(RowsBelow(b, r, y)) = Cardinality(A) + 1
  <2> HIDE DEF A
  <2>. QED
    BY <1>5, <1>7, FS_AddElement
<1>. QED
  BY <1>6, <1>8 DEF e

LEMMA RowFull ==
  ASSUME NEW b \in SUBSET Cells, NEW y \in 0..ROWS - 1, Full(b, y)
  PROVE  CollapsedFrom(b, y) = CollapsedFrom(Spliced(b, y), y)
<1> DEFINE e == Spliced(b, y)
<1>1. e \in SUBSET Cells
  BY SplicedType
<1>2. \A x \in 0..COLS - 1, z \in Int :
        <<x, z>> \in e <=> \/ z > y /\ <<x, z>> \in b
                           \/ z <= y /\ <<x, z - 1>> \in b
  BY SplicedCell
<1>3. \A z \in Int : z <= y => (Full(e, z) <=> Full(b, z - 1))
  BY SplicedFull
<1>4. \A r \in Nat : r < y => Cardinality(RowsBelow(b, r, y))
                                = Cardinality(RowsBelow(e, r + 1, y)) + 1
  BY SplicedRowsBelow
<1> HIDE DEF e
<1>5. ASSUME NEW x \in 0..COLS - 1, NEW z \in Nat, z > y, <<x, z>> \in b \/ <<x, z>> \in e
      PROVE  /\ <<x, z>> \in Stays(b, y) /\ <<x, z>> \in Stays(e, y)
             /\ Landed(b, y, <<x, z>>) = Landed(e, y, <<x, z>>)
  <2>1. <<x, z>> \in b /\ <<x, z>> \in e
    <3>1. z \in Int /\ ~ (z <= y)
      BY <1>5, SizeFacts
    <3>2. <<x, z>> \in e <=> \/ z > y /\ <<x, z>> \in b
                             \/ z <= y /\ <<x, z - 1>> \in b
      BY <1>2, <3>1
    <3>3. <<x, z>> \in e <=> <<x, z>> \in b
      BY <1>5, <3>1, <3>2
    <3>. QED
      BY <1>5, <3>3
  <2>2. RowsBelow(b, z, y) = {} /\ RowsBelow(e, z, y) = {}
    <3>1. \A w \in 0..ROWS - 1 : ~ (w > z /\ w <= y)
      BY <1>5, SizeFacts
    <3>. QED
      BY <3>1 DEF RowsBelow
  <2>3. <<x, z>> \in Stays(b, y) /\ <<x, z>> \in Stays(e, y)
    BY <1>5, <2>1 DEF Stays
  <2>4. Landed(b, y, <<x, z>>) = Landed(e, y, <<x, z>>)
    BY <2>2 DEF Landed
  <2>. QED
    BY <2>3, <2>4
<1>6. ASSUME NEW x \in 0..COLS - 1, NEW z \in Nat, z < y, ~ Full(b, z), <<x, z>> \in b
      PROVE  /\ <<x, z + 1>> \in Stays(e, y)
             /\ Landed(b, y, <<x, z>>) = Landed(e, y, <<x, z + 1>>)
  <2>1. z + 1 \in Int /\ z + 1 <= y /\ (z + 1) - 1 = z
    BY <1>6, SizeFacts
  <2>2. <<x, z + 1>> \in e /\ ~ Full(e, z + 1)
    BY <1>2, <1>3, <1>6, <2>1
  <2>3. <<x, z + 1>> \in Stays(e, y)
    BY <2>2 DEF Stays
  <2>4. /\ Cardinality(RowsBelow(b, z, y)) = Cardinality(RowsBelow(e, z + 1, y)) + 1
        /\ Cardinality(RowsBelow(e, z + 1, y)) \in Nat
    BY <1>4, <1>6, RowsBelowFinite
  <2>5. z + Cardinality(RowsBelow(b, z, y)) = (z + 1) + Cardinality(RowsBelow(e, z + 1, y))
    BY <2>4
  <2>. QED
    BY <2>3, <2>5 DEF Landed
<1>7. ASSUME NEW c \in Stays(b, y) PROVE \E d \in Stays(e, y) : Landed(b, y, c) = Landed(e, y, d)
  <2>1. c \in b /\ (c[2] > y \/ ~ Full(b, c[2]))
    BY DEF Stays
  <2>2. c = <<c[1], c[2]>> /\ c[1] \in 0..COLS - 1 /\ c[2] \in Nat
    BY <2>1, CellFacts, SizeFacts
  <2>3. c[2] > y \/ (c[2] < y /\ ~ Full(b, c[2]))
    BY <2>1, <2>2, SizeFacts
  <2>. QED
    BY <1>5, <1>6, <2>1, <2>2, <2>3
<1>8. ASSUME NEW d \in Stays(e, y) PROVE \E c \in Stays(b, y) : Landed(b, y, c) = Landed(e, y, d)
  <2>1. d \in e /\ (d[2] > y \/ ~ Full(e, d[2]))
    BY DEF Stays
  <2>2. d = <<d[1], d[2]>> /\ d[1] \in 0..COLS - 1 /\ d[2] \in Nat
    BY <1>1, <2>1, CellFacts, SizeFacts
  <2>3. CASE d[2] > y
    BY <1>5, <2>1, <2>2, <2>3
  <2>4. CASE d[2] <= y /\ ~ Full(e, d[2])
    <3> DEFINE z == d[2] - 1
    <3>1. <<d[1], z>> \in b /\ ~ Full(b, z)
      BY <1>2, <1>3, <2>1, <2>2, <2>4
    <3>2. z \in Nat /\ z < y /\ z + 1 = d[2]
      <4>1. z \in 0..ROWS - 1
        BY <3>1, CellFacts
      <4>. QED
        BY <2>2, <2>4, <4>1, SizeFacts
    <3> HIDE DEF z
    <3>3. Landed(b, y, <<d[1], z>>) = Landed(e, y, d)
      BY <1>6, <2>2, <3>1, <3>2
    <3>4. <<d[1], z>> \in Stays(b, y)
      BY <3>1 DEF Stays
    <3>. QED
      BY <3>3, <3>4
  <2>. QED
    BY <2>1, <2>2, <2>3, <2>4, SizeFacts
<1>. QED
  BY <1>7, <1>8 DEF CollapsedFrom, e

LEMMA CollapsedFromType ==
  ASSUME NEW b \in SUBSET Cells, NEW y \in -1..ROWS
  PROVE  CollapsedFrom(b, y) \in SUBSET Cells
<1> SUFFICES ASSUME NEW c \in Stays(b, y) PROVE Landed(b, y, c) \in Cells
  BY DEF CollapsedFrom
<1> DEFINE R == RowsBelow(b, c[2], y)
<1>1. c[1] \in 0..COLS - 1 /\ c[2] \in 0..ROWS - 1
  BY CellFacts DEF Stays
<1>2. R \subseteq c[2] + 1..ROWS - 1
  BY <1>1, SizeFacts DEF RowsBelow
<1>3. /\ IsFiniteSet(c[2] + 1..ROWS - 1)
      /\ Cardinality(c[2] + 1..ROWS - 1) = (ROWS - 1) - c[2]
  <2>1. c[2] + 1 \in Int /\ ROWS - 1 \in Int
    BY <1>1, SizeFacts
  <2>2. /\ IsFiniteSet(c[2] + 1..ROWS - 1)
        /\ Cardinality(c[2] + 1..ROWS - 1)
             = IF c[2] + 1 > ROWS - 1 THEN 0 ELSE (ROWS - 1) - (c[2] + 1) + 1
    BY <2>1, FS_Interval
  <2>. QED
    BY <1>1, <2>2, SizeFacts
<1>4. Cardinality(R) <= (ROWS - 1) - c[2] /\ Cardinality(R) \in Nat
  <2>1. Cardinality(R) \in Nat
    BY RowsBelowFinite
  <2> HIDE DEF R
  <2>2. Cardinality(R) <= Cardinality(c[2] + 1..ROWS - 1)
    BY <1>2, <1>3, FS_Subset
  <2>. QED
    BY <1>3, <2>1, <2>2
<1>5. c[2] + Cardinality(R) \in 0..ROWS - 1
  BY <1>1, <1>4, SizeFacts
<1>. QED
  BY <1>1, <1>5 DEF Landed, Cells

LEMMA CollapsedClears ==
  ClearsBy([s \in LoopState |-> CollapsedFrom(s[2], s[1])])
<1> DEFINE g == [s \in LoopState |-> CollapsedFrom(s[2], s[1])]
<1>1. ASSUME NEW y \in -1..ROWS, NEW b \in SUBSET Cells
      PROVE  g[<<y, b>>] = CollapsedFrom(b, y)
  BY DEF LoopState
<1> HIDE DEF g
<1>2. ASSUME NEW s \in LoopState
      PROVE  CollapsedFrom(s[2], s[1]) = IF s[1] < 0 THEN s[2]
               ELSE IF Full(s[2], s[1]) THEN g[<<s[1], Spliced(s[2], s[1])>>]
               ELSE g[<<s[1] - 1, s[2]>>]
  <2> DEFINE y == s[1]
             b == s[2]
  <2>1. y \in -1..ROWS /\ b \in SUBSET Cells
    BY DEF LoopState
  <2> HIDE DEF y, b
  <2>2. CASE y < 0
    <3>1. y = -1
      BY <2>1, <2>2, SizeFacts
    <3>. QED
      BY <2>1, <2>2, <3>1, NothingToClear DEF y, b
  <2>3. CASE y >= 0 /\ Full(b, y)
    <3>1. y \in 0..ROWS - 1
      BY <2>1, <2>3, FullOnBoard
    <3>2. g[<<y, Spliced(b, y)>>] = CollapsedFrom(Spliced(b, y), y)
      BY <1>1, <2>1, <3>1, SplicedType
    <3>3. ~ (y < 0)
      BY <3>1, SizeFacts
    <3>. QED
      BY <2>1, <2>3, <3>1, <3>2, <3>3, RowFull DEF y, b
  <2>4. CASE y >= 0 /\ ~ Full(b, y)
    <3>1. y \in 0..ROWS /\ y - 1 \in -1..ROWS /\ ~ (y < 0)
      BY <2>1, <2>4, SizeFacts
    <3>2. g[<<y - 1, b>>] = CollapsedFrom(b, y - 1)
      BY <1>1, <2>1, <3>1
    <3>. QED
      BY <2>1, <2>4, <3>1, <3>2, RowNotFull DEF y, b
  <2>5. y < 0 \/ y >= 0
    BY <2>1, SizeFacts
  <2>. QED
    BY <2>2, <2>3, <2>4, <2>5
<1>3. g = [s \in LoopState |-> CollapsedFrom(s[2], s[1])]
  BY DEF g
<1>. QED
  BY <1>2, <1>3 DEF ClearsBy, g

LEMMA ClearLinesFrom ==
  ASSUME NEW b \in SUBSET Cells
  PROVE  ClearLines(b) = CollapsedFrom(b, ROWS - 1)
<1> DEFINE g == [s \in LoopState |-> CollapsedFrom(s[2], s[1])]
<1>1. ClearsBy(g) /\ ClearsBy(ClearFrom)
  BY CollapsedClears, ClearFromChosen
<1>2. ROWS - 1 \in -1..ROWS
  BY SizeFacts
<1>3. g[<<ROWS - 1, b>>] = CollapsedFrom(b, ROWS - 1)
  BY <1>2 DEF LoopState
<1> HIDE DEF g
<1>. QED
  BY <1>1, <1>2, <1>3, OneSolution DEF ClearLines

LEMMA ClearLinesType ==
  ASSUME NEW b \in SUBSET Cells
  PROVE  ClearLines(b) \in SUBSET Cells
<1>1. ROWS - 1 \in -1..ROWS
  BY SizeFacts
<1>. QED
  BY <1>1, ClearLinesFrom, CollapsedFromType

(* For every board: when the loop of clearLines has run, every full row is *)
(* gone, every other cell has come down by the full rows below it, and     *)
(* nothing else has changed.                                               *)
THEOREM LoopCollapses == \A b \in SUBSET Cells : ClearLines(b) = Collapsed(b)
<1> SUFFICES ASSUME NEW b \in SUBSET Cells PROVE ClearLines(b) = Collapsed(b)
  OBVIOUS
<1>1. ClearLines(b) = CollapsedFrom(b, ROWS - 1)
  BY ClearLinesFrom
<1>2. Stays(b, ROWS - 1) = {d \in b : ~ Full(b, d[2])}
  <2>1. \A d \in b : ~ (d[2] > ROWS - 1)
    BY CellFacts, SizeFacts
  <2>. QED
    BY <2>1 DEF Stays
<1>3. \A c : RowsBelow(b, c[2], ROWS - 1) = {y \in 0..ROWS - 1 : y > c[2] /\ Full(b, y)}
  <2>1. \A z \in 0..ROWS - 1 : z <= ROWS - 1
    BY SizeFacts
  <2>. QED
    BY <2>1 DEF RowsBelow
<1>. QED
  BY <1>1, <1>2, <1>3 DEF CollapsedFrom, Landed, Collapsed

-----------------------------------------------------------------------------
(* The piece in play, as far as it is kept by every callback: the cells of *)
(* a shape, as many of them, in a square of the shape's size, and never    *)
(* above the row it came in at.                                            *)
PieceOK(p) ==
  /\ p \in [size : Int, cells : SUBSET (Int \X Int), x : Int, y : Int]
  /\ p.y >= -1
  /\ p.cells # {}
  /\ \E s \in SHAPES : /\ p.size = s.size
                       /\ p.cells \subseteq (0..s.size - 1) \X (0..s.size - 1)
                       /\ Cardinality(p.cells) = Cardinality(s.cells)

PInv ==
  /\ board \in SUBSET Cells
  /\ PieceOK(current)
  /\ next \in SHAPES
  /\ controlMode \in Control
  /\ frames \in 0..MaxFrames /\ timers \in 0..MaxTimers

LEMMA ShapeFacts ==
  ASSUME NEW s \in SHAPES
  PROVE  /\ s.size \in Nat \ {0} /\ s.size \in 1..COLS
         /\ s.cells # {} /\ s.cells \subseteq (0..s.size - 1) \X (0..s.size - 1)
BY GameAssumption

LEMMA BoundFacts == MaxFrames \in Nat /\ MaxTimers \in Nat
BY GameAssumption

LEMMA NewPiece ==
  ASSUME NEW s \in SHAPES
  PROVE  PieceOK(RandomPiece(s))
<1> DEFINE left == (COLS - s.size) \div 2
<1>1. left \in Int
  BY ShapeFacts, SizeFacts, SMT
<1>2. s.size \in Int /\ s.cells \in SUBSET (Int \X Int) /\ s.cells # {}
  BY ShapeFacts
<1> HIDE DEF left
<1>3. RandomPiece(s) = [size |-> s.size, cells |-> s.cells, x |-> left, y |-> -1]
  BY DEF RandomPiece, left
<1>. QED
  BY <1>1, <1>2, <1>3, ShapeFacts DEF PieceOK

LEMMA MovedPiece ==
  ASSUME NEW p, PieceOK(p), NEW dx \in Int, NEW dy \in Int
  PROVE  /\ Moved(p, dx, dy).size = p.size /\ Moved(p, dx, dy).cells = p.cells
         /\ Moved(p, dx, dy).x = p.x + dx /\ Moved(p, dx, dy).y = p.y + dy
         /\ dy >= 0 => PieceOK(Moved(p, dx, dy))
<1> DEFINE q == Moved(p, dx, dy)
<1>1. q \in [size : Int, cells : SUBSET (Int \X Int), x : Int, y : Int]
  <2> DEFINE nx == p.x + dx
             ny == p.y + dy
  <2>1. nx \in Int /\ ny \in Int
    BY DEF PieceOK
  <2>2. q = [p EXCEPT !.x = nx, !.y = ny]
    BY Zenon DEF Moved
  <2> HIDE DEF q, nx, ny
  <2>. QED
    BY <2>1, <2>2 DEF PieceOK
<1>2. q.size = p.size /\ q.cells = p.cells /\ q.x = p.x + dx /\ q.y = p.y + dy
  BY DEF Moved, PieceOK
<1>3. dy >= 0 => q.y >= -1
  BY <1>2 DEF PieceOK
<1> HIDE DEF q
<1>4. dy >= 0 => PieceOK(q)
  BY <1>1, <1>2, <1>3 DEF PieceOK
<1>. QED
  BY <1>2, <1>4 DEF q

(* A turn takes every cell of the square to another and none to the same.  *)
LEMMA TurnedCells ==
  ASSUME NEW n \in Nat \ {0}, NEW p, p.size = n,
         p.cells \subseteq (0..n - 1) \X (0..n - 1)
  PROVE  /\ RotateMatrix(p) \subseteq (0..n - 1) \X (0..n - 1)
         /\ Cardinality(RotateMatrix(p)) = Cardinality(p.cells)
         /\ p.cells # {} => RotateMatrix(p) # {}
<1> DEFINE Square == (0..n - 1) \X (0..n - 1)
           C == p.cells
           D == RotateMatrix(p)
           turn == [c \in C |-> <<n - 1 - c[2], c[1]>>]
<1>1. D = {<<n - 1 - c[2], c[1]>> : c \in C}
  BY DEF RotateMatrix
<1>2. ASSUME NEW c \in C
      PROVE  c[1] \in 0..n - 1 /\ c[2] \in 0..n - 1 /\ c = <<c[1], c[2]>>
  OBVIOUS
<1>3. D \subseteq Square
  <2>1. \A c \in C : n - 1 - c[2] \in 0..n - 1
    BY <1>2
  <2> HIDE DEF C, D
  <2>. QED
    BY <1>1, <1>2, <2>1
<1>4. IsFiniteSet(C)
  <2>1. IsFiniteSet(0..n - 1)
    BY FS_Interval
  <2>2. IsFiniteSet(Square)
    BY <2>1, FS_Product
  <2>. QED
    BY <2>2, FS_Subset
<1>5. turn \in Bijection(C, D)
  <2> HIDE DEF C, D
  <2>1. turn \in [C -> D]
    BY <1>1
  <2>2. \A c, d \in C : turn[c] = turn[d] => c = d
    <3> SUFFICES ASSUME NEW c \in C, NEW d \in C, turn[c] = turn[d] PROVE c = d
      OBVIOUS
    <3>1. n - 1 - c[2] = n - 1 - d[2] /\ c[1] = d[1]
      OBVIOUS
    <3>2. c[2] = d[2]
      BY <1>2, <3>1
    <3>. QED
      BY <1>2, <3>1, <3>2
  <2>3. \A e \in D : \E c \in C : turn[c] = e
    BY <1>1
  <2> HIDE DEF turn
  <2>4. turn \in Injection(C, D)
    BY <2>1, <2>2 DEF Injection, IsInjective
  <2>5. turn \in Surjection(C, D)
    BY <2>1, <2>3 DEF Surjection
  <2>. QED
    BY <2>4, <2>5 DEF Bijection
<1>6. Cardinality(D) = Cardinality(C)
  <2> HIDE DEF C, D, turn
  <2>. QED
    BY <1>4, <1>5, FS_Bijection DEF ExistsBijection
<1>7. C # {} => D # {}
  <2> HIDE DEF C, D
  <2>. QED
    BY <1>1
<1>. QED
  BY <1>3, <1>6, <1>7

LEMMA RotatedPiece ==
  ASSUME NEW p, PieceOK(p), NEW b
  PROVE  PieceOK(Rotated(p, b))
<1> DEFINE Kicked(i) == [p EXCEPT !.cells = RotateMatrix(p), !.x = @ + Kicks[i]]
           fits      == {i \in 1..Len(Kicks) : ~ Collide(Kicked(i), b)}
           first     == CHOOSE i \in fits : \A j \in fits : i <= j
<1>1. PICK s \in SHAPES : /\ p.size = s.size
                          /\ p.cells \subseteq (0..s.size - 1) \X (0..s.size - 1)
                          /\ Cardinality(p.cells) = Cardinality(s.cells)
  BY DEF PieceOK
<1>2. /\ RotateMatrix(p) \subseteq (0..s.size - 1) \X (0..s.size - 1)
      /\ Cardinality(RotateMatrix(p)) = Cardinality(s.cells)
      /\ RotateMatrix(p) # {}
  <2>1. s.size \in Nat \ {0} /\ p.cells # {}
    BY ShapeFacts DEF PieceOK
  <2>. QED
    BY <1>1, <2>1, TurnedCells
<1>3. ASSUME NEW i \in 1..5 PROVE PieceOK(Kicked(i))
  <2>1. Kicks[i] \in Int
    BY DEF Kicks
  <2>2. RotateMatrix(p) \in SUBSET (Int \X Int)
    <3>1. (0..s.size - 1) \X (0..s.size - 1) \subseteq Int \X Int
      BY ShapeFacts
    <3>. QED
      BY <1>2, <3>1
  <2>3. Kicked(i) \in [size : Int, cells : SUBSET (Int \X Int), x : Int, y : Int]
    <3> DEFINE nx == p.x + Kicks[i]
    <3>1. nx \in Int
      BY <2>1 DEF PieceOK
    <3>2. Kicked(i) = [p EXCEPT !.cells = RotateMatrix(p), !.x = nx]
      BY Zenon
    <3> HIDE DEF Kicked, nx
    <3>. QED
      BY <2>2, <3>1, <3>2 DEF PieceOK
  <2>4. Kicked(i).size = p.size /\ Kicked(i).cells = RotateMatrix(p) /\ Kicked(i).y = p.y
    BY DEF PieceOK
  <2> HIDE DEF Kicked
  <2>5. Kicked(i).y >= -1
    BY <2>4 DEF PieceOK
  <2>. QED
    BY <1>1, <1>2, <2>3, <2>4, <2>5 DEF PieceOK
<1>4. fits \subseteq 1..5
  BY DEF Kicks
<1>5. CASE fits = {}
  BY <1>5 DEF Rotated
<1>6. CASE fits # {}
  <2>1. \E i \in fits : \A j \in fits : i <= j
    <3> HIDE DEF fits
    <3>1. fits \in SUBSET Nat
      BY <1>4
    <3>. QED
      BY <1>6, <3>1, LeastNat
  <2>2. first \in fits
    <3> HIDE DEF fits
    <3>. QED  BY <2>1
  <2>3. Rotated(p, b) = Kicked(first)
    BY <1>6 DEF Rotated
  <2> HIDE DEF fits, first, Kicked
  <2>. QED
    BY <1>3, <1>4, <2>2, <2>3
<1>. QED
  BY <1>5, <1>6

LEMMA OccupiedFacts ==
  ASSUME NEW p, PieceOK(p), NEW c \in Occupied(p)
  PROVE  c = <<c[1], c[2]>> /\ c[1] \in Int /\ c[2] \in Int
<1>1. PICK d \in p.cells : c = <<p.x + d[1], p.y + d[2]>>
  BY DEF Occupied
<1>2. d[1] \in Int /\ d[2] \in Int /\ p.x \in Int /\ p.y \in Int
  BY <1>1 DEF PieceOK
<1>. QED
  BY <1>1, <1>2

(* A piece that fits leaves its cells on the board.                        *)
LEMMA MergedType ==
  ASSUME NEW p, PieceOK(p), NEW b \in SUBSET Cells, ~ Collide(p, b)
  PROVE  Merged(p, b) \in SUBSET Cells
<1>1. ASSUME NEW c \in Occupied(p), c[2] >= 0 PROVE c \in Cells
  <2>1. c = <<c[1], c[2]>> /\ c[1] \in Int /\ c[2] \in Int
    BY OccupiedFacts
  <2>2. ~ (c[1] < 0) /\ ~ (c[1] >= COLS) /\ ~ (c[2] >= ROWS)
    BY DEF Collide
  <2>3. c[1] \in 0..COLS - 1 /\ c[2] \in 0..ROWS - 1
    BY <1>1, <2>1, <2>2, SizeFacts
  <2>. QED
    BY <2>1, <2>3 DEF Cells
<1>. QED
  BY <1>1 DEF Merged

(* Pieces with the same cells at the same place collide alike.             *)
LEMMA CollideAlike ==
  ASSUME NEW p, NEW q, p.cells = q.cells, p.x = q.x, p.y = q.y, NEW b
  PROVE  Collide(p, b) <=> Collide(q, b)
BY DEF Collide, Occupied

(* A hard drop ends within the walls, on the floor or on filled cells.     *)
LEMMA FallenLies ==
  ASSUME NEW p, PieceOK(p), NEW b, ~ Collide(p, b)
  PROVE  /\ PieceOK(Fallen(p, b))
         /\ ~ Collide(Fallen(p, b), b)
         /\ Collide(Moved(Fallen(p, b), 0, 1), b)
<1> DEFINE blocked == {k \in 0..ROWS + 2 : Collide(Moved(p, 0, k), b)}
           first   == CHOOSE k \in blocked : \A j \in blocked : k <= j
<1>1. ROWS + 1 \in blocked
  <2> DEFINE q == Moved(p, 0, ROWS + 1)
  <2>1. q.cells = p.cells /\ q.y = p.y + (ROWS + 1) /\ p.y \in Int /\ p.y >= -1
    BY MovedPiece, SizeFacts DEF PieceOK
  <2>2. PICK d \in p.cells : d[2] \in Nat
    <3>1. PICK s \in SHAPES : p.cells \subseteq (0..s.size - 1) \X (0..s.size - 1)
      BY DEF PieceOK
    <3>2. PICK d \in p.cells : TRUE
      BY DEF PieceOK
    <3>3. d[2] \in 0..s.size - 1
      BY <3>1, <3>2
    <3>4. d[2] \in Nat
      BY <3>3, ShapeFacts
    <3>. QED
      BY <3>4
  <2> HIDE DEF q
  <2> DEFINE c == <<q.x + d[1], q.y + d[2]>>
  <2>3. c \in Occupied(q)
    BY <2>1 DEF Occupied
  <2>4. c[2] >= ROWS
    BY <2>1, <2>2, SizeFacts
  <2> HIDE DEF c
  <2>5. Collide(q, b)
    BY <2>3, <2>4 DEF Collide
  <2>. QED
    BY <2>5, SizeFacts DEF q
<1>2. 0 \notin blocked
  <2>1. Moved(p, 0, 0).cells = p.cells /\ Moved(p, 0, 0).x = p.x /\ Moved(p, 0, 0).y = p.y
    <3>1. p.x \in Int /\ p.y \in Int
      BY DEF PieceOK
    <3>. QED
      BY <3>1, MovedPiece
  <2>2. ~ Collide(Moved(p, 0, 0), b)
    BY <2>1, CollideAlike
  <2>. QED
    BY <2>2
<1>3. first \in blocked /\ \A j \in blocked : first <= j
  <2>1. blocked \in SUBSET Nat /\ blocked # {}
    BY <1>1, SizeFacts
  <2> HIDE DEF blocked
  <2>2. \E k \in blocked : \A j \in blocked : k <= j
    BY <2>1, LeastNat
  <2>. QED
    BY <2>2
<1> DEFINE k == first
           q == Moved(p, 0, k - 1)
<1>4. k \in 0..ROWS + 2 /\ Collide(Moved(p, 0, k), b) /\ k - 1 \in Nat /\ k - 1 \notin blocked
  <2> HIDE DEF first
  <2>1. k \in 0..ROWS + 2 /\ Collide(Moved(p, 0, k), b) /\ k # 0
    BY <1>2, <1>3
  <2>2. k - 1 \in Nat /\ ~ (k <= k - 1)
    BY <2>1, SizeFacts
  <2> HIDE DEF blocked
  <2>. QED
    BY <1>3, <2>1, <2>2
<1>5. Fallen(p, b) = q
  BY DEF Fallen
<1> HIDE DEF first
<1>6. PieceOK(q) /\ q.cells = p.cells /\ q.x = p.x + 0 /\ q.y = p.y + (k - 1)
  <2> HIDE DEF blocked
  <2>. QED
    BY <1>4, MovedPiece
<1>7. ~ Collide(q, b)
  <2>1. k - 1 \in 0..ROWS + 2
    BY <1>4, SizeFacts
  <2>. QED
    BY <1>4, <2>1
<1> HIDE DEF blocked, q
<1>8. /\ Moved(q, 0, 1).cells = p.cells
      /\ Moved(q, 0, 1).x = q.x + 0 /\ Moved(q, 0, 1).y = q.y + 1
  BY <1>6, MovedPiece
<1>9. /\ Moved(p, 0, k).cells = p.cells
      /\ Moved(p, 0, k).x = p.x + 0 /\ Moved(p, 0, k).y = p.y + k
  <2>1. k \in Int
    BY <1>4
  <2>. QED
    BY <2>1, MovedPiece
<1>10. Moved(q, 0, 1).x = Moved(p, 0, k).x /\ Moved(q, 0, 1).y = Moved(p, 0, k).y
  <2>1. p.x \in Int /\ p.y \in Int /\ k \in Int
    BY <1>4 DEF PieceOK
  <2>. QED
    BY <1>6, <1>8, <1>9, <2>1
<1>11. Collide(Moved(q, 0, 1), b)
  BY <1>4, <1>8, <1>9, <1>10, CollideAlike
<1>. QED
  BY <1>5, <1>6, <1>7, <1>11

LEMMA LockPiece ==
  ASSUME PInv, NEW p, PieceOK(p), ~ Collide(p, board), Lock(p)
  PROVE  /\ board' = Collapsed(Merged(p, board))
         /\ board' \in SUBSET Cells
         /\ PieceOK(current') /\ next' \in SHAPES
         /\ timers' \in 0..MaxTimers
<1>1. Merged(p, board) \in SUBSET Cells
  BY MergedType DEF PInv
<1>2. board' = ClearLines(Merged(p, board))
  BY DEF Lock
<1>3. board' = Collapsed(Merged(p, board))
  BY <1>1, <1>2, LoopCollapses
<1>4. board' \in SUBSET Cells
  BY <1>1, <1>2, ClearLinesType
<1>5. PieceOK(current') /\ next' \in SHAPES
  BY NewPiece DEF Lock, PInv
<1>6. timers' \in 0..MaxTimers
  <2>1. timers' <= MaxTimers /\ (timers' = timers + 1 \/ timers' = timers)
    BY DEF Lock
  <2>. QED
    BY <2>1, BoundFacts DEF PInv
<1>. QED
  BY <1>3, <1>4, <1>5, <1>6

LEMMA SoftDropPiece ==
  ASSUME PInv, ~ Collide(current, board), SoftDrop
  PROVE  /\ board' \in SUBSET Cells
         /\ PieceOK(current') /\ next' \in SHAPES
         /\ timers' \in 0..MaxTimers
         /\ board' # board => Lies(current) /\ board' = Collapsed(Merged(current, board))
<1>1. CASE /\ current' = Moved(current, 0, 1)
           /\ UNCHANGED <<board, next, running, gameOver, timers>>
  <2>1. PieceOK(current')
    BY <1>1, MovedPiece DEF PInv
  <2>. QED
    BY <1>1, <2>1 DEF PInv
<1>2. CASE Collide(Moved(current, 0, 1), board) /\ Lock(current)
  BY <1>2, LockPiece DEF PInv, Lies
<1>. QED
  BY <1>1, <1>2 DEF SoftDrop

LEMMA RestartPiece ==
  ASSUME PInv, NEW started, RestartAndStart(started)
  PROVE  /\ board' = {} /\ PieceOK(current') /\ next' \in SHAPES
         /\ frames' \in 0..MaxFrames
<1>1. PieceOK(current')
  BY NewPiece DEF RestartAndStart
<1>2. frames' \in 0..MaxFrames
  BY BoundFacts DEF RestartAndStart, RequestFrame, PInv
<1>. QED
  BY <1>1, <1>2 DEF RestartAndStart

(* What a callback does to the piece and the board, given that the piece   *)
(* was in play.                                                            *)
LEMMA PlayStep ==
  ASSUME GInv, PInv, [Next]_vars
  PROVE  /\ PInv'
         /\ board' \notin {board, {}} =>
              \E p \in {current, Fallen(current, board)} :
                Lies(p) /\ board' = Collapsed(Merged(p, board))
<1> DEFINE Fell == \E p \in {current, Fallen(current, board)} :
                     Lies(p) /\ board' = Collapsed(Merged(p, board))
<1>0. Playing => ~ Collide(current, board)
  BY DEF GInv, InPlay, Playing
<1>1. ASSUME NEW dx \in {-1, 1}, MoveKey(dx)
      PROVE  PInv' /\ board' = board
  <2>1. PieceOK(current')
    BY <1>1, MovedPiece DEF MoveKey, PInv
  <2>. QED
    BY <1>1, <2>1 DEF MoveKey, flags, PInv
<1>2. CASE DownKey
  <2>1. ~ Collide(current, board) /\ SoftDrop
    BY <1>0, <1>2 DEF DownKey
  <2>2. /\ board' \in SUBSET Cells
        /\ PieceOK(current') /\ next' \in SHAPES
        /\ timers' \in 0..MaxTimers
        /\ board' # board => Lies(current) /\ board' = Collapsed(Merged(current, board))
    BY <2>1, SoftDropPiece
  <2>3. frames' = frames /\ controlMode' = controlMode
    BY <1>2 DEF DownKey
  <2>. QED
    BY <2>2, <2>3 DEF PInv
<1>3. CASE RotateKey
  <2>1. PieceOK(current')
    BY <1>3, RotatedPiece DEF RotateKey, PInv
  <2>. QED
    BY <1>3, <2>1 DEF RotateKey, flags, PInv
<1>4. CASE DropKey
  <2> DEFINE p == Fallen(current, board)
  <2>1. PieceOK(p) /\ ~ Collide(p, board) /\ Collide(Moved(p, 0, 1), board)
    BY <1>0, <1>4, FallenLies DEF DropKey, PInv
  <2>2. Lock(p) /\ frames' = frames /\ controlMode' = controlMode
    BY <1>4 DEF DropKey
  <2>3. Lies(p)
    BY <2>1 DEF Lies
  <2>4. p \in {current, Fallen(current, board)}
    OBVIOUS
  <2> HIDE DEF p
  <2>5. /\ board' = Collapsed(Merged(p, board)) /\ board' \in SUBSET Cells
        /\ PieceOK(current') /\ next' \in SHAPES
        /\ timers' \in 0..MaxTimers
    BY <2>1, <2>2, LockPiece
  <2>6. PInv'
    BY <2>2, <2>5 DEF PInv
  <2>7. Fell
    BY <2>3, <2>4, <2>5
  <2>. QED
    BY <2>6, <2>7
<1>5. CASE PauseKey
  <2>1. frames' \in 0..MaxFrames
    BY <1>5, BoundFacts DEF PauseKey, RequestFrame, PInv
  <2>. QED
    BY <1>5, <2>1 DEF PauseKey, PInv
<1>6. CASE RestartKey
  <2>1. /\ board' = {} /\ PieceOK(current') /\ next' \in SHAPES
        /\ frames' \in 0..MaxFrames
    BY <1>6, RestartPiece DEF RestartKey
  <2>2. controlMode' = controlMode /\ timers' = timers
    BY <1>6 DEF RestartKey
  <2>. QED
    BY <2>1, <2>2 DEF PInv
<1>7. CASE Tick
  <2>1. CASE frames' = frames - 1 /\ UNCHANGED <<board, current, next, timers>>
    <3>1. frames' \in 0..MaxFrames
      BY <1>7, <2>1, BoundFacts DEF Tick, PInv
    <3>. QED
      BY <1>7, <2>1, <3>1 DEF Tick, PInv
  <2>2. CASE Playing /\ SoftDrop /\ frames' = frames
    <3>1. ~ Collide(current, board)
      BY <1>0, <2>2
    <3>2. /\ board' \in SUBSET Cells
          /\ PieceOK(current') /\ next' \in SHAPES
          /\ timers' \in 0..MaxTimers
          /\ board' # board => Lies(current) /\ board' = Collapsed(Merged(current, board))
      BY <2>2, <3>1, SoftDropPiece
    <3>3. controlMode' = controlMode
      BY <1>7 DEF Tick
    <3>. QED
      BY <2>2, <3>2, <3>3 DEF PInv
  <2>3. CASE frames' = frames /\ UNCHANGED <<board, current, next, timers>>
    BY <1>7, <2>3 DEF Tick, PInv
  <2>. QED
    BY <1>7, <2>1, <2>2, <2>3 DEF Tick
<1>8. CASE RestartTimer
  <2>1. /\ board' = {} /\ PieceOK(current') /\ next' \in SHAPES
        /\ frames' \in 0..MaxFrames
    BY <1>8, RestartPiece DEF RestartTimer
  <2>2. controlMode' = controlMode /\ timers' \in 0..MaxTimers
    BY <1>8, BoundFacts DEF RestartTimer, PInv
  <2>. QED
    BY <2>1, <2>2 DEF PInv
<1>9. CASE RegisterPlayer
  BY <1>9 DEF RegisterPlayer, PInv, Control
<1>10. CASE EnterRoom
  <2>1. /\ board' = {} /\ PieceOK(current') /\ next' \in SHAPES
        /\ frames' \in 0..MaxFrames
    BY <1>10, RestartPiece DEF EnterRoom
  <2>2. controlMode' = controlMode /\ timers' = timers
    BY <1>10 DEF EnterRoom
  <2>. QED
    BY <2>1, <2>2 DEF PInv
<1>11. ASSUME NEW mode \in Control, SwitchControl(mode)
       PROVE  PInv' /\ board' = board
  BY <1>11 DEF SwitchControl, PInv
<1>12. CASE UNCHANGED vars
  BY <1>12 DEF vars, PInv
<1>. QED
  BY <1>1, <1>2, <1>3, <1>4, <1>5, <1>6, <1>7, <1>8, <1>9, <1>10, <1>11, <1>12
  DEF Next

(* The filled cells stay on the board and the piece stays a turned shape,  *)
(* and no more frames or timers are due than the bounds allow.             *)
THEOREM Playable == Spec => []PInv
<1>1. Init => PInv
  BY NewPiece, BoundFacts DEF Init, PInv, Control
<1>2. GInv /\ PInv /\ [Next]_vars => PInv'
  BY PlayStep
<1>. QED
  BY <1>1, <1>2, Inductive, PTL DEF Spec

(* On any board and with any shapes that fit: the filled cells lie on the  *)
(* board, and the piece in play is one of the shapes with all its cells,   *)
(* however often it was turned (tryRotate, mergePiece, clearLines).        *)
THEOREM GameTypeOK == Spec => []TypeOK
<1>1. PieceOK(current) => /\ current.size \in 1..COLS
                          /\ current.x \in Int /\ current.y \in Int
                          /\ \E s \in SHAPES : /\ current.size = s.size
                                               /\ Cardinality(current.cells)
                                                    = Cardinality(s.cells)
  BY ShapeFacts DEF PieceOK
<1>2. GInv /\ PInv => TypeOK
  BY <1>1 DEF GInv, PInv, TypeOK
<1>. QED
  BY <1>2, Inductive, Playable, PTL

(* On any board and with any shapes that fit: the board only changes by a  *)
(* restart or by a piece that lies on the floor or on filled cells, and    *)
(* then exactly the full rows collapse (mergePiece, clearLines, hardDrop). *)
THEOREM FullRowsCollapse == Spec => RowsCollapse
<1>1. GInv /\ PInv /\ [Next]_vars =>
        [board' \notin {board, {}} =>
           \E p \in {current, Fallen(current, board)} :
             Lies(p) /\ board' = Collapsed(Merged(p, board))]_vars
  BY PlayStep
<1>. QED
  BY <1>1, Inductive, Playable, PTL DEF Spec, RowsCollapse
=============================================================================
