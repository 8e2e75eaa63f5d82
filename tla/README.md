# A verification project for Assembler-Apps

TLA+ models of the application layer in this repository: what each part does,
model-checked with TLC on small instances, and proved with TLAPS for every
instance where a proof is within the prover's reach.

Contents: 1 the system, 2 the plan, 3 the modules, 4 the runs, 5 fairness and
assumptions, 6 the proofs, 7 disagreements between code and documentation,
8 what is not modelled.

## 1. The system

The repository holds the applications that run on top of an Assembler *service*
node. The service itself is not here: an application talks to it over a local
RPC socket (publish, subscribe, pull, ack), or, in the tetris server, over a
publish/subscribe network with an in-memory and a libp2p back end.

| Part | Source | State | Operations |
|---|---|---|---|
| social manager | `internal/social/manager.go` | profile, identity keys, known users, friend requests, friends, messages, used invite nonces, a cursor per topic (all in `state.json`, the keys in `identity.json` or `identity.enc.json`); `seenMessageIDs` and event listeners in memory only | wallet login, init, unlock, update profile, friend request (direct and by invite), respond, direct message, read views, event subscription, receive loop, presence ticker |
| social HTTP API | `internal/socialapi/server.go` | none | one handler per manager operation, server-sent events |
| service RPC client | `internal/localrpcclient/client.go` | none | one connection per call, no deadline |
| tetris room manager | `internal/tetrisroom/manager.go` | the local players, offers of remote ones, rooms, newest snapshot per room and player, a room counter; nothing on disk | register, upsert, ready, match, toggle control, submit input, consume the players topic and the rooms topic |
| network back ends | `internal/core/network/*.go` | subscriptions with 64 slots each, libp2p topics | publish, subscribe; an event for a full subscriber is dropped |
| tetris HTTP API | `internal/tetrisapi/server.go` | none | one handler per room operation, room stream |
| local tetris server | `internal/localtetrisapi/server.go` | one seat, one room, a snapshot per player, the channels of its streams | register, ready, control, input, stream |
| contact registry | `contracts/AssemblerRegistry.sol` | owner; bootnodes, contacts and join requests with lists, positions and flags | upsert / remove bootnode, add / remove contact, submit / approve / reject / cancel request, listings |
| front ends | `apps/*/web/*.html` | the tetris engine, sessions, timers and polls | browser code |
| wiring | `cmd/apps-web/main.go` | none | starts the social manager and a file server |

How they interact. HTTP handlers and the receive loop of the social manager
share its maps under `m.mu`; handlers that publish hold `m.mu` across the RPC
call and save afterwards. Two managers meet only in the logs of their inbox
topics. Tetris nodes meet only in the two topics they all consume, their own
events included; the HTTP clients of one node (page and agent) call the same
manager concurrently. The contract is called by any account, one transaction
at a time.

Where it is hard, and what has to be true there (the list with lines is
`hazards` in `PROJECT.json`):

* **Social.** Effects, cursor and file are written in separate critical
  sections and a crash may fall between any two: no record whose offset is
  committed may be lost, the file may never go back, an answer that was saved
  must stand, a redelivered message may not be stored again within one life of
  the process, what reaches the log must be handled in the end, and all of it
  must amount to a friend-request protocol.
* **Subscription and streams.** Two topics are numbered on their own but share
  one FromOffset, events of a full listener are dropped, and a page may stop
  reading: no record may be skipped, none may be handled again out of order, and
  a page must be shown the newest state without ever holding up the loop.
* **Identity.** Two files are written one after the other, errors of reading
  them are ignored, and there are two ways in: profile and keys must stay
  together, a saved profile must have saved keys, the user must keep its id, and
  a live process must not change its user or its keys.
* **Tetris rooms.** Every node ranks the offers it happens to know and one of
  the two players' nodes alone makes the room: owners must not contradict
  themselves, two players who think they are together must be, ready players
  must be paired, and a snapshot must not be different at the two nodes for
  ever. The network may lose and reorder events.
* **Tetris page.** Keys, animation frames, a restart timer that is never
  cancelled and late answers of the server all change one game: the piece in
  play must not overlap, full rows must go and no other, a game in play must
  always have a frame requested, and a game lost in agent mode must run again.
* **Local tetris.** A publish sends to channels under a read lock that a stream
  which ends must get past, and anybody may take the seat of a running game:
  nothing may be sent into a closed channel, nobody may wait for ever, and the
  snapshots must be of the player who has the seat.
* **Registry.** Removal moves the last element, requests close in three ways and
  `removeContact` interferes with them: lists, positions, flags, pending entries
  and statuses must stay consistent over any sequence of transactions.

## 2. The plan

Modules are written in the order of how much of the system's behaviour depends
on them; each has its constants with named assumptions, one action per
operation, invariants as named conjuncts and no RECURSIVE operator, so that it
can be proved about as well as checked.

Done:

1. `Social`, with the abstract `FriendRequests` it implements, and `SocialProofs`.
2. `SocialIdentity`.
3. `TetrisRoom`.
4. `AssemblerRegistry`, with the abstract `ContactBook` it implements, and
   `RegistryProofs`.
5. `TetrisGame`, the game of the tetris page, and `GameProofs`.
6. `SocialSubscription` (the receive loop over both topics) and `SocialStream`
   (listeners and event streams); `SocialFeed`, which composes them, implements
   both by theorem, and carries their properties. `SocialSubscriptionProofs` and
   `SocialFeedProofs`.
7. `LocalTetris` and `LocalTetrisProofs`.
8. `SocialIdentityProofs` and `TetrisRoomProofs`.
9. SeatedTogether of `TetrisRoom` as a theorem for two nodes; the refinement
   Social => FriendRequests as a theorem for MaxRestarts = 0; what clearLines
   computes, for every board (`GameProofs`).

Next, in this order:

10. `TetrisSession` (`apps/tetris-web/web/tetris.html`): registration, polls and
   clicks as interleaved callbacks with their awaits, composed with what they do
   to the game (`RegisterPlayer`, `EnterRoom`, `SwitchControl` of `TetrisGame`);
   run with two registrations and late answers.
11. The presence announcers of the social manager (presenceTicker,
   publishPresence, refreshNodeStatus), with the torn read of the profile.
12. The registry's closed-request lemmas for the whole history.

## 3. The modules

### Social

One process per user. `mem[u]` is what the maps of `u`'s `Manager` hold,
`disk[u]` what `state.json` holds, `seen[u]` is `seenMessageIDs`. A handler is
split at the points where another actor can come between or where a crash
matters: the check and the publish with `m.mu` held (`RequestFriend`, `Respond`,
`SendDirectMessage`, ... leave `lock[u] = "saving"`), then the save (`Save` or
its failure). The receive loop is `Subscribe`, then `ProcessRecord` or
`HandlePresence` (which handle and save) and `CommitCursor`. `Subscribe` starts
the presence and the inbox topic at one `FromOffset`, the least cursor in the
map, so that an inbox without a cursor starts where presence is: `skipped[u]`
remembers up to where. `SaveState` may fail, and `os.WriteFile` truncates first:
the file is then as it was or `torn`, and a process that starts on a torn file
has no profile and does nothing more for this user (`lost`; the next login makes
another user id, as SocialIdentity shows). `inbox[u]` is the log of `u`'s inbox topic; the
service appends an accepted envelope up to `MaxCopies` times, at any time, in any
order, or never. `Restart` loads the file and forgets `seen`. Requests, messages
and invites are ids with sender and receiver; what they say is left out.

A presence record may say anything of any other user, and there are at most
`MaxPresence` of them.

`FriendRequests` is the abstract promise: requests are asked, answered once by
the addressee, learned by the asker, and a friend is somebody whose request was
answered with yes. `ImplementsFriendRequests` maps the two managers to it.

### SocialSubscription

The receive loop once more, this time with all its topics and with the
subscription it holds at the service, while what a record says is reduced to
whether the maps include it. `log[t]` is how many records topic `t` has,
`handled` and `known` are what the maps include, `cursors` is `m.cursors`, `file`
is what `state.json` has of these. `Subscribe` is ensureSubscribed: `FromOffset` is
the least cursor in the map, and whether the service takes it for the last record
known or for the first one wanted is its own choice (`repeats`), made once.
A save may fail and leaves the file as it was; a torn file, which ends the user, is in
Social and SocialIdentity.
`Pull` hands over the next record of a topic and applies shouldProcess;
`HandleRecord` and `CommitCursor` are the two critical sections, each with its
save. `Crash` loads the file, `Forget` is a restart of the service, after which
Pull fails, as subscriptionID is never reset. `blind[t]` remembers up to where
the service was told to skip `t` although the loop had no cursor for it
(section 7).

### SocialStream

`stage[s]` says where the handler of a page's event stream is: subscribed,
writing a snapshot, waiting for an event, or woken by one. `EmitEvent` is
emitEventLocked, which drops the event where the channel is full; `Saved` is a
save that succeeded. Snapshot and write are two steps, since the maps may change
and events may come in between. `view` is the set of changes that the maps
include, `saved` what the file includes, `shown[s]` what the last snapshot sent
to `s` included.

### SocialFeed

The two together: the records handled are the changes, a save of the loop emits
an event in the same critical section, and a crash ends every stream.

### LocalTetris

The store under its RWMutex. A section under Lock is one action and waits for
`LockFree`; `publish` holds RLock from `BeginPublish` to `EndPublish` and sends to
one channel per step, in any order. The deferred function of handleRoomStream
is `CloseStream`, which needs Lock. `modes` remembers the control modes the seat
has had since it was taken. Requests that are refused or only read change
nothing and are left out.

### SocialIdentity

One manager, three files, one write per step. `pc` says which write the handler
inside `m.mu` has come to. A crash may fall between any two writes; with
`WritesTear` it leaves the file being written truncated, with `WritesFail` a
write may return an error, and each handler does with the error what the code
does. `Started` is startLoopLocked with its guard. `ways` says which ways in
(wallet, passphrase) are used with the data directory and `harm` remembers that
a write has failed or was torn. What each property asks of these is as little as
the code allows (section 7 says what happens beyond): SignsAsOne nothing,
ProfileHasKeys that no write returned an error, SameUser also that there is one
way in, OneUser that the writes were whole.

### TetrisRoom

One player per node, named by the node. `playerQ[n][f]` and `roomQ[n][f]` hold
what `n` has still to consume of `f`'s events on the two topics: publishers
merge in any order, without `Ordered` the events of one publisher may also
overtake each other (libp2p promises no order; the in-memory network keeps that
in which it sends), and with `Lossy` any receiver may miss an event. `TryMatch` is tryMatchLocked with everything it does: rank,
decide who makes the room, make it, seat the own player, drop the offers,
publish. It is part of SetReady and of consuming a player event, as in the code.
SubmitInput is several steps (check, store, and a send to each subscriber)
because the code unlocks between them and publishes without `m.mu`: the events
of two clients of a node may reach two subscribers in different orders. What is
published under `m.mu` is one step, since no other publication of the node can
come in between and each subscriber takes it when it likes. `Restart` forgets everything: nothing is on disk.

The topic of a single room only feeds HTTP streams. `control_switch_applied` and
inputs other than `state_sync` change no node and are left out.

### TetrisGame

One action per callback of the page: a key, `Tick` (an animation frame),
`RestartTimer` (the timeout that spawnPiece sets in agent mode), and what the
session does to the game when an answer of the server arrives (`RegisterPlayer`,
`EnterRoom`, `SwitchControl`), which may be at any time. The board and a piece's
matrix are sets of filled cells; `frames` and `timers` count what the browser
still owes. `ClearFrom` is the loop of clearLines with its splices, a function of
the row and the board the loop is at, which `Collapsed` defines anew as what the result should be; `Lock` is mergePiece,
clearLines and spawnPiece, and part of every action that locks. Colours, score
and speed are left out: a frame moves the piece or does not. The handler of the
room stream is left out because no event reaches it (section 7).

### AssemblerRegistry

One action per transaction, its `require`s and reverts as guards. Positions are
counted from 1 as in the contract, where 0 means absent; `SwapPop` and
`PoppedPos` are the removal by moving the last element. `ContactBook` is the
abstract promise: a set of members, a directory of bootnodes, and requests whose
verdict is given once.

### MC modules

`MCSocial`, `MCSocialIdentity`, `MCTetrisRoom` and `MCTetrisGame` only name values for
constants that a cfg cannot write. Each module also holds, marked *Variant*,
alternative forms of some definitions: the mistakes that the checks are known to
find.

## 4. The runs

| Run | Instance | Shows |
|---|---|---|
| social_crash | a asks and writes to b, each envelope up to twice, failed publishes, one crash of b | TypeOK, OneCopyPerLife, DecisionStands |
| social_agreement | requests both ways, an invite of b, publishes may fail, no crash | ImplementsFriendRequests |
| social_delivery | b asks a, a answers and writes to b, a presence record, two crashes of b, b's saves may fail or tear, fair | CommittedIsDurable, FileOnlyGrows, InboxDrains, AcceptanceLands |
| social_feed | two topics of three records, one crash, a service that forgets once, failed saves, one page whose channel has one slot, fair | TypeOK, NothingSkipped, KnownIsNewest, StreamsAreCurrent, FeedDrains, StreamShows |
| identity_crash | two wallets, three identities, three restarts, every combination of ways in, failed and torn writes | TypeOK, SameUser, ProfileHasKeys, OneUser, SignsAsOne |
| tetris_restarts | two nodes, two versions, two pings, lost and reordered events, one restart each | SeatedIsSettled, SeatedTogether |
| tetris_three | three nodes, two pings, every order of all events | OwnersAgree |
| tetris_converge | two nodes, nothing lost, ordered: node 1 readies twice, with a ping below or above that of node 2, switches control and submits two snapshots, node 2 readies, fair | TypeOK, PairsUp, SnapshotsConverge |
| tetris_game | a board of 3 rows and 4 columns, the shapes I and S, two frames, two timers, fair | TypeOK, InPlay, FrameDue, RowsCollapse, KeptAlive |
| local_tetris | two players, two requests at a time, two streams with two slots, fair | TypeOK, SeatOwnsStates, SendersSafe, HandlersReturn |
| registry_contract | three accounts, two bootnodes, two requests | TypeOK, ListsAgree, PendingIsOpen, OpenIsUnreviewed, ImplementsBook, ClosedIsFinal |
| registry_two_open | two accounts, two requests | violates OneOpenRequest |

Why these bounds. *Social*: a message or a request involves two users, and the
code treats every pair alike; one request and one message are enough for each
crash window, and a second copy for each redelivery. Crossing requests are in
social_agreement, where crashes are left out because a crash breaks the abstract
protocol (section 7). `Crashing` and `SaveMayFail` name the one user whose
process is under test, the receiver of what the properties are about: one crash
puts each of its steps before, between and after two lives; the second one of
social_delivery falls on a life that has started from an older file. One
presence record gives the presence topic a cursor before the inbox has one. What
holds for any number of crashes, of any users, is proved (section 6). *Feed*: three records per
topic let one topic be two ahead of the other, so that the shared FromOffset
delivers again a record that is not the last; one slot is the smallest channel
that can be full, and one page is enough, since streams never meet. *Identity*: three
restarts separate the login, a failing second one and what is loaded afterwards;
the third identity shows that a user may change twice. *Tetris*: three nodes are
the smallest number where two can be matched while one has an old view; two
snapshots are the smallest number that can be swapped. The constant `Bounds` says
how often each node takes each operation; in tetris_converge node 1 plays and
node 2 watches, which is enough, since a node's snapshots travel one way, and
the pings of node 1 (`AroundPing`) let either node make the room.
*Local tetris*: two requests and two streams give a publish that overtakes
another, and one that meets a stream which is ending; two slots let a channel be
part full. *Game*: two rows can be
full at once and a third is left to fall; S covers part of two rows, I fills one
alone and, turned, stands out at the top; two frames let loops add up and two
timers let a second loss come before the first restart. A lock or a request
beyond the bounds is not taken. *Registry*: three
accounts and two bootnodes give removal of the first, the last and the only
element, and an owner, a reviewer and an applicant; two requests let an
applicant return. Larger lists are covered by the proofs.

Deadlock is not checked where every bound can be used up: then only the bounds
stop the model. The runs of the registry, of the feed and of the local server
check it.

SeatedTogether holds for two nodes that do not restart, and for no more: see
section 7. OneCopyPerLife is as strong as the code is: after a restart a
redelivered message is stored again.

## 5. Fairness and assumptions

* `Social`: weak fairness of subscribing, of handling an inbox record, of the
  commit and of a handler's save. The loop is `for {}` with a pause of two seconds after any error, and a
  handler that published goes on to save, which may fail. Nothing is assumed of users, of
  crashes, of the service's delivery or of presence. That an RPC call returns is
  an assumption (it has no deadline).
* `TetrisRoom`: weak fairness of the steps of a running SubmitInput, for each
  client, and of each of the two consumer goroutines, which take the next event
  of whichever publisher. Clients call when they like.
* `SocialFeed`: weak fairness of Subscribe, Pull and of the handling and the commit
  of a record with a save that succeeds, since the loop tries again after every
  error and a disk does not fail for ever; of the snapshots and the receiving of
  a stream, which wait for nobody. None of a write to a page, which may stop
  reading, and none of a page opening a stream. The service delivers each topic
  in order; nothing is assumed of the order between topics.
* `LocalTetris`: weak fairness of the steps of a publish, strong fairness of
  closing a stream, since a pending Lock of a Go RWMutex holds back later RLocks.
  Nobody has to read a stream, and no request has to come.
* `TetrisGame`: weak fairness of `Tick` and `RestartTimer`, since the browser runs
  the frames and timeouts it was asked for. Nobody has to press a key, and no
  answer has to arrive.
* Every client runs this program: a response is sent by the user it names and
  to who asked. handleSecure does not enforce it (section 7). Ids made from `time.UnixNano` are unique.
* Requests of strangers are always let in: `normalizeSettings` sets
  AllowStrangerRequests whatever the caller asked for.
* The network of tetris_converge loses nothing and keeps the order in which a
  publisher sent to each subscriber, as the in-memory one does while no buffer
  is full; nothing of the kind is assumed by the other runs and by the theorems.

## 6. The proofs

TLAPS checks every theorem from its leaves, for all values of the constants that
satisfy the named assumptions.

**`SocialProofs`.** The inductive invariant `IInv` (in `Social`) is needed
because none of the properties is inductive. CommittedIsDurable says that a
committed record had its effect, in memory and in the last whole file, except
those the subscription was told to skip; a step that commits must know that the
record is the one after the cursor or after what was skipped (`FromSound`) and
that it was handled (`CursorSound`: what is being committed was seen;
`SeenApplied`: what was seen has had its effect in memory). FileOnlyGrows and
DecisionStands are action properties; a save must know that the last whole file
is an earlier state of memory with the same answers (`DiskBehind`), which holds
of a torn file too and ends with a process that starts on one: it has nothing in
memory but does not save either. That a redelivered request does not reopen an
answered one needs only that its id is still in the map, and that requests
which wait really were sent (`PendingSound`, `AnswersAsked`, `LogSound`).
OneCopyPerLife needs to count a copy per earlier life and one more if the
message was seen in this one (`CopiesCounted`). The proof has one step per
action; the lemmas about what each handler leaves in the maps (`Applied` and
`Extends` are preserved) come first.

The refinement (`Implements`) is proved for processes that do not crash, since a
crash takes back decisions that were told to others (section 7). It rests on
`Agreed` (`Agreement`), which TLC checked on the run's instance before: who has a
request on its side has sent it; what the asker takes for decided the addressee
has decided so, and the friend is then listed; and every answer that was ever
sent says what the addressee's map still says. Each
action of Social is then shown to be a step of FriendRequests about the one
request it handles, or a stutter; of all other requests and of all other pairs
nothing changes (`OnlyAbout`, `Idle`).
Theorems: TypeCorrect, Inductive, Durable, CopiesBounded, FileGrows, AnswersKept,
Agreement, Implements.

**`RegistryProofs`.** The inductive invariant is TypeOK, ListsAgree,
PendingIsOpen and OpenIsUnreviewed together. The central lemma is that moving
the last element into the gap keeps list and positions in agreement, wherever
the gap is, the last place included. ClosedIsFinal is proved from it, and
`Implements` shows that the contract implements ContactBook: initial states map
to initial states and every transaction to a step or a stutter.
Theorems: Inductive, TypeCorrect, ListsCorrect, PendingCorrect, ReviewsCorrect,
ClosedStaysClosed, Implements.

**`GameProofs`.** For every board and every set of shapes that are no wider than
the board and at most one row higher: the piece in play fits (InPlay), and a
game in play has a frame due (FrameDue). InPlay is proved without knowing what
clearLines computes: a turn is only kept at a kick where it fits, an empty board
has room at the top for every shape, and spawnPiece looks at the board it is
given. FrameDue needs that tick gives up its frame only in a game that is not
played, and that a game is resumed or started only together with a request.

The others need to know what clearLines computes. Its loop is the recursive
function `ClearFrom`, which stays at a row as long as it is full, so that it is
not plainly a recursion over the rows. `CollapsedFrom` gives the result of
the loop from row y on directly: every cell falls by the number of full rows
between it and y. It satisfies the equation of the loop (`CollapsedClears`): at a
row that is not full nothing falls for it, at a full one the splice takes one row
out below everything that is over it (`SplicedRowsBelow`). And the equation has
one solution (`OneSolution`): of the states in which two solutions differ take
one with the lowest y and, of those, one whose uppermost filled row lies lowest;
a step of the loop leads to one that is lower still. `LoopCollapses` follows, for
every board. This is well-founded induction by a least counterexample (`LeastNat`),
which the provers can do without instantiating an operator.

TypeOK and RowsCollapse rest on `PInv`, which keeps of the piece that it has the
cells of a shape, as many of them within the shape's square (`TurnedCells`: a
turn is a bijection), and was never above the row it came in at. A hard
drop then always meets something (`FallenLies`): a piece that fits comes to lie
where it fits and cannot go on.
Theorems: Inductive, PieceInPlay, LoopNeverLost, LoopCollapses, Playable,
GameTypeOK, FullRowsCollapse.

**`SocialSubscriptionProofs`.** `SubInv` says, of the memory and of the file alike
(`Sound`), that no handled record lies beyond the front (the cursor and the
record after it, or what was skipped blindly), that none at or before the cursor
is missing, and that `known` is the newest presence record handled; and of a live
subscription, that the next offset is right behind the front unless records are
being delivered again (`PlaceOf`, `PlaceOfRecord`). `FromOffsetIsLeast` is the
lemma about ensureSubscribed that this rests on. The file must be sound by
itself because a crash makes it the memory.
Theorems: SubscriptionTypeCorrect, NoRecordSkipped, NewestProfile.

**`SocialFeedProofs`.** `ImplementsSubscription` and `ImplementsStreams`: every step of
the whole is a step of the part or leaves it alone. The invariants of the parts
then hold of the whole: those of the loop are the theorems of
SocialSubscriptionProofs; those of the streams are proved here, for any maps that
change and are saved. `StreamInv` says that what is saved is in the maps, and
that a handler that has taken its snapshot and has an empty channel took it after
the last save. It is inductive because a listener is registered before the first
snapshot and an event is dropped only where another one waits.
Theorems: ImplementsSubscription, ImplementsStreams, FeedTypeCorrect,
FeedSkipsNothing, FeedKnowsNewest, FeedStreamsCurrent.

**`SocialIdentityProofs`.** TypeOK needs `Ready`: whoever is about to write a file has
in memory what it writes; with `LoopReady`, that a loop which runs has a profile
and keys, it gives SignsAsOne, whatever fails and however the ways in are mixed.
The other three follow from `WholeInv`, whose parts hold as long as no write has
returned an error. `FilesAgree`: keys are written before the profile, so that a
profile in state.json is the one in memory and its keys are in one of the key
files, and a profile that still waits for its keys is not in state.json.
`OneKeyFile` and `Paired`: with one way in the other key file is never there, so
that what is loaded are the profile's own keys. `ShownAgree`: while the files are
whole, the ids returned are that of state.json.
Theorems: IdentityTypeCorrect, LiveUserFixed, NeverMixed, KeysAreSaved, UserKeepsId.

**`TetrisRoomProofs`.** For any number of nodes, events lost and
reordered in any way. TypeOK needs `Heard`: the queue of a publisher holds offers of its own
player only, and a node without a player has none of its own to hear, so that the
offers of others never include the local player. From this, tryMatchLocked makes
a room only for a player without one (`MatchIsOwn`), and the node that makes it
is the lowest of its members (`MatchOwner`). SeatedIsSettled is then inductive.
`RoomsInv` is about owners in their first life (a manager counts from room_1 again
after a restart): the owner of every room that is known or on its way has counted
it, two such rooms of one owner are one, and a node that has counted a room
has its player seated, so that it never makes a second one. OwnersAgree follows
for nodes that are not started again (`NoRestarts`).

SeatedTogether, which is about nodes in their first life, is proved for two nodes,
whatever is lost and whatever is reordered. `PairsInv` says
that a node holds one offer of each other player, so that every room that is
known or on its way is of two different players (`Paired`); with two nodes each of
them is in every room and all rooms have one owner, so that by RoomsInv two seats
of one id are the same room. With three nodes it is false (section 7).
Theorems: RoomTypeCorrect, SeatsSettled, OneRoomInFirstLife, OwnersNeverDisagree,
RoomsPair, PlayersSeatedTogether.

**`LocalTetrisProofs`.** `LInv` adds to SeatOwnsStates and SendersSafe that the control
mode of the seat is one it has had, and that only a request that holds the read
lock has channels to send to.
Theorems: LocalTypeCorrect, SeatOwns, NoSendOnClosed.

Every invariant and action property of a passing run is a theorem. Only
model-checked are the liveness properties (AcceptanceLands and InboxDrains,
FeedDrains and StreamShows, PairsUp and SnapshotsConverge, KeptAlive,
HandlersReturn): liveness under fairness and ENABLED are outside the prover's
reach. ImplementsFriendRequests is a safety specification and is proved.

## 7. Where the code and what is said of it disagree

Shown by a run:

* **Two open requests** (registry_two_open). `removeContact`
  (AssemblerRegistry.sol:327) clears the pending entry but leaves the request
  open. An applicant who was added directly while pending, then removed, may
  apply again and has two open requests, which `AlreadyPending` (:194) is there
  to prevent.

Met while modelling; each is a behaviour of the model, but no run is spent on it:

* A crash between the publish of an answer and the save (manager.go:420-423)
  loads the request as pending again; it can then be answered the other way,
  although `:399` refuses requests already handled. (Social, one restart.)
* handleSecure verifies an envelope with the key that the envelope carries
  (manager.go:1200, :1222). It does not look up whether that key is
  from_user_id's, nor, for a response (:1267-1278), whether its request exists
  or was sent to that user, and adds the friend in any case. That only who was
  asked becomes a friend by accepting therefore rests on every client running
  this program; no property claims it of others. (Outside the models.)
* RespondFriendRequest decides and adds the friend before it looks the sender up
  (:402-411). Accepting a request by invite before the asker's presence arrived
  returns "request sender not discovered", publishes nothing, and every retry
  says "request already handled". (Social, an invite, nothing failing.)
* A wallet login that crashed between the two files, then an init with a
  passphrase: after the next restart the profile has the keys of another user,
  since identity.json is loaded first. (SocialIdentity with both ways in;
  SameUser exempts it. The right keys are still in a file, ProfileHasKeys.)
* `os.WriteFile` truncates first, and NewManager ignores the error of loading
  state.json: after a crash during a save the next login makes a new user, where
  manager_test.go:200 expects a persistent user id. (SocialIdentity, WritesTear; OneUser
  exempts it.) Friends, messages and cursors of the old user are no longer
  loaded either. (Social, `lost`.)
* A failed write of identity.json leaves a profile in memory that a later call
  saves; after a restart it has no keys. (SocialIdentity, WritesFail;
  ProfileHasKeys exempts it.)
* A topic that has no cursor yet starts where the other one is
  (manager.go:1058): a node that has handled presence records up to n, and
  crashes before its first envelope, asks for its inbox from n on; where the
  service counts topics by themselves, the first n envelopes are never handled.
  (SocialSubscription, `blind`, and Social, `skipped`; NothingSkipped and
  FeedDrains, CommittedIsDurable, InboxDrains and AcceptanceLands exempt exactly
  these.)
* subscriptionID is never reset (manager.go:1053): after the service has
  restarted and forgotten it, Pull fails until the process is started again.
  (SocialSubscription, Forget.)
* A record with offset 0 is never handled, since shouldProcess compares with the
  0 of a missing cursor; the model lets the service count from 1.
* commitCursor acknowledges a record also when the save of the cursor failed. A
  service that forgets what was acknowledged then has nothing to deliver to the
  process after a crash; the model's service keeps its log.
* What is in memory but could not be saved is not shown on a stream before the
  next save that succeeds. (SocialStream, Change.)
* The social page applies the answer of `GET /state` whenever it arrives
  (social-web/web/index.html:868), so that an older snapshot may replace that of
  a newer event until the next one.
* Local tetris: two switches, or a switch and an input, may be published in the
  opposite order of their effect (localtetrisapi/server.go:279-280, 329-331). A
  second registration takes the seat of a game that runs, which the comment at
  :137 intends. The page waits with `onmessage` here too.
* SubmitInput checks the control mode and unlocks (tetrisroom/manager.go:345): an
  input accepted before a switch may be stored and published after it.
* Two snapshots of a node published at the same time, one by the page and one by
  the agent: nothing orders the two publications (tetrisroom/manager.go:353-358
  without `m.mu`, core/network/memory.go:19-27 under a read lock), so that two
  nodes, which keep the last one they receive, differ until the next snapshot.
  (TetrisRoom; SnapshotsConverge without its hypothesis is violated, also where
  the network is ordered.)
* Three tetris nodes: a node with an old view makes a room with a player that is
  taken. Since every manager numbers from 1, the rooms have the same id: two
  players then hold different rooms of one id, or a seated player is no member
  of its room. The same after a restart of one of two nodes. (TetrisRoom, three
  nodes or one restart.)
* `player_ready` is published once; a node that starts later never learns of the
  player, and if it has the lower id both wait for ever. (TetrisRoom, one
  restart, fair.)
* Control given back: a node consumes the `room_assigned` it published itself,
  which sets the control mode to human (tetrisroom/manager.go:462), also when the
  player has switched to the agent in the meantime. The agent's input is then
  refused, where the test (manager_test.go:66) says it should pass after the
  switch. (TetrisRoom, two nodes, one switch.)
* The page waits for the stream with `onmessage` (tetris.html:1084) while the
  server names its events `room` (tetrisapi/server.go:235), so that no event
  reaches the handler: the agent's moves never reach the game.
* Entering a room when the game was started before (Ready clicked again, the
  server answers "already in room", restoreExistingRoom) restarts the game and
  leaves it stopped, since startGame does nothing (tetris.html:739); the status
  says that it runs. (TetrisGame, EnterRoom with gameStarted.)
* The restart timer is not cancelled: a user who takes back control and restarts
  within its 800 ms loses the new game. A game that was lost in human mode and
  then given to the agent is never revived. (TetrisGame.)
* A restart of a running game requests a frame while one is pending, so that two
  loops run; the game is not faster for it, since both measure the time since
  the last of them. (TetrisGame, two frames.)

## 8. Not modelled

* Read views, listings, formatting, hex and JSON, notes and timestamps.
* The HTTP APIs beyond the calls they make; the streams that only read.
* The presence announcers (presenceTicker, publishPresence, refreshNodeStatus):
  they read the profile and call the service. publishPresence reads it after
  RUnlock (manager.go:589), a data race with UpdateProfile that the models do not
  show.
* An RPC call that never returns: it has no deadline, and handlers make it with
  `m.mu` held, so that everything would stop.
* Clocks: ids and invite nonces made from `time.UnixNano` are taken to be unique.
* The room stream of the tetris API (tetrisapi/server.go:234), which would spin on
  a closed subscription.
* The session of the tetris page (plan, 10); of the game its score, levels and
  drawing. The other pages are forms over the APIs; the poker page has no server.
* Host setup, bootstrap and relays of the libp2p back end; key derivation and
  encryption.
