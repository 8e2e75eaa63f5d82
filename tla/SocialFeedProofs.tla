--------------------------- MODULE SocialFeedProofs ---------------------------
(***************************************************************************)
(* Proofs about SocialFeed: a step of the whole is a step of the receive   *)
(* loop and a step of the streams, or leaves one of them alone.  What is   *)
(* proved of the parts then holds of the whole.                            *)
(***************************************************************************)
EXTENDS SocialFeed, TLAPS

LoopP == INSTANCE SocialSubscriptionProofs

LEMMA LoopInit == Init => Sub!Init
BY DEF Init

LEMMA LoopStep == [Next]_vars => [Sub!Next]_(Sub!vars)
<1>1. ASSUME Quiet PROVE Sub!Next
  BY <1>1 DEF Quiet, Sub!Next, Sub!LoopStep
<1>2. ASSUME NEW w \in BOOLEAN, Handle(w) \/ Commit(w) PROVE Sub!Next
  BY <1>2 DEF Handle, Commit, Sub!Next, Sub!LoopStep
<1>3. ASSUME Crash PROVE Sub!Next
  BY <1>3 DEF Crash, Sub!Next
<1>4. ASSUME NEW s \in Streams, Serve(s) PROVE UNCHANGED Sub!vars
  BY <1>4 DEF Serve, loopVars, Sub!vars
<1>5. ASSUME UNCHANGED vars PROVE UNCHANGED Sub!vars
  BY <1>5 DEF vars, loopVars, Sub!vars
<1> QED BY <1>1, <1>2, <1>3, <1>4, <1>5 DEF Next

(* Whatever the streams do, the loop goes on as it would without them      *)
(* (emitEventLocked).                                                      *)
THEOREM ImplementsSubscription == Spec => Sub!Spec
BY LoopInit, LoopStep, PTL DEF Spec, Sub!Spec

(* LoopP and Sub are the same specification: what is proved of the one is  *)
(* used for the other.                                                     *)
LEMMA LoopTerms ==
  /\ LoopP!Topics = Sub!Topics /\ LoopP!Record = Sub!Record /\ LoopP!vars = Sub!vars
  /\ LoopP!Cursors = Sub!Cursors /\ LoopP!Nothing = Sub!Nothing
  /\ LoopP!Start(cursors) = Sub!Start(cursors)
BY DEF LoopP!Topics, Sub!Topics, LoopP!Record, Sub!Record, LoopP!vars, Sub!vars,
       LoopP!Cursors, Sub!Cursors, LoopP!Nothing, Sub!Nothing, LoopP!Start, Sub!Start,
       LoopP!FromOffset, Sub!FromOffset, LoopP!Present, Sub!Present

LEMMA LoopSpec == Sub!Spec => LoopP!Spec
<1>1. Sub!Init => LoopP!Init
  BY LoopTerms DEF Sub!Init, LoopP!Init
<1>2. ASSUME NEW t \in Sub!Topics
      PROVE  (Sub!Append(t) => LoopP!Append(t)) /\ (Sub!Pull(t) => LoopP!Pull(t))
  BY LoopTerms DEF Sub!Append, LoopP!Append, Sub!Pull, LoopP!Pull, Sub!ShouldProcess,
                   LoopP!ShouldProcess
<1>3. Sub!Subscribe => LoopP!Subscribe
  BY LoopTerms DEF Sub!Subscribe, LoopP!Subscribe
<1>4. ASSUME NEW w \in BOOLEAN
      PROVE  /\ Sub!HandleRecord(w) => LoopP!HandleRecord(w)
             /\ Sub!CommitCursor(w) => LoopP!CommitCursor(w)
  BY DEF Sub!HandleRecord, LoopP!HandleRecord, Sub!CommitCursor, LoopP!CommitCursor,
         Sub!Write, LoopP!Write
<1>5. (Sub!Forget => LoopP!Forget) /\ (Sub!Crash => LoopP!Crash)
  BY DEF Sub!Forget, LoopP!Forget, Sub!Crash, LoopP!Crash
<1>6. Sub!Next => LoopP!Next
  BY LoopTerms, <1>2, <1>3, <1>4, <1>5 DEF Sub!Next, LoopP!Next, Sub!LoopStep, LoopP!LoopStep
<1>7. [Sub!Next]_(Sub!vars) => [LoopP!Next]_(LoopP!vars)
  BY LoopTerms, <1>6 DEF Sub!vars, LoopP!vars
<1> QED BY <1>1, <1>7, PTL DEF Sub!Spec, LoopP!Spec

LEMMA LoopAssumption == LoopP!SubscriptionAssumption
BY FeedAssumption, LoopTerms DEF LoopP!SubscriptionAssumption, Sub!SubscriptionAssumption

LEMMA FeedLoopType == Spec => []Sub!TypeOK
<1>1. LoopP!Spec => []LoopP!TypeOK
  BY LoopAssumption, LoopP!SubscriptionTypeCorrect
<1>2. LoopP!TypeOK => Sub!TypeOK
  BY LoopTerms DEF LoopP!TypeOK, Sub!TypeOK
<1> QED BY ImplementsSubscription, LoopSpec, <1>1, <1>2, PTL

-----------------------------------------------------------------------------
LEMMA FeedStreamInit == Init => Stream!Init
BY DEF Init, Sub!Init, Stream!Init

LEMMA FeedStreamStep ==
  ASSUME Sub!TypeOK, [Next]_vars PROVE [Stream!Next]_(Stream!vars)
<1>1. ASSUME Quiet PROVE UNCHANGED Stream!vars
  BY <1>1 DEF Quiet, Sub!Append, Sub!Pull, Sub!Subscribe, Sub!Forget, Stream!vars
<1>2. ASSUME NEW w \in BOOLEAN, Handle(w) PROVE Stream!Next
  <2>1. record \in Sub!Record /\ handled' = handled \cup {record}
    BY <1>2 DEF Handle, Sub!HandleRecord, Sub!TypeOK
  <2>2. Stream!Change({record})
    BY <1>2, <2>1 DEF Handle, Sub!HandleRecord, Sub!Write, Announce, Stream!Change, Stream!Saved
  <2> QED BY <2>1, <2>2 DEF Stream!Next
<1>3. ASSUME NEW w \in BOOLEAN, Commit(w) PROVE Stream!Next
  <2>1. Stream!Change({})
    BY <1>3 DEF Commit, Sub!CommitCursor, Sub!Write, Announce, Stream!Change, Stream!Saved
  <2> QED BY <2>1 DEF Stream!Next
<1>4. ASSUME Crash PROVE Stream!Next
  BY <1>4 DEF Crash, Sub!Crash, Stream!Next, Stream!Restart
<1>5. ASSUME NEW s \in Streams, Serve(s) PROVE Stream!Next
  BY <1>5 DEF Serve, Stream!Next
<1>6. ASSUME UNCHANGED vars PROVE UNCHANGED Stream!vars
  BY <1>6 DEF vars, loopVars, Stream!vars
<1> QED BY <1>1, <1>2, <1>3, <1>4, <1>5, <1>6 DEF Next

(* The whole implements the streams over maps that change and are saved:   *)
(* every write of the file and its event are one step (saveStateLocked).   *)
THEOREM ImplementsStreams == Spec => Stream!Spec
<1>1. Sub!TypeOK /\ [Next]_vars => [Stream!Next]_(Stream!vars)
  BY FeedStreamStep
<1>2. Spec => [][Next]_vars /\ Init
  BY DEF Spec
<1> QED BY FeedLoopType, FeedStreamInit, <1>1, <1>2, PTL DEF Stream!Spec

-----------------------------------------------------------------------------
(* The streams, over any maps that change and are saved.                   *)
LEMMA StreamInitType == ASSUME Stream!CapAssumption, Stream!Init PROVE Stream!TypeOK
BY DEF Stream!Init, Stream!TypeOK, Stream!Stages, Stream!CapAssumption

(* An event keeps every channel within its slots.                          *)
LEMMA EmitType ==
  ASSUME Stream!CapAssumption, events \in [Streams -> 0..Cap], Stream!EmitEvent
  PROVE  events' \in [Streams -> 0..Cap]
BY DEF Stream!CapAssumption, Stream!EmitEvent

LEMMA StreamNextType ==
  ASSUME Stream!CapAssumption, Stream!TypeOK, [Stream!Next]_(Stream!vars)
  PROVE  Stream!TypeOK'
<1>1. ASSUME NEW C \in SUBSET Sub!Record, Stream!Change(C) PROVE Stream!TypeOK'
  <2>1. CASE Stream!Saved
    BY <1>1, <2>1, EmitType DEF Stream!Change, Stream!Saved, Stream!TypeOK
  <2>2. CASE UNCHANGED <<file.handled, stage, events, shown>>
    BY <1>1, <2>2 DEF Stream!Change, Stream!TypeOK
  <2> QED BY <1>1, <2>1, <2>2 DEF Stream!Change
<1>2. CASE Stream!Restart
  BY <1>2 DEF Stream!Restart, Stream!TypeOK, Stream!CapAssumption, Stream!Stages
<1>3. ASSUME NEW s \in Streams, Stream!StreamStep(s) PROVE Stream!TypeOK'
  <2>1. CASE Stream!Subscribe(s)
    BY <2>1 DEF Stream!Subscribe, Stream!TypeOK, Stream!Stages, Stream!CapAssumption
  <2>2. CASE Stream!TakeSnapshot(s)
    BY <2>2 DEF Stream!TakeSnapshot, Stream!TypeOK, Stream!Stages
  <2>3. CASE Stream!WriteSnapshot(s)
    BY <2>3 DEF Stream!WriteSnapshot, Stream!TypeOK, Stream!Stages
  <2>4. CASE Stream!ReceiveEvent(s)
    BY <2>4 DEF Stream!ReceiveEvent, Stream!TypeOK, Stream!Stages, Stream!CapAssumption
  <2>5. CASE Stream!Leave(s)
    BY <2>5 DEF Stream!Leave, Stream!TypeOK, Stream!Stages, Stream!CapAssumption
  <2> QED BY <1>3, <2>1, <2>2, <2>3, <2>4, <2>5 DEF Stream!StreamStep
<1>4. CASE UNCHANGED Stream!vars
  BY <1>4 DEF Stream!vars, Stream!TypeOK
<1> QED BY <1>1, <1>2, <1>3, <1>4 DEF Stream!Next

(* The maps hold what is saved; and a handler whose channel is empty, and  *)
(* that has its snapshot, has it from after the last save.                 *)
SavedIsSeen == file.handled \subseteq handled

Answered(s) ==
  stage[s] \in {"writing", "waiting"} /\ events[s] = 0 => file.handled \subseteq shown[s]

StreamInv == SavedIsSeen /\ \A s \in Streams : Answered(s)

LEMMA StreamInitInv == Stream!Init => StreamInv
BY DEF Stream!Init, StreamInv, SavedIsSeen, Answered

LEMMA StreamNextInv ==
  ASSUME Stream!CapAssumption, Stream!TypeOK, StreamInv, [Stream!Next]_(Stream!vars)
  PROVE  StreamInv'
<1>1. ASSUME NEW C \in SUBSET Sub!Record, Stream!Change(C) PROVE StreamInv'
  <2>1. CASE Stream!Saved
    <3>1. ASSUME NEW s \in Streams PROVE Answered(s)'
      <4>1. stage'[s] # "off" => events'[s] > 0
        BY <2>1 DEF Stream!Saved, Stream!EmitEvent, Stream!TypeOK, Stream!CapAssumption
      <4> QED BY <4>1 DEF Answered
    <3> QED BY <2>1, <3>1 DEF Stream!Saved, StreamInv, SavedIsSeen
  <2>2. CASE UNCHANGED <<file.handled, stage, events, shown>>
    BY <1>1, <2>2 DEF Stream!Change, StreamInv, SavedIsSeen, Answered
  <2> QED BY <1>1, <2>1, <2>2 DEF Stream!Change
<1>2. CASE Stream!Restart
  BY <1>2 DEF Stream!Restart, StreamInv, SavedIsSeen, Answered
<1>3. ASSUME NEW s \in Streams, Stream!StreamStep(s) PROVE StreamInv'
  <2>1. CASE Stream!Subscribe(s)
    BY <2>1 DEF Stream!Subscribe, Stream!TypeOK, StreamInv, SavedIsSeen, Answered
  <2>2. CASE Stream!TakeSnapshot(s)
    BY <2>2 DEF Stream!TakeSnapshot, Stream!TypeOK, StreamInv, SavedIsSeen, Answered
  <2>3. CASE Stream!WriteSnapshot(s)
    BY <2>3 DEF Stream!WriteSnapshot, Stream!TypeOK, StreamInv, SavedIsSeen, Answered
  <2>4. CASE Stream!ReceiveEvent(s)
    BY <2>4 DEF Stream!ReceiveEvent, Stream!TypeOK, StreamInv, SavedIsSeen, Answered
  <2>5. CASE Stream!Leave(s)
    BY <2>5 DEF Stream!Leave, Stream!TypeOK, StreamInv, SavedIsSeen, Answered
  <2> QED BY <1>3, <2>1, <2>2, <2>3, <2>4, <2>5 DEF Stream!StreamStep
<1>4. CASE UNCHANGED Stream!vars
  BY <1>4 DEF Stream!vars, StreamInv, SavedIsSeen, Answered
<1> QED BY <1>1, <1>2, <1>3, <1>4 DEF Stream!Next

(* Both parts are well formed at all times.                                *)
THEOREM FeedTypeCorrect == Spec => []TypeOK
<1>1. Stream!Init => Stream!TypeOK
  BY FeedAssumption, StreamInitType
<1>2. Stream!TypeOK /\ [Stream!Next]_(Stream!vars) => Stream!TypeOK'
  BY FeedAssumption, StreamNextType
<1> QED BY FeedLoopType, ImplementsStreams, <1>1, <1>2, PTL DEF TypeOK, Stream!Spec

(* Both topics are handled without a gap, with streams as without          *)
(* (ensureSubscribed, loop).                                               *)
THEOREM FeedSkipsNothing == Spec => []NothingSkipped
<1>1. LoopP!Spec => []LoopP!NothingSkipped
  BY LoopAssumption, LoopP!NoRecordSkipped
<1>2. LoopP!NothingSkipped => NothingSkipped
  BY LoopTerms DEF LoopP!NothingSkipped, NothingSkipped, Sub!NothingSkipped,
                   LoopP!Reachable, Sub!Reachable
<1> QED BY ImplementsSubscription, LoopSpec, <1>1, <1>2, PTL

(* A page is never shown an old profile of a peer after a newer one was    *)
(* handled (shouldProcess, handlePresence).                                *)
THEOREM FeedKnowsNewest == Spec => []KnownIsNewest
<1>1. LoopP!Spec => []LoopP!KnownIsNewest
  BY LoopAssumption, LoopP!NewestProfile
<1>2. LoopP!KnownIsNewest => KnownIsNewest
  BY DEF LoopP!KnownIsNewest, KnownIsNewest, Sub!KnownIsNewest
<1> QED BY ImplementsSubscription, LoopSpec, <1>1, <1>2, PTL

(* A stream at rest has sent everything that the loop saved                *)
(* (emitEventLocked, handleStream).                                        *)
THEOREM FeedStreamsCurrent == Spec => []StreamsAreCurrent
<1>1. Spec => []Stream!TypeOK
  BY FeedTypeCorrect, PTL DEF TypeOK
<1>2. Stream!TypeOK /\ StreamInv /\ [Stream!Next]_(Stream!vars) => StreamInv'
  BY FeedAssumption, StreamNextInv
<1>3. StreamInv => StreamsAreCurrent
  BY DEF StreamInv, Answered, StreamsAreCurrent, Stream!StreamsAreCurrent
<1> QED BY ImplementsStreams, StreamInitInv, <1>1, <1>2, <1>3, PTL DEF Stream!Spec
=============================================================================
