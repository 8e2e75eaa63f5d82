----------------------- MODULE SocialSubscriptionProofs -----------------------
(***************************************************************************)
(* Proofs about SocialSubscription, for any number of records, of crashes  *)
(* and of restarts of the service: the loop skips nothing it was not told  *)
(* to skip, and no old profile of a peer replaces a newer one.             *)
(***************************************************************************)
EXTENDS SocialSubscription, TLAPS

(* How far a topic t can have been handled where the cursors are c: one    *)
(* record beyond its cursor, or, without one, up to where a subscription   *)
(* starts for the sake of the other topic.                                 *)
Other(t) == IF t = Presence THEN Inbox ELSE Presence

After(x) == IF repeats /\ x > 0 THEN x ELSE x + 1

Front(c, t) == IF c[t] > 0 THEN c[t] + 1 ELSE After(c[Other(t)])

LEMMA TopicPair ==
  ASSUME SubscriptionAssumption, NEW t \in Topics
  PROVE  /\ Other(t) \in Topics /\ Other(t) # t /\ Other(Other(t)) = t
         /\ \A u \in Topics : u = t \/ u = Other(t)
BY DEF SubscriptionAssumption, Topics, Other

(* FromOffset is the cursor of one of the topics, and no greater than that *)
(* of the other if there is one.                                           *)
LEMMA FromOffsetIsLeast ==
  ASSUME SubscriptionAssumption, NEW c \in Cursors
  PROVE  /\ FromOffset(c) \in 0..MaxRecords
         /\ \A t \in Topics : c[t] > 0 => FromOffset(c) > 0 /\ FromOffset(c) <= c[t]
         /\ \A t \in Topics : c[t] = 0 => FromOffset(c) = c[Other(t)]
<1>1. MaxRecords \in Nat /\ \A t \in Topics : c[t] \in 0..MaxRecords
  BY DEF SubscriptionAssumption, Cursors
<1>2. CASE Present(c) = {}
  <2>1. \A t \in Topics : c[t] = 0
    BY <1>2 DEF Present
  <2> QED BY <1>1, <1>2, <2>1, TopicPair DEF FromOffset
<1>3. CASE Present(c) # {}
  <2>1. Present(c) = {c[Presence], c[Inbox]} \ {0}
    BY DEF Present, Topics
  <2>2. c[Presence] \in 0..MaxRecords /\ c[Inbox] \in 0..MaxRecords
    BY <1>1 DEF Topics
  <2>3. \E o \in Present(c) : \A q \in Present(c) : o <= q
    BY <1>1, <1>3, <2>1, <2>2
  <2>4. FromOffset(c) \in Present(c) /\ \A q \in Present(c) : FromOffset(c) <= q
    BY <1>3, <2>3 DEF FromOffset
  <2>5. ASSUME NEW t \in Topics, c[t] > 0
        PROVE  FromOffset(c) > 0 /\ FromOffset(c) <= c[t]
    <3>1. c[t] \in Present(c)
      BY <2>5 DEF Present
    <3> QED BY <1>1, <2>1, <2>2, <2>4, <3>1
  <2>6. ASSUME NEW t \in Topics, c[t] = 0 PROVE FromOffset(c) = c[Other(t)]
    <3>1. Present(c) = {c[t], c[Other(t)]} \ {0}
      BY TopicPair DEF Present
    <3> QED BY <2>4, <2>6, <3>1
  <2> QED BY <2>1, <2>2, <2>4, <2>5, <2>6
<1> QED BY <1>2, <1>3

LEMMA StartBounds ==
  ASSUME SubscriptionAssumption, NEW c \in Cursors, repeats \in BOOLEAN
  PROVE  /\ Start(c) \in 1..(MaxRecords + 1)
         /\ \A t \in Topics : c[t] > 0 => Start(c) <= c[t] + 1
         /\ \A t \in Topics : c[t] = 0 => Start(c) = Front(c, t)
<1>1. MaxRecords \in Nat /\ \A t \in Topics : c[t] \in 0..MaxRecords
  BY DEF SubscriptionAssumption, Cursors
<1> QED BY <1>1, FromOffsetIsLeast DEF Start, Front, After

-----------------------------------------------------------------------------
LEMMA SubInitType == ASSUME SubscriptionAssumption, Init PROVE TypeOK
<1>1. Nothing \in Cursors
  BY DEF Nothing, Cursors, SubscriptionAssumption
<1> QED BY <1>1 DEF Init, TypeOK, SubscriptionAssumption

LEMMA SubNextType == ASSUME SubscriptionAssumption, TypeOK, [Next]_vars PROVE TypeOK'
<1>1. /\ MaxRecords \in Nat /\ MaxCrashes \in Nat /\ MaxForgets \in Nat
      /\ \A t \in Topics : /\ log[t] \in 0..MaxRecords /\ cursors[t] \in 0..MaxRecords
                           /\ blind[t] \in 0..MaxRecords /\ next[t] \in 1..(MaxRecords + 1)
  BY DEF SubscriptionAssumption, TypeOK, Cursors
<1>2. ASSUME NEW t \in Topics, Append(t) PROVE TypeOK'
  <2>1. log' \in Cursors
    BY <1>1, <1>2 DEF Append, TypeOK, Cursors
  <2> QED BY <1>2, <2>1 DEF Append, TypeOK
<1>3. CASE Forget
  BY <1>1, <1>3 DEF Forget, TypeOK
<1>4. CASE Subscribe
  <2>1. Start(cursors) \in 1..(MaxRecords + 1)
    BY StartBounds DEF TypeOK
  <2>2. next' \in [Topics -> 1..(MaxRecords + 1)]
    BY <1>4, <2>1 DEF Subscribe
  <2>3. blind' \in Cursors
    BY <1>1, <1>4, <2>1 DEF Subscribe, Cursors
  <2> QED BY <1>4, <2>2, <2>3 DEF Subscribe, TypeOK
<1>5. ASSUME NEW t \in Topics, Pull(t) PROVE TypeOK'
  <2>1. next[t] \in 1..MaxRecords /\ next[t] + 1 \in 1..(MaxRecords + 1)
    BY <1>1, <1>5 DEF Pull
  <2>2. next' \in [Topics -> 1..(MaxRecords + 1)]
    BY <1>5, <2>1 DEF Pull, TypeOK
  <2>3. [topic |-> t, offset |-> next[t]] \in Record
    BY <2>1 DEF Record
  <2>4. /\ record' \in Record \cup {None} /\ pc' \in {"pull", "handle", "commit"}
        /\ pc' # "pull" => record' # None
    BY <1>5, <2>3 DEF Pull, TypeOK, SubscriptionAssumption
  <2> QED BY <1>5, <2>2, <2>4 DEF Pull, TypeOK
<1>6. ASSUME NEW w \in BOOLEAN, HandleRecord(w) PROVE TypeOK'
  <2>1. record \in Record
    BY <1>6 DEF HandleRecord, TypeOK
  <2>2. handled' \in SUBSET Record /\ known' \in 0..MaxRecords
    BY <1>6, <2>1 DEF HandleRecord, TypeOK, Record
  <2>3. file' \in [handled : SUBSET Record, known : 0..MaxRecords, cursors : Cursors]
    BY <1>6, <2>2 DEF HandleRecord, Write, TypeOK
  <2> QED BY <1>6, <2>1, <2>2, <2>3 DEF HandleRecord, TypeOK
<1>7. ASSUME NEW w \in BOOLEAN, CommitCursor(w) PROVE TypeOK'
  <2>1. record \in Record
    BY <1>7 DEF CommitCursor, TypeOK
  <2>2. cursors' \in Cursors
    BY <1>1, <1>7, <2>1 DEF CommitCursor, TypeOK, Record, Cursors
  <2>3. handled' \in SUBSET Record /\ known' \in 0..MaxRecords
    BY <1>7 DEF CommitCursor, TypeOK
  <2>4. file' \in [handled : SUBSET Record, known : 0..MaxRecords, cursors : Cursors]
    <3>1. file' = file \/ file' = [handled |-> handled', known |-> known', cursors |-> cursors']
      BY <1>7 DEF CommitCursor, Write
    <3> QED BY <2>2, <2>3, <3>1 DEF TypeOK
  <2> QED BY <1>7, <2>1, <2>2, <2>4 DEF CommitCursor, TypeOK
<1>8. CASE Crash
  BY <1>1, <1>8 DEF Crash, TypeOK
<1>9. CASE UNCHANGED vars
  BY <1>9 DEF vars, TypeOK
<1> QED BY <1>2, <1>3, <1>4, <1>5, <1>6, <1>7, <1>8, <1>9 DEF Next, LoopStep

(* What the loop, the file and the service hold stays well formed          *)
(* (ensureSubscribed, commitCursor, loadState).                            *)
THEOREM SubscriptionTypeCorrect == ASSUME SubscriptionAssumption PROVE Spec => []TypeOK
<1>1. Init => TypeOK
  BY SubInitType
<1>2. TypeOK /\ [Next]_vars => TypeOK'
  BY SubNextType
<1> QED BY <1>1, <1>2, PTL DEF Spec

-----------------------------------------------------------------------------
(* What a pair of records handled h, and cursors c, keeps: no record is    *)
(* beyond the front, and none at or before a cursor is missing.            *)
WithinFront(h, c) == \A r \in h : r.offset <= Front(c, r.topic)

NoGaps(h, c) ==
  \A r \in Record : blind[r.topic] < r.offset /\ r.offset <= c[r.topic] => r \in h

Newest(h, k) == \A r \in h : r.topic = Presence => r.offset <= k

Sound(h, k, c) == WithinFront(h, c) /\ NoGaps(h, c) /\ Newest(h, k)

At(t) == pc # "pull" /\ record.topic = t

(* Where the subscription is, for a topic the loop has no record of.       *)
PlaceOf(t) ==
  /\ next[t] <= Front(cursors, t)
  /\ cursors[t] = 0 => \A r \in handled : r.topic = t => r.offset <= next[t]

(* The record the loop is at: the next one of its topic, at or before the  *)
(* front, and none of those handled is beyond it.                          *)
PlaceOfRecord ==
  /\ next[record.topic] = record.offset + 1
  /\ cursors[record.topic] < record.offset
  /\ record.offset <= Front(cursors, record.topic)
  /\ \A r \in handled : r.topic = record.topic => r.offset <= record.offset

Delivered ==
  \A r \in Record : blind[r.topic] < r.offset => r \in handled \/ Reachable(r)

SubInv ==
  /\ Sound(handled, known, cursors)
  /\ Sound(file.handled, file.known, file.cursors)
  /\ pc # "pull" => sub # "none" /\ PlaceOfRecord
  /\ sub # "none" => Delivered /\ \A t \in Topics : ~ At(t) => PlaceOf(t)

LEMMA SubInitInv == ASSUME SubscriptionAssumption, Init PROVE SubInv
<1>1. \A r \in Record : r.topic \in Topics /\ r.offset \in 1..MaxRecords
  BY DEF Record
<1>2. \A t \in Topics : Nothing[t] = 0
  BY DEF Nothing
<1>3. MaxRecords \in Nat
  BY DEF SubscriptionAssumption
<1>4. Sound({}, 0, Nothing)
  BY <1>1, <1>2, <1>3 DEF Sound, WithinFront, NoGaps, Newest
<1> QED BY <1>4 DEF Init, SubInv

(* What was saved is what is in memory, or what was saved before.          *)
LEMMA SavedSound ==
  ASSUME NEW w \in BOOLEAN, Write(w), UNCHANGED <<repeats, blind>>,
         Sound(file.handled, file.known, file.cursors),
         Sound(handled, known, cursors)'
  PROVE  Sound(file.handled, file.known, file.cursors)'
<1>1. CASE file' = file
  BY <1>1 DEF Sound, WithinFront, NoGaps, Newest, Front, After, Reachable
<1>2. CASE file' = [handled |-> handled', known |-> known', cursors |-> cursors']
  BY <1>2
<1> QED BY <1>1, <1>2 DEF Write

LEMMA SubNextInv ==
  ASSUME SubscriptionAssumption, TypeOK, SubInv, [Next]_vars PROVE SubInv'
<1>1. /\ MaxRecords \in Nat
      /\ \A t \in Topics : /\ cursors[t] \in 0..MaxRecords /\ blind[t] \in 0..MaxRecords
                           /\ next[t] \in 1..(MaxRecords + 1)
      /\ \A r \in Record : r.topic \in Topics /\ r.offset \in 1..MaxRecords
      /\ handled \subseteq Record
  BY DEF SubscriptionAssumption, TypeOK, Cursors, Record
<1>2. ASSUME NEW t \in Topics, Append(t) PROVE SubInv'
  BY <1>2 DEF Append, SubInv, Sound, WithinFront, NoGaps, Newest, Front, After, At, PlaceOf,
              PlaceOfRecord, Delivered, Reachable
<1>3. CASE Forget
  BY <1>3 DEF Forget, SubInv, Sound, WithinFront, NoGaps, Newest, Front, After, At, PlaceOf,
              PlaceOfRecord, Delivered, Reachable
<1>4. CASE Subscribe
  <2>1. /\ Start(cursors) \in 1..(MaxRecords + 1)
        /\ \A t \in Topics : cursors[t] > 0 => Start(cursors) <= cursors[t] + 1
        /\ \A t \in Topics : cursors[t] = 0 => Start(cursors) = Front(cursors, t)
    BY StartBounds DEF TypeOK
  <2>2. \A t \in Topics : Start(cursors) <= Front(cursors, t)
    BY <1>1, <2>1 DEF Front
  <2>3. /\ pc = "pull" /\ pc' = "pull" /\ sub' = "live"
        /\ Sound(handled, known, cursors)
        /\ Sound(file.handled, file.known, file.cursors)
    BY <1>4 DEF Subscribe, SubInv
  <2>4. \A t \in Topics :
          /\ next'[t] = Start(cursors)
          /\ blind'[t] \in Nat /\ blind[t] <= blind'[t]
          /\ cursors[t] = 0 => Start(cursors) <= blind'[t] + 1
    BY <1>1, <1>4, <2>1 DEF Subscribe
  <2>5. ASSUME NEW h, h \subseteq Record, NEW k, NEW c \in Cursors, Sound(h, k, c)
        PROVE  Sound(h, k, c)'
    <3>1. \A t \in Topics : c[t] \in 0..MaxRecords
      BY DEF Cursors
    <3>2. repeats' = repeats
      BY <1>4 DEF Subscribe
    <3> QED BY <1>1, <2>4, <2>5, <3>1, <3>2
          DEF Sound, WithinFront, NoGaps, Newest, Front, After
  <2>6. Sound(handled, known, cursors)' /\ Sound(file.handled, file.known, file.cursors)'
    <3>1. UNCHANGED <<handled, known, cursors, file>>
      BY <1>4 DEF Subscribe
    <3>2. Sound(handled, known, cursors)'
      BY <1>1, <2>3, <2>5, <3>1 DEF TypeOK
    <3>3. Sound(file.handled, file.known, file.cursors)'
      BY <2>3, <2>5, <3>1 DEF TypeOK
    <3> QED BY <3>2, <3>3
  <2>7. Delivered'
    <3>1. ASSUME NEW r \in Record, blind'[r.topic] < r.offset, r \notin handled
          PROVE  r.offset >= next'[r.topic]
      <4>1. cursors[r.topic] < r.offset
        BY <1>1, <2>3, <2>4, <3>1 DEF Sound, NoGaps
      <4> QED BY <1>1, <2>1, <2>4, <3>1, <4>1
    <3>2. handled' = handled
      BY <1>4 DEF Subscribe
    <3> QED BY <3>1, <3>2 DEF Delivered, Reachable
  <2>8. ASSUME NEW t \in Topics PROVE PlaceOf(t)'
    <3>1. UNCHANGED <<handled, cursors, repeats>>
      BY <1>4 DEF Subscribe
    <3>2. \A r \in handled : r.topic = t => r.offset <= Front(cursors, t)
      BY <2>3 DEF Sound, WithinFront
    <3>3. Front(cursors, t)' = Front(cursors, t)
      BY <3>1 DEF Front, After
    <3> QED BY <2>1, <2>2, <2>4, <3>1, <3>2, <3>3 DEF PlaceOf
  <2> QED BY <2>3, <2>6, <2>7, <2>8 DEF SubInv
<1>5. ASSUME NEW t \in Topics, Pull(t) PROVE SubInv'
  <2>1. /\ pc = "pull" /\ sub = "live" /\ next'[t] = next[t] + 1 /\ next[t] \in 1..MaxRecords
        /\ \A u \in Topics : u # t => next'[u] = next[u]
        /\ UNCHANGED <<handled, known, cursors, file, repeats, sub, blind>>
    BY <1>1, <1>5 DEF Pull, TypeOK, Cursors
  <2>2. /\ \A u \in Topics : PlaceOf(u)
        /\ Delivered /\ Sound(handled, known, cursors)
        /\ Sound(file.handled, file.known, file.cursors)
    BY <2>1 DEF SubInv, At
  <2>3. \A u \in Topics : Front(cursors, u)' = Front(cursors, u)
    BY <2>1 DEF Front, After
  <2>4. Sound(handled, known, cursors)' /\ Sound(file.handled, file.known, file.cursors)'
    BY <2>1, <2>2 DEF Sound, WithinFront, NoGaps, Newest, Front, After
  <2>5. \A u \in Topics : u # t => PlaceOf(u)'
    BY <2>1, <2>2, <2>3 DEF PlaceOf
  <2>6. CASE ShouldProcess(t, next[t])
    <3>1. record' = [topic |-> t, offset |-> next[t]] /\ pc' = "handle"
      BY <1>5, <2>6 DEF Pull
    <3>2. \A r \in handled : r.topic = t => r.offset <= next[t]
      <4>1. CASE cursors[t] = 0
        BY <2>2, <4>1 DEF PlaceOf
      <4>2. CASE cursors[t] > 0
        BY <1>1, <2>2, <2>6, <4>2 DEF Sound, WithinFront, Front, ShouldProcess
      <4> QED BY <1>1, <4>1, <4>2
    <3>3. PlaceOfRecord'
      BY <1>1, <2>1, <2>2, <2>3, <2>6, <3>1, <3>2 DEF PlaceOfRecord, PlaceOf, ShouldProcess
    <3>4. Delivered'
      <4>1. \A r \in Record : r.topic = t /\ r.offset = next[t] => r = record'
        BY <3>1 DEF Record
      <4> QED BY <1>1, <2>1, <2>2, <3>1, <4>1 DEF Delivered, Reachable
    <3> QED BY <2>1, <2>4, <2>5, <3>1, <3>3, <3>4 DEF SubInv, At
  <2>7. CASE ~ ShouldProcess(t, next[t])
    <3>1. UNCHANGED <<record, pc>> /\ next[t] <= cursors[t]
      BY <1>1, <1>5, <2>7 DEF Pull, ShouldProcess
    <3>2. PlaceOf(t)'
      BY <1>1, <2>1, <2>3, <3>1 DEF PlaceOf, Front
    <3>3. Delivered'
      BY <1>1, <2>1, <2>2, <3>1 DEF Delivered, Reachable, Sound, NoGaps
    <3> QED BY <2>1, <2>4, <2>5, <3>1, <3>2, <3>3 DEF SubInv
  <2> QED BY <2>6, <2>7
<1>6. ASSUME NEW w \in BOOLEAN, HandleRecord(w) PROVE SubInv'
  <2>1. /\ pc = "handle" /\ pc' = "commit" /\ handled' = handled \cup {record}
        /\ record \in Record
        /\ known' = IF record.topic = Presence THEN record.offset ELSE known
        /\ UNCHANGED <<cursors, repeats, sub, next, record, blind>>
    BY <1>6 DEF HandleRecord, TypeOK
  <2>2. /\ PlaceOfRecord /\ Delivered /\ sub # "none"
        /\ \A t \in Topics : t # record.topic => PlaceOf(t)
        /\ Sound(handled, known, cursors)
    BY <2>1 DEF SubInv, At
  <2>3. \A u \in Topics : Front(cursors, u)' = Front(cursors, u)
    BY <2>1 DEF Front, After
  <2>4. Sound(handled, known, cursors)'
    <3>1. WithinFront(handled, cursors)'
      BY <1>1, <2>1, <2>2, <2>3 DEF Sound, WithinFront, PlaceOfRecord
    <3>2. NoGaps(handled, cursors)'
      BY <2>1, <2>2 DEF Sound, NoGaps
    <3>3. Newest(handled, known)'
      BY <1>1, <2>1, <2>2 DEF Sound, Newest, PlaceOfRecord
    <3> QED BY <3>1, <3>2, <3>3 DEF Sound
  <2>5. Sound(file.handled, file.known, file.cursors)'
    BY <1>6, <2>4, SavedSound DEF HandleRecord, SubInv
  <2>6. PlaceOfRecord'
    BY <1>1, <2>1, <2>2, <2>3 DEF PlaceOfRecord
  <2>7. \A t \in Topics : t # record.topic => PlaceOf(t)'
    BY <2>1, <2>2, <2>3 DEF PlaceOf
  <2>8. Delivered'
    BY <2>1, <2>2 DEF Delivered, Reachable
  <2> QED BY <2>1, <2>2, <2>4, <2>5, <2>6, <2>7, <2>8 DEF SubInv, At
<1>7. ASSUME NEW w \in BOOLEAN, CommitCursor(w) PROVE SubInv'
  <2> DEFINE t == record.topic
  <2>1. /\ pc = "commit" /\ pc' = "pull" /\ record \in Record
        /\ UNCHANGED <<handled, known, repeats, sub, next, record, blind>>
        /\ cursors'[t] = record.offset /\ \A u \in Topics : u # t => cursors'[u] = cursors[u]
    BY <1>7 DEF CommitCursor, TypeOK, Record, Cursors
  <2>2. /\ PlaceOfRecord /\ Delivered /\ sub # "none"
        /\ \A u \in Topics : u # t => PlaceOf(u)
        /\ Sound(handled, known, cursors)
    BY <2>1 DEF SubInv, At
  <2>3. t \in Topics /\ record.offset \in 1..MaxRecords
    BY <1>1, <2>1
  <2>4. \A u \in Topics : u = t => Front(cursors, u)' = record.offset + 1
    BY <1>1, <2>1, <2>3 DEF Front
  <2>5. ASSUME NEW u \in Topics, u # t PROVE Front(cursors, u) <= Front(cursors, u)'
    <3>1. Other(u) = t
      BY <2>3, <2>5, TopicPair
    <3>2. cursors[t] < cursors'[t]
      BY <2>1, <2>2 DEF PlaceOfRecord
    <3> QED BY <1>1, <2>1, <2>3, <2>5, <3>1, <3>2 DEF Front, After
  <2>6. \A u \in Topics : Front(cursors, u) \in Nat /\ Front(cursors, u)' \in Nat
    <3>1. \A u \in Topics : cursors'[u] \in Nat /\ cursors[u] \in Nat /\ Other(u) \in Topics
      BY <1>1, <2>1, <2>3, TopicPair
    <3> QED BY <3>1 DEF Front, After
  <2>7. Sound(handled, known, cursors)'
    <3>1. WithinFront(handled, cursors)'
      <4>1. ASSUME NEW r \in handled PROVE r.offset <= Front(cursors, r.topic)'
        <5>1. CASE r.topic = t
          BY <1>1, <2>2, <2>3, <2>4, <5>1 DEF PlaceOfRecord
        <5>2. CASE r.topic # t
          <6>1. r.topic \in Topics /\ r.offset \in Nat
            BY <1>1
          <6>2. r.offset <= Front(cursors, r.topic)
            BY <2>2 DEF Sound, WithinFront
          <6>3. Front(cursors, r.topic) <= Front(cursors, r.topic)'
            BY <2>5, <5>2, <6>1
          <6> QED BY <2>6, <6>1, <6>2, <6>3
        <5> QED BY <5>1, <5>2
      <4> QED BY <2>1, <4>1 DEF WithinFront
    <3>2. NoGaps(handled, cursors)'
      <4>1. ASSUME NEW r \in Record, blind[r.topic] < r.offset, r.offset <= cursors'[r.topic]
            PROVE  r \in handled
        <5>1. CASE r.topic = t
          BY <1>1, <2>1, <2>2, <2>3, <4>1, <5>1 DEF Delivered, Reachable, PlaceOfRecord
        <5>2. CASE r.topic # t
          BY <1>1, <2>1, <2>2, <4>1, <5>2 DEF Sound, NoGaps
        <5> QED BY <5>1, <5>2
      <4> QED BY <2>1, <4>1 DEF NoGaps
    <3>3. Newest(handled, known)'
      BY <2>1, <2>2 DEF Sound, Newest
    <3> QED BY <3>1, <3>2, <3>3 DEF Sound
  <2>8. Sound(file.handled, file.known, file.cursors)'
    BY <1>7, <2>7, SavedSound DEF CommitCursor, SubInv
  <2>9. ASSUME NEW u \in Topics PROVE PlaceOf(u)'
    <3>1. CASE u = t
      BY <1>1, <2>1, <2>2, <2>3, <2>4, <3>1 DEF PlaceOf, PlaceOfRecord
    <3>2. CASE u # t
      BY <1>1, <2>1, <2>2, <2>5, <2>6, <3>2 DEF PlaceOf
    <3> QED BY <3>1, <3>2
  <2>10. Delivered'
    BY <2>1, <2>2 DEF Delivered, Reachable
  <2> QED BY <2>1, <2>7, <2>8, <2>9, <2>10 DEF SubInv
<1>8. CASE Crash
  <2>1. Sound(handled, known, cursors)'
    BY <1>8 DEF Crash, SubInv, Sound, WithinFront, NoGaps, Newest, Front, After
  <2>2. Sound(file.handled, file.known, file.cursors)'
    BY <1>8 DEF Crash, SubInv, Sound, WithinFront, NoGaps, Newest, Front, After
  <2> QED BY <1>8, <2>1, <2>2 DEF Crash, SubInv
<1>9. CASE UNCHANGED vars
  BY <1>9 DEF vars, SubInv, Sound, WithinFront, NoGaps, Newest, Front, After, At, PlaceOf,
              PlaceOfRecord, Delivered, Reachable
<1> QED BY <1>2, <1>3, <1>4, <1>5, <1>6, <1>7, <1>8, <1>9 DEF Next, LoopStep

LEMMA SubInvariant == ASSUME SubscriptionAssumption PROVE Spec => []SubInv
<1>1. Init => SubInv
  BY SubInitInv
<1>2. TypeOK /\ SubInv /\ [Next]_vars => SubInv'
  BY SubNextInv
<1> QED BY SubscriptionTypeCorrect, <1>1, <1>2, PTL DEF Spec

(* While the service knows the subscription, no record is skipped that the *)
(* service was not told to skip, although both topics start at one         *)
(* FromOffset (ensureSubscribed, commitCursor).                            *)
THEOREM NoRecordSkipped == ASSUME SubscriptionAssumption PROVE Spec => []NothingSkipped
<1>1. SubInv => NothingSkipped
  BY DEF SubInv, Delivered, NothingSkipped
<1> QED BY SubInvariant, <1>1, PTL

(* Records that are delivered again do not bring back an old profile       *)
(* (shouldProcess, handlePresence).                                        *)
THEOREM NewestProfile == ASSUME SubscriptionAssumption PROVE Spec => []KnownIsNewest
<1>1. SubInv => KnownIsNewest
  BY DEF SubInv, Sound, Newest, KnownIsNewest
<1> QED BY SubInvariant, <1>1, PTL
=============================================================================
