-------------------------- MODULE SocialSubscription --------------------------
(***************************************************************************)
(* The receive loop of the social manager with all its topics              *)
(* (internal/social/manager.go: loop, ensureSubscribed, shouldProcess,     *)
(* processRecord, commitCursor) and the subscription it holds at the       *)
(* service (internal/localrpcclient/client.go).                            *)
(*                                                                         *)
(* The service is not in the repository.  It numbers the records of a      *)
(* topic from 1 and delivers each topic in that order; nothing is assumed  *)
(* of the order between topics.  Whether FromOffset names the last record  *)
(* known or the first one wanted is up to the service, once for all.  When *)
(* it starts again it has forgotten its subscriptions.                     *)
(*                                                                         *)
(* What a record does to the maps is modelled in Social; here it is only   *)
(* whether the maps include it.  Records that change no map (the user's    *)
(* own presence, an envelope that does not open) are left out.             *)
(***************************************************************************)
EXTENDS Naturals, FiniteSets

CONSTANTS
  Presence, Inbox,  \* the two topics
  MaxRecords,       \* bound: records per topic
  MaxCrashes,       \* bound: crashes of the process
  MaxForgets,       \* bound: restarts of the service
  SavesFail,        \* os.WriteFile may fail
  None              \* the loop is at no record

VARIABLES
  log,      \* log[t]: how many records topic t has
  handled,  \* the records whose effect is in the maps
  known,    \* the presence record that the peer's entry in knownUsers is from
  cursors,  \* cursors[t]: the entry of m.cursors, 0 if there is none
  file,     \* what state.json holds of these three
  repeats,  \* whether the service starts with the record FromOffset itself
  sub,      \* what the loop's subscription is worth
  next,     \* next[t]: the offset the service delivers next
  record,   \* the record the loop is at
  pc,       \* where the loop is
  faults,   \* how often the process crashed and the service forgot
  blind     \* history: blind[t] is up to where the service was told to skip t
            \* although the loop had no cursor for it

vars ==
  <<log, handled, known, cursors, file, repeats, sub, next, record, pc, faults, blind>>

Topics == {Presence, Inbox}
Record == [topic : Topics, offset : 1..MaxRecords]

SubscriptionAssumption ==
  /\ Presence # Inbox
  /\ {MaxRecords, MaxCrashes, MaxForgets} \subseteq Nat
  /\ SavesFail \in BOOLEAN
  /\ None \notin Record

Cursors == [Topics -> 0..MaxRecords]

(* What the loop and the file hold, and the place of the service in the    *)
(* log: it never gets beyond the end of it.                                *)
TypeOK ==
  /\ log \in Cursors /\ cursors \in Cursors /\ blind \in Cursors
  /\ handled \subseteq Record /\ known \in 0..MaxRecords
  /\ file \in [handled : SUBSET Record, known : 0..MaxRecords, cursors : Cursors]
  /\ repeats \in BOOLEAN
  /\ sub \in {"none", "live", "forgotten"}
  /\ next \in [Topics -> 1..(MaxRecords + 1)]
  /\ record \in Record \cup {None}
  /\ pc \in {"pull", "handle", "commit"}
  /\ faults \in [crashes : 0..MaxCrashes, forgets : 0..MaxForgets]
  /\ pc # "pull" => record # None

Nothing == [t \in Topics |-> 0]

Init ==
  /\ log = Nothing /\ cursors = Nothing /\ blind = Nothing
  /\ handled = {} /\ known = 0
  /\ file = [handled |-> {}, known |-> 0, cursors |-> Nothing]
  /\ repeats \in BOOLEAN
  /\ sub = "none" /\ next = [t \in Topics |-> 1]
  /\ record = None /\ pc = "pull"
  /\ faults = [crashes |-> 0, forgets |-> 0]

-----------------------------------------------------------------------------
(* The service.                                                            *)

Append(t) ==
  /\ log[t] < MaxRecords
  /\ log' = [log EXCEPT ![t] = @ + 1]
  /\ UNCHANGED <<handled, known, cursors, file, repeats, sub, next, record, pc, faults,
                 blind>>

Forget ==
  /\ sub = "live" /\ faults.forgets < MaxForgets
  /\ sub' = "forgotten"
  /\ faults' = [faults EXCEPT !.forgets = @ + 1]
  /\ UNCHANGED <<log, handled, known, cursors, file, repeats, next, record, pc, blind>>

-----------------------------------------------------------------------------
(* The loop.                                                               *)

Present(c) == {c[t] : t \in Topics} \ {0}

(* Variant: the greatest cursor instead of the least.                      *)
FromGreatest(c) ==
  IF Present(c) = {} THEN 0 ELSE CHOOSE o \in Present(c) : \A q \in Present(c) : q <= o

(* The least of the cursors that are in the map.                           *)
FromOffset(c) ==
  IF Present(c) = {} THEN 0 ELSE CHOOSE o \in Present(c) : \A q \in Present(c) : o <= q

(* The first offset the service delivers.                                  *)
Start(c) == IF repeats /\ FromOffset(c) > 0 THEN FromOffset(c) ELSE FromOffset(c) + 1

(* ensureSubscribed, when the service answers.  An error is answered with  *)
(* a pause and another try.                                                *)
Subscribe ==
  /\ sub = "none"
  /\ sub' = "live"
  /\ next' = [t \in Topics |-> Start(cursors)]
  /\ blind' = [t \in Topics |-> IF cursors[t] = 0 /\ blind[t] < Start(cursors) - 1
                                 THEN Start(cursors) - 1 ELSE blind[t]]
  /\ UNCHANGED <<log, handled, known, cursors, file, repeats, record, pc, faults>>

(* Variant: every record is processed.                                     *)
ProcessAnyway(t, offset) == offset > 0

ShouldProcess(t, offset) == offset > cursors[t]

(* Pull and the choice of what to do with a record.  How many records come *)
(* with one answer makes no difference, since the loop looks at nothing    *)
(* else between two of them.  Without a subscription that the service      *)
(* knows, Pull returns an error for ever.                                  *)
Pull(t) ==
  /\ pc = "pull" /\ sub = "live"
  /\ next[t] <= log[t]
  /\ next' = [next EXCEPT ![t] = @ + 1]
  /\ IF ShouldProcess(t, next[t])
       THEN /\ record' = [topic |-> t, offset |-> next[t]]
            /\ pc' = "handle"
       ELSE UNCHANGED <<record, pc>>
  /\ UNCHANGED <<log, handled, known, cursors, file, repeats, sub, faults, blind>>

(* saveStateLocked; its error is ignored.                                  *)
Write(written) ==
  IF written
    THEN file' = [handled |-> handled', known |-> known', cursors |-> cursors']
    ELSE SavesFail /\ UNCHANGED file

HandleRecord(written) ==
  /\ pc = "handle"
  /\ handled' = handled \cup {record}
  /\ known' = IF record.topic = Presence THEN record.offset ELSE known
  /\ pc' = "commit"
  /\ UNCHANGED cursors
  /\ Write(written)
  /\ UNCHANGED <<log, repeats, sub, next, record, faults, blind>>

(* The Ack that follows tells the service what it may forget; its answer   *)
(* is ignored.                                                             *)
CommitCursor(written) ==
  /\ pc = "commit"
  /\ cursors' = [cursors EXCEPT ![record.topic] = record.offset]
  /\ pc' = "pull"
  /\ UNCHANGED <<handled, known>>
  /\ Write(written)
  /\ UNCHANGED <<log, repeats, sub, next, record, faults, blind>>

(* A crash, NewManager and loadState.                                      *)
Crash ==
  /\ faults.crashes < MaxCrashes
  /\ handled' = file.handled /\ known' = file.known /\ cursors' = file.cursors
  /\ sub' = "none" /\ pc' = "pull" /\ record' = None
  /\ faults' = [faults EXCEPT !.crashes = @ + 1]
  /\ UNCHANGED <<log, file, repeats, next, blind>>

LoopStep ==
  \/ Subscribe
  \/ \E t \in Topics : Pull(t)
  \/ \E w \in BOOLEAN : HandleRecord(w) \/ CommitCursor(w)

Next ==
  \/ \E t \in Topics : Append(t)
  \/ Forget
  \/ LoopStep
  \/ Crash

Spec == Init /\ [][Next]_vars

-----------------------------------------------------------------------------
(* Properties.                                                             *)

Reachable(r) ==
  \/ r.offset >= next[r.topic]
  \/ pc = "handle" /\ r = record

(* As long as the service knows the subscription, every record of the log  *)
(* has been handled, is being handled or will still be delivered, for both *)
(* topics although they share one FromOffset (ensureSubscribed takes the   *)
(* least cursor, commitCursor follows processRecord).  Exempt are records  *)
(* of a topic for which there was no cursor when the subscription started  *)
(* at the other topic's.                                                   *)
NothingSkipped ==
  sub = "live" =>
    \A r \in Record :
      r.offset <= log[r.topic] /\ r.offset > blind[r.topic] =>
        r \in handled \/ Reachable(r)

(* What is known of a peer is from the newest of its presence records that *)
(* was handled: a new subscription, which starts at the least cursor and   *)
(* so repeats records of the topic that is ahead, does not bring back an   *)
(* old profile (shouldProcess, handlePresence).                            *)
KnownIsNewest ==
  \A r \in handled : r.topic = Presence => r.offset <= known

(* Every record is handled in the end and stays so, unless the service     *)
(* forgets the subscription (subscriptionID is never reset) or was told to *)
(* skip it.                                                                *)
FeedDrains ==
  <>[](\/ sub = "forgotten"
       \/ \A r \in Record : r.offset <= log[r.topic] =>
            r \in handled \/ r.offset <= blind[r.topic])
=============================================================================
