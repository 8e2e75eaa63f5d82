------------------------------ MODULE SocialFeed ------------------------------
(***************************************************************************)
(* From the topics to the pages: the receive loop (SocialSubscription) and *)
(* the event streams (SocialStream) share the maps of the manager and      *)
(* state.json.  Every save of the loop that succeeds emits an event in the *)
(* same critical section, and a crash of the process cuts every stream.    *)
(***************************************************************************)
EXTENDS Naturals

CONSTANTS Presence, Inbox, MaxRecords, MaxCrashes, MaxForgets, SavesFail, None,
          Streams, Cap

VARIABLES log, handled, known, cursors, file, repeats, sub, next, record, pc, faults, blind,
          stage, events, shown

Sub == INSTANCE SocialSubscription

Stream == INSTANCE SocialStream
            WITH Changes <- Sub!Record, view <- handled, saved <- file.handled

ASSUME FeedAssumption == Sub!SubscriptionAssumption /\ Stream!CapAssumption

loopVars ==
  <<log, handled, known, cursors, file, repeats, sub, next, record, pc, faults, blind>>

vars == <<loopVars, stage, events, shown>>

Init ==
  /\ Sub!Init
  /\ stage = [s \in Streams |-> "off"]
  /\ events = [s \in Streams |-> 0]
  /\ shown = [s \in Streams |-> {}]

(* Steps that leave the streams alone.                                     *)
Quiet ==
  /\ \/ \E t \in Sub!Topics : Sub!Append(t) \/ Sub!Pull(t)
     \/ Sub!Subscribe
     \/ Sub!Forget
  /\ UNCHANGED <<stage, events, shown>>

(* saveStateLocked emits an event after a write that succeeded.            *)
Announce(written) ==
  /\ IF written THEN Stream!EmitEvent ELSE UNCHANGED events
  /\ UNCHANGED <<stage, shown>>

Handle(written) == Sub!HandleRecord(written) /\ Announce(written)

Commit(written) == Sub!CommitCursor(written) /\ Announce(written)

Crash ==
  /\ Sub!Crash
  /\ stage' = [s \in Streams |-> "off"]
  /\ events' = [s \in Streams |-> 0]
  /\ shown' = [s \in Streams |-> {}]

(* Steps of one stream and, of these, the ones that wait for no client.    *)
Serve(s) == UNCHANGED loopVars /\ Stream!StreamStep(s)

Answer(s) == UNCHANGED loopVars /\ (Stream!TakeSnapshot(s) \/ Stream!ReceiveEvent(s))

Next ==
  \/ Quiet
  \/ \E w \in BOOLEAN : Handle(w) \/ Commit(w)
  \/ Crash
  \/ \E s \in Streams : Serve(s)

Spec == Init /\ [][Next]_vars

(* The loop goes on as long as the service answers; where it saves, nothing*)
(* but the write itself can stop it.  A page need not open a stream, and   *)
(* may stop reading the one it has: then its handler stays in a write.     *)
Fairness ==
  /\ WF_vars(Quiet /\ Sub!Subscribe)
  /\ WF_vars(Quiet /\ \E t \in Sub!Topics : Sub!Pull(t))
  /\ WF_vars(Handle(TRUE) \/ Commit(TRUE))
  /\ \A s \in Streams : WF_vars(Answer(s))

FairSpec == Spec /\ Fairness

-----------------------------------------------------------------------------
(* The properties of the parts, for the whole.                             *)

(* Both parts are well formed.                                             *)
TypeOK == Sub!TypeOK /\ Stream!TypeOK

(* Both topics are handled without a gap (ensureSubscribed, loop).         *)
NothingSkipped == Sub!NothingSkipped

(* An old profile of a peer never replaces a newer one (shouldProcess).    *)
KnownIsNewest == Sub!KnownIsNewest

(* A stream at rest has sent everything that was saved (emitEventLocked,   *)
(* handleStream).                                                          *)
StreamsAreCurrent == Stream!StreamsAreCurrent

(* What is in the log is handled in the end, whatever the streams do: no   *)
(* page that does not read its stream holds up the loop (loop,             *)
(* emitEventLocked).                                                       *)
FeedDrains == Sub!FeedDrains

(* A page that does not keep losing its stream and goes on reading it is   *)
(* shown, in the end, all that was saved (handleStream).                   *)
StreamShows ==
  \A s \in Streams :
    \/ []<>(stage[s] = "off")
    \/ <>[](stage[s] = "writing")
    \/ <>[](file.handled \subseteq shown[s])
=============================================================================
