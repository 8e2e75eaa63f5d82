----------------------------- MODULE SocialStream -----------------------------
(***************************************************************************)
(* The event streams of the social manager: listeners                      *)
(* (internal/social/manager.go: SubscribeEvents, emitEventLocked,          *)
(* Snapshot) and the handler that serves one of them to a page             *)
(* (internal/socialapi/server.go: handleStream).                           *)
(*                                                                         *)
(* Every save of state.json that succeeds puts an event into the channel   *)
(* of every listener and drops it where the channel is full.  An event     *)
(* carries nothing: the handler takes a snapshot of the maps when it gets  *)
(* one.  A page that loses its stream opens another.                       *)
(*                                                                         *)
(* What the maps hold is abstracted to the set of changes made to them.    *)
(***************************************************************************)
EXTENDS Naturals

CONSTANTS
  Changes,   \* the changes that may be made to the maps
  Streams,   \* streams that pages may have open
  Cap        \* slots of a listener's channel

CapAssumption == Cap \in Nat \ {0}

VARIABLES
  view,    \* the changes that the maps in memory include
  saved,   \* the changes that state.json includes
  stage,   \* stage[s]: where the handler of stream s is
  events,  \* events[s]: how many events wait in its channel
  shown    \* shown[s]: the changes that the last snapshot for s includes

vars == <<view, saved, stage, events, shown>>

(* A listener is registered in every stage but "off".                      *)
Stages == {"off", "subscribed", "writing", "waiting", "woken"}

(* The map of listeners and their channels, the streams and what they have *)
(* sent stay well formed; a channel never holds more than its slots.       *)
TypeOK ==
  /\ view \subseteq Changes /\ saved \subseteq Changes
  /\ stage \in [Streams -> Stages]
  /\ events \in [Streams -> 0..Cap]
  /\ shown \in [Streams -> SUBSET Changes]

Init ==
  /\ view = {} /\ saved = {}
  /\ stage = [s \in Streams |-> "off"]
  /\ events = [s \in Streams |-> 0]
  /\ shown = [s \in Streams |-> {}]

-----------------------------------------------------------------------------
(* The manager.                                                            *)

(* Variant: the channel is taken to be large enough.                       *)
EmitAnyway ==
  events' = [s \in Streams |-> IF stage[s] # "off" THEN events[s] + 1 ELSE events[s]]

(* Variant: the event waits for a free slot.                               *)
EmitAndWait ==
  /\ \A s \in Streams : stage[s] = "off" \/ events[s] < Cap
  /\ events' = [s \in Streams |-> IF stage[s] # "off" THEN events[s] + 1 ELSE events[s]]

(* emitEventLocked.                                                        *)
EmitEvent ==
  events' = [s \in Streams |->
               IF stage[s] # "off" /\ events[s] < Cap THEN events[s] + 1 ELSE events[s]]

(* saveStateLocked once the file is written.                               *)
Saved == saved' = view' /\ EmitEvent /\ UNCHANGED <<stage, shown>>

(* A critical section that changes the maps and saves them, or whose save  *)
(* fails or is left out.                                                   *)
Change(C) ==
  /\ C \subseteq Changes
  /\ view' = view \cup C
  /\ Saved \/ UNCHANGED <<saved, stage, events, shown>>

(* The process starts again with what was saved; every stream is cut.      *)
Restart ==
  /\ view' = saved
  /\ stage' = [s \in Streams |-> "off"]
  /\ events' = [s \in Streams |-> 0]
  /\ shown' = [s \in Streams |-> {}]
  /\ UNCHANGED saved

-----------------------------------------------------------------------------
(* handleStream.                                                           *)

(* SubscribeEvents: a fresh channel, before anything is sent.              *)
Subscribe(s) ==
  /\ stage[s] = "off"
  /\ stage' = [stage EXCEPT ![s] = "subscribed"]
  /\ events' = [events EXCEPT ![s] = 0]
  /\ UNCHANGED <<view, saved, shown>>

(* Snapshot, under the read lock: first for the event "ready", then for    *)
(* every event received.                                                   *)
TakeSnapshot(s) ==
  /\ stage[s] \in {"subscribed", "woken"}
  /\ shown' = [shown EXCEPT ![s] = view]
  /\ stage' = [stage EXCEPT ![s] = "writing"]
  /\ UNCHANGED <<view, saved, events>>

(* Variant: events that came while the snapshot was written count as       *)
(* answered by it.                                                         *)
WriteAndDrain(s) ==
  /\ stage[s] = "writing"
  /\ stage' = [stage EXCEPT ![s] = "waiting"]
  /\ events' = [events EXCEPT ![s] = 0]
  /\ UNCHANGED <<view, saved, shown>>

WriteSnapshot(s) ==
  /\ stage[s] = "writing"
  /\ stage' = [stage EXCEPT ![s] = "waiting"]
  /\ UNCHANGED <<view, saved, events, shown>>

(* Variant: an event is received and forgotten.                            *)
Swallow(s) ==
  /\ stage[s] = "waiting" /\ events[s] > 0
  /\ events' = [events EXCEPT ![s] = @ - 1]
  /\ UNCHANGED <<view, saved, stage, shown>>

ReceiveEvent(s) ==
  /\ stage[s] = "waiting" /\ events[s] > 0
  /\ events' = [events EXCEPT ![s] = @ - 1]
  /\ stage' = [stage EXCEPT ![s] = "woken"]
  /\ UNCHANGED <<view, saved, shown>>

(* The client is gone or a write fails: cancel, deferred.                  *)
Leave(s) ==
  /\ stage[s] # "off"
  /\ stage' = [stage EXCEPT ![s] = "off"]
  /\ events' = [events EXCEPT ![s] = 0]
  /\ shown' = [shown EXCEPT ![s] = {}]
  /\ UNCHANGED <<view, saved>>

StreamStep(s) ==
  \/ Subscribe(s)
  \/ TakeSnapshot(s) \/ WriteSnapshot(s) \/ ReceiveEvent(s)
  \/ Leave(s)

Next ==
  \/ \E C \in SUBSET Changes : Change(C)
  \/ Restart
  \/ \E s \in Streams : StreamStep(s)

Spec == Init /\ [][Next]_vars

-----------------------------------------------------------------------------
(* A stream that has nothing in its channel and nothing to send has sent   *)
(* everything that was saved: events that were dropped because the channel *)
(* was full, and several saves answered with one snapshot, hide nothing    *)
(* (emitEventLocked drops, handleStream subscribes before its first        *)
(* snapshot).                                                              *)
StreamsAreCurrent ==
  \A s \in Streams : stage[s] = "waiting" /\ events[s] = 0 => saved \subseteq shown[s]
=============================================================================
