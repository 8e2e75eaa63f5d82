--------------------------- MODULE FriendRequests ---------------------------
(***************************************************************************)
(* What the friend-request protocol promises, without envelopes, retries   *)
(* or locks: a request is asked, decided once by its addressee, and its    *)
(* asker can learn that decision and no other.  A friendship is made by a  *)
(* decision to accept, at the addressee, and by learning of it, at the     *)
(* asker, and is never unmade.                                             *)
(***************************************************************************)
CONSTANTS
  Users,
  ReqId    \* the requests, each with its asker "from" and addressee "to"

VARIABLES
  asked,    \* the requests that were asked
  answer,   \* answer[r]: the addressee's decision
  learned,  \* learned[r]: the decision as far as the asker knows
  friends   \* friends[u]: u's friends

fvars == <<asked, answer, learned, friends>>

Open    == "open"
Answers == {"accepted", "rejected"}

FRInit ==
  /\ asked = {}
  /\ answer = [r \in ReqId |-> Open]
  /\ learned = [r \in ReqId |-> Open]
  /\ friends = [u \in Users |-> {}]

Ask(r) ==
  /\ asked' = asked \cup {r}
  /\ UNCHANGED <<answer, learned, friends>>

Befriend(u, v, a) ==
  friends' = [friends EXCEPT ![u] = IF a = "accepted" THEN @ \cup {v} ELSE @]

Decide(r, a) ==
  /\ r \in asked
  /\ answer[r] = Open
  /\ answer' = [answer EXCEPT ![r] = a]
  /\ Befriend(r.to, r.from, a)
  /\ UNCHANGED <<asked, learned>>

Learn(r) ==
  /\ answer[r] # Open
  /\ learned[r] = Open
  /\ learned' = [learned EXCEPT ![r] = answer[r]]
  /\ Befriend(r.from, r.to, answer[r])
  /\ UNCHANGED <<asked, answer>>

FRNext == \E r \in ReqId : \/ Ask(r)
                           \/ \E a \in Answers : Decide(r, a)
                           \/ Learn(r)

FRSpec == FRInit /\ [][FRNext]_fvars
=============================================================================
