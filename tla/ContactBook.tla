----------------------------- MODULE ContactBook -----------------------------
(***************************************************************************)
(* What the registry contract promises, without positions, pending entries *)
(* and reviews: a set of contacts, a directory of bootnodes, and requests  *)
(* that are decided once.                                                  *)
(***************************************************************************)
EXTENDS Integers, Sequences

CONSTANTS Address, Deployer, BootnodeId, Multiaddr, NoEntry

VARIABLES
  members,    \* the contacts
  directory,  \* the address of each bootnode
  verdicts    \* the requests with their verdicts, in the order of submission

vars == <<members, directory, verdicts>>

Init ==
  /\ members = {Deployer}
  /\ directory = [b \in BootnodeId |-> NoEntry]
  /\ verdicts = << >>

Join(a) ==
  /\ a \notin members /\ members' = members \cup {a}
  /\ UNCHANGED <<directory, verdicts>>

Leave(a) ==
  /\ a \in members /\ members' = members \ {a}
  /\ UNCHANGED <<directory, verdicts>>

List(b, m) ==
  /\ directory' = [directory EXCEPT ![b] = m]
  /\ UNCHANGED <<members, verdicts>>

Apply(a) ==
  /\ a \notin members
  /\ verdicts' = Append(verdicts, [applicant |-> a, verdict |-> "Pending"])
  /\ UNCHANGED <<members, directory>>

Decide(i, verdict) ==
  /\ verdicts[i].verdict = "Pending"
  /\ verdicts' = [verdicts EXCEPT ![i].verdict = verdict]
  /\ members' = IF verdict = "Approved" THEN members \cup {verdicts[i].applicant}
                                        ELSE members
  /\ UNCHANGED directory

Next ==
  \/ \E a \in Address : Join(a) \/ Leave(a) \/ Apply(a)
  \/ \E b \in BootnodeId, m \in Multiaddr \cup {NoEntry} : List(b, m)
  \/ \E i \in 1..Len(verdicts) :
       \E v \in {"Approved", "Rejected", "Cancelled"} : Decide(i, v)

Spec == Init /\ [][Next]_vars
=============================================================================
