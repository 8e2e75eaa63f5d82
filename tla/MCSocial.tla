------------------------------ MODULE MCSocial ------------------------------
(* Social.tla with two users, for TLC: who may ask, write to and invite    *)
(* whom.                                                                   *)
EXTENDS Social

CONSTANTS a, b

Link(x, y) == [from |-> x, to |-> y, n |-> 1]

NoIds    == {}
OneWay   == {Link(a, b)}
OtherWay == {Link(b, a)}
BothWays == {Link(a, b), Link(b, a)}
InviteOfB == {[owner |-> b, n |-> 1]}
=============================================================================
