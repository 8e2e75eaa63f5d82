-------------------------- MODULE MCSocialIdentity --------------------------
(* SocialIdentity.tla for TLC: the page logs in with a wallet, a script    *)
(* uses init and unlock, or both use one data directory.                   *)
EXTENDS SocialIdentity

EveryWay == {{"wallet"}, {"passphrase"}, {"wallet", "passphrase"}}
=============================================================================
