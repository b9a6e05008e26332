---------------------------- MODULE MC_ProtocolPSM ----------------------------
(* One protocol instance: keys never interact, so one nonce shows every   *)
(* ordering of a single instance's messages, decisions and releases.      *)
(* The longest protocol run (issuer answering a propose) writes 8 entries; *)
(* MaxEntries = 10 leaves room for two Release overlays.                   *)
EXTENDS ProtocolPSM

CONSTANT k1

MCKeys == {k1}
MCMaxEntries == 10
=============================================================================
