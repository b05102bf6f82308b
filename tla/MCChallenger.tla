---------------------------- MODULE MCChallenger ----------------------------
(* Small instances of Challenger for TLC.                                  *)
EXTENDS Challenger

MCNone  == {}
MCFirst == {1}
=============================================================================
