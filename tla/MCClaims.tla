------------------------------ MODULE MCClaims ------------------------------
(* Five withdrawals of two users: trees of one to five leaves, whose order *)
(* is not that of the sequences, for TLC.                                  *)
EXTENDS Claims, TLC

MCDigest == <<3, 1, 5, 2, 4>>
MCSymmetry == Permutations(Users)
=============================================================================
