--------------------------- MODULE MCDepositRelay ---------------------------
(* Small instances of DepositRelay for TLC.                                *)
EXTENDS DepositRelay

CONSTANTS d1, d2, d3

MCDeposits == {d1, d2, d3}
MCBlocked  == {d2}
MCFailing  == {d1}
=============================================================================
