-------------------------------- MODULE MCHQ --------------------------------
(* Small instances of HQ: nodes that register, pair, earn, spend and lend.   *)
EXTENDS HQ, TLC

\* An offer that takes what the other gives, and one like those of the tests.
MCLentAmounts == {-8, 3}
MCNothing == {}

MCSymmetry == Permutations(Keys) \cup Permutations(Requests)
=============================================================================
