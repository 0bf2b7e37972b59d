---------------------------- MODULE MCScaleLoad ----------------------------
(* Two workplaces and a grid of two scales, the second not of the type DIGI;  *)
(* two goods, numbers below and above the limit.                             *)
EXTENDS ScaleLoad, TLC

CONSTANTS digi, tiger

MCWares == <<1, 2>>
MCScales == <<digi, tiger>>
WorkplaceSymmetry == Permutations(Workplaces)
=============================================================================
