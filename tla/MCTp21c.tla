------------------------------ MODULE MCTp21c ------------------------------
(* Two operators; two steps in recovery, one in normal mode, three at init.  *)
EXTENDS Tp21c

CONSTANTS s1, s2, s3

MCSteps == {s1, s2, s3}
MCStepsOf == [m \in Modes |-> CASE m = "Crash"    -> <<>>
                                [] m = "Normal"   -> <<s1>>
                                [] m = "Recovery" -> <<s2, s1>>
                                [] m = "Init"     -> <<s3, s2, s1>>]
=============================================================================
