------------------------------- MODULE ProbeMC -------------------------------
(* Small instances of Probe for TLC: a few iterations of the probe, or two   *)
(* load clients whose orders meet.                                          *)
EXTENDS Probe

ProbeIds == {ProbeId(i, k) : i \in 1..Iterations, k \in 1..4}

LoadScript ==
    [c \in Conns |->
        IF c = "a" THEN << Limit(91, "buy", 1, 2), CancelOf(92, 91) >>
                   ELSE << Market(93, "sell", 1) >>]
LoadIds == ProbeIds \cup {91, 92, 93}
=============================================================================
