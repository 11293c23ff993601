------------------------------ MODULE MCReplay ------------------------------
(* Instances of Replay for TLC: one clock; two clocks, one at half the rate   *)
(* of the other; an edge at time 0; two changes one unit apart, of one clock  *)
(* and of two.                                                                *)
EXTENDS Replay, TLC

One == [clk |-> (0 :> 0 @@ 2 :> 1 @@ 4 :> 0 @@ 6 :> 1 @@ 8 :> 0 @@ 10 :> 1),
        data |-> (0 :> 0 @@ 2 :> 1 @@ 7 :> 0)]
Two == [clk |-> (0 :> 0 @@ 2 :> 1 @@ 4 :> 0 @@ 6 :> 1 @@ 8 :> 0 @@ 10 :> 1 @@ 12 :> 0),
        slow |-> (0 :> 0 @@ 2 :> 1 @@ 7 :> 0 @@ 10 :> 1), data |-> (2 :> 1 @@ 6 :> 0)]
Early == [clk |-> (0 :> 1 @@ 2 :> 0 @@ 3 :> 1 @@ 5 :> 0 @@ 7 :> 1), slow |-> (3 :> 1),
          data |-> (0 :> 1 @@ 3 :> 0)]
Close == [clk |-> (2 :> 1 @@ 4 :> 0 @@ 6 :> 1 @@ 8 :> 0),
          slow |-> (3 :> 1 @@ 5 :> 0 @@ 7 :> 1 @@ 9 :> 0 @@ 11 :> 1), data |-> (3 :> 1)]

MCTraces == {One, Two, Early, Close}
MCClocks == {<<"clk">>, <<"clk", "slow">>, <<"clk", "bad">>, <<"slow", "bad">>}
=============================================================================
