------------------------------- MODULE MCZone -------------------------------
(***************************************************************************)
(* Instances of Zone: a row of places around 0, and spawn points on it.    *)
(***************************************************************************)
EXTENDS Zone

CONSTANT Reach

Row == (-Reach .. Reach) \X {0}

Axes == {<<0, 0>>, <<3, 0>>, <<-1, 0>>}
Still == {<<0, 0>>}
Center == {<<0, 0>>}

AtOrigin == [s \in Spawns |-> <<0, 0>>]

RadiusThree == [s \in Spawns |-> 3]
RadiusZero == [s \in Spawns |-> 0]
TwoTicks == [s \in Spawns |-> 2]
\* With Arrival = 2 the fastest that cannot step over its target, and one that can.
ThreeOrFour == [s \in Spawns |-> IF s = 1 THEN 3 ELSE 4]
SpeedTwo == [s \in Spawns |-> 2]

PauseSentinel == -4
TargetSentinel == -3
============================================================================
