------------------------------ MODULE MCSpawnLoop -------------------------------
(* The calls of spawn_loop that TLC explores. *)
EXTENDS SpawnLoop

\* An empty loop, as many iterations as threads, fewer, and more.
MCShapes == {<<0, 2>>, <<2, 2>>, <<5, 4>>}
================================================================================
