---------------------------- MODULE MCLazyBatch ----------------------------
(* A lazy scheduler whose caller uses batches of bits, also empty ones,    *)
(* with wires enough for two ANDs on one level.                            *)
EXTENDS LazyScheduler, TLC

MCInputs == [a \in Allocators |-> IF a = "boolBatch" THEN {<<>>, <<1>>} ELSE {}]
MCStrategies == {}
Symmetry == Permutations(Wire)
=============================================================================
