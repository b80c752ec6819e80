-------------------------- MODULE MCLazyScheduler ---------------------------
(* A lazy scheduler whose caller uses bits and integers, alone and in      *)
(* batches, also empty ones.                                               *)
EXTENDS LazyScheduler, TLC

MCInputs == [a \in Allocators |-> CASE a = "bool" -> {<<1>>}
                                      [] a = "boolBatch" -> {<<>>, <<0, 1>>}
                                      [] a = "int" -> {<<3>>}
                                      [] a = "intBatch" -> {<<3, 2>>}]
MCStrategies == {<<1, 1>>}
Symmetry == Permutations(Wire)
=============================================================================
