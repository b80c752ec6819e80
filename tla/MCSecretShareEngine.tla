------------------------ MODULE MCSecretShareEngine -------------------------
(* The engines of two and of three parties, on programs that use every     *)
(* operation of the engine.                                                *)
EXTENDS SecretShareEngine, TLC

(* A number that depends on all of its place. *)
MCRandom(tape, place) ==
  FoldLeft(LAMBDA x, y : (37 * x + 11 * y + tape + 5) % 101, 17 * tape + 3, place) \div 3

In(owner, v) == [op |-> "input", integer |-> FALSE, owner |-> owner, v |-> v]
IntIn(owner, v) == [op |-> "input", integer |-> TRUE, owner |-> owner, v |-> v]
Public(integer, v) == [op |-> "public", integer |-> integer, v |-> v]
Local(op, integer, ins) == [op |-> op, integer |-> integer, ins |-> ins]
Non(op, queue, ins) ==
  [op |-> op, integer |-> queue \in {"mult", "batchMult"}, queue |-> queue, ins |-> ins]
Exec == [op |-> "execute"]
To(id, integer, w) == [op |-> "reveal", integer |-> integer, id |-> id, ins |-> <<w>>]
W(i) == <<i, 1>>

(* Bits: composite operations of two sizes between simple ones, so that    *)
(* streams of tuples are used out of order; one computed at once while     *)
(* others are scheduled; and a second execution.                           *)
Bits == <<
  In(0, <<1>>), In(1, <<1>>), Public(FALSE, <<1>>),
  Non("schedule", "compositeAND", <<W(1), W(2), W(1)>>),
  Non("schedule", "AND", <<W(1), W(2)>>),
  Non("schedule", "compositeAND", <<W(2), W(1)>>),
  Local("plus", FALSE, <<W(1), W(3)>>), Local("not", FALSE, <<W(2)>>),
  Non("immediately", "AND", <<W(7), W(8)>>),
  Non("schedule", "compositeAND", <<W(8), W(1), W(2)>>),
  Exec, Local("free", FALSE, <<<<4, 2>>, W(3)>>), Local("plus", FALSE, <<<<10, 1>>, W(5)>>),
  Non("schedule", "AND", <<W(12), W(13)>>), Exec, To(1, FALSE, W(14)), To(0, FALSE, <<10, 2>>)>>

Batches == <<
  In(1, <<0, 1>>), In(0, <<1, 1>>), In(0, <<1>>), In(1, <<0>>), Public(FALSE, <<0, 1>>),
  Non("schedule", "batchAND", <<W(1), W(2)>>),
  Non("schedule", "batchCompositeAND", <<W(2), W(1), W(2)>>),
  Non("schedule", "AND", <<W(3), W(4)>>),
  Non("schedule", "compositeAND", <<W(3), W(4), W(3)>>),
  Non("schedule", "batchCompositeAND", <<W(1), W(1), W(2)>>),
  Exec, Local("plus", FALSE, <<<<7, 1>>, <<10, 2>>>>), To(0, FALSE, W(12)), To(1, FALSE, W(6))>>

Integers_ == <<
  IntIn(0, <<3>>), IntIn(1, <<2, 3>>), IntIn(1, <<3>>), IntIn(0, <<1, 2>>), Public(TRUE, <<3>>),
  Local("plus", TRUE, <<W(1), W(5)>>), Local("not", TRUE, <<W(3)>>), In(0, <<1>>),
  Non("schedule", "batchMult", <<W(2), W(4)>>), Non("schedule", "mult", <<W(6), W(7)>>),
  Non("immediately", "mult", <<W(1), W(3)>>),
  Non("schedule", "AND", <<W(8), W(8)>>), Exec,
  Local("free", TRUE, <<W(11), W(5)>>), To(1, TRUE, W(10)), To(0, TRUE, W(14)),
  To(0, TRUE, W(9)), To(1, FALSE, W(12))>>

MCSettings ==
  [numberOfParty : {2}, supportsCompositeTupleGeneration : BOOLEAN,
   program : {Bits, Batches, Integers_}, tape : {0, 1, 2}]
  \cup [numberOfParty : {3}, supportsCompositeTupleGeneration : {FALSE},
        program : {Bits, Batches, Integers_}, tape : {0}]
=============================================================================
