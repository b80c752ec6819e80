------------------------------- MODULE Gates -------------------------------
(***************************************************************************)
(* The gates of a circuit and what each one computes (the gate classes of  *)
(* fbpcf/scheduler/gate_keeper).                                           *)
(*                                                                         *)
(* The wires of a scheduler carry secret shares.  Here a wire carries the  *)
(* secret itself: the sum of the shares all the parties hold for it.  The  *)
(* Boolean gates work in the integers modulo 2 (XOR is +, AND is the       *)
(* product) and the arithmetic ones in the integers modulo 2^64, of which  *)
(* IntModulus is the small stand-in; otherwise NormalGate and              *)
(* ArithmeticGate, and their batch versions, have the same control and are *)
(* one gate type each:                                                     *)
(*    Not         SymmetricNot, AsymmetricNot, Neg                         *)
(*    Xor         SymmetricXOR, AsymmetricXOR, SymmetricPlus,              *)
(*                AsymmetricPlus                                           *)
(*    FreeAnd     FreeAnd, FreeMult                                        *)
(*    NonFreeAnd  NonFreeAnd, NonFreeMult                                  *)
(***************************************************************************)
EXTENDS Integers, Sequences
Seqs == INSTANCE SequencesExt

CONSTANTS IntModulus,   \* number of values of an integer wire
          Party,        \* the parties' ids
          myId          \* the party this scheduler runs in

ASSUME GatesAssumption == /\ IntModulus \in Nat \ {0}
                          /\ myId \in Party

Modulus(a) == IF a \in {"bool", "boolBatch"} THEN 2 ELSE IntModulus

(* The gate types computed locally, and those that need the other parties. *)
FreeTypes == {"Input", "Not", "Xor", "FreeAnd", "FreeComposite",
              "Batching", "Unbatching"}
NonFreeTypes == {"Output", "NonFreeAnd", "NonFreeComposite"}
isFree(type) == type \in FreeTypes

(* Element-wise operations on values, which are sequences of elements. *)
NotOf(a, x) ==
  [i \in DOMAIN x |-> IF Modulus(a) = 2 THEN 1 - x[i]
                                        ELSE (Modulus(a) - x[i]) % Modulus(a)]
XorOf(a, x, y) == [i \in DOMAIN x |-> (x[i] + y[i]) % Modulus(a)]
AndOf(a, x, y) == [i \in DOMAIN x |-> (x[i] * y[i]) % Modulus(a)]
ZerosLike(x) == [i \in DOMAIN x |-> 0]

(* The secret revealed to a party; the other parties get a dummy value. *)
RevealedTo(party, x) == IF party = myId THEN x ELSE ZerosLike(x)

Total(sizes) == Seqs!FoldLeft(LAMBDA x, y : x + y, 0, sizes)

(* The pieces of x, of the given sizes, in order. *)
Pieces(x, sizes) ==
  LET start(j) == Total(SubSeq(sizes, 1, j - 1))
  IN  [j \in DOMAIN sizes |-> SubSeq(x, start(j) + 1, start(j) + sizes[j])]

(* The products of the first value with each of the others: one for an     *)
(* AND, as many as there are right operands for a composite AND.           *)
Products(a, in) == [j \in 1..Len(in) - 1 |-> AndOf(a, in[1], in[j + 1])]

(* The values of a batching gate's operands in one vector. *)
Concatenation(values) == Seqs!FlattenSeq(values)

(* What a gate over wires of allocator a leaves on its outputs when its    *)
(* inputs carry the values of the sequence in.                             *)
Outputs(gate, in) ==
  CASE gate.type = "Not"    -> <<NotOf(gate.allocator, in[1])>>
    [] gate.type = "Xor"    -> <<XorOf(gate.allocator, in[1], in[2])>>
    [] gate.type \in {"FreeAnd", "NonFreeAnd", "FreeComposite",
                      "NonFreeComposite"} -> Products(gate.allocator, in)
    [] gate.type = "Output" -> <<RevealedTo(gate.party, in[1])>>
    [] gate.type = "Batching"   -> <<Concatenation(in)>>
    [] gate.type = "Unbatching" -> Pieces(in[1], gate.sizes)
=============================================================================
