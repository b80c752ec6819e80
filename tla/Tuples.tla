------------------------------- MODULE Tuples -------------------------------
(***************************************************************************)
(* What the tuple generators compute: shares of a, b and c with            *)
(* c = a * b, made from the results of oblivious transfer.  Two parties    *)
(* expand random correlated OT (TwoPartyTupleGenerator.cpp); any number    *)
(* add up product shares made by pairs of them (TupleGenerator.cpp,        *)
(* ArithmeticTupleGenerator.cpp, ProductShareGenerator.cpp).  When tuples  *)
(* are made is the subject of TwoPartyTupleGenerator.                      *)
(*                                                                         *)
(* Bits are integers modulo 2: XOR is the sum and AND the product.  The    *)
(* contract of the transfers below is what Transfers shows of them.        *)
(***************************************************************************)
EXTENDS Integers, Sequences, FiniteSetsExt

CONSTANTS IntBits,        \* width of an integer: 64
          Random(_, _)    \* the number a tape of randomness has at a place

IntModulus == 2 ^ IntBits
Modulus(integer) == IF integer THEN IntModulus ELSE 2

(* Places on the tape, by what the number there is used for; n below is    *)
(* the place of a tuple: its stream and its number there.                  *)
ForKey == 0
ForHash == 1
ForA == 2
ForB == 3
ForMask == 4
ForChoice == 5

-----------------------------------------------------------------------------
(* Two parties.  The sender's block is k0 or k1 = k0 ^ delta; the receiver *)
(* has the one of its choice, and the choice is its last bit.  H is a      *)
(* function of the block alone: it is the same at both parties.            *)
H(tape, sender, n, whichBlock, size) ==
  [j \in 1..size |-> Random(tape, <<ForHash, sender, whichBlock, j>> \o n) % 2]

(* Mutation: c lacks the receiver's block. *)
expandWithoutReceiver(tape, p, n, size, isComposite) ==
  LET k0 == H(tape, p, n, 0, size)
      k1 == H(tape, p, n, 1, size)
      choice == Random(tape, <<ForChoice, p>> \o n) % 2
      sum == [j \in 1..size |-> (k0[j] + k1[j]) % 2]
      c   == [j \in 1..size |-> (sum[j] * choice + k0[j]) % 2]
  IN  IF isComposite THEN [a |-> choice, b |-> sum, c |-> c]
                     ELSE [a |-> sum[1], b |-> <<choice>>, c |-> c]

(* The n-th tuple of party p (0 or 1), with size bits in b and c.          *)
(* A composite tuple has its choice bit as a, a normal one as b.           *)
expandRCOTResults(tape, p, n, size, isComposite) ==
  LET k0 == H(tape, p, n, 0, size)
      k1 == H(tape, p, n, 1, size)
      choice == Random(tape, <<ForChoice, p>> \o n) % 2
      received == H(tape, 1 - p, n, choice, size)
      sum == [j \in 1..size |-> (k0[j] + k1[j]) % 2]
      c   == [j \in 1..size |-> (sum[j] * choice + k0[j] + received[j]) % 2]
  IN  IF isComposite THEN [a |-> choice, b |-> sum, c |-> c]
                     ELSE [a |-> sum[1], b |-> <<choice>>, c |-> c]

-----------------------------------------------------------------------------
(* Any number of parties.                                                  *)

(* One OT in each direction between p and q: p chooses among q's inputs    *)
(* t and t + a_q, and adds its own t.                                      *)
generateBooleanProductShares(tape, p, q, n) ==
  LET t(s, r) == Random(tape, <<ForMask, s, r>> \o n)
      a(s) == Random(tape, <<ForA, s>> \o n)
      b(s) == Random(tape, <<ForB, s>> \o n) % 2
  IN  (IF b(p) = 1 THEN t(q, p) + a(q) ELSE t(q, p)) + t(p, q)

(* One OT for each bit of b, of t and t + 2^j a.                           *)
generateIntegerProductShares(tape, p, q, n) ==
  LET t(s, r, j) == Random(tape, <<ForMask, s, r, j>> \o n)
      a(s) == Random(tape, <<ForA, s>> \o n) % IntModulus
      b(s) == Random(tape, <<ForB, s>> \o n) % IntModulus
      received(j) == IF (b(p) \div 2 ^ j) % 2 = 1 THEN t(q, p, j) + 2 ^ j * a(q)
                                                 ELSE t(q, p, j)
  IN  MapThenSumSet(LAMBDA j : received(j) - t(p, q, j), 0..IntBits - 1)

(* The n-th tuple of party p, one of numberOfParty. *)
generateTuples(tape, p, n, integer, numberOfParty) ==
  LET m == Modulus(integer)
      a == Random(tape, <<ForA, p>> \o n) % m
      b == Random(tape, <<ForB, p>> \o n) % m
      share(q) == IF integer THEN generateIntegerProductShares(tape, p, q, n)
                             ELSE generateBooleanProductShares(tape, p, q, n)
      c == a * b + MapThenSumSet(share, (0..numberOfParty - 1) \ {p})
  IN  [a |-> a, b |-> <<b>>, c |-> <<c % m>>]
=============================================================================
