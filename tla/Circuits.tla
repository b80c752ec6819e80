------------------------------ MODULE Circuits ------------------------------
(***************************************************************************)
(* The Boolean circuits of the frontend (fbpcf/frontend): what Bit,        *)
(* BitString and Int compute, gate by gate, on the secret values.  A bit   *)
(* is 0 or 1, an Int the sequence of its bits, the least significant       *)
(* first.  A batch goes through the same gates element by element.         *)
(***************************************************************************)
EXTENDS Integers, SequencesExt

(* What a call that throws returns. *)
Throws == <<>>

Xor(x, y) == (x + y) % 2
And(x, y) == x * y
Not(x) == 1 - x
Or(x, y) == Xor(Xor(x, y), And(x, y))

(* Of a number or a key. *)
lsb(a) == a[1]

NotAll(a) == [i \in DOMAIN a |-> Not(a[i])]
AndEach(a, b) == [i \in DOMAIN a |-> And(a[i], b[i])]
XorEach(a, b) == [i \in DOMAIN a |-> Xor(a[i], b[i])]

(* A bit and each of several bits: one composite gate. *)
compositeAND(x, others) == [i \in DOMAIN others |-> And(x, others[i])]

mux(choice, a, b) == XorEach(a, compositeAND(choice, XorEach(b, a)))

(* From the second bit to the last but one, with a carry: the first leaves *)
(* carry0.  The last bit takes no next carry; with one bit only, it        *)
(* replaces the first.                                                     *)
Ripple(a, b, carry0, carry) ==
  LET w    == Len(a)
      bit(c, i) == Xor(Xor(c, a[i]), b[i])
      step(acc, i) == [bits  |-> Append(acc.bits, bit(acc.carry, i)),
                       carry |-> carry[acc.carry, a[i], b[i]]]
      most == FoldLeftDomain(LAMBDA acc, i : IF i \in 2 .. w - 1 THEN step(acc, i) ELSE acc,
                             [bits |-> <<Xor(a[1], b[1])>>, carry |-> carry0], a)
  IN  SubSeq(most.bits, 1, w - 1) \o <<bit(most.carry, w)>>

plus(a, b) ==
  Ripple(a, b, And(a[1], b[1]),
         [c, x, y \in 0 .. 1 |-> Xor(And(Xor(c, x), Xor(c, y)), c)])

\* The borrow is taken from the subtrahend alone.
minusBorrowing(a, b) ==
  Ripple(a, b, And(Not(a[1]), b[1]),
         [c, x, y \in 0 .. 1 |-> Xor(c, And(y, Xor(c, y)))])

minus(a, b) ==
  Ripple(a, b, And(Not(a[1]), b[1]),
         [c, x, y \in 0 .. 1 |-> Xor(c, And(Xor(x, y), Xor(c, y)))])

(* The complement, plus one. *)
negative(a) ==
  LET step(acc, i) ==
        LET bit == Xor(Not(a[i]), acc.carry)
        IN  [bits |-> Append(acc.bits, bit), carry |-> And(Not(bit), acc.carry)]
  IN  FoldLeftDomain(LAMBDA acc, i : IF i = 1 THEN acc ELSE step(acc, i),
                     [bits |-> <<a[1]>>, carry |-> Not(a[1])], a).bits

(* The comparison of the bits so far is kept when the next ones are equal, *)
(* and is the next bit of b otherwise: of a, for a sign bit.               *)
less(isSigned, a, b) ==
  LET w == Len(a)
      next(c, i) == Xor(And(Xor(c, a[i]), Xor(c, b[i])), IF i = w /\ isSigned THEN a[i] ELSE b[i])
  IN  FoldLeftDomain(LAMBDA c, i : IF i = 1 /\ w > 1 THEN c ELSE next(c, i),
                     And(Not(a[1]), b[1]), a)

lessOrEqual(isSigned, a, b) == Not(less(isSigned, b, a))

(* The bits that are equal, and then their conjunction in pairs, of the    *)
(* first and the last, until one is left.                                  *)
equalityCheck(a, b) ==
  LET halve[s \in Seq({0, 1})] ==
        IF Len(s) = 1 THEN s[1]
        ELSE halve[[i \in 1 .. Len(s) - Len(s) \div 2 |->
                      IF i <= Len(s) \div 2 THEN And(s[i], s[Len(s) - i + 1]) ELSE s[i]]]
  IN  halve[XorEach(NotAll(a), b)]

cast(isSigned, newWidth, a) ==
  [i \in 1 .. newWidth |-> IF i <= Len(a) THEN a[i] ELSE IF isSigned THEN Last(a) ELSE 0]

maxOf(isSigned, a, b) == mux(less(isSigned, a, b), a, b)
minOf(isSigned, a, b) == mux(less(isSigned, b, a), a, b)
absOf(a) == mux(Last(a), a, negative(a))

-----------------------------------------------------------------------------
(* Numbers to bits and back.                                               *)

kMask(width) == 2 ^ width - 1

(* The numbers an Int of this width takes; any other makes it throw.  The  *)
(* shifts are those of the code: an arithmetic one for a negative number.  *)
processSingleInput(isSigned, width, v) ==
  CASE isSigned /\ v >= 0  -> v \div 2 ^ (width - 1) = 0
    [] isSigned /\ v < 0   -> v + kMask(width) \div 2 + 1 >= 0
    [] ~isSigned           -> v \div 2 ^ (width - 1) <= 1

(* What extractLsb takes from the number, moved up by 2^width when it is   *)
(* negative.                                                               *)
convertIntToBits(width, v) ==
  LET u == IF v < 0 THEN v + kMask(width) + 1 ELSE v
  IN  [i \in 1 .. width |-> (u \div 2 ^ (i - 1)) % 2]

convertBitsToInt(isSigned, a) ==
  LET v == FoldRight(LAMBDA bit, rst : 2 * rst + bit, a, 0)
  IN  IF isSigned /\ v > kMask(Len(a)) \div 2 THEN v - kMask(Len(a)) - 1 ELSE v
=============================================================================
