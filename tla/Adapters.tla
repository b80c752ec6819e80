------------------------------ MODULE Adapters ------------------------------
(***************************************************************************)
(* The values the standard library computes with (fbpcf/mpc_std_lib/util): *)
(* Intp, an integer of a given width in the next larger native type, and   *)
(* the adapters that let an algorithm swap, share and recover secrets of   *)
(* any type.  A value is a sequence of fields, unsigned numbers of         *)
(* kFieldWidth bits: uint32_t has one, AggregationValue has two.           *)
(***************************************************************************)
EXTENDS Circuits

-----------------------------------------------------------------------------
(* Intp, for widths whose native type has eight bits.                      *)

kNativeWidth == 8
Full(width) == width = kNativeWidth

(* Conversion to the native type. *)
Native(isSigned, v) ==
  LET u == v % 2 ^ kNativeWidth
  IN  IF isSigned /\ u >= 2 ^ (kNativeWidth - 1) THEN u - 2 ^ kNativeWidth ELSE u

kMax(isSigned, width) == IF isSigned THEN 2 ^ (width - 1) - 1 ELSE 2 ^ width - 1
kMin(isSigned, width) == IF isSigned THEN -(2 ^ (width - 1)) ELSE 0
kOffSet(isSigned, width) == Native(isSigned, 2 ^ width)

round(isSigned, width, v) ==
  CASE v > kMax(isSigned, width) -> Native(isSigned, v - kOffSet(isSigned, width))
    [] v < kMin(isSigned, width) -> Native(isSigned, v + kOffSet(isSigned, width))
    [] OTHER -> v

validateValue(isSigned, width, v) ==
  IF v \in kMin(isSigned, width) .. kMax(isSigned, width) THEN <<v>> ELSE Throws

\* The sum is taken over as it is.
addUnrounded(isSigned, width, a, b) ==
  validateValue(isSigned, width, Native(isSigned, a + b))

add(isSigned, width, a, b) ==
  validateValue(isSigned, width, round(isSigned, width, Native(isSigned, a + b)))

subtract(isSigned, width, a, b) ==
  validateValue(isSigned, width, round(isSigned, width, Native(isSigned, a - b)))

negate(isSigned, width, a) ==
  validateValue(isSigned, width,
    CASE ~isSigned -> Native(isSigned, kOffSet(isSigned, width) - a)
      [] isSigned /\ a = kMin(isSigned, width) -> a
      [] OTHER -> -a)

convertFromBits(isSigned, width, bits) ==
  IF Len(bits) > width THEN Throws
  ELSE <<round(isSigned, width, Native(isSigned, convertBitsToInt(FALSE, bits)))>>

(* The bits of the value as uint64_t that are in the vector. *)
convertToBits(width, v) ==
  [i \in 1 .. width |-> ((v % 2 ^ kNativeWidth) \div 2 ^ (i - 1)) % 2]

-----------------------------------------------------------------------------
(* Values of several fields.                                               *)

kFieldWidth == 2
Field == 0 .. 2 ^ kFieldWidth - 1

Plus(u, v) == [f \in DOMAIN u |-> (u[f] + v[f]) % 2 ^ kFieldWidth]
Minus(u, v) == [f \in DOMAIN u |-> (u[f] - v[f]) % 2 ^ kFieldWidth]
Zero(n) == [f \in 1 .. n |-> 0]
Negative(u) == Minus(Zero(Len(u)), u)

BitsOf(v) == FlattenSeq([f \in DOMAIN v |-> convertIntToBits(kFieldWidth, v[f])])
ValueOf(bits) ==
  [f \in 1 .. Len(bits) \div kFieldWidth |->
     convertBitsToInt(FALSE, SubSeq(bits, (f - 1) * kFieldWidth + 1, f * kFieldWidth))]

(* The fields from a key, the last from its lowest bits. *)
generateFromKey(key, n) ==
  [f \in 1 .. n |-> convertBitsToInt(FALSE, SubSeq(key, (n - f) * kFieldWidth + 1,
                                                        (n - f + 1) * kFieldWidth))]

(* The other of two bits is the sum of both and the one. *)
WithOther(src1, src2, rst1) == <<rst1, XorEach(XorEach(rst1, src1), src2)>>

obliviousSwapOfBits(src1, src2, indicator) ==
  WithOther(src1, src2, XorEach(src1, compositeAND(indicator, XorEach(src2, src1))))

obliviousSwapOfInts(src1, src2, indicator) == WithOther(src1, src2, mux(indicator, src1, src2))

(* AggregationValue: field by field. *)
obliviousSwapOfFields(src1, src2, indicator) ==
  LET bits(v, f) == convertIntToBits(kFieldWidth, v[f])
      swapped == [f \in DOMAIN src1 |->
                    obliviousSwapOfInts(bits(src1, f), bits(src2, f), indicator)]
  IN  [k \in 1 .. 2 |-> [f \in DOMAIN src1 |-> convertBitsToInt(FALSE, swapped[f][k])]]

(* The difference of two secrets, by the circuit. *)
SecretMinus(u, v) ==
  [f \in DOMAIN u |-> convertBitsToInt(FALSE, minus(convertIntToBits(kFieldWidth, u[f]),
                                                    convertIntToBits(kFieldWidth, v[f])))]

(* A value of bits and its label, which is swapped as one more bit. *)
PairOf(bits, label) == Append(bits, label)
=============================================================================
