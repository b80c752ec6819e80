-------------------------------- MODULE Aes ---------------------------------
(***************************************************************************)
(* The AES of the engine (fbpcf/engine/util/aes.h, aes.cpp): key expansion *)
(* and encryption with the AES instructions of the processor, which are    *)
(* external and modelled by what they do, as arithmetic in GF(2^8).  A     *)
(* byte is a sequence of eight bits, the highest first; a word is four     *)
(* bytes, a register four words.                                           *)
(***************************************************************************)
EXTENDS Integers, SequencesExt

(* Appended to the empty sequence, so that TLC has a tuple. *)
Eight(f(_)) == <<>> \o [i \in 1 .. 8 |-> f(i)]
Four(f(_)) == <<>> \o [i \in 1 .. 4 |-> f(i)]

a ^^ b == (a + b) % 2
XorBytes(x, y) == Eight(LAMBDA i : x[i] ^^ y[i])
XorWords(x, y) == Four(LAMBDA b : XorBytes(x[b], y[b]))
XorBlocks(x, y) == Four(LAMBDA w : XorWords(x[w], y[w]))

ByteOf(n) == Eight(LAMBDA i : (n \div 2 ^ (8 - i)) % 2)

-----------------------------------------------------------------------------
(* The instructions.                                                       *)

(* Multiplication by x, and of any two bytes, modulo x^8 + x^4 + x^3 + x + 1. *)
Doubled(x) ==
  LET shifted == Tail(x) \o <<0>>
  IN  IF x[1] = 1 THEN XorBytes(shifted, ByteOf(27)) ELSE shifted

WithNext(multiples) == Append(multiples, Doubled(Last(multiples)))
Multiples(x) ==
  WithNext(WithNext(WithNext(WithNext(WithNext(WithNext(WithNext(<<x>>)))))))

SumOf(multiples, y) ==
  LET taken(n, i) == y[9 - n] * multiples[n][i]
  IN  Eight(LAMBDA i : (taken(1, i) + taken(2, i) + taken(3, i) + taken(4, i)
                        + taken(5, i) + taken(6, i) + taken(7, i) + taken(8, i)) % 2)

Product(x, y) == SumOf(Multiples(x), y)

(* The inverse is the 254th power: 127 is 1111111 in binary, and twice it. *)
Squared(x) == Product(x, x)
Raised(power, x) == Product(Squared(power), x)
Inverted(x) == Squared(Raised(Raised(Raised(Raised(Raised(Raised(x, x), x), x), x), x), x))

Affine(y) ==
  LET turned(i, n) == y[((i + n - 1) % 8) + 1]
  IN  XorBytes(ByteOf(99),
               Eight(LAMBDA i : (y[i] + turned(i, 1) + turned(i, 2) + turned(i, 3)
                                      + turned(i, 4)) % 2))

SubByte(x) == Affine(Inverted(x))

Bytes == [1 .. 8 -> {0, 1}]
SubBytes == [x \in Bytes |-> SubByte(x)]

Turned(s, i) == s[((i - 1) % 4) + 1]

MixColumn(c) ==
  LET thrice(x) == XorBytes(Doubled(x), x)
  IN  Four(LAMBDA i : XorBytes(XorBytes(Doubled(c[i]), thrice(Turned(c, i + 1))),
                               XorBytes(Turned(c, i + 2), Turned(c, i + 3))))

ShiftAndSub(block) ==
  Four(LAMBDA w : Four(LAMBDA b : SubBytes[Turned(block, w + b - 1)[b]]))

MixColumns(block) == Four(LAMBDA w : MixColumn(block[w]))
aesenc(block, key) == XorBlocks(MixColumns(ShiftAndSub(block)), key)
aesenclast(block, key) == XorBlocks(ShiftAndSub(block), key)

(* MixColumns has order four. *)
aesimc(key) == MixColumns(MixColumns(MixColumns(key)))

(* The word that the code takes from aeskeygenassist: the last one,        *)
(* substituted and turned by a byte, with the round constant.              *)
keygenassist(key, constant) ==
  Four(LAMBDA b : XorBytes(SubBytes[Turned(key[4], b + 1)],
                           ByteOf(IF b = 1 THEN constant ELSE 0)))

-----------------------------------------------------------------------------
kRound == 10
Constants == <<1, 2, 4, 8, 16, 32, 64, 128, 27, 54>>

(* Each word is added to those before it, and the assisting word to all. *)
aes128KeyExpandAssist(temp1, temp2) ==
  LET sum[w \in 1 .. 4] == IF w = 1 THEN temp1[1] ELSE XorWords(sum[w - 1], temp1[w])
  IN  Four(LAMBDA w : XorWords(sum[w], temp2))

(* The round keys, from 0. *)
expandEncryptionKey(key) ==
  LET roundKey[r \in 0 .. kRound] ==
        IF r = 0 THEN key
        ELSE aes128KeyExpandAssist(roundKey[r - 1], keygenassist(roundKey[r - 1], Constants[r]))
  IN  roundKey

Reversed(roundKey) ==
  [i \in 0 .. kRound |-> IF i \in {0, kRound} THEN roundKey[kRound - i]
                         ELSE aesimc(roundKey[kRound - i])]
expandDecryptionKey(key) == Reversed(expandEncryptionKey(key))

encryptInPlace(roundKey, block) ==
  LET rounds[r \in 1 .. kRound, state \in Seq(Seq(Seq({0, 1})))] ==
        IF r = kRound THEN aesenclast(state, roundKey[r])
        ELSE rounds[r + 1, aesenc(state, roundKey[r])]
  IN  rounds[1, XorBlocks(block, roundKey[0])]

(* The fixed-key hash of a block. *)
inPlaceHash(roundKey, block) == XorBlocks(encryptInPlace(roundKey, block), block)
=============================================================================
