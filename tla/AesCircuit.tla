----------------------------- MODULE AesCircuit -----------------------------
(***************************************************************************)
(* AES on secret bits (fbpcf/mpc_std_lib/aes_circuit), for bits that are   *)
(* bool or Bit: the S-box and its inverse, MixColumns as a straight-line   *)
(* program, the rounds and the counter mode.  The gates are those of the   *)
(* code, in its order.                                                     *)
(***************************************************************************)
EXTENDS Aes, Circuits

a & b == a * b

(* The nonlinear middle of both S-boxes: from the 27 sums T of the input   *)
(* (and D) to M20 to M23, to M37 to M45, and to the products M46 to M63.   *)
sharedSBoxSums(T, D) ==
  LET
      M1 == T[13] & T[6]  M2 == T[23] & T[8]  M3 == T[14] ^^ M1  M4 == T[19] & D
      M5 == M4 ^^ M1  M6 == T[3] & T[16]  M7 == T[22] & T[9]  M8 == T[26] ^^ M6
      M9 == T[20] & T[17]  M10 == M9 ^^ M6  M11 == T[1] & T[15]  M12 == T[4] & T[27]
      M13 == M12 ^^ M11  M14 == T[2] & T[10]  M15 == M14 ^^ M11  M16 == M3 ^^ M2
      M17 == M5 ^^ T[24]  M18 == M8 ^^ M7  M19 == M10 ^^ M15  M20 == M16 ^^ M13
      M21 == M17 ^^ M15  M22 == M18 ^^ M13  M23 == M19 ^^ T[25]
  IN <<M20, M21, M22, M23>>

sharedSBoxInversion(sums) ==
  LET
      M20 == sums[1]  M21 == sums[2]  M22 == sums[3]  M23 == sums[4]  M24 == M22 ^^ M23
      M25 == M22 & M20  M26 == M21 ^^ M25  M27 == M20 ^^ M21  M28 == M23 ^^ M25
      M29 == M28 & M27  M30 == M26 & M24  M31 == M20 & M23  M32 == M27 & M31
      M33 == M27 ^^ M25  M34 == M21 & M22  M35 == M24 & M34  M36 == M24 ^^ M25
      M37 == M21 ^^ M29  M38 == M32 ^^ M33  M39 == M23 ^^ M30  M40 == M35 ^^ M36
      M41 == M38 ^^ M40  M42 == M37 ^^ M39  M43 == M37 ^^ M38  M44 == M39 ^^ M40
      M45 == M42 ^^ M41
  IN <<M37, M38, M39, M40, M41, M42, M43, M44, M45>>

sharedSBoxProducts(T, D, inverted) ==
  LET M(i) == inverted[i - 36]
  IN <<M(44) & T[6], M(40) & T[8], M(39) & D, M(43) & T[16], M(38) & T[9], M(37) & T[17],
       M(42) & T[15], M(45) & T[27], M(41) & T[10], M(44) & T[13], M(40) & T[23],
       M(39) & T[19], M(43) & T[3], M(38) & T[22], M(37) & T[20], M(42) & T[1],
       M(45) & T[4], M(41) & T[2]>>

sharedSBox(T, D) ==
  sharedSBoxProducts(T, D, sharedSBoxInversion(sharedSBoxSums(T, D)))

sBoxSums(U) ==
  LET
      T1 == U[1] ^^ U[4]  T2 == U[1] ^^ U[6]  T3 == U[1] ^^ U[7]  T4 == U[4] ^^ U[6]
      T5 == U[5] ^^ U[7]  T6 == T1 ^^ T5  T7 == U[2] ^^ U[3]  T8 == U[8] ^^ T6
      T9 == U[8] ^^ T7  T10 == T6 ^^ T7  T11 == U[2] ^^ U[6]  T12 == U[3] ^^ U[6]
      T13 == T3 ^^ T4  T14 == T6 ^^ T11  T15 == T5 ^^ T11  T16 == T5 ^^ T12
      T17 == T9 ^^ T16  T18 == U[4] ^^ U[8]  T19 == T7 ^^ T18  T20 == T1 ^^ T19
      T21 == U[7] ^^ U[8]  T22 == T7 ^^ T21  T23 == T2 ^^ T22  T24 == T2 ^^ T10
      T25 == T20 ^^ T17  T26 == T3 ^^ T16  T27 == T1 ^^ T12
  IN <<T1, T2, T3, T4, T5, T6, T7, T8, T9, T10, T11, T12, T13, T14, T15, T16,
       T17, T18, T19, T20, T21, T22, T23, T24, T25, T26, T27>>

sBoxOutput(products) ==
  LET
      M(i) == products[i - 45]
      L0 == M(61) ^^ M(62)  L1 == M(50) ^^ M(56)  L2 == M(46) ^^ M(48)
      L3 == M(47) ^^ M(55)  L4 == M(54) ^^ M(58)  L5 == M(49) ^^ M(61)
      L6 == M(62) ^^ L5  L7 == M(46) ^^ L3  L8 == M(51) ^^ M(59)  L9 == M(52) ^^ M(53)
      L10 == M(53) ^^ L4  L11 == M(60) ^^ L2  L12 == M(48) ^^ M(51)
      L13 == M(50) ^^ L0  L14 == M(52) ^^ M(61)  L15 == M(55) ^^ L1
      L16 == M(56) ^^ L0  L17 == M(57) ^^ L1  L18 == M(58) ^^ L8  L19 == M(63) ^^ L4
      L20 == L0 ^^ L1  L21 == L1 ^^ L7  L22 == L3 ^^ L12  L23 == L18 ^^ L2
      L24 == L15 ^^ L9  L25 == L6 ^^ L10  L26 == L7 ^^ L9  L27 == L8 ^^ L10
      L28 == L11 ^^ L14  L29 == L11 ^^ L17
  IN <<
       L6 ^^ L24, 1 ^^ (L16 ^^ L26), 1 ^^ (L19 ^^ L28), L6 ^^ L21,
       L20 ^^ L22, L25 ^^ L29, 1 ^^ (L13 ^^ L27), 1 ^^ (L6 ^^ L23)>>

sBox(U) == sBoxOutput(sharedSBox(sBoxSums(U), U[8]))

(* The sums T[5], T[7], T[11], T[12], T[18] and T[21] are not used.        *)
inverseSBoxSums(U) ==
  LET
      T23 == U[1] ^^ U[4]  T22 == 1 ^^ (U[2] ^^ U[4])  T2 == 1 ^^ (U[1] ^^ U[2])
      T1 == U[4] ^^ U[5]  T24 == 1 ^^ (U[5] ^^ U[8])  R5 == U[7] ^^ U[8]
      T8 == 1 ^^ (U[2] ^^ T23)  T19 == T22 ^^ R5  T9 == 1 ^^ (U[8] ^^ T1)
      T10 == T2 ^^ T24  T13 == T2 ^^ R5  T3 == T1 ^^ R5  T25 == 1 ^^ (U[3] ^^ T1)
      R13 == U[2] ^^ U[7]  T17 == 1 ^^ (U[3] ^^ T19)  T20 == T24 ^^ R13
      T4 == U[5] ^^ T8  R17 == 1 ^^ (U[3] ^^ U[6])  R18 == 1 ^^ (U[6] ^^ U[7])
      R19 == 1 ^^ (U[3] ^^ U[5])  T6 == T22 ^^ R17  T16 == R13 ^^ R19
      T27 == T1 ^^ R18  T15 == T10 ^^ T27  T14 == T10 ^^ R18  T26 == T3 ^^ T16
  IN <<T1, T2, T3, T4, 0, T6, 0, T8, T9, T10, 0, 0, T13, T14, T15, T16,
       T17, 0, T19, T20, 0, T22, T23, T24, T25, T26, T27>>

inverseSBoxOutput(products) ==
  LET
      M(i) == products[i - 45]
      P0 == M(52) ^^ M(61)  P1 == M(58) ^^ M(59)  P2 == M(54) ^^ M(62)
      P3 == M(47) ^^ M(50)  P4 == M(48) ^^ M(56)  P5 == M(46) ^^ M(51)
      P6 == M(49) ^^ M(60)  P7 == P0 ^^ P1  P8 == M(50) ^^ M(53)  P9 == M(55) ^^ M(63)
      P10 == M(57) ^^ P4  P11 == P0 ^^ P3  P12 == M(46) ^^ M(48)
      P13 == M(49) ^^ M(51)  P14 == M(49) ^^ M(62)  P15 == M(54) ^^ M(59)
      P16 == M(57) ^^ M(61)  P17 == M(58) ^^ P2  P18 == M(63) ^^ P5  P19 == P2 ^^ P3
      P20 == P4 ^^ P6  P22 == P2 ^^ P7  P23 == P7 ^^ P8  P24 == P5 ^^ P7
      P25 == P6 ^^ P10  P26 == P9 ^^ P11  P27 == P10 ^^ P18  P28 == P11 ^^ P25
      P29 == P15 ^^ P20
  IN <<
       P13 ^^ P22, P26 ^^ P29, P17 ^^ P28, P12 ^^ P22, P23 ^^ P27,
       P19 ^^ P24, P14 ^^ P23, P9 ^^ P16>>

inverseSBox(U) ==
  LET D == U[1] ^^ (1 ^^ (U[3] ^^ U[6]))
  IN  inverseSBoxOutput(sharedSBox(inverseSBoxSums(U), D))

(* The straight-line program of eprint 2019/833, which numbers the bits of *)
(* a byte from the lowest.                                                 *)
mixColumns(word) ==
  LET X == [n \in 0 .. 31 |-> word[n \div 8 + 1][8 - (n % 8)]]
      T0 == X[0] ^^ X[8]  T1 == X[16] ^^ X[24]  T2 == X[1] ^^ X[9]
      T3 == X[17] ^^ X[25]  T4 == X[2] ^^ X[10]  T5 == X[18] ^^ X[26]
      T6 == X[3] ^^ X[11]  T7 == X[19] ^^ X[27]  T8 == X[4] ^^ X[12]
      T9 == X[20] ^^ X[28]  T10 == X[5] ^^ X[13]  T11 == X[21] ^^ X[29]
      T12 == X[6] ^^ X[14]  T13 == X[22] ^^ X[30]  T14 == X[23] ^^ X[31]
      T15 == X[7] ^^ X[15]  T16 == X[8] ^^ T1  Y0 == T15 ^^ T16  T17 == X[7] ^^ X[23]
      T18 == X[24] ^^ T0  Y16 == T14 ^^ T18  T19 == T1 ^^ Y16  Y24 == T17 ^^ T19
      T20 == X[27] ^^ T14  T21 == T0 ^^ Y0  Y8 == T17 ^^ T21  T22 == T5 ^^ T20
      Y19 == T6 ^^ T22  T23 == X[11] ^^ T15  T24 == T7 ^^ T23  Y3 == T4 ^^ T24
      T25 == X[2] ^^ X[18]  T26 == T17 ^^ T25  T27 == T9 ^^ T23  T28 == T8 ^^ T20
      T29 == X[10] ^^ T2  Y2 == T5 ^^ T29  T30 == X[26] ^^ T3  Y18 == T4 ^^ T30
      T31 == X[9] ^^ X[25]  T32 == T25 ^^ T31  Y10 == T30 ^^ T32  Y26 == T29 ^^ T32
      T33 == X[1] ^^ T18  T34 == X[30] ^^ T11  Y22 == T12 ^^ T34  T35 == X[14] ^^ T13
      Y6 == T10 ^^ T35  T36 == X[5] ^^ X[21]  T37 == X[30] ^^ T17  T38 == X[17] ^^ T16
      T39 == X[13] ^^ T8  Y5 == T11 ^^ T39  T40 == X[12] ^^ T36  T41 == X[29] ^^ T9
      Y21 == T10 ^^ T41  T42 == X[28] ^^ T40  Y13 == T41 ^^ T42  Y29 == T39 ^^ T42
      T43 == X[15] ^^ T12  Y7 == T14 ^^ T43  T44 == X[14] ^^ T37  Y31 == T43 ^^ T44
      T45 == X[31] ^^ T13  Y15 == T44 ^^ T45  Y23 == T15 ^^ T45  T46 == T12 ^^ T36
      Y14 == Y6 ^^ T46  T47 == T31 ^^ T33  Y17 == T19 ^^ T47  T48 == T6 ^^ Y3
      Y11 == T26 ^^ T48  T49 == T2 ^^ T38  Y25 == Y24 ^^ T49  T50 == T7 ^^ Y19
      Y27 == T26 ^^ T50  T51 == X[22] ^^ T46  Y30 == T11 ^^ T51  T52 == X[19] ^^ T28
      Y20 == X[28] ^^ T52  T53 == X[3] ^^ T27  Y4 == X[12] ^^ T53  T54 == T3 ^^ T33
      Y9 == Y8 ^^ T54  T55 == T21 ^^ T31  Y1 == T38 ^^ T55  T56 == X[4] ^^ T17
      T57 == X[19] ^^ T56  Y12 == T27 ^^ T57  T58 == X[3] ^^ T28  T59 == T17 ^^ T58
      Y28 == X[20] ^^ T59
      Y == <<Y0, Y1, Y2, Y3, Y4, Y5, Y6, Y7, Y8, Y9, Y10, Y11, Y12, Y13, Y14, Y15,
             Y16, Y17, Y18, Y19, Y20, Y21, Y22, Y23, Y24, Y25, Y26, Y27, Y28, Y29,
             Y30, Y31>>
  IN Four(LAMBDA i : Eight(LAMBDA j : Y[8 * i + 1 - j]))

(* MixColumns has order four. *)
inverseMixColumns(word) == mixColumns(mixColumns(mixColumns(word)))

(* The bytes of two words in a row change places. *)
Swap(block, row, i, j) ==
  Four(LAMBDA w : IF w = i THEN [block[i] EXCEPT ![row] = block[j][row]]
                      ELSE IF w = j THEN [block[j] EXCEPT ![row] = block[i][row]]
                      ELSE block[w])

Forward(block, row) == Swap(Swap(Swap(block, row, 1, 2), row, 2, 3), row, 3, 4)
Halves(block, row) == Swap(Swap(block, row, 1, 3), row, 2, 4)
Backward(block, row) == Swap(Swap(Swap(block, row, 4, 3), row, 3, 2), row, 2, 1)

shiftRow(block) == Backward(Halves(Forward(block, 2), 3), 4)

inverseShiftRow(block) == Backward(Halves(Forward(block, 4), 3), 2)

-----------------------------------------------------------------------------
EachByte(block, f(_)) == Four(LAMBDA w : Four(LAMBDA b : f(block[w][b])))
EachWord(block, f(_)) == Four(LAMBDA w : f(block[w]))
AddRoundKey(block, key) == XorBlocks(block, key)

(* Blocks, of 128 bits. *)
convertToWords(bits) ==
  [n \in 1 .. Len(bits) \div 128 |->
     Four(LAMBDA w : Four(LAMBDA b : Eight(LAMBDA i :
       bits[128 * (n - 1) + 32 * (w - 1) + 8 * (b - 1) + i])))]

WordBits(word) == word[1] \o word[2] \o word[3] \o word[4]

convertFromWords(blocks) ==
  LET bits(block) == WordBits(Four(LAMBDA w : WordBits(block[w])))
  IN  FlattenSeq([n \in DOMAIN blocks |-> bits(blocks[n])])

State == Seq(Seq(Seq({0, 1})))

encryptBlock(block, roundKeys) ==
  LET rounds[r \in 1 .. 10, state \in State] ==
        LET shifted == shiftRow(EachByte(state, sBox))
        IN IF r = 10 THEN AddRoundKey(shifted, roundKeys[11])
           ELSE rounds[r + 1, AddRoundKey(EachWord(shifted, mixColumns), roundKeys[r + 1])]
  IN rounds[1, AddRoundKey(block, roundKeys[1])]

decryptBlock(block, roundKeys) ==
  LET rounds[r \in 0 .. 9, state \in State] ==
        LET undone == EachByte(inverseShiftRow(AddRoundKey(state, roundKeys[r + 1])), inverseSBox)
        IN IF r = 9 THEN AddRoundKey(undone, roundKeys[11])
           ELSE rounds[r + 1, EachWord(undone, inverseMixColumns)]
  IN rounds[0, block]

kExpandedKeyWidth == 1408

(* What the bits of every block become; sizes that do not fit throw.       *)
EachBlock(bits, keys, f(_, _)) ==
  IF Len(bits) % 128 # 0 \/ Len(keys) # kExpandedKeyWidth THEN Throws
  ELSE LET words == convertToWords(bits)
           roundKeys == convertToWords(keys)
       IN convertFromWords([n \in DOMAIN words |-> f(words[n], roundKeys)])

encrypt(plaintext, expandedEncKey) == EachBlock(plaintext, expandedEncKey, encryptBlock)
decrypt(ciphertext, expandedDecKey) == EachBlock(ciphertext, expandedDecKey, decryptBlock)

(* Counter mode, the same in both directions; the mask is as long. *)
XorWithMask(plaintext, encryptedMask) ==
  IF encryptedMask = Throws \/ Len(encryptedMask) # Len(plaintext) THEN Throws
  ELSE [i \in DOMAIN plaintext |-> plaintext[i] ^^ encryptedMask[i]]

encryptCtr(plaintext, expandedEncKey, mask) ==
  XorWithMask(plaintext, encrypt(mask, expandedEncKey))
=============================================================================
