------------------------------ MODULE Transfers ------------------------------
(***************************************************************************)
(* Oblivious transfers (fbpcf/engine/tuple_generator/oblivious_transfer)   *)
(* and what the standard library builds on them, with the messages of both *)
(* parties put together: an operator for one party takes what the other    *)
(* sends.  A block is a sequence of bits, its last bit first; hashes and   *)
(* pseudo-random generators are functions, the same at both parties.       *)
(*                                                                         *)
(* In a random correlated transfer (RCOT) the sender has k and delta, the  *)
(* receiver k or k + delta; the sender's last bit is 0 and delta's is 1,   *)
(* so the receiver's last bit is its choice.                               *)
(***************************************************************************)
EXTENDS Circuits

ZeroBlock(width) == [b \in 1 .. width |-> 0]
setLsbTo0(block) == <<0>> \o Tail(block)
XorAll(blocks, zero) == FoldLeft(XorEach, zero, blocks)

-----------------------------------------------------------------------------
(* NpBaseObliviousTransfer, in a group of this order whose generator to    *)
(* the power n is written n: a product of powers is a sum.                 *)

hashPoint(point, nonce) == <<point, nonce>>

(* The receiver's points: d + 1 for a draw d, or what M adds to it. *)
pointsOf(order, globalM, ds, choice) ==
  [i \in DOMAIN choice |-> IF choice[i] = 1 THEN (globalM - (ds[i] + 1)) % order
                                            ELSE (ds[i] + 1) % order]

npSend(order, globalM, rs, points) ==
  << [i \in DOMAIN rs |-> hashPoint((points[i] * rs[i]) % order, 0)],
     [i \in DOMAIN rs |-> hashPoint((globalM * rs[i] - points[i] * rs[i]) % order, 1)] >>

npReceive(order, g, ds, choice) ==
  [i \in DOMAIN choice |-> hashPoint((g[i] * (ds[i] + 1)) % order, choice[i])]

-----------------------------------------------------------------------------
(* IknpShRandomCorrelatedObliviousTransfer, for blocks of any number of    *)
(* bytes (16 in the code).  matrixTranspose gathers the bytes of a column  *)
(* with unpack instructions, whose words double in each round.             *)

unpack(a, b, wordSize, high) ==
  LET half == Len(a) \div 2
      word(x, k) == SubSeq(x, (IF high THEN half ELSE 0) + (k - 1) * wordSize + 1,
                              (IF high THEN half ELSE 0) + k * wordSize)
  IN  FlattenSeq([k \in 1 .. half \div wordSize |-> word(a, k) \o word(b, k)])

unpackRound(buffer, groups) ==
  LET size == Len(buffer) \div groups
      pairs(g, high) == [i \in 1 .. size \div 2 |->
                           unpack(buffer[g * size + 2 * i - 1], buffer[g * size + 2 * i],
                                  groups, high)]
  IN  FlattenSeq([g \in 1 .. groups |-> pairs(g - 1, FALSE) \o pairs(g - 1, TRUE)])

(* Eight times as many rows as a row has bytes. *)
gatherBytes(rows) ==
  LET RoundsOf(m) == CHOOSE n \in 0 .. m : 2 ^ n = m
  IN  FoldLeft(LAMBDA buffer, r : unpackRound(buffer, 2 ^ (r - 1)), rows,
               [r \in 1 .. RoundsOf(Len(rows[1])) |-> r])

(* The topmost bits of the bytes of eight blocks make a row; then every    *)
(* byte moves up by a bit.                                                 *)
transposeSquare(square) ==
  LET bytes(row) == [k \in 1 .. Len(row) \div 8 |-> SubSeq(row, 8 * k - 7, 8 * k)]
      buffer == gatherBytes([i \in DOMAIN square |-> bytes(square[i])])
      topBits(words, i) == [n \in DOMAIN words |-> words[n][i]]
      row(j, i) == FlattenSeq([k \in 1 .. 8 |-> topBits(buffer[8 * j + k], i)])
  IN  FlattenSeq([j \in 1 .. Len(square) \div 8 |-> [i \in 1 .. 8 |-> row(j - 1, i)]])

matrixTranspose(src, width) ==
  FlattenSeq([b \in 1 .. Len(src) \div width |->
                transposeSquare(SubSeq(src, (b - 1) * width + 1, b * width))])

BlockCount(size, width) == (size + width - 1) \div width

(* prg[j][b] is the block that the generator with seed j gives, b-th.  The *)
(* receiver's choices are the first row of each square.                    *)
correctionsOf(choices, prg0, prg1) ==
  [b \in DOMAIN choices |-> [j \in DOMAIN prg0 |->
     XorEach(XorEach(prg0[j][b], prg1[j][b]), choices[b])]]

iknpReceive(size, width, choices, prg0) ==
  SubSeq(matrixTranspose(FlattenSeq([b \in 1 .. BlockCount(size, width) |->
           <<choices[b]>> \o [j \in DOMAIN prg0 |-> prg0[j][b]]]), width), 1, size)

\* The corrections are added whatever the bit of delta.
iknpSendUnconditionally(size, width, delta, prgs, u) ==
  SubSeq(matrixTranspose(FlattenSeq([b \in 1 .. BlockCount(size, width) |->
           <<ZeroBlock(width)>> \o [j \in DOMAIN prgs |-> XorEach(prgs[j][b], u[b][j])]]),
         width), 1, size)

(* prgs[j] has the seed that the base transfer gave for delta's bit j + 1. *)
iknpSend(size, width, delta, prgs, u) ==
  SubSeq(matrixTranspose(FlattenSeq([b \in 1 .. BlockCount(size, width) |->
           <<ZeroBlock(width)>>
           \o [j \in DOMAIN prgs |-> IF delta[j + 1] = 1 THEN XorEach(prgs[j][b], u[b][j])
                                                         ELSE prgs[j][b]]]),
         width), 1, size)

-----------------------------------------------------------------------------
(* SinglePointCot: a tree of keys that the receiver misses one leaf of.    *)

expandLayer(layer, expander) ==
  FlattenSeq([j \in DOMAIN layer |-> <<expander[layer[j]][1], expander[layer[j]][2]>>])

(* The keys on the left or on the right of their parents. *)
SideOf(layer, side) == [j \in 1 .. Len(layer) \div 2 |-> layer[2 * j - 1 + side]]

constructALayerOfKeyForSender(previous, baseCot, delta, expander, hash) ==
  LET rst == expandLayer(previous, expander)
  IN  [keys  |-> rst,
       masks |-> << XorAll(SideOf(rst, 0), hash[baseCot]),
                    XorAll(SideOf(rst, 1), hash[XorEach(baseCot, delta)]) >>]

(* The key that is missing is replaced by the mask without the others. *)
constructALayerOfKeyForReceiver(previous, baseCot, missingPosition, masks, expander, hash) ==
  LET rst  == expandLayer(previous, expander)
      side == lsb(baseCot)
      toFix == 2 * missingPosition + side + 1
      others == [j \in 1 .. Len(rst) \div 2 |->
                   IF 2 * j - 1 + side = toFix THEN ZeroBlock(Len(baseCot))
                                               ELSE rst[2 * j - 1 + side]]
  IN  [rst EXCEPT ![toFix] = XorAll(others, XorEach(hash[baseCot], masks[side + 1]))]

(* The sender's keys, and what it sends: the masks, and delta plus all.    *)
spcotSend(seed, baseCot, delta, expander, hash) ==
  LET grown == FoldLeft(LAMBDA s, base :
                   LET layer == constructALayerOfKeyForSender(s.keys, base, delta, expander, hash)
                   IN  [keys |-> layer.keys, masks |-> Append(s.masks, layer.masks)],
                 [keys |-> <<seed>>, masks |-> <<>>], baseCot)
      keys == [j \in DOMAIN grown.keys |-> setLsbTo0(grown.keys[j])]
  IN  [keys |-> keys, masks |-> grown.masks, totalXor |-> XorAll(keys, delta)]

(* The receiver's keys: delta is added to the one at its position. *)
spcotReceive(baseCot, sent, expander, hash) ==
  LET layer(s, i) ==
        [keys |-> constructALayerOfKeyForReceiver(s.keys, baseCot[i], s.position, sent.masks[i],
                                                  expander, hash),
         position |-> 2 * s.position + Not(lsb(baseCot[i]))]
      zero  == ZeroBlock(Len(sent.totalXor))
      grown == FoldLeftDomain(layer, [keys |-> <<zero>>, position |-> 0], baseCot)
      rst == [j \in DOMAIN grown.keys |->
                IF j = grown.position + 1 THEN zero ELSE setLsbTo0(grown.keys[j])]
  IN  [rst EXCEPT ![grown.position + 1] = XorAll(rst, sent.totalXor)]

(* RegularErrorMultiPointCot: as many, one after the other. *)
Slices(baseCot, weight) ==
  LET n == Len(baseCot) \div weight
  IN  [i \in 1 .. weight |-> SubSeq(baseCot, (i - 1) * n + 1, i * n)]

(* TenLocalLinearMatrixMultiplier: each result is the sum of ten, drawn    *)
(* from mask + 1 numbers and taken back into the source.                   *)
multiplyWithRandomMatrix(draws, src) ==
  LET mask == (CHOOSE n \in {2 ^ k : k \in 1 .. Len(src)} :
                 n - 1 >= Len(src) /\ (n = 2 \/ n \div 2 - 1 < Len(src))) - 1
      index(draw) == (draw % (mask + 1)) - (IF draw % (mask + 1) >= Len(src) THEN Len(src) ELSE 0)
  IN  [i \in DOMAIN draws |->
         XorAll([j \in DOMAIN draws[i] |-> src[index(draws[i][j]) + 1]], ZeroBlock(Len(src[1])))]

(* RcotExtender: the first base results are multiplied, the last are for   *)
(* the points, whose results are added.                                    *)
extendRcot(baseCot, forMatrix, draws, errors) ==
  LET product == multiplyWithRandomMatrix(draws, SubSeq(baseCot, 1, forMatrix))
  IN  [i \in DOMAIN product |-> XorEach(product[i], errors[i])]

-----------------------------------------------------------------------------
(* ExtenderBasedRandomCorrelatedObliviousTransfer: the last results of an  *)
(* extension are kept for the next one.                                    *)

extendBuffer(s, baseSize, extend) ==
  LET results == extend[s.extended, s.base]
      kept    == Len(results) - baseSize
  IN  [base |-> SubSeq(results, kept + 1, Len(results)), results |-> SubSeq(results, 1, kept),
       index |-> 0, extended |-> s.extended + 1, rst |-> s.rst]

setBaseRcotResults(base, extend) ==
  extendBuffer([base |-> base, extended |-> 1, rst |-> <<>>], Len(base), extend)

(* The results move to rst, as many as there are, until it has enough. *)
rcot(s, size, baseSize, extend) ==
  FoldLeft(LAMBDA t, k :
             LET ready == IF t.index >= Len(t.results) THEN extendBuffer(t, baseSize, extend) ELSE t
             IN  [ready EXCEPT !.rst = Append(@, ready.results[ready.index + 1]), !.index = @ + 1],
           [s EXCEPT !.rst = <<>>], [k \in 1 .. size |-> k])

(* DummyMatrixMultiplier, DummyRcotExtender: around and around. *)
dummyExtend(size, src) == [i \in 1 .. size |-> src[((i - 1) % Len(src)) + 1]]

(* DummySinglePointCot and DummyMultiPointCot: the sender's keys and delta *)
(* are sent as they are.                                                   *)
dummyExtendSender(draws) == [j \in DOMAIN draws |-> setLsbTo0(draws[j])]

dummySpcotReceive(baseCot, keys, delta) ==
  LET position == FoldLeft(LAMBDA p, base : 2 * p + Not(lsb(base)), 0, baseCot)
  IN  [keys EXCEPT ![position + 1] = XorEach(@, delta)]

dummyMpcotReceive(positions, keys, delta) ==
  [j \in DOMAIN keys |-> IF j \in positions THEN XorEach(keys[j], delta) ELSE keys[j]]

-----------------------------------------------------------------------------
(* RcotBasedBidirectionObliviousTransfer: each party has two messages for  *)
(* the other and a choice.  A party is a record of these, of its RCOT      *)
(* results as a sender (with its delta) and as a receiver.  A number is    *)
(* masked by as many of the last bits of a key.                            *)

kNumberBits == 2

maskBit(src, key) == Xor(src, lsb(key))
unmaskBit(key, choice, c0, c1) == Xor(lsb(key), Xor(c0, And(choice, Xor(c0, c1))))

getLastBits(key) == convertBitsToInt(FALSE, SubSeq(key, 1, kNumberBits))
maskNumber(src, key) == (src - getLastBits(key)) % 2 ^ kNumberBits
unmaskNumber(key, choice, c0, c1) ==
  (getLastBits(key) + (c0 + choice * (c1 - c0))) % 2 ^ kNumberBits

(* The choices, hidden by the bits of the results: the messages change     *)
(* places when the peer's result is not of its choice.                     *)
maskedChoice(received, choice) == [i \in DOMAIN choice |-> Xor(lsb(received[i]), choice[i])]

maskedInputs(party, flipIndicator, hash, ofBits) ==
  LET mask(src, k) == IF ofBits THEN maskBit(src, k) ELSE maskNumber(src, k)
      key(i, b) == hash[IF flipIndicator[i] = b THEN party.sender0[i]
                                                ELSE XorEach(party.sender0[i], party.delta)]
  IN  << [i \in DOMAIN party.input0 |-> mask(party.input0[i], key(i, 0))],
         [i \in DOMAIN party.input1 |-> mask(party.input1[i], key(i, 1))] >>

(* Of its two messages, what one party learns from the peer. *)
Learnt(party, correction, hash, ofBits) ==
  LET unmask(key, choice, c0, c1) ==
        IF ofBits THEN unmaskBit(key, choice, c0, c1) ELSE unmaskNumber(key, choice, c0, c1)
  IN  [i \in DOMAIN party.choice |->
         unmask(hash[party.received[i]], party.choice[i], correction[1][i], correction[2][i])]

biDirectionOTOfBits(party, peer, hash) ==
  Learnt(party, maskedInputs(peer, maskedChoice(party.received, party.choice), hash, TRUE),
         hash, TRUE)

biDirectionOTOfNumbers(party, peer, hash) ==
  Learnt(party, maskedInputs(peer, maskedChoice(party.received, party.choice), hash, FALSE),
         hash, FALSE)

(* DummyBidirectionObliviousTransfer: both messages are sent. *)
dummyBiDirectionOT(party, peer) ==
  [i \in DOMAIN party.choice |-> IF party.choice[i] = 1 THEN peer.input1[i] ELSE peer.input0[i]]

-----------------------------------------------------------------------------
(* The product of a matrix of one party and shared labels                  *)
(* (fbpcf/mpc_std_lib/walr_multiplication), whose noise the other adds.    *)

(* COTWithRandomMessage: of the sender's two keys the receiver has the one *)
(* of its choice.                                                          *)
sendRandomMessage(sender0, delta, flipIndicator) ==
  LET key(i, b) == IF flipIndicator[i] = b THEN sender0[i] ELSE XorEach(sender0[i], delta)
  IN  << [i \in DOMAIN sender0 |-> key(i, 0)], [i \in DOMAIN sender0 |-> key(i, 1)] >>

(* NumberMapper.  A double is a number of quarters, an unsigned fixed      *)
(* point number has few bits.                                              *)
kUnit  == 4
kFixed == 2 ^ 7

mapToFixedPointType(divisor, input) ==
  LET product == input * divisor
      integer == IF product < 0 THEN -(-product \div kUnit) ELSE product \div kUnit
  IN  integer % kFixed

(* A number of divisors. *)
mapToSignedDouble(input) == IF input >= kFixed \div 2 THEN input - kFixed ELSE input

(* OTBasedMatrixMultiplication, the owner of the features (columns): the   *)
(* noise is what the other party's key gives when its choice is 0, and the *)
(* correction makes up for it when it is 1.                                *)
sendFeatures(features, labels, messages, prg, divisor) ==
  LET key(b, i, f) == prg[messages[b + 1][i]][f]
      feature(i, f) == mapToFixedPointType(divisor, features[i][f])
      noise(i, f) == IF labels[i] = 0 THEN key(0, i, f) ELSE key(0, i, f) - feature(i, f)
      correction1(i, f) == IF labels[i] = 0 THEN key(1, i, f) - noise(i, f) - feature(i, f)
                                            ELSE key(1, i, f) - noise(i, f)
  IN  [totalNoise  |-> [f \in DOMAIN features[1] |->
                          FoldLeftDomain(LAMBDA s, i : (s + noise(i, f)) % kFixed, 0, features)],
       corrections |-> [i \in DOMAIN features |-> [f \in DOMAIN features[1] |->
                          correction1(i, f) % kFixed]]]

removeNoise(maskedResult, totalNoise) ==
  [f \in DOMAIN maskedResult |-> mapToSignedDouble((maskedResult[f] - totalNoise[f]) % kFixed)]

(* The owner of the labels. *)
sumLabelled(choice, received, corrections, dpNoise, prg, divisor) ==
  LET corrected(i, f) == prg[received[i]][f] - (IF choice[i] = 1 THEN corrections[i][f] ELSE 0)
  IN  [f \in DOMAIN dpNoise |->
         FoldLeftDomain(LAMBDA s, i : (s + corrected(i, f)) % kFixed,
                        mapToFixedPointType(divisor, dpNoise[f]), choice)]

(* DummyMatrixMultiplication: the labels are opened to the features'       *)
(* owner; the sum is a number of quarters.                                 *)
dummyMatrixVectorMultiplication(features, labels, dpNoise) ==
  [f \in DOMAIN dpNoise |->
     FoldLeftDomain(LAMBDA s, i : s + labels[i] * features[i][f], dpNoise[f], features)]
=============================================================================
