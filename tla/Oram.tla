-------------------------------- MODULE Oram --------------------------------
(***************************************************************************)
(* The write-only ORAMs (fbpcf/mpc_std_lib/oram): two parties hold the     *)
(* additive shares of an array and add a secret value at a secret index.   *)
(* LinearOram does so for every index obliviously.  WriteOnlyOram expands  *)
(* a tree of keys which are the same for both parties except on the path   *)
(* to the index.  Both parties are modelled together: an operator takes    *)
(* and returns what each of them has, Alice's first.  A secret is shared   *)
(* as the sum of the parties' bits; indices count from 0.                  *)
(***************************************************************************)
EXTENDS Adapters

Sum(u, v) == XorEach(u, v)

(* The smallest number that times 2^i is not below the length. *)
Needed(length, i) == (length + 2 ^ i - 1) \div 2 ^ i
IndexWidth(size) == CHOOSE w \in 0 .. size : 2 ^ w >= size /\ \A n \in 0 .. w - 1 : 2 ^ n < size

-----------------------------------------------------------------------------
(* ObliviousDeltaCalculator: on secrets, opened to both.                   *)

\* The sum that is off the path is taken for the other.
calculateDeltaOfOther(delta0, delta1, alpha) ==
  [delta |-> mux(alpha, delta0, delta1),
   t0    |-> Xor(lsb(delta0), Not(alpha)),
   t1    |-> Xor(lsb(delta1), alpha)]

calculateDelta(delta0, delta1, alpha) ==
  [delta |-> mux(alpha, delta1, delta0),
   t0    |-> Xor(lsb(delta0), Not(alpha)),
   t1    |-> Xor(lsb(delta1), alpha)]

(* SinglePointArrayGenerator: an array of indicators and keys for each     *)
(* party, as <<indicator, key>>, grown a level at a time.  The expander    *)
(* takes a key to two, in the same way at both parties.                    *)
ChildrenOf(arrays, expander) ==
  LET party(p) == [j \in DOMAIN arrays[p] |-> expander[arrays[p][j][2]]]
  IN  <<party(1), party(2)>>

(* Of the keys of both parties, for the two sides. *)
SumsOf(children) ==
  FoldLeft(LAMBDA s, pair : <<Sum(s[1], pair[1]), Sum(s[2], pair[2])>>,
           children[1][1], Tail(children[1]) \o children[2])

child(t, key, side, d) ==
  IF t = 0 THEN <<lsb(key), key>>
  ELSE <<Xor(lsb(key), IF side = 1 THEN d.t0 ELSE d.t1), Sum(key, d.delta)>>

grow(arrays, children, d) ==
  LET party(p) == FlattenSeq([j \in DOMAIN arrays[p] |->
        [side \in 1 .. 2 |-> child(arrays[p][j][1], children[p][j][side], side, d)]])
  IN  <<party(1), party(2)>>

growWith(arrays, children, sums, alpha) ==
  grow(arrays, children, calculateDelta(sums[1], sums[2], alpha))
growTo(arrays, children, alpha) == growWith(arrays, children, SumsOf(children), alpha)

expandArray(arrays, alpha, expander) == growTo(arrays, ChildrenOf(arrays, expander), alpha)

(* One level for each bit of the index, from the highest; what the length  *)
(* does not need is cut off.                                               *)
cutOff(arrays, needed) == <<SubSeq(arrays[1], 1, needed), SubSeq(arrays[2], 1, needed)>>

generateSinglePointArrays(index, length, firstKeys, expander) ==
  LET width == Len(index)
      level(arrays, i) ==
        cutOff(expandArray(arrays, index[width + 1 - i], expander), Needed(length, width - i))
  IN  FoldLeftDomain(level, << <<<<1, firstKeys[1]>>>>, <<<<0, firstKeys[2]>>>> >>, index)

(* DummySinglePointArrayGenerator: the keys off the index are 0. *)
dummySinglePointArrays(index, length, keys) ==
  LET zero == [b \in DOMAIN keys[1] |-> 0]
      at == convertBitsToInt(FALSE, index) + 1
  IN  [p \in 1 .. 2 |-> [j \in 1 .. length |->
         IF j = at THEN <<2 - p, keys[p]>> ELSE <<0, zero>>]]

-----------------------------------------------------------------------------
(* DifferenceCalculator.                                                   *)

recoverIndicators(indicators, indicatorSumWidth) ==
  Last(minus(convertIntToBits(indicatorSumWidth, indicators[1]),
             convertIntToBits(indicatorSumWidth, indicators[2])))

(* The indicators are inputs of integers of this width, and throw when     *)
(* they do not fit.                                                        *)
firstMinusSecond(pair) == SecretMinus(pair[1], pair[2])

calculateDifference(indicators, minuend, subtrahends, indicatorSumWidth) ==
  IF \E p \in 1 .. 2 : ~processSingleInput(FALSE, indicatorSumWidth, indicators[p])
  THEN Throws
  ELSE firstMinusSecond(obliviousSwapOfFields(minuend, firstMinusSecond(subtrahends),
                                              recoverIndicators(indicators, indicatorSumWidth)))

(* DummyDifferenceCalculator: at one party, in the clear. *)
dummyCalculateDifference(indicators, minuend, subtrahends, indicatorSumWidth) ==
  LET indicator == ((indicators[1] - indicators[2] + 1) % 2 ^ indicatorSumWidth) - 1
      subtrahend == Minus(subtrahends[1], subtrahends[2])
  IN  CASE indicator = 1  -> Minus(minuend, subtrahend)
        [] indicator = -1 -> Minus(subtrahend, minuend)
        [] OTHER -> Throws

(* A calculator has a width for the sums; one of them is the dummy. *)
Difference(calculator, indicators, minuend, subtrahends) ==
  IF calculator.isDummy
  THEN dummyCalculateDifference(indicators, minuend, subtrahends, calculator.indicatorSumWidth)
  ELSE calculateDifference(indicators, minuend, subtrahends, calculator.indicatorSumWidth)

-----------------------------------------------------------------------------
(* WriteOnlyOram: the masks that one entry of a batch adds to both shares. *)

addIfIndicated(arrays, rst, d) ==
  IF d = Throws THEN Throws
  ELSE [p \in 1 .. 2 |-> [j \in DOMAIN arrays[p] |->
          IF arrays[p][j][1] = 1 THEN Plus(rst[p][j], d) ELSE rst[p][j]]]

masksFrom(arrays, rst, value, calculator) ==
  addIfIndicated(arrays, rst,
    Difference(calculator,
               [p \in 1 .. 2 |-> FoldLeft(LAMBDA s, item : s + item[1], 0, arrays[p])],
               value,
               [p \in 1 .. 2 |-> FoldLeft(Plus, Zero(Len(value)), rst[p])]))

generateMasks(arrays, value, calculator) ==
  masksFrom(arrays,
            [p \in 1 .. 2 |-> [j \in DOMAIN arrays[p] |->
               generateFromKey(arrays[p][j][2], Len(value))]],
            value, calculator)

(* A batch of entries, each with its index and value, and the single point *)
(* arrays made for it.                                                     *)
addMasks(memories, masks) ==
  IF Throws \in {memories, masks} THEN Throws
  ELSE [p \in 1 .. 2 |-> [j \in DOMAIN memories[p] |-> Plus(memories[p][j], masks[p][j])]]

Fits(batch, size) ==
  batch # <<>> /\ \A i \in DOMAIN batch : batch[i].index # <<>> /\ 2 ^ Len(batch[i].index) >= size

obliviousAddBatch(memories, batch, arrays, calculator) ==
  LET added(ms, i) == addMasks(ms, generateMasks(arrays[i], batch[i].value, calculator))
  IN  IF Fits(batch, Len(memories[1])) THEN FoldLeftDomain(added, memories, batch) ELSE Throws

(* Bob's share is subtracted: his own read turns the sign. *)
publicRead(memories, publicIndex, receiver) ==
  LET mine(p) == memories[p][publicIndex + 1]
  IN  CASE publicIndex >= Len(memories[1]) -> Throws
        [] receiver = 1 -> Minus(mine(1), mine(2))
        [] receiver = 2 -> Negative(Minus(mine(2), mine(1)))

secretRead(memories, publicIndex, p) ==
  IF publicIndex >= Len(memories[1]) THEN Throws
  ELSE IF p = 1 THEN memories[p][publicIndex + 1] ELSE Negative(memories[p][publicIndex + 1])

-----------------------------------------------------------------------------
(* LinearOram.                                                             *)

conditionalExpansionOneLayer(src, zero, condition) ==
  FlattenSeq([j \in DOMAIN src |-> obliviousSwapOfFields(src[j], zero, condition)])

(* The value at its index, and zeros. *)
generateInputValue(value, conditions, range) ==
  LET width == IndexWidth(range)
      layer(rst, k) == \* from the highest bit; what the range does not need is cut off
        SubSeq(conditionalExpansionOneLayer(rst, Zero(Len(value)), conditions[width + 1 - k]),
               1, Needed(range, width - k))
  IN  FoldLeft(layer, <<value>>, [k \in 1 .. width |-> k])

(* Alice draws her shares; Bob is opened the differences. *)
addShares(memories, values, draws) ==
  << [j \in DOMAIN memories[1] |-> Plus(memories[1][j], draws[j])],
     [j \in DOMAIN memories[2] |-> Plus(memories[2][j], SecretMinus(values[j], draws[j]))] >>

linearObliviousAddBatch(memories, batch, draws) ==
  LET size == Len(memories[1])
      added(ms, i) ==
        addShares(ms, generateInputValue(batch[i].value, batch[i].index, size), draws[i])
  IN  IF Fits(batch, size) THEN FoldLeftDomain(added, memories, batch) ELSE Throws

linearPublicRead(memories, publicIndex) ==
  IF publicIndex >= Len(memories[1]) THEN Throws
  ELSE Plus(memories[1][publicIndex + 1], memories[2][publicIndex + 1])

linearSecretRead(memories, publicIndex, p) ==
  IF publicIndex >= Len(memories[1]) THEN Throws ELSE memories[p][publicIndex + 1]
=============================================================================
