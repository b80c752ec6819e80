------------------------------ MODULE Permuter ------------------------------
(***************************************************************************)
(* Oblivious permutation, shuffling and compaction (fbpcf/mpc_std_lib):    *)
(* the AS-Waksman network, which permutes a batch of secret values with    *)
(* conditional swaps whose conditions one of the parties knows, and what   *)
(* is built on it.  Positions are counted from 1, in orders too; a secret  *)
(* value is a sequence of bits.                                            *)
(***************************************************************************)
EXTENDS Adapters, TLC

Invalid == 2 ^ 30  \* uint32_t(-1), beyond every index

-----------------------------------------------------------------------------
(* AsWaksmanParameterCalculator: the conditions of the first and the last  *)
(* layer of swaps that lead to the expected order, and the orders that are *)
(* left for the two halves between them.                                   *)

findDualIndex(size, index) ==
  CASE index = size /\ size % 2 = 1 -> Invalid
    [] index > size \div 2          -> index - size \div 2
    [] OTHER                        -> index + size \div 2

findIndexInSubPermute(size, index) ==
  IF index > size \div 2 THEN index - size \div 2 ELSE index

(* The conditions that are set, as sets of indices, and the orders so far. *)
findAFreeIndex(size, c) ==
  LET free == 1 .. (size - size \div 2) \ DOMAIN c.secondOrder
  IN  IF free = {} THEN Invalid ELSE Max(free) + size \div 2

(* The value at this index comes from the second half, and then the value  *)
(* that meets it in the first layer comes from the first.                  *)
fillIntoSecondHalf(order, c) ==
  LET half   == Len(order) \div 2
      sub(i) == findIndexInSubPermute(Len(order), i)
      before == order[c.next]
      second == [c EXCEPT !.secondOrder = (sub(c.next) :> sub(before)) @@ @]
      dualBefore == findDualIndex(Len(order), before)
      dualAfter  == CHOOSE i \in DOMAIN order : order[i] = dualBefore
      last == sub(dualAfter) = Len(order) - half
  IN  IF dualBefore = Invalid THEN [second EXCEPT !.next = Invalid]
      ELSE [second EXCEPT
              !.firstSwap = (@ \ {sub(before)}) \cup (IF before <= half THEN {sub(before)} ELSE {}),
              !.firstOrder = (sub(dualAfter) :> sub(before)) @@ @,
              !.secondSwap = (@ \ {sub(dualAfter)})
                             \cup (IF dualAfter > half /\ ~last THEN {sub(dualAfter)} ELSE {}),
              !.next = findDualIndex(Len(order), dualAfter)]

RECURSIVE compute(_, _), continue(_, _)
compute(order, c) == continue(order, fillIntoSecondHalf(order, c))

continue(order, filled) ==
  LET sub(i) == findIndexInSubPermute(Len(order), i)
      free   == findAFreeIndex(Len(order), filled)
  IN  IF /\ filled.next # Invalid
         /\ sub(filled.next) <= Len(order) - Len(order) \div 2
         /\ sub(filled.next) \notin DOMAIN filled.secondOrder
      THEN compute(order, filled)
      ELSE IF free = Invalid THEN filled
      ELSE compute(order, [filled EXCEPT !.next = free, !.secondSwap = @ \ {sub(free)}])

Conditions(size, c) ==
  LET half == size \div 2
      bits(set, n) == [i \in 1 .. n |-> IF i \in set THEN 1 ELSE 0]
  IN  [firstSwap   |-> bits(c.firstSwap, half),
       secondSwap  |-> bits(c.secondSwap, size - half - 1),
       firstOrder  |-> c.firstOrder,
       secondOrder |-> c.secondOrder]

Calculator(order) ==
  Conditions(Len(order),
             compute(order, [firstSwap |-> {}, secondSwap |-> {}, firstOrder |-> << >>,
                             secondOrder |-> << >>, next |-> Len(order)]))

-----------------------------------------------------------------------------
(* The network, by halves.  A call returns the values and the sizes of the *)
(* private inputs it made: the other party makes the same, of zeros.       *)

obliviousSwap(src1, src2, indicators) ==
  LET swapped == [i \in DOMAIN indicators |->
                    obliviousSwapOfBits(src1[i], src2[i], indicators[i])]
  IN  << [i \in DOMAIN swapped |-> swapped[i][1]], [i \in DOMAIN swapped |-> swapped[i][2]] >>

preSubPermutationSwap(src, conditions) ==
  LET half == Len(src) \div 2
      pair == obliviousSwap(SubSeq(src, 1, half), SubSeq(src, half + 1, 2 * half), conditions)
  IN  <<pair[1], pair[2] \o SubSeq(src, 2 * half + 1, Len(src))>>

postSubPermutationSwap(src0, src1, conditions, size) ==
  LET n    == (size - 1) \div 2
      pair == obliviousSwap(SubSeq(src0, 1, n), SubSeq(src1, 1, n), conditions)
  IN  pair[1] \o SubSeq(src0, n + 1, Len(src0)) \o pair[2] \o <<src1[n + 1]>>

processTwoElements(src, condition) ==
  LET pair == obliviousSwap(<<src[1]>>, <<src[2]>>, condition)
  IN  pair[1] \o pair[2]

joinHalves(first, second, calculator, size) ==
  [values |-> postSubPermutationSwap(first.values, second.values, calculator.secondSwap, size),
   inputs |-> <<Len(calculator.firstSwap)>> \o first.inputs \o second.inputs
                \o <<Len(calculator.secondSwap)>>]

RECURSIVE permuteHalves(_, _, _), permuteInOrder(_, _)
permuteInOrder(src, order) ==
  IF Len(order) = 1 THEN [values |-> src, inputs |-> <<>>]
  ELSE IF Len(order) = 2
  THEN [values |-> processTwoElements(src, <<IF order[1] = 2 THEN 1 ELSE 0>>), inputs |-> <<1>>]
  ELSE permuteHalves(src, Calculator(order), Len(order))

permuteHalves(src, calculator, size) ==
  LET halves == preSubPermutationSwap(src, calculator.firstSwap)
  IN  joinHalves(permuteInOrder(halves[1], calculator.firstOrder),
                 permuteInOrder(halves[2], calculator.secondOrder), calculator, size)

\* The party that does not know the order takes the last layer for as large
\* as the first.
RECURSIVE inputsOfOtherSymmetric(_)
inputsOfOtherSymmetric(size) ==
  CASE size = 1 -> <<>>
    [] size = 2 -> <<1>>
    [] OTHER    -> <<size \div 2>> \o inputsOfOtherSymmetric(size \div 2)
                     \o inputsOfOtherSymmetric(size - size \div 2) \o <<size \div 2>>

(* The party that does not know the order. *)
RECURSIVE inputsOfOther(_)
inputsOfOther(size) ==
  CASE size = 1 -> <<>>
    [] size = 2 -> <<1>>
    [] OTHER    -> <<size \div 2>> \o inputsOfOther(size \div 2)
                     \o inputsOfOther(size - size \div 2) \o <<(size - 1) \div 2>>

isValidOrder(order, size) ==
  /\ Len(order) = size
  /\ \A i \in DOMAIN order : order[i] \in 1 .. size
  /\ \A i, j \in DOMAIN order : order[i] = order[j] => i = j

permute(src, size, order) ==
  IF isValidOrder(order, size) THEN permuteInOrder(src, order).values ELSE Throws

(* DummyPermuter: in the clear. *)
dummyPermute(src, order) == [i \in DOMAIN order |-> src[order[i]]]

-----------------------------------------------------------------------------
(* The network for BitStrings, layer by layer.                             *)

RECURSIVE computeChoiceVectors(_, _), choiceVectorsOf(_, _)
computeChoiceVectors(orders, totalNumber) ==
  LET pairs == SelectSeq(orders, LAMBDA order : Len(order) = 2)
  IN  IF Len(orders) * 2 >= totalNumber
      THEN << [k \in DOMAIN pairs |-> IF pairs[k][1] = 2 THEN 1 ELSE 0] >>
      ELSE choiceVectorsOf([k \in DOMAIN orders |-> Calculator(orders[k])], totalNumber)

choiceVectorsOf(calculators, totalNumber) ==
  LET c == calculators
  IN  <<FlattenSeq([k \in DOMAIN c |-> c[k].secondSwap])>>
      \o computeChoiceVectors(
           FlattenSeq([k \in DOMAIN c |-> <<c[k].firstOrder, c[k].secondOrder>>]), totalNumber)
      \o <<FlattenSeq([k \in DOMAIN c |-> c[k].firstSwap])>>

(* The swaps of a layer: in each batch, of its two halves. *)
SwapsOf(batches, skipLast) ==
  LET start(k) == FoldLeft(LAMBDA s, n : s + n, 0, SubSeq(batches, 1, k - 1))
      count(k) == (batches[k] - skipLast) \div 2
  IN  FlattenSeq([k \in DOMAIN batches |->
        [i \in 1 .. count(k) |-> <<start(k) + i, start(k) + i + batches[k] \div 2>>]])

swapSchedule(src, swaps) ==
  [n \in DOMAIN swaps |-> XorEach(src[swaps[n][1]], src[swaps[n][2]])]

swapCompute(src, swaps, andResult) ==
  LET swapsOf(p) == {n \in DOMAIN swaps : p \in {swaps[n][1], swaps[n][2]}}
  IN  [p \in DOMAIN src |-> IF swapsOf(p) = {} THEN src[p]
                            ELSE XorEach(src[p], andResult[CHOOSE n \in swapsOf(p) : TRUE])]

(* A choice for each swap; of any other number, the AND throws. *)
computingBatchAndWithMpc(left, right) == [n \in DOMAIN left |-> compositeAND(left[n], right[n])]

swapInALayer(src, batches, choice, skipLast) ==
  LET swaps == SwapsOf(batches, skipLast)
  IN  IF src = Throws \/ Len(choice) # Len(swaps) THEN Throws
      ELSE swapCompute(src, swaps, computingBatchAndWithMpc(choice, swapSchedule(src, swaps)))

(* The choices are a stack. *)
RECURSIVE permuteLayers(_, _, _, _)
permuteLayers(src, batches, totalSize, choices) ==
  LET newBatches == FlattenSeq([k \in DOMAIN batches |->
                      <<batches[k] \div 2, batches[k] - batches[k] \div 2>>])
      swapped == swapInALayer(src, batches, Last(choices), 0)
      inner   == permuteLayers(swapped, newBatches, totalSize, Front(choices))
  IN  IF Len(batches) * 2 >= totalSize THEN [src |-> swapped, choices |-> Front(choices)]
      ELSE [src |-> swapInALayer(inner.src, batches, Last(inner.choices), 1),
            choices |-> Front(inner.choices)]

permuteBitString(src, order) ==
  permuteLayers(src, <<Len(src)>>, Len(src), computeChoiceVectors(<<order>>, Len(order))).src

-----------------------------------------------------------------------------
(* Shuffling and compaction.                                               *)

(* Fisher and Yates; the draws are reduced modulo the number of places.    *)
secureRandomPermutation(size, draws) ==
  LET exchange(rst, i, position) == [rst EXCEPT ![position] = rst[i], ![i] = rst[position]]
  IN  FoldLeft(LAMBDA rst, k : exchange(rst, size + 1 - k, (draws[k] % (size + 1 - k)) + 1),
               [i \in 1 .. size |-> i], [k \in 1 .. size - 1 |-> k])

(* Each party permutes, the one with the smaller id first, and takes part  *)
(* in the permutation of the other.                                        *)
shuffle(src, orders) ==
  permute(permute(src, Len(src), orders[1]), Len(src), orders[2])

(* The labels are opened after the shuffle; at(0) throws when none is 1.   *)
(* The outcome is what is kept, as <<kept>>, or Throws.                    *)
keepLabelled(shuffled, shouldRevealSize) ==
  LET kept == SelectSeq(shuffled, LAMBDA item : Last(item) = 1)
  IN  IF ~shouldRevealSize \/ kept = <<>> THEN Throws
      ELSE <<[i \in DOMAIN kept |-> Front(kept[i])]>>

compaction(src, labels, shouldRevealSize, orders) ==
  keepLabelled(shuffle([i \in DOMAIN src |-> PairOf(src[i], labels[i])], orders),
               shouldRevealSize)

(* DummyCompactor: in the clear, and in the order of the source.           *)
dummyCompaction(src, labels) ==
  LET kept == SelectSeq([i \in DOMAIN src |-> i], LAMBDA i : labels[i] = 1)
  IN  [k \in DOMAIN kept |-> src[kept[k]]]
=============================================================================
