----------------------------- MODULE GateKeeper -----------------------------
(***************************************************************************)
(* The gates that have been created and not yet executed, by level         *)
(* (fbpcf/scheduler/gate_keeper/GateKeeper.h, GateKeeper.cpp), and the     *)
(* wires they read and write.                                              *)
(*                                                                         *)
(* Even levels hold free gates and odd levels hold the gates that need the *)
(* other parties.  A gate goes to the first level of its kind at which its *)
(* operands are available and that has not been executed.  The keeper is a *)
(* passive object: these actions are the parts a LazyScheduler call takes. *)
(***************************************************************************)
EXTENDS WireKeeper, Gates

CONSTANT MaxUnexecutedGates   \* kMaxUnexecutedGates

ASSUME GateKeeperAssumption == MaxUnexecutedGates \in Nat

VARIABLES
  wires,                \* the WireKeeper's store
  gatesByLevelOffset,   \* the levels, from the first unexecuted one: sequences of gates
  firstUnexecutedLevel, \* the level of gatesByLevelOffset[1]
  numUnexecutedGates    \* a count of the gates in gatesByLevelOffset

keeperVars == <<wires, gatesByLevelOffset, firstUnexecutedLevel, numUnexecutedGates>>

isLevelFree(level) == level % 2 = 0

ElementsOf(s) == {s[i] : i \in DOMAIN s}
MaxOf(S) == CHOOSE m \in S : \A x \in S : x <= m

(* Mutation: only the first operand counts. *)
getMaxLevelOfFirst(ids) == wires[ids[1]].firstAvailableLevel

(* The level at which every wire of ids is available: 0 for no wires. *)
getMaxLevel(ids) ==
  MaxOf({0} \cup {wires[w].firstAvailableLevel : w \in ElementsOf(ids)})

(* Mutation: a gate goes to the next level, of whatever kind. *)
getOutputLevelUnaligned(isGateFree, maxInputLevel) ==
  MaxOf({maxInputLevel, firstUnexecutedLevel}) + (IF isGateFree THEN 0 ELSE 1)

(* The level of a gate whose operands are available at maxInputLevel: not  *)
(* an executed one, and one of its kind.                                   *)
getOutputLevel(isGateFree, maxInputLevel) ==
  LET outputLevel == MaxOf({maxInputLevel, firstUnexecutedLevel})
                       + (IF isGateFree THEN 0 ELSE 1)
  IN  outputLevel + (IF isLevelFree(outputLevel) # isGateFree THEN 1 ELSE 0)

(* The levels once gate is added at this level; the levels up to it are    *)
(* created when they do not exist yet.                                     *)
addGate(gate, level) ==
  LET offset == level - firstUnexecutedLevel + 1
      old    == Len(gatesByLevelOffset)
  IN  [k \in 1..MaxOf({old, offset}) |->
         LET gates == IF k <= old THEN gatesByLevelOffset[k] ELSE <<>>
         IN  IF k = offset THEN Append(gates, gate) ELSE gates]

(* The wires a gate holds a reference to, once for each time it names them. *)
Names(gate) == gate.outs \o gate.ins

(* Creates a gate and the wires outs it writes, which hold these values    *)
(* until it is executed.  The gate holds a reference to every wire it      *)
(* reads or writes; the caller gets one to each output.                    *)
newGate(gate, level, values, batchSizes) ==
  /\ gate.outs \in FreshWires(wires, Len(values))
  /\ wires' = increaseReferenceCounts(
                allocateValues(wires, gate.outs,
                  [i \in DOMAIN values |->
                     WireRecord(gate.allocator, values[i], batchSizes[i], level)]),
                TimesIn(Names(gate)))
  /\ gatesByLevelOffset' = addGate(gate, level)
  /\ numUnexecutedGates' = numUnexecutedGates + 1
  /\ UNCHANGED firstUnexecutedLevel

(* A gate: what its class stores.  Where its results will be found, and    *)
(* how many they are, is set when it is computed.                          *)
Gate(type, a, ins, outs, party, sizes) ==
  [type |-> type, allocator |-> a, ins |-> ins, outs |-> outs, party |-> party,
   sizes |-> sizes, scheduledResultIndex |-> 0, numberOfResults |-> 0]

(* The value of a wire whose gate has not run: false or 0, or an empty     *)
(* vector; and the size such a wire is given, that of its left operand.    *)
Placeholder(a) == IF isBatch(a) THEN <<>> ELSE <<0>>
getBatchSize(w) == wires[w].expectedBatchSize

inputGate(a, initialValue, out) ==
  newGate(Gate("Input", a, <<>>, <<out>>, myId, <<>>),
          getOutputLevel(isFree("Input"), firstUnexecutedLevel),
          <<initialValue>>, <<Len(initialValue)>>)

outputGate(a, src, partyID, out) ==
  newGate(Gate("Output", a, <<src>>, <<out>>, partyID, <<>>),
          getOutputLevel(isFree("Output"), getMaxLevel(<<src>>)),
          <<Placeholder(a)>>, <<getBatchSize(src)>>)

(* normalGate and arithmeticGate, with one operand or two *)
normalGate(type, a, operands, out) ==
  newGate(Gate(type, a, operands, <<out>>, myId, <<>>),
          getOutputLevel(isFree(type), getMaxLevel(operands)),
          <<Placeholder(a)>>, <<getBatchSize(operands[1])>>)

compositeGate(type, a, left, rights, outs) ==
  newGate(Gate(type, a, <<left>> \o rights, outs, myId, <<>>),
          getOutputLevel(isFree(type), getMaxLevel(<<left>> \o rights)),
          [i \in DOMAIN rights |-> Placeholder(a)],
          [i \in DOMAIN rights |-> getBatchSize(left)])

(* The size of the batch is read from the values the operands hold now.    *)
batchingUp(src, out) ==
  newGate(Gate("Batching", "boolBatch", src, <<out>>, myId, <<>>),
          getOutputLevel(TRUE, getMaxLevel(src)),
          <<Placeholder("boolBatch")>>,
          <<Total([i \in DOMAIN src |-> Len(wires[src[i]].v)])>>)

unbatching(src, unbatchingStrategy, outs) ==
  newGate(Gate("Unbatching", "boolBatch", <<src>>, outs, myId, unbatchingStrategy),
          getOutputLevel(TRUE, getMaxLevel(<<src>>)),
          [i \in DOMAIN unbatchingStrategy |-> Placeholder("boolBatch")],
          unbatchingStrategy)

(* Mutation: the counter is reduced for the level as well as for its gates. *)
popFirstUnexecutedLevelCountingLevel ==
  /\ gatesByLevelOffset' = Tail(gatesByLevelOffset)
  /\ firstUnexecutedLevel' = firstUnexecutedLevel + 1
  /\ numUnexecutedGates' = numUnexecutedGates - Len(Head(gatesByLevelOffset)) - 1
(* Mutation: the counter is not reduced. *)
popFirstUnexecutedLevelUncounted ==
  /\ gatesByLevelOffset' = Tail(gatesByLevelOffset)
  /\ firstUnexecutedLevel' = firstUnexecutedLevel + 1
  /\ UNCHANGED numUnexecutedGates
(* Mutation: an empty level is left where it is. *)
popFirstUnexecutedLevelUnlessEmpty ==
  IF Head(gatesByLevelOffset) = <<>>
  THEN UNCHANGED <<gatesByLevelOffset, firstUnexecutedLevel, numUnexecutedGates>>
  ELSE /\ gatesByLevelOffset' = Tail(gatesByLevelOffset)
       /\ firstUnexecutedLevel' = firstUnexecutedLevel + 1
       /\ numUnexecutedGates' = numUnexecutedGates - Len(Head(gatesByLevelOffset))

(* Takes the first unexecuted level away; its gates are for the caller. *)
popFirstUnexecutedLevel ==
  /\ gatesByLevelOffset' = Tail(gatesByLevelOffset)
  /\ firstUnexecutedLevel' = firstUnexecutedLevel + 1
  /\ numUnexecutedGates' = numUnexecutedGates - Len(Head(gatesByLevelOffset))

(* Mutation: the limit is on the number of levels. *)
hasReachedBatchingLimitOfLevels == Len(gatesByLevelOffset) > MaxUnexecutedGates

hasReachedBatchingLimit == numUnexecutedGates > MaxUnexecutedGates

GateKeeperInit ==
  /\ wires = << >>
  /\ gatesByLevelOffset = << >>
  /\ firstUnexecutedLevel = 0
  /\ numUnexecutedGates = 0
=============================================================================
