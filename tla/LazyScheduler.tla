--------------------------- MODULE LazyScheduler ----------------------------
(***************************************************************************)
(* The scheduler that only records a gate when a call asks for it, and     *)
(* executes whole levels of gates later, so that the gates of a level      *)
(* share one exchange of messages (fbpcf/scheduler/LazyScheduler.cpp, with *)
(* GateKeeper, WireKeeper, the gate classes, and the part of               *)
(* SecretShareEngine.cpp that schedules and executes operations).          *)
(*                                                                         *)
(* Each call of the API is an action that does what the call does up to    *)
(* its first loop; the loop runs in the internal actions PopLevel,         *)
(* ComputeGate, Execute, CollectGate and DestroyGates, and Return ends the *)
(* call.  The caller is single-threaded: a call starts when no other is    *)
(* under way.  Two variables are the caller's: the references it holds,    *)
(* and (a history variable) the values its wires should have.              *)
(***************************************************************************)
EXTENDS GateKeeper

CONSTANTS Inputs,        \* by allocator, the values the caller feeds in
          Strategies,    \* the unbatching strategies the caller uses
          MaxRights,     \* bound: operands of a composite AND or a batching
          MaxReferences, \* bound: references the caller holds to one wire
          Copied,        \* bound: allocators of the wires to which it copies references
          MaxLevel,      \* bound: no gate is created once this level has been executed
          UnsetIndex     \* what an index that was never set may hold

ASSUME LazySchedulerAssumption ==
  /\ \A a \in Allocators : Inputs[a] \subseteq Seq(Nat)
  /\ Strategies \subseteq Seq(Nat)
  /\ MaxRights \in Nat /\ MaxReferences \in Nat /\ MaxLevel \in Nat
  /\ UnsetIndex \subseteq Nat

VARIABLES
  call,         \* the call under way: what it does when its loop ends
  phase,        \* where executeOneLevel is
  running,      \* the gates of the level being executed
  position,     \* how many of them the current loop has handled
  scheduled,    \* the engine's queues of operations, by kind
  executionResults,        \* the engine's results of the last execution, by kind
  secretSharesByParty,     \* what the level's output gates open, by party and kind
  revealedSecretsByParty,  \* what was revealed
  returned,     \* what the last call returned, when it returned a value
  handles,      \* the references the caller holds to each wire
  ideal         \* the value each wire in use should have

callerVars == <<handles, ideal>>
engineVars == <<scheduled, executionResults, secretSharesByParty,
                revealedSecretsByParty>>
executionVars == <<phase, running, position>>
vars == <<keeperVars, call, executionVars, engineVars, returned, callerVars>>

NoValue == <<-1>>        \* not the value of any wire

(* The engine has a queue for AND, batch AND, composite AND, batch         *)
(* composite AND, mult and batch mult; secrets to open are Boolean or not. *)
Queue == ({"NonFreeAnd"} \X Allocators)
           \cup ({"NonFreeComposite"} \X {"bool", "boolBatch"})
QueueOf(gate) == <<gate.type, gate.allocator>>
NoOperations == [q \in Queue |-> <<>>]
NoSecrets == [party \in Party |-> [b \in BOOLEAN |-> <<>>]]

Init ==
  /\ GateKeeperInit
  /\ call = [kind |-> "idle", level |-> 0, ins |-> <<>>]
  /\ phase = "ready" /\ running = <<>> /\ position = 0
  /\ scheduled = NoOperations /\ executionResults = NoOperations
  /\ secretSharesByParty = NoSecrets /\ revealedSecretsByParty = NoSecrets
  /\ returned = NoValue
  /\ handles = [w \in Wire |-> 0]
  /\ ideal = << >>

-----------------------------------------------------------------------------
(* The calls of the API.                                                   *)

(* The wires of allocator a the caller can name. *)
Held(a) == {w \in DOMAIN wires : wires[w].allocator = a /\ handles[w] > 0}
SameSize(w, x) == Len(ideal[w]) = Len(ideal[x])
IdealOf(ids) == [i \in DOMAIN ids |-> ideal[ids[i]]]

Idle == call.kind = "idle"
(* No call is under way, and the bounds of the model leave room for a gate. *)
MayCreate ==
  /\ Idle
  /\ DOMAIN wires # Wire
  /\ firstUnexecutedLevel <= MaxLevel
Becomes(kind, level, ins) == call' = [kind |-> kind, level |-> level, ins |-> ins]

(* The caller receives the new wires outs, which should have these values. *)
Receives(outs, values) ==
  /\ handles' = [w \in Wire |-> handles[w] + Occurrences(outs, w)]
  /\ ideal' = [w \in DOMAIN ideal \cup ElementsOf(outs) |->
                 IF w \in ElementsOf(outs) THEN values[PositionOf(outs, w)]
                                           ELSE ideal[w]]
  /\ returned' = NoValue

(* A call that creates a gate, and then executes levels while the keeper   *)
(* holds too many gates (maybeExecuteGates).                               *)
Creates(outs, values) ==
  /\ Receives(outs, values)
  /\ Becomes("limit", 0, <<>>)
  /\ UNCHANGED <<executionVars, engineVars>>

Input(a) ==
  /\ MayCreate
  /\ \E v \in Inputs[a], out \in Wire :
       inputGate(a, v, out) /\ Creates(<<out>>, <<v>>)

Open(a) ==
  /\ MayCreate
  /\ \E w \in Held(a), party \in Party, out \in Wire :
       /\ outputGate(a, w, party, out)
       /\ Creates(<<out>>, <<RevealedTo(party, ideal[w])>>)

(* The AND or the product: a free gate when an operand is public. *)
And(a) ==
  /\ MayCreate
  /\ \E type \in {"FreeAnd", "NonFreeAnd"}, w, x \in Held(a), out \in Wire :
       /\ SameSize(w, x)
       /\ normalGate(type, a, <<w, x>>, out)
       /\ Creates(<<out>>, Products(a, IdealOf(<<w, x>>)))

CompositeAnd(a) ==
  /\ MayCreate
  /\ \E type \in {"FreeComposite", "NonFreeComposite"}, w \in Held(a),
        n \in 1..MaxRights :
       \E rights \in [1..n -> Held(a)], outs \in FreshWires(wires, n) :
         /\ \A i \in 1..n : SameSize(w, rights[i])
         /\ compositeGate(type, a, w, rights, outs)
         /\ Creates(outs, Products(a, IdealOf(<<w>> \o rights)))

(* The XOR or the sum. *)
Xor(a) ==
  /\ MayCreate
  /\ \E w, x \in Held(a), out \in Wire :
       /\ SameSize(w, x)
       /\ normalGate("Xor", a, <<w, x>>, out)
       /\ Creates(<<out>>, <<XorOf(a, ideal[w], ideal[x])>>)

(* The NOT or the opposite. *)
Not(a) ==
  /\ MayCreate
  /\ \E w \in Held(a), out \in Wire :
       normalGate("Not", a, <<w>>, out) /\ Creates(<<out>>, <<NotOf(a, ideal[w])>>)

(* What all get and extract calls come to: executes the levels up          *)
(* to the one the wire is available at.                                    *)
forceWire(a) ==
  /\ Idle
  /\ \E w \in Held(a) : Becomes("force", getMaxLevel(<<w>>), <<w>>)
  /\ UNCHANGED <<keeperVars, executionVars, engineVars, returned, callerVars>>

(* The caller copies a reference, or gives one back. *)
IncreaseReferenceCount ==
  /\ Idle
  /\ \E w \in DOMAIN wires :
       /\ handles[w] \in 1..MaxReferences - 1 /\ wires[w].allocator \in Copied
       /\ wires' = increaseReferenceCounts(wires, OnceFor(w))
       /\ handles' = [handles EXCEPT ![w] = @ + 1]
  /\ returned' = NoValue
  /\ UNCHANGED <<gatesByLevelOffset, firstUnexecutedLevel, numUnexecutedGates,
                 call, executionVars, engineVars, ideal>>

DecreaseReferenceCount ==
  /\ Idle
  /\ \E w \in DOMAIN wires :
       /\ handles[w] > 0
       /\ wires' = decreaseReferenceCounts(wires, OnceFor(w))
       /\ handles' = [handles EXCEPT ![w] = @ - 1]
  /\ ideal' = [w \in DOMAIN wires' |-> ideal[w]]
  /\ returned' = NoValue
  /\ UNCHANGED <<gatesByLevelOffset, firstUnexecutedLevel, numUnexecutedGates,
                 call, executionVars, engineVars>>

(* Executes levels first; Return then creates the gate. *)
BatchingUp ==
  /\ MayCreate
  /\ \E n \in 1..MaxRights : \E src \in [1..n -> Held("boolBatch")] :
       Becomes("batchingUp", 0, src)
  /\ UNCHANGED <<keeperVars, executionVars, engineVars, returned, callerVars>>

(* The caller makes sure that the unbatching is doable. *)
Unbatching ==
  /\ MayCreate
  /\ \E w \in Held("boolBatch"), strategy \in Strategies :
       /\ Total(strategy) <= Len(ideal[w])
       /\ \E outs \in FreshWires(wires, Len(strategy)) :
            /\ unbatching(w, strategy, outs)
            /\ Creates(outs, Pieces(ideal[w], strategy))

-----------------------------------------------------------------------------
(* executeOneLevel, and the loops that call it.                            *)

(* The places of the gates that have not been destroyed: a level and an    *)
(* index.  The level being executed comes first, as level 0.               *)
Level(k) == IF k = 0 THEN running ELSE gatesByLevelOffset[k]
LevelPlaces(k) == {<<k, i>> : i \in DOMAIN Level(k)}
RunningPlaces == LevelPlaces(0)
PendingPlaces == UNION {LevelPlaces(k) : k \in DOMAIN gatesByLevelOffset}
Places == RunningPlaces \cup PendingPlaces
GateAt(p) == Level(p[1])[p[2]]

(* The references to w that the gates at the places of P hold. *)
References(P, w) == UNION {{<<p, j>> : j \in Indices(Names(GateAt(p)), w)} : p \in P}

(* Mutation: executeTillLevel stops before the level it is given. *)
LoopContinuesBelow == IF call.kind = "force" THEN firstUnexecutedLevel < call.level
                                             ELSE hasReachedBatchingLimit
(* Mutation: executeTillLevel goes one level too far. *)
LoopContinuesBeyond == IF call.kind = "force" THEN firstUnexecutedLevel <= call.level + 1
                                              ELSE hasReachedBatchingLimit

(* The conditions of the loops of executeTillLevel and maybeExecuteGates. *)
LoopContinues == IF call.kind = "force" THEN firstUnexecutedLevel <= call.level
                                        ELSE hasReachedBatchingLimit

PopLevel ==
  /\ ~Idle /\ phase = "ready" /\ LoopContinues
  /\ running' = Head(gatesByLevelOffset)
  /\ popFirstUnexecutedLevel
  /\ phase' = "compute" /\ position' = 0
  /\ UNCHANGED <<wires, call, engineVars, returned, callerVars>>

(* The level being executed is the one just taken from the keeper. *)
runningLevelIsFree == isLevelFree(firstUnexecutedLevel - 1)

gateAtHand == running[position + 1]
OperandValues(gate) == [i \in DOMAIN gate.ins |-> wires[gate.ins[i]].v]

ComputeFreeGate(gate) ==
  /\ wires' = IF gate.type = "Input" THEN wires
              ELSE setValues(wires, gate.outs, Outputs(gate, OperandValues(gate)))
  /\ UNCHANGED <<running, engineVars>>

(* Mutation: the index is one less than it should be. *)
nextResultIndexBeforePush(q) == Len(scheduled[q]) - 1
(* The index the engine answers with when an operation is scheduled. *)
nextResultIndex(q) == Len(scheduled[q])

(* Hands the operands to the engine, which answers with the place of the   *)
(* results.  A batch AND (or batch mult) of no elements is not handed over *)
(* and leaves the index as it was: never set.                              *)
ScheduleOperation(gate) ==
  LET q == QueueOf(gate)
      operands == OperandValues(gate)
  IN  /\ IF gate.type = "NonFreeAnd" /\ operands[1] = <<>>
         THEN /\ \E index \in UnsetIndex :
                   running' = [running EXCEPT ![position + 1].scheduledResultIndex = index]
              /\ UNCHANGED scheduled
         ELSE /\ running' = [running EXCEPT ![position + 1].scheduledResultIndex =
                                                nextResultIndex(q)]
              /\ scheduled' = [scheduled EXCEPT ![q] = Append(@, operands)]
      /\ UNCHANGED <<wires, executionResults, secretSharesByParty,
                     revealedSecretsByParty>>

(* Adds the shares to those the level opens to the gate's party. *)
ScheduleOpening(gate) ==
  LET values == OperandValues(gate)[1]
      kind   == isBoolean(gate.allocator)
  IN  /\ running' = [running EXCEPT
                       ![position + 1].scheduledResultIndex =
                          Len(secretSharesByParty[gate.party][kind]),
                       ![position + 1].numberOfResults = Len(values)]
      /\ secretSharesByParty' =
           [secretSharesByParty EXCEPT ![gate.party][kind] = @ \o values]
      /\ UNCHANGED <<wires, scheduled, executionResults, revealedSecretsByParty>>

ComputeGate ==
  /\ phase = "compute" /\ position < Len(running)
  /\ CASE isFree(gateAtHand.type) -> ComputeFreeGate(gateAtHand)
       [] gateAtHand.type = "Output" -> ScheduleOpening(gateAtHand)
       [] OTHER -> ScheduleOperation(gateAtHand)
  /\ position' = position + 1
  /\ UNCHANGED <<phase, gatesByLevelOffset, firstUnexecutedLevel,
                 numUnexecutedGates, call, returned, callerVars>>

(* The exchange with the other parties: the engine computes what was       *)
(* scheduled and forgets it, and the secrets are revealed.                 *)
Execute ==
  /\ phase = "compute" /\ position = Len(running) /\ ~runningLevelIsFree
  /\ executionResults' =
       [q \in Queue |-> [i \in DOMAIN scheduled[q] |-> Products(q[2], scheduled[q][i])]]
  /\ scheduled' = NoOperations
  /\ revealedSecretsByParty' =
       [party \in Party |->
          [b \in BOOLEAN |-> RevealedTo(party, secretSharesByParty[party][b])]]
  /\ phase' = "collect" /\ position' = 0
  /\ UNCHANGED <<keeperVars, call, running, secretSharesByParty, returned, callerVars>>

(* A gate's part of the secrets revealed to its party. *)
Revealed(gate) ==
  SubSeq(revealedSecretsByParty[gate.party][isBoolean(gate.allocator)],
         gate.scheduledResultIndex + 1,
         gate.scheduledResultIndex + gate.numberOfResults)

(* Asking the engine for a result it does not have throws. *)
CollectGate ==
  LET gate    == gateAtHand
      results == executionResults[QueueOf(gate)]
      index   == gate.scheduledResultIndex + 1
  IN  /\ phase = "collect" /\ position < Len(running)
      /\ \/ /\ gate.type = "Output"
            /\ wires' = setValues(wires, gate.outs, <<Revealed(gate)>>)
            /\ phase' = phase
         \/ /\ gate.type # "Output" /\ index \in DOMAIN results
            /\ wires' = setValues(wires, gate.outs, results[index])
            /\ phase' = phase
         \/ /\ gate.type # "Output" /\ index \notin DOMAIN results
            /\ phase' = "thrown"
            /\ UNCHANGED wires
      /\ position' = position + 1
      /\ UNCHANGED <<gatesByLevelOffset, firstUnexecutedLevel, numUnexecutedGates,
                     call, running, engineVars, returned, callerVars>>

(* The end of executeOneLevel: its gates give their references back.       *)
DestroyGates ==
  /\ position = Len(running)
  /\ phase = (IF runningLevelIsFree THEN "compute" ELSE "collect")
  /\ wires' = decreaseReferenceCounts(wires,
                [w \in Wire |-> Cardinality(References(RunningPlaces, w))])
  /\ ideal' = [w \in DOMAIN wires' |-> ideal[w]]
  /\ running' = <<>> /\ position' = 0 /\ phase' = "ready"
  /\ secretSharesByParty' = NoSecrets /\ revealedSecretsByParty' = NoSecrets
  /\ UNCHANGED <<gatesByLevelOffset, firstUnexecutedLevel, numUnexecutedGates, call,
                 scheduled, executionResults, returned, handles>>

Return ==
  /\ ~Idle /\ phase = "ready" /\ ~LoopContinues
  /\ Becomes("idle", 0, <<>>)
  /\ UNCHANGED <<executionVars, engineVars>>
  /\ \/ /\ call.kind = "limit"
        /\ UNCHANGED <<keeperVars, returned, callerVars>>
     \/ /\ call.kind = "force"
        /\ returned' = wires[call.ins[1]].v
        /\ UNCHANGED <<keeperVars, callerVars>>
     \/ /\ call.kind = "batchingUp"
        /\ \E out \in Wire :
             /\ batchingUp(call.ins, out)
             /\ Receives(<<out>>, <<Concatenation(IdealOf(call.ins))>>)

Internal == PopLevel \/ ComputeGate \/ Execute \/ CollectGate \/ DestroyGates \/ Return

Next ==
  \/ \E a \in Allocators :
       Input(a) \/ Open(a) \/ And(a) \/ Xor(a) \/ Not(a) \/ forceWire(a)
  \/ \E a \in {"bool", "boolBatch"} : CompositeAnd(a)
  \/ IncreaseReferenceCount \/ DecreaseReferenceCount
  \/ BatchingUp \/ Unbatching
  \/ Internal

Spec == Init /\ [][Next]_vars

-----------------------------------------------------------------------------
(* Properties.                                                             *)

GateTypes == FreeTypes \cup NonFreeTypes

(* A gate, without the fields that only say where its results are. *)
IsGate(g) ==
  /\ DOMAIN g = {"type", "allocator", "ins", "outs", "party", "sizes",
                 "scheduledResultIndex", "numberOfResults"}
  /\ g.type \in GateTypes /\ g.allocator \in Allocators /\ g.party \in Party
  /\ g.ins \in Seq(Wire) /\ g.outs \in Seq(Wire)
IsSequence(s) == s \in Seq(ElementsOf(s))
IsLevel(s) == IsSequence(s) /\ \A i \in DOMAIN s : IsGate(s[i])

(* Every variable has its type, but for the values on wires and in the     *)
(* engine's queues, which ExecutedValue is about.                          *)
TypeOK ==
  /\ DOMAIN wires \subseteq Wire
  /\ \A w \in DOMAIN wires :
       /\ DOMAIN wires[w] = {"allocator", "v", "expectedBatchSize",
                             "firstAvailableLevel", "referenceCount"}
       /\ wires[w].allocator \in Allocators
       /\ wires[w].firstAvailableLevel \in Nat
       /\ wires[w].referenceCount \in Nat
  /\ IsSequence(gatesByLevelOffset)
  /\ \A k \in DOMAIN gatesByLevelOffset : IsLevel(gatesByLevelOffset[k])
  /\ firstUnexecutedLevel \in Nat /\ numUnexecutedGates \in Nat
  /\ call.kind \in {"idle", "limit", "force", "batchingUp"}
  /\ call.level \in Nat /\ call.ins \in Seq(Wire)
  /\ phase \in {"ready", "compute", "collect", "thrown"}
  /\ IsLevel(running) /\ position \in 0..Len(running)
  /\ DOMAIN scheduled = Queue /\ DOMAIN executionResults = Queue
  /\ handles \in [Wire -> Nat]
  /\ DOMAIN ideal = DOMAIN wires

(* The gate at place p has put its results on its outputs. *)
HasRun(p) ==
  /\ p[1] = 0 /\ p[2] <= position
  /\ phase = (IF runningLevelIsFree THEN "compute" ELSE "collect")

(* A wire's reference count is the number of references that exist: those  *)
(* of the caller and one for each time a gate names it; and it is in use   *)
(* exactly as long as there is one.  (A count too low frees a wire a later *)
(* gate reads; one too high is never freed.)                               *)
RefCountExact ==
  \A w \in Wire :
    LET references == handles[w] + Cardinality(References(Places, w))
    IN  IF w \in DOMAIN wires
        THEN wires[w].referenceCount = references /\ references > 0
        ELSE references = 0

(* The counter the batching limit is about is the number of gates held.    *)
GateCount == numUnexecutedGates = Cardinality(PendingPlaces)

(* Every gate runs when its operands are there.  A gate that needs the     *)
(* other parties reads its operands when its level starts and has its      *)
(* results when its level ends: only free gates may read each other on one *)
(* level, in the order they were created in.                               *)
TopologicalOrder ==
  \A p, q \in Places :
    ElementsOf(GateAt(p).outs) \cap ElementsOf(GateAt(q).ins) # {} =>
      \/ p[1] < q[1]
      \/ /\ p[1] = q[1] /\ p[2] < q[2]
         /\ isFree(GateAt(p).type) /\ isFree(GateAt(q).type)

(* A wire that is not the output of a gate yet to run holds the value the  *)
(* caller's expression has, the one an eager scheduler computes.           *)
ExecutedValue ==
  \A w \in DOMAIN wires :
    \/ wires[w].v = ideal[w]
    \/ \E p \in Places : w \in ElementsOf(GateAt(p).outs) /\ ~HasRun(p)

(* executeOneLevel is only ever called when a level exists: neither loop   *)
(* takes the front of an empty deque.                                      *)
ForceFindsLevel ==
  call.kind = "force" /\ phase = "ready" /\ LoopContinues => gatesByLevelOffset # <<>>
LimitFindsLevel ==
  call.kind \in {"limit", "batchingUp"} /\ phase = "ready" /\ LoopContinues
    => gatesByLevelOffset # <<>>

(* Why it is: no wire, and no call, waits for a level the keeper has not   *)
(* created.                                                                *)
LevelsExist ==
  /\ \A w \in DOMAIN wires : wires[w].firstAvailableLevel
                               < firstUnexecutedLevel + Len(gatesByLevelOffset)
  /\ call.kind = "force" =>
       call.level < firstUnexecutedLevel + Len(gatesByLevelOffset)

(* The invariant the proofs go by.  The reference counts are needed even   *)
(* for the types: a wire that a pending call or gate names has a record    *)
(* because somebody holds a reference to it.                               *)
IInv ==
  /\ TypeOK /\ LevelsExist
  /\ GateCount /\ IsFiniteSet(PendingPlaces)
  /\ RefCountExact /\ \A w \in Wire : IsFiniteSet(References(Places, w))
  /\ Idle \/ \A w \in ElementsOf(call.ins) : handles[w] > 0
  /\ phase = "ready" => running = <<>>

(* Between calls the keeper holds at most one gate more than its limit.    *)
BatchingLimit == Idle => numUnexecutedGates <= MaxUnexecutedGates + 1

(* A free gate is never on a level that needs the other parties, nor the   *)
(* other way round: executeOneLevel treats all gates of a level alike, so  *)
(* the result of a misplaced gate would never be collected.                *)
LevelPurity ==
  \A p \in Places :
    isFree(GateAt(p).type) <=> IF p[1] = 0 THEN runningLevelIsFree
                               ELSE isLevelFree(firstUnexecutedLevel + p[1] - 1)

(* The engine has a result for every gate that asks, except for an AND of  *)
(* two empty batches, which was never handed to it.                        *)
OnlyEmptyAndThrows ==
  phase = "thrown" => LET gate == running[position]
                      IN  gate.type = "NonFreeAnd" /\ ideal[gate.ins[1]] = <<>>

(* What an index that was never set must not be for the values to be      *)
(* right: that of a result.  A level has at most MaxUnexecutedGates + 2    *)
(* gates, and no more results than gates.                                  *)
UnsetHasNoResult == \A index \in UnsetIndex : index >= MaxUnexecutedGates + 2

(* The contract of collectScheduledResult in IGate.h: the result of the    *)
(* computation that was scheduled is on the gate's wires.                  *)
ResultsStored ==
  phase = "collect" =>
    \A i \in 1..position : \A w \in ElementsOf(running[i].outs) : wires[w].v = ideal[w]

(* To its caller, this scheduler is an eager one. *)
Eager == INSTANCE EagerScheduler WITH
  store <- [w \in {x \in DOMAIN ideal : handles[x] > 0} |->
              [allocator |-> wires[w].allocator, v |-> ideal[w],
               referenceCount |-> handles[w]]]
ImplementsEager == Eager!EagerSpec

(* How far the call under way is from its end: the levels there are, where *)
(* executeOneLevel is, and the gates its loop has still to handle.         *)
Remaining ==
  <<Len(gatesByLevelOffset),
    CASE phase = "compute" -> 2 [] phase = "collect" -> 1 [] OTHER -> 0,
    Len(running) - position>>
LessThan(s, t) == \E i \in 1..3 : s[i] < t[i] /\ \A j \in 1..i - 1 : s[j] = t[j]

(* Every call returns: until the engine throws the thread always has a     *)
(* step to take, and each step brings the call nearer to its end, at every *)
(* limit and for every level, empty ones too.                              *)
CallsReturn ==
  /\ [](Idle \/ phase = "thrown" \/ ENABLED Internal)
  /\ [][~Idle => Idle' \/ LessThan(Remaining', Remaining)]_vars
=============================================================================
