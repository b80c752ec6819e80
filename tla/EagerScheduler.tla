--------------------------- MODULE EagerScheduler ---------------------------
(***************************************************************************)
(* The scheduler that computes every gate in the call that asks for it     *)
(* (fbpcf/scheduler/EagerScheduler.cpp).  It is both a model of that class *)
(* and the abstract specification of a scheduler: what a LazyScheduler     *)
(* must look like to its caller (see LazyScheduler.tla).                   *)
(*                                                                         *)
(* The caller owns one reference to every wire a call returns, may add and *)
(* give back references, and passes only wires it holds a reference to.    *)
(* That the new wires are any free ids is the contract of IAllocator.      *)
(***************************************************************************)
EXTENDS Gates

CONSTANTS Wire,         \* the ids of wires
          Inputs,       \* by allocator, the values the caller feeds in: sequences,
                        \* of one element when the wire is not a batch
          Strategies,   \* the unbatching strategies the caller uses
          MaxRights,    \* bound: operands of a composite AND or a batching
          MaxReferences \* bound: references the caller holds to one wire

VARIABLES
  store,       \* the wires in use: allocator, value and reference count
  returned     \* what the last call returned, when it returned a value

eagerVars == <<store, returned>>

NoValue == <<-1>>        \* not the value of any wire
Thrown == <<-2>>

(* The wires of allocator a that the caller can name. *)
Held(a) == {w \in DOMAIN store : store[w].allocator = a}
SameSize(w, x) == Len(store[w].v) = Len(store[x].v)

NewIds(n) == {s \in [1..n -> Wire \ DOMAIN store] :
                \A i, j \in 1..n : s[i] = s[j] => i = j}

(* Stores the values on the new wires outs. *)
allocate(a, outs, values) ==
  store' = [w \in DOMAIN store \cup {outs[i] : i \in DOMAIN outs} |->
              IF w \in DOMAIN store THEN store[w]
              ELSE [allocator |-> a, referenceCount |-> 1,
                    v |-> values[CHOOSE i \in DOMAIN outs : outs[i] = w]]]

(* A call that computes values and puts them on new wires. *)
Returns(a, values) ==
  /\ \E outs \in NewIds(Len(values)) : allocate(a, outs, values)
  /\ returned' = NoValue

Value(w) == store[w].v

EagerInit == store = << >> /\ returned = NoValue

Input(a) == \E v \in Inputs[a] : Returns(a, <<v>>)

Open(a) == \E w \in Held(a), party \in Party :
             Returns(a, <<RevealedTo(party, Value(w))>>)

(* getBooleanValue, extractBooleanSecretShare and their siblings *)
Get(a) == /\ \E w \in Held(a) : returned' = Value(w)
          /\ UNCHANGED store

And(a) == \E w, x \in Held(a) :
            SameSize(w, x) /\ Returns(a, Products(a, <<Value(w), Value(x)>>))

CompositeAnd(a) ==
  \E w \in Held(a), n \in 1..MaxRights : \E rights \in [1..n -> Held(a)] :
    /\ \A i \in 1..n : SameSize(w, rights[i])
    /\ Returns(a, Products(a, <<Value(w)>> \o [i \in 1..n |-> Value(rights[i])]))

Xor(a) == \E w, x \in Held(a) :
            SameSize(w, x) /\ Returns(a, <<XorOf(a, Value(w), Value(x))>>)

Not(a) == \E w \in Held(a) : Returns(a, <<NotOf(a, Value(w))>>)

IncreaseReferenceCount ==
  \E w \in DOMAIN store :
    /\ store[w].referenceCount < MaxReferences
    /\ store' = [store EXCEPT ![w].referenceCount = @ + 1]
    /\ returned' = NoValue

DecreaseReferenceCount ==
  \E w \in DOMAIN store :
    /\ store' = IF store[w].referenceCount = 1
                THEN [x \in DOMAIN store \ {w} |-> store[x]]
                ELSE [store EXCEPT ![w].referenceCount = @ - 1]
    /\ returned' = NoValue

BatchingUp ==
  \E n \in 1..MaxRights : \E src \in [1..n -> Held("boolBatch")] :
    Returns("boolBatch", <<Concatenation([i \in 1..n |-> Value(src[i])])>>)

(* The pieces are allocated one after the other.  Asked for more values    *)
(* than the input has, the call throws at the first piece that does not    *)
(* fit; those before it stay allocated, and the caller never learns their  *)
(* ids.                                                                    *)
Unbatching ==
  \E w \in Held("boolBatch"), strategy \in Strategies :
    LET fits(k) == Total(SubSeq(strategy, 1, k)) <= Len(Value(w))
        fitting == CHOOSE k \in 0..Len(strategy) :
                     fits(k) /\ \A j \in k + 1..Len(strategy) : ~fits(j)
    IN  /\ \E outs \in NewIds(fitting) :
             allocate("boolBatch", outs,
                      Pieces(Value(w), SubSeq(strategy, 1, fitting)))
        /\ returned' = IF fitting = Len(strategy) THEN NoValue ELSE Thrown

EagerNext ==
  \/ \E a \in {"bool", "boolBatch", "int", "intBatch"} :
       Input(a) \/ Open(a) \/ Get(a) \/ And(a) \/ Xor(a) \/ Not(a)
  \/ \E a \in {"bool", "boolBatch"} : CompositeAnd(a)
  \/ IncreaseReferenceCount \/ DecreaseReferenceCount
  \/ BatchingUp \/ Unbatching

(* The steps that change anything: which action a step is, is not asked of *)
(* one that does not.                                                      *)
EagerSpec == EagerInit /\ [][eagerVars' # eagerVars /\ EagerNext]_eagerVars
=============================================================================
