------------------------------ MODULE Frontend ------------------------------
(***************************************************************************)
(* The variables of an MPC program (fbpcf/frontend): Bits, Ints and        *)
(* BitStrings, which name wires of the scheduler and count references to   *)
(* them as they are constructed, copied, moved, assigned and destroyed.    *)
(* The scheduler is a PlaintextScheduler.  A statement of the program is a *)
(* step; the temporaries it makes give their wires back before it ends,    *)
(* even when it throws.                                                    *)
(***************************************************************************)
EXTENDS PlaintextScheduler

CONSTANTS Setups,     \* the program's variables: name -> kind, width, isSigned; and inputs
          Empty,      \* the id of a Bit that has not been set
          MaxAliases  \* bound: references to one wire

(* A Bit is one bit; an input has a batch for each bit, and an Int's of one size. *)
ASSUME FrontendAssumption ==
  /\ Empty \notin Wire /\ IsFiniteSet(Wire)
  /\ \A s \in Setups :
       /\ IsFiniteSet(DOMAIN s.variables)
       /\ \A x \in DOMAIN s.variables :
            /\ s.variables[x].width \in Nat \ {0}
            /\ s.variables[x].kind = "Bit" => s.variables[x].width = 1
            /\ s.inputs[x] \subseteq Seq(Seq({0, 1}))
            /\ s.variables[x].kind = "Int" =>
                 \A v \in s.inputs[x] : \A i, j \in DOMAIN v : Len(v[i]) = Len(v[j])

VARIABLES
  setup,
  wires,       \* the scheduler's WireKeeper
  data,        \* by variable, the ids its Bits hold
  ideal,       \* history: by variable, the values its Bits should have
  lost,        \* history: wires a call that threw has left allocated
  selfAssigned \* history: the only reference to a wire was assigned to itself

vars == <<setup, wires, data, ideal, lost, selfAssigned>>

Variables == DOMAIN setup.variables
Kind(x) == setup.variables[x].kind
Width(x) == setup.variables[x].width
isSigned(x) == setup.variables[x].isSigned

None == <<>>
IsSet(x) == ideal[x] # None
Uninitialized(x) == [i \in 1 .. Width(x) |-> Empty]

Alike(x, y) == Kind(x) = Kind(y) /\ Width(x) = Width(y) /\ isSigned(x) = isSigned(y)

Init ==
  /\ setup \in Setups
  /\ wires = << >>
  /\ data = [x \in Variables |-> Uninitialized(x)]
  /\ ideal = [x \in Variables |-> None]
  /\ lost = {} /\ selfAssigned = FALSE

-----------------------------------------------------------------------------
(* References.                                                             *)

(* For every Bit of bits that holds a wire. *)
increaseReferenceCount(ws, bits) == increaseReferenceCounts(ws, TimesIn(bits))
decreaseReferenceCount(ws, bits) == decreaseReferenceCounts(ws, TimesIn(bits))

(* The variable takes over new wires, as from a temporary that is moved.   *)
(* (The temporary holds them while the old ones are given back.)           *)
moveId(x, result, values) ==
  /\ wires' = decreaseReferenceCount(result.store, data[x])
  /\ data' = [data EXCEPT ![x] = result.ids]
  /\ ideal' = [ideal EXCEPT ![x] = values]
  /\ UNCHANGED <<setup, lost, selfAssigned>>

(* The statement throws: the scheduler keeps what it had allocated, the    *)
(* variable what it had.                                                   *)
Throw(result) ==
  /\ wires' = result.store
  /\ lost' = lost \cup (DOMAIN result.store \ DOMAIN wires)
  /\ UNCHANGED <<setup, data, ideal, selfAssigned>>

Room(n) == Cardinality(Wire \ DOMAIN wires) >= n

(* The calls of the scheduler for the bits of x, with these outcomes. *)
Assign(x, outcomes, values) ==
  LET result == Performed(wires, outcomes)
  IN  /\ Room(Width(x))
      /\ IF Len(result.ids) = Width(x) THEN moveId(x, result, values) ELSE Throw(result)

(* privateInput, publicInput, and the recovery of an extracted value. *)
Construct(x) ==
  \E values \in setup.inputs[x] :
    /\ Len(values) = Width(x)
    /\ Assign(x, [i \in 1 .. Width(x) |-> Input(values[i])], values)

(* openToParty *)
Open(x, y) ==
  /\ IsSet(y) /\ Alike(x, y)
  /\ Assign(x, [i \in 1 .. Width(x) |-> openBooleanValueToParty(wires, data[y][i])], ideal[y])

\* The reference of the copy is not counted.
CopyAssignUncounted(x, y) ==
  /\ IsSet(y) /\ Alike(x, y) /\ x # y
  /\ wires' = decreaseReferenceCount(wires, data[x])
  /\ data' = [data EXCEPT ![x] = data[y]]
  /\ ideal' = [ideal EXCEPT ![x] = ideal[y]]
  /\ UNCHANGED <<setup, lost, selfAssigned>>

(* operator=(const Bit&), bit by bit: the old reference is given back, and *)
(* then the new one is taken.  Assigned to itself, a Bit that holds the    *)
(* only reference frees the wire it goes on to name.  (A BitString is a    *)
(* vector, which leaves itself alone.)                                     *)
CopyAssign(x, y) ==
  /\ IsSet(y) /\ Alike(x, y)
  /\ \A w \in ToSet(data[y]) : wires[w].referenceCount < MaxAliases
  /\ IF x = y
     THEN LET freed == {w \in ToSet(data[x]) : wires[w].referenceCount = 1}
          IN  /\ Kind(x) # "BitString" /\ freed # {}
              /\ wires' = [w \in DOMAIN wires \ freed |-> wires[w]]
              /\ selfAssigned' = TRUE
              /\ UNCHANGED <<data, ideal>>
     ELSE /\ wires' = decreaseReferenceCount(increaseReferenceCount(wires, data[y]), data[x])
          /\ data' = [data EXCEPT ![x] = data[y]]
          /\ ideal' = [ideal EXCEPT ![x] = ideal[y]]
          /\ UNCHANGED selfAssigned
  /\ UNCHANGED <<setup, lost>>

(* operator=(Bit&&).  Moved to itself, a Bit gives its reference back and  *)
(* is empty.                                                               *)
MoveAssign(x, y) ==
  /\ IsSet(y) /\ Alike(x, y)
  /\ wires' = decreaseReferenceCount(wires, data[x])
  /\ data' = [data EXCEPT ![x] = IF x = y THEN Uninitialized(x) ELSE data[y],
                          ![y] = Uninitialized(y)]
  /\ ideal' = [ideal EXCEPT ![x] = IF x = y THEN None ELSE ideal[y], ![y] = None]
  /\ UNCHANGED <<setup, lost, selfAssigned>>

(* ~Bit; the next object of the same name begins uninitialized. *)
Destroy(x) ==
  /\ IsSet(x)
  /\ wires' = decreaseReferenceCount(wires, data[x])
  /\ data' = [data EXCEPT ![x] = Uninitialized(x)]
  /\ ideal' = [ideal EXCEPT ![x] = None]
  /\ UNCHANGED <<setup, lost, selfAssigned>>

-----------------------------------------------------------------------------
(* Operators.                                                              *)

(* The values of a variable's bits: by element of the batch, the bits.     *)
Values(ws, bits) == [i \in DOMAIN bits |-> ws[bits[i]].v]
Batch(values) == Len(values[1])
Element(values, k) == [i \in DOMAIN values |-> values[i][k]]

(* A circuit, in every element of the batch. *)
EachElement(n, batch, circuit(_)) ==
  [i \in 1 .. n |-> [k \in 1 .. batch |-> circuit(k)[i]]]

(* x = the circuit over the bits of y and z.  The values are computed from *)
(* the wires and, beside them, from what the wires should carry.           *)
Apply(x, y, z, choice, circuit(_, _, _)) ==
  LET from(of) ==
        LET c == IF choice = Empty THEN [k \in 1 .. Batch(of[y]) |-> 0] ELSE of[choice][1]
        IN  EachElement(Width(x), Batch(of[y]),
                        LAMBDA k : circuit(c[k], Element(of[y], k), Element(of[z], k)))
      stored == [v \in {u \in Variables : IsSet(u)} |-> Values(wires, data[v])]
      sameSize == /\ Batch(stored[y]) = Batch(stored[z])
                  /\ choice # Empty => Batch(stored[choice]) = Batch(stored[y])
  IN  /\ IsSet(y) /\ IsSet(z) /\ (choice # Empty => IsSet(choice))
      /\ Room(Width(x))
      /\ IF sameSize THEN moveId(x, Allocated(wires, from(stored)), from(ideal))
                     ELSE Throw([store |-> wires])

(* Bit and BitString: a gate for each bit. *)
XorBits(x, y, z) ==
  Assign(x, [i \in 1 .. Width(x) |-> privateXorPrivate(wires, data[y][i], data[z][i])],
         [i \in 1 .. Width(x) |-> XorEach(ideal[y][i], ideal[z][i])])
AndBits(x, y, z) ==
  Assign(x, [i \in 1 .. Width(x) |-> privateAndPrivate(wires, data[y][i], data[z][i])],
         [i \in 1 .. Width(x) |-> AndEach(ideal[y][i], ideal[z][i])])
NotBits(x, y) ==
  Assign(x, [i \in 1 .. Width(x) |-> notPrivate(wires, data[y][i])],
         [i \in 1 .. Width(x) |-> NotAll(ideal[y][i])])

BitWise(x, y, z) ==
  /\ Kind(x) # "Int" /\ Alike(x, y) /\ Alike(y, z) /\ IsSet(y) /\ IsSet(z)
  /\ XorBits(x, y, z) \/ AndBits(x, y, z) \/ (y = z /\ NotBits(x, y))

Arithmetic(x, y, z) ==
  /\ Kind(x) = "Int" /\ Alike(x, y) /\ Alike(y, z)
  /\ \/ Apply(x, y, z, Empty, LAMBDA c, a, b : plus(a, b))
     \/ Apply(x, y, z, Empty, LAMBDA c, a, b : minus(a, b))
     \/ y = z /\ isSigned(y) /\ Apply(x, y, z, Empty, LAMBDA c, a, b : negative(a))

Compare(x, y, z) ==
  /\ Kind(x) = "Bit" /\ Kind(y) = "Int" /\ Alike(y, z)
  /\ \/ Apply(x, y, z, Empty, LAMBDA c, a, b : <<less(isSigned(y), a, b)>>)
     \/ Apply(x, y, z, Empty, LAMBDA c, a, b : <<equalityCheck(a, b)>>)

Mux(x, choice, y, z) ==
  /\ Kind(choice) = "Bit" /\ Alike(x, y) /\ Alike(y, z)
  /\ Apply(x, y, z, choice, mux)

(* The bits are copied; those beyond the width are copies of the sign bit, *)
(* or of one new wire that carries 0.                                      *)
Cast(x, y) ==
  LET up     == Width(x) > Width(y)
      zero   == Allocated(wires, <<[k \in 1 .. Batch(Values(wires, data[y])) |-> 0]>>)
      extra  == IF isSigned(y) THEN Last(data[y]) ELSE zero.ids[1]
      bits   == [i \in 1 .. Width(x) |-> IF i <= Width(y) THEN data[y][i] ELSE extra]
      store  == IF up /\ ~isSigned(y) THEN decreaseReferenceCount(
                                             increaseReferenceCount(zero.store, bits), zero.ids)
                                      ELSE increaseReferenceCount(wires, bits)
  IN  /\ IsSet(y) /\ Room(1)
      /\ Kind(x) = "Int" /\ Kind(y) = "Int" /\ isSigned(x) = isSigned(y) /\ x # y
      /\ moveId(x, [ids |-> bits, store |-> store],
                EachElement(Width(x), Batch(ideal[y]),
                            LAMBDA k : cast(isSigned(y), Width(x), Element(ideal[y], k))))
      /\ \A w \in DOMAIN wires' : wires'[w].referenceCount <= MaxAliases

(* A Bit and each bit of a BitString: one composite gate. *)
Composite(x, choice, y) ==
  /\ Kind(choice) = "Bit" /\ Alike(x, y) /\ Kind(y) = "BitString"
  /\ IsSet(choice) /\ IsSet(y)
  /\ Assign(x, computeCompositeAND(wires, data[choice][1], data[y]),
            [i \in 1 .. Width(x) |-> AndEach(ideal[choice][1], ideal[y][i])])

(* Bit by bit, the batches of two variables in one; and a batch in two. *)
BatchingWith(x, y, z) ==
  /\ Alike(x, y) /\ Alike(y, z) /\ IsSet(y) /\ IsSet(z)
  /\ Batch(ideal[y]) + Batch(ideal[z]) <= setup.maxBatch
  /\ Assign(x, [i \in 1 .. Width(x) |-> batchingUp(wires, <<data[y][i], data[z][i]>>)],
            [i \in 1 .. Width(x) |-> ideal[y][i] \o ideal[z][i]])

Unbatching(x, y, z) ==
  LET result(strategy) == Performed(wires, unbatching(wires, data[y][1], strategy))
  IN  /\ Kind(y) = "Bit" /\ Alike(x, y) /\ Alike(y, z) /\ x # z
      /\ IsSet(y) /\ Room(2)
      /\ \E strategy \in {<<1, 1>>, <<1, 2>>} :
           IF Len(result(strategy).ids) < 2 THEN Throw(result(strategy))
           ELSE /\ wires' = decreaseReferenceCount(result(strategy).store, data[x] \o data[z])
                /\ data' = [data EXCEPT ![x] = <<result(strategy).ids[1]>>,
                                        ![z] = <<result(strategy).ids[2]>>]
                /\ ideal' = [ideal EXCEPT ![x] = <<SubSeq(ideal[y][1], 1, 1)>>,
                                          ![z] = <<SubSeq(ideal[y][1], 2, strategy[2] + 1)>>]
                /\ UNCHANGED <<setup, lost, selfAssigned>>

Next ==
  /\ ~selfAssigned
  /\ \E x \in Variables :
       \/ Construct(x) \/ Destroy(x)
       \/ \E y \in Variables :
            \/ CopyAssign(x, y) \/ MoveAssign(x, y) \/ Open(x, y) \/ Cast(x, y)
            \/ \E z \in Variables :
                 \/ BitWise(x, y, z) \/ Arithmetic(x, y, z) \/ Compare(x, y, z)
                 \/ Composite(x, y, z) \/ BatchingWith(x, y, z) \/ Unbatching(x, y, z)
                 \/ \E choice \in Variables : Mux(x, choice, y, z)

Spec == Init /\ [][Next]_vars

-----------------------------------------------------------------------------
(* What the frontend promises.                                             *)

(* The Bits of the program that name a wire. *)
Bits == UNION {{x} \X (1 .. Width(x)) : x \in Variables}
Holders(w) == {xi \in Bits : data[xi[1]][xi[2]] = w}

(* The wires in use are those the program's variables name, with a         *)
(* reference for every Bit that names them: no wire leaks, except those of *)
(* a call that threw, and none is freed under a variable, whatever is      *)
(* copied, moved, shared by a cast and assigned -- until a variable that   *)
(* holds the only reference is assigned to itself.                         *)
WiresHeld ==
  ~selfAssigned =>
    \A w \in Wire :
      LET held == Cardinality(Holders(w))
      IN  IF w \in DOMAIN wires
          THEN wires[w].referenceCount = held + (IF w \in lost THEN 1 ELSE 0)
          ELSE held = 0 /\ w \notin lost

(* A variable keeps the value it was given while others that share its     *)
(* wires are assigned and destroyed and the ids of freed wires come back.  *)
ValuesKept ==
  ~selfAssigned =>
    \A x \in Variables :
      IsSet(x) => ToSet(data[x]) \subseteq DOMAIN wires /\ Values(wires, data[x]) = ideal[x]
=============================================================================
