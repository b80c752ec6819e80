------------------------ MODULE LazyScheduler_proofs ------------------------
(***************************************************************************)
(* Proofs about the lazy scheduler: its type invariant, that its loops     *)
(* never take a level that does not exist, and that its reference counts   *)
(* are exact; then about its levels: every gate is on a level of its kind, *)
(* every gate runs after the gates it reads from, and between calls the    *)
(* keeper holds at most one gate more than its limit.                      *)
(*                                                                         *)
(* A place, a level offset and an index, changes when a level is taken     *)
(* away; the level it stands for does not.  The argument is about levels:  *)
(* a wire is available at the level of the gate that writes it, and a gate *)
(* is on a level at which its operands are available.                      *)
(*                                                                         *)
(* Then its values: a wire whose gate has been executed holds what the     *)
(* caller's expression says, whatever the calls, the limit and the levels, *)
(* and only the AND of two empty batches makes the engine throw; and that  *)
(* it implements the eager scheduler: a caller that sees what its calls    *)
(* return, and the values of the wires it holds as they should be, cannot  *)
(* tell them apart.  That argument follows a value through the gate that   *)
(* computes it: what a gate is to write is a function of what its operands *)
(* are to hold (PlacesCompute); while its level is being executed its      *)
(* request is in one of the engine's queues, and then its result among the *)
(* engine's results, at the index the gate noted (Underway).               *)
(***************************************************************************)
EXTENDS LazyScheduler, FiniteSetTheorems, Induction, TLAPS

-----------------------------------------------------------------------------
(* Maxima and sequences.                                                   *)

(* A bounded, non-empty set of naturals has a maximum, and MaxOf is it.    *)
LEMMA MaxOfBounded ==
  ASSUME NEW S, S \subseteq Nat, S # {}, NEW B \in Nat, \A x \in S : x <= B
  PROVE  MaxOf(S) \in S /\ \A x \in S : x <= MaxOf(S)
<1> DEFINE U == {u \in Nat : \A x \in S : x <= u}
           T == {0..u : u \in U}
<1>1. T # {} /\ T \subseteq FiniteSubsetsOf(Nat)
  <2>1. \A u \in Nat : IsFiniteSet(0..u) /\ 0..u \subseteq Nat
    BY FS_Interval
  <2> QED BY <2>1 DEF FiniteSubsetsOf
<1>2. PICK I \in T : \A J \in T : ~ (<<J, I>> \in StrictSubsetOrdering(Nat))
  <2> DEFINE R == StrictSubsetOrdering(Nat)
             F == FiniteSubsetsOf(Nat)
  <2>1. IsWellFoundedOn(R, F)
    BY FS_StrictSubsetOrderingWellFounded
  <2>2. T \subseteq F
    BY <1>1
  <2> HIDE DEF T, R, F
  <2>3. \E I \in T : \A J \in T : ~ (<<J, I>> \in R)
    BY <1>1, <2>1, <2>2, WFMin
  <2> QED BY <2>3 DEF R
<1> PICK m \in U : I = 0..m
  OBVIOUS
<1>3. \A y \in U : ~ (y < m)
  <2> SUFFICES ASSUME NEW y \in U, y < m PROVE FALSE
    OBVIOUS
  <2>1. 0..y \subseteq 0..m /\ 0..y # 0..m /\ 0..m \subseteq Nat
    OBVIOUS
  <2>2. <<0..y, I>> \in StrictSubsetOrdering(Nat)
    BY <2>1 DEF StrictSubsetOrdering
  <2> QED BY <1>2, <2>2
<1>4. m \in S
  <2> SUFFICES ASSUME m \notin S PROVE FALSE
    OBVIOUS
  <2>1. \A x \in S : x < m
    OBVIOUS
  <2>2. m # 0 /\ m - 1 \in Nat
    <3>1. PICK x \in S : x < m
      BY <2>1
    <3> QED BY <3>1
  <2>3. m - 1 \in U
    BY <2>1, <2>2
  <2> QED BY <2>2, <2>3, <1>3
<1> QED BY <1>4 DEF MaxOf

(* The maximum of two naturals, as getOutputLevel and addGate use it. *)
LEMMA MaxOfPair ==
  ASSUME NEW a \in Nat, NEW b \in Nat
  PROVE  /\ MaxOf({a, b}) \in {a, b}
         /\ a <= MaxOf({a, b}) /\ b <= MaxOf({a, b})
<1>1. \E m \in {a, b} : \A x \in {a, b} : x <= m
  OBVIOUS
<1> QED BY <1>1 DEF MaxOf

(* The empty sequence is one, of no elements. *)
LEMMA EmptySequence == IsSequence(<<>>) /\ Len(<<>>) = 0 /\ DOMAIN <<>> = {}
BY DEF IsSequence, ElementsOf

(* A sequence over any set is one over its own elements. *)
LEMMA SequenceOfItsElements ==
  ASSUME NEW E, NEW s \in Seq(E)
  PROVE  IsSequence(s) /\ Len(s) \in Nat /\ DOMAIN s = 1..Len(s)
<1>1. Len(s) \in Nat /\ DOMAIN s = 1..Len(s)
  OBVIOUS
<1>2. s = [i \in 1..Len(s) |-> s[i]]
  OBVIOUS
<1> DEFINE n == Len(s)
           F == ElementsOf(s)
<1>3. \A i \in 1..n : s[i] \in F
  BY <1>1 DEF ElementsOf
<1> HIDE DEF F
<1>4. s \in Seq(F)
  BY <1>1, <1>2, <1>3
<1> QED BY <1>1, <1>4 DEF IsSequence, F

(* Removing the first element of a sequence shifts the others. *)
LEMMA TailShifts ==
  ASSUME NEW s, IsSequence(s), s # <<>>
  PROVE  /\ IsSequence(Tail(s))
         /\ Len(s) \in Nat \ {0} /\ DOMAIN s = 1..Len(s)
         /\ Len(Tail(s)) = Len(s) - 1 /\ DOMAIN Tail(s) = 1..Len(s) - 1
         /\ \A i \in DOMAIN Tail(s) : Tail(s)[i] = s[i + 1]
         /\ Head(s) = s[1]
<1> DEFINE E == ElementsOf(s)
<1> USE DEF IsSequence
<1>1. s \in Seq(E)
  OBVIOUS
<1> HIDE DEF E
<1>2. /\ Len(s) \in Nat \ {0} /\ DOMAIN s = 1..Len(s)
      /\ Tail(s) \in Seq(E) /\ Len(Tail(s)) = Len(s) - 1
      /\ Head(s) = s[1]
  BY <1>1
<1>3. DOMAIN Tail(s) = 1..Len(s) - 1
  BY <1>2
<1>4. \A i \in DOMAIN Tail(s) : Tail(s)[i] = s[i + 1]
  BY <1>1, <1>2, <1>3
<1>5. Tail(s) \in Seq(ElementsOf(Tail(s)))
  BY <1>2, SequenceOfItsElements
<1> QED BY <1>2, <1>3, <1>4, <1>5

(* A gate appended to a level comes last, and leaves the others in their   *)
(* places.                                                                 *)
LEMMA AppendAdds ==
  ASSUME NEW s, IsLevel(s), NEW gate, IsGate(gate)
  PROVE  /\ IsLevel(Append(s, gate))
         /\ Len(s) \in Nat /\ DOMAIN s = 1..Len(s)
         /\ DOMAIN Append(s, gate) = DOMAIN s \cup {Len(s) + 1}
         /\ Append(s, gate)[Len(s) + 1] = gate
         /\ \A i \in DOMAIN s : Append(s, gate)[i] = s[i]
<1> DEFINE E == ElementsOf(s) \cup {gate}
           t == Append(s, gate)
<1>1. s \in Seq(E)
  BY DEF IsLevel, IsSequence
<1> HIDE DEF E
<1>2. gate \in E
  BY DEF E
<1>3. /\ Len(s) \in Nat /\ DOMAIN s = 1..Len(s)
      /\ t \in Seq(E) /\ Len(t) = Len(s) + 1
      /\ t[Len(s) + 1] = gate /\ \A i \in 1..Len(s) : t[i] = s[i]
  BY <1>1, <1>2
<1>4. DOMAIN t = 1..Len(s) + 1
  BY <1>3
<1>5. t \in Seq(ElementsOf(t))
  BY <1>3, SequenceOfItsElements DEF IsSequence
<1>6. \A i \in DOMAIN t : IsGate(t[i])
  BY <1>3, <1>4 DEF IsLevel
<1> QED BY <1>3, <1>4, <1>5, <1>6 DEF IsLevel, IsSequence

(* A finite set and the image of a one-to-one function on it. *)
LEMMA OneToOne ==
  ASSUME NEW S, NEW T, IsFiniteSet(S), NEW f \in [S -> T],
         \A x, y \in S : f[x] = f[y] => x = y,
         \A z \in T : \E x \in S : f[x] = z
  PROVE  IsFiniteSet(T) /\ Cardinality(T) = Cardinality(S)
<1>1. f \in Bijection(S, T)
  BY DEF Bijection, Injection, Surjection, IsInjective
<1>2. ExistsBijection(S, T)
  BY <1>1 DEF ExistsBijection
<1> QED BY <1>2, FS_Bijection

(* Tagging the elements of a finite set. *)
LEMMA Tagged ==
  ASSUME NEW S, IsFiniteSet(S), NEW p
  PROVE  LET T == {<<p, x>> : x \in S}
         IN  IsFiniteSet(T) /\ Cardinality(T) = Cardinality(S)
<1> DEFINE T == {<<p, x>> : x \in S}
           f == [x \in S |-> <<p, x>>]
<1>1. f \in [S -> T]
  OBVIOUS
<1>2. \A x, y \in S : f[x] = f[y] => x = y
  OBVIOUS
<1>3. \A z \in T : \E x \in S : f[x] = z
  OBVIOUS
<1> HIDE DEF f, T
<1>4. IsFiniteSet(T) /\ Cardinality(T) = Cardinality(S)
  BY <1>1, <1>2, <1>3, OneToOne
<1> QED BY <1>4 DEF T

(* How often a gate names a wire. *)
LEMMA OccurrencesType ==
  ASSUME NEW s \in Seq(Wire), NEW w
  PROVE  /\ IsFiniteSet(Indices(s, w)) /\ Occurrences(s, w) \in Nat
         /\ Occurrences(s, w) = 0 <=> w \notin ElementsOf(s)
<1>1. IsFiniteSet(Indices(s, w))
  <2>1. Len(s) \in Nat /\ Indices(s, w) \subseteq 1..Len(s)
    BY DEF Indices
  <2>2. IsFiniteSet(1..Len(s))
    BY <2>1, FS_Interval
  <2> QED BY <2>1, <2>2, FS_Subset
<1>2. Indices(s, w) = {} <=> w \notin ElementsOf(s)
  BY DEF Indices, ElementsOf
<1> QED BY <1>1, <1>2, FS_CardinalityType, FS_EmptySet DEF Occurrences

(* In a sequence without repetitions a wire occurs once or not at all. *)
LEMMA OccursOnce ==
  ASSUME NEW s \in Seq(Wire), NEW w,
         \A i, j \in DOMAIN s : s[i] = s[j] => i = j
  PROVE  Occurrences(s, w) = IF w \in ElementsOf(s) THEN 1 ELSE 0
<1>1. CASE w \in ElementsOf(s)
  <2>1. PICK i \in DOMAIN s : s[i] = w
    BY <1>1 DEF ElementsOf
  <2>2. Indices(s, w) = {i}
    BY <2>1 DEF Indices
  <2> QED BY <1>1, <2>2, FS_Singleton DEF Occurrences
<1>2. CASE w \notin ElementsOf(s)
  BY <1>2, OccurrencesType
<1> QED BY <1>1, <1>2

-----------------------------------------------------------------------------
(* The keeper.                                                             *)

(* getMaxLevel is a level, and one the keeper has when it is given some    *)
(* wires.                                                                  *)
LEMMA MaxLevelType ==
  ASSUME TypeOK, LevelsExist, NEW ids \in Seq(DOMAIN wires)
  PROVE  /\ getMaxLevel(ids) \in Nat
         /\ ids # <<>> => getMaxLevel(ids)
                            < firstUnexecutedLevel + Len(gatesByLevelOffset)
<1> DEFINE L == {wires[w].firstAvailableLevel : w \in ElementsOf(ids)}
           B == firstUnexecutedLevel + Len(gatesByLevelOffset)
<1>1. ElementsOf(ids) \subseteq DOMAIN wires
  BY DEF ElementsOf
<1>2. B \in Nat
  BY SequenceOfItsElements DEF TypeOK, IsSequence
<1>3. \A x \in L : x \in Nat /\ x < B
  BY <1>1 DEF TypeOK, LevelsExist
<1>4. ids # <<>> => L # {}
  <2>1. ids # <<>> => 1 \in DOMAIN ids
    OBVIOUS
  <2> QED BY <2>1 DEF ElementsOf
<1>5. getMaxLevel(ids) = MaxOf({0} \cup L)
  BY DEF getMaxLevel
<1> HIDE DEF L, B
<1>6. /\ MaxOf({0} \cup L) \in {0} \cup L
      /\ \A x \in {0} \cup L : x <= MaxOf({0} \cup L)
  <2>1. /\ {0} \cup L \subseteq Nat /\ {0} \cup L # {}
        /\ \A x \in {0} \cup L : x <= B
    BY <1>2, <1>3
  <2> QED BY <1>2, <2>1, MaxOfBounded
<1>7. L # {} => MaxOf({0} \cup L) < B
  BY <1>2, <1>3, <1>6
<1> QED BY <1>3, <1>4, <1>5, <1>6, <1>7 DEF B

(* getOutputLevel is a level that has not been executed. *)
LEMMA OutputLevelType ==
  ASSUME TypeOK, NEW free \in BOOLEAN, NEW level \in Nat
  PROVE  /\ getOutputLevel(free, level) \in Nat
         /\ firstUnexecutedLevel <= getOutputLevel(free, level)
<1> DEFINE m == MaxOf({level, firstUnexecutedLevel})
<1>1. m \in Nat /\ firstUnexecutedLevel <= m
  BY MaxOfPair DEF TypeOK
<1> HIDE DEF m
<1>2. getOutputLevel(free, level) \in {m, m + 1, m + 2}
  BY <1>1 DEF getOutputLevel, m
<1> QED BY <1>1, <1>2 DEF TypeOK

(* Where addGate puts a gate, and what it leaves alone. *)
TargetLevel(level) == level - firstUnexecutedLevel + 1
GatesBefore(level) == IF TargetLevel(level) <= Len(gatesByLevelOffset)
                      THEN gatesByLevelOffset[TargetLevel(level)] ELSE <<>>

(* addGate puts the gate last on its level, creates empty levels up to it, *)
(* and leaves the other levels alone.                                      *)
LEMMA AddGate ==
  ASSUME TypeOK, NEW gate, IsGate(gate),
         NEW level \in Nat, firstUnexecutedLevel <= level
  PROVE  LET new    == addGate(gate, level)
             old    == gatesByLevelOffset
             offset == TargetLevel(level)
         IN  /\ IsSequence(new) /\ Len(new) \in Nat /\ DOMAIN new = 1..Len(new)
             /\ Len(old) \in Nat /\ DOMAIN old = 1..Len(old) /\ Len(old) <= Len(new)
             /\ offset \in DOMAIN new
             /\ IsLevel(GatesBefore(level))
             /\ new[offset] = Append(GatesBefore(level), gate)
             /\ \A k \in DOMAIN new \ {offset} :
                  new[k] = IF k \in DOMAIN old THEN old[k] ELSE <<>>
             /\ \A k \in DOMAIN new : IsLevel(new[k])
<1> DEFINE new == addGate(gate, level)
           old == gatesByLevelOffset
           offset == TargetLevel(level)
           n == MaxOf({Len(old), offset})
<1>1. Len(old) \in Nat /\ DOMAIN old = 1..Len(old)
  BY SequenceOfItsElements DEF TypeOK, IsSequence
<1>2. offset \in Nat \ {0}
  BY DEF TypeOK, TargetLevel
<1>3. n \in Nat /\ Len(old) <= n /\ offset <= n
  BY <1>1, <1>2, MaxOfPair
<1>4. IsLevel(GatesBefore(level))
  BY <1>1, <1>2, EmptySequence DEF TypeOK, GatesBefore, IsLevel
<1>5. new = [k \in 1..n |->
               LET gates == IF k <= Len(old) THEN old[k] ELSE <<>>
               IN  IF k = offset THEN Append(gates, gate) ELSE gates]
  BY DEF addGate, TargetLevel
<1> HIDE DEF new, n
<1>6. DOMAIN new = 1..n /\ offset \in DOMAIN new
  BY <1>2, <1>3, <1>5
<1>7. new[offset] = Append(GatesBefore(level), gate)
  BY <1>5, <1>6 DEF GatesBefore
<1>8. \A k \in DOMAIN new \ {offset} :
        new[k] = IF k \in DOMAIN old THEN old[k] ELSE <<>>
  BY <1>1, <1>3, <1>5, <1>6
<1>9. \A k \in DOMAIN new : IsLevel(new[k])
  <2> TAKE k \in DOMAIN new
  <2>1. CASE k = offset
    BY <2>1, <1>4, <1>7, AppendAdds
  <2>2. CASE k # offset
    BY <2>2, <1>8, EmptySequence DEF TypeOK, IsLevel
  <2> QED BY <2>1, <2>2
<1>10. IsSequence(new) /\ Len(new) = n
  <2> DEFINE E == ElementsOf(new)
  <2>1. \A k \in 1..n : new[k] \in E
    BY <1>6 DEF ElementsOf
  <2>2. new = [k \in 1..n |-> new[k]]
    BY <1>5, <1>6
  <2> HIDE DEF E
  <2>3. new \in Seq(E) /\ Len(new) = n
    BY <1>3, <2>1, <2>2
  <2> QED BY <2>3 DEF IsSequence, E
<1> QED BY <1>1, <1>3, <1>4, <1>6, <1>7, <1>8, <1>9, <1>10 DEF new

(* What newGate does to the store. *)
WireFields == {"allocator", "v", "expectedBatchSize", "firstAvailableLevel",
               "referenceCount"}

StoresNewWires(gate, outs, level) ==
  /\ outs \in Seq(Wire)
  /\ \A i, j \in DOMAIN outs : outs[i] = outs[j] => i = j
  /\ ElementsOf(outs) \subseteq Wire \ DOMAIN wires
  /\ DOMAIN wires' = DOMAIN wires \cup ElementsOf(outs)
  /\ \A w \in DOMAIN wires' :
       /\ DOMAIN wires'[w] = WireFields
       /\ wires'[w].allocator \in Allocators
       /\ wires'[w].firstAvailableLevel =
            IF w \in DOMAIN wires THEN wires[w].firstAvailableLevel ELSE level
       /\ wires'[w].referenceCount =
            (IF w \in DOMAIN wires THEN wires[w].referenceCount ELSE 1)
              + Occurrences(Names(gate), w)

(* newGate stores the gate's outputs as new wires and counts the gate's    *)
(* references to its wires.                                                *)
LEMMA NewGateWires ==
  ASSUME TypeOK, NEW gate, IsGate(gate), NEW level \in Nat,
         NEW values, NEW sizes, Len(values) \in Nat, DOMAIN values = 1..Len(values),
         newGate(gate, level, values, sizes)
  PROVE  StoresNewWires(gate, gate.outs, level)
<1> DEFINE outs == gate.outs
           records == [i \in DOMAIN values |->
                         WireRecord(gate.allocator, values[i], sizes[i], level)]
           new == allocateValues(wires, outs, records)
<1>1. outs \in FreshWires(wires, Len(values)) /\ outs \in Seq(Wire)
  BY DEF newGate, IsGate
<1>2. /\ DOMAIN outs = DOMAIN values
      /\ \A i, j \in DOMAIN outs : outs[i] = outs[j] => i = j
      /\ ElementsOf(outs) \subseteq Wire \ DOMAIN wires
  BY <1>1 DEF FreshWires, ElementsOf
<1>3. DOMAIN new = DOMAIN wires \cup ElementsOf(outs)
  BY DEF allocateValues, ElementsOf
<1>4. \A w \in DOMAIN wires : new[w] = wires[w]
  BY DEF allocateValues
<1>5. \A w \in ElementsOf(outs) :
        /\ DOMAIN new[w] = WireFields /\ new[w].allocator \in Allocators
        /\ new[w].firstAvailableLevel = level /\ new[w].referenceCount = 1
  <2> TAKE w \in ElementsOf(outs)
  <2>1. PositionOf(outs, w) \in DOMAIN values
    BY <1>2 DEF ElementsOf, PositionOf
  <2>2. new[w] = records[PositionOf(outs, w)]
    BY <1>2 DEF allocateValues, ElementsOf
  <2>3. PICK i \in DOMAIN values :
          new[w] = WireRecord(gate.allocator, values[i], sizes[i], level)
    BY <2>1, <2>2
  <2>4. /\ DOMAIN new[w] = WireFields /\ new[w].allocator = gate.allocator
        /\ new[w].firstAvailableLevel = level /\ new[w].referenceCount = 1
    <3> HIDE DEF new
    <3> QED BY <2>3 DEF WireRecord, WireFields
  <2> QED BY <2>4 DEF IsGate
<1>6. wires' = increaseReferenceCounts(new, TimesIn(Names(gate)))
  BY DEF newGate
<1> HIDE DEF new, records
<1>7. \A w \in DOMAIN new :
        /\ DOMAIN new[w] = WireFields /\ new[w].allocator \in Allocators
        /\ new[w].firstAvailableLevel =
             IF w \in DOMAIN wires THEN wires[w].firstAvailableLevel ELSE level
        /\ new[w].referenceCount =
             IF w \in DOMAIN wires THEN wires[w].referenceCount ELSE 1
  BY <1>2, <1>3, <1>4, <1>5 DEF TypeOK, WireFields
<1>8. DOMAIN wires' = DOMAIN new /\ DOMAIN new \subseteq Wire
  BY <1>2, <1>3, <1>6 DEF increaseReferenceCounts, TypeOK
<1>9. \A w \in DOMAIN new :
        wires'[w] = [new[w] EXCEPT !.referenceCount = @ + Occurrences(Names(gate), w)]
  BY <1>6, <1>8 DEF increaseReferenceCounts, TimesIn
<1>10. \A w \in DOMAIN new :
        /\ DOMAIN wires'[w] = WireFields
        /\ wires'[w].allocator = new[w].allocator
        /\ wires'[w].firstAvailableLevel = new[w].firstAvailableLevel
        /\ wires'[w].referenceCount =
             new[w].referenceCount + Occurrences(Names(gate), w)
  BY <1>7, <1>9 DEF WireFields
<1> QED BY <1>1, <1>2, <1>3, <1>7, <1>8, <1>10 DEF StoresNewWires

-----------------------------------------------------------------------------
(* Places and references.                                                  *)

(* What the places of the gates are: an index on a level, level 0 being    *)
(* the one that runs.                                                      *)
LEMMA PendingPlace ==
  ASSUME TypeOK
  PROVE  /\ 0 \notin DOMAIN gatesByLevelOffset
         /\ \A p : p \in PendingPlaces <=>
              \E k \in DOMAIN gatesByLevelOffset :
                \E i \in DOMAIN gatesByLevelOffset[k] : p = <<k, i>>
         /\ \A p : p \in RunningPlaces <=> \E i \in DOMAIN running : p = <<0, i>>
         /\ \A k \in DOMAIN gatesByLevelOffset : \A i :
              GateAt(<<k, i>>) = gatesByLevelOffset[k][i]
         /\ \A i : GateAt(<<0, i>>) = running[i]
<1>1. 0 \notin DOMAIN gatesByLevelOffset
  BY SequenceOfItsElements DEF TypeOK, IsSequence
<1> QED BY <1>1 DEF PendingPlaces, RunningPlaces, LevelPlaces, Level, GateAt

(* The same in the next state. *)
LEMMA NextPendingPlace ==
  ASSUME IsSequence(gatesByLevelOffset')
  PROVE  /\ 0 \notin DOMAIN gatesByLevelOffset'
         /\ \A p : p \in PendingPlaces' <=>
              \E k \in DOMAIN gatesByLevelOffset' :
                \E i \in DOMAIN gatesByLevelOffset'[k] : p = <<k, i>>
         /\ \A p : p \in RunningPlaces' <=> \E i \in DOMAIN running' : p = <<0, i>>
         /\ \A k \in DOMAIN gatesByLevelOffset' : \A i :
              GateAt(<<k, i>>)' = gatesByLevelOffset'[k][i]
         /\ \A i : GateAt(<<0, i>>)' = running'[i]
<1>1. 0 \notin DOMAIN gatesByLevelOffset'
  BY SequenceOfItsElements DEF IsSequence
<1> QED BY <1>1 DEF PendingPlaces, RunningPlaces, LevelPlaces, Level, GateAt

(* What a reference of a gate to a wire is. *)
LEMMA ReferencePlace ==
  ASSUME NEW P, NEW w
  PROVE  \A r : r \in References(P, w) <=>
           \E p \in P : \E j \in Indices(Names(GateAt(p)), w) : r = <<p, j>>
BY DEF References

(* A new gate has a new place; the others stay where they are. *)
NewPlace(level) == <<TargetLevel(level), Len(GatesBefore(level)) + 1>>

(* Adding a gate adds one place and moves no gate. *)
LEMMA AddPlace ==
  ASSUME TypeOK, IsSequence(gatesByLevelOffset'), NEW gate, IsGate(gate),
         NEW level \in Nat, firstUnexecutedLevel <= level,
         gatesByLevelOffset' = addGate(gate, level), running' = running,
         NEW p0, p0 = NewPlace(level)
  PROVE  /\ PendingPlaces' = PendingPlaces \cup {p0}
         /\ Places' = Places \cup {p0}
         /\ p0 \notin Places
         /\ \A p \in Places : GateAt(p)' = GateAt(p)
         /\ GateAt(p0)' = gate
<1> PICK offset, n, new, old :
           /\ new = gatesByLevelOffset' /\ old = gatesByLevelOffset
           /\ offset = TargetLevel(level) /\ n = Len(GatesBefore(level)) + 1
  OBVIOUS
<1>1. /\ DOMAIN old \subseteq DOMAIN new
      /\ offset \in DOMAIN new
      /\ new[offset] = Append(GatesBefore(level), gate)
      /\ \A k \in DOMAIN new \ {offset} :
           new[k] = IF k \in DOMAIN old THEN old[k] ELSE <<>>
      /\ IsLevel(GatesBefore(level))
      /\ GatesBefore(level) = IF offset \in DOMAIN old THEN old[offset] ELSE <<>>
  <2>1. /\ DOMAIN old = 1..Len(old) /\ Len(old) \in Nat
        /\ offset \in Nat \ {0}
    BY AddGate DEF TypeOK, TargetLevel
  <2> QED BY <2>1, AddGate DEF GatesBefore
<1>2. /\ DOMAIN new[offset] = DOMAIN GatesBefore(level) \cup {n}
      /\ n \notin DOMAIN GatesBefore(level)
      /\ new[offset][n] = gate
      /\ \A i \in DOMAIN GatesBefore(level) : new[offset][i] = GatesBefore(level)[i]
  BY <1>1, AppendAdds
<1>3. DOMAIN <<>> = {}
  BY EmptySequence
<1>4. \A k \in DOMAIN old : \A i \in DOMAIN old[k] :
        i \in DOMAIN new[k] /\ new[k][i] = old[k][i]
  BY <1>1, <1>2
<1>5. \A k \in DOMAIN new : \A i \in DOMAIN new[k] :
        (k = offset /\ i = n) \/ (k \in DOMAIN old /\ i \in DOMAIN old[k])
  BY <1>1, <1>2, <1>3
<1>6. ~ (offset \in DOMAIN old /\ n \in DOMAIN old[offset])
  BY <1>1, <1>2
<1>7. /\ 0 \notin DOMAIN old /\ 0 \notin DOMAIN new
      /\ \A p : p \in PendingPlaces <=>
           \E k \in DOMAIN old : \E i \in DOMAIN old[k] : p = <<k, i>>
      /\ \A p : p \in PendingPlaces' <=>
           \E k \in DOMAIN new : \E i \in DOMAIN new[k] : p = <<k, i>>
      /\ \A p : p \in RunningPlaces <=> \E i \in DOMAIN running : p = <<0, i>>
      /\ \A p : p \in RunningPlaces' <=> \E i \in DOMAIN running : p = <<0, i>>
      /\ \A k \in DOMAIN old : \A i : GateAt(<<k, i>>) = old[k][i]
      /\ \A k \in DOMAIN new : \A i : GateAt(<<k, i>>)' = new[k][i]
      /\ \A i : GateAt(<<0, i>>) = running[i] /\ GateAt(<<0, i>>)' = running[i]
  BY PendingPlace, NextPendingPlace
<1>8. /\ PendingPlaces' = PendingPlaces \cup {<<offset, n>>}
      /\ RunningPlaces' = RunningPlaces
      /\ <<offset, n>> \notin PendingPlaces \cup RunningPlaces
  <2>1. PendingPlaces \subseteq PendingPlaces'
    BY <1>1, <1>4, <1>7
  <2>2. <<offset, n>> \in PendingPlaces'
    BY <1>1, <1>2, <1>7
  <2>3. PendingPlaces' \subseteq PendingPlaces \cup {<<offset, n>>}
    BY <1>5, <1>7
  <2>4. RunningPlaces' = RunningPlaces
    BY DEF RunningPlaces, LevelPlaces, Level
  <2>5. <<offset, n>> \notin PendingPlaces
    BY <1>6, <1>7
  <2>6. <<offset, n>> \notin RunningPlaces
    BY <1>1, <1>7
  <2> QED BY <2>1, <2>2, <2>3, <2>4, <2>5, <2>6
<1>9. \A p \in PendingPlaces \cup RunningPlaces : GateAt(p)' = GateAt(p)
  BY <1>1, <1>4, <1>7
<1>10. GateAt(<<offset, n>>)' = gate
  BY <1>1, <1>2, <1>7
<1> QED BY <1>8, <1>9, <1>10 DEF Places, NewPlace

(* Adding a gate adds one reference for each time it names a wire. *)
LEMMA AddReferences ==
  ASSUME TypeOK, IsSequence(gatesByLevelOffset'), NEW gate, IsGate(gate),
         NEW level \in Nat, firstUnexecutedLevel <= level,
         gatesByLevelOffset' = addGate(gate, level), running' = running,
         NEW w, IsFiniteSet(References(Places, w))
  PROVE  /\ IsFiniteSet(References(Places, w)')
         /\ Cardinality(References(Places, w)') =
              Cardinality(References(Places, w)) + Occurrences(Names(gate), w)
<1> PICK p0 : p0 = NewPlace(level)
  OBVIOUS
<1> DEFINE I == Indices(Names(gate), w)
           A == References(Places, w)
           B == {<<p0, j>> : j \in I}
           C == References(Places, w)'
<1>1. /\ Places' = Places \cup {p0} /\ p0 \notin Places
      /\ \A p \in Places : GateAt(p)' = GateAt(p)
      /\ GateAt(p0)' = gate
  BY AddPlace
<1>2. Names(gate) \in Seq(Wire)
  BY DEF Names, IsGate
<1>3. IsFiniteSet(I) /\ Cardinality(I) = Occurrences(Names(gate), w)
  BY <1>2, OccurrencesType DEF Occurrences
<1>4. IsFiniteSet(B) /\ Cardinality(B) = Cardinality(I)
  <2> HIDE DEF I
  <2> QED BY <1>3, Tagged
<1>5. C = UNION {{<<p, j>> : j \in Indices(Names(GateAt(p)'), w)} : p \in Places'}
  BY DEF References
<1>6. C = A \cup B
  <2>1. \A r : r \in C <=>
          \E p \in Places' : \E j \in Indices(Names(GateAt(p)'), w) : r = <<p, j>>
    BY <1>5
  <2>2. \A r : r \in A <=>
          \E p \in Places : \E j \in Indices(Names(GateAt(p)), w) : r = <<p, j>>
    BY ReferencePlace
  <2> HIDE DEF A, C
  <2> QED BY <1>1, <2>1, <2>2
<1>7. A \cap B = {}
  <2>1. \A r \in A : \E p \in Places : \E j : r = <<p, j>>
    BY ReferencePlace
  <2> HIDE DEF A
  <2> QED BY <1>1, <2>1
<1> HIDE DEF A, B, C, I
<1>8. /\ IsFiniteSet(A \cup B)
      /\ Cardinality(A \cup B) = Cardinality(A) + Cardinality(B) - Cardinality({})
  BY <1>4, <1>7, FS_Union DEF A
<1>9. Cardinality({}) = 0 /\ Cardinality(A) \in Nat /\ Cardinality(B) \in Nat
  BY <1>4, FS_EmptySet, FS_CardinalityType DEF A
<1> QED BY <1>3, <1>4, <1>6, <1>8, <1>9 DEF A, C

(* Taking a level away moves every place one level forward: its gates are  *)
(* the running ones, when no other level was being executed.               *)
Forward(p) == <<p[1] - 1, p[2]>>

(* Popping a level moves every gate one level forward, and loses none. *)
LEMMA PopMovesPlaces ==
  ASSUME TypeOK, IsSequence(gatesByLevelOffset'), running = <<>>, gatesByLevelOffset # <<>>,
         running' = Head(gatesByLevelOffset),
         gatesByLevelOffset' = Tail(gatesByLevelOffset)
  PROVE  /\ \A p \in Places : Forward(p) \in Places' /\ GateAt(Forward(p))' = GateAt(p)
         /\ \A q \in Places' : \E p \in Places : q = Forward(p)
         /\ \A p, q \in Places : Forward(p) = Forward(q) => p = q
         /\ \A p \in PendingPlaces : p[1] # 1 <=> Forward(p) \in PendingPlaces'
         /\ \A q \in PendingPlaces' : \E p \in PendingPlaces :
                                         p[1] # 1 /\ q = Forward(p)
         /\ \A p : p \in PendingPlaces /\ p[1] = 1 <=>
                   \E i \in DOMAIN Head(gatesByLevelOffset) : p = <<1, i>>
<1> PICK new, old : new = gatesByLevelOffset' /\ old = gatesByLevelOffset
  OBVIOUS
<1>1. /\ Len(old) \in Nat \ {0} /\ DOMAIN old = 1..Len(old)
      /\ DOMAIN new = 1..Len(old) - 1
      /\ \A k \in DOMAIN new : new[k] = old[k + 1]
      /\ running' = old[1]
  BY TailShifts DEF TypeOK
<1>2. DOMAIN running = {}
  BY EmptySequence
<1>3. \A p : p \in Places <=> \E k \in DOMAIN old : \E i \in DOMAIN old[k] : p = <<k, i>>
  BY <1>2, PendingPlace DEF Places
<1>4. \A q : q \in Places' <=>
        \/ \E i \in DOMAIN old[1] : q = <<0, i>>
        \/ \E k \in DOMAIN new : \E i \in DOMAIN new[k] : q = <<k, i>>
  BY <1>1, NextPendingPlace DEF Places
<1>5. /\ \A k \in DOMAIN old : \A i : GateAt(<<k, i>>) = old[k][i]
      /\ \A k \in DOMAIN new : \A i : GateAt(<<k, i>>)' = new[k][i]
      /\ \A i : GateAt(<<0, i>>)' = old[1][i]
  BY <1>1, PendingPlace, NextPendingPlace
<1>6. \A p : p \in PendingPlaces <=> p \in Places
  BY <1>3, PendingPlace
<1>7. \A q : q \in PendingPlaces' <=>
        \E k \in DOMAIN new : \E i \in DOMAIN new[k] : q = <<k, i>>
  BY NextPendingPlace
<1>8. \A p \in Places : /\ Forward(p) \in Places' /\ GateAt(Forward(p))' = GateAt(p)
                        /\ p[1] # 1 <=> Forward(p) \in PendingPlaces'
  <2> TAKE p \in Places
  <2> PICK k \in DOMAIN old : \E i \in DOMAIN old[k] : p = <<k, i>>
    BY <1>3
  <2> PICK i \in DOMAIN old[k] : p = <<k, i>>
    OBVIOUS
  <2>1. Forward(p) = <<k - 1, i>>
    BY DEF Forward
  <2>2. CASE k = 1
    BY <1>1, <1>4, <1>5, <1>7, <2>1, <2>2
  <2>3. CASE k # 1
    <3>1. k - 1 \in DOMAIN new /\ new[k - 1] = old[k]
      BY <1>1, <2>3
    <3>2. <<k - 1, i>> \in Places' /\ <<k - 1, i>> \in PendingPlaces'
      BY <1>4, <1>7, <3>1
    <3>3. GateAt(<<k - 1, i>>)' = GateAt(<<k, i>>)
      BY <1>5, <3>1
    <3> QED BY <2>1, <2>3, <3>2, <3>3
  <2> QED BY <2>2, <2>3
<1>9. \A q \in PendingPlaces' : \E p \in PendingPlaces : p[1] # 1 /\ q = Forward(p)
  <2> TAKE q \in PendingPlaces'
  <2> PICK k \in DOMAIN new : \E i \in DOMAIN new[k] : q = <<k, i>>
    BY <1>7
  <2> PICK i \in DOMAIN new[k] : q = <<k, i>>
    OBVIOUS
  <2>1. k + 1 \in DOMAIN old /\ i \in DOMAIN old[k + 1] /\ k + 1 # 1 /\ (k + 1) - 1 = k
    BY <1>1
  <2>2. <<k + 1, i>> \in PendingPlaces
    BY <1>3, <1>6, <2>1
  <2> QED BY <2>1, <2>2 DEF Forward
<1>10. \A q \in Places' : \E p \in Places : q = Forward(p)
  <2> TAKE q \in Places'
  <2>1. CASE \E i \in DOMAIN old[1] : q = <<0, i>>
    <3> PICK i \in DOMAIN old[1] : q = <<0, i>>
      BY <2>1
    <3>1. <<1, i>> \in Places
      BY <1>1, <1>3
    <3> QED BY <3>1 DEF Forward
  <2>2. CASE q \in PendingPlaces'
    BY <1>6, <1>9, <2>2
  <2> QED BY <1>4, <1>7, <2>1, <2>2
<1>11. \A p, q \in Places : Forward(p) = Forward(q) => p = q
  BY <1>1, <1>3 DEF Forward
<1>12. \A p : p \in PendingPlaces /\ p[1] = 1 <=> \E i \in DOMAIN old[1] : p = <<1, i>>
  BY <1>1, <1>3, <1>6
<1> QED BY <1>1, <1>6, <1>8, <1>9, <1>10, <1>11, <1>12

(* Popping a level changes no number of references. *)
LEMMA PopReferences ==
  ASSUME TypeOK, IsSequence(gatesByLevelOffset'), running = <<>>, gatesByLevelOffset # <<>>,
         running' = Head(gatesByLevelOffset),
         gatesByLevelOffset' = Tail(gatesByLevelOffset),
         NEW w, IsFiniteSet(References(Places, w))
  PROVE  /\ IsFiniteSet(References(Places, w)')
         /\ Cardinality(References(Places, w)') = Cardinality(References(Places, w))
<1> DEFINE A == References(Places, w)
           B == References(Places, w)'
           f == [r \in A |-> <<Forward(r[1]), r[2]>>]
<1>1. \A r : r \in A <=>
        \E p \in Places : \E j \in Indices(Names(GateAt(p)), w) : r = <<p, j>>
  BY ReferencePlace
<1>2. \A r : r \in B <=>
        \E p \in Places' : \E j \in Indices(Names(GateAt(p)'), w) : r = <<p, j>>
  BY DEF References
<1>3. /\ \A p \in Places : Forward(p) \in Places' /\ GateAt(Forward(p))' = GateAt(p)
      /\ \A q \in Places' : \E p \in Places : q = Forward(p)
      /\ \A p, q \in Places : Forward(p) = Forward(q) => p = q
  BY PopMovesPlaces
<1> HIDE DEF A, B
<1>4. \A r \in A : <<Forward(r[1]), r[2]>> \in B
  BY <1>1, <1>2, <1>3
<1>5. f \in [A -> B]
  BY <1>4
<1>6. \A r, s \in A : f[r] = f[s] => r = s
  BY <1>1, <1>3
<1>7. \A z \in B : \E r \in A : f[r] = z
  <2> TAKE z \in B
  <2> PICK q \in Places' : \E j \in Indices(Names(GateAt(q)'), w) : z = <<q, j>>
    BY <1>2
  <2> PICK j \in Indices(Names(GateAt(q)'), w) : z = <<q, j>>
    OBVIOUS
  <2> PICK p \in Places : q = Forward(p)
    BY <1>3
  <2>1. GateAt(q)' = GateAt(p)
    BY <1>3
  <2>2. <<p, j>> \in A
    BY <1>1, <2>1
  <2> QED BY <2>2
<1> HIDE DEF f
<1>8. IsFiniteSet(B) /\ Cardinality(B) = Cardinality(A)
  BY <1>5, <1>6, <1>7, OneToOne DEF A
<1> QED BY <1>8 DEF A, B

(* Popping a level takes its gates away from those that are pending. *)
LEMMA PopCounts ==
  ASSUME TypeOK, IsSequence(gatesByLevelOffset'), running = <<>>, gatesByLevelOffset # <<>>,
         running' = Head(gatesByLevelOffset),
         gatesByLevelOffset' = Tail(gatesByLevelOffset),
         IsFiniteSet(PendingPlaces)
  PROVE  /\ IsFiniteSet(PendingPlaces') /\ Cardinality(PendingPlaces') \in Nat
         /\ Cardinality(PendingPlaces') =
              Cardinality(PendingPlaces) - Len(Head(gatesByLevelOffset))
<1> DEFINE first == {p \in PendingPlaces : p[1] = 1}
           rest == {p \in PendingPlaces : p[1] # 1}
           f == [p \in rest |-> Forward(p)]
           n == Len(Head(gatesByLevelOffset))
<1>1. /\ \A p \in rest : Forward(p) \in PendingPlaces'
      /\ \A q \in PendingPlaces' : \E p \in rest : q = Forward(p)
      /\ \A p, q \in rest : Forward(p) = Forward(q) => p = q
      /\ \A p : p \in first <=> \E i \in DOMAIN Head(gatesByLevelOffset) : p = <<1, i>>
  BY PopMovesPlaces DEF Places
<1>2. n \in Nat /\ DOMAIN Head(gatesByLevelOffset) = 1..n
  <2>1. IsLevel(Head(gatesByLevelOffset))
    BY TailShifts DEF TypeOK
  <2> QED BY <2>1, SequenceOfItsElements DEF IsLevel, IsSequence
<1>3. IsFiniteSet(first) /\ Cardinality(first) = n
  <2>1. first = {<<1, i>> : i \in 1..n}
    BY <1>1, <1>2
  <2> HIDE DEF n, first
  <2>2. IsFiniteSet(1..n) /\ Cardinality(1..n) = IF 1 > n THEN 0 ELSE n - 1 + 1
    BY <1>2, FS_Interval
  <2>3. Cardinality(1..n) = n
    BY <1>2, <2>2
  <2> QED BY <2>1, <2>2, <2>3, Tagged
<1>4. IsFiniteSet(rest)
  BY FS_Subset
<1>5. IsFiniteSet(PendingPlaces') /\ Cardinality(PendingPlaces') = Cardinality(rest)
  <2>1. f \in [rest -> PendingPlaces']
    BY <1>1
  <2>2. \A p, q \in rest : f[p] = f[q] => p = q
    BY <1>1
  <2>3. \A z \in PendingPlaces' : \E p \in rest : f[p] = z
    BY <1>1
  <2> HIDE DEF f, rest
  <2> QED BY <1>4, <2>1, <2>2, <2>3, OneToOne
<1>6. PendingPlaces = first \cup rest /\ first \cap rest = {}
  OBVIOUS
<1> HIDE DEF first, rest, n
<1>7. Cardinality(PendingPlaces) = Cardinality(first) + Cardinality(rest)
  <2>1. Cardinality(first \cup rest) =
          Cardinality(first) + Cardinality(rest) - Cardinality(first \cap rest)
    BY <1>3, <1>4, FS_Union
  <2>2. /\ Cardinality(first) \in Nat /\ Cardinality(rest) \in Nat
        /\ Cardinality(first \cap rest) = 0
    BY <1>3, <1>4, <1>6, FS_CardinalityType, FS_EmptySet
  <2> QED BY <1>6, <2>1, <2>2
<1>8. Cardinality(rest) \in Nat
  BY <1>4, FS_CardinalityType
<1> QED BY <1>2, <1>3, <1>5, <1>7, <1>8 DEF n

-----------------------------------------------------------------------------
(* The steps.                                                              *)

(* What the invariant says of the references to a wire. *)
ExactFor(w) ==
  IF w \in DOMAIN wires
  THEN /\ wires[w].referenceCount = handles[w] + Cardinality(References(Places, w))
       /\ handles[w] + Cardinality(References(Places, w)) > 0
  ELSE handles[w] + Cardinality(References(Places, w)) = 0

(* A wire the caller holds is in use: this is what the reference counts    *)
(* are for.                                                                *)
LEMMA HeldIsStored ==
  ASSUME IInv, NEW w \in Wire, handles[w] > 0
  PROVE  w \in DOMAIN wires
<1>1. handles[w] \in Nat /\ Cardinality(References(Places, w)) \in Nat
  BY FS_CardinalityType DEF IInv, TypeOK
<1> QED BY <1>1 DEF IInv, RefCountExact

(* Gate makes a gate. *)
LEMMA GateIsGate ==
  ASSUME NEW type \in GateTypes, NEW a \in Allocators, NEW ins \in Seq(Wire),
         NEW outs \in Seq(Wire), NEW party \in Party, NEW sizes
  PROVE  IsGate(Gate(type, a, ins, outs, party, sizes))
BY DEF IsGate, Gate

(* Creating a gate, whatever it is. *)
LEMMA Creation ==
  ASSUME IInv,
         NEW type \in GateTypes, NEW a \in Allocators, NEW ins \in Seq(DOMAIN wires),
         NEW outs, NEW party \in Party, NEW strategy,
         NEW level \in Nat, firstUnexecutedLevel <= level,
         NEW values, Len(values) \in Nat, DOMAIN values = 1..Len(values),
         NEW sizes, NEW ideals,
         newGate(Gate(type, a, ins, outs, party, strategy), level, values, sizes),
         Receives(outs, ideals),
         Becomes("limit", 0, <<>>) \/ Becomes("idle", 0, <<>>),
         UNCHANGED <<executionVars, engineVars>>
  PROVE  IInv'
<1> PICK gate : gate = Gate(type, a, ins, outs, party, strategy)
  OBVIOUS
<1>1. gate.outs = outs /\ gate.ins = ins
  BY DEF Gate
<1>2. ins \in Seq(Wire) /\ outs \in Seq(Wire)
  <2>1. ins \in Seq(Wire)
    BY DEF IInv, TypeOK
  <2>2. outs \in [1..Len(values) -> Wire \ DOMAIN wires]
    BY <1>1 DEF newGate, FreshWires
  <2> QED BY <2>1, <2>2
<1>3. IsGate(gate)
  BY <1>2, GateIsGate
<1>4. TypeOK
  BY DEF IInv
<1>5. newGate(gate, level, values, sizes)
  OBVIOUS
<1>6. /\ \A i, j \in DOMAIN outs : outs[i] = outs[j] => i = j
      /\ ElementsOf(outs) \subseteq Wire \ DOMAIN wires
      /\ DOMAIN wires' = DOMAIN wires \cup ElementsOf(outs)
      /\ \A w \in DOMAIN wires' :
           /\ DOMAIN wires'[w] = WireFields
           /\ wires'[w].allocator \in Allocators
           /\ wires'[w].firstAvailableLevel =
                IF w \in DOMAIN wires THEN wires[w].firstAvailableLevel ELSE level
           /\ wires'[w].referenceCount =
                (IF w \in DOMAIN wires THEN wires[w].referenceCount ELSE 1)
                  + Occurrences(Names(gate), w)
  <2>1. StoresNewWires(gate, gate.outs, level)
    BY <1>3, <1>4, <1>5, NewGateWires
  <2>2. StoresNewWires(gate, outs, level)
    BY <1>1, <2>1
  <2> QED BY <2>2 DEF StoresNewWires
<1>7. /\ gatesByLevelOffset' = addGate(gate, level)
      /\ numUnexecutedGates' = numUnexecutedGates + 1
      /\ firstUnexecutedLevel' = firstUnexecutedLevel
      /\ running' = running /\ phase' = phase /\ position' = position
      /\ scheduled' = scheduled /\ executionResults' = executionResults
  BY <1>5 DEF newGate, executionVars, engineVars
<1>8. /\ IsSequence(gatesByLevelOffset')
      /\ Len(gatesByLevelOffset') \in Nat /\ Len(gatesByLevelOffset) \in Nat
      /\ Len(gatesByLevelOffset) <= Len(gatesByLevelOffset')
      /\ level - firstUnexecutedLevel + 1 <= Len(gatesByLevelOffset')
      /\ \A k \in DOMAIN gatesByLevelOffset' : IsLevel(gatesByLevelOffset'[k])
  BY <1>3, <1>4, <1>7, AddGate DEF TargetLevel
<1>9. \A w : Occurrences(outs, w) = IF w \in ElementsOf(outs) THEN 1 ELSE 0
  BY <1>2, <1>6, OccursOnce
<1>10. /\ Names(gate) \in Seq(Wire)
       /\ ElementsOf(Names(gate)) = ElementsOf(outs) \cup ElementsOf(ins)
       /\ \A w : Occurrences(Names(gate), w) \in Nat
       /\ \A w : w \notin DOMAIN wires' => Occurrences(Names(gate), w) = 0
  <2>1. Names(gate) \in Seq(Wire)
    BY <1>1, <1>2 DEF Names
  <2>2. ElementsOf(Names(gate)) = ElementsOf(outs) \cup ElementsOf(ins)
    <3> PICK m \in Nat, n \in Nat : m = Len(outs) /\ n = Len(ins)
      BY <1>2
    <3> DEFINE s == outs \o ins
    <3>1. /\ DOMAIN outs = 1..m /\ DOMAIN ins = 1..n /\ DOMAIN s = 1..m + n
          /\ \A i \in 1..m : s[i] = outs[i]
          /\ \A i \in m + 1..m + n : s[i] = ins[i - m]
      BY <1>2
    <3>2. \A i \in 1..n : m + i \in m + 1..m + n /\ s[m + i] = ins[i]
      BY <3>1
    <3> HIDE DEF s
    <3>3. ElementsOf(outs) \cup ElementsOf(ins) \subseteq ElementsOf(s)
      <4>1. \A i \in 1..m : i \in 1..m + n
        OBVIOUS
      <4>2. \A i \in 1..n : m + i \in 1..m + n
        OBVIOUS
      <4>3. \A i \in DOMAIN outs : outs[i] \in ElementsOf(s)
        BY <3>1, <4>1 DEF ElementsOf
      <4>4. \A i \in DOMAIN ins : ins[i] \in ElementsOf(s)
        <5> TAKE i \in DOMAIN ins
        <5>1. m + i \in DOMAIN s /\ s[m + i] = ins[i]
          BY <3>1, <3>2, <4>2
        <5> QED BY <5>1, Zenon DEF ElementsOf
      <4> QED BY <4>3, <4>4, Zenon DEF ElementsOf
    <3>4. ElementsOf(s) \subseteq ElementsOf(outs) \cup ElementsOf(ins)
      <4>1. \A i \in 1..m + n : i \in 1..m \/ (i \in m + 1..m + n /\ i - m \in 1..n)
        OBVIOUS
      <4> SUFFICES ASSUME NEW e \in ElementsOf(s)
                   PROVE  e \in ElementsOf(outs) \cup ElementsOf(ins)
        OBVIOUS
      <4>2. PICK i \in 1..m + n : e = s[i]
        BY <3>1 DEF ElementsOf
      <4>3. CASE i \in 1..m
        BY <3>1, <4>2, <4>3 DEF ElementsOf
      <4>4. CASE i \in m + 1..m + n /\ i - m \in 1..n
        BY <3>1, <4>2, <4>4 DEF ElementsOf
      <4> QED BY <4>1, <4>3, <4>4
    <3> QED BY <1>1, <3>3, <3>4 DEF Names, s
  <2>3. ElementsOf(ins) \subseteq DOMAIN wires
    BY DEF ElementsOf
  <2> QED BY <1>6, <2>1, <2>2, <2>3, OccurrencesType
<1>11. /\ handles' = [w \in Wire |-> handles[w] + Occurrences(outs, w)]
       /\ DOMAIN ideal' = DOMAIN ideal \cup ElementsOf(outs)
  BY DEF Receives
<1>12. call'.kind \in {"limit", "idle"} /\ call'.level = 0 /\ call'.ins = <<>>
  BY DEF Becomes
<1>13. TypeOK'
  <2>1. DOMAIN wires' \subseteq Wire /\ DOMAIN ideal' = DOMAIN wires'
    BY <1>4, <1>6, <1>11 DEF TypeOK
  <2>2. \A w \in DOMAIN wires' :
          /\ DOMAIN wires'[w] = WireFields
          /\ wires'[w].allocator \in Allocators
          /\ wires'[w].firstAvailableLevel \in Nat
          /\ wires'[w].referenceCount \in Nat
    <3> TAKE w \in DOMAIN wires'
    <3>1. CASE w \in DOMAIN wires
      BY <1>4, <1>6, <1>10, <3>1 DEF TypeOK
    <3>2. CASE w \notin DOMAIN wires
      BY <1>4, <1>6, <1>10, <3>2 DEF TypeOK
    <3> QED BY <3>1, <3>2
  <2>3. handles' \in [Wire -> Nat]
    <3>1. handles \in [Wire -> Nat]
      BY <1>4 DEF TypeOK
    <3>2. \A w : Occurrences(outs, w) \in Nat
      BY <1>9
    <3> QED BY <1>11, <3>1, <3>2
  <2>4. firstUnexecutedLevel' \in Nat /\ numUnexecutedGates' \in Nat
    BY <1>4, <1>7 DEF TypeOK
  <2>5. /\ call'.kind \in {"idle", "limit", "force", "batchingUp"}
        /\ call'.level \in Nat /\ call'.ins \in Seq(Wire)
    BY <1>12
  <2>6. /\ phase' \in {"ready", "compute", "collect", "thrown"}
        /\ IsLevel(running)' /\ position' \in 0..Len(running')
        /\ DOMAIN scheduled' = Queue /\ DOMAIN executionResults' = Queue
    BY <1>4, <1>7 DEF TypeOK, IsLevel, IsSequence, ElementsOf, IsGate
  <2> QED
    BY <1>8, <2>1, <2>2, <2>3, <2>4, <2>5, <2>6
    DEF TypeOK, WireFields, IsSequence, IsLevel, IsGate, ElementsOf
<1>14. LevelsExist'
  <2>1. \A w \in DOMAIN wires' :
          wires'[w].firstAvailableLevel < firstUnexecutedLevel' + Len(gatesByLevelOffset')
    <3>1. level < firstUnexecutedLevel + Len(gatesByLevelOffset')
      BY <1>4, <1>8 DEF TypeOK
    <3>2. \A w \in DOMAIN wires :
            wires[w].firstAvailableLevel < firstUnexecutedLevel + Len(gatesByLevelOffset)
      BY DEF IInv, LevelsExist
    <3>3. \A w \in DOMAIN wires : wires[w].firstAvailableLevel \in Nat
      BY <1>4 DEF TypeOK
    <3>4. firstUnexecutedLevel \in Nat
      BY <1>4 DEF TypeOK
    <3> QED BY <1>6, <1>7, <1>8, <3>1, <3>2, <3>3, <3>4
  <2> QED BY <2>1, <1>12 DEF LevelsExist
<1>15. GateCount' /\ IsFiniteSet(PendingPlaces')
  <2> PICK p0 : p0 = NewPlace(level)
    OBVIOUS
  <2>1. PendingPlaces' = PendingPlaces \cup {p0} /\ p0 \notin PendingPlaces
    BY <1>3, <1>4, <1>7, <1>8, AddPlace DEF Places
  <2>2. IsFiniteSet(PendingPlaces) /\ numUnexecutedGates = Cardinality(PendingPlaces)
    BY DEF IInv, GateCount
  <2> QED BY <1>7, <2>1, <2>2, FS_AddElement DEF GateCount
<1>16. \A w \in Wire : IsFiniteSet(References(Places, w)') /\ ExactFor(w)'
  <2> TAKE w \in Wire
  <2> DEFINE c == Cardinality(References(Places, w))
             d == Cardinality(References(Places, w)')
             o == Occurrences(Names(gate), w)
  <2>1. IsFiniteSet(References(Places, w)) /\ c \in Nat /\ handles[w] \in Nat
    BY <1>4, FS_CardinalityType DEF IInv, TypeOK
  <2>2. IsFiniteSet(References(Places, w)') /\ d = c + o
    BY <1>3, <1>4, <1>7, <1>8, <2>1, AddReferences
  <2>3. /\ handles'[w] = handles[w] + (IF w \in ElementsOf(outs) THEN 1 ELSE 0)
        /\ o \in Nat /\ (w \notin DOMAIN wires' => o = 0)
    BY <1>9, <1>10, <1>11
  <2>4. IF w \in DOMAIN wires
        THEN wires[w].referenceCount = handles[w] + c /\ handles[w] + c > 0
        ELSE handles[w] + c = 0
    BY DEF IInv, RefCountExact
  <2>5. w \in DOMAIN wires' =>
          wires'[w].referenceCount =
            (IF w \in DOMAIN wires THEN wires[w].referenceCount ELSE 1) + o
    BY <1>6
  <2>6. w \in DOMAIN wires' <=> w \in DOMAIN wires \/ w \in ElementsOf(outs)
    BY <1>6
  <2>7. ~ (w \in DOMAIN wires /\ w \in ElementsOf(outs))
    BY <1>6
  <2> HIDE DEF c, d, o
  <2>8. IF w \in DOMAIN wires'
        THEN wires'[w].referenceCount = handles'[w] + d /\ handles'[w] + d > 0
        ELSE handles'[w] + d = 0
    BY <2>1, <2>2, <2>3, <2>4, <2>5, <2>6, <2>7
  <2> QED BY <2>2, <2>8 DEF ExactFor, d
<1>17. /\ call'.kind = "idle" \/ \A w \in ElementsOf(call'.ins) : handles'[w] > 0
       /\ phase' = "ready" => running' = <<>>
  BY <1>7, <1>12, EmptySequence DEF IInv, Idle, ElementsOf
<1> QED BY <1>13, <1>14, <1>15, <1>16, <1>17 DEF IInv, Idle, RefCountExact, ExactFor

(* Steps that keep every gate in its place. *)
LEMMA Unmoved ==
  ASSUME TypeOK, IsSequence(gatesByLevelOffset'), gatesByLevelOffset' = gatesByLevelOffset,
         DOMAIN running' = DOMAIN running,
         \A i \in DOMAIN running : Names(running'[i]) = Names(running[i])
  PROVE  /\ Places' = Places /\ PendingPlaces' = PendingPlaces
         /\ \A w : References(Places, w)' = References(Places, w)
<1>1. PendingPlaces' = PendingPlaces
  <2>1. \A p : p \in PendingPlaces' <=> p \in PendingPlaces
    BY PendingPlace, NextPendingPlace
  <2> QED BY <2>1
<1>2. Places' = Places
  <2>1. \A p : p \in RunningPlaces' <=> p \in RunningPlaces
    BY PendingPlace, NextPendingPlace
  <2> QED BY <1>1, <2>1 DEF Places
<1>3. \A p \in Places : Names(GateAt(p))' = Names(GateAt(p))
  <2>1. \A p \in RunningPlaces : Names(GateAt(p)') = Names(GateAt(p))
    BY PendingPlace, NextPendingPlace
  <2>2. \A p \in PendingPlaces : GateAt(p)' = GateAt(p)
    BY PendingPlace, NextPendingPlace
  <2> QED BY <2>1, <2>2 DEF Names, Places
<1>4. \A w : References(Places, w)' = References(Places, w)
  <2> TAKE w
  <2>1. \A r : r \in References(Places, w)' <=> r \in References(Places, w)
    <3>1. \A r : r \in References(Places, w)' <=>
            \E p \in Places' : \E j \in Indices(Names(GateAt(p))', w) : r = <<p, j>>
      BY DEF References
    <3>2. \A r : r \in References(Places, w) <=>
            \E p \in Places : \E j \in Indices(Names(GateAt(p)), w) : r = <<p, j>>
      BY ReferencePlace
    <3> QED BY <1>2, <1>3, <3>1, <3>2
  <2> QED BY <2>1
<1> QED BY <1>1, <1>2, <1>4

(* Steps that leave all of the store alone but the values. *)
SameRecords ==
  /\ DOMAIN wires' = DOMAIN wires
  /\ \A w \in DOMAIN wires :
       /\ DOMAIN wires'[w] = WireFields
       /\ wires'[w].allocator = wires[w].allocator
       /\ wires'[w].firstAvailableLevel = wires[w].firstAvailableLevel
       /\ wires'[w].referenceCount = wires[w].referenceCount

(* Setting values changes nothing but values. *)
LEMMA SetValuesOnly ==
  ASSUME TypeOK, NEW ids, NEW vs,
         wires' = setValues(wires, ids, vs) \/ wires' = wires
  PROVE  SameRecords
<1>1. DOMAIN wires' = DOMAIN wires
  BY DEF setValues
<1>2. \A w \in DOMAIN wires : \/ wires'[w] = wires[w]
                              \/ \E v : wires'[w] = [wires[w] EXCEPT !.v = v]
  BY DEF setValues
<1>3. \A w \in DOMAIN wires : DOMAIN wires[w] = WireFields
  BY DEF TypeOK, WireFields
<1> QED BY <1>1, <1>2, <1>3 DEF SameRecords, WireFields

(* A step that touches neither levels, nor reference counts, nor handles   *)
(* keeps the invariant.                                                    *)
LEMMA QuietStep ==
  ASSUME IInv, SameRecords,
         gatesByLevelOffset' = gatesByLevelOffset,
         firstUnexecutedLevel' = firstUnexecutedLevel,
         numUnexecutedGates' = numUnexecutedGates,
         IsLevel(running)', DOMAIN running' = DOMAIN running,
         \A i \in DOMAIN running : Names(running'[i]) = Names(running[i]),
         position' \in 0..Len(running'),
         phase' \in {"ready", "compute", "collect", "thrown"},
         phase' = "ready" => running' = <<>>,
         DOMAIN scheduled' = Queue, DOMAIN executionResults' = Queue,
         handles' = handles, ideal' = ideal,
         call'.kind \in {"idle", "limit", "force", "batchingUp"},
         call'.level \in Nat, call'.ins \in Seq(Wire),
         call'.kind = "force" =>
           call'.level < firstUnexecutedLevel + Len(gatesByLevelOffset),
         call'.kind = "idle" \/ \A w \in ElementsOf(call'.ins) : handles[w] > 0
  PROVE  IInv'
<1>1. TypeOK
  BY DEF IInv
<1>2. TypeOK'
  <2>1. /\ DOMAIN wires' \subseteq Wire /\ DOMAIN ideal' = DOMAIN wires'
        /\ \A w \in DOMAIN wires' :
             /\ DOMAIN wires'[w] = WireFields
             /\ wires'[w].allocator \in Allocators
             /\ wires'[w].firstAvailableLevel \in Nat
             /\ wires'[w].referenceCount \in Nat
    BY <1>1 DEF SameRecords, TypeOK
  <2>2. /\ IsSequence(gatesByLevelOffset)'
        /\ \A k \in DOMAIN gatesByLevelOffset' : IsLevel(gatesByLevelOffset'[k])
        /\ firstUnexecutedLevel' \in Nat /\ numUnexecutedGates' \in Nat
        /\ handles' \in [Wire -> Nat]
    BY <1>1 DEF TypeOK, IsSequence, ElementsOf
  <2> QED BY <2>1, <2>2 DEF TypeOK, WireFields, IsLevel, IsSequence, IsGate, ElementsOf
<1>3. /\ Places' = Places /\ PendingPlaces' = PendingPlaces
      /\ \A w : References(Places, w)' = References(Places, w)
  <2>1. IsSequence(gatesByLevelOffset')
    BY <1>1 DEF TypeOK
  <2> QED BY <1>1, <2>1, Unmoved
<1>4. LevelsExist'
  BY DEF IInv, LevelsExist, SameRecords
<1>5. GateCount' /\ IsFiniteSet(PendingPlaces')
  BY <1>3 DEF IInv, GateCount
<1>6. \A w \in Wire : IsFiniteSet(References(Places, w)') /\ ExactFor(w)'
  <2> TAKE w \in Wire
  <2>1. IsFiniteSet(References(Places, w)) /\ ExactFor(w)
    BY DEF IInv, RefCountExact, ExactFor
  <2>2. References(Places, w)' = References(Places, w)
    BY <1>3
  <2> QED BY <2>1, <2>2 DEF ExactFor, SameRecords
<1> QED BY <1>2, <1>4, <1>5, <1>6 DEF IInv, Idle, RefCountExact, ExactFor

(* When a loop continues there is a level to execute. *)
LEMMA LevelsFound ==
  ASSUME IInv
  PROVE  ForceFindsLevel /\ LimitFindsLevel
<1>1. ForceFindsLevel
  <2> SUFFICES ASSUME call.kind = "force", phase = "ready", LoopContinues,
                      gatesByLevelOffset = <<>>
               PROVE  FALSE
    BY DEF ForceFindsLevel
  <2>1. firstUnexecutedLevel <= call.level
    BY DEF LoopContinues
  <2>2. call.level < firstUnexecutedLevel + 0
    BY EmptySequence DEF IInv, LevelsExist
  <2> QED BY <2>1, <2>2 DEF IInv, TypeOK
<1>2. LimitFindsLevel
  <2> SUFFICES ASSUME call.kind \in {"limit", "batchingUp"}, LoopContinues,
                      gatesByLevelOffset = <<>>
               PROVE  FALSE
    BY DEF LimitFindsLevel
  <2>1. numUnexecutedGates > 0
    BY GateKeeperAssumption DEF LoopContinues, hasReachedBatchingLimit, IInv, TypeOK
  <2>2. \A p : p \notin PendingPlaces
    BY EmptySequence, PendingPlace DEF IInv
  <2>3. Cardinality(PendingPlaces) = 0
    BY <2>2, FS_EmptySet
  <2> QED BY <2>1, <2>3 DEF IInv, GateCount
<1> QED BY <1>1, <1>2

(* Popping a level keeps the invariant: the gates move from the keeper to  *)
(* the running level.                                                      *)
LEMMA PopLevelStep == ASSUME IInv, PopLevel PROVE IInv'
<1>1. TypeOK /\ running = <<>>
  BY DEF IInv, PopLevel
<1>2. gatesByLevelOffset # <<>>
  <2>1. call.kind \in {"limit", "force", "batchingUp"}
    BY <1>1 DEF PopLevel, Idle, TypeOK
  <2> QED BY <2>1, LevelsFound DEF PopLevel, ForceFindsLevel, LimitFindsLevel
<1>3. /\ running' = Head(gatesByLevelOffset)
      /\ gatesByLevelOffset' = Tail(gatesByLevelOffset)
      /\ firstUnexecutedLevel' = firstUnexecutedLevel + 1
      /\ numUnexecutedGates' = numUnexecutedGates - Len(Head(gatesByLevelOffset))
      /\ phase' = "compute" /\ position' = 0
      /\ wires' = wires /\ call' = call /\ handles' = handles /\ ideal' = ideal
      /\ scheduled' = scheduled /\ executionResults' = executionResults
  BY DEF PopLevel, popFirstUnexecutedLevel, engineVars, callerVars
<1>4. /\ IsSequence(gatesByLevelOffset') /\ Len(gatesByLevelOffset) \in Nat \ {0}
      /\ Len(gatesByLevelOffset') = Len(gatesByLevelOffset) - 1
      /\ \A k \in DOMAIN gatesByLevelOffset' : IsLevel(gatesByLevelOffset'[k])
      /\ IsLevel(running') /\ Len(running') \in Nat
  <2>1. /\ IsSequence(gatesByLevelOffset') /\ Len(gatesByLevelOffset) \in Nat \ {0}
        /\ Len(gatesByLevelOffset') = Len(gatesByLevelOffset) - 1
        /\ DOMAIN gatesByLevelOffset = 1..Len(gatesByLevelOffset)
        /\ DOMAIN gatesByLevelOffset' = 1..Len(gatesByLevelOffset) - 1
        /\ \A k \in DOMAIN gatesByLevelOffset' :
             gatesByLevelOffset'[k] = gatesByLevelOffset[k + 1]
        /\ running' = gatesByLevelOffset[1]
    BY <1>1, <1>2, <1>3, TailShifts DEF TypeOK
  <2>2. \A k \in DOMAIN gatesByLevelOffset : IsLevel(gatesByLevelOffset[k])
    BY <1>1 DEF TypeOK
  <2>3. /\ \A k \in DOMAIN gatesByLevelOffset' : IsLevel(gatesByLevelOffset'[k])
        /\ IsLevel(running')
    BY <2>1, <2>2
  <2>4. Len(running') \in Nat
    BY <2>3, SequenceOfItsElements DEF IsLevel, IsSequence
  <2> QED BY <2>1, <2>3, <2>4
<1>5. IsFiniteSet(PendingPlaces) /\ numUnexecutedGates = Cardinality(PendingPlaces)
  BY DEF IInv, GateCount
<1>6. IsFiniteSet(PendingPlaces') /\ GateCount' /\ numUnexecutedGates' \in Nat
  <2>1. /\ IsFiniteSet(PendingPlaces') /\ Cardinality(PendingPlaces') \in Nat
        /\ Cardinality(PendingPlaces') =
             Cardinality(PendingPlaces) - Len(Head(gatesByLevelOffset))
    BY <1>1, <1>2, <1>3, <1>4, <1>5, PopCounts
  <2> QED BY <1>3, <1>5, <2>1 DEF GateCount
<1>7. TypeOK'
  <2>1. /\ IsSequence(gatesByLevelOffset)'
        /\ \A k \in DOMAIN gatesByLevelOffset' : IsLevel(gatesByLevelOffset[k])'
        /\ IsLevel(running)'
    BY <1>4 DEF IsSequence, IsLevel, IsGate, ElementsOf
  <2>2. /\ firstUnexecutedLevel' \in Nat /\ position' \in 0..Len(running')
        /\ phase' \in {"ready", "compute", "collect", "thrown"}
    BY <1>1, <1>3, <1>4 DEF TypeOK
  <2>3. /\ DOMAIN wires' \subseteq Wire /\ DOMAIN ideal' = DOMAIN wires'
        /\ \A w \in DOMAIN wires' :
             /\ DOMAIN wires'[w] = WireFields
             /\ wires'[w].allocator \in Allocators
             /\ wires'[w].firstAvailableLevel \in Nat
             /\ wires'[w].referenceCount \in Nat
        /\ call'.kind \in {"idle", "limit", "force", "batchingUp"}
        /\ call'.level \in Nat /\ call'.ins \in Seq(Wire)
        /\ DOMAIN scheduled' = Queue /\ DOMAIN executionResults' = Queue
        /\ handles' \in [Wire -> Nat]
    BY <1>1, <1>3 DEF TypeOK, WireFields
  <2> QED BY <1>6, <2>1, <2>2, <2>3 DEF TypeOK, WireFields
<1>9. LevelsExist'
  <2>1. firstUnexecutedLevel' + Len(gatesByLevelOffset') =
          firstUnexecutedLevel + Len(gatesByLevelOffset)
    BY <1>1, <1>3, <1>4 DEF TypeOK
  <2> QED BY <1>3, <2>1 DEF IInv, LevelsExist
<1>10. \A w \in Wire : IsFiniteSet(References(Places, w)') /\ ExactFor(w)'
  <2> TAKE w \in Wire
  <2>1. IsFiniteSet(References(Places, w)) /\ ExactFor(w)
    BY DEF IInv, Idle, RefCountExact, ExactFor
  <2>2. /\ IsFiniteSet(References(Places, w)')
        /\ Cardinality(References(Places, w)') = Cardinality(References(Places, w))
    BY <1>1, <1>2, <1>3, <1>4, <2>1, PopReferences
  <2> QED BY <1>3, <2>1, <2>2 DEF ExactFor
<1>11. /\ call'.kind = "idle" \/ \A w \in ElementsOf(call'.ins) : handles'[w] > 0
       /\ phase' # "ready"
  BY <1>3 DEF IInv, Idle
<1> QED BY <1>6, <1>7, <1>9, <1>10, <1>11 DEF IInv, Idle, RefCountExact, ExactFor

(* Setting where a gate's results are leaves it a gate with the same names. *)
Marked(new, n) ==
  \/ \E index : new = [running EXCEPT ![n].scheduledResultIndex = index]
  \/ \E index, number : new = [running EXCEPT ![n].scheduledResultIndex = index,
                                              ![n].numberOfResults = number]

(* Recording in a gate where its results are leaves the wires it names. *)
LEMMA MarkGate ==
  ASSUME IsLevel(running), NEW n \in DOMAIN running, NEW new, Marked(new, n)
  PROVE  /\ IsLevel(new) /\ DOMAIN new = DOMAIN running /\ Len(new) = Len(running)
         /\ \A i \in DOMAIN running : Names(new[i]) = Names(running[i])
<1>1. IsGate(running[n])
  BY DEF IsLevel
<1>2. PICK gate : /\ new = [running EXCEPT ![n] = gate]
                  /\ IsGate(gate) /\ Names(gate) = Names(running[n])
  <2>1. ASSUME NEW index,
               new = [running EXCEPT ![n].scheduledResultIndex = index]
        PROVE  \E gate : /\ new = [running EXCEPT ![n] = gate]
                         /\ IsGate(gate) /\ Names(gate) = Names(running[n])
    <3> DEFINE gate == [running[n] EXCEPT !.scheduledResultIndex = index]
    <3>1. new = [running EXCEPT ![n] = gate]
      BY <2>1
    <3>2. IsGate(gate) /\ Names(gate) = Names(running[n])
      BY <1>1 DEF IsGate, Names
    <3> HIDE DEF gate
    <3> QED BY <3>1, <3>2
  <2>2. ASSUME NEW index, NEW number,
               new = [running EXCEPT ![n].scheduledResultIndex = index,
                                     ![n].numberOfResults = number]
        PROVE  \E gate : /\ new = [running EXCEPT ![n] = gate]
                         /\ IsGate(gate) /\ Names(gate) = Names(running[n])
    <3> DEFINE gate == [running[n] EXCEPT !.scheduledResultIndex = index,
                                          !.numberOfResults = number]
    <3>1. new = [running EXCEPT ![n] = gate]
      BY <2>2
    <3>2. IsGate(gate) /\ Names(gate) = Names(running[n])
      BY <1>1 DEF IsGate, Names
    <3> HIDE DEF gate
    <3> QED BY <3>1, <3>2
  <2> QED BY <2>1, <2>2 DEF Marked
<1>3. DOMAIN new = DOMAIN running
  BY <1>2
<1>4. \A i \in DOMAIN running : new[i] = IF i = n THEN gate ELSE running[i]
  BY <1>2
<1>5. /\ \A i \in DOMAIN running : IsGate(new[i])
      /\ \A i \in DOMAIN running : Names(new[i]) = Names(running[i])
  BY <1>2, <1>4 DEF IsLevel
<1>6. Len(running) \in Nat /\ DOMAIN running = 1..Len(running)
  BY SequenceOfItsElements DEF IsLevel, IsSequence
<1>7. IsSequence(new) /\ Len(new) = Len(running)
  <2> DEFINE E == ElementsOf(new)
             m == Len(running)
  <2>1. \A k \in 1..m : new[k] \in E
    BY <1>3, <1>6 DEF ElementsOf
  <2>2. new = [k \in 1..m |-> new[k]]
    <3> HIDE DEF m
    <3>1. new = [k \in DOMAIN new |-> new[k]]
      BY <1>2
    <3> QED BY <1>3, <1>6, <3>1 DEF m
  <2> HIDE DEF E, m
  <2>3. new \in Seq(E) /\ Len(new) = m
    BY <1>6, <2>1, <2>2 DEF m
  <2> QED BY <2>3 DEF IsSequence, E, m
<1> QED BY <1>3, <1>5, <1>7 DEF IsLevel

(* Computing a gate keeps the invariant. *)
LEMMA ComputeGateStep == ASSUME IInv, ComputeGate PROVE IInv'
<1>1. TypeOK /\ position + 1 \in DOMAIN running /\ IsLevel(running)
  <2>1. IsLevel(running) /\ position \in 0..Len(running) /\ position < Len(running)
    BY DEF IInv, TypeOK, ComputeGate
  <2>2. Len(running) \in Nat /\ DOMAIN running = 1..Len(running)
    BY <2>1, SequenceOfItsElements DEF IsLevel, IsSequence
  <2> QED BY <2>1, <2>2 DEF IInv
<1>2. ComputeFreeGate(gateAtHand) \/ ScheduleOpening(gateAtHand)
        \/ ScheduleOperation(gateAtHand)
  BY DEF ComputeGate
<1>3. SameRecords
  BY <1>1, <1>2, SetValuesOnly
  DEF ComputeFreeGate, ScheduleOpening, ScheduleOperation
<1>4. running' = running \/ Marked(running', position + 1)
  BY <1>2 DEF ComputeFreeGate, ScheduleOpening, ScheduleOperation, Marked
<1>5. /\ IsLevel(running') /\ DOMAIN running' = DOMAIN running
      /\ Len(running') = Len(running)
      /\ \A i \in DOMAIN running : Names(running'[i]) = Names(running[i])
  <2>1. CASE running' = running
    BY <1>1, <2>1
  <2>2. CASE Marked(running', position + 1)
    BY <1>1, <2>2, MarkGate
  <2> QED BY <1>4, <2>1, <2>2
<1>6. DOMAIN scheduled' = Queue /\ DOMAIN executionResults' = Queue
  BY <1>1, <1>2 DEF TypeOK, ComputeFreeGate, ScheduleOpening, ScheduleOperation, engineVars
<1>7. IsLevel(running)'
  BY <1>5 DEF IsLevel, IsSequence, IsGate, ElementsOf
<1>8. Len(running) \in Nat
  BY <1>1, SequenceOfItsElements DEF IsLevel, IsSequence
<1>9. /\ gatesByLevelOffset' = gatesByLevelOffset
      /\ firstUnexecutedLevel' = firstUnexecutedLevel
      /\ numUnexecutedGates' = numUnexecutedGates
      /\ call' = call /\ handles' = handles /\ ideal' = ideal
      /\ phase' = "compute" /\ position' \in 0..Len(running')
  BY <1>1, <1>5, <1>8 DEF ComputeGate, TypeOK, callerVars
<1> QED
  BY <1>1, <1>3, <1>5, <1>6, <1>7, <1>9, QuietStep DEF IInv, Idle, TypeOK, LevelsExist

(* The engine's execution keeps the invariant. *)
LEMMA ExecuteStep == ASSUME IInv, Execute PROVE IInv'
<1>1. TypeOK
  BY DEF IInv
<1>2. /\ wires' = wires /\ gatesByLevelOffset' = gatesByLevelOffset
      /\ firstUnexecutedLevel' = firstUnexecutedLevel
      /\ numUnexecutedGates' = numUnexecutedGates
      /\ running' = running /\ call' = call /\ handles' = handles /\ ideal' = ideal
      /\ phase' = "collect" /\ position' = 0
      /\ DOMAIN scheduled' = Queue /\ DOMAIN executionResults' = Queue
  BY DEF Execute, keeperVars, callerVars, NoOperations
<1>3. SameRecords
  BY <1>1, <1>2, SetValuesOnly
<1>4. IsLevel(running)' /\ 0 \in 0..Len(running)
  BY <1>1, <1>2, SequenceOfItsElements
  DEF TypeOK, IsLevel, IsSequence, IsGate, ElementsOf
<1> QED BY <1>1, <1>2, <1>3, <1>4, QuietStep DEF IInv, Idle, TypeOK, LevelsExist

(* Collecting a gate's result keeps the invariant. *)
LEMMA CollectGateStep == ASSUME IInv, CollectGate PROVE IInv'
<1>1. TypeOK
  BY DEF IInv
<1>2. /\ gatesByLevelOffset' = gatesByLevelOffset
      /\ firstUnexecutedLevel' = firstUnexecutedLevel
      /\ numUnexecutedGates' = numUnexecutedGates
      /\ running' = running /\ call' = call /\ handles' = handles /\ ideal' = ideal
      /\ phase' \in {"collect", "thrown"}
      /\ position < Len(running) /\ position' = position + 1
      /\ scheduled' = scheduled /\ executionResults' = executionResults
  BY DEF CollectGate, engineVars, callerVars
<1>3. SameRecords
  BY <1>1, SetValuesOnly DEF CollectGate
<1>4. IsLevel(running)' /\ Len(running) \in Nat
  BY <1>1, <1>2, SequenceOfItsElements
  DEF TypeOK, IsLevel, IsSequence, IsGate, ElementsOf
<1>5. position' \in 0..Len(running')
  BY <1>1, <1>2, <1>4 DEF TypeOK
<1> QED BY <1>1, <1>2, <1>3, <1>4, <1>5, QuietStep DEF IInv, Idle, TypeOK, LevelsExist

(* What giving references back does to the store. *)
LosesReferences(times) ==
  /\ DOMAIN wires' = {x \in DOMAIN wires : wires[x].referenceCount # times[x]}
  /\ \A w \in DOMAIN wires' :
       /\ DOMAIN wires'[w] = WireFields
       /\ wires'[w].allocator = wires[w].allocator
       /\ wires'[w].firstAvailableLevel = wires[w].firstAvailableLevel
       /\ wires'[w].referenceCount = wires[w].referenceCount - times[w]

(* decreaseReferenceCounts takes references away and frees the wires left  *)
(* without one.                                                            *)
LEMMA DecreasedStore ==
  ASSUME TypeOK, NEW times, wires' = decreaseReferenceCounts(wires, times)
  PROVE  LosesReferences(times)
<1>1. DOMAIN wires' = {x \in DOMAIN wires : wires[x].referenceCount # times[x]}
  BY DEF decreaseReferenceCounts
<1>2. \A w \in DOMAIN wires' :
        wires'[w] = [wires[w] EXCEPT !.referenceCount = @ - times[w]]
  BY DEF decreaseReferenceCounts
<1>3. \A w \in DOMAIN wires : DOMAIN wires[w] = WireFields
  BY DEF TypeOK, WireFields
<1> QED BY <1>1, <1>2, <1>3 DEF WireFields, LosesReferences

(* Destroying the gates of a level keeps the invariant: each gives back as *)
(* many references as it held.                                             *)
LEMMA DestroyGatesStep == ASSUME IInv, DestroyGates PROVE IInv'
<1>1. TypeOK
  BY DEF IInv
<1> PICK times : times = [w \in Wire |-> Cardinality(References(RunningPlaces, w))]
  OBVIOUS
<1>2. /\ wires' = decreaseReferenceCounts(wires, times)
      /\ gatesByLevelOffset' = gatesByLevelOffset
      /\ firstUnexecutedLevel' = firstUnexecutedLevel
      /\ numUnexecutedGates' = numUnexecutedGates
      /\ running' = <<>> /\ position' = 0 /\ phase' = "ready"
      /\ call' = call /\ handles' = handles
      /\ ideal' = [w \in DOMAIN wires' |-> ideal[w]]
      /\ scheduled' = scheduled /\ executionResults' = executionResults
  BY DEF DestroyGates
<1>3. /\ DOMAIN wires' = {x \in DOMAIN wires : wires[x].referenceCount # times[x]}
      /\ \A w \in DOMAIN wires' :
           /\ DOMAIN wires'[w] = WireFields
           /\ wires'[w].allocator = wires[w].allocator
           /\ wires'[w].firstAvailableLevel = wires[w].firstAvailableLevel
           /\ wires'[w].referenceCount = wires[w].referenceCount - times[w]
  <2>1. LosesReferences(times)
    BY <1>1, <1>2, DecreasedStore
  <2> QED BY <2>1 DEF LosesReferences
<1>4. PendingPlaces' = PendingPlaces /\ Places' = PendingPlaces
  <2>1. IsSequence(gatesByLevelOffset')
    BY <1>1, <1>2 DEF TypeOK
  <2>2. \A p : p \in PendingPlaces' <=> p \in PendingPlaces
    BY <1>1, <1>2, <2>1, PendingPlace, NextPendingPlace
  <2>3. \A p : p \notin RunningPlaces'
    BY <1>2, <2>1, NextPendingPlace, EmptySequence
  <2> QED BY <2>2, <2>3 DEF Places
<1>5. \A w : References(Places, w)' = References(PendingPlaces, w)
  <2> TAKE w
  <2>1. \A r : r \in References(Places, w)' <=>
          \E p \in Places' : \E j \in Indices(Names(GateAt(p))', w) : r = <<p, j>>
    BY DEF References
  <2>2. \A r : r \in References(PendingPlaces, w) <=>
          \E p \in PendingPlaces : \E j \in Indices(Names(GateAt(p)), w) : r = <<p, j>>
    BY ReferencePlace
  <2>3. \A p \in PendingPlaces : Names(GateAt(p))' = Names(GateAt(p))
    <3>1. IsSequence(gatesByLevelOffset')
      BY <1>1, <1>2 DEF TypeOK
    <3>2. \A p \in PendingPlaces : GateAt(p)' = GateAt(p)
      BY <1>1, <1>2, <3>1, PendingPlace, NextPendingPlace
    <3> QED BY <3>2 DEF Names
  <2>4. \A r : r \in References(Places, w)' <=> r \in References(PendingPlaces, w)
    BY <1>4, <2>1, <2>2, <2>3
  <2> QED BY <2>4
<1>6. \A w \in Wire :
        /\ IsFiniteSet(References(PendingPlaces, w))
        /\ Cardinality(References(PendingPlaces, w)) \in Nat /\ times[w] \in Nat
        /\ Cardinality(References(Places, w)) =
             times[w] + Cardinality(References(PendingPlaces, w))
  <2> TAKE w \in Wire
  <2> DEFINE A == References(Places, w)
             R == References(RunningPlaces, w)
             P == References(PendingPlaces, w)
  <2>1. A = R \cup P
    <3>1. \A r : r \in A <=> r \in R \/ r \in P
      BY ReferencePlace DEF Places
    <3> QED BY <3>1
  <2>2. R \cap P = {}
    <3>1. RunningPlaces \cap PendingPlaces = {}
      BY <1>1, PendingPlace
    <3>2. /\ \A r \in R : \E p \in RunningPlaces : \E j : r = <<p, j>>
          /\ \A r \in P : \E p \in PendingPlaces : \E j : r = <<p, j>>
      BY ReferencePlace
    <3> HIDE DEF R, P
    <3> QED BY <3>1, <3>2
  <2>3. IsFiniteSet(A)
    BY DEF IInv
  <2>4. times[w] = Cardinality(R)
    OBVIOUS
  <2> HIDE DEF A, R, P
  <2>5. IsFiniteSet(R) /\ IsFiniteSet(P)
    BY <2>1, <2>3, FS_Subset
  <2>6. Cardinality(A) = Cardinality(R) + Cardinality(P) - Cardinality(R \cap P)
    BY <2>1, <2>5, FS_Union
  <2>7. Cardinality(R) \in Nat /\ Cardinality(P) \in Nat /\ Cardinality(R \cap P) = 0
    BY <2>2, <2>5, FS_CardinalityType, FS_EmptySet
  <2> QED BY <2>4, <2>5, <2>6, <2>7 DEF A, P
<1>7. \A w \in Wire : IsFiniteSet(References(Places, w)') /\ ExactFor(w)'
  <2> TAKE w \in Wire
  <2> DEFINE c == Cardinality(References(Places, w))
             d == Cardinality(References(PendingPlaces, w))
  <2>1. IF w \in DOMAIN wires
        THEN wires[w].referenceCount = handles[w] + c /\ handles[w] + c > 0
        ELSE handles[w] + c = 0
    BY DEF IInv, RefCountExact
  <2>2. d \in Nat /\ times[w] \in Nat /\ c = times[w] + d /\ handles[w] \in Nat
    BY <1>1, <1>6 DEF TypeOK
  <2>3. w \in DOMAIN wires' <=> w \in DOMAIN wires /\ wires[w].referenceCount # times[w]
    BY <1>3
  <2>4. w \in DOMAIN wires' =>
          wires'[w].referenceCount = wires[w].referenceCount - times[w]
    BY <1>3
  <2>5. IsFiniteSet(References(Places, w)') /\ Cardinality(References(Places, w)') = d
    BY <1>5, <1>6
  <2> HIDE DEF c, d
  <2>6. IF w \in DOMAIN wires'
        THEN wires'[w].referenceCount = handles[w] + d /\ handles[w] + d > 0
        ELSE handles[w] + d = 0
    BY <2>1, <2>2, <2>3, <2>4
  <2> QED BY <1>2, <2>5, <2>6 DEF ExactFor
<1>8. TypeOK'
  <2>1. DOMAIN wires' \subseteq Wire /\ DOMAIN ideal' = DOMAIN wires'
    BY <1>1, <1>2, <1>3 DEF TypeOK
  <2>2. \A w \in DOMAIN wires' :
          /\ DOMAIN wires'[w] = WireFields
          /\ wires'[w].allocator \in Allocators
          /\ wires'[w].firstAvailableLevel \in Nat
          /\ wires'[w].referenceCount \in Nat
    <3> TAKE w \in DOMAIN wires'
    <3>1. w \in DOMAIN wires /\ w \in Wire
      BY <1>1, <1>3 DEF TypeOK
    <3>2. wires'[w].referenceCount \in Nat
      <4>1. wires[w].referenceCount =
              handles[w] + Cardinality(References(Places, w))
        BY <3>1 DEF IInv, RefCountExact
      <4>2. handles[w] \in Nat
        BY <1>1, <3>1 DEF TypeOK
      <4> DEFINE c == Cardinality(References(Places, w))
                 d == Cardinality(References(PendingPlaces, w))
      <4>3. wires'[w].referenceCount = wires[w].referenceCount - times[w]
        BY <1>3
      <4>4. d \in Nat /\ times[w] \in Nat /\ c = times[w] + d
        BY <1>6, <3>1
      <4>5. wires[w].referenceCount = handles[w] + c
        BY <4>1
      <4> HIDE DEF c, d
      <4> QED BY <4>2, <4>3, <4>4, <4>5
    <3> QED BY <1>1, <1>3, <3>1, <3>2 DEF TypeOK
  <2>3. IsLevel(running)' /\ position' \in 0..Len(running')
    BY <1>2, EmptySequence DEF IsLevel, IsSequence, ElementsOf
  <2>4. /\ IsSequence(gatesByLevelOffset)'
        /\ \A k \in DOMAIN gatesByLevelOffset' : IsLevel(gatesByLevelOffset[k])'
        /\ firstUnexecutedLevel' \in Nat /\ numUnexecutedGates' \in Nat
        /\ call'.kind \in {"idle", "limit", "force", "batchingUp"}
        /\ call'.level \in Nat /\ call'.ins \in Seq(Wire)
        /\ DOMAIN scheduled' = Queue /\ DOMAIN executionResults' = Queue
        /\ handles' \in [Wire -> Nat]
    <3>1. /\ IsSequence(gatesByLevelOffset)'
          /\ \A k \in DOMAIN gatesByLevelOffset' : IsLevel(gatesByLevelOffset[k])'
      <4>1. /\ IsSequence(gatesByLevelOffset')
            /\ \A k \in DOMAIN gatesByLevelOffset' : IsLevel(gatesByLevelOffset'[k])
        BY <1>1, <1>2 DEF TypeOK
      <4> QED BY <4>1 DEF IsSequence, IsLevel, IsGate, ElementsOf
    <3> QED BY <1>1, <1>2, <3>1 DEF TypeOK
  <2> QED BY <1>2, <2>1, <2>2, <2>3, <2>4 DEF TypeOK, WireFields
<1>9. LevelsExist'
  BY <1>2, <1>3 DEF IInv, LevelsExist
<1>10. GateCount' /\ IsFiniteSet(PendingPlaces')
  BY <1>2, <1>4 DEF IInv, GateCount
<1>11. /\ call'.kind = "idle" \/ \A w \in ElementsOf(call'.ins) : handles'[w] > 0
       /\ running' = <<>>
  BY <1>2 DEF IInv, Idle
<1> QED BY <1>7, <1>8, <1>9, <1>10, <1>11 DEF IInv, Idle, RefCountExact, ExactFor

(* The calls that change references, or only start a loop. *)
LEMMA IncreaseStep == ASSUME IInv, IncreaseReferenceCount PROVE IInv'
<1>1. TypeOK
  BY DEF IInv
<1> PICK w \in DOMAIN wires :
      /\ handles[w] \in 1..MaxReferences - 1
      /\ wires' = increaseReferenceCounts(wires, OnceFor(w))
      /\ handles' = [handles EXCEPT ![w] = @ + 1]
  BY DEF IncreaseReferenceCount
<1>2. /\ gatesByLevelOffset' = gatesByLevelOffset
      /\ firstUnexecutedLevel' = firstUnexecutedLevel
      /\ numUnexecutedGates' = numUnexecutedGates
      /\ running' = running /\ position' = position /\ phase' = phase
      /\ call' = call /\ ideal' = ideal
      /\ scheduled' = scheduled /\ executionResults' = executionResults
  BY DEF IncreaseReferenceCount, executionVars, engineVars
<1>3. /\ w \in Wire /\ DOMAIN wires \subseteq Wire
      /\ DOMAIN wires' = DOMAIN wires
      /\ \A x \in DOMAIN wires :
           /\ DOMAIN wires'[x] = WireFields
           /\ wires'[x].allocator = wires[x].allocator
           /\ wires'[x].firstAvailableLevel = wires[x].firstAvailableLevel
           /\ wires'[x].referenceCount =
                wires[x].referenceCount + (IF x = w THEN 1 ELSE 0)
  <2>1. DOMAIN wires' = DOMAIN wires /\ DOMAIN wires \subseteq Wire
    BY <1>1 DEF increaseReferenceCounts, TypeOK
  <2>2. \A x \in DOMAIN wires :
          wires'[x] = [wires[x] EXCEPT !.referenceCount = @ + OnceFor(w)[x]]
    BY DEF increaseReferenceCounts
  <2>3. \A x \in DOMAIN wires : OnceFor(w)[x] = IF x = w THEN 1 ELSE 0
    BY <2>1 DEF OnceFor
  <2>4. \A x \in DOMAIN wires : DOMAIN wires[x] = WireFields
    BY <1>1 DEF TypeOK, WireFields
  <2>5. \A x \in DOMAIN wires :
           /\ DOMAIN wires'[x] = WireFields
           /\ wires'[x].allocator = wires[x].allocator
           /\ wires'[x].firstAvailableLevel = wires[x].firstAvailableLevel
           /\ wires'[x].referenceCount = wires[x].referenceCount + OnceFor(w)[x]
    BY <2>2, <2>4 DEF WireFields
  <2> QED BY <2>1, <2>3, <2>5
<1>4. \A x \in Wire :
        /\ handles'[x] = handles[x] + (IF x = w THEN 1 ELSE 0)
        /\ handles[x] \in Nat
  BY <1>1, <1>3 DEF TypeOK
<1>5. /\ IsSequence(gatesByLevelOffset')
      /\ \A k \in DOMAIN gatesByLevelOffset' : IsLevel(gatesByLevelOffset'[k])
      /\ IsLevel(running')
  BY <1>1, <1>2 DEF TypeOK
<1>6. TypeOK'
  <2>1. \A x \in DOMAIN wires' :
          /\ DOMAIN wires'[x] = WireFields
          /\ wires'[x].allocator \in Allocators
          /\ wires'[x].firstAvailableLevel \in Nat
          /\ wires'[x].referenceCount \in Nat
    <3> TAKE x \in DOMAIN wires'
    <3>1. /\ wires[x].allocator \in Allocators
          /\ wires[x].firstAvailableLevel \in Nat
          /\ wires[x].referenceCount \in Nat
      BY <1>1, <1>3 DEF TypeOK
    <3>2. (IF x = w THEN 1 ELSE 0) \in Nat
      OBVIOUS
    <3> QED BY <1>3, <3>1, <3>2
  <2>2. handles' \in [Wire -> Nat]
    BY <1>1, <1>3 DEF TypeOK
  <2>3. /\ IsSequence(gatesByLevelOffset)'
        /\ \A k \in DOMAIN gatesByLevelOffset' : IsLevel(gatesByLevelOffset[k])'
        /\ IsLevel(running)'
    BY <1>5 DEF IsSequence, IsLevel, IsGate, ElementsOf
  <2> QED BY <1>1, <1>2, <1>3, <2>1, <2>2, <2>3 DEF TypeOK, WireFields
<1>7. /\ Places' = Places /\ PendingPlaces' = PendingPlaces
      /\ \A x : References(Places, x)' = References(Places, x)
  BY <1>1, <1>2, <1>5, Unmoved
<1>8. \A x \in Wire : IsFiniteSet(References(Places, x)') /\ ExactFor(x)'
  <2> TAKE x \in Wire
  <2> DEFINE c == Cardinality(References(Places, x))
  <2>1. IsFiniteSet(References(Places, x)) /\ c \in Nat
    BY FS_CardinalityType DEF IInv
  <2>2. IF x \in DOMAIN wires
        THEN wires[x].referenceCount = handles[x] + c /\ handles[x] + c > 0
        ELSE handles[x] + c = 0
    BY DEF IInv, RefCountExact
  <2>3. References(Places, x)' = References(Places, x)
    BY <1>7
  <2> HIDE DEF c
  <2>4. IF x \in DOMAIN wires'
        THEN wires'[x].referenceCount = handles'[x] + c /\ handles'[x] + c > 0
        ELSE handles'[x] + c = 0
    <3>1. CASE x = w
      <4>1. /\ wires'[x].referenceCount = wires[x].referenceCount + 1
            /\ handles'[x] = handles[x] + 1 /\ handles[x] \in Nat
        BY <1>3, <1>4, <3>1
      <4> QED BY <1>3, <2>1, <2>2, <3>1, <4>1
    <3>2. CASE x # w
      <4>1. /\ x \in DOMAIN wires =>
                 wires'[x].referenceCount = wires[x].referenceCount + 0
            /\ handles'[x] = handles[x] + 0 /\ handles[x] \in Nat
        BY <1>3, <1>4, <3>2
      <4> QED BY <1>3, <2>1, <2>2, <4>1
    <3> QED BY <3>1, <3>2
  <2> QED BY <2>1, <2>3, <2>4 DEF ExactFor, c
<1>9. LevelsExist'
  BY <1>2, <1>3 DEF IInv, LevelsExist
<1>10. GateCount' /\ IsFiniteSet(PendingPlaces')
  BY <1>2, <1>7 DEF IInv, GateCount
<1>11. /\ call'.kind = "idle" \/ \A x \in ElementsOf(call'.ins) : handles'[x] > 0
       /\ phase' = "ready" => running' = <<>>
  <2>1. Idle \/ \A x \in ElementsOf(call.ins) : x \in Wire /\ handles[x] > 0
    BY <1>1 DEF IInv, TypeOK, ElementsOf
  <2> QED BY <1>2, <1>4, <2>1 DEF IInv, Idle
<1> QED BY <1>6, <1>8, <1>9, <1>10, <1>11 DEF IInv, Idle, RefCountExact, ExactFor

(* The caller giving a reference back keeps the invariant. *)
LEMMA DecreaseStep == ASSUME IInv, DecreaseReferenceCount PROVE IInv'
<1>1. TypeOK
  BY DEF IInv
<1> PICK w \in DOMAIN wires :
      /\ handles[w] > 0
      /\ wires' = decreaseReferenceCounts(wires, OnceFor(w))
      /\ handles' = [handles EXCEPT ![w] = @ - 1]
  BY DEF DecreaseReferenceCount
<1>2. /\ gatesByLevelOffset' = gatesByLevelOffset
      /\ firstUnexecutedLevel' = firstUnexecutedLevel
      /\ numUnexecutedGates' = numUnexecutedGates
      /\ running' = running /\ position' = position /\ phase' = phase
      /\ call' = call /\ call.kind = "idle"
      /\ ideal' = [x \in DOMAIN wires' |-> ideal[x]]
      /\ scheduled' = scheduled /\ executionResults' = executionResults
  BY DEF DecreaseReferenceCount, executionVars, engineVars, Idle
<1>3. LosesReferences(OnceFor(w))
  BY <1>1, DecreasedStore
<1>4. /\ w \in Wire /\ DOMAIN wires \subseteq Wire
      /\ \A x \in Wire : OnceFor(w)[x] = IF x = w THEN 1 ELSE 0
  BY <1>1 DEF OnceFor, TypeOK
<1>5. \A x \in DOMAIN wires' :
        /\ x \in DOMAIN wires
        /\ DOMAIN wires'[x] = WireFields
        /\ wires'[x].allocator = wires[x].allocator
        /\ wires'[x].firstAvailableLevel = wires[x].firstAvailableLevel
        /\ wires'[x].referenceCount =
             wires[x].referenceCount - (IF x = w THEN 1 ELSE 0)
  BY <1>3, <1>4 DEF LosesReferences
<1>6. \A x \in DOMAIN wires :
        x \in DOMAIN wires' <=> wires[x].referenceCount # (IF x = w THEN 1 ELSE 0)
  BY <1>3, <1>4 DEF LosesReferences
<1>7. \A x \in Wire :
        /\ handles'[x] = handles[x] - (IF x = w THEN 1 ELSE 0)
        /\ handles[x] \in Nat
  BY <1>1, <1>4 DEF TypeOK
<1>8. /\ IsSequence(gatesByLevelOffset')
      /\ \A k \in DOMAIN gatesByLevelOffset' : IsLevel(gatesByLevelOffset'[k])
      /\ IsLevel(running')
  BY <1>1, <1>2 DEF TypeOK
<1>9. /\ Places' = Places /\ PendingPlaces' = PendingPlaces
      /\ \A x : References(Places, x)' = References(Places, x)
  BY <1>1, <1>2, <1>8, Unmoved
<1>10. \A x \in Wire : /\ IsFiniteSet(References(Places, x)') /\ ExactFor(x)'
                       /\ handles'[x] \in Nat
                       /\ x \in DOMAIN wires' => wires'[x].referenceCount \in Nat
  <2> TAKE x \in Wire
  <2> DEFINE c == Cardinality(References(Places, x))
  <2>1. IsFiniteSet(References(Places, x)) /\ c \in Nat /\ handles[x] \in Nat
    BY <1>7, FS_CardinalityType DEF IInv
  <2>2. IF x \in DOMAIN wires
        THEN wires[x].referenceCount = handles[x] + c /\ handles[x] + c > 0
        ELSE handles[x] + c = 0
    BY DEF IInv, RefCountExact
  <2>3. References(Places, x)' = References(Places, x)
    BY <1>9
  <2> HIDE DEF c
  <2>4. /\ IF x \in DOMAIN wires'
           THEN wires'[x].referenceCount = handles'[x] + c /\ handles'[x] + c > 0
           ELSE handles'[x] + c = 0
        /\ handles'[x] \in Nat
    <3>1. CASE x = w
      <4>1. /\ x \in DOMAIN wires /\ handles[x] > 0
            /\ x \in DOMAIN wires' => 
                 wires'[x].referenceCount = wires[x].referenceCount - 1
            /\ x \in DOMAIN wires' <=> wires[x].referenceCount # 1
            /\ handles'[x] = handles[x] - 1
        BY <1>5, <1>6, <1>7, <3>1
      <4> QED BY <2>1, <2>2, <4>1
    <3>2. CASE x # w
      <4>1. /\ x \in DOMAIN wires' => 
                 wires'[x].referenceCount = wires[x].referenceCount - 0
            /\ x \in DOMAIN wires =>
                 (x \in DOMAIN wires' <=> wires[x].referenceCount # 0)
            /\ x \in DOMAIN wires' => x \in DOMAIN wires
            /\ handles'[x] = handles[x] - 0
        BY <1>5, <1>6, <1>7, <3>2
      <4> QED BY <2>1, <2>2, <4>1
    <3> QED BY <3>1, <3>2
  <2>5. x \in DOMAIN wires' => wires'[x].referenceCount \in Nat
    BY <2>1, <2>4
  <2> QED BY <2>1, <2>3, <2>4, <2>5 DEF ExactFor, c
<1>11. TypeOK'
  <2>1. /\ DOMAIN wires' \subseteq Wire /\ DOMAIN ideal' = DOMAIN wires'
        /\ \A x \in DOMAIN wires' :
             /\ DOMAIN wires'[x] = WireFields
             /\ wires'[x].allocator \in Allocators
             /\ wires'[x].firstAvailableLevel \in Nat
             /\ wires'[x].referenceCount \in Nat
    BY <1>1, <1>2, <1>4, <1>5, <1>10 DEF TypeOK
  <2>2. handles' \in [Wire -> Nat]
    BY <1>1, <1>10 DEF TypeOK
  <2>3. /\ IsSequence(gatesByLevelOffset)'
        /\ \A k \in DOMAIN gatesByLevelOffset' : IsLevel(gatesByLevelOffset[k])'
        /\ IsLevel(running)'
    BY <1>8 DEF IsSequence, IsLevel, IsGate, ElementsOf
  <2> QED BY <1>1, <1>2, <2>1, <2>2, <2>3 DEF TypeOK, WireFields
<1>12. LevelsExist'
  BY <1>2, <1>5 DEF IInv, LevelsExist
<1>13. GateCount' /\ IsFiniteSet(PendingPlaces')
  BY <1>2, <1>9 DEF IInv, GateCount
<1> QED BY <1>2, <1>10, <1>11, <1>12, <1>13 DEF IInv, Idle, RefCountExact, ExactFor

(* Asking for a value keeps the invariant: the level of the wire exists. *)
LEMMA ForceStep == ASSUME IInv, NEW a \in Allocators, forceWire(a) PROVE IInv'
<1>1. TypeOK /\ LevelsExist
  BY DEF IInv
<1> PICK w \in Held(a) : Becomes("force", getMaxLevel(<<w>>), <<w>>)
  BY DEF forceWire
<1>2. w \in DOMAIN wires /\ handles[w] > 0 /\ <<w>> \in Seq(Wire)
  BY <1>1 DEF Held, TypeOK
<1>3. /\ getMaxLevel(<<w>>) \in Nat
      /\ getMaxLevel(<<w>>) < firstUnexecutedLevel + Len(gatesByLevelOffset)
  <2>1. <<w>> \in Seq(DOMAIN wires) /\ <<w>> # <<>>
    BY <1>2
  <2> PICK ids : ids = <<w>>
    OBVIOUS
  <2>2. getMaxLevel(ids) \in Nat
    BY <1>1, <2>1, MaxLevelType
  <2>3. getMaxLevel(ids) < firstUnexecutedLevel + Len(gatesByLevelOffset)
    BY <1>1, <2>1, MaxLevelType
  <2> QED BY <2>2, <2>3
<1>4. /\ wires' = wires /\ gatesByLevelOffset' = gatesByLevelOffset
      /\ firstUnexecutedLevel' = firstUnexecutedLevel
      /\ numUnexecutedGates' = numUnexecutedGates
      /\ running' = running /\ position' = position /\ phase' = phase
      /\ scheduled' = scheduled /\ executionResults' = executionResults
      /\ handles' = handles /\ ideal' = ideal
      /\ call' = [kind |-> "force", level |-> getMaxLevel(<<w>>), ins |-> <<w>>]
  BY DEF forceWire, Becomes, keeperVars, executionVars, engineVars, callerVars
<1>5. SameRecords
  BY <1>1, <1>4, SetValuesOnly
<1>6. IsLevel(running)'
  BY <1>1, <1>4 DEF TypeOK, IsLevel, IsSequence, IsGate, ElementsOf
<1>7. \A x \in ElementsOf(call'.ins) : handles[x] > 0
  BY <1>2, <1>4 DEF ElementsOf
<1> QED
  BY <1>1, <1>2, <1>3, <1>4, <1>5, <1>6, <1>7, QuietStep DEF IInv, TypeOK

(* The first part of batchingUp keeps the invariant. *)
LEMMA BatchingUpStep == ASSUME IInv, BatchingUp PROVE IInv'
<1>1. TypeOK /\ LevelsExist
  BY DEF IInv
<1> PICK n \in 1..MaxRights : \E src \in [1..n -> Held("boolBatch")] :
                                Becomes("batchingUp", 0, src)
  BY DEF BatchingUp
<1> PICK src \in [1..n -> Held("boolBatch")] : Becomes("batchingUp", 0, src)
  OBVIOUS
<1>2. src \in Seq(Wire) /\ \A x \in ElementsOf(src) : handles[x] > 0
  <2>1. n \in Nat
    BY LazySchedulerAssumption
  <2>2. \A i \in 1..n : src[i] \in Wire /\ handles[src[i]] > 0
    BY <1>1 DEF Held, TypeOK
  <2> QED BY <2>1, <2>2 DEF ElementsOf
<1>3. /\ wires' = wires /\ gatesByLevelOffset' = gatesByLevelOffset
      /\ firstUnexecutedLevel' = firstUnexecutedLevel
      /\ numUnexecutedGates' = numUnexecutedGates
      /\ running' = running /\ position' = position /\ phase' = phase
      /\ scheduled' = scheduled /\ executionResults' = executionResults
      /\ handles' = handles /\ ideal' = ideal
      /\ call' = [kind |-> "batchingUp", level |-> 0, ins |-> src]
  BY DEF BatchingUp, Becomes, keeperVars, executionVars, engineVars, callerVars
<1>4. SameRecords
  BY <1>1, <1>3, SetValuesOnly
<1>5. IsLevel(running)'
  BY <1>1, <1>3 DEF TypeOK, IsLevel, IsSequence, IsGate, ElementsOf
<1>6. \A x \in ElementsOf(call'.ins) : handles[x] > 0
  BY <1>2, <1>3
<1> QED
  BY <1>1, <1>2, <1>3, <1>4, <1>5, <1>6, QuietStep DEF IInv, TypeOK

(* The calls that create a gate. *)
LEMMA InputStep == ASSUME IInv, NEW a \in Allocators, Input(a) PROVE IInv'
<1> PICK v \in Inputs[a], out \in Wire : inputGate(a, v, out) /\ Creates(<<out>>, <<v>>)
  BY DEF Input
<1> DEFINE level == getOutputLevel(isFree("Input"), firstUnexecutedLevel)
<1>1. newGate(Gate("Input", a, <<>>, <<out>>, myId, <<>>), level, <<v>>, <<Len(v)>>)
  BY DEF inputGate
<1>2. level \in Nat /\ firstUnexecutedLevel <= level
  <2>1. TypeOK /\ firstUnexecutedLevel \in Nat
    BY DEF IInv, TypeOK
  <2>2. isFree("Input") \in BOOLEAN
    BY DEF isFree
  <2> QED BY <2>1, <2>2, OutputLevelType
<1>3. /\ "Input" \in GateTypes /\ <<>> \in Seq(DOMAIN wires) /\ myId \in Party
      /\ Len(<<v>>) = 1 /\ DOMAIN <<v>> = 1..1
  BY GatesAssumption DEF GateTypes, FreeTypes
<1>4. /\ Receives(<<out>>, <<v>>) /\ Becomes("limit", 0, <<>>)
      /\ UNCHANGED <<executionVars, engineVars>>
  BY DEF Creates
<1> HIDE DEF level
<1> QED BY <1>1, <1>2, <1>3, <1>4, Creation

(* The level of a gate whose operands the caller holds. *)
LEMMA LevelOfOperands ==
  ASSUME IInv, NEW type \in GateTypes, NEW ids \in Seq(DOMAIN wires)
  PROVE  /\ getOutputLevel(isFree(type), getMaxLevel(ids)) \in Nat
         /\ firstUnexecutedLevel <= getOutputLevel(isFree(type), getMaxLevel(ids))
<1>1. TypeOK /\ LevelsExist /\ isFree(type) \in BOOLEAN
  BY DEF IInv, isFree
<1>2. getMaxLevel(ids) \in Nat
  BY <1>1, MaxLevelType
<1> QED BY <1>1, <1>2, OutputLevelType

(* Opening a wire keeps the invariant. *)
LEMMA OpenStep == ASSUME IInv, NEW a \in Allocators, Open(a) PROVE IInv'
<1> PICK w \in Held(a), party \in Party, out \in Wire :
      /\ outputGate(a, w, party, out)
      /\ Creates(<<out>>, <<RevealedTo(party, ideal[w])>>)
  BY DEF Open
<1> PICK ids : ids = <<w>>
  OBVIOUS
<1> PICK outs : outs = <<out>>
  OBVIOUS
<1> PICK ideals : ideals = <<RevealedTo(party, ideal[w])>>
  OBVIOUS
<1> PICK sizes : sizes = <<getBatchSize(w)>>
  OBVIOUS
<1> PICK strategy : strategy = <<>>
  OBVIOUS
<1> PICK values : values = <<Placeholder(a)>>
  OBVIOUS
<1> PICK level : level = getOutputLevel(isFree("Output"), getMaxLevel(ids))
  OBVIOUS
<1>1. newGate(Gate("Output", a, ids, outs, party, strategy), level, values, sizes)
  BY DEF outputGate
<1>2. "Output" \in GateTypes /\ ids \in Seq(DOMAIN wires)
  BY DEF GateTypes, NonFreeTypes, Held
<1>3. level \in Nat /\ firstUnexecutedLevel <= level
  BY <1>2, LevelOfOperands
<1>4. Len(values) = 1 /\ DOMAIN values = 1..1
  OBVIOUS
<1>5. /\ Receives(outs, ideals)
      /\ Becomes("limit", 0, <<>>) /\ UNCHANGED <<executionVars, engineVars>>
  BY DEF Creates
<1> QED BY <1>1, <1>2, <1>3, <1>4, <1>5, Creation

(* Gates of one or two operands. *)
LEMMA NormalGateStep ==
  ASSUME IInv, NEW type \in GateTypes, NEW a \in Allocators,
         NEW ids \in Seq(DOMAIN wires), NEW out, NEW ideals,
         normalGate(type, a, ids, out), Creates(<<out>>, ideals)
  PROVE  IInv'
<1> DEFINE level == getOutputLevel(isFree(type), getMaxLevel(ids))
           values == <<Placeholder(a)>>
<1>1. newGate(Gate(type, a, ids, <<out>>, myId, <<>>), level, values,
              <<getBatchSize(ids[1])>>)
  BY DEF normalGate
<1>2. level \in Nat /\ firstUnexecutedLevel <= level
  BY LevelOfOperands
<1>3. Len(values) = 1 /\ DOMAIN values = 1..1 /\ myId \in Party
  BY GatesAssumption
<1>4. /\ Receives(<<out>>, ideals)
      /\ Becomes("limit", 0, <<>>) /\ UNCHANGED <<executionVars, engineVars>>
  BY DEF Creates
<1> HIDE DEF level, values
<1> QED BY <1>1, <1>2, <1>3, <1>4, Creation

(* The AND, the XOR and the NOT, and their arithmetic siblings, keep the   *)
(* invariant.                                                              *)
LEMMA LocalStep ==
  ASSUME IInv, NEW a \in Allocators, And(a) \/ Xor(a) \/ Not(a)
  PROVE  IInv'
<1>1. \A w, x \in Held(a) : <<w, x>> \in Seq(DOMAIN wires) /\ <<w>> \in Seq(DOMAIN wires)
  BY DEF Held
<1>2. {"FreeAnd", "NonFreeAnd", "Xor", "Not"} \subseteq GateTypes
  BY DEF GateTypes, FreeTypes, NonFreeTypes
<1>3. CASE And(a)
  <2> PICK type \in {"FreeAnd", "NonFreeAnd"}, w \in Held(a), x \in Held(a), out \in Wire :
        /\ normalGate(type, a, <<w, x>>, out)
        /\ Creates(<<out>>, Products(a, IdealOf(<<w, x>>)))
    BY <1>3 DEF And
  <2> PICK ids : ids = <<w, x>>
    OBVIOUS
  <2>1. normalGate(type, a, ids, out) /\ Creates(<<out>>, Products(a, IdealOf(ids)))
    OBVIOUS
  <2> QED BY <1>1, <1>2, <2>1, NormalGateStep
<1>4. CASE Xor(a)
  <2> PICK w \in Held(a), x \in Held(a), out \in Wire :
        /\ normalGate("Xor", a, <<w, x>>, out)
        /\ Creates(<<out>>, <<XorOf(a, ideal[w], ideal[x])>>)
    BY <1>4 DEF Xor
  <2> PICK ids : ids = <<w, x>>
    OBVIOUS
  <2> QED BY <1>1, <1>2, NormalGateStep
<1>5. CASE Not(a)
  <2> PICK w \in Held(a), out \in Wire :
        /\ normalGate("Not", a, <<w>>, out)
        /\ Creates(<<out>>, <<NotOf(a, ideal[w])>>)
    BY <1>5 DEF Not
  <2> PICK ids : ids = <<w>>
    OBVIOUS
  <2> QED BY <1>1, <1>2, NormalGateStep
<1> QED BY <1>3, <1>4, <1>5

(* A composite AND keeps the invariant. *)
LEMMA CompositeAndStep ==
  ASSUME IInv, NEW a \in Allocators, CompositeAnd(a) PROVE IInv'
<1> PICK type \in {"FreeComposite", "NonFreeComposite"}, w \in Held(a),
         n \in 1..MaxRights :
      \E rights \in [1..n -> Held(a)], outs \in FreshWires(wires, n) :
        /\ compositeGate(type, a, w, rights, outs)
        /\ Creates(outs, Products(a, IdealOf(<<w>> \o rights)))
  BY DEF CompositeAnd
<1> PICK rights \in [1..n -> Held(a)], outs \in FreshWires(wires, n) :
        /\ compositeGate(type, a, w, rights, outs)
        /\ Creates(outs, Products(a, IdealOf(<<w>> \o rights)))
  OBVIOUS
<1> PICK ids : ids = <<w>> \o rights
  OBVIOUS
<1> DEFINE level == getOutputLevel(isFree(type), getMaxLevel(ids))
           values == [i \in DOMAIN rights |-> Placeholder(a)]
           sizes == [i \in DOMAIN rights |-> getBatchSize(w)]
<1>1. newGate(Gate(type, a, ids, outs, myId, <<>>), level, values, sizes)
  BY DEF compositeGate
<1>2. n \in Nat /\ rights \in Seq(Held(a))
  BY LazySchedulerAssumption
<1>3. ids \in Seq(DOMAIN wires)
  BY <1>2 DEF Held
<1>4. type \in GateTypes /\ myId \in Party
  BY GatesAssumption DEF GateTypes, FreeTypes, NonFreeTypes
<1>5. level \in Nat /\ firstUnexecutedLevel <= level
  BY <1>3, <1>4, LevelOfOperands
<1>6. Len(values) = n /\ DOMAIN values = 1..n
  BY <1>2
<1>7. /\ Receives(outs, Products(a, IdealOf(ids)))
      /\ Becomes("limit", 0, <<>>) /\ UNCHANGED <<executionVars, engineVars>>
  BY DEF Creates
<1> HIDE DEF level, values, sizes
<1> QED BY <1>1, <1>2, <1>3, <1>4, <1>5, <1>6, <1>7, Creation

(* An unbatching keeps the invariant. *)
LEMMA UnbatchingStep == ASSUME IInv, Unbatching PROVE IInv'
<1> PICK w \in Held("boolBatch"), strategy \in Strategies :
      \E outs \in FreshWires(wires, Len(strategy)) :
        unbatching(w, strategy, outs) /\ Creates(outs, Pieces(ideal[w], strategy))
  BY DEF Unbatching
<1> PICK outs \in FreshWires(wires, Len(strategy)) :
        unbatching(w, strategy, outs) /\ Creates(outs, Pieces(ideal[w], strategy))
  OBVIOUS
<1> PICK ids : ids = <<w>>
  OBVIOUS
<1> DEFINE level == getOutputLevel(TRUE, getMaxLevel(ids))
           values == [i \in DOMAIN strategy |-> Placeholder("boolBatch")]
<1>1. newGate(Gate("Unbatching", "boolBatch", ids, outs, myId, strategy), level,
              values, strategy)
  BY DEF unbatching
<1>2. /\ "Unbatching" \in GateTypes /\ ids \in Seq(DOMAIN wires) /\ myId \in Party
      /\ isFree("Unbatching") = TRUE /\ "boolBatch" \in Allocators
  BY GatesAssumption DEF GateTypes, FreeTypes, Held, isFree, Allocators
<1>3. level \in Nat /\ firstUnexecutedLevel <= level
  BY <1>2, LevelOfOperands
<1>4. Len(strategy) \in Nat /\ DOMAIN strategy = 1..Len(strategy)
  BY LazySchedulerAssumption
<1>5. Len(values) = Len(strategy) /\ DOMAIN values = 1..Len(strategy)
  BY <1>4
<1>6. /\ Receives(outs, Pieces(ideal[w], strategy))
      /\ Becomes("limit", 0, <<>>) /\ UNCHANGED <<executionVars, engineVars>>
  BY DEF Creates
<1> HIDE DEF level, values
<1> QED BY <1>1, <1>2, <1>3, <1>4, <1>5, <1>6, Creation

-----------------------------------------------------------------------------
(* The end of a call, the initial state, and steps that change nothing.    *)

(* A call that returns without a new gate leaves everything but the call   *)
(* and what it returned.                                                   *)
LEMMA ReturnQuietly ==
  ASSUME IInv, UNCHANGED keeperVars, UNCHANGED <<executionVars, engineVars>>,
         UNCHANGED callerVars, Becomes("idle", 0, <<>>)
  PROVE  IInv'
<1>1. TypeOK
  BY DEF IInv
<1>2. /\ wires' = wires /\ gatesByLevelOffset' = gatesByLevelOffset
      /\ firstUnexecutedLevel' = firstUnexecutedLevel
      /\ numUnexecutedGates' = numUnexecutedGates
      /\ running' = running /\ position' = position /\ phase' = phase
      /\ scheduled' = scheduled /\ executionResults' = executionResults
      /\ handles' = handles /\ ideal' = ideal
  BY DEF keeperVars, executionVars, engineVars, callerVars
<1>3. call'.kind = "idle" /\ call'.level = 0 /\ call'.ins = <<>>
  BY DEF Becomes
<1>4. SameRecords
  BY <1>1, <1>2, SetValuesOnly
<1>5. IsLevel(running)'
  BY <1>1, <1>2 DEF TypeOK, IsLevel, IsSequence, IsGate, ElementsOf
<1>6. call'.ins \in Seq(Wire)
  BY <1>3
<1> QED BY <1>1, <1>2, <1>3, <1>4, <1>5, <1>6, QuietStep DEF IInv, TypeOK

(* The end of a call keeps the invariant; that of batchingUp creates a     *)
(* gate.                                                                   *)
LEMMA ReturnStep == ASSUME IInv, Return PROVE IInv'
<1>1. /\ ~Idle /\ Becomes("idle", 0, <<>>) /\ UNCHANGED <<executionVars, engineVars>>
  BY DEF Return
<1>2. CASE UNCHANGED keeperVars /\ UNCHANGED callerVars
  BY <1>1, <1>2, ReturnQuietly
<1>3. CASE \E out \in Wire :
             /\ batchingUp(call.ins, out)
             /\ Receives(<<out>>, <<Concatenation(IdealOf(call.ins))>>)
  <2> PICK out \in Wire : /\ batchingUp(call.ins, out)
                          /\ Receives(<<out>>, <<Concatenation(IdealOf(call.ins))>>)
    BY <1>3
  <2> PICK ids : ids = call.ins
    OBVIOUS
  <2> PICK outs : outs = <<out>>
    OBVIOUS
  <2> PICK ideals : ideals = <<Concatenation(IdealOf(ids))>>
    OBVIOUS
  <2> PICK sizes : sizes = <<Total([i \in DOMAIN ids |-> Len(wires[ids[i]].v)])>>
    OBVIOUS
  <2> PICK strategy : strategy = <<>>
    OBVIOUS
  <2> PICK values : values = <<Placeholder("boolBatch")>>
    OBVIOUS
  <2> PICK level : level = getOutputLevel(TRUE, getMaxLevel(ids))
    OBVIOUS
  <2>1. newGate(Gate("Batching", "boolBatch", ids, outs, myId, strategy), level,
                values, sizes)
    BY DEF batchingUp
  <2>2. ids \in Seq(DOMAIN wires)
    <3>1. ids \in Seq(Wire) /\ \A w \in ElementsOf(ids) : handles[w] > 0
      BY <1>1 DEF IInv, TypeOK
    <3>2. \A i \in DOMAIN ids : ids[i] \in DOMAIN wires
      BY <3>1, HeldIsStored DEF ElementsOf
    <3>3. /\ Len(ids) \in Nat /\ DOMAIN ids = 1..Len(ids)
          /\ ids \in [1..Len(ids) -> Wire]
      BY <3>1
    <3>4. PICK n \in Nat : ids \in [1..n -> DOMAIN wires]
      BY <3>2, <3>3
    <3> QED BY <3>4
  <2>3. /\ "Batching" \in GateTypes /\ myId \in Party /\ "boolBatch" \in Allocators
        /\ isFree("Batching") = TRUE
    BY GatesAssumption DEF GateTypes, FreeTypes, Allocators, isFree
  <2>4. level \in Nat /\ firstUnexecutedLevel <= level
    BY <2>2, <2>3, LevelOfOperands
  <2>5. Len(values) = 1 /\ DOMAIN values = 1..1
    OBVIOUS
  <2>6. Receives(outs, ideals)
    OBVIOUS
  <2> QED BY <1>1, <2>1, <2>2, <2>3, <2>4, <2>5, <2>6, Creation
<1> QED BY <1>2, <1>3 DEF Return

(* The invariant holds of a new scheduler. *)
LEMMA InitStep == ASSUME Init PROVE IInv
<1>1. DOMAIN wires = {} /\ wires = << >> /\ ideal = << >> /\ DOMAIN ideal = {}
  BY EmptySequence DEF Init, GateKeeperInit
<1>2. /\ gatesByLevelOffset = <<>> /\ firstUnexecutedLevel = 0
      /\ numUnexecutedGates = 0
      /\ call.kind = "idle" /\ call.level = 0 /\ call.ins = <<>>
      /\ phase = "ready" /\ running = <<>> /\ position = 0
      /\ scheduled = NoOperations /\ executionResults = NoOperations
      /\ handles = [w \in Wire |-> 0]
  BY DEF Init, GateKeeperInit
<1>3. IsLevel(running)
  BY <1>2, EmptySequence DEF IsLevel
<1>4. DOMAIN NoOperations = Queue
  BY DEF NoOperations
<1>5. TypeOK
  <2>1. position \in 0..Len(running)
    BY <1>2, EmptySequence
  <2>2. /\ IsSequence(gatesByLevelOffset)
        /\ \A k \in DOMAIN gatesByLevelOffset : IsLevel(gatesByLevelOffset[k])
    BY <1>2, EmptySequence
  <2>3. call.ins \in Seq(Wire) /\ handles \in [Wire -> Nat]
    BY <1>2
  <2> QED BY <1>1, <1>2, <1>3, <1>4, <2>1, <2>2, <2>3 DEF TypeOK
<1>6. LevelsExist
  BY <1>1, <1>2 DEF LevelsExist
<1>7. \A p : p \notin Places /\ p \notin PendingPlaces
  BY <1>2, EmptySequence DEF Places, PendingPlaces, RunningPlaces, LevelPlaces, Level
<1>8. PendingPlaces = {} /\ \A w \in Wire : References(Places, w) = {}
  <2>1. PendingPlaces = {} /\ Places = {}
    BY <1>7
  <2> QED BY <2>1 DEF References
<1>9. \A w \in Wire : handles[w] + Cardinality(References(Places, w)) = 0
  <2> SUFFICES ASSUME NEW w \in Wire
               PROVE  handles[w] + Cardinality(References(Places, w)) = 0
    OBVIOUS
  <2>1. Cardinality(References(Places, w)) = 0
    BY <1>8, FS_EmptySet
  <2>2. handles[w] = 0
    BY <1>2
  <2> QED BY <2>1, <2>2
<1>10. GateCount /\ IsFiniteSet(PendingPlaces)
  BY <1>2, <1>8, FS_EmptySet DEF GateCount
<1>11. RefCountExact
  BY <1>1, <1>9 DEF RefCountExact
<1>12. \A w \in Wire : IsFiniteSet(References(Places, w))
  BY <1>8, FS_EmptySet
<1> QED BY <1>2, <1>5, <1>6, <1>10, <1>11, <1>12 DEF IInv, Idle

(* A step that changes nothing keeps the invariant. *)
LEMMA StutterStep == ASSUME IInv, UNCHANGED vars PROVE IInv'
<1>1. TypeOK
  BY DEF IInv
<1>2. /\ wires' = wires /\ gatesByLevelOffset' = gatesByLevelOffset
      /\ firstUnexecutedLevel' = firstUnexecutedLevel
      /\ numUnexecutedGates' = numUnexecutedGates
      /\ running' = running /\ position' = position /\ phase' = phase
      /\ scheduled' = scheduled /\ executionResults' = executionResults
      /\ handles' = handles /\ ideal' = ideal /\ call' = call
  BY DEF vars, keeperVars, executionVars, engineVars, callerVars
<1>3. SameRecords
  BY <1>1, <1>2, SetValuesOnly
<1>4. IsLevel(running)'
  BY <1>1, <1>2 DEF TypeOK, IsLevel, IsSequence, IsGate, ElementsOf
<1> QED BY <1>1, <1>2, <1>3, <1>4, QuietStep DEF IInv, TypeOK, LevelsExist, Idle

(* Every step keeps the invariant. *)
LEMMA NextStep == ASSUME IInv, [Next]_vars PROVE IInv'
<1>1. ASSUME NEW a \in Allocators, Input(a) PROVE IInv'
  BY <1>1, InputStep
<1>2. ASSUME NEW a \in Allocators, Open(a) PROVE IInv'
  BY <1>2, OpenStep
<1>3. ASSUME NEW a \in Allocators, And(a) \/ Xor(a) \/ Not(a) PROVE IInv'
  BY <1>3, LocalStep
<1>4. ASSUME NEW a \in Allocators, forceWire(a) PROVE IInv'
  BY <1>4, ForceStep
<1>5. ASSUME NEW a \in {"bool", "boolBatch"}, CompositeAnd(a) PROVE IInv'
  <2>1. a \in Allocators
    BY DEF Allocators
  <2> QED BY <1>5, <2>1, CompositeAndStep
<1>6. CASE IncreaseReferenceCount
  BY <1>6, IncreaseStep
<1>7. CASE DecreaseReferenceCount
  BY <1>7, DecreaseStep
<1>8. CASE BatchingUp
  BY <1>8, BatchingUpStep
<1>9. CASE Unbatching
  BY <1>9, UnbatchingStep
<1>10. CASE PopLevel
  BY <1>10, PopLevelStep
<1>11. CASE ComputeGate
  BY <1>11, ComputeGateStep
<1>12. CASE Execute
  BY <1>12, ExecuteStep
<1>13. CASE CollectGate
  BY <1>13, CollectGateStep
<1>14. CASE DestroyGates
  BY <1>14, DestroyGatesStep
<1>15. CASE Return
  BY <1>15, ReturnStep
<1>16. CASE UNCHANGED vars
  BY <1>16, StutterStep
<1> QED BY <1>1, <1>2, <1>3, <1>4, <1>5, <1>6, <1>7, <1>8, <1>9, <1>10, <1>11,
           <1>12, <1>13, <1>14, <1>15, <1>16 DEF Next, Internal

-----------------------------------------------------------------------------
(* The theorems.                                                           *)

(* The inductive invariant holds in every state of LazyScheduler: types,   *)
(* exact reference counts and gate counter, and every level a wire or a    *)
(* call waits for exists.                                                  *)
THEOREM Invariance == Spec => []IInv
<1>1. Init => IInv
  BY InitStep
<1>2. IInv /\ [Next]_vars => IInv'
  BY NextStep
<1> QED BY <1>1, <1>2, PTL DEF Spec

(* The variables keep their types, whatever the calls. *)
THEOREM TypeCorrect == Spec => []TypeOK
<1>1. IInv => TypeOK
  BY DEF IInv
<1> QED BY <1>1, Invariance, PTL

(* The reference count in the WireKeeper is at all times the number of     *)
(* references the caller and the gates hold, and a wire is freed with the  *)
(* last of them: none leaks, none is freed while a gate will still use it. *)
THEOREM ReferencesCounted == Spec => []RefCountExact
<1>1. IInv => RefCountExact
  BY DEF IInv
<1> QED BY <1>1, Invariance, PTL

(* numUnexecutedGates_ is the number of gates in gatesByLevelOffset_.      *)
THEOREM GatesCounted == Spec => []GateCount
<1>1. IInv => GateCount
  BY DEF IInv
<1> QED BY <1>1, Invariance, PTL

(* executeTillLevel never pops the front of an empty deque. *)
THEOREM ForceIsSafe == Spec => []ForceFindsLevel
<1>1. IInv => ForceFindsLevel
  BY LevelsFound
<1> QED BY <1>1, Invariance, PTL

(* maybeExecuteGates never pops the front of an empty deque. *)
THEOREM LimitIsSafe == Spec => []LimitFindsLevel
<1>1. IInv => LimitFindsLevel
  BY LevelsFound
<1> QED BY <1>1, Invariance, PTL

-----------------------------------------------------------------------------
(* The level of the gates at place p; those that run are on the last level *)
(* taken from the keeper.                                                  *)
AbsoluteLevel(p) == firstUnexecutedLevel + p[1] - 1

(* The places of the gates that have not been destroyed are pairs, and a   *)
(* gate's wires are in use.                                                *)
NamedStored ==
  \A p \in Places :
    /\ IsGate(GateAt(p)) /\ p = <<p[1], p[2]>> /\ p[1] \in Nat /\ p[2] \in Nat
    /\ ElementsOf(GateAt(p).outs) \subseteq DOMAIN wires
    /\ ElementsOf(GateAt(p).ins) \subseteq DOMAIN wires

(* A wire is available at the level of the gate that writes it. *)
OutputsHere ==
  \A p \in Places : \A w \in ElementsOf(GateAt(p).outs) :
    wires[w].firstAvailableLevel = AbsoluteLevel(p)

(* A gate's operands are available at its level. *)
OperandsBefore ==
  \A p \in Places : \A w \in ElementsOf(GateAt(p).ins) :
    wires[w].firstAvailableLevel <= AbsoluteLevel(p)

(* A gate is on a level of its kind. *)
KindsApart ==
  \A p \in Places : isFree(GateAt(p).type) <=> isLevelFree(AbsoluteLevel(p))

(* The inductive invariant about the levels. *)
OrderInv == OutputsHere /\ OperandsBefore /\ KindsApart /\ TopologicalOrder

-----------------------------------------------------------------------------
(* Levels.                                                                 *)

(* Every operand is available at the level getMaxLevel finds. *)
LEMMA MaxLevelBounds ==
  ASSUME TypeOK, LevelsExist, NEW ids \in Seq(DOMAIN wires)
  PROVE  /\ getMaxLevel(ids) \in Nat
         /\ \A w \in ElementsOf(ids) : wires[w].firstAvailableLevel <= getMaxLevel(ids)
<1> DEFINE L == {wires[w].firstAvailableLevel : w \in ElementsOf(ids)}
           B == firstUnexecutedLevel + Len(gatesByLevelOffset)
<1>1. ElementsOf(ids) \subseteq DOMAIN wires
  BY DEF ElementsOf
<1>2. B \in Nat
  BY SequenceOfItsElements DEF TypeOK, IsSequence
<1>3. \A x \in L : x \in Nat /\ x < B
  BY <1>1 DEF TypeOK, LevelsExist
<1>4. getMaxLevel(ids) = MaxOf({0} \cup L)
  BY DEF getMaxLevel
<1>5. \A w \in ElementsOf(ids) : wires[w].firstAvailableLevel \in L
  OBVIOUS
<1> HIDE DEF L, B
<1>6. /\ MaxOf({0} \cup L) \in {0} \cup L
      /\ \A x \in {0} \cup L : x <= MaxOf({0} \cup L)
  <2>1. /\ {0} \cup L \subseteq Nat /\ {0} \cup L # {}
        /\ \A x \in {0} \cup L : x <= B
    BY <1>2, <1>3
  <2> QED BY <1>2, <2>1, MaxOfBounded
<1> PICK top : top = MaxOf({0} \cup L)
  OBVIOUS
<1>7. top \in {0} \cup L /\ \A x \in L : x <= top
  BY <1>6
<1>8. top \in Nat
  BY <1>3, <1>7
<1> QED BY <1>4, <1>5, <1>7, <1>8

(* getOutputLevel is a level of the gate's kind that has not been          *)
(* executed, and not before its operands are available: a gate that needs  *)
(* the other parties comes after all of them.                              *)
LEMMA OutputLevelFits ==
  ASSUME TypeOK, NEW free \in BOOLEAN, NEW m \in Nat, NEW l,
         l = getOutputLevel(free, m)
  PROVE  /\ l \in Nat /\ firstUnexecutedLevel <= l /\ m <= l
         /\ isLevelFree(l) <=> free
         /\ ~free => m < l
<1> DEFINE top == MaxOf({m, firstUnexecutedLevel})
<1>1. top \in Nat /\ firstUnexecutedLevel <= top /\ m <= top
  BY MaxOfPair DEF TypeOK
<1>2. firstUnexecutedLevel \in Nat
  BY DEF TypeOK
<1>3. l = top + (IF free THEN 0 ELSE 1)
            + (IF isLevelFree(top + (IF free THEN 0 ELSE 1)) # free THEN 1 ELSE 0)
  BY DEF getOutputLevel
<1> HIDE DEF top
<1>4. CASE free
  <2>1. free = TRUE /\ top + 0 = top
    BY <1>1, <1>4
  <2>2. (isLevelFree(top) # TRUE) <=> top % 2 # 0
    BY DEF isLevelFree
  <2>3. l = top + (IF top % 2 = 0 THEN 0 ELSE 1)
    BY <1>1, <1>3, <2>1, <2>2
  <2>4. isLevelFree(l) <=> l % 2 = 0
    BY DEF isLevelFree
  <2>5. CASE top % 2 = 0
    <3>1. l = top
      BY <1>1, <2>3, <2>5
    <3> QED BY ONLY <1>1, <1>2, <1>4, <2>4, <2>5, <3>1, m \in Nat
  <2>6. CASE top % 2 # 0
    <3>1. l = top + 1 /\ l % 2 = 0
      BY <1>1, <2>3, <2>6
    <3> QED BY ONLY <1>1, <1>2, <1>4, <2>4, <3>1, m \in Nat
  <2> QED BY <2>5, <2>6
<1>5. CASE ~free
  <2>1. free = FALSE
    BY <1>5
  <2>2. (isLevelFree(top + 1) # FALSE) <=> (top + 1) % 2 = 0
    BY DEF isLevelFree
  <2>3. l = top + 1 + (IF (top + 1) % 2 = 0 THEN 1 ELSE 0)
    BY <1>1, <1>3, <2>1, <2>2
  <2>4. isLevelFree(l) <=> l % 2 = 0
    BY DEF isLevelFree
  <2> QED BY <1>1, <1>2, <1>5, <2>3, <2>4
<1> QED BY <1>4, <1>5

(* Every element of s is one of u. *)
Holds(u, s) == \A i \in DOMAIN s : \E j \in DOMAIN u : u[j] = s[i]

(* A concatenation holds the elements of both sequences. *)
LEMMA ConcatenationHolds ==
  ASSUME NEW S, NEW s \in Seq(S), NEW t \in Seq(S)
  PROVE  s \o t \in Seq(S) /\ Holds(s \o t, s) /\ Holds(s \o t, t)
<1> PICK m \in Nat, n \in Nat : m = Len(s) /\ n = Len(t)
  OBVIOUS
<1> PICK u : u = s \o t
  OBVIOUS
<1>1. /\ DOMAIN s = 1..m /\ DOMAIN t = 1..n /\ DOMAIN u = 1..m + n
      /\ \A i \in 1..m : u[i] = s[i]
      /\ \A i \in m + 1..m + n : u[i] = t[i - m]
  OBVIOUS
<1>2. \A i \in 1..m : i \in 1..m + n
  OBVIOUS
<1>3. \A i \in 1..n : m + i \in 1..m + n /\ m + i \in m + 1..m + n /\ (m + i) - m = i
  OBVIOUS
<1>4. \A i \in 1..n : u[m + i] = t[i]
  BY <1>1, <1>3
<1>5. u \in Seq(S)
  OBVIOUS
<1>6. Holds(u, s) /\ Holds(u, t)
  BY <1>1, <1>2, <1>3, <1>4 DEF Holds
<1> QED BY <1>5, <1>6

(* A wire a gate names is in use, since the gate holds a reference to it.  *)
LEMMA NamesAreStored == IInv => NamedStored
<1> SUFFICES ASSUME IInv, NEW p \in Places
             PROVE  /\ IsGate(GateAt(p))
                    /\ p = <<p[1], p[2]>> /\ p[1] \in Nat /\ p[2] \in Nat
                    /\ ElementsOf(GateAt(p).outs) \subseteq DOMAIN wires
                    /\ ElementsOf(GateAt(p).ins) \subseteq DOMAIN wires
  BY DEF NamedStored
<1>1. TypeOK
  BY DEF IInv
<1>2. IsGate(GateAt(p)) /\ p = <<p[1], p[2]>> /\ p[1] \in Nat /\ p[2] \in Nat
  <2>1. CASE p \in RunningPlaces
    <3> PICK i \in DOMAIN running : p = <<0, i>> /\ GateAt(p) = running[i]
      BY <1>1, <2>1, PendingPlace
    <3>1. IsLevel(running) /\ DOMAIN running = 1..Len(running)
      BY <1>1, SequenceOfItsElements DEF TypeOK, IsLevel, IsSequence
    <3>2. IsGate(running[i]) /\ i \in Nat
      BY <3>1 DEF IsLevel
    <3> QED BY <3>2
  <2>2. CASE p \in PendingPlaces
    <3> PICK k \in DOMAIN gatesByLevelOffset :
               \E i \in DOMAIN gatesByLevelOffset[k] : p = <<k, i>>
      BY <1>1, <2>2, PendingPlace
    <3> PICK i \in DOMAIN gatesByLevelOffset[k] : p = <<k, i>>
      OBVIOUS
    <3>1. GateAt(p) = gatesByLevelOffset[k][i]
      BY <1>1, PendingPlace
    <3>2. k \in Nat
      BY <1>1, SequenceOfItsElements DEF TypeOK, IsSequence
    <3>3. IsLevel(gatesByLevelOffset[k])
      BY <1>1 DEF TypeOK
    <3>4. DOMAIN gatesByLevelOffset[k] \subseteq Nat
      BY <3>3, SequenceOfItsElements DEF IsLevel, IsSequence
    <3> QED BY <3>1, <3>2, <3>3, <3>4 DEF IsLevel
  <2> QED BY <2>1, <2>2 DEF Places
<1> PICK gate : gate = GateAt(p)
  OBVIOUS
<1> PICK outs, ins : outs = gate.outs /\ ins = gate.ins
  OBVIOUS
<1> PICK names : names = Names(gate)
  OBVIOUS
<1>3. outs \in Seq(Wire) /\ ins \in Seq(Wire) /\ names = outs \o ins
  BY <1>2 DEF IsGate, Names
<1>4. names \in Seq(Wire) /\ Holds(names, outs) /\ Holds(names, ins)
  <2>1. /\ outs \o ins \in Seq(Wire)
        /\ Holds(outs \o ins, outs) /\ Holds(outs \o ins, ins)
    BY ONLY <1>3, ConcatenationHolds
  <2> QED BY <1>3, <2>1
<1>5. \A j \in DOMAIN names : names[j] \in DOMAIN wires
  <2> TAKE j \in DOMAIN names
  <2> PICK w : w = names[j]
    OBVIOUS
  <2>1. w \in Wire
    <3>1. names \in Seq(Wire)
      BY <1>4
    <3> QED BY <3>1
  <2>2. <<p, j>> \in References(Places, w)
    BY ReferencePlace DEF Indices
  <2>3. IsFiniteSet(References(Places, w))
    BY <2>1 DEF IInv
  <2>4. Cardinality(References(Places, w)) \in Nat \ {0}
    BY <2>2, <2>3, FS_CardinalityType, FS_EmptySet
  <2>5. handles[w] \in Nat
    BY <1>1, <2>1 DEF TypeOK
  <2> QED BY <2>1, <2>4, <2>5 DEF IInv, RefCountExact
<1>6. \A i \in DOMAIN outs : outs[i] \in DOMAIN wires
  BY <1>4, <1>5 DEF Holds
<1>7. \A i \in DOMAIN ins : ins[i] \in DOMAIN wires
  BY <1>4, <1>5 DEF Holds
<1> QED BY <1>2, <1>6, <1>7 DEF ElementsOf

(* The same in the next state. *)
LEMMA NextNamesAreStored == IInv' => NamedStored'
<1>1. IInv => NamedStored
  BY NamesAreStored
<1> QED BY <1>1, PTL

-----------------------------------------------------------------------------
(* The steps.                                                              *)

(* The same gate, but for where its results are. *)
SameGate(g, h) ==
  /\ g.type = h.type /\ g.allocator = h.allocator /\ g.ins = h.ins /\ g.outs = h.outs
  /\ g.party = h.party /\ g.sizes = h.sizes

(* Steps that move no gate, and may only destroy some, keep the order. *)
LEMMA GatesStay ==
  ASSUME IInv, IInv', OrderInv, Places' \subseteq Places,
         \A p \in Places' : SameGate(GateAt(p)', GateAt(p)),
         firstUnexecutedLevel' = firstUnexecutedLevel,
         \A w \in DOMAIN wires' :
           /\ w \in DOMAIN wires
           /\ wires'[w].firstAvailableLevel = wires[w].firstAvailableLevel
  PROVE  OrderInv'
<1>1. \A p : AbsoluteLevel(p)' = AbsoluteLevel(p)
  BY DEF AbsoluteLevel
<1>2. NamedStored'
  BY NextNamesAreStored
<1>3. \A p \in Places' : /\ p \in Places
                         /\ (GateAt(p).type)' = GateAt(p).type
                         /\ (GateAt(p).ins)' = GateAt(p).ins
                         /\ (GateAt(p).outs)' = GateAt(p).outs
  BY DEF SameGate
<1>4. \A p \in Places' : /\ ElementsOf(GateAt(p).ins)' = ElementsOf(GateAt(p).ins)
                         /\ ElementsOf(GateAt(p).outs)' = ElementsOf(GateAt(p).outs)
                         /\ ElementsOf(GateAt(p).ins) \subseteq DOMAIN wires'
                         /\ ElementsOf(GateAt(p).outs) \subseteq DOMAIN wires'
  BY <1>2, <1>3 DEF NamedStored, ElementsOf
<1>5. OutputsHere' /\ OperandsBefore'
  BY <1>1, <1>3, <1>4 DEF OrderInv, OutputsHere, OperandsBefore
<1>6. KindsApart'
  BY <1>1, <1>3 DEF OrderInv, KindsApart, isFree, isLevelFree
<1>7. TopologicalOrder'
  BY <1>3, <1>4 DEF OrderInv, TopologicalOrder, isFree
<1> QED BY <1>5, <1>6, <1>7 DEF OrderInv

(* Taking a level away keeps the order: places move forward, levels stay.  *)
LEMMA PopKeepsOrder ==
  ASSUME IInv, IInv', OrderInv, PopLevel PROVE OrderInv'
<1>1. TypeOK /\ running = <<>>
  BY DEF IInv, PopLevel
<1>2. gatesByLevelOffset # <<>>
  BY LevelsFound DEF ForceFindsLevel, LimitFindsLevel, PopLevel, IInv, TypeOK, Idle
<1>3. /\ running' = Head(gatesByLevelOffset)
      /\ gatesByLevelOffset' = Tail(gatesByLevelOffset)
      /\ firstUnexecutedLevel' = firstUnexecutedLevel + 1 /\ wires' = wires
  BY DEF PopLevel, popFirstUnexecutedLevel
<1>4. IsSequence(gatesByLevelOffset')
  BY DEF IInv, TypeOK
<1>5. /\ \A p \in Places : Forward(p) \in Places' /\ GateAt(Forward(p))' = GateAt(p)
      /\ \A q \in Places' : \E p \in Places : q = Forward(p)
  BY <1>1, <1>2, <1>3, <1>4, PopMovesPlaces
<1>6. NamedStored /\ firstUnexecutedLevel \in Nat
  BY <1>1, NamesAreStored DEF TypeOK
<1>7. \A p \in Places : /\ Forward(p)[1] = p[1] - 1 /\ Forward(p)[2] = p[2]
                        /\ p[1] \in Nat /\ p[2] \in Nat
  BY <1>6 DEF Forward, NamedStored
<1>8. \A q \in Places' : \E p \in Places :
        /\ q = Forward(p) /\ GateAt(q)' = GateAt(p)
        /\ AbsoluteLevel(q)' = AbsoluteLevel(p)
  <2> TAKE q \in Places'
  <2> PICK p \in Places : q = Forward(p)
    BY <1>5
  <2>1. GateAt(q)' = GateAt(p)
    BY <1>5
  <2>2. q[1] = p[1] - 1 /\ p[1] \in Nat
    BY <1>7
  <2>3. AbsoluteLevel(q)' = AbsoluteLevel(p)
    BY <1>3, <1>6, <2>2 DEF AbsoluteLevel
  <2> QED BY <2>1, <2>3
<1>9. OutputsHere' /\ OperandsBefore'
  BY <1>3, <1>8 DEF OrderInv, OutputsHere, OperandsBefore, ElementsOf
<1>10. KindsApart'
  BY <1>8 DEF OrderInv, KindsApart, isFree, isLevelFree
<1>11. TopologicalOrder'
  <2> SUFFICES ASSUME NEW q \in Places', NEW r \in Places',
                      (ElementsOf(GateAt(q).outs) \cap ElementsOf(GateAt(r).ins) # {})'
               PROVE  \/ q[1] < r[1]
                      \/ /\ q[1] = r[1] /\ q[2] < r[2]
                         /\ isFree(GateAt(q).type)' /\ isFree(GateAt(r).type)'
    BY DEF TopologicalOrder
  <2> PICK p \in Places : q = Forward(p) /\ GateAt(q)' = GateAt(p)
    BY <1>8
  <2> PICK s \in Places : r = Forward(s) /\ GateAt(r)' = GateAt(s)
    BY <1>8
  <2>1. ElementsOf(GateAt(p).outs) \cap ElementsOf(GateAt(s).ins) # {}
    BY DEF ElementsOf
  <2>2. \/ p[1] < s[1]
        \/ /\ p[1] = s[1] /\ p[2] < s[2]
           /\ isFree(GateAt(p).type) /\ isFree(GateAt(s).type)
    BY <2>1 DEF OrderInv, TopologicalOrder
  <2>3. /\ q[1] = p[1] - 1 /\ q[2] = p[2] /\ r[1] = s[1] - 1 /\ r[2] = s[2]
        /\ p[1] \in Nat /\ s[1] \in Nat
    BY <1>7
  <2>4. /\ isFree(GateAt(p).type) <=> isFree(GateAt(q).type)'
        /\ isFree(GateAt(s).type) <=> isFree(GateAt(r).type)'
    BY DEF isFree
  <2> QED BY <2>2, <2>3, <2>4
<1> QED BY <1>9, <1>10, <1>11 DEF OrderInv

(* What the calls make sure of: a gate has operands, the engine has a      *)
(* queue for its operations, and pieces have sizes.                        *)
WellFormed(gate) ==
  /\ gate.type \notin {"Input", "Batching"} => 1 \in DOMAIN gate.ins
  /\ gate.type \in {"NonFreeAnd", "NonFreeComposite"} => QueueOf(gate) \in Queue
  /\ gate.type = "Unbatching" => gate.sizes \in Seq(Nat)

(* A step that creates a gate whose operands are available at level m: its *)
(* wires hold these values until it runs, and should hold these others.    *)
CreatesGate(gate, m, values, sizes, ideals) ==
  /\ IsGate(gate) /\ WellFormed(gate) /\ ElementsOf(gate.ins) \subseteq DOMAIN wires
  /\ m \in Nat /\ \A w \in ElementsOf(gate.ins) : wires[w].firstAvailableLevel <= m
  /\ Len(values) \in Nat /\ DOMAIN values = 1..Len(values)
  /\ newGate(gate, getOutputLevel(isFree(gate.type), m), values, sizes)
  /\ Receives(gate.outs, ideals)
  /\ ideals = IF gate.type = "Input" THEN values
              ELSE Outputs(gate, IdealOf(gate.ins))
  /\ DOMAIN ideals = DOMAIN values
  /\ gate.type = "Input" => \A i \in DOMAIN values : IsSequence(values[i])
  /\ UNCHANGED <<executionVars, engineVars>>

Creating == \E gate, m, values, sizes, ideals :
              CreatesGate(gate, m, values, sizes, ideals)

(* What the creation of a gate does: the gate gets a place of its own, on  *)
(* a level of its kind, after the gates it reads from; its outputs are new *)
(* wires.                                                                  *)
LEMMA CreationPlace ==
  ASSUME IInv, IInv', NEW gate, NEW m, NEW values, NEW sizes, NEW ideals,
         CreatesGate(gate, m, values, sizes, ideals),
         NEW level, level = getOutputLevel(isFree(gate.type), m),
         NEW p0, p0 = NewPlace(level)
  PROVE  /\ level \in Nat /\ firstUnexecutedLevel <= level /\ m <= level
         /\ isLevelFree(level) <=> isFree(gate.type)
         /\ ~isFree(gate.type) => m < level
         /\ StoresNewWires(gate, gate.outs, level)
         /\ Places' = Places \cup {p0} /\ p0 \notin Places
         /\ \A p \in Places : GateAt(p)' = GateAt(p)
         /\ GateAt(p0)' = gate
         /\ AbsoluteLevel(p0) = level
         /\ firstUnexecutedLevel' = firstUnexecutedLevel
         /\ p0 = <<TargetLevel(level), Len(GatesBefore(level)) + 1>>
<1>1. TypeOK /\ isFree(gate.type) \in BOOLEAN /\ m \in Nat /\ IsGate(gate)
  BY DEF IInv, isFree, CreatesGate
<1>2. /\ level \in Nat /\ firstUnexecutedLevel <= level /\ m <= level
      /\ isLevelFree(level) <=> isFree(gate.type)
      /\ ~isFree(gate.type) => m < level
  BY <1>1, OutputLevelFits
<1>3. /\ newGate(gate, level, values, sizes)
      /\ Len(values) \in Nat /\ DOMAIN values = 1..Len(values)
  BY DEF CreatesGate
<1>4. StoresNewWires(gate, gate.outs, level)
  BY <1>1, <1>2, <1>3, NewGateWires
<1>5. /\ gatesByLevelOffset' = addGate(gate, level) /\ running' = running
      /\ firstUnexecutedLevel' = firstUnexecutedLevel
  BY <1>3 DEF newGate, CreatesGate, executionVars
<1>6. IsSequence(gatesByLevelOffset')
  BY DEF IInv, TypeOK
<1>7. /\ Places' = Places \cup {p0} /\ p0 \notin Places
      /\ \A p \in Places : GateAt(p)' = GateAt(p)
      /\ GateAt(p0)' = gate
  BY <1>1, <1>2, <1>5, <1>6, AddPlace
<1>8. AbsoluteLevel(p0) = level
  BY <1>1, <1>2 DEF AbsoluteLevel, NewPlace, TargetLevel, TypeOK
<1> QED BY <1>2, <1>4, <1>5, <1>7, <1>8 DEF NewPlace

(* The gates on a gate's level before it was added have smaller indices.   *)
LEMMA EarlierOnLevel ==
  ASSUME TypeOK, NEW level \in Nat, firstUnexecutedLevel <= level,
         NEW p \in Places, p[1] = TargetLevel(level)
  PROVE  p[2] < Len(GatesBefore(level)) + 1
<1>1. TargetLevel(level) \in Nat \ {0}
  BY DEF TypeOK, TargetLevel
<1>2. p \in PendingPlaces
  <2>1. p \notin RunningPlaces
    BY <1>1, PendingPlace
  <2> QED BY <2>1 DEF Places
<1> PICK k \in DOMAIN gatesByLevelOffset :
           \E i \in DOMAIN gatesByLevelOffset[k] : p = <<k, i>>
  BY <1>2, PendingPlace
<1> PICK i \in DOMAIN gatesByLevelOffset[k] : p = <<k, i>>
  OBVIOUS
<1>3. k = TargetLevel(level)
  OBVIOUS
<1>4. DOMAIN gatesByLevelOffset = 1..Len(gatesByLevelOffset)
  BY SequenceOfItsElements DEF TypeOK, IsSequence
<1>5. GatesBefore(level) = gatesByLevelOffset[k]
  <2>1. k <= Len(gatesByLevelOffset)
    BY <1>4
  <2> QED BY <1>3, <2>1 DEF GatesBefore
<1>6. IsSequence(gatesByLevelOffset[k])
  BY DEF TypeOK, IsLevel
<1>7. /\ DOMAIN gatesByLevelOffset[k] = 1..Len(gatesByLevelOffset[k])
      /\ Len(gatesByLevelOffset[k]) \in Nat
  BY <1>6, SequenceOfItsElements DEF IsSequence
<1> QED BY <1>5, <1>7

(* Creating a gate keeps the order. *)
LEMMA CreationKeepsOrder ==
  ASSUME IInv, IInv', OrderInv, Creating PROVE OrderInv'
<1> PICK gate, m, values, sizes, ideals : CreatesGate(gate, m, values, sizes, ideals)
  BY DEF Creating
<1> PICK level : level = getOutputLevel(isFree(gate.type), m)
  OBVIOUS
<1> PICK p0 : p0 = NewPlace(level)
  OBVIOUS
<1>1. TypeOK /\ NamedStored /\ firstUnexecutedLevel \in Nat
  BY NamesAreStored DEF IInv, TypeOK
<1>2. /\ level \in Nat /\ firstUnexecutedLevel <= level /\ m <= level
      /\ isLevelFree(level) <=> isFree(gate.type)
      /\ ~isFree(gate.type) => m < level
      /\ StoresNewWires(gate, gate.outs, level)
      /\ Places' = Places \cup {p0} /\ p0 \notin Places
      /\ \A p \in Places : GateAt(p)' = GateAt(p)
      /\ GateAt(p0)' = gate
      /\ AbsoluteLevel(p0) = level
      /\ firstUnexecutedLevel' = firstUnexecutedLevel
      /\ p0 = <<TargetLevel(level), Len(GatesBefore(level)) + 1>>
  BY CreationPlace
<1>3. \A p : AbsoluteLevel(p)' = AbsoluteLevel(p)
  BY <1>2 DEF AbsoluteLevel
<1>4. /\ ElementsOf(gate.outs) \cap DOMAIN wires = {}
      /\ \A w \in DOMAIN wires :
           wires'[w].firstAvailableLevel = wires[w].firstAvailableLevel
      /\ \A w \in ElementsOf(gate.outs) : wires'[w].firstAvailableLevel = level
  BY <1>2 DEF StoresNewWires
<1>5. /\ ElementsOf(gate.ins) \subseteq DOMAIN wires /\ m \in Nat
      /\ \A w \in ElementsOf(gate.ins) :
           wires[w].firstAvailableLevel \in Nat /\ wires[w].firstAvailableLevel <= m
  BY <1>1 DEF CreatesGate, TypeOK
<1>6. \A p \in Places :
        /\ ElementsOf(GateAt(p).outs)' = ElementsOf(GateAt(p).outs)
        /\ ElementsOf(GateAt(p).ins)' = ElementsOf(GateAt(p).ins)
        /\ ElementsOf(GateAt(p).outs) \subseteq DOMAIN wires
        /\ ElementsOf(GateAt(p).ins) \subseteq DOMAIN wires
  BY <1>1, <1>2 DEF NamedStored, ElementsOf
<1>7. /\ ElementsOf(GateAt(p0).outs)' = ElementsOf(gate.outs)
      /\ ElementsOf(GateAt(p0).ins)' = ElementsOf(gate.ins)
  BY <1>2 DEF ElementsOf
<1>8. OutputsHere'
  BY <1>2, <1>3, <1>4, <1>6, <1>7 DEF OrderInv, OutputsHere
<1>9. OperandsBefore'
  <2>1. \A w \in ElementsOf(gate.ins) : wires'[w].firstAvailableLevel <= level
    BY <1>2, <1>4, <1>5
  <2> QED BY <1>2, <1>3, <1>4, <1>6, <1>7, <2>1 DEF OrderInv, OperandsBefore
<1>10. KindsApart'
  <2>1. \A p \in Places : isFree(GateAt(p).type)' <=> isLevelFree(AbsoluteLevel(p))'
    BY <1>2, <1>3 DEF OrderInv, KindsApart, isFree, isLevelFree
  <2>2. isFree(GateAt(p0).type)' <=> isLevelFree(AbsoluteLevel(p0))'
    BY <1>2, <1>3 DEF isFree, isLevelFree
  <2> QED BY <1>2, <2>1, <2>2 DEF KindsApart
<1>11. ASSUME NEW p \in Places, ElementsOf(GateAt(p).outs) \cap ElementsOf(gate.ins) # {}
       PROVE  \/ p[1] < p0[1]
              \/ /\ p[1] = p0[1] /\ p[2] < p0[2]
                 /\ isFree(GateAt(p).type) /\ isFree(gate.type)
  <2> PICK w \in ElementsOf(gate.ins) : w \in ElementsOf(GateAt(p).outs)
    BY <1>11
  <2>1. AbsoluteLevel(p) <= m
    BY <1>5 DEF OrderInv, OutputsHere
  <2>2. p[1] \in Nat /\ p0[1] = level - firstUnexecutedLevel + 1
    BY <1>1, <1>2 DEF NamedStored, TargetLevel
  <2>3. AbsoluteLevel(p) = firstUnexecutedLevel + p[1] - 1
    BY DEF AbsoluteLevel
  <2>4. p[1] <= p0[1]
    BY ONLY <1>1, <1>2, <1>5, <2>1, <2>2, <2>3
  <2>5. CASE p[1] = p0[1]
    <3>1. AbsoluteLevel(p) = level
      BY ONLY <1>1, <1>2, <2>2, <2>3, <2>5
    <3>2. isFree(gate.type)
      BY ONLY <1>2, <1>5, <2>1, <3>1
    <3>3. isFree(GateAt(p).type)
      BY <1>2, <3>1, <3>2 DEF OrderInv, KindsApart
    <3>4. p[2] < p0[2]
      BY <1>1, <1>2, <2>5, EarlierOnLevel
    <3> QED BY <2>5, <3>2, <3>3, <3>4
  <2> QED BY <1>1, <1>2, <2>2, <2>4, <2>5
<1>12. TopologicalOrder'
  <2> SUFFICES ASSUME NEW p \in Places', NEW q \in Places',
                      (ElementsOf(GateAt(p).outs) \cap ElementsOf(GateAt(q).ins) # {})'
               PROVE  \/ p[1] < q[1]
                      \/ /\ p[1] = q[1] /\ p[2] < q[2]
                         /\ isFree(GateAt(p).type)' /\ isFree(GateAt(q).type)'
    BY DEF TopologicalOrder
  <2>1. CASE p = p0
    <3>1. ElementsOf(GateAt(q).ins)' \subseteq DOMAIN wires
      BY <1>2, <1>5, <1>6, <1>7
    <3> QED BY <1>4, <1>7, <2>1, <3>1
  <2>2. CASE p \in Places /\ q = p0
    <3>1. ElementsOf(GateAt(p).outs) \cap ElementsOf(gate.ins) # {}
      BY <1>6, <1>7, <2>2
    <3>2. isFree(GateAt(p).type)' <=> isFree(GateAt(p).type)
      BY <1>2, <2>2 DEF isFree
    <3>3. isFree(GateAt(q).type)' <=> isFree(gate.type)
      BY <1>2, <2>2 DEF isFree
    <3> QED BY <1>11, <2>2, <3>1, <3>2, <3>3
  <2>3. CASE p \in Places /\ q \in Places
    <3>1. ElementsOf(GateAt(p).outs) \cap ElementsOf(GateAt(q).ins) # {}
      BY <1>6, <2>3
    <3>2. /\ isFree(GateAt(p).type)' <=> isFree(GateAt(p).type)
          /\ isFree(GateAt(q).type)' <=> isFree(GateAt(q).type)
      BY <1>2, <2>3 DEF isFree
    <3> QED BY <2>3, <3>1, <3>2 DEF OrderInv, TopologicalOrder
  <2> QED BY <1>2, <2>1, <2>2, <2>3
<1> QED BY <1>8, <1>9, <1>10, <1>12 DEF OrderInv

-----------------------------------------------------------------------------
(* The calls that create a gate do so.                                     *)

(* What makes a step one that creates a gate. *)
LEMMA CallCreates ==
  ASSUME IInv,
         NEW type \in GateTypes, NEW a \in Allocators, NEW ins \in Seq(DOMAIN wires),
         NEW outs, NEW party \in Party, NEW strategy, NEW m \in Nat,
         \A w \in ElementsOf(ins) : wires[w].firstAvailableLevel <= m,
         NEW values, Len(values) \in Nat, DOMAIN values = 1..Len(values),
         NEW sizes, NEW ideals,
         newGate(Gate(type, a, ins, outs, party, strategy),
                 getOutputLevel(isFree(type), m), values, sizes),
         Receives(outs, ideals),
         ideals = IF type = "Input" THEN values
                  ELSE Outputs(Gate(type, a, ins, outs, party, strategy), IdealOf(ins)),
         DOMAIN ideals = DOMAIN values,
         type = "Input" => \A i \in DOMAIN values : IsSequence(values[i]),
         type \notin {"Input", "Batching"} => 1 \in DOMAIN ins,
         type \in {"NonFreeAnd", "NonFreeComposite"} => <<type, a>> \in Queue,
         type = "Unbatching" => strategy \in Seq(Nat),
         UNCHANGED <<executionVars, engineVars>>
  PROVE  Creating
<1> PICK gate : gate = Gate(type, a, ins, outs, party, strategy)
  OBVIOUS
<1>1. gate.outs = outs /\ gate.ins = ins /\ gate.type = type
  BY DEF Gate
<1>2. outs \in Seq(Wire)
  <2>1. outs \in [1..Len(values) -> Wire \ DOMAIN wires]
    BY <1>1 DEF newGate, FreshWires
  <2> QED BY <2>1
<1>3. ins \in Seq(Wire)
  BY DEF IInv, TypeOK
<1>4. IsGate(gate)
  BY <1>2, <1>3, GateIsGate
<1>5. ElementsOf(ins) \subseteq DOMAIN wires
  BY DEF ElementsOf
<1>6. newGate(gate, getOutputLevel(isFree(gate.type), m), values, sizes)
  BY <1>1
<1>7. ideals = IF gate.type = "Input" THEN values ELSE Outputs(gate, IdealOf(gate.ins))
  BY <1>1
<1>8. WellFormed(gate)
  BY DEF WellFormed, QueueOf, Gate
<1>9. CreatesGate(gate, m, values, sizes, ideals)
  BY <1>1, <1>4, <1>5, <1>6, <1>7, <1>8 DEF CreatesGate
<1> QED BY <1>9 DEF Creating

(* A single value is a sequence of one. *)
LEMMA OneValue == \A v : Len(<<v>>) = 1 /\ DOMAIN <<v>> = 1..1
OBVIOUS

(* An input creates its gate. *)
LEMMA InputCreates == ASSUME IInv, NEW a \in Allocators, Input(a) PROVE Creating
<1> PICK v \in Inputs[a], out \in Wire : inputGate(a, v, out) /\ Creates(<<out>>, <<v>>)
  BY DEF Input
<1> PICK ins, outs, values, sizes :
      /\ ins = <<>> /\ outs = <<out>> /\ values = <<v>> /\ sizes = <<Len(v)>>
  OBVIOUS
<1> PICK type : type = "Input"
  OBVIOUS
<1>1. newGate(Gate(type, a, ins, outs, myId, <<>>),
              getOutputLevel(isFree(type), firstUnexecutedLevel), values, sizes)
  BY DEF inputGate
<1>2. Receives(outs, values) /\ UNCHANGED <<executionVars, engineVars>>
  BY DEF Creates
<1>3. /\ type \in GateTypes /\ ins \in Seq(DOMAIN wires) /\ myId \in Party
      /\ firstUnexecutedLevel \in Nat
  BY GatesAssumption DEF GateTypes, FreeTypes, IInv, TypeOK
<1>4. \A w \in ElementsOf(ins) : wires[w].firstAvailableLevel <= firstUnexecutedLevel
  BY EmptySequence DEF ElementsOf
<1>5. Len(values) \in Nat /\ DOMAIN values = 1..Len(values)
  BY OneValue
<1>6. \A i \in DOMAIN values : IsSequence(values[i])
  <2>1. v \in Seq(Nat)
    BY LazySchedulerAssumption
  <2> QED BY <2>1, SequenceOfItsElements
<1>7. type = "Input" /\ type # "Unbatching" /\ type \notin {"NonFreeAnd", "NonFreeComposite"}
  OBVIOUS
<1> QED BY <1>1, <1>2, <1>3, <1>4, <1>5, <1>6, <1>7, CallCreates

(* Opening a wire creates its gate. *)
LEMMA OpenCreates == ASSUME IInv, NEW a \in Allocators, Open(a) PROVE Creating
<1> PICK w \in Held(a), party \in Party, out \in Wire :
      /\ outputGate(a, w, party, out)
      /\ Creates(<<out>>, <<RevealedTo(party, ideal[w])>>)
  BY DEF Open
<1> PICK ins, outs, values, sizes, ideals :
      /\ ins = <<w>> /\ outs = <<out>> /\ values = <<Placeholder(a)>>
      /\ sizes = <<getBatchSize(w)>> /\ ideals = <<RevealedTo(party, ideal[w])>>
  OBVIOUS
<1> PICK type, m : type = "Output" /\ m = getMaxLevel(ins)
  OBVIOUS
<1>1. newGate(Gate(type, a, ins, outs, party, <<>>),
              getOutputLevel(isFree(type), m), values, sizes)
  BY DEF outputGate
<1>2. Receives(outs, ideals) /\ UNCHANGED <<executionVars, engineVars>>
  BY DEF Creates
<1>3. type \in GateTypes /\ ins \in Seq(DOMAIN wires)
  BY DEF GateTypes, NonFreeTypes, Held
<1>4. m \in Nat /\ \A x \in ElementsOf(ins) : wires[x].firstAvailableLevel <= m
  BY <1>3, MaxLevelBounds DEF IInv
<1>5. Len(values) \in Nat /\ DOMAIN values = 1..Len(values)
  BY OneValue
<1>6. ideals = Outputs(Gate(type, a, ins, outs, party, <<>>), IdealOf(ins))
  <2>1. IdealOf(ins)[1] = ideal[w]
    BY DEF IdealOf
  <2>2. Outputs(Gate(type, a, ins, outs, party, <<>>), IdealOf(ins))
          = <<RevealedTo(party, IdealOf(ins)[1])>>
    BY DEF Outputs, Gate
  <2> QED BY <2>1, <2>2
<1>7. /\ type # "Input" /\ type # "Unbatching"
      /\ type \notin {"NonFreeAnd", "NonFreeComposite"}
  OBVIOUS
<1>8. DOMAIN ideals = DOMAIN values /\ 1 \in DOMAIN ins
  OBVIOUS
<1> QED BY <1>1, <1>2, <1>3, <1>4, <1>5, <1>6, <1>7, <1>8, CallCreates

(* As many values as wires. *)
LEMMA LengthOfIdeal ==
  ASSUME NEW ids, NEW n \in Nat, DOMAIN ids = 1..n
  PROVE  Len(IdealOf(ids)) = n
BY DEF IdealOf

(* Gates of one or two operands. *)
LEMMA NormalGateCreates ==
  ASSUME IInv, NEW type \in {"FreeAnd", "NonFreeAnd", "Xor", "Not"}, NEW a \in Allocators,
         NEW ins \in Seq(DOMAIN wires), 1 \in DOMAIN ins, NEW out, NEW ideals,
         DOMAIN ideals = 1..1,
         normalGate(type, a, ins, out), Creates(<<out>>, ideals),
         ideals = Outputs(Gate(type, a, ins, <<out>>, myId, <<>>), IdealOf(ins))
  PROVE  Creating
<1> PICK outs, values, sizes, m :
      /\ outs = <<out>> /\ values = <<Placeholder(a)>>
      /\ sizes = <<getBatchSize(ins[1])>> /\ m = getMaxLevel(ins)
  OBVIOUS
<1>1. newGate(Gate(type, a, ins, outs, myId, <<>>),
              getOutputLevel(isFree(type), m), values, sizes)
  BY DEF normalGate
<1>2. Receives(outs, ideals) /\ UNCHANGED <<executionVars, engineVars>>
  BY DEF Creates
<1>3. m \in Nat /\ \A x \in ElementsOf(ins) : wires[x].firstAvailableLevel <= m
  BY MaxLevelBounds DEF IInv
<1>4. Len(values) \in Nat /\ DOMAIN values = 1..Len(values)
  BY OneValue
<1>5. /\ type \in GateTypes /\ type # "Input" /\ type # "Unbatching"
      /\ type \in {"NonFreeAnd", "NonFreeComposite"} => <<type, a>> \in Queue
      /\ myId \in Party
  BY GatesAssumption DEF GateTypes, FreeTypes, NonFreeTypes, Queue
<1>6. ideals = Outputs(Gate(type, a, ins, outs, myId, <<>>), IdealOf(ins))
  OBVIOUS
<1>7. DOMAIN ideals = DOMAIN values
  BY OneValue
<1> QED BY <1>1, <1>2, <1>3, <1>4, <1>5, <1>6, <1>7, CallCreates

(* The AND, the XOR and the NOT, and their arithmetic siblings, create     *)
(* their gates.                                                            *)
LEMMA LocalCreates ==
  ASSUME IInv, NEW a \in Allocators, And(a) \/ Xor(a) \/ Not(a)
  PROVE  Creating
<1>1. \A w, x \in Held(a) : <<w, x>> \in Seq(DOMAIN wires) /\ <<w>> \in Seq(DOMAIN wires)
  BY DEF Held
<1>2. \A w, x : DOMAIN <<w, x>> = 1..2 /\ 1 \in DOMAIN <<w, x>> /\ 1 \in DOMAIN <<w>>
  OBVIOUS
<1>3. CASE And(a)
  <2> PICK type \in {"FreeAnd", "NonFreeAnd"}, w \in Held(a), x \in Held(a), out \in Wire :
        /\ normalGate(type, a, <<w, x>>, out)
        /\ Creates(<<out>>, Products(a, IdealOf(<<w, x>>)))
    BY <1>3 DEF And
  <2> PICK ins, ideals : ins = <<w, x>> /\ ideals = Products(a, IdealOf(<<w, x>>))
    OBVIOUS
  <2>1. normalGate(type, a, ins, out) /\ Creates(<<out>>, ideals)
    OBVIOUS
  <2>2. ideals = Outputs(Gate(type, a, ins, <<out>>, myId, <<>>), IdealOf(ins))
    BY DEF Outputs, Gate
  <2>3. DOMAIN ideals = 1..1
    <3> PICK two \in Nat : two = 2
      OBVIOUS
    <3>1. DOMAIN ins = 1..two
      BY <1>2
    <3>2. Len(IdealOf(ins)) = two
      BY ONLY <3>1, two \in Nat, LengthOfIdeal
    <3>3. DOMAIN ideals = 1..two - 1
      BY <3>2 DEF Products
    <3> QED BY <3>3
  <2> QED BY <1>1, <1>2, <2>1, <2>2, <2>3, NormalGateCreates
<1>4. CASE Xor(a)
  <2> PICK w \in Held(a), x \in Held(a), out \in Wire :
        /\ normalGate("Xor", a, <<w, x>>, out)
        /\ Creates(<<out>>, <<XorOf(a, ideal[w], ideal[x])>>)
    BY <1>4 DEF Xor
  <2> PICK ins, ideals : ins = <<w, x>> /\ ideals = <<XorOf(a, ideal[w], ideal[x])>>
    OBVIOUS
  <2>1. normalGate("Xor", a, ins, out) /\ Creates(<<out>>, ideals)
    OBVIOUS
  <2>2. IdealOf(ins)[1] = ideal[w] /\ IdealOf(ins)[2] = ideal[x]
    BY DEF IdealOf
  <2>3. Outputs(Gate("Xor", a, ins, <<out>>, myId, <<>>), IdealOf(ins))
          = <<XorOf(a, IdealOf(ins)[1], IdealOf(ins)[2])>>
    BY DEF Outputs, Gate
  <2>4. DOMAIN ideals = 1..1
    BY OneValue
  <2> QED BY <1>1, <1>2, <2>1, <2>2, <2>3, <2>4, NormalGateCreates
<1>5. CASE Not(a)
  <2> PICK w \in Held(a), out \in Wire :
        /\ normalGate("Not", a, <<w>>, out)
        /\ Creates(<<out>>, <<NotOf(a, ideal[w])>>)
    BY <1>5 DEF Not
  <2> PICK ins, ideals : ins = <<w>> /\ ideals = <<NotOf(a, ideal[w])>>
    OBVIOUS
  <2>1. normalGate("Not", a, ins, out) /\ Creates(<<out>>, ideals)
    OBVIOUS
  <2>2. IdealOf(ins)[1] = ideal[w]
    BY DEF IdealOf
  <2>3. Outputs(Gate("Not", a, ins, <<out>>, myId, <<>>), IdealOf(ins))
          = <<NotOf(a, IdealOf(ins)[1])>>
    BY DEF Outputs, Gate
  <2>4. DOMAIN ideals = 1..1
    BY OneValue
  <2> QED BY <1>1, <1>2, <2>1, <2>2, <2>3, <2>4, NormalGateCreates
<1> QED BY <1>3, <1>4, <1>5

(* A composite AND creates its gate. *)
LEMMA CompositeCreates ==
  ASSUME IInv, NEW a \in {"bool", "boolBatch"}, CompositeAnd(a) PROVE Creating
<1> PICK type \in {"FreeComposite", "NonFreeComposite"}, w \in Held(a),
         n \in 1..MaxRights :
      \E rights \in [1..n -> Held(a)], outs \in FreshWires(wires, n) :
        /\ compositeGate(type, a, w, rights, outs)
        /\ Creates(outs, Products(a, IdealOf(<<w>> \o rights)))
  BY DEF CompositeAnd
<1> PICK rights \in [1..n -> Held(a)], outs \in FreshWires(wires, n) :
        /\ compositeGate(type, a, w, rights, outs)
        /\ Creates(outs, Products(a, IdealOf(<<w>> \o rights)))
  OBVIOUS
<1> PICK ins, ideals : ins = <<w>> \o rights /\ ideals = Products(a, IdealOf(<<w>> \o rights))
  OBVIOUS
<1> PICK values, sizes, m :
      /\ values = [i \in DOMAIN rights |-> Placeholder(a)]
      /\ sizes = [i \in DOMAIN rights |-> getBatchSize(w)]
      /\ m = getMaxLevel(ins)
  OBVIOUS
<1>1. newGate(Gate(type, a, ins, outs, myId, <<>>),
              getOutputLevel(isFree(type), m), values, sizes)
  BY DEF compositeGate
<1>2. Receives(outs, ideals) /\ UNCHANGED <<executionVars, engineVars>>
  BY DEF Creates
<1>3. n \in Nat /\ rights \in Seq(Held(a)) /\ DOMAIN rights = 1..n
  BY LazySchedulerAssumption
<1>4. ins \in Seq(DOMAIN wires)
  BY <1>3 DEF Held
<1>5. /\ type \in GateTypes /\ type # "Input" /\ type # "Unbatching"
      /\ type \in {"NonFreeAnd", "NonFreeComposite"} => <<type, a>> \in Queue
      /\ myId \in Party /\ a \in Allocators
  BY GatesAssumption DEF GateTypes, FreeTypes, NonFreeTypes, Queue, Allocators
<1>6. m \in Nat /\ \A x \in ElementsOf(ins) : wires[x].firstAvailableLevel <= m
  BY <1>4, MaxLevelBounds DEF IInv
<1>7. Len(values) \in Nat /\ DOMAIN values = 1..Len(values)
  BY <1>3
<1>8. ideals = Outputs(Gate(type, a, ins, outs, myId, <<>>), IdealOf(ins))
  BY DEF Outputs, Gate
<1>9. DOMAIN ideals = DOMAIN values /\ 1 \in DOMAIN ins
  <2> PICK m1 \in Nat : m1 = n + 1
    BY <1>3
  <2>1. DOMAIN ins = 1..m1
    BY <1>3
  <2>2. Len(IdealOf(ins)) = m1
    BY ONLY <2>1, m1 \in Nat, LengthOfIdeal
  <2>3. DOMAIN ideals = 1..n
    BY <1>3, <2>2 DEF Products
  <2> QED BY <1>3, <2>1, <2>3
<1> QED BY <1>1, <1>2, <1>4, <1>5, <1>6, <1>7, <1>8, <1>9, CallCreates

(* An unbatching creates its gate. *)
LEMMA UnbatchingCreates == ASSUME IInv, Unbatching PROVE Creating
<1> PICK w \in Held("boolBatch"), strategy \in Strategies :
      \E outs \in FreshWires(wires, Len(strategy)) :
        unbatching(w, strategy, outs) /\ Creates(outs, Pieces(ideal[w], strategy))
  BY DEF Unbatching
<1> PICK outs \in FreshWires(wires, Len(strategy)) :
        unbatching(w, strategy, outs) /\ Creates(outs, Pieces(ideal[w], strategy))
  OBVIOUS
<1> PICK a, type, ins, ideals, values, m :
      /\ a = "boolBatch" /\ type = "Unbatching"
      /\ ins = <<w>> /\ ideals = Pieces(ideal[w], strategy)
      /\ values = [i \in DOMAIN strategy |-> Placeholder("boolBatch")]
      /\ m = getMaxLevel(ins)
  OBVIOUS
<1>1. /\ type \in GateTypes /\ type # "Input" /\ ins \in Seq(DOMAIN wires)
      /\ myId \in Party /\ isFree(type) = TRUE /\ a \in Allocators
  BY GatesAssumption DEF GateTypes, FreeTypes, Held, isFree, Allocators
<1>2. newGate(Gate(type, a, ins, outs, myId, strategy),
              getOutputLevel(isFree(type), m), values, strategy)
  BY <1>1 DEF unbatching
<1>3. Receives(outs, ideals) /\ UNCHANGED <<executionVars, engineVars>>
  BY DEF Creates
<1>4. m \in Nat /\ \A x \in ElementsOf(ins) : wires[x].firstAvailableLevel <= m
  BY <1>1, MaxLevelBounds DEF IInv
<1>5. Len(strategy) \in Nat /\ DOMAIN strategy = 1..Len(strategy)
  BY LazySchedulerAssumption
<1>6. Len(values) \in Nat /\ DOMAIN values = 1..Len(values)
  BY <1>5
<1>7. ideals = Outputs(Gate(type, a, ins, outs, myId, strategy), IdealOf(ins))
  <2>1. IdealOf(ins)[1] = ideal[w]
    BY DEF IdealOf
  <2>2. Outputs(Gate(type, a, ins, outs, myId, strategy), IdealOf(ins))
          = Pieces(IdealOf(ins)[1], strategy)
    BY DEF Outputs, Gate
  <2> QED BY <2>1, <2>2
<1>8. DOMAIN ideals = DOMAIN values
  BY DEF Pieces
<1>9. strategy \in Seq(Nat) /\ 1 \in DOMAIN ins
      /\ type \notin {"NonFreeAnd", "NonFreeComposite"}
  BY LazySchedulerAssumption
<1> QED BY <1>1, <1>2, <1>3, <1>4, <1>6, <1>7, <1>8, <1>9, CallCreates

(* The end of a call leaves everything but the call, or, of batchingUp,    *)
(* creates the gate.                                                       *)
LEMMA ReturnCreates ==
  ASSUME IInv, Return
  PROVE  \/ call.kind = "batchingUp" /\ Creating
         \/ call.kind # "batchingUp" /\ UNCHANGED <<keeperVars, callerVars>>
<1>1. /\ ~Idle /\ UNCHANGED <<executionVars, engineVars>>
  BY DEF Return
<1>2. CASE call.kind # "batchingUp"
  BY <1>2 DEF Return
<1>3. CASE call.kind = "batchingUp"
  <2> PICK out \in Wire : /\ batchingUp(call.ins, out)
                          /\ Receives(<<out>>, <<Concatenation(IdealOf(call.ins))>>)
    BY <1>3 DEF Return
  <2> PICK a, type, ins, outs, ideals, sizes, values, m :
        /\ a = "boolBatch" /\ type = "Batching" /\ ins = call.ins /\ outs = <<out>>
        /\ ideals = <<Concatenation(IdealOf(ins))>>
        /\ sizes = <<Total([i \in DOMAIN ins |-> Len(wires[ins[i]].v)])>>
        /\ values = <<Placeholder("boolBatch")>> /\ m = getMaxLevel(ins)
    OBVIOUS
  <2>1. /\ type \in GateTypes /\ type # "Input" /\ myId \in Party
        /\ a \in Allocators /\ isFree(type) = TRUE
    BY GatesAssumption DEF GateTypes, FreeTypes, Allocators, isFree
  <2>2. newGate(Gate(type, a, ins, outs, myId, <<>>),
                getOutputLevel(isFree(type), m), values, sizes)
    BY <2>1 DEF batchingUp
  <2>3. ins \in Seq(DOMAIN wires)
    <3>1. ins \in Seq(Wire) /\ \A w \in ElementsOf(ins) : handles[w] > 0
      BY <1>1 DEF IInv, TypeOK
    <3>2. \A i \in DOMAIN ins : ins[i] \in DOMAIN wires
      BY <3>1, HeldIsStored DEF ElementsOf
    <3>3. /\ Len(ins) \in Nat /\ DOMAIN ins = 1..Len(ins)
          /\ ins \in [1..Len(ins) -> Wire]
      BY <3>1
    <3>4. PICK n \in Nat : ins \in [1..n -> DOMAIN wires]
      BY <3>2, <3>3
    <3> QED BY <3>4
  <2>4. m \in Nat /\ \A x \in ElementsOf(ins) : wires[x].firstAvailableLevel <= m
    BY <2>3, MaxLevelBounds DEF IInv
  <2>5. Len(values) \in Nat /\ DOMAIN values = 1..Len(values)
    BY OneValue
  <2>6. ideals = Outputs(Gate(type, a, ins, outs, myId, <<>>), IdealOf(ins))
    BY DEF Outputs, Gate
  <2>7. Receives(outs, ideals)
    OBVIOUS
  <2>8. DOMAIN ideals = DOMAIN values
    BY OneValue
  <2>9. Creating
    BY <1>1, <2>1, <2>2, <2>3, <2>4, <2>5, <2>6, <2>7, <2>8, CallCreates
  <2> QED BY <1>3, <2>9
<1> QED BY <1>2, <1>3

-----------------------------------------------------------------------------
(* The steps that create no gate.                                          *)

(* A step that leaves every gate where it is, or marks one that runs.      *)
LEMMA GatesUnmoved ==
  ASSUME IInv, IInv', gatesByLevelOffset' = gatesByLevelOffset,
         DOMAIN running' = DOMAIN running,
         \A i \in DOMAIN running : SameGate(running'[i], running[i])
  PROVE  Places' = Places /\ \A p \in Places' : SameGate(GateAt(p)', GateAt(p))
<1>1. TypeOK /\ IsSequence(gatesByLevelOffset')
  BY DEF IInv, TypeOK
<1>2. \A i \in DOMAIN running : Names(running'[i]) = Names(running[i])
  BY DEF SameGate, Names
<1>3. Places' = Places
  BY <1>1, <1>2, Unmoved
<1>4. \A p \in RunningPlaces : SameGate(GateAt(p)', GateAt(p))
  BY <1>1, PendingPlace, NextPendingPlace
<1>5. \A p \in PendingPlaces : GateAt(p)' = GateAt(p)
  BY <1>1, PendingPlace, NextPendingPlace
<1> QED BY <1>3, <1>4, <1>5 DEF SameGate, Places

(* Recording where a gate's results are leaves it the same gate. *)
LEMMA MarkKeepsGates ==
  ASSUME IsLevel(running), NEW n \in DOMAIN running, NEW new, Marked(new, n)
  PROVE  /\ DOMAIN new = DOMAIN running
         /\ \A i \in DOMAIN running : SameGate(new[i], running[i])
<1>1. IsGate(running[n])
  BY DEF IsLevel
<1>2. CASE \E index : new = [running EXCEPT ![n].scheduledResultIndex = index]
  BY <1>1, <1>2 DEF IsGate, SameGate
<1>3. CASE \E index, number :
             new = [running EXCEPT ![n].scheduledResultIndex = index,
                                   ![n].numberOfResults = number]
  BY <1>1, <1>3 DEF IsGate, SameGate
<1> QED BY <1>2, <1>3 DEF Marked

(* Computing a gate, an execution and collecting a result leave every gate *)
(* where it is.                                                            *)
LEMMA LoopKeepsGates ==
  ASSUME IInv, IInv', ComputeGate \/ Execute \/ CollectGate
  PROVE  /\ Places' = Places /\ \A p \in Places' : SameGate(GateAt(p)', GateAt(p))
         /\ firstUnexecutedLevel' = firstUnexecutedLevel /\ SameRecords
         /\ DOMAIN running' = DOMAIN running
<1>1. TypeOK
  BY DEF IInv
<1>2. /\ gatesByLevelOffset' = gatesByLevelOffset
      /\ firstUnexecutedLevel' = firstUnexecutedLevel
  BY DEF ComputeGate, Execute, CollectGate, keeperVars
<1>3. SameRecords
  <2>1. CASE ComputeGate
    BY <1>1, <2>1, SetValuesOnly
    DEF ComputeGate, ComputeFreeGate, ScheduleOpening, ScheduleOperation
  <2>2. CASE Execute
    BY <1>1, <2>2, SetValuesOnly DEF Execute, keeperVars
  <2>3. CASE CollectGate
    BY <1>1, <2>3, SetValuesOnly DEF CollectGate
  <2> QED BY <2>1, <2>2, <2>3
<1>4. /\ DOMAIN running' = DOMAIN running
      /\ \A i \in DOMAIN running : SameGate(running'[i], running[i])
  <2>1. CASE ComputeGate
    <3>1. position + 1 \in DOMAIN running /\ IsLevel(running)
      <4>1. IsLevel(running) /\ position \in 0..Len(running) /\ position < Len(running)
        BY <1>1, <2>1 DEF TypeOK, ComputeGate
      <4>2. Len(running) \in Nat /\ DOMAIN running = 1..Len(running)
        BY <4>1, SequenceOfItsElements DEF IsLevel, IsSequence
      <4> QED BY <4>1, <4>2
    <3>2. ComputeFreeGate(gateAtHand) \/ ScheduleOpening(gateAtHand)
            \/ ScheduleOperation(gateAtHand)
      BY <2>1 DEF ComputeGate
    <3>3. running' = running \/ Marked(running', position + 1)
      BY <3>2 DEF ComputeFreeGate, ScheduleOpening, ScheduleOperation, Marked
    <3>4. CASE running' = running
      BY <3>4 DEF SameGate
    <3>5. CASE Marked(running', position + 1)
      BY <3>1, <3>5, MarkKeepsGates
    <3> QED BY <3>3, <3>4, <3>5
  <2>2. CASE Execute \/ CollectGate
    BY <2>2 DEF Execute, CollectGate, SameGate
  <2> QED BY <2>1, <2>2
<1>5. Places' = Places /\ \A p \in Places' : SameGate(GateAt(p)', GateAt(p))
  BY <1>2, <1>4, GatesUnmoved
<1> QED BY <1>2, <1>3, <1>4, <1>5

(* So they keep the order. *)
LEMMA LoopKeepsOrder ==
  ASSUME IInv, IInv', OrderInv, ComputeGate \/ Execute \/ CollectGate
  PROVE  OrderInv'
BY LoopKeepsGates, GatesStay DEF SameRecords

(* Destroying the gates of a level leaves the others where they are. *)
LEMMA DestroyKeepsGates ==
  ASSUME IInv, IInv', DestroyGates
  PROVE  /\ Places' = PendingPlaces /\ Places' \subseteq Places
         /\ \A p \in Places' : SameGate(GateAt(p)', GateAt(p))
<1>1. TypeOK
  BY DEF IInv
<1>2. gatesByLevelOffset' = gatesByLevelOffset /\ running' = <<>>
  BY DEF DestroyGates
<1>3. IsSequence(gatesByLevelOffset')
  BY DEF IInv, TypeOK
<1>4. DOMAIN running' = {}
  BY <1>2, EmptySequence
<1>5. \A p \in Places' : p \in PendingPlaces /\ GateAt(p)' = GateAt(p)
  BY <1>1, <1>2, <1>3, <1>4, PendingPlace, NextPendingPlace DEF Places
<1>6. PendingPlaces \subseteq Places'
  BY <1>1, <1>2, <1>3, PendingPlace, NextPendingPlace DEF Places
<1> QED BY <1>5, <1>6 DEF Places, SameGate

(* So it keeps the order of the others. *)
LEMMA DestroyKeepsOrder ==
  ASSUME IInv, IInv', OrderInv, DestroyGates PROVE OrderInv'
<1>1. TypeOK
  BY DEF IInv
<1>2. firstUnexecutedLevel' = firstUnexecutedLevel
  BY DEF DestroyGates
<1>3. \A w \in DOMAIN wires' :
        /\ w \in DOMAIN wires
        /\ wires'[w].firstAvailableLevel = wires[w].firstAvailableLevel
  <2> PICK times : wires' = decreaseReferenceCounts(wires, times)
    BY DEF DestroyGates
  <2> QED BY <1>1, DecreasedStore DEF LosesReferences
<1> QED BY <1>2, <1>3, DestroyKeepsGates, GatesStay

(* Copying a reference, or giving one back, keeps the order. *)
LEMMA ReferencesKeepOrder ==
  ASSUME IInv, IInv', OrderInv, IncreaseReferenceCount \/ DecreaseReferenceCount
  PROVE  OrderInv'
<1>1. TypeOK
  BY DEF IInv
<1>2. /\ gatesByLevelOffset' = gatesByLevelOffset /\ running' = running
      /\ firstUnexecutedLevel' = firstUnexecutedLevel
  BY DEF IncreaseReferenceCount, DecreaseReferenceCount, executionVars
<1>3. \A w \in DOMAIN wires' :
        /\ w \in DOMAIN wires
        /\ wires'[w].firstAvailableLevel = wires[w].firstAvailableLevel
  <2>1. CASE IncreaseReferenceCount
    <3> PICK times : wires' = increaseReferenceCounts(wires, times)
      BY <2>1 DEF IncreaseReferenceCount
    <3>1. \A w \in DOMAIN wires : DOMAIN wires[w] = WireFields
      BY <1>1 DEF TypeOK, WireFields
    <3>2. /\ DOMAIN wires' = DOMAIN wires
          /\ \A w \in DOMAIN wires :
               wires'[w] = [wires[w] EXCEPT !.referenceCount = @ + times[w]]
      BY DEF increaseReferenceCounts
    <3> QED BY <3>1, <3>2 DEF WireFields
  <2>2. CASE DecreaseReferenceCount
    <3> PICK times : wires' = decreaseReferenceCounts(wires, times)
      BY <2>2 DEF DecreaseReferenceCount
    <3> QED BY <1>1, DecreasedStore DEF LosesReferences
  <2> QED BY <2>1, <2>2
<1>4. Places' = Places /\ \A p \in Places' : SameGate(GateAt(p)', GateAt(p))
  BY <1>2, GatesUnmoved DEF SameGate
<1> QED BY <1>2, <1>3, <1>4, GatesStay

(* Steps that leave the keeper and the running gates alone. *)
LEMMA QuietKeepsOrder ==
  ASSUME IInv, IInv', OrderInv, UNCHANGED <<keeperVars, running>>
  PROVE  OrderInv'
<1>1. /\ gatesByLevelOffset' = gatesByLevelOffset /\ running' = running
      /\ firstUnexecutedLevel' = firstUnexecutedLevel /\ wires' = wires
  BY DEF keeperVars
<1>2. Places' = Places /\ \A p \in Places' : SameGate(GateAt(p)', GateAt(p))
  BY <1>1, GatesUnmoved DEF SameGate
<1> QED BY <1>1, <1>2, GatesStay

(* What a step is, by what it does to the gates; Quiet steps do nothing.    *)
Quiet == UNCHANGED <<keeperVars, executionVars, engineVars, callerVars>>

LEMMA StepKinds ==
  ASSUME IInv, [Next]_vars
  PROVE  \/ Creating \/ PopLevel \/ ComputeGate \/ Execute \/ CollectGate
         \/ DestroyGates \/ IncreaseReferenceCount \/ DecreaseReferenceCount
         \/ Quiet
<1>1. ASSUME NEW a \in Allocators, Input(a) PROVE Creating
  BY <1>1, InputCreates
<1>2. ASSUME NEW a \in Allocators, Open(a) PROVE Creating
  BY <1>2, OpenCreates
<1>3. ASSUME NEW a \in Allocators, And(a) \/ Xor(a) \/ Not(a) PROVE Creating
  BY <1>3, LocalCreates
<1>4. ASSUME NEW a \in {"bool", "boolBatch"}, CompositeAnd(a) PROVE Creating
  BY <1>4, CompositeCreates
<1>5. Unbatching => Creating
  BY UnbatchingCreates
<1>6. Return => Creating \/ Quiet
  BY ReturnCreates DEF Return, Quiet
<1>7. ASSUME NEW a \in Allocators, forceWire(a) PROVE Quiet
  BY <1>7 DEF forceWire, Quiet
<1>8. BatchingUp => Quiet
  BY DEF BatchingUp, Quiet
<1>9. UNCHANGED vars => Quiet
  BY DEF vars, Quiet
<1> QED BY <1>1, <1>2, <1>3, <1>4, <1>5, <1>6, <1>7, <1>8, <1>9 DEF Next, Internal

(* Every step keeps the order. *)
LEMMA NextOrder == ASSUME IInv, IInv', OrderInv, [Next]_vars PROVE OrderInv'
<1>1. Quiet => UNCHANGED <<keeperVars, running>>
  BY DEF Quiet, executionVars
<1> QED BY <1>1, StepKinds, CreationKeepsOrder, PopKeepsOrder, LoopKeepsOrder,
           DestroyKeepsOrder, ReferencesKeepOrder, QuietKeepsOrder

(* A new scheduler has no gates. *)
LEMMA InitOrder == ASSUME Init PROVE OrderInv
<1>1. gatesByLevelOffset = <<>> /\ running = <<>>
  BY DEF Init, GateKeeperInit
<1>2. \A p : p \notin Places
  BY <1>1, EmptySequence DEF Places, PendingPlaces, RunningPlaces, LevelPlaces, Level
<1> QED BY <1>2 DEF OrderInv, OutputsHere, OperandsBefore, KindsApart, TopologicalOrder

-----------------------------------------------------------------------------
(* The batching limit.                                                     *)

(* Only a call that has just created a gate can have left more than one    *)
(* gate over the limit: the loop that follows takes levels away until the  *)
(* limit is kept, and the other calls start from there.                    *)
LimitInv == call.kind # "limit" => numUnexecutedGates <= MaxUnexecutedGates + 1

(* Taking a level takes its gates off the counter. *)
LEMMA PoppedGates ==
  ASSUME IInv, PopLevel
  PROVE  /\ Len(Head(gatesByLevelOffset)) \in Nat
         /\ numUnexecutedGates' = numUnexecutedGates - Len(Head(gatesByLevelOffset))
         /\ numUnexecutedGates' <= numUnexecutedGates
<1>1. gatesByLevelOffset # <<>>
  BY LevelsFound DEF ForceFindsLevel, LimitFindsLevel, PopLevel, IInv, TypeOK, Idle
<1>2. /\ DOMAIN gatesByLevelOffset = 1..Len(gatesByLevelOffset)
      /\ Len(gatesByLevelOffset) \in Nat \ {0}
      /\ Head(gatesByLevelOffset) = gatesByLevelOffset[1]
  BY <1>1, TailShifts, SequenceOfItsElements DEF IInv, TypeOK, IsSequence
<1>3. IsLevel(gatesByLevelOffset[1])
  BY <1>2 DEF IInv, TypeOK
<1>4. Len(Head(gatesByLevelOffset)) \in Nat
  BY <1>2, <1>3, SequenceOfItsElements DEF IsLevel, IsSequence
<1> PICK n \in Nat : n = Len(Head(gatesByLevelOffset))
  BY <1>4
<1>5. numUnexecutedGates' = numUnexecutedGates - n
  BY DEF PopLevel, popFirstUnexecutedLevel
<1>6. numUnexecutedGates \in Nat
  BY DEF IInv, TypeOK
<1> QED BY <1>5, <1>6

(* Every step keeps the limit. *)
LEMMA NextLimit == ASSUME IInv, LimitInv, [Next]_vars PROVE LimitInv'
<1>1. numUnexecutedGates \in Nat /\ MaxUnexecutedGates \in Nat
  BY GateKeeperAssumption DEF IInv, TypeOK
<1>2. ASSUME NEW a \in Allocators,
             Input(a) \/ Open(a) \/ And(a) \/ Xor(a) \/ Not(a) \/ CompositeAnd(a)
      PROVE  call'.kind = "limit"
  <2>1. \A outs, ideals : Creates(outs, ideals) => call'.kind = "limit"
    BY DEF Creates, Becomes
  <2>2. CASE Input(a) \/ Open(a)
    BY <2>1, <2>2 DEF Input, Open
  <2>3. CASE And(a)
    BY <2>1, <2>3 DEF And
  <2>4. CASE Xor(a) \/ Not(a)
    BY <2>1, <2>4 DEF Xor, Not
  <2>5. CASE CompositeAnd(a)
    BY <2>1, <2>5 DEF CompositeAnd
  <2> QED BY <1>2, <2>2, <2>3, <2>4, <2>5
<1>3. Unbatching => call'.kind = "limit"
  BY DEF Unbatching, Creates, Becomes
<1>4. ASSUME NEW a \in Allocators, forceWire(a)
      PROVE  call.kind = "idle" /\ numUnexecutedGates' = numUnexecutedGates
  BY <1>4 DEF forceWire, Idle, keeperVars
<1>5. BatchingUp \/ IncreaseReferenceCount \/ DecreaseReferenceCount
        => call.kind = "idle" /\ numUnexecutedGates' = numUnexecutedGates
  BY DEF BatchingUp, MayCreate, IncreaseReferenceCount, DecreaseReferenceCount, Idle,
         keeperVars
<1>6. PopLevel => call' = call /\ numUnexecutedGates' <= numUnexecutedGates
  BY PoppedGates DEF PopLevel
<1>7. ComputeGate \/ Execute \/ CollectGate \/ DestroyGates \/ UNCHANGED vars
        => call' = call /\ numUnexecutedGates' = numUnexecutedGates
  BY DEF ComputeGate, Execute, CollectGate, DestroyGates, vars, keeperVars
<1>8. Return => numUnexecutedGates' <= MaxUnexecutedGates + 1
  <2> SUFFICES ASSUME Return PROVE numUnexecutedGates' <= MaxUnexecutedGates + 1
    OBVIOUS
  <2>1. CASE call.kind = "force"
    BY <1>1, <2>1 DEF Return, LimitInv, keeperVars
  <2>2. CASE call.kind # "force"
    <3>1. numUnexecutedGates <= MaxUnexecutedGates
      BY <1>1, <2>2 DEF Return, LoopContinues, hasReachedBatchingLimit
    <3>2. \/ numUnexecutedGates' = numUnexecutedGates
          \/ numUnexecutedGates' = numUnexecutedGates + 1
      BY DEF Return, keeperVars, batchingUp, newGate
    <3> QED BY <1>1, <3>1, <3>2
  <2> QED BY <2>1, <2>2
<1>9. \A a \in {"bool", "boolBatch"} : a \in Allocators
  BY DEF Allocators
<1>10. PopLevel => LimitInv'
  <2> SUFFICES ASSUME PopLevel PROVE LimitInv'
    OBVIOUS
  <2>1. numUnexecutedGates' \in Int
    BY DEF PopLevel, popFirstUnexecutedLevel
  <2> QED BY <1>1, <1>6, <2>1 DEF LimitInv
<1> QED BY <1>1, <1>2, <1>3, <1>4, <1>5, <1>7, <1>8, <1>9, <1>10
        DEF Next, Internal, LimitInv

-----------------------------------------------------------------------------
(* The theorems.                                                           *)

(* The invariant about the levels holds in every state of LazyScheduler. *)
THEOREM OrderInvariance == Spec => []OrderInv
<1>1. Init => OrderInv
  BY InitOrder
<1>2. IInv /\ IInv' /\ OrderInv /\ [Next]_vars => OrderInv'
  BY NextOrder
<1> QED BY <1>1, <1>2, Invariance, PTL DEF Spec

(* GateKeeper::getOutputLevel never puts a gate that needs the other       *)
(* parties on a level of local gates, nor the other way round.             *)
THEOREM LevelsArePure == Spec => []LevelPurity
<1>1. IInv /\ OrderInv => LevelPurity
  <2> SUFFICES ASSUME IInv, OrderInv, NEW p \in Places
               PROVE  isFree(GateAt(p).type) <=>
                        IF p[1] = 0 THEN runningLevelIsFree
                        ELSE isLevelFree(firstUnexecutedLevel + p[1] - 1)
    BY DEF LevelPurity
  <2>1. isFree(GateAt(p).type) <=> isLevelFree(firstUnexecutedLevel + p[1] - 1)
    BY DEF OrderInv, KindsApart, AbsoluteLevel
  <2>2. p[1] = 0 => firstUnexecutedLevel + p[1] - 1 = firstUnexecutedLevel - 1
    BY DEF IInv, TypeOK
  <2> QED BY <2>1, <2>2 DEF runningLevelIsFree
<1> QED BY <1>1, Invariance, OrderInvariance, PTL

(* Every gate runs when its operands are there: after the levels of the    *)
(* gates that write them, or, when all are local, later on one level.      *)
THEOREM OperandsComeFirst == Spec => []TopologicalOrder
<1>1. OrderInv => TopologicalOrder
  BY DEF OrderInv
<1> QED BY <1>1, OrderInvariance, PTL

(* maybeExecuteGates keeps the number of gates that wait between calls at  *)
(* most one over kMaxUnexecutedGates.                                      *)
THEOREM LimitKept == Spec => []BatchingLimit
<1>1. Init => LimitInv
  BY GateKeeperAssumption DEF Init, GateKeeperInit, LimitInv
<1>2. IInv /\ LimitInv /\ [Next]_vars => LimitInv'
  BY NextLimit
<1>3. LimitInv => BatchingLimit
  BY DEF LimitInv, BatchingLimit, Idle
<1> QED BY <1>1, <1>2, <1>3, Invariance, PTL DEF Spec

-----------------------------------------------------------------------------
(* The operators of Gates: a gate that is given sequences answers with     *)
(* sequences.                                                              *)

(* A function on the first numbers is a sequence. *)
LEMMA IndexedSequence ==
  ASSUME NEW s, NEW n \in Nat, s = [i \in 1..n |-> s[i]]
  PROVE  IsSequence(s) /\ Len(s) = n /\ DOMAIN s = 1..n
<1>1. DOMAIN s = 1..n
  OBVIOUS
<1>2. \A i \in 1..n : s[i] \in ElementsOf(s)
  BY <1>1 DEF ElementsOf
<1>3. s \in [1..n -> ElementsOf(s)]
  BY <1>2
<1>4. s \in Seq(ElementsOf(s)) /\ Len(s) = n
  BY <1>3
<1> QED BY <1>1, <1>4 DEF IsSequence

(* The largest element, as FoldLeft chooses it. *)
Top(S) == CHOOSE x \in S : \A y \in S : x >= y

(* The recursive function that Total folds with. *)
Sums(s) ==
  CHOOSE f : f = [t \in SUBSET DOMAIN s |->
                    IF t = {} THEN 0 ELSE f[t \ {Top(t)}] + s[Top(t)]]

(* Total is that function on the whole domain. *)
LEMMA TotalIsSum == ASSUME NEW s PROVE Total(s) = Sums(s)[DOMAIN s]
BY DEF Total, Sums, Top, Seqs!FoldLeft, Seqs!MapThenFoldSet, Seqs!Max

(* There is such a function. *)
LEMMA SumsExist ==
  ASSUME NEW s, NEW n \in Nat, DOMAIN s = 1..n
  PROVE  Sums(s) = [t \in SUBSET (1..n) |->
                      IF t = {} THEN 0 ELSE Sums(s)[t \ {Top(t)}] + s[Top(t)]]
<1> DEFINE Is(f, m) == f = [t \in SUBSET (1..m) |->
                              IF t = {} THEN 0 ELSE f[t \ {Top(t)}] + s[Top(t)]]
           N == {m \in Nat : \E f : Is(f, m)}
<1>1. 0 \in N
  <2> DEFINE f == [t \in SUBSET (1..0) |-> 0]
  <2>1. \A t \in SUBSET (1..0) : t = {}
    OBVIOUS
  <2>2. Is(f, 0)
    BY <2>1
  <2> QED BY <2>2
<1>2. ASSUME NEW m \in N PROVE m + 1 \in N
  <2> PICK f : Is(f, m)
    BY <1>2
  <2> DEFINE g == [t \in SUBSET (1..m + 1) |->
                     IF t \in SUBSET (1..m) THEN f[t] ELSE f[t \ {m + 1}] + s[m + 1]]
             b == [t \in SUBSET (1..m + 1) |->
                     IF t = {} THEN 0 ELSE g[t \ {Top(t)}] + s[Top(t)]]
  <2>1. m \in Nat /\ 1..m \subseteq 1..m + 1
    BY <1>2
  <2>2. ASSUME NEW t \in SUBSET (1..m) PROVE g[t] = b[t]
    <3>1. t \in SUBSET (1..m + 1) /\ t \ {Top(t)} \in SUBSET (1..m)
      BY <2>1
    <3>2. t \ {Top(t)} \in SUBSET (1..m + 1)
      BY <2>1, <3>1
    <3>3. g[t] = f[t] /\ g[t \ {Top(t)}] = f[t \ {Top(t)}]
      BY <3>1, <3>2
    <3>4. f[t] = IF t = {} THEN 0 ELSE f[t \ {Top(t)}] + s[Top(t)]
      OBVIOUS
    <3> HIDE DEF g
    <3> QED BY <3>1, <3>3, <3>4
  <2>3. ASSUME NEW t \in SUBSET (1..m + 1), t \notin SUBSET (1..m) PROVE g[t] = b[t]
    <3>1. m + 1 \in t
      BY <2>1, <2>3
    <3>2. Top(t) = m + 1
      <4>1. \A y \in t : y \in Int /\ m + 1 >= y
        BY <2>1
      <4>2. \A x \in t : (\A y \in t : x >= y) => x = m + 1
        BY <2>1, <3>1, <4>1
      <4>3. Top(t) \in t /\ \A y \in t : Top(t) >= y
        BY <3>1, <4>1 DEF Top
      <4> QED BY <4>2, <4>3
    <3>3. t \ {m + 1} \in SUBSET (1..m) /\ t \ {m + 1} \in SUBSET (1..m + 1) /\ t # {}
      BY <2>1, <3>1
    <3>4. g[t \ {m + 1}] = f[t \ {m + 1}]
      BY <3>3
    <3>5. g[t] = f[t \ {m + 1}] + s[m + 1]
      BY <2>3
    <3> HIDE DEF g
    <3> QED BY <3>2, <3>3, <3>4, <3>5
  <2>4. g = b
    <3>1. \A t \in SUBSET (1..m + 1) : g[t] = b[t]
      BY <2>2, <2>3
    <3> QED BY <3>1
  <2>5. Is(g, m + 1)
    BY <2>4
  <2>6. m + 1 \in Nat
    BY <2>1
  <2> HIDE DEF Is
  <2> QED BY <2>5, <2>6
<1>3. N \in SUBSET Nat
  OBVIOUS
<1>4. n \in N
  <2>1. \A m \in N : m + 1 \in N
    BY <1>2
  <2> HIDE DEF N
  <2>2. \A m \in Nat : m \in N
    BY <1>1, <1>3, <2>1, NatInduct
  <2> QED BY <2>2
<1>5. PICK f : Is(f, n)
  BY <1>4
<1> QED BY <1>5 DEF Sums

(* The total of sizes is a number. *)
LEMMA TotalType ==
  ASSUME NEW s, NEW n \in Nat, DOMAIN s = 1..n, \A i \in 1..n : s[i] \in Nat
  PROVE  Total(s) \in Nat
<1> PICK f : f = Sums(s)
  OBVIOUS
<1>1. f = [t \in SUBSET (1..n) |-> IF t = {} THEN 0 ELSE f[t \ {Top(t)}] + s[Top(t)]]
  BY SumsExist, ZenonT(30)
<1> DEFINE N == {m \in Nat : m <= n => f[1..m] \in Nat}
<1>2. 0 \in N
  <2>1. 1..0 = {} /\ {} \in SUBSET (1..n)
    OBVIOUS
  <2>2. f[{}] = 0
    BY <1>1, <2>1
  <2> QED BY <2>1, <2>2
<1>3. ASSUME NEW m \in N PROVE m + 1 \in N
  <2> SUFFICES ASSUME m + 1 <= n PROVE f[1..m + 1] \in Nat
    BY <1>3
  <2>1. m \in Nat /\ 1..m + 1 \in SUBSET (1..n) /\ 1..m + 1 # {}
    <3>1. m \in Nat
      OBVIOUS
    <3>2. 1..m + 1 \subseteq 1..n /\ 1 \in 1..m + 1
      BY ONLY <3>1, m + 1 <= n, n \in Nat
    <3> QED BY <3>1, <3>2
  <2>2. Top(1..m + 1) = m + 1
    <3>1. m + 1 \in 1..m + 1 /\ \A y \in 1..m + 1 : m + 1 >= y
      BY <2>1
    <3>2. \A x \in 1..m + 1 : (\A y \in 1..m + 1 : x >= y) => x = m + 1
      BY <2>1, <3>1
    <3>3. Top(1..m + 1) \in 1..m + 1 /\ \A y \in 1..m + 1 : Top(1..m + 1) >= y
      BY <3>1 DEF Top
    <3> QED BY <3>2, <3>3
  <2>3. (1..m + 1) \ {m + 1} = 1..m
    BY <2>1
  <2>4. f[1..m + 1] = f[1..m] + s[m + 1]
    BY <1>1, <2>1, <2>2, <2>3
  <2>5. f[1..m] \in Nat
    BY <1>3, <2>1
  <2>6. s[m + 1] \in Nat
    BY <2>1
  <2> QED BY <2>4, <2>5, <2>6
<1>4. N \in SUBSET Nat
  OBVIOUS
<1>5. n \in N
  <2>1. \A m \in N : m + 1 \in N
    BY <1>3
  <2> HIDE DEF N
  <2>2. \A m \in Nat : m \in N
    BY <1>2, <1>4, <2>1, NatInduct
  <2> QED BY <2>2
<1>6. f[1..n] \in Nat
  BY <1>5
<1> QED BY <1>6, TotalIsSum

(* Concatenation is the last value of that function. *)
LEMMA ConcatenationIsJoin ==
  ASSUME NEW s
  PROVE  Concatenation(s) = IF Len(s) = 0 THEN s ELSE Joins(s)[Len(s)]
BY DEF Concatenation, Joins, Seqs!FlattenSeq

(* The concatenation of sequences is a sequence. *)
LEMMA ConcatenationType ==
  ASSUME NEW s, NEW n \in Nat, DOMAIN s = 1..n, Len(s) = n, s = [i \in 1..n |-> s[i]],
         \A i \in 1..n : IsSequence(s[i])
  PROVE  IsSequence(Concatenation(s))
<1>1. CASE n = 0
  <2>1. IsSequence(s)
    BY IndexedSequence
  <2> QED BY <1>1, <2>1, ConcatenationIsJoin
<1>2. CASE n # 0
  <2> PICK f : f = Joins(s)
    OBVIOUS
  <2>1. f = [i \in 1..n |-> IF i = 1 THEN s[i] ELSE f[i - 1] \o s[i]]
    <3>1. Joins(s) = [i \in 1..n |-> IF i = 1 THEN s[i] ELSE Joins(s)[i - 1] \o s[i]]
      BY JoinsExist
    <3> QED BY ONLY <3>1, f = Joins(s)
  <2> DEFINE N == {m \in Nat : m \in 1..n => IsSequence(f[m])}
  <2>2. 0 \in N
    OBVIOUS
  <2>3. ASSUME NEW m \in N PROVE m + 1 \in N
    <3>1. m \in Nat
      BY <2>3
    <3> SUFFICES ASSUME m + 1 \in 1..n PROVE IsSequence(f[m + 1])
      BY <3>1
    <3> PICK k : k = m + 1
      OBVIOUS
    <3>2. f[k] = IF k = 1 THEN s[k] ELSE f[k - 1] \o s[k]
      BY <2>1
    <3>3. CASE k = 1
      BY <3>2, <3>3
    <3>4. CASE k # 1
      <4>1. k - 1 = m /\ m \in 1..n
        BY <3>1, <3>4
      <4>2. IsSequence(f[m]) /\ IsSequence(s[k])
        BY <2>3, <4>1
      <4>3. f[k] = f[m] \o s[k]
        BY <3>2, <3>4, <4>1
      <4>4. f[m] \o s[k] \in Seq(ElementsOf(f[m]) \cup ElementsOf(s[k]))
        <5> PICK x, y : x = f[m] /\ y = s[k]
          OBVIOUS
        <5> PICK A, B, C : A = ElementsOf(x) /\ B = ElementsOf(y) /\ C = A \cup B
          OBVIOUS
        <5>1. x \in Seq(A) /\ y \in Seq(B)
          BY <4>2 DEF IsSequence
        <5>2. x \in Seq(C) /\ y \in Seq(C)
          BY <5>1
        <5>3. x \o y \in Seq(C)
          BY <5>2
        <5> QED BY <5>3
      <4> QED BY <4>3, <4>4, SequenceOfItsElements
    <3> QED BY <3>3, <3>4
  <2>4. N \in SUBSET Nat
    OBVIOUS
  <2>5. n \in N
    <3>1. \A m \in N : m + 1 \in N
      BY <2>3
    <3> HIDE DEF N
    <3>2. \A m \in Nat : m \in N
      BY <2>2, <2>4, <3>1, NatInduct
    <3> QED BY <3>2
  <2>6. IsSequence(f[n])
    BY <1>2, <2>5
  <2> QED BY <1>2, <2>6, ConcatenationIsJoin
<1> QED BY <1>1, <1>2

(* The element-wise operations answer with sequences. *)
LEMMA ElementwiseType ==
  ASSUME NEW x, IsSequence(x)
  PROVE  /\ \A a : IsSequence(NotOf(a, x))
         /\ \A a, y : IsSequence(XorOf(a, x, y)) /\ IsSequence(AndOf(a, x, y))
         /\ IsSequence(ZerosLike(x)) /\ Len(ZerosLike(x)) = Len(x)
         /\ DOMAIN ZerosLike(x) = DOMAIN x
<1> PICK n \in Nat : n = Len(x) /\ DOMAIN x = 1..n
  BY SequenceOfItsElements DEF IsSequence
<1>1. ASSUME NEW a PROVE IsSequence(NotOf(a, x))
  <2> PICK s : s = NotOf(a, x)
    OBVIOUS
  <2>1. s = [i \in 1..n |-> s[i]]
    BY DEF NotOf
  <2> QED BY <2>1, IndexedSequence
<1>2. ASSUME NEW a, NEW y PROVE IsSequence(XorOf(a, x, y))
  <2> PICK s : s = XorOf(a, x, y)
    OBVIOUS
  <2>1. s = [i \in 1..n |-> s[i]]
    BY DEF XorOf
  <2> QED BY <2>1, IndexedSequence
<1>3. ASSUME NEW a, NEW y PROVE IsSequence(AndOf(a, x, y))
  <2> PICK s : s = AndOf(a, x, y)
    OBVIOUS
  <2>1. s = [i \in 1..n |-> s[i]]
    BY DEF AndOf
  <2> QED BY <2>1, IndexedSequence
<1>4. IsSequence(ZerosLike(x)) /\ Len(ZerosLike(x)) = n /\ DOMAIN ZerosLike(x) = 1..n
  <2> PICK s : s = ZerosLike(x)
    OBVIOUS
  <2>1. s = [i \in 1..n |-> s[i]]
    BY DEF ZerosLike
  <2> QED BY <2>1, IndexedSequence
<1> QED BY <1>1, <1>2, <1>3, <1>4

(* A piece of a sequence is a sequence. *)
LEMMA SubSeqType ==
  ASSUME NEW x, NEW m \in Int, NEW n \in Int, m <= n + 1
  PROVE  IsSequence(SubSeq(x, m, n)) /\ Len(SubSeq(x, m, n)) = n - m + 1
<1>0. 1 + n - m \in Nat
  OBVIOUS
<1> PICK k \in Nat : k = 1 + n - m
  BY <1>0
<1> PICK s : s = SubSeq(x, m, n)
  OBVIOUS
<1>1. s = [i \in 1..k |-> s[i]]
  BY SMTT(30)
<1> QED BY <1>1, IndexedSequence

(* The pieces of a sequence are sequences. *)
LEMMA PiecesType ==
  ASSUME NEW x, NEW sizes \in Seq(Nat), NEW j \in DOMAIN sizes
  PROVE  IsSequence(Pieces(x, sizes)[j])
<1> PICK before : before = SubSeq(sizes, 1, j - 1)
  OBVIOUS
<1> PICK n \in Nat : n = j - 1
  OBVIOUS
<1>1. DOMAIN before = 1..n /\ \A i \in 1..n : before[i] \in Nat
  OBVIOUS
<1> PICK start : start = Total(before)
  OBVIOUS
<1>2. start \in Nat
  BY <1>1, TotalType
<1>3. Pieces(x, sizes)[j] = SubSeq(x, start + 1, start + sizes[j])
  BY DEF Pieces
<1> PICK first \in Int, last \in Int : first = start + 1 /\ last = start + sizes[j]
  BY <1>2
<1>4. first <= last + 1
  BY <1>2
<1>5. IsSequence(SubSeq(x, first, last))
  BY <1>4, SubSeqType
<1> QED BY <1>3, <1>5

(* A gate that is given sequences answers with sequences. *)
LEMMA OutputsType ==
  ASSUME NEW gate, IsGate(gate), WellFormed(gate), gate.type # "Input",
         NEW in, DOMAIN in = DOMAIN gate.ins, in = [i \in DOMAIN in |-> in[i]],
         \A i \in DOMAIN in : IsSequence(in[i]),
         NEW j \in DOMAIN Outputs(gate, in)
  PROVE  IsSequence(Outputs(gate, in)[j])
<1> PICK n \in Nat : DOMAIN in = 1..n /\ Len(in) = n
  <2>1. gate.ins \in Seq(Wire)
    BY DEF IsGate
  <2> QED BY <2>1
<1> PICK out : out = Outputs(gate, in)
  OBVIOUS
<1>1. \A v : DOMAIN <<v>> = 1..1 /\ <<v>>[1] = v
  OBVIOUS
<1>2. CASE gate.type \in {"Not", "Xor", "Output"}
  <2>1. IsSequence(in[1])
    BY <1>2 DEF WellFormed
  <2>2. \/ out = <<NotOf(gate.allocator, in[1])>>
        \/ out = <<XorOf(gate.allocator, in[1], in[2])>>
        \/ out = <<RevealedTo(gate.party, in[1])>>
    BY <1>2 DEF Outputs
  <2>3. IsSequence(RevealedTo(gate.party, in[1]))
    BY <2>1, ElementwiseType DEF RevealedTo
  <2>4. PICK v : out = <<v>> /\ IsSequence(v)
    BY <2>1, <2>2, <2>3, ElementwiseType
  <2>5. j = 1
    BY <1>1, <2>4
  <2> QED BY <1>1, <2>4, <2>5
<1>3. CASE gate.type \in {"FreeAnd", "NonFreeAnd", "FreeComposite", "NonFreeComposite"}
  <2>1. IsSequence(in[1])
    BY <1>3 DEF WellFormed
  <2>2. out = Products(gate.allocator, in)
    BY <1>3 DEF Outputs
  <2>3. j \in DOMAIN out /\ out[j] = AndOf(gate.allocator, in[1], in[j + 1])
    BY <2>2, SMTT(30) DEF Products
  <2>4. IsSequence(AndOf(gate.allocator, in[1], in[j + 1]))
    BY <2>1, ElementwiseType
  <2> QED BY <2>3, <2>4
<1>4. CASE gate.type = "Batching"
  <2>1. out = <<Concatenation(in)>>
    BY <1>4 DEF Outputs
  <2>2. IsSequence(Concatenation(in))
    BY ConcatenationType
  <2> QED BY <1>1, <2>1, <2>2
<1>5. CASE gate.type = "Unbatching"
  <2>1. out = Pieces(in[1], gate.sizes) /\ gate.sizes \in Seq(Nat)
    BY <1>5 DEF Outputs, WellFormed
  <2>2. j \in DOMAIN gate.sizes
    BY <2>1 DEF Pieces
  <2> QED BY <2>1, <2>2, PiecesType
<1>6. gate.type \in GateTypes
  BY DEF IsGate
<1> QED BY <1>2, <1>3, <1>4, <1>5, <1>6 DEF GateTypes, FreeTypes, NonFreeTypes

-----------------------------------------------------------------------------
(* The invariant.                                                          *)

(* The values that a function gives the wires of a sequence. *)
ValuesOf(values, ids) == [i \in DOMAIN ids |-> values[ids[i]]]

(* A gate's wires should hold what it computes from what its operands      *)
(* should hold; those of an input do already.                              *)
GateComputes(gate, ws, values) ==
  \A w \in ElementsOf(gate.outs) :
    IF gate.type = "Input" THEN ws[w].v = values[w]
    ELSE values[w] = Outputs(gate, ValuesOf(values, gate.ins))[PositionOf(gate.outs, w)]
PlacesCompute ==
  \A p \in Places : WellFormed(GateAt(p)) /\ GateComputes(GateAt(p), wires, ideal)

(* The values that wires should have are sequences. *)
SequenceValues == \A w \in DOMAIN ideal : IsSequence(ideal[w])

(* The gate's part of the sequence s is x. *)
Slice(s, gate, x) ==
  /\ gate.scheduledResultIndex \in Nat /\ gate.numberOfResults = Len(x)
  /\ gate.scheduledResultIndex + Len(x) <= Len(s)
  /\ \A k \in DOMAIN x : s[gate.scheduledResultIndex + k] = x[k]

(* An AND of empty batches is not handed to the engine. *)
Skipped(gate, operands) == gate.type = "NonFreeAnd" /\ operands[1] = <<>>

(* The operands of the gate are in the engine's queue, or among the        *)
(* secrets the level opens, at the place the gate remembers.               *)
IsScheduled(gate, operands, secrets, operations) ==
  /\ gate.type = "Output" =>
       Slice(secrets[gate.party][isBoolean(gate.allocator)], gate, operands[1])
  /\ Skipped(gate, operands) => gate.scheduledResultIndex \in UnsetIndex
  /\ gate.type # "Output" /\ ~Skipped(gate, operands) =>
       /\ gate.scheduledResultIndex + 1 \in DOMAIN operations[QueueOf(gate)]
       /\ operations[QueueOf(gate)][gate.scheduledResultIndex + 1] = operands

(* The results of the gate are at the place it remembers. *)
HasResult(gate, operands, secrets, results) ==
  /\ gate.type = "Output" =>
       Slice(secrets[gate.party][isBoolean(gate.allocator)], gate,
             RevealedTo(gate.party, operands[1]))
  /\ Skipped(gate, operands) => gate.scheduledResultIndex \in UnsetIndex
  /\ gate.type # "Output" /\ ~Skipped(gate, operands) =>
       /\ gate.scheduledResultIndex + 1 \in DOMAIN results[QueueOf(gate)]
       /\ results[QueueOf(gate)][gate.scheduledResultIndex + 1] = Outputs(gate, operands)

(* What a level that needs the other parties has come to. *)
Underway ==
  /\ phase = "compute" /\ ~runningLevelIsFree =>
       \A i \in 1..position :
         IsScheduled(running[i], ValuesOf(ideal, running[i].ins), secretSharesByParty,
                     scheduled)
  /\ phase = "collect" =>
       /\ ~runningLevelIsFree
       /\ \A i \in DOMAIN running :
            HasResult(running[i], ValuesOf(ideal, running[i].ins),
                      revealedSecretsByParty, executionResults)
       /\ \A q \in Queue : DOMAIN executionResults[q] \subseteq 1..Len(running)
  /\ phase = "thrown" =>
       position \in DOMAIN running
         /\ Skipped(running[position], ValuesOf(ideal, running[position].ins))

(* The engine holds the operations of the level being computed only. *)
QueuesFit ==
  \A q \in Queue :
    /\ IsSequence(scheduled[q])
    /\ Len(scheduled[q]) <= IF phase = "compute" /\ ~runningLevelIsFree THEN position ELSE 0

(* The secrets to open are sequences, by party and kind. *)
SharesTyped ==
  /\ DOMAIN secretSharesByParty = Party
  /\ \A party \in Party :
       /\ DOMAIN secretSharesByParty[party] = BOOLEAN
       /\ \A b \in BOOLEAN : IsSequence(secretSharesByParty[party][b])

(* The inductive invariant about the values. *)
ValuesInv ==
  /\ ExecutedValue /\ SequenceValues /\ PlacesCompute
  /\ Underway /\ QueuesFit /\ SharesTyped

(* The keeper and the level being executed never have more gates than the  *)
(* limit and two.                                                          *)
LevelsFit ==
  /\ numUnexecutedGates <= MaxUnexecutedGates + 2
  /\ Len(running) <= MaxUnexecutedGates + 2

-----------------------------------------------------------------------------
(* Lemmas about its parts.                                                 *)

(* What a gate computes does not depend on where its results are. *)
LEMMA SameGateComputes ==
  ASSUME NEW g, NEW h, SameGate(g, h), IsGate(g), g.type # "Input"
  PROVE  \A in : Outputs(g, in) = Outputs(h, in)
<1> TAKE in
<1>1. g.type \in GateTypes
  BY DEF IsGate
<1> QED BY <1>1 DEF SameGate, Outputs, GateTypes, FreeTypes, NonFreeTypes

(* A part of a sequence stays where it is when another is added. *)
LEMMA SliceStays ==
  ASSUME NEW s, NEW t, NEW gate, NEW x, IsSequence(s), IsSequence(t), IsSequence(x),
         Slice(s, gate, x)
  PROVE  Slice(s \o t, gate, x)
<1> PICK m \in Nat, n \in Nat, k \in Nat :
      /\ m = Len(s) /\ DOMAIN s = 1..m /\ n = Len(t) /\ k = Len(x) /\ DOMAIN x = 1..k
  BY SequenceOfItsElements DEF IsSequence
<1> PICK E, F : E = ElementsOf(s) /\ F = ElementsOf(t)
  OBVIOUS
<1>1. s \in Seq(E \cup F) /\ t \in Seq(E \cup F)
  <2>1. s \in Seq(E) /\ t \in Seq(F)
    BY DEF IsSequence
  <2> QED BY <2>1
<1> PICK u : u = s \o t
  OBVIOUS
<1>2. Len(u) = m + n /\ \A i \in 1..m : u[i] = s[i]
  BY <1>1
<1> QED BY <1>2 DEF Slice

(* What is added to a sequence is the part of it that starts at its end.   *)
LEMMA SliceAdded ==
  ASSUME NEW s, NEW gate, NEW x, IsSequence(s), IsSequence(x),
         gate.scheduledResultIndex = Len(s), gate.numberOfResults = Len(x)
  PROVE  Slice(s \o x, gate, x) /\ IsSequence(s \o x)
<1> PICK m \in Nat, k \in Nat :
      /\ m = Len(s) /\ DOMAIN s = 1..m /\ k = Len(x) /\ DOMAIN x = 1..k
  BY SequenceOfItsElements DEF IsSequence
<1> PICK E, F, G : E = ElementsOf(s) /\ F = ElementsOf(x) /\ G = E \cup F
  OBVIOUS
<1>1. s \in Seq(G) /\ x \in Seq(G)
  <2>1. s \in Seq(E) /\ x \in Seq(F)
    BY DEF IsSequence
  <2> QED BY <2>1
<1> PICK u : u = s \o x
  OBVIOUS
<1>2. u \in Seq(G) /\ Len(u) = m + k /\ \A i \in m + 1..m + k : u[i] = x[i - m]
  BY <1>1
<1>3. \A i \in 1..k : m + i \in m + 1..m + k /\ (m + i) - m = i
  OBVIOUS
<1>4. \A i \in 1..k : u[m + i] = x[i]
  BY <1>2, <1>3
<1>5. Slice(u, gate, x)
  BY <1>2, <1>4 DEF Slice
<1>6. IsSequence(u)
  BY <1>2, SequenceOfItsElements
<1> QED BY <1>5, <1>6

(* SubSeq takes that part. *)
LEMMA SliceTaken ==
  ASSUME NEW s, NEW gate, NEW x, IsSequence(x), Slice(s, gate, x)
  PROVE  SubSeq(s, gate.scheduledResultIndex + 1,
                   gate.scheduledResultIndex + gate.numberOfResults) = x
<1> PICK k \in Nat : k = Len(x) /\ DOMAIN x = 1..k /\ x = [i \in 1..k |-> x[i]]
  BY DEF IsSequence
<1> PICK m \in Nat : m = gate.scheduledResultIndex
  BY DEF Slice
<1>1. gate.numberOfResults = k /\ \A i \in 1..k : s[m + i] = x[i]
  BY DEF Slice
<1>2. x = [i \in 1..k |-> x[i]]
  OBVIOUS
<1>3. m + 1 \in Int /\ m + k \in Int
  OBVIOUS
<1> PICK a \in Int : a = m + 1
  BY <1>3
<1> PICK b \in Int : b = m + k
  BY <1>3
<1> PICK u : u = SubSeq(s, a, b)
  OBVIOUS
<1>4. a <= b + 1
  BY ONLY a = m + 1, b = m + k, m \in Nat, k \in Nat
<1>5. u = [i \in 1..(1 + b - a) |-> s[i + a - 1]]
  BY ONLY <1>4, u = SubSeq(s, a, b), a \in Int, b \in Int
<1>6. 1 + b - a = k /\ \A i \in 1..k : i + a - 1 = m + i
  BY ONLY a = m + 1, b = m + k, m \in Nat, k \in Nat
<1>7. u = [i \in 1..k |-> s[i + a - 1]]
  BY <1>5, <1>6
<1>8. \A i \in 1..k : s[i + a - 1] = x[i]
  BY <1>1, <1>6
<1>9. u = x
  BY <1>2, <1>7, <1>8
<1> QED BY <1>1, <1>9

(* What is revealed of a part is the part of what is revealed. *)
LEMMA SliceRevealed ==
  ASSUME NEW s, NEW gate, NEW x, NEW party, IsSequence(s), IsSequence(x),
         Slice(s, gate, x)
  PROVE  Slice(RevealedTo(party, s), gate, RevealedTo(party, x))
<1>1. CASE party = myId
  BY <1>1 DEF RevealedTo
<1>2. CASE party # myId
  <2> PICK m \in Nat, k \in Nat :
        m = Len(s) /\ DOMAIN s = 1..m /\ k = Len(x) /\ DOMAIN x = 1..k
    BY SequenceOfItsElements DEF IsSequence
  <2> PICK zs, zx : zs = ZerosLike(s) /\ zx = ZerosLike(x)
    OBVIOUS
  <2>1. Len(zs) = m /\ Len(zx) = k /\ DOMAIN zx = 1..k
    BY ElementwiseType
  <2>2. (\A i \in 1..m : zs[i] = 0) /\ (\A i \in 1..k : zx[i] = 0)
    BY DEF ZerosLike
  <2>3. Slice(zs, gate, zx)
    BY <2>1, <2>2 DEF Slice
  <2> QED BY <1>2, <2>3 DEF RevealedTo
<1> QED BY <1>1, <1>2

(* A running gate has a place, and its wires are in use. *)
RunningStored ==
  /\ Len(running) \in Nat /\ DOMAIN running = 1..Len(running)
  /\ \A i \in DOMAIN running :
       /\ <<0, i>> \in Places /\ GateAt(<<0, i>>) = running[i]
       /\ IsGate(running[i])
       /\ ElementsOf(running[i].ins) \subseteq DOMAIN wires
       /\ ElementsOf(running[i].outs) \subseteq DOMAIN wires

(* It has because every gate has a place, and holds its wires. *)
LEMMA RunningPlace == IInv => RunningStored
<1> SUFFICES ASSUME IInv PROVE RunningStored
  OBVIOUS
<1>1. TypeOK
  BY DEF IInv
<1>2. IsLevel(running) /\ Len(running) \in Nat /\ DOMAIN running = 1..Len(running)
  BY <1>1, SequenceOfItsElements DEF TypeOK, IsLevel, IsSequence
<1>3. \A i \in DOMAIN running : <<0, i>> \in Places /\ GateAt(<<0, i>>) = running[i]
  BY <1>1, PendingPlace DEF Places
<1>4. NamedStored
  BY NamesAreStored
<1>5. \A i \in DOMAIN running :
        /\ ElementsOf(running[i].ins) \subseteq DOMAIN wires
        /\ ElementsOf(running[i].outs) \subseteq DOMAIN wires
  BY <1>3, <1>4 DEF NamedStored
<1> QED BY <1>2, <1>3, <1>5 DEF IsLevel, RunningStored

(* The same in the next state. *)
LEMMA NextRunningPlace == IInv' => RunningStored'
<1>1. IInv => RunningStored
  BY RunningPlace
<1> QED BY <1>1, PTL

(* A gate keeps computing what its wires should hold when they, and its    *)
(* operands, should hold what they did.                                    *)
LEMMA ComputesStays ==
  ASSUME NEW g, NEW h, SameGate(h, g), IsGate(h),
         NEW ws, NEW us, NEW xs, NEW ys, GateComputes(g, ws, xs),
         \A w \in ElementsOf(h.ins) : ys[w] = xs[w],
         \A w \in ElementsOf(h.outs) :
           ys[w] = xs[w] /\ (us[w].v = ws[w].v \/ us[w].v = xs[w])
  PROVE  GateComputes(h, us, ys)
<1>1. h.type = g.type /\ h.ins = g.ins /\ h.outs = g.outs
  BY DEF SameGate
<1>2. ValuesOf(ys, h.ins) = ValuesOf(xs, g.ins)
  BY <1>1 DEF ValuesOf, ElementsOf
<1> PICK in : in = ValuesOf(xs, g.ins)
  OBVIOUS
<1>3. h.type # "Input" => Outputs(h, in) = Outputs(g, in)
  BY SameGateComputes
<1> SUFFICES ASSUME NEW w \in ElementsOf(h.outs)
             PROVE  IF h.type = "Input" THEN us[w].v = ys[w]
                    ELSE ys[w] = Outputs(h, in)[PositionOf(h.outs, w)]
  BY <1>2 DEF GateComputes
<1>4. IF g.type = "Input" THEN ws[w].v = xs[w]
      ELSE xs[w] = Outputs(g, in)[PositionOf(g.outs, w)]
  BY <1>1 DEF GateComputes
<1> QED BY <1>1, <1>3, <1>4

-----------------------------------------------------------------------------
(* Steps that add no gate.                                                 *)

(* A step after which every wire still in use should hold what it should   *)
(* have held, and holds what it held or what it should hold.               *)
Improves ==
  \A w \in DOMAIN wires' :
    /\ w \in DOMAIN wires /\ ideal'[w] = ideal[w]
    /\ wires'[w].v = wires[w].v \/ wires'[w].v = ideal[w]

(* Such a step keeps the values gates compute. *)
LEMMA GatesStillCompute ==
  ASSUME IInv, IInv', SequenceValues, PlacesCompute, Improves, Places' \subseteq Places,
         \A p \in Places' : SameGate(GateAt(p)', GateAt(p))
  PROVE  SequenceValues' /\ PlacesCompute'
<1>1. DOMAIN ideal' = DOMAIN wires'
  BY DEF IInv, TypeOK
<1>2. SequenceValues'
  <2>1. \A w \in DOMAIN ideal' : w \in DOMAIN ideal /\ ideal'[w] = ideal[w]
    BY <1>1 DEF Improves, IInv, TypeOK
  <2> QED BY <2>1 DEF SequenceValues
<1>3. NamedStored'
  BY NextNamesAreStored
<1>4. ASSUME NEW p \in Places'
      PROVE  WellFormed(GateAt(p)') /\ GateComputes(GateAt(p)', wires', ideal')
  <2> PICK g, h : g = GateAt(p) /\ h = GateAt(p)'
    OBVIOUS
  <2>1. SameGate(h, g) /\ WellFormed(g) /\ GateComputes(g, wires, ideal)
    BY DEF PlacesCompute
  <2>2. /\ IsGate(h) /\ ElementsOf(h.ins) \subseteq DOMAIN wires'
        /\ ElementsOf(h.outs) \subseteq DOMAIN wires'
    BY <1>3 DEF NamedStored, ElementsOf
  <2>3. GateComputes(h, wires', ideal')
    BY <2>1, <2>2, ComputesStays DEF Improves
  <2>4. WellFormed(h)
    BY <2>1 DEF SameGate, WellFormed, QueueOf
  <2> QED BY <2>3, <2>4
<1>5. PlacesCompute'
  BY <1>4 DEF PlacesCompute
<1> QED BY <1>2, <1>5

(* Such a step keeps the values of executed gates, when it puts the right  *)
(* ones on the wires of the gates that run.                                *)
LEMMA ExecutedStays ==
  ASSUME ExecutedValue, Improves,
         \A p \in Places : ~HasRun(p) =>
           \A w \in ElementsOf(GateAt(p).outs) \cap DOMAIN wires' :
             \/ wires'[w].v = ideal[w]
             \/ /\ p \in Places' /\ ~HasRun(p)'
                /\ SameGate(GateAt(p)', GateAt(p))
  PROVE  ExecutedValue'
<1> SUFFICES ASSUME NEW w \in DOMAIN wires', wires'[w].v # ideal'[w]
             PROVE  \E p \in Places' : w \in ElementsOf(GateAt(p).outs)' /\ ~HasRun(p)'
  BY DEF ExecutedValue
<1>1. w \in DOMAIN wires /\ wires[w].v # ideal[w] /\ wires'[w].v # ideal[w]
  BY DEF Improves
<1>2. PICK p \in Places : w \in ElementsOf(GateAt(p).outs) /\ ~HasRun(p)
  BY <1>1 DEF ExecutedValue
<1>3. p \in Places' /\ ~HasRun(p)' /\ SameGate(GateAt(p)', GateAt(p))
  BY <1>1, <1>2
<1>4. w \in ElementsOf(GateAt(p).outs)'
  BY <1>2, <1>3 DEF ElementsOf, SameGate
<1> QED BY <1>3, <1>4

(* What the engine and the running level have come to stays when they, and *)
(* the ideal values, do.                                                   *)
LEMMA EngineStays ==
  ASSUME IInv, IInv', Underway, QueuesFit, SharesTyped,
         UNCHANGED <<executionVars, engineVars>>,
         firstUnexecutedLevel' = firstUnexecutedLevel,
         \A w \in DOMAIN wires \cap DOMAIN wires' : ideal'[w] = ideal[w]
  PROVE  Underway' /\ QueuesFit' /\ SharesTyped'
<1>1. /\ phase' = phase /\ running' = running /\ position' = position
      /\ scheduled' = scheduled /\ executionResults' = executionResults
      /\ secretSharesByParty' = secretSharesByParty
      /\ revealedSecretsByParty' = revealedSecretsByParty
  BY DEF executionVars, engineVars
<1>2. runningLevelIsFree' <=> runningLevelIsFree
  BY DEF runningLevelIsFree, isLevelFree
<1>3. RunningStored /\ RunningStored'
  BY RunningPlace, NextRunningPlace
<1>4. \A i \in DOMAIN running :
        ValuesOf(ideal', running[i].ins) = ValuesOf(ideal, running[i].ins)
  <2> TAKE i \in DOMAIN running
  <2>1. ElementsOf(running[i].ins) \subseteq DOMAIN wires \cap DOMAIN wires'
    <3>1. ElementsOf(running[i].ins) \subseteq DOMAIN wires
      BY <1>3 DEF RunningStored
    <3>2. ElementsOf(running'[i].ins) \subseteq DOMAIN wires'
      BY <1>1, <1>3 DEF RunningStored
    <3> QED BY <1>1, <3>1, <3>2
  <2> QED BY <2>1 DEF ValuesOf, ElementsOf
<1>5. 1..position \subseteq DOMAIN running
  BY <1>3 DEF RunningStored, IInv, TypeOK
<1>6. Underway'
  BY <1>1, <1>2, <1>4, <1>5 DEF Underway
<1>7. QueuesFit'
  BY <1>1, <1>2 DEF QueuesFit
<1>8. SharesTyped'
  BY <1>1 DEF SharesTyped
<1> QED BY <1>6, <1>7, <1>8

(* Steps that move no gate and leave the loops alone keep the values. *)
LEMMA UnmovedValues ==
  ASSUME IInv, IInv', ValuesInv, Improves, UNCHANGED <<executionVars, engineVars>>,
         gatesByLevelOffset' = gatesByLevelOffset,
         firstUnexecutedLevel' = firstUnexecutedLevel
  PROVE  ValuesInv'
<1>1. running' = running /\ position' = position /\ phase' = phase
  BY DEF executionVars
<1>2. Places' = Places /\ \A p \in Places' : SameGate(GateAt(p)', GateAt(p))
  BY <1>1, GatesUnmoved DEF SameGate
<1>3. SequenceValues' /\ PlacesCompute'
  BY <1>2, GatesStillCompute DEF ValuesInv
<1>4. \A p : HasRun(p)' <=> HasRun(p)
  BY <1>1 DEF HasRun, runningLevelIsFree, isLevelFree
<1>5. ExecutedValue'
  BY <1>2, <1>4, ExecutedStays DEF ValuesInv
<1>6. \A w \in DOMAIN wires \cap DOMAIN wires' : ideal'[w] = ideal[w]
  BY DEF Improves
<1>7. Underway' /\ QueuesFit' /\ SharesTyped'
  BY <1>6, EngineStays DEF ValuesInv
<1> QED BY <1>3, <1>5, <1>7 DEF ValuesInv

(* Copying a reference, or giving one back, keeps the values. *)
LEMMA ReferencesKeepValues ==
  ASSUME IInv, IInv', ValuesInv, IncreaseReferenceCount \/ DecreaseReferenceCount
  PROVE  ValuesInv'
<1>1. \A w \in DOMAIN wires : DOMAIN wires[w] = WireFields
  BY DEF IInv, TypeOK, WireFields
<1>2. Improves
  <2>1. CASE IncreaseReferenceCount
    <3> PICK times : wires' = increaseReferenceCounts(wires, times)
      BY <2>1 DEF IncreaseReferenceCount
    <3>1. /\ DOMAIN wires' = DOMAIN wires
          /\ \A w \in DOMAIN wires :
               wires'[w] = [wires[w] EXCEPT !.referenceCount = @ + times[w]]
      BY DEF increaseReferenceCounts
    <3>2. ideal' = ideal
      BY <2>1 DEF IncreaseReferenceCount
    <3> QED BY <1>1, <3>1, <3>2 DEF WireFields, Improves
  <2>2. CASE DecreaseReferenceCount
    <3> PICK times : wires' = decreaseReferenceCounts(wires, times)
      BY <2>2 DEF DecreaseReferenceCount
    <3>1. /\ DOMAIN wires' \subseteq DOMAIN wires
          /\ \A w \in DOMAIN wires' :
               wires'[w] = [wires[w] EXCEPT !.referenceCount = @ - times[w]]
      BY DEF decreaseReferenceCounts
    <3>2. ideal' = [w \in DOMAIN wires' |-> ideal[w]]
      BY <2>2 DEF DecreaseReferenceCount
    <3> QED BY <1>1, <3>1, <3>2 DEF WireFields, Improves
  <2> QED BY <2>1, <2>2
<1>3. /\ UNCHANGED <<executionVars, engineVars>>
      /\ gatesByLevelOffset' = gatesByLevelOffset
      /\ firstUnexecutedLevel' = firstUnexecutedLevel
  BY DEF IncreaseReferenceCount, DecreaseReferenceCount
<1> QED BY <1>2, <1>3, UnmovedValues

(* So do the steps that leave the keeper and the engine alone. *)
LEMMA QuietKeepsValues ==
  ASSUME IInv, IInv', ValuesInv, Quiet PROVE ValuesInv'
<1>1. /\ UNCHANGED <<executionVars, engineVars>>
      /\ gatesByLevelOffset' = gatesByLevelOffset
      /\ firstUnexecutedLevel' = firstUnexecutedLevel
      /\ wires' = wires /\ ideal' = ideal
  BY DEF Quiet, keeperVars, callerVars
<1>2. Improves
  BY <1>1 DEF Improves
<1> QED BY <1>1, <1>2, UnmovedValues

(* Taking a level away keeps the values. *)
LEMMA PopKeepsValues ==
  ASSUME IInv, IInv', ValuesInv, PopLevel PROVE ValuesInv'
<1>1. TypeOK /\ running = <<>> /\ phase = "ready"
  BY DEF IInv, PopLevel
<1>2. gatesByLevelOffset # <<>>
  BY LevelsFound DEF ForceFindsLevel, LimitFindsLevel, PopLevel, IInv, TypeOK, Idle
<1>3. /\ running' = Head(gatesByLevelOffset)
      /\ gatesByLevelOffset' = Tail(gatesByLevelOffset)
      /\ firstUnexecutedLevel' = firstUnexecutedLevel + 1 /\ wires' = wires
      /\ phase' = "compute" /\ position' = 0 /\ ideal' = ideal
      /\ scheduled' = scheduled /\ secretSharesByParty' = secretSharesByParty
  BY DEF PopLevel, popFirstUnexecutedLevel, engineVars, callerVars
<1>4. IsSequence(gatesByLevelOffset')
  BY DEF IInv, TypeOK
<1>5. /\ \A p \in Places : Forward(p) \in Places' /\ GateAt(Forward(p))' = GateAt(p)
      /\ \A q \in Places' : \E p \in Places : q = Forward(p)
  BY <1>1, <1>2, <1>3, <1>4, PopMovesPlaces
<1>6. SequenceValues'
  BY <1>3 DEF ValuesInv, SequenceValues
<1>7. PlacesCompute'
  <2>1. ASSUME NEW q \in Places'
        PROVE  WellFormed(GateAt(q)') /\ GateComputes(GateAt(q)', wires', ideal')
    <3> PICK p \in Places : q = Forward(p) /\ GateAt(q)' = GateAt(p)
      BY <1>5
    <3>1. WellFormed(GateAt(p)) /\ GateComputes(GateAt(p), wires, ideal)
      BY DEF ValuesInv, PlacesCompute
    <3> QED BY <1>3, <3>1
  <2> QED BY <2>1 DEF PlacesCompute
<1>8. \A q \in Places' : ~HasRun(q)'
  <2> TAKE q \in Places'
  <2>1. q[2] \in Nat /\ (q[1] = 0 => q[2] # 0)
    <3>1. NamedStored' /\ RunningStored'
      BY NextNamesAreStored, NextRunningPlace
    <3>2. q[1] = 0 => q[2] \in DOMAIN running'
      BY <1>4, NextPendingPlace DEF Places
    <3> QED BY <3>1, <3>2 DEF NamedStored, RunningStored
  <2> QED BY <1>3, <2>1 DEF HasRun
<1>9. ExecutedValue'
  <2> SUFFICES ASSUME NEW w \in DOMAIN wires', wires'[w].v # ideal'[w]
               PROVE  \E q \in Places' : w \in ElementsOf(GateAt(q).outs)' /\ ~HasRun(q)'
    BY DEF ExecutedValue
  <2> PICK p \in Places : w \in ElementsOf(GateAt(p).outs)
    BY <1>3 DEF ValuesInv, ExecutedValue
  <2>1. Forward(p) \in Places' /\ GateAt(Forward(p))' = GateAt(p)
    BY <1>5
  <2>2. w \in ElementsOf(GateAt(Forward(p)).outs)'
    BY <2>1 DEF ElementsOf
  <2> QED BY <1>8, <2>1, <2>2
<1>10. Underway'
  <2>1. 1..0 = {}
    OBVIOUS
  <2> QED BY <1>3, <2>1 DEF Underway
<1>11. QueuesFit'
  <2>1. \A q \in Queue : IsSequence(scheduled[q]) /\ Len(scheduled[q]) <= 0
    BY <1>1 DEF ValuesInv, QueuesFit
  <2> QED BY <1>3, <2>1 DEF QueuesFit
<1>12. SharesTyped'
  BY <1>3 DEF ValuesInv, SharesTyped
<1> QED BY <1>6, <1>7, <1>9, <1>10, <1>11, <1>12 DEF ValuesInv

-----------------------------------------------------------------------------
(* Computing a gate.                                                       *)

(* The running gates are of the level's kind. *)
LEMMA RunningKind ==
  ASSUME IInv, OrderInv
  PROVE  \A i \in DOMAIN running :
           isFree(running[i].type) <=> runningLevelIsFree
<1> TAKE i \in DOMAIN running
<1>1. <<0, i>> \in Places /\ GateAt(<<0, i>>) = running[i]
  BY RunningPlace DEF RunningStored
<1>2. isFree(running[i].type) <=> isLevelFree(AbsoluteLevel(<<0, i>>))
  BY <1>1 DEF OrderInv, KindsApart
<1>3. AbsoluteLevel(<<0, i>>) = firstUnexecutedLevel - 1
  BY DEF AbsoluteLevel, IInv, TypeOK
<1> QED BY <1>2, <1>3 DEF runningLevelIsFree

(* What the operands of a running gate should hold are sequences. *)
LEMMA RunningOperands ==
  ASSUME IInv, ValuesInv, NEW i \in DOMAIN running, NEW gate, gate = running[i]
  PROVE  /\ WellFormed(gate) /\ GateComputes(gate, wires, ideal)
         /\ DOMAIN ValuesOf(ideal, gate.ins) = DOMAIN gate.ins
         /\ \A j \in DOMAIN gate.ins :
              /\ ValuesOf(ideal, gate.ins)[j] = ideal[gate.ins[j]]
              /\ IsSequence(ideal[gate.ins[j]])
<1>1. /\ <<0, i>> \in Places /\ GateAt(<<0, i>>) = gate
      /\ ElementsOf(gate.ins) \subseteq DOMAIN wires
  BY RunningPlace DEF RunningStored
<1>2. WellFormed(gate) /\ GateComputes(gate, wires, ideal)
  BY <1>1 DEF ValuesInv, PlacesCompute
<1>3. \A j \in DOMAIN gate.ins : gate.ins[j] \in DOMAIN ideal
  BY <1>1 DEF ElementsOf, IInv, TypeOK
<1>4. \A j \in DOMAIN gate.ins : IsSequence(ideal[gate.ins[j]])
  BY <1>3 DEF ValuesInv, SequenceValues
<1> QED BY <1>2, <1>4 DEF ValuesOf

(* The gate at hand is a running one. *)
LEMMA AtHand ==
  ASSUME IInv, position < Len(running)
  PROVE  /\ position \in Nat /\ position + 1 \in DOMAIN running
         /\ <<0, position + 1>> \in Places /\ GateAt(<<0, position + 1>>) = gateAtHand
         /\ gateAtHand = running[position + 1] /\ IsGate(gateAtHand)
         /\ ElementsOf(gateAtHand.ins) \subseteq DOMAIN wires
         /\ ElementsOf(gateAtHand.outs) \subseteq DOMAIN wires
<1>1. RunningStored
  BY RunningPlace
<1>2. position \in Nat /\ position + 1 \in DOMAIN running
  BY <1>1 DEF RunningStored, IInv, TypeOK
<1> QED BY <1>1, <1>2 DEF RunningStored, gateAtHand

(* A gate reads from its operands what they should hold: the gates that    *)
(* write them are on levels before, or, when all are local, have run.      *)
LEMMA OperandsAreIdeal ==
  ASSUME IInv, OrderInv, ValuesInv, phase = "compute", position < Len(running),
         NEW gate, gate = gateAtHand
  PROVE  OperandValues(gate) = ValuesOf(ideal, gate.ins)
<1> PICK p : p = <<0, position + 1>>
  OBVIOUS
<1>1. /\ position \in Nat /\ position + 1 \in DOMAIN running
      /\ p \in Places /\ GateAt(p) = gate /\ gate = running[position + 1]
      /\ ElementsOf(gate.ins) \subseteq DOMAIN wires
  BY AtHand
<1>2. ASSUME NEW w \in ElementsOf(gate.ins) PROVE wires[w].v = ideal[w]
  <2> SUFFICES ASSUME NEW q \in Places, w \in ElementsOf(GateAt(q).outs), ~HasRun(q)
               PROVE  FALSE
    BY <1>1 DEF ValuesInv, ExecutedValue
  <2>1. ElementsOf(GateAt(q).outs) \cap ElementsOf(GateAt(p).ins) # {}
    BY <1>1
  <2>2. \/ q[1] < p[1]
        \/ q[1] = p[1] /\ q[2] < p[2] /\ isFree(GateAt(p).type)
    BY <1>1, <2>1 DEF OrderInv, TopologicalOrder
  <2>3. q[1] \in Nat /\ q[2] \in Nat
    BY NamesAreStored DEF NamedStored
  <2>4. q[1] = 0 /\ q[2] < position + 1 /\ isFree(gate.type)
    BY <1>1, <2>2, <2>3
  <2>5. runningLevelIsFree
    BY <1>1, <2>4, RunningKind
  <2> QED BY <1>1, <2>3, <2>4, <2>5 DEF HasRun
<1> QED BY <1>2 DEF OperandValues, ValuesOf, ElementsOf

(* Putting on a gate's wires what it computes from ideal values puts on    *)
(* them what they should hold.                                             *)
LEMMA IdealStored ==
  ASSUME IInv, NEW gate, gate.type # "Input", GateComputes(gate, wires, ideal),
         ElementsOf(gate.outs) \subseteq DOMAIN wires,
         NEW vs, vs = Outputs(gate, ValuesOf(ideal, gate.ins)),
         wires' = setValues(wires, gate.outs, vs), ideal' = ideal
  PROVE  Improves /\ \A w \in ElementsOf(gate.outs) : wires'[w].v = ideal[w]
<1>1. \A w \in ElementsOf(gate.outs) : ideal[w] = vs[PositionOf(gate.outs, w)]
  BY DEF GateComputes
<1>2. /\ DOMAIN wires' = DOMAIN wires
      /\ \A w \in DOMAIN wires :
           wires'[w] = IF w \in ElementsOf(gate.outs)
                       THEN [wires[w] EXCEPT !.v = vs[PositionOf(gate.outs, w)]]
                       ELSE wires[w]
  BY DEF setValues, ElementsOf
<1>3. \A w \in DOMAIN wires : DOMAIN wires[w] = WireFields
  BY DEF IInv, TypeOK, WireFields
<1>4. \A w \in ElementsOf(gate.outs) : wires'[w].v = ideal[w]
  BY <1>1, <1>2, <1>3 DEF WireFields
<1>5. \A w \in DOMAIN wires' : wires'[w].v = wires[w].v \/ wires'[w].v = ideal[w]
  BY <1>2, <1>4
<1> QED BY <1>2, <1>4, <1>5 DEF Improves

(* An element appended to a sequence comes last. *)
LEMMA AppendLast ==
  ASSUME NEW s, IsSequence(s), NEW x
  PROVE  /\ IsSequence(Append(s, x)) /\ Len(s) \in Nat /\ DOMAIN s = 1..Len(s)
         /\ Len(Append(s, x)) = Len(s) + 1 /\ DOMAIN Append(s, x) = 1..Len(s) + 1
         /\ Append(s, x)[Len(s) + 1] = x /\ \A i \in DOMAIN s : Append(s, x)[i] = s[i]
<1> PICK E : E = ElementsOf(s) \cup {x}
  OBVIOUS
<1>1. s \in Seq(E) /\ x \in E
  BY DEF IsSequence
<1> PICK t : t = Append(s, x)
  OBVIOUS
<1>2. /\ t \in Seq(E) /\ Len(s) \in Nat /\ DOMAIN s = 1..Len(s)
      /\ Len(t) = Len(s) + 1 /\ DOMAIN t = 1..Len(s) + 1
      /\ t[Len(s) + 1] = x /\ \A i \in DOMAIN s : t[i] = s[i]
  BY <1>1
<1>3. IsSequence(t)
  BY <1>2, SequenceOfItsElements
<1> QED BY <1>2, <1>3

(* A level with one gate marked. *)
LEMMA MarkedLevel ==
  ASSUME NEW n \in DOMAIN running, NEW new, NEW gate, new = [running EXCEPT ![n] = gate],
         NEW i \in DOMAIN running
  PROVE  new[i] = IF i = n THEN gate ELSE running[i]
OBVIOUS

(* Scheduling the gate at hand schedules all up to it. *)
LEMMA ScheduledUpTo ==
  ASSUME NEW m \in Nat, NEW new, NEW secrets, NEW operations, NEW in,
         \A i \in 1..m : new[i] = running[i],
         \A i \in 1..m :
           IsScheduled(running[i], ValuesOf(ideal, running[i].ins), secrets, operations),
         in = ValuesOf(ideal, new[m + 1].ins),
         IsScheduled(new[m + 1], in, secrets, operations)
  PROVE  \A i \in 1..m + 1 :
           IsScheduled(new[i], ValuesOf(ideal, new[i].ins), secrets, operations)
<1> TAKE i \in 1..m + 1
<1>1. CASE i = m + 1
  BY <1>1
<1>2. CASE i # m + 1
  <2>1. i \in 1..m
    BY <1>2
  <2> QED BY <2>1
<1> QED BY <1>1, <1>2

(* Scheduling an opening puts the operand among the secrets to open, and   *)
(* leaves the parts of the others where they are.                          *)
LEMMA OpeningScheduled ==
  ASSUME IInv, OrderInv, ValuesInv, phase = "compute", ~runningLevelIsFree,
         position < Len(running),
         NEW gate, gate = gateAtHand, gate.type = "Output", ScheduleOpening(gate)
  PROVE  /\ \A i \in 1..position + 1 :
              IsScheduled(running'[i], ValuesOf(ideal, running'[i].ins),
                          secretSharesByParty', scheduled')
         /\ SharesTyped'
<1> PICK n : n = position + 1
  OBVIOUS
<1>1. /\ n \in DOMAIN running /\ gate = running[n] /\ IsGate(gate) /\ position \in Nat
      /\ n \in Nat /\ 1..position \subseteq DOMAIN running
  BY AtHand, RunningPlace DEF RunningStored
<1> PICK operands : operands = ValuesOf(ideal, gate.ins)
  OBVIOUS
<1>2. OperandValues(gate) = operands
  BY OperandsAreIdeal
<1> PICK values : values = operands[1]
  OBVIOUS
<1>3. IsSequence(values)
  BY <1>1, RunningOperands DEF WellFormed
<1> PICK old, new, mine, kind :
      /\ old = secretSharesByParty /\ new = secretSharesByParty'
      /\ mine = gate.party /\ kind = isBoolean(gate.allocator)
  OBVIOUS
<1>4. mine \in Party /\ kind \in BOOLEAN
  BY <1>1 DEF IsGate, isBoolean
<1>5. /\ DOMAIN old = Party
      /\ \A party \in Party : /\ DOMAIN old[party] = BOOLEAN
                              /\ \A b \in BOOLEAN : IsSequence(old[party][b])
  BY DEF ValuesInv, SharesTyped
<1>6. /\ running' = [running EXCEPT ![n].scheduledResultIndex = Len(old[mine][kind]),
                                    ![n].numberOfResults = Len(values)]
      /\ new = [old EXCEPT ![mine][kind] = @ \o values] /\ scheduled' = scheduled
  BY <1>2 DEF ScheduleOpening
<1>7. /\ DOMAIN new = Party
      /\ \A party \in Party :
           /\ DOMAIN new[party] = BOOLEAN
           /\ \A b \in BOOLEAN :
                new[party][b] = IF party = mine /\ b = kind
                                THEN old[mine][kind] \o values ELSE old[party][b]
  BY <1>4, <1>5, <1>6
<1> PICK marked : marked = running'[n]
  OBVIOUS
<1>8. /\ marked = [gate EXCEPT !.scheduledResultIndex = Len(old[mine][kind]),
                               !.numberOfResults = Len(values)]
      /\ \A i \in 1..position : running'[i] = running[i]
  <2>1. running' = [running EXCEPT ![n] = [gate EXCEPT
                      !.scheduledResultIndex = Len(old[mine][kind]),
                      !.numberOfResults = Len(values)]]
    BY <1>1, <1>6
  <2>2. \A i \in 1..position : i \in DOMAIN running /\ i # n
    BY <1>1
  <2> QED BY <1>1, <2>1, <2>2, MarkedLevel
<1>9. /\ marked.type = "Output" /\ marked.ins = gate.ins
      /\ marked.party = mine /\ isBoolean(marked.allocator) = kind
      /\ marked.scheduledResultIndex = Len(old[mine][kind])
      /\ marked.numberOfResults = Len(values)
  BY <1>1, <1>8 DEF IsGate, isBoolean
<1>10. IsSequence(old[mine][kind])
  BY <1>4, <1>5
<1>11. Slice(old[mine][kind] \o values, marked, values)
         /\ IsSequence(old[mine][kind] \o values)
  BY <1>3, <1>9, <1>10, SliceAdded
<1>12. IsScheduled(marked, operands, new, scheduled')
  BY <1>4, <1>7, <1>9, <1>11 DEF IsScheduled, Skipped
<1>13. ASSUME NEW i \in 1..position
       PROVE  IsScheduled(running[i], ValuesOf(ideal, running[i].ins), new, scheduled')
  <2> PICK g, in : g = running[i] /\ in = ValuesOf(ideal, running[i].ins)
    OBVIOUS
  <2>1. IsScheduled(g, in, old, scheduled)
    BY DEF ValuesInv, Underway
  <2>2. i \in DOMAIN running
    BY <1>1
  <2>3. IsGate(g)
    BY <2>2, RunningPlace DEF RunningStored
  <2>4. ASSUME g.type = "Output"
        PROVE  Slice(new[g.party][isBoolean(g.allocator)], g, in[1])
    <3> PICK party, b : party = g.party /\ b = isBoolean(g.allocator)
      OBVIOUS
    <3>1. party \in Party /\ b \in BOOLEAN
      BY <2>3 DEF IsGate, isBoolean
    <3>2. IsSequence(in[1])
      BY <2>2, <2>4, RunningOperands DEF WellFormed
    <3>3. Slice(old[party][b], g, in[1])
      BY <2>1, <2>4 DEF IsScheduled
    <3>4. Slice(old[party][b] \o values, g, in[1])
      BY <1>3, <1>5, <3>1, <3>2, <3>3, SliceStays
    <3> QED BY <1>7, <3>1, <3>3, <3>4
  <2> QED BY <1>6, <2>1, <2>4 DEF IsScheduled
<1>14. \A i \in 1..position + 1 :
         IsScheduled(running'[i], ValuesOf(ideal, running'[i].ins), new, scheduled')
  <2> PICK level, operations : level = running' /\ operations = scheduled'
    OBVIOUS
  <2>1. marked = level[position + 1] /\ operands = ValuesOf(ideal, marked.ins)
    BY <1>9
  <2>2. IsScheduled(level[position + 1], operands, new, operations)
    BY <1>12, <2>1
  <2>3. \A i \in 1..position : level[i] = running[i]
    BY <1>8
  <2> QED BY <1>1, <1>13, <2>1, <2>2, <2>3, ScheduledUpTo
<1>15. SharesTyped'
  BY <1>5, <1>7, <1>11 DEF SharesTyped
<1> QED BY <1>14, <1>15

(* Scheduling an operation puts the operands last in the engine's queue,   *)
(* unless the batches are empty.                                           *)
LEMMA OperationScheduled ==
  ASSUME IInv, OrderInv, ValuesInv, phase = "compute", ~runningLevelIsFree,
         position < Len(running),
         NEW gate, gate = gateAtHand, gate.type # "Output", ScheduleOperation(gate)
  PROVE  /\ \A i \in 1..position + 1 :
              IsScheduled(running'[i], ValuesOf(ideal, running'[i].ins),
                          secretSharesByParty', scheduled')
         /\ \A q \in Queue : IsSequence(scheduled'[q]) /\ Len(scheduled'[q]) <= position + 1
<1> PICK n : n = position + 1
  OBVIOUS
<1>1. /\ n \in DOMAIN running /\ gate = running[n] /\ IsGate(gate) /\ position \in Nat
      /\ n \in Nat /\ 1..position \subseteq DOMAIN running
  BY AtHand, RunningPlace DEF RunningStored
<1> PICK operands : operands = ValuesOf(ideal, gate.ins)
  OBVIOUS
<1>2. OperandValues(gate) = operands
  BY OperandsAreIdeal
<1> PICK old, new, q : old = scheduled /\ new = scheduled' /\ q = QueueOf(gate)
  OBVIOUS
<1>3. q \in Queue
  <2>1. ~isFree(gate.type) /\ gate.type \in GateTypes
    BY <1>1, RunningKind DEF IsGate
  <2>2. gate.type \in {"NonFreeAnd", "NonFreeComposite"}
    BY <2>1 DEF isFree, GateTypes, NonFreeTypes
  <2> QED BY <1>1, <2>2, RunningOperands DEF WellFormed
<1>4. DOMAIN old = Queue
  BY DEF IInv, TypeOK
<1>5. \A r \in Queue : IsSequence(old[r]) /\ Len(old[r]) <= position
  BY DEF ValuesInv, QueuesFit
<1>6. secretSharesByParty' = secretSharesByParty
  BY DEF ScheduleOperation
<1>7. \A i \in 1..position :
        IsScheduled(running[i], ValuesOf(ideal, running[i].ins), secretSharesByParty, old)
  BY DEF ValuesInv, Underway
<1>8. \A i \in 1..position : i \in DOMAIN running /\ i # n
  BY <1>1
<1>9. CASE Skipped(gate, operands)
  <2> PICK index \in UnsetIndex :
             running' = [running EXCEPT ![n].scheduledResultIndex = index]
    BY <1>2, <1>9 DEF ScheduleOperation, Skipped
  <2> PICK marked : marked = running'[n]
    OBVIOUS
  <2>1. new = old
    BY <1>2, <1>9 DEF ScheduleOperation, Skipped
  <2>2. /\ marked = [gate EXCEPT !.scheduledResultIndex = index]
        /\ \A i \in 1..position : running'[i] = running[i]
    <3>1. running' = [running EXCEPT ![n] = [gate EXCEPT !.scheduledResultIndex = index]]
      BY <1>1
    <3> QED BY <1>1, <1>8, <3>1, MarkedLevel
  <2>3. /\ marked.type = gate.type /\ marked.ins = gate.ins
        /\ marked.scheduledResultIndex = index
    BY <1>1, <2>2 DEF IsGate
  <2>4. IsScheduled(marked, operands, secretSharesByParty, new)
    BY <1>9, <2>3 DEF IsScheduled, Skipped
  <2>5. \A i \in 1..position + 1 :
          IsScheduled(running'[i], ValuesOf(ideal, running'[i].ins), secretSharesByParty,
                      new)
    BY <1>1, <1>7, <2>1, <2>2, <2>3, <2>4, ScheduledUpTo
  <2>6. \A r \in Queue : IsSequence(new[r]) /\ Len(new[r]) <= position + 1
    <3>1. \A r \in Queue : Len(old[r]) \in Nat
      BY <1>5, SequenceOfItsElements DEF IsSequence
    <3> QED BY <1>1, <1>5, <2>1, <3>1
  <2> QED BY <1>6, <2>5, <2>6
<1>10. CASE ~Skipped(gate, operands)
  <2> PICK marked, last : marked = running'[n] /\ last = Len(old[q])
    OBVIOUS
  <2>1. /\ running' = [running EXCEPT ![n].scheduledResultIndex = last]
        /\ new = [old EXCEPT ![q] = Append(@, operands)]
    BY <1>2, <1>10 DEF ScheduleOperation, Skipped, nextResultIndex
  <2>2. /\ marked = [gate EXCEPT !.scheduledResultIndex = last]
        /\ \A i \in 1..position : running'[i] = running[i]
    <3>1. running' = [running EXCEPT ![n] = [gate EXCEPT !.scheduledResultIndex = last]]
      BY <1>1, <2>1
    <3> QED BY <1>1, <1>8, <3>1, MarkedLevel
  <2>3. /\ marked.type = gate.type /\ marked.ins = gate.ins
        /\ marked.allocator = gate.allocator /\ marked.scheduledResultIndex = last
    BY <1>1, <2>2 DEF IsGate
  <2>4. QueueOf(marked) = q
    BY <2>3 DEF QueueOf
  <2>5. /\ new[q] = Append(old[q], operands)
        /\ \A r \in Queue : r # q => new[r] = old[r]
    BY <1>3, <1>4, <2>1
  <2>6. IsSequence(old[q])
    BY <1>3, <1>5
  <2>7. /\ IsSequence(new[q]) /\ last \in Nat /\ DOMAIN old[q] = 1..last
        /\ Len(new[q]) = last + 1 /\ DOMAIN new[q] = 1..last + 1
        /\ new[q][last + 1] = operands /\ \A k \in DOMAIN old[q] : new[q][k] = old[q][k]
    BY <2>5, <2>6, AppendLast
  <2>8. IsScheduled(marked, operands, secretSharesByParty, new)
    BY <1>10, <2>3, <2>4, <2>7 DEF IsScheduled, Skipped
  <2>9. ASSUME NEW i \in 1..position
        PROVE  IsScheduled(running[i], ValuesOf(ideal, running[i].ins),
                           secretSharesByParty, new)
    <3> PICK g, in : g = running[i] /\ in = ValuesOf(ideal, running[i].ins)
      OBVIOUS
    <3>1. IsScheduled(g, in, secretSharesByParty, old)
      BY <1>7
    <3>2. QueueOf(g) \in Queue \/ g.type = "Output"
      <4>1. i \in DOMAIN running
        BY <1>1
      <4>2. IsGate(g) /\ ~isFree(g.type) /\ WellFormed(g)
        BY <4>1, RunningKind, RunningPlace, RunningOperands DEF RunningStored
      <4> QED BY <4>2 DEF IsGate, WellFormed, isFree, GateTypes, NonFreeTypes
    <3>3. ASSUME NEW r \in Queue, NEW k \in DOMAIN old[r]
          PROVE  k \in DOMAIN new[r] /\ new[r][k] = old[r][k]
      <4>1. CASE r = q
        <5>1. k \in DOMAIN old[q]
          BY <4>1, Zenon
        <5>2. new[q][k] = old[q][k]
          BY <2>7, <5>1, Zenon
        <5>3. k \in DOMAIN new[q]
          BY ONLY <2>7, <5>1
        <5> QED BY <4>1, <5>2, <5>3, Zenon
      <4>2. CASE r # q
        <5>1. new[r] = old[r]
          BY ONLY <2>5, <3>3, <4>2
        <5> QED BY ONLY <3>3, <5>1
      <4> QED BY ONLY <4>1, <4>2
    <3> QED BY <3>1, <3>2, <3>3 DEF IsScheduled
  <2>10. \A i \in 1..position + 1 :
           IsScheduled(running'[i], ValuesOf(ideal, running'[i].ins), secretSharesByParty,
                       new)
    BY <1>1, <2>2, <2>3, <2>8, <2>9, ScheduledUpTo
  <2>11. \A r \in Queue : IsSequence(new[r]) /\ Len(new[r]) <= position + 1
    <3>1. \A r \in Queue : Len(old[r]) \in Nat
      BY <1>5, SequenceOfItsElements DEF IsSequence
    <3> QED BY <1>1, <1>3, <1>5, <2>5, <2>7, <3>1
  <2> QED BY <1>6, <2>10, <2>11
<1> QED BY <1>9, <1>10

(* Computing a gate keeps the values: a local gate puts what its wires     *)
(* should hold on them.                                                    *)
LEMMA ComputeKeepsValues ==
  ASSUME IInv, IInv', OrderInv, ValuesInv, ComputeGate PROVE ValuesInv'
<1> PICK gate, p : gate = gateAtHand /\ p = <<0, position + 1>>
  OBVIOUS
<1>1. /\ phase = "compute" /\ phase' = "compute" /\ position < Len(running)
      /\ position' = position + 1 /\ ideal' = ideal
      /\ firstUnexecutedLevel' = firstUnexecutedLevel
  BY DEF ComputeGate, callerVars
<1>2. /\ position \in Nat /\ position + 1 \in DOMAIN running
      /\ p \in Places /\ GateAt(p) = gate /\ gate = running[position + 1] /\ IsGate(gate)
      /\ ElementsOf(gate.outs) \subseteq DOMAIN wires
  BY <1>1, AtHand
<1>3. Places' = Places /\ \A q \in Places' : SameGate(GateAt(q)', GateAt(q))
  BY LoopKeepsGates
<1>4. runningLevelIsFree' <=> runningLevelIsFree
  BY <1>1 DEF runningLevelIsFree, isLevelFree
<1>5. isFree(gate.type) <=> runningLevelIsFree
  BY <1>2, RunningKind
<1>6. \/ runningLevelIsFree /\ ComputeFreeGate(gate)
      \/ ~runningLevelIsFree /\ gate.type = "Output" /\ ScheduleOpening(gate)
      \/ ~runningLevelIsFree /\ gate.type # "Output" /\ ScheduleOperation(gate)
  <2>1. CASE runningLevelIsFree
    <3>1. ComputeFreeGate(gateAtHand)
      BY <1>5, <2>1 DEF ComputeGate, isFree, FreeTypes
    <3> QED BY <2>1, <3>1 DEF ComputeFreeGate
  <2>2. CASE ~runningLevelIsFree /\ gate.type = "Output"
    <3>1. ScheduleOpening(gateAtHand)
      BY <1>5, <2>2 DEF ComputeGate, isFree, FreeTypes
    <3> QED BY <2>2, <3>1 DEF ScheduleOpening
  <2>3. CASE ~runningLevelIsFree /\ gate.type # "Output"
    <3>1. ScheduleOperation(gateAtHand)
      BY <1>5, <2>3 DEF ComputeGate, isFree, FreeTypes
    <3> QED BY <2>3, <3>1 DEF ScheduleOperation
  <2> QED BY <2>1, <2>2, <2>3
<1>7. Improves /\ (runningLevelIsFree => \A w \in ElementsOf(gate.outs) : wires'[w].v = ideal[w])
  <2>1. GateComputes(gate, wires, ideal)
    BY <1>2 DEF ValuesInv, PlacesCompute
  <2>2. CASE runningLevelIsFree /\ gate.type = "Input"
    <3>1. wires' = wires
      BY <1>6, <2>2 DEF ComputeFreeGate
    <3> QED BY <1>1, <2>1, <2>2, <3>1 DEF Improves, GateComputes
  <2>3. CASE runningLevelIsFree /\ gate.type # "Input"
    <3>1. wires' = setValues(wires, gate.outs, Outputs(gate, ValuesOf(ideal, gate.ins)))
      BY <1>1, <1>6, <2>3, OperandsAreIdeal DEF ComputeFreeGate
    <3> QED BY <1>1, <1>2, <2>1, <2>3, <3>1, IdealStored
  <2>4. CASE ~runningLevelIsFree
    <3>1. wires' = wires
      BY <1>6, <2>4 DEF ScheduleOpening, ScheduleOperation
    <3> QED BY <1>1, <2>4, <3>1 DEF Improves
  <2> QED BY <2>2, <2>3, <2>4
<1>8. SequenceValues' /\ PlacesCompute'
  BY <1>3, <1>7, GatesStillCompute DEF ValuesInv
<1>9. ExecutedValue'
  <2>1. ASSUME NEW q \in Places, ~HasRun(q), HasRun(q)'
        PROVE  q = p /\ runningLevelIsFree
    <3>1. q = <<q[1], q[2]>> /\ q[1] \in Nat /\ q[2] \in Nat
      BY NamesAreStored DEF NamedStored
    <3> QED BY <1>1, <1>2, <1>4, <2>1, <3>1 DEF HasRun
  <2> QED BY <1>2, <1>3, <1>7, <2>1, ExecutedStays DEF ValuesInv
<1>10. Underway' /\ QueuesFit' /\ SharesTyped'
  <2>1. CASE runningLevelIsFree
    <3>1. scheduled' = scheduled /\ secretSharesByParty' = secretSharesByParty
      BY <1>6, <2>1 DEF ComputeFreeGate, engineVars
    <3> QED BY <1>1, <1>4, <2>1, <3>1 DEF ValuesInv, Underway, QueuesFit, SharesTyped
  <2>2. CASE ~runningLevelIsFree /\ gate.type = "Output"
    <3>1. /\ \A i \in 1..position + 1 :
               IsScheduled(running'[i], ValuesOf(ideal, running'[i].ins),
                           secretSharesByParty', scheduled')
          /\ SharesTyped'
      BY <1>1, <1>6, <2>2, OpeningScheduled
    <3>2. Underway'
      BY <1>1, <3>1 DEF Underway
    <3>3. scheduled' = scheduled
      BY <1>6, <2>2 DEF ScheduleOpening
    <3>4. \A q \in Queue : IsSequence(scheduled[q]) /\ Len(scheduled[q]) <= position
      BY <1>1, <2>2 DEF ValuesInv, QueuesFit
    <3>5. \A q \in Queue : Len(scheduled[q]) \in Nat
      BY <3>4, SequenceOfItsElements DEF IsSequence
    <3>6. \A q \in Queue : Len(scheduled[q]) <= position + 1
      BY <1>2, <3>4, <3>5
    <3>7. QueuesFit'
      BY <1>1, <1>4, <2>2, <3>3, <3>4, <3>6 DEF QueuesFit
    <3> QED BY <3>1, <3>2, <3>7
  <2>3. CASE ~runningLevelIsFree /\ gate.type # "Output"
    <3>1. /\ \A i \in 1..position + 1 :
               IsScheduled(running'[i], ValuesOf(ideal, running'[i].ins),
                           secretSharesByParty', scheduled')
          /\ \A q \in Queue : IsSequence(scheduled'[q]) /\ Len(scheduled'[q]) <= position + 1
      BY <1>1, <1>6, <2>3, OperationScheduled
    <3>2. Underway'
      BY <1>1, <3>1 DEF Underway
    <3>3. QueuesFit'
      BY <1>1, <1>4, <2>3, <3>1 DEF QueuesFit
    <3>4. secretSharesByParty' = secretSharesByParty
      BY <1>6, <2>3 DEF ScheduleOperation
    <3>5. SharesTyped'
      BY <3>4 DEF ValuesInv, SharesTyped
    <3> QED BY <3>2, <3>3, <3>5
  <2> QED BY <2>1, <2>2, <2>3
<1> QED BY <1>8, <1>9, <1>10 DEF ValuesInv

-----------------------------------------------------------------------------
(* Executing, and collecting results.                                      *)

(* The engine leaves every gate's results at the place it remembers. *)
LEMMA ResultsThere ==
  ASSUME IInv, OrderInv, ValuesInv, Execute, NEW i \in DOMAIN running
  PROVE  HasResult(running[i], ValuesOf(ideal, running[i].ins),
                   revealedSecretsByParty', executionResults')
<1> PICK gate, operands : gate = running[i] /\ operands = ValuesOf(ideal, running[i].ins)
  OBVIOUS
<1>1. /\ phase = "compute" /\ ~runningLevelIsFree /\ position = Len(running)
      /\ executionResults' =
           [q \in Queue |-> [k \in DOMAIN scheduled[q] |-> Products(q[2], scheduled[q][k])]]
      /\ revealedSecretsByParty' =
           [party \in Party |->
              [b \in BOOLEAN |-> RevealedTo(party, secretSharesByParty[party][b])]]
  BY DEF Execute
<1>2. /\ i \in 1..position /\ IsGate(gate)
      /\ WellFormed(gate) /\ ~isFree(gate.type)
  BY <1>1, RunningPlace, RunningKind, RunningOperands DEF RunningStored
<1>3. IsScheduled(gate, operands, secretSharesByParty, scheduled)
  BY <1>1, <1>2 DEF ValuesInv, Underway
<1>4. gate.type \in NonFreeTypes
  BY <1>2 DEF IsGate, isFree, GateTypes
<1>5. ASSUME gate.type = "Output"
      PROVE  Slice(revealedSecretsByParty'[gate.party][isBoolean(gate.allocator)], gate,
                   RevealedTo(gate.party, operands[1]))
  <2> PICK party, b : party = gate.party /\ b = isBoolean(gate.allocator)
    OBVIOUS
  <2>1. party \in Party /\ b \in BOOLEAN
    BY <1>2 DEF IsGate, isBoolean
  <2>2. IsSequence(operands[1])
    BY <1>2, <1>5, RunningOperands DEF WellFormed
  <2>3. IsSequence(secretSharesByParty[party][b])
    BY <2>1 DEF ValuesInv, SharesTyped
  <2>4. Slice(secretSharesByParty[party][b], gate, operands[1])
    BY <1>3, <1>5 DEF IsScheduled
  <2>5. Slice(RevealedTo(party, secretSharesByParty[party][b]), gate,
              RevealedTo(party, operands[1]))
    BY <2>2, <2>3, <2>4, SliceRevealed
  <2> QED BY <1>1, <2>1, <2>5
<1>6. ASSUME gate.type # "Output", ~Skipped(gate, operands)
      PROVE  /\ gate.scheduledResultIndex + 1 \in DOMAIN executionResults'[QueueOf(gate)]
             /\ executionResults'[QueueOf(gate)][gate.scheduledResultIndex + 1]
                  = Outputs(gate, operands)
  <2> PICK q, k : q = QueueOf(gate) /\ k = gate.scheduledResultIndex + 1
    OBVIOUS
  <2>1. gate.type \in {"NonFreeAnd", "NonFreeComposite"}
    BY <1>4, <1>6 DEF NonFreeTypes
  <2>2. q \in Queue /\ q[2] = gate.allocator
    BY <1>2, <2>1 DEF WellFormed, QueueOf
  <2>3. k \in DOMAIN scheduled[q] /\ scheduled[q][k] = operands
    BY <1>3, <1>6 DEF IsScheduled
  <2>4. /\ k \in DOMAIN executionResults'[q]
        /\ executionResults'[q][k] = Products(gate.allocator, operands)
    BY <1>1, <2>2, <2>3
  <2>5. Outputs(gate, operands) = Products(gate.allocator, operands)
    BY <2>1 DEF Outputs
  <2> QED BY <2>4, <2>5
<1>7. Skipped(gate, operands) => gate.scheduledResultIndex \in UnsetIndex
  BY <1>3 DEF IsScheduled
<1> QED BY <1>5, <1>6, <1>7 DEF HasResult

(* The exchange with the other parties keeps the values. *)
LEMMA ExecuteKeepsValues ==
  ASSUME IInv, IInv', OrderInv, ValuesInv, Execute PROVE ValuesInv'
<1>1. /\ phase = "compute" /\ phase' = "collect" /\ ~runningLevelIsFree
      /\ position = Len(running) /\ position' = 0 /\ running' = running
      /\ executionResults' =
           [q \in Queue |-> [k \in DOMAIN scheduled[q] |-> Products(q[2], scheduled[q][k])]]
      /\ scheduled' = NoOperations /\ secretSharesByParty' = secretSharesByParty
      /\ wires' = wires /\ ideal' = ideal
      /\ firstUnexecutedLevel' = firstUnexecutedLevel
  BY DEF Execute, keeperVars, callerVars
<1>2. Places' = Places /\ \A p \in Places' : SameGate(GateAt(p)', GateAt(p))
  BY LoopKeepsGates
<1>3. ~runningLevelIsFree'
  BY <1>1 DEF runningLevelIsFree, isLevelFree
<1>4. Improves
  BY <1>1 DEF Improves
<1>5. SequenceValues' /\ PlacesCompute'
  BY <1>2, <1>4, GatesStillCompute DEF ValuesInv
<1>6. ASSUME NEW p \in Places PROVE ~HasRun(p)'
  <2>1. p[1] = 0 => p[2] \in DOMAIN running
    BY PendingPlace DEF Places, IInv
  <2>2. \A i \in DOMAIN running : ~(i <= 0)
    BY RunningPlace DEF RunningStored
  <2> QED BY <1>1, <2>1, <2>2 DEF HasRun
<1>7. ExecutedValue'
  BY <1>2, <1>4, <1>6, ExecutedStays DEF ValuesInv
<1>8. Underway'
  <2>1. \A i \in DOMAIN running' :
          HasResult(running'[i], ValuesOf(ideal', running'[i].ins),
                    revealedSecretsByParty', executionResults')
    BY <1>1, ResultsThere
  <2>2. \A q \in Queue : DOMAIN executionResults'[q] \subseteq 1..Len(running')
    <3> TAKE q \in Queue
    <3>1. IsSequence(scheduled[q]) /\ Len(scheduled[q]) <= Len(running)
      BY <1>1 DEF ValuesInv, QueuesFit
    <3>2. DOMAIN scheduled[q] = 1..Len(scheduled[q]) /\ Len(scheduled[q]) \in Nat
      BY <3>1, SequenceOfItsElements DEF IsSequence
    <3>3. Len(running) \in Nat
      BY RunningPlace DEF RunningStored
    <3>4. DOMAIN executionResults'[q] = DOMAIN scheduled[q]
      BY <1>1
    <3> QED BY <1>1, <3>1, <3>2, <3>3, <3>4
  <2> QED BY <1>1, <1>3, <2>1, <2>2 DEF Underway
<1>9. QueuesFit'
  BY <1>1, EmptySequence DEF NoOperations, QueuesFit
<1>10. SharesTyped'
  BY <1>1 DEF ValuesInv, SharesTyped
<1> QED BY <1>5, <1>7, <1>8, <1>9, <1>10 DEF ValuesInv

(* What CollectGate puts on the wires of a gate is what the gate computes: *)
(* an index that was never set is not that of a result.                    *)
LEMMA ResultCollected ==
  ASSUME IInv, OrderInv, LevelsFit, UnsetHasNoResult, ValuesInv, CollectGate,
         NEW gate, gate = gateAtHand
  PROVE  \/ /\ phase' = "collect"
            /\ wires' = setValues(wires, gate.outs, Outputs(gate, ValuesOf(ideal, gate.ins)))
         \/ /\ phase' = "thrown" /\ wires' = wires
            /\ Skipped(gate, ValuesOf(ideal, gate.ins))
<1> PICK operands : operands = ValuesOf(ideal, gate.ins)
  OBVIOUS
<1>1. phase = "collect" /\ position < Len(running)
  BY DEF CollectGate
<1>2. position + 1 \in DOMAIN running /\ gate = running[position + 1] /\ IsGate(gate)
  BY <1>1, AtHand
<1>3. WellFormed(gate) /\ ~isFree(gate.type)
  BY <1>1, <1>2, RunningKind, RunningOperands DEF ValuesInv, Underway
<1>4. HasResult(gate, operands, revealedSecretsByParty, executionResults)
  BY <1>1, <1>2 DEF ValuesInv, Underway
<1>5. CASE gate.type = "Output"
  <2> PICK x : x = RevealedTo(gate.party, operands[1])
    OBVIOUS
  <2>1. IsSequence(x)
    <3>1. IsSequence(operands[1])
      BY <1>2, <1>3, <1>5, RunningOperands DEF WellFormed
    <3> QED BY <3>1, ElementwiseType DEF RevealedTo
  <2>2. Slice(revealedSecretsByParty[gate.party][isBoolean(gate.allocator)], gate, x)
    BY <1>4, <1>5 DEF HasResult
  <2>3. Revealed(gate) = x
    BY <2>1, <2>2, SliceTaken DEF Revealed
  <2>4. Outputs(gate, operands) = <<x>>
    BY <1>5 DEF Outputs
  <2>5. wires' = setValues(wires, gate.outs, <<Revealed(gate)>>) /\ phase' = phase
    BY <1>5 DEF CollectGate, Revealed
  <2> QED BY <1>1, <2>3, <2>4, <2>5
<1>6. CASE gate.type # "Output"
  <2> PICK q, k, results : /\ q = QueueOf(gate) /\ k = gate.scheduledResultIndex + 1
                           /\ results = executionResults[q]
    OBVIOUS
  <2>1. \/ /\ k \in DOMAIN results
           /\ wires' = setValues(wires, gate.outs, results[k]) /\ phase' = phase
        \/ k \notin DOMAIN results /\ phase' = "thrown" /\ wires' = wires
    BY <1>6 DEF CollectGate
  <2>2. CASE Skipped(gate, operands)
    <3>1. gate.scheduledResultIndex \in UnsetIndex
      BY <1>4, <2>2 DEF HasResult
    <3>2. /\ gate.scheduledResultIndex \in Nat
          /\ gate.scheduledResultIndex >= MaxUnexecutedGates + 2
      BY <3>1, LazySchedulerAssumption DEF UnsetHasNoResult
    <3>3. q \in Queue
      BY <1>3, <2>2 DEF WellFormed, Skipped
    <3>4. DOMAIN results \subseteq 1..Len(running)
      BY <1>1, <3>3 DEF ValuesInv, Underway
    <3>5. Len(running) \in Nat /\ Len(running) <= MaxUnexecutedGates + 2
      BY RunningPlace DEF RunningStored, LevelsFit
    <3>6. k \notin DOMAIN results
      BY <3>2, <3>4, <3>5, GateKeeperAssumption
    <3> QED BY <2>1, <2>2, <3>6
  <2>3. CASE ~Skipped(gate, operands)
    <3>1. k \in DOMAIN results /\ results[k] = Outputs(gate, operands)
      BY <1>4, <1>6, <2>3 DEF HasResult
    <3> QED BY <1>1, <2>1, <3>1
  <2> QED BY <2>2, <2>3
<1> QED BY <1>5, <1>6

(* Collecting a result keeps the values. *)
LEMMA CollectKeepsValues ==
  ASSUME IInv, IInv', OrderInv, LevelsFit, UnsetHasNoResult, ValuesInv, CollectGate
  PROVE  ValuesInv'
<1> PICK gate, p : gate = gateAtHand /\ p = <<0, position + 1>>
  OBVIOUS
<1>1. /\ phase = "collect" /\ position < Len(running)
      /\ position' = position + 1 /\ running' = running /\ ideal' = ideal
      /\ firstUnexecutedLevel' = firstUnexecutedLevel
      /\ scheduled' = scheduled /\ executionResults' = executionResults
      /\ secretSharesByParty' = secretSharesByParty
      /\ revealedSecretsByParty' = revealedSecretsByParty
  BY DEF CollectGate, engineVars, callerVars
<1>2. /\ position \in Nat /\ position + 1 \in DOMAIN running
      /\ p \in Places /\ GateAt(p) = gate /\ gate = running[position + 1] /\ IsGate(gate)
      /\ ElementsOf(gate.outs) \subseteq DOMAIN wires
  BY <1>1, AtHand
<1>3. Places' = Places /\ \A q \in Places' : SameGate(GateAt(q)', GateAt(q))
  BY LoopKeepsGates
<1>4. ~runningLevelIsFree /\ ~runningLevelIsFree'
  BY <1>1 DEF ValuesInv, Underway, runningLevelIsFree, isLevelFree
<1>5. \/ /\ phase' = "collect"
         /\ wires' = setValues(wires, gate.outs, Outputs(gate, ValuesOf(ideal, gate.ins)))
      \/ /\ phase' = "thrown" /\ wires' = wires
         /\ Skipped(gate, ValuesOf(ideal, gate.ins))
  BY ResultCollected
<1>6. /\ Improves
      /\ phase' = "collect" => \A w \in ElementsOf(gate.outs) : wires'[w].v = ideal[w]
  <2>1. GateComputes(gate, wires, ideal) /\ gate.type # "Input"
    <3>1. ~isFree(gate.type)
      BY <1>2, <1>4, RunningKind
    <3> QED BY <1>2, <3>1 DEF ValuesInv, PlacesCompute, isFree, FreeTypes
  <2>2. CASE phase' = "collect"
    <3>1. wires' = setValues(wires, gate.outs, Outputs(gate, ValuesOf(ideal, gate.ins)))
      BY <1>5, <2>2
    <3> QED BY <1>1, <1>2, <2>1, <3>1, IdealStored
  <2>3. CASE phase' # "collect"
    <3>1. wires' = wires
      BY <1>5, <2>3
    <3> QED BY <1>1, <2>3, <3>1 DEF Improves
  <2> QED BY <2>2, <2>3
<1>7. SequenceValues' /\ PlacesCompute'
  BY <1>3, <1>6, GatesStillCompute DEF ValuesInv
<1>8. ExecutedValue'
  <2>1. ASSUME NEW q \in Places, ~HasRun(q), HasRun(q)'
        PROVE  q = p /\ phase' = "collect"
    <3>1. q = <<q[1], q[2]>> /\ q[1] \in Nat /\ q[2] \in Nat
      BY NamesAreStored DEF NamedStored
    <3> QED BY <1>1, <1>2, <1>4, <2>1, <3>1 DEF HasRun
  <2> QED BY <1>2, <1>3, <1>6, <2>1, ExecutedStays DEF ValuesInv
<1>9. Underway'
  <2>1. \/ phase' = "collect"
        \/ phase' = "thrown" /\ Skipped(gate, ValuesOf(ideal, gate.ins))
    BY <1>5
  <2> QED BY <1>1, <1>2, <1>4, <2>1 DEF ValuesInv, Underway
<1>10. QueuesFit'
  <2>1. \A q \in Queue : IsSequence(scheduled[q]) /\ Len(scheduled[q]) <= 0
    BY <1>1 DEF ValuesInv, QueuesFit
  <2> QED BY <1>1, <1>5, <2>1 DEF QueuesFit
<1>11. SharesTyped'
  BY <1>1 DEF ValuesInv, SharesTyped
<1> QED BY <1>7, <1>8, <1>9, <1>10, <1>11 DEF ValuesInv

(* Destroying the gates of a level keeps the values: all have run. *)
LEMMA DestroyKeepsValues ==
  ASSUME IInv, IInv', ValuesInv, DestroyGates PROVE ValuesInv'
<1>1. /\ position = Len(running)
      /\ phase = (IF runningLevelIsFree THEN "compute" ELSE "collect")
      /\ ideal' = [w \in DOMAIN wires' |-> ideal[w]] /\ phase' = "ready"
      /\ scheduled' = scheduled /\ secretSharesByParty' = NoSecrets
  BY DEF DestroyGates
<1>2. /\ Places' = PendingPlaces /\ Places' \subseteq Places
      /\ \A p \in Places' : SameGate(GateAt(p)', GateAt(p))
  BY DestroyKeepsGates
<1>3. Improves
  <2> PICK times : wires' = decreaseReferenceCounts(wires, times)
    BY DEF DestroyGates
  <2>1. /\ DOMAIN wires' \subseteq DOMAIN wires
        /\ \A w \in DOMAIN wires' :
             wires'[w] = [wires[w] EXCEPT !.referenceCount = @ - times[w]]
    BY DEF decreaseReferenceCounts
  <2>2. \A w \in DOMAIN wires : DOMAIN wires[w] = WireFields
    BY DEF IInv, TypeOK, WireFields
  <2> QED BY <1>1, <2>1, <2>2 DEF WireFields, Improves
<1>4. SequenceValues' /\ PlacesCompute'
  BY <1>2, <1>3, GatesStillCompute DEF ValuesInv
<1>5. ASSUME NEW p \in Places, ~HasRun(p) PROVE p \in Places' /\ ~HasRun(p)'
  <2>1. p \notin RunningPlaces
    <3> SUFFICES ASSUME NEW i \in DOMAIN running, p = <<0, i>> PROVE FALSE
      BY PendingPlace DEF IInv
    <3>1. i <= position
      BY <1>1, RunningPlace DEF RunningStored
    <3> QED BY <1>1, <1>5, <3>1 DEF HasRun
  <2>2. p \in PendingPlaces
    BY <2>1 DEF Places
  <2>3. p[1] # 0
    BY <2>2, PendingPlace DEF IInv
  <2> QED BY <1>2, <2>2, <2>3 DEF HasRun
<1>6. ExecutedValue'
  BY <1>2, <1>3, <1>5, ExecutedStays DEF ValuesInv
<1>7. Underway'
  BY <1>1 DEF Underway
<1>8. QueuesFit'
  <2>1. \A q \in Queue : IsSequence(scheduled[q]) /\ Len(scheduled[q]) <= 0
    BY <1>1 DEF ValuesInv, QueuesFit
  <2> QED BY <1>1, <2>1 DEF QueuesFit
<1>9. SharesTyped'
  BY <1>1, EmptySequence DEF SharesTyped, NoSecrets
<1> QED BY <1>4, <1>6, <1>7, <1>8, <1>9 DEF ValuesInv

-----------------------------------------------------------------------------
(* Creating a gate.                                                        *)

(* newGate puts the values on the new wires, and leaves the others alone.  *)
LEMMA NewGateValues ==
  ASSUME TypeOK, NEW gate, NEW level,
         NEW values, NEW sizes, DOMAIN values = 1..Len(values),
         newGate(gate, level, values, sizes)
  PROVE  /\ DOMAIN gate.outs = DOMAIN values
         /\ DOMAIN wires' = DOMAIN wires \cup ElementsOf(gate.outs)
         /\ ElementsOf(gate.outs) \cap DOMAIN wires = {}
         /\ \A w \in DOMAIN wires :
              wires'[w].v = wires[w].v /\ wires'[w].allocator = wires[w].allocator
         /\ \A w \in ElementsOf(gate.outs) :
              /\ PositionOf(gate.outs, w) \in DOMAIN values
              /\ wires'[w].v = values[PositionOf(gate.outs, w)]
              /\ wires'[w].allocator = gate.allocator
<1> DEFINE outs == gate.outs
           records == [i \in DOMAIN values |->
                         WireRecord(gate.allocator, values[i], sizes[i], level)]
           new == allocateValues(wires, outs, records)
<1>1. DOMAIN outs = DOMAIN values /\ ElementsOf(outs) \cap DOMAIN wires = {}
  BY DEF newGate, FreshWires, ElementsOf
<1>2. DOMAIN new = DOMAIN wires \cup ElementsOf(outs)
  BY DEF allocateValues, ElementsOf
<1>3. \A w \in DOMAIN wires : new[w] = wires[w] /\ DOMAIN wires[w] = WireFields
  BY DEF allocateValues, TypeOK, WireFields
<1>4. \A w \in ElementsOf(outs) :
        /\ PositionOf(outs, w) \in DOMAIN values
        /\ new[w].v = values[PositionOf(outs, w)] /\ DOMAIN new[w] = WireFields
        /\ new[w].allocator = gate.allocator
  <2> TAKE w \in ElementsOf(outs)
  <2> PICK k : k = PositionOf(outs, w)
    OBVIOUS
  <2>1. k \in DOMAIN values
    BY <1>1 DEF ElementsOf, PositionOf
  <2>2. new[w] = records[k]
    BY <1>1 DEF allocateValues, ElementsOf
  <2>3. new[w] = WireRecord(gate.allocator, values[k], sizes[k], level)
    BY <2>1, <2>2
  <2> HIDE DEF new
  <2>4. /\ new[w].v = values[k] /\ DOMAIN new[w] = WireFields
        /\ new[w].allocator = gate.allocator
    BY <2>3 DEF WireRecord, WireFields
  <2> QED BY <2>1, <2>4
<1>5. wires' = increaseReferenceCounts(new, TimesIn(Names(gate)))
  BY DEF newGate
<1> HIDE DEF new, records
<1> PICK times : wires' = increaseReferenceCounts(new, times)
  BY <1>5
<1>6. /\ DOMAIN wires' = DOMAIN new
      /\ \A w \in DOMAIN new : wires'[w] = [new[w] EXCEPT !.referenceCount = @ + times[w]]
  BY DEF increaseReferenceCounts
<1>7. \A w \in DOMAIN new : DOMAIN new[w] = WireFields
  BY <1>2, <1>3, <1>4
<1>8. \A w \in DOMAIN new : wires'[w].v = new[w].v /\ wires'[w].allocator = new[w].allocator
  BY <1>6, <1>7 DEF WireFields
<1> QED BY <1>1, <1>2, <1>3, <1>4, <1>6, <1>8

(* Creating a gate keeps the values: the new wires wait for the new gate. *)
LEMMA CreationKeepsValues ==
  ASSUME IInv, IInv', OrderInv, ValuesInv, Creating PROVE ValuesInv'
<1> PICK gate, m, values, sizes, ideals : CreatesGate(gate, m, values, sizes, ideals)
  BY DEF Creating
<1> PICK level : level = getOutputLevel(isFree(gate.type), m)
  OBVIOUS
<1> PICK p0 : p0 = NewPlace(level)
  OBVIOUS
<1>1. TypeOK /\ NamedStored /\ firstUnexecutedLevel \in Nat /\ DOMAIN ideal = DOMAIN wires
  BY NamesAreStored DEF IInv, TypeOK
<1>2. /\ IsGate(gate) /\ WellFormed(gate) /\ ElementsOf(gate.ins) \subseteq DOMAIN wires
      /\ DOMAIN values = 1..Len(values) /\ newGate(gate, level, values, sizes)
      /\ Receives(gate.outs, ideals)
      /\ ideals = IF gate.type = "Input" THEN values
                  ELSE Outputs(gate, IdealOf(gate.ins))
      /\ DOMAIN ideals = DOMAIN values
      /\ gate.type = "Input" => \A i \in DOMAIN values : IsSequence(values[i])
      /\ UNCHANGED <<executionVars, engineVars>>
  BY DEF CreatesGate
<1>3. /\ level \in Nat /\ firstUnexecutedLevel <= level
      /\ Places' = Places \cup {p0} /\ \A p \in Places : GateAt(p)' = GateAt(p)
      /\ GateAt(p0)' = gate /\ firstUnexecutedLevel' = firstUnexecutedLevel
      /\ p0 = <<TargetLevel(level), Len(GatesBefore(level)) + 1>>
  BY CreationPlace
<1> PICK outs : outs = gate.outs
  OBVIOUS
<1>4. /\ DOMAIN wires' = DOMAIN wires \cup ElementsOf(outs)
      /\ ElementsOf(outs) \cap DOMAIN wires = {}
      /\ \A w \in DOMAIN wires : wires'[w].v = wires[w].v
      /\ \A w \in ElementsOf(outs) : /\ PositionOf(outs, w) \in DOMAIN values
                                     /\ wires'[w].v = values[PositionOf(outs, w)]
  <2>1. /\ DOMAIN wires' = DOMAIN wires \cup ElementsOf(gate.outs)
        /\ ElementsOf(gate.outs) \cap DOMAIN wires = {}
        /\ \A w \in DOMAIN wires : wires'[w].v = wires[w].v
        /\ \A w \in ElementsOf(gate.outs) :
             /\ PositionOf(gate.outs, w) \in DOMAIN values
             /\ wires'[w].v = values[PositionOf(gate.outs, w)]
    <3>1. /\ TypeOK /\ DOMAIN values = 1..Len(values)
          /\ newGate(gate, level, values, sizes)
      BY <1>1, <1>2
    <3>2. /\ DOMAIN wires' = DOMAIN wires \cup ElementsOf(gate.outs)
          /\ ElementsOf(gate.outs) \cap DOMAIN wires = {}
          /\ \A w \in DOMAIN wires :
               wires'[w].v = wires[w].v /\ wires'[w].allocator = wires[w].allocator
          /\ \A w \in ElementsOf(gate.outs) :
               /\ PositionOf(gate.outs, w) \in DOMAIN values
               /\ wires'[w].v = values[PositionOf(gate.outs, w)]
               /\ wires'[w].allocator = gate.allocator
      BY <3>1, NewGateValues
    <3> QED BY <3>2
  <2> QED BY <2>1
<1>5. /\ \A w \in DOMAIN wires : ideal'[w] = ideal[w]
      /\ \A w \in ElementsOf(outs) : ideal'[w] = ideals[PositionOf(outs, w)]
      /\ DOMAIN ideal' = DOMAIN wires'
  BY <1>1, <1>2, <1>4 DEF Receives
<1> PICK in : in = ValuesOf(ideal, gate.ins)
  OBVIOUS
<1>6. /\ ideals = IF gate.type = "Input" THEN values ELSE Outputs(gate, in)
      /\ ValuesOf(ideal', gate.ins) = in
  <2>1. IdealOf(gate.ins) = in
    BY DEF IdealOf, ValuesOf
  <2>2. ValuesOf(ideal', gate.ins) = in
    BY <1>2, <1>5 DEF ValuesOf, ElementsOf
  <2> QED BY <1>2, <2>1, <2>2
<1>7. SequenceValues'
  <2>1. \A j \in DOMAIN values : IsSequence(ideals[j])
    <3> TAKE j \in DOMAIN values
    <3>1. CASE gate.type = "Input"
      BY <1>2, <1>6, <3>1
    <3>2. CASE gate.type # "Input"
      <4>1. \A i \in DOMAIN gate.ins : IsSequence(ideal[gate.ins[i]])
        BY <1>1, <1>2 DEF ValuesInv, SequenceValues, ElementsOf
      <4>2. /\ DOMAIN in = DOMAIN gate.ins /\ in = [i \in DOMAIN in |-> in[i]]
            /\ \A i \in DOMAIN in : IsSequence(in[i])
        BY <4>1 DEF ValuesOf
      <4>3. ideals = Outputs(gate, in) /\ j \in DOMAIN Outputs(gate, in)
        BY <1>2, <1>6, <3>2
      <4> QED BY <1>2, <3>2, <4>2, <4>3, OutputsType
    <3> QED BY <3>1, <3>2
  <2>2. \A w \in DOMAIN ideal' : IsSequence(ideal'[w])
    BY <1>1, <1>4, <1>5, <2>1 DEF ValuesInv, SequenceValues
  <2> QED BY <2>2 DEF SequenceValues
<1>8. PlacesCompute'
  <2>1. GateComputes(gate, wires', ideal')
    BY <1>4, <1>5, <1>6 DEF GateComputes
  <2>2. ASSUME NEW p \in Places
        PROVE  WellFormed(GateAt(p)) /\ GateComputes(GateAt(p), wires', ideal')
    <3> PICK g : g = GateAt(p)
      OBVIOUS
    <3>1. WellFormed(g) /\ GateComputes(g, wires, ideal)
      BY DEF ValuesInv, PlacesCompute
    <3>2. /\ IsGate(g) /\ ElementsOf(g.ins) \subseteq DOMAIN wires
          /\ ElementsOf(g.outs) \subseteq DOMAIN wires
      BY <1>1 DEF NamedStored
    <3>3. SameGate(g, g)
      BY DEF SameGate
    <3>4. GateComputes(g, wires', ideal')
      BY <1>4, <1>5, <3>1, <3>2, <3>3, ComputesStays
    <3> QED BY <3>1, <3>4
  <2> QED BY <1>2, <1>3, <2>1, <2>2 DEF PlacesCompute
<1>9. ExecutedValue'
  <2>1. ~HasRun(p0)'
    BY <1>1, <1>3 DEF HasRun, TargetLevel
  <2>2. \A p : HasRun(p)' <=> HasRun(p)
    BY <1>2, <1>3 DEF HasRun, runningLevelIsFree, isLevelFree, executionVars
  <2> SUFFICES ASSUME NEW w \in DOMAIN wires', wires'[w].v # ideal'[w]
               PROVE  \E p \in Places' : w \in ElementsOf(GateAt(p).outs)' /\ ~HasRun(p)'
    BY DEF ExecutedValue
  <2>3. CASE w \in ElementsOf(outs)
    <3>1. w \in ElementsOf(GateAt(p0).outs)'
      BY <1>3, <2>3 DEF ElementsOf
    <3> QED BY <1>3, <2>1, <3>1
  <2>4. CASE w \in DOMAIN wires
    <3>1. PICK p \in Places : w \in ElementsOf(GateAt(p).outs) /\ ~HasRun(p)
      BY <1>4, <1>5, <2>4 DEF ValuesInv, ExecutedValue
    <3>2. w \in ElementsOf(GateAt(p).outs)'
      BY <1>3, <3>1 DEF ElementsOf
    <3> QED BY <1>3, <2>2, <3>1, <3>2
  <2> QED BY <1>4, <2>3, <2>4
<1>10. Underway' /\ QueuesFit' /\ SharesTyped'
  BY <1>2, <1>3, <1>5, EngineStays DEF ValuesInv
<1> QED BY <1>7, <1>8, <1>9, <1>10 DEF ValuesInv

-----------------------------------------------------------------------------
(* The theorems.                                                           *)

(* Every step keeps the values. *)
LEMMA NextValues ==
  ASSUME IInv, IInv', OrderInv, LevelsFit, UnsetHasNoResult, ValuesInv, [Next]_vars
  PROVE  ValuesInv'
BY StepKinds, CreationKeepsValues, PopKeepsValues, ComputeKeepsValues, ExecuteKeepsValues,
   CollectKeepsValues, DestroyKeepsValues, ReferencesKeepValues, QuietKeepsValues

(* A new scheduler has no wires, gates or operations. *)
LEMMA InitValues == ASSUME Init PROVE ValuesInv
<1>1. /\ wires = << >> /\ gatesByLevelOffset = <<>> /\ running = <<>> /\ ideal = << >>
      /\ phase = "ready" /\ scheduled = NoOperations /\ secretSharesByParty = NoSecrets
  BY DEF Init, GateKeeperInit
<1>2. \A p : p \notin Places
  BY <1>1, EmptySequence DEF Places, PendingPlaces, RunningPlaces, LevelPlaces, Level
<1>3. DOMAIN wires = {} /\ DOMAIN ideal = {}
  BY <1>1, EmptySequence
<1>4. ExecutedValue /\ SequenceValues /\ PlacesCompute
  BY <1>2, <1>3 DEF ExecutedValue, SequenceValues, PlacesCompute
<1>5. Underway
  BY <1>1 DEF Underway
<1>6. QueuesFit
  BY <1>1, EmptySequence DEF QueuesFit, NoOperations
<1>7. SharesTyped
  BY <1>1, EmptySequence DEF SharesTyped, NoSecrets
<1> QED BY <1>4, <1>5, <1>6, <1>7 DEF ValuesInv

-----------------------------------------------------------------------------
(* How many gates there are.                                               *)

(* Creating a gate adds one to the counter. *)
LEMMA OneMoreGate ==
  ASSUME [Next]_vars, IInv
  PROVE  \/ numUnexecutedGates' <= numUnexecutedGates
         \/ /\ Idle \/ ~hasReachedBatchingLimit
            /\ numUnexecutedGates' = numUnexecutedGates + 1
<1> DEFINE one == numUnexecutedGates' = numUnexecutedGates + 1
<1>1. \A g, l, v, s : newGate(g, l, v, s) => one
  BY DEF newGate
<1>2. ASSUME NEW a \in Allocators, Input(a) PROVE Idle /\ one
  <2>1. \A v, out : inputGate(a, v, out) => one
    BY <1>1 DEF inputGate
  <2> QED BY <1>2, <2>1 DEF Input, MayCreate
<1>3. ASSUME NEW a \in Allocators, Open(a) PROVE Idle /\ one
  <2>1. \A w, party, out : outputGate(a, w, party, out) => one
    BY <1>1 DEF outputGate
  <2> QED BY <1>3, <2>1 DEF Open, MayCreate
<1>4. \A type, a, operands, out : normalGate(type, a, operands, out) => one
  BY <1>1 DEF normalGate
<1>5. ASSUME NEW a \in Allocators, And(a) PROVE Idle /\ one
  BY <1>4, <1>5 DEF And, MayCreate
<1>6. ASSUME NEW a \in Allocators, Xor(a) \/ Not(a) PROVE Idle /\ one
  BY <1>4, <1>6 DEF Xor, Not, MayCreate
<1>7. ASSUME NEW a \in {"bool", "boolBatch"}, CompositeAnd(a) PROVE Idle /\ one
  <2>1. \A type, left, rights, outs : compositeGate(type, a, left, rights, outs) => one
    BY <1>1 DEF compositeGate
  <2> QED BY <1>7, <2>1 DEF CompositeAnd, MayCreate
<1>8. Unbatching => Idle /\ one
  <2>1. \A w, strategy, outs : unbatching(w, strategy, outs) => one
    BY <1>1 DEF unbatching
  <2> QED BY <2>1 DEF Unbatching, MayCreate
<1>9. numUnexecutedGates \in Nat
  BY DEF IInv, TypeOK
<1>10. numUnexecutedGates' = numUnexecutedGates => numUnexecutedGates' <= numUnexecutedGates
  BY <1>9
<1>11. Return => \/ numUnexecutedGates' = numUnexecutedGates
                 \/ ~hasReachedBatchingLimit /\ one
  <2>1. \A src, out : batchingUp(src, out) => one
    BY <1>1 DEF batchingUp
  <2> QED BY <2>1 DEF Return, LoopContinues, keeperVars
<1>12. PopLevel => numUnexecutedGates' <= numUnexecutedGates
  BY PoppedGates
<1>13. ComputeGate \/ Execute \/ CollectGate \/ DestroyGates \/ UNCHANGED vars
         => numUnexecutedGates' = numUnexecutedGates
  BY DEF ComputeGate, Execute, CollectGate, DestroyGates, vars, keeperVars
<1>14. ASSUME NEW a \in Allocators, forceWire(a)
       PROVE  numUnexecutedGates' = numUnexecutedGates
  BY <1>14 DEF forceWire, keeperVars
<1>15. BatchingUp \/ IncreaseReferenceCount \/ DecreaseReferenceCount
         => numUnexecutedGates' = numUnexecutedGates
  BY DEF BatchingUp, IncreaseReferenceCount, DecreaseReferenceCount, keeperVars
<1> HIDE DEF one
<1>16. one => numUnexecutedGates' = numUnexecutedGates + 1
  BY DEF one
<1> QED BY <1>2, <1>3, <1>5, <1>6, <1>7, <1>8, <1>10, <1>11, <1>12, <1>13, <1>14, <1>15, <1>16
        DEF Next, Internal

(* Every step keeps the number of gates within the limit and two. *)
LEMMA NextFit ==
  ASSUME IInv, IInv', LimitInv, LevelsFit, [Next]_vars PROVE LevelsFit'
<1>1. /\ numUnexecutedGates \in Nat /\ numUnexecutedGates' \in Nat
      /\ MaxUnexecutedGates \in Nat
  BY GateKeeperAssumption DEF IInv, TypeOK
<1>2. numUnexecutedGates' <= MaxUnexecutedGates + 2
  <2>1. Idle => numUnexecutedGates <= MaxUnexecutedGates + 1
    BY DEF Idle, LimitInv
  <2>2. ~hasReachedBatchingLimit => numUnexecutedGates <= MaxUnexecutedGates
    BY <1>1 DEF hasReachedBatchingLimit
  <2>3. numUnexecutedGates <= MaxUnexecutedGates + 2
    BY DEF LevelsFit
  <2> QED BY <1>1, <2>1, <2>2, <2>3, OneMoreGate
<1>3. CASE PopLevel
  <2>1. /\ Len(running') \in Nat
        /\ numUnexecutedGates' = numUnexecutedGates - Len(running')
    BY <1>3, PoppedGates DEF PopLevel
  <2> QED BY <1>1, <1>2, <2>1 DEF LevelsFit
<1>4. CASE ComputeGate \/ Execute \/ CollectGate
  <2>1. DOMAIN running' = DOMAIN running
    BY <1>4, LoopKeepsGates
  <2>2. RunningStored => RunningStored'
    BY RunningPlace, PTL
  <2>3. /\ Len(running) \in Nat /\ DOMAIN running = 1..Len(running)
        /\ Len(running') \in Nat /\ DOMAIN running' = 1..Len(running')
    BY DEF IInv, TypeOK, IsLevel, IsSequence
  <2>4. Len(running') = Len(running)
    <3> PICK m \in Nat, n \in Nat : m = Len(running) /\ n = Len(running')
      BY <2>3
    <3>1. 1..m = 1..n
      BY <2>1, <2>3
    <3>2. m = n
      BY <3>1
    <3> QED BY <3>2
  <2> QED BY <1>2, <2>4 DEF LevelsFit
<1>5. CASE DestroyGates
  <2>1. Len(running') = 0
    BY <1>5 DEF DestroyGates
  <2> QED BY <1>1, <1>2, <2>1 DEF LevelsFit
<1>6. CASE Creating
  BY <1>2, <1>6 DEF Creating, CreatesGate, executionVars, LevelsFit
<1>7. CASE Quiet
  BY <1>2, <1>7 DEF Quiet, executionVars, LevelsFit
<1>8. CASE IncreaseReferenceCount \/ DecreaseReferenceCount
  BY <1>2, <1>8 DEF IncreaseReferenceCount, DecreaseReferenceCount, executionVars, LevelsFit
<1> QED BY <1>3, <1>4, <1>5, <1>6, <1>7, <1>8, StepKinds

-----------------------------------------------------------------------------
(* The theorems.                                                           *)

(* Neither the keeper nor a level ever has more gates than the limit and   *)
(* two.                                                                    *)
THEOREM GatesFit == Spec => []LevelsFit
<1>1. Init => LimitInv /\ LevelsFit
  BY GateKeeperAssumption DEF Init, GateKeeperInit, LimitInv, LevelsFit
<1>2. IInv /\ LimitInv /\ [Next]_vars => LimitInv'
  BY NextLimit
<1>3. IInv /\ IInv' /\ LimitInv /\ LevelsFit /\ [Next]_vars => LevelsFit'
  BY NextFit
<1> QED BY <1>1, <1>2, <1>3, Invariance, PTL DEF Spec

(* The invariant about the values holds in every state of LazyScheduler,   *)
(* when an index that was never set is not that of a result.               *)
THEOREM ValuesInvariance ==
  ASSUME UnsetHasNoResult PROVE Spec => []ValuesInv
<1>1. Init => ValuesInv
  BY InitValues
<1>2. IInv /\ IInv' /\ OrderInv /\ LevelsFit /\ ValuesInv /\ [Next]_vars => ValuesInv'
  BY NextValues
<1> QED BY <1>1, <1>2, Invariance, OrderInvariance, GatesFit, PTL DEF Spec

(* Once the gate that writes a wire has run, the wire holds the value the  *)
(* caller's expression has, in whatever order levels were executed.        *)
THEOREM ValuesAreRight ==
  ASSUME UnsetHasNoResult PROVE Spec => []ExecutedValue
<1>1. ValuesInv => ExecutedValue
  BY DEF ValuesInv
<1> QED BY <1>1, ValuesInvariance, PTL

(* The engine has a result for every gate that asks, except for an AND of  *)
(* two empty batches.                                                      *)
THEOREM ThrowsAreEmptyAnds ==
  ASSUME UnsetHasNoResult PROVE Spec => []OnlyEmptyAndThrows
<1>1. IInv /\ ValuesInv => OnlyEmptyAndThrows
  <2> SUFFICES ASSUME IInv, ValuesInv, phase = "thrown", NEW gate, gate = running[position]
               PROVE  gate.type = "NonFreeAnd" /\ ideal[gate.ins[1]] = <<>>
    BY DEF OnlyEmptyAndThrows
  <2>1. position \in DOMAIN running /\ Skipped(gate, ValuesOf(ideal, gate.ins))
    BY DEF ValuesInv, Underway
  <2>2. gate.type = "NonFreeAnd" /\ ValuesOf(ideal, gate.ins)[1] = <<>>
    BY <2>1 DEF Skipped
  <2>3. <<0, position>> \in Places /\ GateAt(<<0, position>>) = gate
    BY <2>1, RunningPlace DEF RunningStored
  <2>4. WellFormed(gate)
    BY <2>3 DEF ValuesInv, PlacesCompute
  <2>5. 1 \in DOMAIN gate.ins
    BY <2>2, <2>4 DEF WellFormed
  <2>6. ValuesOf(ideal, gate.ins)[1] = ideal[gate.ins[1]]
    BY <2>5 DEF ValuesOf
  <2> QED BY <2>2, <2>6
<1> QED BY <1>1, Invariance, ValuesInvariance, PTL

-----------------------------------------------------------------------------
(* That the lazy scheduler implements the eager one.  The calls that       *)
(* create a gate are the eager calls that compute it; the loops that       *)
(* execute levels are no steps at all; the end of a get call returns what  *)
(* a wire holds, which by then is what it should hold.                     *)

(* What the caller sees: the wires it holds references to. *)
StoreOf(ws, values, counts) ==
  [w \in {x \in DOMAIN values : counts[x] > 0} |->
     [allocator |-> ws[w].allocator, v |-> values[w], referenceCount |-> counts[w]]]
Store == StoreOf(wires, ideal, handles)

-----------------------------------------------------------------------------
(* The eager scheduler's operators.                                        *)

(* Both schedulers compute the same values. *)
LEMMA SameTotal == \A sizes : Eager!Total(sizes) = Total(sizes)
BY DEF Eager!Total, Total, Eager!Seqs!FoldLeft, Seqs!FoldLeft,
       Eager!Seqs!MapThenFoldSet, Seqs!MapThenFoldSet, Eager!Seqs!Max, Seqs!Max

(* Both schedulers compute the same values. *)
LEMMA SameValues ==
  /\ \A a, in : Eager!Products(a, in) = Products(a, in)
  /\ \A a, x, y : Eager!XorOf(a, x, y) = XorOf(a, x, y)
  /\ \A a, x : Eager!NotOf(a, x) = NotOf(a, x)
  /\ \A party, x : Eager!RevealedTo(party, x) = RevealedTo(party, x)
  /\ \A values : Eager!Concatenation(values) = Concatenation(values)
  /\ \A x, sizes : Eager!Pieces(x, sizes) = Pieces(x, sizes)
<1>1. \A x, sizes : Eager!Pieces(x, sizes) = Pieces(x, sizes)
  BY SameTotal DEF Eager!Pieces, Pieces
<1>2. \A values : Eager!Concatenation(values) = Concatenation(values)
  BY DEF Eager!Concatenation, Concatenation, Eager!Seqs!FlattenSeq, Seqs!FlattenSeq
<1> QED BY <1>1, <1>2
        DEF Eager!Products, Products, Eager!AndOf, AndOf, Eager!XorOf, XorOf, Eager!NotOf,
            NotOf, Eager!RevealedTo, RevealedTo, Eager!ZerosLike, ZerosLike,
            Eager!Modulus, Modulus

(* The caller can name the same wires, and they hold what they should. *)
LEMMA SameHeld ==
  ASSUME TypeOK
  PROVE  /\ \A a : Eager!Held(a) = Held(a)
         /\ \A a : \A w \in Held(a) : Eager!Value(w) = ideal[w]
         /\ \A a : \A w, x \in Held(a) : Eager!SameSize(w, x) <=> SameSize(w, x)
<1>1. DOMAIN ideal = DOMAIN wires
  BY DEF TypeOK
<1>2. \A a : Eager!Held(a) = Held(a)
  BY <1>1 DEF Eager!Held, Held
<1>3. \A a : \A w \in Held(a) : Eager!Value(w) = ideal[w]
  BY <1>1 DEF Eager!Value, Held
<1> QED BY <1>1, <1>2, <1>3 DEF Eager!SameSize, SameSize, Held

(* A call that creates a gate returns its values, to the caller's eye. *)
LEMMA CallReturns ==
  ASSUME IInv, NEW type, NEW a, NEW ins, NEW outs, NEW party, NEW strategy, NEW level,
         NEW values, DOMAIN values = 1..Len(values), NEW sizes,
         NEW ideals, Len(ideals) = Len(values), Len(values) \in Nat,
         newGate(Gate(type, a, ins, outs, party, strategy), level, values, sizes),
         Receives(outs, ideals)
  PROVE  Eager!Returns(a, ideals)
<1> PICK gate : gate = Gate(type, a, ins, outs, party, strategy)
  OBVIOUS
<1> PICK n \in Nat : n = Len(values)
  OBVIOUS
<1>1. /\ gate.outs = outs /\ gate.allocator = a /\ newGate(gate, level, values, sizes)
      /\ TypeOK
  BY DEF Gate, IInv
<1>2. /\ outs \in [1..n -> Wire \ DOMAIN wires]
      /\ \A i, j \in 1..n : outs[i] = outs[j] => i = j
  BY <1>1 DEF newGate, FreshWires
<1>3. \A w : Occurrences(outs, w) = IF w \in ElementsOf(outs) THEN 1 ELSE 0
  <2>1. outs \in Seq(Wire) /\ \A i, j \in DOMAIN outs : outs[i] = outs[j] => i = j
    BY <1>2
  <2> QED BY <2>1, OccursOnce
<1>4. /\ DOMAIN ideal = DOMAIN wires /\ DOMAIN wires \subseteq Wire
      /\ handles \in [Wire -> Nat]
  BY <1>1 DEF TypeOK
<1>5. \A w \in ElementsOf(outs) : w \in Wire \ DOMAIN wires /\ handles[w] = 0
  <2>1. ASSUME NEW w \in ElementsOf(outs) PROVE w \in Wire \ DOMAIN wires
    BY <1>2 DEF ElementsOf
  <2>2. \A w \in Wire : w \notin DOMAIN wires => ~(handles[w] > 0)
    BY HeldIsStored
  <2> QED BY <1>4, <2>1, <2>2
<1>6. /\ \A w \in DOMAIN wires : wires'[w].allocator = wires[w].allocator
      /\ \A w \in ElementsOf(outs) : wires'[w].allocator = a
  <2>1. /\ \A w \in DOMAIN wires : wires'[w].allocator = wires[w].allocator
        /\ \A w \in ElementsOf(gate.outs) : wires'[w].allocator = gate.allocator
    BY <1>1, NewGateValues, ZenonT(40)
  <2> QED BY <1>1, <2>1
<1>7. /\ handles' = [w \in Wire |-> handles[w] + Occurrences(outs, w)]
      /\ ideal' = [w \in DOMAIN ideal \cup ElementsOf(outs) |->
                     IF w \in ElementsOf(outs) THEN ideals[PositionOf(outs, w)]
                                               ELSE ideal[w]]
      /\ returned' = NoValue
  BY DEF Receives
<1>8. \A w \in Wire : handles'[w] = IF w \in ElementsOf(outs) THEN 1 ELSE handles[w]
  BY <1>3, <1>4, <1>5, <1>7
<1>9. {x \in DOMAIN ideal' : handles'[x] > 0} = DOMAIN Store \cup ElementsOf(outs)
  BY <1>4, <1>5, <1>7, <1>8 DEF Store, StoreOf
<1>10. Store' = [w \in DOMAIN Store \cup ElementsOf(outs) |->
                   IF w \in DOMAIN Store THEN Store[w]
                   ELSE [allocator |-> a, referenceCount |-> 1,
                         v |-> ideals[PositionOf(outs, w)]]]
  <2>1. Store' = StoreOf(wires', ideal', handles')
    BY DEF Store
  <2>2. ASSUME NEW w \in DOMAIN Store
        PROVE  /\ w \in DOMAIN wires /\ w \notin ElementsOf(outs)
               /\ Store[w] = [allocator |-> wires'[w].allocator, v |-> ideal'[w],
                              referenceCount |-> handles'[w]]
    <3>1. w \in DOMAIN wires /\ w \notin ElementsOf(outs) /\ w \in Wire
      BY <1>4, <1>5 DEF Store, StoreOf
    <3>2. Store[w] = [allocator |-> wires[w].allocator, v |-> ideal[w],
                      referenceCount |-> handles[w]]
      BY DEF Store, StoreOf
    <3> QED BY <1>4, <1>6, <1>7, <1>8, <3>1, <3>2
  <2>3. ASSUME NEW w \in ElementsOf(outs)
        PROVE  [allocator |-> a, referenceCount |-> 1, v |-> ideals[PositionOf(outs, w)]]
                 = [allocator |-> wires'[w].allocator, v |-> ideal'[w],
                    referenceCount |-> handles'[w]]
    BY <1>4, <1>5, <1>6, <1>7, <1>8
  <2> QED BY <1>9, <2>1, <2>2, <2>3 DEF StoreOf
<1>11. outs \in Eager!NewIds(Len(ideals))
  <2>1. outs \in [1..n -> Wire \ DOMAIN Store]
    BY <1>2, <1>4 DEF Store, StoreOf
  <2> QED BY <1>2, <2>1 DEF Eager!NewIds, Store, StoreOf
<1>12. Eager!allocate(a, outs, ideals)
  BY <1>10 DEF Eager!allocate, Store, StoreOf, ElementsOf, PositionOf
<1> QED BY <1>7, <1>11, <1>12 DEF Eager!Returns, Eager!NoValue, NoValue

-----------------------------------------------------------------------------
(* The calls that create a gate.                                           *)

(* The values of one wire, and of two. *)
LEMMA IdealOfFew ==
  /\ \A w : IdealOf(<<w>>) = <<ideal[w]>>
  /\ \A w, x : IdealOf(<<w, x>>) = <<ideal[w], ideal[x]>>
BY DEF IdealOf

(* There is one product for each operand but the first. *)
LEMMA ProductsLength ==
  ASSUME NEW a, NEW in, NEW n \in Nat, Len(in) = n + 1
  PROVE  Len(Products(a, in)) = n
<1> PICK s : s = Products(a, in)
  OBVIOUS
<1>1. s = [j \in 1..n |-> AndOf(a, in[1], in[j + 1])]
  BY DEF Products
<1>2. s = [j \in 1..n |-> s[j]]
  BY <1>1
<1>3. Len(s) = n
  BY <1>2, IndexedSequence
<1> QED BY <1>3

(* An input is an eager input. *)
LEMMA InputReturns == ASSUME IInv, NEW a \in Allocators, Input(a) PROVE Eager!Input(a)
<1> PICK v \in Inputs[a], out \in Wire : inputGate(a, v, out) /\ Creates(<<out>>, <<v>>)
  BY DEF Input
<1> PICK ins, outs, values, sizes, level :
      /\ ins = <<>> /\ outs = <<out>> /\ values = <<v>> /\ sizes = <<Len(v)>>
      /\ level = getOutputLevel(isFree("Input"), firstUnexecutedLevel)
  OBVIOUS
<1>1. newGate(Gate("Input", a, ins, outs, myId, <<>>), level, values, sizes)
  BY DEF inputGate
<1>2. Receives(outs, values)
  BY DEF Creates
<1>3. Len(values) \in Nat /\ DOMAIN values = 1..Len(values)
  BY OneValue
<1>4. Eager!Returns(a, values)
  BY <1>1, <1>2, <1>3, CallReturns
<1> QED BY <1>4 DEF Eager!Input

(* Opening is the eager opening. *)
LEMMA OpenReturns == ASSUME IInv, NEW a \in Allocators, Open(a) PROVE Eager!Open(a)
<1> PICK w \in Held(a), party \in Party, out \in Wire :
      /\ outputGate(a, w, party, out)
      /\ Creates(<<out>>, <<RevealedTo(party, ideal[w])>>)
  BY DEF Open
<1> PICK ins, outs, values, sizes, ideals, level :
      /\ ins = <<w>> /\ outs = <<out>> /\ values = <<Placeholder(a)>>
      /\ sizes = <<getBatchSize(w)>> /\ ideals = <<RevealedTo(party, ideal[w])>>
      /\ level = getOutputLevel(isFree("Output"), getMaxLevel(<<w>>))
  OBVIOUS
<1>1. newGate(Gate("Output", a, ins, outs, party, <<>>), level, values, sizes)
  BY DEF outputGate
<1>2. Receives(outs, ideals)
  BY DEF Creates
<1>3. /\ Len(values) \in Nat /\ DOMAIN values = 1..Len(values)
      /\ Len(ideals) = Len(values)
  BY OneValue
<1>4. Eager!Returns(a, ideals)
  BY <1>1, <1>2, <1>3, CallReturns
<1>5. w \in Eager!Held(a) /\ ideals = <<Eager!RevealedTo(party, Eager!Value(w))>>
  BY SameHeld, SameValues DEF IInv
<1> QED BY <1>4, <1>5 DEF Eager!Open

(* Gates of one or two operands. *)
LEMMA NormalGateReturns ==
  ASSUME IInv, NEW type, NEW a, NEW ins, NEW out, NEW ideals, Len(ideals) = 1,
         normalGate(type, a, ins, out), Creates(<<out>>, ideals)
  PROVE  Eager!Returns(a, ideals)
<1> PICK outs, values, sizes, level :
      /\ outs = <<out>> /\ values = <<Placeholder(a)>>
      /\ sizes = <<getBatchSize(ins[1])>>
      /\ level = getOutputLevel(isFree(type), getMaxLevel(ins))
  OBVIOUS
<1>1. newGate(Gate(type, a, ins, outs, myId, <<>>), level, values, sizes)
  BY DEF normalGate
<1>2. Receives(outs, ideals)
  BY DEF Creates
<1>3. /\ Len(values) \in Nat /\ DOMAIN values = 1..Len(values)
      /\ Len(ideals) = Len(values)
  BY OneValue
<1> QED BY <1>1, <1>2, <1>3, CallReturns

(* The AND is the eager AND, at whatever time its gate will run. *)
LEMMA AndReturns == ASSUME IInv, NEW a \in Allocators, And(a) PROVE Eager!And(a)
<1> PICK type \in {"FreeAnd", "NonFreeAnd"}, w \in Held(a), x \in Held(a), out \in Wire :
      /\ SameSize(w, x)
      /\ normalGate(type, a, <<w, x>>, out)
      /\ Creates(<<out>>, Products(a, IdealOf(<<w, x>>)))
  BY DEF And
<1> PICK ins, ideals : ins = <<w, x>> /\ ideals = Products(a, IdealOf(<<w, x>>))
  OBVIOUS
<1>1. Len(ideals) = 1
  <2>1. Len(IdealOf(ins)) = 1 + 1
    BY IdealOfFew
  <2> QED BY <2>1, ProductsLength
<1>2. Eager!Returns(a, ideals)
  <2>1. normalGate(type, a, ins, out) /\ Creates(<<out>>, ideals)
    OBVIOUS
  <2> QED BY <1>1, <2>1, NormalGateReturns
<1>3. TypeOK
  BY DEF IInv
<1>4. w \in Eager!Held(a) /\ x \in Eager!Held(a) /\ Eager!SameSize(w, x)
  BY <1>3, SameHeld
<1>5. ideals = Eager!Products(a, <<Eager!Value(w), Eager!Value(x)>>)
  BY <1>3, SameHeld, SameValues, IdealOfFew
<1> QED BY <1>2, <1>4, <1>5 DEF Eager!And

(* The XOR is the eager XOR. *)
LEMMA XorReturns == ASSUME IInv, NEW a \in Allocators, Xor(a) PROVE Eager!Xor(a)
<1> PICK w \in Held(a), x \in Held(a), out \in Wire :
      /\ SameSize(w, x)
      /\ normalGate("Xor", a, <<w, x>>, out)
      /\ Creates(<<out>>, <<XorOf(a, ideal[w], ideal[x])>>)
  BY DEF Xor
<1> PICK ideals : ideals = <<XorOf(a, ideal[w], ideal[x])>>
  OBVIOUS
<1>1. Len(ideals) = 1
  BY OneValue
<1>2. Eager!Returns(a, ideals)
  BY <1>1, NormalGateReturns
<1>3. TypeOK
  BY DEF IInv
<1>4. w \in Eager!Held(a) /\ x \in Eager!Held(a) /\ Eager!SameSize(w, x)
  BY <1>3, SameHeld
<1>5. ideals = <<Eager!XorOf(a, Eager!Value(w), Eager!Value(x))>>
  BY <1>3, SameHeld, SameValues
<1> QED BY <1>2, <1>4, <1>5 DEF Eager!Xor

(* The NOT is the eager NOT. *)
LEMMA NotReturns == ASSUME IInv, NEW a \in Allocators, Not(a) PROVE Eager!Not(a)
<1> PICK w \in Held(a), out \in Wire :
      normalGate("Not", a, <<w>>, out) /\ Creates(<<out>>, <<NotOf(a, ideal[w])>>)
  BY DEF Not
<1> PICK ideals : ideals = <<NotOf(a, ideal[w])>>
  OBVIOUS
<1>1. Len(ideals) = 1
  BY OneValue
<1>2. Eager!Returns(a, ideals)
  BY <1>1, NormalGateReturns
<1>3. w \in Eager!Held(a) /\ ideals = <<Eager!NotOf(a, Eager!Value(w))>>
  BY SameHeld, SameValues DEF IInv
<1> QED BY <1>2, <1>3 DEF Eager!Not

(* The composite AND is the eager one. *)
LEMMA CompositeReturns ==
  ASSUME IInv, NEW a \in {"bool", "boolBatch"}, CompositeAnd(a) PROVE Eager!CompositeAnd(a)
<1> PICK type \in {"FreeComposite", "NonFreeComposite"}, w \in Held(a), n \in 1..MaxRights :
      \E rights \in [1..n -> Held(a)], outs \in FreshWires(wires, n) :
        /\ \A i \in 1..n : SameSize(w, rights[i])
        /\ compositeGate(type, a, w, rights, outs)
        /\ Creates(outs, Products(a, IdealOf(<<w>> \o rights)))
  BY DEF CompositeAnd
<1> PICK rights \in [1..n -> Held(a)], outs \in FreshWires(wires, n) :
      /\ \A i \in 1..n : SameSize(w, rights[i])
      /\ compositeGate(type, a, w, rights, outs)
      /\ Creates(outs, Products(a, IdealOf(<<w>> \o rights)))
  OBVIOUS
<1> PICK ins, ideals : ins = <<w>> \o rights /\ ideals = Products(a, IdealOf(<<w>> \o rights))
  OBVIOUS
<1> PICK values, sizes, level :
      /\ values = [i \in DOMAIN rights |-> Placeholder(a)]
      /\ sizes = [i \in DOMAIN rights |-> getBatchSize(w)]
      /\ level = getOutputLevel(isFree(type), getMaxLevel(ins))
  OBVIOUS
<1>1. newGate(Gate(type, a, ins, outs, myId, <<>>), level, values, sizes)
  BY DEF compositeGate
<1>2. Receives(outs, ideals)
  BY DEF Creates
<1>3. n \in Nat /\ rights \in Seq(Held(a)) /\ DOMAIN rights = 1..n /\ Len(rights) = n
  BY LazySchedulerAssumption
<1>4. /\ DOMAIN ins = 1..n + 1 /\ ins[1] = w /\ \A i \in 1..n : ins[i + 1] = rights[i]
      /\ Len(ins) = n + 1
  BY <1>3
<1>5. IdealOf(ins) = <<ideal[w]>> \o [i \in 1..n |-> ideal[rights[i]]]
  <2> PICK s : s = [i \in 1..n |-> ideal[rights[i]]]
    OBVIOUS
  <2>1. s = [i \in 1..n |-> s[i]]
    OBVIOUS
  <2>2. IsSequence(s) /\ Len(s) = n
    BY <1>3, <2>1, IndexedSequence
  <2> PICK S : S = ElementsOf(s) \cup {ideal[w]}
    OBVIOUS
  <2>3. s \in Seq(S) /\ <<ideal[w]>> \in Seq(S)
    <3>1. s \in Seq(ElementsOf(s))
      BY <2>2 DEF IsSequence
    <3> QED BY <3>1
  <2> PICK t : t = <<ideal[w]>> \o s
    OBVIOUS
  <2>4. /\ t \in Seq(S) /\ Len(t) = n + 1 /\ t[1] = ideal[w]
        /\ \A i \in 1..n : t[i + 1] = s[i]
    BY <1>3, <2>2, <2>3
  <2>5. t = [i \in 1..n + 1 |-> t[i]]
    BY <2>4
  <2>6. \A i \in 1..n + 1 : t[i] = ideal[ins[i]]
    <3> TAKE i \in 1..n + 1
    <3>1. CASE i = 1
      BY <1>4, <2>4, <3>1
    <3>2. CASE i # 1
      <4> PICK j \in 1..n : i = j + 1
        <5>1. i - 1 \in 1..n /\ i = (i - 1) + 1
          BY <1>3, <3>2
        <5> QED BY <5>1
      <4> QED BY <1>4, <2>4
    <3> QED BY <3>1, <3>2
  <2>7. IdealOf(ins) = [i \in 1..n + 1 |-> ideal[ins[i]]]
    BY <1>4 DEF IdealOf
  <2>8. t = IdealOf(ins)
    BY <2>5, <2>6, <2>7
  <2> QED BY <2>8
<1>6. Len(ideals) = n
  <2>1. n + 1 \in Nat
    BY <1>3
  <2>2. Len(IdealOf(ins)) = n + 1
    BY <1>4, <2>1, LengthOfIdeal
  <2> QED BY <1>3, <2>2, ProductsLength
<1>7. DOMAIN values = 1..Len(values) /\ Len(values) = n
  <2>1. values = [i \in 1..n |-> values[i]]
    BY <1>3
  <2> QED BY <1>3, <2>1, IndexedSequence
<1>8. Eager!Returns(a, ideals)
  BY <1>1, <1>2, <1>3, <1>6, <1>7, CallReturns
<1>9. TypeOK
  BY DEF IInv
<1>10. /\ w \in Eager!Held(a) /\ rights \in [1..n -> Eager!Held(a)]
       /\ \A i \in 1..n : Eager!SameSize(w, rights[i])
  BY <1>9, SameHeld
<1>11. ideals = Eager!Products(a, <<Eager!Value(w)>> \o [i \in 1..n |-> Eager!Value(rights[i])])
  <2>1. Eager!Value(w) = ideal[w] /\ \A i \in 1..n : Eager!Value(rights[i]) = ideal[rights[i]]
    BY <1>9, SameHeld
  <2>2. [i \in 1..n |-> Eager!Value(rights[i])] = [i \in 1..n |-> ideal[rights[i]]]
    BY <2>1
  <2>3. IdealOf(ins) = <<Eager!Value(w)>> \o [i \in 1..n |-> Eager!Value(rights[i])]
    BY <1>5, <2>1, <2>2
  <2> QED BY <2>3, SameValues
<1> QED BY <1>8, <1>10, <1>11 DEF Eager!CompositeAnd

(* The unbatching is the eager one, when the caller makes sure that it is  *)
(* doable.                                                                 *)
LEMMA UnbatchingReturns ==
  ASSUME IInv, SequenceValues, Unbatching PROVE Eager!Unbatching
<1> PICK w \in Held("boolBatch"), strategy \in Strategies :
      /\ Total(strategy) <= Len(ideal[w])
      /\ \E outs \in FreshWires(wires, Len(strategy)) :
           unbatching(w, strategy, outs) /\ Creates(outs, Pieces(ideal[w], strategy))
  BY DEF Unbatching
<1> PICK outs \in FreshWires(wires, Len(strategy)) :
      unbatching(w, strategy, outs) /\ Creates(outs, Pieces(ideal[w], strategy))
  OBVIOUS
<1> PICK a, ins, x, ideals, values, level :
      /\ a = "boolBatch" /\ ins = <<w>> /\ x = ideal[w] /\ ideals = Pieces(x, strategy)
      /\ values = [i \in DOMAIN strategy |-> Placeholder("boolBatch")]
      /\ level = getOutputLevel(TRUE, getMaxLevel(<<w>>))
  OBVIOUS
<1> PICK n \in Nat : n = Len(strategy)
  BY LazySchedulerAssumption
<1>1. newGate(Gate("Unbatching", a, ins, outs, myId, strategy), level, values, strategy)
  BY DEF unbatching
<1>2. Receives(outs, ideals)
  BY DEF Creates
<1>3. strategy \in Seq(Nat) /\ DOMAIN strategy = 1..n
  BY LazySchedulerAssumption
<1>4. DOMAIN values = 1..Len(values) /\ Len(values) = n
  <2>1. values = [i \in 1..n |-> values[i]]
    BY <1>3
  <2> QED BY <2>1, IndexedSequence
<1>5. Len(ideals) = n
  <2>1. DOMAIN ideals = 1..n /\ ideals = [i \in DOMAIN ideals |-> ideals[i]]
    BY <1>3 DEF Pieces
  <2>2. ideals = [i \in 1..n |-> ideals[i]]
    BY <2>1
  <2> QED BY <2>2, IndexedSequence
<1>6. Eager!Returns(a, ideals)
  BY <1>1, <1>2, <1>4, <1>5, CallReturns
<1>7. TypeOK /\ DOMAIN ideal = DOMAIN wires
  BY DEF IInv, TypeOK
<1>8. w \in Eager!Held("boolBatch") /\ Eager!Value(w) = x
  BY <1>7, SameHeld
<1>9. Len(x) \in Nat
  <2>1. IsSequence(x)
    BY <1>7 DEF SequenceValues, Held
  <2> QED BY <2>1 DEF IsSequence
<1> DEFINE fits(k) == Eager!Total(SubSeq(strategy, 1, k)) <= Len(Eager!Value(w))
           fitting == CHOOSE k \in 0..Len(strategy) :
                        fits(k) /\ \A j \in k + 1..Len(strategy) : ~fits(j)
<1>10. SubSeq(strategy, 1, n) = strategy
  <2>1. strategy = [i \in 1..n |-> strategy[i]]
    BY <1>3
  <2>2. SubSeq(strategy, 1, n) = [i \in 1..n |-> strategy[i]]
    BY <1>3
  <2> QED BY <2>1, <2>2
<1>11. fitting = n
  <2>1. fits(n)
    BY <1>8, <1>10, SameTotal
  <2>2. n \in 0..n /\ \A j \in n + 1..n : ~fits(j)
    OBVIOUS
  <2>3. \A k \in 0..n : k # n => n \in k + 1..n
    OBVIOUS
  <2> HIDE DEF fits
  <2>4. \A k \in 0..n : fits(k) /\ (\A j \in k + 1..n : ~fits(j)) => k = n
    BY <2>1, <2>3
  <2> QED BY <2>1, <2>2, <2>4
<1> HIDE DEF fitting
<1>12. Eager!Pieces(Eager!Value(w), SubSeq(strategy, 1, fitting)) = ideals
  BY <1>8, <1>10, <1>11, SameValues
<1> PICK ids \in Eager!NewIds(n) : Eager!allocate(a, ids, ideals)
  BY <1>5, <1>6 DEF Eager!Returns
<1>13. ids \in Eager!NewIds(fitting)
  BY <1>11
<1>14. Eager!allocate("boolBatch", ids,
                      Eager!Pieces(Eager!Value(w), SubSeq(strategy, 1, fitting)))
  BY <1>12 DEF Eager!allocate
<1>15. returned' = IF fitting = Len(strategy) THEN Eager!NoValue ELSE Eager!Thrown
  BY <1>6, <1>11 DEF Eager!Returns
<1>16. w \in Eager!Held("boolBatch")
  BY <1>8
<1> USE DEF fitting
<1> QED BY ONLY <1>13, <1>14, <1>15, <1>16, Zenon DEF Eager!Unbatching

-----------------------------------------------------------------------------
(* The caller's references.                                                *)

(* Changing the count of a record changes nothing else. *)
LEMMA CountChanges ==
  \A a, v, m, n : [[allocator |-> a, v |-> v, referenceCount |-> m]
                     EXCEPT !.referenceCount = n]
                   = [allocator |-> a, v |-> v, referenceCount |-> n]
OBVIOUS

(* A wire the caller holds is stored. *)
HeldStored == \A w \in Wire : handles[w] > 0 => w \in DOMAIN wires

(* It is, in every state and the next. *)
LEMMA NextHeldIsStored == IInv' => HeldStored'
<1>1. IInv => HeldStored
  BY HeldIsStored DEF HeldStored
<1> QED BY <1>1, PTL

(* Another reference is one to the eager scheduler too. *)
LEMMA IncreaseReturns ==
  ASSUME IInv, IncreaseReferenceCount PROVE Eager!IncreaseReferenceCount
<1> PICK w \in DOMAIN wires :
      /\ handles[w] \in 1..MaxReferences - 1
      /\ wires' = increaseReferenceCounts(wires, OnceFor(w))
      /\ handles' = [handles EXCEPT ![w] = @ + 1]
  BY DEF IncreaseReferenceCount
<1>1. /\ DOMAIN ideal = DOMAIN wires /\ DOMAIN wires \subseteq Wire
      /\ handles \in [Wire -> Nat] /\ MaxReferences \in Nat
      /\ \A x \in DOMAIN wires : DOMAIN wires[x] = WireFields
  BY LazySchedulerAssumption DEF IInv, TypeOK, WireFields
<1>2. ideal' = ideal /\ returned' = NoValue
  BY DEF IncreaseReferenceCount
<1> PICK times : wires' = increaseReferenceCounts(wires, times)
  OBVIOUS
<1>3. \A x \in DOMAIN wires : wires'[x].allocator = wires[x].allocator
  <2>1. \A x \in DOMAIN wires :
          wires'[x] = [wires[x] EXCEPT !.referenceCount = @ + times[x]]
    BY DEF increaseReferenceCounts
  <2> QED BY <1>1, <2>1 DEF WireFields
<1>4. /\ \A x \in DOMAIN wires : handles'[x] > 0 <=> handles[x] > 0
      /\ handles'[w] = handles[w] + 1 /\ \A x \in DOMAIN wires \ {w} : handles'[x] = handles[x]
  BY <1>1
<1>5. w \in DOMAIN Store /\ Store[w].referenceCount < MaxReferences
  BY <1>1 DEF Store, StoreOf
<1>6. Store' = [Store EXCEPT ![w].referenceCount = @ + 1]
  <2> PICK s : s = [Store EXCEPT ![w].referenceCount = @ + 1]
    OBVIOUS
  <2>1. Store' = StoreOf(wires', ideal', handles')
    BY DEF Store
  <2>2. /\ DOMAIN Store = {x \in DOMAIN ideal : handles[x] > 0}
        /\ \A x \in DOMAIN Store : Store[x] = [allocator |-> wires[x].allocator,
                                               v |-> ideal[x], referenceCount |-> handles[x]]
    BY DEF Store, StoreOf
  <2>3. {x \in DOMAIN ideal' : handles'[x] > 0} = DOMAIN Store
    BY <1>1, <1>2, <1>4, <2>2
  <2>4. ASSUME NEW x \in DOMAIN Store
        PROVE  s[x] = [allocator |-> wires'[x].allocator, v |-> ideal'[x],
                       referenceCount |-> handles'[x]]
    <3>1. Store[x] = [allocator |-> wires'[x].allocator, v |-> ideal'[x],
                      referenceCount |-> handles[x]] /\ x \in DOMAIN wires
      BY <1>1, <1>2, <1>3, <2>2
    <3>2. CASE x = w
      <4>1. s[x] = [Store[x] EXCEPT !.referenceCount = handles[x] + 1]
        BY <3>1, <3>2
      <4> QED BY <1>4, <3>1, <3>2, <4>1, CountChanges
    <3>3. CASE x # w
      BY <1>4, <3>1, <3>3
    <3> QED BY <3>2, <3>3
  <2>5. DOMAIN s = DOMAIN Store /\ s = [x \in DOMAIN Store |-> s[x]]
    BY DEF Store, StoreOf
  <2> QED BY <2>1, <2>3, <2>4, <2>5 DEF StoreOf
<1> QED BY <1>2, <1>5, <1>6 DEF Eager!IncreaseReferenceCount, Eager!NoValue, NoValue, Store, StoreOf

(* Giving a reference back is that to the eager scheduler too: the wire is *)
(* gone to the caller's eye with its last reference, though a gate may     *)
(* still need it.                                                          *)
LEMMA DecreaseReturns ==
  ASSUME IInv, IInv', DecreaseReferenceCount PROVE Eager!DecreaseReferenceCount
<1> PICK w \in DOMAIN wires :
      /\ handles[w] > 0
      /\ wires' = decreaseReferenceCounts(wires, OnceFor(w))
      /\ handles' = [handles EXCEPT ![w] = @ - 1]
  BY DEF DecreaseReferenceCount
<1>1. /\ DOMAIN ideal = DOMAIN wires /\ DOMAIN wires \subseteq Wire
      /\ handles \in [Wire -> Nat]
      /\ \A x \in DOMAIN wires : DOMAIN wires[x] = WireFields
  BY DEF IInv, TypeOK, WireFields
<1>2. ideal' = [x \in DOMAIN wires' |-> ideal[x]] /\ returned' = NoValue
  BY DEF DecreaseReferenceCount
<1> PICK times : wires' = decreaseReferenceCounts(wires, times)
  OBVIOUS
<1>3. /\ DOMAIN wires' \subseteq DOMAIN wires
      /\ \A x \in DOMAIN wires' : wires'[x].allocator = wires[x].allocator
  <2>1. /\ DOMAIN wires' \subseteq DOMAIN wires
        /\ \A x \in DOMAIN wires' :
             wires'[x] = [wires[x] EXCEPT !.referenceCount = @ - times[x]]
    BY DEF decreaseReferenceCounts
  <2> QED BY <1>1, <2>1 DEF WireFields
<1>4. /\ handles[w] \in Nat /\ handles'[w] = handles[w] - 1
      /\ \A x \in DOMAIN wires \ {w} : handles'[x] = handles[x]
  BY <1>1
<1>5. \A x \in Wire : handles'[x] > 0 => x \in DOMAIN wires'
  BY NextHeldIsStored DEF HeldStored
<1>6. /\ DOMAIN Store = {x \in DOMAIN ideal : handles[x] > 0}
      /\ \A x \in DOMAIN Store : Store[x] = [allocator |-> wires[x].allocator,
                                             v |-> ideal[x], referenceCount |-> handles[x]]
  BY DEF Store, StoreOf
<1>7. w \in DOMAIN Store /\ Store[w].referenceCount = handles[w]
  <2>1. w \in DOMAIN Store
    BY <1>1, <1>6
  <2>2. Store[w] = [allocator |-> wires[w].allocator, v |-> ideal[w],
                    referenceCount |-> handles[w]]
    BY <1>6, <2>1
  <2> QED BY <2>1, <2>2
<1>8. Store' = StoreOf(wires', ideal', handles')
  BY DEF Store
<1>9. CASE handles[w] = 1
  <2>1. {x \in DOMAIN ideal' : handles'[x] > 0} = DOMAIN Store \ {w}
    BY <1>1, <1>2, <1>3, <1>4, <1>5, <1>6, <1>9
  <2>2. \A x \in DOMAIN Store \ {w} :
          Store[x] = [allocator |-> wires'[x].allocator, v |-> ideal'[x],
                      referenceCount |-> handles'[x]]
    BY <1>1, <1>2, <1>3, <1>4, <1>5, <1>6
  <2>3. Store' = [x \in DOMAIN Store \ {w} |-> Store[x]]
    BY <1>8, <2>1, <2>2 DEF StoreOf
  <2>4. Store' = IF Store[w].referenceCount = 1 THEN [x \in DOMAIN Store \ {w} |-> Store[x]]
                 ELSE [Store EXCEPT ![w].referenceCount = @ - 1]
    BY <1>7, <1>9, <2>3
  <2> QED BY <1>2, <1>7, <2>4 DEF Eager!DecreaseReferenceCount, Eager!NoValue, NoValue, Store, StoreOf
<1>10. CASE handles[w] # 1
  <2> PICK s : s = [Store EXCEPT ![w].referenceCount = @ - 1]
    OBVIOUS
  <2>1. {x \in DOMAIN ideal' : handles'[x] > 0} = DOMAIN Store
    BY <1>1, <1>2, <1>3, <1>4, <1>5, <1>6, <1>10
  <2>2. ASSUME NEW x \in DOMAIN Store
        PROVE  s[x] = [allocator |-> wires'[x].allocator, v |-> ideal'[x],
                       referenceCount |-> handles'[x]]
    <3>1. x \in DOMAIN ideal' /\ x \in DOMAIN wires
      BY <1>1, <1>6, <2>1
    <3>2. Store[x] = [allocator |-> wires'[x].allocator, v |-> ideal'[x],
                      referenceCount |-> handles[x]]
      BY <1>2, <1>3, <1>6, <3>1
    <3>3. CASE x = w
      <4>1. s[x] = [Store[x] EXCEPT !.referenceCount = handles[x] - 1]
        BY <3>2, <3>3
      <4> QED BY <1>4, <3>2, <3>3, <4>1, CountChanges
    <3>4. CASE x # w
      BY <1>4, <3>1, <3>2, <3>4
    <3> QED BY <3>3, <3>4
  <2>3. DOMAIN s = DOMAIN Store /\ s = [x \in DOMAIN Store |-> s[x]]
    BY DEF Store, StoreOf
  <2>4. Store' = s
    BY <1>8, <2>1, <2>2, <2>3 DEF StoreOf
  <2>5. Store' = IF Store[w].referenceCount = 1 THEN [x \in DOMAIN Store \ {w} |-> Store[x]]
                 ELSE [Store EXCEPT ![w].referenceCount = @ - 1]
    BY <1>7, <1>10, <2>4
  <2> QED BY <1>2, <1>7, <2>5 DEF Eager!DecreaseReferenceCount, Eager!NoValue, NoValue, Store, StoreOf
<1> QED BY <1>9, <1>10

-----------------------------------------------------------------------------
(* The calls under way.                                                    *)

(* The call under way: a get call waits for the level its wire is          *)
(* available at, and a batchingUp has the operands it was given.           *)
CallInv ==
  /\ call.kind = "force" =>
       /\ 1 \in DOMAIN call.ins
       /\ wires[call.ins[1]].firstAvailableLevel <= call.level
  /\ call.kind = "batchingUp" =>
       /\ Len(call.ins) \in 1..MaxRights
       /\ \A i \in DOMAIN call.ins : wires[call.ins[i]].allocator = "boolBatch"

(* A step after which the caller sees what it saw, and waits for what it   *)
(* waited for.                                                             *)
Unseen ==
  /\ call' = call /\ returned' = returned /\ handles' = handles
  /\ \A w \in DOMAIN wires' :
       /\ w \in DOMAIN wires /\ ideal'[w] = ideal[w]
       /\ wires'[w].allocator = wires[w].allocator
       /\ wires'[w].firstAvailableLevel = wires[w].firstAvailableLevel

(* The loops that execute levels are such steps. *)
LEMMA LoopsUnseen ==
  ASSUME IInv, IInv',
         PopLevel \/ ComputeGate \/ Execute \/ CollectGate \/ DestroyGates
  PROVE  Unseen
<1>1. CASE PopLevel
  BY <1>1 DEF PopLevel, callerVars, Unseen
<1>2. CASE ComputeGate \/ Execute \/ CollectGate
  <2>1. SameRecords
    BY <1>2, LoopKeepsGates
  <2>2. UNCHANGED <<call, returned, handles, ideal>>
    BY <1>2 DEF ComputeGate, Execute, CollectGate, callerVars
  <2> QED BY <2>1, <2>2 DEF SameRecords, Unseen
<1>3. CASE DestroyGates
  <2>1. UNCHANGED <<call, returned, handles>> /\ ideal' = [w \in DOMAIN wires' |-> ideal[w]]
    BY <1>3 DEF DestroyGates
  <2> PICK times : wires' = decreaseReferenceCounts(wires, times)
    BY <1>3 DEF DestroyGates
  <2>2. /\ DOMAIN wires' \subseteq DOMAIN wires
        /\ \A w \in DOMAIN wires' :
             wires'[w] = [wires[w] EXCEPT !.referenceCount = @ - times[w]]
    BY DEF decreaseReferenceCounts
  <2>3. \A w \in DOMAIN wires : DOMAIN wires[w] = WireFields
    BY DEF IInv, TypeOK, WireFields
  <2> QED BY <2>1, <2>2, <2>3 DEF WireFields, Unseen
<1> QED BY <1>1, <1>2, <1>3

(* The caller still holds what it held. *)
LEMMA UnseenStutters == ASSUME IInv, IInv', Unseen PROVE Store' = Store
<1>1. /\ DOMAIN ideal = DOMAIN wires /\ DOMAIN ideal' = DOMAIN wires'
      /\ DOMAIN wires \subseteq Wire
  BY DEF IInv, TypeOK
<1>2. \A w \in Wire : handles'[w] > 0 => w \in DOMAIN wires'
  BY NextHeldIsStored DEF HeldStored
<1>3. /\ handles' = handles
      /\ \A w \in DOMAIN wires' : /\ w \in DOMAIN wires /\ ideal'[w] = ideal[w]
                                  /\ wires'[w].allocator = wires[w].allocator
  BY DEF Unseen
<1>4. {x \in DOMAIN ideal' : handles'[x] > 0} = {x \in DOMAIN ideal : handles[x] > 0}
  BY <1>1, <1>2, <1>3
<1>5. Store' = StoreOf(wires', ideal', handles')
  BY DEF Store
<1> QED BY <1>1, <1>3, <1>4, <1>5 DEF Store, StoreOf

(* What a step does to the call under way. *)
LEMMA CallSteps ==
  ASSUME [Next]_vars
  PROVE  \/ call'.kind \in {"idle", "limit"}
         \/ \E a \in Allocators : forceWire(a)
         \/ BatchingUp
         \/ PopLevel \/ ComputeGate \/ Execute \/ CollectGate \/ DestroyGates
         \/ UNCHANGED vars
<1>1. \A outs, ideals : Creates(outs, ideals) => call'.kind = "limit"
  BY DEF Creates, Becomes
<1>2. ASSUME NEW a, Input(a) \/ Open(a) \/ And(a) PROVE call'.kind = "limit"
  BY <1>1, <1>2 DEF Input, Open, And
<1>3. ASSUME NEW a, Xor(a) \/ Not(a) PROVE call'.kind = "limit"
  BY <1>1, <1>3 DEF Xor, Not
<1>4. ASSUME NEW a, CompositeAnd(a) PROVE call'.kind = "limit"
  BY <1>1, <1>4 DEF CompositeAnd
<1>5. Unbatching => call'.kind = "limit"
  BY <1>1 DEF Unbatching
<1>6. Return => call'.kind = "idle"
  BY DEF Return, Becomes
<1>7. IncreaseReferenceCount \/ DecreaseReferenceCount => call'.kind = "idle"
  BY DEF IncreaseReferenceCount, DecreaseReferenceCount, Idle
<1> QED BY <1>2, <1>3, <1>4, <1>5, <1>6, <1>7 DEF Next, Internal

(* Every step keeps the invariant about the call. *)
LEMMA NextCall == ASSUME IInv, IInv', CallInv, [Next]_vars PROVE CallInv'
<1>1. CASE call'.kind \in {"idle", "limit"}
  BY <1>1 DEF CallInv
<1>2. CASE PopLevel \/ ComputeGate \/ Execute \/ CollectGate \/ DestroyGates
  <2>1. Unseen
    BY <1>2, LoopsUnseen
  <2>2. \A w \in Wire : handles'[w] > 0 => w \in DOMAIN wires'
    BY NextHeldIsStored DEF HeldStored
  <2>3. /\ call.ins \in Seq(Wire)
        /\ call.kind # "idle" => \A w \in ElementsOf(call.ins) : handles[w] > 0
    BY DEF IInv, TypeOK, Idle
  <2>4. call.kind # "idle" =>
          \A i \in DOMAIN call.ins :
            /\ wires'[call.ins[i]].allocator = wires[call.ins[i]].allocator
            /\ wires'[call.ins[i]].firstAvailableLevel
                 = wires[call.ins[i]].firstAvailableLevel
    BY <2>1, <2>2, <2>3 DEF Unseen, ElementsOf
  <2> QED BY <2>1, <2>4 DEF CallInv, Unseen
<1>3. ASSUME NEW a \in Allocators, forceWire(a) PROVE CallInv'
  <2> PICK w \in Held(a) : Becomes("force", getMaxLevel(<<w>>), <<w>>)
    BY <1>3 DEF forceWire
  <2> PICK ins : ins = <<w>>
    OBVIOUS
  <2>1. ins \in Seq(DOMAIN wires) /\ w \in ElementsOf(ins) /\ wires' = wires
    BY <1>3 DEF Held, ElementsOf, forceWire, keeperVars
  <2>2. TypeOK /\ LevelsExist
    BY DEF IInv
  <2>3. wires[w].firstAvailableLevel <= getMaxLevel(ins)
    BY <2>1, <2>2, MaxLevelBounds
  <2>4. call' = [kind |-> "force", level |-> getMaxLevel(ins), ins |-> ins]
    BY DEF Becomes
  <2> PICK level : level = getMaxLevel(ins)
    OBVIOUS
  <2>5. call'.kind = "force" /\ call'.level = level /\ call'.ins = ins
    BY <2>4
  <2> QED BY <2>1, <2>3, <2>5 DEF CallInv
<1>4. CASE BatchingUp
  <2> PICK n \in 1..MaxRights : \E src \in [1..n -> Held("boolBatch")] :
        Becomes("batchingUp", 0, src)
    BY <1>4 DEF BatchingUp
  <2> PICK src \in [1..n -> Held("boolBatch")] : Becomes("batchingUp", 0, src)
    OBVIOUS
  <2>1. call'.kind = "batchingUp" /\ call'.ins = src /\ wires' = wires
    BY <1>4 DEF Becomes, BatchingUp, keeperVars
  <2>2. DOMAIN src = 1..n /\ Len(src) = n /\ n \in Nat
    BY LazySchedulerAssumption
  <2>3. \A i \in 1..n : wires[src[i]].allocator = "boolBatch"
    BY DEF Held
  <2> QED BY <2>1, <2>2, <2>3 DEF CallInv
<1>5. CASE UNCHANGED vars
  BY <1>5 DEF vars, keeperVars, CallInv
<1> QED BY <1>1, <1>2, <1>3, <1>4, <1>5, CallSteps

-----------------------------------------------------------------------------
(* The ends of calls.                                                      *)

(* When a get call ends, the level of the gate that writes its wire has    *)
(* been executed, so the wire holds what it should.                        *)
LEMMA ForcedValue ==
  ASSUME IInv, OrderInv, ValuesInv, CallInv, Return, call.kind = "force"
  PROVE  \E a \in Allocators : Eager!Get(a)
<1> PICK w : w = call.ins[1]
  OBVIOUS
<1>1. 1 \in DOMAIN call.ins /\ wires[w].firstAvailableLevel <= call.level
  BY DEF CallInv
<1>2. w \in Wire /\ handles[w] > 0
  <2>1. call.ins \in Seq(Wire) /\ \A x \in ElementsOf(call.ins) : handles[x] > 0
    BY DEF IInv, TypeOK, Idle
  <2> QED BY <1>1, <2>1 DEF ElementsOf
<1>3. w \in DOMAIN wires
  BY <1>2, HeldIsStored
<1>4. /\ phase = "ready" /\ running = <<>> /\ ~(firstUnexecutedLevel <= call.level)
      /\ returned' = wires[w].v /\ UNCHANGED <<keeperVars, callerVars>>
  BY DEF Return, LoopContinues, IInv
<1>5. wires[w].v = ideal[w]
  <2> SUFFICES ASSUME NEW p \in Places, w \in ElementsOf(GateAt(p).outs) PROVE FALSE
    BY <1>3 DEF ValuesInv, ExecutedValue
  <2>1. p \in PendingPlaces
    BY <1>4, EmptySequence DEF Places, RunningPlaces, LevelPlaces, Level
  <2>2. p[1] \in Nat \ {0}
    <3>1. IsSequence(gatesByLevelOffset)
      BY DEF IInv, TypeOK
    <3>2. DOMAIN gatesByLevelOffset = 1..Len(gatesByLevelOffset)
      BY <3>1, SequenceOfItsElements DEF IsSequence
    <3>3. PICK k \in DOMAIN gatesByLevelOffset : p \in LevelPlaces(k)
      BY <2>1 DEF PendingPlaces
    <3> QED BY <3>2, <3>3 DEF LevelPlaces
  <2>3. wires[w].firstAvailableLevel = firstUnexecutedLevel + p[1] - 1
    BY DEF OrderInv, OutputsHere, AbsoluteLevel
  <2>4. firstUnexecutedLevel \in Nat /\ call.level \in Nat
    BY DEF IInv, TypeOK
  <2> QED BY <1>1, <1>4, <2>2, <2>3, <2>4
<1>6. wires[w].allocator \in Allocators /\ TypeOK
  BY <1>3 DEF IInv, TypeOK
<1> PICK a \in Allocators : a = wires[w].allocator
  BY <1>6
<1>7. w \in Held(a)
  BY <1>2, <1>3 DEF Held
<1>8. w \in Eager!Held(a) /\ returned' = Eager!Value(w)
  BY <1>4, <1>5, <1>6, <1>7, SameHeld
<1>9. Store' = Store
  BY <1>4 DEF Store, keeperVars, callerVars
<1>10. Eager!Get(a)
  BY <1>8, <1>9 DEF Eager!Get, Store, StoreOf
<1> QED BY <1>10

(* When a batchingUp ends, it creates the gate it was called for. *)
LEMMA BatchingReturns ==
  ASSUME IInv, CallInv, Return, call.kind = "batchingUp" PROVE Eager!BatchingUp
<1> PICK src : src = call.ins
  OBVIOUS
<1> PICK out \in Wire : /\ batchingUp(src, out)
                        /\ Receives(<<out>>, <<Concatenation(IdealOf(src))>>)
  BY DEF Return
<1> PICK outs, ideals, values, sizes, level :
      /\ outs = <<out>> /\ ideals = <<Concatenation(IdealOf(src))>>
      /\ values = <<Placeholder("boolBatch")>>
      /\ sizes = <<Total([i \in DOMAIN src |-> Len(wires[src[i]].v)])>>
      /\ level = getOutputLevel(TRUE, getMaxLevel(src))
  OBVIOUS
<1>1. newGate(Gate("Batching", "boolBatch", src, outs, myId, <<>>), level, values, sizes)
  BY DEF batchingUp
<1>2. Receives(outs, ideals)
  OBVIOUS
<1>3. /\ Len(values) \in Nat /\ DOMAIN values = 1..Len(values)
      /\ Len(ideals) = Len(values)
  BY OneValue
<1>4. Eager!Returns("boolBatch", ideals)
  BY <1>1, <1>2, <1>3, CallReturns
<1> PICK n \in 1..MaxRights : n = Len(src)
  BY DEF CallInv
<1>5. src \in Seq(Wire) /\ \A w \in ElementsOf(src) : handles[w] > 0
  BY DEF IInv, TypeOK, Idle
<1>6. DOMAIN src = 1..n /\ src \in [1..n -> Wire]
  BY <1>5
<1>7. \A i \in 1..n : src[i] \in Held("boolBatch")
  <2> TAKE i \in 1..n
  <2>1. src[i] \in Wire /\ handles[src[i]] > 0
    BY <1>5, <1>6 DEF ElementsOf
  <2>2. src[i] \in DOMAIN wires
    BY <2>1, HeldIsStored
  <2>3. wires[src[i]].allocator = "boolBatch"
    BY <1>6 DEF CallInv
  <2> QED BY <2>1, <2>2, <2>3 DEF Held
<1>8. TypeOK
  BY DEF IInv
<1>9. src \in [1..n -> Eager!Held("boolBatch")]
  BY <1>6, <1>7, <1>8, SameHeld
<1>10. [i \in 1..n |-> Eager!Value(src[i])] = IdealOf(src)
  <2>1. \A i \in 1..n : Eager!Value(src[i]) = ideal[src[i]]
    BY <1>7, <1>8, SameHeld
  <2> QED BY <1>6, <2>1 DEF IdealOf
<1>11. ideals = <<Eager!Concatenation([i \in 1..n |-> Eager!Value(src[i])])>>
  BY <1>10, SameValues
<1> QED BY <1>4, <1>9, <1>11 DEF Eager!BatchingUp

-----------------------------------------------------------------------------
(* The theorem.                                                            *)

(* Every step of the lazy scheduler is an eager call, or one the caller    *)
(* does not see.                                                           *)
LEMMA StepSimulates ==
  ASSUME IInv, IInv', OrderInv, ValuesInv, CallInv, [Next]_vars
  PROVE  Eager!EagerNext \/ (Store' = Store /\ returned' = returned)
<1>1. ASSUME NEW a \in Allocators,
             Input(a) \/ Open(a) \/ And(a) \/ Xor(a) \/ Not(a)
      PROVE  \/ Eager!Input(a) \/ Eager!Open(a) \/ Eager!And(a) \/ Eager!Xor(a)
             \/ Eager!Not(a)
  BY <1>1, InputReturns, OpenReturns, AndReturns, XorReturns, NotReturns
<1>2. ASSUME NEW a \in {"bool", "boolBatch"}, CompositeAnd(a) PROVE Eager!CompositeAnd(a)
  BY <1>2, CompositeReturns
<1>3. IncreaseReferenceCount => Eager!IncreaseReferenceCount
  BY IncreaseReturns
<1>4. DecreaseReferenceCount => Eager!DecreaseReferenceCount
  BY DecreaseReturns
<1>5. Unbatching => Eager!Unbatching
  BY UnbatchingReturns DEF ValuesInv
<1>6. PopLevel \/ ComputeGate \/ Execute \/ CollectGate \/ DestroyGates
        => Store' = Store /\ returned' = returned
  BY LoopsUnseen, UnseenStutters DEF Unseen
<1>7. Return => \/ \E a \in Allocators : Eager!Get(a)
                \/ Eager!BatchingUp
                \/ Store' = Store /\ returned' = returned
  <2> SUFFICES ASSUME Return PROVE \/ \E a \in Allocators : Eager!Get(a)
                                   \/ Eager!BatchingUp
                                   \/ Store' = Store /\ returned' = returned
    OBVIOUS
  <2>1. CASE call.kind = "force"
    BY <2>1, ForcedValue
  <2>2. CASE call.kind = "batchingUp"
    BY <2>2, BatchingReturns
  <2>3. CASE call.kind \notin {"force", "batchingUp"}
    BY <2>3 DEF Return, keeperVars, callerVars, Store
  <2> QED BY <2>1, <2>2, <2>3
<1>8. ASSUME NEW a \in Allocators, forceWire(a) PROVE Store' = Store /\ returned' = returned
  BY <1>8 DEF forceWire, keeperVars, callerVars, Store
<1>9. BatchingUp => Store' = Store /\ returned' = returned
  BY DEF BatchingUp, keeperVars, callerVars, Store
<1>10. UNCHANGED vars => Store' = Store /\ returned' = returned
  BY DEF vars, keeperVars, callerVars, Store
<1>11. Allocators = {"bool", "boolBatch", "int", "intBatch"}
  BY DEF Allocators
<1> QED BY <1>1, <1>2, <1>3, <1>4, <1>5, <1>6, <1>7, <1>8, <1>9, <1>10, <1>11
        DEF Next, Internal, Eager!EagerNext

(* To its caller, a LazyScheduler is an EagerScheduler: whatever the calls *)
(* and the limit, and whenever levels are executed, each call has the      *)
(* effect and returns the value that the eager scheduler's has.            *)
THEOREM LazyIsEager ==
  ASSUME UnsetHasNoResult PROVE Spec => ImplementsEager
<1>1. Init => Eager!EagerInit /\ CallInv
  <2> SUFFICES ASSUME Init PROVE Eager!EagerInit /\ CallInv
    OBVIOUS
  <2>1. Store = << >>
    BY DEF Init, Store, StoreOf
  <2>2. Eager!EagerInit
    BY <2>1 DEF Eager!EagerInit, Init, Eager!NoValue, NoValue, Store, StoreOf
  <2>3. CallInv
    BY DEF Init, CallInv
  <2> QED BY <2>2, <2>3
<1>2. IInv /\ IInv' /\ CallInv /\ [Next]_vars => CallInv'
  BY NextCall
<1>3. IInv /\ IInv' /\ OrderInv /\ ValuesInv /\ CallInv /\ [Next]_vars
        => [Eager!eagerVars' # Eager!eagerVars /\ Eager!EagerNext]_(Eager!eagerVars)
  BY StepSimulates DEF Eager!eagerVars, Store, StoreOf
<1>4. Spec => []ValuesInv
  BY ValuesInvariance
<1> QED BY <1>1, <1>2, <1>3, <1>4, Invariance, OrderInvariance, PTL
        DEF Spec, ImplementsEager, Eager!EagerSpec
=============================================================================
