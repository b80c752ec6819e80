-------------------------- MODULE Frontend_proofs ---------------------------
(***************************************************************************)
(* Proofs about the variables of the frontend: no wire leaks and none is   *)
(* freed under a variable, and every variable keeps its value, whatever    *)
(* the program's variables and inputs, their widths, the number of wires   *)
(* and the aliases of one.                                                 *)
(*                                                                         *)
(* First the store: what references added and given back, and wires that   *)
(* are allocated, do to the counts.  Then how many Bits hold a wire, when  *)
(* one variable changes.  The invariant (Good) says that the counts are    *)
(* those numbers and that the wires of a variable carry its value; it is   *)
(* kept because a statement is one of a few changes: a variable takes over *)
(* wires that are counted (Takes), gives its own back (GivesBack), several *)
(* change places (Settles), or a call that threw leaves wires (Loses).     *)
(***************************************************************************)
EXTENDS Frontend, Induction

-----------------------------------------------------------------------------
(* The store.                                                              *)

(* The records of the store. *)
IsRecord(r) ==
  \E v, size, count :
    r = [allocator |-> "boolBatch", v |-> v, expectedBatchSize |-> size,
         firstAvailableLevel |-> 0, referenceCount |-> count]
(* A store of such records. *)
IsStore(ws) == \A w \in DOMAIN ws : w \in Wire /\ IsRecord(ws[w])

(* The references to each wire are h[w]. *)
Counted(ws, h) ==
  \A w \in Wire : IF w \in DOMAIN ws THEN ws[w].referenceCount = h[w] /\ h[w] > 0
                                     ELSE h[w] = 0

(* The wires that stay keep their values. *)
Inherits(new, old) == \A w \in DOMAIN new \cap DOMAIN old : new[w].v = old[w].v

(* A number of references for every wire. *)
Counts == [Wire -> Nat]

(* With one reference more for every occurrence in s. *)
More(h, s) == [w \in Wire |-> h[w] + Occurrences(s, w)]

(* A record whose count is changed is one still, of the same value. *)
LEMMA RecordIs ==
  ASSUME NEW r, IsRecord(r), NEW n
  PROVE  LET s == [r EXCEPT !.referenceCount = n]
         IN  IsRecord(s) /\ s.v = r.v /\ s.referenceCount = n
<1> PICK v, size, count :
      r = [allocator |-> "boolBatch", v |-> v, expectedBatchSize |-> size,
           firstAvailableLevel |-> 0, referenceCount |-> count]
  BY DEF IsRecord
<1> PICK s : s = [r EXCEPT !.referenceCount = n]
  OBVIOUS
<1>1. s = [allocator |-> "boolBatch", v |-> v, expectedBatchSize |-> size,
           firstAvailableLevel |-> 0, referenceCount |-> n]
  OBVIOUS
<1>2. IsRecord(s)
  BY <1>1 DEF IsRecord
<1>3. s.v = r.v /\ s.referenceCount = n
  BY <1>1
<1> QED BY <1>2, <1>3

(* How often a wire occurs in a sequence. *)
LEMMA OccurrencesAre ==
  ASSUME NEW n \in Nat, NEW s, DOMAIN s = 1..n, NEW w
  PROVE  /\ IsFiniteSet(Indices(s, w)) /\ Occurrences(s, w) \in Nat
         /\ Occurrences(s, w) = 0 <=> \A i \in 1..n : s[i] # w
         /\ (\A i, j \in 1..n : s[i] = s[j] => i = j) => Occurrences(s, w) \in 0..1
<1>1. IsFiniteSet(Indices(s, w)) /\ Occurrences(s, w) \in Nat
  <2>1. Indices(s, w) \subseteq 1..n /\ IsFiniteSet(1..n)
    BY FS_Interval DEF Indices
  <2>2. IsFiniteSet(Indices(s, w))
    BY <2>1, FS_Subset
  <2> QED BY <2>2, FS_CardinalityType DEF Occurrences
<1>2. Occurrences(s, w) = 0 <=> \A i \in 1..n : s[i] # w
  <2>1. Occurrences(s, w) = 0 <=> Indices(s, w) = {}
    BY <1>1, FS_EmptySet DEF Occurrences
  <2> QED BY <2>1 DEF Indices
<1>3. ASSUME \A i, j \in 1..n : s[i] = s[j] => i = j
      PROVE  Occurrences(s, w) \in 0..1
  <2>1. CASE Indices(s, w) = {}
    BY <2>1, FS_EmptySet DEF Occurrences
  <2>2. ASSUME NEW i \in Indices(s, w) PROVE Occurrences(s, w) = 1
    <3>1. Indices(s, w) = {i}
      BY <1>3 DEF Indices
    <3> QED BY <3>1, FS_Singleton DEF Occurrences
  <2> QED BY <2>1, <2>2
<1> QED BY <1>1, <1>2, <1>3

(* Two sequences put together in one. *)
Joined(u, s, t, m, n) ==
  /\ DOMAIN s = 1..m /\ DOMAIN t = 1..n /\ DOMAIN u = 1..m + n
  /\ \A i \in 1..m + n : u[i] = IF i <= m THEN s[i] ELSE t[i - m]

(* In both, a wire occurs as often as in the one and in the other. *)
LEMMA OccurrencesAdd ==
  ASSUME NEW m \in Nat, NEW n \in Nat, NEW s, NEW t, NEW u, Joined(u, s, t, m, n), NEW w
  PROVE  Occurrences(u, w) = Occurrences(s, w) + Occurrences(t, w)
<1>0. /\ DOMAIN s = 1..m /\ DOMAIN t = 1..n /\ DOMAIN u = 1..m + n
      /\ \A i \in 1..m + n : u[i] = IF i <= m THEN s[i] ELSE t[i - m]
  BY DEF Joined
<1> DEFINE A == Indices(s, w)
           B == Indices(t, w)
           C == {m + i : i \in B}
           f == [i \in B |-> m + i]
<1>1. IsFiniteSet(A) /\ IsFiniteSet(B)
  BY <1>0, OccurrencesAre
<1>2. A \subseteq 1..m /\ B \subseteq 1..n
  BY <1>0 DEF Indices
<1>3. f \in Bijection(B, C)
  <2>1. /\ f \in [B -> C] /\ \A i, j \in B : f[i] = f[j] => i = j
        /\ \A c \in C : \E i \in B : f[i] = c
    BY <1>2
  <2> QED BY <2>1 DEF Bijection, Injection, Surjection, IsInjective
<1>4. ExistsBijection(B, C)
  BY <1>3 DEF ExistsBijection
<1>5. IsFiniteSet(C) /\ Cardinality(C) = Cardinality(B)
  BY <1>1, <1>4, FS_Bijection
<1>6. A \cap C = {}
  BY <1>2
<1>7. Indices(u, w) = A \cup C
  <2>1. ASSUME NEW i \in Indices(u, w) PROVE i \in A \cup C
    <3>1. i \in 1..m + n /\ u[i] = w
      BY <1>0, <2>1 DEF Indices
    <3>2. CASE i <= m
      BY <1>0, <3>1, <3>2 DEF Indices
    <3>3. CASE i > m
      <4>1. i - m \in 1..n /\ t[i - m] = w /\ i = m + (i - m)
        BY <1>0, <3>1, <3>3
      <4> QED BY <1>0, <4>1 DEF Indices
    <3> QED BY <3>1, <3>2, <3>3
  <2>2. ASSUME NEW i \in A PROVE i \in Indices(u, w)
    BY <1>0 DEF Indices
  <2>3. ASSUME NEW i \in B PROVE m + i \in Indices(u, w)
    <3>1. i \in 1..n /\ t[i] = w /\ m + i \in 1..m + n /\ ~(m + i <= m) /\ (m + i) - m = i
      BY <1>0 DEF Indices
    <3> QED BY <1>0, <3>1 DEF Indices
  <2> QED BY <2>1, <2>2, <2>3
<1>8. Cardinality(A \cup C) = Cardinality(A) + Cardinality(C) - Cardinality(A \cap C)
  BY <1>1, <1>5, FS_Union
<1>9. Cardinality(A \cap C) = 0 /\ Cardinality(A) \in Nat /\ Cardinality(C) \in Nat
  <2>1. \A S : S = {} => Cardinality(S) = 0
    BY FS_EmptySet
  <2> QED BY <1>1, <1>5, <1>6, <2>1, FS_CardinalityType
<1>10. Occurrences(u, w) = Cardinality(A \cup C)
  BY <1>7 DEF Occurrences
<1>11. Occurrences(s, w) = Cardinality(A) /\ Occurrences(t, w) = Cardinality(C)
  BY <1>5 DEF Occurrences
<1> HIDE DEF A, B, C
<1> QED BY ONLY <1>8, <1>9, <1>10, <1>11

-----------------------------------------------------------------------------
(* Counts that change.                                                     *)

(* Adding references. *)
LEMMA Increased ==
  ASSUME NEW ws, IsStore(ws), NEW h \in Counts, NEW t \in Counts, Counted(ws, h),
         \A w \in Wire : t[w] > 0 => w \in DOMAIN ws
  PROVE  LET new == increaseReferenceCounts(ws, t)
         IN  /\ IsStore(new) /\ Counted(new, [w \in Wire |-> h[w] + t[w]])
             /\ DOMAIN new = DOMAIN ws /\ Inherits(new, ws)
<1> PICK new : new = increaseReferenceCounts(ws, t)
  OBVIOUS
<1>1. /\ DOMAIN new = DOMAIN ws
      /\ \A w \in DOMAIN ws : /\ IsRecord(new[w]) /\ new[w].v = ws[w].v
                              /\ new[w].referenceCount = ws[w].referenceCount + t[w]
  BY RecordIs DEF increaseReferenceCounts, IsStore
<1>2. IsStore(new) /\ Inherits(new, ws)
  BY <1>1 DEF IsStore, Inherits
<1>3. Counted(new, [w \in Wire |-> h[w] + t[w]])
  BY <1>1 DEF Counted, Counts
<1> QED BY <1>1, <1>2, <1>3

(* Giving references back. *)
LEMMA Decreased ==
  ASSUME NEW ws, IsStore(ws), NEW h \in Counts, NEW t \in Counts, Counted(ws, h),
         \A w \in Wire : t[w] <= h[w]
  PROVE  LET new == decreaseReferenceCounts(ws, t)
         IN  /\ IsStore(new) /\ Counted(new, [w \in Wire |-> h[w] - t[w]])
             /\ DOMAIN new \subseteq DOMAIN ws /\ Inherits(new, ws)
<1> PICK new : new = decreaseReferenceCounts(ws, t)
  OBVIOUS
<1>1. /\ DOMAIN new = {w \in DOMAIN ws : ws[w].referenceCount # t[w]}
      /\ \A w \in DOMAIN new : /\ IsRecord(new[w]) /\ new[w].v = ws[w].v
                               /\ new[w].referenceCount = ws[w].referenceCount - t[w]
  <2>1. \A w \in DOMAIN ws :
          LET s == [ws[w] EXCEPT !.referenceCount = ws[w].referenceCount - t[w]]
          IN  IsRecord(s) /\ s.v = ws[w].v /\ s.referenceCount = ws[w].referenceCount - t[w]
    BY RecordIs DEF IsStore
  <2> QED BY <2>1 DEF decreaseReferenceCounts
<1>2. IsStore(new) /\ Inherits(new, ws)
  BY <1>1 DEF IsStore, Inherits
<1>3. Counted(new, [w \in Wire |-> h[w] - t[w]])
  <2> SUFFICES ASSUME NEW w \in Wire
               PROVE  IF w \in DOMAIN new
                      THEN new[w].referenceCount = h[w] - t[w] /\ h[w] - t[w] > 0
                      ELSE h[w] - t[w] = 0
    BY DEF Counted
  <2>1. h[w] \in Nat /\ t[w] \in Nat /\ t[w] <= h[w]
    BY DEF Counts
  <2> QED BY <1>1, <2>1 DEF Counted
<1> QED BY <1>1, <1>2, <1>3

(* There are n free ids when there is room for n. *)
LEMMA FreshExist ==
  ASSUME NEW ws, NEW n \in Nat, Cardinality(Wire \ DOMAIN ws) >= n
  PROVE  /\ NewWires(ws, n) \in [1..n -> Wire \ DOMAIN ws]
         /\ \A i, j \in 1..n : NewWires(ws, n)[i] = NewWires(ws, n)[j] => i = j
<1> DEFINE F == Wire \ DOMAIN ws
<1>1. IsFiniteSet(F)
  BY FrontendAssumption, FS_Subset
<1>2. PICK m \in Nat : m = Cardinality(F)
  BY <1>1, FS_CardinalityType
<1>3. ExistsBijection(1..m, F)
  BY <1>1, <1>2, FS_NatBijection, FS_CountingElements
<1>4. PICK f : f \in Bijection(1..m, F)
  BY <1>3 DEF ExistsBijection
<1>5. f \in [1..m -> F] /\ \A i, j \in 1..m : f[i] = f[j] => i = j
  BY <1>4 DEF Bijection, Injection, IsInjective
<1>6. [i \in 1..n |-> f[i]] \in FreshWires(ws, n)
  <2>1. 1..n \subseteq 1..m
    BY <1>2
  <2> QED BY <1>5, <2>1 DEF FreshWires
<1>7. NewWires(ws, n) \in FreshWires(ws, n)
  BY <1>6 DEF NewWires
<1> QED BY <1>7 DEF FreshWires

(* New wires for n values. *)
LEMMA AllocatedIs ==
  ASSUME NEW ws, IsStore(ws), NEW h \in Counts, Counted(ws, h),
         NEW n \in Nat, NEW values, Len(values) = n, Cardinality(Wire \ DOMAIN ws) >= n
  PROVE  LET new == Allocated(ws, values)
         IN  /\ new.ids \in [1..n -> Wire \ DOMAIN ws] /\ Len(new.ids) = n
             /\ \A i, j \in 1..n : new.ids[i] = new.ids[j] => i = j
             /\ IsStore(new.store)
             /\ DOMAIN new.store = DOMAIN ws \cup {new.ids[i] : i \in 1..n}
             /\ Counted(new.store, More(h, new.ids))
             /\ Inherits(new.store, ws)
             /\ \A i \in 1..n : new.store[new.ids[i]].v = values[i]
<1> PICK ids : ids = NewWires(ws, n)
  OBVIOUS
<1> PICK records : records = [i \in 1..n |-> WireRecord("boolBatch", values[i], Len(values[i]), 0)]
  OBVIOUS
<1> PICK store : store = allocateValues(ws, ids, records)
  OBVIOUS
<1>1. /\ ids \in [1..n -> Wire \ DOMAIN ws] /\ DOMAIN ids = 1..n
      /\ \A i, j \in 1..n : ids[i] = ids[j] => i = j
  BY FreshExist
<1>2. Len(ids) = n
  <2>1. ids \in Seq(Wire)
    BY <1>1
  <2> QED BY <1>1, <2>1
<1>3. Allocated(ws, values) = [ids |-> ids, store |-> store]
  BY <1>1 DEF Allocated
<1>4. ASSUME NEW i \in 1..n PROVE PositionOf(ids, ids[i]) = i
  BY <1>1 DEF PositionOf
<1>5. /\ DOMAIN store = DOMAIN ws \cup {ids[i] : i \in 1..n}
      /\ \A w \in DOMAIN ws : store[w] = ws[w]
      /\ \A i \in 1..n : store[ids[i]] = records[i]
  BY <1>1, <1>4 DEF allocateValues
<1>6. ASSUME NEW i \in 1..n
      PROVE  IsRecord(records[i]) /\ records[i].v = values[i] /\ records[i].referenceCount = 1
  BY DEF WireRecord, IsRecord
<1>7. IsStore(store)
  BY <1>1, <1>5, <1>6 DEF IsStore
<1>8. Counted(store, More(h, ids))
  <2> SUFFICES ASSUME NEW w \in Wire
               PROVE  IF w \in DOMAIN store
                      THEN /\ store[w].referenceCount = h[w] + Occurrences(ids, w)
                           /\ h[w] + Occurrences(ids, w) > 0
                      ELSE h[w] + Occurrences(ids, w) = 0
    BY DEF Counted, More
  <2>1. h[w] \in Nat
    BY DEF Counts
  <2>2. /\ Occurrences(ids, w) \in 0..1
        /\ Occurrences(ids, w) = 0 <=> \A i \in 1..n : ids[i] # w
    BY ONLY <1>1, n \in Nat, OccurrencesAre
  <2>3. CASE w \in DOMAIN ws
    <3>1. \A i \in 1..n : ids[i] # w
      BY <1>1, <2>3
    <3> QED BY <1>5, <2>1, <2>2, <2>3, <3>1 DEF Counted
  <2>4. ASSUME NEW i \in 1..n, w = ids[i] 
        PROVE  /\ w \in DOMAIN store /\ store[w].referenceCount = h[w] + Occurrences(ids, w)
               /\ h[w] + Occurrences(ids, w) > 0
    <3>1. w \notin DOMAIN ws /\ Occurrences(ids, w) = 1
      BY <1>1, <2>2, <2>4
    <3>2. h[w] = 0
      BY <3>1 DEF Counted
    <3>3. w \in DOMAIN store /\ store[w].referenceCount = 1
      BY <1>5, <1>6, <2>4
    <3> QED BY ONLY <3>1, <3>2, <3>3
  <2>5. CASE w \notin DOMAIN store
    <3>1. w \notin DOMAIN ws /\ \A i \in 1..n : ids[i] # w
      BY <1>5, <2>5
    <3>2. h[w] = 0
      BY <3>1 DEF Counted
    <3> QED BY <2>2, <2>5, <3>1, <3>2
  <2> QED BY <1>5, <2>3, <2>4, <2>5
<1>9. Inherits(store, ws)
  BY <1>5 DEF Inherits
<1>10. \A i \in 1..n : store[ids[i]].v = values[i]
  BY <1>5, <1>6
<1> QED BY <1>1, <1>2, <1>3, <1>5, <1>7, <1>8, <1>9, <1>10

(* The length of a function over 1..n. *)
LEMMA LengthIs ==
  ASSUME NEW n \in Nat, NEW s, s = [i \in 1..n |-> s[i]]
  PROVE  Len(s) = n
<1>1. s \in [1..n -> {s[i] : i \in 1..n}]
  OBVIOUS
<1>2. s \in Seq({s[i] : i \in 1..n})
  BY <1>1
<1> QED BY <1>1, <1>2

(* The calls that are made. *)
LEMMA FittingIs ==
  ASSUME NEW n \in Nat, NEW fit
  PROVE  LET m == Fitting(fit, n)
         IN  m \in 0..n /\ 1..m \subseteq fit /\ (m = n \/ m + 1 \notin fit)
<1> DEFINE S == {k \in Nat : k = n \/ k + 1 \notin fit}
<1>1. S \in SUBSET Nat /\ S # {}
  OBVIOUS
<1>2. PICK k \in S : \A j \in S : k <= j
  <2> HIDE DEF S
  <2> QED BY <1>1, Smallest
<1>3. k \in 0..n
  BY <1>2
<1>4. ASSUME NEW i \in 1..k PROVE i \in fit
  <2>1. i - 1 \in Nat /\ i - 1 < k /\ (i - 1) + 1 = i
    BY <1>3
  <2> QED BY <1>2, <2>1
<1>5. k \in 0..n /\ 1..k \subseteq fit /\ (k = n \/ k + 1 \notin fit)
  BY <1>2, <1>3, <1>4
<1> QED BY <1>5 DEF Fitting

(* The outcomes before the first Throws get wires. *)
LEMMA PerformedIs ==
  ASSUME NEW ws, IsStore(ws), NEW h \in Counts, Counted(ws, h), NEW n \in Nat,
         NEW outcomes, DOMAIN outcomes = 1..n, Len(outcomes) = n,
         Cardinality(Wire \ DOMAIN ws) >= n
  PROVE  LET new == Performed(ws, outcomes)
         IN  /\ Len(new.ids) \in 0..n
             /\ new.ids \in [1..Len(new.ids) -> Wire \ DOMAIN ws]
             /\ \A i, j \in 1..Len(new.ids) : new.ids[i] = new.ids[j] => i = j
             /\ IsStore(new.store)
             /\ DOMAIN new.store = DOMAIN ws \cup {new.ids[i] : i \in 1..Len(new.ids)}
             /\ Counted(new.store, More(h, new.ids))
             /\ Inherits(new.store, ws)
             /\ \A i \in 1..Len(new.ids) : /\ outcomes[i] # Throws
                                           /\ new.store[new.ids[i]].v = outcomes[i][1]
<1> PICK fit : fit = {i \in 1..n : outcomes[i] # Throws}
  OBVIOUS
<1> PICK m : m = Fitting(fit, n)
  OBVIOUS
<1>1. m \in 0..n /\ 1..m \subseteq fit
  BY FittingIs
<1> PICK values : values = [i \in 1..m |-> outcomes[i][1]]
  OBVIOUS
<1>2. Len(values) = m /\ m \in Nat
  BY <1>1, LengthIs
<1>3. Performed(ws, outcomes) = Allocated(ws, values)
  BY DEF Performed
<1> PICK new : new = Allocated(ws, values)
  OBVIOUS
<1>4. /\ new.ids \in [1..m -> Wire \ DOMAIN ws] /\ Len(new.ids) = m
      /\ \A i, j \in 1..m : new.ids[i] = new.ids[j] => i = j
      /\ IsStore(new.store)
      /\ DOMAIN new.store = DOMAIN ws \cup {new.ids[i] : i \in 1..m}
      /\ Counted(new.store, More(h, new.ids))
      /\ Inherits(new.store, ws)
      /\ \A i \in 1..m : new.store[new.ids[i]].v = values[i]
  <2>1. Cardinality(Wire \ DOMAIN ws) >= m
    <3>1. Cardinality(Wire \ DOMAIN ws) \in Nat
      BY FrontendAssumption, FS_Subset, FS_CardinalityType
    <3> QED BY <1>1, <3>1
  <2> QED BY ONLY <1>2, <2>1, AllocatedIs, IsStore(ws), h \in Counts, Counted(ws, h),
                  new = Allocated(ws, values)
<1>5. \A i \in 1..m : outcomes[i] # Throws /\ values[i] = outcomes[i][1]
  BY <1>1
<1>6. /\ Len(new.ids) \in 0..n
      /\ new.ids \in [1..Len(new.ids) -> Wire \ DOMAIN ws]
      /\ \A i, j \in 1..Len(new.ids) : new.ids[i] = new.ids[j] => i = j
      /\ DOMAIN new.store = DOMAIN ws \cup {new.ids[i] : i \in 1..Len(new.ids)}
      /\ \A i \in 1..Len(new.ids) : /\ outcomes[i] # Throws
                                    /\ new.store[new.ids[i]].v = outcomes[i][1]
  BY ONLY <1>1, <1>4, <1>5
<1>7. Performed(ws, outcomes) = new
  BY <1>3
<1> QED BY ONLY <1>4, <1>6, <1>7

-----------------------------------------------------------------------------
(* Who holds a wire.                                                       *)

(* The Bits that hold w when the variables hold d; those of other          *)
(* variables than x; and the reference that a call that threw has left.    *)
Held(d, w) == Cardinality({xi \in Bits : d[xi[1]][xi[2]] = w})
Elsewhere(d, x, w) == Cardinality({xi \in Bits : xi[1] # x /\ d[xi[1]][xi[2]] = w})
Extra(l, w) == IF w \in l THEN 1 ELSE 0
References(d, l) == [w \in Wire |-> Held(d, w) + Extra(l, w)]

(* Only x holds other wires. *)
SameBut(d, e, x) == \A y \in Variables : y # x => e[y] = d[y]

(* A program has finitely many Bits. *)
LEMMA BitsFinite ==
  ASSUME setup \in Setups
  PROVE  IsFiniteSet(Bits)
<1> DEFINE S == {{x} \X (1..Width(x)) : x \in Variables}
<1>1. IsFiniteSet(S)
  <2>1. IsFiniteSet(Variables)
    BY FrontendAssumption DEF Variables
  <2> DEFINE f == [x \in Variables |-> {x} \X (1..Width(x))]
  <2>2. f \in Surjection(Variables, S)
    BY DEF Surjection
  <2> QED BY <2>1, <2>2, FS_Surjection
<1>2. ASSUME NEW x \in Variables PROVE IsFiniteSet({x} \X (1..Width(x)))
  <2>1. Width(x) \in Nat
    BY FrontendAssumption DEF Variables, Width
  <2>2. IsFiniteSet({x}) /\ IsFiniteSet(1..Width(x))
    <3>1. IsFiniteSet({x})
      BY ONLY FS_Singleton
    <3>2. IsFiniteSet(1..Width(x))
      BY ONLY <2>1, FS_Interval
    <3> QED BY <3>1, <3>2
  <2> QED BY ONLY <2>2, FS_Product
<1>3. \A T \in S : IsFiniteSet(T)
  BY <1>2
<1>4. IsFiniteSet(UNION S)
  <2> HIDE DEF S
  <2> QED BY <1>1, <1>3, FS_UNION
<1> QED BY <1>4 DEF Bits

(* The Bits of one variable and those of the others. *)
LEMMA HeldSplit ==
  ASSUME setup \in Setups, NEW d, NEW x \in Variables, DOMAIN d[x] = 1..Width(x), NEW w
  PROVE  /\ Held(d, w) \in Nat /\ Elsewhere(d, x, w) \in Nat /\ Occurrences(d[x], w) \in Nat
         /\ Held(d, w) = Elsewhere(d, x, w) + Occurrences(d[x], w)
<1> DEFINE H == {xi \in Bits : d[xi[1]][xi[2]] = w}
           E == {xi \in Bits : xi[1] # x /\ d[xi[1]][xi[2]] = w}
           I == Indices(d[x], w)
           M == {x} \X I
<1>1. IsFiniteSet(H) /\ IsFiniteSet(E)
  BY BitsFinite, FS_Subset
<1>2. Width(x) \in Nat
  BY FrontendAssumption DEF Variables, Width
<1>3. IsFiniteSet(I) /\ Cardinality(I) \in Nat /\ Occurrences(d[x], w) = Cardinality(I)
  BY <1>2, OccurrencesAre DEF Occurrences
<1>4. IsFiniteSet(M) /\ Cardinality(M) = Cardinality(I)
  <2>1. IsFiniteSet({x}) /\ Cardinality({x}) = 1
    BY FS_Singleton
  <2>2. IsFiniteSet(M) /\ Cardinality(M) = Cardinality({x}) * Cardinality(I)
    BY <1>3, <2>1, FS_Product
  <2> HIDE DEF I, M
  <2> QED BY ONLY <1>3, <2>1, <2>2
<1>5. H = E \cup M
  <2>1. \A xi : xi \in M <=> \E i \in I : xi = <<x, i>>
    OBVIOUS
  <2>2. \A i : i \in I <=> i \in 1..Width(x) /\ d[x][i] = w
    BY DEF Indices
  <2>3. \A xi : xi \in Bits <=> \E y \in Variables : \E i \in 1..Width(y) : xi = <<y, i>>
    BY DEF Bits
  <2> QED BY <2>1, <2>2, <2>3
<1>6. Cardinality(E \cap M) = 0
  <2>1. E \cap M = {}
    OBVIOUS
  <2>2. \A S : S = {} => Cardinality(S) = 0
    BY FS_EmptySet
  <2> QED BY <2>1, <2>2
<1>7. Cardinality(E \cup M) = Cardinality(E) + Cardinality(M) - Cardinality(E \cap M)
  BY <1>1, <1>4, FS_Union
<1>8. Cardinality(H) \in Nat /\ Cardinality(E) \in Nat
  BY <1>1, FS_CardinalityType
<1>9. Cardinality(H) = Cardinality(E) + Cardinality(I)
  <2>1. Cardinality(H) = Cardinality(E \cup M)
    BY <1>5
  <2> HIDE DEF H, E, I, M
  <2> QED BY ONLY <1>3, <1>4, <1>6, <1>7, <1>8, <2>1
<1>10. Held(d, w) = Cardinality(H) /\ Elsewhere(d, x, w) = Cardinality(E)
  BY DEF Held, Elsewhere
<1> HIDE DEF H, E, I
<1> QED BY ONLY <1>3, <1>8, <1>9, <1>10

(* Another sequence of wires for a variable. *)
LEMMA HeldChange ==
  ASSUME setup \in Setups, NEW d, NEW e, NEW x \in Variables,
         DOMAIN d[x] = 1..Width(x), DOMAIN e[x] = 1..Width(x),
         SameBut(d, e, x), NEW w
  PROVE  /\ Held(e, w) \in Nat /\ Held(d, w) \in Nat
         /\ Occurrences(d[x], w) \in Nat /\ Occurrences(e[x], w) \in Nat
         /\ Occurrences(d[x], w) <= Held(d, w)
         /\ Held(e, w) = Held(d, w) - Occurrences(d[x], w) + Occurrences(e[x], w)
<1>1. Elsewhere(e, x, w) = Elsewhere(d, x, w)
  <2>1. \A xi \in Bits : xi[1] \in Variables
    BY DEF Bits
  <2>2. \A xi \in Bits : xi[1] # x => e[xi[1]][xi[2]] = d[xi[1]][xi[2]]
    BY <2>1 DEF SameBut
  <2>3. {xi \in Bits : xi[1] # x /\ e[xi[1]][xi[2]] = w}
          = {xi \in Bits : xi[1] # x /\ d[xi[1]][xi[2]] = w}
    BY <2>2
  <2> QED BY <2>3 DEF Elsewhere
<1>2. /\ Held(d, w) \in Nat /\ Elsewhere(d, x, w) \in Nat /\ Occurrences(d[x], w) \in Nat
      /\ Held(d, w) = Elsewhere(d, x, w) + Occurrences(d[x], w)
  BY HeldSplit
<1>3. /\ Held(e, w) \in Nat /\ Occurrences(e[x], w) \in Nat
      /\ Held(e, w) = Elsewhere(e, x, w) + Occurrences(e[x], w)
  BY HeldSplit
<1> QED BY ONLY <1>1, <1>2, <1>3

(* What a variable names is held. *)
LEMMA HeldSome ==
  ASSUME setup \in Setups, NEW d, NEW x \in Variables, DOMAIN d[x] = 1..Width(x),
         NEW i \in 1..Width(x)
  PROVE  Held(d, d[x][i]) > 0
<1>1. Width(x) \in Nat
  BY FrontendAssumption DEF Variables, Width
<1>2. Occurrences(d[x], d[x][i]) # 0
  BY <1>1, OccurrencesAre
<1> QED BY <1>2, HeldSplit

-----------------------------------------------------------------------------
(* The invariant, of variables that hold d and should have the values v,   *)
(* over the store ws, which has l besides: every reference is counted, and *)
(* a variable that is set names wires that carry its value.                *)
Named(d, v, x) == v[x] # None => d[x] \in [1..Width(x) -> Wire]
Carried(d, v, ws, x) == v[x] # None => v[x] = [i \in 1..Width(x) |-> ws[d[x][i]].v]

(* An Int's bits have batches of one size. *)
Square(x, s) ==
  Kind(x) = "Int" => \E n \in Nat : \A i \in 1..Width(x) : s[i] = [k \in 1..n |-> s[i][k]]
Shaped(v, x) == v[x] # None => Square(x, v[x])

(* All together. *)
Good(d, v, ws, l) ==
  /\ IsStore(ws) /\ Counted(ws, References(d, l))
  /\ DOMAIN d = Variables /\ DOMAIN v = Variables
  /\ \A x \in Variables : /\ d[x] \in [1..Width(x) -> Wire \cup {Empty}]
                          /\ Named(d, v, x) /\ Carried(d, v, ws, x) /\ Shaped(v, x)

(* The references the invariant speaks of are numbers. *)
LEMMA ReferencesAre ==
  ASSUME setup \in Setups, NEW d, NEW l, DOMAIN d = Variables,
         \A x \in Variables : DOMAIN d[x] = 1..Width(x)
  PROVE  /\ References(d, l) \in Counts
         /\ \A w \in Wire : References(d, l)[w] = Held(d, w) + Extra(l, w)
                            /\ Held(d, w) \in Nat /\ Extra(l, w) \in 0..1
<1>1. \A w : Held(d, w) \in Nat
  BY BitsFinite, FS_Subset, FS_CardinalityType DEF Held
<1>2. \A w : Extra(l, w) \in 0..1
  BY DEF Extra
<1> QED BY <1>1, <1>2 DEF References, Counts

(* A variable has a bit at least, and a Bit has one. *)
LEMMA WidthIs ==
  ASSUME setup \in Setups, NEW x \in Variables
  PROVE  Width(x) \in Nat /\ Width(x) > 0 /\ (Kind(x) = "Bit" => Width(x) = 1)
BY FrontendAssumption DEF Variables, Width, Kind

(* The wires a variable names are in the store. *)
LEMMA NamedStored ==
  ASSUME setup \in Setups, NEW d, NEW ws, NEW l, DOMAIN d = Variables,
         \A x \in Variables : DOMAIN d[x] = 1..Width(x), Counted(ws, References(d, l)),
         NEW x \in Variables, NEW i \in 1..Width(x), d[x][i] \in Wire
  PROVE  d[x][i] \in DOMAIN ws
<1>1. Held(d, d[x][i]) > 0
  BY HeldSome
<1> QED BY <1>1, ReferencesAre DEF Counted

(* Where a variable may get its value from. *)
FromSome(d, v, d2, v2, new, x) ==
  \/ \E u \in Variables : Width(u) = Width(x) /\ Kind(u) = Kind(x) /\ d2[x] = d[u] /\ v2[x] = v[u]
  \/ v2[x] = None /\ d2[x] \in [1..Width(x) -> Wire \cup {Empty}]
  \/ /\ d2[x] \in [1..Width(x) -> Wire] /\ v2[x] = [i \in 1..Width(x) |-> new[d2[x][i]].v]
     /\ Square(x, v2[x])

(* What a step leaves alone: the variables keep their values, or pass them *)
(* on.                                                                     *)
LEMMA Update ==
  ASSUME setup \in Setups, NEW d, NEW v, NEW ws, NEW l, Good(d, v, ws, l),
         NEW d2, NEW v2, NEW new, NEW l2,
         IsStore(new), Counted(new, References(d2, l2)), Inherits(new, ws),
         DOMAIN d2 = Variables, DOMAIN v2 = Variables,
         \A x \in Variables : FromSome(d, v, d2, v2, new, x)
  PROVE  Good(d2, v2, new, l2)
<1>1. \A x \in Variables : d2[x] \in [1..Width(x) -> Wire \cup {Empty}]
  BY DEF Good, FromSome
<1>2. \A x \in Variables : Named(d2, v2, x)
  BY DEF Good, Named, FromSome
<1>3. ASSUME NEW x \in Variables PROVE Carried(d2, v2, new, x)
  <2>1. ASSUME NEW u \in Variables, Width(u) = Width(x), d2[x] = d[u], v2[x] = v[u], v[u] # None
        PROVE  v2[x] = [i \in 1..Width(x) |-> new[d2[x][i]].v]
    <3>1. d[u] \in [1..Width(x) -> Wire] /\ v[u] = [i \in 1..Width(x) |-> ws[d[u][i]].v]
      BY <2>1 DEF Good, Named, Carried
    <3>2. ASSUME NEW i \in 1..Width(x) PROVE new[d2[x][i]].v = ws[d[u][i]].v
      <4>1. d[u][i] \in Wire /\ i \in 1..Width(u) /\ d2[x][i] = d[u][i]
        BY <2>1, <3>1
      <4>2. d[u][i] \in DOMAIN ws
        BY <4>1, NamedStored DEF Good
      <4>3. d2[x][i] \in DOMAIN new
        BY <1>1, <4>1, NamedStored
      <4> QED BY <4>1, <4>2, <4>3 DEF Inherits
    <3> QED BY <2>1, <3>1, <3>2
  <2> QED BY <2>1 DEF Carried, FromSome
<1>4. \A x \in Variables : Shaped(v2, x)
  <2> SUFFICES ASSUME NEW x \in Variables, v2[x] # None PROVE Square(x, v2[x])
    BY DEF Shaped
  <2>1. ASSUME NEW u \in Variables, Width(u) = Width(x), Kind(u) = Kind(x), v2[x] = v[u]
        PROVE  Square(x, v2[x])
    <3>1. Square(u, v[u])
      BY <2>1 DEF Good, Shaped
    <3>2. Square(x, v[u])
      BY ONLY <2>1, <3>1 DEF Square
    <3> QED BY ONLY <2>1, <3>2
  <2>2. FromSome(d, v, d2, v2, new, x)
    OBVIOUS
  <2> QED BY ONLY <2>1, <2>2, v2[x] # None DEF FromSome
<1> QED BY <1>1, <1>2, <1>3, <1>4 DEF Good

(* A variable takes over wires of a store in which they are counted.       *)
LEMMA Takes ==
  ASSUME setup \in Setups, NEW d, NEW v, NEW ws, NEW l, Good(d, v, ws, l), NEW x \in Variables,
         NEW ids \in [1..Width(x) -> Wire], NEW store, IsStore(store),
         DOMAIN ws \subseteq DOMAIN store, Inherits(store, ws),
         Square(x, [i \in 1..Width(x) |-> store[ids[i]].v]),
         Counted(store, More(References(d, l), ids))
  PROVE  Good([d EXCEPT ![x] = ids],
              [v EXCEPT ![x] = [i \in 1..Width(x) |-> store[ids[i]].v]],
              decreaseReferenceCount(store, d[x]), l)
<1> PICK d2, v2, new :
      /\ d2 = [d EXCEPT ![x] = ids]
      /\ v2 = [v EXCEPT ![x] = [i \in 1..Width(x) |-> store[ids[i]].v]]
      /\ new = decreaseReferenceCount(store, d[x])
  OBVIOUS
<1>1. /\ DOMAIN d = Variables /\ DOMAIN v = Variables
      /\ \A u \in Variables : DOMAIN d[u] = 1..Width(u)
      /\ Width(x) \in Nat
  BY WidthIs DEF Good
<1>2. /\ DOMAIN d2 = Variables /\ DOMAIN v2 = Variables /\ d2[x] = ids
      /\ v2[x] = [i \in 1..Width(x) |-> store[ids[i]].v]
      /\ \A u \in Variables : u # x => d2[u] = d[u] /\ v2[u] = v[u]
      /\ \A u \in Variables : DOMAIN d2[u] = 1..Width(u)
  BY <1>1
<1>3. \A w \in Wire : /\ Held(d2, w) \in Nat /\ Held(d, w) \in Nat
                      /\ Occurrences(d[x], w) \in Nat /\ Occurrences(ids, w) \in Nat
                      /\ Occurrences(d[x], w) <= Held(d, w)
                      /\ Held(d2, w) = Held(d, w) - Occurrences(d[x], w) + Occurrences(ids, w)
  <2>1. DOMAIN d2[x] = 1..Width(x) /\ DOMAIN d[x] = 1..Width(x)
        /\ SameBut(d, d2, x)
    BY <1>1, <1>2 DEF SameBut
  <2>2. \A w : /\ Held(d2, w) \in Nat /\ Held(d, w) \in Nat
               /\ Occurrences(d[x], w) \in Nat /\ Occurrences(d2[x], w) \in Nat
               /\ Occurrences(d[x], w) <= Held(d, w)
               /\ Held(d2, w) = Held(d, w) - Occurrences(d[x], w) + Occurrences(d2[x], w)
    BY ONLY <2>1, setup \in Setups, x \in Variables, HeldChange
  <2>3. d2[x] = ids
    BY <1>2
  <2> QED BY ONLY <2>2, <2>3
<1> PICK h, t :
      /\ h = More(References(d, l), ids)
      /\ t = [w \in Wire |-> Occurrences(d[x], w)]
  OBVIOUS
<1>12. /\ \A w \in Wire : References(d, l)[w] = Held(d, w) + Extra(l, w)
      /\ \A w \in Wire : References(d2, l)[w] = Held(d2, w) + Extra(l, w) /\ Extra(l, w) \in 0..1
  <2>1. /\ DOMAIN d = Variables /\ \A u \in Variables : DOMAIN d[u] = 1..Width(u)
        /\ DOMAIN d2 = Variables /\ \A u \in Variables : DOMAIN d2[u] = 1..Width(u)
    BY ONLY <1>1, <1>2
  <2> QED BY ONLY <2>1, setup \in Setups, ReferencesAre
<1>13. \A w \in Wire : h[w] = References(d, l)[w] + Occurrences(ids, w) /\ t[w] = Occurrences(d[x], w)
  BY DEF More
<1>4. h \in Counts /\ t \in Counts /\ \A w \in Wire : t[w] <= h[w]
  <2>1. \A w \in Wire : h[w] \in Nat /\ t[w] \in Nat /\ t[w] <= h[w]
    BY ONLY <1>3, <1>12, <1>13
  <2> QED BY <2>1 DEF Counts, More
<1>5. [w \in Wire |-> h[w] - t[w]] = References(d2, l)
  <2>1. ASSUME NEW w \in Wire PROVE h[w] - t[w] = References(d2, l)[w]
    <3>1. /\ Held(d2, w) = Held(d, w) - Occurrences(d[x], w) + Occurrences(ids, w)
          /\ Held(d, w) \in Nat /\ Occurrences(d[x], w) \in Nat
          /\ Occurrences(ids, w) \in Nat /\ Extra(l, w) \in 0..1
      BY ONLY <1>3, <1>12, w \in Wire
    <3>2. /\ h[w] = Held(d, w) + Extra(l, w) + Occurrences(ids, w) /\ t[w] = Occurrences(d[x], w)
          /\ References(d2, l)[w] = Held(d2, w) + Extra(l, w)
      BY ONLY <1>12, <1>13, w \in Wire
    <3> QED BY ONLY <3>1, <3>2
  <2> QED BY <2>1 DEF References
<1>6. /\ IsStore(new) /\ Counted(new, References(d2, l))
      /\ DOMAIN new \subseteq DOMAIN store /\ Inherits(new, store)
  <2>1. new = decreaseReferenceCounts(store, t)
    BY DEF decreaseReferenceCount, TimesIn
  <2> QED BY ONLY <1>4, <1>5, <2>1, IsStore(store), Decreased, Counted(store, h)
<1>7. Inherits(new, ws)
  BY <1>6 DEF Inherits
<1>8. \A i \in 1..Width(x) : new[ids[i]].v = store[ids[i]].v
  <2> SUFFICES ASSUME NEW i \in 1..Width(x) PROVE new[ids[i]].v = store[ids[i]].v
    OBVIOUS
  <2>1. d2[x][i] \in DOMAIN new
    BY <1>2, <1>6, NamedStored
  <2> QED BY <1>2, <1>6, <2>1 DEF Inherits
<1>9. v2[x] = [i \in 1..Width(x) |-> new[d2[x][i]].v]
  BY <1>2, <1>8
<1>10. \A u \in Variables : FromSome(d, v, d2, v2, new, u)
  BY <1>2, <1>9 DEF FromSome
<1>11. Good(d2, v2, new, l)
  <2>1. DOMAIN d2 = Variables /\ DOMAIN v2 = Variables
    BY <1>2
  <2> QED BY ONLY <1>6, <1>7, <1>10, <2>1, setup \in Setups, Good(d, v, ws, l), Update
<1> QED BY ONLY <1>11, d2 = [d EXCEPT ![x] = ids], new = decreaseReferenceCount(store, d[x]),
               v2 = [v EXCEPT ![x] = [i \in 1..Width(x) |-> store[ids[i]].v]]

(* A variable gives its wires back. *)
LEMMA GivesBack ==
  ASSUME setup \in Setups, NEW d, NEW v, NEW ws, NEW l, Good(d, v, ws, l), NEW x \in Variables
  PROVE  Good([d EXCEPT ![x] = Uninitialized(x)], [v EXCEPT ![x] = None],
              decreaseReferenceCount(ws, d[x]), l)
<1> PICK b : b = Uninitialized(x)
  OBVIOUS
<1> PICK d2, v2, new :
      /\ d2 = [d EXCEPT ![x] = b] /\ v2 = [v EXCEPT ![x] = None]
      /\ new = decreaseReferenceCount(ws, d[x])
  OBVIOUS
<1>1. /\ DOMAIN d = Variables /\ DOMAIN v = Variables
      /\ \A u \in Variables : DOMAIN d[u] = 1..Width(u)
      /\ Width(x) \in Nat
  BY WidthIs DEF Good
<1>2. /\ DOMAIN d2 = Variables /\ DOMAIN v2 = Variables /\ d2[x] = b /\ v2[x] = None
      /\ \A u \in Variables : u # x => d2[u] = d[u] /\ v2[u] = v[u]
      /\ b \in [1..Width(x) -> {Empty}]
      /\ \A u \in Variables : DOMAIN d2[u] = 1..Width(u)
  BY <1>1 DEF Uninitialized
<1>3. \A w \in Wire : Occurrences(b, w) = 0
  BY <1>1, <1>2, OccurrencesAre, FrontendAssumption
<1>4. \A w \in Wire : /\ Held(d2, w) \in Nat /\ Held(d, w) \in Nat
                      /\ Occurrences(d[x], w) \in Nat
                      /\ Occurrences(d[x], w) <= Held(d, w)
                      /\ Held(d2, w) = Held(d, w) - Occurrences(d[x], w)
  <2>1. DOMAIN d2[x] = 1..Width(x) /\ DOMAIN d[x] = 1..Width(x)
        /\ SameBut(d, d2, x)
    BY <1>1, <1>2 DEF SameBut
  <2>2. \A w : /\ Held(d2, w) \in Nat /\ Held(d, w) \in Nat
               /\ Occurrences(d[x], w) \in Nat /\ Occurrences(d2[x], w) \in Nat
               /\ Occurrences(d[x], w) <= Held(d, w)
               /\ Held(d2, w) = Held(d, w) - Occurrences(d[x], w) + Occurrences(d2[x], w)
    BY ONLY <2>1, setup \in Setups, x \in Variables, HeldChange
  <2>3. d2[x] = b
    BY <1>2
  <2> QED BY ONLY <1>3, <2>2, <2>3
<1> PICK h, t : h = References(d, l) /\ t = [w \in Wire |-> Occurrences(d[x], w)]
  OBVIOUS
<1>12. /\ \A w \in Wire : References(d, l)[w] = Held(d, w) + Extra(l, w)
      /\ \A w \in Wire : References(d2, l)[w] = Held(d2, w) + Extra(l, w) /\ Extra(l, w) \in 0..1
  <2>1. /\ DOMAIN d = Variables /\ \A u \in Variables : DOMAIN d[u] = 1..Width(u)
        /\ DOMAIN d2 = Variables /\ \A u \in Variables : DOMAIN d2[u] = 1..Width(u)
    BY ONLY <1>1, <1>2
  <2> QED BY ONLY <2>1, setup \in Setups, ReferencesAre
<1>13. \A w \in Wire : h[w] = References(d, l)[w] /\ t[w] = Occurrences(d[x], w)
  OBVIOUS
<1>5. h \in Counts /\ t \in Counts /\ \A w \in Wire : t[w] <= h[w]
  <2>1. h \in Counts
    BY <1>1, ReferencesAre
  <2>2. \A w \in Wire : t[w] \in Nat /\ t[w] <= h[w]
    BY <1>4, <1>12
  <2> QED BY <2>1, <2>2 DEF Counts
<1>6. [w \in Wire |-> h[w] - t[w]] = References(d2, l)
  <2>1. ASSUME NEW w \in Wire PROVE h[w] - t[w] = References(d2, l)[w]
    BY ONLY <1>4, <1>12, <1>13, w \in Wire
  <2> QED BY <2>1 DEF References
<1>7. IsStore(new) /\ Counted(new, References(d2, l)) /\ Inherits(new, ws)
  <2>1. new = decreaseReferenceCounts(ws, t)
    BY DEF decreaseReferenceCount, TimesIn
  <2>2. IsStore(ws) /\ Counted(ws, h)
    BY DEF Good
  <2> QED BY ONLY <1>5, <1>6, <2>1, <2>2, Decreased
<1>8. \A u \in Variables : FromSome(d, v, d2, v2, new, u)
  BY <1>2 DEF FromSome
<1>9. Good(d2, v2, new, l)
  BY ONLY <1>2, <1>7, <1>8, setup \in Setups, Good(d, v, ws, l), Update
<1> QED BY ONLY <1>9, b = Uninitialized(x), d2 = [d EXCEPT ![x] = b],
               v2 = [v EXCEPT ![x] = None], new = decreaseReferenceCount(ws, d[x])

(* The wires of a call that threw. *)
LEMMA Loses ==
  ASSUME setup \in Setups, NEW d, NEW v, NEW ws, NEW l, Good(d, v, ws, l),
         NEW n \in Nat, NEW ids \in [1..n -> Wire \ DOMAIN ws],
         \A i, j \in 1..n : ids[i] = ids[j] => i = j,
         NEW store, IsStore(store), DOMAIN store = DOMAIN ws \cup {ids[i] : i \in 1..n},
         Inherits(store, ws),
         Counted(store, More(References(d, l), ids))
  PROVE  Good(d, v, store, l \cup (DOMAIN store \ DOMAIN ws))
<1> PICK l2 : l2 = l \cup (DOMAIN store \ DOMAIN ws)
  OBVIOUS
<1>1. /\ DOMAIN d = Variables /\ DOMAIN v = Variables
      /\ \A u \in Variables : DOMAIN d[u] = 1..Width(u)
  BY DEF Good
<1>2. \A w \in Wire : References(d, l)[w] + Occurrences(ids, w) = References(d, l2)[w]
  <2> SUFFICES ASSUME NEW w \in Wire
               PROVE  References(d, l)[w] + Occurrences(ids, w) = References(d, l2)[w]
    OBVIOUS
  <2>1. /\ Occurrences(ids, w) \in 0..1
        /\ Occurrences(ids, w) = 0 <=> \A i \in 1..n : ids[i] # w
    <3>1. DOMAIN ids = 1..n
      OBVIOUS
    <3> QED BY <3>1, OccurrencesAre
  <2>2. /\ References(d, l)[w] = Held(d, w) + Extra(l, w)
        /\ References(d, l2)[w] = Held(d, w) + Extra(l2, w)
        /\ Held(d, w) \in Nat
    BY <1>1, ReferencesAre
  <2>3. w \notin DOMAIN ws => w \notin l
    <3>1. w \notin DOMAIN ws => References(d, l)[w] = 0
      BY DEF Good, Counted
    <3>2. Extra(l, w) = 0 => w \notin l
      BY DEF Extra
    <3>3. Extra(l, w) \in 0..1
      BY DEF Extra
    <3> QED BY ONLY <2>2, <3>1, <3>2, <3>3
  <2>4. Occurrences(ids, w) = 1 <=> w \in l2 /\ w \notin l
    BY <2>1, <2>3
  <2>5. Extra(l2, w) = Extra(l, w) + Occurrences(ids, w)
    BY <2>1, <2>4 DEF Extra
  <2>6. Extra(l, w) \in 0..1
    BY DEF Extra
  <2> QED BY ONLY <2>1, <2>2, <2>5, <2>6
<1>3. Counted(store, References(d, l2))
  BY <1>2 DEF Counted, More
<1>4. \A x \in Variables : FromSome(d, v, d, v, store, x)
  BY DEF FromSome
<1> QED BY ONLY <1>1, <1>3, <1>4, setup \in Setups, Good(d, v, ws, l), IsStore(store),
               Inherits(store, ws), l2 = l \cup (DOMAIN store \ DOMAIN ws), Update

(* The invariant. *)
Inv == setup \in Setups /\ (~selfAssigned => Good(data, ideal, wires, lost))

(* The invariant of the next state, read with the setup of this one. *)
LEMMA SetupKept ==
  ASSUME setup' = setup, Good(data', ideal', wires', lost')
  PROVE  Good(data, ideal, wires, lost)'
<1>1. Variables' = Variables
  BY DEF Variables
<1>2. \A x : Width(x)' = Width(x) /\ Kind(x)' = Kind(x)
  BY DEF Width, Kind
<1>3. Bits' = Bits
  BY <1>1, <1>2 DEF Bits
<1>4. References(data, lost)' = References(data', lost')
  BY <1>3 DEF References, Held
<1>5. \A x : (Named(data, ideal, x)' <=> Named(data', ideal', x))
             /\ (Carried(data, ideal, wires, x)' <=> Carried(data', ideal', wires', x))
             /\ (Shaped(ideal, x)' <=> Shaped(ideal', x))
  BY <1>2 DEF Named, Carried, Shaped, Square
<1> QED BY <1>1, <1>2, <1>4, <1>5 DEF Good

(* The state is as it should be, and was. *)
Now == setup \in Setups /\ Good(data, ideal, wires, lost)
Kept == setup' = setup /\ Good(data', ideal', wires', lost')

(* What the invariant says of the types. *)
LEMMA Typed ==
  ASSUME Now
  PROVE  /\ DOMAIN data = Variables /\ DOMAIN ideal = Variables
         /\ \A x \in Variables : DOMAIN data[x] = 1..Width(x)
         /\ References(data, lost) \in Counts
         /\ IsStore(wires) /\ Counted(wires, References(data, lost))
<1>1. /\ DOMAIN data = Variables /\ DOMAIN ideal = Variables
      /\ \A x \in Variables : DOMAIN data[x] = 1..Width(x)
      /\ IsStore(wires) /\ Counted(wires, References(data, lost))
  BY DEF Now, Good
<1> QED BY <1>1, ReferencesAre DEF Now

(* A variable that is set. *)
LEMMA SetIs ==
  ASSUME Now, NEW y \in Variables, IsSet(y)
  PROVE  /\ data[y] \in [1..Width(y) -> Wire] /\ DOMAIN ideal[y] = 1..Width(y)
         /\ \A i \in 1..Width(y) : data[y][i] \in DOMAIN wires /\ ideal[y][i] = wires[data[y][i]].v
         /\ ideal[y] = Values(wires, data[y]) /\ Square(y, ideal[y])
<1>1. data[y] \in [1..Width(y) -> Wire] /\ ideal[y] = [i \in 1..Width(y) |-> wires[data[y][i]].v]
  BY DEF Now, Good, Named, Carried, IsSet
<1>2. \A i \in 1..Width(y) : data[y][i] \in DOMAIN wires
  BY <1>1, Typed, NamedStored DEF Now
<1>3. Square(y, ideal[y])
  BY DEF Now, Good, Shaped, IsSet
<1> QED BY <1>1, <1>2, <1>3 DEF Values

(* moveId *)
LEMMA MoveIdKeeps ==
  ASSUME Now, NEW x \in Variables, NEW result, NEW values, moveId(x, result, values),
         result.ids \in [1..Width(x) -> Wire],
         IsStore(result.store), DOMAIN wires \subseteq DOMAIN result.store,
         Inherits(result.store, wires),
         Counted(result.store,
                 More(References(data, lost), result.ids)),
         values = [i \in 1..Width(x) |-> result.store[result.ids[i]].v], Square(x, values)
  PROVE  Kept
<1> PICK ids, store : ids = result.ids /\ store = result.store
  OBVIOUS
<1>1. Good([data EXCEPT ![x] = ids],
           [ideal EXCEPT ![x] = [i \in 1..Width(x) |-> store[ids[i]].v]],
           decreaseReferenceCount(store, data[x]), lost)
  BY Takes DEF Now
<1>2. /\ data' = [data EXCEPT ![x] = ids]
      /\ ideal' = [ideal EXCEPT ![x] = [i \in 1..Width(x) |-> store[ids[i]].v]]
      /\ wires' = decreaseReferenceCount(store, data[x])
      /\ lost' = lost /\ setup' = setup
  BY DEF moveId
<1> QED BY ONLY <1>1, <1>2 DEF Kept

(* The outcomes of calls, one for each bit, that do not throw are these    *)
(* values.                                                                 *)
Yields(outcomes, values, n) ==
  /\ outcomes = [i \in 1..n |-> outcomes[i]] /\ values = [i \in 1..n |-> values[i]]
  /\ \A i \in 1..n : outcomes[i] # Throws => outcomes[i] = <<values[i]>>

(* The first calls got these wires, and the next threw. *)
LEMMA ThrownKeeps ==
  ASSUME Now, NEW new, Throw(new), Len(new.ids) \in Nat,
         new.ids \in [1..Len(new.ids) -> Wire \ DOMAIN wires],
         \A i, j \in 1..Len(new.ids) : new.ids[i] = new.ids[j] => i = j,
         IsStore(new.store),
         DOMAIN new.store = DOMAIN wires \cup {new.ids[i] : i \in 1..Len(new.ids)},
         Counted(new.store, More(References(data, lost), new.ids)),
         Inherits(new.store, wires)
  PROVE  Kept
<1>1. /\ wires' = new.store /\ lost' = lost \cup (DOMAIN new.store \ DOMAIN wires)
      /\ setup' = setup /\ data' = data /\ ideal' = ideal
  BY DEF Throw
<1>a. PICK m, ids, store : m = Len(new.ids) /\ ids = new.ids /\ store = new.store
  OBVIOUS
<1>2. /\ m \in Nat /\ ids \in [1..m -> Wire \ DOMAIN wires]
      /\ \A i, j \in 1..m : ids[i] = ids[j] => i = j
      /\ IsStore(store) /\ DOMAIN store = DOMAIN wires \cup {ids[i] : i \in 1..m}
      /\ Inherits(store, wires)
      /\ Counted(store, More(References(data, lost), ids))
  BY <1>a
<1>3. Good(data, ideal, store, lost \cup (DOMAIN store \ DOMAIN wires))
  BY ONLY <1>2, Now, Loses DEF Now
<1> QED BY ONLY <1>1, <1>3, <1>a DEF Kept

(* A call for every bit. *)
LEMMA AssignKeeps ==
  ASSUME Now, NEW x \in Variables, NEW outcomes, NEW values, Assign(x, outcomes, values),
         Yields(outcomes, values, Width(x)), Square(x, values)
  PROVE  Kept
<1>0. /\ outcomes = [i \in 1..Width(x) |-> outcomes[i]]
      /\ values = [i \in 1..Width(x) |-> values[i]]
      /\ \A i \in 1..Width(x) : outcomes[i] # Throws => outcomes[i] = <<values[i]>>
  BY DEF Yields
<1> PICK n \in Nat : n = Width(x)
  BY WidthIs DEF Now
<1>1. DOMAIN outcomes = 1..n /\ Len(outcomes) = n /\ Cardinality(Wire \ DOMAIN wires) >= n
  BY <1>0, LengthIs DEF Assign, Room
<1> PICK new : new = Performed(wires, outcomes)
  OBVIOUS
<1> PICK h : h = References(data, lost)
  OBVIOUS
<1>2. /\ Len(new.ids) \in 0..n
      /\ new.ids \in [1..Len(new.ids) -> Wire \ DOMAIN wires]
      /\ \A i, j \in 1..Len(new.ids) : new.ids[i] = new.ids[j] => i = j
      /\ IsStore(new.store)
      /\ DOMAIN new.store = DOMAIN wires \cup {new.ids[i] : i \in 1..Len(new.ids)}
      /\ Counted(new.store, More(h, new.ids))
      /\ Inherits(new.store, wires)
      /\ \A i \in 1..Len(new.ids) : /\ outcomes[i] # Throws
                                    /\ new.store[new.ids[i]].v = outcomes[i][1]
  <2>1. IsStore(wires) /\ h \in Counts /\ Counted(wires, h)
    BY Typed
  <2> QED BY ONLY <1>1, <2>1, n \in Nat, new = Performed(wires, outcomes), PerformedIs
<1>3. CASE Len(new.ids) = Width(x)
  <2>1. moveId(x, new, values)
    BY <1>3 DEF Assign
  <2>2. new.ids \in [1..Width(x) -> Wire] /\ DOMAIN wires \subseteq DOMAIN new.store
    BY <1>2, <1>3
  <2>3. \A i \in 1..Width(x) : new.store[new.ids[i]].v = values[i]
    BY <1>0, <1>2, <1>3
  <2>4. values = [i \in 1..Width(x) |-> new.store[new.ids[i]].v]
    BY <1>0, <2>3
  <2> QED BY ONLY <1>2, <2>1, <2>2, <2>4, Square(x, values), Now, x \in Variables,
                  h = References(data, lost), MoveIdKeeps
<1>4. CASE Len(new.ids) # Width(x)
  <2>1. Throw(new)
    BY <1>4 DEF Assign
  <2>2. Len(new.ids) \in Nat
    BY ONLY <1>2, n \in Nat
  <2> QED BY ONLY <1>2, <2>1, <2>2, Now, h = References(data, lost), ThrownKeeps
<1> QED BY <1>3, <1>4

-----------------------------------------------------------------------------
(* The steps.                                                              *)

(* An input is allocated bit by bit. *)
LEMMA ConstructKeeps ==
  ASSUME Now, NEW x \in Variables, Construct(x)
  PROVE  Kept
<1> PICK values \in setup.inputs[x] :
      /\ Len(values) = Width(x)
      /\ Assign(x, [i \in 1 .. Width(x) |-> Input(values[i])], values)
  BY DEF Construct
<1>1. values \in Seq(Seq({0, 1}))
  BY FrontendAssumption DEF Now, Variables
<1>2. values = [i \in 1..Width(x) |-> values[i]]
  BY <1>1
<1> PICK outcomes : outcomes = [i \in 1 .. Width(x) |-> Input(values[i])]
  OBVIOUS
<1>3. Yields(outcomes, values, Width(x))
  BY <1>2 DEF Input, Yields
<1>4. Square(x, values)
  <2>1. Kind(x) = "Int" => \A i, j \in DOMAIN values : Len(values[i]) = Len(values[j])
    BY FrontendAssumption DEF Now, Variables, Kind
  <2>2. Width(x) \in Nat /\ Width(x) > 0
    BY WidthIs DEF Now
  <2>3. \A i \in 1..Width(x) : values[i] \in Seq({0, 1})
    <3>1. \A S : values \in Seq(S) => \A i \in DOMAIN values : values[i] \in S
      OBVIOUS
    <3>2. DOMAIN values = 1..Width(x)
      BY ONLY <1>2
    <3> QED BY ONLY <1>1, <3>1, <3>2
  <2>4. \A i \in 1..Width(x) :
          Len(values[i]) \in Nat /\ values[i] = [k \in 1..Len(values[i]) |-> values[i][k]]
    BY <2>3
  <2>5. 1 \in 1..Width(x) /\ DOMAIN values = 1..Width(x)
    BY <1>2, <2>2
  <2>6. Kind(x) = "Int" =>
          \A i \in 1..Width(x) : values[i] = [k \in 1..Len(values[1]) |-> values[i][k]]
    BY <2>1, <2>4, <2>5
  <2> QED BY <2>4, <2>5, <2>6 DEF Square
<1> QED BY <1>3, <1>4, AssignKeeps

(* A value that is opened is allocated again. *)
LEMMA OpenKeeps ==
  ASSUME Now, NEW x \in Variables, NEW y \in Variables, Open(x, y)
  PROVE  Kept
<1> PICK outcomes : outcomes = [i \in 1 .. Width(x) |-> openBooleanValueToParty(wires, data[y][i])]
  OBVIOUS
<1>1. IsSet(y) /\ Width(x) = Width(y) /\ Assign(x, outcomes, ideal[y])
  BY DEF Open, Alike
<1>2. ideal[y] = [i \in 1..Width(x) |-> ideal[y][i]]
      /\ \A i \in 1..Width(x) : ideal[y][i] = wires[data[y][i]].v
  BY <1>1, SetIs DEF Values
<1>3. Yields(outcomes, ideal[y], Width(x))
  BY <1>2 DEF openBooleanValueToParty, Yields
<1>4. Square(x, ideal[y])
  BY <1>1, SetIs DEF Open, Alike, Square
<1> QED BY ONLY <1>1, <1>3, <1>4, Now, x \in Variables, AssignKeeps

(* A gate for each bit computes what the operands' values say. *)
LEMMA BitWiseKeeps ==
  ASSUME Now, NEW x \in Variables, NEW y \in Variables, NEW z \in Variables, BitWise(x, y, z)
  PROVE  Kept
<1>1. IsSet(y) /\ IsSet(z) /\ Width(x) = Width(y) /\ Width(x) = Width(z)
  BY DEF BitWise, Alike
<1>2. \A i \in 1..Width(x) : ideal[y][i] = wires[data[y][i]].v /\ ideal[z][i] = wires[data[z][i]].v
  BY <1>1, SetIs
<1>6. \A s : Square(x, s)
  BY DEF BitWise, Square
<1>3. CASE XorBits(x, y, z)
  <2> PICK outcomes, values :
        /\ outcomes = [i \in 1 .. Width(x) |-> privateXorPrivate(wires, data[y][i], data[z][i])]
        /\ values = [i \in 1 .. Width(x) |-> XorEach(ideal[y][i], ideal[z][i])]
    OBVIOUS
  <2>1. Assign(x, outcomes, values)
    BY <1>3 DEF XorBits
  <2>2. Yields(outcomes, values, Width(x))
    BY <1>2 DEF privateXorPrivate, Binary, Yields
  <2> QED BY ONLY <1>6, <2>1, <2>2, Now, x \in Variables, AssignKeeps
<1>4. CASE AndBits(x, y, z)
  <2> PICK outcomes, values :
        /\ outcomes = [i \in 1 .. Width(x) |-> privateAndPrivate(wires, data[y][i], data[z][i])]
        /\ values = [i \in 1 .. Width(x) |-> AndEach(ideal[y][i], ideal[z][i])]
    OBVIOUS
  <2>1. Assign(x, outcomes, values)
    BY <1>4 DEF AndBits
  <2>2. Yields(outcomes, values, Width(x))
    BY <1>2 DEF privateAndPrivate, Binary, Yields
  <2> QED BY ONLY <1>6, <2>1, <2>2, Now, x \in Variables, AssignKeeps
<1>5. CASE NotBits(x, y)
  <2> PICK outcomes, values :
        /\ outcomes = [i \in 1 .. Width(x) |-> notPrivate(wires, data[y][i])]
        /\ values = [i \in 1 .. Width(x) |-> NotAll(ideal[y][i])]
    OBVIOUS
  <2>1. Assign(x, outcomes, values)
    BY <1>5 DEF NotBits
  <2>2. Yields(outcomes, values, Width(x))
    BY <1>2 DEF notPrivate, Yields
  <2> QED BY ONLY <1>6, <2>1, <2>2, Now, x \in Variables, AssignKeeps
<1> QED BY <1>3, <1>4, <1>5 DEF BitWise

(* Several variables change, and the wires of s are given back.            *)
LEMMA Settles ==
  ASSUME setup \in Setups, NEW d, NEW v, NEW ws, NEW l, Good(d, v, ws, l),
         NEW store, IsStore(store), DOMAIN ws \subseteq DOMAIN store, Inherits(store, ws),
         NEW h \in Counts, Counted(store, h), NEW n \in Nat, NEW s, DOMAIN s = 1..n,
         NEW d2, NEW v2, DOMAIN d2 = Variables, DOMAIN v2 = Variables,
         \A w \in Wire : Occurrences(s, w) <= h[w]
                         /\ References(d2, l)[w] = h[w] - Occurrences(s, w),
         \A x \in Variables : FromSome(d, v, d2, v2, store, x)
  PROVE  Good(d2, v2, decreaseReferenceCount(store, s), l)
<1> PICK new, t : new = decreaseReferenceCount(store, s) /\ t = [w \in Wire |-> Occurrences(s, w)]
  OBVIOUS
<1>1. t \in Counts /\ \A w \in Wire : t[w] <= h[w]
  BY OccurrencesAre DEF Counts
<1>2. [w \in Wire |-> h[w] - t[w]] = References(d2, l)
  BY DEF References
<1>3. /\ IsStore(new) /\ Counted(new, References(d2, l))
      /\ DOMAIN new \subseteq DOMAIN store /\ Inherits(new, store)
  <2>1. new = decreaseReferenceCounts(store, t)
    BY DEF decreaseReferenceCount, TimesIn
  <2> QED BY ONLY <1>1, <1>2, <2>1, IsStore(store), Counted(store, h), h \in Counts, Decreased
<1>4. Inherits(new, ws)
  BY <1>3 DEF Inherits
<1>5. \A x \in Variables : d2[x] \in [1..Width(x) -> Wire \cup {Empty}]
  BY DEF Good, FromSome
<1>6. ASSUME NEW x \in Variables PROVE FromSome(d, v, d2, v2, new, x)
  <2>1. ASSUME d2[x] \in [1..Width(x) -> Wire], NEW i \in 1..Width(x)
        PROVE  new[d2[x][i]].v = store[d2[x][i]].v
    <3>1. d2[x][i] \in Wire
      BY <2>1
    <3>2. d2[x][i] \in DOMAIN new
      BY <1>3, <1>5, <3>1, NamedStored
    <3> QED BY <1>3, <3>2 DEF Inherits
  <2>2. d2[x] \in [1..Width(x) -> Wire] =>
          [i \in 1..Width(x) |-> new[d2[x][i]].v] = [i \in 1..Width(x) |-> store[d2[x][i]].v]
    BY <2>1
  <2>3. FromSome(d, v, d2, v2, store, x)
    OBVIOUS
  <2> QED BY ONLY <2>2, <2>3 DEF FromSome
<1>7. Good(d2, v2, new, l)
  BY ONLY <1>3, <1>4, <1>6, setup \in Setups, Good(d, v, ws, l), DOMAIN d2 = Variables,
          DOMAIN v2 = Variables, Update
<1> QED BY ONLY <1>7, new = decreaseReferenceCount(store, s)

(* A variable that is destroyed gives its references back. *)
LEMMA DestroyKeeps ==
  ASSUME Now, NEW x \in Variables, Destroy(x)
  PROVE  Kept
<1>1. Good([data EXCEPT ![x] = Uninitialized(x)], [ideal EXCEPT ![x] = None],
           decreaseReferenceCount(wires, data[x]), lost)
  BY GivesBack DEF Now
<1> QED BY <1>1 DEF Destroy, Kept

(* A move passes the references of y on, and gives those of x back. *)
LEMMA MoveAssignKeeps ==
  ASSUME Now, NEW x \in Variables, NEW y \in Variables, MoveAssign(x, y)
  PROVE  Kept
<1>1. /\ IsSet(y) /\ Width(x) = Width(y) /\ Kind(x) = Kind(y)
      /\ setup' = setup /\ lost' = lost /\ wires' = decreaseReferenceCount(wires, data[x])
  BY DEF MoveAssign, Alike
<1>2. CASE x = y
  <2>1. Good([data EXCEPT ![x] = Uninitialized(x)], [ideal EXCEPT ![x] = None],
             decreaseReferenceCount(wires, data[x]), lost)
    BY GivesBack DEF Now
  <2>2. data' = [data EXCEPT ![x] = Uninitialized(x)]
    BY <1>2, Typed DEF MoveAssign
  <2>3. ideal' = [ideal EXCEPT ![x] = None]
    BY <1>2, Typed DEF MoveAssign
  <2> QED BY <1>1, <2>1, <2>2, <2>3 DEF Kept
<1>3. CASE x # y
  <2> PICK b : b = Uninitialized(y)
    OBVIOUS
  <2> PICK d1, d2, v2 :
        /\ d1 = [data EXCEPT ![x] = data[y]] /\ d2 = data' /\ v2 = ideal'
    OBVIOUS
  <2>1. /\ DOMAIN data = Variables /\ DOMAIN ideal = Variables
        /\ \A u \in Variables : DOMAIN data[u] = 1..Width(u)
    BY Typed
  <2>2. /\ DOMAIN d2 = Variables /\ d2[x] = data[y] /\ d2[y] = b
        /\ \A u \in Variables : u # x /\ u # y => d2[u] = data[u]
    BY <1>3, <2>1 DEF MoveAssign
  <2>3. /\ DOMAIN v2 = Variables /\ v2[x] = ideal[y] /\ v2[y] = None
        /\ \A u \in Variables : u # x /\ u # y => v2[u] = ideal[u]
    BY <1>3, <2>1 DEF MoveAssign
  <2>4. b \in [1..Width(y) -> {Empty}] /\ \A w \in Wire : Occurrences(b, w) = 0
    <3>1. b \in [1..Width(y) -> {Empty}] /\ Width(y) \in Nat
      BY WidthIs DEF Uninitialized, Now
    <3> QED BY <3>1, OccurrencesAre, FrontendAssumption
  <2>5. /\ d1[x] = data[y] /\ d1[y] = data[y] /\ SameBut(data, d1, x) /\ SameBut(d1, d2, y)
        /\ DOMAIN d1[x] = 1..Width(x) /\ DOMAIN d1[y] = 1..Width(y) /\ DOMAIN d2[y] = 1..Width(y)
    BY <1>1, <1>3, <2>1, <2>2, <2>4 DEF SameBut
  <2>6. ASSUME NEW w \in Wire
        PROVE  /\ Held(d2, w) = Held(data, w) - Occurrences(data[x], w)
               /\ Held(data, w) \in Nat /\ Occurrences(data[x], w) \in Nat
               /\ Occurrences(data[x], w) <= Held(data, w)
    <3>1. /\ Held(d1, w) \in Nat /\ Held(data, w) \in Nat
          /\ Occurrences(data[x], w) \in Nat /\ Occurrences(d1[x], w) \in Nat
          /\ Occurrences(data[x], w) <= Held(data, w)
          /\ Held(d1, w) = Held(data, w) - Occurrences(data[x], w) + Occurrences(d1[x], w)
      BY ONLY <2>1, <2>5, Now, x \in Variables, HeldChange DEF Now
    <3>2. /\ Held(d2, w) \in Nat /\ Held(d1, w) \in Nat
          /\ Occurrences(d1[y], w) \in Nat /\ Occurrences(d2[y], w) \in Nat
          /\ Held(d2, w) = Held(d1, w) - Occurrences(d1[y], w) + Occurrences(d2[y], w)
      BY ONLY <2>5, Now, y \in Variables, HeldChange DEF Now
    <3>3. d1[x] = d1[y] /\ Occurrences(d2[y], w) = 0
      BY <2>2, <2>4, <2>5
    <3> QED BY ONLY <3>1, <3>2, <3>3
  <2> PICK h : h = References(data, lost)
    OBVIOUS
  <2>7. \A w \in Wire : Occurrences(data[x], w) <= h[w]
                        /\ References(d2, lost)[w] = h[w] - Occurrences(data[x], w)
    <3> SUFFICES ASSUME NEW w \in Wire
                 PROVE  Occurrences(data[x], w) <= h[w]
                        /\ References(d2, lost)[w] = h[w] - Occurrences(data[x], w)
      OBVIOUS
    <3>1. /\ References(d2, lost)[w] = Held(d2, w) + Extra(lost, w)
          /\ h[w] = Held(data, w) + Extra(lost, w) /\ Extra(lost, w) \in 0..1
      BY DEF References, Extra
    <3> QED BY ONLY <2>6, <3>1, w \in Wire
  <2>8. \A u \in Variables : FromSome(data, ideal, d2, v2, wires, u)
    <3>1. ASSUME NEW u \in Variables, u # x, u # y PROVE FromSome(data, ideal, d2, v2, wires, u)
      BY <2>2, <2>3, <3>1 DEF FromSome
    <3>2. FromSome(data, ideal, d2, v2, wires, x)
      BY <1>1, <2>2, <2>3 DEF FromSome
    <3>3. FromSome(data, ideal, d2, v2, wires, y)
      BY <2>2, <2>3, <2>4 DEF FromSome
    <3> QED BY <3>1, <3>2, <3>3
  <2> PICK n, s : n = Width(x) /\ s = data[x]
    OBVIOUS
  <2>9. Good(d2, v2, decreaseReferenceCount(wires, s), lost)
    <3>1. n \in Nat /\ DOMAIN s = 1..n
      BY <2>1, WidthIs DEF Now
    <3>2. h \in Counts /\ IsStore(wires) /\ Counted(wires, h) /\ Inherits(wires, wires)
      BY Typed DEF Inherits
    <3>3. \A w \in Wire : Occurrences(s, w) <= h[w]
                          /\ References(d2, lost)[w] = h[w] - Occurrences(s, w)
      BY <2>7
    <3> QED BY ONLY <2>2, <2>3, <2>8, <3>1, <3>2, <3>3, Now, Settles DEF Now
  <2> QED BY <1>1, <2>9 DEF Kept
<1> QED BY <1>2, <1>3

(* A copy adds its references before it gives those of x back. *)
LEMMA CopyAssignKeeps ==
  ASSUME Now, NEW x \in Variables, NEW y \in Variables, CopyAssign(x, y), ~selfAssigned'
  PROVE  Kept
<1>1. /\ x # y /\ IsSet(y) /\ Width(x) = Width(y) /\ Kind(x) = Kind(y)
      /\ setup' = setup /\ lost' = lost
      /\ wires' = decreaseReferenceCount(increaseReferenceCount(wires, data[y]), data[x])
      /\ data' = [data EXCEPT ![x] = data[y]]
      /\ ideal' = [ideal EXCEPT ![x] = ideal[y]]
  BY DEF CopyAssign, Alike
<1> PICK ids, store : ids = data[y] /\ store = increaseReferenceCount(wires, ids)
  OBVIOUS
<1>2. /\ ids \in [1..Width(x) -> Wire]
      /\ \A i \in 1..Width(x) : ids[i] \in DOMAIN wires /\ ideal[y][i] = wires[ids[i]].v
      /\ DOMAIN ideal[y] = 1..Width(x) /\ Square(y, ideal[y])
      /\ ideal[y] = [i \in 1..Width(x) |-> wires[ids[i]].v]
  BY <1>1, SetIs DEF Values
<1> PICK h, t : h = References(data, lost) /\ t = [w \in Wire |-> Occurrences(ids, w)]
  OBVIOUS
<1>3. t \in Counts /\ \A w \in Wire : t[w] > 0 => w \in DOMAIN wires
  <2>1. Width(x) \in Nat
    BY WidthIs DEF Now
  <2>2. ASSUME NEW w \in Wire PROVE t[w] \in Nat /\ (t[w] > 0 => w \in DOMAIN wires)
    <3>1. /\ Occurrences(ids, w) \in Nat
          /\ Occurrences(ids, w) = 0 <=> \A i \in 1..Width(x) : ids[i] # w
      BY <1>2, <2>1, OccurrencesAre
    <3> QED BY <1>2, <3>1
  <2> QED BY <2>2 DEF Counts
<1>4. /\ IsStore(store) /\ Counted(store, [w \in Wire |-> h[w] + t[w]])
      /\ DOMAIN store = DOMAIN wires /\ Inherits(store, wires)
  <2>1. store = increaseReferenceCounts(wires, t)
    BY DEF increaseReferenceCount, TimesIn
  <2>2. h \in Counts /\ IsStore(wires) /\ Counted(wires, h)
    BY Typed
  <2> QED BY ONLY <1>3, <2>1, <2>2, Increased
<1>5. [w \in Wire |-> h[w] + t[w]] = More(References(data, lost), ids)
  BY DEF More
<1>6. ideal[y] = [i \in 1..Width(x) |-> store[ids[i]].v]
  BY <1>2, <1>4 DEF Inherits
<1>7. Square(x, ideal[y])
  BY ONLY <1>1, <1>2 DEF Square
<1>8. Good([data EXCEPT ![x] = ids],
           [ideal EXCEPT ![x] = [i \in 1..Width(x) |-> store[ids[i]].v]],
           decreaseReferenceCount(store, data[x]), lost)
  <2>1. Square(x, [i \in 1..Width(x) |-> store[ids[i]].v])
    BY ONLY <1>6, <1>7
  <2>2. Counted(store, More(References(data, lost), ids))
    BY ONLY <1>4, <1>5
  <2>3. ids \in [1..Width(x) -> Wire] /\ DOMAIN wires \subseteq DOMAIN store
    BY <1>2, <1>4
  <2>4. setup \in Setups /\ Good(data, ideal, wires, lost)
    BY DEF Now
  <2> QED BY ONLY <1>4, <2>1, <2>2, <2>3, <2>4, x \in Variables, Takes
<1>9. Good(data', ideal', wires', lost')
  BY ONLY <1>1, <1>6, <1>8, ids = data[y], store = increaseReferenceCount(wires, ids)
<1> QED BY <1>1, <1>9 DEF Kept

(* One AND for each bit of a BitString. *)
LEMMA CompositeKeeps ==
  ASSUME Now, NEW x \in Variables, NEW choice \in Variables, NEW y \in Variables,
         Composite(x, choice, y)
  PROVE  Kept
<1> PICK outcomes, values :
      /\ outcomes = computeCompositeAND(wires, data[choice][1], data[y])
      /\ values = [i \in 1 .. Width(x) |-> AndEach(ideal[choice][1], ideal[y][i])]
  OBVIOUS
<1>1. /\ IsSet(y) /\ IsSet(choice) /\ Width(x) = Width(y) /\ Kind(x) = "BitString"
      /\ Kind(choice) = "Bit" /\ Assign(x, outcomes, values)
  BY DEF Composite, Alike
<1>2. Width(choice) = 1 /\ 1 \in 1..Width(choice)
  BY <1>1, WidthIs DEF Now
<1>3. /\ ideal[choice][1] = wires[data[choice][1]].v /\ DOMAIN data[y] = 1..Width(x)
      /\ \A i \in 1..Width(x) : ideal[y][i] = wires[data[y][i]].v
  BY <1>1, <1>2, SetIs
<1>4. /\ outcomes = [i \in 1..Width(x) |-> privateAndPrivate(wires, data[choice][1], data[y][i])]
  BY <1>3 DEF computeCompositeAND
<1>5. Yields(outcomes, values, Width(x))
  BY <1>3, <1>4 DEF privateAndPrivate, Binary, Yields
<1>6. Square(x, values)
  BY <1>1 DEF Square
<1> QED BY ONLY <1>1, <1>5, <1>6, Now, x \in Variables, AssignKeeps

(* Nothing is allocated before the operands are found to differ in size.   *)
LEMMA ThrowKeeps ==
  ASSUME Now, Throw([store |-> wires])
  PROVE  Kept
<1>1. /\ wires' = wires /\ lost' = lost \cup (DOMAIN wires \ DOMAIN wires)
      /\ setup' = setup /\ data' = data /\ ideal' = ideal
  BY DEF Throw
<1>2. lost' = lost
  BY <1>1
<1> QED BY <1>1, <1>2 DEF Now, Kept

(* A variable of new wires that carry these values. *)
LEMMA ComputedKeeps ==
  ASSUME Now, NEW x \in Variables, NEW values, NEW batch,
         Kind(x) = "Int" => batch \in Nat,
         values = [i \in 1..Width(x) |-> [k \in 1..batch |-> values[i][k]]],
         Room(Width(x)), moveId(x, Allocated(wires, values), values)
  PROVE  Kept
<1> PICK n \in Nat : n = Width(x)
  BY WidthIs DEF Now
<1> PICK new : new = Allocated(wires, values)
  OBVIOUS
<1>1. Len(values) = n
  <2>1. values = [i \in 1..n |-> values[i]]
    OBVIOUS
  <2> QED BY <2>1, LengthIs
<1>2. Cardinality(Wire \ DOMAIN wires) >= n
  BY DEF Room
<1> PICK h : h = References(data, lost)
  OBVIOUS
<1>3. /\ new.ids \in [1..n -> Wire \ DOMAIN wires]
      /\ IsStore(new.store)
      /\ DOMAIN new.store = DOMAIN wires \cup {new.ids[i] : i \in 1..n}
      /\ Counted(new.store, More(h, new.ids))
      /\ Inherits(new.store, wires)
      /\ \A i \in 1..n : new.store[new.ids[i]].v = values[i]
  <2>1. IsStore(wires) /\ h \in Counts /\ Counted(wires, h)
    BY Typed
  <2> QED BY ONLY <1>1, <1>2, <2>1, n \in Nat, new = Allocated(wires, values), AllocatedIs
<1>4. Square(x, values)
  <2>1. \A i \in 1..Width(x) : values[i] = [k \in 1..batch |-> values[i][k]]
    OBVIOUS
  <2> QED BY ONLY <2>1, Kind(x) = "Int" => batch \in Nat DEF Square
<1>5. values = [i \in 1..n |-> new.store[new.ids[i]].v]
  BY <1>3
<1>6. new.ids \in [1..n -> Wire] /\ DOMAIN wires \subseteq DOMAIN new.store
  BY <1>3
<1> QED BY ONLY <1>3, <1>4, <1>5, <1>6, Now, x \in Variables, n = Width(x), MoveIdKeeps,
               h = References(data, lost), new = Allocated(wires, values),
               moveId(x, Allocated(wires, values), values)

(* The values the variables hold. *)
Stored == [v \in {u \in Variables : IsSet(u)} |-> Values(wires, data[v])]

(* The wires carry the values the variables should have. *)
LEMMA StoredIs ==
  ASSUME Now, NEW y \in Variables, IsSet(y)
  PROVE  Stored[y] = ideal[y] /\ (Kind(y) = "Int" => Batch(ideal[y]) \in Nat)
<1>1. Stored[y] = ideal[y]
  BY SetIs DEF Stored
<1>2. ASSUME Kind(y) = "Int" PROVE Batch(ideal[y]) \in Nat
  <2>1. PICK n \in Nat : \A i \in 1..Width(y) : ideal[y][i] = [k \in 1..n |-> ideal[y][i][k]]
    BY <1>2, SetIs DEF Square
  <2>2. 1 \in 1..Width(y)
    BY WidthIs DEF Now
  <2>3. Len(ideal[y][1]) = n
    BY <2>1, <2>2, LengthIs
  <2> QED BY <2>3 DEF Batch
<1> QED BY <1>1, <1>2

(* The operands give the same results from the wires as from the values    *)
(* the variables should have.                                              *)
LEMMA ResultKeeps ==
  ASSUME Now, NEW x \in Variables, NEW y \in Variables, IsSet(y), Kind(x) = "Int" => Kind(y) = "Int",
         Room(Width(x)), NEW computed, NEW values, computed = values,
         values = [i \in 1..Width(x) |-> [k \in 1..Batch(ideal[y]) |-> values[i][k]]],
         moveId(x, Allocated(wires, computed), values)
  PROVE  Kept
<1> PICK batch : batch = Batch(ideal[y])
  OBVIOUS
<1>1. Kind(x) = "Int" => batch \in Nat
  BY StoredIs
<1>2. moveId(x, Allocated(wires, values), values)
  BY ONLY computed = values, moveId(x, Allocated(wires, computed), values)
<1> QED BY ONLY <1>1, <1>2, Now, x \in Variables, Room(Width(x)), batch = Batch(ideal[y]),
               values = [i \in 1..Width(x) |-> [k \in 1..Batch(ideal[y]) |-> values[i][k]]],
               ComputedKeeps

(* Sums, differences and negations. *)
LEMMA ArithmeticKeeps ==
  ASSUME Now, NEW x \in Variables, NEW y \in Variables, NEW z \in Variables, Arithmetic(x, y, z)
  PROVE  Kept
<1> DEFINE
      sum(of) == [i \in 1..Width(x) |-> [k \in 1..Batch(of[y]) |->
                    plus(Element(of[y], k), Element(of[z], k))[i]]]
      difference(of) == [i \in 1..Width(x) |-> [k \in 1..Batch(of[y]) |->
                           minus(Element(of[y], k), Element(of[z], k))[i]]]
      negation(of) == [i \in 1..Width(x) |-> [k \in 1..Batch(of[y]) |->
                         negative(Element(of[y], k))[i]]]
<1>1. Kind(x) = "Int" /\ Kind(y) = "Int"
  BY DEF Arithmetic, Alike
<1>2. /\ IsSet(y) /\ IsSet(z) /\ Room(Width(x))
      /\ \/ Throw([store |-> wires])
         \/ moveId(x, Allocated(wires, sum(Stored)), sum(ideal))
         \/ moveId(x, Allocated(wires, difference(Stored)), difference(ideal))
         \/ moveId(x, Allocated(wires, negation(Stored)), negation(ideal))
  BY DEF Arithmetic, Apply, EachElement, Stored
<1>3. /\ sum(Stored) = sum(ideal) /\ difference(Stored) = difference(ideal)
      /\ negation(Stored) = negation(ideal)
  BY <1>2, StoredIs
<1>4. ASSUME NEW computed, NEW values, computed = values,
             values = [i \in 1..Width(x) |-> [k \in 1..Batch(ideal[y]) |-> values[i][k]]],
             moveId(x, Allocated(wires, computed), values)
      PROVE  Kept
  BY ONLY <1>1, <1>2, <1>4, Now, x \in Variables, y \in Variables, ResultKeeps
<1>5. /\ sum(ideal) = [i \in 1..Width(x) |-> [k \in 1..Batch(ideal[y]) |-> sum(ideal)[i][k]]]
      /\ difference(ideal) =
           [i \in 1..Width(x) |-> [k \in 1..Batch(ideal[y]) |-> difference(ideal)[i][k]]]
      /\ negation(ideal) =
           [i \in 1..Width(x) |-> [k \in 1..Batch(ideal[y]) |-> negation(ideal)[i][k]]]
  OBVIOUS
<1> HIDE DEF sum, difference, negation
<1> QED BY ONLY <1>2, <1>3, <1>4, <1>5, Now, ThrowKeeps

(* Comparisons. *)
LEMMA CompareKeeps ==
  ASSUME Now, NEW x \in Variables, NEW y \in Variables, NEW z \in Variables, Compare(x, y, z)
  PROVE  Kept
<1> DEFINE
      smaller(of) == [i \in 1..Width(x) |-> [k \in 1..Batch(of[y]) |->
                        <<less(isSigned(y), Element(of[y], k), Element(of[z], k))>>[i]]]
      equal(of) == [i \in 1..Width(x) |-> [k \in 1..Batch(of[y]) |->
                      <<equalityCheck(Element(of[y], k), Element(of[z], k))>>[i]]]
<1>1. Kind(y) = "Int"
  BY DEF Compare
<1>2. /\ IsSet(y) /\ IsSet(z) /\ Room(Width(x))
      /\ \/ Throw([store |-> wires])
         \/ moveId(x, Allocated(wires, smaller(Stored)), smaller(ideal))
         \/ moveId(x, Allocated(wires, equal(Stored)), equal(ideal))
  BY DEF Compare, Apply, EachElement, Stored
<1>3. smaller(Stored) = smaller(ideal) /\ equal(Stored) = equal(ideal)
  BY <1>2, StoredIs
<1>4. ASSUME NEW computed, NEW values, computed = values,
             values = [i \in 1..Width(x) |-> [k \in 1..Batch(ideal[y]) |-> values[i][k]]],
             moveId(x, Allocated(wires, computed), values)
      PROVE  Kept
  BY ONLY <1>1, <1>2, <1>4, Now, x \in Variables, y \in Variables, ResultKeeps
<1>5. /\ smaller(ideal) = [i \in 1..Width(x) |-> [k \in 1..Batch(ideal[y]) |-> smaller(ideal)[i][k]]]
      /\ equal(ideal) = [i \in 1..Width(x) |-> [k \in 1..Batch(ideal[y]) |-> equal(ideal)[i][k]]]
  OBVIOUS
<1> HIDE DEF smaller, equal
<1> QED BY ONLY <1>2, <1>3, <1>4, <1>5, Now, ThrowKeeps

(* A choice between two. *)
LEMMA MuxKeeps ==
  ASSUME Now, NEW x \in Variables, NEW choice \in Variables, NEW y \in Variables,
         NEW z \in Variables, Mux(x, choice, y, z)
  PROVE  Kept
<1> DEFINE
      bit(of) == IF choice = Empty THEN [k \in 1 .. Batch(of[y]) |-> 0] ELSE of[choice][1]
      chosen(of) == [i \in 1..Width(x) |-> [k \in 1..Batch(of[y]) |->
                       mux(bit(of)[k], Element(of[y], k), Element(of[z], k))[i]]]
<1>1. Kind(x) = Kind(y)
  BY DEF Mux, Alike
<1>2. /\ IsSet(y) /\ IsSet(z) /\ (choice # Empty => IsSet(choice)) /\ Room(Width(x))
      /\ \/ Throw([store |-> wires])
         \/ moveId(x, Allocated(wires, chosen(Stored)), chosen(ideal))
  BY DEF Mux, Apply, EachElement, Stored
<1>3. chosen(Stored) = chosen(ideal)
  <2>1. Stored[y] = ideal[y] /\ Stored[z] = ideal[z]
    BY <1>2, StoredIs
  <2>2. bit(Stored) = bit(ideal)
    BY <1>2, <2>1, StoredIs
  <2> HIDE DEF bit
  <2> QED BY <2>1, <2>2
<1>4. chosen(ideal) = [i \in 1..Width(x) |-> [k \in 1..Batch(ideal[y]) |-> chosen(ideal)[i][k]]]
  OBVIOUS
<1> HIDE DEF chosen
<1>5. ASSUME moveId(x, Allocated(wires, chosen(Stored)), chosen(ideal)) PROVE Kept
  BY ONLY <1>1, <1>2, <1>3, <1>4, <1>5, Now, x \in Variables, y \in Variables, ResultKeeps
<1> QED BY ONLY <1>2, <1>5, Now, ThrowKeeps

(* The last of a sequence. *)
LEMMA LastIs ==
  ASSUME NEW n \in Nat, NEW s, s = [i \in 1..n |-> s[i]]
  PROVE  Last(s) = s[n]
BY LengthIs DEF Last

(* The bits of an Int that is cast, by bit instead of by element. *)
LEMMA CastIs ==
  ASSUME Now, NEW x \in Variables, NEW y \in Variables, IsSet(y), Kind(y) = "Int"
  PROVE  LET batch  == Batch(ideal[y])
             values == [i \in 1..Width(x) |-> [k \in 1..batch |->
                      cast(isSigned(y), Width(x), Element(ideal[y], k))[i]]]
         IN  /\ batch \in Nat
             /\ values = [i \in 1..Width(x) |->
                            IF i <= Width(y) THEN ideal[y][i]
                            ELSE IF isSigned(y) THEN ideal[y][Width(y)] ELSE [k \in 1..batch |-> 0]]
<1> PICK batch, m, n, s, signed :
      /\ batch = Batch(ideal[y]) /\ m = Width(y) /\ n = Width(x) /\ s = ideal[y]
      /\ signed = isSigned(y)
  OBVIOUS
<1>1. m \in Nat /\ n \in Nat /\ m > 0 /\ DOMAIN s = 1..m /\ batch \in Nat
  BY WidthIs, SetIs, StoredIs DEF Now
<1>2. \A i \in 1..m : s[i] = [k \in 1..batch |-> s[i][k]]
  <2>0. Square(y, s)
    BY SetIs
  <2> PICK c \in Nat : \A i \in 1..m : s[i] = [k \in 1..c |-> s[i][k]]
    BY ONLY <2>0, Kind(y) = "Int", m = Width(y) DEF Square
  <2>1. batch = c
    <3>1. 1 \in 1..m
      BY <1>1
    <3>2. s[1] = [k \in 1..c |-> s[1][k]]
      BY <3>1
    <3>3. Len(s[1]) = c
      BY <3>2, LengthIs
    <3> QED BY ONLY <3>3, batch = Batch(ideal[y]), s = ideal[y] DEF Batch
  <2> QED BY <2>1
<1>3. ASSUME NEW k \in 1..batch
      PROVE  cast(signed, n, Element(s, k)) =
               [i \in 1..n |-> IF i <= m THEN s[i][k] ELSE IF signed THEN s[m][k] ELSE 0]
  <2> PICK e : e = Element(s, k)
    OBVIOUS
  <2>1. e = [i \in 1..m |-> s[i][k]]
    BY <1>1 DEF Element
  <2>2. Len(e) = m /\ Last(e) = s[m][k]
    <3>1. e = [i \in 1..m |-> e[i]] /\ e[m] = s[m][k]
      BY <1>1, <2>1
    <3> QED BY <1>1, <3>1, LengthIs, LastIs
  <2>3. cast(signed, n, e) =
          [i \in 1..n |-> IF i <= m THEN e[i] ELSE IF signed THEN s[m][k] ELSE 0]
    BY <2>2 DEF cast
  <2>4. \A i \in 1..n : i <= m => e[i] = s[i][k]
    BY <1>1, <2>1
  <2> QED BY ONLY <2>3, <2>4, e = Element(s, k)
<1>4. ASSUME NEW i \in 1..n
      PROVE  [k \in 1..batch |-> cast(signed, n, Element(s, k))[i]] =
               IF i <= m THEN s[i] ELSE IF signed THEN s[m] ELSE [k \in 1..batch |-> 0]
  <2>1. ASSUME NEW k \in 1..batch
        PROVE  cast(signed, n, Element(s, k))[i] =
                 IF i <= m THEN s[i][k] ELSE IF signed THEN s[m][k] ELSE 0
    <3> PICK c : c = cast(signed, n, Element(s, k))
      OBVIOUS
    <3>1. c = [j \in 1..n |-> IF j <= m THEN s[j][k] ELSE IF signed THEN s[m][k] ELSE 0]
      BY ONLY <1>3, k \in 1..batch, c = cast(signed, n, Element(s, k))
    <3>2. c[i] = IF i <= m THEN s[i][k] ELSE IF signed THEN s[m][k] ELSE 0
      BY ONLY <3>1, i \in 1..n
    <3> QED BY ONLY <3>2, c = cast(signed, n, Element(s, k))
  <2>2. CASE i <= m
    <3>1. s[i] = [k \in 1..batch |-> s[i][k]]
      BY <1>1, <1>2, <2>2
    <3> QED BY <2>1, <2>2, <3>1
  <2>3. CASE ~(i <= m) /\ signed
    <3>1. s[m] = [k \in 1..batch |-> s[m][k]]
      BY <1>1, <1>2
    <3> QED BY <2>1, <2>3, <3>1
  <2>4. CASE ~(i <= m) /\ ~signed
    BY <2>1, <2>4
  <2> QED BY <2>2, <2>3, <2>4
<1>5. [i \in 1..n |-> [k \in 1..batch |-> cast(signed, n, Element(s, k))[i]]] =
        [i \in 1..n |-> IF i <= m THEN s[i] ELSE IF signed THEN s[m] ELSE [k \in 1..batch |-> 0]]
  BY <1>4
<1> QED BY <1>1, <1>5

(* References to wires of the store that may not have been named before.   *)
LEMMA SharedKeeps ==
  ASSUME NEW ws, IsStore(ws), NEW h \in Counts, Counted(ws, h), NEW n \in Nat,
         NEW bits \in [1..n -> DOMAIN ws]
  PROVE  LET store == increaseReferenceCount(ws, bits)
         IN  /\ IsStore(store) /\ DOMAIN store = DOMAIN ws /\ Inherits(store, ws)
             /\ Counted(store, More(h, bits))
             /\ More(h, bits) \in Counts
<1> PICK t : t = [w \in Wire |-> Occurrences(bits, w)]
  OBVIOUS
<1>1. t \in Counts /\ \A w \in Wire : t[w] > 0 => w \in DOMAIN ws
  <2>1. ASSUME NEW w \in Wire PROVE t[w] \in Nat /\ (t[w] > 0 => w \in DOMAIN ws)
    <3>1. /\ Occurrences(bits, w) \in Nat
          /\ Occurrences(bits, w) = 0 <=> \A i \in 1..n : bits[i] # w
      BY OccurrencesAre
    <3> QED BY <3>1
  <2> QED BY <2>1 DEF Counts
<1> PICK store : store = increaseReferenceCount(ws, bits)
  OBVIOUS
<1>2. store = increaseReferenceCounts(ws, t)
  BY DEF increaseReferenceCount, TimesIn
<1>3. /\ IsStore(store) /\ Counted(store, [w \in Wire |-> h[w] + t[w]])
      /\ DOMAIN store = DOMAIN ws /\ Inherits(store, ws)
  BY ONLY <1>1, <1>2, IsStore(ws), Counted(ws, h), h \in Counts, Increased
<1>4. [w \in Wire |-> h[w] + t[w]] = More(h, bits)
  BY DEF More
<1>5. [w \in Wire |-> h[w] + t[w]] \in Counts
  BY <1>1 DEF Counts
<1> QED BY ONLY <1>3, <1>4, <1>5, store = increaseReferenceCount(ws, bits)

(* The store with n references more, to wires of these values. *)
Adds(store, ws, h, n, bits, values) ==
  /\ IsStore(store) /\ DOMAIN ws \subseteq DOMAIN store /\ Inherits(store, ws)
  /\ Counted(store, More(h, bits))
  /\ bits \in [1..n -> Wire]
  /\ \A i \in 1..n : store[bits[i]].v = values[i]

(* What the wires of a cast carry, filled up with v. *)
PaddedValues(ws, n, old, m, v) == [i \in 1..n |-> IF i <= m THEN ws[old[i]].v ELSE v]

(* The wires of old, and then one more as often as it takes. *)
Padded(bits, n, old, m, w) == bits = [i \in 1..n |-> IF i <= m THEN old[i] ELSE w]

(* The same with one new wire besides, whose own reference is given back.  *)
LEMMA PaddedKeeps ==
  ASSUME NEW ws, IsStore(ws), NEW h \in Counts, Counted(ws, h), NEW n \in Nat, NEW m \in Nat,
         Cardinality(Wire \ DOMAIN ws) >= 1, NEW s, Len(s) = 1, NEW zero, zero = Allocated(ws, s),
         NEW old \in [1..m -> DOMAIN ws], NEW bits,
         Padded(bits, n, old, m, zero.ids[1])
  PROVE  Adds(decreaseReferenceCount(increaseReferenceCount(zero.store, bits), zero.ids),
              ws, h, n, bits, PaddedValues(ws, n, old, m, s[1]))
<1>v. PICK v : v = s[1]
  OBVIOUS
<1>a. PICK one \in Nat : one = 1
  OBVIOUS
<1>b. PICK ids, base : ids = zero.ids /\ base = zero.store
  OBVIOUS
<1>1. Len(s) = 1 /\ s[1] = v
  BY ONLY <1>v, Len(s) = 1
<1>2. /\ ids \in [1..1 -> Wire \ DOMAIN ws]
      /\ IsStore(base)
      /\ DOMAIN base = DOMAIN ws \cup {ids[i] : i \in 1..1}
      /\ Counted(base, More(h, ids))
      /\ Inherits(base, ws)
      /\ \A i \in 1..1 : base[ids[i]].v = s[i]
  <2>1. /\ zero.ids \in [1..one -> Wire \ DOMAIN ws]
        /\ IsStore(zero.store)
        /\ DOMAIN zero.store = DOMAIN ws \cup {zero.ids[i] : i \in 1..one}
        /\ Counted(zero.store, More(h, zero.ids))
        /\ Inherits(zero.store, ws)
        /\ \A i \in 1..one : zero.store[zero.ids[i]].v = s[i]
    <3>1. Len(s) = one /\ Cardinality(Wire \ DOMAIN ws) >= one
      BY ONLY <1>a, Len(s) = 1, Cardinality(Wire \ DOMAIN ws) >= 1
    <3> QED BY ONLY <3>1, one \in Nat, IsStore(ws), h \in Counts, Counted(ws, h),
                    zero = Allocated(ws, s), AllocatedIs
  <2>3. /\ zero.ids \in [1..1 -> Wire \ DOMAIN ws]
        /\ IsStore(zero.store)
        /\ DOMAIN zero.store = DOMAIN ws \cup {zero.ids[i] : i \in 1..1}
        /\ Counted(zero.store, More(h, zero.ids))
        /\ Inherits(zero.store, ws)
        /\ \A i \in 1..1 : zero.store[zero.ids[i]].v = s[i]
    BY ONLY <1>a, <2>1
  <2> QED BY ONLY <1>b, <2>3
<1>3. 1 \in 1..1 /\ DOMAIN ids = 1..1 /\ ids[1] \in Wire /\ ids[1] \notin DOMAIN ws
      /\ ids[1] \in DOMAIN base /\ base[ids[1]].v = v
  BY ONLY <1>1, <1>2
<1>4. \A i \in 1..n : bits[i] = IF i <= m THEN old[i] ELSE ids[1]
  BY ONLY <1>b, Padded(bits, n, old, m, zero.ids[1]) DEF Padded
<1>5. \A i \in 1..n : i <= m => i \in 1..m /\ old[i] \in DOMAIN ws
  OBVIOUS
<1>6. \A i \in 1..n : bits[i] \in DOMAIN base /\ base[bits[i]].v = IF i <= m THEN ws[old[i]].v ELSE v
  BY ONLY <1>2, <1>3, <1>4, <1>5 DEF Inherits
<1>7. bits \in [1..n -> DOMAIN base] /\ DOMAIN bits = 1..n /\ bits \in [1..n -> Wire]
  BY ONLY <1>2, <1>6, Padded(bits, n, old, m, zero.ids[1]) DEF IsStore, Padded
<1>c. PICK g, t : g = More(h, ids)
                  /\ t = [w \in Wire |-> Occurrences(ids, w)]
  OBVIOUS
<1>8. \A w \in Wire : /\ h[w] \in Nat /\ Occurrences(ids, w) \in Nat /\ Occurrences(bits, w) \in Nat
                      /\ g[w] = h[w] + Occurrences(ids, w) /\ t[w] = Occurrences(ids, w)
  <2>1. \A w \in Wire : h[w] \in Nat
    BY DEF Counts
  <2>2. \A w \in Wire : Occurrences(ids, w) \in Nat
    BY ONLY <1>3, 1 \in Nat, OccurrencesAre
  <2>3. \A w \in Wire : Occurrences(bits, w) \in Nat
    BY ONLY <1>7, n \in Nat, OccurrencesAre
  <2> QED BY ONLY <1>c, <2>1, <2>2, <2>3 DEF More
<1>9. g \in Counts /\ t \in Counts
  BY ONLY <1>8, <1>c DEF Counts, More
<1>d. PICK inc, f : inc = increaseReferenceCount(base, bits)
                    /\ f = More(g, bits)
  OBVIOUS
<1>10. /\ IsStore(inc) /\ DOMAIN inc = DOMAIN base /\ Inherits(inc, base)
       /\ Counted(inc, f) /\ f \in Counts
  <2>1. Counted(base, g)
    BY ONLY <1>2, <1>c
  <2>2. LET all == More(g, bits)
        IN  /\ IsStore(inc) /\ DOMAIN inc = DOMAIN base /\ Inherits(inc, base)
            /\ Counted(inc, all) /\ all \in Counts
    <3>1. inc = increaseReferenceCount(base, bits)
      BY ONLY <1>d
    <3> QED BY ONLY <1>2, <1>7, <1>9, <2>1, <3>1, n \in Nat, SharedKeeps
  <2> QED BY ONLY <1>d, <2>2
<1>11. \A w \in Wire : f[w] = g[w] + Occurrences(bits, w)
  BY ONLY <1>d DEF More
<1>12. ASSUME NEW w \in Wire PROVE t[w] <= f[w] /\ f[w] - t[w] = h[w] + Occurrences(bits, w)
  BY ONLY <1>8, <1>11, w \in Wire
<1>13. [w \in Wire |-> f[w] - t[w]] = More(h, bits)
  BY ONLY <1>12 DEF More
<1>e. PICK store : store = decreaseReferenceCount(inc, ids)
  OBVIOUS
<1>14. store = decreaseReferenceCounts(inc, t)
  BY ONLY <1>c, <1>e DEF decreaseReferenceCount, TimesIn
<1>15. /\ IsStore(store) /\ Counted(store, [w \in Wire |-> f[w] - t[w]])
       /\ DOMAIN store \subseteq DOMAIN inc /\ Inherits(store, inc)
  BY ONLY <1>9, <1>10, <1>12, <1>14, Decreased
<1>16. Counted(store, More(h, bits))
  BY ONLY <1>13, <1>15
<1>17. \A w \in Wire : h[w] + Occurrences(bits, w) # 0 => w \in DOMAIN store
  BY ONLY <1>16 DEF Counted, More
<1>18. DOMAIN ws \subseteq DOMAIN store
  <2> SUFFICES ASSUME NEW w \in DOMAIN ws PROVE w \in DOMAIN store
    OBVIOUS
  <2>1. w \in Wire /\ h[w] > 0
    BY DEF IsStore, Counted
  <2> QED BY ONLY <1>8, <1>17, <2>1
<1>19. Inherits(store, ws)
  BY ONLY <1>2, <1>10, <1>15 DEF Inherits
<1>20. ASSUME NEW i \in 1..n PROVE store[bits[i]].v = IF i <= m THEN ws[old[i]].v ELSE v
  <2>1. bits[i] \in Wire
    BY ONLY <1>7, i \in 1..n
  <2>2. Occurrences(bits, bits[i]) # 0
    BY ONLY <1>7, n \in Nat, i \in 1..n, OccurrencesAre
  <2>3. bits[i] \in DOMAIN store
    BY ONLY <1>8, <1>17, <2>1, <2>2
  <2>4. store[bits[i]].v = base[bits[i]].v
    BY ONLY <1>6, <1>10, <1>15, <2>3, i \in 1..n DEF Inherits
  <2> QED BY ONLY <1>6, <2>4, i \in 1..n
<1>21. Adds(store, ws, h, n, bits, PaddedValues(ws, n, old, m, v))
  BY ONLY <1>7, <1>15, <1>16, <1>18, <1>19, <1>20 DEF Adds, PaddedValues
<1> QED BY ONLY <1>1, <1>21, <1>b, <1>d, <1>e

(* A cast shares the bits of its operand, and the bit it is filled up with. *)
LEMMA CastKeeps ==
  ASSUME Now, NEW x \in Variables, NEW y \in Variables, Cast(x, y)
  PROVE  Kept
<1>a. PICK batch, m, n, h :
      batch = Batch(ideal[y]) /\ m = Width(y) /\ n = Width(x) /\ h = References(data, lost)
  OBVIOUS
<1>b. PICK zero : zero = Allocated(wires, <<[k \in 1 .. Batch(Values(wires, data[y])) |-> 0]>>)
  OBVIOUS
<1>c. PICK bits : bits = [i \in 1..n |-> IF i <= m THEN data[y][i]
                                         ELSE IF isSigned(y) THEN Last(data[y]) ELSE zero.ids[1]]
  OBVIOUS
<1>d. PICK store :
        store = IF n > m /\ ~isSigned(y)
                THEN decreaseReferenceCount(increaseReferenceCount(zero.store, bits), zero.ids)
                ELSE increaseReferenceCount(wires, bits)
  OBVIOUS
<1>e. PICK values : values = [i \in 1..Width(x) |-> [k \in 1..Batch(ideal[y]) |->
                               cast(isSigned(y), Width(x), Element(ideal[y], k))[i]]]
  OBVIOUS
<1>1. IsSet(y) /\ Kind(y) = "Int" /\ Room(1)
  BY DEF Cast
<1>f. PICK result : result = [ids |-> bits, store |-> store]
  OBVIOUS
<1>2. moveId(x, result, values)
  BY ONLY <1>a, <1>b, <1>c, <1>d, <1>e, <1>f, Cast(x, y) DEF Cast, EachElement
<1>3. /\ batch \in Nat
      /\ values = [i \in 1..n |-> IF i <= m THEN ideal[y][i]
                                  ELSE IF isSigned(y) THEN ideal[y][m] ELSE [k \in 1..batch |-> 0]]
  BY ONLY <1>a, <1>e, <1>1, Now, x \in Variables, y \in Variables, CastIs
<1>4. m \in Nat /\ n \in Nat /\ m > 0 /\ m \in 1..m /\ 1 \in 1..m
  BY ONLY <1>a, Now, x \in Variables, y \in Variables, WidthIs DEF Now
<1>5. /\ data[y] \in [1..m -> Wire] /\ ideal[y] = Values(wires, data[y]) /\ Square(y, ideal[y])
      /\ \A i \in 1..m : data[y][i] \in DOMAIN wires /\ ideal[y][i] = wires[data[y][i]].v
  BY ONLY <1>a, <1>1, Now, y \in Variables, SetIs
<1>6. IsStore(wires) /\ h \in Counts /\ Counted(wires, h)
  BY ONLY <1>a, Now, Typed
<1>7. Last(data[y]) = data[y][m]
  BY ONLY <1>4, <1>5, LastIs
<1>8. \A i \in 1..n : /\ bits[i] = IF i <= m THEN data[y][i]
                                   ELSE IF isSigned(y) THEN data[y][m] ELSE zero.ids[1]
                      /\ values[i] = IF i <= m THEN ideal[y][i]
                                     ELSE IF isSigned(y) THEN ideal[y][m] ELSE [k \in 1..batch |-> 0]
                      /\ (i <= m => i \in 1..m)
  BY ONLY <1>c, <1>3, <1>4, <1>7
<1>9. /\ IsStore(store) /\ DOMAIN wires \subseteq DOMAIN store /\ Inherits(store, wires)
      /\ Counted(store, More(h, bits))
      /\ bits \in [1..n -> Wire]
      /\ \A i \in 1..n : store[bits[i]].v = values[i]
  <2>1. CASE ~(n > m /\ ~isSigned(y))
    <3>1. store = increaseReferenceCount(wires, bits)
      BY ONLY <1>d, <2>1
    <3>2. \A i \in 1..n : isSigned(y) \/ i <= m
      BY ONLY <1>4, <2>1
    <3>3. \A i \in 1..n : bits[i] \in DOMAIN wires /\ wires[bits[i]].v = values[i]
      BY ONLY <1>4, <1>5, <1>8, <3>2
    <3>4. bits \in [1..n -> DOMAIN wires]
      BY ONLY <1>c, <3>3
    <3>5. /\ IsStore(store) /\ DOMAIN store = DOMAIN wires /\ Inherits(store, wires)
          /\ Counted(store, More(h, bits))
      BY ONLY <1>4, <1>6, <3>1, <3>4, SharedKeeps
    <3>6. bits \in [1..n -> Wire]
      BY ONLY <1>6, <3>4 DEF IsStore
    <3>7. \A i \in 1..n : store[bits[i]].v = values[i]
      BY ONLY <3>3, <3>5 DEF Inherits
    <3> QED BY ONLY <3>5, <3>6, <3>7
  <2>2. CASE n > m /\ ~isSigned(y)
    <3>a. PICK v, old : v = <<[k \in 1 .. batch |-> 0]>> /\ old = data[y]
      OBVIOUS
    <3>1. zero = Allocated(wires, v) /\ Len(v) = 1
      BY ONLY <1>a, <1>b, <1>5, <3>a
    <3>2. old \in [1..m -> DOMAIN wires]
      BY ONLY <1>5, <3>a
    <3>3. Padded(bits, n, old, m, zero.ids[1])
      BY ONLY <1>c, <2>2, <3>a DEF Padded
    <3>4. Cardinality(Wire \ DOMAIN wires) >= 1
      BY ONLY <1>1 DEF Room
    <3>5. store = decreaseReferenceCount(increaseReferenceCount(zero.store, bits), zero.ids)
      BY ONLY <1>d, <2>2
    <3>6. /\ IsStore(store) /\ DOMAIN wires \subseteq DOMAIN store /\ Inherits(store, wires)
          /\ Counted(store, More(h, bits))
          /\ bits \in [1..n -> Wire]
          /\ \A i \in 1..n : store[bits[i]].v = IF i <= m THEN wires[old[i]].v ELSE v[1]
      <4>1. Adds(decreaseReferenceCount(increaseReferenceCount(zero.store, bits), zero.ids),
                 wires, h, n, bits, PaddedValues(wires, n, old, m, v[1]))
        BY ONLY <1>4, <1>6, <3>1, <3>2, <3>3, <3>4, PaddedKeeps
      <4>2. Adds(store, wires, h, n, bits, PaddedValues(wires, n, old, m, v[1]))
        BY ONLY <3>5, <4>1
      <4> QED BY ONLY <4>2 DEF Adds, PaddedValues
    <3>7. \A i \in 1..n : store[bits[i]].v = values[i]
      <4>1. v[1] = [k \in 1 .. batch |-> 0]
        BY ONLY <3>a
      <4> QED BY ONLY <1>5, <1>8, <2>2, <3>a, <3>6, <4>1
    <3> QED BY ONLY <3>6, <3>7
  <2> QED BY ONLY <2>1, <2>2
<1>10. values = [i \in 1..n |-> store[bits[i]].v]
  BY ONLY <1>3, <1>9
<1>11. \A i \in 1..m : ideal[y][i] = [k \in 1..batch |-> ideal[y][i][k]]
  <2>1. PICK c \in Nat : \A i \in 1..m : ideal[y][i] = [k \in 1..c |-> ideal[y][i][k]]
    BY ONLY <1>a, <1>1, <1>5 DEF Square
  <2>2. Len(ideal[y][1]) = c
    BY ONLY <1>4, <2>1, LengthIs
  <2> QED BY ONLY <1>a, <2>1, <2>2 DEF Batch
<1>12. Square(x, values)
  <2>1. ASSUME NEW i \in 1..n PROVE values[i] = [k \in 1..batch |-> values[i][k]]
    <3>1. CASE i <= m
      <4>1. i \in 1..m /\ values[i] = ideal[y][i]
        BY ONLY <1>8, <3>1, i \in 1..n
      <4> QED BY ONLY <1>11, <4>1
    <3>2. CASE ~(i <= m) /\ isSigned(y)
      <4>1. values[i] = ideal[y][m]
        BY ONLY <1>8, <3>2, i \in 1..n
      <4> QED BY ONLY <1>4, <1>11, <4>1
    <3>3. CASE ~(i <= m) /\ ~isSigned(y)
      <4>1. values[i] = [k \in 1..batch |-> 0]
        BY ONLY <1>8, <3>3, i \in 1..n
      <4> QED BY ONLY <4>1
    <3> QED BY ONLY <3>1, <3>2, <3>3
  <2> QED BY ONLY <1>a, <1>3, <2>1 DEF Square
<1>13. result.ids = bits /\ result.store = store
  BY ONLY <1>f
<1> QED BY ONLY <1>a, <1>2, <1>9, <1>10, <1>12, <1>13, Now, x \in Variables, MoveIdKeeps

(* Two sequences in one. *)
LEMMA ConcatIs ==
  ASSUME NEW m \in Nat, NEW n \in Nat, NEW a, NEW b,
         a = [k \in 1..m |-> a[k]], b = [k \in 1..n |-> b[k]]
  PROVE  /\ Len(a) = m /\ DOMAIN a = 1..m /\ DOMAIN b = 1..n
         /\ a \o b = [k \in 1..m + n |-> (a \o b)[k]]
         /\ \A k \in 1..m + n : (a \o b)[k] = IF k <= m THEN a[k] ELSE b[k - m]
<1> PICK S : S = {a[k] : k \in 1..m} \cup {b[k] : k \in 1..n}
  OBVIOUS
<1>1. Len(a) = m /\ Len(b) = n
  BY LengthIs
<1>2. a \in Seq(S) /\ b \in Seq(S)
  <2>1. a \in [1..m -> S] /\ b \in [1..n -> S]
    OBVIOUS
  <2> QED BY ONLY <2>1, m \in Nat, n \in Nat
<1>3. a \o b \in Seq(S) /\ Len(a \o b) = m + n
  BY ONLY <1>1, <1>2
<1>4. \A k \in 1..m + n : (a \o b)[k] = IF k <= m THEN a[k] ELSE b[k - m]
  BY ONLY <1>1, <1>2, m \in Nat, n \in Nat
<1>5. a \o b = [k \in 1..m + n |-> (a \o b)[k]]
  <2>1. \A q : q \in Seq(S) => q = [k \in 1..Len(q) |-> q[k]]
    OBVIOUS
  <2>2. a \o b = [k \in 1..Len(a \o b) |-> (a \o b)[k]]
    BY ONLY <1>3, <2>1
  <2> QED BY ONLY <1>3, <2>2
<1>6. DOMAIN a = 1..m /\ DOMAIN b = 1..n
  OBVIOUS
<1> QED BY ONLY <1>1, <1>4, <1>5, <1>6

(* Two batches in one. *)
LEMMA FlattenTwo ==
  ASSUME NEW s, s = [i \in 1..2 |-> s[i]]
  PROVE  FlattenSeq(s) = s[1] \o s[2]
<1>1. Len(s) = 2
  BY LengthIs
<1>2. Joins(s) = [i \in 1..2 |-> IF i = 1 THEN s[i] ELSE Joins(s)[i - 1] \o s[i]]
  BY ONLY <1>1, 2 \in Nat, JoinsExist
<1>3. Joins(s)[1] = s[1] /\ Joins(s)[2] = Joins(s)[1] \o s[2]
  <2>1. PICK f : f = Joins(s)
    OBVIOUS
  <2>2. f = [i \in 1..2 |-> IF i = 1 THEN s[i] ELSE f[i - 1] \o s[i]]
    BY ONLY <1>2, <2>1
  <2>3. 1 \in 1..2 /\ 2 \in 1..2 /\ 2 # 1 /\ 2 - 1 = 1
    OBVIOUS
  <2>4. f[1] = s[1] /\ f[2] = f[1] \o s[2]
    BY ONLY <2>2, <2>3
  <2> QED BY ONLY <2>1, <2>4
<1>4. FlattenSeq(s) = Joins(s)[2]
  BY ONLY <1>1 DEF FlattenSeq, Joins
<1> QED BY ONLY <1>3, <1>4

(* The batches of two variables in one. *)
LEMMA BatchingWithKeeps ==
  ASSUME Now, NEW x \in Variables, NEW y \in Variables, NEW z \in Variables, BatchingWith(x, y, z)
  PROVE  Kept
<1>a. PICK n, outcomes, values :
      /\ n = Width(x)
      /\ outcomes = [i \in 1 .. n |-> batchingUp(wires, <<data[y][i], data[z][i]>>)]
      /\ values = [i \in 1 .. n |-> ideal[y][i] \o ideal[z][i]]
  OBVIOUS
<1>1. /\ IsSet(y) /\ IsSet(z) /\ Width(y) = n /\ Width(z) = n
      /\ Kind(y) = Kind(x) /\ Kind(z) = Kind(x) /\ Assign(x, outcomes, values)
  BY ONLY <1>a, BatchingWith(x, y, z) DEF BatchingWith, Alike
<1>2. /\ \A i \in 1..n : ideal[y][i] = wires[data[y][i]].v /\ ideal[z][i] = wires[data[z][i]].v
      /\ Square(y, ideal[y]) /\ Square(z, ideal[z])
  BY ONLY <1>1, Now, y \in Variables, z \in Variables, SetIs
<1>3. ASSUME NEW i \in 1..n PROVE outcomes[i] = <<values[i]>>
  <2>a. PICK s : s = <<wires[data[y][i]].v, wires[data[z][i]].v>>
    OBVIOUS
  <2>1. s = [j \in 1..2 |-> s[j]] /\ s[1] = ideal[y][i] /\ s[2] = ideal[z][i]
    BY ONLY <1>2, <2>a, i \in 1..n
  <2>b. PICK src : src = <<data[y][i], data[z][i]>>
    OBVIOUS
  <2>2. [j \in DOMAIN src |-> wires[src[j]].v] = s
    BY ONLY <2>a, <2>b
  <2>3. batchingUp(wires, src) = <<FlattenSeq(s)>>
    BY ONLY <2>2 DEF batchingUp
  <2>4. FlattenSeq(s) = ideal[y][i] \o ideal[z][i]
    BY ONLY <2>1, FlattenTwo
  <2> QED BY ONLY <1>a, <2>b, <2>3, <2>4, i \in 1..n
<1>4. Yields(outcomes, values, n)
  BY ONLY <1>a, <1>3 DEF Yields
<1>5. Square(x, values)
  <2> SUFFICES ASSUME Kind(x) = "Int" PROVE Square(x, values)
    BY DEF Square
  <2>1. PICK a \in Nat : \A i \in 1..n : ideal[y][i] = [k \in 1..a |-> ideal[y][i][k]]
    BY ONLY <1>1, <1>2, Kind(x) = "Int" DEF Square
  <2>2. PICK b \in Nat : \A i \in 1..n : ideal[z][i] = [k \in 1..b |-> ideal[z][i][k]]
    BY ONLY <1>1, <1>2, Kind(x) = "Int" DEF Square
  <2>3. ASSUME NEW i \in 1..n PROVE values[i] = [k \in 1..a + b |-> values[i][k]]
    <3>a. PICK s, t : s = ideal[y][i] /\ t = ideal[z][i]
      OBVIOUS
    <3>1. s = [k \in 1..a |-> s[k]] /\ t = [k \in 1..b |-> t[k]]
      BY ONLY <2>1, <2>2, <3>a, i \in 1..n
    <3>2. s \o t = [k \in 1..a + b |-> (s \o t)[k]]
      BY ONLY <3>1, a \in Nat, b \in Nat, ConcatIs
    <3>3. values[i] = s \o t
      BY ONLY <1>a, <3>a, i \in 1..n
    <3> QED BY ONLY <3>2, <3>3
  <2>4. a + b \in Nat
    OBVIOUS
  <2> QED BY ONLY <1>a, <2>3, <2>4 DEF Square
<1> QED BY ONLY <1>a, <1>1, <1>4, <1>5, Now, x \in Variables, AssignKeeps

(* The recursive function of unbatching. *)
UpTo(strategy) ==
  CHOOSE f : f = [i \in 0..Len(strategy) |-> IF i = 0 THEN 0 ELSE f[i - 1] + strategy[i]]

(* The sizes of the two pieces of a batch, and what they are. *)
Strategies == {<<1, 1>>, <<1, 2>>}
Pieces(outcomes, v, strategy) ==
  /\ outcomes = [i \in 1..2 |-> outcomes[i]]
  /\ outcomes[1] # Throws => outcomes[1] = <<SubSeq(v, 1, 1)>>
  /\ outcomes[2] # Throws => outcomes[2] = <<SubSeq(v, 2, strategy[2] + 1)>>

(* What the calls of unbatching compute. *)
LEMMA UnbatchingIs ==
  ASSUME NEW ws, NEW src, NEW strategy \in Strategies
  PROVE  Pieces(unbatching(ws, src, strategy), ws[src].v, strategy)
<1>a. PICK c : c = strategy[2]
  OBVIOUS
<1>1. Len(strategy) = 2 /\ DOMAIN strategy = 1..2 /\ strategy[1] = 1 /\ c \in 1..2
  BY <1>a DEF Strategies
<1>2. 0..2 = {0, 1, 2} /\ 1..2 = {1, 2}
  OBVIOUS
<1>b. PICK f : f = UpTo(strategy)
  OBVIOUS
<1>3. f = [i \in 0..2 |-> IF i = 0 THEN 0 ELSE f[i - 1] + strategy[i]]
  <2>a. PICK g : g = [i \in 0..2 |-> IF i = 0 THEN 0 ELSE IF i = 1 THEN 1 ELSE 1 + c]
    OBVIOUS
  <2>1. g[0] = 0 /\ g[1] = 1 /\ g[2] = 1 + c
    BY ONLY <2>a
  <2>2. \A i \in 0..2 : g[i] = IF i = 0 THEN 0 ELSE g[i - 1] + strategy[i]
    <3>1. 1 - 1 = 0 /\ 2 - 1 = 1
      OBVIOUS
    <3>2. g[1] = g[1 - 1] + strategy[1] /\ g[2] = g[2 - 1] + strategy[2]
      BY ONLY <1>a, <1>1, <2>1, <3>1
    <3> QED BY ONLY <1>2, <2>1, <3>2
  <2>3. g = [i \in 0..Len(strategy) |-> IF i = 0 THEN 0 ELSE g[i - 1] + strategy[i]]
    BY ONLY <1>1, <2>a, <2>2
  <2>4. f = [i \in 0..Len(strategy) |-> IF i = 0 THEN 0 ELSE f[i - 1] + strategy[i]]
    BY ONLY <1>b, <2>3 DEF UpTo
  <2> QED BY ONLY <1>1, <2>4
<1>4. f[0] = 0 /\ f[1] = 1 /\ f[2] = 1 + c
  <2>1. \A i \in 0..2 : f[i] = IF i = 0 THEN 0 ELSE f[i - 1] + strategy[i]
    BY ONLY <1>3
  <2>2. 1 - 1 = 0 /\ 2 - 1 = 1 /\ 0 \in 0..2 /\ 1 \in 0..2 /\ 2 \in 0..2 /\ 1 # 0 /\ 2 # 0
    OBVIOUS
  <2>3. f[0] = 0
    BY ONLY <2>1, <2>2
  <2>4. f[1] = f[0] + strategy[1]
    BY ONLY <2>1, <2>2
  <2>5. f[2] = f[1] + strategy[2]
    BY ONLY <2>1, <2>2
  <2> QED BY ONLY <1>a, <1>1, <2>3, <2>4, <2>5
<1>c. PICK outcomes, v : outcomes = unbatching(ws, src, strategy) /\ v = ws[src].v
  OBVIOUS
<1>5. outcomes = [i \in 1..2 |-> IF f[i] <= Len(v) THEN <<SubSeq(v, f[i - 1] + 1, f[i])>> ELSE Throws]
  BY ONLY <1>1, <1>b, <1>c DEF unbatching, UpTo
<1>6. outcomes[1] # Throws => outcomes[1] = <<SubSeq(v, f[0] + 1, f[1])>>
  <2>1. 1 \in 1..2 /\ 1 - 1 = 0
    OBVIOUS
  <2> QED BY ONLY <1>5, <2>1
<1>7. outcomes[2] # Throws => outcomes[2] = <<SubSeq(v, f[1] + 1, f[2])>>
  <2>1. 2 \in 1..2 /\ 2 - 1 = 1
    OBVIOUS
  <2> QED BY ONLY <1>5, <2>1
<1>8. f[0] + 1 = 1 /\ f[1] + 1 = 2 /\ f[2] = strategy[2] + 1
  BY ONLY <1>a, <1>1, <1>4
<1>9. outcomes = [i \in 1..2 |-> outcomes[i]]
  BY ONLY <1>5
<1> QED BY ONLY <1>4, <1>6, <1>7, <1>8, <1>9, <1>c DEF Pieces

(* The two take the places of what x and z held. *)
LEMMA SplitKeeps ==
  ASSUME Now, NEW x \in Variables, NEW z \in Variables, x # z, Kind(x) = "Bit", Kind(z) = "Bit",
         NEW ids \in [1..2 -> Wire], NEW store, IsStore(store),
         DOMAIN wires \subseteq DOMAIN store, Inherits(store, wires),
         Counted(store, More(References(data, lost), ids)),
         NEW d2, d2 = [data EXCEPT ![x] = <<ids[1]>>, ![z] = <<ids[2]>>],
         NEW v2, v2 = [ideal EXCEPT ![x] = <<store[ids[1]].v>>, ![z] = <<store[ids[2]].v>>]
  PROVE  Good(d2, v2, decreaseReferenceCount(store, data[x] \o data[z]), lost)
<1>a. PICK a, b, s, d1, h :
        /\ a = <<ids[1]>> /\ b = <<ids[2]>> /\ s = data[x] \o data[z]
        /\ d1 = [data EXCEPT ![x] = <<ids[1]>>]
        /\ h = More(References(data, lost), ids)
  OBVIOUS
<1>1. /\ DOMAIN data = Variables /\ DOMAIN ideal = Variables
      /\ \A u \in Variables : DOMAIN data[u] = 1..Width(u)
      /\ References(data, lost) \in Counts
  BY ONLY Now, Typed
<1>2. Width(x) = 1 /\ Width(z) = 1
  BY ONLY Now, x \in Variables, z \in Variables, Kind(x) = "Bit", Kind(z) = "Bit", WidthIs DEF Now
<1>3. /\ a = [i \in 1..1 |-> ids[1]] /\ b = [i \in 1..1 |-> ids[2]]
      /\ ids[1] \in Wire /\ ids[2] \in Wire
  BY ONLY <1>a, ids \in [1..2 -> Wire]
<1>4. /\ DOMAIN d2 = Variables /\ d2[x] = a /\ d2[z] = b
      /\ \A u \in Variables : u # x /\ u # z => d2[u] = data[u]
  BY ONLY <1>1, <1>a, x # z, x \in Variables, z \in Variables,
          d2 = [data EXCEPT ![x] = <<ids[1]>>, ![z] = <<ids[2]>>]
<1>5. /\ DOMAIN v2 = Variables /\ v2[x] = <<store[ids[1]].v>> /\ v2[z] = <<store[ids[2]].v>>
      /\ \A u \in Variables : u # x /\ u # z => v2[u] = ideal[u]
  BY ONLY <1>1, x # z, x \in Variables, z \in Variables,
          v2 = [ideal EXCEPT ![x] = <<store[ids[1]].v>>, ![z] = <<store[ids[2]].v>>]
<1>6. /\ d1[x] = a /\ d1[z] = data[z] /\ SameBut(data, d1, x) /\ SameBut(d1, d2, z)
      /\ DOMAIN a = 1..1 /\ DOMAIN b = 1..1
      /\ DOMAIN d1[x] = 1..Width(x) /\ DOMAIN d1[z] = 1..Width(z) /\ DOMAIN d2[z] = 1..Width(z)
      /\ DOMAIN data[x] = 1..Width(x)
  BY ONLY <1>1, <1>2, <1>3, <1>4, <1>a, x # z, x \in Variables, z \in Variables DEF SameBut
<1>7. ASSUME NEW w \in Wire
      PROVE  /\ Occurrences(data[x], w) \in Nat /\ Occurrences(data[z], w) \in Nat
             /\ Occurrences(a, w) \in Nat /\ Occurrences(b, w) \in Nat
             /\ Held(data, w) \in Nat /\ Held(d1, w) \in Nat
             /\ Held(d1, w) = Held(data, w) - Occurrences(data[x], w) + Occurrences(a, w)
             /\ Occurrences(data[z], w) <= Held(d1, w)
             /\ Held(d2, w) = Held(d1, w) - Occurrences(data[z], w) + Occurrences(b, w)
  <2>1. /\ Held(d1, w) \in Nat /\ Held(data, w) \in Nat
        /\ Occurrences(data[x], w) \in Nat /\ Occurrences(d1[x], w) \in Nat
        /\ Held(d1, w) = Held(data, w) - Occurrences(data[x], w) + Occurrences(d1[x], w)
    BY ONLY <1>6, Now, x \in Variables, HeldChange DEF Now
  <2>2. /\ Occurrences(d1[z], w) \in Nat /\ Occurrences(d2[z], w) \in Nat
        /\ Occurrences(d1[z], w) <= Held(d1, w)
        /\ Held(d2, w) = Held(d1, w) - Occurrences(d1[z], w) + Occurrences(d2[z], w)
    BY ONLY <1>6, Now, z \in Variables, HeldChange DEF Now
  <2> QED BY ONLY <1>4, <1>6, <2>1, <2>2
<1>b. PICK one \in Nat : one = 1
  OBVIOUS
<1>8. \A w : Occurrences(ids, w) = Occurrences(a, w) + Occurrences(b, w)
  <2>1. DOMAIN a = 1..one /\ DOMAIN b = 1..one /\ DOMAIN ids = 1..one + one
    BY ONLY <1>6, <1>b, ids \in [1..2 -> Wire]
  <2>2. \A i \in 1..one + one : ids[i] = IF i <= one THEN a[i] ELSE b[i - one]
    <3>1. a[1] = ids[1] /\ b[1] = ids[2]
      BY ONLY <1>a
    <3>2. \A i \in 1..one + one : (i = 1 /\ i <= one) \/ (i = 2 /\ ~(i <= one) /\ i - one = 1)
      BY ONLY <1>b
    <3> QED BY ONLY <3>1, <3>2
  <2>3. Joined(ids, a, b, one, one)
    BY ONLY <2>1, <2>2 DEF Joined
  <2> QED BY ONLY <2>3, one \in Nat, OccurrencesAdd
<1>9. /\ DOMAIN s = 1..2
      /\ \A w : Occurrences(s, w) = Occurrences(data[x], w) + Occurrences(data[z], w)
  <2>a. PICK p, q : p = data[x] /\ q = data[z]
    OBVIOUS
  <2>1. p = [k \in 1..one |-> p[k]] /\ q = [k \in 1..one |-> q[k]]
    <3>1. /\ \A u \in Variables : data[u] \in [1..Width(u) -> Wire \cup {Empty}]
      BY DEF Now, Good
    <3> QED BY ONLY <1>2, <1>b, <2>a, <3>1, x \in Variables, z \in Variables
  <2>2. /\ DOMAIN p = 1..one /\ DOMAIN q = 1..one
        /\ p \o q = [k \in 1..one + one |-> (p \o q)[k]]
        /\ \A k \in 1..one + one : (p \o q)[k] = IF k <= one THEN p[k] ELSE q[k - one]
    BY ONLY <2>1, one \in Nat, ConcatIs
  <2>3. s = p \o q
    BY ONLY <1>a, <2>a
  <2>4. DOMAIN s = 1..one + one
    BY ONLY <2>2, <2>3
  <2>5. \A w : Occurrences(s, w) = Occurrences(p, w) + Occurrences(q, w)
    <3>1. Joined(s, p, q, one, one)
      BY ONLY <2>2, <2>3, <2>4 DEF Joined
    <3> QED BY ONLY <3>1, one \in Nat, OccurrencesAdd
  <2> QED BY ONLY <1>b, <2>a, <2>4, <2>5
<1>10. ASSUME NEW w \in Wire
       PROVE  /\ h[w] \in Nat /\ Occurrences(s, w) <= h[w]
              /\ References(d2, lost)[w] = h[w] - Occurrences(s, w)
  <2>1. /\ h[w] = Held(data, w) + Extra(lost, w) + Occurrences(ids, w)
        /\ References(d2, lost)[w] = Held(d2, w) + Extra(lost, w)
        /\ Extra(lost, w) \in 0..1
    BY ONLY <1>a, w \in Wire DEF More, References, Extra
  <2> QED BY ONLY <1>7, <1>8, <1>9, <2>1, w \in Wire
<1>11. h \in Counts
  BY ONLY <1>10, <1>a DEF Counts, More
<1>12. \A u \in Variables : FromSome(data, ideal, d2, v2, store, u)
  <2>1. ASSUME NEW u \in Variables, u # x, u # z PROVE FromSome(data, ideal, d2, v2, store, u)
    BY ONLY <1>4, <1>5, <2>1 DEF FromSome
  <2>2. FromSome(data, ideal, d2, v2, store, x)
    <3>1. d2[x] \in [1..Width(x) -> Wire] /\ v2[x] = [i \in 1..Width(x) |-> store[d2[x][i]].v]
      BY ONLY <1>2, <1>3, <1>4, <1>5
    <3>2. Square(x, v2[x])
      BY ONLY Kind(x) = "Bit" DEF Square
    <3> QED BY ONLY <3>1, <3>2 DEF FromSome
  <2>3. FromSome(data, ideal, d2, v2, store, z)
    <3>1. d2[z] \in [1..Width(z) -> Wire] /\ v2[z] = [i \in 1..Width(z) |-> store[d2[z][i]].v]
      BY ONLY <1>2, <1>3, <1>4, <1>5
    <3>2. Square(z, v2[z])
      BY ONLY Kind(z) = "Bit" DEF Square
    <3> QED BY ONLY <3>1, <3>2 DEF FromSome
  <2> QED BY ONLY <2>1, <2>2, <2>3
<1>c. PICK two \in Nat : two = 2
  OBVIOUS
<1>13. DOMAIN s = 1..two /\ Counted(store, h) /\ setup \in Setups /\ Good(data, ideal, wires, lost)
  BY <1>a, <1>c, <1>9 DEF Now
<1>14. Good(d2, v2, decreaseReferenceCount(store, s), lost)
  BY ONLY <1>4, <1>5, <1>10, <1>11, <1>12, <1>13, IsStore(store), DOMAIN wires \subseteq DOMAIN store,
          Inherits(store, wires), two \in Nat, Settles
<1> QED BY ONLY <1>14, <1>a

(* A batch in two, or what is left of it when a piece is too long. *)
LEMMA UnbatchingKeeps ==
  ASSUME Now, NEW x \in Variables, NEW y \in Variables, NEW z \in Variables, Unbatching(x, y, z)
  PROVE  Kept
<1>1. /\ Kind(y) = "Bit" /\ Kind(x) = "Bit" /\ Kind(z) = "Bit" /\ x # z /\ IsSet(y) /\ Room(2)
  BY DEF Unbatching, Alike
<1>a. PICK strategy \in Strategies :
        LET result == Performed(wires, unbatching(wires, data[y][1], strategy))
        IN  IF Len(result.ids) < 2 THEN Throw(result)
            ELSE /\ wires' = decreaseReferenceCount(result.store, data[x] \o data[z])
                 /\ data' = [data EXCEPT ![x] = <<result.ids[1]>>, ![z] = <<result.ids[2]>>]
                 /\ ideal' = [ideal EXCEPT ![x] = <<SubSeq(ideal[y][1], 1, 1)>>,
                                           ![z] = <<SubSeq(ideal[y][1], 2, strategy[2] + 1)>>]
                 /\ UNCHANGED <<setup, lost, selfAssigned>>
  BY DEF Unbatching, Strategies
<1>b. PICK outcomes, new, h :
        /\ outcomes = unbatching(wires, data[y][1], strategy)
        /\ new = Performed(wires, outcomes) /\ h = References(data, lost)
  OBVIOUS
<1>c. PICK two \in Nat : two = 2
  OBVIOUS
<1>2. /\ outcomes = [i \in 1..two |-> outcomes[i]] /\ DOMAIN outcomes = 1..two
      /\ outcomes[1] # Throws => outcomes[1] = <<SubSeq(wires[data[y][1]].v, 1, 1)>>
      /\ outcomes[2] # Throws => outcomes[2] = <<SubSeq(wires[data[y][1]].v, 2, strategy[2] + 1)>>
  <2>1. Pieces(outcomes, wires[data[y][1]].v, strategy)
    BY ONLY <1>b, strategy \in Strategies, UnbatchingIs
  <2> QED BY ONLY <1>c, <2>1 DEF Pieces
<1>3. Len(outcomes) = two
  BY ONLY <1>2, two \in Nat, LengthIs
<1>4. Cardinality(Wire \ DOMAIN wires) >= two
  BY ONLY <1>1, <1>c DEF Room
<1>5. /\ Len(new.ids) \in 0..two
      /\ new.ids \in [1..Len(new.ids) -> Wire \ DOMAIN wires]
      /\ \A i, j \in 1..Len(new.ids) : new.ids[i] = new.ids[j] => i = j
      /\ IsStore(new.store)
      /\ DOMAIN new.store = DOMAIN wires \cup {new.ids[i] : i \in 1..Len(new.ids)}
      /\ Counted(new.store, More(h, new.ids))
      /\ Inherits(new.store, wires)
      /\ \A i \in 1..Len(new.ids) : /\ outcomes[i] # Throws
                                    /\ new.store[new.ids[i]].v = outcomes[i][1]
  <2>1. IsStore(wires) /\ h \in Counts /\ Counted(wires, h)
    BY ONLY <1>b, Now, Typed
  <2>2. new = Performed(wires, outcomes) /\ DOMAIN outcomes = 1..two
    BY ONLY <1>2, <1>b
  <2> QED BY ONLY <1>3, <1>4, <2>1, <2>2, two \in Nat, PerformedIs
<1>6. CASE Len(new.ids) < 2
  <2>1. Throw(new) /\ Len(new.ids) \in Nat
    BY ONLY <1>5, <1>6, <1>a, <1>b, two \in Nat
  <2> QED BY ONLY <1>5, <1>b, <2>1, Now, ThrownKeeps
<1>7. CASE ~(Len(new.ids) < 2)
  <2>1. Len(new.ids) = 2
    BY ONLY <1>5, <1>7, <1>c
  <2>a. PICK ids, store : ids = new.ids /\ store = new.store
    OBVIOUS
  <2>2. /\ wires' = decreaseReferenceCount(store, data[x] \o data[z])
        /\ data' = [data EXCEPT ![x] = <<ids[1]>>, ![z] = <<ids[2]>>]
        /\ ideal' = [ideal EXCEPT ![x] = <<SubSeq(ideal[y][1], 1, 1)>>,
                                  ![z] = <<SubSeq(ideal[y][1], 2, strategy[2] + 1)>>]
        /\ setup' = setup /\ lost' = lost
    BY ONLY <1>7, <1>a, <1>b, <2>a
  <2>3. ids \in [1..2 -> Wire] /\ DOMAIN wires \subseteq DOMAIN store
    BY ONLY <1>5, <2>1, <2>a
  <2>4. ideal[y][1] = wires[data[y][1]].v
    <3>1. 1 \in 1..Width(y)
      BY ONLY <1>1, Now, y \in Variables, WidthIs DEF Now
    <3> QED BY ONLY <1>1, <3>1, Now, y \in Variables, SetIs
  <2>5. /\ store[ids[1]].v = SubSeq(ideal[y][1], 1, 1)
        /\ store[ids[2]].v = SubSeq(ideal[y][1], 2, strategy[2] + 1)
    <3>1. \A i \in 1..2 : outcomes[i] # Throws /\ store[ids[i]].v = outcomes[i][1]
      BY ONLY <1>5, <2>1, <2>a
    <3>2. 1 \in 1..2 /\ 2 \in 1..2
      OBVIOUS
    <3>3. outcomes[1] = <<SubSeq(ideal[y][1], 1, 1)>>
          /\ outcomes[2] = <<SubSeq(ideal[y][1], 2, strategy[2] + 1)>>
      BY ONLY <1>2, <2>4, <3>1, <3>2
    <3>4. outcomes[1][1] = SubSeq(ideal[y][1], 1, 1)
          /\ outcomes[2][1] = SubSeq(ideal[y][1], 2, strategy[2] + 1)
      <4>1. \A s : <<s>>[1] = s
        OBVIOUS
      <4> QED BY ONLY <3>3, <4>1
    <3>5. store[ids[1]].v = outcomes[1][1] /\ store[ids[2]].v = outcomes[2][1]
      BY ONLY <3>1, <3>2
    <3> QED BY ONLY <3>4, <3>5
  <2>b. PICK d2, v2 :
          /\ d2 = [data EXCEPT ![x] = <<ids[1]>>, ![z] = <<ids[2]>>]
          /\ v2 = [ideal EXCEPT ![x] = <<store[ids[1]].v>>, ![z] = <<store[ids[2]].v>>]
    OBVIOUS
  <2>6. IsStore(store) /\ Inherits(store, wires) /\ Counted(store, More(References(data, lost), ids))
    BY ONLY <1>5, <1>b, <2>a
  <2>7. Good(d2, v2, decreaseReferenceCount(store, data[x] \o data[z]), lost)
    BY ONLY <1>1, <2>3, <2>6, <2>b, Now, x \in Variables, z \in Variables, SplitKeeps
  <2>8. data' = d2 /\ ideal' = v2
    BY ONLY <2>2, <2>5, <2>b
  <2> QED BY ONLY <2>2, <2>7, <2>8 DEF Kept
<1> QED BY ONLY <1>6, <1>7

-----------------------------------------------------------------------------
(* The theorems.                                                           *)

(* At first nothing is set, and the store is empty. *)
LEMMA InvInit == Init => Inv
<1> SUFFICES ASSUME Init PROVE Inv
  OBVIOUS
<1>1. /\ setup \in Setups /\ wires = << >> /\ lost = {}
      /\ data = [x \in Variables |-> Uninitialized(x)] /\ ideal = [x \in Variables |-> None]
  BY DEF Init
<1>2. DOMAIN wires = {}
  BY ONLY <1>1
<1>3. IsStore(wires)
  BY ONLY <1>2 DEF IsStore
<1>4. \A x \in Variables : data[x] \in [1..Width(x) -> {Empty}] /\ ideal[x] = None
  BY ONLY <1>1 DEF Uninitialized
<1>5. \A w \in Wire : References(data, lost)[w] = 0
  <2> SUFFICES ASSUME NEW w \in Wire PROVE References(data, lost)[w] = 0
    OBVIOUS
  <2>1. \A xi \in Bits : data[xi[1]][xi[2]] = Empty
    <3> SUFFICES ASSUME NEW x \in Variables, NEW i \in 1..Width(x) PROVE data[x][i] = Empty
      BY DEF Bits
    <3> QED BY <1>4
  <2>2. {xi \in Bits : data[xi[1]][xi[2]] = w} = {}
    BY <2>1, FrontendAssumption
  <2>3. \A S : S = {} => Cardinality(S) = 0
    BY FS_EmptySet
  <2>4. Held(data, w) = 0
    BY <2>2, <2>3 DEF Held
  <2>5. Extra(lost, w) = 0
    BY <1>1 DEF Extra
  <2> QED BY <2>4, <2>5 DEF References
<1>6. Counted(wires, References(data, lost))
  BY ONLY <1>2, <1>5 DEF Counted
<1>7. \A x \in Variables : /\ data[x] \in [1..Width(x) -> Wire \cup {Empty}]
                           /\ Named(data, ideal, x) /\ Carried(data, ideal, wires, x)
                           /\ Shaped(ideal, x)
  BY ONLY <1>4 DEF Named, Carried, Shaped
<1>8. Good(data, ideal, wires, lost)
  BY ONLY <1>1, <1>3, <1>6, <1>7 DEF Good
<1> QED BY <1>1, <1>8 DEF Inv

(* Every statement keeps the invariant. *)
LEMMA InvStep == Inv /\ [Next]_vars => Inv'
<1> SUFFICES ASSUME Inv, [Next]_vars PROVE Inv'
  OBVIOUS
<1>1. CASE UNCHANGED vars
  <2>1. /\ setup' = setup /\ wires' = wires /\ data' = data /\ ideal' = ideal /\ lost' = lost
        /\ selfAssigned' = selfAssigned
    BY ONLY <1>1 DEF vars
  <2>2. ~selfAssigned => Good(data', ideal', wires', lost')
    BY ONLY <2>1, Inv DEF Inv
  <2> QED BY <2>1, <2>2, SetupKept DEF Inv
<1>2. ASSUME Next PROVE Inv'
  <2>1. ~selfAssigned
    BY <1>2 DEF Next
  <2>2. Now
    BY <2>1 DEF Inv, Now
  <2>3. ASSUME Kept PROVE Inv'
    BY <2>2, <2>3, SetupKept DEF Kept, Inv, Now
  <2>4. PICK x \in Variables :
          \/ Construct(x) \/ Destroy(x)
          \/ \E y \in Variables :
               \/ CopyAssign(x, y) \/ MoveAssign(x, y) \/ Open(x, y) \/ Cast(x, y)
               \/ \E z \in Variables :
                    \/ BitWise(x, y, z) \/ Arithmetic(x, y, z) \/ Compare(x, y, z)
                    \/ Composite(x, y, z) \/ BatchingWith(x, y, z) \/ Unbatching(x, y, z)
                    \/ \E choice \in Variables : Mux(x, choice, y, z)
    BY <1>2 DEF Next
  <2>5. CASE Construct(x)
    BY ONLY <2>2, <2>3, <2>5, x \in Variables, ConstructKeeps
  <2>6. CASE Destroy(x)
    BY ONLY <2>2, <2>3, <2>6, x \in Variables, DestroyKeeps
  <2>7. ASSUME NEW y \in Variables, CopyAssign(x, y) PROVE Inv'
    <3>1. CASE selfAssigned'
      <4>1. setup' = setup
        BY <2>7 DEF CopyAssign
      <4> QED BY <2>2, <3>1, <4>1 DEF Inv, Now
    <3>2. CASE ~selfAssigned'
      BY ONLY <2>2, <2>3, <2>7, <3>2, x \in Variables, CopyAssignKeeps
    <3> QED BY <3>1, <3>2
  <2>8. ASSUME NEW y \in Variables, MoveAssign(x, y) PROVE Inv'
    BY ONLY <2>2, <2>3, <2>8, x \in Variables, MoveAssignKeeps
  <2>9. ASSUME NEW y \in Variables, Open(x, y) PROVE Inv'
    BY ONLY <2>2, <2>3, <2>9, x \in Variables, OpenKeeps
  <2>10. ASSUME NEW y \in Variables, Cast(x, y) PROVE Inv'
    BY ONLY <2>2, <2>3, <2>10, x \in Variables, CastKeeps
  <2>11. ASSUME NEW y \in Variables, NEW z \in Variables, BitWise(x, y, z) PROVE Inv'
    BY ONLY <2>2, <2>3, <2>11, x \in Variables, BitWiseKeeps
  <2>12. ASSUME NEW y \in Variables, NEW z \in Variables, Arithmetic(x, y, z) PROVE Inv'
    BY ONLY <2>2, <2>3, <2>12, x \in Variables, ArithmeticKeeps
  <2>13. ASSUME NEW y \in Variables, NEW z \in Variables, Compare(x, y, z) PROVE Inv'
    BY ONLY <2>2, <2>3, <2>13, x \in Variables, CompareKeeps
  <2>14. ASSUME NEW y \in Variables, NEW z \in Variables, Composite(x, y, z) PROVE Inv'
    BY ONLY <2>2, <2>3, <2>14, x \in Variables, CompositeKeeps
  <2>15. ASSUME NEW y \in Variables, NEW z \in Variables, BatchingWith(x, y, z) PROVE Inv'
    BY ONLY <2>2, <2>3, <2>15, x \in Variables, BatchingWithKeeps
  <2>16. ASSUME NEW y \in Variables, NEW z \in Variables, Unbatching(x, y, z) PROVE Inv'
    BY ONLY <2>2, <2>3, <2>16, x \in Variables, UnbatchingKeeps
  <2>17. ASSUME NEW y \in Variables, NEW z \in Variables, NEW choice \in Variables,
                Mux(x, choice, y, z)
         PROVE  Inv'
    BY ONLY <2>2, <2>3, <2>17, x \in Variables, MuxKeeps
  <2> QED BY ONLY <2>4, <2>5, <2>6, <2>7, <2>8, <2>9, <2>10, <2>11, <2>12, <2>13, <2>14, <2>15,
                  <2>16, <2>17
<1> QED BY <1>1, <1>2

(* The wires in use are those the variables name, with a reference for     *)
(* every Bit that names them and none besides: what constructors, copies,  *)
(* moves, casts and destructors of the frontend do with                    *)
(* increaseReferenceCount and decreaseReferenceCount.                      *)
THEOREM HeldWires == Spec => []WiresHeld
<1>1. Init => Inv
  BY InvInit
<1>2. Inv /\ [Next]_vars => Inv'
  BY InvStep
<1>3. Inv => WiresHeld
  <2> SUFFICES ASSUME Inv, ~selfAssigned, NEW w \in Wire
               PROVE  LET held == Cardinality(Holders(w))
                      IN  IF w \in DOMAIN wires
                          THEN wires[w].referenceCount = held + (IF w \in lost THEN 1 ELSE 0)
                          ELSE held = 0 /\ w \notin lost
    BY DEF WiresHeld
  <2>1. Now
    BY DEF Inv, Now
  <2>2. Counted(wires, References(data, lost)) /\ References(data, lost) \in Counts
    BY ONLY <2>1, Typed
  <2>a. PICK held, extra, count :
          held = Cardinality(Holders(w)) /\ extra = Extra(lost, w) /\ count = References(data, lost)[w]
    OBVIOUS
  <2>3. count = held + extra
    BY ONLY <2>a, w \in Wire DEF References, Held, Holders
  <2>4. held \in Nat /\ extra \in 0..1
    <3>1. IsFiniteSet(Holders(w))
      BY <2>1, BitsFinite, FS_Subset DEF Now, Holders
    <3> QED BY ONLY <2>a, <3>1, FS_CardinalityType DEF Extra
  <2>5. extra = (IF w \in lost THEN 1 ELSE 0)
    BY ONLY <2>a DEF Extra
  <2>6. CASE w \in DOMAIN wires
    BY ONLY <2>2, <2>3, <2>5, <2>6, <2>a, w \in Wire DEF Counted
  <2>7. CASE w \notin DOMAIN wires
    <3>1. count = 0
      BY ONLY <2>2, <2>7, <2>a, w \in Wire DEF Counted
    <3> QED BY ONLY <2>3, <2>4, <2>5, <2>7, <2>a, <3>1
  <2> QED BY <2>6, <2>7
<1> QED BY <1>1, <1>2, <1>3, PTL DEF Spec

(* A variable keeps the value it was given, in wires that are in use,      *)
(* while others that share them are assigned and destroyed and the ids of  *)
(* freed wires come back.                                                  *)
THEOREM KeptValues == Spec => []ValuesKept
<1>1. Init => Inv
  BY InvInit
<1>2. Inv /\ [Next]_vars => Inv'
  BY InvStep
<1>3. Inv => ValuesKept
  <2> SUFFICES ASSUME Inv, ~selfAssigned, NEW x \in Variables, IsSet(x)
               PROVE  ToSet(data[x]) \subseteq DOMAIN wires /\ Values(wires, data[x]) = ideal[x]
    BY DEF ValuesKept
  <2>1. Now
    BY DEF Inv, Now
  <2>2. /\ data[x] \in [1..Width(x) -> Wire] /\ ideal[x] = Values(wires, data[x])
        /\ \A i \in 1..Width(x) : data[x][i] \in DOMAIN wires
    BY ONLY <2>1, x \in Variables, IsSet(x), SetIs
  <2>3. ToSet(data[x]) \subseteq DOMAIN wires
    BY ONLY <2>2 DEF ToSet
  <2> QED BY <2>2, <2>3
<1> QED BY <1>1, <1>2, <1>3, PTL DEF Spec
=============================================================================
