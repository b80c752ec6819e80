----------------------------- MODULE WireKeeper -----------------------------
(***************************************************************************)
(* The store of wire values shared by the schedulers and the gates         *)
(* (fbpcf/scheduler/WireKeeper.h, WireKeeper.cpp): reference-counted       *)
(* records kept in four allocators, one per kind of wire.                  *)
(*                                                                         *)
(* The store is a function ws from the ids in use to their records, and    *)
(* the operators below return the store after one call of the code.  The   *)
(* allocators are seen through the contract of IAllocator: a new id is one *)
(* that is not in use.  Ids of different allocators never meet, so one set *)
(* Wire of ids is enough.                                                  *)
(***************************************************************************)
EXTENDS Integers, Sequences, FiniteSets

CONSTANT Wire        \* the ids of wires

(* The four allocators of a WireKeeper. *)
Allocators == {"bool", "boolBatch", "int", "intBatch"}
isBatch(a) == a \in {"boolBatch", "intBatch"}
isBoolean(a) == a \in {"bool", "boolBatch"}

(* What allocateBooleanValue and its three siblings store for a new wire.  *)
(* A wire that is not a batch holds a sequence of one element.             *)
WireRecord(a, v, expectedBatchSize, firstAvailableLevel) ==
  [allocator |-> a, v |-> v, expectedBatchSize |-> expectedBatchSize,
   firstAvailableLevel |-> firstAvailableLevel, referenceCount |-> 1]

(* Where, and how often, w occurs in a sequence of wires. *)
Indices(s, w) == {i \in DOMAIN s : s[i] = w}
Occurrences(s, w) == Cardinality(Indices(s, w))

(* The sequences of n distinct ids that are free in ws. *)
FreshWires(ws, n) ==
  {s \in [1..n -> Wire \ DOMAIN ws] : \A i, j \in 1..n : s[i] = s[j] => i = j}

(* The place of w in an injective sequence that holds it. *)
PositionOf(s, w) == CHOOSE i \in DOMAIN s : s[i] = w

(* Allocates the wires of the sequence ids, in order, with these records.  *)
allocateValues(ws, ids, records) ==
  [w \in DOMAIN ws \cup {ids[i] : i \in DOMAIN ids} |->
     IF w \in DOMAIN ws THEN ws[w] ELSE records[PositionOf(ids, w)]]

(* How many calls each wire gets: one for each occurrence in s; one for w. *)
TimesIn(s) == [w \in Wire |-> Occurrences(s, w)]
OnceFor(w) == [x \in Wire |-> IF x = w THEN 1 ELSE 0]

(* Mutation: several calls for one wire count as one. *)
increaseReferenceCountsOnce(ws, times) ==
  [w \in DOMAIN ws |-> [ws[w] EXCEPT !.referenceCount =
                           @ + (IF times[w] > 0 THEN 1 ELSE 0)]]

(* times[w] calls of increaseReferenceCount for every wire w. *)
increaseReferenceCounts(ws, times) ==
  [w \in DOMAIN ws |-> [ws[w] EXCEPT !.referenceCount = @ + times[w]]]

(* Mutation: a wire without references is kept. *)
decreaseReferenceCountsKeeping(ws, times) ==
  [w \in DOMAIN ws |-> [ws[w] EXCEPT !.referenceCount = @ - times[w]]]

(* times[w] calls of decreaseReferenceCount for every wire w: one whose    *)
(* count drops to 0 is freed.                                              *)
decreaseReferenceCounts(ws, times) ==
  [w \in {x \in DOMAIN ws : ws[x].referenceCount # times[x]} |->
     [ws[w] EXCEPT !.referenceCount = @ - times[w]]]

(* Mutation: every wire gets the first value. *)
setValuesFirst(ws, ids, vs) ==
  [w \in DOMAIN ws |->
     IF \E i \in DOMAIN ids : ids[i] = w THEN [ws[w] EXCEPT !.v = vs[1]] ELSE ws[w]]

(* setBooleanValue and its siblings, for every wire of ids in order. *)
setValues(ws, ids, vs) ==
  [w \in DOMAIN ws |->
     IF \E i \in DOMAIN ids : ids[i] = w
     THEN [ws[w] EXCEPT !.v = vs[PositionOf(ids, w)]] ELSE ws[w]]
=============================================================================
