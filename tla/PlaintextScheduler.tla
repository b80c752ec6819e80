------------------------- MODULE PlaintextScheduler -------------------------
(***************************************************************************)
(* The scheduler that computes in the clear, for tests                     *)
(* (fbpcf/scheduler/PlaintextScheduler.cpp): every call computes at once   *)
(* and allocates its results in the WireKeeper, with one reference each.   *)
(* A wire's value is the sequence of the elements of its batch.  The       *)
(* statistics (freeGates_, nonFreeGates_) are left out.                    *)
(*                                                                         *)
(* The outcome of a call for a wire is the value it computes, as <<v>>, or *)
(* Throws.  It depends on the operands alone, which no call changes.       *)
(***************************************************************************)
EXTENDS WireKeeper, Circuits

(* Free ids: which ones makes no difference to the caller. *)
NewWires(ws, n) == CHOOSE s \in FreshWires(ws, n) : TRUE

(* allocateBooleanValue, for each value in turn. *)
Allocated(ws, values) ==
  LET ids == NewWires(ws, Len(values))
  IN  [ids |-> ids, store |->
         allocateValues(ws, ids, [i \in DOMAIN ids |->
                                    WireRecord("boolBatch", values[i], Len(values[i]), 0)])]

(* How many of n calls are made, when only those of fit do not throw. *)
Fitting(fit, n) == CHOOSE m \in 0 .. n : 1 .. m \subseteq fit /\ (m = n \/ m + 1 \notin fit)

(* The wires are allocated one by one, up to the first call that throws;   *)
(* those before it stay.                                                   *)
Performed(ws, outcomes) ==
  LET done == Fitting({i \in DOMAIN outcomes : outcomes[i] # Throws}, Len(outcomes))
  IN  Allocated(ws, [i \in 1 .. done |-> outcomes[i][1]])

Input(v) == <<v>>

openBooleanValueToParty(ws, src) == <<ws[src].v>>

(* Gates of two inputs: batches of different sizes throw. *)
Binary(ws, left, right, output) ==
  IF Len(ws[left].v) # Len(ws[right].v) THEN Throws ELSE <<output>>

privateAndPrivate(ws, left, right) ==
  Binary(ws, left, right, AndEach(ws[left].v, ws[right].v))
privateXorPrivate(ws, left, right) ==
  Binary(ws, left, right, XorEach(ws[left].v, ws[right].v))

notPrivate(ws, src) == <<NotAll(ws[src].v)>>

(* An AND with each of rights. *)
computeCompositeAND(ws, left, rights) ==
  [i \in DOMAIN rights |-> privateAndPrivate(ws, left, rights[i])]

batchingUp(ws, src) == <<FlattenSeq([i \in DOMAIN src |-> ws[src[i]].v])>>

\* Mutation: every piece is taken from the start of the batch.
unbatchingFromStart(ws, src, strategy) ==
  LET x == ws[src].v
      upTo[i \in 0 .. Len(strategy)] == IF i = 0 THEN 0 ELSE upTo[i - 1] + strategy[i]
  IN  [i \in DOMAIN strategy |->
         IF upTo[i] <= Len(x) THEN <<SubSeq(x, 1, strategy[i])>> ELSE Throws]

(* The pieces start where those before them end; one that is longer than   *)
(* what is left throws.                                                    *)
unbatching(ws, src, strategy) ==
  LET x == ws[src].v
      upTo[i \in 0 .. Len(strategy)] == IF i = 0 THEN 0 ELSE upTo[i - 1] + strategy[i]
  IN  [i \in DOMAIN strategy |->
         IF upTo[i] <= Len(x) THEN <<SubSeq(x, upTo[i - 1] + 1, upTo[i])>> ELSE Throws]
=============================================================================
