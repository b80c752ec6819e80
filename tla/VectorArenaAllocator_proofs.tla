-------------------- MODULE VectorArenaAllocator_proofs ---------------------
(***************************************************************************)
(* The arena hands out each id once at a time and keeps the items of the   *)
(* ids in use, for every chunk size and every size of the arena.           *)
(***************************************************************************)
EXTENDS VectorArenaAllocator, FiniteSetTheorems, TLAPS

(* The index is the number of ids in use.  This makes the rest inductive:  *)
(* while an id is in use the index is not 0, so free has room for it.      *)
StackDepth == IsFiniteSet(inUse) /\ Cardinality(inUse) = nextAvailableBlockIndex

IInv == TypeOK /\ FreePartition /\ GetReturnsItem /\ StackDepth

(* The invariant holds of a new arena. *)
LEMMA InitIInv == Init => IInv
<1> SUFFICES ASSUME Init PROVE IInv
  OBVIOUS
<1> USE ArenaAssumption DEF Init
<1>1. inUse = {}
  BY DEF inUse
<1>2. TypeOK
  BY <1>1 DEF TypeOK, EmptyBlock, inUse
<1>3. FreePartition
  BY <1>1 DEF FreePartition, FreePart, Ids
<1>4. StackDepth
  BY <1>1, FS_EmptySet DEF StackDepth
<1> QED
  BY <1>1, <1>2, <1>3, <1>4 DEF IInv, GetReturnsItem

(* Concatenation, for the elements it keeps and the ones it adds. *)
LEMMA ConcatIndex ==
  ASSUME NEW S, NEW s \in Seq(S), NEW t \in Seq(S)
  PROVE  /\ s \o t \in Seq(S) /\ Len(s \o t) = Len(s) + Len(t)
         /\ \A i \in 1..Len(s) : (s \o t)[i] = s[i]
         /\ \A i \in Len(s) + 1..Len(s) + Len(t) : (s \o t)[i] = t[i - Len(s)]
OBVIOUS

(* What is true of the vectors bl and fb when the id on top of the stack   *)
(* fb can be given out: as far as it goes, the invariant, and that there   *)
(* is a free block.                                                        *)
Room(bl, fb) ==
  /\ bl \in Seq(Item \cup {NullOpt}) /\ fb \in Seq(Nat)
  /\ Len(bl) = Len(fb) /\ nextAvailableBlockIndex < Len(bl)
  /\ \A i, j \in nextAvailableBlockIndex + 1..Len(fb) : fb[i] = fb[j] => i = j
  /\ \A i \in nextAvailableBlockIndex + 1..Len(fb) : fb[i] \in (0..Len(bl) - 1) \ inUse
  /\ \A id \in 0..Len(bl) - 1 :
       id \in inUse \/ \E i \in nextAvailableBlockIndex + 1..Len(fb) : fb[i] = id
  /\ inUse \subseteq 0..Len(bl) - 1
  /\ \A id \in inUse : bl[id + 1] = contents[id]

(* The vectors after allocate has seen to it that there is a free block.   *)
LEMMA RoomForOne ==
  ASSUME IInv,
         NEW bl, bl = IF isFull THEN moreBlocks ELSE blocks,
         NEW fb, fb = IF isFull THEN moreFreeBlocks ELSE freeBlocks
  PROVE  Room(bl, fb)
<1> USE ArenaAssumption
<1>1. CASE ~isFull
  BY <1>1 DEF Room, IInv, TypeOK, FreePartition, FreePart, Ids, GetReturnsItem, isFull
<1>2. CASE isFull
  <2> DEFINE n == Len(blocks)
  <2>1. nextAvailableBlockIndex = n /\ n \in Nat /\ Len(freeBlocks) = n
    BY <1>2 DEF IInv, TypeOK, isFull
  <2>2. /\ bl = blocks \o [i \in 1..kChunkSize |-> EmptyBlock]
        /\ fb = freeBlocks \o [i \in 1..kChunkSize |-> n + i - 1]
    BY <1>2 DEF moreBlocks, moreFreeBlocks
  <2>3. /\ [i \in 1..kChunkSize |-> EmptyBlock] \in Seq(Item \cup {NullOpt})
        /\ [i \in 1..kChunkSize |-> n + i - 1] \in Seq(Nat)
    BY <2>1 DEF EmptyBlock
  <2> DEFINE bs == [i \in 1..kChunkSize |-> EmptyBlock]
             ids == [i \in 1..kChunkSize |-> n + i - 1]
  <2>4. Len(bs) = kChunkSize /\ Len(ids) = kChunkSize
    OBVIOUS
  <2>5. \A i \in n + 1..n + kChunkSize : ids[i - n] = i - 1
    BY <2>1
  <2>6. blocks \in Seq(Item \cup {NullOpt}) /\ freeBlocks \in Seq(Nat)
    BY DEF IInv, TypeOK
  <2> HIDE DEF bs, ids
  <2>7. /\ bl \in Seq(Item \cup {NullOpt}) /\ fb \in Seq(Nat)
        /\ Len(bl) = n + kChunkSize /\ Len(fb) = n + kChunkSize
        /\ \A i \in 1..n : bl[i] = blocks[i]
        /\ \A i \in n + 1..n + kChunkSize : fb[i] = i - 1
    <3>1. bl = blocks \o bs /\ fb = freeBlocks \o ids
      BY <2>2 DEF bs, ids
    <3>2. bs \in Seq(Item \cup {NullOpt}) /\ ids \in Seq(Nat)
      BY <2>3 DEF bs, ids
    <3>3. /\ blocks \o bs \in Seq(Item \cup {NullOpt})
          /\ Len(blocks \o bs) = Len(blocks) + Len(bs)
          /\ \A i \in 1..Len(blocks) : (blocks \o bs)[i] = blocks[i]
      BY ONLY <2>6, <3>2, ConcatIndex
    <3>4. /\ freeBlocks \o ids \in Seq(Nat)
          /\ Len(freeBlocks \o ids) = Len(freeBlocks) + Len(ids)
          /\ \A i \in Len(freeBlocks) + 1..Len(freeBlocks) + Len(ids) :
               (freeBlocks \o ids)[i] = ids[i - Len(freeBlocks)]
      BY ONLY <2>6, <3>2, ConcatIndex
    <3>5. /\ bl \in Seq(Item \cup {NullOpt}) /\ Len(bl) = n + kChunkSize
          /\ \A i \in 1..n : bl[i] = blocks[i]
      BY <2>4, <3>1, <3>3
    <3>6. /\ fb \in Seq(Nat) /\ Len(fb) = n + kChunkSize
          /\ \A i \in n + 1..n + kChunkSize : fb[i] = ids[i - n]
      BY <2>1, <2>4, <3>1, <3>4
    <3> QED
      BY <2>5, <3>5, <3>6
  <2>8. inUse \subseteq 0..n - 1 /\ \A id \in 0..n - 1 : id \in inUse
    BY <2>1 DEF IInv, FreePartition, FreePart, Ids
  <2>9. \A id \in n..n + kChunkSize - 1 :
          id + 1 \in n + 1..n + kChunkSize /\ fb[id + 1] = id
    BY <2>1, <2>7
  <2>10. \A id \in 0..Len(bl) - 1 :
          id \in inUse \/ \E i \in nextAvailableBlockIndex + 1..Len(fb) : fb[i] = id
    BY <2>1, <2>7, <2>8, <2>9
  <2>11. \A id \in inUse : bl[id + 1] = contents[id]
    BY <2>1, <2>7, <2>8 DEF IInv, GetReturnsItem
  <2>12. \A i, j \in nextAvailableBlockIndex + 1..Len(fb) : fb[i] = fb[j] => i = j
    BY <2>1, <2>7
  <2>13. \A i \in nextAvailableBlockIndex + 1..Len(fb) :
           fb[i] \in (0..Len(bl) - 1) \ inUse
    <3> TAKE i \in nextAvailableBlockIndex + 1..Len(fb)
    <3>1. fb[i] = i - 1 /\ i - 1 \in n..n + kChunkSize - 1
      BY <2>1, <2>7
    <3>2. i - 1 \notin inUse
      BY <2>1, <2>8, <3>1
    <3> QED
      BY <2>1, <2>7, <3>1, <3>2, SMTT(30)
  <2>14. inUse \subseteq 0..Len(bl) - 1
    BY <2>1, <2>7, <2>8
  <2>15. Len(bl) = Len(fb) /\ nextAvailableBlockIndex < Len(bl)
    BY <2>1, <2>7
  <2> QED
    BY <2>7, <2>10, <2>11, <2>12, <2>13, <2>14, <2>15, Zenon DEF Room
<1> QED
  BY <1>1, <1>2

(* allocate keeps the invariant: the id on top of the free part is not in  *)
(* use.                                                                    *)
LEMMA AllocateStep ==
  ASSUME IInv, NEW item \in Item, allocate(item)
  PROVE  IInv'
<1> DEFINE bl == IF isFull THEN moreBlocks ELSE blocks
           fb == IF isFull THEN moreFreeBlocks ELSE freeBlocks
           n  == nextAvailableBlockIndex
           id == fb[n + 1]
<1> USE ArenaAssumption
<1>1. /\ bl \in Seq(Item \cup {NullOpt}) /\ fb \in Seq(Nat)
      /\ Len(bl) = Len(fb) /\ n < Len(bl)
      /\ \A i, j \in n + 1..Len(fb) : fb[i] = fb[j] => i = j
      /\ \A i \in n + 1..Len(fb) : fb[i] \in (0..Len(bl) - 1) \ inUse
      /\ \A k \in 0..Len(bl) - 1 :
           k \in inUse \/ \E i \in n + 1..Len(fb) : fb[i] = k
      /\ inUse \subseteq 0..Len(bl) - 1
      /\ \A k \in inUse : bl[k + 1] = contents[k]
  <2> HIDE DEF bl, fb
  <2>1. bl = (IF isFull THEN moreBlocks ELSE blocks)
    BY DEF bl
  <2>2. fb = (IF isFull THEN moreFreeBlocks ELSE freeBlocks)
    BY DEF fb
  <2>3. Room(bl, fb)
    BY ONLY IInv, <2>1, <2>2, RoomForOne
  <2> QED
    BY <2>3 DEF Room
<1>2. /\ freeBlocks' = fb
      /\ blocks' = [bl EXCEPT ![id + 1] = item]
      /\ nextAvailableBlockIndex' = n + 1
      /\ contents' = [i \in inUse \cup {id} |-> IF i = id THEN item ELSE contents[i]]
  BY DEF allocate
<1>3. n \in Nat
  BY DEF IInv, TypeOK
<1> HIDE DEF bl, fb
<1>4. id \in (0..Len(bl) - 1) \ inUse
  BY <1>1, <1>3
<1>5. inUse' = inUse \cup {id}
  BY <1>2 DEF inUse
<1>6. Len(blocks') = Len(bl) /\ Len(freeBlocks') = Len(bl)
  BY <1>1, <1>2, <1>4
<1> HIDE DEF id, n
<1>7. TypeOK'
  <2>1. blocks' \in Seq(Item \cup {NullOpt})
    BY <1>1, <1>2, <1>4
  <2>2. contents' \in [inUse' -> Item]
    BY <1>2, <1>5 DEF IInv, TypeOK
  <2> QED
    BY <1>1, <1>2, <1>3, <1>6, <2>1, <2>2 DEF TypeOK
<1>8. FreePartition'
  <2>1. \A i \in n + 2..Len(fb) : fb[i] # id
    <3> SUFFICES ASSUME NEW i \in n + 2..Len(fb) PROVE fb[i] # id
      OBVIOUS
    <3>1. n + 1 \in n + 1..Len(fb) /\ i \in n + 1..Len(fb) /\ i # n + 1
      BY <1>1, <1>3
    <3>2. fb[i] = fb[n + 1] => i = n + 1
      BY <1>1, <3>1
    <3> QED
      BY <3>1, <3>2 DEF id
  <2>2. \A k \in 0..Len(bl) - 1 :
          k \in inUse' \/ \E i \in n + 2..Len(fb) : fb[i] = k
    <3> SUFFICES ASSUME NEW k \in 0..Len(bl) - 1, k \notin inUse'
                 PROVE  \E i \in n + 2..Len(fb) : fb[i] = k
      OBVIOUS
    <3>1. PICK i \in n + 1..Len(fb) : fb[i] = k
      BY <1>1, <1>5
    <3>2. i # n + 1
      BY <1>5, <3>1 DEF id
    <3> QED
      BY <1>3, <3>1, <3>2
  <2>3. \A i \in n + 2..Len(fb) : fb[i] \in (0..Len(bl) - 1) \ inUse'
    BY <1>1, <1>3, <1>5, <2>1
  <2>4. FreePart' = n + 2..Len(fb) /\ freeBlocks' = fb /\ Ids' = 0..Len(bl) - 1
    BY <1>1, <1>2, <1>3, <1>6 DEF FreePart, Ids
  <2>5. \A i, j \in FreePart' : fb[i] = fb[j] => i = j
    BY <1>1, <1>3, <2>4
  <2>6. inUse' \subseteq Ids'
    BY <1>1, <1>4, <1>5, <2>4
  <2> QED
    BY <2>2, <2>3, <2>4, <2>5, <2>6 DEF FreePartition
<1>9. GetReturnsItem'
  BY <1>1, <1>2, <1>4, <1>5 DEF GetReturnsItem
<1>10. StackDepth'
  BY <1>2, <1>3, <1>4, <1>5, FS_AddElement DEF IInv, StackDepth, n
<1> QED
  BY <1>7, <1>8, <1>9, <1>10 DEF IInv

(* free keeps the invariant: there is room below the free part for the id. *)
LEMMA FreeStep ==
  ASSUME IInv, NEW id \in inUse, free(id)
  PROVE  IInv'
<1> DEFINE n == nextAvailableBlockIndex
<1> USE ArenaAssumption
<1>1. /\ freeBlocks' = [freeBlocks EXCEPT ![n] = id]
      /\ nextAvailableBlockIndex' = n - 1
      /\ blocks' = IF unsafe THEN blocks ELSE [blocks EXCEPT ![id + 1] = NullOpt]
      /\ contents' = [i \in inUse \ {id} |-> contents[i]]
  BY DEF free
<1>2. /\ blocks \in Seq(Item \cup {NullOpt}) /\ freeBlocks \in Seq(Nat)
      /\ Len(freeBlocks) = Len(blocks) /\ n \in 0..Len(blocks)
      /\ id \in 0..Len(blocks) - 1
  BY DEF IInv, TypeOK, FreePartition, Ids
<1>3. inUse' = inUse \ {id}
  BY <1>1 DEF inUse
<1>4. n \in 1..Len(blocks)
  BY <1>2, FS_EmptySet DEF IInv, StackDepth
<1>5. /\ blocks' \in Seq(Item \cup {NullOpt}) /\ Len(blocks') = Len(blocks)
      /\ \A k \in inUse' : blocks'[k + 1] = blocks[k + 1]
  <2>1. CASE unsafe
    BY <1>1, <1>2, <2>1
  <2>2. CASE ~unsafe
    <3>1. \A k \in inUse' : k # id /\ k \in 0..Len(blocks) - 1
      BY <1>3 DEF IInv, FreePartition, Ids
    <3> QED
      BY <1>1, <1>2, <2>2, <3>1
  <2> QED
    BY <2>1, <2>2
<1>6. /\ freeBlocks' \in Seq(Nat) /\ Len(freeBlocks') = Len(blocks)
      /\ freeBlocks'[n] = id
      /\ \A i \in n + 1..Len(blocks) : freeBlocks'[i] = freeBlocks[i]
  BY <1>1, <1>2, <1>4
<1> HIDE DEF n
<1>7. TypeOK'
  <2>1. contents' \in [inUse' -> Item]
    BY <1>1, <1>3 DEF IInv, TypeOK
  <2> QED
    BY <1>1, <1>4, <1>5, <1>6, <2>1 DEF TypeOK
<1>8. FreePartition'
  <2>1. /\ \A i, j \in n + 1..Len(blocks) : freeBlocks[i] = freeBlocks[j] => i = j
        /\ \A i \in n + 1..Len(blocks) :
             freeBlocks[i] \in (0..Len(blocks) - 1) \ inUse
        /\ \A k \in 0..Len(blocks) - 1 :
             k \in inUse \/ \E i \in n + 1..Len(blocks) : freeBlocks[i] = k
        /\ inUse \subseteq 0..Len(blocks) - 1
    BY <1>2 DEF IInv, FreePartition, FreePart, Ids, n
  <2>2. /\ FreePart' = n..Len(blocks) /\ Ids' = 0..Len(blocks) - 1
        /\ \A i \in n..Len(blocks) : i = n \/ i \in n + 1..Len(blocks)
        /\ n \in n..Len(blocks)
        /\ \A i \in n + 1..Len(blocks) : i \in n..Len(blocks)
    BY <1>1, <1>2, <1>4, <1>5, <1>6 DEF FreePart, Ids
  <2>3. \A i, j \in n..Len(blocks) : freeBlocks'[i] = freeBlocks'[j] => i = j
    BY <1>6, <2>1, <2>2
  <2>4. \A i \in n..Len(blocks) : freeBlocks'[i] \in (0..Len(blocks) - 1) \ inUse'
    BY <1>2, <1>3, <1>6, <2>1, <2>2
  <2>5. \A k \in 0..Len(blocks) - 1 :
          k \in inUse' \/ \E i \in n..Len(blocks) : freeBlocks'[i] = k
    BY <1>3, <1>6, <2>1, <2>2
  <2> QED
    BY <1>3, <2>1, <2>2, <2>3, <2>4, <2>5 DEF FreePartition
<1>9. GetReturnsItem'
  BY <1>1, <1>3, <1>5 DEF IInv, GetReturnsItem
<1>10. StackDepth'
  BY <1>1, <1>3, FS_RemoveElement DEF IInv, StackDepth, n
<1> QED
  BY <1>7, <1>8, <1>9, <1>10 DEF IInv

(* A write keeps the invariant: another id has another block. *)
LEMMA WriteStep ==
  ASSUME IInv, NEW id \in inUse, NEW item \in Item, write(id, item)
  PROVE  IInv'
<1> USE ArenaAssumption
<1>1. /\ blocks' = [blocks EXCEPT ![id + 1] = item]
      /\ contents' = [contents EXCEPT ![id] = item]
      /\ freeBlocks' = freeBlocks
      /\ nextAvailableBlockIndex' = nextAvailableBlockIndex
  BY DEF write
<1>2. /\ blocks \in Seq(Item \cup {NullOpt}) /\ contents \in [inUse -> Item]
      /\ inUse \subseteq 0..Len(blocks) - 1
  BY DEF IInv, TypeOK, FreePartition, Ids
<1>3. inUse' = inUse
  BY <1>1 DEF inUse
<1>4. blocks' \in Seq(Item \cup {NullOpt}) /\ Len(blocks') = Len(blocks)
  BY <1>1, <1>2
<1>5. contents' \in [inUse' -> Item]
  BY <1>1, <1>2, <1>3
<1>6. TypeOK'
  BY <1>1, <1>4, <1>5 DEF IInv, TypeOK
<1>7. FreePartition'
  BY <1>1, <1>3, <1>4 DEF IInv, FreePartition, FreePart, Ids
<1>8. GetReturnsItem'
  BY <1>1, <1>2, <1>3 DEF IInv, GetReturnsItem
<1>9. StackDepth'
  BY <1>1, <1>3 DEF IInv, StackDepth
<1> QED
  BY <1>6, <1>7, <1>8, <1>9 DEF IInv

(* Every step keeps the invariant. *)
LEMMA StepIInv == IInv /\ [Next]_vars => IInv'
<1> SUFFICES ASSUME IInv, [Next]_vars PROVE IInv'
  OBVIOUS
<1>1. CASE UNCHANGED vars
  BY <1>1 DEF vars, IInv, TypeOK, FreePartition, FreePart, Ids, GetReturnsItem,
              StackDepth, inUse
<1>2. ASSUME NEW item \in Item, allocate(item) PROVE IInv'
  BY <1>2, AllocateStep
<1>3. ASSUME NEW id \in inUse, free(id) PROVE IInv'
  BY <1>3, FreeStep
<1>4. ASSUME NEW item \in Item, NEW id \in inUse, write(id, item) PROVE IInv'
  BY <1>4, WriteStep
<1> QED
  BY <1>1, <1>2, <1>3, <1>4 DEF Next

(* The inductive invariant holds in every state of VectorArenaAllocator. *)
THEOREM Invariance == Spec => []IInv
BY InitIInv, StepIInv, PTL DEF Spec

(* No id of the arena is lost, and none that is in use is on the free part *)
(* of the stack (VectorArenaAllocator.h, allocate and free).               *)
THEOREM SpecFreePartition == Spec => []FreePartition
BY Invariance, PTL DEF IInv

(* get answers with the item last stored under the id, across growth and   *)
(* reuse of blocks.                                                        *)
THEOREM SpecGetReturnsItem == Spec => []GetReturnsItem
BY Invariance, PTL DEF IInv

(* The vectors keep their types, and nextAvailableBlockIndex_ never passes *)
(* the end of the stack of free blocks.                                    *)
THEOREM TypeCorrect == Spec => []TypeOK
BY Invariance, PTL DEF IInv

-----------------------------------------------------------------------------
(* The safe version detects an id that is not in use.                      *)

(* In a safe arena, the blocks allocate finds or adds are empty where no   *)
(* id is in use.                                                           *)
LEMMA EmptyWhereFree ==
  ASSUME IInv, SafeDetectsFreed, ~unsafe,
         NEW bl, bl = IF isFull THEN moreBlocks ELSE blocks
  PROVE  \A id \in (0..Len(bl) - 1) \ inUse : bl[id + 1] = NullOpt
<1> USE ArenaAssumption
<1>1. blocks \in Seq(Item \cup {NullOpt}) /\ Len(blocks) \in Nat
  BY DEF IInv, TypeOK
<1>2. \A id \in (0..Len(blocks) - 1) \ inUse : blocks[id + 1] = NullOpt
  BY DEF SafeDetectsFreed, Ids
<1>3. CASE ~isFull
  BY <1>2, <1>3
<1>4. CASE isFull
  <2> DEFINE bs == [i \in 1..kChunkSize |-> EmptyBlock]
  <2>1. bl = blocks \o bs
    BY <1>4 DEF moreBlocks
  <2>2. /\ bs \in Seq(Item \cup {NullOpt}) /\ Len(bs) = kChunkSize
        /\ \A i \in 1..kChunkSize : bs[i] = NullOpt
    BY DEF EmptyBlock
  <2> HIDE DEF bs
  <2>3. /\ Len(bl) = Len(blocks) + kChunkSize
        /\ \A i \in 1..Len(blocks) : bl[i] = blocks[i]
        /\ \A i \in Len(blocks) + 1..Len(blocks) + kChunkSize :
             bl[i] = bs[i - Len(blocks)]
    BY <1>1, <2>1, <2>2, ConcatIndex
  <2> SUFFICES ASSUME NEW id \in (0..Len(bl) - 1) \ inUse PROVE bl[id + 1] = NullOpt
    OBVIOUS
  <2>4. CASE id < Len(blocks)
    BY <1>1, <1>2, <2>3, <2>4
  <2>5. CASE id >= Len(blocks)
    <3>1. id + 1 - Len(blocks) \in 1..kChunkSize
      BY <1>1, <2>3, <2>5
    <3> QED BY <1>1, <2>2, <2>3, <2>5, <3>1
  <2> QED BY <1>1, <2>3, <2>4, <2>5
<1> QED
  BY <1>3, <1>4

(* Every step keeps the blocks empty where no id is in use. *)
LEMMA StepDetectsFreed ==
  IInv /\ SafeDetectsFreed /\ [Next]_vars => SafeDetectsFreed'
<1> SUFFICES ASSUME IInv, SafeDetectsFreed, [Next]_vars, ~unsafe,
                    NEW i \in Ids' \ inUse'
             PROVE  blocks'[i + 1] = NullOpt
  BY DEF SafeDetectsFreed
<1> USE ArenaAssumption
<1>1. /\ blocks \in Seq(Item \cup {NullOpt}) /\ inUse \subseteq 0..Len(blocks) - 1
      /\ \A id \in (0..Len(blocks) - 1) \ inUse : blocks[id + 1] = NullOpt
  BY DEF IInv, TypeOK, FreePartition, SafeDetectsFreed, Ids
<1>2. CASE UNCHANGED vars
  BY <1>1, <1>2 DEF vars, Ids, inUse
<1>3. ASSUME NEW item \in Item, allocate(item) PROVE blocks'[i + 1] = NullOpt
  <2> PICK bl : bl = IF isFull THEN moreBlocks ELSE blocks
    OBVIOUS
  <2> PICK fb : fb = IF isFull THEN moreFreeBlocks ELSE freeBlocks
    OBVIOUS
  <2> PICK id : id = fb[nextAvailableBlockIndex + 1]
    OBVIOUS
  <2>1. /\ blocks' = [bl EXCEPT ![id + 1] = item]
        /\ contents' = [x \in inUse \cup {id} |-> IF x = id THEN item ELSE contents[x]]
    BY <1>3 DEF allocate
  <2>2. bl \in Seq(Item \cup {NullOpt}) /\ id \in 0..Len(bl) - 1
    <3>1. Room(bl, fb)
      BY RoomForOne
    <3> QED BY <3>1 DEF Room, IInv, TypeOK
  <2>3. inUse' = inUse \cup {id} /\ Len(blocks') = Len(bl)
    BY <2>1, <2>2 DEF inUse
  <2>4. i \in (0..Len(bl) - 1) \ inUse /\ i # id
    BY <2>3 DEF Ids
  <2>5. bl[i + 1] = NullOpt
    BY <2>4, EmptyWhereFree
  <2> QED BY <2>1, <2>2, <2>4, <2>5
<1>4. ASSUME NEW id \in inUse, free(id) PROVE blocks'[i + 1] = NullOpt
  <2>1. /\ blocks' = [blocks EXCEPT ![id + 1] = NullOpt]
        /\ contents' = [x \in inUse \ {id} |-> contents[x]]
    BY <1>4 DEF free
  <2>2. inUse' = inUse \ {id} /\ Len(blocks') = Len(blocks)
    BY <1>1, <2>1 DEF inUse
  <2> QED BY <1>1, <2>1, <2>2 DEF Ids
<1>5. ASSUME NEW item \in Item, NEW id \in inUse, write(id, item)
      PROVE  blocks'[i + 1] = NullOpt
  <2>1. /\ blocks' = [blocks EXCEPT ![id + 1] = item]
        /\ contents' = [contents EXCEPT ![id] = item]
    BY <1>5 DEF write
  <2>2. inUse' = inUse /\ Len(blocks') = Len(blocks)
    BY <1>1, <2>1 DEF inUse
  <2> QED BY <1>1, <2>1, <2>2 DEF Ids
<1> QED
  BY <1>2, <1>3, <1>4, <1>5 DEF Next

(* The safe allocator answers with nothing for an id that was never        *)
(* allocated or was freed, across growth and reuse of blocks.              *)
THEOREM FreedDetected == Spec => []SafeDetectsFreed
<1>1. Init => SafeDetectsFreed
  BY ArenaAssumption DEF Init, SafeDetectsFreed, Ids, EmptyBlock
<1> QED
  BY <1>1, StepDetectsFreed, Invariance, PTL DEF Spec

-----------------------------------------------------------------------------
(* The arena implements the promise of IAllocator.                         *)

SizeBound == Len(blocks) <= MaxBlocks

(* The arena stays within the bound of the model. *)
LEMMA SizeBoundInvariance == Spec => []SizeBound
<1>1. Init => SizeBound
  BY ArenaAssumption DEF Init, SizeBound
<1>2. IInv /\ SizeBound /\ [Next]_vars => SizeBound'
  <2> SUFFICES ASSUME IInv, SizeBound, [Next]_vars PROVE SizeBound'
    OBVIOUS
  <2> USE ArenaAssumption
  <2>1. CASE UNCHANGED vars
    BY <2>1 DEF vars, SizeBound
  <2>2. ASSUME NEW item \in Item, allocate(item) PROVE SizeBound'
    <3>1. CASE ~isFull
      BY <2>2, <3>1 DEF allocate, IInv, TypeOK, SizeBound
    <3>2. CASE isFull
      <4> DEFINE bs == [i \in 1..kChunkSize |-> EmptyBlock]
                 id == moreFreeBlocks[nextAvailableBlockIndex + 1]
      <4>1. blocks' = [(blocks \o bs) EXCEPT ![id + 1] = item]
        BY <2>2, <3>2 DEF allocate, moreBlocks
      <4>2. bs \in Seq(Item \cup {NullOpt}) /\ Len(bs) = kChunkSize
        BY DEF EmptyBlock
      <4>3. blocks \in Seq(Item \cup {NullOpt})
        BY DEF IInv, TypeOK
      <4> HIDE DEF bs, id
      <4>4. blocks \o bs \in Seq(Item \cup {NullOpt})
            /\ Len(blocks \o bs) = Len(blocks) + kChunkSize
        BY <4>2, <4>3, ConcatIndex
      <4>5. Len(blocks') = Len(blocks) + kChunkSize
        BY <4>1, <4>4
      <4> QED
        BY <2>2, <3>2, <4>5 DEF allocate, SizeBound
    <3> QED
      BY <3>1, <3>2
  <2>3. ASSUME NEW id \in inUse, free(id) PROVE SizeBound'
    BY <2>3 DEF free, IInv, TypeOK, SizeBound
  <2>4. ASSUME NEW item \in Item, NEW id \in inUse, write(id, item) PROVE SizeBound'
    BY <2>4 DEF write, IInv, TypeOK, SizeBound
  <2> QED
    BY <2>1, <2>2, <2>3, <2>4 DEF Next
<1> QED
  BY <1>1, <1>2, Invariance, PTL DEF Spec

(* allocate answers with an id that is not in use, as IAllocator.h asks. *)
LEMMA AllocateRefines ==
  ASSUME IInv, IInv', SizeBound', NEW item \in Item, allocate(item)
  PROVE  \E id \in 0..MaxBlocks - 1 : Abstract!allocate(id, item)
<1> USE ArenaAssumption
<1> DEFINE fb == IF isFull THEN moreFreeBlocks ELSE freeBlocks
           id == fb[nextAvailableBlockIndex + 1]
<1>1. /\ contents' = [i \in inUse \cup {id} |-> IF i = id THEN item ELSE contents[i]]
      /\ answer' = {id}
  BY DEF allocate
<1>2. inUse' = inUse \cup {id}
  BY <1>1 DEF inUse
<1>3. id \notin inUse
  <2>1. Cardinality(inUse') = Cardinality(inUse) + 1
    BY DEF IInv, StackDepth, allocate
  <2>2. Cardinality(inUse) \in Nat
    BY DEF IInv, StackDepth, TypeOK
  <2> HIDE DEF id
  <2>3. id \in inUse => inUse' = inUse
    BY <1>2
  <2> QED
    BY <2>1, <2>2, <2>3
<1>4. id \in 0..MaxBlocks - 1
  <2> HIDE DEF id
  <2>1. id \in 0..Len(blocks') - 1
    BY <1>2 DEF IInv, FreePartition, Ids
  <2> QED
    BY <2>1 DEF SizeBound, IInv, TypeOK
<1> QED
  BY <1>1, <1>3, <1>4 DEF Abstract!allocate, inUse

(* Every step of the arena is a step of IAllocator or changes no item. *)
LEMMA StepRefines ==
  IInv /\ IInv' /\ SizeBound' /\ [Next]_vars => [Abstract!AllocatorNext]_<<contents, answer>>
<1> SUFFICES ASSUME IInv, IInv', SizeBound', [Next]_vars
             PROVE  [Abstract!AllocatorNext]_<<contents, answer>>
  OBVIOUS
<1>1. CASE UNCHANGED vars
  BY <1>1 DEF vars
<1>2. ASSUME NEW item \in Item, allocate(item) PROVE Abstract!AllocatorNext
  BY <1>2, AllocateRefines DEF Abstract!AllocatorNext
<1>3. ASSUME NEW id \in inUse, free(id) PROVE Abstract!AllocatorNext
  BY <1>3, ArenaAssumption DEF free, inUse, Abstract!AllocatorNext, Abstract!free
<1>4. ASSUME NEW item \in Item, NEW id \in inUse, write(id, item)
      PROVE  Abstract!AllocatorNext
  BY <1>4 DEF write, inUse, Abstract!AllocatorNext, Abstract!write
<1> QED
  BY <1>1, <1>2, <1>3, <1>4 DEF Next

(* VectorArenaAllocator implements IAllocator: an id it answers with is    *)
(* not in use, and allocating, freeing or writing one id leaves the items  *)
(* of the others alone.                                                    *)
THEOREM Refinement == Spec => ImplementsAllocator
<1>1. Init => Abstract!AllocatorInit
  BY DEF Init, Abstract!AllocatorInit
<1> QED
  BY <1>1, StepRefines, Invariance, SizeBoundInvariance, PTL
     DEF Spec, ImplementsAllocator, Abstract!AllocatorSpec, Abstract!allocatorVars
=============================================================================
