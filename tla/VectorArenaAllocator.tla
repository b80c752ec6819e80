------------------------ MODULE VectorArenaAllocator ------------------------
(***************************************************************************)
(* The allocator the schedulers are built with                             *)
(* (fbpcf/scheduler/VectorArenaAllocator.h): an arena of blocks that grows *)
(* by chunks, and a stack of the ids of its free blocks.  The stack is     *)
(* never shortened: nextAvailableBlockIndex_ separates the entries that    *)
(* are stale (below it) from the ids that are free (from it on).           *)
(*                                                                         *)
(* answer is the id allocate answered with.  contents is a history         *)
(* variable: what the caller last put in each id it has.  The caller uses  *)
(* only ids it has: the unsafe version does not check that.                *)
(***************************************************************************)
EXTENDS Integers, Sequences

CONSTANTS Item,
          kChunkSize,
          unsafe,      \* the template parameter
          NullOpt,     \* an empty std::optional
          Default,     \* a value-initialised T
          MaxBlocks    \* bound on the growth of the arena

ASSUME ArenaAssumption ==
  /\ kChunkSize \in Nat \ {0} /\ MaxBlocks \in Nat /\ kChunkSize <= MaxBlocks
  /\ unsafe \in BOOLEAN
  /\ Default \in Item /\ NullOpt \notin Item

VARIABLES blocks,                  \* the block of id is blocks[id + 1]
          freeBlocks,              \* a vector of ids, as long as blocks
          nextAvailableBlockIndex, \* counted from 0
          answer, contents

vars == <<blocks, freeBlocks, nextAvailableBlockIndex, answer, contents>>

inUse == DOMAIN contents
Ids == 0..Len(blocks) - 1
EmptyBlock == IF unsafe THEN Default ELSE NullOpt

(* Mutation: the blocks there were are lost. *)
moreBlocksAnew == [i \in 1..Len(blocks) + kChunkSize |-> EmptyBlock]
(* increaseAllocation: a chunk of empty blocks, and their ids. *)
moreBlocks == blocks \o [i \in 1..kChunkSize |-> EmptyBlock]
(* Mutation: every chunk gets the ids of the first one. *)
moreFreeBlocksFromZero == freeBlocks \o [i \in 1..kChunkSize |-> i - 1]
moreFreeBlocks == freeBlocks \o [i \in 1..kChunkSize |-> Len(blocks) + i - 1]

Init ==
  /\ blocks = [i \in 1..kChunkSize |-> EmptyBlock]
  /\ freeBlocks = [i \in 1..kChunkSize |-> i - 1]
  /\ nextAvailableBlockIndex = 0
  /\ answer = {} /\ contents = << >>

isFull == nextAvailableBlockIndex >= Len(blocks)

(* Mutation: the index is not advanced. *)
allocateInPlace(item) ==
  LET ids == IF isFull THEN moreFreeBlocks ELSE freeBlocks
      id  == ids[nextAvailableBlockIndex + 1]
  IN  /\ freeBlocks' = ids
      /\ blocks' = [blocks EXCEPT ![id + 1] = item]
      /\ answer' = {id}
      /\ contents' = [i \in inUse \cup {id} |-> IF i = id THEN item ELSE contents[i]]
      /\ UNCHANGED nextAvailableBlockIndex

allocate(item) ==
  LET ids == IF isFull THEN moreFreeBlocks ELSE freeBlocks
      id  == ids[nextAvailableBlockIndex + 1]
  IN  /\ isFull => Len(blocks) + kChunkSize <= MaxBlocks
      /\ freeBlocks' = ids
      /\ blocks' = [(IF isFull THEN moreBlocks ELSE blocks) EXCEPT ![id + 1] = item]
      /\ nextAvailableBlockIndex' = nextAvailableBlockIndex + 1
      /\ answer' = {id}
      /\ contents' = [i \in inUse \cup {id} |-> IF i = id THEN item ELSE contents[i]]

(* Mutation: the index is decremented after the write. *)
freePostDecrement(id) ==
  /\ id \in inUse
  /\ freeBlocks' = [freeBlocks EXCEPT ![nextAvailableBlockIndex + 1] = id]
  /\ nextAvailableBlockIndex' = nextAvailableBlockIndex - 1
  /\ blocks' = IF unsafe THEN blocks ELSE [blocks EXCEPT ![id + 1] = NullOpt]
  /\ contents' = [i \in inUse \ {id} |-> contents[i]]
  /\ answer' = {}
(* Mutation: the safe version does not clear the block either. *)
freeUncleared(id) ==
  /\ id \in inUse
  /\ freeBlocks' = [freeBlocks EXCEPT ![nextAvailableBlockIndex] = id]
  /\ nextAvailableBlockIndex' = nextAvailableBlockIndex - 1
  /\ contents' = [i \in inUse \ {id} |-> contents[i]]
  /\ answer' = {}
  /\ UNCHANGED blocks

free(id) ==
  /\ id \in inUse
  /\ freeBlocks' = [freeBlocks EXCEPT ![nextAvailableBlockIndex] = id]
  /\ nextAvailableBlockIndex' = nextAvailableBlockIndex - 1
  /\ blocks' = IF unsafe THEN blocks ELSE [blocks EXCEPT ![id + 1] = NullOpt]
  /\ contents' = [i \in inUse \ {id} |-> contents[i]]
  /\ answer' = {}

(* A write through the reference that getWritableReference returns. *)
write(id, item) ==
  /\ id \in inUse
  /\ blocks' = [blocks EXCEPT ![id + 1] = item]
  /\ contents' = [contents EXCEPT ![id] = item]
  /\ answer' = {}
  /\ UNCHANGED <<freeBlocks, nextAvailableBlockIndex>>

Next == \/ \E item \in Item : allocate(item)
        \/ \E id \in inUse : free(id)
        \/ \E item \in Item, id \in inUse : write(id, item)

Spec == Init /\ [][Next]_vars

-----------------------------------------------------------------------------
(* The vectors have the same size, hold ids and items, and the index is    *)
(* within them or at their end.                                            *)
TypeOK ==
  /\ blocks \in Seq(Item \cup {NullOpt})
  /\ freeBlocks \in Seq(Nat)
  /\ Len(freeBlocks) = Len(blocks)
  /\ nextAvailableBlockIndex \in 0..Len(blocks)
  /\ contents \in [inUse -> Item]

(* Every id of the arena is in use, or on the free part of the stack once  *)
(* and for all: no id is lost and none can be given out twice.             *)
FreePart == nextAvailableBlockIndex + 1..Len(freeBlocks)
FreePartition ==
  /\ \A i, j \in FreePart : freeBlocks[i] = freeBlocks[j] => i = j
  /\ \A i \in FreePart : freeBlocks[i] \in Ids \ inUse
  /\ \A id \in Ids : id \in inUse \/ \E i \in FreePart : freeBlocks[i] = id
  /\ inUse \subseteq Ids

(* An id in use gives the item last stored under it, through growth and    *)
(* through the reuse of the blocks of others.                              *)
GetReturnsItem == \A id \in inUse : blocks[id + 1] = contents[id]

(* The safe version finds no item under an id that was never allocated or  *)
(* was freed.                                                              *)
SafeDetectsFreed == ~unsafe => \A id \in Ids \ inUse : blocks[id + 1] = NullOpt

(* The arena keeps the promise of IAllocator. *)
Abstract == INSTANCE Allocator WITH Id <- 0..MaxBlocks - 1, items <- contents
ImplementsAllocator == Abstract!AllocatorSpec
=============================================================================
