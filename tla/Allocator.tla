----------------------------- MODULE Allocator ------------------------------
(***************************************************************************)
(* What an allocator promises (fbpcf/scheduler/IAllocator.h): allocate     *)
(* answers with an id that is not in use, and an id in use keeps its item  *)
(* until it is written to or freed.  The caller passes only ids in use.    *)
(***************************************************************************)
CONSTANTS Id,        \* the ids an allocator may answer with
          Item       \* the items of type T

VARIABLES items,     \* the items in use, by id
          answer     \* the id the last call answered with, if it was allocate

allocatorVars == <<items, answer>>

AllocatorInit == items = << >> /\ answer = {}

allocate(id, item) ==
  /\ id \in Id \ DOMAIN items
  /\ items' = [i \in DOMAIN items \cup {id} |-> IF i = id THEN item ELSE items[i]]
  /\ answer' = {id}

free(id) == /\ id \in DOMAIN items
            /\ items' = [i \in DOMAIN items \ {id} |-> items[i]]
            /\ answer' = {}

(* A write through getWritableReference. *)
write(id, item) == /\ id \in DOMAIN items
                   /\ items' = [items EXCEPT ![id] = item]
                   /\ answer' = {}

AllocatorNext ==
  \E item \in Item : \/ \E id \in Id : allocate(id, item)
                     \/ \E id \in DOMAIN items : free(id) \/ write(id, item)

AllocatorSpec == AllocatorInit /\ [][AllocatorNext]_allocatorVars
=============================================================================
