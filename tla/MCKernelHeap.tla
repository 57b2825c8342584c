---------------------------- MODULE MCKernelHeap ----------------------------
(* An instance for TLC of KernelHeap or of Heap: of the heap as the kernel uses it, *)
(* or of a smaller one whose callers do as they like.                               *)
EXTENDS KernelHeap

CONSTANTS AnyHeapMax, AnyClients, AnySizes      \* of the heap of any callers

VARIABLES users, any_mem, any_prev_alloc, any_heap_used, any_held, any_pc, any_who, any_want,
          any_cur, any_prv

Any == INSTANCE Heap WITH
  HeapMax <- AnyHeapMax, Clients <- AnyClients, Sizes <- AnySizes,
  mem <- any_mem, prev_alloc <- any_prev_alloc, heap_used <- any_heap_used, held <- any_held,
  pc <- any_pc, who <- any_who, want <- any_want, cur <- any_cur, prv <- any_prv

any == <<any_mem, any_prev_alloc, any_heap_used, any_held, any_pc, any_who, any_want, any_cur,
         any_prv>>

UsersInit == users \in {"kernel", "any"} /\ KInit /\ Any!Init

UsersNext ==
  \/ users = "kernel" /\ KNext /\ UNCHANGED <<users, any>>
  \/ users = "any" /\ Any!Next /\ UNCHANGED <<users, kvars>>

UsersSpec ==
  UsersInit /\ [][UsersNext]_<<users, kvars, any>> /\ WF_any(users = "any" /\ Any!Loop)

\* Whatever the callers do, no block in use is outside the heap.
AnyInHeap == Any!AllocInHeap

\* Whatever the callers do, a size once refused for want of space stays refused.
AnyExhaustionPermanent == Any!ExhaustionPermanent

\* Whatever the callers do, malloc and free return.
AnyCallsReturn == Any!CallsReturn
=============================================================================
