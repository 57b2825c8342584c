----------------------------- MODULE KernelHeap -----------------------------
(***************************************************************************)
(* The heap as the kernel uses it.  While the kernel boots (main.c _start, *)
(* up to the stack create_kernel_task allocates) every block is a          *)
(* permanent one: the cursor callback, the command line values, the tty    *)
(* and its rings, the task and its stack are allocated and never freed.    *)
(* From then on the only caller left is debug(), in create_kernel_task and *)
(* in schedule(): it allocates one scratch buffer, prints it and frees it  *)
(* before it returns.                                                      *)
(*                                                                         *)
(* The allocator itself is that of Heap, every action unchanged.           *)
(***************************************************************************)
EXTENDS Heap

CONSTANTS
  Scratch,       \* the caller debug()
  BufferSizes    \* what it asks for

\* The two values of the command line are of any size, debug's buffer of whole words.
ASSUME KernelHeapAssumption ==
  /\ Scratch \in Clients
  /\ BufferSizes \subseteq Sizes
  /\ \A n \in BufferSizes : n % WordBytes = 0

Perms == Clients \ {Scratch}

VARIABLE booted     \* the last permanent block has been allocated

kvars == <<vars, booted>>

KInit == Init /\ booted = FALSE

\* malloc by one of the init functions _start calls.
BootMalloc(p, n) ==
  /\ ~booted
  /\ MallocEmpty(p, n) \/ MallocCall(p, n)
  /\ UNCHANGED booted

\* create_kernel_task has the stack; the cursor callback exists since fbcon_init.
BootDone ==
  /\ ~booted
  /\ pc = "idle"
  /\ \E p \in Perms : held[p] # NoBlock
  /\ booted' = TRUE
  /\ UNCHANGED vars

\* debug(): malloc, vsnprintf into the buffer (a Store), free.
DebugMalloc(n) ==
  /\ booted
  /\ MallocEmpty(Scratch, n) \/ MallocCall(Scratch, n)
  /\ UNCHANGED booted

DebugFree ==
  /\ booted
  /\ FreeCall(Scratch)
  /\ UNCHANGED booted

\* A block whose size is not a multiple of a word holds a string, written once
\* right after its malloc.  The header of the next block covers what is behind its
\* last whole word.
EndWhole(c) == held[c].ptr + held[c].size \div WordBytes

\* x is at or above the end of every permanent block.
Above(x) == \A p \in Perms : Live(p) => EndWhole(p) <= x

KStore(c, k, v) ==
  /\ Store(c, k, v)
  /\ \/ k <= held[c].size \div WordBytes
     \/ ~booted /\ Above(EndWhole(c))
  /\ UNCHANGED booted

KLoop == Loop /\ UNCHANGED booted

KNext ==
  \/ \E p \in Perms, n \in Sizes : BootMalloc(p, n)
  \/ BootDone
  \/ \E n \in BufferSizes : DebugMalloc(n)
  \/ DebugFree
  \/ \E c \in Clients, v \in Data, k \in 1 .. HeapWords : KStore(c, k, v)
  \/ KLoop

KSpec == KInit /\ [][KNext]_kvars

-----------------------------------------------------------------------------

\* No two blocks in use share a whole word of theirs, so that a block loses no more
\* than the tail of its last word, to the header of the next.
BlocksApart ==
  \A c, d \in Clients :
    c # d /\ Live(c) /\ Live(d) => EndWhole(c) <= Start(d) \/ EndWhole(d) <= Start(c)

\* The headers of the blocks in use are never damaged, neither by the stores of
\* other callers nor by heap_merge_blocks: free() finds the size it was given.
HeadersIntact ==
  \A c \in Clients : Live(c) =>
    /\ HasMagic(Start(c))
    /\ SizeAt(Start(c)) = held[c].size
    /\ UsedAt(Start(c))

\* The parts of the inductive invariant.

\* x is exactly where the permanent blocks end.
IsTop(x) == Above(x) /\ (x = 0 \/ \E p \in Perms : Live(p) /\ x = EndWhole(p))

\* x is where the walk over the permanent blocks passes.
PermStart(x) == \E p \in Perms : Live(p) /\ x = Start(p)
OnChain(x) == PermStart(x) \/ IsTop(x)

\* The permanent blocks are the start of the chain, without a gap, and the
\* scratch block lies above them.
ChainInv ==
  /\ OnChain(0)
  /\ \A p \in Perms : Live(p) => OnChain(EndWhole(p))
  /\ Live(Scratch) => Above(Start(Scratch))

LiveInv ==
  \A c \in Clients : Live(c) =>
    /\ held[c].ptr >= HdrWords
    /\ held[c].size \in Sizes
    /\ WordBytes * held[c].ptr + held[c].size <= prev_alloc
    /\ mem[Start(c)] = MAGIC
    /\ mem[Start(c) + 1] = held[c].size
    /\ mem[Start(c) + 2] % 256 = 1

\* A magic word, in a header or where one was once, is followed by a size that
\* keeps a walk below prev_alloc, or by one that takes it past heap_end; and by whole
\* words, but in a permanent block.
HeaderInv ==
  \A c \in Words : c + 1 \in Words /\ mem[c] = MAGIC =>
    /\ WordBytes * c + HdrBytes <= prev_alloc
    /\ \/ mem[c + 1] >= MAGIC
       \/ /\ mem[c + 1] % WordBytes = 0 \/ PermStart(c)
          /\ WordBytes * c + HdrBytes + mem[c + 1] <= prev_alloc

\* Until the boot is over the heap above the permanent blocks is as heap_init left it.
BootInv ==
  ~booted =>
    /\ ~Live(Scratch)
    /\ heap_used = prev_alloc
    /\ \A x \in Words : Above(x) => mem[x] # MAGIC

WalkInv ==
  /\ pc # "idle" =>
       /\ OnChain(cur) \/ Above(cur)
       /\ cur < HeapWords => WordBytes * cur <= prev_alloc
  /\ pc = "scan" =>
       /\ want \in Sizes
       /\ ~Live(who)
       /\ IF booted THEN who = Scratch /\ want \in BufferSizes ELSE who \in Perms /\ OnChain(cur)
  /\ pc = "merge" =>
       /\ booted
       /\ ~Live(Scratch)
       /\ prv # NULL =>
            /\ OnChain(prv) \/ Above(prv)
            /\ mem[prv] = MAGIC
            /\ cur = NextBlock(prv)

\* The inductive invariant of KSpec.
KInv ==
  TypeOK /\ BlocksApart /\ ChainInv /\ LiveInv /\ HeaderInv /\ BootInv /\ WalkInv

=============================================================================
