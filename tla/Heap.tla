-------------------------------- MODULE Heap --------------------------------
(***************************************************************************)
(* The kernel heap of src/src/mm/heap.c.                                   *)
(*                                                                         *)
(* The heap is a region of HeapMax bytes seen as 8-byte words; mem[i] is   *)
(* the word at heap_start + 8*i.  A block starts with struct heap_block:   *)
(* one word of magic, one word of size (in bytes) and one word holding the *)
(* used flag; its payload follows.  Nothing else describes the heap: the   *)
(* blocks are found by walking the sizes from heap_start, so the words the *)
(* clients store, stale headers and fresh ones all live in mem, and a walk *)
(* that leaves the chain reads whatever it finds there.                    *)
(*                                                                         *)
(* A call is one action that starts it and one action per iteration of its *)
(* loop; sizes are bytes, addresses (cur, prv, block pointers) are word    *)
(* indexes from heap_start.  heap_used is an unsigned 64-bit counter that  *)
(* the code only compares with zero; it is an integer here.                *)
(***************************************************************************)
EXTENDS Integers, FiniteSets

CONSTANTS
  HeapMax,   \* KERNEL_HEAP_MAX, in bytes
  Clients,   \* callers; each holds at most one block
  Nobody,    \* not one of them
  Sizes,     \* sizes the callers ask for, in bytes
  MAGIC,     \* KERNEL_HEAP_MAGIC
  Data,      \* words the callers store in their blocks
  Margin     \* words kept after heap_end, for blocks that start close to it

WordBytes == 8          \* KERNEL_HEAP_ALIGNMENT and sizeof(uint64_t)
HdrWords  == 3          \* sizeof(struct heap_block) / sizeof(uint64_t)
HdrBytes  == 24         \* sizeof(struct heap_block)
HeapWords == HeapMax \div WordBytes
Words     == 0 .. HeapWords + Margin - 1

ASSUME HeapAssumption ==
  /\ HeapMax \in Nat /\ HeapMax % WordBytes = 0
  /\ Nobody \notin Clients
  /\ Sizes \subseteq Nat \ {0}
  /\ MAGIC \in Nat /\ MAGIC > HeapMax /\ MAGIC % 256 > 1
  /\ Data \subseteq Nat \ {MAGIC}
  /\ Margin \in Nat /\ Margin >= HdrWords
  /\ \A n \in Sizes : n + HdrBytes + WordBytes <= WordBytes * Margin

NULL    == -1
NoBlock == [ptr |-> 0, size |-> 0]

VARIABLES
  mem,         \* the words of the heap
  prev_alloc,  \* bytes from heap_start to prev_alloc
  heap_used,   \* bytes in use according to the allocator
  held,        \* for each client the block it was given and has not freed
  pc,          \* "idle", or the loop the current call is in
  who,         \* the client malloc is walking for
  want,        \* the size malloc was called with
  cur,         \* the variable mem of the loops, a word index
  prv          \* the variable prev of heap_merge_blocks

vars == <<mem, prev_alloc, heap_used, held, pc, who, want, cur, prv>>

-----------------------------------------------------------------------------

\* The header fields of the block at word c.
HasMagic(c) == mem[c] = MAGIC
SizeAt(c)   == mem[c + 1]
UsedAt(c)   == mem[c + 2] % 256 # 0

\* used is a bool: its store changes the low byte of its word only.
WithUsed(w, flag) == (w \div 256) * 256 + flag

\* static inline size_t align(size_t size)
Align(n) == ((n + WordBytes - 1) \div WordBytes) * WordBytes

\* mem += (block->metadata.size + sizeof(struct heap_block)) / sizeof(uint64_t)
NextBlock(c) == c + (SizeAt(c) + HdrBytes) \div WordBytes

WriteHeader(b, n) ==
  [mem EXCEPT ![b] = MAGIC, ![b + 1] = n, ![b + 2] = WithUsed(@, 1)]

\* Words the payload of a block of n bytes touches, the last one perhaps partly.
PayloadWords(n) == Align(n) \div WordBytes

-----------------------------------------------------------------------------

Init ==
  /\ mem = [i \in Words |-> 0]      \* heap_init clears the whole region
  /\ prev_alloc = 0
  /\ heap_used = 0
  /\ held = [c \in Clients |-> NoBlock]
  /\ pc = "idle"
  /\ who = Nobody
  /\ want = 0
  /\ cur = 0
  /\ prv = NULL

Return ==
  /\ pc' = "idle"
  /\ want' = 0
  /\ cur' = 0
  /\ prv' = NULL
  /\ who' = Nobody

\* Mutants of Usage: the block's own bytes are left out; what is in use is
\* counted instead of what was ever given.
UsageShort(n)  == prev_alloc
UsageByUsed(n) == heap_used + n + HdrBytes

\* usage, the offset heap_alloc compares with heap_end.
Usage(n) == prev_alloc + n + HdrBytes

\* The tail of heap_alloc once heap_get_free returned the block at word b: the
\* bound is checked against prev_alloc, not against b.
Place(c, b, n) ==
  IF Usage(n) > HeapMax
  THEN UNCHANGED <<mem, prev_alloc, heap_used, held>>          \* NULL
  ELSE /\ prev_alloc' = prev_alloc + n + HdrBytes
       /\ heap_used' = heap_used + n + HdrBytes
       /\ mem' = WriteHeader(b, n)
       /\ held' = [held EXCEPT ![c] = [ptr |-> b + HdrWords, size |-> n]]

\* malloc while heap_used is zero: heap_get_free answers prev_alloc at once.
\* (A prev_alloc that is not a multiple of a word would need a byte-wise
\* memory; the guard leaves that case out.)
MallocEmpty(c, n) ==
  /\ pc = "idle"
  /\ held[c] = NoBlock
  /\ heap_used = 0
  /\ prev_alloc % WordBytes = 0
  /\ Place(c, prev_alloc \div WordBytes, n)
  /\ UNCHANGED <<pc, who, want, cur, prv>>

\* malloc otherwise: start the walk of heap_get_free at heap_start.
MallocCall(c, n) ==
  /\ pc = "idle"
  /\ held[c] = NoBlock
  /\ heap_used # 0
  /\ pc' = "scan"
  /\ who' = c
  /\ want' = n
  /\ cur' = 0
  /\ UNCHANGED <<mem, prev_alloc, heap_used, held, prv>>

\* Mutant: the used flag is not looked at.
FitsUsed(c, n) ==
  \/ ~HasMagic(c)
  \/ SizeAt(c) = 0
  \/ SizeAt(c) >= Align(n)

\* One iteration of the loop of heap_get_free.
Fits(c, n) ==
  \/ ~HasMagic(c)
  \/ SizeAt(c) = 0
  \/ ~UsedAt(c) /\ SizeAt(c) >= Align(n)

ScanFound ==
  /\ pc = "scan"
  /\ cur < HeapWords
  /\ Fits(cur, want)
  /\ Place(who, cur, want)
  /\ Return

\* Mutant: a used block sends the walk back to its start.
ScanNextStays ==
  /\ pc = "scan"
  /\ cur < HeapWords
  /\ ~Fits(cur, want)
  /\ cur' = IF UsedAt(cur) THEN 0 ELSE NextBlock(cur)
  /\ UNCHANGED <<mem, prev_alloc, heap_used, held, pc, who, want, prv>>

ScanNext ==
  /\ pc = "scan"
  /\ cur < HeapWords
  /\ ~Fits(cur, want)
  /\ cur' = NextBlock(cur)
  /\ UNCHANGED <<mem, prev_alloc, heap_used, held, pc, who, want, prv>>

ScanEnd ==
  /\ pc = "scan"
  /\ cur >= HeapWords
  /\ Return
  /\ UNCHANGED <<mem, prev_alloc, heap_used, held>>

\* free(ptr): heap_free, then heap_merge_blocks whatever heap_free decided.  A
\* caller whose malloc failed calls free(NULL), as debug() does.
FreeCall(c) ==
  /\ pc = "idle"
  /\ LET b == held[c].ptr - HdrWords IN
       IF held[c] # NoBlock /\ HasMagic(b) /\ UsedAt(b)
       THEN /\ mem' = [mem EXCEPT ![b + 2] = WithUsed(@, 0)]
            /\ heap_used' = heap_used - (SizeAt(b) + HdrBytes)
       ELSE UNCHANGED <<mem, heap_used>>
  /\ held' = [held EXCEPT ![c] = NoBlock]
  /\ pc' = "merge"
  /\ cur' = 0
  /\ prv' = NULL
  /\ UNCHANGED <<prev_alloc, who, want>>

\* One iteration of the loop of heap_merge_blocks.
InChain == cur < HeapWords /\ HasMagic(cur)

\* Mutant: only the current block is asked whether it is free.
MergeableCur == prv # NULL /\ ~UsedAt(cur)

Mergeable == prv # NULL /\ ~UsedAt(prv) /\ ~UsedAt(cur)

\* prev->metadata.size += block->metadata.size + sizeof(struct heap_block)
MergedSize(p, c) == SizeAt(p) + SizeAt(c) + HdrBytes

MergeNext ==
  /\ pc = "merge"
  /\ InChain
  /\ IF Mergeable
     THEN /\ mem' = [mem EXCEPT ![prv + 1] = MergedSize(prv, cur)]
          /\ prv' = prv
     ELSE /\ prv' = cur
          /\ mem' = mem
  /\ cur' = NextBlock(cur)
  /\ UNCHANGED <<prev_alloc, heap_used, held, pc, who, want>>

MergeEnd ==
  /\ pc = "merge"
  /\ ~InChain
  /\ Return
  /\ UNCHANGED <<mem, prev_alloc, heap_used, held>>

\* A client stores v in the first k words of its block.  Every caller in the
\* tree writes its block from the start (memset, memcpy, strings).
Store(c, k, v) ==
  /\ pc = "idle"
  /\ held[c] # NoBlock
  /\ k <= PayloadWords(held[c].size)
  /\ mem' = [i \in Words |->
               IF i >= held[c].ptr /\ i < held[c].ptr + k THEN v ELSE mem[i]]
  /\ UNCHANGED <<prev_alloc, heap_used, held, pc, who, want, cur, prv>>

-----------------------------------------------------------------------------

\* The iterations of the current call.
Loop == ScanFound \/ ScanNext \/ ScanEnd \/ MergeNext \/ MergeEnd

Next ==
  \/ \E c \in Clients, n \in Sizes : MallocEmpty(c, n) \/ MallocCall(c, n)
  \/ \E c \in Clients : FreeCall(c)
  \/ \E c \in Clients, v \in Data, k \in 1 .. HeapWords : Store(c, k, v)
  \/ Loop

Spec == Init /\ [][Next]_vars

\* The processor keeps executing the loop of a call that was made.
FairSpec == Spec /\ WF_vars(Loop)

-----------------------------------------------------------------------------

Live(c)  == held[c] # NoBlock
Start(c) == held[c].ptr - HdrWords
End(c)   == held[c].ptr + PayloadWords(held[c].size)    \* one past the last

\* What malloc can answer.
Blocks == [ptr : HdrWords .. HdrWords + HeapWords - 1, size : Sizes]

TypeOK ==
  /\ mem \in [Words -> Nat]
  /\ prev_alloc \in 0 .. HeapMax
  /\ heap_used \in Int
  /\ held \in [Clients -> Blocks \cup {NoBlock}]
  /\ pc \in {"idle", "scan", "merge"}
  /\ who \in IF pc = "scan" THEN Clients ELSE {Nobody}
  /\ want \in IF pc = "scan" THEN Sizes ELSE {0}
  /\ cur \in Nat
  /\ prv \in Words \cup {NULL}

\* Every block in use lies between heap_start and heap_end, although
\* heap_alloc compares prev_alloc with heap_end and never the block itself.
AllocInHeap ==
  \A c \in Clients : Live(c) => Start(c) >= 0 /\ End(c) <= HeapWords

\* The bytes of the blocks in use, headers and all, each counted for its client.
Bytes(c) == {c} \X (1 .. held[c].size + HdrBytes)
InUse == UNION {Bytes(c) : c \in {d \in Clients : Live(d)}}

\* heap_used, which decides whether heap_get_free walks the heap at all, is
\* the space of the blocks in use.
UsedMatchesLive == heap_used = Cardinality(InUse)

\* Every call to malloc or free comes back: the walks of heap_get_free and of
\* heap_merge_blocks end whatever sizes they read from the heap.
CallsReturn == pc # "idle" ~> pc = "idle"

\* prev_alloc only grows, so the space a caller has once used up is gone for
\* good: after a size is refused for want of space, it stays refused and no
\* block of that size is given again, whatever is freed in between.
Refused(n) == prev_alloc + n + HdrBytes > HeapMax
ExhaustionPermanent ==
  [][\A n \in Sizes : Refused(n) =>
       /\ Refused(n)'
       /\ \A c \in Clients : held[c] = NoBlock => held'[c] = NoBlock \/ held'[c].size # n]_vars

=============================================================================
