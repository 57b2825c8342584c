-------------------------- MODULE KernelHeapProofs --------------------------
(***************************************************************************)
(* What holds of Heap for every size of heap and every use of it; and that *)
(* the kernel's use of it never makes two blocks share more than the tail  *)
(* of a string, damages a header or loses count, for every set and sizes   *)
(* of permanent blocks and whatever the callers store.                     *)
(***************************************************************************)
EXTENDS KernelHeap, FiniteSetTheorems, TLAPS

USE DEF WordBytes, HdrWords, HdrBytes, Usage

LEMMA TypeInit == Init => TypeOK
BY HeapAssumption DEF Init, TypeOK, Words, HeapWords, NoBlock, NULL

LEMMA WithUsedNat == \A w \in Nat, f \in {0, 1} : WithUsed(w, f) \in Nat
BY DEF WithUsed

LEMMA WriteHeaderType ==
  ASSUME mem \in [Words -> Nat], NEW b, NEW n \in Sizes
  PROVE  WriteHeader(b, n) \in [Words -> Nat]
<1>1. MAGIC \in Nat /\ n \in Nat
  BY HeapAssumption
<1>. QED BY <1>1, WithUsedNat DEF WriteHeader

\* heap_alloc leaves the heap's variables in their types, wherever the block
\* heap_get_free answered lies.
LEMMA PlaceType ==
  ASSUME TypeOK, NEW c \in Clients, NEW b \in Nat, NEW n \in Sizes,
         b < HeapWords, Place(c, b, n)
  PROVE  /\ mem' \in [Words -> Nat]
         /\ prev_alloc' \in 0 .. HeapMax
         /\ heap_used' \in Int
         /\ held' \in [Clients -> Blocks \cup {NoBlock}]
<1>1. n \in Nat /\ HeapMax \in Nat /\ HeapWords \in Nat
  BY HeapAssumption DEF HeapWords
<1>2. WriteHeader(b, n) \in [Words -> Nat]
  BY WriteHeaderType DEF TypeOK
<1>3. [ptr |-> b + HdrWords, size |-> n] \in Blocks
  BY <1>1 DEF Blocks
<1>. QED BY <1>1, <1>2, <1>3 DEF Place, TypeOK

LEMMA TypeStep == TypeOK /\ [Next]_vars => TypeOK'
<1>. SUFFICES ASSUME TypeOK, [Next]_vars PROVE TypeOK'
  OBVIOUS
<1>a. HeapMax \in Nat /\ HeapWords \in Nat /\ Sizes \subseteq Nat /\ 0 \in Words
  BY HeapAssumption DEF HeapWords, Words
<1>b. ASSUME cur < HeapWords
      PROVE  cur \in Words /\ SizeAt(cur) \in Nat /\ NextBlock(cur) \in Nat
  <2>1. cur \in Words /\ cur + 1 \in Words
    BY <1>a, <1>b, HeapAssumption DEF TypeOK, Words
  <2>2. SizeAt(cur) \in Nat
    BY <2>1 DEF TypeOK, SizeAt
  <2>. QED BY <2>1, <2>2 DEF TypeOK, NextBlock
<1>1. ASSUME NEW c \in Clients, NEW n \in Sizes, MallocEmpty(c, n) PROVE TypeOK'
  <2>1. prev_alloc \div WordBytes \in Nat
    BY <1>a DEF TypeOK
  <2>2. Place(c, prev_alloc \div WordBytes, n) /\ UNCHANGED <<pc, who, want, cur, prv>>
    BY <1>1 DEF MallocEmpty
  <2>3. CASE prev_alloc \div WordBytes < HeapWords
    BY <2>1, <2>2, <2>3, PlaceType DEF TypeOK
  <2>4. CASE ~(prev_alloc \div WordBytes < HeapWords)
    <3>1. prev_alloc + n + HdrBytes > HeapMax
      BY <1>a, <2>4, HeapAssumption DEF TypeOK, HeapWords
    <3>. QED BY <2>2, <3>1 DEF Place, TypeOK
  <2>. QED BY <2>3, <2>4
<1>2. ASSUME NEW c \in Clients, NEW n \in Sizes, MallocCall(c, n) PROVE TypeOK'
  BY <1>2 DEF MallocCall, TypeOK
<1>3. CASE ScanFound
  <2>1. want \in Sizes /\ who \in Clients /\ cur \in Nat /\ cur < HeapWords
    BY <1>3 DEF ScanFound, TypeOK
  <2>2. Place(who, cur, want) /\ Return
    BY <1>3 DEF ScanFound
  <2>. QED BY <2>1, <2>2, PlaceType DEF TypeOK, Return, NULL
<1>4. CASE ScanNext
  BY <1>4, <1>b DEF ScanNext, TypeOK
<1>5. CASE ScanEnd
  BY <1>5 DEF ScanEnd, Return, TypeOK
<1>6. ASSUME NEW c \in Clients, FreeCall(c) PROVE TypeOK'
  <2> DEFINE b == held[c].ptr - HdrWords
  <2>1. mem' \in [Words -> Nat]
    BY <1>6, WithUsedNat DEF FreeCall, TypeOK
  <2>2. heap_used' \in Int
    <3>1. CASE held[c] # NoBlock /\ HasMagic(b) /\ UsedAt(b)
      <4>1. b + 1 \in Words
        BY <1>a, <3>1, HeapAssumption, SMTT(30) DEF TypeOK, Blocks, Words
      <4>2. SizeAt(b) \in Nat
        BY <4>1 DEF TypeOK, SizeAt
      <4>. QED BY <1>6, <3>1, <4>2 DEF FreeCall, TypeOK
    <3>2. CASE ~(held[c] # NoBlock /\ HasMagic(b) /\ UsedAt(b))
      BY <1>6, <3>2 DEF FreeCall, TypeOK
    <3>. QED BY <3>1, <3>2
  <2>. QED BY <1>6, <2>1, <2>2 DEF FreeCall, TypeOK
<1>7. CASE MergeNext
  <2>1. cur \in Words /\ SizeAt(cur) \in Nat /\ NextBlock(cur) \in Nat
    BY <1>7, <1>b DEF MergeNext, InChain
  <2>2. mem' \in [Words -> Nat]
    <3>1. ASSUME prv + 1 \in Words PROVE MergedSize(prv, cur) \in Nat
      BY <2>1, <3>1 DEF TypeOK, MergedSize, SizeAt
    <3>2. mem' = mem \/ mem' = [mem EXCEPT ![prv + 1] = MergedSize(prv, cur)]
      BY <1>7 DEF MergeNext
    <3>. QED BY <3>1, <3>2 DEF TypeOK
  <2>. QED BY <1>7, <2>1, <2>2 DEF MergeNext, TypeOK
<1>8. CASE MergeEnd
  BY <1>8 DEF MergeEnd, Return, TypeOK
<1>9. ASSUME NEW c \in Clients, NEW v \in Data, NEW k \in 1 .. HeapWords, Store(c, k, v)
      PROVE  TypeOK'
  BY <1>9, HeapAssumption DEF Store, TypeOK
<1>10. CASE UNCHANGED vars
  BY <1>10 DEF vars, TypeOK
<1>. QED
  BY <1>1, <1>2, <1>3, <1>4, <1>5, <1>6, <1>7, <1>8, <1>9, <1>10 DEF Next, Loop

\* The variables keep their types, prev_alloc stays in the heap.
THEOREM HeapTypeCorrect == Spec => []TypeOK
BY TypeInit, TypeStep, PTL DEF Spec

-----------------------------------------------------------------------------

\* heap_alloc never gives a block of a refused size, and never lowers prev_alloc.
LEMMA PlaceExhaustion ==
  ASSUME TypeOK, NEW c \in Clients, NEW b \in Nat, NEW m \in Sizes, Place(c, b, m),
         NEW n \in Sizes, Refused(n)
  PROVE  /\ Refused(n)'
         /\ \A d \in Clients : held[d] = NoBlock => held'[d] = NoBlock \/ held'[d].size # n
<1>1. m \in Nat /\ n \in Nat /\ HeapMax \in Nat /\ prev_alloc \in Nat
  BY HeapAssumption DEF TypeOK
<1>2. CASE prev_alloc + m + HdrBytes > HeapMax
  BY <1>1, <1>2 DEF Place, Refused
<1>3. CASE ~(prev_alloc + m + HdrBytes > HeapMax)
  <2>1. m # n
    BY <1>3 DEF Refused
  <2>2. prev_alloc' = prev_alloc + m + HdrBytes
    BY <1>3 DEF Place
  <2>3. held' = [held EXCEPT ![c] = [ptr |-> b + HdrWords, size |-> m]]
    BY <1>3 DEF Place
  <2>4. Refused(n)'
    BY <1>1, <2>2 DEF Refused
  <2>5. ASSUME NEW d \in Clients, held[d] = NoBlock
        PROVE  held'[d] = NoBlock \/ held'[d].size # n
    BY <2>1, <2>3, <2>5 DEF TypeOK
  <2>. QED BY <2>4, <2>5
<1>. QED BY <1>2, <1>3

\* The space of freed blocks never comes back: exhaustion is permanent.
THEOREM HeapExhaustion == Spec => ExhaustionPermanent
<1> DEFINE A == \A n \in Sizes : Refused(n) =>
                  /\ Refused(n)'
                  /\ \A c \in Clients : held[c] = NoBlock =>
                       held'[c] = NoBlock \/ held'[c].size # n
<1>1. TypeOK /\ [Next]_vars => [A]_vars
  <2> SUFFICES ASSUME TypeOK, Next, NEW n \in Sizes, Refused(n)
               PROVE  /\ Refused(n)'
                      /\ \A d \in Clients : held[d] = NoBlock =>
                           held'[d] = NoBlock \/ held'[d].size # n
    OBVIOUS
  <2>1. ASSUME NEW c \in Clients, NEW m \in Sizes, MallocEmpty(c, m)
        PROVE  /\ Refused(n)'
               /\ \A d \in Clients : held[d] = NoBlock =>
                    held'[d] = NoBlock \/ held'[d].size # n
    <3>1. prev_alloc \div WordBytes \in Nat
      BY HeapAssumption DEF TypeOK
    <3>2. Place(c, prev_alloc \div WordBytes, m)
      BY <2>1 DEF MallocEmpty
    <3>. QED BY <3>1, <3>2, PlaceExhaustion
  <2>2. CASE ScanFound
    <3>1. want \in Sizes /\ who \in Clients /\ cur \in Nat /\ Place(who, cur, want)
      BY <2>2 DEF ScanFound, TypeOK
    <3>. QED BY <3>1, PlaceExhaustion
  <2>3. ASSUME NEW c \in Clients, FreeCall(c)
        PROVE  /\ Refused(n)'
               /\ \A d \in Clients : held[d] = NoBlock =>
                    held'[d] = NoBlock \/ held'[d].size # n
    <3>1. prev_alloc' = prev_alloc /\ held' = [held EXCEPT ![c] = NoBlock]
      BY <2>3 DEF FreeCall
    <3>. QED BY <3>1 DEF Refused, TypeOK
  <2>4. CASE UNCHANGED <<prev_alloc, held>>
    BY <2>4 DEF Refused
  <2>5. (\E c \in Clients, m \in Sizes : MallocCall(c, m)) \/ ScanNext \/ ScanEnd
          \/ MergeNext \/ MergeEnd
          \/ (\E c \in Clients, v \in Data, k \in 1 .. HeapWords : Store(c, k, v))
        => UNCHANGED <<prev_alloc, held>>
    BY DEF MallocCall, ScanNext, ScanEnd, MergeNext, MergeEnd, Store
  <2>. QED BY <2>1, <2>2, <2>3, <2>4, <2>5 DEF Next, Loop
<1>. QED BY <1>1, HeapTypeCorrect, PTL DEF Spec, ExhaustionPermanent

-----------------------------------------------------------------------------
\* The kernel's use of the heap

LEMMA SizeFacts ==
  /\ \A n \in Sizes : /\ n \in Nat /\ n > 0
                       /\ n \div 8 \in Nat /\ 8 * (n \div 8) <= n /\ n < 8 * (n \div 8) + 8
                       /\ PayloadWords(n) \in Nat /\ 8 * PayloadWords(n) < n + 8
                       /\ n \div 8 <= PayloadWords(n)
  /\ \A n \in BufferSizes : n \in Sizes /\ n % 8 = 0
<1>1. ASSUME NEW n \in Sizes
      PROVE  /\ n \in Nat /\ n > 0
             /\ n \div 8 \in Nat /\ 8 * (n \div 8) <= n /\ n < 8 * (n \div 8) + 8
             /\ PayloadWords(n) \in Nat /\ 8 * PayloadWords(n) < n + 8
             /\ n \div 8 <= PayloadWords(n)
  <2>1. n \in Nat /\ n > 0
    BY HeapAssumption
  <2>2. PICK q \in Nat : q = (n + 7) \div 8 /\ 8 * q <= n + 7
    BY <2>1
  <2>3. PayloadWords(n) = q
    <3>1. Align(n) = q * 8
      BY <2>1, <2>2 DEF Align
    <3>. QED BY <3>1, <2>2 DEF PayloadWords
  <2>4. PICK h \in Nat : h = n \div 8 /\ 8 * h <= n /\ n < 8 * h + 8
    BY <2>1
  <2>5. h <= q
    BY <2>1, <2>2, <2>4
  <2>. QED BY <2>1, <2>2, <2>3, <2>4, <2>5
<1>. QED BY <1>1, KernelHeapAssumption

LEMMA SizesFacts ==
  /\ HeapMax \in Nat /\ HeapWords \in Nat /\ 8 * HeapWords = HeapMax
  /\ MAGIC \in Nat /\ MAGIC > HeapMax /\ MAGIC % 256 > 1
  /\ \A x \in Nat : x < HeapWords => x \in Words /\ x + 1 \in Words /\ x + 2 \in Words
  /\ Scratch \in Clients /\ Scratch \notin Perms /\ Perms \subseteq Clients
  /\ \A c \in Clients : c # Scratch => c \in Perms
  /\ Words \subseteq Nat
BY HeapAssumption, KernelHeapAssumption DEF HeapWords, Words, Perms

\* The block of a live client, in words.
LEMMA BlockFacts ==
  ASSUME TypeOK, LiveInv, NEW c \in Clients, Live(c)
  PROVE  /\ Start(c) \in Nat /\ EndWhole(c) \in Nat
         /\ held[c].size \in Sizes
         /\ EndWhole(c) = Start(c) + 3 + held[c].size \div 8
         /\ Start(c) + 3 <= EndWhole(c)
         /\ 8 * EndWhole(c) <= prev_alloc
         /\ EndWhole(c) <= HeapWords /\ Start(c) < HeapWords
         /\ Start(c) \in Words /\ Start(c) + 1 \in Words /\ Start(c) + 2 \in Words
<1>1. PICK q \in Nat : q = held[c].ptr /\ q >= 3
  BY SizesFacts DEF TypeOK, Live, Blocks, LiveInv
<1>2. held[c].size \in Sizes /\ 8 * held[c].ptr + held[c].size <= prev_alloc
  BY DEF LiveInv
<1>3. PICK z \in Nat : z = held[c].size
  BY <1>2, SizeFacts
<1>4. PICK h \in Nat : h = z \div 8 /\ 8 * h <= z
  BY <1>3
<1>5. prev_alloc <= HeapMax /\ prev_alloc \in Nat
  BY SizesFacts DEF TypeOK
<1>6. Start(c) = q - 3 /\ EndWhole(c) = q + h
  BY <1>1, <1>3, <1>4 DEF Start, EndWhole
<1>7. 8 * (q + h) <= prev_alloc
  BY <1>1, <1>2, <1>3, <1>4, <1>5
<1>8. q - 3 \in Nat /\ q + h \in Nat /\ q + h <= HeapWords /\ q - 3 < HeapWords
  BY <1>1, <1>4, <1>5, <1>7, SizesFacts
<1>9. Start(c) \in Words /\ Start(c) + 1 \in Words /\ Start(c) + 2 \in Words
  BY <1>6, <1>8, SizesFacts
<1>. QED BY <1>1, <1>2, <1>3, <1>4, <1>6, <1>7, <1>8, <1>9

LEMMA NextTypes == KInv /\ [KNext]_kvars => TypeOK'
<1> SUFFICES ASSUME KInv, [KNext]_kvars PROVE TypeOK'
  OBVIOUS
<1>1. [Next]_vars
  BY SizesFacts, SizeFacts DEF KNext, kvars, Next, BootMalloc, BootDone, DebugMalloc, DebugFree,
                    KStore, KLoop
<1>. QED BY <1>1, TypeStep DEF KInv

LEMMA KInitInv == KInit => KInv
<1> SUFFICES ASSUME KInit PROVE KInv
  OBVIOUS
<1>1. TypeOK
  BY TypeInit DEF KInit
<1>2. \A c \in Clients : ~Live(c)
  BY DEF KInit, Init, Live
<1>3. prev_alloc = 0 /\ heap_used = 0 /\ pc = "idle" /\ mem = [i \in Words |-> 0]
  BY DEF KInit, Init
<1>4. \A x : Above(x)
  BY <1>2, SizesFacts DEF Above
<1>5. IsTop(0)
  BY <1>4 DEF IsTop
<1>6. ChainInv /\ LiveInv /\ BlocksApart
  BY <1>2, <1>5, SizesFacts DEF ChainInv, LiveInv, BlocksApart, OnChain
<1>7. HeaderInv
  BY <1>3, SizesFacts DEF HeaderInv
<1>8. BootInv
  BY <1>2, <1>3, <1>5, SizesFacts DEF BootInv
<1>9. WalkInv
  BY <1>3 DEF WalkInv
<1>. QED BY <1>1, <1>6, <1>7, <1>8, <1>9 DEF KInv

-----------------------------------------------------------------------------

\* There is only one top.
LEMMA TopUnique ==
  ASSUME KInv, NEW x \in Nat, NEW y \in Nat, IsTop(x), IsTop(y)
  PROVE  x = y
<1>1. \A p \in Perms : Live(p) => EndWhole(p) \in Nat
  BY BlockFacts, SizesFacts DEF KInv
<1>. QED BY <1>1 DEF IsTop, Above

\* The walk stops at a block only where no permanent block starts.
LEMMA FitsAbove ==
  ASSUME KInv, NEW x \in Nat, NEW n, Fits(x, n), OnChain(x) \/ Above(x)
  PROVE  Above(x) /\ (OnChain(x) => IsTop(x))
<1>1. ASSUME PermStart(x) PROVE FALSE
  <2>0. PICK p \in Perms : Live(p) /\ x = Start(p)
    BY <1>1 DEF PermStart
  <2>1. p \in Clients
    BY SizesFacts
  <2>2. /\ mem[x] = MAGIC /\ mem[x + 1] = held[p].size /\ mem[x + 2] % 256 = 1
    BY <2>0, <2>1 DEF KInv, LiveInv
  <2>3. held[p].size > 0
    BY <2>0, <2>1, BlockFacts, SizeFacts DEF KInv
  <2>. QED BY <2>2, <2>3 DEF Fits, HasMagic, SizeAt, UsedAt
<1>. QED BY <1>1 DEF OnChain, PermStart, IsTop

\* The parts of the invariant that say nothing of the walk.
HeapPart == BlocksApart /\ ChainInv /\ LiveInv /\ HeaderInv /\ BootInv

LEMMA HeapUnchanged ==
  ASSUME HeapPart, UNCHANGED <<mem, prev_alloc, heap_used, held, booted>>
  PROVE  HeapPart'
BY DEF HeapPart, BlocksApart, ChainInv, LiveInv, HeaderInv, BootInv, OnChain, PermStart,
       IsTop, Above, Live, Start, EndWhole

\* heap_alloc at a word above the permanent blocks keeps the invariant: this is
\* the one step that makes a block live.
LEMMA PlaceStep ==
  ASSUME KInv, TypeOK', NEW c \in Clients, NEW b \in Nat, NEW n \in Sizes,
         Place(c, b, n), ~Live(c), booted' = booted, pc' = "idle",
         8 * b <= prev_alloc, Above(b),
         booted => c = Scratch /\ n \in BufferSizes,
         ~booted => c \in Perms /\ IsTop(b)
  PROVE  KInv'
<1>1. CASE prev_alloc + n + 24 > HeapMax
  BY <1>1, HeapUnchanged DEF Place, WalkInv, KInv, HeapPart
<1>2. CASE ~(prev_alloc + n + 24 > HeapMax)
  <2>1. /\ prev_alloc' = prev_alloc + n + 24
        /\ heap_used' = heap_used + n + 24
        /\ mem' = WriteHeader(b, n)
        /\ held' = [held EXCEPT ![c] = [ptr |-> b + 3, size |-> n]]
    BY <1>2 DEF Place
  <2>2. /\ b < HeapWords
        /\ n \in Nat /\ n > 0 /\ n < MAGIC /\ prev_alloc \in Nat
    <3>1. prev_alloc \in Nat
      BY SizesFacts DEF KInv, TypeOK
    <3>2. n \in Nat /\ n > 0
      BY SizeFacts
    <3>. QED BY <1>2, <3>1, <3>2, SizesFacts
  \* what the step writes
  <2>3. /\ mem'[b] = MAGIC /\ mem'[b + 1] = n /\ mem'[b + 2] % 256 = 1
        /\ mem'[b + 1] # MAGIC /\ mem'[b + 2] # MAGIC
        /\ \A x \in Words : x # b /\ x # b + 1 /\ x # b + 2 => mem'[x] = mem[x]
    <3>1. /\ b \in Words /\ b + 1 \in Words /\ b + 2 \in Words
          /\ mem \in [Words -> Nat] /\ mem[b + 2] \in Nat
      BY <2>2, SizesFacts DEF KInv, TypeOK
    <3>2. WithUsed(mem[b + 2], 1) % 256 = 1
      BY <3>1 DEF WithUsed
    <3>3. /\ mem'[b] = MAGIC /\ mem'[b + 1] = n
          /\ mem'[b + 2] = WithUsed(mem[b + 2], 1)
          /\ \A x \in Words : x # b /\ x # b + 1 /\ x # b + 2 => mem'[x] = mem[x]
      BY <2>1, <3>1 DEF WriteHeader
    <3>. QED BY <2>2, <3>2, <3>3, SizesFacts
  \* the new block
  <2>4. /\ Live(c)' /\ Start(c)' = b /\ EndWhole(c)' = b + 3 + n \div 8
        /\ held'[c].ptr = b + 3 /\ held'[c].size = n
    <3>1. held'[c] = [ptr |-> b + 3, size |-> n]
      BY <2>1 DEF KInv, TypeOK
    <3>. QED BY <3>1 DEF Live, Start, EndWhole, NoBlock
  <2>5. n \div 8 \in Nat /\ 8 * (b + 3) + n <= prev_alloc'
    BY <2>1, <2>2
  \* the other blocks
  <2>6. ASSUME NEW d \in Clients, d # c
        PROVE  /\ Live(d)' <=> Live(d)
               /\ held'[d] = held[d] /\ Start(d)' = Start(d) /\ EndWhole(d)' = EndWhole(d)
    BY <2>1, <2>6 DEF KInv, TypeOK, Live, Start, EndWhole
  <2>7. ASSUME NEW d \in Clients, d # c, Live(d)
        PROVE  d \in Perms /\ EndWhole(d) <= b
    BY <2>7, SizesFacts DEF KInv, BootInv, Above
  <2>8. \A d \in Clients : Live(d) =>
          /\ Start(d) \in Nat /\ EndWhole(d) \in Nat /\ Start(d) + 3 <= EndWhole(d)
          /\ Start(d) \in Words /\ Start(d) + 1 \in Words /\ Start(d) + 2 \in Words
          /\ 8 * held[d].ptr + held[d].size <= prev_alloc
          /\ 8 * held[d].ptr + held[d].size \in Nat
    <3>1. ASSUME NEW d \in Clients, Live(d) PROVE 8 * held[d].ptr + held[d].size \in Nat
      <4>1. held[d].ptr \in Nat /\ held[d].size \in Nat
        BY <3>1, SizeFacts, SizesFacts DEF KInv, TypeOK, Live, Blocks
      <4>. QED BY <4>1
    <3>. QED BY <3>1, BlockFacts DEF KInv, LiveInv
  <2>9. BlocksApart'
    BY <2>4, <2>6, <2>7 DEF KInv, BlocksApart
  <2>10. LiveInv'
    <3>1. ASSUME NEW d \in Clients, Live(d)'
          PROVE  /\ held'[d].ptr >= 3
                 /\ held'[d].size \in Sizes
                 /\ 8 * held'[d].ptr + held'[d].size <= prev_alloc'
                 /\ mem'[Start(d)'] = MAGIC
                 /\ mem'[Start(d)' + 1] = held'[d].size
                 /\ mem'[Start(d)' + 2] % 256 = 1
      <4>1. CASE d = c
        BY <2>1, <2>2, <2>3, <2>4, <2>5, <4>1
      <4>2. CASE d # c
        <5>1. Live(d) /\ held'[d] = held[d] /\ Start(d)' = Start(d) /\ EndWhole(d)' = EndWhole(d)
          BY <2>6, <3>1, <4>2
        <5>2. /\ Start(d) \in Nat /\ EndWhole(d) <= b /\ Start(d) + 3 <= EndWhole(d) /\ EndWhole(d) \in Nat
              /\ Start(d) \in Words /\ Start(d) + 1 \in Words /\ Start(d) + 2 \in Words
          BY <2>7, <2>8, <4>2, <5>1
        <5>3. /\ mem'[Start(d)] = mem[Start(d)]
              /\ mem'[Start(d) + 1] = mem[Start(d) + 1]
              /\ mem'[Start(d) + 2] = mem[Start(d) + 2]
          BY <2>3, <5>2
        <5>4. /\ held[d].ptr >= 3 /\ held[d].size \in Sizes
              /\ 8 * held[d].ptr + held[d].size <= prev_alloc
              /\ 8 * held[d].ptr + held[d].size \in Nat
              /\ mem[Start(d)] = MAGIC /\ mem[Start(d) + 1] = held[d].size
              /\ mem[Start(d) + 2] % 256 = 1
          BY <2>8, <5>1 DEF KInv, LiveInv
        <5>. QED BY <2>1, <2>2, <5>1, <5>2, <5>3, <5>4
      <4>. QED BY <4>1, <4>2
    <3>. QED BY <3>1 DEF LiveInv
  <2>11. HeaderInv'
    <3>0. \A x : PermStart(x) => PermStart(x)'
      BY <2>6, SizesFacts DEF PermStart
    <3>1. ASSUME NEW x \in Words, x + 1 \in Words, mem'[x] = MAGIC
          PROVE  /\ 8 * x + 24 <= prev_alloc'
                 /\ \/ mem'[x + 1] >= MAGIC
                    \/ /\ mem'[x + 1] % 8 = 0 \/ PermStart(x)'
                       /\ 8 * x + 24 + mem'[x + 1] <= prev_alloc'
      <4>1. CASE x = b
        <5>1. n % 8 = 0 \/ PermStart(b)'
          <6>1. CASE booted
            BY <6>1, SizeFacts
          <6>2. CASE ~booted
            BY <2>4, <6>2 DEF PermStart
          <6>. QED BY <6>1, <6>2
        <5>2. 8 * b + 24 <= prev_alloc' /\ 8 * b + 24 + n <= prev_alloc'
          BY <2>1, <2>2
        <5>. QED BY <2>3, <4>1, <5>1, <5>2
      <4>2. CASE x # b
        <5>1. x \in Nat /\ x # b + 1 /\ x # b + 2 /\ mem[x] = MAGIC
          BY <2>3, <3>1, <4>2, SizesFacts
        <5>2. /\ 8 * x + 24 <= prev_alloc
              /\ \/ mem[x + 1] >= MAGIC
                 \/ /\ mem[x + 1] % 8 = 0 \/ PermStart(x)
                    /\ 8 * x + 24 + mem[x + 1] <= prev_alloc
          BY <3>1, <5>1 DEF KInv, HeaderInv
        <5>3. mem'[x + 1] = mem[x + 1] \/ mem'[x + 1] = MAGIC
          BY <2>3, <3>1, <4>2, <5>1
        <5>4. mem[x + 1] \in Nat
          BY <3>1 DEF KInv, TypeOK
        <5>5. 8 * x + 24 <= prev_alloc'
          BY <2>1, <2>2, <5>1, <5>2
        <5>6. CASE mem'[x + 1] = MAGIC
          BY <5>5, <5>6, SizesFacts
        <5>7. CASE mem'[x + 1] = mem[x + 1]
          <6>1. CASE mem[x + 1] >= MAGIC
            BY <5>5, <5>7, <6>1
          <6>2. CASE ~(mem[x + 1] >= MAGIC)
            <7>1. 8 * x + 24 + mem[x + 1] <= prev_alloc'
              BY <2>1, <2>2, <5>1, <5>2, <5>4, <6>2
            <7>2. mem[x + 1] % 8 = 0 \/ PermStart(x)
              BY <5>2, <6>2
            <7>. QED BY <3>0, <5>5, <5>7, <7>1, <7>2
          <6>. QED BY <6>1, <6>2
        <5>. QED BY <5>3, <5>6, <5>7
      <4>. QED BY <4>1, <4>2
    <3>. QED BY <3>1 DEF HeaderInv
  <2>12. ChainInv' /\ BootInv'
    <3>1. CASE booted
      <4>1. \A p \in Perms : /\ p # c /\ p \in Clients
                             /\ Live(p)' <=> Live(p)
                             /\ Start(p)' = Start(p) /\ EndWhole(p)' = EndWhole(p)
        BY <2>6, <3>1, SizesFacts
      <4>2. \A x : (Above(x)' <=> Above(x)) /\ (OnChain(x)' <=> OnChain(x))
        BY <4>1 DEF Above, OnChain, PermStart, IsTop
      <4>3. OnChain(0)'
        BY <4>2 DEF KInv, ChainInv
      <4>5. ASSUME NEW p \in Perms, Live(p)' PROVE OnChain(EndWhole(p))'
        <5>1. Live(p) /\ EndWhole(p)' = EndWhole(p) /\ OnChain(EndWhole(p))
          BY <4>1, <4>5 DEF KInv, ChainInv
        <5>. QED BY <4>1, <5>1 DEF OnChain, PermStart, Above, IsTop
      <4>4. Live(Scratch)' => Above(Start(Scratch))'
        BY <2>4, <3>1, <4>1, SizesFacts DEF Above
      <4>. QED BY <3>1, <4>3, <4>4, <4>5 DEF ChainInv, BootInv, OnChain, PermStart, Above, IsTop
    <3>2. CASE ~booted
      <4>. DEFINE e == b + 3 + n \div 8
      <4>1. c \in Perms /\ IsTop(b) /\ ~Live(Scratch)
        BY <3>2 DEF KInv, BootInv
      <4>2. heap_used = prev_alloc
        BY <3>2 DEF KInv, BootInv
      <4>3. e \in Nat /\ e >= b + 3
        BY <2>5
      <4>4. \A x \in Nat : Above(x)' <=> x >= e
        <5>1. ASSUME NEW x \in Nat, x >= e, NEW p \in Perms, Live(p)' PROVE EndWhole(p)' <= x
          <6>1. CASE p = c
            BY <2>4, <5>1, <6>1
          <6>2. CASE p # c
            BY <2>6, <2>7, <2>8, <4>3, <5>1, <6>2, SizesFacts
          <6>. QED BY <6>1, <6>2
        <5>2. ASSUME NEW x \in Nat, Above(x)' PROVE x >= e
          BY <2>4, <4>1, <5>2 DEF Above
        <5>. QED BY <5>1, <5>2 DEF Above
      <4>5. IsTop(e)'
        BY <2>4, <4>1, <4>3, <4>4 DEF IsTop
      <4>6. OnChain(b)'
        BY <2>4, <4>1 DEF OnChain, PermStart
      <4>7. ASSUME NEW x \in Nat, OnChain(x) PROVE OnChain(x)'
        <5>1. CASE IsTop(x)
          BY <4>1, <4>6, <4>7, <5>1, TopUnique
        <5>2. CASE PermStart(x)
          <6>1. PICK p \in Perms : Live(p) /\ x = Start(p)
            BY <5>2 DEF PermStart
          <6>2. p # c /\ p \in Clients
            BY <6>1, SizesFacts
          <6>. QED BY <2>6, <6>1, <6>2 DEF OnChain, PermStart
        <5>. QED BY <4>7, <5>1, <5>2 DEF OnChain
      <4>8. ASSUME NEW p \in Perms, Live(p)' PROVE OnChain(EndWhole(p))'
        <5>1. CASE p = c
          BY <2>4, <4>5, <5>1 DEF OnChain
        <5>2. CASE p # c
          <6>1. p \in Clients /\ Live(p) /\ EndWhole(p)' = EndWhole(p) /\ EndWhole(p) \in Nat
            BY <2>6, <2>8, <4>8, <5>2, SizesFacts
          <6>2. OnChain(EndWhole(p))
            BY <6>1 DEF KInv, ChainInv
          <6>. QED BY <4>7, <6>1, <6>2 DEF OnChain, PermStart, IsTop, Above
        <5>. QED BY <5>1, <5>2
      <4>9. OnChain(0)'
        BY <4>7 DEF KInv, ChainInv
      <4>10. ~Live(Scratch)'
        BY <2>6, <4>1, SizesFacts
      <4>11. heap_used' = prev_alloc'
        BY <2>1, <2>2, <4>2
      <4>12. ASSUME NEW x \in Words, Above(x)' PROVE mem'[x] # MAGIC
        <5>1. x \in Nat /\ x >= e
          BY <4>4, <4>12, SizesFacts
        <5>2. Above(x) /\ mem'[x] = mem[x]
          BY <2>2, <2>3, <2>6, <4>12, <5>1, SizesFacts DEF Above
        <5>. QED BY <3>2, <5>2 DEF KInv, BootInv
      <4>. QED BY <4>5, <4>8, <4>9, <4>10, <4>11, <4>12
               DEF ChainInv, BootInv, OnChain, PermStart, IsTop, Above
    <3>. QED BY <3>1, <3>2
  <2>. QED BY <2>9, <2>10, <2>11, <2>12 DEF KInv, WalkInv
<1>. QED BY <1>1, <1>2

-----------------------------------------------------------------------------

\* Where a walk that is at x goes next: it stays on the chain or above it, and
\* below prev_alloc while it is inside the heap.
LEMMA WalkStep ==
  ASSUME KInv, NEW x \in Nat, x < HeapWords, HasMagic(x),
         OnChain(x) \/ Above(x), 8 * x <= prev_alloc
  PROVE  /\ NextBlock(x) \in Nat
         /\ OnChain(NextBlock(x)) \/ Above(NextBlock(x))
         /\ PermStart(x) => OnChain(NextBlock(x))
         /\ NextBlock(x) < HeapWords =>
              /\ 8 * NextBlock(x) <= prev_alloc
              /\ PermStart(x) \/ (8 * NextBlock(x) = 8 * x + 24 + SizeAt(x) /\ SizeAt(x) % 8 = 0)
<1>1. /\ x \in Words /\ x + 1 \in Words /\ SizeAt(x) \in Nat /\ mem[x] = MAGIC
      /\ prev_alloc \in Nat
  BY SizesFacts DEF KInv, TypeOK, SizeAt, HasMagic
<1>2. NextBlock(x) \in Nat /\ NextBlock(x) >= x
  BY <1>1 DEF NextBlock
<1>3. \/ SizeAt(x) >= MAGIC
      \/ (SizeAt(x) % 8 = 0 \/ PermStart(x)) /\ 8 * x + 24 + SizeAt(x) <= prev_alloc
  BY <1>1 DEF KInv, HeaderInv, SizeAt
<1>4. ASSUME NextBlock(x) < HeapWords
      PROVE  /\ 8 * NextBlock(x) <= prev_alloc
             /\ PermStart(x) \/ (8 * NextBlock(x) = 8 * x + 24 + SizeAt(x) /\ SizeAt(x) % 8 = 0)
  <2>1. SizeAt(x) < MAGIC
    BY <1>1, <1>4, SizesFacts DEF NextBlock
  <2>2. (SizeAt(x) % 8 = 0 \/ PermStart(x)) /\ 8 * x + 24 + SizeAt(x) <= prev_alloc
    BY <1>1, <1>3, <2>1, SizesFacts
  <2>3. 8 * NextBlock(x) <= 8 * x + 24 + SizeAt(x)
    BY <1>1 DEF NextBlock
  <2>4. SizeAt(x) % 8 = 0 => 8 * NextBlock(x) = 8 * x + 24 + SizeAt(x)
    BY <1>1 DEF NextBlock
  <2>5. 8 * NextBlock(x) <= prev_alloc
    BY <1>1, <1>2, <2>2, <2>3
  <2>. QED BY <2>2, <2>4, <2>5
<1>5. ASSUME PermStart(x) PROVE OnChain(NextBlock(x))
  <2>0. PICK p \in Perms : Live(p) /\ x = Start(p)
    BY <1>5 DEF PermStart
  <2>1. /\ p \in Clients /\ SizeAt(x) = held[p].size
        /\ EndWhole(p) = x + 3 + held[p].size \div 8 /\ EndWhole(p) \in Nat
    BY <2>0, SizesFacts, BlockFacts DEF KInv, LiveInv, SizeAt
  <2>2. NextBlock(x) = EndWhole(p)
    BY <1>1, <2>1 DEF NextBlock
  <2>. QED BY <2>0, <2>2 DEF KInv, ChainInv
<1>6. ASSUME Above(x) PROVE Above(NextBlock(x))
  <2>1. \A p \in Perms : Live(p) => EndWhole(p) \in Nat
    BY BlockFacts, SizesFacts DEF KInv
  <2>. QED BY <1>2, <1>6, <2>1 DEF Above
<1>. QED BY <1>2, <1>4, <1>5, <1>6 DEF OnChain, PermStart, IsTop

-----------------------------------------------------------------------------

LEMMA MallocEmptyStep ==
  ASSUME KInv, TypeOK', NEW c \in Clients, NEW n \in Sizes,
         MallocEmpty(c, n), booted' = booted, IF booted THEN c = Scratch /\ n \in BufferSizes ELSE c \in Perms
  PROVE  KInv'
<1> DEFINE b == prev_alloc \div 8
<1>1. prev_alloc \in Nat /\ b \in Nat /\ 8 * b <= prev_alloc
  BY SizesFacts DEF KInv, TypeOK
<1>2. Place(c, b, n) /\ ~Live(c) /\ pc' = "idle"
  BY DEF MallocEmpty, Live
<1>3. Above(b)
  <2>1. \A p \in Perms : Live(p) => EndWhole(p) \in Nat /\ 8 * EndWhole(p) <= prev_alloc
    BY BlockFacts, SizesFacts DEF KInv
  <2>2. \A p \in Perms : Live(p) => EndWhole(p) <= b
    BY <1>1, <2>1
  <2>. QED BY <2>2 DEF Above
<1>4. ASSUME ~booted PROVE IsTop(b)
  <2>1. prev_alloc = 0
    BY <1>4 DEF MallocEmpty, KInv, BootInv
  <2>2. b = 0
    BY <2>1
  <2>. QED BY <1>3, <2>2 DEF IsTop
<1>. HIDE DEF b
<1>. QED BY <1>1, <1>2, <1>3, <1>4, PlaceStep

LEMMA MallocCallStep ==
  ASSUME KInv, TypeOK', NEW c \in Clients, NEW n \in Sizes,
         MallocCall(c, n), booted' = booted, IF booted THEN c = Scratch /\ n \in BufferSizes ELSE c \in Perms
  PROVE  KInv'
<1>1. HeapPart'
  BY HeapUnchanged DEF MallocCall, KInv, HeapPart
<1>2. OnChain(0)'
  BY <1>1 DEF HeapPart, ChainInv
<1>3. /\ pc' = "scan" /\ who' = c /\ want' = n /\ cur' = 0 /\ ~Live(c)'
      /\ prev_alloc' \in Nat
  BY SizesFacts DEF MallocCall, Live, TypeOK
<1>4. OnChain(cur)'
  BY <1>2, <1>3 DEF OnChain, PermStart, IsTop, Above
<1>5. ~Live(who)'
  BY <1>3 DEF Live
<1>6. WalkInv'
  BY <1>3, <1>4, <1>5 DEF WalkInv
<1>. QED BY <1>1, <1>6 DEF KInv, HeapPart

LEMMA ScanFoundStep ==
  ASSUME KInv, TypeOK', ScanFound, booted' = booted
  PROVE  KInv'
<1>1. /\ pc = "scan" /\ cur < HeapWords /\ Fits(cur, want) /\ Place(who, cur, want)
      /\ pc' = "idle"
  BY DEF ScanFound, Return
<1>2. /\ cur \in Nat /\ who \in Clients /\ want \in Sizes /\ ~Live(who)
      /\ OnChain(cur) \/ Above(cur)
      /\ 8 * cur <= prev_alloc
      /\ IF booted THEN who = Scratch /\ want \in BufferSizes ELSE who \in Perms /\ OnChain(cur)
  BY <1>1 DEF KInv, TypeOK, WalkInv
<1>3. Above(cur) /\ (OnChain(cur) => IsTop(cur))
  BY <1>1, <1>2, FitsAbove
<1>. QED BY <1>1, <1>2, <1>3, PlaceStep

LEMMA ScanNextStep ==
  ASSUME KInv, TypeOK', ScanNext, booted' = booted
  PROVE  KInv'
<1>1. /\ pc = "scan" /\ cur < HeapWords /\ ~Fits(cur, want) /\ cur' = NextBlock(cur)
      /\ UNCHANGED <<mem, prev_alloc, heap_used, held, pc, who, want, prv>>
  BY DEF ScanNext
<1>2. cur \in Nat /\ HasMagic(cur)
  BY <1>1 DEF KInv, TypeOK, Fits
<1>3. HeapPart'
  BY <1>1, HeapUnchanged DEF KInv, HeapPart
<1>4. /\ OnChain(cur) \/ Above(cur)
      /\ 8 * cur <= prev_alloc
  BY <1>1 DEF KInv, WalkInv
<1>5. /\ OnChain(NextBlock(cur)) \/ Above(NextBlock(cur))
      /\ NextBlock(cur) < HeapWords => 8 * NextBlock(cur) <= prev_alloc
      /\ PermStart(cur) => OnChain(NextBlock(cur))
  BY <1>1, <1>2, <1>4, WalkStep
<1>6. ~booted => OnChain(NextBlock(cur))
  <2>1. ASSUME ~booted, IsTop(cur) PROVE FALSE
    <3>1. cur \in Words
      BY <1>1, <1>2, SizesFacts
    <3>. QED BY <1>2, <2>1, <3>1 DEF KInv, BootInv, IsTop, HasMagic
  <2>. QED BY <1>1, <1>5, <2>1 DEF KInv, WalkInv, OnChain
<1>7. /\ OnChain(cur)' \/ Above(cur)'
      /\ ~booted' => OnChain(cur)'
  BY <1>1, <1>5, <1>6 DEF OnChain, PermStart, IsTop, Above, Live, Start, EndWhole
<1>8. WalkInv'
  BY <1>1, <1>5, <1>7 DEF KInv, WalkInv, Live
<1>. QED BY <1>3, <1>8 DEF KInv, HeapPart

LEMMA ReturnStep ==
  ASSUME KInv, TypeOK', ScanEnd \/ MergeEnd, booted' = booted
  PROVE  KInv'
<1>1. HeapPart' /\ pc' = "idle"
  BY HeapUnchanged DEF KInv, HeapPart, ScanEnd, MergeEnd, Return
<1>. QED BY <1>1 DEF KInv, HeapPart, WalkInv

-----------------------------------------------------------------------------

LEMMA FreeStep ==
  ASSUME KInv, TypeOK', FreeCall(Scratch), booted, booted' = booted
  PROVE  KInv'
<1> DEFINE b == held[Scratch].ptr - 3
<1>1. /\ prev_alloc' = prev_alloc
      /\ held' = [held EXCEPT ![Scratch] = NoBlock]
      /\ pc' = "merge" /\ cur' = 0 /\ prv' = NULL
  BY DEF FreeCall
<1>2. /\ ~Live(Scratch)'
      /\ \A p \in Perms : /\ Live(p)' <=> Live(p)
                          /\ held'[p] = held[p]
                          /\ Start(p)' = Start(p) /\ EndWhole(p)' = EndWhole(p)
      /\ \A x : PermStart(x)' <=> PermStart(x)
  BY <1>1, SizesFacts DEF KInv, TypeOK, Live, Start, EndWhole, PermStart
<1>3. \A p \in Perms : p \in Clients /\ p # Scratch
  BY SizesFacts
\* the one word free() writes is the used flag of the scratch block
<1>4. ASSUME ~Live(Scratch) PROVE LiveInv' /\ HeaderInv'
  <2>1. mem' = mem
    BY <1>4 DEF FreeCall, Live
  <2>2. LiveInv' /\ HeaderInv'
    BY <1>1, <1>2, <1>3, <2>1, SizesFacts DEF KInv, LiveInv, HeaderInv
  <2>. QED BY <2>2
<1>5. ASSUME Live(Scratch) PROVE LiveInv' /\ HeaderInv'
  <2>1. /\ b \in Nat /\ b \in Words /\ b + 1 \in Words /\ b + 2 \in Words
        /\ b = Start(Scratch) /\ Above(b)
        /\ mem[b] = MAGIC /\ mem[b + 1] = held[Scratch].size /\ mem[b + 2] % 256 = 1
        /\ held[Scratch].size < MAGIC /\ held[Scratch].size \in Nat
    <3>1. /\ Start(Scratch) \in Words /\ Start(Scratch) + 1 \in Words
          /\ Start(Scratch) + 2 \in Words /\ Start(Scratch) \in Nat
          /\ held[Scratch].size \in Sizes
          /\ 8 * held[Scratch].ptr + held[Scratch].size <= prev_alloc
          /\ held[Scratch].ptr \in Nat /\ prev_alloc \in Nat /\ prev_alloc <= HeapMax
      <4>1. held[Scratch].ptr \in Nat /\ prev_alloc \in Nat /\ prev_alloc <= HeapMax
        BY <1>5, SizesFacts DEF KInv, TypeOK, Live, Blocks
      <4>2. 8 * held[Scratch].ptr + held[Scratch].size <= prev_alloc
        BY <1>5, SizesFacts DEF KInv, LiveInv
      <4>. QED BY <1>5, <4>1, <4>2, BlockFacts, SizesFacts DEF KInv
    <3>2. held[Scratch].size \in Nat
      BY <3>1, SizeFacts
    <3>3. held[Scratch].size < MAGIC
      BY <3>1, <3>2, SizesFacts
    <3>4. b = Start(Scratch) /\ Above(b)
      BY <1>5 DEF KInv, ChainInv, Start
    <3>5. mem[b] = MAGIC /\ mem[b + 1] = held[Scratch].size /\ mem[b + 2] % 256 = 1
      BY <1>5, <3>4, SizesFacts DEF KInv, LiveInv
    <3>. QED BY <3>1, <3>2, <3>3, <3>4, <3>5
  <2>2. mem' = [mem EXCEPT ![b + 2] = WithUsed(@, 0)]
    BY <1>5, <2>1 DEF FreeCall, Live, HasMagic, UsedAt
  <2>3. mem \in [Words -> Nat]
    BY DEF KInv, TypeOK
  <2>4. /\ mem'[b + 2] # MAGIC
        /\ \A x \in Words : x # b + 2 => mem'[x] = mem[x]
    <3>1. mem[b + 2] \in Nat
      BY <2>1, <2>3
    <3>2. WithUsed(mem[b + 2], 0) % 256 = 0
      BY <3>1 DEF WithUsed
    <3>. QED BY <2>1, <2>2, <2>3, <3>2, SizesFacts
  <2>5. LiveInv'
    <3>1. ASSUME NEW p \in Perms, Live(p)
          PROVE  /\ mem'[Start(p)] = mem[Start(p)]
                 /\ mem'[Start(p) + 1] = mem[Start(p) + 1]
                 /\ mem'[Start(p) + 2] = mem[Start(p) + 2]
      <4>1. /\ Start(p) \in Nat /\ Start(p) + 3 <= EndWhole(p) /\ EndWhole(p) <= b /\ EndWhole(p) \in Nat
            /\ Start(p) \in Words /\ Start(p) + 1 \in Words /\ Start(p) + 2 \in Words
        BY <1>3, <2>1, <3>1, BlockFacts DEF KInv, Above
      <4>. QED BY <2>1, <2>4, <4>1
    <3>. QED BY <1>1, <1>2, <1>3, <3>1, SizesFacts DEF KInv, LiveInv
  <2>6. HeaderInv'
    <3>1. ASSUME NEW x \in Words, x + 1 \in Words, mem'[x] = MAGIC
          PROVE  mem[x] = MAGIC /\ mem'[x + 1] = mem[x + 1]
      <4>1. x # b + 2 /\ mem[x] = MAGIC /\ x \in Nat
        BY <2>4, <3>1, SizesFacts
      <4>2. x # b + 1
        BY <2>1, <4>1
      <4>. QED BY <2>1, <2>4, <3>1, <4>1, <4>2
    <3>. QED BY <1>1, <1>2, <3>1 DEF KInv, HeaderInv
  <2>. QED BY <2>5, <2>6
<1>6. BlocksApart'
  BY <1>2, <1>3, SizesFacts DEF KInv, BlocksApart
<1>7. /\ OnChain(0)'
      /\ \A p \in Perms : Live(p)' => OnChain(EndWhole(p))'
  <2>1. OnChain(0)'
    BY <1>2 DEF KInv, ChainInv, OnChain, PermStart, IsTop, Above
  <2>2. ASSUME NEW p \in Perms, Live(p)' PROVE OnChain(EndWhole(p))'
    <3>1. Live(p) /\ EndWhole(p)' = EndWhole(p) /\ OnChain(EndWhole(p))
      BY <1>2, <2>2 DEF KInv, ChainInv
    <3>. QED BY <1>2, <3>1 DEF OnChain, PermStart, IsTop, Above
  <2>. QED BY <2>1, <2>2
<1>8. ChainInv'
  BY <1>2, <1>7 DEF ChainInv
<1>9. BootInv'
  BY DEF BootInv
<1>10. WalkInv'
  <2>1. OnChain(cur)'
    BY <1>1, <1>7 DEF OnChain, PermStart, IsTop, Above
  <2>2. prev_alloc' \in Nat
    BY SizesFacts DEF TypeOK
  <2>. QED BY <1>1, <1>2, <2>1, <2>2 DEF WalkInv
<1>. QED BY <1>4, <1>5, <1>6, <1>8, <1>9, <1>10 DEF KInv

LEMMA StoreStep ==
  ASSUME KInv, TypeOK', booted' = booted,
         NEW c \in Clients, NEW v \in Data, NEW k \in 1 .. HeapWords, KStore(c, k, v)
  PROVE  KInv'
<1> DEFINE p0 == held[c].ptr
<1>1. /\ Live(c) /\ pc = "idle"
      /\ mem' = [i \in Words |-> IF i >= p0 /\ i < p0 + k THEN v ELSE mem[i]]
      /\ \/ k <= held[c].size \div 8
         \/ ~booted /\ Above(EndWhole(c))
      /\ UNCHANGED <<prev_alloc, heap_used, held, pc, who, want, cur, prv>>
  BY DEF KStore, Store, Live
<1>2. /\ p0 \in Nat /\ Start(c) \in Nat /\ p0 = Start(c) + 3
      /\ EndWhole(c) \in Nat /\ k \in Nat
      /\ p0 + k <= EndWhole(c) \/ (~booted /\ Above(EndWhole(c)))
  <2>1. /\ Start(c) \in Nat /\ EndWhole(c) \in Nat /\ held[c].size \div 8 \in Nat
        /\ EndWhole(c) = Start(c) + 3 + held[c].size \div 8
    BY <1>1, BlockFacts, SizeFacts DEF KInv
  <2>3. p0 \in Nat /\ p0 = Start(c) + 3
    <3>1. held[c].ptr \in Nat
      BY <1>1, SizesFacts DEF KInv, TypeOK, Blocks, Live
    <3>. QED BY <3>1 DEF Start
  <2>. QED BY <1>1, <2>1, <2>3, SizesFacts
<1>3. v # MAGIC
  BY HeapAssumption
<1>4. \A x \in Words : /\ mem'[x] = MAGIC => mem[x] = MAGIC
                       /\ x < p0 \/ x >= p0 + k => mem'[x] = mem[x]
  <2>1. \A x \in Words : mem'[x] = IF x >= p0 /\ x < p0 + k THEN v ELSE mem[x]
    BY <1>1
  <2>2. p0 \in Nat /\ k \in Nat /\ Words \subseteq Nat
    BY <1>2, SizesFacts
  <2>. HIDE DEF p0
  <2>3. ASSUME NEW x \in Words PROVE mem'[x] = MAGIC => mem[x] = MAGIC
    BY <1>3, <2>1
  <2>4. ASSUME NEW x \in Words, x < p0 \/ x >= p0 + k PROVE mem'[x] = mem[x]
    BY <2>1, <2>2, <2>4
  <2>. QED BY <2>3, <2>4
<1>5. \A d \in Clients : /\ Live(d)' <=> Live(d)
                         /\ held'[d] = held[d] /\ Start(d)' = Start(d) /\ EndWhole(d)' = EndWhole(d)
  BY <1>1 DEF Live, Start, EndWhole
<1>5a. \A x : PermStart(x)' <=> PermStart(x)
  BY <1>5, SizesFacts DEF PermStart
<1>6. BlocksApart'
  BY <1>5 DEF KInv, BlocksApart
<1>7. LiveInv'
  <2>1. ASSUME NEW d \in Clients, Live(d)
        PROVE  /\ mem'[Start(d)] = mem[Start(d)]
               /\ mem'[Start(d) + 1] = mem[Start(d) + 1]
               /\ mem'[Start(d) + 2] = mem[Start(d) + 2]
    <3>1. /\ Start(d) \in Nat /\ Start(d) + 3 <= EndWhole(d) /\ EndWhole(d) \in Nat
          /\ Start(d) \in Words /\ Start(d) + 1 \in Words /\ Start(d) + 2 \in Words
      BY <2>1, BlockFacts DEF KInv
    <3>2. d = c \/ EndWhole(d) <= Start(c) \/ EndWhole(c) <= Start(d)
      BY <1>1, <2>1 DEF KInv, BlocksApart
    <3>3. CASE p0 + k <= EndWhole(c)
      BY <1>2, <1>4, <3>1, <3>2, <3>3
    \* the tail of the last block
    <3>4. CASE ~booted /\ Above(EndWhole(c))
      <4>1. d \in Perms
        BY <2>1, <3>4, SizesFacts DEF KInv, BootInv
      <4>2. EndWhole(d) <= EndWhole(c)
        BY <2>1, <3>4, <4>1 DEF Above
      <4>3. Start(d) + 2 < p0
        BY <1>2, <3>1, <3>2, <4>2
      <4>. QED BY <1>2, <1>4, <3>1, <4>3
    <3>. QED BY <1>2, <3>3, <3>4
  <2>. QED BY <1>1, <1>5, <2>1 DEF KInv, LiveInv
<1>8. HeaderInv'
  <2>1. ASSUME NEW x \in Words, x + 1 \in Words, mem'[x] = MAGIC
        PROVE  mem[x] = MAGIC /\ mem'[x + 1] = mem[x + 1]
    <3>1. mem[x] = MAGIC /\ x \in Nat
      BY <1>4, <2>1, SizesFacts
    <3>2. x < p0 \/ x >= p0 + k
      BY <1>1, <1>2, <1>3, <2>1, <3>1
    <3>3. x + 1 # p0
      <4>1. mem[Start(c) + 2] % 256 = 1
        BY <1>1 DEF KInv, LiveInv
      <4>2. mem[Start(c) + 2] # MAGIC
        BY <4>1, SizesFacts
      <4>. QED BY <1>2, <3>1, <4>2
    <3>. QED BY <1>2, <1>4, <2>1, <3>1, <3>2, <3>3
  <2>. QED BY <1>1, <1>5a, <2>1 DEF KInv, HeaderInv
<1>9. \A p \in Perms : p \in Clients
  BY SizesFacts
<1>10. ChainInv'
  <2>1. OnChain(0)'
    BY <1>5, <1>9 DEF KInv, ChainInv, OnChain, PermStart, IsTop, Above
  <2>2. ASSUME NEW p \in Perms, Live(p)' PROVE OnChain(EndWhole(p))'
    <3>1. Live(p) /\ EndWhole(p)' = EndWhole(p) /\ OnChain(EndWhole(p))
      BY <1>5, <1>9, <2>2 DEF KInv, ChainInv
    <3>. QED BY <1>5, <1>9, <3>1 DEF OnChain, PermStart, IsTop, Above
  <2>3. Live(Scratch)' => Above(Start(Scratch))'
    BY <1>5, <1>9, SizesFacts DEF KInv, ChainInv, Above
  <2>. QED BY <2>1, <2>2, <2>3 DEF ChainInv
<1>11. BootInv'
  <2> SUFFICES ASSUME ~booted PROVE BootInv'
    BY DEF BootInv
  <2>1. c \in Perms /\ ~Live(Scratch)'
    BY <1>1, <1>5, SizesFacts DEF KInv, BootInv
  <2>3. ASSUME NEW x \in Words, Above(x)' PROVE mem'[x] # MAGIC
    <3>1. Above(x)
      BY <1>5, <1>9, <2>3 DEF Above
    <3>. QED BY <1>4, <3>1 DEF KInv, BootInv
  <2>. QED BY <1>1, <2>1, <2>3 DEF KInv, BootInv
<1>12. WalkInv'
  BY <1>1 DEF WalkInv
<1>. QED BY <1>6, <1>7, <1>8, <1>10, <1>11, <1>12 DEF KInv

\* One iteration of heap_merge_blocks: a merge adds to the size of an unused
\* block, which is above the permanent ones, exactly what leads past the next.
LEMMA MergeStep ==
  ASSUME KInv, TypeOK', MergeNext, booted' = booted
  PROVE  KInv'
<1>1. /\ pc = "merge" /\ cur < HeapWords /\ HasMagic(cur)
      /\ cur' = NextBlock(cur)
      /\ UNCHANGED <<prev_alloc, heap_used, held, pc, who, want>>
  BY DEF MergeNext, InChain
<1>2. /\ cur \in Nat /\ cur \in Words /\ 8 * cur <= prev_alloc
      /\ OnChain(cur) \/ Above(cur)
      /\ booted /\ ~Live(Scratch)
      /\ prv \in Words \cup {NULL}
  BY <1>1, SizesFacts DEF KInv, TypeOK, WalkInv
<1>3. /\ NextBlock(cur) \in Nat
      /\ OnChain(NextBlock(cur)) \/ Above(NextBlock(cur))
      /\ NextBlock(cur) < HeapWords => 8 * NextBlock(cur) <= prev_alloc
  BY <1>1, <1>2, WalkStep
<1>4. CASE ~Mergeable
  <2>1. mem' = mem /\ prv' = cur
    BY <1>4 DEF MergeNext
  <2>2. HeapPart'
    BY <1>1, <2>1, HeapUnchanged DEF KInv, HeapPart
  <2>3. \A x : (OnChain(x)' <=> OnChain(x)) /\ (Above(x)' <=> Above(x))
    BY <1>1 DEF OnChain, PermStart, IsTop, Above, Live, Start, EndWhole
  <2>4. /\ OnChain(cur)' \/ Above(cur)'
        /\ OnChain(prv)' \/ Above(prv)'
        /\ NextBlock(prv)' = NextBlock(cur)
    BY <1>1, <1>2, <1>3, <2>1 DEF OnChain, PermStart, IsTop, Above, Live, Start, EndWhole, NextBlock, SizeAt
  <2>5. WalkInv'
    BY <1>1, <1>2, <1>3, <2>1, <2>4 DEF WalkInv, Live, HasMagic
  <2>. QED BY <2>2, <2>5 DEF KInv, HeapPart
<1>5. CASE Mergeable
  <2>1. /\ mem' = [mem EXCEPT ![prv + 1] = SizeAt(prv) + SizeAt(cur) + 24]
        /\ prv' = prv /\ prv # NULL /\ ~UsedAt(prv) /\ ~UsedAt(cur)
    BY <1>5 DEF MergeNext, Mergeable, MergedSize
  <2> DEFINE s == SizeAt(prv)
             z == SizeAt(cur)
  <2>2. /\ prv \in Nat /\ prv \in Words /\ prv + 1 \in Words /\ prv < HeapWords
        /\ mem[prv] = MAGIC /\ cur = NextBlock(prv)
        /\ OnChain(prv) \/ Above(prv)
        /\ s \in Nat /\ z \in Nat /\ mem \in [Words -> Nat] /\ prev_alloc \in Nat
    <3>1. /\ prv \in Words /\ mem[prv] = MAGIC /\ cur = NextBlock(prv)
          /\ OnChain(prv) \/ Above(prv)
      BY <1>1, <1>2, <2>1 DEF KInv, WalkInv
    <3>2. mem \in [Words -> Nat] /\ prev_alloc \in Nat /\ cur + 1 \in Words /\ z \in Nat
      BY <1>1, <1>2, SizesFacts DEF KInv, TypeOK, SizeAt
    <3>3. prv \in Nat /\ prv + 1 \in Words
      BY <3>1, SizesFacts, <2>1 DEF Mergeable, MergeNext, KInv, TypeOK, Words
    <3>. QED BY <1>1, <3>1, <3>2, <3>3, SizesFacts DEF NextBlock, SizeAt
  <2>3. Above(prv) /\ ~PermStart(prv) /\ ~PermStart(cur)
    <3>1. ASSUME NEW x, PermStart(x) PROVE UsedAt(x)
      <4>1. PICK p \in Perms : Live(p) /\ x = Start(p)
        BY <3>1 DEF PermStart
      <4>. QED BY <4>1, SizesFacts DEF KInv, LiveInv, UsedAt
    <3>2. ~PermStart(prv) /\ ~PermStart(cur)
      BY <2>1, <3>1
    <3>. QED BY <2>2, <3>2 DEF OnChain, PermStart, IsTop
  <2>4. 8 * prv <= prev_alloc
    BY <2>2 DEF KInv, HeaderInv
  <2>5. 8 * cur = 8 * prv + 24 + s /\ s % 8 = 0
    BY <1>1, <2>2, <2>3, <2>4, WalkStep DEF HasMagic
  <2>6. z >= MAGIC \/ (z % 8 = 0 /\ 8 * cur + 24 + z <= prev_alloc)
    <3>1. cur + 1 \in Words
      BY <1>1, <1>2, SizesFacts
    <3>. QED BY <1>1, <1>2, <2>3, <3>1 DEF KInv, HeaderInv, SizeAt, HasMagic
  <2>7. /\ mem'[prv + 1] = s + z + 24
        /\ \A x \in Words : x # prv + 1 => mem'[x] = mem[x]
    BY <2>1, <2>2 DEF SizeAt
  <2>8. /\ \/ s + z + 24 > MAGIC
           \/ /\ (s + z + 24) % 8 = 0
              /\ 8 * prv + 24 + s + z + 24 <= prev_alloc
        /\ s + z + 24 # MAGIC
    <3>1. prev_alloc <= HeapMax
      BY SizesFacts DEF KInv, TypeOK
    <3>2. CASE z >= MAGIC
      BY <2>2, <3>2, SizesFacts
    <3>3. CASE z % 8 = 0 /\ 8 * cur + 24 + z <= prev_alloc
      <4>1. (s + z + 24) % 8 = 0
        BY <2>2, <2>5, <3>3
      <4>2. 8 * prv + 24 + s + z + 24 <= prev_alloc
        BY <1>2, <2>2, <2>5, <3>3
      <4>3. s + z + 24 < MAGIC
        BY <2>2, <3>1, <4>2, SizesFacts
      <4>. QED BY <2>2, <4>1, <4>2, <4>3, SizesFacts
    <3>. QED BY <2>6, <3>2, <3>3
  <2>9. HeaderInv'
    <3>0. \A x : PermStart(x)' <=> PermStart(x)
      BY <1>1 DEF PermStart, Live, Start
    <3>1. ASSUME NEW x \in Words, x + 1 \in Words, mem'[x] = MAGIC
          PROVE  /\ 8 * x + 24 <= prev_alloc'
                 /\ \/ mem'[x + 1] >= MAGIC
                    \/ /\ mem'[x + 1] % 8 = 0 \/ PermStart(x)
                       /\ 8 * x + 24 + mem'[x + 1] <= prev_alloc'
      <4>1. x \in Nat /\ x # prv + 1 /\ mem[x] = MAGIC
        BY <2>7, <2>8, <3>1, SizesFacts
      <4>2. /\ 8 * x + 24 <= prev_alloc
            /\ \/ mem[x + 1] >= MAGIC
               \/ /\ mem[x + 1] % 8 = 0 \/ PermStart(x)
                  /\ 8 * x + 24 + mem[x + 1] <= prev_alloc
        BY <3>1, <4>1 DEF KInv, HeaderInv
      <4>3. CASE x = prv
        <5>1. mem'[x + 1] = s + z + 24
          BY <2>7, <4>3
        <5>. QED BY <1>1, <2>2, <2>8, <4>2, <4>3, <5>1, SizesFacts
      <4>4. CASE x # prv
        <5>1. mem'[x + 1] = mem[x + 1]
          BY <2>2, <2>7, <3>1, <4>1, <4>4
        <5>. QED BY <1>1, <4>2, <5>1
      <4>. QED BY <4>3, <4>4
    <3>. QED BY <3>0, <3>1 DEF HeaderInv
  <2>10. LiveInv'
    <3>1. ASSUME NEW d \in Clients, Live(d)
          PROVE  /\ mem'[Start(d)] = mem[Start(d)]
                 /\ mem'[Start(d) + 1] = mem[Start(d) + 1]
                 /\ mem'[Start(d) + 2] = mem[Start(d) + 2]
      <4>1. d \in Perms /\ EndWhole(d) <= prv
        BY <1>2, <2>3, <3>1, SizesFacts DEF Above
      <4>2. /\ Start(d) \in Nat /\ Start(d) + 3 <= EndWhole(d) /\ EndWhole(d) \in Nat
            /\ Start(d) \in Words /\ Start(d) + 1 \in Words /\ Start(d) + 2 \in Words
        BY <3>1, BlockFacts DEF KInv
      <4>. QED BY <2>2, <2>7, <4>1, <4>2
    <3>. QED BY <1>1, <3>1 DEF KInv, LiveInv, Live, Start, EndWhole
  <2>11. BlocksApart' /\ ChainInv' /\ BootInv'
    BY <1>1, <1>2 DEF KInv, BlocksApart, ChainInv, BootInv, OnChain, PermStart, IsTop, Above,
                      Live, Start, EndWhole
  <2>12. WalkInv'
    <3>1. NextBlock(prv)' = NextBlock(cur)
      <4>1. NextBlock(prv)' = prv + (s + z + 24 + 24) \div 8
        BY <2>1, <2>7 DEF NextBlock, SizeAt
      <4>2. prv + (s + z + 24 + 24) \div 8 = cur + (z + 24) \div 8
        BY <1>2, <2>2, <2>5
      <4>. QED BY <4>1, <4>2 DEF NextBlock
    <3>2. mem'[prv] = MAGIC
      BY <2>2, <2>7
    <3>3. /\ OnChain(cur)' \/ Above(cur)'
          /\ OnChain(prv)' \/ Above(prv)'
      BY <1>1, <1>3, <2>1, <2>2 DEF OnChain, PermStart, IsTop, Above, Live, Start, EndWhole
    <3>. QED BY <1>1, <1>2, <1>3, <2>1, <3>1, <3>2, <3>3 DEF WalkInv, Live
  <2>. QED BY <2>9, <2>10, <2>11, <2>12 DEF KInv
<1>. QED BY <1>4, <1>5

-----------------------------------------------------------------------------

LEMMA KNextInv == KInv /\ [KNext]_kvars => KInv'
<1> SUFFICES ASSUME KInv, [KNext]_kvars PROVE KInv'
  OBVIOUS
<1>0. TypeOK'
  BY NextTypes
<1>1. ASSUME NEW p \in Perms, NEW n \in Sizes, BootMalloc(p, n) PROVE KInv'
  BY <1>0, <1>1, MallocEmptyStep, MallocCallStep, SizesFacts DEF BootMalloc
<1>2. CASE BootDone
  <2>1. /\ BlocksApart' /\ ChainInv' /\ LiveInv' /\ HeaderInv'
    BY <1>2 DEF BootDone, vars, KInv, BlocksApart, ChainInv, LiveInv, HeaderInv, OnChain, PermStart,
                IsTop, Above, Live, Start, EndWhole
  <2>2. BootInv' /\ WalkInv'
    BY <1>2 DEF BootDone, vars, BootInv, WalkInv
  <2>. QED BY <1>0, <2>1, <2>2 DEF KInv
<1>3. ASSUME NEW n \in BufferSizes, DebugMalloc(n) PROVE KInv'
  BY <1>0, <1>3, MallocEmptyStep, MallocCallStep, SizesFacts, SizeFacts DEF DebugMalloc
<1>4. CASE DebugFree
  BY <1>0, <1>4, FreeStep DEF DebugFree
<1>5. ASSUME NEW c \in Clients, NEW v \in Data, NEW k \in 1 .. HeapWords, KStore(c, k, v)
      PROVE  KInv'
  BY <1>0, <1>5, StoreStep DEF KStore
<1>6. CASE KLoop
  BY <1>0, <1>6, ScanFoundStep, ScanNextStep, ReturnStep, MergeStep DEF KLoop, Loop
<1>7. CASE UNCHANGED kvars
  <2>1. HeapPart'
    BY <1>7, HeapUnchanged DEF kvars, vars, KInv, HeapPart
  <2>2. WalkInv'
    BY <1>7 DEF kvars, vars, KInv, WalkInv, OnChain, PermStart, IsTop, Above, Live, Start, EndWhole, NextBlock,
                SizeAt
  <2>. QED BY <1>0, <2>1, <2>2 DEF KInv, HeapPart
<1>. QED BY <1>1, <1>2, <1>3, <1>4, <1>5, <1>6, <1>7 DEF KNext

\* The kernel's use of the heap keeps the invariant.
THEOREM KernelHeapInvariant == KSpec => []KInv
BY KInitInv, KNextInv, PTL DEF KSpec

\* Blocks of the kernel share no word but the last one of a string, which a header covers.
THEOREM KernelHeapApart == KSpec => []BlocksApart
<1>1. KInv => BlocksApart
  BY DEF KInv
<1>. QED BY <1>1, KernelHeapInvariant, PTL

\* Every block the kernel holds lies in the heap, the tail of a string included.
THEOREM KernelHeapInside == KSpec => []AllocInHeap
<1>1. ASSUME KInv, NEW c \in Clients, Live(c) PROVE Start(c) >= 0 /\ End(c) <= HeapWords
  <2>1. PICK q \in Nat : q = held[c].ptr /\ q >= 3
    BY <1>1, SizesFacts DEF KInv, TypeOK, Live, Blocks
  <2>2. PICK z \in Nat : z = held[c].size /\ z \in Sizes
    BY <1>1, BlockFacts, SizeFacts DEF KInv
  <2>3. PICK w \in Nat : w = PayloadWords(z) /\ 8 * w < z + 8
    BY <2>2, SizeFacts
  <2>4. 8 * q + z <= HeapMax
    BY <1>1, <2>1, <2>2, SizesFacts DEF KInv, LiveInv, TypeOK
  <2>5. q + w <= HeapWords
    BY <2>1, <2>2, <2>3, <2>4, SizesFacts
  <2>. QED BY <2>1, <2>2, <2>3, <2>5 DEF Start, End
<1>2. KInv => AllocInHeap
  BY <1>1 DEF AllocInHeap
<1>. QED BY <1>2, KernelHeapInvariant, PTL

\* No store, free or merge damages the header of a block the kernel holds.
THEOREM KernelHeapHeaders == KSpec => []HeadersIntact
<1>1. KInv => HeadersIntact
  BY DEF KInv, LiveInv, HeadersIntact, HasMagic, SizeAt, UsedAt
<1>. QED BY <1>1, KernelHeapInvariant, PTL

-----------------------------------------------------------------------------
\* heap_used

UsedInv == IsFiniteSet(InUse) /\ UsedMatchesLive

\* The bytes counted for a client are as many as its block has.
LEMMA BytesCount ==
  ASSUME NEW c, NEW n \in Nat
  PROVE  IsFiniteSet({c} \X (1 .. n)) /\ Cardinality({c} \X (1 .. n)) = n
<1>1. IsFiniteSet({c}) /\ Cardinality({c}) = 1
  BY FS_Singleton
<1>2. IsFiniteSet(1 .. n) /\ Cardinality(1 .. n) = n
  BY FS_Interval
<1>3. \A S, T : IsFiniteSet(S) /\ IsFiniteSet(T) =>
        IsFiniteSet(S \X T) /\ Cardinality(S \X T) = Cardinality(S) * Cardinality(T)
  BY FS_Product
<1>4. /\ IsFiniteSet({c} \X (1 .. n))
      /\ Cardinality({c} \X (1 .. n)) = Cardinality({c}) * Cardinality(1 .. n)
  BY <1>1, <1>2, <1>3, Zenon
<1>5. Cardinality({c} \X (1 .. n)) = 1 * n
  BY <1>1, <1>2, <1>4, Zenon
<1>. QED BY <1>4, <1>5

\* malloc and free touch the bytes of one client.
LEMMA InUseSplit ==
  ASSUME NEW c \in Clients, \A d \in Clients : d # c => held'[d] = held[d]
  PROVE  /\ ~Live(c) /\ Live(c)' => InUse' = InUse \cup Bytes(c)' /\ InUse \cap Bytes(c)' = {}
         /\ Live(c) /\ ~Live(c)' => InUse = InUse' \cup Bytes(c) /\ InUse' \cap Bytes(c) = {}
         /\ ~Live(c) /\ ~Live(c)' => InUse' = InUse
BY DEF InUse, Bytes, Live

LEMMA UsedGrows ==
  ASSUME TypeOK, UsedInv, NEW c \in Clients, NEW b, NEW n \in Sizes,
         Place(c, b, n), ~Live(c)
  PROVE  UsedInv'
<1>1. CASE Usage(n) > HeapMax
  BY <1>1 DEF Place, UsedInv, UsedMatchesLive, InUse, Bytes, Live
<1>2. CASE ~(Usage(n) > HeapMax)
  <2>1. heap_used' = heap_used + n + 24 /\ held' = [held EXCEPT ![c] = [ptr |-> b + 3, size |-> n]]
    BY <1>2 DEF Place
  <2>2. held'[c] = [ptr |-> b + 3, size |-> n] /\ \A d \in Clients : d # c => held'[d] = held[d]
    BY <2>1 DEF TypeOK
  <2>3. n \in Nat /\ n > 0
    BY HeapAssumption
  <2>4. Live(c)' /\ Bytes(c)' = {c} \X (1 .. n + 24)
    BY <2>2, <2>3 DEF Live, NoBlock, Bytes
  <2>5. IsFiniteSet(Bytes(c)') /\ Cardinality(Bytes(c)') = n + 24
    <3>1. n + 24 \in Nat
      BY <2>3
    <3>2. /\ IsFiniteSet({c} \X (1 .. n + 24))
          /\ Cardinality({c} \X (1 .. n + 24)) = n + 24
      BY <3>1, BytesCount, Zenon
    <3>. QED BY <2>4, <3>2
  <2>6. InUse' = InUse \cup Bytes(c)' /\ InUse \cap Bytes(c)' = {}
    BY <2>2, <2>4, InUseSplit
  <2>7. IsFiniteSet(InUse) /\ heap_used = Cardinality(InUse) /\ heap_used \in Nat
    BY FS_CardinalityType DEF UsedInv, UsedMatchesLive
  <2>8. IsFiniteSet(InUse') /\ Cardinality(InUse') = heap_used + (n + 24) - Cardinality({})
    BY <2>5, <2>6, <2>7, FS_Union
  <2>. QED BY <2>1, <2>3, <2>7, <2>8, FS_EmptySet DEF UsedInv, UsedMatchesLive
<1>. QED BY <1>1, <1>2

LEMMA UsedShrinks ==
  ASSUME TypeOK, UsedInv, HeadersIntact, NEW c \in Clients, FreeCall(c)
  PROVE  UsedInv'
<1>1. held' = [held EXCEPT ![c] = NoBlock]
  BY DEF FreeCall
<1>2. ~Live(c)' /\ \A d \in Clients : d # c => held'[d] = held[d]
  BY <1>1 DEF TypeOK, Live
<1>3. CASE ~Live(c)
  <2>1. heap_used' = heap_used /\ InUse' = InUse
    BY <1>2, <1>3, InUseSplit DEF FreeCall, Live
  <2>. QED BY <2>1 DEF UsedInv, UsedMatchesLive
<1>4. CASE Live(c)
  <2>. DEFINE n == held[c].size
  <2>1. n \in Nat
    BY <1>4, HeapAssumption DEF TypeOK, Blocks, Live
  <2>2. heap_used' = heap_used - (n + 24)
    BY <1>4 DEF HeadersIntact, FreeCall, Start, Live
  <2>3. IsFiniteSet(Bytes(c)) /\ Cardinality(Bytes(c)) = n + 24
    <3>1. n + 24 \in Nat
      BY <2>1
    <3>. QED BY <3>1, BytesCount, Zenon DEF Bytes, HdrBytes
  <2>4. InUse = InUse' \cup Bytes(c) /\ InUse' \cap Bytes(c) = {}
    BY <1>2, <1>4, InUseSplit
  <2>5. IsFiniteSet(InUse) /\ heap_used = Cardinality(InUse)
    BY DEF UsedInv, UsedMatchesLive
  <2>6. IsFiniteSet(InUse')
    BY <2>4, <2>5, FS_Subset
  <2>7. Cardinality(InUse) = Cardinality(InUse') + (n + 24) - Cardinality({})
    BY <2>3, <2>4, <2>6, FS_Union
  <2>8. Cardinality(InUse') \in Nat
    BY <2>6, FS_CardinalityType
  <2>. HIDE DEF n
  <2>. QED BY <2>1, <2>2, <2>5, <2>6, <2>7, <2>8, FS_EmptySet DEF UsedInv, UsedMatchesLive
<1>. QED BY <1>3, <1>4

LEMMA UsedStep ==
  KInv /\ UsedInv /\ [KNext]_kvars => UsedInv'
<1> SUFFICES ASSUME KInv, UsedInv, [KNext]_kvars PROVE UsedInv'
  OBVIOUS
<1>0. TypeOK /\ HeadersIntact
  BY DEF KInv, LiveInv, HeadersIntact, HasMagic, SizeAt, UsedAt
<1>1. ASSUME NEW c \in Clients, NEW n \in Sizes, MallocEmpty(c, n) \/ MallocCall(c, n) PROVE UsedInv'
  <2>1. CASE MallocEmpty(c, n)
    BY <1>0, <2>1, UsedGrows DEF MallocEmpty, Live
  <2>2. CASE MallocCall(c, n)
    BY <2>2 DEF MallocCall, UsedInv, UsedMatchesLive, InUse, Bytes, Live
  <2>. QED BY <1>1, <2>1, <2>2
<1>2. ASSUME UNCHANGED <<heap_used, held>> PROVE UsedInv'
  BY <1>2 DEF UsedInv, UsedMatchesLive, InUse, Bytes, Live
<1>3. CASE ScanFound
  <2>1. Place(who, cur, want) /\ who \in Clients /\ want \in Sizes /\ ~Live(who)
    BY <1>0, <1>3, SizesFacts DEF ScanFound, TypeOK, KInv, WalkInv
  <2>. QED BY <1>0, <2>1, UsedGrows
<1>4. ASSUME NEW p \in Perms, NEW n \in Sizes, BootMalloc(p, n) PROVE UsedInv'
  BY <1>1, <1>4, SizesFacts DEF BootMalloc
<1>5. ASSUME NEW n \in BufferSizes, DebugMalloc(n) PROVE UsedInv'
  BY <1>1, <1>5, SizesFacts, SizeFacts DEF DebugMalloc
<1>6. CASE DebugFree
  BY <1>0, <1>6, UsedShrinks, SizesFacts DEF DebugFree
<1>7. CASE BootDone \/ UNCHANGED kvars
  BY <1>2, <1>7 DEF BootDone, kvars, vars
<1>8. ASSUME NEW c \in Clients, NEW v \in Data, NEW k \in 1 .. HeapWords, KStore(c, k, v)
      PROVE  UsedInv'
  BY <1>2, <1>8 DEF KStore, Store
<1>9. CASE KLoop
  BY <1>2, <1>3, <1>9 DEF KLoop, Loop, ScanNext, ScanEnd, MergeNext, MergeEnd
<1>. QED BY <1>4, <1>5, <1>6, <1>7, <1>8, <1>9 DEF KNext

\* heap_used counts exactly the bytes of the blocks in use, headers and all,
\* although free() and malloc() read the sizes from memory others write to.
THEOREM KernelHeapUsed == KSpec => []UsedMatchesLive
<1>1. KInit => UsedInv
  <2>1. KInit => InUse = {} /\ heap_used = 0
    BY DEF KInit, Init, InUse, Live
  <2>. QED BY <2>1, FS_EmptySet DEF UsedInv, UsedMatchesLive
<1>2. UsedInv => UsedMatchesLive
  BY DEF UsedInv
<1>. QED BY <1>1, <1>2, UsedStep, KernelHeapInvariant, PTL DEF KSpec

=============================================================================
