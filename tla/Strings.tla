------------------------------- MODULE Strings -------------------------------
(***************************************************************************)
(* The functions of lib/common on memory and strings.  A memory is a       *)
(* function from addresses to bytes; a call gives the memory it leaves,    *)
(* with every byte stored in the order of the code's loops, so that what   *)
(* overlaps comes out as it does there.                                    *)
(***************************************************************************)
EXTENDS Naturals, Sequences, FiniteSetsExt

\* The bytes a[i] = b[i] of a loop, i from 0 to n - 1.
CopyUp(mem, a, b, n) ==
  LET after[k \in 0 .. n] ==
        IF k = 0 THEN mem
        ELSE [after[k - 1] EXCEPT ![a + k - 1] = after[k - 1][b + k - 1]]
  IN  after[n]

Memcpy(mem, dest, src, n) == CopyUp(mem, dest, src, n)

Memset(mem, dest, val, n) ==
  [a \in DOMAIN mem |-> IF a \in dest .. dest + n - 1 THEN val ELSE mem[a]]

\* Mutant: the copy of a move down starts at the end.
MemmoveDown(mem, dest, src, n) ==
  LET after[k \in 0 .. n] ==
        IF k = 0 THEN mem
        ELSE [after[k - 1] EXCEPT ![dest + n - k] = after[k - 1][src + n - k]]
  IN  after[n]

\* A move to a higher address, which counts i up from n - 1 while it is not
\* negative, does not return.
MemmoveReturns(dest, src, n) == dest <= src \/ n = 0

Memmove(mem, dest, src, n) == CopyUp(mem, dest, src, n)

Strlen(mem, str) == Min({i \in DOMAIN mem : i >= str /\ mem[i] = 0}) - str

Strcpy(mem, dest, src) ==
  LET copied == Memcpy(mem, dest, src, Strlen(mem, src))
  IN  [copied EXCEPT ![dest + Strlen(copied, src)] = 0]

\* It goes on past a zero, and puts one after the n bytes.
Strncpy(mem, dest, src, n) == [Memcpy(mem, dest, src, n) EXCEPT ![dest + n] = 0]

\* The zero of dest is the first byte that is written; the copy ends with the first
\* zero it finds, in what it may have written itself.
Strcat(mem, dest, src) ==
  LET end == dest + Strlen(mem, dest)
      Ends(k) == CopyUp(mem, end, src, k)[src + k] = 0
      last == CHOOSE k \in DOMAIN mem : Ends(k) /\ \A j \in 0 .. k - 1 : ~Ends(j)
  IN  CopyUp(mem, end, src, last + 1)

\* The index both strings have left each other at, and what is there.
Strncmp(mem, s1, s2, n) ==
  LET Same(k) == mem[s1 + k] # 0 /\ mem[s1 + k] = mem[s2 + k]
      at == CHOOSE k \in 0 .. n : (\A j \in 0 .. k - 1 : Same(j)) /\ (k = n \/ ~Same(k))
  IN  IF at = n \/ mem[s1 + at] = mem[s2 + at] THEN "equal"
      ELSE IF mem[s1 + at] < mem[s2 + at] THEN "less" ELSE "greater"

\* Two indices that meet in the middle.
Reversed(mem, str, sz) ==
  LET after[k \in 0 .. sz \div 2] ==
        IF k = 0 THEN mem
        ELSE LET m == after[k - 1]
             IN  [m EXCEPT ![str + k - 1] = m[str + sz - k], ![str + sz - k] = m[str + k - 1]]
  IN  after[sz \div 2]

=============================================================================
