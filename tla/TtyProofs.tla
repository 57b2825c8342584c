----------------------------- MODULE TtyProofs -----------------------------
(***************************************************************************)
(* What holds of tty0 for any buffer, any bytes and any number of keys.    *)
(***************************************************************************)
EXTENDS Tty, TLAPS, SequenceTheorems

Inv == TypeOK /\ TInv /\ OutputIsQueued

\* While _start is past tty_create the ring does not wrap.
LEMMA NoWrap == Inv /\ phase = "run" => Wrap = tail /\ ~(head > size)
  BY TtyAssumption DEF Inv, TInv, PhaseInv, QueueInv, TypeOK, Wrap, SoFar

LEMMA InitInv == Init => Inv
<1> SUFFICES ASSUME Init PROVE Inv
      OBVIOUS
<1>1. written \in Seq(Chars) /\ output \in Seq(Byte) /\ Len(output) = 0
      BY DEF Init
<1>2. cells \in [0 .. MaxBytes - 1 -> Byte]
      BY DEF Init, Byte
<1>3. TypeOK
      BY <1>1, <1>2 DEF Init, TypeOK
<1>4. TInv /\ OutputIsQueued
      BY <1>3 DEF Init, TInv, PhaseInv, QueueInv, OutputIsQueued
<1>q. QED
      BY <1>3, <1>4 DEF Inv

\* ring_buffer_read gives as many bytes as it is asked for.
LEMMA TakenLen == Inv => /\ Len(Taken(len)) = len
                         /\ DOMAIN Taken(len) = 1 .. len
                         /\ pc = "load" /\ left = 0 => Taken(len) \in Seq(Byte)
<1> SUFFICES ASSUME Inv PROVE /\ Len(Taken(len)) = len
                              /\ DOMAIN Taken(len) = 1 .. len
                              /\ pc = "load" /\ left = 0 => Taken(len) \in Seq(Byte)
      OBVIOUS
<1>1. len \in Nat
      BY DEF Inv, TypeOK
<1>2. Len(Taken(len)) = len /\ DOMAIN Taken(len) = 1 .. len
      BY <1>1 DEF Taken
<1>3. ASSUME pc = "load", left = 0 PROVE Taken(len) \in Seq(Byte)
  <2>1. phase = "run" /\ tail <= MaxBytes /\ head + len <= tail
        BY <1>3 DEF Inv, TInv, PhaseInv, QueueInv, SoFar, TypeOK
  <2>2. \A i \in 1 .. len : head + i - 1 < BufSize => head + i - 1 \in 0 .. MaxBytes - 1
        BY <2>1, TtyAssumption DEF Inv, TypeOK
  <2>3. \A i \in 1 .. len : Taken(len)[i] \in Byte
        BY <1>1, <2>2 DEF Taken, Inv, TypeOK, Byte
  <2>q. QED
        BY <1>1, <1>2, <2>3 DEF Taken
<1>q. QED
      BY <1>2, <1>3

\* What fbcon_output_intr adds to the output.
LEMMA OutputEffect ==
  Inv /\ Output => /\ Len(output') = Len(output) + len
                   /\ \A i \in 1 .. Len(output) + len :
                        output'[i] = IF i <= Len(output) THEN output[i]
                                     ELSE Taken(len)[i - Len(output)]
<1> SUFFICES ASSUME Inv, Output
             PROVE  /\ Len(output') = Len(output) + len
                    /\ \A i \in 1 .. Len(output) + len :
                         output'[i] = IF i <= Len(output) THEN output[i]
                                      ELSE Taken(len)[i - Len(output)]
      OBVIOUS
<1>1. Taken(len) \in Seq(Byte) /\ Len(Taken(len)) = len
      BY TakenLen DEF Output
<1>2. output \in Seq(Byte) /\ output' = output \o Taken(len)
      BY DEF Output, Inv, TypeOK
<1>q. QED
      BY <1>1, <1>2, ConcatProperties

\* Types are kept.
LEMMA TypeStep == Inv /\ [Next]_vars => TypeOK'
<1> SUFFICES ASSUME Inv, [Next]_vars PROVE TypeOK'
      OBVIOUS
<1> USE TtyAssumption DEF Inv, ring, call, hist
<1>1a. CASE TtyCreate
      BY <1>1a DEF TtyCreate, TypeOK
<1>1b. CASE TtyCreateFails
      BY <1>1b DEF TtyCreateFails, TypeOK
<1>1c. CASE KeyboardInit
      BY <1>1c DEF KeyboardInit, TypeOK
<1>1d. CASE SchedInit
      BY <1>1d DEF SchedInit, TypeOK
<1>2. ASSUME NEW b \in Keys, Key(b) PROVE TypeOK'
  <2>1. Wrap \in Nat
        BY DEF Wrap, TypeOK
  <2>2. head' \in Nat /\ cells' \in [0 .. MaxBytes - 1 -> Byte]
        BY <1>2, <2>1 DEF Key, Store, TypeOK, Byte
  <2>q. QED
        BY <1>2, <2>1, <2>2 DEF Key, TypeOK
<1>3. CASE Refuse \/ UNCHANGED vars
      BY <1>3 DEF Refuse, vars, TypeOK
<1>4. ASSUME NEW n \in 1 .. MaxBytes, Call(n) PROVE TypeOK'
      BY <1>4 DEF Call, TypeOK
<1>5. CASE Load
      BY <1>5 DEF Load, Wrap, TypeOK
<1>6. ASSUME NEW c \in Chars, StoreByte(c) PROVE TypeOK'
  <2>1. phase = "run" /\ left > 0 /\ idx <= tail /\ tail - idx <= typed
        BY <1>6 DEF StoreByte, TInv, PhaseInv, QueueInv
  <2>2. left' \in Nat /\ typed' \in Nat /\ tail' \in Nat
        BY <1>6, <2>1 DEF StoreByte, TypeOK
  <2>3. written' \in Seq(Chars)
        BY <1>6 DEF StoreByte, TypeOK
  <2>4. head' \in Nat /\ cells' \in [0 .. MaxBytes - 1 -> Byte]
        BY <1>6 DEF StoreByte, Store, TypeOK, Byte
  <2>q. QED
        BY <1>6, <2>2, <2>3, <2>4 DEF StoreByte, TypeOK
<1>7. CASE Output
  <2>1. Taken(len) \in Seq(Byte)
        BY <1>7, TakenLen DEF Output
  <2>2. output' \in Seq(Byte)
        BY <1>7, <2>1, ConcatProperties DEF Output, TypeOK
  <2>q. QED
        BY <1>7, <2>2 DEF Output, TypeOK
<1>8. CASE OutputFails
      BY <1>8 DEF OutputFails, TypeOK
<1>q. QED
      BY <1>1a, <1>1b, <1>1c, <1>1d, <1>2, <1>3, <1>4, <1>5, <1>6, <1>7, <1>8 DEF Next, TtyWriteStep

\* sched_init leaves the words at address zero as good as cleared.
LEMMA PhaseStep == Inv /\ [Next]_vars => PhaseInv'
<1> SUFFICES ASSUME Inv, [Next]_vars PROVE PhaseInv'
      OBVIOUS
<1> USE TtyAssumption DEF Inv, ring, call, hist
<1>1. CASE TtyCreate
      BY <1>1, NoWrap DEF TtyCreate, TInv, PhaseInv, QueueInv, SoFar, TypeOK
<1>2. CASE TtyCreateFails
      BY <1>2, NoWrap DEF TtyCreateFails, TInv, PhaseInv, QueueInv, SoFar, TypeOK
<1>3. CASE KeyboardInit
      BY <1>3, NoWrap DEF KeyboardInit, TInv, PhaseInv, QueueInv, SoFar, TypeOK
<1>4. CASE SchedInit
      BY <1>4, NoWrap DEF SchedInit, TInv, PhaseInv, QueueInv, SoFar, TypeOK
<1>5. CASE Refuse
      BY <1>5, NoWrap DEF Refuse, vars, TInv, PhaseInv, QueueInv, SoFar, TypeOK
<1>6. CASE Load
      BY <1>6, NoWrap DEF Load, TInv, PhaseInv, QueueInv, SoFar, TypeOK
<1>7. CASE Output
      BY <1>7, NoWrap DEF Output, TInv, PhaseInv, QueueInv, SoFar, TypeOK
<1>8. CASE OutputFails
      BY <1>8, NoWrap DEF OutputFails, TInv, PhaseInv, QueueInv, SoFar, TypeOK
<1>9. ASSUME NEW b \in Keys, Key(b) PROVE PhaseInv'
      BY <1>9, NoWrap DEF Key, Store, Wrap, TInv, PhaseInv, QueueInv, SoFar, TypeOK
<1>10. ASSUME NEW n \in 1 .. MaxBytes, Call(n) PROVE PhaseInv'
      BY <1>10, NoWrap DEF Call, TInv, PhaseInv, QueueInv, SoFar, TypeOK
<1>11. ASSUME NEW c \in Chars, StoreByte(c) PROVE PhaseInv'
      BY <1>11, NoWrap DEF StoreByte, Store, TInv, PhaseInv, QueueInv, SoFar, TypeOK
<1>12. CASE UNCHANGED vars
      BY <1>12 DEF vars, TInv, PhaseInv, QueueInv, SoFar, TypeOK
<1>q. QED
      BY <1>1, <1>2, <1>3, <1>4, <1>5, <1>6, <1>7, <1>8, <1>9, <1>10, <1>11, <1>12 DEF Next, TtyWriteStep

\* The backlog is accounted for at every step of a call.
LEMMA QueueStep == Inv /\ [Next]_vars => QueueInv'
<1> SUFFICES ASSUME Inv, [Next]_vars PROVE QueueInv'
      OBVIOUS
<1> USE TtyAssumption DEF Inv, ring, call, hist
<1>1. CASE TtyCreate
      BY <1>1, NoWrap DEF TtyCreate, TInv, PhaseInv, QueueInv, SoFar, TypeOK
<1>2. CASE TtyCreateFails
      BY <1>2, NoWrap DEF TtyCreateFails, TInv, PhaseInv, QueueInv, SoFar, TypeOK
<1>3. CASE KeyboardInit
      BY <1>3, NoWrap DEF KeyboardInit, TInv, PhaseInv, QueueInv, SoFar, TypeOK
<1>4. CASE SchedInit
      BY <1>4, NoWrap DEF SchedInit, TInv, PhaseInv, QueueInv, SoFar, TypeOK
<1>5. CASE Refuse
      BY <1>5, NoWrap DEF Refuse, vars, TInv, PhaseInv, QueueInv, SoFar, TypeOK
<1>6. CASE Load
      BY <1>6, NoWrap DEF Load, TInv, PhaseInv, QueueInv, SoFar, TypeOK
<1>7. CASE Output
  <2>1. phase = "run" /\ left = 0 /\ ~(head > size) /\ tail = head + typed + dropped + len
        BY <1>7, NoWrap DEF Output, TInv, PhaseInv, QueueInv, SoFar, TypeOK
  <2>2. Len(output') = Len(output) + len
        BY <1>7, OutputEffect
  <2>3. head' = head + len /\ tail' = tail /\ phase' = "run" /\ pc' = "idle"
          /\ UNCHANGED <<left, len, typed, dropped>>
        BY <1>7, <2>1 DEF Output
  <2>q. QED
        BY <2>1, <2>2, <2>3 DEF TypeOK, TInv, QueueInv, SoFar
<1>8. CASE OutputFails
      BY <1>8, NoWrap DEF OutputFails, TInv, PhaseInv, QueueInv, SoFar, TypeOK
<1>9. ASSUME NEW b \in Keys, Key(b) PROVE QueueInv'
  <2>1. CASE phase = "run"
    <3>1. tail' = tail + 1 /\ head' = head /\ typed' = typed + 1 /\ tail + 1 <= MaxBytes
          BY <1>9, <2>1, NoWrap DEF Key, Store, TypeOK, TInv, PhaseInv
    <3>2. phase' = phase /\ pc' = pc /\ idx' = idx /\ left' = left /\ len' = len
            /\ output' = output /\ dropped' = dropped
          BY <1>9 DEF Key
    <3>3. /\ head \in Nat /\ tail \in Nat /\ idx \in Nat /\ left \in Nat /\ len \in Nat
          /\ typed \in Nat /\ dropped \in Nat /\ MaxBytes \in Nat
          BY DEF TypeOK
    <3>4. QueueInv
          BY DEF TInv
    <3>5. ASSUME pc = "store", NEW i \in idx + 1 .. tail + 1 PROVE Queued'[i] \in Keys
      <4>1. CASE i = tail + 1
            BY <1>9, <2>1, <3>1, <4>1, NoWrap DEF Key, Store, Queued, TInv, PhaseInv, TypeOK
      <4>2. CASE i # tail + 1
        <5>1. Queued'[i] = Queued[i]
              BY <1>9, <2>1, <3>1, <3>3, <4>2, NoWrap DEF Key, Store, Queued, TInv, PhaseInv, TypeOK
        <5>q. QED
              BY <3>3, <3>4, <3>5, <4>2, <5>1 DEF QueueInv
      <4>q. QED
            BY <4>1, <4>2
    <3>6. SoFar' = SoFar /\ SoFar \in Int
          BY ONLY <3>2, <3>3 DEF SoFar
    <3>7. left <= len /\ tail = head + typed + dropped + SoFar /\ Len(output) = head
          BY ONLY <2>1, <3>4 DEF QueueInv
    <3>8. tail' = head' + typed' + dropped' + SoFar' /\ tail' <= MaxBytes /\ Len(output') = head'
          BY ONLY <3>1, <3>2, <3>3, <3>6, <3>7
    <3>9. ASSUME pc' = "store"
          PROVE  /\ left' > 0 /\ head' <= idx' /\ idx' <= tail' /\ idx' < MaxBytes
                 /\ tail' - idx' <= typed'
                 /\ \A i \in idx' + 1 .. tail' : Queued'[i] \in Keys
      <4>1. /\ left > 0 /\ head <= idx /\ idx <= tail /\ idx < MaxBytes
            /\ tail - idx <= typed
            BY ONLY <3>2, <3>4, <3>9 DEF QueueInv
      <4>q. QED
            BY ONLY <3>1, <3>2, <3>3, <3>5, <3>9, <4>1
    <3>q. QED
          BY ONLY <3>2, <3>7, <3>8, <3>9 DEF QueueInv
  <2>2. CASE phase # "run"
        BY <1>9, <2>2 DEF Key, TInv, PhaseInv, QueueInv
  <2>q. QED
        BY <2>1, <2>2
<1>10. ASSUME NEW n \in 1 .. MaxBytes, Call(n) PROVE QueueInv'
      BY <1>10, NoWrap DEF Call, TInv, PhaseInv, QueueInv, SoFar, TypeOK
<1>11. ASSUME NEW c \in Chars, StoreByte(c) PROVE QueueInv'
  <2>1. pc = "store" /\ pc' = "load" /\ phase = "run" /\ buffer /\ head' = head
        BY <1>11 DEF StoreByte, Store, TInv, PhaseInv
  <2>2. /\ tail' = idx + 1 /\ typed' = typed - (tail - idx) /\ left' = left - 1
        /\ UNCHANGED <<phase, len, output, dropped, idx>>
        BY <1>11 DEF StoreByte
  <2>3. /\ head \in Nat /\ tail \in Nat /\ idx \in Nat /\ left \in Nat /\ len \in Nat
        /\ typed \in Nat /\ dropped \in Nat /\ MaxBytes \in Nat
        BY DEF TypeOK
  <2>4. QueueInv
        BY DEF TInv
  <2>q. QED
        BY ONLY <2>1, <2>2, <2>3, <2>4 DEF QueueInv, SoFar
<1>12. CASE UNCHANGED vars
      BY <1>12 DEF vars, Queued, TInv, PhaseInv, QueueInv, SoFar, TypeOK
<1>q. QED
      BY <1>1, <1>2, <1>3, <1>4, <1>5, <1>6, <1>7, <1>8, <1>9, <1>10, <1>11, <1>12 DEF Next, TtyWriteStep

\* A byte is only stored where nothing has been printed yet.
LEMMA OutputStep == Inv /\ [Next]_vars => OutputIsQueued'
<1> SUFFICES ASSUME Inv, [Next]_vars PROVE OutputIsQueued'
      OBVIOUS
<1> USE TtyAssumption DEF Inv, ring, call, hist
<1>1. CASE TtyCreate
      BY <1>1, NoWrap DEF TtyCreate, TInv, PhaseInv, QueueInv, SoFar, OutputIsQueued, TypeOK
<1>2. CASE TtyCreateFails
      BY <1>2, NoWrap DEF TtyCreateFails, TInv, PhaseInv, QueueInv, SoFar, OutputIsQueued, TypeOK
<1>3. CASE KeyboardInit
      BY <1>3, NoWrap DEF KeyboardInit, TInv, PhaseInv, QueueInv, SoFar, OutputIsQueued, TypeOK
<1>4. CASE SchedInit
      BY <1>4, NoWrap DEF SchedInit, TInv, PhaseInv, QueueInv, SoFar, OutputIsQueued, TypeOK
<1>5. CASE Refuse
      BY <1>5, NoWrap DEF Refuse, vars, TInv, PhaseInv, QueueInv, SoFar, OutputIsQueued, TypeOK
<1>6. CASE Load
      BY <1>6, NoWrap DEF Load, TInv, PhaseInv, QueueInv, SoFar, OutputIsQueued, TypeOK
<1>7. CASE Output
  <2>1. phase = "run" /\ ~(head > size) /\ Len(output) = head /\ len \in Nat /\ head \in Nat
        BY <1>7, NoWrap DEF Output, TInv, PhaseInv, QueueInv, TypeOK
  <2>2. Len(output') = head + len /\ head' = head + len
        BY <1>7, <2>1, OutputEffect DEF Output
  <2>3. ASSUME NEW i \in 1 .. head + len
        PROVE  output'[i] = IF i <= BufSize THEN cells[i - 1] ELSE Foreign
    <3>1. CASE i <= head
          BY <1>7, <2>1, <3>1, OutputEffect DEF OutputIsQueued
    <3>2. CASE i > head
      <4>1. output'[i] = Taken(len)[i - head] /\ i - head \in 1 .. len
            BY <1>7, <2>1, <3>2, OutputEffect
      <4>2. head + (i - head) - 1 = i - 1
            BY <2>1
      <4>q. QED
            BY <2>1, <4>1, <4>2 DEF Taken
    <3>q. QED
          BY <2>1, <3>1, <3>2
  <2>q. QED
        BY <1>7, <2>1, <2>2, <2>3 DEF Output, OutputIsQueued
<1>8. CASE OutputFails
      BY <1>8, NoWrap DEF OutputFails, TInv, PhaseInv, QueueInv, SoFar, OutputIsQueued, TypeOK
<1>9. ASSUME NEW b \in Keys, Key(b) PROVE OutputIsQueued'
      BY <1>9, NoWrap DEF Key, Store, Wrap, TInv, PhaseInv, QueueInv, SoFar, OutputIsQueued, TypeOK
<1>10. ASSUME NEW n \in 1 .. MaxBytes, Call(n) PROVE OutputIsQueued'
      BY <1>10, NoWrap DEF Call, TInv, PhaseInv, QueueInv, SoFar, OutputIsQueued, TypeOK
<1>11. ASSUME NEW c \in Chars, StoreByte(c) PROVE OutputIsQueued'
      BY <1>11, NoWrap DEF StoreByte, Store, TInv, PhaseInv, QueueInv, SoFar, OutputIsQueued, TypeOK
<1>12. CASE UNCHANGED vars
      BY <1>12 DEF vars, TInv, PhaseInv, QueueInv, SoFar, OutputIsQueued, TypeOK
<1>q. QED
      BY <1>1, <1>2, <1>3, <1>4, <1>5, <1>6, <1>7, <1>8, <1>9, <1>10, <1>11, <1>12 DEF Next, TtyWriteStep

\* A byte queued next gets the next place, whatever keys came before it.
LEMMA OneMorePlace ==
  ASSUME Inv, phase = "run", phase' = "run",
         NEW f \in [1 .. Len(written) -> 1 .. tail], Places(f),
         NEW q \in 0 .. tail, NEW c \in Chars,
         \A i \in q + 1 .. tail : Queued[i] \notin Chars,
         tail' = q + 1, Queued'[q + 1] = c, \A i \in 1 .. q : Queued'[i] = Queued[i],
         written' = Append(written, c)
  PROVE  WrittenInOrder'
<1>0. PICK n \in Nat : n = Len(written)
      BY DEF Inv, TypeOK
<1> DEFINE g == [k \in 1 .. n + 1 |-> IF k = n + 1 THEN q + 1 ELSE f[k]]
<1>1. n \in Nat /\ Len(written') = n + 1 /\ tail \in Nat /\ f \in [1 .. n -> 1 .. tail]
      BY <1>0 DEF Inv, TypeOK
<1>2. /\ written'[n + 1] = c /\ \A k \in 1 .. n : written'[k] = written[k]
      BY <1>0 DEF Inv, TypeOK
<1>3. \A k \in 1 .. n : f[k] \in 1 .. tail
      BY <1>1
<1>4. \A k \in 1 .. n : f[k] \in 1 .. q
  <2> TAKE k \in 1 .. n
  <2>0. k \in DOMAIN f /\ f[k] \in 1 .. tail
        BY <1>1, <1>3
  <2>1. Queued[f[k]] \in Chars
        BY <2>0 DEF Places
  <2>q. QED
        BY <1>1, <1>3, <2>1
<1>5. g \in [1 .. n + 1 -> 1 .. q + 1]
      BY <1>1, <1>4
<1>6. g[n + 1] = q + 1 /\ \A k \in 1 .. n : g[k] = f[k]
      BY <1>1
<1> HIDE DEF g
<1>7. \A j, k \in 1 .. n + 1 : j < k => g[j] < g[k]
  <2> TAKE j, k \in 1 .. n + 1
  <2> HAVE j < k
  <2>1. j \in 1 .. n /\ g[j] = f[j] /\ f[j] <= q
        BY <1>1, <1>4, <1>6
  <2>2. CASE k = n + 1
        BY <1>6, <2>1, <2>2, <1>4
  <2>3. CASE k # n + 1
    <3>1. k \in 1 .. n /\ g[k] = f[k] /\ DOMAIN f = 1 .. n
          BY <1>1, <1>6, <2>3
    <3>q. QED
          BY <2>1, <3>1 DEF Places
  <2>q. QED
        BY <2>2, <2>3
<1>8. \A i \in 1 .. q + 1 : Queued'[i] \in Chars <=> \E k \in 1 .. n + 1 : g[k] = i
  <2> TAKE i \in 1 .. q + 1
  <2>1. CASE i = q + 1
        BY <1>1, <1>6, <2>1
  <2>2. CASE i # q + 1
    <3>1. i \in 1 .. q /\ i \in 1 .. tail /\ Queued'[i] = Queued[i]
          BY <1>1, <2>2
    <3>2. Queued[i] \in Chars <=> \E k \in 1 .. n : f[k] = i
          BY <1>1, <3>1 DEF Places
    <3>3. (\E k \in 1 .. n : f[k] = i) <=> (\E k \in 1 .. n + 1 : g[k] = i)
      <4>1. ASSUME NEW k \in 1 .. n, f[k] = i PROVE k \in 1 .. n + 1 /\ g[k] = i
            BY <1>1, <1>6, <4>1
      <4>2. ASSUME NEW k \in 1 .. n + 1, g[k] = i PROVE k \in 1 .. n /\ f[k] = i
            BY <1>1, <1>6, <2>2, <4>2
      <4>q. QED
            BY <4>1, <4>2
    <3>q. QED
          BY <3>1, <3>2, <3>3
  <2>q. QED
        BY <2>1, <2>2
<1>9. \A k \in 1 .. n + 1 : Queued'[g[k]] = written'[k]
  <2> TAKE k \in 1 .. n + 1
  <2>1. CASE k = n + 1
        BY <1>2, <1>6, <2>1
  <2>2. CASE k # n + 1
    <3>1. k \in 1 .. n /\ g[k] = f[k] /\ f[k] \in 1 .. q /\ DOMAIN f = 1 .. n
          BY <1>1, <1>4, <1>6, <2>2
    <3>2. Queued[f[k]] = written[k]
          BY <3>1 DEF Places
    <3>q. QED
          BY <1>2, <3>1, <3>2
  <2>q. QED
        BY <2>1, <2>2
<1>10. DOMAIN g = 1 .. n + 1
      BY <1>5
<1>q. QED
  <2>1. g \in [1 .. Len(written') -> 1 .. tail']
        BY <1>1, <1>5
  <2>2. Places(g)'
        BY <1>1, <1>7, <1>8, <1>9, <1>10 DEF Places
  <2>q. QED
        BY <2>1, <2>2 DEF WrittenInOrder

\* Keys that come meanwhile take no place from the bytes of tty_write.
LEMMA WrittenStep == Inv /\ WrittenInOrder /\ [Next]_vars => WrittenInOrder'
<1> SUFFICES ASSUME Inv, WrittenInOrder, [Next]_vars PROVE WrittenInOrder'
      OBVIOUS
<1> USE TtyAssumption
<1>1. ASSUME UNCHANGED <<tail, cells, written>>, phase' = "run" => phase = "run"
      PROVE  WrittenInOrder'
  <2>1. Queued' = Queued
        BY <1>1 DEF Queued
  <2>q. QED
        BY <1>1, <2>1 DEF WrittenInOrder, Places
<1>2. ASSUME tail' = 0, written' = <<>> PROVE WrittenInOrder'
  <2> DEFINE f == [k \in 1 .. 0 |-> 1]
  <2>1. f \in [1 .. Len(written') -> 1 .. tail'] /\ DOMAIN f = {}
        BY <1>2
  <2>2. Places(f)'
        BY <1>2, <2>1 DEF Places
  <2>q. QED
        BY <2>1, <2>2 DEF WrittenInOrder
<1>3. CASE TtyCreate
      BY <1>2, <1>3 DEF TtyCreate, hist, Inv, TInv, PhaseInv
<1>4. CASE TtyCreateFails
      BY <1>4 DEF TtyCreateFails, WrittenInOrder
<1>5. CASE KeyboardInit
  <2>1. tail' = 0 /\ written' = <<>>
        BY <1>5 DEF KeyboardInit, ring, hist, Inv, TInv, PhaseInv
  <2>q. QED
        BY <1>2, <2>1
<1>6. CASE SchedInit
      BY <1>6 DEF SchedInit, WrittenInOrder
<1>7. ASSUME NEW b \in Keys, Key(b) PROVE WrittenInOrder'
  <2> SUFFICES ASSUME phase' = "run" PROVE WrittenInOrder'
        BY DEF WrittenInOrder
  <2>1. /\ phase = "run" /\ tail \in Nat /\ tail < MaxBytes /\ tail' = tail + 1
        /\ cells' = [cells EXCEPT ![tail] = b] /\ written' = written
        BY <1>7, NoWrap DEF Key, Store, Inv, TInv, PhaseInv, TypeOK
  <2>2. PICK f \in [1 .. Len(written) -> 1 .. tail] : Places(f)
        BY <2>1 DEF WrittenInOrder
  <2>3. f \in [1 .. Len(written) -> 1 .. tail + 1]
        BY <2>1
  <2>4. Queued'[tail + 1] = b /\ b \notin Chars
        BY <2>1 DEF Queued, Inv, TypeOK
  <2>5. \A i \in 1 .. tail : Queued'[i] = Queued[i]
        BY <2>1 DEF Queued, Inv, TypeOK
  <2>6. \A k \in DOMAIN f : f[k] \in 1 .. tail
        OBVIOUS
  <2>7. \A i \in 1 .. tail + 1 : Queued'[i] \in Chars <=> \E k \in DOMAIN f : f[k] = i
    <3> TAKE i \in 1 .. tail + 1
    <3>1. CASE i = tail + 1
          BY <2>1, <2>4, <2>6, <3>1
    <3>2. CASE i # tail + 1
      <4>1. i \in 1 .. tail
            BY <2>1, <3>2
      <4>q. QED
            BY <2>2, <2>5, <4>1 DEF Places
    <3>q. QED
          BY <3>1, <3>2
  <2>8. Places(f)'
        BY <2>1, <2>2, <2>5, <2>6, <2>7 DEF Places
  <2>q. QED
        BY <2>1, <2>3, <2>8 DEF WrittenInOrder
<1>8. CASE Refuse
      BY <1>1, <1>8 DEF Refuse, vars, ring, hist
<1>9. ASSUME NEW n \in 1 .. MaxBytes, Call(n) PROVE WrittenInOrder'
      BY <1>1, <1>9 DEF Call, ring, hist
<1>10. CASE Load
      BY <1>1, <1>10 DEF Load, ring, hist
<1>11. ASSUME NEW c \in Chars, StoreByte(c) PROVE WrittenInOrder'
  <2>1. /\ phase = "run" /\ phase' = "run" /\ buffer /\ pc = "store"
        /\ written' = Append(written, c) /\ tail' = idx + 1 /\ cells' = [cells EXCEPT ![idx] = c]
        BY <1>11 DEF StoreByte, Store, Inv, TInv, PhaseInv
  <2>2. idx \in 0 .. tail /\ idx < MaxBytes /\ \A i \in idx + 1 .. tail : Queued[i] \in Keys
        BY <2>1 DEF Inv, TInv, QueueInv, TypeOK
  <2>3. PICK f \in [1 .. Len(written) -> 1 .. tail] : Places(f)
        BY <2>1 DEF WrittenInOrder
  <2>4. Queued'[idx + 1] = c
        BY <2>1, <2>2 DEF Queued, Inv, TypeOK
  <2>5. \A i \in 1 .. idx : Queued'[i] = Queued[i]
        BY <2>1, <2>2 DEF Queued, Inv, TypeOK
  <2>6. \A i \in idx + 1 .. tail : Queued[i] \notin Chars
        BY <2>2
  <2>q. QED
        BY <2>1, <2>2, <2>3, <2>4, <2>5, <2>6, OneMorePlace
<1>12. CASE Output
      BY <1>1, <1>12 DEF Output
<1>13. CASE OutputFails
      BY <1>1, <1>13 DEF OutputFails, ring
<1>14. CASE UNCHANGED vars
      BY <1>1, <1>14 DEF vars, ring, hist
<1>q. QED
      BY <1>3, <1>4, <1>5, <1>6, <1>7, <1>8, <1>9, <1>10, <1>11, <1>12, <1>13, <1>14 DEF Next, TtyWriteStep

LEMMA InvAlways == Spec => []Inv
<1>1. Inv /\ [Next]_vars => Inv'
      BY TypeStep, PhaseStep, QueueStep, OutputStep DEF Inv, TInv
<1>q. QED
      BY InitInv, <1>1, PTL DEF Spec

-----------------------------------------------------------------------------

\* The inductive invariant: types, the backlog in the middle of a call too, and after
\* sched_init nothing past the first of the words at address zero.
THEOREM TtyInvariant == Spec => []TInv
  BY InvAlways, PTL DEF Inv

\* Between calls of tty_write the bytes queued and not printed are exactly those
\* typed and those that found no scratch buffer, wherever keys interrupt it.
THEOREM TtyBacklogAccounted == Spec => []BacklogAccounted
<1>1. Inv => BacklogAccounted
      BY DEF Inv, TypeOK, TInv, QueueInv, SoFar, BacklogAccounted
<1>q. QED
      BY InvAlways, <1>1, PTL

\* Wherever keys interrupt tty_write, its bytes are all queued and in order.
THEOREM TtyWrittenInOrder == Spec => []WrittenInOrder
<1>1. Init => WrittenInOrder
      BY DEF Init, WrittenInOrder
<1>q. QED
      BY InvAlways, <1>1, WrittenStep, PTL DEF Spec

\* What fbcon_output_intr prints is what was queued, in order and nothing twice.
THEOREM TtyOutputIsQueued == Spec => []OutputIsQueued
  BY InvAlways, PTL DEF Inv

\* After sched_init tty_write has no effect.
THEOREM TtyNoOutputAfterSchedInit == Spec => NoOutputAfterSchedInit
<1>1. Inv /\ [Next]_vars => (phase = "sched" => UNCHANGED <<written, output, dropped>>)
  <2> SUFFICES ASSUME Inv, [Next]_vars, phase = "sched"
               PROVE  UNCHANGED <<written, output, dropped>>
        OBVIOUS
  <2>1. pc = "idle" /\ size = 0
        BY DEF Inv, TInv, PhaseInv
  <2>q. QED
        BY <2>1 DEF Next, TtyCreate, TtyCreateFails, KeyboardInit, SchedInit, Key, Refuse, Call,
           TtyWriteStep, Load, StoreByte, Output, OutputFails, vars, hist
<1>q. QED
      BY InvAlways, <1>1, PTL DEF Spec, NoOutputAfterSchedInit

=============================================================================
