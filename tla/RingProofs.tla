----------------------------- MODULE RingProofs -----------------------------
(* A ring_buffer of any size implements the queue of Fifo. *)
EXTENDS Ring, TLAPS, SequenceTheorems

USE DEF RingAssumption

Inv == TypeOK /\ Distance /\ WrittenInv

LEMMA InitInv ==
  ASSUME RingAssumption, Init
  PROVE  Inv
<1>1. TypeOK
      BY RingAssumption DEF Init, TypeOK, Room
<1>2. Distance /\ WrittenInv
      BY RingAssumption DEF Init, Distance, WrittenInv, Around, Wrapped, Room
<1>q. QED
      BY <1>1, <1>2 DEF Inv

\* What a write does to the contents: the byte is put behind them.
LEMMA WriteContents ==
  ASSUME RingAssumption, Inv, NEW ch \in Bytes, Write(ch)
  PROVE  /\ Distance' /\ TypeOK'
         /\ unread' = unread + 1
         /\ Contents'[unread + 1] = ch
         /\ \A i \in 1 .. unread : Contents'[i] = Contents[i]
<1>1. /\ head \in 0 .. Room /\ tail \in 0 .. Room /\ unread \in 0 .. Size /\ unread' = unread + 1
      /\ Wrapped(head) \in 0 .. Size /\ Wrapped(tail) \in 0 .. Size
      /\ Wrapped(tail) = Around(Wrapped(head) + unread)
      /\ head' = head /\ tail' = Wrapped(tail) + 1
      BY RingAssumption DEF Inv, TypeOK, Distance, Write, Room, Wrapped
<1>2. Distance'
      BY <1>1, RingAssumption DEF Distance, Around, Wrapped, Room
<1>3. TypeOK'
      BY <1>1, RingAssumption DEF Write, Inv, TypeOK, Room
<1>4. /\ buffer' = [buffer EXCEPT ![Wrapped(tail)] = ch]
      /\ DOMAIN buffer = 0 .. Size
      BY DEF Write, Inv, TypeOK
<1>5. Contents' = [i \in 1 .. unread + 1 |-> buffer'[Around(Wrapped(head) + i - 1)]]
      BY <1>1 DEF Contents, Wrapped, Around, Room
<1>6. Contents'[unread + 1] = ch
  <2>1. Contents'[unread + 1] = buffer'[Around(Wrapped(head) + unread)]
        BY <1>1, <1>5
  <2>q. QED
        BY <1>1, <1>4, <2>1
<1>7. ASSUME NEW i \in 1 .. unread PROVE Contents'[i] = Contents[i]
  <2>1. Around(Wrapped(head) + i - 1) # Wrapped(tail)
        BY <1>1, RingAssumption DEF Around, Room
  <2>2. Around(Wrapped(head) + i - 1) \in 0 .. Size
        BY <1>1, RingAssumption DEF Around, Room
  <2>q. QED
        BY <1>1, <1>4, <1>5, <2>1, <2>2 DEF Contents
<1>q. QED
      BY <1>1, <1>2, <1>3, <1>6, <1>7

\* What a read does to them: it returns the first len bytes and leaves the rest.
LEMMA ReadContents ==
  ASSUME RingAssumption, Inv, NEW len \in 1 .. Room, Read(len)
  PROVE  /\ Distance'
         /\ unread' = unread - len /\ unread \in 0 .. Room /\ len <= unread
         /\ buf' = [i \in 1 .. len |-> Contents[i]]
         /\ \A i \in 1 .. unread - len : Contents'[i] = Contents[i + len]
<1>1. /\ head \in 0 .. Room /\ tail \in 0 .. Room /\ unread \in 0 .. Room /\ unread' = unread - len
      /\ Wrapped(head) \in 0 .. Size /\ Wrapped(tail) \in 0 .. Size
      /\ Wrapped(tail) = Around(Wrapped(head) + unread)
      /\ head' = Wrapped(head) + len /\ tail' = tail /\ buffer' = buffer
      /\ len <= unread /\ Wrapped(head) + len <= Room
      BY RingAssumption DEF Inv, TypeOK, Distance, Read, Room, Wrapped
<1>2. Distance'
      BY <1>1, RingAssumption DEF Distance, Around, Wrapped, Room
<1>3. buf' = [i \in 1 .. len |-> Contents[i]]
  <2>1. buf' = [i \in 1 .. len |-> buffer[Wrapped(head) + i - 1]]
        BY DEF Read
  <2>2. ASSUME NEW i \in 1 .. len PROVE Contents[i] = buffer[Wrapped(head) + i - 1]
    <3>1. Around(Wrapped(head) + i - 1) = Wrapped(head) + i - 1 /\ i \in 1 .. unread
          BY <1>1, RingAssumption DEF Around, Room
    <3>q. QED
          BY <3>1 DEF Contents
  <2>q. QED
        BY <2>1, <2>2
<1>4. ASSUME NEW i \in 1 .. unread - len PROVE Contents'[i] = Contents[i + len]
  <2>1. Contents'[i] = buffer[Around(Wrapped(head') + i - 1)]
        BY <1>1 DEF Contents, Wrapped, Around, Room
  <2>2. Contents[i + len] = buffer[Around(Wrapped(head) + (i + len) - 1)]
        BY <1>1 DEF Contents
  <2>3. Around(Wrapped(head') + i - 1) = Around(Wrapped(head) + (i + len) - 1)
        BY <1>1, RingAssumption DEF Wrapped, Around, Room
  <2>q. QED
        BY <2>1, <2>2, <2>3
<1>q. QED
      BY <1>1, <1>2, <1>3, <1>4

\* The contents are a sequence of bytes.
LEMMA ContentsSeq ==
  ASSUME RingAssumption, Inv
  PROVE  Contents \in Seq(Bytes) /\ Len(Contents) = unread
<1>1. unread \in Nat
      BY RingAssumption DEF Inv, TypeOK, Room
<1>2. Len(Contents) = unread /\ DOMAIN Contents = 1 .. unread
      BY <1>1 DEF Contents
<1>3. \A i \in 1 .. unread : Contents[i] \in Bytes
      BY DEF Inv, WrittenInv
<1>q. QED
      BY <1>1, <1>2, <1>3 DEF Contents

LEMMA InvStep ==
  ASSUME RingAssumption, Inv, [Next]_vars
  PROVE  Inv'
<1>1. ASSUME NEW ch \in Bytes, Write(ch) PROVE Inv'
  <2>1. \A i \in 1 .. unread + 1 : Contents'[i] \in Bytes
        BY <1>1, WriteContents, ContentsSeq DEF Inv, TypeOK, WrittenInv
  <2>q. QED
        BY <1>1, <2>1, WriteContents DEF Inv, WrittenInv
<1>2. ASSUME NEW len \in 1 .. Room, Read(len) PROVE Inv'
  <2>1. \A i \in 1 .. unread - len : Contents'[i] \in Bytes
        BY <1>2, ReadContents DEF Inv, WrittenInv
  <2>2. buf' \in Seq(Bytes)
    <3>1. len \in Nat /\ \A i \in 1 .. len : Contents[i] \in Bytes
          BY <1>2, ReadContents DEF Inv, WrittenInv
    <3>2. Len(buf') = len /\ DOMAIN buf' = 1 .. len /\ \A i \in 1 .. len : buf'[i] \in Bytes
          BY <1>2, <3>1, ReadContents
    <3>q. QED
          BY <1>2, <3>1, <3>2, ReadContents
  <2>3. TypeOK'
        BY <1>2, <2>2, ReadContents, RingAssumption DEF Read, Inv, TypeOK, Room, Wrapped
  <2>q. QED
        BY <1>2, <2>1, <2>3, ReadContents DEF Inv, WrittenInv
<1>3. CASE UNCHANGED vars
      BY <1>3 DEF vars, Inv, TypeOK, Distance, WrittenInv, Contents, Around, Wrapped, Room
<1>q. QED
      BY <1>1, <1>2, <1>3 DEF Next

LEMMA InvAlways ==
  ASSUME RingAssumption
  PROVE  Spec => []Inv
<1>1. Init => Inv
      BY InitInv
<1>2. Inv /\ [Next]_vars => Inv'
      BY InvStep
<1>q. QED
      BY <1>1, <1>2, PTL DEF Spec

\* The indices and the distance of head and tail, for a ring of any size.
THEOREM RingInvariant ==
  ASSUME RingAssumption
  PROVE  Spec => []RInv
<1>1. Spec => []Inv
      BY InvAlways
<1>q. QED
      BY <1>1, PTL DEF Inv, RInv

\* A step of the ring is a step of the queue.
LEMMA StepRefines ==
  ASSUME RingAssumption, Inv, Inv', [Next]_vars
  PROVE  [Queue!Next]_(Queue!vars)
<1>0. Contents' \in Seq(Bytes) /\ Len(Contents') = unread'
  <2>1. unread' \in Nat
        BY RingAssumption DEF Inv, TypeOK, Room
  <2>2. Len(Contents') = unread' /\ DOMAIN Contents' = 1 .. unread'
        BY <2>1 DEF Contents
  <2>3. \A i \in 1 .. unread' : Contents'[i] \in Bytes
        BY DEF Inv, WrittenInv
  <2>q. QED
        BY <2>1, <2>2, <2>3 DEF Contents
<1>1. ASSUME NEW ch \in Bytes, Write(ch) PROVE Queue!Write(ch)
  <2>1. Contents' = Append(Contents, ch)
    <3>1. Contents' \in Seq(Bytes) /\ Len(Contents') = unread + 1
          BY <1>0, <1>1, WriteContents
    <3>2. Append(Contents, ch) \in Seq(Bytes) /\ Len(Append(Contents, ch)) = unread + 1
          BY <1>1, ContentsSeq
    <3>3. \A i \in 1 .. unread + 1 : Contents'[i] = Append(Contents, ch)[i]
      <4>1. /\ Contents \in Seq(Bytes) /\ Len(Contents) = unread /\ unread \in Nat
            /\ Contents'[unread + 1] = ch
            /\ \A i \in 1 .. unread : Contents'[i] = Contents[i]
            BY <1>1, ContentsSeq, WriteContents DEF Inv, TypeOK, Room
      <4>q. QED
            BY <4>1
    <3>q. QED
          BY <3>1, <3>2, <3>3, SeqEqual
  <2>q. QED
        BY <1>1, <2>1, ContentsSeq DEF Queue!Write, Write
<1>2. ASSUME NEW len \in 1 .. Room, Read(len) PROVE Queue!Read(len)
  <2>1. len \in 1 .. unread /\ unread \in Nat /\ Len(Contents) = unread /\ Contents \in Seq(Bytes)
        BY <1>2, ReadContents, ContentsSeq
  <2>2. buf' = SubSeq(Contents, 1, len)
        BY <1>2, <2>1, ReadContents
  <2>3. Contents' = SubSeq(Contents, len + 1, unread)
    <3>1. Contents' \in Seq(Bytes) /\ Len(Contents') = unread - len
          BY <1>0, <1>2, ReadContents
    <3>2. SubSeq(Contents, len + 1, unread) \in Seq(Bytes)
            /\ Len(SubSeq(Contents, len + 1, unread)) = unread - len
          BY <2>1
    <3>3. \A i \in 1 .. unread - len : Contents'[i] = SubSeq(Contents, len + 1, unread)[i]
          BY <1>2, <2>1, ReadContents
    <3>q. QED
          BY <3>1, <3>2, <3>3, SeqEqual
  <2>q. QED
        BY <2>1, <2>2, <2>3 DEF Queue!Read
<1>3. CASE UNCHANGED vars
      BY <1>3 DEF vars, Queue!vars, Contents, Around, Wrapped, Room
<1>q. QED
      BY <1>1, <1>2, <1>3 DEF Next, Queue!Next

\* The ring implements the queue: whatever is written is read once and in order,
\* for every size and however often head and tail go around.
THEOREM RingImplementsFifo ==
  ASSUME RingAssumption
  PROVE  Spec => RingIsFifo
<1>1. Init => Queue!Init
  <2> SUFFICES ASSUME Init PROVE Queue!Init
        OBVIOUS
  <2>1. Contents = <<>>
        BY DEF Init, Contents
  <2>q. QED
        BY <2>1 DEF Init, Queue!Init
<1>2. Inv /\ Inv' /\ [Next]_vars => [Queue!Next]_(Queue!vars)
      BY StepRefines
<1>3. Spec => []Inv
      BY InvAlways
<1>q. QED
      BY <1>1, <1>2, <1>3, PTL DEF Spec, Queue!Spec, RingIsFifo

=============================================================================
