----------------------------- MODULE FrameProofs -----------------------------
(***************************************************************************)
(* Theorems about the frames of an IUT: about BTPSocket, which cuts them   *)
(* out of the stream, for every header length, every bound on the data and *)
(* every number of frames; and about GapSettings, the cache that two       *)
(* threads write from them, for any set of settings and any number of      *)
(* frames under way.                                                       *)
(***************************************************************************)
EXTENDS BTPSocket, GapSettings, TLAPS

USE HdrLenAssumption, MaxDataAssumption

\* A frame that was sent starts and ends at some position of the stream.
LEMMA EndOfType ==
    ASSUME TypeOK, NEW n \in 0 .. Len(frames)
    PROVE  EndOf(n) \in Nat
<1>1. CASE n = 0
  BY <1>1 DEF EndOf
<1>2. CASE n # 0
  <2>1. frames[n] \in Frame
    BY <1>2 DEF TypeOK
  <2>2. frames[n].start \in Nat /\ frames[n].len \in Nat
    BY <2>1 DEF Frame
  <2>3. QED
    BY <1>2, <2>2 DEF EndOf
<1>3. QED
  BY <1>1, <1>2

\* Whatever header is decoded, its length fits the data buffer.
LEMMA DataLensType ==
    ASSUME TypeOK, NEW p
    PROVE  DataLens(p) \subseteq 0 .. MaxData
<1>1. \A i \in DOMAIN frames : frames[i] \in Frame
  BY DEF TypeOK
<1>2. \A i \in DOMAIN frames : frames[i].len \in 0 .. MaxData
  BY <1>1 DEF Frame
<1>3. QED
  BY <1>2 DEF DataLens

LEMMA ReturnType ==
    ASSUME TypeOK, NEW p \in Nat, NEW len \in 0 .. MaxData, Return(p, len)
    PROVE  reader' \in {"idle", "hdr", "data"} /\ returned' \in Seq(Frame)
<1>1. [start |-> p, len |-> len] \in Frame
  BY DEF Frame
<1>2. QED
  BY <1>1 DEF TypeOK, Return

LEMMA TypeInit == Init => TypeOK
<1> SUFFICES ASSUME Init
             PROVE  TypeOK
  OBVIOUS
<1>1. torn \in BOOLEAN
  BY DEF Init
<1>2. frames \in Seq(Frame) /\ returned \in Seq(Frame)
  BY DEF Init
<1>3. /\ arrived \in Nat /\ taken \in Nat /\ base \in Nat
      /\ hdrLeft \in 0 .. HDR_LEN
      /\ dataLen \in 0 .. MaxData /\ dataLeft \in 0 .. MaxData
  BY DEF Init
<1>4. /\ sock \in {"none", "listening", "closed"}
      /\ conn \in {"none", "up"}
      /\ peer \in {"absent", "connected", "gone"}
      /\ reader \in {"idle", "hdr", "data"}
  BY DEF Init
<1>5. QED
  BY <1>1, <1>2, <1>3, <1>4 DEF TypeOK

LEMMA TypeStep == TypeOK /\ [Next]_vars => TypeOK'
<1> SUFFICES ASSUME TypeOK, [Next]_vars
             PROVE  TypeOK'
  OBVIOUS
<1> USE DEF TypeOK, line, stream, gathering
<1>1. CASE PeerConnect
  BY <1>1 DEF PeerConnect
<1>2. ASSUME NEW len \in 0 .. MaxData, PeerSend(len)
      PROVE  TypeOK'
  <2>1. [start |-> EndOf(Len(frames)), len |-> len] \in Frame
    BY EndOfType DEF Frame
  <2>2. QED
    BY <1>2, <2>1 DEF PeerSend
<1>3. ASSUME NEW n \in 1 .. HDR_LEN + MaxData, Arrive(n)
      PROVE  TypeOK'
  BY <1>3 DEF Arrive
<1>4. CASE PeerClose
  BY <1>4 DEF PeerClose
<1>5. CASE Open
  BY <1>5 DEF Open
<1>6. CASE Accept
  BY <1>6 DEF Accept
<1>7. CASE Read
  BY <1>7 DEF Read
<1>8. ASSUME NEW n \in 1 .. HDR_LEN + MaxData, RecvHdr(n)
      PROVE  TypeOK'
  <2>1. /\ taken' \in Nat /\ hdrLeft' \in 0 .. HDR_LEN
        /\ UNCHANGED <<sock, conn, peer, frames, arrived, base, torn>>
    BY <1>8 DEF RecvHdr
  <2>2. /\ dataLen' \in 0 .. MaxData /\ dataLeft' \in 0 .. MaxData
        /\ reader' \in {"idle", "hdr", "data"}
        /\ returned' \in Seq(Frame)
    <3>1. CASE n < hdrLeft
      BY <1>8, <3>1 DEF RecvHdr
    <3>2. CASE n = hdrLeft
      <4>1. dataLen' \in 0 .. MaxData /\ dataLeft' = dataLen'
        BY <1>8, <3>2, DataLensType DEF RecvHdr
      <4>2. CASE dataLen' = 0
        BY <1>8, <3>2, <4>1, <4>2, ReturnType DEF RecvHdr
      <4>3. CASE dataLen' # 0
        BY <1>8, <3>2, <4>1, <4>3 DEF RecvHdr
      <4>4. QED
        BY <4>1, <4>2, <4>3
    <3>3. QED
      BY <1>8, <3>1, <3>2 DEF RecvHdr
  <2>3. QED
    BY <2>1, <2>2
<1>9. ASSUME NEW n \in 1 .. HDR_LEN + MaxData, RecvData(n)
      PROVE  TypeOK'
  <2>1. CASE n = dataLeft
    BY <1>9, <2>1, ReturnType DEF RecvData
  <2>2. CASE n # dataLeft
    BY <1>9, <2>2 DEF RecvData
  <2>3. QED
    BY <2>1, <2>2
<1>10. CASE Timeout
  BY <1>10 DEF Timeout
<1>11. CASE Close
  BY <1>11 DEF Close
<1>12. CASE UNCHANGED vars
  BY <1>12 DEF vars
<1>13. QED
  BY <1>1, <1>2, <1>3, <1>4, <1>5, <1>6, <1>7, <1>8, <1>9, <1>10, <1>11,
     <1>12 DEF Next, Recv

\* The variables of a read keep their types: what recv_into() takes never
\* exceeds what is still missing of the header or of the data.
THEOREM TypeCorrect == Spec => []TypeOK
BY TypeInit, TypeStep, PTL DEF Spec

-----------------------------------------------------------------------------
\* A header gathered where a frame starts decodes to the length of that frame.
LEMMA HeaderAtFrame ==
    ASSUME TypeOK, Contiguous, NEW k \in 1 .. Len(frames)
    PROVE  DataLens(EndOf(k - 1)) = {frames[k].len}
<1>1. ASSUME NEW i \in 1 .. Len(frames)
      PROVE  /\ frames[i].start \in Nat /\ EndOf(i) \in Nat
             /\ frames[i].start < EndOf(i)
  <2>1. frames[i] \in Frame
    BY DEF TypeOK
  <2>2. frames[i].start \in Nat /\ frames[i].len \in Nat
    BY <2>1 DEF Frame
  <2>3. EndOf(i) = frames[i].start + HDR_LEN + frames[i].len
    BY DEF EndOf
  <2>4. QED
    BY <2>2, <2>3
<1>2. DOMAIN frames = 1 .. Len(frames)
  BY DEF TypeOK
<1>3. frames[k].start = EndOf(k - 1)
  BY <1>2 DEF Contiguous
<1>4. ASSUME NEW i \in 1 .. Len(frames), frames[i].start = EndOf(k - 1)
      PROVE  i = k
  <2>1. frames[i].start < EndOf(i) /\ frames[k].start < EndOf(k)
    BY <1>1
  <2>2. ~(i < k)
    <3> SUFFICES ASSUME i < k
                 PROVE  FALSE
      OBVIOUS
    <3>1. EndOf(i) <= frames[k].start
      BY <1>2 DEF Contiguous
    <3>2. QED
      BY <1>1, <1>3, <1>4, <2>1, <3>1
  <2>3. ~(k < i)
    <3> SUFFICES ASSUME k < i
                 PROVE  FALSE
      OBVIOUS
    <3>1. EndOf(k) <= frames[i].start
      BY <1>2 DEF Contiguous
    <3>2. QED
      BY <1>1, <1>3, <1>4, <2>1, <3>1
  <2>4. QED
    BY <2>2, <2>3
<1>5. {i \in DOMAIN frames : frames[i].start = EndOf(k - 1)} = {k}
  BY <1>2, <1>3, <1>4
<1>6. QED
  BY <1>5 DEF DataLens

\* A byte behind the first k frames has arrived only if one more was sent.
LEMMA FrameSent ==
    ASSUME TypeOK, Bytes, NEW k \in 0 .. Len(frames),
           NEW p \in Nat, EndOf(k) < p, p <= arrived
    PROVE  k < Len(frames)
<1>1. EndOf(k) \in Nat /\ EndOf(Len(frames)) \in Nat
  BY EndOfType DEF TypeOK
<1>2. QED
  BY <1>1 DEF TypeOK, Bytes

-----------------------------------------------------------------------------
\* What a step that leaves the stream alone leaves alone with it.
LEMMA StreamUnchanged ==
    ASSUME UNCHANGED frames
    PROVE  /\ Contiguous => Contiguous'
           /\ \A n : EndOf(n)' = EndOf(n)
BY DEF Contiguous, EndOf

LEMMA InductiveInit == Init => IInv
<1> SUFFICES ASSUME Init
             PROVE  IInv
  OBVIOUS
<1>1. TypeOK
  BY TypeInit
<1>2. Contiguous
  BY DEF Init, Contiguous
<1>3. Bytes
  BY DEF Init, Bytes, EndOf
<1>4. Intact
  BY DEF Init, Intact
<1>5. Aligned
  BY <1>4 DEF Init, Aligned, EndOf
<1>6. QED
  BY <1>1, <1>2, <1>3, <1>5 DEF IInv

\* Sending a frame puts it behind all others and moves none of them.
LEMMA PeerSendStep ==
    ASSUME IInv, TypeOK', NEW len \in 0 .. MaxData, PeerSend(len)
    PROVE  /\ Contiguous' /\ Bytes' /\ Aligned'
           /\ \A i \in 1 .. Len(frames) : frames'[i] = frames[i]
           /\ Len(frames') = Len(frames) + 1
<1>0. PICK L \in Nat : L = Len(frames)
  BY DEF IInv, TypeOK
<1>1. /\ TypeOK /\ Contiguous /\ Bytes /\ Aligned
      /\ DOMAIN frames = 1 .. L
  BY <1>0 DEF IInv, TypeOK
<1>2. /\ Len(frames') = L + 1 /\ DOMAIN frames' = 1 .. L + 1
      /\ \A i \in 1 .. L : frames'[i] = frames[i]
      /\ frames'[L + 1] = [start |-> EndOf(L), len |-> len]
  BY <1>0, <1>1 DEF PeerSend, TypeOK
<1>3. \A n \in 0 .. L : EndOf(n) \in Nat /\ EndOf(n)' = EndOf(n)
  BY <1>0, <1>1, <1>2, EndOfType DEF EndOf
<1>4. EndOf(L + 1)' = EndOf(L) + HDR_LEN + len
  BY <1>1, <1>2 DEF EndOf
<1>5. \A i \in 1 .. L : EndOf(i) <= EndOf(L)
  <2> SUFFICES ASSUME NEW i \in 1 .. L, i # L
               PROVE  EndOf(i) <= EndOf(L)
    BY <1>3
  <2>1. EndOf(i) <= frames[L].start
    BY <1>1 DEF Contiguous
  <2>2. frames[L] \in Frame
    BY <1>0, <1>1 DEF TypeOK
  <2>3. QED
    BY <1>1, <1>3, <2>1, <2>2 DEF EndOf, Frame
<1>6. Contiguous'
  <2>1. ASSUME NEW i \in 1 .. L + 1
        PROVE  frames'[i].start = EndOf(i - 1)'
    <3>1. CASE i = L + 1
      BY <1>1, <1>2, <1>3, <3>1
    <3>2. CASE i # L + 1
      <4>1. i \in 1 .. L /\ i - 1 \in 0 .. L
        BY <1>1, <3>2
      <4>2. frames[i].start = EndOf(i - 1)
        BY <1>1, <4>1 DEF Contiguous
      <4>3. QED
        BY <1>2, <1>3, <4>1, <4>2
    <3>3. QED
      BY <3>1, <3>2
  <2>2. ASSUME NEW i \in 1 .. L + 1, NEW j \in 1 .. L + 1, i < j
        PROVE  EndOf(i)' <= frames'[j].start
    <3>1. i \in 1 .. L /\ EndOf(i)' = EndOf(i)
      BY <1>1, <1>3, <2>2
    <3>2. CASE j = L + 1
      BY <1>2, <1>5, <3>1, <3>2
    <3>3. CASE j # L + 1
      <4>1. j \in 1 .. L
        BY <1>1, <3>3
      <4>2. EndOf(i) <= frames[j].start
        BY <1>1, <2>2, <3>1, <4>1 DEF Contiguous
      <4>3. QED
        BY <1>2, <3>1, <4>1, <4>2
    <3>4. QED
      BY <3>2, <3>3
  <2>3. QED
    BY <1>2, <2>1, <2>2 DEF Contiguous
<1>7. Bytes'
  <2>1. taken' = taken /\ arrived' = arrived
    BY DEF PeerSend
  <2>2. taken \in Nat /\ arrived \in Nat
    BY <1>1 DEF TypeOK
  <2>3. QED
    BY <1>0, <1>1, <1>2, <1>3, <1>4, <2>1, <2>2 DEF Bytes
<1>8. Aligned'
  <2>1. UNCHANGED <<taken, reader, base, hdrLeft, dataLen, dataLeft, returned, torn>>
    BY DEF PeerSend, gathering
  <2> SUFFICES ASSUME ~torn
               PROVE  Aligned'
    BY <2>1 DEF Aligned
  <2>2. Intact /\ Len(returned) \in 0 .. L
    BY <1>0, <1>1 DEF Aligned, Intact, TypeOK
  <2>3. Intact'
    BY <1>1, <1>2, <2>1, <2>2 DEF Intact
  <2>4. EndOf(Len(returned))' = EndOf(Len(returned))
    BY <1>3, <2>1, <2>2
  <2>5. Len(returned) < L => /\ Len(returned) < Len(frames')
                             /\ frames'[Len(returned) + 1] = frames[Len(returned) + 1]
    BY <1>1, <1>2, <2>2
  <2>6. QED
    BY <1>0, <1>1, <2>1, <2>3, <2>4, <2>5 DEF Aligned
<1>9. QED
  BY <1>0, <1>2, <1>6, <1>7, <1>8

\* A read that returns the frame it stands in returns the next frame sent.
LEMMA ReturnNext ==
    ASSUME TypeOK, Contiguous, Intact, UNCHANGED frames,
           NEW k \in Nat, k = Len(returned), k < Len(frames),
           base = EndOf(k), Return(base, frames[k + 1].len)
    PROVE  /\ returned' = Append(returned, frames[k + 1])
           /\ Intact'
           /\ Len(returned') = k + 1
           /\ EndOf(k + 1)' = base + HDR_LEN + frames[k + 1].len
<1>1. frames[k + 1] \in Frame /\ DOMAIN frames = 1 .. Len(frames)
  BY DEF TypeOK
<1>2. frames[k + 1].start = base
  <2>1. k + 1 \in DOMAIN frames /\ (k + 1) - 1 = k
    BY <1>1
  <2>2. QED
    BY <2>1 DEF Contiguous
<1>3. frames[k + 1] = [start |-> base, len |-> frames[k + 1].len]
  BY <1>1, <1>2 DEF Frame
<1>4. returned' = Append(returned, frames[k + 1])
  BY <1>3 DEF Return
<1>5. /\ Len(returned') = k + 1
      /\ \A i \in 1 .. k : returned'[i] = returned[i]
      /\ returned'[k + 1] = frames[k + 1]
  BY <1>1, <1>4 DEF TypeOK
<1>6. Intact'
  BY <1>5 DEF Intact, TypeOK
<1>7. EndOf(k + 1)' = base + HDR_LEN + frames[k + 1].len
  BY <1>2 DEF EndOf
<1>8. QED
  BY <1>4, <1>5, <1>6, <1>7

\* A recv_into() of the header loop leaves the read aligned; when it ends the
\* read, it ends it with the next frame.
LEMMA RecvHdrStep ==
    ASSUME IInv, TypeOK', NEW n \in Nat, RecvHdr(n)
    PROVE  /\ Bytes' /\ Aligned'
           /\ \/ UNCHANGED returned
              \/ /\ ~torn => /\ Len(returned) < Len(frames)
                             /\ returned' = Append(returned, frames[Len(returned) + 1])
                 /\ \E f \in Frame : returned' = Append(returned, f)
<1>1. /\ TypeOK /\ Contiguous /\ Bytes /\ Aligned
      /\ UNCHANGED <<frames, arrived, base, torn>>
      /\ reader = "hdr" /\ n \in 1 .. hdrLeft /\ taken + n <= arrived
      /\ taken' = taken + n /\ hdrLeft' = hdrLeft - n
  BY DEF IInv, RecvHdr, stream
<1>2. \A m : EndOf(m)' = EndOf(m)
  BY <1>1, StreamUnchanged
<1>3. Bytes'
  BY <1>1 DEF Bytes, EndOf
<1>4. CASE n < hdrLeft
  <2>1. UNCHANGED <<reader, dataLen, dataLeft, returned>>
    BY <1>4 DEF RecvHdr
  <2>2. Aligned'
    <3> SUFFICES ASSUME ~torn
                 PROVE  Aligned'
      BY <1>1 DEF Aligned
    <3>1. Intact /\ base = EndOf(Len(returned)) /\ taken = base + HDR_LEN - hdrLeft
      BY <1>1 DEF Aligned
    <3>2. Intact'
      BY <1>1, <2>1, <3>1 DEF Intact
    <3>3. EndOf(Len(returned))' = EndOf(Len(returned))
      BY <1>2, <2>1
    <3>4. hdrLeft' > 0 /\ taken' = base + HDR_LEN - hdrLeft'
      BY <1>1, <1>4, <3>1 DEF TypeOK
    <3>5. QED
      BY <1>1, <2>1, <3>1, <3>2, <3>3, <3>4 DEF Aligned
  <2>3. QED
    BY <1>3, <2>1, <2>2
<1>5. CASE n = hdrLeft
  <2>1. /\ dataLen' \in DataLens(base) /\ dataLeft' = dataLen'
        /\ IF dataLen' = 0 THEN Return(base, 0)
                           ELSE reader' = "data" /\ UNCHANGED returned
    BY <1>1, <1>5 DEF RecvHdr
  <2>2. CASE torn
    <3>1. Aligned'
      BY <1>1, <2>2 DEF Aligned
    <3>2. base \in Nat /\ 0 \in 0 .. MaxData
      BY <1>1 DEF TypeOK
    <3>3. [start |-> base, len |-> 0] \in Frame
      BY <3>2 DEF Frame
    <3>4. QED
      BY <1>3, <2>1, <2>2, <3>1, <3>3 DEF Return
  <2>3. CASE ~torn
    <3>0. PICK k \in Nat : k = Len(returned)
      BY <1>1 DEF TypeOK
    <3>1. Intact /\ base = EndOf(k) /\ taken' = base + HDR_LEN /\ k <= Len(frames)
      BY <1>1, <1>5, <2>3, <3>0 DEF Aligned, Intact, TypeOK
    <3>2. k < Len(frames)
      <4>1. base \in Nat /\ base + HDR_LEN \in Nat /\ EndOf(k) < base + HDR_LEN
            /\ k \in 0 .. Len(frames) /\ base + HDR_LEN <= arrived
        BY <1>1, <3>1 DEF TypeOK
      <4>2. QED
        BY <1>1, <4>1, FrameSent
    <3>3. dataLen' = frames[k + 1].len
      <4>1. k + 1 \in 1 .. Len(frames) /\ (k + 1) - 1 = k
        BY <1>1, <3>2 DEF TypeOK
      <4>2. DataLens(base) = {frames[k + 1].len}
        BY <1>1, <3>1, <4>1, HeaderAtFrame
      <4>3. QED
        BY <2>1, <4>2
    <3>4. /\ base' = base /\ taken' = base + HDR_LEN
          /\ dataLeft' = dataLen' /\ base \in Nat /\ dataLen' \in Nat
      <4>1. base \in Nat /\ dataLen' \in Nat
        <5>1. dataLen' \in 0 .. MaxData
          BY DEF TypeOK
        <5>2. QED
          BY <1>1, <5>1 DEF TypeOK
      <4>2. dataLeft' = dataLen'
        BY <2>1
      <4>3. QED
        BY <1>1, <3>1, <4>1, <4>2
    <3>5. CASE dataLen' = 0
      <4>1. Return(base, frames[k + 1].len)
        BY <2>1, <3>3, <3>5
      <4>2. /\ returned' = Append(returned, frames[k + 1])
            /\ Intact' /\ Len(returned') = k + 1
            /\ EndOf(k + 1)' = base + HDR_LEN + frames[k + 1].len
        BY <1>1, <3>0, <3>1, <3>2, <4>1, ReturnNext
      <4>3. reader' = "idle"
        BY <4>1 DEF Return
      <4>4. taken' = EndOf(k + 1)'
        BY <3>3, <3>5, <3>4, <4>2
      <4>5. Aligned'
        BY <4>2, <4>3, <4>4 DEF Aligned
      <4>6. frames[k + 1] \in Frame
        BY <1>1, <3>2 DEF TypeOK
      <4>7. QED
        BY <1>3, <3>0, <3>2, <4>2, <4>5, <4>6
    <3>6. CASE dataLen' # 0
      <4>1. reader' = "data" /\ returned' = returned
        BY <2>1, <3>6
      <4>2. Intact'
        BY <1>1, <3>1, <4>1 DEF Intact
      <4>3. base' = EndOf(Len(returned))'
        BY <1>1, <1>2, <3>0, <3>1, <4>1
      <4>4. dataLeft' \in 1 .. dataLen'
        BY <2>1, <3>6 DEF TypeOK
      <4>5. taken' = base' + HDR_LEN + dataLen' - dataLeft'
        <5>1. \A b, d \in Nat : b + HDR_LEN = b + HDR_LEN + d - d
          OBVIOUS
        <5>2. base + HDR_LEN = base + HDR_LEN + dataLen' - dataLen'
          BY <3>4, <5>1
        <5>3. QED
          BY <3>4, <5>2, Zenon
      <4>6. Aligned'
        BY <1>1, <3>0, <3>2, <3>3, <4>1, <4>2, <4>3, <4>4, <4>5 DEF Aligned
      <4>7. QED
        BY <1>3, <4>1, <4>6
    <3>7. QED
      BY <3>5, <3>6
  <2>4. QED
    BY <2>2, <2>3
<1>6. QED
  BY <1>1, <1>4, <1>5 DEF TypeOK

\* So does one of the data loop.
LEMMA RecvDataStep ==
    ASSUME IInv, TypeOK', NEW n \in Nat, RecvData(n)
    PROVE  /\ Bytes' /\ Aligned'
           /\ \/ UNCHANGED returned
              \/ /\ ~torn => /\ Len(returned) < Len(frames)
                             /\ returned' = Append(returned, frames[Len(returned) + 1])
                 /\ \E f \in Frame : returned' = Append(returned, f)
<1>1. /\ TypeOK /\ Contiguous /\ Bytes /\ Aligned
      /\ UNCHANGED <<frames, arrived, base, dataLen, torn>>
      /\ reader = "data" /\ n \in 1 .. dataLeft /\ taken + n <= arrived
      /\ taken' = taken + n /\ dataLeft' = dataLeft - n
  BY DEF IInv, RecvData, stream
<1>2. \A m : EndOf(m)' = EndOf(m)
  BY <1>1, StreamUnchanged
<1>3. Bytes'
  BY <1>1 DEF Bytes, EndOf
<1>4. CASE n # dataLeft
  <2>1. UNCHANGED <<reader, returned>>
    BY <1>4 DEF RecvData
  <2>2. Aligned'
    <3> SUFFICES ASSUME ~torn
                 PROVE  Aligned'
      BY <1>1 DEF Aligned
    <3>1. /\ Intact /\ base = EndOf(Len(returned))
          /\ taken = base + HDR_LEN + dataLen - dataLeft
          /\ dataLeft \in 1 .. dataLen
      BY <1>1 DEF Aligned
    <3>2. Intact'
      BY <1>1, <2>1, <3>1 DEF Intact
    <3>3. EndOf(Len(returned))' = EndOf(Len(returned))
      BY <1>2, <2>1
    <3>4. /\ dataLeft' \in 1 .. dataLen
          /\ taken' = base + HDR_LEN + dataLen - dataLeft'
      <4>1. /\ base \in Nat /\ dataLen \in Nat /\ dataLeft \in Nat /\ taken \in Nat
            /\ n < dataLeft
        BY <1>1, <1>4 DEF TypeOK
      <4>2. dataLeft' \in 1 .. dataLen
        BY <1>1, <3>1, <4>1
      <4>3. \A b, d, m, t \in Nat : t = b + HDR_LEN + d - m =>
              t + n = b + HDR_LEN + d - (m - n)
        OBVIOUS
      <4>4. QED
        BY <1>1, <3>1, <4>1, <4>2, <4>3
    <3>5. QED
      BY <1>1, <2>1, <3>1, <3>2, <3>3, <3>4 DEF Aligned
  <2>3. QED
    BY <1>3, <2>1, <2>2
<1>5. CASE n = dataLeft
  <2>1. Return(base, dataLen)
    BY <1>5 DEF RecvData
  <2>2. CASE torn
    <3>1. Aligned'
      BY <1>1, <2>2 DEF Aligned
    <3>2. [start |-> base, len |-> dataLen] \in Frame
      BY <1>1 DEF TypeOK, Frame
    <3>3. QED
      BY <1>3, <2>1, <2>2, <3>1, <3>2 DEF Return
  <2>3. CASE ~torn
    <3>1. PICK k \in Nat : k = Len(returned)
      BY <1>1 DEF TypeOK
    <3>2. /\ Intact /\ base = EndOf(k) /\ k < Len(frames)
          /\ dataLen = frames[k + 1].len /\ taken' = base + HDR_LEN + dataLen
      BY <1>1, <1>5, <2>3, <3>1 DEF Aligned, TypeOK
    <3>3. /\ returned' = Append(returned, frames[k + 1])
          /\ Intact' /\ Len(returned') = k + 1
          /\ EndOf(k + 1)' = base + HDR_LEN + frames[k + 1].len
      BY <1>1, <2>1, <3>1, <3>2, ReturnNext
    <3>4. reader' = "idle"
      BY <2>1 DEF Return
    <3>5. Aligned'
      BY <3>2, <3>3, <3>4 DEF Aligned
    <3>6. frames[k + 1] \in Frame
      <4>1. frames \in Seq(Frame)
        BY <1>1 DEF TypeOK
      <4>2. k + 1 \in 1 .. Len(frames)
        BY <3>2, <4>1
      <4>3. QED
        BY <4>1, <4>2
    <3>7. QED
      BY <1>3, <3>1, <3>2, <3>3, <3>5, <3>6
  <2>4. QED
    BY <2>2, <2>3
<1>6. QED
  BY <1>4, <1>5

\* A timeout that tears no frame fell before the first byte of a header.
LEMMA TimeoutStep ==
    ASSUME IInv, TypeOK', Timeout
    PROVE  Bytes' /\ Aligned' /\ (torn' = torn \/ torn' = TRUE)
<1>1. /\ TypeOK /\ Aligned /\ Bytes
      /\ UNCHANGED <<frames, arrived, taken, returned>>
      /\ reader' = "idle" /\ reader \in {"hdr", "data"}
      /\ torn' = (torn \/ taken > base)
  BY DEF IInv, Timeout, stream, TypeOK
<1>2. Bytes'
  BY <1>1 DEF Bytes, EndOf
<1>3. torn \in BOOLEAN
  BY <1>1 DEF TypeOK
<1>4. torn' = torn \/ torn' = TRUE
  BY <1>1, <1>3
<1>5. ASSUME ~torn'
      PROVE  Aligned'
  <2>1. ~torn /\ ~(taken > base)
    BY <1>1, <1>5
  <2>2. /\ Intact /\ base = EndOf(Len(returned))
        /\ taken = base + HDR_LEN - hdrLeft
           \/ (dataLeft \in 1 .. dataLen /\ taken = base + HDR_LEN + dataLen - dataLeft)
    BY <1>1, <2>1 DEF Aligned
  <2>3. taken = base
    BY <1>1, <2>1, <2>2 DEF TypeOK
  <2>4. Intact' /\ EndOf(Len(returned))' = EndOf(Len(returned))
    BY <1>1, <2>2 DEF Intact, EndOf
  <2>5. QED
    BY <1>1, <2>2, <2>3, <2>4 DEF Aligned
<1>6. Aligned'
  BY <1>5 DEF Aligned
<1>7. QED
  BY <1>2, <1>4, <1>6

LEMMA InductiveStep == IInv /\ [Next]_vars => IInv'
<1> SUFFICES ASSUME IInv, [Next]_vars
             PROVE  IInv'
  OBVIOUS
<1>a. TypeOK /\ Contiguous /\ Bytes /\ Aligned
  BY DEF IInv
<1>b. TypeOK'
  BY <1>a, TypeStep
<1>c. ASSUME UNCHANGED <<frames, returned, taken, arrived, reader, torn>>,
             UNCHANGED gathering
      PROVE  IInv'
  BY <1>a, <1>b, <1>c DEF IInv, Contiguous, Bytes, Aligned, Intact, EndOf, gathering
<1>1. CASE PeerConnect
  BY <1>1, <1>c DEF PeerConnect, stream
<1>2. ASSUME NEW len \in 0 .. MaxData, PeerSend(len)
      PROVE  IInv'
  BY <1>2, <1>b, PeerSendStep DEF IInv
<1>3. ASSUME NEW n \in 1 .. HDR_LEN + MaxData, Arrive(n)
      PROVE  IInv'
  <2>1. UNCHANGED <<frames, taken, reader, gathering, returned, torn>>
    BY <1>3 DEF Arrive
  <2>2. Contiguous' /\ \A m : EndOf(m)' = EndOf(m)
    BY <1>a, <2>1, StreamUnchanged
  <2>3. arrived' = arrived + n /\ arrived' <= EndOf(Len(frames))
    BY <1>3 DEF Arrive
  <2>4. Bytes'
    BY <1>a, <2>1, <2>2, <2>3 DEF Bytes, TypeOK
  <2>5. Aligned'
    BY <1>a, <2>1 DEF Aligned, Intact, EndOf, gathering
  <2>6. QED
    BY <1>b, <2>2, <2>4, <2>5 DEF IInv
<1>4. CASE PeerClose
  BY <1>4, <1>c DEF PeerClose, stream
<1>5. CASE Open
  BY <1>5, <1>c DEF Open, stream
<1>6. CASE Accept
  BY <1>6, <1>c DEF Accept, stream
<1>7. CASE Read
  <2>1. /\ UNCHANGED <<frames, arrived, taken, returned, torn>>
        /\ reader = "idle" /\ reader' = "hdr"
        /\ base' = taken /\ hdrLeft' = HDR_LEN
    BY <1>7 DEF Read, stream
  <2>2. Contiguous' /\ Bytes' /\ \A m : EndOf(m)' = EndOf(m)
    BY <1>a, <2>1 DEF Contiguous, Bytes, EndOf
  <2>3. ASSUME ~torn
        PROVE  Aligned'
    <3>1. Intact /\ taken = EndOf(Len(returned))
      BY <1>a, <2>1, <2>3 DEF Aligned
    <3>2. Intact'
      BY <2>1, <3>1 DEF Intact
    <3>3. taken' = base' + HDR_LEN - hdrLeft' /\ hdrLeft' > 0
      <4>1. \A t \in Nat : t = t + HDR_LEN - HDR_LEN
        OBVIOUS
      <4>2. taken = taken + HDR_LEN - HDR_LEN
        BY <1>a, <4>1 DEF TypeOK
      <4>3. QED
        BY <2>1, <4>2
    <3>4. base' = EndOf(Len(returned))'
      BY <2>1, <2>2, <3>1
    <3>5. QED
      BY <2>1, <3>2, <3>3, <3>4 DEF Aligned
  <2>4. Aligned'
    BY <2>1, <2>3 DEF Aligned
  <2>5. QED
    BY <1>b, <2>2, <2>4 DEF IInv
<1>8. ASSUME NEW n \in 1 .. HDR_LEN + MaxData, RecvHdr(n)
      PROVE  IInv'
  <2>1. Contiguous'
    BY <1>8, <1>a, StreamUnchanged DEF RecvHdr, stream
  <2>2. Bytes' /\ Aligned'
    BY <1>8, <1>b, RecvHdrStep
  <2>3. QED
    BY <1>b, <2>1, <2>2 DEF IInv
<1>9. ASSUME NEW n \in 1 .. HDR_LEN + MaxData, RecvData(n)
      PROVE  IInv'
  <2>1. Contiguous'
    BY <1>9, <1>a, StreamUnchanged DEF RecvData, stream
  <2>2. Bytes' /\ Aligned'
    BY <1>9, <1>b, RecvDataStep
  <2>3. QED
    BY <1>b, <2>1, <2>2 DEF IInv
<1>10. CASE Timeout
  <2>1. Contiguous'
    BY <1>10, <1>a, StreamUnchanged DEF Timeout, stream
  <2>2. QED
    BY <1>10, <1>b, <2>1, TimeoutStep DEF IInv
<1>11. CASE Close
  BY <1>11, <1>c DEF Close, stream
<1>12. CASE UNCHANGED vars
  BY <1>12, <1>c DEF vars, stream
<1>13. QED
  BY <1>1, <1>2, <1>3, <1>4, <1>5, <1>6, <1>7, <1>8, <1>9, <1>10, <1>11,
     <1>12 DEF Next, Recv

LEMMA InductiveInvariant == Spec => []IInv
BY InductiveInit, InductiveStep, PTL DEF Spec

\* Between reads the stream stands at a frame boundary, unless a timeout has
\* dropped part of a frame.
THEOREM ReadStartsAtFrameCorrect == Spec => []ReadStartsAtFrame
<1>1. IInv => ReadStartsAtFrame
  BY DEF IInv, Aligned, ReadStartsAtFrame
<1>2. QED
  BY <1>1, InductiveInvariant, PTL

\* Until then the frames read() returned are the first ones the IUT sent.
THEOREM FramesIntactCorrect == Spec => []FramesIntact
<1>1. IInv => FramesIntact
  BY DEF IInv, Aligned, FramesIntact
<1>2. QED
  BY <1>1, InductiveInvariant, PTL

-----------------------------------------------------------------------------
\* Every step of the socket is a step of the channel or leaves it alone.
LEMMA ChannelStep == IInv /\ IInv' /\ [Next]_vars => [Channel!Next]_(Channel!vars)
<1> SUFFICES ASSUME IInv, IInv', [Next]_vars
             PROVE  Channel!Next \/ UNCHANGED <<frames, returned, torn>>
  BY DEF Channel!vars
<1>a. TypeOK /\ TypeOK'
  BY DEF IInv
<1>b. ASSUME UNCHANGED <<frames, torn>>,
             \/ UNCHANGED returned
             \/ /\ ~torn => /\ Len(returned) < Len(frames)
                            /\ returned' = Append(returned, frames[Len(returned) + 1])
                /\ \E f \in Frame : returned' = Append(returned, f)
      PROVE  Channel!Next \/ UNCHANGED <<frames, returned, torn>>
  <2>1. CASE UNCHANGED returned
    BY <1>b, <2>1
  <2>2. CASE ~torn /\ ~UNCHANGED returned
    <3>1. Channel!Deliver
      BY <1>b, <2>2 DEF Channel!Deliver
    <3>2. QED
      BY <3>1 DEF Channel!Next
  <2>3. CASE torn /\ ~UNCHANGED returned
    <3>1. PICK f \in Frame : returned' = Append(returned, f)
      BY <1>b, <2>3
    <3>2. Channel!Extends(returned', returned)
      BY <1>a, <3>1 DEF Channel!Extends, TypeOK
    <3>3. Channel!DeliverGarbage
      BY <1>b, <2>3, <3>2 DEF Channel!DeliverGarbage
    <3>4. QED
      BY <3>3 DEF Channel!Next
  <2>4. QED
    BY <2>1, <2>2, <2>3
<1>1. ASSUME NEW len \in 0 .. MaxData, PeerSend(len)
      PROVE  Channel!Next
  <2>1. Channel!Extends(frames', frames)
    BY <1>a, <1>1, PeerSendStep DEF Channel!Extends
  <2>2. Channel!Send
    BY <1>1, <2>1 DEF Channel!Send, PeerSend
  <2>3. QED
    BY <2>2 DEF Channel!Next
<1>2. ASSUME NEW n \in 1 .. HDR_LEN + MaxData, RecvHdr(n)
      PROVE  Channel!Next \/ UNCHANGED <<frames, returned, torn>>
  <2>1. UNCHANGED <<frames, torn>>
    BY <1>2 DEF RecvHdr, stream
  <2>2. QED
    BY <1>2, <1>a, <1>b, <2>1, RecvHdrStep
<1>3. ASSUME NEW n \in 1 .. HDR_LEN + MaxData, RecvData(n)
      PROVE  Channel!Next \/ UNCHANGED <<frames, returned, torn>>
  <2>1. UNCHANGED <<frames, torn>>
    BY <1>3 DEF RecvData, stream
  <2>2. QED
    BY <1>3, <1>a, <1>b, <2>1, RecvDataStep
<1>4. CASE Timeout
  <2>1. UNCHANGED <<frames, returned>> /\ (torn' = torn \/ torn' = TRUE)
    BY <1>4, <1>a, TimeoutStep DEF Timeout, stream
  <2>2. QED
    BY <2>1 DEF Channel!Next, Channel!Break
<1>5. CASE \/ PeerConnect \/ PeerClose \/ Open \/ Accept \/ Read \/ Close
           \/ \E n \in 1 .. HDR_LEN + MaxData : Arrive(n)
           \/ UNCHANGED vars
  BY <1>5 DEF PeerConnect, PeerClose, Open, Accept, Read, Close, Arrive, vars, stream
<1>6. QED
  BY <1>1, <1>2, <1>3, <1>4, <1>5 DEF Next, Recv

\* read() implements the channel: frames come back whole, once each and in
\* order, until a timeout falls inside one.
THEOREM ChannelImplemented == Spec => ImplementsChannel
<1>1. Init => Channel!Init
  BY DEF Init, Channel!Init
<1>2. QED
  BY <1>1, ChannelStep, InductiveInvariant, PTL DEF Spec, ImplementsChannel, Channel!Spec

-----------------------------------------------------------------------------
(* The cache of settings.                                                    *)

\* Settings are the same when all their bits are.
LEMMA SettingsEqual ==
    \A f, g \in Settings : (\A b \in Bit : f[b] = g[b]) => f = g
BY DEF Settings

\* A stream of one frame has the same first and last frame.
LEMMA LastOne ==
    \A s \in Seq(Report) : s # <<>> /\ Tail(s) = <<>> => Head(s) = s[Len(s)]
<1> SUFFICES ASSUME NEW s \in Seq(Report), s # <<>>, Tail(s) = <<>>
             PROVE  Head(s) = s[Len(s)]
  OBVIOUS
<1>1. Len(s) = 1
  <2>1. Len(Tail(s)) = Len(s) - 1
    OBVIOUS
  <2>2. Len(s) \in Nat /\ Len(<<>>) = 0
    OBVIOUS
  <2>3. Len(Tail(s)) = Len(<<>>)
    BY Zenon
  <2>4. \A n \in Nat : n - 1 = 0 => n = 1
    OBVIOUS
  <2>5. QED
    BY <2>1, <2>2, <2>3, <2>4, Zenon
<1>2. QED
  BY <1>1

\* Nothing is under way and the cache is all False, as the updates yet to come.
LEMMA CacheInitInv == CacheInit => CacheInv
<1> SUFFICES ASSUME CacheInit
             PROVE  CacheInv
  OBVIOUS
<1>1. CacheTypeOK
  <2>1. NoSettings \in Settings
    BY DEF NoSettings, Settings
  <2>2. <<>> \in Seq(Report) /\ DOMAIN <<>> = {}
    OBVIOUS
  <2>3. QED
    BY <2>1, <2>2 DEF CacheInit, CacheTypeOK
<1>2. OneResponse /\ NewestInFlight
  BY DEF CacheInit, OneResponse, NewestInFlight
<1>3. NewestWins /\ Written
  BY DEF CacheInit, NewestWins, Written
<1>4. QED
  BY <1>1, <1>2, <1>3 DEF CacheInv

-----------------------------------------------------------------------------
\* An answer is the newest report, and the only response.
LEMMA AnswerStep ==
    ASSUME CacheInv, NEW s \in Settings, NEW c \in Command \cup {ReadCtrlInfo}, Answer(c, s)
    PROVE  CacheInv'
<1> USE DEF CacheInv
<1>1. CacheTypeOK'
  <2>1. [kind |-> "rsp", settings |-> s] \in Report
    BY DEF Report, CacheTypeOK
  <2>2. flight' \in Seq(Report)
    BY <2>1 DEF Answer, CacheTypeOK
  <2>3. QED
    BY <2>2 DEF CacheTypeOK, Answer, iutVars, rxVars, mainVars, cacheVars
<1>2. OneResponse'
  BY DEF OneResponse, Answer, CacheTypeOK, iutVars, rxVars, mainVars, cacheVars
<1>3. NewestInFlight'
  BY DEF NewestInFlight, Answer, CacheTypeOK, iutVars, rxVars, mainVars, cacheVars
<1>4. NewestWins'
  BY DEF NewestWins, Answer, CacheTypeOK, iutVars, rxVars, mainVars, cacheVars
<1>5. Written'
  BY DEF Written, Answer, CacheTypeOK, iutVars, rxVars, mainVars, cacheVars
<1>6. QED
  BY <1>1, <1>2, <1>3, <1>4, <1>5

\* An event is the newest report.
LEMMA ChangeItselfStep ==
    ASSUME CacheInv, NEW s \in Settings, ChangeItself(s)
    PROVE  CacheInv'
<1> USE DEF CacheInv
<1>1. CacheTypeOK'
  <2>1. [kind |-> "event", settings |-> s] \in Report
    BY DEF Report, CacheTypeOK
  <2>2. flight' \in Seq(Report)
    BY <2>1 DEF ChangeItself, CacheTypeOK
  <2>3. QED
    BY <2>2 DEF CacheTypeOK, ChangeItself, iutVars, rxVars, mainVars, cacheVars
<1>2. OneResponse'
  BY DEF OneResponse, ChangeItself, CacheTypeOK, iutVars, rxVars, mainVars, cacheVars
<1>3. NewestInFlight'
  BY DEF NewestInFlight, ChangeItself, CacheTypeOK, iutVars, rxVars, mainVars, cacheVars
<1>4. NewestWins'
  BY DEF NewestWins, ChangeItself, CacheTypeOK, iutVars, rxVars, mainVars, cacheVars
<1>5. Written'
  BY DEF Written, ChangeItself, CacheTypeOK, iutVars, rxVars, mainVars, cacheVars
<1>6. QED
  BY <1>1, <1>2, <1>3, <1>4, <1>5

\* A response queued is newer than whatever is applied.
LEMMA RxResponseStep ==
    ASSUME CacheInv, RxResponse
    PROVE  CacheInv'
<1> USE DEF CacheInv
<1>1. CacheTypeOK'
  <2>1. Head(flight) \in Report /\ flight' \in Seq(Report)
    BY DEF RxResponse, CacheTypeOK
  <2>2. rspq = <<>>
    BY DEF OneResponse, RxResponse, CacheTypeOK
  <2>3. rspq' = <<Head(flight)>>
    BY <2>1, <2>2 DEF RxResponse
  <2>4. rspq' \in Seq(Report) /\ \A i \in DOMAIN rspq' : rspq'[i].kind = "rsp"
    <3>1. Head(flight).kind = "rsp"
      BY DEF RxResponse
    <3>2. \A f : <<f>> \in Seq({f}) /\ DOMAIN <<f>> = {1} /\ <<f>>[1] = f
      OBVIOUS
    <3>3. QED
      BY <2>1, <2>3, <3>1, <3>2
  <2>5. QED
    BY <2>1, <2>4 DEF CacheTypeOK, RxResponse, iutVars, rxVars, mainVars, cacheVars
<1>2. OneResponse'
  BY DEF OneResponse, RxResponse, CacheTypeOK, iutVars, rxVars, mainVars, cacheVars
<1>3. NewestInFlight'
  BY DEF NewestInFlight, RxResponse, CacheTypeOK, iutVars, rxVars, mainVars, cacheVars
<1>4. NewestWins'
  <2>1. rspq = <<>> /\ main \in {"reading", "sent", "failed"}
    BY DEF OneResponse, RxResponse, CacheTypeOK
  <2>2. rspq' = <<Head(flight)>>
    BY <2>1 DEF RxResponse, CacheTypeOK
  <2>3. flight' = <<>> => Head(flight).settings = iut
    BY LastOne DEF NewestInFlight, RxResponse, CacheTypeOK
  <2>4. QED
    BY <2>1, <2>2, <2>3 DEF NewestWins, RxResponse, CacheTypeOK, iutVars, rxVars, mainVars, cacheVars
<1>5. Written'
  BY DEF Written, RxResponse, CacheTypeOK, iutVars, rxVars, mainVars, cacheVars
<1>6. QED
  BY <1>1, <1>2, <1>3, <1>4, <1>5

\* An event is newer than a response that waits, and remembers that it overtook it.
LEMMA RxEventStep ==
    ASSUME CacheInv, RxEvent
    PROVE  CacheInv'
<1> USE DEF CacheInv
<1>1. CacheTypeOK'
  <2>1. Head(flight) \in Report /\ flight' \in Seq(Report)
    BY DEF RxEvent, CacheTypeOK
  <2>2. Head(flight).settings \in Settings
    BY <2>1 DEF Report
  <2>3. raced' \in BOOLEAN /\ overlap' \in BOOLEAN
    BY DEF RxEvent, CacheTypeOK
  <2>4. rx' \in {"idle", "update", "dead"} /\ rxNew' \in Settings /\ rxTodo' \in SUBSET Bit
    BY <2>2 DEF RxEvent, CacheTypeOK
  <2>5. QED
    BY <2>1, <2>3, <2>4 DEF CacheTypeOK, RxEvent, iutVars, rxVars, mainVars, cacheVars
<1>2. OneResponse'
  BY DEF OneResponse, RxEvent, CacheTypeOK, iutVars, rxVars, mainVars, cacheVars
<1>3. NewestInFlight'
  BY DEF NewestInFlight, RxEvent, CacheTypeOK, iutVars, rxVars, mainVars, cacheVars
<1>4. NewestWins'
  <2>1. flight' = <<>> => Head(flight).settings = iut
    BY LastOne DEF NewestInFlight, RxEvent, CacheTypeOK
  <2>2. CASE main = "registered"
    BY <2>2 DEF NewestWins, RxEvent, CacheTypeOK, iutVars, rxVars, mainVars, cacheVars
  <2>3. CASE main # "registered"
    BY <2>1, <2>3 DEF NewestWins, RxEvent, CacheTypeOK, iutVars, rxVars, mainVars, cacheVars
  <2>4. QED
    BY <2>2, <2>3
<1>5. Written'
  BY DEF Written, RxEvent, CacheTypeOK, iutVars, rxVars, mainVars, cacheVars
<1>6. QED
  BY <1>1, <1>2, <1>3, <1>4, <1>5

\* The receive thread writes one bit.
LEMMA RxSetStep ==
    ASSUME CacheInv, NEW b \in Bit, RxSet(b)
    PROVE  CacheInv'
<1> USE DEF CacheInv
<1>1. CacheTypeOK'
  <2>1. cache' \in Settings
    BY DEF RxSet, CacheTypeOK, Settings
  <2>2. QED
    BY <2>1 DEF CacheTypeOK, RxSet, iutVars, rxVars, mainVars, cacheVars
<1>2. OneResponse'
  BY DEF OneResponse, RxSet, CacheTypeOK, iutVars, rxVars, mainVars, cacheVars
<1>3. NewestInFlight'
  BY DEF NewestInFlight, RxSet, CacheTypeOK, iutVars, rxVars, mainVars, cacheVars
<1>4. NewestWins'
  BY DEF NewestWins, RxSet, CacheTypeOK, iutVars, rxVars, mainVars, cacheVars
<1>5. Written'
  <2>1. cache' = [cache EXCEPT ![b] = rxNew[b]] /\ cache \in [Bit -> BOOLEAN]
    BY DEF RxSet, CacheTypeOK, Settings
  <2>2. QED
    BY <2>1 DEF Written, RxSet, iutVars, rxVars, mainVars, cacheVars
<1>6. QED
  BY <1>1, <1>2, <1>3, <1>4, <1>5

\* It has written all of them.
LEMMA RxDoneStep ==
    ASSUME CacheInv, RxDone
    PROVE  CacheInv'
<1> USE DEF CacheInv
<1> DEFINE Complete == ~overlap => cache = rxNew
<1>0. Complete
  BY SettingsEqual DEF Written, RxDone, CacheTypeOK
<1>1. CacheTypeOK'
  BY <1>0 DEF CacheTypeOK, RxDone, iutVars, rxVars, mainVars, cacheVars
<1>2. OneResponse'
  BY <1>0 DEF OneResponse, RxDone, CacheTypeOK, iutVars, rxVars, mainVars, cacheVars
<1>3. NewestInFlight'
  BY <1>0 DEF NewestInFlight, RxDone, CacheTypeOK, iutVars, rxVars, mainVars, cacheVars
<1>4. NewestWins'
  BY <1>0 DEF NewestWins, RxDone, CacheTypeOK, iutVars, rxVars, mainVars, cacheVars
<1>5. Written'
  BY <1>0 DEF Written, RxDone, CacheTypeOK, iutVars, rxVars, mainVars, cacheVars
<1>6. QED
  BY <1>1, <1>2, <1>3, <1>4, <1>5

\* gap_init() empties the cache before anything is read into it.
LEMMA GapInitStep ==
    ASSUME CacheInv, GapInit
    PROVE  CacheInv'
<1> USE DEF CacheInv
<1>0. NoSettings \in Settings /\ rspq = <<>> /\ rx # "update" /\ rxNew = NoSettings
  BY DEF NoSettings, Settings, OneResponse, GapInit
<1>1. CacheTypeOK'
  BY <1>0 DEF CacheTypeOK, GapInit, iutVars, rxVars, mainVars, cacheVars
<1>2. OneResponse'
  BY <1>0 DEF OneResponse, GapInit, CacheTypeOK, iutVars, rxVars, mainVars, cacheVars
<1>3. NewestInFlight'
  BY <1>0 DEF NewestInFlight, GapInit, CacheTypeOK, iutVars, rxVars, mainVars, cacheVars
<1>4. NewestWins'
  BY <1>0 DEF NewestWins, GapInit, CacheTypeOK, iutVars, rxVars, mainVars, cacheVars
<1>5. Written'
  BY <1>0 DEF Written, GapInit, CacheTypeOK, iutVars, rxVars, mainVars, cacheVars
<1>6. QED
  BY <1>1, <1>2, <1>3, <1>4, <1>5

\* A command is sent when no other is outstanding.
LEMMA SendStep ==
    ASSUME CacheInv, NEW c \in Command, Send(c)
    PROVE  CacheInv'
<1> USE DEF CacheInv
<1>1. CacheTypeOK'
  BY DEF CacheTypeOK, Send, iutVars, rxVars, mainVars, cacheVars
<1>2. OneResponse'
  BY DEF OneResponse, Send, CacheTypeOK, iutVars, rxVars, mainVars, cacheVars
<1>3. NewestInFlight'
  BY DEF NewestInFlight, Send, CacheTypeOK, iutVars, rxVars, mainVars, cacheVars
<1>4. NewestWins'
  BY DEF NewestWins, Send, CacheTypeOK, iutVars, rxVars, mainVars, cacheVars
<1>5. Written'
  BY DEF Written, Send, CacheTypeOK, iutVars, rxVars, mainVars, cacheVars
<1>6. QED
  BY <1>1, <1>2, <1>3, <1>4, <1>5

\* The test takes the response.
LEMMA ReadRspStep ==
    ASSUME CacheInv, ReadRsp
    PROVE  CacheInv'
<1> USE DEF CacheInv
<1>1. CacheTypeOK'
  <2>1. Head(rspq) \in Report /\ rspq' \in Seq(Report)
    BY DEF ReadRsp, CacheTypeOK
  <2>2. Head(rspq).settings \in Settings
    BY <2>1 DEF Report
  <2>3. rspq' = <<>>
    BY DEF ReadRsp, OneResponse, CacheTypeOK
  <2>4. overlap' \in BOOLEAN
    BY DEF ReadRsp
  <2>5. QED
    BY <2>1, <2>2, <2>3, <2>4 DEF CacheTypeOK, ReadRsp, iutVars, rxVars, mainVars, cacheVars
<1>2. OneResponse'
  <2>1. rspq' = <<>>
    BY DEF ReadRsp, OneResponse, CacheTypeOK
  <2>2. pending = {} /\ \A i \in DOMAIN flight : flight[i].kind # "rsp"
    BY DEF ReadRsp, OneResponse
  <2>3. rx # "dead"
    BY DEF OneResponse, ReadRsp
  <2>4. QED
    BY <2>1, <2>2, <2>3 DEF OneResponse, ReadRsp, iutVars, rxVars, mainVars, cacheVars
<1>3. NewestInFlight'
  BY DEF NewestInFlight, ReadRsp, CacheTypeOK, iutVars, rxVars, mainVars, cacheVars
<1>4. NewestWins'
  <2>1. rspq' = <<>> /\ Head(rspq) = rspq[1]
    BY DEF ReadRsp, OneResponse, CacheTypeOK
  <2>2. QED
    BY <2>1 DEF NewestWins, ReadRsp, CacheTypeOK, iutVars, rxVars, mainVars, cacheVars
<1>5. Written'
  BY DEF Written, ReadRsp, CacheTypeOK, iutVars, rxVars, mainVars, cacheVars
<1>6. QED
  BY <1>1, <1>2, <1>3, <1>4, <1>5

\* The test writes one bit.
LEMMA SetStep ==
    ASSUME CacheInv, NEW b \in Bit, Set(b)
    PROVE  CacheInv'
<1> USE DEF CacheInv
<1>1. CacheTypeOK'
  <2>1. cache' \in Settings
    BY DEF Set, CacheTypeOK, Settings
  <2>2. QED
    BY <2>1 DEF CacheTypeOK, Set, iutVars, rxVars, mainVars, cacheVars
<1>2. OneResponse'
  BY DEF OneResponse, Set, CacheTypeOK, iutVars, rxVars, mainVars, cacheVars
<1>3. NewestInFlight'
  BY DEF NewestInFlight, Set, CacheTypeOK, iutVars, rxVars, mainVars, cacheVars
<1>4. NewestWins'
  BY DEF NewestWins, Set, CacheTypeOK, iutVars, rxVars, mainVars, cacheVars
<1>5. Written'
  <2>1. cache' = [cache EXCEPT ![b] = mainNew[b]] /\ cache \in [Bit -> BOOLEAN]
    BY DEF Set, CacheTypeOK, Settings
  <2>2. QED
    BY <2>1 DEF Written, Set, iutVars, rxVars, mainVars, cacheVars
<1>6. QED
  BY <1>1, <1>2, <1>3, <1>4, <1>5

\* It has written all of them.
LEMMA DoneStep ==
    ASSUME CacheInv, Done
    PROVE  CacheInv'
<1> USE DEF CacheInv
<1> DEFINE Complete == ~overlap => cache = mainNew
<1>0. Complete
  BY SettingsEqual DEF Written, Done, CacheTypeOK
<1>1. CacheTypeOK'
  BY <1>0 DEF CacheTypeOK, Done, iutVars, rxVars, mainVars, cacheVars
<1>2. OneResponse'
  BY <1>0 DEF OneResponse, Done, CacheTypeOK, iutVars, rxVars, mainVars, cacheVars
<1>3. NewestInFlight'
  BY <1>0 DEF NewestInFlight, Done, CacheTypeOK, iutVars, rxVars, mainVars, cacheVars
<1>4. NewestWins'
  BY <1>0 DEF NewestWins, Done, CacheTypeOK, iutVars, rxVars, mainVars, cacheVars
<1>5. Written'
  BY <1>0 DEF Written, Done, CacheTypeOK, iutVars, rxVars, mainVars, cacheVars
<1>6. QED
  BY <1>1, <1>2, <1>3, <1>4, <1>5

\* Nothing is claimed of a test that failed.
LEMMA FailStep ==
    ASSUME CacheInv, Fail
    PROVE  CacheInv'
<1> USE DEF CacheInv
<1>1. CacheTypeOK'
  BY DEF CacheTypeOK, Fail, iutVars, rxVars, mainVars, cacheVars
<1>2. OneResponse'
  BY DEF OneResponse, Fail, CacheTypeOK, iutVars, rxVars, mainVars, cacheVars
<1>3. NewestInFlight'
  BY DEF NewestInFlight, Fail, CacheTypeOK, iutVars, rxVars, mainVars, cacheVars
<1>4. NewestWins'
  BY DEF NewestWins, Fail, CacheTypeOK, iutVars, rxVars, mainVars, cacheVars
<1>5. Written'
  BY DEF Written, Fail, CacheTypeOK, iutVars, rxVars, mainVars, cacheVars
<1>6. QED
  BY <1>1, <1>2, <1>3, <1>4, <1>5

\* A stutter.
LEMMA StutterStep ==
    ASSUME CacheInv, UNCHANGED cacheVars
    PROVE  CacheInv'
<1> USE DEF CacheInv
<1>1. CacheTypeOK'
  BY DEF CacheTypeOK, iutVars, rxVars, mainVars, cacheVars
<1>2. OneResponse'
  BY DEF OneResponse, CacheTypeOK, iutVars, rxVars, mainVars, cacheVars
<1>3. NewestInFlight'
  BY DEF NewestInFlight, CacheTypeOK, iutVars, rxVars, mainVars, cacheVars
<1>4. NewestWins'
  BY DEF NewestWins, CacheTypeOK, iutVars, rxVars, mainVars, cacheVars
<1>5. Written'
  BY DEF Written, CacheTypeOK, iutVars, rxVars, mainVars, cacheVars
<1>6. QED
  BY <1>1, <1>2, <1>3, <1>4, <1>5

-----------------------------------------------------------------------------
\* Every step of the IUT, the receive thread and the test keeps the invariant.
LEMMA CacheStep == CacheInv /\ [CacheNext]_cacheVars => CacheInv'
<1> SUFFICES ASSUME CacheInv, [CacheNext]_cacheVars
             PROVE  CacheInv'
  OBVIOUS
<1>1. CASE \E s \in Settings :
              \/ \E c \in Command \cup {ReadCtrlInfo} : Answer(c, s)
              \/ ChangeItself(s)
  BY <1>1, AnswerStep, ChangeItselfStep
<1>2. CASE RxResponse \/ RxEvent \/ RxDone
  BY <1>2, RxResponseStep, RxEventStep, RxDoneStep
<1>3. CASE \E b \in Bit : RxSet(b) \/ Set(b)
  BY <1>3, RxSetStep, SetStep
<1>4. CASE GapInit \/ (\E c \in Command : Send(c)) \/ ReadRsp \/ Done \/ Fail
  BY <1>4, GapInitStep, SendStep, ReadRspStep, DoneStep, FailStep
<1>5. CASE UNCHANGED cacheVars
  BY <1>5, StutterStep
<1>6. QED
  BY <1>1, <1>2, <1>3, <1>4, <1>5 DEF CacheNext

\* So it holds of every reachable state.
LEMMA CacheInvariant == CacheSpec => []CacheInv
BY CacheInitInv, CacheStep, PTL DEF CacheSpec

\* The cache, the queue and the two updates keep their types; no event gets
\* into the queue of responses.
THEOREM CacheTypeCorrect == CacheSpec => []CacheTypeOK
<1>1. CacheInv => CacheTypeOK
  BY DEF CacheInv
<1>2. QED
  BY <1>1, CacheInvariant, PTL

\* When nothing is under way the cache shows the IUT's settings, unless an
\* event overtook the response before it.
THEOREM CacheFollowsIutCorrect == CacheSpec => []CacheFollowsIut
<1>1. CacheInv => CacheFollowsIut
  BY DEF CacheInv, OneResponse, NewestWins, CacheFollowsIut
<1>2. QED
  BY <1>1, CacheInvariant, PTL

\* Only two updates at the same time leave the cache with a mixture of reports.
THEOREM CacheNotTornCorrect == CacheSpec => []CacheNotTorn
<1>1. CacheInv => CacheNotTorn
  BY DEF CacheInv, Written, CacheNotTorn
<1>2. QED
  BY <1>1, CacheInvariant, PTL

=============================================================================
