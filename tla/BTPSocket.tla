------------------------------ MODULE BTPSocket ------------------------------
(***************************************************************************)
(* pybtp/btp_socket.py: the byte stream between the tester and one IUT and *)
(* the framing that read() puts on it.                                     *)
(*                                                                         *)
(* A byte is its position in the stream, so what recv_into() takes is an   *)
(* interval of positions and a frame is where it starts and how much data  *)
(* follows its header.  A header gathered anywhere else than at the start  *)
(* of a frame decodes to some length, which is all that is known of it.    *)
(* The IUT, its UART and socat are external: they append frames, deliver   *)
(* bytes at their own pace and may hang up.                                *)
(***************************************************************************)
EXTENDS Naturals, Sequences

CONSTANTS
    HDR_LEN,     \* parser.HDR_LEN
    MaxData,     \* longest data part of a frame
    MaxFrames    \* bound: frames the IUT sends on one connection

ASSUME HdrLenAssumption == HDR_LEN \in Nat \ {0}
ASSUME MaxDataAssumption == MaxData \in Nat

VARIABLES
    sock,        \* self.sock
    conn,        \* self.conn
    peer,        \* the other end of the connection
    frames,      \* frames the IUT has sent
    arrived,     \* bytes that have reached the receive buffer of conn
    taken,       \* bytes recv_into() has taken out of it
    reader,      \* where the thread inside read() is
    base,        \* position of the first byte of hdr
    hdrLeft,     \* toread_hdr_len
    dataLen,     \* tuple_hdr.data_len
    dataLeft,    \* toread_data_len
    returned,    \* frames read() has returned
    torn         \* history: a timeout has dropped bytes already taken

line == <<sock, conn, peer>>
stream == <<frames, arrived>>
gathering == <<base, hdrLeft, dataLen, dataLeft>>
vars == <<line, stream, taken, reader, gathering, returned, torn>>

Frame == [start : Nat, len : 0 .. MaxData]

TypeOK ==
    /\ sock \in {"none", "listening", "closed"}
    /\ conn \in {"none", "up"}
    /\ peer \in {"absent", "connected", "gone"}
    /\ frames \in Seq(Frame)
    /\ arrived \in Nat /\ taken \in Nat
    /\ reader \in {"idle", "hdr", "data"}
    /\ base \in Nat
    /\ hdrLeft \in 0 .. HDR_LEN
    /\ dataLen \in 0 .. MaxData
    /\ dataLeft \in 0 .. MaxData
    /\ returned \in Seq(Frame)
    /\ torn \in BOOLEAN

-----------------------------------------------------------------------------
\* Where the n-th frame ends; frame n + 1 starts there.
EndOf(n) == IF n = 0 THEN 0 ELSE frames[n].start + HDR_LEN + frames[n].len

\* The data_len that dec_hdr() may find in a header gathered from position p.
DataLens(p) ==
    LET at == {i \in DOMAIN frames : frames[i].start = p}
    IN  IF at = {} THEN 0 .. MaxData ELSE {frames[i].len : i \in at}

Init ==
    /\ sock = "none" /\ conn = "none" /\ peer = "absent"
    /\ frames = <<>> /\ arrived = 0
    /\ taken = 0 /\ reader = "idle"
    /\ base = 0 /\ hdrLeft = 0 /\ dataLen = 0 /\ dataLeft = 0
    /\ returned = <<>> /\ torn = FALSE

-----------------------------------------------------------------------------
\* The IUT: it connects, sends frames, hangs up; its bytes trickle in.

PeerConnect ==
    /\ sock = "listening" /\ peer = "absent"
    /\ peer' = "connected"
    /\ UNCHANGED <<sock, conn, stream, taken, reader, gathering, returned, torn>>

PeerSend(len) ==
    /\ peer = "connected"
    /\ Len(frames) < MaxFrames
    /\ frames' = Append(frames, [start |-> EndOf(Len(frames)), len |-> len])
    /\ UNCHANGED <<line, arrived, taken, reader, gathering, returned, torn>>

Arrive(n) ==
    /\ peer = "connected"
    /\ arrived + n <= EndOf(Len(frames))
    /\ arrived' = arrived + n
    /\ UNCHANGED <<line, frames, taken, reader, gathering, returned, torn>>

PeerClose ==
    /\ peer = "connected"
    /\ peer' = "gone"
    /\ UNCHANGED <<sock, conn, stream, taken, reader, gathering, returned, torn>>

-----------------------------------------------------------------------------
\* The tester.

Open ==
    /\ sock = "none"
    /\ sock' = "listening"
    /\ UNCHANGED <<conn, peer, stream, taken, reader, gathering, returned, torn>>

\* Without a peer, accept() raises socket.timeout and changes nothing here.
Accept ==
    /\ sock = "listening" /\ conn = "none" /\ peer # "absent"
    /\ conn' = "up"
    /\ UNCHANGED <<sock, peer, stream, taken, reader, gathering, returned, torn>>

Read ==
    /\ conn = "up" /\ reader = "idle"
    /\ reader' = "hdr"
    /\ base' = taken
    /\ hdrLeft' = HDR_LEN
    /\ UNCHANGED <<line, stream, taken, dataLen, dataLeft, returned, torn>>

\* read() returns the frame that starts at position p and carries len bytes.
Return(p, len) ==
    /\ reader' = "idle"
    /\ returned' = Append(returned, [start |-> p, len |-> len])

\* Mutant: the header is decoded after one recv_into(), however short.
RecvHdrOnce(n) ==
    /\ reader = "hdr"
    /\ n \in 1 .. hdrLeft /\ taken + n <= arrived
    /\ taken' = taken + n
    /\ hdrLeft' = 0
    /\ dataLen' \in DataLens(base)
    /\ dataLeft' = dataLen'
    /\ IF dataLen' = 0
       THEN Return(base, 0)
       ELSE reader' = "data" /\ UNCHANGED returned
    /\ UNCHANGED <<line, stream, base, torn>>

\* One recv_into() of the header loop; the last one decodes the header, and a
\* frame without data is returned at once.
RecvHdr(n) ==
    /\ reader = "hdr"
    /\ n \in 1 .. hdrLeft /\ taken + n <= arrived
    /\ taken' = taken + n
    /\ hdrLeft' = hdrLeft - n
    /\ \/ /\ n < hdrLeft
          /\ UNCHANGED <<reader, dataLen, dataLeft, returned>>
       \/ /\ n = hdrLeft
          /\ dataLen' \in DataLens(base)
          /\ dataLeft' = dataLen'
          /\ IF dataLen' = 0
             THEN Return(base, 0)
             ELSE reader' = "data" /\ UNCHANGED returned
    /\ UNCHANGED <<line, stream, base, torn>>

\* Mutant: the frame is returned after one recv_into() of its data.
RecvDataOnce(n) ==
    /\ reader = "data"
    /\ n \in 1 .. dataLeft /\ taken + n <= arrived
    /\ taken' = taken + n
    /\ dataLeft' = dataLeft - n
    /\ Return(base, dataLen)
    /\ UNCHANGED <<line, stream, base, hdrLeft, dataLen, torn>>

\* Mutant: recv_into() is not told how many bytes are still missing.
RecvDataUnlimited(n) ==
    /\ reader = "data"
    /\ taken + n <= arrived
    /\ taken' = taken + n
    /\ dataLeft' = dataLeft - n
    /\ IF n = dataLeft
       THEN Return(base, dataLen)
       ELSE UNCHANGED <<reader, returned>>
    /\ UNCHANGED <<line, stream, base, hdrLeft, dataLen, torn>>

\* One recv_into() of the data loop.
RecvData(n) ==
    /\ reader = "data"
    /\ n \in 1 .. dataLeft /\ taken + n <= arrived
    /\ taken' = taken + n
    /\ dataLeft' = dataLeft - n
    /\ IF n = dataLeft
       THEN Return(base, dataLen)
       ELSE UNCHANGED <<reader, returned>>
    /\ UNCHANGED <<line, stream, base, hdrLeft, dataLen, torn>>

\* Mutant: only the header loop runs under a timeout.
TimeoutInHeader ==
    /\ reader = "hdr" /\ taken = arrived /\ peer # "gone"
    /\ reader' = "idle"
    /\ torn' = (torn \/ taken > base)
    /\ UNCHANGED <<line, stream, taken, gathering, returned>>

\* recv_into() finds nothing for the time set by settimeout(): socket.timeout
\* leaves read(), and what hdr and data had gathered is dropped with them.
\* After a hang-up recv_into() returns 0 instead, and the loops spin.
Timeout ==
    /\ reader # "idle" /\ taken = arrived /\ peer # "gone"
    /\ reader' = "idle"
    /\ torn' = (torn \/ taken > base)
    /\ UNCHANGED <<line, stream, taken, gathering, returned>>

\* BTPWorker.close() has joined the thread that reads before it gets here.
Close ==
    /\ sock = "listening" /\ reader = "idle"
    /\ sock' = "closed"
    /\ conn' = "none"
    /\ UNCHANGED <<peer, stream, taken, reader, gathering, returned, torn>>

Recv == \E n \in 1 .. HDR_LEN + MaxData : RecvHdr(n) \/ RecvData(n)

Next ==
    \/ PeerConnect
    \/ \E len \in 0 .. MaxData : PeerSend(len)
    \/ \E n \in 1 .. HDR_LEN + MaxData : Arrive(n)
    \/ PeerClose
    \/ Open
    \/ Accept
    \/ Read
    \/ Recv
    \/ Timeout
    \/ Close

Spec == Init /\ [][Next]_vars

\* The kernel hands bytes over and wakes a recv_into() that has waited long
\* enough; nothing is assumed of the IUT or of the calls the tester makes.
ReadFairness == WF_vars(Recv) /\ WF_vars(Timeout)

FairSpec == Spec /\ ReadFairness

-----------------------------------------------------------------------------
Intact ==
    /\ Len(returned) <= Len(frames)
    /\ \A i \in 1 .. Len(returned) : returned[i] = frames[i]

\* Until a timeout has fallen inside a frame, the frames read() returned are
\* exactly the first ones the IUT sent, whatever pieces they arrived in.
FramesIntact == ~torn => Intact

\* Outside read() the stream stands at a frame boundary: the next header is a
\* header.  A timeout inside a frame is the only thing that ends this.
ReadStartsAtFrame ==
    (~torn /\ reader = "idle") => taken = EndOf(Len(returned))

\* A read() that was started ends, with a frame or with socket.timeout, and
\* with the peer silent in the middle of a frame too; only a peer that hung up
\* can hold it for ever.
ReadEnds == (reader # "idle") ~> (reader = "idle" \/ peer = "gone")

-----------------------------------------------------------------------------
(* The inductive invariant behind FramesIntact, ReadStartsAtFrame and        *)
(* ImplementsChannel.                                                        *)

\* The frames lie one behind the other in the stream.
Contiguous ==
    /\ \A i \in DOMAIN frames : frames[i].start = EndOf(i - 1)
    /\ \A i, j \in DOMAIN frames : i < j => EndOf(i) <= frames[j].start

\* No byte is taken before it has arrived, or arrives before it was sent.
Bytes == taken <= arrived /\ arrived <= EndOf(Len(frames))

\* Where the read in progress stands in the stream, as long as no timeout has
\* torn a frame: in the frame after those already returned.
Aligned ==
    ~torn =>
        /\ Intact
        /\ reader = "idle" => taken = EndOf(Len(returned))
        /\ reader # "idle" => base = EndOf(Len(returned))
        /\ reader = "hdr" => hdrLeft > 0 /\ taken = base + HDR_LEN - hdrLeft
        /\ reader = "data" =>
              /\ Len(returned) < Len(frames)
              /\ dataLen = frames[Len(returned) + 1].len
              /\ dataLeft \in 1 .. dataLen
              /\ taken = base + HDR_LEN + dataLen - dataLeft

IInv == TypeOK /\ Contiguous /\ Bytes /\ Aligned

-----------------------------------------------------------------------------
Channel == INSTANCE FrameChannel
             WITH sent <- frames, got <- returned, broken <- torn

\* read() implements the channel the receive thread relies on.
ImplementsChannel == Channel!Spec

=============================================================================
