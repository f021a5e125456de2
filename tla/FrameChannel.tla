---------------------------- MODULE FrameChannel ----------------------------
(***************************************************************************)
(* What the receive thread may rely on when it calls BTPSocket.read(): the *)
(* frames the IUT sent come back whole, once each and in order, until the  *)
(* channel breaks.  A broken channel promises nothing: every later frame   *)
(* may be made of bytes that were never a frame.                           *)
(***************************************************************************)
EXTENDS Naturals, Sequences

VARIABLES
    sent,      \* frames the IUT has sent
    got,       \* frames read() has returned
    broken     \* TRUE once the byte stream is out of step with the frames

vars == <<sent, got, broken>>

Init ==
    /\ sent = <<>>
    /\ got = <<>>
    /\ broken = FALSE

\* t is s with one more element at its end.
Extends(t, s) ==
    /\ Len(t) = Len(s) + 1
    /\ \A i \in 1 .. Len(s) : t[i] = s[i]

Send ==
    /\ Extends(sent', sent)
    /\ UNCHANGED <<got, broken>>

Deliver ==
    /\ Len(got) < Len(sent)
    /\ got' = Append(got, sent[Len(got) + 1])
    /\ UNCHANGED <<sent, broken>>

Break ==
    /\ broken' = TRUE
    /\ UNCHANGED <<sent, got>>

DeliverGarbage ==
    /\ broken
    /\ Extends(got', got)
    /\ UNCHANGED <<sent, broken>>

Next ==
    \/ Send
    \/ Deliver
    \/ Break
    \/ DeliverGarbage

Spec == Init /\ [][Next]_vars

=============================================================================
