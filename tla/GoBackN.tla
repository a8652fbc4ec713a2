------------------------------ MODULE GoBackN ------------------------------
(***************************************************************************)
(* The Go-Back-N transport function: the scan and the retransmission loop  *)
(* of egress_gobackn_graft.c and the XDP graft ingress_gobackn_graft.c,    *)
(* with what they share with the other windowed grafts taken from Sender   *)
(* and Receiver.  The scan of ACK_WND_MAP is one step per slot, since the  *)
(* listener may write between two of them.                                 *)
(***************************************************************************)
EXTENDS Windowed

VARIABLE numAck     \* the receiver's NUM_ACK_MAP

vars == <<linkVars, numAck>>
rhostVars == <<recvVars, numAck>>

TypeOK == LinkType /\ numAck \in Slots

Init == LinkInit /\ numAck = 0
-----------------------------------------------------------------------------
(* _tf_tc_egress() up to the first transmission. *)
Egress(len) == Fill(len, "IDLE") /\ UNCHANGED rhostVars

(* One more round of the flush, or the end of the last one. *)
Timer == Wake /\ UNCHANGED <<pathVars, rhostVars>>

(* "ACKs checking loop": slot i has its ACK. *)
ScanAcked ==
    /\ pc = "scan" /\ i <= curWin /\ ackWnd[i] = "RECV_ACK"
    /\ i' = i + 1
    /\ UNCHANGED <<pc, cursor, curWin, lastLen, txNum, mapVars, histVars,
                   pathVars, rhostVars>>

(* The loop got past cur_win_size: "All pkts are ACKs", the call returns. *)
ScanDone ==
    /\ pc = "scan" /\ i > curWin
    /\ Confirm
    /\ UNCHANGED <<mapVars, pathVars, rhostVars>>

(* Slot i has no ACK: it and every later slot of the window go out again.  *)
ScanLost ==
    /\ pc = "scan" /\ i <= curWin /\ ackWnd[i] # "RECV_ACK"
    /\ ResendFrom
    /\ UNCHANGED rhostVars

(* The rest of an egress call that flushes. *)
EgressStep == Timer \/ ScanAcked \/ ScanDone \/ ScanLost

Listener == Hear("IDLE") /\ UNCHANGED rhostVars
-----------------------------------------------------------------------------
(* Checksum good and sequence number the next one. *)
ExpectedAny(m) == CsumMatches(m)
Expected(m) == CsumMatches(m) /\ numAck = m.seq

(* xdp_sock_prog(), in-order packet, socket present: NUM_ACK_MAP advances, *)
(* then the packet is redirected, even into a ring that refuses it.        *)
IngressAccept(m) ==
    /\ ~CsumFails(m.len, m.wire) /\ Expected(m)
    /\ Redirect(m)
    /\ numAck' = NextNum(numAck)

(* Damaged or not the next one: sent back as a NACK. *)
IngressNack(m) ==
    /\ ~CsumFails(m.len, m.wire) /\ ~Expected(m)
    /\ Refuse(m)
    /\ UNCHANGED numAck

(* XDP_PASS: no checksum, or no socket yet. *)
IngressPass(m) ==
    /\ CsumFails(m.len, m.wire) \/ (Expected(m) /\ rxStarts = 0)
    /\ Ignore
    /\ UNCHANGED numAck

Ingress ==
    \E m \in data :
        /\ Arrive(m)
        /\ IngressAccept(m) \/ IngressNack(m) \/ IngressPass(m)
        /\ UNCHANGED sendVars
-----------------------------------------------------------------------------
Next ==
    \/ SenderStart /\ UNCHANGED numAck
    \/ \E len \in Lens : Egress(len)
    \/ EgressStep
    \/ Listener
    \/ ReceiverStart /\ UNCHANGED numAck
    \/ Ingress
    \/ Receive /\ UNCHANGED numAck
    \/ PathStep /\ UNCHANGED numAck

Spec == Init /\ [][Next]_vars

(* The kernel runs an egress call to its end, the timer expires, packets   *)
(* and answers arrive or are lost, and the application keeps receiving.    *)
FairSpec ==
    /\ Spec
    /\ WF_vars(EgressStep) /\ WF_vars(Listener) /\ WF_vars(Ingress)
    /\ WF_vars(Receive /\ UNCHANGED numAck)
-----------------------------------------------------------------------------
(* NUM_ACK_MAP (kernel) and next_num (application) advance separately but  *)
(* agree up to the packets in the receive ring between them: what arrives  *)
(* at the reorder buffer is always the packet it waits for.                *)
RingAligned ==
    rxStarts <= 1 /\ ~overrun =>
        /\ numAck = (dbr.next + Len(rx)) % W
        /\ \A s \in Slots : ~dbr.stored[s]
        /\ \A k \in 1 .. Len(rx) : rx[k].seq = (dbr.next + k - 1) % W
=============================================================================
