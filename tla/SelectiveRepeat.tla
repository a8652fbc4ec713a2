-------------------------- MODULE SelectiveRepeat --------------------------
(***************************************************************************)
(* The Selective Repeat transport function: the scan of egress_sr_graft.c, *)
(* which retransmits slot by slot and counts ACKs in ACK_PKT_MAP, and the  *)
(* XDP graft ingress_sr_graft.c, which accepts packets in any order and    *)
(* leaves the order to the reorder buffer of dbr.c.                        *)
(***************************************************************************)
EXTENDS Windowed, FiniteSets

VARIABLES acked,    \* ACK_PKT_MAP
          out       \* local of the egress call: every ACK has been counted

vars == <<linkVars, acked, out>>

TypeOK == LinkType /\ acked \in Nat /\ out \in BOOLEAN

Init == LinkInit /\ acked = 0 /\ out = FALSE
-----------------------------------------------------------------------------
(* _tf_tc_egress() up to the first transmission; a flush clears            *)
(* ACK_PKT_MAP.                                                            *)
Egress(len) ==
    /\ Fill(len, "TIMEOUT")
    /\ acked' = IF Flushes(len) THEN 0 ELSE acked
    /\ out' = FALSE
    /\ UNCHANGED recvVars

(* One more round, or the last one is over with ACKs missing. *)
Timer ==
    /\ ~out
    /\ Wake
    /\ UNCHANGED <<acked, out, pathVars, recvVars>>

(* The test of out comes one timer after out was set. *)
AllCounted ==
    /\ pc = "timer" /\ TimerMayFire /\ out
    /\ Confirm
    /\ UNCHANGED <<acked, out, mapVars, pathVars, recvVars>>

(* The scan looks at the slots up to cur_win_size. *)
InWindow == i <= curWin

(* "Selective Retx": slot i goes out again. *)
ScanResend ==
    /\ pc = "scan" /\ InWindow /\ ackWnd[i] = "TIMEOUT"
    /\ data' = data \union {Resend(i)}
    /\ i' = i + 1
    /\ UNCHANGED <<back, faults, harmed, pc, cursor, curWin, lastLen, txNum, acked, out,
                   mapVars, histVars, recvVars>>

(* The event a counted slot is left with. *)
KeepEvent == "RECV_ACK"
CountedEvent == "IDLE"

(* Slot i has its ACK: it is counted, and marked so that it is not counted *)
(* again.                                                                  *)
ScanAcked ==
    /\ pc = "scan" /\ InWindow /\ ackWnd[i] = "RECV_ACK"
    /\ acked' = acked + 1
    /\ ackWnd' = [ackWnd EXCEPT ![i] = CountedEvent]
    /\ out' = (out \/ acked' = curWin + 1)
    /\ i' = i + 1
    /\ UNCHANGED <<pc, cursor, curWin, lastLen, txNum, numSeq, bufWnd, lenWnd, txStarts,
                   histVars, pathVars, recvVars>>

(* A slot counted before, or one whose packet was refused: nothing to do.  *)
ScanSkip ==
    /\ pc = "scan" /\ InWindow /\ ackWnd[i] \in {"IDLE", "RECV_NACK"}
    /\ i' = i + 1
    /\ UNCHANGED <<pc, cursor, curWin, lastLen, txNum, acked, out, mapVars, histVars,
                   pathVars, recvVars>>

(* The loop got past cur_win_size: back to the timer. *)
ScanEnd ==
    /\ pc = "scan" /\ ~InWindow
    /\ pc' = "timer"
    /\ UNCHANGED <<cursor, i, curWin, lastLen, txNum, acked, out, mapVars, histVars,
                   pathVars, recvVars>>

EgressStep == Timer \/ AllCounted \/ ScanResend \/ ScanAcked \/ ScanSkip \/ ScanEnd

Listener == Hear("RECV_NACK") /\ UNCHANGED <<acked, out, recvVars>>
-----------------------------------------------------------------------------
(* xdp_sock_prog(): an undamaged packet is redirected whatever its number; *)
(* a damaged one, or one that finds no socket, is sent back as a NACK.     *)
Acceptable(m) == CsumMatches(m) /\ rxStarts > 0

IngressAccept(m) == ~CsumFails(m.len, m.wire) /\ Acceptable(m) /\ Redirect(m)

IngressNack(m) == ~CsumFails(m.len, m.wire) /\ ~Acceptable(m) /\ Refuse(m)

IngressPass(m) == CsumFails(m.len, m.wire) /\ Ignore

Ingress ==
    \E m \in data :
        /\ Arrive(m)
        /\ IngressAccept(m) \/ IngressNack(m) \/ IngressPass(m)
        /\ UNCHANGED <<acked, out, sendVars>>
-----------------------------------------------------------------------------
Next ==
    \/ SenderStart /\ UNCHANGED <<acked, out>>
    \/ \E len \in Lens : Egress(len)
    \/ EgressStep
    \/ Listener
    \/ ReceiverStart /\ UNCHANGED <<acked, out>>
    \/ Ingress
    \/ Receive /\ UNCHANGED <<acked, out>>
    \/ PathStep /\ UNCHANGED <<acked, out>>

Spec == Init /\ [][Next]_vars

FairSpec ==
    /\ Spec
    /\ WF_vars(EgressStep) /\ WF_vars(Listener) /\ WF_vars(Ingress)
    /\ WF_vars(Receive /\ UNCHANGED <<acked, out>>)
-----------------------------------------------------------------------------
(* While the path loses and lets overtake fewer packets than there are     *)
(* retransmissions, damages none and loses no answer, the application      *)
(* reads the stream that was sent, even after flushes that ran out of      *)
(* rounds because slots of an earlier message in the same window are never *)
(* counted again.  (A packet whose ACK was lost is accepted again, and may *)
(* be delivered a window later in place of the new one.)                   *)
InOrderDespiteGiveUp ==
    SingleRun /\ faults < RetxMax /\ harmed = {} /\ ~passed /\ ~overrun =>
        \A k \in 1 .. Len(dbr.out) :
            dbr.out[k].pay = k - 1 /\ Intact(dbr.out[k])


(* ACK_PKT_MAP, "Number of acked packets": no more than the packets of the *)
(* window that the receiving host has, as long as each application runs    *)
(* once (an ACK on its way when the sender restarts is counted again).     *)
CountIsSound ==
    pc # "idle" /\ SingleRun =>
        acked <= Cardinality({s \in 0 .. curWin : bufWnd[s].pay \in {m.pay : m \in Accepted}})
=============================================================================
