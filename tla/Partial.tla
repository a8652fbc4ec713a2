------------------------------ MODULE Partial ------------------------------
(***************************************************************************)
(* The partial reliability transport function: the scan of                 *)
(* egress_partial_graft.c, which lets up to DEFAULT_LOSS packets of a      *)
(* round go before it retransmits, and the XDP graft                       *)
(* ingress_partial_graft.c, which sums a fixed number of payload bytes.    *)
(***************************************************************************)
EXTENDS Windowed, FiniteSets

CONSTANTS DefaultLoss,  \* DEFAULT_LOSS: 2
          OddLen,       \* payload bytes summed when a packet is not full: 363
          Lucky,        \* payloads whose sum over those bytes is the header's
          AckMod        \* what NUM_ACK_MAP counts modulo: 8

ASSUME PartialAssumption ==
    /\ DefaultLoss \in Nat /\ OddLen \in Nat /\ Lucky \subseteq Nat
    /\ AckMod \in Nat \ {0}

VARIABLES lost,     \* LOST_PKT_MAP
          numAck    \* the receiver's NUM_ACK_MAP, counted and printed only

vars == <<linkVars, lost, numAck>>
rhostVars == <<recvVars, numAck>>

TypeOK == LinkType /\ lost \in Nat /\ numAck \in 0 .. AckMod - 1

Init == LinkInit /\ lost = 0 /\ numAck = 0
-----------------------------------------------------------------------------
(* _tf_tc_egress() up to the first transmission. *)
Egress(len) == Fill(len, "RECV_NACK") /\ UNCHANGED <<lost, rhostVars>>

(* A round starts with a cleared counter. *)
Timer ==
    /\ Wake
    /\ lost' = IF RoundsOver THEN lost ELSE 0
    /\ UNCHANGED <<pathVars, rhostVars>>

(* Counting slot i as lost takes the round beyond what may be lost. *)
TooManyLate == lost > DefaultLoss
TooMany == lost + 1 > DefaultLoss

(* Slot i has no ACK, and may be lost. *)
ScanTolerate ==
    /\ pc = "scan" /\ i <= curWin /\ ackWnd[i] = "RECV_NACK" /\ ~TooMany
    /\ lost' = lost + 1
    /\ i' = i + 1
    /\ UNCHANGED <<pc, cursor, curWin, lastLen, txNum, mapVars, histVars,
                   pathVars, rhostVars>>

(* Slot i has no ACK and is one too many: it and every later slot of the   *)
(* window go out again, and the slots before it are left behind.           *)
ScanLost ==
    /\ pc = "scan" /\ i <= curWin /\ ackWnd[i] = "RECV_NACK" /\ TooMany
    /\ lost' = lost + 1
    /\ ResendFrom
    /\ UNCHANGED rhostVars

(* Any other event stands for a packet received. *)
ScanAcked ==
    /\ pc = "scan" /\ i <= curWin /\ ackWnd[i] # "RECV_NACK"
    /\ i' = i + 1
    /\ UNCHANGED <<pc, cursor, curWin, lastLen, txNum, lost, mapVars, histVars,
                   pathVars, rhostVars>>

(* The loop got past cur_win_size: the call returns. *)
ScanDone ==
    /\ pc = "scan" /\ i > curWin
    /\ Confirm
    /\ UNCHANGED <<lost, mapVars, pathVars, rhostVars>>

EgressStep == Timer \/ ScanTolerate \/ ScanLost \/ ScanAcked \/ ScanDone

Listener == Hear("RECV_NACK") /\ UNCHANGED <<lost, rhostVars>>
-----------------------------------------------------------------------------
(* The number of bytes xdp_sock_prog() sums, from the byte before the      *)
(* payload on; it drops a packet that ends before them.                    *)
Summed(m) == IF m.wire = OnWireSize THEN DataSize ELSE OddLen

Malformed(m) == DataLen(m) < 1 \/ DataLen(m) < Summed(m) - 1

(* The sender summed payload_len bytes.  Over another number of bytes the  *)
(* sums differ, except for some payloads.                                  *)
Undamaged(m) == CsumMatches(m) /\ (Summed(m) = m.len \/ m.pay \in Lucky)

IngressAccept(m) ==
    /\ ~Malformed(m) /\ Undamaged(m)
    /\ Redirect(m)
    /\ numAck' = (numAck + 1) % AckMod

IngressNack(m) ==
    /\ ~Malformed(m) /\ ~Undamaged(m)
    /\ Refuse(m)
    /\ UNCHANGED numAck

(* XDP_DROP of a malformed packet, XDP_PASS when there is no socket. *)
IngressPass(m) ==
    /\ Malformed(m) \/ (Undamaged(m) /\ rxStarts = 0)
    /\ Ignore
    /\ UNCHANGED numAck

Ingress ==
    \E m \in data :
        /\ Arrive(m)
        /\ IngressAccept(m) \/ IngressNack(m) \/ IngressPass(m)
        /\ UNCHANGED <<lost, sendVars>>
-----------------------------------------------------------------------------
own == <<lost, numAck>>

Next ==
    \/ SenderStart /\ UNCHANGED own
    \/ \E len \in Lens : Egress(len)
    \/ EgressStep
    \/ Listener
    \/ ReceiverStart /\ UNCHANGED own
    \/ Ingress
    \/ Receive /\ UNCHANGED own
    \/ PathStep /\ UNCHANGED own

Spec == Init /\ [][Next]_vars

FairSpec ==
    /\ Spec
    /\ WF_vars(EgressStep) /\ WF_vars(Listener) /\ WF_vars(Ingress)
    /\ WF_vars(Receive /\ UNCHANGED own)
-----------------------------------------------------------------------------
(* The packets of the current window that the receiving host lacks. *)
Missing == {s \in 0 .. curWin : bufWnd[s].pay \notin {m.pay : m \in Accepted}}

(* Partial reliability: as long as each application runs once, a flush     *)
(* that ends before its last round leaves behind at most DEFAULT_LOSS      *)
(* packets for each round it took.  (The counter is cleared in every round *)
(* and the slots a round tolerates are not looked at again, so the bound   *)
(* is not DEFAULT_LOSS alone.)                                             *)
LossIsBounded ==
    [][ScanDone /\ SingleRun => Cardinality(Missing) <= DefaultLoss * txNum]_vars
=============================================================================
