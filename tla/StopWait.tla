------------------------------ MODULE StopWait ------------------------------
(***************************************************************************)
(* The stop-and-wait transport function: egress_stop_wait_arq_graft.c      *)
(* keeps one event in NUM_ACK_MAP and sends a packet again after every     *)
(* timer until it reads RECV_ACK; ingress_stop_wait_arq_graft.c redirects  *)
(* whatever has a good checksum.  Neither graft writes seq_num, so every   *)
(* packet carries the 0 of the zeroed vtl_socket_t.                        *)
(***************************************************************************)
EXTENDS Receiver, FiniteSets

CONSTANTS RetxMax,      \* RETX_MAX: 10
          Lens,         \* payload lengths the application sends
          MaxSend       \* bound: packets sent

ASSUME StopWaitAssumption ==
    RetxMax \in Nat /\ MaxSend \in Nat /\ Lens \subseteq 1 .. DataSize

VARIABLES
    event,      \* NUM_ACK_MAP: the event of its one sock_state_t
    pc,         \* the egress call: "idle" or in the "timer"
    cur,        \* the packet in hand
    txNum,      \* tx_num
    sent,       \* number of packets handed to the egress graft
    confirmed,  \* payloads of the calls that ended on RECV_ACK
    giveUps,    \* calls that ran out of retransmissions
    taken       \* payloads the receiving host has redirected

callVars == <<pc, cur, txNum, sent, confirmed, giveUps>>
vars == <<data, back, faults, harmed, rx, batch, held, dbr, rxStarts, overrun, passed,
          event, pc, cur, txNum, sent, confirmed, giveUps, taken>>

(* NUM_ACK_MAP starts zeroed, and nothing initialises it. *)
Init ==
    /\ PathInit /\ ReceiverInit
    /\ event = ZeroEvent /\ pc = "idle" /\ cur = NoPacket /\ txNum = 0
    /\ sent = 0 /\ confirmed = {} /\ giveUps = 0 /\ taken = {}
-----------------------------------------------------------------------------
(* _tf_tc_egress() up to the first bpf_clone_redirect().  The event of the *)
(* previous packet stays.  An empty payload fails the checksum and leaves. *)
Egress(len) ==
    /\ pc = "idle" /\ sent < MaxSend
    /\ ~CsumFails(len, HdrLen + len)
    /\ cur' = [seq |-> 0, pay |-> sent, len |-> len, wire |-> HdrLen + len, bad |-> "none"]
    /\ data' = data \union {cur'}
    /\ pc' = "timer" /\ txNum' = 0 /\ sent' = sent + 1
    /\ UNCHANGED <<back, faults, harmed, recvVars, event, confirmed, giveUps, taken>>

(* tx_num++, and the test that ends "Tx loop". *)
RoundsStuck == txNum
Rounds == txNum + 1
RoundsOver == Rounds > RetxMax

(* The timer returns. *)
TimerBack == pc = "timer" /\ TimerMayFire /\ txNum' = Rounds

(* "Reach max of retransmission": the call ends without a look at the      *)
(* event, which stays for the next packet.                                 *)
GiveUp ==
    /\ TimerBack /\ RoundsOver
    /\ pc' = "idle" /\ giveUps' = giveUps + 1
    /\ UNCHANGED <<pathVars, recvVars, event, cur, sent, confirmed, taken>>

(* The event is cleared with the ACK that ends the call. *)
ClearNothing == event
Cleared == "IDLE"

Acknowledged ==
    /\ TimerBack /\ ~RoundsOver /\ event = "RECV_ACK"
    /\ event' = Cleared
    /\ pc' = "idle" /\ confirmed' = confirmed \union {cur.pay}
    /\ UNCHANGED <<pathVars, recvVars, cur, sent, giveUps, taken>>

Retransmit ==
    /\ TimerBack /\ ~RoundsOver /\ event = "IDLE"
    /\ data' = data \union {cur}
    /\ UNCHANGED <<back, faults, harmed, recvVars, event, pc, cur, sent, confirmed, giveUps, taken>>

EgressStep == GiveUp \/ Acknowledged \/ Retransmit

(* _listener_tf(): an answer arrives, whichever packet it is for. *)
Heard(type) == IF type = "NACK" THEN "IDLE" ELSE "RECV_ACK"

Listener ==
    /\ \E r \in back : back' = Take(back, r) /\ event' = Heard(r.type)
    /\ UNCHANGED <<data, faults, harmed, recvVars, callVars, taken>>
-----------------------------------------------------------------------------
(* xdp_sock_prog(): redirect, NACK, or leave the packet. *)
IngressAccept(m) ==
    /\ ~CsumFails(m.len, m.wire) /\ CsumMatches(m)
    /\ Redirect(m)
    /\ taken' = IF rx' = rx THEN taken ELSE taken \union {m.pay}

IngressNack(m) ==
    ~CsumFails(m.len, m.wire) /\ ~CsumMatches(m) /\ Refuse(m) /\ UNCHANGED taken

(* XDP_PASS when there is no socket.  (No packet of this graft is too      *)
(* short for its payload_len, so the XDP_DROPs for that are not met.)      *)
IngressPass(m) == CsumMatches(m) /\ rxStarts = 0 /\ Ignore /\ UNCHANGED taken

Ingress ==
    \E m \in data :
        /\ Arrive(m)
        /\ IngressAccept(m) \/ IngressNack(m) \/ IngressPass(m)
        /\ UNCHANGED <<event, callVars>>

ReceiverStart == Attach /\ UNCHANGED <<pathVars, event, callVars, taken>>
Receive == Process /\ UNCHANGED <<pathVars, event, callVars, taken>>
PathStep == PathNext /\ UNCHANGED <<recvVars, event, callVars, taken>>
-----------------------------------------------------------------------------
Next ==
    \/ \E len \in Lens : Egress(len)
    \/ EgressStep \/ Listener
    \/ ReceiverStart \/ Ingress \/ Receive
    \/ PathStep

Spec == Init /\ [][Next]_vars

FairSpec ==
    /\ Spec
    /\ WF_vars(EgressStep) /\ WF_vars(Listener) /\ WF_vars(Ingress) /\ WF_vars(Receive)
-----------------------------------------------------------------------------
(* A call that ends on RECV_ACK may speak of a packet the receiver never   *)
(* took, but only once for the zeroed NUM_ACK_MAP (read by the first       *)
(* packet) and once for each call that gave up, whose last ACK came after  *)
(* the last look at the event.                                             *)
FalseAcksAreBounded == Cardinality(confirmed \ taken) <= giveUps + 1

(* With WIN_SIZE above 1 the reorder buffer hands over one packet for each *)
(* start of the receiver: the later ones carry number 0 again, which is    *)
(* not the next one, and replace each other in slot 0.                     *)
OnePacketPerStart == W > 1 => Len(dbr.out) <= rxStarts

(* An egress call returns. *)
EgressReturns == pc # "idle" ~> pc = "idle"
=============================================================================
