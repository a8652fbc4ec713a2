------------------------------- MODULE Sender -------------------------------
(***************************************************************************)
(* The sending host as the three windowed egress grafts share it line by   *)
(* line (egress_gobackn_graft.c, egress_sr_graft.c,                        *)
(* egress_partial_graft.c): the window maps, the filling of a packet and   *)
(* of its slot, the first transmission, the timer rounds of a flush, the   *)
(* retransmission of a slot and the listener; and cbr_create_raw_sock(),   *)
(* which resets some of the maps when a sending application starts.        *)
(*                                                                         *)
(* The egress graft runs inside sendto(), so one call is in progress at a  *)
(* time; the listener runs on its own and writes ACK_WND_MAP while the     *)
(* egress call sleeps or scans.  Filling a slot and retransmitting read    *)
(* nothing the listener writes, so each is one step.                       *)
(***************************************************************************)
EXTENDS Path

CONSTANTS RetxMax,      \* RETX_MAX: 10
          Lens,         \* payload lengths the application sends
          MaxSend,      \* bound: packets sent
          MaxTxStarts   \* bound: starts of the sending application

ASSUME SenderAssumption ==
    /\ RetxMax \in Nat /\ MaxSend \in Nat /\ MaxTxStarts \in Nat
    /\ Lens \subseteq 1 .. DataSize

VARIABLES
    numSeq,     \* NUM_SEQ_MAP
    ackWnd,     \* ACK_WND_MAP: the event of each slot
    bufWnd,     \* BUF_WND_MAP: the packet kept in each slot
    lenWnd,     \* LEN_WND_MAP: its length, as saved
    pc,         \* the egress call: "idle", in the "timer" or in the "scan"
    cursor, i,  \* its locals ...
    curWin,     \*   cur_win_size
    lastLen,    \*   last_len
    txNum,      \*   tx_num
    txStarts,   \* how often the sending application has started
    sent,       \* payload lengths handed to the egress graft, in order
    confirmed,  \* payloads of the flushes that ended before the last round
    gaveUp      \* some flush ran out of retransmissions

callVars == <<pc, cursor, i, curWin, lastLen, txNum>>
mapVars  == <<numSeq, ackWnd, bufWnd, lenWnd, txStarts>>
histVars == <<sent, confirmed, gaveUp>>
sendVars == <<callVars, mapVars, histVars>>

SenderType ==
    /\ numSeq \in Slots /\ ackWnd \in [Slots -> Event]
    /\ bufWnd \in [Slots -> Packet] /\ lenWnd \in [Slots -> Nat]
    /\ pc \in {"idle", "timer", "scan"}
    /\ cursor \in Slots /\ i \in 0 .. W /\ curWin \in Slots
    /\ lastLen \in Nat /\ txNum \in 0 .. RetxMax + 1 /\ txStarts \in Nat
    /\ sent \in Seq(Lens) /\ confirmed \subseteq Nat /\ gaveUp \in BOOLEAN

(* BPF array maps start zeroed. *)
SenderInit ==
    /\ numSeq = 0
    /\ ackWnd = [s \in Slots |-> ZeroEvent]
    /\ bufWnd = [s \in Slots |-> NoPacket]
    /\ lenWnd = [s \in Slots |-> 0]
    /\ pc = "idle" /\ cursor = 0 /\ i = 0 /\ curWin = 0
    /\ lastLen = 0 /\ txNum = 0 /\ txStarts = 0
    /\ sent = << >> /\ confirmed = {} /\ gaveUp = FALSE

(* cbr_create_raw_sock(): a sending application (re)starts.  Only slots    *)
(* 0..3 of ACK_WND_MAP are written.                                        *)
Boot ==
    /\ pc = "idle"
    /\ txStarts < MaxTxStarts
    /\ txStarts' = txStarts + 1
    /\ ackWnd' = [s \in Slots |-> IF s < 4 THEN "TIMEOUT" ELSE ackWnd[s]]
    /\ numSeq' = 0
    /\ lenWnd' = [lenWnd EXCEPT ![0] = 1]
    /\ UNCHANGED <<bufWnd, callVars, histVars>>

(* The packet as _tf_tc_egress() has it once the header is filled. *)
NewPacket(len) == [seq |-> numSeq, pay |-> Len(sent), len |-> len,
                   wire |-> HdrLen + len, bad |-> "none"]

(* The saved length: the length of a full packet is always ON_WIRE_SIZE. *)
SaveLen(len) == IF len # DataSize THEN HdrLen + len ELSE OnWireSize

(* The slot that ends a window and the short packet that ends a message    *)
(* make the call wait for ACKs.                                            *)
Flushes(len) == numSeq = W - 1 \/ SaveLen(len) < OnWireSize

(* num_seq and ack_num count modulo WND_SIZE. *)
NextNum(n) == (n + 1) % W

(* The slot is armed with the event that stands for "no answer yet". *)
NotArmed(event) == ackWnd
Armed(event) == [ackWnd EXCEPT ![numSeq] = event]

(* _tf_tc_egress() up to the first transmission.  An empty payload never   *)
(* gets here: vtl_csum() fails and the graft returns before any map write. *)
Fill(len, event) ==
    /\ pc = "idle" /\ txStarts > 0
    /\ Len(sent) < MaxSend
    /\ ~CsumFails(len, HdrLen + len)
    /\ ackWnd' = Armed(event)
    /\ lenWnd' = [lenWnd EXCEPT ![numSeq] = SaveLen(len)]
    /\ bufWnd' = [bufWnd EXCEPT ![numSeq] = NewPacket(len)]
    /\ numSeq' = NextNum(numSeq)
    /\ data' = data \union {NewPacket(len)}
    /\ sent' = Append(sent, len)
    /\ curWin' = numSeq /\ lastLen' = HdrLen + len
    /\ cursor' = 0 /\ i' = 0 /\ txNum' = 0
    /\ pc' = IF Flushes(len) THEN "timer" ELSE "idle"
    /\ UNCHANGED <<back, faults, harmed, txStarts, confirmed, gaveUp>>

(* tx_num++, and the test that ends the flush. *)
RoundsStuck == txNum
Rounds == txNum + 1
RoundsOver == Rounds > RetxMax

(* bpf_vtl_start_timer() returns; one more round, or the last one is over. *)
Wake ==
    /\ pc = "timer" /\ TimerMayFire
    /\ txNum' = Rounds
    /\ IF RoundsOver
       THEN pc' = "idle" /\ gaveUp' = TRUE /\ UNCHANGED i
       ELSE pc' = "scan" /\ i' = cursor /\ UNCHANGED gaveUp
    /\ UNCHANGED <<cursor, curWin, lastLen, sent, confirmed, mapVars>>

(* The call returns with the packets up to cur_win_size taken for received. *)
Confirm ==
    /\ pc' = "idle"
    /\ confirmed' = confirmed \union {bufWnd[s].pay : s \in 0 .. curWin}
    /\ UNCHANGED <<cursor, i, curWin, lastLen, txNum, sent, gaveUp>>

(* What a retransmission puts on the wire for slot j: the packet kept in   *)
(* BUF_WND_MAP, cut to the length of the packet the call was made with     *)
(* whenever the kept one is short.                                         *)
ResendCut(j) == [bufWnd[j] EXCEPT !.wire = lastLen]
Resend(j) == [bufWnd[j] EXCEPT !.wire = IF lenWnd[j] < OnWireSize
                                        THEN lastLen ELSE OnWireSize]

(* "Retx loop": slot i and every later slot of the window go out again. *)
RetxWhole == i .. W - 1
RetxSlots == i .. curWin
ResendFrom ==
    /\ cursor' = i
    /\ data' = data \union {Resend(j) : j \in RetxSlots}
    /\ pc' = "timer"
    /\ UNCHANGED <<back, faults, harmed, i, curWin, lastLen, txNum, mapVars, histVars>>

(* _listener_tf(): an answer reaches the sending host; a NACK leaves the   *)
(* event onNack in the slot.                                               *)
Hear(onNack) ==
    /\ \E r \in back :
          /\ back' = Take(back, r)
          /\ ackWnd' = [ackWnd EXCEPT
                          ![r.seq] = IF r.type = "NACK" THEN onNack ELSE "RECV_ACK"]
    /\ UNCHANGED <<data, faults, harmed, numSeq, bufWnd, lenWnd, txStarts, callVars, histVars>>
=============================================================================
