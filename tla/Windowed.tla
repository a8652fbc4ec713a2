------------------------------ MODULE Windowed ------------------------------
(***************************************************************************)
(* A windowed transport function deployed between two hosts: the sending   *)
(* host of Sender, the path, the receiving host of Receiver, and what the  *)
(* Go-Back-N, Selective Repeat and partial reliability grafts have in      *)
(* common as a whole.  Each graft adds its own scan and its own ingress.   *)
(***************************************************************************)
EXTENDS Sender, Receiver

CONSTANT ServerFirst    \* the receiving application is started first

ASSUME ServerAssumption == ServerFirst \in BOOLEAN

linkVars == <<data, back, faults, harmed, numSeq, ackWnd, bufWnd, lenWnd, pc, cursor, i,
              curWin, lastLen, txNum, txStarts, sent, confirmed, gaveUp,
              rx, batch, held, dbr, rxStarts, overrun, passed>>

LinkType ==
    /\ data \subseteq Packet /\ back \subseteq Answer
    /\ faults \in Nat /\ harmed \subseteq Harms
    /\ SenderType /\ ReceiverType

LinkInit == PathInit /\ SenderInit /\ ReceiverInit

(* A sending application starts; the maps of the other host keep their     *)
(* values.                                                                 *)
SenderStart ==
    /\ ServerFirst => rxStarts > 0
    /\ Boot
    /\ UNCHANGED <<pathVars, recvVars>>

(* A receiving application starts. *)
ReceiverStart == Attach /\ UNCHANGED <<pathVars, sendVars>>

(* The receiving application reads. *)
Receive == Process /\ UNCHANGED <<pathVars, sendVars>>

PathStep == PathNext /\ UNCHANGED <<sendVars, recvVars>>
-----------------------------------------------------------------------------
(* What every windowed graft keeps to, whatever its policy: the            *)
(* specification that the three grafts are shown to implement.  A flush    *)
(* may resend any packets of its window, and none from outside it; it may  *)
(* change the event of the slot it looks at; it may end at any point with  *)
(* the window taken for received; and it has no rounds beyond RETX_MAX.    *)
FlushStep ==
    /\ pc # "idle" /\ pc' \in {"timer", "scan"}
    /\ cursor' \in Slots /\ i' \in 0 .. W
    /\ ackWnd' \in [Slots -> Event]
    /\ \A s \in Slots : s # i => ackWnd'[s] = ackWnd[s]
    /\ \E S \in SUBSET (0 .. curWin) : data' = data \union {Resend(j) : j \in S}
    /\ UNCHANGED <<back, faults, harmed, curWin, lastLen, txNum, numSeq, bufWnd, lenWnd, txStarts,
                   histVars, recvVars>>

FlushEnd == pc # "idle" /\ Confirm /\ UNCHANGED <<mapVars, pathVars, recvVars>>

(* An arriving packet is redirected, refused or ignored, for any reason. *)
Judge ==
    \E m \in data :
        /\ Arrive(m)
        /\ Redirect(m) \/ Refuse(m) \/ Ignore
        /\ UNCHANGED sendVars

LinkNext ==
    \/ SenderStart
    \/ \E len \in Lens, event \in Event : Fill(len, event) /\ UNCHANGED recvVars
    \/ Wake /\ UNCHANGED <<pathVars, recvVars>>
    \/ FlushStep \/ FlushEnd
    \/ \E event \in Event : Hear(event) /\ UNCHANGED recvVars
    \/ ReceiverStart
    \/ Judge
    \/ Receive
    \/ PathStep

LinkSpec == LinkInit /\ [][LinkNext]_linkVars

(* A graft does nothing to the shared maps and the path beyond LinkNext.   *)
IsWindowed == LinkSpec
-----------------------------------------------------------------------------
(* What the applications see of a packet: which payload, how many bytes of *)
(* it, and whether they are the bytes sent.                                *)
Seen(pay, bytes, bad) == [pay |-> pay, bytes |-> bytes, bad |-> bad]

Stream == INSTANCE ReliableStream WITH
    Message <- {Seen(p, n, "none") : p \in 0 .. MaxSend, n \in Lens},
    written <- [k \in 1 .. Len(sent) |-> Seen(k - 1, sent[k], "none")],
    read    <- [k \in 1 .. Len(dbr.out) |->
                   Seen(dbr.out[k].pay, DataLen(dbr.out[k]), dbr.out[k].bad)]

Intact(m) == m.bad = "none" /\ m.wire = HdrLen + m.len

(* One life of both applications. *)
SingleRun == txStarts <= 1 /\ rxStarts <= 1

(* A flush that ends before its last round, with its packets taken for     *)
(* acknowledged, speaks of packets the receiving host really has, as long  *)
(* as each application runs once and the receive ring refuses no packet.   *)
ConfirmedAreAccepted ==
    SingleRun /\ ~overrun => confirmed \subseteq {m.pay : m \in Accepted}

(* Whatever the path does, the k-th packet delivered is one whose index    *)
(* differs from k by whole windows: sequence numbers are reused after      *)
(* WND_SIZE packets, and that is the only confusion possible.              *)
CongruentDelivery ==
    SingleRun =>
        \A k \in 1 .. Len(dbr.out) : dbr.out[k].pay % W = (k - 1) % W

(* The purge loop never finds the slot it just advanced to still stored,   *)
(* so next_num always names a missing packet.                              *)
NextIsMissing == ~dbr.stored[dbr.next]

(* An egress call returns: the timer loop is bounded by RETX_MAX. *)
EgressReturns == pc # "idle" ~> pc = "idle"

(* What a flush has confirmed reaches the application. *)
ConfirmedIsDelivered ==
    \A k \in 0 .. MaxSend - 1 : k \in confirmed ~> k \in Delivered

(* Until a flush runs out of retransmissions, the receive ring overflows,  *)
(* an application restarts, an answer is lost or the last byte of a packet *)
(* damaged, the egress graft, the ingress graft and dbr together implement *)
(* a reliable stream.  (A lost ACK may make a window that was accepted go  *)
(* out again when the receiver counts from the same numbers once more; the *)
(* checksum does not cover the last byte.)                                 *)
ImplementsStream ==
    /\ Stream!Init
    /\ [][(SingleRun /\ ~gaveUp /\ ~overrun /\ harmed \subseteq {"body"})'
             => Stream!Next]_<<sent, dbr.out>>

=============================================================================
