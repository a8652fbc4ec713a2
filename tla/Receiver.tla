------------------------------ MODULE Receiver ------------------------------
(***************************************************************************)
(* The receiving host behind an ingress graft: the redirect into the       *)
(* AF_XDP receive ring, which also sends the ACK, and the application that *)
(* takes packets from the ring into the reorder buffer of dbr.c.           *)
(***************************************************************************)
EXTENDS Path

CONSTANTS RingSize,     \* descriptors of the AF_XDP receive ring
          RxBatch,      \* RX_BATCH_SIZE: 64
          MaxRecv,      \* bound: packets accepted by the receiver
          MaxRxStarts   \* bound: starts of the receiving application

ASSUME ReceiverAssumption ==
    /\ RingSize \in Nat /\ RxBatch \in Nat \ {0}
    /\ MaxRecv \in Nat /\ MaxRxStarts \in Nat

VARIABLES
    rx,         \* AF_XDP receive ring: the packets not processed yet
    batch,      \* packets of the current dbr_recv() still to process
    held,       \* packets it has processed, whose descriptors it still holds
    dbr,        \* reorder buffer
    rxStarts,   \* how often the receiving application has started
    overrun,    \* the full receive ring has refused a packet
    passed      \* the ingress graft has let a packet go unanswered

recvVars == <<rx, batch, held, dbr, rxStarts, overrun, passed>>

ReceiverType ==
    /\ rx \in Seq(Packet) /\ batch \in Nat /\ held \in Nat
    /\ dbr \in DbrType /\ rxStarts \in Nat
    /\ overrun \in BOOLEAN /\ passed \in BOOLEAN

ReceiverInit ==
    /\ rx = << >> /\ batch = 0 /\ held = 0 /\ dbr = DbrInit
    /\ rxStarts = 0 /\ overrun = FALSE /\ passed = FALSE

(* vtl_init(): a receiving application (re)starts with a new AF_XDP socket *)
(* and fresh statics in dbr.c.  dbr.out is history and is kept.            *)
Attach ==
    /\ rxStarts < MaxRxStarts
    /\ rxStarts' = rxStarts + 1
    /\ rx' = << >> /\ batch' = 0 /\ held' = 0
    /\ dbr' = [DbrInit EXCEPT !.out = dbr.out]
    /\ UNCHANGED <<overrun, passed>>

(* bpf_redirect_map() into the socket found in xsks_map.  The kernel of    *)
(* the redirect answers with an ACK; a full ring refuses the packet.       *)
Redirect(m) ==
    /\ rxStarts > 0
    /\ Len(dbr.out) + Len(rx) < MaxRecv
    /\ IF Len(rx) + held < RingSize
       THEN /\ rx' = Append(rx, m)
            /\ back' = back \union {AnswerTo(m, "ACK")}
            /\ UNCHANGED overrun
       ELSE /\ overrun' = TRUE
            /\ UNCHANGED <<rx, back>>
    /\ UNCHANGED <<batch, held, dbr, rxStarts, passed>>

(* XDP_TX of the packet, turned into a NACK. *)
Refuse(m) ==
    /\ back' = back \union {AnswerTo(m, "NACK")}
    /\ UNCHANGED recvVars

(* XDP_PASS or XDP_DROP: nobody answers. *)
Ignore ==
    /\ passed' = TRUE
    /\ UNCHANGED <<rx, batch, held, dbr, rxStarts, overrun, back>>

(* dbr_recv() peeks at no more than RX_BATCH_SIZE packets. *)
Peeked == IF Len(rx) < RxBatch THEN Len(rx) ELSE RxBatch

(* dbr_recv(): the application processes a packet of the receive ring; the *)
(* descriptors go back to the ring when the whole batch has been processed.*)
Process ==
    /\ rx # << >>
    /\ LET todo == IF batch = 0 THEN Peeked ELSE batch
       IN  /\ batch' = todo - 1
           /\ held' = IF todo = 1 THEN 0 ELSE held + 1
    /\ rx' = Tail(rx)
    /\ dbr' = ProcessPacket(dbr, Head(rx))
    /\ UNCHANGED <<rxStarts, overrun, passed>>

(* The packets the receiving host has in its ring or in its reorder buffer *)
(* or has handed to the application.                                       *)
Accepted == {rx[k] : k \in 1 .. Len(rx)}
            \union {dbr.buff[s] : s \in {t \in Slots : dbr.stored[t]}}
            \union {dbr.out[k] : k \in 1 .. Len(dbr.out)}

(* The packets handed to the application. *)
Delivered == {dbr.out[k].pay : k \in 1 .. Len(dbr.out)}
=============================================================================
