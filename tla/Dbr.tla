-------------------------------- MODULE Dbr --------------------------------
(***************************************************************************)
(* The packets of include/vtl.h: events, geometry, and when vtl_csum() can *)
(* and cannot judge one; and the receive side of dbr/dbr.c.  Lengths are   *)
(* wire lengths, headers included, as skb->len is.                         *)
(***************************************************************************)
EXTENDS Integers, Sequences

CONSTANTS HdrLen,    \* bytes of Ethernet, IP and VTL headers: 58
          DataSize   \* VTL_DATA_SIZE: 1024

ASSUME GeometryAssumption == HdrLen \in Nat /\ DataSize \in Nat \ {0}

OnWireSize == HdrLen + DataSize

(* The value of sock_state_t.event. *)
Event == {"RECV_ACK", "RECV_NACK", "TIMEOUT", "IDLE"}

(* A BPF array map starts zeroed, and RECV_ACK is the event numbered 0. *)
ZeroEvent == "RECV_ACK"

(* What happened to the bytes of a packet on its way: nothing, a change in *)
(* a payload byte the checksum covers, or one in the last payload byte.    *)
Damage == {"none", "body", "last"}

(* vtl_csum() returns -1: the loop over payload_len reads bytes d-1 up to  *)
(* d+payload_len-2, so one missing payload byte goes unnoticed.            *)
CsumFails(len, wire) ==
    \/ wire - HdrLen < 1
    \/ wire - HdrLen < len - 1

(* The sum the receiver computes equals the one in the header.  The byte   *)
(* at d+payload_len-1 is outside the sum: damage there does not show.      *)
CsumMatches(pkt) == pkt.bad # "body"

CONSTANT W     \* WIN_SIZE, the grafts' WND_SIZE: 16

ASSUME WindowAssumption == W \in Nat \ {0}

Slots == 0 .. W - 1

(* Packets are abstracted to the sequence number of the VTL header, the    *)
(* identity of the payload, the header's payload_len, the length on the    *)
(* wire and the damage done to it.                                         *)
Packet == [seq : Slots, pay : Nat, len : Nat, wire : Nat, bad : Damage]

NoPacket == [seq |-> 0, pay |-> 0, len |-> 0, wire |-> 0, bad |-> "none"]
-----------------------------------------------------------------------------
(***************************************************************************)
(* The reorder buffer that __process_packet() keeps in static variables:   *)
(* a record                                                                *)
(*   next    next_num                                                      *)
(*   stored  stored[WIN_SIZE]                                              *)
(*   buff    sr_buff[WIN_SIZE], meaningful where stored                    *)
(*   out     every packet copied to rx_data so far, in order               *)
(*   bytes   *cnt_bytes                                                    *)
(***************************************************************************)
DbrType == [next   : Slots,
            stored : [Slots -> BOOLEAN],
            buff   : [Slots -> Packet],
            out    : Seq(Packet),
            bytes  : Int]

(* The static variables as the process image holds them at start. *)
DbrInit == [next   |-> 0,
            stored |-> [s \in Slots |-> FALSE],
            buff   |-> [s \in Slots |-> NoPacket],
            out    |-> << >>,
            bytes  |-> 0]

DataLen(pkt) == pkt.wire - HdrLen

(* How many packets the purge loop takes, starting at slot j: it runs while *)
(* stored[j] and clears the slots it passes, so it makes at most one turn.  *)
PurgeNone(stored, j) == 0
PurgeLen(stored, j) ==
    CHOOSE n \in 0 .. W :
        /\ \A k \in 0 .. n - 1 : stored[(j + k) % W]
        /\ n = W \/ ~stored[(j + n) % W]

(* seq_num = next_num: the packet is copied out, then every packet that    *)
(* waits right behind it.  cnt_bytes grows by the length of the packet in  *)
(* hand for the purged ones too.                                           *)
DeliverInPlace(d, pkt) == [d EXCEPT !.out = Append(@, pkt)]
DeliverAndPurge(d, pkt) ==
    LET first == (d.next + 1) % W
        n     == PurgeLen(d.stored, first)
    IN  [next   |-> (first + n) % W,
         stored |-> [s \in Slots |->
                        d.stored[s] /\ \A k \in 0 .. n - 1 : s # (first + k) % W],
         buff   |-> d.buff,
         out    |-> Append(d.out, pkt) \o
                        [k \in 1 .. n |-> d.buff[(first + k - 1) % W]],
         bytes  |-> d.bytes + (n + 1) * DataLen(pkt)]

(* Any other sequence number: the packet is kept in the slot of its number *)
(* and replaces what was there.                                            *)
Store(d, pkt) ==
    [d EXCEPT !.stored[pkt.seq] = TRUE, !.buff[pkt.seq] = pkt]

(* __process_packet() when calloc() succeeds.  When it fails (only on the  *)
(* storing path) the function returns false and the buffer is unchanged.   *)
ProcessUnchecked(d, pkt) == DeliverAndPurge(d, pkt)
ProcessPacket(d, pkt) ==
    IF pkt.seq = d.next THEN DeliverAndPurge(d, pkt) ELSE Store(d, pkt)
=============================================================================
