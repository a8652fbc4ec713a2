-------------------------------- MODULE Xsk --------------------------------
(***************************************************************************)
(* The packet memory of a receiving application: the UMEM frames that      *)
(* xsk_user_helpers.c allocates, the fill ring through which they are lent *)
(* to the kernel, the receive ring through which they come back, and the   *)
(* batch loop of __handle_receive_packets() in dbr/dbr.c, one access to    *)
(* shared memory per step while the kernel keeps receiving.  It runs on a  *)
(* socket and the rings of XskSocket: packets arrive as long as the        *)
(* program on the interface has the socket in its map.                     *)
(***************************************************************************)
EXTENDS XskSocket, FiniteSetsExt

CONSTANTS NumFrames,  \* NUM_FRAMES: 0x20000
          FillSize,   \* XSK_RING_PROD__DEFAULT_NUM_DESCS: 2048
          RxSize,     \* XSK_RING_CONS__DEFAULT_NUM_DESCS: 2048
          RxBatch,    \* RX_BATCH_SIZE: 64
          MaxArrivals \* bound: packets the NIC receives

ASSUME XskAssumption ==
    /\ Wrap \in Nat /\ FillSize \in Nat \ {0} /\ RxSize \in Nat \ {0} /\ RxBatch \in Nat \ {0}
    /\ Wrap % FillSize = 0 /\ Wrap % RxSize = 0 /\ Wrap > FillSize /\ Wrap > RxSize
    /\ NumFrames \in Nat /\ NumFrames >= FillSize /\ MaxArrivals \in Nat

Invalid == -1     \* INVALID_UMEM_FRAME

VARIABLES
    free,     \* umem_frame_addr[0 .. umem_frame_free - 1], a stack
    fill,     \* umem->fq
    rx,       \* the receive ring of the socket
    loop,     \* __handle_receive_packets(): its locals and where it is
    kept,     \* number of packets __process_packet() took
    arrivals

ioVars == <<free, fill, rx, loop, kept, arrivals>>
vars == <<skVars, ioVars>>

Idle == [pc |-> "idle", recvd |-> 0, idx |-> 0, stock |-> 0, done |-> 0]
Serving == {s \in Socks : sk[s].pc = "ready"}

(* xsk_alloc_umem_frame() n times: the frames from the top of the stack,   *)
(* INVALID_UMEM_FRAME when it is empty.                                    *)
Alloc(stack, n) ==
    [k \in 1 .. n |-> IF k <= Len(stack) THEN stack[Len(stack) - k + 1] ELSE Invalid]

AfterAlloc(stack, n) == IF n < Len(stack) THEN SubSeq(stack, 1, Len(stack) - n) ELSE << >>
-----------------------------------------------------------------------------
(* Without a socket in use there are no frames and the rings are empty. *)
NewFill == NewRing(FillSize, FillSize, Invalid)
NewRx == NewRing(RxSize, 0, Invalid)

Init ==
    /\ SkInit
    /\ free = << >> /\ fill = NewFill /\ rx = NewRx /\ loop = Idle /\ kept = 0 /\ arrivals = 0

(* xsk_configure_socket(): all frames are free, then the fill ring takes   *)
(* as many as it holds.                                                    *)
AllFrames == [k \in 1 .. NumFrames |-> k - 1]

Configure(s) ==
    /\ Ready(s)
    /\ free' = AfterAlloc(AllFrames, FillSize)
    /\ fill' = Submit(Put(Reserve(fill, FillSize), fill.cprod, Alloc(AllFrames, FillSize)),
                      FillSize)
    /\ UNCHANGED <<rx, loop, kept, arrivals>>

(* The steps of XskSocket, between two calls of dbr_recv(). *)
SocketStep ==
    /\ \/ LauncherAttach \/ LauncherDetach \/ UmemCreate \/ UmemDelete
       \/ \E s \in Socks : \/ \E inhibit \in BOOLEAN : SocketBegin(s, inhibit)
                           \/ SocketConfig(s) \/ SetupLook(s) \/ SetupLoad(s)
                           \/ SetupGet(s) \/ SetupSet(s) \/ NotReady(s)
    /\ UNCHANGED ioVars

Close ==
    /\ \/ AppExit
       \/ loop.pc = "idle" /\ \E s \in Socks : SocketDelete(s)
    /\ IF Serving' = Serving
       THEN UNCHANGED <<free, fill, rx, loop, kept>>
       ELSE free' = << >> /\ fill' = NewFill /\ rx' = NewRx /\ loop' = Idle /\ kept' = 0
    /\ UNCHANGED arrivals
-----------------------------------------------------------------------------
(* The kernel receives a packet for the socket: it passes over invalid     *)
(* entries of the fill ring and drops the packet when none is left or the  *)
(* receive ring is full.                                                   *)
KernelReceive ==
    /\ \E s \in Serving : att # 0 /\ entry[att] = s
    /\ arrivals < MaxArrivals /\ arrivals' = arrivals + 1
    /\ LET c == Contents(fill)
           lent == {k \in 1 .. Len(c) : c[k] # Invalid}
           over == IF lent = {} THEN Len(c) ELSE Min(lent) - 1
       IN  IF lent # {} /\ ~KernelFull(rx)
           THEN rx' = KernelPut(rx, c[over + 1]) /\ fill' = KernelTake(fill, over + 1)
           ELSE fill' = KernelTake(fill, over) /\ UNCHANGED rx
    /\ UNCHANGED <<skVars, free, loop, kept>>

(* dbr_recv(), __handle_receive_packets(): without packets it returns. *)
PeekBatch ==
    /\ Serving # {} /\ loop.pc = "idle" /\ NbAvail(rx, RxBatch) > 0
    /\ rx' = Peek(rx, RxBatch)
    /\ loop' = [Idle EXCEPT !.pc = "look", !.recvd = NbAvail(rx, RxBatch), !.idx = rx.ccons]
    /\ UNCHANGED <<skVars, free, fill, kept, arrivals>>

(* stock_frames: the fill ring is looked at only when the entries known to *)
(* be free are fewer than the free frames.                                 *)
StockOfFrames == Len(free)
Stock == NbFree(fill, Len(free))

LookStock ==
    /\ loop.pc = "look"
    /\ fill' = LookFree(fill, Len(free))
    /\ loop' = [loop EXCEPT !.stock = Stock, !.pc = IF Stock > 0 THEN "reserve" ELSE "process"]
    /\ UNCHANGED <<skVars, free, rx, kept, arrivals>>

(* As many entries are reserved, also when there are fewer frames.  The    *)
(* loop around a reservation that fails is the place "spin".               *)
ReserveStock ==
    /\ loop.pc = "reserve"
    /\ LET n == loop.stock
       IN  IF NbFree(fill, n) >= n
           THEN /\ fill' = Put(Reserve(fill, n), fill.cprod, Alloc(free, n))
                /\ free' = AfterAlloc(free, n) /\ loop' = [loop EXCEPT !.pc = "submit"]
           ELSE loop' = [loop EXCEPT !.pc = "spin"] /\ UNCHANGED <<fill, free>>
    /\ UNCHANGED <<skVars, rx, kept, arrivals>>

SubmitStock ==
    /\ loop.pc = "submit"
    /\ fill' = Submit(fill, loop.stock) /\ loop' = [loop EXCEPT !.pc = "process"]
    /\ UNCHANGED <<skVars, free, rx, kept, arrivals>>

(* One packet of the batch.  When __process_packet() refuses it, its frame *)
(* is given back; when it takes it, not.                                   *)
GivesAll(took) == TRUE
GivesBack(took) == ~took

ProcessPacket ==
    /\ loop.pc = "process" /\ loop.done < loop.recvd
    /\ \E took \in BOOLEAN :
          /\ free' = IF GivesBack(took) THEN Append(free, At(rx, loop.idx + loop.done)) ELSE free
          /\ kept' = IF took THEN kept + 1 ELSE kept
    /\ loop' = [loop EXCEPT !.done = @ + 1]
    /\ UNCHANGED <<skVars, fill, rx, arrivals>>

ReleaseBatch ==
    /\ loop.pc = "process" /\ loop.done = loop.recvd
    /\ rx' = Release(rx, loop.recvd) /\ loop' = Idle
    /\ UNCHANGED <<skVars, free, fill, kept, arrivals>>

Next ==
    \/ SocketStep \/ Close \/ \E s \in Socks : Configure(s)
    \/ KernelReceive
    \/ PeekBatch \/ LookStock \/ ReserveStock \/ SubmitStock \/ ProcessPacket \/ ReleaseBatch

Spec == Init /\ [][Next]_vars
-----------------------------------------------------------------------------
(* Where a frame can be: free, in an entry of the fill ring that is lent   *)
(* to the kernel or reserved, in an entry of the receive ring that is not  *)
(* yet processed.                                                          *)
FillEntry(k) == At(fill, fill.cons + k)
Lent == {k \in 0 .. Ahead(fill.cprod, fill.cons) - 1 : FillEntry(k) # Invalid}
RxEntry(k) == At(rx, rx.cons + k)
Waiting == loop.done .. Ahead(rx.prod, rx.cons) - 1

FreeFrames == {free[k] : k \in DOMAIN free}
LentFrames == {FillEntry(k) : k \in Lent}
WaitingFrames == {RxEntry(k) : k \in Waiting}

(* A frame is never in two places at once, whatever the kernel does        *)
(* between two steps of the loop: it cannot overwrite a packet that waits  *)
(* to be processed, and the assertion of xsk_free_umem_frame() holds.  And *)
(* frames are lost to packets that were processed and to nothing else: a   *)
(* dropped, refused or invalid one costs none.                             *)
FramesAccounted ==
    /\ \A j, k \in DOMAIN free : free[j] = free[k] => j = k
    /\ \A j, k \in Lent : FillEntry(j) = FillEntry(k) => j = k
    /\ \A j, k \in Waiting : RxEntry(j) = RxEntry(k) => j = k
    /\ FreeFrames \intersect LentFrames = {}
    /\ FreeFrames \intersect WaitingFrames = {}
    /\ LentFrames \intersect WaitingFrames = {}
    /\ Serving # {} =>
          Cardinality(FreeFrames \union LentFrames \union WaitingFrames) = NumFrames - kept

(* "This should not happen, but just in case" (dbr.c): the reservation of  *)
(* the entries just counted never fails, so that the loop after it, which  *)
(* asks for another number of entries, is never entered.                   *)
ReservationHolds == loop.pc # "spin"
=============================================================================
