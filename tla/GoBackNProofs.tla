--------------------------- MODULE GoBackNProofs ---------------------------
(***************************************************************************)
(* Theorems about GoBackN for every window size, every retransmission      *)
(* limit and every behaviour of the path: it implements LinkSpec, has      *)
(* therefore what WindowedProofs proves of LinkSpec, and keeps the ingress *)
(* graft and the application aligned.                                      *)
(***************************************************************************)
EXTENDS GoBackN, WindowedProofs

(* Each step of the grafts is a step of LinkNext or leaves its state alone. *)
LEMMA StepIsWindowed == ASSUME LinkType, [Next]_vars PROVE [LinkNext]_linkVars
<1> USE ConstantTypes
<1>0. SenderType
  BY Zenon DEF LinkType
<1>1. CASE \E len \in Lens : Egress(len)
  <2>1. "IDLE" \in Event
    BY Zenon DEF Event
  <2> QED
    BY <1>1, <2>1, Zenon DEF Egress, rhostVars, LinkNext
<1>2. CASE Timer
  BY <1>2, Zenon DEF Timer, rhostVars, LinkNext
<1>3. CASE ScanAcked
  <2>1. i' \in 0 .. W /\ cursor' \in Slots /\ pc # "idle" /\ pc' \in {"timer", "scan"}
    BY <1>0, <1>3 DEF ScanAcked, SenderType, Slots
  <2>2. /\ UNCHANGED <<ackWnd, data, back, faults, harmed, curWin, lastLen, txNum, numSeq, bufWnd,
                       lenWnd, txStarts, histVars, recvVars>>
    BY <1>3, Zenon DEF ScanAcked, mapVars, pathVars, rhostVars
  <2>3. data' = data \union {Resend(j) : j \in {}} /\ {} \in SUBSET (0 .. curWin)
    BY <2>2, Zenon
  <2>4. ackWnd' \in [Slots -> Event]
    BY <1>0, <2>2, Zenon DEF SenderType
  <2>5. FlushStep
    BY <2>1, <2>2, <2>3, <2>4, Zenon DEF FlushStep
  <2> QED
    BY <2>5, Zenon DEF LinkNext
<1>4. CASE ScanDone
  BY <1>4, Zenon DEF ScanDone, FlushEnd, rhostVars, LinkNext
<1>5. CASE ScanLost
  <2>1. cursor' \in Slots /\ i' \in 0 .. W /\ pc # "idle" /\ pc' \in {"timer", "scan"}
    BY <1>0, <1>5 DEF ScanLost, ResendFrom, SenderType, Slots
  <2>2. UNCHANGED <<ackWnd, back, faults, harmed, curWin, lastLen, txNum, numSeq, bufWnd,
                    lenWnd, txStarts, histVars, recvVars>>
    BY <1>5, Zenon DEF ScanLost, ResendFrom, mapVars, rhostVars
  <2>3. data' = data \union {Resend(j) : j \in RetxSlots}
    BY <1>5, Zenon DEF ScanLost, ResendFrom
  <2>4. RetxSlots \in SUBSET (0 .. curWin)
    BY <1>0 DEF RetxSlots, SenderType, Slots
  <2>5. ackWnd' \in [Slots -> Event]
    BY <1>0, <2>2, Zenon DEF SenderType
  <2>6. FlushStep
    BY <2>1, <2>2, <2>3, <2>4, <2>5, Zenon DEF FlushStep
  <2> QED
    BY <2>6 DEF LinkNext
<1>6. CASE Listener
  <2>1. "IDLE" \in Event
    BY DEF Event
  <2> QED
    BY <1>6, <2>1, Zenon DEF Listener, rhostVars, LinkNext
<1>7. CASE Ingress
  <2>1. Judge
    BY <1>7, Zenon DEF Ingress, Judge, IngressAccept, IngressNack, IngressPass
  <2> QED
    BY <2>1, Zenon DEF LinkNext
<1>8. CASE SenderStart \/ ReceiverStart \/ Receive \/ PathStep
  BY <1>8, Zenon DEF LinkNext
<1>9. CASE UNCHANGED vars
  BY <1>9, Zenon DEF vars
<1> QED
  BY <1>1, <1>2, <1>3, <1>4, <1>5, <1>6, <1>7, <1>8, <1>9, Zenon DEF Next, EgressStep

(* NUM_ACK_MAP holds a slot number. *)
LEMMA NumAckType == numAck \in Slots /\ [Next]_vars => numAck' \in Slots
<1> SUFFICES ASSUME numAck \in Slots, [Next]_vars PROVE numAck' \in Slots
  BY Zenon
<1>1. numAck' = numAck \/ numAck' = NextNum(numAck)
  BY Zenon DEF Next, vars, Egress, EgressStep, Timer, ScanAcked, ScanDone, ScanLost, Listener,
         Ingress, IngressAccept, IngressNack, IngressPass, rhostVars
<1> QED
  BY <1>1, NextNumType, Zenon

(* The state of the two hosts is always of its type. *)
THEOREM TypeCorrect == Spec => []TypeOK
<1>1. Init => LinkType /\ RoundBound /\ numAck \in Slots
  BY InitType, ConstantTypes, Zenon DEF Init
<1>2. LinkType /\ RoundBound /\ [Next]_vars => (LinkType /\ RoundBound)'
  BY StepIsWindowed, StepType, Zenon
<1>3. TypeOK /\ RoundBound /\ [Next]_vars => (TypeOK /\ RoundBound)'
  BY <1>2, NumAckType, Zenon DEF TypeOK
<1>4. LinkType /\ numAck \in Slots => TypeOK
  BY Zenon DEF TypeOK
<1>5. Init => TypeOK /\ RoundBound
  BY <1>1, <1>4, Zenon
<1> QED
  BY <1>3, <1>5, PTL DEF Spec

(* The Go-Back-N grafts implement the windowed link: a flush resends only  *)
(* packets of its own window, ends within RETX_MAX rounds, and leaves the  *)
(* other maps alone.                                                       *)
THEOREM GbnIsWindowed == Spec => IsWindowed
<1>1. Init => LinkInit
  BY Zenon DEF Init
<1>2. LinkType /\ [Next]_vars => [LinkNext]_linkVars
  BY StepIsWindowed, Zenon
<1>3. TypeOK => LinkType
  BY Zenon DEF TypeOK
<1> QED
  BY <1>1, <1>2, <1>3, TypeCorrect, PTL DEF Spec, IsWindowed, LinkSpec

(* The purge loop and the storing path leave next_num at a missing packet. *)
THEOREM NextMissing == Spec => []NextIsMissing
  BY GbnIsWindowed, LinkNextMissing, PTL DEF IsWindowed

(* The k-th packet the application reads has an index congruent to k       *)
(* modulo WND_SIZE, whatever the path does.                                *)
THEOREM DeliveryCongruent == Spec => []CongruentDelivery
  BY GbnIsWindowed, LinkDeliveryCongruent, PTL DEF IsWindowed
-----------------------------------------------------------------------------
(* RingAligned, and the receive side untouched before the first start. *)
Aligned ==
    /\ rxStarts = 0 => numAck = 0 /\ rx = << >> /\ dbr = DbrInit
    /\ RingAligned

(* The empty receive side is aligned. *)
LEMMA FreshAligned ==
    ASSUME numAck = 0, rx = << >>, dbr.next = 0, dbr.stored = [s \in Slots |-> FALSE]
    PROVE  RingAligned
<1>1. 0 % W = 0
  BY ModSlot, ConstantTypes, Zenon
<1>2. Len(rx) = 0
  BY Zenon
<1>3. dbr.next + Len(rx) = 0
  BY <1>2
<1>4. \A s \in Slots : ~dbr.stored[s]
  BY Zenon
<1> QED
  BY <1>1, <1>2, <1>3, <1>4 DEF RingAligned

(* Every step keeps NUM_ACK_MAP, the receive ring and next_num aligned. *)
LEMMA StepAligned == TypeOK /\ Aligned /\ [Next]_vars => Aligned'
<1> SUFFICES ASSUME TypeOK, Aligned, [Next]_vars PROVE Aligned'
  BY Zenon
<1>0. rx \in Seq(Packet) /\ dbr \in DbrType /\ rxStarts \in Nat /\ data \subseteq Packet
  BY Zenon DEF TypeOK, LinkType, ReceiverType
<1>1. ASSUME UNCHANGED <<numAck, rx, dbr, rxStarts, overrun>> PROVE Aligned'
  BY <1>1, Zenon DEF Aligned, RingAligned
<1>2. CASE \/ SenderStart /\ UNCHANGED numAck
           \/ \E len \in Lens : Egress(len)
           \/ EgressStep \/ Listener
           \/ PathStep /\ UNCHANGED numAck
  BY <1>1, <1>2, Zenon DEF SenderStart, Egress, EgressStep, Timer, ScanAcked, ScanDone, ScanLost,
                    Listener, PathStep, recvVars, rhostVars
<1>3. CASE UNCHANGED vars
  BY <1>1, <1>3, Zenon DEF vars, linkVars
<1>4. CASE ReceiverStart /\ UNCHANGED numAck
  <2>1. /\ rxStarts' = rxStarts + 1 /\ rx' = << >> /\ dbr' = [DbrInit EXCEPT !.out = dbr.out]
        /\ UNCHANGED <<numAck, overrun>>
    BY <1>4, Zenon DEF ReceiverStart, Attach
  <2>2. rxStarts' # 0 /\ (rxStarts' <= 1 => rxStarts = 0)
    BY <1>0, <2>1
  <2>3. rxStarts = 0 => numAck' = 0
    BY <2>1, Zenon DEF Aligned
  <2>4. dbr'.next = 0 /\ dbr'.stored = [s \in Slots |-> FALSE]
    BY <2>1, Zenon DEF DbrInit
  <2>5. rxStarts = 0 => RingAligned'
    <3>0. 0 % W = 0
      BY ModSlot, ConstantTypes, Zenon
    <3>a. Len(rx') = 0
      BY <2>1, Zenon
    <3>1. 0 % W = 0 /\ Len(rx') = 0 /\ dbr'.next + Len(rx') = 0
      BY <2>4, <3>0, <3>a
    <3>2. \A s \in Slots : ~dbr'.stored[s]
      BY <2>4, Zenon
    <3> QED
      BY <2>3, <3>1, <3>2 DEF RingAligned
  <2> QED
    BY <2>2, <2>5, Zenon DEF Aligned, RingAligned
<1>5. CASE Ingress
  <2>1. PICK m \in data :
          /\ IngressAccept(m) \/ IngressNack(m) \/ IngressPass(m)
          /\ UNCHANGED <<dbr, rxStarts>>
    BY <1>5, Zenon DEF Ingress, IngressAccept, IngressNack, IngressPass, Redirect, Refuse, Ignore,
                recvVars
  <2>2. CASE IngressNack(m) \/ IngressPass(m)
    BY <1>1, <2>1, <2>2, Zenon DEF IngressNack, IngressPass, Refuse, Ignore, recvVars
  <2>3. CASE IngressAccept(m)
    <3>1. /\ rxStarts > 0 /\ numAck = m.seq /\ numAck' = NextNum(numAck)
          /\ \/ rx' = Append(rx, m) /\ overrun' = overrun
             \/ overrun' = TRUE
      BY <2>3, Zenon DEF IngressAccept, Expected, Redirect
    <3>2. rxStarts' # 0
      BY <1>0, <2>1, <3>1
    <3>3. CASE overrun'
      BY <3>2, <3>3, Zenon DEF Aligned, RingAligned
    <3>4. CASE rx' = Append(rx, m) /\ overrun' = overrun
      <4> SUFFICES ASSUME rxStarts <= 1, ~overrun
                   PROVE  /\ numAck' = (dbr.next + Len(rx')) % W
                          /\ \A s \in Slots : ~dbr.stored[s]
                          /\ \A k \in 1 .. Len(rx') : rx'[k].seq = (dbr.next + k - 1) % W
        BY <2>1, <3>2, <3>4, Zenon DEF Aligned, RingAligned
      <4> DEFINE n == Len(rx)
      <4>1. /\ rx \in Seq(Packet) /\ m \in Packet /\ n \in Nat /\ dbr.next \in Nat
            /\ Len(rx') = n + 1
        BY <1>0, <3>4, ConstantTypes DEF DbrType
      <4>2. /\ numAck = (dbr.next + n) % W
            /\ \A s \in Slots : ~dbr.stored[s]
            /\ \A k \in 1 .. n : rx[k].seq = (dbr.next + k - 1) % W
        BY Zenon DEF Aligned, RingAligned
      <4>3. /\ \A k \in 1 .. n : rx'[k] = rx[k]
            /\ rx'[n + 1] = m
        BY <3>4, <4>1
      <4> HIDE DEF n
      <4>4. /\ (dbr.next + n) + 1 = dbr.next + (n + 1) /\ dbr.next + n \in Nat
            /\ dbr.next + (n + 1) - 1 = dbr.next + n
        BY <4>1
      <4>5. numAck' = (dbr.next + (n + 1)) % W
        <5>1. (((dbr.next + n) % W) + 1) % W = ((dbr.next + n) + 1) % W
          BY <4>4, ModAdd, Zenon
        <5>2. numAck' = (numAck + 1) % W
          BY <3>1, Zenon DEF NextNum
        <5> QED
          BY <4>2, <4>4, <5>1, <5>2, Zenon
      <4>6. ASSUME NEW k \in 1 .. n + 1 PROVE rx'[k].seq = (dbr.next + k - 1) % W
        <5>1. CASE k = n + 1
          BY <5>1, <3>1, <4>2, <4>3, <4>4, Zenon
        <5>2. CASE k \in 1 .. n
          BY <5>2, <4>2, <4>3, Zenon
        <5> QED
          <6>1. n \in Nat
            BY <4>1, Zenon
          <6>2. k = n + 1 \/ k \in 1 .. n
            BY <6>1
          <6> QED
            BY <5>1, <5>2, <6>2, Zenon
      <4> QED
        BY <4>1, <4>2, <4>5, <4>6, Zenon
    <3> QED
      BY <3>1, <3>3, <3>4, Zenon
  <2> QED
    BY <2>1, <2>2, <2>3, Zenon
<1>6. CASE Receive /\ UNCHANGED numAck
  <2>1. /\ rx # << >> /\ rx' = Tail(rx) /\ dbr' = ProcessPacket(dbr, Head(rx))
        /\ UNCHANGED <<numAck, rxStarts, overrun>>
    BY <1>6, Zenon DEF Receive, Process
  <2>2. rxStarts' # 0
    BY <2>1, Zenon DEF Aligned
  <2> SUFFICES ASSUME rxStarts <= 1, ~overrun
               PROVE  /\ numAck = (dbr'.next + Len(rx')) % W
                      /\ \A s \in Slots : ~dbr'.stored[s]
                      /\ \A k \in 1 .. Len(rx') : rx'[k].seq = (dbr'.next + k - 1) % W
    BY <2>1, <2>2, Zenon DEF Aligned, RingAligned
  <2> DEFINE n == Len(rx)
             x == dbr.next
  <2>3. /\ rx \in Seq(Packet) /\ Head(rx) \in Packet /\ Head(rx) = rx[1] /\ n \in Nat
        /\ n >= 1 /\ Len(rx') = n - 1 /\ (\A k \in 1 .. n - 1 : rx'[k] = rx[k + 1])
        /\ dbr \in DbrType /\ x \in Slots /\ x \in Nat
    <3>1. rx \in Seq(Packet) /\ dbr \in DbrType
      BY <1>0, Zenon
    <3>2. x \in Slots /\ x \in Nat
      BY <3>1, ConstantTypes, Zenon DEF DbrType
    <3> HIDE DEF x
    <3>3. Head(rx) \in Packet /\ Head(rx) = rx[1] /\ n \in Nat /\ n >= 1
      BY <2>1, <3>1
    <3>4. Len(rx') = n - 1 /\ \A k \in 1 .. n - 1 : rx'[k] = rx[k + 1]
      BY <2>1, <3>1
    <3> QED
      BY <3>1, <3>2, <3>3, <3>4, Zenon
  <2>4. /\ numAck = (x + n) % W
        /\ \A s \in Slots : ~dbr.stored[s]
        /\ \A k \in 1 .. n : rx[k].seq = (x + k - 1) % W
    BY Zenon DEF Aligned, RingAligned
  <2>5. Head(rx).seq = x
    <3>1. 1 \in 1 .. n /\ x + 1 - 1 = x
      BY <2>3
    <3> QED
      BY <3>1, <2>3, <2>4, ModSlot, Zenon
  <2>6. dbr'.next = (x + 1) % W /\ \A s \in Slots : ~dbr'.stored[s]
    BY <2>1, <2>3, <2>4, <2>5, ProcessExpected, Zenon
  <2> HIDE DEF n, x
  <2>7. \A k \in Nat : (dbr'.next + k) % W = (x + (1 + k)) % W
    <3>1. \A k \in Nat : (((x + 1) % W) + k) % W = ((x + 1) + k) % W
      BY <2>3, ModAdd
    <3>2. \A k \in Nat : (x + 1) + k = x + (1 + k)
      BY <2>3
    <3> QED
      BY <2>6, <3>1, <3>2, Zenon
  <2>8. numAck = (dbr'.next + (n - 1)) % W
    <3>0. n \in Nat /\ n >= 1
      BY <2>3, Zenon
    <3>1. n - 1 \in Nat /\ 1 + (n - 1) = n
      BY <3>0
    <3> QED
      BY <3>1, <2>4, <2>7, Zenon
  <2>9. ASSUME NEW k \in 1 .. n - 1 PROVE rx'[k].seq = (dbr'.next + k - 1) % W
    <3>0. dbr'.next \in Nat
      BY <2>3, <2>6, DivMod, ConstantTypes
    <3>1. /\ k - 1 \in Nat /\ 1 + (k - 1) = k /\ dbr'.next + (k - 1) = dbr'.next + k - 1
          /\ k + 1 \in 1 .. n /\ x + (k + 1) - 1 = x + k
      BY <2>3, <3>0
    <3>2. rx'[k].seq = (x + k) % W
      BY <3>1, <2>3, <2>4, Zenon
    <3> QED
      BY <3>1, <3>2, <2>7, Zenon
  <2> QED
    BY <2>3, <2>6, <2>8, <2>9, Zenon
<1> QED
  BY <1>2, <1>3, <1>4, <1>5, <1>6, Zenon DEF Next

(* NUM_ACK_MAP in the kernel and next_num in the application never drift   *)
(* apart during one life of the receiver whose ring does not overflow.     *)
THEOREM RingStaysAligned == Spec => []RingAligned
<1>1. Init => Aligned
  <2> SUFFICES ASSUME Init PROVE Aligned
    BY Zenon
  <2>1. numAck = 0 /\ rx = << >> /\ dbr = DbrInit
    BY Zenon DEF Init, LinkInit, ReceiverInit
  <2> QED
    BY <2>1, FreshAligned, Zenon DEF Aligned, DbrInit
<1>2. Aligned => RingAligned
  BY Zenon DEF Aligned
<1> QED
  BY <1>1, <1>2, StepAligned, TypeCorrect, PTL DEF Spec
-----------------------------------------------------------------------------
(* What is in flight belongs to the packet that BUF_WND_MAP keeps under    *)
(* its number: the timer outlasts it, so nothing of an earlier window is   *)
(* still on its way when a slot is filled again.                           *)
InFlightCurrent ==
    /\ txStarts = 0 => pc = "idle" /\ PathQuiet
    /\ pc = "scan" => PathQuiet
    /\ \A m \in data \union back :
          bufWnd[m.seq].pay = m.pay /\ (pc = "idle" => m.seq < numSeq)

(* What is taken for acknowledged has been accepted. *)
AckedHeld ==
    /\ confirmed \subseteq AcceptedPays
    /\ \A r \in back : r.type = "ACK" => r.pay \in AcceptedPays
    /\ \A s \in Slots : s < Len(sent) /\ ackWnd[s] = "RECV_ACK" => Has(s)
    /\ pc = "timer" => \A s \in Slots : s < cursor => Has(s)
    /\ pc = "scan" => \A s \in Slots : s < i => Has(s)

(* The strengthening of ConfirmedAreAccepted. *)
ConfirmInv ==
    /\ SingleRun => InFlightCurrent
    /\ SingleRun /\ ~overrun => AckedHeld

(* A life of the applications is not entered from a later one, and an      *)
(* overflow of the ring or a flush that gave up is not forgotten.          *)
LEMMA RunBackwards ==
    ASSUME TypeOK, [Next]_vars
    PROVE  /\ SingleRun' => SingleRun
           /\ ~overrun' => ~overrun
           /\ ~gaveUp' => ~gaveUp
<1>1. /\ txStarts \in Nat /\ rxStarts \in Nat
  BY Zenon DEF TypeOK, LinkType, SenderType, ReceiverType
<1>2. /\ txStarts' = txStarts \/ txStarts' = txStarts + 1
      /\ rxStarts' = rxStarts \/ rxStarts' = rxStarts + 1
      /\ overrun' = overrun \/ overrun' = TRUE
      /\ gaveUp' = gaveUp \/ gaveUp' = TRUE
  <2>1. CASE SenderStart \/ (\E len \in Lens : Egress(len)) \/ EgressStep \/ Listener
    BY <2>1, Zenon DEF SenderStart, Boot, Egress, Fill, EgressStep, Timer, Wake, ScanAcked, ScanDone,
       Confirm, ScanLost, ResendFrom, Listener, Hear, mapVars, histVars, recvVars, rhostVars
  <2>2. CASE ReceiverStart \/ Receive \/ PathStep \/ UNCHANGED vars
    BY <2>2, Zenon DEF ReceiverStart, Attach, Receive, Process, PathStep, sendVars, mapVars, histVars,
       recvVars, vars, linkVars
  <2>3. CASE Ingress
    BY <2>3, Zenon DEF Ingress, IngressAccept, IngressNack, IngressPass, Redirect, Refuse, Ignore,
       sendVars, mapVars, histVars, recvVars
  <2> QED
    BY <2>1, <2>2, <2>3, Zenon DEF Next
<1> QED
  BY <1>1, <1>2 DEF SingleRun

(* A step that adds nothing to the path but answers to what is on it and   *)
(* damaged copies of it.                                                   *)
LEMMA SameInFlight ==
    ASSUME InFlightCurrent, UNCHANGED <<bufWnd, numSeq, txStarts, pc>>,
           \A m \in data' \union back' :
              \E n \in data \union back : m.seq = n.seq /\ m.pay = n.pay
    PROVE  InFlightCurrent'
<1>1. PathQuiet => PathQuiet'
  BY Zenon DEF PathQuiet
<1> QED
  BY <1>1, Zenon DEF InFlightCurrent

(* A packet is put on the path under a number that nothing in flight has.  *)
LEMMA FillInFlight ==
    ASSUME TypeOK, InFlightCurrent, NEW len \in Lens, Egress(len)
    PROVE  InFlightCurrent'
<1> DEFINE p == NewPacket(len)
<1>1. /\ pc = "idle" /\ txStarts > 0 /\ numSeq' = NextNum(numSeq) /\ data' = data \union {p}
      /\ bufWnd' = [bufWnd EXCEPT ![numSeq] = p] /\ back' = back /\ txStarts' = txStarts
      /\ pc' = IF Flushes(len) THEN "timer" ELSE "idle"
  BY Zenon DEF Egress, Fill
<1>2. /\ numSeq \in Slots /\ bufWnd \in [Slots -> Packet] /\ txStarts \in Nat
      /\ data \subseteq Packet /\ back \subseteq Answer
  BY Zenon DEF TypeOK, LinkType, SenderType
<1>3. p.seq = numSeq /\ p.pay = Len(sent)
  BY Zenon DEF NewPacket
<1> HIDE DEF p
<1>4. \A m \in data \union back : m.seq \in Slots
  BY <1>2, Zenon DEF Packet, Answer
<1>5. \A m \in data \union back : m.seq < numSeq
  BY <1>1, Zenon DEF InFlightCurrent
<1>6. \A s \in Slots : s < numSeq => s # numSeq
  BY <1>2, ConstantTypes
<1>7. ASSUME NEW m \in data' \union back' PROVE bufWnd'[m.seq].pay = m.pay
  <2>1. CASE m = p
    BY <2>1, <1>1, <1>2, <1>3, Zenon
  <2>2. CASE m \in data \union back
    <3>1. m.seq \in Slots /\ m.seq # numSeq /\ bufWnd[m.seq].pay = m.pay
      BY <2>2, <1>4, <1>5, <1>6, Zenon DEF InFlightCurrent
    <3> QED
      BY <3>1, <1>1, <1>2, Zenon
  <2> QED
    BY <1>1, <2>1, <2>2, Zenon
<1>8. ASSUME pc' = "idle", NEW m \in data' \union back' PROVE m.seq < numSeq'
  <2>1. numSeq # W - 1
    BY <1>1, <1>8, Zenon DEF Flushes
  <2>2. numSeq + 1 \in Slots
    BY <1>2, <2>1, ConstantTypes DEF Slots
  <2>3. numSeq' = numSeq + 1
    BY <1>1, <2>2, ModSlot, Zenon DEF NextNum
  <2>4. m.seq \in Slots /\ (m.seq < numSeq \/ m.seq = numSeq)
    BY <1>1, <1>2, <1>3, <1>4, <1>5, Zenon
  <2> QED
    BY <1>2, <2>3, <2>4, ConstantTypes
<1>9. txStarts' # 0 /\ pc' # "scan"
  BY <1>1, <1>2
<1> QED
  BY <1>7, <1>8, <1>9, Zenon DEF InFlightCurrent

(* A retransmission puts the kept packets on the path. *)
LEMMA ResendInFlight ==
    ASSUME TypeOK, Congruent, SingleRun, InFlightCurrent, ScanLost
    PROVE  InFlightCurrent'
<1>1. /\ pc = "scan" /\ pc' = "timer" /\ data' = data \union {Resend(j) : j \in i .. curWin}
      /\ UNCHANGED <<back, bufWnd, txStarts>>
  BY Zenon DEF ScanLost, ResendFrom, RetxSlots, mapVars
<1>2. i \in Nat /\ curWin \in Nat /\ Len(sent) \in Nat
  BY ConstantTypes DEF TypeOK, LinkType, SenderType, Slots
<1>3. curWin < Len(sent)
  BY <1>1, Zenon DEF Congruent
<1>4. ASSUME NEW j \in i .. curWin
      PROVE  bufWnd[Resend(j).seq].pay = Resend(j).pay
  <2>1. j \in 0 .. curWin /\ j < Len(sent)
    BY <1>2, <1>3
  <2>2. j \in Slots /\ Resend(j).pay = bufWnd[j].pay /\ Resend(j).seq = bufWnd[j].seq
    BY <2>1, ResendType, Zenon DEF TypeOK, LinkType
  <2>3. bufWnd[j].seq = j
    BY <2>1, <2>2, Zenon DEF Congruent
  <2> QED
    BY <2>2, <2>3, Zenon
<1> QED
  BY <1>1, <1>4, Zenon DEF InFlightCurrent

(* Every step keeps what is in flight attributed. *)
LEMMA StepInFlight ==
    ASSUME Timely, TypeOK, Congruent, [Next]_vars, SingleRun', SingleRun => InFlightCurrent
    PROVE  InFlightCurrent'
<1>0. SingleRun /\ InFlightCurrent
  BY RunBackwards, Zenon
<1>1. CASE SenderStart
  <2>1. txStarts' = txStarts + 1 /\ pc = "idle" /\ UNCHANGED <<data, back, bufWnd, pc>>
    BY <1>1, Zenon DEF SenderStart, Boot, pathVars, callVars
  <2>2. txStarts' # 0 /\ txStarts = 0
    BY <2>1 DEF SingleRun, TypeOK, LinkType, SenderType
  <2>3. data' = {} /\ back' = {}
    BY <1>0, <2>1, <2>2, Zenon DEF InFlightCurrent, PathQuiet
  <2> QED
    BY <2>1, <2>2, <2>3, Zenon DEF InFlightCurrent, PathQuiet
<1>2. CASE \E len \in Lens : Egress(len)
  BY <1>0, <1>2, FillInFlight, Zenon
<1>3. CASE Timer
  <2>1. /\ data = {} /\ back = {} /\ pc = "timer"
        /\ UNCHANGED <<data, back, bufWnd, numSeq, txStarts>>
    BY <1>3, Zenon DEF Timer, Wake, TimerMayFire, PathQuiet, mapVars, pathVars
  <2>2. txStarts # 0
    BY <1>0, <2>1 DEF InFlightCurrent
  <2> QED
    BY <2>1, <2>2, Zenon DEF InFlightCurrent, PathQuiet
<1>4. CASE ScanAcked \/ (Receive /\ UNCHANGED numAck) \/ (ReceiverStart /\ UNCHANGED numAck)
      \/ UNCHANGED vars
  BY <1>0, <1>4, SameInFlight, Zenon DEF ScanAcked, Receive, ReceiverStart, pathVars, mapVars, sendVars,
     callVars, vars, linkVars
<1>5. CASE ScanDone
  <2>1. pc = "scan" /\ pc' = "idle" /\ UNCHANGED <<data, back, bufWnd, numSeq, txStarts>>
    BY <1>5, Zenon DEF ScanDone, Confirm, mapVars, pathVars
  <2>2. data = {} /\ back = {} /\ txStarts # 0
    BY <1>0, <2>1 DEF InFlightCurrent, PathQuiet
  <2> QED
    BY <2>1, <2>2, Zenon DEF InFlightCurrent, PathQuiet
<1>6. CASE ScanLost
  BY <1>0, <1>6, ResendInFlight, Zenon
<1>7. CASE Listener
  <2>1. data' = data /\ back' \subseteq back /\ UNCHANGED <<bufWnd, numSeq, txStarts, pc>>
    BY <1>7, Zenon DEF Listener, Hear, Take, callVars
  <2> QED
    BY <1>0, <2>1, SameInFlight, Zenon
<1>8. CASE Ingress
  <2>1. PICK m \in data :
          /\ data' \subseteq data
          /\ back' \subseteq back \union {AnswerTo(m, "ACK"), AnswerTo(m, "NACK")}
          /\ UNCHANGED <<bufWnd, numSeq, txStarts, pc>>
    BY <1>8, Zenon DEF Ingress, Arrive, Take, IngressAccept, IngressNack, IngressPass, Redirect, Refuse,
       Ignore, sendVars, mapVars, callVars
  <2>2. \A t \in {"ACK", "NACK"} : AnswerTo(m, t).seq = m.seq /\ AnswerTo(m, t).pay = m.pay
    BY Zenon DEF AnswerTo
  <2>3. \A n \in data' \union back' : \E k \in data \union back : n.seq = k.seq /\ n.pay = k.pay
    BY <2>1, <2>2, Zenon
  <2> QED
    BY <1>0, <2>1, <2>3, SameInFlight, Zenon
<1>9. CASE PathStep /\ UNCHANGED numAck
  <2>1. UNCHANGED <<bufWnd, numSeq, txStarts, pc>>
    BY <1>9, Zenon DEF PathStep, sendVars, mapVars, callVars
  <2>2. CASE LosePacket \/ LoseAnswer
    <3>1. data' \subseteq data /\ back' \subseteq back
      BY <2>2, Zenon DEF LosePacket, LoseAnswer
    <3> QED
      BY <1>0, <2>1, <3>1, SameInFlight, Zenon
  <2>3. CASE DamagePacket
    <3>1. PICK m \in data, h \in Harm :
             data' = Take(data, m) \union {[m EXCEPT !.bad = h]} /\ back' = back
      BY <2>3, Zenon DEF DamagePacket
    <3>2. [m EXCEPT !.bad = h].pay = m.pay /\ [m EXCEPT !.bad = h].seq = m.seq
      BY Zenon DEF TypeOK, LinkType, Packet
    <3>3. Take(data, m) \subseteq data
      BY Zenon DEF Take
    <3> QED
      BY <1>0, <2>1, <3>1, <3>2, <3>3, SameInFlight, Zenon
  <2> QED
    BY <1>9, <2>2, <2>3, Zenon DEF PathStep, PathNext
<1> QED
  BY <1>1, <1>2, <1>3, <1>4, <1>5, <1>6, <1>7, <1>8, <1>9, Zenon DEF Next, EgressStep

(* What the receiving host has it keeps, during one life of the receiver   *)
(* whose ring has not overflowed: the packets reach an empty reorder       *)
(* buffer in order, and it hands each of them on.                          *)
LEMMA AcceptedGrows ==
    ASSUME TypeOK, Congruent, Aligned, [Next]_vars, SingleRun', ~overrun'
    PROVE  AcceptedPays \subseteq AcceptedPays'
<1> SUFFICES ASSUME NEW m \in Accepted PROVE m \in Accepted'
  BY Zenon DEF AcceptedPays
<1>0. /\ rx \in Seq(Packet) /\ dbr \in DbrType /\ rxStarts \in Nat /\ data \subseteq Packet
      /\ dbr.out \in Seq(Packet)
  BY Zenon DEF TypeOK, LinkType, ReceiverType, DbrType
<1>1. SingleRun /\ ~overrun
  BY RunBackwards, Zenon
<1>a. rxStarts <= 1
  BY <1>1, Zenon DEF SingleRun
<1>2. \A s \in Slots : ~dbr.stored[s]
  BY <1>1, <1>a, Zenon DEF Aligned, RingAligned
<1>3. \/ \E k \in 1 .. Len(rx) : m = rx[k]
      \/ \E k \in 1 .. Len(dbr.out) : m = dbr.out[k]
  BY <1>2, Zenon DEF Accepted
<1>4. CASE UNCHANGED <<rx, dbr>>
  BY <1>4, Zenon DEF Accepted
<1>5. CASE ReceiverStart
  <2>1. rxStarts = 0
    BY <1>0, <1>5 DEF ReceiverStart, Attach, SingleRun
  <2>2. rx = << >> /\ dbr.out = << >>
    BY <2>1 DEF Aligned, DbrInit
  <2>3. Len(rx) = 0 /\ Len(dbr.out) = 0
    BY <2>2, Zenon
  <2> QED
    BY <1>3, <2>3
<1>6. CASE Ingress
  <2>1. PICK p \in data : dbr' = dbr /\ (rx' = rx \/ rx' = Append(rx, p))
    BY <1>6, Zenon DEF Ingress, IngressAccept, IngressNack, IngressPass, Redirect, Refuse, Ignore,
       recvVars
  <2>2. CASE rx' = Append(rx, p)
    <3>1. \A k \in 1 .. Len(rx) : k \in 1 .. Len(rx') /\ rx'[k] = rx[k]
      BY <1>0, <2>2
    <3> QED
      BY <1>3, <2>1, <3>1, Zenon DEF Accepted
  <2> QED
    BY <1>4, <2>1, <2>2, Zenon
<1>7. CASE Receive
  <2>1. rx # << >> /\ rx' = Tail(rx) /\ dbr' = ProcessPacket(dbr, Head(rx))
    BY <1>7, Zenon DEF Receive, Process
  <2>2. /\ Head(rx) \in Packet /\ Head(rx) = rx[1] /\ Len(rx) \in Nat /\ Len(rx) >= 1
        /\ Len(rx') = Len(rx) - 1 /\ \A k \in 1 .. Len(rx) - 1 : rx'[k] = rx[k + 1]
    BY <1>0, <2>1
  <2>3. Head(rx).seq = dbr.next
    <3>1. 1 \in 1 .. Len(rx) /\ dbr.next \in Slots
      BY <1>0, <2>2 DEF DbrType
    <3>2. dbr.next + 1 - 1 = dbr.next
      BY <3>1, ConstantTypes
    <3> QED
      BY <1>1, <1>a, <2>2, <3>1, <3>2, ModSlot, Zenon DEF Aligned, RingAligned
  <2>4. dbr'.out = Append(dbr.out, Head(rx))
    BY <1>0, <1>2, <2>1, <2>2, <2>3, ProcessExpected, Zenon
  <2>5. /\ \A k \in 1 .. Len(dbr.out) : k \in 1 .. Len(dbr'.out) /\ dbr'.out[k] = dbr.out[k]
        /\ Len(dbr.out) + 1 \in 1 .. Len(dbr'.out) /\ dbr'.out[Len(dbr.out) + 1] = Head(rx)
    BY <1>0, <2>2, <2>4
  <2>6. \A k \in 1 .. Len(rx) : k = 1 \/ (k - 1 \in 1 .. Len(rx') /\ rx'[k - 1] = rx[k])
    BY <2>2
  <2>7. (\E k \in 1 .. Len(rx') : m = rx'[k]) \/ (\E l \in 1 .. Len(dbr'.out) : m = dbr'.out[l])
    BY <1>3, <2>2, <2>5, <2>6
  <2> QED
    BY <2>7, Zenon DEF Accepted
<1>8. CASE \/ SenderStart \/ (\E len \in Lens : Egress(len)) \/ EgressStep \/ Listener \/ PathStep
           \/ UNCHANGED vars
  BY <1>4, <1>8, Zenon DEF SenderStart, Egress, EgressStep, Timer, ScanAcked, ScanDone, ScanLost,
     Listener, PathStep, recvVars, rhostVars, vars, linkVars
<1> QED
  BY <1>5, <1>6, <1>7, <1>8, Zenon DEF Next

(* A step that leaves the sending host and its answers alone. *)
LEMMA SameAcked ==
    ASSUME AckedHeld, AcceptedPays \subseteq AcceptedPays',
           UNCHANGED <<confirmed, sent, ackWnd, bufWnd, cursor, i, pc>>,
           \A r \in back' : r \in back \/ r.type = "NACK" \/ r.pay \in AcceptedPays'
    PROVE  AckedHeld'
<1> HIDE DEF AcceptedPays
<1>1. \A s : Has(s) => Has(s)'
  BY Zenon DEF Has
<1>2. \A r \in back' : r.type = "ACK" => r.pay \in AcceptedPays'
  BY DEF AckedHeld
<1> QED
  BY <1>1, <1>2, Zenon DEF AckedHeld

(* The slot that is filled is armed, and is not taken for acknowledged. *)
LEMMA FillAcked ==
    ASSUME TypeOK, Congruent, SingleRun, AckedHeld, AcceptedPays \subseteq AcceptedPays',
           NEW len \in Lens, Egress(len)
    PROVE  AckedHeld'
<1>1. /\ ackWnd' = [ackWnd EXCEPT ![numSeq] = "IDLE"] /\ bufWnd' = [bufWnd EXCEPT ![numSeq] = NewPacket(len)]
      /\ sent' = Append(sent, len) /\ UNCHANGED <<back, confirmed>> /\ pc' # "scan" /\ cursor' = 0
  BY DEF Egress, Fill, Armed
<1>2. /\ numSeq \in Slots /\ bufWnd \in [Slots -> Packet] /\ ackWnd \in [Slots -> Event]
      /\ sent \in Seq(Lens)
  BY Zenon DEF TypeOK, LinkType, SenderType
<1>3. Len(sent) \in Nat /\ Len(sent') = Len(sent) + 1
  BY <1>1, <1>2
<1> HIDE DEF AcceptedPays
<1>4. ASSUME NEW s \in Slots, s < Len(sent'), ackWnd'[s] = "RECV_ACK" PROVE Has(s)'
  <2>1. s # numSeq /\ ackWnd[s] = "RECV_ACK" /\ bufWnd'[s] = bufWnd[s]
    BY <1>1, <1>2, <1>4
  <2>2. s # Len(sent)
    BY <1>4, <2>1, ModSlot, Zenon DEF Congruent
  <2>3. s < Len(sent)
    BY <1>3, <1>4, <2>2, ConstantTypes
  <2> QED
    BY <2>1, <2>3, Zenon DEF AckedHeld, Has
<1>5. \A s \in Slots : ~(s < cursor')
  BY <1>1, ConstantTypes
<1>6. confirmed' \subseteq AcceptedPays' /\ \A r \in back' : r.type = "ACK" => r.pay \in AcceptedPays'
  BY <1>1, Zenon DEF AckedHeld
<1> QED
  BY <1>1, <1>4, <1>5, <1>6, Zenon DEF AckedHeld

(* The scan walks over slots whose packets are accepted, and a flush that  *)
(* gets past the window has seen them all.                                 *)
LEMMA FlushAcked ==
    ASSUME TypeOK, Congruent, SingleRun, AckedHeld, AcceptedPays \subseteq AcceptedPays', EgressStep
    PROVE  AckedHeld'
<1> HIDE DEF AcceptedPays
<1>0. UNCHANGED <<back, sent, ackWnd, bufWnd>> /\ pc # "idle"
  <2>1. CASE Timer
    BY <2>1 DEF Timer, Wake, mapVars, pathVars
  <2>2. CASE ScanAcked
    BY <2>2 DEF ScanAcked, mapVars, pathVars, histVars
  <2>3. CASE ScanDone
    BY <2>3 DEF ScanDone, Confirm, mapVars, pathVars
  <2>4. CASE ScanLost
    BY <2>4 DEF ScanLost, ResendFrom, mapVars, histVars
  <2> QED
    BY <2>1, <2>2, <2>3, <2>4, Zenon DEF EgressStep
<1>1. \A s : Has(s) => Has(s)'
  BY <1>0, Zenon DEF Has
<1>2. /\ \A r \in back' : r.type = "ACK" => r.pay \in AcceptedPays'
      /\ \A s \in Slots : s < Len(sent') /\ ackWnd'[s] = "RECV_ACK" => Has(s)'
      /\ confirmed \subseteq AcceptedPays'
  BY <1>0, <1>1, Zenon DEF AckedHeld
<1>3. /\ i \in Nat /\ curWin \in Slots /\ curWin \in Nat /\ Len(sent) \in Nat
      /\ \A s \in Slots : s \in Nat
  BY ConstantTypes DEF TypeOK, LinkType, SenderType
<1>4. curWin < Len(sent)
  BY <1>0, Zenon DEF Congruent
<1>5. CASE Timer
  <2>1. pc = "timer" /\ pc' # "timer" /\ (pc' = "scan" => i' = cursor) /\ confirmed' = confirmed
    BY <1>5 DEF Timer, Wake
  <2> QED
    BY <1>1, <1>2, <2>1, Zenon DEF AckedHeld
<1>6. CASE ScanAcked
  <2>1. /\ pc = "scan" /\ pc' = "scan" /\ i <= curWin /\ ackWnd[i] = "RECV_ACK" /\ i' = i + 1
        /\ confirmed' = confirmed
    BY <1>6, Zenon DEF ScanAcked, histVars
  <2>2. i \in Slots /\ i < Len(sent)
    BY <1>3, <1>4, <2>1, ConstantTypes DEF Slots
  <2>3. \A s \in Slots : s < i' => s < i \/ s = i
    BY <1>3, <2>1
  <2>4. Has(i)
    BY <2>1, <2>2, Zenon DEF AckedHeld
  <2>5. \A s \in Slots : s < i' => Has(s)'
    BY <1>1, <2>1, <2>3, <2>4, Zenon DEF AckedHeld
  <2> QED
    BY <1>2, <2>1, <2>5 DEF AckedHeld
<1>7. CASE ScanDone
  <2>1. /\ pc = "scan" /\ pc' = "idle" /\ i > curWin
        /\ confirmed' = confirmed \union {bufWnd[s].pay : s \in 0 .. curWin}
    BY <1>7, Zenon DEF ScanDone, Confirm
  <2>2. \A s \in 0 .. curWin : s \in Slots /\ s < i
    BY <1>3, <2>1, ConstantTypes DEF Slots
  <2>3. \A s \in 0 .. curWin : bufWnd[s].pay \in AcceptedPays'
    BY <2>1, <2>2, Zenon DEF AckedHeld, Has
  <2>4. confirmed' \subseteq AcceptedPays'
    BY <1>2, <2>1, <2>3, Zenon
  <2> QED
    BY <1>2, <2>1, <2>4 DEF AckedHeld
<1>8. CASE ScanLost
  <2>1. pc = "scan" /\ pc' = "timer" /\ cursor' = i /\ confirmed' = confirmed
    BY <1>8, Zenon DEF ScanLost, ResendFrom, histVars
  <2>2. \A s \in Slots : s < cursor' => Has(s)'
    BY <1>1, <2>1, Zenon DEF AckedHeld
  <2> QED
    BY <1>2, <2>1, <2>2 DEF AckedHeld
<1> QED
  BY <1>5, <1>6, <1>7, <1>8, Zenon DEF EgressStep

(* The listener sets the slot of the packet the ACK is about. *)
LEMMA ListenerAcked ==
    ASSUME TypeOK, InFlightCurrent, AckedHeld, AcceptedPays \subseteq AcceptedPays', Listener
    PROVE  AckedHeld'
<1> HIDE DEF AcceptedPays
<1>1. PICK r \in back :
        /\ back' \subseteq back
        /\ ackWnd' = [ackWnd EXCEPT ![r.seq] = IF r.type = "NACK" THEN "IDLE" ELSE "RECV_ACK"]
        /\ UNCHANGED <<confirmed, sent, bufWnd, cursor, i, pc>>
  BY Zenon DEF Listener, Hear, Take, callVars, histVars
<1>2. ackWnd \in [Slots -> Event] /\ r.type \in {"ACK", "NACK"} /\ r.seq \in Slots
  BY Zenon DEF TypeOK, LinkType, SenderType, Answer
<1>3. bufWnd[r.seq].pay = r.pay
  BY Zenon DEF InFlightCurrent
<1>4. \A s : Has(s) => Has(s)'
  BY <1>1, Zenon DEF Has
<1>5. ASSUME NEW s \in Slots, s < Len(sent), ackWnd'[s] = "RECV_ACK" PROVE Has(s)'
  <2>1. CASE s = r.seq
    <3>1. r.type = "ACK"
      BY <1>1, <1>2, <1>5, <2>1
    <3> QED
      BY <1>3, <1>4, <2>1, <3>1, Zenon DEF AckedHeld, Has
  <2>2. CASE s # r.seq
    BY <1>1, <1>2, <1>4, <1>5, <2>2, Zenon DEF AckedHeld
  <2> QED
    BY <2>1, <2>2, Zenon
<1> QED
  BY <1>1, <1>4, <1>5, Zenon DEF AckedHeld

(* The redirect that sends an ACK has put the packet into the ring. *)
LEMMA IngressAcked ==
    ASSUME TypeOK, AckedHeld, AcceptedPays \subseteq AcceptedPays', Ingress
    PROVE  AckedHeld'
<1>1. PICK m \in data :
        /\ IngressAccept(m) \/ IngressNack(m) \/ IngressPass(m)
        /\ UNCHANGED sendVars
  BY Zenon DEF Ingress
<1>2. UNCHANGED <<confirmed, sent, ackWnd, bufWnd, cursor, i, pc>>
  BY <1>1, Zenon DEF sendVars, callVars, mapVars, histVars
<1>3. ASSUME back' = back \union {AnswerTo(m, "ACK")}, rx' = Append(rx, m)
      PROVE  m.pay \in AcceptedPays'
  <2>1. rx \in Seq(Packet) /\ m \in Packet
    BY Zenon DEF TypeOK, LinkType, ReceiverType
  <2>2. Len(rx) + 1 \in 1 .. Len(rx') /\ rx'[Len(rx) + 1] = m
    BY <1>3, <2>1
  <2> QED
    BY <2>2, Zenon DEF AcceptedPays, Accepted
<1>4. AnswerTo(m, "ACK").pay = m.pay /\ AnswerTo(m, "NACK").type = "NACK"
  BY Zenon DEF AnswerTo
<1> HIDE DEF AcceptedPays
<1>5. \A r \in back' : r \in back \/ r.type = "NACK" \/ r.pay \in AcceptedPays'
  BY <1>1, <1>3, <1>4, Zenon DEF IngressAccept, IngressNack, IngressPass, Redirect, Refuse, Ignore
<1> QED
  BY <1>2, <1>5, SameAcked, Zenon

(* Every step keeps what is taken for acknowledged accepted. *)
LEMMA StepAcked ==
    ASSUME TypeOK, Congruent, Aligned, ConfirmInv, [Next]_vars, SingleRun', ~overrun'
    PROVE  AckedHeld'
<1>0. SingleRun /\ ~overrun /\ InFlightCurrent /\ AckedHeld
  BY RunBackwards, Zenon DEF ConfirmInv
<1>1. AcceptedPays \subseteq AcceptedPays'
  BY AcceptedGrows, Zenon
<1> HIDE DEF AcceptedPays
<1>2. CASE SenderStart
  <2>1. /\ txStarts' = txStarts + 1 /\ pc = "idle"
        /\ UNCHANGED <<back, confirmed, sent, pc, bufWnd>>
    BY <1>2, Zenon DEF SenderStart, Boot, pathVars, callVars, histVars
  <2>2. txStarts = 0
    BY <2>1 DEF SingleRun, TypeOK, LinkType, SenderType
  <2>3. \A s \in Slots : ~(s < Len(sent'))
    BY <2>1, <2>2, ConstantTypes DEF Congruent
  <2> QED
    BY <1>0, <1>1, <2>1, <2>3 DEF AckedHeld
<1>3. CASE \E len \in Lens : Egress(len)
  BY <1>0, <1>1, <1>3, FillAcked, Zenon
<1>4. CASE EgressStep
  BY <1>0, <1>1, <1>4, FlushAcked, Zenon
<1>5. CASE Listener
  BY <1>0, <1>1, <1>5, ListenerAcked, Zenon
<1>6. CASE Ingress
  BY <1>0, <1>1, <1>6, IngressAcked, Zenon
<1>7. CASE ReceiverStart \/ Receive \/ PathStep \/ UNCHANGED vars
  <2>1. UNCHANGED <<confirmed, sent, ackWnd, bufWnd, cursor, i, pc>>
    BY <1>7, Zenon DEF ReceiverStart, Receive, PathStep, sendVars, callVars, mapVars, histVars, vars,
       linkVars
  <2>2. back' \subseteq back
    BY <1>7, Zenon DEF ReceiverStart, Receive, PathStep, PathNext, LosePacket, LoseAnswer, DamagePacket,
       pathVars, vars, linkVars
  <2> QED
    BY <1>0, <1>1, <2>1, <2>2, SameAcked, Zenon
<1> QED
  BY <1>2, <1>3, <1>4, <1>5, <1>6, <1>7, Zenon DEF Next

(* Go-Back-N keeps packets and buffers congruent, as every windowed graft. *)
LEMMA GbnCongruent == Spec => []Congruent
<1>1. Init => Congruent
  BY InitCongruent, Zenon DEF Init
<1>2. TypeOK /\ Congruent /\ [Next]_vars => Congruent'
  BY StepIsWindowed, StepCongruent, Zenon DEF TypeOK
<1> QED
  BY <1>1, <1>2, TypeCorrect, PTL DEF Spec

(* Every reachable state is aligned. *)
LEMMA GbnAligned == Spec => []Aligned
<1>1. Init => Aligned
  <2> SUFFICES ASSUME Init PROVE Aligned
    BY Zenon
  <2>1. numAck = 0 /\ rx = << >> /\ dbr = DbrInit
    BY Zenon DEF Init, LinkInit, ReceiverInit
  <2> QED
    BY <2>1, FreshAligned, Zenon DEF Aligned, DbrInit
<1> QED
  BY <1>1, StepAligned, TypeCorrect, PTL DEF Spec

(* On a path whose packets and answers the 10 ms timer outlasts, a flush   *)
(* that returns before its last round has every packet of its window       *)
(* accepted by the receiving host: for any window, any number of losses,   *)
(* any damage, lost answers included.                                      *)
THEOREM ConfirmedAccepted ==
    ASSUME Timely
    PROVE  Spec => []ConfirmedAreAccepted
<1>1. Init => ConfirmInv
  <2> SUFFICES ASSUME Init PROVE ConfirmInv
    BY Zenon
  <2>1. data = {} /\ back = {} /\ pc = "idle" /\ confirmed = {} /\ sent = << >>
    BY Zenon DEF Init, LinkInit, PathInit, SenderInit
  <2>2. \A s \in Slots : ~(s < Len(sent))
    BY <2>1, ConstantTypes
  <2> QED
    BY <2>1, <2>2 DEF ConfirmInv, InFlightCurrent, PathQuiet, AckedHeld
<1>2. TypeOK /\ Congruent /\ Aligned /\ ConfirmInv /\ [Next]_vars => ConfirmInv'
  BY StepInFlight, StepAcked, Zenon DEF ConfirmInv
<1>3. ConfirmInv => ConfirmedAreAccepted
  BY Zenon DEF ConfirmInv, AckedHeld, ConfirmedAreAccepted, AcceptedPays
<1> QED
  BY <1>1, <1>2, <1>3, TypeCorrect, GbnCongruent, GbnAligned, PTL DEF Spec
-----------------------------------------------------------------------------
(* The current window: its slots in use, the index of its first packet,    *)
(* and the number of packets the receiving host has accepted.              *)
Base == IF pc = "idle" THEN numSeq ELSE curWin + 1
Start == Len(sent) - Base
Taken == Len(dbr.out) + Len(rx)

Live == SingleRun /\ ~gaveUp /\ ~overrun /\ harmed \subseteq {"body"}

(* A packet has the bytes on the wire that its payload was sent with. *)
AsSent(m) == m.wire = HdrLen + sent[m.pay + 1]

(* BUF_WND_MAP and LEN_WND_MAP hold the packets of the current window. *)
SlotKept(s) ==
    /\ bufWnd[s].seq = s /\ bufWnd[s].pay = Start + s /\ bufWnd[s].bad = "none"
    /\ lenWnd[s] = SaveLen(sent[Start + s + 1])

WindowInv ==
    /\ Start \in Nat /\ Start % W = 0
    /\ pc # "idle" => numSeq = NextNum(curWin) /\ lastLen = HdrLen + sent[Len(sent)]
    /\ \A s \in 0 .. Base - 1 : SlotKept(s)

(* The receiving host has accepted the first Taken packets, in order. *)
OrderInv ==
    /\ Start <= Taken /\ Taken <= Len(sent) /\ numAck = Taken % W
    /\ \A k \in 1 .. Len(dbr.out) :
          dbr.out[k].pay = k - 1 /\ dbr.out[k].bad = "none" /\ AsSent(dbr.out[k])
    /\ \A k \in 1 .. Len(rx) :
          rx[k].pay = Len(dbr.out) + k - 1 /\ rx[k].bad = "none" /\ AsSent(rx[k])

(* A slot is acknowledged, or its ACK is on its way, exactly when its      *)
(* packet is accepted; a short packet not accepted yet ends the window.    *)
SlotAcked(s) ==
    /\ ackWnd[s] = "RECV_ACK" => Start + s < Taken
    /\ Start + s < Taken => ackWnd[s] = "RECV_ACK" \/ AnswerTo(bufWnd[s], "ACK") \in back
    /\ Start + s >= Taken /\ lenWnd[s] < OnWireSize => pc # "idle" /\ s = curWin

AckInv ==
    /\ \A s \in 0 .. Base - 1 : SlotAcked(s)
    /\ pc = "timer" => Start + cursor <= Taken
    /\ pc = "scan" => Start + i <= Taken

(* What is in flight: packets not accepted yet, one per slot, and one      *)
(* answer for a packet that has arrived.                                   *)
Outgoing(m) ==
    /\ m.seq < Base /\ m.pay = Start + m.seq /\ m.pay >= Taken
    /\ AsSent(m) /\ m.bad # "last"
Answering(r) ==
    r.seq < Base /\ r.pay = Start + r.seq /\ (r.type = "ACK" <=> r.pay < Taken)

FlightInv ==
    /\ \A m \in data : Outgoing(m) /\ \A n \in data : n.pay = m.pay => n = m
    /\ \A r \in back : Answering(r) /\ \A m \in data : m.pay # r.pay

(* The strengthening of ImplementsStream. *)
StreamInv == Live => WindowInv /\ OrderInv /\ AckInv /\ FlightInv

(* The types the steps below compute with. *)
LEMMA StreamTypes ==
    ASSUME TypeOK
    PROVE  /\ numSeq \in Nat /\ curWin \in Nat /\ numSeq < W /\ curWin < W /\ i \in Nat /\ cursor \in Nat
           /\ Len(sent) \in Nat /\ Base \in Nat /\ Base <= W /\ Start \in Int
           /\ Len(rx) \in Nat /\ Len(dbr.out) \in Nat /\ Taken \in Nat
<1>1. /\ numSeq \in Slots /\ curWin \in Slots /\ cursor \in Slots /\ i \in 0 .. W
      /\ sent \in Seq(Lens) /\ rx \in Seq(Packet) /\ dbr.out \in Seq(Packet)
  BY Zenon DEF TypeOK, LinkType, SenderType, ReceiverType, DbrType
<1>2. Len(sent) \in Nat /\ Len(rx) \in Nat /\ Len(dbr.out) \in Nat
  BY <1>1
<1>3. numSeq \in Nat /\ curWin \in Nat /\ numSeq < W /\ curWin < W /\ i \in Nat /\ cursor \in Nat
  BY <1>1, ConstantTypes
<1>4. Base \in Nat /\ Base <= W
  BY <1>3, ConstantTypes DEF Base
<1>5. Start \in Int /\ Taken \in Nat
  BY <1>2, <1>4 DEF Start, Taken
<1> QED
  BY <1>2, <1>3, <1>4, <1>5, Zenon

(* A step that leaves the sender's window alone. *)
LEMMA SameWindow ==
    ASSUME UNCHANGED <<pc, numSeq, curWin, sent, bufWnd, lenWnd, lastLen>>
    PROVE  /\ Base' = Base /\ Start' = Start
           /\ WindowInv => WindowInv'
           /\ \A m : AsSent(m)' = AsSent(m)
<1>1. Base' = Base /\ Start' = Start
  BY Zenon DEF Base, Start
<1>2. ASSUME NEW s PROVE SlotKept(s) => SlotKept(s)'
  BY <1>1, Zenon DEF SlotKept
<1>3. \A m : AsSent(m)' = AsSent(m)
  BY Zenon DEF AsSent
<1> HIDE DEF Base, Start, SlotKept, AsSent
<1> QED
  BY <1>1, <1>2, <1>3, Zenon DEF WindowInv

(* A step that leaves what has been accepted alone. *)
LEMMA SameOrder ==
    ASSUME UNCHANGED <<rx, dbr, numAck, sent>>, Start' = Start
    PROVE  Taken' = Taken /\ (OrderInv => OrderInv')
<1>1. Taken' = Taken
  BY Zenon DEF Taken
<1>2. ASSUME NEW m PROVE AsSent(m) => AsSent(m)'
  BY Zenon DEF AsSent
<1> HIDE DEF Taken, Start
<1> QED
  BY <1>1, <1>2, Zenon DEF OrderInv, AsSent

(* A step that leaves the acknowledgements and the call alone. *)
LEMMA SameAcks ==
    ASSUME UNCHANGED <<ackWnd, bufWnd, lenWnd, pc, curWin, cursor, i>>, back \subseteq back',
           Base' = Base, Start' = Start, Taken' = Taken, AckInv
    PROVE  AckInv'
<1> HIDE DEF Base, Start, Taken
<1>1. ASSUME NEW s, SlotAcked(s) PROVE SlotAcked(s)'
  BY <1>1, Zenon DEF SlotAcked
<1> QED
  BY <1>1, Zenon DEF AckInv

(* A step that takes packets or answers off the path. *)
LEMMA FewerInFlight ==
    ASSUME data' \subseteq data, back' \subseteq back, sent' = sent,
           Base' = Base, Start' = Start, Taken' = Taken, FlightInv
    PROVE  FlightInv'
<1> HIDE DEF Base, Start, Taken
<1>1. ASSUME NEW m, Outgoing(m) PROVE Outgoing(m)'
  BY <1>1, Zenon DEF Outgoing, AsSent
<1>2. ASSUME NEW r, Answering(r) PROVE Answering(r)'
  BY <1>2, Zenon DEF Answering
<1> QED
  BY <1>1, <1>2, Zenon DEF FlightInv

StreamBody == WindowInv /\ OrderInv /\ AckInv /\ FlightInv

(* The window holds the packets Start .. Len(sent) - 1. *)
LEMMA WindowSpan ==
    ASSUME TypeOK, WindowInv
    PROVE  /\ Start \in Nat /\ Start + Base = Len(sent)
           /\ \A s \in 0 .. Base - 1 :
                 s \in Slots /\ s \in Nat /\ Start + s + 1 \in 1 .. Len(sent) /\ Start + s < Len(sent)
<1>1. Start \in Nat /\ Base \in Nat /\ Base <= W /\ Len(sent) \in Nat
  BY StreamTypes, Zenon DEF WindowInv
<1>2. Start + Base = Len(sent)
  BY <1>1 DEF Start
<1> HIDE DEF Start, Base
<1>3. \A s \in 0 .. Base - 1 :
         s \in Slots /\ s \in Nat /\ Start + s + 1 \in 1 .. Len(sent) /\ Start + s < Len(sent)
  BY <1>1, <1>2, ConstantTypes DEF Slots
<1> QED
  BY <1>1, <1>2, <1>3, Zenon

(* A packet is filled into the next slot and sent for the first time. *)
LEMMA FillStream ==
    ASSUME TypeOK, StreamBody, NEW len \in Lens, Egress(len)
    PROVE  StreamBody'
<1> DEFINE p == NewPacket(len)
           L == Len(sent)
<1>1. /\ pc = "idle" /\ numSeq' = NextNum(numSeq) /\ data' = data \union {p} /\ back' = back
      /\ bufWnd' = [bufWnd EXCEPT ![numSeq] = p]
      /\ lenWnd' = [lenWnd EXCEPT ![numSeq] = SaveLen(len)]
      /\ ackWnd' = [ackWnd EXCEPT ![numSeq] = "IDLE"]
      /\ sent' = Append(sent, len) /\ curWin' = numSeq /\ lastLen' = HdrLen + len /\ cursor' = 0
      /\ pc' = IF Flushes(len) THEN "timer" ELSE "idle"
      /\ UNCHANGED <<rx, dbr, numAck>>
  BY Zenon DEF Egress, Fill, Armed, rhostVars, recvVars
<1>2. /\ bufWnd \in [Slots -> Packet] /\ lenWnd \in [Slots -> Nat] /\ ackWnd \in [Slots -> Event]
      /\ sent \in Seq(Lens) /\ numSeq \in Slots
  BY Zenon DEF TypeOK, LinkType, SenderType
<1>3. p.seq = numSeq /\ p.pay = L /\ p.wire = HdrLen + len /\ p.bad = "none"
  BY Zenon DEF NewPacket
<1>4. /\ numSeq \in Nat /\ L \in Nat /\ Taken \in Nat /\ Base \in Nat /\ numSeq < W
      /\ Start \in Nat /\ Start + Base = L /\ Base = numSeq
  BY <1>1, StreamTypes, WindowSpan, Zenon DEF StreamBody, Base
<1>5. L \in Nat /\ Len(sent') = L + 1 /\ sent'[L + 1] = len /\ \A k \in 1 .. L : sent'[k] = sent[k]
  BY <1>1, <1>2
<1>6. Base' = Base + 1
  <2>1. CASE Flushes(len)
    BY <2>1, <1>1, <1>4 DEF Base
  <2>2. CASE ~Flushes(len)
    <3>1. numSeq # W - 1
      BY <2>2, Zenon DEF Flushes
    <3>2. numSeq + 1 \in Slots
      BY <1>4, <3>1, ConstantTypes DEF Slots
    <3>3. numSeq' = numSeq + 1 /\ pc' = "idle"
      BY <1>1, <2>2, <3>2, ModSlot, Zenon DEF NextNum
    <3> QED
      BY <1>4, <3>3 DEF Base
  <2> QED
    BY <2>1, <2>2, Zenon
<1>7. Start' = Start
  BY <1>4, <1>5, <1>6 DEF Start
<1>8. Taken' = Taken
  BY <1>1, Zenon DEF Taken
<1> HIDE DEF p, L, Base, Start, Taken
<1>9. Start <= Taken /\ Taken <= L /\ Start % W = 0
  BY Zenon DEF StreamBody, OrderInv, WindowInv, L
<1>10. \A m : m.pay + 1 \in 1 .. L /\ AsSent(m) => AsSent(m)'
  BY <1>5, Zenon DEF AsSent
<1>11. \A s \in 0 .. Base' - 1 : s = numSeq \/ (s \in 0 .. Base - 1 /\ s # numSeq)
  BY <1>4, <1>6
<1>12. \A s \in 0 .. Base - 1 : s \in Slots /\ s \in Nat /\ Start + s + 1 \in 1 .. L /\ Start + s < L
  BY WindowSpan, Zenon DEF StreamBody, L
<1>13. WindowInv'
  <2>1. ASSUME NEW s \in 0 .. Base - 1, s # numSeq PROVE SlotKept(s)'
    <3>1. SlotKept(s)
      BY Zenon DEF StreamBody, WindowInv
    <3>2. /\ bufWnd'[s] = bufWnd[s] /\ lenWnd'[s] = lenWnd[s]
          /\ sent'[Start + s + 1] = sent[Start + s + 1]
      BY <1>1, <1>2, <1>5, <1>12, <2>1, Zenon
    <3> QED
      BY <3>1, <3>2, <1>7, Zenon DEF SlotKept
  <2>2. ASSUME NEW s, s = numSeq PROVE SlotKept(s)'
    <3>1. bufWnd'[s] = p /\ lenWnd'[s] = SaveLen(len) /\ Start + s = L
      BY <1>1, <1>2, <1>4, <2>2, Zenon
    <3>2. SaveLen(len)' = SaveLen(len)
      BY Zenon DEF SaveLen
    <3> QED
      BY <2>2, <3>1, <3>2, <1>3, <1>5, <1>7, Zenon DEF SlotKept
  <2>3. \A s \in 0 .. Base' - 1 : SlotKept(s)'
    BY <1>11, <2>1, <2>2, Zenon
  <2>4. numSeq' = NextNum(curWin') /\ lastLen' = HdrLen + sent'[Len(sent')]
    BY <1>1, <1>5, Zenon
  <2> QED
    BY <1>4, <1>7, <1>9, <2>3, <2>4, Zenon DEF WindowInv
<1>14. OrderInv'
  <2>1. Taken <= Len(sent') /\ Len(dbr.out) \in Nat /\ Len(rx) \in Nat
    BY <1>4, <1>5, <1>9, StreamTypes
  <2>2. Taken = Len(dbr.out) + Len(rx)
    BY Zenon DEF Taken
  <2>3. ASSUME NEW k \in 1 .. Len(dbr.out), NEW m, m = dbr.out[k] PROVE AsSent(m)'
    <3>1. dbr.out[k].pay = k - 1 /\ AsSent(dbr.out[k])
      BY Zenon DEF StreamBody, OrderInv
    <3>2. (k - 1) + 1 \in 1 .. L
      BY <2>1, <2>2, <1>4, <1>9
    <3> QED
      BY <2>3, <3>1, <3>2, <1>10, Zenon
  <2>4. ASSUME NEW k \in 1 .. Len(rx), NEW m, m = rx[k] PROVE AsSent(m)'
    <3>1. rx[k].pay = Len(dbr.out) + k - 1 /\ AsSent(rx[k])
      BY Zenon DEF StreamBody, OrderInv
    <3>2. (Len(dbr.out) + k - 1) + 1 \in 1 .. L
      BY <2>1, <2>2, <1>4, <1>9
    <3> QED
      BY <2>4, <3>1, <3>2, <1>10, Zenon
  <2> QED
    BY <1>1, <1>7, <1>8, <1>9, <2>1, <2>3, <2>4, Zenon DEF StreamBody, OrderInv
<1>15. AckInv'
  <2>1. ASSUME NEW s \in 0 .. Base - 1, s # numSeq PROVE SlotAcked(s)'
    <3>1. SlotAcked(s)
      BY Zenon DEF StreamBody, AckInv
    <3>2. bufWnd'[s] = bufWnd[s] /\ lenWnd'[s] = lenWnd[s] /\ ackWnd'[s] = ackWnd[s]
      BY <1>1, <1>2, <1>12, <2>1, Zenon
    <3>3. ~(Start + s >= Taken /\ lenWnd[s] < OnWireSize)
      BY <1>1, <3>1, Zenon DEF SlotAcked
    <3>4. OnWireSize' = OnWireSize /\ AnswerTo(bufWnd[s], "ACK")' = AnswerTo(bufWnd[s], "ACK")
      BY <3>2, Zenon DEF OnWireSize, AnswerTo
    <3>5. back' = back
      BY <1>1, Zenon
    <3> QED
      BY <3>1, <3>2, <3>3, <3>4, <3>5, <1>7, <1>8 DEF SlotAcked
  <2>2. ASSUME NEW s, s = numSeq PROVE SlotAcked(s)'
    <3>1. /\ ackWnd'[s] = "IDLE" /\ lenWnd'[s] = SaveLen(len)
          /\ Start + s = L /\ ~(L < Taken) /\ curWin' = s
      BY <1>1, <1>2, <1>4, <1>9, <2>2
    <3>2. SaveLen(len) < OnWireSize => pc' # "idle"
      BY <1>1 DEF Flushes
    <3> QED
      BY <3>1, <3>2, <1>7, <1>8 DEF SlotAcked
  <2>3. Start + cursor' <= Taken /\ pc' # "scan"
    BY <1>1, <1>4, <1>9
  <2> QED
    BY <1>7, <1>8, <1>11, <2>1, <2>2, <2>3, Zenon DEF AckInv
<1>16. FlightInv'
  <2>0. \A m \in data : m.seq \in Nat
    BY ConstantTypes, Zenon DEF TypeOK, LinkType, Packet
  <2>a. \A r \in back : r.seq \in Nat
    BY ConstantTypes, Zenon DEF TypeOK, LinkType, Answer
  <2>b. \A n \in Nat : n < Base => Start + n # L /\ n < Base + 1 /\ (Start + n) + 1 \in 1 .. L
    BY <1>4
  <2>1. ASSUME NEW m \in data PROVE Outgoing(m)' /\ m.pay # L
    <3>1. Outgoing(m) /\ m.seq \in Nat
      BY <2>0, Zenon DEF StreamBody, FlightInv
    <3> QED
      BY <3>1, <2>b, <1>6, <1>7, <1>8, <1>10, Zenon DEF Outgoing
  <2>2. ASSUME NEW m, m = p PROVE Outgoing(m)'
    <3>1. numSeq < Base + 1 /\ L = Start + numSeq /\ L >= Taken
      BY <1>4, <1>9
    <3> QED
      BY <2>2, <3>1, <1>3, <1>5, <1>6, <1>7, <1>8 DEF Outgoing, AsSent
  <2>3. ASSUME NEW r \in back PROVE Answering(r)' /\ r.pay # L
    <3>1. Answering(r) /\ r.seq \in Nat
      BY <2>a, Zenon DEF StreamBody, FlightInv
    <3> QED
      BY <3>1, <2>b, <1>6, <1>7, <1>8, Zenon DEF Answering
  <2>4. \A m, n \in data' : n.pay = m.pay => n = m
    BY <1>1, <1>3, <2>1, Zenon DEF StreamBody, FlightInv
  <2>5. \A r \in back', m \in data' : m.pay # r.pay
    BY <1>1, <1>3, <2>3, Zenon DEF StreamBody, FlightInv
  <2> QED
    BY <1>1, <2>1, <2>2, <2>3, <2>4, <2>5, Zenon DEF FlightInv
<1> QED
  BY <1>13, <1>14, <1>15, <1>16, Zenon DEF StreamBody

(* A step of the scan or of the timer that sends nothing and stays inside  *)
(* the flush.                                                              *)
LEMMA ScanStream ==
    ASSUME TypeOK, StreamBody, pc # "idle", Timer \/ ScanAcked, ~gaveUp'
    PROVE  StreamBody'
<1>1. /\ UNCHANGED <<numSeq, curWin, sent, bufWnd, lenWnd, lastLen, ackWnd, cursor>>
      /\ UNCHANGED <<rx, dbr, numAck>> /\ UNCHANGED <<data, back>>
  BY Zenon DEF Timer, Wake, ScanAcked, mapVars, pathVars, recvVars, rhostVars, histVars
<1>2. /\ pc' = "scan"
      /\ \/ pc = "timer" /\ i' = cursor
         \/ pc = "scan" /\ i <= curWin /\ ackWnd[i] = "RECV_ACK" /\ i' = i + 1
  BY Zenon DEF Timer, Wake, ScanAcked
<1>3. Base' = Base /\ Base = curWin + 1
  BY <1>1, <1>2, Zenon DEF Base
<1>4. Start' = Start /\ Taken' = Taken
  BY <1>1, <1>3, Zenon DEF Start, Taken
<1>5. OrderInv'
  BY <1>1, <1>4, SameOrder, Zenon DEF StreamBody
<1>6. FlightInv'
  BY <1>1, <1>3, <1>4, FewerInFlight, Zenon DEF StreamBody
<1>7. Start + i' <= Taken
  <2>1. CASE pc = "timer"
    BY <1>2, <2>1 DEF StreamBody, AckInv
  <2>2. CASE pc = "scan"
    <3>1. i <= curWin /\ ackWnd[i] = "RECV_ACK" /\ i' = i + 1
      BY <1>2, <2>2
    <3>2. i \in Nat /\ curWin \in Nat /\ Start \in Nat /\ Taken \in Nat
      BY StreamTypes, Zenon DEF StreamBody, WindowInv
    <3>3. i \in 0 .. Base - 1
      BY <1>3, <3>1, <3>2
    <3>4. Start + i < Taken
      BY <3>1, <3>3, Zenon DEF StreamBody, AckInv, SlotAcked
    <3> HIDE DEF Start, Taken
    <3> QED
      BY <3>1, <3>2, <3>4
  <2> QED
    BY <1>2, <2>1, <2>2, Zenon
<1> HIDE DEF Base, Start, Taken
<1>8. ASSUME NEW s PROVE (SlotKept(s) => SlotKept(s)') /\ (SlotAcked(s) => SlotAcked(s)')
  <2>1. SlotKept(s) => SlotKept(s)'
    BY <1>1, <1>4, Zenon DEF SlotKept
  <2>2. SlotAcked(s) => SlotAcked(s)'
    BY <1>1, <1>2, <1>4, Zenon DEF SlotAcked
  <2> QED
    BY <2>1, <2>2, Zenon
<1>9. WindowInv'
  BY <1>1, <1>3, <1>4, <1>8, Zenon DEF StreamBody, WindowInv, NextNum
<1>10. AckInv'
  <2>1. pc' # "timer"
    BY <1>2
  <2> QED
    BY <2>1, <1>3, <1>4, <1>7, <1>8, Zenon DEF StreamBody, AckInv
<1> QED
  BY <1>5, <1>6, <1>9, <1>10, Zenon DEF StreamBody

(* A flush that returns leaves nothing of its window behind. *)
LEMMA DoneStream ==
    ASSUME TypeOK, StreamBody, PathQuiet, ScanDone
    PROVE  StreamBody'
<1>1. /\ pc = "scan" /\ i > curWin /\ pc' = "idle"
      /\ UNCHANGED <<numSeq, curWin, sent, bufWnd, lenWnd, ackWnd, cursor>>
      /\ UNCHANGED <<rx, dbr, numAck>> /\ data' = {} /\ back' = {}
  BY Zenon DEF ScanDone, Confirm, PathQuiet, mapVars, pathVars, recvVars, rhostVars
<1>2. /\ i \in Nat /\ curWin \in Nat /\ curWin < W /\ Start \in Nat /\ Taken \in Nat /\ Len(sent) \in Nat
      /\ Start + Base = Len(sent)
  BY StreamTypes, WindowSpan, Zenon DEF StreamBody
<1>3. /\ Base = curWin + 1 /\ Base' = numSeq /\ numSeq = NextNum(curWin)
      /\ Taken' = Taken /\ Start % W = 0
  BY <1>1, Zenon DEF StreamBody, WindowInv, Base, Taken
<1>4. Start' = Len(sent) - Base'
  BY <1>1, Zenon DEF Start
<1>a. Start + i <= Taken /\ Taken <= Len(sent)
  BY <1>1, Zenon DEF StreamBody, AckInv, OrderInv
<1> HIDE DEF Base, Start, Taken
<1>5. Taken = Len(sent)
  BY <1>1, <1>2, <1>3, <1>a
<1>6. \/ Base' = Base /\ Start' = Start
      \/ Base' = 0 /\ Start' = Len(sent) /\ Start' % W = 0
  <2>1. CASE curWin = W - 1
    <3>1. curWin + 1 = W /\ Start + W = Len(sent) /\ W \in Nat
      BY <2>1, <1>2, <1>3, ConstantTypes
    <3>2. W % W = 0
      <4>1. W = W * 1 + 0
        BY ConstantTypes
      <4> QED
        BY <4>1, ModUnique, ConstantTypes
    <3>3. ((Start % W) + W) % W = (Start + W) % W
      BY <1>2, <3>1, ModAdd, Zenon
    <3>4. 0 + W = W
      BY <3>1
    <3>5. Base' = 0
      BY <1>3, <3>1, <3>2, Zenon DEF NextNum
    <3>6. Start' = Len(sent)
      BY <1>2, <1>4, <3>5
    <3> QED
      BY <1>3, <3>1, <3>2, <3>3, <3>4, <3>5, <3>6, Zenon
  <2>2. CASE curWin # W - 1
    <3>1. curWin + 1 \in Slots
      BY <1>2, <2>2, ConstantTypes DEF Slots
    <3>2. Base' = curWin + 1
      BY <1>3, <3>1, ModSlot, Zenon DEF NextNum
    <3> QED
      BY <1>2, <1>3, <1>4, <3>2
  <2> QED
    BY <2>1, <2>2, Zenon
<1>7. Start' \in Nat /\ Start' % W = 0 /\ Start' <= Taken
  BY <1>2, <1>3, <1>5, <1>6, <1>a
<1>8. ASSUME NEW s \in 0 .. Base' - 1
      PROVE  s \in 0 .. Base - 1 /\ Start' = Start /\ Start + s < Taken
  <2>1. Base' = Base /\ Start' = Start
    BY <1>6
  <2> QED
    BY <2>1, <1>2, <1>3, <1>5
<1>9. ASSUME NEW s \in 0 .. Base' - 1 PROVE SlotKept(s)'
  <2>1. SlotKept(s)
    BY <1>8, Zenon DEF StreamBody, WindowInv
  <2> QED
    BY <2>1, <1>1, <1>8, Zenon DEF SlotKept
<1>10. WindowInv'
  BY <1>1, <1>7, <1>9, Zenon DEF WindowInv
<1>11. ASSUME NEW m, AsSent(m) PROVE AsSent(m)'
  BY <1>1, <1>11, Zenon DEF AsSent
<1>12. OrderInv'
  BY <1>1, <1>3, <1>7, <1>11, Zenon DEF StreamBody, OrderInv, AsSent
<1>13. ASSUME NEW s \in 0 .. Base' - 1 PROVE SlotAcked(s)'
  <2>1. SlotAcked(s) /\ back = {}
    BY <1>8, Zenon DEF StreamBody, AckInv, PathQuiet
  <2>2. ackWnd[s] = "RECV_ACK"
    BY <2>1, <1>8, Zenon DEF SlotAcked
  <2>3. ~(Start + s >= Taken)
    BY <1>2, <1>8
  <2> QED
    BY <2>2, <2>3, <1>1, <1>3, <1>8, Zenon DEF SlotAcked
<1>14. AckInv'
  BY <1>1, <1>13 DEF AckInv
<1>15. FlightInv'
  BY <1>1, Zenon DEF FlightInv
<1> QED
  BY <1>10, <1>12, <1>14, <1>15, Zenon DEF StreamBody

(* What a flush sends again was not accepted, and has the bytes it was     *)
(* sent with: only the last packet of the window can be short.             *)
LEMMA ResendStream ==
    ASSUME TypeOK, StreamBody, PathQuiet, ScanLost
    PROVE  StreamBody'
<1>1. /\ pc = "scan" /\ i <= curWin /\ ackWnd[i] # "RECV_ACK" /\ pc' = "timer" /\ cursor' = i
      /\ UNCHANGED <<numSeq, curWin, sent, bufWnd, lenWnd, lastLen, ackWnd>>
      /\ UNCHANGED <<rx, dbr, numAck>> /\ back' = {}
      /\ data' = {Resend(j) : j \in i .. curWin}
  BY Zenon DEF ScanLost, ResendFrom, RetxSlots, PathQuiet, mapVars, recvVars, rhostVars, histVars
<1>2. /\ i \in Nat /\ curWin \in Nat /\ curWin < W /\ Start \in Nat /\ Taken \in Nat
      /\ Start + Base = Len(sent) /\ Base \in Nat /\ Len(sent) \in Nat
  BY StreamTypes, WindowSpan, Zenon DEF StreamBody
<1>3. Base = curWin + 1 /\ Base' = Base
  BY <1>1, Zenon DEF Base
<1>4. Start' = Start /\ Taken' = Taken
  BY <1>1, <1>3, Zenon DEF Start, Taken
<1>5. OrderInv'
  BY <1>1, <1>4, SameOrder, Zenon DEF StreamBody
<1> HIDE DEF Base, Start, Taken
<1>6. i \in 0 .. Base - 1
  BY <1>1, <1>2, <1>3
<1>7. Start + i <= Taken /\ ~(Start + i < Taken)
  BY <1>1, <1>6, Zenon DEF StreamBody, AckInv, SlotAcked, PathQuiet
<1>8. ASSUME NEW s PROVE (SlotKept(s) => SlotKept(s)') /\ (SlotAcked(s) => SlotAcked(s)')
  <2>1. SlotKept(s) => SlotKept(s)'
    BY <1>1, <1>4, Zenon DEF SlotKept
  <2>2. back = {} /\ (pc # "idle" /\ s = curWin <=> pc' # "idle" /\ s = curWin')
    BY <1>1 DEF PathQuiet
  <2>3. SlotAcked(s) => SlotAcked(s)'
    BY <2>2, <1>1, <1>4, Zenon DEF SlotAcked
  <2> QED
    BY <2>1, <2>3, Zenon
<1>9. WindowInv'
  BY <1>1, <1>3, <1>4, <1>8, Zenon DEF StreamBody, WindowInv, NextNum
<1>10. AckInv'
  <2>1. pc' # "scan"
    BY <1>1
  <2> QED
    BY <2>1, <1>1, <1>3, <1>4, <1>7, <1>8, Zenon DEF StreamBody, AckInv
<1>11. ASSUME NEW j \in i .. curWin
       PROVE  /\ j \in Nat /\ j < Base /\ Resend(j).seq = j /\ Resend(j).pay = Start + j /\ Start + j >= Taken
              /\ Resend(j).bad = "none" /\ Resend(j).wire = HdrLen + sent[Start + j + 1]
  <2>1. j \in 0 .. Base - 1 /\ j \in 0 .. curWin /\ Start + j >= Taken
    BY <1>2, <1>3, <1>7
  <2>2. SlotKept(j) /\ SlotAcked(j)
    BY <2>1, Zenon DEF StreamBody, WindowInv, AckInv
  <2>3. bufWnd[j] \in Packet
    BY <2>1, ResendType, Zenon DEF TypeOK, LinkType, SenderType
  <2>4. /\ Resend(j).seq = bufWnd[j].seq /\ Resend(j).pay = bufWnd[j].pay
        /\ Resend(j).bad = bufWnd[j].bad
        /\ Resend(j).wire = IF lenWnd[j] < OnWireSize THEN lastLen ELSE OnWireSize
    BY <2>3, Zenon DEF Resend, Packet
  <2>5. Resend(j).wire = HdrLen + sent[Start + j + 1]
    <3>1. CASE lenWnd[j] < OnWireSize
      <4>1. j = curWin
        BY <2>1, <2>2, <3>1, Zenon DEF SlotAcked
      <4>2. Start + j + 1 = Len(sent)
        BY <4>1, <1>2, <1>3
      <4>3. lastLen = HdrLen + sent[Len(sent)]
        BY <1>1 DEF StreamBody, WindowInv
      <4> QED
        BY <2>4, <3>1, <4>2, <4>3, Zenon
    <3>2. CASE ~(lenWnd[j] < OnWireSize)
      <4>1. sent[Start + j + 1] \in Lens
        <5>1. Start + j + 1 \in 1 .. Len(sent) /\ sent \in Seq(Lens)
          BY <2>1, WindowSpan DEF StreamBody, TypeOK, LinkType, SenderType
        <5> QED
          BY <5>1
      <4>2. sent[Start + j + 1] \in 1 .. DataSize
        BY <4>1, SenderAssumption, Zenon
      <4>3. lenWnd[j] = SaveLen(sent[Start + j + 1])
        BY <2>2, Zenon DEF SlotKept
      <4>4. sent[Start + j + 1] = DataSize
        BY <3>2, <4>2, <4>3, GeometryAssumption DEF SaveLen, OnWireSize
      <4> QED
        BY <2>4, <3>2, <4>4, Zenon DEF OnWireSize
    <3> QED
      BY <3>1, <3>2, Zenon
  <2>6. j \in Nat /\ j < Base
    BY <2>1, <1>2
  <2> QED
    BY <2>1, <2>2, <2>4, <2>5, <2>6, Zenon DEF SlotKept
<1>12. ASSUME NEW m \in data' PROVE Outgoing(m)'
  <2>1. PICK j \in i .. curWin : m = Resend(j)
    BY <1>1, <1>12, Zenon
  <2>2. m.bad # "last"
    BY <2>1, <1>11
  <2> QED
    BY <2>1, <2>2, <1>1, <1>3, <1>4, <1>11, Zenon DEF Outgoing, AsSent
<1>13. ASSUME NEW m \in data', NEW n \in data', n.pay = m.pay PROVE n = m
  <2>1. PICK j \in i .. curWin : m = Resend(j)
    BY <1>1, <1>13, Zenon
  <2>2. PICK k \in i .. curWin : n = Resend(k)
    BY <1>1, <1>13, Zenon
  <2>a. j \in Nat /\ m.pay = Start + j
    BY <2>1, <1>11, Zenon
  <2>b. k \in Nat /\ n.pay = Start + k
    BY <2>2, <1>11, Zenon
  <2>3. j \in Nat /\ k \in Nat /\ Start + j = Start + k
    BY <2>a, <2>b, <1>13, Zenon
  <2>4. j = k
    BY <2>3, <1>2
  <2> QED
    BY <2>1, <2>2, <2>4, Zenon
<1>14. FlightInv'
  BY <1>1, <1>12, <1>13, Zenon DEF FlightInv
<1> QED
  BY <1>5, <1>9, <1>10, <1>14, Zenon DEF StreamBody

(* An answer is heard: an ACK marks an accepted packet, a NACK one that    *)
(* was refused and is still to be sent again.                              *)
LEMMA HearStream ==
    ASSUME ~Duplicates, TypeOK, StreamBody, Listener
    PROVE  StreamBody'
<1>1. PICK r \in back :
        /\ back' = back \ {r}
        /\ ackWnd' = [ackWnd EXCEPT ![r.seq] = IF r.type = "NACK" THEN "IDLE" ELSE "RECV_ACK"]
        /\ UNCHANGED <<data, numSeq, bufWnd, lenWnd, pc, cursor, i, curWin, lastLen, sent>>
        /\ UNCHANGED <<rx, dbr, numAck>>
  BY Zenon DEF Listener, Hear, Take, callVars, histVars, rhostVars, recvVars
<1>2. Base' = Base /\ Start' = Start /\ WindowInv'
  BY <1>1, SameWindow, Zenon DEF StreamBody
<1>3. Taken' = Taken /\ OrderInv'
  BY <1>1, <1>2, SameOrder, Zenon DEF StreamBody
<1>4. FlightInv'
  BY <1>1, <1>2, <1>3, FewerInFlight, Zenon DEF StreamBody
<1>5. ackWnd \in [Slots -> Event] /\ r.type \in {"ACK", "NACK"} /\ r.seq \in Slots
  BY Zenon DEF TypeOK, LinkType, SenderType, Answer
<1>6. Answering(r)
  BY Zenon DEF StreamBody, FlightInv
<1> HIDE DEF Base, Start, Taken
<1>7. ASSUME NEW s \in 0 .. Base - 1 PROVE SlotAcked(s)'
  <2>1. SlotAcked(s) /\ SlotKept(s) /\ s \in Slots
    BY WindowSpan, Zenon DEF StreamBody, AckInv, WindowInv
  <2>2. CASE s = r.seq
    <3>1. CASE r.type = "ACK"
      <4>1. ackWnd'[s] = "RECV_ACK" /\ Start + s < Taken
        BY <1>1, <1>5, <1>6, <2>2, <3>1 DEF Answering
      <4> QED
        BY <4>1, <2>1, <1>1, <1>2, <1>3, Zenon DEF SlotAcked
    <3>2. CASE r.type = "NACK"
      <4>1. ackWnd'[s] = "IDLE" /\ ~(Start + s < Taken)
        BY <1>1, <1>5, <1>6, <2>2, <3>2 DEF Answering
      <4>2. ackWnd'[s] # "RECV_ACK"
        BY <4>1
      <4> QED
        BY <4>1, <4>2, <2>1, <1>1, <1>2, <1>3, Zenon DEF SlotAcked
    <3> QED
      BY <1>5, <3>1, <3>2, Zenon
  <2>3. CASE s # r.seq
    <3>1. ackWnd'[s] = ackWnd[s]
      BY <1>1, <1>5, <2>1, <2>3, Zenon
    <3>a. AnswerTo(bufWnd[s], "ACK").seq = s
      BY <2>1, Zenon DEF AnswerTo, SlotKept
    <3>2. AnswerTo(bufWnd[s], "ACK") # r
      BY <2>3, <3>a, Zenon
    <3> QED
      BY <3>1, <3>2, <2>1, <1>1, <1>2, <1>3, Zenon DEF SlotAcked
  <2> QED
    BY <2>2, <2>3, Zenon
<1>8. AckInv'
  BY <1>1, <1>2, <1>3, <1>7, Zenon DEF StreamBody, AckInv
<1> QED
  BY <1>2, <1>3, <1>4, <1>8, Zenon DEF StreamBody

(* The packet the ingress graft expects is the first one not accepted. *)
LEMMA ExpectedIsNext ==
    ASSUME TypeOK, StreamBody, NEW m \in data, m.seq = numAck
    PROVE  m.pay = Taken
<1>1. /\ m.seq \in Nat /\ m.seq < Base /\ m.pay = Start + m.seq /\ m.pay >= Taken
      /\ Start <= Taken /\ numAck = Taken % W /\ Start % W = 0
  <2>1. m.seq \in Nat
    BY ConstantTypes, Zenon DEF TypeOK, LinkType, Packet
  <2> QED
    BY <2>1, Zenon DEF StreamBody, FlightInv, Outgoing, OrderInv, WindowInv
<1>2. Start \in Nat /\ Taken \in Nat /\ Base \in Nat /\ Base <= W
  BY StreamTypes, WindowSpan, Zenon DEF StreamBody
<1> HIDE DEF Base, Start, Taken
<1> DEFINE d == Taken - Start
<1>3. d \in Slots /\ d \in Nat /\ Start + d = Taken
  BY <1>1, <1>2, ConstantTypes DEF Slots
<1> HIDE DEF d
<1>4. ((Start % W) + d) % W = (Start + d) % W
  BY <1>2, <1>3, ModAdd, Zenon
<1>5. 0 + d = d
  BY <1>3
<1>6. Taken % W = d
  BY <1>1, <1>3, <1>4, <1>5, ModSlot, Zenon
<1> QED
  BY <1>1, <1>3, <1>6, Zenon

(* The packet that is next is accepted and acknowledged. *)
LEMMA AcceptStream ==
    ASSUME ~Duplicates, TypeOK, StreamBody, NEW m \in data, Arrive(m), IngressAccept(m), ~overrun',
           UNCHANGED sendVars
    PROVE  StreamBody'
<1> DEFINE a == AnswerTo(m, "ACK")
<1>1. /\ data' = data \ {m} /\ back' = back \union {a} /\ rx' = Append(rx, m)
      /\ dbr' = dbr /\ numAck' = NextNum(numAck) /\ m.bad # "body" /\ numAck = m.seq
  BY Zenon DEF Arrive, Take, IngressAccept, Expected, CsumMatches, Redirect
<1>2. UNCHANGED <<numSeq, ackWnd, bufWnd, lenWnd, pc, cursor, i, curWin, lastLen, sent>>
  BY Zenon DEF sendVars, callVars, mapVars, histVars
<1>3. Base' = Base /\ Start' = Start /\ WindowInv' /\ \A n : AsSent(n)' = AsSent(n)
  BY <1>2, SameWindow, Zenon DEF StreamBody
<1>4. /\ Len(rx) \in Nat /\ Len(dbr.out) \in Nat /\ Taken \in Nat /\ Start \in Nat /\ Len(sent) \in Nat
      /\ Taken = Len(dbr.out) + Len(rx) /\ Start + Base = Len(sent) /\ Base \in Nat
  BY StreamTypes, WindowSpan, Zenon DEF StreamBody, Taken
<1>5. /\ rx \in Seq(Packet) /\ m \in Packet
  BY Zenon DEF TypeOK, LinkType, ReceiverType
<1>6. /\ Len(rx') = Len(rx) + 1 /\ rx'[Len(rx) + 1] = m
      /\ \A k \in 1 .. Len(rx) : rx'[k] = rx[k]
  BY <1>1, <1>5
<1>7. Taken' = Taken + 1
  <2>1. Taken' = Len(dbr.out) + Len(rx')
    BY <1>1, Zenon DEF Taken
  <2>2. /\ Len(rx') = Len(rx) + 1 /\ Len(rx) \in Nat /\ Len(dbr.out) \in Nat
        /\ Taken = Len(dbr.out) + Len(rx)
    BY <1>4, <1>6, Zenon
  <2>3. \A x, y \in Nat : x + (y + 1) = (x + y) + 1
    OBVIOUS
  <2> QED
    BY <2>1, <2>2, <2>3, Zenon
<1>8. m.pay = Taken
  BY <1>1, ExpectedIsNext, Zenon
<1> HIDE DEF Base, Start, Taken
<1>9. /\ m.seq \in Nat /\ m.seq < Base /\ m.pay = Start + m.seq /\ AsSent(m) /\ m.bad # "last"
      /\ Start <= Taken /\ Taken <= Len(sent) /\ numAck = Taken % W
  <2>1. m.seq \in Nat
    BY <1>5, ConstantTypes, Zenon DEF Packet
  <2> QED
    BY <2>1, Zenon DEF StreamBody, FlightInv, Outgoing, OrderInv
<1>10. Taken + 1 <= Len(sent) /\ Start <= Taken + 1
  <2>1. PICK x \in Nat : x < Base /\ Taken = Start + x
    BY <1>8, <1>9, Zenon
  <2>2. /\ Start \in Nat /\ Base \in Nat /\ Start + Base = Len(sent)
        /\ \A b, c, d \in Nat : d < b => (c + d) + 1 <= c + b /\ c <= (c + d) + 1
    BY <1>4
  <2> QED
    BY <2>1, <2>2, Zenon
<1>11. a.seq = m.seq /\ a.pay = m.pay /\ a.type = "ACK"
  BY Zenon DEF AnswerTo
<1>12. OrderInv'
  <2>1. numAck' = (Taken + 1) % W
    <3>1. numAck' = ((Taken % W) + 1) % W
      BY <1>1, <1>9, Zenon DEF NextNum
    <3>2. Taken \in Nat
      BY <1>4, Zenon
    <3> QED
      BY <3>1, <3>2, ModAdd, Zenon
  <2>2. m.bad = "none"
    BY <1>1, <1>5, <1>9 DEF Packet, Damage
  <2>3. ASSUME NEW k \in 1 .. Len(rx')
        PROVE  rx'[k].pay = Len(dbr.out) + k - 1 /\ rx'[k].bad = "none" /\ AsSent(rx'[k])
    <3>1. CASE k \in 1 .. Len(rx)
      BY <1>6, <3>1, Zenon DEF StreamBody, OrderInv
    <3>2. CASE k = Len(rx) + 1
      <4>1. Taken = Len(dbr.out) + k - 1
        BY <1>4, <3>2
      <4> QED
        BY <4>1, <1>6, <1>8, <1>9, <2>2, <3>2, Zenon
    <3>3. k = Len(rx) + 1 \/ k \in 1 .. Len(rx)
      BY <1>4, <1>6
    <3> QED
      BY <3>1, <3>2, <3>3, Zenon
  <2>4. \A k \in 1 .. Len(dbr.out) :
           dbr.out[k].pay = k - 1 /\ dbr.out[k].bad = "none" /\ AsSent(dbr.out[k])
    BY Zenon DEF StreamBody, OrderInv
  <2>5. sent' = sent
    BY <1>2, Zenon
  <2> QED
    BY <1>1, <1>3, <1>7, <1>10, <2>1, <2>3, <2>4, <2>5, Zenon DEF OrderInv, AsSent
<1> HIDE DEF a
<1>13. ASSUME NEW s \in 0 .. Base - 1 PROVE SlotAcked(s)'
  <2>1. SlotAcked(s) /\ SlotKept(s) /\ s \in Nat
    BY WindowSpan, Zenon DEF StreamBody, AckInv, WindowInv
  <2>a. m.seq \in Nat /\ Taken = Start + m.seq
    BY <1>8, <1>9, Zenon
  <2>2. /\ Start + s < Taken => Start + s < Taken + 1
        /\ Start + s < Taken + 1 => Start + s < Taken \/ s = m.seq
        /\ Start + s >= Taken + 1 => Start + s >= Taken
    <3>1. PICK x \in Nat, y \in Nat, z \in Nat : x = Start /\ y = Taken /\ z = m.seq /\ y = x + z
      BY <2>a, <1>4, Zenon
    <3>2. /\ x + s < y => x + s < y + 1
          /\ x + s < y + 1 => x + s < y \/ s = z
          /\ x + s >= y + 1 => x + s >= y
      BY <3>1, <2>1
    <3> QED
      BY <3>1, <3>2, Zenon
  <2>3. ASSUME s = m.seq PROVE AnswerTo(bufWnd[s], "ACK") = a
    BY <2>1, <2>3, <1>9, Zenon DEF SlotKept, AnswerTo, a
  <2>4. AnswerTo(bufWnd[s], "ACK")' = AnswerTo(bufWnd[s], "ACK")
    BY <1>2, Zenon DEF AnswerTo
  <2> QED
    BY <2>1, <2>2, <2>3, <2>4, <1>1, <1>2, <1>3, <1>7, Zenon DEF SlotAcked
<1>14. AckInv'
  <2>1. /\ cursor \in Nat /\ i \in Nat
    BY StreamTypes, Zenon
  <2>2. /\ Start + cursor <= Taken => Start + cursor <= Taken + 1
        /\ Start + i <= Taken => Start + i <= Taken + 1
    BY <2>1, <1>4
  <2> QED
    BY <2>2, <1>2, <1>3, <1>7, <1>13, Zenon DEF StreamBody, AckInv
<1>15. ASSUME NEW n \in data' PROVE Outgoing(n)' /\ n.pay # m.pay
  <2>1. n \in data /\ n # m
    BY <1>1, Zenon
  <2>2. Outgoing(n) /\ n.pay # Taken /\ n.pay \in Nat
    BY <2>1, <1>8, Zenon DEF StreamBody, FlightInv, TypeOK, LinkType, Packet
  <2>3. n.pay >= Taken + 1
    BY <2>2, <1>4 DEF Outgoing
  <2> QED
    BY <2>2, <2>3, <1>3, <1>7, <1>8, Zenon DEF Outgoing
<1>16. ASSUME NEW r \in back' PROVE Answering(r)' /\ \A n \in data' : n.pay # r.pay
  <2>1. CASE r \in back
    <3>1. Answering(r) /\ r.pay # Taken /\ r.pay \in Nat /\ \A n \in data : n.pay # r.pay
      BY <2>1, <1>8, Zenon DEF StreamBody, FlightInv, TypeOK, LinkType, Answer
    <3>2. r.pay < Taken <=> r.pay < Taken + 1
      BY <3>1, <1>4
    <3> QED
      BY <3>1, <3>2, <1>1, <1>3, <1>7, Zenon DEF Answering
  <2>2. CASE r = a
    <3>1. r.pay < Taken + 1
      BY <2>2, <1>4, <1>8, <1>11
    <3> QED
      BY <2>2, <3>1, <1>3, <1>7, <1>9, <1>11, <1>15, Zenon DEF Answering
  <2> QED
    BY <1>1, <2>1, <2>2, Zenon
<1>17. FlightInv'
  BY <1>1, <1>15, <1>16, Zenon DEF StreamBody, FlightInv
<1> QED
  BY <1>3, <1>12, <1>14, <1>17, Zenon DEF StreamBody

(* A packet that is damaged or not the next one is refused; one that finds *)
(* no socket is gone.                                                      *)
LEMMA RefuseStream ==
    ASSUME ~Duplicates, TypeOK, StreamBody, NEW m \in data, Arrive(m), IngressNack(m) \/ IngressPass(m),
           UNCHANGED sendVars
    PROVE  StreamBody'
<1> DEFINE a == AnswerTo(m, "NACK")
<1>1. /\ data' = data \ {m} /\ (back' = back \/ back' = back \union {a})
      /\ UNCHANGED <<rx, dbr, numAck>>
  BY Zenon DEF Arrive, Take, IngressNack, IngressPass, Refuse, Ignore, recvVars
<1>2. UNCHANGED <<numSeq, ackWnd, bufWnd, lenWnd, pc, cursor, i, curWin, lastLen, sent>>
  BY Zenon DEF sendVars, callVars, mapVars, histVars
<1>3. Base' = Base /\ Start' = Start /\ WindowInv'
  BY <1>2, SameWindow, Zenon DEF StreamBody
<1>4. Taken' = Taken /\ OrderInv'
  BY <1>1, <1>2, <1>3, SameOrder, Zenon DEF StreamBody
<1>5. AckInv'
  BY <1>1, <1>2, <1>3, <1>4, SameAcks, Zenon DEF StreamBody
<1>6. a.seq = m.seq /\ a.pay = m.pay /\ a.type = "NACK"
  BY Zenon DEF AnswerTo
<1> HIDE DEF a, Base, Start, Taken
<1>7. ASSUME NEW n \in data' PROVE Outgoing(n)' /\ n.pay # m.pay
  BY <1>1, <1>2, <1>3, <1>4, Zenon DEF StreamBody, FlightInv, Outgoing, AsSent
<1>8. ASSUME NEW r \in back' PROVE Answering(r)' /\ \A n \in data' : n.pay # r.pay
  <2>1. CASE r \in back
    BY <2>1, <1>1, <1>3, <1>4, Zenon DEF StreamBody, FlightInv, Answering
  <2>2. CASE r = a
    <3>1. Outgoing(m) /\ m.pay \in Nat /\ Taken \in Nat
      BY StreamTypes, Zenon DEF StreamBody, FlightInv, TypeOK, LinkType, Packet
    <3>2. ~(r.pay < Taken) /\ r.type # "ACK"
      BY <2>2, <3>1, <1>6 DEF Outgoing
    <3> QED
      BY <2>2, <3>1, <3>2, <1>3, <1>4, <1>6, <1>7, Zenon DEF Answering, Outgoing
  <2> QED
    BY <1>1, <2>1, <2>2, Zenon
<1>9. FlightInv'
  BY <1>1, <1>7, <1>8, Zenon DEF StreamBody, FlightInv
<1> QED
  BY <1>3, <1>4, <1>5, <1>9, Zenon DEF StreamBody

(* The path loses or damages a packet. *)
LEMMA PathStream ==
    ASSUME ~Duplicates, harmed' \subseteq {"body"}, TypeOK, StreamBody,
           PathStep, UNCHANGED numAck
    PROVE  StreamBody'
<1>1. /\ UNCHANGED <<numSeq, ackWnd, bufWnd, lenWnd, pc, cursor, i, curWin, lastLen, sent>>
      /\ UNCHANGED <<rx, dbr, numAck>>
  BY Zenon DEF PathStep, sendVars, callVars, mapVars, histVars, recvVars
<1>2. Base' = Base /\ Start' = Start /\ WindowInv'
  BY <1>1, SameWindow, Zenon DEF StreamBody
<1>3. Taken' = Taken /\ OrderInv'
  BY <1>1, <1>2, SameOrder, Zenon DEF StreamBody
<1>0. ~LoseAnswer
  <2>1. LoseAnswer => "answer" \in harmed'
    BY Zenon DEF LoseAnswer
  <2> QED
    BY <2>1
<1>4. back' = back
  BY <1>0, Zenon DEF PathStep, PathNext, LosePacket, DamagePacket
<1>5. AckInv'
  BY <1>1, <1>2, <1>3, <1>4, SameAcks, Zenon DEF StreamBody
<1>6. CASE LosePacket
  <2>1. FlightInv'
    BY <1>1, <1>2, <1>3, <1>4, <1>6, FewerInFlight, Zenon DEF LosePacket, StreamBody
  <2> QED
    BY <1>2, <1>3, <1>5, <2>1, Zenon DEF StreamBody
<1>7. CASE DamagePacket
  <2>1. PICK m \in data, h \in harmed' : data' = (data \ {m}) \union {[m EXCEPT !.bad = h]}
    BY <1>7, Zenon DEF DamagePacket, Take
  <2> DEFINE d == [m EXCEPT !.bad = h]
  <2>2. d.seq = m.seq /\ d.pay = m.pay /\ d.wire = m.wire /\ d.bad = h
    BY Zenon DEF TypeOK, LinkType, Packet
  <2>3. d.bad # "last"
    BY <2>2
  <2> HIDE DEF d, Base, Start, Taken
  <2>4. ASSUME NEW n, Outgoing(n) PROVE Outgoing(n)'
    BY <2>4, <1>1, <1>2, <1>3, Zenon DEF Outgoing, AsSent
  <2>5. ASSUME NEW r, Answering(r) PROVE Answering(r)'
    BY <2>5, <1>2, <1>3, Zenon DEF Answering
  <2>6. Outgoing(d)
    BY <2>2, <2>3, Zenon DEF StreamBody, FlightInv, Outgoing, AsSent
  <2>7. \A n \in data' : n \in data \/ n = d
    BY <2>1, Zenon DEF d
  <2>8. \A n \in data' : Outgoing(n)'
    BY <2>4, <2>6, <2>7, Zenon DEF StreamBody, FlightInv
  <2>9. ASSUME NEW n \in data', NEW k \in data', n.pay = k.pay PROVE n = k
    <3>1. \A x \in data' : (x \in data /\ x # m) \/ x = d
      BY <2>1, Zenon DEF d
    <3>2. \A x, y \in data : x.pay = y.pay => x = y
      BY Zenon DEF StreamBody, FlightInv
    <3> QED
      BY <2>2, <2>9, <3>1, <3>2, Zenon
  <2>10. \A r \in back', n \in data' : n.pay # r.pay
    BY <1>4, <2>2, <2>7, Zenon DEF StreamBody, FlightInv
  <2>11. \A r \in back' : Answering(r)'
    BY <1>4, <2>5, Zenon DEF StreamBody, FlightInv
  <2>12. FlightInv'
    BY <2>8, <2>9, <2>10, <2>11, Zenon DEF FlightInv
  <2> QED
    BY <1>2, <1>3, <1>5, <2>12, Zenon DEF StreamBody
<1> QED
  BY <1>0, <1>6, <1>7, Zenon DEF PathStep, PathNext

(* The application takes the first packet of the ring. *)
LEMMA ReceiveEffect ==
    ASSUME TypeOK, Aligned, rxStarts <= 1, ~overrun, Receive
    PROVE  /\ rx \in Seq(Packet) /\ dbr.out \in Seq(Packet) /\ Len(rx) \in Nat /\ Len(rx) >= 1
           /\ Len(dbr.out) \in Nat
           /\ Len(rx') = Len(rx) - 1 /\ \A k \in 1 .. Len(rx) - 1 : rx'[k] = rx[k + 1]
           /\ dbr'.out = Append(dbr.out, rx[1])
           /\ Len(dbr'.out) = Len(dbr.out) + 1 /\ dbr'.out[Len(dbr.out) + 1] = rx[1]
           /\ \A k \in 1 .. Len(dbr.out) : dbr'.out[k] = dbr.out[k]
           /\ rx[1] \in Packet
<1>0. rx \in Seq(Packet) /\ dbr \in DbrType /\ dbr.out \in Seq(Packet)
  BY Zenon DEF TypeOK, LinkType, ReceiverType, DbrType
<1>1. rx # << >> /\ rx' = Tail(rx) /\ dbr' = ProcessPacket(dbr, Head(rx))
  BY Zenon DEF Receive, Process
<1>2. /\ rx[1] \in Packet /\ Head(rx) = rx[1] /\ Len(rx) \in Nat /\ Len(rx) >= 1
      /\ Len(rx') = Len(rx) - 1 /\ \A k \in 1 .. Len(rx) - 1 : rx'[k] = rx[k + 1]
  BY <1>0, <1>1
<1>3. \A s \in Slots : ~dbr.stored[s]
  BY Zenon DEF Aligned, RingAligned
<1>4. rx[1].seq = dbr.next
  <2>1. 1 \in 1 .. Len(rx) /\ dbr.next \in Slots
    BY <1>0, <1>2 DEF DbrType
  <2>2. dbr.next + 1 - 1 = dbr.next
    BY <2>1, ConstantTypes
  <2>3. dbr.next % W = dbr.next
    BY <2>1, ModSlot, Zenon
  <2>4. rx[1].seq = (dbr.next + 1 - 1) % W
    BY <2>1, Zenon DEF Aligned, RingAligned
  <2> QED
    BY <2>2, <2>3, <2>4, Zenon
<1>5. dbr'.out = Append(dbr.out, rx[1])
  BY <1>0, <1>1, <1>2, <1>3, <1>4, ProcessExpected, Zenon
<1>6. /\ Len(dbr.out) \in Nat /\ Len(dbr'.out) = Len(dbr.out) + 1 /\ dbr'.out[Len(dbr.out) + 1] = rx[1]
      /\ \A k \in 1 .. Len(dbr.out) : dbr'.out[k] = dbr.out[k]
  BY <1>0, <1>2, <1>5
<1> QED
  BY <1>0, <1>2, <1>5, <1>6, Zenon

(* A packet the application takes moves from the ring to what it has read. *)
LEMMA ReceiveStream ==
    ASSUME TypeOK, Aligned, SingleRun, ~overrun, StreamBody, Receive, UNCHANGED numAck
    PROVE  StreamBody'
<1>1. /\ UNCHANGED <<numSeq, ackWnd, bufWnd, lenWnd, pc, cursor, i, curWin, lastLen, sent>>
      /\ UNCHANGED <<data, back>>
  BY Zenon DEF Receive, sendVars, callVars, mapVars, histVars, pathVars
<1>2. Base' = Base /\ Start' = Start /\ WindowInv' /\ \A m : AsSent(m)' = AsSent(m)
  BY <1>1, SameWindow, Zenon DEF StreamBody
<1>3. /\ Len(rx) \in Nat /\ Len(rx) >= 1 /\ Len(dbr.out) \in Nat
      /\ Len(rx') = Len(rx) - 1 /\ \A k \in 1 .. Len(rx) - 1 : rx'[k] = rx[k + 1]
      /\ Len(dbr'.out) = Len(dbr.out) + 1 /\ dbr'.out[Len(dbr.out) + 1] = rx[1]
      /\ \A k \in 1 .. Len(dbr.out) : dbr'.out[k] = dbr.out[k]
  BY ReceiveEffect, Zenon DEF SingleRun
<1>4. Taken' = Taken
  BY <1>3 DEF Taken
<1> HIDE DEF Base, Start, Taken
<1>5. AckInv'
  BY <1>1, <1>2, <1>4, SameAcks, Zenon DEF StreamBody
<1>6. FlightInv'
  BY <1>1, <1>2, <1>4, FewerInFlight, Zenon DEF StreamBody
<1>7. \A k \in 1 .. Len(rx) : rx[k].pay = Len(dbr.out) + k - 1 /\ rx[k].bad = "none" /\ AsSent(rx[k])
  BY Zenon DEF StreamBody, OrderInv
<1>8. ASSUME NEW k \in 1 .. Len(dbr'.out)
      PROVE  dbr'.out[k].pay = k - 1 /\ dbr'.out[k].bad = "none" /\ AsSent(dbr'.out[k])
  <2>1. CASE k \in 1 .. Len(dbr.out)
    BY <2>1, <1>3, Zenon DEF StreamBody, OrderInv
  <2>2. CASE k = Len(dbr.out) + 1
    <3>1. 1 \in 1 .. Len(rx) /\ Len(dbr.out) + 1 - 1 = k - 1
      BY <2>2, <1>3
    <3> QED
      BY <2>2, <3>1, <1>3, <1>7, Zenon
  <2>3. k = Len(dbr.out) + 1 \/ k \in 1 .. Len(dbr.out)
    BY <1>3
  <2> QED
    BY <2>1, <2>2, <2>3, Zenon
<1>9. ASSUME NEW k \in 1 .. Len(rx')
      PROVE  rx'[k].pay = Len(dbr'.out) + k - 1 /\ rx'[k].bad = "none" /\ AsSent(rx'[k])
  <2>1. /\ k + 1 \in 1 .. Len(rx) /\ k \in 1 .. Len(rx) - 1
        /\ Len(dbr.out) + (k + 1) - 1 = Len(dbr'.out) + k - 1
    BY <1>3
  <2> QED
    BY <2>1, <1>3, <1>7, Zenon
<1>10. OrderInv'
  <2>1. sent' = sent /\ numAck' = numAck
    BY <1>1, Zenon
  <2> QED
    BY <2>1, <1>2, <1>4, <1>8, <1>9, Zenon DEF StreamBody, OrderInv, AsSent
<1> QED
  BY <1>2, <1>5, <1>6, <1>10, Zenon DEF StreamBody

(* The first starts of the two applications find nothing sent. *)
LEMMA StartStream ==
    ASSUME TypeOK, Congruent, Aligned, InFlightCurrent, SingleRun, SingleRun', StreamBody,
           SenderStart \/ ReceiverStart, UNCHANGED numAck
    PROVE  StreamBody'
<1>1. CASE SenderStart
  <2>1. /\ txStarts' = txStarts + 1 /\ pc = "idle" /\ numSeq' = 0
        /\ UNCHANGED <<data, back, sent, pc, rx, dbr>>
    BY <1>1, Zenon DEF SenderStart, Boot, pathVars, callVars, histVars, recvVars
  <2>2. txStarts = 0
    BY <2>1 DEF SingleRun, TypeOK, LinkType, SenderType
  <2>3. sent = << >> /\ data = {} /\ back = {} /\ numSeq = Len(sent) % W
    BY <2>2, Zenon DEF Congruent, InFlightCurrent, PathQuiet
  <2>4. Len(sent) = 0 /\ 0 % W = 0
    BY <2>3, ModSlot, ConstantTypes, Zenon
  <2>5. numSeq = 0
    BY <2>3, <2>4, Zenon
  <2>6. Base = 0 /\ Base' = 0 /\ 0 - 0 = 0
    BY <2>1, <2>5 DEF Base
  <2>7. Start = 0 /\ Start' = 0
    BY <2>1, <2>4, <2>6, Zenon DEF Start
  <2>8. OrderInv'
    BY <2>1, <2>7, SameOrder, Zenon DEF StreamBody
  <2> HIDE DEF Base, Start, Taken
  <2>9. \A s \in 0 .. Base' - 1 : FALSE
    BY <2>6
  <2>10. pc' = "idle" /\ Start' \in Nat
    BY <2>1, <2>7
  <2>11. WindowInv'
    BY <2>4, <2>7, <2>9, <2>10 DEF WindowInv
  <2>12. AckInv'
    BY <2>9, <2>10 DEF AckInv
  <2>13. FlightInv'
    BY <2>1, <2>3, Zenon DEF FlightInv
  <2> QED
    BY <2>8, <2>11, <2>12, <2>13, Zenon DEF StreamBody
<1>2. CASE ReceiverStart
  <2>1. /\ rxStarts' = rxStarts + 1 /\ rx' = << >> /\ dbr' = [DbrInit EXCEPT !.out = dbr.out]
        /\ UNCHANGED <<data, back, numSeq, ackWnd, bufWnd, lenWnd, pc, cursor, i, curWin, lastLen, sent>>
    BY <1>2, Zenon DEF ReceiverStart, Attach, pathVars, sendVars, callVars, mapVars, histVars
  <2>2. rxStarts = 0
    BY <2>1 DEF SingleRun, TypeOK, LinkType, ReceiverType
  <2>3. rx' = rx /\ dbr' = dbr
    BY <2>1, <2>2, Zenon DEF Aligned, DbrInit
  <2>4. Base' = Base /\ Start' = Start /\ WindowInv'
    BY <2>1, SameWindow, Zenon DEF StreamBody
  <2>5. Taken' = Taken /\ OrderInv'
    BY <2>1, <2>3, <2>4, SameOrder, Zenon DEF StreamBody
  <2>6. AckInv' /\ FlightInv'
    BY <2>1, <2>4, <2>5, SameAcks, FewerInFlight, Zenon DEF StreamBody
  <2> QED
    BY <2>4, <2>5, <2>6, Zenon DEF StreamBody
<1> QED
  BY <1>1, <1>2, Zenon

(* What ends the guarantee is not undone. *)
LEMMA LiveBackwards == ASSUME TypeOK, [Next]_vars, Live' PROVE Live
<1>1. harmed \subseteq harmed'
  BY StepIsWindowed, HarmKept, Zenon DEF TypeOK
<1> QED
  BY <1>1, RunBackwards, Zenon DEF Live

(* Every step keeps the stream. *)
LEMMA StepStream ==
    ASSUME Timely, ~Duplicates,
           TypeOK, Congruent, Aligned, ConfirmInv, StreamInv, [Next]_vars
    PROVE  StreamInv'
<1> SUFFICES ASSUME Live' PROVE StreamBody'
  BY Zenon DEF StreamInv, StreamBody
<1>0. /\ SingleRun /\ SingleRun' /\ ~overrun /\ ~overrun' /\ ~gaveUp' /\ harmed' \subseteq {"body"}
      /\ StreamBody /\ InFlightCurrent
  BY LiveBackwards, Zenon DEF Live, StreamInv, StreamBody, ConfirmInv
<1>1. CASE (SenderStart \/ ReceiverStart) /\ UNCHANGED numAck
  BY <1>0, <1>1, StartStream, Zenon
<1>2. CASE \E len \in Lens : Egress(len)
  BY <1>0, <1>2, FillStream, Zenon
<1>3. CASE EgressStep
  <2>1. pc = "scan" => PathQuiet
    BY <1>0, Zenon DEF InFlightCurrent
  <2>2. CASE Timer \/ ScanAcked
    <3>1. pc # "idle"
      BY <2>2 DEF Timer, Wake, ScanAcked
    <3> QED
      BY <1>0, <2>2, <3>1, ScanStream, Zenon
  <2>3. CASE ScanDone
    BY <1>0, <2>1, <2>3, DoneStream, Zenon DEF ScanDone
  <2>4. CASE ScanLost
    BY <1>0, <2>1, <2>4, ResendStream, Zenon DEF ScanLost
  <2> QED
    BY <1>3, <2>2, <2>3, <2>4, Zenon DEF EgressStep
<1>4. CASE Listener
  BY <1>0, <1>4, HearStream, Zenon
<1>5. CASE Ingress
  BY <1>0, <1>5, AcceptStream, RefuseStream, Zenon DEF Ingress
<1>6. CASE Receive /\ UNCHANGED numAck
  BY <1>0, <1>6, ReceiveStream, Zenon
<1>7. CASE PathStep /\ UNCHANGED numAck
  BY <1>0, <1>7, PathStream, Zenon
<1>8. CASE UNCHANGED vars
  <2>1. UNCHANGED <<data, back, numSeq, ackWnd, bufWnd, lenWnd, pc, cursor, i, curWin, lastLen, sent, rx, dbr, numAck>>
    BY <1>8, Zenon DEF vars, linkVars
  <2>2. Base' = Base /\ Start' = Start /\ WindowInv'
    BY <1>0, <2>1, SameWindow, Zenon DEF StreamBody
  <2>3. Taken' = Taken /\ OrderInv'
    BY <1>0, <2>1, <2>2, SameOrder, Zenon DEF StreamBody
  <2>4. AckInv' /\ FlightInv'
    BY <1>0, <2>1, <2>2, <2>3, SameAcks, FewerInFlight, Zenon DEF StreamBody
  <2> QED
    BY <2>2, <2>3, <2>4, Zenon DEF StreamBody
<1> QED
  BY <1>1, <1>2, <1>3, <1>4, <1>5, <1>6, <1>7, <1>8, Zenon DEF Next

(* A sequence that extends another by one element is the other with that   *)
(* element appended.                                                       *)
LEMMA Appended ==
    ASSUME NEW S, NEW f \in Seq(S), NEW g \in Seq(S), NEW e \in S, Len(g) = Len(f) + 1,
           g[Len(g)] = e, \A k \in 1 .. Len(f) : g[k] = f[k]
    PROVE  g = Append(f, e)
<1>1. /\ Append(f, e) \in Seq(S) /\ Len(Append(f, e)) = Len(f) + 1
      /\ Len(f) \in Nat
      /\ \A k \in 1 .. Len(f) : Append(f, e)[k] = f[k]
      /\ Append(f, e)[Len(f) + 1] = e
  OBVIOUS
<1>2. \A k \in 1 .. Len(g) : g[k] = Append(f, e)[k]
  BY <1>1
<1> QED
  BY <1>1, <1>2, SameSeq

(* What an application that sent s has written, and what one that was      *)
(* handed o has read.                                                      *)
WrittenOf(s) == [k \in 1 .. Len(s) |-> Seen(k - 1, s[k], "none")]
ReadOf(o) == [k \in 1 .. Len(o) |-> Seen(o[k].pay, DataLen(o[k]), o[k].bad)]
Datum == [pay : Nat, bytes : Int, bad : Damage]

(* They are sequences of data, as long as what they are made of. *)
LEMMA WrittenType ==
    ASSUME NEW s \in Seq(Lens)
    PROVE  WrittenOf(s) \in Seq(Datum) /\ Len(WrittenOf(s)) = Len(s)
<1>1. Len(s) \in Nat
  OBVIOUS
<1>2. ASSUME NEW k \in 1 .. Len(s) PROVE Seen(k - 1, s[k], "none") \in Datum
  <2>1. s[k] \in Lens /\ k - 1 \in Nat
    OBVIOUS
  <2> QED
    BY <2>1, ConstantTypes DEF Seen, Datum, Damage
<1> HIDE DEF Datum
<1> QED
  BY <1>1, <1>2 DEF WrittenOf

(* The same of what was read. *)
LEMMA ReadType ==
    ASSUME NEW o \in Seq(Packet)
    PROVE  ReadOf(o) \in Seq(Datum) /\ Len(ReadOf(o)) = Len(o)
<1>1. Len(o) \in Nat
  OBVIOUS
<1>2. ASSUME NEW k \in 1 .. Len(o) PROVE Seen(o[k].pay, DataLen(o[k]), o[k].bad) \in Datum
  <2>1. o[k] \in Packet
    OBVIOUS
  <2>2. o[k].pay \in Nat /\ o[k].wire \in Nat /\ o[k].bad \in Damage
    BY <2>1, Zenon DEF Packet
  <2>3. DataLen(o[k]) \in Int
    BY <2>2, ConstantTypes DEF DataLen
  <2> QED
    BY <2>2, <2>3, Zenon DEF Seen, Datum
<1> HIDE DEF Datum
<1> QED
  BY <1>1, <1>2 DEF ReadOf

(* A send writes to the stream. *)
LEMMA FillWrites ==
    ASSUME TypeOK, NEW len \in Lens, Egress(len)
    PROVE  Stream!Next
<1>1. sent' = Append(sent, len) /\ Len(sent) < MaxSend /\ dbr' = dbr
  BY Zenon DEF Egress, Fill, rhostVars, recvVars
<1>2. sent \in Seq(Lens) /\ Len(sent) \in Nat
  BY DEF TypeOK, LinkType, SenderType
<1>3. /\ Len(sent') = Len(sent) + 1 /\ sent'[Len(sent) + 1] = len
      /\ \A k \in 1 .. Len(sent) : sent'[k] = sent[k]
  BY <1>1, <1>2
<1> DEFINE e == Seen(Len(sent), len, "none")
<1>4. e \in Datum
  BY <1>2, ConstantTypes DEF Seen, Datum, Damage
<1> DEFINE f == WrittenOf(sent)
           g == WrittenOf(sent')
<1>5. f \in Seq(Datum) /\ Len(f) = Len(sent) /\ g \in Seq(Datum) /\ Len(g) = Len(sent')
  <2>1. sent' \in Seq(Lens)
    BY <1>1, <1>2
  <2> QED
    BY <1>2, <2>1, WrittenType, Zenon
<1>6. g[Len(g)] = e /\ \A k \in 1 .. Len(f) : g[k] = f[k]
  <2>1. Len(sent') \in 1 .. Len(sent') /\ Len(sent') - 1 = Len(sent)
    BY <1>2, <1>3
  <2>2. \A k \in 1 .. Len(sent) : k \in 1 .. Len(sent')
    BY <1>2, <1>3
  <2> QED
    BY <1>3, <1>5, <2>1, <2>2, Zenon DEF WrittenOf
<1> HIDE DEF e, f, g, Datum
<1>7. g = Append(f, e)
  BY <1>3, <1>4, <1>5, <1>6, Appended
<1>9. e \in {Seen(p, n, "none") : p \in 0 .. MaxSend, n \in Lens}
  <2>1. Len(sent) \in 0 .. MaxSend
    BY <1>1, <1>2, SenderAssumption
  <2> QED
    BY <2>1 DEF e
<1>10. Stream!Write(e)
  BY <1>1, <1>7, Zenon DEF Stream!Write, f, g, WrittenOf
<1> QED
  BY <1>9, <1>10 DEF Stream!Next

(* What the application takes from the ring is what the stream holds next. *)
LEMMA ReceiveReads ==
    ASSUME TypeOK, Aligned, SingleRun, ~overrun, StreamBody, Receive
    PROVE  Stream!Next
<1> DEFINE n == Len(dbr.out)
<1>1. /\ Len(rx) \in Nat /\ Len(rx) >= 1 /\ n \in Nat /\ rx[1] \in Packet
      /\ Len(dbr'.out) = n + 1 /\ dbr'.out[n + 1] = rx[1]
      /\ \A k \in 1 .. n : dbr'.out[k] = dbr.out[k]
      /\ dbr.out \in Seq(Packet) /\ dbr'.out = Append(dbr.out, rx[1])
  BY ReceiveEffect, Zenon DEF SingleRun
<1>2. n + Len(rx) <= Len(sent) /\ Len(sent) \in Nat
  BY StreamTypes, Zenon DEF StreamBody, OrderInv, Taken
<1>3. rx[1].pay = n /\ rx[1].bad = "none" /\ rx[1].wire = HdrLen + sent[n + 1]
  <2>1. 1 \in 1 .. Len(rx) /\ n + 1 - 1 = n
    BY <1>1
  <2> QED
    BY <2>1, Zenon DEF StreamBody, OrderInv, AsSent
<1>4. sent' = sent /\ n + 1 \in 1 .. Len(sent) /\ (n + 1) - 1 = n
  BY <1>1, <1>2 DEF Receive, sendVars, histVars
<1>5. DataLen(rx[1]) = sent[n + 1]
  <2>1. sent \in Seq(Lens)
    BY Zenon DEF TypeOK, LinkType, SenderType
  <2>2. sent[n + 1] \in Lens
    BY <2>1, <1>4
  <2> QED
    BY <2>2, <1>3, ConstantTypes DEF DataLen
<1> DEFINE w == WrittenOf(sent)
           f == ReadOf(dbr.out)
           g == ReadOf(dbr'.out)
           e == w[n + 1]
<1>6. e = Seen(n, sent[n + 1], "none")
  BY <1>4, Zenon DEF WrittenOf
<1>7. /\ f \in Seq(Datum) /\ Len(f) = n /\ w \in Seq(Datum) /\ Len(w) = Len(sent)
      /\ g \in Seq(Datum) /\ Len(g) = n + 1
  <2>1. dbr'.out \in Seq(Packet) /\ sent \in Seq(Lens)
    BY <1>1 DEF TypeOK, LinkType, SenderType
  <2> QED
    BY <1>1, <2>1, WrittenType, ReadType, Zenon
<1>8. g[n + 1] = e
  <2>1. n + 1 \in 1 .. Len(dbr'.out)
    BY <1>1
  <2> QED
    BY <2>1, <1>1, <1>3, <1>5, <1>6, Zenon DEF ReadOf, DataLen
<1>9. \A k \in 1 .. n : g[k] = f[k]
  <2>1. \A k \in 1 .. n : k \in 1 .. Len(dbr'.out)
    BY <1>1
  <2> QED
    BY <2>1, <1>1, Zenon DEF ReadOf, DataLen
<1> HIDE DEF w, f, g, Datum
<1>10. e \in Datum
  BY <1>4, <1>7
<1> HIDE DEF e
<1>11. g = Append(f, e)
  <2> HIDE DEF n
  <2> QED
    BY <1>7, <1>8, <1>9, <1>10, Appended, Zenon
<1>12. Len(f) < Len(w) /\ w[Len(f) + 1] = e
  BY <1>1, <1>2, <1>7 DEF e
<1>13. Stream!Read
  BY <1>4, <1>11, <1>12, Zenon DEF Stream!Read, f, g, w, WrittenOf, ReadOf
<1> QED
  BY <1>13 DEF Stream!Next

(* Every step of the link while it is live is a step of the stream. *)
LEMMA StepRefines ==
    ASSUME TypeOK, Aligned, StreamInv, [Next]_vars
    PROVE  [Live' => Stream!Next]_<<sent, dbr.out>>
<1> SUFFICES ASSUME Live' PROVE Stream!Next \/ UNCHANGED <<sent, dbr.out>>
  BY Zenon
<1>0. SingleRun /\ ~overrun /\ StreamBody
  BY LiveBackwards, Zenon DEF Live, StreamInv, StreamBody
<1>1. CASE \E len \in Lens : Egress(len)
  BY <1>1, FillWrites, Zenon
<1>2. CASE Receive
  BY <1>0, <1>2, ReceiveReads, Zenon
<1>3. CASE ReceiverStart
  <2>1. dbr' = [DbrInit EXCEPT !.out = dbr.out] /\ sent' = sent
    BY <1>3, Zenon DEF ReceiverStart, Attach, sendVars, histVars
  <2> QED
    BY <2>1, Zenon DEF DbrInit
<1>4. CASE Ingress
  BY <1>4, Zenon DEF Ingress, IngressAccept, IngressNack, IngressPass, Redirect, Refuse, Ignore, recvVars,
     sendVars, histVars
<1>5. CASE SenderStart \/ EgressStep \/ Listener
  BY <1>5, Zenon DEF SenderStart, Boot, EgressStep, Timer, Wake, ScanAcked, ScanDone, Confirm, ScanLost,
     ResendFrom, Listener, Hear, histVars, recvVars, rhostVars
<1>6. CASE PathStep \/ UNCHANGED vars
  BY <1>6, Zenon DEF PathStep, sendVars, histVars, recvVars, vars, linkVars
<1> QED
  BY <1>1, <1>2, <1>3, <1>4, <1>5, <1>6, Zenon DEF Next

(* Nothing is written and nothing read at first. *)
LEMMA InitStream ==
    ASSUME Init
    PROVE  StreamInv /\ ConfirmInv /\ Aligned /\ Stream!Init
<1>1. /\ data = {} /\ back = {} /\ pc = "idle" /\ confirmed = {} /\ sent = << >> /\ numSeq = 0
      /\ rx = << >> /\ dbr = DbrInit /\ numAck = 0
  BY Zenon DEF Init, LinkInit, PathInit, SenderInit, ReceiverInit
<1>2. Len(sent) = 0 /\ Len(rx) = 0 /\ Len(dbr.out) = 0 /\ dbr.out = << >> /\ 0 % W = 0
  BY <1>1, ModSlot, ConstantTypes DEF DbrInit
<1>3. Base = 0 /\ Start = 0 /\ Taken = 0
  BY <1>1, <1>2 DEF Base, Start, Taken
<1> HIDE DEF Base, Start, Taken
<1>4. \A s \in 0 .. Base - 1 : FALSE
  BY <1>3
<1>5. WindowInv /\ AckInv
  BY <1>1, <1>2, <1>3, <1>4 DEF WindowInv, AckInv
<1>6. OrderInv
  BY <1>1, <1>2, <1>3 DEF OrderInv
<1>7. FlightInv
  BY <1>1, Zenon DEF FlightInv
<1>8. \A s \in Slots : ~(s < Len(sent))
  BY <1>2, ConstantTypes
<1>9. ConfirmInv
  BY <1>1, <1>8 DEF ConfirmInv, InFlightCurrent, PathQuiet, AckedHeld
<1>10. Aligned
  BY <1>1, FreshAligned, Zenon DEF Aligned, DbrInit
<1>11. Stream!Init
  <2>1. \A s \in Seq(Datum) : Len(s) = 0 => s = << >>
    OBVIOUS
  <2>2. sent \in Seq(Lens) /\ dbr.out \in Seq(Packet)
    BY <1>1, <1>2, EmptyIsSeq, Zenon
  <2>3. WrittenOf(sent) = << >> /\ ReadOf(dbr.out) = << >>
    BY <1>2, <2>1, <2>2, WrittenType, ReadType, Zenon
  <2> QED
    BY <2>3, Zenon DEF Stream!Init, WrittenOf, ReadOf
<1> QED
  BY <1>5, <1>6, <1>7, <1>9, <1>10, <1>11, Zenon DEF StreamInv

(* On a path that the 10 ms timer outlasts and that duplicates nothing,    *)
(* the egress graft, the ingress graft and dbr implement a reliable stream *)
(* over losses, overtaking and damage the checksum sees, until a flush     *)
(* gives up, the ring overflows, an application restarts, an answer is     *)
(* lost or a last byte damaged: for any window, lengths, ring and number   *)
(* of retransmissions.                                                     *)
THEOREM GbnRefinesStream ==
    ASSUME Timely, ~Duplicates
    PROVE  Spec => ImplementsStream
<1>1. Init => StreamInv /\ ConfirmInv /\ Aligned /\ Stream!Init
  BY InitStream, Zenon
<1>2. /\ TypeOK /\ Congruent /\ Aligned /\ ConfirmInv /\ StreamInv /\ [Next]_vars
      => StreamInv'
  BY StepStream, Zenon
<1>3. TypeOK /\ Congruent /\ Aligned /\ ConfirmInv /\ [Next]_vars => ConfirmInv'
  BY StepInFlight, StepAcked, Zenon DEF ConfirmInv
<1>4. TypeOK /\ Aligned /\ StreamInv /\ [Next]_vars => [Live' => Stream!Next]_<<sent, dbr.out>>
  BY StepRefines, Zenon
<1>5. Spec => [][Live' => Stream!Next]_<<sent, dbr.out>>
  BY <1>1, <1>2, <1>3, <1>4, TypeCorrect, GbnCongruent, GbnAligned, PTL DEF Spec
<1> QED
  BY <1>1, <1>5, PTL DEF Spec, ImplementsStream, Live
=============================================================================
