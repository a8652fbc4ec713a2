--------------------------- MODULE PartialProofs ---------------------------
(***************************************************************************)
(* Theorems about Partial: it implements LinkSpec, has what WindowedProofs *)
(* proves of LinkSpec, and bounds what a flush leaves behind.              *)
(***************************************************************************)
EXTENDS Partial, WindowedProofs, FiniteSetTheorems

(* A scan step over slot i that resends nothing. *)
LEMMA ScanOnly ==
    ASSUME LinkType, pc = "scan", pc' \in {"timer", "scan"}, i' \in 0 .. W,
           ackWnd' \in [Slots -> Event], \A s \in Slots : s # i => ackWnd'[s] = ackWnd[s],
           UNCHANGED <<cursor, curWin, lastLen, txNum, numSeq, bufWnd, lenWnd, txStarts,
                       histVars, pathVars, recvVars>>
    PROVE  FlushStep
<1>1. cursor' \in Slots
  BY DEF LinkType, SenderType
<1>2. data' = data \union {Resend(j) : j \in {}} /\ {} \in SUBSET (0 .. curWin)
  BY DEF pathVars
<1> QED
  BY <1>1, <1>2 DEF FlushStep, pathVars

(* Each step of the grafts is a step of LinkNext or leaves its state alone. *)
LEMMA StepIsWindowed == ASSUME LinkType, [Next]_vars PROVE [LinkNext]_linkVars
<1> USE ConstantTypes
<1>0. /\ i \in 0 .. W /\ curWin \in Slots /\ cursor \in Slots
      /\ ackWnd \in [Slots -> Event]
  BY DEF LinkType, SenderType
<1>a. i <= curWin => i \in Slots /\ i + 1 \in 0 .. W
  BY <1>0 DEF Slots
<1>b. "RECV_NACK" \in Event
  BY DEF Event
<1>1. CASE \E len \in Lens : Egress(len)
  BY <1>1, <1>b DEF Egress, rhostVars, LinkNext
<1>2. CASE Timer
  BY <1>2 DEF Timer, rhostVars, LinkNext
<1>3. CASE ScanTolerate \/ ScanAcked
  <2>1. /\ pc = "scan" /\ pc' = "scan" /\ i <= curWin /\ i' = i + 1
        /\ UNCHANGED <<ackWnd, cursor, curWin, lastLen, txNum, numSeq, bufWnd, lenWnd, txStarts,
                       histVars, pathVars, recvVars>>
    BY <1>3 DEF ScanTolerate, ScanAcked, mapVars, rhostVars
  <2> QED
    BY <1>0, <1>a, <2>1, ScanOnly DEF LinkNext
<1>4. CASE ScanDone
  BY <1>4 DEF ScanDone, FlushEnd, rhostVars, LinkNext
<1>5. CASE ScanLost
  <2>1. /\ pc = "scan" /\ pc' = "timer" /\ i <= curWin /\ cursor' = i
        /\ UNCHANGED <<i, ackWnd, back, faults, harmed, curWin, lastLen, txNum, numSeq, bufWnd,
                       lenWnd, txStarts, histVars, recvVars>>
    BY <1>5 DEF ScanLost, ResendFrom, mapVars, rhostVars
  <2>2. data' = data \union {Resend(j) : j \in RetxSlots}
    BY <1>5 DEF ScanLost, ResendFrom
  <2>3. RetxSlots \in SUBSET (0 .. curWin)
    BY <1>0 DEF RetxSlots, Slots
  <2>4. FlushStep
    BY <1>0, <1>a, <2>1, <2>2, <2>3 DEF FlushStep
  <2> QED
    BY <2>4 DEF LinkNext
<1>6. CASE Listener
  BY <1>6, <1>b DEF Listener, rhostVars, LinkNext
<1>7. CASE Ingress
  <2>1. Judge
    BY <1>7 DEF Ingress, Judge, IngressAccept, IngressNack, IngressPass
  <2> QED
    BY <2>1 DEF LinkNext
<1>8. CASE SenderStart \/ ReceiverStart \/ Receive \/ PathStep
  BY <1>8 DEF LinkNext
<1>9. CASE UNCHANGED vars
  BY <1>9 DEF vars
<1> QED
  BY <1>1, <1>2, <1>3, <1>4, <1>5, <1>6, <1>7, <1>8, <1>9 DEF Next, EgressStep

(* LOST_PKT_MAP holds a count and NUM_ACK_MAP a number below its modulus. *)
LEMMA CountType ==
    ASSUME lost \in Nat, numAck \in 0 .. AckMod - 1, [Next]_vars
    PROVE  lost' \in Nat /\ numAck' \in 0 .. AckMod - 1
<1>1. lost' = lost \/ lost' = 0 \/ lost' = lost + 1
  BY DEF Next, vars, Egress, EgressStep, Timer, ScanTolerate, ScanLost, ScanAcked, ScanDone,
         Listener, Ingress, own
<1>2. numAck' = numAck \/ numAck' = (numAck + 1) % AckMod
  BY DEF Next, vars, Egress, EgressStep, Timer, ScanTolerate, ScanLost, ScanAcked, ScanDone,
         Listener, Ingress, IngressAccept, IngressNack, IngressPass, own, rhostVars
<1>3. numAck + 1 \in Nat /\ AckMod \in Nat \ {0}
  BY PartialAssumption
<1>4. (numAck + 1) % AckMod \in 0 .. AckMod - 1
  BY <1>3
<1> QED
  BY <1>1, <1>2, <1>4

(* The state of the two hosts is always of its type. *)
THEOREM TypeCorrect == Spec => []TypeOK
<1>1. Init => TypeOK /\ RoundBound
  <2> SUFFICES ASSUME Init PROVE TypeOK /\ RoundBound
    OBVIOUS
  <2>1. LinkType /\ RoundBound
    BY InitType DEF Init
  <2>2. lost \in Nat
    BY DEF Init
  <2>3. numAck \in 0 .. AckMod - 1
    BY PartialAssumption DEF Init
  <2> QED
    BY <2>1, <2>2, <2>3 DEF TypeOK
<1>2. TypeOK /\ RoundBound /\ [Next]_vars => (TypeOK /\ RoundBound)'
  BY StepIsWindowed, StepType, CountType DEF TypeOK
<1> QED
  BY <1>1, <1>2, PTL DEF Spec

(* The partial reliability grafts implement the windowed link: a flush     *)
(* resends only packets of its own window, ends within RETX_MAX rounds,    *)
(* and leaves the other maps alone.                                        *)
THEOREM PartialIsWindowed == Spec => IsWindowed
<1>1. Init => LinkInit
  BY DEF Init
<1>2. TypeOK /\ [Next]_vars => [LinkNext]_linkVars
  BY StepIsWindowed DEF TypeOK
<1> QED
  BY <1>1, <1>2, TypeCorrect, PTL DEF Spec, IsWindowed, LinkSpec

(* The purge loop and the storing path leave next_num at a missing packet. *)
THEOREM NextMissing == Spec => []NextIsMissing
  BY PartialIsWindowed, LinkNextMissing, PTL DEF IsWindowed

(* The k-th packet the application reads has an index congruent to k       *)
(* modulo WND_SIZE, whatever the path does.                                *)
THEOREM DeliveryCongruent == Spec => []CongruentDelivery
  BY PartialIsWindowed, LinkDeliveryCongruent, PTL DEF IsWindowed
-----------------------------------------------------------------------------
(* Every reachable state is congruent. *)
LEMMA PartialCongruent == Spec => []Congruent
<1>1. Init => Congruent
  BY InitCongruent, Zenon DEF Init
<1>2. TypeOK /\ Congruent /\ [Next]_vars => Congruent'
  BY StepIsWindowed, StepCongruent, Zenon DEF TypeOK
<1> QED
  BY <1>1, <1>2, TypeCorrect, PTL DEF Spec
-----------------------------------------------------------------------------
(* What is in flight belongs to the packet that BUF_WND_MAP keeps under    *)
(* its number: the timer outlasts it, so nothing of an earlier window is   *)
(* still on its way when a slot is filled again.                           *)
InFlightCurrent ==
    /\ txStarts = 0 => pc = "idle" /\ PathQuiet
    /\ pc = "scan" => PathQuiet
    /\ \A m \in data \union back :
          /\ m.seq < Len(sent) /\ bufWnd[m.seq].pay = m.pay
          /\ pc = "idle" => m.seq < numSeq

(* A slot that the scan takes for received is one the receiver has. *)
AckedHeld ==
    /\ \A r \in back : r.type = "ACK" => Has(r.seq)
    /\ \A s \in Slots : s < Len(sent) /\ ackWnd[s] # "RECV_NACK" => Has(s)

(* Those of the first n slots whose packet the receiver lacks. *)
Lacking(n) == {s \in 0 .. n - 1 : ~Has(s)}

(* The slots before the cursor were left behind by earlier rounds; those   *)
(* the scan has passed since were counted in LOST_PKT_MAP.                 *)
LossInv ==
    /\ pc = "timer" => cursor <= curWin /\ Cardinality(Lacking(cursor)) <= DefaultLoss * txNum
    /\ pc = "scan" => /\ i <= curWin + 1 /\ txNum >= 1 /\ lost <= DefaultLoss
                      /\ Cardinality(Lacking(i)) <= DefaultLoss * (txNum - 1) + lost

(* The strengthening of LossIsBounded. *)
PartialInv == SingleRun => InFlightCurrent /\ Known /\ NewestLast /\ AckedHeld /\ LossInv

(* The types the steps below compute with. *)
LEMMA PartialTypes ==
    ASSUME TypeOK
    PROVE  /\ LinkType /\ data \subseteq Packet /\ back \subseteq Answer
           /\ numSeq \in Slots /\ ackWnd \in [Slots -> Event] /\ bufWnd \in [Slots -> Packet]
           /\ cursor \in Nat /\ i \in Nat /\ curWin \in Slots /\ curWin \in Nat /\ txNum \in Nat
           /\ lost \in Nat /\ txStarts \in Nat /\ sent \in Seq(Lens) /\ Len(sent) \in Nat
           /\ rx \in Seq(Packet)
           /\ \A m \in data \union back : m.seq \in Slots
<1>1. /\ LinkType /\ data \subseteq Packet /\ back \subseteq Answer
      /\ numSeq \in Slots /\ ackWnd \in [Slots -> Event] /\ bufWnd \in [Slots -> Packet]
      /\ cursor \in Slots /\ i \in 0 .. W /\ curWin \in Slots /\ txNum \in 0 .. RetxMax + 1
      /\ lost \in Nat /\ txStarts \in Nat /\ sent \in Seq(Lens) /\ rx \in Seq(Packet)
  BY Zenon DEF TypeOK, LinkType, SenderType, ReceiverType
<1>2. /\ cursor \in Nat /\ i \in Nat /\ curWin \in Nat /\ txNum \in Nat /\ Len(sent) \in Nat
  BY <1>1, ConstantTypes
<1>3. \A m \in data \union back : m.seq \in Slots
  BY <1>1, Zenon DEF Packet, Answer
<1> QED
  BY <1>1, <1>2, <1>3, Zenon

(* A step that adds nothing to the path but answers to what is on it and   *)
(* damaged copies of it.                                                   *)
LEMMA SameInFlight ==
    ASSUME InFlightCurrent, UNCHANGED <<sent, bufWnd, numSeq, txStarts, pc>>,
           \A m \in data' \union back' :
              \E n \in data \union back : m.seq = n.seq /\ m.pay = n.pay
    PROVE  InFlightCurrent'
<1>1. PathQuiet => PathQuiet'
  BY Zenon DEF PathQuiet
<1> QED
  BY <1>1, Zenon DEF InFlightCurrent

(* A packet is put on the path under a number that nothing in flight has.  *)
LEMMA FillInFlight ==
    ASSUME TypeOK, Congruent, SingleRun, InFlightCurrent, NEW len \in Lens, Egress(len)
    PROVE  InFlightCurrent'
<1> DEFINE p == NewPacket(len)
<1>1. /\ pc = "idle" /\ txStarts > 0 /\ numSeq' = NextNum(numSeq) /\ data' = data \union {p}
      /\ bufWnd' = [bufWnd EXCEPT ![numSeq] = p] /\ back' = back /\ txStarts' = txStarts
      /\ sent' = Append(sent, len) /\ pc' = IF Flushes(len) THEN "timer" ELSE "idle"
  BY Zenon DEF Egress, Fill
<1>2. /\ numSeq \in Slots /\ bufWnd \in [Slots -> Packet] /\ txStarts \in Nat
      /\ Len(sent) \in Nat /\ sent \in Seq(Lens) /\ \A m \in data \union back : m.seq \in Slots
  BY PartialTypes, Zenon
<1>3. p.seq = numSeq /\ p.pay = Len(sent)
  BY Zenon DEF NewPacket
<1> HIDE DEF p
<1>4. Len(sent') = Len(sent) + 1
  BY <1>1, <1>2
<1>5. \A m \in data \union back : m.seq < numSeq
  BY <1>1, Zenon DEF InFlightCurrent
<1>6. \A s \in Slots : s < numSeq => s # numSeq
  BY <1>2, ConstantTypes
<1>7. numSeq < Len(sent')
  <2>1. numSeq = Len(sent) % W
    BY Zenon DEF Congruent
  <2>2. Len(sent) = W * (Len(sent) \div W) + numSeq /\ Len(sent) \div W \in Nat
    BY <1>2, <2>1, DivMod, Zenon
  <2>3. W * (Len(sent) \div W) >= 0
    BY <2>2, ConstantTypes, Z3
  <2> QED
    BY <1>2, <1>4, <2>2, <2>3, ConstantTypes
<1>8. ASSUME NEW m \in data' \union back' PROVE m.seq < Len(sent') /\ bufWnd'[m.seq].pay = m.pay
  <2>1. CASE m = p
    BY <2>1, <1>1, <1>2, <1>3, <1>7, Zenon
  <2>2. CASE m \in data \union back
    <3>1. m.seq \in Slots /\ m.seq # numSeq /\ m.seq < Len(sent) /\ bufWnd[m.seq].pay = m.pay
      BY <2>2, <1>2, <1>5, <1>6, Zenon DEF InFlightCurrent
    <3>2. m.seq < Len(sent')
      BY <3>1, <1>2, <1>4, ConstantTypes
    <3> QED
      BY <3>1, <3>2, <1>1, <1>2, Zenon
  <2> QED
    BY <1>1, <2>1, <2>2, Zenon
<1>9. ASSUME pc' = "idle", NEW m \in data' \union back' PROVE m.seq < numSeq'
  <2>1. numSeq # W - 1
    BY <1>1, <1>9, Zenon DEF Flushes
  <2>2. numSeq + 1 \in Slots
    BY <1>2, <2>1, ConstantTypes DEF Slots
  <2>3. numSeq' = numSeq + 1
    BY <1>1, <2>2, ModSlot, Zenon DEF NextNum
  <2>4. m.seq \in Slots /\ (m.seq < numSeq \/ m.seq = numSeq)
    BY <1>1, <1>2, <1>3, <1>5, Zenon
  <2> QED
    BY <1>2, <2>3, <2>4, ConstantTypes
<1>10. txStarts' # 0 /\ pc' # "scan"
  BY <1>1, <1>2
<1> QED
  BY <1>8, <1>9, <1>10, Zenon DEF InFlightCurrent

(* A retransmission puts kept packets on the quiet path. *)
LEMMA ResendInFlight ==
    ASSUME TypeOK, Congruent, SingleRun, InFlightCurrent, ScanLost
    PROVE  InFlightCurrent'
<1>1. /\ pc = "scan" /\ pc' = "timer" /\ data' = data \union {Resend(j) : j \in i .. curWin}
      /\ UNCHANGED <<back, bufWnd, txStarts, sent>>
  BY Zenon DEF ScanLost, ResendFrom, RetxSlots, mapVars, histVars
<1>2. i \in Nat /\ curWin \in Nat /\ Len(sent) \in Nat
  BY PartialTypes, Zenon
<1>3. curWin < Len(sent)
  BY <1>1, Zenon DEF Congruent
<1>4. ASSUME NEW j \in i .. curWin
      PROVE  Resend(j).seq < Len(sent) /\ bufWnd[Resend(j).seq].pay = Resend(j).pay
  <2>1. j \in 0 .. curWin /\ j < Len(sent)
    BY <1>2, <1>3
  <2>2. j \in Slots /\ Resend(j).pay = bufWnd[j].pay /\ Resend(j).seq = bufWnd[j].seq
    BY <2>1, ResendType, Zenon DEF TypeOK, LinkType
  <2>3. bufWnd[j].seq = j
    BY <2>1, <2>2, Zenon DEF Congruent
  <2> QED
    BY <2>1, <2>2, <2>3, Zenon
<1>5. \A m \in data' \union back' : m.seq < Len(sent) /\ bufWnd[m.seq].pay = m.pay
  <2>1. data = {} /\ back' = {}
    BY <1>1, Zenon DEF InFlightCurrent, PathQuiet
  <2>2. \A m \in data' \union back' : \E j \in i .. curWin : m = Resend(j)
    BY <1>1, <2>1, Zenon
  <2> QED
    BY <1>4, <2>2, Zenon
<1>6. txStarts # 0 /\ pc' # "idle" /\ pc' # "scan"
  BY <1>1 DEF InFlightCurrent
<1> QED
  BY <1>1, <1>5, <1>6, Zenon DEF InFlightCurrent

(* Every step keeps what is in flight attributed. *)
LEMMA StepInFlight ==
    ASSUME Timely, TypeOK, Congruent, [Next]_vars, SingleRun, SingleRun', InFlightCurrent
    PROVE  InFlightCurrent'
<1>1. CASE SenderStart
  <2>1. txStarts' = txStarts + 1 /\ pc = "idle" /\ UNCHANGED <<data, back, pc>>
    BY <1>1, Zenon DEF SenderStart, Boot, pathVars, callVars
  <2>2. txStarts' # 0 /\ txStarts = 0
    BY <2>1, PartialTypes DEF SingleRun
  <2>3. data' = {} /\ back' = {}
    BY <2>1, <2>2, Zenon DEF InFlightCurrent, PathQuiet
  <2> QED
    BY <2>1, <2>2, <2>3, Zenon DEF InFlightCurrent, PathQuiet
<1>2. CASE \E len \in Lens : Egress(len)
  BY <1>2, FillInFlight, Zenon
<1>3. CASE Timer \/ ScanDone
  <2>1. pc \in {"timer", "scan"} /\ data = {} /\ back = {} /\ UNCHANGED <<data, back, txStarts>>
    BY <1>3, Zenon DEF Timer, Wake, TimerMayFire, ScanDone, Confirm, PathQuiet, InFlightCurrent, mapVars,
       pathVars
  <2>2. txStarts # 0
    BY <2>1 DEF InFlightCurrent
  <2> QED
    BY <2>1, <2>2, Zenon DEF InFlightCurrent, PathQuiet
<1>4. CASE \/ ScanTolerate \/ ScanAcked \/ (Receive /\ UNCHANGED own)
           \/ (ReceiverStart /\ UNCHANGED own) \/ UNCHANGED vars
  <2>1. UNCHANGED <<data, back, sent, bufWnd, numSeq, txStarts, pc>>
    BY <1>4, Zenon DEF ScanTolerate, ScanAcked, Receive, ReceiverStart, pathVars, mapVars, sendVars,
       callVars, histVars, vars, linkVars
  <2> QED
    BY <2>1, SameInFlight, Zenon
<1>5. CASE ScanLost
  BY <1>5, ResendInFlight, Zenon
<1>6. CASE Listener
  <2>1. data' = data /\ back' \subseteq back /\ UNCHANGED <<sent, bufWnd, numSeq, txStarts, pc>>
    BY <1>6, Zenon DEF Listener, Hear, Take, callVars, histVars
  <2> QED
    BY <2>1, SameInFlight, Zenon
<1>7. CASE Ingress
  <2>1. PICK m \in data :
          /\ data' \subseteq data
          /\ back' \subseteq back \union {AnswerTo(m, "ACK"), AnswerTo(m, "NACK")}
          /\ UNCHANGED <<sent, bufWnd, numSeq, txStarts, pc>>
    BY <1>7, Zenon DEF Ingress, Arrive, Take, IngressAccept, IngressNack, IngressPass, Redirect, Refuse,
       Ignore, sendVars, mapVars, callVars, histVars
  <2>2. \A t \in {"ACK", "NACK"} : AnswerTo(m, t).seq = m.seq /\ AnswerTo(m, t).pay = m.pay
    BY Zenon DEF AnswerTo
  <2>3. \A n \in data' \union back' : \E k \in data \union back : n.seq = k.seq /\ n.pay = k.pay
    BY <2>1, <2>2, Zenon
  <2> QED
    BY <2>1, <2>3, SameInFlight, Zenon
<1>8. CASE PathStep /\ UNCHANGED own
  <2>1. UNCHANGED <<sent, bufWnd, numSeq, txStarts, pc>>
    BY <1>8, Zenon DEF PathStep, sendVars, mapVars, callVars, histVars
  <2>2. CASE LosePacket \/ LoseAnswer
    <3>1. data' \subseteq data /\ back' \subseteq back
      BY <2>2, Zenon DEF LosePacket, LoseAnswer
    <3> QED
      BY <2>1, <3>1, SameInFlight, Zenon
  <2>3. CASE DamagePacket
    <3>1. PICK m \in data, h \in Harm :
             data' = Take(data, m) \union {[m EXCEPT !.bad = h]} /\ back' = back
      BY <2>3, Zenon DEF DamagePacket
    <3>2. [m EXCEPT !.bad = h].pay = m.pay /\ [m EXCEPT !.bad = h].seq = m.seq
      BY Zenon DEF TypeOK, LinkType, Packet
    <3>3. Take(data, m) \subseteq data
      BY Zenon DEF Take
    <3> QED
      BY <2>1, <3>1, <3>2, <3>3, SameInFlight, Zenon
  <2> QED
    BY <1>8, <2>2, <2>3, Zenon DEF PathStep, PathNext
<1> QED
  BY <1>1, <1>2, <1>3, <1>4, <1>5, <1>6, <1>7, <1>8, Zenon DEF Next, EgressStep

(* A step that writes neither slots nor answers. *)
LEMMA SameAcked ==
    ASSUME TypeOK, InFlightCurrent, AckedHeld, UNCHANGED <<sent, ackWnd>>, back' \subseteq back,
           \A s \in Slots : s < Len(sent) /\ Has(s) => Has(s)'
    PROVE  AckedHeld'
<1> HIDE DEF Has
<1>1. ASSUME NEW r \in back', r.type = "ACK" PROVE Has(r.seq)'
  <2>1. r \in back /\ r.seq \in Slots /\ r.seq < Len(sent)
    BY PartialTypes, Zenon DEF InFlightCurrent
  <2> QED
    BY <1>1, <2>1, Zenon DEF AckedHeld
<1>2. \A s \in Slots : s < Len(sent') /\ ackWnd'[s] # "RECV_NACK" => Has(s)'
  BY Zenon DEF AckedHeld
<1> QED
  BY <1>1, <1>2, Zenon DEF AckedHeld

(* The slot that is filled waits for an answer. *)
LEMMA FillAcked ==
    ASSUME TypeOK, Congruent, SingleRun, InFlightCurrent, AckedHeld, NEW len \in Lens, Egress(len),
           \A s \in Slots : s < Len(sent) /\ Has(s) /\ bufWnd'[s] = bufWnd[s] => Has(s)'
    PROVE  AckedHeld'
<1> HIDE DEF Has
<1>1. /\ pc = "idle" /\ bufWnd' = [bufWnd EXCEPT ![numSeq] = NewPacket(len)]
      /\ ackWnd' = [ackWnd EXCEPT ![numSeq] = "RECV_NACK"] /\ back' = back /\ sent' = Append(sent, len)
  BY Zenon DEF Egress, Fill, Armed
<1>2. /\ numSeq \in Slots /\ bufWnd \in [Slots -> Packet] /\ ackWnd \in [Slots -> Event]
      /\ sent \in Seq(Lens) /\ Len(sent) \in Nat
  BY PartialTypes, Zenon
<1>3. Len(sent') = Len(sent) + 1
  BY <1>1, <1>2
<1>4. ASSUME NEW r \in back', r.type = "ACK" PROVE Has(r.seq)'
  <2>1. r \in back /\ r.seq \in Slots /\ r.seq < Len(sent) /\ r.seq < numSeq
    BY <1>1, PartialTypes, Zenon DEF InFlightCurrent
  <2>2. r.seq # numSeq
    BY <1>2, <2>1, ConstantTypes
  <2>3. bufWnd'[r.seq] = bufWnd[r.seq]
    BY <1>1, <1>2, <2>1, <2>2, Zenon
  <2> QED
    BY <1>4, <2>1, <2>3, Zenon DEF AckedHeld
<1>5. ASSUME NEW s \in Slots, s < Len(sent'), ackWnd'[s] # "RECV_NACK" PROVE Has(s)'
  <2>1. s # numSeq
    BY <1>1, <1>2, <1>5, Zenon
  <2>2. ackWnd'[s] = ackWnd[s] /\ bufWnd'[s] = bufWnd[s]
    BY <1>1, <1>2, <2>1, Zenon
  <2>3. s # Len(sent)
    BY <2>1, ModSlot, Zenon DEF Congruent
  <2>4. s < Len(sent)
    BY <1>2, <1>3, <1>5, <2>3, ConstantTypes
  <2> QED
    BY <1>5, <2>2, <2>4, Zenon DEF AckedHeld
<1> QED
  BY <1>4, <1>5, Zenon DEF AckedHeld

(* The listener sets the slot of the packet the ACK is about. *)
LEMMA ListenerAcked ==
    ASSUME TypeOK, InFlightCurrent, AckedHeld, Listener,
           \A s \in Slots : s < Len(sent) /\ Has(s) => Has(s)'
    PROVE  AckedHeld'
<1> HIDE DEF Has
<1>1. PICK r \in back :
        /\ back' \subseteq back
        /\ ackWnd' = [ackWnd EXCEPT ![r.seq] = IF r.type = "NACK" THEN "RECV_NACK" ELSE "RECV_ACK"]
        /\ UNCHANGED sent
  BY Zenon DEF Listener, Hear, Take, callVars, histVars
<1>2. /\ ackWnd \in [Slots -> Event] /\ r.type \in {"ACK", "NACK"}
      /\ \A q \in back : q.seq \in Slots /\ q.seq < Len(sent)
  BY PartialTypes, Zenon DEF InFlightCurrent, Answer
<1>3. \A q \in back' : q.type = "ACK" => Has(q.seq)'
  BY <1>1, <1>2, Zenon DEF AckedHeld
<1>4. ASSUME NEW s \in Slots, s < Len(sent), ackWnd'[s] # "RECV_NACK" PROVE Has(s)'
  <2>1. CASE s = r.seq
    <3>1. r.type = "ACK"
      BY <1>1, <1>2, <1>4, <2>1, Zenon
    <3> QED
      BY <1>4, <2>1, <3>1, Zenon DEF AckedHeld
  <2>2. CASE s # r.seq
    <3>1. ackWnd'[s] = ackWnd[s]
      BY <1>1, <1>2, <2>2, Zenon
    <3> QED
      BY <1>4, <3>1, Zenon DEF AckedHeld
  <2> QED
    BY <2>1, <2>2, Zenon
<1> QED
  BY <1>1, <1>3, <1>4, Zenon DEF AckedHeld

(* The redirect that sends an ACK has put the packet into the ring. *)
LEMMA IngressAcked ==
    ASSUME TypeOK, InFlightCurrent, AckedHeld, Ingress,
           \A s \in Slots : s < Len(sent) /\ Has(s) => Has(s)'
    PROVE  AckedHeld'
<1>1. PICK m \in data :
        /\ IngressAccept(m) \/ IngressNack(m) \/ IngressPass(m)
        /\ UNCHANGED sendVars
  BY Zenon DEF Ingress
<1>2. UNCHANGED <<sent, ackWnd, bufWnd>>
  BY <1>1, Zenon DEF sendVars, mapVars, histVars
<1>3. /\ m \in Packet /\ rx \in Seq(Packet) /\ m.seq \in Slots /\ bufWnd[m.seq].pay = m.pay
      /\ \A q \in back : q.seq \in Slots /\ q.seq < Len(sent)
  BY PartialTypes, Zenon DEF InFlightCurrent
<1>4. ASSUME rx' = Append(rx, m) PROVE Has(m.seq)'
  <2>1. Len(rx) + 1 \in 1 .. Len(rx') /\ rx'[Len(rx) + 1] = m
    BY <1>3, <1>4
  <2>2. m \in Accepted'
    BY <2>1, Zenon DEF Accepted
  <2> QED
    BY <1>2, <1>3, <2>2, Zenon DEF Has, AcceptedPays
<1> HIDE DEF Has
<1>5. AnswerTo(m, "ACK").seq = m.seq /\ AnswerTo(m, "NACK").type = "NACK"
  BY Zenon DEF AnswerTo
<1>6. \/ back' = back
      \/ back' = back \union {AnswerTo(m, "ACK")} /\ rx' = Append(rx, m)
      \/ back' = back \union {AnswerTo(m, "NACK")}
  BY <1>1, Zenon DEF IngressAccept, IngressNack, IngressPass, Redirect, Refuse, Ignore
<1>7. ASSUME NEW r \in back', r.type = "ACK" PROVE Has(r.seq)'
  <2>1. CASE r \in back
    BY <1>3, <1>7, <2>1, Zenon DEF AckedHeld
  <2>2. CASE r = AnswerTo(m, "ACK") /\ rx' = Append(rx, m)
    BY <1>4, <1>5, <2>2, Zenon
  <2>3. CASE r = AnswerTo(m, "NACK")
    BY <1>5, <1>7, <2>3
  <2> QED
    BY <1>6, <2>1, <2>2, <2>3, Zenon
<1>8. \A s \in Slots : s < Len(sent') /\ ackWnd'[s] # "RECV_NACK" => Has(s)'
  BY <1>2, Zenon DEF AckedHeld
<1> QED
  BY <1>7, <1>8, Zenon DEF AckedHeld

(* Every step keeps what is taken for received accepted. *)
LEMMA StepAcked ==
    ASSUME TypeOK, Congruent, SingleRun, SingleRun', InFlightCurrent, NewestLast, AckedHeld, [Next]_vars
    PROVE  AckedHeld'
<1>0. LinkType /\ [LinkNext]_linkVars
  BY StepIsWindowed, Zenon DEF TypeOK
<1>1. \A s \in Slots : s < Len(sent) /\ Has(s) /\ bufWnd'[s] = bufWnd[s] => Has(s)'
  BY <1>0, StepHas, Zenon
<1> HIDE DEF Has
<1>2. ASSUME bufWnd' = bufWnd PROVE \A s \in Slots : s < Len(sent) /\ Has(s) => Has(s)'
  BY <1>1, <1>2, Zenon
<1>3. CASE SenderStart
  <2>1. txStarts' = txStarts + 1 /\ pc = "idle" /\ UNCHANGED <<back, sent>>
    BY <1>3, Zenon DEF SenderStart, Boot, pathVars, histVars
  <2>2. txStarts = 0
    BY <2>1, PartialTypes DEF SingleRun
  <2>3. back' = {}
    BY <2>1, <2>2, Zenon DEF InFlightCurrent, PathQuiet
  <2>4. \A s \in Slots : ~(s < Len(sent'))
    BY <2>1, <2>2, ConstantTypes DEF Congruent
  <2> QED
    BY <2>3, <2>4, Zenon DEF AckedHeld
<1>4. CASE \E len \in Lens : Egress(len)
  BY <1>1, <1>4, FillAcked, Zenon
<1>5. CASE Listener
  <2>1. bufWnd' = bufWnd
    BY <1>5, Zenon DEF Listener, Hear
  <2> QED
    BY <1>2, <1>5, <2>1, ListenerAcked, Zenon
<1>6. CASE Ingress
  <2>1. bufWnd' = bufWnd
    BY <1>6, Zenon DEF Ingress, sendVars, mapVars
  <2> QED
    BY <1>2, <1>6, <2>1, IngressAcked, Zenon
<1>7. CASE \/ EgressStep \/ (ReceiverStart /\ UNCHANGED own) \/ (Receive /\ UNCHANGED own)
           \/ (PathStep /\ UNCHANGED own) \/ UNCHANGED vars
  <2>1. UNCHANGED <<sent, ackWnd, bufWnd>>
    BY <1>7, Zenon DEF EgressStep, Timer, Wake, ScanTolerate, ScanLost, ResendFrom, ScanAcked, ScanDone,
       Confirm, ReceiverStart, Receive, PathStep, sendVars, mapVars, histVars, vars, linkVars
  <2>2. back' \subseteq back
    BY <1>7, Zenon DEF EgressStep, Timer, ScanTolerate, ScanLost, ResendFrom, ScanAcked, ScanDone,
       ReceiverStart, Receive, PathStep, PathNext, LosePacket, LoseAnswer, DamagePacket, pathVars, vars,
       linkVars
  <2> QED
    BY <1>2, <2>1, <2>2, SameAcked, Zenon
<1> QED
  BY <1>3, <1>4, <1>5, <1>6, <1>7, Zenon DEF Next
-----------------------------------------------------------------------------
(* Sets of slots below n can be counted. *)
LEMMA SlotSets ==
    ASSUME NEW n \in Nat, NEW S \in SUBSET (0 .. n - 1)
    PROVE  /\ Cardinality(S) \in Nat
           /\ \A T \in SUBSET S : Cardinality(T) \in Nat /\ Cardinality(T) <= Cardinality(S)
           /\ \A x : \A T \in SUBSET (S \union {x}) :
                 Cardinality(T) \in Nat /\ Cardinality(T) <= Cardinality(S) + 1
<1>1. IsFiniteSet(0 .. n - 1)
  <2>1. 0 \in Int /\ n - 1 \in Int
    OBVIOUS
  <2> QED
    BY <2>1, FS_Interval, Zenon
<1>2. IsFiniteSet(S)
  BY <1>1, FS_Subset, Zenon
<1>3. Cardinality(S) \in Nat
  BY <1>2, FS_CardinalityType, Zenon
<1>4. ASSUME NEW T \in SUBSET S PROVE Cardinality(T) \in Nat /\ Cardinality(T) <= Cardinality(S)
  <2>1. IsFiniteSet(T) /\ Cardinality(T) <= Cardinality(S)
    BY <1>2, FS_Subset, Zenon
  <2> QED
    BY <2>1, FS_CardinalityType, Zenon
<1>5. ASSUME NEW x, NEW T \in SUBSET (S \union {x})
      PROVE  Cardinality(T) \in Nat /\ Cardinality(T) <= Cardinality(S) + 1
  <2> DEFINE U == S \union {x}
  <2>1. IsFiniteSet(U) /\ Cardinality(U) = IF x \in S THEN Cardinality(S) ELSE Cardinality(S) + 1
    BY <1>2, FS_AddElement, Zenon
  <2>2. IsFiniteSet(T) /\ Cardinality(T) <= Cardinality(U)
    BY <2>1, FS_Subset, Zenon
  <2>3. Cardinality(T) \in Nat
    BY <2>2, FS_CardinalityType, Zenon
  <2>4. Cardinality(U) = Cardinality(S) \/ Cardinality(U) = Cardinality(S) + 1
    BY <2>1, Zenon
  <2> HIDE DEF U
  <2> QED
    BY <1>3, <2>2, <2>3, <2>4
<1> QED
  BY <1>3, <1>4, <1>5, Zenon

(* Of the first n slots of the window no step makes the receiver lack more. *)
LEMMA LackingShrinks ==
    ASSUME TypeOK, Congruent, SingleRun, SingleRun', NewestLast, [Next]_vars, bufWnd' = bufWnd,
           pc # "idle", NEW n \in Nat, n <= curWin + 1
    PROVE  /\ {s \in 0 .. n - 1 : ~Has(s)'} \subseteq Lacking(n)
           /\ \A s \in 0 .. n - 1 : Has(s) => Has(s)'
           /\ Lacking(n) \in SUBSET (0 .. n - 1)
<1>0. LinkType /\ [LinkNext]_linkVars
  BY StepIsWindowed, Zenon DEF TypeOK
<1>1. curWin < Len(sent) /\ curWin \in Nat /\ Len(sent) \in Nat /\ curWin \in Slots
  BY PartialTypes, Zenon DEF Congruent
<1>2. \A s \in 0 .. n - 1 : s \in Slots /\ s < Len(sent)
  BY <1>1, ConstantTypes DEF Slots
<1>3. \A s \in Slots : s < Len(sent) /\ Has(s) => Has(s)'
  BY <1>0, StepHas, Zenon
<1> HIDE DEF Has
<1>4. \A s \in 0 .. n - 1 : Has(s) => Has(s)'
  BY <1>2, <1>3, Zenon
<1> QED
  BY <1>4, Zenon DEF Lacking

(* One round more allows DEFAULT_LOSS packets more. *)
LEMMA RoundAllows ==
    \A n \in Nat : /\ DefaultLoss * n \in Nat
                   /\ n >= 1 => DefaultLoss * (n - 1) \in Nat
                                /\ DefaultLoss * (n - 1) + DefaultLoss = DefaultLoss * n
<1> SUFFICES ASSUME NEW n \in Nat
             PROVE  /\ DefaultLoss * n \in Nat
                    /\ n >= 1 => DefaultLoss * (n - 1) \in Nat
                                 /\ DefaultLoss * (n - 1) + DefaultLoss = DefaultLoss * n
  BY Zenon
<1>1. DefaultLoss \in Nat
  BY PartialAssumption
<1>2. DefaultLoss * n \in Nat
  BY <1>1
<1>3. ASSUME n >= 1
      PROVE  DefaultLoss * (n - 1) \in Nat /\ DefaultLoss * (n - 1) + DefaultLoss = DefaultLoss * n
  <2>1. n - 1 \in Nat
    BY <1>3
  <2>2. DefaultLoss * (n - 1) \in Nat
    BY <1>1, <2>1
  <2>3. DefaultLoss * (n - 1) + DefaultLoss = DefaultLoss * n
    BY <1>1, Z3
  <2> QED
    BY <2>2, <2>3
<1> QED
  BY <1>2, <1>3

(* Every step keeps the count of what the flush leaves behind. *)
LEMMA StepLoss ==
    ASSUME TypeOK, Congruent, SingleRun, SingleRun', NewestLast, AckedHeld, LossInv, [Next]_vars
    PROVE  LossInv'
<1> DEFINE After(n) == {s \in 0 .. n - 1 : ~Has(s)'}
<1>0. /\ cursor \in Nat /\ i \in Nat /\ curWin \in Nat /\ curWin \in Slots /\ txNum \in Nat
      /\ lost \in Nat /\ Len(sent) \in Nat /\ DefaultLoss \in Nat
  BY PartialTypes, PartialAssumption, Zenon
<1>1. Lacking(cursor)' = After(cursor') /\ Lacking(i)' = After(i')
  BY Zenon DEF Lacking
<1>2. ASSUME pc # "idle", bufWnd' = bufWnd, NEW n \in Nat, n <= curWin + 1
      PROVE  /\ After(n) \subseteq Lacking(n) /\ Lacking(n) \in SUBSET (0 .. n - 1)
             /\ \A s \in 0 .. n - 1 : Has(s) => Has(s)'
  BY <1>2, LackingShrinks, Zenon
<1>3. ASSUME pc # "idle", bufWnd' = bufWnd, NEW n \in Nat, n <= curWin + 1
      PROVE  /\ Cardinality(After(n)) \in Nat /\ Cardinality(Lacking(n)) \in Nat
             /\ Cardinality(After(n)) <= Cardinality(Lacking(n))
  BY <1>2, <1>3, SlotSets, Zenon
<1>4. CASE \E len \in Lens : Egress(len)
  <2>1. curWin' = numSeq /\ cursor' = 0 /\ txNum' = 0 /\ pc' # "scan"
    BY <1>4, Zenon DEF Egress, Fill
  <2>2. numSeq \in Slots
    BY PartialTypes, Zenon
  <2>3. 0 <= numSeq
    BY <2>2, ConstantTypes
  <2>4. 0 .. 0 - 1 = {} /\ 0 <= 0
    OBVIOUS
  <2>5. DefaultLoss * 0 = 0
    BY <1>0
  <2>6. After(0) = {}
    BY <2>4, Zenon
  <2>7. Cardinality(After(0)) = 0
    BY <2>6, FS_EmptySet, Zenon
  <2> HIDE DEF After
  <2> QED
    BY <1>1, <2>1, <2>3, <2>4, <2>5, <2>7, Zenon DEF LossInv
<1>5. CASE Timer
  <2>1. pc = "timer" /\ bufWnd' = bufWnd /\ curWin' = curWin /\ txNum' = txNum + 1 /\ cursor' = cursor
    BY <1>5, Zenon DEF Timer, Wake, Rounds, mapVars
  <2>2. cursor <= curWin /\ Cardinality(Lacking(cursor)) <= DefaultLoss * txNum
    BY <2>1, Zenon DEF LossInv
  <2>3. pc' = "idle" \/ (pc' = "scan" /\ i' = cursor /\ lost' = 0)
    BY <1>5, Zenon DEF Timer, Wake
  <2>4. /\ Cardinality(After(cursor)) \in Nat /\ Cardinality(Lacking(cursor)) \in Nat
        /\ Cardinality(After(cursor)) <= Cardinality(Lacking(cursor))
    <3>1. cursor <= curWin + 1 /\ pc # "idle"
      BY <1>0, <2>1, <2>2
    <3> QED
      BY <1>0, <1>3, <2>1, <3>1, Zenon
  <2>5. DefaultLoss * txNum \in Nat /\ (txNum + 1) - 1 = txNum
    BY <1>0, RoundAllows
  <2> HIDE DEF After
  <2>6. /\ cursor <= curWin + 1 /\ txNum + 1 >= 1 /\ 0 <= DefaultLoss
        /\ Cardinality(After(cursor)) <= DefaultLoss * ((txNum + 1) - 1) + 0
    BY <1>0, <2>2, <2>4, <2>5
  <2> QED
    BY <1>1, <2>1, <2>3, <2>6 DEF LossInv
<1>6. ASSUME pc = "scan", pc' = "scan", i <= curWin, i' = i + 1,
             UNCHANGED <<curWin, txNum, bufWnd>>, lost' \in Nat, lost' <= DefaultLoss,
             \/ lost' = lost + 1
             \/ lost' = lost /\ Has(i)
      PROVE  LossInv'
  <2>1. /\ txNum >= 1 /\ lost <= DefaultLoss
        /\ Cardinality(Lacking(i)) <= DefaultLoss * (txNum - 1) + lost
    BY <1>6, Zenon DEF LossInv
  <2>2. i + 1 \in Nat /\ i + 1 <= curWin + 1 /\ i <= curWin + 1 /\ pc # "idle" /\ i \in 0 .. (i + 1) - 1
        /\ \A s \in 0 .. (i + 1) - 1 : s = i \/ s \in 0 .. i - 1
    BY <1>0, <1>6
  <2>3. /\ After(i + 1) \subseteq Lacking(i + 1)
        /\ \A s \in 0 .. (i + 1) - 1 : Has(s) => Has(s)'
    BY <1>2, <1>6, <2>2, Zenon
  <2>4. Lacking(i) \in SUBSET (0 .. i - 1)
    BY Zenon DEF Lacking
  <2>5. Lacking(i + 1) \subseteq Lacking(i) \union {i}
    BY <2>2, Zenon DEF Lacking
  <2>6. Has(i) => After(i + 1) \subseteq Lacking(i)
    BY <2>2, <2>3, Zenon DEF Lacking
  <2>7. /\ Cardinality(Lacking(i)) \in Nat /\ Cardinality(After(i + 1)) \in Nat
        /\ Cardinality(After(i + 1)) <= Cardinality(Lacking(i)) + 1
    <3>1. After(i + 1) \in SUBSET (Lacking(i) \union {i})
      BY <2>3, <2>5, Zenon
    <3> QED
      BY <1>0, <2>4, <3>1, SlotSets, Zenon
  <2>8. Has(i) => Cardinality(After(i + 1)) <= Cardinality(Lacking(i))
    BY <1>0, <2>4, <2>6, SlotSets, Zenon
  <2>9. DefaultLoss * (txNum - 1) \in Nat
    BY <1>0, <2>1, RoundAllows, Zenon
  <2> HIDE DEF After, Has
  <2>10. Cardinality(After(i + 1)) <= DefaultLoss * (txNum - 1) + lost'
    BY <1>0, <1>6, <2>1, <2>7, <2>8, <2>9
  <2> QED
    BY <1>1, <1>6, <2>1, <2>2, <2>10 DEF LossInv
<1>7. CASE ScanTolerate
  <2>1. /\ pc = "scan" /\ pc' = "scan" /\ i <= curWin /\ i' = i + 1 /\ lost' = lost + 1 /\ ~TooMany
        /\ UNCHANGED <<curWin, txNum, bufWnd>>
    BY <1>7, Zenon DEF ScanTolerate, mapVars
  <2>2. lost' \in Nat /\ lost' <= DefaultLoss
    BY <1>0, <2>1 DEF TooMany
  <2> QED
    BY <1>6, <2>1, <2>2, Zenon
<1>8. CASE ScanAcked
  <2>1. /\ pc = "scan" /\ pc' = "scan" /\ i <= curWin /\ i' = i + 1 /\ lost' = lost
        /\ ackWnd[i] # "RECV_NACK" /\ UNCHANGED <<curWin, txNum, bufWnd>>
    BY <1>8, Zenon DEF ScanAcked, mapVars
  <2>2. lost' \in Nat /\ lost' <= DefaultLoss
    BY <1>0, <2>1, Zenon DEF LossInv
  <2>3. curWin < Len(sent)
    BY <2>1 DEF Congruent
  <2>4. i \in Slots /\ i < Len(sent)
    BY <1>0, <2>1, <2>3, ConstantTypes DEF Slots
  <2>5. Has(i)
    BY <2>1, <2>4, Zenon DEF AckedHeld
  <2> QED
    BY <1>6, <2>1, <2>2, <2>5, Zenon
<1>9. CASE ScanLost
  <2>1. /\ pc = "scan" /\ pc' = "timer" /\ i <= curWin /\ cursor' = i /\ TooMany
        /\ UNCHANGED <<curWin, txNum, bufWnd>>
    BY <1>9, Zenon DEF ScanLost, ResendFrom, mapVars
  <2>2. /\ txNum >= 1 /\ lost <= DefaultLoss
        /\ Cardinality(Lacking(i)) <= DefaultLoss * (txNum - 1) + lost
    BY <2>1, Zenon DEF LossInv
  <2>3. /\ Cardinality(After(i)) \in Nat /\ Cardinality(Lacking(i)) \in Nat
        /\ Cardinality(After(i)) <= Cardinality(Lacking(i))
    <3>1. i <= curWin + 1 /\ pc # "idle"
      BY <1>0, <2>1
    <3> QED
      BY <1>0, <1>3, <2>1, <3>1, Zenon
  <2>4. /\ DefaultLoss * (txNum - 1) \in Nat /\ DefaultLoss * txNum \in Nat
        /\ DefaultLoss * (txNum - 1) + DefaultLoss = DefaultLoss * txNum
    BY <1>0, <2>2, RoundAllows, Zenon
  <2> HIDE DEF After
  <2>5. Cardinality(After(i)) <= DefaultLoss * txNum
    BY <1>0, <2>2, <2>3, <2>4
  <2> QED
    BY <1>1, <2>1, <2>5 DEF LossInv
<1>10. CASE pc' = "idle"
  BY <1>10 DEF LossInv
<1>11. CASE UNCHANGED <<pc, cursor, i, curWin, txNum, lost, bufWnd>>
  <2>1. CASE pc = "timer"
    <3>1. cursor <= curWin /\ Cardinality(Lacking(cursor)) <= DefaultLoss * txNum
      BY <2>1, Zenon DEF LossInv
    <3>2. cursor <= curWin + 1 /\ pc # "idle"
      BY <1>0, <2>1, <3>1
    <3>3. /\ Cardinality(After(cursor)) \in Nat /\ Cardinality(Lacking(cursor)) \in Nat
          /\ Cardinality(After(cursor)) <= Cardinality(Lacking(cursor))
      BY <1>0, <1>3, <1>11, <3>2, Zenon
    <3>4. DefaultLoss * txNum \in Nat
      BY <1>0, RoundAllows, Zenon
    <3> HIDE DEF After
    <3>5. Cardinality(After(cursor)) <= DefaultLoss * txNum
      BY <3>1, <3>3, <3>4
    <3> QED
      BY <1>1, <1>11, <2>1, <3>1, <3>5 DEF LossInv
  <2>2. CASE pc = "scan"
    <3>1. /\ i <= curWin + 1 /\ txNum >= 1 /\ lost <= DefaultLoss
          /\ Cardinality(Lacking(i)) <= DefaultLoss * (txNum - 1) + lost
      BY <2>2, Zenon DEF LossInv
    <3>2. /\ Cardinality(After(i)) \in Nat /\ Cardinality(Lacking(i)) \in Nat
          /\ Cardinality(After(i)) <= Cardinality(Lacking(i))
      BY <1>0, <1>3, <1>11, <2>2, <3>1
    <3>3. DefaultLoss * (txNum - 1) \in Nat
      BY <1>0, <3>1, RoundAllows, Zenon
    <3> HIDE DEF After
    <3>4. Cardinality(After(i)) <= DefaultLoss * (txNum - 1) + lost
      BY <1>0, <3>1, <3>2, <3>3
    <3> QED
      BY <1>1, <1>11, <2>2, <3>1, <3>4 DEF LossInv
  <2>3. CASE pc = "idle"
    BY <1>11, <2>3 DEF LossInv
  <2> QED
    BY <2>1, <2>2, <2>3, Zenon DEF TypeOK, LinkType, SenderType
<1>12. CASE SenderStart \/ ScanDone
  <2>1. pc' = "idle"
    BY <1>12, Zenon DEF SenderStart, Boot, ScanDone, Confirm, callVars
  <2> QED
    BY <1>10, <2>1, Zenon
<1>13. CASE \/ Listener \/ (ReceiverStart /\ UNCHANGED own) \/ Ingress \/ (Receive /\ UNCHANGED own)
            \/ (PathStep /\ UNCHANGED own) \/ UNCHANGED vars
  <2>1. UNCHANGED <<pc, cursor, i, curWin, txNum, lost, bufWnd>>
    BY <1>13, Zenon DEF Listener, Hear, ReceiverStart, Ingress, Receive, PathStep, own, sendVars, callVars,
       mapVars, vars, linkVars
  <2> QED
    BY <1>11, <2>1, Zenon
<1> QED
  BY <1>4, <1>5, <1>7, <1>8, <1>9, <1>12, <1>13, Zenon DEF Next, EgressStep

(* At the start nothing was sent, and no flush runs. *)
LEMMA InitPartial == Init => PartialInv
<1> SUFFICES ASSUME Init PROVE PartialInv
  BY Zenon
<1>1. /\ pc = "idle" /\ data = {} /\ back = {} /\ sent = << >> /\ rx = << >> /\ dbr = DbrInit
  BY Zenon DEF Init, LinkInit, PathInit, SenderInit, ReceiverInit
<1>2. Len(<< >>) = 0 /\ 1 .. 0 = {} /\ \A s \in Slots : ~(s < 0)
  BY ConstantTypes
<1>3. (\A s \in Slots : ~dbr.stored[s]) /\ dbr.out = << >>
  BY <1>1, Zenon DEF DbrInit
<1>4. Accepted = {} /\ Len(sent) = 0 /\ 1 .. Len(rx) = {}
  BY <1>1, <1>2, <1>3 DEF Accepted
<1>5. InFlightCurrent
  BY <1>1 DEF InFlightCurrent, PathQuiet
<1>6. Known /\ NewestLast /\ AckedHeld
  BY <1>1, <1>2, <1>3, <1>4, Zenon DEF Known, NewestLast, AckedHeld
<1>7. LossInv
  BY <1>1 DEF LossInv
<1> QED
  BY <1>5, <1>6, <1>7, Zenon DEF PartialInv

(* PartialInv is inductive when the timer outlasts what is in flight. *)
LEMMA StepPartial ==
    ASSUME Timely, TypeOK, Congruent, PartialInv, [Next]_vars
    PROVE  PartialInv'
<1> SUFFICES ASSUME SingleRun'
             PROVE  (InFlightCurrent /\ Known /\ NewestLast /\ AckedHeld /\ LossInv)'
  BY Zenon DEF PartialInv
<1>1. LinkType /\ [LinkNext]_linkVars
  BY StepIsWindowed, Zenon DEF TypeOK
<1>2. SingleRun
  BY <1>1, LivesBackwards, Zenon
<1>3. InFlightCurrent /\ Known /\ NewestLast /\ AckedHeld /\ LossInv
  BY <1>2, Zenon DEF PartialInv
<1>4. InFlightKept
  BY <1>3, Zenon DEF InFlightCurrent, InFlightKept
<1>5. InFlightCurrent'
  BY <1>2, <1>3, StepInFlight, Zenon
<1>6. Known'
  BY <1>1, <1>2, <1>3, <1>4, StepKnown, Zenon
<1>7. NewestLast'
  BY <1>1, <1>2, <1>3, <1>4, StepNewest, Zenon
<1>8. AckedHeld'
  BY <1>2, <1>3, StepAcked, Zenon
<1>9. LossInv'
  BY <1>2, <1>3, StepLoss, Zenon
<1> QED
  BY <1>5, <1>6, <1>7, <1>8, <1>9, Zenon

(* Partial reliability: a flush that ends before its last round leaves     *)
(* behind at most DEFAULT_LOSS packets for each round it took, whatever    *)
(* the path loses, damages or reorders, as long as each application runs   *)
(* once and the timer outlasts what is in flight.                          *)
THEOREM LossBounded == ASSUME Timely PROVE Spec => LossIsBounded
<1>1. Init => PartialInv
  BY InitPartial
<1>2. TypeOK /\ Congruent /\ PartialInv /\ [Next]_vars => PartialInv'
  BY StepPartial, Zenon
<1>3. ASSUME TypeOK, Congruent, PartialInv, ScanDone, SingleRun
      PROVE  Cardinality(Missing) <= DefaultLoss * txNum
  <2>1. pc = "scan" /\ i > curWin
    BY <1>3, Zenon DEF ScanDone
  <2>2. /\ i <= curWin + 1 /\ txNum >= 1 /\ lost <= DefaultLoss
        /\ Cardinality(Lacking(i)) <= DefaultLoss * (txNum - 1) + lost
    BY <1>3, <2>1, Zenon DEF PartialInv, LossInv
  <2>3. /\ i \in Nat /\ curWin \in Nat /\ txNum \in Nat /\ lost \in Nat /\ DefaultLoss \in Nat
    BY <1>3, PartialTypes, PartialAssumption, Zenon
  <2>4. 0 .. i - 1 = 0 .. curWin
    BY <2>1, <2>2, <2>3
  <2>5. Missing = Lacking(i) /\ Lacking(i) \in SUBSET (0 .. i - 1)
    BY <2>4, Zenon DEF Missing, Lacking, Has, AcceptedPays
  <2>6. Cardinality(Lacking(i)) \in Nat
    BY <2>3, <2>5, SlotSets, Zenon
  <2>7. /\ DefaultLoss * (txNum - 1) \in Nat /\ DefaultLoss * txNum \in Nat
        /\ DefaultLoss * (txNum - 1) + DefaultLoss = DefaultLoss * txNum
    BY <2>2, <2>3, RoundAllows, Zenon
  <2> QED
    BY <2>2, <2>3, <2>5, <2>6, <2>7
<1>4. TypeOK /\ Congruent /\ PartialInv /\ [Next]_vars
        => [ScanDone /\ SingleRun => Cardinality(Missing) <= DefaultLoss * txNum]_vars
  BY <1>3, Zenon
<1> QED
  BY <1>1, <1>2, <1>4, TypeCorrect, PartialCongruent, PTL DEF Spec, LossIsBounded
=============================================================================
