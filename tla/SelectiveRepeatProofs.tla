----------------------- MODULE SelectiveRepeatProofs -----------------------
(***************************************************************************)
(* Theorems about SelectiveRepeat: it implements LinkSpec, has what        *)
(* WindowedProofs proves of LinkSpec, and its count of acknowledged        *)
(* packets is sound.                                                       *)
(***************************************************************************)
EXTENDS SelectiveRepeat, WindowedProofs

(* A scan step over slot i that resends nothing. *)
LEMMA ScanOnly ==
    ASSUME LinkType, pc = "scan", pc' \in {"timer", "scan"}, i' \in 0 .. W,
           ackWnd' \in [Slots -> Event], \A s \in Slots : s # i => ackWnd'[s] = ackWnd[s],
           UNCHANGED <<cursor, curWin, lastLen, txNum, numSeq, bufWnd, lenWnd, txStarts,
                       histVars, pathVars, recvVars>>
    PROVE  FlushStep
<1>1. cursor' \in Slots
  BY DEF LinkType, SenderType
<1>2. data' = data \union {Resend(j) : j \in {}} /\ {} \in SUBSET (0 .. curWin)
  BY DEF pathVars
<1> QED
  BY <1>1, <1>2 DEF FlushStep, pathVars

(* Each step of the grafts is a step of LinkNext or leaves its state alone. *)
LEMMA StepIsWindowed == ASSUME LinkType, [Next]_vars PROVE [LinkNext]_linkVars
<1> USE ConstantTypes
<1>0. /\ i \in 0 .. W /\ curWin \in Slots /\ cursor \in Slots
      /\ ackWnd \in [Slots -> Event]
  BY DEF LinkType, SenderType
<1>a. i <= curWin => i \in Slots /\ i + 1 \in 0 .. W
  BY <1>0 DEF Slots
<1>b. "TIMEOUT" \in Event /\ "RECV_NACK" \in Event /\ CountedEvent \in Event
  BY DEF Event, CountedEvent
<1>1. CASE \E len \in Lens : Egress(len)
  BY <1>1, <1>b DEF Egress, LinkNext
<1>2. CASE Timer
  BY <1>2 DEF Timer, LinkNext
<1>3. CASE AllCounted
  BY <1>3 DEF AllCounted, FlushEnd, LinkNext
<1>4. CASE ScanResend
  <2>1. /\ pc = "scan" /\ pc' = "scan" /\ i <= curWin /\ i' = i + 1 /\ cursor' = cursor
        /\ UNCHANGED <<ackWnd, back, faults, harmed, curWin, lastLen, txNum, numSeq, bufWnd,
                       lenWnd, txStarts, histVars, recvVars>>
    BY <1>4 DEF ScanResend, InWindow, mapVars
  <2>2. data' = data \union {Resend(j) : j \in {i}}
    BY <1>4 DEF ScanResend, InWindow
  <2>3. {i} \in SUBSET (0 .. curWin)
    BY <1>0, <2>1
  <2>4. FlushStep
    BY <1>0, <1>a, <2>1, <2>2, <2>3 DEF FlushStep
  <2> QED
    BY <2>4 DEF LinkNext
<1>5. CASE ScanAcked
  <2>1. /\ pc = "scan" /\ pc' = "scan" /\ i <= curWin /\ i' = i + 1
        /\ ackWnd' = [ackWnd EXCEPT ![i] = CountedEvent]
        /\ UNCHANGED <<cursor, curWin, lastLen, txNum, numSeq, bufWnd, lenWnd, txStarts,
                       histVars, pathVars, recvVars>>
    BY <1>5 DEF ScanAcked, InWindow
  <2>2. ackWnd' \in [Slots -> Event] /\ \A s \in Slots : s # i => ackWnd'[s] = ackWnd[s]
    BY <1>0, <1>b, <2>1
  <2> QED
    BY <1>a, <2>1, <2>2, ScanOnly DEF LinkNext
<1>6. CASE ScanSkip
  <2>1. /\ pc = "scan" /\ pc' = "scan" /\ i <= curWin /\ i' = i + 1
        /\ UNCHANGED <<ackWnd, cursor, curWin, lastLen, txNum, numSeq, bufWnd, lenWnd, txStarts,
                       histVars, pathVars, recvVars>>
    BY <1>6 DEF ScanSkip, InWindow, mapVars
  <2> QED
    BY <1>0, <1>a, <2>1, ScanOnly DEF LinkNext
<1>7. CASE ScanEnd
  <2>1. /\ pc = "scan" /\ pc' = "timer"
        /\ UNCHANGED <<i, ackWnd, cursor, curWin, lastLen, txNum, numSeq, bufWnd, lenWnd,
                       txStarts, histVars, pathVars, recvVars>>
    BY <1>7 DEF ScanEnd, mapVars
  <2> QED
    BY <1>0, <2>1, ScanOnly DEF LinkNext
<1>8. CASE Listener
  BY <1>8, <1>b DEF Listener, LinkNext
<1>9. CASE Ingress
  <2>1. Judge
    BY <1>9 DEF Ingress, Judge, IngressAccept, IngressNack, IngressPass
  <2> QED
    BY <2>1 DEF LinkNext
<1>10. CASE SenderStart \/ ReceiverStart \/ Receive \/ PathStep
  BY <1>10 DEF LinkNext
<1>11. CASE UNCHANGED vars
  BY <1>11 DEF vars
<1> QED
  BY <1>1, <1>2, <1>3, <1>4, <1>5, <1>6, <1>7, <1>8, <1>9, <1>10, <1>11 DEF Next, EgressStep

(* ACK_PKT_MAP holds a count and out a truth value. *)
LEMMA CountType ==
    ASSUME acked \in Nat, out \in BOOLEAN, [Next]_vars
    PROVE  acked' \in Nat /\ out' \in BOOLEAN
<1>1. acked' = acked \/ acked' = 0 \/ acked' = acked + 1
  BY DEF Next, vars, Egress, EgressStep, Timer, AllCounted, ScanResend, ScanAcked, ScanSkip,
         ScanEnd, Listener, Ingress
<1>2. out' \in BOOLEAN
  BY DEF Next, vars, Egress, EgressStep, Timer, AllCounted, ScanResend, ScanAcked, ScanSkip,
         ScanEnd, Listener, Ingress
<1> QED
  BY <1>1, <1>2

(* The state of the two hosts is always of its type. *)
THEOREM TypeCorrect == Spec => []TypeOK
<1>1. Init => TypeOK /\ RoundBound
  <2> SUFFICES ASSUME Init PROVE TypeOK /\ RoundBound
    OBVIOUS
  <2>1. LinkType /\ RoundBound
    BY InitType DEF Init
  <2>2. acked \in Nat
    BY DEF Init
  <2>3. out \in BOOLEAN
    BY DEF Init
  <2> QED
    BY <2>1, <2>2, <2>3 DEF TypeOK
<1>2. TypeOK /\ RoundBound /\ [Next]_vars => (TypeOK /\ RoundBound)'
  BY StepIsWindowed, StepType, CountType DEF TypeOK
<1> QED
  BY <1>1, <1>2, PTL DEF Spec

(* The Selective Repeat grafts implement the windowed link: a flush        *)
(* resends only packets of its own window, ends within RETX_MAX rounds,    *)
(* and leaves the other maps alone.                                        *)
THEOREM SrIsWindowed == Spec => IsWindowed
<1>1. Init => LinkInit
  BY DEF Init
<1>2. TypeOK /\ [Next]_vars => [LinkNext]_linkVars
  BY StepIsWindowed DEF TypeOK
<1> QED
  BY <1>1, <1>2, TypeCorrect, PTL DEF Spec, IsWindowed, LinkSpec

(* The purge loop and the storing path leave next_num at a missing packet, *)
(* although packets arrive in any order.                                   *)
THEOREM NextMissing == Spec => []NextIsMissing
  BY SrIsWindowed, LinkNextMissing, PTL DEF IsWindowed

(* The k-th packet the application reads has an index congruent to k       *)
(* modulo WND_SIZE, whatever the path does.                                *)
THEOREM DeliveryCongruent == Spec => []CongruentDelivery
  BY SrIsWindowed, LinkDeliveryCongruent, PTL DEF IsWindowed
-----------------------------------------------------------------------------
(* What is in flight is the packet that BUF_WND_MAP keeps under its number *)
(* or the answer to it, once; and its slot still waits for an answer.      *)
OneInFlight ==
    /\ txStarts = 0 => pc = "idle" /\ PathQuiet
    /\ \A m \in data \union back :
          /\ m.seq < Len(sent) /\ bufWnd[m.seq].pay = m.pay /\ ackWnd[m.seq] = "TIMEOUT"
          /\ pc = "idle" => m.seq < numSeq
          /\ pc = "scan" => m.seq < i
    /\ \A m, n \in data : m.seq = n.seq => m = n
    /\ \A r, q \in back : r.seq = q.seq => r = q
    /\ \A m \in data, r \in back : m.seq # r.seq

(* A slot that is acknowledged, or counted, is one the receiver has. *)
AckedHeld ==
    /\ \A r \in back : r.type = "ACK" => Has(r.seq)
    /\ \A s \in Slots : s < Len(sent) /\ ackWnd[s] \in {"RECV_ACK", "IDLE"} => Has(s)

(* Each slot is counted once. *)
Counted == {s \in 0 .. curWin : ackWnd[s] = "IDLE"}
CountedOnce == pc # "idle" => acked <= Cardinality(Counted)

(* The strengthening of CountIsSound. *)
CountInv == SingleRun => OneInFlight /\ Known /\ NewestLast /\ AckedHeld /\ CountedOnce

(* The types the steps below compute with. *)
LEMMA CountTypes ==
    ASSUME TypeOK
    PROVE  /\ data \subseteq Packet /\ back \subseteq Answer
           /\ numSeq \in Slots /\ ackWnd \in [Slots -> Event] /\ bufWnd \in [Slots -> Packet]
           /\ i \in Nat /\ curWin \in Slots /\ curWin \in Nat /\ txStarts \in Nat /\ rxStarts \in Nat
           /\ sent \in Seq(Lens) /\ Len(sent) \in Nat /\ acked \in Nat
           /\ rx \in Seq(Packet) /\ dbr \in DbrType /\ dbr.out \in Seq(Packet)
           /\ \A m \in data \union back : m.seq \in Slots /\ m.pay \in Nat
<1>1. /\ data \subseteq Packet /\ back \subseteq Answer
      /\ numSeq \in Slots /\ ackWnd \in [Slots -> Event] /\ bufWnd \in [Slots -> Packet]
      /\ i \in 0 .. W /\ curWin \in Slots /\ txStarts \in Nat /\ rxStarts \in Nat
      /\ sent \in Seq(Lens) /\ acked \in Nat
      /\ rx \in Seq(Packet) /\ dbr \in DbrType /\ dbr.out \in Seq(Packet)
  BY Zenon DEF TypeOK, LinkType, SenderType, ReceiverType, DbrType
<1>2. i \in Nat /\ curWin \in Nat /\ Len(sent) \in Nat
  BY <1>1, ConstantTypes
<1>3. \A m \in data \union back : m.seq \in Slots /\ m.pay \in Nat
  BY <1>1, Zenon DEF Packet, Answer
<1> QED
  BY <1>1, <1>2, <1>3, Zenon

(* A step that adds nothing to the path. *)
LEMMA SameInFlight ==
    ASSUME OneInFlight, UNCHANGED <<sent, bufWnd, ackWnd, numSeq, txStarts, pc, i>>,
           data' \subseteq data, back' \subseteq back
    PROVE  OneInFlight'
  BY Zenon DEF OneInFlight, PathQuiet

(* A packet is put on the path under a number that nothing in flight has.  *)
LEMMA FillInFlight ==
    ASSUME TypeOK, Congruent, SingleRun, OneInFlight, NEW len \in Lens, Egress(len)
    PROVE  OneInFlight'
<1> DEFINE p == NewPacket(len)
<1>1. /\ pc = "idle" /\ txStarts > 0 /\ numSeq' = NextNum(numSeq) /\ data' = data \union {p}
      /\ bufWnd' = [bufWnd EXCEPT ![numSeq] = p] /\ ackWnd' = [ackWnd EXCEPT ![numSeq] = "TIMEOUT"]
      /\ back' = back /\ txStarts' = txStarts /\ sent' = Append(sent, len)
      /\ pc' = IF Flushes(len) THEN "timer" ELSE "idle"
  BY Zenon DEF Egress, Fill, Armed
<1>2. /\ numSeq \in Slots /\ bufWnd \in [Slots -> Packet] /\ ackWnd \in [Slots -> Event]
      /\ txStarts \in Nat /\ Len(sent) \in Nat /\ sent \in Seq(Lens)
      /\ \A m \in data \union back : m.seq \in Slots
  BY CountTypes, Zenon
<1>3. p.seq = numSeq /\ p.pay = Len(sent)
  BY Zenon DEF NewPacket
<1> HIDE DEF p
<1>4. Len(sent') = Len(sent) + 1
  BY <1>1, <1>2
<1>5. \A m \in data \union back : m.seq < numSeq
  BY <1>1, Zenon DEF OneInFlight
<1>6. \A s \in Slots : s < numSeq => s # numSeq
  BY <1>2, ConstantTypes
<1>7. \A m \in data \union back : m.seq \in Slots /\ m.seq # numSeq
  BY <1>2, <1>5, <1>6, Zenon
<1>8. numSeq < Len(sent')
  <2>1. numSeq = Len(sent) % W
    BY Zenon DEF Congruent
  <2>2. Len(sent) = W * (Len(sent) \div W) + numSeq /\ Len(sent) \div W \in Nat
    BY <1>2, <2>1, DivMod, Zenon
  <2>3. W * (Len(sent) \div W) >= 0
    BY <2>2, ConstantTypes, Z3
  <2> QED
    BY <1>2, <1>4, <2>2, <2>3, ConstantTypes
<1>9. ASSUME NEW m \in data' \union back'
      PROVE  m.seq < Len(sent') /\ bufWnd'[m.seq].pay = m.pay /\ ackWnd'[m.seq] = "TIMEOUT"
  <2>1. CASE m = p
    BY <2>1, <1>1, <1>2, <1>3, <1>8, Zenon
  <2>2. CASE m \in data \union back
    <3>1. m.seq < Len(sent) /\ bufWnd[m.seq].pay = m.pay /\ ackWnd[m.seq] = "TIMEOUT"
      BY <2>2, Zenon DEF OneInFlight
    <3>2. m.seq < Len(sent')
      BY <3>1, <1>2, <1>4, <2>2, ConstantTypes
    <3> QED
      BY <2>2, <3>1, <3>2, <1>1, <1>2, <1>7, Zenon
  <2> QED
    BY <1>1, <2>1, <2>2, Zenon
<1>10. ASSUME pc' = "idle", NEW m \in data' \union back' PROVE m.seq < numSeq'
  <2>1. numSeq # W - 1
    BY <1>1, <1>10, Zenon DEF Flushes
  <2>2. numSeq + 1 \in Slots
    BY <1>2, <2>1, ConstantTypes DEF Slots
  <2>3. numSeq' = numSeq + 1
    BY <1>1, <2>2, ModSlot, Zenon DEF NextNum
  <2>4. m.seq \in Slots /\ (m.seq < numSeq \/ m.seq = numSeq)
    BY <1>1, <1>2, <1>3, <1>5, Zenon
  <2> QED
    BY <1>2, <2>3, <2>4, ConstantTypes
<1>11. txStarts' # 0 /\ pc' # "scan"
  BY <1>1, <1>2
<1>12. /\ \A m, n \in data' : m.seq = n.seq => m = n
       /\ \A r, q \in back' : r.seq = q.seq => r = q
       /\ \A m \in data', r \in back' : m.seq # r.seq
  BY <1>1, <1>3, <1>7, Zenon DEF OneInFlight
<1> QED
  BY <1>9, <1>10, <1>11, <1>12, Zenon DEF OneInFlight

(* The scan puts the packet of a slot on the path that has no other there. *)
LEMMA ResendInFlight ==
    ASSUME TypeOK, Congruent, SingleRun, OneInFlight, ScanResend
    PROVE  OneInFlight'
<1>1. /\ pc = "scan" /\ pc' = pc /\ data' = data \union {Resend(i)} /\ i <= curWin /\ i' = i + 1
      /\ ackWnd[i] = "TIMEOUT"
      /\ UNCHANGED <<back, bufWnd, ackWnd, numSeq, txStarts, sent>>
  BY Zenon DEF ScanResend, InWindow, mapVars, histVars
<1>2. /\ i \in Nat /\ curWin \in Nat /\ Len(sent) \in Nat
      /\ \A m \in data \union back : m.seq \in Slots
  BY CountTypes, Zenon
<1>3. curWin < Len(sent)
  BY <1>1, Zenon DEF Congruent
<1>4. i \in 0 .. curWin /\ i < Len(sent)
  BY <1>1, <1>2, <1>3
<1>5. i \in Slots /\ Resend(i).pay = bufWnd[i].pay /\ Resend(i).seq = bufWnd[i].seq
  BY <1>4, ResendType, Zenon DEF TypeOK, LinkType
<1>6. Resend(i).seq = i
  BY <1>4, <1>5, Zenon DEF Congruent
<1>7. \A m \in data \union back : m.seq \in Nat /\ m.seq < i
  BY <1>1, <1>2, ConstantTypes, Zenon DEF OneInFlight
<1>8. i < i' /\ \A n \in Nat : n < i => n # i /\ n < i'
  BY <1>1, <1>2
<1>9. \A m \in data \union back : m.seq # i /\ m.seq < i'
  BY <1>7, <1>8, Zenon
<1>10. \A m \in data' \union back' :
          m.seq < Len(sent) /\ bufWnd[m.seq].pay = m.pay /\ ackWnd[m.seq] = "TIMEOUT" /\ m.seq < i'
  BY <1>1, <1>4, <1>5, <1>6, <1>8, <1>9, Zenon DEF OneInFlight
<1>11. /\ \A m, n \in data' : m.seq = n.seq => m = n
       /\ \A r, q \in back' : r.seq = q.seq => r = q
       /\ \A m \in data', r \in back' : m.seq # r.seq
  BY <1>1, <1>6, <1>9, Zenon DEF OneInFlight
<1>12. txStarts # 0 /\ pc' # "idle"
  BY <1>1 DEF OneInFlight
<1> QED
  BY <1>1, <1>10, <1>11, <1>12, Zenon DEF OneInFlight

(* The answer that is heard was the only thing in flight for its slot. *)
LEMMA ListenerInFlight ==
    ASSUME ~Duplicates, TypeOK, OneInFlight, Listener
    PROVE  OneInFlight'
<1>1. PICK r \in back :
        /\ back' = back \ {r} /\ data' = data
        /\ ackWnd' = [ackWnd EXCEPT ![r.seq] = IF r.type = "NACK" THEN "RECV_NACK" ELSE "RECV_ACK"]
        /\ UNCHANGED <<sent, bufWnd, numSeq, txStarts, pc, i>>
  BY Zenon DEF Listener, Hear, Take, callVars, histVars
<1>2. ackWnd \in [Slots -> Event] /\ \A m \in data \union back : m.seq \in Slots
  BY CountTypes, Zenon
<1>3. \A m \in data' \union back' : m \in data \union back /\ m.seq # r.seq
  BY <1>1, Zenon DEF OneInFlight
<1>4. \A m \in data' \union back' : ackWnd'[m.seq] = ackWnd[m.seq]
  BY <1>1, <1>2, <1>3, Zenon
<1>5. /\ data' \subseteq data /\ back' \subseteq back /\ txStarts' # 0
  BY <1>1, Zenon DEF OneInFlight, PathQuiet
<1>6. \A m \in data' \union back' :
        /\ m.seq < Len(sent') /\ bufWnd'[m.seq].pay = m.pay /\ ackWnd'[m.seq] = "TIMEOUT"
        /\ pc' = "idle" => m.seq < numSeq'
        /\ pc' = "scan" => m.seq < i'
  BY <1>1, <1>3, <1>4, Zenon DEF OneInFlight
<1> QED
  BY <1>5, <1>6, Zenon DEF OneInFlight

(* An answer takes the place of the packet it answers. *)
LEMMA IngressInFlight ==
    ASSUME ~Duplicates, TypeOK, OneInFlight, Ingress
    PROVE  OneInFlight'
<1>1. PICK m \in data :
        /\ data' = data \ {m}
        /\ \/ back' = back
           \/ back' = back \union {AnswerTo(m, "ACK")}
           \/ back' = back \union {AnswerTo(m, "NACK")}
        /\ UNCHANGED <<sent, bufWnd, ackWnd, numSeq, txStarts, pc, i>>
  BY Zenon DEF Ingress, Arrive, Take, IngressAccept, IngressNack, IngressPass, Redirect, Refuse,
     Ignore, sendVars, mapVars, callVars, histVars
<1>2. CASE back' = back
  BY <1>1, <1>2, SameInFlight, Zenon
<1>3. ASSUME NEW a, a.seq = m.seq, a.pay = m.pay, back' = back \union {a}
      PROVE  OneInFlight'
  <2>1. \A n \in data' \union back' : n = a \/ (n \in data \union back /\ n.seq # m.seq)
    BY <1>1, <1>3, Zenon DEF OneInFlight
  <2>2. \A n \in data' \union back' :
          /\ n.seq < Len(sent) /\ bufWnd[n.seq].pay = n.pay /\ ackWnd[n.seq] = "TIMEOUT"
          /\ pc = "idle" => n.seq < numSeq
          /\ pc = "scan" => n.seq < i
    BY <1>3, <2>1, Zenon DEF OneInFlight
  <2>3. txStarts # 0
    BY <1>1, Zenon DEF OneInFlight, PathQuiet
  <2>4. \A n \in data' : n \in data /\ n.seq # m.seq
    BY <1>1, Zenon DEF OneInFlight
  <2>5. \A r \in back' : r = a \/ (r \in back /\ r.seq # m.seq)
    BY <1>1, <1>3, Zenon DEF OneInFlight
  <2>6. /\ \A n, k \in data' : n.seq = k.seq => n = k
        /\ \A r, q \in back' : r.seq = q.seq => r = q
        /\ \A n \in data', r \in back' : n.seq # r.seq
    BY <1>3, <2>4, <2>5, Zenon DEF OneInFlight
  <2> QED
    BY <1>1, <2>2, <2>3, <2>6, Zenon DEF OneInFlight
<1>4. \A t \in {"ACK", "NACK"} : AnswerTo(m, t).seq = m.seq /\ AnswerTo(m, t).pay = m.pay
  BY Zenon DEF AnswerTo
<1> QED
  BY <1>1, <1>2, <1>3, <1>4, Zenon

(* A damaged packet takes the place of the one it was. *)
LEMMA DamageInFlight ==
    ASSUME ~Duplicates, TypeOK, OneInFlight, DamagePacket,
           UNCHANGED <<sent, bufWnd, ackWnd, numSeq, txStarts, pc, i>>
    PROVE  OneInFlight'
<1>1. PICK m \in data, h \in Harm : data' = (data \ {m}) \union {[m EXCEPT !.bad = h]} /\ back' = back
  BY Zenon DEF DamagePacket, Take
<1> DEFINE d == [m EXCEPT !.bad = h]
<1>2. d.pay = m.pay /\ d.seq = m.seq
  BY Zenon DEF TypeOK, LinkType, Packet
<1> HIDE DEF d
<1>3. \A n \in data' : n = d \/ (n \in data /\ n.seq # m.seq)
  BY <1>1, Zenon DEF OneInFlight, d
<1>4. \A n \in data' \union back' :
        /\ n.seq < Len(sent) /\ bufWnd[n.seq].pay = n.pay /\ ackWnd[n.seq] = "TIMEOUT"
        /\ pc = "idle" => n.seq < numSeq
        /\ pc = "scan" => n.seq < i
  <2>1. \A n \in data' \union back' : \E k \in data \union back : n.seq = k.seq /\ n.pay = k.pay
    BY <1>1, <1>2, <1>3, Zenon
  <2> TAKE n \in data' \union back'
  <2>2. PICK k \in data \union back : n.seq = k.seq /\ n.pay = k.pay
    BY <2>1, Zenon
  <2>3. /\ k.seq < Len(sent) /\ bufWnd[k.seq].pay = k.pay /\ ackWnd[k.seq] = "TIMEOUT"
        /\ pc = "idle" => k.seq < numSeq
        /\ pc = "scan" => k.seq < i
    BY Zenon DEF OneInFlight
  <2> QED
    BY <2>2, <2>3, Zenon
<1>5. /\ \A n, k \in data' : n.seq = k.seq => n = k
      /\ \A n \in data', r \in back : n.seq # r.seq
  BY <1>2, <1>3, Zenon DEF OneInFlight
<1>6. txStarts # 0
  BY <1>1, Zenon DEF OneInFlight, PathQuiet
<1> QED
  BY <1>1, <1>4, <1>5, <1>6, Zenon DEF OneInFlight

(* Every step keeps at most one thing in flight for each slot. *)
LEMMA StepInFlight ==
    ASSUME Timely, ~Duplicates, TypeOK, Congruent, [Next]_vars, SingleRun', SingleRun, OneInFlight
    PROVE  OneInFlight'
<1>1. CASE SenderStart
  <2>1. txStarts' = txStarts + 1 /\ pc = "idle" /\ UNCHANGED <<data, back, pc>>
    BY <1>1, Zenon DEF SenderStart, Boot, pathVars, callVars
  <2>2. txStarts' # 0 /\ txStarts = 0
    BY <2>1, CountTypes DEF SingleRun
  <2>3. data' = {} /\ back' = {}
    BY <2>1, <2>2, Zenon DEF OneInFlight, PathQuiet
  <2> QED
    BY <2>2, <2>3, Zenon DEF OneInFlight
<1>2. CASE \E len \in Lens : Egress(len)
  BY <1>2, FillInFlight, Zenon
<1>3. CASE Timer \/ AllCounted
  <2>1. /\ data = {} /\ back = {} /\ pc = "timer"
        /\ UNCHANGED <<data, back, txStarts>>
    BY <1>3, Zenon DEF Timer, Wake, AllCounted, TimerMayFire, PathQuiet, mapVars, pathVars
  <2>2. txStarts # 0
    BY <2>1 DEF OneInFlight
  <2> QED
    BY <2>1, <2>2, Zenon DEF OneInFlight
<1>4. CASE ScanResend
  BY <1>4, ResendInFlight, Zenon
<1>5. CASE ScanAcked \/ ScanSkip
  <2>1. /\ pc = "scan" /\ i' = i + 1 /\ UNCHANGED <<data, back, sent, bufWnd, numSeq, txStarts, pc>>
        /\ i \in Nat /\ ackWnd \in [Slots -> Event]
        /\ ackWnd' = ackWnd \/ ackWnd' = [ackWnd EXCEPT ![i] = "IDLE"]
    BY <1>5, CountTypes, Zenon DEF ScanAcked, ScanSkip, CountedEvent, mapVars, histVars, pathVars
  <2>2. \A n \in Nat : n < i => n # i /\ n < i'
    BY <2>1
  <2>3. \A m \in data \union back : m.seq \in Nat /\ m.seq < i /\ m.seq \in Slots
    BY <2>1, CountTypes, ConstantTypes, Zenon DEF OneInFlight
  <2>4. \A m \in data \union back : m.seq < i' /\ ackWnd'[m.seq] = ackWnd[m.seq]
    BY <2>1, <2>2, <2>3, Zenon
  <2>5. pc' # "idle"
    BY <2>1
  <2> QED
    BY <2>1, <2>4, <2>5, Zenon DEF OneInFlight
<1>6. CASE ScanEnd
  <2>1. /\ pc = "scan" /\ pc' = "timer"
        /\ UNCHANGED <<data, back, sent, bufWnd, ackWnd, numSeq, txStarts>>
    BY <1>6, Zenon DEF ScanEnd, mapVars, histVars, pathVars
  <2>2. txStarts # 0
    BY <2>1 DEF OneInFlight
  <2> QED
    BY <2>1, <2>2, Zenon DEF OneInFlight
<1>7. CASE Listener
  BY <1>7, ListenerInFlight, Zenon
<1>8. CASE Ingress
  BY <1>8, IngressInFlight, Zenon
<1>9. CASE ReceiverStart \/ Receive \/ PathStep \/ UNCHANGED vars
  <2>1. UNCHANGED <<sent, bufWnd, ackWnd, numSeq, txStarts, pc, i>>
    BY <1>9, Zenon DEF ReceiverStart, Receive, PathStep, sendVars, mapVars, callVars, histVars, vars,
       linkVars
  <2>2. CASE DamagePacket
    BY <2>1, <2>2, DamageInFlight, Zenon
  <2>3. CASE ~DamagePacket
    <3>1. data' \subseteq data /\ back' \subseteq back
      BY <1>9, <2>3, Zenon DEF ReceiverStart, Receive, PathStep, PathNext, LosePacket, LoseAnswer,
         pathVars, vars, linkVars
    <3> QED
      BY <2>1, <3>1, SameInFlight, Zenon
  <2> QED
    BY <2>2, <2>3, Zenon
<1> QED
  BY <1>1, <1>2, <1>3, <1>4, <1>5, <1>6, <1>7, <1>8, <1>9, Zenon DEF Next, EgressStep
-----------------------------------------------------------------------------
(* A step that writes neither slots nor answers. *)
LEMMA SameAcked ==
    ASSUME TypeOK, OneInFlight, AckedHeld, UNCHANGED <<sent, ackWnd, bufWnd>>,
           back' \subseteq back,
           \A s \in Slots : s < Len(sent) /\ Has(s) => Has(s)'
    PROVE  AckedHeld'
<1> HIDE DEF Has
<1>1. ASSUME NEW r \in back', r.type = "ACK" PROVE Has(r.seq)'
  <2>1. r \in back /\ r.seq \in Slots /\ r.seq < Len(sent)
    BY CountTypes, Zenon DEF OneInFlight
  <2> QED
    BY <1>1, <2>1, Zenon DEF AckedHeld
<1>2. \A s \in Slots : s < Len(sent') /\ ackWnd'[s] \in {"RECV_ACK", "IDLE"} => Has(s)'
  BY Zenon DEF AckedHeld
<1> QED
  BY <1>1, <1>2, Zenon DEF AckedHeld

(* The slot that is filled waits for an answer. *)
LEMMA FillAcked ==
    ASSUME TypeOK, Congruent, SingleRun, OneInFlight, AckedHeld, NEW len \in Lens, Egress(len),
           \A s \in Slots : s < Len(sent) /\ Has(s) /\ bufWnd'[s] = bufWnd[s] => Has(s)'
    PROVE  AckedHeld'
<1> HIDE DEF Has
<1>1. /\ pc = "idle" /\ bufWnd' = [bufWnd EXCEPT ![numSeq] = NewPacket(len)]
      /\ ackWnd' = [ackWnd EXCEPT ![numSeq] = "TIMEOUT"] /\ back' = back /\ sent' = Append(sent, len)
  BY Zenon DEF Egress, Fill, Armed
<1>2. /\ numSeq \in Slots /\ bufWnd \in [Slots -> Packet] /\ ackWnd \in [Slots -> Event]
      /\ sent \in Seq(Lens) /\ Len(sent) \in Nat
  BY CountTypes, Zenon
<1>3. Len(sent') = Len(sent) + 1
  BY <1>1, <1>2
<1>4. ASSUME NEW r \in back', r.type = "ACK" PROVE Has(r.seq)'
  <2>1. r \in back /\ r.seq \in Slots /\ r.seq < Len(sent) /\ r.seq < numSeq
    BY <1>1, CountTypes, Zenon DEF OneInFlight
  <2>2. r.seq # numSeq
    BY <1>2, <2>1, ConstantTypes
  <2>3. bufWnd'[r.seq] = bufWnd[r.seq]
    BY <1>1, <1>2, <2>1, <2>2, Zenon
  <2> QED
    BY <1>4, <2>1, <2>3, Zenon DEF AckedHeld
<1>5. ASSUME NEW s \in Slots, s < Len(sent'), ackWnd'[s] \in {"RECV_ACK", "IDLE"} PROVE Has(s)'
  <2>1. s # numSeq
    BY <1>1, <1>2, <1>5
  <2>2. ackWnd'[s] = ackWnd[s] /\ bufWnd'[s] = bufWnd[s]
    BY <1>1, <1>2, <2>1, Zenon
  <2>3. s # Len(sent)
    BY <2>1, ModSlot, Zenon DEF Congruent
  <2>4. s < Len(sent)
    BY <1>2, <1>3, <1>5, <2>3, ConstantTypes
  <2> QED
    BY <1>5, <2>2, <2>4, Zenon DEF AckedHeld
<1> QED
  BY <1>4, <1>5, Zenon DEF AckedHeld

(* The listener sets the slot of the packet the ACK is about. *)
LEMMA ListenerAcked ==
    ASSUME TypeOK, OneInFlight, AckedHeld, Listener,
           \A s \in Slots : s < Len(sent) /\ Has(s) => Has(s)'
    PROVE  AckedHeld'
<1> HIDE DEF Has
<1>1. PICK r \in back :
        /\ back' \subseteq back
        /\ ackWnd' = [ackWnd EXCEPT ![r.seq] = IF r.type = "NACK" THEN "RECV_NACK" ELSE "RECV_ACK"]
        /\ UNCHANGED sent
  BY Zenon DEF Listener, Hear, Take, callVars, histVars
<1>2. /\ ackWnd \in [Slots -> Event] /\ r.type \in {"ACK", "NACK"}
      /\ \A q \in back : q.seq \in Slots /\ q.seq < Len(sent)
  BY CountTypes, Zenon DEF OneInFlight, Answer
<1>3. \A q \in back' : q.type = "ACK" => Has(q.seq)'
  BY <1>1, <1>2, Zenon DEF AckedHeld
<1>4. ASSUME NEW s \in Slots, s < Len(sent), ackWnd'[s] \in {"RECV_ACK", "IDLE"} PROVE Has(s)'
  <2>1. CASE s = r.seq
    <3>1. r.type = "ACK"
      BY <1>1, <1>2, <1>4, <2>1
    <3> QED
      BY <1>4, <2>1, <3>1, Zenon DEF AckedHeld
  <2>2. CASE s # r.seq
    <3>1. ackWnd'[s] = ackWnd[s]
      BY <1>1, <1>2, <2>2, Zenon
    <3> QED
      BY <1>4, <3>1, Zenon DEF AckedHeld
  <2> QED
    BY <2>1, <2>2, Zenon
<1> QED
  BY <1>1, <1>3, <1>4, Zenon DEF AckedHeld

(* The redirect that sends an ACK has put the packet into the ring. *)
LEMMA IngressAcked ==
    ASSUME TypeOK, OneInFlight, AckedHeld, Ingress,
           \A s \in Slots : s < Len(sent) /\ Has(s) => Has(s)'
    PROVE  AckedHeld'
<1>1. PICK m \in data :
        /\ IngressAccept(m) \/ IngressNack(m) \/ IngressPass(m)
        /\ UNCHANGED sendVars
  BY Zenon DEF Ingress
<1>2. UNCHANGED <<sent, ackWnd, bufWnd>>
  BY <1>1, Zenon DEF sendVars, mapVars, histVars
<1>3. /\ m \in Packet /\ rx \in Seq(Packet) /\ m.seq \in Slots /\ bufWnd[m.seq].pay = m.pay
      /\ \A q \in back : q.seq \in Slots /\ q.seq < Len(sent)
  BY CountTypes, Zenon DEF OneInFlight
<1>4. ASSUME rx' = Append(rx, m) PROVE Has(m.seq)'
  <2>1. Len(rx) + 1 \in 1 .. Len(rx') /\ rx'[Len(rx) + 1] = m
    BY <1>3, <1>4
  <2>2. m \in Accepted'
    BY <2>1, Zenon DEF Accepted
  <2> QED
    BY <1>2, <1>3, <2>2, Zenon DEF Has, AcceptedPays
<1> HIDE DEF Has
<1>5. AnswerTo(m, "ACK").seq = m.seq /\ AnswerTo(m, "NACK").type = "NACK"
  BY Zenon DEF AnswerTo
<1>6. \/ back' = back
      \/ back' = back \union {AnswerTo(m, "ACK")} /\ rx' = Append(rx, m)
      \/ back' = back \union {AnswerTo(m, "NACK")}
  BY <1>1, Zenon DEF IngressAccept, IngressNack, IngressPass, Redirect, Refuse, Ignore
<1>7. ASSUME NEW r \in back', r.type = "ACK" PROVE Has(r.seq)'
  <2>1. CASE r \in back
    BY <1>3, <1>7, <2>1, Zenon DEF AckedHeld
  <2>2. CASE r = AnswerTo(m, "ACK") /\ rx' = Append(rx, m)
    BY <1>4, <1>5, <2>2, Zenon
  <2>3. CASE r = AnswerTo(m, "NACK")
    BY <1>5, <1>7, <2>3
  <2> QED
    BY <1>6, <2>1, <2>2, <2>3, Zenon
<1>8. \A s \in Slots : s < Len(sent') /\ ackWnd'[s] \in {"RECV_ACK", "IDLE"} => Has(s)'
  BY <1>2, Zenon DEF AckedHeld
<1> QED
  BY <1>7, <1>8, Zenon DEF AckedHeld

(* The scan writes only that a slot has been counted. *)
LEMMA ScanSlots ==
    ASSUME EgressStep
    PROVE  /\ UNCHANGED <<back, sent, bufWnd, curWin>> /\ pc # "idle"
           /\ \/ UNCHANGED <<ackWnd, acked>>
              \/ /\ i <= curWin /\ ackWnd[i] = "RECV_ACK"
                 /\ ackWnd' = [ackWnd EXCEPT ![i] = "IDLE"] /\ acked' = acked + 1
<1>1. CASE Timer \/ AllCounted
  BY <1>1 DEF Timer, AllCounted, Wake, Confirm, mapVars, pathVars
<1>2. CASE ScanResend
  BY <1>2 DEF ScanResend, mapVars, histVars
<1>3. CASE ScanAcked
  BY <1>3 DEF ScanAcked, InWindow, CountedEvent, histVars, pathVars
<1>4. CASE ScanSkip \/ ScanEnd
  BY <1>4 DEF ScanSkip, ScanEnd, mapVars, histVars, pathVars
<1> QED
  BY <1>1, <1>2, <1>3, <1>4, Zenon DEF EgressStep

(* Every step keeps what is acknowledged or counted accepted. *)
LEMMA StepAcked ==
    ASSUME TypeOK, Congruent, SingleRun, SingleRun', OneInFlight, NewestLast, AckedHeld, [Next]_vars
    PROVE  AckedHeld'
<1>0. LinkType /\ [LinkNext]_linkVars
  BY StepIsWindowed, Zenon DEF TypeOK
<1>1. \A s \in Slots : s < Len(sent) /\ Has(s) /\ bufWnd'[s] = bufWnd[s] => Has(s)'
  BY <1>0, StepHas, Zenon
<1> HIDE DEF Has
<1>2. ASSUME bufWnd' = bufWnd PROVE \A s \in Slots : s < Len(sent) /\ Has(s) => Has(s)'
  BY <1>1, <1>2, Zenon
<1>3. CASE SenderStart
  <2>1. txStarts' = txStarts + 1 /\ pc = "idle" /\ UNCHANGED <<back, sent, bufWnd>>
    BY <1>3, Zenon DEF SenderStart, Boot, pathVars, histVars
  <2>2. txStarts = 0
    BY <2>1, CountTypes DEF SingleRun
  <2>3. back' = {}
    BY <2>1, <2>2, Zenon DEF OneInFlight, PathQuiet
  <2>4. \A s \in Slots : ~(s < Len(sent'))
    BY <2>1, <2>2, ConstantTypes DEF Congruent
  <2> QED
    BY <2>3, <2>4, Zenon DEF AckedHeld
<1>4. CASE \E len \in Lens : Egress(len)
  BY <1>1, <1>4, FillAcked, Zenon
<1>5. CASE EgressStep
  <2>1. /\ UNCHANGED <<back, sent, bufWnd, curWin>> /\ pc # "idle"
        /\ \/ UNCHANGED <<ackWnd, acked>>
           \/ /\ i <= curWin /\ ackWnd[i] = "RECV_ACK"
              /\ ackWnd' = [ackWnd EXCEPT ![i] = "IDLE"] /\ acked' = acked + 1
    BY <1>5, ScanSlots, Zenon
  <2>2. ackWnd \in [Slots -> Event] /\ \A r \in back : r.seq \in Slots /\ r.seq < Len(sent)
    BY CountTypes, Zenon DEF OneInFlight
  <2>3. \A r \in back' : r.type = "ACK" => Has(r.seq)'
    BY <1>2, <2>1, <2>2, Zenon DEF AckedHeld
  <2>4. ASSUME NEW s \in Slots, s < Len(sent), ackWnd'[s] \in {"RECV_ACK", "IDLE"}
        PROVE  ackWnd[s] \in {"RECV_ACK", "IDLE"}
    BY <2>1, <2>2, <2>4
  <2>5. \A s \in Slots : s < Len(sent) /\ ackWnd'[s] \in {"RECV_ACK", "IDLE"} => Has(s)'
    BY <1>2, <2>1, <2>4, Zenon DEF AckedHeld
  <2> QED
    BY <2>1, <2>3, <2>5, Zenon DEF AckedHeld
<1>6. CASE Listener
  <2>1. bufWnd' = bufWnd
    BY <1>6, Zenon DEF Listener, Hear
  <2> QED
    BY <1>2, <1>6, <2>1, ListenerAcked, Zenon
<1>7. CASE Ingress
  <2>1. bufWnd' = bufWnd
    BY <1>7, Zenon DEF Ingress, sendVars, mapVars
  <2> QED
    BY <1>2, <1>7, <2>1, IngressAcked, Zenon
<1>8. CASE ReceiverStart \/ Receive \/ PathStep \/ UNCHANGED vars
  <2>1. UNCHANGED <<sent, ackWnd, bufWnd>>
    BY <1>8, Zenon DEF ReceiverStart, Receive, PathStep, sendVars, mapVars, histVars, vars, linkVars
  <2>2. back' \subseteq back
    BY <1>8, Zenon DEF ReceiverStart, Receive, PathStep, PathNext, LosePacket, LoseAnswer, DamagePacket,
       pathVars, vars, linkVars
  <2> QED
    BY <1>2, <2>1, <2>2, SameAcked, Zenon
<1> QED
  BY <1>3, <1>4, <1>5, <1>6, <1>7, <1>8, Zenon DEF Next

-----------------------------------------------------------------------------
(* The current window: how many of its slots are filled, and the index of  *)
(* its first packet.                                                       *)
Filled == IF pc = "idle" THEN numSeq ELSE curWin + 1
Start == Len(sent) - Filled

(* BUF_WND_MAP and LEN_WND_MAP hold the packets of the current window. *)
SlotKept(s) ==
    /\ bufWnd[s].seq = s /\ bufWnd[s].pay = Start + s /\ Intact(bufWnd[s])
    /\ bufWnd[s].len \in Lens /\ lenWnd[s] = SaveLen(bufWnd[s].len)

WindowInv ==
    /\ Start \in Nat /\ Start % W = 0
    /\ pc # "idle" => numSeq = NextNum(curWin) /\ cursor = 0
    /\ pc = "scan" => i <= curWin + 1
    /\ \A s \in 0 .. Filled - 1 : SlotKept(s)

(* What is in flight belongs to the current window and is as it was sent,  *)
(* and nothing is refused.                                                 *)
FlightInv ==
    /\ txStarts > 0 => rxStarts > 0
    /\ \A m \in data : m.seq < Filled /\ Intact(m)
    /\ \A r \in back : r.seq < Filled /\ r.type = "ACK"

(* A packet the receiver has is acknowledged, or its ACK is on its way.  A *)
(* short packet that waits for its ACK is the last one of the window.      *)
SlotAcked(s) ==
    /\ ackWnd[s] # "RECV_NACK"
    /\ Has(s) => ackWnd[s] # "TIMEOUT" \/ \E r \in back : r.seq = s
    /\ ackWnd[s] = "TIMEOUT" /\ lenWnd[s] < OnWireSize =>
          pc # "idle" /\ s = curWin /\ lastLen = bufWnd[s].wire

AckInv ==
    /\ \A s \in 0 .. Filled - 1 : SlotAcked(s)
    /\ pc # "idle" /\ out => \A s \in 0 .. curWin : ackWnd[s] = "IDLE"

(* A packet the receiver does not have was lost each time it was sent, but *)
(* for a copy in flight; Resent(s) counts its retransmissions.             *)
Resent(s) == IF pc = "idle" THEN 0 ELSE IF pc = "scan" /\ s >= i THEN txNum - 1 ELSE txNum
InFlight(s) == \E m \in data : m.seq = s
LossInv ==
    \A s \in 0 .. Filled - 1 :
       ~Has(s) => faults > Resent(s) \/ (faults = Resent(s) /\ InFlight(s))

(* What the receiver got, with the first k packets of its ring. *)
GotWith(k) == Got(dbr) \union {rx[j].pay : j \in 1 .. k}

(* Each packet in the ring is new and comes after all the packets of the   *)
(* windows before its own; the receiver has all of these windows.          *)
OrderInv ==
    /\ DbrInOrder(dbr)
    /\ \A k \in 1 .. Len(rx) :
          /\ Intact(rx[k]) /\ rx[k].pay \notin GotWith(k - 1)
          /\ 0 .. rx[k].pay - rx[k].seq - 1 \subseteq GotWith(k - 1)
    /\ 0 .. Start - 1 \subseteq AcceptedPays

Good == SingleRun /\ faults < RetxMax /\ harmed = {} /\ ~passed /\ ~overrun
StreamBody == WindowInv /\ FlightInv /\ AckInv /\ LossInv /\ OrderInv
StreamInv == Good => StreamBody

(* The types the steps below compute with. *)
LEMMA StreamTypes ==
    ASSUME TypeOK, WindowInv
    PROVE  /\ pc \in {"idle", "timer", "scan"} /\ numSeq \in Nat /\ curWin \in Nat /\ i \in Nat
           /\ numSeq <= W - 1 /\ curWin <= W - 1
           /\ Len(sent) \in Nat /\ Filled \in Nat /\ Start \in Nat /\ Len(sent) = Start + Filled
           /\ txNum \in Nat /\ faults \in Nat /\ lastLen \in Nat /\ lenWnd \in [Slots -> Nat]
           /\ W \in Nat /\ RetxMax \in Nat
           /\ \A s \in 0 .. Filled - 1 : s \in Slots /\ s \in Nat /\ s < Filled /\ s < Len(sent)
           /\ \A s \in Slots : s \in Nat /\ (s < Filled => s \in 0 .. Filled - 1)
<1>1. /\ pc \in {"idle", "timer", "scan"} /\ numSeq \in Slots /\ curWin \in Slots /\ i \in Nat
      /\ Len(sent) \in Nat
  BY CountTypes, Zenon DEF TypeOK, LinkType, SenderType
<1>2. faults \in Nat /\ lastLen \in Nat /\ lenWnd \in [Slots -> Nat] /\ txNum \in 0 .. RetxMax + 1
  BY Zenon DEF TypeOK, LinkType, SenderType
<1>3. Start \in Nat
  BY Zenon DEF WindowInv
<1>4. /\ Filled \in Nat /\ Filled <= W /\ Len(sent) = Start + Filled
  <2>1. Filled \in Nat /\ Filled <= W
    BY <1>1, ConstantTypes DEF Filled, Slots
  <2> QED
    BY <1>1, <1>3, <2>1 DEF Start
<1>5. /\ \A s \in 0 .. Filled - 1 : s \in Slots /\ s \in Nat /\ s < Filled /\ s < Len(sent)
      /\ \A s \in Slots : s \in Nat /\ (s < Filled => s \in 0 .. Filled - 1)
  BY <1>1, <1>3, <1>4, ConstantTypes DEF Slots
<1>6. numSeq \in Nat /\ numSeq <= W - 1 /\ curWin \in Nat /\ curWin <= W - 1 /\ txNum \in Nat
  BY <1>1, <1>2, ConstantTypes DEF Slots
<1> QED
  BY <1>1, <1>2, <1>3, <1>4, <1>5, <1>6, ConstantTypes, Zenon

(* The receiver has what it got in order and what waits in its ring. *)
LEMMA AcceptedIsGot ==
    ASSUME TypeOK, DbrInOrder(dbr)
    PROVE  AcceptedPays = GotWith(Len(rx))
<1>1. Len(rx) \in Nat /\ Len(dbr.out) \in Nat
  BY CountTypes
<1>3. ASSUME NEW q
      PROVE  q \in AcceptedPays <=> \/ \E k \in 1 .. Len(rx) : q = rx[k].pay
                                    \/ \E s \in Slots : dbr.stored[s] /\ q = dbr.buff[s].pay
                                    \/ \E k \in 1 .. Len(dbr.out) : q = dbr.out[k].pay
  BY Zenon DEF AcceptedPays, Accepted
<1>4. ASSUME NEW q
      PROVE  (\E k \in 1 .. Len(dbr.out) : q = dbr.out[k].pay) <=> q \in 0 .. Len(dbr.out) - 1
  <2> DEFINE L == Len(dbr.out)
  <2>1. \A k \in 1 .. L : dbr.out[k].pay = k - 1
    BY Zenon DEF DbrInOrder
  <2> HIDE DEF L
  <2>2. \A k \in 1 .. L : k - 1 \in 0 .. L - 1
    BY <1>1 DEF L
  <2>3. q \in 0 .. L - 1 => q \in Nat /\ q + 1 \in 1 .. L
    BY <1>1 DEF L
  <2>4. (\E k \in 1 .. L : q = dbr.out[k].pay) <=> q \in 0 .. L - 1
    <3>1. ASSUME NEW k \in 1 .. L, q = dbr.out[k].pay PROVE q \in 0 .. L - 1
      BY <3>1, <2>1, <2>2, Zenon
    <3>2. ASSUME q \in 0 .. L - 1 PROVE \E k \in 1 .. L : q = dbr.out[k].pay
      <4> DEFINE k == q + 1
      <4>1. k \in 1 .. L /\ k - 1 = q
        BY <3>2, <2>3
      <4> HIDE DEF k
      <4> QED
        BY <4>1, <2>1, Zenon
    <3> QED
      BY <3>1, <3>2, Zenon
  <2> QED
    BY <2>4, Zenon DEF L
<1>5. ASSUME NEW q PROVE q \in AcceptedPays <=> q \in GotWith(Len(rx))
  <2>1. q \in Got(dbr) <=> \/ q \in 0 .. Len(dbr.out) - 1
                           \/ \E s \in Slots : dbr.stored[s] /\ q = dbr.buff[s].pay
    BY Zenon DEF Got
  <2>2. q \in GotWith(Len(rx)) <=> q \in Got(dbr) \/ \E k \in 1 .. Len(rx) : q = rx[k].pay
    BY Zenon DEF GotWith
  <2>3. q \in AcceptedPays <=> \/ \E k \in 1 .. Len(rx) : q = rx[k].pay
                               \/ \E s \in Slots : dbr.stored[s] /\ q = dbr.buff[s].pay
                               \/ \E k \in 1 .. Len(dbr.out) : q = dbr.out[k].pay
    BY <1>3, Zenon
  <2>4. (\E k \in 1 .. Len(dbr.out) : q = dbr.out[k].pay) <=> q \in 0 .. Len(dbr.out) - 1
    BY <1>4, Zenon
  <2> QED
    BY <2>1, <2>2, <2>3, <2>4, Zenon
<1> QED
  BY <1>5, Zenon

(* What is in flight is new to the receiver. *)
LEMMA FlightIsNew ==
    ASSUME TypeOK, OneInFlight, WindowInv, FlightInv, AckInv, NEW m \in data
    PROVE  /\ m.seq \in 0 .. Filled - 1 /\ m.pay = Start + m.seq /\ ~Has(m.seq)
           /\ m.pay \notin AcceptedPays
<1>1. m.seq \in Slots /\ m.seq < Filled
  BY CountTypes, Zenon DEF FlightInv
<1>2. m.seq \in 0 .. Filled - 1
  BY <1>1, StreamTypes, Zenon
<1>3. bufWnd[m.seq].pay = m.pay /\ ackWnd[m.seq] = "TIMEOUT" /\ \A r \in back : r.seq # m.seq
  BY Zenon DEF OneInFlight
<1>4. bufWnd[m.seq].pay = Start + m.seq
  BY <1>2, Zenon DEF WindowInv, SlotKept
<1>5. ~Has(m.seq)
  BY <1>2, <1>3, Zenon DEF AckInv, SlotAcked
<1> QED
  BY <1>2, <1>3, <1>4, <1>5, Zenon DEF Has

(* A step that leaves the receiver alone, and the windows before this one. *)
LEMMA SameOrder ==
    ASSUME OrderInv, rx' = rx, dbr' = dbr, Start' = Start
    PROVE  OrderInv' /\ AcceptedPays' = AcceptedPays
<1>1. AcceptedPays' = AcceptedPays /\ Got(dbr)' = Got(dbr)
  BY Zenon DEF AcceptedPays, Accepted, Got
<1>2. ASSUME NEW k PROVE GotWith(k)' = GotWith(k)
  BY <1>1, Zenon DEF GotWith
<1>3. DbrInOrder(dbr)'
  BY Zenon DEF OrderInv, DbrInOrder
<1>4. ASSUME NEW k \in 1 .. Len(rx)
      PROVE  /\ Intact(rx'[k]) /\ rx'[k].pay \notin GotWith(k - 1)'
             /\ 0 .. rx'[k].pay - rx'[k].seq - 1 \subseteq GotWith(k - 1)'
  BY <1>2, Zenon DEF OrderInv
<1> QED
  BY <1>1, <1>3, <1>4, Zenon DEF OrderInv

(* A packet is put in the next slot of the window and on the path. *)
LEMMA FillStream ==
    ASSUME TypeOK, SingleRun, Known, StreamBody, NEW len \in Lens, Egress(len)
    PROVE  StreamBody'
<1> DEFINE p == NewPacket(len)
<1>1. /\ pc = "idle" /\ txStarts' = txStarts /\ numSeq' = NextNum(numSeq) /\ data' = data \union {p}
      /\ bufWnd' = [bufWnd EXCEPT ![numSeq] = p] /\ ackWnd' = [ackWnd EXCEPT ![numSeq] = "TIMEOUT"]
      /\ lenWnd' = [lenWnd EXCEPT ![numSeq] = SaveLen(len)] /\ lastLen' = HdrLen + len
      /\ back' = back /\ faults' = faults /\ sent' = Append(sent, len) /\ curWin' = numSeq
      /\ cursor' = 0 /\ i' = 0 /\ txNum' = 0 /\ out' = FALSE
      /\ pc' = IF Flushes(len) THEN "timer" ELSE "idle"
      /\ rx' = rx /\ dbr' = dbr /\ rxStarts' = rxStarts
  BY Zenon DEF Egress, Fill, Armed, recvVars
<1>2. /\ numSeq \in Slots /\ bufWnd \in [Slots -> Packet] /\ ackWnd \in [Slots -> Event]
      /\ sent \in Seq(Lens) /\ lenWnd \in [Slots -> Nat] /\ Len(sent) \in Nat /\ numSeq \in Nat
      /\ Start \in Nat /\ Len(sent) = Start + Filled /\ faults \in Nat
      /\ \A s \in 0 .. Filled - 1 : s \in Slots
  BY CountTypes, StreamTypes, Zenon DEF StreamBody
<1>3. p.seq = numSeq /\ p.pay = Len(sent) /\ p.len = len /\ p.wire = HdrLen + len /\ Intact(p)
  BY Zenon DEF NewPacket, Intact
<1> HIDE DEF p
<1>0. PICK c \in Slots : c = numSeq
  BY <1>2, Zenon
<1>4. Filled = numSeq
  BY <1>1 DEF Filled
<1>5. Filled' = numSeq + 1
  <2>1. CASE Flushes(len)
    BY <2>1, <1>1 DEF Filled
  <2>2. CASE ~Flushes(len)
    <3>1. numSeq + 1 \in Slots
      BY <2>2, <1>2, ConstantTypes DEF Flushes, Slots
    <3>2. numSeq' = numSeq + 1 /\ pc' = "idle"
      BY <2>2, <3>1, <1>1, ModSlot, Zenon DEF NextNum
    <3> QED
      BY <3>2, Zenon DEF Filled
  <2> QED
    BY <2>1, <2>2, Zenon
<1>6. Len(sent') = Len(sent) + 1
  BY <1>1, <1>2
<1>7. Start' = Start
  BY <1>2, <1>4, <1>5, <1>6 DEF Start
<1>8. \A s \in 0 .. Filled - 1 : s \in Slots /\ s # numSeq
  BY <1>2, <1>4, ConstantTypes
<1>9. \A s \in 0 .. Filled' - 1 : s \in 0 .. Filled - 1 \/ s = c
  <2>1. numSeq \in Nat /\ Filled = numSeq /\ Filled' = numSeq + 1 /\ c = numSeq
    BY <1>0, <1>2, <1>4, <1>5, Zenon
  <2> HIDE DEF Filled
  <2> QED
    BY <2>1
<1>10. \A s \in 0 .. Filled - 1 :
         bufWnd'[s] = bufWnd[s] /\ ackWnd'[s] = ackWnd[s] /\ lenWnd'[s] = lenWnd[s]
  BY <1>1, <1>2, <1>8, Zenon
<1>11. /\ bufWnd'[c] = p /\ ackWnd'[c] = "TIMEOUT" /\ lenWnd'[c] = SaveLen(len)
       /\ curWin' = c /\ p.seq = c
  BY <1>0, <1>1, <1>2, <1>3, Zenon
<1>12. AcceptedPays' = AcceptedPays
  BY <1>1, <1>7, SameOrder, Zenon DEF StreamBody
<1>13. (\A s \in 0 .. Filled - 1 : Has(s)' <=> Has(s)) /\ ~Has(c)'
  <2>1. Len(sent) \notin AcceptedPays
    <3>1. \A m \in Accepted : m.pay < Len(sent)
      BY Zenon DEF Known
    <3>2. ~(Len(sent) < Len(sent))
      BY <1>2
    <3> QED
      BY <3>1, <3>2, Zenon DEF AcceptedPays
  <2>2. (\A s \in 0 .. Filled - 1 : Has(s)' <=> bufWnd'[s].pay \in AcceptedPays)
        /\ (Has(c)' <=> bufWnd'[c].pay \in AcceptedPays)
    BY <1>1, <1>12, Zenon DEF Has
  <2> QED
    BY <2>1, <2>2, <1>3, <1>10, <1>11, Zenon DEF Has
<1>14. WindowInv'
  <2>1. \A s \in 0 .. Filled - 1 : SlotKept(s)'
    BY <1>7, <1>10, Zenon DEF StreamBody, WindowInv, SlotKept
  <2>2. SlotKept(c)'
    <3>1. bufWnd'[c].pay = Start' + c
      BY <1>0, <1>2, <1>3, <1>4, <1>7, <1>11
    <3> QED
      BY <3>1, <1>1, <1>3, <1>11, Zenon DEF SlotKept
  <2>3. pc' # "scan"
    BY <1>1
  <2> QED
    BY <2>1, <2>2, <2>3, <1>1, <1>7, <1>9, Zenon DEF StreamBody, WindowInv
<1>15. FlightInv'
  <2>1. \A m \in data \union back : m.seq \in Slots /\ m.seq < Filled
    BY CountTypes, Zenon DEF StreamBody, FlightInv
  <2>2. numSeq < Filled' /\ \A s \in Slots : s < Filled => s < Filled'
    BY <1>2, <1>4, <1>5, ConstantTypes
  <2> QED
    BY <2>1, <2>2, <1>1, <1>3, Zenon DEF StreamBody, FlightInv
<1>16. AckInv'
  <2>1. ASSUME NEW s \in 0 .. Filled - 1 PROVE SlotAcked(s)'
    <3>1. SlotAcked(s)
      BY Zenon DEF StreamBody, AckInv
    <3> QED
      BY <3>1, <1>1, <1>10, <1>13, Zenon DEF SlotAcked
  <2>2. SlotAcked(c)'
    <3>1. lenWnd'[c] < OnWireSize => pc' = "timer"
      <4>1. SaveLen(len) < OnWireSize => Flushes(len)
        BY Zenon DEF Flushes
      <4> QED
        BY <4>1, <1>1, <1>11, Zenon
    <3>2. "TIMEOUT" # "RECV_NACK" /\ "timer" # "idle"
      OBVIOUS
    <3> QED
      BY <3>1, <3>2, <1>1, <1>3, <1>11, <1>13, Zenon DEF SlotAcked
  <2> QED
    BY <2>1, <2>2, <1>1, <1>9, Zenon DEF AckInv
<1>17. LossInv'
  <2>1. \A s : Resent(s) = 0 /\ Resent(s)' = 0
    <3>1. \A s : Resent(s)' = IF pc' = "idle" THEN 0 ELSE IF pc' = "scan" /\ s >= i' THEN txNum' - 1 ELSE txNum'
      BY Zenon DEF Resent
    <3>2. pc' # "scan"
      BY <1>1
    <3> QED
      BY <3>1, <3>2, <1>1, Zenon DEF Resent
  <2>2. ASSUME NEW s \in 0 .. Filled - 1, ~Has(s)'
        PROVE  faults' > Resent(s)' \/ (faults' = Resent(s)' /\ InFlight(s)')
    <3>1. faults > Resent(s) \/ (faults = Resent(s) /\ InFlight(s))
      BY <2>2, <1>13, Zenon DEF StreamBody, LossInv
    <3>2. InFlight(s) => InFlight(s)'
      BY <1>1, Zenon DEF InFlight
    <3> QED
      BY <3>1, <3>2, <2>1, <1>1, Zenon
  <2>3. InFlight(c)' /\ (faults' > 0 \/ faults' = 0)
    <3>1. InFlight(c)'
      BY <1>1, <1>11, Zenon DEF InFlight
    <3> QED
      BY <3>1, <1>1, <1>2
  <2> QED
    BY <2>1, <2>2, <2>3, <1>9, Zenon DEF LossInv
<1>18. OrderInv'
  BY <1>1, <1>7, SameOrder, Zenon DEF StreamBody
<1> QED
  BY <1>14, <1>15, <1>16, <1>17, <1>18, Zenon DEF StreamBody

(* The number after c: in the same window, or the first of the next one. *)
LEMMA NextWindow ==
    ASSUME NEW c \in Slots, NEW start \in Nat, start % W = 0
    PROVE  \/ c + 1 < W /\ NextNum(c) = c + 1
           \/ c = W - 1 /\ NextNum(c) = 0 /\ (start + W) % W = 0
<1>1. CASE c = W - 1
  <2>1. c + 1 = W /\ W \in Nat /\ 0 + W = W /\ W = W * 1 + 0
    BY <1>1, ConstantTypes
  <2>2. W % W = 0
    BY <2>1, ModUnique, ConstantTypes
  <2>3. ((start % W) + W) % W = (start + W) % W
    BY <2>1, ModAdd, Zenon
  <2> QED
    BY <1>1, <2>1, <2>2, <2>3, Zenon DEF NextNum
<1>2. CASE c # W - 1
  <2>1. c + 1 \in Slots /\ c + 1 < W
    BY <1>2, ConstantTypes DEF Slots
  <2> QED
    BY <2>1, ModSlot, Zenon DEF NextNum
<1> QED
  BY <1>1, <1>2, Zenon

(* A flush that ends, for whatever reason, with all its packets at the     *)
(* receiver and acknowledged leaves nothing of its window behind.          *)
LEMMA DoneStream ==
    ASSUME TypeOK, StreamBody, PathQuiet, pc # "idle", pc' = "idle",
           UNCHANGED <<numSeq, ackWnd, bufWnd, lenWnd, sent, data, back, faults, txStarts>>,
           UNCHANGED <<rx, dbr, rxStarts>>,
           \A s \in 0 .. curWin : Has(s) /\ ackWnd[s] # "TIMEOUT"
    PROVE  StreamBody'
<1>1. /\ curWin \in Slots /\ curWin \in Nat /\ Start \in Nat /\ Len(sent) \in Nat /\ Len(sent) = Start + Filled
      /\ W \in Nat /\ numSeq \in Nat
  BY CountTypes, StreamTypes, Zenon DEF StreamBody
<1>2. Filled = curWin + 1 /\ Filled' = numSeq /\ numSeq = NextNum(curWin) /\ Start % W = 0
  BY Zenon DEF StreamBody, WindowInv, Filled
<1>3. Start' = Len(sent) - Filled'
  BY Zenon DEF Start
<1> HIDE DEF Filled, Start
<1>4. \/ Filled' = Filled /\ Start' = Start
      \/ Filled' = 0 /\ Start' = Start + W /\ Filled = W /\ Start' % W = 0
  <2>1. \/ curWin + 1 < W /\ numSeq = curWin + 1
        \/ curWin = W - 1 /\ numSeq = 0 /\ (Start + W) % W = 0
    BY <1>1, <1>2, NextWindow, Zenon
  <2>2. CASE curWin + 1 < W /\ numSeq = curWin + 1
    BY <2>2, <1>1, <1>2, <1>3
  <2>3. CASE curWin = W - 1 /\ numSeq = 0 /\ (Start + W) % W = 0
    <3>1. Filled' = 0 /\ Start' = Start + W /\ Filled = W
      BY <2>3, <1>1, <1>2, <1>3
    <3> QED
      BY <3>1, <2>3, Zenon
  <2> QED
    BY <2>1, <2>2, <2>3, Zenon
<1>5. \A s \in 0 .. Filled' - 1 : s \in 0 .. Filled - 1 /\ Start' = Start /\ s \in 0 .. curWin
  BY <1>1, <1>2, <1>4
<1>6. AcceptedPays' = AcceptedPays
  BY Zenon DEF AcceptedPays, Accepted
<1>7. \A s : Has(s)' <=> Has(s)
  BY <1>6, Zenon DEF Has
<1>8. WindowInv'
  <2>1. \A s \in 0 .. Filled' - 1 : SlotKept(s)'
    BY <1>5, Zenon DEF StreamBody, WindowInv, SlotKept
  <2>2. Start' \in Nat /\ Start' % W = 0
    BY <1>1, <1>2, <1>4
  <2>3. pc' # "scan"
    OBVIOUS
  <2> QED
    BY <2>1, <2>2, <2>3, Zenon DEF WindowInv
<1>9. FlightInv'
  BY Zenon DEF StreamBody, FlightInv, PathQuiet
<1>10. AckInv'
  <2>1. ASSUME NEW s \in 0 .. Filled' - 1 PROVE SlotAcked(s)'
    <3>1. SlotAcked(s) /\ ackWnd[s] # "TIMEOUT"
      BY <1>5, Zenon DEF StreamBody, AckInv
    <3> QED
      BY <3>1, Zenon DEF SlotAcked
  <2> QED
    BY <2>1, Zenon DEF AckInv
<1>11. LossInv'
  BY <1>5, <1>7, Zenon DEF LossInv
<1>12. OrderInv'
  <2>1. CASE Start' = Start
    BY <2>1, SameOrder, Zenon DEF StreamBody
  <2>2. CASE Start' = Start + W /\ Filled = W
    <3>1. ASSUME NEW q \in 0 .. Start' - 1 PROVE q \in AcceptedPays
      <4>1. CASE q \in 0 .. Start - 1
        BY <4>1, Zenon DEF StreamBody, OrderInv
      <4>2. CASE q \notin 0 .. Start - 1
        <5> DEFINE s == q - Start
        <5>1. s \in 0 .. Filled - 1 /\ s \in 0 .. curWin /\ Start + s = q
          BY <4>2, <2>2, <1>1, <1>2
        <5> HIDE DEF s
        <5>2. bufWnd[s].pay = q
          BY <5>1, Zenon DEF StreamBody, WindowInv, SlotKept
        <5> QED
          BY <5>1, <5>2, Zenon DEF Has
      <4> QED
        BY <4>1, <4>2, Zenon
    <3>2. Got(dbr)' = Got(dbr) /\ DbrInOrder(dbr)'
      BY Zenon DEF StreamBody, OrderInv, Got, DbrInOrder
    <3>3. \A k : GotWith(k)' = GotWith(k)
      BY <3>2, Zenon DEF GotWith
    <3> QED
      BY <3>1, <3>2, <3>3, <1>6, Zenon DEF StreamBody, OrderInv
  <2> QED
    BY <2>1, <2>2, <1>4, Zenon
<1> QED
  BY <1>8, <1>9, <1>10, <1>11, <1>12, Zenon DEF StreamBody

(* What the steps within a flush leave alone. *)
LEMMA FlushFrame ==
    ASSUME StreamBody, pc # "idle", pc' # "idle",
           UNCHANGED <<numSeq, curWin, cursor, sent, bufWnd, lenWnd, rx, dbr>>,
           pc' = "scan" => i' <= curWin + 1
    PROVE  /\ WindowInv' /\ OrderInv' /\ Filled = curWin + 1 /\ Filled' = Filled /\ Start' = Start
           /\ \A s : Has(s)' <=> Has(s)
<1>1. Filled' = Filled /\ Filled = curWin + 1
  BY Zenon DEF Filled
<1>2. Start' = Start
  BY <1>1, Zenon DEF Start
<1>3. OrderInv' /\ AcceptedPays' = AcceptedPays
  BY <1>2, SameOrder, Zenon DEF StreamBody
<1>4. \A s \in 0 .. Filled' - 1 : SlotKept(s)'
  BY <1>1, <1>2, Zenon DEF StreamBody, WindowInv, SlotKept
<1>5. WindowInv'
  BY <1>2, <1>4, Zenon DEF StreamBody, WindowInv, NextNum
<1> QED
  BY <1>1, <1>2, <1>3, <1>5, Zenon DEF Has

(* The timer returns: one more round, or the flush gives up.  When it      *)
(* gives up, a packet still missing would have been lost more often than   *)
(* the path makes faults.                                                  *)
LEMMA TimerStream ==
    ASSUME Timely, TypeOK, StreamBody, faults < RetxMax, Timer
    PROVE  StreamBody'
<1>1. /\ pc = "timer" /\ PathQuiet /\ txNum' = txNum + 1
      /\ UNCHANGED <<numSeq, ackWnd, bufWnd, lenWnd, sent, data, back, faults, txStarts>>
      /\ UNCHANGED <<rx, dbr, rxStarts, curWin, cursor, lastLen, out>>
      /\ \/ txNum + 1 > RetxMax /\ pc' = "idle"
         \/ pc' = "scan" /\ i' = cursor
  BY Zenon DEF Timer, Wake, TimerMayFire, Rounds, RoundsOver, mapVars, pathVars, recvVars
<1>2. curWin \in Nat /\ txNum \in Nat /\ faults \in Nat /\ RetxMax \in Nat
  BY StreamTypes, Zenon DEF StreamBody
<1>3. CASE txNum + 1 > RetxMax /\ pc' = "idle"
  <2>1. ASSUME NEW s \in 0 .. curWin PROVE Has(s) /\ ackWnd[s] # "TIMEOUT"
    <3>1. s \in 0 .. Filled - 1
      BY <1>1, <1>2 DEF Filled
    <3>2. Resent(s) = txNum /\ ~InFlight(s) /\ back = {}
      BY <1>1 DEF Resent, InFlight, PathQuiet
    <3>3. ~Has(s) => faults > txNum
      BY <3>1, <3>2, Zenon DEF StreamBody, LossInv
    <3>4. Has(s)
      BY <3>3, <1>2, <1>3
    <3> QED
      BY <3>1, <3>2, <3>4, Zenon DEF StreamBody, AckInv, SlotAcked
  <2>2. pc # "idle"
    BY <1>1
  <2> QED
    BY <2>1, <2>2, <1>1, <1>3, DoneStream, Zenon
<1>4. CASE pc' = "scan" /\ i' = cursor
  <2>1. pc # "idle" /\ pc' # "idle" /\ i' = 0 /\ 0 <= curWin + 1
    BY <1>1, <1>2, <1>4 DEF StreamBody, WindowInv
  <2>2. /\ WindowInv' /\ OrderInv' /\ Filled' = Filled
        /\ \A s : Has(s)' <=> Has(s)
    BY <2>1, <1>1, FlushFrame, Zenon
  <2>3. FlightInv' /\ AckInv'
    BY <2>1, <2>2, <1>1, Zenon DEF StreamBody, FlightInv, AckInv, SlotAcked
  <2>4. \A s \in 0 .. Filled - 1 : s >= 0
    BY <1>1, <1>2 DEF Filled
  <2>5. \A s \in 0 .. Filled - 1 : Resent(s)' = Resent(s)
    <3>1. txNum' - 1 = txNum
      BY <1>1, <1>2
    <3>2. pc # "scan"
      BY <1>1
    <3> QED
      BY <3>1, <3>2, <2>1, <2>4, <1>4, Zenon DEF Resent
  <2>6. LossInv'
    BY <2>2, <2>5, <1>1, Zenon DEF StreamBody, LossInv, InFlight
  <2> QED
    BY <2>2, <2>3, <2>6, Zenon DEF StreamBody
<1> QED
  BY <1>1, <1>3, <1>4, Zenon

(* The flush ends with every slot counted. *)
LEMMA CountedStream ==
    ASSUME Timely, TypeOK, AckedHeld, StreamBody, AllCounted
    PROVE  StreamBody'
<1>1. /\ pc = "timer" /\ PathQuiet /\ out /\ pc' = "idle"
      /\ UNCHANGED <<numSeq, ackWnd, bufWnd, lenWnd, sent, data, back, faults, txStarts>>
      /\ UNCHANGED <<rx, dbr, rxStarts>>
  BY Zenon DEF AllCounted, Confirm, TimerMayFire, mapVars, pathVars, recvVars
<1>2. pc # "idle" /\ Filled = curWin + 1
  BY <1>1 DEF Filled
<1>3. ASSUME NEW s \in 0 .. curWin PROVE Has(s) /\ ackWnd[s] # "TIMEOUT"
  <2>1. ackWnd[s] = "IDLE"
    BY <1>1, <1>2, Zenon DEF StreamBody, AckInv
  <2>2. s \in 0 .. Filled - 1
    BY <1>2, CountTypes
  <2>3. s \in Slots /\ s < Len(sent)
    BY <2>2, StreamTypes, Zenon DEF StreamBody
  <2> QED
    BY <2>1, <2>3 DEF AckedHeld
<1> QED
  BY <1>1, <1>2, <1>3, DoneStream, Zenon

(* The scan sends a packet again, with the bytes it had: only the last one *)
(* of the window can be short.                                             *)
LEMMA ResendStream ==
    ASSUME TypeOK, OneInFlight, StreamBody, ScanResend
    PROVE  StreamBody'
<1>1. /\ pc = "scan" /\ pc' = pc /\ i <= curWin /\ ackWnd[i] = "TIMEOUT" /\ data' = data \union {Resend(i)}
      /\ i' = i + 1 /\ UNCHANGED <<back, faults, txNum, txStarts, ackWnd, lastLen, out, rxStarts>>
      /\ UNCHANGED <<numSeq, curWin, cursor, sent, bufWnd, lenWnd, rx, dbr>>
  BY Zenon DEF ScanResend, InWindow, mapVars, histVars, recvVars
<1>2. i \in Nat /\ curWin \in Nat /\ txNum \in Nat /\ faults \in Nat
  BY StreamTypes, Zenon DEF StreamBody
<1>3. PICK c \in 0 .. curWin : c = i
  BY <1>1, <1>2
<1>4. pc # "idle" /\ pc' # "idle" /\ i' <= curWin + 1 /\ c + 1 = i' /\ c \in Nat
  BY <1>1, <1>2, <1>3
<1>5. /\ WindowInv' /\ OrderInv' /\ Filled = curWin + 1 /\ Filled' = Filled
      /\ \A s : Has(s)' <=> Has(s)
  BY <1>1, <1>4, FlushFrame, Zenon
<1>6. c \in 0 .. Filled - 1 /\ c < Filled
  BY <1>2, <1>3, <1>5
<1>7. /\ SlotKept(c) /\ SlotAcked(c) /\ ackWnd[c] = "TIMEOUT"
      /\ c \in Slots /\ bufWnd[c] \in Packet /\ lenWnd[c] \in Nat
  BY <1>1, <1>3, <1>6, CountTypes, StreamTypes, Zenon DEF StreamBody, WindowInv, AckInv
<1>8. Resend(c).seq = c /\ Intact(Resend(c))
  <2>1. Resend(c) = [bufWnd[c] EXCEPT !.wire = IF lenWnd[c] < OnWireSize THEN lastLen ELSE OnWireSize]
    BY Zenon DEF Resend
  <2>2. bufWnd[c].seq = c /\ bufWnd[c].bad = "none" /\ bufWnd[c].wire = HdrLen + bufWnd[c].len
    BY <1>7, Zenon DEF SlotKept, Intact
  <2>3. (IF lenWnd[c] < OnWireSize THEN lastLen ELSE OnWireSize) = HdrLen + bufWnd[c].len
    <3>1. CASE lenWnd[c] < OnWireSize
      BY <3>1, <2>2, <1>7, Zenon DEF SlotAcked
    <3>2. CASE ~(lenWnd[c] < OnWireSize)
      <4>1. bufWnd[c].len = DataSize
        <5> DEFINE n == bufWnd[c].len
        <5>1. /\ n \in Lens /\ Lens \subseteq 1 .. DataSize
              /\ ~((IF n # DataSize THEN HdrLen + n ELSE HdrLen + DataSize) < HdrLen + DataSize)
          BY <3>2, <1>7, SenderAssumption, Zenon DEF SlotKept, SaveLen, OnWireSize
        <5> HIDE DEF n
        <5>2. n = DataSize
          BY <5>1, GeometryAssumption
        <5> QED
          BY <5>2, Zenon DEF n
      <4> QED
        BY <3>2, <4>1, Zenon DEF OnWireSize
    <3> QED
      BY <3>1, <3>2, Zenon
  <2> QED
    BY <2>1, <2>2, <2>3, <1>7, Zenon DEF Intact, Packet
<1>9. FlightInv'
  BY <1>1, <1>3, <1>5, <1>6, <1>8, Zenon DEF StreamBody, FlightInv
<1>10. AckInv'
  BY <1>1, <1>4, <1>5, Zenon DEF StreamBody, AckInv, SlotAcked
<1>11. ASSUME NEW s \in 0 .. Filled - 1, ~Has(s)
       PROVE  faults > Resent(s)' \/ (faults = Resent(s)' /\ InFlight(s)')
  <2>1. faults > Resent(s) \/ (faults = Resent(s) /\ InFlight(s))
    BY <1>11, Zenon DEF StreamBody, LossInv
  <2>2. s \in Nat /\ Resent(s) = (IF s >= i THEN txNum - 1 ELSE txNum)
        /\ Resent(s)' = (IF s >= i + 1 THEN txNum - 1 ELSE txNum)
    BY <1>1, <1>2, <1>5 DEF Resent
  <2>3. CASE s = c
    <3>1. ~InFlight(s)
      <4>1. \A m \in data : m.seq \in Slots /\ m.seq < i
        BY <1>1, CountTypes, Zenon DEF OneInFlight
      <4>2. ~(c < i)
        BY <1>2, <1>3
      <4> QED
        BY <4>1, <4>2, <2>3, Zenon DEF InFlight
    <3>2. InFlight(s)'
      BY <2>3, <1>1, <1>3, <1>8, Zenon DEF InFlight
    <3>3. faults > Resent(s)
      BY <2>1, <3>1, Zenon
    <3>4. Resent(s) = txNum - 1 /\ Resent(s)' = txNum
      BY <2>2, <2>3, <1>2, <1>3
    <3>5. faults > txNum \/ faults = txNum
      BY <3>3, <3>4, <1>2
    <3> QED
      BY <3>2, <3>4, <3>5, Zenon
  <2>4. CASE s # c
    <3>1. Resent(s)' = Resent(s)
      BY <2>2, <2>4, <1>2, <1>3
    <3>2. InFlight(s) => InFlight(s)'
      BY <1>1, Zenon DEF InFlight
    <3> QED
      BY <2>1, <3>1, <3>2, Zenon
  <2> QED
    BY <2>3, <2>4, Zenon
<1>12. LossInv'
  BY <1>1, <1>5, <1>11, Zenon DEF LossInv
<1> QED
  BY <1>5, <1>9, <1>10, <1>12, Zenon DEF StreamBody

(* The scan is over. *)
LEMMA ScanEndStream == ASSUME TypeOK, StreamBody, ScanEnd PROVE StreamBody'
<1>1. /\ pc = "scan" /\ pc' = "timer" /\ ~(i <= curWin)
      /\ UNCHANGED <<data, back, faults, txNum, txStarts, ackWnd, lastLen, out, rxStarts>>
      /\ UNCHANGED <<numSeq, curWin, cursor, sent, bufWnd, lenWnd, rx, dbr>>
  BY Zenon DEF ScanEnd, InWindow, mapVars, histVars, recvVars, pathVars
<1>2. i \in Nat /\ curWin \in Nat /\ pc # "idle" /\ pc' # "idle" /\ pc' # "scan"
  BY <1>1, CountTypes
<1>3. /\ WindowInv' /\ OrderInv' /\ Filled = curWin + 1 /\ Filled' = Filled
      /\ \A s : Has(s)' <=> Has(s)
  BY <1>1, <1>2, FlushFrame, Zenon
<1>4. FlightInv' /\ AckInv'
  BY <1>1, <1>2, <1>3, Zenon DEF StreamBody, FlightInv, AckInv, SlotAcked
<1>5. \A s \in 0 .. Filled - 1 : ~(s >= i)
  BY <1>1, <1>2, <1>3
<1>6. \A s \in 0 .. Filled - 1 : Resent(s)' = Resent(s)
  BY <1>1, <1>2, <1>5, Zenon DEF Resent
<1>7. LossInv'
  BY <1>1, <1>3, <1>6, Zenon DEF StreamBody, LossInv, InFlight
<1> QED
  BY <1>3, <1>4, <1>7, Zenon DEF StreamBody

(* The listener finds the ACK that the slot waits for. *)
LEMMA ListenerStream ==
    ASSUME ~Duplicates, TypeOK, OneInFlight, StreamBody, Listener
    PROVE  StreamBody'
<1>1. PICK r \in back :
        /\ back' = back \ {r}
        /\ ackWnd' = [ackWnd EXCEPT ![r.seq] = IF r.type = "NACK" THEN "RECV_NACK" ELSE "RECV_ACK"]
        /\ UNCHANGED <<data, faults, numSeq, bufWnd, lenWnd, txStarts, rx, dbr, rxStarts, out>>
        /\ UNCHANGED <<pc, cursor, i, curWin, lastLen, txNum, sent>>
  BY Zenon DEF Listener, Hear, Take, callVars, histVars, recvVars
<1>2. /\ r.seq \in Slots /\ r.seq < Filled /\ r.type = "ACK" /\ ackWnd[r.seq] = "TIMEOUT"
      /\ ackWnd \in [Slots -> Event]
  BY CountTypes, Zenon DEF StreamBody, FlightInv, OneInFlight
<1>3. "ACK" # "NACK" /\ "RECV_ACK" \notin {"TIMEOUT", "RECV_NACK"} /\ "TIMEOUT" # "IDLE"
  OBVIOUS
<1>4. ackWnd'[r.seq] = "RECV_ACK" /\ \A s \in Slots : s # r.seq => ackWnd'[s] = ackWnd[s]
  BY <1>1, <1>2, <1>3, Zenon
<1>5. Filled' = Filled /\ Start' = Start
  BY <1>1, Zenon DEF Filled, Start
<1>6. OrderInv' /\ AcceptedPays' = AcceptedPays
  BY <1>1, <1>5, SameOrder, Zenon DEF StreamBody
<1>7. \A s : Has(s)' <=> Has(s)
  BY <1>1, <1>6, Zenon DEF Has
<1>8. WindowInv'
  BY <1>1, <1>5, Zenon DEF StreamBody, WindowInv, SlotKept, NextNum
<1>9. FlightInv'
  BY <1>1, <1>5, Zenon DEF StreamBody, FlightInv
<1>10. ASSUME NEW s \in 0 .. Filled - 1 PROVE SlotAcked(s)'
  <2>1. s \in Slots /\ SlotAcked(s)
    BY StreamTypes, Zenon DEF StreamBody, AckInv
  <2>2. CASE s = r.seq
    BY <2>2, <1>3, <1>4, Zenon DEF SlotAcked
  <2>3. CASE s # r.seq
    <3>1. ackWnd'[s] = ackWnd[s] /\ ((\E q \in back : q.seq = s) => \E q \in back' : q.seq = s)
      BY <2>1, <2>3, <1>1, <1>4, Zenon
    <3> QED
      BY <3>1, <2>1, <1>1, <1>7, Zenon DEF SlotAcked
  <2> QED
    BY <2>2, <2>3, Zenon
<1>11. ASSUME pc # "idle", out PROVE FALSE
  <2>1. r.seq \in 0 .. curWin
    BY <1>2, <1>11, CountTypes, ConstantTypes DEF Filled
  <2> QED
    BY <2>1, <1>2, <1>3, <1>11, Zenon DEF StreamBody, AckInv
<1>12. AckInv'
  BY <1>1, <1>5, <1>10, <1>11, Zenon DEF AckInv
<1>13. LossInv'
  BY <1>1, <1>5, <1>7, Zenon DEF StreamBody, LossInv, InFlight, Resent
<1> QED
  BY <1>6, <1>8, <1>9, <1>12, <1>13, Zenon DEF StreamBody

(* A packet comes into the ring: it is new and its window is the current   *)
(* one.                                                                    *)
LEMMA AppendOrder ==
    ASSUME TypeOK, OrderInv, NEW m \in Packet, rx' = Append(rx, m), dbr' = dbr, Start' = Start,
           Intact(m), m.pay \notin AcceptedPays, m.pay - m.seq = Start
    PROVE  OrderInv' /\ AcceptedPays' = AcceptedPays \union {m.pay}
<1>0. rx \in Seq(Packet)
  BY CountTypes, Zenon
<1>1. PICK L \in Nat : L = Len(rx)
  BY <1>0
<1>2. PICK n \in Nat : n = L + 1
  BY <1>1
<1>a. Len(rx') = n /\ rx'[n] = m /\ \A k \in 1 .. L : rx'[k] = rx[k]
  BY <1>0, <1>1, <1>2
<1>3. /\ \A k \in 1 .. n : k \in 1 .. L \/ k = n
      /\ n \in 1 .. n /\ n - 1 = L /\ \A k \in 1 .. L : k \in 1 .. n
  BY <1>1, <1>2
<1>4. Got(dbr)' = Got(dbr) /\ DbrInOrder(dbr)' /\ DbrInOrder(dbr)
  BY Zenon DEF OrderInv, DbrInOrder, Got
<1>5. ASSUME NEW k, \A j \in 1 .. k : j \in 1 .. L PROVE GotWith(k)' = GotWith(k)
  <2>1. \A j \in 1 .. k : rx'[j] = rx[j]
    BY <1>a, <1>5, Zenon
  <2> QED
    BY <1>4, <2>1, Zenon DEF GotWith
<1>6. AcceptedPays = GotWith(L)
  BY <1>4, AcceptedIsGot, <1>1, Zenon
<1>7. GotWith(L)' = GotWith(L)
  BY <1>5, Zenon
<1>8. ASSUME NEW q PROVE q \in AcceptedPays' <=> q \in AcceptedPays \union {m.pay}
  <2>1. q \in AcceptedPays <=> \/ \E k \in 1 .. L : q = rx[k].pay
                               \/ \E s \in Slots : dbr.stored[s] /\ q = dbr.buff[s].pay
                               \/ \E k \in 1 .. Len(dbr.out) : q = dbr.out[k].pay
    BY <1>1, Zenon DEF AcceptedPays, Accepted
  <2>2. q \in AcceptedPays' <=> \/ \E k \in 1 .. Len(rx') : q = rx'[k].pay
                                \/ \E s \in Slots : dbr'.stored[s] /\ q = dbr'.buff[s].pay
                                \/ \E k \in 1 .. Len(dbr'.out) : q = dbr'.out[k].pay
    BY Zenon DEF AcceptedPays, Accepted
  <2>4. q \in AcceptedPays' <=> \/ \E k \in 1 .. n : q = rx'[k].pay
                                \/ \E s \in Slots : dbr.stored[s] /\ q = dbr.buff[s].pay
                                \/ \E k \in 1 .. Len(dbr.out) : q = dbr.out[k].pay
    BY <1>a, <2>2, Zenon
  <2>3. (\E k \in 1 .. n : q = rx'[k].pay) <=> (\E k \in 1 .. L : q = rx[k].pay) \/ q = m.pay
    BY <1>a, <1>3, Zenon
  <2> QED
    BY <2>1, <2>3, <2>4, Zenon
<1>9. AcceptedPays' = AcceptedPays \union {m.pay}
  BY <1>8, Zenon
<1>10. ASSUME NEW k \in 1 .. n
       PROVE  /\ Intact(rx'[k]) /\ rx'[k].pay \notin GotWith(k - 1)'
              /\ 0 .. rx'[k].pay - rx'[k].seq - 1 \subseteq GotWith(k - 1)'
  <2>1. CASE k \in 1 .. L
    <3> DEFINE j == k - 1
    <3>1. \A t \in 1 .. j : t \in 1 .. L
      BY <2>1, <1>1
    <3>2. /\ Intact(rx[k]) /\ rx[k].pay \notin GotWith(j)
          /\ 0 .. rx[k].pay - rx[k].seq - 1 \subseteq GotWith(j)
      BY <2>1, <1>1, Zenon DEF OrderInv
    <3>3. rx'[k] = rx[k]
      BY <2>1, <1>a, Zenon
    <3> HIDE DEF j
    <3>4. GotWith(j)' = GotWith(j)
      BY <3>1, <1>5, Zenon
    <3> QED
      BY <3>2, <3>3, <3>4, Zenon DEF j
  <2>2. CASE k = n
    <3>1. rx'[k] = m /\ k - 1 = L
      BY <2>2, <1>a, <1>3, Zenon
    <3>2. m.pay \notin GotWith(L)' /\ 0 .. Start - 1 \subseteq GotWith(L)'
      BY <1>6, <1>7, Zenon DEF OrderInv
    <3> QED
      BY <3>1, <3>2, Zenon
  <2> QED
    BY <2>1, <2>2, <1>3, Zenon
<1> QED
  BY <1>4, <1>9, <1>10, <1>a, Zenon DEF OrderInv

(* A packet arrives: it is redirected and acknowledged. *)
LEMMA IngressStream ==
    ASSUME ~Duplicates, TypeOK, OneInFlight, StreamBody, Ingress, ~passed', ~overrun'
    PROVE  StreamBody'
<1>1. PICK m \in data :
        /\ data' = data \ {m} /\ (faults' = faults \/ faults' = faults + 1)
        /\ IngressAccept(m) \/ IngressNack(m) \/ IngressPass(m)
        /\ UNCHANGED <<numSeq, bufWnd, lenWnd, ackWnd, txStarts, out, pc, cursor, i, curWin,
                       lastLen, txNum, sent>>
  BY Zenon DEF Ingress, Arrive, Take, sendVars, mapVars, callVars, histVars
<1>2. m \in Packet /\ m.seq \in Slots /\ Intact(m) /\ m.bad = "none" /\ m.seq < Filled
  BY CountTypes, Zenon DEF StreamBody, FlightInv, Intact
<1>3. rxStarts > 0
  <2>1. txStarts # 0
    BY Zenon DEF OneInFlight, PathQuiet
  <2>2. txStarts > 0
    BY <2>1, CountTypes
  <2> QED
    BY <2>2, Zenon DEF StreamBody, FlightInv
<1>4. Acceptable(m)
  BY <1>2, <1>3 DEF Acceptable, CsumMatches
<1>5. Redirect(m)
  BY <1>1, <1>4, Zenon DEF IngressAccept, IngressNack, IngressPass, Ignore
<1> DEFINE a == AnswerTo(m, "ACK")
<1>6. /\ rx' = Append(rx, m) /\ back' = back \union {a} /\ UNCHANGED <<dbr, rxStarts>>
  BY <1>5, Zenon DEF Redirect
<1>7. a.seq = m.seq /\ a.type = "ACK"
  BY Zenon DEF AnswerTo
<1> HIDE DEF a
<1>8. m.seq \in 0 .. Filled - 1 /\ m.pay = Start + m.seq /\ ~Has(m.seq) /\ m.pay \notin AcceptedPays
  BY FlightIsNew, Zenon DEF StreamBody
<1>9. m.pay - m.seq = Start /\ Start \in Nat /\ faults \in Nat /\ faults' >= faults /\ faults' \in Nat
  <2>1. Start \in Nat /\ faults \in Nat /\ m.seq \in Nat
    BY <1>8, StreamTypes, Zenon DEF StreamBody
  <2> QED
    BY <2>1, <1>1, <1>8
<1>10. Filled' = Filled /\ Start' = Start
  BY <1>1, Zenon DEF Filled, Start
<1>11. OrderInv' /\ AcceptedPays' = AcceptedPays \union {m.pay}
  BY <1>2, <1>6, <1>8, <1>9, <1>10, AppendOrder, Zenon DEF StreamBody
<1>12. \A s \in 0 .. Filled - 1 :
          (Has(s) => Has(s)') /\ (Has(s)' => Has(s) \/ bufWnd[s].pay = m.pay)
  BY <1>1, <1>11, Zenon DEF Has
<1>13. \A s \in 0 .. Filled - 1 : bufWnd[s].pay = m.pay <=> s = m.seq
  <2>1. \A s \in 0 .. Filled - 1 : bufWnd[s].pay = Start + s /\ s \in Nat
    BY StreamTypes, Zenon DEF StreamBody, WindowInv, SlotKept
  <2>2. \A s \in 0 .. Filled - 1 : Start + s = Start + m.seq <=> s = m.seq
    BY <2>1, <1>8, <1>9
  <2> QED
    BY <2>1, <2>2, <1>8, Zenon
<1>14. WindowInv'
  BY <1>1, <1>10, Zenon DEF StreamBody, WindowInv, SlotKept, NextNum
<1>15. FlightInv'
  BY <1>1, <1>2, <1>6, <1>7, <1>10, Zenon DEF StreamBody, FlightInv
<1>16. ASSUME NEW s \in 0 .. Filled - 1 PROVE SlotAcked(s)'
  <2>1. SlotAcked(s)
    BY Zenon DEF StreamBody, AckInv
  <2>2. Has(s)' => ackWnd[s] # "TIMEOUT" \/ \E r \in back' : r.seq = s
    BY <2>1, <1>6, <1>7, <1>12, <1>13, Zenon DEF SlotAcked
  <2> QED
    BY <2>1, <2>2, <1>1, Zenon DEF SlotAcked
<1>17. AckInv'
  BY <1>1, <1>10, <1>16, Zenon DEF StreamBody, AckInv
<1>18. ASSUME NEW s \in 0 .. Filled - 1, ~Has(s)'
       PROVE  faults' > Resent(s)' \/ (faults' = Resent(s)' /\ InFlight(s)')
  <2>1. ~Has(s) /\ s # m.seq /\ Resent(s)' = Resent(s)
    <3>1. ~Has(s) /\ Resent(s)' = Resent(s)
      BY <1>1, <1>12, <1>18, Zenon DEF Resent
    <3>2. ASSUME s = m.seq PROVE FALSE
      <4>1. bufWnd[s].pay = m.pay
        BY <3>2, <1>13, Zenon
      <4> QED
        BY <4>1, <1>1, <1>11, <1>18, Zenon DEF Has
    <3> QED
      BY <3>1, <3>2, Zenon
  <2>2. InFlight(s) => InFlight(s)'
    BY <1>1, <2>1, Zenon DEF InFlight
  <2>3. faults > Resent(s) \/ (faults = Resent(s) /\ InFlight(s))
    BY <2>1, Zenon DEF StreamBody, LossInv
  <2>4. Resent(s) \in Int
    BY StreamTypes DEF StreamBody, Resent
  <2>5. faults' > Resent(s) \/ (faults' = Resent(s) /\ faults = Resent(s))
    BY <2>3, <2>4, <1>9
  <2>6. ~(faults > Resent(s) /\ faults = Resent(s))
    BY <2>4, <1>9
  <2> QED
    BY <2>1, <2>2, <2>3, <2>5, <2>6, Zenon
<1>19. LossInv'
  BY <1>10, <1>18, Zenon DEF LossInv
<1> QED
  BY <1>11, <1>14, <1>15, <1>17, <1>19, Zenon DEF StreamBody

(* The application reads the head of the ring: the receiver has what it    *)
(* had.                                                                    *)
LEMMA ReceiveOrder ==
    ASSUME TypeOK, TypeOK', Congruent, SingleRun, NextIsMissing, OrderInv, Receive, Start' = Start
    PROVE  OrderInv' /\ AcceptedPays' = AcceptedPays
<1>0. rx \in Seq(Packet) /\ dbr \in DbrType
  BY CountTypes, Zenon
<1>1. /\ Len(rx) \in Nat /\ 1 \in 1 .. Len(rx) /\ rx[1] \in Packet /\ Len(rx') = Len(rx) - 1
      /\ \A k \in 1 .. Len(rx') : k + 1 \in 1 .. Len(rx) /\ rx'[k] = rx[k + 1]
      /\ \A k \in 1 .. Len(rx) : k = 1 \/ (k - 1 \in 1 .. Len(rx') /\ rx'[k - 1] = rx[k])
  BY HeadOfRing, Zenon DEF TypeOK
<1>2. PICK d, p : d = dbr /\ p = rx[1]
  BY Zenon
<1>3. dbr' = ProcessPacket(d, p)
  <2>1. dbr' = ProcessPacket(dbr, Head(rx))
    BY Zenon DEF Receive, Process
  <2>2. Head(rx) = rx[1]
    BY <1>0
  <2> QED
    BY <2>1, <2>2, <1>2, Zenon
<1>4. /\ d \in DbrType /\ p \in Packet /\ DbrCongruent(d) /\ ~d.stored[d.next]
      /\ p.pay % W = p.seq
  BY <1>0, <1>1, <1>2, Zenon DEF Congruent, NextIsMissing
<1>5. GotWith(0) = Got(d)
  <2>1. 1 .. 0 = {}
    OBVIOUS
  <2> QED
    BY <2>1, <1>2, Zenon DEF GotWith
<1>6. /\ DbrInOrder(d) /\ Intact(p) /\ p.pay \notin Got(d) /\ 0 .. p.pay - p.seq - 1 \subseteq Got(d)
  <2>1. 1 - 1 = 0
    OBVIOUS
  <2>2. /\ Intact(rx[1]) /\ rx[1].pay \notin GotWith(1 - 1)
        /\ 0 .. rx[1].pay - rx[1].seq - 1 \subseteq GotWith(1 - 1)
    BY <1>1, Zenon DEF OrderInv
  <2>3. GotWith(1 - 1) = Got(d)
    BY <2>1, <1>5, Zenon
  <2> QED
    BY <2>2, <2>3, <1>2, Zenon DEF OrderInv
<1>7. DbrInOrder(dbr') /\ Got(dbr') = Got(d) \union {p.pay}
  BY <1>3, <1>4, <1>6, ProcessInOrder, Zenon
<1>8. DbrInOrder(dbr)' /\ Got(dbr)' = Got(dbr) \union {rx[1].pay}
  BY <1>2, <1>7, Zenon DEF DbrInOrder, Got
<1>9. ASSUME NEW k \in 0 .. Len(rx) - 1, NEW n, n = k + 1 PROVE GotWith(k)' = GotWith(n)
  <2>1. ASSUME NEW q PROVE (\E j \in 1 .. n : q = rx[j].pay)
                            <=> q = rx[1].pay \/ (\E j \in 1 .. k : q = rx'[j].pay)
    <3>1. /\ 1 \in 1 .. n
          /\ \A j \in 1 .. n : j \in 1 .. Len(rx) /\ (j = 1 \/ j - 1 \in 1 .. k)
          /\ \A j \in 1 .. k : j + 1 \in 1 .. n /\ j \in 1 .. Len(rx')
      BY <1>1, <1>9
    <3>2. ASSUME NEW j \in 1 .. n, q = rx[j].pay
          PROVE  q = rx[1].pay \/ (\E l \in 1 .. k : q = rx'[l].pay)
      BY <3>1, <3>2, <1>1, Zenon
    <3>3. ASSUME NEW j \in 1 .. k, q = rx'[j].pay PROVE \E l \in 1 .. n : q = rx[l].pay
      BY <3>1, <3>3, <1>1, Zenon
    <3> QED
      BY <3>1, <3>2, <3>3, Zenon
  <2>2. ASSUME NEW q PROVE q \in GotWith(k)' <=> q \in GotWith(n)
    <3>1. q \in GotWith(k)' <=> q \in Got(dbr)' \/ \E j \in 1 .. k : q = rx'[j].pay
      BY Zenon DEF GotWith
    <3>2. q \in GotWith(n) <=> q \in Got(dbr) \/ \E j \in 1 .. n : q = rx[j].pay
      BY Zenon DEF GotWith
    <3>3. q \in Got(dbr)' <=> q \in Got(dbr) \/ q = rx[1].pay
      BY <1>8, Zenon
    <3> QED
      BY <3>1, <3>2, <3>3, <2>1, Zenon
  <2> QED
    BY <2>2, Zenon
<1>10. ASSUME NEW k \in 1 .. Len(rx')
       PROVE  /\ Intact(rx'[k]) /\ rx'[k].pay \notin GotWith(k - 1)'
              /\ 0 .. rx'[k].pay - rx'[k].seq - 1 \subseteq GotWith(k - 1)'
  <2> DEFINE n == k + 1
             j == k - 1
  <2>1. j \in 0 .. Len(rx) - 1 /\ k = j + 1 /\ n - 1 = k
    BY <1>1, <1>10
  <2>2. n \in 1 .. Len(rx) /\ rx'[k] = rx[n]
    BY <1>1, Zenon
  <2> HIDE DEF n, j
  <2>3. GotWith(j)' = GotWith(k)
    BY <2>1, <1>9, Zenon
  <2>4. /\ Intact(rx[n]) /\ rx[n].pay \notin GotWith(n - 1)
        /\ 0 .. rx[n].pay - rx[n].seq - 1 \subseteq GotWith(n - 1)
    BY <2>2, Zenon DEF OrderInv
  <2> QED
    BY <2>1, <2>2, <2>3, <2>4, Zenon DEF j
<1>11. AcceptedPays' = AcceptedPays
  <2>1. PICK L : L = Len(rx')
    BY Zenon
  <2>2. L \in 0 .. Len(rx) - 1 /\ Len(rx) = L + 1
    BY <2>1, <1>1
  <2>3. GotWith(L)' = GotWith(Len(rx))
    BY <2>2, <1>9, Zenon
  <2>4. AcceptedPays = GotWith(Len(rx))
    BY AcceptedIsGot, Zenon DEF OrderInv
  <2>5. (TypeOK /\ DbrInOrder(dbr) => AcceptedPays = GotWith(Len(rx)))'
    BY AcceptedIsGot, PTL
  <2>6. GotWith(Len(rx))' = GotWith(L)'
    BY <2>1, Zenon DEF GotWith
  <2> QED
    BY <2>3, <2>4, <2>5, <2>6, <1>8, Zenon
<1> QED
  BY <1>8, <1>10, <1>11, Zenon DEF OrderInv

(* A step that leaves the path and the sender alone, and what the receiver *)
(* has.                                                                    *)
LEMMA SameStream ==
    ASSUME StreamBody, OrderInv', AcceptedPays' = AcceptedPays, txStarts > 0 => rxStarts' > 0,
           UNCHANGED <<data, back, faults, numSeq, bufWnd, lenWnd, ackWnd, txStarts>>,
           UNCHANGED <<out, pc, cursor, i, curWin, lastLen, txNum, sent>>
    PROVE  StreamBody'
<1>1. Filled' = Filled /\ Start' = Start
  BY Zenon DEF Filled, Start
<1>2. \A s : Has(s)' <=> Has(s)
  BY Zenon DEF Has
<1>3. WindowInv'
  BY <1>1, Zenon DEF StreamBody, WindowInv, SlotKept, NextNum
<1>4. FlightInv'
  BY <1>1, Zenon DEF StreamBody, FlightInv
<1>5. ASSUME NEW s \in 0 .. Filled - 1 PROVE SlotAcked(s)'
  <2>1. SlotAcked(s)
    BY Zenon DEF StreamBody, AckInv
  <2> QED
    BY <2>1, <1>2, Zenon DEF SlotAcked
<1>6. AckInv'
  <2>1. out' => out
    BY SMT
  <2> QED
    BY <2>1, <1>1, <1>5, Zenon DEF StreamBody, AckInv
<1>7. LossInv'
  BY <1>1, <1>2, Zenon DEF StreamBody, LossInv, InFlight, Resent
<1> QED
  BY <1>3, <1>4, <1>6, <1>7, Zenon DEF StreamBody

(* The application takes packets from the ring. *)
LEMMA ReceiveStream ==
    ASSUME TypeOK, TypeOK', Congruent, SingleRun, NextIsMissing, StreamBody, Receive,
           UNCHANGED <<acked, out>>
    PROVE  StreamBody'
<1>1. /\ UNCHANGED <<data, back, faults, numSeq, bufWnd, lenWnd, ackWnd, txStarts, rxStarts>>
      /\ UNCHANGED <<out, pc, cursor, i, curWin, lastLen, txNum, sent>>
  BY Zenon DEF Receive, Process, pathVars, sendVars, mapVars, callVars, histVars
<1>2. Start' = Start
  BY <1>1, Zenon DEF Start, Filled
<1>3. OrderInv' /\ AcceptedPays' = AcceptedPays
  BY <1>2, ReceiveOrder, Zenon DEF StreamBody
<1> QED
  BY <1>1, <1>3, SameStream, Zenon DEF StreamBody, FlightInv

(* A packet is lost. *)
LEMMA LossStream ==
    ASSUME harmed' = {}, TypeOK, StreamBody, PathStep, UNCHANGED <<acked, out>>
    PROVE  StreamBody'
<1>0. LosePacket
  <2>1. LoseAnswer => "answer" \in harmed'
    BY Zenon DEF LoseAnswer
  <2>2. DamagePacket => \E h \in Harm : h \in harmed'
    BY Zenon DEF DamagePacket
  <2> QED
    BY <2>1, <2>2, Zenon DEF PathStep, PathNext
<1>1. /\ faults' = faults + 1 /\ back' = back
      /\ UNCHANGED <<numSeq, bufWnd, lenWnd, ackWnd, txStarts, out, pc, cursor, i,
                     curWin, lastLen, txNum, sent, rx, dbr, rxStarts>>
  BY <1>0, Zenon DEF PathStep, LosePacket, sendVars, mapVars, callVars, histVars, recvVars
<1>2. data' \subseteq data
  BY <1>0, Zenon DEF LosePacket
<1>3. Filled' = Filled /\ Start' = Start
  BY <1>1, Zenon DEF Filled, Start
<1>4. OrderInv' /\ AcceptedPays' = AcceptedPays
  BY <1>1, <1>3, SameOrder, Zenon DEF StreamBody
<1>5. \A s : Has(s)' <=> Has(s)
  BY <1>1, <1>4, Zenon DEF Has
<1>6. WindowInv'
  BY <1>1, <1>3, Zenon DEF StreamBody, WindowInv, SlotKept, NextNum
<1>10. FlightInv'
  BY <1>1, <1>2, <1>3, Zenon DEF StreamBody, FlightInv
<1>11. ASSUME NEW s \in 0 .. Filled - 1 PROVE SlotAcked(s)'
  <2>1. SlotAcked(s)
    BY Zenon DEF StreamBody, AckInv
  <2> QED
    BY <2>1, <1>1, <1>5, Zenon DEF SlotAcked
<1>12. pc' = pc /\ out' = out /\ curWin' = curWin /\ ackWnd' = ackWnd
  BY <1>1, Zenon
<1>7. AckInv'
  <2>1. out' => out
    BY <1>12, SMT
  <2> QED
    BY <2>1, <1>3, <1>11, <1>12, Zenon DEF StreamBody, AckInv
<1>8. ASSUME NEW s \in 0 .. Filled - 1, ~Has(s)' PROVE faults' > Resent(s)'
  <2>1. Resent(s)' = Resent(s) /\ (faults > Resent(s) \/ faults = Resent(s))
    BY <1>1, <1>5, <1>8, Zenon DEF StreamBody, LossInv, Resent
  <2>2. Resent(s) \in Int /\ faults \in Nat
    BY StreamTypes DEF StreamBody, Resent
  <2> QED
    BY <2>1, <2>2, <1>1
<1>9. LossInv'
  BY <1>3, <1>8, Zenon DEF LossInv
<1> QED
  BY <1>4, <1>6, <1>7, <1>9, <1>10, Zenon DEF StreamBody

(* While nothing was sent, the window is empty. *)
LEMMA EmptyStream ==
    ASSUME sent = << >>, pc = "idle", numSeq = 0, data = {}, back = {}, txStarts > 0 => rxStarts > 0,
           rx = << >>, dbr = DbrInit
    PROVE  StreamBody
<1>1. Filled = 0 /\ Len(sent) = 0 /\ 0 .. 0 - 1 = {} /\ 1 .. 0 = {} /\ Len(<< >>) = 0
  BY DEF Filled
<1>2. Start = 0 /\ Start \in Nat /\ Start % W = 0
  <2>1. Start = 0
    BY <1>1 DEF Start
  <2>2. 0 % W = 0
    BY ModSlot, ConstantTypes, Zenon
  <2> QED
    BY <2>1, <2>2
<1>3. \A s \in 0 .. Filled - 1 : FALSE
  BY <1>1
<1>4. WindowInv /\ FlightInv
  <2>1. pc # "scan"
    OBVIOUS
  <2> QED
    BY <2>1, <1>2, <1>3, Zenon DEF WindowInv, FlightInv
<1>5. AckInv /\ LossInv
  BY <1>3, Zenon DEF AckInv, LossInv
<1>6. DbrInOrder(dbr)
  <2>1. dbr.out = << >> /\ \A s \in Slots : ~dbr.stored[s]
    BY Zenon DEF DbrInit
  <2>2. \A k \in 1 .. Len(dbr.out) : FALSE
    BY <2>1, <1>1
  <2> QED
    BY <2>1, <2>2, Zenon DEF DbrInOrder
<1>7. 0 .. Start - 1 = {} /\ 1 .. Len(rx) = {}
  BY <1>1, <1>2
<1>8. OrderInv
  BY <1>6, <1>7, Zenon DEF OrderInv
<1> QED
  BY <1>4, <1>5, <1>8, Zenon DEF StreamBody

(* An application starts: nothing has been sent, or this is not its first  *)
(* run.                                                                    *)
LEMMA StartStream ==
    ASSUME ServerFirst, TypeOK, Congruent, OneInFlight, SingleRun', StreamBody,
           SenderStart \/ ReceiverStart, UNCHANGED <<acked, out>>
    PROVE  StreamBody'
<1>1. CASE SenderStart
  <2>1. /\ rxStarts > 0 /\ pc' = pc /\ txStarts' = txStarts + 1 /\ numSeq' = 0
        /\ UNCHANGED <<data, back, faults, sent, rx, dbr, rxStarts>>
    BY <1>1, Zenon DEF SenderStart, Boot, callVars, histVars, pathVars, recvVars
  <2>2. txStarts = 0
    BY <2>1, CountTypes DEF SingleRun
  <2>3. sent' = << >> /\ pc' = "idle" /\ data' = {} /\ back' = {} /\ rxStarts' > 0
    BY <2>1, <2>2, Zenon DEF Congruent, OneInFlight, PathQuiet
  <2>4. pc # "scan" /\ pc' # "scan" /\ pc = "idle" /\ Len(sent) = 0
    BY <2>1, <2>3
  <2>5. Filled = numSeq /\ numSeq = 0 /\ Filled' = 0
    <3>1. Filled = numSeq /\ Filled' = 0
      BY <2>1, <2>3, <2>4, Zenon DEF Filled
    <3>2. Len(sent) = Start + Filled /\ Start \in Nat /\ Filled \in Nat
      BY StreamTypes, Zenon DEF StreamBody
    <3> QED
      BY <3>1, <3>2, <2>4
  <2>6. Start' = Start
    BY <2>1, <2>5, Zenon DEF Start
  <2>7. OrderInv'
    BY <2>1, <2>6, SameOrder, Zenon DEF StreamBody
  <2>8. \A s \in 0 .. Filled' - 1 : FALSE
    BY <2>5
  <2>9. WindowInv'
    BY <2>3, <2>4, <2>6, <2>8, Zenon DEF StreamBody, WindowInv
  <2>10. FlightInv' /\ AckInv' /\ LossInv'
    BY <2>3, <2>8, Zenon DEF FlightInv, AckInv, LossInv
  <2> QED
    BY <2>7, <2>9, <2>10, Zenon DEF StreamBody
<1>2. CASE ReceiverStart
  <2>1. /\ rxStarts' = rxStarts + 1 /\ rx' = << >> /\ dbr' = [DbrInit EXCEPT !.out = dbr.out]
        /\ UNCHANGED <<data, back, faults, numSeq, bufWnd, lenWnd, ackWnd, txStarts>>
        /\ UNCHANGED <<out, pc, cursor, i, curWin, lastLen, txNum, sent>>
    BY <1>2, Zenon DEF ReceiverStart, Attach, pathVars, sendVars, mapVars, callVars, histVars
  <2>2. rxStarts = 0 /\ rxStarts' > 0
    BY <2>1, CountTypes DEF SingleRun
  <2>3. rx' = rx /\ dbr' = dbr
    <3>1. dbr = DbrInit /\ rx = << >>
      BY <2>2, Zenon DEF Congruent
    <3>2. dbr' = dbr
      BY <3>1, <2>1 DEF DbrInit
    <3> QED
      BY <3>1, <3>2, <2>1, Zenon
  <2>4. Start' = Start
    BY <2>1, Zenon DEF Filled, Start
  <2>5. OrderInv' /\ AcceptedPays' = AcceptedPays
    BY <2>3, <2>4, SameOrder, Zenon DEF StreamBody
  <2> QED
    BY <2>1, <2>2, <2>5, SameStream, Zenon
<1> QED
  BY <1>1, <1>2, Zenon

(* Faults are not undone. *)
LEMMA GoodBackwards == ASSUME TypeOK, [Next]_vars, Good' PROVE Good
<1>1. SingleRun
  <2>1. LinkType /\ [LinkNext]_linkVars
    BY StepIsWindowed, Zenon DEF TypeOK
  <2> QED
    BY <2>1, LivesBackwards, Zenon DEF Good
<1>2. /\ faults' = faults \/ faults' = faults + 1
      /\ (passed' = passed \/ passed' = TRUE) /\ (overrun' = overrun \/ overrun' = TRUE)
  <2>1. CASE SenderStart \/ ReceiverStart \/ Receive
    BY <2>1, Zenon DEF SenderStart, ReceiverStart, Attach, Receive, Process, pathVars, recvVars
  <2>2. CASE EgressStep
    BY <2>2, Zenon DEF EgressStep, Timer, AllCounted, ScanResend, ScanAcked, ScanSkip, ScanEnd,
                       pathVars, recvVars
  <2>3. CASE Listener \/ (\E len \in Lens : Egress(len)) \/ UNCHANGED vars
    BY <2>3, Zenon DEF Listener, Hear, Egress, Fill, recvVars, vars, linkVars
  <2>4. CASE Ingress \/ PathStep
    BY <2>4, Zenon DEF Ingress, Arrive, IngressAccept, IngressNack, IngressPass, Redirect, Refuse,
                       Ignore, recvVars, PathStep, PathNext, LosePacket, LoseAnswer, DamagePacket
  <2> QED
    BY <2>1, <2>2, <2>3, <2>4, Zenon DEF Next
<1>3. faults \in Nat /\ RetxMax \in Nat
  BY ConstantTypes DEF TypeOK, LinkType
<1>6. harmed = {}
  <2>1. harmed \subseteq harmed'
    BY StepIsWindowed, HarmKept, Zenon DEF TypeOK
  <2> QED
    BY <2>1, Zenon DEF Good
<1>4. ~passed /\ ~overrun
  BY <1>2 DEF Good
<1>5. faults < RetxMax
  BY <1>2, <1>3 DEF Good
<1> QED
  BY <1>1, <1>4, <1>5, <1>6, Zenon DEF Good
-----------------------------------------------------------------------------
(* What the steps that count slots use of the cardinality of a set of      *)
(* slots; it is shown at the end.                                          *)
SlotsCount ==
    \A n \in Nat : \A S \in SUBSET (0 .. n) :
        /\ Cardinality(S) \in Nat /\ (n + 1 <= Cardinality(S) => S = 0 .. n)
        /\ \A x \in 0 .. n : x \notin S => Cardinality(S \union {x}) = Cardinality(S) + 1
        /\ \A T \in SUBSET S : Cardinality(T) <= Cardinality(S)

(* The slots of a window can be counted. *)
LEMMA CountedFinite ==
    ASSUME SlotsCount, TypeOK
    PROVE  /\ Counted \in SUBSET (0 .. curWin) /\ Cardinality(Counted) \in Nat
           /\ \A S \in SUBSET (0 .. curWin) : Cardinality(S) \in Nat
<1>1. curWin \in Nat
  BY CountTypes, Zenon
<1>2. \A S \in SUBSET (0 .. curWin) : Cardinality(S) \in Nat
  BY <1>1, Zenon DEF SlotsCount
<1>3. Counted \in SUBSET (0 .. curWin)
  BY Zenon DEF Counted
<1> QED
  BY <1>2, <1>3, Zenon

(* Every step keeps the count within the slots marked as counted: the      *)
(* listener marks none, for what it hears is about slots that wait.        *)
LEMMA StepCounted ==
    ASSUME SlotsCount, TypeOK, Congruent, OneInFlight, CountedOnce, [Next]_vars
    PROVE  CountedOnce'
<1>0. /\ ackWnd \in [Slots -> Event] /\ i \in Nat /\ curWin \in Nat /\ curWin \in Slots /\ acked \in Nat
      /\ \A r \in back : r.seq \in Slots
  BY CountTypes, Zenon
<1>1. ASSUME UNCHANGED <<pc, acked, ackWnd, curWin>> PROVE CountedOnce'
  BY <1>1, Zenon DEF CountedOnce, Counted
<1>2. CASE SenderStart
  <2>1. pc' = "idle"
    BY <1>2, Zenon DEF SenderStart, Boot, callVars
  <2> QED
    BY <2>1, Zenon DEF CountedOnce
<1>3. CASE \E len \in Lens : Egress(len)
  <2>1. PICK len \in Lens : Egress(len)
    BY <1>3, Zenon
  <2>2. pc' = "idle" \/ acked' = 0
    BY <2>1 DEF Egress, Fill
  <2>3. curWin' \in Nat
    BY <2>1, CountTypes, ConstantTypes, Zenon DEF Egress, Fill
  <2>5. Counted' \in SUBSET (0 .. curWin')
    BY Zenon DEF Counted
  <2>6. Cardinality(Counted') \in Nat
    BY <2>3, <2>5, Zenon DEF SlotsCount
  <2>7. CountedOnce' <=> (pc' # "idle" => acked' <= Cardinality(Counted'))
    BY Zenon DEF CountedOnce
  <2> QED
    BY <2>2, <2>6, <2>7
<1>4. CASE EgressStep
  <2>1. /\ UNCHANGED <<back, sent, bufWnd, curWin>> /\ pc # "idle"
        /\ \/ UNCHANGED <<ackWnd, acked>>
           \/ /\ i <= curWin /\ ackWnd[i] = "RECV_ACK"
              /\ ackWnd' = [ackWnd EXCEPT ![i] = "IDLE"] /\ acked' = acked + 1
    BY <1>4, ScanSlots, Zenon
  <2>2. CASE UNCHANGED <<ackWnd, acked>>
    BY <2>1, <2>2, Zenon DEF CountedOnce, Counted
  <2>3. CASE /\ i <= curWin /\ ackWnd[i] = "RECV_ACK"
             /\ ackWnd' = [ackWnd EXCEPT ![i] = "IDLE"] /\ acked' = acked + 1
    <3>1. i \in 0 .. curWin /\ 0 .. curWin \subseteq Slots
      BY <1>0, <2>3, ConstantTypes DEF Slots
    <3>2. Counted' = Counted \union {i} /\ i \notin Counted
      BY <1>0, <2>1, <2>3, <3>1 DEF Counted
    <3>3. Cardinality(Counted') = Cardinality(Counted) + 1
      BY <1>0, <3>1, <3>2, CountedFinite, Zenon DEF SlotsCount
    <3>4. Cardinality(Counted) \in Nat /\ acked <= Cardinality(Counted)
      BY <2>1, CountedFinite, Zenon DEF CountedOnce
    <3>5. acked' <= Cardinality(Counted')
      BY <1>0, <2>3, <3>3, <3>4
    <3> QED
      BY <3>5, Zenon DEF CountedOnce
  <2> QED
    BY <2>1, <2>2, <2>3, Zenon
<1>5. CASE Listener
  <2>1. PICK r \in back :
          /\ ackWnd' = [ackWnd EXCEPT ![r.seq] = IF r.type = "NACK" THEN "RECV_NACK" ELSE "RECV_ACK"]
          /\ UNCHANGED <<pc, acked, curWin>>
    BY <1>5, Zenon DEF Listener, Hear, callVars
  <2>2. r.seq \in Slots /\ ackWnd[r.seq] = "TIMEOUT"
    BY <1>0, Zenon DEF OneInFlight
  <2>3. 0 .. curWin \subseteq Slots
    BY <1>0, ConstantTypes DEF Slots
  <2>4. Counted' = Counted
    BY <1>0, <2>1, <2>2, <2>3 DEF Counted
  <2> QED
    BY <2>1, <2>4, Zenon DEF CountedOnce
<1>6. CASE Ingress \/ UNCHANGED vars
  BY <1>1, <1>6, Zenon DEF Ingress, sendVars, callVars, mapVars, vars, linkVars
<1>7. CASE (ReceiverStart \/ Receive \/ PathStep) /\ UNCHANGED <<acked, out>>
  BY <1>1, <1>7, Zenon DEF ReceiverStart, Receive, PathStep, sendVars, callVars, mapVars
<1> QED
  BY <1>2, <1>3, <1>4, <1>5, <1>6, <1>7, Zenon DEF Next

(* Selective Repeat keeps packets and buffers congruent, as every windowed *)
(* graft.                                                                  *)
LEMMA SrCongruent == Spec => []Congruent
<1>1. Init => Congruent
  BY InitCongruent, Zenon DEF Init
<1>2. TypeOK /\ Congruent /\ [Next]_vars => Congruent'
  BY StepIsWindowed, StepCongruent, Zenon DEF TypeOK
<1> QED
  BY <1>1, <1>2, TypeCorrect, PTL DEF Spec

(* CountInv holds when the timer outlasts what is in flight and the path   *)
(* duplicates nothing.                                                     *)
LEMMA SrCounts ==
    ASSUME SlotsCount, Timely, ~Duplicates
    PROVE  Spec => []CountInv
<1>1. Init => CountInv
  <2> SUFFICES ASSUME Init PROVE CountInv
    BY Zenon
  <2>1. /\ data = {} /\ back = {} /\ pc = "idle" /\ sent = << >> /\ rx = << >> /\ dbr = DbrInit
    BY Zenon DEF Init, LinkInit, PathInit, SenderInit, ReceiverInit
  <2>2. dbr.stored = [s \in Slots |-> FALSE] /\ dbr.out = << >>
    BY <2>1, Zenon DEF DbrInit
  <2>3. Len(sent) = 0 /\ 1 .. Len(rx) = {} /\ 1 .. Len(dbr.out) = {}
    BY <2>1, <2>2
  <2>4. (\A s \in Slots : ~(s < Len(sent))) /\ (\A s \in Slots : ~dbr.stored[s])
    BY <2>2, <2>3, ConstantTypes
  <2>5. Accepted = {}
    BY <2>3, <2>4, Zenon DEF Accepted
  <2>6. OneInFlight /\ Known
    BY <2>1, <2>4, <2>5, Zenon DEF OneInFlight, PathQuiet, Known
  <2>7. NewestLast /\ AckedHeld /\ CountedOnce
    BY <2>1, <2>3, <2>4, Zenon DEF NewestLast, AckedHeld, CountedOnce
  <2> QED
    BY <2>6, <2>7, Zenon DEF CountInv
<1>2. TypeOK /\ Congruent /\ CountInv /\ [Next]_vars => CountInv'
  <2> SUFFICES ASSUME TypeOK, Congruent, CountInv, [Next]_vars, SingleRun'
               PROVE  (OneInFlight /\ Known /\ NewestLast /\ AckedHeld /\ CountedOnce)'
    BY Zenon DEF CountInv
  <2>1. LinkType /\ [LinkNext]_linkVars
    BY StepIsWindowed, Zenon DEF TypeOK
  <2>2. SingleRun /\ OneInFlight /\ Known /\ NewestLast /\ AckedHeld /\ CountedOnce
    BY <2>1, LivesBackwards, Zenon DEF CountInv
  <2>3. InFlightKept
    BY <2>2, Zenon DEF OneInFlight, InFlightKept
  <2>4. Known' /\ NewestLast'
    BY <2>1, <2>2, <2>3, StepKnown, StepNewest, Zenon
  <2> QED
    BY <2>2, <2>4, StepInFlight, StepAcked, StepCounted, Zenon
<1> QED
  BY <1>1, <1>2, TypeCorrect, SrCongruent, PTL DEF Spec

(* What is counted is held, so the count is sound. *)
LEMMA CountGives == ASSUME SlotsCount, TypeOK, Congruent, CountInv PROVE CountIsSound
<1> SUFFICES ASSUME pc # "idle", SingleRun
             PROVE  acked <= Cardinality({s \in 0 .. curWin :
                                             bufWnd[s].pay \in {m.pay : m \in Accepted}})
  BY Zenon DEF CountIsSound
<1> DEFINE S == {s \in 0 .. curWin : bufWnd[s].pay \in {m.pay : m \in Accepted}}
<1>1. AckedHeld /\ CountedOnce /\ curWin < Len(sent)
  BY Zenon DEF CountInv, Congruent
<1>2. \A s \in 0 .. curWin : s \in Slots /\ s < Len(sent)
  BY <1>1, CountTypes, ConstantTypes DEF Slots
<1>3. Counted \in SUBSET S
  BY <1>1, <1>2, Zenon DEF Counted, AckedHeld, Has, AcceptedPays
<1>4. S \in SUBSET (0 .. curWin) /\ curWin \in Nat
  BY CountTypes, Zenon
<1>5. /\ Cardinality(Counted) <= Cardinality(S) /\ Cardinality(S) \in Nat
      /\ Cardinality(Counted) \in Nat
  BY <1>3, <1>4, CountedFinite, Zenon DEF SlotsCount
<1> HIDE DEF S
<1>6. acked <= Cardinality(Counted) /\ acked \in Nat
  BY <1>1, CountTypes, Zenon DEF CountedOnce
<1>7. acked <= Cardinality(S)
  BY <1>5, <1>6
<1> QED
  BY <1>7, Zenon DEF S

(* The scan passes a slot with an ACK, which it counts, or one counted     *)
(* before: the receiver has its packet.                                    *)
LEMMA PassStream ==
    ASSUME SlotsCount, TypeOK, AckedHeld, CountedOnce', StreamBody, ScanAcked \/ ScanSkip
    PROVE  StreamBody'
<1>1. /\ pc = "scan" /\ pc' = pc /\ i <= curWin /\ i' = i + 1
      /\ UNCHANGED <<data, back, faults, txNum, txStarts, lastLen, rxStarts>>
      /\ UNCHANGED <<numSeq, curWin, cursor, sent, bufWnd, lenWnd, rx, dbr>>
      /\ ackWnd[i] \in {"RECV_ACK", "IDLE", "RECV_NACK"}
      /\ \/ ackWnd[i] = "RECV_ACK" /\ ackWnd' = [ackWnd EXCEPT ![i] = "IDLE"]
            /\ out' = (out \/ acked' = curWin + 1)
         \/ ackWnd' = ackWnd /\ out' = out
  BY Zenon DEF ScanAcked, ScanSkip, CountedEvent, InWindow, mapVars, histVars, recvVars, pathVars
<1>2. /\ i \in Nat /\ curWin \in Nat /\ txNum \in Nat /\ ackWnd \in [Slots -> Event]
  BY CountTypes, StreamTypes, Zenon DEF StreamBody
<1>3. PICK c \in 0 .. curWin : c = i
  BY <1>1, <1>2
<1>4. pc # "idle" /\ pc' # "idle" /\ i' <= curWin + 1 /\ c \in Nat
  BY <1>1, <1>2, <1>3
<1>5. /\ WindowInv' /\ OrderInv' /\ Filled = curWin + 1 /\ Filled' = Filled
      /\ \A s : Has(s)' <=> Has(s)
  BY <1>1, <1>4, FlushFrame, Zenon
<1>6. \A s \in 0 .. curWin : s \in 0 .. Filled - 1
  BY <1>2, <1>5
<1>7. \A s \in 0 .. Filled - 1 : s \in Slots /\ s \in Nat /\ s < Len(sent)
  BY StreamTypes, Zenon DEF StreamBody
<1>8. c \in Slots /\ c < Len(sent) /\ ackWnd[c] # "RECV_NACK"
  BY <1>3, <1>6, <1>7, Zenon DEF StreamBody, AckInv, SlotAcked
<1>9. Has(c)
  BY <1>1, <1>3, <1>8, Zenon DEF AckedHeld
<1>10. /\ \A s \in Slots : s # c => ackWnd'[s] = ackWnd[s]
       /\ ackWnd'[c] \notin {"TIMEOUT", "RECV_NACK"}
  BY <1>1, <1>2, <1>3, <1>8
<1>11. FlightInv'
  BY <1>1, <1>5, Zenon DEF StreamBody, FlightInv
<1>12. ASSUME NEW s \in 0 .. Filled - 1 PROVE SlotAcked(s)'
  <2>1. CASE s = c
    BY <2>1, <1>10 DEF SlotAcked
  <2>2. CASE s # c
    <3>1. SlotAcked(s) /\ ackWnd'[s] = ackWnd[s]
      BY <2>2, <1>7, <1>10, Zenon DEF StreamBody, AckInv
    <3> QED
      BY <3>1, <1>1, <1>4, <1>5, Zenon DEF SlotAcked
  <2> QED
    BY <2>1, <2>2, Zenon
<1>13. ASSUME out', NEW s \in 0 .. curWin PROVE ackWnd'[s] = "IDLE"
  <2>1. CASE out
    <3>1. ackWnd[s] = "IDLE" /\ s \in Slots
      BY <2>1, <1>4, <1>6, <1>7, Zenon DEF StreamBody, AckInv
    <3> QED
      BY <3>1, <1>1, <1>2, Zenon
  <2>2. CASE ~out
    <3>1. acked' = curWin + 1 /\ curWin' = curWin
      BY <2>2, <1>1, <1>13, Zenon
    <3>2. curWin + 1 <= Cardinality(Counted')
      BY <3>1, <1>4, Zenon DEF CountedOnce
    <3>3. Counted' \in SUBSET (0 .. curWin)
      BY <3>1, Zenon DEF Counted
    <3>4. 0 .. curWin = Counted'
      BY <3>2, <3>3, <1>2, Zenon DEF SlotsCount
    <3>5. s \in Counted'
      BY <3>4, Zenon
    <3> QED
      BY <3>5, Zenon DEF Counted
  <2> QED
    BY <2>1, <2>2, Zenon
<1>14. AckInv'
  BY <1>1, <1>5, <1>12, <1>13, Zenon DEF AckInv
<1>15. ASSUME NEW s \in 0 .. Filled - 1, s # c PROVE Resent(s)' = Resent(s)
  <2>1. s \in Nat /\ (s >= i + 1 <=> s >= i)
    BY <1>2, <1>3, <1>7, <1>15
  <2> QED
    BY <2>1, <1>1, Zenon DEF Resent
<1>16. LossInv'
  BY <1>1, <1>5, <1>9, <1>15, Zenon DEF StreamBody, LossInv, InFlight
<1> QED
  BY <1>5, <1>11, <1>14, <1>16, Zenon DEF StreamBody
-----------------------------------------------------------------------------
(* Every step keeps StreamInv. *)
LEMMA StepStream ==
    ASSUME SlotsCount, Timely, ~Duplicates, ServerFirst,
           TypeOK, TypeOK', Congruent, NextIsMissing, CountInv, CountInv', StreamInv, [Next]_vars
    PROVE  StreamInv'
<1> SUFFICES ASSUME Good' PROVE StreamBody'
  BY Zenon DEF StreamInv
<1>1. /\ StreamBody /\ SingleRun /\ SingleRun' /\ faults < RetxMax /\ ~passed' /\ ~overrun'
      /\ harmed' = {}
  BY GoodBackwards, Zenon DEF StreamInv, Good
<1>2. OneInFlight /\ Known /\ AckedHeld /\ CountedOnce'
  BY <1>1, Zenon DEF CountInv
<1>3. CASE (SenderStart \/ ReceiverStart) /\ UNCHANGED <<acked, out>>
  BY <1>1, <1>2, <1>3, StartStream, Zenon
<1>4. CASE \E len \in Lens : Egress(len)
  BY <1>1, <1>2, <1>4, FillStream, Zenon
<1>5. CASE EgressStep
  BY <1>1, <1>2, <1>5, TimerStream, CountedStream, ResendStream, PassStream, ScanEndStream, Zenon
     DEF EgressStep
<1>6. CASE Listener
  BY <1>1, <1>2, <1>6, ListenerStream, Zenon
<1>7. CASE Ingress
  BY <1>1, <1>2, <1>7, IngressStream, Zenon
<1>8. CASE Receive /\ UNCHANGED <<acked, out>>
  BY <1>1, <1>8, ReceiveStream, Zenon
<1>9. CASE PathStep /\ UNCHANGED <<acked, out>>
  BY <1>1, <1>9, LossStream, Zenon
<1>10. CASE UNCHANGED vars
  <2>1. /\ UNCHANGED <<data, back, faults, numSeq, bufWnd, lenWnd, ackWnd, txStarts>>
        /\ UNCHANGED <<out, pc, cursor, i, curWin, lastLen, txNum, sent>>
        /\ UNCHANGED <<rx, dbr, rxStarts>>
    BY <1>10, Zenon DEF vars, linkVars
  <2>2. Start' = Start
    BY <2>1, Zenon DEF Filled, Start
  <2>3. OrderInv' /\ AcceptedPays' = AcceptedPays
    BY <1>1, <2>1, <2>2, SameOrder, Zenon DEF StreamBody
  <2> QED
    BY <1>1, <2>1, <2>3, SameStream, Zenon DEF StreamBody, FlightInv
<1> QED
  BY <1>3, <1>4, <1>5, <1>6, <1>7, <1>8, <1>9, <1>10, Zenon DEF Next

-----------------------------------------------------------------------------
(* SlotsCount, from the facts about finite sets.  They come in under a     *)
(* name of their own: their operators are those of the model.              *)
Fin == INSTANCE FiniteSetTheorems

(* The operators of that instance are those of the model. *)
LEMMA SameCount ==
    \A S : (Fin!IsFiniteSet(S) <=> IsFiniteSet(S)) /\ Fin!Cardinality(S) = Cardinality(S)
<1>1. \A S : Fin!IsFiniteSet(S) <=> IsFiniteSet(S)
  BY DEF Fin!IsFiniteSet, IsFiniteSet
<1>2. \A S : Fin!Cardinality(S) = Cardinality(S)
  BY DEF Fin!Cardinality, Cardinality
<1> QED
  BY <1>1, <1>2, Zenon

(* An interval and its parts are finite and can be counted. *)
LEMMA SlotsCounted == SlotsCount
<1> SUFFICES ASSUME NEW n \in Nat, NEW S \in SUBSET (0 .. n)
             PROVE  /\ Cardinality(S) \in Nat /\ (n + 1 <= Cardinality(S) => S = 0 .. n)
                    /\ \A x \in 0 .. n : x \notin S => Cardinality(S \union {x}) = Cardinality(S) + 1
                    /\ \A T \in SUBSET S : Cardinality(T) <= Cardinality(S)
  BY Zenon DEF SlotsCount
<1>1. IsFiniteSet(0 .. n) /\ Cardinality(0 .. n) = n + 1
  <2>1. 0 \in Int /\ n \in Int /\ ~(0 > n) /\ n - 0 + 1 = n + 1
    OBVIOUS
  <2> QED
    BY <2>1, SameCount, Fin!FS_Interval, Zenon
<1>2. /\ IsFiniteSet(S) /\ Cardinality(S) <= Cardinality(0 .. n)
      /\ Cardinality(0 .. n) = Cardinality(S) => 0 .. n = S
  BY <1>1, SameCount, Fin!FS_Subset, Zenon
<1>3. Cardinality(S) \in Nat
  BY <1>2, SameCount, Fin!FS_CardinalityType, Zenon
<1>4. n + 1 <= Cardinality(S) => S = 0 .. n
  <2>1. n + 1 <= Cardinality(S) => Cardinality(S) = n + 1
    BY <1>1, <1>2, <1>3
  <2> QED
    BY <2>1, <1>1, <1>2, Zenon
<1>5. \A x \in 0 .. n : x \notin S => Cardinality(S \union {x}) = Cardinality(S) + 1
  BY <1>2, SameCount, Fin!FS_AddElement, Zenon
<1>6. \A T \in SUBSET S : Cardinality(T) <= Cardinality(S)
  BY <1>2, SameCount, Fin!FS_Subset, Zenon
<1> QED
  BY <1>3, <1>4, <1>5, <1>6, Zenon

(* ACK_PKT_MAP never counts more than the packets of the window that the   *)
(* receiving host has, when the timer outlasts what is in flight and the   *)
(* path duplicates nothing: for any window, any losses, any damage, lost   *)
(* answers included.                                                       *)
THEOREM CountSound ==
    ASSUME Timely, ~Duplicates
    PROVE  Spec => []CountIsSound
<1>1. TypeOK /\ Congruent /\ CountInv => CountIsSound
  BY SlotsCounted, CountGives, Zenon
<1>2. Spec => []CountInv
  BY SlotsCounted, SrCounts
<1> QED
  BY <1>1, <1>2, TypeCorrect, SrCongruent, PTL

(* As long as fewer packets are lost than a flush has retransmissions, no  *)
(* packet is damaged and no answer lost, and each application runs once    *)
(* with a ring that holds what comes, the application reads the stream     *)
(* that was sent, even after flushes that ran out of rounds: for any       *)
(* window, any lengths and any such losses.                                *)
THEOREM StreamInOrder ==
    ASSUME Timely, ~Duplicates, ServerFirst
    PROVE  Spec => []InOrderDespiteGiveUp
<1>1. Init => StreamInv
  <2> SUFFICES ASSUME Init PROVE StreamBody
    BY Zenon DEF StreamInv
  <2>1. /\ data = {} /\ back = {} /\ pc = "idle" /\ sent = << >> /\ rx = << >> /\ dbr = DbrInit
        /\ numSeq = 0 /\ txStarts = 0
    BY Zenon DEF Init, LinkInit, PathInit, SenderInit, ReceiverInit
  <2>2. ~(txStarts > 0)
    BY <2>1
  <2> QED
    BY <2>1, <2>2, EmptyStream, Zenon
<1>2. TypeOK /\ TypeOK' /\ Congruent /\ NextIsMissing /\ CountInv /\ CountInv' /\ StreamInv
         /\ [Next]_vars => StreamInv'
  BY SlotsCounted, StepStream, Zenon
<1>3. StreamInv => InOrderDespiteGiveUp
  BY Zenon DEF StreamInv, Good, StreamBody, OrderInv, DbrInOrder, InOrderDespiteGiveUp
<1>4. Spec => []CountInv
  BY SlotsCounted, SrCounts
<1> QED
  BY <1>1, <1>2, <1>3, <1>4, TypeCorrect, SrCongruent, NextMissing, PTL DEF Spec
=============================================================================
