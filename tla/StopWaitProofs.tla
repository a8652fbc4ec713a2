--------------------------- MODULE StopWaitProofs ---------------------------
(***************************************************************************)
(* Stop-and-wait, for every window of the reorder buffer, ring, number of  *)
(* retransmissions and faults: what the receiving application is handed,   *)
(* and how often RECV_ACK speaks of a packet that was not taken.           *)
(***************************************************************************)
EXTENDS StopWait, FiniteSetTheorems, SequenceTheorems, TLAPS

(* The state is well typed, and no packet but those of the egress graft    *)
(* exist: all carry the number 0.                                          *)
Numbered(P) == P \subseteq Packet /\ \A m \in P : m.seq = 0

RingType ==
    /\ rx \in Seq(Packet) /\ \A k \in 1 .. Len(rx) : rx[k].seq = 0
    /\ batch \in Nat /\ held \in Nat /\ rxStarts \in Nat

TypeOK ==
    /\ Numbered(data) /\ back \subseteq Answer /\ Numbered({cur})
    /\ RingType
    /\ event \in {"RECV_ACK", "IDLE"} /\ pc \in {"idle", "timer"}
    /\ sent \in Nat /\ giveUps \in Nat
    /\ confirmed \in SUBSET Nat /\ IsFiniteSet(confirmed) /\ taken \in SUBSET Nat

(* A buffer that waits for number 0 is empty, and its application has not  *)
(* been handed a packet since it started.  One that waits for number 1     *)
(* keeps the last packet with number 0 in slot 0.                          *)
OneOutInv ==
    W > 1 =>
        /\ dbr \in DbrType /\ Len(dbr.out) <= rxStarts
        /\ dbr.next \in {0, 1}
        /\ dbr.next = 0 => /\ \A s \in Slots : ~dbr.stored[s]
                           /\ Len(dbr.out) < rxStarts \/ (rxStarts = 0 /\ rx = << >>)

(* What is in flight belongs to the call in progress, and an ACK speaks of *)
(* a packet that was taken.                                                *)
FlightInv ==
    /\ \A m \in data : pc = "timer" /\ m.pay = cur.pay
    /\ \A r \in back : pc = "timer" /\ (r.type = "ACK" => cur.pay \in taken)
    /\ pc = "timer" => cur.pay < sent
    /\ \A p \in taken : p < sent

(* The event reads RECV_ACK and the packet it will be read for was not     *)
(* taken yet, or not even sent: one more false acknowledgement to come.    *)
Stale == event = "RECV_ACK" /\ (pc = "idle" \/ cur.pay \notin taken)

FalseAcks == confirmed \ taken

FalseInv ==
    /\ Cardinality(FalseAcks) <= giveUps + 1
    /\ Stale => Cardinality(FalseAcks) <= giveUps
-----------------------------------------------------------------------------
(* The facts about the constants, in the form the steps below use. *)
LEMMA Constants ==
    /\ HdrLen \in Nat /\ W \in Nat /\ W # 0 /\ 0 \in Slots
    /\ \A len \in Lens : len \in Nat /\ HdrLen + len \in Nat
  BY GeometryAssumption, WindowAssumption, StopWaitAssumption DEF Slots

(* Initially nothing was sent. *)
LEMMA InitType == Init => TypeOK
<1> SUFFICES ASSUME Init PROVE TypeOK
  BY Zenon
<1>1. NoPacket \in Packet /\ NoPacket.seq = 0
  BY Constants DEF NoPacket, Packet, Damage
<1>3. rx = << >> /\ rx \in Seq(Packet) /\ \A k \in 1 .. Len(rx) : FALSE
  BY DEF Init, ReceiverInit
<1>4. IsFiniteSet({})
  BY FS_EmptySet, Zenon
<1>5. RingType
  BY <1>3 DEF Init, ReceiverInit, RingType
<1>6. event \in {"RECV_ACK", "IDLE"} /\ sent \in Nat /\ giveUps \in Nat
  BY DEF Init, ZeroEvent
<1> QED
  BY <1>1, <1>3, <1>4, <1>5, <1>6, Zenon DEF Init, PathInit, TypeOK, Numbered

(* What the path does to packets leaves them packets. *)
LEMMA PathType ==
    ASSUME TypeOK, PathNext
    PROVE  Numbered(data') /\ back' \subseteq Answer
<1>0. Numbered(data) /\ back \subseteq Answer
  BY Zenon DEF TypeOK
<1>1. CASE LosePacket \/ LoseAnswer
  BY <1>0, <1>1, Zenon DEF LosePacket, LoseAnswer, Numbered
<1>2. CASE DamagePacket
  <2>1. PICK m \in data, h \in Harm : data' = Take(data, m) \union {[m EXCEPT !.bad = h]}
    BY <1>2, Zenon DEF DamagePacket
  <2>2. m \in Packet /\ m.seq = 0 /\ h \in Damage
    BY <1>0, PathAssumption, Zenon DEF Numbered, Damage
  <2>3. [m EXCEPT !.bad = h] \in Packet /\ [m EXCEPT !.bad = h].seq = 0
    BY <2>2 DEF Packet
  <2> QED
    BY <1>0, <1>2, <2>1, <2>3, Zenon DEF Numbered, Take, DamagePacket
<1> QED
  BY <1>1, <1>2, Zenon DEF PathNext

(* The receiving host works on the packets it is given. *)
LEMMA ReceiverStepType ==
    ASSUME TypeOK, Attach \/ Process
    PROVE  RingType'
<1>0. RingType
  BY Zenon DEF TypeOK
<1>1. CASE Attach
  BY <1>0, <1>1 DEF Attach, RingType
<1>2. CASE Process
  <2>1. rx # << >> /\ rx' = Tail(rx) /\ rxStarts' = rxStarts
    BY <1>2, Zenon DEF Process
  <2>2. rx' \in Seq(Packet) /\ \A k \in 1 .. Len(rx') : rx'[k].seq = 0
    BY <1>0, <2>1 DEF RingType
  <2>3. Peeked \in Nat /\ Peeked # 0
    BY <1>0, <2>1, ReceiverAssumption DEF Peeked, RingType
  <2>4. batch' \in Nat /\ held' \in Nat
    BY <1>0, <1>2, <2>3 DEF Process, RingType
  <2> QED
    BY <1>0, <2>1, <2>2, <2>4, Zenon DEF RingType
<1> QED
  BY <1>1, <1>2, Zenon

(* A packet that arrives is redirected, refused or left alone. *)
LEMMA IngressType ==
    ASSUME TypeOK, Ingress
    PROVE  TypeOK'
<1> PICK m \in data : /\ Arrive(m)
                      /\ IngressAccept(m) \/ IngressNack(m) \/ IngressPass(m)
                      /\ UNCHANGED <<event, callVars>>
  BY Zenon DEF Ingress
<1>0. /\ rx \in Seq(Packet) /\ batch \in Nat /\ held \in Nat /\ rxStarts \in Nat
      /\ \A k \in 1 .. Len(rx) : rx[k].seq = 0
      /\ Numbered(data) /\ back \subseteq Answer /\ taken \in SUBSET Nat
  BY Zenon DEF TypeOK, RingType
<1>1. m \in Packet /\ m.seq = 0 /\ m.pay \in Nat
  BY <1>0, Zenon DEF Numbered, Packet
<1>2. \A type \in {"ACK", "NACK"} : AnswerTo(m, type) \in Answer
  BY <1>1, Constants DEF AnswerTo, Answer
<1>3. Numbered(data')
  BY <1>0, Zenon DEF Arrive, Take, Numbered
<1>4. /\ rx' \in Seq(Packet) /\ \A k \in 1 .. Len(rx') : rx'[k].seq = 0
      /\ UNCHANGED <<batch, held, rxStarts>>
      /\ back' \subseteq Answer /\ taken' \in SUBSET Nat
  <2>1. CASE IngressAccept(m)
    <3>1. rx' = rx \/ rx' = Append(rx, m)
      BY <2>1, Zenon DEF IngressAccept, Redirect
    <3>2. Append(rx, m) \in Seq(Packet) /\ \A k \in 1 .. Len(Append(rx, m)) : Append(rx, m)[k].seq = 0
      BY <1>0, <1>1
    <3>3. back' \subseteq Answer
      BY <2>1, <1>0, <1>2, Zenon DEF IngressAccept, Redirect
    <3>4. taken' \in SUBSET Nat
      BY <2>1, <1>0, <1>1, Zenon DEF IngressAccept
    <3> QED
      BY <2>1, <3>1, <3>2, <3>3, <3>4, <1>0, Zenon DEF IngressAccept, Redirect
  <2>2. CASE IngressNack(m)
    BY <2>2, <1>0, <1>2, Zenon DEF IngressNack, Refuse, recvVars
  <2>3. CASE IngressPass(m)
    BY <2>3, <1>0, Zenon DEF IngressPass, Ignore
  <2> QED
    BY <2>1, <2>2, <2>3, Zenon
<1>5. RingType'
  BY <1>0, <1>4, Zenon DEF RingType
<1> QED
  BY <1>3, <1>4, <1>5, Zenon DEF TypeOK, callVars

(* The egress graft and its listener. *)
LEMMA SenderType ==
    ASSUME TypeOK, (\E len \in Lens : Egress(len)) \/ EgressStep \/ Listener
    PROVE  TypeOK'
<1>0. /\ Numbered(data) /\ back \subseteq Answer /\ Numbered({cur}) /\ sent \in Nat /\ giveUps \in Nat
      /\ confirmed \in SUBSET Nat /\ IsFiniteSet(confirmed) /\ taken \in SUBSET Nat
  BY Zenon DEF TypeOK
<1>1. ASSUME NEW len \in Lens, Egress(len)
      PROVE  TypeOK'
  <2>1. cur' = [seq |-> 0, pay |-> sent, len |-> len, wire |-> HdrLen + len, bad |-> "none"]
    BY <1>1, Zenon DEF Egress
  <2>2. cur' \in Packet /\ cur'.seq = 0
    BY <2>1, <1>0, Constants DEF Packet, Damage
  <2>3. sent' \in Nat
    BY <1>0, <1>1 DEF Egress
  <2>4. data' = data \union {cur'} /\ pc' = "timer"
        /\ UNCHANGED <<back, recvVars, event, confirmed, giveUps, taken>>
    BY <1>1, Zenon DEF Egress
  <2>5. RingType' /\ rx' = rx
    BY <2>4, Zenon DEF TypeOK, RingType, recvVars
  <2> QED
    BY <1>0, <2>2, <2>3, <2>4, <2>5, Zenon DEF TypeOK, Numbered
<1>2. CASE GiveUp
  <2>1. giveUps' \in Nat
    BY <1>0, <1>2 DEF GiveUp
  <2> QED
    BY <1>2, <2>1, Zenon DEF GiveUp, TypeOK, RingType, recvVars, pathVars
<1>3. CASE Acknowledged
  <2>1. cur.pay \in Nat
    BY <1>0, Zenon DEF Numbered, Packet
  <2>2. IsFiniteSet(confirmed \union {cur.pay})
    BY <1>0, FS_AddElement, Zenon
  <2> QED
    BY <1>0, <1>3, <2>1, <2>2, Zenon DEF Acknowledged, Cleared, TypeOK, RingType, recvVars, pathVars
<1>4. CASE Retransmit
  BY <1>0, <1>4, Zenon DEF Retransmit, TypeOK, RingType, recvVars, Numbered
<1>5. CASE Listener
  BY <1>0, <1>5, Zenon DEF Listener, Heard, Take, TypeOK, RingType, recvVars, callVars
<1> QED
  BY <1>1, <1>2, <1>3, <1>4, <1>5, Zenon DEF EgressStep

(* Type correctness, and that every packet carries number 0. *)
LEMMA StepType == TypeOK /\ [Next]_vars => TypeOK'
<1> SUFFICES ASSUME TypeOK, [Next]_vars PROVE TypeOK'
  BY Zenon
<1>1. CASE (\E len \in Lens : Egress(len)) \/ EgressStep \/ Listener
  BY <1>1, SenderType, Zenon
<1>2. CASE Ingress
  BY <1>2, IngressType, Zenon
<1>3. CASE ReceiverStart \/ Receive
  <2>1. RingType'
    BY <1>3, ReceiverStepType, Zenon DEF ReceiverStart, Receive
  <2> QED
    BY <1>3, <2>1, Zenon DEF ReceiverStart, Receive, TypeOK, pathVars, callVars
<1>4. CASE PathStep
  BY <1>4, PathType, Zenon DEF PathStep, TypeOK, RingType, recvVars, callVars
<1>5. CASE UNCHANGED vars
  BY <1>5, Zenon DEF vars, TypeOK, RingType
<1> QED
  BY <1>1, <1>2, <1>3, <1>4, <1>5, Zenon DEF Next

(* Every reachable state is well typed. *)
LEMMA TypeCorrect == Spec => []TypeOK
  BY InitType, StepType, PTL DEF Spec
-----------------------------------------------------------------------------
(* A step that leaves the buffer alone and does not fill the ring of an    *)
(* application that never started.                                         *)
LEMMA SameOneOut ==
    ASSUME OneOutInv, UNCHANGED <<dbr, rxStarts>>, rxStarts > 0 \/ rx' = rx
    PROVE  OneOutInv'
  BY DEF OneOutInv

(* The buffer as a process starts with it. *)
LEMMA DbrInitType == DbrInit \in DbrType
<1>1. NoPacket \in Packet
  BY Constants DEF NoPacket, Packet, Damage
<1> QED
  BY <1>1, Constants DEF DbrInit, DbrType

(* With nothing stored the packet with number 0 is handed over alone, and  *)
(* the buffer waits for number 1.                                          *)
LEMMA FirstIsOut ==
    ASSUME W > 1, NEW d \in DbrType, NEW m \in Packet, m.seq = 0, d.next = 0,
           \A s \in Slots : ~d.stored[s]
    PROVE  /\ ProcessPacket(d, m) \in DbrType
           /\ ProcessPacket(d, m).next = 1 /\ ProcessPacket(d, m).out = Append(d.out, m)
<1> DEFINE e == ProcessPacket(d, m)
           t == [k \in 1 .. 0 |-> d.buff[(1 + k - 1) % W]]
<1>1. 1 % W = 1 /\ 1 \in Slots /\ 0 + 1 = 1 /\ 1 + 0 = 1
  BY WindowAssumption, Z3 DEF Slots
<1>2. PurgeLen(d.stored, 1) = 0
  <2> DEFINE P(n) == /\ \A k \in 0 .. n - 1 : d.stored[(1 + k) % W]
                     /\ n = W \/ ~d.stored[(1 + n) % W]
  <2>1. 0 \in 0 .. W /\ \A n \in 0 .. W : n # 0 => 0 \in 0 .. n - 1
    BY WindowAssumption
  <2>2. ~d.stored[(1 + 0) % W]
    BY <1>1, Zenon
  <2>3. \A k \in 0 .. 0 - 1 : FALSE
    OBVIOUS
  <2>4. P(0)
    BY <2>2, <2>3, Zenon
  <2>5. \A n \in 0 .. W : P(n) => n = 0
    BY <2>1, <2>2, Zenon
  <2> HIDE DEF P
  <2>6. (CHOOSE n \in 0 .. W : P(n)) = 0
    BY <2>1, <2>4, <2>5, Zenon
  <2> QED
    BY <2>6, Zenon DEF P, PurgeLen
<1>3. /\ d.stored \in [Slots -> BOOLEAN] /\ d.buff \in [Slots -> Packet] /\ d.out \in Seq(Packet)
      /\ d.bytes \in Int
  BY Zenon DEF DbrType
<1>4. /\ e.next = 1 /\ e.buff = d.buff /\ e.out = Append(d.out, m) \o t
      /\ e = [next |-> e.next, stored |-> e.stored, buff |-> e.buff, out |-> e.out, bytes |-> e.bytes]
      /\ e.stored = [s \in Slots |-> d.stored[s] /\ \A k \in 0 .. 0 - 1 : s # (1 + k) % W]
      /\ e.bytes = d.bytes + (0 + 1) * DataLen(m)
  BY <1>1, <1>2, Zenon DEF ProcessPacket, DeliverAndPurge
<1> HIDE DEF e
<1>5. Append(d.out, m) \in Seq(Packet) /\ t = << >>
  BY <1>3
<1>6. e.out = Append(d.out, m)
  BY <1>4, <1>5, ConcatEmptySeq, Zenon
<1>7. e.bytes \in Int
  BY <1>3, <1>4, Constants DEF DataLen, Packet
<1>8. e.stored \in [Slots -> BOOLEAN]
  BY <1>4, Zenon
<1>9. e \in DbrType
  BY <1>1, <1>3, <1>4, <1>5, <1>6, <1>7, <1>8, Zenon DEF DbrType
<1> QED
  BY <1>4, <1>6, <1>9, Zenon DEF e

(* A packet with number 0 is handed over if the buffer waits for number 0, *)
(* and kept in slot 0 otherwise.                                           *)
LEMMA ReceiveOneOut ==
    ASSUME TypeOK, OneOutInv, Process
    PROVE  OneOutInv'
<1> SUFFICES ASSUME W > 1 PROVE OneOutInv'
  BY Zenon DEF OneOutInv
<1> DEFINE m == Head(rx)
<1>1. /\ rx # << >> /\ rxStarts' = rxStarts /\ dbr' = ProcessPacket(dbr, m)
  BY Zenon DEF Process
<1>2. /\ rx \in Seq(Packet) /\ dbr \in DbrType /\ rxStarts \in Nat
      /\ \A k \in 1 .. Len(rx) : rx[k].seq = 0
  BY Zenon DEF TypeOK, RingType, OneOutInv
<1>3. m \in Packet /\ m.seq = 0
  BY <1>1, <1>2
<1> HIDE DEF m
<1>5. CASE dbr.next = 0
  <2>1. Len(dbr.out) < rxStarts /\ \A s \in Slots : ~dbr.stored[s]
    BY <1>1, <1>5, Zenon DEF OneOutInv
  <2>2. dbr' \in DbrType /\ dbr'.next = 1 /\ dbr'.out = Append(dbr.out, m)
    BY <1>1, <1>2, <1>3, <1>5, <2>1, FirstIsOut, Zenon
  <2>3. Len(dbr'.out) <= rxStarts'
    <3>1. dbr.out \in Seq(Packet)
      BY <1>2, Zenon DEF DbrType
    <3> QED
      BY <1>1, <1>2, <1>3, <2>1, <2>2, <3>1
  <2> QED
    BY <2>2, <2>3 DEF OneOutInv
<1>6. CASE dbr.next # 0
  <2>1. dbr' = Store(dbr, m)
    BY <1>1, <1>3, <1>6, Zenon DEF ProcessPacket
  <2>2. dbr'.next = dbr.next /\ dbr'.out = dbr.out
    BY <1>2, <2>1 DEF Store, DbrType
  <2>3. dbr' \in DbrType
    BY <1>2, <1>3, <2>1 DEF Store, DbrType, Packet
  <2> QED
    BY <1>1, <1>6, <2>2, <2>3, Zenon DEF OneOutInv
<1> QED
  BY <1>5, <1>6, Zenon

(* A start empties the buffer, which waits for number 0 again. *)
LEMMA StartOneOut ==
    ASSUME TypeOK, OneOutInv, Attach
    PROVE  OneOutInv'
<1> SUFFICES ASSUME W > 1 PROVE OneOutInv'
  BY Zenon DEF OneOutInv
<1>1. rxStarts \in Nat /\ dbr.out \in Seq(Packet) /\ Len(dbr.out) <= rxStarts
  BY Zenon DEF TypeOK, RingType, DbrType, OneOutInv
<1>2. rxStarts' = rxStarts + 1 /\ dbr' = [DbrInit EXCEPT !.out = dbr.out]
  BY Zenon DEF Attach
<1>3. dbr'.next = 0 /\ dbr'.out = dbr.out /\ \A s \in Slots : ~dbr'.stored[s]
  BY <1>2 DEF DbrInit
<1>4. dbr' \in DbrType
  <2> HIDE DEF DbrInit
  <2> QED
    BY <1>1, <1>2, DbrInitType DEF DbrType
<1> QED
  BY <1>1, <1>2, <1>3, <1>4 DEF OneOutInv

(* Every step keeps what the buffer promises. *)
LEMMA StepOneOut == TypeOK /\ OneOutInv /\ [Next]_vars => OneOutInv'
<1> SUFFICES ASSUME TypeOK, OneOutInv, [Next]_vars PROVE OneOutInv'
  BY Zenon
<1>1. CASE ReceiverStart
  BY <1>1, StartOneOut, Zenon DEF ReceiverStart
<1>2. CASE Receive
  BY <1>2, ReceiveOneOut, Zenon DEF Receive
<1>3. CASE Ingress
  <2>1. UNCHANGED <<dbr, rxStarts>> /\ (rxStarts > 0 \/ rx' = rx)
    BY <1>3, Zenon DEF Ingress, IngressAccept, IngressNack, IngressPass, Redirect, Refuse, Ignore, recvVars
  <2> QED
    BY <2>1, SameOneOut, Zenon
<1>4. CASE \/ (\E len \in Lens : Egress(len)) \/ EgressStep \/ Listener
           \/ PathStep \/ UNCHANGED vars
  <2>1. UNCHANGED <<dbr, rxStarts, rx>>
    BY <1>4, Zenon DEF Egress, EgressStep, GiveUp, Acknowledged, Retransmit, Listener, PathStep, recvVars, vars
  <2> QED
    BY <2>1, SameOneOut, Zenon
<1> QED
  BY <1>1, <1>2, <1>3, <1>4, Zenon DEF Next

(* Whatever the path does and however long the application runs, with a    *)
(* window above 1 dbr.c hands over at most one packet of stop-and-wait per *)
(* start: the later ones carry number 0, which is never the next one.      *)
THEOREM OnePacket == Spec => []OnePacketPerStart
<1>1. Init => OneOutInv
  BY DbrInitType DEF Init, ReceiverInit, OneOutInv, DbrInit
<1>2. OneOutInv => OnePacketPerStart
  BY Zenon DEF OneOutInv, OnePacketPerStart
<1> QED
  BY <1>1, <1>2, StepOneOut, TypeCorrect, PTL DEF Spec
-----------------------------------------------------------------------------
(* What a step of the sender leaves in flight belongs to its call. *)
LEMMA SenderFlight ==
    ASSUME Timely, TypeOK, FlightInv, (\E len \in Lens : Egress(len)) \/ EgressStep \/ Listener
    PROVE  FlightInv'
<1>0. sent \in Nat /\ taken \in SUBSET Nat
  BY Zenon DEF TypeOK
<1>1. ASSUME NEW len \in Lens, Egress(len)
      PROVE  FlightInv'
  <2>1. /\ pc = "idle" /\ pc' = "timer" /\ data' = data \union {cur'} /\ UNCHANGED <<back, taken>>
        /\ cur' = [seq |-> 0, pay |-> sent, len |-> len, wire |-> HdrLen + len, bad |-> "none"]
        /\ sent' = sent + 1
    BY <1>1, Zenon DEF Egress
  <2>2. cur'.pay = sent
    BY <2>1, Zenon
  <2>3. data = {} /\ back = {}
    BY <2>1, Zenon DEF FlightInv
  <2>4. sent < sent' /\ \A p \in taken : p < sent'
    BY <1>0, <2>1 DEF FlightInv
  <2> QED
    BY <2>1, <2>2, <2>3, <2>4, Zenon DEF FlightInv
<1>2. CASE GiveUp \/ Acknowledged
  <2>1. data = {} /\ back = {}
    BY <1>2, Zenon DEF GiveUp, Acknowledged, TimerBack, TimerMayFire, PathQuiet
  <2>2. UNCHANGED <<data, back, taken, sent>> /\ pc' = "idle"
    BY <1>2, Zenon DEF GiveUp, Acknowledged, pathVars
  <2> QED
    BY <2>1, <2>2, Zenon DEF FlightInv
<1>3. CASE Retransmit
  <2>1. /\ data' = data \union {cur} /\ pc = "timer"
        /\ UNCHANGED <<pc, back, taken, sent, cur>>
    BY <1>3, Zenon DEF Retransmit, TimerBack
  <2> QED
    BY <2>1, Zenon DEF FlightInv
<1>4. CASE Listener
  <2>1. back' \subseteq back /\ UNCHANGED <<data, pc, cur, sent, taken>>
    BY <1>4, Zenon DEF Listener, Take, callVars
  <2> QED
    BY <2>1, Zenon DEF FlightInv
<1> QED
  BY <1>1, <1>2, <1>3, <1>4, Zenon DEF EgressStep

(* A packet that arrives is the one of the call; its ACK tells of a packet *)
(* that the ring has.                                                      *)
LEMMA IngressFlight ==
    ASSUME TypeOK, FlightInv, Ingress
    PROVE  FlightInv' /\ taken \subseteq taken'
<1> PICK m \in data : /\ Arrive(m)
                      /\ IngressAccept(m) \/ IngressNack(m) \/ IngressPass(m)
                      /\ UNCHANGED <<event, callVars>>
  BY Zenon DEF Ingress
<1>1. m.pay = cur.pay /\ pc = "timer" /\ cur.pay < sent /\ m \in Packet
  BY Zenon DEF FlightInv, TypeOK, Numbered
<1>2. UNCHANGED <<pc, cur, sent>> /\ data' \subseteq data
  BY Zenon DEF callVars, Arrive, Take
<1>3. /\ taken' = taken \/ taken' = taken \union {m.pay}
      /\ \A r \in back' : r \in back \/ r.type = "NACK" \/ m.pay \in taken'
  <2>1. CASE IngressAccept(m)
    <3>1. taken' = taken \/ taken' = taken \union {m.pay}
      BY <2>1, Zenon DEF IngressAccept
    <3>2. rx \in Seq(Packet)
      BY Zenon DEF TypeOK, RingType
    <3>3. Append(rx, m) # rx
      <4>1. Len(Append(rx, m)) # Len(rx)
        BY <1>1, <3>2
      <4> QED
        BY <4>1, Zenon
    <3>4. back' = back \/ m.pay \in taken'
      BY <2>1, <3>3, Zenon DEF IngressAccept, Redirect
    <3> QED
      BY <3>1, <3>4, Zenon
  <2>2. CASE IngressNack(m)
    <3>1. AnswerTo(m, "NACK").type = "NACK"
      BY Zenon DEF AnswerTo
    <3> QED
      BY <2>2, <3>1, Zenon DEF IngressNack, Refuse
  <2>3. CASE IngressPass(m)
    BY <2>3, Zenon DEF IngressPass, Ignore
  <2> QED
    BY <2>1, <2>2, <2>3, Zenon
<1>4. \A r \in back' : r.type = "ACK" => cur.pay \in taken'
  <2>1. "ACK" # "NACK"
    OBVIOUS
  <2> QED
    BY <1>1, <1>3, <2>1, Zenon DEF FlightInv
<1> QED
  BY <1>1, <1>2, <1>3, <1>4, Zenon DEF FlightInv

(* Damage does not change which packet it is. *)
LEMMA PathFlight ==
    ASSUME TypeOK, FlightInv, PathStep
    PROVE  FlightInv'
<1>1. UNCHANGED <<pc, cur, sent, taken>> /\ back' \subseteq back
  BY Zenon DEF PathStep, PathNext, LosePacket, LoseAnswer, DamagePacket, callVars
<1>2. \A n \in data' : \E m \in data : n.pay = m.pay
  <2>1. CASE LosePacket \/ LoseAnswer
    BY <2>1, Zenon DEF LosePacket, LoseAnswer
  <2>2. CASE DamagePacket
    <3>1. PICK m \in data, h \in Harm : data' = Take(data, m) \union {[m EXCEPT !.bad = h]}
      BY <2>2, Zenon DEF DamagePacket
    <3>2. m \in Packet
      BY Zenon DEF TypeOK, Numbered
    <3>3. [m EXCEPT !.bad = h].pay = m.pay
      BY <3>2 DEF Packet
    <3> QED
      BY <3>1, <3>3, Zenon DEF Take
  <2> QED
    BY <2>1, <2>2, Zenon DEF PathStep, PathNext
<1> QED
  BY <1>1, <1>2, Zenon DEF FlightInv

(* Every step keeps what is in flight to the call in progress. *)
LEMMA StepFlight ==
    ASSUME Timely, TypeOK, FlightInv, [Next]_vars
    PROVE  FlightInv'
<1>1. CASE ReceiverStart \/ Receive \/ UNCHANGED vars
  BY <1>1, Zenon DEF ReceiverStart, Receive, pathVars, callVars, vars, FlightInv
<1> QED
  BY <1>1, SenderFlight, IngressFlight, PathFlight, Zenon DEF Next

(* Fewer false acknowledgements are no more of them. *)
LEMMA FewerFalse ==
    ASSUME NEW S, NEW T, IsFiniteSet(S), T \subseteq S
    PROVE  Cardinality(T) \in Nat /\ Cardinality(S) \in Nat /\ Cardinality(T) <= Cardinality(S)
  BY FS_Subset, FS_CardinalityType

(* Steps that end no call and raise no event. *)
LEMMA SameFalse ==
    ASSUME TypeOK, FalseInv, confirmed' = confirmed, giveUps' = giveUps, taken \subseteq taken',
           Stale' => Stale
    PROVE  FalseInv'
<1>1. FalseAcks' \subseteq FalseAcks /\ IsFiniteSet(FalseAcks)
  BY FS_Difference, Zenon DEF FalseAcks, TypeOK
<1>2. Cardinality(FalseAcks') <= Cardinality(FalseAcks) /\ Cardinality(FalseAcks') \in Nat
      /\ Cardinality(FalseAcks) \in Nat /\ giveUps \in Nat
  BY <1>1, FewerFalse, Zenon DEF TypeOK
<1> HIDE DEF FalseAcks, Stale
<1> QED
  BY <1>2 DEF FalseInv

(* The calls of the sender: an ACK read while it is stale counts once and  *)
(* is cleared; a call that gives up may leave one behind.                  *)
LEMMA CallFalse ==
    ASSUME TypeOK, FlightInv, FalseInv, GiveUp \/ Acknowledged
    PROVE  FalseInv'
<1>0. giveUps \in Nat /\ IsFiniteSet(FalseAcks) /\ Cardinality(FalseAcks) \in Nat
  <2>1. IsFiniteSet(FalseAcks)
    BY FS_Difference, Zenon DEF FalseAcks, TypeOK
  <2> QED
    BY <2>1, FS_CardinalityType, Zenon DEF TypeOK
<1>1. CASE GiveUp
  <2>1. FalseAcks' = FalseAcks /\ giveUps' = giveUps + 1
    BY <1>1, Zenon DEF GiveUp, FalseAcks
  <2>2. Cardinality(FalseAcks) <= giveUps + 1
    BY Zenon DEF FalseInv
  <2> HIDE DEF FalseAcks, Stale
  <2> QED
    BY <1>0, <2>1, <2>2 DEF FalseInv
<1>2. CASE Acknowledged
  <2>1. /\ event = "RECV_ACK" /\ event' = "IDLE" /\ giveUps' = giveUps
        /\ FalseAcks' = (confirmed \union {cur.pay}) \ taken
    BY <1>2, Zenon DEF Acknowledged, Cleared, FalseAcks
  <2>2. ~Stale'
    BY <2>1, Zenon DEF Stale
  <2>3. CASE cur.pay \in taken
    <3>1. FalseAcks' = FalseAcks
      BY <2>1, <2>3, Zenon DEF FalseAcks
    <3> HIDE DEF FalseAcks, Stale
    <3> QED
      BY <2>1, <2>2, <3>1, Zenon DEF FalseInv
  <2>4. CASE cur.pay \notin taken
    <3>1. Cardinality(FalseAcks) <= giveUps
      BY <2>1, <2>4, Zenon DEF FalseInv, Stale
    <3>2. FalseAcks' = FalseAcks \union {cur.pay}
      BY <2>1, <2>4, Zenon DEF FalseAcks
    <3> HIDE DEF FalseAcks, Stale
    <3>3. \/ Cardinality(FalseAcks') = Cardinality(FalseAcks)
          \/ Cardinality(FalseAcks') = Cardinality(FalseAcks) + 1
      BY <1>0, <3>2, FS_AddElement, Zenon
    <3> QED
      BY <1>0, <2>1, <2>2, <3>1, <3>3 DEF FalseInv
  <2> QED
    BY <2>3, <2>4, Zenon
<1> QED
  BY <1>1, <1>2, Zenon

(* Every step keeps the account of false acknowledgements. *)
LEMMA StepFalse ==
    ASSUME Timely, TypeOK, FlightInv, FalseInv, [Next]_vars
    PROVE  FalseInv'
<1>1. CASE \E len \in Lens : Egress(len)
  <2>1. /\ UNCHANGED <<confirmed, giveUps, taken, event>> /\ pc = "idle"
    BY <1>1, Zenon DEF Egress
  <2> QED
    BY <2>1, SameFalse, Zenon DEF Stale
<1>2. CASE Retransmit \/ PathStep \/ ReceiverStart \/ Receive \/ UNCHANGED vars
  <2>1. UNCHANGED <<confirmed, giveUps, taken, event, pc, cur>>
    BY <1>2, Zenon DEF Retransmit, PathStep, ReceiverStart, Receive, callVars, vars
  <2> QED
    BY <2>1, SameFalse, Zenon DEF Stale
<1>3. CASE Listener
  <2>1. PICK r \in back : event' = Heard(r.type)
    BY <1>3, Zenon DEF Listener
  <2>2. UNCHANGED <<confirmed, giveUps, taken, pc, cur>>
    BY <1>3, Zenon DEF Listener, callVars
  <2>3. r.type \in {"ACK", "NACK"} /\ pc = "timer" /\ (r.type = "ACK" => cur.pay \in taken)
    BY Zenon DEF FlightInv, TypeOK, Answer
  <2>4. "idle" # "timer" /\ "IDLE" # "RECV_ACK"
    OBVIOUS
  <2>5. ~Stale'
    BY <2>1, <2>2, <2>3, <2>4, Zenon DEF Stale, Heard
  <2> QED
    BY <2>2, <2>5, SameFalse, Zenon
<1>4. CASE Ingress
  <2>1. UNCHANGED <<confirmed, giveUps, event, pc, cur>> /\ taken \subseteq taken'
    BY <1>4, IngressFlight, Zenon DEF Ingress, callVars
  <2> QED
    BY <2>1, SameFalse, Zenon DEF Stale
<1> QED
  BY <1>1, <1>2, <1>3, <1>4, CallFalse, Zenon DEF Next, EgressStep

(* On a path that the 10 ms timer outlasts, RECV_ACK ends a call for a     *)
(* packet the receiver never took at most once for the zeroed NUM_ACK_MAP  *)
(* and once for each call that gave up; lost answers, damage and restarts  *)
(* of the receiver included.                                               *)
THEOREM FalseAcksBounded ==
    ASSUME Timely
    PROVE  Spec => []FalseAcksAreBounded
<1>1. Init => FlightInv /\ FalseInv
  <2> SUFFICES ASSUME Init PROVE FlightInv /\ FalseInv
    BY Zenon
  <2>1. data = {} /\ back = {} /\ pc = "idle" /\ taken = {} /\ FalseAcks = {} /\ giveUps = 0
    BY Zenon DEF Init, PathInit, FalseAcks
  <2>2. Cardinality(FalseAcks) = 0
    BY <2>1, FS_EmptySet, Zenon
  <2> HIDE DEF FalseAcks
  <2>3. FalseInv
    BY <2>1, <2>2 DEF FalseInv
  <2> QED
    BY <2>1, <2>3 DEF FlightInv
<1>2. TypeOK /\ FlightInv /\ FalseInv /\ [Next]_vars => FlightInv' /\ FalseInv'
  BY StepFlight, StepFalse, Zenon
<1>3. FalseInv => FalseAcksAreBounded
  BY Zenon DEF FalseInv, FalseAcks, FalseAcksAreBounded
<1> QED
  BY <1>1, <1>2, <1>3, TypeCorrect, PTL DEF Spec
=============================================================================
