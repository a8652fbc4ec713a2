--------------------------- MODULE WindowedProofs ---------------------------
(***************************************************************************)
(* Theorems about LinkSpec, what every windowed graft implements: for      *)
(* every window size, every retransmission limit, every behaviour of the   *)
(* path and every policy of a graft within LinkNext.                       *)
(***************************************************************************)
EXTENDS Windowed, WellFoundedInduction, TLAPS

(***************************************************************************)
(* Arithmetic modulo the window size, which the provers do not know for a  *)
(* modulus that is not a literal, and the least element of a set of        *)
(* naturals, which stands in for induction.                                *)
(***************************************************************************)

(* A number is W times its quotient plus its remainder, the slot. *)
LEMMA DivMod ==
    \A n \in Nat : /\ n = W * (n \div W) + (n % W)
                   /\ n \div W \in Nat
                   /\ n % W \in Slots
  BY WindowAssumption, Z3 DEF Slots

(* Multiples of W are at least W apart. *)
LEMMA MultiplesApart == \A a, b \in Int : a > b => W * a >= W * b + W
<1> SUFFICES ASSUME NEW a \in Int, NEW b \in Int, a > b
             PROVE  W * a >= W * b + W
  BY Zenon
<1>1. W * a = W * b + W * (a - b)
  BY WindowAssumption
<1>2. W * (a - b) >= W
  BY WindowAssumption
<1> QED
  BY <1>1, <1>2, WindowAssumption

(* The remainder is the only slot that completes a multiple of W. *)
LEMMA ModUnique ==
    \A n \in Nat, q \in Nat, r \in Slots : n = W * q + r => n % W = r
<1> SUFFICES ASSUME NEW n \in Nat, NEW q \in Nat, NEW r \in Slots, n = W * q + r
             PROVE  n % W = r
  BY Zenon
<1> DEFINE p == n \div W
           s == n % W
<1>1. n = W * p + s /\ p \in Nat /\ s \in Slots
  BY DivMod, Zenon
<1> HIDE DEF p, s
<1>2. W * p \in Int /\ W * q \in Int
  BY <1>1, WindowAssumption
<1>3. ~(p > q)
  BY MultiplesApart, <1>1, <1>2, WindowAssumption DEF Slots
<1>4. ~(q > p)
  BY MultiplesApart, <1>1, <1>2, WindowAssumption DEF Slots
<1>5. p = q
  BY <1>1, <1>3, <1>4
<1> QED
  BY <1>1, <1>2, <1>5, WindowAssumption DEF s, Slots

(* A slot is its own remainder. *)
LEMMA ModSlot == \A s \in Slots : s % W = s
<1> SUFFICES ASSUME NEW s \in Slots PROVE s % W = s
  BY Zenon
<1>1. s = W * 0 + s
  BY WindowAssumption DEF Slots
<1> QED
  BY <1>1, ModUnique, WindowAssumption DEF Slots

(* Reducing before adding changes nothing. *)
LEMMA ModAdd == \A a, k \in Nat : ((a % W) + k) % W = (a + k) % W
<1> SUFFICES ASSUME NEW a \in Nat, NEW k \in Nat
             PROVE  ((a % W) + k) % W = (a + k) % W
  BY Zenon
<1> DEFINE p == a \div W
           s == a % W
           q == (s + k) \div W
           r == (s + k) % W
<1>1. a = W * p + s /\ p \in Nat /\ s \in Slots
  BY DivMod, Zenon
<1> HIDE DEF p, s
<1>2. s + k \in Nat
  BY <1>1, WindowAssumption DEF Slots
<1>3. s + k = W * q + r /\ q \in Nat /\ r \in Slots
  BY <1>2, DivMod, Zenon
<1> HIDE DEF q, r
<1>4. W * (p + q) = W * p + W * q /\ W * p \in Nat /\ W * q \in Nat
  BY <1>1, <1>3, WindowAssumption
<1>5. a + k = W * (p + q) + r
  BY <1>1, <1>2, <1>3, <1>4, WindowAssumption DEF Slots
<1>6. (a + k) % W = r
  BY <1>1, <1>3, <1>5, ModUnique, WindowAssumption
<1> QED
  BY <1>6, Zenon DEF r, s

(* A nonempty set of naturals has a least element. *)
LEMMA LeastNat == \A T \in SUBSET Nat : T # {} => \E x \in T : \A y \in T : x <= y
<1> SUFFICES ASSUME NEW T \in SUBSET Nat, T # {}
             PROVE  \E x \in T : \A y \in T : x <= y
  BY Zenon
<1> DEFINE R == OpToRel(<, Nat)
<1>1. IsWellFoundedOn(R, Nat)
  BY NatLessThanWellFounded, Zenon
<1>2. \A x, y \in Nat : x < y => <<x, y>> \in R
  BY Zenon DEF OpToRel
<1> HIDE DEF R
<1>3. PICK x \in T : \A y \in T : ~(<<y, x>> \in R)
  BY <1>1, WFMin, Zenon
<1>4. \A y \in T : ~(y < x)
  BY <1>2, <1>3, Zenon
<1>5. \A y \in T : x <= y
  BY <1>4
<1> QED
  BY <1>5, Zenon

-----------------------------------------------------------------------------
(* Sequences: the empty one, two put together, two that agree. *)
LEMMA EmptyIsSeq == \A S : << >> \in Seq(S)
  OBVIOUS

(* The entries of two sequences put together. *)
LEMMA Concat ==
    ASSUME NEW S, NEW s \in Seq(S), NEW t \in Seq(S)
    PROVE  /\ Len(s \o t) = Len(s) + Len(t)
           /\ \A k \in 1 .. Len(s) + Len(t) :
                 (s \o t)[k] = IF k <= Len(s) THEN s[k] ELSE t[k - Len(s)]
  OBVIOUS

(* Appending nothing changes nothing. *)
LEMMA ConcatEmpty == ASSUME NEW S, NEW s \in Seq(S) PROVE s \o << >> = s
  OBVIOUS

(* Sequences of one length that agree at every place are equal. *)
LEMMA SameSeq ==
    ASSUME NEW S, NEW s \in Seq(S), NEW t \in Seq(S), Len(s) = Len(t), \A k \in 1 .. Len(s) : s[k] = t[k]
    PROVE  s = t
  OBVIOUS

-----------------------------------------------------------------------------
(***************************************************************************)
(* Facts about the reorder buffer of dbr.c for every window size.          *)
(***************************************************************************)

(* The purge loop stops: the number of packets it takes is well defined,   *)
(* all of them are stored, and unless it made a full turn the next slot is *)
(* empty.                                                                  *)
LEMMA PurgeLenExists ==
    ASSUME NEW stored \in [Slots -> BOOLEAN], NEW j \in Slots
    PROVE  /\ PurgeLen(stored, j) \in 0 .. W
           /\ \A k \in 0 .. PurgeLen(stored, j) - 1 : stored[(j + k) % W]
           /\ \/ PurgeLen(stored, j) = W
              \/ ~stored[(j + PurgeLen(stored, j)) % W]
<1> DEFINE Stop(n) == n = W \/ ~stored[(j + n) % W]
           T == {n \in 0 .. W : Stop(n)}
           Good(n) == /\ \A k \in 0 .. n - 1 : stored[(j + k) % W]
                      /\ n = W \/ ~stored[(j + n) % W]
<1>1. T \in SUBSET Nat /\ W \in T
  BY WindowAssumption
<1>2. PICK n \in T : \A y \in T : n <= y
  BY <1>1, LeastNat, Zenon
<1>3. \A k \in 0 .. n - 1 : stored[(j + k) % W]
  BY <1>2, WindowAssumption
<1>4. n \in 0 .. W /\ Good(n)
  BY <1>2, <1>3, Zenon
<1>5. PurgeLen(stored, j) = CHOOSE m \in 0 .. W : Good(m)
  BY Zenon DEF PurgeLen
<1>6. PurgeLen(stored, j) \in 0 .. W /\ Good(PurgeLen(stored, j))
  BY <1>4, <1>5, Zenon
<1> QED
  BY <1>6, Zenon

(* The packets one call takes out of the buffer. *)
LEMMA PurgedPackets ==
    ASSUME NEW d \in DbrType
    PROVE  LET first == (d.next + 1) % W
               n     == PurgeLen(d.stored, first)
               t     == [k \in 1 .. n |-> d.buff[(first + k - 1) % W]]
           IN  /\ first \in Slots /\ n \in 0 .. W
               /\ t \in Seq(Packet) /\ Len(t) = n
               /\ \A k \in 1 .. n : /\ (first + k - 1) % W \in Slots
                                    /\ d.stored[(first + k - 1) % W]
                                    /\ t[k] = d.buff[(first + k - 1) % W]
<1> DEFINE first == (d.next + 1) % W
           n     == PurgeLen(d.stored, first)
           t     == [k \in 1 .. n |-> d.buff[(first + k - 1) % W]]
<1>1. d.next \in Slots /\ d.stored \in [Slots -> BOOLEAN] /\ d.buff \in [Slots -> Packet]
  BY Zenon DEF DbrType
<1>2. first \in Slots
  <2>1. d.next + 1 \in Nat
    BY <1>1, WindowAssumption DEF Slots
  <2> QED
    BY <2>1, DivMod, Zenon
<1> HIDE DEF first
<1>3. n \in 0 .. W /\ \A k \in 0 .. n - 1 : d.stored[(first + k) % W]
  BY <1>1, <1>2, PurgeLenExists, Zenon
<1> HIDE DEF n
<1>4. ASSUME NEW k \in 1 .. n
      PROVE  (first + k - 1) % W \in Slots /\ d.stored[(first + k - 1) % W]
  <2>1. k - 1 \in 0 .. n - 1 /\ first + (k - 1) = first + k - 1 /\ first + k - 1 \in Nat
    BY <1>2, <1>3, WindowAssumption DEF Slots
  <2> QED
    BY <2>1, <1>3, DivMod, Zenon
<1>5. \A k \in 1 .. n : d.buff[(first + k - 1) % W] \in Packet
  BY <1>1, <1>4, Zenon
<1>6. n \in Nat
  BY <1>3, WindowAssumption
<1>7. t \in [1 .. n -> Packet]
  BY <1>5, Zenon
<1>8. t \in Seq(Packet) /\ Len(t) = n
  BY <1>6, <1>7
<1> QED
  BY <1>2, <1>3, <1>4, <1>8, Zenon DEF first, n

(* __process_packet() keeps the buffer well formed. *)
LEMMA ProcessPacketType ==
    ASSUME NEW d \in DbrType, NEW pkt \in Packet
    PROVE  ProcessPacket(d, pkt) \in DbrType
<1> DEFINE first == (d.next + 1) % W
           n     == PurgeLen(d.stored, first)
           t     == [k \in 1 .. n |-> d.buff[(first + k - 1) % W]]
<1>1. CASE pkt.seq = d.next
  <2>1. first \in Slots /\ n \in 0 .. W /\ t \in Seq(Packet)
    BY PurgedPackets, Zenon
  <2> HIDE DEF first, n, t
  <2>2. (first + n) % W \in Slots
    <3>1. first + n \in Nat
      BY <2>1, WindowAssumption DEF Slots
    <3> QED
      BY <3>1, DivMod, Zenon
  <2>3. Append(d.out, pkt) \o t \in Seq(Packet)
    BY <2>1 DEF DbrType
  <2>4. d.bytes + (n + 1) * DataLen(pkt) \in Int
    <3>1. n + 1 \in Int
      BY <2>1, WindowAssumption
    <3>2. DataLen(pkt) \in Int
      BY GeometryAssumption DEF DataLen, Packet
    <3>3. (n + 1) * DataLen(pkt) \in Int
      BY <3>1, <3>2
    <3> QED
      BY <3>3 DEF DbrType
  <2>5. [s \in Slots |-> d.stored[s] /\ \A k \in 0 .. n - 1 : s # (first + k) % W]
            \in [Slots -> BOOLEAN]
    BY Zenon DEF DbrType
  <2>6. d.buff \in [Slots -> Packet]
    BY Zenon DEF DbrType
  <2>7. ProcessPacket(d, pkt) = DeliverAndPurge(d, pkt)
    BY <1>1, Zenon DEF ProcessPacket
  <2> QED
    BY <2>2, <2>3, <2>4, <2>5, <2>6, <2>7 DEF DeliverAndPurge, first, n, t, DbrType
<1>2. CASE pkt.seq # d.next
  BY <1>2, Zenon DEF ProcessPacket, Store, DbrType, Packet
<1> QED
  BY <1>1, <1>2, Zenon

(* The buffer and what has left it hold packets at places that agree with  *)
(* their index modulo the window.                                          *)
DbrCongruent(d) ==
    /\ d.next = Len(d.out) % W
    /\ \A k \in 1 .. Len(d.out) : d.out[k].pay % W = (k - 1) % W
    /\ \A s \in Slots : d.stored[s] => d.buff[s].pay % W = s

(* A packet whose number is its index modulo the window keeps the buffer   *)
(* congruent, whether it is delivered, purges others or is stored.         *)
LEMMA ProcessPacketCongruent ==
    ASSUME NEW d \in DbrType, NEW pkt \in Packet,
           pkt.pay % W = pkt.seq, DbrCongruent(d)
    PROVE  DbrCongruent(ProcessPacket(d, pkt))
<1> DEFINE e == ProcessPacket(d, pkt)
<1>0. /\ d.next \in Slots /\ d.out \in Seq(Packet) /\ Len(d.out) \in Nat
      /\ d.stored \in [Slots -> BOOLEAN] /\ d.buff \in [Slots -> Packet]
  BY DEF DbrType
<1>1. CASE pkt.seq = d.next
  <2> DEFINE first == (d.next + 1) % W
             n     == PurgeLen(d.stored, first)
             t     == [k \in 1 .. n |-> d.buff[(first + k - 1) % W]]
             L     == Len(d.out)
  <2>1. /\ first \in Slots /\ n \in 0 .. W
        /\ t \in Seq(Packet) /\ Len(t) = n
        /\ \A k \in 1 .. n : /\ (first + k - 1) % W \in Slots
                             /\ d.stored[(first + k - 1) % W]
                             /\ t[k] = d.buff[(first + k - 1) % W]
    BY PurgedPackets, Zenon
  <2>2. /\ e.next = (first + n) % W
        /\ e.out = Append(d.out, pkt) \o t
        /\ e.buff = d.buff
        /\ \A s \in Slots : e.stored[s] => d.stored[s]
    BY <1>0, <1>1, Zenon DEF ProcessPacket, DeliverAndPurge
  <2>3. first = (L + 1) % W
    BY <1>0, ModAdd, Zenon DEF DbrCongruent
  <2> HIDE DEF first, n, t, e
  <2>4. n \in Nat /\ L \in Nat
    BY <1>0, <2>1, WindowAssumption
  <2>5. LET a == Append(d.out, pkt)
        IN  /\ a \in Seq(Packet) /\ Len(a) = L + 1
            /\ \A k \in 1 .. L : a[k] = d.out[k]
            /\ a[L + 1] = pkt
    BY <1>0
  <2>6. /\ Len(e.out) = L + 1 + n
        /\ \A k \in 1 .. L : e.out[k] = d.out[k]
        /\ e.out[L + 1] = pkt
        /\ \A k \in 1 .. n : e.out[L + 1 + k] = t[k]
    <3> DEFINE a == Append(d.out, pkt)
    <3>1. /\ a \in Seq(Packet) /\ Len(a) = L + 1
          /\ \A k \in 1 .. L : a[k] = d.out[k]
          /\ a[L + 1] = pkt
          /\ e.out = a \o t
      BY <2>2, <2>5, Zenon
    <3> HIDE DEF a, L
    <3>2. /\ Len(a \o t) = (L + 1) + n
          /\ \A k \in 1 .. (L + 1) + n :
                (a \o t)[k] = IF k <= L + 1 THEN a[k] ELSE t[k - (L + 1)]
      <4>1. a \in Seq(Packet) /\ t \in Seq(Packet)
        BY <3>1, <2>1, Zenon
      <4>2. /\ Len(a \o t) = Len(a) + Len(t)
            /\ \A k \in 1 .. Len(a) + Len(t) :
                  (a \o t)[k] = IF k <= Len(a) THEN a[k] ELSE t[k - Len(a)]
        BY <4>1, Concat, Zenon
      <4>3. Len(a) = L + 1 /\ Len(t) = n
        BY <3>1, <2>1, Zenon
      <4> QED
        BY <4>2, <4>3, Zenon
    <3>3. \A k \in 1 .. n : L + 1 + k \in 1 .. (L + 1) + n /\ ~(L + 1 + k <= L + 1)
                           /\ L + 1 + k - (L + 1) = k
      BY <2>4
    <3> QED
      BY <3>1, <3>2, <3>3, <2>4
  <2>7. e.next = Len(e.out) % W
    <3> HIDE DEF L
    <3>1. (first + n) % W = (L + 1 + n) % W
      BY <2>3, <2>4, ModAdd
    <3> QED
      BY <3>1, <2>2, <2>6, Zenon
  <2>8. ASSUME NEW k \in 1 .. Len(e.out)
        PROVE  e.out[k].pay % W = (k - 1) % W
    <3>1. CASE k \in 1 .. L
      BY <3>1, <2>6, Zenon DEF DbrCongruent
    <3>2. CASE k = L + 1
      BY <3>2, <1>1, <2>4, <2>6 DEF DbrCongruent
    <3>3. CASE k \in L + 2 .. L + 1 + n
      <4> DEFINE m == k - L - 1
                 p == (first + m - 1) % W
      <4> HIDE DEF L
      <4>1. m \in 1 .. n /\ L + 1 + m = k
        BY <3>3, <2>4
      <4>2. e.out[k] = d.buff[p] /\ p \in Slots /\ d.stored[p]
        BY <4>1, <2>1, <2>6, Zenon
      <4>3. e.out[k].pay % W = p
        BY <4>2, Zenon DEF DbrCongruent
      <4>4. p = (k - 1) % W
        <5>1. m - 1 \in Nat /\ L + 1 \in Nat /\ first + m - 1 = first + (m - 1)
              /\ L + 1 + (m - 1) = k - 1
          BY <4>1, <2>1, <2>4 DEF Slots
        <5> HIDE DEF m
        <5>2. (first + (m - 1)) % W = (L + 1 + (m - 1)) % W
          BY <5>1, <2>3, ModAdd, Zenon
        <5> QED
          BY <5>1, <5>2, Zenon
      <4> QED
        BY <4>3, <4>4, Zenon
    <3> QED
      BY <3>1, <3>2, <3>3, <2>4, <2>6
  <2>9. \A s \in Slots : e.stored[s] => e.buff[s].pay % W = s
    BY <2>2, Zenon DEF DbrCongruent
  <2> QED
    BY <2>7, <2>8, <2>9, Zenon DEF DbrCongruent, e
<1>2. CASE pkt.seq # d.next
  BY <1>0, <1>2, Zenon DEF ProcessPacket, Store, DbrCongruent, DbrType, Packet
<1> QED
  BY <1>1, <1>2, Zenon

(* next_num always names a missing packet after __process_packet(): the    *)
(* purge loop stopped there, or cleared the slot in a full turn.           *)
LEMMA NextStaysMissing ==
    ASSUME NEW d \in DbrType, NEW pkt \in Packet,
           ~d.stored[d.next]
    PROVE  ~ProcessPacket(d, pkt).stored[ProcessPacket(d, pkt).next]
<1> DEFINE e == ProcessPacket(d, pkt)
<1>0. d.next \in Slots /\ d.stored \in [Slots -> BOOLEAN]
  BY Zenon DEF DbrType
<1>1. CASE pkt.seq = d.next
  <2> DEFINE first == (d.next + 1) % W
             n     == PurgeLen(d.stored, first)
             nxt   == (first + n) % W
  <2>1. first \in Slots /\ n \in 0 .. W
    BY PurgedPackets, Zenon
  <2>2. n = W \/ ~d.stored[nxt]
    BY <1>0, <2>1, PurgeLenExists, Zenon
  <2>3. /\ e.next = nxt
        /\ \A s \in Slots : e.stored[s] <=>
                d.stored[s] /\ \A k \in 0 .. n - 1 : s # (first + k) % W
    BY <1>0, <1>1, Zenon DEF ProcessPacket, DeliverAndPurge
  <2> HIDE DEF first, n, e
  <2>4. nxt \in Slots
    <3>1. first + n \in Nat
      BY <2>1, WindowAssumption DEF Slots
    <3> QED
      BY <3>1, DivMod, Zenon
  <2>5. CASE n = W
    <3>1. (first + W) % W = first
      <4> DEFINE q == 1
      <4>1. first + W = W * q + first /\ first + W \in Nat
        BY <2>1, WindowAssumption DEF Slots
      <4> QED
        BY <4>1, <2>1, ModUnique, Zenon
    <3>2. nxt = (first + 0) % W /\ 0 \in 0 .. n - 1
      <4>1. first + 0 = first
        BY <2>1 DEF Slots
      <4> QED
        BY <4>1, <3>1, <2>1, <2>5, ModSlot, WindowAssumption
    <3> QED
      BY <3>2, <2>3, <2>4 DEF e
  <2>6. CASE ~d.stored[nxt]
    BY <2>6, <2>3, <2>4, Zenon DEF e
  <2> QED
    BY <2>2, <2>5, <2>6, Zenon
<1>2. CASE pkt.seq # d.next
  BY <1>0, <1>2, Zenon DEF ProcessPacket, Store, DbrType, Packet
<1> QED
  BY <1>1, <1>2, Zenon

(* With nothing stored, the packet the buffer waits for is delivered alone *)
(* and the buffer waits for the next one.                                  *)
LEMMA ProcessExpected ==
    ASSUME NEW d \in DbrType, NEW pkt \in Packet, pkt.seq = d.next,
           \A s \in Slots : ~d.stored[s]
    PROVE  /\ ProcessPacket(d, pkt).next = (d.next + 1) % W
           /\ \A s \in Slots : ~ProcessPacket(d, pkt).stored[s]
           /\ ProcessPacket(d, pkt).out = Append(d.out, pkt)
<1> DEFINE e     == ProcessPacket(d, pkt)
           first == (d.next + 1) % W
           n     == PurgeLen(d.stored, first)
           t     == [k \in 1 .. n |-> d.buff[(first + k - 1) % W]]
<1>0. d.next \in Slots /\ d.stored \in [Slots -> BOOLEAN]
  BY Zenon DEF DbrType
<1>1. first \in Slots /\ n \in 0 .. W
  BY PurgedPackets, Zenon
<1>2. e.next = (first + n) % W /\ \A s \in Slots : e.stored[s] => d.stored[s]
  BY Zenon DEF ProcessPacket, DeliverAndPurge
<1>a. e.out = Append(d.out, pkt) \o t /\ t \in Seq(Packet) /\ Len(t) = n
  BY PurgedPackets, Zenon DEF ProcessPacket, DeliverAndPurge
<1>3. \A k \in 0 .. n - 1 : d.stored[(first + k) % W]
  BY <1>0, <1>1, PurgeLenExists, Zenon
<1> HIDE DEF n, first, t
<1>4. n = 0
  <2> SUFFICES ASSUME n # 0 PROVE FALSE
    BY Zenon
  <2>1. 0 \in 0 .. n - 1 /\ first + 0 = first
    BY <1>1, WindowAssumption DEF Slots
  <2>2. d.stored[first]
    BY <2>1, <1>1, <1>3, ModSlot, Zenon
  <2> QED
    BY <2>2, <1>1, Zenon
<1>5. first + n = first
  BY <1>1, <1>4, WindowAssumption DEF Slots
<1>6. e.next = first
  BY <1>1, <1>2, <1>5, ModSlot, Zenon
<1>7. e.out = Append(d.out, pkt)
  <2>1. d.out \in Seq(Packet)
    BY Zenon DEF DbrType
  <2>2. Append(d.out, pkt) \in Seq(Packet) /\ t = << >>
    BY <2>1, <1>a, <1>4
  <2> QED
    BY <2>2, <1>a, ConcatEmpty, Zenon
<1> QED
  BY <1>2, <1>6, <1>7, Zenon DEF first
-----------------------------------------------------------------------------

(* Inside a flush the round counter has not passed RETX_MAX. *)
RoundBound == pc # "idle" => txNum <= RetxMax

(* The window, the header and the lengths are natural numbers. *)
LEMMA ConstantTypes ==
    /\ W \in Nat /\ W > 0 /\ 0 \in Slots /\ W - 1 \in Slots
    /\ \A s \in Slots : s \in Nat /\ s < W
    /\ HdrLen \in Nat /\ OnWireSize \in Nat /\ RetxMax \in Nat
    /\ \A n \in Lens : n \in Nat
  BY WindowAssumption, GeometryAssumption, SenderAssumption DEF Slots, OnWireSize

(* The reorder buffer starts well formed. *)
LEMMA DbrInitType == DbrInit \in DbrType /\ NoPacket \in Packet
  BY ConstantTypes DEF DbrInit, DbrType, NoPacket, Packet, Damage

(* The zeroed maps and the empty path are well typed. *)
LEMMA InitType == LinkInit => LinkType /\ RoundBound
<1> SUFFICES ASSUME LinkInit PROVE LinkType /\ RoundBound
  BY Zenon
<1>1. 0 \in 0 .. W /\ 0 \in 0 .. RetxMax + 1
  BY ConstantTypes
<1>2. SenderType /\ RoundBound
  BY <1>1, ConstantTypes, DbrInitType, EmptyIsSeq, Zenon
     DEF LinkInit, SenderInit, SenderType, RoundBound, ZeroEvent, Event
<1>3. ReceiverType
  BY DbrInitType, EmptyIsSeq, Zenon DEF LinkInit, ReceiverInit, ReceiverType
<1> QED
  BY <1>2, <1>3, Zenon DEF LinkInit, PathInit, LinkType

(* num_seq and ack_num stay slot numbers. *)
LEMMA NextNumType == \A n \in Slots : NextNum(n) \in Slots
  BY ConstantTypes, DivMod DEF NextNum

(* What a retransmission sends is a packet with the number and the payload *)
(* of the slot.                                                            *)
LEMMA ResendType ==
    ASSUME SenderType, NEW j \in 0 .. curWin
    PROVE  /\ j \in Slots /\ Resend(j) \in Packet
           /\ Resend(j).pay = bufWnd[j].pay /\ Resend(j).seq = bufWnd[j].seq
<1>1. j \in Slots
  BY ConstantTypes DEF SenderType, Slots
<1>2. bufWnd[j] \in Packet /\ lastLen \in Nat
  BY <1>1, Zenon DEF SenderType
<1> QED
  BY <1>1, <1>2, ConstantTypes, Zenon DEF Resend, Packet
-----------------------------------------------------------------------------
(* The path carries packets and answers only. *)
LEMMA PathType ==
    ASSUME LinkType, PathNext
    PROVE  /\ data' \subseteq Packet /\ back' \subseteq Answer
           /\ faults' \in Nat /\ harmed' \subseteq Harms
<1>0. data \subseteq Packet /\ back \subseteq Answer /\ faults \in Nat /\ harmed \subseteq Harms
  BY Zenon DEF LinkType
<1>1. CASE LosePacket
  BY <1>0, <1>1 DEF LosePacket
<1>2. CASE LoseAnswer
  <2>1. back' \subseteq back /\ data' = data /\ faults' = faults + 1 /\ harmed' = harmed \union {"answer"}
    BY <1>2, Zenon DEF LoseAnswer
  <2>2. harmed' \subseteq Harms
    BY <1>0, <2>1, Zenon DEF Harms
  <2> QED
    BY <1>0, <2>1, <2>2
<1>3. CASE DamagePacket
  <2>1. PICK m \in data, h \in Harm :
          /\ data' = Take(data, m) \union {[m EXCEPT !.bad = h]}
          /\ harmed' = harmed \union {h}
    BY <1>3, Zenon DEF DamagePacket
  <2>2. m \in Packet /\ h \in Damage
    BY <1>0, PathAssumption, Zenon DEF Damage
  <2>3. [m EXCEPT !.bad = h] \in Packet
    BY <2>2, Zenon DEF Packet
  <2>4. Take(data, m) \subseteq Packet
    BY <1>0, Zenon DEF Take
  <2>5. data' \subseteq Packet
    BY <2>1, <2>3, <2>4, Zenon
  <2>6. back' = back /\ faults' = faults + 1
    BY <1>3, Zenon DEF DamagePacket
  <2>7. harmed' \subseteq Harms
    BY <1>0, <2>1, PathAssumption, Zenon DEF Harms
  <2> QED
    BY <1>0, <2>5, <2>6, <2>7
<1> QED
  BY <1>1, <1>2, <1>3, Zenon DEF PathNext

(* The answer to a packet, and the packet appended to the receive ring. *)
LEMMA JudgeType ==
    ASSUME LinkType, NEW m \in data, Arrive(m), Redirect(m) \/ Refuse(m) \/ Ignore
    PROVE  /\ data' \subseteq Packet /\ faults' \in Nat /\ back' \subseteq Answer
           /\ harmed' \subseteq Harms /\ ReceiverType'
<1>0. /\ data \subseteq Packet /\ back \subseteq Answer /\ faults \in Nat /\ harmed \subseteq Harms
      /\ ReceiverType /\ m \in Packet
  BY Zenon DEF LinkType
<1>1. data' \subseteq data /\ faults' \in {faults, faults + 1} /\ harmed' = harmed
  BY Zenon DEF Arrive, Take
<1>2. data' \subseteq Packet /\ faults' \in Nat /\ harmed' \subseteq Harms
  BY <1>0, <1>1
<1>3. AnswerTo(m, "ACK") \in Answer /\ AnswerTo(m, "NACK") \in Answer
  BY <1>0, Zenon DEF AnswerTo, Answer, Packet
<1>4. CASE Redirect(m)
  <2>1. rx \in Seq(Packet) /\ Append(rx, m) \in Seq(Packet)
    BY <1>0 DEF ReceiverType
  <2>2. rx' \in Seq(Packet) /\ back' \subseteq Answer
    BY <1>0, <1>3, <1>4, <2>1, Zenon DEF Redirect
  <2>3. overrun' \in BOOLEAN /\ UNCHANGED <<batch, held, dbr, rxStarts, passed>>
    BY <1>0, <1>4, Zenon DEF Redirect, ReceiverType
  <2> QED
    BY <1>0, <1>2, <2>2, <2>3, Zenon DEF ReceiverType
<1>5. CASE Refuse(m)
  <2>1. back' \subseteq Answer
    BY <1>0, <1>3, <1>5, Zenon DEF Refuse
  <2>2. UNCHANGED <<rx, batch, held, dbr, rxStarts, overrun, passed>>
    BY <1>5, Zenon DEF Refuse, recvVars
  <2> QED
    BY <1>0, <1>2, <2>1, <2>2, Zenon DEF ReceiverType
<1>6. CASE Ignore
  <2>1. passed' = TRUE /\ UNCHANGED <<rx, batch, held, dbr, rxStarts, overrun, back>>
    BY <1>6, Zenon DEF Ignore
  <2> QED
    BY <1>0, <1>2, <2>1, Zenon DEF ReceiverType
<1> QED
  BY <1>4, <1>5, <1>6, Zenon

(* The application takes a packet out of the ring. *)
LEMMA ProcessType == ASSUME ReceiverType, Process PROVE ReceiverType'
<1>0. rx \in Seq(Packet) /\ rx # << >> /\ dbr \in DbrType /\ batch \in Nat /\ held \in Nat
  BY Zenon DEF ReceiverType, Process
<1>1. Head(rx) \in Packet /\ Tail(rx) \in Seq(Packet)
  BY <1>0
<1>2. dbr' \in DbrType
  BY <1>0, <1>1, ProcessPacketType, Zenon DEF Process
<1>3. batch' \in Nat /\ held' \in Nat
  <2>1. Len(rx) \in Nat /\ Len(rx) # 0
    BY <1>0
  <2>2. Peeked \in Nat /\ Peeked >= 1
    BY <2>1, ReceiverAssumption DEF Peeked
  <2> QED
    BY <1>0, <2>2 DEF Process
<1>4. rx' \in Seq(Packet)
  BY <1>1, Zenon DEF Process
<1>5. UNCHANGED <<rxStarts, overrun, passed>>
  BY Zenon DEF Process
<1> QED
  BY <1>2, <1>3, <1>4, <1>5, Zenon DEF ReceiverType

(* A restarted receiver is well typed. *)
LEMMA AttachType == ASSUME ReceiverType, Attach PROVE ReceiverType'
<1>1. /\ rx' = << >> /\ batch' = 0 /\ held' = 0 /\ rxStarts' = rxStarts + 1
      /\ dbr' = [DbrInit EXCEPT !.out = dbr.out] /\ UNCHANGED <<overrun, passed>>
  BY Zenon DEF Attach
<1>2. dbr' \in DbrType
  BY <1>1, DbrInitType, Zenon DEF ReceiverType, DbrType
<1>3. rx' \in Seq(Packet)
  BY <1>1, EmptyIsSeq, Zenon
<1> QED
  BY <1>1, <1>2, <1>3 DEF ReceiverType
-----------------------------------------------------------------------------
(* Filling a slot keeps the types of the sending host and of the path. *)
LEMMA FillType ==
    ASSUME LinkType, NEW len \in Lens, NEW event \in Event, Fill(len, event)
    PROVE  /\ SenderType' /\ RoundBound' /\ data' \subseteq Packet
           /\ UNCHANGED <<back, faults, harmed>>
<1> USE ConstantTypes
<1>0. /\ SenderType /\ data \subseteq Packet /\ numSeq \in Slots /\ sent \in Seq(Lens)
  BY Zenon DEF LinkType, SenderType
<1>1. NewPacket(len) \in Packet
  <2>1. Len(sent) \in Nat /\ len \in Nat
    BY <1>0
  <2>2. HdrLen + len \in Nat
    BY <2>1
  <2> QED
    BY <1>0, <2>1, <2>2, Zenon DEF NewPacket, Packet, Damage
<1>2. SaveLen(len) \in Nat
  BY DEF SaveLen
<1>3. /\ ackWnd' \in [Slots -> Event] /\ lenWnd' \in [Slots -> Nat]
      /\ bufWnd' \in [Slots -> Packet]
  BY <1>0, <1>1, <1>2, Zenon DEF Fill, Armed, SenderType
<1>4. numSeq' \in Slots /\ curWin' \in Slots /\ cursor' \in Slots
  BY <1>0, NextNumType, Zenon DEF Fill
<1>5. /\ data' = data \union {NewPacket(len)} /\ sent' = Append(sent, len)
      /\ lastLen' = HdrLen + len
  BY Zenon DEF Fill
<1>6. data' \subseteq Packet
  BY <1>0, <1>1, <1>5, Zenon
<1>7. sent' \in Seq(Lens) /\ lastLen' \in Nat
  BY <1>0, <1>5
<1>8. /\ pc' \in {"idle", "timer", "scan"} /\ i' \in 0 .. W
      /\ txNum' \in 0 .. RetxMax + 1 /\ RoundBound'
  BY DEF Fill, RoundBound
<1>9. UNCHANGED <<back, faults, harmed, txStarts, confirmed, gaveUp>>
  BY Zenon DEF Fill
<1> QED
  BY <1>0, <1>3, <1>4, <1>6, <1>7, <1>8, <1>9, Zenon DEF SenderType

(* Every step keeps the types, and a flush within its rounds. *)
LEMMA StepType ==
    ASSUME LinkType, RoundBound, [LinkNext]_linkVars
    PROVE  LinkType' /\ RoundBound'
<1> USE ConstantTypes
<1>0. /\ data \subseteq Packet /\ back \subseteq Answer /\ faults \in Nat /\ harmed \subseteq Harms
      /\ SenderType /\ ReceiverType
  BY Zenon DEF LinkType
<1>1. ASSUME UNCHANGED recvVars PROVE ReceiverType'
  BY <1>0, <1>1, Zenon DEF recvVars, ReceiverType
<1>2. ASSUME UNCHANGED sendVars PROVE SenderType' /\ RoundBound'
  BY <1>0, <1>2, Zenon DEF sendVars, callVars, mapVars, histVars, SenderType, RoundBound
<1>3. CASE SenderStart
  <2>0. Boot
    BY <1>3, Zenon DEF SenderStart
  <2>1. ackWnd' \in [Slots -> Event] /\ lenWnd' \in [Slots -> Nat]
    BY <1>0, <2>0, Zenon DEF Boot, SenderType, Event
  <2>2. numSeq' \in Slots /\ txStarts' \in Nat
    BY <1>0, <2>0 DEF Boot, SenderType
  <2>3. UNCHANGED <<bufWnd, pc, cursor, i, curWin, lastLen, txNum, sent, confirmed, gaveUp>>
    BY <2>0, Zenon DEF Boot, callVars, histVars
  <2>4. SenderType' /\ RoundBound'
    BY <1>0, <2>1, <2>2, <2>3, Zenon DEF SenderType, RoundBound
  <2>5. UNCHANGED <<data, back, faults, harmed>> /\ ReceiverType'
    BY <1>1, <1>3, Zenon DEF SenderStart, pathVars
  <2> QED
    BY <1>0, <2>4, <2>5, Zenon DEF LinkType
<1>4. ASSUME NEW len \in Lens, NEW event \in Event, Fill(len, event), UNCHANGED recvVars
      PROVE  LinkType' /\ RoundBound'
  BY <1>0, <1>1, <1>4, FillType, Zenon DEF LinkType
<1>5. CASE Wake /\ UNCHANGED <<pathVars, recvVars>>
  <2>1. txNum' \in 0 .. RetxMax + 1 /\ pc' \in {"idle", "timer", "scan"} /\ RoundBound'
    BY <1>0, <1>5 DEF Wake, Rounds, RoundsOver, SenderType, RoundBound
  <2>2. i' \in 0 .. W
    BY <1>0, <1>5 DEF Wake, SenderType, Slots
  <2>3. gaveUp' \in BOOLEAN
    BY <1>0, <1>5, Zenon DEF Wake, SenderType
  <2>4. UNCHANGED <<numSeq, ackWnd, bufWnd, lenWnd, cursor, curWin, lastLen, txStarts,
                    sent, confirmed, data, back, faults, harmed>>
    BY <1>5, Zenon DEF Wake, mapVars, pathVars
  <2>5. SenderType'
    BY <1>0, <2>1, <2>2, <2>3, <2>4, Zenon DEF SenderType
  <2> QED
    BY <1>0, <1>1, <1>5, <2>1, <2>4, <2>5, Zenon DEF LinkType
<1>6. CASE FlushStep
  <2>1. PICK S \in SUBSET (0 .. curWin) : data' = data \union {Resend(j) : j \in S}
    BY <1>6, Zenon DEF FlushStep
  <2>2. data' \subseteq Packet
    BY <1>0, <2>1, ResendType, Zenon
  <2>3. /\ pc' \in {"idle", "timer", "scan"} /\ cursor' \in Slots /\ i' \in 0 .. W
        /\ ackWnd' \in [Slots -> Event] /\ pc # "idle"
    BY <1>6, Zenon DEF FlushStep
  <2>4. /\ UNCHANGED <<back, faults, harmed, curWin, lastLen, txNum, numSeq, bufWnd, lenWnd, txStarts,
                       sent, confirmed, gaveUp>>
        /\ UNCHANGED recvVars
    BY <1>6, Zenon DEF FlushStep, histVars
  <2>5. SenderType' /\ RoundBound'
    BY <1>0, <2>3, <2>4, Zenon DEF SenderType, RoundBound
  <2> QED
    BY <1>0, <1>1, <2>2, <2>4, <2>5, Zenon DEF LinkType
<1>7. CASE FlushEnd
  <2>1. \A s \in 0 .. curWin : bufWnd[s].pay \in Nat
    BY <1>0, ResendType, Zenon DEF SenderType, Packet
  <2>2. confirmed' = confirmed \union {bufWnd[s].pay : s \in 0 .. curWin} /\ pc' = "idle"
    BY <1>7, Zenon DEF FlushEnd, Confirm
  <2>3. confirmed' \subseteq Nat
    BY <1>0, <2>1, <2>2, Zenon DEF SenderType
  <2>4. /\ UNCHANGED <<cursor, i, curWin, lastLen, txNum, sent, gaveUp, numSeq, ackWnd, bufWnd,
                       lenWnd, txStarts, data, back, faults, harmed>>
        /\ UNCHANGED recvVars
    BY <1>7, Zenon DEF FlushEnd, Confirm, mapVars, pathVars
  <2>5. SenderType' /\ RoundBound'
    BY <1>0, <2>2, <2>3, <2>4, Zenon DEF SenderType, RoundBound
  <2> QED
    BY <1>0, <1>1, <2>4, <2>5, Zenon DEF LinkType
<1>8. ASSUME NEW event \in Event, Hear(event), UNCHANGED recvVars
      PROVE  LinkType' /\ RoundBound'
  <2>1. PICK r \in back :
          /\ back' = Take(back, r)
          /\ ackWnd' = [ackWnd EXCEPT
                          ![r.seq] = IF r.type = "NACK" THEN event ELSE "RECV_ACK"]
    BY <1>8, Zenon DEF Hear
  <2>2. UNCHANGED <<data, faults, harmed, numSeq, bufWnd, lenWnd, txStarts, pc, cursor, i, curWin,
                    lastLen, txNum, sent, confirmed, gaveUp>>
    BY <1>8, Zenon DEF Hear, callVars, histVars
  <2>3. ackWnd' \in [Slots -> Event]
    BY <1>0, <1>8, <2>1, Zenon DEF SenderType, Event
  <2>4. back' \subseteq Answer
    BY <1>0, <2>1, Zenon DEF Take
  <2>5. SenderType' /\ RoundBound'
    BY <1>0, <2>2, <2>3, Zenon DEF SenderType, RoundBound
  <2> QED
    BY <1>0, <1>1, <1>8, <2>2, <2>4, <2>5, Zenon DEF LinkType
<1>9. CASE ReceiverStart
  <2>1. Attach /\ UNCHANGED <<data, back, faults, harmed>> /\ UNCHANGED sendVars
    BY <1>9, Zenon DEF ReceiverStart, pathVars
  <2> QED
    BY <1>0, <1>2, <2>1, AttachType, Zenon DEF LinkType
<1>10. CASE Judge
  <2>1. PICK m \in data :
          /\ Arrive(m) /\ (Redirect(m) \/ Refuse(m) \/ Ignore) /\ UNCHANGED sendVars
    BY <1>10 DEF Judge
  <2> QED
    BY <1>2, <2>1, JudgeType, Zenon DEF LinkType
<1>11. CASE Receive
  <2>1. Process /\ UNCHANGED <<data, back, faults, harmed>> /\ UNCHANGED sendVars
    BY <1>11 DEF Receive, pathVars
  <2> QED
    BY <1>0, <1>2, <2>1, ProcessType DEF LinkType
<1>12. CASE PathStep
  BY <1>1, <1>2, <1>12, PathType, Zenon DEF PathStep, LinkType
<1>13. CASE UNCHANGED linkVars
  <2>1. UNCHANGED sendVars /\ UNCHANGED recvVars /\ UNCHANGED <<data, back, faults, harmed>>
    BY <1>13, Zenon DEF linkVars, sendVars, recvVars, callVars, mapVars, histVars
  <2> QED
    BY <1>0, <1>1, <1>2, <2>1, Zenon DEF LinkType
<1> QED
  BY <1>3, <1>4, <1>5, <1>6, <1>7, <1>8, <1>9, <1>10, <1>11, <1>12, <1>13, Zenon DEF LinkNext

(* The state of the maps, of the rings and of dbr.c is always of its type: *)
(* in particular the slot numbers taken from headers index the maps in     *)
(* range and tx_num never runs past RETX_MAX + 1.                          *)
THEOREM LinkTypeCorrect == LinkSpec => [](LinkType /\ RoundBound)
<1>1. LinkType /\ RoundBound /\ [LinkNext]_linkVars => (LinkType /\ RoundBound)'
  BY StepType, Zenon
<1> QED
  BY <1>1, InitType, PTL DEF LinkSpec
-----------------------------------------------------------------------------
(* Only the application, reading or restarting, touches the reorder buffer. *)
LEMMA DbrWriters ==
    ASSUME [LinkNext]_linkVars
    PROVE  dbr' = dbr \/ Process \/ Attach
<1>1. CASE LinkNext
  BY <1>1, Zenon DEF LinkNext, SenderStart, Wake, FlushStep, FlushEnd, ReceiverStart, Receive,
              PathStep, Judge, Redirect, Refuse, Ignore, recvVars
<1> QED
  BY <1>1, Zenon DEF linkVars

(* The purge loop and the storing path leave next_num at a missing packet. *)
THEOREM LinkNextMissing == LinkSpec => []NextIsMissing
<1>1. LinkInit => NextIsMissing
  BY ConstantTypes DEF LinkInit, ReceiverInit, NextIsMissing, DbrInit
<1>2. LinkType /\ NextIsMissing /\ [LinkNext]_linkVars => NextIsMissing'
  <2> SUFFICES ASSUME LinkType, NextIsMissing, [LinkNext]_linkVars PROVE NextIsMissing'
    BY Zenon
  <2>1. CASE Process
    <3>1. rx \in Seq(Packet) /\ rx # << >> /\ dbr \in DbrType
      BY <2>1, Zenon DEF Process, LinkType, ReceiverType
    <3>2. Head(rx) \in Packet
      BY <3>1
    <3> QED
      BY <2>1, <3>1, <3>2, NextStaysMissing, Zenon DEF Process, NextIsMissing
  <2>2. CASE Attach
    BY <2>2, ConstantTypes, Zenon DEF Attach, NextIsMissing, DbrInit
  <2>3. CASE dbr' = dbr
    BY <2>3, Zenon DEF NextIsMissing
  <2> QED
    BY <2>1, <2>2, <2>3, DbrWriters, Zenon
<1> QED
  BY <1>1, <1>2, LinkTypeCorrect, PTL DEF LinkSpec
-----------------------------------------------------------------------------
(* The strengthening of CongruentDelivery: wherever a packet is kept, in   *)
(* BUF_WND_MAP, in flight, in the receive ring or in the reorder buffer,   *)
(* its number is its index modulo W; and what has not started is empty.    *)
Congruent ==
    /\ txStarts = 0 => sent = << >>
    /\ rxStarts = 0 => dbr = DbrInit /\ rx = << >>
    /\ SingleRun =>
        /\ numSeq = Len(sent) % W
        /\ \A m \in data : m.pay % W = m.seq
        /\ \A s \in Slots : s < Len(sent) => bufWnd[s].seq = s /\ bufWnd[s].pay % W = s
        /\ pc # "idle" => curWin < Len(sent)
        /\ \A k \in 1 .. Len(rx) : rx[k].pay % W = rx[k].seq
        /\ DbrCongruent(dbr)

(* Nothing has been sent, stored or delivered yet. *)
LEMMA InitCongruent == LinkInit => Congruent
<1> SUFFICES ASSUME LinkInit PROVE Congruent
  BY Zenon
<1>1. 0 % W = 0 /\ Len(<< >>) = 0
  BY ConstantTypes, ModSlot, Zenon
<1>2. DbrCongruent(DbrInit)
  BY <1>1 DEF DbrCongruent, DbrInit
<1>3. sent = << >> /\ rx = << >> /\ dbr = DbrInit /\ data = {} /\ numSeq = 0 /\ pc = "idle"
  BY Zenon DEF LinkInit, PathInit, SenderInit, ReceiverInit
<1> QED
  BY <1>1, <1>2, <1>3, ConstantTypes DEF Congruent

(* The steps that leave the packets and the buffers alone. *)
LEMMA QuietCongruent ==
    ASSUME Congruent, UNCHANGED <<data, bufWnd, numSeq, sent, txStarts, rx, dbr, rxStarts, curWin>>,
           pc' = "idle" \/ pc # "idle" \/ pc' = pc
    PROVE  Congruent'
  BY Zenon DEF Congruent, SingleRun, DbrCongruent

(* A packet gets the number of its index, and so does its slot. *)
LEMMA FillCongruent ==
    ASSUME LinkType, Congruent, NEW len \in Lens, NEW event \in Event,
           Fill(len, event), UNCHANGED recvVars
    PROVE  Congruent'
<1> DEFINE L == Len(sent)
           p == NewPacket(len)
<1>1. /\ txStarts > 0 /\ numSeq' = NextNum(numSeq) /\ data' = data \union {p}
      /\ sent' = Append(sent, len) /\ curWin' = numSeq
      /\ bufWnd' = [bufWnd EXCEPT ![numSeq] = p]
      /\ UNCHANGED <<rx, dbr, rxStarts, txStarts>>
  BY Zenon DEF Fill, recvVars
<1>2. /\ numSeq \in Slots /\ L \in Nat /\ Len(sent') = L + 1
      /\ bufWnd \in [Slots -> Packet] /\ numSeq < W /\ txStarts \in Nat
  <2>1. /\ numSeq \in Slots /\ sent \in Seq(Lens)
        /\ bufWnd \in [Slots -> Packet] /\ txStarts \in Nat
    BY Zenon DEF LinkType, SenderType
  <2>2. L \in Nat /\ Len(sent') = L + 1
    BY <1>1, <2>1
  <2>3. numSeq < W
    BY <2>1, ConstantTypes, Zenon
  <2> QED
    BY <2>1, <2>2, <2>3, Zenon
<1>3. p.seq = numSeq /\ p.pay = L
  BY Zenon DEF NewPacket
<1> HIDE DEF p
<1>4. ASSUME SingleRun PROVE numSeq = L % W
  BY <1>4, Zenon DEF Congruent
<1>5. ASSUME SingleRun PROVE numSeq' = Len(sent') % W
  BY <1>1, <1>2, <1>4, <1>5, ModAdd DEF NextNum
<1>6. ASSUME SingleRun PROVE numSeq < L + 1
  <2>1. L = W * (L \div W) + (L % W) /\ L \div W \in Nat
    BY <1>2, DivMod, Zenon
  <2>2. W * (L \div W) \in Nat
    BY <2>1, ConstantTypes
  <2> QED
    BY <1>2, <1>4, <1>6, <2>1, <2>2, ConstantTypes
<1>7. ASSUME SingleRun, NEW s \in Slots, s < L + 1
      PROVE  bufWnd'[s].seq = s /\ bufWnd'[s].pay % W = s
  <2>1. CASE s = numSeq
    BY <2>1, <1>1, <1>2, <1>3, <1>4, <1>7, Zenon
  <2>2. CASE s # numSeq
    <3>1. s # L
      BY <2>2, <1>4, <1>7, ModSlot, Zenon
    <3>2. s < L
      BY <3>1, <1>2, <1>7, ConstantTypes
    <3> QED
      BY <3>2, <2>2, <1>1, <1>2, <1>7, Zenon DEF Congruent
  <2> QED
    BY <2>1, <2>2, Zenon
<1>8. ASSUME SingleRun, NEW m \in data' PROVE m.pay % W = m.seq
  BY <1>1, <1>3, <1>4, <1>8, Zenon DEF Congruent
<1>9. SingleRun' = SingleRun
  BY <1>1, Zenon DEF SingleRun
<1> HIDE DEF L
<1>10. /\ txStarts' = 0 => sent' = << >>
       /\ rxStarts' = 0 => dbr' = DbrInit /\ rx' = << >>
  BY <1>1, <1>2 DEF Congruent
<1>11. SingleRun => (\A k \in 1 .. Len(rx') : rx'[k].pay % W = rx'[k].seq)
                    /\ DbrCongruent(dbr')
  BY <1>1, Zenon DEF Congruent
<1> QED
  BY <1>1, <1>2, <1>5, <1>6, <1>7, <1>8, <1>9, <1>10, <1>11 DEF Congruent, DbrCongruent

(* A retransmission carries the number and the payload of a filled slot.   *)
LEMMA FlushCongruent == ASSUME LinkType, Congruent, FlushStep PROVE Congruent'
<1>1. PICK S \in SUBSET (0 .. curWin) : data' = data \union {Resend(j) : j \in S}
  BY Zenon DEF FlushStep
<1>2. /\ pc # "idle"
      /\ UNCHANGED <<bufWnd, numSeq, sent, txStarts, rx, dbr, rxStarts, curWin>>
  BY Zenon DEF FlushStep, histVars, recvVars
<1>3. ASSUME SingleRun, NEW j \in 0 .. curWin
      PROVE  Resend(j).pay % W = Resend(j).seq
  <2>1. curWin < Len(sent)
    BY <1>2, <1>3, Zenon DEF Congruent
  <2>2. j \in Slots /\ Resend(j).pay = bufWnd[j].pay /\ Resend(j).seq = bufWnd[j].seq
    BY <1>3, ResendType, Zenon DEF LinkType
  <2>a. curWin \in Slots /\ sent \in Seq(Lens)
    BY Zenon DEF LinkType, SenderType
  <2>b. curWin \in Nat
    BY <2>a, ConstantTypes, Zenon
  <2>3. curWin \in Nat /\ j \in Nat /\ j <= curWin /\ sent \in Seq(Lens)
    BY <2>a, <2>b
  <2>4. Len(sent) \in Nat
    BY <2>3
  <2>5. j < Len(sent)
    BY <2>1, <2>3, <2>4
  <2> QED
    BY <1>3, <2>2, <2>5, Zenon DEF Congruent
<1>4. SingleRun => \A m \in data' : m.pay % W = m.seq
  BY <1>1, <1>3, Zenon DEF Congruent
<1> QED
  BY <1>2, <1>4, Zenon DEF Congruent, SingleRun, DbrCongruent

(* The redirect into the receive ring appends one packet: the ring stays
   congruent when that packet is. *)
LEMMA AppendCongruent ==
  ASSUME NEW s \in Seq(Packet), NEW e \in Packet, e.pay % W = e.seq,
         \A k \in 1 .. Len(s) : s[k].pay % W = s[k].seq
  PROVE  \A k \in 1 .. Len(Append(s, e)) : Append(s, e)[k].pay % W = Append(s, e)[k].seq
<1> TAKE k \in 1 .. Len(Append(s, e))
<1>1. Len(s) \in Nat /\ Len(Append(s, e)) = Len(s) + 1
  OBVIOUS
<1>2. CASE k = Len(s) + 1
  BY <1>2
<1>3. CASE k # Len(s) + 1
  <2>1. k \in 1 .. Len(s)
    BY <1>1, <1>3
  <2>2. Append(s, e)[k] = s[k]
    BY <2>1
  <2> QED
    BY <2>1, <2>2, Zenon
<1> QED
  BY <1>2, <1>3, Zenon

(* What enters the receive ring was in flight. *)
LEMMA JudgeCongruent == ASSUME LinkType, Congruent, Judge PROVE Congruent'
<1>1. PICK m \in data :
        /\ Arrive(m) /\ (Redirect(m) \/ Refuse(m) \/ Ignore) /\ UNCHANGED sendVars
  BY Zenon DEF Judge
<1>2. UNCHANGED <<bufWnd, numSeq, sent, txStarts, dbr, rxStarts, curWin, pc>>
  BY <1>1, Zenon DEF callVars, mapVars, histVars, sendVars, Redirect, Refuse, Ignore, recvVars
<1>3. data' \subseteq data
  BY <1>1, Zenon DEF Arrive, Take
<1>4. rx' = rx \/ (rxStarts > 0 /\ rx' = Append(rx, m))
  BY <1>1, Zenon DEF Redirect, Refuse, Ignore, recvVars
<1>5. SingleRun => \A k \in 1 .. Len(rx') : rx'[k].pay % W = rx'[k].seq
  <2>1. CASE rx' = rx
    BY <2>1, Zenon DEF Congruent
  <2>2. CASE rx' = Append(rx, m)
    <3>1. rx \in Seq(Packet) /\ m \in Packet
      BY Zenon DEF LinkType, ReceiverType
    <3>2. SingleRun => /\ m.pay % W = m.seq
                       /\ \A k \in 1 .. Len(rx) : rx[k].pay % W = rx[k].seq
      BY Zenon DEF Congruent
    <3>3. SingleRun => \A k \in 1 .. Len(Append(rx, m)) :
                         Append(rx, m)[k].pay % W = Append(rx, m)[k].seq
      BY <3>1, <3>2, AppendCongruent, Zenon
    <3> QED
      BY <2>2, <3>3, Zenon
  <2> QED
    BY <1>4, <2>1, <2>2, Zenon
<1>6. SingleRun' = SingleRun /\ DbrCongruent(dbr') = DbrCongruent(dbr)
  BY <1>2, Zenon DEF SingleRun
<1>7. rxStarts' = 0 => dbr' = DbrInit /\ rx' = << >>
  <2>1. rxStarts \in Nat
    BY Zenon DEF LinkType, ReceiverType
  <2>2. rxStarts = 0 => rx' = rx
    BY <1>4, <2>1
  <2> QED
    BY <1>2, <2>2, Zenon DEF Congruent
<1> HIDE DEF DbrCongruent
<1> QED
  BY <1>2, <1>3, <1>5, <1>6, <1>7, Zenon DEF Congruent

(* The reorder buffer stays congruent with what the ring hands to it. *)
LEMMA ReceiveCongruent == ASSUME LinkType, Congruent, Receive PROVE Congruent'
<1>1. /\ rx # << >> /\ rx' = Tail(rx) /\ dbr' = ProcessPacket(dbr, Head(rx))
      /\ UNCHANGED <<data, bufWnd, numSeq, sent, txStarts, rxStarts, curWin, pc>>
  BY Zenon DEF Receive, Process, callVars, mapVars, histVars, sendVars, pathVars
<1>2. /\ rx \in Seq(Packet) /\ Head(rx) \in Packet /\ Head(rx) = rx[1] /\ 1 \in 1 .. Len(rx)
      /\ Len(rx') = Len(rx) - 1 /\ (\A k \in 1 .. Len(rx') : rx'[k] = rx[k + 1])
      /\ Len(rx) \in Nat
  BY <1>1 DEF LinkType, ReceiverType
<1>3. ASSUME SingleRun PROVE Head(rx).pay % W = Head(rx).seq
  BY <1>2, <1>3, Zenon DEF Congruent
<1>4. ASSUME SingleRun PROVE DbrCongruent(dbr')
  <2>1. DbrCongruent(dbr) /\ dbr \in DbrType
    BY <1>4, Zenon DEF Congruent, LinkType, ReceiverType
  <2> QED
    BY <2>1, <1>1, <1>2, <1>3, <1>4, ProcessPacketCongruent, Zenon
<1>5. SingleRun => \A k \in 1 .. Len(rx') : rx'[k].pay % W = rx'[k].seq
  <2>1. \A k \in 1 .. Len(rx') : k + 1 \in 1 .. Len(rx) /\ rx'[k] = rx[k + 1]
    BY <1>2
  <2>2. SingleRun => \A k \in 1 .. Len(rx) : rx[k].pay % W = rx[k].seq
    BY Zenon DEF Congruent
  <2> QED
    BY <2>1, <2>2, Zenon
<1>6. rxStarts # 0
  BY <1>1, Zenon DEF Congruent
<1> HIDE DEF DbrCongruent
<1> QED
  BY <1>1, <1>4, <1>5, <1>6, Zenon DEF Congruent, SingleRun

(* Losing and damaging packets changes neither number nor payload identity. *)
LEMMA PathCongruent == ASSUME LinkType, Congruent, PathStep PROVE Congruent'
<1>1. UNCHANGED <<bufWnd, numSeq, sent, txStarts, rx, dbr, rxStarts, curWin, pc>>
  BY Zenon DEF PathStep, callVars, mapVars, histVars, sendVars, recvVars
<1>2. SingleRun => \A m \in data' : m.pay % W = m.seq
  <2>1. CASE LosePacket
    BY <2>1, Zenon DEF LosePacket, Congruent
  <2>2. CASE LoseAnswer
    BY <2>2, Zenon DEF LoseAnswer, Congruent
  <2>3. CASE DamagePacket
    <3>1. PICK m \in data, h \in Harm : data' = Take(data, m) \union {[m EXCEPT !.bad = h]}
      BY <2>3, Zenon DEF DamagePacket
    <3>2. [m EXCEPT !.bad = h].pay = m.pay /\ [m EXCEPT !.bad = h].seq = m.seq
      BY Zenon DEF LinkType, Packet
    <3>3. Take(data, m) \subseteq data
      BY Zenon DEF Take
    <3> QED
      BY <3>1, <3>2, <3>3 DEF Congruent
  <2> QED
    BY <2>1, <2>2, <2>3, Zenon DEF PathStep, PathNext
<1> QED
  BY <1>1, <1>2, Zenon DEF Congruent, SingleRun, DbrCongruent

(* Every step keeps packets congruent. *)
LEMMA StepCongruent ==
    ASSUME LinkType, Congruent, [LinkNext]_linkVars
    PROVE  Congruent'
<1>1. CASE SenderStart
  <2>1. /\ txStarts' = txStarts + 1 /\ numSeq' = 0 /\ pc = "idle"
        /\ UNCHANGED <<data, bufWnd, sent, rx, dbr, rxStarts, curWin, pc>>
    BY <1>1, Zenon DEF SenderStart, Boot, callVars, recvVars, pathVars, histVars
  <2>2. txStarts' # 0 /\ (SingleRun' => txStarts = 0 /\ SingleRun)
    BY <2>1 DEF SingleRun, LinkType, SenderType
  <2>3. SingleRun' => sent = << >> /\ numSeq' = Len(sent) % W
    BY <2>1, <2>2, ModSlot, ConstantTypes, Zenon DEF Congruent
  <2> QED
    BY <2>1, <2>2, <2>3, Zenon DEF Congruent, DbrCongruent
<1>2. CASE \E len \in Lens, event \in Event : Fill(len, event) /\ UNCHANGED recvVars
  BY <1>2, FillCongruent, Zenon
<1>3. CASE Wake /\ UNCHANGED <<pathVars, recvVars>>
  BY <1>3, QuietCongruent, Zenon DEF Wake, mapVars, recvVars, pathVars
<1>4. CASE FlushStep
  BY <1>4, FlushCongruent, Zenon
<1>5. CASE FlushEnd
  BY <1>5, QuietCongruent, Zenon DEF FlushEnd, Confirm, mapVars, recvVars, pathVars
<1>6. CASE \E event \in Event : Hear(event) /\ UNCHANGED recvVars
  BY <1>6, QuietCongruent, Zenon DEF Hear, callVars, recvVars, histVars
<1>7. CASE ReceiverStart
  <2>1. /\ rxStarts' = rxStarts + 1 /\ rx' = << >> /\ dbr' = [DbrInit EXCEPT !.out = dbr.out]
        /\ UNCHANGED <<data, bufWnd, numSeq, sent, txStarts, curWin, pc>>
    BY <1>7, Zenon DEF ReceiverStart, Attach, callVars, mapVars, sendVars, pathVars, histVars
  <2>2. rxStarts' # 0 /\ (SingleRun' => rxStarts = 0 /\ SingleRun)
    BY <2>1 DEF SingleRun, LinkType, ReceiverType
  <2>3. SingleRun' => dbr' = dbr /\ rx' = rx
    BY <2>1, <2>2, Zenon DEF Congruent, DbrInit
  <2> QED
    BY <2>1, <2>2, <2>3, Zenon DEF Congruent, DbrCongruent
<1>8. CASE Judge
  BY <1>8, JudgeCongruent
<1>9. CASE Receive
  BY <1>9, ReceiveCongruent
<1>10. CASE PathStep
  BY <1>10, PathCongruent
<1>11. CASE UNCHANGED linkVars
  BY <1>11, QuietCongruent, Zenon DEF linkVars
<1> QED
  BY <1>1, <1>2, <1>3, <1>4, <1>5, <1>6, <1>7, <1>8, <1>9, <1>10, <1>11, Zenon DEF LinkNext

(* Whatever the path loses, delays, duplicates, reorders or damages, the   *)
(* k-th packet the application reads has an index congruent to k modulo    *)
(* WND_SIZE: streams can slip by whole windows only.                       *)
THEOREM LinkDeliveryCongruent == LinkSpec => []CongruentDelivery
<1>1. Congruent => CongruentDelivery
  BY Zenon DEF Congruent, CongruentDelivery, DbrCongruent
<1>2. LinkType /\ Congruent /\ [LinkNext]_linkVars => Congruent'
  BY StepCongruent
<1> QED
  BY <1>1, <1>2, InitCongruent, LinkTypeCorrect, PTL DEF LinkSpec
-----------------------------------------------------------------------------
(***************************************************************************)
(* What reading a packet does to the reorder buffer: what it keeps, and    *)
(* when it hands packets on in order.                                      *)
(***************************************************************************)

(* Where packets are once __process_packet() has run: what was delivered   *)
(* stays, the packet in hand and those it does not replace are kept or     *)
(* delivered, and nothing else appears.                                    *)
Kept(d, e, pkt) ==
    /\ \A k \in 1 .. Len(d.out) : k \in 1 .. Len(e.out) /\ e.out[k] = d.out[k]
    /\ \A s \in Slots : e.stored[s] => \/ s = pkt.seq /\ e.buff[s] = pkt
                                       \/ d.stored[s] /\ e.buff[s] = d.buff[s]
    /\ \/ e.stored[pkt.seq] /\ e.buff[pkt.seq] = pkt
       \/ \E k \in 1 .. Len(e.out) : e.out[k] = pkt
    /\ \A s \in Slots : d.stored[s] /\ s # pkt.seq =>
          \/ e.stored[s] /\ e.buff[s] = d.buff[s]
          \/ \E k \in 1 .. Len(e.out) : e.out[k] = d.buff[s]
    /\ \A k \in 1 .. Len(e.out) :
          \/ k \in 1 .. Len(d.out)
          \/ e.out[k] = pkt
          \/ \E s \in Slots : d.stored[s] /\ e.out[k] = d.buff[s]

(* The packet is stored. *)
LEMMA StoreKeeps ==
    ASSUME NEW d \in DbrType, NEW pkt \in Packet
    PROVE  Kept(d, Store(d, pkt), pkt)
<1> DEFINE e == Store(d, pkt)
<1>1. /\ d.stored \in [Slots -> BOOLEAN] /\ d.buff \in [Slots -> Packet] /\ pkt.seq \in Slots
      /\ d.out \in Seq(Packet)
  BY Zenon DEF DbrType, Packet
<1>2. /\ e.out = d.out /\ e.stored = [d.stored EXCEPT ![pkt.seq] = TRUE]
      /\ e.buff = [d.buff EXCEPT ![pkt.seq] = pkt]
  BY Zenon DEF Store, DbrType
<1> HIDE DEF e
<1>3. Kept(d, e, pkt)
  BY <1>1, <1>2, Zenon DEF Kept
<1> QED
  BY <1>3, Zenon DEF e

(* The packet is delivered, and those right behind it. *)
LEMMA DeliverKeeps ==
    ASSUME NEW d \in DbrType, NEW pkt \in Packet
    PROVE  Kept(d, DeliverAndPurge(d, pkt), pkt)
<1> DEFINE e     == DeliverAndPurge(d, pkt)
           first == (d.next + 1) % W
           n     == PurgeLen(d.stored, first)
           t     == [k \in 1 .. n |-> d.buff[(first + k - 1) % W]]
           l     == Len(d.out)
<1>1. /\ first \in Slots /\ n \in 0 .. W /\ t \in Seq(Packet) /\ Len(t) = n
      /\ \A k \in 1 .. n : /\ (first + k - 1) % W \in Slots
                           /\ d.stored[(first + k - 1) % W]
                           /\ t[k] = d.buff[(first + k - 1) % W]
  BY PurgedPackets, Zenon
<1>2. /\ e.stored = [s \in Slots |-> d.stored[s] /\ \A k \in 0 .. n - 1 : s # (first + k) % W]
      /\ e.buff = d.buff /\ e.out = Append(d.out, pkt) \o t
  BY Zenon DEF DeliverAndPurge
<1>3. d.out \in Seq(Packet) /\ l \in Nat /\ n \in Nat /\ first \in Nat
  <2>1. d.out \in Seq(Packet)
    BY Zenon DEF DbrType
  <2> HIDE DEF n, first
  <2> QED
    BY <1>1, <2>1, ConstantTypes
<1> HIDE DEF e, first, n, t
<1>4. /\ Len(e.out) = l + 1 + n
      /\ \A k \in 1 .. l : e.out[k] = d.out[k]
      /\ e.out[l + 1] = pkt
      /\ \A k \in 1 .. n : e.out[l + 1 + k] = t[k]
  <2> DEFINE u == Append(d.out, pkt)
  <2>1. /\ u \in Seq(Packet) /\ Len(u) = l + 1 /\ u[l + 1] = pkt
        /\ \A k \in 1 .. l : u[k] = d.out[k]
    BY <1>3
  <2> HIDE DEF u, l
  <2>2. e.out = u \o t
    BY <1>2, Zenon DEF u
  <2>3. t \in Seq(Packet) /\ Len(t) = n
    BY <1>1, Zenon
  <2>4. /\ Len(u \o t) = l + 1 + n
        /\ \A k \in 1 .. l + 1 : (u \o t)[k] = u[k]
        /\ \A k \in 1 .. n : (u \o t)[l + 1 + k] = t[k]
    BY <1>3, <2>1, <2>3
  <2>5. l + 1 \in 1 .. l + 1 /\ \A k \in 1 .. l : k \in 1 .. l + 1
    BY <1>3
  <2> QED
    BY <2>1, <2>2, <2>4, <2>5, Zenon
<1> HIDE DEF l
<1>5. \A k \in 1 .. Len(e.out) :
        \/ k \in 1 .. l \/ k = l + 1
        \/ k - l - 1 \in 1 .. n /\ k = l + 1 + (k - l - 1)
  BY <1>3, <1>4
<1>6. /\ \A k \in 1 .. l : k \in 1 .. Len(e.out)
      /\ l + 1 \in 1 .. Len(e.out)
      /\ \A k \in 1 .. n : l + 1 + k \in 1 .. Len(e.out)
  BY <1>3, <1>4
<1>7. ASSUME NEW s \in Slots, d.stored[s]
      PROVE  \/ e.stored[s] /\ e.buff[s] = d.buff[s]
             \/ \E k \in 1 .. Len(e.out) : e.out[k] = d.buff[s]
  <2>1. CASE \A k \in 0 .. n - 1 : s # (first + k) % W
    BY <1>2, <1>7, <2>1, Zenon
  <2>2. ASSUME NEW k \in 0 .. n - 1, s = (first + k) % W
        PROVE  \E j \in 1 .. Len(e.out) : e.out[j] = d.buff[s]
    <3>1. k + 1 \in 1 .. n /\ first + (k + 1) - 1 = first + k
      BY <1>3
    <3>2. t[k + 1] = d.buff[s]
      BY <1>1, <2>2, <3>1, Zenon
    <3> QED
      BY <1>4, <1>6, <3>1, <3>2, Zenon
  <2> QED
    BY <2>1, <2>2, Zenon
<1>8. ASSUME NEW k \in 1 .. Len(e.out)
      PROVE  \/ k \in 1 .. l
             \/ e.out[k] = pkt
             \/ \E s \in Slots : d.stored[s] /\ e.out[k] = d.buff[s]
  <2> DEFINE j == k - l - 1
  <2>1. k \in 1 .. l \/ k = l + 1 \/ (j \in 1 .. n /\ k = l + 1 + j)
    BY <1>5, Zenon
  <2> HIDE DEF j
  <2>2. ASSUME j \in 1 .. n, k = l + 1 + j
        PROVE  \E s \in Slots : d.stored[s] /\ e.out[k] = d.buff[s]
    BY <1>1, <1>4, <2>2, Zenon
  <2> QED
    BY <1>4, <2>1, <2>2, Zenon
<1>9. \A s \in Slots : e.stored[s] => d.stored[s] /\ e.buff[s] = d.buff[s]
  BY <1>2, Zenon
<1>10. Kept(d, e, pkt)
  <2>1. l = Len(d.out)
    BY Zenon DEF l
  <2>2. \A k \in 1 .. Len(d.out) : k \in 1 .. Len(e.out) /\ e.out[k] = d.out[k]
    BY <1>4, <1>6, <2>1, Zenon
  <2>3. \E k \in 1 .. Len(e.out) : e.out[k] = pkt
    BY <1>4, <1>6, Zenon
  <2>4. \A k \in 1 .. Len(e.out) :
          \/ k \in 1 .. Len(d.out)
          \/ e.out[k] = pkt
          \/ \E s \in Slots : d.stored[s] /\ e.out[k] = d.buff[s]
    BY <1>8, <2>1, Zenon
  <2>5. \A s \in Slots : d.stored[s] /\ s # pkt.seq =>
          \/ e.stored[s] /\ e.buff[s] = d.buff[s]
          \/ \E k \in 1 .. Len(e.out) : e.out[k] = d.buff[s]
    BY <1>7, Zenon
  <2> QED
    BY <1>9, <2>2, <2>3, <2>4, <2>5, Zenon DEF Kept
<1> QED
  BY <1>10, Zenon DEF e

(* Either way. *)
LEMMA ProcessKeeps ==
    ASSUME NEW d \in DbrType, NEW pkt \in Packet
    PROVE  Kept(d, ProcessPacket(d, pkt), pkt)
  BY StoreKeeps, DeliverKeeps, Zenon DEF ProcessPacket

(* Two indices less than a window apart with the same number are the same. *)
LEMMA CongruentEqual ==
    \A a, b, c \in Nat : a % W = b % W /\ c <= a /\ a < c + W /\ c <= b /\ b < c + W => a = b
<1> SUFFICES ASSUME NEW a \in Nat, NEW b \in Nat, NEW c \in Nat, a % W = b % W,
                    c <= a, a < c + W, c <= b, b < c + W
             PROVE  a = b
  BY Zenon
<1> DEFINE p == a \div W
           q == b \div W
           r == a % W
<1>1. /\ a = W * p + r /\ b = W * q + r /\ p \in Nat /\ q \in Nat /\ r \in Slots
  BY DivMod, Zenon
<1> HIDE DEF p, q, r
<1>2. /\ p \in Int /\ q \in Int /\ (p > q \/ q > p \/ p = q)
      /\ W * p \in Nat /\ W * q \in Nat /\ r \in Nat /\ W \in Nat
  BY <1>1, ConstantTypes, Z3
<1>3. /\ p > q => W * p >= W * q + W
      /\ q > p => W * q >= W * p + W
  BY <1>2, MultiplesApart, Zenon
<1>4. ~(p > q) /\ ~(q > p)
  BY <1>1, <1>2, <1>3
<1> QED
  BY <1>1, <1>2, <1>4, Zenon

(* What a packet in its turn does to the buffer d: it and the n packets    *)
(* stored right behind it leave the buffer, in this order.                 *)
Delivers(d, pkt, e, n) ==
    /\ Len(e.out) = Len(d.out) + 1 + n
    /\ \A k \in 1 .. Len(d.out) : e.out[k] = d.out[k]
    /\ e.out[Len(d.out) + 1] = pkt
    /\ \A k \in 1 .. n :
          /\ (Len(d.out) + k) % W \in Slots /\ d.stored[(Len(d.out) + k) % W]
          /\ e.out[Len(d.out) + 1 + k] = d.buff[(Len(d.out) + k) % W]
          /\ ~e.stored[(Len(d.out) + k) % W]
    /\ e.buff = d.buff
    /\ \A s \in Slots :
          /\ e.stored[s] => d.stored[s]
          /\ d.stored[s] /\ ~e.stored[s] => \E k \in 1 .. n : s = (Len(d.out) + k) % W

(* dbr_recv hands over the packet in its turn and what waited behind it. *)
LEMMA DeliverOut ==
    ASSUME NEW d \in DbrType, NEW pkt \in Packet, pkt.seq = d.next, d.next = Len(d.out) % W
    PROVE  \E n \in 0 .. W : Delivers(d, pkt, ProcessPacket(d, pkt), n)
<1> DEFINE e     == ProcessPacket(d, pkt)
           first == (d.next + 1) % W
           n     == PurgeLen(d.stored, first)
           t     == [k \in 1 .. n |-> d.buff[(first + k - 1) % W]]
           L     == Len(d.out)
           a     == Append(d.out, pkt)
<1>1. /\ d.next \in Slots /\ d.out \in Seq(Packet) /\ L \in Nat
      /\ d.stored \in [Slots -> BOOLEAN] /\ d.buff \in [Slots -> Packet]
  BY DEF DbrType
<1>2. /\ first \in Slots /\ n \in 0 .. W
      /\ t \in Seq(Packet) /\ Len(t) = n
      /\ \A k \in 1 .. n : /\ (first + k - 1) % W \in Slots
                           /\ d.stored[(first + k - 1) % W]
                           /\ t[k] = d.buff[(first + k - 1) % W]
  BY PurgedPackets, Zenon
<1>3. /\ e.out = a \o t
      /\ e.buff = d.buff
      /\ e.stored = [s \in Slots |->
                        d.stored[s] /\ \A k \in 0 .. n - 1 : s # (first + k) % W]
  BY Zenon DEF ProcessPacket, DeliverAndPurge
<1>4. first = (L + 1) % W
  BY <1>1, ModAdd, Zenon
<1>5. a \in Seq(Packet) /\ Len(a) = L + 1 /\ (\A k \in 1 .. L : a[k] = d.out[k]) /\ a[L + 1] = pkt
  BY <1>1
<1> HIDE DEF first, n, t, e, L, a
<1>6. n \in Nat
  BY <1>2, ConstantTypes
<1>7. \A k \in 1 .. n : (first + k - 1) % W = (L + k) % W
  <2> TAKE k \in 1 .. n
  <2>1. k - 1 \in Nat /\ L + 1 \in Nat /\ first + k - 1 = first + (k - 1) /\ L + 1 + (k - 1) = L + k
    BY <1>1, <1>2, <1>6, ConstantTypes
  <2>2. (first + (k - 1)) % W = (L + 1 + (k - 1)) % W
    BY <2>1, <1>4, ModAdd, Zenon
  <2> QED
    BY <2>1, <2>2, Zenon
<1>8. /\ Len(e.out) = (L + 1) + n
      /\ \A k \in 1 .. (L + 1) + n : e.out[k] = IF k <= L + 1 THEN a[k] ELSE t[k - (L + 1)]
  <2>1. a \in Seq(Packet) /\ t \in Seq(Packet) /\ Len(a) = L + 1 /\ Len(t) = n /\ e.out = a \o t
    BY <1>2, <1>3, <1>5, Zenon
  <2>2. /\ Len(a \o t) = Len(a) + Len(t)
        /\ \A k \in 1 .. Len(a) + Len(t) : (a \o t)[k] = IF k <= Len(a) THEN a[k] ELSE t[k - Len(a)]
    BY <2>1, Concat, Zenon
  <2> QED
    BY <2>1, <2>2, Zenon
<1>9. /\ Len(e.out) = L + 1 + n
      /\ \A k \in 1 .. L : e.out[k] = d.out[k]
      /\ e.out[L + 1] = pkt
  BY <1>1, <1>5, <1>6, <1>8
<1>10. \A k \in 1 .. n : e.out[L + 1 + k] = d.buff[(L + k) % W]
  <2> TAKE k \in 1 .. n
  <2> DEFINE j == L + 1 + k
  <2>2. j \in 1 .. (L + 1) + n /\ ~(j <= L + 1) /\ j - (L + 1) = k
    BY <1>1, <1>6
  <2> HIDE DEF j
  <2>3. e.out[j] = t[j - (L + 1)]
    BY <2>2, <1>8, Zenon
  <2>4. e.out[L + 1 + k] = t[k]
    BY <2>2, <2>3, Zenon DEF j
  <2> QED
    BY <2>4, <1>2, <1>7, Zenon
<1>11. \A k \in 1 .. n : (L + k) % W \in Slots /\ d.stored[(L + k) % W] /\ ~e.stored[(L + k) % W]
  <2> TAKE k \in 1 .. n
  <2>1. k - 1 \in 0 .. n - 1 /\ first + k - 1 = first + (k - 1)
    BY <1>2, <1>6, ConstantTypes
  <2>2. (L + k) % W \in Slots /\ d.stored[(L + k) % W] /\ (L + k) % W = (first + (k - 1)) % W
    BY <2>1, <1>2, <1>7, Zenon
  <2> QED
    BY <2>1, <2>2, <1>3, Zenon
<1>12. ASSUME NEW s \in Slots, d.stored[s], ~e.stored[s]
       PROVE  \E k \in 1 .. n : s = (L + k) % W
  <2>1. PICK k \in 0 .. n - 1 : s = (first + k) % W
    BY <1>3, <1>12, Zenon
  <2>2. k + 1 \in 1 .. n /\ first + (k + 1) - 1 = first + k
    BY <1>2, <1>6, ConstantTypes
  <2> QED
    BY <2>1, <2>2, <1>7, Zenon
<1>13. \A s \in Slots : e.stored[s] => d.stored[s]
  BY <1>1, <1>3, Zenon
<1>14. Delivers(d, pkt, e, n)
  BY <1>3, <1>9, <1>10, <1>11, <1>12, <1>13, Zenon DEF Delivers, L
<1> QED
  BY <1>2, <1>14, Zenon DEF e

(* The application was handed the packets of the stream in order, and what *)
(* the reorder buffer keeps belongs to the window that comes next.         *)
DbrInOrder(d) ==
    /\ \A k \in 1 .. Len(d.out) : d.out[k].pay = k - 1 /\ Intact(d.out[k])
    /\ \A s \in Slots : d.stored[s] =>
          /\ Intact(d.buff[s]) /\ Len(d.out) <= d.buff[s].pay /\ d.buff[s].pay - s <= Len(d.out)

(* The packets handed on or kept in the reorder buffer. *)
Got(d) == 0 .. Len(d.out) - 1 \union {d.buff[s].pay : s \in {t \in Slots : d.stored[t]}}

(* A packet that is new to the buffer and comes after every packet of the  *)
(* windows before its own is added and leaves the buffer in order.         *)
LEMMA ProcessInOrder ==
    ASSUME NEW d \in DbrType, NEW pkt \in Packet, DbrCongruent(d), ~d.stored[d.next],
           pkt.pay % W = pkt.seq, DbrInOrder(d), Intact(pkt), pkt.pay \notin Got(d),
           0 .. pkt.pay - pkt.seq - 1 \subseteq Got(d)
    PROVE  /\ DbrInOrder(ProcessPacket(d, pkt))
           /\ Got(ProcessPacket(d, pkt)) = Got(d) \union {pkt.pay}
<1> DEFINE e == ProcessPacket(d, pkt)
           L == Len(d.out)
           p == pkt.pay
<1>1. /\ d.next \in Slots /\ L \in Nat /\ d.stored \in [Slots -> BOOLEAN] /\ d.buff \in [Slots -> Packet]
      /\ p \in Nat /\ pkt.seq \in Slots /\ W \in Nat
  BY ConstantTypes DEF DbrType, Packet
<1>2. /\ d.next = L % W
      /\ \A s \in Slots : d.stored[s] =>
            /\ d.buff[s].pay % W = s /\ d.buff[s].pay \in Nat /\ s # d.next
            /\ Intact(d.buff[s]) /\ L <= d.buff[s].pay /\ d.buff[s].pay - s <= L
  BY <1>1, Zenon DEF DbrCongruent, DbrInOrder, Packet
<1>3. \A s \in Slots : d.stored[s] => L < d.buff[s].pay /\ d.buff[s].pay < L + W
  <2> TAKE s \in Slots
  <2> HAVE d.stored[s]
  <2>1. d.buff[s].pay # L
    BY <1>2, Zenon
  <2> DEFINE x == d.buff[s].pay
  <2>2. x \in Nat /\ L \in Nat /\ L <= x /\ x - s <= L /\ x # L
    BY <1>1, <1>2, <2>1, Zenon
  <2> HIDE DEF L, x
  <2>3. L < x /\ x < L + W
    BY <2>2, ConstantTypes DEF Slots
  <2> QED
    BY <2>3, Zenon DEF x
<1>4. \A q : q \in Got(d) <=> q \in 0 .. L - 1 \/ \E s \in Slots : d.stored[s] /\ q = d.buff[s].pay
  BY Zenon DEF Got
<1>5. L <= p /\ p - pkt.seq <= L
  <2>1. L \notin Got(d)
    <3>1. ~(L \in 0 .. L - 1)
      BY <1>1
    <3>2. \A s \in Slots : d.stored[s] => L # d.buff[s].pay
      BY <1>2, Zenon
    <3> QED
      BY <3>1, <3>2, <1>4, Zenon
  <2>2. L \notin 0 .. p - pkt.seq - 1
    BY <2>1, Zenon
  <2>3. p \notin 0 .. L - 1
    BY <1>4, Zenon
  <2> HIDE DEF L, p
  <2> QED
    BY <1>1, <2>2, <2>3 DEF Slots
<1>6. p < L + W
  <2> HIDE DEF L, p
  <2> QED
    BY <1>1, <1>5 DEF Slots
<1>7. CASE pkt.seq = d.next
  <2>1. p = L
    <3>1. p % W = L % W
      BY <1>2, <1>7, Zenon
    <3> HIDE DEF L, p
    <3>2. L < L + W /\ L <= L
      BY <1>1, ConstantTypes
    <3> QED
      BY <3>1, <3>2, <1>1, <1>5, <1>6, CongruentEqual, Zenon
  <2>2. PICK n \in 0 .. W : Delivers(d, pkt, e, n)
    BY <1>2, <1>7, DeliverOut, Zenon
  <2> DEFINE K(k) == (L + k) % W
  <2>3. /\ Len(e.out) = L + 1 + n /\ (\A k \in 1 .. L : e.out[k] = d.out[k]) /\ e.out[L + 1] = pkt
        /\ \A k \in 1 .. n : K(k) \in Slots /\ d.stored[K(k)] /\ e.out[L + 1 + k] = d.buff[K(k)]
                             /\ ~e.stored[K(k)]
        /\ e.buff = d.buff
        /\ \A s \in Slots : /\ e.stored[s] => d.stored[s]
                            /\ d.stored[s] /\ ~e.stored[s] => \E k \in 1 .. n : s = K(k)
    BY <2>2, Zenon DEF Delivers
  <2> HIDE DEF e, L, p
  <2>4. n \in Nat /\ n < W
    <3>1. n # W
      <4>1. ASSUME n = W PROVE FALSE
        <5>1. W \in 1 .. n /\ 0 \in Nat /\ (L + W) % W = L % W
          BY <4>1, <1>1, ConstantTypes, MultiplesApart, Z3
        <5> QED
          BY <5>1, <2>3, <1>2, Zenon
      <4> QED
        BY <4>1, Zenon
    <3> QED
      BY <3>1, <1>1
  <2>5. ASSUME NEW k \in 1 .. n PROVE d.buff[K(k)].pay = L + k
    <3>1. L + k \in Nat /\ L <= L + k /\ L + k < L + W
      BY <1>1, <2>4
    <3>2. K(k) \in Slots /\ d.stored[K(k)]
      BY <2>3, Zenon
    <3>3. /\ d.buff[K(k)].pay % W = (L + k) % W /\ d.buff[K(k)].pay \in Nat
          /\ L <= d.buff[K(k)].pay /\ d.buff[K(k)].pay < L + W
      BY <3>2, <1>2, <1>3, Zenon
    <3> HIDE DEF K
    <3> QED
      BY <3>1, <3>3, <1>1, CongruentEqual, Zenon
  <2>6. ASSUME NEW k \in 1 .. Len(e.out) PROVE e.out[k].pay = k - 1 /\ Intact(e.out[k])
    <3>1. CASE k \in 1 .. L
      BY <3>1, <2>3, Zenon DEF DbrInOrder, L
    <3>2. CASE k = L + 1
      <4>1. e.out[k] = pkt /\ pkt.pay = L
        BY <3>2, <2>1, <2>3, Zenon DEF p
      <4>2. L = k - 1
        BY <3>2, <1>1
      <4> QED
        BY <4>1, <4>2, Zenon
    <3>3. CASE k \in L + 2 .. L + 1 + n
      <4> DEFINE j == k - L - 1
      <4>1. j \in 1 .. n /\ k = L + 1 + j /\ L + j = k - 1
        BY <3>3, <2>4, <1>1
      <4> HIDE DEF j
      <4>2. e.out[k] = d.buff[K(j)] /\ K(j) \in Slots /\ d.stored[K(j)]
        BY <4>1, <2>3, Zenon
      <4> QED
        BY <4>1, <4>2, <2>5, <1>2, Zenon
    <3> QED
      BY <3>1, <3>2, <3>3, <2>3, <2>4, <1>1
  <2>7. ASSUME NEW s \in Slots, d.stored[s], d.buff[s].pay < L + 1 + n PROVE ~e.stored[s]
    <3> DEFINE k == d.buff[s].pay - L
    <3>1. k \in 1 .. n /\ L + k = d.buff[s].pay
      BY <2>7, <1>1, <1>2, <1>3, <2>4
    <3> HIDE DEF k
    <3>2. s = K(k)
      BY <3>1, <2>7, <1>2, Zenon
    <3> QED
      BY <3>1, <3>2, <2>3, Zenon
  <2>8. ASSUME NEW s \in Slots, e.stored[s]
        PROVE  Intact(e.buff[s]) /\ Len(e.out) <= e.buff[s].pay /\ e.buff[s].pay - s <= Len(e.out)
    <3>1. /\ d.stored[s] /\ e.buff[s] = d.buff[s] /\ Intact(d.buff[s])
          /\ d.buff[s].pay \in Nat /\ d.buff[s].pay - s <= L /\ ~(d.buff[s].pay < L + 1 + n)
      BY <2>7, <2>8, <2>3, <1>2, Zenon
    <3> QED
      BY <3>1, <2>3, <2>4, <1>1 DEF Slots
  <2>9. ASSUME NEW q PROVE q \in Got(e) <=> q \in Got(d) \/ q = p
    <3>1. q \in Got(e) <=> q \in 0 .. Len(e.out) - 1 \/ \E s \in Slots : e.stored[s] /\ q = e.buff[s].pay
      BY Zenon DEF Got
    <3>2. q \in 0 .. Len(e.out) - 1 <=> q \in 0 .. L - 1 \/ q = p \/ \E k \in 1 .. n : q = L + k
      <4> DEFINE M == Len(e.out)
      <4>1. M = L + 1 + n /\ p = L
        BY <2>1, <2>3, Zenon
      <4> HIDE DEF M
      <4>2. q \in 0 .. M - 1 => q \in 0 .. L - 1 \/ q = p \/ (q - L \in 1 .. n /\ q = L + (q - L))
        BY <4>1, <2>4, <1>1
      <4>3. q \in 0 .. L - 1 \/ q = p \/ (\E k \in 1 .. n : q = L + k) => q \in 0 .. M - 1
        BY <4>1, <2>4, <1>1
      <4>4. q \in 0 .. M - 1 <=> q \in 0 .. L - 1 \/ q = p \/ \E k \in 1 .. n : q = L + k
        BY <4>2, <4>3, Zenon
      <4> QED
        BY <4>4, Zenon DEF M
    <3>3. ASSUME NEW k \in 1 .. n, q = L + k PROVE q \in Got(d)
      BY <3>3, <2>3, <2>5, <1>4, Zenon
    <3>4. ASSUME NEW s \in Slots, d.stored[s], q = d.buff[s].pay PROVE q \in Got(e)
      <4>1. CASE e.stored[s]
        BY <4>1, <3>1, <3>4, <2>3, Zenon
      <4>2. CASE ~e.stored[s]
        <5>1. PICK k \in 1 .. n : s = K(k)
          BY <4>2, <3>4, <2>3, Zenon
        <5>2. q = L + k
          BY <5>1, <3>4, <2>5, Zenon
        <5> QED
          BY <5>2, <3>1, <3>2, Zenon
      <4> QED
        BY <4>1, <4>2, Zenon
    <3>5. ASSUME NEW s \in Slots, e.stored[s], q = e.buff[s].pay PROVE q \in Got(d)
      BY <3>5, <2>3, <1>4, Zenon
    <3> QED
      BY <3>1, <3>2, <3>3, <3>4, <3>5, <1>4, Zenon
  <2>10. DbrInOrder(e) /\ Got(e) = Got(d) \union {p}
    BY <2>6, <2>8, <2>9, Zenon DEF DbrInOrder
  <2> QED
    BY <2>10, Zenon DEF e, p
<1>8. CASE pkt.seq # d.next
  <2>1. /\ e.out = d.out
        /\ \A s \in Slots : /\ e.stored[s] = (d.stored[s] \/ s = pkt.seq)
                            /\ e.buff[s] = IF s = pkt.seq THEN pkt ELSE d.buff[s]
    BY <1>1, <1>8, Zenon DEF ProcessPacket, Store, DbrType
  <2> HIDE DEF e, L
  <2>2. d.stored[pkt.seq] => d.buff[pkt.seq].pay = p
    <3>1. d.stored[pkt.seq] =>
             /\ d.buff[pkt.seq].pay % W = p % W /\ d.buff[pkt.seq].pay \in Nat
             /\ L <= d.buff[pkt.seq].pay /\ d.buff[pkt.seq].pay < L + W
      BY <1>1, <1>2, <1>3, Zenon
    <3> QED
      BY <3>1, <1>1, <1>5, <1>6, CongruentEqual, Zenon
  <2>3. DbrInOrder(e)
    BY <2>1, <1>5, Zenon DEF DbrInOrder, L
  <2>4. ASSUME NEW q PROVE q \in Got(e) <=> q \in Got(d) \/ q = p
    <3>1. q \in Got(e) <=> q \in 0 .. L - 1 \/ \E s \in Slots : e.stored[s] /\ q = e.buff[s].pay
      BY <2>1, Zenon DEF Got, L
    <3>2. ASSUME NEW s \in Slots, e.stored[s], q = e.buff[s].pay PROVE q \in Got(d) \/ q = p
      <4>1. s = pkt.seq \/ (d.stored[s] /\ e.buff[s] = d.buff[s])
        BY <3>2, <2>1, Zenon
      <4> QED
        BY <4>1, <3>2, <2>1, <1>4, Zenon
    <3>3. ASSUME NEW s \in Slots, d.stored[s], q = d.buff[s].pay PROVE q \in Got(e)
      <4>1. q = e.buff[s].pay /\ e.stored[s]
        BY <3>3, <2>1, <2>2, Zenon
      <4> QED
        BY <4>1, <3>1, Zenon
    <3>4. p \in Got(e)
      <4>1. p = e.buff[pkt.seq].pay /\ e.stored[pkt.seq]
        BY <2>1, <1>1, Zenon
      <4> QED
        BY <4>1, <1>1, Zenon DEF Got
    <3> QED
      BY <3>1, <3>2, <3>3, <3>4, <1>4, Zenon
  <2>5. DbrInOrder(e) /\ Got(e) = Got(d) \union {p}
    BY <2>3, <2>4, Zenon
  <2> QED
    BY <2>5, Zenon DEF e, p
<1> QED
  BY <1>7, <1>8, Zenon
-----------------------------------------------------------------------------
(***************************************************************************)
(* What the receiving host has of the packets that BUF_WND_MAP keeps.      *)
(***************************************************************************)

(* The payloads the receiving host has, and whether the packet kept in     *)
(* slot s is one of them.                                                  *)
AcceptedPays == {m.pay : m \in Accepted}
Has(s) == bufWnd[s].pay \in AcceptedPays

(* What is in flight is the packet that BUF_WND_MAP keeps under its        *)
(* number: nothing older is on its way.                                    *)
InFlightKept == \A m \in data : m.seq < Len(sent) /\ bufWnd[m.seq].pay = m.pay

(* Nothing is kept or accepted that was not sent. *)
Known ==
    /\ \A s \in Slots : s < Len(sent) => bufWnd[s].pay < Len(sent)
    /\ \A m \in Accepted : m.pay < Len(sent)

(* Behind the packet that a slot keeps, no older one of the same number    *)
(* waits in the ring: it would replace it in the reorder buffer.           *)
NewestLast ==
    /\ \A s \in Slots : dbr.stored[s] /\ dbr.buff[s].pay = bufWnd[s].pay =>
          \A k \in 1 .. Len(rx) : rx[k].seq = s => rx[k].pay = bufWnd[s].pay
    /\ \A j, k \in 1 .. Len(rx) :
          j < k /\ rx[j].seq = rx[k].seq /\ rx[j].pay = bufWnd[rx[k].seq].pay =>
             rx[k].pay = bufWnd[rx[k].seq].pay

(* The types the steps below compute with. *)
LEMMA LinkTypes ==
    ASSUME LinkType
    PROVE  /\ data \subseteq Packet /\ numSeq \in Slots /\ bufWnd \in [Slots -> Packet]
           /\ txStarts \in Nat /\ rxStarts \in Nat /\ sent \in Seq(Lens) /\ Len(sent) \in Nat
           /\ rx \in Seq(Packet) /\ dbr \in DbrType /\ dbr.out \in Seq(Packet)
           /\ \A m \in data : m.seq \in Slots /\ m.pay \in Nat
<1>1. /\ data \subseteq Packet /\ numSeq \in Slots /\ bufWnd \in [Slots -> Packet]
      /\ txStarts \in Nat /\ rxStarts \in Nat /\ sent \in Seq(Lens)
      /\ rx \in Seq(Packet) /\ dbr \in DbrType /\ dbr.out \in Seq(Packet)
  BY Zenon DEF LinkType, SenderType, ReceiverType, DbrType
<1>2. Len(sent) \in Nat
  BY <1>1
<1>3. \A m \in data : m.seq \in Slots /\ m.pay \in Nat
  BY <1>1, Zenon DEF Packet
<1> QED
  BY <1>1, <1>2, <1>3, Zenon

(* A life of the applications is not entered from a later one. *)
LEMMA LivesBackwards ==
    ASSUME LinkType, [LinkNext]_linkVars, SingleRun'
    PROVE  SingleRun
<1>1. txStarts \in Nat /\ rxStarts \in Nat
  BY LinkTypes, Zenon
<1>2. /\ txStarts' = txStarts \/ txStarts' = txStarts + 1
      /\ rxStarts' = rxStarts \/ rxStarts' = rxStarts + 1
  <2>1. CASE \/ SenderStart \/ FlushStep \/ FlushEnd
             \/ \E len \in Lens, event \in Event : Fill(len, event) /\ UNCHANGED recvVars
             \/ Wake /\ UNCHANGED <<pathVars, recvVars>>
             \/ \E event \in Event : Hear(event) /\ UNCHANGED recvVars
    BY <2>1, Zenon DEF SenderStart, Boot, Fill, Wake, FlushStep, FlushEnd, Hear, mapVars, recvVars
  <2>2. CASE ReceiverStart \/ Receive \/ PathStep \/ UNCHANGED linkVars
    BY <2>2, Zenon DEF ReceiverStart, Attach, Receive, Process, PathStep, sendVars, mapVars, recvVars,
       linkVars
  <2>3. CASE Judge
    BY <2>3, Zenon DEF Judge, Redirect, Refuse, Ignore, sendVars, mapVars, recvVars
  <2> QED
    BY <2>1, <2>2, <2>3, Zenon DEF LinkNext
<1> QED
  BY <1>1, <1>2 DEF SingleRun

(* What the path did is not forgotten. *)
LEMMA HarmKept ==
    ASSUME [LinkNext]_linkVars
    PROVE  harmed \subseteq harmed'
<1>1. CASE PathStep
  BY <1>1, Zenon DEF PathStep, PathNext, LosePacket, LoseAnswer, DamagePacket
<1>2. CASE LinkNext /\ ~PathStep
  BY <1>2, Zenon DEF LinkNext, SenderStart, Fill, FlushStep, FlushEnd, Hear, ReceiverStart, Judge, Arrive,
     Receive, pathVars
<1>3. CASE UNCHANGED linkVars
  BY <1>3, Zenon DEF linkVars
<1> QED
  BY <1>1, <1>2, <1>3, Zenon

(* The packet in hand is the head of the ring. *)
LEMMA HeadOfRing ==
    ASSUME LinkType, Receive
    PROVE  /\ Len(rx) \in Nat /\ 1 \in 1 .. Len(rx) /\ rx[1] \in Packet /\ Len(rx') = Len(rx) - 1
           /\ \A k \in 1 .. Len(rx') : k + 1 \in 1 .. Len(rx) /\ rx'[k] = rx[k + 1]
           /\ \A k \in 1 .. Len(rx) : k = 1 \/ (k - 1 \in 1 .. Len(rx') /\ rx'[k - 1] = rx[k])
           /\ Kept(dbr, dbr', rx[1])
           /\ \A k \in 1 .. Len(rx) : rx[k].seq \in Slots
<1>1. rx # << >> /\ rx' = Tail(rx) /\ dbr' = ProcessPacket(dbr, Head(rx))
  BY Zenon DEF Receive, Process
<1>2. rx \in Seq(Packet) /\ dbr \in DbrType
  BY LinkTypes, Zenon
<1>3. /\ Len(rx) \in Nat /\ 1 \in 1 .. Len(rx) /\ rx[1] \in Packet /\ Head(rx) = rx[1]
      /\ Len(rx') = Len(rx) - 1 /\ \A k \in 1 .. Len(rx) - 1 : rx'[k] = rx[k + 1]
  BY <1>1, <1>2
<1>4. /\ \A k \in 1 .. Len(rx') : k + 1 \in 1 .. Len(rx) /\ rx'[k] = rx[k + 1]
      /\ \A k \in 1 .. Len(rx) : k = 1 \/ (k - 1 \in 1 .. Len(rx') /\ rx'[k - 1] = rx[k])
  BY <1>3
<1>5. \A k \in 1 .. Len(rx) : rx[k] \in Packet
  BY <1>2
<1>6. \A k \in 1 .. Len(rx) : rx[k].seq \in Slots
  BY <1>5, Zenon DEF Packet
<1>7. Kept(dbr, dbr', rx[1])
  BY <1>1, <1>2, <1>3, ProcessKeeps, Zenon
<1> QED
  BY <1>3, <1>4, <1>6, <1>7, Zenon

(* Who writes what the receiving host has and what the slots keep. *)
LEMMA Writers ==
    ASSUME [LinkNext]_linkVars
    PROVE  \/ UNCHANGED <<rx, dbr, sent, bufWnd>>
           \/ (\E len \in Lens, event \in Event : Fill(len, event)) /\ UNCHANGED <<rx, dbr>>
           \/ (ReceiverStart \/ Receive) /\ UNCHANGED <<sent, bufWnd>>
           \/ (\E m \in data : rx' = Append(rx, m)) /\ UNCHANGED <<dbr, sent, bufWnd>>
<1>1. CASE SenderStart \/ PathStep \/ \E event \in Event : Hear(event) /\ UNCHANGED recvVars
  BY <1>1, Zenon DEF SenderStart, Boot, PathStep, Hear, sendVars, mapVars, histVars, recvVars
<1>2. CASE \E len \in Lens, event \in Event : Fill(len, event) /\ UNCHANGED recvVars
  BY <1>2, Zenon DEF recvVars
<1>3. CASE (Wake /\ UNCHANGED <<pathVars, recvVars>>) \/ FlushStep \/ FlushEnd
  BY <1>3, Zenon DEF Wake, FlushStep, FlushEnd, Confirm, mapVars, histVars, recvVars
<1>4. CASE Judge
  BY <1>4, Zenon DEF Judge, Redirect, Refuse, Ignore, sendVars, mapVars, histVars, recvVars
<1>5. CASE ReceiverStart \/ Receive
  BY <1>5, Zenon DEF ReceiverStart, Receive, sendVars, mapVars, histVars
<1>6. CASE UNCHANGED linkVars
  BY <1>6, Zenon DEF linkVars
<1> QED
  BY <1>1, <1>2, <1>3, <1>4, <1>5, <1>6, Zenon DEF LinkNext

(* The application that starts finds the ring and the buffer empty. *)
LEMMA FreshReceiver ==
    ASSUME LinkType, Congruent, SingleRun', ReceiverStart
    PROVE  /\ Len(rx) = 0 /\ Len(rx') = 0 /\ Accepted = {} /\ Accepted' = {}
           /\ \A s \in Slots : ~dbr'.stored[s]
<1>1. rxStarts' = rxStarts + 1 /\ rx' = << >> /\ dbr' = [DbrInit EXCEPT !.out = dbr.out]
  BY Zenon DEF ReceiverStart, Attach
<1>2. rxStarts = 0
  BY <1>1, LinkTypes DEF SingleRun
<1>3. dbr = DbrInit /\ rx = << >>
  BY <1>2, Zenon DEF Congruent
<1>4. dbr'.stored = [s \in Slots |-> FALSE] /\ dbr'.out = << >>
  BY <1>1, <1>3, Zenon DEF DbrInit
<1>5. dbr.stored = [s \in Slots |-> FALSE] /\ dbr.out = << >>
  BY <1>3, Zenon DEF DbrInit
<1>6. Len(<< >>) = 0 /\ 1 .. 0 = {}
  OBVIOUS
<1>7. Len(rx) = 0 /\ Len(rx') = 0 /\ Len(dbr.out) = 0 /\ Len(dbr'.out) = 0
  BY <1>1, <1>3, <1>4, <1>5, <1>6, Zenon
<1>8. (\A s \in Slots : ~dbr.stored[s]) /\ (\A s \in Slots : ~dbr'.stored[s])
  BY <1>4, <1>5, Zenon
<1> QED
  BY <1>6, <1>7, <1>8 DEF Accepted

(* What the receiving host has are packets. *)
LEMMA AcceptedTyped ==
    ASSUME LinkType
    PROVE  Accepted \subseteq Packet
<1>1. rx \in Seq(Packet) /\ dbr.out \in Seq(Packet) /\ dbr.buff \in [Slots -> Packet]
  BY LinkTypes, Zenon DEF DbrType
<1>2. (\A k \in 1 .. Len(rx) : rx[k] \in Packet) /\ (\A k \in 1 .. Len(dbr.out) : dbr.out[k] \in Packet)
  BY <1>1
<1> QED
  BY <1>1, <1>2, Zenon DEF Accepted

(* Reading makes nothing new. *)
LEMMA ReceiveOld ==
    ASSUME LinkType, Receive
    PROVE  Accepted' \subseteq Accepted
<1> SUFFICES ASSUME NEW m \in Accepted' PROVE m \in Accepted
  BY Zenon
<1>1. /\ 1 \in 1 .. Len(rx) /\ Kept(dbr, dbr', rx[1])
      /\ \A k \in 1 .. Len(rx') : k + 1 \in 1 .. Len(rx) /\ rx'[k] = rx[k + 1]
  BY HeadOfRing, Zenon
<1>2. CASE \E k \in 1 .. Len(rx') : m = rx'[k]
  BY <1>1, <1>2, Zenon DEF Accepted
<1>3. ASSUME NEW s \in Slots, dbr'.stored[s], m = dbr'.buff[s] PROVE m \in Accepted
  <2>1. m = rx[1] \/ (dbr.stored[s] /\ m = dbr.buff[s])
    BY <1>1, <1>3, Zenon DEF Kept
  <2> QED
    BY <1>1, <2>1, Zenon DEF Accepted
<1>4. ASSUME NEW k \in 1 .. Len(dbr'.out), m = dbr'.out[k] PROVE m \in Accepted
  <2>1. \/ k \in 1 .. Len(dbr.out) /\ m = dbr.out[k]
        \/ m = rx[1]
        \/ \E s \in Slots : dbr.stored[s] /\ m = dbr.buff[s]
    BY <1>1, <1>4, Zenon DEF Kept
  <2> QED
    BY <1>1, <2>1, Zenon DEF Accepted
<1> QED
  BY <1>2, <1>3, <1>4, Zenon DEF Accepted

(* Every step keeps what is kept and accepted among what was sent. *)
LEMMA StepKnown ==
    ASSUME LinkType, Congruent, SingleRun, SingleRun', InFlightKept, Known, [LinkNext]_linkVars
    PROVE  Known'
<1>0. /\ Len(sent) \in Nat /\ sent \in Seq(Lens) /\ rx \in Seq(Packet) /\ data \subseteq Packet
      /\ \A m \in data : m.seq \in Slots
  BY LinkTypes, Zenon
<1>1. CASE UNCHANGED <<rx, dbr, sent, bufWnd>>
  BY <1>1, Zenon DEF Known, Accepted
<1>2. ASSUME NEW len \in Lens, NEW event \in Event, Fill(len, event), UNCHANGED <<rx, dbr>> PROVE Known'
  <2>1. /\ bufWnd' = [bufWnd EXCEPT ![numSeq] = NewPacket(len)] /\ sent' = Append(sent, len)
        /\ bufWnd \in [Slots -> Packet] /\ numSeq \in Slots /\ NewPacket(len).pay = Len(sent)
    BY <1>2, LinkTypes, Zenon DEF Fill, NewPacket
  <2>2. Len(sent') = Len(sent) + 1
    BY <1>0, <2>1
  <2>3. ASSUME NEW s \in Slots, s < Len(sent') PROVE bufWnd'[s].pay < Len(sent')
    <3>1. CASE s = numSeq
      <4>1. bufWnd'[s].pay = Len(sent)
        BY <2>1, <3>1, Zenon
      <4> QED
        BY <1>0, <2>2, <4>1
    <3>2. CASE s # numSeq
      <4>1. s # Len(sent)
        BY <3>2, ModSlot, Zenon DEF Congruent
      <4>2. s < Len(sent)
        BY <1>0, <2>2, <2>3, <4>1, ConstantTypes
      <4>3. bufWnd'[s] = bufWnd[s] /\ bufWnd[s].pay < Len(sent)
        BY <2>1, <3>2, <4>2, Zenon DEF Known
      <4>4. bufWnd[s].pay \in Nat
        BY <2>1, Zenon DEF Packet
      <4> QED
        BY <1>0, <2>2, <4>3, <4>4
    <3> QED
      BY <3>1, <3>2, Zenon
  <2>4. ASSUME NEW m \in Accepted' PROVE m.pay < Len(sent')
    <3>1. m \in Accepted
      BY <1>2, <2>4, Zenon DEF Accepted
    <3>2. m.pay < Len(sent)
      BY <3>1, Zenon DEF Known
    <3>3. m.pay \in Nat
      BY <3>1, AcceptedTyped, Zenon DEF Packet
    <3> QED
      BY <1>0, <2>2, <3>2, <3>3
  <2> QED
    BY <2>3, <2>4, Zenon DEF Known
<1>3. ASSUME ReceiverStart, UNCHANGED <<sent, bufWnd>> PROVE Known'
  BY <1>3, FreshReceiver, Zenon DEF Known
<1>4. ASSUME Receive, UNCHANGED <<sent, bufWnd>> PROVE Known'
  BY <1>4, ReceiveOld, Zenon DEF Known
<1>5. ASSUME NEW m \in data, rx' = Append(rx, m), UNCHANGED <<dbr, sent, bufWnd>> PROVE Known'
  <2>1. m.pay < Len(sent)
    BY <1>0, Zenon DEF InFlightKept, Known
  <2>2. \A k \in 1 .. Len(rx') : rx'[k] = m \/ (k \in 1 .. Len(rx) /\ rx'[k] = rx[k])
    BY <1>0, <1>5
  <2>3. \A n \in Accepted' : n = m \/ n \in Accepted
    BY <1>5, <2>2, Zenon DEF Accepted
  <2> QED
    BY <1>5, <2>1, <2>3, Zenon DEF Known
<1> QED
  BY <1>1, <1>2, <1>3, <1>4, <1>5, Writers, Zenon

(* A packet the receiving host has, and whose slot still keeps it, is not  *)
(* lost by reading.                                                        *)
LEMMA ReceiveHas ==
    ASSUME LinkType, Congruent, SingleRun, NewestLast, Receive, UNCHANGED bufWnd,
           NEW s \in Slots, s < Len(sent), Has(s)
    PROVE  Has(s)'
<1>1. PICK m \in Accepted : m.pay = bufWnd[s].pay
  BY Zenon DEF Has, AcceptedPays
<1>2. /\ 1 \in 1 .. Len(rx) /\ Kept(dbr, dbr', rx[1]) /\ rx[1].seq \in Slots
      /\ \A k \in 1 .. Len(rx) : k = 1 \/ (k - 1 \in 1 .. Len(rx') /\ rx'[k - 1] = rx[k])
  BY HeadOfRing, Zenon
<1>3. rx[1] \in Accepted'
  <2>1. \/ dbr'.stored[rx[1].seq] /\ dbr'.buff[rx[1].seq] = rx[1]
        \/ \E k \in 1 .. Len(dbr'.out) : dbr'.out[k] = rx[1]
    BY <1>2, Zenon DEF Kept
  <2> QED
    BY <1>2, <2>1, Zenon DEF Accepted
<1>4. SUFFICES m \in Accepted' \/ m.pay = rx[1].pay
  <2>1. \E n \in Accepted' : n.pay = bufWnd'[s].pay
    BY <1>1, <1>3, <1>4, Zenon
  <2> QED
    BY <2>1, Zenon DEF Has, AcceptedPays
<1>5. ASSUME NEW k \in 1 .. Len(rx), m = rx[k] PROVE m \in Accepted'
  <2>1. CASE k = 1
    BY <1>3, <1>5, <2>1, Zenon
  <2>2. CASE k # 1
    <3>1. k - 1 \in 1 .. Len(rx') /\ rx'[k - 1] = m
      BY <1>2, <1>5, <2>2, Zenon
    <3> QED
      BY <3>1, Zenon DEF Accepted
  <2> QED
    BY <2>1, <2>2, Zenon
<1>6. ASSUME NEW k \in 1 .. Len(dbr.out), m = dbr.out[k] PROVE m \in Accepted'
  <2>1. k \in 1 .. Len(dbr'.out) /\ dbr'.out[k] = m
    BY <1>2, <1>6, Zenon DEF Kept
  <2> QED
    BY <2>1, Zenon DEF Accepted
<1>7. ASSUME NEW t \in Slots, dbr.stored[t], m = dbr.buff[t] PROVE m \in Accepted' \/ m.pay = rx[1].pay
  <2>1. CASE t # rx[1].seq
    <3>1. \/ dbr'.stored[t] /\ dbr'.buff[t] = m
          \/ \E k \in 1 .. Len(dbr'.out) : dbr'.out[k] = m
      BY <1>2, <1>7, <2>1, Zenon DEF Kept
    <3> QED
      BY <3>1, Zenon DEF Accepted
  <2>2. CASE t = rx[1].seq
    <3>1. m.pay % W = t /\ bufWnd[s].pay % W = s
      BY <1>7, Zenon DEF Congruent, DbrCongruent
    <3>2. dbr.buff[t].pay = bufWnd[t].pay
      BY <1>1, <1>7, <3>1, Zenon
    <3> QED
      BY <1>2, <1>7, <2>2, <3>2, Zenon DEF NewestLast
  <2> QED
    BY <2>1, <2>2, Zenon
<1> QED
  BY <1>5, <1>6, <1>7, Zenon DEF Accepted

(* Every step: a slot whose packet was accepted has it accepted until the  *)
(* slot is filled again.                                                   *)
LEMMA StepHas ==
    ASSUME LinkType, Congruent, SingleRun, SingleRun', NewestLast, [LinkNext]_linkVars,
           NEW s \in Slots, s < Len(sent), Has(s), bufWnd'[s] = bufWnd[s]
    PROVE  Has(s)'
<1>0. rx \in Seq(Packet) /\ data \subseteq Packet
  BY LinkTypes, Zenon
<1>1. CASE UNCHANGED <<rx, dbr>>
  BY <1>1, Zenon DEF Has, AcceptedPays, Accepted
<1>2. CASE ReceiverStart
  BY <1>2, FreshReceiver, Zenon DEF Has, AcceptedPays
<1>3. CASE Receive /\ UNCHANGED bufWnd
  BY <1>3, ReceiveHas, Zenon
<1>4. ASSUME NEW m \in data, rx' = Append(rx, m), UNCHANGED dbr PROVE Has(s)'
  <2>1. \A k \in 1 .. Len(rx) : k \in 1 .. Len(rx') /\ rx'[k] = rx[k]
    BY <1>0, <1>4
  <2>2. \A n \in Accepted : n \in Accepted'
    BY <1>4, <2>1, Zenon DEF Accepted
  <2> QED
    BY <2>2, Zenon DEF Has, AcceptedPays
<1> QED
  BY <1>1, <1>2, <1>3, <1>4, Writers, Zenon

(* Every step keeps the newest packet of a number last. *)
LEMMA StepNewest ==
    ASSUME LinkType, Congruent, SingleRun, SingleRun', InFlightKept, Known, NewestLast, [LinkNext]_linkVars
    PROVE  NewestLast'
<1>0. /\ rx \in Seq(Packet) /\ data \subseteq Packet /\ Len(sent) \in Nat /\ Len(rx) \in Nat
      /\ \A k \in 1 .. Len(rx) : rx[k].seq \in Slots
  <2>1. rx \in Seq(Packet) /\ data \subseteq Packet /\ Len(sent) \in Nat
    BY LinkTypes, Zenon
  <2>2. Len(rx) \in Nat /\ \A k \in 1 .. Len(rx) : rx[k] \in Packet
    BY <2>1
  <2> QED
    BY <2>1, <2>2, Zenon DEF Packet
<1>1. CASE UNCHANGED <<rx, dbr, sent, bufWnd>>
  BY <1>1, Zenon DEF NewestLast
<1>2. ASSUME NEW len \in Lens, NEW event \in Event, Fill(len, event), UNCHANGED <<rx, dbr>> PROVE NewestLast'
  <2>1. /\ bufWnd' = [bufWnd EXCEPT ![numSeq] = NewPacket(len)] /\ NewPacket(len).pay = Len(sent)
        /\ bufWnd \in [Slots -> Packet] /\ numSeq \in Slots
    BY <1>2, LinkTypes, Zenon DEF Fill, NewPacket
  <2>2. \A m \in Accepted : m.pay # Len(sent)
    <3>1. \A m \in Accepted : m.pay < Len(sent) /\ m.pay \in Nat
      BY AcceptedTyped, Zenon DEF Known, Packet
    <3>2. \A n \in Nat : n < Len(sent) => n # Len(sent)
      BY <1>0
    <3> QED
      BY <3>1, <3>2, Zenon
  <2>3. \A s \in Slots : bufWnd'[s] = bufWnd[s] \/ bufWnd'[s].pay = Len(sent)
    BY <2>1, Zenon
  <2>4. /\ \A k \in 1 .. Len(rx) : rx[k] \in Accepted
        /\ \A s \in Slots : dbr.stored[s] => dbr.buff[s] \in Accepted
    BY Zenon DEF Accepted
  <2>5. ASSUME NEW s \in Slots, dbr.stored[s], dbr.buff[s].pay = bufWnd'[s].pay
        PROVE  \A k \in 1 .. Len(rx) : rx[k].seq = s => rx[k].pay = bufWnd'[s].pay
    <3>0. dbr.buff[s].pay # Len(sent)
      BY <2>2, <2>4, <2>5, Zenon
    <3>1. bufWnd'[s] = bufWnd[s]
      BY <2>3, <2>5, <3>0, Zenon
    <3>2. dbr.buff[s].pay = bufWnd[s].pay
      BY <2>5, <3>1, Zenon
    <3>3. \A k \in 1 .. Len(rx) : rx[k].seq = s => rx[k].pay = bufWnd[s].pay
      BY <2>5, <3>2, Zenon DEF NewestLast
    <3> QED
      BY <3>1, <3>3, Zenon
  <2>6. ASSUME NEW j \in 1 .. Len(rx), NEW k \in 1 .. Len(rx),
               j < k, rx[j].seq = rx[k].seq, rx[j].pay = bufWnd'[rx[k].seq].pay
        PROVE  rx[k].pay = bufWnd'[rx[k].seq].pay
    <3>1. bufWnd'[rx[k].seq] = bufWnd[rx[k].seq]
      BY <1>0, <2>2, <2>3, <2>4, <2>6, Zenon
    <3> QED
      BY <2>6, <3>1, Zenon DEF NewestLast
  <2> QED
    BY <1>2, <2>5, <2>6, Zenon DEF NewestLast
<1>3. ASSUME ReceiverStart PROVE NewestLast'
  <2>1. Len(rx') = 0 /\ \A s \in Slots : ~dbr'.stored[s]
    BY <1>3, FreshReceiver, Zenon
  <2>2. \A k \in 1 .. Len(rx') : FALSE
    BY <2>1
  <2> QED
    BY <2>1, <2>2, Zenon DEF NewestLast
<1>4. ASSUME Receive, UNCHANGED bufWnd PROVE NewestLast'
  <2>1. /\ 1 \in 1 .. Len(rx) /\ Kept(dbr, dbr', rx[1])
        /\ \A k \in 1 .. Len(rx') : k + 1 \in 1 .. Len(rx) /\ rx'[k] = rx[k + 1]
        /\ Len(rx') = Len(rx) - 1
    BY <1>4, HeadOfRing, Zenon
  <2>2. ASSUME NEW s \in Slots, dbr'.stored[s], dbr'.buff[s].pay = bufWnd[s].pay,
               NEW k \in 1 .. Len(rx'), rx'[k].seq = s
        PROVE  rx'[k].pay = bufWnd[s].pay
    <3>1. k + 1 \in 1 .. Len(rx) /\ rx'[k] = rx[k + 1] /\ 1 < k + 1
      BY <1>0, <2>1
    <3>2. CASE s = rx[1].seq /\ dbr'.buff[s] = rx[1]
      <4>1. rx[k + 1].seq = s /\ rx[1].seq = rx[k + 1].seq /\ rx[1].pay = bufWnd[rx[k + 1].seq].pay
        BY <2>2, <3>1, <3>2, Zenon
      <4>2. rx[k + 1].pay = bufWnd[rx[k + 1].seq].pay
        BY <2>1, <3>1, <4>1, Zenon DEF NewestLast
      <4> QED
        BY <3>1, <4>1, <4>2, Zenon
    <3>3. CASE dbr.stored[s] /\ dbr'.buff[s] = dbr.buff[s]
      <4>1. dbr.buff[s].pay = bufWnd[s].pay /\ rx[k + 1].seq = s
        BY <2>2, <3>1, <3>3, Zenon
      <4>2. rx[k + 1].pay = bufWnd[s].pay
        BY <3>1, <3>3, <4>1, Zenon DEF NewestLast
      <4> QED
        BY <3>1, <4>2, Zenon
    <3> QED
      BY <2>1, <2>2, <3>2, <3>3, Zenon DEF Kept
  <2>3. ASSUME NEW j \in 1 .. Len(rx'), NEW k \in 1 .. Len(rx'),
               j < k, rx'[j].seq = rx'[k].seq, rx'[j].pay = bufWnd[rx'[k].seq].pay
        PROVE  rx'[k].pay = bufWnd[rx'[k].seq].pay
    <3>1. /\ j + 1 \in 1 .. Len(rx) /\ rx'[j] = rx[j + 1] /\ k + 1 \in 1 .. Len(rx)
          /\ rx'[k] = rx[k + 1]
      BY <2>1, Zenon
    <3>2. j + 1 < k + 1
      BY <1>0, <2>1, <2>3
    <3>3. rx[j + 1].seq = rx[k + 1].seq /\ rx[j + 1].pay = bufWnd[rx[k + 1].seq].pay
      BY <2>3, <3>1, Zenon
    <3>4. rx[k + 1].pay = bufWnd[rx[k + 1].seq].pay
      BY <3>1, <3>2, <3>3, Zenon DEF NewestLast
    <3> QED
      BY <3>1, <3>4, Zenon
  <2> QED
    BY <1>4, <2>2, <2>3, Zenon DEF NewestLast
<1>5. ASSUME NEW m \in data, rx' = Append(rx, m), UNCHANGED <<dbr, bufWnd>> PROVE NewestLast'
  <2>1. m.pay = bufWnd[m.seq].pay
    BY Zenon DEF InFlightKept
  <2>2. \A k \in 1 .. Len(rx') :
          \/ k = Len(rx) + 1 /\ rx'[k] = m
          \/ k \in 1 .. Len(rx) /\ rx'[k] = rx[k]
    BY <1>0, <1>5
  <2>3. \A j, k \in 1 .. Len(rx') : j < k => j \in 1 .. Len(rx)
    BY <1>0, <1>5
  <2>4. ASSUME NEW s \in Slots, dbr.stored[s], dbr.buff[s].pay = bufWnd[s].pay,
               NEW k \in 1 .. Len(rx'), rx'[k].seq = s
        PROVE  rx'[k].pay = bufWnd[s].pay
    <3>1. CASE rx'[k] = m
      BY <2>1, <2>4, <3>1, Zenon
    <3>2. CASE k \in 1 .. Len(rx) /\ rx'[k] = rx[k]
      <4>1. rx[k].seq = s
        BY <2>4, <3>2, Zenon
      <4>2. rx[k].pay = bufWnd[s].pay
        BY <2>4, <3>2, <4>1, Zenon DEF NewestLast
      <4> QED
        BY <3>2, <4>2, Zenon
    <3> QED
      BY <2>2, <3>1, <3>2, Zenon
  <2>5. ASSUME NEW j \in 1 .. Len(rx'), NEW k \in 1 .. Len(rx'),
               j < k, rx'[j].seq = rx'[k].seq, rx'[j].pay = bufWnd[rx'[k].seq].pay
        PROVE  rx'[k].pay = bufWnd[rx'[k].seq].pay
    <3>1. CASE rx'[k] = m
      BY <2>1, <3>1, Zenon
    <3>2. CASE k \in 1 .. Len(rx) /\ rx'[k] = rx[k]
      <4>1. j \in 1 .. Len(rx)
        BY <2>3, <2>5, Zenon
      <4>2. rx'[j] = rx[j]
        BY <1>0, <1>5, <4>1
      <4>3. rx[j].seq = rx[k].seq /\ rx[j].pay = bufWnd[rx[k].seq].pay
        BY <2>5, <3>2, <4>2, Zenon
      <4>4. rx[k].pay = bufWnd[rx[k].seq].pay
        BY <2>5, <3>2, <4>1, <4>3, Zenon DEF NewestLast
      <4> QED
        BY <3>2, <4>4, Zenon
    <3> QED
      BY <2>2, <3>1, <3>2, Zenon
  <2> QED
    BY <1>5, <2>4, <2>5, Zenon DEF NewestLast
<1> QED
  BY <1>1, <1>2, <1>3, <1>4, <1>5, Writers, Zenon
=============================================================================
