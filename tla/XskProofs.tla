----------------------------- MODULE XskProofs -----------------------------
(***************************************************************************)
(* AF_XDP sockets and the batch loop of dbr.c, for any number of sockets,  *)
(* programs, frames and any size of the rings.                             *)
(***************************************************************************)
EXTENDS Xsk, FiniteSetTheorems, WellFoundedInduction, TLAPS

Making == {"config", "look", "load", "get", "set"}
Made == {"live", "failed", "ready"}

Sock == [pc : {"none"} \union Making \union Made, inhibit : BOOLEAN, own : BOOLEAN,
         prog : Nat, calm : BOOLEAN]

SkType ==
    /\ kinds \in Seq({"graft", "libbpf", "other"})
    /\ entry \in Seq(Socks \union {None}) /\ Len(entry) = Len(kinds) /\ att \in 0 .. Len(kinds)
    /\ umem \in [live : BOOLEAN, refs : Nat, ringed : BOOLEAN]
    /\ sk \in [Socks -> Sock] /\ lost \in Nat

Used == {s \in Socks : sk[s].pc # "none"}

(* How a socket is made: one at a time, only the first of a UMEM with a    *)
(* program, and with a descriptor of its own exactly when it is not the    *)
(* first.                                                                  *)
MakeInv ==
    /\ \A s \in Socks :
          /\ sk[s].pc = "none" => ~sk[s].own
          /\ sk[s].pc \in Making => sk[s].own = (umem.refs > 1)
          /\ sk[s].pc \in {"look", "load", "get", "set", "failed", "ready"} => ~sk[s].inhibit
    /\ \A s, t \in Socks : sk[s].pc \in Making /\ sk[t].pc \in Making => s = t
    /\ \A s, t \in Used : ~sk[s].inhibit /\ ~sk[t].inhibit => s = t

(* The account of references and descriptors, and a UMEM under every       *)
(* socket.                                                                 *)
AccountInv ==
    /\ ResourcesAccounted /\ IsFiniteSet(Used)
    /\ ~umem.live => umem = NoUmem

(* What the creation knows of the interface. *)
LookOf(s) ==
    /\ sk[s].pc \in {"none", "config"} \/ sk[s].inhibit => sk[s].prog = 0
    /\ sk[s].pc = "load" /\ sk[s].calm => att = 0
    /\ \/ sk[s].pc \in {"get", "set"}
       \/ sk[s].pc \in Made /\ ~sk[s].inhibit
       => sk[s].prog \in Ids /\ (sk[s].calm => att = sk[s].prog)
    /\ sk[s].pc \in Made /\ ~sk[s].inhibit => entry[sk[s].prog] = s

LookInv == \A s \in Socks : LookOf(s)

SkInv == SkType /\ MakeInv /\ AccountInv /\ LookInv

(* A ring of the given size, and the locals of the loop. *)
Index == 0 .. Wrap - 1
Ring(size) == [prod : Index, cons : Index, cprod : Index, ccons : Index,
               slot : [1 .. size -> Int]]
Loop == [pc : {"idle", "look", "reserve", "submit", "process", "spin"},
         recvd : Int, idx : Int, stock : Nat, done : Int]

IoType == free \in Seq(Int) /\ fill \in Ring(FillSize) /\ rx \in Ring(RxSize) /\ loop \in Loop

(* The loop runs on a socket in use; what it means to reserve is free. *)
LoopInv ==
    /\ IoType
    /\ loop.pc # "idle" => Serving # {}
    /\ loop.pc = "reserve" => Ahead(fill.ccons, fill.cprod) = loop.stock
    /\ loop.pc # "spin"

-----------------------------------------------------------------------------
(* The descriptors of a UMEM that is live or not, of the sockets in O with *)
(* one of their own, and of the sockets in M with a program and its map.   *)
FdsOf(live, O, M) ==
    (IF live THEN {<<"umem", None>>} ELSE {})
        \union {<<"sock", s>> : s \in O} \union {<<k, s>> : k \in {"map", "prog"}, s \in M}

OwnSocks == {t \in Socks : sk[t].own}
MapSocks == {t \in Socks : ~sk[t].inhibit /\ sk[t].pc \in {"set", "live", "failed", "ready"}}

SockFd(s) == {<<"sock", s>>}
MapFds(s) == {<<"map", s>>, <<"prog", s>>}
AllFds(s) == {<<"sock", s>>, <<"map", s>>, <<"prog", s>>}

(* Opening that of a socket. *)
LEMMA OpenSock ==
    ASSUME NEW live, NEW O, NEW M, NEW s
    PROVE  FdsOf(live, O \union {s}, M) = FdsOf(live, O, M) \union SockFd(s)
  BY DEF FdsOf, SockFd

(* Opening those of its program and map. *)
LEMMA OpenMaps ==
    ASSUME NEW live, NEW O, NEW M, NEW s
    PROVE  FdsOf(live, O, M \union {s}) = FdsOf(live, O, M) \union MapFds(s)
  BY DEF FdsOf, MapFds

(* Closing those of one socket. *)
Closing(s, O, M) ==
    (IF s \in M THEN {<<"map", s>>, <<"prog", s>>} ELSE {})
        \union (IF s \in O THEN {<<"sock", s>>} ELSE {})

(* What the descriptors are without a socket: those of before but its own. *)
LEMMA CloseAll ==
    ASSUME NEW live, NEW O, NEW M, NEW s
    PROVE  FdsOf(live, O \ {s}, M \ {s}) = FdsOf(live, O, M) \ Closing(s, O, M)
  BY DEF FdsOf, Closing

(* The descriptor of the UMEM comes and goes with it. *)
LEMMA OpenUmem ==
    ASSUME NEW O, NEW M
    PROVE  /\ FdsOf(TRUE, O, M) = FdsOf(FALSE, O, M) \union {<<"umem", None>>}
           /\ FdsOf(FALSE, O, M) = FdsOf(TRUE, O, M) \ {<<"umem", None>>}
           /\ FdsOf(FALSE, {}, {}) = {}
  BY DEF FdsOf

(* The account in these terms. *)
Account ==
    /\ umem.refs = Cardinality(Used) + lost
    /\ fds = FdsOf(umem.live, OwnSocks, MapSocks)

(* ResourcesAccounted is this account, before a step and after it. *)
LEMMA Accounted == (ResourcesAccounted <=> Account) /\ (ResourcesAccounted' <=> Account')
<1>1. ResourcesAccounted <=> Account
  BY DEF ResourcesAccounted, Account, Used, FdsOf, OwnSocks, MapSocks
<1>2. ResourcesAccounted' <=> Account'
  BY DEF ResourcesAccounted, Account, Used, FdsOf, OwnSocks, MapSocks
<1> QED
  BY <1>1, <1>2, Zenon
-----------------------------------------------------------------------------
(* A step on socket s that keeps what it was made with. *)
Updates(s) ==
    /\ sk' \in [Socks -> Sock]
    /\ \A t \in Socks : t # s => sk'[t] = sk[t]
    /\ sk'[s].inhibit = sk[s].inhibit /\ sk'[s].own = sk[s].own

(* Socket s is as if it had never been made. *)
Drops(s) ==
    /\ sk' \in [Socks -> Sock]
    /\ \A t \in Socks : t # s => sk'[t] = sk[t]
    /\ sk'[s] = NoSock

(* The socket that has not been made. *)
LEMMA NoSockType ==
    /\ NoSock \in Sock /\ NoSock.pc = "none" /\ NoSock.inhibit = FALSE /\ NoSock.own = FALSE
    /\ NoSock.prog = 0 /\ NoSock.calm = FALSE
  BY DEF NoSock, Sock

(* The creation of s goes on, or s is configured. *)
LEMMA AdvanceMake ==
    ASSUME SkType, MakeInv, NEW s \in Socks, Updates(s), sk[s].pc # "none", sk'[s].pc # "none",
           umem'.refs = umem.refs, sk'[s].pc \in Making => sk[s].pc \in Making,
           sk'[s].pc \in {"look", "load", "get", "set", "failed", "ready"} => ~sk[s].inhibit
    PROVE  MakeInv' /\ Used' = Used
<1>1. Used' = Used
  BY Zenon DEF Used, Updates
<1>2. ASSUME NEW t \in Socks
      PROVE  /\ sk'[t].pc = "none" => ~sk'[t].own
             /\ sk'[t].pc \in Making => sk'[t].own = (umem'.refs > 1)
             /\ sk'[t].pc \in {"look", "load", "get", "set", "failed", "ready"} => ~sk'[t].inhibit
  <2>1. CASE t = s
    BY <2>1, Zenon DEF MakeInv, Updates
  <2>2. CASE t # s
    BY <2>2, Zenon DEF MakeInv, Updates
  <2> QED
    BY <2>1, <2>2, Zenon
<1>3. \A t \in Socks : sk'[t].pc \in Making => sk[t].pc \in Making
  BY Zenon DEF Updates
<1>4. \A t \in Socks : sk'[t].inhibit = sk[t].inhibit
  BY Zenon DEF Updates
<1>5. \A t, u \in Socks : sk'[t].pc \in Making /\ sk'[u].pc \in Making => t = u
  BY <1>3, Zenon DEF MakeInv
<1>6. \A t, u \in Used' : ~sk'[t].inhibit /\ ~sk'[u].inhibit => t = u
  BY <1>1, <1>4, Zenon DEF MakeInv, Used
<1> QED
  BY <1>1, <1>2, <1>5, <1>6, Zenon DEF MakeInv

(* Socket s goes, by a failure of its creation or by its deletion. *)
LEMMA DropMake ==
    ASSUME SkType, MakeInv, NEW s \in Socks, Drops(s), sk[s].pc # "none",
           sk[s].pc \in Making \/ Quiet
    PROVE  MakeInv' /\ Used' = Used \ {s}
<1>0. NoSock.pc = "none" /\ NoSock.inhibit = FALSE /\ NoSock.own = FALSE /\ "none" \notin Making
      /\ "none" \notin {"look", "load", "get", "set", "failed", "ready"}
  BY NoSockType DEF Making
<1>1. Used' = Used \ {s}
  BY <1>0, Zenon DEF Used, Drops
<1>2. \A t \in Socks : sk'[t].pc \notin Making
  <2>1. CASE sk[s].pc \in Making
    <3>1. \A t \in Socks : t # s => sk[t].pc \notin Making
      BY <2>1, Zenon DEF MakeInv
    <3> QED
      BY <3>1, <1>0, Zenon DEF Drops
  <2>2. CASE Quiet
    <3>1. \A t \in Socks : sk[t].pc \notin Making
      BY <2>2 DEF Quiet, Making
    <3> QED
      BY <3>1, <1>0, Zenon DEF Drops
  <2> QED
    BY <2>1, <2>2, Zenon
<1>3. ASSUME NEW t \in Socks
      PROVE  /\ sk'[t].pc = "none" => ~sk'[t].own
             /\ sk'[t].pc \in {"look", "load", "get", "set", "failed", "ready"} => ~sk'[t].inhibit
  <2>1. CASE t = s
    BY <2>1, <1>0, Zenon DEF Drops
  <2>2. CASE t # s
    BY <2>2, Zenon DEF MakeInv, Drops
  <2> QED
    BY <2>1, <2>2, Zenon
<1>4. \A t, u \in Used' : ~sk'[t].inhibit /\ ~sk'[u].inhibit => t = u
  BY <1>1, Zenon DEF MakeInv, Used, Drops
<1> QED
  BY <1>1, <1>2, <1>3, <1>4, Zenon DEF MakeInv

(* A socket with a program is the only one: of what was known of the       *)
(* interface only its own part may change.                                 *)
LEMMA MainLook ==
    ASSUME MakeInv, LookInv, NEW s \in Socks, sk[s].pc # "none", ~sk[s].inhibit,
           \A t \in Socks : t # s => sk'[t] = sk[t], LookOf(s)'
    PROVE  LookInv'
<1> SUFFICES ASSUME NEW t \in Socks, t # s PROVE LookOf(t)'
  BY Zenon DEF LookInv
<1>1. sk'[t] = sk[t] /\ LookOf(t)
  BY Zenon DEF LookInv
<1>2. sk[t].pc = "none" \/ sk[t].inhibit
  BY Zenon DEF MakeInv, Used
<1>3. sk[t].pc \notin {"load", "get", "set"} /\ (sk[t].pc \in Made => sk[t].inhibit)
  <2>1. CASE sk[t].pc = "none"
    BY <2>1 DEF Made
  <2>2. CASE sk[t].inhibit
    BY <2>2, Zenon DEF MakeInv
  <2> QED
    BY <1>2, <2>1, <2>2, Zenon
<1> QED
  BY <1>1, <1>3, Zenon DEF LookOf

(* While nobody touches the interface or the maps, likewise. *)
LEMMA SameHookLook ==
    ASSUME LookInv, NEW s \in Socks, UNCHANGED hookVars,
           \A t \in Socks : t # s => sk'[t] = sk[t], LookOf(s)'
    PROVE  LookInv'
<1> SUFFICES ASSUME NEW t \in Socks, t # s PROVE LookOf(t)'
  BY Zenon DEF LookInv
<1>1. sk'[t] = sk[t] /\ LookOf(t) /\ att' = att /\ entry' = entry /\ Ids' = Ids
  BY Zenon DEF LookInv, hookVars, Ids
<1> QED
  BY <1>1, Zenon DEF LookOf

(* A socket that is not there knows nothing. *)
LEMMA DroppedLook ==
    ASSUME NEW s \in Socks, sk'[s] = NoSock
    PROVE  LookOf(s)'
<1>1. /\ sk'[s].pc = "none" /\ sk'[s].prog = 0 /\ "none" \notin Made /\ "none" \notin {"get", "set"}
      /\ "none" # "load"
  BY NoSockType DEF Made
<1> QED
  BY <1>1, Zenon DEF LookOf

(* A socket keeps its UMEM. *)
LEMMA UsedRefs ==
    ASSUME SkType, AccountInv, NEW s \in Socks, sk[s].pc # "none"
    PROVE  umem.refs \in Nat /\ umem.refs >= 1 /\ umem.live
<1>0. /\ umem.refs = Cardinality(Used) + lost /\ IsFiniteSet(Used) /\ s \in Used /\ lost \in Nat
  BY Accounted, Zenon DEF AccountInv, Account, Used, SkType
<1>1. Cardinality(Used) # 0 /\ Cardinality(Used) \in Nat
  BY <1>0, FS_EmptySet, FS_CardinalityType, Zenon
<1>2. umem.refs >= 1 /\ umem.refs \in Nat /\ umem.refs # 0
  <2> HIDE DEF Used
  <2> QED
    BY <1>0, <1>1
<1>3. NoUmem.refs = 0
  BY Zenon DEF NoUmem
<1> QED
  BY <1>2, <1>3, Zenon DEF AccountInv

(* The account after socket s went, with its descriptors closed. *)
LEMMA DropAccount ==
    ASSUME SkType, AccountInv, NEW s \in Socks, Drops(s), sk[s].pc # "none",
           Used' = Used \ {s}, umem'.refs = umem.refs - 1, umem'.live = umem.live, lost' = lost,
           fds' = fds \ Closing(s, OwnSocks, MapSocks)
    PROVE  AccountInv'
<1>0. /\ umem.refs = Cardinality(Used) + lost /\ fds = FdsOf(umem.live, OwnSocks, MapSocks)
      /\ IsFiniteSet(Used) /\ s \in Used /\ lost \in Nat
  BY Accounted, Zenon DEF AccountInv, Account, Used, SkType
<1>1. IsFiniteSet(Used') /\ Cardinality(Used') = Cardinality(Used) - 1 /\ Cardinality(Used) \in Nat
  BY <1>0, FS_RemoveElement, FS_CardinalityType, Zenon
<1>2. umem'.refs = Cardinality(Used') + lost'
  <2> HIDE DEF Used
  <2> QED
    BY <1>0, <1>1
<1>3. OwnSocks' = OwnSocks \ {s} /\ MapSocks' = MapSocks \ {s}
  <2>1. NoSock.own = FALSE /\ NoSock.pc \notin {"set", "live", "failed", "ready"}
    BY NoSockType
  <2> QED
    BY <2>1, Zenon DEF OwnSocks, MapSocks, Drops
<1> HIDE DEF OwnSocks, MapSocks
<1>4. fds' = FdsOf(umem'.live, OwnSocks', MapSocks')
  <2>1. FdsOf(umem.live, OwnSocks \ {s}, MapSocks \ {s}) = fds \ Closing(s, OwnSocks, MapSocks)
    BY <1>0, CloseAll
  <2> QED
    BY <1>3, <2>1, Zenon
<1>5. ResourcesAccounted'
  BY <1>2, <1>4, Accounted, Zenon DEF Account
<1>6. umem.live
  BY UsedRefs, Zenon
<1> QED
  BY <1>1, <1>5, <1>6, Zenon DEF AccountInv

(* A creation that fails gives back what it took. *)
LEMMA UnwindStep ==
    ASSUME SkInv, NEW s \in Socks, NEW gone, sk[s].pc \in Making,
           gone = IF sk[s].pc = "set" THEN {<<"map", s>>, <<"prog", s>>} ELSE {},
           \E u \in {umem, Ringed(s)} : Unwind(s, gone, u), lost' = lost
    PROVE  /\ umem' \in [live : BOOLEAN, refs : Nat, ringed : BOOLEAN]
           /\ Drops(s) /\ MakeInv' /\ AccountInv'
<1>0. /\ SkType /\ MakeInv /\ AccountInv
      /\ sk \in [Socks -> Sock] /\ umem \in [live : BOOLEAN, refs : Nat, ringed : BOOLEAN]
  BY Zenon DEF SkInv, SkType
<1>1. sk[s].pc # "none" /\ (sk[s].pc \in {"set", "live", "failed", "ready"} <=> sk[s].pc = "set")
  BY DEF Making
<1>2. PICK u \in {umem, Ringed(s)} : Unwind(s, gone, u)
  BY Zenon
<1>3. umem.refs \in Nat /\ umem.refs >= 1 /\ umem.live
  BY <1>0, <1>1, UsedRefs, Zenon
<1>4. u \in [live : BOOLEAN, refs : Nat, ringed : BOOLEAN] /\ u.refs = umem.refs /\ u.live = umem.live
  BY <1>0, <1>2 DEF Ringed, Sock
<1>5. umem' = [u EXCEPT !.refs = @ - 1]
  BY <1>2, Zenon DEF Unwind
<1>6. /\ umem' \in [live : BOOLEAN, refs : Nat, ringed : BOOLEAN]
      /\ umem'.refs = umem.refs - 1 /\ umem'.live = umem.live
  <2>1. u.refs - 1 \in Nat /\ u.refs - 1 = umem.refs - 1
    BY <1>3, <1>4
  <2> QED
    BY <1>4, <1>5, <2>1, Zenon
<1>7. Drops(s)
  BY <1>0, <1>2, NoSockType, Zenon DEF Unwind, Drops
<1>8. MakeInv' /\ Used' = Used \ {s}
  BY <1>0, <1>1, <1>7, DropMake, Zenon
<1>9. fds' = fds \ Closing(s, OwnSocks, MapSocks)
  <2>1. s \in MapSocks <=> sk[s].pc = "set"
    <3>1. sk[s].pc = "set" => ~sk[s].inhibit
      BY <1>0, Zenon DEF MakeInv
    <3> QED
      BY <3>1, <1>1, Zenon DEF MapSocks
  <2>2. s \in OwnSocks <=> umem.refs > 1
    BY <1>0, Zenon DEF MakeInv, OwnSocks
  <2>3. fds' = fds \ (gone \union IF umem.refs > 1 THEN {<<"sock", s>>} ELSE {})
    BY <1>2, Zenon DEF Unwind
  <2>4. gone = IF s \in MapSocks THEN {<<"map", s>>, <<"prog", s>>} ELSE {}
    BY <2>1, Zenon
  <2>5. (IF umem.refs > 1 THEN {<<"sock", s>>} ELSE {}) = IF s \in OwnSocks THEN {<<"sock", s>>} ELSE {}
    BY <2>2, Zenon
  <2> QED
    BY <2>3, <2>4, <2>5, Zenon DEF Closing
<1>10. AccountInv'
  BY <1>0, <1>1, <1>6, <1>7, <1>8, <1>9, DropAccount, Zenon
<1> QED
  BY <1>6, <1>7, <1>8, <1>10, Zenon

(* The same for the invariant, when the interface and the maps stay. *)
LEMMA UnwindSame ==
    ASSUME SkInv, NEW s \in Socks, sk[s].pc \in Making, sk[s].pc # "set",
           \E u \in {umem, Ringed(s)} : Unwind(s, {}, u), UNCHANGED <<hookVars, lost>>
    PROVE  SkInv'
<1>1. /\ umem' \in [live : BOOLEAN, refs : Nat, ringed : BOOLEAN]
      /\ Drops(s) /\ MakeInv' /\ AccountInv'
  BY UnwindStep, Zenon
<1>2. LookInv'
  BY <1>1, DroppedLook, SameHookLook, Zenon DEF Drops, SkInv
<1>3. SkType'
  BY <1>1, Zenon DEF SkInv, SkType, Drops, hookVars
<1> QED
  BY <1>1, <1>2, <1>3, Zenon DEF SkInv

(* A step of the creation that works: what is left to show. *)
LEMMA AdvanceStep ==
    ASSUME SkInv, NEW s \in Socks, Updates(s), sk[s].pc # "none", sk'[s].pc # "none",
           umem' \in [live : BOOLEAN, refs : Nat, ringed : BOOLEAN],
           umem'.refs = umem.refs, umem'.live = umem.live, lost' = lost,
           sk'[s].pc \in Making => sk[s].pc \in Making,
           sk'[s].pc \in {"look", "load", "get", "set", "failed", "ready"} => ~sk[s].inhibit,
           \/ fds' = fds /\ (s \in MapSocks' <=> s \in MapSocks)
           \/ fds' = fds \union {<<"map", s>>, <<"prog", s>>} /\ s \in MapSocks'
    PROVE  MakeInv' /\ AccountInv'
<1>0. SkType /\ MakeInv /\ AccountInv
  BY Zenon DEF SkInv
<1>1. MakeInv' /\ Used' = Used
  BY <1>0, AdvanceMake, Zenon
<1>2. Account /\ IsFiniteSet(Used)
  BY <1>0, Accounted, Zenon DEF AccountInv
<1>3. OwnSocks' = OwnSocks
  BY Zenon DEF OwnSocks, Updates
<1>4. \A t \in Socks : t # s => (t \in MapSocks' <=> t \in MapSocks)
  BY Zenon DEF MapSocks, Updates
<1>5. MapSocks \subseteq Socks /\ MapSocks' \subseteq Socks
  BY Zenon DEF MapSocks
<1> HIDE DEF OwnSocks, MapSocks
<1>6. fds' = FdsOf(umem'.live, OwnSocks', MapSocks')
  <2>0. fds = FdsOf(umem.live, OwnSocks, MapSocks)
    BY <1>2, Zenon DEF Account
  <2>1. CASE fds' = fds /\ (s \in MapSocks' <=> s \in MapSocks)
    <3>1. MapSocks' = MapSocks
      <4>1. \A t : t \in MapSocks' <=> t \in MapSocks
        BY <2>1, <1>4, <1>5, Zenon
      <4> QED
        BY <4>1, Zenon
    <3> QED
      BY <2>0, <2>1, <3>1, <1>3, Zenon
  <2>2. CASE fds' = fds \union {<<"map", s>>, <<"prog", s>>} /\ s \in MapSocks'
    <3>1. MapSocks' = MapSocks \union {s}
      <4>1. \A t : t \in MapSocks' <=> t \in MapSocks \/ t = s
        BY <2>2, <1>4, <1>5, Zenon
      <4> QED
        BY <4>1, Zenon
    <3>2. FdsOf(umem.live, OwnSocks, MapSocks \union {s})
              = FdsOf(umem.live, OwnSocks, MapSocks) \union MapFds(s)
      BY OpenMaps
    <3>3. FdsOf(umem'.live, OwnSocks', MapSocks') = FdsOf(umem.live, OwnSocks, MapSocks \union {s})
      BY <3>1, <1>3, Zenon
    <3> QED
      BY <2>0, <2>2, <3>2, <3>3, Zenon DEF MapFds
  <2> QED
    BY <2>1, <2>2, Zenon
<1>7. Account'
  BY <1>1, <1>2, <1>6, Zenon DEF Account
<1>8. umem'.live
  BY <1>0, UsedRefs, Zenon
<1> QED
  BY <1>1, <1>2, <1>7, <1>8, Accounted, Zenon DEF AccountInv

(* xsk_socket__create() up to the socket. *)
LEMMA BeginStep ==
    ASSUME SkInv, NEW s \in Socks, NEW inhibit \in BOOLEAN, SocketBegin(s, inhibit)
    PROVE  SkInv'
<1>0. /\ SkType /\ MakeInv /\ AccountInv /\ LookInv
      /\ sk \in [Socks -> Sock] /\ umem \in [live : BOOLEAN, refs : Nat, ringed : BOOLEAN] /\ lost \in Nat
  BY Zenon DEF SkInv, SkType
<1>1. /\ Quiet /\ umem.live /\ sk[s].pc = "none" /\ (umem.refs > 0 => inhibit) /\ UNCHANGED hookVars
      /\ umem' = [umem EXCEPT !.refs = @ + 1]
  BY Zenon DEF SocketBegin
<1>2. /\ umem' \in [live : BOOLEAN, refs : Nat, ringed : BOOLEAN]
      /\ umem'.refs = umem.refs + 1 /\ umem'.live = umem.live
  <2>1. umem.refs + 1 \in Nat
    BY <1>0
  <2> QED
    BY <1>0, <1>1, <2>1, Zenon
<1>3. Account /\ IsFiniteSet(Used) /\ Cardinality(Used) \in Nat /\ umem.refs \in Nat
  BY <1>0, Accounted, FS_CardinalityType, Zenon DEF AccountInv
<1>4. \A t \in Socks : sk[t].pc \notin Making
  BY <1>1 DEF Quiet, Making
<1>5. CASE /\ lost' = lost + 1 /\ UNCHANGED <<sk, fds>>
  <2>1. MakeInv'
    BY <1>4, <1>5, <1>0, Zenon DEF MakeInv, Used
  <2>2. Used' = Used /\ OwnSocks' = OwnSocks /\ MapSocks' = MapSocks
    BY <1>5, Zenon DEF Used, OwnSocks, MapSocks
  <2> HIDE DEF Used, OwnSocks, MapSocks
  <2>3. umem'.refs = Cardinality(Used') + lost' /\ lost' \in Nat
    BY <1>0, <1>2, <1>3, <1>5, <2>2 DEF Account
  <2>4. Account'
    BY <1>2, <1>3, <1>5, <2>2, <2>3, Zenon DEF Account
  <2>5. AccountInv'
    BY <1>1, <1>2, <1>3, <2>2, <2>4, Accounted, Zenon DEF AccountInv
  <2>6. LookInv'
    BY <1>0, <1>1, <1>5, Zenon DEF LookInv, LookOf, hookVars, Ids
  <2> QED
    BY <1>0, <1>1, <1>2, <1>5, <2>1, <2>3, <2>5, <2>6, Zenon DEF SkInv, SkType, hookVars
<1>6. CASE /\ sk' = [sk EXCEPT ![s] = [NoSock EXCEPT !.pc = "config", !.inhibit = inhibit,
                                                     !.own = umem.refs > 0]]
           /\ fds' = IF umem.refs > 0 THEN fds \union {<<"sock", s>>} ELSE fds
           /\ UNCHANGED lost
  <2>1. /\ sk' \in [Socks -> Sock] /\ \A t \in Socks : t # s => sk'[t] = sk[t]
        /\ sk'[s].pc = "config" /\ sk'[s].inhibit = inhibit /\ sk'[s].own = (umem.refs > 0)
        /\ sk'[s].prog = 0
    <3> DEFINE o == [NoSock EXCEPT !.pc = "config", !.inhibit = inhibit, !.own = umem.refs > 0]
    <3>0. "config" \in {"none"} \union Making \union Made /\ (umem.refs > 0) \in BOOLEAN
      BY DEF Making
    <3>1. /\ o \in Sock /\ o.pc = "config" /\ o.inhibit = inhibit /\ o.own = (umem.refs > 0)
          /\ o.prog = 0
      BY <3>0, NoSockType, Zenon DEF Sock
    <3> HIDE DEF o
    <3> QED
      BY <1>0, <1>6, <3>1, Zenon DEF o
  <2>2. Used' = Used \union {s} /\ s \notin Used
    BY <1>1, <2>1 DEF Used
  <2>3. IsFiniteSet(Used') /\ Cardinality(Used') = Cardinality(Used) + 1
    BY <1>3, <2>2, FS_AddElement, Zenon
  <2>4. ~sk[s].own
    BY <1>0, <1>1, Zenon DEF MakeInv
  <2>5. MapSocks' = MapSocks
    <3>1. "config" \notin {"set", "live", "failed", "ready"} /\ "none" \notin {"set", "live", "failed", "ready"}
      OBVIOUS
    <3>2. \A t \in Socks : t \in MapSocks' <=> t \in MapSocks
      BY <1>1, <2>1, <3>1, Zenon DEF MapSocks
    <3> QED
      BY <3>2, Zenon DEF MapSocks
  <2>6. OwnSocks' = IF umem.refs > 0 THEN OwnSocks \union {s} ELSE OwnSocks
    <3>2. \A t \in Socks : t \in OwnSocks' <=> (t \in OwnSocks \/ (t = s /\ umem.refs > 0))
      BY <2>1, <2>4, Zenon DEF OwnSocks
    <3>3. OwnSocks \subseteq Socks /\ OwnSocks' \subseteq Socks
      BY Zenon DEF OwnSocks
    <3> QED
      BY <3>2, <3>3, Zenon
  <2> HIDE DEF OwnSocks, MapSocks
  <2>7. fds' = FdsOf(umem'.live, OwnSocks', MapSocks')
    <3>0. fds = FdsOf(umem.live, OwnSocks, MapSocks)
      BY <1>3, Zenon DEF Account
    <3>1. CASE umem.refs > 0
      <4>1. FdsOf(umem.live, OwnSocks \union {s}, MapSocks)
                = FdsOf(umem.live, OwnSocks, MapSocks) \union SockFd(s)
        BY OpenSock
      <4>2. FdsOf(umem'.live, OwnSocks', MapSocks') = FdsOf(umem.live, OwnSocks \union {s}, MapSocks)
        BY <1>2, <2>5, <2>6, <3>1, Zenon
      <4>3. fds' = fds \union {<<"sock", s>>}
        BY <1>6, <3>1, Zenon
      <4> QED
        BY <3>0, <4>1, <4>2, <4>3, Zenon DEF SockFd
    <3>2. CASE ~(umem.refs > 0)
      BY <3>0, <3>2, <1>2, <1>6, <2>5, <2>6, Zenon
    <3> QED
      BY <3>1, <3>2, Zenon
  <2>8. umem'.refs = Cardinality(Used') + lost'
    <3> HIDE DEF Used
    <3> QED
      BY <1>0, <1>2, <1>3, <1>6, <2>3 DEF Account
  <2>9. AccountInv'
    BY <1>1, <1>2, <2>3, <2>7, <2>8, Accounted, Zenon DEF AccountInv, Account
  <2>10. \A t \in Used : umem.refs > 0
    <3>1. \A t \in Used : Cardinality(Used) # 0
      BY <1>3, FS_EmptySet, Zenon
    <3> HIDE DEF Used
    <3> QED
      BY <1>0, <1>3, <3>1 DEF Account
  <2>11. MakeInv'
    <3>1. (umem.refs > 0) = (umem'.refs > 1)
      BY <1>2, <1>3
    <3>2. ASSUME NEW t \in Socks
          PROVE  /\ sk'[t].pc = "none" => ~sk'[t].own
                 /\ sk'[t].pc \in Making => sk'[t].own = (umem'.refs > 1) /\ t = s
                 /\ sk'[t].pc \in {"look", "load", "get", "set", "failed", "ready"} => ~sk'[t].inhibit
      <4>1. CASE t = s
        <5>1. "config" # "none" /\ "config" \notin {"look", "load", "get", "set", "failed", "ready"}
          OBVIOUS
        <5> QED
          BY <4>1, <5>1, <2>1, <3>1, Zenon
      <4>2. CASE t # s
        BY <4>2, <1>0, <1>4, <2>1, Zenon DEF MakeInv
      <4> QED
        BY <4>1, <4>2, Zenon
    <3>3. \A t, u \in Used' : ~sk'[t].inhibit /\ ~sk'[u].inhibit => t = u
      <4>1. \A t \in Used : inhibit
        BY <1>1, <2>10, Zenon
      <4>2. \A t \in Used' : t # s => t \in Used /\ sk'[t] = sk[t]
        BY <2>1, <2>2, Zenon DEF Used
      <4> QED
        BY <1>0, <2>1, <4>1, <4>2, Zenon DEF MakeInv
    <3> QED
      BY <3>2, <3>3, Zenon DEF MakeInv
  <2>12. LookOf(s)'
    <3>1. "config" \notin {"get", "set"} /\ "config" # "load" /\ "config" \notin Made
      BY DEF Made
    <3> QED
      BY <2>1, <3>1, Zenon DEF LookOf
  <2>13. LookInv'
    BY <1>0, <1>1, <2>1, <2>12, SameHookLook, Zenon
  <2> QED
    BY <1>0, <1>1, <1>2, <1>6, <2>1, <2>9, <2>11, <2>13, Zenon DEF SkInv, SkType, hookVars
<1> QED
  BY <1>5, <1>6, Zenon DEF SocketBegin

(* A step that only moves socket s from one place to another. *)
LEMMA MovesTo ==
    ASSUME SkType, NEW s \in Socks, NEW p \in {"none"} \union Making \union Made,
           sk' = [sk EXCEPT ![s].pc = p]
    PROVE  /\ Updates(s) /\ sk'[s].pc = p
           /\ sk'[s].prog = sk[s].prog /\ sk'[s].calm = sk[s].calm
<1>0. sk \in [Socks -> Sock] /\ sk[s] \in Sock
  BY Zenon DEF SkType
<1> DEFINE o == [sk[s] EXCEPT !.pc = p]
<1>1. /\ o \in Sock /\ o.pc = p /\ o.inhibit = sk[s].inhibit /\ o.own = sk[s].own
      /\ o.prog = sk[s].prog /\ o.calm = sk[s].calm
  BY <1>0, Zenon DEF Sock
<1>2. sk' = [sk EXCEPT ![s] = o]
  BY Zenon
<1> HIDE DEF o
<1> QED
  BY <1>0, <1>1, <1>2, Zenon DEF Updates

(* The interface, the rings and bind(): the first time the socket can      *)
(* receive.                                                                *)
LEMMA ConfigStep ==
    ASSUME SkInv, NEW s \in Socks, SocketConfig(s)
    PROVE  SkInv'
<1>0. /\ SkType /\ MakeInv /\ LookInv /\ LookOf(s) /\ sk \in [Socks -> Sock] /\ sk[s] \in Sock
      /\ umem \in [live : BOOLEAN, refs : Nat, ringed : BOOLEAN]
      /\ sk[s].pc = "config" /\ UNCHANGED <<hookVars, lost>>
  BY Zenon DEF SkInv, SkType, LookInv, SocketConfig
<1>1. "config" \in Making /\ "config" # "set" /\ "config" # "none"
  BY DEF Making
<1>2. CASE \E u \in {umem, Ringed(s)} : Unwind(s, {}, u)
  BY <1>0, <1>1, <1>2, UnwindSame, Zenon
<1>3. CASE /\ umem' = Ringed(s) /\ UNCHANGED fds
           /\ sk' = [sk EXCEPT ![s].pc = IF sk[s].inhibit THEN "live" ELSE "look"]
  <2> DEFINE p == IF sk[s].inhibit THEN "live" ELSE "look"
  <2>1. /\ p \in {"none"} \union Making \union Made /\ p # "none"
        /\ p \in {"look", "load", "get", "set", "failed", "ready"} => ~sk[s].inhibit
        /\ p \in {"set", "live", "failed", "ready"} => sk[s].inhibit
        /\ p \notin {"get", "set"} /\ p # "load" /\ (p \in Made => sk[s].inhibit)
        /\ "config" \notin {"set", "live", "failed", "ready"}
    BY DEF Making, Made
  <2>2. sk' = [sk EXCEPT ![s].pc = p]
    BY <1>3, Zenon
  <2> HIDE DEF p
  <2>3. /\ Updates(s) /\ sk'[s].pc = p /\ sk'[s].prog = sk[s].prog
        /\ sk'[s].inhibit = sk[s].inhibit
    BY <1>0, <2>1, <2>2, MovesTo, Zenon DEF Updates
  <2>4. /\ umem' \in [live : BOOLEAN, refs : Nat, ringed : BOOLEAN]
        /\ umem'.refs = umem.refs /\ umem'.live = umem.live
    BY <1>0, <1>3 DEF Ringed, Sock
  <2>5. s \notin MapSocks /\ s \notin MapSocks'
    BY <1>0, <2>1, <2>3, Zenon DEF MapSocks
  <2>6. MakeInv' /\ AccountInv'
    BY <1>0, <1>1, <1>3, <2>1, <2>3, <2>4, <2>5, AdvanceStep, Zenon
  <2>7. LookOf(s)'
    <3>1. sk[s].prog = 0
      BY <1>0, Zenon DEF LookOf
    <3> QED
      BY <2>1, <2>3, <3>1, Zenon DEF LookOf
  <2>8. LookInv'
    BY <1>0, <2>3, <2>7, SameHookLook, Zenon DEF Updates
  <2> QED
    BY <1>0, <2>3, <2>4, <2>6, <2>8, Zenon DEF SkInv, SkType, Updates, hookVars
<1> QED
  BY <1>2, <1>3, Zenon DEF SocketConfig

(* The look at the interface. *)
LEMMA LookStep ==
    ASSUME SkInv, NEW s \in Socks, SetupLook(s)
    PROVE  SkInv'
<1>0. /\ SkType /\ MakeInv /\ LookInv /\ LookOf(s) /\ sk \in [Socks -> Sock] /\ sk[s] \in Sock
      /\ umem \in [live : BOOLEAN, refs : Nat, ringed : BOOLEAN]
      /\ sk[s].pc = "look" /\ ~sk[s].inhibit /\ UNCHANGED <<hookVars, lost>>
  BY Zenon DEF SkInv, SkType, LookInv, SetupLook, MakeInv
<1>1. "look" \in Making /\ "look" # "set" /\ "look" # "none"
  BY DEF Making
<1>2. CASE Unwind(s, {}, umem)
  BY <1>0, <1>1, <1>2, UnwindSame, Zenon
<1>3. CASE /\ UNCHANGED <<umem, fds>>
           /\ sk' = [sk EXCEPT ![s].pc = IF att = 0 THEN "load" ELSE "get",
                               ![s].prog = att, ![s].calm = TRUE]
  <2>0. att \in Nat /\ (att # 0 => att \in Ids)
    BY <1>0 DEF SkType, Ids
  <2> DEFINE p == IF att = 0 THEN "load" ELSE "get"
             o == [sk[s] EXCEPT !.pc = p, !.prog = att, !.calm = TRUE]
  <2>1. /\ p \in Making /\ p # "none" /\ p \notin {"set", "live", "failed", "ready"}
        /\ p \notin {"none", "config"} /\ p \notin Made
        /\ (p = "load" => att = 0) /\ (p \in {"get", "set"} => att # 0)
        /\ "look" \notin {"set", "live", "failed", "ready"}
    BY DEF Making, Made
  <2>2. p \in {"none"} \union Making \union Made
    BY <2>1, Zenon
  <2> HIDE DEF p
  <2>3. /\ o \in Sock /\ o.pc = p /\ o.inhibit = sk[s].inhibit /\ o.own = sk[s].own
        /\ o.prog = att /\ o.calm = TRUE
    BY <1>0, <2>0, <2>2, Zenon DEF Sock
  <2>4. sk' = [sk EXCEPT ![s] = o]
    BY <1>0, <1>3, Zenon DEF p, Sock
  <2> HIDE DEF o
  <2>5. /\ Updates(s) /\ sk'[s] = o
    BY <1>0, <2>3, <2>4, Zenon DEF Updates
  <2>6. s \notin MapSocks /\ s \notin MapSocks'
    BY <1>0, <2>1, <2>3, <2>5, Zenon DEF MapSocks
  <2>7. MakeInv' /\ AccountInv'
    BY <1>0, <1>1, <1>3, <2>1, <2>3, <2>5, <2>6, AdvanceStep, Zenon
  <2>8. LookOf(s)'
    <3>1. att' = att /\ Ids' = Ids
      BY <1>0, Zenon DEF hookVars, Ids
    <3> QED
      BY <1>0, <2>0, <2>1, <2>3, <2>5, <3>1, Zenon DEF LookOf
  <2>9. LookInv'
    BY <1>0, <2>5, <2>8, SameHookLook, Zenon DEF Updates
  <2> QED
    BY <1>0, <1>3, <2>5, <2>7, <2>9, Zenon DEF SkInv, SkType, Updates, hookVars
<1> QED
  BY <1>2, <1>3, Zenon DEF SetupLook

(* A new program with its map, which holds no socket. *)
LEMMA NewProgramType ==
    ASSUME SkType, NEW kind \in {"graft", "libbpf", "other"}, NewProgram(kind)
    PROVE  /\ kinds' \in Seq({"graft", "libbpf", "other"}) /\ entry' \in Seq(Socks \union {None})
           /\ Len(entry') = Len(kinds') /\ att' \in 0 .. Len(kinds') /\ att' \in Ids'
           /\ Ids \subseteq Ids' /\ \A p \in Ids : entry'[p] = entry[p]
           /\ att' = Len(kinds) + 1 /\ Len(kinds) \in Nat
<1>1. /\ kinds \in Seq({"graft", "libbpf", "other"}) /\ entry \in Seq(Socks \union {None})
      /\ Len(entry) = Len(kinds) /\ kinds' = Append(kinds, kind) /\ entry' = Append(entry, None)
      /\ att' = Len(kinds) + 1
  BY Zenon DEF SkType, NewProgram
<1>2. kinds' \in Seq({"graft", "libbpf", "other"}) /\ Len(kinds') = Len(kinds) + 1 /\ Len(kinds) \in Nat
  BY <1>1
<1>3. None \in Socks \union {None}
  OBVIOUS
<1>4. /\ entry' \in Seq(Socks \union {None}) /\ Len(entry') = Len(entry) + 1
      /\ \A p \in 1 .. Len(entry) : entry'[p] = entry[p]
  BY <1>1, <1>3
<1> QED
  BY <1>1, <1>2, <1>4 DEF Ids

(* libbpf's own program, when there was none. *)
LEMMA LoadStep ==
    ASSUME SkInv, NEW s \in Socks, SetupLoad(s)
    PROVE  SkInv'
<1>0. /\ SkType /\ MakeInv /\ LookInv /\ LookOf(s) /\ sk \in [Socks -> Sock] /\ sk[s] \in Sock
      /\ umem \in [live : BOOLEAN, refs : Nat, ringed : BOOLEAN]
      /\ sk[s].pc = "load" /\ ~sk[s].inhibit /\ UNCHANGED lost
  BY Zenon DEF SkInv, SkType, LookInv, SetupLoad, MakeInv
<1>1. /\ "load" \in Making /\ "load" # "set" /\ "load" # "none"
      /\ "set" # "none" /\ "set" \in Making /\ "set" \in {"none"} \union Making \union Made
      /\ "set" \notin Made /\ "set" # "load" /\ "set" \notin {"none", "config"}
  BY DEF Making, Made
<1>2. CASE Unwind(s, {}, umem) /\ UNCHANGED hookVars
  BY <1>0, <1>1, <1>2, UnwindSame, Zenon
<1>3. CASE /\ NewProgram("libbpf") /\ UNCHANGED umem
           /\ sk' = [sk EXCEPT ![s].pc = "set", ![s].prog = Len(kinds) + 1]
           /\ fds' = fds \union {<<"map", s>>, <<"prog", s>>}
  <2>0. /\ kinds' \in Seq({"graft", "libbpf", "other"}) /\ entry' \in Seq(Socks \union {None})
        /\ Len(entry') = Len(kinds') /\ att' \in 0 .. Len(kinds') /\ att' \in Ids'
        /\ att' = Len(kinds) + 1 /\ Len(kinds) \in Nat
    BY <1>0, <1>3, NewProgramType, Zenon
  <2> DEFINE o == [sk[s] EXCEPT !.pc = "set", !.prog = Len(kinds) + 1]
  <2>1. Len(kinds) + 1 \in Nat
    BY <2>0
  <2>2. /\ o \in Sock /\ o.pc = "set" /\ o.inhibit = sk[s].inhibit /\ o.own = sk[s].own
        /\ o.prog = Len(kinds) + 1
    BY <1>0, <1>1, <2>1, Zenon DEF Sock
  <2>3. sk' = [sk EXCEPT ![s] = o]
    BY <1>0, <1>3, Zenon DEF Sock
  <2> HIDE DEF o
  <2>4. Updates(s) /\ sk'[s] = o
    BY <1>0, <2>2, <2>3, Zenon DEF Updates
  <2>5. s \in MapSocks'
    BY <1>0, <2>2, <2>4, Zenon DEF MapSocks
  <2>6. MakeInv' /\ AccountInv'
    BY <1>0, <1>1, <1>3, <2>2, <2>4, <2>5, AdvanceStep, Zenon
  <2>7. LookOf(s)'
    BY <1>0, <1>1, <2>0, <2>2, <2>4, Zenon DEF LookOf
  <2>8. LookInv'
    BY <1>0, <1>1, <2>4, <2>7, MainLook, Zenon DEF Updates
  <2> QED
    BY <1>0, <1>3, <2>0, <2>4, <2>6, <2>8, Zenon DEF SkInv, SkType, Updates
<1> QED
  BY <1>2, <1>3, Zenon DEF SetupLoad

(* The map of the program that was there. *)
LEMMA GetStep ==
    ASSUME SkInv, NEW s \in Socks, SetupGet(s)
    PROVE  SkInv'
<1>0. /\ SkType /\ MakeInv /\ LookInv /\ LookOf(s) /\ sk \in [Socks -> Sock]
      /\ umem \in [live : BOOLEAN, refs : Nat, ringed : BOOLEAN]
      /\ sk[s].pc = "get" /\ ~sk[s].inhibit /\ UNCHANGED <<hookVars, lost>>
  BY Zenon DEF SkInv, SkType, LookInv, SetupGet, MakeInv
<1>1. /\ "get" \in Making /\ "get" # "set" /\ "get" # "none"
      /\ "set" # "none" /\ "set" \in Making /\ "set" \in {"none"} \union Making \union Made
      /\ "set" \notin Made /\ "set" # "load" /\ "set" \notin {"none", "config"}
  BY DEF Making, Made
<1>2. CASE Unwind(s, {}, umem)
  BY <1>0, <1>1, <1>2, UnwindSame, Zenon
<1>3. CASE /\ sk' = [sk EXCEPT ![s].pc = "set"] /\ UNCHANGED umem
           /\ fds' = fds \union {<<"map", s>>, <<"prog", s>>}
  <2>1. /\ Updates(s) /\ sk'[s].pc = "set" /\ sk'[s].prog = sk[s].prog
        /\ sk'[s].calm = sk[s].calm /\ sk'[s].inhibit = sk[s].inhibit
    BY <1>0, <1>1, <1>3, MovesTo, Zenon DEF Updates
  <2>2. s \in MapSocks'
    BY <1>0, <2>1, Zenon DEF MapSocks
  <2>3. MakeInv' /\ AccountInv'
    BY <1>0, <1>1, <1>3, <2>1, <2>2, AdvanceStep, Zenon
  <2>4. LookOf(s)'
    <3>1. att' = att /\ Ids' = Ids
      BY <1>0, Zenon DEF hookVars, Ids
    <3> QED
      BY <1>0, <1>1, <2>1, <3>1, Zenon DEF LookOf
  <2>5. LookInv'
    BY <1>0, <2>1, <2>4, SameHookLook, Zenon DEF Updates
  <2> QED
    BY <1>0, <1>3, <2>1, <2>3, <2>5, Zenon DEF SkInv, SkType, Updates, hookVars
<1> QED
  BY <1>2, <1>3, Zenon DEF SetupGet

(* The socket enters the map of the program, or the creation fails. *)
LEMMA SetStep ==
    ASSUME SkInv, NEW s \in Socks, SetupSet(s)
    PROVE  SkInv'
<1>0. /\ SkType /\ MakeInv /\ LookInv /\ LookOf(s) /\ sk \in [Socks -> Sock]
      /\ umem \in [live : BOOLEAN, refs : Nat, ringed : BOOLEAN]
      /\ entry \in Seq(Socks \union {None}) /\ Len(entry) = Len(kinds)
      /\ sk[s].pc = "set" /\ ~sk[s].inhibit /\ UNCHANGED <<att, kinds, lost>>
  BY Zenon DEF SkInv, SkType, LookInv, SetupSet, MakeInv
<1>1. /\ "set" \in Making /\ "set" # "none" /\ "live" # "none"
      /\ "live" \notin Making /\ "live" \in {"none"} \union Making \union Made
      /\ "live" \in Made /\ "live" # "load" /\ "live" \notin {"none", "config"}
      /\ "live" \notin {"look", "load", "get", "set", "failed", "ready"}
  BY DEF Making, Made
<1>2. sk[s].prog \in 1 .. Len(entry) /\ sk[s].prog \in Ids /\ (sk[s].calm => att = sk[s].prog)
  BY <1>0, Zenon DEF LookOf, Ids
<1>3. ASSUME NEW v \in Socks \union {None}, entry' = [entry EXCEPT ![sk[s].prog] = v]
      PROVE  /\ entry' \in Seq(Socks \union {None}) /\ Len(entry') = Len(kinds')
             /\ entry'[sk[s].prog] = v /\ att' \in 0 .. Len(kinds')
  <2>1. /\ entry' \in Seq(Socks \union {None}) /\ Len(entry') = Len(entry)
        /\ entry'[sk[s].prog] = v
    BY <1>0, <1>2, <1>3
  <2> QED
    BY <1>0, <2>1, Zenon DEF SkType
<1>4. CASE /\ entry' = SetEntry(s) /\ sk' = [sk EXCEPT ![s].pc = "live"] /\ UNCHANGED <<umem, fds>>
  <2>1. /\ Updates(s) /\ sk'[s].pc = "live" /\ sk'[s].prog = sk[s].prog
        /\ sk'[s].calm = sk[s].calm /\ sk'[s].inhibit = sk[s].inhibit
    BY <1>0, <1>1, <1>4, MovesTo, Zenon DEF Updates
  <2>2. /\ entry' \in Seq(Socks \union {None}) /\ Len(entry') = Len(kinds')
        /\ entry'[sk[s].prog] = s /\ att' \in 0 .. Len(kinds')
    BY <1>3, <1>4, Zenon DEF SetEntry
  <2>3. s \in MapSocks' /\ s \in MapSocks
    BY <1>0, <2>1, Zenon DEF MapSocks
  <2>4. MakeInv' /\ AccountInv'
    BY <1>0, <1>1, <1>4, <2>1, <2>3, AdvanceStep, Zenon
  <2>5. LookOf(s)'
    <3>1. att' = att /\ Ids' = Ids
      BY <1>0, Zenon DEF Ids
    <3> QED
      BY <1>0, <1>1, <1>2, <2>1, <2>2, <3>1, Zenon DEF LookOf
  <2>6. LookInv'
    BY <1>0, <1>1, <2>1, <2>5, MainLook, Zenon DEF Updates
  <2> QED
    BY <1>0, <1>4, <2>1, <2>2, <2>4, <2>6, Zenon DEF SkInv, SkType, Updates
<1>5. CASE /\ entry' = [entry EXCEPT ![sk[s].prog] = None]
           /\ Unwind(s, {<<"map", s>>, <<"prog", s>>}, umem)
  <2>1. /\ entry' \in Seq(Socks \union {None}) /\ Len(entry') = Len(kinds')
        /\ att' \in 0 .. Len(kinds')
    BY <1>3, <1>5, Zenon
  <2>2. /\ umem' \in [live : BOOLEAN, refs : Nat, ringed : BOOLEAN]
        /\ Drops(s) /\ MakeInv' /\ AccountInv'
    BY <1>0, <1>1, <1>5, UnwindStep, Zenon
  <2>3. LookInv'
    BY <1>0, <1>1, <2>2, DroppedLook, MainLook, Zenon DEF Drops
  <2> QED
    BY <1>0, <2>1, <2>2, <2>3, Zenon DEF SkInv, SkType, Drops
<1> QED
  BY <1>4, <1>5, Zenon DEF SetupSet

(* xsk_configure_socket() is through, or gives up. *)
LEMMA ReadyStep ==
    ASSUME SkInv, NEW s \in Socks, Ready(s) \/ NotReady(s)
    PROVE  SkInv'
<1>0. /\ SkType /\ MakeInv /\ LookInv /\ LookOf(s) /\ sk \in [Socks -> Sock]
      /\ umem \in [live : BOOLEAN, refs : Nat, ringed : BOOLEAN]
      /\ sk[s].pc = "live" /\ ~sk[s].inhibit /\ UNCHANGED <<hookVars, umem, fds, lost>>
  BY Zenon DEF SkInv, SkType, LookInv, Ready, NotReady, MakeInv
<1>1. PICK p \in {"ready", "failed"} : sk' = [sk EXCEPT ![s].pc = p]
  BY Zenon DEF Ready, NotReady
<1>2. /\ "live" # "none" /\ "live" \in {"set", "live", "failed", "ready"} /\ "live" \in Made
      /\ p # "none" /\ p \notin Making /\ p \in {"none"} \union Making \union Made
      /\ p \in Made /\ p # "load" /\ p \notin {"none", "config"} /\ p \notin {"get", "set"}
      /\ p \in {"set", "live", "failed", "ready"}
  BY <1>1 DEF Making, Made
<1>3. /\ Updates(s) /\ sk'[s].pc = p /\ sk'[s].prog = sk[s].prog
      /\ sk'[s].calm = sk[s].calm /\ sk'[s].inhibit = sk[s].inhibit
  BY <1>0, <1>1, <1>2, MovesTo, Zenon DEF Updates
<1>4. s \in MapSocks' /\ s \in MapSocks
  BY <1>0, <1>2, <1>3, Zenon DEF MapSocks
<1>5. MakeInv' /\ AccountInv'
  BY <1>0, <1>2, <1>3, <1>4, AdvanceStep, Zenon
<1>6. LookOf(s)'
  <2>1. att' = att /\ Ids' = Ids /\ entry' = entry
    BY <1>0, Zenon DEF hookVars, Ids
  <2> QED
    BY <1>0, <1>2, <1>3, <2>1, Zenon DEF LookOf
<1>7. LookInv'
  BY <1>0, <1>3, <1>6, SameHookLook, Zenon DEF Updates
<1> QED
  BY <1>0, <1>3, <1>5, <1>7, Zenon DEF SkInv, SkType, Updates, hookVars

(* Closing more than a socket has open closes what it has. *)
LEMMA CloseMore ==
    ASSUME NEW live, NEW O, NEW M, NEW s
    PROVE  FdsOf(live, O, M) \ AllFds(s) = FdsOf(live, O, M) \ Closing(s, O, M)
  BY DEF FdsOf, Closing, AllFds

(* xsk_socket__delete() *)
LEMMA DeleteStep ==
    ASSUME SkInv, NEW s \in Socks, SocketDelete(s)
    PROVE  SkInv'
<1>0. /\ SkType /\ MakeInv /\ LookInv /\ LookOf(s) /\ AccountInv /\ sk \in [Socks -> Sock]
      /\ umem \in [live : BOOLEAN, refs : Nat, ringed : BOOLEAN]
      /\ entry \in Seq(Socks \union {None}) /\ Len(entry) = Len(kinds)
      /\ Quiet /\ sk[s].pc \in {"live", "ready"} /\ UNCHANGED <<att, kinds, lost>>
      /\ umem' = [umem EXCEPT !.refs = @ - 1] /\ sk' = [sk EXCEPT ![s] = NoSock]
      /\ fds' = fds \ {<<"sock", s>>, <<"map", s>>, <<"prog", s>>}
      /\ entry' = IF sk[s].prog = 0 THEN entry ELSE [entry EXCEPT ![sk[s].prog] = None]
  BY Zenon DEF SkInv, SkType, LookInv, SocketDelete
<1>1. sk[s].pc # "none" /\ sk[s].pc \in Made
  BY <1>0 DEF Made
<1>2. umem.refs \in Nat /\ umem.refs >= 1
  BY <1>0, <1>1, UsedRefs, Zenon
<1>3. /\ umem' \in [live : BOOLEAN, refs : Nat, ringed : BOOLEAN]
      /\ umem'.refs = umem.refs - 1 /\ umem'.live = umem.live
  <2>1. umem.refs - 1 \in Nat
    BY <1>2
  <2> QED
    BY <1>0, <2>1, Zenon
<1>4. Drops(s)
  BY <1>0, NoSockType, Zenon DEF Drops
<1>5. MakeInv' /\ Used' = Used \ {s}
  BY <1>0, <1>1, <1>4, DropMake, Zenon
<1>6. fds' = fds \ Closing(s, OwnSocks, MapSocks)
  <2>1. fds = FdsOf(umem.live, OwnSocks, MapSocks)
    BY <1>0, Accounted, Zenon DEF AccountInv, Account
  <2> HIDE DEF OwnSocks, MapSocks
  <2>2. FdsOf(umem.live, OwnSocks, MapSocks) \ AllFds(s)
            = FdsOf(umem.live, OwnSocks, MapSocks) \ Closing(s, OwnSocks, MapSocks)
    BY CloseMore
  <2> QED
    BY <1>0, <2>1, <2>2, Zenon DEF AllFds
<1>7. AccountInv'
  BY <1>0, <1>1, <1>3, <1>4, <1>5, <1>6, DropAccount, Zenon
<1>8. LookInv'
  <2>1. CASE sk[s].inhibit
    <3>1. sk[s].prog = 0
      BY <1>0, <2>1, Zenon DEF LookOf
    <3>2. UNCHANGED hookVars
      BY <1>0, <3>1, Zenon DEF hookVars
    <3> QED
      BY <1>0, <1>4, <3>2, DroppedLook, SameHookLook, Zenon DEF Drops
  <2>2. CASE ~sk[s].inhibit
    BY <1>0, <1>1, <1>4, <2>2, DroppedLook, MainLook, Zenon DEF Drops
  <2> QED
    BY <2>1, <2>2, Zenon
<1>9. entry' \in Seq(Socks \union {None}) /\ Len(entry') = Len(entry)
  <2>1. CASE sk[s].prog = 0
    BY <1>0, <2>1, Zenon
  <2>2. CASE sk[s].prog # 0
    <3>1. sk[s].prog \in 1 .. Len(entry)
      BY <1>0, <1>1, <2>2, Zenon DEF LookOf, Ids
    <3>2. None \in Socks \union {None}
      OBVIOUS
    <3> QED
      BY <1>0, <2>2, <3>1, <3>2
  <2> QED
    BY <2>1, <2>2, Zenon
<1> QED
  BY <1>0, <1>3, <1>4, <1>5, <1>7, <1>8, <1>9, Zenon DEF SkInv, SkType, Drops

(* The launcher attaches or detaches: no look is up to date any more. *)
LEMMA LauncherStep ==
    ASSUME SkInv, LauncherAttach \/ LauncherDetach
    PROVE  SkInv'
<1>0. /\ SkType /\ MakeInv /\ LookInv /\ AccountInv /\ sk \in [Socks -> Sock]
      /\ sk' = Disturbed /\ UNCHANGED <<umem, fds, lost>>
  BY Zenon DEF SkInv, SkType, LauncherAttach, LauncherDetach
<1>1. /\ kinds' \in Seq({"graft", "libbpf", "other"}) /\ entry' \in Seq(Socks \union {None})
      /\ Len(entry') = Len(kinds') /\ att' \in 0 .. Len(kinds')
      /\ Ids \subseteq Ids' /\ \A p \in Ids : entry'[p] = entry[p]
  <2>1. CASE LauncherAttach
    <3>1. PICK kind \in {"graft", "other"} : NewProgram(kind)
      BY <2>1, Zenon DEF LauncherAttach
    <3>2. kind \in {"graft", "libbpf", "other"}
      OBVIOUS
    <3> QED
      BY <1>0, <3>1, <3>2, NewProgramType, Zenon
  <2>2. CASE LauncherDetach
    <3>1. att' = 0 /\ kinds' = kinds /\ entry' = entry
      BY <2>2, Zenon DEF LauncherDetach
    <3>2. 0 \in 0 .. Len(kinds)
      BY <1>0 DEF SkType
    <3> QED
      BY <1>0, <3>1, <3>2, Zenon DEF SkType, Ids
  <2> QED
    BY <2>1, <2>2, Zenon
<1>2. ASSUME NEW t \in Socks
      PROVE  /\ sk'[t] \in Sock /\ sk'[t].pc = sk[t].pc /\ sk'[t].inhibit = sk[t].inhibit
             /\ sk'[t].own = sk[t].own /\ sk'[t].prog = sk[t].prog /\ sk'[t].calm = FALSE
  <2>1. sk'[t] = [sk[t] EXCEPT !.calm = FALSE] /\ sk[t] \in Sock
    BY <1>0, Zenon DEF Disturbed
  <2> QED
    BY <2>1, Zenon DEF Sock
<1>3. sk' \in [Socks -> Sock]
  <2>1. sk' = [t \in Socks |-> sk'[t]]
    BY <1>0, Zenon DEF Disturbed
  <2> QED
    BY <1>2, <2>1, Zenon
<1>4. Used' = Used /\ OwnSocks' = OwnSocks /\ MapSocks' = MapSocks
  BY <1>2, Zenon DEF Used, OwnSocks, MapSocks
<1>5. MakeInv'
  <2>1. ASSUME NEW t \in Socks
        PROVE  /\ sk'[t].pc = "none" => ~sk'[t].own
               /\ sk'[t].pc \in Making => sk'[t].own = (umem'.refs > 1)
               /\ sk'[t].pc \in {"look", "load", "get", "set", "failed", "ready"} => ~sk'[t].inhibit
    BY <1>0, <1>2, Zenon DEF MakeInv
  <2>2. \A t, u \in Socks : sk'[t].pc \in Making /\ sk'[u].pc \in Making => t = u
    BY <1>0, <1>2, Zenon DEF MakeInv
  <2>3. \A t, u \in Used' : ~sk'[t].inhibit /\ ~sk'[u].inhibit => t = u
    BY <1>0, <1>2, <1>4, Zenon DEF MakeInv, Used
  <2> QED
    BY <2>1, <2>2, <2>3, Zenon DEF MakeInv
<1>6. AccountInv'
  <2> HIDE DEF Used, OwnSocks, MapSocks
  <2> QED
    BY <1>0, <1>4, Accounted, Zenon DEF AccountInv, Account
<1>7. LookInv'
  <2> SUFFICES ASSUME NEW t \in Socks PROVE LookOf(t)'
    BY Zenon DEF LookInv
  <2>1. LookOf(t)
    BY <1>0, Zenon DEF LookInv
  <2> QED
    BY <1>1, <1>2, <2>1, Zenon DEF LookOf
<1> QED
  BY <1>0, <1>1, <1>3, <1>5, <1>6, <1>7, Zenon DEF SkInv, SkType

(* xsk_umem__create() and xsk_umem__delete() *)
LEMMA UmemStep ==
    ASSUME SkInv, UmemCreate \/ UmemDelete
    PROVE  SkInv'
<1>0. /\ SkType /\ MakeInv /\ LookInv /\ AccountInv /\ UNCHANGED <<hookVars, sk, lost>>
  BY Zenon DEF SkInv, UmemCreate, UmemDelete
<1>1. Used' = Used /\ OwnSocks' = OwnSocks /\ MapSocks' = MapSocks
  BY <1>0, Zenon DEF Used, OwnSocks, MapSocks
<1>2. LookInv'
  BY <1>0, Zenon DEF LookInv, LookOf, hookVars, Ids
<1>3. NoUmem \in [live : BOOLEAN, refs : Nat, ringed : BOOLEAN] /\ NoUmem.refs = 0 /\ NoUmem.live = FALSE
  BY DEF NoUmem
<1>4. Account /\ IsFiniteSet(Used)
  BY <1>0, Accounted, Zenon DEF AccountInv
<1> HIDE DEF Used, OwnSocks, MapSocks
<1>5. /\ umem' \in [live : BOOLEAN, refs : Nat, ringed : BOOLEAN] /\ umem'.refs = umem.refs
      /\ ~umem'.live => umem' = NoUmem
      /\ fds' = FdsOf(umem'.live, OwnSocks, MapSocks)
  <2>1. CASE UNCHANGED <<umem, fds>>
    BY <1>0, <1>4, <2>1, Zenon DEF SkType, Account, AccountInv
  <2>2. CASE /\ ~umem.live
             /\ umem' = [NoUmem EXCEPT !.live = TRUE] /\ fds' = fds \union {<<"umem", None>>}
    <3>1. umem = NoUmem
      BY <1>0, <2>2, Zenon DEF AccountInv
    <3>2. /\ umem' \in [live : BOOLEAN, refs : Nat, ringed : BOOLEAN] /\ umem'.refs = 0
          /\ umem'.live = TRUE
      BY <1>3, <2>2, Zenon
    <3>3. fds = FdsOf(FALSE, OwnSocks, MapSocks)
      BY <1>3, <1>4, <3>1, Zenon DEF Account
    <3>4. fds \union {<<"umem", None>>} = FdsOf(TRUE, OwnSocks, MapSocks)
      BY <3>3, OpenUmem
    <3> QED
      BY <1>3, <2>2, <3>1, <3>2, <3>4, Zenon
  <2>3. CASE umem.live /\ umem.refs = 0 /\ umem' = NoUmem /\ fds' = fds \ {<<"umem", None>>}
    <3>1. fds = FdsOf(TRUE, OwnSocks, MapSocks)
      <4>1. umem.live = TRUE
        BY <1>0, <2>3 DEF SkType
      <4> QED
        BY <1>4, <4>1, Zenon DEF Account
    <3>2. fds \ {<<"umem", None>>} = FdsOf(FALSE, OwnSocks, MapSocks)
      BY <3>1, OpenUmem
    <3> QED
      BY <1>3, <2>3, <3>2, Zenon
  <2> QED
    BY <2>1, <2>2, <2>3, Zenon DEF UmemCreate, UmemDelete
<1>6. MakeInv'
  BY <1>0, <1>1, <1>5, Zenon DEF MakeInv
<1>7. AccountInv'
  BY <1>0, <1>1, <1>4, <1>5, Accounted, Zenon DEF AccountInv, Account
<1> QED
  BY <1>0, <1>2, <1>5, <1>6, <1>7, Zenon DEF SkInv, SkType, hookVars

(* The end of the application, at any point. *)
LEMMA ExitStep ==
    ASSUME SkInv, AppExit
    PROVE  SkInv'
<1>0. /\ SkType /\ umem' = NoUmem /\ sk' = [s \in Socks |-> NoSock] /\ fds' = {} /\ lost' = 0
      /\ entry' = [p \in Ids |-> None] /\ UNCHANGED <<att, kinds>>
  BY Zenon DEF SkInv, AppExit
<1>1. /\ sk' \in [Socks -> Sock] /\ \A s \in Socks : sk'[s] = NoSock
  BY <1>0, NoSockType, Zenon
<1>2. Used' = {} /\ OwnSocks' = {} /\ MapSocks' = {}
  <2>1. NoSock.pc = "none" /\ NoSock.own = FALSE /\ "none" \notin {"set", "live", "failed", "ready"}
    BY NoSockType
  <2> QED
    BY <1>1, <2>1, Zenon DEF Used, OwnSocks, MapSocks
<1>3. NoUmem \in [live : BOOLEAN, refs : Nat, ringed : BOOLEAN] /\ NoUmem.refs = 0 /\ NoUmem.live = FALSE
  BY DEF NoUmem
<1>4. MakeInv'
  <2>1. /\ NoSock.pc = "none" /\ NoSock.own = FALSE /\ "none" \notin Making
        /\ "none" \notin {"look", "load", "get", "set", "failed", "ready"}
    BY NoSockType DEF Making
  <2> QED
    BY <1>1, <1>2, <2>1, Zenon DEF MakeInv
<1>5. LookInv'
  BY <1>1, DroppedLook, Zenon DEF LookInv
<1> HIDE DEF Used, OwnSocks, MapSocks
<1>6. Account'
  <2>1. IsFiniteSet({}) /\ Cardinality({}) = 0
    BY FS_EmptySet, Zenon
  <2>2. umem'.refs = Cardinality(Used') + lost'
    BY <1>0, <1>2, <1>3, <2>1
  <2>3. fds' = FdsOf(umem'.live, OwnSocks', MapSocks')
    <3>1. FdsOf(FALSE, {}, {}) = {}
      BY OpenUmem, Zenon
    <3> QED
      BY <1>0, <1>2, <1>3, <3>1, Zenon
  <2> QED
    BY <2>2, <2>3, Zenon DEF Account
<1>7. AccountInv'
  BY <1>0, <1>2, <1>6, Accounted, FS_EmptySet, Zenon DEF AccountInv
<1>8. entry' \in Seq(Socks \union {None}) /\ Len(entry') = Len(kinds)
  BY <1>0 DEF SkType, Ids
<1> QED
  BY <1>0, <1>1, <1>3, <1>4, <1>5, <1>7, <1>8, Zenon DEF SkInv, SkType

(* The sockets and the interface keep their invariant through every step,  *)
(* of the application, the launcher or the kernel.                         *)
LEMMA StepSk == SkInv /\ [Next]_vars => SkInv'
<1> SUFFICES ASSUME SkInv, [Next]_vars PROVE SkInv'
  BY Zenon
<1>1. CASE UNCHANGED skVars
  <2>0. /\ Used' = Used /\ att' = att /\ kinds' = kinds /\ entry' = entry /\ umem' = umem
        /\ sk' = sk /\ lost' = lost
    BY <1>1, Zenon DEF skVars, Used
  <2>3. SkType'
    BY <2>0, Zenon DEF SkInv, SkType
  <2>4. MakeInv'
    BY <2>0, Zenon DEF SkInv, MakeInv
  <2>5. ResourcesAccounted'
    BY <1>1 DEF skVars, SkInv, AccountInv, ResourcesAccounted
  <2>1. SkType' /\ MakeInv' /\ AccountInv'
    BY <2>0, <2>3, <2>4, <2>5, Zenon DEF SkInv, AccountInv
  <2>2. LookInv'
    BY <1>1, Zenon DEF skVars, SkInv, LookInv, LookOf, Ids
  <2> QED
    BY <2>1, <2>2, Zenon DEF SkInv
<1>2. CASE SocketStep
  <2>1. CASE LauncherAttach \/ LauncherDetach \/ UmemCreate \/ UmemDelete
    BY <2>1, LauncherStep, UmemStep, Zenon
  <2>2. ASSUME NEW s \in Socks,
               \/ \E inhibit \in BOOLEAN : SocketBegin(s, inhibit)
               \/ SocketConfig(s) \/ SetupLook(s) \/ SetupLoad(s)
               \/ SetupGet(s) \/ SetupSet(s) \/ NotReady(s)
        PROVE  SkInv'
    BY <2>2, BeginStep, ConfigStep, LookStep, LoadStep, GetStep, SetStep, ReadyStep, Zenon
  <2> QED
    BY <1>2, <2>1, <2>2, Zenon DEF SocketStep
<1>3. CASE Close
  BY <1>3, ExitStep, DeleteStep, Zenon DEF Close
<1>4. CASE \E s \in Socks : Configure(s)
  BY <1>4, ReadyStep, Zenon DEF Configure
<1>5. CASE KernelReceive \/ PeekBatch \/ LookStock \/ ReserveStock \/ SubmitStock
           \/ ProcessPacket \/ ReleaseBatch
  BY <1>1, <1>5, Zenon DEF KernelReceive, PeekBatch, LookStock, ReserveStock, SubmitStock,
                           ProcessPacket, ReleaseBatch
<1>6. CASE UNCHANGED vars
  BY <1>1, <1>6, Zenon DEF vars
<1> QED
  BY <1>2, <1>3, <1>4, <1>5, <1>6, Zenon DEF Next

(* No socket, no UMEM, no program. *)
LEMMA InitSk == Init => SkInv
<1> SUFFICES ASSUME Init PROVE SkInv
  BY Zenon
<1>0. /\ att = 0 /\ kinds = << >> /\ entry = << >>
      /\ umem = NoUmem /\ sk = [s \in Socks |-> NoSock] /\ fds = {} /\ lost = 0
  BY Zenon DEF Init, SkInit
<1>1. sk \in [Socks -> Sock] /\ \A s \in Socks : sk[s] = NoSock
  BY <1>0, NoSockType, Zenon
<1>2. /\ NoSock.pc = "none" /\ NoSock.own = FALSE /\ NoSock.prog = 0 /\ "none" \notin Making
      /\ "none" \notin Made /\ "none" \notin {"look", "load", "get", "set", "failed", "ready"}
      /\ "none" # "load" /\ "none" \notin {"get", "set"}
      /\ "none" \notin {"set", "live", "failed", "ready"}
  BY NoSockType DEF Making, Made
<1>3. Used = {} /\ OwnSocks = {} /\ MapSocks = {}
  BY <1>1, <1>2, Zenon DEF Used, OwnSocks, MapSocks
<1>4. NoUmem \in [live : BOOLEAN, refs : Nat, ringed : BOOLEAN] /\ NoUmem.refs = 0 /\ NoUmem.live = FALSE
  BY DEF NoUmem
<1>5. SkType
  <2>1. /\ kinds \in Seq({"graft", "libbpf", "other"}) /\ entry \in Seq(Socks \union {None})
        /\ Len(entry) = Len(kinds) /\ att \in 0 .. Len(kinds) /\ lost \in Nat
    BY <1>0
  <2> QED
    BY <1>0, <1>1, <1>4, <2>1, Zenon DEF SkType
<1>6. MakeInv
  BY <1>1, <1>2, <1>3, Zenon DEF MakeInv
<1>7. LookInv
  BY <1>1, <1>2, Zenon DEF LookInv, LookOf
<1> HIDE DEF Used, OwnSocks, MapSocks
<1>8. AccountInv
  <2>1. IsFiniteSet({}) /\ Cardinality({}) = 0 /\ FdsOf(FALSE, {}, {}) = {}
    BY FS_EmptySet, OpenUmem, Zenon
  <2>2. umem.refs = Cardinality(Used) + lost
    BY <1>0, <1>3, <1>4, <2>1
  <2>3. fds = FdsOf(umem.live, OwnSocks, MapSocks)
    BY <1>0, <1>3, <1>4, <2>1, Zenon
  <2> QED
    BY <1>0, <1>3, <2>1, <2>2, <2>3, Accounted, Zenon DEF AccountInv, Account
<1> QED
  BY <1>5, <1>6, <1>7, <1>8, Zenon DEF SkInv

(* The invariant of the sockets holds in every reachable state. *)
LEMMA SkAlways == Spec => []SkInv
  BY InitSk, StepSk, PTL DEF Spec

(* However launcher, application and failures interleave, a socket that    *)
(* was created is in the map of its program, and in that of the program    *)
(* attached unless the launcher touched the interface since the look.      *)
THEOREM Reachable == Spec => []SocketReachable
<1>1. SkInv => SocketReachable
  BY Zenon DEF SkInv, LookInv, LookOf, SocketReachable, Made
<1> QED
  BY <1>1, SkAlways, PTL

(* On every error path of libbpf's xsk.c and at every deletion the         *)
(* references of the UMEM and the open descriptors are accounted for.      *)
THEOREM Resources == Spec => []ResourcesAccounted
<1>1. SkInv => ResourcesAccounted
  BY Zenon DEF SkInv, AccountInv
<1> QED
  BY <1>1, SkAlways, PTL
-----------------------------------------------------------------------------
(* The indices of a ring: what arithmetic modulo 2^32 yields. *)
LEMMA IndexType ==
    /\ Wrap \in Nat \ {0} /\ 0 \in Index
    /\ \A n \in Int : Idx(n) \in Index
    /\ \A a, b \in Int : Ahead(a, b) \in Index
    /\ Index \subseteq Int
<1>1. Wrap \in Nat \ {0} /\ 0 \in Index /\ Index \subseteq Int
  BY XskAssumption DEF Index
<1>2. \A n \in Int : Idx(n) \in Index
  BY <1>1, Z3 DEF Idx, Index
<1>3. \A a, b \in Int : a - b \in Int
  OBVIOUS
<1> QED
  BY <1>1, <1>2, <1>3, Zenon DEF Ahead

(* The slot an index stands for is one of the ring's. *)
LEMMA SlotType ==
    ASSUME NEW size \in Nat \ {0}, NEW r \in Ring(size), NEW idx \in Int
    PROVE  Size(r) = size /\ (Idx(idx) % Size(r)) + 1 \in 1 .. size /\ At(r, idx) \in Int
<1>1. r.slot \in [1 .. size -> Int]
  BY Zenon DEF Ring
<1>2. Size(r) = size
  BY <1>1 DEF Size
<1>3. Idx(idx) \in Int
  BY IndexType, Zenon
<1>4. (Idx(idx) % size) + 1 \in 1 .. size
  BY <1>3, Z3
<1> QED
  BY <1>1, <1>2, <1>4, Zenon DEF At

(* What the calls on a ring leave is a ring of the same size. *)
LEMMA RingTypes ==
    ASSUME NEW size \in Nat \ {0}, NEW r \in Ring(size), NEW nb \in Int
    PROVE  /\ LookFree(r, nb) \in Ring(size) /\ NbFree(r, nb) \in Int
           /\ Reserve(r, nb) \in Ring(size)
           /\ Submit(r, nb) \in Ring(size) /\ Release(r, nb) \in Ring(size)
           /\ KernelTake(r, nb) \in Ring(size)
           /\ LookAvail(r) \in Ring(size) /\ NbAvail(r, nb) \in Int /\ Peek(r, nb) \in Ring(size)
<1>0. /\ r.prod \in Index /\ r.cons \in Index /\ r.cprod \in Index /\ r.ccons \in Index
      /\ Size(r) = size /\ r.prod \in Int /\ r.cons \in Int /\ r.cprod \in Int /\ r.ccons \in Int
  BY SlotType, IndexType, Zenon DEF Ring
<1>1. ASSUME NEW q \in Ring(size), NEW x \in Index
      PROVE  /\ [q EXCEPT !.prod = x] \in Ring(size) /\ [q EXCEPT !.cons = x] \in Ring(size)
             /\ [q EXCEPT !.cprod = x] \in Ring(size) /\ [q EXCEPT !.ccons = x] \in Ring(size)
  BY Zenon DEF Ring
<1>2. \A q \in Ring(size), n \in Int :
          /\ q.prod \in Int /\ q.cons \in Int /\ q.cprod \in Int /\ q.ccons \in Int
          /\ q.prod + n \in Int /\ q.cons + n \in Int /\ q.cprod + n \in Int /\ q.ccons + n \in Int
  <2>1. \A a, b \in Int : a + b \in Int
    OBVIOUS
  <2> QED
    BY <2>1, IndexType, Zenon DEF Ring
<1>3. \A q \in Ring(size), n \in Int :
          /\ Idx(q.prod + n) \in Index /\ Idx(q.cons + n) \in Index
          /\ Idx(q.cprod + n) \in Index /\ Idx(q.ccons + n) \in Index
          /\ Ahead(q.ccons, q.cprod) \in Int /\ Ahead(q.cprod, q.ccons) \in Int
  BY <1>2, IndexType, Zenon
<1>4. LookFree(r, nb) \in Ring(size)
  <2>1. size \in Int
    OBVIOUS
  <2> QED
    BY <1>0, <1>1, <1>3, <2>1, Zenon DEF LookFree
<1>5. NbFree(r, nb) \in Int
  BY <1>3, <1>4, Zenon DEF NbFree
<1>6. Reserve(r, nb) \in Ring(size)
  BY <1>1, <1>3, <1>4, Zenon DEF Reserve
<1>7. LookAvail(r) \in Ring(size)
  BY <1>0, <1>1, Zenon DEF LookAvail
<1>8. NbAvail(r, nb) \in Int
  BY <1>3, <1>7, Zenon DEF NbAvail
<1>9. Peek(r, nb) \in Ring(size)
  BY <1>1, <1>3, <1>7, <1>8, Zenon DEF Peek
<1>10. Submit(r, nb) \in Ring(size) /\ Release(r, nb) \in Ring(size) /\ KernelTake(r, nb) \in Ring(size)
  BY <1>1, <1>3, Zenon DEF Submit, Release, KernelTake
<1> QED
  BY <1>4, <1>5, <1>6, <1>7, <1>8, <1>9, <1>10, Zenon

(* Entries are written into slots of the ring. *)
LEMMA PutType ==
    ASSUME NEW size \in Nat \ {0}, NEW r \in Ring(size), NEW idx \in Int, NEW es \in Seq(Int)
    PROVE  Put(r, idx, es) \in Ring(size)
<1>0. r.slot \in [1 .. size -> Int] /\ Size(r) = size
  BY SlotType, IndexType, Zenon DEF Ring
<1> DEFINE at(k) == (Idx(k - 1 - idx) % size) + 1
           new == [k \in 1 .. size |-> IF at(k) <= Len(es) THEN es[at(k)] ELSE r.slot[k]]
<1>1. \A k \in 1 .. size : at(k) \in 1 .. size
  <2>1. \A k \in 1 .. size : k - 1 - idx \in Int
    OBVIOUS
  <2>2. \A n \in Int : (Idx(n) % size) + 1 \in 1 .. size
    BY SlotType, <1>0, Zenon
  <2> QED
    BY <2>1, <2>2, Zenon
<1> HIDE DEF at
<1>2. new \in [1 .. size -> Int]
  <2>1. \A n \in 1 .. size : n <= Len(es) => es[n] \in Int
    OBVIOUS
  <2> QED
    BY <1>0, <1>1, <2>1, Zenon
<1>3. Put(r, idx, es) = [r EXCEPT !.slot = new]
  BY <1>0, Zenon DEF Put, at, Ring
<1> HIDE DEF new
<1> QED
  BY <1>2, <1>3, Zenon DEF Ring

(* A nonempty set of numbers has a least one. *)
LEMMA LeastNat == \A T \in SUBSET Nat : T # {} => \E x \in T : \A y \in T : x <= y
<1> SUFFICES ASSUME NEW T \in SUBSET Nat, T # {}
             PROVE  \E x \in T : \A y \in T : x <= y
  BY Zenon
<1> DEFINE R == OpToRel(<, Nat)
<1>1. IsWellFoundedOn(R, Nat)
  BY NatLessThanWellFounded, Zenon
<1>2. \A x, y \in Nat : x < y => <<x, y>> \in R
  BY Zenon DEF OpToRel
<1> HIDE DEF R
<1>3. PICK x \in T : \A y \in T : ~(<<y, x>> \in R)
  BY <1>1, WFMin, Zenon
<1>4. \A y \in T : ~(y < x)
  BY <1>2, <1>3, Zenon
<1>5. \A y \in T : x <= y
  BY <1>4
<1> QED
  BY <1>5, Zenon

(* The rings as mmap() finds them, and the loop before a batch. *)
LEMMA NewRings == NewFill \in Ring(FillSize) /\ NewRx \in Ring(RxSize)
<1>1. ASSUME NEW size \in Nat \ {0}, NEW c \in Index
      PROVE  NewRing(size, c, Invalid) \in Ring(size)
  <2>1. [k \in 1 .. size |-> Invalid] \in [1 .. size -> Int]
    BY DEF Invalid
  <2> QED
    BY <2>1, IndexType, Zenon DEF NewRing, Ring
<1>2. FillSize \in Index /\ FillSize \in Nat \ {0} /\ RxSize \in Nat \ {0}
  BY XskAssumption DEF Index
<1> QED
  BY <1>1, <1>2, IndexType, Zenon DEF NewFill, NewRx

(* The loop has a place and numbers before the first batch too. *)
LEMMA IdleType == Idle \in Loop /\ Idle.pc = "idle"
  BY DEF Idle, Loop

(* xsk_alloc_umem_frame() *)
LEMMA AllocType ==
    ASSUME NEW stack \in Seq(Int), NEW n \in Nat
    PROVE  Alloc(stack, n) \in Seq(Int) /\ AfterAlloc(stack, n) \in Seq(Int)
<1>1. Alloc(stack, n) \in Seq(Int)
  <2>1. \A k \in 1 .. n : k <= Len(stack) => stack[Len(stack) - k + 1] \in Int
    OBVIOUS
  <2> QED
    BY <2>1 DEF Alloc, Invalid
<1>2. AfterAlloc(stack, n) \in Seq(Int)
  BY DEF AfterAlloc
<1> QED
  BY <1>1, <1>2, Zenon

(* The kernel takes a frame from the fill ring, after entries that are not *)
(* frames; or none.                                                        *)
LEMMA KernelType ==
    ASSUME IoType, KernelReceive
    PROVE  IoType'
<1> DEFINE c == Contents(fill)
           lent == {k \in 1 .. Len(c) : c[k] # Invalid}
           over == IF lent = {} THEN Len(c) ELSE Min(lent) - 1
<1>0. /\ fill \in Ring(FillSize) /\ rx \in Ring(RxSize) /\ FillSize \in Nat \ {0} /\ RxSize \in Nat \ {0}
      /\ UNCHANGED <<free, loop>>
  BY XskAssumption, Zenon DEF IoType, KernelReceive
<1>1. c \in Seq(Int)
  <2>1. Ahead(fill.prod, fill.cons) \in Nat
    BY <1>0, IndexType DEF Ring, Index
  <2>2. \A k \in 1 .. Ahead(fill.prod, fill.cons) : At(fill, fill.cons + k - 1) \in Int
    <3>1. \A k \in 1 .. Ahead(fill.prod, fill.cons) : fill.cons + k - 1 \in Int
      <4>1. fill.cons \in Int
        BY <1>0, IndexType, Zenon DEF Ring
      <4> QED
        BY <2>1, <4>1
    <3>2. \A n \in Int : At(fill, n) \in Int
      BY <1>0, SlotType, Zenon
    <3> QED
      BY <3>1, <3>2, Zenon
  <2> QED
    BY <2>1, <2>2 DEF Contents
<1> HIDE DEF c
<1>2. lent \subseteq Nat /\ lent \subseteq 1 .. Len(c) /\ Len(c) \in Nat
  BY <1>1
<1>3. lent # {} => Min(lent) \in lent
  <2> SUFFICES ASSUME lent # {} PROVE Min(lent) \in lent
    BY Zenon
  <2>1. \E x \in lent : \A y \in lent : x <= y
    BY <1>2, LeastNat, Zenon
  <2> HIDE DEF lent
  <2> QED
    BY <2>1, Zenon DEF Min
<1>4. lent # {} => c[over + 1] \in Int /\ over \in Int
  <2> SUFFICES ASSUME lent # {} PROVE c[over + 1] \in Int /\ over \in Int
    BY Zenon
  <2>1. Min(lent) \in 1 .. Len(c)
    BY <1>2, <1>3, Zenon
  <2>2. over = Min(lent) - 1
    BY Zenon
  <2> HIDE DEF lent, over
  <2>3. over + 1 = Min(lent) /\ over \in Int
    BY <1>2, <2>1, <2>2
  <2> QED
    BY <1>1, <2>1, <2>3
<1>5. lent = {} => over \in Int
  BY <1>2
<1>6. over \in Int /\ over + 1 \in Int
  <2> HIDE DEF lent
  <2>1. over \in Int
    BY <1>4, <1>5, Zenon
  <2> HIDE DEF over
  <2> QED
    BY <2>1
<1> HIDE DEF lent, over
<1>7. \/ \E k \in Int : fill' = KernelTake(fill, k) /\ rx' = rx
      \/ \E k \in Int : fill' = KernelTake(fill, k) /\ rx' = KernelPut(rx, c[over + 1]) /\ lent # {}
  BY <1>6, Zenon DEF KernelReceive, c, lent, over
<1>8. fill' \in Ring(FillSize)
  BY <1>0, <1>7, RingTypes, Zenon
<1>9. rx' \in Ring(RxSize)
  <2>1. ASSUME lent # {} PROVE KernelPut(rx, c[over + 1]) \in Ring(RxSize)
    <3>0. rx.prod \in Int
      BY <1>0, IndexType, Zenon DEF Ring
    <3>1. <<c[over + 1]>> \in Seq(Int) /\ rx.prod \in Int /\ 1 \in Int
      BY <3>0, <1>4, <2>1
    <3>2. Put(rx, rx.prod, <<c[over + 1]>>) \in Ring(RxSize)
      BY <1>0, <3>1, PutType, Zenon
    <3> QED
      BY <1>0, <3>1, <3>2, RingTypes, Zenon DEF KernelPut
  <2> QED
    BY <1>0, <1>7, <2>1, Zenon
<1> QED
  BY <1>0, <1>8, <1>9, Zenon DEF IoType

(* The frames, the rings and the locals of the loop are well typed. *)
LEMMA StepIo == IoType /\ [Next]_vars => IoType'
<1> SUFFICES ASSUME IoType, [Next]_vars PROVE IoType'
  BY Zenon
<1>0. /\ free \in Seq(Int) /\ fill \in Ring(FillSize) /\ rx \in Ring(RxSize) /\ loop \in Loop
      /\ FillSize \in Nat \ {0} /\ RxSize \in Nat \ {0}
  BY XskAssumption, Zenon DEF IoType
<1>1. Len(free) \in Nat /\ RxBatch \in Nat /\ NumFrames \in Nat /\ FillSize \in Nat /\ 0 \in Nat
  BY <1>0, XskAssumption
<1>2. /\ Nat \subseteq Int /\ fill.cprod \in Int /\ rx.ccons \in Int
      /\ loop.idx \in Int /\ loop.done \in Int /\ loop.stock \in Nat /\ loop.recvd \in Int
  <2>1. Nat \subseteq Int
    OBVIOUS
  <2> QED
    BY <1>0, <2>1, IndexType, Zenon DEF Ring, Loop
<1>3. CASE UNCHANGED ioVars
  BY <1>0, <1>3, Zenon DEF ioVars, IoType
<1>4. CASE Close
  <2>1. << >> \in Seq(Int)
    OBVIOUS
  <2>2. NewFill \in Ring(FillSize) /\ NewRx \in Ring(RxSize)
    BY NewRings, Zenon
  <2>3. Idle \in Loop
    BY IdleType, Zenon
  <2> QED
    BY <1>0, <1>4, <2>1, <2>2, <2>3, Zenon DEF Close, IoType
<1>5. CASE \E s \in Socks : Configure(s)
  <2>1. AllFrames \in Seq(Int)
    BY <1>1 DEF AllFrames
  <2>2. Alloc(AllFrames, FillSize) \in Seq(Int) /\ AfterAlloc(AllFrames, FillSize) \in Seq(Int)
    BY <1>1, <2>1, AllocType, Zenon
  <2>3. Reserve(fill, FillSize) \in Ring(FillSize)
    BY <1>0, <1>1, <1>2, RingTypes, Zenon
  <2>4. Put(Reserve(fill, FillSize), fill.cprod, Alloc(AllFrames, FillSize)) \in Ring(FillSize)
    BY <1>0, <1>2, <2>2, <2>3, PutType, Zenon
  <2>5. Submit(Put(Reserve(fill, FillSize), fill.cprod, Alloc(AllFrames, FillSize)), FillSize)
            \in Ring(FillSize)
    BY <1>0, <1>1, <1>2, <2>4, RingTypes, Zenon
  <2> QED
    BY <1>0, <1>5, <2>2, <2>5, Zenon DEF Configure, IoType
<1>6. CASE PeekBatch
  <2>1. Peek(rx, RxBatch) \in Ring(RxSize) /\ NbAvail(rx, RxBatch) \in Int
    BY <1>0, <1>1, <1>2, RingTypes, Zenon
  <2>2. [Idle EXCEPT !.pc = "look", !.recvd = NbAvail(rx, RxBatch), !.idx = rx.ccons] \in Loop
    BY <1>2, <2>1, IdleType, Zenon DEF Loop
  <2> QED
    BY <1>0, <1>6, <2>1, <2>2, Zenon DEF PeekBatch, IoType
<1>7. CASE LookStock
  <2>1. LookFree(fill, Len(free)) \in Ring(FillSize)
    BY <1>0, <1>1, <1>2, RingTypes, Zenon
  <2>2. Stock \in Nat
    <3>1. NbFree(fill, Len(free)) \in Index
      BY <2>1, IndexType, Zenon DEF NbFree, Ring
    <3> QED
      BY <3>1, IndexType DEF Index, Stock
  <2>3. loop' \in Loop
    <3>1. [loop EXCEPT !.stock = Stock, !.pc = IF Stock > 0 THEN "reserve" ELSE "process"] \in Loop
      <4> HIDE DEF Stock
      <4> QED
        BY <1>0, <2>2, Zenon DEF Loop
    <3> QED
      BY <1>7, <3>1, Zenon DEF LookStock
  <2> QED
    BY <1>0, <1>7, <2>1, <2>3, Zenon DEF LookStock, IoType
<1>8. CASE ReserveStock
  <2>1. Reserve(fill, loop.stock) \in Ring(FillSize)
    BY <1>0, <1>2, RingTypes, Zenon
  <2>2. Alloc(free, loop.stock) \in Seq(Int) /\ AfterAlloc(free, loop.stock) \in Seq(Int)
    BY <1>0, <1>2, AllocType, Zenon
  <2>3. Put(Reserve(fill, loop.stock), fill.cprod, Alloc(free, loop.stock)) \in Ring(FillSize)
    BY <1>0, <1>2, <2>1, <2>2, PutType, Zenon
  <2>4. \A p \in {"submit", "spin"} : [loop EXCEPT !.pc = p] \in Loop
    BY <1>0, Zenon DEF Loop
  <2> QED
    BY <1>0, <1>8, <2>2, <2>3, <2>4, Zenon DEF ReserveStock, IoType
<1>9. CASE SubmitStock
  <2>1. Submit(fill, loop.stock) \in Ring(FillSize)
    BY <1>0, <1>2, RingTypes, Zenon
  <2>2. [loop EXCEPT !.pc = "process"] \in Loop
    BY <1>0, Zenon DEF Loop
  <2> QED
    BY <1>0, <1>9, <2>1, <2>2, Zenon DEF SubmitStock, IoType
<1>10. CASE ProcessPacket
  <2>1. loop.idx + loop.done \in Int /\ loop.done + 1 \in Int
    BY <1>2
  <2>2. At(rx, loop.idx + loop.done) \in Int
    BY <1>0, <2>1, SlotType, Zenon
  <2>3. Append(free, At(rx, loop.idx + loop.done)) \in Seq(Int)
    BY <1>0, <2>2
  <2>4. [loop EXCEPT !.done = @ + 1] \in Loop
    BY <1>0, <2>1, Zenon DEF Loop
  <2> QED
    BY <1>0, <1>10, <2>3, <2>4, Zenon DEF ProcessPacket, IoType
<1>11. CASE ReleaseBatch
  <2>1. Release(rx, loop.recvd) \in Ring(RxSize)
    BY <1>0, <1>2, RingTypes, Zenon
  <2> QED
    BY <1>0, <1>11, <2>1, IdleType, Zenon DEF ReleaseBatch, IoType
<1> QED
  BY <1>3, <1>4, <1>5, <1>6, <1>7, <1>8, <1>9, <1>10, <1>11, KernelType, Zenon
     DEF Next, SocketStep, vars

(* What launcher and application do to other sockets leaves a socket in    *)
(* use as it is.                                                           *)
LEMMA StillServing ==
    ASSUME SkInv, SocketStep
    PROVE  Serving \subseteq Serving'
<1> SUFFICES ASSUME NEW t \in Socks, sk[t].pc = "ready" PROVE sk'[t].pc = "ready"
  BY Zenon DEF Serving
<1>0. sk \in [Socks -> Sock]
  BY Zenon DEF SkInv, SkType
<1>1. CASE LauncherAttach \/ LauncherDetach
  <2>1. sk'[t] = [sk[t] EXCEPT !.calm = FALSE] /\ sk[t] \in Sock
    BY <1>0, <1>1, Zenon DEF LauncherAttach, LauncherDetach, Disturbed
  <2> QED
    BY <2>1, Zenon DEF Sock
<1>2. CASE UmemCreate \/ UmemDelete
  BY <1>2, Zenon DEF UmemCreate, UmemDelete
<1>3. ASSUME NEW s \in Socks,
             \/ \E inhibit \in BOOLEAN : SocketBegin(s, inhibit)
             \/ SocketConfig(s) \/ SetupLook(s) \/ SetupLoad(s)
             \/ SetupGet(s) \/ SetupSet(s) \/ NotReady(s)
      PROVE  sk'[t].pc = "ready"
  <2>1. sk[s].pc \in {"none", "config", "look", "load", "get", "set", "live"}
    BY <1>3, Zenon DEF SocketBegin, SocketConfig, SetupLook, SetupLoad, SetupGet, SetupSet, NotReady
  <2>2. s # t
    <3>1. "ready" \notin {"none", "config", "look", "load", "get", "set", "live"}
      OBVIOUS
    <3> QED
      BY <2>1, <3>1, Zenon
  <2>3. sk'[t] = sk[t]
    BY <1>0, <1>3, <2>2, Zenon DEF SocketBegin, SocketConfig, SetupLook, SetupLoad, SetupGet, SetupSet,
                                   NotReady, Unwind
  <2> QED
    BY <2>3, Zenon
<1> QED
  BY <1>1, <1>2, <1>3, Zenon DEF SocketStep

(* A socket is configured while none is in use, so while the loop is idle. *)
LEMMA ConfigureIdle ==
    ASSUME SkInv, LoopInv, NEW s \in Socks, Configure(s)
    PROVE  loop.pc = "idle"
<1> SUFFICES ASSUME NEW t \in Socks, sk[t].pc = "ready" PROVE FALSE
  BY Zenon DEF LoopInv, Serving
<1>1. sk[s].pc = "live" /\ ~sk[s].inhibit
  BY Zenon DEF Configure, Ready
<1>2. ~sk[t].inhibit
  BY Zenon DEF SkInv, MakeInv
<1>3. "live" # "none" /\ "ready" # "none" /\ "live" # "ready"
  OBVIOUS
<1>4. s = t
  BY <1>1, <1>2, <1>3, Zenon DEF SkInv, MakeInv, Used
<1> QED
  BY <1>1, <1>3, <1>4, Zenon

(* Every step keeps the reservation to come possible: the kernel only      *)
(* moves the consumer of the fill ring, which the copies do not follow.    *)
LEMMA StepLoop == SkInv /\ LoopInv /\ [Next]_vars => LoopInv'
<1> SUFFICES ASSUME SkInv, LoopInv, [Next]_vars PROVE LoopInv'
  BY Zenon
<1>0. /\ IoType /\ IoType' /\ loop \in Loop /\ fill \in Ring(FillSize)
      /\ (loop.pc # "idle" => Serving # {})
  BY StepIo, Zenon DEF LoopInv, IoType
<1>14. /\ "idle" # "reserve" /\ "idle" # "spin" /\ "look" # "idle" /\ "look" # "reserve"
      /\ "look" # "spin" /\ "process" # "idle" /\ "process" # "reserve" /\ "process" # "spin"
      /\ "submit" # "idle" /\ "submit" # "reserve" /\ "submit" # "spin" /\ "reserve" # "spin"
  OBVIOUS
<1>15. \A p : [loop EXCEPT !.pc = p].pc = p
  BY <1>0, Zenon DEF Loop
<1>1. CASE loop' = loop /\ Serving \subseteq Serving' /\ fill'.ccons = fill.ccons /\ fill'.cprod = fill.cprod
  BY <1>0, <1>1, Zenon DEF LoopInv
<1>2. CASE loop'.pc = "idle"
  BY <1>0, <1>2, <1>14, Zenon DEF LoopInv
<1>3. CASE UNCHANGED vars
  BY <1>1, <1>3, Zenon DEF vars, skVars, ioVars, Serving
<1>4. CASE SocketStep
  BY <1>1, <1>4, StillServing, Zenon DEF SocketStep, ioVars
<1>5. CASE Close
  <2>1. \/ Serving' = Serving /\ UNCHANGED <<loop, fill>>
        \/ loop' = Idle
    BY <1>5, Zenon DEF Close
  <2> QED
    BY <1>1, <1>2, <2>1, IdleType, Zenon
<1>6. CASE \E s \in Socks : Configure(s)
  BY <1>2, <1>6, ConfigureIdle, Zenon DEF Configure
<1>7. CASE KernelReceive
  <2>1. \E n : fill' = KernelTake(fill, n)
    BY <1>7, Zenon DEF KernelReceive
  <2>2. fill'.ccons = fill.ccons /\ fill'.cprod = fill.cprod
    BY <1>0, <2>1, Zenon DEF KernelTake, Ring
  <2>3. loop' = loop /\ sk' = sk
    BY <1>7, Zenon DEF KernelReceive, skVars
  <2> QED
    BY <1>1, <2>2, <2>3, Zenon DEF Serving
<1>8. CASE PeekBatch
  <2>1. loop'.pc = "look"
    BY <1>8, IdleType, Zenon DEF PeekBatch, Loop
  <2>2. Serving' # {}
    BY <1>8, Zenon DEF PeekBatch, Serving, skVars
  <2> QED
    BY <1>0, <1>14, <2>1, <2>2, Zenon DEF LoopInv
<1>9. CASE LookStock
  <2> DEFINE p == IF Stock > 0 THEN "reserve" ELSE "process"
  <2>0. /\ loop' = [loop EXCEPT !.stock = Stock, !.pc = p] /\ loop.pc = "look"
        /\ fill' = LookFree(fill, Len(free)) /\ sk' = sk
    BY <1>9, Zenon DEF LookStock, skVars
  <2>1. loop'.pc = p /\ loop'.stock = Stock
    BY <1>0, <2>0, Zenon DEF Loop
  <2>2. p # "spin"
    BY <1>14, Zenon
  <2>3. Ahead(fill'.ccons, fill'.cprod) = Stock
    BY <2>0, Zenon DEF Stock, NbFree
  <2>4. Serving' # {}
    BY <1>0, <1>14, <2>0, Zenon DEF Serving
  <2> HIDE DEF p
  <2> QED
    BY <1>0, <2>1, <2>2, <2>3, <2>4, Zenon DEF LoopInv
<1>10. CASE ReserveStock
  <2>0. loop.pc = "reserve" /\ sk' = sk
    BY <1>10, Zenon DEF ReserveStock, skVars
  <2>1. Ahead(fill.ccons, fill.cprod) = loop.stock /\ loop.stock \in Nat
    BY <1>0, <2>0, Zenon DEF LoopInv, Loop
  <2>2. loop.stock >= loop.stock
    BY <2>1
  <2>3. LookFree(fill, loop.stock) = fill
    BY <2>1, <2>2, Zenon DEF LookFree
  <2>4. NbFree(fill, loop.stock) >= loop.stock
    BY <2>1, <2>2, <2>3, Zenon DEF NbFree
  <2>5. loop'.pc = "submit"
    BY <1>10, <1>15, <2>4, Zenon DEF ReserveStock
  <2>6. Serving' # {}
    BY <1>0, <1>14, <2>0, Zenon DEF Serving
  <2> QED
    BY <1>0, <1>14, <2>5, <2>6, Zenon DEF LoopInv
<1>11. CASE SubmitStock
  <2>1. loop.pc = "submit" /\ sk' = sk /\ loop'.pc = "process"
    BY <1>11, <1>15, Zenon DEF SubmitStock, skVars
  <2>2. Serving' # {}
    BY <1>0, <1>14, <2>1, Zenon DEF Serving
  <2> QED
    BY <1>0, <1>14, <2>1, <2>2, Zenon DEF LoopInv
<1>12. CASE ProcessPacket
  <2>1. /\ loop.pc = "process" /\ sk' = sk /\ loop' = [loop EXCEPT !.done = @ + 1]
    BY <1>12, Zenon DEF ProcessPacket, skVars
  <2>2. loop'.pc = "process"
    BY <1>0, <2>1, Zenon DEF Loop
  <2>3. Serving' # {}
    BY <1>0, <1>14, <2>1, Zenon DEF Serving
  <2> QED
    BY <1>0, <1>14, <2>2, <2>3, Zenon DEF LoopInv
<1>13. CASE ReleaseBatch
  BY <1>2, <1>13, IdleType, Zenon DEF ReleaseBatch
<1> QED
  BY <1>3, <1>4, <1>5, <1>6, <1>7, <1>8, <1>9, <1>10, <1>11, <1>12, <1>13, Zenon DEF Next

(* The loop always runs on a socket in use. *)
LEMMA LoopAlways == Spec => []LoopInv
<1>1. Init => LoopInv
  <2>1. << >> \in Seq(Int) /\ "idle" # "reserve" /\ "idle" # "spin"
    OBVIOUS
  <2> QED
    BY <2>1, NewRings, IdleType, Zenon DEF Init, LoopInv, IoType
<1> QED
  BY <1>1, StepLoop, SkAlways, PTL DEF Spec

(* "This should not happen, but just in case": it does not.  Whatever the  *)
(* kernel takes between the look at the fill ring and the reservation, the *)
(* entries counted are reserved, for every size of the rings and batches.  *)
THEOREM Reservation == Spec => []ReservationHolds
<1>1. LoopInv => ReservationHolds
  BY Zenon DEF LoopInv, ReservationHolds
<1> QED
  BY <1>1, LoopAlways, PTL
-----------------------------------------------------------------------------
(* The remainder, with its quotient. *)
LEMMA DivMod ==
    ASSUME NEW d \in Nat \ {0}, NEW n \in Int
    PROVE  n % d \in 0 .. d - 1 /\ \E q \in Int : n = d * q + (n % d)
<1> DEFINE q == n \div d
<1>1. q \in Int /\ n = d * q + (n % d) /\ n % d \in 0 .. d - 1
  OBVIOUS
<1> HIDE DEF q
<1> QED
  BY <1>1, Zenon

(* Two different multiples are at least d apart. *)
LEMMA MultiplesApart ==
    ASSUME NEW d \in Nat \ {0}, NEW p \in Int, NEW q \in Int, p > q
    PROVE  d * p >= d * q + d
<1> DEFINE e == p - q - 1
<1>1. e \in Nat /\ p = q + 1 + e
  OBVIOUS
<1> HIDE DEF e
<1>2. d * e \in Nat /\ d * q \in Int
  BY <1>1
<1>3. d * (q + 1 + e) = d * q + d + d * e
  BY <1>1
<1> QED
  BY <1>1, <1>2, <1>3

(* There is one remainder. *)
LEMMA ModUnique ==
    ASSUME NEW d \in Nat \ {0}, NEW n \in Int, NEW q \in Int, NEW r \in 0 .. d - 1, n = d * q + r
    PROVE  n % d = r
<1>1. PICK p \in Int : n = d * p + (n % d)
  BY DivMod, Zenon
<1>2. n % d \in 0 .. d - 1
  BY DivMod, Zenon
<1> DEFINE s == n % d
<1>3. s \in 0 .. d - 1 /\ n = d * p + s
  BY <1>1, <1>2, Zenon
<1> HIDE DEF s
<1>4. d * p \in Int /\ d * q \in Int
  OBVIOUS
<1>5. p > q => d * p >= d * q + d
  BY MultiplesApart, Zenon
<1>6. q > p => d * q >= d * p + d
  BY MultiplesApart, Zenon
<1>7. p = q
  BY <1>3, <1>4, <1>5, <1>6
<1>8. s = r
  BY <1>3, <1>4, <1>7
<1> QED
  BY <1>8, Zenon DEF s

(* Numbers that differ by a multiple have the same remainder. *)
LEMMA ModSame ==
    ASSUME NEW d \in Nat \ {0}, NEW a \in Int, NEW b \in Int, NEW q \in Int, a = b + d * q
    PROVE  a % d = b % d
<1>1. PICK p \in Int : b = d * p + (b % d)
  BY DivMod, Zenon
<1> DEFINE r == b % d
<1>2. r \in 0 .. d - 1 /\ b = d * p + r
  BY <1>1, DivMod, Zenon
<1> HIDE DEF r
<1>3. p + q \in Int /\ d * (p + q) = d * p + d * q /\ d * p \in Int /\ d * q \in Int
  OBVIOUS
<1>4. a = d * (p + q) + r
  <2> DEFINE x == d * p
             y == d * q
             z == d * (p + q)
  <2>1. x \in Int /\ y \in Int /\ z = x + y /\ a = b + y /\ b = x + r /\ r \in Int
    BY <1>2, <1>3
  <2> HIDE DEF x, y, z
  <2>2. a = z + r
    BY <2>1
  <2> QED
    BY <2>2, Zenon DEF z
<1>5. a % d = r
  <2> DEFINE u == p + q
  <2>1. u \in Int /\ a = d * u + r
    BY <1>3, <1>4, Zenon
  <2> HIDE DEF u
  <2> QED
    BY <2>1, <1>2, ModUnique, Zenon
<1> QED
  BY <1>5, Zenon DEF r

(* Remainders of a sum. *)
LEMMA ModSum ==
    ASSUME NEW d \in Nat \ {0}, NEW b \in Int, NEW q \in Int
    PROVE  (b + d * q) % d = b % d
<1> DEFINE a == b + d * q
<1>1. a \in Int /\ a = b + d * q
  OBVIOUS
<1> HIDE DEF a
<1>2. a % d = b % d
  BY <1>1, ModSame, Zenon
<1> QED
  BY <1>2, Zenon DEF a

(* Reducing modulo a multiple of d first changes nothing. *)
LEMMA ModIdx ==
    ASSUME NEW d \in Nat \ {0}, Wrap % d = 0, NEW n \in Int, NEW k \in Int
    PROVE  (Idx(n) + k) % d = (n + k) % d
<1>0. Wrap \in Nat \ {0} /\ Wrap \in Int
  BY XskAssumption
<1>1. PICK c \in Int : Wrap = d * c + (Wrap % d)
  BY <1>0, DivMod, Zenon
<1>2. PICK q \in Int : n = Wrap * q + (n % Wrap)
  BY <1>0, DivMod, Zenon
<1> DEFINE r == Idx(n)
<1>3. r \in Int
  BY IndexType, Zenon
<1>4. n = Wrap * q + r
  BY <1>2, Zenon DEF Idx
<1> HIDE DEF r
<1>5. Wrap = d * c
  BY <1>1
<1> DEFINE e == 0 - c * q
<1>6. e \in Int /\ d * e = 0 - Wrap * q /\ Wrap * q \in Int
  BY <1>5
<1> HIDE DEF e
<1>7. r + k \in Int /\ n + k \in Int /\ r + k = (n + k) + d * e
  <2> DEFINE x == Wrap * q
             y == d * e
  <2>1. x \in Int /\ y = 0 - x /\ n = x + r
    BY <1>4, <1>6, Zenon
  <2> HIDE DEF x, y
  <2>2. r + k \in Int /\ n + k \in Int /\ r + k = (n + k) + y
    BY <2>1, <1>3
  <2> QED
    BY <2>2, Zenon DEF y
<1>8. (r + k) % d = (n + k) % d
  <2> DEFINE a == r + k
             b == n + k
  <2>1. a \in Int /\ b \in Int /\ a = b + d * e
    BY <1>7, Zenon
  <2> HIDE DEF a, b
  <2>2. a % d = b % d
    BY <2>1, <1>6, ModSame, Zenon
  <2> QED
    BY <2>2, Zenon DEF a, b
<1> QED
  BY <1>8, Zenon DEF r

(* The distance of two indices, when one of them moves. *)
LEMMA AheadMoves ==
    ASSUME NEW a \in Index, NEW b \in Index, NEW n \in Nat
    PROVE  /\ Ahead(a, b) \in 0 .. Wrap - 1 /\ a = Idx(b + Ahead(a, b))
           /\ Ahead(a, b) + n < Wrap => Ahead(Idx(a + n), b) = Ahead(a, b) + n
           /\ n <= Ahead(a, b) => Ahead(a, Idx(b + n)) = Ahead(a, b) - n
           /\ n < Wrap => Ahead(Idx(a + n), a) = n
<1>0. Wrap \in Nat \ {0} /\ Wrap \in Int /\ a \in 0 .. Wrap - 1 /\ b \in 0 .. Wrap - 1 /\ a \in Int /\ b \in Int
  BY XskAssumption DEF Index
<1> DEFINE t == Ahead(a, b)
<1>1. t \in 0 .. Wrap - 1 /\ (t = a - b \/ t = a - b + Wrap)
  BY <1>0 DEF Ahead, Idx
<1> HIDE DEF t
<1>2. \A x \in Index : Idx(x) = x /\ Idx(x + Wrap) = x
  BY <1>0 DEF Idx, Index
<1>3. ASSUME NEW x \in Int, NEW y \in Int PROVE Idx(Idx(x) + y) = Idx(x + y)
  <2>1. Wrap % Wrap = 0
    BY <1>0
  <2> QED
    BY <2>1, <1>0, ModIdx, Zenon DEF Idx
<1>4. ASSUME NEW x \in Int, NEW y \in Int PROVE Idx(x - Idx(y)) = Idx(x - y)
  <2>1. PICK q \in Int : y = Wrap * q + (y % Wrap)
    BY <1>0, DivMod, Zenon
  <2> DEFINE r == Idx(y)
  <2>2. r \in Int /\ y = Wrap * q + r
    BY <2>1, IndexType, Zenon DEF Idx
  <2> HIDE DEF r
  <2>3. x - r \in Int /\ x - y \in Int /\ x - r = (x - y) + Wrap * q
    BY <2>2, <1>0
  <2>4. (x - r) % Wrap = (x - y) % Wrap
    BY <2>3, <1>0, ModSame, Zenon
  <2> QED
    BY <2>4, Zenon DEF r, Idx
<1>5. a = Idx(b + t)
  <2>1. b + t = a \/ b + t = a + Wrap
    BY <1>0, <1>1
  <2> QED
    BY <2>1, <1>2, Zenon
<1>6. ASSUME NEW x \in Int, NEW y \in Int, x - y = t \/ x - y = t - Wrap, NEW m \in Int,
             t + m \in Index
      PROVE  Idx(x - y + m) = t + m
  <2>1. x - y + m = t + m \/ x - y + m + Wrap = t + m
    BY <1>0, <1>1, <1>6
  <2>2. CASE x - y + m = t + m
    BY <2>2, <1>2, <1>6, Zenon
  <2>3. CASE x - y + m + Wrap = t + m
    <3>1. x - y + m \in Int /\ x - y + m = (t + m) + Wrap * (0 - 1) /\ t + m \in Int /\ 0 - 1 \in Int
      BY <2>3, <1>0, <1>1, <1>6
    <3>2. (x - y + m) % Wrap = (t + m) % Wrap
      BY <3>1, <1>0, ModSame, Zenon
    <3> QED
      BY <3>2, <1>2, <1>6, Zenon DEF Idx
  <2> QED
    BY <2>1, <2>2, <2>3, Zenon
<1>7. a - b = t \/ a - b = t - Wrap
  BY <1>0, <1>1
<1>8. ASSUME t + n < Wrap PROVE Ahead(Idx(a + n), b) = t + n
  <2>1. t + n \in Index /\ a + n \in Int /\ 0 - b \in Int /\ n \in Int
    BY <1>0, <1>1, <1>8 DEF Index
  <2>2. Idx(a - b + n) = t + n
    BY <2>1, <1>0, <1>6, <1>7, Zenon
  <2>3. Idx(Idx(a + n) + (0 - b)) = Idx(a + n + (0 - b))
    BY <2>1, <1>3, Zenon
  <2>4. a + n + (0 - b) = a - b + n /\ Idx(a + n) + (0 - b) = Idx(a + n) - b
    <3>1. Idx(a + n) \in Int
      BY <2>1, IndexType, Zenon
    <3> QED
      BY <3>1, <1>0
  <2> QED
    BY <2>2, <2>3, <2>4, Zenon DEF Ahead
<1>9. ASSUME n <= t PROVE Ahead(a, Idx(b + n)) = t - n
  <2>1. t + (0 - n) \in Index /\ b + n \in Int /\ 0 - n \in Int /\ t + (0 - n) = t - n
    BY <1>0, <1>1, <1>9 DEF Index
  <2>2. Idx(a - b + (0 - n)) = t - n
    BY <2>1, <1>0, <1>6, <1>7, Zenon
  <2>3. Idx(a - Idx(b + n)) = Idx(a - (b + n))
    BY <2>1, <1>0, <1>4, Zenon
  <2>4. a - (b + n) = a - b + (0 - n)
    BY <1>0
  <2> QED
    BY <2>2, <2>3, <2>4, Zenon DEF Ahead
<1>10. ASSUME n < Wrap PROVE Ahead(Idx(a + n), a) = n
  <2>1. n \in Index /\ a + n \in Int /\ 0 - a \in Int
    BY <1>0, <1>10 DEF Index
  <2>2. Idx(Idx(a + n) + (0 - a)) = Idx(a + n + (0 - a))
    BY <2>1, <1>3, Zenon
  <2>3. a + n + (0 - a) = n /\ Idx(a + n) + (0 - a) = Idx(a + n) - a
    <3>1. Idx(a + n) \in Int
      BY <2>1, IndexType, Zenon
    <3> QED
      BY <3>1, <1>0
  <2> QED
    BY <2>1, <2>2, <2>3, <1>2, Zenon DEF Ahead
<1> QED
  BY <1>1, <1>5, <1>8, <1>9, <1>10, Zenon DEF t

(* The slot of an index. *)
LEMMA AtSlot ==
    ASSUME NEW size \in Nat \ {0}, Wrap % size = 0, NEW r \in Ring(size), NEW n \in Int
    PROVE  At(r, n) = r.slot[(n % size) + 1] /\ Idx(n) % size = n % size
<1>1. (Idx(n) + 0) % size = (n + 0) % size /\ Idx(n) \in Int
  BY ModIdx, IndexType
<1>2. Idx(n) + 0 = Idx(n) /\ n + 0 = n
  BY <1>1
<1>3. Idx(n) % size = n % size
  BY <1>1, <1>2, Zenon
<1> QED
  BY <1>3, SlotType, Zenon DEF At

(* An index reduced before something is added is the same index. *)
LEMMA AtShift ==
    ASSUME NEW size \in Nat \ {0}, Wrap % size = 0, NEW r \in Ring(size), NEW n \in Int, NEW k \in Int
    PROVE  At(r, Idx(n) + k) = At(r, n + k)
<1> DEFINE a == Idx(n) + k
           b == n + k
<1>1. Idx(n) \in Int
  BY IndexType, Zenon
<1>2. a \in Int /\ b \in Int
  BY <1>1
<1>3. a % size = b % size
  BY ModIdx, Zenon
<1> HIDE DEF a, b
<1>4. At(r, a) = r.slot[(a % size) + 1] /\ At(r, b) = r.slot[(b % size) + 1]
  BY <1>2, AtSlot, Zenon
<1>5. At(r, a) = At(r, b)
  BY <1>3, <1>4, Zenon
<1> QED
  BY <1>5, Zenon DEF a, b

(* Entries put behind the first c ones: those stay, these follow. *)
PutFits(size, r, a, c, es, k) ==
    /\ k < c => At(Put(r, Idx(a + c), es), a + k) = At(r, a + k)
    /\ k >= c => At(Put(r, Idx(a + c), es), a + k) = es[k - c + 1]

(* Put() writes its entries behind those in use and nowhere else. *)
LEMMA PutBehind ==
    ASSUME NEW size \in Nat \ {0}, Wrap % size = 0, NEW r \in Ring(size), NEW a \in Int, NEW c \in Nat,
           NEW es \in Seq(Int), c + Len(es) <= size, NEW k \in Nat, k < c + Len(es)
    PROVE  PutFits(size, r, a, c, es, k)
<1> SUFFICES /\ k < c => At(Put(r, Idx(a + c), es), a + k) = At(r, a + k)
             /\ k >= c => At(Put(r, Idx(a + c), es), a + k) = es[k - c + 1]
  BY Zenon DEF PutFits
<1> DEFINE idx == Idx(a + c)
           q   == Put(r, idx, es)
           s   == ((a + k) % size) + 1
           w   == s - 1 - idx
           j   == IF k < c THEN size - c + k ELSE k - c
<1>0. a + c \in Int /\ a + k \in Int /\ j \in 0 .. size - 1 /\ Len(es) \in Nat
  OBVIOUS
<1>1. idx \in Int /\ q \in Ring(size) /\ r.slot \in [1 .. size -> Int] /\ Size(r) = size
  <2>1. idx \in Int
    BY <1>0, IndexType, Zenon
  <2> QED
    BY <2>1, PutType, SlotType, Zenon DEF Ring
<1>2. s \in 1 .. size /\ At(q, a + k) = q.slot[s] /\ At(r, a + k) = r.slot[s]
  <2>1. (a + k) % size \in 0 .. size - 1
    BY <1>0, DivMod, Zenon
  <2>2. s \in 1 .. size
    BY <2>1
  <2> DEFINE x == a + k
  <2> HIDE DEF x, q, idx
  <2>3. x \in Int /\ 0 \in Int
    BY <1>0 DEF x
  <2>4. \A u \in Ring(size) : At(u, x) = u.slot[(x % size) + 1]
    BY <2>3, AtSlot, Zenon
  <2> QED
    BY <2>2, <2>4, <1>1, Zenon DEF x
<1>3. w % size = j
  <2> DEFINE x == a + k
             y == a + c
  <2>1. PICK g \in Int : x = size * g + (x % size)
    BY <1>0, DivMod, Zenon
  <2>2. PICK h \in Int : idx = size * h + (idx % size)
    BY <1>1, DivMod, Zenon
  <2>3. PICK f \in Int : y = size * f + (y % size)
    BY <1>0, DivMod, Zenon
  <2>4. idx % size = y % size
    BY <1>0, AtSlot, Zenon
  <2> DEFINE X == x % size
             Y == y % size
  <2>5. X \in Int /\ Y \in Int
    BY <1>0, DivMod
  <2>6. x = size * g + X /\ idx = size * h + Y /\ y = size * f + Y /\ s - 1 = X
    BY <2>1, <2>2, <2>3, <2>4, <2>5
  <2>7. x - y = k - c
    OBVIOUS
  <2> DEFINE e == IF k < c THEN f - g - h - 1 ELSE f - g - h
  <2> HIDE DEF x, y, X, Y, s, idx
  <2>8. w = j + size * e /\ w \in Int /\ e \in Int /\ j \in Int
    <3> DEFINE G == size * g
               H == size * h
               F == size * f
               E == size * e
    <3>1. G \in Int /\ H \in Int /\ F \in Int /\ e \in Int
      OBVIOUS
    <3>2. E = IF k < c THEN F - G - H - size ELSE F - G - H
      OBVIOUS
    <3>3. x = G + X /\ idx = H + Y /\ y = F + Y
      BY <2>6, Zenon
    <3> HIDE DEF G, H, F, E, e
    <3>4. w = j + E /\ w \in Int /\ j \in Int
      BY <3>1, <3>2, <3>3, <2>5, <2>6, <2>7, <1>0
    <3> QED
      BY <3>1, <3>4, Zenon DEF E
  <2> HIDE DEF w, j, e
  <2>9. w % size = j % size
    <3>1. (j + size * e) % size = j % size
      BY <2>8, ModSum, Zenon
    <3> QED
      BY <3>1, <2>8, Zenon
  <2>10. j = size * 0 + j /\ 0 \in Int /\ j \in 0 .. size - 1
    BY <2>8, <1>0
  <2>11. j % size = j
    BY <2>8, <2>10, ModUnique, Zenon
  <2> QED
    BY <2>9, <2>11, Zenon
<1>4. w \in Int
  BY <1>1, <1>2
<1>5. Idx(w) % size = j
  BY <1>3, <1>4, AtSlot, Zenon
<1>6. q.slot[s] = IF j + 1 <= Len(es) THEN es[j + 1] ELSE r.slot[s]
  <2>1. q.slot = [t \in 1 .. size |-> IF (Idx(t - 1 - idx) % size) + 1 <= Len(es)
                                      THEN es[(Idx(t - 1 - idx) % size) + 1] ELSE r.slot[t]]
    BY <1>1, Zenon DEF Put, Ring
  <2>2. q.slot[s] = IF (Idx(w) % size) + 1 <= Len(es) THEN es[(Idx(w) % size) + 1] ELSE r.slot[s]
    BY <2>1, <1>2, Zenon
  <2> QED
    BY <2>2, <1>5, Zenon
<1>7. ASSUME k < c PROVE ~(j + 1 <= Len(es))
  BY <1>0, <1>7
<1>8. ASSUME k >= c PROVE j + 1 <= Len(es) /\ j + 1 = k - c + 1
  BY <1>0, <1>8
<1> HIDE DEF s, q
<1> QED
  BY <1>2, <1>6, <1>7, <1>8, Zenon DEF q

(* How the indices of the rings lie. *)
IndexInv ==
    /\ Ahead(fill.prod, fill.cons) <= Ahead(fill.cprod, fill.cons)
    /\ Ahead(fill.cprod, fill.cons) + Ahead(fill.ccons, fill.cprod) <= FillSize
    /\ loop.pc = "submit" => fill.cprod = Idx(fill.prod + loop.stock)
    /\ loop.pc # "submit" => fill.cprod = fill.prod
    /\ loop.done \in Nat /\ loop.recvd \in Nat /\ loop.done <= loop.recvd
    /\ loop.recvd <= Ahead(rx.cprod, rx.cons)
    /\ Ahead(rx.cprod, rx.cons) <= Ahead(rx.prod, rx.cons) /\ Ahead(rx.prod, rx.cons) <= RxSize
    /\ rx.ccons = Idx(rx.cons + loop.recvd)
    /\ loop.pc # "idle" => loop.idx = rx.cons
    /\ loop.pc = "idle" => loop = Idle

(* Without a socket in use there are no frames. *)
BareInv == Serving = {} => free = << >> /\ fill = NewFill /\ rx = NewRx /\ loop = Idle /\ kept = 0

(* The frames that are not lost. *)
Held == FreeFrames \union LentFrames \union WaitingFrames

FrameInv ==
    /\ IndexInv /\ BareInv /\ FramesAccounted
    /\ kept \in Nat /\ IsFiniteSet(Held)
    /\ Invalid \notin FreeFrames /\ Invalid \notin WaitingFrames

(* The types the steps below compute with. *)
LEMMA FrameTypes ==
    ASSUME IoType
    PROVE  /\ fill.prod \in Index /\ fill.cons \in Index /\ fill.cprod \in Index /\ fill.ccons \in Index
           /\ rx.prod \in Index /\ rx.cons \in Index /\ rx.cprod \in Index /\ rx.ccons \in Index
           /\ fill \in Ring(FillSize) /\ rx \in Ring(RxSize) /\ free \in Seq(Int)
           /\ FillSize \in Nat \ {0} /\ RxSize \in Nat \ {0} /\ Wrap % FillSize = 0 /\ Wrap % RxSize = 0
           /\ FillSize < Wrap /\ RxSize < Wrap /\ Wrap \in Nat
           /\ Size(fill) = FillSize /\ Size(rx) = RxSize
           /\ loop.stock \in Nat /\ Index \subseteq Int /\ Index \subseteq Nat /\ Len(free) \in Nat
           /\ DOMAIN free = 1 .. Len(free)
<1>1. /\ FillSize \in Nat \ {0} /\ RxSize \in Nat \ {0} /\ Wrap % FillSize = 0 /\ Wrap % RxSize = 0
      /\ FillSize < Wrap /\ RxSize < Wrap /\ Wrap \in Nat
  BY XskAssumption
<1>2. fill \in Ring(FillSize) /\ rx \in Ring(RxSize) /\ loop.stock \in Nat /\ free \in Seq(Int)
  BY Zenon DEF IoType, Loop
<1>3. Len(free) \in Nat /\ DOMAIN free = 1 .. Len(free)
  BY <1>2
<1>4. Index \subseteq Int /\ Index \subseteq Nat
  BY <1>1 DEF Index
<1>5. Size(fill) = FillSize /\ Size(rx) = RxSize
  <2>1. 0 \in Int
    OBVIOUS
  <2> QED
    BY <2>1, <1>1, <1>2, SlotType, Zenon
<1> QED
  BY <1>1, <1>2, <1>3, <1>4, <1>5, Zenon DEF Ring

(* A step that leaves one of the places alone. *)
LEMMA SameFill ==
    ASSUME fill'.cons = fill.cons, fill'.cprod = fill.cprod, fill'.slot = fill.slot
    PROVE  Lent' = Lent /\ LentFrames' = LentFrames /\ \A k : FillEntry(k)' = FillEntry(k)
<1>1. \A k : FillEntry(k)' = FillEntry(k)
  BY Zenon DEF FillEntry, At, Size
<1>2. Lent' = Lent
  BY <1>1, Zenon DEF Lent
<1> QED
  BY <1>1, <1>2, Zenon DEF LentFrames

(* The same for the receive ring. *)
LEMMA SameRx ==
    ASSUME rx'.cons = rx.cons, rx'.prod = rx.prod, rx'.slot = rx.slot
    PROVE  /\ \A k : RxEntry(k)' = RxEntry(k)
           /\ loop'.done = loop.done => Waiting' = Waiting /\ WaitingFrames' = WaitingFrames
<1>1. \A k : RxEntry(k)' = RxEntry(k)
  BY Zenon DEF RxEntry, At, Size
<1> QED
  BY <1>1, Zenon DEF Waiting, WaitingFrames

(* The steps that move no frame. *)
LEMMA SameFrames ==
    ASSUME FrameInv, IndexInv', BareInv', free' = free, kept' = kept, loop'.done = loop.done,
           fill'.cons = fill.cons, fill'.cprod = fill.cprod, fill'.slot = fill.slot,
           rx'.cons = rx.cons, rx'.prod = rx.prod, rx'.slot = rx.slot,
           Serving' = {} \/ Serving # {}
    PROVE  FrameInv'
<1>1. Lent' = Lent /\ LentFrames' = LentFrames /\ \A k : FillEntry(k)' = FillEntry(k)
  BY SameFill, Zenon
<1>2. Waiting' = Waiting /\ WaitingFrames' = WaitingFrames /\ \A k : RxEntry(k)' = RxEntry(k)
  BY SameRx, Zenon
<1>3. FreeFrames' = FreeFrames /\ DOMAIN free' = DOMAIN free
  BY Zenon DEF FreeFrames
<1>4. Held' = Held
  BY <1>1, <1>2, <1>3, Zenon DEF Held
<1>5. FramesAccounted'
  BY <1>1, <1>2, <1>3, Zenon DEF FrameInv, FramesAccounted
<1> QED
  BY <1>2, <1>3, <1>4, <1>5, Zenon DEF FrameInv

(* While the application receives, a socket is in use. *)
LEMMA InUse ==
    ASSUME LoopInv, UNCHANGED skVars, loop.pc # "idle" \/ Serving # {}
    PROVE  Serving # {} /\ Serving' = Serving /\ BareInv'
<1>1. Serving # {} /\ Serving' = Serving
  BY Zenon DEF LoopInv, Serving, skVars
<1> QED
  BY <1>1, Zenon DEF BareInv

(* Looking at the consumer index of the fill ring. *)
LEMMA LookIndex ==
    ASSUME IoType, IndexInv, NEW nb, NEW q, q = LookFree(fill, nb)
    PROVE  /\ q.prod = fill.prod /\ q.cons = fill.cons /\ q.cprod = fill.cprod /\ q.slot = fill.slot
           /\ q.ccons \in Index /\ Ahead(fill.cprod, fill.cons) \in Nat
           /\ Ahead(q.ccons, fill.cprod) \in Nat
           /\ Ahead(fill.cprod, fill.cons) + Ahead(q.ccons, fill.cprod) <= FillSize
<1> DEFINE n == Ahead(fill.cprod, fill.cons)
           e == Idx(fill.cons + FillSize)
<1>1. /\ n \in Nat /\ fill.cprod = Idx(fill.cons + n) /\ \A x \in Index : Ahead(x, fill.cprod) \in Nat
  <2>1. 0 \in Nat /\ \A x \in 0 .. Wrap - 1 : x \in Nat
    BY FrameTypes
  <2> QED
    BY <2>1, FrameTypes, AheadMoves, Zenon
<1>2. n <= FillSize
  <2>1. Ahead(fill.ccons, fill.cprod) \in Nat
    BY <1>1, FrameTypes, Zenon
  <2> QED
    BY <1>1, <2>1, FrameTypes DEF IndexInv
<1>3. e \in Index /\ Ahead(e, fill.cons) = FillSize
  <2>1. FillSize \in Nat /\ FillSize < Wrap /\ fill.cons + FillSize \in Int
    BY FrameTypes
  <2> QED
    BY <2>1, FrameTypes, AheadMoves, IndexType, Zenon
<1>4. Ahead(e, fill.cprod) = FillSize - n
  <2> HIDE DEF n, e
  <2>1. Ahead(e, Idx(fill.cons + n)) = Ahead(e, fill.cons) - n
    <3>1. n <= Ahead(e, fill.cons) /\ n \in Nat /\ e \in Index /\ fill.cons \in Index
      BY <1>1, <1>2, <1>3, FrameTypes, Zenon
    <3> QED
      BY <3>1, AheadMoves, Zenon
  <2> QED
    BY <2>1, <1>1, <1>3, Zenon
<1>5. CASE q = fill
  BY <1>5, <1>1, FrameTypes, Zenon DEF IndexInv
<1>6. CASE q = [fill EXCEPT !.ccons = e]
  <2>1. /\ q.prod = fill.prod /\ q.cons = fill.cons /\ q.cprod = fill.cprod /\ q.slot = fill.slot
        /\ q.ccons = e
    BY <1>6, FrameTypes, Zenon DEF Ring
  <2>2. n + (FillSize - n) <= FillSize /\ FillSize - n \in Nat
    <3> HIDE DEF n
    <3>1. n \in Nat /\ n <= FillSize /\ FillSize \in Nat
      BY <1>1, <1>2, FrameTypes, Zenon
    <3> QED
      BY <3>1
  <2> QED
    BY <2>1, <2>2, <1>1, <1>3, <1>4, Zenon
<1> QED
  BY <1>5, <1>6, FrameTypes, Zenon DEF LookFree

(* The look at the fill ring moves no frame. *)
LEMMA LookFrames == ASSUME LoopInv, FrameInv, LookStock PROVE FrameInv'
<1>0. IoType /\ IndexInv /\ loop \in Loop
  BY Zenon DEF LoopInv, IoType, FrameInv
<1>1. /\ loop.pc = "look" /\ fill' = LookFree(fill, Len(free))
      /\ \E p \in {"reserve", "process"} : loop' = [loop EXCEPT !.stock = Stock, !.pc = p]
      /\ UNCHANGED <<skVars, free, rx, kept>>
  BY Zenon DEF LookStock
<1>2. /\ fill'.prod = fill.prod /\ fill'.cons = fill.cons /\ fill'.cprod = fill.cprod
      /\ fill'.slot = fill.slot /\ Ahead(fill.cprod, fill.cons) + Ahead(fill'.ccons, fill.cprod) <= FillSize
  BY <1>0, <1>1, LookIndex, Zenon
<1>3. /\ loop'.pc \notin {"idle", "submit"} /\ loop'.recvd = loop.recvd /\ loop'.done = loop.done
      /\ loop'.idx = loop.idx /\ loop.pc # "submit" /\ loop.pc # "idle"
  BY <1>0, <1>1 DEF Loop
<1>4. Serving # {} /\ Serving' = Serving /\ BareInv'
  BY <1>1, <1>3, InUse, Zenon
<1>5. IndexInv'
  BY <1>0, <1>1, <1>2, <1>3, Zenon DEF IndexInv
<1> QED
  BY <1>1, <1>2, <1>3, <1>4, <1>5, SameFrames, Zenon

(* The kernel is shown what was reserved: no frame moves. *)
LEMMA SubmitFrames == ASSUME LoopInv, FrameInv, SubmitStock PROVE FrameInv'
<1>0. IoType /\ IndexInv /\ loop \in Loop
  BY Zenon DEF LoopInv, IoType, FrameInv
<1>1. /\ loop.pc = "submit" /\ fill' = [fill EXCEPT !.prod = Idx(@ + loop.stock)]
      /\ loop' = [loop EXCEPT !.pc = "process"] /\ UNCHANGED <<skVars, free, rx, kept>>
  BY Zenon DEF SubmitStock, Submit
<1>2. /\ fill'.prod = Idx(fill.prod + loop.stock) /\ fill'.cons = fill.cons /\ fill'.cprod = fill.cprod
      /\ fill'.slot = fill.slot /\ fill'.ccons = fill.ccons
  BY <1>0, <1>1, FrameTypes, Zenon DEF Ring
<1>3. /\ loop'.pc = "process" /\ loop'.recvd = loop.recvd /\ loop'.done = loop.done
      /\ loop'.idx = loop.idx /\ loop.pc # "idle" /\ "process" # "submit" /\ "process" # "idle"
  BY <1>0, <1>1 DEF Loop
<1>4. Serving # {} /\ Serving' = Serving /\ BareInv'
  BY <1>1, <1>3, InUse, Zenon
<1>5. Ahead(fill.cprod, fill.cons) <= Ahead(fill.cprod, fill.cons)
  <2>1. Ahead(fill.cprod, fill.cons) \in Int
    BY <1>0, FrameTypes, IndexType, Zenon
  <2> QED
    BY <2>1
<1>6. fill'.cprod = fill'.prod
  BY <1>0, <1>1, <1>2, Zenon DEF IndexInv
<1>7. IndexInv'
  BY <1>0, <1>1, <1>2, <1>3, <1>5, <1>6, Zenon DEF IndexInv
<1> QED
  BY <1>1, <1>2, <1>3, <1>4, <1>7, SameFrames, Zenon

(* A batch is taken up: its packets still wait. *)
LEMMA PeekFrames == ASSUME LoopInv, FrameInv, PeekBatch PROVE FrameInv'
<1>0. IoType /\ IndexInv /\ loop = Idle /\ Serving # {}
  BY Zenon DEF LoopInv, FrameInv, PeekBatch, IndexInv
<1> DEFINE q == LookAvail(rx)
           a == Ahead(q.cprod, q.ccons)
           n == NbAvail(rx, RxBatch)
<1>1. /\ loop.pc = "idle" /\ n > 0 /\ rx' = [q EXCEPT !.ccons = Idx(@ + n)]
      /\ loop' = [Idle EXCEPT !.pc = "look", !.recvd = n, !.idx = rx.ccons]
      /\ UNCHANGED <<skVars, free, fill, kept>>
  BY Zenon DEF PeekBatch, Peek
<1>2. /\ loop.recvd = 0 /\ loop.done = 0 /\ loop'.pc = "look" /\ loop'.recvd = n /\ loop'.done = 0
      /\ loop'.idx = rx.ccons /\ "look" # "submit" /\ "look" # "idle" /\ loop.pc # "submit"
  BY <1>0, <1>1 DEF Idle
<1>3. rx.ccons = rx.cons
  <2>1. rx.cons \in Index /\ rx.cons + 0 = rx.cons
    BY <1>0, FrameTypes
  <2>2. Idx(rx.cons) = rx.cons
    BY <2>1, XskAssumption DEF Idx, Index
  <2> QED
    BY <2>1, <2>2, <1>0, <1>2, Zenon DEF IndexInv
<1>4. /\ q.cprod = rx.cprod \/ q.cprod = rx.prod
      /\ q.prod = rx.prod /\ q.cons = rx.cons /\ q.ccons = rx.ccons /\ q.slot = rx.slot /\ q \in Ring(RxSize)
  BY <1>0, FrameTypes, Zenon DEF LookAvail, Ring
<1>5. n = IF a > RxBatch THEN RxBatch ELSE a
  BY Zenon DEF NbAvail
<1> HIDE DEF q, n
<1>6. /\ rx'.prod = rx.prod /\ rx'.cons = rx.cons /\ rx'.slot = rx.slot /\ rx'.cprod = q.cprod
      /\ rx'.ccons = Idx(rx.ccons + n)
  BY <1>1, <1>4, Zenon DEF Ring
<1>7. a \in Nat /\ a = Ahead(rx'.cprod, rx.cons) /\ a <= Ahead(rx.prod, rx.cons)
  <2>1. /\ Ahead(rx.cprod, rx.cons) \in Index /\ Ahead(rx.prod, rx.cons) \in Index
        /\ a = Ahead(q.cprod, rx.cons)
    BY <1>0, <1>3, <1>4, FrameTypes, IndexType, Zenon
  <2>2. CASE q.cprod = rx.cprod
    BY <2>1, <2>2, <1>0, <1>6, FrameTypes, Zenon DEF IndexInv
  <2>3. CASE q.cprod = rx.prod
    <3>1. Ahead(rx.prod, rx.cons) <= Ahead(rx.prod, rx.cons)
      BY <2>1, <1>0, FrameTypes
    <3> QED
      BY <2>1, <2>3, <3>1, <1>0, <1>6, FrameTypes, Zenon
  <2> QED
    BY <2>2, <2>3, <1>4, Zenon
<1> HIDE DEF a
<1>8. n \in Nat /\ n <= a /\ 0 <= n /\ 0 \in Nat
  BY <1>1, <1>5, <1>7, XskAssumption
<1>9. Serving' = Serving /\ BareInv'
  BY <1>0, <1>1, InUse, Zenon
<1>10. IndexInv'
  BY <1>0, <1>1, <1>2, <1>3, <1>6, <1>7, <1>8, Zenon DEF IndexInv
<1> QED
  BY <1>0, <1>1, <1>2, <1>6, <1>9, <1>10, SameFrames, Zenon

(* The two moves of a ring: its consumer catches up, its producer goes on. *)
LEMMA ConsumerMoves ==
    ASSUME NEW a \in Index, NEW b \in Index, NEW n \in Nat, n <= Ahead(a, b)
    PROVE  Ahead(a, Idx(b + n)) = Ahead(a, b) - n
  BY AheadMoves, Zenon

(* The producer moves away from the consumer. *)
LEMMA ProducerMoves ==
    ASSUME NEW a \in Index, NEW b \in Index, NEW n \in Nat, Ahead(a, b) + n < Wrap
    PROVE  Ahead(Idx(a + n), b) = Ahead(a, b) + n
  BY AheadMoves, Zenon

(* A ring whose consumer moves on: its entries are those further on. *)
LEMMA FillShift ==
    ASSUME IoType, NEW m \in Nat, fill'.slot = fill.slot, fill'.cons = Idx(fill.cons + m)
    PROVE  \A k \in Int : FillEntry(k)' = FillEntry(m + k)
<1> SUFFICES ASSUME NEW k \in Int PROVE FillEntry(k)' = FillEntry(m + k)
  BY Zenon
<1>1. FillEntry(k)' = At(fill, Idx(fill.cons + m) + k)
  BY Zenon DEF FillEntry, At, Size
<1>2. fill.cons + m \in Int /\ (fill.cons + m) + k = fill.cons + (m + k)
  <2>1. fill.cons \in Int
    BY FrameTypes, Zenon
  <2> QED
    BY <2>1
<1>3. At(fill, Idx(fill.cons + m) + k) = At(fill, (fill.cons + m) + k)
  <2>1. FillSize \in Nat \ {0} /\ Wrap % FillSize = 0 /\ fill \in Ring(FillSize)
    BY FrameTypes, Zenon
  <2> QED
    BY <2>1, <1>2, AtShift, Zenon
<1> QED
  BY <1>1, <1>2, <1>3, Zenon DEF FillEntry

(* The same for the receive ring. *)
LEMMA RxShift ==
    ASSUME IoType, NEW m \in Nat, rx'.slot = rx.slot, rx'.cons = Idx(rx.cons + m)
    PROVE  \A k \in Int : RxEntry(k)' = RxEntry(m + k)
<1> SUFFICES ASSUME NEW k \in Int PROVE RxEntry(k)' = RxEntry(m + k)
  BY Zenon
<1>1. RxEntry(k)' = At(rx, Idx(rx.cons + m) + k)
  BY Zenon DEF RxEntry, At, Size
<1>2. rx.cons + m \in Int /\ (rx.cons + m) + k = rx.cons + (m + k)
  <2>1. rx.cons \in Int
    BY FrameTypes, Zenon
  <2> QED
    BY <2>1
<1>3. At(rx, Idx(rx.cons + m) + k) = At(rx, (rx.cons + m) + k)
  <2>1. RxSize \in Nat \ {0} /\ Wrap % RxSize = 0 /\ rx \in Ring(RxSize)
    BY FrameTypes, Zenon
  <2> QED
    BY <2>1, <1>2, AtShift, Zenon
<1> QED
  BY <1>1, <1>2, <1>3, Zenon DEF RxEntry

(* The account follows from where the frames are, when none is lost. *)
LEMMA NoneLost ==
    ASSUME FrameInv, IndexInv', BareInv', kept' = kept, Serving' = {} \/ Serving # {},
           \A j, k \in DOMAIN free' : free'[j] = free'[k] => j = k,
           (\A j, k \in Lent : FillEntry(j) = FillEntry(k) => j = k)',
           (\A j, k \in Waiting : RxEntry(j) = RxEntry(k) => j = k)',
           FreeFrames' \intersect LentFrames' = {}, FreeFrames' \intersect WaitingFrames' = {},
           LentFrames' \intersect WaitingFrames' = {},
           Held' = Held, Invalid \notin FreeFrames', Invalid \notin WaitingFrames'
    PROVE  FrameInv'
<1>1. Serving' # {} => Cardinality(Held') = NumFrames - kept'
  BY Zenon DEF FrameInv, FramesAccounted, Held
<1>2. FramesAccounted'
  BY <1>1, Zenon DEF FramesAccounted, Held
<1> QED
  BY <1>2, Zenon DEF FrameInv

(* The batch is released: its entries were processed. *)
LEMMA ReleaseFrames == ASSUME LoopInv, FrameInv, ReleaseBatch PROVE FrameInv'
<1>0. IoType /\ IndexInv /\ FramesAccounted /\ loop.pc = "process" /\ loop.pc # "idle"
  <2>1. "process" # "idle"
    OBVIOUS
  <2> QED
    BY <2>1, Zenon DEF LoopInv, FrameInv, ReleaseBatch
<1>1. PICK m \in Nat : m = loop.recvd
  BY <1>0, Zenon DEF IndexInv
<1>2. PICK n \in Nat : n = Ahead(rx.prod, rx.cons)
  BY <1>0, FrameTypes, IndexType, Zenon
<1>3. PICK o \in Nat : o = Ahead(rx.cprod, rx.cons)
  BY <1>0, FrameTypes, IndexType, Zenon
<1>4. /\ loop.done = m /\ rx' = [rx EXCEPT !.cons = Idx(@ + m)] /\ loop' = Idle
      /\ UNCHANGED <<skVars, free, fill, kept>>
  BY <1>1, Zenon DEF ReleaseBatch, Release
<1>5. /\ rx'.cons = Idx(rx.cons + m) /\ rx'.prod = rx.prod /\ rx'.cprod = rx.cprod
      /\ rx'.ccons = rx.ccons /\ rx'.slot = rx.slot
  BY <1>0, <1>4, FrameTypes, Zenon DEF Ring
<1>6. m <= o /\ o <= n /\ n <= RxSize /\ m <= n
  <2>1. m <= o /\ o <= n /\ n <= RxSize
    BY <1>0, <1>1, <1>2, <1>3, Zenon DEF IndexInv
  <2> QED
    BY <2>1
<1>7. Ahead(rx'.prod, rx'.cons) = n - m /\ Ahead(rx'.cprod, rx'.cons) = o - m
  <2>1. /\ m <= Ahead(rx.prod, rx.cons) /\ m <= Ahead(rx.cprod, rx.cons)
        /\ rx.prod \in Index /\ rx.cprod \in Index /\ rx.cons \in Index
    BY <1>0, <1>2, <1>3, <1>6, FrameTypes, Zenon
  <2>2. /\ Ahead(rx.prod, Idx(rx.cons + m)) = Ahead(rx.prod, rx.cons) - m
        /\ Ahead(rx.cprod, Idx(rx.cons + m)) = Ahead(rx.cprod, rx.cons) - m
    BY <2>1, ConsumerMoves, Zenon
  <2> QED
    BY <2>2, <1>2, <1>3, <1>5, Zenon
<1>8. \A k \in Int : RxEntry(k)' = RxEntry(m + k)
  BY <1>0, <1>5, RxShift, Zenon
<1>9. Waiting = m .. n - 1 /\ Waiting' = 0 .. (n - m) - 1
  <2>1. loop'.done = 0
    BY <1>4, Zenon DEF Idle
  <2> QED
    BY <2>1, <1>2, <1>4, <1>7, Zenon DEF Waiting
<1>10. /\ \A k \in Waiting' : k \in Int /\ m + k \in Waiting
       /\ \A k \in Waiting : k - m \in Waiting' /\ k - m \in Int /\ m + (k - m) = k
       /\ \A j, k \in Waiting' : m + j = m + k => j = k
  BY <1>9
<1>11. WaitingFrames' = WaitingFrames
  <2>1. ASSUME NEW v \in WaitingFrames PROVE v \in WaitingFrames'
    <3>1. PICK k \in Waiting : v = RxEntry(k)
      BY <2>1, Zenon DEF WaitingFrames
    <3>2. PICK j \in Int : j = k - m /\ j \in Waiting' /\ m + j = k
      BY <1>10, Zenon
    <3>3. v = RxEntry(j)'
      BY <3>1, <3>2, <1>8, Zenon
    <3> QED
      BY <3>2, <3>3, Zenon DEF WaitingFrames
  <2>2. ASSUME NEW v \in WaitingFrames' PROVE v \in WaitingFrames
    <3>1. PICK k \in Waiting' : v = RxEntry(k)'
      BY <2>2, Zenon DEF WaitingFrames
    <3>2. m + k \in Waiting /\ v = RxEntry(m + k)
      BY <3>1, <1>8, <1>10, Zenon
    <3> QED
      BY <3>2, Zenon DEF WaitingFrames
  <2> QED
    BY <2>1, <2>2, Zenon
<1>12. (\A j, k \in Waiting : RxEntry(j) = RxEntry(k) => j = k)'
  <2>1. \A j, k \in Waiting : RxEntry(j) = RxEntry(k) => j = k
    BY <1>0, Zenon DEF FramesAccounted
  <2> QED
    BY <2>1, <1>8, <1>10, Zenon
<1>13. Serving # {} /\ Serving' = Serving /\ BareInv'
  BY <1>0, <1>4, InUse, Zenon
<1>14. IndexInv'
  <2>1. 0 <= o - m /\ o - m <= n - m /\ n - m <= RxSize /\ 0 <= 0 /\ 0 \in Nat
    BY <1>6, FrameTypes, <1>0
  <2>2. Idx(rx'.cons + 0) = rx'.ccons
    <3>1. rx'.cons \in Index
      <4>1. rx.cons + m \in Int
        BY FrameTypes, <1>0
      <4> QED
        BY <1>5, <4>1, IndexType, Zenon
    <3>2. rx'.cons + 0 = rx'.cons /\ Idx(rx'.cons) = rx'.cons
      BY <3>1, XskAssumption DEF Idx, Index
    <3> QED
      BY <3>2, <1>0, <1>1, <1>5, Zenon DEF IndexInv
  <2>3. /\ loop'.pc = "idle" /\ loop'.recvd = 0 /\ loop'.done = 0 /\ "idle" # "submit"
        /\ "process" # "submit"
    BY <1>4 DEF Idle
  <2> QED
    BY <2>1, <2>2, <2>3, <1>0, <1>4, <1>7, Zenon DEF IndexInv
<1>15. FreeFrames' = FreeFrames /\ LentFrames' = LentFrames /\ Lent' = Lent
       /\ (\A k : FillEntry(k)' = FillEntry(k)) /\ free' = free /\ kept' = kept
  BY <1>4, SameFill, Zenon DEF FreeFrames
<1>16. /\ (\A j, k \in Lent : FillEntry(j) = FillEntry(k) => j = k)'
       /\ \A j, k \in DOMAIN free' : free'[j] = free'[k] => j = k
  BY <1>0, <1>15, Zenon DEF FramesAccounted
<1>17. /\ FreeFrames' \intersect LentFrames' = {} /\ FreeFrames' \intersect WaitingFrames' = {}
       /\ LentFrames' \intersect WaitingFrames' = {} /\ Held' = Held
       /\ Invalid \notin FreeFrames' /\ Invalid \notin WaitingFrames'
  BY <1>0, <1>11, <1>15, Zenon DEF FramesAccounted, FrameInv, Held
<1> QED
  BY <1>12, <1>13, <1>14, <1>15, <1>16, <1>17, NoneLost, Zenon

(* Where the loop takes a packet's frame from, and what waits after that. *)
LEMMA NextWaiting ==
    ASSUME LoopInv, FrameInv, ProcessPacket
    PROVE  \E f : /\ f = At(rx, loop.idx + loop.done) /\ f \in WaitingFrames /\ f # Invalid
                  /\ WaitingFrames' = WaitingFrames \ {f}
                  /\ (\A j, k \in Waiting : RxEntry(j) = RxEntry(k) => j = k)'
<1>0. IoType /\ IndexInv /\ loop.pc = "process" /\ loop.pc # "idle" /\ loop.done < loop.recvd /\ loop \in Loop
  <2>1. "process" # "idle"
    OBVIOUS
  <2> QED
    BY <2>1, Zenon DEF LoopInv, IoType, FrameInv, ProcessPacket
<1>1. PICK d \in Nat : d = loop.done
  BY <1>0, Zenon DEF IndexInv
<1>2. PICK n \in Nat : n = Ahead(rx.prod, rx.cons)
  BY <1>0, FrameTypes, IndexType, Zenon
<1>3. d < n
  <2>1. Ahead(rx.cprod, rx.cons) \in Nat /\ loop.recvd \in Nat /\ loop.recvd <= Ahead(rx.cprod, rx.cons)
        /\ Ahead(rx.cprod, rx.cons) <= n
    BY <1>0, <1>2, FrameTypes, IndexType, Zenon DEF IndexInv
  <2> QED
    BY <2>1, <1>0, <1>1
<1>4. loop'.done = d + 1 /\ rx' = rx
  BY <1>0, <1>1, Zenon DEF ProcessPacket, Loop
<1>5. Waiting = d .. n - 1 /\ Waiting' = d + 1 .. n - 1
  BY <1>1, <1>2, <1>4, Zenon DEF Waiting
<1>6. d \in Waiting /\ Waiting' = Waiting \ {d}
  BY <1>3, <1>5
<1>7. \A k : RxEntry(k)' = RxEntry(k)
  BY <1>4, SameRx, Zenon
<1>8. RxEntry(d) = At(rx, loop.idx + loop.done)
  BY <1>0, <1>1, Zenon DEF RxEntry, IndexInv
<1>9. \A j, k \in Waiting : RxEntry(j) = RxEntry(k) => j = k
  BY Zenon DEF FrameInv, FramesAccounted
<1>10. RxEntry(d) \in WaitingFrames /\ RxEntry(d) # Invalid
  BY <1>6, Zenon DEF WaitingFrames, FrameInv
<1>11. WaitingFrames' = WaitingFrames \ {RxEntry(d)}
  <2>1. ASSUME NEW v \in WaitingFrames, v # RxEntry(d) PROVE v \in WaitingFrames'
    <3>1. PICK k \in Waiting : v = RxEntry(k)
      BY <2>1, Zenon DEF WaitingFrames
    <3>2. k \in Waiting' /\ v = RxEntry(k)'
      BY <2>1, <3>1, <1>6, <1>7, Zenon
    <3> QED
      BY <3>2, Zenon DEF WaitingFrames
  <2>2. ASSUME NEW v \in WaitingFrames' PROVE v \in WaitingFrames /\ v # RxEntry(d)
    <3>1. PICK k \in Waiting' : v = RxEntry(k)'
      BY <2>2, Zenon DEF WaitingFrames
    <3>2. k \in Waiting /\ k # d /\ v = RxEntry(k)
      BY <3>1, <1>6, <1>7, Zenon
    <3> QED
      BY <3>2, <1>6, <1>9, Zenon DEF WaitingFrames
  <2> QED
    BY <2>1, <2>2, Zenon
<1>12. (\A j, k \in Waiting : RxEntry(j) = RxEntry(k) => j = k)'
  BY <1>6, <1>7, <1>9, Zenon
<1> QED
  BY <1>8, <1>10, <1>11, <1>12, Zenon

(* A frame put on the stack. *)
LEMMA GiveBack ==
    ASSUME free \in Seq(Int), NEW f \in Int, f \notin FreeFrames, free' = Append(free, f),
           \A j, k \in DOMAIN free : free[j] = free[k] => j = k
    PROVE  /\ FreeFrames' = FreeFrames \union {f}
           /\ \A j, k \in DOMAIN free' : free'[j] = free'[k] => j = k
<1>1. PICK n \in Nat : n = Len(free)
  OBVIOUS
<1>2. /\ DOMAIN free = 1 .. n /\ DOMAIN free' = 1 .. n + 1 /\ free'[n + 1] = f
      /\ \A k \in 1 .. n : free'[k] = free[k]
  BY <1>1
<1>3. PICK e : e = n + 1
  BY Zenon
<1>4. /\ e \in DOMAIN free' /\ \A k \in DOMAIN free : k \in DOMAIN free' /\ k # e
      /\ \A k \in DOMAIN free' : k \in DOMAIN free \/ k = e
  BY <1>2, <1>3
<1>5. free'[e] = f /\ \A k \in DOMAIN free : free'[k] = free[k] /\ free[k] # f
  BY <1>2, <1>3, Zenon DEF FreeFrames
<1>6. FreeFrames' = FreeFrames \union {f}
  <2>1. \A v : v \in FreeFrames' <=> \E k \in DOMAIN free' : v = free'[k]
    BY Zenon DEF FreeFrames
  <2>2. \A v : v \in FreeFrames <=> \E k \in DOMAIN free : v = free[k]
    BY Zenon DEF FreeFrames
  <2>3. ASSUME NEW v \in FreeFrames' PROVE v \in FreeFrames \/ v = f
    <3>1. PICK k \in DOMAIN free' : v = free'[k]
      BY <2>1, <2>3, Zenon
    <3> QED
      BY <2>2, <3>1, <1>4, <1>5, Zenon
  <2>4. ASSUME NEW v \in FreeFrames PROVE v \in FreeFrames'
    <3>1. PICK k \in DOMAIN free : v = free[k]
      BY <2>2, <2>4, Zenon
    <3>2. k \in DOMAIN free' /\ v = free'[k]
      BY <3>1, <1>4, <1>5, Zenon
    <3> QED
      BY <2>1, <3>2, Zenon
  <2>5. f \in FreeFrames'
    BY <2>1, <1>4, <1>5, Zenon
  <2> QED
    BY <2>3, <2>4, <2>5, Zenon
<1>7. \A j, k \in DOMAIN free' : free'[j] = free'[k] => j = k
  <2>1. ASSUME NEW j \in DOMAIN free', NEW k \in DOMAIN free', free'[j] = free'[k] PROVE j = k
    BY <2>1, <1>4, <1>5, Zenon
  <2> QED
    BY <2>1, Zenon
<1> QED
  BY <1>6, <1>7, Zenon

(* A packet of the batch: its frame is free again, or it is lost. *)
LEMMA ProcessFrames == ASSUME LoopInv, FrameInv, ProcessPacket PROVE FrameInv'
<1>0. /\ IoType /\ IndexInv /\ FramesAccounted /\ loop.pc = "process" /\ loop.pc # "idle" /\ loop \in Loop
      /\ loop.done \in Nat /\ loop.recvd \in Nat /\ loop.done < loop.recvd
  <2>1. "process" # "idle"
    OBVIOUS
  <2> QED
    BY <2>1, Zenon DEF LoopInv, IoType, FrameInv, ProcessPacket, IndexInv
<1>1. PICK f : /\ f = At(rx, loop.idx + loop.done) /\ f \in WaitingFrames /\ f # Invalid
               /\ WaitingFrames' = WaitingFrames \ {f}
               /\ (\A j, k \in Waiting : RxEntry(j) = RxEntry(k) => j = k)'
  BY NextWaiting, Zenon
<1>2. /\ loop' = [loop EXCEPT !.done = @ + 1] /\ UNCHANGED <<skVars, fill, rx>>
      /\ \/ free' = Append(free, f) /\ kept' = kept
         \/ free' = free /\ kept' = kept + 1
  BY <1>1, Zenon DEF ProcessPacket, GivesBack
<1>3. /\ loop'.pc = loop.pc /\ loop'.recvd = loop.recvd /\ loop'.idx = loop.idx
      /\ loop'.done = loop.done + 1 /\ loop'.stock = loop.stock
  BY <1>0, <1>2, Zenon DEF Loop
<1>4. loop'.done \in Nat /\ loop'.done <= loop'.recvd
  BY <1>0, <1>3
<1>5. IndexInv'
  BY <1>0, <1>2, <1>3, <1>4, Zenon DEF IndexInv
<1>6. Serving # {} /\ Serving' = Serving /\ BareInv'
  BY <1>0, <1>2, InUse, Zenon
<1>7. /\ Lent' = Lent /\ LentFrames' = LentFrames /\ \A k : FillEntry(k)' = FillEntry(k)
  BY <1>2, SameFill, Zenon
<1>8. /\ (\A j, k \in Lent : FillEntry(j) = FillEntry(k) => j = k)'
      /\ f \notin FreeFrames /\ f \notin LentFrames
      /\ LentFrames' \intersect WaitingFrames' = {}
      /\ Invalid \notin WaitingFrames' /\ Invalid \notin FreeFrames
      /\ \A j, k \in DOMAIN free : free[j] = free[k] => j = k
      /\ FreeFrames \intersect LentFrames = {} /\ FreeFrames \intersect WaitingFrames = {}
  BY <1>0, <1>1, <1>7, Zenon DEF FramesAccounted, FrameInv
<1>9. CASE free' = Append(free, f) /\ kept' = kept
  <2>1. f \in Int
    <3>1. loop.idx + loop.done \in Int
      <4>1. loop.idx \in Int
        BY <1>0, Zenon DEF Loop
      <4> QED
        BY <4>1, <1>0
    <3> QED
      BY <3>1, <1>0, <1>1, FrameTypes, SlotType, Zenon
  <2>2. /\ FreeFrames' = FreeFrames \union {f}
        /\ \A j, k \in DOMAIN free' : free'[j] = free'[k] => j = k
    BY <2>1, <1>0, <1>8, <1>9, FrameTypes, GiveBack, Zenon
  <2>3. Held' = Held
    BY <2>2, <1>1, <1>7, Zenon DEF Held
  <2>4. /\ FreeFrames' \intersect LentFrames' = {} /\ FreeFrames' \intersect WaitingFrames' = {}
        /\ Invalid \notin FreeFrames'
    <3>1. /\ WaitingFrames' = WaitingFrames \ {f} /\ LentFrames' = LentFrames /\ f # Invalid
          /\ f \notin LentFrames /\ FreeFrames' = FreeFrames \union {f} /\ Invalid \notin FreeFrames
          /\ FreeFrames \intersect LentFrames = {} /\ FreeFrames \intersect WaitingFrames = {}
      BY <2>2, <1>1, <1>7, <1>8, Zenon
    <3> HIDE DEF FreeFrames, LentFrames, WaitingFrames
    <3> QED
      BY <3>1, SMT
  <2> QED
    BY <1>9, <2>2, <2>3, <2>4, <1>1, <1>5, <1>6, <1>8, NoneLost, Zenon
<1>10. CASE free' = free /\ kept' = kept + 1
  <2>1. /\ \A j, k \in DOMAIN free' : free'[j] = free'[k] => j = k
        /\ FreeFrames' = FreeFrames
    BY <1>8, <1>10, Zenon DEF FreeFrames
  <2>2. Held' = Held \ {f} /\ f \in Held /\ IsFiniteSet(Held)
    <3>1. /\ WaitingFrames' = WaitingFrames \ {f} /\ LentFrames' = LentFrames /\ f \in WaitingFrames
          /\ f \notin LentFrames /\ f \notin FreeFrames /\ FreeFrames' = FreeFrames
      BY <2>1, <1>1, <1>7, <1>8, Zenon
    <3>2. Held' = Held \ {f} /\ f \in Held
      BY <3>1, SMT DEF Held
    <3> QED
      BY <3>2, Zenon DEF FrameInv
  <2>3. IsFiniteSet(Held') /\ Cardinality(Held') = Cardinality(Held) - 1 /\ Cardinality(Held) = NumFrames - kept
    <3>1. Cardinality(Held) = NumFrames - kept
      BY <1>0, <1>6, Zenon DEF FramesAccounted, Held
    <3> HIDE DEF Held
    <3>2. IsFiniteSet(Held \ {f}) /\ Cardinality(Held \ {f}) = Cardinality(Held) - 1
      BY <2>2, FS_RemoveElement, Zenon
    <3> QED
      BY <2>2, <3>1, <3>2, Zenon
  <2>4. kept' \in Nat /\ (NumFrames - kept) - 1 = NumFrames - kept'
    <3>1. kept \in Nat /\ NumFrames \in Nat
      BY XskAssumption, Zenon DEF FrameInv
    <3> QED
      BY <3>1, <1>10
  <2>5. Cardinality(Held') = NumFrames - kept'
    BY <2>3, <2>4, Zenon
  <2>6. FreeFrames' \intersect LentFrames' = {} /\ FreeFrames' \intersect WaitingFrames' = {}
    BY <2>1, <1>1, <1>7, <1>8, Zenon
  <2>7. FramesAccounted'
    BY <2>1, <2>5, <2>6, <1>1, <1>8, Zenon DEF FramesAccounted, Held
  <2> QED
    BY <2>1, <2>3, <2>4, <2>7, <1>5, <1>6, <1>8, Zenon DEF FrameInv
<1> QED
  BY <1>2, <1>9, <1>10, Zenon

(* The entries of the fill ring after n frames from the top of a stack     *)
(* were put behind the c it holds.                                         *)
EntriesPut(stack, n, c, len) ==
    /\ \A k \in Nat : k < c => FillEntry(k)' = FillEntry(k)
    /\ \A k \in Nat : c <= k /\ k < c + n =>
          /\ k - c < len => FillEntry(k)' = stack[len - (k - c)]
          /\ ~(k - c < len) => FillEntry(k)' = Invalid

(* So it is, as the ring has room for them. *)
LEMMA PutEntries ==
    ASSUME IoType, NEW stack \in Seq(Int), NEW n \in Nat, NEW c \in Nat, NEW len \in Nat, len = Len(stack),
           c = Ahead(fill.cprod, fill.cons), c + n <= FillSize, fill'.cons = fill.cons,
           fill'.slot = Put(fill, fill.cprod, Alloc(stack, n)).slot
    PROVE  EntriesPut(stack, n, c, len)
<1>1. PICK es \in Seq(Int) : es = Alloc(stack, n) /\ Len(es) = n
  <2>1. Len(Alloc(stack, n)) = n
    BY DEF Alloc
  <2> QED
    BY <2>1, AllocType, Zenon
<1>2. PICK a \in Int : a = fill.cons /\ fill.cprod = Idx(a + c)
  <2>1. fill.cons \in Int /\ fill.cons \in Index /\ fill.cprod \in Index
    BY FrameTypes, Zenon
  <2>2. 0 \in Nat
    OBVIOUS
  <2>3. fill.cprod = Idx(fill.cons + c)
    BY <2>1, <2>2, AheadMoves, Zenon
  <2> QED
    BY <2>1, <2>3, Zenon
<1>3. \A k : FillEntry(k)' = At(Put(fill, Idx(a + c), es), a + k)
  BY <1>1, <1>2, Zenon DEF FillEntry, At, Size
<1>4. /\ FillSize \in Nat \ {0} /\ Wrap % FillSize = 0 /\ fill \in Ring(FillSize)
      /\ c + Len(es) <= FillSize /\ c + Len(es) = c + n
  BY <1>1, FrameTypes, Zenon
<1>5. ASSUME NEW k \in Nat, k < c PROVE FillEntry(k)' = FillEntry(k)
  <2>1. k < c + Len(es)
    BY <1>4, <1>5
  <2>2. PutFits(FillSize, fill, a, c, es, k)
    BY <2>1, <1>4, PutBehind, Zenon
  <2> QED
    BY <2>2, <1>2, <1>3, <1>5, Zenon DEF FillEntry, PutFits
<1>6. ASSUME NEW k \in Nat, c <= k, k < c + n
      PROVE  /\ k - c < len => FillEntry(k)' = stack[len - (k - c)]
             /\ ~(k - c < len) => FillEntry(k)' = Invalid
  <2>1. k < c + Len(es) /\ k >= c
    BY <1>4, <1>6
  <2>2. PutFits(FillSize, fill, a, c, es, k)
    BY <2>1, <1>4, PutBehind, Zenon
  <2>3. PICK j \in 1 .. n : j = k - c + 1
    BY <1>6
  <2>4. j \in Int /\ k - c = j - 1
    BY <2>3
  <2>5. (j <= len <=> j - 1 < len) /\ len - j + 1 = len - (j - 1)
    BY <2>4
  <2>6. es[j] = IF j <= len THEN stack[len - j + 1] ELSE Invalid
    BY <1>1, Zenon DEF Alloc
  <2> QED
    BY <2>1, <2>2, <2>3, <2>4, <2>5, <2>6, <1>3, Zenon DEF PutFits
<1> QED
  BY <1>5, <1>6, Zenon DEF EntriesPut

(* What is left on the stack. *)
LeftOn(stack, n, len, t) ==
    /\ DOMAIN AfterAlloc(stack, n) = 1 .. len - t
    /\ \A k \in 1 .. len - t : AfterAlloc(stack, n)[k] = stack[k]

(* So it is, whether the stack holds n frames or fewer. *)
LEMMA LeftFrames ==
    ASSUME NEW stack \in Seq(Int), NEW n \in Nat, NEW len \in Nat, len = Len(stack),
           NEW t \in Nat, n < len => t = n, ~(n < len) => t = len
    PROVE  LeftOn(stack, n, len, t)
<1>1. CASE n < len
  <2>1. AfterAlloc(stack, n) = SubSeq(stack, 1, len - t)
    BY <1>1, Zenon DEF AfterAlloc
  <2> QED
    BY <2>1, <1>1 DEF LeftOn
<1>2. CASE ~(n < len)
  <2>1. AfterAlloc(stack, n) = << >>
    BY <1>2, Zenon DEF AfterAlloc
  <2> QED
    BY <2>1, <1>2 DEF LeftOn
<1> QED
  BY <1>1, <1>2, Zenon

(* Which frames are left on the stack, Rest, and which ones are lent, Top. *)
StackMoves(stack, c, Rest, Top, len) ==
    /\ DOMAIN stack = Rest \union Top /\ Rest \intersect Top = {}
    /\ DOMAIN free' = Rest /\ \A k \in Rest : free'[k] = stack[k]
    /\ \A k \in Lent : k \in Lent' /\ FillEntry(k)' = FillEntry(k)
    /\ \A j \in Top : \E k \in Lent' : FillEntry(k)' = stack[j]
    /\ \A k \in Lent' : k \in Lent \/ \E j \in Top : k = c + (len - j) /\ FillEntry(k)' = stack[j]

(* A reservation is such a move, also when the stack holds too few. *)
LEMMA StackPlaces ==
    ASSUME IoType, NEW stack \in Seq(Int), NEW n \in Nat, NEW c \in Nat, c = Ahead(fill.cprod, fill.cons),
           c + n <= FillSize, fill'.cons = fill.cons, Ahead(fill'.cprod, fill'.cons) = c + n,
           fill'.slot = Put(fill, fill.cprod, Alloc(stack, n)).slot, free' = AfterAlloc(stack, n),
           \A k \in DOMAIN stack : stack[k] # Invalid
    PROVE  \E Rest, Top, len : StackMoves(stack, c, Rest, Top, len)
<1>1. PICK len \in Nat : len = Len(stack) /\ DOMAIN stack = 1 .. len
  OBVIOUS
<1>2. PICK t \in Nat : /\ t <= n /\ t <= len
                       /\ n < len => t = n
                       /\ ~(n < len) => t = len
  BY <1>1
<1> DEFINE Rest == 1 .. len - t
           Top  == len - t + 1 .. len
<1>3. DOMAIN stack = Rest \union Top /\ Rest \intersect Top = {}
  <2>1. t \in Nat /\ t <= len
    BY <1>2, Zenon
  <2> QED
    BY <2>1, <1>1
<1>4. DOMAIN free' = Rest /\ \A k \in Rest : free'[k] = stack[k]
  <2>1. LeftOn(stack, n, len, t)
    BY <1>1, <1>2, LeftFrames, Zenon
  <2> QED
    BY <2>1, Zenon DEF LeftOn
<1>5. /\ \A k \in Nat : k < c => FillEntry(k)' = FillEntry(k)
      /\ \A k \in Nat : c <= k /\ k < c + n =>
            /\ k - c < len => FillEntry(k)' = stack[len - (k - c)]
            /\ ~(k - c < len) => FillEntry(k)' = Invalid
  <2>1. EntriesPut(stack, n, c, len)
    BY <1>1, PutEntries, Zenon
  <2> QED
    BY <2>1, Zenon DEF EntriesPut
<1>6. /\ \A k : k \in Lent <=> k \in 0 .. c - 1 /\ FillEntry(k) # Invalid
      /\ \A k : k \in Lent' <=> k \in 0 .. (c + n) - 1 /\ FillEntry(k)' # Invalid
  BY Zenon DEF Lent
<1>7. \A k \in Lent : k \in Lent' /\ FillEntry(k)' = FillEntry(k)
  <2> SUFFICES ASSUME NEW k \in Lent PROVE k \in Lent' /\ FillEntry(k)' = FillEntry(k)
    BY Zenon
  <2>1. k \in 0 .. c - 1 /\ FillEntry(k) # Invalid
    BY <1>6, Zenon
  <2>2. k \in Nat /\ k < c /\ k \in 0 .. (c + n) - 1
    BY <2>1
  <2> QED
    BY <2>1, <2>2, <1>5, <1>6, Zenon
<1>8. \A j \in Top : \E k \in Lent' : FillEntry(k)' = stack[j]
  <2> SUFFICES ASSUME NEW j \in Top PROVE \E k \in Lent' : FillEntry(k)' = stack[j]
    BY Zenon
  <2>1. PICK k \in Nat : k = c + (len - j)
    BY <1>2
  <2>2. c <= k /\ k < c + n
    BY <2>1, <1>2
  <2>3. k - c < len /\ len - (k - c) = j
    <3>1. k - c = len - j /\ j \in Int /\ j > 0
      BY <2>1, <1>2
    <3> QED
      BY <3>1
  <2>4. k \in 0 .. (c + n) - 1
    BY <2>2
  <2>5. FillEntry(k)' = stack[j]
    BY <2>2, <2>3, <1>5, Zenon
  <2>6. stack[j] # Invalid
    BY <1>3, Zenon
  <2> QED
    BY <2>4, <2>5, <2>6, <1>6, Zenon
<1>9. \A k \in Lent' : k \in Lent \/ \E j \in Top : k = c + (len - j) /\ FillEntry(k)' = stack[j]
  <2> SUFFICES ASSUME NEW k \in Lent', k \notin Lent
               PROVE  \E j \in Top : k = c + (len - j) /\ FillEntry(k)' = stack[j]
    BY Zenon
  <2>1. k \in 0 .. (c + n) - 1 /\ FillEntry(k)' # Invalid
    BY <1>6, Zenon
  <2>2. k \in Nat /\ k < c + n
    BY <2>1
  <2>3. ~(k < c)
    <3> SUFFICES ASSUME k < c PROVE FALSE
      BY Zenon
    <3>1. k \in 0 .. c - 1
      BY <2>2
    <3> QED
      BY <2>1, <2>2, <3>1, <1>5, <1>6, Zenon
  <2>4. c <= k
    BY <2>2, <2>3
  <2>5. k - c < len /\ FillEntry(k)' = stack[len - (k - c)]
    BY <2>1, <2>2, <2>4, <1>5, Zenon
  <2>6. PICK j \in Top : j = len - (k - c)
    BY <2>2, <2>4, <2>5, <1>2
  <2>7. k = c + (len - j)
    BY <2>2, <2>6
  <2> QED
    BY <2>5, <2>6, <2>7, Zenon
<1> HIDE DEF Rest, Top
<1>10. StackMoves(stack, c, Rest, Top, len)
  BY <1>3, <1>4, <1>7, <1>8, <1>9, Zenon DEF StackMoves
<1> QED
  BY <1>10, Zenon

(* Frames from the top of a stack are lent: what is left and what is lent  *)
(* are apart and together what there was.                                  *)
LEMMA StackLent ==
    ASSUME NEW stack, NEW c, NEW S, \E Rest, Top, len : StackMoves(stack, c, Rest, Top, len),
           S = {stack[k] : k \in DOMAIN stack}, Invalid \notin S, S \intersect LentFrames = {},
           \A j, k \in DOMAIN stack : stack[j] = stack[k] => j = k,
           \A j, k \in Lent : FillEntry(j) = FillEntry(k) => j = k
    PROVE  /\ \A j, k \in DOMAIN free' : free'[j] = free'[k] => j = k
           /\ (\A j, k \in Lent : FillEntry(j) = FillEntry(k) => j = k)'
           /\ FreeFrames' \intersect LentFrames' = {}
           /\ FreeFrames' \union LentFrames' = S \union LentFrames /\ Invalid \notin FreeFrames'
<1>1. PICK Rest, Top, len : StackMoves(stack, c, Rest, Top, len)
  BY Zenon
<1>2. DOMAIN stack = Rest \union Top /\ Rest \intersect Top = {}
  BY <1>1, Zenon DEF StackMoves
<1>3. DOMAIN free' = Rest /\ \A k \in Rest : free'[k] = stack[k]
  BY <1>1, Zenon DEF StackMoves
<1>4. \A k \in Lent : k \in Lent' /\ FillEntry(k)' = FillEntry(k)
  BY <1>1, Zenon DEF StackMoves
<1>5. \A j \in Top : \E k \in Lent' : FillEntry(k)' = stack[j]
  BY <1>1, Zenon DEF StackMoves
<1>6. \A k \in Lent' : k \in Lent \/ \E j \in Top : k = c + (len - j) /\ FillEntry(k)' = stack[j]
  BY <1>1, Zenon DEF StackMoves
<1>7. \A j, k \in DOMAIN free' : free'[j] = free'[k] => j = k
  BY <1>2, <1>3, Zenon
<1>8. \A v : v \in FreeFrames' <=> \E j \in Rest : v = stack[j]
  <2>1. ASSUME NEW v \in FreeFrames' PROVE \E j \in Rest : v = stack[j]
    <3>1. PICK k \in DOMAIN free' : v = free'[k]
      BY <2>1, Zenon DEF FreeFrames
    <3> QED
      BY <3>1, <1>3, Zenon
  <2>2. ASSUME NEW j \in Rest PROVE stack[j] \in FreeFrames'
    <3>1. j \in DOMAIN free' /\ free'[j] = stack[j]
      BY <2>2, <1>3, Zenon
    <3> QED
      BY <3>1, Zenon DEF FreeFrames
  <2> QED
    BY <2>1, <2>2, Zenon
<1>9. \A v : v \in LentFrames' <=> v \in LentFrames \/ \E j \in Top : v = stack[j]
  <2>1. ASSUME NEW v \in LentFrames' PROVE v \in LentFrames \/ \E j \in Top : v = stack[j]
    <3>1. PICK k \in Lent' : v = FillEntry(k)'
      BY <2>1, Zenon DEF LentFrames
    <3>2. CASE k \in Lent
      <4>1. v = FillEntry(k)
        BY <3>1, <3>2, <1>4, Zenon
      <4> QED
        BY <3>2, <4>1, Zenon DEF LentFrames
    <3> QED
      BY <3>1, <3>2, <1>6, Zenon
  <2>2. ASSUME NEW v \in LentFrames PROVE v \in LentFrames'
    <3>1. PICK k \in Lent : v = FillEntry(k)
      BY <2>2, Zenon DEF LentFrames
    <3>2. k \in Lent' /\ v = FillEntry(k)'
      BY <3>1, <1>4, Zenon
    <3> QED
      BY <3>2, Zenon DEF LentFrames
  <2>3. ASSUME NEW j \in Top PROVE stack[j] \in LentFrames'
    <3>1. PICK k \in Lent' : stack[j] = FillEntry(k)'
      BY <2>3, <1>5, Zenon
    <3> QED
      BY <3>1, Zenon DEF LentFrames
  <2> QED
    BY <2>1, <2>2, <2>3, Zenon
<1>10. /\ \A v \in S : (\E j \in Rest : v = stack[j]) \/ \E j \in Top : v = stack[j]
       /\ \A j \in Rest : stack[j] \in S
       /\ \A j \in Top : stack[j] \in S
  BY <1>2, Zenon
<1>11. FreeFrames' \union LentFrames' = S \union LentFrames
  <2> HIDE DEF FreeFrames, LentFrames
  <2>1. ASSUME NEW v \in FreeFrames' \union LentFrames' PROVE v \in S \union LentFrames
    <3>1. CASE v \in FreeFrames'
      <4>1. PICK j \in Rest : v = stack[j]
        BY <3>1, <1>8, Zenon
      <4> QED
        BY <4>1, <1>10, Zenon
    <3>2. CASE v \in LentFrames'
      <4>1. v \in LentFrames \/ \E j \in Top : v = stack[j]
        BY <3>2, <1>9, Zenon
      <4> QED
        BY <4>1, <1>10, Zenon
    <3> QED
      BY <2>1, <3>1, <3>2, Zenon
  <2>2. ASSUME NEW v \in S \union LentFrames PROVE v \in FreeFrames' \union LentFrames'
    BY <2>2, <1>8, <1>9, <1>10, Zenon
  <2> QED
    BY <2>1, <2>2, Zenon
<1>12. FreeFrames' \intersect LentFrames' = {}
  <2> SUFFICES ASSUME NEW v \in FreeFrames', v \in LentFrames' PROVE FALSE
    BY Zenon
  <2>1. PICK i \in Rest : v = stack[i]
    BY <1>8, Zenon
  <2>2. v \in S
    BY <2>1, <1>10, Zenon
  <2>3. v \notin LentFrames
    BY <2>2, Zenon
  <2>4. PICK j \in Top : v = stack[j]
    BY <2>3, <1>9, Zenon
  <2>5. i \in DOMAIN stack /\ j \in DOMAIN stack /\ i # j
    BY <2>1, <2>4, <1>2, Zenon
  <2> QED
    BY <2>1, <2>4, <2>5, Zenon
<1>13. (\A j, k \in Lent : FillEntry(j) = FillEntry(k) => j = k)'
  <2> SUFFICES ASSUME NEW j \in Lent', NEW k \in Lent', FillEntry(j)' = FillEntry(k)' PROVE j = k
    BY Zenon
  <2>0. ASSUME NEW x \in Lent, NEW y \in Top PROVE FillEntry(x)' # stack[y]
    <3>1. stack[y] \in S
      BY <1>10, Zenon
    <3>2. FillEntry(x)' \in LentFrames
      BY <1>4, Zenon DEF LentFrames
    <3> QED
      BY <3>1, <3>2, Zenon
  <2>1. CASE j \in Lent /\ k \in Lent
    <3>1. FillEntry(j) = FillEntry(k)
      BY <2>1, <1>4, Zenon
    <3> QED
      BY <2>1, <3>1, Zenon
  <2>2. CASE j \in Lent /\ k \notin Lent
    BY <2>0, <2>2, <1>6, Zenon
  <2>3. CASE j \notin Lent /\ k \in Lent
    BY <2>0, <2>3, <1>6, Zenon
  <2>4. CASE j \notin Lent /\ k \notin Lent
    <3>1. PICK x \in Top : j = c + (len - x) /\ FillEntry(j)' = stack[x]
      BY <2>4, <1>6, Zenon
    <3>2. PICK y \in Top : k = c + (len - y) /\ FillEntry(k)' = stack[y]
      BY <2>4, <1>6, Zenon
    <3>3. x \in DOMAIN stack /\ y \in DOMAIN stack
      BY <1>2, Zenon
    <3>4. x = y
      BY <3>1, <3>2, <3>3, Zenon
    <3> QED
      BY <3>1, <3>2, <3>4, Zenon
  <2> QED
    BY <2>1, <2>2, <2>3, <2>4, Zenon
<1>14. Invalid \notin FreeFrames'
  <2>1. ASSUME NEW v \in FreeFrames' PROVE v \in S
    <3>1. PICK j \in Rest : v = stack[j]
      BY <2>1, <1>8, Zenon
    <3> QED
      BY <3>1, <1>10, Zenon
  <2> HIDE DEF Invalid, FreeFrames
  <2> QED
    BY <2>1, Zenon
<1> QED
  BY <1>7, <1>11, <1>12, <1>13, <1>14, Zenon

(* Entries of the fill ring are reserved and filled with free frames. *)
LEMMA ReserveFrames == ASSUME LoopInv, FrameInv, ReserveStock PROVE FrameInv'
<1>0. /\ IoType /\ IndexInv /\ FramesAccounted /\ loop.pc = "reserve" /\ loop.pc # "idle" /\ loop \in Loop
      /\ Ahead(fill.ccons, fill.cprod) = loop.stock
  <2>1. "reserve" # "idle"
    OBVIOUS
  <2> QED
    BY <2>1, Zenon DEF LoopInv, IoType, FrameInv, ReserveStock
<1>1. PICK n \in Nat : n = loop.stock /\ n >= n
  BY <1>0, FrameTypes
<1>2. PICK c \in Nat : c = Ahead(fill.cprod, fill.cons)
  BY <1>0, FrameTypes, IndexType, Zenon
<1>3. c + n <= FillSize /\ c + n < Wrap
  <2>1. c + n <= FillSize
    BY <1>0, <1>1, <1>2, Zenon DEF IndexInv
  <2> QED
    BY <2>1, <1>0, FrameTypes
<1>4. LookFree(fill, n) = fill /\ NbFree(fill, n) = n
  BY <1>0, <1>1, Zenon DEF LookFree, NbFree
<1>5. Reserve(fill, n) = [fill EXCEPT !.cprod = Idx(@ + n)]
  <2>1. ~(n < n)
    BY <1>1
  <2> QED
    BY <2>1, <1>4, Zenon DEF Reserve
<1>6. /\ fill' = Put([fill EXCEPT !.cprod = Idx(@ + n)], fill.cprod, Alloc(free, n))
      /\ free' = AfterAlloc(free, n) /\ loop' = [loop EXCEPT !.pc = "submit"]
      /\ UNCHANGED <<skVars, rx, kept>>
  BY <1>1, <1>4, <1>5, Zenon DEF ReserveStock
<1>7. /\ fill'.cprod = Idx(fill.cprod + n) /\ fill'.cons = fill.cons /\ fill'.prod = fill.prod
      /\ fill'.ccons = fill.ccons /\ fill'.slot = Put(fill, fill.cprod, Alloc(free, n)).slot
  BY <1>0, <1>6, FrameTypes, Zenon DEF Put, Ring, Size
<1>8. Ahead(fill'.cprod, fill'.cons) = c + n
  <2>1. Ahead(fill.cprod, fill.cons) + n < Wrap /\ fill.cprod \in Index /\ fill.cons \in Index
    BY <1>0, <1>2, <1>3, FrameTypes, Zenon
  <2>2. Ahead(Idx(fill.cprod + n), fill.cons) = Ahead(fill.cprod, fill.cons) + n
    BY <2>1, ProducerMoves, Zenon
  <2> QED
    BY <2>2, <1>2, <1>7, Zenon
<1>9. Ahead(fill'.ccons, fill'.cprod) = 0
  <2>1. n <= Ahead(fill.ccons, fill.cprod) /\ fill.ccons \in Index /\ fill.cprod \in Index
    <3>1. n <= n
      BY <1>1
    <3> QED
      BY <3>1, <1>0, <1>1, FrameTypes, Zenon
  <2>2. Ahead(fill.ccons, Idx(fill.cprod + n)) = Ahead(fill.ccons, fill.cprod) - n
    BY <2>1, ConsumerMoves, Zenon
  <2>3. n - n = 0
    OBVIOUS
  <2> QED
    BY <2>2, <2>3, <1>0, <1>1, <1>7, Zenon
<1>10. /\ loop'.pc = "submit" /\ loop'.recvd = loop.recvd /\ loop'.done = loop.done
       /\ loop'.idx = loop.idx /\ loop'.stock = loop.stock /\ "submit" # "idle"
       /\ "reserve" # "submit"
  BY <1>0, <1>6 DEF Loop
<1>11. IndexInv'
  <2>1. fill.cprod = fill.prod /\ fill'.cprod = Idx(fill'.prod + loop'.stock)
    BY <1>0, <1>1, <1>7, <1>10, Zenon DEF IndexInv
  <2>2. Ahead(fill'.prod, fill'.cons) = c
    BY <2>1, <1>2, <1>7, Zenon
  <2>3. c <= c + n /\ (c + n) + 0 <= FillSize
    BY <1>3
  <2>4. /\ Ahead(fill'.prod, fill'.cons) <= Ahead(fill'.cprod, fill'.cons)
        /\ Ahead(fill'.cprod, fill'.cons) + Ahead(fill'.ccons, fill'.cprod) <= FillSize
    BY <2>2, <2>3, <1>8, <1>9, Zenon
  <2> QED
    BY <2>1, <2>4, <1>0, <1>6, <1>10, Zenon DEF IndexInv
<1>12. Serving # {} /\ Serving' = Serving /\ BareInv'
  BY <1>0, <1>6, InUse, Zenon
<1>13. PICK stack \in Seq(Int) : stack = free
  BY <1>0, FrameTypes, Zenon
<1>14. PICK S : S = {stack[k] : k \in DOMAIN stack}
  BY Zenon
<1>15. /\ S = FreeFrames /\ Invalid \notin S /\ S \intersect LentFrames = {}
       /\ \A k \in DOMAIN stack : stack[k] # Invalid
       /\ \A j, k \in DOMAIN stack : stack[j] = stack[k] => j = k
       /\ \A j, k \in Lent : FillEntry(j) = FillEntry(k) => j = k
  <2>1. S = FreeFrames
    BY <1>13, <1>14, Zenon DEF FreeFrames
  <2>2. Invalid \notin S /\ S \intersect LentFrames = {}
    BY <2>1, <1>0, Zenon DEF FrameInv, FramesAccounted
  <2>3. \A k \in DOMAIN stack : stack[k] # Invalid
    BY <2>2, <1>14, Zenon
  <2> QED
    BY <2>1, <2>2, <2>3, <1>0, <1>13, Zenon DEF FramesAccounted
<1>16. \E Rest, Top, len : StackMoves(stack, c, Rest, Top, len)
  <2>1. /\ \A k \in DOMAIN stack : stack[k] # Invalid
        /\ c + n <= FillSize /\ fill'.cons = fill.cons /\ Ahead(fill'.cprod, fill'.cons) = c + n
        /\ fill'.slot = Put(fill, fill.cprod, Alloc(stack, n)).slot /\ free' = AfterAlloc(stack, n)
    BY <1>3, <1>6, <1>7, <1>8, <1>13, <1>15, Zenon
  <2> QED
    BY <2>1, <1>0, <1>2, StackPlaces, Zenon
<1>17. /\ \A j, k \in DOMAIN free' : free'[j] = free'[k] => j = k
       /\ (\A j, k \in Lent : FillEntry(j) = FillEntry(k) => j = k)'
       /\ FreeFrames' \intersect LentFrames' = {}
       /\ FreeFrames' \union LentFrames' = S \union LentFrames /\ Invalid \notin FreeFrames'
  BY <1>14, <1>15, <1>16, StackLent, Zenon
<1>18. WaitingFrames' = WaitingFrames /\ (\A j, k \in Waiting : RxEntry(j) = RxEntry(k) => j = k)'
  <2>1. Waiting' = Waiting /\ WaitingFrames' = WaitingFrames /\ \A k : RxEntry(k)' = RxEntry(k)
    BY <1>6, <1>10, SameRx, Zenon
  <2> QED
    BY <2>1, <1>0, Zenon DEF FramesAccounted
<1>19. /\ FreeFrames' \intersect WaitingFrames' = {} /\ LentFrames' \intersect WaitingFrames' = {}
       /\ Held' = Held /\ Invalid \notin WaitingFrames'
  <2>1. /\ FreeFrames \intersect WaitingFrames = {} /\ LentFrames \intersect WaitingFrames = {}
        /\ FreeFrames' \union LentFrames' = FreeFrames \union LentFrames
        /\ WaitingFrames' = WaitingFrames /\ Invalid \notin WaitingFrames
    BY <1>0, <1>15, <1>17, <1>18, Zenon DEF FrameInv, FramesAccounted
  <2> QED
    BY <2>1, SMT DEF Held
<1> QED
  BY <1>6, <1>11, <1>12, <1>17, <1>18, <1>19, NoneLost, Zenon

(* What the kernel takes: m entries, the last of them a frame for the      *)
(* receive ring, or no frame.                                              *)
TakesFrame(m) ==
    /\ m > 0 /\ FillEntry(m - 1) # Invalid /\ (\A k \in 0 .. m - 2 : FillEntry(k) = Invalid)
    /\ ~KernelFull(rx) /\ rx' = KernelPut(rx, FillEntry(m - 1))

TakesNone(m) == rx' = rx /\ \A k \in 0 .. m - 1 : FillEntry(k) = Invalid

(* Every packet received is one of the two. *)
LEMMA KernelTakes ==
    ASSUME IoType, KernelReceive
    PROVE  \E m \in Nat : /\ m <= Ahead(fill.prod, fill.cons) /\ fill' = KernelTake(fill, m)
                          /\ TakesFrame(m) \/ TakesNone(m)
<1>1. PICK n \in Nat : n = Ahead(fill.prod, fill.cons)
  BY FrameTypes, IndexType, Zenon
<1>2. PICK a \in Int : a = fill.cons
  BY FrameTypes, Zenon
<1> DEFINE c == Contents(fill)
           lent == {k \in 1 .. Len(c) : c[k] # Invalid}
           over == IF lent = {} THEN Len(c) ELSE Min(lent) - 1
<1>3. c = [k \in 1 .. n |-> At(fill, a + k - 1)]
  BY <1>1, <1>2, Zenon DEF Contents
<1>4. Len(c) = n
  BY <1>3
<1>5. \A k \in 1 .. n : c[k] = FillEntry(k - 1)
  <2> SUFFICES ASSUME NEW k \in 1 .. n PROVE c[k] = FillEntry(k - 1)
    BY Zenon
  <2>1. a + k - 1 = a + (k - 1)
    OBVIOUS
  <2>2. c[k] = At(fill, a + k - 1)
    BY <1>3, Zenon
  <2> QED
    BY <2>1, <2>2, <1>2, Zenon DEF FillEntry
<1>6. lent \subseteq Nat /\ \A k : k \in lent <=> k \in 1 .. n /\ FillEntry(k - 1) # Invalid
  <2>1. \A k : k \in lent <=> k \in 1 .. n /\ FillEntry(k - 1) # Invalid
    BY <1>4, <1>5, Zenon
  <2> HIDE DEF lent
  <2> QED
    BY <2>1
<1>7. lent # {} => Min(lent) \in lent /\ \A y \in lent : Min(lent) <= y
  <2> SUFFICES ASSUME lent # {} PROVE Min(lent) \in lent /\ \A y \in lent : Min(lent) <= y
    BY Zenon
  <2>1. \E x \in lent : \A y \in lent : x <= y
    BY <1>6, LeastNat, Zenon
  <2> HIDE DEF lent
  <2> QED
    BY <2>1, Zenon DEF Min
<1>8. \/ lent # {} /\ ~KernelFull(rx) /\ rx' = KernelPut(rx, c[over + 1]) /\ fill' = KernelTake(fill, over + 1)
      \/ fill' = KernelTake(fill, over) /\ rx' = rx
  BY Zenon DEF KernelReceive
<1> HIDE DEF c
<1>9. CASE lent = {}
  <2>1. over = n /\ ~(lent # {})
    BY <1>4, <1>9, Zenon
  <2>2. n <= n /\ \A k \in 0 .. n - 1 : k + 1 \in 1 .. n /\ (k + 1) - 1 = k
    BY <1>1
  <2>3. \A k \in 0 .. n - 1 : FillEntry(k) = Invalid
    <3> SUFFICES ASSUME NEW k \in 0 .. n - 1, FillEntry(k) # Invalid PROVE FALSE
      BY Zenon
    <3>1. k + 1 \in lent
      BY <2>2, <1>6, Zenon
    <3> QED
      BY <3>1, <1>9, Zenon
  <2> HIDE DEF lent, over
  <2>4. fill' = KernelTake(fill, n) /\ TakesNone(n)
    BY <2>1, <2>3, <1>8, Zenon DEF TakesNone
  <2> QED
    BY <2>2, <2>4, <1>1, Zenon
<1>10. CASE lent # {}
  <2>0. over = Min(lent) - 1
    BY <1>10, Zenon
  <2>1. PICK l \in 1 .. n : /\ l = Min(lent) /\ FillEntry(l - 1) # Invalid /\ over = l - 1
                            /\ \A y \in lent : l <= y
    <3> HIDE DEF over, lent
    <3> QED
      BY <2>0, <1>6, <1>7, <1>10, Zenon
  <2> HIDE DEF over
  <2>2. /\ l \in Nat /\ l - 1 \in Nat /\ l <= n /\ l - 1 <= n /\ l > 0 /\ over + 1 = l
    BY <2>1
  <2>3. \A k \in 0 .. (l - 1) - 1 : FillEntry(k) = Invalid
    <3> SUFFICES ASSUME NEW k \in 0 .. (l - 1) - 1, FillEntry(k) # Invalid PROVE FALSE
      BY Zenon
    <3>1. k + 1 \in 1 .. n /\ (k + 1) - 1 = k /\ ~(l <= k + 1)
      BY <2>1
    <3>2. k + 1 \in lent
      BY <3>1, <1>6, Zenon
    <3> QED
      BY <3>1, <3>2, <2>1, Zenon
  <2>4. c[over + 1] = FillEntry(l - 1) /\ (l - 1) - 1 = l - 2
    <3>1. (l - 1) - 1 = l - 2
      BY <2>2
    <3> QED
      BY <3>1, <2>1, <2>2, <1>5, Zenon
  <2> HIDE DEF lent
  <2>5. CASE /\ ~KernelFull(rx) /\ rx' = KernelPut(rx, c[over + 1]) /\ fill' = KernelTake(fill, over + 1)
    <3>1. TakesFrame(l) /\ fill' = KernelTake(fill, l)
      BY <2>1, <2>2, <2>3, <2>4, <2>5, Zenon DEF TakesFrame
    <3> QED
      BY <3>1, <2>2, <1>1, Zenon
  <2>6. CASE fill' = KernelTake(fill, over) /\ rx' = rx
    <3>1. TakesNone(l - 1) /\ fill' = KernelTake(fill, l - 1)
      BY <2>1, <2>3, <2>6, Zenon DEF TakesNone
    <3> QED
      BY <3>1, <2>2, <1>1, Zenon
  <2> QED
    BY <2>5, <2>6, <1>8, Zenon
<1> QED
  BY <1>9, <1>10, Zenon

(* The kernel moves the consumer of the fill ring: the frames lent are     *)
(* those it did not take.                                                  *)
FillTaken(m) ==
    /\ \A k \in Lent' : k \in Nat /\ m + k \in Lent /\ FillEntry(k)' = FillEntry(m + k)
    /\ \A k \in Lent : k >= m => \E j \in Lent' : m + j = k /\ FillEntry(j)' = FillEntry(k)
    /\ \A j, k \in Lent' : m + j = m + k => j = k
    /\ \A k \in Lent : k \in Int /\ k \in 0 .. Ahead(fill.cprod, fill.cons) - 1

(* So they are, as the kernel takes no more than was submitted. *)
LEMMA TakeShifts ==
    ASSUME IoType, IndexInv, NEW m \in Nat, m <= Ahead(fill.prod, fill.cons), fill' = KernelTake(fill, m)
    PROVE  /\ FillTaken(m) /\ fill'.prod = fill.prod /\ fill'.cprod = fill.cprod /\ fill'.ccons = fill.ccons
           /\ Ahead(fill'.prod, fill'.cons) <= Ahead(fill'.cprod, fill'.cons)
           /\ Ahead(fill'.cprod, fill'.cons) + Ahead(fill'.ccons, fill'.cprod) <= FillSize
<1>1. PICK n \in Nat : n = Ahead(fill.prod, fill.cons)
  BY FrameTypes, IndexType, Zenon
<1>2. PICK o \in Nat : o = Ahead(fill.cprod, fill.cons)
  BY FrameTypes, IndexType, Zenon
<1>3. PICK g \in Nat : g = Ahead(fill.ccons, fill.cprod)
  BY FrameTypes, IndexType, Zenon
<1>4. m <= n /\ n <= o /\ o + g <= FillSize /\ m <= o
  <2>1. m <= n /\ n <= o /\ o + g <= FillSize
    BY <1>1, <1>2, <1>3, Zenon DEF IndexInv
  <2> QED
    BY <2>1
<1>5. /\ fill'.cons = Idx(fill.cons + m) /\ fill'.prod = fill.prod /\ fill'.cprod = fill.cprod
      /\ fill'.ccons = fill.ccons /\ fill'.slot = fill.slot
  BY FrameTypes, Zenon DEF KernelTake, Ring
<1>6. Ahead(fill'.prod, fill'.cons) = n - m /\ Ahead(fill'.cprod, fill'.cons) = o - m
  <2>1. /\ m <= Ahead(fill.prod, fill.cons) /\ m <= Ahead(fill.cprod, fill.cons)
        /\ fill.prod \in Index /\ fill.cprod \in Index /\ fill.cons \in Index
    BY <1>1, <1>2, <1>4, FrameTypes, Zenon
  <2>2. /\ Ahead(fill.prod, Idx(fill.cons + m)) = Ahead(fill.prod, fill.cons) - m
        /\ Ahead(fill.cprod, Idx(fill.cons + m)) = Ahead(fill.cprod, fill.cons) - m
    BY <2>1, ConsumerMoves, Zenon
  <2> QED
    BY <2>2, <1>1, <1>2, <1>5, Zenon
<1>7. /\ Ahead(fill'.prod, fill'.cons) <= Ahead(fill'.cprod, fill'.cons)
      /\ Ahead(fill'.cprod, fill'.cons) + Ahead(fill'.ccons, fill'.cprod) <= FillSize
  <2>1. n - m <= o - m /\ (o - m) + g <= FillSize
    BY <1>4, FrameTypes
  <2> QED
    BY <2>1, <1>3, <1>5, <1>6, Zenon
<1>8. \A k \in Int : FillEntry(k)' = FillEntry(m + k)
  BY <1>5, FillShift, Zenon
<1>9. /\ \A k : k \in Lent <=> k \in 0 .. o - 1 /\ FillEntry(k) # Invalid
      /\ \A k : k \in Lent' <=> k \in 0 .. (o - m) - 1 /\ FillEntry(k)' # Invalid
  BY <1>2, <1>6, Zenon DEF Lent
<1>10. ASSUME NEW k \in Lent' PROVE k \in Nat /\ m + k \in Lent /\ FillEntry(k)' = FillEntry(m + k)
  <2>1. k \in 0 .. (o - m) - 1 /\ FillEntry(k)' # Invalid
    BY <1>9, <1>10, Zenon
  <2>2. k \in Nat /\ k \in Int /\ m + k \in 0 .. o - 1
    BY <2>1, <1>4
  <2>3. FillEntry(k)' = FillEntry(m + k)
    BY <2>2, <1>8, Zenon
  <2> QED
    BY <2>1, <2>2, <2>3, <1>9, Zenon
<1>11. ASSUME NEW k \in Lent, k >= m PROVE \E j \in Lent' : m + j = k /\ FillEntry(j)' = FillEntry(k)
  <2>1. k \in 0 .. o - 1 /\ FillEntry(k) # Invalid
    BY <1>9, <1>11, Zenon
  <2>2. PICK j \in 0 .. (o - m) - 1 : m + j = k
    BY <2>1, <1>4, <1>11
  <2>3. j \in Int
    BY <2>2
  <2>4. FillEntry(j)' = FillEntry(k)
    BY <2>2, <2>3, <1>8, Zenon
  <2> QED
    BY <2>1, <2>2, <2>4, <1>9, Zenon
<1>12. \A j, k \in Lent' : m + j = m + k => j = k
  <2>1. ASSUME NEW j \in Nat, NEW k \in Nat, m + j = m + k PROVE j = k
    BY <2>1
  <2> QED
    BY <2>1, <1>10, Zenon
<1>13. \A k \in Lent : k \in Int /\ k \in 0 .. o - 1
  <2>1. \A k \in 0 .. o - 1 : k \in Int
    OBVIOUS
  <2> QED
    BY <2>1, <1>9, Zenon
<1>14. FillTaken(m)
  BY <1>2, <1>10, <1>11, <1>12, <1>13, Zenon DEF FillTaken
<1> QED
  BY <1>5, <1>7, <1>14, Zenon

(* The frames lent lose those in the entries that were taken. *)
LEMMA LentTaken ==
    ASSUME NEW m \in Nat, FillTaken(m), NEW G, G = {FillEntry(k) : k \in {i \in Lent : i < m}},
           \A j, k \in Lent : FillEntry(j) = FillEntry(k) => j = k
    PROVE  LentFrames' = LentFrames \ G /\ (\A j, k \in Lent : FillEntry(j) = FillEntry(k) => j = k)'
<1>1. \A k \in Lent' : k \in Nat /\ m + k \in Lent /\ FillEntry(k)' = FillEntry(m + k)
  BY Zenon DEF FillTaken
<1>2. ASSUME NEW v \in LentFrames' PROVE v \in LentFrames /\ v \notin G
  <2>1. PICK k \in Lent' : v = FillEntry(k)'
    BY <1>2, Zenon DEF LentFrames
  <2>2. m + k \in Lent /\ v = FillEntry(m + k) /\ k \in Nat
    BY <2>1, <1>1, Zenon
  <2>3. ~(m + k < m)
    BY <2>2
  <2>4. v \in LentFrames
    BY <2>2, Zenon DEF LentFrames
  <2>5. SUFFICES ASSUME v \in G PROVE FALSE
    BY <2>4, Zenon
  <2>6. PICK i \in Lent : i < m /\ v = FillEntry(i)
    BY <2>5, Zenon
  <2> QED
    BY <2>2, <2>3, <2>6, Zenon
<1>3. ASSUME NEW v \in LentFrames, v \notin G PROVE v \in LentFrames'
  <2>1. PICK k \in Lent : v = FillEntry(k)
    BY <1>3, Zenon DEF LentFrames
  <2>2. ~(k < m) /\ k \in Int
    BY <2>1, <1>3, Zenon DEF FillTaken
  <2>3. k >= m
    BY <2>2
  <2>4. PICK j \in Lent' : FillEntry(j)' = FillEntry(k)
    BY <2>3, Zenon DEF FillTaken
  <2> QED
    BY <2>1, <2>4, Zenon DEF LentFrames
<1>4. (\A j, k \in Lent : FillEntry(j) = FillEntry(k) => j = k)'
  <2>1. \A j, k \in Lent' : m + j = m + k => j = k
    BY Zenon DEF FillTaken
  <2> QED
    BY <2>1, <1>1, Zenon
<1> QED
  BY <1>2, <1>3, <1>4, Zenon

(* The kernel puts a frame behind those that wait in the receive ring. *)
RxGets(v) ==
    /\ rx'.cons = rx.cons /\ rx'.cprod = rx.cprod /\ rx'.ccons = rx.ccons
    /\ Ahead(rx.cprod, rx.cons) <= Ahead(rx'.prod, rx.cons) /\ Ahead(rx'.prod, rx.cons) <= RxSize
    /\ \E n : /\ n \notin Waiting /\ Waiting' = Waiting \union {n}
              /\ RxEntry(n)' = v /\ \A k \in Waiting : RxEntry(k)' = RxEntry(k)

(* So it does, when the ring is not full: nothing waiting is overwritten. *)
LEMMA PutWaits ==
    ASSUME IoType, IndexInv, NEW v \in Int, ~KernelFull(rx), rx' = KernelPut(rx, v), loop' = loop
    PROVE  RxGets(v)
<1>1. PICK n \in Nat : n = Ahead(rx.prod, rx.cons)
  BY FrameTypes, IndexType, Zenon
<1>2. PICK o \in Nat : o = Ahead(rx.cprod, rx.cons)
  BY FrameTypes, IndexType, Zenon
<1>3. PICK d \in Nat : d = loop.done /\ d <= n
  <2>1. PICK d \in Nat, e \in Nat : d = loop.done /\ e = loop.recvd /\ d <= e /\ e <= o /\ o <= n
    BY <1>1, <1>2, Zenon DEF IndexInv
  <2>2. d <= n
    BY <2>1
  <2> QED
    BY <2>1, <2>2, Zenon
<1>4. o <= n /\ n <= RxSize /\ n # RxSize
  BY <1>1, <1>2, FrameTypes, Zenon DEF IndexInv, KernelFull
<1>5. n + 1 <= RxSize /\ n + 1 < Wrap /\ o <= n + 1
  <2>1. RxSize \in Nat /\ Wrap \in Nat /\ RxSize < Wrap
    BY XskAssumption
  <2> QED
    BY <2>1, <1>4
<1>6. PICK es \in Seq(Int) : es = <<v>> /\ Len(es) = 1 /\ es[1] = v
  <2>1. <<v>> \in Seq(Int) /\ Len(<<v>>) = 1 /\ <<v>>[1] = v
    OBVIOUS
  <2> QED
    BY <2>1, Zenon
<1>7. PICK a \in Int : a = rx.cons /\ rx.prod = Idx(a + n)
  <2>1. rx.cons \in Int /\ rx.cons \in Index /\ rx.prod \in Index /\ 0 \in Nat
    BY FrameTypes
  <2>2. rx.prod = Idx(rx.cons + n)
    BY <2>1, <1>1, AheadMoves, Zenon
  <2> QED
    BY <2>1, <2>2, Zenon
<1>8. /\ rx'.cons = rx.cons /\ rx'.cprod = rx.cprod /\ rx'.ccons = rx.ccons
      /\ rx'.prod = Idx(rx.prod + 1) /\ rx'.slot = Put(rx, Idx(a + n), es).slot
  BY <1>6, <1>7, FrameTypes, Zenon DEF KernelPut, Submit, Put, Ring
<1>9. Ahead(rx'.prod, rx.cons) = n + 1
  <2>1. Ahead(rx.prod, rx.cons) + 1 < Wrap /\ rx.prod \in Index /\ rx.cons \in Index /\ 1 \in Nat
    BY <1>1, <1>5, FrameTypes, Zenon
  <2>2. Ahead(Idx(rx.prod + 1), rx.cons) = Ahead(rx.prod, rx.cons) + 1
    BY <2>1, ProducerMoves, Zenon
  <2> QED
    BY <2>2, <1>1, <1>8, Zenon
<1>10. \A k : RxEntry(k)' = At(Put(rx, Idx(a + n), es), a + k)
  BY <1>7, <1>8, Zenon DEF RxEntry, At, Size
<1>11. /\ RxSize \in Nat \ {0} /\ Wrap % RxSize = 0 /\ rx \in Ring(RxSize) /\ n + Len(es) <= RxSize
       /\ n + Len(es) = n + 1
  BY <1>5, <1>6, FrameTypes, Zenon
<1>12. RxEntry(n)' = v
  <2>1. n < n + Len(es) /\ n >= n /\ n - n + 1 = 1
    BY <1>11
  <2>2. PutFits(RxSize, rx, a, n, es, n)
    BY <2>1, <1>11, PutBehind, Zenon
  <2>3. At(Put(rx, Idx(a + n), es), a + n) = es[n - n + 1]
    BY <2>1, <2>2, Zenon DEF PutFits
  <2> QED
    BY <2>1, <2>3, <1>6, <1>10, Zenon
<1>13. Waiting = d .. n - 1 /\ Waiting' = d .. (n + 1) - 1
  BY <1>1, <1>3, <1>8, <1>9, Zenon DEF Waiting
<1>14. n \notin Waiting /\ Waiting' = Waiting \union {n} /\ \A k \in Waiting : k \in Nat /\ k < n
  BY <1>3, <1>13
<1>15. ASSUME NEW k \in Waiting PROVE RxEntry(k)' = RxEntry(k)
  <2>1. k \in Nat /\ k < n
    BY <1>14, Zenon
  <2>2. k < n + Len(es)
    BY <2>1, <1>11
  <2>3. PutFits(RxSize, rx, a, n, es, k)
    BY <2>1, <2>2, <1>11, PutBehind, Zenon
  <2> QED
    BY <2>1, <2>3, <1>7, <1>10, Zenon DEF RxEntry, PutFits
<1>16. Ahead(rx.cprod, rx.cons) <= Ahead(rx'.prod, rx.cons) /\ Ahead(rx'.prod, rx.cons) <= RxSize
  BY <1>2, <1>5, <1>9, Zenon
<1> QED
  BY <1>8, <1>12, <1>14, <1>15, <1>16, Zenon DEF RxGets

(* What waits after it. *)
LEMMA WaitMore ==
    ASSUME NEW v, RxGets(v), v \notin WaitingFrames,
           \A j, k \in Waiting : RxEntry(j) = RxEntry(k) => j = k
    PROVE  /\ WaitingFrames' = WaitingFrames \union {v}
           /\ (\A j, k \in Waiting : RxEntry(j) = RxEntry(k) => j = k)'
<1>1. PICK n : /\ n \notin Waiting /\ Waiting' = Waiting \union {n}
               /\ RxEntry(n)' = v /\ \A k \in Waiting : RxEntry(k)' = RxEntry(k)
  BY Zenon DEF RxGets
<1>2. ASSUME NEW x \in WaitingFrames' PROVE x \in WaitingFrames \union {v}
  <2>1. PICK k \in Waiting' : x = RxEntry(k)'
    BY <1>2, Zenon DEF WaitingFrames
  <2>2. CASE k \in Waiting
    BY <2>1, <2>2, <1>1, Zenon DEF WaitingFrames
  <2> QED
    BY <2>1, <2>2, <1>1, Zenon
<1>3. ASSUME NEW x \in WaitingFrames PROVE x \in WaitingFrames'
  <2>1. PICK k \in Waiting : x = RxEntry(k)
    BY <1>3, Zenon DEF WaitingFrames
  <2>2. k \in Waiting' /\ x = RxEntry(k)'
    BY <2>1, <1>1, Zenon
  <2> QED
    BY <2>2, Zenon DEF WaitingFrames
<1>4. v \in WaitingFrames'
  <2>1. n \in Waiting'
    BY <1>1, Zenon
  <2> QED
    BY <2>1, <1>1, Zenon DEF WaitingFrames
<1>5. \A k \in Waiting : RxEntry(k)' # v
  BY <1>1, Zenon DEF WaitingFrames
<1>6. (\A j, k \in Waiting : RxEntry(j) = RxEntry(k) => j = k)'
  <2>1. ASSUME NEW j \in Waiting', NEW k \in Waiting', RxEntry(j)' = RxEntry(k)' PROVE j = k
    <3>1. CASE j \in Waiting /\ k \in Waiting
      BY <2>1, <3>1, <1>1, Zenon
    <3>2. CASE j = n
      BY <2>1, <3>2, <1>1, <1>5, Zenon
    <3>3. CASE k = n
      BY <2>1, <3>3, <1>1, <1>5, Zenon
    <3> QED
      BY <3>1, <3>2, <3>3, <1>1, Zenon
  <2> QED
    BY <2>1, Zenon
<1> QED
  BY <1>2, <1>3, <1>4, <1>6, Zenon

(* The kernel receives: a frame passes from the fill ring to the receive   *)
(* ring, or entries without one are passed over.                           *)
LEMMA KernelFrames == ASSUME LoopInv, FrameInv, KernelReceive PROVE FrameInv'
<1>0. IoType /\ IndexInv /\ FramesAccounted /\ Serving # {}
  BY Zenon DEF LoopInv, FrameInv, KernelReceive
<1>1. UNCHANGED <<skVars, free, loop, kept>>
  BY Zenon DEF KernelReceive
<1>2. PICK m \in Nat : /\ m <= Ahead(fill.prod, fill.cons) /\ fill' = KernelTake(fill, m)
                       /\ TakesFrame(m) \/ TakesNone(m)
  BY <1>0, KernelTakes, Zenon
<1>3. /\ FillTaken(m) /\ fill'.prod = fill.prod /\ fill'.cprod = fill.cprod /\ fill'.ccons = fill.ccons
      /\ Ahead(fill'.prod, fill'.cons) <= Ahead(fill'.cprod, fill'.cons)
      /\ Ahead(fill'.cprod, fill'.cons) + Ahead(fill'.ccons, fill'.cprod) <= FillSize
  BY <1>0, <1>2, TakeShifts, Zenon
<1>4. Serving' = Serving /\ BareInv'
  BY <1>0, <1>1, InUse, Zenon
<1>5. FreeFrames' = FreeFrames /\ \A j, k \in DOMAIN free' : free'[j] = free'[k] => j = k
  BY <1>0, <1>1, Zenon DEF FreeFrames, FramesAccounted
<1>6. /\ \A j, k \in Lent : FillEntry(j) = FillEntry(k) => j = k
      /\ \A j, k \in Waiting : RxEntry(j) = RxEntry(k) => j = k
      /\ FreeFrames \intersect LentFrames = {} /\ FreeFrames \intersect WaitingFrames = {}
      /\ LentFrames \intersect WaitingFrames = {} /\ Invalid \notin FreeFrames
      /\ Invalid \notin WaitingFrames
  BY <1>0, Zenon DEF FramesAccounted, FrameInv
<1>7. PICK G : G = {FillEntry(k) : k \in {i \in Lent : i < m}}
  BY Zenon
<1>8. LentFrames' = LentFrames \ G /\ (\A j, k \in Lent : FillEntry(j) = FillEntry(k) => j = k)'
  BY <1>3, <1>6, <1>7, LentTaken, Zenon
<1>9. CASE TakesNone(m)
  <2>1. rx' = rx /\ \A k \in 0 .. m - 1 : FillEntry(k) = Invalid
    BY <1>9, Zenon DEF TakesNone
  <2>2. \A k \in Lent : ~(k < m)
    <3> SUFFICES ASSUME NEW k \in Lent, k < m PROVE FALSE
      BY Zenon
    <3>1. k \in 0 .. Ahead(fill.cprod, fill.cons) - 1 /\ FillEntry(k) # Invalid
      BY Zenon DEF Lent
    <3>2. k \in 0 .. m - 1
      BY <3>1
    <3> QED
      BY <3>1, <3>2, <2>1, Zenon
  <2>3. G = {}
    BY <2>2, <1>7, Zenon
  <2>4. /\ WaitingFrames' = WaitingFrames
        /\ (\A j, k \in Waiting : RxEntry(j) = RxEntry(k) => j = k)'
    <3>1. Waiting' = Waiting /\ WaitingFrames' = WaitingFrames /\ \A k : RxEntry(k)' = RxEntry(k)
      BY <2>1, <1>1, SameRx, Zenon
    <3> QED
      BY <3>1, <1>6, Zenon
  <2>5. LentFrames' = LentFrames
    BY <2>3, <1>8, Zenon
  <2>6. Held' = Held
    BY <2>4, <2>5, <1>5, Zenon DEF Held
  <2>7. IndexInv'
    BY <2>1, <1>0, <1>1, <1>3, Zenon DEF IndexInv
  <2>8. /\ FreeFrames' \intersect LentFrames' = {} /\ FreeFrames' \intersect WaitingFrames' = {}
        /\ LentFrames' \intersect WaitingFrames' = {} /\ Invalid \notin FreeFrames'
        /\ Invalid \notin WaitingFrames'
    BY <2>4, <2>5, <1>5, <1>6, Zenon
  <2> QED
    BY <2>4, <2>6, <2>7, <2>8, <1>0, <1>1, <1>4, <1>5, <1>8, NoneLost, Zenon
<1>10. CASE TakesFrame(m)
  <2>1. PICK v : v = FillEntry(m - 1)
    BY Zenon
  <2>2. /\ m > 0 /\ v # Invalid /\ (\A k \in 0 .. m - 2 : FillEntry(k) = Invalid)
        /\ ~KernelFull(rx) /\ rx' = KernelPut(rx, v)
    BY <2>1, <1>10, Zenon DEF TakesFrame
  <2>3. m - 1 \in Lent /\ v \in Int /\ m - 1 < m
    <3>1. Ahead(fill.prod, fill.cons) \in Int /\ Ahead(fill.cprod, fill.cons) \in Int /\ fill.cons \in Int
      BY <1>0, FrameTypes, IndexType, Zenon
    <3>2. Ahead(fill.prod, fill.cons) <= Ahead(fill.cprod, fill.cons)
      BY <1>0, Zenon DEF IndexInv
    <3>3. m - 1 \in 0 .. Ahead(fill.cprod, fill.cons) - 1 /\ fill.cons + (m - 1) \in Int /\ m - 1 < m
      BY <3>1, <3>2, <2>2, <1>2
    <3>4. v \in Int
      BY <3>3, <2>1, <1>0, FrameTypes, SlotType, Zenon DEF FillEntry
    <3> QED
      BY <3>3, <3>4, <2>1, <2>2, Zenon DEF Lent
  <2>4. \A k \in Lent : k < m => k = m - 1
    <3> SUFFICES ASSUME NEW k \in Lent, k < m, k # m - 1 PROVE FALSE
      BY Zenon
    <3>1. k \in 0 .. Ahead(fill.cprod, fill.cons) - 1 /\ FillEntry(k) # Invalid
      BY Zenon DEF Lent
    <3>2. k \in 0 .. m - 2
      BY <3>1, <2>2
    <3> QED
      BY <3>1, <3>2, <2>2, Zenon
  <2>5. G = {v}
    BY <2>1, <2>3, <2>4, <1>7, Zenon
  <2>6. v \in LentFrames /\ v \notin WaitingFrames
    <3>1. v \in LentFrames
      BY <2>1, <2>3, Zenon DEF LentFrames
    <3> QED
      BY <3>1, <1>6, Zenon
  <2>7. RxGets(v)
    BY <2>2, <2>3, <1>0, <1>1, PutWaits, Zenon
  <2>8. /\ WaitingFrames' = WaitingFrames \union {v}
        /\ (\A j, k \in Waiting : RxEntry(j) = RxEntry(k) => j = k)'
    BY <2>6, <2>7, <1>6, WaitMore, Zenon
  <2>9. /\ FreeFrames' \intersect LentFrames' = {} /\ FreeFrames' \intersect WaitingFrames' = {}
        /\ LentFrames' \intersect WaitingFrames' = {} /\ Invalid \notin FreeFrames'
        /\ Invalid \notin WaitingFrames' /\ Held' = Held
    <3>1. /\ FreeFrames' = FreeFrames /\ LentFrames' = LentFrames \ {v}
          /\ WaitingFrames' = WaitingFrames \union {v}
      BY <2>5, <2>8, <1>5, <1>8, Zenon
    <3> QED
      BY <3>1, <2>2, <2>6, <1>6, SMT DEF Held
  <2>10. IndexInv'
    <3>1. /\ rx'.cons = rx.cons /\ rx'.cprod = rx.cprod /\ rx'.ccons = rx.ccons
          /\ Ahead(rx.cprod, rx.cons) <= Ahead(rx'.prod, rx.cons) /\ Ahead(rx'.prod, rx.cons) <= RxSize
      BY <2>7, Zenon DEF RxGets
    <3> QED
      BY <3>1, <1>0, <1>1, <1>3, Zenon DEF IndexInv
  <2> QED
    BY <2>8, <2>9, <2>10, <1>0, <1>1, <1>4, <1>5, <1>8, NoneLost, Zenon
<1> QED
  BY <1>2, <1>9, <1>10, Zenon

(* No step of the launcher or of a creation puts a socket to use. *)
LEMMA NoneServing ==
    ASSUME SkInv, SocketStep
    PROVE  Serving' \subseteq Serving
<1> SUFFICES ASSUME NEW t \in Socks, sk'[t].pc = "ready" PROVE sk[t].pc = "ready"
  BY Zenon DEF Serving
<1>0. sk \in [Socks -> Sock]
  BY Zenon DEF SkInv, SkType
<1>1. CASE LauncherAttach \/ LauncherDetach
  <2>1. sk'[t] = [sk[t] EXCEPT !.calm = FALSE] /\ sk[t] \in Sock
    BY <1>0, <1>1, Zenon DEF LauncherAttach, LauncherDetach, Disturbed
  <2> QED
    BY <2>1, Zenon DEF Sock
<1>2. CASE UmemCreate \/ UmemDelete
  BY <1>2, Zenon DEF UmemCreate, UmemDelete
<1>3. ASSUME NEW s \in Socks,
             \/ \E inhibit \in BOOLEAN : SocketBegin(s, inhibit)
             \/ SocketConfig(s) \/ SetupLook(s) \/ SetupLoad(s)
             \/ SetupGet(s) \/ SetupSet(s) \/ NotReady(s)
      PROVE  sk[t].pc = "ready"
  <2>0. sk[s] \in Sock
    BY <1>0, Zenon
  <2>1. ASSUME NEW o, o.pc # "ready", sk' = [sk EXCEPT ![s] = o] PROVE sk[t].pc = "ready"
    BY <2>1, <1>0, Zenon
  <2>2. ASSUME sk' = [sk EXCEPT ![s] = NoSock] PROVE sk[t].pc = "ready"
    <3>1. NoSock.pc # "ready"
      BY DEF NoSock
    <3> QED
      BY <3>1, <2>1, <2>2, Zenon
  <2>3. ASSUME NEW p, p # "ready", sk' = [sk EXCEPT ![s].pc = p] PROVE sk[t].pc = "ready"
    <3>1. PICK o : o = [sk[s] EXCEPT !.pc = p]
      BY Zenon
    <3>2. o.pc = p /\ sk' = [sk EXCEPT ![s] = o]
      BY <2>0, <2>3, <3>1, Zenon DEF Sock
    <3> QED
      BY <3>2, <2>1, <2>3, Zenon
  <2>4. /\ "set" # "ready" /\ "live" # "ready" /\ "failed" # "ready" /\ "look" # "ready"
        /\ "load" # "ready" /\ "get" # "ready" /\ "config" # "ready"
    OBVIOUS
  <2>5. CASE \E inhibit \in BOOLEAN : SocketBegin(s, inhibit)
    <3>1. PICK inhibit \in BOOLEAN : SocketBegin(s, inhibit)
      BY <2>5, Zenon
    <3>2. CASE UNCHANGED sk
      BY <3>2, Zenon
    <3>3. PICK o : o = [NoSock EXCEPT !.pc = "config", !.inhibit = inhibit, !.own = umem.refs > 0]
      BY Zenon
    <3>4. o.pc = "config"
      BY <3>3 DEF NoSock
    <3>5. CASE sk' = [sk EXCEPT ![s] = o]
      BY <3>4, <3>5, <2>1, <2>4, Zenon
    <3> QED
      BY <3>1, <3>2, <3>3, <3>5, Zenon DEF SocketBegin
  <2>6. CASE SocketConfig(s)
    <3>1. PICK p : p = IF sk[s].inhibit THEN "live" ELSE "look"
      BY Zenon
    <3> QED
      BY <2>6, <3>1, <2>2, <2>3, <2>4, Zenon DEF SocketConfig, Unwind
  <2>7. CASE SetupLook(s)
    <3>1. PICK p : p = IF att = 0 THEN "load" ELSE "get"
      BY Zenon
    <3>2. PICK o : o = [sk[s] EXCEPT !.pc = p, !.prog = att, !.calm = TRUE]
      BY Zenon
    <3>3. o.pc = p /\ p # "ready"
      BY <2>0, <2>4, <3>1, <3>2, Zenon DEF Sock
    <3>4. CASE sk' = [sk EXCEPT ![s].pc = p, ![s].prog = att, ![s].calm = TRUE]
      <4>1. sk' = [sk EXCEPT ![s] = o]
        BY <1>0, <2>0, <3>2, <3>4 DEF Sock
      <4> QED
        BY <4>1, <3>3, <2>1, Zenon
    <3> QED
      BY <2>7, <3>1, <3>4, <2>2, Zenon DEF SetupLook, Unwind
  <2>8. CASE SetupLoad(s)
    <3>1. PICK o : o = [sk[s] EXCEPT !.pc = "set", !.prog = Len(kinds) + 1]
      BY Zenon
    <3>2. o.pc # "ready"
      BY <2>0, <2>4, <3>1, Zenon DEF Sock
    <3>3. CASE sk' = [sk EXCEPT ![s].pc = "set", ![s].prog = Len(kinds) + 1]
      <4>1. sk' = [sk EXCEPT ![s] = o]
        BY <1>0, <2>0, <3>1, <3>3 DEF Sock
      <4> QED
        BY <4>1, <3>2, <2>1, Zenon
    <3> QED
      BY <2>8, <3>3, <2>2, Zenon DEF SetupLoad, Unwind
  <2>9. CASE SetupGet(s) \/ SetupSet(s) \/ NotReady(s)
    BY <2>9, <2>2, <2>3, <2>4, Zenon DEF SetupGet, SetupSet, NotReady, Unwind
  <2> QED
    BY <1>3, <2>5, <2>6, <2>7, <2>8, <2>9, Zenon
<1> QED
  BY <1>1, <1>2, <1>3, Zenon DEF SocketStep

(* The sockets come and go around those in use. *)
LEMMA SocketFrames == ASSUME SkInv, FrameInv, SocketStep PROVE FrameInv'
<1>1. Serving' = Serving
  BY StillServing, NoneServing, Zenon
<1>2. UNCHANGED <<free, fill, rx, loop, kept>>
  BY Zenon DEF SocketStep, ioVars
<1>3. IndexInv' /\ BareInv'
  BY <1>1, <1>2, Zenon DEF FrameInv, IndexInv, BareInv
<1> QED
  BY <1>1, <1>2, <1>3, SameFrames, Zenon

(* The rings and the loop while no socket is in use. *)
Bare == free = << >> /\ fill = NewFill /\ rx = NewRx /\ loop = Idle /\ kept = 0

(* No frame is anywhere then. *)
LEMMA BarePlaces ==
    ASSUME Bare
    PROVE  /\ IndexInv /\ FreeFrames = {} /\ LentFrames = {} /\ WaitingFrames = {}
           /\ DOMAIN free = {} /\ Lent = {} /\ Waiting = {}
           /\ Ahead(fill.cprod, fill.cons) = 0 /\ Ahead(fill.ccons, fill.cprod) = FillSize
<1>1. free = << >> /\ fill = NewFill /\ rx = NewRx /\ loop = Idle
  BY Zenon DEF Bare
<1>2. /\ fill.prod = 0 /\ fill.cons = 0 /\ fill.cprod = 0 /\ fill.ccons = FillSize
      /\ rx.prod = 0 /\ rx.cons = 0 /\ rx.cprod = 0 /\ rx.ccons = 0
  BY <1>1, Zenon DEF NewFill, NewRx, NewRing
<1>3. loop.pc = "idle" /\ loop.done = 0 /\ loop.recvd = 0 /\ "idle" # "submit"
  BY <1>1 DEF Idle
<1>4. FillSize \in Nat /\ RxSize \in Nat /\ Wrap \in Nat /\ FillSize < Wrap /\ Wrap > 0
  BY XskAssumption
<1>5. Ahead(0, 0) = 0 /\ Idx(0 + 0) = 0 /\ Ahead(FillSize, 0) = FillSize
  <2>1. \A x \in Nat : x < Wrap => x % Wrap = x
    BY <1>4
  <2>2. 0 - 0 = 0 /\ 0 + 0 = 0 /\ FillSize - 0 = FillSize /\ 0 \in Nat /\ 0 < Wrap
    BY <1>4
  <2> QED
    BY <2>1, <2>2, <1>4, Zenon DEF Ahead, Idx
<1>6. 0 <= 0 /\ 0 + FillSize <= FillSize /\ 0 <= RxSize /\ 0 \in Nat
  BY <1>4
<1>7. IndexInv
  BY <1>1, <1>2, <1>3, <1>5, <1>6, Zenon DEF IndexInv
<1>8. Lent = {} /\ Waiting = {}
  <2>1. 0 .. 0 - 1 = {}
    OBVIOUS
  <2> QED
    BY <2>1, <1>2, <1>3, <1>5, Zenon DEF Lent, Waiting
<1>9. DOMAIN free = {}
  BY <1>1
<1>10. FreeFrames = {} /\ LentFrames = {} /\ WaitingFrames = {}
  BY <1>8, <1>9, Zenon DEF FreeFrames, LentFrames, WaitingFrames
<1> QED
  BY <1>2, <1>5, <1>7, <1>8, <1>9, <1>10, Zenon

(* The account of nothing. *)
LEMMA BareFrames == Bare /\ Serving = {} => FrameInv
<1> SUFFICES ASSUME Bare, Serving = {} PROVE FrameInv
  BY Zenon
<1>1. /\ IndexInv /\ FreeFrames = {} /\ LentFrames = {} /\ WaitingFrames = {}
      /\ DOMAIN free = {} /\ Lent = {} /\ Waiting = {}
  BY BarePlaces, Zenon
<1>2. BareInv /\ kept \in Nat
  <2>1. 0 \in Nat
    OBVIOUS
  <2> QED
    BY <2>1, Zenon DEF BareInv, Bare
<1>3. FramesAccounted
  BY <1>1, Zenon DEF FramesAccounted
<1>4. IsFiniteSet(Held)
  <2>1. Held = {}
    BY <1>1 DEF Held
  <2> QED
    BY <2>1, FS_EmptySet, Zenon
<1> QED
  BY <1>1, <1>2, <1>3, <1>4, Zenon DEF FrameInv

(* The socket in use is closed, with all its frames, or others are. *)
LEMMA CloseFrames == ASSUME SkInv, FrameInv, Close PROVE FrameInv'
<1>1. CASE Serving' = Serving
  <2>1. UNCHANGED <<free, fill, rx, loop, kept>>
    BY <1>1, Zenon DEF Close
  <2>2. IndexInv' /\ BareInv'
    BY <1>1, <2>1, Zenon DEF FrameInv, IndexInv, BareInv
  <2> QED
    BY <1>1, <2>1, <2>2, SameFrames, Zenon
<1>2. CASE Serving' # Serving
  <2>1. Bare'
    BY <1>2, Zenon DEF Close, Bare
  <2>2. Serving' = {}
    <3>0. NoSock.pc # "ready" /\ "ready" # "none" /\ sk \in [Socks -> Sock]
      BY DEF NoSock, SkInv, SkType
    <3>1. CASE AppExit
      <4>1. \A t \in Socks : sk'[t] = NoSock
        BY <3>1, Zenon DEF AppExit
      <4> QED
        BY <4>1, <3>0, Zenon DEF Serving
    <3>2. ASSUME NEW s \in Socks, SocketDelete(s) PROVE Serving' = {}
      <4>1. sk' = [sk EXCEPT ![s] = NoSock]
        BY <3>2, Zenon DEF SocketDelete
      <4>2. Serving' = Serving \ {s}
        BY <3>0, <4>1, Zenon DEF Serving
      <4>3. s \in Serving
        BY <4>2, <1>2, Zenon
      <4>4. \A t \in Serving : t \in Used /\ ~sk[t].inhibit
        BY <3>0, Zenon DEF SkInv, MakeInv, Serving, Used
      <4>5. \A t \in Serving : t = s
        BY <4>3, <4>4, Zenon DEF SkInv, MakeInv
      <4> QED
        BY <4>2, <4>5, Zenon
    <3> QED
      BY <3>1, <3>2, Zenon DEF Close
  <2>3. (Bare /\ Serving = {} => FrameInv)'
    BY BareFrames, PTL
  <2> QED
    BY <2>1, <2>2, <2>3, Zenon
<1> QED
  BY <1>1, <1>2, Zenon

(* A socket is put to use while none is. *)
LEMMA ConfigureFirst ==
    ASSUME SkInv, NEW s \in Socks, Configure(s)
    PROVE  Serving = {} /\ Serving' # {}
<1>1. sk[s].pc = "live" /\ ~sk[s].inhibit /\ sk' = [sk EXCEPT ![s].pc = "ready"]
  BY Zenon DEF Configure, Ready
<1>2. "live" # "none" /\ "ready" # "none" /\ "live" # "ready"
  OBVIOUS
<1>3. ASSUME NEW t \in Socks, sk[t].pc = "ready" PROVE FALSE
  <2>1. ~sk[t].inhibit
    BY <1>3, Zenon DEF SkInv, MakeInv
  <2>2. s = t
    BY <2>1, <1>1, <1>2, <1>3, Zenon DEF SkInv, MakeInv, Used
  <2> QED
    BY <2>2, <1>1, <1>2, <1>3, Zenon
<1>4. sk'[s].pc = "ready"
  <2>1. sk \in [Socks -> Sock] /\ sk[s] \in Sock
    BY Zenon DEF SkInv, SkType
  <2> QED
    BY <2>1, <1>1, Zenon DEF Sock
<1> QED
  BY <1>3, <1>4, Zenon DEF Serving

(* All frames are free, then the first of them lent: the account opens. *)
LEMMA ConfigureFrames ==
    ASSUME SkInv, LoopInv, FrameInv, NEW s \in Socks, Configure(s)
    PROVE  FrameInv'
<1>0. IoType /\ Serving = {} /\ Serving' # {} /\ BareInv'
  BY ConfigureFirst, Zenon DEF LoopInv, BareInv
<1>1. Bare
  BY <1>0, Zenon DEF FrameInv, BareInv, Bare
<1>2. PICK n \in Nat : n = FillSize /\ n < Wrap /\ n >= n /\ ~(n < n) /\ 0 + n = n /\ 0 + n <= FillSize
  BY XskAssumption
<1>3. /\ IndexInv /\ LentFrames = {} /\ WaitingFrames = {} /\ Lent = {} /\ Waiting = {}
      /\ Ahead(fill.cprod, fill.cons) = 0 /\ Ahead(fill.ccons, fill.cprod) = n
  BY <1>1, <1>2, BarePlaces, Zenon
<1>4. fill.cprod = fill.prod /\ fill.cons = fill.cprod /\ loop = Idle /\ loop.pc # "submit"
  BY <1>1 DEF Bare, NewFill, NewRing, Idle
<1>5. LookFree(fill, n) = fill /\ NbFree(fill, n) = n
  BY <1>2, <1>3, Zenon DEF LookFree, NbFree
<1>6. Reserve(fill, n) = [fill EXCEPT !.cprod = Idx(@ + n)]
  BY <1>2, <1>5, Zenon DEF Reserve
<1>7. PICK stack : stack = AllFrames
  BY Zenon
<1>8. /\ free' = AfterAlloc(stack, n) /\ UNCHANGED <<rx, loop, kept>>
      /\ fill' = Submit(Put([fill EXCEPT !.cprod = Idx(@ + n)], fill.cprod, Alloc(stack, n)), n)
  BY <1>2, <1>6, <1>7, Zenon DEF Configure
<1>9. /\ fill'.cprod = Idx(fill.cprod + n) /\ fill'.prod = Idx(fill.prod + n) /\ fill'.cons = fill.cons
      /\ fill'.ccons = fill.ccons /\ fill'.slot = Put(fill, fill.cprod, Alloc(stack, n)).slot
  BY <1>0, <1>8, FrameTypes, Zenon DEF Submit, Put, Ring, Size
<1>10. Ahead(fill'.cprod, fill'.cons) = n /\ Ahead(fill'.ccons, fill'.cprod) = 0
  <2>1. fill.cprod \in Index /\ fill.cons \in Index /\ fill.ccons \in Index
    BY <1>0, FrameTypes, Zenon
  <2>2. Ahead(Idx(fill.cprod + n), fill.cons) = 0 + n
    <3>1. Ahead(fill.cprod, fill.cons) + n < Wrap
      BY <1>2, <1>3, Zenon
    <3> QED
      BY <3>1, <2>1, <1>3, ProducerMoves, Zenon
  <2>3. Ahead(fill.ccons, Idx(fill.cprod + n)) = n - n
    <3>1. n <= Ahead(fill.ccons, fill.cprod)
      BY <1>2, <1>3
    <3> QED
      BY <3>1, <2>1, <1>3, ConsumerMoves, Zenon
  <2>4. n - n = 0
    OBVIOUS
  <2> QED
    BY <2>2, <2>3, <2>4, <1>2, <1>9, Zenon
<1>11. IndexInv'
  <2>1. fill'.cprod = fill'.prod
    BY <1>4, <1>9, Zenon
  <2>2. n <= n /\ n + 0 <= FillSize
    BY <1>2
  <2>3. /\ Ahead(fill'.prod, fill'.cons) <= Ahead(fill'.cprod, fill'.cons)
        /\ Ahead(fill'.cprod, fill'.cons) + Ahead(fill'.ccons, fill'.cprod) <= FillSize
    BY <2>1, <2>2, <1>10, Zenon
  <2> QED
    BY <2>1, <2>3, <1>3, <1>4, <1>8, Zenon DEF IndexInv
<1>12. PICK S : S = {stack[k] : k \in DOMAIN stack}
  BY Zenon
<1>13. /\ stack \in Seq(Int) /\ S = 0 .. NumFrames - 1 /\ Invalid \notin S
       /\ \A k \in DOMAIN stack : stack[k] # Invalid
       /\ \A j, k \in DOMAIN stack : stack[j] = stack[k] => j = k
  <2>0. NumFrames \in Nat
    BY XskAssumption
  <2>1. stack = [k \in 1 .. NumFrames |-> k - 1]
    BY <1>7, Zenon DEF AllFrames
  <2>2. \A k \in 1 .. NumFrames : k \in Int /\ k - 1 \in Int /\ k - 1 # -1 /\ k - 1 \in 0 .. NumFrames - 1
    BY <2>0
  <2>3. stack \in Seq(Int) /\ DOMAIN stack = 1 .. NumFrames
    BY <2>0, <2>1, <2>2
  <2>4. \A k \in DOMAIN stack : stack[k] = k - 1
    BY <2>1, <2>3, Zenon
  <2>5. \A v \in 0 .. NumFrames - 1 : v + 1 \in 1 .. NumFrames /\ (v + 1) - 1 = v
    BY <2>0
  <2>6. S = 0 .. NumFrames - 1
    <3>1. ASSUME NEW v \in S PROVE v \in 0 .. NumFrames - 1
      BY <3>1, <2>2, <2>3, <2>4, <1>12, Zenon
    <3>2. ASSUME NEW v \in 0 .. NumFrames - 1 PROVE v \in S
      <4>1. PICK k \in DOMAIN stack : k - 1 = v
        BY <3>2, <2>3, <2>5, Zenon
      <4> QED
        BY <4>1, <2>4, <1>12, Zenon
    <3> QED
      BY <3>1, <3>2, Zenon
  <2>7. \A j, k \in 1 .. NumFrames : j - 1 = k - 1 => j = k
    BY <2>0
  <2>8. Invalid \notin S
    BY <2>0, <2>6 DEF Invalid
  <2> QED
    BY <2>2, <2>3, <2>4, <2>6, <2>7, <2>8, Zenon DEF Invalid
<1>14. \E Rest, Top, len : StackMoves(stack, 0, Rest, Top, len)
  <2>1. /\ 0 = Ahead(fill.cprod, fill.cons) /\ 0 \in Nat /\ 0 + n <= FillSize /\ fill'.cons = fill.cons
        /\ Ahead(fill'.cprod, fill'.cons) = 0 + n
        /\ fill'.slot = Put(fill, fill.cprod, Alloc(stack, n)).slot /\ free' = AfterAlloc(stack, n)
    BY <1>2, <1>3, <1>8, <1>9, <1>10, Zenon
  <2> QED
    BY <2>1, <1>0, <1>13, StackPlaces, Zenon
<1>15. /\ \A j, k \in DOMAIN free' : free'[j] = free'[k] => j = k
       /\ (\A j, k \in Lent : FillEntry(j) = FillEntry(k) => j = k)'
       /\ FreeFrames' \intersect LentFrames' = {}
       /\ FreeFrames' \union LentFrames' = S \union LentFrames /\ Invalid \notin FreeFrames'
  <2>1. S \intersect LentFrames = {} /\ \A j, k \in Lent : FillEntry(j) = FillEntry(k) => j = k
    BY <1>3, Zenon
  <2> QED
    BY <2>1, <1>12, <1>13, <1>14, StackLent, Zenon
<1>16. Waiting' = {} /\ WaitingFrames' = {}
  BY <1>3, <1>8, SameRx, Zenon
<1>17. Held' = 0 .. NumFrames - 1
  BY <1>3, <1>13, <1>15, <1>16, Zenon DEF Held
<1>18. IsFiniteSet(Held') /\ Cardinality(Held') = NumFrames - kept' /\ kept' \in Nat
  <2>1. kept' = 0
    BY <1>1, <1>8, Zenon DEF Bare
  <2>2. NumFrames \in Nat /\ 0 \in Int /\ NumFrames - 1 \in Int
    BY XskAssumption
  <2>3. /\ IsFiniteSet(0 .. NumFrames - 1)
        /\ Cardinality(0 .. NumFrames - 1) = IF 0 > NumFrames - 1 THEN 0 ELSE (NumFrames - 1) - 0 + 1
    BY <2>2, FS_Interval, Zenon
  <2>4. (IF 0 > NumFrames - 1 THEN 0 ELSE (NumFrames - 1) - 0 + 1) = NumFrames - 0 /\ 0 \in Nat
    BY <2>2
  <2> QED
    BY <2>1, <2>3, <2>4, <1>17, Zenon
<1>19. FramesAccounted'
  BY <1>15, <1>16, <1>18, Zenon DEF FramesAccounted, Held
<1> QED
  BY <1>0, <1>11, <1>15, <1>16, <1>18, <1>19, Zenon DEF FrameInv

(* Every step keeps the account. *)
LEMMA StepFrame == SkInv /\ LoopInv /\ FrameInv /\ [Next]_vars => FrameInv'
<1> SUFFICES ASSUME SkInv, LoopInv, FrameInv, [Next]_vars PROVE FrameInv'
  BY Zenon
<1>1. CASE UNCHANGED vars
  <2>1. UNCHANGED <<free, fill, rx, loop, kept>> /\ Serving' = Serving
    BY <1>1, Zenon DEF vars, skVars, ioVars, Serving
  <2>2. IndexInv' /\ BareInv'
    BY <2>1, Zenon DEF FrameInv, IndexInv, BareInv
  <2> QED
    BY <2>1, <2>2, SameFrames, Zenon
<1> QED
  BY <1>1, SocketFrames, CloseFrames, ConfigureFrames, KernelFrames, PeekFrames, LookFrames,
     ReserveFrames, SubmitFrames, ProcessFrames, ReleaseFrames, Zenon DEF Next

(* No frame is ever in two places, and none is lost but to a packet that   *)
(* was taken: for every number of frames, sizes of the rings and batches,  *)
(* wherever the kernel's steps fall between those of the receive loop, and *)
(* through every creation and end of the socket.                           *)
THEOREM FramesKept == Spec => []FramesAccounted
<1>1. Init => FrameInv
  <2> SUFFICES ASSUME Init PROVE FrameInv
    BY Zenon
  <2>1. Bare
    BY Zenon DEF Init, Bare
  <2>2. Serving = {}
    <3>1. NoSock.pc # "ready"
      BY DEF NoSock
    <3>2. \A s \in Socks : sk[s] = NoSock
      BY Zenon DEF Init, SkInit
    <3> QED
      BY <3>1, <3>2, Zenon DEF Serving
  <2> QED
    BY <2>1, <2>2, BareFrames, Zenon
<1>2. FrameInv => FramesAccounted
  BY Zenon DEF FrameInv
<1> QED
  BY <1>1, <1>2, StepFrame, SkAlways, LoopAlways, PTL DEF Spec
=============================================================================
