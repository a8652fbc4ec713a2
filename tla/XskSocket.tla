------------------------------ MODULE XskSocket ------------------------------
(***************************************************************************)
(* An AF_XDP socket as libbpf makes it: its rings, and its life.           *)
(***************************************************************************)
EXTENDS Integers, Sequences, FiniteSets

(***************************************************************************)
(* The single-producer, single-consumer rings an AF_XDP socket shares with *)
(* the kernel, as the inline functions of libbpf's xsk.h work on them.     *)
(* prod and cons are the indices in shared memory, cprod and ccons the     *)
(* copies the application keeps; all are __u32 and wrap around.  The       *)
(* application's copy of the consumer of a ring it produces for is ahead   *)
(* of the real one by the size of the ring.                                *)
(***************************************************************************)

CONSTANT Wrap  \* 2^32: the values of a ring index

Size(r) == Len(r.slot)
Idx(n) == n % Wrap
Ahead(a, b) == Idx(a - b)        \* a - b in __u32

(* A ring as mmap() finds it, all indices 0; c is the cached consumer. *)
NewRing(size, c, entry) ==
    [prod |-> 0, cons |-> 0, cprod |-> 0, ccons |-> c, slot |-> [k \in 1 .. size |-> entry]]

(* What the ring holds for its consumer, oldest first: entry idx & mask.   *)
At(r, idx) == r.slot[(Idx(idx) % Size(r)) + 1]
Contents(r) == [k \in 1 .. Ahead(r.prod, r.cons) |-> At(r, r.cons + k - 1)]
-----------------------------------------------------------------------------
(* xsk_prod_nb_free(): the consumer index is read again only when the free *)
(* entries known of are fewer than nb.                                     *)
LookFree(r, nb) ==
    IF Ahead(r.ccons, r.cprod) >= nb THEN r ELSE [r EXCEPT !.ccons = Idx(r.cons + Size(r))]
NbFree(r, nb) == LET q == LookFree(r, nb) IN Ahead(q.ccons, q.cprod)

(* xsk_ring_prod__reserve(): nb entries from cached_prod on, or none. *)
Reserve(r, nb) ==
    LET q == LookFree(r, nb)
    IN  IF NbFree(r, nb) < nb THEN q ELSE [q EXCEPT !.cprod = Idx(@ + nb)]

(* xsk_ring_prod__fill_addr() for the entries of es, from index idx on. *)
Put(r, idx, es) ==
    [r EXCEPT !.slot = [k \in 1 .. Size(r) |->
        LET n == (Idx(k - 1 - idx) % Size(r)) + 1 IN IF n <= Len(es) THEN es[n] ELSE @[k]]]

(* xsk_ring_prod__submit() *)
Submit(r, nb) == [r EXCEPT !.prod = Idx(@ + nb)]
-----------------------------------------------------------------------------
(* xsk_cons_nb_avail(): the producer index is read again only when nothing *)
(* known of is left.                                                       *)
LookAvail(r) == IF r.cprod = r.ccons THEN [r EXCEPT !.cprod = r.prod] ELSE r
NbAvail(r, nb) ==
    LET q == LookAvail(r)
        n == Ahead(q.cprod, q.ccons)
    IN  IF n > nb THEN nb ELSE n

(* xsk_ring_cons__peek() *)
Peek(r, nb) == [LookAvail(r) EXCEPT !.ccons = Idx(@ + NbAvail(r, nb))]

(* xsk_ring_cons__release() *)
Release(r, nb) == [r EXCEPT !.cons = Idx(@ + nb)]
-----------------------------------------------------------------------------
(* The kernel's side: it takes the n oldest entries of a ring, or adds one *)
(* to a ring that is not full.                                             *)
KernelTake(r, n) == [r EXCEPT !.cons = Idx(@ + n)]
KernelFull(r) == Ahead(r.prod, r.cons) = Size(r)
KernelPut(r, e) == Submit(Put(r, r.prod, <<e>>), 1)

-----------------------------------------------------------------------------
(***************************************************************************)
(* An application creates and deletes its AF_XDP sockets (libbpf's xsk.c,  *)
(* as cbr.c and xsk_user_helpers.c call it) while the launcher attaches    *)
(* and detaches XDP programs on the same interface.  A socket receives     *)
(* when the program on the interface has it in its map "xsks_map".  The    *)
(* sockets of an application share one UMEM; VTL itself creates one.  Any  *)
(* system call may fail.                                                   *)
(***************************************************************************)

CONSTANTS Socks,      \* sockets of the application
          None,
          MaxAttach,  \* bound: programs attached
          MaxStarts,  \* bound: starts of the application
          MaxLost     \* bound: failures of socket() for a shared UMEM

ASSUME SocketAssumption == None \notin Socks /\ {MaxAttach, MaxStarts, MaxLost} \subseteq Nat

VARIABLES
    att,     \* the program attached to the interface, 0 for none
    kinds,   \* of the programs: "graft", "libbpf" have an xsks_map, "other" none
    entry,   \* the socket each program's xsks_map holds for the queue
    umem,    \* struct xsk_umem; ringed: its own descriptor has socket rings
    sk,      \* struct xsk_socket, and how far its creation has come
    fds,     \* open descriptors of the application: <<what, for whom>>
    lost,    \* references that a failed socket() did not give back
    starts

skVars == <<att, kinds, entry, umem, sk, fds, lost, starts>>
hookVars == <<att, kinds, entry>>

Ids == 1 .. Len(kinds)
NoUmem == [live |-> FALSE, refs |-> 0, ringed |-> FALSE]
NoSock == [pc |-> "none", inhibit |-> FALSE, own |-> FALSE, prog |-> 0, calm |-> FALSE]

SkInit ==
    /\ att = 0 /\ kinds = << >> /\ entry = << >>
    /\ umem = NoUmem /\ sk = [s \in Socks |-> NoSock] /\ fds = {} /\ lost = 0 /\ starts = 0
-----------------------------------------------------------------------------
(* The launcher: launcher_load_ingress_tf() attaches a new graft, another  *)
(* section a program without xsks_map; launcher_unload_ingress_tf()        *)
(* detaches.  A look at the interface from before is out of date then.     *)
Disturbed == [s \in Socks |-> [sk[s] EXCEPT !.calm = FALSE]]

NewProgram(kind) ==
    /\ Len(kinds) < MaxAttach
    /\ kinds' = Append(kinds, kind) /\ att' = Len(kinds) + 1
    /\ entry' = Append(entry, None)

LauncherAttach ==
    /\ \E kind \in {"graft", "other"} : NewProgram(kind)
    /\ sk' = Disturbed /\ UNCHANGED <<umem, fds, lost, starts>>

LauncherDetach ==
    /\ att # 0 /\ att' = 0 /\ sk' = Disturbed
    /\ UNCHANGED <<kinds, entry, umem, fds, lost, starts>>
-----------------------------------------------------------------------------
(* The calls of one application follow each other. *)
Quiet == \A s \in Socks : sk[s].pc \in {"none", "live", "failed", "ready"}

(* xsk_umem__create() through configure_xsk_umem().  When it fails nothing *)
(* stays open (a fill ring already mapped stays mapped, as out_mmap unmaps *)
(* MAP_FAILED in its place).                                               *)
UmemCreate ==
    /\ Quiet /\ ~umem.live /\ starts < MaxStarts /\ starts' = starts + 1
    /\ \/ umem' = [NoUmem EXCEPT !.live = TRUE] /\ fds' = fds \union {<<"umem", None>>}
       \/ UNCHANGED <<umem, fds>>
    /\ UNCHANGED <<hookVars, sk, lost>>

(* xsk_umem__delete(): -EBUSY while it is referenced. *)
UmemDelete ==
    /\ Quiet /\ umem.live /\ umem.refs = 0
    /\ umem' = NoUmem /\ fds' = fds \ {<<"umem", None>>}
    /\ UNCHANGED <<hookVars, sk, lost, starts>>

(* xsk_socket__create() up to the socket.  A second socket must inhibit    *)
(* the loading of a program; its socket() may fail, after refcount++.      *)
SocketBegin(s, inhibit) ==
    /\ Quiet /\ umem.live /\ sk[s].pc = "none"
    /\ umem.refs > 0 => inhibit
    /\ umem' = [umem EXCEPT !.refs = @ + 1]
    /\ \/ /\ sk' = [sk EXCEPT ![s] = [NoSock EXCEPT !.pc = "config", !.inhibit = inhibit,
                                                    !.own = umem.refs > 0]]
          /\ fds' = IF umem.refs > 0 THEN fds \union {<<"sock", s>>} ELSE fds
          /\ UNCHANGED lost
       \/ umem.refs > 0 /\ lost < MaxLost /\ lost' = lost + 1 /\ UNCHANGED <<sk, fds>>
    /\ UNCHANGED <<hookVars, starts>>

(* out_socket: with the descriptors in gone closed on the way there;       *)
(* u is the UMEM then, its descriptor with rings or without.               *)
Ringed(s) == [umem EXCEPT !.ringed = @ \/ ~sk[s].own]

UnwindKeepsFd(s, gone, u) ==
    /\ umem' = [u EXCEPT !.refs = @ - 1]
    /\ fds' = fds \ gone
    /\ sk' = [sk EXCEPT ![s] = NoSock]

Unwind(s, gone, u) ==
    /\ umem' = [u EXCEPT !.refs = @ - 1]
    /\ fds' = fds \ (gone \union IF umem.refs > 1 THEN {<<"sock", s>>} ELSE {})
    /\ sk' = [sk EXCEPT ![s] = NoSock]

(* The interface, the rings, mmap() and bind().  The kernel refuses rings  *)
(* and bind() for a descriptor that has them: the UMEM's own serves once.  *)
SocketConfig(s) ==
    /\ sk[s].pc = "config"
    /\ \/ /\ sk[s].own \/ ~umem.ringed
          /\ umem' = Ringed(s)
          /\ sk' = [sk EXCEPT ![s].pc = IF sk[s].inhibit THEN "live" ELSE "look"]
          /\ UNCHANGED fds
       \/ \E u \in {umem, Ringed(s)} : Unwind(s, {}, u)
    /\ UNCHANGED <<hookVars, lost, starts>>

(* xsk_setup_xdp_prog(): is there a program on the interface? *)
SetupLook(s) ==
    /\ sk[s].pc = "look"
    /\ \/ /\ sk' = [sk EXCEPT ![s].pc = IF att = 0 THEN "load" ELSE "get",
                              ![s].prog = att, ![s].calm = TRUE]
          /\ UNCHANGED <<umem, fds>>
       \/ Unwind(s, {}, umem)
    /\ UNCHANGED <<hookVars, lost, starts>>

(* There was none: xsk_create_bpf_maps() and xsk_load_xdp_prog(), which    *)
(* takes the place of a program attached since.                            *)
SetupLoad(s) ==
    /\ sk[s].pc = "load"
    /\ \/ /\ NewProgram("libbpf")
          /\ sk' = [sk EXCEPT ![s].pc = "set", ![s].prog = Len(kinds) + 1]
          /\ fds' = fds \union {<<"map", s>>, <<"prog", s>>}
          /\ UNCHANGED umem
       \/ Unwind(s, {}, umem) /\ UNCHANGED hookVars
    /\ UNCHANGED <<lost, starts>>

(* There was one: its descriptor, if it still exists, and with             *)
(* xsk_lookup_bpf_maps() that of its map, if it has one of that name.      *)
HasMap(p) == kinds[p] # "other"

SetupGet(s) ==
    /\ sk[s].pc = "get"
    /\ \/ /\ HasMap(sk[s].prog)
          /\ sk' = [sk EXCEPT ![s].pc = "set"]
          /\ fds' = fds \union {<<"map", s>>, <<"prog", s>>}
          /\ UNCHANGED umem
       \/ Unwind(s, {}, umem)
    /\ UNCHANGED <<hookVars, lost, starts>>

(* xsk_set_bpf_maps(), or xsk_delete_bpf_maps() and the way back. *)
SetNothing(s) == entry
SetEntry(s) == [entry EXCEPT ![sk[s].prog] = s]

SetupSet(s) ==
    /\ sk[s].pc = "set"
    /\ \/ /\ entry' = SetEntry(s) /\ sk' = [sk EXCEPT ![s].pc = "live"]
          /\ UNCHANGED <<umem, fds>>
       \/ /\ entry' = [entry EXCEPT ![sk[s].prog] = None]
          /\ Unwind(s, {<<"map", s>>, <<"prog", s>>}, umem)
    /\ UNCHANGED <<att, kinds, lost, starts>>

(* xsk_socket__delete(): the entry goes, the program stays attached. *)
SocketDelete(s) ==
    /\ Quiet /\ sk[s].pc \in {"live", "ready"}
    /\ entry' = IF sk[s].prog = 0 THEN entry ELSE [entry EXCEPT ![sk[s].prog] = None]
    /\ umem' = [umem EXCEPT !.refs = @ - 1]
    /\ fds' = fds \ {<<"sock", s>>, <<"map", s>>, <<"prog", s>>}
    /\ sk' = [sk EXCEPT ![s] = NoSock]
    /\ UNCHANGED <<att, kinds, lost, starts>>

(* xsk_configure_socket() asks once more for the program; when that fails  *)
(* it returns NULL and the socket stays as it is.                          *)
Ready(s) ==
    /\ sk[s].pc = "live" /\ ~sk[s].inhibit /\ Quiet
    /\ sk' = [sk EXCEPT ![s].pc = "ready"]
    /\ UNCHANGED <<hookVars, umem, fds, lost, starts>>

NotReady(s) ==
    /\ sk[s].pc = "live" /\ ~sk[s].inhibit /\ Quiet
    /\ sk' = [sk EXCEPT ![s].pc = "failed"]
    /\ UNCHANGED <<hookVars, umem, fds, lost, starts>>

(* The application ends or is killed, at any point: the kernel closes what *)
(* is open and takes closed sockets out of the maps.                       *)
AppExit ==
    /\ umem.live
    /\ umem' = NoUmem /\ sk' = [s \in Socks |-> NoSock] /\ fds' = {} /\ lost' = 0
    /\ entry' = [p \in Ids |-> None]
    /\ UNCHANGED <<att, kinds, starts>>
-----------------------------------------------------------------------------
(* A socket that was created stays in the map of the program it was        *)
(* registered with; and when nobody attached or detached a program since   *)
(* the creation looked at the interface, that is the program attached, so  *)
(* packets reach the socket.                                               *)
SocketReachable ==
    \A s \in Socks : sk[s].pc \in {"live", "failed", "ready"} /\ ~sk[s].inhibit =>
        /\ entry[sk[s].prog] = s
        /\ sk[s].calm => att = sk[s].prog

(* Through every failure and deletion umem->refcount counts the sockets    *)
(* that exist or are being created, and the references a failed socket()   *)
(* of a shared UMEM keeps, so that a UMEM is never deleted under a socket; *)
(* and the descriptors open are those of the UMEM and of these sockets,    *)
(* none leaked and none closed under its user.                             *)
ResourcesAccounted ==
    /\ umem.refs = Cardinality({s \in Socks : sk[s].pc # "none"}) + lost
    /\ fds = (IF umem.live THEN {<<"umem", None>>} ELSE {})
             \union {<<"sock", s>> : s \in {t \in Socks : sk[t].own}}
             \union {<<k, s>> : k \in {"map", "prog"},
                                s \in {t \in Socks : ~sk[t].inhibit /\
                                           sk[t].pc \in {"set", "live", "failed", "ready"}}}

=============================================================================
