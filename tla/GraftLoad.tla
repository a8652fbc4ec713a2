------------------------------ MODULE GraftLoad ------------------------------
(***************************************************************************)
(* The two ways in which an object file reaches the kernel in VTL: the     *)
(* launcher's own loader, and libbpf for ingress grafts.                   *)
(***************************************************************************)
EXTENDS BpfOpen, BpfLink

(***************************************************************************)
(* The loader of the launcher itself (launcher_load_graft_file() of        *)
(* src/launcher/launcher.c and the functions on ELF sections before it):   *)
(* the maps of a graft's or the Hooker's object file are created, the      *)
(* instructions that refer to them patched, and each section with a known  *)
(* name handed to the loader for its kind of program.  What those do is in *)
(* Launcher.                                                               *)
(*                                                                         *)
(* A file is as in BpfOpen; the definition at an offset of the "maps"      *)
(* section is [def, inner, tail], tail telling that bytes after the last   *)
(* field the launcher knows are not zero.  failMap and failLoad are the    *)
(* map that cannot be created and the load that fails, 0 for none.         *)
(***************************************************************************)

CONSTANT MaxMaps        \* MAX_MAPS

LoadMapDefSize == 28    \* sizeof(struct bpf_load_map_def)
MapFd(i) == 100 + i

\* Section names launcher_load_graft_file() looks for, with what it calls.
LoaderOf == [egress_tf_sec |-> "path", ingress_tf_sec |-> "path", listener_tf_sec |-> "insns",
             hooker_sockops |-> "insns", hooker_redirector |-> "insns", hooker_listener |-> "insns"]

\* The path the launcher pins a map at
PinPath(map) ==
    CASE map.def.type = "sockhash" -> {"skmap"}
      [] map.def.type # "sockhash" /\ map.name = "APP_HASH_ID_MAP" -> {"appli"}
      [] map.def.type # "sockhash" /\ map.name = "QOS_NEGO_MAP" -> {"ngmap"}
      [] OTHER -> {}

Start(f) == [ret |-> 1, done |-> FALSE, overrun |-> FALSE, file |-> f, processed |-> {},
             mapsAt |-> 0, symtab |-> 0, maps |-> <<>>, pins |-> {}, loads |-> <<>>]
Stop(st) == [st EXCEPT !.done = TRUE]

\* __get_sec(): an empty section is skipped like one that cannot be read.
Readable(st, i) == st.file.secs[i].size > 0

\* The scan for the license, the version, the maps and the symbols
ScanSection(st, i) ==
    LET s == st.file.secs[i]
    IN  CASE st.done \/ ~Readable(st, i) -> st
          [] OTHER -> CASE s.name = "license" -> [st EXCEPT !.processed = @ \cup {i}]
                        [] s.name = "version" -> IF s.size # 4 THEN Stop(st)
                                                 ELSE [st EXCEPT !.processed = @ \cup {i}]
                        [] s.name = "maps" -> [st EXCEPT !.mapsAt = i]
                        [] s.type = "SYMTAB" -> [st EXCEPT !.symtab = i]
                        [] OTHER -> st

InOrder(syms) == syms           \* mutant: the symbols are not sorted
Sorted(syms) == LET cmp_symbols(a, b) == a.val < b.val IN SortSeq(syms, cmp_symbols)

(***************************************************************************)
(* __load_elf_maps_section(): all definitions have the same size; what a   *)
(* shorter one lacks is zero and what a longer one adds must be.  The      *)
(* assertion lets MaxMaps + 1 maps pass; the arrays hold MaxMaps, and what *)
(* the function then does is undefined (overrun).                        *)
(***************************************************************************)
LoadElfMaps(st) ==
    LET sec  == st.file.secs[st.mapsAt]
        Mine(s) == s.sec = st.mapsAt
        syms == Sorted(SelectSeq(st.file.syms, Mine))
        each == sec.size \div Len(syms)
        Data(s) == [name |-> s.name, off |-> s.val, def |-> sec.defs[s.val].def,
                    inner |-> IF each < LoadMapDefSize THEN 0 ELSE sec.defs[s.val].inner]
        newer == each > LoadMapDefSize /\ \E j \in DOMAIN syms : sec.defs[syms[j].val].tail
    IN  CASE st.done \/ st.mapsAt = 0 -> st
          [] OTHER -> IF Len(syms) > MaxMaps THEN Stop([st EXCEPT !.overrun = TRUE])
                      ELSE IF newer THEN Stop(st)
                      ELSE [st EXCEPT !.maps = Mapped(Data, syms)]

\* __load_maps(): map i gets MapFd(i), and its pin, whose failure is only
\* printed.
LoadMaps(st, failMap) ==
    LET made == IF failMap \in DOMAIN st.maps THEN failMap - 1 ELSE Len(st.maps)
        pins == UNION {PinPath(st.maps[i]) \X {i} : i \in 1 .. made}
    IN  CASE st.done \/ st.mapsAt = 0 -> st
          [] OTHER -> IF made < Len(st.maps)
                        THEN Stop([st EXCEPT !.maps = SubSeq(@, 1, made), !.pins = pins])
                        ELSE [st EXCEPT !.pins = pins, !.processed = @ \cup {st.mapsAt}]

\* One relocation of __parse_relo_and_apply(), which looks for the map by
\* the value of the symbol alone.  acc is [stop, code].
ApplyRelo(st, acc, rel) ==
    LET i == rel.off \div InsnSize + 1
        AtSym(m) == m.off = st.file.syms[rel.sym].val
        map == SelectInSeq(st.maps, AtSym)
    IN  CASE acc.stop -> acc
          [] OTHER -> IF acc.code[i].op # "ld64" THEN [acc EXCEPT !.stop = TRUE]
                      ELSE IF map = 0 THEN [stop |-> TRUE, code |-> [acc.code EXCEPT ![i].src = "map_fd"]]
                      ELSE [acc EXCEPT !.code[i].src = "map_fd", !.code[i].imm = MapFd(map)]

\* A relocation section.  When one cannot be applied the rest of the section
\* is left, and the program is loaded all the same.
RelocateSection(st, i) ==
    LET s == st.file.secs[i]
        of == st.file.secs[s.of]
        Apply(acc, rel) == ApplyRelo(st, acc, rel)
        end == FoldLeft(Apply, [stop |-> FALSE, code |-> of.code], s.rels)
    IN  CASE st.done \/ i \in st.processed \/ ~Readable(st, i) \/ s.type # "REL" -> st
          [] OTHER -> IF ~Readable(st, s.of) \/ of.type # "PROGBITS" \/ ~of.exec THEN st
                      ELSE [st EXCEPT !.processed = @ \cup {i}, !.file.secs[s.of].code = end.code]

\* A program section: ret is 0 from the first load that works.
LoadSection(st, i, failLoad) ==
    LET s == st.file.secs[i]
    IN  CASE st.done \/ i \in st.processed \/ ~Readable(st, i) -> st
          [] OTHER -> IF s.name \notin DOMAIN LoaderOf THEN st
                      ELSE IF Len(st.loads) + 1 = failLoad THEN Stop(st)
                      ELSE [st EXCEPT !.ret = 0,
                                      !.loads = Append(@, [sec |-> s.name, code |->
                                          IF LoaderOf[s.name] = "insns" THEN s.code ELSE <<>>])]

launcher_load_graft_file(f, failMap, failLoad) ==
    LET scanned == FoldLeftDomain(ScanSection, Start(f), f.secs)
        known   == IF scanned.symtab = 0 THEN Stop(scanned) ELSE scanned
        mapped  == LoadMaps(LoadElfMaps(known), failMap)
        linked  == FoldLeftDomain(RelocateSection, mapped, f.secs)
        Load(st, i) == LoadSection(st, i, failLoad)
    IN  FoldLeftDomain(Load, linked, f.secs)

-----------------------------------------------------------------------------
(***************************************************************************)
(* What the loaded programs must be, said without the steps above.         *)
(***************************************************************************)

\* The file keeps to what the loader supports: every relocation is of a
\* 64-bit load and names a map.
MapsOnly(f) ==
    \A i \in DOMAIN f.secs : f.secs[i].type = "REL" =>
        \A rel \in Range(f.secs[i].rels) :
            /\ f.secs[f.secs[i].of].code[rel.off \div InsnSize + 1].op = "ld64"
            /\ f.syms[rel.sym].sec # 0 /\ f.secs[f.syms[rel.sym].sec].name = "maps"

\* The map instruction i of the code refers to, or 0
MapOfInsn(r, code, i) == IF code[i].src = "map_fd" THEN code[i].imm - MapFd(0) ELSE 0

\* Every program that is loaded from memory refers to the maps its symbols
\* name, and these have the definitions the file gives under that name.
GraftRefers(f, r) ==
    \A l \in Range(r.loads), i \in DOMAIN f.secs :
        (f.secs[i].type = "REL" /\ f.secs[f.secs[i].of].name = l.sec /\ l.code # <<>>) =>
            \A rel \in Range(f.secs[i].rels) :
                LET m == MapOfInsn(r, l.code, rel.off \div InsnSize + 1)
                    sym == f.syms[rel.sym]
                IN  /\ m \in DOMAIN r.maps /\ r.maps[m].name = sym.name
                    /\ r.maps[m].def = f.secs[sym.sec].defs[sym.val].def

\* maps_fd[0] is the first map of the section: the launcher attaches the
\* Hooker's sk_msg program to it.
FirstIsFirst(r) == \A i \in DOMAIN r.maps : r.maps[1].off <= r.maps[i].off

\* libbpf, which VTL uses for its other object files, creates the same maps.
SameMaps(r, o) ==
    {<<r.maps[i].name, r.maps[i].def>> : i \in DOMAIN r.maps} =
        {<<o.maps[i].name, o.maps[i].def>> : i \in {i \in DOMAIN o.maps : o.maps[i].type = "unspec"}}

-----------------------------------------------------------------------------
(***************************************************************************)
(* Loading an ingress graft with libbpf and putting it on an interface:    *)
(* load_bpf_and_xdp_attach() and xdp_link_attach()/_detach() of            *)
(* include/common/xdp_user_helpers.c, as launcher_load_ingress_tf() and    *)
(* launcher_unload_ingress_tf() call them.                                 *)
(***************************************************************************)

\* The XDP program of an interface, 0: none, in each of the two modes, and
\* whether its driver supports the native one
Iface(drv, skb, native) == [DRV |-> drv, SKB |-> skb, native |-> native]

\* The kernel's mode for the flags of a request: "none" leaves it to the driver
KernelMode(iface, mode) == IF mode # "none" THEN mode ELSE IF iface.native THEN "DRV" ELSE "SKB"
OtherMode(mode) == IF mode = "SKB" THEN "DRV" ELSE "SKB"

(* A request to the kernel, of which `fails` says whether it fails for     *)
(* some reason of its own: native and generic programs exclude each other. *)
SetLink(iface, id, mode, noexist, fails) ==
    LET m == KernelMode(iface, mode)
        Answers(err) == [err |-> err, iface |-> iface]
    IN  CASE fails -> Answers("ENOMEM")
          [] ~fails /\ m = "DRV" /\ ~iface.native -> Answers("EOPNOTSUPP")
          [] ~fails /\ (m = "DRV" => iface.native) /\ id # 0 /\ iface[OtherMode(m)] # 0 -> Answers("EEXIST")
          [] ~fails /\ (m = "DRV" => iface.native) /\ id # 0 /\ iface[OtherMode(m)] = 0 /\ noexist /\ iface[m] # 0 -> Answers("EBUSY")
          [] OTHER -> [err |-> "ok", iface |-> [iface EXCEPT ![m] = id]]

(* xdp_link_attach(): when a program of the other mode is in the way it is *)
(* removed and the attachment tried again, with the flags it had.  failed  *)
(* is the set of its requests that fail.                                   *)
FlippedMode(mode) == OtherMode(mode)
SecondMode(mode) == mode

xdp_link_attach(iface, id, mode, noexist, failed) ==
    LET Second(off) == IF off.err # "ok" THEN off
                       ELSE SetLink(off.iface, id, SecondMode(mode), noexist, 3 \in failed)
        First(r) == IF r.err # "EEXIST" \/ noexist THEN r
                    ELSE Second(SetLink(r.iface, 0, OtherMode(mode), noexist, 2 \in failed))
    IN  First(SetLink(iface, id, mode, noexist, 1 \in failed))

(* xdp_link_detach(): bpf_get_link_xdp_id() names the program of either    *)
(* mode; the request removes that of the mode asked for.                   *)
xdp_link_detach(iface, mode, failed) ==
    CASE 1 \in failed -> [err |-> "ENOMEM", iface |-> iface]
      [] 1 \notin failed /\ iface.DRV = 0 /\ iface.SKB = 0 -> [err |-> "ok", iface |-> iface]
      [] OTHER -> SetLink(iface, 0, mode, FALSE, 2 \in failed)

TitleOf(secs, title) == SelectInSeq(secs, LAMBDA s : s = title)

(* Whatever the sections are called, all programs are loaded as XDP.       *)
load_xdp_object_file(secs, fail) == bpf_prog_load_xattr(secs, "XDP", "0", fail)

(* load_bpf_and_xdp_attach() without maps to reuse, which is how it is     *)
(* called: the object is loaded, the program of the section found and      *)
(* attached.  Program i of the object has the identity ids[i].  An object  *)
(* that was loaded stays open whether the rest succeeds or not.            *)
load_bpf_and_xdp_attach(iface, secs, ids, title, mode, noexist, fail, failed) ==
    LET i == IF title = <<>> THEN 1 ELSE TitleOf(secs, title)
        Linked(load, link) == [err |-> IF link.err = "ok" THEN 0 ELSE 1, open |-> load.open, iface |-> link.iface]
        AfterLoad(load) == IF load.err # 0 \/ i = 0 THEN [err |-> 1, open |-> load.open, iface |-> iface]
                        ELSE Linked(load, xdp_link_attach(iface, ids[i], mode, noexist, failed))
    IN  AfterLoad(load_xdp_object_file(secs, fail))

(* launcher_load_ingress_tf(): the program once more, for progs_fd.        *)
launcher_load_ingress_tf(iface, secs, ids, title, mode, noexist, fail, failed) ==
    LET i == TitleOf(secs, title)
        Ends(r, bad) == [ret |-> IF bad THEN -1 ELSE 0, fd |-> IF bad THEN 0 ELSE ids[i],
                         open |-> r.open, iface |-> r.iface]
        AfterAttach(r) == Ends(r, r.err # 0 \/ i = 0)
    IN  AfterAttach(load_bpf_and_xdp_attach(iface, secs, ids, title, mode, noexist, fail, failed))

launcher_unload_ingress_tf(iface, mode, failed) ==
    LET r == xdp_link_detach(iface, mode, failed)
    IN  [ret |-> IF r.err = "ok" THEN 0 ELSE -1, iface |-> r.iface]

=============================================================================
