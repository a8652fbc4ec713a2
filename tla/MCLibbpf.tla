------------------------------ MODULE MCLibbpf -------------------------------
(***************************************************************************)
(* The calls of libbpf on which TLC checks the modules on objects, links,  *)
(* loading, hash tables, netlink and perf buffers, one part after another. *)
(***************************************************************************)
EXTENDS Calc, BpfReloc, BpfLink, BpfLoad, Hashmap, Netlink, PerfBuffer, FiniteSets, FiniteSetsExt

(***************************************************************************)
(* The object files and the kernel configurations on which TLC checks how  *)
(* libbpf opens and links an object (BpfOpen, BpfReloc).                   *)
(***************************************************************************)

MCNameOrder == <<"CONFIG_A", "CONFIG_B", "CONFIG_C", "CONFIG_D", "CONFIG_E",
                 "LINUX_KERNEL_VERSION">>

(***************************************************************************)
(* Object files.  The parts of a file vary independently: the sort of its  *)
(* map section, the data section, the externs, the BTF, whether ".text" is *)
(* there and refers to a map itself, the order of the symbols and of the   *)
(* sections, and the symbol the program's first instruction refers to.     *)
(***************************************************************************)
TypesOf(c) ==
    << Type("INT", "int", 4, 0, "signed", <<>>),
       Type("INT", "char", 1, 0, "", <<>>),
       Type("INT", "u16", 2, 0, "", <<>>),
       Type("ARRAY", "", 3, 2, "", <<>>),
       Type("ARRAY", "", 1, 1, "", <<>>),
       Type("PTR", "", 0, 5, "", <<>>),
       Type("PTR", "", 0, 1, "", <<>>),
       Type("STRUCT", "", 40, 0, "", <<Memb("type", 6, 0), Memb("key", 7, 8),
            Memb("value", 7, 16), Memb("max_entries", 6, 24), Memb("pinning", 6, 32)>>),
       Type("VAR", "m1", 0, 8, "global", <<>>),
       Type("VAR", "m2", 0, 8, "global", <<>>),
       Type("VAR", "v", 0, 1, "global", <<>>),
       Type("VAR", "CONFIG_A", 0, 1, "extern", <<>>),
       Type("VAR", "CONFIG_B", 0, 4, "extern", <<>>),
       Type("VAR", "CONFIG_C", 0, 3, "extern", <<>>) >>
    \o (IF c.maps # ".maps" THEN <<>>
        ELSE <<Type("DATASEC", ".maps", 0, 0, "", <<Memb("", 9, 0), Memb("", 10, 0)>>)>>)
    \o (IF c.data = "none" THEN <<>>
        ELSE <<Type("DATASEC", c.data, 0, 0, "", <<Memb("", 11, 0)>>)>>)
    \o (IF c.externs = {} THEN <<>>
        ELSE <<Type("DATASEC", ".kconfig", 0, 0, "",
                    SetToSeq({Memb("", i, 0) : i \in {i \in 12 .. 14 :
                        (CASE i = 12 -> "CONFIG_A" [] i = 13 -> "CONFIG_B" [] OTHER -> "CONFIG_C")
                            \in c.externs}}))>>)

MapDef(n) == [def |-> [type |-> n, key |-> 4, value |-> 4, max |-> 1, flags |-> 0], extra |-> FALSE]
MapStep(c) == IF c.maps = "maps" THEN MapDefSize ELSE 40

SectionNames(c) ==
    LET When(b, n) == IF b THEN <<n>> ELSE <<>>
        maps == When(c.maps # "none", c.maps)
        data == When(c.data # "none", c.data)
    IN  When(c.text # "none", ".text") \o When(c.text = "refers", ".rel.text")
        \o <<"xdp", ".relxdp">> \o (IF c.swap THEN data \o maps ELSE maps \o data)
        \o When(c.btf # "none", ".BTF") \o When(c.btf # "none" /\ c.ext, ".BTF.ext")
        \o <<".symtab">>

SecNo(c, n) == LET Test(x) == x = n IN SelectInSeq(SectionNames(c), Test)

SymbolsInOrder(c) ==
    LET When(b, s) == IF b THEN s ELSE <<>>
        Sym(n, sec, val, bind, type) ==
            [name |-> n, sec |-> SecNo(c, sec), val |-> val, bind |-> bind, type |-> type]
    IN  <<Sym("prog", "xdp", 0, "GLOBAL", "FUNC")>>
          \o When(c.text # "none", <<Sym("f1", ".text", 0, "GLOBAL", "FUNC"),
                                     Sym("f2", ".text", 3 * InsnSize, "GLOBAL", "FUNC")>>)
          \o When(c.maps # "none", <<Sym("m1", c.maps, 0, "GLOBAL", "OBJECT"),
                                     Sym("m2", c.maps, MapStep(c), "GLOBAL", "OBJECT")>>)
          \o When(c.data # "none", <<Sym("v", c.data, 4, "GLOBAL", "OBJECT")>>)
          \o When("CONFIG_A" \in c.externs, <<Sym("CONFIG_A", "none", 0, "GLOBAL", "NOTYPE")>>)
          \o When("CONFIG_B" \in c.externs, <<Sym("CONFIG_B", "none", 0, "GLOBAL", "NOTYPE")>>)
          \o When("CONFIG_C" \in c.externs, <<Sym("CONFIG_C", "none", 0, "WEAK", "NOTYPE")>>)
Swapped(swap, s) == IF swap THEN Reverse(s) ELSE s
SymbolsOf(c) == Swapped(c.swap, SymbolsInOrder(c))

SymNo(c, n) == LET Test(s) == s.name = n IN SelectInSeq(SymbolsOf(c), Test)

FileOf(c) ==
    LET Rel(insn, sym) == [off |-> insn * InsnSize, sym |-> SymNo(c, sym)]
        Insn(op) == [op |-> op, src |-> "none", imm |-> IF op = "call" THEN -1 ELSE 0]
        Sec(n) ==
          [name |-> n,
           type |-> CASE n \in {".relxdp", ".rel.text"} -> "REL"
                      [] n = ".symtab" -> "SYMTAB"
                      [] n = ".bss" -> "NOBITS"
                      [] OTHER -> "PROGBITS",
           exec |-> n \in {".text", "xdp"},
           size |-> CASE n = ".text" -> 6 * InsnSize
                      [] n = "xdp" -> 4 * InsnSize
                      [] n \in {"maps", ".maps"} -> 2 * MapStep(c)
                      [] OTHER -> 8,
           of |-> CASE n = ".relxdp" -> SecNo(c, "xdp")
                    [] n = ".rel.text" -> SecNo(c, ".text")
                    [] OTHER -> 0,
           rels |-> CASE n = ".relxdp" -> <<Rel(0, c.target)>>
                           \o (IF c.text = "none" THEN <<>> ELSE <<Rel(2, c.callee)>>)
                      [] n = ".rel.text" -> <<Rel(3, c.target)>>
                      [] OTHER -> <<>>,
           code |-> CASE n = ".text" -> <<Insn("other"), Insn("other"), Insn("other"),
                                          Insn("ld64"), Insn("other"), Insn("other")>>
                      [] n = "xdp" -> <<Insn("ld64"), Insn("other"), Insn("call"), Insn("other")>>
                      [] OTHER -> <<>>,
           defs |-> IF n = "maps" THEN [o \in {0, MapDefSize} |-> MapDef(1 + o)] ELSE <<>>]
        secs == SectionNames(c)
        Records == (IF c.text = "none" THEN <<>> ELSE <<[sec |-> ".text", offs |-> <<0, 3 * InsnSize>>]>>)
                   \o <<[sec |-> "xdp", offs |-> <<0>>]>>
    IN  [secs |-> [i \in DOMAIN secs |-> Sec(secs[i])], syms |-> SymbolsOf(c),
         btf |-> [ok |-> c.btf = "ok", types |-> TypesOf(c)],
         ext |-> [func |-> Records, line |-> Records], strict |-> TRUE, root |-> "bpffs"]

ObjectFiles ==
    {c \in [maps : {"none", "maps", ".maps"}, data : {"none", ".data", ".bss"},
            externs : {{}, {"CONFIG_A"}, {"CONFIG_A", "CONFIG_C"}, {"CONFIG_A", "CONFIG_B", "CONFIG_C"}}, btf : {"none", "bad", "ok"},
            text : {"none", "plain", "refers"}, ext : BOOLEAN, swap : BOOLEAN,
            callee : {"f1", "f2"}, target : {"m1", "m2", "v", "CONFIG_A", "CONFIG_C"}] :
        /\ CASE c.target \in {"m1", "m2"} -> c.maps # "none"
             [] c.target = "v" -> c.data # "none"
             [] OTHER -> c.target \in c.externs
        /\ c.swap => c.btf = "ok"
        /\ c.text = "none" => c.callee = "f1"
        /\ c.btf = "none" => ~c.ext}

\* A file needs BTF for the maps of ".maps" and for externs.
WellFormed(c) == c.btf = "ok" \/ (c.maps # ".maps" /\ c.externs = {})

LinkInit == \E c \in ObjectFiles : Asked("link", c)
Link == Returns("link", bpf_object__relocate(bpf_object__open(FileOf(calc.in))))

(***************************************************************************)
(* Externs of every sort, with configurations of the caller and the kernel *)
(***************************************************************************)
ExternTypes == [CONFIG_A |-> 1, CONFIG_B |-> 4, CONFIG_C |-> 5, CONFIG_D |-> 6,
                CONFIG_E |-> 2, LINUX_KERNEL_VERSION |-> 3]

ExternFile(names, weak) ==
    LET seq == SetToSeq(names)
        Var(n) == Type("VAR", n, 0, ExternTypes[n], "extern", <<>>)
        Sym(n) == [name |-> n, sec |-> 0, val |-> 0, type |-> "NOTYPE",
                   bind |-> IF weak THEN "WEAK" ELSE "GLOBAL"]
        Sec(n, t) == [name |-> n, type |-> t, exec |-> FALSE, size |-> 8, of |-> 0,
                      rels |-> <<>>, code |-> <<>>, defs |-> <<>>]
        types == <<Type("INT", "s16", 2, 0, "signed", <<>>), Type("INT", "char", 1, 0, "", <<>>),
                   Type("INT", "u32", 4, 0, "", <<>>), Type("ARRAY", "", 3, 2, "", <<>>),
                   Type("INT", "bool", 1, 0, "bool", <<>>),
                   Type("ENUM", "libbpf_tristate", 4, 0, "", <<>>)>> \o Mapped(Var, seq)
    IN  [secs |-> <<Sec(".BTF", "PROGBITS"), Sec(".symtab", "SYMTAB")>>, syms |-> Mapped(Sym, seq),
         btf |-> [ok |-> TRUE, types |-> Append(types, Type("DATASEC", ".kconfig", 0, 0, "",
                    [i \in DOMAIN seq |-> Memb("", 6 + i, 0)]))],
         strict |-> TRUE, root |-> "bpffs"]

Val(k, v) == [k |-> k, v |-> v]
SystemVals == {Val("tri", "y"), Val("num", 3), Val("str", 1)}
ExtraVals == SystemVals \cup {Val("tri", "m"), Val("str", 5), Val("open", 1), Val("num", 9),
                             Val("num", 65528), Val("num", 65520), Val("text", 0), Val("empty", 0)}
Lines(names, vals) == {<<>>} \cup {<<[name |-> n, val |-> v]>> : n \in names \cup {"other"}, v \in vals}

KconfigInit ==
    \E names \in {s \in SUBSET DOMAIN ExternTypes : Cardinality(s) \in {1, 2}}, weak \in BOOLEAN :
        \E extra \in Lines(names, ExtraVals), system \in Lines(names, SystemVals), file \in BOOLEAN :
            /\ file \/ system = <<>>
            /\ Asked("kconfig", [names |-> names, weak |-> weak, extra |-> extra,
                                 system |-> system, file |-> file])

Kconfig ==
    LET c == calc.in
    IN  Returns("kconfig", bpf_object__resolve_externs(bpf_object__open(ExternFile(c.names, c.weak)),
                                                       7, c.extra, c.file, c.system))

(***************************************************************************)
(* Opening and relocating an object file either fails, and does not on a   *)
(* well-formed file, or makes every reference of every program what its    *)
(* symbol names (bpf_object__open(), bpf_object__relocate()).              *)
(***************************************************************************)
LinkedObject ==
    Returned("link") =>
        /\ WellFormed(calc.in) <=> calc.out[1].err = 0
        /\ calc.out[1].err = 0 => Linked(calc.out[1], FileOf(calc.in))

(***************************************************************************)
(* When bpf_object__resolve_externs() succeeds, every extern holds the     *)
(* value its first line gives it, without loss of information, or zeroes   *)
(* if it is weak and has no line; no extern overwrites another.            *)
(***************************************************************************)
ExternsResolved ==
    Returned("kconfig") =>
        (calc.out[1].err = 0 =>
            Resolved(calc.out[1], calc.in.extra \o (IF calc.in.file THEN calc.in.system ELSE <<>>)))

-----------------------------------------------------------------------------
(***************************************************************************)
(* Objects opened by the names of their sections, and the life of a        *)
(* skeleton: calc.in holds the skeleton, the error of the last call and    *)
(* the hooks the client disconnected.                                      *)
(***************************************************************************)

\* The BTF of a kernel, and of a program to replace, with types that only
\* differ in the kind or the name
BtfEntry(kind, name) == Type(kind, name, 0, 0, 0, <<>>)
KernelBtf == <<BtfEntry("FUNC", "f"), BtfEntry("TYPEDEF", "f"), BtfEntry("TYPEDEF", "btf_trace_f"), BtfEntry("FUNC", "btf_trace_f")>>
ProgBtf == <<BtfEntry("FUNC", "g"), BtfEntry("FUNC", "f")>>

Targets == {<<>>, <<"f">>}
SectionsInit ==
    \E i, j \in DOMAIN section_defs, x \in Targets, type \in {Unspec, "XDP"}, fd \in {0, 7},
       known \in BOOLEAN, fail \in {"", "open", "load"} :
        /\ section_defs[i].is_attach_btf => x # <<>>
        /\ j > i /\ j < i + 3
        /\ Asked("sections", [rows |-> <<i, j>>, type |-> type, fd |-> fd, fail |-> fail,
                              secs |-> <<section_defs[i].sec \o x,
                                         IF known THEN section_defs[j].sec ELSE <<"other">> >>])

Sections ==
    LET in == calc.in
        d == section_defs[in.rows[1]]
    IN  Returns("sections",
                [load |-> bpf_prog_load_xattr(in.secs, in.type, "0", in.fail),
                 attach |-> libbpf_attach_type_by_name(in.secs[1]),
                 id |-> libbpf_find_attach_btf_id(in.secs[1], d.expected_attach_type, in.fd, KernelBtf, ProgBtf)])

(***************************************************************************)
(* No row of section_defs hides another: a program in the section a row    *)
(* names, whatever follows the name, gets the type, the attach types and   *)
(* the attach function of that row, and a tracing program the BTF type it  *)
(* names (a function, or the typedef of a tracepoint).  An object loaded   *)
(* by bpf_prog_load_xattr() has every program typed so, or all as the      *)
(* caller said; if one cannot be typed or loaded nothing stays open.       *)
(***************************************************************************)
SectionsFound ==
    Returned("sections") =>
        LET in == calc.in
            out == calc.out[1]
            d == section_defs[in.rows[1]]
            e == section_defs[in.rows[2]]
            guess == in.type = Unspec
            untyped == guess /\ in.secs[2] = <<"other">>
        IN  /\ find_sec_def(in.secs[1]) = in.rows[1]
            /\ (out.load.err = 0) = (in.fail = "" /\ ~untyped)
            /\ out.load.open = (out.load.err = 0)
            /\ out.load.open => out.load.types = IF guess THEN <<<<d.prog_type, d.expected_attach_type>>,
                                                                <<e.prog_type, e.expected_attach_type>>>>
                                                 ELSE <<<<in.type, "0">>, <<in.type, "0">>>>
            /\ out.attach = IF d.is_attachable THEN <<0, d.attach_type>> ELSE <<EINVAL, "0">>
            /\ out.id = CASE ~d.is_attach_btf -> ESRCH
                          [] d.is_attach_btf /\ in.fd # 0 -> 2
                          [] d.is_attach_btf /\ in.fd = 0 -> IF d.sec = <<"tp_btf/">> THEN 3 ELSE 1

----------------------------------------------------------------------------

SkelSecs == {<<"kretprobe/", "f">>, <<"tp/", "c", "n">>, <<"tp/", "c">>, <<"raw_tp/", "t">>,
             <<"fentry/", "f">>, <<"uprobe/", "b">>, <<"xdp">>}
SkelMaps == {<<[mmapable |-> TRUE, kconfig |-> FALSE], [mmapable |-> TRUE, kconfig |-> TRUE]>>,
             <<[mmapable |-> FALSE, kconfig |-> FALSE], [mmapable |-> TRUE, kconfig |-> FALSE]>>}
AttachFails == {"", "strdup", "type", "bit", "open", "calloc", "set_bpf", "enable"}

SkelInit ==
    \E p, q \in SkelSecs, maps \in SkelMaps :
        Asked("skeleton", [s |-> NewSkeleton(<<p, q>>, maps), err |-> 0, left |-> {}])

\* A client calls in order, and destroys the skeleton when a call failed.
SkelAt(st) == calc.alg = "skeleton" /\ calc.in.err = 0 /\ calc.in.s.st = st
SkelDid(r) == calc' = [calc EXCEPT !.in.s = r.s, !.in.err = r.err]

SkelOpen ==
    SkelAt("new") /\ \E fail \in {"", "open", "find_map", "find_prog"}, at \in DOMAIN calc.in.s.maps :
        SkelDid(bpf_object__open_skeleton(calc.in.s, fail, at))
SkelLoad ==
    SkelAt("opened") /\ \E fail \in {"", "load", "remap"}, gone \in BOOLEAN :
        SkelDid(bpf_object__load_skeleton(calc.in.s, fail, gone))
SkelAttach ==
    /\ SkelAt("loaded") /\ \A i \in DOMAIN calc.in.s.links : calc.in.s.links[i] = NoLink
    /\ calc.in.left = {}
    /\ \E bad \in DOMAIN calc.in.s.secs, fail \in AttachFails :
        SkelDid(bpf_object__attach_skeleton(calc.in.s, bad, fail))
SkelUprobe ==
    SkelAt("loaded") /\ \E i \in DOMAIN calc.in.s.secs, retprobe \in BOOLEAN, fail \in AttachFails :
        /\ calc.in.s.secs[i] = <<"uprobe/", "b">> /\ calc.in.s.links[i] = NoLink /\ calc.in.left = {}
        /\ LET r == AttachProbe(calc.in.s, i, TRUE, retprobe, <<"b">>, fail)
           IN  SkelDid(Did([r.s EXCEPT !.links[i] = r.link], r.err))
SkelDisconnect ==
    SkelAt("loaded") /\ \E i \in DOMAIN calc.in.s.links :
        /\ calc.in.s.links[i] \notin {NoLink, ErrLink}
        /\ calc' = [calc EXCEPT !.in.s.links[i].off = TRUE, !.in.left = @ \cup {calc.in.s.links[i].fd}]
SkelDetach ==
    SkelAt("loaded") /\ SkelDid(Did(bpf_object__detach_skeleton(calc.in.s), 0))
SkelDestroy ==
    /\ calc.alg = "skeleton" /\ calc.in.s.st # "gone"
    /\ SkelDid(Did(bpf_object__destroy_skeleton(calc.in.s), calc.in.err))

(***************************************************************************)
(* Whatever step of bpf_object__open_skeleton(), __load_skeleton(),        *)
(* __attach_skeleton() or bpf_program__attach_uprobe() failed, the hooks   *)
(* open are those of the links the skeleton has and the disconnected ones, *)
(* each running its own program; its pointers never point to memory that   *)
(* is not mapped, and after a load to the maps themselves; a skeleton      *)
(* destroyed leaves nothing open but the disconnected hooks.               *)
(***************************************************************************)
SkeletonAccounted ==
    calc.alg = "skeleton" =>
        LET s == calc.in.s
            own == {i \in DOMAIN s.links : s.links[i] \notin {NoLink, ErrLink}}
            objects == {f \in s.fds : f[1] # "hook"}
        IN  /\ s.fds \ objects = {s.links[i].fd : i \in own} \cup calc.in.left
            /\ \A i \in own : s.links[i].fd[2] = i
            /\ \A i \in DOMAIN s.links : s.links[i] = ErrLink => calc.in.err # 0
            /\ \A j \in DOMAIN s.maps : s.maps[j].ptr \in {"null", s.maps[j].mem}
            /\ s.st = "loaded" /\ calc.in.err = 0 =>
                   /\ Cardinality(objects) = Len(s.secs) + Len(s.maps)
                   /\ \A j \in DOMAIN s.maps : s.maps[j].mmapable = (s.maps[j].ptr = "map")
            /\ s.st = "gone" => objects = {} /\ own = {} /\ \A j \in DOMAIN s.maps : s.maps[j].mem = "none"

-----------------------------------------------------------------------------
(***************************************************************************)
(* Programs loaded into kernels of several ages, BTF taken back from them, *)
(* and what the probes tell of them.                                       *)
(***************************************************************************)

MaxInsns == 4

\* A kernel that knows everything the model tells apart, and older ones
NewKernel ==
    [types |-> {"SOCKET_FILTER", "XDP", "KPROBE"}, good |-> {"XDP"}, name |-> TRUE,
     size |-> [x \in Infos |-> 2], log |-> 1, global_data |-> TRUE, helpers |-> {1},
     kinds |-> {"INT", "STRUCT", "FUNC_PROTO", "FUNC", "VAR", "DATASEC"},
     maps |-> {"ARRAY", "HASH"}, array_mmap |-> TRUE, maxInsns |-> MaxInsns]

\* Records of "rec" units, the units above the first with or without content
InfoRecs == {<<>>} \cup {<<[j \in 1..n |-> IF j = 1 THEN 7 ELSE tail], [j \in 1..n |-> 8 - j]>>
                            : n \in 1..2, tail \in 0..1}
RecSize(recs) == IF recs = <<>> THEN 0 ELSE Len(recs[1])

LoadKernels ==
    {[NewKernel EXCEPT !.types = {"SOCKET_FILTER", "KPROBE"} \cup t, !.good = g, !.name = n,
                       !.size = [func |-> f, line |-> l], !.log = log] :
        t \in SUBSET {"XDP"}, g \in SUBSET {"XDP", "KPROBE"}, n \in BOOLEAN,
        f \in 1..2, l \in 1..2, log \in {1, 3}}

LoadOnceInit ==
    \E k \in LoadKernels, func \in InfoRecs, line \in InfoRecs, level \in 0..1,
       room \in {0, 1, 4}, junk \in BOOLEAN, noMemory \in {{}, {"line"}, Infos},
       type \in {"XDP", "KPROBE"} :
        /\ noMemory # {} => room = 4 /\ k.log = 1
        /\ k.size.func = 2 => func \in {<<>>, <<<<7, 1>>, <<7, 6>>>>}
        /\ k.size.line = 2 => line \in {<<>>, <<<<7, 1>>, <<7, 6>>>>}
        /\ junk => room = 4 /\ k.log = 1 /\ ~k.name
        /\ room < 4 => k.name
        /\ Asked("load", [k |-> k, room |-> room, junk |-> junk, noMemory |-> noMemory,
               la |-> [type |-> type, insns |-> [op |-> "prog", id |-> 0], cnt |-> 3, name |-> TRUE,
                       log_level |-> level, log_size |-> 0, info |-> [func |-> func, line |-> line],
                       rec |-> [func |-> RecSize(func), line |-> RecSize(line)]]])
LoadOnce ==
    LET in == calc.in
    IN  Returns("load", load_program(in.k, bpf_object__probe_caps(in.k, FALSE), in.la, in.room,
                                     in.junk, in.noMemory))

\* Instances made by a preprocessor, and programs attached to a BTF type
InstInit ==
    \E prep \in UNION {[1..n -> {"same", "skip", "fails"}] : n \in 0..2}, btf_id \in {-1, 4},
       type \in {"XDP", "TRACING", "KPROBE"}, cnt \in {0, 3, MaxInsns} :
        Asked("instances", [prep |-> prep, btf_id |-> btf_id, type |-> type, cnt |-> cnt])
LoadInst ==
    LET in == calc.in
        la == [ProbeAttr(in.type, [op |-> "prog", id |-> 0], TRUE) EXCEPT !.cnt = in.cnt]
    IN  Returns("instances", bpf_program__load(NewKernel, bpf_object__probe_caps(NewKernel, FALSE),
                                 la, in.btf_id, 1, FALSE, {}, in.prep))

MapTypes == {"ARRAY", "HASH", "STACK_TRACE", "LPM_TRIE", "CGROUP_STORAGE", "QUEUE", "SK_STORAGE",
             "HASH_OF_MAPS"}

ProbeInit ==
    \E t \in SUBSET {"XDP", "SOCKET_FILTER"}, n, g, m \in BOOLEAN, h \in SUBSET {1},
       kinds \in {NewKernel.kinds, {"INT", "STRUCT"}, {"INT", "STRUCT", "FUNC_PROTO", "FUNC"}, {}},
       more \in SUBSET (MapTypes \ {"ARRAY", "HASH"}), noMemory \in BOOLEAN :
        /\ Cardinality(more) \in {0, 1, 6}
        /\ Asked("probe", [noMemory |-> noMemory,
               k |-> [NewKernel EXCEPT !.types = t, !.name = n, !.global_data = g, !.array_mmap = m,
                                       !.helpers = h, !.kinds = kinds, !.maps = @ \cup more]])
Probe ==
    LET k == calc.in.k
    IN  Returns("probe", [caps |-> bpf_object__probe_caps(k, calc.in.noMemory),
                          type |-> bpf_probe_prog_type(k, "XDP"), helper |-> bpf_probe_helper(k, 1, "XDP"),
                          maps |-> {x \in MapTypes : bpf_probe_map_type(k, x, FALSE, calc.in.noMemory)}])

FetchInit ==
    \E n \in 0..5, noMemory \in SUBSET {"first", "second"}, fails \in SUBSET {"info", "again"},
       kinds \in {{"INT"}, {"INT", "FLOAT"}}, fd \in {-1, 4}, noLog \in BOOLEAN :
        Asked("fetch", [data |-> [i \in 1..n |-> i], noMemory |-> noMemory, fails |-> fails,
                        btf |-> [fd |-> fd, kinds |-> kinds], noLog |-> noLog])
Fetch ==
    LET in == calc.in
    IN  Returns("fetch", [got  |-> btf__get_from_id(in.data, 3, in.noMemory, in.fails),
                          load |-> btf__load(NewKernel, in.btf, in.noLog)])

----------------------------------------------------------------------------
(***************************************************************************)
(* load_program(), bpf_load_program_xattr(): a program that the kernel     *)
(* accepts is loaded whatever the sizes of its function and line records   *)
(* are, with every record as it was given up to the size the kernel knows  *)
(* and nothing but zeros after it; and while there is memory, an error     *)
(* says what is wrong: VERIFY that the verifier looked at the program,     *)
(* PROGTYPE that it is good for a kprobe and not for its own type.         *)
(***************************************************************************)
AcceptedIsLoaded ==
    Returned("load") =>
        LET in == calc.in
            k  == in.k
            o  == calc.out[1]
            enough == in.noMemory = {} /\ in.room >= k.log
        IN  /\ o.err = "" =>
                  /\ o.r.fd >= 0 /\ in.la.type \in k.good
                  /\ \A x \in Infos : \A i \in DOMAIN in.la.info[x] :
                         LET rec == o.r.attr.info[x][i]
                         IN  \A j \in 1..in.la.rec[x] :
                                 rec[j] = IF j <= k.size[x] THEN in.la.info[x][i][j] ELSE 0
            /\ (enough \/ (in.noMemory = {} /\ in.room > 0 /\ in.la.log_level = 0))
                 => (o.err = "" <=> in.la.type \in k.types \cap k.good)
            /\ (enough /\ o.err = "VERIFY" /\ ~in.junk) => in.la.type \in k.types \ k.good
            /\ (enough /\ o.err = "PROGTYPE") => "KPROBE" \in k.good /\ in.la.type \notin k.types

\* bpf_program__load(): success means a descriptor for every instance that was
\* not skipped, and the instructions are gone, so a second load is refused
InstancesLoaded ==
    Returned("instances") =>
        LET in == calc.in
            o  == calc.out[1]
            n  == Len(in.prep)
        IN  /\ o.err = "" => /\ Len(o.fds) = (IF n = 0 THEN 1 ELSE n)
                             /\ \A i \in DOMAIN o.fds :
                                    (n = 0 \/ in.prep[i] # "skip") <=> o.fds[i] >= 0
            /\ o.err # "" => \A i \in DOMAIN o.fds : o.fds[i] >= 0 => in.prep[i] = "same"
            /\ (o.err = "" /\ (\E i \in DOMAIN o.fds : o.fds[i] >= 0)) => in.cnt > 0 /\ in.type = "XDP"

(***************************************************************************)
(* LoadSettles: the two above.                                             *)
(***************************************************************************)
LoadSettles == AcceptedIsLoaded /\ InstancesLoaded

(***************************************************************************)
(* bpf_object__probe_caps(), bpf_probe_*(), btf__get_from_id(),            *)
(* btf__load(): with memory, each probe answers what the kernel can do;    *)
(* without, no probe claims more.  (A helper is also reported when the     *)
(* kernel does not know the program type.)  BTF read back from the kernel  *)
(* is whole whatever its size, and what is loaded already is not loaded    *)
(* again.                                                                  *)
(***************************************************************************)
ProbesTell ==
    /\ Returned("probe") =>
        LET k == calc.in.k
            o == calc.out[1]
            basic == "SOCKET_FILTER" \in k.types
            real == [name |-> basic /\ k.name, global_data |-> basic /\ k.global_data,
                     btf_func |-> {"INT", "FUNC_PROTO", "FUNC"} \subseteq k.kinds,
                     btf_datasec |-> {"INT", "VAR", "DATASEC"} \subseteq k.kinds,
                     array_mmap |-> k.array_mmap]
            realMaps == {x \in k.maps : x = "SK_STORAGE" => {"INT", "STRUCT"} \subseteq k.kinds}
        IN  /\ \A c \in DOMAIN real : o.caps[c] => real[c]
            /\ o.maps \subseteq realMaps
            /\ ~calc.in.noMemory => o.caps = real /\ o.maps = realMaps
            /\ o.type <=> "XDP" \in k.types
            /\ "XDP" \in k.types => (o.helper <=> 1 \in k.helpers)
    /\ Returned("fetch") =>
        LET in == calc.in
            o  == calc.out[1]
        IN  /\ o.got.err = "" => o.got.data = in.data
            /\ in.noMemory = {} /\ in.fails = {} => o.got.err = ""
            /\ in.btf.fd >= 0 => o.load.btf = in.btf /\ o.load.err = "EEXIST"
            /\ (o.load.err = "") <=> (in.btf.fd < 0 /\ o.load.btf.fd >= 0)

-----------------------------------------------------------------------------
(***************************************************************************)
(* Program infos of kernels of every age, and line information of programs *)
(* of up to two functions.                                                 *)
(***************************************************************************)

Arrays == DOMAIN bpf_prog_info_array_desc
DataAt == 1000

\* A kernel tells counts and record sizes of the fields it has.
KernelInfo(len, count) ==
    [o \in InfoFields |-> CASE o > len - 4 -> 0
                            [] o \in {132, 172, 176} -> 8
                            [] \E i \in Arrays : o = bpf_prog_info_array_desc[i].count -> (count + o) % 5
                            [] OTHER -> 0]

InfoInit ==
    \E asked \in {S \in SUBSET Arrays : Cardinality(S) <= 3 \/ Cardinality(S) >= 8},
       len \in {40, 80, 104, 128, 192, InfoSize}, count \in 0 .. 2 :
        Asked("info", [asked |-> asked, len |-> len, info |-> KernelInfo(len, count)])
Info == Returns("info", bpf_program__get_prog_info_linear(calc.in.asked, calc.in.info, calc.in.len, DataAt))

(***************************************************************************)
(* The memory bpf_program__get_prog_info_linear() gives the kernel has     *)
(* room for every array that was asked for and that the kernel knows, at   *)
(* the counts and record sizes the first call told: no two overlap and     *)
(* none leaves it.  Offsets written for another process are the addresses  *)
(* again after bpf_program__bpil_offs_to_addr().                           *)
(***************************************************************************)
InfoFits ==
    Returned("info") =>
        LET in == calc.in
            l == calc.out[1]
            From(i) == l.info[bpf_prog_info_array_desc[i].array]
            To(i) == From(i) + ArrayLen(in.info, i)
            offs == bpf_program__bpil_addr_to_offs(l, DataAt)
        IN  /\ l.arrays = {i \in in.asked : \A o \in {bpf_prog_info_array_desc[i].array,
                                                      bpf_prog_info_array_desc[i].count,
                                                      bpf_prog_info_array_desc[i].size} : o < in.len}
            /\ \A i \in l.arrays : From(i) >= DataAt /\ To(i) <= DataAt + l.data_len
            /\ \A i, j \in l.arrays : i < j => To(i) <= From(j)
            /\ \A i \in l.arrays : ArrayLen(l.info, i) = ArrayLen(in.info, i)
            /\ \A i \in l.arrays : offs.info[bpf_prog_info_array_desc[i].array] \in 0 .. l.data_len
            /\ bpf_program__bpil_offs_to_addr(offs, DataAt) = l

----------------------------------------------------------------------------

LineAddrs == 1 .. 4
LineInit ==
    \E n \in 1 .. 3 : \E jited \in [1 .. n -> LineAddrs] :
    \E nf \in 0 .. 2 : \E ksyms \in [1 .. nf -> LineAddrs], lens \in [1 .. nf -> {1, 2}] :
    \E longRecs, longJited, noMemory \in BOOLEAN :
        /\ n < 3 \/ (longRecs /\ longJited /\ ~noMemory)
        /\ Asked("lines", [linfo |-> [i \in 1 .. n |-> 2 * i - 1], jited |-> jited, ksym_func |-> ksyms, ksym_len |-> lens,
                           longRecs |-> longRecs, longJited |-> longJited, noMemory |-> noMemory])
Line == Returns("lines", bpf_prog_linfo__new(calc.in, calc.in.noMemory))

\* The records cut into the functions at starts, as the kernel writes them:
\* from each function's address upwards, inside it
KernelLines(p, starts) ==
    LET End(f) == IF f = Len(starts) THEN Len(p.jited) ELSE starts[f + 1]
    IN  /\ starts[1] = 0
        /\ \A f \in DOMAIN starts :
             /\ starts[f] < End(f) /\ p.jited[starts[f] + 1] = p.ksym_func[f]
             /\ \A i \in starts[f] + 2 .. End(f) : p.jited[i] > p.jited[i - 1] /\ p.jited[i] \notin ToSet(p.ksym_func)
             /\ p.jited[End(f)] < p.ksym_func[f] + p.ksym_len[f]

\* r is the record before the first above at, among from .. to
Finds(r, keys, at, from, to) ==
    IF from > to \/ at < keys[from + 1] THEN r = -1
    ELSE /\ r \in from .. to /\ \A i \in from .. r : keys[i + 1] <= at
         /\ r < to => keys[r + 2] > at

(***************************************************************************)
(* bpf_prog_linfo__new() accepts the line information of every program the *)
(* kernel can tell of, cut into the kernel's functions, and from what it   *)
(* accepts bpf_prog_linfo__lfind() and bpf_prog_linfo__lfind_addr_func()   *)
(* find the record that covers an instruction, past the skipped ones and   *)
(* never in another function.                                              *)
(***************************************************************************)
LinesFound ==
    Returned("lines") =>
        LET p == calc.in
            out == calc.out[1]
            l == out[1]
            told == p.longRecs /\ p.longJited /\ ~p.noMemory /\ p.ksym_func # <<>>
            cuts == {s \in [DOMAIN p.ksym_func -> 0 .. Len(p.jited)] : told /\ KernelLines(p, s)}
        IN  /\ \A s \in cuts : out # <<>> /\ l.func_idx = s
            /\ out # <<>> =>
                 /\ \A at \in 0 .. 6, skip \in 0 .. 3 :
                      Finds(bpf_prog_linfo__lfind(l, at, skip), l.linfo, at, skip, Len(l.linfo) - 1)
                 /\ \A f \in 0 .. Len(l.per_func) - 1, at \in 0 .. 5, skip \in 0 .. 3 :
                      LET last == IF f + 1 = Len(l.func_idx) THEN Len(l.jited) - 1 ELSE l.func_idx[f + 2] - 1
                      IN  Finds(bpf_prog_linfo__lfind_addr_func(l, at, f, skip), l.jited, at,
                                l.func_idx[f + 1] + skip, last)

-----------------------------------------------------------------------------
(***************************************************************************)
(* Calls on one table: calc.in holds the table, the multimap the same      *)
(* calls would make, the value last inserted for each key unless one was   *)
(* deleted since, and whether the last call did what hashmap.h says.       *)
(***************************************************************************)

\* Two keys that share a chain until the table grows
MCHash == [k \in {"a", "b"} |-> IF k = "a" THEN 4 ELSE 6]
Keys == DOMAIN Hash
MaxEntries == 5

HashmapInit ==
    Asked("hashmap", [map |-> hashmap__init, multi |-> [k \in Keys |-> {}],
                      kept |-> TRUE])

\* The multimap after a call that took old out and put new in
Multi(multi, key, old, new) == [multi EXCEPT ![key] = (@ \ Range(old)) \cup new]

\* What hashmap.h says of the strategies; a call may also find no memory.
Promised(strategy, had, res) ==
    IF had # {} /\ strategy # "APPEND"
      THEN /\ res.err = IF strategy = "ADD" THEN EEXIST ELSE 0
           /\ Len(res.old) = 1 /\ Range(res.old) \subseteq had
      ELSE /\ res.err \in IF strategy \in {"UPDATE", "DELETE"} THEN {NoEntry} ELSE {0, ENOMEM}
           /\ res.old = <<>>

HashmapCall(strategy, key, new, res) ==
    LET in == calc.in
    IN  calc' = [calc EXCEPT !.in =
                    [map |-> res.map,
                     multi |-> IF res.err = 0 THEN Multi(in.multi, key, res.old, new) ELSE in.multi,
                     kept |-> Promised(strategy, in.multi[key], res)]]

HashmapInsert ==
    /\ calc.alg = "hashmap" /\ calc.in.map.sz < MaxEntries
    /\ \E key \in Keys, strategy \in {"ADD", "SET", "UPDATE", "APPEND"}, noMemory \in {"none", "grow", "entry"} :
         LET value == Min((1 .. MaxEntries) \ calc.in.multi[key])
         IN  HashmapCall(strategy, key, {value},
                         hashmap__insert(calc.in.map, key, value, strategy, noMemory))

HashmapDelete ==
    /\ calc.alg = "hashmap"
    /\ \E key \in Keys : HashmapCall("DELETE", key, {}, hashmap__delete(calc.in.map, key))

(***************************************************************************)
(* After any calls, those that found no memory included, the table holds   *)
(* exactly the entries the strategies of hashmap.h leave, each where       *)
(* hashmap__find() and hashmap__for_each_key_entry() look for it, across   *)
(* growth; every call returned what hashmap.h says; and there is room.     *)
(***************************************************************************)
HashmapIsMultimap ==
    calc.alg = "hashmap" =>
        LET m == calc.in.map
            multi == calc.in.multi
            Of(k) == LET Same(e) == e.key = k IN SelectSeq(ChainOf(m, k), Same)
        IN  /\ calc.in.kept
            /\ m.sz = Len(Entries(m)) /\ m.sz <= Cap(m)
            /\ m.sz = FoldSet(LAMBDA k, n : n + Cardinality(multi[k]), 0, Keys)
            /\ \A k \in Keys : {e.value : e \in Range(Of(k))} = multi[k]
            /\ \A k \in Keys : IF multi[k] = {} THEN hashmap__find(m, k) = <<>>
                               ELSE Range(hashmap__find(m, k)) \subseteq multi[k] /\ hashmap__find(m, k) # <<>>

-----------------------------------------------------------------------------
(***************************************************************************)
(* Requests to a kernel with two interfaces, its answers cut into          *)
(* datagrams in several ways and spoilt in several ways.                   *)
(***************************************************************************)

Pid == 5
SeqNo == 9
Msg(type, ifi, error, attrs, len) ==
    [pid |-> Pid, seq |-> SeqNo, multi |-> type # "ERROR", type |-> type, error |-> error, ifi |-> ifi,
     attrs |-> attrs, len |-> len]

\* The programs of an interface: one in a mode, one in each of two modes, none
LinkStates == {[DRV |-> d, SKB |-> s] : d \in {0, 11}, s \in {0, 12}}
ModeOf(link) == IF link.DRV # 0 /\ link.SKB # 0 THEN "MULTI" ELSE IF link.DRV # 0 THEN "DRV"
                ELSE IF link.SKB # 0 THEN "SKB" ELSE "NONE"

\* The kernel's message of an interface, with attributes libbpf does not ask for
LinkMsg(ifi, link) ==
    LET One(m, attr) == IF link[m] = 0 THEN <<>> ELSE <<Attr(attr, 8, link[m] + ifi)>>
        nested == <<Attr(IFLA_XDP_ATTACHED, 5, ModeOf(link))>>
                    \o (IF ModeOf(link) \in {"DRV", "SKB"} THEN One(ModeOf(link), IFLA_XDP_PROG_ID) ELSE <<>>)
                    \o One("DRV", IFLA_XDP_DRV_PROG_ID) \o One("SKB", IFLA_XDP_SKB_PROG_ID)
        Room(n, a) == n + NLA_ALIGN(a.len)
        attrs == <<Attr(3, 7, 0), Attr(IFLA_MAX + 3, 9, 0), Attr(IFLA_XDP, FoldLeft(Room, NLA_HDRLEN, nested), nested)>>
    IN  Msg("LINK", ifi, 0, attrs, FoldLeft(Room, NlmsgLength, attrs))

Gram(msgs) == [err |-> 0, msgs |-> msgs]
Done == Msg("DONE", 0, 0, <<>>, 20)
Cuts(msgs) == {<<Gram(msgs \o <<Done>>)>>, <<Gram(msgs), Gram(<<Done>>)>>,
               [i \in 1 .. Len(msgs) + 1 |-> Gram(IF i > Len(msgs) THEN <<Done>> ELSE <<msgs[i]>>)]}

\* What may become of the answer; "error" is the kernel's refusal.
Spoils == {"no", "socket", "bind", "getsockname", "send", "recv", "pid", "seq", "error"}
Spoilt(grams, how) ==
    LET n == Len(grams)
        last == Len(grams[n].msgs)
    IN  CASE how = "recv" -> [grams EXCEPT ![n].err = -4]
          [] how = "pid" -> [grams EXCEPT ![n].msgs[last].pid = 6]
          [] how = "seq" -> [grams EXCEPT ![n].msgs[last].seq = SeqNo - 1]
          [] how = "error" -> <<Gram(<<Msg("ERROR", 0, -16, <<>>, 36)>>)>>
          [] OTHER -> grams

AskInit ==
    \E links \in [1 .. 2 -> LinkStates], ask \in 1 .. 3,
       flags \in {{}, {"SKB"}, {"DRV"}, {"DRV", "SKB"}, {"NOEXIST", "HW"}, {"bad"}}, how \in Spoils :
    \E grams \in Cuts(<<LinkMsg(1, links[1]), LinkMsg(2, links[2])>>) :
        Asked("ask", [links |-> links, ask |-> ask, flags |-> flags, how |-> how, grams |-> Spoilt(grams, how)])
Ask == Returns("ask", bpf_get_link_xdp_id(calc.in.ask, calc.in.flags, calc.in.how, Pid, SeqNo, calc.in.grams))

SetInit ==
    \E fd \in {-1, 6}, flags \in {0, 2}, how \in Spoils :
        Asked("set", [fd |-> fd, flags |-> flags, how |-> how,
                      grams |-> LET ack == [Msg("ERROR", 0, 0, <<>>, 36) EXCEPT !.seq = 1]
                                    bad == Spoilt(<<Gram(<<ack>>)>>, how)
                                IN  IF how = "error" THEN [bad EXCEPT ![1].msgs[1].seq = 1] ELSE bad])
Set == Returns("set", bpf_set_link_xdp_fd(2, calc.in.fd, calc.in.flags, calc.in.how, Pid, calc.in.grams))

TcInit ==
    \E n \in 0 .. 3, stop \in 0 .. 3, how \in {"no", "send", "recv", "pid", "seq", "error"} :
    \E grams \in Cuts([i \in 1 .. n |-> Msg("TC", i, 0, <<>>, 40)]) :
        /\ grams[1].msgs # <<>>
        /\ Asked("tc", [n |-> n, stop |-> stop, how |-> how, grams |-> Spoilt(grams, how)])
Tc == Returns("tc", DumpTc(calc.in.how, Pid, SeqNo, calc.in.grams, calc.in.stop))

(***************************************************************************)
(* bpf_get_link_xdp_id() returns the program of the interface asked for,   *)
(* if it has one in several modes that of the mode asked for, however the  *)
(* kernel cuts its answer into datagrams; and an error if the answer broke *)
(* off, was for somebody else or was a refusal.  bpf_set_link_xdp_fd()     *)
(* sends the descriptor and the flags where the kernel finds them and      *)
(* returns the kernel's answer.  A dump gives the caller's function every  *)
(* message once and in order, until it says stop.  None waits for an       *)
(* answer that does not come.                                              *)
(***************************************************************************)
AnswersWhole ==
    LET in == calc.in
        out == calc.out[1]
        spoilt == in.how # "no"
    IN  /\ Returned("ask") =>
             LET link == in.links[in.ask]
                 modes == in.flags \cap {"SKB", "DRV", "HW"}
                 mode == ModeOf(link)
                 wanted == CASE in.ask = 3 \/ mode = "NONE" -> 0
                             [] mode \in {"DRV", "SKB"} -> link[mode] + in.ask
                             [] OTHER -> IF modes = {"DRV"} THEN link.DRV + in.ask
                                         ELSE IF modes = {"SKB"} THEN link.SKB + in.ask ELSE 0
             IN  IF spoilt \/ "bad" \in in.flags \/ modes = {"DRV", "SKB"} THEN out[1] \notin {0, NoAnswer}
                 ELSE out = <<0, wanted>>
        /\ Returned("set") =>
             LET req == out.sent[1]
                 tb == libbpf_nla_parse(IFLA_MAX, req.attrs, req.len - NlmsgLength)
                 xdp == libbpf_nla_parse_nested(IFLA_XDP_MAX, tb[IFLA_XDP][1])
             IN  /\ (out.ret = 0) = ~spoilt
                 /\ out.sent = <<>> => out.ret # 0
                 /\ out.sent # <<>> => /\ xdp[IFLA_XDP_FD][1].data = in.fd
                                       /\ (in.flags = 0) = (xdp[IFLA_XDP_FLAGS] = <<>>)
                                       /\ in.flags # 0 => xdp[IFLA_XDP_FLAGS][1].data = in.flags
        /\ Returned("tc") =>
             /\ IsPrefix(out[2], [i \in 1 .. in.n |-> i])
             /\ out[1] = 0 => ~spoilt /\ Len(out[2]) = in.n
             /\ (out[1] = 7) = (in.stop > 0 /\ Len(out[2]) = in.stop)
             /\ out[1] # NoAnswer

-----------------------------------------------------------------------------
(***************************************************************************)
(* A ring written by the kernel while it is read, and perf buffers made    *)
(* with every step failing.                                                *)
(***************************************************************************)

CONSTANT MaxWrites

RingInit == Asked("ring", NewRing)

RingDo(q) == calc' = [calc EXCEPT !.in = q]
RingWrite ==
    /\ calc.alg = "ring" /\ Len(calc.in.written) + calc.in.dropped < MaxWrites
    /\ \E size \in 2 .. 3, type \in {"sample", "other"} : RingDo(KernelWrite(calc.in, size, type))
RingReadStart == calc.alg = "ring" /\ ~calc.in.reading /\ RingDo(ReadStart(calc.in))
RingReadRecord ==
    /\ calc.alg = "ring" /\ calc.in.reading /\ ReadGoesOn(calc.in)
    /\ \E raw \in BOOLEAN, answer \in {"CONT", "DONE"}, noMemory \in BOOLEAN :
         RingDo(ReadRecord(calc.in, raw, answer, noMemory))
RingReadEnd == calc.alg = "ring" /\ calc.in.reading /\ ~ReadGoesOn(calc.in) /\ RingDo(ReadEnd(calc.in))

(***************************************************************************)
(* However the kernel's writes fall between the steps of                   *)
(* bpf_perf_event_read_simple(), also when a callback ends it early or no  *)
(* memory is found for a record cut by the end of the ring: the callbacks  *)
(* get the records the kernel wrote, whole, each once and in order; the    *)
(* kernel never overwrites one that was not read; and what it dropped it   *)
(* told of, or still will.                                                 *)
(***************************************************************************)
PerfInOrder ==
    calc.alg = "ring" =>
        LET q == calc.in
            Told(n, rec) == IF rec[1][4][1] = "lost" THEN n + rec[1][4][2] ELSE n
        IN  /\ IsPrefix(q.seen, q.written)
            /\ q.tail <= q.head /\ q.head - q.tail < RingSize
            /\ q.reading => q.tail <= q.data_tail /\ q.data_tail <= q.data_head /\ q.data_head <= q.head
            /\ q.dropped = q.lost + FoldLeft(Told, 0, q.written)
            /\ ~q.reading => q.tail = FoldLeft(LAMBDA n, rec : n + Len(rec), 0, q.seen)

----------------------------------------------------------------------------

CpuRanges == {<<>>, <<<<0, 0>>>>, <<<<0, 2>>>>, <<<<0, 0>>, <<2, 3>>>>, <<<<1, 1>>, <<3, 3>>>>, <<<<0, 1>>, <<3, 2>>>>}
PerfFails == {"", "info", "pb", "epoll", "events", "bufs", "online",
              "calloc", "event", "mmap", "enable", "update", "epoll_ctl"}
PerfInit ==
    \E pages \in {2, 3}, type \in {"PERF_EVENT_ARRAY", "ARRAY"}, entries \in {2, 4},
       cpus \in {<<>>, <<3, 1>>}, online \in CpuRanges, last \in {2, 3}, fail \in PerfFails, at \in 0 .. 2 :
        /\ fail \in {"", "info", "pb", "epoll", "events", "bufs", "online"} => at = 0
        /\ Asked("perf", [page_cnt |-> pages, map_type |-> type, max_entries |-> entries, cpus |-> cpus,
                          map_keys |-> [i \in DOMAIN cpus |-> 7 - cpus[i]],
                          possible |-> <<<<0, last>>>>, online |-> online, fail |-> fail, at |-> at])
Perf == Returns("perf", __perf_buffer__new(calc.in))

\* The CPUs a list of ranges names
CpusOf(ranges) == UNION {ranges[i][1] .. ranges[i][2] : i \in DOMAIN ranges}

(***************************************************************************)
(* A perf buffer that could not be made leaves no descriptor open and no   *)
(* entry in the map.  One that was made has a buffer for every CPU asked   *)
(* for, or for every CPU that is online and has an entry in the map; each  *)
(* is under its own key in the map and watched by epoll.  CPUs are         *)
(* possible without gaps, as __perf_buffer__new() takes for granted.       *)
(***************************************************************************)
PerfBuffersAccounted ==
    Returned("perf") =>
        LET p == calc.in
            pb == calc.out[1]
            wanted == IF p.cpus # <<>> THEN ToSet(p.cpus)
                      ELSE CpusOf(p.online) \cap CpusOf(p.possible) \cap 0 .. p.max_entries - 1
        IN  IF pb.err # 0 THEN ~pb.epoll /\ pb.bufs = <<>> /\ pb.map = <<>> /\ pb.watched = {}
            ELSE /\ pb.epoll /\ Len(pb.bufs) = Cardinality(wanted)
                 /\ {pb.bufs[i].cpu : i \in DOMAIN pb.bufs} = wanted
                 /\ ToSet(pb.map) = {<<IF p.cpus # <<>> THEN 7 - c ELSE c, PerfDescr(c)>> : c \in wanted}
                 /\ pb.watched = {PerfDescr(c) : c \in wanted}

=============================================================================
