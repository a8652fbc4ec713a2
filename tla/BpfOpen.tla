------------------------------ MODULE BpfOpen ------------------------------
(***************************************************************************)
(* bpf_object__open() of libbpf.c: from an ELF object file to the object   *)
(* that holds its programs, maps, externs and recorded relocations.  VTL   *)
(* opens the Hooker's and the XDP grafts' object files with it.            *)
(*                                                                         *)
(* A file is [secs, syms, btf, strict, root]: the sections in file order,  *)
(* each [name, type, exec, size, of, rels, code, defs]; the symbols, each  *)
(* [name, sec, val, bind, type]; the BTF blob [ok, types], read when there *)
(* is a ".BTF" section; and the two options of the caller.  What the steps *)
(* of the function do to the object is kept in full; section contents are  *)
(* reduced to what those steps look at.                                    *)
(***************************************************************************)
EXTENDS Btf, FiniteSets, TLC

CONSTANT NameOrder      \* the names of externs, in the order of strcmp()

EFORMAT == -4001        \* LIBBPF_ERRNO__FORMAT
ERELOC == -4005         \* LIBBPF_ERRNO__RELOC
InsnSize == 8
MapDefSize == 20        \* sizeof(struct bpf_map_def)

Roundup(n, a) == ((n + a - 1) \div a) * a
Mapped(Op(_), s) == LET Add(acc, e) == Append(acc, Op(e)) IN FoldLeft(Add, <<>>, s)
Fail(o, e) == [o EXCEPT !.err = e]

\* A step runs only if none before it failed: err = err ?: step(obj).
Then(o, Step(_)) == IF o.err # 0 THEN o ELSE Step(o)

\* bpf_object__new(): the section indices are unset (0 here, -1 or 0 there).
bpf_object__new(file) ==
    [err |-> 0, file |-> file, hasBtf |-> FALSE, btf |-> <<>>, maps |-> <<>>,
     progs |-> <<>>, externs |-> <<>>, rels |-> <<>>, kconfigMapIdx |-> 0,
     pseudoCalls |-> FALSE, at |-> [n \in {"maps", ".maps", ".data", ".rodata",
                                          ".bss", ".text", "symtab"} |-> 0]]

-----------------------------------------------------------------------------
\* bpf_program__init() and bpf_object__add_program()
AddProgram(o, i) ==
    LET s == o.file.secs[i]
    IN  IF s.size % InsnSize # 0
          THEN Fail(o, EINVAL)
          ELSE [o EXCEPT !.progs = Append(@, [idx |-> i, sec |-> s.name, name |-> "",
                                              code |-> s.code, relocs |-> <<>>])]

\* One turn of the loop of bpf_object__elf_collect().
CollectSection(o, i) ==
    LET s == o.file.secs[i]
        At(n) == [o EXCEPT !.at[n] = i]
    IN  CASE o.err # 0 -> o
          [] s.name = "version" -> IF s.size # 4 THEN Fail(o, EFORMAT) ELSE o
          [] s.name \in {"maps", ".maps"} -> At(s.name)
          [] s.name \in {"license", ".BTF", ".BTF.ext"} -> o
          [] s.type = "SYMTAB" -> IF o.at["symtab"] # 0
                                    THEN Fail(o, EFORMAT) ELSE At("symtab")
          [] s.type = "PROGBITS" /\ s.size > 0 /\ s.exec ->
                 AddProgram(IF s.name = ".text" THEN At(".text") ELSE o, i)
          [] s.type = "PROGBITS" /\ s.size > 0 /\ ~s.exec
               /\ s.name \in {".data", ".rodata"} -> At(s.name)
          [] s.type = "REL" -> IF o.file.secs[s.of].exec
                                 THEN [o EXCEPT !.rels = Append(@, i)] ELSE o
          [] s.type = "NOBITS" /\ s.name = ".bss" -> At(s.name)
          [] OTHER -> o

HasSection(o, name) == \E i \in DOMAIN o.file.secs : o.file.secs[i].name = name
BtfMandatory(o) == o.at[".maps"] # 0 \/ o.externs # <<>>

\* bpf_object__init_btf(): a blob that does not parse is dropped unless the
\* object cannot do without it.
InitBtf(o) ==
    CASE HasSection(o, ".BTF") /\ o.file.btf.ok ->
             [o EXCEPT !.hasBtf = TRUE, !.btf = o.file.btf.types]
      [] BtfMandatory(o) /\ HasSection(o, ".BTF") /\ ~o.file.btf.ok -> Fail(o, EINVAL)
      [] BtfMandatory(o) /\ ~HasSection(o, ".BTF") -> Fail(o, ENOENT)
      [] OTHER -> o

\* bpf_object__elf_collect()
ElfCollect(o) ==
    LET Loop == FoldLeftDomain(CollectSection, o, o.file.secs)
        NoStrtab(p) == IF p.at["symtab"] = 0 THEN Fail(p, EFORMAT) ELSE p
    IN  Then(Then(Loop, NoStrtab), InitBtf)

-----------------------------------------------------------------------------
sym_is_extern(sym) ==
    sym.sec = 0 /\ sym.bind \in {"GLOBAL", "WEAK"} /\ sym.type = "NOTYPE"

\* find_extern_btf_id()
ExternBtfId(o, name) ==
    LET id == FirstId({i \in DOMAIN o.btf : o.btf[i].k = "VAR" /\ o.btf[i].n = name})
    IN  CASE ~o.hasBtf -> ESRCH
          [] o.hasBtf /\ id > 0 -> IF o.btf[id].x # "extern" THEN EINVAL ELSE id
          [] OTHER -> ENOENT

\* One turn of the loop over the symbols.  A failure leaves the loop with
\* the value the function returns, which is 0 for an extern of size 0.
CollectExtern(acc, i) ==
    LET o     == acc.o
        sym   == o.file.syms[i]
        id    == ExternBtfId(o, sym.name)
        tid   == o.btf[id].t
        sz    == btf__resolve_size(o.btf, tid)
        align == btf__align_of(o.btf, tid)
        type  == find_extern_type(o.btf, tid)
        Leave(code) == [o |-> Fail(o, code), left |-> TRUE]
        signed == btf__type_by_id(o.btf, skip_mods_and_typedefs(o.btf, tid)).x = "signed"
        Added == [o EXCEPT !.externs = Append(@,
                    [name |-> sym.name, sym |-> i, weak |-> sym.bind = "WEAK", sz |-> sz, align |-> align,
                     type |-> type, off |-> 0, set |-> FALSE, signed |-> signed])]
    IN  CASE acc.left \/ ~sym_is_extern(sym) \/ sym.name = "" -> acc
          [] OTHER -> IF id <= 0 THEN Leave(id)
                      ELSE IF sz < 0 THEN Leave(sz)
                      ELSE IF sz > 0 /\ align <= 0 THEN Leave(EINVAL)
                      ELSE IF sz > 0 /\ type = "unknown" THEN Leave(ENOTSUP)
                      ELSE [o |-> Added, left |-> sz = 0]

Strcmp(a, b) == LET Rank(n) == CHOOSE i \in DOMAIN NameOrder : NameOrder[i] = n
                IN  Rank(a) - Rank(b)

cmp_externs(a, b) ==
    CASE a.align # b.align -> a.align > b.align
      [] a.align = b.align /\ a.sz # b.sz -> a.sz < b.sz
      [] OTHER -> Strcmp(a.name, b.name) < 0

\* Gives each extern the next aligned offset of the map.
PlaceExtern(acc, e) ==
    LET off == Roundup(acc.off, e.align)
    IN  [off |-> off + e.sz, exts |-> Append(acc.exts, [e EXCEPT !.off = off])]

find_extern_by_name(exts, name) ==
    LET Test(e) == e.name = name IN SelectInSeq(exts, Test)

\* Writes the size and the offsets to the ".kconfig" section of the BTF,
\* whose variables become allocated ones.
KconfigDatasec(o, size) ==
    LET id  == btf__find_by_name(o.btf, ".kconfig")
        sec == o.btf[id]
        Name(v) == btf__type_by_id(o.btf, v.t).n
        ExtOf(v) == find_extern_by_name(o.externs, Name(v))
        Vars == [j \in DOMAIN sec.m |->
                   [sec.m[j] EXCEPT !.v = o.externs[ExtOf(sec.m[j])].off]]
    IN  IF id <= 0 \/ \E j \in DOMAIN sec.m : ExtOf(sec.m[j]) = 0
          THEN Fail(o, ESRCH)
          ELSE [o EXCEPT !.btf = [i \in DOMAIN o.btf |->
                  CASE i = id -> [sec EXCEPT !.s = size, !.m = Vars]
                    [] \E j \in DOMAIN sec.m : sec.m[j].t = i -> [o.btf[i] EXCEPT !.x = "global"]
                    [] OTHER -> o.btf[i]]]

\* bpf_object__collect_externs()
CollectExterns(o) ==
    LET Sized(p, placed) == KconfigDatasec([p EXCEPT !.externs = placed.exts], placed.off)
        Place(p) == Sized(p, FoldLeft(PlaceExtern, [off |-> 0, exts |-> <<>>], SortSeq(p.externs, cmp_externs)))
        Found(acc) == IF acc.left \/ acc.o.externs = <<>> THEN acc.o ELSE Place(acc.o)
    IN  Found(FoldLeftDomain(CollectExtern, [o |-> o, left |-> FALSE], o.file.syms))

-----------------------------------------------------------------------------
\* bpf_object__section_size(), 0 when it fails.
SectionSize(o, name) ==
    LET i == IF name \in {".data", ".rodata", ".bss"}
               THEN o.at[name]
               ELSE LET Test(s) == s.name = name IN SelectInSeq(o.file.secs, Test)
    IN  IF i = 0 THEN 0 ELSE o.file.secs[i].size

\* bpf_object__variable_offset(): looks at the name only, ENOENT if none.
VariableOffset(o, name) ==
    LET Test(s) == s.bind = "GLOBAL" /\ s.type = "OBJECT" /\ s.name = name
        i == SelectInSeq(o.file.syms, Test)
    IN  IF i = 0 THEN ENOENT ELSE o.file.syms[i].val

\* btf_fixup_datasec(): the compiler leaves the size of a section and the
\* offsets of its global variables to the loader.
FixupDatasec(o, i) ==
    LET sec == o.btf[i]
        VarOf(v) == btf__type_by_id(o.btf, v.t)
        size == SectionSize(o, sec.n)
        Offset(v) == IF VarOf(v).x = "static" THEN v.v ELSE VariableOffset(o, VarOf(v).n)
        vars == IF sec.s # 0 THEN sec.m
                ELSE [j \in DOMAIN sec.m |-> [sec.m[j] EXCEPT !.v = Offset(sec.m[j])]]
        Before(a, b) == a.v < b.v
    IN  CASE o.err # 0 \/ sec.k # "DATASEC" -> o
          [] OTHER -> IF sec.s = 0 /\ (size = 0 \/ \E j \in DOMAIN vars : vars[j].v < 0)
                        THEN Fail(o, ENOENT)
                        ELSE [o EXCEPT !.btf[i].s = IF sec.s # 0 THEN sec.s ELSE size,
                                       !.btf[i].m = SortSeq(vars, Before)]

\* bpf_object__finalize_btf() and btf__finalize_data()
FinalizeBtf(o) ==
    LET fixed == FoldLeftDomain(FixupDatasec, o, o.btf)
    IN  CASE ~o.hasBtf -> o
          [] o.hasBtf /\ fixed.err = 0 -> fixed
          [] OTHER -> [o EXCEPT !.hasBtf = FALSE, !.btf = <<>>,
                                !.err = IF BtfMandatory(o) THEN ENOENT ELSE 0]

-----------------------------------------------------------------------------
NoDef == [type |-> 0, key |-> 0, value |-> 0, max |-> 0, flags |-> 0]
Map(name, type, sec, off, def) ==
    [name |-> name, type |-> type, sec |-> sec, off |-> off, def |-> def,
     pin |-> <<>>, keyType |-> 0, valueType |-> 0]

\* bpf_object__init_user_maps(): the section holds as many definitions, of
\* equal size, as there are symbols in it.
InitUserMaps(o) ==
    LET i    == o.at["maps"]
        sec  == o.file.secs[i]
        Mine(s) == s.sec = i
        syms == SelectSeq(o.file.syms, Mine)
        each == sec.size \div Len(syms)
        Added(s) == Map(s.name, "unspec", i, s.val, sec.defs[s.val].def)
    IN  CASE i = 0 -> o
          [] OTHER -> IF sec.size = 0 \/ syms = <<>> \/ sec.size % Len(syms) # 0
                           \/ \E j \in DOMAIN syms :
                                \/ syms[j].val + each > sec.size
                                \/ /\ each > MapDefSize
                                   /\ sec.defs[syms[j].val].extra
                                   /\ o.file.strict
                        THEN Fail(o, EINVAL)
                        ELSE [o EXCEPT !.maps = @ \o [j \in DOMAIN syms |-> Added(syms[j])]]

\* get_map_field_int(): the dimension of the array pointed to, or EINVAL.
get_map_field_int(b, id) ==
    LET t   == btf__type_by_id(b, skip_mods_and_typedefs(b, id))
        arr == btf__type_by_id(b, t.t)
    IN  IF t.k = "PTR" /\ arr.k = "ARRAY" THEN arr.s ELSE EINVAL

\* A size given twice must be given the same value.
SetSize(acc, field, sz) ==
    IF sz < 0 THEN Fail(acc, sz)
    ELSE IF acc.map.def[field] # 0 /\ acc.map.def[field] # sz THEN Fail(acc, EINVAL)
    ELSE [acc EXCEPT !.map.def[field] = sz]

\* One field of a BTF-defined map.
MapField(acc, m) ==
    LET b   == acc.o.btf
        n   == get_map_field_int(b, m.t)
        ptr == btf__type_by_id(b, m.t)
        sz  == IF ptr.k = "PTR" THEN btf__resolve_size(b, ptr.t) ELSE EINVAL
        Set(field) == IF n < 0 THEN Fail(acc, EINVAL) ELSE [acc EXCEPT !.map.def[field] = n]
    IN  CASE acc.err # 0 -> acc
          [] m.n = "type" -> Set("type")
          [] m.n = "max_entries" -> Set("max")
          [] m.n = "map_flags" -> Set("flags")
          [] m.n = "key_size" -> SetSize(acc, "key", n)
          [] m.n = "key" -> [SetSize(acc, "key", sz) EXCEPT !.map.keyType = ptr.t]
          [] m.n = "value_size" -> SetSize(acc, "value", n)
          [] m.n = "value" -> [SetSize(acc, "value", sz) EXCEPT !.map.valueType = ptr.t]
          [] m.n = "pinning" -> CASE n = 0 -> acc
                                  [] n = 1 -> [acc EXCEPT !.map.pin = <<acc.o.file.root, acc.map.name>>]
                                  [] OTHER -> Fail(acc, EINVAL)
          [] OTHER -> IF acc.o.file.strict THEN Fail(acc, ENOTSUP) ELSE acc

\* bpf_object__init_user_btf_map()
InitUserBtfMap(o, v) ==
    LET i   == o.at[".maps"]
        var == btf__type_by_id(o.btf, v.t)
        def == btf__type_by_id(o.btf, skip_mods_and_typedefs(o.btf, var.t))
        first == [err |-> 0, o |-> o, map |-> Map(var.n, "unspec", i, v.v, NoDef)]
        Add(acc) == IF acc.err # 0 THEN Fail(o, acc.err)
                    ELSE IF acc.map.def.type = 0 THEN Fail(o, EINVAL)
                    ELSE [o EXCEPT !.maps = Append(@, acc.map)]
    IN  CASE o.err # 0 -> o
          [] OTHER -> IF \/ var.n = "" \/ var.k # "VAR" \/ def.k # "STRUCT"
                         \/ v.v + def.s > o.file.secs[i].size
                        THEN Fail(o, EINVAL)
                        ELSE IF var.x \notin {"global", "static"} THEN Fail(o, ENOTSUP)
                        ELSE Add(FoldLeft(MapField, first, def.m))

\* bpf_object__init_user_btf_maps()
InitUserBtfMaps(o) ==
    LET id == FirstId({i \in DOMAIN o.btf : o.btf[i].k = "DATASEC" /\ o.btf[i].n = ".maps"})
    IN  CASE o.at[".maps"] = 0 -> o
          [] o.at[".maps"] # 0 /\ id < 0 -> Fail(o, ENOENT)
          [] OTHER -> FoldLeft(InitUserBtfMap, o, o.btf[id].m)

\* bpf_object__init_internal_map(): an array of one value.
InternalMap(o, type, sec, size) ==
    [o EXCEPT !.maps = Append(@, Map(type, type, sec, 0,
        [type |-> 2, key |-> 4, value |-> size, max |-> 1,
         flags |-> IF type \in {".rodata", ".kconfig"} THEN 1 ELSE 0]))]

\* bpf_object__init_global_data_maps()
InitGlobalDataMaps(o) ==
    LET One(p, n) == IF p.at[n] = 0 THEN p
                     ELSE InternalMap(p, n, p.at[n], p.file.secs[p.at[n]].size)
    IN  FoldLeft(One, o, <<".data", ".rodata", ".bss">>)

\* bpf_object__init_kconfig_map(): its index is taken before the maps are
\* sorted.
InitKconfigMap(o) ==
    LET last == o.externs[Len(o.externs)]
    IN  IF o.externs = <<>> THEN o
        ELSE [InternalMap(o, ".kconfig", o.at["symtab"], last.off + last.sz)
                EXCEPT !.kconfigMapIdx = Len(o.maps) + 1]

CompareOffsets(a, b) == a.off < b.off     \* mutant: whatever the sections
compare_bpf_map(a, b) == a.sec < b.sec \/ (a.sec = b.sec /\ a.off < b.off)

\* bpf_object__init_maps()
InitMaps(o) ==
    LET Sorted(p) == [p EXCEPT !.maps = SortSeq(@, compare_bpf_map)]
    IN  Then(Then(Then(Then(Then(o, InitUserMaps), InitUserBtfMaps),
                       InitGlobalDataMaps), InitKconfigMap), Sorted)

\* bpf_object__init_prog_names(): the first global symbol of the section.
InitProgNames(o) ==
    LET SymOf(p) == LET Test(s) == s.sec = p.idx /\ s.bind = "GLOBAL"
                    IN  SelectInSeq(o.file.syms, Test)
        Named(p) == CASE SymOf(p) # 0 -> o.file.syms[SymOf(p)].name
                      [] SymOf(p) = 0 /\ p.idx = o.at[".text"] -> ".text"
                      [] OTHER -> ""
        Rename(p) == [p EXCEPT !.name = Named(p)]
    IN  IF \E j \in DOMAIN o.progs : Named(o.progs[j]) = ""
          THEN Fail(o, EINVAL)
          ELSE [o EXCEPT !.progs = Mapped(Rename, o.progs)]

-----------------------------------------------------------------------------
Reloc(type, insn, map, off) == [type |-> type, insn |-> insn, map |-> map, off |-> off]
BadReloc == Reloc("bad", 0, 0, 0)

\* bpf_object__section_to_libbpf_map_type()
MapTypeOf(o, sec) ==
    CASE sec = o.at[".data"] -> ".data"
      [] sec = o.at[".bss"] -> ".bss"
      [] sec = o.at[".rodata"] -> ".rodata"
      [] sec = o.at["symtab"] -> ".kconfig"
      [] OTHER -> "unspec"

\* bpf_program__record_reloc()
RecordReloc(o, p, rel) ==
    LET insn == rel.off \div InsnSize
        sym  == o.file.syms[rel.sym]
        type == MapTypeOf(o, sym.sec)
        OfSym(e) == e.sym = rel.sym
        ext  == SelectInSeq(o.externs, OfSym)
        AtSym(m) == m.type = type /\ m.sec = sym.sec /\ m.off = sym.val
        OfType(m) == m.type = type
        map  == SelectInSeq(o.maps, AtSym)
        data == SelectInSeq(o.maps, OfType)
    IN  CASE p.code[insn + 1].op = "call" ->
                 IF sym.sec = 0 \/ sym.sec # o.at[".text"] \/ sym.val % InsnSize # 0
                   THEN BadReloc ELSE Reloc("CALL", insn, 0, sym.val)
          [] p.code[insn + 1].op \notin {"call", "ld64"} -> BadReloc
          [] p.code[insn + 1].op = "ld64" /\ sym_is_extern(sym) ->
                 IF ext = 0 THEN BadReloc ELSE Reloc("EXTERN", insn, 0, o.externs[ext].off)
          [] OTHER ->
                 IF sym.sec = 0 THEN BadReloc
                 ELSE IF type = "unspec"
                   THEN IF sym.sec \notin {o.at["maps"], o.at[".maps"]} \/ map = 0
                          THEN BadReloc ELSE Reloc("LD64", insn, map, 0)
                   ELSE IF type = ".kconfig" \/ data = 0
                          THEN BadReloc ELSE Reloc("DATA", insn, data, sym.val)

\* bpf_program__collect_reloc() for one relocation section.
CollectRelocSection(o, i) ==
    LET sec == o.file.secs[i]
        Test(p) == p.idx = sec.of
        j   == SelectInSeq(o.progs, Test)
        rs  == [r \in DOMAIN sec.rels |-> RecordReloc(o, o.progs[j], sec.rels[r])]
    IN  CASE o.err # 0 -> o
          [] OTHER -> IF j = 0 THEN Fail(o, ERELOC)
                      ELSE IF \E r \in DOMAIN sec.rels : sec.rels[r].off % InsnSize # 0
                        THEN Fail(o, EFORMAT)
                      ELSE IF \E r \in DOMAIN rs : rs[r].type = "bad" THEN Fail(o, ERELOC)
                      ELSE [o EXCEPT !.progs[j].relocs = rs,
                                     !.pseudoCalls = @ \/ \E r \in DOMAIN rs : rs[r].type = "CALL"]

\* bpf_object__collect_reloc()
CollectReloc(o) == FoldLeft(CollectRelocSection, o, o.rels)

\* __bpf_object__open(), up to the types of the programs.
bpf_object__open(file) ==
    Then(Then(Then(Then(Then(Then(bpf_object__new(file), ElfCollect), CollectExterns),
                        FinalizeBtf), InitMaps), InitProgNames), CollectReloc)

=============================================================================
