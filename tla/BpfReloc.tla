------------------------------ MODULE BpfReloc -------------------------------
(***************************************************************************)
(* Between bpf_object__open() and the loading of programs: relocation and  *)
(* the values of externs (src/lib/libbpf/src/libbpf.c).                    *)
(***************************************************************************)
EXTENDS BpfOpen

(***************************************************************************)
(* bpf_object__relocate() of libbpf.c, after the CO-RE relocations of      *)
(* BpfCore: the instructions of the programs get the descriptors of the    *)
(* maps, and a program that calls a function of ".text" gets a copy of     *)
(* that section appended, with its function and line information.          *)
(*                                                                         *)
(* An instruction is [op, src, imm]; the compiler encodes a call to a      *)
(* function with -1.  The descriptor of map i is Fd(i).                    *)
(* file.ext is the ".BTF.ext" section: for "func" and "line", one record   *)
(* [sec, offs] per section, offs being byte offsets.                       *)
(***************************************************************************)

Fd(i) == 100 + i

HasExt(o) == o.hasBtf /\ HasSection(o, ".BTF.ext")

\* The object as bpf_object__relocate() finds it.
Loadable(o) ==
    LET Prog(p) == [insns |-> p.code, main |-> 0, func |-> <<>>, line |-> <<>>]
    IN  [err |-> o.err, obj |-> o, progs |-> Mapped(Prog, o.progs)]

\* btf_ext_reloc_info(): appends the records of a section, at an offset in
\* instructions.  Empty when the section has none.
ExtInfo(o, info, sec, at) ==
    LET Test(r) == r.sec = sec
        i == SelectInSeq(o.file.ext[info], Test)
        offs == o.file.ext[info][i].offs
    IN  IF i = 0 THEN <<>> ELSE [j \in DOMAIN offs |-> offs[j] \div InsnSize + at]

\* bpf_program_reloc_btf_ext() with check_btf_ext_reloc_err(): the program's
\* own information comes first; without it that of ".text" is not added.
RelocBtfExt(r, p, sec, at) ==
    LET o == r.obj
        Wanted(q, info) == at = 0 \/ q.progs[p][info] # <<>>
        One(q, info) ==
            LET recs == ExtInfo(o, info, sec, at)
            IN  CASE q.stop \/ ~Wanted(q, info) -> q
                  [] OTHER -> IF recs # <<>>
                                THEN [q EXCEPT !.progs[p][info] = @ \o recs]
                                ELSE IF q.progs[p][info] # <<>>
                                       THEN [q EXCEPT !.err = ENOENT, !.stop = TRUE]
                                       ELSE [q EXCEPT !.stop = TRUE]
        end == FoldLeft(One, [err |-> 0, stop |-> FALSE, progs |-> r.progs], <<"func", "line">>)
    IN  IF HasExt(o) THEN [r EXCEPT !.err = end.err, !.progs = end.progs] ELSE r

\* bpf_program__reloc_text()
RelocText(r, p, rel) ==
    LET o    == r.obj
        Test(q) == q.idx = o.at[".text"]
        text == SelectInSeq(o.progs, Test)
        own  == r.progs[p].insns
        Copied(q) == [q EXCEPT !.progs[p].insns = own \o q.progs[text].insns,
                               !.progs[p].main = Len(own)]
        Extended == IF r.progs[p].main # 0 THEN r
                    ELSE Then(RelocBtfExt(r, p, ".text", Len(own)), Copied)
        Patch(q) == [q EXCEPT !.progs[p].insns[rel.insn + 1].imm =
                        @ + rel.off \div InsnSize + q.progs[p].main - rel.insn]
    IN  IF o.progs[p].idx = o.at[".text"] \/ text = 0
          THEN Fail(r, ERELOC) ELSE Then(Extended, Patch)

\* One turn of the loop of bpf_program__relocate().
RelocInsn(p, r, rel) ==
    LET i == rel.insn + 1
        Value(fd, off) == [r EXCEPT !.progs[p].insns[i].src = "map_value",
                                    !.progs[p].insns[i].imm = fd,
                                    !.progs[p].insns[i + 1].imm = off]
    IN  CASE r.err # 0 -> r
          [] OTHER -> IF i >= Len(r.progs[p].insns) THEN Fail(r, ERELOC)
                      ELSE CASE rel.type = "LD64" ->
                                    [r EXCEPT !.progs[p].insns[i].src = "map_fd",
                                              !.progs[p].insns[i].imm = Fd(rel.map)]
                             [] rel.type = "DATA" ->
                                    Value(Fd(rel.map), r.progs[p].insns[i].imm + rel.off)
                             [] rel.type = "EXTERN" ->
                                    Value(Fd(r.obj.kconfigMapIdx), rel.off)
                             [] OTHER -> RelocText(r, p, rel)

\* bpf_program__relocate()
RelocProgram(r, p) ==
    LET Insn(q, rel) == RelocInsn(p, q, rel)
        All(q) == FoldLeft(Insn, q, q.obj.progs[p].relocs)
        Own(q) == RelocBtfExt(q, p, q.obj.progs[p].sec, 0)
    IN  Then(Then(r, Own), All)

\* bpf_object__relocate(): the programs in the order of their sections.
bpf_object__relocate(o) == FoldLeftDomain(RelocProgram, Loadable(o), o.progs)

-----------------------------------------------------------------------------
(***************************************************************************)
(* What a linked object must be, said without the steps above.  f is the   *)
(* file and r what bpf_object__relocate() made of it.                      *)
(***************************************************************************)

\* The relocations of the section with index i: pairs of a relocation and
\* its symbol.
RelsOf(f, i) == UNION {{<<rel, f.syms[rel.sym]>> : rel \in Range(f.secs[s].rels)} :
                       s \in {s \in DOMAIN f.secs : f.secs[s].type = "REL" /\ f.secs[s].of = i}}

\* The maps named by a symbol: by its name, or by the section of a variable.
MapsNamed(r, f, sym) ==
    {m \in DOMAIN r.obj.maps :
        IF sym.sec = 0 THEN r.obj.maps[m].type = ".kconfig"
        ELSE IF f.secs[sym.sec].name \in {"maps", ".maps"} THEN r.obj.maps[m].name = sym.name
        ELSE r.obj.maps[m].type = f.secs[sym.sec].name}

\* Where in the value of its map the symbol of a variable or extern lies.
ValueOffset(r, sym) ==
    IF sym.sec = 0 THEN r.obj.externs[find_extern_by_name(r.obj.externs, sym.name)].off ELSE sym.val

\* The instruction of a relocation refers to what its symbol names.
RefersTo(r, f, p, rel, sym) ==
    LET i == rel.off \div InsnSize + 1
        insns == r.progs[p].insns
        maps == MapsNamed(r, f, sym)
    IN  CASE insns[i].op = "call" ->
                 /\ r.progs[p].main > 0
                 /\ i + insns[i].imm = r.progs[p].main + sym.val \div InsnSize
          [] insns[i].op # "call" /\ sym.sec # 0 /\ f.secs[sym.sec].name \in {"maps", ".maps"} ->
                 insns[i].src = "map_fd" /\ maps = {insns[i].imm - Fd(0)}
          [] OTHER -> /\ insns[i].src = "map_value" /\ maps = {insns[i].imm - Fd(0)}
                      /\ insns[i + 1].imm = ValueOffset(r, sym)

\* A copy of ".text" is the section as it is linked itself, after the code.
TextCopied(r, p) ==
    r.progs[p].main > 0 =>
        \E t \in DOMAIN r.progs :
            /\ r.obj.progs[t].sec = ".text"
            /\ SubSeq(r.progs[p].insns, r.progs[p].main + 1, Len(r.progs[p].insns)) = r.progs[t].insns

\* Function and line records are those of the program and of its copy.
InfoComplete(r, f, p, info) ==
    LET Of(sec, at) == {<<sec, off \div InsnSize + at>> :
                          off \in UNION {Range(e.offs) : e \in {e \in Range(f.ext[info]) : e.sec = sec}}}
        main == r.progs[p].main
    IN  r.progs[p][info] # <<>> =>
          /\ Range(r.progs[p][info]) =
                {x[2] : x \in Of(r.obj.progs[p].sec, 0) \cup (IF main = 0 THEN {} ELSE Of(".text", main))}

\* No two externs share a byte of the map, and all lie inside it.
ExternsPlaced(r) ==
    LET e == r.obj.externs
        kc == {m \in DOMAIN r.obj.maps : r.obj.maps[m].type = ".kconfig"}
    IN  \A i \in DOMAIN e :
          /\ e[i].off % e[i].align = 0
          /\ \A m \in kc : e[i].off + e[i].sz <= r.obj.maps[m].def.value
          /\ \A j \in DOMAIN e \ {i} : e[i].off + e[i].sz <= e[j].off \/ e[j].off + e[j].sz <= e[i].off

Linked(r, f) ==
    /\ ExternsPlaced(r)
    /\ \A p \in DOMAIN r.progs :
          /\ \A x \in RelsOf(f, r.obj.progs[p].idx) : RefersTo(r, f, p, x[1], x[2])
          /\ TextCopied(r, p)
          /\ HasExt(r.obj) => InfoComplete(r, f, p, "func") /\ InfoComplete(r, f, p, "line")

-----------------------------------------------------------------------------
(***************************************************************************)
(* bpf_object__resolve_externs() of libbpf.c: before an object is loaded,  *)
(* its externs get their values, the version of the kernel or options of   *)
(* the kernel's configuration, in the memory of the ".kconfig" map.        *)
(*                                                                         *)
(* A line of a configuration is [name, val]; val is [k, v] with k one of   *)
(* "none" (nothing after the name), "empty" (nothing after the sign),      *)
(* "tri" (y, n or m), "str" (a string of v characters), "open" (a string   *)
(* without its closing quote), "num" (a 64-bit integer) and "text"         *)
(* (anything else).  The memory holds one cell per byte, the cell of byte  *)
(* j of a value v being <<v, j>> and 0 before anything is written.         *)
(***************************************************************************)

CONSTANT ByteBits       \* bits of a byte, scaled down from 8

ERANGE == -34
WordSize == 8
Pow2(bytes) == 2 ^ (bytes * ByteBits)

Config(name) == name \notin {"LINUX_KERNEL_VERSION", "other"}

\* Mutant: the sign of the extern is not looked at.
InRangeUnsigned(e, v) == e.sz = WordSize \/ v \div Pow2(e.sz) = 0

\* is_ext_value_in_range(): v is what the parser made of the number, a
\* negative one being its two's complement in 64 bits.
InRange(e, v) ==
    LET half == Pow2(e.sz) \div 2
    IN  CASE e.sz = WordSize -> TRUE
          [] e.sz # WordSize /\ e.signed -> (v + half) % Pow2(WordSize) < Pow2(e.sz)
          [] OTHER -> v \div Pow2(e.sz) = 0

\* The next two assign n bytes at the extern's place and mark it set.
Store(st, i, n, v) ==
    LET off == st.exts[i].off
    IN  [st EXCEPT !.exts[i].set = TRUE,
                   !.mem = [a \in DOMAIN @ |-> IF a \in off .. off + n - 1
                                                 THEN <<v, a - off>> ELSE @[a]]]

set_ext_value_tri(st, i, v) ==
    LET e == st.exts[i]
    IN  CASE e.type = "bool" -> IF v = "m" THEN Fail(st, EINVAL) ELSE Store(st, i, 1, v)
          [] e.type = "tristate" -> Store(st, i, 4, v)
          [] e.type = "char" -> Store(st, i, 1, v)
          [] OTHER -> Fail(st, EINVAL)

\* A string that does not fit is cut so that its terminator does.
set_ext_value_str(st, i, val) ==
    LET e == st.exts[i]
    IN  CASE e.type # "char_arr" \/ val.k = "open" -> Fail(st, EINVAL)
          [] OTHER -> Store(st, i, (IF val.v >= e.sz THEN e.sz - 1 ELSE val.v) + 1, val)

set_ext_value_num(st, i, v) ==
    LET e == st.exts[i]
    IN  CASE e.type \notin {"int", "char"} -> Fail(st, EINVAL)
          [] e.type \in {"int", "char"} /\ ~InRange(e, v) -> Fail(st, ERANGE)
          [] OTHER -> Store(st, i, e.sz, v % Pow2(e.sz))

\* bpf_object__process_kconfig_line(): the first line for an extern counts.
ProcessLine(st, line) ==
    LET i == find_extern_by_name(st.exts, line.name)
    IN  CASE st.err # 0 \/ ~Config(line.name) -> st
          [] OTHER -> CASE line.val.k \in {"none", "empty"} -> Fail(st, EINVAL)
                        [] i = 0 -> st
                        [] OTHER -> CASE st.exts[i].set -> st
                                      [] line.val.k = "tri" -> set_ext_value_tri(st, i, line.val.v)
                                      [] line.val.k \in {"str", "open"} -> set_ext_value_str(st, i, line.val)
                                      [] line.val.k = "text" -> Fail(st, EINVAL)
                                      [] OTHER -> set_ext_value_num(st, i, line.val.v)

\* bpf_object__read_kconfig_mem() and bpf_object__read_kconfig_file(): any
\* failure is EINVAL to the caller; there may be no file to open.
ReadKconfig(st, lines) ==
    LET Read(r) == IF r.err # 0 THEN Fail(r, EINVAL) ELSE r
    IN  Read(FoldLeft(ProcessLine, st, lines))

\* The pass over the externs that looks at their names.
NameExtern(st, i) ==
    CASE st.err # 0 \/ Config(st.exts[i].name) -> st
      [] st.exts[i].name = "LINUX_KERNEL_VERSION" -> set_ext_value_num(st, i, st.kver)
      [] OTHER -> Fail(st, EINVAL)

AllSet(st) == \A i \in DOMAIN st.exts : st.exts[i].set

\* bpf_object__resolve_externs(): extra is the caller's configuration or
\* <<>>, system the kernel's, with file FALSE if it cannot be opened.
bpf_object__resolve_externs(o, kver, extra, file, system) ==
    LET size   == IF o.externs = <<>> THEN 0
                  ELSE o.externs[Len(o.externs)].off + o.externs[Len(o.externs)].sz
        st0    == [err |-> 0, exts |-> o.externs, kver |-> kver,
                   mem |-> [a \in 0 .. size - 1 |-> 0]]
        wanted == \E i \in DOMAIN o.externs : Config(o.externs[i].name)
        Extra(st)  == IF wanted /\ extra # <<>> THEN ReadKconfig(st, extra) ELSE st
        System(st) == IF ~wanted \/ (extra # <<>> /\ AllSet(st)) THEN st
                      ELSE IF file THEN ReadKconfig(st, system) ELSE Fail(st, EINVAL)
        Strong(st) == IF \E i \in DOMAIN st.exts : ~st.exts[i].set /\ ~st.exts[i].weak
                      THEN Fail(st, ESRCH) ELSE st
    IN  Then(Then(Then(FoldLeftDomain(NameExtern, st0, o.externs), Extra), System), Strong)

-----------------------------------------------------------------------------
(***************************************************************************)
(* What the programs must find in the map, said on integers: an extern has *)
(* the value of the first line that names it, the caller's lines before    *)
(* the kernel's, and zeroes if there is none.                              *)
(***************************************************************************)
Signed(v, bytes) == IF v < Pow2(bytes) \div 2 THEN v ELSE v - Pow2(bytes)

FirstVal(lines, name) ==
    LET Test(l) == l.name = name
    IN  lines[SelectInSeq(lines, Test)].val

Bytes(st, e, n) == [j \in 0 .. n - 1 |-> st.mem[e.off + j]]
Whole(v, n) == [j \in 0 .. n - 1 |-> <<v, j>>]

HoldsValue(st, e, val) ==
    CASE val.k = "num" ->
            \E v \in 0 .. Pow2(e.sz) - 1 :
               /\ Bytes(st, e, e.sz) = Whole(v, e.sz)
               /\ IF e.signed THEN Signed(v, e.sz) = Signed(val.v, WordSize) ELSE v = val.v
      [] val.k = "tri" -> \E n \in {1, 4} : n = e.sz /\ Bytes(st, e, n) = Whole(val.v, n)
      [] val.k = "str" -> LET n == IF val.v < e.sz THEN val.v + 1 ELSE e.sz
                          IN  Bytes(st, e, n) = Whole(val, n)
      [] OTHER -> FALSE

Resolved(st, lines) ==
    \A i \in DOMAIN st.exts :
        LET e == st.exts[i]
        IN  CASE e.name = "LINUX_KERNEL_VERSION" ->
                     HoldsValue(st, e, [k |-> "num", v |-> st.kver])
              [] e.name # "LINUX_KERNEL_VERSION" /\ \E l \in Range(lines) : l.name = e.name ->
                     HoldsValue(st, e, FirstVal(lines, e.name))
              [] OTHER -> e.weak /\ \A j \in 0 .. e.sz - 1 : st.mem[e.off + j] = 0

=============================================================================
