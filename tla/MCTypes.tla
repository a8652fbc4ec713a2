------------------------------- MODULE MCTypes -------------------------------
(***************************************************************************)
(* The types on which TLC checks the modules on BTF, one part after another. *)
(***************************************************************************)
EXTENDS Calc, BpfCore, BtfDump, BtfParse, FiniteSets

(***************************************************************************)
(* The type descriptions on which TLC checks CO-RE relocations (BpfCore).  *)
(***************************************************************************)

MCFlavors == [n \in {"T___v2"} |-> "T"]

Base == << Type("INT", "int", 4, 0, "signed", <<>>), Type("ARRAY", "", 2, 1, "", <<>>),
           Type("PTR", "", 0, 1, "", <<>>), Type("ARRAY", "", 0, 1, "", <<>>),
           Type("INT", "long", 8, 0, "signed", <<>>), Type("ENUM", "E", 4, 0, "", <<>>) >>
Bits(n, t, v, b) == [Memb(n, t, v) EXCEPT !.b = b]

\* A structure T of the kernel: where its fields a and b are, if anywhere.
Shapes == {"plain", "swapped", "nested", "nested2", "lacks", "pointer", "bits", "wide", "flex", "long"}
ShapeOf(shape, name) ==
    LET S(n, size, m) == <<Type("STRUCT", n, size, 0, "", m)>>
        Anon == Len(Base) + 2
    IN  CASE shape = "plain"   -> S(name, 12, <<Memb("a", 1, 0), Memb("b", 2, 32)>>)
          [] shape = "swapped" -> S(name, 12, <<Memb("b", 2, 0), Memb("a", 1, 64)>>)
          [] shape = "nested"  -> S(name, 20, <<Memb("x", 1, 0), Memb("", Anon, 32), Memb("b", 2, 96)>>)
          [] shape = "nested2" -> S(name, 20, <<Memb("", Anon, 0), Memb("b", 2, 64), Memb("c", 1, 128)>>)
          [] shape = "lacks"   -> S(name, 12, <<Memb("x", 1, 0), Memb("b", 2, 32)>>)
          [] shape = "pointer" -> S(name, 16, <<Memb("a", 3, 0), Memb("b", 2, 64)>>)
          [] shape = "bits"    -> S(name, 12, <<Bits("x", 1, 0, 29), Bits("a", 1, 29, 3), Memb("b", 2, 32)>>)
          [] shape = "wide"    -> S(name, 16, <<Bits("x", 1, 0, 30), Bits("a", 1, 30, 5), Memb("b", 2, 64)>>)
          [] shape = "flex"    -> S(name, 4, <<Memb("a", 1, 0), Memb("b", 4, 32)>>)
          [] shape = "long"    -> S(name, 16, <<Memb("a", 5, 0), Memb("b", 2, 64)>>)

\* T, the structure "nested" holds, and another flavour of T.
Kernel(s1, s2) ==
    Base \o ShapeOf(s1, "T")
         \o <<Type("STRUCT", "", 8, 0, "", <<Memb("y", 1, 0), Memb("a", 1, 32)>>)>>
         \o (IF s2 = "none" THEN <<>> ELSE ShapeOf(s2, "T___v2"))
Local(shape) == Kernel(shape, "none")

\* The relocations a compiler makes: the operand is right for the local type.
Access == [offsetA |-> <<"offset", "a">>, sizeA |-> <<"size", "a">>, existsA |-> <<"exists", "a">>,
           lshiftA |-> <<"lshift", "a">>, rshiftA |-> <<"rshift", "a">>, signedA |-> <<"signed", "a">>,
           offsetB |-> <<"offset", "b">>, sizeB |-> <<"size", "b">>]
RawOf(shape, field) ==
    IF field = "a" THEN CASE shape = "plain" -> <<0, 0>> [] shape = "nested" -> <<0, 1, 1>> [] OTHER -> <<0, 1>>
    ELSE CASE shape = "plain" -> <<0, 1, 1>> [] OTHER -> <<0, 2, 1>>
Relo(shape, a, i) == [type |-> Len(Base) + 1, raw |-> RawOf(shape, Access[a][2]), kind |-> Access[a][1], insn |-> i]
InsnFor(lb, relo, class) ==
    LET local == bpf_core_spec_parse(lb, relo.type, relo.raw)
    IN  [class |-> class, k |-> TRUE,
         val |-> IF relo.kind = "exists" THEN 1 ELSE CalcField(relo.kind, lb, local).val]

CoreInit ==
    \E local \in {"plain", "nested", "bits"}, s1 \in Shapes, s2 \in Shapes \cup {"none"},
       first, second \in DOMAIN Access, relaxed, load \in BOOLEAN :
        /\ first # second
        /\ load => first = "offsetA"
        /\ load \/ relaxed => second \in {"existsA", "offsetB"}
        /\ s2 # "none" => second \in {"offsetA", "sizeA", "existsA", "offsetB"}
        /\ Asked("core", [local |-> local, s1 |-> s1, s2 |-> s2, first |-> first, second |-> second,
                          relaxed |-> relaxed, load |-> load])

Relos(c) == <<Relo(c.local, c.first, 1), Relo(c.local, c.second, 2)>>

\* The first instruction may be a load.
InsnClass(c, kind, i) == IF i = 1 /\ c.load /\ kind = "offset" THEN "LDX" ELSE "ALU"

Core ==
    Called("core") /\ \E c \in {calc.in} : \E lb \in {Local(c.local)}, relos \in {Relos(c)} :
        Returns("core", bpf_core_reloc_fields(lb, Kernel(c.s1, c.s2), c.relaxed,
                            [i \in 1 .. 2 |-> InsnFor(lb, relos[i], InsnClass(c, relos[i].kind, i))], relos))

(***************************************************************************)
(* When bpf_core_reloc_fields() succeeds, the layout every instruction was *)
(* patched for is a layout all the structures of the kernel still          *)
(* considered agree on, whatever the order of the relocations.             *)
(***************************************************************************)
LayoutsAgree ==
    Returned("core") =>
        (calc.out[1].err = 0 =>
            Relocated(Local(calc.in.local), Kernel(calc.in.s1, calc.in.s2), Relos(calc.in), calc.out[1]))

-----------------------------------------------------------------------------
(***************************************************************************)
(* BTF files as a compiler writes them, whole or damaged, and kernels that *)
(* know some of the kinds.                                                 *)
(***************************************************************************)

\* "\0int\0.a\0f\0x\0": the strings, and where the names start
Strings == <<0, 105, 110, 116, 0, 46, 97, 0, 102, 0, 120, 0>>
Name == [none |-> 0, int |-> 1, sec |-> 5, f |-> 8, x |-> 10]

\* The words of a type; pos tells the id of each type of the file
Words(label, pos, vlen) ==
    CASE label = "int"   -> <<Name.int, BTF_INFO_ENC("INT", 0), 4, 32>>
      [] label = "var"   -> <<Name.x, BTF_INFO_ENC("VAR", 0), pos["int"], 1>>
      [] label = "sec"   -> <<Name.sec, BTF_INFO_ENC("DATASEC", vlen), 4 * vlen>>
                              \o FlattenSeq([j \in 1..vlen |-> <<pos["var"], 4 * (j - 1), 4>>])
      [] label = "proto" -> <<0, BTF_INFO_ENC("FUNC_PROTO", vlen), pos["int"]>>
                              \o FlattenSeq([j \in 1..vlen |-> <<Name.x, pos["int"]>>])
      [] label = "func"  -> <<Name.f, BTF_INFO_ENC("FUNC", 0), pos["proto"]>>
      [] label = "enum"  -> <<0, BTF_INFO_ENC("ENUM", vlen), 4>>
                              \o FlattenSeq([j \in 1..vlen |-> <<Name.x, j>>])
      [] label = "struct" -> <<Name.f, BTF_INFO_ENC("STRUCT", vlen), 4 * vlen>>
                              \o FlattenSeq([j \in 1..vlen |-> <<Name.x, pos["int"], 32 * (j - 1)>>])
      [] label = "array" -> <<0, BTF_INFO_ENC("ARRAY", 0), 0, pos["int"], pos["int"], 3>>
      [] label = "ptr"   -> <<0, BTF_INFO_ENC("PTR", 0), pos["proto"]>>

Position(order) == [l \in Range(order) |-> CHOOSE i \in DOMAIN order : order[i] = l]
TypeWords(order, vlen) == [i \in DOMAIN order |-> Words(order[i], Position(order), vlen)]

BtfFile(words) ==
    [hdr |-> [magic |-> BtfMagic, version |-> BtfVersion, flags |-> 0, type_off |-> 0,
              str_off |-> 4 * Len(words), str_len |-> Len(Strings)],
     size |-> HdrSize + 4 * Len(words) + Len(Strings), words |-> words, strs |-> Strings]

Damaged(f, how) ==
    CASE how = "magic"   -> [f EXCEPT !.hdr.magic = 0]
      [] how = "version" -> [f EXCEPT !.hdr.version = 2]
      [] how = "flags"   -> [f EXCEPT !.hdr.flags = 1]
      [] how = "short"   -> [f EXCEPT !.size = HdrSize - 1]
      [] how = "nodata"  -> [f EXCEPT !.size = HdrSize]
      [] how = "notypes" -> [f EXCEPT !.hdr.type_off = f.hdr.str_off]
      [] how = "align"   -> [f EXCEPT !.hdr.type_off = 2]
      [] how = "far"     -> [f EXCEPT !.hdr.str_off = f.size]
      [] how = "nostr"   -> [f EXCEPT !.hdr.str_len = 0]
      [] how = "open"    -> [f EXCEPT !.hdr.str_len = @ - 1]
      [] how = "kind"    -> [f EXCEPT !.words[2] = 16 * 256]
      [] OTHER           -> f
Damage == {"no", "magic", "version", "flags", "short", "nodata", "notypes", "align", "far", "nostr", "open",
           "kind"}

Orders(labels) == {o \in [1..Cardinality(labels) -> labels] : Range(o) = labels}
AllLabels == {"int", "var", "sec", "proto", "func"}

ParseInit ==
    \/ \E o \in Orders(AllLabels), vlen \in 0..2, how \in Damage, noMemory \in {"none", "btf", "data", "types"} :
        /\ how # "no" => noMemory = "none" /\ o[1] = "int"
        /\ Asked("parse", [parts |-> TypeWords(o, vlen), how |-> how, noMemory |-> noMemory])
    \/ \E o \in Orders({"int", "proto", "enum", "struct", "array"}), vlen \in 0..2 :
        Asked("parse", [parts |-> TypeWords(o, vlen), how |-> "no", noMemory |-> "none"])
    \/ \E n \in {14, 15, 16, 31, 32, 47, 63, 64, 80} :
        Asked("parse", [parts |-> [i \in 1..n |-> <<0, BTF_INFO_ENC("PTR", 0), 0>>], how |-> "no",
                        noMemory |-> "none"])
Parse ==
    LET in == calc.in
    IN  Returns("parse", btf__new(Damaged(BtfFile(FlattenSeq(in.parts)), in.how), in.noMemory))

\* .BTF.ext: up to two sections in each table, one table damaged
ExtTable(rec, counts) ==
    <<4 * rec>> \o FlattenSeq([i \in DOMAIN counts |->
                        <<5, counts[i]>> \o [j \in 1..(rec * counts[i]) |-> 9]])
Counts == {<<1>>, <<2>>, <<1, 2>>, <<0>>}
ExtWays == {"no", "off", "rec", "odd", "cut", "past", "empty"}

ExtInit ==
    \E counts \in [{"func", "line", "field"} -> Counts], more \in 0..1, how \in ExtWays,
       hdr_len \in {8, 24, 32}, which \in {"func", "line", "field"}, absent \in SUBSET {"line", "field"} :
        /\ how = "no" => which = "func"
        /\ absent # {} => how = "no"
        /\ Asked("ext", [counts |-> counts, more |-> more, how |-> how, hdr_len |-> hdr_len,
                         which |-> which, absent |-> absent])

ExtFile(in) ==
    LET Table(x) == IF x \in in.absent THEN <<>> ELSE ExtTable(MinRec[x] + in.more, in.counts[x])
        len == [x \in {"func", "line", "field"} |-> 4 * Len(Table(x))]
        off == [func |-> 0, line |-> len["func"], field |-> len["func"] + len["line"]]
        words == Table("func") \o Table("line") \o Table("field")
        w  == in.which
        rec == off[w] \div 4 + 1
        Entry(x) == [off |-> IF in.how = "off" /\ x = w THEN off[x] + 2 ELSE off[x],
                     len |-> CASE x # w -> len[x]
                               [] in.how = "cut" -> len[x] - 4
                               [] in.how = "past" -> 4 * Len(words) + 4
                               [] in.how = "empty" -> 4
                               [] OTHER -> len[x]]
    IN  [hdr |-> [magic |-> BtfMagic, version |-> BtfVersion, flags |-> 0, hdr_len |-> in.hdr_len,
                  func |-> Entry("func"), line |-> Entry("line"), field |-> Entry("field")],
         size |-> in.hdr_len + 4 * Len(words),
         words |-> CASE in.how = "rec" -> [words EXCEPT ![rec] = 4 * (MinRec[w] - 1)]
                     [] in.how = "odd" -> [words EXCEPT ![rec] = @ + 2]
                     [] OTHER -> words]
Ext == Returns("ext", btf_ext__new(ExtFile(calc.in), FALSE))

\* An object file with some of the sections
ElfInit ==
    \E names \in UNION {[1..n -> {".BTF", ".BTF.ext", ".text"}] : n \in 0..3}, want \in BOOLEAN,
       fails \in {"no", "open", "begin", "ehdr", "endian", "strings", "section"},
       badBtf, badExt, noData \in BOOLEAN :
        Asked("elf", [names |-> names, want |-> want, fails |-> fails, badBtf |-> badBtf, badExt |-> badExt,
                      noData |-> noData])
GoodExt == [counts |-> [x \in {"func", "line", "field"} |-> <<1>>], more |-> 0, how |-> "no", hdr_len |-> 32,
            which |-> "func", absent |-> {}]
ElfRaw(in, n) ==
    IF n = ".BTF.ext" THEN ExtFile([GoodExt EXCEPT !.how = IF in.badExt THEN "odd" ELSE "no"])
    ELSE Damaged(BtfFile(FlattenSeq(TypeWords(<<"int">>, 0))), IF in.badBtf THEN "magic" ELSE "no")

ParseElf ==
    LET in == calc.in
        Scn(n) == [name |-> n, data |-> ~in.noData \/ n # ".BTF.ext", raw |-> ElfRaw(in, n)]
    IN  Returns("elf", btf__parse_elf([fails |-> in.fails,
                           scns |-> [i \in DOMAIN in.names |-> Scn(in.names[i])]], in.want))

\* BTF given to a kernel without functions, without sections or without both
CleanInit ==
    \E o \in Orders(AllLabels), vlen \in 1..2, func, datasec, ext, mandatory, other \in BOOLEAN :
        Asked("clean", [order |-> o, vlen |-> vlen, caps |-> [btf_func |-> func, btf_datasec |-> datasec],
                        ext |-> ext, mandatory |-> mandatory, other |-> other])

KnownKinds(caps) ==
    Range(KindNames) \ ((IF caps.btf_func THEN {} ELSE {"FUNC", "FUNC_PROTO"})
                          \cup (IF caps.btf_datasec THEN {} ELSE {"VAR", "DATASEC"}))

\* What a kernel checks: known kinds, valid names, types and members that are
\* there and fit.  other: whether it has nothing else against these types.
NameByte(c) == c \in (97..122) \cup {Underscore}
RECURSIVE GoodName(_, _)
GoodName(strs, i) == strs[i] = 0 \/ (NameByte(strs[i]) /\ GoodName(strs, i + 1))

KernelTakes(b, caps) ==
    \A id \in DOMAIN b.types :
        LET info == WordOf(b, id, 2)
            refs == {"PTR", "TYPEDEF", "FUNC", "VAR", "CONST"}
            MemberFits(j) ==
                LET at == 1 + 3 * j
                    t  == WordOf(b, id, at + 1)
                IN  /\ t \in DOMAIN b.types
                    /\ KindIs(WordOf(b, t, 2), {"INT"})
                    /\ WordOf(b, id, at + 2) + 8 * WordOf(b, t, 3) <= 8 * WordOf(b, id, 3)
                    /\ GoodName(b.strs, WordOf(b, id, at) + 1)
        IN  /\ KindIs(info, KnownKinds(caps))
            /\ KindIs(info, refs) => WordOf(b, id, 3) \in DOMAIN b.types
            /\ KindIs(info, {"STRUCT"}) =>
                  GoodName(b.strs, WordOf(b, id, 1) + 1) /\ \A j \in 1..VlenOf(info) : MemberFits(j)
            /\ KindIs(info, {"ENUM"}) => WordOf(b, id, 3) = 4

Parsed(order, vlen) ==
    LET f == BtfFile(FlattenSeq(TypeWords(order, vlen)))
    IN  [words |-> f.words, strs |-> f.strs, types |-> btf__new(f, "none").types]

Clean ==
    LET in == calc.in
        b == Parsed(in.order, in.vlen)
        takes == in.other /\ KernelTakes(bpf_object__sanitize_btf(b, in.caps), in.caps)
    IN  Returns("clean", bpf_object__sanitize_and_load_btf(b, in.ext, in.caps, in.mandatory, takes))

----------------------------------------------------------------------------
(***************************************************************************)
(* btf__new(): BTF as a compiler writes it is read type by type: the table *)
(* holds where each of them starts, in order, and never more entries than  *)
(* it has room for; damaged BTF is refused.  btf_ext__new(): every table   *)
(* the header has is found, as long as its sections fill it exactly; one   *)
(* that is wrong spoils .BTF.ext.  btf__parse_elf(): the last sections of  *)
(* the names count, and nothing is left when an error is returned.         *)
(***************************************************************************)
TypesRead ==
    LET in  == calc.in
        out == calc.out[1]
    IN  /\ Returned("parse") =>
             LET Start(i) == 1 + Len(FlattenSeq(SubSeq(in.parts, 1, i - 1)))
             IN  IF in.how = "no" /\ in.noMemory = "none"
                 THEN /\ out.err = 0 /\ out.types = [i \in DOMAIN in.parts |-> Start(i)]
                      /\ Len(in.parts) < out.cap
                 ELSE out.err # 0 /\ out.types = <<>>
        /\ Returned("ext") =>
             LET has == {x \in {"func", "line", "field"} : HdrLenWith[x] <= in.hdr_len}
                 wrong == {x \in has \ in.absent : \/ \E i \in DOMAIN in.counts[x] : in.counts[x][i] = 0
                                                   \/ in.how # "no" /\ x = in.which}
             IN  /\ (out.err = 0) = (wrong = {})
                 /\ out.err = 0 => /\ DOMAIN out.infos = has
                                   /\ \A x \in has \cap in.absent : out.infos[x] = NoExtInfo
                                   /\ \A x \in has \ in.absent :
                                          /\ out.infos[x].rec = 4 * (MinRec[x] + in.more)
                                          /\ out.infos[x].len =
                                                4 * Len(ExtTable(MinRec[x] + in.more, in.counts[x])) - 4
        /\ Returned("elf") =>
             /\ (out.err = 0) = ("btf" \in out.open)
             /\ ("ext" \in out.open) => ("btf" \in out.open) /\ in.want /\ ~in.badExt
             /\ (out.err = 0) = /\ in.fails = "no" /\ ".BTF" \in Range(in.names) /\ ~in.badBtf
                                /\ (in.want /\ ".BTF.ext" \in Range(in.names)) => ~in.badExt /\ ~in.noData

(***************************************************************************)
(* bpf_object__sanitize_btf(): a kernel that knows fewer kinds takes the   *)
(* rewritten types, every one of them starting where it started, with the  *)
(* variables of a section now members at the same offsets and of the same  *)
(* names; what is not rewritten is unchanged.  An object is refused only   *)
(* when it needs the BTF that the kernel refused, and never keeps          *)
(* .BTF.ext without BTF, or for a kernel without functions.                *)
(***************************************************************************)
SanitizedBtfLoads ==
    Returned("clean") =>
        \A in \in {calc.in}, o \in {calc.out[1]} :
        \A b \in {Parsed(in.order, in.vlen)}, again \in {btf__new(BtfFile(o.b.words), "none")},
           pos \in {Position(in.order)} :
            /\ in.other <=> o.btf
            /\ o.err # 0 <=> in.mandatory /\ ~o.btf
            /\ o.ext => o.btf /\ in.caps.btf_func
            /\ again.err = 0 /\ again.types = b.types
            /\ ~in.caps.btf_datasec =>
                  \A j \in 1..in.vlen : LET at == 1 + 3 * j
                                        IN  /\ WordOf(o.b, pos["sec"], at) = Name.x
                                            /\ WordOf(o.b, pos["sec"], at + 1) = pos["var"]
                                            /\ WordOf(o.b, pos["sec"], at + 2) = 32 * (j - 1)
            /\ \A id \in DOMAIN b.types :
                  KindIs(WordOf(b, id, 2), KnownKinds(in.caps)) =>
                      \A j \in 1..btf_type_size(WordOf(b, id, 2)) : WordOf(o.b, id, j) = WordOf(b, id, j)

-----------------------------------------------------------------------------
(***************************************************************************)
(* The type information on which TLC checks BtfDedup: that of units of one *)
(* program put one after the other.  Every unit has int, the structures A, *)
(* B and S of the comment on btf__dedup(), pointers to them, an            *)
(* enumeration, and types that refer to these; what it only declares is a  *)
(* FWD, or an enumeration without values.                                  *)
(***************************************************************************)

\* Strings: "", then the names of types and members; 9 is in no use.
UnitStrs == <<1, 2, 3, 4, 5, 6, 7, 8, 9>>

\* The types of unit u, its first id being base + 1; rev puts them in the
\* opposite order.
UnitTypes(u, base, strBase) ==
    LET n == 13
        Id(i) == base + IF u.rev THEN n + 1 - i ELSE i
        Str(s) == strBase + s
        Ptr(i) == Type("PTR", 0, 0, Id(i), "", <<>>)
        Struct(name, how, size, members) ==
          IF how = "fwd" THEN Type("FWD", Str(name), 0, 0, "struct", <<>>)
          ELSE Type("STRUCT", Str(name), size, 0, "", members)
        First(how) == Memb(Str(7), IF how = "alt" THEN Id(8) ELSE Id(1), 0)
        types == <<
          Type("INT", Str(1), 4, 0, "signed", <<>>),
          Struct(2, u.A, 24, <<First(u.A), Memb(Str(8), Id(5), 64), Memb(Str(4), Id(7), 128)>>),
          Struct(3, u.B, 24, <<First(u.B), Memb(Str(8), Id(6), 64), Memb(Str(4), Id(7), 128)>>),
          Struct(4, u.S, 16, <<Memb(Str(2), Id(5), 0), Memb(Str(3), Id(6), 64)>>),
          Ptr(2), Ptr(3), Ptr(4),
          Type("ENUM", Str(5), 4, 0, "", IF u.E = "fwd" THEN <<>> ELSE <<Memb(Str(7), 0, 1)>>),
          Type("CONST", 0, 0, Id(8), "", <<>>),
          Type("ARRAY", 0, 2, Id(7), Id(1), <<>>),
          Type("FUNC_PROTO", 0, 0, 0, "", <<Memb(Str(7), Id(5), 0), Memb(Str(8), Id(9), 0)>>),
          Type("FUNC", Str(6), 0, Id(11), "", <<>>),
          Type("VAR", Str(7), 0, Id(10), "static", <<>>)>>
    IN  [i \in 1 .. n |-> types[IF u.rev THEN n + 1 - i ELSE i]]

DedupBlob(c) ==
    LET Types(r, u) == r \o UnitTypes(u, Len(r), Len(UnitStrs) * (Len(r) \div 13))
        Strs(r, u) == r \o UnitStrs
        line == <<[sec |-> 1, file |-> 2, text |-> c.text]>>
    IN  [types |-> FoldLeft(Types, <<>>, c.units), strs |-> FoldLeft(Strs, <<0>>, c.units),
         line |-> line, func |-> <<[sec |-> Len(UnitStrs) + 1]>>, err |-> 0]

\* Two units, in either order of types and with every choice of what they
\* define; and three, so that a declaration is resolved through a second unit.
Units(As, Es) == [A : As, B : {"def", "fwd"}, S : {"def", "fwd"}, E : Es, rev : {FALSE}]
Pairs == {<<u, [v EXCEPT !.rev = rev]>> :
             u, v \in Units({"def", "fwd", "alt"}, {"def", "fwd"}), rev \in BOOLEAN}
Triples == {<<u, v, w>> : u, v, w \in Units({"def", "fwd"}, {"def"})}

DedupInit ==
    \E units \in Pairs \cup Triples, dontResolve, collide \in BOOLEAN, text \in {3, 100} :
      /\ dontResolve => ~collide /\ Len(units) = 2 /\ units[2].rev
      /\ collide => units[2].rev /\ units[1].E = "def"
      /\ text # 3 => dontResolve /\ units[1] = units[2]
      /\ Asked("dedup", [units |-> units, dontResolve |-> dontResolve, collide |-> collide, text |-> text])

Dedup ==
    LET c == calc.in IN Returns("dedup", btf__dedup(DedupBlob(c), c.dontResolve, c.collide))

\* No unit declares a structure that two others define differently.
Unambiguous(c) ==
    c.dontResolve \/ ~\E u, v \in Range(c.units) : u.A = "alt" /\ "fwd" \in {v.A, v.S, v.B}

(***************************************************************************)
(* What btf__dedup() makes of the type information of several units says   *)
(* of every type what the input said, names and lines included, or gives a *)
(* definition for a declaration; and it says nothing twice, provided no    *)
(* declaration could stand for two definitions.                            *)
(***************************************************************************)
DedupExact ==
    (Returned("dedup") /\ calc.out[1].err = 0) =>
        LET b == DedupBlob(calc.in)
            r == calc.out[1]
        IN  /\ \A i \in DOMAIN b.types : Unambiguous(calc.in) => SameType(b, r, b.types[i], r.types[r.ids[i]])
            /\ \A i \in DOMAIN b.line : /\ r.strs[r.line[i].sec + 1] = b.strs[b.line[i].sec + 1]
                                        /\ r.strs[r.line[i].file + 1] = b.strs[b.line[i].file + 1]
                                        /\ r.strs[r.line[i].text + 1] = b.strs[b.line[i].text + 1]
            /\ Duplicates(r.types) = {}
            /\ Len(r.strs) = Cardinality(Range(r.strs))

-----------------------------------------------------------------------------
(***************************************************************************)
(* The types on which TLC checks BtfDump: those of small C programs with   *)
(* two structures, a typedef, an anonymous structure, a function pointer,  *)
(* an array and two enumerations that refer to each other; structures laid *)
(* out by a C compiler; and declarations.                                  *)
(***************************************************************************)

CONSTANT PtrToArray    \* whether a program has a pointer to an array of structures

Refer(k, n, t) == Type(k, n, 0, t, "", <<>>)

----------------------------------------------------------------------------
\* Programs

DumpTypes(c) ==
    LET Fields(ids) == [i \in DOMAIN ids |-> Memb(<<"f", i>>, ids[i], 0)]
    IN  << Type("INT", "int", 4, 0, "signed", <<>>),
           Type("STRUCT", "A", 8, 0, "", Fields(c.A)),
           Type("STRUCT", IF c.same THEN "A" ELSE "B", 8, 0, "", Fields(c.B)),
           Refer("PTR", "", 2),
           Refer("PTR", "", 3),
           Refer("TYPEDEF", IF c.same THEN "e" ELSE "T", c.T),
           Type("STRUCT", "", 8, 0, "", Fields(c.anon)),
           Type("FUNC_PROTO", "", 0, c.ret, "", Fields(<<c.param>>)),
           Refer("PTR", "", 8),
           Type("ENUM", "E", 4, 0, "", <<Memb("e", 0, 1)>>),
           Type("ENUM", "", 4, 0, "", <<Memb("e", 0, 1)>>),
           Type("ARRAY", "", 3, c.elem, 1, <<>>),
           Refer("PTR", "", 12),
           Refer("CONST", "", c.mod) >>

\* What a type must not lead back to: itself, other than by a pointer to a
\* named structure.
Hard(b, t) ==
    IF t.k = "PTR" /\ b[t.t].k = "STRUCT" /\ b[t.t].n # "" THEN {} ELSE Range(Refs(t))
RECURSIVE Settled(_, _)
Settled(b, S) ==
    LET T == S \cup {i \in DOMAIN b \ S : Hard(b, b[i]) \subseteq S} IN IF T = S THEN S ELSE Settled(b, T)
IsProgram(b) == DOMAIN b \subseteq Settled(b, {0})

Programs ==
    LET c == [A : {<<x, y>> : x \in {3, 5, 6, 7}, y \in {4, 9, 10, 12, 14} \cup IF PtrToArray THEN {13} ELSE {}},
              B : {<<4>>, <<6>>, <<11>>}, T : {2, 3, 5, 9, 10}, anon : {<<4>>, <<5>>, <<10>>},
              ret : {0, 2, 5}, param : {3, 6}, elem : {3, 6, 9}, mod : {5, 6}, same : BOOLEAN]
    IN  {x \in c : /\ x.mod # 5 => x.A[2] = 14
                   /\ x.elem # 3 => x.A[2] \in {12, 13}
                   /\ x.ret # 0 \/ x.param # 3 => x.A[2] = 9 \/ x.T = 9
                   /\ x.anon # <<4>> => x.A[1] = 7
                   /\ IsProgram(DumpTypes(x))}

DumpInit == \E c \in Programs, root \in {2, 6} : Asked("dump", [c |-> c, root |-> root])
Dump ==
    Called("dump") /\ \E first \in {btf_dump__dump_type(btf_dump__new(DumpTypes(calc.in.c)), calc.in.root)} :
        Returns("dump", IF first.ret < 0 THEN first ELSE btf_dump__dump_type(first.d, 3))

DumpSpec == DumpInit /\ [][Dump]_calc

\* Whether C accepts a mention of type id in the p-th definition, that of
\* own; complete if it has to know the size.
RECURSIVE Known(_, _, _, _, _)
Known(d, p, own, id, complete) ==
    LET t == btf__type_by_id(d.b, id)
        Before(what) == \E q \in 1 .. p - 1 : d.out[q] = <<what, id>>
    IN  CASE t.k \in {"VOID", "INT"} -> TRUE
          [] t.k = "PTR" -> Known(d, p, own, t.t, FALSE)
          [] t.k \in Mods -> Known(d, p, own, t.t, complete)
          [] t.k = "ARRAY" -> Known(d, p, own, t.t, TRUE)
          [] t.k = "STRUCT" /\ t.n = "" -> \A m \in Range(t.m) : Known(d, p, own, m.t, TRUE)
          [] t.k = "STRUCT" -> Before("def") \/ (~complete /\ (Before("fwd") \/ id = own))
          [] t.k = "ENUM" -> t.n = "" \/ Before("def")
          [] t.k = "TYPEDEF" -> Before("def") /\ (complete => Known(d, p, own, t.t, TRUE))
          [] t.k = "FUNC_PROTO" -> \A r \in Range(Refs(t)) : Known(d, p, own, r, FALSE)

(***************************************************************************)
(* What btf_dump__dump_type() prints of a program's types compiles: a      *)
(* definition mentions only what is declared before it, and uses by value  *)
(* only what is defined before it; nothing is defined twice, no two things *)
(* in one name space have one name, and the types asked for are defined.   *)
(***************************************************************************)
DumpCompiles ==
    Returned("dump") =>
        LET d == calc.out[1].d
            Tag(e) == <<e.space, e.name, e.no>>
        IN  /\ calc.out[1].ret = 0
            /\ \A p \in DOMAIN d.out :
                 LET id == d.out[p][2]
                     t == d.b[id]
                 IN  d.out[p][1] = "def" =>
                       /\ \A q \in 1 .. p - 1 : d.out[q] # d.out[p]
                       /\ t.k = "STRUCT" => \A m \in Range(t.m) : Known(d, p, id, m.t, TRUE)
                       /\ t.k = "TYPEDEF" => Known(d, p, id, t.t, FALSE)
            /\ \A i, j \in DOMAIN d.names : Tag(d.names[i]) = Tag(d.names[j]) => i = j
            /\ {<<"def", calc.in.root>>, <<"def", 3>>} \subseteq Range(d.out)

----------------------------------------------------------------------------
\* Structures

\* Types of fields, and bitfields as <<type, width>>
FieldTypes == <<
    Type("INT", "char", 1, 0, "char", <<>>), Type("INT", "short", 2, 0, "signed", <<>>),
    Type("INT", "int", 4, 0, "signed", <<>>), Type("INT", "long", 8, 0, "signed", <<>>),
    Type("ARRAY", "", 3, 1, 3, <<>>),
    Type("STRUCT", "N", 5, 0, "", <<Memb("c", 1, 0), Memb("i", 3, 8)>>),
    Type("STRUCT", "P", 16, 0, "", <<Memb("l", 4, 0), Memb("c", 1, 64)>>)>>
Plain == {<<i, 0>> : i \in DOMAIN FieldTypes}
BitFields == {<<3, 3>>, <<3, 29>>, <<1, 3>>, <<4, 40>>}

\* The type a compiler records for a structure of these fields; attr is the
\* alignment the program asked for in the last one.  (btf__align_of() does
\* not see that N is packed, and packed bitfields look like others; programs
\* that align the one or have the other are left out.)
Compiled(packed, fields, attr) ==
    LET CF(i) == LET f == fields[i]
                     a == IF i = Len(fields) THEN attr ELSE 0
                 IN  CField(btf__resolve_size(FieldTypes, f[1]),
                            IF a # 0 THEN a ELSE CAlign(FieldTypes, f[1]), f[2], a, FALSE)
        lay == CLayout(packed, [i \in DOMAIN fields |-> CF(i)])
        Mem(i) == [n |-> "f", t |-> fields[i][1], v |-> lay.offs[i], b |-> fields[i][2]]
    IN  Append(FieldTypes, Type("STRUCT", "S", lay.size \div 8, 0, "", [i \in DOMAIN fields |-> Mem(i)]))

LayoutInit ==
    \E packed \in BOOLEAN, n \in 1 .. 3, attr \in {0, 8} :
    \E fields \in [1 .. n -> Plain \cup IF packed THEN {} ELSE BitFields] :
        /\ attr # 0 => fields[n][2] = 0 /\ fields[n][1] # 6
        /\ Asked("layout", [packed |-> packed, fields |-> fields, attr |-> attr])
Layout ==
    Called("layout") /\ \E b \in {Compiled(calc.in.packed, calc.in.fields, calc.in.attr)} :
        Returns("layout", Recompiled(b, Len(b)))

LayoutKept ==
    Returned("layout") =>
        \A b \in {Compiled(calc.in.packed, calc.in.fields, calc.in.attr)} :
            calc.out[1] = [offs |-> [i \in DOMAIN Last(b).m |-> Last(b).m[i].v], size |-> 8 * Last(b).s]

----------------------------------------------------------------------------
\* Declarations

\* A chain of types that ends in int, in the order of their ids.  C has no
\* array of functions, no function that returns an array or a function, and
\* the modifiers of an array or a function are those of what it holds.
Links == {"PTR", "CONST", "VOLATILE", "ARRAY", "none", "void", "int", "more", "deep"}
Proto == {"none", "void", "int", "more", "deep"}
Chains ==
    UNION {{s \in [1 .. n -> Links] :
              \A i \in 1 .. n - 1 :
                 /\ s[i] \in Proto => s[i + 1] = "PTR"
                 /\ s[i] = "ARRAY" => s[i + 1] \in {"ARRAY", "PTR"}
                 /\ s[i] \in Mods => s[i + 1] # s[i]} : n \in 1 .. 4}

ChainTypes(s) ==
    LET Params(l) == CASE l = "none" -> <<>>
                       [] l = "void" -> <<Memb("", 0, 0)>>
                       [] l = "int" -> <<Memb("x", 1, 0)>>
                       [] l = "more" -> <<Memb("", 1, 0), Memb("", 0, 0)>>
                       [] l = "deep" -> <<Memb("y", 3, 0), Memb("", 5, 0)>>
        Link(i) == IF s[i] \in Proto THEN Type("FUNC_PROTO", "", 0, 4 + i, "", Params(s[i]))
                   ELSE Type(s[i], "", i, 4 + i, "", <<>>)
    IN  << Type("INT", "int", 4, 0, "signed", <<>>), Type("ARRAY", "", 7, 1, 1, <<>>), Refer("PTR", "", 2),
           Type("FUNC_PROTO", "", 0, 3, "", <<Memb("z", 3, 0)>>), Refer("PTR", "", 4)>>
        \o [i \in DOMAIN s |-> IF i = 1 THEN [Link(1) EXCEPT !.t = 1] ELSE Link(i)]

DeclInit == \E s \in Chains, name \in {"", "x"} : Asked("decl", [chain |-> s, name |-> name])
Decl ==
    LET b == ChainTypes(calc.in.chain) IN Returns("decl", btf_dump_emit_type_decl(b, Len(b), calc.in.name))

\* A chain with the modifiers of each part as a set
RECURSIVE Parts(_, _)
Parts(chain, mods) ==
    IF chain = <<>> THEN <<>>
    ELSE LET x == chain[1]
             In(p) == IF p[1].tok = "..." THEN <<p[1]>> ELSE Parts(p, {})
         IN  IF IsMod(x) THEN Parts(Tail(chain), mods \cup {x.tok})
             ELSE <<[mods |-> mods, tok |-> x.tok,
                     arg |-> IF x.tok = "params" THEN [i \in DOMAIN x.arg |-> In(x.arg[i])] ELSE x.arg]>>
                  \o Parts(Tail(chain), {})

DeclKept ==
    Returned("decl") =>
        LET b == ChainTypes(calc.in.chain)
        IN  Parts(ReadAll(calc.out[1]), {}) = Parts(Meant(b, Len(b)), {})

(***************************************************************************)
(* A compiler reads what btf_dump_emit_struct_def() prints as a structure  *)
(* with the same offsets and size, through the padding and the packed      *)
(* attribute it adds; and what btf_dump_emit_type_chain() prints, with its *)
(* parentheses around pointers, as the type that was asked for.            *)
(***************************************************************************)
DumpKeepsTypes == LayoutKept /\ DeclKept

=============================================================================
