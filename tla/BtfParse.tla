------------------------------ MODULE BtfParse ------------------------------
(***************************************************************************)
(* Reading BTF and .BTF.ext as they lie in a file, and rewriting BTF for a *)
(* kernel that does not know all of its kinds (src/lib/libbpf/src/btf.c,   *)
(* btf__new() and btf_ext__new(); libbpf.c, bpf_object__sanitize_btf()).   *)
(* Here BTF is what it is in memory: a header, 32-bit words, and bytes of  *)
(* strings.  Offsets and sizes are in bytes where the code counts bytes.   *)
(*   f  [hdr, size, words, strs]: words from offset 0, strs right after    *)
(***************************************************************************)
EXTENDS Btf, TLC

KindNames == <<"INT", "PTR", "ARRAY", "STRUCT", "UNION", "ENUM", "FWD", "TYPEDEF", "VOLATILE", "CONST",
               "RESTRICT", "FUNC", "FUNC_PROTO", "VAR", "DATASEC">>
KIND == [k \in Range(KindNames) |-> CHOOSE i \in DOMAIN KindNames : KindNames[i] = k]

BTF_INFO_ENC(kind, vlen) == KIND[kind] * 256 + vlen
KindIs(info, kinds) == \E k \in kinds : info \div 256 = KIND[k]
VlenOf(info) == info % 256

BtfMagic   == 7
BtfVersion == 1
HdrSize    == 24      \* sizeof(struct btf_header)
MaxStrOffset == 1000  \* BTF_MAX_STR_OFFSET, scaled down
MaxNrTypes   == 1000  \* BTF_MAX_NR_TYPES, scaled down

\* btf_parse_hdr()
btf_parse_hdr(f) ==
    LET h == f.hdr
        meta_left == f.size - HdrSize
    IN  IF f.size < HdrSize \/ h.magic # BtfMagic THEN EINVAL
        ELSE IF h.version # BtfVersion \/ h.flags # 0 THEN ENOTSUP
        ELSE IF \/ meta_left = 0 \/ meta_left < h.type_off \/ meta_left < h.str_off
                \/ h.type_off >= h.str_off \/ (h.type_off \div 2) % 2 = 1 THEN EINVAL
        ELSE 0

\* btf_parse_str_sec()
btf_parse_str_sec(f) ==
    LET first == f.hdr.str_off - 4 * Len(f.words) + 1
        last  == first + f.hdr.str_len - 1
    IN  IF \/ f.hdr.str_len = 0 \/ f.hdr.str_len - 1 > MaxStrOffset
           \/ f.strs[first] # 0 \/ f.strs[last] # 0 THEN EINVAL
        ELSE 0

\* btf_type_size(), in words
ParamAsMember(info) ==          \* a parameter taken for a member
    IF KindIs(info, {"STRUCT", "UNION", "DATASEC", "FUNC_PROTO"}) THEN 3 + 3 * VlenOf(info)
    ELSE IF KindIs(info, {"ENUM"}) THEN 3 + 2 * VlenOf(info)
    ELSE IF KindIs(info, {"ARRAY"}) THEN 6 ELSE IF KindIs(info, {"INT", "VAR"}) THEN 4 ELSE 3

btf_type_size(info) ==
    CASE KindIs(info, {"FWD", "CONST", "VOLATILE", "RESTRICT", "PTR", "TYPEDEF", "FUNC"}) -> 3
      [] KindIs(info, {"INT", "VAR"})                    -> 4
      [] KindIs(info, {"ENUM", "FUNC_PROTO"})            -> 3 + 2 * VlenOf(info)
      [] KindIs(info, {"ARRAY"})                         -> 6
      [] KindIs(info, {"STRUCT", "UNION", "DATASEC"})    -> 3 + 3 * VlenOf(info)
      [] OTHER                                           -> EINVAL

\* btf_add_type(): the table of types, with room for cap entries, entry 0 of
\* which is void
Larger(cap) == IF cap \div 4 > 16 THEN cap \div 4 ELSE 16

btf_add_type(st, at, noMemory) ==
    LET cap == IF st.cap + Larger(st.cap) > MaxNrTypes THEN MaxNrTypes ELSE st.cap + Larger(st.cap)
        st2 == IF st.cap - Len(st.types) < 2 THEN [st EXCEPT !.cap = cap] ELSE st
    IN  IF st.cap - Len(st.types) < 2 /\ st.cap = MaxNrTypes THEN [st EXCEPT !.err = E2BIG]
        ELSE IF st2.cap # st.cap /\ noMemory THEN [st EXCEPT !.err = -12]
        ELSE [st2 EXCEPT !.types = Append(@, at)]

\* btf_parse_type_sec(): st.types[i] is the word at which type i starts
RECURSIVE ParseTypes(_, _, _, _, _)
ParseTypes(words, next, end, st, noMemory) ==
    IF next >= end \/ st.err # 0 THEN st
    ELSE LET size == btf_type_size(words[next + 1])
         IN  IF size < 0 THEN [st EXCEPT !.err = size]
             ELSE ParseTypes(words, next + size, end, btf_add_type(st, next, noMemory), noMemory)

btf_parse_type_sec(f, noMemory) ==
    ParseTypes(f.words, f.hdr.type_off \div 4 + 1, f.hdr.str_off \div 4 + 1,
               [types |-> <<>>, cap |-> 0, err |-> 0], noMemory)

\* btf__new(); noMemory is the allocation that fails, if one does
NoBtf(err) == [err |-> err, types |-> <<>>, cap |-> 0]

btf__new(f, noMemory) ==
    LET st == btf_parse_type_sec(f, noMemory = "types")
    IN  IF noMemory \in {"btf", "data"} THEN NoBtf(-12)
        ELSE IF btf_parse_hdr(f) # 0 THEN NoBtf(btf_parse_hdr(f))
        ELSE IF btf_parse_str_sec(f) # 0 THEN NoBtf(btf_parse_str_sec(f))
        ELSE IF st.err # 0 THEN NoBtf(st.err) ELSE st

---------------------------------------------------------------------------
(***************************************************************************)
(* .BTF.ext: e.hdr as it is (hdr_len tells which of the three tables the   *)
(* header has), e.size, and the words after the header.                    *)
(***************************************************************************)
ExtInfos == <<"func", "line", "field">>
MinRec   == [func |-> 2, line |-> 4, field |-> 4]    \* sizes of the records, in words
HdrLenWith == [func |-> 24, line |-> 24, field |-> 32]   \* offsetofend of the length
NoExtInfo == [at |-> 0, len |-> 0, rec |-> 0]

\* The sections of a table, each a name, a count and the records
RECURSIVE ExtSections(_, _, _, _)
ExtSections(words, at, left, rec) ==
    LET total == 8 + 4 * rec * words[at + 1]
    IN  IF left = 0 THEN 0
        ELSE IF left < 8 THEN EINVAL
        ELSE IF words[at + 1] = 0 \/ left < total THEN EINVAL
        ELSE ExtSections(words, at + total \div 4, left - total, rec)

\* btf_ext_setup_info(): [err, info]
btf_ext_setup_info(e, which) ==
    LET off  == e.hdr[which].off
        len  == e.hdr[which].len
        at   == off \div 4 + 1
        rec  == e.words[at]          \* the record size, in bytes
        res  == ExtSections(e.words, at + 1, len - 4, rec \div 4)
    IN  IF len = 0 THEN [err |-> 0, info |-> NoExtInfo]
        ELSE IF \/ off % 4 # 0 \/ e.size < e.hdr.hdr_len + off + len \/ len < 4
        THEN [err |-> EINVAL, info |-> NoExtInfo]
        ELSE IF rec < 4 * MinRec[which] \/ rec % 4 # 0 \/ len = 4
        THEN [err |-> EINVAL, info |-> NoExtInfo]
        ELSE IF res # 0 THEN [err |-> res, info |-> NoExtInfo]
        ELSE [err |-> 0, info |-> [at |-> at + 1, len |-> len - 4, rec |-> rec]]

\* btf_ext_parse_hdr()
btf_ext_parse_hdr(e) ==
    IF e.size < 8 \/ e.size < e.hdr.hdr_len \/ e.hdr.magic # BtfMagic THEN EINVAL
    ELSE IF e.hdr.version # BtfVersion \/ e.hdr.flags # 0 THEN ENOTSUP
    ELSE IF e.size = e.hdr.hdr_len THEN EINVAL ELSE 0

\* btf_ext__new(): the tables the header has room for, in order; the first
\* that is wrong spoils everything
RECURSIVE SetupFrom(_, _, _)
SetupFrom(e, i, infos) ==
    IF i > 3 \/ e.hdr.hdr_len < HdrLenWith[ExtInfos[i]] THEN [err |-> 0, infos |-> infos]
    ELSE LET r == btf_ext_setup_info(e, ExtInfos[i])
         IN  IF r.err # 0 THEN [err |-> r.err, infos |-> <<>>]
             ELSE SetupFrom(e, i + 1, infos @@ (ExtInfos[i] :> r.info))

btf_ext__new(e, noMemory) ==
    IF btf_ext_parse_hdr(e) # 0 THEN [err |-> btf_ext_parse_hdr(e), infos |-> <<>>]
    ELSE IF noMemory THEN [err |-> -12, infos |-> <<>>]
    ELSE SetupFrom(e, 1, [x \in {} |-> NoExtInfo])

\* btf__parse_elf(): the sections in order, the last of each name counts.
\* "open" is what is left allocated or open.
FormatError == -4001
ElfAnswer(err, open) == [err |-> err, open |-> open]

btf__parse_elf(elf, wantExt) ==
    LET bad   == \E s \in Range(elf.scns) :
                    ~s.data /\ (s.name = ".BTF" \/ (wantExt /\ s.name = ".BTF.ext"))
        LastScn(name) == SelectLastInSeq(elf.scns, LAMBDA s : s.name = name)
        btf   == btf__new(elf.scns[LastScn(".BTF")].raw, "none")
        hasExt == wantExt /\ LastScn(".BTF.ext") > 0
        ext   == btf_ext__new(elf.scns[LastScn(".BTF.ext")].raw, FALSE)
    IN  IF elf.fails = "open" THEN ElfAnswer(ENOENT, {})
        ELSE IF elf.fails \in {"begin", "ehdr", "endian", "strings", "section"} \/ bad
        THEN ElfAnswer(FormatError, {})
        ELSE IF LastScn(".BTF") = 0 THEN ElfAnswer(ENOENT, {})
        ELSE IF btf.err # 0 THEN ElfAnswer(btf.err, {})
        ELSE IF hasExt /\ ext.err # 0 THEN ElfAnswer(ext.err, {})
        ELSE ElfAnswer(0, {"btf"} \cup (IF hasExt THEN {"ext"} ELSE {}))

---------------------------------------------------------------------------
(***************************************************************************)
(* bpf_object__sanitize_btf(): types are overwritten in place, word by     *)
(* word.  b is [words, strs, types], types being the starts of the types   *)
(* as btf__new() found them: word 1 of a type is its name, word 2 its      *)
(* kind and vlen, word 3 its size or type.                                 *)
(***************************************************************************)
WordOf(b, id, j) == b.words[b.types[id] + j - 1]
SetWord(b, id, j, v) == [b EXCEPT !.words[b.types[id] + j - 1] = v]

\* A variable of a section, [type, offset, size], becomes a member,
\* [name, type, offset], in the same three words: the order of the
\* assignments matters
OffsetLast(b, id, at) ==
    LET b1 == SetWord(b, id, at + 1, WordOf(b, id, at))
        b2 == SetWord(b1, id, at + 2, 8 * WordOf(b1, id, at + 1))
    IN  SetWord(b2, id, at, WordOf(b2, WordOf(b2, id, at), 1))

VarToMember(b, id, at) ==
    LET b1 == SetWord(b, id, at + 2, 8 * WordOf(b, id, at + 1))
        b2 == SetWord(b1, id, at + 1, WordOf(b1, id, at))
    IN  SetWord(b2, id, at, WordOf(b2, WordOf(b2, id, at), 1))

Dot == 46
Underscore == 95

\* The name is rewritten up to its NUL
RECURSIVE NoDots(_, _)
NoDots(strs, i) ==
    IF strs[i] = 0 THEN strs
    ELSE NoDots(IF strs[i] = Dot THEN [strs EXCEPT ![i] = Underscore] ELSE strs, i + 1)

SanitizeType(b, id, has_func, has_datasec) ==
    LET info == WordOf(b, id, 2)
        vlen == VlenOf(info)
    IN  CASE ~has_datasec /\ KindIs(info, {"VAR"}) ->
                 SetWord(SetWord(SetWord(b, id, 2, BTF_INFO_ENC("INT", 0)), id, 3, 1), id, 4, 8)
          [] ~has_datasec /\ KindIs(info, {"DATASEC"}) ->
                 LET b1 == [SetWord(b, id, 2, BTF_INFO_ENC("STRUCT", vlen))
                               EXCEPT !.strs = NoDots(@, WordOf(b, id, 1) + 1)]
                     Member(bb, j) == VarToMember(bb, id, 1 + 3 * j)
                 IN  FoldLeft(Member, b1, [j \in 1..vlen |-> j])
          [] ~has_func /\ KindIs(info, {"FUNC_PROTO"}) ->
                 SetWord(SetWord(b, id, 2, BTF_INFO_ENC("ENUM", vlen)), id, 3, 4)
          [] ~has_func /\ KindIs(info, {"FUNC"}) -> SetWord(b, id, 2, BTF_INFO_ENC("TYPEDEF", 0))
          [] OTHER -> b

bpf_object__sanitize_btf(b, caps) ==
    LET One(bb, id) == SanitizeType(bb, id, caps.btf_func, caps.btf_datasec)
    IN  IF caps.btf_func /\ caps.btf_datasec THEN b
        ELSE FoldLeft(One, b, [id \in DOMAIN b.types |-> id])

\* bpf_object__sanitize_and_load_btf(): what the object keeps, and the error.
\* takes is whether the kernel takes the types that are left.
bpf_object__sanitize_and_load_btf(b, ext, caps, mandatory, takes) ==
    LET clean == bpf_object__sanitize_btf(b, caps)
        kept  == ext /\ caps.btf_func
    IN  IF takes THEN [err |-> 0, btf |-> TRUE, ext |-> kept, b |-> clean]
        ELSE [err |-> IF mandatory THEN EINVAL ELSE 0, btf |-> FALSE, ext |-> FALSE, b |-> clean]
=============================================================================
