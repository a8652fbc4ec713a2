------------------------------- MODULE BtfDump -------------------------------
(***************************************************************************)
(* btf_dump__dump_type() and btf_dump__emit_type_decl() of                 *)
(* src/lib/libbpf/src/btf_dump.c: C definitions for the types of a BTF     *)
(* blob b.  The state of a dump is a record d:                             *)
(*   ord, emit   order_state and emit_state of every type                  *)
(*   fwd         the types with fwd_emitted                                *)
(*   queue       emit_queue                                                *)
(*   names       the names given out to types (name_resolved) and          *)
(*               enumerators, with the number that sets each apart         *)
(*   out         what was printed at the top level: declarations of        *)
(*               structures and definitions of structures, enumerations    *)
(*               and typedefs, as <<what, id>>                             *)
(* Three aspects of the text are modelled apart from each other: which     *)
(* definitions in which order, the padding inside of a structure, and the  *)
(* tokens of a declaration.                                                *)
(***************************************************************************)
EXTENDS BtfDedup

\* btf_dump__new(): what btf_dump_mark_referenced() marks leaves out the
\* type a function returns.
Referenced(b) ==
    LET Marked(t) == IF t.k = "FUNC_PROTO" THEN {t.m[j].t : j \in DOMAIN t.m} ELSE Range(Refs(t))
    IN  UNION {Marked(b[i]) : i \in DOMAIN b}

btf_dump__new(b) ==
    LET Each(v) == FoldLeft(LAMBDA f, i : (i :> v[1]) @@ f, 0 :> v[2], [i \in DOMAIN b |-> i])
    IN  [b |-> b, ord |-> Each(<<"not", "ordered">>), emit |-> Each(<<"not", "emitted">>), fwd |-> {},
         queue |-> <<>>, names |-> <<>>, out |-> <<>>]

----------------------------------------------------------------------------
\* Order

Ordered(d, id) == [d EXCEPT !.ord = (id :> "ordered") @@ @]
Queued(d, id) == [d EXCEPT !.queue = Append(@, id)]
Order(d, ret) == [d |-> d, ret |-> ret]

(***************************************************************************)
(* btf_dump_order_type(): queues the definitions that the type needs, and  *)
(* then its own.  Returns 1 if it must come before the types that use it,  *)
(* 0 if a declaration of it will do.                                       *)
(***************************************************************************)
RECURSIVE btf_dump_order_type(_, _, _)
btf_dump_order_type(d, id, ptr) ==
    LET t == btf__type_by_id(d.b, id)
        named == t.n # ""
        Member(r, m) == IF r.ret < 0 THEN r ELSE btf_dump_order_type(r.d, m.t, FALSE)
        Param(r, m) == IF r.ret < 0 THEN r
                       ELSE LET q == btf_dump_order_type(r.d, m.t, ptr)
                            IN  IF q.ret < 0 THEN q ELSE Order(q.d, IF q.ret > 0 THEN 1 ELSE r.ret)
        target == btf_dump_order_type(d, t.t, ptr)
    IN  CASE d.ord[id] = "ordered" -> Order(d, 1)
          [] d.ord[id] = "ordering" -> Order(d, IF t.k \in StructUnion /\ ptr /\ named THEN 0 ELSE ELOOP)
          [] OTHER ->
             CASE t.k = "INT" -> Order(Ordered(d, id), 0)
               [] t.k = "PTR" -> LET q == btf_dump_order_type(d, t.t, TRUE) IN Order(Ordered(q.d, id), q.ret)
               [] t.k \in Mods \cup {"ARRAY"} -> target
               [] t.k \in StructUnion ->
                      IF ptr /\ named THEN Order(d, 0)
                      ELSE LET q == FoldLeft(Member, Order([d EXCEPT !.ord = (id :> "ordering") @@ @], 0), t.m)
                           IN  IF q.ret < 0 THEN q
                               ELSE Order(Ordered(IF named THEN Queued(q.d, id) ELSE q.d, id), 1)
               [] t.k \in {"ENUM", "FWD"} ->
                      Order(Ordered(IF named \/ id \notin Referenced(d.b) THEN Queued(d, id) ELSE d, id), 1)
               [] t.k = "TYPEDEF" ->
                      CASE target.ret < 0 -> target
                        [] ptr /\ target.ret = 0 -> Order(target.d, 0)
                        [] OTHER -> Order(Ordered(Queued(target.d, id), id), 1)
               [] t.k = "FUNC_PROTO" -> FoldLeft(Param, target, t.m)
               [] OTHER -> Order(Ordered(d, id), 0)

----------------------------------------------------------------------------
\* Names

\* btf_dump_name_dups(): tags are counted apart from identifiers, which are
\* the names of typedefs and enumerators.
NameDups(d, space, name) ==
    LET Same(e) == e.space = space /\ e.name = name IN 1 + Len(SelectSeq(d.names, Same))
Named(d, space, name, id) ==
    [d EXCEPT !.names = Append(@, [space |-> space, name |-> name, no |-> NameDups(d, space, name), id |-> id])]

\* btf_dump_type_name() and btf_dump_ident_name()
ResolveName(d, id) ==
    LET t == d.b[id]
    IN  IF t.n = "" \/ \E e \in Range(d.names) : e.id = id THEN d
        ELSE Named(d, IF t.k = "TYPEDEF" THEN "ident" ELSE "type", t.n, id)

\* btf_dump_emit_enum_def()
EnumDef(d, id) ==
    LET Value(e, m) == Named(e, "ident", m.n, 0) IN FoldLeft(Value, ResolveName(d, id), d.b[id].m)

\* The names printed by btf_dump_emit_type_decl(): an anonymous structure or
\* enumeration is defined where it is used.
RECURSIVE EmitDecl(_, _)
EmitDecl(d, id) ==
    LET t == btf__type_by_id(d.b, id)
        Member(e, m) == EmitDecl(e, m.t)
        last == IF t.m # <<>> /\ t.m[Len(t.m)].t = 0 THEN Len(t.m) - 1 ELSE Len(t.m)
    IN  CASE t.k = "VOID" -> d
          [] t.k \in Mods \cup {"PTR", "ARRAY"} -> EmitDecl(d, t.t)
          [] t.k = "FUNC_PROTO" -> FoldLeft(Member, EmitDecl(d, t.t), SubSeq(t.m, 1, last))
          [] t.k \in StructUnion /\ t.n = "" -> FoldLeft(Member, d, t.m)
          [] t.k = "ENUM" /\ t.n = "" -> EnumDef(d, id)
          [] t.k = "INT" -> d
          [] OTHER -> ResolveName(d, id)

\* A definition or declaration on the top level
Out(d, what, id) == [d EXCEPT !.out = Append(@, <<what, id>>)]
EmitStructDef(d, id) ==
    LET Member(e, m) == EmitDecl(e, m.t)
    IN  Out(FoldLeft(Member, ResolveName(d, id), d.b[id].m), "def", id)
EmitNoFwd(d, id) == [ResolveName(d, id) EXCEPT !.fwd = @ \cup {id}]
EmitStructFwd(d, id) == [Out(ResolveName(d, id), "fwd", id) EXCEPT !.fwd = @ \cup {id}]
EmitTypedef(d, id) ==
    IF d.b[id].n = "__builtin_va_list" THEN d ELSE Out(EmitDecl(ResolveName(d, id), d.b[id].t), "def", id)

----------------------------------------------------------------------------
\* Definitions

SetEmit(d, id, state) == [d EXCEPT !.emit = (id :> state) @@ @]

(***************************************************************************)
(* btf_dump_emit_type(): on the top level, cont being 0, the definition of *)
(* a type; otherwise the declarations that cont needs in order to refer to *)
(* it.                                                                     *)
(***************************************************************************)
RECURSIVE btf_dump_emit_type(_, _, _)
btf_dump_emit_type(d, id, cont) ==
    LET t == btf__type_by_id(d.b, id)
        top == cont = 0
        Member(e, m) == btf_dump_emit_type(e, m.t, IF t.k \in StructUnion /\ t.n # "" THEN id ELSE cont)
        begun == SetEmit(d, id, "emitting")
        inside == IF top \/ t.n = "" THEN FoldLeft(Member, begun, t.m)
                  ELSE IF id \notin d.fwd /\ id # cont THEN EmitStructFwd(begun, id) ELSE begun
        under == btf_dump_emit_type(begun, t.t, id)
    IN  CASE d.emit[id] = "emitted" -> d
          [] d.emit[id] = "emitting" ->
             CASE id \in d.fwd \/ (t.k \in StructUnion /\ (id = cont \/ t.n = "")) -> d
               [] t.k \in StructUnion /\ id # cont /\ t.n # "" /\ id \notin d.fwd -> EmitStructFwd(d, id)
               [] t.k = "TYPEDEF" /\ id \notin d.fwd -> [EmitTypedef(d, id) EXCEPT !.fwd = @ \cup {id}]
               [] OTHER -> d
          [] OTHER ->
             CASE t.k = "INT" -> SetEmit(d, id, "emitted")
               [] t.k = "ENUM" -> SetEmit(IF top THEN Out(EnumDef(d, id), "def", id) ELSE d, id, "emitted")
               [] t.k \in Mods \cup {"PTR", "ARRAY"} -> btf_dump_emit_type(d, t.t, cont)
               [] t.k = "FWD" -> SetEmit(Out(ResolveName(d, id), "fwd", id), id, "emitted")
               [] t.k = "TYPEDEF" -> SetEmit(IF id \in under.fwd THEN under ELSE EmitTypedef(under, id),
                                             id, "emitted")
               [] t.k \in StructUnion -> IF top THEN SetEmit(EmitStructDef(inside, id), id, "emitted")
                                       ELSE SetEmit(inside, id, "not")
               [] t.k = "FUNC_PROTO" -> FoldLeft(Member, btf_dump_emit_type(d, t.t, cont), t.m)
               [] OTHER -> d

\* btf_dump__dump_type(): the error, if any, and the dump
btf_dump__dump_type(d, id) ==
    LET EmitAll(o) == IF o.ret < 0 THEN o
                      ELSE Order(FoldLeft(LAMBDA e, i : btf_dump_emit_type(e, i, 0), o.d, o.d.queue), 0)
    IN  EmitAll(btf_dump_order_type([d EXCEPT !.queue = <<>>], id, FALSE))

-----------------------------------------------------------------------------
(***************************************************************************)
(* The text btf_dump.c prints of one structure, as its fields and padding, *)
(* and of one declaration, as its tokens; with what a C compiler makes of  *)
(* the two.  Offsets and widths are in bits.                               *)
(***************************************************************************)

\* btf_is_struct_packed(): the size or the offset of a member (no bitfield)
\* is no multiple of the alignment.
NeverPacked(b, id) == FALSE
btf_is_struct_packed(b, id) ==
    LET Misaligned(al, n) == al # 0 /\ n % al # 0
    IN  \/ Misaligned(btf__align_of(b, id), b[id].s)
        \/ \E m \in Range(b[id].m) : m.b = 0 /\ Misaligned(8 * btf__align_of(b, m.t), m.v)

chip_away_bits(total, atMost) == IF total % atMost # 0 THEN total % atMost ELSE atMost

\* An unnamed bitfield of width bits in units of unit bits
Pad(unit, width) == [pad |-> TRUE, unit |-> unit, width |-> width, member |-> 0]
Field(i) == [pad |-> FALSE, unit |-> 0, width |-> 0, member |-> i]

RECURSIVE PadsOf(_)
PadsOf(diff) ==
    LET unit == IF 8 * PtrSize > 32 /\ diff > 32 THEN 8 * PtrSize
                ELSE IF diff > 16 THEN 32 ELSE IF diff > 8 THEN 16 ELSE 8
    IN  IF diff <= 0 THEN <<>>
        ELSE <<Pad(unit, chip_away_bits(diff, unit))>> \o PadsOf(diff - chip_away_bits(diff, unit))

btf_dump_emit_bit_padding(cur, off, width, align) ==
    IF off <= cur \/ (width = 0 /\ off - cur < align * 8) THEN <<>> ELSE PadsOf(off - cur)

\* btf_dump_emit_struct_def(): the fields of a structure, with padding where
\* the compiler would not leave the gap.
btf_dump_emit_struct_def(b, id) ==
    LET t == b[id]
        packed == t.k = "STRUCT" /\ btf_is_struct_packed(b, id)
        Size(m) == LET s == btf__resolve_size(b, m.t) IN IF s < 0 THEN 0 ELSE s
        Align(al) == IF packed THEN 1 ELSE al
        Next1(r, i) ==
          LET m == t.m[i]
          IN  [off |-> m.v + IF m.b # 0 THEN m.b ELSE 8 * Size(m),
               items |-> r.items \o btf_dump_emit_bit_padding(r.off, m.v, m.b, Align(btf__align_of(b, m.t)))
                                 \o <<Field(i)>>]
        r1 == FoldLeft(Next1, [off |-> 0, items |-> <<>>], [i \in DOMAIN t.m |-> i])
        tail == IF t.k # "STRUCT" THEN <<>>
                ELSE btf_dump_emit_bit_padding(r1.off, t.s * 8, 0, Align(btf__align_of(b, id)))
    IN  [packed |-> packed, items |-> r1.items \o tail]

(***************************************************************************)
(* Reference: the layout of a structure in C.  A field is [size, align,    *)
(* width] with width # 0 for a bitfield, which does not straddle a unit of *)
(* its type unless the structure is packed; an unnamed one does not count  *)
(* for the alignment.  Returns the offsets, and the size in bits.          *)
(***************************************************************************)
UpTo(off, n) == ((off + n - 1) \div n) * n
CLayout(packed, fields) ==
    LET Place(r, f) ==
          LET al == IF packed /\ f.attr = 0 THEN 8 ELSE 8 * f.align
              at == IF f.width = 0 THEN UpTo(r.off, al)
                    ELSE IF packed \/ (r.off % (8 * f.size)) + f.width <= 8 * f.size THEN r.off
                    ELSE UpTo(r.off, 8 * f.size)
          IN  [off |-> at + IF f.width = 0 THEN 8 * f.size ELSE f.width, offs |-> Append(r.offs, at),
               al |-> IF f.unnamed \/ al < r.al THEN r.al ELSE al]
        r1 == FoldLeft(Place, [off |-> 0, offs |-> <<>>, al |-> 8], fields)
    IN  [offs |-> r1.offs, size |-> UpTo(r1.off, r1.al)]

CField(size, align, width, attr, unnamed) ==
    [size |-> size, align |-> align, width |-> width, attr |-> attr, unnamed |-> unnamed]

\* The alignment a compiler gives the type as it was dumped
CAlign(b, id) ==
    IF b[id].k = "STRUCT" /\ btf_is_struct_packed(b, id) THEN 1 ELSE btf__align_of(b, id)

\* What a compiler makes of the printed structure
Recompiled(b, id) ==
    LET Item(f) == IF f.pad THEN CField(f.unit \div 8, f.unit \div 8, f.width, 0, TRUE)
                   ELSE LET m == b[id].m[f.member]
                        IN  CField(btf__resolve_size(b, m.t), CAlign(b, m.t), m.b, 0, FALSE)
        Fields(lay, at) == [offs |-> [i \in DOMAIN at |-> lay.offs[at[i]]], size |-> lay.size]
        Of(text) == Fields(CLayout(text.packed, [i \in DOMAIN text.items |-> Item(text.items[i])]),
                           SelectSeq([i \in DOMAIN text.items |-> i], LAMBDA i : ~text.items[i].pad))
    IN  Of(btf_dump_emit_struct_def(b, id))

----------------------------------------------------------------------------
\* Declarations.  A token is a record [tok, arg]: tok is "base", "*", "(",
\* ")", "name", "dim", "params" or a modifier.

Tok(t, arg) == [tok |-> t, arg |-> arg]

\* The types from id to the one that ends its declaration: decl_stack
RECURSIVE DeclStack(_, _)
DeclStack(b, id) ==
    LET t == btf__type_by_id(b, id)
    IN  <<id>> \o IF t.k \in Mods \cup {"PTR", "ARRAY", "FUNC_PROTO"} THEN DeclStack(b, t.t) ELSE <<>>

\* btf_dump_emit_mods(): the modifiers on top of the stack, and what is under
\* them
TopMods(b, decls) ==
    Len(decls) - Max({0} \cup {i \in DOMAIN decls : btf__type_by_id(b, decls[i]).k \notin Mods})
ModTokens(b, decls) ==
    [i \in 1 .. TopMods(b, decls) |-> Tok(b[decls[Len(decls) + 1 - i]].k, 0)]
UnderMods(b, decls) == SubSeq(decls, 1, Len(decls) - TopMods(b, decls))

(***************************************************************************)
(* btf_dump_emit_type_chain(): from the end of the stack, the type that    *)
(* ends the declaration, to its beginning, with the name in the middle.    *)
(***************************************************************************)
RECURSIVE EmitChain(_, _, _)
EmitChain(b, decls, name) ==
    LET id == decls[Len(decls)]
        t == btf__type_by_id(b, id)
        rest == SubSeq(decls, 1, Len(decls) - 1)
        under == UnderMods(b, rest)
        nameTok == IF name = "" THEN <<>> ELSE <<Tok("name", name)>>
        multidim == b[under[Len(under)]].k = "ARRAY"
        Paren(toks) == <<Tok("(", 0)>> \o toks \o <<Tok(")", 0)>>
        Param(i) == IF i = Len(t.m) /\ t.m[i].t = 0 THEN <<Tok("...", 0)>>
                    ELSE EmitChain(b, DeclStack(b, t.m[i].t), t.m[i].n)
        params == IF Len(t.m) = 1 /\ t.m[1].t = 0 THEN <<>> ELSE [i \in DOMAIN t.m |-> Param(i)]
    IN  IF decls = <<>> THEN nameTok
        ELSE CASE t.k = "PTR" -> <<Tok("*", 0)>> \o EmitChain(b, rest, name)
               [] t.k \in Mods -> <<Tok(t.k, 0)>> \o EmitChain(b, rest, name)
               [] t.k = "ARRAY" ->
                      (IF under = <<>> THEN nameTok
                       ELSE IF multidim THEN EmitChain(b, under, name)
                       ELSE Paren(EmitChain(b, under, name))) \o <<Tok("dim", t.s)>>
               [] t.k = "FUNC_PROTO" ->
                      ModTokens(b, rest)
                      \o (IF under # <<>> THEN Paren(EmitChain(b, under, name)) ELSE nameTok)
                      \o <<Tok("params", params)>>
               [] OTHER -> ModTokens(b, rest) \o <<Tok("base", id)>> \o EmitChain(b, under, name)

btf_dump_emit_type_decl(b, id, name) == EmitChain(b, DeclStack(b, id), name)

(***************************************************************************)
(* Reference: what a declaration means in C, as the chain of what the name *)
(* is, outermost first.  Read(toks, T) reads a declarator for base type T. *)
(***************************************************************************)
IsMod(tok) == tok.tok \in Mods

\* The place of the parenthesis that closes the first one
Closing(toks) ==
    LET Depth(i) == Len(SelectSeq(SubSeq(toks, 1, i), LAMBDA x : x.tok = "("))
                    - Len(SelectSeq(SubSeq(toks, 1, i), LAMBDA x : x.tok = ")"))
    IN  Min({i \in DOMAIN toks : Depth(i) = 0})

RECURSIVE Read(_, _)
Read(toks, T) ==
    LET mods == Min({i \in 1 .. Len(toks) : i + 1 > Len(toks) \/ ~IsMod(toks[i + 1])}) - 1
        core == IF toks[1].tok = "(" THEN Closing(toks) ELSE IF toks[1].tok = "name" THEN 1 ELSE 0
        inner == IF toks[1].tok = "(" THEN SubSeq(toks, 2, core - 1) ELSE <<>>
    IN  IF toks = <<>> THEN T
        ELSE IF toks[1].tok = "*"
          THEN Read(SubSeq(toks, 2 + mods, Len(toks)), SubSeq(toks, 2, 1 + mods) \o <<toks[1]>> \o T)
          ELSE Read(inner, SubSeq(toks, core + 1, Len(toks)) \o T)

\* The declaration: modifiers and base type, then the declarator
ReadDecl(toks) ==
    LET at == Min({i \in DOMAIN toks : toks[i].tok = "base"})
    IN  Read(SubSeq(toks, at + 1, Len(toks)), SubSeq(toks, 1, at))

\* The same chain, from the type information
RECURSIVE Meant(_, _)
Meant(b, id) ==
    LET t == btf__type_by_id(b, id)
        Param(i) == IF i = Len(t.m) /\ t.m[i].t = 0 THEN <<Tok("...", 0)>> ELSE Meant(b, t.m[i].t)
        params == IF Len(t.m) = 1 /\ t.m[1].t = 0 THEN <<>> ELSE [i \in DOMAIN t.m |-> Param(i)]
    IN  CASE t.k = "PTR" -> <<Tok("*", 0)>> \o Meant(b, t.t)
          [] t.k \in Mods -> <<Tok(t.k, 0)>> \o Meant(b, t.t)
          [] t.k = "ARRAY" -> <<Tok("dim", t.s)>> \o Meant(b, t.t)
          [] t.k = "FUNC_PROTO" -> <<Tok("params", params)>> \o Meant(b, t.t)
          [] OTHER -> <<Tok("base", id)>>

\* Parameters of the read chain are read in turn.
RECURSIVE ReadAll(_)
ReadAll(toks) ==
    LET Param(p) == IF p[1].tok = "..." THEN p ELSE ReadAll(p)
        In(x) == IF x.tok = "params" THEN Tok("params", [i \in DOMAIN x.arg |-> Param(x.arg[i])]) ELSE x
        chain == ReadDecl(toks)
    IN  [i \in DOMAIN chain |-> In(chain[i])]

=============================================================================
