------------------------------ MODULE BtfDedup ------------------------------
(***************************************************************************)
(* btf__dedup() of src/lib/libbpf/src/btf.c: one descriptor for each type  *)
(* of a program whose compilation units were put one after the other.      *)
(*                                                                         *)
(* Types are the records of Btf with names that are offsets into the       *)
(* string section strs, whose i-th string has offset i - 1.  A string is a *)
(* number, ordered as strcmp() orders the strings; 0 is "".                *)
(*                                                                         *)
(* The state of the algorithm is a record d: types, map (type id to        *)
(* canonical id, or Unprocessed or InProgress), table (dedup_table in the  *)
(* order in which it is searched), the options, and err.                   *)
(***************************************************************************)
EXTENDS Btf, TLC, FiniteSetsExt

Tbl == INSTANCE Hashmap WITH Hash <- <<>>

Unprocessed == -1
InProgress == -2
ELOOP == -40

StructUnion == {"STRUCT", "UNION"}
RefKinds == Mods \cup {"PTR", "TYPEDEF", "FUNC"}

\* The types a type refers to, and the type with other ones in their place.
\* A FWD has none: its kind flag is x.
Refs(t) ==
    CASE t.k \in RefKinds \cup {"VAR"} -> <<t.t>>
      [] t.k = "ARRAY" -> <<t.t, t.x>>
      [] t.k \in StructUnion \cup {"DATASEC"} -> [i \in DOMAIN t.m |-> t.m[i].t]
      [] t.k = "FUNC_PROTO" -> <<t.t>> \o [i \in DOMAIN t.m |-> t.m[i].t]
      [] OTHER -> <<>>

WithRefs(t, r) ==
    LET Members(from) == [i \in DOMAIN t.m |-> [t.m[i] EXCEPT !.t = r[from + i]]]
    IN  CASE t.k \in RefKinds \cup {"VAR"} -> [t EXCEPT !.t = r[1]]
          [] t.k = "ARRAY" -> [t EXCEPT !.t = r[1], !.x = r[2]]
          [] t.k \in StructUnion \cup {"DATASEC"} -> [t EXCEPT !.m = Members(0)]
          [] t.k = "FUNC_PROTO" -> [t EXCEPT !.t = r[1], !.m = Members(1)]
          [] OTHER -> t

\* The numbers of a set in order
Ascending(S) ==
    LET In(i) == i \in S IN SelectSeq([i \in 1 .. 1 + Max(S \cup {0}) |-> i - 1], In)

----------------------------------------------------------------------------
\* Strings

\* btf_for_each_str_off(): every place of the types and of .BTF.ext that is
\* taken to hold the offset of a string.  Of .BTF.ext only the line
\* information is.
NamedMembers == StructUnion \cup {"ENUM", "FUNC_PROTO"}
StrOffs(types, line) ==
    LET Of(t) == {t.n} \cup IF t.k \in NamedMembers THEN {t.m[j].n : j \in DOMAIN t.m} ELSE {}
    IN  UNION {Of(types[i]) : i \in DOMAIN types}
    \cup UNION {{l.sec, l.file, l.text} : l \in Range(line)}

\* new is the new offset of each string.
OverStrOffs(new, types, line) ==
    LET Member(m) == [m EXCEPT !.n = new[@]]
        OfType(t) == [t EXCEPT !.n = new[@],
                               !.m = IF t.k \in NamedMembers THEN [i \in DOMAIN t.m |-> Member(t.m[i])] ELSE t.m]
        OfLine(l) == [sec |-> new[l.sec], file |-> new[l.file], text |-> new[l.text]]
    IN  [types |-> [i \in DOMAIN types |-> OfType(types[i])],
         line |-> [i \in DOMAIN line |-> OfLine(line[i])]]

\* btf_dedup_strings(): the strings some place refers to, each once and in
\* order.  An offset that is not that of a string ends it.
btf_dedup_strings(b) ==
    LET offs == StrOffs(b.types, b.line)
        used == {0} \cup {b.strs[o + 1] : o \in offs \cap (0 .. Len(b.strs) - 1)}
        new == Ascending(used)
        newOff == [o \in offs |-> IF o = 0 THEN 0
                                  ELSE LET Same(s) == s = b.strs[o + 1] IN SelectInSeq(new, Same) - 1]
        over == OverStrOffs(newOff, b.types, b.line)
    IN  IF ~(offs \subseteq 0 .. Len(b.strs) - 1) THEN [b EXCEPT !.err = EINVAL]
        ELSE [b EXCEPT !.strs = new, !.types = over.types, !.line = over.line]

----------------------------------------------------------------------------
\* Hashes and comparisons

\* btf_equal_common(): name, kind, flags, number of members, size or type
SizeOrType(t) == IF t.k \in RefKinds \cup {"VAR", "FUNC_PROTO"} THEN t.t ELSE IF t.k = "ARRAY" THEN 0 ELSE t.s
Common(t) == <<t.k, t.n, Len(t.m), SizeOrType(t), IF t.k = "FWD" THEN t.x ELSE "">>
btf_equal_common(t, c) == t.k = c.k /\ Common(t) = Common(c)

\* The parts of members that a comparison looks at
Shallow(t) == [i \in DOMAIN t.m |-> <<t.m[i].n, t.m[i].v, t.m[i].b>>]
Names(t) == [i \in DOMAIN t.m |-> t.m[i].n]

btf_equal_int(t, c) == btf_equal_common(t, c) /\ t.x = c.x
btf_equal_enum(t, c) == btf_equal_common(t, c) /\ Shallow(t) = Shallow(c)
btf_shallow_equal_struct(t, c) == btf_equal_common(t, c) /\ Shallow(t) = Shallow(c)
btf_equal_array(t, c) == btf_equal_common(t, c) /\ t.t = c.t /\ t.x = c.x /\ t.s = c.s
btf_compat_array(t, c) == btf_equal_common(t, c) /\ t.s = c.s
btf_equal_fnproto(t, c) == btf_equal_common(t, c) /\ Names(t) = Names(c) /\ Refs(t) = Refs(c)
btf_compat_fnproto(t, c) == t.k = c.k /\ t.n = c.n /\ Names(t) = Names(c)

btf_is_enum_fwd(t) == t.k = "ENUM" /\ t.m = <<>>
btf_compat_enum(t, c) ==
    IF ~btf_is_enum_fwd(t) /\ ~btf_is_enum_fwd(c)
      THEN btf_equal_enum(t, c)
      ELSE t.k = c.k /\ t.n = c.n /\ t.s = c.s

\* The hashes, as what they are computed from
HashOf(t) ==
    CASE t.k = "INT" -> <<Common(t), t.x>>
      [] t.k = "ENUM" -> <<<<"ENUM", t.n, t.s>>>>
      [] t.k \in StructUnion -> <<Common(t), Shallow(t)>>
      [] t.k = "ARRAY" -> <<Common(t), t.t, t.x, t.s>>
      [] t.k = "FUNC_PROTO" -> <<Common(t), Names(t), Refs(t)>>
      [] OTHER -> <<Common(t)>>

\* for_each_dedup_cand(): the canonical types of the same hash; types with
\* different hashes may be among them when hashes collide.
Cands(d, h) ==
    LET Same(e) == d.collide \/ e.hash = h
        Id(e) == e.id
        es == SelectSeq(d.table, Same)
    IN  [i \in DOMAIN es |-> Id(es[i])]

\* btf_dedup_table_add(): a table that grows turns its chains round.
TableAdd(d, h, id) ==
    LET old == IF Tbl!GrowsAt(Len(d.table), d.cap) THEN Reverse(d.table) ELSE d.table
    IN  [d EXCEPT !.table = <<[hash |-> h, id |-> id]>> \o old,
                  !.cap = IF Tbl!GrowsAt(Len(d.table), d.cap) THEN IF d.cap = 0 THEN 4 ELSE 2 * d.cap ELSE d.cap]

TypeAt(d, id) == IF id = 0 THEN [VoidType EXCEPT !.n = 0] ELSE d.types[id]
SetMap(d, id, to) == [d EXCEPT !.map = (id :> to) @@ d.map]

\* The type is canonical, or it is mapped to the one that was found.
Settle(d, id, h, new) ==
    IF id = new THEN TableAdd(SetMap(d, id, id), h, id) ELSE SetMap(d, id, new)

\* The comparison of the candidates for a type with it
SameAs(t, c) ==
    CASE t.k = "INT" -> btf_equal_int(t, c)
      [] t.k = "ARRAY" -> btf_equal_array(t, c)
      [] t.k = "FUNC_PROTO" -> btf_equal_fnproto(t, c)
      [] OTHER -> btf_equal_common(t, c)

FirstCand(d, id, h) ==
    LET cands == Cands(d, h)
        same == {i \in DOMAIN cands : SameAs(TypeAt(d, id), TypeAt(d, cands[i]))}
    IN  IF same = {} THEN id ELSE cands[Min(same)]

----------------------------------------------------------------------------
\* The passes

\* btf_dedup_new(): void, variables and data sections are canonical.
btf_dedup_new(types, dontResolve, collide) ==
    LET Put(map, i) == (i :> IF types[i].k \in {"VAR", "DATASEC"} THEN i ELSE Unprocessed) @@ map
    IN  [types |-> types, map |-> FoldLeft(Put, 0 :> 0, [i \in DOMAIN types |-> i]),
         table |-> <<>>, cap |-> 0, dontResolve |-> dontResolve, collide |-> collide, err |-> 0]

(***************************************************************************)
(* btf_dedup_prim_type().  An enumeration that is only declared is         *)
(* resolved to one with values, whichever of the two comes first.          *)
(***************************************************************************)
EnumCands(d, id) ==
    LET t == d.types[id]
        Look(r, c) ==
          CASE r.found -> r
            [] ~r.found /\ btf_equal_enum(t, d.types[c]) -> [r EXCEPT !.found = TRUE, !.new = c]
            [] OTHER -> CASE d.dontResolve \/ ~btf_compat_enum(t, d.types[c]) -> r
                          [] btf_is_enum_fwd(t) -> [r EXCEPT !.found = TRUE, !.new = c]
                          [] OTHER -> [r EXCEPT !.map = (c :> id) @@ @]
    IN  FoldLeft(Look, [found |-> FALSE, new |-> id, map |-> d.map], Cands(d, HashOf(t)))

btf_dedup_prim_type(d, id) ==
    LET t == d.types[id]
        e == EnumCands(d, id)
    IN  CASE t.k \in {"INT", "FWD"} -> Settle(d, id, HashOf(t), FirstCand(d, id, HashOf(t)))
          [] t.k = "ENUM" -> Settle([d EXCEPT !.map = e.map], id, HashOf(t), e.new)
          [] OTHER -> d

is_type_mapped(d, id) == d.map[id] >= 0

RECURSIVE resolve_type_id(_, _)
resolve_type_id(d, id) ==
    IF is_type_mapped(d, id) /\ d.map[id] # id THEN resolve_type_id(d, d.map[id]) ELSE id

resolve_fwd_id(d, id) ==
    LET to == resolve_type_id(d, id)
    IN  IF TypeAt(d, id).k = "FWD" /\ TypeAt(d, to).k # "FWD" THEN to ELSE id

\* The references of a type in the order in which btf_dedup_is_equiv() follows
\* them, and whether the types agree but for these.
EquivRefs(t) == IF t.k = "ARRAY" THEN <<t.x, t.t>> ELSE Refs(t)
Compatible(d, t, c) ==
    CASE t.k = "INT" -> btf_equal_int(t, c)
      [] t.k = "ENUM" -> IF d.dontResolve THEN btf_equal_enum(t, c) ELSE btf_compat_enum(t, c)
      [] t.k = "FWD" -> btf_equal_common(t, c)
      [] t.k = "ARRAY" -> btf_compat_array(t, c)
      [] t.k \in StructUnion -> btf_shallow_equal_struct(t, c)
      [] t.k = "FUNC_PROTO" -> btf_compat_fnproto(t, c)
      [] OTHER -> TRUE

FwdKind(t) == IF t.x = "union" THEN "UNION" ELSE "STRUCT"

\* The type of the candidate graph that one of the canonical graph is mapped to
HypotOf(hypot, id) == {p[2] : p \in {q \in Range(hypot) : q[1] = id}}

(***************************************************************************)
(* btf_dedup_is_equiv(): follows the two graphs side by side; r.hypot      *)
(* grows on the way, r.eq is the answer.                                   *)
(***************************************************************************)
RECURSIVE btf_dedup_is_equiv(_, _, _, _)
btf_dedup_is_equiv(d, hypot, cand, canonId) ==
    LET canon == resolve_fwd_id(d, canonId)
        t == TypeAt(d, cand)
        c == TypeAt(d, canon)
        added == Append(hypot, <<canon, cand>>)
        Is(eq) == [hypot |-> added, eq |-> IF eq THEN 1 ELSE 0]
        Follow(r, i) == IF r.eq # 1 THEN r
                        ELSE btf_dedup_is_equiv(d, r.hypot, EquivRefs(t)[i], EquivRefs(c)[i])
    IN  CASE resolve_type_id(d, cand) = resolve_type_id(d, canonId) -> [hypot |-> hypot, eq |-> 1]
          [] OTHER ->
             IF HypotOf(hypot, canon) # {}
               THEN [hypot |-> hypot, eq |-> IF HypotOf(hypot, canon) = {cand} THEN 1 ELSE 0]
             ELSE IF t.n # c.n THEN Is(FALSE)
             ELSE IF ~d.dontResolve /\ t.k # c.k /\ "FWD" \in {t.k, c.k}
               THEN Is(IF t.k = "FWD" THEN FwdKind(t) = c.k ELSE FwdKind(c) = t.k)
             ELSE IF t.k # c.k THEN Is(FALSE)
             ELSE IF t.k \in {"VAR", "DATASEC"} THEN [hypot |-> added, eq |-> EINVAL]
             ELSE IF ~Compatible(d, t, c) THEN Is(FALSE)
             ELSE FoldLeft(Follow, [hypot |-> added, eq |-> 1], [i \in DOMAIN EquivRefs(t) |-> i])

\* Declarations are resolved on the canonical side only.
MergeCanonical(d, p) ==
    LET tId == resolve_type_id(d, p[2])
        cId == resolve_type_id(d, p[1])
    IN  IF TypeAt(d, tId).k # "FWD" /\ TypeAt(d, cId).k = "FWD" THEN SetMap(d, cId, tId) ELSE d

\* btf_dedup_merge_hypot_map(): what the graphs being equal says of their
\* types.
MergePair(d, p) ==
    LET tId == resolve_type_id(d, p[2])
        cId == resolve_type_id(d, p[1])
        tk == TypeAt(d, tId).k
        ck == TypeAt(d, cId).k
    IN  CASE tk # "FWD" /\ ck = "FWD" -> SetMap(d, cId, tId)
          [] tk = "FWD" /\ ck # "FWD" -> SetMap(d, tId, cId)
          [] tk \in StructUnion /\ ck # "FWD" /\ is_type_mapped(d, cId) /\ ~is_type_mapped(d, tId) ->
                 SetMap(d, tId, cId)
          [] OTHER -> d
btf_dedup_merge_hypot_map(d, hypot) == FoldLeft(MergePair, d, hypot)

\* btf_dedup_struct_type()
btf_dedup_struct_type(d, id) ==
    LET t == d.types[id]
        Look(r, c) ==
          IF r.found \/ r.d.err < 0 \/ ~btf_shallow_equal_struct(t, d.types[c]) THEN r
          ELSE LET Take(q) == CASE q.eq < 0 -> [r EXCEPT !.d.err = q.eq]
                                [] q.eq = 0 -> r
                                [] OTHER -> [found |-> TRUE, new |-> c,
                                             d |-> btf_dedup_merge_hypot_map(d, q.hypot)]
               IN  Take(btf_dedup_is_equiv(d, <<>>, id, c))
        Ends(r) == IF r.d.err < 0 THEN r.d ELSE Settle(r.d, id, HashOf(t), r.new)
    IN  IF is_type_mapped(d, id) \/ t.k \notin StructUnion THEN d
        ELSE Ends(FoldLeft(Look, [found |-> FALSE, new |-> id, d |-> d], Cands(d, HashOf(t))))

(***************************************************************************)
(* btf_dedup_ref_type(): first the types it refers to, then the type       *)
(* itself, compared with the ids of canonical types in their place.        *)
(* Returns d and the canonical id, or an error in d.                       *)
(***************************************************************************)
RECURSIVE RefType(_, _)
RefType(d, id) ==
    LET Child(r, j) ==
          IF r.d.err < 0 THEN r
          ELSE LET Put(q) == IF q.d.err < 0 THEN q
                             ELSE [q EXCEPT !.d.types[id] = WithRefs(@, [Refs(@) EXCEPT ![j] = q.id])]
               IN  Put(RefType(r.d, Refs(r.d.types[id])[j]))
        begun == [d |-> SetMap(d, id, InProgress), id |-> 0]
        Ends(e, hash, new) == [d |-> Settle(e, id, hash, new), id |-> new]
        Found(e, hash) == Ends(e, hash, FirstCand(e, id, hash))
        Done(r) == IF r.d.err < 0 THEN r ELSE Found(r.d, HashOf(r.d.types[id]))
    IN  CASE d.map[id] = InProgress -> [d |-> [d EXCEPT !.err = ELOOP], id |-> 0]
          [] is_type_mapped(d, id) -> [d |-> d, id |-> resolve_type_id(d, id)]
          [] OTHER -> Done(FoldLeft(Child, begun, [j \in DOMAIN Refs(d.types[id]) |-> j]))
btf_dedup_ref_type(d, id) == RefType(d, id).d

\* btf_dedup_compact_types() and btf_dedup_remap_types(): canonical types
\* only, numbered anew, with the new numbers of the types they refer to.
Canonical(d) == Ascending({i \in DOMAIN d.types : d.map[i] = i})
NewId(d, id) == IF id = 0 THEN 0 ELSE LET Same(i) == i = resolve_type_id(d, id) IN SelectInSeq(Canonical(d), Same)
Remap(d, t) == WithRefs(t, [j \in DOMAIN Refs(t) |-> NewId(d, Refs(t)[j])])
CompactAndRemap(d) == [i \in DOMAIN Canonical(d) |-> Remap(d, d.types[Canonical(d)[i]])]

(***************************************************************************)
(* btf__dedup().  ids[i] is what became of type i.                         *)
(***************************************************************************)
OneType(pass, d, id) ==
    CASE pass = "prim" -> btf_dedup_prim_type(d, id)
      [] pass = "struct" -> btf_dedup_struct_type(d, id)
      [] pass = "ref" -> btf_dedup_ref_type(d, id)

\* A pass goes over the types and stops at the first error.
Pass(d, pass) ==
    LET Step(e, id) == IF e.err < 0 THEN e ELSE OneType(pass, e, id)
    IN  FoldLeft(Step, d, [i \in DOMAIN d.types |-> i])

Passes(d) == FoldLeft(Pass, d, <<"prim", "struct", "ref">>)

btf__dedup(b, dontResolve, collide) ==
    LET Ends(s, d) ==
          IF d.err < 0 THEN [s EXCEPT !.types = <<>>, !.err = d.err] @@ [ids |-> <<>>]
          ELSE [s EXCEPT !.types = CompactAndRemap(d)] @@ [ids |-> [i \in DOMAIN b.types |-> NewId(d, i)]]
        Types(s) ==
          IF s.err < 0 THEN [s EXCEPT !.types = <<>>] @@ [ids |-> <<>>]
          ELSE Ends(s, Passes(btf_dedup_new(s.types, dontResolve, collide)))
    IN  Types(btf_dedup_strings(b))

----------------------------------------------------------------------------
(***************************************************************************)
(* Reference.  Output type o says what input type t says, when the types t *)
(* refers to became those o refers to: the same, or a definition for a     *)
(* declaration.                                                            *)
(***************************************************************************)
SameType(b, r, t, o) ==
    LET In(off) == b.strs[off + 1]
        Out(off) == r.strs[off + 1]
        Members(u, Str(_)) == [i \in DOMAIN u.m |-> <<IF u.k \in NamedMembers THEN Str(u.m[i].n) ELSE 0,
                                                       u.m[i].v, u.m[i].b>>]
        New(id) == IF id = 0 THEN 0 ELSE r.ids[id]
    IN  /\ In(t.n) = Out(o.n)
        /\ \/ t.k = "FWD" /\ o.k = FwdKind(t)
           \/ btf_is_enum_fwd(t) /\ o.k = "ENUM" /\ o.s = t.s
           \/ /\ t.k = o.k /\ (t.k # "ARRAY" => t.x = o.x)
              /\ t.s = o.s
              /\ Members(t, In) = Members(o, Out)
              /\ Refs(o) = [j \in DOMAIN Refs(t) |-> New(Refs(t)[j])]

\* Pairs of different types that no use could tell apart: the largest set R
\* such that two types of a pair agree but for their references, which are in
\* R again or the same.
RECURSIVE Alike(_, _)
Alike(types, R) ==
    LET Kept(p) == LET a == Refs(types[p[1]]) b == Refs(types[p[2]])
                   IN  \A j \in DOMAIN a : a[j] = b[j] \/ <<a[j], b[j]>> \in R
        S == {p \in R : Kept(p)}
    IN  IF S = R THEN R ELSE Alike(types, S)
Duplicates(types) ==
    LET Zero(t) == WithRefs(t, [j \in DOMAIN Refs(t) |-> 0])
        ids == {i \in DOMAIN types : types[i].k \notin {"VAR", "DATASEC"}}
    IN  Alike(types, {p \in ids \X ids : /\ p[1] # p[2]
                                          /\ types[p[1]].k = types[p[2]].k
                                          /\ Zero(types[p[1]]) = Zero(types[p[2]])})

=============================================================================
