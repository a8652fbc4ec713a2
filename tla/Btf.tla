-------------------------------- MODULE Btf --------------------------------
(***************************************************************************)
(* The BPF Type Format as libbpf reads it (src/lib/libbpf/src/btf.c, and   *)
(* the lookups on types of libbpf.c).  A BTF blob is a sequence of types,  *)
(* the type with id i being b[i]; id 0 is void.  A type is a record with   *)
(* the same fields for every kind:                                         *)
(*   k kind   n name ("" if anonymous)   s size, or elements of an ARRAY   *)
(*   t the type it refers to             x encoding of an INT, linkage of  *)
(*   a VAR, "struct" or "union" for a FWD, index type of an ARRAY          *)
(*   m members, values, parameters or section variables, each [n, t, v, b] *)
(* with v the offset of a member (in bits) or variable, or the value of an *)
(* enumerator, and b the width of a bitfield.  Sizes are in bytes.         *)
(***************************************************************************)
EXTENDS Integers, Sequences, SequencesExt

CONSTANTS
    UintMax,    \* the largest __u32, scaled down
    PtrSize     \* sizeof(void *)

ASSUME BtfAssumption == UintMax \in Nat \ {0} /\ PtrSize \in Nat \ {0}

Type(k, n, s, t, x, m) == [k |-> k, n |-> n, s |-> s, t |-> t, x |-> x, m |-> m]
Memb(n, t, v) == [n |-> n, t |-> t, v |-> v, b |-> 0]
Null == Type("NULL", "", 0, 0, "", <<>>)
VoidType == Type("VOID", "", 0, 0, "", <<>>)

EINVAL == -22
E2BIG == -7
ENOENT == -2
ESRCH == -3
ENOTSUP == -95

\* btf_is_mod() and, with typedefs, what skip_mods_and_typedefs() skips.
Mods == {"CONST", "VOLATILE", "RESTRICT"}
ModsAndTypedef == Mods \cup {"TYPEDEF"}

btf__type_by_id(b, id) ==
    IF id > Len(b) THEN Null ELSE IF id = 0 THEN VoidType ELSE b[id]

VoidOrNull(t) == t.k \in {"NULL", "VOID", "FWD"}

MaxResolveDepth == 32

(***************************************************************************)
(* btf__resolve_size(): follows at most MaxResolveDepth references and     *)
(* multiplies the dimensions of the arrays on the way.                     *)
(***************************************************************************)
RECURSIVE ResolveSize(_, _, _, _)
ResolveSize(b, id, nelems, depth) ==
    LET t == btf__type_by_id(b, id)
        Sized(size) == IF nelems # 0 /\ size > UintMax \div nelems
                         THEN E2BIG ELSE nelems * size
    IN  CASE depth = MaxResolveDepth \/ VoidOrNull(t) -> EINVAL
          [] t.k \in {"INT", "STRUCT", "UNION", "ENUM", "DATASEC"} -> Sized(t.s)
          [] t.k = "PTR" -> Sized(PtrSize)
          [] t.k \in ModsAndTypedef \cup {"VAR"} ->
                 ResolveSize(b, t.t, nelems, depth + 1)
          [] t.k = "ARRAY" ->
                 IF nelems # 0 /\ t.s > UintMax \div nelems
                   THEN E2BIG
                   ELSE ResolveSize(b, t.t, nelems * t.s, depth + 1)
          [] OTHER -> EINVAL

btf__resolve_size(b, id) == ResolveSize(b, id, 1, 0)

\* btf__align_of(): 0 for a kind it does not support.
RECURSIVE btf__align_of(_, _)
btf__align_of(b, id) ==
    LET t == btf__type_by_id(b, id)
        Least(i, j) == IF i < j THEN i ELSE j
        Wider(a, m) == LET al == btf__align_of(b, m.t)
                       IN  IF a <= 0 \/ al <= 0 THEN Least(a, al)
                           ELSE IF a < al THEN al ELSE a
    IN  CASE t.k \in {"INT", "ENUM"} -> Least(PtrSize, t.s)
          [] t.k = "PTR" -> PtrSize
          [] t.k \in ModsAndTypedef \cup {"ARRAY"} -> btf__align_of(b, t.t)
          [] t.k \in {"STRUCT", "UNION"} -> FoldLeft(Wider, 1, t.m)
          [] OTHER -> 0

\* btf__resolve_type(): the first type that is no modifier, typedef or
\* variable.
RECURSIVE ResolveType(_, _, _)
ResolveType(b, id, depth) ==
    LET t == btf__type_by_id(b, id)
    IN  CASE depth = MaxResolveDepth \/ VoidOrNull(t) -> EINVAL
          [] t.k \in ModsAndTypedef \cup {"VAR"} -> ResolveType(b, t.t, depth + 1)
          [] OTHER -> id

btf__resolve_type(b, id) == ResolveType(b, id, 0)

\* skip_mods_and_typedefs() of libbpf.c: the id it ends at.
RECURSIVE skip_mods_and_typedefs(_, _)
skip_mods_and_typedefs(b, id) ==
    LET t == btf__type_by_id(b, id)
    IN  IF t.k \in ModsAndTypedef THEN skip_mods_and_typedefs(b, t.t) ELSE id

\* The first of the ids, or ENOENT.
FirstId(ids) == IF ids = {} THEN ENOENT ELSE Min(ids)

btf__find_by_name(b, name) ==
    IF name = "void" THEN 0 ELSE FirstId({i \in DOMAIN b : b[i].n = name})

btf__find_by_name_kind(b, name, kind) ==
    IF kind = "UNKN" \/ name = "void"
      THEN 0
      ELSE FirstId({i \in DOMAIN b : b[i].k = kind /\ b[i].n = name})

(***************************************************************************)
(* btf__get_map_kv_tids(): the key and value types of a map annotated by   *)
(* BPF_ANNOTATE_KV_PAIR, a structure named after the map.  Returns         *)
(* <<error, key id, value id>>.                                            *)
(***************************************************************************)
btf__get_map_kv_tids(b, map, keySize, valueSize) ==
    LET id == btf__find_by_name(b, <<"btf_map", map>>)
        c  == btf__type_by_id(b, id)
        ks == btf__resolve_size(b, c.m[1].t)
        vs == btf__resolve_size(b, c.m[2].t)
    IN  CASE id < 0 -> <<id, 0, 0>>
          [] c.k # "STRUCT" \/ Len(c.m) < 2 -> <<EINVAL, 0, 0>>
          [] ks < 0 -> <<ks, 0, 0>>
          [] keySize # ks -> <<EINVAL, 0, 0>>
          [] vs < 0 -> <<vs, 0, 0>>
          [] valueSize # vs -> <<EINVAL, 0, 0>>
          [] OTHER -> <<0, c.m[1].t, c.m[2].t>>

\* find_extern_type() of libbpf.c: the sort of variable a kernel
\* configuration value can be stored in.
RECURSIVE find_extern_type(_, _)
find_extern_type(b, id) ==
    LET t == btf__type_by_id(b, skip_mods_and_typedefs(b, id))
    IN  CASE t.k = "INT" /\ t.x = "bool" -> IF t.s = 1 THEN "bool" ELSE "unknown"
          [] t.k = "INT" /\ t.x # "bool" -> CASE t.s = 1 -> "char"
                                              [] t.s \in {2, 4, 8} -> "int"
                                              [] OTHER -> "unknown"
          [] t.k = "ENUM" -> IF t.s = 4 /\ t.n = "libbpf_tristate"
                               THEN "tristate" ELSE "unknown"
          [] t.k = "ARRAY" -> IF t.s # 0 /\ find_extern_type(b, t.t) = "char"
                                THEN "char_arr" ELSE "unknown"
          [] OTHER -> "unknown"

=============================================================================
