------------------------------ MODULE BpfCore ------------------------------
(***************************************************************************)
(* The CO-RE relocations of libbpf.c (bpf_core_reloc_fields() and what it  *)
(* calls): an instruction that depends on the layout of a kernel structure *)
(* is patched for the layout the running kernel's BTF describes.           *)
(*                                                                         *)
(* A relocation is [type, raw, kind, insn]: the structure in the local     *)
(* BTF, the access string already split in numbers, what of the field is   *)
(* asked for, and the instruction.  The offset of a member is in bits and  *)
(* its field b is the width of a bitfield, or 0.  An instruction is        *)
(* [class, k, val], k telling that its operand is an immediate.  A name    *)
(* in DOMAIN Flavors is another flavour of the name Flavors gives.         *)
(***************************************************************************)
EXTENDS Btf

CONSTANTS
    Flavors,        \* what precedes the last triple underscore of a name
    SpecMaxLen,     \* BPF_CORE_SPEC_MAX_LEN
    ShrtMax         \* the largest offset an instruction can hold

Missing == -1       \* (__u32)-1, the operand of a relocation that failed
Composite == {"STRUCT", "UNION"}
TypeOf(b, id) == btf__type_by_id(b, id)
Acc(id, idx, name) == [id |-> id, idx |-> idx, name |-> name]
NoSpec == [spec |-> <<>>, raw |-> <<>>, bit |-> 0]

\* bpf_core_essential_name_len() and the comparison of that many characters
Essential(n) == IF n \in DOMAIN Flavors THEN Flavors[n] ELSE n

\* is_flex_arr(): the last member of a structure, declared without a size.
is_flex_arr(b, acc, arr) ==
    acc.name # "" /\ arr.s = 0 /\ acc.idx = Len(TypeOf(b, acc.id).m) - 1

\* One number of the access string; st is [err, id, spec, raw, bit].
ParseAccess(b, st, idx) ==
    LET id  == skip_mods_and_typedefs(b, st.id)
        t   == TypeOf(b, id)
        m   == t.m[idx + 1]
        eid == skip_mods_and_typedefs(b, t.t)
        sz  == btf__resolve_size(b, eid)
        Bad(e) == [st EXCEPT !.err = e]
    IN  CASE st.err # 0 -> st
          [] st.err = 0 /\ t.k \in Composite ->
                 IF idx >= Len(t.m) THEN Bad(EINVAL)
                 ELSE [st EXCEPT !.id = m.t, !.bit = @ + m.v, !.raw = Append(@, idx),
                                 !.spec = IF m.n = "" THEN @ ELSE Append(@, Acc(id, idx, m.n))]
          [] st.err = 0 /\ t.k = "ARRAY" ->
                 IF ~is_flex_arr(b, Last(st.spec), t) /\ idx >= t.s THEN Bad(EINVAL)
                 ELSE IF sz < 0 THEN Bad(sz)
                 ELSE [st EXCEPT !.id = eid, !.bit = @ + idx * sz * 8, !.raw = Append(@, idx),
                                 !.spec = Append(@, Acc(eid, idx, ""))]
          [] OTHER -> Bad(EINVAL)

bpf_core_spec_parse(b, tid, raw) ==
    LET id == skip_mods_and_typedefs(b, tid)
        sz == btf__resolve_size(b, id)
        Step(st, idx) == ParseAccess(b, st, idx)
        first == [err |-> 0, id |-> id, spec |-> <<Acc(id, raw[1], "")>>, raw |-> <<raw[1]>>,
                  bit |-> raw[1] * sz * 8]
    IN  CASE raw = <<>> -> [err |-> EINVAL]
          [] Len(raw) > SpecMaxLen -> [err |-> E2BIG]
          [] OTHER -> IF sz < 0 THEN [err |-> sz] ELSE FoldLeft(Step, first, Tail(raw))

\* bpf_core_find_cands(): every named type of the kernel, of whatever kind.
bpf_core_find_cands(lb, id, tb) ==
    LET Same(i) == tb[i].n # "" /\ Essential(tb[i].n) = Essential(lb[id].n)
    IN  SelectSeq([i \in DOMAIN tb |-> i], Same)

RECURSIVE FieldsCompat(_, _, _, _)
FieldsCompat(lb, lid, tb, tid) ==
    LET l == TypeOf(lb, skip_mods_and_typedefs(lb, lid))
        t == TypeOf(tb, skip_mods_and_typedefs(tb, tid))
    IN  CASE l.k \in Composite /\ t.k \in Composite -> TRUE
          [] ~(l.k \in Composite /\ t.k \in Composite) /\ l.k # t.k -> FALSE
          [] l.k = t.k /\ l.k \in {"PTR", "INT"} -> TRUE
          [] l.k = t.k /\ l.k \in {"FWD", "ENUM"} ->
                 "" \in {l.n, t.n} \/ Essential(l.n) = Essential(t.n)
          [] l.k = t.k /\ l.k = "ARRAY" -> FieldsCompat(lb, l.t, tb, t.t)
          [] OTHER -> FALSE

\* The bookkeeping of a member that is tried, and of one that is given up.
Speculate(s, m, i) == [s EXCEPT !.bit = @ + m.v, !.raw = Append(@, i - 1)]
GiveUpName(s, m) == [s EXCEPT !.raw = Front(@)]      \* mutant: the offset stays added
GiveUp(s, m) == [s EXCEPT !.bit = @ - m.v, !.raw = Front(@)]

(***************************************************************************)
(* bpf_core_match_member(): looks for the field the local accessor names,  *)
(* through anonymous members.  found is 1, 0 or an error; a field of that  *)
(* name and another type ends the search with its offset still added.      *)
(***************************************************************************)
RECURSIVE MatchMember(_, _, _, _, _)
MatchMember(lb, acc, tb, tid, spec) ==
    LET id == skip_mods_and_typedefs(tb, tid)
        t  == TypeOf(tb, id)
        lm == TypeOf(lb, acc.id).m[acc.idx + 1]
        Try(st, i) ==
            LET m  == t.m[i]
                s  == Speculate(st.spec, m, i)
                in == MatchMember(lb, acc, tb, m.t, s)
            IN  CASE st.done -> st
                  [] OTHER ->
                     IF Len(st.spec.raw) = SpecMaxLen
                       THEN [st EXCEPT !.done = TRUE, !.found = E2BIG]
                     ELSE IF m.n = ""
                       THEN IF in.found # 0 THEN [in EXCEPT !.done = TRUE]
                            ELSE [st EXCEPT !.spec = GiveUp(in.spec, m)]
                     ELSE IF m.n = lm.n
                       THEN IF FieldsCompat(lb, lm.t, tb, m.t)
                              THEN [done |-> TRUE, found |-> 1, next |-> m.t,
                                    spec |-> [s EXCEPT !.spec = Append(@, Acc(id, i - 1, m.n))]]
                              ELSE [done |-> TRUE, found |-> 0, next |-> m.t, spec |-> s]
                     ELSE [st EXCEPT !.spec = GiveUp(s, m)]
        none == [done |-> FALSE, found |-> 0, next |-> 0, spec |-> spec]
    IN  IF t.k \notin Composite THEN none ELSE FoldLeftDomain(Try, none, t.m)

\* One accessor of bpf_core_spec_match(); st is [r, id, spec].
MatchAccess(lb, tb, st, k, acc) ==
    LET id  == skip_mods_and_typedefs(tb, st.id)
        t   == TypeOf(tb, id)
        Hit(h) == [r |-> h.found, id |-> h.next, spec |-> h.spec]
        eid == IF k = 1 THEN id ELSE skip_mods_and_typedefs(tb, t.t)
        sz  == btf__resolve_size(tb, eid)
        fits == k = 1 \/ (t.k = "ARRAY" /\ (is_flex_arr(tb, st.spec.spec[k - 1], t) \/ acc.idx < t.s))
    IN  CASE st.r <= 0 -> st
          [] st.r > 0 /\ acc.name # "" -> Hit(MatchMember(lb, acc, tb, id, st.spec))
          [] OTHER -> IF ~fits THEN [st EXCEPT !.r = 0]
                      ELSE IF Len(st.spec.raw) = SpecMaxLen THEN [st EXCEPT !.r = E2BIG]
                      ELSE IF sz < 0 THEN [st EXCEPT !.r = sz]
                      ELSE [r |-> 1, id |-> eid,
                            spec |-> [spec |-> Append(st.spec.spec, Acc(eid, acc.idx, "")),
                                      raw  |-> Append(st.spec.raw, acc.idx),
                                      bit  |-> st.spec.bit + acc.idx * sz * 8]]

bpf_core_spec_match(lb, local, tb, cand) ==
    FoldLeftDomain(LAMBDA st, k : MatchAccess(lb, tb, st, k, local.spec[k]),
                   [r |-> 1, id |-> cand, spec |-> NoSpec], local.spec)

\* The smallest aligned power-of-two window that holds a bitfield, as
\* <<byte offset, byte size>>, or size 0 if 8 bytes do not hold it.
RECURSIVE Window(_, _, _)
Window(off, bits, size) ==
    LET at == ((off \div 8) \div size) * size
    IN  IF off + bits - at * 8 <= size * 8 THEN <<at, size>>
        ELSE IF size >= 8 THEN <<0, 0>> ELSE Window(off, bits, size * 2)

\* bpf_core_calc_field_relo(), of a member m of type mt: win is the window
\* that is read and bits the width.
Calculated(err, val, validate) == [err |-> err, val |-> val, validate |-> validate]
CalcMember(kind, bit, m, mt, win, bits) ==
    CASE win[2] = 0 /\ m.b > 0 -> Calculated(E2BIG, 0, TRUE)
      [] win[2] < 0 /\ m.b = 0 -> Calculated(EINVAL, 0, TRUE)
      [] OTHER -> CASE kind = "offset" -> Calculated(0, win[1], m.b = 0)
                    [] kind = "size" -> Calculated(0, win[2], m.b = 0)
                    [] kind = "signed" -> Calculated(0, IF mt.k = "ENUM" \/ mt.x = "signed" THEN 1 ELSE 0, TRUE)
                    [] kind = "lshift" -> Calculated(0, 64 - (bit + bits - win[1] * 8), m.b = 0)
                    [] kind = "rshift" -> Calculated(0, 64 - bits, TRUE)
                    [] OTHER -> Calculated(EINVAL, 0, TRUE)

CalcField(kind, b, s) ==
    LET acc == Last(s.spec)
        m   == TypeOf(b, acc.id).m[acc.idx + 1]
        esz == btf__resolve_size(b, acc.id)
        msz == btf__resolve_size(b, m.t)
        Member(mt) == IF m.b > 0 THEN CalcMember(kind, s.bit, m, mt, Window(s.bit, m.b, mt.s), m.b)
                      ELSE CalcMember(kind, s.bit, m, mt, <<s.bit \div 8, msz>>, msz * 8)
    IN  CASE acc.name # "" -> Member(TypeOf(b, skip_mods_and_typedefs(b, m.t)))
          [] acc.name = "" /\ kind = "offset" -> Calculated(0, s.bit \div 8, TRUE)
          [] acc.name = "" /\ kind = "size" /\ esz >= 0 -> Calculated(0, esz, TRUE)
          [] OTHER -> Calculated(EINVAL, 0, TRUE)

\* bpf_core_reloc_insn(): tr is the result of the match, r = 0 if none; old
\* and new are the operand the compiler left and the one for this kernel.
WriteInsn(insn, failed, old, new) ==
    IF \/ old.err # 0 \/ new.err # 0
       \/ ~failed /\ old.validate /\ insn.val # old.val
       \/ insn.class # "ALU" /\ (new.val > ShrtMax \/ new.val = Missing)
       \/ insn.class \notin {"ALU", "LDX"} \/ (insn.class = "ALU" /\ ~insn.k)
      THEN [insn |-> insn, err |-> EINVAL]
      ELSE [insn |-> [insn EXCEPT !.val = new.val], err |-> 0]

PatchInsn(relo, insn, lb, local, tb, tr) ==
    CASE relo.kind = "exists" ->
             WriteInsn(insn, FALSE, Calculated(0, 1, TRUE), Calculated(0, tr.r, TRUE))
      [] relo.kind # "exists" /\ tr.r = 0 ->
             WriteInsn(insn, TRUE, Calculated(0, 1, TRUE), Calculated(0, Missing, TRUE))
      [] OTHER -> WriteInsn(insn, FALSE, CalcField(relo.kind, lb, local), CalcField(relo.kind, tb, tr.spec))

\* One candidate of bpf_core_reloc_field(), mt being how it matches; st is
\* [err, kept, first].
TakeCand(st, mt) ==
    CASE mt.r < 0 -> [st EXCEPT !.err = mt.r]
      [] mt.r = 0 -> st
      [] OTHER -> IF st.kept # <<>> /\ mt.spec.bit # st.first.spec.bit
                    THEN [st EXCEPT !.err = EINVAL]
                    ELSE [st EXCEPT !.kept = Append(@, mt.spec.spec[1].id),
                                    !.first = IF st.kept = <<>> THEN mt ELSE @]
TryCand(lb, local, tb, st, cand) ==
    IF st.err # 0 THEN st ELSE TakeCand(st, bpf_core_spec_match(lb, local, tb, cand))

(***************************************************************************)
(* bpf_core_reloc_field(): the candidates of a type are looked up once and *)
(* pruned to those that matched; st is [err, cache, insns], tried the      *)
(* outcome of the candidates and patch that of the instruction.            *)
(***************************************************************************)
Patched(st, relo, left, patch) ==
    IF patch.err # 0 THEN [st EXCEPT !.err = EINVAL]
    ELSE [st EXCEPT !.insns[relo.insn] = patch.insn,
                    !.cache = [t \in DOMAIN @ \cup {relo.type} |-> IF t = relo.type THEN left ELSE @[t]]]

Matched(lb, tb, relaxed, st, relo, local, cands, tried) ==
    CASE tried.err # 0 -> [st EXCEPT !.err = tried.err]
      [] tried.err = 0 /\ tried.kept = <<>> /\ ~relaxed /\ relo.kind # "exists" -> [st EXCEPT !.err = ESRCH]
      [] OTHER -> Patched(st, relo, IF tried.kept = <<>> THEN cands ELSE tried.kept,
                          PatchInsn(relo, st.insns[relo.insn], lb, local, tb, tried.first))

RelocField(lb, tb, relaxed, st, relo) ==
    LET local == bpf_core_spec_parse(lb, relo.type, relo.raw)
        cands == IF relo.type \in DOMAIN st.cache THEN st.cache[relo.type]
                 ELSE bpf_core_find_cands(lb, relo.type, tb)
        none == [err |-> 0, kept |-> <<>>, first |-> [r |-> 0, id |-> 0, spec |-> NoSpec]]
    IN  CASE st.err # 0 -> st
          [] OTHER -> IF local.err # 0 \/ TypeOf(lb, relo.type).n = "" THEN [st EXCEPT !.err = EINVAL]
                      ELSE Matched(lb, tb, relaxed, st, relo, local, cands,
                                   FoldLeft(LAMBDA s, c : TryCand(lb, local, tb, s, c), none, cands))

\* bpf_core_reloc_fields()
bpf_core_reloc_fields(lb, tb, relaxed, insns, relos) ==
    LET NoCache == [t \in {} |-> <<>>]
    IN  FoldLeft(LAMBDA st, relo : RelocField(lb, tb, relaxed, st, relo),
                 [err |-> 0, cache |-> NoCache, insns |-> insns], relos)

-----------------------------------------------------------------------------
(***************************************************************************)
(* What the access of a relocation denotes in a type of the kernel, said   *)
(* with sets: every pair of a bit offset and an accessor its names and     *)
(* indices lead to, through compatible types.  C allows one at most.       *)
(***************************************************************************)
RECURSIVE FieldsNamed(_, _, _)
FieldsNamed(b, id, name) ==
    LET sid == skip_mods_and_typedefs(b, id)
        t == TypeOf(b, sid)
        Here(n) == {i \in DOMAIN t.m : t.m[i].n = n}
    IN  IF t.k \notin Composite THEN {}
        ELSE {<<t.m[i].v, Acc(sid, i - 1, name)>> : i \in Here(name)} \cup
             UNION {{<<t.m[i].v + f[1], f[2]>> : f \in FieldsNamed(b, t.m[i].t, name)} : i \in Here("")}

\* The fields one accessor further than the field x = <<bit, accessor>>.
Further(lb, tb, x, acc) ==
    LET in   == TypeOf(tb, x[2].id)
        tid  == IF x[2].name = "" THEN x[2].id ELSE in.m[x[2].idx + 1].t
        arr  == TypeOf(tb, skip_mods_and_typedefs(tb, tid))
        open == arr.s = 0 /\ x[2].name # "" /\ x[2].idx = Len(in.m) - 1
        MembIn(b, a) == TypeOf(b, a.id).m[a.idx + 1].t
        Suits(f) == FieldsCompat(lb, MembIn(lb, acc), tb, MembIn(tb, f[2]))
    IN  IF acc.name # ""
          THEN {<<x[1] + f[1], f[2]>> : f \in {f \in FieldsNamed(tb, tid, acc.name) : Suits(f)}}
        ELSE IF arr.k = "ARRAY" /\ (open \/ acc.idx < arr.s)
          THEN {<<x[1] + acc.idx * btf__resolve_size(tb, arr.t) * 8,
                  Acc(skip_mods_and_typedefs(tb, arr.t), acc.idx, "")>>}
        ELSE {}

FieldIn(lb, accs, tb, cand) ==
    LET id == skip_mods_and_typedefs(tb, cand)
        Step(at, acc) == UNION {Further(lb, tb, x, acc) : x \in at}
    IN  FoldLeft(Step, {<<accs[1].idx * btf__resolve_size(tb, id) * 8, Acc(id, accs[1].idx, "")>>},
                 Tail(accs))

\* The operand that reads the field at x: a bitfield is read with the window
\* of size bytes at offset, then shifted left and right in a 64-bit word.
OperandOk(kind, b, x, val) ==
    LET m == TypeOf(b, x[2].id).m[x[2].idx + 1]
        size == btf__resolve_size(b, IF x[2].name = "" THEN x[2].id ELSE m.t)
        field == x[2].name # "" /\ m.b > 0
        bits == IF field THEN m.b ELSE size * 8
        Covers(at, n) == at * 8 <= x[1] /\ x[1] + bits <= (at + n) * 8
        windows == {w \in {1, 2, 4, 8} : Covers((x[1] \div (8 * w)) * w, w)}
    IN  CASE kind = "exists" -> val = 1
          [] kind = "offset" -> IF field THEN \E w \in windows : val % w = 0 /\ Covers(val, w)
                                ELSE val * 8 = x[1]
          [] kind = "size" -> IF field THEN val \in windows ELSE val = size
          [] kind = "lshift" -> IF field THEN \E w \in windows : val = 64 - bits - (x[1] % (8 * w))
                                ELSE val = 64 - bits
          [] kind = "rshift" -> val = 64 - bits
          [] OTHER -> val \in {0, 1}

(***************************************************************************)
(* The result of a successful relocation: the candidates left for a type   *)
(* have every field that was found, at the offset that was patched in; a   *)
(* field reported missing is in none of them; and every operand reads the  *)
(* field of some candidate with that offset.                               *)
(***************************************************************************)
RelocatedAs(kind, tb, val, cands, left, fields) ==
    LET found == val # (IF kind = "exists" THEN 0 ELSE Missing)
    IN  /\ \A c \in left : fields[c] # {} <=> found
        /\ \A c, d \in left : found => {x[1] : x \in fields[c]} = {x[1] : x \in fields[d]}
        /\ found => \E c \in cands, d \in left :
                        \E x \in fields[c], y \in fields[d] : x[1] = y[1] /\ OperandOk(kind, tb, x, val)

FieldsOf(lb, tb, cands, accs) == [c \in cands |-> FieldIn(lb, accs, tb, c)]

Relocated(lb, tb, relos, out) ==
    \A r \in ToSet(relos) :
        LET cands == ToSet(bpf_core_find_cands(lb, r.type, tb))
            left == ToSet(out.cache[r.type])
        IN  RelocatedAs(r.kind, tb, out.insns[r.insn].val, cands, left,
                        FieldsOf(lb, tb, cands \cup left, bpf_core_spec_parse(lb, r.type, r.raw).spec))

=============================================================================
