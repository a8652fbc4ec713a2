------------------------------- MODULE BpfLoad -------------------------------
(***************************************************************************)
(* What libbpf gives to the kernel, and what the kernel tells of it.       *)
(***************************************************************************)
EXTENDS Integers, Sequences, SequencesExt

(***************************************************************************)
(* How libbpf gets a program and its BTF into the kernel                   *)
(* (src/lib/libbpf/src/bpf.c, and load_program(), bpf_program__load() and  *)
(* btf__load() of libbpf.c and btf.c), and how it finds out what a kernel  *)
(* can do (bpf_object__probe_caps() and libbpf_probes.c).  A load that the *)
(* kernel refuses is tried again: with the parts of the function and line  *)
(* records that the kernel does not know set to zero, with a log, with a   *)
(* larger log, and at last as another type of program to name the error.   *)
(* The kernel k is a record of what it accepts.                            *)
(***************************************************************************)

Memory == "ENOMEM"
Infos  == {"func", "line"}

\* What the verifier of kernel k says of the instructions for a program type
Verifies(k, insns, type) ==
    CASE insns.op = "ret0"     -> TRUE
      [] insns.op = "mapvalue" -> k.global_data
      [] insns.op = "call"     -> FALSE      \* its arguments are never set
      [] insns.op = "prog"     -> type \in k.good

Unknown(k, insns) == insns.op = "call" /\ insns.id \notin k.helpers

\* Bytes of a record after the size the kernel knows must be zero
TailZero(recs, size) ==
    \A i \in DOMAIN recs : \A j \in (size + 1)..Len(recs[i]) : recs[i][j] = 0

\* bpf(BPF_PROG_LOAD): the answer, the attributes as the kernel leaves them,
\* and what it wrote in the log ("none": it never got as far)
Answer(fd, errno, attr, log) == [fd |-> fd, errno |-> errno, attr |-> attr, log |-> log]

KernelLoad(k, a) ==
    LET bad  == {x \in Infos : a.info[x] # <<>> /\ ~TailZero(a.info[x], k.size[x])}
        first == IF "func" \in bad THEN "func" ELSE "line"
        need == IF bad # {} THEN 1 ELSE k.log
        text == IF a.log_level = 0 THEN "none"
                ELSE IF Unknown(k, a.insns) THEN "unknown func" ELSE "text"
    IN  IF a.type \notin k.types \/ (a.name /\ ~k.name)
        THEN Answer(-1, "EINVAL", a, "none")
        ELSE IF a.log_level > 0 /\ need > a.log_size
        THEN Answer(-1, "ENOSPC",
                    IF bad = {} THEN a ELSE [a EXCEPT !.rec[first] = k.size[first]], text)
        ELSE IF bad # {}
        THEN Answer(-1, "E2BIG", [a EXCEPT !.rec[first] = k.size[first]], text)
        ELSE IF Verifies(k, a.insns, a.type) THEN Answer(3, "", a, text)
        ELSE Answer(-1, "EACCES", a, text)

\* alloc_zero_tailing_info()
ZeroAll(recs, expected) == [i \in DOMAIN recs |-> [j \in DOMAIN recs[i] |-> 0]]

alloc_zero_tailing_info(recs, expected) ==
    [i \in DOMAIN recs |->
        [j \in DOMAIN recs[i] |-> IF j <= expected THEN recs[i][j] ELSE 0]]

\* The loop of bpf_load_program_xattr() while errno is E2BIG: "fixed" are the
\* records already replaced; a replacement that cannot be allocated ends it all
RECURSIVE FixRecords(_, _, _, _, _)
FixRecords(k, la, r, fixed, noMemory) ==
    LET todo == {x \in Infos \ fixed :
                    r.attr.info[x] # <<>> /\ r.attr.rec[x] < la.rec[x]}
        x    == IF "func" \in todo THEN "func" ELSE "line"
    IN  IF r.fd >= 0 \/ r.errno # "E2BIG" \/ todo = {} THEN [r |-> r, done |-> r.fd >= 0]
        ELSE IF x \in noMemory THEN [r |-> [r EXCEPT !.errno = Memory], done |-> TRUE]
        ELSE FixRecords(k, la,
                 KernelLoad(k, [r.attr EXCEPT
                     !.info[x] = alloc_zero_tailing_info(la.info[x], r.attr.rec[x]),
                     !.rec[x]  = la.rec[x]]),
                 fixed \cup {x}, noMemory)

\* The log after several loads: what was written last, if anything was
Written(old, new) == IF new = "none" THEN old ELSE new

\* bpf_load_program_xattr() with a buffer of log_size (0: no buffer, and
\* "sized" when the caller still passes its size).  The buffer holds "junk"
\* until it is written.  EAGAIN is retried by sys_bpf_prog_load() and never
\* seen here.
bpf_load_program_xattr(k, la, log_size, sized, noMemory) ==
    LET attr  == [la EXCEPT !.log_size = IF la.log_level > 0 THEN log_size ELSE 0]
        first == KernelLoad(k, attr)
        Logged(r) == [r EXCEPT !.log = Written("empty", @)]
        Fixed(f) == IF f.done \/ la.log_level > 0 \/ log_size = 0
                    THEN [f.r EXCEPT !.log = IF la.log_level > 0 THEN Written("junk", @) ELSE "junk"]
                    ELSE Logged(KernelLoad(k, [f.r.attr EXCEPT !.log_level = 1, !.log_size = log_size]))
    IN  IF (log_size = 0 /\ sized) \/ (la.log_level > 0 /\ log_size = 0)
        THEN Answer(-1, Memory, la, "junk")   \* -EINVAL, errno is malloc()'s
        ELSE Fixed(FixRecords(k, la, first, {}, noMemory))

---------------------------------------------------------------------------
\* load_program(): "room" is the largest log buffer malloc() gives, junk
\* whether the first byte of an unwritten one happens not to be zero
ShowsLog(log, junk) == log \in {"text", "unknown func"} \/ (log = "junk" /\ junk)

NameKnown(la, caps) == [la EXCEPT !.name = @ /\ caps.name]

\* What a refusal is reported as
Refusal(k, la, r, size, junk, maxInsns) ==
    LET kprobe == bpf_load_program_xattr(k, [la EXCEPT !.type = "KPROBE"], 0, FALSE, {})
    IN  IF size > 0 /\ ShowsLog(r.log, junk) THEN "VERIFY"
        ELSE IF la.cnt >= maxInsns THEN "PROG2BIG"
        ELSE IF la.type # "KPROBE" /\ kprobe.fd >= 0 THEN "PROGTYPE"
        ELSE r.errno

\* The sizes of the log buffer are tried one after the other
RetryOnce(r, size) == r.errno = "ENOSPC" /\ size < 2
Retries(r, size)   == r.errno = "ENOSPC"

RECURSIVE LoadWith(_, _, _, _, _, _)
LoadWith(k, la, size, room, junk, noMemory) ==
    LET buf == IF size <= room THEN size ELSE 0
        Ends(r) == IF r.fd >= 0 THEN [err |-> "", r |-> r]
                   ELSE IF Retries(r, size) THEN LoadWith(k, la, 2 * size, room, junk, noMemory)
                   ELSE [err |-> Refusal(k, la, r, buf, junk, k.maxInsns), r |-> r]
    IN  Ends(bpf_load_program_xattr(k, la, buf, TRUE, noMemory))

load_program(k, caps, la, room, junk, noMemory) ==
    IF la.cnt = 0 THEN [err |-> "EINVAL", r |-> Answer(-1, "", la, "junk")]
    ELSE LoadWith(k, NameKnown(la, caps), 1, room, junk, noMemory)

\* bpf_program__load(): prep says what the preprocessor makes of each
\* instance ("same": the instructions unchanged), <<>> that there is none.
\* The instructions are freed whatever happens.
RECURSIVE LoadInstances(_, _, _)
LoadInstances(one, prep, fds) ==
    LET i == Len(fds) + 1
    IN  IF i > Len(prep) THEN [err |-> "", fds |-> fds]
        ELSE IF prep[i] = "fails" THEN [err |-> "PREP", fds |-> fds]
        ELSE IF prep[i] = "skip" THEN LoadInstances(one, prep, Append(fds, -1))
        ELSE IF one.err # "" THEN [err |-> one.err, fds |-> fds]
        ELSE LoadInstances(one, prep, Append(fds, one.r.fd))

bpf_program__load(k, caps, la, btf_id, room, junk, noMemory, prep) ==
    LET Ends(res, insns) == [err |-> res.err, fds |-> res.fds, insns |-> insns]
        AfterLoad(one) == IF prep # <<>> THEN LoadInstances(one, prep, <<>>)
                       ELSE [err |-> one.err, fds |-> <<IF one.err # "" THEN -1 ELSE one.r.fd>>]
    IN  IF la.type = "TRACING" /\ btf_id <= 0
        THEN Ends([err |-> IF btf_id = 0 THEN "" ELSE "BTF", fds |-> <<>>], la.cnt)
        ELSE Ends(AfterLoad(load_program(k, caps, la, room, junk, noMemory)), 0)

---------------------------------------------------------------------------
\* bpf(BPF_BTF_LOAD): a kernel that knows every kind of the types takes them
KernelBtfLoad(k, kinds, logged) ==
    IF kinds \subseteq k.kinds THEN [fd |-> 4, errno |-> "", log |-> "empty"]
    ELSE [fd |-> -1, errno |-> "EINVAL", log |-> IF logged THEN "text" ELSE "empty"]

bpf_load_btf(k, kinds, buffer, do_log) ==
    LET first == KernelBtfLoad(k, kinds, do_log /\ buffer)
    IN  IF first.fd = -1 /\ ~do_log /\ buffer THEN KernelBtfLoad(k, kinds, TRUE) ELSE first

\* btf__load()
btf__load(k, btf, noMemory) ==
    LET r == bpf_load_btf(k, btf.kinds, TRUE, FALSE)
    IN  IF btf.fd >= 0 THEN [btf |-> btf, err |-> "EEXIST"]
        ELSE IF noMemory THEN [btf |-> btf, err |-> Memory]
        ELSE [btf |-> [btf EXCEPT !.fd = r.fd], err |-> r.errno]

\* btf__get_from_id(): data is the BTF the kernel holds, <<>> when there is
\* none of that id; page the size first tried.  The kernel copies what fits and
\* says how much there is.
FromKernel(data, size) == [i \in 1..size |-> IF i <= Len(data) THEN data[i] ELSE 0]

BtfAnswer(data, err) == [data |-> data, err |-> err]

OnePage(data, page) == page
WholeSize(data, page) == IF Len(data) > page THEN Len(data) ELSE page

btf__get_from_id(data, page, noMemory, fails) ==
    LET size == WholeSize(data, page)
    IN  IF data = <<>> THEN BtfAnswer(<<>>, "")
        ELSE IF "first" \in noMemory THEN BtfAnswer(<<>>, Memory)
        ELSE IF "info" \in fails THEN BtfAnswer(<<>>, "EPERM")
        ELSE IF Len(data) > page /\ "second" \in noMemory THEN BtfAnswer(<<>>, Memory)
        ELSE IF Len(data) > page /\ "again" \in fails THEN BtfAnswer(<<>>, "EPERM")
        ELSE IF Len(data) > size THEN BtfAnswer(<<>>, "EPERM")
        ELSE BtfAnswer(SubSeq(FromKernel(data, size), 1, Len(data)), "")

---------------------------------------------------------------------------
\* The attributes of a probe's program
ProbeAttr(type, insns, name) ==
    [type |-> type, insns |-> insns, cnt |-> 2, name |-> name, log_level |-> 0, log_size |-> 0,
     info |-> [x \in Infos |-> <<>>], rec |-> [x \in Infos |-> 0]]

Ret0 == [op |-> "ret0", id |-> 0]

\* probe_load()
probe_load(k, type, insns, buf) ==
    bpf_load_program_xattr(k, ProbeAttr(type, insns, FALSE), buf, FALSE, {})

bpf_probe_prog_type(k, type) == probe_load(k, type, Ret0, 0).errno \notin {"EINVAL", "EOPNOTSUPP"}

bpf_probe_helper(k, id, type) == probe_load(k, type, [op |-> "call", id |-> id], 1).log # "unknown func"

\* What bpf_probe_map_type() asks for: sizes in bytes
MapAttr(key, value, max, flags) == [key |-> key, value |-> value, max |-> max, flags |-> flags]

ProbeMapAttr(type) ==
    CASE type = "STACK_TRACE"            -> MapAttr(4, 8, 1, {})
      [] type = "LPM_TRIE"               -> MapAttr(8, 8, 1, {"NO_PREALLOC"})
      [] type \in {"CGROUP_STORAGE", "PERCPU_CGROUP_STORAGE"} -> MapAttr(16, 8, 0, {})
      [] type \in {"QUEUE", "STACK"}     -> MapAttr(0, 4, 1, {})
      [] type = "SK_STORAGE"             -> MapAttr(4, 8, 0, {"NO_PREALLOC"})
      [] OTHER                           -> MapAttr(4, 4, 1, {})

\* bpf(BPF_MAP_CREATE): what each type of map insists on
KernelMap(k, type, a, btf, inner) ==
    /\ type \in k.maps
    /\ type \in {"QUEUE", "STACK"} <=> a.key = 0
    /\ type \in {"CGROUP_STORAGE", "PERCPU_CGROUP_STORAGE", "SK_STORAGE"} <=> a.max = 0
    /\ type \in {"LPM_TRIE", "SK_STORAGE"} => "NO_PREALLOC" \in a.flags
    /\ type = "STACK_TRACE" => a.value % 8 = 0
    /\ type \in {"CGROUP_STORAGE", "PERCPU_CGROUP_STORAGE"} => a.key = 16
    /\ type = "SK_STORAGE" => btf
    /\ type \in {"ARRAY_OF_MAPS", "HASH_OF_MAPS"} => inner
    /\ "MMAPABLE" \in a.flags => k.array_mmap

\* bpf_probe_map_type()
bpf_probe_map_type(k, type, ifindex, noMemory) ==
    LET btf    == type = "SK_STORAGE"
        btfFd  == ~noMemory /\ bpf_load_btf(k, {"INT", "STRUCT"}, FALSE, FALSE).fd >= 0
        nested == type \in {"ARRAY_OF_MAPS", "HASH_OF_MAPS"}
        inner  == KernelMap(k, "HASH", MapAttr(4, 4, 1, {}), FALSE, FALSE)
    IN  IF btf /\ ~btfFd THEN FALSE
        ELSE IF nested /\ (ifindex \/ ~inner) THEN FALSE
        ELSE KernelMap(k, type, ProbeMapAttr(type), btf, nested)

---------------------------------------------------------------------------
\* bpf_object__probe_caps(): the five probes in order; a probe that fails
\* leaves its capability off and does not stop the others
LoadsBasic(k, insns, name) ==
    bpf_load_program_xattr(k, ProbeAttr("SOCKET_FILTER", insns, name), 0, FALSE, {}).fd >= 0

bpf_object__probe_name(k) == LoadsBasic(k, Ret0, FALSE) /\ LoadsBasic(k, Ret0, TRUE)

bpf_object__probe_global_data(k) ==
    /\ KernelMap(k, "ARRAY", MapAttr(4, 32, 1, {}), FALSE, FALSE)
    /\ LoadsBasic(k, [op |-> "mapvalue", id |-> 0], FALSE)

bpf_object__probe_btf(k, kinds, noMemory) ==
    ~noMemory /\ bpf_load_btf(k, kinds, FALSE, FALSE).fd >= 0

bpf_object__probe_array_mmap(k) ==
    KernelMap(k, "ARRAY", MapAttr(4, 4, 1, {"MMAPABLE"}), FALSE, FALSE)

bpf_object__probe_caps(k, noMemory) ==
    [name        |-> bpf_object__probe_name(k),
     global_data |-> bpf_object__probe_global_data(k),
     btf_func    |-> bpf_object__probe_btf(k, {"INT", "FUNC_PROTO", "FUNC"}, noMemory),
     btf_datasec |-> bpf_object__probe_btf(k, {"INT", "VAR", "DATASEC"}, noMemory),
     array_mmap  |-> bpf_object__probe_array_mmap(k)]

-----------------------------------------------------------------------------
(***************************************************************************)
(* What the kernel tells of a loaded program: the arrays that              *)
(* bpf_program__get_prog_info_linear() asks for in one piece of memory     *)
(* (src/lib/libbpf/src/libbpf.c), and the search in its line information   *)
(* (bpf_prog_linfo.c).  Fields of struct bpf_prog_info are named by their  *)
(* offsets, and an info is a function from offsets to values.              *)
(***************************************************************************)

InfoSize == 208       \* sizeof(struct bpf_prog_info)

\* size: the offset of the record size, or less its negative
ArrayDesc(array, count, size) == [array |-> array, count |-> count, size |-> size]

bpf_prog_info_array_desc == <<
    ArrayDesc(24, 16, -1),        \* JITED_INSNS
    ArrayDesc(32, 20, -1),        \* XLATED_INSNS
    ArrayDesc(56, 52, -4),        \* MAP_IDS
    ArrayDesc(112, 104, -8),      \* JITED_KSYMS
    ArrayDesc(120, 108, -4),      \* JITED_FUNC_LENS
    ArrayDesc(136, 144, 132),     \* FUNC_INFO
    ArrayDesc(152, 148, 172),     \* LINE_INFO
    ArrayDesc(160, 168, 176),     \* JITED_LINE_INFO
    ArrayDesc(184, 180, -8) >>    \* PROG_TAGS

InfoFields == {16, 20, 24, 32, 52, 56, 104, 108, 112, 120, 132, 136, 144, 148, 152, 160, 168, 172, 176, 180, 184}
NoInfo == [o \in InfoFields |-> 0]

ReadField(info, offset) == IF offset >= 0 THEN info[offset] ELSE 0 - offset
SetField(info, offset, value) == IF offset >= 0 THEN [info EXCEPT ![offset] = value] ELSE info

\* The arrays a kernel whose struct has len bytes can give
Supported(i, len) ==
    LET d == bpf_prog_info_array_desc[i]
    IN  len >= d.array + 4 /\ len >= d.count + 4 /\ (d.size > 0 => len >= d.size)

ArrayLen(info, i) ==
    LET d == bpf_prog_info_array_desc[i] IN ReadField(info, d.count) * ReadField(info, d.size)

\* Mutant of PtrAfter: counts records instead of bytes
PtrAfterCount(ptr, info, i) == ptr + ReadField(info, bpf_prog_info_array_desc[i].count)
PtrAfter(ptr, info, i) == ptr + ArrayLen(info, i)

(***************************************************************************)
(* bpf_program__get_prog_info_linear(): info is what the first call told   *)
(* and len its info_len; data is the address of the memory.  The result    *)
(* holds the info given to the second call.                                *)
(***************************************************************************)
bpf_program__get_prog_info_linear(asked, info, len, data) ==
    LET arrays == {i \in asked : Supported(i, len)}
        Chosen(i) == i \in arrays
        order == SelectSeq([i \in DOMAIN bpf_prog_info_array_desc |-> i], Chosen)
        total == FoldLeft(LAMBDA n, i : n + ArrayLen(info, i), 0, order)
        Fill(acc, i) ==
          LET d == bpf_prog_info_array_desc[i]
              counted == SetField(acc.info, d.count, ReadField(info, d.count))
              sized == SetField(counted, d.size, ReadField(info, d.size))
          IN  [info |-> SetField(sized, d.array, acc.ptr), ptr |-> PtrAfter(acc.ptr, info, i)]
    IN  [arrays |-> arrays, data_len |-> ((total + 7) \div 8) * 8,
         info |-> FoldLeft(Fill, [info |-> NoInfo, ptr |-> data], order).info]

\* bpf_program__bpil_addr_to_offs() and its inverse: by is the change
Shift(linear, by) ==
    [linear EXCEPT !.info = [o \in InfoFields |->
        IF \E i \in linear.arrays : o = bpf_prog_info_array_desc[i].array THEN @[o] + by ELSE @[o]]]
bpf_program__bpil_addr_to_offs(linear, data) == Shift(linear, 0 - data)
bpf_program__bpil_offs_to_addr(linear, data) == Shift(linear, data)

----------------------------------------------------------------------------
(***************************************************************************)
(* struct bpf_prog_linfo: the offsets of the instructions that begin a     *)
(* line (linfo), their addresses in the translated program (jited) and,    *)
(* of each function, the index of its first record (func_idx) and their    *)
(* number (per_func).  Indices are from 0, as in the code; <<>> is NULL.   *)
(***************************************************************************)

\* Mutant of PerFunc: one too many
PerFuncMore(i, prev_i) == i - prev_i + 1
PerFunc(i, prev_i) == i - prev_i

dissect_jited_func(jited, ksym_func, ksym_len) ==
    LET nf == Len(ksym_func)
        n == Len(jited)
        Step(a, i) ==
          CASE ~a.ok \/ a.f >= nf -> a
            [] ksym_func[a.f + 1] = jited[i + 1] ->
                 IF jited[i] - ksym_func[a.f] + 1 > ksym_len[a.f] THEN [a EXCEPT !.ok = FALSE]
                 ELSE [a EXCEPT !.func_idx = Append(@, i), !.per_func = Append(@, PerFunc(i, a.prev_i)),
                                !.prev_i = i, !.f = @ + 1]
            [] OTHER -> [a EXCEPT !.ok = jited[i + 1] > jited[i]]
        start == [ok |-> ksym_func[1] = jited[1], func_idx |-> <<0>>, per_func |-> <<>>, prev_i |-> 0, f |-> 1]
        end == FoldLeft(Step, start, [i \in 1 .. n - 1 |-> i])
    IN  IF ~end.ok \/ end.f # nf THEN <<>>
        ELSE <<[func_idx |-> end.func_idx, per_func |-> Append(end.per_func, n - end.prev_i)]>>

\* p holds the info's linfo, jited, ksym_func and ksym_len and whether the
\* records of the first two are long enough.
bpf_prog_linfo__new(p, noMemory) ==
    LET plain == [linfo |-> p.linfo, jited |-> <<>>, func_idx |-> <<>>, per_func |-> <<>>]
        funcs == dissect_jited_func(p.jited, p.ksym_func, p.ksym_len)
    IN  CASE p.linfo = <<>> \/ ~p.longRecs \/ noMemory -> <<>>
          [] \/ p.ksym_func = <<>> \/ Len(p.jited) # Len(p.linfo) \/ ~p.longJited
             \/ Len(p.ksym_len) # Len(p.ksym_func) -> <<plain>>
          [] funcs = <<>> -> <<>>
          [] OTHER -> <<[plain EXCEPT !.jited = p.jited, !.func_idx = funcs[1].func_idx,
                                      !.per_func = funcs[1].per_func]>>

\* The search of both functions: the record before the first above at, among
\* the n records from start; -1 is NULL.
LastNotAbove(keys, at, start, n) ==
    LET Above(i) == at < keys[i + 1]
        stop == SelectInSeq([i \in 1 .. n |-> start + i - 1], Above)
    IN  IF Above(start) THEN -1 ELSE IF stop = 0 THEN start + n - 1 ELSE start + stop - 2

bpf_prog_linfo__lfind_addr_func(l, addr, func, skip) ==
    IF func >= Len(l.per_func) \/ (func < Len(l.per_func) /\ skip >= l.per_func[func + 1]) THEN -1
    ELSE LastNotAbove(l.jited, addr, l.func_idx[func + 1] + skip, l.per_func[func + 1] - skip)

bpf_prog_linfo__lfind(l, insn_off, skip) ==
    IF skip >= Len(l.linfo) THEN -1 ELSE LastNotAbove(l.linfo, insn_off, skip, Len(l.linfo) - skip)

=============================================================================
