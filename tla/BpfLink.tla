------------------------------- MODULE BpfLink -------------------------------
(***************************************************************************)
(* Programs, links and skeletons (src/lib/libbpf/src/libbpf.c).            *)
(***************************************************************************)
EXTENDS Btf

(***************************************************************************)
(* What the name of a program's section says of it: section_defs and the   *)
(* lookups in it (src/lib/libbpf/src/libbpf.c).  A name is the sequence of *)
(* its parts, cut so that strncmp() with a prefix of the table is          *)
(* IsPrefix; 0 is the zero of both enumerations of attach types.           *)
(***************************************************************************)

Unspec == "UNSPEC"

SecDef(sec, type, expected, attachable, btf, attach, fn) ==
    [sec |-> sec, prog_type |-> type, expected_attach_type |-> expected, is_attachable |-> attachable,
     is_attach_btf |-> btf, attach_type |-> attach, attach_fn |-> fn]

BPF_PROG_SEC(sec, type) == SecDef(sec, type, "0", FALSE, FALSE, "0", "none")
BPF_APROG_SEC(sec, type, attach) == SecDef(sec, type, "0", TRUE, FALSE, attach, "none")
BPF_EAPROG_SEC(sec, type, attach) == SecDef(sec, type, attach, TRUE, FALSE, attach, "none")
SEC_DEF(sec, type, fn) == SecDef(sec, type, "0", FALSE, FALSE, "0", fn)
SEC_BTF(sec, expected) == SecDef(sec, "TRACING", expected, FALSE, TRUE, "0", "attach_trace")

section_defs == <<
    BPF_PROG_SEC(<<"socket">>, "SOCKET_FILTER"),
    BPF_PROG_SEC(<<"sk_reuseport">>, "SK_REUSEPORT"),
    SEC_DEF(<<"kprobe/">>, "KPROBE", "attach_kprobe"),
    BPF_PROG_SEC(<<"uprobe/">>, "KPROBE"),
    SEC_DEF(<<"kretprobe/">>, "KPROBE", "attach_kprobe"),
    BPF_PROG_SEC(<<"uretprobe/">>, "KPROBE"),
    BPF_PROG_SEC(<<"classifier">>, "SCHED_CLS"),
    BPF_PROG_SEC(<<"action">>, "SCHED_ACT"),
    SEC_DEF(<<"tracepoint/">>, "TRACEPOINT", "attach_tp"),
    SEC_DEF(<<"tp/">>, "TRACEPOINT", "attach_tp"),
    SEC_DEF(<<"raw_tracepoint/">>, "RAW_TRACEPOINT", "attach_raw_tp"),
    SEC_DEF(<<"raw_tp/">>, "RAW_TRACEPOINT", "attach_raw_tp"),
    SEC_BTF(<<"tp_btf/">>, "TRACE_RAW_TP"),
    SEC_BTF(<<"fentry/">>, "TRACE_FENTRY"),
    SEC_BTF(<<"fexit/">>, "TRACE_FEXIT"),
    BPF_PROG_SEC(<<"xdp">>, "XDP"),
    BPF_PROG_SEC(<<"perf_event">>, "PERF_EVENT"),
    BPF_PROG_SEC(<<"lwt_in">>, "LWT_IN"),
    BPF_PROG_SEC(<<"lwt_out">>, "LWT_OUT"),
    BPF_PROG_SEC(<<"lwt_xmit">>, "LWT_XMIT"),
    BPF_PROG_SEC(<<"lwt_seg6local">>, "LWT_SEG6LOCAL"),
    BPF_APROG_SEC(<<"cgroup_skb/ingress">>, "CGROUP_SKB", "CGROUP_INET_INGRESS"),
    BPF_APROG_SEC(<<"cgroup_skb/egress">>, "CGROUP_SKB", "CGROUP_INET_EGRESS"),
    BPF_PROG_SEC(<<"cgroup/skb">>, "CGROUP_SKB"),
    BPF_APROG_SEC(<<"cgroup/sock">>, "CGROUP_SOCK", "CGROUP_INET_SOCK_CREATE"),
    BPF_EAPROG_SEC(<<"cgroup/post_bind4">>, "CGROUP_SOCK", "CGROUP_INET4_POST_BIND"),
    BPF_EAPROG_SEC(<<"cgroup/post_bind6">>, "CGROUP_SOCK", "CGROUP_INET6_POST_BIND"),
    BPF_APROG_SEC(<<"cgroup/dev">>, "CGROUP_DEVICE", "CGROUP_DEVICE"),
    BPF_APROG_SEC(<<"sockops">>, "SOCK_OPS", "CGROUP_SOCK_OPS"),
    BPF_APROG_SEC(<<"sk_skb", "/stream_parser">>, "SK_SKB", "SK_SKB_STREAM_PARSER"),
    BPF_APROG_SEC(<<"sk_skb", "/stream_verdict">>, "SK_SKB", "SK_SKB_STREAM_VERDICT"),
    BPF_PROG_SEC(<<"sk_skb">>, "SK_SKB"),
    BPF_APROG_SEC(<<"sk_msg">>, "SK_MSG", "SK_MSG_VERDICT"),
    BPF_APROG_SEC(<<"lirc_mode2">>, "LIRC_MODE2", "LIRC_MODE2"),
    BPF_APROG_SEC(<<"flow_dissector">>, "FLOW_DISSECTOR", "FLOW_DISSECTOR"),
    BPF_EAPROG_SEC(<<"cgroup/bind4">>, "CGROUP_SOCK_ADDR", "CGROUP_INET4_BIND"),
    BPF_EAPROG_SEC(<<"cgroup/bind6">>, "CGROUP_SOCK_ADDR", "CGROUP_INET6_BIND"),
    BPF_EAPROG_SEC(<<"cgroup/connect4">>, "CGROUP_SOCK_ADDR", "CGROUP_INET4_CONNECT"),
    BPF_EAPROG_SEC(<<"cgroup/connect6">>, "CGROUP_SOCK_ADDR", "CGROUP_INET6_CONNECT"),
    BPF_EAPROG_SEC(<<"cgroup/sendmsg4">>, "CGROUP_SOCK_ADDR", "CGROUP_UDP4_SENDMSG"),
    BPF_EAPROG_SEC(<<"cgroup/sendmsg6">>, "CGROUP_SOCK_ADDR", "CGROUP_UDP6_SENDMSG"),
    BPF_EAPROG_SEC(<<"cgroup/recvmsg4">>, "CGROUP_SOCK_ADDR", "CGROUP_UDP4_RECVMSG"),
    BPF_EAPROG_SEC(<<"cgroup/recvmsg6">>, "CGROUP_SOCK_ADDR", "CGROUP_UDP6_RECVMSG"),
    BPF_EAPROG_SEC(<<"cgroup/sysctl">>, "CGROUP_SYSCTL", "CGROUP_SYSCTL"),
    BPF_EAPROG_SEC(<<"cgroup/getsockopt">>, "CGROUP_SOCKOPT", "CGROUP_GETSOCKOPT"),
    BPF_EAPROG_SEC(<<"cgroup/setsockopt">>, "CGROUP_SOCKOPT", "CGROUP_SETSOCKOPT") >>

\* The first of the rows whose prefix the name has, or 0
FirstDef(name, rows) ==
    LET fits == {i \in rows : IsPrefix(section_defs[i].sec, name)}
    IN  IF fits = {} THEN 0 ELSE Min(fits)

\* Mutant of find_sec_def: the last row that fits instead of the first
FindLastDef(name) == SelectLastInSeq(section_defs, LAMBDA d : IsPrefix(d.sec, name))

find_sec_def(name) == FirstDef(name, DOMAIN section_defs)

\* libbpf_prog_type_by_name(): <<error, type, expected attach type>>
libbpf_prog_type_by_name(name) ==
    LET i == find_sec_def(name)
    IN  IF i = 0 THEN <<ESRCH, Unspec, "0">>
        ELSE <<0, section_defs[i].prog_type, section_defs[i].expected_attach_type>>

\* libbpf_attach_type_by_name(): <<error, attach type>>
libbpf_attach_type_by_name(name) ==
    LET i == find_sec_def(name)
    IN  IF i = 0 \/ ~section_defs[i].is_attachable THEN <<EINVAL, "0">> ELSE <<0, section_defs[i].attach_type>>

\* The parts of the name after the prefix of row i
Rest(name, i) == SubSeq(name, Len(section_defs[i].sec) + 1, Len(name))

(***************************************************************************)
(* libbpf_find_attach_btf_id(): the id of what a tracing program attaches  *)
(* to, in the BTF of the kernel (kernel) or, if fd # 0, of the program it  *)
(* replaces (prog); <<>> is a BTF that cannot be had.                      *)
(***************************************************************************)
libbpf_find_vmlinux_btf_id(kernel, name, attach) ==
    IF kernel = <<>> THEN EINVAL
    ELSE IF attach = "TRACE_RAW_TP" THEN btf__find_by_name_kind(kernel, "btf_trace_" \o name, "TYPEDEF")
    ELSE btf__find_by_name_kind(kernel, name, "FUNC")

libbpf_find_prog_btf_id(prog, name) ==
    IF prog = <<>> THEN EINVAL ELSE btf__find_by_name_kind(prog, name, "FUNC")

libbpf_find_attach_btf_id(name, attach, fd, kernel, prog) ==
    LET i == FirstDef(name, {r \in DOMAIN section_defs : section_defs[r].is_attach_btf})
    IN  CASE i = 0 -> ESRCH
          [] i # 0 /\ fd # 0 -> libbpf_find_prog_btf_id(prog, Rest(name, i)[1])
          [] OTHER -> libbpf_find_vmlinux_btf_id(kernel, Rest(name, i)[1], attach)

-----------------------------------------------------------------------------
(***************************************************************************)
(* Programs attached by the names of their sections, and the life of a     *)
(* skeleton (src/lib/libbpf/src/libbpf.c).  What a process holds is a      *)
(* record s:                                                               *)
(*   secs    the sections of its programs                                  *)
(*   st      "new", "opened", "loaded" or "gone"                           *)
(*   fds     open descriptors: <<"prog", i>>, <<"map", j>> and hooks       *)
(*   links   the link of each program: NoLink, ErrLink or [fd, off], off   *)
(*           if it is disconnected                                         *)
(*   maps    for each map with a pointer in the skeleton its flag          *)
(*           BPF_F_MMAPABLE, whether it is .kconfig, what is mapped at its *)
(*           address (mem) and what the skeleton's pointer points to (ptr) *)
(* A call is given the step of it that fails, "" if none does.             *)
(***************************************************************************)

NoMemory == -12
ESYS == -5         \* what a failed system call left in errno

NoLink == [fd |-> <<>>, off |-> FALSE]
ErrLink == [fd |-> <<"err">>, off |-> FALSE]

\* A hook is a descriptor that runs program i, once it is set and enabled.
Hook(i, kind, name) == <<"hook", i, kind, name>>
Attached(s, err, link) == [s |-> s, err |-> err, link |-> link]
Opened(s, fd) == [s EXCEPT !.fds = @ \cup {fd}]
Closed(s, fd) == [s EXCEPT !.fds = @ \ {fd}]
Loaded(s, i) == <<"prog", i>> \in s.fds

(***************************************************************************)
(* bpf_program__attach_perf_event() does not close the event when it       *)
(* fails; its callers do.  An event without bpf_program__fd() is refused.  *)
(***************************************************************************)
bpf_program__attach_perf_event(s, i, pfd, fail) ==
    CASE ~Loaded(s, i) -> Attached(s, EINVAL, ErrLink)
      [] fail = "calloc" -> Attached(s, NoMemory, ErrLink)
      [] fail \in {"set_bpf", "enable"} -> Attached(s, ESYS, ErrLink)
      [] OTHER -> Attached(s, 0, [fd |-> pfd, off |-> FALSE])

\* Mutant of CloseOnError: the event stays open
KeepOnError(r, pfd) == r
CloseOnError(r, pfd) == IF r.err = 0 THEN r ELSE [r EXCEPT !.s = Closed(r.s, pfd)]
AttachEvent(s, i, pfd, fail) ==
    CloseOnError(bpf_program__attach_perf_event(Opened(s, pfd), i, pfd, fail), pfd)

\* bpf_program__attach_kprobe() and bpf_program__attach_uprobe(): the files a
\* probe's type and bit are read from, then perf_event_open()
AttachProbe(s, i, uprobe, retprobe, name, fail) ==
    IF fail \in {"type", "open"} \/ (retprobe /\ fail = "bit") THEN Attached(s, ESYS, ErrLink)
    ELSE AttachEvent(s, i, Hook(i, <<uprobe, retprobe>>, name), fail)

bpf_program__attach_tracepoint(s, i, name, fail) ==
    IF fail \in {"type", "open"} THEN Attached(s, ESYS, ErrLink) ELSE AttachEvent(s, i, Hook(i, <<"tp">>, name), fail)

\* "tp/<category>/<name>"
attach_tp(s, i, rest, fail) ==
    CASE fail = "strdup" -> Attached(s, NoMemory, ErrLink)
      [] Len(rest) < 2 -> Attached(s, EINVAL, ErrLink)
      [] OTHER -> bpf_program__attach_tracepoint(s, i, rest, fail)

\* bpf_program__attach_raw_tracepoint(), and bpf_program__attach_trace()
\* without a name
AttachRaw(s, i, kind, name, fail) ==
    CASE ~Loaded(s, i) -> Attached(s, EINVAL, ErrLink)
      [] fail = "calloc" -> Attached(s, NoMemory, ErrLink)
      [] fail = "open" -> Attached(s, ESYS, ErrLink)
      [] OTHER -> Attached(Opened(s, Hook(i, kind, name)), 0, [fd |-> Hook(i, kind, name), off |-> FALSE])

\* attach_fn of row d
AttachBy(s, i, d, fail) ==
    LET def == section_defs[d]
        rest == Rest(s.secs[i], d)
    IN  CASE def.attach_fn = "attach_kprobe" ->
                 AttachProbe(s, i, FALSE, def.sec = <<"kretprobe/">>, rest, fail)
          [] def.attach_fn = "attach_tp" -> attach_tp(s, i, rest, fail)
          [] def.attach_fn = "attach_raw_tp" -> AttachRaw(s, i, <<"raw_tp">>, rest, fail)
          [] def.attach_fn = "attach_trace" -> AttachRaw(s, i, <<"trace">>, <<>>, fail)

HasAttachFn(sec) == LET d == find_sec_def(sec) IN d # 0 /\ section_defs[d].attach_fn # "none"

\* bpf_link__destroy(): the hook goes with its descriptor, also when it could
\* not be disabled; a disconnected one stays.
bpf_link__destroy(s, i) ==
    IF s.links[i] \in {NoLink, ErrLink} \/ s.links[i].off THEN s ELSE Closed(s, s.links[i].fd)

----------------------------------------------------------------------------
\* Skeletons.  Results are [s, err].

Did(s, err) == [s |-> s, err |-> err]
SetPtr(s, j, ptr) == [s EXCEPT !.maps[j].ptr = ptr]

NewSkeleton(secs, maps) ==
    [secs |-> secs, st |-> "new", fds |-> {}, links |-> [i \in DOMAIN secs |-> NoLink],
     maps |-> [j \in DOMAIN maps |-> maps[j] @@ [mem |-> "none", ptr |-> "null"]]]

\* bpf_object__open_skeleton(): a map (number at) or program that is not found
\* leaves the object open.
bpf_object__open_skeleton(s, fail, at) ==
    LET opened == [s EXCEPT !.st = "opened", !.maps = [j \in DOMAIN s.maps |-> [s.maps[j] EXCEPT !.mem = "image"]]]
        SetIfData(r, j) == IF r.maps[j].kconfig THEN r ELSE SetPtr(r, j, "image")
        Found(n) == FoldLeft(SetIfData, opened, [j \in 1 .. n |-> j])
    IN  CASE fail = "open" -> Did(s, ESYS)
          [] fail = "find_map" -> Did(Found(at - 1), ESRCH)
          [] fail = "find_prog" -> Did(Found(Len(s.maps)), ESRCH)
          [] OTHER -> Did(Found(Len(s.maps)), 0)

(***************************************************************************)
(* bpf_object__load_skeleton(): puts the map in the place of its image.    *)
(* When mmap() fails the image may be gone, gone says.                     *)
(***************************************************************************)
RemapNext(r, j, fail, gone) ==
    CASE r.err # 0 -> r
      [] r.err = 0 /\ ~r.s.maps[j].mmapable -> Did(SetPtr(r.s, j, "null"), 0)
      [] r.err = 0 /\ r.s.maps[j].mmapable /\ fail = "remap" ->
             Did([SetPtr(r.s, j, "null") EXCEPT !.maps[j].mem = IF gone THEN "none" ELSE "image"], ESYS)
      [] OTHER -> Did([SetPtr(r.s, j, "map") EXCEPT !.maps[j].mem = "map"], 0)

bpf_object__load_skeleton(s, fail, gone) ==
    LET Remap(r, j) == RemapNext(r, j, fail, gone)
        loaded == [s EXCEPT !.st = "loaded", !.fds = @ \cup ({"prog"} \X DOMAIN s.secs)
                                                       \cup ({"map"} \X DOMAIN s.maps)]
    IN  IF fail = "load" THEN Did(s, ESYS) ELSE FoldLeft(Remap, Did(loaded, 0), [j \in DOMAIN s.maps |-> j])

\* bpf_object__attach_skeleton(): stops at the first program that fails, the
\* one numbered bad if any; those before it stay attached.
bpf_object__attach_skeleton(s, bad, fail) ==
    LET Attach(r, i) ==
          IF r.err # 0 \/ ~HasAttachFn(s.secs[i]) THEN r
          ELSE LET a == AttachBy(r.s, i, find_sec_def(s.secs[i]), IF i = bad THEN fail ELSE "")
               IN  Did([a.s EXCEPT !.links[i] = a.link], a.err)
    IN  FoldLeft(Attach, Did(s, 0), [i \in DOMAIN s.secs |-> i])

bpf_object__detach_skeleton(s) ==
    [FoldLeft(bpf_link__destroy, s, [i \in DOMAIN s.secs |-> i]) EXCEPT !.links = [i \in DOMAIN s.secs |-> NoLink]]

\* bpf_object__destroy_skeleton(), with bpf_object__close() of what was opened
bpf_object__destroy_skeleton(s) ==
    LET d == bpf_object__detach_skeleton(s)
    IN  [d EXCEPT !.st = "gone", !.fds = {f \in @ : f[1] = "hook"},
                  !.maps = [j \in DOMAIN d.maps |-> [d.maps[j] EXCEPT !.mem = "none", !.ptr = "null"]]]

----------------------------------------------------------------------------
(***************************************************************************)
(* bpf_prog_load_xattr(), as VTL's xdp_user_helpers.c calls it: opens an   *)
(* object, settles the types of its programs and loads it.  Returns the    *)
(* error, whether the object is left open, the types, and which program's  *)
(* descriptor the caller gets.                                             *)
(***************************************************************************)
Typed(sec, type, expected) ==
    IF type # Unspec THEN <<type, expected>>
    ELSE <<libbpf_prog_type_by_name(sec)[2], libbpf_prog_type_by_name(sec)[3]>>

bpf_prog_load_xattr(secs, type, expected, fail) ==
    LET types == [i \in DOMAIN secs |-> Typed(secs[i], type, expected)]
        Fails(err) == [err |-> err, open |-> FALSE, types |-> <<>>, fd |-> 0]
    IN  CASE fail = "open" -> Fails(ENOENT)
          [] fail # "open" /\ \E i \in DOMAIN secs : types[i][1] = Unspec -> Fails(EINVAL)
          [] fail # "open" /\ secs = <<>> -> Fails(ENOENT)
          [] fail = "load" -> Fails(EINVAL)
          [] OTHER -> [err |-> 0, open |-> TRUE, types |-> types, fd |-> 1]

=============================================================================
