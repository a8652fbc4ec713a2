------------------------------ MODULE Netlink -------------------------------
(***************************************************************************)
(* Requests over netlink (src/lib/libbpf/src/netlink.c, nlattr.c): the     *)
(* program of an interface set and asked for, and the dumps of traffic     *)
(* control.  An attribute is [type, len, data] with len the nla_len, and   *)
(* data a number or the attributes nested in it.  A message is             *)
(* [pid, seq, multi, type, error, ifi, attrs, len], a datagram             *)
(* [err, msgs], err being what recv() fails with.                          *)
(***************************************************************************)
EXTENDS Integers, Sequences, SequencesExt

WRNGPID == -4011
INVSEQ == -4012
NoAnswer == -4999      \* recv() would wait for ever

IFLA_XDP == 43
IFLA_MAX == 50
IFLA_XDP_FD == 1
IFLA_XDP_ATTACHED == 2
IFLA_XDP_FLAGS == 3
IFLA_XDP_PROG_ID == 4
IFLA_XDP_DRV_PROG_ID == 5
IFLA_XDP_SKB_PROG_ID == 6
IFLA_XDP_HW_PROG_ID == 7
IFLA_XDP_MAX == 7

NLA_ALIGN(len) == ((len + 3) \div 4) * 4
NLA_HDRLEN == 4
NlmsgLength == 32      \* NLMSG_LENGTH(sizeof(struct ifinfomsg))

Attr(type, len, data) == [type |-> type, len |-> len, data |-> data]

nla_ok(nla, remaining) == remaining >= NLA_HDRLEN /\ nla.len >= NLA_HDRLEN /\ nla.len <= remaining

\* libbpf_nla_parse() without a policy: the attribute of each type, as <<it>>
\* or <<>>; the last of several counts.
libbpf_nla_parse(maxtype, attrs, len) ==
    LET Next(acc, nla) ==
          IF acc.end \/ ~nla_ok(nla, acc.rem) THEN [acc EXCEPT !.end = TRUE]
          ELSE [acc EXCEPT !.rem = @ - NLA_ALIGN(nla.len),
                           !.tb = IF nla.type > maxtype THEN @ ELSE [@ EXCEPT ![nla.type] = <<nla>>]]
    IN  FoldLeft(Next, [end |-> FALSE, rem |-> len, tb |-> [t \in 0 .. maxtype |-> <<>>]], attrs).tb

libbpf_nla_parse_nested(maxtype, nla) == libbpf_nla_parse(maxtype, nla.data, nla.len - NLA_HDRLEN)

\* libbpf_netlink_open(): whether a socket is left open
libbpf_netlink_open(fail) == fail \notin {"socket", "bind", "getsockname"}

----------------------------------------------------------------------------
\* The callbacks: <<ret, cookie>>

get_xdp_info(c, ifi, tb) ==
    LET xdp == libbpf_nla_parse_nested(IFLA_XDP_MAX, tb[IFLA_XDP][1])
        mode == xdp[IFLA_XDP_ATTACHED][1].data
        Id(attr, old) == IF xdp[attr] = <<>> THEN old ELSE xdp[attr][1].data
    IN  CASE c.ifindex # 0 /\ c.ifindex # ifi -> <<0, c>>
          [] tb[IFLA_XDP] = <<>> -> <<0, c>>
          [] xdp[IFLA_XDP_ATTACHED] = <<>> -> <<0, c>>
          [] mode = "NONE" -> <<0, [c EXCEPT !.info.attach_mode = mode]>>
          [] OTHER -> <<0, [c EXCEPT !.info = [attach_mode |-> mode,
                                               prog_id |-> Id(IFLA_XDP_PROG_ID, c.info.prog_id),
                                               skb_prog_id |-> Id(IFLA_XDP_SKB_PROG_ID, c.info.skb_prog_id),
                                               drv_prog_id |-> Id(IFLA_XDP_DRV_PROG_ID, c.info.drv_prog_id),
                                               hw_prog_id |-> Id(IFLA_XDP_HW_PROG_ID, c.info.hw_prog_id)]]>>

__dump_link_nlmsg(c, msg) ==
    get_xdp_info(c, msg.ifi, libbpf_nla_parse(IFLA_MAX, msg.attrs, msg.len - NlmsgLength))

\* What the caller of libbpf_nl_get_class(), libbpf_nl_get_qdisc() or
\* libbpf_nl_get_filter() does with a message: it keeps it, and stops at the
\* message numbered stop.
Keep(c, msg) ==
    <<IF Len(c.got) + 1 = c.stop THEN 7 ELSE 0, [c EXCEPT !.got = Append(@, msg.ifi)]>>

Callback(fn, c, msg) ==
    CASE fn = "NULL" -> <<0, c>>
      [] fn = "__dump_link_nlmsg" -> __dump_link_nlmsg(c, msg)
      [] fn = "Keep" -> Keep(c, msg)

(***************************************************************************)
(* bpf_netlink_recv(): reads the datagrams until the end of the answer.    *)
(* fn names the callback.  Returns <<ret, cookie>>.                        *)
(***************************************************************************)
\* Mutant of GoesOn: one datagram is all
GoesOnOnce(multi, msg) == FALSE
GoesOn(multi, msg) == multi \/ msg.multi

bpf_netlink_recv(grams, pid, seq, fn, cookie0) ==
    LET Ret(acc, ret) == [acc EXCEPT !.done = TRUE, !.ret = ret]
        Message(acc, m) ==
          CASE acc.done -> acc
            [] m.pid # pid -> Ret(acc, WRNGPID)
            [] m.seq # seq -> Ret(acc, INVSEQ)
            [] m.type = "ERROR" ->
                 IF m.error = 0 THEN [acc EXCEPT !.multi = GoesOn(@, m)] ELSE Ret(acc, m.error)
            [] m.type = "DONE" -> Ret(acc, 0)
            [] OTHER -> LET f == Callback(fn, acc.cookie, m)
                        IN  [acc EXCEPT !.multi = GoesOn(@, m), !.cookie = f[2], !.done = f[1] # 0, !.ret = f[1]]
        Datagram(acc, g) ==
          CASE acc.done -> acc
            [] ~acc.multi -> Ret(acc, 0)
            [] g.err # 0 -> Ret(acc, g.err)
            [] g.msgs = <<>> -> Ret(acc, 0)
            [] OTHER -> FoldLeft(Message, [acc EXCEPT !.multi = FALSE], g.msgs)
        Result(end) == <<IF end.done \/ ~end.multi THEN end.ret ELSE NoAnswer, end.cookie>>
    IN  Result(FoldLeft(Datagram, [done |-> FALSE, multi |-> TRUE, ret |-> 0, cookie |-> cookie0], grams))

----------------------------------------------------------------------------
\* bpf_set_link_xdp_fd(): the request

XdpAttrs(fd, flags) ==
    <<Attr(IFLA_XDP_FD, NLA_HDRLEN + 4, fd)>>
        \o IF flags = 0 THEN <<>> ELSE <<Attr(IFLA_XDP_FLAGS, NLA_HDRLEN + 4, flags)>>

XdpRequest(ifindex, fd, flags) ==
    LET nested == XdpAttrs(fd, flags)
        nla_len == FoldLeft(LAMBDA n, a : n + a.len, NLA_HDRLEN, nested)
    IN  [type |-> "SETLINK", ifi |-> ifindex, attrs |-> <<Attr(IFLA_XDP, nla_len, nested)>>,
         len |-> NlmsgLength + NLA_ALIGN(nla_len)]

\* [ret, sent]: sent is what the kernel got, if anything
bpf_set_link_xdp_fd(ifindex, fd, flags, fail, pid, grams) ==
    LET req == XdpRequest(ifindex, fd, flags)
    IN  CASE ~libbpf_netlink_open(fail) -> [ret |-> -1, sent |-> <<>>]
          [] fail = "send" -> [ret |-> -1, sent |-> <<>>]
          [] OTHER -> [ret |-> bpf_netlink_recv(grams, pid, 1, "NULL", 0)[1], sent |-> <<req>>]

----------------------------------------------------------------------------
\* bpf_get_link_xdp_info() and bpf_get_link_xdp_id()

ZeroInfo == [attach_mode |-> "NONE", prog_id |-> 0, drv_prog_id |-> 0, hw_prog_id |-> 0, skb_prog_id |-> 0]

\* flags are a set of modes; <<ret, info>>
bpf_get_link_xdp_info(ifindex, flags, fail, pid, seq, grams) ==
    LET modes == flags \cap {"SKB", "DRV", "HW"}
        Found(r) == <<r[1], IF r[1] = 0 THEN r[2].info ELSE ZeroInfo>>
    IN  CASE ~(flags \subseteq {"SKB", "DRV", "HW", "NOEXIST"}) -> <<-22, ZeroInfo>>
          [] \E m, n \in modes : m # n -> <<-22, ZeroInfo>>
          [] ~libbpf_netlink_open(fail) \/ fail = "send" -> <<-1, ZeroInfo>>
          [] OTHER -> Found(bpf_netlink_recv(grams, pid, seq, "__dump_link_nlmsg",
                                             [ifindex |-> ifindex, info |-> ZeroInfo]))

get_xdp_id(info, flags) ==
    CASE info.attach_mode # "MULTI" -> info.prog_id
      [] "DRV" \in flags -> info.drv_prog_id
      [] "HW" \in flags -> info.hw_prog_id
      [] "SKB" \in flags -> info.skb_prog_id
      [] OTHER -> 0

bpf_get_link_xdp_id(ifindex, flags, fail, pid, seq, grams) ==
    LET Id(r) == <<r[1], IF r[1] = 0 THEN get_xdp_id(r[2], flags) ELSE 0>>
    IN  Id(bpf_get_link_xdp_info(ifindex, flags, fail, pid, seq, grams))

(***************************************************************************)
(* libbpf_nl_get_class(), libbpf_nl_get_qdisc() and libbpf_nl_get_filter() *)
(* hand every message to the caller's function, here Keep.                 *)
(***************************************************************************)
DumpTc(fail, pid, seq, grams, stop) ==
    LET Kept(r) == <<r[1], r[2].got>>
    IN  IF fail = "send" THEN <<-1, <<>>>>
        ELSE Kept(bpf_netlink_recv(grams, pid, seq, "Keep", [got |-> <<>>, stop |-> stop]))

=============================================================================
