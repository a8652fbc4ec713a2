-------------------------------- MODULE MCVtl --------------------------------
(***************************************************************************)
(* The instances on which TLC checks VTL's own programs on a host, one part *)
(* after another.                                                          *)
(***************************************************************************)
EXTENDS Calc, GraftLoad, HookerDaemon, NetMonitor, VtlUi, FiniteSets

(***************************************************************************)
(* The object files on which TLC checks the launcher's loader (GraftLoad). *)
(***************************************************************************)

\* Sizes of a definition: an older one, libbpf's, the launcher's, a newer one
DefSizes == {16, MapDefSize, LoadMapDefSize, 32}

GraftSections(c) ==
    LET progs == IF c.kind = "hooker"
                   THEN <<"hooker_sockops", ".relhooker_sockops", "hooker_redirector", "hooker_listener">>
                   ELSE <<"egress_tf_sec", ".relegress_tf_sec", "listener_tf_sec">>
        maps == IF c.maps = 0 THEN <<>> ELSE <<"maps">>
    IN  (IF c.late THEN progs \o maps ELSE maps \o progs)
        \o (IF c.version = 0 THEN <<>> ELSE <<"version">>) \o <<"license", ".bss", ".symtab">>

GraftMapNames == <<"HK_SOCK_MAP", "APP_HASH_ID_MAP", "QOS_NEGO_MAP">>

GraftFileOf(c) ==
    LET names == GraftSections(c)
        No(n) == LET Test(x) == x = n IN SelectInSeq(names, Test)
        rel == IF c.kind = "hooker" THEN ".relhooker_sockops" ELSE ".relegress_tf_sec"
        prog == IF c.kind = "hooker" THEN "hooker_sockops" ELSE "egress_tf_sec"
        syms == [i \in 1 .. c.maps |-> [name |-> GraftMapNames[i], sec |-> No("maps"), val |-> (i - 1) * c.size,
                                        bind |-> "GLOBAL", type |-> "OBJECT"]]
                \o <<[name |-> "var", sec |-> No(".bss"), val |-> 0, bind |-> "GLOBAL", type |-> "OBJECT"]>>
        all == IF c.swap THEN Reverse(syms) ELSE syms
        Sym(n) == LET Test(s) == s.name = n IN SelectInSeq(all, Test)
        Def(i) == [def |-> [type |-> IF i = 1 THEN "sockhash" ELSE "hash", key |-> 4, value |-> i,
                            max |-> 1, flags |-> 0],
                   inner |-> 0, tail |-> c.tail, extra |-> c.tail]
        Insn(op) == [op |-> op, src |-> "none", imm |-> 0]
        Sec(n) ==
          [name |-> n, type |-> CASE n = rel -> "REL" [] n = ".symtab" -> "SYMTAB"
                                  [] n = ".bss" -> "NOBITS" [] OTHER -> "PROGBITS",
           exec |-> n \in DOMAIN LoaderOf,
           size |-> CASE n = "maps" -> c.maps * c.size [] n = "version" -> c.version [] OTHER -> 32,
           of |-> IF n = rel THEN No(prog) ELSE 0,
           rels |-> IF n = rel THEN <<[off |-> 0, sym |-> Sym(c.first)], [off |-> 16, sym |-> Sym(c.second)]>>
                    ELSE <<>>,
           code |-> IF n \in DOMAIN LoaderOf THEN <<Insn("ld64"), Insn("other"), Insn(c.op), Insn("other")>>
                    ELSE <<>>,
           defs |-> IF n = "maps" THEN [o \in {i * c.size : i \in 0 .. c.maps - 1} |-> Def(1 + o \div c.size)]
                    ELSE <<>>]
    IN  [secs |-> [i \in DOMAIN names |-> Sec(names[i])], syms |-> all,
         btf |-> [ok |-> FALSE, types |-> <<>>], ext |-> [func |-> <<>>, line |-> <<>>],
         strict |-> FALSE, root |-> "bpffs"]

GraftInit ==
    \E maps \in 0 .. 3, size \in DefSizes, kind \in {"hooker", "graft"}, late, swap, tail \in BOOLEAN,
       version \in {0, 4, 8}, op \in {"ld64", "call"}, failMap \in 0 .. 2, failLoad \in 0 .. 2 :
      /\ maps = 0 => size = MapDefSize
      /\ tail => size = 32
      /\ failMap <= maps /\ (failMap # 0 => failLoad = 0)
      /\ version # 0 => ~late /\ ~swap /\ failMap = 0 /\ failLoad = 0
      /\ \E first, second \in {"var"} \cup {GraftMapNames[i] : i \in 1 .. maps} :
            Asked("graft", [maps |-> maps, size |-> size, kind |-> kind, late |-> late, swap |-> swap,
                            tail |-> tail, version |-> version, op |-> op, first |-> first, second |-> second,
                            failMap |-> failMap, failLoad |-> failLoad])

Graft ==
    LET c == calc.in
    IN  Returns("graft", launcher_load_graft_file(GraftFileOf(c), c.failMap, c.failLoad))

(***************************************************************************)
(* Of a file with maps and references to maps only,                        *)
(* launcher_load_graft_file() loads programs that refer to the maps their  *)
(* symbols name, created with the definitions libbpf finds too, and the    *)
(* first descriptor is that of the first map; whatever the order of        *)
(* sections and symbols, the size of a definition, and what fails on the   *)
(* way.                                                                    *)
(***************************************************************************)
GraftLinked ==
    Returned("graft") =>
        \A r \in {calc.out[1]}, f \in {GraftFileOf(calc.in)} :
            (~r.overrun /\ MapsOnly(f)) =>
                /\ GraftRefers(f, r) /\ FirstIsFirst(r)
                /\ r.loads # <<>> => \A o \in {bpf_object__open(f)} : o.err = 0 => SameMaps(r, o)

-----------------------------------------------------------------------------
(***************************************************************************)
(* Ingress grafts loaded onto interfaces with and without a program and    *)
(* native XDP, and taken off again, with every request failing.            *)
(***************************************************************************)

IngressSec == <<"ingress_tf_sec">>
XdpObjects == {<<>>, <<IngressSec>>, <<<<"listener_tf_sec">>, IngressSec>>, <<<<"listener_tf_sec">>>>}
XdpIds == <<11, 12>>
XdpIfaces == {Iface(0, 0, TRUE), Iface(0, 0, FALSE), Iface(1, 0, TRUE), Iface(0, 2, TRUE), Iface(0, 2, FALSE)}
XdpLoadInit ==
    \E iface \in XdpIfaces, secs \in XdpObjects, mode \in {"SKB", "DRV", "none"}, off \in {"SKB", "DRV", "none"},
       noexist \in BOOLEAN, fail \in {"", "open", "load"}, failed \in SUBSET (1 .. 3), failedOff \in SUBSET (1 .. 2) :
        /\ fail # "" => failed = {} /\ failedOff = {}
        /\ Asked("xdp", [noexist |-> noexist, iface |-> iface, secs |-> secs, mode |-> mode, off |-> off, fail |-> fail,
                         failed |-> failed, failedOff |-> failedOff])
LoadXdp ==
    LET in == calc.in
        Off(on) == [on |-> on, off |-> launcher_unload_ingress_tf(on.iface, in.off, in.failedOff)]
    IN  Returns("xdp", Off(launcher_load_ingress_tf(in.iface, in.secs, XdpIds, IngressSec, in.mode,
                                                    in.noexist, in.fail, in.failed)))

(***************************************************************************)
(* When launcher_load_ingress_tf() returns 0 the program of the section    *)
(* asked for, whose descriptor it keeps, is the one program of the         *)
(* interface, in the mode asked for; when it returns -1 none of the file's *)
(* programs is on the interface, and the one that was is still there       *)
(* unless it was of the other mode and had been taken off.  It returns 0   *)
(* if nothing fails, the driver has the mode and, with                     *)
(* XDP_FLAGS_UPDATE_IF_NOEXIST, the interface had no program.              *)
(* launcher_unload_ingress_tf() takes off no program of the other mode,    *)
(* though it returns 0 with that one still attached.                       *)
(***************************************************************************)
IngressSettles ==
    Returned("xdp") =>
        LET in == calc.in
            on == calc.out[1].on
            off == calc.out[1].off
            mine == {XdpIds[i] : i \in {j \in DOMAIN in.secs : in.secs[j] = IngressSec}}
            m == KernelMode(in.iface, in.mode)
            o == KernelMode(in.iface, in.off)
        IN  /\ on.ret = 0 => on.fd \in mine /\ on.iface[m] = on.fd /\ on.iface[OtherMode(m)] = 0 /\ on.open
            /\ on.ret # 0 => /\ on.fd = 0
                             /\ on.iface[m] = in.iface[m]
                             /\ on.iface[OtherMode(m)] \in {in.iface[OtherMode(m)], 0}
                             /\ 1 \in in.failed => on.iface = in.iface
            /\ in.fail = "" /\ mine # {} /\ in.failed = {} /\ on.ret # 0 =>
                   (m = "DRV" /\ ~in.iface.native) \/ (in.noexist /\ in.iface[m] + in.iface[OtherMode(m)] # 0)
            /\ off.iface[OtherMode(o)] = on.iface[OtherMode(o)]
            /\ off.ret = 0 => off.iface[o] = 0

-----------------------------------------------------------------------------
(***************************************************************************)
(* The daemon for every transport and an unknown one, with every call      *)
(* failing, and its loops over two turns.                                  *)
(***************************************************************************)

DaemonCalls(proto) == ToSet(InitCalls(proto)) \cup {"map update"}
DaemonInit ==
    \E proto \in L4Protos \cup {"TCP"}, pinned, one \in BOOLEAN, waiting \in SUBSET {"phony", "redir"}, errno \in {0, 1},
       args \in {<<"17">>, <<"17", "server">>, <<"17", "client">>} :
    \E fails \in {{c} : c \in DaemonCalls(proto)} \cup {{}} :
        Asked("daemon", [proto |-> proto, args |-> args,
                         k |-> [fails |-> fails, one |-> one, waiting |-> waiting, errno |-> errno, pinned |-> pinned]])
Daemon == Returns("daemon", HkMain(calc.in.proto, calc.in.args, calc.in.k))

Turns == {[data |-> d, app |-> app, answers |-> answers] :
             d \in {"a", "b"}, app \in {"ok", "closed", "error"},
             answers \in {<<"ok">>, <<"error">>, <<"again", "ok">>, <<"again", "error">>}}
LoopInit ==
    \E proto \in L4Protos, out \in BOOLEAN, t, u \in Turns :
        Asked("loop", [proto |-> proto, out |-> out, turns |-> <<t, u>>])
Loop == Returns("loop", IF calc.in.out THEN hk_listen_app(calc.in.proto, calc.in.turns)
                        ELSE hk_sendto_app(calc.in.proto, calc.in.turns))

(***************************************************************************)
(* The daemon enters a loop only with the local connection up, the map     *)
(* updated and the transport this loop uses ready: bound for the datagram  *)
(* transports, accepted for the connected ones; for QUIC unless the        *)
(* library failed without setting errno.  For a protocol the switch does   *)
(* not know it never does.  If no call fails and the ports are free, or    *)
(* `one` happens not to be 0, it does.  What a loop moves is what it read, *)
(* in order, with nothing missing before its end but for DCCP what         *)
(* send() refused and for SCTP what sctp_recvmsg() did not return; and an  *)
(* EAGAIN of DCCP does not end it.                                         *)
(***************************************************************************)
DaemonReady ==
    LET in == calc.in
        out == calc.out[1]
    IN  /\ Returned("daemon") =>
             LET serves == out.at \in {"listen", "sendto"}
                 tried == in.k.pinned /\ Len(in.args) = 2
             IN  /\ serves => /\ {"connect redir", "accept phony"} \subseteq out.done
                              /\ in.k.fails \cap {"map update"} = {}
                              /\ in.proto \in L4Protos
                              /\ CASE in.proto \in Connected -> "accept graft" \in out.done
                                   [] in.proto = "QUIC" -> "quic accept" \in out.done \/ in.k.errno = 0
                                   [] OTHER -> "bind graft" \in out.done /\ out.to = "remote_ip"
                 /\ tried /\ in.k.fails = {} /\ in.proto \in L4Protos =>
                       serves = (in.k.one \/ in.k.waiting = {})
        /\ Returned("loop") =>
             LET Moves(t) == IF in.out THEN t.app = "ok" /\ "ok" \in ToSet(t.answers)
                                            /\ (in.proto = "DCCP" \/ t.answers[1] = "ok")
                             ELSE t.app # "error" /\ (IF in.proto = "QUIC" THEN "ok" \in ToSet(t.answers) ELSE t.answers[1] = "ok")
                 DataOf(turns) == [i \in DOMAIN turns |-> turns[i].data]
                 moved == SelectSeq(out.sent, LAMBDA d : d # EmptyData)
                 lossless == SelectSeq(in.turns, Moves)
             IN  /\ \E n \in 0 .. 2 : moved = DataOf(SelectSeq(SubSeq(in.turns, 1, n), Moves))
                 /\ out.over => \E i \in DOMAIN in.turns : LET t == in.turns[i] IN
                        t.app = "error" \/ (~Moves(t) /\ ~(in.out /\ in.proto = "DCCP"))
                 /\ ~out.over => moved = DataOf(lossless)
                 /\ ~out.over /\ in.proto \notin {"DCCP", "SCTP"} =>
                        \A i \in DOMAIN in.turns : in.turns[i].app = "ok" => Moves(in.turns[i])

-----------------------------------------------------------------------------
(***************************************************************************)
(* Two callers of the network monitor in one directory, alone or at the    *)
(* same time.  The first one's ping hears answers, none, counts errors too *)
(* or does not know the host, and its commands may fail.                   *)
(***************************************************************************)

RttLine(h) == [word |-> "rtt", fields |-> <<h \o "min", h \o "avg", h \o "max">>]
LossLine(extra, h) == [word |-> "loss", fields |-> <<"sent", "received">> \o extra \o <<h \o "loss", "time">>]
Summaries(h) == {<<LossLine(<<>>, h), RttLine(h)>>, <<LossLine(<<>>, h)>>, <<LossLine(<<"errors">>, h)>>, <<>>}
NmPairs == {<<"nm_report_rtt", "nm_report_rtt">>, <<"nm_report_loss", "nm_report_loss">>,
            <<"nm_report_stats", "nm_report_loss">>}

Hosts == <<"x.", "y.">>
MonitorInit ==
    \E fns \in NmPairs, s1 \in Summaries("x.") :
        Asked("monitor", [files |-> NoFiles, shared |-> FALSE,
                          p |-> <<Caller(fns[1], s1), Caller(fns[2], <<LossLine(<<>>, "y."), RttLine("y.")>>)>>])

Busy(p) == p.todo # <<>> /\ p.todo[1].do # "ping"
Monitor ==
    /\ calc.alg = "monitor"
    /\ \E i \in 1 .. 2, fails \in BOOLEAN :
        /\ calc.in.p[i].todo # <<>>
        /\ fails => i = 1 /\ calc.in.p[i].todo[1].do # "read"
        /\ LET r == MonitorStep(calc.in.files, calc.in.p[i], fails)
           IN  calc' = [calc EXCEPT !.in.files = r.files, !.in.p[i] = r.p,
                                    !.in.shared = @ \/ Busy(calc.in.p[3 - i])]

(***************************************************************************)
(* As long as nobody else measures in the same directory at the same time, *)
(* a function that returns has reported the times and the loss its own     *)
(* ping printed, whatever an earlier caller that ended half-way left       *)
(* there; times ping did not print are the uninitialised buffer, all three *)
(* alike; and if ping counts errors, that count is taken for the loss.     *)
(* Two at a time may report each other's times, but never as a time what   *)
(* neither ping printed as one.                                            *)
(***************************************************************************)
MonitorReports ==
    calc.alg = "monitor" =>
        LET in == calc.in
            Reports(p) == p.todo = <<>> /\ ~p.over
            Lines(p, word) == SelectSeq(p.prints, LAMBDA l : l.word = word)
            Asks(p, v) == p.stat[v] # "unset"
            Time(p, n) == IF Lines(p, "rtt") = <<>> THEN "junk" ELSE Lines(p, "rtt")[1].fields[n]
            Printed(word) == UNION {ToSet(l.fields) : l \in UNION {ToSet(Lines(in.p[i], word)) : i \in 1 .. 2}}
        IN  \A i \in 1 .. 2 : LET p == in.p[i] IN
                  /\ Reports(p) /\ ~in.shared =>
                       /\ Asks(p, "min") => p.stat.min = Time(p, 1) /\ p.stat.avg = Time(p, 2) /\ p.stat.max = Time(p, 3)
                       /\ Asks(p, "loss") /\ Lines(p, "loss") # <<>> =>
                              p.stat.loss = IF "errors" \in ToSet(Lines(p, "loss")[1].fields) THEN "errors"
                                            ELSE Hosts[i] \o "loss"
                  /\ \A v \in {"min", "avg", "max"} : p.stat[v] \in {"unset", "junk"} \cup Printed("rtt")

-----------------------------------------------------------------------------
(***************************************************************************)
(* A user at the menus, who makes a first choice with the numbers on one   *)
(* line or on three, types a letter after it or not, then makes a second   *)
(* choice and leaves.  There are two devices.                              *)
(***************************************************************************)

UiDevices == <<"eth0", "eth1">>
Visit(choice, mode, dev, between, after) ==
    <<Digits[choice], between, Digits[mode], between, Digits[dev]>> \o after
Afters == {<<Newline>>, <<Newline, "E", Newline>>, <<Newline, "M", Newline>>, <<"E", Newline>>}
UiInit ==
    \E junk \in {1, 3, 7}, between \in White, after \in Afters, choice \in 1 .. 4, mode \in 1 .. 4, dev \in 1 .. 3,
       choice2 \in 1 .. 2, mode2 \in {1, 3} :
        LET typed == Visit(choice, mode, dev, between, after) \o Visit(choice2, mode2, 2, Newline, <<Newline, "3", Newline>>)
        IN  Asked("ui", [typed |-> typed, junk |-> junk, failed |-> FALSE,
                         s |-> [keys |-> typed, calls |-> <<>>, lost |-> FALSE, over |-> FALSE]])
UiLoop ==
    /\ calc.alg = "ui" /\ ~calc.in.s.over /\ Len(calc.in.s.calls) < 3
    /\ \E how \in {"works", "fails", "no devices"} :
        LET s == UiTurn(calc.in.s, calc.in.junk, UiDevices, how)
        IN  s # calc.in.s /\ calc' = [calc EXCEPT !.in.s = s, !.in.failed = how # "works"]

\* What a user who only types numbers asks for, three numbers a call
RECURSIVE AskedFor(_)
AskedFor(numbers) ==
    CASE numbers = <<>> -> <<>>
      [] numbers # <<>> /\ numbers[1] = 3 -> <<>>
      [] numbers # <<>> /\ numbers[1] = 4 -> AskedFor(Tail(numbers))
      [] OTHER -> IF Len(numbers) < 3 \/ numbers[2] = 4 THEN <<>>
                  ELSE <<UiCall(numbers[1], numbers[2], IF numbers[3] <= 2 THEN UiDevices[numbers[3]] ELSE "junk")>>
                         \o AskedFor(SubSeq(numbers, 4, Len(numbers)))

(***************************************************************************)
(* vtl_ui deploys and removes what the numbers typed say, in their order,  *)
(* one number a line or several, until it cannot read one; it makes no     *)
(* call after one that failed, and ends without a failure only after all   *)
(* they ask for before a 3 or a wrong mode.  The letter, typed on a        *)
(* line of its own, is not read: what is read is the newline before it.    *)
(* So "E" does not end the program, and the next number cannot be read.    *)
(***************************************************************************)
ChoicesHeard ==
    calc.alg = "ui" =>
        LET typed == calc.in.typed
            s == calc.in.s
            letters == {i \in DOMAIN typed : typed[i] \in {"E", "M"}}
            before == {i \in DOMAIN typed : \A j \in letters : i < j}
            digits == SelectSeq(SubSeq(typed, 1, Cardinality(before)), LAMBDA k : k \notin White)
            wanted == AskedFor([i \in DOMAIN digits |-> Value(digits[i])])
            alone == \A i \in letters : i > 1 /\ typed[i - 1] = Newline
        IN  ~s.lost => /\ IsPrefix(s.calls, wanted)
                       /\ alone => letters = {} \/ ToSet(s.keys) \cap {"E", "M"} # {}
                       /\ s.over /\ alone /\ ~calc.in.failed => s.calls = wanted

=============================================================================
