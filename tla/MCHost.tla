------------------------------- MODULE MCHost -------------------------------
(***************************************************************************)
(* The instances on which TLC checks what runs on one host beside the data *)
(* path: calls of libbpf's functions and of the launcher's own loader on   *)
(* small inputs; the life of objects in two processes; deployments; the    *)
(* menus, the start of the Hooker's daemon and the network monitor.        *)
(***************************************************************************)
EXTENDS MCLibbpf, MCTypes, MCVtl, BpfObject

CONSTANTS Ifs, Native, MaxProgs, MaxDeploys
VARIABLES tc, xdp, sockops, verdict, skmap, skops, gen, progs, job, reported, dirty, slipped, deploys

deployment == <<tc, xdp, sockops, verdict, skmap, skops, gen, progs, job, reported, dirty, slipped, deploys>>
Deployment == INSTANCE Launcher

\* Two object files that share the pin path "x" and differ in the second map
MCFiles == {[pin |-> <<"x", None>>, def |-> <<"d1", "d1">>, data |-> {2}],
            [pin |-> <<"x", "y">>, def |-> <<"d1", "d2">>, data |-> {}]}
MCMapPath == <<"x", "y">>
MCProgPath == <<"z">>
MCSymmetry == Permutations(Procs)

hostVars == <<calc, vars, deployment>>

\* A function is called, processes use objects, or the launcher deploys.
HostInit ==
    /\ Init /\ Deployment!Init
    /\ \/ Asked("objects", {})
       \/ /\ \A p, q \in Procs : file[p] = file[q] /\ file[p].data = {}
          /\ \/ LinkInit \/ KconfigInit \/ CoreInit \/ GraftInit \/ HashmapInit \/ DedupInit
             \/ DumpInit \/ LayoutInit \/ DeclInit \/ SectionsInit \/ SkelInit \/ RingInit \/ PerfInit
             \/ InfoInit \/ LineInit \/ AskInit \/ SetInit \/ TcInit \/ LoadOnceInit \/ InstInit \/ ProbeInit
             \/ FetchInit \/ ParseInit \/ ExtInit \/ ElfInit \/ CleanInit \/ DaemonInit \/ LoopInit
             \/ MonitorInit \/ UiInit \/ XdpLoadInit \/ Asked("launcher", {})

Alone(A) == A /\ UNCHANGED <<vars, deployment>>

HostNext ==
    \/ Alone(Link) \/ Alone(Kconfig) \/ Alone(Core) \/ Alone(Graft)
    \/ Alone(HashmapInsert) \/ Alone(HashmapDelete)
    \/ Alone(Dedup) \/ Alone(Dump) \/ Alone(Layout) \/ Alone(Decl) \/ Alone(Sections)
    \/ Alone(SkelOpen) \/ Alone(SkelLoad) \/ Alone(SkelAttach) \/ Alone(SkelUprobe)
    \/ Alone(SkelDisconnect) \/ Alone(SkelDetach) \/ Alone(SkelDestroy)
    \/ Alone(RingWrite) \/ Alone(RingReadStart) \/ Alone(RingReadRecord) \/ Alone(RingReadEnd)
    \/ Alone(Perf) \/ Alone(Info) \/ Alone(Line) \/ Alone(Ask) \/ Alone(Set) \/ Alone(Tc)
    \/ Alone(LoadOnce) \/ Alone(LoadInst) \/ Alone(Probe) \/ Alone(Fetch)
    \/ Alone(Parse) \/ Alone(Ext) \/ Alone(ParseElf) \/ Alone(Clean)
    \/ Alone(Daemon) \/ Alone(Loop) \/ Alone(Monitor) \/ Alone(UiLoop) \/ Alone(LoadXdp)
    \/ calc.alg = "objects" /\ Next /\ UNCHANGED <<calc, deployment>>
    \/ calc.alg = "launcher" /\ Deployment!Next /\ UNCHANGED <<calc, vars>>

HostSpec == HostInit /\ [][HostNext]_hostVars

----------------------------------------------------------------------------

(***************************************************************************)
(* The launcher: as long as a Hooker was always removed before the next    *)
(* one was deployed, and removed whole, the daemon finds no map to open or *)
(* the one that every sock_ops program on the cgroup fills; and the daemon *)
(* moves data only with its sockets, its entry of that map and its         *)
(* transport ready.                                                        *)
(***************************************************************************)
DaemonCanServe == Deployment!DaemonSharesMap /\ DaemonReady

(***************************************************************************)
(* Making one program of pieces.  bpf_object__open() and _relocate(), and  *)
(* the launcher's own loader, make every reference of every program what   *)
(* its symbol names, or fail, which they do not on a well-formed file; and *)
(* bpf_object__resolve_externs() gives every extern the value of the       *)
(* configuration it names.                                                 *)
(***************************************************************************)
ObjectsLinked == LinkedObject /\ ExternsResolved /\ GraftLinked

(***************************************************************************)
(* Finding the entry meant.  The hashmap is a multimap of what was         *)
(* inserted and not deleted, through growing and collisions; a section     *)
(* name finds the definition of exactly its type of program, and the type  *)
(* of BTF it attaches to.                                                  *)
(***************************************************************************)
LookupsExact == HashmapIsMultimap /\ SectionsFound

(***************************************************************************)
(* btf_dump__dump_type(): the C that is printed compiles, and a compiler   *)
(* would lay out the same types from it.                                   *)
(***************************************************************************)
DumpFaithful == DumpCompiles /\ DumpKeepsTypes

(***************************************************************************)
(* A call that reports failure leaves nothing behind: a deployment of the  *)
(* launcher no program of its object file, also when an ingress graft's    *)
(* attachment is tried twice, opening, loading or attaching a skeleton no  *)
(* descriptor, event or memory without an owner, perf_buffer__new() no     *)
(* buffer, mapping or entry of the map.                                    *)
(***************************************************************************)
FailureLeavesNothing ==
    Deployment!FailureAttachesNothing /\ IngressSettles /\ SkeletonAccounted /\ PerfBuffersAccounted

(***************************************************************************)
(* Tables read in full.  BTF and .BTF.ext are taken apart into their types *)
(* and sections; the arrays of bpf_program__get_prog_info_linear() lie     *)
(* side by side within the memory allocated for them, the addresses turn   *)
(* into offsets and back; and bpf_prog_linfo finds the line of every       *)
(* instruction.                                                            *)
(***************************************************************************)
TablesRead == TypesRead /\ InfoFits /\ LinesFound

(***************************************************************************)
(* Answers are understood.  A netlink request returns what all datagrams   *)
(* of the kernel's answer say, or an error; a probe tells what the kernel  *)
(* can do; the network monitor reports what its ping printed; and vtl_ui   *)
(* does what the numbers typed say.                                        *)
(***************************************************************************)
AnswersHeard == AnswersWhole /\ ProbesTell /\ MonitorReports /\ ChoicesHeard

(***************************************************************************)
(* What the kernel would take it gets.  A program is loaded whatever the   *)
(* kernel knows of its function and line records, and BTF is rewritten for *)
(* a kernel that does not know all kinds.                                  *)
(***************************************************************************)
KernelTakesObject == LoadSettles /\ SanitizedBtfLoads

=============================================================================
