----------------------------- MODULE Launcher -----------------------------
(***************************************************************************)
(* The launcher (launcher/launcher.c with the tc and XDP helpers of        *)
(* include/common) as the menus of ui/vtl_ui.c drive it: an object file is *)
(* loaded section by section onto the hooks of an interface, and removed   *)
(* again.  A section may fail to load; commands run with system() may fail *)
(* without the launcher noticing.                                          *)
(***************************************************************************)
EXTENDS Naturals, Sequences, FiniteSets

CONSTANTS Ifs,        \* network interfaces
          Native,     \* the ones whose drivers support native XDP
          MaxProgs,   \* MAX_TF_PROGS: 32
          MaxDeploys  \* bound: deployments

(* The program sections of the object files, in their order. *)
ObjectFiles == {"egress", "ingress", "hooker"}
Sections(f) ==
    CASE f = "egress"  -> <<"egress_tf_sec", "listener_tf_sec">>
      [] f = "ingress" -> <<"ingress_tf_sec">>
      [] f = "hooker"  -> <<"hooker_sockops", "hooker_redirector", "hooker_listener">>

VARIABLES
    tc,        \* the egress filter of each interface
    xdp,       \* the one XDP program of each interface, and its mode
    sockops,   \* Hooker generations whose sock_ops program is on the cgroup
    verdict,   \* generations whose HK_SOCK_MAP has the sk_msg program
    skmap,     \* generation of the map pinned as /sys/fs/bpf/skmap, 0: none
    skops,     \* generation of the program pinned as /sys/fs/bpf/skops
    gen,       \* HK_SOCK_MAPs created so far
    progs,     \* progs_count of the running vtl_ui
    job,       \* the launcher_load_graft_file() call in progress
    reported,  \* how the last one ended
    dirty,     \* the Hooker was deployed and not removed since
    slipped,   \* a Hooker was deployed over another, or not all removed
    deploys

vars == <<tc, xdp, sockops, verdict, skmap, skops, gen, progs, job, reported, dirty, slipped, deploys>>
hookVars == <<tc, xdp>>
hookerVars == <<sockops, verdict, skmap, skops, gen, dirty, slipped>>

NoJob == [file |-> "none", on |-> "none", todo |-> << >>, done |-> {}, ret |-> 1]
Idle == job = NoJob

NoXdp == [prog |-> "none", native |-> FALSE]

Init ==
    /\ tc = [i \in Ifs |-> "none"] /\ xdp = [i \in Ifs |-> NoXdp]
    /\ sockops = {} /\ verdict = {} /\ skmap = 0 /\ skops = 0 /\ gen = 0
    /\ progs = 0 /\ job = NoJob /\ deploys = 0 /\ dirty = FALSE /\ slipped = FALSE
    /\ reported = [ok |-> TRUE, attached |-> {}]
-----------------------------------------------------------------------------
(* What a path may name after bpf_obj_pin(), which fails when the path     *)
(* exists and may fail when it does not (no BPF file system is mounted,    *)
(* say): the launcher only warns and goes on.                              *)
Pin(old, new) == IF old = 0 THEN {0, new} ELSE {old}

(* deploy_tf() and launcher_load_graft_file() up to the programs: the maps *)
(* are created, the Hooker's pinned.                                       *)
Deploy(f, i) ==
    /\ Idle /\ deploys < MaxDeploys /\ deploys' = deploys + 1
    /\ job' = [file |-> f, on |-> i, todo |-> Sections(f), done |-> {}, ret |-> 1]
    /\ IF f = "hooker"
       THEN /\ gen' = gen + 1 /\ skmap' \in Pin(skmap, gen')
            /\ dirty' = TRUE /\ slipped' = (slipped \/ dirty)
       ELSE UNCHANGED <<gen, skmap, dirty, slipped>>
    /\ UNCHANGED <<hookVars, sockops, verdict, skops, progs, reported>>

(* The file cannot be read, or a map cannot be created before the Hooker's *)
(* is: launcher_load_graft_file() returns 1 and vtl_ui ends.               *)
DeployFails(f, i) ==
    /\ Idle /\ deploys < MaxDeploys /\ deploys' = deploys + 1
    /\ reported' = [ok |-> FALSE, attached |-> {}]
    /\ progs' = 0
    /\ UNCHANGED <<hookVars, hookerVars, job>>

(* The call returns: 0 as soon as one section was loaded.  vtl_ui goes     *)
(* back to its menu, or ends when the call failed.  n is its progs_count.  *)
RetAll(j) == j.todo = << >>
RetOk(j) == j.ret = 0

Return(j, n) ==
    /\ job' = NoJob
    /\ reported' = [ok |-> RetOk(j), attached |-> j.done]
    /\ progs' = IF RetOk(j) THEN n ELSE 0

(* A section was loaded: go on with the next one. *)
Loaded(n) ==
    LET j == [job EXCEPT !.todo = Tail(@), !.done = @ \union {Head(job.todo)}, !.ret = 0]
    IN  IF j.todo = << >>
        THEN Return(j, n)
        ELSE job' = j /\ progs' = n /\ UNCHANGED reported

(* It was not: "goto done". *)
Failed(n) == Return(job, n)

(* Room for one more program, as the checks of progs_count see it. *)
Room == progs # MaxProgs

Current(s) == ~Idle /\ Head(job.todo) = s
-----------------------------------------------------------------------------
(* launcher_load_egress_tf(): tc drops the old filters before it adds, so  *)
(* a failure may leave them or not.                                        *)
LoadEgress ==
    /\ Current("egress_tf_sec")
    /\ \/ tc' = [tc EXCEPT ![job.on] = "egress_tf_sec"] /\ Loaded(progs)
       \/ tc' \in {tc, [tc EXCEPT ![job.on] = "none"]} /\ Failed(progs)
    /\ UNCHANGED <<xdp, hookerVars, deploys>>

Attach(i, p, native) == xdp' = [xdp EXCEPT ![i] = [prog |-> p, native |-> native]]

(* xdp_link_attach() fails.  When a program in the other mode made the     *)
(* kernel refuse, that one may be gone.                                    *)
AttachFails(i, native) ==
    \/ UNCHANGED xdp
    \/ xdp[i].native # native /\ xdp' = [xdp EXCEPT ![i] = NoXdp]

GenericOff(i) == IF xdp[i].native THEN xdp ELSE [xdp EXCEPT ![i] = NoXdp]

(* launcher_load_ingress_tf() does not look at progs_count. *)
LoadIngress ==
    /\ Current("ingress_tf_sec")
    /\ \/ Attach(job.on, "ingress_tf_sec", FALSE) /\ Loaded(progs + 1)
       \/ AttachFails(job.on, FALSE) /\ Failed(progs)
    /\ UNCHANGED <<tc, hookerVars, deploys>>

(* launcher_load_listener_tf() and xdp_generic_link_attach(): "ip link"    *)
(* takes the generic program off, then puts the listener on.  Its exit     *)
(* status is not looked at; only a system() that cannot run it fails.      *)
LoadListener ==
    /\ Current("listener_tf_sec")
    /\ \/ /\ Room /\ ~xdp[job.on].native
          /\ Attach(job.on, "listener_tf_sec", FALSE) /\ Loaded(progs + 1)
       \/ Room /\ xdp' \in {xdp, GenericOff(job.on)} /\ Loaded(progs + 1)
       \/ Room /\ xdp' \in {xdp, GenericOff(job.on)} /\ Failed(progs + 1)
       \/ UNCHANGED xdp /\ Failed(progs)
    /\ UNCHANGED <<tc, hookerVars, deploys>>

(* launcher_load_hooker_progs(), sock_ops: attached next to what is there  *)
(* (BPF_F_ALLOW_MULTI), then pinned.                                       *)
LoadSockops ==
    /\ Current("hooker_sockops")
    /\ \/ /\ Room
          /\ sockops' = sockops \union {gen} /\ skops' \in Pin(skops, gen)
          /\ Loaded(progs + 1)
       \/ UNCHANGED <<sockops, skops>> /\ Failed(progs)
       \/ Room /\ UNCHANGED <<sockops, skops>> /\ Failed(progs + 1)
    /\ UNCHANGED <<hookVars, verdict, skmap, gen, dirty, slipped, deploys>>

(* sk_msg: attached to maps_fd[0], the HK_SOCK_MAP just created. *)
LoadRedirector ==
    /\ Current("hooker_redirector")
    /\ \/ Room /\ verdict' = verdict \union {gen} /\ Loaded(progs + 1)
       \/ UNCHANGED verdict /\ Failed(progs)
       \/ Room /\ UNCHANGED verdict /\ Failed(progs + 1)
    /\ UNCHANGED <<hookVars, sockops, skmap, skops, gen, dirty, slipped, deploys>>

(* The Hooker's XDP program, through launcher_load_listener_tf(). *)
LoadHookerListener ==
    /\ Current("hooker_listener")
    /\ \/ Room /\ Attach(job.on, "hooker_listener", job.on \in Native) /\ Loaded(progs + 1)
       \/ Room /\ AttachFails(job.on, job.on \in Native) /\ Failed(progs + 1)
       \/ UNCHANGED xdp /\ Failed(progs)
    /\ UNCHANGED <<tc, hookerVars, deploys>>
-----------------------------------------------------------------------------
(* xdp_link_detach() leaves the interface with x; when it fails, with what *)
(* it had, and vtl_ui ends.                                                *)
Detach(x) ==
    \/ xdp' = x /\ UNCHANGED progs
    \/ UNCHANGED xdp /\ progs' = 0

(* remove_tf() in input mode: xdp_link_detach() of the generic program,    *)
(* whichever it is.                                                        *)
RemoveIngress(i) ==
    /\ Idle /\ xdp[i] # NoXdp
    /\ Detach(GenericOff(i))
    /\ UNCHANGED <<tc, hookerVars, job, reported, deploys>>

(* In output mode: launcher_unload_egress_tf(); nothing notices when "tc"  *)
(* or "ip" fails.                                                          *)
RemoveEgress(i) ==
    /\ Idle /\ (tc[i] # "none" \/ xdp[i] # NoXdp)
    /\ tc' \in {tc, [tc EXCEPT ![i] = "none"]} /\ xdp' \in {xdp, GenericOff(i)}
    /\ UNCHANGED <<hookerVars, progs, job, reported, deploys>>

(* The Hooker: launcher_unload_hooker_progs() detaches the program that is *)
(* pinned, if one is, and removes the pins; any of its commands may fail   *)
(* unnoticed.  Then the XDP program goes, in the mode that flags 0 select. *)
KeepMap(pinned) == pinned
Unpin(pinned) == 0

RemoveHooker(i) ==
    /\ Idle /\ (dirty \/ xdp[i] # NoXdp)
    /\ \/ /\ sockops' = sockops \ {skops}
          /\ skops' = 0 /\ skmap' = Unpin(skmap)
          /\ slipped' = (slipped \/ sockops' # {})
       \/ /\ slipped' = TRUE
          /\ sockops' \in {sockops, sockops \ {skops}}
          /\ skops' \in {0, skops} /\ skmap' \in {0, skmap}
    /\ dirty' = FALSE
    /\ Detach(IF xdp[i].native = (i \in Native) THEN [xdp EXCEPT ![i] = NoXdp] ELSE xdp)
    /\ UNCHANGED <<tc, verdict, gen, job, reported, deploys>>

(* vtl_ui ends and is started again. *)
Restart ==
    /\ Idle /\ progs > 0 /\ progs' = 0
    /\ UNCHANGED <<hookVars, hookerVars, job, reported, deploys>>
-----------------------------------------------------------------------------
Next ==
    \/ \E f \in ObjectFiles, i \in Ifs : Deploy(f, i) \/ DeployFails(f, i)
    \/ LoadEgress \/ LoadIngress \/ LoadListener
    \/ LoadSockops \/ LoadRedirector \/ LoadHookerListener
    \/ \E i \in Ifs : RemoveIngress(i) \/ RemoveEgress(i) \/ RemoveHooker(i)
    \/ Restart

Spec == Init /\ [][Next]_vars
-----------------------------------------------------------------------------
(* The daemon opens the pinned HK_SOCK_MAP, and waits while there is none. *)
(* As long as the Hooker was always removed before the next one, and every *)
(* removal took its program off the cgroup and its pins away, the map it   *)
(* opens is the one that each sock_ops program on the cgroup fills,        *)
(* through pins that fail, failed and partial deployments, failed removals *)
(* of the XDP program and restarts of vtl_ui.                              *)
DaemonSharesMap == ~slipped => \A g \in sockops : skmap \in {0, g}

(* A deployment that reports failure has attached no program. *)
FailureAttachesNothing == ~reported.ok => reported.attached = {}
=============================================================================
