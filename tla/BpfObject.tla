----------------------------- MODULE BpfObject -----------------------------
(***************************************************************************)
(* The life of BPF objects (src/lib/libbpf/src/libbpf.c, and the helpers   *)
(* of src/include/common/xdp_user_helpers.c that use it): processes open   *)
(* an object file, load it, pin and unpin its maps and programs, and close *)
(* it, while other processes do the same with the same pin paths.  One     *)
(* step is one call into the kernel; every call that can fail may fail,    *)
(* but for unlink() and statfs() on the BPF file system, and a process may *)
(* die between any two.                                                    *)
(*                                                                         *)
(* fd, path, pinned, reused and mdef are the fields of the maps of the     *)
(* object of a process, prog the descriptors of its programs; a descriptor *)
(* is the kernel object it stands for, or None (-1 in the code).  at and   *)
(* cur say where a process is: the call and the map or program it is at.   *)
(* loaded and ok are the processes whose object has these marks.           *)
(***************************************************************************)
EXTENDS Naturals

CONSTANTS
    Procs,      \* processes, each with one object at a time
    NMaps,      \* maps of an object
    NProgs,     \* programs of an object
    NIds,       \* bound: kernel objects of one definition at a time
    MaxCalls,   \* bound: calls the processes make
    None,       \* no kernel object, no path, no process
    Files,      \* object files: [pin, def, data] per map
    MapPath,    \* where bpf_object__pin_maps(obj, dir) pins each map
    ProgPath    \* where bpf_object__pin_programs(obj, dir) pins each program

VARIABLES
    pins,       \* the kernel object pinned at each path
    file, fd, path, pinned, reused, mdef, prog, loaded, ok,
    at, cur,
    calls,      \* calls the processes have made
    maker,      \* history: who pinned what is at a path
    cut         \* history: maps whose pin was since unlinked by another

object == <<file, fd, path, pinned, reused, mdef, prog, loaded, ok>>
control == <<at, cur, calls>>
history == <<maker, cut>>
vars == <<pins, object, control, history>>

Maps == 1 .. NMaps
Progs == 1 .. NProgs
Paths == ({f.pin[m] : f \in Files, m \in Maps} \ {None})
         \cup {MapPath[m] : m \in Maps} \cup {ProgPath[j] : j \in Progs}
Defs == {f.def[m] : f \in Files, m \in Maps}

\* A kernel object, with its definition; they are alike but for that, and
\* the lowest that nothing refers to stands for any new one.
Ids == (Defs \cup {"prog"}) \X (1 .. NIds)
KernelDef(k) == k[1]

ASSUME ObjectAssumption ==
    /\ NMaps \in Nat \ {0} /\ NProgs \in Nat /\ NIds \in Nat /\ MaxCalls \in Nat
    /\ None \notin Procs \cup Ids \cup Paths
    /\ \A f \in Files : f.pin \in [Maps -> Paths \cup {None}]
                        /\ f.def \in [Maps -> Defs] /\ f.data \subseteq Maps
    /\ MapPath \in [Maps -> Paths] /\ ProgPath \in [Progs -> Paths]
    /\ \A m \in Maps, j \in Progs : MapPath[m] # ProgPath[j]
    /\ \A f \in Files, m \in Maps, j \in Progs : f.pin[m] # ProgPath[j]

InUse(k) == \/ \E p \in Procs : \/ \E m \in Maps : fd[p][m] = k
                                \/ \E j \in Progs : prog[p][j] = k
            \/ \E t \in Paths : pins[t] = k
New(d) == {<<d, n>> : n \in {n \in 1 .. NIds : /\ ~InUse(<<d, n>>)
                                              /\ \A i \in 1 .. NIds : i < n => InUse(<<d, i>>)}}

Go(p, label, i) == at' = [at EXCEPT ![p] = label] /\ cur' = [cur EXCEPT ![p] = i]
Label(p, label) == at' = [at EXCEPT ![p] = label] /\ UNCHANGED cur

\* A call from the program that uses libbpf
Call == calls < MaxCalls /\ calls' = calls + 1

-----------------------------------------------------------------------------
Init ==
    /\ pins = [t \in Paths |-> None]
    /\ file \in [Procs -> Files]
    /\ fd = [p \in Procs |-> [m \in Maps |-> None]]
    /\ path = [p \in Procs |-> [m \in Maps |-> None]]
    /\ pinned = [p \in Procs |-> {}]
    /\ reused = [p \in Procs |-> {}]
    /\ mdef = [p \in Procs |-> file[p].def]
    /\ prog = [p \in Procs |-> [j \in Progs |-> None]]
    /\ loaded = {} /\ ok = {}
    /\ at = [p \in Procs |-> "none"]
    /\ cur = [p \in Procs |-> 1]
    /\ calls = 0
    /\ maker = [t \in Paths |-> None]
    /\ cut = [p \in Procs |-> {}]

\* bpf_object__open(): the maps with a pinning attribute have a path.
Open(p) ==
    /\ Call /\ at[p] = "none"
    /\ path' = [path EXCEPT ![p] = file[p].pin]
    /\ mdef' = [mdef EXCEPT ![p] = file[p].def]
    /\ Label(p, "idle")
    /\ UNCHANGED <<pins, file, fd, pinned, reused, prog, loaded, ok, history>>

\* The fields of an object that is gone: closed, or lost with its process.
Forget(p) ==
    /\ fd' = [fd EXCEPT ![p] = [m \in Maps |-> None]]
    /\ path' = [path EXCEPT ![p] = [m \in Maps |-> None]]
    /\ pinned' = [pinned EXCEPT ![p] = {}]
    /\ reused' = [reused EXCEPT ![p] = {}]
    /\ prog' = [prog EXCEPT ![p] = [j \in Progs |-> None]]
    /\ loaded' = loaded \ {p} /\ ok' = ok \ {p}
    /\ cut' = [cut EXCEPT ![p] = {}]
    /\ maker' = [t \in Paths |-> IF maker[t] = p THEN None ELSE maker[t]]
    /\ Go(p, "none", 1)
    /\ UNCHANGED <<pins, file, mdef>>

\* bpf_object__close(): the pins stay.
Close(p) == Call /\ at[p] = "idle" /\ Forget(p)

\* The process is killed, or ends with its object open, at any point.
Die(p) == Call /\ at[p] \notin {"none", "idle"} /\ Forget(p)

-----------------------------------------------------------------------------
(***************************************************************************)
(* reuse_maps() of xdp_user_helpers.c: before the load, every map is       *)
(* replaced by the one pinned at its path.  On an error the caller drops   *)
(* the object without closing it ("lost").                                 *)
(***************************************************************************)
StartReuse(p) ==
    /\ Call /\ at[p] = "idle" /\ p \notin loaded
    /\ Go(p, "reuse", 1)
    /\ UNCHANGED <<pins, object, history>>

\* The map m is pinned at its path, as far as its object knows.
Pinned(p, m) ==
    /\ pinned' = [pinned EXCEPT ![p] = @ \cup {m}]
    /\ cut' = [cut EXCEPT ![p] = @ \ {m}]

\* bpf_map__reuse_fd(): the map becomes the kernel object k.
ReuseFd(p, m, k) ==
    /\ fd' = [fd EXCEPT ![p][m] = k]
    /\ mdef' = [mdef EXCEPT ![p][m] = KernelDef(k)]
    /\ reused' = [reused EXCEPT ![p] = @ \cup {m}]

Reuse(p) ==
    /\ at[p] = "reuse" /\ cur[p] \in Maps
    /\ LET k == pins[MapPath[cur[p]]]
       IN  \/ /\ k # None
              /\ ReuseFd(p, cur[p], k)
              /\ IF cur[p] = NMaps THEN Label(p, "idle") ELSE Go(p, "reuse", cur[p] + 1)
           \/ /\ Label(p, "lost")
              /\ UNCHANGED <<fd, mdef, reused>>
    /\ UNCHANGED <<pins, file, path, pinned, prog, loaded, ok, calls, history>>

-----------------------------------------------------------------------------
(***************************************************************************)
(* bpf_object__load_xattr().  The steps before the maps (probing, externs, *)
(* BTF) and bpf_object__relocate() change nothing another process sees.    *)
(***************************************************************************)
Load(p) ==
    /\ Call /\ at[p] = "idle" /\ p \notin loaded
    /\ loaded' = loaded \cup {p}
    /\ \/ Go(p, "get", 1)
       \/ Go(p, "undo", 1)
    /\ UNCHANGED <<pins, file, fd, path, pinned, reused, mdef, prog, ok, history>>

NextMap(p) == IF cur[p] = NMaps THEN Go(p, "reloc", 1) ELSE Go(p, "get", cur[p] + 1)
FailLoad(p) == Go(p, "undo", 1)

\* create_maps() closes the maps it has gone past when it cannot make one.
CloseUpTo(p, m) == fd' = [fd EXCEPT ![p] = [i \in Maps |-> IF i <= m THEN None ELSE @[i]]]

\* bpf_object__reuse_map(), and the test for a descriptor that is there already
MapGet(p) ==
    /\ at[p] = "get" /\ cur[p] \in Maps
    /\ LET m == cur[p]
           t == path[p][m]
           k == IF t = None THEN None ELSE pins[t]
       IN  \/ /\ k = None
              /\ IF fd[p][m] # None THEN NextMap(p) ELSE Label(p, "create")
              /\ UNCHANGED <<fd, mdef, reused, pinned, cut>>
           \/ /\ k # None /\ KernelDef(k) = mdef[p][m]
              /\ ReuseFd(p, m, k)
              /\ Pinned(p, m)
              /\ NextMap(p)
           \/ /\ t # None           \* another error, or another definition
              /\ FailLoad(p)
              /\ UNCHANGED <<fd, mdef, reused, pinned, cut>>
    /\ UNCHANGED <<pins, file, path, prog, loaded, ok, calls, maker>>

\* After a map is created and filled: it is pinned if it has a path.
ThenPin(p) ==
    LET m == cur[p]
    IN  IF path[p][m] # None /\ m \notin pinned[p] THEN Label(p, "pin") ELSE NextMap(p)

\* bpf_create_map_xattr(), tried again without BTF, so two failures are one
MapCreate(p) ==
    /\ at[p] = "create" /\ cur[p] \in Maps
    /\ LET m == cur[p]
       IN  \/ \E k \in New(mdef[p][m]) :
              /\ fd' = [fd EXCEPT ![p][m] = k]
              /\ IF m \in file[p].data THEN Label(p, "fill") ELSE ThenPin(p)
           \/ /\ CloseUpTo(p, m)
              /\ FailLoad(p)
    /\ UNCHANGED <<pins, file, path, pinned, reused, mdef, prog, loaded, ok, calls, history>>

\* bpf_object__populate_internal_map(): the initial contents, and the freeze
MapFill(p) ==
    /\ at[p] = "fill" /\ cur[p] \in Maps
    /\ \/ ThenPin(p) /\ UNCHANGED fd
       \/ CloseUpTo(p, cur[p]) /\ FailLoad(p)
    /\ UNCHANGED <<pins, file, path, pinned, reused, mdef, prog, loaded, ok, calls, history>>

\* bpf_obj_pin() of the kernel object k at t, which must be free
PinAt(p, t, k) ==
    /\ k # None /\ pins[t] = None
    /\ pins' = [pins EXCEPT ![t] = k]
    /\ maker' = [maker EXCEPT ![t] = p]

\* Mutant: a path that is taken counts as pinned.
MapPinTaken(p) ==
    /\ at[p] = "pin" /\ cur[p] \in Maps
    /\ \/ PinAt(p, path[p][cur[p]], fd[p][cur[p]])
       \/ pins[path[p][cur[p]]] # None /\ UNCHANGED <<pins, maker>>
    /\ Pinned(p, cur[p])
    /\ NextMap(p)
    /\ UNCHANGED <<file, fd, path, reused, mdef, prog, loaded, ok, calls>>

\* bpf_map__pin(map, NULL) of a map create_maps() has just made
MapPin(p) ==
    /\ at[p] = "pin" /\ cur[p] \in Maps
    /\ LET m == cur[p]
       IN  \/ /\ PinAt(p, path[p][m], fd[p][m])
              /\ Pinned(p, m)
              /\ NextMap(p)
           \/ /\ FailLoad(p)
              /\ UNCHANGED <<pins, pinned, history>>
    /\ UNCHANGED <<file, fd, path, reused, mdef, prog, loaded, ok, calls>>

Relocate(p) ==
    /\ at[p] = "reloc"
    /\ \/ IF NProgs > 0 THEN Go(p, "prog", 1) /\ UNCHANGED ok
                        ELSE Go(p, "idle", 1) /\ ok' = ok \cup {p}
       \/ FailLoad(p) /\ UNCHANGED ok
    /\ UNCHANGED <<pins, file, fd, path, pinned, reused, mdef, prog, loaded, calls, history>>

\* bpf_program__load(), for each program of bpf_object__load_progs()
LoadProg(p) ==
    /\ at[p] = "prog" /\ cur[p] \in Progs
    /\ \/ \E k \in New("prog") :
          /\ prog' = [prog EXCEPT ![p][cur[p]] = k]
          /\ IF cur[p] = NProgs
               THEN Go(p, "idle", 1) /\ ok' = ok \cup {p}
               ELSE Go(p, "prog", cur[p] + 1) /\ UNCHANGED ok
       \/ FailLoad(p) /\ UNCHANGED <<prog, ok>>
    /\ UNCHANGED <<pins, file, fd, path, pinned, reused, mdef, loaded, calls, history>>

\* unlink() of the path t, whatever is pinned there, for map m of p
Unlink(p, m, t) ==
    /\ pins' = [pins EXCEPT ![t] = None]
    /\ maker' = [maker EXCEPT ![t] = None]
    /\ pinned' = [pinned EXCEPT ![p] = @ \ {m}]
    /\ cut' = [q \in Procs |-> (cut[q] \cup {n \in pinned[q] : path[q][n] = t})
                               \ (IF q = p THEN {m} ELSE {})]

\* The descriptors bpf_object__unload() closes.
Unload(p) ==
    /\ fd' = [fd EXCEPT ![p] = [m \in Maps |-> None]]
    /\ prog' = [prog EXCEPT ![p] = [j \in Progs |-> None]]

\* Mutants: nothing is unpinned, or the maps of others too.
UndoesNone(p, m) == FALSE
UndoesAll(p, m) == m \in pinned[p]

\* A map bpf_object__load_xattr() unpins when the load has failed
Undoes(p, m) == m \in pinned[p] /\ m \notin reused[p]

\* bpf_map__unpin(map, NULL) for each map auto-pinned by a load that failed,
\* then bpf_object__unload()
Undo(p) ==
    /\ at[p] = "undo"
    /\ IF cur[p] > NMaps
         THEN /\ Unload(p)
              /\ Go(p, "idle", 1)
              /\ UNCHANGED <<pins, pinned, history>>
         ELSE /\ LET m == cur[p]
                     t == path[p][m]
                 IN  IF Undoes(p, m) /\ pins[t] # None
                       THEN Unlink(p, m, t)
                       ELSE UNCHANGED <<pins, pinned, history>>
              /\ Go(p, "undo", cur[p] + 1)
              /\ UNCHANGED <<fd, prog>>
    /\ UNCHANGED <<file, path, reused, mdef, loaded, ok, calls>>

-----------------------------------------------------------------------------
(***************************************************************************)
(* bpf_object__pin_maps(obj, dir), on its own or as part of                *)
(* bpf_object__pin(); pin_maps_in_bpf_object() of xdp_user_helpers.c calls *)
(* it.  loaded is set even if the load has failed.                         *)
(***************************************************************************)
PinMaps(p) ==
    /\ Call /\ at[p] = "idle" /\ p \in loaded
    /\ Go(p, "pinmap", 1) \/ Go(p, "pinboth", 1)
    /\ UNCHANGED <<pins, object, history>>

\* The checks of bpf_map__pin(map, t), and of those whether to call the kernel
PinRefused(p, m, t) == IF path[p][m] # None THEN path[p][m] # t ELSE m \in pinned[p]
PinDone(p, m, t) == path[p][m] = t /\ m \in pinned[p]

PinNext(p) ==
    IF cur[p] < NMaps THEN Go(p, at[p], cur[p] + 1)
    ELSE IF at[p] = "pinboth" /\ NProgs > 0 THEN Go(p, "pinprog", 1) ELSE Go(p, "idle", 1)

PinMap(p) ==
    /\ at[p] \in {"pinmap", "pinboth"} /\ cur[p] \in Maps
    /\ LET m == cur[p]
           t == MapPath[m]
       IN  \/ /\ PinDone(p, m, t)
              /\ PinNext(p)
              /\ UNCHANGED <<pins, path, pinned, history>>
           \/ /\ ~PinRefused(p, m, t) /\ ~PinDone(p, m, t)
              /\ path' = [path EXCEPT ![p][m] = t]
              /\ \/ /\ PinAt(p, t, fd[p][m])
                    /\ Pinned(p, m)
                    /\ PinNext(p)
                 \/ /\ Go(p, "unpinback", m)
                    /\ UNCHANGED <<pins, pinned, history>>
           \/ /\ PinRefused(p, m, t) \/ path[p][m] = None  \* no memory for it
              /\ Go(p, "unpinback", m)
              /\ UNCHANGED <<pins, path, pinned, history>>
    /\ UNCHANGED <<file, fd, reused, mdef, prog, loaded, ok, calls>>

\* The rollback: bpf_map__unpin(map, NULL) of the maps before the one that
\* failed, last first, whoever pinned them.
UnpinBack(p) ==
    /\ at[p] = "unpinback"
    /\ IF cur[p] <= 1
         THEN Go(p, "idle", 1) /\ UNCHANGED <<pins, pinned, history>>
         ELSE LET m == cur[p] - 1
                  t == path[p][m]
              IN  /\ Go(p, "unpinback", m)
                  /\ IF t # None /\ pins[t] # None
                       THEN Unlink(p, m, t)
                       ELSE UNCHANGED <<pins, pinned, history>>
    /\ UNCHANGED <<file, fd, path, reused, mdef, prog, loaded, ok, calls>>

\* bpf_object__unpin_maps(obj, dir), which stops at the first error
UnpinMaps(p) ==
    /\ Call /\ at[p] = "idle"
    /\ Go(p, "unpinmap", 1)
    /\ UNCHANGED <<pins, object, history>>

UnpinMap(p) ==
    /\ at[p] = "unpinmap" /\ cur[p] \in Maps
    /\ LET m == cur[p]
           t == MapPath[m]
       IN  IF (path[p][m] # None /\ path[p][m] # t) \/ pins[t] = None
             THEN Go(p, "idle", 1) /\ UNCHANGED <<pins, pinned, history>>
             ELSE /\ Unlink(p, m, t)
                  /\ IF m = NMaps THEN Go(p, "idle", 1) ELSE Go(p, "unpinmap", m + 1)
    /\ UNCHANGED <<file, fd, path, reused, mdef, prog, loaded, ok, calls>>

\* bpf_program__pin() of each program, and on an error bpf_program__unpin()
\* of those before it, then bpf_object__unpin_maps()
PinProg(p) ==
    /\ at[p] = "pinprog" /\ cur[p] \in Progs
    /\ \/ /\ PinAt(p, ProgPath[cur[p]], prog[p][cur[p]])
          /\ IF cur[p] = NProgs THEN Go(p, "idle", 1) ELSE Go(p, "pinprog", cur[p] + 1)
       \/ Go(p, "unpinprog", cur[p]) /\ UNCHANGED <<pins, maker>>
    /\ UNCHANGED <<object, calls, cut>>

UnpinProg(p) ==
    /\ at[p] = "unpinprog"
    /\ IF cur[p] <= 1
         THEN Go(p, "unpinmap", 1) /\ UNCHANGED <<pins, maker>>
         ELSE LET t == ProgPath[cur[p] - 1]
              IN  /\ Go(p, "unpinprog", cur[p] - 1)
                  /\ pins' = [pins EXCEPT ![t] = None]
                  /\ maker' = [maker EXCEPT ![t] = None]
    /\ UNCHANGED <<object, calls, cut>>

Next ==
    \E p \in Procs :
        \/ Open(p) \/ Close(p) \/ Die(p) \/ StartReuse(p) \/ Reuse(p)
        \/ Load(p) \/ MapGet(p) \/ MapCreate(p) \/ MapFill(p) \/ MapPin(p)
        \/ Relocate(p) \/ LoadProg(p) \/ Undo(p)
        \/ PinMaps(p) \/ PinMap(p) \/ UnpinBack(p) \/ UnpinMaps(p) \/ UnpinMap(p)
        \/ PinProg(p) \/ UnpinProg(p)

Spec == Init /\ [][Next]_vars

-----------------------------------------------------------------------------
(***************************************************************************)
(* Two objects with a map pinned at the same path, which nobody unlinked   *)
(* under either, use one kernel object and agree on what it is, however    *)
(* their loads, pins, failures and deaths interleave                       *)
(* (bpf_object__create_maps(), bpf_map__pin()).                            *)
(***************************************************************************)
Uses(p, m, t) == fd[p][m] # None /\ path[p][m] = t /\ m \in pinned[p] \ cut[p]
PinnedMapsShared ==
    \A p, q \in Procs, m, n \in Maps, t \in Paths :
        Uses(p, m, t) /\ Uses(q, n, t) => fd[p][m] = fd[q][n] /\ mdef[p][m] = mdef[q][n]

(***************************************************************************)
(* A load that succeeds leaves every map and program with a descriptor; a  *)
(* load that fails leaves none, and no pin it made itself                  *)
(* (bpf_object__load_xattr()).                                             *)
(***************************************************************************)
AfterLoad(p) == at[p] = "idle" /\ p \in loaded
LoadAllOrNothing ==
    \A p \in Procs : AfterLoad(p) =>
        IF p \in ok
        THEN (\A m \in Maps : fd[p][m] # None) /\ (\A j \in Progs : prog[p][j] # None)
        ELSE /\ \A m \in Maps : fd[p][m] = None
             /\ \A j \in Progs : prog[p][j] = None
             /\ \A t \in Paths : maker[t] # p

\* A load that fails unlinks no path that another process has pinned, unless
\* somebody unlinked the pin it made itself before (the loop after out: in
\* bpf_object__load_xattr()).
UndoesOwnPins ==
    \A p \in Procs, m \in Maps :
        at[p] = "undo" /\ Undoes(p, m) /\ m \notin cut[p] /\ pins[path[p][m]] # None
            => maker[path[p][m]] = p

=============================================================================
