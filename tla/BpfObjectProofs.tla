-------------------------- MODULE BpfObjectProofs --------------------------
(***************************************************************************)
(* Theorems about BpfObject, for every number of processes, maps and       *)
(* programs, every set of object files and every choice of pin paths.      *)
(***************************************************************************)
EXTENDS BpfObject, TLAPS

Labels == {"none", "idle", "reuse", "lost", "get", "create", "fill", "pin", "reloc", "prog", "undo",
           "pinmap", "pinboth", "unpinback", "unpinmap", "pinprog", "unpinprog"}
PinType ==
    /\ pins \in [Paths -> Ids \cup {None}]
    /\ maker \in [Paths -> Procs \cup {None}]
MapsType ==
    /\ fd \in [Procs -> [Maps -> Ids \cup {None}]]
    /\ path \in [Procs -> [Maps -> Paths \cup {None}]]
    /\ mdef \in [Procs -> [Maps -> Defs \cup {"prog"}]]
FlagsType ==
    /\ pinned \in [Procs -> SUBSET Maps] /\ reused \in [Procs -> SUBSET Maps]
    /\ cut \in [Procs -> SUBSET Maps]
ProgType == prog \in [Procs -> [Progs -> Ids \cup {None}]]
ControlType ==
    /\ file \in [Procs -> Files]
    /\ loaded \subseteq Procs /\ ok \subseteq Procs
    /\ at \in [Procs -> Labels] /\ cur \in [Procs -> Nat]

(* The steps of a load, and those that pin maps: loaded is set by then. *)
Creating == {"create", "fill", "pin"}
Loading == {"get"} \cup Creating
Pinning == {"pinmap", "pinboth"}

(* Where a process is says which of its maps can be pinned: none before    *)
(* the load, and during it only those create_maps() has gone past.         *)
ProcControl(p) ==
    /\ at[p] \in {"none", "reuse"} => p \notin loaded
    /\ at[p] = "none" => \A m \in Maps : fd[p][m] = None
    /\ at[p] \in Loading \cup Pinning \cup {"pinprog"} => p \in loaded
    /\ p \notin loaded => pinned[p] = {}
    /\ at[p] \in Loading => \A m \in pinned[p] : m < cur[p]
    /\ at[p] = "pin" => cur[p] \in Maps /\ path[p][cur[p]] # None
    /\ at[p] = "unpinback" => cur[p] <= NMaps
    /\ at[p] = "unpinprog" => cur[p] <= NProgs
ControlInv == \A p \in Procs : ProcControl(p)

(* A map has the definition of its kernel object, and never the path of a  *)
(* program.                                                                *)
FieldInv ==
    \A p \in Procs, m \in Maps :
        /\ fd[p][m] # None => mdef[p][m] = KernelDef(fd[p][m])
        /\ m \in pinned[p] => path[p][m] # None
        /\ \A j \in Progs : path[p][m] # ProgPath[j]

(* Unless somebody unlinked it, a pin is there, is of the map's own kernel *)
(* object as long as the map has one, and is the work of the process that  *)
(* did not find it there.                                                  *)
PinInv ==
    \A p \in Procs, m \in Maps :
        m \in pinned[p] /\ m \notin cut[p] =>
            /\ pins[path[p][m]] # None
            /\ fd[p][m] # None => pins[path[p][m]] = fd[p][m]
            /\ m \notin reused[p] => maker[path[p][m]] = p

(* How far a load has come, and what it leaves.                            *)
Busy == Loading \cup {"reloc", "prog"}
HasMaps(p) == \A m \in Maps : fd[p][m] # None
HasProgs(p) == \A j \in Progs : prog[p][j] # None
MadeNone(p) == \A t \in Paths : maker[t] # p
Empty(p) == (\A m \in Maps : fd[p][m] = None) /\ (\A j \in Progs : prog[p][j] = None) /\ MadeNone(p)

(* What p has pinned is the path of a map from i on that an error unpins.  *)
MadeFrom(p, i) ==
    \A t \in Paths : maker[t] = p => \E m \in Maps : m >= i /\ Undoes(p, m) /\ path[p][m] = t

(* A load that has come to some map or program has the ones before it, and *)
(* the pins it made can still be found by its rollback; a load that failed *)
(* leaves nothing.                                                         *)
ProcLoad(p) ==
    /\ p \in ok => p \in loaded /\ HasMaps(p) /\ HasProgs(p)
    /\ at[p] \in Busy \cup {"undo"} => p \in loaded /\ p \notin ok
    /\ at[p] \in Loading => \A m \in Maps : m < cur[p] => fd[p][m] # None
    /\ at[p] \in {"fill", "pin"} => fd[p][cur[p]] # None
    /\ at[p] \in {"reloc", "prog"} => HasMaps(p)
    /\ at[p] = "prog" => \A j \in Progs : j < cur[p] => prog[p][j] # None
    /\ p \in loaded /\ p \notin ok /\ at[p] \notin Busy \cup {"undo"} => Empty(p)
    /\ at[p] \in Creating => cur[p] \notin reused[p]
    /\ p \notin loaded \/ at[p] \in Loading => \A m \in reused[p] : fd[p][m] # None
    /\ p \notin loaded => MadeNone(p)
    /\ at[p] \in Busy => MadeFrom(p, 1)
    /\ at[p] = "undo" => MadeFrom(p, cur[p])
LoadInv == \A p \in Procs : ProcLoad(p)

(* A pin that somebody made and nobody unlinked is there. *)
MakerInv == \A t \in Paths : maker[t] # None => pins[t] # None

(* What is said of maps and pins, and of everything. *)
MapInv == PinType /\ MapsType /\ FlagsType /\ FieldInv /\ PinInv
ObjectInv == MapInv /\ ProgType /\ ControlType /\ ControlInv /\ LoadInv /\ MakerInv

(* What the proofs need of the constants. *)
LEMMA ObjectConstants ==
    /\ NMaps \in Nat /\ NMaps > 0 /\ NProgs \in Nat
    /\ None \notin Procs /\ None \notin Ids /\ None \notin Paths
    /\ \A m \in Maps : m \in Nat /\ MapPath[m] \in Paths
    /\ \A j \in Progs : j \in Nat /\ ProgPath[j] \in Paths
    /\ \A m \in Maps, j \in Progs : MapPath[m] # ProgPath[j]
    /\ \A f \in Files : f.pin \in [Maps -> Paths \cup {None}] /\ f.def \in [Maps -> Defs \cup {"prog"}]
    /\ \A f \in Files, m \in Maps, j \in Progs : f.pin[m] # ProgPath[j]
<1>1. \A f \in Files : f.def \in [Maps -> Defs \cup {"prog"}]
  BY ObjectAssumption, Zenon
<1> QED
  BY <1>1, ObjectAssumption DEF Maps, Progs

(* A new kernel object has the definition asked for. *)
LEMMA NewObject ==
    ASSUME NEW d \in Defs \cup {"prog"}, NEW k \in New(d)
    PROVE  k \in Ids /\ k # None /\ KernelDef(k) = d
<1>1. PICK n \in 1 .. NIds : k = <<d, n>>
  BY Zenon DEF New
<1>2. k \in Ids /\ KernelDef(k) = d
  BY <1>1, Zenon DEF Ids, KernelDef
<1> QED
  BY <1>2, ObjectConstants, Zenon

(* The definition of a kernel object is one of the files, or "prog". *)
LEMMA DefOfObject == \A k \in Ids : KernelDef(k) \in Defs \cup {"prog"}
  BY Zenon DEF Ids, KernelDef


-----------------------------------------------------------------------------
(***************************************************************************)
(* The effects the steps have on maps and pins.  Each lemma shows that an  *)
(* effect keeps MapInv, what is said of maps and pins; the lemmas on       *)
(* actions below say which effect an action has.                           *)
(***************************************************************************)
mapVars == <<fd, path, mdef, pinned, reused, cut, pins, maker>>

(* Nothing happens to maps and pins. *)
LEMMA EffectNone == MapInv /\ UNCHANGED mapVars => MapInv'
  BY DEF MapInv, mapVars, PinType, MapsType, FlagsType, FieldInv, PinInv

(* Descriptors are closed. *)
LEMMA EffectClose ==
    ASSUME MapInv, NEW p \in Procs, NEW S \in SUBSET Maps,
           fd' = [fd EXCEPT ![p] = [i \in Maps |-> IF i \in S THEN None ELSE fd[p][i]]],
           UNCHANGED <<path, mdef, pinned, reused, cut, pins, maker>>
    PROVE  MapInv'
<1>1. \A q \in Procs, i \in Maps : fd'[q][i] = None \/ fd'[q][i] = fd[q][i]
  BY Zenon DEF MapInv, MapsType
<1>2. PinType' /\ FlagsType'
  BY Zenon DEF MapInv, PinType, FlagsType
<1>3. MapsType'
  BY Zenon DEF MapInv, MapsType
<1>4. FieldInv' /\ PinInv'
  BY <1>1 DEF MapInv, FieldInv, PinInv
<1> QED
  BY <1>2, <1>3, <1>4, Zenon DEF MapInv

(* A map that is not pinned gets a descriptor and the definition of it. *)
LEMMA EffectOpen ==
    ASSUME MapInv, NEW p \in Procs, NEW m \in Maps, m \notin pinned[p],
           NEW k \in Ids, NEW d, d = KernelDef(k),
           fd' = [fd EXCEPT ![p][m] = k],
           mdef' = [mdef EXCEPT ![p][m] = d],
           UNCHANGED reused \/ reused' = [reused EXCEPT ![p] = @ \cup {m}],
           UNCHANGED <<path, pinned, cut, pins, maker>>
    PROVE  MapInv'
<1>1. d \in Defs \cup {"prog"}
  BY DefOfObject, Zenon
<1>2. MapsType'
  BY <1>1, Zenon DEF MapInv, MapsType
<1>3. PinType' /\ FlagsType'
  BY DEF MapInv, PinType, FlagsType
<1>4. FieldInv'
  <2> SUFFICES ASSUME NEW q \in Procs, NEW n \in Maps
               PROVE  /\ fd'[q][n] # None => mdef'[q][n] = KernelDef(fd'[q][n])
                      /\ n \in pinned'[q] => path'[q][n] # None
                      /\ \A j \in Progs : path'[q][n] # ProgPath[j]
    BY Zenon DEF FieldInv
  <2>1. CASE q = p /\ n = m
    BY <2>1, Zenon DEF MapInv, MapsType, FieldInv
  <2>2. CASE ~(q = p /\ n = m)
    <3>1. fd'[q][n] = fd[q][n] /\ mdef'[q][n] = mdef[q][n]
      BY <2>2, Zenon DEF MapInv, MapsType
    <3> QED
      BY <3>1 DEF MapInv, FieldInv
  <2> QED
    BY <2>1, <2>2, Zenon
<1>5. PinInv'
  <2>1. \A q \in Procs, n \in Maps : n \in pinned[q] => fd'[q][n] = fd[q][n]
    BY Zenon DEF MapInv, MapsType
  <2>2. \A q \in Procs, n \in Maps : n \in pinned[q] /\ n \notin reused'[q] => n \notin reused[q]
    BY Zenon DEF MapInv, FlagsType
  <2> QED
    BY <2>1, <2>2 DEF MapInv, PinInv
<1> QED
  BY <1>2, <1>3, <1>4, <1>5, Zenon DEF MapInv

(* A map becomes the kernel object pinned at its path. *)
LEMMA EffectReuse ==
    ASSUME MapInv, NEW p \in Procs, NEW m \in Maps,
           path[p][m] # None, pins[path[p][m]] # None,
           ReuseFd(p, m, pins[path[p][m]]), Pinned(p, m),
           UNCHANGED <<path, pins, maker>>
    PROVE  MapInv'
<1> DEFINE k == pins[path[p][m]]
<1>1. k \in Ids /\ KernelDef(k) \in Defs \cup {"prog"}
  BY DefOfObject DEF MapInv, PinType, MapsType
<1>2. MapsType'
  BY <1>1, Zenon DEF MapInv, MapsType, ReuseFd
<1>3. PinType' /\ FlagsType'
  BY Zenon DEF MapInv, PinType, FlagsType, ReuseFd, Pinned
<1>a. /\ fd'[p][m] = k /\ mdef'[p][m] = KernelDef(k) /\ m \in reused'[p]
      /\ \A q \in Procs, n \in Maps : ~(q = p /\ n = m) =>
             /\ fd'[q][n] = fd[q][n] /\ mdef'[q][n] = mdef[q][n]
             /\ n \in pinned'[q] <=> n \in pinned[q]
             /\ n \in reused'[q] <=> n \in reused[q]
             /\ n \in cut'[q] <=> n \in cut[q]
  BY Zenon DEF MapInv, MapsType, FlagsType, ReuseFd, Pinned
<1>4. FieldInv'
  BY <1>a DEF MapInv, FieldInv
<1>5. PinInv'
  BY <1>a, <1>1, ObjectConstants DEF MapInv, PinInv
<1> QED
  BY <1>2, <1>3, <1>4, <1>5, Zenon DEF MapInv

(* A map that was not pinned is pinned at a free path. *)
LEMMA EffectPin ==
    ASSUME MapInv, NEW p \in Procs, NEW m \in Maps, m \notin pinned[p], NEW t \in Paths,
           \A j \in Progs : t # ProgPath[j],
           PinAt(p, t, fd[p][m]), Pinned(p, m),
           path' = [path EXCEPT ![p][m] = t],
           UNCHANGED <<fd, mdef, reused>>
    PROVE  MapInv'
<1>1. PinType' /\ MapsType' /\ FlagsType'
  BY DEF MapInv, PinType, MapsType, FlagsType, PinAt, Pinned
<1>a. /\ path'[p][m] = t /\ pins'[t] = fd[p][m] /\ maker'[t] = p /\ fd[p][m] # None /\ pins[t] = None
      /\ \A u \in Paths : u # t => pins'[u] = pins[u] /\ maker'[u] = maker[u]
      /\ \A q \in Procs, n \in Maps : ~(q = p /\ n = m) =>
             /\ path'[q][n] = path[q][n]
             /\ n \in pinned'[q] <=> n \in pinned[q]
             /\ n \in cut'[q] <=> n \in cut[q]
  BY Zenon DEF MapInv, PinType, MapsType, FlagsType, PinAt, Pinned
<1>2. FieldInv'
  BY <1>a, ObjectConstants DEF MapInv, FieldInv
<1>3. PinInv'
  <2> SUFFICES ASSUME NEW q \in Procs, NEW n \in Maps, n \in pinned'[q], n \notin cut'[q]
               PROVE  /\ pins'[path'[q][n]] # None
                      /\ fd'[q][n] # None => pins'[path'[q][n]] = fd'[q][n]
                      /\ n \notin reused'[q] => maker'[path'[q][n]] = q
    BY Zenon DEF PinInv
  <2>1. CASE q = p /\ n = m
    BY <2>1, <1>a
  <2>2. CASE ~(q = p /\ n = m)
    <3>1. n \in pinned[q] /\ n \notin cut[q] /\ path'[q][n] = path[q][n]
      BY <2>2, <1>a, Zenon
    <3>2. path[q][n] \in Paths /\ pins[path[q][n]] # None
      BY <3>1 DEF MapInv, FieldInv, PinInv, MapsType
    <3>3. pins'[path[q][n]] = pins[path[q][n]] /\ maker'[path[q][n]] = maker[path[q][n]]
      BY <3>2, <1>a, Zenon
    <3> QED
      BY <3>1, <3>3 DEF MapInv, PinInv
  <2> QED
    BY <2>1, <2>2, Zenon
<1> QED
  BY <1>1, <1>2, <1>3, Zenon DEF MapInv

(* A path is unlinked: every other map that was pinned there is cut. *)
LEMMA EffectUnlink ==
    ASSUME MapInv, NEW p \in Procs, NEW m \in Maps, NEW t \in Paths, Unlink(p, m, t),
           UNCHANGED <<fd, path, mdef, reused>>
    PROVE  MapInv'
<1>1. PinType' /\ MapsType' /\ FlagsType'
  BY Zenon DEF MapInv, PinType, MapsType, FlagsType, Unlink
<1>a. /\ \A u \in Paths : u # t => pins'[u] = pins[u] /\ maker'[u] = maker[u]
      /\ \A q \in Procs, n \in Maps : n \in pinned'[q] => n \in pinned[q]
      /\ \A q \in Procs, n \in Maps : n \in pinned'[q] /\ n \notin cut'[q] =>
             n \notin cut[q] /\ path[q][n] # t
  BY Zenon DEF MapInv, PinType, MapsType, FlagsType, Unlink
<1>2. FieldInv'
  BY <1>a DEF MapInv, FieldInv
<1>3. PinInv'
  <2> SUFFICES ASSUME NEW q \in Procs, NEW n \in Maps, n \in pinned'[q], n \notin cut'[q]
               PROVE  /\ pins'[path[q][n]] # None
                      /\ fd[q][n] # None => pins'[path[q][n]] = fd[q][n]
                      /\ n \notin reused[q] => maker'[path[q][n]] = q
    BY Zenon DEF PinInv
  <2>1. n \in pinned[q] /\ n \notin cut[q] /\ path[q][n] # t
    BY <1>a, Zenon
  <2>2. path[q][n] \in Paths
    BY <2>1 DEF MapInv, MapsType, FieldInv
  <2> QED
    BY <2>1, <2>2, <1>a DEF MapInv, PinInv
<1> QED
  BY <1>1, <1>2, <1>3, Zenon DEF MapInv

(* A program is pinned or unpinned: no map is pinned at its path. *)
LEMMA EffectProg ==
    ASSUME MapInv, NEW p \in Procs, NEW j \in Progs, NEW k \in Ids \cup {None}, NEW q \in Procs \cup {None},
           pins' = [pins EXCEPT ![ProgPath[j]] = k],
           maker' = [maker EXCEPT ![ProgPath[j]] = q],
           UNCHANGED <<fd, path, mdef, pinned, reused, cut>>
    PROVE  MapInv'
<1>1. PinType' /\ MapsType' /\ FlagsType' /\ FieldInv'
  BY ObjectConstants DEF MapInv, PinType, MapsType, FlagsType, FieldInv
<1>2. \A r \in Procs, n \in Maps : n \in pinned[r] =>
          /\ path[r][n] \in Paths /\ path[r][n] # ProgPath[j]
          /\ pins'[path[r][n]] = pins[path[r][n]] /\ maker'[path[r][n]] = maker[path[r][n]]
  BY ObjectConstants DEF MapInv, PinType, MapsType, FieldInv
<1>3. PinInv'
  BY <1>2 DEF MapInv, PinInv
<1> QED
  BY <1>1, <1>3, Zenon DEF MapInv

(***************************************************************************)
(* What a step of p does to the place of p, and to the other processes.    *)
(***************************************************************************)
LEMMA Moves ==
    ASSUME ControlType, NEW p \in Procs, NEW l \in Labels, NEW n \in Nat, Go(p, l, n),
           UNCHANGED file, loaded' \subseteq Procs, ok' \subseteq Procs
    PROVE  /\ ControlType' /\ at'[p] = l /\ cur'[p] = n
           /\ \A q \in Procs : q # p => at'[q] = at[q] /\ cur'[q] = cur[q]
  BY Zenon DEF ControlType, Go

(* A step that changes only the label moves to it with the same position. *)
LEMMA LabelMoves ==
    ASSUME ControlType, NEW p \in Procs, NEW l, Label(p, l)
    PROVE  Go(p, l, cur[p]) /\ cur[p] \in Nat
  BY Zenon DEF ControlType, Label, Go

(* The other processes stay as they are, and have pinned nothing more. *)
Others(p) ==
    \A q \in Procs : q # p =>
        /\ at'[q] = at[q] /\ cur'[q] = cur[q]
        /\ fd'[q] = fd[q] /\ prog'[q] = prog[q] /\ path'[q] = path[q]
        /\ pinned'[q] = pinned[q] /\ reused'[q] = reused[q]
        /\ (q \in loaded' <=> q \in loaded) /\ (q \in ok' <=> q \in ok)
        /\ \A t \in Paths : maker'[t] = q => maker[t] = q

(* ControlInv is about one process at a time. *)
LEMMA OthersKeepControl ==
    ASSUME ControlInv, NEW p \in Procs, Others(p), ProcControl(p)'
    PROVE  ControlInv'
  BY DEF ControlInv, ProcControl, Others

(* So is LoadInv. *)
LEMMA OthersKeepLoad ==
    ASSUME LoadInv, NEW p \in Procs, Others(p), ProcLoad(p)'
    PROVE  LoadInv'
<1> SUFFICES ASSUME NEW q \in Procs, q # p PROVE ProcLoad(q)'
  BY Zenon DEF LoadInv
<1>1. ProcLoad(q)
  BY Zenon DEF LoadInv
<1>2. /\ at'[q] = at[q] /\ cur'[q] = cur[q] /\ reused'[q] = reused[q] /\ fd'[q] = fd[q]
      /\ prog'[q] = prog[q] /\ (q \in loaded' <=> q \in loaded) /\ (q \in ok' <=> q \in ok)
  BY Zenon DEF Others
<1>3. /\ HasMaps(q)' <=> HasMaps(q)
      /\ HasProgs(q)' <=> HasProgs(q)
      /\ MadeNone(q) => MadeNone(q)'
      /\ Empty(q) => Empty(q)'
  BY <1>2 DEF Others, HasMaps, HasProgs, MadeNone, Empty
<1>4. \A i \in {1, cur[q]} : MadeFrom(q, i) => MadeFrom(q, i)'
  BY DEF Others, MadeFrom, Undoes
<1>5. (MadeFrom(q, 1) => MadeFrom(q, 1)') /\ (MadeFrom(q, cur[q]) => MadeFrom(q, cur[q])')
  BY <1>2, <1>4, Zenon
<1> QED
  BY <1>1, <1>2, <1>3, <1>5 DEF ProcLoad

(* What a step of one process has to show for the whole invariant. *)
LEMMA StepKeeps ==
    ASSUME ObjectInv, NEW p \in Procs, Others(p), ProcControl(p)', ProcLoad(p)',
           ControlType', ProgType', MapInv', MakerInv'
    PROVE  ObjectInv'
  BY OthersKeepControl, OthersKeepLoad, Zenon DEF ObjectInv

(* p only moves. *)
LEMMA MoveKeeps ==
    ASSUME ObjectInv, NEW p \in Procs, NEW l \in Labels, NEW n \in Nat, Go(p, l, n),
           UNCHANGED <<pins, object, history>>, ProcControl(p)', ProcLoad(p)'
    PROVE  ObjectInv'
<1>1. /\ UNCHANGED <<file, fd, path, pinned, reused, mdef, prog, loaded, ok>>
      /\ UNCHANGED <<pins, maker, cut>>
  BY Zenon DEF object, history
<1>2. MapInv /\ ProgType /\ ControlType /\ MakerInv
  BY Zenon DEF ObjectInv
<1>3. ControlType' /\ \A q \in Procs : q # p => at'[q] = at[q] /\ cur'[q] = cur[q]
  BY <1>1, <1>2, Moves, Zenon DEF ControlType
<1>4. Others(p)
  BY <1>1, <1>3, Zenon DEF Others
<1>5. ProgType' /\ MakerInv'
  BY <1>1, <1>2, Zenon DEF ProgType, MakerInv
<1>6. MapInv'
  BY <1>1, <1>2, EffectNone, Zenon DEF mapVars
<1> QED
  BY <1>3, <1>4, <1>5, <1>6, StepKeeps, Zenon

(* What ObjectInv says of the process that takes a step. *)
LEMMA OfProc ==
    ASSUME ObjectInv, NEW p \in Procs
    PROVE  MapInv /\ ProgType /\ ControlType /\ MakerInv /\ ProcControl(p) /\ ProcLoad(p)
  BY Zenon DEF ObjectInv, ControlInv, LoadInv

(* No object is open at first. *)
LEMMA ObjectInit == Init => ObjectInv
<1> SUFFICES ASSUME Init PROVE ObjectInv
  BY Zenon
<1>1. PinType /\ MapsType /\ FlagsType /\ ProgType /\ ControlType
  BY ObjectConstants, Zenon DEF Init, PinType, MapsType, FlagsType, ProgType, ControlType, Labels
<1>2. ControlInv
  BY Zenon DEF Init, ControlInv, ProcControl, Loading, Creating, Pinning
<1>3. FieldInv /\ PinInv /\ MakerInv
  BY ObjectConstants, Zenon DEF Init, FieldInv, PinInv, MakerInv
<1>4. LoadInv
  BY ObjectConstants, Zenon DEF Init, LoadInv, ProcLoad, MadeNone, Busy, Loading, Creating
<1> QED
  BY <1>1, <1>2, <1>3, <1>4, Zenon DEF ObjectInv, MapInv

-----------------------------------------------------------------------------
(* Opening gives the maps the paths of the file; none is pinned yet. *)
LEMMA OpenKeeps ==
    ASSUME ObjectInv, NEW p \in Procs, Open(p)
    PROVE  ObjectInv'
<1>0. MapInv /\ ProgType /\ ControlType /\ MakerInv /\ ProcControl(p) /\ ProcLoad(p)
  BY OfProc, Zenon
<1>1. /\ at[p] = "none" /\ Label(p, "idle")
      /\ path' = [path EXCEPT ![p] = file[p].pin] /\ mdef' = [mdef EXCEPT ![p] = file[p].def]
      /\ UNCHANGED <<pins, file, fd, pinned, reused, prog, loaded, ok, maker, cut>>
  BY Zenon DEF Open, history
<1> USE <1>0, <1>1
<1>2. /\ ControlType' /\ at'[p] = "idle" /\ cur'[p] = cur[p]
      /\ \A q \in Procs : q # p => at'[q] = at[q] /\ cur'[q] = cur[q]
  BY LabelMoves, Moves DEF ControlType, Labels
<1>3. p \notin loaded /\ pinned[p] = {} /\ \A m \in Maps : fd[p][m] = None
  BY Zenon DEF ProcControl
<1>4. Others(p)
  BY <1>2, Zenon DEF Others, MapInv, MapsType
<1>5. ProcControl(p)'
  BY <1>2, <1>3, Zenon DEF ProcControl, Loading, Creating, Pinning
<1>6. ProcLoad(p)'
  BY <1>2, <1>3, Zenon DEF ProcLoad, MadeNone, Busy, Loading, Creating
<1>7. MapInv'
  <2>1. file[p].pin \in [Maps -> Paths \cup {None}] /\ file[p].def \in [Maps -> Defs \cup {"prog"}]
        /\ \A m \in Maps, j \in Progs : file[p].pin[m] # ProgPath[j]
    BY ObjectConstants, Zenon DEF ControlType
  <2>2. PinType' /\ MapsType' /\ FlagsType'
    BY <2>1, Zenon DEF MapInv, PinType, MapsType, FlagsType
  <2>3. \A q \in Procs, m \in Maps : q # p => path'[q][m] = path[q][m] /\ mdef'[q][m] = mdef[q][m]
    BY Zenon DEF MapInv, MapsType
  <2>4. path'[p] = file[p].pin
    BY Zenon DEF MapInv, MapsType
  <2>5. FieldInv'
    BY <1>3, <2>1, <2>3, <2>4 DEF MapInv, FieldInv
  <2>6. PinInv'
    BY <1>3, <2>3 DEF MapInv, PinInv
  <2> QED
    BY <2>2, <2>5, <2>6, Zenon DEF MapInv
<1>8. ProgType' /\ MakerInv'
  BY Zenon DEF ProgType, MakerInv
<1> QED
  BY <1>2, <1>4, <1>5, <1>6, <1>7, <1>8, StepKeeps, Zenon

(* An object that is gone has no map and no pin of its own. *)
LEMMA ForgetKeeps ==
    ASSUME ObjectInv, NEW p \in Procs, Forget(p)
    PROVE  ObjectInv'
<1>0. MapInv /\ ProgType /\ ControlType /\ MakerInv /\ ProcControl(p) /\ ProcLoad(p)
  BY OfProc
<1>1. UNCHANGED <<pins, file, mdef>> /\ loaded' = loaded \ {p} /\ ok' = ok \ {p} /\ Go(p, "none", 1)
  BY Zenon DEF Forget
<1> USE <1>0, <1>1
<1>2. /\ ControlType' /\ at'[p] = "none" /\ cur'[p] = 1
      /\ \A q \in Procs : q # p => at'[q] = at[q] /\ cur'[q] = cur[q]
  BY Moves DEF ControlType, Labels
<1>3. /\ \A m \in Maps : fd'[p][m] = None /\ path'[p][m] = None
      /\ pinned'[p] = {} /\ reused'[p] = {}
      /\ \A q \in Procs : q # p =>
             /\ fd'[q] = fd[q] /\ path'[q] = path[q] /\ prog'[q] = prog[q]
             /\ pinned'[q] = pinned[q] /\ reused'[q] = reused[q] /\ cut'[q] = cut[q]
  BY Zenon DEF Forget, MapInv, MapsType, FlagsType, ProgType
<1>4. \A t \in Paths : maker'[t] # p /\ (maker'[t] # None => maker'[t] = maker[t])
  BY ObjectConstants, Zenon DEF Forget
<1>5. \A q \in Procs, t \in Paths : q # p => (maker'[t] = q <=> maker[t] = q)
  BY ObjectConstants DEF Forget
<1>6. Others(p)
  BY <1>2, <1>3, <1>5, ZenonT(40) DEF Others
<1>7. ProcControl(p)'
  BY <1>2, <1>3, Zenon DEF ProcControl, Loading, Creating, Pinning
<1>8. ProcLoad(p)'
  BY <1>2, <1>3, <1>4, Zenon DEF ProcLoad, MadeNone, Busy, Loading, Creating
<1>9. MapInv'
  <2>1. PinType' /\ MapsType' /\ FlagsType'
    BY Zenon DEF MapInv, PinType, MapsType, FlagsType, Forget
  <2>2. FieldInv'
    BY <1>3, ObjectConstants DEF MapInv, FieldInv
  <2>3. PinInv'
    <3> SUFFICES ASSUME NEW q \in Procs, NEW m \in Maps, q # p, m \in pinned[q], m \notin cut[q]
                 PROVE  /\ pins[path[q][m]] # None
                        /\ fd[q][m] # None => pins[path[q][m]] = fd[q][m]
                        /\ m \notin reused[q] => maker'[path[q][m]] = q
      BY <1>3 DEF PinInv
    <3>1. path[q][m] \in Paths
      BY DEF MapInv, MapsType, FieldInv
    <3> QED
      BY <3>1, <1>5 DEF MapInv, PinInv
  <2> QED
    BY <2>1, <2>2, <2>3, Zenon DEF MapInv
<1>10. ProgType' /\ MakerInv'
  BY <1>4, Zenon DEF ProgType, MakerInv, Forget
<1> QED
  BY <1>2, <1>6, <1>7, <1>8, <1>9, <1>10, StepKeeps, Zenon

(* Starting to reuse maps touches none. *)
LEMMA StartReuseKeeps ==
    ASSUME ObjectInv, NEW p \in Procs, StartReuse(p)
    PROVE  ObjectInv'
<1>0. ControlType /\ ProcControl(p) /\ ProcLoad(p)
  BY OfProc, Zenon
<1>1. at[p] = "idle" /\ p \notin loaded /\ Go(p, "reuse", 1) /\ UNCHANGED <<pins, object, history>>
  BY Zenon DEF StartReuse
<1>2. UNCHANGED <<file, fd, path, pinned, reused, loaded, ok, prog, maker>>
  BY <1>1, Zenon DEF object, history
<1> USE <1>0, <1>1, <1>2
<1>3. at'[p] = "reuse" /\ cur'[p] = 1
  BY Moves DEF ControlType, Labels
<1>4. ProcControl(p)'
  BY <1>3, Zenon DEF ProcControl, Loading, Creating, Pinning
<1>5. ProcLoad(p)'
  BY <1>3, Zenon DEF ProcLoad, MadeNone, Busy, Loading, Creating
<1> QED
  BY <1>4, <1>5, MoveKeeps, Zenon DEF Labels

(* Reusing a map before the load: its kernel object is there. *)
LEMMA ReuseKeeps ==
    ASSUME ObjectInv, NEW p \in Procs, Reuse(p)
    PROVE  ObjectInv'
<1> DEFINE m == cur[p]
           k == pins[MapPath[m]]
<1>0. MapInv /\ ProgType /\ ControlType /\ MakerInv /\ ProcControl(p) /\ ProcLoad(p)
  BY OfProc
<1>1. /\ at[p] = "reuse" /\ m \in Maps
      /\ UNCHANGED <<pins, file, path, pinned, prog, loaded, ok, maker, cut>>
  BY Zenon DEF Reuse, history
<1> USE <1>0, <1>1
<1>2. \/ k # None /\ ReuseFd(p, m, k)
      \/ UNCHANGED <<fd, mdef, reused>>
  BY Zenon DEF Reuse
<1>3. PICK l \in {"idle", "reuse", "lost"}, n \in Nat : Go(p, l, n)
  <2>1. m + 1 \in Nat
    BY DEF ControlType
  <2> QED
    BY <2>1, LabelMoves, Zenon DEF Reuse
<1>4. /\ ControlType' /\ at'[p] = l /\ cur'[p] = n
      /\ \A q \in Procs : q # p => at'[q] = at[q] /\ cur'[q] = cur[q]
  BY <1>3, Moves DEF ControlType, Labels
<1>5. p \notin loaded /\ pinned[p] = {}
  BY Zenon DEF ProcControl
<1>6. MapPath[m] \in Paths /\ (k # None => k \in Ids)
  BY ObjectConstants, Zenon DEF MapInv, PinType
<1>7. \A q \in Procs : q # p => fd'[q] = fd[q] /\ reused'[q] = reused[q]
  BY <1>2, Zenon DEF ReuseFd, MapInv, MapsType, FlagsType
<1>8. Others(p)
  BY <1>4, <1>7, Zenon DEF Others
<1>9. ProcControl(p)'
  BY <1>3, <1>4, <1>5, Zenon DEF ProcControl, Loading, Creating, Pinning
<1>10. ProcLoad(p)'
  <2>1. \A i \in reused[p] : i \in Maps /\ fd[p][i] # None
    BY <1>5, Zenon DEF ProcLoad, MapInv, FlagsType
  <2>2. \A i \in reused'[p] : fd'[p][i] # None
    BY <2>1, <1>2 DEF ReuseFd, MapInv, MapsType, FlagsType
  <2> QED
    BY <2>2, <1>3, <1>4, <1>5, Zenon DEF ProcLoad, MadeNone, Busy, Loading, Creating
<1>11. MapInv'
  <2>1. CASE k # None /\ ReuseFd(p, m, k)
    BY <2>1, <1>5, <1>6, EffectOpen, Zenon DEF ReuseFd
  <2>2. CASE UNCHANGED <<fd, mdef, reused>>
    BY <2>2, EffectNone, Zenon DEF mapVars
  <2> QED
    BY <2>1, <2>2, <1>2, Zenon
<1>12. ProgType' /\ MakerInv'
  BY Zenon DEF ProgType, MakerInv
<1> QED
  BY <1>4, <1>8, <1>9, <1>10, <1>11, <1>12, StepKeeps, Zenon

(* Unlinking a path takes away a pin, and one flag of one map. *)
LEMMA UnlinkFacts ==
    ASSUME MapInv, MakerInv, NEW p \in Procs, NEW m, NEW t \in Paths, Unlink(p, m, t)
    PROVE  /\ pinned'[p] = pinned[p] \ {m}
           /\ \A q \in Procs : q # p => pinned'[q] = pinned[q]
           /\ \A u \in Paths : maker'[u] # None => u # t /\ maker'[u] = maker[u] /\ pins'[u] = pins[u]
           /\ MakerInv'
<1>1. /\ pinned'[p] = pinned[p] \ {m}
      /\ \A q \in Procs : q # p => pinned'[q] = pinned[q]
  BY Zenon DEF Unlink, MapInv, FlagsType
<1>2. \A u \in Paths : maker'[u] # None => u # t /\ maker'[u] = maker[u] /\ pins'[u] = pins[u]
  BY Zenon DEF Unlink, MapInv, PinType
<1>3. MakerInv'
  BY <1>2, Zenon DEF MakerInv
<1> QED
  BY <1>1, <1>2, <1>3, Zenon

-----------------------------------------------------------------------------
(***************************************************************************)
(* Pinning and unpinning outside a load: what p makes, it makes with a     *)
(* descriptor, and an object whose load has failed has none.               *)
(***************************************************************************)
Resting == {"idle", "pinmap", "pinboth", "unpinback", "unpinmap", "pinprog", "unpinprog"}

RestStep(p, l, n) ==
    /\ at[p] \in Resting /\ l \in Resting /\ n \in Nat /\ Go(p, l, n)
    /\ UNCHANGED <<file, fd, prog, reused, loaded, ok>>
    /\ l \in {"pinmap", "pinboth", "pinprog"} => p \in loaded
    /\ l = "unpinback" => n <= NMaps
    /\ l = "unpinprog" => n <= NProgs
    /\ p \notin loaded => pinned'[p] = {}
    /\ \A q \in Procs : q # p => path'[q] = path[q] /\ pinned'[q] = pinned[q]
    /\ \A t \in Paths : maker'[t] # None => maker'[t] = maker[t] \/ (maker'[t] = p /\ p \in ok)

(* A step between two places outside a load keeps the whole invariant. *)
LEMMA RestKeeps ==
    ASSUME ObjectInv, NEW p \in Procs, NEW l, NEW n, RestStep(p, l, n), MapInv', MakerInv'
    PROVE  ObjectInv'
<1>9. /\ at[p] \in Resting /\ l \in Resting /\ n \in Nat /\ Go(p, l, n)
      /\ UNCHANGED <<file, fd, prog, reused, loaded, ok>>
  BY Zenon DEF RestStep
<1>0. ProgType /\ ControlType /\ ProcControl(p) /\ ProcLoad(p)
  BY OfProc, Zenon
<1> USE <1>9, <1>0
<1>1. /\ ControlType' /\ at'[p] = l /\ cur'[p] = n
      /\ \A q \in Procs : q # p => at'[q] = at[q] /\ cur'[q] = cur[q]
  BY Moves DEF ControlType, Labels, Resting
<1>2. /\ l \notin Busy \cup {"undo"} /\ l \notin Loading /\ l \notin {"none", "reuse", "pin"} /\ l \notin Creating
      /\ at[p] \notin Busy \cup {"undo"} /\ at[p] \notin Loading
      /\ (l \in Pinning \/ l = "pinprog" => p \in loaded)
  BY Zenon DEF RestStep, Resting, Busy, Loading, Creating, Pinning
<1>3. ProcControl(p)'
  BY <1>1, <1>2, Zenon DEF ProcControl, RestStep
<1>4. ~(p \in ok) => (MadeNone(p) => MadeNone(p)') /\ (Empty(p) => Empty(p)')
  BY ObjectConstants, Zenon DEF MadeNone, Empty, RestStep
<1>5. /\ HasMaps(p)' <=> HasMaps(p)
      /\ HasProgs(p)' <=> HasProgs(p)
      /\ l \notin {"fill", "pin"} /\ l \notin {"reloc", "prog"} /\ l # "undo" /\ l \notin Busy
  BY Zenon DEF HasMaps, HasProgs, Resting, Busy, Loading, Creating
<1>6. ProcLoad(p)'
  BY <1>1, <1>2, <1>4, <1>5, Zenon DEF ProcLoad
<1>7. Others(p)
  BY <1>1, ObjectConstants DEF Others, RestStep
<1>8. ProgType'
  BY Zenon DEF ProgType
<1> QED
  BY <1>1, <1>3, <1>6, <1>7, <1>8, StepKeeps, Zenon

(* Starting to pin touches no map. *)
LEMMA PinMapsKeeps ==
    ASSUME ObjectInv, NEW p \in Procs, PinMaps(p)
    PROVE  ObjectInv'
<1>0. MapInv /\ MakerInv /\ ProcControl(p)
  BY OfProc, Zenon
<1>1. /\ at[p] = "idle" /\ p \in loaded
      /\ UNCHANGED <<pins, file, fd, path, pinned, reused, mdef, prog, loaded, ok, maker, cut>>
  BY Zenon DEF PinMaps, object, history
<1> USE <1>0, <1>1
<1>2. PICK l \in {"pinmap", "pinboth"} : Go(p, l, 1)
  BY Zenon DEF PinMaps
<1>3. MapInv' /\ MakerInv'
  BY EffectNone, Zenon DEF mapVars, MakerInv
<1>4. l \in Resting /\ at[p] \in Resting /\ l # "unpinback" /\ l # "unpinprog"
  BY Zenon DEF Resting
<1>5. RestStep(p, l, 1)
  BY <1>2, <1>3, <1>4, Zenon DEF RestStep
<1> QED
  BY <1>5, <1>3, RestKeeps, Zenon

(* Starting to unpin touches no map. *)
LEMMA UnpinMapsKeeps ==
    ASSUME ObjectInv, NEW p \in Procs, UnpinMaps(p)
    PROVE  ObjectInv'
<1>0. MapInv /\ MakerInv /\ ProcControl(p)
  BY OfProc
<1>1. /\ at[p] = "idle" /\ Go(p, "unpinmap", 1)
      /\ UNCHANGED <<pins, file, fd, path, pinned, reused, mdef, prog, loaded, ok, maker, cut>>
  BY Zenon DEF UnpinMaps, object, history
<1> USE <1>0, <1>1
<1>2. MapInv' /\ MakerInv'
  BY EffectNone, Zenon DEF mapVars, MakerInv
<1>3. "unpinmap" \in Resting /\ at[p] \in Resting /\ (p \notin loaded => pinned'[p] = {})
  BY Zenon DEF Resting, ProcControl
<1>4. RestStep(p, "unpinmap", 1)
  BY <1>2, <1>3, Zenon DEF RestStep
<1> QED
  BY <1>4, <1>2, RestKeeps, Zenon

(* Pinning in a directory follows the same rule as pinning in a load. *)
LEMMA PinMapKeeps ==
    ASSUME ObjectInv, NEW p \in Procs, PinMap(p)
    PROVE  ObjectInv'
<1> DEFINE m == cur[p]
           t == MapPath[m]
<1>0. MapInv /\ ControlType /\ MakerInv /\ ProcControl(p) /\ ProcLoad(p)
  BY OfProc, Zenon
<1>1. at[p] \in {"pinmap", "pinboth"} /\ m \in Maps /\ UNCHANGED <<file, fd, reused, mdef, prog, loaded, ok>>
  BY Zenon DEF PinMap
<1>2. p \in loaded /\ at[p] \in Resting /\ m \in Nat /\ m <= NMaps
  BY <1>0, <1>1, ObjectConstants DEF ProcControl, Pinning, Resting, Maps
<1>3. t \in Paths /\ t # None /\ \A j \in Progs : t # ProgPath[j]
  BY <1>1, ObjectConstants, Zenon
<1> USE <1>0, <1>1, <1>2, <1>3
<1>4. PICK l \in Resting, n \in Nat : Go(p, l, n) /\ (l = "unpinback" => n <= NMaps) /\ l # "unpinprog"
  <2>1. ASSUME PinNext(p)
        PROVE  \E l \in Resting, n \in Nat : Go(p, l, n) /\ l # "unpinback" /\ l # "unpinprog"
    <3>1. "pinprog" \in Resting /\ "idle" \in Resting /\ m + 1 \in Nat /\ 1 \in Nat
      BY DEF Resting
    <3> QED
      BY <2>1, <3>1, Zenon DEF PinNext
  <2>2. "unpinback" \in Resting
    BY Zenon DEF Resting
  <2>3. PinNext(p) \/ Go(p, "unpinback", m)
    BY Zenon DEF PinMap
  <2> QED
    BY <2>1, <2>2, <2>3, Zenon
<1>5. CASE UNCHANGED <<pins, path, pinned, history>>
  <2>1. MapInv' /\ MakerInv' /\ UNCHANGED <<maker, cut>>
    BY <1>5, EffectNone, Zenon DEF mapVars, MakerInv, history
  <2>2. RestStep(p, l, n)
    BY <2>1, <1>4, <1>5, Zenon DEF RestStep
  <2> QED
    BY <2>2, <2>1, RestKeeps, Zenon
<1>6. CASE /\ ~PinRefused(p, m, t) /\ ~PinDone(p, m, t)
           /\ path' = [path EXCEPT ![p][m] = t]
           /\ PinAt(p, t, fd[p][m]) /\ Pinned(p, m)
  <2>1. m \notin pinned[p]
    BY <1>6, Zenon DEF PinRefused, PinDone
  <2>2. MapInv'
    BY <2>1, <1>6, EffectPin, Zenon
  <2>3. /\ \A q \in Procs : q # p => path'[q] = path[q] /\ pinned'[q] = pinned[q]
        /\ \A u \in Paths : u # t => maker'[u] = maker[u] /\ pins'[u] = pins[u]
        /\ maker'[t] = p /\ pins'[t] # None
    BY <1>6, Zenon DEF PinAt, Pinned, MapInv, MapsType, FlagsType, PinType
  <2>4. p \in ok
    BY <1>6, Zenon DEF ProcLoad, Empty, PinAt, Resting, Busy, Loading, Creating
  <2>5. MakerInv'
    BY <2>3, Zenon DEF MakerInv
  <2>6. RestStep(p, l, n)
    BY <2>2, <2>3, <2>4, <2>5, <1>4, Zenon DEF RestStep
  <2> QED
    BY <2>6, <2>2, <2>5, RestKeeps, Zenon
<1>7. CASE /\ ~PinRefused(p, m, t) /\ ~PinDone(p, m, t)
           /\ path' = [path EXCEPT ![p][m] = t]
           /\ UNCHANGED <<pins, pinned, history>>
  <2>0. UNCHANGED <<pins, pinned, maker, cut>>
    BY <1>7, Zenon DEF history
  <2>1. m \notin pinned[p]
    BY <1>7, Zenon DEF PinRefused, PinDone
  <2>2. \A q \in Procs, n1 \in Maps : path'[q][n1] = IF q = p /\ n1 = m THEN t ELSE path[q][n1]
    BY <1>7, Zenon DEF MapInv, MapsType
  <2>3. MapInv'
    <3>1. PinType' /\ MapsType' /\ FlagsType'
      BY <2>0, <1>7, Zenon DEF MapInv, PinType, MapsType, FlagsType
    <3>2. FieldInv'
      BY <2>0, <2>1, <2>2 DEF MapInv, FieldInv
    <3>3. PinInv'
      BY <2>0, <2>1, <2>2 DEF MapInv, PinInv
    <3> QED
      BY <3>1, <3>2, <3>3, Zenon DEF MapInv
  <2>4. MakerInv' /\ \A q \in Procs : q # p => path'[q] = path[q]
    BY <2>0, <1>7, Zenon DEF MakerInv, MapInv, MapsType
  <2>5. RestStep(p, l, n)
    BY <2>0, <2>3, <2>4, <1>4, Zenon DEF RestStep
  <2> QED
    BY <2>5, <2>3, <2>4, RestKeeps, Zenon
<1> QED
  BY <1>5, <1>6, <1>7, Zenon DEF PinMap

(* The rollback tells every other map pinned there. *)
LEMMA UnpinBackKeeps ==
    ASSUME ObjectInv, NEW p \in Procs, UnpinBack(p)
    PROVE  ObjectInv'
<1> DEFINE m == cur[p] - 1
           t == path[p][m]
<1>0. MapInv /\ ControlType /\ MakerInv /\ ProcControl(p)
  BY OfProc, Zenon
<1>1. at[p] = "unpinback" /\ UNCHANGED <<file, fd, path, reused, mdef, prog, loaded, ok>>
  BY Zenon DEF UnpinBack
<1>2. cur[p] \in Nat /\ cur[p] <= NMaps /\ NMaps \in Nat
  BY <1>0, <1>1, ObjectConstants, Zenon DEF ControlType, ProcControl
<1>3. {"idle", "unpinback"} \subseteq Resting /\ at[p] \in Resting /\ (p \notin loaded => pinned[p] = {})
  BY <1>0, <1>1, Zenon DEF Resting, ProcControl
<1> USE <1>0, <1>1, <1>2, <1>3
<1>4. ASSUME NEW l \in {"idle", "unpinback"}, NEW n \in Nat, Go(p, l, n), l = "unpinback" => n <= NMaps,
             UNCHANGED <<pins, pinned, history>>
      PROVE  ObjectInv'
  <2>1. MapInv' /\ MakerInv' /\ UNCHANGED <<maker, cut>>
    BY <1>4, EffectNone, Zenon DEF mapVars, MakerInv, history
  <2>2. RestStep(p, l, n)
    BY <2>1, <1>4, Zenon DEF RestStep
  <2> QED
    BY <2>2, <2>1, RestKeeps, Zenon
<1>5. CASE cur[p] <= 1
  BY <1>4, <1>5, Zenon DEF UnpinBack
<1>6. CASE ~(cur[p] <= 1)
  <2>1. m \in Maps /\ m \in Nat /\ m <= NMaps
    BY <1>6 DEF Maps
  <2>2. Go(p, "unpinback", m)
    BY <1>6, Zenon DEF UnpinBack
  <2>3. CASE t # None /\ Unlink(p, m, t)
    <3>1. t \in Paths
      BY <2>1, <2>3 DEF MapInv, MapsType
    <3>2. MapInv'
      BY <3>1, <2>1, <2>3, EffectUnlink, Zenon
    <3>3. /\ pinned'[p] = pinned[p] \ {m}
          /\ \A q \in Procs : q # p => pinned'[q] = pinned[q]
          /\ \A u \in Paths : maker'[u] # None => maker'[u] = maker[u]
          /\ MakerInv'
      BY <3>1, <2>3, UnlinkFacts, Zenon
    <3>4. p \notin loaded => pinned'[p] = {}
      BY <3>3, Zenon
    <3>5. RestStep(p, "unpinback", m)
      BY <3>2, <3>3, <3>4, <2>1, <2>2, Zenon DEF RestStep
    <3> QED
      BY <3>5, <3>2, <3>3, RestKeeps, Zenon
  <2>4. CASE UNCHANGED <<pins, pinned, history>>
    BY <2>1, <2>2, <2>4, <1>4, Zenon
  <2> QED
    BY <2>3, <2>4, <1>6, Zenon DEF UnpinBack
<1> QED
  BY <1>5, <1>6, Zenon

(* Unpinning by path tells every map pinned there. *)
LEMMA UnpinMapKeeps ==
    ASSUME ObjectInv, NEW p \in Procs, UnpinMap(p)
    PROVE  ObjectInv'
<1> DEFINE m == cur[p]
           t == MapPath[m]
<1>0. MapInv /\ ControlType /\ MakerInv /\ ProcControl(p)
  BY OfProc
<1>1. at[p] = "unpinmap" /\ m \in Maps /\ UNCHANGED <<file, fd, path, reused, mdef, prog, loaded, ok>>
  BY Zenon DEF UnpinMap
<1>2. t \in Paths /\ m + 1 \in Nat
  BY <1>1, ObjectConstants
<1>3. {"idle", "unpinmap"} \subseteq Resting /\ at[p] \in Resting /\ (p \notin loaded => pinned[p] = {})
  BY <1>0, <1>1, Zenon DEF Resting, ProcControl
<1> USE <1>0, <1>1, <1>2, <1>3
<1>4. PICK l \in {"idle", "unpinmap"}, n \in Nat : Go(p, l, n)
  BY Zenon DEF UnpinMap
<1>5. CASE UNCHANGED <<pins, pinned, history>>
  <2>1. MapInv' /\ MakerInv' /\ UNCHANGED <<maker, cut>>
    BY <1>5, EffectNone, Zenon DEF mapVars, MakerInv, history
  <2>2. RestStep(p, l, n)
    BY <2>1, <1>4, <1>5, Zenon DEF RestStep
  <2> QED
    BY <2>2, <2>1, RestKeeps, Zenon
<1>6. CASE Unlink(p, m, t)
  <2>1. MapInv'
    BY <1>6, EffectUnlink, Zenon
  <2>2. /\ pinned'[p] = pinned[p] \ {m}
        /\ \A q \in Procs : q # p => pinned'[q] = pinned[q]
        /\ \A u \in Paths : maker'[u] # None => maker'[u] = maker[u]
        /\ MakerInv'
    BY <1>6, UnlinkFacts, Zenon
  <2>3. p \notin loaded => pinned'[p] = {}
    BY <2>2, Zenon
  <2>4. RestStep(p, l, n)
    BY <2>1, <2>2, <2>3, <1>4, Zenon DEF RestStep
  <2> QED
    BY <2>4, <2>1, <2>2, RestKeeps, Zenon
<1> QED
  BY <1>5, <1>6, Zenon DEF UnpinMap

(* A program is pinned where no map is, and only if it is loaded. *)
LEMMA PinProgKeeps ==
    ASSUME ObjectInv, NEW p \in Procs, PinProg(p)
    PROVE  ObjectInv'
<1> DEFINE j == cur[p]
           t == ProgPath[j]
           k == prog[p][j]
<1>0. MapInv /\ ProgType /\ ControlType /\ MakerInv /\ ProcControl(p) /\ ProcLoad(p)
  BY OfProc
<1>1. /\ at[p] = "pinprog" /\ j \in Progs
      /\ UNCHANGED <<file, fd, path, pinned, reused, mdef, prog, loaded, ok, cut>>
  BY Zenon DEF PinProg, object
<1>2. p \in loaded /\ at[p] \in Resting /\ {"idle", "pinprog", "unpinprog"} \subseteq Resting
  BY <1>0, <1>1, Zenon DEF ProcControl, Resting
<1>3. t \in Paths /\ k \in Ids \cup {None} /\ j \in Nat /\ j + 1 \in Nat /\ j <= NProgs
  BY <1>0, <1>1, ObjectConstants DEF ProgType, Progs
<1> USE <1>0, <1>1, <1>2, <1>3
<1>4. PICK l \in {"idle", "pinprog", "unpinprog"}, n \in Nat : Go(p, l, n) /\ (l = "unpinprog" => n <= NProgs)
  BY Zenon DEF PinProg
<1>5. CASE UNCHANGED <<pins, maker>>
  <2>1. MapInv' /\ MakerInv'
    BY <1>5, EffectNone, Zenon DEF mapVars, MakerInv
  <2>2. RestStep(p, l, n)
    BY <2>1, <1>4, <1>5, Zenon DEF RestStep
  <2> QED
    BY <2>2, <2>1, RestKeeps, Zenon
<1>6. CASE PinAt(p, t, k)
  <2>1. MapInv'
    BY <1>6, EffectProg, Zenon DEF PinAt
  <2>2. /\ maker'[t] = p /\ pins'[t] # None
        /\ \A u \in Paths : u # t => maker'[u] = maker[u] /\ pins'[u] = pins[u]
    BY <1>6, Zenon DEF PinAt, MapInv, PinType
  <2>3. p \in ok
    BY <1>6, Zenon DEF ProcLoad, Empty, PinAt, Busy, Loading, Creating
  <2>4. MakerInv'
    BY <2>2, Zenon DEF MakerInv
  <2>5. RestStep(p, l, n)
    BY <2>1, <2>2, <2>3, <2>4, <1>4, Zenon DEF RestStep
  <2> QED
    BY <2>5, <2>1, <2>4, RestKeeps, Zenon
<1> QED
  BY <1>5, <1>6, Zenon DEF PinProg

(* A program's path is no map's. *)
LEMMA UnpinProgKeeps ==
    ASSUME ObjectInv, NEW p \in Procs, UnpinProg(p)
    PROVE  ObjectInv'
<1> DEFINE j == cur[p] - 1
           t == ProgPath[j]
<1>0. MapInv /\ ControlType /\ MakerInv /\ ProcControl(p)
  BY OfProc
<1>1. at[p] = "unpinprog" /\ UNCHANGED <<file, fd, path, pinned, reused, mdef, prog, loaded, ok, cut>>
  BY Zenon DEF UnpinProg, object
<1>2. cur[p] \in Nat /\ cur[p] <= NProgs /\ NProgs \in Nat
  BY <1>0, <1>1, ObjectConstants, Zenon DEF ControlType, ProcControl
<1>3. /\ {"unpinmap", "unpinprog"} \subseteq Resting /\ at[p] \in Resting
      /\ p \notin loaded => pinned[p] = {}
  BY <1>0, <1>1, Zenon DEF Resting, ProcControl
<1> USE <1>0, <1>1, <1>2, <1>3
<1>4. CASE cur[p] <= 1
  <2>1. Go(p, "unpinmap", 1) /\ UNCHANGED <<pins, maker>>
    BY <1>4, Zenon DEF UnpinProg
  <2>2. MapInv' /\ MakerInv'
    BY <2>1, EffectNone, Zenon DEF mapVars, MakerInv
  <2>3. RestStep(p, "unpinmap", 1)
    BY <2>1, <2>2, Zenon DEF RestStep
  <2> QED
    BY <2>3, <2>2, RestKeeps, Zenon
<1>5. CASE ~(cur[p] <= 1)
  <2>1. /\ Go(p, "unpinprog", j)
        /\ pins' = [pins EXCEPT ![t] = None] /\ maker' = [maker EXCEPT ![t] = None]
    BY <1>5, Zenon DEF UnpinProg
  <2>2. j \in Progs /\ j \in Nat /\ j <= NProgs
    BY <1>5 DEF Progs
  <2>3. MapInv'
    BY <2>1, <2>2, EffectProg, Zenon
  <2>4. t \in Paths /\ \A u \in Paths : maker'[u] # None => maker'[u] = maker[u] /\ pins'[u] = pins[u]
    BY <2>1, <2>2, ObjectConstants, Zenon DEF MapInv, PinType
  <2>5. MakerInv'
    BY <2>4, Zenon DEF MakerInv
  <2>6. RestStep(p, "unpinprog", j)
    BY <2>1, <2>2, <2>3, <2>4, <2>5, Zenon DEF RestStep
  <2> QED
    BY <2>6, <2>3, <2>5, RestKeeps, Zenon
<1> QED
  BY <1>4, <1>5, Zenon


-----------------------------------------------------------------------------
(***************************************************************************)
(* The steps of a load.  Each leaves p placed: where the invariants of its *)
(* place hold.                                                             *)
(***************************************************************************)
Placed(p) ==
    /\ ControlType' /\ ProcControl(p)' /\ ProcLoad(p)'
    /\ \A q \in Procs : q # p => at'[q] = at[q] /\ cur'[q] = cur[q]

(* p is done with its current map. *)
LEMMA NextMapPlaces ==
    ASSUME ControlType, NEW p \in Procs, cur[p] \in Maps, p \in loaded, p \notin ok,
           UNCHANGED <<file, loaded, ok>>, NextMap(p),
           \A m \in Maps : m <= cur[p] => fd'[p][m] # None,
           \A m \in pinned'[p] : m \in Maps /\ m <= cur[p],
           \A m \in reused'[p] : fd'[p][m] # None,
           MadeFrom(p, 1)'
    PROVE  Placed(p)
<1>1. cur[p] \in Nat /\ NMaps \in Nat /\ \A m \in Maps : m \in Nat /\ m <= NMaps
  BY ObjectConstants DEF ControlType, Maps
<1>2. PICK l \in {"reloc", "get"}, n \in Nat :
        /\ Go(p, l, n)
        /\ l = "reloc" => cur[p] = NMaps
        /\ l = "get" => n = cur[p] + 1
  BY <1>1 DEF NextMap
<1>3. /\ ControlType' /\ at'[p] = l /\ cur'[p] = n
      /\ \A q \in Procs : q # p => at'[q] = at[q] /\ cur'[q] = cur[q]
  BY <1>2, Moves DEF ControlType, Labels
<1>4. ProcControl(p)'
  BY <1>1, <1>2, <1>3 DEF ProcControl, Loading, Creating, Pinning
<1>5. l = "reloc" => HasMaps(p)'
  BY <1>1, <1>2, Zenon DEF HasMaps
<1>6. l = "get" => \A m \in Maps : m < n => fd'[p][m] # None
  BY <1>1, <1>2
<1>7. ProcLoad(p)'
  BY <1>2, <1>3, <1>5, <1>6, Zenon DEF ProcLoad, Busy, Loading, Creating
<1> QED
  BY <1>3, <1>4, <1>7, Zenon DEF Placed

(* p has one more step to take with its current map. *)
LEMMA SameMapPlaces ==
    ASSUME ControlType, NEW p \in Procs, NEW l \in Creating, cur[p] \in Maps, p \in loaded, p \notin ok,
           UNCHANGED <<file, loaded, ok>>, Label(p, l),
           \A m \in Maps : m < cur[p] => fd'[p][m] # None,
           \A m \in pinned'[p] : m < cur[p],
           \A m \in reused'[p] : fd'[p][m] # None,
           l # "create" => fd'[p][cur[p]] # None,
           l = "pin" => path'[p][cur[p]] # None,
           cur[p] \notin reused'[p], MadeFrom(p, 1)'
    PROVE  Placed(p)
<1>1. l \in {"create", "fill", "pin"}
  BY Zenon DEF Creating
<1>2. /\ ControlType' /\ at'[p] = l /\ cur'[p] = cur[p]
      /\ \A q \in Procs : q # p => at'[q] = at[q] /\ cur'[q] = cur[q]
  BY <1>1, LabelMoves, Moves DEF ControlType, Labels
<1>3. ProcControl(p)'
  BY <1>1, <1>2, Zenon DEF ProcControl, Loading, Creating, Pinning
<1>4. ProcLoad(p)'
  BY <1>1, <1>2, Zenon DEF ProcLoad, Busy, Loading, Creating
<1> QED
  BY <1>2, <1>3, <1>4, Zenon DEF Placed

(* The load of p has failed: the rollback starts with all it has to undo. *)
LEMMA FailLoadPlaces ==
    ASSUME ControlType, NEW p \in Procs, p \in loaded, p \notin ok,
           UNCHANGED <<file, loaded, ok>>, FailLoad(p), MadeFrom(p, 1)'
    PROVE  Placed(p)
<1>1. /\ ControlType' /\ at'[p] = "undo" /\ cur'[p] = 1
      /\ \A q \in Procs : q # p => at'[q] = at[q] /\ cur'[q] = cur[q]
  BY Moves, Zenon DEF ControlType, Labels, FailLoad
<1>2. ProcControl(p)'
  BY <1>1, Zenon DEF ProcControl, Loading, Creating, Pinning
<1>3. ProcLoad(p)'
  BY <1>1, Zenon DEF ProcLoad, Busy, Loading, Creating
<1> QED
  BY <1>1, <1>2, <1>3, Zenon DEF Placed

(* Pins and flags that stay as they are can still be found. *)
LEMMA SameMade ==
    ASSUME NEW p \in Procs, NEW i, MadeFrom(p, i), UNCHANGED <<maker, pinned, reused, path>>
    PROVE  MadeFrom(p, i)'
  BY Zenon DEF MadeFrom, Undoes

(* A load starts with nothing of its own. *)
LEMMA LoadKeeps ==
    ASSUME ObjectInv, NEW p \in Procs, Load(p)
    PROVE  ObjectInv'
<1>0. MapInv /\ ProgType /\ ControlType /\ MakerInv /\ ProcControl(p) /\ ProcLoad(p)
  BY OfProc, Zenon
<1>1. /\ at[p] = "idle" /\ p \notin loaded /\ loaded' = loaded \cup {p}
      /\ UNCHANGED <<pins, file, fd, path, pinned, reused, mdef, prog, ok, maker, cut>>
  BY Zenon DEF Load, history
<1> USE <1>0, <1>1
<1>2. PICK l \in {"get", "undo"} : Go(p, l, 1)
  BY Zenon DEF Load
<1>3. /\ ControlType' /\ at'[p] = l /\ cur'[p] = 1
      /\ \A q \in Procs : q # p => at'[q] = at[q] /\ cur'[q] = cur[q]
  BY <1>2, Moves DEF ControlType, Labels
<1>4. pinned[p] = {} /\ p \notin ok /\ MadeNone(p) /\ \A m \in reused[p] : fd[p][m] # None
  BY Zenon DEF ProcControl, ProcLoad
<1>5. Others(p)
  BY <1>3, Zenon DEF Others
<1>6. ProcControl(p)'
  BY <1>2, <1>3, <1>4, Zenon DEF ProcControl, Loading, Creating, Pinning
<1>7. ProcLoad(p)'
  <2>1. MadeFrom(p, 1)'
    BY <1>4, Zenon DEF MadeNone, MadeFrom
  <2>2. \A m \in Maps : ~(m < 1)
    BY DEF Maps
  <2> QED
    BY <2>1, <2>2, <1>2, <1>3, <1>4, Zenon DEF ProcLoad, Busy, Loading, Creating
<1>8. MapInv'
  BY EffectNone, Zenon DEF mapVars
<1>9. ProgType' /\ MakerInv'
  BY Zenon DEF ProgType, MakerInv
<1> QED
  BY <1>3, <1>5, <1>6, <1>7, <1>8, <1>9, StepKeeps, Zenon

(* A step of a load that changes only the maps of p, and pins nothing. *)
LEMMA LoadStepKeeps ==
    ASSUME ObjectInv, NEW p \in Procs, Placed(p), MapInv',
           \A q \in Procs : q # p => fd'[q] = fd[q] /\ reused'[q] = reused[q] /\ pinned'[q] = pinned[q],
           UNCHANGED <<pins, path, prog, loaded, ok, maker>>
    PROVE  ObjectInv'
<1>1. Others(p)
  BY Zenon DEF Others, Placed
<1>2. ProgType' /\ MakerInv'
  BY Zenon DEF ObjectInv, ProgType, MakerInv
<1> QED
  BY <1>1, <1>2, StepKeeps, Zenon DEF Placed

(* A map found at its path is the kernel object pinned there. *)
LEMMA MapGetKeeps ==
    ASSUME ObjectInv, NEW p \in Procs, MapGet(p)
    PROVE  ObjectInv'
<1> DEFINE m == cur[p]
           t == path[p][m]
<1>0. MapInv /\ ProgType /\ ControlType /\ MakerInv /\ ProcControl(p) /\ ProcLoad(p)
  BY OfProc
<1>1. at[p] = "get" /\ m \in Maps /\ UNCHANGED <<pins, file, path, prog, loaded, ok, maker>>
  BY Zenon DEF MapGet
<1>2. /\ p \in loaded /\ p \notin ok /\ MadeFrom(p, 1)
      /\ \A i \in Maps : i < m => fd[p][i] # None
      /\ \A i \in reused[p] : fd[p][i] # None
      /\ \A i \in pinned[p] : i < m
  BY <1>0, <1>1, Zenon DEF ProcControl, ProcLoad, Busy, Loading, Creating
<1>3. m \in Nat /\ pinned[p] \subseteq Maps /\ reused[p] \subseteq Maps /\ \A i \in Maps : i \in Nat
  BY <1>0, ObjectConstants, Zenon DEF ControlType, MapInv, FlagsType
<1> USE <1>0, <1>1, <1>2, <1>3
<1>4. CASE UNCHANGED <<fd, mdef, reused, pinned, cut>>
  <2>1. MadeFrom(p, 1)'
    BY <1>4, SameMade, ZenonT(40)
  <2>2. ASSUME fd[p][m] # None, NextMap(p) PROVE Placed(p)
    BY <2>1, <2>2, <1>4, NextMapPlaces
  <2>3. ASSUME fd[p][m] = None, Label(p, "create") PROVE Placed(p)
    BY <2>1, <2>3, <1>4, SameMapPlaces, Zenon DEF Creating
  <2>4. ASSUME FailLoad(p) PROVE Placed(p)
    BY <2>1, <2>4, FailLoadPlaces, Zenon
  <2>5. Placed(p)
    <3>1. \/ fd[p][m] # None /\ NextMap(p)
          \/ fd[p][m] = None /\ Label(p, "create")
          \/ FailLoad(p)
          \/ ReuseFd(p, m, pins[t]) /\ NextMap(p) /\ pins[t] # None
      BY Zenon DEF MapGet
    <3>2. ASSUME ReuseFd(p, m, pins[t]), pins[t] # None PROVE fd[p][m] # None
      <4>1. fd'[p][m] = pins[t]
        BY <3>2, Zenon DEF ReuseFd, MapInv, MapsType
      <4> QED
        BY <4>1, <3>2, <1>4, Zenon
    <3> QED
      BY <3>1, <3>2, <2>2, <2>3, <2>4, Zenon
  <2>6. MapInv'
    BY <1>4, EffectNone, Zenon DEF mapVars
  <2> QED
    BY <2>5, <2>6, <1>4, LoadStepKeeps, Zenon
<1>5. CASE t # None /\ pins[t] # None /\ ReuseFd(p, m, pins[t]) /\ Pinned(p, m) /\ NextMap(p)
  <2>1. /\ fd'[p][m] = pins[t] /\ \A i \in Maps : i # m => fd'[p][i] = fd[p][i]
        /\ reused'[p] = reused[p] \cup {m} /\ pinned'[p] = pinned[p] \cup {m}
        /\ \A q \in Procs : q # p => fd'[q] = fd[q] /\ reused'[q] = reused[q] /\ pinned'[q] = pinned[q]
    BY <1>5, ZenonT(40) DEF ReuseFd, Pinned, MapInv, MapsType, FlagsType
  <2>2. MadeFrom(p, 1)'
    BY <2>1 DEF MadeFrom, Undoes
  <2>3. /\ \A i \in Maps : i <= m => fd'[p][i] # None
        /\ \A i \in pinned'[p] : i \in Maps /\ i <= m
        /\ \A i \in reused'[p] : fd'[p][i] # None
    BY <2>1, <1>5
  <2>4. Placed(p)
    BY <2>2, <2>3, <1>5, NextMapPlaces, Zenon
  <2>5. MapInv'
    BY <1>5, EffectReuse, Zenon
  <2> QED
    BY <2>1, <2>4, <2>5, LoadStepKeeps, Zenon
<1> QED
  BY <1>4, <1>5, Zenon DEF MapGet

(* Closing the maps up to i keeps what is said of maps and pins. *)
LEMMA CloseUpToEffect ==
    ASSUME MapInv, NEW p \in Procs, NEW m, CloseUpTo(p, m),
           UNCHANGED <<path, mdef, pinned, reused, cut, pins, maker>>
    PROVE  MapInv' /\ \A q \in Procs : q # p => fd'[q] = fd[q]
<1>1. {i \in Maps : i <= m} \in SUBSET Maps
  BY Zenon
<1>2. fd' = [fd EXCEPT ![p] = [i \in Maps |-> IF i \in {i2 \in Maps : i2 <= m} THEN None ELSE fd[p][i]]]
  BY Zenon DEF CloseUpTo, MapInv, MapsType
<1>3. MapInv'
  BY <1>1, <1>2, EffectClose, Zenon
<1>4. \A q \in Procs : q # p => fd'[q] = fd[q]
  BY Zenon DEF CloseUpTo, MapInv, MapsType
<1> QED
  BY <1>3, <1>4, Zenon

(* A map made and filled is pinned next, or the next map is looked at. *)
LEMMA ThenPinPlaces ==
    ASSUME ControlType, NEW p \in Procs, cur[p] \in Maps, p \in loaded, p \notin ok,
           UNCHANGED <<file, path, pinned, loaded, ok>>, ThenPin(p),
           pinned[p] \subseteq Maps,
           \A m \in Maps : m <= cur[p] => fd'[p][m] # None,
           \A m \in pinned[p] : m < cur[p],
           \A m \in reused'[p] : fd'[p][m] # None,
           cur[p] \notin reused'[p], MadeFrom(p, 1)'
    PROVE  Placed(p)
<1>1. cur[p] \in Nat /\ \A m \in Maps : m \in Nat
  BY ObjectConstants, Zenon DEF ControlType
<1>2. CASE path[p][cur[p]] # None /\ Label(p, "pin")
  BY <1>1, <1>2, SameMapPlaces DEF Creating
<1>3. CASE NextMap(p)
  BY <1>1, <1>3, NextMapPlaces
<1> QED
  BY <1>2, <1>3, Zenon DEF ThenPin

(* A map being created is not pinned yet. *)
LEMMA MapCreateKeeps ==
    ASSUME ObjectInv, NEW p \in Procs, MapCreate(p)
    PROVE  ObjectInv'
<1> DEFINE m == cur[p]
<1>0. MapInv /\ ProgType /\ ControlType /\ MakerInv /\ ProcControl(p) /\ ProcLoad(p)
  BY OfProc
<1>1. /\ at[p] = "create" /\ m \in Maps
      /\ UNCHANGED <<pins, file, path, pinned, reused, mdef, prog, loaded, ok, maker, cut>>
  BY Zenon DEF MapCreate, history
<1>2. /\ p \in loaded /\ p \notin ok /\ MadeFrom(p, 1) /\ m \notin reused[p]
      /\ \A i \in Maps : i < m => fd[p][i] # None
      /\ \A i \in reused[p] : fd[p][i] # None
      /\ \A i \in pinned[p] : i < m
  BY <1>0, <1>1, Zenon DEF ProcControl, ProcLoad, Busy, Loading, Creating
<1>3. m \in Nat /\ pinned[p] \subseteq Maps /\ reused[p] \subseteq Maps /\ \A i \in Maps : i \in Nat
  BY <1>0, ObjectConstants DEF ControlType, MapInv, FlagsType
<1>4. MadeFrom(p, 1)'
  BY <1>1, <1>2, SameMade, Zenon
<1> USE <1>0, <1>1, <1>2, <1>3, <1>4
<1>5. ASSUME NEW k \in New(mdef[p][m]), fd' = [fd EXCEPT ![p][m] = k],
             IF m \in file[p].data THEN Label(p, "fill") ELSE ThenPin(p)
      PROVE  ObjectInv'
  <2>1. mdef[p][m] \in Defs \cup {"prog"}
    BY DEF MapInv, MapsType
  <2>2. k \in Ids /\ KernelDef(k) = mdef[p][m] /\ k # None
    BY <2>1, <1>5, NewObject, ObjectConstants, Zenon
  <2>3. /\ fd'[p][m] = k /\ \A i \in Maps : i # m => fd'[p][i] = fd[p][i]
        /\ \A q \in Procs : q # p => fd'[q] = fd[q]
    BY <1>5, Zenon DEF MapInv, MapsType
  <2>4. /\ \A i \in Maps : i <= m => fd'[p][i] # None
        /\ \A i \in reused'[p] : fd'[p][i] # None
    BY <2>2, <2>3
  <2>5. ASSUME Label(p, "fill") PROVE Placed(p)
    BY <2>4, <2>5, SameMapPlaces DEF Creating
  <2>6. ASSUME ThenPin(p) PROVE Placed(p)
    BY <2>4, <2>6, ThenPinPlaces, Zenon
  <2>7. MapInv'
    <3>1. mdef' = [mdef EXCEPT ![p][m] = mdef[p][m]]
      BY Zenon DEF MapInv, MapsType
    <3>2. m \notin pinned[p]
      OBVIOUS
    <3> QED
      BY <3>1, <3>2, <2>2, <1>5, EffectOpen, ZenonT(40)
  <2> QED
    BY <2>3, <2>5, <2>6, <2>7, <1>5, LoadStepKeeps, Zenon
<1>6. ASSUME CloseUpTo(p, m), FailLoad(p)
      PROVE  ObjectInv'
  <2>1. Placed(p)
    BY <1>6, FailLoadPlaces, Zenon
  <2>2. MapInv' /\ \A q \in Procs : q # p => fd'[q] = fd[q]
    BY <1>6, CloseUpToEffect, Zenon
  <2> QED
    BY <2>1, <2>2, LoadStepKeeps, Zenon
<1> QED
  BY <1>5, <1>6, Zenon DEF MapCreate

(* Filling a map changes no pin. *)
LEMMA MapFillKeeps ==
    ASSUME ObjectInv, NEW p \in Procs, MapFill(p)
    PROVE  ObjectInv'
<1> DEFINE m == cur[p]
<1>0. MapInv /\ ProgType /\ ControlType /\ MakerInv /\ ProcControl(p) /\ ProcLoad(p)
  BY OfProc
<1>1. /\ at[p] = "fill" /\ m \in Maps
      /\ UNCHANGED <<pins, file, path, pinned, reused, mdef, prog, loaded, ok, maker, cut>>
  BY Zenon DEF MapFill, history
<1>2. /\ p \in loaded /\ p \notin ok /\ MadeFrom(p, 1) /\ m \notin reused[p] /\ fd[p][m] # None
      /\ \A i \in Maps : i < m => fd[p][i] # None
      /\ \A i \in reused[p] : fd[p][i] # None
      /\ \A i \in pinned[p] : i < m
  BY <1>0, <1>1, Zenon DEF ProcControl, ProcLoad, Busy, Loading, Creating
<1>3. m \in Nat /\ pinned[p] \subseteq Maps /\ \A i \in Maps : i \in Nat
  BY <1>0, ObjectConstants, Zenon DEF ControlType, MapInv, FlagsType
<1>4. MadeFrom(p, 1)'
  BY <1>1, <1>2, SameMade, Zenon
<1> USE <1>0, <1>1, <1>2, <1>3, <1>4
<1>5. CASE ThenPin(p) /\ UNCHANGED fd
  <2>1. \A i \in Maps : i <= m => fd'[p][i] # None
    BY <1>5
  <2>2. Placed(p)
    BY <2>1, <1>5, ThenPinPlaces, Zenon
  <2>3. MapInv'
    BY <1>5, EffectNone, Zenon DEF mapVars
  <2> QED
    BY <2>2, <2>3, <1>5, LoadStepKeeps, Zenon
<1>6. CASE CloseUpTo(p, m) /\ FailLoad(p)
  <2>1. Placed(p)
    BY <1>6, FailLoadPlaces, Zenon
  <2>2. MapInv' /\ \A q \in Procs : q # p => fd'[q] = fd[q]
    BY <1>6, CloseUpToEffect, Zenon
  <2> QED
    BY <2>1, <2>2, LoadStepKeeps, Zenon
<1> QED
  BY <1>5, <1>6, Zenon DEF MapFill

(* A pin is made only where there is none, and the rollback can find it. *)
LEMMA MapPinKeeps ==
    ASSUME ObjectInv, NEW p \in Procs, MapPin(p)
    PROVE  ObjectInv'
<1> DEFINE m == cur[p]
           t == path[p][m]
<1>0. MapInv /\ ProgType /\ ControlType /\ MakerInv /\ ProcControl(p) /\ ProcLoad(p)
  BY OfProc
<1>1. at[p] = "pin" /\ m \in Maps /\ UNCHANGED <<file, fd, path, reused, mdef, prog, loaded, ok>>
  BY Zenon DEF MapPin
<1>2. /\ p \in loaded /\ p \notin ok /\ MadeFrom(p, 1) /\ m \notin reused[p] /\ fd[p][m] # None
      /\ \A i \in Maps : i < m => fd[p][i] # None
      /\ \A i \in reused[p] : fd[p][i] # None
      /\ \A i \in pinned[p] : i < m
      /\ t # None
  BY <1>0, <1>1, Zenon DEF ProcControl, ProcLoad, Busy, Loading, Creating
<1>3. m \in Nat /\ pinned[p] \subseteq Maps /\ \A i \in Maps : i \in Nat
  BY <1>0, ObjectConstants DEF ControlType, MapInv, FlagsType
<1>4. t \in Paths /\ \A j \in Progs : t # ProgPath[j]
  BY <1>0, <1>1, <1>2 DEF MapInv, MapsType, FieldInv
<1> USE <1>0, <1>1, <1>2, <1>3, <1>4
<1>5. CASE PinAt(p, t, fd[p][m]) /\ Pinned(p, m) /\ NextMap(p)
  <2>1. /\ pinned'[p] = pinned[p] \cup {m}
        /\ \A q \in Procs : q # p => pinned'[q] = pinned[q]
    BY <1>5, Zenon DEF Pinned, MapInv, FlagsType
  <2>2. maker'[t] = p /\ pins'[t] # None /\ \A u \in Paths : u # t => maker'[u] = maker[u] /\ pins'[u] = pins[u]
    BY <1>5, ZenonT(40) DEF PinAt, MapInv, PinType
  <2>3. MadeFrom(p, 1)'
    <3>1. m >= 1
      BY DEF Maps
    <3> QED
      BY <3>1, <2>1, <2>2 DEF MadeFrom, Undoes
  <2>4. /\ \A i \in Maps : i <= m => fd'[p][i] # None
        /\ \A i \in pinned'[p] : i \in Maps /\ i <= m
    BY <2>1
  <2>5. Placed(p)
    BY <2>3, <2>4, <1>5, NextMapPlaces, Zenon
  <2>6. Others(p)
    BY <2>1, <2>2, <2>5, Zenon DEF Placed, Others
  <2>7. MapInv'
    <3>1. path' = [path EXCEPT ![p][m] = t]
      BY Zenon DEF MapInv, MapsType
    <3>2. m \notin pinned[p]
      OBVIOUS
    <3> QED
      BY <3>1, <3>2, <1>5, EffectPin, Zenon
  <2>8. ProgType' /\ MakerInv'
    BY <2>2, Zenon DEF ProgType, MakerInv
  <2> QED
    BY <2>5, <2>6, <2>7, <2>8, StepKeeps, Zenon DEF Placed
<1>6. CASE FailLoad(p) /\ UNCHANGED <<pins, pinned, history>>
  <2>1. UNCHANGED <<maker, cut>> /\ MadeFrom(p, 1)'
    BY <1>6, SameMade, Zenon DEF history
  <2>2. Placed(p)
    BY <2>1, <1>6, FailLoadPlaces, Zenon
  <2>3. MapInv'
    BY <2>1, <1>6, EffectNone, Zenon DEF mapVars
  <2> QED
    BY <2>1, <2>2, <2>3, <1>6, LoadStepKeeps, Zenon
<1> QED
  BY <1>5, <1>6, Zenon DEF MapPin

(* p has its maps, and goes on with its programs or is done. *)
LEMMA ProgPlaces ==
    ASSUME ControlType, NEW p \in Procs, NEW l \in {"prog", "idle"}, NEW n \in Nat, Go(p, l, n),
           p \in loaded, UNCHANGED <<file, loaded>>, HasMaps(p)', MadeFrom(p, 1)',
           l = "prog" => p \notin ok /\ UNCHANGED ok /\ \A j \in Progs : j < n => prog'[p][j] # None,
           l = "idle" => ok' = ok \cup {p} /\ HasProgs(p)'
    PROVE  Placed(p)
<1>1. /\ ControlType' /\ at'[p] = l /\ cur'[p] = n
      /\ \A q \in Procs : q # p => at'[q] = at[q] /\ cur'[q] = cur[q]
  BY Moves DEF ControlType, Labels
<1>2. ProcControl(p)'
  BY <1>1, Zenon DEF ProcControl, Loading, Creating, Pinning
<1>3. ProcLoad(p)'
  BY <1>1, Zenon DEF ProcLoad, Busy, Loading, Creating
<1> QED
  BY <1>1, <1>2, <1>3, Zenon DEF Placed

(* Relocation touches no map. *)
LEMMA RelocateKeeps ==
    ASSUME ObjectInv, NEW p \in Procs, Relocate(p)
    PROVE  ObjectInv'
<1>0. MapInv /\ ProgType /\ ControlType /\ MakerInv /\ ProcControl(p) /\ ProcLoad(p)
  BY OfProc
<1>1. /\ at[p] = "reloc"
      /\ UNCHANGED <<pins, file, fd, path, pinned, reused, mdef, prog, loaded, maker, cut>>
  BY Zenon DEF Relocate, history
<1>2. p \in loaded /\ p \notin ok /\ MadeFrom(p, 1) /\ HasMaps(p)
  BY <1>0, <1>1, Zenon DEF ProcLoad, Busy
<1>3. MadeFrom(p, 1)' /\ HasMaps(p)'
  BY <1>1, <1>2, SameMade, ZenonT(40) DEF HasMaps
<1> USE <1>0, <1>1, <1>2, <1>3
<1>4. \A j \in Progs : NProgs > 0 /\ ~(j < 1)
  BY ObjectConstants DEF Progs
<1>5. ASSUME ~(NProgs > 0), Go(p, "idle", 1), ok' = ok \cup {p} PROVE Placed(p)
  <2>1. HasProgs(p)'
    BY <1>4, <1>5, Zenon DEF HasProgs
  <2> QED
    BY <2>1, <1>5, ProgPlaces, Zenon
<1>6. ASSUME NProgs > 0, Go(p, "prog", 1), UNCHANGED ok PROVE Placed(p)
  BY <1>4, <1>6, ProgPlaces, Zenon
<1>7. ASSUME FailLoad(p), UNCHANGED ok PROVE Placed(p)
  BY <1>7, FailLoadPlaces, Zenon
<1>8. Placed(p)
  BY <1>5, <1>6, <1>7, Zenon DEF Relocate
<1>9. UNCHANGED ok \/ ok' = ok \cup {p}
  BY Zenon DEF Relocate
<1>10. Others(p)
  BY <1>8, <1>9, Zenon DEF Placed, Others
<1>11. ProgType' /\ MakerInv'
  BY Zenon DEF ProgType, MakerInv
<1>12. MapInv'
  BY EffectNone, Zenon DEF mapVars
<1> QED
  BY <1>8, <1>10, <1>11, <1>12, StepKeeps, Zenon DEF Placed

(* Loading a program touches no map. *)
LEMMA LoadProgKeeps ==
    ASSUME ObjectInv, NEW p \in Procs, LoadProg(p)
    PROVE  ObjectInv'
<1> DEFINE j == cur[p]
<1>0. MapInv /\ ProgType /\ ControlType /\ MakerInv /\ ProcControl(p) /\ ProcLoad(p)
  BY OfProc
<1>1. /\ at[p] = "prog" /\ j \in Progs
      /\ UNCHANGED <<pins, file, fd, path, pinned, reused, mdef, loaded, maker, cut>>
  BY Zenon DEF LoadProg, history
<1>2. /\ p \in loaded /\ p \notin ok /\ MadeFrom(p, 1) /\ HasMaps(p)
      /\ \A i \in Progs : i < j => prog[p][i] # None
  BY <1>0, <1>1, Zenon DEF ProcLoad, Busy
<1>3. MadeFrom(p, 1)' /\ HasMaps(p)'
  BY <1>1, <1>2, SameMade, Zenon DEF HasMaps
<1>4. j \in Nat /\ NProgs \in Nat /\ \A i \in Progs : i \in Nat /\ i <= NProgs
  BY <1>0, ObjectConstants DEF ControlType, Progs
<1> USE <1>0, <1>1, <1>2, <1>3, <1>4
<1>5. ASSUME NEW k \in New("prog"), prog' = [prog EXCEPT ![p][j] = k],
             IF j = NProgs THEN Go(p, "idle", 1) /\ ok' = ok \cup {p}
                           ELSE Go(p, "prog", j + 1) /\ UNCHANGED ok
      PROVE  Placed(p) /\ ProgType' /\ \A q \in Procs : q # p => prog'[q] = prog[q]
  <2>1. k \in Ids /\ k # None
    BY <1>5, NewObject, ObjectConstants, Zenon
  <2>2. /\ prog'[p][j] = k /\ \A i \in Progs : i # j => prog'[p][i] = prog[p][i]
        /\ \A q \in Procs : q # p => prog'[q] = prog[q]
    BY <1>5, Zenon DEF ProgType
  <2>3. ProgType'
    BY <2>1, <1>5, Zenon DEF ProgType
  <2>4. \A i \in Progs : i <= j => prog'[p][i] # None
    BY <2>1, <2>2
  <2>5. CASE j = NProgs
    <3>1. HasProgs(p)'
      BY <2>4, <2>5, Zenon DEF HasProgs
    <3> QED
      BY <3>1, <2>2, <2>3, <2>5, <1>5, ProgPlaces, Zenon
  <2>6. CASE j # NProgs
    <3>1. \A i \in Progs : i < j + 1 => prog'[p][i] # None
      BY <2>4
    <3> QED
      BY <3>1, <2>2, <2>3, <2>6, <1>5, ProgPlaces
  <2> QED
    BY <2>5, <2>6, Zenon
<1>6. ASSUME FailLoad(p), UNCHANGED <<prog, ok>>
      PROVE  Placed(p) /\ ProgType' /\ \A q \in Procs : q # p => prog'[q] = prog[q]
  BY <1>6, FailLoadPlaces, Zenon DEF ProgType
<1>7. Placed(p) /\ ProgType' /\ \A q \in Procs : q # p => prog'[q] = prog[q]
  BY <1>5, <1>6, Zenon DEF LoadProg
<1>8. UNCHANGED ok \/ ok' = ok \cup {p}
  BY Zenon DEF LoadProg
<1>9. Others(p)
  BY <1>7, <1>8, Zenon DEF Placed, Others
<1>10. MakerInv'
  BY Zenon DEF MakerInv
<1>11. MapInv'
  BY EffectNone, Zenon DEF mapVars
<1> QED
  BY <1>7, <1>9, <1>10, <1>11, StepKeeps, Zenon DEF Placed

(* The rollback unlinks what the load pinned, and then closes all. *)
LEMMA UndoKeeps ==
    ASSUME ObjectInv, NEW p \in Procs, Undo(p)
    PROVE  ObjectInv'
<1> DEFINE m == cur[p]
           t == path[p][m]
<1>0. MapInv /\ ProgType /\ ControlType /\ MakerInv /\ ProcControl(p) /\ ProcLoad(p)
  BY OfProc
<1>1. at[p] = "undo" /\ UNCHANGED <<file, path, reused, mdef, loaded, ok>>
  BY Zenon DEF Undo
<1>2. p \in loaded /\ p \notin ok /\ MadeFrom(p, m)
  BY <1>0, <1>1, Zenon DEF ProcLoad
<1>3. m \in Nat /\ NMaps \in Nat /\ \A i \in Maps : i \in Nat /\ i <= NMaps
  BY <1>0, ObjectConstants DEF ControlType, Maps
<1> USE <1>0, <1>1, <1>2, <1>3
<1>4. CASE m > NMaps
  <2>1. Unload(p) /\ Go(p, "idle", 1) /\ UNCHANGED <<pins, pinned, maker, cut>>
    BY <1>4, Zenon DEF Undo, history
  <2>2. /\ ControlType' /\ at'[p] = "idle"
        /\ \A q \in Procs : q # p => at'[q] = at[q] /\ cur'[q] = cur[q]
    BY <2>1, Moves DEF ControlType, Labels
  <2>3. MadeNone(p)
    BY <1>4 DEF MadeFrom, MadeNone
  <2>4. /\ \A i \in Maps : fd'[p][i] = None
        /\ \A j \in Progs : prog'[p][j] = None
        /\ \A q \in Procs : q # p => fd'[q] = fd[q] /\ prog'[q] = prog[q]
    BY <2>1, Zenon DEF Unload, MapInv, MapsType, ProgType
  <2>5. Empty(p)'
    BY <2>1, <2>3, <2>4, Zenon DEF Empty, MadeNone
  <2>6. ProcControl(p)'
    BY <2>2, Zenon DEF ProcControl, Loading, Creating, Pinning
  <2>7. ProcLoad(p)'
    BY <2>2, <2>5, Zenon DEF ProcLoad, Busy, Loading, Creating
  <2>8. Others(p)
    BY <2>1, <2>2, <2>4, Zenon DEF Others
  <2>9. ProgType' /\ MakerInv'
    BY <2>1, Zenon DEF ProgType, MakerInv, Unload
  <2>10. MapInv'
    <3>1. Maps \in SUBSET Maps /\ fd' = [fd EXCEPT ![p] = [i \in Maps |-> IF i \in Maps THEN None ELSE fd[p][i]]]
      BY <2>1, Zenon DEF Unload, MapInv, MapsType
    <3> QED
      BY <3>1, <2>1, EffectClose, Zenon
  <2> QED
    BY <2>2, <2>6, <2>7, <2>8, <2>9, <2>10, StepKeeps, Zenon
<1>5. CASE ~(m > NMaps)
  <2>1. /\ Go(p, "undo", m + 1) /\ UNCHANGED <<fd, prog>>
        /\ \/ Undoes(p, m) /\ pins[t] # None /\ Unlink(p, m, t)
           \/ ~(Undoes(p, m) /\ pins[t] # None) /\ UNCHANGED <<pins, pinned, maker, cut>>
    BY <1>5, ZenonT(40) DEF Undo, history
  <2>2. /\ ControlType' /\ at'[p] = "undo" /\ cur'[p] = m + 1
        /\ \A q \in Procs : q # p => at'[q] = at[q] /\ cur'[q] = cur[q]
    BY <2>1, Moves, SMTT(30) DEF ControlType, Labels
  <2>3. ASSUME Undoes(p, m), Unlink(p, m, t)
        PROVE  /\ MapInv' /\ MakerInv' /\ MadeFrom(p, cur[p])'
               /\ \A q \in Procs : q # p => pinned'[q] = pinned[q]
               /\ \A u \in Paths : maker'[u] # None => maker'[u] = maker[u]
    <3>1. m \in Maps /\ t \in Paths
      BY <2>3 DEF Undoes, MapInv, FlagsType, MapsType, FieldInv
    <3>2. /\ pinned'[p] = pinned[p] \ {m}
          /\ \A q \in Procs : q # p => pinned'[q] = pinned[q]
          /\ \A u \in Paths : maker'[u] # None => u # t /\ maker'[u] = maker[u] /\ pins'[u] = pins[u]
          /\ MakerInv'
      BY <3>1, <2>3, UnlinkFacts, Zenon
    <3>3. MapInv'
      BY <3>1, <2>1, <2>3, EffectUnlink, Zenon
    <3>4. MadeFrom(p, cur[p])'
      <4> SUFFICES ASSUME NEW u \in Paths, maker'[u] = p
                   PROVE  \E i \in Maps : i >= m + 1 /\ i \in pinned'[p] /\ i \notin reused'[p] /\ path'[p][i] = u
        BY <2>2, ZenonT(40) DEF MadeFrom, Undoes
      <4>1. u # t /\ maker[u] = p
        BY <3>2, ObjectConstants, Zenon
      <4>2. PICK i \in Maps : i >= m /\ Undoes(p, i) /\ path[p][i] = u
        BY <4>1, Zenon DEF MadeFrom
      <4>3. i # m /\ i >= m + 1
        BY <4>1, <4>2
      <4>4. i \in pinned'[p] /\ i \notin reused'[p]
        BY <3>2, <4>2, <4>3, Zenon DEF Undoes
      <4> QED
        BY <4>2, <4>3, <4>4, ZenonT(40)
    <3> QED
      BY <3>2, <3>3, <3>4, Zenon
  <2>4. ASSUME ~(Undoes(p, m) /\ pins[t] # None), UNCHANGED <<pins, pinned, maker, cut>>
        PROVE  /\ MapInv' /\ MakerInv' /\ MadeFrom(p, cur[p])'
               /\ \A q \in Procs : q # p => pinned'[q] = pinned[q]
               /\ \A u \in Paths : maker'[u] # None => maker'[u] = maker[u]
    <3>1. MapInv' /\ MakerInv'
      BY <2>1, <2>4, EffectNone, Zenon DEF mapVars, MakerInv
    <3>2. MadeFrom(p, cur[p])'
      <4> SUFFICES ASSUME NEW u \in Paths, maker[u] = p
                   PROVE  \E i \in Maps : i >= m + 1 /\ Undoes(p, i) /\ path[p][i] = u
        BY <2>2, <2>4, <1>0, ZenonT(40) DEF MadeFrom, Undoes
      <4>1. PICK i \in Maps : i >= m /\ Undoes(p, i) /\ path[p][i] = u
        BY Zenon DEF MadeFrom
      <4>2. pins[u] # None
        BY ObjectConstants, Zenon DEF MakerInv
      <4>3. i # m /\ i >= m + 1
        BY <4>1, <4>2, <2>4
      <4> QED
        BY <4>1, <4>3, Zenon
    <3> QED
      BY <3>1, <3>2, <2>4, Zenon
  <2>5. /\ MapInv' /\ MakerInv' /\ MadeFrom(p, cur[p])'
        /\ \A q \in Procs : q # p => pinned'[q] = pinned[q]
        /\ \A u \in Paths : maker'[u] # None => maker'[u] = maker[u]
    BY <2>1, <2>3, <2>4, Zenon
  <2>6. Others(p)
    BY <2>1, <2>2, <2>5, ObjectConstants, Zenon DEF Others
  <2>7. ProcControl(p)'
    BY <2>2, Zenon DEF ProcControl, Loading, Creating, Pinning
  <2>8. ProcLoad(p)'
    BY <2>2, <2>5, Zenon DEF ProcLoad, Busy, Loading, Creating
  <2>9. ProgType'
    BY <2>1, Zenon DEF ProgType
  <2> QED
    BY <2>2, <2>5, <2>6, <2>7, <2>8, <2>9, StepKeeps, Zenon
<1> QED
  BY <1>4, <1>5, Zenon

(* A step that changes nothing. *)
LEMMA ObjectStutter == ObjectInv /\ UNCHANGED vars => ObjectInv'
<1> SUFFICES ASSUME ObjectInv, UNCHANGED vars PROVE ObjectInv'
  BY Zenon
<1>1. UNCHANGED <<pins, file, fd, path, pinned, reused, mdef, prog, loaded, ok, at, cur, maker, cut>>
  BY Zenon DEF vars, object, control, history
<1>2. MapInv'
  BY <1>1, EffectNone, Zenon DEF mapVars, ObjectInv
<1>3. ProgType' /\ ControlType' /\ ControlInv' /\ MakerInv'
  BY <1>1, ZenonT(40) DEF ObjectInv, ProgType, ControlType, ControlInv, ProcControl, MakerInv
<1>4. LoadInv'
  <2> SUFFICES ASSUME NEW p \in Procs PROVE ProcLoad(p)'
    BY Zenon DEF LoadInv
  <2>1. ProcLoad(p)
    BY Zenon DEF ObjectInv, LoadInv
  <2>2. Others(p) /\ (MadeFrom(p, 1) => MadeFrom(p, 1)') /\ (MadeFrom(p, cur[p]) => MadeFrom(p, cur[p])')
    BY <1>1, SameMade, Zenon DEF Others
  <2>3. /\ HasMaps(p)' <=> HasMaps(p)
        /\ HasProgs(p)' <=> HasProgs(p)
        /\ MadeNone(p)' <=> MadeNone(p)
        /\ Empty(p)' <=> Empty(p)
    BY <1>1, Zenon DEF HasMaps, HasProgs, MadeNone, Empty
  <2> QED
    BY <2>1, <2>2, <2>3, <1>1 DEF ProcLoad
<1> QED
  BY <1>2, <1>3, <1>4, Zenon DEF ObjectInv

(* Every step keeps the invariant. *)
LEMMA ObjectStep == ObjectInv /\ [Next]_vars => ObjectInv'
<1> SUFFICES ASSUME ObjectInv, [Next]_vars PROVE ObjectInv'
  BY Zenon
<1>1. CASE UNCHANGED vars
  BY <1>1, ObjectStutter, Zenon
<1>2. ASSUME NEW p \in Procs, Open(p) \/ Close(p) \/ Die(p) \/ StartReuse(p) \/ Reuse(p)
      PROVE  ObjectInv'
  BY <1>2, OpenKeeps, ForgetKeeps, StartReuseKeeps, ReuseKeeps, Zenon DEF Close, Die
<1>3. ASSUME NEW p \in Procs,
             \/ Load(p) \/ MapGet(p) \/ MapCreate(p) \/ MapFill(p) \/ MapPin(p)
             \/ Relocate(p) \/ LoadProg(p) \/ Undo(p)
      PROVE  ObjectInv'
  BY <1>3, LoadKeeps, MapGetKeeps, MapCreateKeeps, MapFillKeeps, MapPinKeeps,
     RelocateKeeps, LoadProgKeeps, UndoKeeps, Zenon
<1>4. ASSUME NEW p \in Procs,
             \/ PinMaps(p) \/ PinMap(p) \/ UnpinBack(p) \/ UnpinMaps(p) \/ UnpinMap(p)
             \/ PinProg(p) \/ UnpinProg(p)
      PROVE  ObjectInv'
  BY <1>4, PinMapsKeeps, PinMapKeeps, UnpinBackKeeps, UnpinMapsKeeps, UnpinMapKeeps,
     PinProgKeeps, UnpinProgKeeps, Zenon
<1> QED
  BY <1>1, <1>2, <1>3, <1>4, Zenon DEF Next

(* ObjectInv holds in every reachable state. *)
LEMMA ObjectInvariant == Spec => []ObjectInv
<1>1. Init => ObjectInv
  BY ObjectInit, Zenon
<1>2. ObjectInv /\ [Next]_vars => ObjectInv'
  BY ObjectStep, Zenon
<1> QED
  BY <1>1, <1>2, PTL DEF Spec

-----------------------------------------------------------------------------
(* Maps pinned at one path are one kernel object: the pins of both are     *)
(* there, and there is one pin (bpf_object__create_maps(),                 *)
(* bpf_map__pin()).                                                        *)
THEOREM SharedMaps == Spec => []PinnedMapsShared
<1>1. ObjectInv => PinnedMapsShared
  <2> SUFFICES ASSUME ObjectInv, NEW p \in Procs, NEW q \in Procs, NEW m \in Maps, NEW n \in Maps,
                      NEW t \in Paths, Uses(p, m, t), Uses(q, n, t)
               PROVE  fd[p][m] = fd[q][n] /\ mdef[p][m] = mdef[q][n]
    BY DEF PinnedMapsShared
  <2>1. pins[t] = fd[p][m] /\ pins[t] = fd[q][n]
    BY DEF ObjectInv, MapInv, PinInv, Uses
  <2>2. mdef[p][m] = KernelDef(fd[p][m]) /\ mdef[q][n] = KernelDef(fd[q][n])
    BY Zenon DEF ObjectInv, MapInv, FieldInv, Uses
  <2> QED
    BY <2>1, <2>2, Zenon
<1> QED
  BY <1>1, ObjectInvariant, PTL

(* The rollback of a load that fails unlinks only pins the load made       *)
(* (bpf_object__load_xattr()).                                             *)
THEOREM OwnPinsUndone == Spec => []UndoesOwnPins
<1>1. ObjectInv => UndoesOwnPins
  BY Zenon DEF ObjectInv, MapInv, PinInv, UndoesOwnPins, Undoes
<1> QED
  BY <1>1, ObjectInvariant, PTL

(* A load ends with every map and program, or with none of them and with   *)
(* none of its pins left, whatever other processes pin and unpin meanwhile *)
(* (bpf_object__load_xattr()).                                             *)
THEOREM AllOrNothing == Spec => []LoadAllOrNothing
<1>1. ObjectInv => LoadAllOrNothing
  <2> SUFFICES ASSUME ObjectInv, NEW p \in Procs, AfterLoad(p)
               PROVE  IF p \in ok
                        THEN HasMaps(p) /\ HasProgs(p)
                        ELSE Empty(p)
    BY Zenon DEF LoadAllOrNothing, HasMaps, HasProgs, Empty, MadeNone
  <2>1. ProcLoad(p)
    BY Zenon DEF ObjectInv, LoadInv
  <2> QED
    BY <2>1, Zenon DEF ProcLoad, AfterLoad, Busy, Loading, Creating
<1> QED
  BY <1>1, ObjectInvariant, PTL

=============================================================================
