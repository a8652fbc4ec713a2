--------------------------- MODULE HookerProofs ---------------------------
(***************************************************************************)
(* Proofs about Hooker for every set of connections, every hash and every  *)
(* order of events: an entry of HK_SOCK_MAP holds a connection only under  *)
(* that connection's hash, entry 0 is the daemon's while it runs, and so   *)
(* each redirection goes where the two maps say.                           *)
(***************************************************************************)
EXTENDS Hooker, TLAPS

(* The parts of the type invariant the proofs use. *)
MapType ==
    /\ sockMap \in [Keys -> Conns \union {None, Redir}]
    /\ appHash \in Keys
    /\ last \in Conns \union {None}

(* A connection sits only under its own hash. *)
UnderItsHash == \A k \in Keys : sockMap[k] \in Conns => Hash[sockMap[k]] = k

(* The daemon's socket is entry 0 while the daemon runs. *)
DaemonAtZero == up => sockMap[0] = Redir

(* APP_HASH_ID_MAP holds the hash of the connection recorded last. *)
HashOfLast == appHash = IF last = None THEN 0 ELSE Hash[last]

IInv ==
    /\ MapType /\ UnderItsHash /\ DaemonAtZero /\ HashOfLast
    /\ HookedGoesToDaemon /\ InwardFollowsHash
    /\ SavedSynIsRegistered

(* hooker_monitor_apps() and hooker/hooker.c: with empty maps everything   *)
(* holds.                                                                  *)
LEMMA InitHolds == Init => IInv
BY HookerAssumption DEF Init, IInv, MapType, UnderItsHash, DaemonAtZero, HashOfLast,
   HookedGoesToDaemon, InwardFollowsHash, SavedSynIsRegistered, Keys

(* Handlers that touch neither the socket maps, the daemon, the            *)
(* redirections nor the saved SYN keep the invariant.                      *)
LEMMA QuietHolds ==
  ASSUME IInv, UNCHANGED <<sockMap, appHash, last, up, handed, synInfo, cached, answers>>
  PROVE  IInv'
BY Zenon DEF IInv, MapType, UnderItsHash, DaemonAtZero, HashOfLast,
   HookedGoesToDaemon, InwardFollowsHash, SavedSynIsRegistered

(* __hk_record_app_info() takes an entry only when it is free, so it       *)
(* leaves the daemon's alone.                                              *)
LEMMA RecordHolds ==
  ASSUME IInv, NEW c \in Conns, RecordAppInfo(c), UNCHANGED <<up, handed, synInfo, cached, answers>>
  PROVE  IInv'
<1>1. Hash[c] \in Keys /\ 0 \in Keys /\ None \notin Conns /\ Redir \notin Conns /\ None # Redir
  BY HookerAssumption DEF Keys
<1>2. MapType'
  BY <1>1, Zenon DEF IInv, MapType, RecordAppInfo
<1>3. UnderItsHash'
  BY <1>1, Zenon DEF IInv, MapType, UnderItsHash, RecordAppInfo
<1>4. DaemonAtZero'
  BY <1>1, Zenon DEF IInv, MapType, DaemonAtZero, RecordAppInfo, Free
<1>5. HashOfLast'
  BY <1>1, Zenon DEF IInv, HashOfLast, RecordAppInfo
<1>6. (HookedGoesToDaemon /\ InwardFollowsHash /\ SavedSynIsRegistered)'
  BY Zenon DEF IInv, HookedGoesToDaemon, InwardFollowsHash, SavedSynIsRegistered
<1> QED
  BY <1>2, <1>3, <1>4, <1>5, <1>6, Zenon DEF IInv

(* hooker_get_vtl_opt() registers a stream before it saves the SYN. *)
LEMMA ProfileHolds ==
  ASSUME IInv, NEW c \in Conns, NEW syn \in BOOLEAN, Profile(c, syn),
         UNCHANGED <<sockMap, appHash, last, up, handed, answers>>
  PROVE  IInv'
<1>1. SavedSynIsRegistered'
  BY HookerAssumption, Zenon DEF IInv, SavedSynIsRegistered, Profile, Registered
<1> QED
  BY <1>1, Zenon DEF IInv, MapType, UnderItsHash, DaemonAtZero, HashOfLast,
     HookedGoesToDaemon, InwardFollowsHash

(* A socket that closes, an application's or the daemon's, only empties    *)
(* entries.                                                                *)
LEMMA RemoveHolds ==
  ASSUME IInv, NEW s \in Conns \union {Redir},
         sockMap' = [k \in Keys |-> IF sockMap[k] = s THEN None ELSE sockMap[k]],
         s = Redir => ~up', s # Redir => up' = up,
         UNCHANGED <<appHash, last, handed, synInfo, cached, answers>>
  PROVE  IInv'
<1>1. 0 \in Keys /\ None \notin Conns /\ Redir \notin Conns /\ None # Redir
  BY HookerAssumption DEF Keys
<1>2. MapType' /\ UnderItsHash'
  BY <1>1, Zenon DEF IInv, MapType, UnderItsHash
<1>3. DaemonAtZero'
  BY <1>1, Zenon DEF IInv, DaemonAtZero, MapType
<1>4. (HashOfLast /\ HookedGoesToDaemon /\ InwardFollowsHash /\ SavedSynIsRegistered)'
  BY Zenon DEF IInv, HashOfLast, HookedGoesToDaemon, InwardFollowsHash, SavedSynIsRegistered
<1> QED
  BY <1>2, <1>3, <1>4 DEF IInv

(* main() of the daemon takes entry 0 from whoever has it. *)
LEMMA StartHolds ==
  ASSUME IInv, sockMap' = [sockMap EXCEPT ![0] = Redir],
         UNCHANGED <<appHash, last, handed, synInfo, cached, answers>>
  PROVE  IInv'
<1>1. 0 \in Keys /\ Redir \notin Conns
  BY HookerAssumption DEF Keys
<1>2. MapType' /\ UnderItsHash' /\ DaemonAtZero'
  BY <1>1, Zenon DEF IInv, MapType, UnderItsHash, DaemonAtZero
<1>3. (HashOfLast /\ HookedGoesToDaemon /\ InwardFollowsHash /\ SavedSynIsRegistered)'
  BY Zenon DEF IInv, HashOfLast, HookedGoesToDaemon, InwardFollowsHash, SavedSynIsRegistered
<1> QED
  BY <1>2, <1>3, Zenon DEF IInv

(* hooker_switch_packet_data(): entry 0 for an application's data, the     *)
(* recorded hash for the daemon's.                                         *)
LEMMA HandedHolds ==
  ASSUME IInv, NEW m, NEW inward \in BOOLEAN, NEW k \in Keys,
         ~inward => k = 0, inward => k = appHash,
         handed' = handed \union {[msg |-> m, to |-> sockMap[k], inward |-> inward,
                                   up |-> up, last |-> last]}
  PROVE  HookedGoesToDaemon' /\ InwardFollowsHash'
<1> DEFINE h == [msg |-> m, to |-> sockMap[k], inward |-> inward, up |-> up, last |-> last]
<1>1. ~inward /\ up => sockMap[k] = Redir
  BY Zenon DEF IInv, DaemonAtZero
<1>2. inward /\ sockMap[k] \in Conns =>
        Hash[sockMap[k]] = IF last = None THEN 0 ELSE Hash[last]
  BY Zenon DEF IInv, UnderItsHash, HashOfLast
<1>3. /\ h.to = sockMap[k] /\ h.inward = inward /\ h.up = up /\ h.last = last
  BY Zenon
<1>4. handed' = handed \union {h}
  BY Zenon
<1> HIDE DEF h
<1>5. HookedGoesToDaemon'
  BY <1>1, <1>3, <1>4 DEF IInv, HookedGoesToDaemon
<1>6. InwardFollowsHash'
  BY <1>2, <1>3, <1>4 DEF IInv, InwardFollowsHash
<1> QED
  BY <1>5, <1>6, Zenon

(* A redirection that moves a message and changes no map. *)
LEMMA RedirectHolds ==
  ASSUME IInv, NEW m, NEW inward \in BOOLEAN, NEW k \in Keys,
         ~inward => k = 0, inward => k = appHash,
         RedirectTo(k, m, inward),
         UNCHANGED <<sockMap, appHash, last, up, synInfo, cached, answers>>
  PROVE  IInv'
<1>1. HookedGoesToDaemon' /\ InwardFollowsHash'
  BY HandedHolds, Zenon DEF RedirectTo
<1> QED
  BY <1>1, Zenon DEF IInv, MapType, UnderItsHash, DaemonAtZero, HashOfLast, SavedSynIsRegistered

(* Every handler of the programs and of the daemon keeps the invariant. *)
LEMMA StepHolds == ASSUME IInv, [Next]_vars PROVE IInv'
<1>1. CASE UNCHANGED vars
  BY <1>1, QuietHolds, Zenon DEF vars, kernVars, daemon
<1>2. CASE Listen \/ Forward
  BY <1>2, QuietHolds, Zenon DEF Listen, Forward, mapVars, dataVars, kernVars, daemon
<1>3. CASE DaemonStart
  BY <1>3, StartHolds DEF DaemonStart, dataVars, profVars
<1>4. CASE DaemonStop
  BY <1>4, RemoveHolds DEF DaemonStop, Stop, profVars
<1>5. ASSUME NEW c \in Conns,
             Connect(c) \/ HandshakeEnd(c) \/ WritePlain(c)
      PROVE  IInv'
  BY <1>5, QuietHolds, Zenon DEF Connect, HandshakeEnd, WritePlain, mapVars, dataVars,
     profVars, daemon
<1>6. ASSUME NEW c \in Conns, Established(c) PROVE IInv'
  <2>1. UNCHANGED <<up, handed, synInfo, cached, answers>>
    BY <1>6 DEF Established, dataVars, profVars, daemon
  <2>2. CASE c \in Monitored
    BY <1>6, <2>1, <2>2, RecordHolds DEF Established
  <2>3. CASE c \notin Monitored
    BY <1>6, <2>1, <2>3, QuietHolds DEF Established, mapVars
  <2> QED
    BY <2>2, <2>3
<1>7. ASSUME NEW c \in Conns, RecvSyn(c) \/ RecvPacket(c) PROVE IInv'
  <2>1. UNCHANGED <<sockMap, appHash, last, up, handed, answers>>
    BY <1>7, Zenon DEF RecvSyn, RecvPacket, mapVars, dataVars, daemon
  <2>2. Profile(c, TRUE) \/ Profile(c, FALSE)
    BY <1>7, Zenon DEF RecvSyn, RecvPacket
  <2> QED
    BY <2>1, <2>2, ProfileHolds
<1>8. ASSUME NEW c \in Conns, Close(c) PROVE IInv'
  <2>1. c # Redir
    BY HookerAssumption, Zenon
  <2> QED
    BY <1>8, <2>1, RemoveHolds DEF Close, profVars, dataVars, daemon
<1>9. ASSUME NEW c \in Conns, AppSend(c) PROVE IInv'
  <2>1. 0 \in Keys
    BY HookerAssumption DEF Keys
  <2>2. PICK b \in Bodies : RedirectTo(0, [of |-> c, body |-> b], FALSE)
    BY <1>9, Zenon DEF AppSend
  <2>3. UNCHANGED <<sockMap, appHash, last, up, synInfo, cached, answers>>
    BY <1>9, Zenon DEF AppSend, kernVars, daemon
  <2> QED
    BY <2>1, <2>2, <2>3, RedirectHolds
<1>10. ASSUME NEW c \in Conns, Inject(c) PROVE IInv'
  <2> DEFINE m == [of |-> c, body |-> "text"]
  <2>1. appHash \in Keys
    BY Zenon DEF IInv, MapType
  <2>2. UNCHANGED <<appHash, last, synInfo, cached, answers>>
    BY <1>10, Zenon DEF Inject, profVars
  <2>3. CASE sockMap[appHash] = None
    <3>1. /\ handed' = handed \union {[msg |-> m, to |-> sockMap[appHash], inward |-> TRUE,
                                       up |-> up, last |-> last]}
          /\ Stop
      BY <1>10, <2>3, Zenon DEF Inject
    <3>2. HookedGoesToDaemon' /\ InwardFollowsHash'
      BY <2>1, <3>1, HandedHolds
    <3>3. 0 \in Keys /\ None \notin Conns
      BY HookerAssumption DEF Keys
    <3>4. MapType' /\ UnderItsHash' /\ DaemonAtZero'
      BY <2>2, <3>1, <3>3, Zenon DEF Stop, IInv, MapType, UnderItsHash, DaemonAtZero
    <3>5. (HashOfLast /\ SavedSynIsRegistered)'
      BY <2>2, Zenon DEF IInv, HashOfLast, SavedSynIsRegistered
    <3> QED
      BY <3>2, <3>4, <3>5, Zenon DEF IInv
  <2>4. CASE sockMap[appHash] # None
    <3>1. RedirectTo(appHash, m, TRUE) /\ UNCHANGED <<up, sockMap>>
      BY <1>10, <2>4, Zenon DEF Inject
    <3> HIDE DEF m
    <3> QED
      BY <2>1, <2>2, <3>1, RedirectHolds, Zenon
  <2> QED
    BY <2>3, <2>4, Zenon
<1>11. ASSUME NEW c \in Conns, WriteNego(c) PROVE IInv'
  <2>1. UNCHANGED <<sockMap, appHash, last, up, handed, synInfo, cached>>
    BY <1>11, Zenon DEF WriteNego, mapVars, dataVars, daemon
  <2>2. answers' = answers \union {[syn |-> c, used |-> synInfo]}
    BY <1>11 DEF WriteNego
  <2>3. SavedSynIsRegistered'
    BY <2>1, <2>2 DEF IInv, SavedSynIsRegistered
  <2> QED
    BY <2>1, <2>3, Zenon DEF IInv, MapType, UnderItsHash, DaemonAtZero, HashOfLast,
       HookedGoesToDaemon, InwardFollowsHash
<1> QED
  BY <1>1, <1>2, <1>3, <1>4, <1>5, <1>6, <1>7, <1>8, <1>9, <1>10, <1>11 DEF Next

(* The inductive invariant holds in every behaviour. *)
LEMMA Invariant == Spec => []IInv
BY InitHolds, StepHolds, PTL DEF Spec

(* hooker_switch_packet_data(): while the daemon runs, hooked data goes to *)
(* it.                                                                     *)
THEOREM HookedReachesDaemon == Spec => []HookedGoesToDaemon
<1>1. IInv => HookedGoesToDaemon
  BY DEF IInv
<1> QED
  BY <1>1, Invariant, PTL

(* hooker_switch_packet_data(): the daemon's data goes to a connection     *)
(* with the recorded hash.                                                 *)
THEOREM InwardByHash == Spec => []InwardFollowsHash
<1>1. IInv => InwardFollowsHash
  BY Zenon DEF IInv
<1> QED
  BY <1>1, Invariant, PTL

(* hooker_get_vtl_opt(): a saved SYN belongs to a registered stream, and   *)
(* so does the one a SYN-ACK is answered with.                             *)
THEOREM SynRegistered == Spec => []SavedSynIsRegistered
<1>1. IInv => SavedSynIsRegistered
  BY Zenon DEF IInv
<1> QED
  BY <1>1, Invariant, PTL
=============================================================================
