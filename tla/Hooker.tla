------------------------------ MODULE Hooker ------------------------------
(***************************************************************************)
(* The Hooker on one host: the kernel programs of hooker_test_progs.c      *)
(* (sock_ops, sk_msg and XDP) that vtl_ui deploys, the maps they share and *)
(* the user daemon hooker/hooker.c.  A monitored TCP connection is put in  *)
(* HK_SOCK_MAP under a hash of its addresses; what its application sends   *)
(* is redirected to entry 0, the daemon's socket, and the daemon moves it  *)
(* to the other host.  What comes from there goes to the connection whose  *)
(* hash is in APP_HASH_ID_MAP.                                             *)
(***************************************************************************)
EXTENDS Naturals, Sequences, SequencesExt, FiniteSets

CONSTANTS
    Conns,        \* TCP connections of this host's applications
    Active,       \* the ones this host opens; the others are accepted
    Monitored,    \* one of their ports is SERVER_PORT or CLIENT_PORT
    Named,        \* their local port is the port of their role
    MapSize,      \* entries of HK_SOCK_MAP: 20
    Hash,         \* app_hash of a connection
    Cookie,       \* its vtl_compute_tcp_stream_cookie()
    MaxTries,     \* MAX_PROFILING_TRIES: 5
    Bodies,       \* what applications send: "text", or "binary" with a NUL
    None, Redir,  \* no socket, the daemon's redirector socket
    MaxOpens,     \* bound: openings of connections
    MaxPackets,   \* bound: TCP packets seen by the XDP program
    MaxMsgs,      \* bound: messages of applications and of the other host
    MaxStarts     \* bound: starts of the daemon

Keys == 0 .. MapSize - 1

ASSUME HookerAssumption ==
    /\ Active \subseteq Conns /\ Monitored \subseteq Conns /\ Named \subseteq Conns
    /\ MapSize \in Nat \ {0} /\ MaxTries \in Nat
    /\ Hash \in [Conns -> Keys] /\ Cookie \in [Conns -> Nat]
    /\ None \notin Conns /\ Redir \notin Conns /\ None # Redir
    /\ Bodies \subseteq {"text", "binary"}
    /\ {MaxOpens, MaxPackets, MaxMsgs, MaxStarts} \subseteq Nat

(* A message is [of, body]: its connection, and whether it has a NUL       *)
(* ("binary") or not ("text").                                             *)

VARIABLES
    listening, \* a monitored server listens
    tcp,      \* state of each connection
    flag,     \* BPF_SOCK_OPS_VTL_OPT_WRITE_FLAG of each connection
    sockMap,  \* HK_SOCK_MAP
    appHash,  \* APP_HASH_ID_MAP
    role,     \* TCP_HOST_ROLE_MAP
    tries,    \* PRFLNG_TRIES_NUM_MAP
    cached,   \* TCP_STREAMS_CACHE_MAP: registered cookies
    synInfo,  \* SYN_HDR_INFO_MAP: a connection's addresses, or zeros (None)
    up,       \* the daemon runs ...
    forwards, \* ... hk_listen_app(), else hk_sendto_app()
    redirIn,  \* what waits at its redirector socket
    last,     \* the connection recorded in APP_HASH_ID_MAP last
    handed,   \* every redirection of a message to a socket
    forwarded, cut, \* messages sent to the other host, whole or cut short
    answers,  \* SYN-ACKs with the option: the SYN and the addresses used
    plainOpt, \* the option put last on a packet that should carry none
    opens, packets, msgs, starts

kernVars == <<listening, tcp, flag, sockMap, appHash, role, tries, cached, synInfo>>
daemon == <<up, forwards>>
mapVars == <<sockMap, appHash, last>>
profVars == <<role, tries, cached, synInfo, answers>>
dataVars == <<redirIn, handed, forwarded, cut>>
vars == <<kernVars, daemon, redirIn, last, handed, forwarded, cut, answers, plainOpt,
          opens, packets, msgs, starts>>

Options == {"compliant", "nego", "nego_ack"}

(* Array maps start zeroed, the socket hash empty. *)
Init ==
    /\ listening = FALSE /\ tcp = [c \in Conns |-> "closed"] /\ flag = [c \in Conns |-> FALSE]
    /\ sockMap = [k \in Keys |-> None] /\ appHash = 0 /\ last = None
    /\ role = "none" /\ tries = 0 /\ cached = {} /\ synInfo = None /\ answers = {}
    /\ up = FALSE /\ forwards = FALSE /\ redirIn = << >> /\ handed = {} /\ forwarded = << >> /\ cut = {}
    /\ plainOpt = "none" /\ opens = 0 /\ packets = 0 /\ msgs = 0 /\ starts = 0
-----------------------------------------------------------------------------
(* hooker_monitor_apps(): the sock_ops program.  It returns at once for an *)
(* application that is not monitored.                                      *)

(* BPF_SOCK_OPS_TCP_LISTEN_CB: a server starts to listen. *)
Listen ==
    /\ opens < MaxOpens /\ opens' = opens + 1
    /\ listening' = TRUE /\ role' = "server" /\ tries' = 0
    /\ UNCHANGED <<tcp, flag, mapVars, cached, synInfo, answers, daemon, dataVars, plainOpt,
                   packets, msgs, starts>>

(* BPF_SOCK_OPS_TCP_CONNECT_CB, for an active connection. *)
Connect(c) ==
    /\ c \in Active /\ tcp[c] = "closed"
    /\ opens < MaxOpens /\ opens' = opens + 1
    /\ tcp' = [tcp EXCEPT ![c] = "opening"]
    /\ flag' = [flag EXCEPT ![c] = c \in Monitored]
    /\ role' = IF c \in Monitored THEN "client" ELSE role
    /\ UNCHANGED <<listening, mapVars, tries, cached, synInfo, answers, daemon, dataVars, plainOpt,
                   packets, msgs, starts>>

(* __hk_record_app_info(): the hash of the host's own application, and the *)
(* socket under its hash unless the entry is taken (BPF_NOEXIST).          *)
FreeAny(k) == TRUE
Free(k) == sockMap[k] = None

RecordAny(c) ==
    /\ appHash' = Hash[c] /\ last' = IF c \in Named THEN c ELSE last
    /\ sockMap' = IF Free(Hash[c]) THEN [sockMap EXCEPT ![Hash[c]] = c] ELSE sockMap

RecordAppInfo(c) ==
    /\ appHash' = IF c \in Named THEN Hash[c] ELSE appHash
    /\ last' = IF c \in Named THEN c ELSE last
    /\ sockMap' = IF Free(Hash[c]) THEN [sockMap EXCEPT ![Hash[c]] = c] ELSE sockMap

(* BPF_SOCK_OPS_ACTIVE_ESTABLISHED_CB leaves the flags, ..._PASSIVE_... *)
(* clears them.                                                         *)
Established(c) ==
    /\ tcp[c] = "opening"
    /\ tcp' = [tcp EXCEPT ![c] = "open"]
    /\ flag' = IF c \in Active THEN flag ELSE [flag EXCEPT ![c] = FALSE]
    /\ IF c \in Monitored THEN RecordAppInfo(c) ELSE UNCHANGED mapVars
    /\ UNCHANGED <<listening, profVars, daemon, dataVars, plainOpt, opens, packets, msgs, starts>>

(* BPF_SOCK_OPS_HSK_END_CB, once the ACK of the handshake is sent. *)
HandshakeEnd(c) ==
    /\ tcp[c] = "open" /\ flag[c]
    /\ flag' = [flag EXCEPT ![c] = FALSE]
    /\ UNCHANGED <<listening, tcp, mapVars, profVars, daemon, dataVars, plainOpt, opens, packets, msgs, starts>>

(* BPF_SOCK_OPS_VTL_WRITE_OPT_CB for a packet that is none of the three:   *)
(* option_type starts as (uint16_t) -1 and so is > 0, and the reply is     *)
(* opt_buff, which nothing has set.                                        *)
WritePlain(c) ==
    /\ flag[c]
    /\ plainOpt' \in Options \union {"none", "other"}
    /\ UNCHANGED <<listening, tcp, flag, mapVars, profVars, daemon, dataVars, opens, packets, msgs, starts>>

(* The same for a SYN-ACK: the addresses come from SYN_HDR_INFO_MAP. *)
WriteNego(c) ==
    /\ c \notin Active /\ flag[c] /\ tcp[c] = "opening"
    /\ answers' = answers \union {[syn |-> c, used |-> synInfo]}
    /\ UNCHANGED <<listening, tcp, flag, mapVars, role, tries, cached, synInfo, daemon, dataVars, plainOpt,
                   opens, packets, msgs, starts>>
-----------------------------------------------------------------------------
(* hooker_get_vtl_opt(): the XDP program, for every TCP packet.  The       *)
(* addresses are only read while a server's profiling tries last; the      *)
(* SYN's are saved whether they were read or not.                          *)
Profiling == role = "server" /\ tries < MaxTries

RegisteredNone(c) == {}
Registered(c) == {Cookie[c]}

Profile(c, syn) ==
    /\ tries' = IF Profiling THEN tries + 1 ELSE tries
    /\ cached' = IF Profiling THEN cached \union Registered(c) ELSE cached
    /\ synInfo' = CASE ~syn             -> synInfo
                    [] syn /\ Profiling  -> c
                    [] syn /\ ~Profiling -> None

(* A SYN for a server of this host. The kernel's listener has the flag. *)
RecvSyn(c) ==
    /\ c \notin Active /\ tcp[c] = "closed"
    /\ listening \/ c \notin Monitored
    /\ opens < MaxOpens /\ opens' = opens + 1
    /\ packets < MaxPackets /\ packets' = packets + 1
    /\ Profile(c, TRUE)
    /\ tcp' = [tcp EXCEPT ![c] = "opening"]
    /\ flag' = [flag EXCEPT ![c] = c \in Monitored]
    /\ UNCHANGED <<listening, mapVars, role, answers, daemon, dataVars, plainOpt, msgs, starts>>

(* Any other TCP packet. *)
RecvPacket(c) ==
    /\ tcp[c] # "closed"
    /\ packets < MaxPackets /\ packets' = packets + 1
    /\ Profile(c, FALSE)
    /\ UNCHANGED <<listening, tcp, flag, mapVars, role, answers, daemon, dataVars, plainOpt, opens, msgs, starts>>

(* A connection closes: the kernel takes its socket out of HK_SOCK_MAP. No *)
(* program is called, APP_HASH_ID_MAP stays.                               *)
Close(c) ==
    /\ tcp[c] # "closed"
    /\ tcp' = [tcp EXCEPT ![c] = "closed"] /\ flag' = [flag EXCEPT ![c] = FALSE]
    /\ sockMap' = [k \in Keys |-> IF sockMap[k] = c THEN None ELSE sockMap[k]]
    /\ UNCHANGED <<listening, appHash, last, profVars, daemon, dataVars, plainOpt, opens, packets, msgs, starts>>
-----------------------------------------------------------------------------
(* hooker_switch_packet_data(): bpf_msg_redirect_hash() to the socket of   *)
(* entry k; SK_DROP when there is none.                                    *)
RedirectTo(k, m, inward) ==
    /\ handed' = handed \union {[msg |-> m, to |-> sockMap[k], inward |-> inward,
                                 up |-> up, last |-> last]}
    /\ redirIn' = IF sockMap[k] = Redir THEN Append(redirIn, m) ELSE redirIn

Hooked(c) == \E k \in Keys : sockMap[k] = c

(* An application sends.  Only sockets of HK_SOCK_MAP have the sk_msg      *)
(* program; the others' data takes its TCP connection.                     *)
AppSend(c) ==
    /\ tcp[c] = "open" /\ Hooked(c)
    /\ msgs < MaxMsgs /\ msgs' = msgs + 1
    /\ \E b \in Bodies : RedirectTo(0, [of |-> c, body |-> b], FALSE)
    /\ UNCHANGED <<kernVars, last, answers, daemon, forwarded, cut, plainOpt, opens, packets, starts>>

(* main() of the daemon: its socket becomes entry 0, whatever was there,   *)
(* and its argument selects the direction.                                 *)
DaemonStart ==
    /\ ~up /\ starts < MaxStarts /\ starts' = starts + 1
    /\ up' = TRUE /\ forwards' \in BOOLEAN
    /\ sockMap' = [sockMap EXCEPT ![0] = Redir]
    /\ UNCHANGED <<listening, tcp, flag, appHash, last, profVars, dataVars, plainOpt, opens, packets, msgs>>

(* The daemon ends; its socket leaves the map and takes what waits with it. *)
Stop ==
    /\ up' = FALSE /\ redirIn' = << >>
    /\ sockMap' = [k \in Keys |-> IF sockMap[k] = Redir THEN None ELSE sockMap[k]]

DaemonStop ==
    /\ up /\ Stop
    /\ UNCHANGED <<listening, tcp, flag, appHash, last, forwards, profVars, handed, forwarded, cut,
                   plainOpt, opens, packets, msgs, starts>>

(* strlen(buffer): what was read, up to the first NUL. *)
FirstNul(read) == SelectInSeq(read, LAMBDA m : m.body = "binary")
Sent(read) == IF FirstNul(read) = 0 THEN read ELSE SubSeq(read, 1, FirstNul(read) - 1)

(* hk_listen_app(): recv() reads any part of what waits, sendto() sends it. *)
Forward ==
    /\ up /\ forwards /\ redirIn # << >>
    /\ \E n \in 1 .. Len(redirIn) :
        LET read == SubSeq(redirIn, 1, n)
        IN  /\ redirIn' = SubSeq(redirIn, n + 1, Len(redirIn))
            /\ forwarded' = forwarded \o Sent(read)
            /\ cut' = cut \union {read[k] : k \in Len(Sent(read)) + 1 .. n}
    /\ UNCHANGED <<kernVars, last, answers, daemon, handed, plainOpt, opens, packets, msgs, starts>>

(* hk_sendto_app(): a message for c came from the other host; send() to    *)
(* the redirector fails when the redirection drops, and the daemon ends.   *)
Inject(c) ==
    /\ up /\ ~forwards
    /\ msgs < MaxMsgs /\ msgs' = msgs + 1
    /\ LET m == [of |-> c, body |-> "text"]
       IN  IF sockMap[appHash] = None
           THEN /\ handed' = handed \union {[msg |-> m, to |-> None, inward |-> TRUE,
                                             up |-> up, last |-> last]}
                /\ Stop
           ELSE RedirectTo(appHash, m, TRUE) /\ UNCHANGED <<up, sockMap>>
    /\ UNCHANGED <<listening, tcp, flag, appHash, last, forwards, profVars, forwarded, cut,
                   plainOpt, opens, packets, starts>>
-----------------------------------------------------------------------------
Next ==
    \/ Listen \/ DaemonStart \/ DaemonStop \/ Forward
    \/ \E c \in Conns :
          \/ Connect(c) \/ Established(c) \/ HandshakeEnd(c) \/ Close(c)
          \/ WritePlain(c) \/ WriteNego(c)
          \/ RecvSyn(c) \/ RecvPacket(c)
          \/ AppSend(c) \/ Inject(c)

Spec == Init /\ [][Next]_vars
-----------------------------------------------------------------------------
(* While the daemon runs, what a hooked application sends goes to the      *)
(* daemon, whatever connections open, close or collide with entry 0.       *)
HookedGoesToDaemon == \A h \in handed : ~h.inward /\ h.up => h.to = Redir

(* What comes from the other host goes to the connection recorded last, or *)
(* to one with the same hash, or is dropped; before any is recorded, to    *)
(* entry 0.                                                                *)
InwardFollowsHash ==
    \A h \in handed : h.inward /\ h.to \in Conns =>
        Hash[h.to] = IF h.last = None THEN 0 ELSE Hash[h.last]

(* The addresses of a saved SYN, and those a SYN-ACK is answered with, are *)
(* of a registered stream or zero, so that the SYN-ACK finds its profile.  *)
SavedSynIsRegistered ==
    /\ synInfo # None => Cookie[synInfo] \in cached
    /\ \A a \in answers : a.used # None => Cookie[a.used] \in cached
=============================================================================
