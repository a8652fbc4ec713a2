----------------------------- MODULE Canonical -----------------------------
(***************************************************************************)
(* The canonical grafts (egress_cano_graft.c, ingress_cano_graft.c) and    *)
(* the negotiation of service_api.c on top of them: the sending            *)
(* application asks for a graft with vtl_negotiate(), the receiving one    *)
(* answers with vtl_validate(), and both send data in between.  There are  *)
(* no retransmissions and no numbers: seq_num is always 0.                 *)
(***************************************************************************)
EXTENDS Dbr

CONSTANTS GraftId,           \* the graft vtl_negotiate() asks for: 10
          GraftMapPinned,    \* the path vtl_validate() opens exists
          MaxCalls           \* bound: calls of the API on either host

ASSUME CanonicalAssumption ==
    /\ GraftId \in 1 .. 127
    /\ GraftMapPinned \in BOOLEAN /\ MaxCalls \in Nat

(* A packet is a record: the gid (a signed byte) and the type of its       *)
(* header, "NEGO", "DATA", "ACK", "NEGO_ACK" or "NEGO_NACK"; the type the  *)
(* API call that made it meant it to have; and the number of the call.     *)
VARIABLES
    toRecv, toSend, \* packets in flight
    sGid,           \* vtlh.gid of the sending application's socket
    rGid,           \* vtlh.gid of the receiving application's socket
    negotiating,    \* vtl_negotiate() sleeps
    result,         \* what it returned last
    negoMap,        \* the sending host's QOS_NEGO_MAP
    graftMap,       \* the receiving host's GRAFT_ID_MAP
    egressAtRecv,   \* the receiving host has an egress graft too
    attached,       \* the receiving application has a socket in xsks_map
    ring, dbr,      \* its receive ring and reorder buffer
    calls,          \* API calls so far
    plain,          \* data packets sent before any negotiation
    verdicts        \* the answers of vtl_validate() and what they rest on

sendVars == <<sGid, negotiating, result, negoMap, plain>>
recvVars == <<rGid, graftMap, egressAtRecv, attached, ring, dbr, verdicts>>
vars == <<toRecv, toSend, sGid, negotiating, result, negoMap, plain,
          rGid, graftMap, egressAtRecv, attached, ring, dbr, verdicts, calls>>

(* The maps start zeroed (N_ACCEPT is 0), the sockets with gid -1. *)
Init ==
    /\ toRecv = {} /\ toSend = {} /\ sGid = -1 /\ rGid = -1
    /\ negotiating = FALSE /\ result = 0 /\ negoMap = "N_ACCEPT" /\ graftMap = 0
    /\ egressAtRecv \in BOOLEAN /\ attached = FALSE /\ ring = << >> /\ dbr = DbrInit
    /\ calls = 0 /\ plain = {} /\ verdicts = {}

Call == calls < MaxCalls /\ calls' = calls + 1
-----------------------------------------------------------------------------
(* egress_cano_graft.c decides the type by the gid alone. *)
KeepType(gid, meant) == meant
EgressType(gid, meant) == IF gid = -1 THEN "DATA" ELSE "NEGO"

(* vtl_send_data(): dbr_send() and the egress graft. *)
SendData ==
    /\ ~negotiating
    /\ Call
    /\ toRecv' = toRecv \union {[gid |-> sGid, type |-> EgressType(sGid, "DATA"),
                                 meant |-> "DATA", pay |-> calls]}
    /\ plain' = IF sGid = -1 THEN plain \union {calls} ELSE plain
    /\ UNCHANGED <<toSend, sGid, negotiating, result, negoMap, recvVars>>

(* vtl_negotiate() up to usleep(); the gid stays in the socket. *)
Negotiate ==
    /\ ~negotiating
    /\ Call
    /\ sGid' = GraftId /\ negotiating' = TRUE
    /\ toRecv' = toRecv \union {[gid |-> GraftId, type |-> EgressType(GraftId, "NEGO"),
                                 meant |-> "NEGO", pay |-> calls]}
    /\ UNCHANGED <<toSend, result, negoMap, plain, recvVars>>

(* What vtl_negotiate() makes of QOS_NEGO_MAP: the lookup has no buffer to *)
(* fill (nego_state is NULL), so the state is never seen.                  *)
Outcome(state) == -1

ReturnIfAnswered ==
    /\ negotiating /\ negoMap # "N_IDLE"
    /\ negotiating' = FALSE /\ result' = Outcome(negoMap)
    /\ UNCHANGED <<toRecv, toSend, sGid, negoMap, plain, recvVars, calls>>

NegotiateReturn ==
    /\ negotiating
    /\ negotiating' = FALSE /\ result' = Outcome(negoMap)
    /\ UNCHANGED <<toRecv, toSend, sGid, negoMap, plain, recvVars, calls>>

(* _listener_tf(): an answer sets the state, anything else makes it N_IDLE. *)
Heard(type) ==
    CASE type = "NEGO_ACK"  -> "N_ACCEPT"
      [] type = "NEGO_NACK" -> "N_REFUSE"
      [] OTHER              -> "N_IDLE"

Listener ==
    /\ \E m \in toSend : toSend' = toSend \ {m} /\ negoMap' = Heard(m.type)
    /\ UNCHANGED <<toRecv, sGid, negotiating, result, plain, recvVars, calls>>
-----------------------------------------------------------------------------
(* vtl_init() of the receiving application. *)
Attach ==
    /\ ~attached /\ attached' = TRUE
    /\ UNCHANGED <<toRecv, toSend, sendVars, rGid, graftMap, egressAtRecv, ring, dbr, verdicts,
                   calls>>

(* A data packet as the reorder buffer sees it. *)
Plain(pay) == [seq |-> 0, pay |-> pay, len |-> 1, wire |-> HdrLen + 1, bad |-> "none"]

(* xdp_sock_prog(): a positive gid asks for a graft and ends here, whatever *)
(* the packet carries; the rest goes to the application's socket, and the   *)
(* kernel of the redirect answers with an ACK.                              *)
NamesOther(gid) == gid > GraftId
NamesGraft(gid) == gid > 0

Ingress ==
    \E m \in toRecv :
        /\ toRecv' = toRecv \ {m}
        /\ \/ /\ NamesGraft(m.gid)
              /\ graftMap' = m.gid
              /\ UNCHANGED <<toSend, ring>>
           \/ /\ ~NamesGraft(m.gid) /\ attached
              /\ ring' = Append(ring, Plain(m.pay))
              /\ toSend' = toSend \union {[gid |-> m.gid, type |-> "ACK",
                                           meant |-> "ACK", pay |-> m.pay]}
              /\ UNCHANGED graftMap
           \/ /\ ~NamesGraft(m.gid) /\ ~attached
              /\ UNCHANGED <<toSend, ring, graftMap>>
        /\ UNCHANGED <<sendVars, rGid, egressAtRecv, attached, dbr, verdicts, calls>>

(* vtl_recv_data(). *)
Receive ==
    /\ ring # << >>
    /\ ring' = Tail(ring) /\ dbr' = ProcessPacket(dbr, Head(ring))
    /\ UNCHANGED <<toRecv, toSend, sendVars, rGid, graftMap, egressAtRecv, attached, verdicts,
                   calls>>

(* The int that vtl_validate() has after the lookup of a one-byte value    *)
(* into an int that holds -1.                                              *)
Widened(b) == (b % 256) - 256

(* vtl_validate(): wait while the id is -100, then answer (0: return). The *)
(* answer leaves through the egress graft of the receiving host, if any.   *)
(* Without the pinned map, which no code of the repository creates, the    *)
(* call returns at once and changes nothing.                               *)
Verdict(id) == IF id > 0 THEN "NEGO_ACK" ELSE "NEGO_NACK"

Validate ==
    LET id  == Widened(graftMap)
        gid == IF id > 0 THEN id ELSE 0
    IN  /\ attached /\ GraftMapPinned /\ Call
        /\ id # -100 /\ id # 0
        /\ rGid' = gid
        /\ toSend' = toSend \union {[gid |-> gid, meant |-> Verdict(id), pay |-> calls,
                                     type |-> IF egressAtRecv
                                              THEN EgressType(gid, Verdict(id))
                                              ELSE Verdict(id)]}
        /\ verdicts' = verdicts \union {[asked |-> graftMap, answer |-> Verdict(id)]}
        /\ UNCHANGED <<toRecv, sendVars, graftMap, egressAtRecv, attached, ring, dbr>>

(* The path loses a packet. *)
Lose ==
    /\ \/ \E m \in toRecv : toRecv' = toRecv \ {m} /\ UNCHANGED toSend
       \/ \E m \in toSend : toSend' = toSend \ {m} /\ UNCHANGED toRecv
    /\ UNCHANGED <<sendVars, recvVars, calls>>
-----------------------------------------------------------------------------
Next ==
    \/ SendData \/ Negotiate \/ NegotiateReturn \/ Listener
    \/ Attach \/ Ingress \/ Receive \/ Validate
    \/ Lose

Spec == Init /\ [][Next]_vars

FairSpec ==
    /\ Spec
    /\ WF_vars(NegotiateReturn) /\ WF_vars(Ingress) /\ WF_vars(Receive) /\ WF_vars(Listener)
-----------------------------------------------------------------------------
(* What the application may still read. *)
Reaching == {ring[k].pay : k \in 1 .. Len(ring)}
            \union {dbr.out[k].pay : k \in 1 .. Len(dbr.out)}
            \union {dbr.buff[s].pay : s \in {t \in Slots : dbr.stored[t]}}

(* vtl_negotiate() leaves its gid in the socket, so every later packet is  *)
(* taken for a request: the application only ever gets data that was sent  *)
(* before the first negotiation.  service_api.c speaks of the opposite     *)
(* ("Keep sending with canonical.", "Fallback to cano"): what is stated    *)
(* here is what the code does, whatever the answer was.                    *)
NegotiationEndsData == Reaching \subseteq plain

(* The sender's state says N_REFUSE only where vtl_validate() refused and  *)
(* no egress graft stood in the way of the answer: egress_cano_graft.c     *)
(* turns it into a NEGO.                                                   *)
RefusalNeedsBareHost == negoMap = "N_REFUSE" => ~egressAtRecv /\ verdicts # {}

(* vtl_negotiate() returns after its sleep. *)
NegotiateReturns == negotiating ~> ~negotiating
=============================================================================
