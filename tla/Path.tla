-------------------------------- MODULE Path --------------------------------
(***************************************************************************)
(* The path between two VTL hosts, external to the repository: the grafts  *)
(* hand packets to it with bpf_clone_redirect() and XDP_TX and receive     *)
(* from it in their XDP programs.  Each direction is a set of packets in   *)
(* flight.  The path may lose a data packet, damage it, let a later one    *)
(* overtake it or lose an answer: each is a fault, and there are at most   *)
(* MaxFaults of them.                                                      *)
(* What else it may do is chosen by the constants:                         *)
(*   Timely      bpf_vtl_start_timer(10) outlasts every packet and answer  *)
(*               in flight (a round trip below the 10 ms timer); when it   *)
(*               does not, overtaking is no longer counted or bounded      *)
(*   Duplicates  a packet may arrive more than once                        *)
(*   LossyAcks   answers may be lost too (always so with Duplicates)       *)
(*   Harm        the kinds of damage                                       *)
(***************************************************************************)
EXTENDS Dbr

CONSTANTS Timely, Duplicates, LossyAcks, Harm, MaxFaults

(* A retransmission can equal a packet still in flight only when the timer *)
(* may fire early; a set stands for both copies only if it may duplicate.  *)
ASSUME PathAssumption ==
    /\ Timely \in BOOLEAN /\ Duplicates \in BOOLEAN /\ LossyAcks \in BOOLEAN
    /\ Timely \/ Duplicates
    /\ Harm \subseteq {"body", "last"}
    /\ MaxFaults \in Nat

VARIABLES data,     \* packets in flight to the receiver
          back,     \* ACKs and NACKs in flight to the sender
          faults,   \* packets lost, damaged or overtaken, answers lost so far
          harmed    \* what happened so far beyond losing and overtaking data

pathVars == <<data, back, faults, harmed>>

(* An answer carries the header of the packet it answers; pay remembers    *)
(* which packet that was and is read by properties only.                   *)
Answer == [type : {"ACK", "NACK"}, seq : Slots, pay : Nat]

AnswerTo(pkt, type) == [type |-> type, seq |-> pkt.seq, pay |-> pkt.pay]

(* An answer lost, a packet damaged before its last byte or at it. *)
Harms == {"answer", "body", "last"}

PathInit == data = {} /\ back = {} /\ faults = 0 /\ harmed = {}

PathQuiet == data = {} /\ back = {}

(* The time the sender sleeps in bpf_vtl_start_timer(). *)
TimerMayFire == Timely => PathQuiet

(* m arrives.  On a path that duplicates, copies of it may follow at any   *)
(* time or never, so nothing leaves the set and a loss needs no step.      *)
Take(ch, m) == IF Duplicates THEN ch ELSE ch \ {m}

Overtakes(m) == Timely /\ \E n \in data : n.pay < m.pay

(* A data packet arrives. *)
Arrive(m) ==
    /\ data' = Take(data, m)
    /\ IF Overtakes(m)
       THEN faults < MaxFaults /\ faults' = faults + 1
       ELSE UNCHANGED faults
    /\ UNCHANGED harmed

LosePacket ==
    /\ ~Duplicates
    /\ faults < MaxFaults
    /\ \E m \in data : data' = data \ {m}
    /\ faults' = faults + 1
    /\ UNCHANGED <<back, harmed>>

LoseAnswer ==
    /\ LossyAcks /\ ~Duplicates
    /\ faults < MaxFaults
    /\ \E r \in back : back' = back \ {r}
    /\ faults' = faults + 1
    /\ harmed' = harmed \union {"answer"}
    /\ UNCHANGED data

(* One byte of the payload changes: the last one, or one before it.        *)
DamagePacket ==
    /\ faults < MaxFaults
    /\ \E m \in data, h \in Harm :
          /\ m.bad = "none"
          /\ h = "body" => m.len > 1
          /\ data' = Take(data, m) \union {[m EXCEPT !.bad = h]}
          /\ harmed' = harmed \union {h}
    /\ faults' = faults + 1
    /\ UNCHANGED back

PathNext == LosePacket \/ LoseAnswer \/ DamagePacket
=============================================================================
