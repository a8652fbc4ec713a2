---------------------------- MODULE HookerDaemon ----------------------------
(***************************************************************************)
(* The Hooker's daemon (hooker/hooker.c) as one process: it waits for the  *)
(* pinned map, makes its sockets call by call, puts the redirector socket  *)
(* into entry 0 of the map and moves data between it and the transport     *)
(* that was selected.  Any call may fail.                                  *)
(***************************************************************************)
EXTENDS Integers, Sequences, SequencesExt, FiniteSets

L4Protos == {"UDP", "UDPLITE", "DCCP", "SCTP", "QUIC"}     \* the cases of the switch
Connected == {"DCCP", "SCTP"}

\* The calls of hk_init_sockets(), in their order
HkSocketCalls ==
    <<"socket redir", "socket phony", "reuse phony", "nonblock phony", "bind phony", "listen phony",
      "reuse redir", "bind redir", "connect redir", "accept phony">>

GraftSocket(proto) ==
    CASE proto = "UDPLITE" -> <<"socket graft", "coverage graft">>
      [] proto = "DCCP" -> <<"socket graft", "service graft">>
      [] proto \in {"UDP", "SCTP"} -> <<"socket graft">>
      [] proto = "QUIC" -> <<"quic init">>
      [] OTHER -> <<>>                             \* "Fallback to TCP !": there is no socket
BindNone(proto) == <<>>
BindGraft(proto) == IF proto = "QUIC" THEN <<>> ELSE <<"bind graft">>
AcceptGraft(proto) ==
    CASE proto = "DCCP" -> <<"listen graft", "accept graft">>
      [] proto = "SCTP" -> <<"initmsg graft", "listen graft", "accept graft">>
      [] proto = "QUIC" -> <<"quic accept">>
      [] OTHER -> <<>>
InitCalls(proto) ==
    HkSocketCalls \o GraftSocket(proto) \o <<"reuse graft">> \o BindGraft(proto) \o AcceptGraft(proto)

\* Calls whose result is not looked at, and calls into the QUIC library,
\* which need not set errno
Unchecked == {"coverage graft", "service graft", "reuse graft"}
QuicCalls == {"quic init", "quic accept"}

(* The kernel: the calls that fail, the value the uninitialised `one` has  *)
(* as SO_REUSEADDR, and the ports an earlier daemon left in TIME_WAIT.     *)
Takes(call, done, k) ==
    /\ call \notin k.fails
    /\ call = "bind phony" => k.one \/ "phony" \notin k.waiting
    /\ call = "bind redir" => k.one \/ "redir" \notin k.waiting
    /\ call = "bind graft" => "socket graft" \in done      \* or descriptor 0 is bound, no socket

(* hk_init_sockets() returns errno: an error, except that a failure of the *)
(* QUIC library may leave the value 0 there.                               *)
hk_init_sockets(proto, k) ==
    LET Step(s, call) ==
            CASE s.over -> s
              [] ~s.over /\ Takes(call, s.done, k) -> [s EXCEPT !.done = @ \cup {call}]
              [] OTHER -> IF call \in Unchecked THEN s
                          ELSE [s EXCEPT !.over = TRUE, !.ret = IF call \in QuicCalls THEN k.errno ELSE 1]
    IN  FoldLeft(Step, [over |-> FALSE, ret |-> 0, done |-> {}], InitCalls(proto))

\* `to`: the remote host, then whoever connected
PeerOf(proto, done) == IF "accept graft" \in done THEN "whoever connected" ELSE "remote_ip"

(* main(): how far it comes, and which loop it enters. *)
HkMain(proto, args, k) ==
    LET s == hk_init_sockets(proto, k)
        Ends(at) == [at |-> at, done |-> s.done, to |-> PeerOf(proto, s.done)]
    IN  CASE ~k.pinned -> [Ends("waits") EXCEPT !.done = {}]
          [] k.pinned /\ Len(args) # 2 -> [Ends("usage") EXCEPT !.done = {}]
          [] k.pinned /\ Len(args) = 2 /\ s.ret # 0 -> Ends("failed")
          [] k.pinned /\ Len(args) = 2 /\ s.ret = 0 /\ "map update" \in k.fails -> Ends("failed")
          [] OTHER -> Ends(IF args[2] \in {"server", "SERVER"} THEN "listen" ELSE "sendto")

----------------------------------------------------------------------------
(* One turn of a loop moves `data`.  `app` is what the redirector socket   *)
(* answers ("closed": the end of the stream, read as empty data every      *)
(* time), `answers` what the transport does: "again" is EAGAIN or, for     *)
(* QUIC, nothing there yet.  A loop is over when it moves nothing more: it *)
(* returned, or asks a transport that never answers.                       *)
EmptyData == "empty"
LoopStart == [sent |-> <<>>, over |-> FALSE]
FirstAnswer(answers) == answers[1]
FinalAnswer(answers) == LET real == SelectSeq(answers, LAMBDA a : a # "again")
                        IN  IF real = <<>> THEN "again" ELSE real[1]

\* DCCP goes on after an error other than EAGAIN; the others return.
GoesOnAfterError(proto) == proto = "DCCP"

hk_listen_app(proto, turns) ==
    LET Turn(s, t) ==
            LET answer == IF proto = "DCCP" THEN FinalAnswer(t.answers) ELSE t.answers[1]
                data == IF t.app = "closed" THEN EmptyData ELSE t.data
            IN  CASE s.over -> s
                  [] ~s.over /\ t.app = "error" -> [s EXCEPT !.over = TRUE]
                  [] ~s.over /\ t.app # "error" /\ answer = "ok" -> [s EXCEPT !.sent = Append(@, data)]
                  [] OTHER -> [s EXCEPT !.over = answer = "again" \/ ~GoesOnAfterError(proto)]
    IN  FoldLeft(Turn, LoopStart, turns)

\* The result of vtl_quic_recv() is not looked at, only whether data came.
\* Nor is that of sctp_recvmsg(): the buffer is still all zeroes, which the
\* send() to the application turns into nothing.
hk_sendto_app(proto, turns) ==
    LET Turn(s, t) ==
            LET answer == IF proto = "QUIC" THEN FinalAnswer(SelectSeq(t.answers, LAMBDA a : a # "error"))
                          ELSE t.answers[1]
                unnoticed == proto = "SCTP"
            IN  CASE s.over -> s
                  [] ~s.over /\ answer # "ok" /\ ~unnoticed -> [s EXCEPT !.over = TRUE]
                  [] ~s.over /\ (answer = "ok" \/ unnoticed) /\ t.app = "error" -> [s EXCEPT !.over = TRUE]
                  [] OTHER -> [s EXCEPT !.sent = Append(@, IF answer = "ok" THEN t.data ELSE EmptyData)]
    IN  FoldLeft(Turn, LoopStart, turns)

=============================================================================
