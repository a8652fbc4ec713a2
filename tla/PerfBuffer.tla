----------------------------- MODULE PerfBuffer -----------------------------
(***************************************************************************)
(* Perf buffers (src/lib/libbpf/src/libbpf.c): the ring of one CPU, which  *)
(* the kernel writes while a process reads it, and the making of the       *)
(* buffers of all CPUs.  The unit of length is 8 bytes, to which the       *)
(* kernel aligns records, so that a header is never cut by the end of the  *)
(* ring.  A unit is <<record, number in the record, size of the record,    *)
(* type>>; a record of type "lost" carries the number lost as its type's   *)
(* second part.                                                            *)
(*                                                                         *)
(* A ring is q: the memory mem, head and tail, which never wrap (64 bits), *)
(* the records the kernel wrote and dropped (written, dropped) and has not *)
(* yet told of (lost), and the reader: whether it is in                    *)
(* bpf_perf_event_read_simple() (reading), its data_head, data_tail, ret   *)
(* and the size of its copy buffer (copy), and the records it handed to    *)
(* the callbacks (seen).                                                   *)
(***************************************************************************)
EXTENDS Integers, Sequences, SequencesExt

CONSTANT RingSize      \* mmap_size

LostSize == 2

NewRing ==
    [mem |-> [i \in 0 .. RingSize - 1 |-> <<0, 0, 0, <<"none", 0>>>>], head |-> 0, tail |-> 0,
     written |-> <<>>, dropped |-> 0, lost |-> 0,
     reading |-> FALSE, data_head |-> 0, data_tail |-> 0, ret |-> "CONT", copy |-> 0, seen |-> <<>>]

Record(id, size, type) == [k \in 1 .. size |-> <<id, k, size, type>>]

\* The kernel puts a record at the head.
Put(q, rec) ==
    [q EXCEPT !.mem = [i \in DOMAIN q.mem |-> LET k == (i - q.head) % RingSize
                                              IN  IF k < Len(rec) THEN rec[k + 1] ELSE q.mem[i]],
              !.head = @ + Len(rec), !.written = Append(@, rec)]

\* The kernel writes a record if it fits, after one that tells how many did
\* not fit; one unit stays free.
KernelWrite(q, size, type) ==
    LET free == RingSize - 1 - (q.head - q.tail)
        need == size + IF q.lost > 0 THEN LostSize ELSE 0
        told == IF q.lost = 0 THEN q
                ELSE [Put(q, Record(Len(q.written) + 1, LostSize, <<"lost", q.lost>>)) EXCEPT !.lost = 0]
    IN  IF free < need THEN [q EXCEPT !.lost = @ + 1, !.dropped = @ + 1]
        ELSE Put(told, Record(Len(told.written) + 1, size, <<type, 0>>))

----------------------------------------------------------------------------
\* bpf_perf_event_read_simple()

ReadStart(q) ==
    [q EXCEPT !.reading = TRUE, !.data_head = q.head, !.data_tail = q.tail, !.ret = "CONT"]

\* The record at data_tail: in place, or put together from both ends
Offset(q) == q.data_tail % RingSize
EventSize(q) == q.mem[Offset(q)][3]
Wraps(q) == Offset(q) + EventSize(q) > RingSize
Event(q) ==
    LET len_first == RingSize - Offset(q)
        len_secnd == EventSize(q) - len_first
        At(from, n) == [k \in 1 .. n |-> q.mem[from + k - 1]]
    IN  IF Wraps(q) THEN At(Offset(q), len_first) \o At(0, len_secnd) ELSE At(Offset(q), EventSize(q))

\* perf_buffer__process_record(); a callback for whole events decides itself.
perf_buffer__process_record(type, raw, answer) ==
    CASE raw -> answer
      [] ~raw /\ type[1] \in {"sample", "lost"} -> "CONT"
      [] OTHER -> "ERROR"

\* One turn of the loop; noMemory: malloc() of a larger copy buffer fails
ReadRecord(q, raw, answer, noMemory) ==
    LET grows == Wraps(q) /\ q.copy < EventSize(q)
        rec == Event(q)
    IN  IF grows /\ noMemory THEN [q EXCEPT !.copy = 0, !.ret = "ERROR"]
        ELSE [q EXCEPT !.copy = IF grows THEN EventSize(q) ELSE @,
                       !.ret = perf_buffer__process_record(rec[1][4], raw, answer),
                       !.data_tail = @ + EventSize(q), !.seen = Append(@, rec)]

ReadGoesOn(q) == q.data_head # q.data_tail /\ q.ret = "CONT"

\* Mutant of NewTail: all that was there when the reader began
NewTailHead(q) == q.data_head
NewTail(q) == q.data_tail
ReadEnd(q) == [q EXCEPT !.tail = NewTail(q), !.reading = FALSE]

----------------------------------------------------------------------------
(***************************************************************************)
(* CPU masks, given as the ranges <<start, end>> of the file ("3" being    *)
(* <<3, 3>>).  Results are [err, mask], mask[cpu + 1] telling of cpu.      *)
(***************************************************************************)
BadMask == [err |-> -22, mask |-> <<>>]

parse_cpu_mask_str(ranges, noMemory) ==
    LET Grow(acc, r) ==
          CASE acc.err # 0 -> acc
            [] acc.err = 0 /\ (r[1] < 0 \/ r[1] > r[2]) -> BadMask
            [] acc.err = 0 /\ noMemory -> [BadMask EXCEPT !.err = -12]
            [] OTHER -> [acc EXCEPT !.mask = [i \in 1 .. r[2] + 1 |->
                                                  IF i <= Len(acc.mask) /\ i <= r[1] THEN acc.mask[i] ELSE i > r[1]]]
        done == FoldLeft(Grow, [err |-> 0, mask |-> <<>>], ranges)
    IN  IF done.err = 0 /\ done.mask = <<>> THEN BadMask ELSE done

\* libbpf_num_possible_cpus(), or an error
libbpf_num_possible_cpus(ranges) ==
    LET m == parse_cpu_mask_str(ranges, FALSE)
    IN  IF m.err # 0 THEN m.err ELSE Len(SelectSeq(m.mask, LAMBDA on : on))

(***************************************************************************)
(* __perf_buffer__new(): p holds the arguments (page_cnt, cpus and         *)
(* map_keys, empty if all CPUs are meant), what the system tells (the      *)
(* map's type and max_entries, possible, online) and the step that fails   *)
(* (fail), in the turn at, if it is one of the loop.  The result holds     *)
(* what is open: the buffers bufs, the map's entries and what epoll        *)
(* watches.                                                                *)
(***************************************************************************)
FailedPerf(err) == [err |-> err, epoll |-> FALSE, bufs |-> <<>>, map |-> <<>>, watched |-> {}]
PerfDescr(cpu) == <<"perf", cpu>>

\* perf_buffer__open_cpu_buf()
perf_buffer__open_cpu_buf(cpu, map_key, fail) ==
    LET buf == [cpu |-> cpu, map_key |-> map_key, fd |-> PerfDescr(cpu), mapped |-> TRUE]
    IN  IF fail \in {"calloc", "event", "mmap", "enable"} THEN <<>> ELSE <<buf>>

\* Mutant of perf_buffer__free: the entries stay in the map
FreeNoDelete(pb, err) == [FailedPerf(err) EXCEPT !.map = pb.map]
\* perf_buffer__free() of what was made, on the way out with err
perf_buffer__free(pb, err) ==
    LET keys == {pb.bufs[i].map_key : i \in DOMAIN pb.bufs}
        Kept(e) == e[1] \notin keys
    IN  [FailedPerf(err) EXCEPT !.map = SelectSeq(pb.map, Kept)]

\* The body of the loop for CPU number i (from 0)
OpenCpu(pb, p, online, i) ==
    LET all == p.cpus = <<>>
        cpu == IF all THEN i ELSE p.cpus[i + 1]
        key == IF all THEN i ELSE p.map_keys[i + 1]
        fail == IF i = p.at THEN p.fail ELSE ""
        buf == perf_buffer__open_cpu_buf(cpu, key, fail)
        with == [pb EXCEPT !.bufs = Append(@, buf[1])]
        entered == [with EXCEPT !.map = Append(@, <<key, buf[1].fd>>)]
    IN  CASE pb.err # 0 -> pb
          [] pb.err = 0 /\ all /\ (cpu >= Len(online) \/ (cpu < Len(online) /\ ~online[cpu + 1])) -> pb
          [] OTHER -> CASE buf = <<>> -> perf_buffer__free(pb, -5)
                        [] buf # <<>> /\ fail = "update" -> perf_buffer__free(with, -5)
                        [] buf # <<>> /\ fail = "epoll_ctl" -> perf_buffer__free(entered, -5)
                        [] OTHER -> [entered EXCEPT !.watched = @ \cup {buf[1].fd}]

__perf_buffer__new(p) ==
    LET n == IF p.cpus # <<>> THEN Len(p.cpus) ELSE libbpf_num_possible_cpus(p.possible)
        cpu_cnt == IF p.cpus # <<>> \/ n <= p.max_entries THEN n ELSE p.max_entries
        online == parse_cpu_mask_str(p.online, p.fail = "online")
        Open(pb, i) == OpenCpu(pb, p, online.mask, i)
    IN  CASE p.page_cnt # 0 /\ \A e \in 0 .. p.page_cnt : p.page_cnt # 2 ^ e -> FailedPerf(-22)
          [] p.fail = "info" -> FailedPerf(-5)
          [] p.map_type # "PERF_EVENT_ARRAY" -> FailedPerf(-22)
          [] p.fail \in {"pb", "epoll"} -> FailedPerf(-5)
          [] n < 0 -> FailedPerf(n)
          [] p.fail \in {"events", "bufs"} -> FailedPerf(-12)
          [] online.err # 0 -> FailedPerf(online.err)
          [] OTHER -> FoldLeft(Open, [FailedPerf(0) EXCEPT !.epoll = TRUE], [i \in 1 .. cpu_cnt |-> i - 1])

=============================================================================
