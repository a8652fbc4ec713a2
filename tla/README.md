# Verification of VTL

VTL (Virtual Transport Layer) moves the transport protocol of two hosts into
eBPF programs, the *grafts*, that can be replaced at run time. This directory
holds TLA+ modules translated from the C code under `src/`, the TLC
configurations that check them on small instances, and TLAPS proofs of what
holds for every instance.

## 1. The system

| Part | Source | State | Operations |
|---|---|---|---|
| Egress graft (tc) | `XTFsPool/store/egress_*_graft.c` | window maps `NUM_SEQ_MAP`, `ACK_WND_MAP`, `BUF_WND_MAP`, `LEN_WND_MAP`; `ACK_PKT_MAP` (SR), `LOST_PKT_MAP` (partial), `NUM_ACK_MAP` (stop-and-wait) | number a packet, save it, send it, wait for the timer, scan the window, retransmit, give up |
| Listener (XDP, sending host) | same files, `_listener_tf()` | the same maps, `QOS_NEGO_MAP` | note an ACK, a NACK, an answer to a negotiation |
| Ingress graft (XDP, receiving host) | `XTFsPool/store/ingress_*_graft.c` | `NUM_ACK_MAP`, `GRAFT_ID_MAP`, `xsks_map` | check, redirect to the application, send back a NACK, note a requested graft |
| Data bridge | `dbr/dbr.c` | reorder buffer (`next_num`, `stored`, `sr_buff`) | deliver and purge, or store |
| AF_XDP sockets and memory | `include/common/xsk_user_helpers.c`, `lib/libbpf/src/xsk.[ch]` | UMEM free list, fill and receive rings, sockets, the map of the program on the interface | create and delete sockets, lend frames, take packets |
| Control bridge, service API | `cbr/cbr.c`, `service_api/service_api.c` | `vtl_socket_t`, resets of the maps | start, send, receive, negotiate, validate |
| Hooker | `XTFsPool/hooker_test_progs.c`, `hooker/hooker.c` | `HK_SOCK_MAP`, `APP_HASH_ID_MAP`, `TCP_HOST_ROLE_MAP`, profiling maps; the daemon | hook a TCP connection, redirect its data, profile SYNs, carry data between hosts |
| Launcher, user interface | `launcher/launcher.c`, `ui/vtl_ui.c`, `include/common/{tc,xdp}_user_helpers.c` | hooks of the interfaces, pins, `progs_count` | deploy a file section by section, remove it; read the menus |
| Network monitor | `net_monitor/net_monitor.c` | three files of the working directory | run `ping`, cut its summary, report round trip and loss |
| libbpf (bundled, linked by launcher, API and Hooker) | `lib/libbpf/src/` | objects, maps, programs, links, pins, BTF, perf rings | open, link, load, pin, attach, read |

The egress graft runs inside the application's `sendto()` and sleeps in
`bpf_vtl_start_timer()`; the listener runs on its own and writes the map the
sleeping or scanning call reads. The ingress graft and the application share
only the receive ring: the graft counts in a kernel map, the application in
statics of `dbr.c`. The Hooker's programs and its daemon meet in two maps, and
the launcher decides which instance of these maps the daemon finds. Whether an
application receives at all depends on three parties: its own AF_XDP socket,
the launcher, which puts a program on the interface, and libbpf, which puts its
default program there when it finds none.

What makes it hard: sequence numbers and events carry no window; the timer may
beat the answer; the path loses, damages, reorders and duplicates; either
application restarts while kernel maps live on; rings and frame lists run out;
one section of a deployment fails after another was attached. `PROJECT.json`
lists these hazards at their lines.

## 2. Modules

    Dbr -> Path -> Sender ---+-> Windowed -> GoBackN
              \--> Receiver -+            -> SelectiveRepeat
                       |                  -> Partial
                       \-> StopWait
    Dbr -> Canonical    Hooker -> MCHooker    XskSocket -> Xsk
    ReliableStream (abstract; instantiated by Windowed)

    BpfOpen -> BpfReloc \
    BpfLink, BpfLoad,    +-> MCLibbpf -\
    Hashmap, Netlink,   /              |
    PerfBuffer                         |
    Btf -> BpfCore, BtfParse,          +-> MCHost
           BtfDedup -> BtfDump         |
                        -> MCTypes ----|
    GraftLoad, HookerDaemon,           |
    NetMonitor, VtlUi -> MCVtl --------|
    BpfObject, Launcher ---------------/

    WindowedProofs -> GoBackNProofs, SelectiveRepeatProofs, PartialProofs
    StopWaitProofs    HookerProofs    XskProofs    BpfObjectProofs

`Calc` holds what `MCLibbpf`, `MCTypes` and `MCVtl` share: the call of one
function, its input and its result.

The data path:

* `Dbr`: events, packet lengths, what `vtl_csum()` can judge, and
  `__process_packet()` as functions on a record. The checksum sums from the
  byte *before* the payload (stable struct padding), so the last payload byte
  is outside the sum; packets are undamaged, damaged where the sum sees it
  (`"body"`) or where it does not (`"last"`).
* `Path` (external): packets in flight as sets, with loss, damage, overtaking
  and duplication. `faults` counts what was lost, damaged or overtaken; `harmed`
  records whether an answer was lost, or a packet damaged and where, for the
  properties that hold only up to then.
* `Sender`: what the three windowed egress grafts share line by line, and the
  map resets of `cbr_create_raw_sock()`. The flush is `pc = "timer"` and
  `pc = "scan"`; the scan is one step per slot, because the listener may write
  between two of them.
* `Receiver`: redirect into the ring (which also makes the ACK), refusal, and
  `dbr_recv()` with its batches. `dbr.out` records every copy to the caller.
* `Windowed`: composition, the properties common to the windowed grafts, and
  `LinkSpec`, an abstract specification of any windowed graft.
* `GoBackN`, `SelectiveRepeat`, `Partial`, `StopWait`: one per transport
  function, each adding its own scan and its own ingress program.
* `Canonical`: the canonical grafts with `vtl_send_data()`, `vtl_recv_data()`,
  `vtl_negotiate()` and `vtl_validate()`. Whether the receiving host also has
  an egress graft is chosen in `Init`. `GraftMapPinned` says that the path
  `vtl_validate()` opens exists; no code of the repository creates it.
* `Hooker`: the three kernel programs and the daemon in both directions
  (`forwards` is chosen at each start). `recv()` is modelled per message.
* `Xsk`: UMEM frames and the batches of `__handle_receive_packets()`, one access
  to shared memory per step, while the kernel receives. It runs on `XskSocket`:
  the rings of `xsk.h` with their cached and wrapping indices, and the creation
  and deletion of UMEM and sockets with every system call failing, beside a
  launcher that attaches and detaches.

The host beside it:

* `Launcher`: deployment and removal as `vtl_ui` drives them. `Native` is the
  set of interfaces with native XDP. Pins may fail, which the launcher only warns
  about, and so may removals; `slipped` records that a Hooker was deployed over
  another, or that a removal left its program or a pin behind.
* `GraftLoad`: the launcher's own ELF loader; and the ingress graft loaded with
  libbpf and attached in either mode, with the retry.
* `VtlUi`: what `scanf()` makes of the keys typed, and the launcher calls that
  follow; an uninitialised variable is a choice of any value.
* `HookerDaemon`: the daemon's start call by call for every transport, its end
  and its loops (the data itself is in `Hooker`).
* `NetMonitor`: the commands of the reports, one per step, on shared files.

libbpf:

* `BpfOpen`, `BpfReloc`: an object file becomes programs, maps
  and externs; its references are linked; externs get their values.
* `Btf`, `BtfParse`, `BtfDedup`, `BtfDump`: types, their reading
  from bytes and rewriting for old kernels, deduplication, and C output.
* `BpfCore`: CO-RE relocation against the kernel's types.
* `BpfObject`: open, load, pin, unpin, close, by processes that share pin paths,
  one system call per step, with failures, rollbacks and deaths.
* `BpfLink`: section names, links, skeletons.
* `BpfLoad`: loading with all its retries; probes of the kernel; what the kernel
  tells of a program.
* `PerfBuffer`, `Netlink`, `Hashmap`: as their names say.

Functions with no interleaving are operators; the MC modules call each one on
a set of inputs, and the property compares the result with a definition of what
it should be that is written from the meaning and not from the algorithm (what
a symbol refers to, which types are the same, how a C compiler would lay out
the text). `MCHost` unites these parts: its `Init` picks one of them, so that
one run covers them all and no product of their states is built.

In a `CASE` whose guards overlap the arms are meant, and evaluated by TLC, from
top to bottom, as the tests of the code are.

`PROJECT.json` maps every definition to its lines.

## 3. Runs

| Run | Question | Distinct states |
|---|---|---|
| `gbn_timely` | Is Go-Back-N a reliable stream over losses and damage until a flush gives up, an answer is lost or a last byte damaged, when the timer outlives the round trip and the receiver starts at any time? What still holds after that? | 369 506 |
| `gbn_untimely` | What survives an early timer, arbitrary delay, reordering, duplication, and restarts of both applications? | 2 377 621 |
| `gbn_stale_ack` | Are "all pkts ACKs" when the flush says so? **Violated**, see section 6. | - |
| `sr_timely` | Is Selective Repeat in order, is its count of ACKs sound, and is what it confirms delivered, until the path does more than lose packets? | 364 006 |
| `sr_untimely` | What is left of it over an arbitrary path that also damages; does every call return? | 253 860 |
| `partial_timely` | How much may partial reliability lose, with lost answers too? | 348 873 |
| `sw_timely` | How many false acknowledgements can stop-and-wait make, and what does the application get? | 38 192 |
| `cano_nego` | What does a negotiation do to later data, and which answers are heard? | 64 504 |
| `hooker` | Does data go where the two maps say, through collisions, closes and daemon restarts? | 1 813 266 |
| `xsk_frames` | Where do frames go, is a socket reachable beside deployments, and is what a failing creation took given back? | 272 523 |
| `host` | Do libbpf, the launcher, the menus, the daemon's start and the monitor do what they are for, with every step failing? | 667 672 |
| `dump_ptr_array` | Does the C that libbpf prints compile? **Violated**, see section 6. | - |

What they show:

* **Go-Back-N** delivers in order, once, complete, as long as no flush gives up,
  the ring does not overflow, each application runs once, no answer is lost and
  no last byte damaged: up to there grafts and reorder buffer implement
  `ReliableStream`. The run goes on beyond, with lost answers and damaged last
  bytes, and shows that what a flush confirms is accepted and delivered even then.
  But a lost ACK may duplicate data: when all packets of a full window were
  accepted and the ACK of the first is lost, `NUM_ACK_MAP` is back where the
  window began, and the window that is sent again is accepted and delivered a
  second time. Without the timer assumption only congruence is left: the k-th packet
  delivered was sent at a place that differs from k by whole windows.
* **Selective Repeat** needs the receiver to be there first (`ServerFirst`), an
  undamaged path and every answer for its ordering properties. A NACKed packet is
  never sent again. A packet whose ACK was lost is, and the ingress graft, which
  looks at no number, accepts it again: it is delivered a window later in place
  of the new one. `sr_timely` damages packets and loses answers, and checks order
  and delivery up to the first of these and the count of ACKs throughout;
  `sr_untimely` drops all assumptions and checks what remains.
* **Partial reliability** loses at most `DEFAULT_LOSS` packets *for each round*
  of a flush, not `DEFAULT_LOSS` in all: the counter is cleared in every round.
* **Stop-and-wait** acknowledges falsely at most once for the zeroed map and
  once per give-up. As all its packets carry number 0, the reorder buffer hands
  over one packet per start of the receiver.
* **Canonical**: after `vtl_negotiate()` no later data reaches the application,
  although the API speaks of going on with the canonical graft (section 6); a
  refusal is heard only from a host without an egress graft.
* **Hooker**: while the daemon runs it gets what hooked applications send, even
  from a connection whose hash is the daemon's entry 0; data from the other host
  goes to a connection of the hash recorded last, which need not be the one it
  was meant for.
* **Xsk**: no frame is in two places, and the frames missing are exactly those
  of processed packets, which never come back. A socket is in the map of the
  program on the interface unless a deployment or a removal came between;
  references and descriptors are accounted for, except for the one reference
  that `xsk_socket__create()` keeps when `socket()` fails, which the property
  counts (`lost`).
* **host**, property by property:
  `ObjectsLinked`, every instruction refers to what its symbol names, for libbpf
  and for the launcher's loader; `LookupsExact`, hash map and section table;
  `LayoutsAgree`, a relocated access reads the field the source names;
  `PinnedMapsShared`, `LoadAllOrNothing`, `UndoesOwnPins`, objects of two
  processes over the same pins; `DedupExact`, types are merged exactly if they
  are the same C type; `DumpFaithful`, the C printed compiles and lays out the
  same types; `PerfInOrder`, records are handed over once, in order, beside a
  writing kernel; `TablesRead`, BTF, program information, line information;
  `AnswersHeard`, netlink, probes, `ping` summaries when nobody else works in
  the directory, and menus as long as no letter is left in the input;
  `KernelTakesObject`, retries load what the kernel can take; `DaemonCanServe`,
  no map is pinned or the one every attached sock_ops program fills, unless
  `slipped`, and the daemon moves data only when it is ready;
  `FailureLeavesNothing`, a deployment, an attachment, a skeleton or a perf
  buffer that fails leaves no program, descriptor or entry behind.

Every property of a passing run has a mutant in `PROJECT.json`: a plausible bug
in a mapped definition under which TLC finds the property violated.

### Bounds

`W = 2` or `3` lets numbers wrap within four packets, which is what the window
hazards need (the code has 16). Lengths are one short and one full packet, since
the code tells only these apart; `Partial` adds a third, the length it sums.
`RetxMax` of 1 to 3 stands for 10; the timely runs of the windowed grafts have as
many faults (`MaxFaults`, lost answers included) as rounds, so that give-ups
happen. The untimely runs have rings of one or two packets, so that overruns
happen; that of Go-Back-N has two, so that `RingAligned` compares neighbours. `MaxSend`, `MaxRecv`, `MaxTxStarts`, `MaxRxStarts`, `MaxCalls`,
`MaxOpens`, `MaxPackets`, `MaxMsgs`, `MaxStarts`, `MaxArrivals` and `MaxDeploys`
only keep the state space finite. `gbn_untimely` and `sr_untimely` use a single
length to stay small; the others mix lengths. In `sr_untimely` no packet is cut
by two bytes or more, so the ingress graft's exit for such a packet is not
reached in a Selective Repeat run. `CHECK_DEADLOCK FALSE` is set because the
system may stop: after the last bounded send nothing is left to do.

`xsk_frames` has two sockets on one UMEM, rings of two entries, four frames and
indices that wrap at 4. In `host`, two processes make up to six calls on objects
with two maps and a program (symmetric in the processes); three deployments of
up to three programs run over an interface with native XDP and one without; a
ring of six units takes five records, so that they wrap and are lost; a byte has
two bits in values of externs; `UintMax` bounds the unsigned numbers of CO-RE. The
product of options is cut where two options do not meet in the code: externs are
one of four sets of up to three; a second relocation of a CO-RE
object is of fewer kinds when the first is relaxed or a load, or has a second
candidate; a colliding hash or unresolved forward declarations are tried with
the second unit in reverse order only.

The inputs of `host` are those a compiler, a kernel or a user makes. Left out,
because the code gives them no meaning or a wrong one (section 6): files whose
symbol table is not the last section or whose `.text` is not the first; externs
of size 0; two different structures of one name of which a unit only declares
one; bitfields in packed structures, and packed structures as members of aligned
ones; pointers to arrays of structures (`PtrToArray = FALSE`); possible CPUs
with gaps and masks whose ranges do not ascend; a perf map with entries made
before; log levels above 1; BTF with a gap before its types; menus with numbers
of two digits.

### Fairness

`FairSpec` asks for weak fairness of the egress call (the kernel runs it to its
end and the timer expires), of the listener and the ingress graft (a packet that
is not lost is processed), and of the receiving application (it receives in a
loop). Sends, starts, losses and damage are never forced. `Canonical` also asks
that `vtl_negotiate()` wakes from `usleep()`.

`Timely` says that the 10 ms timer outlasts every packet in flight. The code does
not ensure it; the runs without it show what then remains.

## 4. Proofs

For all window sizes, lengths, rings, limits, connections, sockets and hashes,
from the named `ASSUME`s of the modules; where a theorem also assumes something
of the path (`Timely`, for one), its statement says so:

* `WindowedProofs` about `LinkSpec`: type correctness with at most `RETX_MAX + 1`
  rounds (`LinkTypeCorrect`); `next_num` never names a stored packet
  (`LinkNextMissing`); delivery is congruent (`LinkDeliveryCongruent`).
  `CongruentDelivery` is not inductive: `Congruent` adds that slots, packets in
  flight, ring and reorder buffer all hold packets whose number is their index
  modulo `W`, and that `next_num` is the number of packets delivered modulo `W`.
  The module begins with the lemmas on arithmetic modulo `W` and on the purge
  loop of the reorder buffer, and ends with those that the grafts share (what the
  receiving host has, and keeps).
* `GoBackNProofs`, `SelectiveRepeatProofs`, `PartialProofs`: every step of the
  graft is a step of `LinkSpec` or a stutter (`GbnIsWindowed`, `SrIsWindowed`,
  `PartialIsWindowed`), and so each inherits the three results.
* Go-Back-N further: `RingStaysAligned` ties the kernel's counter to the
  application's. `ConfirmedAccepted`, under `Timely`: a flush that says all is
  acknowledged is right. `ConfirmInv` adds that nothing older than the current
  window is in flight (`InFlightCurrent`), and that every acknowledgement in the
  map, on the path or passed by the scan is of a packet accepted (`AckedHeld`).
  `GbnRefinesStream`: under `Timely` and with no duplicates, as in `gbn_timely`,
  the grafts and the reorder buffer implement `ReliableStream` until a flush gives
  up, the ring overflows, an application restarts, an answer is lost or a last
  byte damaged. `StreamInv` says that the saved window is the one
  being sent (`WindowInv`), that exactly the first packets, in order, have been
  accepted (`OrderInv`), that a slot is acknowledged or its ACK on the way if and
  only if its packet is among them (`AckInv`), and that each slot has at most one
  packet or answer in flight (`FlightInv`). The `if` of `AckInv` is what a lost
  answer breaks: the retransmission of an accepted packet is refused by a NACK, or,
  when its whole window was accepted, taken for a packet of the next.
* Selective Repeat further: `CountSound`, under `Timely` and without duplicates:
  while each application runs once, `ACK_PKT_MAP` never counts more packets than
  the receiving host has of the window, whatever is lost or damaged, answers
  included. `CountInv` adds that each slot has at most one packet or answer in
  flight and still waits for it (`OneInFlight`), so that no ACK marks a counted
  slot again; that the packet a slot keeps is never replaced in the reorder
  buffer by an older one of its number (`NewestLast`); that what is acknowledged
  is accepted (`AckedHeld`); and that the count is at most the number of slots
  marked as counted (`CountedOnce`). `StreamInOrder`, for the path of `sr_timely`
  (`Timely`, the receiver first, no duplicates): as long as fewer packets were lost
  than a flush has retransmissions, none damaged and no answer lost, the application
  reads the stream that was sent, although flushes may run out of rounds.
  `StreamInv` rests on `CountInv` and says that the slots keep the packets of the
  current window (`WindowInv`) and only these are in flight (`FlightInv`); that a
  packet the receiver has is acknowledged or its ACK on the way (`AckInv`); that a
  packet it does not have was lost each time it was sent, but for a copy in flight
  (`LossInv`), so that after the last round it must have all of them; and that the
  ring holds each packet once, behind all packets of earlier windows (`OrderInv`),
  which is what keeps the reorder buffer from taking one for another of its number.
  Facts on the size of a set of slots enter as `SlotsCount`, proved at the end.
* Partial reliability further: `LossBounded`, under `Timely`: a flush that ends
  before its last round leaves behind at most `DEFAULT_LOSS` packets for each round
  it took. `PartialInv` adds that what is in flight is of the current window
  (`InFlightCurrent`), that the packet a slot keeps is the newest of its number
  (`NewestLast`), that what is acknowledged is accepted (`AckedHeld`), and, for
  each point of the scan, that the packets lacking before it are at most those
  tolerated in earlier rounds and those counted in this one (`LossInv`).
* `StopWaitProofs`: at most one packet is handed over per start
  (`OnePacket`, over any path), because all carry number 0 and the reorder buffer
  advances past it (`OneOutInv`); false acknowledgements are bounded
  (`FalseAcksBounded`, under `Timely`). For the bound, `FlightInv` says that what
  is in flight is of the current call, and `FalseInv` counts a `RECV_ACK` in
  `NUM_ACK_MAP` that belongs to no call as one to come.
* `HookerProofs`: hooked data reaches the running daemon, data from the other
  host goes to a connection of the recorded hash, and a saved SYN is registered.
  The inductive invariant adds that a connection sits only under its own hash,
  that entry 0 is the daemon's while it runs, and that `APP_HASH_ID_MAP` is the
  hash of the connection recorded last.
* `BpfObjectProofs`: maps of any number of objects that are pinned at one path
  are one kernel object (`SharedMaps`), and a load that fails unlinks only pins
  it made (`OwnPinsUndone`), both unless a third party unlinked the path (`cut`);
  a load gives every map and program a descriptor or leaves none
  (`AllOrNothing`). None is inductive: `ObjectInv` adds that a pin is the map's own kernel
  object and who made it (`PinInv`), that a map has the definition of its
  object (`FieldInv`), which maps can be pinned at which point of a call
  (`ControlInv`), which descriptors are open there (`LoadInv`), and that a
  pin somebody made and nobody unlinked is there (`MakerInv`). One lemma says what each kind of change of a map or a pin
  preserves, and each action is then a use of one of these.
* `XskProofs`: a socket stays reachable (`Reachable`), references and descriptors
  are accounted for (`Resources`), and the reservation of the entries just counted
  never fails (`Reservation`). `SkInv` adds what a socket holds at each step of
  its creation (`MakeInv`), the account as sets of sockets whose sizes are known
  to be finite (`AccountInv`), and what a creation saw on the interface, which
  may have changed since (`LookInv`). `LoopInv` says that between looking and
  reserving the producer's own cached indices still show as many free entries as
  were counted: the kernel moves the shared indices only. `FramesKept`: no frame
  is ever in two places and none is lost but to a packet that was taken.
  `FrameInv` adds how the indices of both rings lie, counted from their consumers
  because they wrap (`IndexInv`), that nothing is left of the rings when no socket
  is in use (`BareInv`), and that the frames not lost are a finite set without the
  invalid one. The lemmas before it say where the entry that follows another lies
  when an index wraps (which needs sizes that divide `Wrap`), that what is put
  behind the entries in use overwrites none of them, and how a frame moves from
  the free list to the fill ring, to the receive ring and back.

`NextIsMissing` and `IsWindowed` are checked by TLC for Go-Back-N and proved for
all three windowed grafts.

Only model-checked: liveness, which is out of the prover's reach; the results of
the recursive algorithms of libbpf, which would need induction over data;
everything about `Canonical`, `PerfBuffer` and `Launcher`, for which no inductive
invariant has been worked out.

## 5. What is not modelled

* Data path: header damage; failure of `calloc()` in the reorder buffer (a
  refused packet does appear in `Xsk`); the content of the caller's buffer, into
  which all packets of one `dbr_recv()` are copied at the same place;
  `cnt_bytes` beyond its value; the TCP option parser of the Hooker, which only
  prints, and its option length query.
* Launcher: pins made by `tc` and `ip` themselves; the write beyond `progs_fd[]`
  once `progs_count` has passed its limit; static functions nothing calls
  (`check_map_fd_info()`, `open_bpf_map_file()`, `pin_maps_in_bpf_object()`).
* Daemon: what a transport does with the bytes; quicly and nDPI are empty
  submodules.
* libbpf: `bpf_map__set_pin_path()`, programs of several instances and
  `bpf_object__unpin_programs()` as calls of a client in `BpfObject`; failures of
  `unlink()` and `statfs()`; netlink answers longer than the buffer; wrappers of
  one system call and accessors of one field, which change nothing; big-endian
  files; the texts of messages.
* Programs outside the system: stand-alone tests, video and IETF applications,
  measurement scripts, superseded copies of the Hooker.
* Declarations: about half of the C lines of the repository are headers of the
  kernel, most of them in three or four copies.

The modules model just under a third of all lines in C files and headers.

## 6. Disagreements between code and text

Checked by a run:

`gbn_stale_ack`. The flush's exit is commented "All pkts are
ACKs" (`src/XTFsPool/store/egress_gobackn_graft.c:197`); a late or duplicated ACK
of the previous window fills a slot of this one, and the call returns although
the packet was never accepted.

`dump_ptr_array`. `btf_dump__dump_type()` is to "Dump BTF type in a compilable C
syntax, including all the necessary dependent types" (`btf_dump.c:205`).
`btf_dump_order_type()` passes `through_ptr` on to the elements of an array (line
447): for `struct A { struct B (*p)[3]; }` only a forward declaration of `B`
precedes `A`, and C has no arrays of incomplete types.

Met while modelling, visible in the models, with no run of their own:

* `egress_sr_graft.c:54`, "Number of acked packets": over a path that duplicates,
  a second ACK re-arms a counted slot and it is counted twice; an ACK still on its
  way when the sending application restarts is counted for a packet of the new run.
* `ingress_partial_graft.c:103`, "in sequence": numbers are never compared.
* `service_api.c:154` and `:182`, "Keep sending with canonical.", and `:222`,
  "Fallback to cano": `vtl_negotiate()` has put gid 10 into the socket and never
  takes it out, so that data sent afterwards is taken for requests and does not
  reach the application, whatever the answer was. `cano_nego` checks just that
  (`NegotiationEndsData`).
* `service_api.c:220`, "Graft not available": a one-byte value is read into an
  `int` of -1, so every requested graft is refused.
* `egress_cano_graft.c:70`, "only two types of packets": answers of
  `vtl_validate()` pass there and become requests.
* `index.md:23`, "the right socket": one entry of `APP_HASH_ID_MAP` serves all
  connections. `index.md:25`: the daemon sends `strlen()` bytes, up to a NUL.
* `hooker_test_progs.c:310`, "No need to add option": `option_type` starts as
  65535, so one is added. Line 261: one saved SYN serves all handshakes.
* `tests/vtl_apps/vtl_client.c:78`, "Continue to recv data": frames of processed
  packets never return to the free list.
* `launcher.c:722`, "zero on success": 0 also when a later section failed.
  Line 233: the ingress loader passes `MAX_TF_PROGS` without a check. Line 636:
  the assertion admits one map more than there is room for. Lines 586 to 600: a
  relocation matches by offset alone, and one that fails does not stop the load.
* `vtl_ui.c:255`, "return to main menu or exit ? (M or E)": `scanf("%c")` reads
  the newline typed before, so the letter is taken by the next `scanf("%d")`,
  which fails and leaves its variable unset.
* `hooker.c:189`, "Fallback to TCP !": no socket is made; descriptor 0 is bound,
  which fails, and the daemon ends. Line 45: the value of `SO_REUSEADDR` is not
  initialised. QUIC failures return `errno`, which may be 0.
* `net_monitor.c`: two callers share their files; a summary with "+N errors"
  has the loss in another field; a buffer nothing was read into is reported.
* `xdp_user_helpers.c`: an object stays loaded when its attachment fails.
* `btf.c:1158`: strings of `.BTF.ext` function records do not follow
  deduplication. `btf.h:132`, "optional field name": a null one is read.
* `btf_dump.c:205`, "Full struct/union definitions will still be emitted": not
  those reached only through a pointer. `hashmap.h:75`: of several entries of a
  key, the last inserted is found only until the table grows.
* `libbpf.c`, `load_program()`: "continue without log" is followed by a call that
  refuses a size without a buffer. Line 4019 speaks of any ambiguity between
  candidates, line 4125 compares offsets only. Line 3736, "enums
  will be assumed unsigned": an enum is reported as signed. `pin_maps` rolls back maps that
  were pinned before the call; `loaded` stays set after a load that failed.
* `xsk.c:610`: a reference is kept when `socket()` fails; line 302: a mapping is.

## 7. Plan

1. Proofs of the invariants of `Canonical`.
2. Short retransmissions for Selective Repeat with damage, in mixed lengths.
3. `calloc()` failure in `Receiver`, and the caller's buffer.
4. A composition of the Hooker's two hosts over a transport function.
5. The checksum as a function on bytes, against the abstraction in `Dbr`.
