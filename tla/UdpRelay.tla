-------------------------------- MODULE UdpRelay --------------------------------
(***************************************************************************)
(* The UDP side of tun2socks on Android: SocksUdpGwClient keeps one        *)
(* connection for each local address of an app, each with its own datagram *)
(* socket (BDatagram), a BufferWriter and a PacketBuffer towards it and a  *)
(* SinglePacketBuffer from it.  A DNS query goes to the DNS gateway as it  *)
(* is, everything else to the SOCKS server behind a header that names the  *)
(* remote address; replies come back the same way.                         *)
(*                                                                         *)
(* As in SocksClient a step is one turn of the reactor's loop.  o holds    *)
(* what the calls out of a turn return: whether a write fills the socket   *)
(* (full), what fails in connection_init (fail), and whether a reply       *)
(* without a proper header happens to parse as one that has it (parse).    *)
(***************************************************************************)
EXTENDS Reactor, ChunkBuffer2, SequencesExt, FiniteSetsExt

CONSTANTS
    Local,              \* local addresses
    Inputs,             \* what apps send: [remote, query, len], len in blocks
    NameServers,        \* remote addresses with port 53
    Stranger,           \* a remote address that is heard from unasked
    Junk,               \* what is no address of anyone
    None,
    max_connections,
    udp_mtu,            \* in blocks
    BUFFER_SIZE,        \* CONNECTION_UDP_BUFFER_SIZE
    Faults,             \* of {"memory", "error", "malformed"}
    MaxPackets,         \* bound: packets from the device
    MaxReplies,         \* bound: replies to one connection
    MaxErrors           \* bound: errors of one socket

VARIABLES
    k,                  \* the connections, by local address (connections_tree)
    connections_list,   \* least recently used first
    net,                \* their sockets and what is behind them
    jobs, results,      \* of the reactor, as in SocksClient
    device,             \* the packet the device's buffer holds, or None
    count,              \* packets read from the device
    quitting,           \* the reactor has been told to quit
    overrun,            \* a packet has been written past what the writer was given
    ok                  \* no ASSERT has failed and nothing freed has been used

vars == <<k, connections_list, net, jobs, results, device, count, quitting, overrun, ok>>

Flows == {"in", "out", "rcv", "up"}
HEADER == 1             \* socks_udp_header and address, in blocks

is_dns(q) == q.remote \in NameServers /\ q.query

Absent == [live |-> FALSE]
Closed == [room |-> TRUE, err |-> FALSE, in |-> <<>>, sent |-> <<>>, replies |-> 0, errors |-> 0]

Use(x) == Require(x, x.k.live)

(***************************************************************************)
(* PacketBuffer, from the writer ("in") to the socket ("out").             *)
(***************************************************************************)
Receiver_Recv(x) == [Interface_Operate(x, "in") EXCEPT !.k.dest = end(x.k.ring) + 1]

Sender_Send(x) == [Interface_Operate(x, "out") EXCEPT !.k.sdata = x.k.ring.start]

input_handler_done(x) ==
    LET b == x.k.ring
        c == SubmitPacket(b, x.k.written)
        d == [Require(x, CanSubmit(b, x.k.written) /\ x.k.dest = end(b) + 1)
                 EXCEPT !.k.ring = c, !.k.written = None]
        e == IF c.input_avail >= udp_mtu THEN Receiver_Recv(d) ELSE d
    IN  IF b.output_avail < 0 THEN Sender_Send(e) ELSE e

\* Fault: the writer is not asked again.
output_handler_done_never(x) ==
    LET c == ConsumePacket(x.k.ring)
        d == [Require(x, CanConsume(x.k.ring)) EXCEPT !.k.ring = c]
    IN  IF c.output_avail >= 0 THEN Sender_Send(d) ELSE d

output_handler_done(x) ==
    LET b == x.k.ring
        c == ConsumePacket(b)
        d == [Require(x, CanConsume(b)) EXCEPT !.k.ring = c]
        e == IF b.input_avail < udp_mtu /\ c.input_avail >= udp_mtu
             THEN Receiver_Recv(d) ELSE d
    IN  IF c.output_avail >= 0 THEN Sender_Send(e) ELSE e

(***************************************************************************)
(* BDatagram.  An error of the socket is reported to dgram_handler, which  *)
(* only logs it: what was being sent or received stays so, with no event   *)
(* awaited, and the socket remains in use, although BDatagram.h has it     *)
(* freed from within the handler.  DEBUGERROR, which would enforce that,   *)
(* and DebugError_AssertNoError are empty in the build (Android.mk defines *)
(* NDEBUG).  failed records the error for the properties.                  *)
(***************************************************************************)
report_error(x, what) == [x EXCEPT !.k.failed = @ \cup {what}]

SyscallFailed(x, what) == report_error([x EXCEPT !.net.err = FALSE], what)

start_recv(x) ==
    LET d == [x EXCEPT !.k.started = TRUE]
    IN  IF ~x.k.started /\ x.k.rbusy THEN BPending_Set(d, <<"rcv", "job">>) ELSE d

do_send(x, o) ==
    LET d == Require(x, x.k.sbusy)
        counted == [d EXCEPT !.k.slimit = @ + 1, !.k.failed = @ \ {"send"}]
    IN  CASE LimitReached(d.k.slimit) -> wait_for_fd(d, "W")
          [] OTHER ->
             CASE d.net.err                -> SyscallFailed(counted, "send")
               [] ~d.net.err /\ ~d.net.room -> wait_for_fd(counted, "W")
               [] OTHER ->
                  Interface_Done(start_recv([counted EXCEPT !.k.sbusy = FALSE,
                                    !.net.room = ~o.full,
                                    !.net.sent = Append(@, d.k.ring.data[d.k.sdata])]),
                                 "out")

do_recv(x, o) ==
    LET d == Require(x, x.k.rbusy /\ x.k.started)
        counted == [d EXCEPT !.k.rlimit = @ + 1, !.k.failed = @ \ {"recv"}]
    IN  CASE LimitReached(d.k.rlimit) -> wait_for_fd(d, "R")
          [] OTHER ->
             CASE d.net.err                      -> SyscallFailed(counted, "recv")
               [] ~d.net.err /\ d.net.in = <<>>  -> wait_for_fd(counted, "R")
               [] OTHER ->
                  Interface_Done([counted EXCEPT !.k.rbusy = FALSE, !.k.rbuf = Head(d.net.in),
                                                 !.net.in = Tail(@)],
                                 "rcv")

fd_handler(x, events, o) ==
    LET d == BReactor_SetFileDescriptorEvents(x, x.k.wait \ events)
        have_send == "W" \in events \/ ("E" \in events /\ d.k.sbusy)
        have_recv == "R" \in events \/ ("E" \in events /\ d.k.rbusy /\ d.k.started)
        e == Require(d, /\ have_send => d.k.sbusy
                        /\ have_recv => d.k.rbusy /\ d.k.started)
    IN  CASE have_send /\ have_recv  -> do_send(BPending_Set(e, <<"rcv", "job">>), o)
          [] have_send /\ ~have_recv -> do_send(e, o)
          [] ~have_send /\ have_recv -> do_recv(e, o)
          [] OTHER                   -> report_error(e, "send")

send_if_handler_send(x) ==
    BPending_Set([Require(x, ~x.k.sbusy) EXCEPT !.k.sbusy = TRUE], <<"out", "job">>)

recv_if_handler_recv(x) ==
    LET d == [Require(x, ~x.k.rbusy) EXCEPT !.k.rbusy = TRUE]
    IN  IF d.k.started THEN BPending_Set(d, <<"rcv", "job">>) ELSE d

SendAsync_Free(x) ==
    Interface_Free(BPending_Unset(BReactor_SetFileDescriptorEvents(x, x.k.wait \ {"W"}),
                                  <<"out", "job">>), "out")

RecvAsync_Free(x) ==
    Interface_Free(BPending_Unset(BReactor_SetFileDescriptorEvents(x, x.k.wait \ {"R"}),
                                  <<"rcv", "job">>), "rcv")

BDatagram_Free(x) ==
    [BReactor_RemoveFileDescriptor(x, "dgram") EXCEPT !.k.watched = FALSE, !.net = Closed]

(***************************************************************************)
(* A connection.  asked records what was submitted to it, accepted what it *)
(* took, in order.                                                         *)
(***************************************************************************)
\* Fault: the socket is left open and stays with the reactor.
connection_free_kept(x) ==
    [SendAsync_Free(RecvAsync_Free(Interface_Free(Interface_Free(x, "up"), "in")))
        EXCEPT !.k = Absent, !.net = Closed]

connection_free(x) ==
    LET d == Require(Use(x), <<x.i, "first", "job">> \notin ToSet(x.jobs))
    IN  [BDatagram_Free(SendAsync_Free(RecvAsync_Free(
            Interface_Free(Interface_Free(d, "up"), "in")))) EXCEPT !.k = Absent]

\* The packet as it goes into the buffer: behind a header unless it is DNS.
Message(c, p) ==
    [id |-> p.id, dns |-> is_dns(p), remote |-> p.remote,
     hdr |-> IF c.is_dns THEN None ELSE c.remote,
     len |-> p.len + (IF c.is_dns THEN 0 ELSE HEADER)]

\* BufferWriter_StartPacket and BufferWriter_EndPacket around the copy.  The
\* buffers are made for udp_mtu bytes with the header, and nothing checks that
\* payload and header fit: where they do not, the copy passes the end of what
\* the writer was given, and what becomes of the neighbouring memory is left
\* open, no step of the model following.
connection_send(x, p) ==
    LET m == Message(x.k, p)
    IN  IF ~x.k.out_have THEN x
        ELSE Interface_Done([x EXCEPT !.k.out_have = FALSE, !.k.written = m,
                                      !.overrun = m.len > udp_mtu],
                            "in")

\* first_data points into the buffer of the device.
connection_first_job_handler(x) ==
    connection_send([Require(x, x.device = x.k.first) EXCEPT !.k.first = None], x.k.first)

Connection(p) ==
    [live |-> TRUE, remote |-> p.remote, is_dns |-> is_dns(p),
     to |-> IF is_dns(p) THEN "dnsgw" ELSE "socks",
     first |-> p, out_have |-> FALSE, dest |-> 0, written |-> None,
     ring |-> Init_(calc_blocks(udp_mtu, BUFFER_SIZE), udp_mtu), sdata |-> 0,
     flow |-> [f \in Flows |-> "none"], watched |-> TRUE, wait |-> {},
     slimit |-> 0, rlimit |-> 0, sbusy |-> FALSE, rbusy |-> FALSE, started |-> FALSE,
     rbuf |-> None, failed |-> {}, asked |-> {}, accepted |-> <<>>, wrong |-> FALSE]

\* Fault: the first packet is written before there is a buffer for it.
connection_init_last(x, p, o) ==
    LET d == Interface_Operate(Receiver_Recv([x EXCEPT !.k = Connection(p)]), "rcv")
    IN  IF o.fail # "none" THEN x ELSE BPending_Set(d, <<"first", "job">>)

\* Where a step fails, those before it are undone: the interfaces and the
\* jobs that were set go with them.
connection_init(x, p, o) ==
    LET c == BPending_Set([x EXCEPT !.k = Connection(p)], <<"first", "job">>)
        d == Receiver_Recv(c)
        undone(y) == [BPending_Unset(BDatagram_Free(y), <<"first", "job">>) EXCEPT !.k = Absent]
    IN  CASE o.fail = "dgram"  -> [BPending_Unset(c, <<"first", "job">>) EXCEPT !.k = Absent]
          [] o.fail = "buffer" -> undone(SendAsync_Free(RecvAsync_Free(Interface_Free(c, "in"))))
          [] o.fail = "single" ->
             undone(SendAsync_Free(RecvAsync_Free(Interface_Free(Interface_Free(d, "up"), "in"))))
          [] OTHER             -> Interface_Operate(d, "rcv")

\* What the app is given: SocksUdpGwClient calls udpgw_client_handler_received,
\* which writes to the device.  wrong records that the sender shown is not the
\* one that sent it, or that a header was taken for data or data for a header;
\* a malformed header names nobody.
handler_received(x, r, remote) ==
    [x EXCEPT !.k.wrong = @ \/ (~r.bad /\ (remote # r.from \/ x.k.is_dns = r.hdr))]

\* Fault: the sender named by the header is not taken over.
dgram_handler_received_last(x, o) ==
    LET d == Interface_Done(x, "up")
    IN  IF ~x.k.is_dns /\ x.k.rbuf.bad THEN d ELSE handler_received(d, x.k.rbuf, x.k.remote)

\* Any address type but IPv6 is read as IPv4, so that a malformed header, like
\* data without one, may still yield an address.
dgram_handler_received(x, o) ==
    LET d == Interface_Done(x, "up")
        r == x.k.rbuf
        from(a) == handler_received([d EXCEPT !.k.remote = a], r, a)
    IN  CASE x.k.is_dns                      -> handler_received(d, r, x.k.remote)
          [] ~x.k.is_dns /\ r.hdr /\ ~r.bad -> from(r.from)
          [] OTHER                           -> IF o.parse THEN from(Junk) ELSE d

(***************************************************************************)
(* The jobs, and the handlers of the interfaces they call.                 *)
(***************************************************************************)
\* Nothing looks at rbuf again once dgram_handler_received returns.
operation(x, f, o) ==
    LET d == job_operation(x, f)
    IN  CASE f = "in"  -> [Require(d, ~d.k.out_have) EXCEPT !.k.out_have = TRUE]
          [] f = "out" -> send_if_handler_send(d)
          [] f = "rcv" -> recv_if_handler_recv(d)
          [] f = "up"  -> [dgram_handler_received(d, o) EXCEPT !.k.rbuf = None]

\* SinglePacketBuffer passes a packet from "rcv" to "up" and then asks anew.
done(x, f) ==
    LET d == job_done(x, f)
    IN  CASE f = "in"  -> input_handler_done(d)
          [] f = "out" -> output_handler_done(d)
          [] f = "rcv" -> Interface_Operate(d, "up")
          [] f = "up"  -> Interface_Operate(d, "rcv")

execute(x, f, what, o) ==
    CASE ~x.k.live                         -> Use(x)
      [] x.k.live /\ what = "op"           -> operation(x, f, o)
      [] x.k.live /\ what = "done"         -> done(x, f)
      [] x.k.live /\ what = "job" ->
         CASE f = "first" -> connection_first_job_handler(x)
           [] f = "out"   -> do_send(x, o)
           [] f = "rcv"   -> do_recv(x, o)

(***************************************************************************)
(* A packet from the device.  device_read_handler_send lets go of it only  *)
(* by a job, so the buffer holds it until all jobs set after that one ran. *)
(***************************************************************************)
Take(i) ==
    [i |-> i, k |-> k[i], net |-> net[i], jobs |-> jobs, results |-> results,
     device |-> device, overrun |-> overrun, ok |-> ok]

Put(x) ==
    /\ k' = [k EXCEPT ![x.i] = x.k]
    /\ net' = [net EXCEPT ![x.i] = x.net]
    /\ jobs' = x.jobs /\ results' = x.results /\ device' = x.device
    /\ overrun' = x.overrun /\ ok' = x.ok
    /\ UNCHANGED <<connections_list, count, quitting>>

AtCapacity(list) == Len(list) = max_connections

reset_connection(x, p) == [x EXCEPT !.k.remote = p.remote, !.k.is_dns = is_dns(p)]

\* Room is made for a new connection by freeing the least recently used one.
Evicted(l) == IF ~k[l].live /\ AtCapacity(connections_list) THEN {Head(connections_list)} ELSE {}

Arrival(l, p, held) ==
    LET start(i) == [Take(i) EXCEPT !.jobs = held, !.device = p]
        make_room(x, y) == [x EXCEPT !.jobs = y.jobs, !.results = y.results, !.ok = y.ok]
    IN  IF Evicted(l) = {} THEN start(l)
        ELSE make_room(start(l), connection_free(start(Head(connections_list))))

submit(x, p, o) ==
    IF x.k.live THEN connection_send(reset_connection(x, p), p) ELSE connection_init(x, p, o)

Noted(y, p, taken) ==
    IF ~y.k.live THEN y
    ELSE [y EXCEPT !.k.asked = @ \cup {<<is_dns(p), p.remote>>},
                   !.k.accepted = IF taken THEN Append(@, p.id) ELSE @]

Submitted(l, z, kept, taken) ==
    /\ k' = [i \in Local |-> IF i = l THEN z.k ELSE IF i \in Evicted(l) THEN Absent ELSE k[i]]
    /\ net' = [i \in Local |-> IF i = l THEN z.net ELSE IF i \in Evicted(l) THEN Closed ELSE net[i]]
    /\ connections_list' = IF taken THEN Append(Remove(kept, l), l) ELSE kept
    /\ jobs' = z.jobs /\ results' = z.results /\ device' = z.device
    /\ overrun' = z.overrun /\ ok' = z.ok

\* A packet that is dropped resets the connection but does not make it
\* recently used.
SocksUdpGwClient_SubmitPacket(l, p, held, o) ==
    LET room == IF k[l].live THEN k[l].out_have ELSE o.fail = "none"
        kept == IF Evicted(l) = {} THEN connections_list ELSE Tail(connections_list)
    IN  Submitted(l, Noted(submit(Arrival(l, p, held), p, o), p, room), kept, room)

\* Only the making of a connection can fail.
Failures(l) ==
    IF "memory" \in Faults /\ ~k[l].live THEN {"none", "dgram", "buffer", "single"} ELSE {"none"}

\* A payload of up to udp_mtu is submitted; a longer one is not for the relay.
process_device_udp_packet == {q \in Inputs : q.len <= udp_mtu}

device_read_handler_send ==
    /\ ~quitting /\ jobs = <<>> /\ device = None /\ count < MaxPackets
    /\ \E l \in Local, q \in process_device_udp_packet : \E fail \in Failures(l) :
          SocksUdpGwClient_SubmitPacket(l,
             [id |-> count + 1, remote |-> q.remote, query |-> q.query, len |-> q.len],
             <<<<"tun", "device", "done">>>>, [fail |-> fail])
    /\ count' = count + 1
    /\ UNCHANGED quitting

\* What remains of the relay is freed after the reactor's loop has ended.
SocksUdpGwClient_Free ==
    /\ ~quitting /\ jobs = <<>>
    /\ LET free1(x, i) == connection_free([Take(i) EXCEPT !.results = x.results, !.ok = x.ok])
           x == FoldLeft(free1, [results |-> results, ok |-> ok], connections_list)
       IN  results' = x.results /\ ok' = x.ok
    /\ quitting' = TRUE
    /\ k' = [i \in Local |-> Absent] /\ net' = [i \in Local |-> Closed]
    /\ connections_list' = <<>>
    /\ UNCHANGED <<jobs, device, count, overrun>>

(***************************************************************************)
(* The loop of BReactor_Exec.                                              *)
(***************************************************************************)
\* The jobs that ask the kernel or parse what arrived.
Outcomes(j) == IF j[2] \in {"out", "up"} /\ j[3] # "done" THEN BOOLEAN ELSE {FALSE}

ExecuteJob ==
    /\ ~quitting /\ jobs # <<>>
    /\ LET j == Head(jobs)
       IN  IF j[1] = "tun"
           THEN /\ jobs' = Tail(jobs) /\ device' = None
                /\ UNCHANGED <<k, connections_list, net, results, count, quitting, overrun, ok>>
           ELSE \E b \in Outcomes(j) :
                   Put(execute([Take(j[1]) EXCEPT !.jobs = Tail(@)], j[2], j[3],
                               [full |-> b, parse |-> b]))

Dispatch(x, r, o) ==
    LET d == [x EXCEPT !.results = Tail(@)]
        events == r.events \cap (x.k.wait \cup {"E"})
    IN  CASE ~x.k.live               -> Use(d)
          [] x.k.live /\ events = {} -> d
          [] OTHER                   -> fd_handler(d, events, o)

DispatchFileDescriptor ==
    /\ ~quitting /\ jobs = <<>> /\ results # <<>>
    /\ \E b \in BOOLEAN : Put(Dispatch(Take(Head(results).i), Head(results), [full |-> b]))

Polled(i) ==
    LET read == IF net[i].in # <<>> THEN {"R"} ELSE {}
        write == IF net[i].room THEN {"W"} ELSE {}
        broken == IF net[i].err THEN {"E"} ELSE {}
    IN  [i |-> i, w |-> "dgram", events |-> ((read \cup write) \cap k[i].wait) \cup broken]

ReadyFds == {r \in {Polled(i) : i \in {j \in Local : k[j].live}} : r.events # {}}

\* Fault: the calls of earlier turns still count.
wait_for_events_limits_kept ==
    /\ ~quitting /\ jobs = <<>> /\ results = <<>>
    /\ results' \in SetToSeqs(ReadyFds)
    /\ UNCHANGED <<k, connections_list, net, jobs, device, count, quitting, overrun, ok>>

\* A turn in which timers have expired returns before it resets a limit or
\* asks the kernel: no timer is the relay's, and for it nothing happens.
wait_for_events ==
    /\ ~quitting /\ jobs = <<>> /\ results = <<>>
    /\ results' \in SetToSeqs(ReadyFds)
    /\ k' = [i \in Local |-> IF k[i].live THEN ResetLimits(k[i]) ELSE Absent]
    /\ UNCHANGED <<connections_list, net, jobs, device, count, quitting, overrun, ok>>

(***************************************************************************)
(* The kernel and the gateways, external.  A datagram may be answered any  *)
(* number of times, in any order, or not at all; the SOCKS server may also *)
(* pass on what a stranger sends.  Only the jobs that call the socket and  *)
(* epoll_wait see it: the kernel moves before one of those.                *)
(***************************************************************************)
Seen(i) == \A n \in 1..Len(jobs) : n = 1 => jobs[n] \in {<<i, "out", "job">>, <<i, "rcv", "job">>}

Moved(i, s) ==
    /\ k[i].live /\ s # net[i] /\ Seen(i)
    /\ net' = [net EXCEPT ![i] = s]
    /\ UNCHANGED <<k, connections_list, jobs, results, device, count, quitting, overrun, ok>>

Understood(i, m) == (k[i].to = "dnsgw") = (m.hdr = None)

Reply(i) ==
    /\ k[i].live /\ net[i].replies < MaxReplies
    /\ \E m \in ToSet(net[i].sent) : Understood(i, m) /\
          \E r \in [from : {m.remote} \cup (IF m.hdr = None THEN {} ELSE {Stranger}),
                    hdr : {m.hdr # None},
                    bad : IF m.hdr # None /\ "malformed" \in Faults THEN BOOLEAN ELSE {FALSE}] :
             Moved(i, [net[i] EXCEPT !.in = Append(@, r), !.replies = @ + 1])

Drain(i) == Moved(i, [net[i] EXCEPT !.room = TRUE])

Break(i) ==
    /\ "error" \in Faults /\ k[i].live /\ (k[i].sbusy \/ k[i].started)
    /\ net[i].errors < MaxErrors
    /\ Moved(i, [net[i] EXCEPT !.err = TRUE, !.errors = @ + 1])

Init ==
    /\ k = [i \in Local |-> Absent] /\ connections_list = <<>>
    /\ net = [i \in Local |-> Closed]
    /\ jobs = <<>> /\ results = <<>> /\ device = None /\ count = 0
    /\ quitting = FALSE /\ overrun = FALSE /\ ok = TRUE

Next ==
    /\ ~overrun
    /\ \/ ExecuteJob
       \/ DispatchFileDescriptor
       \/ wait_for_events
       \/ device_read_handler_send
       \/ SocksUdpGwClient_Free
       \/ \E i \in Local : Reply(i) \/ Drain(i) \/ Break(i)

Spec == Init /\ [][Next]_vars

--------------------------------------------------------------------------------
Live == {i \in Local : k[i].live}

\* Every connection has the fields SocksUdpGwClient.h and BDatagram_unix.h give
\* it, and the limits of calls per turn are never passed.
TypeOK ==
    /\ connections_list \in Seq(Local) /\ count \in 0..MaxPackets
    /\ quitting \in BOOLEAN /\ overrun \in BOOLEAN
    /\ \A i \in Live :
          /\ k[i].flow \in [Flows -> {"none", "op", "busy", "done"}]
          /\ k[i].wait \subseteq {"R", "W"} /\ k[i].failed \subseteq {"send", "recv"}
          /\ k[i].slimit \in 0..LIMIT /\ k[i].rlimit \in 0..LIMIT
          /\ k[i].to \in {"dnsgw", "socks"}

\* No ASSERT of BDatagram_unix.c, PacketBuffer.c, BufferWriter.c and the flow
\* interfaces fails, with two exceptions: the one on the length of a packet
\* (BufferWriter.c:98, overrun) for a payload that fits the mtu only without
\* its header, and those of DebugError (BDatagram_unix.c:239, 245, 367, 459)
\* once a socket has reported an error, which the relay goes on using.  A
\* pointer into the ring or into the device's buffer still points at what it
\* was taken for when it is used, and no job or result reaches a connection
\* that has been freed.  The list is the tree in another
\* order and within max_connections, and an address without a connection has
\* no job and no result left, also after the relay is freed.
AssertsHold ==
    /\ TypeOK /\ ok
    /\ ToSet(connections_list) = Live /\ Len(connections_list) = Cardinality(Live)
    /\ Len(connections_list) <= max_connections
    /\ \A j \in ToSet(jobs) : j[1] \in Live \cup {"tun"}
    /\ \A r \in ToSet(results) : r.i \in Live

\* The ring of every connection is sound after every mix of packet lengths up
\* to the mtu, sends and drops, and it refuses a packet of full length only when it holds
\* as many packets as PacketBuffer_Init made it for.
RingSound ==
    \A i \in Live :
       /\ Sound(k[i].ring)
       /\ k[i].ring.input_avail < udp_mtu => Cardinality(k[i].ring.heads) >= BUFFER_SIZE

\* No wakeup is lost: when the reactor has no job left, the writer can take a
\* packet exactly if the ring has room for one of full length, a packet in the
\* ring is being sent and the socket is watched for room, and once something
\* was sent the socket is watched for replies; an error of the socket is the
\* one thing that stops a direction.
Flowing ==
    jobs = <<>> => \A i \in Live :
       /\ k[i].out_have <=> k[i].ring.input_avail >= udp_mtu
       /\ k[i].ring.used > 0 => k[i].sbusy /\ ("W" \in k[i].wait \/ "send" \in k[i].failed)
       /\ k[i].started => k[i].rbusy /\ ("R" \in k[i].wait \/ "recv" \in k[i].failed)

\* Two kinds of packets, or two name servers, have used one local address.
Shared(i) == \E a, b \in k[i].asked : a # b /\ a[1]

\* What a connection accepted, the packet that made it included, is sent
\* once, in order and complete, and is or stays queued until then.  It goes to
\* the gateway for its kind behind the header of its destination, unless the
\* app used the local address for several kinds (find_connection does not
\* tell them apart).
Carried ==
    \A i \in Live :
       LET c == k[i]
           heads == SetToSortSeq(c.ring.heads, <)
           queue == [n \in 1..Len(heads) |-> c.ring.data[Pos(c.ring, heads[n])]]
           unsent == IF c.flow["out"] = "done" THEN Tail(queue) ELSE queue
           last == SelectSeq(<<c.written, c.first>>, LAMBDA m : m # None)
           all == net[i].sent \o unsent \o last
       IN  /\ [n \in 1..Len(all) |-> all[n].id] = c.accepted
           /\ ~Shared(i) => \A m \in ToSet(net[i].sent \o queue) :
                 /\ m.hdr = IF m.dns THEN None ELSE m.remote
                 /\ Understood(i, m)

\* A reply is shown to the app as from the address that sent it, whatever was
\* sent, received or dropped in between, unless the local address was shared
\* or the reply's header is malformed.
RepliesHome == \A i \in Live : k[i].wrong => Shared(i)

(***************************************************************************)
(* Liveness: the reactor's loop runs on and the kernel sends what it has   *)
(* taken.  The last conjunct is the weak fairness of Drain, which disables *)
(* itself: one that is never disabled is one that is never taken.          *)
(***************************************************************************)
Fairness ==
    /\ []<>(jobs = <<>> \/ overrun) \/ []<><<jobs # <<>> /\ jobs' # jobs>>_vars
    /\ \/ []<>(jobs # <<>> \/ results = <<>> \/ overrun)
       \/ []<><<Len(results') < Len(results)>>_vars
    /\ \/ []<>(jobs # <<>> \/ results # <<>> \/ ReadyFds = {} \/ overrun)
       \/ []<><<results = <<>> /\ results' # <<>>>>_vars
    /\ \A i \in Local : []<>~(~overrun /\ k[i].live /\ ~net[i].room /\ Seen(i))

LiveSpec == Spec /\ Fairness

\* What is queued is sent and what has arrived is passed on, through limits,
\* a full socket and short turns, unless the connection is evicted, its socket
\* has failed in that direction, or a packet has been overrun.
Forwarded ==
    \A i \in Local :
       /\ k[i].live /\ k[i].ring.used > 0 ~>
             ~k[i].live \/ k[i].ring.used = 0 \/ "send" \in k[i].failed \/ overrun
       /\ net[i].in # <<>> ~> net[i].in = <<>> \/ "recv" \in k[i].failed \/ overrun
================================================================================
