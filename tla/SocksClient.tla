------------------------------ MODULE SocksClient ------------------------------
(***************************************************************************)
(* The SOCKS connections of tun2socks: BSocksClient over BConnector and    *)
(* BConnection, with the flow interfaces between them, on the job list and *)
(* the epoll results of one BReactor.                                      *)
(*                                                                         *)
(* Everything runs on the reactor's thread.  A step is one turn of the     *)
(* loop of BReactor_Exec: the first pending job, else the next file        *)
(* descriptor epoll_wait returned, else epoll_wait.  Between two turns the *)
(* kernel and the server move.  What makes it hard is what a turn leaves   *)
(* behind: jobs, watched events and results that a later turn finds after  *)
(* an earlier one has freed or rebuilt what they belong to.                *)
(*                                                                         *)
(* The functions are operators on the record x of one client and of what   *)
(* it shares with the others.  o holds what the calls out of a turn return *)
(* in that turn: the bytes a read or a write moves (n), whether a write    *)
(* fills the socket (full), whether memory is found (mem), the error a     *)
(* reset socket shows (eof), and what the owner does with data (user).     *)
(***************************************************************************)
EXTENDS Reactor, SequencesExt, FiniteSetsExt

CONSTANTS
    Client,         \* the connections
    Len_,           \* bytes of each message
    Methods,        \* authentication methods offered, of {"none", "pass"}
    RECV_BUF,       \* CLIENT_SOCKS_RECV_BUF_SIZE
    Faults,         \* of {"reset", "close", "memory", "refuse"}
    MaxUp,          \* bound: bytes the app sends
    MaxDown         \* bound: bytes the server sends once it has accepted

VARIABLES
    k,          \* the BSocksClient, its BConnector and BConnection, its owner
    net,        \* the socket and the server behind it
    jobs,       \* pending_jobs of the reactor, first to run first
    results,    \* epoll_results not yet dispatched
    ok          \* no ASSERT has failed and nothing freed has been used

vars == <<k, net, jobs, results, ok>>

Flows == {"pkt", "send", "recv"}
Handshake ==
    {"SENDING_HELLO", "SENT_HELLO", "SENDING_PASSWORD", "SENT_PASSWORD",
     "SENDING_REQUEST", "SENT_REQUEST", "RECEIVED_REPLY_HEADER"}
Live == Handshake \cup {"CONNECTING", "UP"}

UseClient(x) == Require(x, x.k.state \in Live)

Sender_Send(x, n) == [Interface_Operate(Require(x, n > 0), "send") EXCEPT !.k.slen = n]

Receiver_Recv(x, n) == [Interface_Operate(Require(x, n > 0), "recv") EXCEPT !.k.rlen = n]

(***************************************************************************)
(* BConnector and BConnection.                                             *)
(***************************************************************************)
BConnector_Free(x) ==
    LET d == IF x.k.have_bfd THEN BReactor_RemoveFileDescriptor(x, "connector") ELSE x
    IN  [BPending_Unset(d, <<"connector", "job">>)
            EXCEPT !.k.have_bfd = FALSE,
                   !.k.fd = IF @ = "connector" THEN "closed" ELSE @]

BConnection_Init(x) ==
    [Require(x, x.k.fd = "connector" /\ x.k.connected /\ ~x.k.have_bfd)
        EXCEPT !.k.fd = "connection", !.k.watched = TRUE, !.k.is_hupd = FALSE,
               !.k.wait = {}, !.k.slimit = 0, !.k.rlimit = 0,
               !.k.send = "NOT_INITED", !.k.recv = "NOT_INITED"]

BConnection_Free(x) ==
    LET d == Require(x, x.k.send = "NOT_INITED" /\ x.k.recv = "NOT_INITED")
        e == IF d.k.is_hupd THEN d ELSE BReactor_RemoveFileDescriptor(d, "connection")
    IN  [e EXCEPT !.k.watched = FALSE, !.k.wait = {}, !.k.fd = "closed"]

BConnection_SendAsync_Init(x) ==
    [Interface_Init(Require(x, x.k.send = "NOT_INITED"), "send") EXCEPT !.k.send = "READY"]

BConnection_RecvAsync_Init(x) ==
    [Interface_Init(Require(x, x.k.recv = "NOT_INITED"), "recv") EXCEPT !.k.recv = "READY"]

\* The job of sending is never set, so there is none to free.
BConnection_SendAsync_Free(x) ==
    LET d == Require(x, x.k.send \in {"READY", "BUSY"})
        e == IF d.k.is_hupd THEN d ELSE BReactor_SetFileDescriptorEvents(d, d.k.wait \ {"W"})
    IN  [Interface_Free(e, "send") EXCEPT !.k.send = "NOT_INITED"]

\* Fault: the job of a stream that is freed stays.
RecvAsync_Free_keep_job(x) ==
    LET d == Require(x, x.k.recv \in {"READY", "BUSY", "INITED_CLOSED"})
        e == IF d.k.is_hupd THEN d ELSE BReactor_SetFileDescriptorEvents(d, d.k.wait \ {"R"})
    IN  [Interface_Free(e, "recv") EXCEPT !.k.recv = "NOT_INITED"]

BConnection_RecvAsync_Free(x) ==
    LET d == Require(x, x.k.recv \in {"READY", "BUSY", "INITED_CLOSED"})
        e == IF d.k.is_hupd THEN d ELSE BReactor_SetFileDescriptorEvents(d, d.k.wait \ {"R"})
    IN  [Interface_Free(BPending_Unset(e, <<"recv", "job">>), "recv")
            EXCEPT !.k.recv = "NOT_INITED"]

(***************************************************************************)
(* BSocksClient_Free, and what the owner does with the events of a client: *)
(* client_socks_handler frees it on ERROR and on ERROR_CLOSED.             *)
(***************************************************************************)
init_control_io(x) ==
    [Interface_Init(BConnection_SendAsync_Init(BConnection_RecvAsync_Init(x)), "pkt")
        EXCEPT !.k.left = -1]

free_control_io(x) ==
    BConnection_RecvAsync_Free(BConnection_SendAsync_Free(Interface_Free(x, "pkt")))

init_up_io(x) == BConnection_SendAsync_Init(BConnection_RecvAsync_Init(x))

free_up_io(x) == BConnection_RecvAsync_Free(BConnection_SendAsync_Free(x))

BSocksClient_Free(x) ==
    LET d == UseClient(x)
        e == CASE d.k.state = "CONNECTING" -> d
               [] d.k.state = "UP"         -> BConnection_Free(free_up_io(d))
               [] OTHER                    -> BConnection_Free(free_control_io(d))
    IN  [BConnector_Free(e) EXCEPT !.k.state = "freed", !.k.buf = <<>>, !.k.fresh = <<>>]

report_error(x) == BSocksClient_Free(x)

\* In every state the owner frees the client; only at UP may the end of the
\* stream be reported as ERROR_CLOSED.
connection_handler(x) == report_error(Require(x, x.k.state # "CONNECTING"))

(***************************************************************************)
(* Sending and receiving on the socket.  Past the limit of calls for one   *)
(* turn of epoll_wait, and when the socket would block, the connection     *)
(* watches the descriptor instead.                                         *)
(***************************************************************************)
connection_send(x, o) ==
    LET d == Require(x, x.k.send = "BUSY")
        counted == IF d.k.is_hupd THEN d ELSE [d EXCEPT !.k.slimit = @ + 1]
        bytes == Min({o.n, d.k.slen})
    IN  CASE ~d.k.is_hupd /\ LimitReached(d.k.slimit) -> wait_for_fd(d, "W")
          [] OTHER ->
             CASE d.net.end = "reset" -> connection_handler(counted)
               [] d.net.end # "reset" /\ ~d.net.room -> wait_for_fd(counted, "W")
               [] OTHER ->
                  Interface_Done([counted EXCEPT !.k.send = "READY", !.k.sent = bytes,
                                    !.net.room = ~o.full,
                                    !.net.out = @ \o [j \in 1..bytes |-> d.k.msg]],
                                 "send")

connection_recv(x, o) ==
    LET d == Require(x, x.k.recv = "BUSY")
        counted == IF d.k.is_hupd THEN d ELSE [d EXCEPT !.k.rlimit = @ + 1]
        bytes == Min({o.n, d.k.rlen, Len(d.net.in)})
        ended == \/ d.net.end = "eof"
                 \/ d.net.end = "reset" /\ o.eof
    IN  CASE ~d.k.is_hupd /\ LimitReached(d.k.rlimit) -> wait_for_fd(d, "R")
          [] OTHER ->
             CASE d.net.in # <<>> ->
                  Interface_Done([counted EXCEPT !.k.recv = "READY",
                                    !.k.fresh = SubSeq(d.net.in, 1, bytes),
                                    !.net.in = SubSeq(@, bytes + 1, Len(@))],
                                 "recv")
               [] d.net.in = <<>> /\ d.net.end = "open" -> wait_for_fd(counted, "R")
               [] d.net.in = <<>> /\ ended ->
                  connection_handler([counted EXCEPT !.k.recv = "INITED_CLOSED"])
               [] OTHER -> connection_handler(counted)

connection_send_if_handler_send(x, o) ==
    connection_send([Require(x, x.k.send = "READY") EXCEPT !.k.send = "BUSY"], o)

connection_recv_if_handler_recv(x, o) ==
    connection_recv([Require(x, x.k.recv = "READY") EXCEPT !.k.recv = "BUSY"], o)

clear_handled(x, events) == BReactor_SetFileDescriptorEvents(x, x.k.wait \ events)

\* Fault: the read is left out when there is something to write.
recv_after_send_never(x) == x

recv_after_send(x) == BPending_Set(x, <<"recv", "job">>)

connection_fd_handler(x, events, o) ==
    LET d == clear_handled(Require(x, ~x.k.is_hupd), events)
        e == IF "H" \in events
             THEN [BReactor_RemoveFileDescriptor(d, "connection")
                      EXCEPT !.k.is_hupd = TRUE, !.k.watched = FALSE]
             ELSE d
        broken == events \cap {"E", "H"} # {}
        have_send == "W" \in events \/ (broken /\ e.k.send = "BUSY")
        have_recv == "R" \in events \/ (broken /\ e.k.recv = "BUSY")
        f == Require(e, /\ have_send => e.k.send = "BUSY"
                        /\ have_recv => e.k.recv = "BUSY")
    IN  CASE have_send /\ have_recv ->
             connection_send(recv_after_send(f), o)
          [] have_send /\ ~have_recv -> connection_send(f, o)
          [] ~have_send /\ have_recv -> connection_recv(f, o)
          [] OTHER -> IF f.k.is_hupd THEN f ELSE connection_handler(f)

(***************************************************************************)
(* PacketStreamSender: one message in as many writes as it takes.          *)
(***************************************************************************)
send_data(x) ==
    IF x.k.left > 0 THEN Sender_Send(x, x.k.left)
    ELSE Interface_Done([x EXCEPT !.k.left = -1], "pkt")

input_handler_send(x) ==
    send_data([Require(x, x.k.left = -1) EXCEPT !.k.left = Len_[x.k.msg]])

output_handler_done(x) ==
    send_data([Require(x, x.k.sent \in 1..x.k.left) EXCEPT !.k.left = @ - x.k.sent])

(***************************************************************************)
(* The handshake.  k.buf is what has been received of the reply awaited,   *)
(* k.total its size.  A byte is <<message it is of, place>>.               *)
(***************************************************************************)
do_receive(x) ==
    Receiver_Recv(Require(x, Len(x.k.buf) < x.k.total), x.k.total - Len(x.k.buf))

start_receive(x, total) ==
    do_receive([Require(x, total > 0) EXCEPT !.k.buf = <<>>, !.k.total = total])

\* PacketPassInterface_Sender_Send of the message in the buffer.
send_message(x, m) == [Interface_Operate(x, "pkt") EXCEPT !.k.msg = m]

auth_finished(x, o) ==
    IF ~o.mem THEN report_error(x)
    ELSE [send_message(x, "request") EXCEPT !.k.state = "SENDING_REQUEST"]

connector_handler(x, is_error, o) ==
    LET d == Require(UseClient(x), x.k.state = "CONNECTING")
        e == init_control_io(BConnection_Init(d))
    IN  CASE is_error -> report_error(d)
          [] ~is_error /\ ~o.add -> report_error([d EXCEPT !.k.fd = "closed"])
          [] ~is_error /\ o.add /\ ~o.mem ->
             report_error(BConnection_Free(free_control_io(e)))
          [] OTHER -> [send_message(e, "hello") EXCEPT !.k.state = "SENDING_HELLO"]

connector_fd_handler(x, o) ==
    LET d == Require(x, x.k.fd = "connector" /\ ~x.k.connected /\ x.k.have_bfd)
        e == [BReactor_RemoveFileDescriptor(d, "connector")
                 EXCEPT !.k.have_bfd = FALSE, !.k.connected = x.net.end # "reset"]
    IN  connector_handler(e, ~e.k.connected, o)

connector_job_handler(x, o) ==
    connector_handler(Require(x, x.k.fd = "connector" /\ x.k.connected /\ ~x.k.have_bfd),
                      FALSE, o)

send_handler_done(x, o) ==
    LET d == UseClient(x)
        receive(m, next) == [start_receive(d, Len_[m]) EXCEPT !.k.state = next]
    IN  CASE ~o.mem -> report_error(d)
          [] o.mem /\ d.k.state = "SENDING_HELLO"    -> receive("method", "SENT_HELLO")
          [] o.mem /\ d.k.state = "SENDING_PASSWORD" -> receive("verdict", "SENT_PASSWORD")
          [] o.mem /\ d.k.state = "SENDING_REQUEST"  -> receive("header", "SENT_REQUEST")
          [] OTHER -> Require(d, FALSE)

received_hello(x, o) ==
    LET m == x.k.buf[1][1]
    IN  CASE m \notin Methods                  -> report_error(x)
          [] m \in Methods /\ m = "none"       -> auth_finished(x, o)
          [] m \in Methods /\ m # "none" ->
             IF ~o.mem THEN report_error(x)
             ELSE [send_message(x, "password")
                      EXCEPT !.k.state = "SENDING_PASSWORD"]

\* Fault: every address is taken to have the length of an IPv4 one.
received_reply_header_v4(x) ==
    IF x.k.buf[1][1] \in {"v4", "v6"}
    THEN [start_receive(x, Len_["addr4"]) EXCEPT !.k.state = "RECEIVED_REPLY_HEADER"]
    ELSE report_error(x)

received_reply_header(x) ==
    LET rest(m) == [start_receive(x, Len_[m]) EXCEPT !.k.state = "RECEIVED_REPLY_HEADER"]
    IN  CASE x.k.buf[1][1] = "v4" -> rest("addr4")
          [] x.k.buf[1][1] = "v6" -> rest("addr6")
          [] OTHER                -> report_error(x)

(***************************************************************************)
(* The owner once the client is UP: what tun2socks.c does with the send    *)
(* and receive interfaces.  TunClient has the rest of it.                  *)
(***************************************************************************)
client_socks_recv_initiate(x) ==
    Receiver_Recv(Require(x, ~x.k.client_closed /\ x.k.state = "UP"), RECV_BUF)

client_socks_handler_up(x) ==
    LET d == IF x.k.buf_used > 0 THEN [Sender_Send(x, x.k.buf_used) EXCEPT !.k.msg = "data"]
             ELSE [x EXCEPT !.k.msg = "data"]
    IN  IF x.k.client_closed THEN d ELSE client_socks_recv_initiate(d)

\* client_handle_freed_client: what is buffered is still sent.
client_handle_freed_client(x) ==
    IF x.k.buf_used > 0 THEN [x EXCEPT !.k.client_closed = TRUE] ELSE BSocksClient_Free(x)

client_socks_send_handler_done(x) ==
    LET d == [Require(x, x.k.sent \in 1..x.k.buf_used) EXCEPT !.k.buf_used = @ - x.k.sent]
    IN  CASE d.k.buf_used > 0                       -> Sender_Send(d, d.k.buf_used)
          [] d.k.buf_used = 0 /\ d.k.client_closed  -> BSocksClient_Free(d)
          [] OTHER                                  -> d

client_socks_recv_handler_done(x, o) ==
    LET d == [x EXCEPT !.k.got = @ \o x.k.fresh, !.k.fresh = <<>>]
    IN  CASE x.k.client_closed                        -> [x EXCEPT !.k.fresh = <<>>]
          [] ~x.k.client_closed /\ o.user = "taken"   -> client_socks_recv_initiate(d)
          [] ~x.k.client_closed /\ o.user = "waiting" -> d
          [] OTHER                                    -> client_handle_freed_client(d)

received_reply_rest(x) ==
    client_socks_handler_up(
        [init_up_io(free_control_io([x EXCEPT !.k.buf = <<>>])) EXCEPT !.k.state = "UP"])

recv_handler_done(x, o) ==
    LET d == [Require(UseClient(x), Len(x.k.fresh) <= x.k.total - Len(x.k.buf))
                 EXCEPT !.k.buf = @ \o x.k.fresh, !.k.fresh = <<>>]
    IN  CASE Len(d.k.buf) < d.k.total                -> do_receive(d)
          [] OTHER ->
             CASE d.k.state = "SENT_HELLO"            -> received_hello(d, o)
               [] d.k.state = "SENT_REQUEST"          -> received_reply_header(d)
               [] d.k.state = "SENT_PASSWORD" ->
                  IF d.k.buf[1][1] = "yes" THEN auth_finished(d, o) ELSE report_error(d)
               [] d.k.state = "RECEIVED_REPLY_HEADER" -> received_reply_rest(d)
               [] OTHER                               -> Require(d, FALSE)

(***************************************************************************)
(* A job: the operation and done jobs of the interfaces, the job of        *)
(* receiving and the job of a connector that connected at once.            *)
(***************************************************************************)
operation(x, f, o) ==
    LET d == job_operation(x, f)
    IN  CASE f = "pkt"  -> input_handler_send(d)
          [] f = "send" -> connection_send_if_handler_send(d, o)
          [] f = "recv" -> connection_recv_if_handler_recv(d, o)

done(x, f, o) ==
    LET d == job_done(x, f)
        up == x.k.state = "UP"
    IN  CASE f = "pkt"             -> send_handler_done(d, o)
          [] f = "send" /\ ~up     -> output_handler_done(d)
          [] f = "send" /\ up      -> client_socks_send_handler_done(d)
          [] f = "recv" /\ ~up     -> recv_handler_done(d, o)
          [] f = "recv" /\ up      -> client_socks_recv_handler_done(d, o)

execute(x, f, what, o) ==
    LET d == UseClient(x)
    IN  CASE what = "op"                       -> operation(d, f, o)
          [] what = "done"                     -> done(d, f, o)
          [] what = "job" /\ f = "recv"        -> connection_recv(d, o)
          [] what = "job" /\ f = "connector"   -> connector_job_handler(d, o)

(***************************************************************************)
(* The loop of BReactor_Exec.                                              *)
(***************************************************************************)
MaxBytes == Max({Len_[m] : m \in DOMAIN Len_} \cup {RECV_BUF, MaxUp})
Memory == IF "memory" \in Faults THEN BOOLEAN ELSE {TRUE}

Transfers ==
    [n : 1..MaxBytes, full : BOOLEAN, eof : BOOLEAN,
     mem : {TRUE}, add : {TRUE}, user : {"taken"}]
Answers ==
    [n : {1}, full : {FALSE}, eof : {FALSE},
     mem : Memory, add : Memory, user : {"taken", "waiting", "aborted"}]

Take(i) ==
    [i |-> i, k |-> k[i], net |-> net[i], jobs |-> jobs, results |-> results, ok |-> ok]

Put(x) ==
    /\ k' = [k EXCEPT ![x.i] = x.k]
    /\ net' = [net EXCEPT ![x.i] = x.net]
    /\ jobs' = x.jobs
    /\ results' = x.results
    /\ ok' = x.ok

ExecuteJob ==
    /\ jobs # <<>>
    /\ LET j == Head(jobs)
           x == [Take(j[1]) EXCEPT !.jobs = Tail(@)]
           moves == j[2] \in {"send", "recv"} /\ j[3] # "done"
       IN  \E y \in {execute(x, j[2], j[3], o) : o \in IF moves THEN Transfers ELSE Answers} :
              Put(y)

DispatchFileDescriptor ==
    /\ jobs = <<>> /\ results # <<>>
    /\ LET r == Head(results)
           x == [Take(r.i) EXCEPT !.results = Tail(@)]
           watching == IF r.w = "connector" THEN {"W"} ELSE x.k.wait
           events == r.events \cap (watching \cup {"E", "H"})
       IN  IF events = {} THEN Put(x)
           ELSE \/ /\ r.w = "connector"
                   /\ \E o \in Answers : Put(connector_fd_handler(UseClient(x), o))
                \/ /\ r.w = "connection"
                   /\ \E o \in Transfers : Put(connection_fd_handler(UseClient(x), events, o))

\* What epoll_wait reports of client i's descriptor, if it is in the set.
Polled(i) ==
    LET broken == IF net[i].end = "reset" THEN {"E", "H"} ELSE {}
        write == IF broken # {} \/ (net[i].up /\ net[i].room) THEN {"W"} ELSE {}
        read == IF broken # {} \/ net[i].in # <<>> \/ net[i].end = "eof" THEN {"R"} ELSE {}
    IN  CASE k[i].have_bfd -> {[i |-> i, w |-> "connector", events |-> write \cup broken]}
          [] ~k[i].have_bfd /\ k[i].watched ->
                {[i |-> i, w |-> "connection",
                  events |-> ((read \cup write) \cap k[i].wait) \cup broken]}
          [] OTHER -> {}

ReadyFds == {r \in UNION {Polled(i) : i \in Client} : r.events # {}}

\* Fault: a new turn does not reset the limits.
wait_for_events_limits_kept ==
    /\ jobs = <<>> /\ results = <<>>
    /\ results' \in SetToSeqs(ReadyFds)
    /\ UNCHANGED <<k, net, jobs, ok>>

\* It may also return for the TUN device alone.  A turn in which timers have
\* expired returns before it resets a limit or asks the kernel: no timer is the
\* client's, and for it nothing happens.
wait_for_events ==
    /\ jobs = <<>> /\ results = <<>>
    /\ results' \in SetToSeqs(ReadyFds)
    /\ k' = [i \in Client |-> ResetLimits(k[i])]
    /\ UNCHANGED <<net, jobs, ok>>

(***************************************************************************)
(* The owner, called by other events of the reactor: a connection of an    *)
(* app, its bytes, room in its window, its end.                            *)
(***************************************************************************)
NewClient ==
    [state |-> "unborn", have_bfd |-> FALSE, connected |-> FALSE, fd |-> "closed",
     watched |-> FALSE, is_hupd |-> FALSE, wait |-> {}, slimit |-> 0, rlimit |-> 0,
     send |-> "NOT_INITED", recv |-> "NOT_INITED", slen |-> 0, rlen |-> 0, sent |-> 0,
     flow |-> [f \in Flows |-> "off"], left |-> -1, msg |-> "hello",
     buf |-> <<>>, fresh |-> <<>>, total |-> 0,
     buf_used |-> 0, client_closed |-> FALSE, up |-> 0, got |-> <<>>]

NewSocket ==
    [up |-> FALSE, end |-> "open", room |-> TRUE, in |-> <<>>, out |-> <<>>,
     said |-> "nothing", todo |-> <<>>, data |-> 0]

listener_accept_func(i) ==
    /\ jobs = <<>> /\ k[i].state = "unborn"
    /\ \E connected \in BOOLEAN :
          LET x == [Take(i) EXCEPT !.k.state = "CONNECTING", !.k.fd = "connector",
                                   !.k.connected = connected, !.k.have_bfd = ~connected,
                                   !.net.up = connected]
          IN  Put(IF connected THEN BPending_Set(x, <<"connector", "job">>) ELSE x)

client_recv_func(i) ==
    /\ jobs = <<>> /\ k[i].state \in Live /\ ~k[i].client_closed /\ k[i].up < MaxUp
    /\ LET x == [Take(i) EXCEPT !.k.buf_used = @ + 1, !.k.up = @ + 1]
       IN  Put(IF x.k.buf_used = 1 /\ x.k.state = "UP" THEN Sender_Send(x, 1) ELSE x)

client_sent_func(i) ==
    /\ jobs = <<>> /\ k[i].state = "UP" /\ ~k[i].client_closed /\ k[i].flow["recv"] = "none"
    /\ Put(client_socks_recv_initiate(Take(i)))

client_goes(i) ==
    /\ jobs = <<>> /\ k[i].state \in Live /\ ~k[i].client_closed
    /\ Put(client_handle_freed_client(Take(i)))

(***************************************************************************)
(* The kernel and the server, external.  The server may answer in any way  *)
(* and need not wait for the client: a reply may be followed at once by    *)
(* data.  What it sends arrives in pieces.                                 *)
(***************************************************************************)
Bytes(m, n) == [j \in 1..n |-> <<m, j>>]

Answer(s) ==
    CASE s.said = "nothing"           -> {Bytes(m, Len_["method"]) : m \in {"none", "pass", "bad"}}
      [] s.said = "pass"              -> {Bytes(m, Len_["verdict"]) : m \in {"yes", "no"}}
      [] s.said \in {"none", "yes"}   -> {Bytes(m, Len_["header"]) : m \in {"v4", "v6", "refused"}}
      [] s.said = "v4"                -> {Bytes("addr4", Len_["addr4"])}
      [] s.said = "v6"                -> {Bytes("addr6", Len_["addr6"])}
      [] s.said \in {"addr4", "addr6", "data"} ->
            IF s.data < MaxDown THEN {<<<<"data", s.data + 1>>>>} ELSE {}
      [] OTHER                        -> {}

Serve(i) ==
    LET s == net[i]
    IN  /\ k[i].state \in Live /\ s.up /\ s.end = "open"
        /\ \E m \in IF s.todo = <<>> THEN Answer(s) ELSE {s.todo} : \E n \in 1..Len(m) :
              net' = [net EXCEPT ![i] =
                        [s EXCEPT !.in = @ \o SubSeq(m, 1, n), !.todo = SubSeq(m, n + 1, Len(m)),
                                  !.said = m[1][1],
                                  !.data = IF m[1][1] = "data" THEN @ + 1 ELSE @]]
        /\ UNCHANGED <<k, jobs, results, ok>>

Moved(i, s) ==
    /\ k[i].state \in Live /\ s # net[i]
    /\ net' = [net EXCEPT ![i] = s]
    /\ UNCHANGED <<k, jobs, results, ok>>

Connect(i) == net[i].end = "open" /\ Moved(i, [net[i] EXCEPT !.up = TRUE])

Drain(i) == Moved(i, [net[i] EXCEPT !.room = TRUE])

Break(i) ==
    \/ "refuse" \in Faults /\ ~net[i].up /\ Moved(i, [net[i] EXCEPT !.end = "reset"])
    \/ "reset" \in Faults /\ net[i].up /\ Moved(i, [net[i] EXCEPT !.end = "reset"])
    \/ /\ "close" \in Faults /\ net[i].up /\ net[i].end = "open" /\ net[i].todo = <<>>
       /\ Moved(i, [net[i] EXCEPT !.end = "eof"])

Init ==
    /\ k = [i \in Client |-> NewClient]
    /\ net = [i \in Client |-> NewSocket]
    /\ jobs = <<>> /\ results = <<>> /\ ok = TRUE

Owner(i) ==
    \/ listener_accept_func(i)
    \/ client_recv_func(i)
    \/ client_sent_func(i)
    \/ client_goes(i)

Next ==
    \/ ExecuteJob
    \/ DispatchFileDescriptor
    \/ wait_for_events
    \/ \E i \in Client : Owner(i) \/ Serve(i) \/ Connect(i) \/ Drain(i) \/ Break(i)

Spec == Init /\ [][Next]_vars

--------------------------------------------------------------------------------
\* Every client is in a state of its state machine and what is kept for it
\* has the type the structures of BSocksClient.h and BConnection.h give it.
TypeOK ==
    \A i \in Client :
       /\ k[i].state \in Live \cup {"unborn", "freed"}
       /\ k[i].wait \subseteq {"R", "W"}
       /\ k[i].flow \in [Flows -> {"off", "none", "op", "busy", "done"}]
       /\ k[i].send \in {"NOT_INITED", "READY", "BUSY"}
       /\ k[i].recv \in {"NOT_INITED", "READY", "BUSY", "INITED_CLOSED"}
       /\ k[i].slimit \in 0..LIMIT /\ k[i].rlimit \in 0..LIMIT
       /\ k[i].left \in -1..MaxBytes

\* No ASSERT of BSocksClient.c, BConnection_unix.c, PacketStreamSender.c and
\* the flow interfaces fails, and no job or result reaches a client that has
\* been freed, whatever the turns of the reactor in between did: a freed
\* client leaves nothing behind, its socket is closed, the reactor does not
\* watch it, and no job and no epoll result names it.
AssertsHold ==
    /\ TypeOK /\ ok
    /\ \A i \in Client : k[i].state = "freed" =>
          /\ k[i].fd = "closed" /\ ~k[i].watched /\ ~k[i].have_bfd
          /\ \A j \in ToSet(jobs) : j[1] # i
          /\ \A r \in ToSet(results) : r.i # i

\* No wakeup is lost: whenever a read or a write is outstanding, the
\* descriptor is watched for it or the job that will retry it is pending,
\* through the limit of calls per turn, blocking and hang-up.
Watched ==
    \A i \in Client :
       /\ k[i].send = "BUSY" => k[i].watched /\ "W" \in k[i].wait
       /\ k[i].recv = "BUSY" =>
             (k[i].watched /\ "R" \in k[i].wait) \/ <<i, "recv", "job">> \in ToSet(jobs)

\* The handshake takes from the stream exactly the bytes of the replies, also
\* when data follows them at once and reads are short: at UP what the owner
\* was given, what is on its way and what the socket holds are the server's
\* data, complete and in order.  The server is sent whole messages in the
\* order of the protocol, and then the app's bytes, none twice and none left
\* out, however writes are cut.
DataIntact ==
    \A i \in Client :
       LET of(m) == [j \in 1..Len_[m] |-> m]
           data == [j \in 1..MaxUp |-> "data"]
           written == IF k[i].flow["send"] = "done" THEN k[i].sent ELSE 0
       IN  /\ k[i].got = Bytes("data", Len(k[i].got))
           /\ k[i].state = "UP" /\ ~k[i].client_closed =>
                 k[i].got \o k[i].fresh \o net[i].in = Bytes("data", net[i].data)
           /\ \/ IsPrefix(net[i].out, of("hello") \o of("request") \o data)
              \/ IsPrefix(net[i].out, of("hello") \o of("password") \o of("request") \o data)
           /\ k[i].state = "UP" =>
                 k[i].up = Len(SelectSeq(net[i].out, LAMBDA m : m = "data"))
                              + k[i].buf_used - written

(***************************************************************************)
(* Liveness.  The reactor's loop runs on; the kernel connects or refuses,  *)
(* and sends what was written; the server goes on until its data is out;   *)
(* the app takes what it is given.                                         *)
(***************************************************************************)
\* Weak fairness of ExecuteJob, DispatchFileDescriptor and wait_for_events,
\* each known by what only it changes.
ReactorRuns ==
    /\ []<>(jobs = <<>>) \/ []<><<jobs # <<>> /\ jobs' # jobs>>_vars
    /\ []<>(jobs # <<>> \/ results = <<>>) \/ []<><<Len(results') < Len(results)>>_vars
    /\ \/ []<>(jobs # <<>> \/ results # <<>> \/ ReadyFds = {})
       \/ []<><<results = <<>> /\ results' # <<>>>>_vars

\* Weak fairness of Connect, Drain, Serve and client_sent_func: each of them
\* disables itself, Serve when it has sent the last of the data, so that one
\* that is never disabled is one that is never taken.
PeersGoOn(i) ==
    /\ []<>~(k[i].state \in Live /\ net[i].end = "open" /\ ~net[i].up)
    /\ []<>~(k[i].state \in Live /\ ~net[i].room)
    /\ []<>~(/\ k[i].state \in Live /\ net[i].up /\ net[i].end = "open"
             /\ net[i].todo # <<>> \/ Answer(net[i]) # {})
    /\ []<>~(/\ jobs = <<>> /\ k[i].state = "UP" /\ ~k[i].client_closed
             /\ k[i].flow["recv"] = "none")

Fairness == ReactorRuns /\ \A i \in Client : PeersGoOn(i)

LiveSpec == Spec /\ Fairness

\* A client whose server answers comes up or is reported as failed, through
\* short reads and writes, blocking, limits and hang-ups.  Once it is up, every
\* byte the server has sent reaches the owner and every byte the app has sent
\* is written, unless one of the ends goes away.
Carries ==
    \A i \in Client :
       /\ k[i].state = "CONNECTING" ~> k[i].state \in {"UP", "freed"}
       /\ k[i].state = "UP" /\ net[i].in # <<>> ~>
             net[i].in = <<>> \/ k[i].client_closed \/ k[i].state = "freed"
       /\ k[i].state = "UP" /\ k[i].buf_used > 0 ~> k[i].buf_used = 0 \/ k[i].state = "freed"
================================================================================
