------------------------------- MODULE TunClient -------------------------------
(***************************************************************************)
(* One TCP connection of an app through tun2socks: the tcp_client of       *)
(* tun2socks.c between the pcb lwIP keeps for the app and a BSocksClient.  *)
(*                                                                         *)
(* Everything runs on one thread, in callbacks that nest: lwIP calls the   *)
(* client while it is still using the pcb, and the client calls back into  *)
(* lwIP and into the reactor (SYNC_COMMIT), which runs SOCKS events before *)
(* it returns.  An action is one outermost event, a segment, a timer or an *)
(* event of the SOCKS connection, with everything it calls.                *)
(*                                                                         *)
(* The functions are operators on the record c of everything that belongs  *)
(* to the connection.  What the calls out of a function return is in o,    *)
(* chosen by the action: whether tcp_send_fin (fin) and tcp_write (write)  *)
(* find memory, whether tcp_output succeeds (output), and the SOCKS events *)
(* SYNC_COMMIT runs (sync).                                                *)
(***************************************************************************)
EXTENDS Integers

CONSTANTS
    TCP_WND,        \* receive window and size of tcp_client.buf
    TCP_SND_BUF,    \* bytes lwIP queues for sending
    RECV_BUF,       \* CLIENT_SOCKS_RECV_BUF_SIZE
    MaxUp,          \* bound: bytes the app sends
    MaxDown         \* bound: bytes the SOCKS server sends

ASSUME SizesAssumption ==
    {TCP_WND, TCP_SND_BUF, RECV_BUF, MaxUp, MaxDown} \subseteq Nat \ {0}

VARIABLES
    pcb,    \* the struct tcp_pcb
    cl,     \* the struct tcp_client
    sk,     \* the BSocksClient
    app,    \* what the app has still to send
    ok      \* no ASSERT has failed and nothing freed has been used

vars == <<pcb, cl, sk, app, ok>>

Open == {"ESTABLISHED", "CLOSE_WAIT"}
Closing == {"FIN_WAIT_1", "FIN_WAIT_2", "CLOSING", "LAST_ACK"}
Gone == {"TIME_WAIT", "FREED"}

bmin_int(a, b) == IF a < b THEN a ELSE b

(***************************************************************************)
(* ASSERT, and the uses of memory that may have been freed.                *)
(***************************************************************************)
Require(c, b) == [c EXCEPT !.ok = @ /\ b]
UsePcb(c) == Require(c, c.pcb.state # "FREED")
UseClient(c) == Require(c, c.cl.mem = "live")

(***************************************************************************)
(* lwIP.  unacked counts the bytes on unsent and unacked, fin says that a  *)
(* FIN is among them.  tcp_free is tcp_pcb_purge with memp_free.           *)
(***************************************************************************)
tcp_free(c) ==
    [UsePcb(c) EXCEPT !.pcb.state = "FREED", !.pcb.unacked = 0, !.pcb.fin = FALSE]

tcp_callbacks_off(c) ==
    [UsePcb(c) EXCEPT !.pcb.err = FALSE, !.pcb.recv = FALSE, !.pcb.sent = FALSE]

\* Fault: without memory for the FIN the close is forgotten.
tcp_close_shutdown_fin_once(c, o) ==
    IF c.pcb.state \notin Open \/ ~o.fin THEN c
    ELSE [c EXCEPT !.pcb.fin = TRUE,
                   !.pcb.state = IF @ = "ESTABLISHED" THEN "FIN_WAIT_1" ELSE "LAST_ACK"]

tcp_close_shutdown_fin(c, o) ==
    IF c.pcb.state \notin Open THEN c
    ELSE IF o.fin
         THEN [c EXCEPT !.pcb.fin = TRUE,
                        !.pcb.state = IF @ = "ESTABLISHED" THEN "FIN_WAIT_1" ELSE "LAST_ACK"]
         ELSE [c EXCEPT !.pcb.closepend = TRUE]

tcp_close_shutdown(c, o) ==
    LET purged == [c EXCEPT !.pcb.unacked = 0, !.pcb.fin = FALSE]
        unread == c.pcb.state \in Open /\ c.pcb.wnd # TCP_WND
    IN  CASE ~unread                                   -> tcp_close_shutdown_fin(c, o)
          [] unread /\ c.pcb.state = "ESTABLISHED"     -> [purged EXCEPT !.pcb.state = "TIME_WAIT"]
          [] unread /\ c.pcb.state = "CLOSE_WAIT"      ->
                IF c.pcb.input THEN [purged EXCEPT !.pcb.closed = TRUE] ELSE tcp_free(purged)

tcp_close(c, o) == tcp_close_shutdown([UsePcb(c) EXCEPT !.pcb.rxclosed = TRUE], o)

\* Fault: inside tcp_input the window is not given back.
tcp_recved_later(c, n) ==
    [UsePcb(c) EXCEPT !.pcb.wnd = IF c.pcb.input THEN @ ELSE bmin_int(@ + n, TCP_WND)]

tcp_recved(c, n) ==
    [UsePcb(c) EXCEPT !.pcb.wnd = bmin_int(@ + n, TCP_WND)]

tcp_sndbuf(c) == TCP_SND_BUF - c.pcb.unacked

\* tcp_write takes what it is given or, without memory, nothing.
tcp_write(c, n) == [UsePcb(c) EXCEPT !.pcb.unacked = @ + n]

(***************************************************************************)
(* Freeing a client.  client_free_socks and client_free_client call each   *)
(* other through client_handle_freed_client, at most once each: the flag   *)
(* the first one sets stops the second.                                    *)
(***************************************************************************)
DEAD_KILL_WITH(c, val) ==
    CASE c.cl.dead = "live"     -> [c EXCEPT !.killed = val]
      [] c.cl.dead = "dangling" -> Require(c, FALSE)
      [] OTHER                  -> c

\* Fault: the client is freed in whatever state it is, aborted or not.
client_dealloc_kill(c) ==
    [DEAD_KILL_WITH(UseClient(c), -1) EXCEPT !.cl.mem = "freed"]

client_dealloc(c) ==
    LET d == Require(UseClient(c), c.cl.client_closed /\ c.cl.socks_closed)
        e == IF d.cl.aborted THEN d ELSE DEAD_KILL_WITH(d, -1)
    IN  [e EXCEPT !.cl.mem = "freed"]

\* client_free_socks up to the decision what to do with the client.
client_close_socks(c) ==
    LET d == Require(UseClient(c), ~c.cl.socks_closed)
        e == IF d.cl.socks_up /\ ~d.cl.client_closed
             THEN [UsePcb(d) EXCEPT !.pcb.recv = FALSE] ELSE d
    IN  [e EXCEPT !.sk.state = "freed", !.sk.send = 0, !.sk.recv = FALSE,
                  !.cl.socks_closed = TRUE]

client_handle_freed_client(c) ==
    LET d == [Require(UseClient(c), ~c.cl.client_closed) EXCEPT !.cl.client_closed = TRUE]
    IN  CASE d.cl.socks_closed                         -> client_dealloc(d)
          [] ~d.cl.socks_closed /\ d.cl.buf_used > 0   -> d
          [] OTHER                                     -> client_dealloc(client_close_socks(d))

\* tcp_close of an accepted connection never fails, so client_abort_pcb
\* is not reached from here.
client_free_client(c, o) ==
    client_handle_freed_client(
        tcp_close(tcp_callbacks_off(Require(UseClient(c), ~c.cl.client_closed)), o))

client_abort_pcb(c) ==
    LET d == [tcp_free(Require(UseClient(c), ~c.cl.aborted)) EXCEPT !.cl.aborted = TRUE]
    IN  DEAD_KILL_WITH(d, 1)

client_abort_client(c) ==
    client_handle_freed_client(
        client_abort_pcb(tcp_callbacks_off(Require(UseClient(c), ~c.cl.client_closed))))

client_free_socks(c, o) ==
    LET d == client_close_socks(c)
        unsent == d.cl.recv_buf_used >= 0 \/ d.cl.tcp_pending > 0
    IN  CASE d.cl.client_closed                            -> client_dealloc(d)
          [] ~d.cl.client_closed /\ d.cl.socks_up /\ unsent -> d
          [] OTHER                                         -> client_free_client(d, o)

client_murder(c) ==
    LET d == IF c.cl.client_closed THEN c
             ELSE [client_abort_pcb(tcp_callbacks_off(c)) EXCEPT !.cl.client_closed = TRUE]
        e == IF d.cl.socks_closed THEN d
             ELSE [d EXCEPT !.sk.state = "freed", !.sk.send = 0, !.sk.recv = FALSE,
                            !.cl.socks_closed = TRUE]
    IN  client_dealloc(e)

(***************************************************************************)
(* From the SOCKS server to the app.                                       *)
(***************************************************************************)
client_socks_recv_initiate(c) ==
    [Require(UseClient(c), /\ ~c.cl.client_closed /\ ~c.cl.socks_closed
                          /\ c.cl.socks_up /\ c.cl.recv_buf_used = -1
                          /\ ~c.sk.recv)
        EXCEPT !.sk.recv = TRUE]

client_socks_recv_send_out(c, o) ==
    LET rest == c.cl.recv_buf_used - c.cl.recv_buf_sent
        d == Require(UsePcb(UseClient(c)),
                    /\ ~c.cl.client_closed /\ c.cl.socks_up
                    /\ c.cl.recv_buf_used > 0 /\ rest > 0 /\ ~c.cl.recv_waiting)
        n == IF o.write THEN bmin_int(rest, tcp_sndbuf(c)) ELSE 0
        e == [tcp_write(d, n) EXCEPT !.cl.recv_buf_sent = @ + n, !.cl.tcp_pending = @ + n]
        failed == ~o.output /\ ~c.pcb.input
        stuck == n < rest /\ e.cl.tcp_pending = 0
    IN  IF c.pcb.state \notin Open THEN client_abort_client(d)
        ELSE CASE failed \/ stuck       -> client_abort_client(e)
               [] ~failed /\ n = rest   -> [e EXCEPT !.cl.recv_buf_used = -1]
               [] OTHER                 -> [e EXCEPT !.cl.recv_waiting = TRUE]

\* Once everything is sent out, more is received.
client_socks_recv_more(c) ==
    IF ~c.cl.client_closed /\ c.cl.recv_buf_used = -1
    THEN client_socks_recv_initiate(c) ELSE c

client_socks_recv_handler_done(c, n, o) ==
    LET d == Require(UseClient(c), /\ ~c.cl.socks_closed /\ c.cl.socks_up
                                  /\ c.cl.recv_buf_used = -1)
    IN  IF c.cl.client_closed THEN d
        ELSE client_socks_recv_more(client_socks_recv_send_out(
                 [d EXCEPT !.cl.recv_buf_used = n, !.cl.recv_buf_sent = 0,
                           !.cl.recv_waiting = FALSE], o))

(***************************************************************************)
(* From the app to the SOCKS server.                                       *)
(***************************************************************************)
client_send_to_socks(c) ==
    [Require(UseClient(c), /\ ~c.cl.socks_closed /\ c.cl.socks_up
                          /\ c.cl.buf_used > 0 /\ c.sk.send = 0)
        EXCEPT !.sk.send = c.cl.buf_used]

client_socks_send_handler_done(c, n, o) ==
    LET d == [Require(UseClient(c), /\ ~c.cl.socks_closed /\ c.cl.socks_up
                                   /\ n > 0 /\ n <= c.cl.buf_used)
                EXCEPT !.cl.buf_used = @ - n]
        e == IF d.cl.client_closed THEN d ELSE tcp_recved(d, n)
    IN  CASE e.cl.buf_used > 0                          -> client_send_to_socks(e)
          [] e.cl.buf_used <= 0 /\ e.cl.client_closed   -> client_free_socks(e, o)
          [] OTHER                                      -> e

(***************************************************************************)
(* Events of the SOCKS connection.                                         *)
(***************************************************************************)
\* Fault: what arrived before SOCKS was up is not sent.
client_socks_handler_up_unsent(c) ==
    LET d == [UseClient(c) EXCEPT !.sk.state = "up", !.cl.socks_up = TRUE,
                                  !.cl.recv_buf_used = -1, !.cl.tcp_pending = 0]
        e == IF d.cl.client_closed THEN d ELSE [UsePcb(d) EXCEPT !.pcb.sent = TRUE]
    IN  IF e.cl.client_closed THEN e ELSE client_socks_recv_initiate(e)

client_socks_handler_up(c) ==
    LET d == [Require(UseClient(c), ~c.cl.socks_closed /\ ~c.cl.socks_up)
                EXCEPT !.sk.state = "up", !.cl.socks_up = TRUE,
                       !.cl.recv_buf_used = -1, !.cl.tcp_pending = 0]
        e == IF d.cl.client_closed THEN d ELSE [UsePcb(d) EXCEPT !.pcb.sent = TRUE]
        f == IF e.cl.buf_used > 0 THEN client_send_to_socks(e) ELSE e
    IN  IF f.cl.client_closed THEN f ELSE client_socks_recv_initiate(f)

client_socks_handler_error(c, o) ==
    client_free_socks(Require(UseClient(c), ~c.cl.socks_closed), o)

\* What the connection may report, and how far it has got: it ends only a
\* receive it is doing, and sends and receives at most what it was given.
Possible(c, e) ==
    CASE e.kind = "up"       -> c.sk.state = "connecting"
      [] e.kind = "error"    -> c.sk.state \in {"connecting", "up"}
      [] e.kind = "closed"   -> c.sk.recv
      [] e.kind = "sent"     -> e.n <= c.sk.send
      [] e.kind = "received" -> c.sk.recv /\ e.n <= bmin_int(RECV_BUF, c.sk.left)

SocksEvent(c, e, o) ==
    CASE e.kind = "up"       -> client_socks_handler_up(c)
      [] e.kind \in {"error", "closed"} -> client_socks_handler_error(c, o)
      [] e.kind = "sent"     ->
            client_socks_send_handler_done([c EXCEPT !.sk.send = 0], e.n, o)
      [] e.kind = "received" ->
            client_socks_recv_handler_done(
                [c EXCEPT !.sk.recv = FALSE, !.sk.left = @ - e.n], e.n, o)

(***************************************************************************)
(* SYNC_COMMIT runs the jobs the function has set before it returns, and   *)
(* the jobs these set: kinds says which events they can end in.            *)
(***************************************************************************)
Synced(c, kinds, e, o) ==
    IF e.kind \in kinds /\ Possible(c, e) THEN SocksEvent(c, e, o) ELSE c

SYNC_COMMIT(c, kinds, o) ==
    Synced(Synced(c, kinds, o.sync[1], o), kinds, o.sync[2], o)

(***************************************************************************)
(* The callbacks lwIP calls.  DEAD_ENTER and DEAD_LEAVE2 find out whether  *)
(* the pcb was aborted meanwhile; a callback returns ERR_ABRT if so.       *)
(***************************************************************************)
DEAD_ENTER(c) == [c EXCEPT !.cl.dead = "live", !.killed = 0]

DEAD_LEAVE2(c) ==
    IF c.cl.mem = "freed" THEN c
    ELSE [c EXCEPT !.cl.dead = IF c.killed = 0 THEN "null" ELSE "dangling"]

ERR_ABRT(c) == c.killed > 0

client_err_func(c) ==
    client_handle_freed_client(Require(UseClient(c), ~c.cl.client_closed))

client_recv_data(c, n, o) ==
    LET room == n <= TCP_WND - c.cl.buf_used
        d == [Require(c, room) EXCEPT !.cl.buf_used = @ + n]
    IN  IF d.cl.buf_used = n /\ d.cl.socks_up
        THEN SYNC_COMMIT(client_send_to_socks(Require(d, ~d.cl.socks_closed)),
                         {"sent", "error"}, o)
        ELSE d

\* n = 0 stands for a null pbuf, the end of the stream.
client_recv_func(c, n, o) ==
    LET d == DEAD_ENTER(Require(UseClient(c), ~c.cl.client_closed))
    IN  DEAD_LEAVE2(IF n = 0 THEN client_free_client(d, o) ELSE client_recv_data(d, n, o))

\* client_sent_func after it has sent more out.
client_sent_out(c, o) ==
    LET d == Require(c, c.cl.tcp_pending > 0)
    IN  IF c.cl.client_closed THEN c
        ELSE IF c.cl.recv_buf_used = -1 /\ ~c.cl.socks_closed
             THEN SYNC_COMMIT(client_socks_recv_initiate(d),
                              {"received", "closed", "error"}, o)
             ELSE d

client_sent_more(c, o) ==
    LET d == Require(c, c.cl.recv_waiting /\ c.cl.recv_buf_sent < c.cl.recv_buf_used)
    IN  client_sent_out(client_socks_recv_send_out([d EXCEPT !.cl.recv_waiting = FALSE], o), o)

client_sent_func(c, n, o) ==
    LET d == DEAD_ENTER(Require(UseClient(c), /\ ~c.cl.client_closed /\ c.cl.socks_up
                                             /\ n > 0 /\ n <= c.cl.tcp_pending))
        e == [d EXCEPT !.cl.tcp_pending = @ - n]
    IN  DEAD_LEAVE2(
          CASE e.cl.recv_buf_used > 0                          -> client_sent_more(e, o)
            [] e.cl.recv_buf_used <= 0 /\ e.cl.socks_closed
               /\ e.cl.tcp_pending = 0                         -> client_free_client(e, o)
            [] OTHER                                           -> e)

(***************************************************************************)
(* tcp_input.  A segment s carries len bytes in sequence and within the    *)
(* window, perhaps a FIN after them, and acknowledges ack bytes and, with  *)
(* finack, the FIN.                                                        *)
(***************************************************************************)
AllAcked(c) == c.pcb.unacked = 0 /\ ~c.pcb.fin

tcp_receive_ack(c, s) ==
    [c EXCEPT !.pcb.unacked = @ - s.ack, !.pcb.fin = @ /\ ~s.finack]

\* got is what is left for the application, data and FIN.
tcp_receive_data(c, s) ==
    LET takes == c.pcb.state \notin {"CLOSE_WAIT", "CLOSING", "LAST_ACK"}
        got == [len |-> IF takes THEN s.len ELSE 0, fin |-> takes /\ s.fin]
    IN  [c EXCEPT !.pcb.wnd = @ - got.len - (IF got.fin THEN 1 ELSE 0), !.got = got]

tcp_receive(c, s) == tcp_receive_data(tcp_receive_ack(c, s), s)

tcp_process(c, s) ==
    LET d == tcp_receive(c, s)
        To(state) == [d EXCEPT !.pcb.state = state]
        Purged == [d EXCEPT !.pcb.state = "TIME_WAIT", !.pcb.unacked = 0, !.pcb.fin = FALSE]
    IN  CASE c.pcb.state \in Open /\ d.got.fin         -> To("CLOSE_WAIT")
          [] c.pcb.state = "FIN_WAIT_1" /\ d.got.fin   ->
                IF AllAcked(d) THEN Purged ELSE To("CLOSING")
          [] c.pcb.state = "FIN_WAIT_1" /\ ~d.got.fin  ->
                IF AllAcked(d) THEN To("FIN_WAIT_2") ELSE d
          [] c.pcb.state = "FIN_WAIT_2" /\ d.got.fin   -> Purged
          [] c.pcb.state = "CLOSING" /\ AllAcked(d)    -> Purged
          [] c.pcb.state = "LAST_ACK" /\ AllAcked(d)   -> [d EXCEPT !.pcb.closed = TRUE]
          [] OTHER                                     -> d

\* stop: tcp_input has jumped to aborted and no longer looks at the pcb.
Stop(c) == [c EXCEPT !.stop = TRUE]

TCP_EVENT_ERR(c) == IF c.pcb.err THEN client_err_func(c) ELSE c

tcp_input_delayed_close(c) ==
    CASE c.stop                    -> c
      [] ~c.stop /\ ~c.pcb.closed  -> UsePcb(c)
      [] OTHER -> Stop(tcp_free(IF c.pcb.rxclosed THEN c ELSE TCP_EVENT_ERR(c)))

\* A callback that returned ERR_ABRT has freed the pcb.
AfterCallback(c) == IF ERR_ABRT(c) THEN Stop(c) ELSE UsePcb(c)

TCP_EVENT_SENT(c, n, o) ==
    IF n > 0 /\ c.pcb.sent THEN AfterCallback(client_sent_func(c, n, o)) ELSE c

tcp_abort(c) ==
    LET d == tcp_free(c)
    IN  IF c.pcb.state = "TIME_WAIT" THEN d ELSE TCP_EVENT_ERR(d)

TCP_EVENT_RECV(c, o) ==
    IF c.stop \/ c.got.len = 0 THEN c
    ELSE CASE c.pcb.rxclosed                 -> Stop(tcp_abort(c))
           [] ~c.pcb.rxclosed /\ c.pcb.recv  -> AfterCallback(client_recv_func(c, c.got.len, o))
           [] OTHER                          -> tcp_recved(c, c.got.len)

TCP_EVENT_CLOSED(c, o) ==
    LET d == [c EXCEPT !.pcb.wnd = bmin_int(@ + 1, TCP_WND)]
    IN  IF c.stop \/ ~c.got.fin THEN c
        ELSE IF c.pcb.recv THEN AfterCallback(client_recv_func(d, 0, o)) ELSE d

Aborted(c) == [c EXCEPT !.pcb.input = FALSE]

\* tcp_input after tcp_process, up to the label aborted.
Callbacks(c, s, o) ==
    Aborted(tcp_input_delayed_close(TCP_EVENT_CLOSED(TCP_EVENT_RECV(
        tcp_input_delayed_close(TCP_EVENT_SENT(c, s.ack, o)), o), o)))

tcp_input(c, s, o) ==
    LET d == [c EXCEPT !.pcb.input = TRUE]
    IN  IF s.rst THEN Aborted(tcp_free(TCP_EVENT_ERR(d)))
        ELSE Callbacks(tcp_process(d, s), s, o)

(***************************************************************************)
(* The third segment of the handshake: tcp_process in SYN_RCVD.            *)
(***************************************************************************)
NewClient ==
    [mem |-> "live", aborted |-> FALSE, dead |-> "null", client_closed |-> FALSE,
     buf_used |-> 0, socks_up |-> FALSE, socks_closed |-> FALSE, recv_buf_used |-> -1,
     recv_buf_sent |-> 0, recv_waiting |-> FALSE, tcp_pending |-> 0]

listener_accept_func(c, o) ==
    DEAD_LEAVE2(SYNC_COMMIT(
        DEAD_ENTER([c EXCEPT !.cl = NewClient, !.sk.state = "connecting",
                             !.pcb.err = TRUE, !.pcb.recv = TRUE]),
        {"error"}, o))

\* tcp_process once listener_accept_func has returned.
tcp_process_accepted(c, s, o) ==
    LET d == tcp_receive(c, s)
    IN  IF c.stop THEN Aborted(c)
        ELSE Callbacks(IF d.got.fin THEN [d EXCEPT !.pcb.state = "CLOSE_WAIT"] ELSE d, s, o)

\* With accepted false listener_accept_func returns ERR_MEM.
tcp_process_syn_rcvd(c, s, accepted, o) ==
    LET d == [c EXCEPT !.pcb.state = "ESTABLISHED", !.pcb.input = TRUE]
    IN  IF ~accepted THEN Aborted(tcp_abort(d))
        ELSE tcp_process_accepted(AfterCallback(listener_accept_func(d, o)), s, o)

(***************************************************************************)
(* Actions.                                                                *)
(***************************************************************************)
Now == [pcb |-> pcb, cl |-> cl, sk |-> sk, ok |-> ok, killed |-> 0,
        stop |-> FALSE, got |-> [len |-> 0, fin |-> FALSE]]

Become(c) == pcb' = c.pcb /\ cl' = c.cl /\ sk' = c.sk /\ ok' = c.ok

Events ==
    [kind : {"sent"}, n : 1..TCP_WND] \cup [kind : {"received"}, n : 1..RECV_BUF]
        \cup [kind : {"error", "closed"}, n : {0}]

\* SYNC_COMMIT runs at most two events, as the reactor's limits say
\* (BCONNECTION_SEND_LIMIT, BCONNECTION_RECV_LIMIT), and none after an error.
Nothing == [kind |-> "none", n |-> 0]
Quiet == <<Nothing, Nothing>>
Syncs == {Quiet} \cup {<<e, Nothing>> : e \in Events}
             \cup {<<d, e>> : d \in {x \in Events : x.n > 0}, e \in Events}

Outcomes(syncs) ==
    [fin : BOOLEAN, write : BOOLEAN, output : BOOLEAN, sync : syncs]

Segments ==
    {s \in [rst : BOOLEAN, len : 0..TCP_WND, fin : BOOLEAN,
            ack : 0..TCP_SND_BUF, finack : BOOLEAN] :
        /\ s.len + (IF s.fin THEN 1 ELSE 0) <= pcb.wnd
        /\ s.len <= app.left
        /\ s.len > 0 \/ s.fin => ~app.fin
        /\ s.ack <= pcb.unacked
        /\ s.finack => pcb.fin /\ s.ack = pcb.unacked
        /\ s.rst => s.len = 0 /\ ~s.fin /\ s.ack = 0 /\ ~s.finack}

\* The app's TCP has sent s; what lwIP acknowledged is not sent again.
AppSent(s) == app' = [left |-> app.left - s.len, fin |-> app.fin \/ s.fin]

Init ==
    /\ pcb = [state |-> "SYN_RCVD", rxclosed |-> FALSE, closed |-> FALSE,
              closepend |-> FALSE, input |-> FALSE, err |-> FALSE, recv |-> FALSE,
              sent |-> FALSE, wnd |-> TCP_WND, unacked |-> 0, fin |-> FALSE]
    /\ cl = [NewClient EXCEPT !.mem = "none"]
    /\ sk = [state |-> "none", send |-> 0, recv |-> FALSE, left |-> MaxDown]
    /\ app = [left |-> MaxUp, fin |-> FALSE]
    /\ ok = TRUE

\* The handshake ends; the segment may carry data and a FIN already.
Accept ==
    /\ pcb.state = "SYN_RCVD"
    /\ \E s \in Segments, accepted \in BOOLEAN,
          o \in Outcomes({Quiet, <<[kind |-> "error", n |-> 0], Nothing>>}) :
          /\ ~s.rst
          /\ Become(tcp_process_syn_rcvd(Now, s, accepted, o))
          /\ AppSent(s)

Input ==
    /\ pcb.state \in {"SYN_RCVD"} \cup Open \cup Closing
    /\ \E s \in Segments, o \in Outcomes(Syncs) :
          /\ pcb.state = "SYN_RCVD" => s.rst
          /\ s.len = 0 /\ s.ack = 0 => o.sync = Quiet
          /\ Become(tcp_input(Now, s, o))
          /\ AppSent(s)

\* tcp_slowtmr removes a pcb whose segments were never acknowledged, or
\* that has been in its closing state for too long.
slowtmr_due ==
    \/ pcb.state \in Open \cup Closing /\ ~AllAcked(Now)
    \/ pcb.state = "FIN_WAIT_2" /\ pcb.rxclosed
    \/ pcb.state \in {"SYN_RCVD", "LAST_ACK", "TIME_WAIT"}

SlowTimer ==
    /\ slowtmr_due
    /\ Become(IF pcb.state = "TIME_WAIT" THEN tcp_free(Now)
              ELSE TCP_EVENT_ERR(tcp_free(Now)))
    /\ UNCHANGED app

FastTimer ==
    /\ pcb.closepend /\ pcb.state \in Open
    /\ \E o \in Outcomes({Quiet}) :
          Become(tcp_close_shutdown_fin([Now EXCEPT !.pcb.closepend = FALSE], o))
    /\ UNCHANGED app

Socks(e) ==
    /\ Possible(Now, e)
    /\ \E o \in Outcomes({Quiet}) : Become(SocksEvent(Now, e, o))
    /\ UNCHANGED app

SocksUp == Socks([kind |-> "up", n |-> 0])
SocksDown == \E k \in {"error", "closed"} : Socks([kind |-> k, n |-> 0])
SocksSent == \E n \in 1..TCP_WND : Socks([kind |-> "sent", n |-> n])
SocksReceived == \E n \in 1..RECV_BUF : Socks([kind |-> "received", n |-> n])

\* tun2socks stops: main frees what clients there are.
Murder ==
    /\ cl.mem = "live"
    /\ Become(client_murder(Now))
    /\ UNCHANGED app

Next ==
    \/ Accept \/ Input \/ SlowTimer \/ FastTimer
    \/ SocksUp \/ SocksDown \/ SocksSent \/ SocksReceived
    \/ Murder

Spec == Init /\ [][Next]_vars

(***************************************************************************)
(* Fairness, each time weak fairness of the steps that make some progress, *)
(* with the states that enable them spelled out.  A pcb that tcp_close has *)
(* left in FIN_WAIT_2, LAST_ACK or TIME_WAIT times out, as segments do not *)
(* set back the clock of a pcb whose receiving side is closed; tcp_fasttmr *)
(* finds memory for a FIN in the end.  A SOCKS connection that is          *)
(* connecting comes up or fails, one that is sending goes on or fails.     *)
(* Nobody has to send or acknowledge anything, to close or to stop.        *)
(***************************************************************************)
Overdue == (pcb.state = "FIN_WAIT_2" /\ pcb.rxclosed) \/ pcb.state \in {"LAST_ACK", "TIME_WAIT"}
FinPending == pcb.closepend /\ pcb.state \in Open
FinQueued == FinPending /\ ~pcb'.closepend
SocksDecides == sk.state = "connecting" /\ sk'.state # "connecting"
SocksTakes == cl'.buf_used < cl.buf_used \/ sk'.state = "freed"

Fairness ==
    /\ []<>(~Overdue)
    /\ []<>(~FinPending) \/ []<><<FinQueued>>_vars
    /\ []<>(sk.state # "connecting") \/ []<><<SocksDecides>>_vars
    /\ []<>(sk.send = 0) \/ []<><<SocksTakes>>_vars

FairSpec == Spec /\ Fairness

\* The fields of tcp_pcb, tcp_client and BSocksClient, the counters within the
\* sizes of the buffers they count in.
TypeOK ==
    /\ pcb \in [state : {"SYN_RCVD"} \cup Open \cup Closing \cup Gone,
                rxclosed : BOOLEAN, closed : BOOLEAN, closepend : BOOLEAN,
                input : {FALSE}, err : BOOLEAN, recv : BOOLEAN, sent : BOOLEAN,
                wnd : 0..TCP_WND, unacked : 0..TCP_SND_BUF, fin : BOOLEAN]
    /\ cl \in [mem : {"none", "live", "freed"}, aborted : BOOLEAN,
               dead : {"null", "live", "dangling"}, client_closed : BOOLEAN,
               buf_used : 0..TCP_WND, socks_up : BOOLEAN, socks_closed : BOOLEAN,
               recv_buf_used : -1..RECV_BUF, recv_buf_sent : 0..RECV_BUF,
               recv_waiting : BOOLEAN, tcp_pending : 0..TCP_SND_BUF]
    /\ sk \in [state : {"none", "connecting", "up", "freed"}, send : 0..TCP_WND,
               recv : BOOLEAN, left : 0..MaxDown]
    /\ app \in [left : 0..MaxUp, fin : BOOLEAN]

\* Whatever segment, timer or SOCKS event comes, and however the calls nest,
\* no ASSERT of the client fails, "no buffer for data !?!" is not logged, a
\* callback reports ERR_ABRT whenever it has aborted the pcb, so that lwIP
\* does not go on using it, and neither a freed client, a freed pcb nor a
\* dead variable of a callback that has returned is touched.
NoFault == TypeOK /\ ok

\* The window lwIP offers the app and the bytes waiting in buf add up to the
\* size of buf as long as the client takes the app's data: the window is
\* given back exactly when SOCKS has taken the bytes, across partial sends,
\* sends done inside the receive callback and data that comes before SOCKS
\* is up.
WindowCredit ==
    cl.mem = "live" /\ ~cl.client_closed /\ pcb.recv => cl.buf_used + pcb.wnd = TCP_WND

\* A client that is alive waits for something that will happen.  Data for
\* SOCKS is being sent as soon as SOCKS is up; data for the app that did not
\* fit waits for an acknowledgement of bytes lwIP still holds; otherwise a
\* receive is in progress, or SOCKS is closed and lwIP holds the rest.  While
\* the client counts on the pcb, lwIP can tell it that the pcb is gone, and
\* once it does not, lwIP calls it no more.
Driven ==
    /\ cl.mem = "live" /\ cl.socks_up =>
          /\ ~cl.socks_closed => (sk.send > 0 <=> cl.buf_used > 0)
          /\ ~cl.client_closed =>
                /\ cl.tcp_pending = pcb.unacked /\ pcb.sent
                /\ cl.recv_buf_used > 0 => cl.recv_waiting /\ cl.tcp_pending > 0
                /\ ~cl.socks_closed /\ cl.recv_buf_used = -1 => sk.recv
                /\ cl.socks_closed => cl.tcp_pending > 0
    /\ cl.mem = "live" /\ ~cl.client_closed => pcb.state \in Open /\ pcb.err
    /\ cl.mem = "freed" \/ cl.client_closed =>
          pcb.state = "FREED" \/ (~pcb.err /\ ~pcb.recv /\ ~pcb.sent)

\* lwIP holds data or a FIN for the app.
Withheld == pcb.state \in (Open \cup Closing) \ {"LAST_ACK"} /\ ~AllAcked(Now)
PcbSettles ==
    pcb'.state # pcb.state \/ pcb'.unacked < pcb.unacked \/ (pcb.fin /\ ~pcb'.fin)

\* What lwIP holds for the app is acknowledged sooner or later, or it is sent
\* again, or the window probed, without an answer until tcp_slowtmr gives up.
\* The code does not see to that: an app that keeps its window shut and
\* answers the probes (which sets back persist_probe) is waited for as long as
\* it likes, by lwIP and by tun2socks, which has no timeout of its own.
AppSettles == []<>(~Withheld) \/ []<><<PcbSettles>>_vars

\* Once either side has closed, and if the app does not withhold its
\* acknowledgements for ever (AppSettles), the client is freed: what is left
\* is sent to the other side or given up, and the client does not linger.  The
\* pcb of a closed client is freed as well, unless it is in CLOSE_WAIT with no
\* FIN left to send, where nothing ever frees it: from every other state the
\* acknowledgements, tcp_fasttmr and tcp_slowtmr bring it to its end, also
\* when tcp_close found no memory for the FIN.
Reclaimed ==
    AppSettles =>
        /\ cl.mem = "live" /\ (cl.client_closed \/ cl.socks_closed) ~> cl.mem = "freed"
        /\ cl.client_closed /\ ~(pcb.state = "CLOSE_WAIT" /\ ~pcb.closepend)
               ~> pcb.state = "FREED"
=============================================================================
