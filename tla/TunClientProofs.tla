----------------------------- MODULE TunClientProofs -----------------------------
(***************************************************************************)
(* Safety of TunClient, for windows and buffers of any size.               *)
(*                                                                         *)
(* The handlers of the model are functions from a context, the pcb, the    *)
(* client and its SOCKS connection in one record, to another. So each      *)
(* lemma is about one function of tun2socks.c or lwIP: from a context that *)
(* is in order it leads to one that is. In order (Good) means one of       *)
(* three: nobody has been accepted yet (Unborn), the client and the pcb    *)
(* count on each other (Connected), or the app's side is closed and the    *)
(* pcb calls nobody (Left with Detached).                                  *)
(*                                                                         *)
(* Inside tcp_input the books do not balance between two callbacks: due    *)
(* bytes of the window were taken and not yet handed over, acked bytes     *)
(* were acknowledged and not yet reported. Connected takes both as         *)
(* parameters; they are 0 between two actions. Caught is what DEAD_ENTER   *)
(* provides and DEAD_LEAVE2 relies on: the dead variable is told of an     *)
(* abort before the callback returns.                                      *)
(***************************************************************************)
EXTENDS TunClient, TLAPS

\* The values of the fields, also while tcp_input is running.
PcbStates == {"SYN_RCVD"} \cup Open \cup Closing \cup Gone

Pcbs ==
    [state : PcbStates,
     rxclosed : BOOLEAN, closed : BOOLEAN, closepend : BOOLEAN, input : BOOLEAN,
     err : BOOLEAN, recv : BOOLEAN, sent : BOOLEAN,
     wnd : 0..TCP_WND, unacked : 0..TCP_SND_BUF, fin : BOOLEAN]

Clients ==
    [mem : {"none", "live", "freed"}, aborted : BOOLEAN,
     dead : {"null", "live", "dangling"}, client_closed : BOOLEAN,
     buf_used : 0..TCP_WND, socks_up : BOOLEAN, socks_closed : BOOLEAN,
     recv_buf_used : -1..RECV_BUF, recv_buf_sent : 0..RECV_BUF,
     recv_waiting : BOOLEAN, tcp_pending : 0..TCP_SND_BUF]

SocksClients ==
    [state : {"none", "connecting", "up", "freed"}, send : 0..TCP_WND,
     recv : BOOLEAN, left : 0..MaxDown]

Gots == [len : 0..TCP_WND, fin : BOOLEAN]

Contexts ==
    [pcb : Pcbs, cl : Clients, sk : SocksClients, ok : BOOLEAN, killed : -1..1,
     stop : BOOLEAN, got : Gots]

-----------------------------------------------------------------------------
\* No callback is set; a pcb that calls nobody is freed or has none.
Off(p) == ~p.err /\ ~p.recv /\ ~p.sent
Detached(p) == p.state = "FREED" \/ (Off(p) /\ p.state # "SYN_RCVD")

\* The SOCKS connection neither sends nor receives.
Idle(s) == s.send = 0 /\ ~s.recv

\* The client l and its SOCKS connection s.
Paired(l, s) ==
    /\ s.state = IF l.socks_closed THEN "freed" ELSE IF l.socks_up THEN "up" ELSE "connecting"
    /\ l.socks_closed \/ ~l.socks_up => Idle(s)
    /\ ~l.socks_closed /\ l.socks_up => s.send <= l.buf_used /\ (s.send = 0 => l.buf_used = 0)
    /\ s.recv => l.recv_buf_used = -1

\* What an open client l counts on of the pcb p.
Attached(l, p) ==
    /\ l.mem = "live" /\ ~l.client_closed /\ ~l.aborted /\ (l.socks_closed => l.socks_up)
    /\ p.state \in Open /\ ~p.closed /\ ~p.closepend /\ ~p.rxclosed
    /\ p.err /\ p.recv = ~l.socks_closed /\ p.sent = l.socks_up

\* due bytes of the window have still to be given to the client or back.
Credit(l, p, due) == p.recv => l.buf_used + p.wnd + due = TCP_WND

\* acked bytes have been acknowledged and not yet reported.
Outgoing(l, p, acked) ==
    /\ l.tcp_pending = p.unacked + acked
    /\ ~l.socks_up => l.tcp_pending = 0 /\ l.recv_buf_used = -1

\* What is received goes on: it waits for an acknowledgement, or for more.
Waiting(l, s) ==
    /\ l.recv_buf_used # -1 => /\ l.recv_buf_used > 0 /\ l.recv_waiting /\ l.tcp_pending > 0
                               /\ l.recv_buf_sent < l.recv_buf_used
    /\ l.socks_up /\ ~l.socks_closed /\ l.recv_buf_used = -1 => s.recv
    /\ l.socks_closed => l.tcp_pending > 0

\* The client and the pcb count on each other.
Connected(c, due, acked) ==
    /\ Attached(c.cl, c.pcb) /\ Paired(c.cl, c.sk) /\ Credit(c.cl, c.pcb, due)
    /\ Outgoing(c.cl, c.pcb, acked) /\ Waiting(c.cl, c.sk)

\* The app's side is closed, and what it sent still goes on to SOCKS or all
\* is over.
Left(l, s) ==
    /\ l.client_closed
    /\ \/ l.mem = "live" /\ ~l.socks_closed /\ l.buf_used > 0 /\ Paired(l, s)
       \/ l.mem = "freed" /\ s.state = "freed" /\ Idle(s)

\* listener_accept_func has not made a client, or has refused to.
Unborn(c) ==
    /\ c.cl.mem = "none" /\ c.sk.state = "none" /\ Idle(c.sk) /\ Off(c.pcb)
    /\ \/ c.pcb.state = "FREED"
       \/ /\ c.pcb.state = "SYN_RCVD" /\ c.pcb.wnd = TCP_WND /\ c.pcb.unacked = 0
          /\ ~c.pcb.closed /\ ~c.pcb.closepend /\ ~c.pcb.rxclosed

\* Everything is in order but for the due and the acked bytes.
Good(c, due, acked) ==
    Unborn(c) \/ Connected(c, due, acked) \/ (Left(c.cl, c.sk) /\ Detached(c.pcb))

\* Only an aborted client still points to a dead variable that has gone.
DeadOk(l) == l.dead = "dangling" => l.aborted

\* Outside of tcp_input nothing is left to be closed.
Shut(p) == p.closed /\ ~p.input => p.state = "FREED"

\* In a callback of lwIP: the dead variable knows of an abort.
Caught(c) ==
    /\ c.pcb.input /\ c.cl.mem # "none" /\ (c.cl.mem = "live" => c.cl.dead = "live")
    /\ c.killed = 1 <=> c.pcb.state = "FREED"
    /\ c.killed = 1 => c.cl.aborted
    /\ c.killed = -1 => c.cl.mem = "freed"

\* What a call on the client, or a SOCKS event, makes of c.  It never takes
\* any of the window.
Grown(q, p) == q.wnd = p.wnd \/ q.wnd > p.wnd
Frame(d, c) ==
    /\ d \in Contexts /\ d.ok /\ DeadOk(d.cl) /\ Shut(d.pcb) /\ Grown(d.pcb, c.pcb)
    /\ d.pcb.input = c.pcb.input /\ d.stop = c.stop /\ d.got = c.got
    /\ Caught(c) => Caught(d)

\* The app's side has ended in the call; or all is in order after it.
Ended(d, c) == Frame(d, c) /\ Left(d.cl, d.sk) /\ Detached(d.pcb)
Went(d, c, due) == Frame(d, c) /\ Good(d, due, 0)

\* All but the pcb is as it was.
OnlyPcb(d, c) ==
    /\ d \in Contexts /\ d.ok /\ d.cl = c.cl /\ d.sk = c.sk /\ d.killed = c.killed
    /\ d.stop = c.stop /\ d.got = c.got

\* All but the client, or the SOCKS connection, is as it was.
OnlyCl(d, c) ==
    /\ d \in Contexts /\ d.ok /\ d.pcb = c.pcb /\ d.sk = c.sk /\ d.killed = c.killed
    /\ d.stop = c.stop /\ d.got = c.got
OnlySk(d, c) ==
    /\ d \in Contexts /\ d.ok /\ d.pcb = c.pcb /\ d.cl = c.cl /\ d.killed = c.killed
    /\ d.stop = c.stop /\ d.got = c.got

-----------------------------------------------------------------------------
(***************************************************************************)
(* The elementary steps.                                                   *)
(***************************************************************************)
\* The sizes are positive.
LEMMA Sizes ==
  /\ TCP_WND \in Nat /\ TCP_WND > 0 /\ TCP_SND_BUF \in Nat /\ TCP_SND_BUF > 0
  /\ RECV_BUF \in Nat /\ RECV_BUF > 0 /\ MaxUp \in Nat /\ MaxDown \in Nat
BY SizesAssumption

\* An ASSERT that holds changes nothing.
LEMMA Kept ==
  ASSUME NEW c \in Contexts, c.ok, NEW b \in BOOLEAN, b
  PROVE  Require(c, b) = c
BY DEF Require, Contexts

\* Nor does the use of what is there.
LEMMA Used ==
  ASSUME NEW c \in Contexts, c.ok
  PROVE  /\ c.pcb.state # "FREED" => UsePcb(c) = c
         /\ c.cl.mem = "live" => UseClient(c) = c
BY Zenon, Kept DEF UsePcb, UseClient

\* The states by name.
LEMMA StateNames ==
  /\ Open = {"ESTABLISHED", "CLOSE_WAIT"}
  /\ {"SYN_RCVD", "ESTABLISHED", "CLOSE_WAIT", "FIN_WAIT_1", "FIN_WAIT_2", "CLOSING", "LAST_ACK",
      "TIME_WAIT", "FREED"} = PcbStates
BY DEF PcbStates, Open, Closing, Gone

\* tcp_free marks the pcb FREED, drops its segments and changes nothing else.
LEMMA FreeFields ==
  ASSUME NEW c \in Contexts, c.ok, c.pcb.state # "FREED"
  PROVE  /\ OnlyPcb(tcp_free(c), c)
         /\ tcp_free(c).pcb = [c.pcb EXCEPT !.state = "FREED", !.unacked = 0, !.fin = FALSE]
<1>1. UsePcb(c) = c
  BY Used
<1> DEFINE p == [c.pcb EXCEPT !.state = "FREED", !.unacked = 0, !.fin = FALSE]
<1>2. p \in Pcbs
  <2>1. c.pcb \in Pcbs
    BY DEF Contexts
  <2>2. 0 \in 0..TCP_SND_BUF
    BY Sizes
  <2>3. "FREED" \in PcbStates
    BY StateNames
  <2>4. QED
    BY Zenon, <2>1, <2>2, <2>3 DEF Pcbs
<1>3. tcp_free(c) = [c EXCEPT !.pcb = p]
  BY Zenon, <1>1 DEF tcp_free, Contexts, Pcbs
<1> HIDE DEF p
<1>4. QED
  BY <1>2, <1>3 DEF Contexts, p, OnlyPcb

\* tcp_callbacks_off takes the three callbacks off the pcb and nothing else.
LEMMA OffFields ==
  ASSUME NEW c \in Contexts, c.ok, c.pcb.state # "FREED"
  PROVE  /\ OnlyPcb(tcp_callbacks_off(c), c)
         /\ tcp_callbacks_off(c).pcb = [c.pcb EXCEPT !.err = FALSE, !.recv = FALSE, !.sent = FALSE]
<1>1. UsePcb(c) = c
  BY Used
<1>2. QED
  BY Zenon, <1>1 DEF tcp_callbacks_off, Contexts, Pcbs, OnlyPcb

\* A field of the pcb is set.
LEMMA PcbSet ==
  ASSUME NEW c \in Contexts, c.ok, NEW p \in Pcbs
  PROVE  OnlyPcb([c EXCEPT !.pcb = p], c) /\ [c EXCEPT !.pcb = p].pcb = p
BY DEF Contexts, OnlyPcb

\* The client is set.
LEMMA ClSet ==
  ASSUME NEW c \in Contexts, c.ok, NEW l \in Clients
  PROVE  OnlyCl([c EXCEPT !.cl = l], c) /\ [c EXCEPT !.cl = l].cl = l
BY DEF Contexts, OnlyCl

\* The SOCKS connection is set.
LEMMA SkSet ==
  ASSUME NEW c \in Contexts, c.ok, NEW t \in SocksClients
  PROVE  OnlySk([c EXCEPT !.sk = t], c) /\ [c EXCEPT !.sk = t].sk = t
BY DEF Contexts, OnlySk

\* tcp_close_shutdown_fin moves an open pcb on or marks the FIN as pending; the
\* callbacks and the window stay.
LEMMA FinFields ==
  ASSUME NEW c \in Contexts, c.ok, NEW o, c.pcb.state \in Open
  PROVE  LET d == tcp_close_shutdown_fin(c, o)
         IN  /\ OnlyPcb(d, c)
             /\ d.pcb.state \notin {"FREED", "SYN_RCVD"}
             /\ d.pcb.err = c.pcb.err /\ d.pcb.recv = c.pcb.recv /\ d.pcb.sent = c.pcb.sent
             /\ d.pcb.input = c.pcb.input /\ d.pcb.closed = c.pcb.closed
             /\ d.pcb.wnd = c.pcb.wnd
<1>1. c.pcb \in Pcbs
  BY DEF Contexts
<1>2. CASE o.fin
  <2> DEFINE to == IF c.pcb.state = "ESTABLISHED" THEN "FIN_WAIT_1" ELSE "LAST_ACK"
             p == [c.pcb EXCEPT !.fin = TRUE, !.state = to]
  <2>1. to \in PcbStates /\ to \notin {"FREED", "SYN_RCVD"}
    BY StateNames
  <2>2. tcp_close_shutdown_fin(c, o) = [c EXCEPT !.pcb = p]
    BY Zenon, <1>1, <1>2 DEF tcp_close_shutdown_fin, Contexts, Pcbs
  <2> HIDE DEF to
  <2>3. p \in Pcbs
    BY Zenon, <1>1, <2>1 DEF Pcbs
  <2>4. /\ p.state = to /\ p.err = c.pcb.err /\ p.recv = c.pcb.recv /\ p.sent = c.pcb.sent
        /\ p.input = c.pcb.input /\ p.closed = c.pcb.closed /\ p.wnd = c.pcb.wnd
    BY <1>1 DEF Pcbs
  <2> HIDE DEF p
  <2>5. QED
    BY <2>1, <2>2, <2>3, <2>4, PcbSet
<1>3. CASE ~o.fin
  <2> DEFINE p == [c.pcb EXCEPT !.closepend = TRUE]
  <2>1. tcp_close_shutdown_fin(c, o) = [c EXCEPT !.pcb = p]
    BY <1>1, <1>3 DEF tcp_close_shutdown_fin, Contexts, Pcbs
  <2>2. p \in Pcbs
    BY Zenon, <1>1 DEF Pcbs
  <2>3. /\ p.state = c.pcb.state /\ p.err = c.pcb.err /\ p.recv = c.pcb.recv
        /\ p.sent = c.pcb.sent /\ p.input = c.pcb.input /\ p.closed = c.pcb.closed
        /\ p.wnd = c.pcb.wnd
    BY <1>1 DEF Pcbs
  <2> HIDE DEF p
  <2>4. c.pcb.state \notin {"FREED", "SYN_RCVD"}
    BY StateNames
  <2>5. QED
    BY <2>1, <2>2, <2>3, <2>4, PcbSet
<1>4. QED
  BY <1>2, <1>3

\* tcp_close of an accepted connection.  Inside tcp_input it does not free.
LEMMA CloseFields ==
  ASSUME NEW c \in Contexts, c.ok, NEW o, c.pcb.state \in Open, ~c.pcb.closed
  PROVE  LET d == tcp_close(c, o)
         IN  /\ OnlyPcb(d, c)
             /\ d.pcb.state # "SYN_RCVD" /\ (d.pcb.input => d.pcb.state # "FREED")
             /\ d.pcb.err = c.pcb.err /\ d.pcb.recv = c.pcb.recv /\ d.pcb.sent = c.pcb.sent
             /\ d.pcb.input = c.pcb.input /\ Shut(d.pcb) /\ d.pcb.wnd = c.pcb.wnd
<1> DEFINE p == [c.pcb EXCEPT !.rxclosed = TRUE]
           e == [c EXCEPT !.pcb = p]
<1>1. c.pcb \in Pcbs /\ c.pcb.state # "FREED"
  BY StateNames DEF Contexts
<1>2. tcp_close(c, o) = tcp_close_shutdown(e, o)
  <2>1. UsePcb(c) = c
    BY <1>1, Used
  <2>2. QED
    BY <1>1, <2>1 DEF tcp_close, Contexts, Pcbs
<1>3. /\ p \in Pcbs /\ p.state = c.pcb.state /\ p.err = c.pcb.err /\ p.recv = c.pcb.recv
      /\ p.sent = c.pcb.sent /\ p.input = c.pcb.input /\ p.closed = c.pcb.closed
      /\ p.wnd = c.pcb.wnd
  BY Zenon, <1>1 DEF Pcbs
<1> HIDE DEF p
<1>4. OnlyPcb(e, c) /\ e.pcb = p
  BY <1>3, PcbSet
<1> HIDE DEF e
<1>5. e \in Contexts /\ e.ok
  BY <1>4 DEF OnlyPcb
<1> DEFINE q == [p EXCEPT !.unacked = 0, !.fin = FALSE]
           purged == [e EXCEPT !.pcb.unacked = 0, !.pcb.fin = FALSE]
<1>6. purged = [e EXCEPT !.pcb = q]
  BY Zenon, <1>4, <1>5 DEF Contexts, Pcbs
<1>7. /\ q \in Pcbs /\ q.state = p.state /\ q.err = p.err /\ q.recv = p.recv
      /\ q.sent = p.sent /\ q.input = p.input /\ q.closed = p.closed /\ q.wnd = p.wnd
  <2>1. 0 \in 0..TCP_SND_BUF
    BY Sizes
  <2>2. QED
    BY Zenon, <1>3, <2>1 DEF Pcbs
<1>8. purged \in Contexts /\ purged.ok /\ OnlyPcb(purged, e) /\ purged.pcb = q
  <2> HIDE DEF q, purged
  <2>1. QED
    BY <1>5, <1>6, <1>7, PcbSet DEF OnlyPcb
<1>9. CASE e.pcb.wnd = TCP_WND
  <2>1. tcp_close_shutdown(e, o) = tcp_close_shutdown_fin(e, o)
    BY <1>9 DEF tcp_close_shutdown
  <2>2. QED
    BY <1>2, <1>3, <1>4, <1>5, <2>1, FinFields DEF OnlyPcb, Shut
<1>10. CASE e.pcb.wnd # TCP_WND /\ e.pcb.state = "ESTABLISHED"
  <2> DEFINE r == [q EXCEPT !.state = "TIME_WAIT"]
  <2>1. tcp_close_shutdown(e, o) = [purged EXCEPT !.pcb.state = "TIME_WAIT"]
    BY <1>10, StateNames DEF tcp_close_shutdown
  <2> HIDE DEF purged
  <2>2. tcp_close_shutdown(e, o) = [purged EXCEPT !.pcb = r]
    BY <1>8, <2>1 DEF Contexts, Pcbs
  <2>3. "TIME_WAIT" \in PcbStates
    BY StateNames
  <2>4. /\ r \in Pcbs /\ r.state = "TIME_WAIT" /\ r.err = q.err /\ r.recv = q.recv
        /\ r.sent = q.sent /\ r.input = q.input /\ r.closed = q.closed /\ r.wnd = q.wnd
    BY Zenon, <1>7, <2>3 DEF Pcbs
  <2> HIDE DEF r, q
  <2>5. QED
    BY <1>2, <1>3, <1>4, <1>7, <1>8, <2>2, <2>4, PcbSet DEF OnlyPcb, Shut
<1>11. CASE e.pcb.wnd # TCP_WND /\ e.pcb.state = "CLOSE_WAIT"
  <2>1. tcp_close_shutdown(e, o) = IF e.pcb.input THEN [purged EXCEPT !.pcb.closed = TRUE]
                                   ELSE tcp_free(purged)
    BY <1>11, StateNames DEF tcp_close_shutdown
  <2> HIDE DEF purged
  <2>2. CASE e.pcb.input
    <3> DEFINE r == [q EXCEPT !.closed = TRUE]
    <3>1. tcp_close_shutdown(e, o) = [purged EXCEPT !.pcb = r]
      BY <1>8, <2>1, <2>2 DEF Contexts, Pcbs
    <3>2. /\ r \in Pcbs /\ r.state = q.state /\ r.err = q.err /\ r.recv = q.recv
          /\ r.sent = q.sent /\ r.input = q.input /\ r.wnd = q.wnd
      BY Zenon, <1>7 DEF Pcbs
    <3> HIDE DEF r, q
    <3>3. OnlyPcb(tcp_close(c, o), purged) /\ tcp_close(c, o).pcb = r
      BY <1>2, <1>8, <3>1, <3>2, PcbSet
    <3>4. OnlyPcb(tcp_close(c, o), c)
      BY <1>4, <1>8, <3>3 DEF OnlyPcb
    <3>5. r.input /\ r.state = "CLOSE_WAIT"
      BY <1>4, <1>7, <1>11, <2>2, <3>2
    <3>6. QED
      BY Zenon, <1>3, <1>7, <3>2, <3>3, <3>4, <3>5 DEF Shut
  <2>3. CASE ~e.pcb.input
    <3>1. /\ OnlyPcb(tcp_free(purged), purged)
          /\ tcp_free(purged).pcb = [q EXCEPT !.state = "FREED", !.unacked = 0, !.fin = FALSE]
      <4> HIDE DEF q
      <4>1. QED
        BY Zenon, <1>4, <1>7, <1>8, <1>11, FreeFields
    <3> DEFINE r == [q EXCEPT !.state = "FREED", !.unacked = 0, !.fin = FALSE]
    <3>2. /\ r.state = "FREED" /\ r.err = q.err /\ r.recv = q.recv
          /\ r.sent = q.sent /\ r.input = q.input /\ r.wnd = q.wnd
      BY <1>7 DEF Pcbs
    <3> HIDE DEF r, q
    <3>3. tcp_close_shutdown(e, o) = tcp_free(purged) /\ tcp_free(purged).pcb = r
      BY <2>1, <2>3, <3>1 DEF r
    <3>4. QED
      BY <1>2, <1>3, <1>4, <1>7, <1>8, <1>11, <2>3, <3>1, <3>2, <3>3 DEF OnlyPcb, Shut
  <2>4. QED
    BY <2>2, <2>3
<1>12. QED
  BY <1>3, <1>4, <1>9, <1>10, <1>11, StateNames

-----------------------------------------------------------------------------
(***************************************************************************)
(* Freeing a client.                                                       *)
(***************************************************************************)
\* client_dealloc frees a client both of whose sides are closed, and tells the
\* callback it is called from, if any, unless an abort was told already.
LEMMA DeallocFields ==
  ASSUME NEW c \in Contexts, c.ok, c.cl.mem = "live", c.cl.client_closed, c.cl.socks_closed,
         DeadOk(c.cl)
  PROVE  LET d == client_dealloc(c)
         IN  /\ d \in Contexts /\ d.ok /\ d.pcb = c.pcb /\ d.sk = c.sk
             /\ d.cl = [c.cl EXCEPT !.mem = "freed"]
             /\ d.killed = IF ~c.cl.aborted /\ c.cl.dead = "live" THEN -1 ELSE c.killed
             /\ d.stop = c.stop /\ d.got = c.got
<1>1. c.cl \in Clients
  BY DEF Contexts
<1>2. UseClient(c) = c /\ Require(c, c.cl.client_closed /\ c.cl.socks_closed) = c
  BY <1>1, Used, Kept DEF Clients
<1> DEFINE e == IF c.cl.aborted THEN c ELSE DEAD_KILL_WITH(c, -1)
           k == IF ~c.cl.aborted /\ c.cl.dead = "live" THEN -1 ELSE c.killed
<1>3. client_dealloc(c) = [e EXCEPT !.cl.mem = "freed"]
  BY <1>2 DEF client_dealloc
<1>4. e \in Contexts /\ e.ok /\ e.cl = c.cl /\ e.pcb = c.pcb /\ e.sk = c.sk /\ e.killed = k
      /\ e.stop = c.stop /\ e.got = c.got
  <2>1. CASE c.cl.aborted
    BY <2>1
  <2>2. CASE ~c.cl.aborted /\ c.cl.dead = "live"
    BY <2>2 DEF DEAD_KILL_WITH, Contexts
  <2>3. CASE ~c.cl.aborted /\ c.cl.dead # "live"
    BY Zenon, <2>3 DEF DEAD_KILL_WITH, DeadOk
  <2>4. QED
    BY <2>1, <2>2, <2>3
<1> HIDE DEF e, k
<1>5. QED
  BY <1>1, <1>3, <1>4 DEF Contexts, Clients, k

\* client_close_socks frees the SOCKS connection and marks that side closed.
LEMMA CloseSocksFields ==
  ASSUME NEW c \in Contexts, c.ok, c.cl.mem = "live", ~c.cl.socks_closed,
         c.cl.socks_up /\ ~c.cl.client_closed => c.pcb.state # "FREED"
  PROVE  LET d == client_close_socks(c)
         IN  /\ d \in Contexts /\ d.ok
             /\ d.pcb = IF c.cl.socks_up /\ ~c.cl.client_closed
                        THEN [c.pcb EXCEPT !.recv = FALSE] ELSE c.pcb
             /\ d.sk = [c.sk EXCEPT !.state = "freed", !.send = 0, !.recv = FALSE]
             /\ d.cl = [c.cl EXCEPT !.socks_closed = TRUE]
             /\ d.killed = c.killed /\ d.stop = c.stop /\ d.got = c.got
<1>1. c.cl \in Clients /\ c.pcb \in Pcbs /\ c.sk \in SocksClients /\ 0 \in 0..TCP_WND
  BY Sizes DEF Contexts
<1>2. UseClient(c) = c /\ Require(c, ~c.cl.socks_closed) = c
  BY Zenon, <1>1, Used, Kept DEF Clients
<1> DEFINE p == IF c.cl.socks_up /\ ~c.cl.client_closed
                THEN [c.pcb EXCEPT !.recv = FALSE] ELSE c.pcb
           e == IF c.cl.socks_up /\ ~c.cl.client_closed
                THEN [UsePcb(c) EXCEPT !.pcb.recv = FALSE] ELSE c
<1>3. client_close_socks(c) = [e EXCEPT !.sk.state = "freed", !.sk.send = 0, !.sk.recv = FALSE,
                                        !.cl.socks_closed = TRUE]
  BY Zenon, <1>2 DEF client_close_socks
<1>4. p \in Pcbs
  BY Zenon, <1>1 DEF Pcbs
<1>5. e = [c EXCEPT !.pcb = p]
  <2>1. CASE c.cl.socks_up /\ ~c.cl.client_closed
    <3>1. UsePcb(c) = c
      BY <2>1, Used
    <3>2. QED
      BY <1>1, <2>1, <3>1 DEF Contexts, Pcbs
  <2>2. CASE ~(c.cl.socks_up /\ ~c.cl.client_closed)
    BY <1>1, <2>2 DEF Contexts, Pcbs
  <2>3. QED
    BY <2>1, <2>2
<1>6. OnlyPcb(e, c) /\ e.pcb = p
  <2> HIDE DEF e, p
  <2>1. QED
    BY <1>4, <1>5, PcbSet
<1> HIDE DEF e, p
<1> DEFINE t == [c.sk EXCEPT !.state = "freed", !.send = 0, !.recv = FALSE]
           l == [c.cl EXCEPT !.socks_closed = TRUE]
<1>7. t \in SocksClients /\ l \in Clients
  BY Zenon, <1>1 DEF SocksClients, Clients
<1>8. client_close_socks(c) = [e EXCEPT !.sk = t, !.cl = l]
  <2>1. e \in Contexts /\ e.sk = c.sk /\ e.cl = c.cl
    BY <1>6 DEF OnlyPcb
  <2>2. [e EXCEPT !.sk.state = "freed", !.sk.send = 0, !.sk.recv = FALSE,
                  !.cl.socks_closed = TRUE]
          = [e EXCEPT !.sk = [e.sk EXCEPT !.state = "freed", !.send = 0, !.recv = FALSE],
                      !.cl = [e.cl EXCEPT !.socks_closed = TRUE]]
    BY Zenon, <2>1 DEF Contexts
  <2>3. QED
    BY <1>3, <2>1, <2>2
<1> HIDE DEF t, l
<1>9. /\ client_close_socks(c) \in Contexts /\ client_close_socks(c).ok
      /\ client_close_socks(c).pcb = p /\ client_close_socks(c).sk = t
      /\ client_close_socks(c).cl = l /\ client_close_socks(c).killed = c.killed
      /\ client_close_socks(c).stop = c.stop /\ client_close_socks(c).got = c.got
  BY Zenon, <1>6, <1>7, <1>8 DEF OnlyPcb, Contexts
<1>10. QED
  BY <1>9 DEF p, t, l

\* What client_handle_freed_client leaves, whoever closed the client's pcb.
LEMMA HandleFreed ==
  ASSUME NEW c \in Contexts, c.ok, c.cl.mem = "live", ~c.cl.client_closed, DeadOk(c.cl),
         Paired(c.cl, c.sk)
  PROVE  LET d == client_handle_freed_client(c)
         IN  /\ d \in Contexts /\ d.ok /\ d.pcb = c.pcb /\ Left(d.cl, d.sk)
             /\ d.cl.aborted = c.cl.aborted /\ d.cl.dead = c.cl.dead
             /\ d.killed = IF d.cl.mem = "freed" /\ ~c.cl.aborted /\ c.cl.dead = "live"
                           THEN -1 ELSE c.killed
             /\ d.stop = c.stop /\ d.got = c.got
<1> DEFINE l == [c.cl EXCEPT !.client_closed = TRUE]
           d == [c EXCEPT !.cl = l]
<1>1. c.cl \in Clients /\ c.sk \in SocksClients
  BY DEF Contexts
<1>2. UseClient(c) = c /\ Require(c, ~c.cl.client_closed) = c
  BY Zenon, <1>1, Used, Kept DEF Clients
<1>3. l \in Clients /\ l.client_closed /\ l.mem = "live" /\ l.socks_closed = c.cl.socks_closed
      /\ l.socks_up = c.cl.socks_up /\ l.buf_used = c.cl.buf_used
      /\ l.recv_buf_used = c.cl.recv_buf_used /\ l.aborted = c.cl.aborted /\ l.dead = c.cl.dead
  BY Zenon, <1>1 DEF Clients
<1>4. [Require(UseClient(c), ~c.cl.client_closed) EXCEPT !.cl.client_closed = TRUE] = d
  BY Zenon, <1>1, <1>2 DEF Contexts, Clients
<1> HIDE DEF l
<1>5. d \in Contexts /\ d.ok /\ d.cl = l /\ d.pcb = c.pcb /\ d.sk = c.sk
      /\ d.killed = c.killed /\ d.stop = c.stop /\ d.got = c.got
  BY <1>3 DEF Contexts
<1> HIDE DEF d
<1>6. DeadOk(d.cl) /\ Paired(d.cl, d.sk)
  BY <1>3, <1>5 DEF DeadOk, Paired
<1>7. client_handle_freed_client(c) =
        CASE d.cl.socks_closed -> client_dealloc(d)
          [] ~d.cl.socks_closed /\ d.cl.buf_used > 0 -> d
          [] OTHER             -> client_dealloc(client_close_socks(d))
  BY Zenon, <1>4 DEF client_handle_freed_client
<1>8. CASE d.cl.socks_closed
  <2>1. client_handle_freed_client(c) = client_dealloc(d)
    BY <1>7, <1>8
  <2>2. /\ client_dealloc(d) \in Contexts /\ client_dealloc(d).ok
        /\ client_dealloc(d).pcb = c.pcb /\ client_dealloc(d).sk = c.sk
        /\ client_dealloc(d).cl = [l EXCEPT !.mem = "freed"]
        /\ client_dealloc(d).killed = IF ~l.aborted /\ l.dead = "live" THEN -1 ELSE c.killed
        /\ client_dealloc(d).stop = c.stop /\ client_dealloc(d).got = c.got
    BY <1>3, <1>5, <1>6, <1>8, DeallocFields
  <2>3. /\ client_dealloc(d).cl.mem = "freed" /\ client_dealloc(d).cl.client_closed
        /\ client_dealloc(d).cl.aborted = l.aborted /\ client_dealloc(d).cl.dead = l.dead
    BY <1>3, <2>2 DEF Clients
  <2>4. c.sk.state = "freed" /\ Idle(c.sk)
    BY <1>5, <1>6, <1>8 DEF Paired
  <2>5. Left(client_dealloc(d).cl, client_dealloc(d).sk)
    BY <2>2, <2>3, <2>4 DEF Left
  <2>6. QED
    BY <1>3, <2>1, <2>2, <2>3, <2>5
<1>9. CASE ~d.cl.socks_closed /\ d.cl.buf_used > 0
  <2>1. client_handle_freed_client(c) = d
    BY <1>7, <1>9
  <2>2. Left(d.cl, d.sk)
    BY <1>3, <1>5, <1>6, <1>9 DEF Left
  <2>3. QED
    BY <1>3, <1>5, <2>1, <2>2
<1>10. CASE ~d.cl.socks_closed /\ ~(d.cl.buf_used > 0)
  <2> DEFINE e == client_close_socks(d)
  <2>1. client_handle_freed_client(c) = client_dealloc(e)
    BY <1>7, <1>10
  <2>2. /\ e \in Contexts /\ e.ok /\ e.pcb = c.pcb
        /\ e.sk = [c.sk EXCEPT !.state = "freed", !.send = 0, !.recv = FALSE]
        /\ e.cl = [l EXCEPT !.socks_closed = TRUE]
        /\ e.killed = c.killed /\ e.stop = c.stop /\ e.got = c.got
    <3>1. d.cl.mem = "live" /\ d.cl.client_closed /\ ~d.cl.socks_closed
      BY <1>3, <1>5, <1>10
    <3>2. /\ e \in Contexts /\ e.ok
          /\ e.pcb = IF d.cl.socks_up /\ ~d.cl.client_closed
                     THEN [d.pcb EXCEPT !.recv = FALSE] ELSE d.pcb
          /\ e.sk = [d.sk EXCEPT !.state = "freed", !.send = 0, !.recv = FALSE]
          /\ e.cl = [d.cl EXCEPT !.socks_closed = TRUE]
          /\ e.killed = d.killed /\ e.stop = d.stop /\ e.got = d.got
      BY Zenon, <1>5, <3>1, CloseSocksFields
    <3> HIDE DEF e
    <3>3. QED
      BY <1>5, <3>1, <3>2
  <2> HIDE DEF e
  <2>3. /\ e.cl.mem = "live" /\ e.cl.client_closed /\ e.cl.socks_closed
        /\ e.cl.aborted = l.aborted /\ e.cl.dead = l.dead
    BY <1>3, <2>2 DEF Clients
  <2>4. e.sk.state = "freed" /\ Idle(e.sk)
    BY <1>1, <2>2 DEF SocksClients, Idle
  <2>5. DeadOk(e.cl)
    BY <1>5, <1>6, <2>3 DEF DeadOk
  <2> DEFINE f == client_dealloc(e)
  <2>6. /\ f \in Contexts /\ f.ok
        /\ f.pcb = e.pcb /\ f.sk = e.sk
        /\ f.cl = [e.cl EXCEPT !.mem = "freed"]
        /\ f.killed = IF ~e.cl.aborted /\ e.cl.dead = "live" THEN -1 ELSE e.killed
        /\ f.stop = e.stop /\ f.got = e.got
    BY Zenon, <2>2, <2>3, <2>5, DeallocFields
  <2> HIDE DEF f
  <2>7. /\ f.cl.mem = "freed" /\ f.cl.client_closed
        /\ f.cl.aborted = e.cl.aborted /\ f.cl.dead = e.cl.dead
    <3>1. e.cl \in Clients
      BY Zenon, <2>2 DEF Contexts
    <3>2. QED
      BY <2>3, <2>6, <3>1 DEF Clients
  <2>8. Left(f.cl, f.sk)
    BY <2>4, <2>6, <2>7 DEF Left
  <2>9. QED
    BY <1>3, <2>1, <2>2, <2>3, <2>6, <2>7, <2>8 DEF f
<1>11. QED
  BY <1>8, <1>9, <1>10

\* What tcp_callbacks_off leaves as it is.
LEMMA OffKeeps ==
  ASSUME NEW c \in Contexts, c.ok, c.pcb.state # "FREED"
  PROVE  LET d == tcp_callbacks_off(c)
         IN  /\ OnlyPcb(d, c) /\ Off(d.pcb)
             /\ d.pcb.state = c.pcb.state /\ d.pcb.input = c.pcb.input
             /\ d.pcb.closed = c.pcb.closed /\ d.pcb.closepend = c.pcb.closepend
             /\ d.pcb.wnd = c.pcb.wnd
<1>1. c.pcb \in Pcbs
  BY DEF Contexts
<1>2. QED
  BY Zenon, <1>1, OffFields DEF Pcbs, Off

\* client_free_client: the callbacks are off before the pcb is closed, and the
\* client goes on without the app or is freed.
LEMMA FreeClientEnds ==
  ASSUME NEW c \in Contexts, c.ok, c.cl.mem = "live", ~c.cl.client_closed, DeadOk(c.cl),
         Paired(c.cl, c.sk), c.pcb.state \in Open, ~c.pcb.closed, NEW o
  PROVE  Ended(client_free_client(c, o), c)
<1> DEFINE a == tcp_callbacks_off(c)
           b == tcp_close(a, o)
           e == client_handle_freed_client(b)
<1>1. c.cl \in Clients /\ c.pcb \in Pcbs /\ c.pcb.state # "FREED"
  BY StateNames DEF Contexts
<1>2. client_free_client(c, o) = e
  <2>1. UseClient(c) = c /\ Require(c, ~c.cl.client_closed) = c
    BY Zenon, <1>1, Used, Kept DEF Clients
  <2>2. QED
    BY <2>1 DEF client_free_client
<1>3. /\ OnlyPcb(a, c) /\ Off(a.pcb) /\ a.pcb.state = c.pcb.state
      /\ a.pcb.input = c.pcb.input /\ a.pcb.closed = c.pcb.closed /\ a.pcb.wnd = c.pcb.wnd
  BY <1>1, OffKeeps
<1> HIDE DEF a
<1>4. /\ OnlyPcb(b, a) /\ b.pcb.state # "SYN_RCVD" /\ (b.pcb.input => b.pcb.state # "FREED")
      /\ b.pcb.err = a.pcb.err /\ b.pcb.recv = a.pcb.recv /\ b.pcb.sent = a.pcb.sent
      /\ b.pcb.input = a.pcb.input /\ Shut(b.pcb) /\ b.pcb.wnd = a.pcb.wnd
  <2>1. a \in Contexts /\ a.ok /\ a.pcb.state \in Open /\ ~a.pcb.closed
    BY <1>3 DEF OnlyPcb
  <2>2. QED
    BY <2>1, CloseFields
<1> HIDE DEF b
<1>5. OnlyPcb(b, c) /\ Off(b.pcb) /\ b.pcb.input = c.pcb.input
  BY <1>3, <1>4 DEF OnlyPcb, Off
<1>6. /\ e \in Contexts /\ e.ok /\ e.pcb = b.pcb /\ Left(e.cl, e.sk)
      /\ e.cl.aborted = b.cl.aborted /\ e.cl.dead = b.cl.dead
      /\ e.killed = IF e.cl.mem = "freed" /\ ~b.cl.aborted /\ b.cl.dead = "live"
                    THEN -1 ELSE b.killed
      /\ e.stop = b.stop /\ e.got = b.got
  <2>1. b \in Contexts /\ b.ok /\ b.cl = c.cl /\ b.sk = c.sk
    BY <1>5 DEF OnlyPcb
  <2>2. QED
    BY <2>1, HandleFreed
<1> HIDE DEF e
<1>7. DeadOk(e.cl) /\ Shut(e.pcb) /\ Detached(e.pcb)
  BY <1>4, <1>5, <1>6 DEF DeadOk, Detached, OnlyPcb
<1>8. ASSUME Caught(c) PROVE Caught(e)
  <2>1. c.pcb.input /\ c.cl.dead = "live" /\ c.killed # 1 /\ c.killed # -1
    BY <1>1, <1>8 DEF Caught
  <2>2. e.pcb.input /\ e.pcb.state # "FREED" /\ e.cl.dead = "live" /\ e.killed # 1
    <3>1. e.pcb.input
      BY Zenon, <1>5, <1>6, <2>1
    <3>2. e.pcb.state # "FREED"
      BY <1>4, <1>6, <3>1
    <3>3. b.cl = c.cl /\ b.killed = c.killed
      BY <1>5 DEF OnlyPcb
    <3>4. QED
      BY <1>6, <2>1, <3>1, <3>2, <3>3
  <2>3. e.killed = -1 => e.cl.mem = "freed"
    BY <1>5, <1>6, <2>1 DEF OnlyPcb
  <2>4. e.cl.mem # "none"
    BY <1>6 DEF Left
  <2>5. QED
    BY <2>2, <2>3, <2>4 DEF Caught
<1>9. Grown(e.pcb, c.pcb)
  BY <1>3, <1>4, <1>6 DEF Grown
<1>10. QED
  BY <1>2, <1>5, <1>6, <1>7, <1>8, <1>9 DEF Ended, Frame, OnlyPcb

\* client_abort_pcb, after the callbacks have been taken off.
LEMMA AbortPcbFields ==
  ASSUME NEW c \in Contexts, c.ok, c.cl.mem = "live", ~c.cl.aborted, DeadOk(c.cl),
         c.pcb.state # "FREED"
  PROVE  LET d == client_abort_pcb(tcp_callbacks_off(c))
         IN  /\ d \in Contexts /\ d.ok /\ d.sk = c.sk
             /\ d.cl = [c.cl EXCEPT !.aborted = TRUE]
             /\ d.killed = IF c.cl.dead = "live" THEN 1 ELSE c.killed
             /\ d.stop = c.stop /\ d.got = c.got /\ d.pcb.state = "FREED"
             /\ d.pcb.input = c.pcb.input /\ d.pcb.wnd = c.pcb.wnd
<1> DEFINE a == tcp_callbacks_off(c)
           f == tcp_free(a)
           l == [c.cl EXCEPT !.aborted = TRUE]
           k == IF c.cl.dead = "live" THEN 1 ELSE c.killed
           g == [f EXCEPT !.cl = l]
           h == [g EXCEPT !.killed = k]
<1>1. c.cl \in Clients /\ c.pcb \in Pcbs /\ c.cl.dead \in {"null", "live"}
  BY DEF Contexts, DeadOk, Clients
<1>2. /\ OnlyPcb(a, c) /\ Off(a.pcb) /\ a.pcb.state = c.pcb.state
      /\ a.pcb.input = c.pcb.input /\ a.pcb.closed = c.pcb.closed /\ a.pcb.wnd = c.pcb.wnd
  BY <1>1, OffKeeps
<1> HIDE DEF a
<1>3. a \in Contexts /\ a.ok /\ a.cl = c.cl /\ a.sk = c.sk /\ a.pcb \in Pcbs
  BY <1>2 DEF OnlyPcb, Contexts
<1>4. OnlyPcb(f, a) /\ f.pcb = [a.pcb EXCEPT !.state = "FREED", !.unacked = 0, !.fin = FALSE]
  BY Zenon, <1>2, <1>3, FreeFields
<1>5. client_abort_pcb(a) = DEAD_KILL_WITH([f EXCEPT !.cl.aborted = TRUE], 1)
  <2>1. UseClient(a) = a /\ Require(a, ~a.cl.aborted) = a
    BY Zenon, <1>1, <1>3, Used, Kept DEF Clients
  <2>2. QED
    BY Zenon, <2>1 DEF client_abort_pcb
<1> HIDE DEF f
<1>6. f \in Contexts /\ f.ok /\ f.cl = c.cl /\ f.sk = c.sk /\ f.killed = c.killed
      /\ f.stop = c.stop /\ f.got = c.got /\ f.pcb.state = "FREED"
      /\ f.pcb.input = c.pcb.input /\ f.pcb.wnd = c.pcb.wnd
  BY <1>2, <1>3, <1>4 DEF OnlyPcb, Pcbs
<1>7. l \in Clients /\ l.dead = c.cl.dead
  BY Zenon, <1>1 DEF Clients
<1>8. [f EXCEPT !.cl.aborted = TRUE] = g
  BY <1>6 DEF Contexts
<1> HIDE DEF l
<1>9. g \in Contexts /\ g.ok /\ g.cl = l /\ g.sk = c.sk /\ g.pcb = f.pcb
      /\ g.killed = c.killed /\ g.stop = c.stop /\ g.got = c.got
  BY <1>6, <1>7 DEF Contexts
<1> HIDE DEF g
<1>10. k \in -1..1
  BY <1>9 DEF Contexts
<1>11. DEAD_KILL_WITH(g, 1) = h
  <2>1. CASE c.cl.dead = "live"
    BY Zenon, <1>7, <1>9, <2>1 DEF DEAD_KILL_WITH
  <2>2. CASE c.cl.dead = "null"
    <3>1. h = g
      BY <1>9, <2>2 DEF Contexts
    <3>2. QED
      BY Zenon, <1>7, <1>9, <2>2, <3>1 DEF DEAD_KILL_WITH
  <2>3. QED
    BY <1>1, <2>1, <2>2
<1>12. h \in Contexts /\ h.ok /\ h.cl = l /\ h.sk = c.sk /\ h.pcb = f.pcb
       /\ h.killed = k /\ h.stop = c.stop /\ h.got = c.got
  <2> HIDE DEF k
  <2>1. QED
    BY <1>9, <1>10 DEF Contexts
<1> HIDE DEF h
<1>13. client_abort_pcb(tcp_callbacks_off(c)) = h
  BY Zenon, <1>5, <1>8, <1>11 DEF a
<1>14. QED
  BY <1>6, <1>12, <1>13 DEF l

\* client_abort_client.  The dead variable of the callback it is called from
\* is told that the pcb is gone.
LEMMA AbortClientEnds ==
  ASSUME NEW c \in Contexts, c.ok, c.cl.mem = "live", ~c.cl.client_closed, ~c.cl.aborted,
         DeadOk(c.cl), Paired(c.cl, c.sk), c.pcb.state # "FREED"
  PROVE  Ended(client_abort_client(c), c)
<1> DEFINE h == client_abort_pcb(tcp_callbacks_off(c))
           e == client_handle_freed_client(h)
           k == IF c.cl.dead = "live" THEN 1 ELSE c.killed
<1>1. c.cl \in Clients
  BY DEF Contexts
<1>2. client_abort_client(c) = e
  <2>1. UseClient(c) = c /\ Require(c, ~c.cl.client_closed) = c
    BY Zenon, <1>1, Used, Kept DEF Clients
  <2>2. QED
    BY <2>1 DEF client_abort_client
<1>3. /\ h \in Contexts /\ h.ok /\ h.sk = c.sk /\ h.cl = [c.cl EXCEPT !.aborted = TRUE]
      /\ h.killed = k /\ h.stop = c.stop /\ h.got = c.got /\ h.pcb.state = "FREED"
      /\ h.pcb.input = c.pcb.input /\ h.pcb.wnd = c.pcb.wnd
  BY AbortPcbFields
<1> HIDE DEF h
<1>4. h.cl.mem = "live" /\ ~h.cl.client_closed /\ h.cl.aborted /\ h.cl.dead = c.cl.dead
      /\ Paired(h.cl, h.sk)
  BY <1>1, <1>3 DEF Clients, Paired
<1>5. DeadOk(h.cl)
  BY <1>4 DEF DeadOk
<1>6. /\ e \in Contexts /\ e.ok /\ e.pcb = h.pcb /\ Left(e.cl, e.sk)
      /\ e.cl.aborted = h.cl.aborted /\ e.cl.dead = h.cl.dead
      /\ e.killed = IF e.cl.mem = "freed" /\ ~h.cl.aborted /\ h.cl.dead = "live"
                    THEN -1 ELSE h.killed
      /\ e.stop = h.stop /\ e.got = h.got
  BY Zenon, <1>3, <1>4, <1>5, HandleFreed
<1> HIDE DEF e
<1>7. e.killed = k /\ DeadOk(e.cl) /\ Shut(e.pcb) /\ Detached(e.pcb) /\ Grown(e.pcb, c.pcb)
  BY <1>3, <1>4, <1>5, <1>6 DEF DeadOk, Detached, Shut, Grown
<1>8. ASSUME Caught(c) PROVE Caught(e)
  <2>1. c.cl.dead = "live" /\ c.pcb.input
    BY <1>8 DEF Caught
  <2>2. e.killed = 1 /\ e.pcb.state = "FREED" /\ e.pcb.input /\ e.cl.aborted /\ e.cl.dead = "live"
    BY Zenon, <1>3, <1>4, <1>6, <1>7, <2>1
  <2>3. e.cl.mem # "none"
    BY <1>6 DEF Left
  <2>4. QED
    BY <2>2, <2>3 DEF Caught
<1>9. QED
  BY <1>2, <1>3, <1>6, <1>7, <1>8 DEF Ended, Frame

\* What Caught looks at is left as it is.
LEMMA CaughtKept ==
  ASSUME NEW c, NEW d, d.pcb.input = c.pcb.input, d.pcb.state = c.pcb.state,
         d.cl.mem = c.cl.mem, d.cl.dead = c.cl.dead, d.cl.aborted = c.cl.aborted,
         d.killed = c.killed, Caught(c)
  PROVE  Caught(d)
BY DEF Caught

\* Two parts of a call, one after the other, keep to what one part may do.
LEMMA FrameAfter ==
  ASSUME NEW c \in Contexts, NEW d, NEW e, Frame(d, c), Frame(e, d)
  PROVE  Frame(e, c)
<1>1. Grown(e.pcb, c.pcb)
  BY DEF Frame, Grown, Contexts, Pcbs
<1>2. QED
  BY <1>1 DEF Frame

\* A client that ended in the second of two parts of a call has ended in it.
LEMMA EndedAfter ==
  ASSUME NEW c \in Contexts, NEW d, NEW e, Frame(d, c), Ended(e, d)
  PROVE  Ended(e, c)
BY FrameAfter DEF Ended

\* A part that went well after another part of the same call.
LEMMA WentAfter ==
  ASSUME NEW c \in Contexts, NEW d, NEW e, NEW due, Frame(d, c), Went(e, d, due)
  PROVE  Went(e, c, due)
BY FrameAfter DEF Went

\* A client that has ended is in order, whatever of the window was due.
LEMMA EndedWent ==
  ASSUME NEW c, NEW d, NEW due, Ended(d, c)
  PROVE  Went(d, c, due)
BY DEF Ended, Went, Good

\* client_free_socks of a client the app has left.
LEMMA FreeSocksClosed ==
  ASSUME NEW c \in Contexts, c.ok, c.cl.mem = "live", c.cl.client_closed, ~c.cl.socks_closed,
         DeadOk(c.cl), Detached(c.pcb), Shut(c.pcb), NEW o
  PROVE  Ended(client_free_socks(c, o), c)
<1> DEFINE d == client_close_socks(c)
           e == client_dealloc(d)
<1>1. c.cl \in Clients /\ c.sk \in SocksClients /\ 0 \in 0..TCP_WND
  BY Sizes DEF Contexts
<1>2. /\ d \in Contexts /\ d.ok
      /\ d.pcb = IF c.cl.socks_up /\ ~c.cl.client_closed
                 THEN [c.pcb EXCEPT !.recv = FALSE] ELSE c.pcb
      /\ d.sk = [c.sk EXCEPT !.state = "freed", !.send = 0, !.recv = FALSE]
      /\ d.cl = [c.cl EXCEPT !.socks_closed = TRUE]
      /\ d.killed = c.killed /\ d.stop = c.stop /\ d.got = c.got
  BY Zenon, CloseSocksFields
<1>3. d.cl.client_closed => client_free_socks(c, o) = e
  BY DEF client_free_socks
<1> HIDE DEF d
<1>4. d.pcb = c.pcb
  BY <1>2
<1>5. d.cl.mem = "live" /\ d.cl.client_closed /\ d.cl.socks_closed
      /\ d.cl.aborted = c.cl.aborted /\ d.cl.dead = c.cl.dead
  BY <1>1, <1>2 DEF Clients
<1>6. d.sk.state = "freed" /\ Idle(d.sk)
  BY <1>1, <1>2 DEF SocksClients, Idle
<1>7. DeadOk(d.cl)
  BY <1>5 DEF DeadOk
<1>8. /\ e \in Contexts /\ e.ok /\ e.pcb = d.pcb /\ e.sk = d.sk
      /\ e.cl = [d.cl EXCEPT !.mem = "freed"]
      /\ e.killed = IF ~d.cl.aborted /\ d.cl.dead = "live" THEN -1 ELSE d.killed
      /\ e.stop = d.stop /\ e.got = d.got
  BY Zenon, <1>2, <1>5, <1>7, DeallocFields
<1> HIDE DEF e
<1>9. e.cl.mem = "freed" /\ e.cl.client_closed /\ e.cl.aborted = c.cl.aborted
      /\ e.cl.dead = c.cl.dead
  <2>1. d.cl \in Clients
    BY Zenon, <1>2 DEF Contexts
  <2>2. QED
    BY <1>5, <1>8, <2>1 DEF Clients
<1>10. Left(e.cl, e.sk) /\ DeadOk(e.cl) /\ Detached(e.pcb) /\ Shut(e.pcb)
  BY <1>4, <1>6, <1>8, <1>9 DEF Left, DeadOk
<1>11. ASSUME Caught(c) PROVE Caught(e)
  <2>1. /\ c.pcb.input /\ c.cl.dead = "live"
        /\ c.killed = 1 <=> c.pcb.state = "FREED"
        /\ c.killed = 1 => c.cl.aborted
        /\ c.killed # -1
    BY <1>11 DEF Caught
  <2>2. e.killed = IF ~c.cl.aborted THEN -1 ELSE c.killed
    BY <1>2, <1>5, <1>8, <2>1
  <2>3. e.pcb = c.pcb
    BY <1>4, <1>8
  <2>4. CASE c.cl.aborted
    BY <1>9, <2>1, <2>2, <2>3, <2>4 DEF Caught
  <2>5. CASE ~c.cl.aborted
    BY <1>9, <2>1, <2>2, <2>3, <2>5 DEF Caught
  <2>6. QED
    BY <2>4, <2>5
<1>12. QED
  BY <1>2, <1>3, <1>4, <1>5, <1>8, <1>10, <1>11 DEF Ended, Frame, Grown

\* client_free_socks of a client the app is still connected to.
LEMMA FreeSocksOpen ==
  ASSUME NEW c \in Contexts, c.ok, NEW due, Connected(c, due, 0), ~c.cl.socks_closed,
         DeadOk(c.cl), NEW o
  PROVE  Went(client_free_socks(c, o), c, due)
<1> DEFINE d == client_close_socks(c)
<1>1. c.cl \in Clients /\ c.sk \in SocksClients /\ c.pcb \in Pcbs /\ 0 \in 0..TCP_WND
  BY Sizes DEF Contexts
<1>2. c.cl.mem = "live" /\ ~c.cl.client_closed /\ c.pcb.state \in Open /\ c.pcb.state # "FREED"
      /\ ~c.pcb.closed
  BY StateNames DEF Connected, Attached
<1>3. /\ d \in Contexts /\ d.ok
      /\ d.pcb = IF c.cl.socks_up /\ ~c.cl.client_closed
                 THEN [c.pcb EXCEPT !.recv = FALSE] ELSE c.pcb
      /\ d.sk = [c.sk EXCEPT !.state = "freed", !.send = 0, !.recv = FALSE]
      /\ d.cl = [c.cl EXCEPT !.socks_closed = TRUE]
      /\ d.killed = c.killed /\ d.stop = c.stop /\ d.got = c.got
  BY Zenon, <1>2, CloseSocksFields
<1> DEFINE unsent == d.cl.recv_buf_used >= 0 \/ d.cl.tcp_pending > 0
<1>4. client_free_socks(c, o) = IF d.cl.client_closed THEN client_dealloc(d)
                                ELSE IF d.cl.socks_up /\ unsent THEN d ELSE client_free_client(d, o)
  BY DEF client_free_socks
<1> HIDE DEF d
<1>5. d.sk.state = "freed" /\ d.sk.send = 0 /\ ~d.sk.recv
  BY <1>1, <1>3 DEF SocksClients
<1>6. /\ d.cl.mem = "live" /\ ~d.cl.client_closed /\ d.cl.aborted = c.cl.aborted
      /\ d.cl.dead = c.cl.dead /\ d.cl.socks_closed /\ d.cl.socks_up = c.cl.socks_up
      /\ d.cl.buf_used = c.cl.buf_used /\ d.cl.recv_buf_used = c.cl.recv_buf_used
      /\ d.cl.recv_buf_sent = c.cl.recv_buf_sent /\ d.cl.recv_waiting = c.cl.recv_waiting
      /\ d.cl.tcp_pending = c.cl.tcp_pending
  BY <1>1, <1>2, <1>3 DEF Clients
<1>7. /\ d.pcb.state = c.pcb.state /\ d.pcb.rxclosed = c.pcb.rxclosed
      /\ d.pcb.closed = c.pcb.closed /\ d.pcb.closepend = c.pcb.closepend
      /\ d.pcb.input = c.pcb.input /\ d.pcb.err = c.pcb.err /\ d.pcb.sent = c.pcb.sent
      /\ d.pcb.unacked = c.pcb.unacked /\ d.pcb.wnd = c.pcb.wnd
      /\ (c.cl.socks_up => ~d.pcb.recv)
  BY <1>1, <1>2, <1>3 DEF Pcbs
<1>8. DeadOk(d.cl) /\ Paired(d.cl, d.sk) /\ Shut(d.pcb)
  <2>1. DeadOk(d.cl)
    BY <1>6 DEF DeadOk
  <2>2. Paired(d.cl, d.sk)
    BY <1>5, <1>6 DEF Paired, Idle
  <2>3. Shut(d.pcb)
    BY <1>2, <1>7 DEF Shut
  <2>4. QED
    BY <2>1, <2>2, <2>3
<1>9. Frame(d, c)
  <2>1. Caught(c) => Caught(d)
    BY Zenon, <1>2, <1>3, <1>6, <1>7, CaughtKept
  <2>2. QED
    BY <1>3, <1>7, <1>8, <2>1 DEF Frame, Grown
<1>10. CASE d.cl.socks_up /\ unsent
  <2>1. Attached(d.cl, d.pcb)
    <3>1. d.pcb.recv = ~d.cl.socks_closed
      <4>1. d.pcb.recv \in BOOLEAN /\ ~d.pcb.recv
        BY Zenon, <1>3, <1>6, <1>7, <1>10 DEF Contexts, Pcbs
      <4>2. QED
        BY <1>6, <4>1
    <3>2. ~c.cl.aborted /\ ~c.pcb.closepend /\ ~c.pcb.rxclosed /\ c.pcb.err
          /\ c.pcb.sent = c.cl.socks_up
      BY DEF Connected, Attached
    <3>3. QED
      BY Zenon, <1>2, <1>6, <1>7, <1>10, <3>1, <3>2 DEF Attached
  <2>2. Credit(d.cl, d.pcb, due)
    BY <1>6, <1>7, <1>10 DEF Credit
  <2>3. Outgoing(d.cl, d.pcb, 0)
    BY <1>6, <1>7, <1>10 DEF Connected, Outgoing
  <2>4. d.cl.recv_buf_used # -1 =>
          /\ d.cl.recv_buf_used > 0 /\ d.cl.recv_waiting /\ d.cl.tcp_pending > 0
          /\ d.cl.recv_buf_sent < d.cl.recv_buf_used
    BY <1>6 DEF Connected, Waiting
  <2>5. d.cl.tcp_pending > 0
    <3>1. CASE d.cl.recv_buf_used >= 0
      BY <2>4, <3>1
    <3>2. QED
      BY <1>10, <3>1
  <2>6. Waiting(d.cl, d.sk)
    BY <1>6, <2>4, <2>5 DEF Waiting
  <2>7. QED
    BY <1>4, <1>6, <1>8, <1>9, <1>10, <2>1, <2>2, <2>3, <2>6 DEF Went, Good, Connected
<1>11. CASE ~(d.cl.socks_up /\ unsent)
  <2>1. Ended(client_free_client(d, o), d)
    BY Zenon, <1>2, <1>3, <1>6, <1>7, <1>8, FreeClientEnds
  <2>2. client_free_socks(c, o) = client_free_client(d, o)
    BY <1>4, <1>6, <1>11
  <2> DEFINE e == client_free_client(d, o)
  <2> HIDE DEF e
  <2>3. Ended(e, d) /\ client_free_socks(c, o) = e
    BY <2>1, <2>2 DEF e
  <2>4. QED
    BY <1>9, <2>3, EndedAfter, EndedWent
<1>12. QED
  BY <1>10, <1>11

-----------------------------------------------------------------------------
(***************************************************************************)
(* From the SOCKS server to the app.                                       *)
(***************************************************************************)
\* client_socks_recv_initiate: its ASSERTs hold and a receive is in progress.
LEMMA InitiateFields ==
  ASSUME NEW c \in Contexts, c.ok, c.cl.mem = "live", ~c.cl.client_closed, ~c.cl.socks_closed,
         c.cl.socks_up, c.cl.recv_buf_used = -1, ~c.sk.recv
  PROVE  LET d == client_socks_recv_initiate(c)
         IN  OnlySk(d, c) /\ d.sk = [c.sk EXCEPT !.recv = TRUE]
<1> DEFINE t == [c.sk EXCEPT !.recv = TRUE]
<1>1. c.sk \in SocksClients
  BY DEF Contexts
<1>2. t \in SocksClients
  BY Zenon, <1>1 DEF SocksClients
<1>3. UseClient(c) = c
  BY Used
<1>4. Require(c, /\ ~c.cl.client_closed /\ ~c.cl.socks_closed
                 /\ c.cl.socks_up /\ c.cl.recv_buf_used = -1
                 /\ ~c.sk.recv) = c
  <2>1. TRUE = (/\ ~c.cl.client_closed /\ ~c.cl.socks_closed
                /\ c.cl.socks_up /\ c.cl.recv_buf_used = -1
                /\ ~c.sk.recv)
    OBVIOUS
  <2>2. QED
    BY Zenon, <2>1, Kept
<1>5. client_socks_recv_initiate(c) = [c EXCEPT !.sk = t]
  BY Zenon, <1>1, <1>3, <1>4 DEF client_socks_recv_initiate, Contexts
<1> HIDE DEF t
<1>6. QED
  BY Zenon, <1>2, <1>5, SkSet DEF t

\* The app is connected, and bytes received are about to be sent to it.
Sending(c, due) ==
    /\ Attached(c.cl, c.pcb) /\ Paired(c.cl, c.sk) /\ Credit(c.cl, c.pcb, due)
    /\ Outgoing(c.cl, c.pcb, 0) /\ DeadOk(c.cl)
    /\ c.cl.socks_up /\ c.cl.recv_buf_used > 0 /\ c.cl.recv_buf_sent < c.cl.recv_buf_used
    /\ ~c.cl.recv_waiting

\* They are sent, or the rest waits for an acknowledgement.
SentOut(d, c, due) ==
    /\ Frame(d, c) /\ d.sk = c.sk /\ d.cl.socks_closed = c.cl.socks_closed
    /\ Attached(d.cl, d.pcb) /\ Paired(d.cl, d.sk) /\ Credit(d.cl, d.pcb, due)
    /\ Outgoing(d.cl, d.pcb, 0) /\ d.cl.socks_up /\ d.cl.tcp_pending > 0
    /\ d.cl.recv_buf_used # -1 => /\ d.cl.recv_buf_used > 0 /\ d.cl.recv_waiting
                                  /\ d.cl.recv_buf_sent < d.cl.recv_buf_used

\* client_socks_recv_send_out: the bytes are written, or what is left waits for
\* an acknowledgement, or the client is aborted.
LEMMA SendOutGoes ==
  ASSUME NEW c \in Contexts, c.ok, NEW due, Sending(c, due), NEW o
  PROVE  \/ Ended(client_socks_recv_send_out(c, o), c)
         \/ SentOut(client_socks_recv_send_out(c, o), c, due)
<1> DEFINE rest == c.cl.recv_buf_used - c.cl.recv_buf_sent
           n == IF o.write THEN bmin_int(rest, tcp_sndbuf(c)) ELSE 0
           p == [c.pcb EXCEPT !.unacked = @ + n]
           l == [c.cl EXCEPT !.recv_buf_sent = @ + n, !.tcp_pending = @ + n]
           a == [c EXCEPT !.pcb = p]
           e == [a EXCEPT !.cl = l]
<1>1. c.cl \in Clients /\ c.sk \in SocksClients /\ c.pcb \in Pcbs
  BY DEF Contexts
<1>2. c.cl.mem = "live" /\ ~c.cl.client_closed /\ ~c.cl.aborted /\ c.pcb.state \in Open
      /\ c.pcb.state # "FREED" /\ ~c.pcb.closed
  BY StateNames DEF Sending, Attached
<1>3. /\ c.cl.recv_buf_used \in 1..RECV_BUF /\ c.cl.recv_buf_sent \in 0..RECV_BUF
      /\ c.cl.recv_buf_sent < c.cl.recv_buf_used
      /\ c.pcb.unacked \in 0..TCP_SND_BUF /\ c.cl.tcp_pending = c.pcb.unacked
  BY <1>1, Sizes DEF Clients, Pcbs, Sending, Outgoing
<1>4. n \in Nat /\ n <= rest /\ n <= TCP_SND_BUF - c.pcb.unacked
  <2>1. rest \in Int /\ rest > 0 /\ tcp_sndbuf(c) \in Int /\ tcp_sndbuf(c) >= 0
        /\ tcp_sndbuf(c) = TCP_SND_BUF - c.pcb.unacked
    BY <1>3, Sizes DEF tcp_sndbuf
  <2>2. bmin_int(rest, tcp_sndbuf(c)) = IF rest <= tcp_sndbuf(c) THEN rest ELSE tcp_sndbuf(c)
    BY <2>1 DEF bmin_int
  <2> HIDE DEF rest
  <2>3. QED
    BY <2>1, <2>2
<1> HIDE DEF n
<1>5. p \in Pcbs
  <2>1. c.pcb.unacked + n \in 0..TCP_SND_BUF
    BY <1>3, <1>4, Sizes
  <2>2. QED
    BY <1>1, <2>1 DEF Pcbs
<1>6. l \in Clients
  <2>1. c.cl.tcp_pending + n \in 0..TCP_SND_BUF /\ c.cl.recv_buf_sent + n \in 0..RECV_BUF
    BY <1>3, <1>4, Sizes
  <2>2. QED
    BY Zenon, <1>1, <2>1 DEF Clients
<1>7. Require(UsePcb(UseClient(c)),
              /\ ~c.cl.client_closed /\ c.cl.socks_up
              /\ c.cl.recv_buf_used > 0 /\ rest > 0 /\ ~c.cl.recv_waiting) = c
  <2>1. UseClient(c) = c /\ UsePcb(c) = c
    BY <1>2, Used
  <2>2. rest > 0
    BY <1>3
  <2>3. TRUE = (/\ ~c.cl.client_closed /\ c.cl.socks_up
                /\ c.cl.recv_buf_used > 0 /\ rest > 0 /\ ~c.cl.recv_waiting)
    <3> HIDE DEF rest
    <3>1. QED
      BY <1>2, <2>2 DEF Sending
  <2>4. QED
    BY Zenon, <2>1, <2>3, Kept
<1>8. [tcp_write(c, n) EXCEPT !.cl.recv_buf_sent = @ + n, !.cl.tcp_pending = @ + n] = e
  <2>1. UsePcb(c) = c
    BY <1>2, Used
  <2>2. tcp_write(c, n) = a
    BY <1>1, <2>1 DEF tcp_write, Contexts
  <2> HIDE DEF p
  <2>3. a \in Contexts /\ a.cl = c.cl
    BY <1>5, PcbSet DEF OnlyPcb
  <2> HIDE DEF a
  <2>4. QED
    BY Zenon, <2>2, <2>3, <1>1 DEF Contexts, Clients
<1>9. /\ client_socks_recv_send_out(c, o) =
           IF c.pcb.state \notin Open THEN client_abort_client(c)
           ELSE CASE (~o.output /\ ~c.pcb.input) \/ (n < rest /\ e.cl.tcp_pending = 0)
                        -> client_abort_client(e)
                  [] ~(~o.output /\ ~c.pcb.input) /\ n = rest
                        -> [e EXCEPT !.cl.recv_buf_used = -1]
                  [] OTHER -> [e EXCEPT !.cl.recv_waiting = TRUE]
  <2> DEFINE d == Require(UsePcb(UseClient(c)),
                          /\ ~c.cl.client_closed /\ c.cl.socks_up
                          /\ c.cl.recv_buf_used > 0 /\ rest > 0 /\ ~c.cl.recv_waiting)
             g == [tcp_write(d, n) EXCEPT !.cl.recv_buf_sent = @ + n, !.cl.tcp_pending = @ + n]
  <2>1. client_socks_recv_send_out(c, o) =
           IF c.pcb.state \notin Open THEN client_abort_client(d)
           ELSE CASE (~o.output /\ ~c.pcb.input) \/ (n < rest /\ g.cl.tcp_pending = 0)
                        -> client_abort_client(g)
                  [] ~(~o.output /\ ~c.pcb.input) /\ n = rest
                        -> [g EXCEPT !.cl.recv_buf_used = -1]
                  [] OTHER -> [g EXCEPT !.cl.recv_waiting = TRUE]
    BY DEF client_socks_recv_send_out, n
  <2>2. d = c
    BY Zenon, <1>7
  <2> HIDE DEF d, e
  <2>3. g = e
    BY <1>8, <2>2
  <2> HIDE DEF g
  <2>4. QED
    BY <2>1, <2>2, <2>3
<1>10. OnlyPcb(a, c) /\ a.pcb = p
  <2> HIDE DEF p
  <2>1. QED
    BY <1>5, PcbSet
<1>11. OnlyCl(e, a) /\ e.cl = l
  <2> HIDE DEF l, a
  <2>1. a \in Contexts /\ a.ok
    BY <1>10 DEF OnlyPcb
  <2>2. QED
    BY <1>6, <2>1, ClSet
<1> HIDE DEF a, e
<1>12. /\ e \in Contexts /\ e.ok /\ e.pcb = p /\ e.cl = l /\ e.sk = c.sk /\ e.killed = c.killed
       /\ e.stop = c.stop /\ e.got = c.got
  BY <1>10, <1>11 DEF OnlyPcb, OnlyCl
<1>13. /\ e.cl.mem = c.cl.mem /\ e.cl.client_closed = c.cl.client_closed
       /\ e.cl.aborted = c.cl.aborted /\ e.cl.dead = c.cl.dead /\ e.cl.socks_closed = c.cl.socks_closed
       /\ e.cl.socks_up = c.cl.socks_up /\ e.cl.buf_used = c.cl.buf_used
       /\ e.cl.recv_buf_used = c.cl.recv_buf_used
       /\ e.cl.recv_buf_sent = c.cl.recv_buf_sent + n
       /\ e.cl.tcp_pending = c.cl.tcp_pending + n
  BY <1>1, <1>2, <1>12 DEF Clients
<1>14. /\ e.pcb.state = c.pcb.state /\ e.pcb.rxclosed = c.pcb.rxclosed
       /\ e.pcb.closed = c.pcb.closed /\ e.pcb.closepend = c.pcb.closepend
       /\ e.pcb.input = c.pcb.input /\ e.pcb.err = c.pcb.err /\ e.pcb.recv = c.pcb.recv
       /\ e.pcb.sent = c.pcb.sent /\ e.pcb.wnd = c.pcb.wnd /\ e.pcb.unacked = c.pcb.unacked + n
  BY <1>1, <1>12 DEF Pcbs
<1> HIDE DEF p, l
<1>15. Attached(e.cl, e.pcb) /\ DeadOk(e.cl) /\ Shut(e.pcb)
  <2>1. Attached(e.cl, e.pcb)
    BY <1>13, <1>14 DEF Sending, Attached
  <2>2. DeadOk(e.cl)
    BY <1>2, <1>13 DEF Sending, DeadOk
  <2>3. Shut(e.pcb)
    BY <1>2, <1>14 DEF Shut
  <2>4. QED
    BY <2>1, <2>2, <2>3
<1>16. Paired(e.cl, e.sk)
  BY <1>12, <1>13 DEF Sending, Paired
<1>17. Credit(e.cl, e.pcb, due)
  BY <1>13, <1>14 DEF Sending, Credit
<1>18. Outgoing(e.cl, e.pcb, 0) /\ e.cl.socks_up
  <2>1. e.cl.tcp_pending = e.pcb.unacked + 0
    BY <1>3, <1>4, <1>13, <1>14
  <2>2. e.cl.socks_up
    BY <1>13 DEF Sending
  <2>3. QED
    BY <2>1, <2>2 DEF Outgoing
<1>19. Frame(e, c)
  <2>1. Caught(c) => Caught(e)
    BY <1>2, <1>12, <1>13, <1>14, CaughtKept
  <2>2. QED
    BY <1>12, <1>14, <1>15, <2>1 DEF Frame, Grown
<1>20. CASE (~o.output /\ ~c.pcb.input) \/ (n < rest /\ e.cl.tcp_pending = 0)
  <2>1. Ended(client_abort_client(e), e)
    BY <1>2, <1>12, <1>13, <1>14, <1>15, <1>16, AbortClientEnds
  <2>2. client_socks_recv_send_out(c, o) = client_abort_client(e)
    <3>1. ~(~(~o.output /\ ~c.pcb.input) /\ n = rest)
      BY <1>3, <1>4, <1>20
    <3> HIDE DEF rest
    <3>2. QED
      BY <1>2, <1>9, <1>20, <3>1
  <2>3. QED
    BY <1>19, <2>1, <2>2, EndedAfter
<1>21. CASE ~(~o.output /\ ~c.pcb.input) /\ n = rest
  <2> DEFINE m == [e.cl EXCEPT !.recv_buf_used = -1]
             f == [e EXCEPT !.cl = m]
  <2>1. e.cl \in Clients /\ -1 \in -1..RECV_BUF
    BY <1>12, Sizes DEF Contexts
  <2>2. client_socks_recv_send_out(c, o) = [e EXCEPT !.cl.recv_buf_used = -1]
    <3>1. ~(n < rest)
      BY <1>21, <1>3
    <3> HIDE DEF rest
    <3>2. QED
      BY <1>2, <1>9, <1>21, <3>1
  <2>3. client_socks_recv_send_out(c, o) = f
    BY <1>12, <2>1, <2>2 DEF Contexts
  <2>4. m \in Clients
    BY <2>1 DEF Clients
  <2>5. /\ m.mem = e.cl.mem /\ m.client_closed = e.cl.client_closed
        /\ m.aborted = e.cl.aborted /\ m.dead = e.cl.dead
        /\ m.socks_closed = e.cl.socks_closed /\ m.socks_up = e.cl.socks_up
        /\ m.buf_used = e.cl.buf_used /\ m.recv_buf_used = -1 /\ m.tcp_pending = e.cl.tcp_pending
    BY <2>1 DEF Clients
  <2> HIDE DEF m
  <2>6. OnlyCl(f, e) /\ f.cl = m
    BY <1>12, <2>4, ClSet
  <2> HIDE DEF f
  <2>7. f \in Contexts /\ f.ok /\ f.pcb = e.pcb /\ f.sk = e.sk /\ f.killed = e.killed
        /\ f.stop = e.stop /\ f.got = e.got
    BY <2>6 DEF OnlyCl
  <2>8. Attached(f.cl, f.pcb)
    BY <1>15, <2>5, <2>6, <2>7 DEF Attached
  <2>9. Paired(f.cl, f.sk)
    BY <1>16, <2>5, <2>6, <2>7 DEF Paired
  <2>10. Credit(f.cl, f.pcb, due) /\ Outgoing(f.cl, f.pcb, 0)
    BY Zenon, <1>17, <1>18, <2>5, <2>6, <2>7 DEF Credit, Outgoing
  <2>11. f.cl.tcp_pending > 0
    <3>1. n > 0
      BY <1>3, <1>21
    <3>2. QED
      BY <1>3, <1>4, <1>13, <2>5, <2>6, <3>1
  <2>12. Frame(f, c)
    <3>1. Caught(e) => Caught(f)
      BY <2>5, <2>6, <2>7, CaughtKept
    <3>2. DeadOk(f.cl) /\ Shut(f.pcb)
      BY <1>15, <2>5, <2>6, <2>7 DEF DeadOk
    <3>3. Frame(f, e)
      BY <2>7, <3>1, <3>2 DEF Frame, Grown
    <3>4. QED
      BY <1>19, <3>3, FrameAfter
  <2>13. SentOut(f, c, due)
    BY Zenon, <1>12, <1>13, <1>18, <2>5, <2>6, <2>7, <2>8, <2>9, <2>10, <2>11, <2>12 DEF SentOut
  <2>14. QED
    BY <2>3, <2>13
<1>22. CASE /\ ~((~o.output /\ ~c.pcb.input) \/ (n < rest /\ e.cl.tcp_pending = 0))
            /\ ~(~(~o.output /\ ~c.pcb.input) /\ n = rest)
  <2> DEFINE m == [e.cl EXCEPT !.recv_waiting = TRUE]
             f == [e EXCEPT !.cl = m]
  <2>1. e.cl \in Clients
    BY <1>12 DEF Contexts
  <2>2. client_socks_recv_send_out(c, o) = [e EXCEPT !.cl.recv_waiting = TRUE]
    <3> HIDE DEF rest
    <3>1. QED
      BY <1>2, <1>9, <1>22
  <2>3. client_socks_recv_send_out(c, o) = f
    BY <1>12, <2>1, <2>2 DEF Contexts
  <2>4. m \in Clients
    BY Zenon, <2>1 DEF Clients
  <2>5. /\ m.mem = e.cl.mem /\ m.client_closed = e.cl.client_closed
        /\ m.aborted = e.cl.aborted /\ m.dead = e.cl.dead
        /\ m.socks_closed = e.cl.socks_closed /\ m.socks_up = e.cl.socks_up
        /\ m.buf_used = e.cl.buf_used /\ m.recv_buf_used = e.cl.recv_buf_used
        /\ m.recv_buf_sent = e.cl.recv_buf_sent /\ m.tcp_pending = e.cl.tcp_pending
        /\ m.recv_waiting
    BY <2>1 DEF Clients
  <2> HIDE DEF m
  <2>6. OnlyCl(f, e) /\ f.cl = m
    BY <1>12, <2>4, ClSet
  <2> HIDE DEF f
  <2>7. f \in Contexts /\ f.ok /\ f.pcb = e.pcb /\ f.sk = e.sk /\ f.killed = e.killed
        /\ f.stop = e.stop /\ f.got = e.got
    BY <2>6 DEF OnlyCl
  <2>8. Attached(f.cl, f.pcb)
    BY <1>15, <2>5, <2>6, <2>7 DEF Attached
  <2>9. Paired(f.cl, f.sk)
    BY <1>16, <2>5, <2>6, <2>7 DEF Paired
  <2>10. Credit(f.cl, f.pcb, due) /\ Outgoing(f.cl, f.pcb, 0)
    BY Zenon, <1>17, <1>18, <2>5, <2>6, <2>7 DEF Credit, Outgoing
  <2>11. n < rest /\ e.cl.tcp_pending # 0
    <3>1. n < rest
      BY <1>3, <1>4, <1>22
    <3>2. QED
      BY <1>22, <3>1
  <2>12. f.cl.tcp_pending > 0 /\ f.cl.recv_buf_used > 0
         /\ f.cl.recv_buf_sent < f.cl.recv_buf_used
    BY <1>3, <1>4, <1>13, <2>5, <2>6, <2>11
  <2>13. Frame(f, c)
    <3>1. Caught(e) => Caught(f)
      BY <2>5, <2>6, <2>7, CaughtKept
    <3>2. DeadOk(f.cl) /\ Shut(f.pcb)
      BY <1>15, <2>5, <2>6, <2>7 DEF DeadOk
    <3>3. Frame(f, e)
      BY <2>7, <3>1, <3>2 DEF Frame, Grown
    <3>4. QED
      BY <1>19, <3>3, FrameAfter
  <2>14. SentOut(f, c, due)
    BY Zenon, <1>12, <1>13, <1>18, <2>5, <2>6, <2>7, <2>8, <2>9, <2>10, <2>12, <2>13 DEF SentOut
  <2>15. QED
    BY <2>3, <2>14
<1>23. QED
  <2> HIDE DEF rest
  <2>1. QED
    BY <1>20, <1>21, <1>22

\* Once all is sent more is received; until then nothing has to be.
LEMMA SentOutInitiate ==
  ASSUME NEW c \in Contexts, NEW d \in Contexts, NEW due, SentOut(d, c, due),
         ~d.cl.socks_closed, ~d.sk.recv, d.cl.recv_buf_used = -1
  PROVE  Went(client_socks_recv_initiate(d), c, due) /\ Connected(client_socks_recv_initiate(d), due, 0)
<1> DEFINE e == client_socks_recv_initiate(d)
<1>1. d.cl.mem = "live" /\ ~d.cl.client_closed /\ d.cl.socks_up /\ d.ok /\ Frame(d, c)
  BY DEF SentOut, Attached, Frame
<1>2. OnlySk(e, d) /\ e.sk = [d.sk EXCEPT !.recv = TRUE]
  BY <1>1, InitiateFields
<1> HIDE DEF e
<1>3. e.sk.state = d.sk.state /\ e.sk.send = d.sk.send /\ e.sk.recv
  <2>1. d.sk \in SocksClients
    BY DEF Contexts
  <2>2. QED
    BY <1>2, <2>1 DEF SocksClients
<1>4. e \in Contexts /\ e.ok /\ e.cl = d.cl /\ e.pcb = d.pcb /\ e.killed = d.killed
      /\ e.stop = d.stop /\ e.got = d.got
  BY <1>2 DEF OnlySk
<1>5. Paired(e.cl, e.sk)
  BY <1>1, <1>3, <1>4 DEF SentOut, Paired
<1>6. Waiting(e.cl, e.sk)
  BY <1>3, <1>4 DEF Waiting
<1>7. Connected(e, due, 0)
  BY <1>4, <1>5, <1>6 DEF SentOut, Connected
<1>8. Frame(e, c)
  <2>1. Caught(d) => Caught(e)
    BY <1>4, CaughtKept
  <2>2. Frame(e, d)
    BY <1>1, <1>4, <2>1 DEF Frame, Grown
  <2>3. QED
    BY <1>1, <2>2, FrameAfter
<1>9. QED
  BY <1>7, <1>8 DEF Went, Good, e

\* A client that waits for an acknowledgement is connected as before.
LEMMA SentOutStays ==
  ASSUME NEW c, NEW d \in Contexts, NEW due, SentOut(d, c, due),
         d.cl.socks_closed \/ d.cl.recv_buf_used # -1
  PROVE  Went(d, c, due)
<1>1. Waiting(d.cl, d.sk)
  BY DEF SentOut, Waiting
<1>2. QED
  BY <1>1 DEF SentOut, Went, Good, Connected

\* client_socks_recv_handler_done, from a receive that has ended.
LEMMA RecvDoneGoes ==
  ASSUME NEW c \in Contexts, c.ok, NEW due, Good(c, due, 0), DeadOk(c.cl), Shut(c.pcb),
         c.sk.recv, NEW n \in 1..RECV_BUF, n <= c.sk.left, NEW o
  PROVE  Went(client_socks_recv_handler_done([c EXCEPT !.sk.recv = FALSE, !.sk.left = @ - n], n, o),
              c, due)
<1> DEFINE t == [c.sk EXCEPT !.recv = FALSE, !.left = @ - n]
           b == [c EXCEPT !.sk = t]
<1>1. c.cl \in Clients /\ c.sk \in SocksClients /\ c.pcb \in Pcbs
  BY DEF Contexts
<1>2. t \in SocksClients /\ t.state = c.sk.state /\ t.send = c.sk.send /\ ~t.recv
  <2>1. c.sk.left - n \in 0..MaxDown
    BY <1>1, Sizes DEF SocksClients
  <2>2. QED
    BY Zenon, <1>1, <2>1 DEF SocksClients
<1>3. [c EXCEPT !.sk.recv = FALSE, !.sk.left = @ - n] = b
  BY Zenon, <1>1 DEF Contexts, SocksClients
<1> HIDE DEF t
<1>4. OnlySk(b, c) /\ b.sk = t
  BY <1>2, SkSet
<1> HIDE DEF b
<1>5. b \in Contexts /\ b.ok /\ b.cl = c.cl /\ b.pcb = c.pcb /\ b.killed = c.killed
      /\ b.stop = c.stop /\ b.got = c.got
  BY <1>4 DEF OnlySk
<1>6. c.cl.mem = "live" /\ ~c.cl.socks_closed /\ c.cl.socks_up /\ c.cl.recv_buf_used = -1
      /\ Paired(c.cl, c.sk)
  BY DEF Good, Unborn, Connected, Left, Attached, Paired, Idle
<1>7. Paired(b.cl, b.sk)
  BY <1>2, <1>4, <1>5, <1>6 DEF Paired
<1>8. Frame(b, c)
  <2>1. Caught(c) => Caught(b)
    BY <1>5, CaughtKept
  <2>2. QED
    BY <1>5, <2>1 DEF Frame, Grown
<1>9. Require(UseClient(b), /\ ~b.cl.socks_closed /\ b.cl.socks_up
                            /\ b.cl.recv_buf_used = -1) = b
  <2>1. UseClient(b) = b
    BY <1>5, <1>6, Used
  <2>2. TRUE = (/\ ~b.cl.socks_closed /\ b.cl.socks_up /\ b.cl.recv_buf_used = -1)
    BY <1>5, <1>6
  <2>3. QED
    BY Zenon, <1>5, <2>1, <2>2, Kept
<1> DEFINE l == [c.cl EXCEPT !.recv_buf_used = n, !.recv_buf_sent = 0, !.recv_waiting = FALSE]
           e == [b EXCEPT !.cl = l]
           f == client_socks_recv_send_out(e, o)
<1>10. client_socks_recv_handler_done(b, n, o) =
         IF b.cl.client_closed THEN b
         ELSE client_socks_recv_more(client_socks_recv_send_out(
                 [b EXCEPT !.cl.recv_buf_used = n, !.cl.recv_buf_sent = 0,
                           !.cl.recv_waiting = FALSE], o))
  <2> DEFINE g == Require(UseClient(b), /\ ~b.cl.socks_closed /\ b.cl.socks_up
                                        /\ b.cl.recv_buf_used = -1)
  <2>1. client_socks_recv_handler_done(b, n, o) =
          IF b.cl.client_closed THEN g
          ELSE client_socks_recv_more(client_socks_recv_send_out(
                 [g EXCEPT !.cl.recv_buf_used = n, !.cl.recv_buf_sent = 0,
                           !.cl.recv_waiting = FALSE], o))
    BY Zenon DEF client_socks_recv_handler_done
  <2>2. g = b
    BY Zenon, <1>9
  <2> HIDE DEF g
  <2>3. QED
    BY <2>1, <2>2
<1>11. CASE c.cl.client_closed
  <2>1. Left(c.cl, c.sk) /\ Detached(c.pcb)
    BY <1>6, <1>11 DEF Good, Unborn, Connected, Attached
  <2>2. Left(b.cl, b.sk) /\ Detached(b.pcb)
    BY <1>5, <1>6, <1>7, <2>1 DEF Left
  <2>3. QED
    BY Zenon, <1>3, <1>5, <1>8, <1>10, <1>11, <2>2 DEF Went, Good
<1>12. CASE ~c.cl.client_closed
  <2>1. Connected(c, due, 0)
    BY <1>6, <1>12 DEF Good, Unborn, Left
  <2>2. l \in Clients
    <3>1. n \in -1..RECV_BUF /\ 0 \in 0..RECV_BUF
      BY Sizes
    <3>2. QED
      BY Zenon, <1>1, <3>1 DEF Clients
  <2>3. [b EXCEPT !.cl.recv_buf_used = n, !.cl.recv_buf_sent = 0, !.cl.recv_waiting = FALSE] = e
    BY Zenon, <1>1, <1>5 DEF Contexts, Clients
  <2>4. /\ l.mem = c.cl.mem /\ l.client_closed = c.cl.client_closed
        /\ l.aborted = c.cl.aborted /\ l.dead = c.cl.dead
        /\ l.socks_closed = c.cl.socks_closed /\ l.socks_up = c.cl.socks_up
        /\ l.buf_used = c.cl.buf_used /\ l.recv_buf_used = n
        /\ l.recv_buf_sent = 0 /\ ~l.recv_waiting /\ l.tcp_pending = c.cl.tcp_pending
    BY <1>1 DEF Clients
  <2> HIDE DEF l
  <2>5. OnlyCl(e, b) /\ e.cl = l
    BY <1>5, <2>2, ClSet
  <2> HIDE DEF e
  <2>6. e \in Contexts /\ e.ok /\ e.pcb = c.pcb /\ e.sk = t /\ e.killed = c.killed
        /\ e.stop = c.stop /\ e.got = c.got
    BY <1>4, <1>5, <2>5 DEF OnlyCl
  <2>7. Attached(e.cl, e.pcb)
    BY <2>1, <2>4, <2>5, <2>6 DEF Connected, Attached
  <2>8. Paired(e.cl, e.sk)
    BY Zenon, <1>2, <1>6, <2>4, <2>5, <2>6 DEF Paired
  <2>9. Credit(e.cl, e.pcb, due)
    BY <2>1, <2>4, <2>5, <2>6 DEF Connected, Credit
  <2>10. Outgoing(e.cl, e.pcb, 0) /\ DeadOk(e.cl)
    BY Zenon, <1>6, <2>1, <2>4, <2>5, <2>6 DEF Connected, Outgoing, DeadOk
  <2>11. Sending(e, due)
    <3>1. e.cl.recv_buf_used > 0 /\ e.cl.recv_buf_sent < e.cl.recv_buf_used
      BY <2>4, <2>5
    <3>2. e.cl.socks_up /\ ~e.cl.recv_waiting
      BY Zenon, <1>6, <2>4, <2>5
    <3>3. QED
      BY <2>7, <2>8, <2>9, <2>10, <3>1, <3>2 DEF Sending
  <2>12. Frame(e, c)
    <3>1. Caught(c) => Caught(e)
      BY <2>4, <2>5, <2>6, CaughtKept
    <3>2. QED
      BY <2>6, <2>10, <3>1 DEF Frame, Grown
  <2>13. Ended(f, e) \/ SentOut(f, e, due)
    BY <2>6, <2>11, SendOutGoes
  <2>14. client_socks_recv_handler_done(b, n, o) =
           IF ~f.cl.client_closed /\ f.cl.recv_buf_used = -1
           THEN client_socks_recv_initiate(f) ELSE f
    BY <1>5, <1>10, <1>12, <2>3 DEF client_socks_recv_more
  <2> HIDE DEF f
  <2>15. CASE Ended(f, e)
    <3>1. f.cl.client_closed
      BY <2>15 DEF Ended, Left
    <3>2. QED
      BY <1>3, <2>12, <2>14, <2>15, <3>1, EndedAfter, EndedWent
  <2>16. CASE SentOut(f, e, due)
    <3>1. f \in Contexts /\ ~f.sk.recv /\ ~f.cl.socks_closed /\ ~f.cl.client_closed
      BY <1>2, <1>6, <2>4, <2>5, <2>6, <2>16 DEF SentOut, Frame, Attached
    <3>2. CASE f.cl.recv_buf_used = -1
      <4>1. Went(client_socks_recv_initiate(f), e, due)
        BY <2>6, <2>16, <3>1, <3>2, SentOutInitiate
      <4>2. QED
        BY <1>3, <2>12, <2>14, <3>1, <3>2, <4>1, WentAfter
    <3>3. CASE f.cl.recv_buf_used # -1
      <4>1. Went(f, e, due)
        BY <2>16, <3>1, <3>3, SentOutStays
      <4>2. QED
        BY <1>3, <2>12, <2>14, <3>1, <3>3, <4>1, WentAfter
    <3>4. QED
      BY <3>2, <3>3
  <2>17. QED
    BY <2>13, <2>15, <2>16
<1>13. QED
  BY <1>11, <1>12

-----------------------------------------------------------------------------
(***************************************************************************)
(* From the app to the SOCKS server.                                       *)
(***************************************************************************)
\* client_send_to_socks: its ASSERTs hold and all of buf is being sent.
LEMMA SendFields ==
  ASSUME NEW c \in Contexts, c.ok, c.cl.mem = "live", ~c.cl.socks_closed, c.cl.socks_up,
         c.cl.buf_used > 0, c.sk.send = 0
  PROVE  LET d == client_send_to_socks(c)
         IN  /\ OnlySk(d, c) /\ d.sk.state = c.sk.state /\ d.sk.send = c.cl.buf_used
             /\ d.sk.recv = c.sk.recv /\ d.sk.left = c.sk.left
<1> DEFINE t == [c.sk EXCEPT !.send = c.cl.buf_used]
           g == Require(UseClient(c), /\ ~c.cl.socks_closed /\ c.cl.socks_up
                                      /\ c.cl.buf_used > 0 /\ c.sk.send = 0)
<1>1. c.sk \in SocksClients /\ c.cl.buf_used \in 0..TCP_WND
  BY DEF Contexts, Clients
<1>2. t \in SocksClients
  BY <1>1 DEF SocksClients
<1>3. g = c
  <2>1. UseClient(c) = c
    BY Used
  <2>2. TRUE = (/\ ~c.cl.socks_closed /\ c.cl.socks_up /\ c.cl.buf_used > 0 /\ c.sk.send = 0)
    OBVIOUS
  <2>3. QED
    BY Zenon, <2>1, <2>2, Kept
<1>4. client_send_to_socks(c) = [g EXCEPT !.sk.send = c.cl.buf_used]
  BY Zenon DEF client_send_to_socks
<1> HIDE DEF g
<1>5. client_send_to_socks(c) = [c EXCEPT !.sk = t]
  BY <1>1, <1>3, <1>4 DEF Contexts
<1>6. /\ t.state = c.sk.state /\ t.send = c.cl.buf_used /\ t.recv = c.sk.recv
      /\ t.left = c.sk.left
  BY <1>1 DEF SocksClients
<1> HIDE DEF t
<1>7. QED
  BY <1>2, <1>5, <1>6, SkSet

\* tcp_recved widens the window by no more than its size allows.
LEMMA RecvedFields ==
  ASSUME NEW c \in Contexts, c.ok, c.pcb.state # "FREED", NEW n \in Nat, c.pcb.wnd + n <= TCP_WND
  PROVE  OnlyPcb(tcp_recved(c, n), c) /\ tcp_recved(c, n).pcb = [c.pcb EXCEPT !.wnd = @ + n]
<1> DEFINE p == [c.pcb EXCEPT !.wnd = @ + n]
<1>1. c.pcb \in Pcbs
  BY DEF Contexts
<1>2. c.pcb.wnd + n \in 0..TCP_WND /\ bmin_int(c.pcb.wnd + n, TCP_WND) = c.pcb.wnd + n
  <2>1. c.pcb.wnd + n \in Int /\ TCP_WND \in Int /\ c.pcb.wnd + n >= 0
    BY <1>1, Sizes DEF Pcbs
  <2>2. QED
    BY <2>1 DEF bmin_int
<1>3. p \in Pcbs
  BY <1>1, <1>2 DEF Pcbs
<1>4. tcp_recved(c, n) = [c EXCEPT !.pcb = p]
  <2>1. UsePcb(c) = c
    BY Used
  <2>2. QED
    BY <1>1, <1>2, <2>1 DEF tcp_recved, Contexts, Pcbs
<1> HIDE DEF p
<1>5. QED
  BY <1>3, <1>4, PcbSet DEF p

\* client_socks_send_handler_done, from a send that has got on by n bytes.
LEMMA SendDoneGoes ==
  ASSUME NEW c \in Contexts, c.ok, NEW due \in Nat, Good(c, due, 0), DeadOk(c.cl), Shut(c.pcb),
         NEW n \in Nat, n > 0, n <= c.sk.send, NEW o
  PROVE  Went(client_socks_send_handler_done([c EXCEPT !.sk.send = 0], n, o), c, due)
<1> DEFINE t == [c.sk EXCEPT !.send = 0]
           b == [c EXCEPT !.sk = t]
           l == [c.cl EXCEPT !.buf_used = @ - n]
           d == [b EXCEPT !.cl = l]
           e == IF d.cl.client_closed THEN d ELSE tcp_recved(d, n)
<1>1. c.cl \in Clients /\ c.sk \in SocksClients /\ c.pcb \in Pcbs /\ 0 \in 0..TCP_WND
  BY Sizes DEF Contexts
<1>2. c.cl.mem = "live" /\ ~c.cl.socks_closed /\ c.cl.socks_up /\ Paired(c.cl, c.sk)
  <2>1. ~Idle(c.sk)
    BY <1>1 DEF Idle, SocksClients
  <2>2. QED
    BY <2>1 DEF Good, Unborn, Connected, Left, Attached, Paired
<1>3. c.sk.send <= c.cl.buf_used /\ c.sk.send \in 0..TCP_WND /\ c.cl.buf_used \in 0..TCP_WND
      /\ n <= c.cl.buf_used
  BY <1>1, <1>2, Sizes DEF Paired, SocksClients, Clients
<1>4. t \in SocksClients /\ t.state = c.sk.state /\ t.send = 0 /\ t.recv = c.sk.recv
  BY <1>1 DEF SocksClients
<1>5. [c EXCEPT !.sk.send = 0] = b
  BY <1>1 DEF Contexts, SocksClients
<1> HIDE DEF t
<1>6. OnlySk(b, c) /\ b.sk = t
  BY <1>4, SkSet
<1> HIDE DEF b
<1>7. b \in Contexts /\ b.ok /\ b.cl = c.cl /\ b.pcb = c.pcb /\ b.killed = c.killed
      /\ b.stop = c.stop /\ b.got = c.got
  BY <1>6 DEF OnlySk
<1>8. l \in Clients
  <2>1. c.cl.buf_used - n \in 0..TCP_WND
    BY <1>3, Sizes
  <2>2. QED
    BY <1>1, <2>1 DEF Clients
<1>9. /\ l.mem = c.cl.mem /\ l.client_closed = c.cl.client_closed
      /\ l.aborted = c.cl.aborted /\ l.dead = c.cl.dead
      /\ l.socks_closed = c.cl.socks_closed /\ l.socks_up = c.cl.socks_up
      /\ l.buf_used = c.cl.buf_used - n /\ l.recv_buf_used = c.cl.recv_buf_used
      /\ l.recv_buf_sent = c.cl.recv_buf_sent /\ l.recv_waiting = c.cl.recv_waiting
      /\ l.tcp_pending = c.cl.tcp_pending
  BY <1>1 DEF Clients
<1>10. client_socks_send_handler_done(b, n, o) =
         CASE e.cl.buf_used > 0                          -> client_send_to_socks(e)
           [] e.cl.buf_used <= 0 /\ e.cl.client_closed   -> client_free_socks(e, o)
           [] OTHER                                      -> e
  <2> DEFINE g == Require(UseClient(b), /\ ~b.cl.socks_closed /\ b.cl.socks_up
                                        /\ n > 0 /\ n <= b.cl.buf_used)
             f == [g EXCEPT !.cl.buf_used = @ - n]
             h == IF f.cl.client_closed THEN f ELSE tcp_recved(f, n)
  <2>1. client_socks_send_handler_done(b, n, o) =
          CASE h.cl.buf_used > 0                          -> client_send_to_socks(h)
            [] h.cl.buf_used <= 0 /\ h.cl.client_closed   -> client_free_socks(h, o)
            [] OTHER                                      -> h
    BY Zenon DEF client_socks_send_handler_done
  <2>2. g = b
    <3>1. UseClient(b) = b
      BY <1>2, <1>7, Used
    <3>2. TRUE = (/\ ~b.cl.socks_closed /\ b.cl.socks_up /\ n > 0 /\ n <= b.cl.buf_used)
      BY <1>2, <1>3, <1>7
    <3>3. QED
      BY Zenon, <1>7, <3>1, <3>2, Kept
  <2> HIDE DEF g
  <2>3. f = d
    BY <1>1, <1>7, <2>2 DEF Contexts, Clients
  <2> HIDE DEF f, d
  <2>4. h = e
    BY <2>3
  <2> HIDE DEF h, e
  <2>5. QED
    BY <2>1, <2>4
<1> HIDE DEF l
<1>11. OnlyCl(d, b) /\ d.cl = l
  BY <1>7, <1>8, ClSet
<1> HIDE DEF d
<1>12. d \in Contexts /\ d.ok /\ d.pcb = c.pcb /\ d.sk = t /\ d.killed = c.killed
      /\ d.stop = c.stop /\ d.got = c.got
  BY <1>6, <1>7, <1>11 DEF OnlyCl
<1>13. CASE c.cl.client_closed
  <2>1. e = d
    BY Zenon, <1>9, <1>11, <1>13
  <2>2. Left(c.cl, c.sk) /\ Detached(c.pcb)
    BY <1>2, <1>13 DEF Good, Unborn, Connected, Attached
  <2>3. DeadOk(d.cl) /\ Frame(d, c)
    <3>1. Caught(c) => Caught(d)
      BY <1>9, <1>11, <1>12, CaughtKept
    <3>2. DeadOk(d.cl)
      BY <1>9, <1>11 DEF DeadOk
    <3>3. QED
      BY <1>12, <3>1, <3>2 DEF Frame, Grown
  <2>4. CASE d.cl.buf_used > 0
    <3> DEFINE f == client_send_to_socks(d)
    <3>1. client_socks_send_handler_done(b, n, o) = f
      <4>1. ~(d.cl.buf_used <= 0)
        BY <1>3, <1>9, <1>11, <2>4
      <4>2. QED
        BY <1>10, <2>1, <2>4, <4>1
    <3>2. /\ OnlySk(f, d) /\ f.sk.state = d.sk.state /\ f.sk.send = d.cl.buf_used
          /\ f.sk.recv = d.sk.recv
      <4>1. d.cl.mem = "live" /\ ~d.cl.socks_closed /\ d.cl.socks_up /\ d.sk.send = 0
        BY Zenon, <1>2, <1>4, <1>9, <1>11, <1>12
      <4>2. QED
        BY <1>12, <2>4, <4>1, SendFields
    <3> HIDE DEF f
    <3>3. f \in Contexts /\ f.ok /\ f.cl = d.cl /\ f.pcb = d.pcb /\ f.killed = d.killed
          /\ f.stop = d.stop /\ f.got = d.got
      BY <3>2 DEF OnlySk
    <3>4. Paired(f.cl, f.sk)
      <4>1. f.sk.send <= f.cl.buf_used /\ f.sk.send # 0
        BY <1>3, <1>9, <1>11, <2>4, <3>2, <3>3
      <4>2. f.sk.state = c.sk.state /\ f.sk.recv = c.sk.recv
        BY <1>4, <1>12, <3>2
      <4>3. QED
        BY Zenon, <1>2, <1>9, <1>11, <3>3, <4>1, <4>2 DEF Paired
    <3>5. Left(f.cl, f.sk) /\ Detached(f.pcb)
      BY Zenon, <1>2, <1>9, <1>11, <1>12, <1>13, <2>2, <2>4, <3>3, <3>4 DEF Left
    <3>6. Frame(f, c)
      <4>1. Caught(d) => Caught(f)
        BY <3>3, CaughtKept
      <4>2. Frame(f, d)
        BY <2>3, <3>3, <4>1 DEF Frame, Grown
      <4>3. QED
        BY <2>3, <4>2, FrameAfter
    <3>7. QED
      BY <1>5, <3>1, <3>5, <3>6 DEF Went, Good
  <2>5. CASE ~(d.cl.buf_used > 0)
    <3>1. client_socks_send_handler_done(b, n, o) = client_free_socks(d, o)
      <4>1. d.cl.buf_used <= 0
        BY <1>3, <1>9, <1>11, <2>5
      <4>2. d.cl.client_closed
        BY Zenon, <1>9, <1>11, <1>13
      <4>3. QED
        BY <1>10, <2>1, <2>5, <4>1, <4>2
    <3>2. Ended(client_free_socks(d, o), d)
      <4>1. d.cl.mem = "live" /\ ~d.cl.socks_closed /\ d.cl.client_closed /\ Detached(d.pcb)
            /\ Shut(d.pcb)
        BY Zenon, <1>2, <1>9, <1>11, <1>12, <1>13, <2>2
      <4>2. QED
        BY <1>12, <2>3, <4>1, FreeSocksClosed
    <3>3. QED
      BY <1>5, <2>3, <3>1, <3>2, EndedAfter, EndedWent
  <2>6. QED
    BY <2>4, <2>5
<1>14. CASE ~c.cl.client_closed
  <2>1. Connected(c, due, 0)
    BY <1>2, <1>14 DEF Good, Unborn, Left
  <2>2. c.pcb.state \in Open /\ c.pcb.state # "FREED" /\ ~c.pcb.closed /\ c.pcb.recv
    BY Zenon, <1>2, <2>1, StateNames DEF Connected, Attached
  <2>3. c.cl.buf_used + c.pcb.wnd + due = TCP_WND
    BY <2>1, <2>2 DEF Connected, Credit
  <2>4. c.pcb.wnd \in 0..TCP_WND /\ c.pcb.wnd + n <= TCP_WND
    BY <1>1, <1>3, <2>3, Sizes DEF Pcbs
  <2>5. OnlyPcb(e, d) /\ e.pcb = [c.pcb EXCEPT !.wnd = @ + n]
    <3>1. e = tcp_recved(d, n)
      BY <1>9, <1>11, <1>14
    <3>2. OnlyPcb(tcp_recved(d, n), d) /\ tcp_recved(d, n).pcb = [d.pcb EXCEPT !.wnd = @ + n]
      BY <1>12, <2>2, <2>4, RecvedFields
    <3>3. QED
      BY <1>12, <3>1, <3>2
  <2> HIDE DEF e
  <2>6. e \in Contexts /\ e.ok /\ e.cl = l /\ e.sk = t /\ e.killed = c.killed
        /\ e.stop = c.stop /\ e.got = c.got
    BY <1>11, <1>12, <2>5 DEF OnlyPcb
  <2>7. /\ e.pcb.state = c.pcb.state /\ e.pcb.rxclosed = c.pcb.rxclosed
        /\ e.pcb.closed = c.pcb.closed /\ e.pcb.closepend = c.pcb.closepend
        /\ e.pcb.input = c.pcb.input /\ e.pcb.err = c.pcb.err /\ e.pcb.recv = c.pcb.recv
        /\ e.pcb.sent = c.pcb.sent /\ e.pcb.wnd = c.pcb.wnd + n
        /\ e.pcb.unacked = c.pcb.unacked
    BY <1>1, <2>5 DEF Pcbs
  <2>8. Attached(e.cl, e.pcb)
    BY <1>9, <2>1, <2>6, <2>7 DEF Connected, Attached
  <2>9. Credit(e.cl, e.pcb, due)
    BY <1>3, <1>9, <2>3, <2>4, <2>6, <2>7, Sizes DEF Credit
  <2>10. Outgoing(e.cl, e.pcb, 0)
    BY <1>9, <2>1, <2>6, <2>7 DEF Connected, Outgoing
  <2>11. DeadOk(e.cl) /\ Shut(e.pcb)
    BY <1>9, <2>2, <2>6, <2>7 DEF DeadOk, Shut
  <2>12. Frame(e, c)
    <3>1. Caught(c) => Caught(e)
      BY <1>9, <2>6, <2>7, CaughtKept
    <3>2. QED
      BY <2>4, <2>6, <2>7, <2>11, <3>1 DEF Frame, Grown
  <2>13. Waiting(c.cl, c.sk)
    BY <2>1 DEF Connected
  <2>14. Waiting(e.cl, e.sk)
    BY <1>4, <1>9, <2>6, <2>13 DEF Waiting
  <2>15. CASE e.cl.buf_used > 0
    <3> DEFINE f == client_send_to_socks(e)
    <3>1. client_socks_send_handler_done(b, n, o) = f
      <4>1. ~(e.cl.buf_used <= 0)
        BY <1>3, <1>9, <2>6, <2>15
      <4>2. QED
        BY <1>10, <2>15, <4>1
    <3>2. /\ OnlySk(f, e) /\ f.sk.state = e.sk.state /\ f.sk.send = e.cl.buf_used
          /\ f.sk.recv = e.sk.recv
      <4>1. e.cl.mem = "live" /\ ~e.cl.socks_closed /\ e.cl.socks_up /\ e.sk.send = 0
        BY Zenon, <1>2, <1>4, <1>9, <2>6
      <4>2. QED
        BY <2>6, <2>15, <4>1, SendFields
    <3> HIDE DEF f
    <3>3. f \in Contexts /\ f.ok /\ f.cl = e.cl /\ f.pcb = e.pcb /\ f.killed = e.killed
          /\ f.stop = e.stop /\ f.got = e.got
      BY <3>2 DEF OnlySk
    <3>4. Paired(f.cl, f.sk)
      <4>1. f.sk.send <= f.cl.buf_used /\ f.sk.send # 0
        BY <1>3, <1>9, <2>6, <2>15, <3>2, <3>3
      <4>2. f.sk.state = c.sk.state /\ f.sk.recv = c.sk.recv
        BY <1>4, <2>6, <3>2
      <4>3. QED
        BY Zenon, <1>2, <1>9, <2>6, <3>3, <4>1, <4>2 DEF Paired
    <3>5. Waiting(f.cl, f.sk)
      BY <2>14, <3>2, <3>3 DEF Waiting
    <3>6. Frame(f, c)
      <4>1. Caught(e) => Caught(f)
        BY <3>3, CaughtKept
      <4>2. Frame(f, e)
        BY <2>12, <3>3, <4>1 DEF Frame, Grown
      <4>3. QED
        BY <2>12, <4>2, FrameAfter
    <3>7. QED
      BY <1>5, <2>8, <2>9, <2>10, <3>1, <3>3, <3>4, <3>5, <3>6 DEF Went, Good, Connected
  <2>16. CASE ~(e.cl.buf_used > 0)
    <3>1. e.cl.buf_used = 0
      BY <1>3, <1>9, <2>6, <2>16
    <3>2. ~e.cl.client_closed
      BY <1>9, <1>14, <2>6
    <3>3. client_socks_send_handler_done(b, n, o) = e
      BY <1>10, <2>16, <3>2
    <3>4. Paired(e.cl, e.sk)
      <4>1. e.sk.send <= e.cl.buf_used /\ (e.sk.send = 0 => e.cl.buf_used = 0)
        BY <1>4, <2>6, <3>1
      <4>2. QED
        BY Zenon, <1>2, <1>4, <1>9, <2>6, <4>1 DEF Paired
    <3>5. QED
      BY <1>5, <2>8, <2>9, <2>10, <2>12, <2>14, <3>3, <3>4 DEF Went, Good, Connected
  <2>17. QED
    BY <2>15, <2>16
<1>15. QED
  BY <1>13, <1>14

-----------------------------------------------------------------------------
(***************************************************************************)
(* Events of the SOCKS connection.                                         *)
(***************************************************************************)
\* client_socks_handler_up: the client starts to send what is in buf and to
\* receive.
LEMMA UpGoes ==
  ASSUME NEW c \in Contexts, c.ok, NEW due, Good(c, due, 0), DeadOk(c.cl), Shut(c.pcb),
         c.sk.state = "connecting"
  PROVE  Went(client_socks_handler_up(c), c, due)
<1> DEFINE t == [c.sk EXCEPT !.state = "up"]
           l == [c.cl EXCEPT !.socks_up = TRUE, !.recv_buf_used = -1, !.tcp_pending = 0]
           b == [c EXCEPT !.sk = t]
           d == [b EXCEPT !.cl = l]
           e == IF d.cl.client_closed THEN d ELSE [UsePcb(d) EXCEPT !.pcb.sent = TRUE]
           f == IF e.cl.buf_used > 0 THEN client_send_to_socks(e) ELSE e
<1>1. c.cl \in Clients /\ c.sk \in SocksClients /\ c.pcb \in Pcbs
  BY DEF Contexts
<1>2. c.cl.mem = "live" /\ ~c.cl.socks_closed /\ ~c.cl.socks_up /\ Paired(c.cl, c.sk)
      /\ Idle(c.sk)
  BY Zenon DEF Good, Unborn, Connected, Left, Attached, Paired
<1>3. t \in SocksClients /\ t.state = "up" /\ t.send = 0 /\ ~t.recv
  BY <1>1, <1>2 DEF SocksClients, Idle
<1>4. l \in Clients
  <2>1. -1 \in -1..RECV_BUF /\ 0 \in 0..TCP_SND_BUF
    BY Sizes
  <2>2. QED
    BY Zenon, <1>1, <2>1 DEF Clients
<1>5. /\ l.mem = c.cl.mem /\ l.client_closed = c.cl.client_closed
      /\ l.aborted = c.cl.aborted /\ l.dead = c.cl.dead
      /\ l.socks_closed = c.cl.socks_closed /\ l.socks_up
      /\ l.buf_used = c.cl.buf_used /\ l.recv_buf_used = -1 /\ l.tcp_pending = 0
  BY <1>1 DEF Clients
<1>6. client_socks_handler_up(c) = IF f.cl.client_closed THEN f ELSE client_socks_recv_initiate(f)
  <2> DEFINE g == Require(UseClient(c), ~c.cl.socks_closed /\ ~c.cl.socks_up)
             h == [g EXCEPT !.sk.state = "up", !.cl.socks_up = TRUE,
                            !.cl.recv_buf_used = -1, !.cl.tcp_pending = 0]
             i == IF h.cl.client_closed THEN h ELSE [UsePcb(h) EXCEPT !.pcb.sent = TRUE]
             j == IF i.cl.buf_used > 0 THEN client_send_to_socks(i) ELSE i
  <2>1. client_socks_handler_up(c) = IF j.cl.client_closed THEN j ELSE client_socks_recv_initiate(j)
    BY Zenon DEF client_socks_handler_up
  <2>2. g = c
    <3>1. UseClient(c) = c
      BY <1>2, Used
    <3>2. TRUE = (~c.cl.socks_closed /\ ~c.cl.socks_up)
      BY <1>2
    <3>3. QED
      BY Zenon, <3>1, <3>2, Kept
  <2> HIDE DEF g
  <2>3. h = d
    BY Zenon, <1>1, <2>2 DEF Contexts, Clients
  <2> HIDE DEF h, d
  <2>4. i = e
    BY <2>3
  <2> HIDE DEF i, e
  <2>5. j = f
    BY <2>4
  <2> HIDE DEF j, f
  <2>6. QED
    BY <2>1, <2>5
<1> HIDE DEF t, l
<1>7. OnlySk(b, c) /\ b.sk = t
  BY <1>3, SkSet
<1> HIDE DEF b
<1>8. OnlyCl(d, b) /\ d.cl = l
  <2>1. b \in Contexts /\ b.ok
    BY <1>7 DEF OnlySk
  <2>2. QED
    BY <1>4, <2>1, ClSet
<1> HIDE DEF d
<1>9. d \in Contexts /\ d.ok /\ d.pcb = c.pcb /\ d.sk = t /\ d.killed = c.killed
      /\ d.stop = c.stop /\ d.got = c.got
  BY <1>7, <1>8 DEF OnlySk, OnlyCl
<1>10. ~c.cl.client_closed => /\ Connected(c, due, 0) /\ c.pcb.state # "FREED"
                              /\ c.pcb.unacked = 0
  <2>1. ~c.cl.client_closed => Connected(c, due, 0)
    BY <1>2 DEF Good, Unborn, Left
  <2>2. Connected(c, due, 0) => c.pcb.state # "FREED"
    BY StateNames DEF Connected, Attached
  <2>3. Connected(c, due, 0) => c.pcb.unacked = 0
    BY <1>1, <1>2 DEF Connected, Outgoing, Pcbs
  <2>4. QED
    BY <2>1, <2>2, <2>3
<1> DEFINE p == IF c.cl.client_closed THEN c.pcb ELSE [c.pcb EXCEPT !.sent = TRUE]
<1>11. OnlyPcb(e, d) /\ e.pcb = p
  <2>1. CASE c.cl.client_closed
    BY Zenon, <1>5, <1>8, <1>9, <2>1 DEF OnlyPcb
  <2>2. CASE ~c.cl.client_closed
    <3>1. UsePcb(d) = d
      BY <1>9, <1>10, <2>2, Used
    <3>2. e = [d EXCEPT !.pcb.sent = TRUE]
      BY <1>5, <1>8, <2>2, <3>1
    <3>3. p \in Pcbs
      BY Zenon, <1>1 DEF Pcbs
    <3>4. e = [d EXCEPT !.pcb = p]
      BY <1>9, <2>2, <3>2 DEF Contexts
    <3> HIDE DEF p, e
    <3>5. QED
      BY <1>9, <3>3, <3>4, PcbSet
  <2>3. QED
    BY <2>1, <2>2
<1> HIDE DEF e
<1>12. e \in Contexts /\ e.ok /\ e.cl = l /\ e.sk = t /\ e.killed = c.killed
       /\ e.stop = c.stop /\ e.got = c.got
  BY <1>8, <1>9, <1>11 DEF OnlyPcb
<1>13. /\ e.pcb.state = c.pcb.state /\ e.pcb.rxclosed = c.pcb.rxclosed
       /\ e.pcb.closed = c.pcb.closed /\ e.pcb.closepend = c.pcb.closepend
       /\ e.pcb.input = c.pcb.input /\ e.pcb.err = c.pcb.err /\ e.pcb.recv = c.pcb.recv
       /\ e.pcb.wnd = c.pcb.wnd /\ e.pcb.unacked = c.pcb.unacked
       /\ (c.cl.client_closed => e.pcb = c.pcb)
       /\ (~c.cl.client_closed => e.pcb.sent)
  BY <1>1, <1>11 DEF Pcbs
<1> HIDE DEF p
<1>14. /\ f \in Contexts /\ f.ok /\ f.cl = l /\ f.pcb = e.pcb /\ f.killed = c.killed
       /\ f.stop = c.stop /\ f.got = c.got
       /\ f.sk.state = "up" /\ f.sk.send = c.cl.buf_used /\ ~f.sk.recv
  <2>1. CASE e.cl.buf_used > 0
    <3> DEFINE g == client_send_to_socks(e)
    <3>1. /\ OnlySk(g, e) /\ g.sk.state = e.sk.state /\ g.sk.send = e.cl.buf_used
          /\ g.sk.recv = e.sk.recv
      <4>1. e.cl.mem = "live" /\ ~e.cl.socks_closed /\ e.cl.socks_up /\ e.sk.send = 0
        BY <1>2, <1>3, <1>5, <1>12
      <4>2. QED
        BY <1>12, <2>1, <4>1, SendFields
    <3>2. f = g
      BY <2>1
    <3> HIDE DEF f, g
    <3>3. QED
      BY <1>3, <1>5, <1>12, <3>1, <3>2 DEF OnlySk
  <2>2. CASE ~(e.cl.buf_used > 0)
    <3>1. f = e
      BY <2>2
    <3> HIDE DEF f
    <3>2. c.cl.buf_used = 0
      BY <1>1, <1>5, <1>12, <2>2, Sizes DEF Clients
    <3>3. QED
      BY <1>3, <1>12, <3>1, <3>2
  <2>3. QED
    BY Zenon, <2>1, <2>2
<1> HIDE DEF f
<1>15. Paired(f.cl, f.sk)
  <2>1. f.sk.send <= f.cl.buf_used /\ (f.sk.send = 0 => f.cl.buf_used = 0)
    BY <1>1, <1>5, <1>14, Sizes DEF Clients
  <2>2. QED
    BY <1>2, <1>5, <1>14, <2>1 DEF Paired
<1>16. DeadOk(f.cl) /\ Shut(f.pcb)
  BY <1>5, <1>13, <1>14 DEF DeadOk, Shut
<1>17. Frame(f, c)
  <2>1. Caught(c) => Caught(f)
    BY <1>5, <1>13, <1>14, CaughtKept
  <2>2. QED
    BY <1>13, <1>14, <1>16, <2>1 DEF Frame, Grown
<1>18. CASE c.cl.client_closed
  <2>1. Left(c.cl, c.sk) /\ Detached(c.pcb)
    BY <1>2, <1>18 DEF Good, Unborn, Connected, Attached
  <2>2. Left(f.cl, f.sk) /\ Detached(f.pcb)
    BY Zenon, <1>2, <1>5, <1>13, <1>14, <1>15, <1>18, <2>1 DEF Left
  <2>3. client_socks_handler_up(c) = f
    BY Zenon, <1>5, <1>6, <1>14, <1>18
  <2>4. QED
    BY <1>17, <2>2, <2>3 DEF Went, Good
<1>19. CASE ~c.cl.client_closed
  <2> DEFINE g == client_socks_recv_initiate(f)
  <2>1. OnlySk(g, f) /\ g.sk = [f.sk EXCEPT !.recv = TRUE]
    <3>1. f.cl.mem = "live" /\ ~f.cl.socks_closed /\ f.cl.socks_up /\ ~f.cl.client_closed
          /\ f.cl.recv_buf_used = -1
      BY <1>2, <1>5, <1>14, <1>19
    <3>2. QED
      BY <1>14, <3>1, InitiateFields
  <2>2. client_socks_handler_up(c) = g
    BY <1>5, <1>6, <1>14, <1>19
  <2> HIDE DEF g
  <2>3. g.sk.state = f.sk.state /\ g.sk.send = f.sk.send /\ g.sk.recv
    <3>1. f.sk \in SocksClients
      BY <1>14 DEF Contexts
    <3>2. QED
      BY <2>1, <3>1 DEF SocksClients
  <2>4. g \in Contexts /\ g.ok /\ g.cl = l /\ g.pcb = e.pcb /\ g.killed = f.killed
        /\ g.stop = f.stop /\ g.got = f.got
    BY <1>14, <2>1 DEF OnlySk
  <2>5. Paired(g.cl, g.sk)
    BY <1>2, <1>5, <1>14, <1>15, <2>3, <2>4 DEF Paired
  <2>6. Attached(g.cl, g.pcb)
    <3>1. g.pcb.sent = g.cl.socks_up
      <4>1. g.pcb.sent \in BOOLEAN /\ g.cl.socks_up \in BOOLEAN
        BY <2>4 DEF Contexts, Pcbs, Clients
      <4>2. QED
        BY <1>5, <1>13, <1>19, <2>4, <4>1
    <3>2. Attached(c.cl, c.pcb)
      BY <1>10, <1>19 DEF Connected
    <3>3. QED
      BY Zenon, <1>2, <1>5, <1>13, <2>4, <3>1, <3>2 DEF Attached
  <2>7. Credit(g.cl, g.pcb, due)
    BY <1>5, <1>10, <1>13, <1>19, <2>4 DEF Connected, Credit
  <2>8. Outgoing(g.cl, g.pcb, 0)
    BY <1>5, <1>10, <1>13, <1>19, <2>4 DEF Outgoing
  <2>9. Waiting(g.cl, g.sk)
    BY <1>2, <1>5, <2>3, <2>4 DEF Waiting
  <2>10. Frame(g, c)
    <3>1. Caught(f) => Caught(g)
      BY <1>14, <2>4, CaughtKept
    <3>2. Frame(g, f)
      BY <1>14, <1>17, <2>4, <3>1 DEF Frame, Grown
    <3>3. QED
      BY <1>17, <3>2, FrameAfter
  <2>11. QED
    BY Zenon, <2>2, <2>5, <2>6, <2>7, <2>8, <2>9, <2>10 DEF Went, Good, Connected
<1>20. QED
  BY <1>18, <1>19

\* client_socks_handler_error frees the SOCKS side; the client waits for what the
\* app has not acknowledged, or ends.
LEMMA ErrorGoes ==
  ASSUME NEW c \in Contexts, c.ok, NEW due, Good(c, due, 0), DeadOk(c.cl), Shut(c.pcb),
         c.sk.state \in {"connecting", "up"} \/ c.sk.recv, NEW o
  PROVE  Went(client_socks_handler_error(c, o), c, due)
<1>1. c.cl.mem = "live" /\ ~c.cl.socks_closed
  BY Zenon DEF Good, Unborn, Connected, Left, Attached, Paired, Idle
<1>2. client_socks_handler_error(c, o) = client_free_socks(c, o)
  <2>1. UseClient(c) = c
    BY <1>1, Used
  <2>2. Require(c, ~c.cl.socks_closed) = c
    BY <1>1, Kept DEF Contexts, Clients
  <2>3. QED
    BY <2>1, <2>2 DEF client_socks_handler_error
<1>3. CASE c.cl.client_closed
  <2>1. Detached(c.pcb)
    BY Zenon, <1>1, <1>3 DEF Good, Unborn, Connected, Attached
  <2>2. QED
    BY <1>1, <1>2, <1>3, <2>1, FreeSocksClosed, EndedWent
<1>4. CASE ~c.cl.client_closed
  <2>1. Connected(c, due, 0)
    BY <1>1, <1>4 DEF Good, Unborn, Left
  <2>2. QED
    BY <1>1, <1>2, <2>1, FreeSocksOpen
<1>5. QED
  BY <1>3, <1>4

\* An event with the bytes it can be about.
Happening(e) ==
    /\ e.kind \in {"up", "error", "closed", "sent", "received"} /\ e.n \in Nat
    /\ e.kind \in {"sent", "received"} => e.n > 0

\* SocksEvent: whatever event comes, the client is well afterwards.
LEMMA EventGoes ==
  ASSUME NEW c \in Contexts, c.ok, NEW due \in Nat, Good(c, due, 0), DeadOk(c.cl), Shut(c.pcb),
         NEW e, Happening(e), Possible(c, e), NEW o
  PROVE  Went(SocksEvent(c, e, o), c, due)
<1>1. CASE e.kind = "up"
  BY <1>1, UpGoes DEF Possible, SocksEvent
<1>2. CASE e.kind \in {"error", "closed"}
  <2>1. c.sk.state \in {"connecting", "up"} \/ c.sk.recv
    BY Zenon, <1>2 DEF Possible
  <2>2. SocksEvent(c, e, o) = client_socks_handler_error(c, o)
    BY <1>2 DEF SocksEvent
  <2>3. QED
    BY <2>1, <2>2, ErrorGoes
<1>3. CASE e.kind = "sent"
  <2>1. e.n <= c.sk.send /\ e.n \in Nat /\ e.n > 0
    BY <1>3 DEF Possible, Happening
  <2>2. SocksEvent(c, e, o) = client_socks_send_handler_done([c EXCEPT !.sk.send = 0], e.n, o)
    BY <1>3 DEF SocksEvent
  <2>3. QED
    BY <2>1, <2>2, SendDoneGoes
<1>4. CASE e.kind = "received"
  <2>1. c.sk.recv /\ e.n <= bmin_int(RECV_BUF, c.sk.left) /\ e.n \in Nat /\ e.n > 0
    BY <1>4 DEF Possible, Happening
  <2>2. c.sk.left \in Int /\ RECV_BUF \in Int
    BY Sizes DEF Contexts, SocksClients
  <2>3. e.n \in 1..RECV_BUF /\ e.n <= c.sk.left
    BY <2>1, <2>2 DEF bmin_int
  <2>4. SocksEvent(c, e, o) =
          client_socks_recv_handler_done([c EXCEPT !.sk.recv = FALSE, !.sk.left = @ - e.n], e.n, o)
    BY <1>4 DEF SocksEvent
  <2>5. QED
    BY Zenon, <2>1, <2>3, <2>4, RecvDoneGoes
<1>5. QED
  BY <1>1, <1>2, <1>3, <1>4 DEF Happening

-----------------------------------------------------------------------------
(***************************************************************************)
(* SYNC_COMMIT and the dead variable.                                      *)
(***************************************************************************)
\* A call that changes nothing leaves everything well.
LEMMA Stays ==
  ASSUME NEW c \in Contexts, c.ok, NEW due, Good(c, due, 0), DeadOk(c.cl), Shut(c.pcb)
  PROVE  Went(c, c, due)
BY DEF Went, Frame, Grown

\* The events SYNC_COMMIT is to run are events.
Ready(o) == \A i \in {1, 2} : o.sync[i].kind # "none" => Happening(o.sync[i])

\* What the environment lets SYNC_COMMIT run are such events.
LEMMA OutcomesReady ==
  ASSUME NEW o \in Outcomes(Syncs)
  PROVE  Ready(o)
<1>3. ASSUME NEW e \in Events PROVE Happening(e)
  <2>1. CASE e \in [kind : {"sent"}, n : 1..TCP_WND]
    BY <2>1, Sizes DEF Happening
  <2>2. CASE e \in [kind : {"received"}, n : 1..RECV_BUF]
    BY <2>2, Sizes DEF Happening
  <2>3. CASE e \in [kind : {"error", "closed"}, n : {0}]
    BY <2>3 DEF Happening
  <2>4. QED
    BY <2>1, <2>2, <2>3 DEF Events
<1>4. o.sync \in Syncs
  BY DEF Outcomes
<1>5. \/ o.sync = <<Nothing, Nothing>>
      \/ \E e \in Events : o.sync = <<e, Nothing>>
      \/ \E d, e \in Events : o.sync = <<d, e>>
  BY <1>4 DEF Syncs, Quiet
<1>6. Nothing.kind = "none"
  BY DEF Nothing
<1> HIDE DEF Nothing
<1>7. CASE o.sync = <<Nothing, Nothing>>
  BY <1>6, <1>7 DEF Ready
<1>8. ASSUME NEW e \in Events, o.sync = <<e, Nothing>> PROVE Ready(o)
  BY <1>3, <1>6, <1>8 DEF Ready
<1>9. ASSUME NEW d \in Events, NEW e \in Events, o.sync = <<d, e>> PROVE Ready(o)
  BY <1>3, <1>9 DEF Ready
<1>10. QED
  BY <1>5, <1>7, <1>8, <1>9

\* SYNC_COMMIT: whatever events it runs, the client is well afterwards.
LEMMA SyncGoes ==
  ASSUME NEW c \in Contexts, c.ok, NEW due \in Nat, Good(c, due, 0), DeadOk(c.cl), Shut(c.pcb),
         NEW kinds, "none" \notin kinds, NEW o, Ready(o)
  PROVE  Went(SYNC_COMMIT(c, kinds, o), c, due)
<1>1. ASSUME NEW d \in Contexts, d.ok, Good(d, due, 0), DeadOk(d.cl), Shut(d.pcb),
             NEW i \in {1, 2}
      PROVE  Went(Synced(d, kinds, o.sync[i], o), d, due)
  <2>1. CASE o.sync[i].kind \in kinds /\ Possible(d, o.sync[i])
    <3>1. Happening(o.sync[i])
      BY <2>1 DEF Ready
    <3>2. Went(SocksEvent(d, o.sync[i], o), d, due)
      BY <1>1, <2>1, <3>1, EventGoes
    <3>3. QED
      BY <2>1, <3>2 DEF Synced
  <2>2. CASE ~(o.sync[i].kind \in kinds /\ Possible(d, o.sync[i]))
    BY <1>1, <2>2, Stays DEF Synced
  <2>3. QED
    BY <2>1, <2>2
<1> DEFINE a == Synced(c, kinds, o.sync[1], o)
           b == Synced(a, kinds, o.sync[2], o)
<1>2. Went(a, c, due)
  BY <1>1
<1> HIDE DEF a
<1>3. Went(b, a, due)
  <2>1. a \in Contexts /\ a.ok /\ Good(a, due, 0) /\ DeadOk(a.cl) /\ Shut(a.pcb)
    BY <1>2 DEF Went, Frame
  <2>2. QED
    BY <1>1, <2>1
<1> HIDE DEF b
<1>4. Went(b, c, due)
  BY <1>2, <1>3, WentAfter DEF Went
<1>5. QED
  BY <1>4 DEF SYNC_COMMIT, a, b

\* Between two callbacks of tcp_input.
Mid(c, due, acked) ==
    /\ c \in Contexts /\ c.ok /\ c.pcb.input /\ DeadOk(c.cl) /\ Good(c, due, acked)
    /\ c.stop <=> c.pcb.state = "FREED"

\* DEAD_ENTER: from here on the callback learns of an abort.
LEMMA EnterFields ==
  ASSUME NEW c \in Contexts, c.ok, c.pcb.input, c.pcb.state # "FREED", c.cl.mem = "live"
  PROVE  LET d == DEAD_ENTER(c)
         IN  /\ d \in Contexts /\ d.ok /\ Caught(d) /\ DeadOk(d.cl) /\ Shut(d.pcb)
             /\ d.pcb = c.pcb /\ d.sk = c.sk /\ d.stop = c.stop /\ d.got = c.got
             /\ d.cl = [c.cl EXCEPT !.dead = "live"]
<1> DEFINE l == [c.cl EXCEPT !.dead = "live"]
           b == [c EXCEPT !.cl = l]
           d == [b EXCEPT !.killed = 0]
<1>1. c.cl \in Clients
  BY DEF Contexts
<1>2. DEAD_ENTER(c) = d
  BY DEF DEAD_ENTER, Contexts
<1>3. l \in Clients /\ l.dead = "live" /\ l.mem = "live"
  BY <1>1 DEF Clients
<1> HIDE DEF l
<1>4. OnlyCl(b, c) /\ b.cl = l
  BY <1>3, ClSet
<1> HIDE DEF b
<1>5. d \in Contexts /\ d.ok /\ d.pcb = c.pcb /\ d.cl = l /\ d.sk = c.sk /\ d.killed = 0
      /\ d.stop = c.stop /\ d.got = c.got
  BY <1>4 DEF OnlyCl, Contexts
<1> HIDE DEF d
<1>6. Caught(d) /\ DeadOk(d.cl) /\ Shut(d.pcb)
  BY <1>3, <1>5 DEF Caught, DeadOk, Shut
<1>7. QED
  BY <1>2, <1>5, <1>6 DEF l

\* DEAD_LEAVE2 and what lwIP does with what the callback returned.
LEMMA LeaveGoes ==
  ASSUME NEW c, Caught(c), ~c.stop, NEW e, NEW due, Went(e, c, due)
  PROVE  LET d == AfterCallback(DEAD_LEAVE2(e))
         IN  Mid(d, due, 0) /\ d.got = c.got /\ Grown(d.pcb, c.pcb) /\ d.pcb = e.pcb
<1> DEFINE to == IF e.killed = 0 THEN "null" ELSE "dangling"
           l == [e.cl EXCEPT !.dead = to]
           m == IF e.cl.mem = "freed" THEN e.cl ELSE l
           f == [e EXCEPT !.cl = m]
           d == AfterCallback(f)
<1>1. e \in Contexts /\ e.ok /\ Caught(e) /\ DeadOk(e.cl) /\ Good(e, due, 0) /\ ~e.stop
      /\ e.got = c.got /\ Grown(e.pcb, c.pcb)
  BY DEF Went, Frame
<1>2. e.cl \in Clients /\ e.killed \in -1..1
  BY <1>1 DEF Contexts
<1>3. m \in Clients
  BY <1>2 DEF Clients
<1>4. DEAD_LEAVE2(e) = f
  <2>1. CASE e.cl.mem = "freed"
    <3>1. f = e
      BY <1>1, <2>1 DEF Contexts
    <3>2. QED
      BY <2>1, <3>1 DEF DEAD_LEAVE2
  <2>2. CASE e.cl.mem # "freed"
    BY <1>1, <2>2 DEF DEAD_LEAVE2, Contexts
  <2>3. QED
    BY <2>1, <2>2
<1>5. /\ m.mem = e.cl.mem /\ m.client_closed = e.cl.client_closed /\ m.aborted = e.cl.aborted
      /\ m.socks_closed = e.cl.socks_closed /\ m.socks_up = e.cl.socks_up
      /\ m.buf_used = e.cl.buf_used /\ m.recv_buf_used = e.cl.recv_buf_used
      /\ m.recv_buf_sent = e.cl.recv_buf_sent /\ m.recv_waiting = e.cl.recv_waiting
      /\ m.tcp_pending = e.cl.tcp_pending
      /\ m.dead = IF e.cl.mem = "freed" THEN e.cl.dead ELSE to
  BY <1>2 DEF Clients
<1> HIDE DEF m
<1>6. OnlyCl(f, e) /\ f.cl = m
  BY <1>1, <1>3, ClSet
<1> HIDE DEF f
<1>7. f \in Contexts /\ f.ok /\ f.pcb = e.pcb /\ f.sk = e.sk /\ f.killed = e.killed
      /\ f.stop = e.stop /\ f.got = e.got
  BY <1>6 DEF OnlyCl
<1>8. Good(f, due, 0)
  <2>1. CASE Unborn(e)
    BY Zenon, <1>5, <1>6, <1>7, <2>1 DEF Good, Unborn
  <2>2. CASE Connected(e, due, 0)
    <3>1. Attached(f.cl, f.pcb) /\ Paired(f.cl, f.sk)
      BY Zenon, <1>5, <1>6, <1>7, <2>2 DEF Connected, Attached, Paired
    <3>2. Credit(f.cl, f.pcb, due) /\ Outgoing(f.cl, f.pcb, 0) /\ Waiting(f.cl, f.sk)
      BY Zenon, <1>5, <1>6, <1>7, <2>2 DEF Connected, Credit, Outgoing, Waiting
    <3>3. QED
      BY <3>1, <3>2 DEF Good, Connected
  <2>3. CASE Left(e.cl, e.sk) /\ Detached(e.pcb)
    <3>1. Paired(e.cl, e.sk) => Paired(f.cl, f.sk)
      BY Zenon, <1>5, <1>6, <1>7 DEF Paired
    <3>2. QED
      BY Zenon, <1>5, <1>6, <1>7, <2>3, <3>1 DEF Good, Left
  <2>4. QED
    BY <1>1, <2>1, <2>2, <2>3 DEF Good
<1>9. DeadOk(f.cl)
  <2>1. CASE e.cl.mem = "freed"
    BY <1>1, <1>5, <1>6, <2>1 DEF DeadOk
  <2>2. CASE e.cl.mem # "freed" /\ e.killed = 0
    BY <1>5, <1>6, <2>2 DEF DeadOk
  <2>3. CASE e.cl.mem # "freed" /\ e.killed # 0
    <3>1. e.killed # -1
      BY <1>1, <2>3 DEF Caught
    <3>2. e.killed = 1
      BY <1>2, <2>3, <3>1
    <3>3. e.cl.aborted
      BY <1>1, <3>2 DEF Caught
    <3>4. QED
      BY Zenon, <1>5, <1>6, <3>3 DEF DeadOk
  <2>4. QED
    BY <2>1, <2>2, <2>3
<1>10. CASE e.killed > 0
  <2>1. e.killed = 1 /\ e.pcb.state = "FREED" /\ e.pcb.input
    <3>1. e.killed = 1
      BY <1>2, <1>10
    <3>2. QED
      BY <1>1, <3>1 DEF Caught
  <2>2. d = [f EXCEPT !.stop = TRUE]
    BY <1>7, <1>10 DEF AfterCallback, ERR_ABRT, Stop
  <2>3. d \in Contexts /\ d.ok /\ d.pcb = f.pcb /\ d.cl = f.cl /\ d.sk = f.sk /\ d.stop
        /\ d.got = f.got
    BY Zenon, <1>7, <2>2 DEF Contexts
  <2> HIDE DEF d
  <2>4. Good(d, due, 0)
    BY Zenon, <1>8, <2>3 DEF Good, Unborn, Connected
  <2>5. Mid(d, due, 0)
    BY <1>7, <1>9, <2>1, <2>3, <2>4 DEF Mid
  <2>6. QED
    BY <1>1, <1>4, <1>7, <2>3, <2>5 DEF d
<1>11. CASE ~(e.killed > 0)
  <2>1. e.killed # 1 /\ e.pcb.state # "FREED" /\ e.pcb.input
    <3>1. e.killed # 1
      BY <1>2, <1>11
    <3>2. QED
      BY <1>1, <3>1 DEF Caught
  <2>2. d = f
    <3>1. UsePcb(f) = f
      BY <1>7, <2>1, Used
    <3>2. QED
      BY <1>7, <1>11, <3>1 DEF AfterCallback, ERR_ABRT
  <2> HIDE DEF d
  <2>3. Mid(d, due, 0)
    BY <1>1, <1>7, <1>8, <1>9, <2>1, <2>2 DEF Mid
  <2>4. QED
    BY <1>1, <1>4, <1>7, <2>2, <2>3 DEF d
<1>12. QED
  BY <1>10, <1>11

-----------------------------------------------------------------------------
(***************************************************************************)
(* The callbacks lwIP calls.                                               *)
(***************************************************************************)
\* The dead variable is nothing the rest depends on.
LEMMA EnterGood ==
  ASSUME NEW c \in Contexts, NEW due, NEW acked, Connected(c, due, acked), NEW d,
         d.pcb = c.pcb, d.sk = c.sk, d.cl = [c.cl EXCEPT !.dead = "live"]
  PROVE  Connected(d, due, acked)
<1>1. c.cl \in Clients
  BY DEF Contexts
<1>2. /\ d.cl.mem = c.cl.mem /\ d.cl.client_closed = c.cl.client_closed
      /\ d.cl.aborted = c.cl.aborted
      /\ d.cl.socks_closed = c.cl.socks_closed /\ d.cl.socks_up = c.cl.socks_up
      /\ d.cl.buf_used = c.cl.buf_used /\ d.cl.recv_buf_used = c.cl.recv_buf_used
      /\ d.cl.recv_buf_sent = c.cl.recv_buf_sent /\ d.cl.recv_waiting = c.cl.recv_waiting
      /\ d.cl.tcp_pending = c.cl.tcp_pending
  BY <1>1 DEF Clients
<1>3. Attached(d.cl, d.pcb) /\ Paired(d.cl, d.sk)
  BY <1>2 DEF Connected, Attached, Paired
<1>4. Credit(d.cl, d.pcb, due) /\ Outgoing(d.cl, d.pcb, acked) /\ Waiting(d.cl, d.sk)
  BY <1>2 DEF Connected, Credit, Outgoing, Waiting
<1>5. QED
  BY <1>3, <1>4 DEF Connected

\* client_recv_data: n of the due bytes are taken into buf.
LEMMA RecvDataGoes ==
  ASSUME NEW c \in Contexts, c.ok, NEW due \in Nat, NEW n \in Nat, n > 0,
         Connected(c, due + n, 0), ~c.cl.socks_closed, DeadOk(c.cl), Shut(c.pcb), NEW o, Ready(o)
  PROVE  Went(client_recv_data(c, n, o), c, due)
<1> DEFINE l == [c.cl EXCEPT !.buf_used = @ + n]
           d == [c EXCEPT !.cl = l]
<1>1. c.cl \in Clients /\ c.sk \in SocksClients /\ c.pcb \in Pcbs
  BY DEF Contexts
<1>2. c.cl.mem = "live" /\ ~c.cl.client_closed /\ c.pcb.recv /\ Paired(c.cl, c.sk)
  BY Zenon DEF Connected, Attached
<1>3. /\ c.cl.buf_used + c.pcb.wnd + (due + n) = TCP_WND
      /\ c.cl.buf_used \in 0..TCP_WND /\ c.pcb.wnd \in 0..TCP_WND
  BY <1>1, <1>2 DEF Connected, Credit, Clients, Pcbs
<1>4. Require(c, n <= TCP_WND - c.cl.buf_used) = c
  <2>1. TRUE = (n <= TCP_WND - c.cl.buf_used)
    BY <1>3, Sizes
  <2>2. QED
    BY Zenon, <2>1, Kept
<1>5. l \in Clients
  <2>1. c.cl.buf_used + n \in 0..TCP_WND
    BY <1>3, Sizes
  <2>2. QED
    BY <1>1, <2>1 DEF Clients
<1>6. client_recv_data(c, n, o) =
        IF d.cl.buf_used = n /\ d.cl.socks_up
        THEN SYNC_COMMIT(client_send_to_socks(Require(d, ~d.cl.socks_closed)), {"sent", "error"}, o)
        ELSE d
  <2> DEFINE g == Require(c, n <= TCP_WND - c.cl.buf_used)
             h == [g EXCEPT !.cl.buf_used = @ + n]
  <2>1. client_recv_data(c, n, o) =
          IF h.cl.buf_used = n /\ h.cl.socks_up
          THEN SYNC_COMMIT(client_send_to_socks(Require(h, ~h.cl.socks_closed)), {"sent", "error"}, o)
          ELSE h
    BY DEF client_recv_data
  <2>2. g = c
    BY <1>4
  <2> HIDE DEF g
  <2>3. h = d
    BY <2>2 DEF Contexts
  <2> HIDE DEF h, d
  <2>4. QED
    BY <2>1, <2>3
<1>7. /\ l.mem = c.cl.mem /\ l.client_closed = c.cl.client_closed
      /\ l.aborted = c.cl.aborted /\ l.dead = c.cl.dead
      /\ l.socks_closed = c.cl.socks_closed /\ l.socks_up = c.cl.socks_up
      /\ l.buf_used = c.cl.buf_used + n /\ l.recv_buf_used = c.cl.recv_buf_used
      /\ l.recv_buf_sent = c.cl.recv_buf_sent /\ l.recv_waiting = c.cl.recv_waiting
      /\ l.tcp_pending = c.cl.tcp_pending
  BY <1>1 DEF Clients
<1> HIDE DEF l
<1>8. OnlyCl(d, c) /\ d.cl = l
  BY <1>5, ClSet
<1> HIDE DEF d
<1>9. d \in Contexts /\ d.ok /\ d.pcb = c.pcb /\ d.sk = c.sk /\ d.killed = c.killed
      /\ d.stop = c.stop /\ d.got = c.got
  BY <1>8 DEF OnlyCl
<1>10. Attached(d.cl, d.pcb) /\ Outgoing(d.cl, d.pcb, 0)
  BY Zenon, <1>7, <1>8, <1>9 DEF Connected, Attached, Outgoing
<1>11. Credit(d.cl, d.pcb, due)
  BY <1>3, <1>7, <1>8, <1>9, Sizes DEF Credit
<1>12. Waiting(d.cl, d.sk)
  BY Zenon, <1>7, <1>8, <1>9 DEF Connected, Waiting
<1>13. Frame(d, c)
  <2>1. Caught(c) => Caught(d)
    BY <1>7, <1>8, <1>9, CaughtKept
  <2>2. DeadOk(d.cl)
    BY <1>7, <1>8 DEF DeadOk
  <2>3. QED
    BY <1>9, <2>1, <2>2 DEF Frame, Grown
<1>14. CASE d.cl.buf_used = n /\ d.cl.socks_up
  <2> DEFINE f == client_send_to_socks(d)
  <2>1. Require(d, ~d.cl.socks_closed) = d
    <3>1. TRUE = ~d.cl.socks_closed
      BY <1>7, <1>8
    <3>2. QED
      BY Zenon, <1>9, <3>1, Kept
  <2>2. client_recv_data(c, n, o) = SYNC_COMMIT(f, {"sent", "error"}, o)
    BY <1>6, <1>14, <2>1
  <2>3. c.cl.buf_used = 0 /\ c.sk.send = 0
    <3>1. c.cl.buf_used = 0
      BY <1>3, <1>7, <1>8, <1>14
    <3>2. c.sk.send <= c.cl.buf_used
      BY <1>2, <1>7, <1>8, <1>14 DEF Paired
    <3>3. QED
      BY <1>1, <3>1, <3>2, Sizes DEF SocksClients
  <2>4. /\ OnlySk(f, d) /\ f.sk.state = d.sk.state /\ f.sk.send = d.cl.buf_used
        /\ f.sk.recv = d.sk.recv
    <3>1. d.cl.mem = "live" /\ ~d.cl.socks_closed /\ d.cl.buf_used > 0 /\ d.sk.send = 0
      BY <1>2, <1>7, <1>8, <1>9, <1>14, <2>3
    <3>2. QED
      BY <1>9, <1>14, <3>1, SendFields
  <2> HIDE DEF f
  <2>5. f \in Contexts /\ f.ok /\ f.cl = d.cl /\ f.pcb = d.pcb /\ f.killed = d.killed
        /\ f.stop = d.stop /\ f.got = d.got
    BY <2>4 DEF OnlySk
  <2>6. Paired(f.cl, f.sk)
    <3>1. f.sk.send <= f.cl.buf_used /\ f.sk.send # 0
      BY <1>14, <2>4, <2>5
    <3>2. f.sk.state = c.sk.state /\ f.sk.recv = c.sk.recv
      BY <1>9, <2>4
    <3>3. QED
      BY Zenon, <1>2, <1>7, <1>8, <1>14, <2>5, <3>1, <3>2 DEF Paired
  <2>7. Waiting(f.cl, f.sk)
    BY <1>12, <2>4, <2>5 DEF Waiting
  <2>8. Good(f, due, 0)
    BY <1>10, <1>11, <2>5, <2>6, <2>7 DEF Good, Connected
  <2>9. Frame(f, c)
    <3>1. Caught(d) => Caught(f)
      BY <2>5, CaughtKept
    <3>2. Frame(f, d)
      BY <1>13, <2>5, <3>1 DEF Frame, Grown
    <3>3. QED
      BY <1>13, <3>2, FrameAfter
  <2>10. Went(SYNC_COMMIT(f, {"sent", "error"}, o), f, due)
    <3>1. DeadOk(f.cl) /\ Shut(f.pcb)
      BY <2>9 DEF Frame
    <3>2. QED
      BY <2>5, <2>8, <3>1, SyncGoes
  <2>11. QED
    BY <2>2, <2>9, <2>10, WentAfter
<1>15. CASE ~(d.cl.buf_used = n /\ d.cl.socks_up)
  <2>1. Paired(d.cl, d.sk)
    <3>1. d.cl.socks_up => d.sk.send <= d.cl.buf_used /\ d.sk.send # 0
      <4>1. d.cl.socks_up => c.cl.buf_used # 0
        BY <1>3, <1>7, <1>8, <1>15
      <4>2. d.cl.socks_up => c.sk.send <= c.cl.buf_used /\ (c.sk.send = 0 => c.cl.buf_used = 0)
        BY <1>2, <1>7, <1>8 DEF Paired
      <4>3. c.sk.send \in 0..TCP_WND
        BY <1>1 DEF SocksClients
      <4>4. QED
        BY <1>3, <1>7, <1>8, <1>9, <4>1, <4>2, <4>3, Sizes
    <3>2. QED
      BY Zenon, <1>2, <1>7, <1>8, <1>9, <3>1 DEF Paired
  <2>2. client_recv_data(c, n, o) = d
    BY <1>6, <1>15
  <2>3. QED
    BY Zenon, <1>10, <1>11, <1>12, <1>13, <2>1, <2>2 DEF Went, Good, Connected
<1>16. QED
  BY <1>14, <1>15

\* client_recv_func, with data: what was due is in buf or on its way to SOCKS.
LEMMA RecvGoes ==
  ASSUME NEW c, NEW due \in Nat, NEW n \in Nat, n > 0, Mid(c, due + n, 0), ~c.stop, c.pcb.recv,
         NEW o, Ready(o)
  PROVE  LET d == AfterCallback(client_recv_func(c, n, o))
         IN  Mid(d, due, 0) /\ d.got = c.got
<1> DEFINE d == DEAD_ENTER(c)
<1>1. c \in Contexts /\ c.ok /\ c.pcb.input /\ DeadOk(c.cl) /\ Good(c, due + n, 0)
      /\ c.pcb.state # "FREED"
  BY DEF Mid
<1>2. Connected(c, due + n, 0)
  BY <1>1 DEF Good, Unborn, Off, Detached
<1>3. c.cl.mem = "live" /\ ~c.cl.client_closed /\ ~c.cl.socks_closed
  BY Zenon, <1>2 DEF Connected, Attached
<1>4. /\ d \in Contexts /\ d.ok /\ Caught(d) /\ DeadOk(d.cl) /\ Shut(d.pcb)
      /\ d.pcb = c.pcb /\ d.sk = c.sk /\ d.stop = c.stop /\ d.got = c.got
      /\ d.cl = [c.cl EXCEPT !.dead = "live"]
  BY <1>1, <1>3, EnterFields
<1>5. client_recv_func(c, n, o) = DEAD_LEAVE2(client_recv_data(d, n, o))
  <2>1. UseClient(c) = c
    BY <1>1, <1>3, Used
  <2>2. Require(c, ~c.cl.client_closed) = c
    BY <1>1, <1>3, Kept DEF Contexts, Clients
  <2>3. n # 0
    OBVIOUS
  <2>4. QED
    BY <2>1, <2>2, <2>3 DEF client_recv_func
<1> HIDE DEF d
<1>6. Connected(d, due + n, 0) /\ ~d.cl.socks_closed
  <2>1. Connected(d, due + n, 0)
    BY <1>1, <1>2, <1>4, EnterGood
  <2>2. c.cl \in Clients
    BY <1>1 DEF Contexts
  <2>3. QED
    BY <1>3, <1>4, <2>1, <2>2 DEF Clients
<1>7. Went(client_recv_data(d, n, o), d, due)
  BY Zenon, <1>4, <1>6, RecvDataGoes
<1>8. QED
  BY <1>4, <1>5, <1>7, LeaveGoes

\* client_recv_func at the end of the stream frees the app's side of the client.
LEMMA RecvEndGoes ==
  ASSUME NEW c, NEW due, Mid(c, due, 0), ~c.stop, c.pcb.recv, NEW o
  PROVE  LET d == AfterCallback(client_recv_func(c, 0, o))
         IN  Mid(d, 0, 0) /\ d.got = c.got
<1> DEFINE d == DEAD_ENTER(c)
<1>1. c \in Contexts /\ c.ok /\ c.pcb.input /\ DeadOk(c.cl) /\ Good(c, due, 0)
      /\ c.pcb.state # "FREED"
  BY DEF Mid
<1>2. Connected(c, due, 0)
  BY <1>1 DEF Good, Unborn, Off, Detached
<1>3. c.cl.mem = "live" /\ ~c.cl.client_closed /\ c.pcb.state \in Open /\ ~c.pcb.closed
  BY <1>2 DEF Connected, Attached
<1>4. /\ d \in Contexts /\ d.ok /\ Caught(d) /\ DeadOk(d.cl) /\ Shut(d.pcb)
      /\ d.pcb = c.pcb /\ d.sk = c.sk /\ d.stop = c.stop /\ d.got = c.got
      /\ d.cl = [c.cl EXCEPT !.dead = "live"]
  BY <1>1, <1>3, EnterFields
<1>5. client_recv_func(c, 0, o) = DEAD_LEAVE2(client_free_client(d, o))
  <2>1. UseClient(c) = c
    BY <1>1, <1>3, Used
  <2>2. Require(c, ~c.cl.client_closed) = c
    BY <1>1, <1>3, Kept DEF Contexts, Clients
  <2>3. QED
    BY <2>1, <2>2 DEF client_recv_func
<1> HIDE DEF d
<1>6. d.cl.mem = "live" /\ ~d.cl.client_closed /\ Paired(d.cl, d.sk)
  <2>1. Connected(d, due, 0)
    BY <1>1, <1>2, <1>4, EnterGood
  <2>2. QED
    BY <2>1 DEF Connected, Attached
<1>7. Ended(client_free_client(d, o), d)
  BY Zenon, <1>3, <1>4, <1>6, FreeClientEnds
<1>8. Went(client_free_client(d, o), d, 0)
  BY <1>7, EndedWent
<1>9. QED
  BY <1>4, <1>5, <1>8, LeaveGoes

\* client_sent_out, after what was waiting has been sent out.
LEMMA SentOutGoes ==
  ASSUME NEW c \in Contexts, ~c.sk.recv, NEW f, NEW due \in Nat, Ended(f, c) \/ SentOut(f, c, due),
         NEW o, Ready(o)
  PROVE  Went(client_sent_out(f, o), c, due)
<1>1. CASE Ended(f, c)
  <2>1. f.cl.client_closed
    BY <1>1 DEF Ended, Left
  <2>2. client_sent_out(f, o) = f
    BY <2>1 DEF client_sent_out
  <2>3. QED
    BY <1>1, <2>2, EndedWent
<1>2. CASE SentOut(f, c, due)
  <2>1. f \in Contexts /\ f.ok /\ ~f.cl.client_closed /\ ~f.sk.recv
    BY Zenon, <1>2 DEF SentOut, Attached, Frame
  <2>2. Require(f, f.cl.tcp_pending > 0) = f
    <3>1. TRUE = (f.cl.tcp_pending > 0)
      BY <1>2 DEF SentOut
    <3>2. QED
      BY Zenon, <2>1, <3>1, Kept
  <2>3. client_sent_out(f, o) =
          IF f.cl.recv_buf_used = -1 /\ ~f.cl.socks_closed
          THEN SYNC_COMMIT(client_socks_recv_initiate(f), {"received", "closed", "error"}, o)
          ELSE f
    BY <2>1, <2>2 DEF client_sent_out
  <2>4. CASE f.cl.recv_buf_used = -1 /\ ~f.cl.socks_closed
    <3> DEFINE g == client_socks_recv_initiate(f)
    <3>1. Went(g, c, due)
      BY <1>2, <2>1, <2>4, SentOutInitiate
    <3> HIDE DEF g
    <3>2. g \in Contexts /\ g.ok /\ Good(g, due, 0) /\ DeadOk(g.cl) /\ Shut(g.pcb)
      BY <3>1 DEF Went, Frame
    <3>3. Went(SYNC_COMMIT(g, {"received", "closed", "error"}, o), g, due)
      BY <3>2, SyncGoes
    <3>4. Went(SYNC_COMMIT(g, {"received", "closed", "error"}, o), c, due)
      BY <3>1, <3>3, WentAfter DEF Went
    <3>5. QED
      BY <2>3, <2>4, <3>4 DEF g
  <2>5. CASE ~(f.cl.recv_buf_used = -1 /\ ~f.cl.socks_closed)
    <3>1. Went(f, c, due)
      BY <1>2, <2>1, <2>5, SentOutStays
    <3>2. QED
      BY <2>3, <2>5, <3>1
  <2>6. QED
    BY <2>4, <2>5
<1>3. QED
  BY <1>1, <1>2

\* client_sent_more writes what was waiting for an acknowledgement, and receives
\* more once all is written.
LEMMA SentMoreGoes ==
  ASSUME NEW c \in Contexts, c.ok, NEW due \in Nat, Attached(c.cl, c.pcb), Paired(c.cl, c.sk),
         Credit(c.cl, c.pcb, due), Outgoing(c.cl, c.pcb, 0), DeadOk(c.cl), Shut(c.pcb),
         c.cl.socks_up, c.cl.recv_buf_used > 0, c.cl.recv_waiting,
         c.cl.recv_buf_sent < c.cl.recv_buf_used, NEW o, Ready(o)
  PROVE  Went(client_sent_more(c, o), c, due)
<1> DEFINE l == [c.cl EXCEPT !.recv_waiting = FALSE]
           d == [c EXCEPT !.cl = l]
           f == client_socks_recv_send_out(d, o)
<1>1. c.cl \in Clients
  BY DEF Contexts
<1>2. client_sent_more(c, o) = client_sent_out(f, o)
  <2> DEFINE g == Require(c, c.cl.recv_waiting /\ c.cl.recv_buf_sent < c.cl.recv_buf_used)
             h == [g EXCEPT !.cl.recv_waiting = FALSE]
  <2>1. client_sent_more(c, o) = client_sent_out(client_socks_recv_send_out(h, o), o)
    BY DEF client_sent_more
  <2>2. g = c
    <3>1. TRUE = (c.cl.recv_waiting /\ c.cl.recv_buf_sent < c.cl.recv_buf_used)
      OBVIOUS
    <3>2. QED
      BY Zenon, <3>1, Kept
  <2> HIDE DEF g
  <2>3. h = d
    BY <2>2 DEF Contexts
  <2> HIDE DEF h, d
  <2>4. QED
    BY <2>1, <2>3
<1>3. l \in Clients
  BY Zenon, <1>1 DEF Clients
<1>4. /\ l.mem = c.cl.mem /\ l.client_closed = c.cl.client_closed
      /\ l.aborted = c.cl.aborted /\ l.dead = c.cl.dead
      /\ l.socks_closed = c.cl.socks_closed /\ l.socks_up = c.cl.socks_up
      /\ l.buf_used = c.cl.buf_used /\ l.recv_buf_used = c.cl.recv_buf_used
      /\ l.recv_buf_sent = c.cl.recv_buf_sent /\ ~l.recv_waiting
      /\ l.tcp_pending = c.cl.tcp_pending
  BY Zenon, <1>1 DEF Clients
<1> HIDE DEF l
<1>5. OnlyCl(d, c) /\ d.cl = l
  BY <1>3, ClSet
<1> HIDE DEF d
<1>6. d \in Contexts /\ d.ok /\ d.pcb = c.pcb /\ d.sk = c.sk /\ d.killed = c.killed
      /\ d.stop = c.stop /\ d.got = c.got
  BY <1>5 DEF OnlyCl
<1>7. Attached(d.cl, d.pcb) /\ Paired(d.cl, d.sk)
  BY Zenon, <1>4, <1>5, <1>6 DEF Attached, Paired
<1>8. Credit(d.cl, d.pcb, due) /\ Outgoing(d.cl, d.pcb, 0) /\ DeadOk(d.cl)
  BY Zenon, <1>4, <1>5, <1>6 DEF Credit, Outgoing, DeadOk
<1>9. Sending(d, due)
  BY Zenon, <1>4, <1>5, <1>7, <1>8 DEF Sending
<1>10. Frame(d, c)
  <2>1. Caught(c) => Caught(d)
    BY Zenon, <1>4, <1>5, <1>6, CaughtKept
  <2>2. QED
    BY Zenon, <1>6, <1>8, <2>1 DEF Frame, Grown
<1>11. Ended(f, d) \/ SentOut(f, d, due)
  BY <1>6, <1>9, SendOutGoes
<1> HIDE DEF f
<1>12. ~d.sk.recv
  <2>1. d.cl.recv_buf_used # -1
    BY <1>4, <1>5
  <2>2. QED
    BY <1>7, <2>1 DEF Paired
<1>13. Went(client_sent_out(f, o), d, due)
  BY Zenon, <1>6, <1>11, <1>12, SentOutGoes
<1>14. QED
  BY Zenon, <1>2, <1>10, <1>13, WentAfter

\* client_sent_func: the acknowledged bytes are no longer pending, and the client
\* goes on or ends.
LEMMA SentGoes ==
  ASSUME NEW c, NEW due \in Nat, NEW n \in Nat, n > 0, Mid(c, due, n), ~c.stop, c.pcb.sent,
         NEW o, Ready(o)
  PROVE  LET d == AfterCallback(client_sent_func(c, n, o))
         IN  Mid(d, due, 0) /\ d.got = c.got
<1> DEFINE d == DEAD_ENTER(c)
           l == [d.cl EXCEPT !.tcp_pending = @ - n]
           e == [d EXCEPT !.cl = l]
           r == CASE e.cl.recv_buf_used > 0                          -> client_sent_more(e, o)
                  [] e.cl.recv_buf_used <= 0 /\ e.cl.socks_closed
                     /\ e.cl.tcp_pending = 0                         -> client_free_client(e, o)
                  [] OTHER                                           -> e
<1>1. c \in Contexts /\ c.ok /\ c.pcb.input /\ DeadOk(c.cl) /\ Good(c, due, n)
      /\ c.pcb.state # "FREED"
  BY DEF Mid
<1>2. Connected(c, due, n)
  BY <1>1 DEF Good, Unborn, Off, Detached
<1>3. c.cl.mem = "live" /\ ~c.cl.client_closed /\ c.cl.socks_up
  BY <1>2 DEF Connected, Attached
<1>4. /\ d \in Contexts /\ d.ok /\ Caught(d) /\ DeadOk(d.cl) /\ Shut(d.pcb)
      /\ d.pcb = c.pcb /\ d.sk = c.sk /\ d.stop = c.stop /\ d.got = c.got
      /\ d.cl = [c.cl EXCEPT !.dead = "live"]
  BY <1>1, <1>3, EnterFields
<1>5. c.cl.tcp_pending = c.pcb.unacked + n /\ c.pcb.unacked \in 0..TCP_SND_BUF
      /\ c.cl.tcp_pending \in 0..TCP_SND_BUF
  BY <1>1, <1>2 DEF Connected, Outgoing, Contexts, Pcbs, Clients
<1>6. client_sent_func(c, n, o) = DEAD_LEAVE2(r)
  <2> DEFINE g == Require(UseClient(c), /\ ~c.cl.client_closed /\ c.cl.socks_up
                                        /\ n > 0 /\ n <= c.cl.tcp_pending)
             h == [DEAD_ENTER(g) EXCEPT !.cl.tcp_pending = @ - n]
             q == CASE h.cl.recv_buf_used > 0                          -> client_sent_more(h, o)
                    [] h.cl.recv_buf_used <= 0 /\ h.cl.socks_closed
                       /\ h.cl.tcp_pending = 0                         -> client_free_client(h, o)
                    [] OTHER                                           -> h
  <2>1. client_sent_func(c, n, o) = DEAD_LEAVE2(q)
    BY Zenon DEF client_sent_func
  <2>2. g = c
    <3>1. UseClient(c) = c
      BY <1>1, <1>3, Used
    <3>2. TRUE = (/\ ~c.cl.client_closed /\ c.cl.socks_up /\ n > 0 /\ n <= c.cl.tcp_pending)
      BY <1>3, <1>5
    <3>3. QED
      BY Zenon, <1>1, <3>1, <3>2, Kept
  <2> HIDE DEF g
  <2>3. h = [d EXCEPT !.cl.tcp_pending = @ - n]
    BY <2>2
  <2> HIDE DEF d
  <2>4. h = e
    BY <1>4, <2>3 DEF Contexts
  <2> HIDE DEF h, e
  <2>5. q = r
    BY <2>4
  <2>6. QED
    BY <2>1, <2>5
<1> HIDE DEF d
<1>7. Connected(d, due, n)
  BY <1>1, <1>2, <1>4, EnterGood
<1>8. d.cl \in Clients /\ d.cl.tcp_pending = c.cl.tcp_pending /\ d.cl.socks_up
  <2>1. c.cl \in Clients
    BY <1>1 DEF Contexts
  <2>2. QED
    BY <1>3, <1>4, <2>1 DEF Contexts, Clients
<1>9. l \in Clients
  <2>1. d.cl.tcp_pending - n \in 0..TCP_SND_BUF
    BY <1>5, <1>8, Sizes
  <2>2. QED
    BY <1>8, <2>1 DEF Clients
<1>10. /\ l.mem = d.cl.mem /\ l.client_closed = d.cl.client_closed
       /\ l.aborted = d.cl.aborted /\ l.dead = d.cl.dead
       /\ l.socks_closed = d.cl.socks_closed /\ l.socks_up = d.cl.socks_up
       /\ l.buf_used = d.cl.buf_used /\ l.recv_buf_used = d.cl.recv_buf_used
       /\ l.recv_buf_sent = d.cl.recv_buf_sent /\ l.recv_waiting = d.cl.recv_waiting
       /\ l.tcp_pending = d.cl.tcp_pending - n
  BY Zenon, <1>8 DEF Clients
<1> HIDE DEF l
<1>11. OnlyCl(e, d) /\ e.cl = l
  BY <1>4, <1>9, ClSet
<1> HIDE DEF e
<1>12. e \in Contexts /\ e.ok /\ e.pcb = d.pcb /\ e.sk = d.sk /\ e.killed = d.killed
      /\ e.stop = d.stop /\ e.got = d.got
  BY <1>11 DEF OnlyCl
<1>13. Attached(e.cl, e.pcb) /\ Paired(e.cl, e.sk)
  BY Zenon, <1>7, <1>10, <1>11, <1>12 DEF Connected, Attached, Paired
<1>14. Credit(e.cl, e.pcb, due) /\ DeadOk(e.cl) /\ Shut(e.pcb) /\ e.cl.socks_up
  BY <1>4, <1>7, <1>8, <1>10, <1>11, <1>12 DEF Connected, Credit, DeadOk
<1>15. Outgoing(e.cl, e.pcb, 0)
  <2>1. e.cl.tcp_pending = e.pcb.unacked + 0
    BY <1>4, <1>5, <1>8, <1>10, <1>11, <1>12
  <2>2. QED
    BY <1>14, <2>1 DEF Outgoing
<1>16. Waiting(d.cl, d.sk)
  BY <1>7 DEF Connected
<1>17. Frame(e, d)
  <2>1. Caught(d) => Caught(e)
    BY <1>10, <1>11, <1>12, CaughtKept
  <2>2. QED
    BY <1>12, <1>14, <2>1 DEF Frame, Grown
<1>18. e.cl.recv_buf_used \in Int /\ e.cl.tcp_pending \in Nat
  BY <1>12 DEF Contexts, Clients
<1>19. Went(r, d, due)
  <2>1. CASE e.cl.recv_buf_used > 0
    <3>1. r = client_sent_more(e, o)
      <4>1. ~(e.cl.recv_buf_used <= 0)
        BY <1>18, <2>1
      <4>2. QED
        BY <2>1, <4>1
    <3>2. d.cl.recv_buf_used # -1
      BY <1>10, <1>11, <2>1
    <3>3. e.cl.recv_waiting /\ e.cl.recv_buf_sent < e.cl.recv_buf_used
      BY <1>10, <1>11, <1>16, <3>2 DEF Waiting
    <3>4. Went(client_sent_more(e, o), e, due)
      BY Zenon, <1>12, <1>13, <1>14, <1>15, <2>1, <3>3, SentMoreGoes
    <3> HIDE DEF r
    <3>5. QED
      BY <1>4, <1>17, <3>1, <3>4, WentAfter
  <2>2. CASE /\ ~(e.cl.recv_buf_used > 0) /\ e.cl.socks_closed /\ e.cl.tcp_pending = 0
    <3>1. r = client_free_client(e, o)
      <4>1. e.cl.recv_buf_used <= 0
        BY <1>18, <2>2
      <4>2. QED
        BY <2>2, <4>1
    <3>2. e.cl.mem = "live" /\ ~e.cl.client_closed /\ e.pcb.state \in Open /\ ~e.pcb.closed
      BY <1>13 DEF Attached
    <3>3. Ended(client_free_client(e, o), e)
      BY Zenon, <1>12, <1>13, <1>14, <3>2, FreeClientEnds
    <3> HIDE DEF r
    <3>4. QED
      BY <1>4, <1>17, <3>1, <3>3, EndedAfter, EndedWent
  <2>3. CASE /\ ~(e.cl.recv_buf_used > 0) /\ ~(e.cl.socks_closed /\ e.cl.tcp_pending = 0)
    <3>1. r = e
      BY <2>3
    <3>2. d.cl.recv_buf_used # -1 => d.cl.recv_buf_used > 0
      BY <1>16 DEF Waiting
    <3>3. e.cl.recv_buf_used = -1
      BY <1>10, <1>11, <2>3, <3>2
    <3>4. e.cl.socks_closed => e.cl.tcp_pending > 0
      BY <1>18, <2>3
    <3>5. e.cl.socks_up /\ ~e.cl.socks_closed => e.sk.recv
      BY <1>10, <1>11, <1>12, <1>16, <3>3 DEF Waiting
    <3>6. Waiting(e.cl, e.sk)
      BY <3>3, <3>4, <3>5 DEF Waiting
    <3>7. Good(e, due, 0)
      BY <1>13, <1>14, <1>15, <3>6 DEF Good, Connected
    <3> HIDE DEF r
    <3>8. QED
      BY <1>17, <3>1, <3>7 DEF Went
  <2>4. QED
    BY <2>1, <2>2, <2>3
<1> HIDE DEF r
<1>20. QED
  BY <1>4, <1>6, <1>19, LeaveGoes

-----------------------------------------------------------------------------
(***************************************************************************)
(* tcp_input.                                                              *)
(***************************************************************************)
\* tcp_free of a pcb nobody listens to, and the end of tcp_input's work on it.
LEMMA FreeStops ==
  ASSUME NEW c, NEW due, NEW acked, Mid(c, due, acked), ~c.stop, NEW any, NEW some,
         Left(c.cl, c.sk) \/ Unborn(c)
  PROVE  LET d == Stop(tcp_free(c))
         IN  Mid(d, any, some) /\ d.got = c.got /\ d.stop
<1> DEFINE f == tcp_free(c)
           d == Stop(f)
<1>1. c \in Contexts /\ c.ok /\ c.pcb.input /\ DeadOk(c.cl) /\ c.pcb.state # "FREED"
      /\ c.pcb \in Pcbs
  BY DEF Mid, Contexts
<1>2. OnlyPcb(f, c) /\ f.pcb = [c.pcb EXCEPT !.state = "FREED", !.unacked = 0, !.fin = FALSE]
  BY Zenon, <1>1, FreeFields
<1> HIDE DEF f
<1>3. f.pcb.state = "FREED" /\ f.pcb.input = c.pcb.input /\ f.pcb.err = c.pcb.err
      /\ f.pcb.recv = c.pcb.recv /\ f.pcb.sent = c.pcb.sent
  BY Zenon, <1>1, <1>2 DEF Pcbs
<1>4. d \in Contexts /\ d.ok /\ d.pcb = f.pcb /\ d.cl = c.cl /\ d.sk = c.sk /\ d.stop
      /\ d.got = c.got
  BY Zenon, <1>2 DEF OnlyPcb, Stop, Contexts
<1> HIDE DEF d
<1>5. Good(d, any, some)
  <2>1. CASE Left(c.cl, c.sk)
    BY <1>3, <1>4, <2>1 DEF Good, Detached
  <2>2. CASE Unborn(c)
    BY Zenon, <1>3, <1>4, <2>2 DEF Good, Unborn, Off
  <2>3. QED
    BY <2>1, <2>2
<1>6. QED
  BY Zenon, <1>1, <1>3, <1>4, <1>5 DEF Mid, d, f

\* Only a connected client has callbacks set.
LEMMA CallbackConnected ==
  ASSUME NEW c, NEW due, NEW acked, Good(c, due, acked), c.pcb.state # "FREED",
         c.pcb.err \/ c.pcb.recv \/ c.pcb.sent
  PROVE  Connected(c, due, acked)
BY DEF Good, Unborn, Detached, Off

\* A close that waits for the callback to return.
LEMMA DelayedCloseGoes ==
  ASSUME NEW c, NEW due, Mid(c, due, 0)
  PROVE  LET d == tcp_input_delayed_close(c)
         IN  Mid(d, due, 0) /\ d.got = c.got /\ (d.stop \/ ~d.pcb.closed)
<1> DEFINE d == tcp_input_delayed_close(c)
<1>1. c \in Contexts /\ c.ok /\ Good(c, due, 0) /\ c.stop \in BOOLEAN
      /\ (c.stop <=> c.pcb.state = "FREED")
  BY DEF Mid, Contexts
<1>2. CASE c.stop
  BY <1>2 DEF tcp_input_delayed_close
<1>3. CASE ~c.stop /\ ~c.pcb.closed
  <2>1. UsePcb(c) = c
    BY <1>1, <1>3, Used
  <2>2. QED
    BY <1>3, <2>1 DEF tcp_input_delayed_close
<1>4. CASE ~c.stop /\ c.pcb.closed
  <2>1. Left(c.cl, c.sk) /\ Off(c.pcb)
    BY Zenon, <1>1, <1>4 DEF Good, Unborn, Connected, Attached, Detached
  <2>2. TCP_EVENT_ERR(c) = c
    BY <2>1 DEF TCP_EVENT_ERR, Off
  <2>3. tcp_input_delayed_close(c) = Stop(tcp_free(c))
    BY <1>4, <2>2 DEF tcp_input_delayed_close
  <2>4. QED
    <3>1. Mid(Stop(tcp_free(c)), due, 0) /\ Stop(tcp_free(c)).got = c.got /\ Stop(tcp_free(c)).stop
      BY <1>4, <2>1, FreeStops
    <3>2. QED
      BY <2>3, <3>1
<1>5. QED
  BY <1>2, <1>3, <1>4

\* TCP_EVENT_SENT reports the acknowledged bytes, if the client asked for it.
LEMMA EventSentGoes ==
  ASSUME NEW c, NEW due \in Nat, NEW n \in Nat, Mid(c, due, n), ~c.stop, NEW o, Ready(o)
  PROVE  LET d == TCP_EVENT_SENT(c, n, o) IN Mid(d, due, 0) /\ d.got = c.got
<1>1. CASE n > 0 /\ c.pcb.sent
  BY <1>1, SentGoes DEF TCP_EVENT_SENT
<1>2. CASE ~(n > 0 /\ c.pcb.sent)
  <2>1. TCP_EVENT_SENT(c, n, o) = c
    BY <1>2 DEF TCP_EVENT_SENT
  <2>2. Good(c, due, 0)
    <3>1. CASE n = 0
      BY <3>1 DEF Mid
    <3>2. CASE n > 0
      <4>1. ~Connected(c, due, n)
        <5> SUFFICES ASSUME Connected(c, due, n) PROVE FALSE
          OBVIOUS
        <5>1. ~c.pcb.sent
          BY <1>2, <3>2
        <5>2. ~c.cl.socks_up
          BY <5>1 DEF Connected, Attached
        <5>3. c.cl.tcp_pending = c.pcb.unacked + n /\ c.cl.tcp_pending = 0
          BY <5>2 DEF Connected, Outgoing
        <5>4. c.pcb.unacked \in 0..TCP_SND_BUF
          BY DEF Mid, Contexts, Pcbs
        <5>5. QED
          BY <3>2, <5>3, <5>4, Sizes
      <4>2. QED
        BY <4>1 DEF Mid, Good
    <3>3. QED
      BY <3>1, <3>2
  <2>3. QED
    BY <2>1, <2>2 DEF Mid
<1>3. QED
  BY <1>1, <1>2

\* Whatever it gets of the window back, a pcb nobody takes data from is as
\* good as before.
LEMMA WindowUnused ==
  ASSUME NEW c, NEW due, Mid(c, due, 0), ~c.pcb.recv, NEW w \in 0..TCP_WND,
         c.pcb.wnd <= w, NEW any
  PROVE  LET d == [c EXCEPT !.pcb.wnd = w]
         IN  Mid(d, any, 0) /\ d.got = c.got /\ d.stop = c.stop
<1> DEFINE p == [c.pcb EXCEPT !.wnd = w]
           d == [c EXCEPT !.pcb = p]
<1>1. c \in Contexts /\ c.ok /\ c.pcb.input /\ DeadOk(c.cl) /\ Good(c, due, 0)
      /\ c.pcb \in Pcbs
  BY DEF Mid, Contexts
<1>2. [c EXCEPT !.pcb.wnd = w] = d
  BY <1>1 DEF Contexts
<1>3. p \in Pcbs
  BY <1>1 DEF Pcbs
<1>4. /\ p.state = c.pcb.state /\ p.rxclosed = c.pcb.rxclosed
      /\ p.closed = c.pcb.closed /\ p.closepend = c.pcb.closepend
      /\ p.input = c.pcb.input /\ p.err = c.pcb.err /\ p.recv = c.pcb.recv
      /\ p.sent = c.pcb.sent /\ p.wnd = w /\ p.unacked = c.pcb.unacked
  BY Zenon, <1>1 DEF Pcbs
<1> HIDE DEF p
<1>5. OnlyPcb(d, c) /\ d.pcb = p
  BY <1>1, <1>3, PcbSet
<1> HIDE DEF d
<1>6. d \in Contexts /\ d.ok /\ d.cl = c.cl /\ d.sk = c.sk /\ d.stop = c.stop /\ d.got = c.got
  BY <1>5 DEF OnlyPcb
<1>7. Good(d, any, 0)
  <2>1. CASE Unborn(c)
    <3>1. c.pcb.wnd = TCP_WND => w = TCP_WND
      BY Sizes
    <3>2. QED
      BY Zenon, <1>4, <1>5, <1>6, <2>1, <3>1 DEF Good, Unborn, Off
  <2>2. CASE Connected(c, due, 0)
    <3>1. Attached(d.cl, d.pcb) /\ Outgoing(d.cl, d.pcb, 0)
      BY Zenon, <1>4, <1>5, <1>6, <2>2 DEF Connected, Attached, Outgoing
    <3>2. Credit(d.cl, d.pcb, any)
      BY <1>4, <1>5 DEF Credit
    <3>3. QED
      BY Zenon, <1>6, <2>2, <3>1, <3>2 DEF Connected, Good
  <2>3. CASE Left(c.cl, c.sk) /\ Detached(c.pcb)
    BY Zenon, <1>4, <1>5, <1>6, <2>3 DEF Good, Detached, Off
  <2>4. QED
    BY <1>1, <2>1, <2>2, <2>3 DEF Good
<1>8. QED
  <2>1. Mid(d, any, 0)
    <3>1. d.pcb.input /\ (d.stop <=> d.pcb.state = "FREED")
      BY Zenon, <1>4, <1>5, <1>6 DEF Mid
    <3>2. QED
      BY <1>1, <1>6, <1>7, <3>1 DEF Mid
  <2>2. QED
    BY <1>2, <1>6, <2>1

\* TCP_EVENT_RECV gives the data to the client, or back to the window, or aborts
\* a pcb that takes no more.
LEMMA EventRecvGoes ==
  ASSUME NEW c, NEW due \in Nat, NEW n \in Nat, c.got.len = n, Mid(c, due + n, 0),
         NEW o, Ready(o)
  PROVE  LET d == TCP_EVENT_RECV(c, o) IN Mid(d, due, 0) /\ d.got = c.got
<1>1. c \in Contexts /\ c.ok /\ c.pcb.input /\ DeadOk(c.cl) /\ Good(c, due + n, 0)
      /\ c.pcb \in Pcbs /\ (c.stop <=> c.pcb.state = "FREED")
  BY DEF Mid, Contexts
<1>2. CASE c.stop
  <2>1. TCP_EVENT_RECV(c, o) = c
    BY <1>2 DEF TCP_EVENT_RECV
  <2>2. Good(c, due, 0)
    <3>1. c.pcb.state = "FREED" /\ "FREED" \notin Open
      BY <1>1, <1>2, StateNames
    <3>2. QED
      BY Zenon, <1>1, <3>1 DEF Good, Connected, Attached
  <2>3. QED
    BY <1>1, <2>1, <2>2 DEF Mid
<1>3. CASE ~c.stop /\ n = 0
  <2>1. TCP_EVENT_RECV(c, o) = c
    BY <1>3 DEF TCP_EVENT_RECV
  <2>2. due + n = due
    BY <1>3
  <2>3. QED
    BY <2>1, <2>2
<1>4. CASE ~c.stop /\ n # 0 /\ c.pcb.rxclosed
  <2>1. Left(c.cl, c.sk) /\ Off(c.pcb)
    BY Zenon, <1>1, <1>4 DEF Good, Unborn, Connected, Attached, Detached
  <2>2. tcp_abort(c) = tcp_free(c)
    <3>1. OnlyPcb(tcp_free(c), c)
          /\ tcp_free(c).pcb = [c.pcb EXCEPT !.state = "FREED", !.unacked = 0, !.fin = FALSE]
      BY Zenon, <1>1, <1>4, FreeFields
    <3>2. ~tcp_free(c).pcb.err
      BY <1>1, <2>1, <3>1 DEF Pcbs, Off
    <3>3. QED
      BY <3>2 DEF tcp_abort, TCP_EVENT_ERR
  <2>3. TCP_EVENT_RECV(c, o) = Stop(tcp_free(c))
    BY <1>4, <2>2 DEF TCP_EVENT_RECV
  <2>4. QED
    <3>1. Mid(Stop(tcp_free(c)), due, 0) /\ Stop(tcp_free(c)).got = c.got /\ Stop(tcp_free(c)).stop
      BY <1>4, <2>1, FreeStops
    <3>2. QED
      BY <2>3, <3>1
<1>5. CASE ~c.stop /\ n # 0 /\ ~c.pcb.rxclosed /\ c.pcb.recv
  <2>1. TCP_EVENT_RECV(c, o) = AfterCallback(client_recv_func(c, n, o))
    BY <1>5 DEF TCP_EVENT_RECV
  <2>2. n > 0
    BY <1>5
  <2> DEFINE d == AfterCallback(client_recv_func(c, n, o))
  <2>3. Mid(d, due, 0) /\ d.got = c.got
    BY <1>5, <2>2, RecvGoes
  <2> HIDE DEF d
  <2>4. TCP_EVENT_RECV(c, o) = d
    BY <2>1 DEF d
  <2>5. QED
    BY <2>3, <2>4
<1>6. CASE ~c.stop /\ n # 0 /\ ~c.pcb.rxclosed /\ ~c.pcb.recv
  <2> DEFINE w == bmin_int(c.pcb.wnd + n, TCP_WND)
  <2>1. w \in 0..TCP_WND /\ c.pcb.wnd <= w
    <3>1. c.pcb.wnd \in 0..TCP_WND /\ TCP_WND \in Int /\ c.pcb.wnd + n \in Int
      BY <1>1, Sizes DEF Pcbs
    <3>2. w = IF c.pcb.wnd + n <= TCP_WND THEN c.pcb.wnd + n ELSE TCP_WND
      BY <3>1 DEF bmin_int
    <3> HIDE DEF w
    <3>3. QED
      BY <3>1, <3>2
  <2>2. TCP_EVENT_RECV(c, o) = tcp_recved(c, n)
    BY <1>6 DEF TCP_EVENT_RECV
  <2>3. tcp_recved(c, n) = [c EXCEPT !.pcb.wnd = w]
    <3>1. UsePcb(c) = c
      BY <1>1, <1>6, Used
    <3>2. QED
      BY <3>1 DEF tcp_recved
  <2> HIDE DEF w
  <2>4. Mid([c EXCEPT !.pcb.wnd = w], due, 0) /\ [c EXCEPT !.pcb.wnd = w].got = c.got
    BY <1>6, <2>1, WindowUnused
  <2>5. QED
    BY <2>2, <2>3, <2>4
<1>7. QED
  BY <1>2, <1>3, <1>4, <1>5, <1>6

\* TCP_EVENT_CLOSED gives the FIN's place in the window back and reports it.
LEMMA EventClosedGoes ==
  ASSUME NEW c, Mid(c, IF c.got.fin THEN 1 ELSE 0, 0), NEW o
  PROVE  Mid(TCP_EVENT_CLOSED(c, o), 0, 0)
<1> DEFINE due == IF c.got.fin THEN 1 ELSE 0
           w == bmin_int(c.pcb.wnd + 1, TCP_WND)
           d == [c EXCEPT !.pcb.wnd = w]
<1>1. c \in Contexts /\ c.ok /\ c.pcb.input /\ DeadOk(c.cl) /\ Good(c, due, 0)
      /\ c.pcb \in Pcbs /\ (c.stop <=> c.pcb.state = "FREED")
  BY DEF Mid, Contexts
<1>2. w \in 0..TCP_WND /\ c.pcb.wnd <= w
  <2>1. c.pcb.wnd \in 0..TCP_WND /\ TCP_WND \in Int /\ c.pcb.wnd + 1 \in Int
    BY <1>1, Sizes DEF Pcbs
  <2>2. w = IF c.pcb.wnd + 1 <= TCP_WND THEN c.pcb.wnd + 1 ELSE TCP_WND
    BY <2>1 DEF bmin_int
  <2> HIDE DEF w
  <2>3. QED
    BY <2>1, <2>2
<1>3. TCP_EVENT_CLOSED(c, o) = IF c.stop \/ ~c.got.fin THEN c
                               ELSE IF c.pcb.recv THEN AfterCallback(client_recv_func(d, 0, o)) ELSE d
  BY DEF TCP_EVENT_CLOSED
<1>4. CASE c.stop
  <2>1. Good(c, 0, 0)
    <3>1. c.pcb.state = "FREED" /\ "FREED" \notin Open
      BY <1>1, <1>4, StateNames
    <3>2. QED
      BY Zenon, <1>1, <3>1 DEF Good, Connected, Attached
  <2>2. QED
    BY <1>1, <1>3, <1>4, <2>1 DEF Mid
<1>5. CASE ~c.got.fin
  BY <1>3, <1>5
<1>6. CASE ~c.stop /\ c.got.fin /\ c.pcb.recv
  <2> DEFINE p == [c.pcb EXCEPT !.wnd = w]
             e == [c EXCEPT !.pcb = p]
  <2>1. d = e
    BY <1>1 DEF Contexts
  <2> HIDE DEF w
  <2>2. p \in Pcbs /\ p.state = c.pcb.state /\ p.rxclosed = c.pcb.rxclosed
        /\ p.closed = c.pcb.closed /\ p.closepend = c.pcb.closepend
        /\ p.input = c.pcb.input /\ p.err = c.pcb.err /\ p.recv = c.pcb.recv
        /\ p.sent = c.pcb.sent /\ p.unacked = c.pcb.unacked /\ p.wnd = w
    BY Zenon, <1>1, <1>2 DEF Pcbs
  <2> HIDE DEF p
  <2>3. OnlyPcb(e, c) /\ e.pcb = p
    BY <1>1, <2>2, PcbSet
  <2> HIDE DEF e, d
  <2>4. e \in Contexts /\ e.ok /\ e.cl = c.cl /\ e.sk = c.sk /\ e.stop = c.stop /\ e.got = c.got
    BY <2>3 DEF OnlyPcb
  <2>5. Connected(c, due, 0)
    BY <1>1, <1>6, CallbackConnected
  <2>6. Connected(e, 0, 0)
    <3>1. Attached(e.cl, e.pcb) /\ Outgoing(e.cl, e.pcb, 0)
      BY Zenon, <2>2, <2>3, <2>4, <2>5 DEF Connected, Attached, Outgoing
    <3>2. c.cl.buf_used + c.pcb.wnd + 1 = TCP_WND
      BY <1>6, <2>5 DEF Connected, Credit
    <3>3. w = c.pcb.wnd + 1
      <4>1. c.pcb.wnd \in 0..TCP_WND /\ c.cl.buf_used \in 0..TCP_WND
        BY <1>1 DEF Contexts, Pcbs, Clients
      <4>2. c.pcb.wnd + 1 <= TCP_WND /\ c.pcb.wnd + 1 \in Int /\ TCP_WND \in Int
        BY <3>2, <4>1, Sizes
      <4>3. QED
        BY <4>2 DEF w, bmin_int
    <3>4. c.pcb.wnd \in Nat /\ c.cl.buf_used \in Nat
      BY <1>1 DEF Contexts, Pcbs, Clients
    <3>5. Credit(e.cl, e.pcb, 0)
      BY <2>2, <2>3, <2>4, <3>2, <3>3, <3>4 DEF Credit
    <3>6. QED
      BY <2>4, <2>5, <3>1, <3>5 DEF Connected
  <2>7. Mid(e, 0, 0)
    BY Zenon, <1>1, <2>2, <2>3, <2>4, <2>6 DEF Mid, Good
  <2>8. Mid(AfterCallback(client_recv_func(e, 0, o)), 0, 0)
    BY Zenon, <1>6, <2>2, <2>3, <2>4, <2>7, RecvEndGoes
  <2>9. QED
    BY <1>3, <1>6, <2>1, <2>8
<1>7. CASE ~c.stop /\ c.got.fin /\ ~c.pcb.recv
  <2> HIDE DEF w
  <2>1. Mid(d, 0, 0)
    BY <1>2, <1>7, WindowUnused
  <2>2. QED
    BY <1>3, <1>7, <2>1
<1>8. QED
  BY <1>4, <1>5, <1>6, <1>7

\* What tcp_input leaves behind.
Done(c) ==
    /\ c \in Contexts /\ c.ok /\ Good(c, 0, 0) /\ DeadOk(c.cl) /\ ~c.pcb.input /\ Shut(c.pcb)

\* Whether tcp_input is running says nothing about the client.
LEMMA InputSet ==
  ASSUME NEW c \in Contexts, c.ok, NEW due, NEW acked, Good(c, due, acked), NEW b \in BOOLEAN
  PROVE  LET d == [c EXCEPT !.pcb.input = b]
         IN  /\ OnlyPcb(d, c) /\ d.pcb.input = b /\ Good(d, due, acked)
             /\ d.pcb.state = c.pcb.state /\ d.pcb.closed = c.pcb.closed
             /\ d.pcb.err = c.pcb.err /\ d.pcb.wnd = c.pcb.wnd /\ d.pcb.unacked = c.pcb.unacked
<1> DEFINE p == [c.pcb EXCEPT !.input = b]
           d == [c EXCEPT !.pcb = p]
<1>1. c.pcb \in Pcbs
  BY DEF Contexts
<1>2. [c EXCEPT !.pcb.input = b] = d
  BY <1>1 DEF Contexts
<1>3. /\ p \in Pcbs /\ p.state = c.pcb.state /\ p.rxclosed = c.pcb.rxclosed
      /\ p.closed = c.pcb.closed /\ p.closepend = c.pcb.closepend
      /\ p.input = b /\ p.err = c.pcb.err /\ p.recv = c.pcb.recv
      /\ p.sent = c.pcb.sent /\ p.unacked = c.pcb.unacked /\ p.wnd = c.pcb.wnd
  BY <1>1 DEF Pcbs
<1> HIDE DEF p
<1>4. OnlyPcb(d, c) /\ d.pcb = p
  BY <1>3, PcbSet
<1> HIDE DEF d
<1>5. d.cl = c.cl /\ d.sk = c.sk
  BY <1>4 DEF OnlyPcb
<1>6. Good(d, due, acked)
  <2>1. CASE Unborn(c)
    BY Zenon, <1>3, <1>4, <1>5, <2>1 DEF Good, Unborn, Off
  <2>2. CASE Connected(c, due, acked)
    <3>1. Attached(d.cl, d.pcb) /\ Outgoing(d.cl, d.pcb, acked) /\ Credit(d.cl, d.pcb, due)
      BY Zenon, <1>3, <1>4, <1>5, <2>2 DEF Connected, Attached, Outgoing, Credit
    <3>2. QED
      BY <1>5, <2>2, <3>1 DEF Connected, Good
  <2>3. CASE Left(c.cl, c.sk) /\ Detached(c.pcb)
    BY Zenon, <1>3, <1>4, <1>5, <2>3 DEF Good, Detached, Off
  <2>4. QED
    BY <2>1, <2>2, <2>3 DEF Good
<1>7. QED
  BY Zenon, <1>2, <1>3, <1>4, <1>6

\* tcp_input has no more to do with the pcb.
LEMMA AbortedDone ==
  ASSUME NEW c \in Contexts, c.ok, DeadOk(c.cl), Good(c, 0, 0),
         c.pcb.state = "FREED" \/ ~c.pcb.closed
  PROVE  Done(Aborted(c))
<1> DEFINE d == [c EXCEPT !.pcb.input = FALSE]
<1>1. /\ OnlyPcb(d, c) /\ d.pcb.input = FALSE /\ Good(d, 0, 0)
      /\ d.pcb.state = c.pcb.state /\ d.pcb.closed = c.pcb.closed
  BY Zenon, InputSet
<1>2. Aborted(c) = d
  BY DEF Aborted
<1> HIDE DEF d
<1>3. QED
  BY <1>1, <1>2 DEF Done, OnlyPcb, Shut

\* tcp_input after tcp_process: the callbacks, in their order, leave everything
\* well.
LEMMA CallbacksDone ==
  ASSUME NEW c, NEW s, s.ack \in Nat, c.got \in Gots,
         Mid(c, (IF c.got.fin THEN 1 ELSE 0) + c.got.len, s.ack), ~c.stop, NEW o, Ready(o)
  PROVE  Done(Callbacks(c, s, o))
<1> DEFINE fin == IF c.got.fin THEN 1 ELSE 0
           due == fin + c.got.len
           e == TCP_EVENT_SENT(c, s.ack, o)
           f == tcp_input_delayed_close(e)
           g == TCP_EVENT_RECV(f, o)
           h == TCP_EVENT_CLOSED(g, o)
           i == tcp_input_delayed_close(h)
<1>1. fin \in Nat /\ c.got.len \in Nat /\ due \in Nat
  BY DEF Gots
<1>2. Mid(e, due, 0) /\ e.got = c.got
  <2> HIDE DEF due, fin
  <2>1. Mid(c, due, s.ack)
    BY DEF due, fin
  <2>2. QED
    BY <1>1, <2>1, EventSentGoes
<1> HIDE DEF e
<1>3. Mid(f, due, 0) /\ f.got = c.got
  <2> HIDE DEF due
  <2>1. QED
    BY <1>2, DelayedCloseGoes
<1> HIDE DEF f
<1>4. Mid(g, fin, 0) /\ g.got = c.got
  <2> DEFINE n == f.got.len
  <2>1. n \in Nat /\ n = f.got.len /\ Mid(f, fin + n, 0)
    BY <1>1, <1>3
  <2> HIDE DEF fin, n
  <2>2. Mid(TCP_EVENT_RECV(f, o), fin, 0) /\ TCP_EVENT_RECV(f, o).got = f.got
    BY Zenon, <1>1, <2>1, EventRecvGoes
  <2>3. QED
    BY <1>3, <2>2
<1> HIDE DEF g
<1>5. Mid(h, 0, 0)
  <2>1. Mid(g, IF g.got.fin THEN 1 ELSE 0, 0)
    BY <1>4
  <2>2. QED
    BY <2>1, EventClosedGoes
<1> HIDE DEF h
<1>6. Mid(i, 0, 0) /\ (i.stop \/ ~i.pcb.closed)
  BY <1>5, DelayedCloseGoes
<1> HIDE DEF i
<1>7. Done(Aborted(i))
  BY <1>6, AbortedDone DEF Mid
<1>8. QED
  BY <1>7 DEF Callbacks, e, f, g, h, i

\* A segment that fits the pcb.
Fits(s, p) ==
    /\ s.len \in Nat /\ s.ack \in Nat /\ s.fin \in BOOLEAN /\ s.finack \in BOOLEAN
    /\ s.len + (IF s.fin THEN 1 ELSE 0) <= p.wnd /\ s.ack <= p.unacked

\* tcp_receive takes from the window what it leaves for the application, and what
\* is acknowledged off the queue.
LEMMA ReceiveFields ==
  ASSUME NEW c \in Contexts, c.ok, NEW s, Fits(s, c.pcb)
  PROVE  LET d == tcp_receive(c, s)
             due == (IF d.got.fin THEN 1 ELSE 0) + d.got.len
         IN  /\ d \in Contexts /\ d.ok /\ d.cl = c.cl /\ d.sk = c.sk /\ d.stop = c.stop
             /\ d.pcb.state = c.pcb.state /\ d.pcb.rxclosed = c.pcb.rxclosed
             /\ d.pcb.closed = c.pcb.closed /\ d.pcb.closepend = c.pcb.closepend
             /\ d.pcb.input = c.pcb.input /\ d.pcb.err = c.pcb.err /\ d.pcb.recv = c.pcb.recv
             /\ d.pcb.sent = c.pcb.sent
             /\ d.pcb.unacked + s.ack = c.pcb.unacked /\ d.pcb.wnd + due = c.pcb.wnd
<1> DEFINE p == [c.pcb EXCEPT !.unacked = @ - s.ack, !.fin = @ /\ ~s.finack]
           a == [c EXCEPT !.pcb = p]
           takes == c.pcb.state \notin {"CLOSE_WAIT", "CLOSING", "LAST_ACK"}
           got == [len |-> IF takes THEN s.len ELSE 0, fin |-> takes /\ s.fin]
           due == (IF got.fin THEN 1 ELSE 0) + got.len
           w == p.wnd - got.len - (IF got.fin THEN 1 ELSE 0)
           q == [p EXCEPT !.wnd = w]
           b == [a EXCEPT !.pcb = q]
           d == [b EXCEPT !.got = got]
<1>1. c.pcb \in Pcbs /\ c.pcb.wnd \in 0..TCP_WND /\ c.pcb.unacked \in 0..TCP_SND_BUF
  BY DEF Contexts, Pcbs
<1>2. p \in Pcbs
  <2>1. c.pcb.unacked - s.ack \in 0..TCP_SND_BUF
    BY <1>1, Sizes DEF Fits
  <2>2. (c.pcb.fin /\ ~s.finack) \in BOOLEAN
    OBVIOUS
  <2>3. QED
    BY Zenon, <1>1, <2>1, <2>2 DEF Pcbs
<1>3. /\ p.state = c.pcb.state /\ p.rxclosed = c.pcb.rxclosed
      /\ p.closed = c.pcb.closed /\ p.closepend = c.pcb.closepend
      /\ p.input = c.pcb.input /\ p.err = c.pcb.err /\ p.recv = c.pcb.recv
      /\ p.sent = c.pcb.sent /\ p.wnd = c.pcb.wnd /\ p.unacked = c.pcb.unacked - s.ack
  BY <1>1 DEF Pcbs
<1>4. tcp_receive_ack(c, s) = a
  BY Zenon, <1>1 DEF tcp_receive_ack, Contexts, Pcbs
<1> HIDE DEF p
<1>5. OnlyPcb(a, c) /\ a.pcb = p
  BY <1>2, PcbSet
<1> HIDE DEF a
<1>6. a \in Contexts /\ a.ok /\ a.cl = c.cl /\ a.sk = c.sk /\ a.stop = c.stop
  BY <1>5 DEF OnlyPcb
<1>7. tcp_receive(c, s) = [a EXCEPT !.pcb.wnd = @ - got.len - (IF got.fin THEN 1 ELSE 0), !.got = got]
  BY Zenon, <1>3, <1>4, <1>5 DEF tcp_receive, tcp_receive_data
<1>8. tcp_receive(c, s) = d
  BY <1>5, <1>6, <1>7 DEF Contexts
<1>9. got \in Gots /\ w \in 0..TCP_WND /\ w + due = c.pcb.wnd
  <2>1. s.len \in 0..TCP_WND /\ s.fin \in BOOLEAN /\ s.len + (IF s.fin THEN 1 ELSE 0) <= c.pcb.wnd
    BY <1>1, Sizes DEF Fits
  <2>2. CASE takes
    <3>1. got.len = s.len /\ got.fin = s.fin
      BY <2>1, <2>2
    <3>2. got \in Gots
      BY <2>1, <2>2 DEF Gots
    <3> HIDE DEF got
    <3>3. QED
      BY <1>1, <1>3, <2>1, <3>1, <3>2, Sizes
  <2>3. CASE ~takes
    <3>1. got.len = 0 /\ ~got.fin
      BY Zenon, <2>3
    <3>2. got \in Gots
      BY <2>3, Sizes DEF Gots
    <3> HIDE DEF got
    <3>3. QED
      BY <1>1, <1>3, <3>1, <3>2, Sizes
  <2>4. QED
    BY Zenon, <2>2, <2>3
<1> HIDE DEF got
<1>10. /\ q \in Pcbs /\ q.state = p.state /\ q.rxclosed = p.rxclosed
       /\ q.closed = p.closed /\ q.closepend = p.closepend
       /\ q.input = p.input /\ q.err = p.err /\ q.recv = p.recv
       /\ q.sent = p.sent /\ q.wnd = w /\ q.unacked = p.unacked
  <2> HIDE DEF w
  <2>1. QED
    BY <1>2, <1>9 DEF Pcbs
<1> HIDE DEF q
<1>11. OnlyPcb(b, a) /\ b.pcb = q
  BY <1>6, <1>10, PcbSet
<1> HIDE DEF b
<1>12. d \in Contexts /\ d.ok /\ d.pcb = q /\ d.cl = c.cl /\ d.sk = c.sk /\ d.stop = c.stop
       /\ d.got = got
  BY <1>6, <1>9, <1>11 DEF OnlyPcb, Contexts
<1> HIDE DEF d
<1>13. d.pcb.unacked + s.ack = c.pcb.unacked /\ d.pcb.wnd + due = c.pcb.wnd
  <2>1. s.ack \in Nat
    BY DEF Fits
  <2> HIDE DEF w, due
  <2>2. QED
    BY <1>1, <1>3, <1>9, <1>10, <1>12, <2>1
<1>14. QED
  BY Zenon, <1>3, <1>8, <1>10, <1>12, <1>13

\* What tcp_process leaves for the callbacks.
Due(c) == (IF c.got.fin THEN 1 ELSE 0) + c.got.len

\* The pcb d.pcb has taken the segment s and is in the state it leads to.
Taken(d, c, s) ==
    /\ d \in Contexts /\ d.ok /\ d.cl = c.cl /\ d.sk = c.sk /\ d.stop = c.stop
    /\ d.pcb.input = c.pcb.input /\ d.pcb.err = c.pcb.err /\ d.pcb.recv = c.pcb.recv
    /\ d.pcb.sent = c.pcb.sent
    /\ d.pcb.state \notin {"FREED", "SYN_RCVD"}
    /\ c.pcb.state \in Open =>
          /\ d.pcb.state \in Open
          /\ d.pcb.rxclosed = c.pcb.rxclosed /\ d.pcb.closed = c.pcb.closed
          /\ d.pcb.closepend = c.pcb.closepend
          /\ d.pcb.unacked + s.ack = c.pcb.unacked /\ d.pcb.wnd + Due(d) = c.pcb.wnd

\* tcp_process: an open pcb stays open, and no pcb is freed.
LEMMA ProcessTakes ==
  ASSUME NEW c \in Contexts, c.ok, c.pcb.state \in Open \cup Closing, NEW s, Fits(s, c.pcb)
  PROVE  Taken(tcp_process(c, s), c, s)
<1> DEFINE d == tcp_receive(c, s)
           e == tcp_process(c, s)
<1> SUFFICES Taken(e, c, s)
  OBVIOUS
<1>1. /\ d \in Contexts /\ d.ok /\ d.cl = c.cl /\ d.sk = c.sk /\ d.stop = c.stop
      /\ d.pcb.state = c.pcb.state /\ d.pcb.rxclosed = c.pcb.rxclosed
      /\ d.pcb.closed = c.pcb.closed /\ d.pcb.closepend = c.pcb.closepend
      /\ d.pcb.input = c.pcb.input /\ d.pcb.err = c.pcb.err /\ d.pcb.recv = c.pcb.recv
      /\ d.pcb.sent = c.pcb.sent
      /\ d.pcb.unacked + s.ack = c.pcb.unacked /\ d.pcb.wnd + Due(d) = c.pcb.wnd
  BY Zenon, ReceiveFields DEF Due
<1> DEFINE To(state) == [d EXCEPT !.pcb.state = state]
           Purged == [d EXCEPT !.pcb.state = "TIME_WAIT", !.pcb.unacked = 0, !.pcb.fin = FALSE]
           Last == [d EXCEPT !.pcb.closed = TRUE]
<1>2. /\ c.pcb.state \in Open => e \in {d, To("CLOSE_WAIT")}
      /\ c.pcb.state \in Closing =>
            e \in {d, Purged, To("CLOSING"), To("FIN_WAIT_2"), Last}
  <2> HIDE DEF d
  <2>1. e = CASE c.pcb.state \in Open /\ d.got.fin         -> To("CLOSE_WAIT")
          [] c.pcb.state = "FIN_WAIT_1" /\ d.got.fin   ->
                IF AllAcked(d) THEN Purged ELSE To("CLOSING")
          [] c.pcb.state = "FIN_WAIT_1" /\ ~d.got.fin  ->
                IF AllAcked(d) THEN To("FIN_WAIT_2") ELSE d
          [] c.pcb.state = "FIN_WAIT_2" /\ d.got.fin   -> Purged
          [] c.pcb.state = "CLOSING" /\ AllAcked(d)    -> Purged
          [] c.pcb.state = "LAST_ACK" /\ AllAcked(d)   -> Last
          [] OTHER                                     -> d
    BY DEF tcp_process, d
  <2> HIDE DEF To, Purged, Last, e
  <2>2. CASE c.pcb.state \in Open
    BY <2>1, <2>2 DEF Open, Closing
  <2>3. CASE c.pcb.state \in Closing
    BY <2>1, <2>3 DEF Open, Closing
  <2>4. QED
    BY <2>2, <2>3
<1> HIDE DEF d, e
<1>3. /\ d.pcb \in Pcbs /\ d.pcb.closed \in BOOLEAN /\ d.pcb.fin \in BOOLEAN
      /\ d.pcb.unacked \in 0..TCP_SND_BUF /\ 0 \in 0..TCP_SND_BUF
      /\ d.pcb.state \in PcbStates
  BY <1>1, Sizes DEF Contexts, Pcbs
<1>4. d.pcb.state \notin {"FREED", "SYN_RCVD"}
  BY <1>1 DEF Open, Closing
<1>5. CASE e = d
  BY <1>1, <1>4, <1>5 DEF Taken
<1>6. ASSUME NEW t \in {"CLOSE_WAIT", "CLOSING", "FIN_WAIT_2"}, e = To(t),
             c.pcb.state \in Open => t = "CLOSE_WAIT"
      PROVE  Taken(e, c, s)
  <2> DEFINE p == [d.pcb EXCEPT !.state = t]
  <2>1. e = [d EXCEPT !.pcb = p]
    BY <1>1, <1>3, <1>6 DEF Contexts, Pcbs
  <2>2. t \in PcbStates /\ t \notin {"FREED", "SYN_RCVD"}
    BY StateNames
  <2>3. /\ p \in Pcbs /\ p.state = t /\ p.rxclosed = d.pcb.rxclosed
        /\ p.closed = d.pcb.closed /\ p.closepend = d.pcb.closepend
        /\ p.input = d.pcb.input /\ p.err = d.pcb.err /\ p.recv = d.pcb.recv
        /\ p.sent = d.pcb.sent /\ p.unacked = d.pcb.unacked /\ p.wnd = d.pcb.wnd
    BY <1>3, <2>2 DEF Pcbs
  <2> HIDE DEF p
  <2>4. OnlyPcb(e, d) /\ e.pcb = p
    BY <1>1, <2>1, <2>3, PcbSet
  <2>5. Due(e) = Due(d)
    BY <2>4 DEF Due, OnlyPcb
  <2>6. c.pcb.state \in Open => t \in Open
    BY <1>6 DEF Open
  <2>7. QED
    BY Zenon, <1>1, <2>2, <2>3, <2>4, <2>5, <2>6 DEF Taken, OnlyPcb
<1>7. ASSUME c.pcb.state \in Closing, NEW p \in Pcbs, p.state \notin {"FREED", "SYN_RCVD"},
             p.input = d.pcb.input, p.err = d.pcb.err, p.recv = d.pcb.recv,
             p.sent = d.pcb.sent, e = [d EXCEPT !.pcb = p]
      PROVE  Taken(e, c, s)
  <2>1. OnlyPcb(e, d) /\ e.pcb = p
    BY <1>1, <1>7, PcbSet
  <2>2. c.pcb.state \notin Open
    BY <1>7 DEF Open, Closing
  <2>3. QED
    BY <1>1, <1>7, <2>1, <2>2 DEF Taken, OnlyPcb
<1>8. CASE e = Purged /\ c.pcb.state \in Closing
  <2> DEFINE p == [d.pcb EXCEPT !.state = "TIME_WAIT", !.unacked = 0, !.fin = FALSE]
  <2>1. e = [d EXCEPT !.pcb = p]
    BY Zenon, <1>1, <1>3, <1>8 DEF Contexts, Pcbs
  <2>2. "TIME_WAIT" \in PcbStates
    BY StateNames
  <2>3. /\ p \in Pcbs /\ p.state \notin {"FREED", "SYN_RCVD"} /\ p.input = d.pcb.input
        /\ p.err = d.pcb.err /\ p.recv = d.pcb.recv /\ p.sent = d.pcb.sent
    BY Zenon, <1>3, <2>2 DEF Pcbs
  <2> HIDE DEF p
  <2>4. QED
    BY Zenon, <1>7, <1>8, <2>1, <2>3
<1>9. CASE e = Last /\ c.pcb.state \in Closing
  <2> DEFINE p == [d.pcb EXCEPT !.closed = TRUE]
  <2>1. e = [d EXCEPT !.pcb = p]
    BY <1>1, <1>3, <1>9 DEF Contexts, Pcbs
  <2>2. /\ p \in Pcbs /\ p.state = d.pcb.state /\ p.input = d.pcb.input
        /\ p.err = d.pcb.err /\ p.recv = d.pcb.recv /\ p.sent = d.pcb.sent
    BY Zenon, <1>3 DEF Pcbs
  <2> HIDE DEF p
  <2>3. QED
    BY Zenon, <1>4, <1>7, <1>9, <2>1, <2>2
<1>10. CASE c.pcb.state \in Open
  BY <1>2, <1>5, <1>6, <1>10
<1>11. CASE c.pcb.state \in Closing
  <2>1. c.pcb.state \notin Open
    BY <1>11 DEF Open, Closing
  <2>2. QED
    BY <1>2, <1>5, <1>6, <1>8, <1>9, <1>11, <2>1
<1>12. QED
  BY <1>10, <1>11

\* The callbacks find the client as they expect it.
LEMMA TakenMid ==
  ASSUME NEW c, Mid(c, 0, 0), ~c.stop, c.pcb.state # "SYN_RCVD", NEW s, s.ack \in Nat, NEW d,
         Taken(d, c, s)
  PROVE  d.got \in Gots /\ Mid(d, Due(d), s.ack) /\ ~d.stop
<1>1. c \in Contexts /\ c.pcb.input /\ DeadOk(c.cl) /\ Good(c, 0, 0) /\ c.pcb.state # "FREED"
  BY DEF Mid
<1>2. d \in Contexts /\ d.ok /\ d.pcb.input /\ ~d.stop /\ d.pcb.state # "FREED" /\ DeadOk(d.cl)
  BY <1>1 DEF Taken
<1>3. /\ d.got \in Gots /\ d.pcb.unacked \in Nat /\ c.pcb.unacked \in Nat
      /\ d.pcb.wnd \in Nat /\ c.pcb.wnd \in Nat /\ c.cl.buf_used \in Nat /\ Due(d) \in Nat
      /\ c.cl.tcp_pending \in Nat
  BY <1>1, <1>2, Sizes DEF Contexts, Pcbs, Clients, Gots, Due
<1>4. Good(d, Due(d), s.ack)
  <2>1. ~Unborn(c)
    BY Zenon, <1>1 DEF Unborn
  <2>2. CASE Connected(c, 0, 0)
    <3>1. /\ c.pcb.state \in Open /\ d.pcb.state \in Open
          /\ d.pcb.rxclosed = c.pcb.rxclosed /\ d.pcb.closed = c.pcb.closed
          /\ d.pcb.closepend = c.pcb.closepend
          /\ d.pcb.unacked + s.ack = c.pcb.unacked /\ d.pcb.wnd + Due(d) = c.pcb.wnd
          /\ d.pcb.err = c.pcb.err /\ d.pcb.recv = c.pcb.recv /\ d.pcb.sent = c.pcb.sent
          /\ d.cl = c.cl /\ d.sk = c.sk
      BY Zenon, <2>2 DEF Connected, Attached, Taken
    <3>2. Attached(d.cl, d.pcb)
      BY Zenon, <2>2, <3>1 DEF Connected, Attached
    <3>3. Outgoing(d.cl, d.pcb, s.ack)
      <4>1. c.cl.tcp_pending = c.pcb.unacked + 0 /\ (~c.cl.socks_up => c.cl.tcp_pending = 0 /\ c.cl.recv_buf_used = -1)
        BY <2>2 DEF Connected, Outgoing
      <4>2. d.cl.tcp_pending = d.pcb.unacked + s.ack
        BY <1>3, <3>1, <4>1
      <4>3. QED
        BY <3>1, <4>1, <4>2 DEF Outgoing
    <3>4. Credit(d.cl, d.pcb, Due(d))
      <4>1. c.pcb.recv => c.cl.buf_used + c.pcb.wnd + 0 = TCP_WND
        BY <2>2 DEF Connected, Credit
      <4>2. c.pcb.recv => d.cl.buf_used + d.pcb.wnd + Due(d) = TCP_WND
        BY <1>3, <3>1, <4>1, Sizes
      <4>3. QED
        BY <3>1, <4>2 DEF Credit
    <3>5. QED
      BY Zenon, <2>2, <3>1, <3>2, <3>3, <3>4 DEF Connected, Good
  <2>3. CASE Left(c.cl, c.sk) /\ Detached(c.pcb)
    <3>1. Off(c.pcb)
      BY <1>1, <2>3 DEF Detached
    <3>2. QED
      BY <2>3, <3>1 DEF Taken, Off, Detached, Good
  <2>4. QED
    BY Zenon, <1>1, <2>1, <2>2, <2>3 DEF Good
<1>5. QED
  BY <1>2, <1>3, <1>4 DEF Mid

\* client_err_func: its ASSERT holds, and the client goes on without the app or is
\* freed.
LEMMA ErrEnds ==
  ASSUME NEW c \in Contexts, c.ok, c.cl.mem = "live", ~c.cl.client_closed, DeadOk(c.cl),
         Paired(c.cl, c.sk)
  PROVE  LET d == client_err_func(c)
         IN  /\ d \in Contexts /\ d.ok /\ d.pcb = c.pcb /\ Left(d.cl, d.sk) /\ DeadOk(d.cl)
             /\ d.stop = c.stop /\ d.got = c.got
<1>1. UseClient(c) = c /\ Require(c, ~c.cl.client_closed) = c
  <2>1. c.cl.client_closed \in BOOLEAN
    BY DEF Contexts, Clients
  <2>2. QED
    BY Zenon, <2>1, Used, Kept
<1>2. client_err_func(c) = client_handle_freed_client(c)
  BY <1>1 DEF client_err_func
<1>3. QED
  BY <1>2, HandleFreed DEF DeadOk

\* tcp_free, once the client does not count on the pcb.
LEMMA FreeGood ==
  ASSUME NEW c \in Contexts, c.ok, DeadOk(c.cl), c.pcb.state # "FREED",
         \/ Left(c.cl, c.sk)
         \/ c.cl.mem = "none" /\ c.sk.state = "none" /\ Idle(c.sk) /\ Off(c.pcb)
  PROVE  LET d == tcp_free(c)
         IN  /\ d \in Contexts /\ d.ok /\ DeadOk(d.cl) /\ Good(d, 0, 0)
             /\ d.pcb.state = "FREED" /\ d.pcb.err = c.pcb.err /\ d.pcb.input = c.pcb.input
<1> DEFINE d == tcp_free(c)
           p == [c.pcb EXCEPT !.state = "FREED", !.unacked = 0, !.fin = FALSE]
<1>1. OnlyPcb(d, c) /\ d.pcb = p
  BY Zenon, FreeFields
<1>2. /\ p.state = "FREED" /\ p.err = c.pcb.err /\ p.recv = c.pcb.recv /\ p.sent = c.pcb.sent
      /\ p.input = c.pcb.input
  BY DEF Contexts, Pcbs
<1> HIDE DEF d, p
<1>3. Good(d, 0, 0)
  BY <1>1, <1>2 DEF Good, Unborn, Detached, Off, OnlyPcb
<1>4. QED
  BY <1>1, <1>2, <1>3 DEF OnlyPcb, d

\* tcp_input: a segment that fits leaves everything well.
LEMMA InputDone ==
  ASSUME NEW c \in Contexts, c.ok, ~c.stop, Good(c, 0, 0), DeadOk(c.cl),
         c.pcb.state \in {"SYN_RCVD"} \cup Open \cup Closing, NEW s, Fits(s, c.pcb),
         c.pcb.state = "SYN_RCVD" => s.rst, NEW o, Ready(o)
  PROVE  Done(tcp_input(c, s, o))
<1> DEFINE d == [c EXCEPT !.pcb.input = TRUE]
<1>1. /\ OnlyPcb(d, c) /\ d.pcb.input = TRUE /\ Good(d, 0, 0)
      /\ d.pcb.state = c.pcb.state /\ d.pcb.err = c.pcb.err
      /\ d.pcb.wnd = c.pcb.wnd /\ d.pcb.unacked = c.pcb.unacked
  BY Zenon, InputSet
<1>2. tcp_input(c, s, o) = IF s.rst THEN Aborted(tcp_free(TCP_EVENT_ERR(d)))
                           ELSE Callbacks(tcp_process(d, s), s, o)
  BY DEF tcp_input
<1> HIDE DEF d
<1>3. d \in Contexts /\ d.ok /\ ~d.stop /\ DeadOk(d.cl) /\ d.pcb.state # "FREED"
  BY <1>1 DEF OnlyPcb, Open, Closing
<1>4. CASE s.rst
  <2> DEFINE e == TCP_EVENT_ERR(d)
  <2>1. /\ e \in Contexts /\ e.ok /\ DeadOk(e.cl) /\ e.pcb.state # "FREED"
        /\ \/ Left(e.cl, e.sk)
           \/ e.cl.mem = "none" /\ e.sk.state = "none" /\ Idle(e.sk) /\ Off(e.pcb)
    <3>1. CASE d.pcb.err
      <4>1. Connected(d, 0, 0)
        BY <1>1, <1>3, <3>1, CallbackConnected
      <4>2. d.cl.mem = "live" /\ ~d.cl.client_closed /\ Paired(d.cl, d.sk)
        BY <4>1 DEF Connected, Attached
      <4>3. e = client_err_func(d)
        BY <3>1 DEF TCP_EVENT_ERR
      <4>4. QED
        BY Zenon, <1>3, <4>2, <4>3, ErrEnds
    <3>2. CASE ~d.pcb.err
      <4>1. e = d
        BY <3>2 DEF TCP_EVENT_ERR
      <4>2. ~Connected(d, 0, 0)
        BY <3>2 DEF Connected, Attached
      <4>3. QED
        BY Zenon, <1>1, <1>3, <4>1, <4>2 DEF Good, Unborn
    <3>3. QED
      BY Zenon, <3>1, <3>2
  <2> HIDE DEF e
  <2>2. /\ tcp_free(e) \in Contexts /\ tcp_free(e).ok /\ DeadOk(tcp_free(e).cl)
        /\ Good(tcp_free(e), 0, 0) /\ tcp_free(e).pcb.state = "FREED"
    BY Zenon, <2>1, FreeGood
  <2>3. Done(Aborted(tcp_free(e)))
    BY <2>2, AbortedDone
  <2>4. QED
    BY <1>2, <1>4, <2>3 DEF e
<1>5. CASE ~s.rst
  <2> DEFINE e == tcp_process(d, s)
  <2>1. d.pcb.state \in Open \cup Closing /\ d.pcb.state # "SYN_RCVD"
    BY <1>1, <1>5 DEF Open, Closing
  <2>2. Fits(s, d.pcb)
    BY <1>1 DEF Fits
  <2>3. Taken(e, d, s)
    BY <1>3, <2>1, <2>2, ProcessTakes
  <2>4. Mid(d, 0, 0) /\ s.ack \in Nat
    BY <1>1, <1>3 DEF Mid, Fits
  <2> HIDE DEF e
  <2>5. e.got \in Gots /\ Mid(e, Due(e), s.ack) /\ ~e.stop
    BY <1>3, <2>1, <2>3, <2>4, TakenMid
  <2>6. Done(Callbacks(e, s, o))
    BY Zenon, <2>4, <2>5, CallbacksDone DEF Due
  <2>7. QED
    BY Zenon, <1>2, <1>5, <2>6 DEF e
<1>6. QED
  BY <1>4, <1>5

-----------------------------------------------------------------------------
(***************************************************************************)
(* The handshake.                                                          *)
(***************************************************************************)
\* What there is before the client.
Nobody(c) == c.cl.mem = "none" /\ c.sk.state = "none" /\ Idle(c.sk) /\ Off(c.pcb)

\* A pcb the handshake has just made ESTABLISHED.
Fresh(c) ==
    /\ c \in Contexts /\ c.ok /\ ~c.stop /\ DeadOk(c.cl) /\ Nobody(c)
    /\ c.pcb.input /\ c.pcb.state = "ESTABLISHED" /\ c.pcb.wnd = TCP_WND /\ c.pcb.unacked = 0
    /\ ~c.pcb.closed /\ ~c.pcb.closepend /\ ~c.pcb.rxclosed

\* The client listener_accept_func makes is connected.
LEMMA NewConnected ==
  ASSUME NEW c, Fresh(c)
  PROVE  LET d == [c EXCEPT !.cl = NewClient, !.sk.state = "connecting",
                            !.pcb.err = TRUE, !.pcb.recv = TRUE]
         IN  /\ d \in Contexts /\ d.ok /\ ~d.stop /\ Connected(d, 0, 0)
             /\ d.pcb.input /\ d.pcb.state = "ESTABLISHED" /\ d.cl.mem = "live"
             /\ d.pcb.wnd = TCP_WND
<1> DEFINE p == [c.pcb EXCEPT !.err = TRUE, !.recv = TRUE]
           t == [c.sk EXCEPT !.state = "connecting"]
           d == [c EXCEPT !.cl = NewClient, !.sk = t, !.pcb = p]
<1>1. c \in Contexts /\ c.pcb \in Pcbs /\ c.sk \in SocksClients /\ c.ok /\ ~c.stop
  BY DEF Fresh, Contexts
<1>2. [c EXCEPT !.cl = NewClient, !.sk.state = "connecting",
                !.pcb.err = TRUE, !.pcb.recv = TRUE] = d
  BY Zenon, <1>1 DEF Contexts, Pcbs, SocksClients
<1>3. NewClient \in Clients
  <2>1. 0 \in 0..TCP_WND /\ -1 \in -1..RECV_BUF /\ 0 \in 0..RECV_BUF /\ 0 \in 0..TCP_SND_BUF
    BY Sizes
  <2>2. QED
    BY <2>1 DEF NewClient, Clients
<1>4. /\ p \in Pcbs /\ p.state = "ESTABLISHED" /\ ~p.rxclosed /\ ~p.closed /\ ~p.closepend
      /\ p.input /\ p.err = TRUE /\ p.recv = TRUE /\ p.sent = FALSE
      /\ p.wnd = TCP_WND /\ p.unacked = 0
  <2>1. c.pcb.sent = FALSE
    BY <1>1 DEF Fresh, Nobody, Off, Pcbs
  <2>2. QED
    BY Zenon, <1>1, <2>1 DEF Fresh, Pcbs
<1>5. t \in SocksClients /\ t.state = "connecting" /\ t.send = 0 /\ ~t.recv
  BY <1>1 DEF Fresh, Nobody, Idle, SocksClients
<1> HIDE DEF p, t
<1>6. /\ d \in Contexts /\ d.ok /\ ~d.stop /\ d.pcb = p /\ d.sk = t /\ d.cl = NewClient
  BY Zenon, <1>1, <1>3, <1>4, <1>5 DEF Contexts
<1>7. /\ d.cl.mem = "live" /\ ~d.cl.aborted /\ d.cl.dead = "null" /\ d.cl.client_closed = FALSE
      /\ d.cl.buf_used = 0 /\ d.cl.socks_up = FALSE /\ d.cl.socks_closed = FALSE
      /\ d.cl.recv_buf_used = -1 /\ d.cl.tcp_pending = 0
  BY <1>6 DEF NewClient
<1> HIDE DEF d
<1>8. Connected(d, 0, 0)
  <2>1. Attached(d.cl, d.pcb)
    BY Zenon, <1>4, <1>6, <1>7 DEF Attached, Open
  <2>2. Paired(d.cl, d.sk)
    BY <1>5, <1>6, <1>7 DEF Paired, Idle
  <2>3. Credit(d.cl, d.pcb, 0)
    BY <1>4, <1>6, <1>7, Sizes DEF Credit
  <2>4. Outgoing(d.cl, d.pcb, 0)
    BY <1>4, <1>6, <1>7 DEF Outgoing
  <2>5. Waiting(d.cl, d.sk)
    BY <1>7 DEF Waiting
  <2>6. QED
    BY <2>1, <2>2, <2>3, <2>4, <2>5 DEF Connected
<1>9. QED
  BY Zenon, <1>2, <1>4, <1>6, <1>7, <1>8

\* listener_accept_func leaves the whole window open.
LEMMA AcceptGoes ==
  ASSUME NEW c, Fresh(c), NEW o, Ready(o)
  PROVE  LET d == AfterCallback(listener_accept_func(c, o))
         IN  Mid(d, 0, 0) /\ d.pcb.wnd >= TCP_WND /\ d.pcb.state # "SYN_RCVD"
<1> DEFINE d == [c EXCEPT !.cl = NewClient, !.sk.state = "connecting",
                          !.pcb.err = TRUE, !.pcb.recv = TRUE]
           e == DEAD_ENTER(d)
           f == SYNC_COMMIT(e, {"error"}, o)
<1>1. /\ d \in Contexts /\ d.ok /\ ~d.stop /\ Connected(d, 0, 0)
      /\ d.pcb.input /\ d.pcb.state = "ESTABLISHED" /\ d.cl.mem = "live"
      /\ d.pcb.wnd = TCP_WND
  BY Zenon, NewConnected
<1>2. listener_accept_func(c, o) = DEAD_LEAVE2(f)
  BY DEF listener_accept_func
<1> HIDE DEF d
<1>3. /\ e \in Contexts /\ e.ok /\ Caught(e) /\ DeadOk(e.cl) /\ Shut(e.pcb)
      /\ e.pcb = d.pcb /\ e.sk = d.sk /\ e.stop = d.stop
      /\ e.cl = [d.cl EXCEPT !.dead = "live"]
  BY <1>1, EnterFields
<1> HIDE DEF e
<1>4. Connected(e, 0, 0)
  BY <1>1, <1>3, EnterGood
<1>5. Went(f, e, 0)
  <2>1. 0 \in Nat /\ "none" \notin {"error"} /\ Good(e, 0, 0)
    BY <1>4 DEF Good
  <2>2. QED
    BY Zenon, <1>3, <2>1, SyncGoes
<1> HIDE DEF f
<1>6. LET a == AfterCallback(DEAD_LEAVE2(f))
      IN  Mid(a, 0, 0) /\ Grown(a.pcb, e.pcb) /\ a.pcb = f.pcb
  BY <1>1, <1>3, <1>5, LeaveGoes
<1> DEFINE a == AfterCallback(DEAD_LEAVE2(f))
<1>7. Mid(a, 0, 0) /\ Grown(a.pcb, e.pcb) /\ a.pcb = f.pcb
  BY <1>6
<1> HIDE DEF a
<1>8. a.pcb.wnd \in Nat
  BY <1>7, Sizes DEF Mid, Contexts, Pcbs
<1>9. a.pcb.wnd >= TCP_WND
  BY <1>1, <1>3, <1>7, <1>8, Sizes DEF Grown
<1>10. f.pcb.state # "SYN_RCVD"
  <2>1. Good(f, 0, 0) /\ f.cl.mem # "none"
    BY <1>3, <1>5 DEF Went, Frame, Caught
  <2>2. QED
    BY <2>1 DEF Good, Unborn, Connected, Attached, Open, Detached
<1>11. QED
  BY <1>2, <1>7, <1>9, <1>10 DEF a

\* tcp_process takes the segment that ended the handshake.
LEMMA AcceptedTakes ==
  ASSUME NEW c, Mid(c, 0, 0), ~c.stop, NEW s, Fits(s, c.pcb), c.pcb.state # "SYN_RCVD"
  PROVE  LET d == tcp_receive(c, s)
         IN  Taken(IF d.got.fin THEN [d EXCEPT !.pcb.state = "CLOSE_WAIT"] ELSE d, c, s)
<1> DEFINE d == tcp_receive(c, s)
           p == [d.pcb EXCEPT !.state = "CLOSE_WAIT"]
           e == [d EXCEPT !.pcb = p]
<1>1. c \in Contexts /\ c.ok /\ c.pcb.state # "FREED"
  BY DEF Mid
<1>2. /\ d \in Contexts /\ d.ok /\ d.cl = c.cl /\ d.sk = c.sk /\ d.stop = c.stop
      /\ d.pcb.state = c.pcb.state /\ d.pcb.rxclosed = c.pcb.rxclosed
      /\ d.pcb.closed = c.pcb.closed /\ d.pcb.closepend = c.pcb.closepend
      /\ d.pcb.input = c.pcb.input /\ d.pcb.err = c.pcb.err /\ d.pcb.recv = c.pcb.recv
      /\ d.pcb.sent = c.pcb.sent
      /\ d.pcb.unacked + s.ack = c.pcb.unacked /\ d.pcb.wnd + Due(d) = c.pcb.wnd
  BY Zenon, <1>1, ReceiveFields DEF Due
<1> HIDE DEF d
<1>3. Taken(d, c, s)
  BY Zenon, <1>1, <1>2 DEF Taken
<1>4. Taken([d EXCEPT !.pcb.state = "CLOSE_WAIT"], c, s)
  <2>1. d.pcb \in Pcbs /\ "CLOSE_WAIT" \in PcbStates /\ "CLOSE_WAIT" \in Open
    BY <1>2, StateNames DEF Contexts
  <2>2. [d EXCEPT !.pcb.state = "CLOSE_WAIT"] = e
    BY <1>2, <2>1 DEF Contexts
  <2>3. /\ p \in Pcbs /\ p.state = "CLOSE_WAIT" /\ p.rxclosed = d.pcb.rxclosed
        /\ p.closed = d.pcb.closed /\ p.closepend = d.pcb.closepend
        /\ p.input = d.pcb.input /\ p.err = d.pcb.err /\ p.recv = d.pcb.recv
        /\ p.sent = d.pcb.sent /\ p.unacked = d.pcb.unacked /\ p.wnd = d.pcb.wnd
    BY <2>1 DEF Pcbs
  <2> HIDE DEF p
  <2>4. OnlyPcb(e, d) /\ e.pcb = p
    BY <1>2, <2>3, PcbSet
  <2> HIDE DEF e
  <2>5. Due(e) = Due(d)
    BY <2>4 DEF Due, OnlyPcb
  <2>6. QED
    BY Zenon, <1>2, <2>1, <2>2, <2>3, <2>4, <2>5 DEF Taken, OnlyPcb
<1>5. QED
  BY <1>3, <1>4 DEF d

\* tcp_process in SYN_RCVD: refused or accepted, and even if the SOCKS connection
\* fails at once, everything is well.
LEMMA SynRcvdDone ==
  ASSUME NEW c \in Contexts, c.ok, ~c.stop, Good(c, 0, 0), DeadOk(c.cl),
         c.pcb.state = "SYN_RCVD", NEW s, Fits(s, c.pcb), NEW accepted, NEW o, Ready(o)
  PROVE  Done(tcp_process_syn_rcvd(c, s, accepted, o))
<1> DEFINE p == [c.pcb EXCEPT !.state = "ESTABLISHED", !.input = TRUE]
           d == [c EXCEPT !.pcb = p]
<1>1. c.pcb \in Pcbs /\ "ESTABLISHED" \in PcbStates
  BY StateNames DEF Contexts
<1>2. Unborn(c)
  BY Zenon DEF Good, Unborn, Connected, Attached, Detached, Open
<1>3. tcp_process_syn_rcvd(c, s, accepted, o)
        = IF ~accepted THEN Aborted(tcp_abort(d))
          ELSE tcp_process_accepted(AfterCallback(listener_accept_func(d, o)), s, o)
  <2>1. [c EXCEPT !.pcb.state = "ESTABLISHED", !.pcb.input = TRUE] = d
    BY Zenon, <1>1 DEF Contexts
  <2> HIDE DEF d
  <2>2. QED
    BY <2>1 DEF tcp_process_syn_rcvd
<1>4. /\ p \in Pcbs /\ p.state = "ESTABLISHED" /\ p.rxclosed = c.pcb.rxclosed
      /\ p.closed = c.pcb.closed /\ p.closepend = c.pcb.closepend
      /\ p.input /\ p.err = c.pcb.err /\ p.recv = c.pcb.recv
      /\ p.sent = c.pcb.sent /\ p.unacked = c.pcb.unacked /\ p.wnd = c.pcb.wnd
  BY Zenon, <1>1 DEF Pcbs
<1> HIDE DEF p
<1>5. OnlyPcb(d, c) /\ d.pcb = p
  BY <1>4, PcbSet
<1> HIDE DEF d
<1>6. Fresh(d)
  BY Zenon, <1>2, <1>4, <1>5 DEF Fresh, Nobody, Unborn, Off, OnlyPcb
<1>7. CASE ~accepted
  <2> DEFINE f == tcp_free(d)
  <2>1. /\ f \in Contexts /\ f.ok /\ DeadOk(f.cl) /\ Good(f, 0, 0)
        /\ f.pcb.state = "FREED" /\ f.pcb.err = d.pcb.err
    BY Zenon, <1>6, FreeGood DEF Fresh, Nobody
  <2>2. tcp_abort(d) = f
    BY Zenon, <1>6, <2>1 DEF tcp_abort, TCP_EVENT_ERR, Fresh, Nobody, Off
  <2> HIDE DEF f
  <2>3. Done(Aborted(f))
    BY <2>1, AbortedDone
  <2>4. QED
    BY Zenon, <1>3, <1>7, <2>2, <2>3
<1>8. CASE accepted
  <2> DEFINE a == AfterCallback(listener_accept_func(d, o))
             r == tcp_receive(a, s)
             e == IF r.got.fin THEN [r EXCEPT !.pcb.state = "CLOSE_WAIT"] ELSE r
  <2>1. Mid(a, 0, 0) /\ a.pcb.wnd >= TCP_WND /\ a.pcb.state # "SYN_RCVD"
    BY <1>6, AcceptGoes
  <2>2. tcp_process_syn_rcvd(c, s, accepted, o) = IF a.stop THEN Aborted(a) ELSE Callbacks(e, s, o)
    BY <1>3, <1>8 DEF tcp_process_accepted
  <2> HIDE DEF a
  <2>3. CASE a.stop
    <3>1. a \in Contexts /\ a.ok /\ DeadOk(a.cl) /\ Good(a, 0, 0) /\ a.pcb.state = "FREED"
      BY <2>1, <2>3 DEF Mid
    <3>2. Done(Aborted(a))
      BY <3>1, AbortedDone
    <3>3. QED
      BY <2>2, <2>3, <3>2
  <2>4. CASE ~a.stop
    <3>1. a.pcb.wnd \in Nat /\ a.pcb.unacked \in Nat
      BY <2>1, Sizes DEF Mid, Contexts, Pcbs
    <3>2. Fits(s, a.pcb) /\ s.ack \in Nat
      <4>1. c.pcb.wnd = TCP_WND /\ c.pcb.unacked = 0
        BY <1>2 DEF Unborn
      <4>2. QED
        BY <2>1, <3>1, <4>1, Sizes DEF Fits
    <3>3. a.pcb.state # "SYN_RCVD"
      BY <2>1, <2>4
    <3>4. Taken(e, a, s)
      BY <2>1, <2>4, <3>2, <3>3, AcceptedTakes
    <3> HIDE DEF e
    <3>5. e.got \in Gots /\ Mid(e, Due(e), s.ack) /\ ~e.stop
      BY <2>1, <2>4, <3>2, <3>3, <3>4, TakenMid
    <3>6. Done(Callbacks(e, s, o))
      BY <3>2, <3>5, CallbacksDone DEF Due
    <3>7. QED
      BY <2>2, <2>4, <3>6
  <2>5. QED
    BY <2>3, <2>4
<1>9. QED
  BY <1>7, <1>8

-----------------------------------------------------------------------------
(***************************************************************************)
(* The inductive invariant.                                                *)
(***************************************************************************)
\* Between two actions everything is well; what the app still may send is
\* within its bound.
IInv == Done(Now) /\ app \in [left : 0..MaxUp, fin : BOOLEAN]

\* The fields of Now.
LEMMA NowFields ==
  /\ Now.pcb = pcb /\ Now.cl = cl /\ Now.sk = sk /\ Now.ok = ok /\ ~Now.stop
BY DEF Now

\* A handler that leaves everything well makes the next state well.
LEMMA BecomeDone ==
  ASSUME NEW d, Done(d), Become(d)
  PROVE  Done(Now)'
<1>1. /\ d \in Contexts /\ d.ok /\ pcb' = d.pcb /\ cl' = d.cl /\ sk' = d.sk /\ ok' = d.ok
  BY DEF Done, Become
<1>2. d.pcb \in Pcbs /\ d.cl \in Clients /\ d.sk \in SocksClients /\ d.ok \in BOOLEAN
  BY <1>1 DEF Contexts
<1>3. 0 \in -1..1 /\ FALSE \in BOOLEAN /\ [len |-> 0, fin |-> FALSE] \in Gots
  BY Sizes DEF Gots
<1>4. Now' \in Contexts
  BY <1>1, <1>2, <1>3 DEF Now, Contexts
<1>5. Now'.pcb = d.pcb /\ Now'.cl = d.cl /\ Now'.sk = d.sk /\ Now'.ok = d.ok
  BY <1>1 DEF Now
<1> DEFINE n == Now'
<1>6. n \in Contexts /\ n.pcb = d.pcb /\ n.cl = d.cl /\ n.sk = d.sk /\ n.ok
  BY <1>1, <1>4, <1>5
<1> HIDE DEF n
<1>7. Good(n, 0, 0)
  BY Zenon, <1>6 DEF Done, Good, Unborn, Connected
<1>8. Done(n)
  BY <1>6, <1>7 DEF Done
<1>9. QED
  BY Zenon, <1>8 DEF n, Done, Good, Unborn, Connected, Left, Detached, Off, Idle, Paired, Attached,
              Credit, Outgoing, Waiting, DeadOk, Shut

\* What goes well outside of tcp_input leaves everything well.
LEMMA WentDone ==
  ASSUME NEW c, Done(c), NEW d, Went(d, c, 0)
  PROVE  Done(d)
BY DEF Done, Went, Frame

\* A segment of the app fits the window, and is one less to send.
LEMMA SegmentFits ==
  ASSUME IInv, NEW s \in Segments
  PROVE  /\ Fits(s, pcb)
         /\ AppSent(s) => app' \in [left : 0..MaxUp, fin : BOOLEAN]
<1>1. /\ s.len \in 0..TCP_WND /\ s.fin \in BOOLEAN /\ s.ack \in 0..TCP_SND_BUF
      /\ s.finack \in BOOLEAN
      /\ s.len + (IF s.fin THEN 1 ELSE 0) <= pcb.wnd /\ s.len <= app.left /\ s.ack <= pcb.unacked
  BY DEF Segments
<1>2. app.left \in 0..MaxUp /\ app.fin \in BOOLEAN
  BY DEF IInv
<1>3. s.len \in Nat /\ s.ack \in Nat
  BY <1>1, Sizes
<1>4. Fits(s, pcb)
  BY <1>1, <1>3 DEF Fits
<1>5. app.left - s.len \in 0..MaxUp
  BY <1>1, <1>2, <1>3, Sizes
<1>6. (app.fin \/ s.fin) \in BOOLEAN
  BY <1>1, <1>2
<1>7. [left |-> app.left - s.len, fin |-> app.fin \/ s.fin] \in [left : 0..MaxUp, fin : BOOLEAN]
  BY <1>5, <1>6
<1>8. QED
  BY Zenon, <1>4, <1>7 DEF AppSent

\* Accept keeps the invariant.
LEMMA AcceptKeeps ==
  ASSUME IInv, Accept
  PROVE  IInv'
<1>1. PICK s \in Segments, accepted \in BOOLEAN,
           o \in Outcomes({Quiet, <<[kind |-> "error", n |-> 0], Nothing>>}) :
        Become(tcp_process_syn_rcvd(Now, s, accepted, o)) /\ AppSent(s)
  BY DEF Accept
<1>2. Ready(o)
  <2>1. o.sync \in {Quiet, <<[kind |-> "error", n |-> 0], Nothing>>}
    BY DEF Outcomes
  <2>2. QED
    BY <2>1 DEF Ready, Happening, Quiet, Nothing
<1>3. Fits(s, Now.pcb) /\ app' \in [left : 0..MaxUp, fin : BOOLEAN]
  BY <1>1, SegmentFits, NowFields
<1>4. Now.pcb.state = "SYN_RCVD"
  BY NowFields DEF Accept
<1>5. Done(tcp_process_syn_rcvd(Now, s, accepted, o))
  BY Zenon, <1>2, <1>3, <1>4, NowFields, SynRcvdDone DEF IInv, Done
<1>6. QED
  BY <1>1, <1>3, <1>5, BecomeDone DEF IInv

\* Input keeps the invariant.
LEMMA InputKeeps ==
  ASSUME IInv, Input
  PROVE  IInv'
<1>1. PICK s \in Segments, o \in Outcomes(Syncs) :
        /\ pcb.state = "SYN_RCVD" => s.rst
        /\ Become(tcp_input(Now, s, o)) /\ AppSent(s)
  BY DEF Input
<1>2. Ready(o)
  BY OutcomesReady
<1>3. Fits(s, Now.pcb) /\ app' \in [left : 0..MaxUp, fin : BOOLEAN]
  BY <1>1, SegmentFits, NowFields
<1>4. Now.pcb.state \in {"SYN_RCVD"} \cup Open \cup Closing /\ (Now.pcb.state = "SYN_RCVD" => s.rst)
  BY <1>1, NowFields DEF Input
<1>5. Done(tcp_input(Now, s, o))
  BY Zenon, <1>2, <1>3, <1>4, NowFields, InputDone DEF IInv, Done
<1>6. QED
  BY <1>1, <1>3, <1>5, BecomeDone DEF IInv

\* SlowTimer keeps the invariant: a client that counts on the pcb is told.
LEMMA SlowTimerKeeps ==
  ASSUME IInv, SlowTimer
  PROVE  IInv'
<1> DEFINE c == Now
           f == tcp_free(c)
           d == IF c.pcb.state = "TIME_WAIT" THEN f ELSE TCP_EVENT_ERR(f)
<1>1. /\ c \in Contexts /\ c.ok /\ Good(c, 0, 0) /\ DeadOk(c.cl) /\ ~c.pcb.input
  BY DEF IInv, Done
<1>2. c.pcb.state # "FREED"
  BY NowFields DEF SlowTimer, slowtmr_due, Open, Closing
<1>3. Become(d) /\ app' = app
  BY NowFields DEF SlowTimer
<1> HIDE DEF c
<1>4. OnlyPcb(f, c) /\ f.pcb = [c.pcb EXCEPT !.state = "FREED", !.unacked = 0, !.fin = FALSE]
  BY Zenon, <1>1, <1>2, FreeFields
<1>5. f.pcb.state = "FREED" /\ f.pcb.err = c.pcb.err /\ ~f.pcb.input
  BY <1>1, <1>4 DEF Contexts, Pcbs
<1>6. ASSUME Connected(c, 0, 0) PROVE Done(d)
  <2>1. c.pcb.err /\ c.pcb.state \in Open /\ c.cl.mem = "live" /\ ~c.cl.client_closed /\ Paired(c.cl, c.sk)
    BY <1>6 DEF Connected, Attached
  <2>2. d = client_err_func(f)
    BY <1>5, <2>1 DEF TCP_EVENT_ERR, Open
  <2> HIDE DEF f, d
  <2>3. /\ d \in Contexts /\ d.ok /\ d.pcb = f.pcb /\ Left(d.cl, d.sk) /\ DeadOk(d.cl)
    BY <1>1, <1>4, <2>1, <2>2, ErrEnds DEF OnlyPcb
  <2>4. QED
    BY <1>5, <2>3 DEF Done, Good, Detached, Shut
<1>7. ASSUME ~Connected(c, 0, 0) PROVE Done(d)
  <2>1. /\ ~c.pcb.err
        /\ \/ Left(c.cl, c.sk)
           \/ c.cl.mem = "none" /\ c.sk.state = "none" /\ Idle(c.sk) /\ Off(c.pcb)
    BY <1>1, <1>2, <1>7 DEF Good, Unborn, Detached, Off
  <2>2. d = f
    BY <1>5, <2>1 DEF TCP_EVENT_ERR
  <2>3. f \in Contexts /\ f.ok /\ DeadOk(f.cl) /\ Good(f, 0, 0)
    BY Zenon, <1>1, <1>2, <2>1, FreeGood
  <2> HIDE DEF f, d
  <2>4. QED
    BY <1>5, <2>2, <2>3 DEF Done, Shut
<1>8. Done(d)
  BY <1>6, <1>7
<1> HIDE DEF d
<1>9. QED
  BY <1>3, <1>8, BecomeDone DEF IInv

\* FastTimer keeps the invariant: only the pcb of a closed client waits for a FIN.
LEMMA FastTimerKeeps ==
  ASSUME IInv, FastTimer
  PROVE  IInv'
<1> DEFINE c == Now
           p == [c.pcb EXCEPT !.closepend = FALSE]
           b == [c EXCEPT !.pcb = p]
<1>1. /\ c \in Contexts /\ c.ok /\ Good(c, 0, 0) /\ DeadOk(c.cl) /\ ~c.pcb.input /\ Shut(c.pcb)
  BY DEF IInv, Done
<1>2. c.pcb.closepend /\ c.pcb.state \in Open
  BY NowFields DEF FastTimer
<1>3. PICK o \in Outcomes({Quiet}) : Become(tcp_close_shutdown_fin([c EXCEPT !.pcb.closepend = FALSE], o))
  BY DEF FastTimer
<1>4. app' = app
  BY DEF FastTimer
<1> HIDE DEF c
<1>5. c.pcb \in Pcbs /\ [c EXCEPT !.pcb.closepend = FALSE] = b
  BY <1>1 DEF Contexts
<1>6. Left(c.cl, c.sk) /\ Off(c.pcb) /\ ~c.pcb.closed
  BY Zenon, <1>1, <1>2 DEF Good, Unborn, Connected, Attached, Detached, Open, Shut
<1>7. /\ p \in Pcbs /\ p.state = c.pcb.state /\ p.closed = c.pcb.closed /\ p.input = c.pcb.input
      /\ p.err = c.pcb.err /\ p.recv = c.pcb.recv /\ p.sent = c.pcb.sent
  BY Zenon, <1>5 DEF Pcbs
<1> HIDE DEF p
<1>8. OnlyPcb(b, c) /\ b.pcb = p
  BY <1>1, <1>7, PcbSet
<1> HIDE DEF b
<1> DEFINE d == tcp_close_shutdown_fin(b, o)
<1>9. /\ OnlyPcb(d, b) /\ d.pcb.state \notin {"FREED", "SYN_RCVD"}
      /\ d.pcb.err = p.err /\ d.pcb.recv = p.recv /\ d.pcb.sent = p.sent
      /\ d.pcb.input = p.input /\ d.pcb.closed = p.closed
  BY Zenon, <1>2, <1>7, <1>8, FinFields DEF OnlyPcb
<1>10. Become(d)
  BY Zenon, <1>3, <1>5
<1> HIDE DEF d
<1>11. Done(d)
  BY Zenon, <1>1, <1>6, <1>7, <1>8, <1>9 DEF Done, OnlyPcb, Good, Detached, Off, Shut
<1>12. QED
  BY <1>4, <1>10, <1>11, BecomeDone DEF IInv

\* SocksUp, SocksDown, SocksSent and SocksReceived keep the invariant.
LEMMA SocksKeeps ==
  ASSUME IInv, NEW e, Happening(e), Socks(e)
  PROVE  IInv'
<1>1. PICK o \in Outcomes({Quiet}) : Become(SocksEvent(Now, e, o))
  BY DEF Socks
<1>2. Possible(Now, e) /\ app' = app
  BY DEF Socks
<1>3. Done(Now)
  BY DEF IInv
<1>4. Went(SocksEvent(Now, e, o), Now, 0)
  <2>1. 0 \in Nat
    OBVIOUS
  <2>2. QED
    BY <1>2, <1>3, <2>1, EventGoes DEF Done
<1>5. Done(SocksEvent(Now, e, o))
  BY <1>3, <1>4, WentDone
<1>6. QED
  BY <1>1, <1>2, <1>5, BecomeDone DEF IInv

\* client_murder frees the pcb and the connection before the client.
LEMMA MurderDone ==
  ASSUME NEW c, Done(c), c.cl.mem = "live"
  PROVE  Done(client_murder(c))
<1> DEFINE h == client_abort_pcb(tcp_callbacks_off(c))
           d == IF c.cl.client_closed THEN c ELSE [h EXCEPT !.cl.client_closed = TRUE]
           e == IF d.cl.socks_closed THEN d
                ELSE [d EXCEPT !.sk.state = "freed", !.sk.send = 0, !.sk.recv = FALSE,
                               !.cl.socks_closed = TRUE]
<1>1. /\ c \in Contexts /\ c.ok /\ Good(c, 0, 0) /\ DeadOk(c.cl) /\ ~c.pcb.input /\ Shut(c.pcb)
      /\ c.cl \in Clients
  BY DEF Done, Contexts
<1>2. client_murder(c) = client_dealloc(e)
  BY DEF client_murder
<1>3. /\ d \in Contexts /\ d.ok /\ d.cl.mem = "live" /\ d.cl.client_closed /\ DeadOk(d.cl)
      /\ Paired(d.cl, d.sk) /\ Detached(d.pcb) /\ ~d.pcb.input /\ Shut(d.pcb)
  <2>1. CASE c.cl.client_closed
    <3>1. ~Unborn(c) /\ ~Connected(c, 0, 0)
      BY <2>1 DEF Unborn, Connected, Attached
    <3>2. Left(c.cl, c.sk) /\ Detached(c.pcb)
      BY <1>1, <3>1 DEF Good
    <3>3. Paired(c.cl, c.sk)
      BY <3>2 DEF Left
    <3>4. d = c
      BY <2>1
    <3>5. QED
      BY <1>1, <2>1, <3>2, <3>3, <3>4
  <2>2. CASE ~c.cl.client_closed
    <3>1. Connected(c, 0, 0)
      BY <1>1, <2>2 DEF Good, Unborn, Left
    <3>2. ~c.cl.aborted /\ c.pcb.state # "FREED" /\ Paired(c.cl, c.sk)
      BY Zenon, <3>1 DEF Connected, Attached, Open
    <3>3. /\ h \in Contexts /\ h.ok /\ h.sk = c.sk /\ h.cl = [c.cl EXCEPT !.aborted = TRUE]
          /\ h.pcb.state = "FREED" /\ h.pcb.input = c.pcb.input
      BY <1>1, <3>2, AbortPcbFields
    <3>4. d = [h EXCEPT !.cl.client_closed = TRUE]
      BY <2>2
    <3> HIDE DEF h, d
    <3> DEFINE l == [h.cl EXCEPT !.client_closed = TRUE]
    <3>5. d = [h EXCEPT !.cl = l]
      BY <3>3, <3>4 DEF Contexts
    <3>6. /\ l \in Clients /\ l.mem = "live" /\ l.client_closed /\ l.aborted /\ l.dead = c.cl.dead
          /\ l.socks_closed = c.cl.socks_closed /\ l.socks_up = c.cl.socks_up
          /\ l.buf_used = c.cl.buf_used /\ l.recv_buf_used = c.cl.recv_buf_used
      BY Zenon, <1>1, <3>3 DEF Clients
    <3> HIDE DEF l
    <3>7. OnlyCl(d, h) /\ d.cl = l
      BY <3>3, <3>5, <3>6, ClSet
    <3>8. Paired(d.cl, d.sk)
      BY <3>2, <3>3, <3>6, <3>7 DEF Paired, OnlyCl
    <3>9. QED
      BY <1>1, <3>3, <3>6, <3>7, <3>8 DEF OnlyCl, Detached, Shut, DeadOk
  <2>3. QED
    BY <2>1, <2>2
<1> HIDE DEF d
<1>4. /\ e \in Contexts /\ e.ok /\ e.pcb = d.pcb /\ e.cl.mem = "live" /\ e.cl.client_closed
      /\ e.cl.socks_closed /\ DeadOk(e.cl) /\ e.sk.state = "freed" /\ Idle(e.sk)
  <2>1. CASE d.cl.socks_closed
    BY <1>3, <2>1 DEF Paired
  <2>2. CASE ~d.cl.socks_closed
    <3> DEFINE t == [d.sk EXCEPT !.state = "freed", !.send = 0, !.recv = FALSE]
               l == [d.cl EXCEPT !.socks_closed = TRUE]
               b == [d EXCEPT !.sk = t]
    <3>1. d.sk \in SocksClients /\ d.cl \in Clients
      BY <1>3 DEF Contexts
    <3>2. e = [b EXCEPT !.cl = l]
      BY Zenon, <1>3, <2>2, <3>1 DEF Contexts, SocksClients
    <3>3. t \in SocksClients /\ t.state = "freed" /\ Idle(t)
      <4>1. 0 \in 0..TCP_WND
        BY Sizes
      <4>2. QED
        BY Zenon, <3>1, <4>1 DEF SocksClients, Idle
    <3>4. /\ l \in Clients /\ l.mem = d.cl.mem /\ l.client_closed = d.cl.client_closed
          /\ l.socks_closed /\ l.dead = d.cl.dead /\ l.aborted = d.cl.aborted
      BY Zenon, <3>1 DEF Clients
    <3> HIDE DEF t, l, e
    <3>5. OnlySk(b, d) /\ b.sk = t
      BY <1>3, <3>3, SkSet
    <3> HIDE DEF b
    <3>6. OnlyCl(e, b) /\ e.cl = l
      BY <3>2, <3>4, <3>5, ClSet DEF OnlySk
    <3>7. QED
      BY Zenon, <1>3, <3>3, <3>4, <3>5, <3>6 DEF OnlyCl, OnlySk, DeadOk
  <2>3. QED
    BY <2>1, <2>2
<1> HIDE DEF e
<1> DEFINE g == client_dealloc(e)
<1>5. /\ g \in Contexts /\ g.ok /\ g.pcb = e.pcb /\ g.sk = e.sk
      /\ g.cl = [e.cl EXCEPT !.mem = "freed"]
  BY <1>4, DeallocFields
<1> HIDE DEF g
<1>6. g.cl.mem = "freed" /\ g.cl.client_closed /\ DeadOk(g.cl)
  BY <1>4, <1>5 DEF Contexts, Clients, DeadOk
<1>7. Done(g)
  BY <1>3, <1>4, <1>5, <1>6 DEF Done, Good, Left
<1>8. QED
  BY <1>2, <1>7 DEF g

\* Murder keeps the invariant.
LEMMA MurderKeeps ==
  ASSUME IInv, Murder
  PROVE  IInv'
<1>1. Become(client_murder(Now)) /\ Now.cl.mem = "live" /\ app' = app
  BY NowFields DEF Murder
<1>2. Done(client_murder(Now))
  BY <1>1, MurderDone DEF IInv
<1>3. QED
  BY <1>1, <1>2, BecomeDone DEF IInv

\* The invariant holds at the start.
LEMMA InitInv == Init => IInv
<1> SUFFICES ASSUME Init PROVE IInv
  OBVIOUS
<1>1. /\ 0 \in 0..TCP_WND /\ TCP_WND \in 0..TCP_WND /\ 0 \in 0..TCP_SND_BUF /\ -1 \in -1..RECV_BUF
      /\ 0 \in 0..RECV_BUF /\ MaxDown \in 0..MaxDown /\ MaxUp \in 0..MaxUp /\ 0 \in -1..1
  BY Sizes
<1>2. pcb \in Pcbs
  <2>1. "SYN_RCVD" \in PcbStates
    BY StateNames
  <2>2. QED
    BY <1>1, <2>1 DEF Init, Pcbs
<1>3. cl \in Clients /\ cl.mem = "none" /\ cl.dead = "null"
  BY Zenon, <1>1 DEF Init, NewClient, Clients
<1>4. sk \in SocksClients /\ sk.state = "none" /\ Idle(sk)
  BY <1>1 DEF Init, SocksClients, Idle
<1>5. Now \in Contexts
  <2>1. [len |-> 0, fin |-> FALSE] \in Gots
    BY <1>1 DEF Gots
  <2>2. ok \in BOOLEAN
    BY DEF Init
  <2>3. QED
    BY <1>1, <1>2, <1>3, <1>4, <2>1, <2>2 DEF Now, Contexts
<1>6. Off(pcb) /\ ~pcb.input /\ Shut(pcb) /\ DeadOk(cl)
  BY <1>3 DEF Init, Off, Shut, DeadOk
<1>7. Unborn(Now)
  BY <1>3, <1>4, <1>6, NowFields DEF Init, Unborn
<1>8. app \in [left : 0..MaxUp, fin : BOOLEAN]
  BY <1>1 DEF Init
<1>9. ok
  BY DEF Init
<1>10. QED
  BY <1>5, <1>6, <1>7, <1>8, <1>9, NowFields DEF IInv, Done, Good

\* Every step keeps the invariant.
LEMMA StepInv == IInv /\ [Next]_vars => IInv'
<1> SUFFICES ASSUME IInv, [Next]_vars PROVE IInv'
  OBVIOUS
<1>1. CASE Accept
  BY <1>1, AcceptKeeps
<1>2. CASE Input
  BY <1>2, InputKeeps
<1>3. CASE SlowTimer
  BY <1>3, SlowTimerKeeps
<1>4. CASE FastTimer
  BY <1>4, FastTimerKeeps
<1>5. CASE SocksUp
  <2> DEFINE e == [kind |-> "up", n |-> 0]
  <2>1. Happening(e)
    BY DEF Happening
  <2>2. Socks(e)
    BY <1>5 DEF SocksUp
  <2> HIDE DEF e
  <2>3. QED
    BY <2>1, <2>2, SocksKeeps
<1>6. CASE SocksDown
  <2>1. PICK k \in {"error", "closed"} : Socks([kind |-> k, n |-> 0])
    BY <1>6 DEF SocksDown
  <2> DEFINE e == [kind |-> k, n |-> 0]
  <2>2. Happening(e) /\ Socks(e)
    BY <2>1 DEF Happening
  <2> HIDE DEF e
  <2>3. QED
    BY <2>2, SocksKeeps
<1>7. CASE SocksSent
  <2>1. PICK n \in 1..TCP_WND : Socks([kind |-> "sent", n |-> n])
    BY <1>7 DEF SocksSent
  <2> DEFINE e == [kind |-> "sent", n |-> n]
  <2>2. n \in Nat /\ n > 0
    BY Sizes
  <2>3. Happening(e) /\ Socks(e)
    BY <2>1, <2>2 DEF Happening
  <2> HIDE DEF e
  <2>4. QED
    BY <2>3, SocksKeeps
<1>8. CASE SocksReceived
  <2>1. PICK n \in 1..RECV_BUF : Socks([kind |-> "received", n |-> n])
    BY <1>8 DEF SocksReceived
  <2> DEFINE e == [kind |-> "received", n |-> n]
  <2>2. n \in Nat /\ n > 0
    BY Sizes
  <2>3. Happening(e) /\ Socks(e)
    BY <2>1, <2>2 DEF Happening
  <2> HIDE DEF e
  <2>4. QED
    BY <2>3, SocksKeeps
<1>9. CASE Murder
  BY <1>9, MurderKeeps
<1>10. CASE UNCHANGED vars
  <2>1. Become(Now) /\ app' = app
    BY <1>10, NowFields DEF vars, Become
  <2>2. Done(Now)
    BY DEF IInv
  <2>3. QED
    BY <2>1, <2>2, BecomeDone DEF IInv
<1>11. QED
  BY <1>1, <1>2, <1>3, <1>4, <1>5, <1>6, <1>7, <1>8, <1>9, <1>10 DEF Next

\* The invariant holds in every state of Spec.
LEMMA Invariant == Spec => []IInv
BY InitInv, StepInv, PTL DEF Spec

\* Whatever segment, timer or SOCKS event comes, and however the calls nest,
\* every ASSERT of the client holds, and neither a freed client nor a freed pcb
\* nor a dead variable that has gone is touched, for windows and buffers of
\* any size.
THEOREM NeverFaults == Spec => []NoFault
<1>1. IInv => NoFault
  <2> SUFFICES ASSUME IInv PROVE NoFault
    OBVIOUS
  <2>1. pcb \in Pcbs /\ cl \in Clients /\ sk \in SocksClients /\ ok /\ pcb.input = FALSE
    <3>1. Now \in Contexts /\ ok /\ ~pcb.input
      BY NowFields DEF IInv, Done
    <3>2. pcb \in Pcbs /\ cl \in Clients /\ sk \in SocksClients
      BY <3>1, NowFields DEF Contexts
    <3>3. QED
      BY <3>1, <3>2 DEF Pcbs
  <2>2. pcb \in [state : {"SYN_RCVD"} \cup Open \cup Closing \cup Gone,
                 rxclosed : BOOLEAN, closed : BOOLEAN, closepend : BOOLEAN,
                 input : {FALSE}, err : BOOLEAN, recv : BOOLEAN, sent : BOOLEAN,
                 wnd : 0..TCP_WND, unacked : 0..TCP_SND_BUF, fin : BOOLEAN]
    BY Zenon, <2>1 DEF Pcbs, PcbStates
  <2>3. app \in [left : 0..MaxUp, fin : BOOLEAN]
    BY DEF IInv
  <2>4. QED
    BY Zenon, <2>1, <2>2, <2>3 DEF NoFault, TypeOK, Clients, SocksClients
<1>2. QED
  BY <1>1, Invariant, PTL

\* The window lwIP offers the app and the bytes in buf add up to the size of
\* buf as long as the client takes the app's data.
THEOREM CreditKept == Spec => []WindowCredit
<1>1. IInv => WindowCredit
  <2> SUFFICES ASSUME IInv, cl.mem = "live", ~cl.client_closed, pcb.recv
               PROVE  cl.buf_used + pcb.wnd = TCP_WND
    BY DEF WindowCredit
  <2>1. Good(Now, 0, 0) /\ Now \in Contexts
    BY DEF IInv, Done
  <2>2. Connected(Now, 0, 0)
    BY <2>1, NowFields DEF Good, Unborn, Left
  <2>3. cl.buf_used \in 0..TCP_WND /\ pcb.wnd \in 0..TCP_WND
    BY <2>1, NowFields DEF Contexts, Pcbs, Clients
  <2>4. cl.buf_used + pcb.wnd + 0 = TCP_WND
    BY <2>2, NowFields DEF Connected, Credit
  <2>5. QED
    BY <2>3, <2>4, Sizes
<1>2. QED
  BY <1>1, Invariant, PTL

\* A client that is alive waits for something that will happen, and lwIP
\* calls it as long as it counts on the pcb and no longer.
THEOREM AlwaysDriven == Spec => []Driven
<1>1. IInv => Driven
  <2> SUFFICES ASSUME IInv PROVE Driven
    OBVIOUS
  <2>1. Good(Now, 0, 0) /\ Now \in Contexts
    BY DEF IInv, Done
  <2>2. /\ cl.buf_used \in 0..TCP_WND /\ sk.send \in 0..TCP_WND /\ pcb.unacked \in 0..TCP_SND_BUF
        /\ cl.tcp_pending \in 0..TCP_SND_BUF /\ cl.recv_buf_used \in -1..RECV_BUF
    BY <2>1, NowFields DEF Contexts, Pcbs, Clients, SocksClients
  <2>3. CASE Unborn(Now)
    BY <2>3, NowFields DEF Unborn, Off, Driven
  <2>4. CASE Connected(Now, 0, 0)
    <3>1. /\ Attached(cl, pcb) /\ Paired(cl, sk) /\ Outgoing(cl, pcb, 0) /\ Waiting(cl, sk)
      BY <2>4, NowFields DEF Connected
    <3>2. cl.mem = "live" /\ ~cl.client_closed /\ pcb.state \in Open /\ pcb.err
          /\ pcb.sent = cl.socks_up
      BY <3>1 DEF Attached
    <3>3. cl.tcp_pending = pcb.unacked
      BY <2>2, <3>1 DEF Outgoing
    <3>4. cl.recv_buf_used > 0 => cl.recv_waiting /\ cl.tcp_pending > 0
      BY <2>2, <3>1 DEF Waiting
    <3>5. cl.socks_up /\ ~cl.socks_closed /\ cl.recv_buf_used = -1 => sk.recv
      BY <3>1 DEF Waiting
    <3>6. cl.socks_closed => cl.tcp_pending > 0
      BY <3>1 DEF Waiting
    <3>7. cl.socks_up /\ ~cl.socks_closed => (sk.send > 0 <=> cl.buf_used > 0)
      BY <2>2, <3>1, Sizes DEF Paired
    <3>8. QED
      BY Zenon, <3>2, <3>3, <3>4, <3>5, <3>6, <3>7 DEF Driven
  <2>5. CASE Left(cl, sk) /\ Detached(pcb)
    <3>1. cl.client_closed
      BY <2>5 DEF Left
    <3>2. cl.mem = "live" /\ cl.socks_up /\ ~cl.socks_closed => (sk.send > 0 <=> cl.buf_used > 0)
      BY <2>2, <2>5, Sizes DEF Left, Paired
    <3>3. QED
      BY <2>5, <3>1, <3>2 DEF Driven, Detached, Off
  <2>6. QED
    BY <2>1, <2>3, <2>4, <2>5, NowFields DEF Good
<1>2. QED
  BY <1>1, Invariant, PTL
=============================================================================
