-------------------------------- MODULE Reactor --------------------------------
(***************************************************************************)
(* What the parts of tun2socks share: the job list and the file            *)
(* descriptors of the BReactor, and the flow interfaces between objects.   *)
(*                                                                         *)
(* The functions are operators on a record x: the identity i of an object, *)
(* its fields k, the jobs and results of the reactor, and ok, which says   *)
(* that no ASSERT has failed and that nothing freed has been used.         *)
(***************************************************************************)
EXTENDS Integers, Sequences

CONSTANTS
    LIMIT           \* BCONNECTION_SEND_LIMIT and its like: calls in one turn

Require(x, b) == [x EXCEPT !.ok = @ /\ b]

(***************************************************************************)
(* BPending: setting a job moves it to the front.  A job is <<object, what *)
(* it belongs to, which>>.                                                 *)
(***************************************************************************)
BPending_Unset(x, j) == [x EXCEPT !.jobs = SelectSeq(@, LAMBDA e : e # <<x.i>> \o j)]

BPending_Set(x, j) ==
    LET d == BPending_Unset(x, j)
    IN  [d EXCEPT !.jobs = <<<<x.i>> \o j>> \o @]

(***************************************************************************)
(* The flow interfaces, alike for PacketPassInterface, PacketRecvInterface,*)
(* StreamPassInterface and StreamRecvInterface: _Init, _Free, Sender_Send  *)
(* or Receiver_Recv, and _Done; and the state in which the two jobs of an  *)
(* interface call the handlers.                                            *)
(***************************************************************************)
Interface_Init(x, f) == [x EXCEPT !.k.flow[f] = "none"]

Interface_Free(x, f) ==
    [BPending_Unset(BPending_Unset(x, <<f, "done">>), <<f, "op">>)
        EXCEPT !.k.flow[f] = "off"]

Interface_Operate(x, f) ==
    [BPending_Set(Require(x, x.k.flow[f] = "none"), <<f, "op">>)
        EXCEPT !.k.flow[f] = "op"]

Interface_Done(x, f) ==
    [BPending_Set(Require(x, x.k.flow[f] = "busy"), <<f, "done">>)
        EXCEPT !.k.flow[f] = "done"]

job_operation(x, f) == [Require(x, x.k.flow[f] = "op") EXCEPT !.k.flow[f] = "busy"]

job_done(x, f) == [Require(x, x.k.flow[f] = "done") EXCEPT !.k.flow[f] = "none"]

(***************************************************************************)
(* The reactor's side of a file descriptor: removing one also clears the   *)
(* result epoll_wait may have returned for it.                             *)
(***************************************************************************)
BReactor_RemoveFileDescriptor(x, w) ==
    [x EXCEPT !.results = SelectSeq(@, LAMBDA e : <<e.i, e.w>> # <<x.i, w>>)]

BReactor_SetFileDescriptorEvents(x, events) ==
    [Require(x, x.k.watched) EXCEPT !.k.wait = events]

wait_for_fd(x, e) == BReactor_SetFileDescriptorEvents(x, x.k.wait \cup {e})

LimitReached(count) == count >= LIMIT

ResetLimits(c) == [c EXCEPT !.slimit = 0, !.rlimit = 0]
================================================================================
