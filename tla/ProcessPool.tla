----------------------------- MODULE ProcessPool -----------------------------
(***************************************************************************)
(* GuardedProcessPool: the looper of each guard, the thread that waits for *)
(* its process, the channel between them, and the close of the pool.       *)
(*                                                                         *)
(* The looper runs on Dispatchers.Main.immediate.  A send of the exit code *)
(* from the waiting thread hands the code over and posts the resumption of *)
(* the looper to the main thread (recv = "handed"); until that message is  *)
(* taken, the cancellation of the pool or a timeout still wins, and the    *)
(* code is then lost: coroutines 1.6.4 cancel promptly.                    *)
(***************************************************************************)
EXTENDS Naturals

CONSTANTS
    Guards,     \* the processes the pool is asked to run
    Callbacks,  \* those started with an onRestartCallback
    Apis,       \* the SDK levels: 23, 24 stands for 24 and 25, 26 for the rest
    MaxStarts   \* bound: how often one guard starts its process

ASSUME PoolAssumption ==
    /\ Callbacks \subseteq Guards
    /\ Apis \subseteq {23, 24, 26}
    /\ MaxStarts \in Nat \ {0}

VARIABLES
    api,        \* Build.VERSION.SDK_INT
    cancelled,  \* the pool's job is cancelled
    guard       \* the state of each guard

vars == <<api, cancelled, guard>>

(***************************************************************************)
(* proc     the current process; one that is "asked" has got SIGTERM and   *)
(*          may take its time, one that is "killed" cannot                 *)
(* waiter   the thread that sends the exit code of the current process     *)
(* recv     the looper's call of exitChannel.receive()                     *)
(* pc       where the looper is: in the receive of its loop, in the        *)
(*          restart callback, in one of the three receives of the clean-up *)
(* is       flags: the local variable "running"; "expired", a timeout of   *)
(*          withTimeoutOrNull whose block has yet to end; "reported",      *)
(*          onFatal is posted                                              *)
(***************************************************************************)
NoGuard == [proc |-> "none", waiter |-> "none", recv |-> "no", pc |-> "none",
            is |-> {}, starts |-> 0]

Init ==
    /\ api \in Apis
    /\ cancelled = FALSE
    /\ guard = [g \in Guards |-> NoGuard]

Set(g, r) == guard' = [guard EXCEPT ![g] = r]

-----------------------------------------------------------------------------
\* The steps of a looper, as functions of the guard's record.

Receive(r, pc) == [r EXCEPT !.pc = pc, !.recv = "wait", !.is = @ \ {"expired"}]

\* process.destroy() before API 24 and destroyForcibly(): SIGKILL.
Kill(r) == [r EXCEPT !.proc = IF @ = "dead" THEN @ ELSE "killed"]

\* SIGTERM: Os.kill before API 24, process.destroy() from API 24 on.
Ask(r) == [r EXCEPT !.proc = IF @ = "alive" THEN "asked" ELSE @]

End(r) == [r EXCEPT !.pc = "end", !.recv = "no", !.is = @ \ {"expired"}]

\* Guard.start(), and running = true after it.
Started(r) ==
    [r EXCEPT !.proc = "alive", !.waiter = "none", !.starts = @ + 1,
              !.is = @ \cup {"running"}]

\* The top of the loop: the threads of the process, then the receive.
LoopTop(r) == Receive([r EXCEPT !.waiter = "waits"], "loop")

\* Fault: a second SIGTERM where the process is to be killed.
LastResort_ask(r) == Receive(Ask(r), "last")

\* The end of either timeout: the process is killed and waited for.  On API 24
\* and 25 there is no timeout and nothing stronger than SIGTERM.
LastResort(r) == Receive(IF api = 24 THEN Ask(r) ELSE Kill(r), "last")

\* The finally block.
Cleanup(r) ==
    IF "running" \notin r.is THEN End(r)
    ELSE CASE api = 23 -> Receive(Ask(r), "term")
           [] api = 24 -> LastResort(r)
           [] api = 26 -> Receive(Ask(r), "ask")

\* Fault: a process that exits too fast ends its guard, and nobody is told.
Fatal_quiet(r) == Cleanup(r)

\* An IOException in the loop.
Fatal(r) == Cleanup([r EXCEPT !.is = @ \cup {"reported"}])

-----------------------------------------------------------------------------
\* GuardedProcessPool.start: the process runs, and its looper gets as far as
\* the receive.  Nobody starts anything in a pool that is being closed.
Start(g) ==
    /\ ~cancelled /\ guard[g].pc = "none"
    /\ Set(g, LoopTop(Started(guard[g])))
    /\ UNCHANGED <<api, cancelled>>

\* A process exits by itself, or at last because of a signal.
Exit(g) ==
    /\ guard[g].proc \in {"alive", "asked", "killed"}
    /\ Set(g, [guard[g] EXCEPT !.proc = "dead"])
    /\ UNCHANGED <<api, cancelled>>

\* waitFor returns in the waiting thread, and its send meets the receive.
HandOver(g) ==
    /\ guard[g].waiter = "waits" /\ guard[g].proc = "dead" /\ guard[g].recv = "wait"
    /\ Set(g, [guard[g] EXCEPT !.waiter = "sent", !.recv = "handed"])
    /\ UNCHANGED <<api, cancelled>>

\* The looper has the exit code: too fast an exit and a start that fails end
\* it, otherwise the process runs again, and its callback is called.
Exited(g) ==
    LET r == [guard[g] EXCEPT !.is = @ \ {"running"}, !.recv = "no"]
    IN \/ Set(g, Fatal(r))
       \/ /\ r.starts < MaxStarts
          /\ Set(g, IF g \in Callbacks THEN [Started(r) EXCEPT !.pc = "callback"]
                                       ELSE LoopTop(Started(r)))

\* The main thread resumes the receive of a looper.
Resume(g) ==
    /\ guard[g].recv = "handed"
    /\ CASE guard[g].pc = "loop" ->
              IF cancelled THEN Set(g, Cleanup([guard[g] EXCEPT !.recv = "no"])) ELSE Exited(g)
         [] guard[g].pc \in {"term", "ask"} ->
              Set(g, IF "expired" \in guard[g].is THEN LastResort(guard[g]) ELSE End(guard[g]))
         [] guard[g].pc = "last" -> Set(g, End(guard[g]))
    /\ UNCHANGED <<api, cancelled>>

\* Fault: the clean-up returns whatever the timed receive has returned.
Timeout_returns(g) ==
    /\ guard[g].pc \in {"term", "ask"} /\ "expired" \notin guard[g].is
    /\ Set(g, IF guard[g].recv = "wait" THEN End(guard[g])
                                         ELSE [guard[g] EXCEPT !.is = @ \cup {"expired"}])
    /\ UNCHANGED <<api, cancelled>>

\* The timeout of the clean-up's first receive.
Timeout(g) ==
    /\ guard[g].pc \in {"term", "ask"} /\ "expired" \notin guard[g].is
    /\ Set(g, IF guard[g].recv = "wait" THEN LastResort(guard[g])
                                         ELSE [guard[g] EXCEPT !.is = @ \cup {"expired"}])
    /\ UNCHANGED <<api, cancelled>>

\* onRestartCallback, which is sendFd in the delays between its tries: it
\* gets through, or gives up with the IOException of its last try.
CallbackEnds(g) ==
    /\ guard[g].pc = "callback"
    /\ \/ Set(g, LoopTop(guard[g]))
       \/ Set(g, Fatal(guard[g]))
    /\ UNCHANGED <<api, cancelled>>

\* close: the cancellation reaches every looper that is suspended outside
\* its clean-up, except one whose resumption is already on its way.
Close ==
    /\ ~cancelled
    /\ cancelled' = TRUE
    /\ guard' = [g \in Guards |->
                   IF \/ guard[g].pc = "loop" /\ guard[g].recv = "wait"
                      \/ guard[g].pc = "callback"
                   THEN Cleanup(guard[g]) ELSE guard[g]]
    /\ UNCHANGED api

\* The join in close's scope is over.
Joined == cancelled /\ \A g \in Guards : guard[g].pc \in {"none", "end"}

Next ==
    \/ \E g \in Guards : Start(g)
    \/ \E g \in Guards : Exit(g)
    \/ \E g \in Guards : HandOver(g)
    \/ \E g \in Guards : Resume(g)
    \/ \E g \in Guards : Timeout(g)
    \/ \E g \in Guards : CallbackEnds(g)
    \/ Close

Spec == Init /\ [][Next]_vars

\* A process that is killed exits; the waiting thread, the main thread and
\* the clock go on; sendFd has a finite number of tries.
Fairness ==
    \A g \in Guards :
        /\ WF_vars(guard[g].proc = "killed" /\ Exit(g))
        /\ WF_vars(HandOver(g))
        /\ WF_vars(Resume(g))
        /\ WF_vars(Timeout(g))
        /\ WF_vars(CallbackEnds(g))

FairSpec == Spec /\ Fairness

-----------------------------------------------------------------------------
\* The types of the variables: the SDK level, the pool's cancellation and a
\* record per guard.
TypeOK ==
    /\ api \in Apis
    /\ cancelled \in BOOLEAN
    /\ guard \in [Guards -> [proc : {"none", "alive", "asked", "killed", "dead"},
                             waiter : {"none", "waits", "sent"},
                             recv : {"no", "wait", "handed"},
                             pc : {"none", "loop", "callback", "term", "ask", "last", "end"},
                             is : SUBSET {"running", "expired", "reported"},
                             starts : 0..MaxStarts]]

\* What the clean-up relies on, inductively: running is set as long as the
\* looper is under way, an exit code that has been handed over is that of the
\* present process, and a guard cleans up because it was told to or has told.
PoolInv ==
    /\ TypeOK
    /\ \A g \in Guards :
          /\ guard[g].pc \notin {"none", "end"} <=> "running" \in guard[g].is /\ guard[g].pc # "end"
          /\ guard[g].pc = "none" => guard[g].recv = "no" /\ guard[g].starts = 0
          /\ guard[g].recv = "handed" => guard[g].proc = "dead" /\ guard[g].waiter = "sent"
          /\ guard[g].recv = "no" <=> guard[g].pc \in {"none", "callback", "end"}
          /\ guard[g].pc = "end" => guard[g].proc = "dead"
          /\ guard[g].pc \in {"term", "ask", "last", "end"} => cancelled \/ "reported" \in guard[g].is

\* A looper that has ended leaves no process behind, whatever it was doing
\* when the pool was closed: receiving, restarting, or resumed too late.
NoOrphan == \A g \in Guards : guard[g].pc = "end" => guard[g].proc = "dead"

\* A guard does not end by itself without telling onFatal, which is how the
\* service learns that it has lost a process for good.
NotSilent == \A g \in Guards : guard[g].pc = "end" /\ ~cancelled => "reported" \in guard[g].is

\* The last receive of the clean-up has nobody left to send to it: the exit
\* code was lost to a cancellation or to the timeout, or the process was
\* restarted and its waiting thread is only created at the top of the loop.
Spent(g) ==
    guard[g].pc = "last" /\ guard[g].recv = "wait" /\ guard[g].waiter # "waits"

\* On API 24 and 25 a guard waits for a process that has only got SIGTERM.
Deaf(g) == api = 24 /\ guard[g].pc = "last" /\ guard[g].proc = "asked"

\* A closed pool is joined, unless one of its guards waits for an exit code
\* that nobody will send.  A process that ignores SIGTERM holds it up on API 24
\* and 25 only.
JoinedOrSpent ==
    (\A g \in Guards : []<>~Deaf(g)) => (cancelled ~> (Joined \/ \E g \in Guards : Spent(g)))

\* A process that exits in an open pool runs again, or is reported, or the
\* pool is closed.
Restarted ==
    \A g \in Guards :
        guard[g].proc = "dead" ~> (guard[g].proc = "alive" \/ "reported" \in guard[g].is \/ cancelled)
=============================================================================
