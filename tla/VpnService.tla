------------------------------ MODULE VpnService ------------------------------
(***************************************************************************)
(* The life of the VPN service: BaseService.Interface and the overrides of *)
(* DripVpnService, with the parts of ProxyInstance and GuardedProcessPool  *)
(* that start and stop with it.                                            *)
(*                                                                         *)
(* Everything but the binder call onRevoke runs on the main thread of the  *)
(* process :bg.  That thread takes one message at a time from a FIFO queue *)
(* (main); a coroutine runs without interruption from one suspension point *)
(* to the next.  A coroutine on Dispatchers.Main.immediate that becomes    *)
(* runnable on the main thread runs before the thread takes its next       *)
(* message (Idle is the guard that says so); one on Dispatchers.Main is    *)
(* posted to the queue.                                                    *)
(*                                                                         *)
(* A session is what one onStartCommand starts.  Its number exists only in *)
(* the model: it tells apart the things an earlier session has left behind *)
(* from those of the present one.  A number that nothing refers to any     *)
(* more is used again.                                                     *)
(***************************************************************************)
EXTENDS Naturals, Sequences

CONSTANTS
    Sessions,   \* the numbers of sessions
    Stops,      \* the names of stopRunner's coroutines
    None,       \* null
    Commands,   \* what is posted from outside, among start, close and reload
    Persist,    \* the values the setting persistAcrossReboot takes
    MaxTries,   \* sendFd gives up once tries > MaxTries; 5 in the code
    MaxMain     \* bound: nobody outside posts to a queue this long

ASSUME ConstantsAssumption ==
    /\ None \notin Sessions
    /\ Commands \subseteq {"start", "close", "reload"}
    /\ Persist \subseteq BOOLEAN /\ Persist # {}
    /\ MaxTries \in Nat
    /\ MaxMain \in Nat

VARIABLES
    state,          \* data.state
    connectingJob,  \* data.connectingJob: the session it connects, or None
    job,            \* the connecting coroutine of each session
    field,          \* which session's resource each nullable field holds
    live,           \* the resources that exist, as <<resource, session>>
    stopper,        \* the coroutines stopRunner has launched
    main,           \* the message queue of the main thread
    listeners,      \* the keys of DefaultNetworkListener's listeners
    enabled,        \* DripVpnReceiver.enabled, kept by the package manager
    orphans         \* child processes of an earlier run of :bg: none, alive, or
                    \* spared by a killAll that did not reach them

vars == <<state, connectingJob, job, field, live, stopper, main, listeners,
          enabled, orphans>>

State == {"Connecting", "Connected", "Stopping", "Stopped"}
canStop == {"Connecting", "Connected"}

(***************************************************************************)
(* What a session holds.  Guards are child processes with the coroutine    *)
(* that watches each; Threads are the socket listeners; the others are     *)
(* released by a plain call.  proxy stands for data.proxy together with    *)
(* data.udpFallback.                                                       *)
(***************************************************************************)
Guards == {"ss_local", "tun2socks"}
Threads == {"worker", "monitor", "localDns"}
Resource == Guards \cup Threads
              \cup {"proxy", "receiver", "notification", "processes", "active", "conn"}
Thing == Resource \X Sessions

\* The order in which the connecting job acquires what onStartCommand has not.
StartOrder == <<"processes", "worker", "monitor", "ss_local", "localDns",
                "active", "conn", "tun2socks">>

(***************************************************************************)
(* Where a connecting job is: dispatched but not begun; in the IO thread,  *)
(* flattening the custom rules; back from it; in the delay of sendFd;      *)
(* cancelled in that delay; or absent, never begun or complete.            *)
(***************************************************************************)
Phase == {"queued", "acl", "aclBack", "sendFd", "unwinding", "none"}
Job == [at : Phase, cancelled : BOOLEAN, tries : 0..(MaxTries + 1)]
NoJob == [at |-> "none", cancelled |-> FALSE, tries |-> 0]

Stopper == [at : {"idle", "posted", "begin", "joining", "cleaning"},
            joins : Sessions \cup {None}, restart : BOOLEAN, waits : SUBSET Thing]
NoStopper == [at |-> "idle", joins |-> None, restart |-> FALSE, waits |-> {}]

Command == [what : {"start", "close", "reload"}]
JobMsg(s) == [what |-> "job", session |-> s]
FatalMsg(s) == [what |-> "fatal", session |-> s]
ChildMsg(k, x) == [what |-> "child", stopper |-> k, thing |-> x]
StopMsg(k) == [what |-> "stop", stopper |-> k]
StartMsg == [what |-> "start"]
Message == Command \cup {JobMsg(s) : s \in Sessions}
             \cup {FatalMsg(s) : s \in Sessions}
             \cup {ChildMsg(k, x) : k \in Stops, x \in Thing}
             \cup {StopMsg(k) : k \in Stops}

TypeOK ==
    /\ state \in State
    /\ connectingJob \in Sessions \cup {None}
    /\ job \in [Sessions -> Job]
    /\ field \in [Resource -> Sessions \cup {None}]
    /\ live \subseteq Thing
    /\ stopper \in [Stops -> Stopper]
    /\ main \in Seq(Message)
    /\ listeners \subseteq {"service", "scope"}
    /\ enabled \in BOOLEAN
    /\ orphans \in {"none", "alive", "spared"}

Init ==
    /\ state = "Stopped"
    /\ connectingJob = None
    /\ job = [s \in Sessions |-> NoJob]
    /\ field = [r \in Resource |-> None]
    /\ live = {}
    /\ stopper = [k \in Stops |-> NoStopper]
    /\ main = <<>>
    /\ listeners = {}
    /\ enabled = FALSE
    /\ orphans \in {"none", "alive"}
-----------------------------------------------------------------------------
(***************************************************************************)
(* The main thread.                                                        *)
(***************************************************************************)
\* Fault: stopRunner neither cancels nor joins the connecting job.
JoinedAtOnce(k) == TRUE

\* The job that stopper k waits for is complete (or there is none).
Joined(k) == stopper[k].joins # None => job[stopper[k].joins].at = "none"

\* No coroutine of stopRunner can run on: the thread may take a message.
Idle ==
    \A k \in Stops : /\ stopper[k].at # "begin"
                     /\ stopper[k].at = "joining" => ~Joined(k)
                     /\ stopper[k].at = "cleaning" => stopper[k].waits # {}

Receive(m) == Idle /\ main # <<>> /\ Head(main) = m
Take(m) == Receive(m) /\ main' = Tail(main)

\* A session number that nothing refers to.
Fresh(s) ==
    /\ job[s] = NoJob
    /\ connectingJob # s
    /\ \A r \in Resource : field[r] # s /\ <<r, s>> \notin live
    /\ \A i \in 1..Len(main) : main[i] \notin {JobMsg(s), FatalMsg(s)}

\* The fields of R are set to what session s has created.
Holding(s, R) == [r \in Resource |-> IF r \in R THEN s ELSE field[r]]

\* Fault: stopRunner has lost its early return.
StopsEveryTime == FALSE

AlreadyStopping == state = "Stopping"

(***************************************************************************)
(* stopRunner, called on the main thread: its coroutine begins at once, so *)
(* it reads data.connectingJob now.                                        *)
(***************************************************************************)
StopRunner(restart) ==
    IF AlreadyStopping THEN UNCHANGED <<state, stopper>>
    ELSE /\ state' = "Stopping"
         /\ \E k \in Stops :
              /\ stopper[k].at = "idle"
              /\ stopper' = [stopper EXCEPT ![k] =
                   [at |-> "begin", joins |-> connectingJob, restart |-> restart,
                    waits |-> {}]]
-----------------------------------------------------------------------------
(***************************************************************************)
(* onStartCommand.                                                         *)
(***************************************************************************)
\* The service mode is not VPN, or the VPN permission is missing.
OnStartUnprepared ==
    /\ Take(StartMsg)
    /\ StopRunner(FALSE)
    /\ UNCHANGED <<connectingJob, job, field, live, listeners, enabled, orphans>>

\* Fault: a start is accepted in every state.
StartsAnyTime == TRUE

MayStart == state = "Stopped"

OnStartIgnored ==
    /\ Take(StartMsg)
    /\ ~MayStart
    /\ UNCHANGED <<state, connectingJob, job, field, live, stopper, listeners,
                   enabled, orphans>>

\* There is no current profile, or a ProxyInstance rejects it: the profile's
\* own, or the one of the UDP fallback once data.proxy is set.
OnStartRejected ==
    /\ Take(StartMsg)
    /\ MayStart
    /\ \E s \in Sessions, R \in {{"notification"}, {"notification", "proxy"}} :
         /\ Fresh(s)
         /\ field' = Holding(s, R)
         /\ live' = live \cup (R \X {s})
    /\ StopRunner(FALSE)
    /\ UNCHANGED <<connectingJob, job, listeners, enabled, orphans>>

OnStartCommand ==
    /\ Receive(StartMsg)
    /\ MayStart
    /\ \E s \in Sessions :
         LET R == {"proxy", "notification"}
                    \cup {r \in {"receiver"} : field[r] = None}
         IN  /\ Fresh(s)
             /\ field' = [Holding(s, R) EXCEPT !["monitor"] = None]
             /\ live' = live \cup (R \X {s})
             /\ connectingJob' = s
             /\ job' = [job EXCEPT ![s] = [NoJob EXCEPT !.at = "queued"]]
             /\ main' = Append(Tail(main), JobMsg(s))
    /\ enabled' \in Persist     \* DataStore.persistAcrossReboot
    /\ state' = "Connecting"
    /\ UNCHANGED <<stopper, listeners, orphans>>
-----------------------------------------------------------------------------
(***************************************************************************)
(* The connecting job.                                                     *)
(***************************************************************************)
Cancelled(s) == job[s].cancelled

\* Fault: the processes of an earlier run are left alone.
KillNothing == {orphans}

\* orphans after Executable.killAll, which returns silently when it cannot list
\* the processes and only logs a kill that fails.
KillAll == IF orphans = "none" THEN {"none"} ELSE {"none", "spared"}

NextTry(s) == [job EXCEPT ![s].tries = @ + 1]

MayRetry(s) == job[s].tries <= MaxTries

\* It ends; its finally clause forgets whatever job data.connectingJob names.
JobEnds(s) ==
    /\ job' = [job EXCEPT ![s] = NoJob]
    /\ connectingJob' = None

JobFails(s) == StopRunner(FALSE) /\ JobEnds(s)

\* From the process pool to the first delay of sendFd, or to an exception
\* after some of StartOrder.
StartProcesses(s) ==
    \E n \in 1..Len(StartOrder) :
      LET R == {StartOrder[i] : i \in 1..n}
      IN  /\ field' = Holding(s, R)
          /\ live' = live \cup (R \X {s})
          /\ \/ JobFails(s)
             \/ /\ n = Len(StartOrder)
                /\ job' = [job EXCEPT ![s].at = "sendFd"]
                /\ UNCHANGED <<state, stopper, connectingJob>>

\* A job cancelled before it has begun completes without running its body, and
\* so without its finally clause.
JobBegins(s) ==
    /\ Take(JobMsg(s))
    /\ job[s].at = "queued"
    /\ UNCHANGED enabled
    /\ \/ /\ Cancelled(s)
          /\ job' = [job EXCEPT ![s] = NoJob]
          /\ UNCHANGED <<state, connectingJob, field, live, stopper, listeners, orphans>>
       \/ /\ ~Cancelled(s)
          /\ orphans' \in KillAll
          /\ listeners' = listeners \cup {"service"}        \* preInit
          /\ \/ /\ job' = [job EXCEPT ![s].at = "acl"]      \* Acl.CUSTOM_RULES
                /\ UNCHANGED <<state, connectingJob, field, live, stopper>>
             \/ StartProcesses(s)

\* The IO thread has flattened and saved the custom rules, or has failed.
AclReturns(s) ==
    /\ job[s].at = "acl"
    /\ job' = [job EXCEPT ![s].at = "aclBack"]
    /\ main' = Append(main, JobMsg(s))
    /\ UNCHANGED <<state, connectingJob, field, live, stopper, listeners, enabled, orphans>>

JobContinues(s) ==
    /\ Take(JobMsg(s))
    /\ job[s].at = "aclBack"
    /\ UNCHANGED <<listeners, enabled, orphans>>
    /\ \/ /\ Cancelled(s)
          /\ JobEnds(s)
          /\ UNCHANGED <<state, field, live, stopper>>
       \/ /\ ~Cancelled(s)
          /\ JobFails(s)                                    \* IOException
          /\ UNCHANGED <<field, live>>
       \/ /\ ~Cancelled(s)
          /\ StartProcesses(s)

\* The delay of sendFd is over: the descriptor goes through, and the job is
\* done; or the socket does not answer, and it tries again; or it gives up,
\* when its tries are used up or at once (ErrnoException).
SendFd(s) ==
    /\ Idle
    /\ job[s].at = "sendFd"
    /\ UNCHANGED <<field, live, main, listeners, enabled, orphans>>
    /\ \/ /\ state' = "Connected"
          /\ JobEnds(s)
          /\ UNCHANGED stopper
       \/ /\ MayRetry(s)
          /\ job' = NextTry(s)
          /\ UNCHANGED <<state, connectingJob, stopper>>
       \/ JobFails(s)

\* The cancellation reaches the job in the delay of sendFd.
JobUnwinds(s) ==
    /\ Take(JobMsg(s))
    /\ job[s].at = "unwinding"
    /\ JobEnds(s)
    /\ UNCHANGED <<state, field, live, stopper, listeners, enabled, orphans>>
-----------------------------------------------------------------------------
(***************************************************************************)
(* Reasons to stop.                                                        *)
(***************************************************************************)
\* A broadcast is delivered only while data.closeReceiver is registered.
OnClose ==
    /\ Take([what |-> "close"])
    /\ IF field["receiver"] # None THEN StopRunner(FALSE)
                                   ELSE UNCHANGED <<state, stopper>>
    /\ UNCHANGED <<connectingJob, job, field, live, listeners, enabled, orphans>>

\* forceLoad
OnReload ==
    /\ Receive([what |-> "reload"])
    /\ main' = IF field["receiver"] # None /\ state = "Stopped"
               THEN Append(Tail(main), StartMsg) ELSE Tail(main)
    /\ IF field["receiver"] # None /\ state \in canStop
       THEN StopRunner(TRUE) ELSE UNCHANGED <<state, stopper>>
    /\ UNCHANGED <<connectingJob, job, field, live, listeners, enabled, orphans>>

\* Fault: the guard keeps the failure to itself.
NoReport(s) == main

Report(s) == Append(main, FatalMsg(s))

\* The guard of a process of an open pool sees the process exit too fast, or
\* fails to start it again: it reports to the main thread and is gone.
GuardFails(s, g) ==
    /\ Idle
    /\ <<g, s>> \in live
    /\ field[g] = s
    /\ live' = live \ {<<g, s>>}
    /\ field' = [field EXCEPT ![g] = None]
    /\ main' = Report(s)
    /\ UNCHANGED <<state, connectingJob, job, stopper, listeners, enabled, orphans>>

\* It has started tun2socks again and cannot hand it the tunnel: it stops the
\* service (ErrnoException), or it gives up and reports (IOException), and the
\* process it must still kill stays with the pool, where GuardFails may report
\* once more than the code would.  Bound: one such report at a time.
RestartFails(s) ==
    /\ Idle
    /\ <<"tun2socks", s>> \in live
    /\ field["tun2socks"] = s
    /\ \/ StopRunner(FALSE) /\ UNCHANGED main
       \/ /\ \A i \in 1..Len(main) : main[i] # FatalMsg(s)
          /\ main' = Report(s)
          /\ UNCHANGED <<state, stopper>>
    /\ UNCHANGED <<connectingJob, job, field, live, listeners, enabled, orphans>>

\* onFatal
OnFatal(s) ==
    /\ Take(FatalMsg(s))
    /\ StopRunner(FALSE)
    /\ UNCHANGED <<connectingJob, job, field, live, listeners, enabled, orphans>>
-----------------------------------------------------------------------------
(***************************************************************************)
(* The coroutine of stopRunner.                                            *)
(***************************************************************************)
\* cancelAndJoin: a job in a delay is resumed by the cancellation; one that is
\* queued or in the IO thread learns of it when it runs on.
StopperCancels(k) ==
    LET c == stopper[k].joins
        cancels == ~Joined(k)
        wakes == cancels /\ job[c].at = "sendFd"
    IN  /\ stopper[k].at = "begin"
        /\ stopper' = [stopper EXCEPT ![k].at = "joining"]
        /\ job' = IF cancels
                  THEN [job EXCEPT ![c].cancelled = TRUE,
                                   ![c].at = IF wakes THEN "unwinding" ELSE @]
                  ELSE job
        /\ main' = IF wakes THEN Append(main, JobMsg(c)) ELSE main
        /\ UNCHANGED <<state, connectingJob, field, live, listeners, enabled, orphans>>

\* Fault: the tunnel is not closed.
HeldButConn == {x \in Thing : x[1] # "conn" /\ field[x[1]] = x[2]}

\* What the fields hold.
Held == {x \in Thing : field[x[1]] = x[2]}

(***************************************************************************)
(* killProcesses and the rest of the coroutineScope block, up to its wait. *)
(* A guard kills its process and waits for the exit; a thread may have     *)
(* ended before the coroutine asks.  The key that                          *)
(* DefaultNetworkListener.stop gets is the CoroutineScope of the launch    *)
(* around it, not the service that start was called with.                  *)
(***************************************************************************)
StopperCleans(k) ==
    /\ stopper[k].at = "joining"
    /\ Joined(k)
    /\ \E threads \in SUBSET {x \in Held : x[1] \in Threads} :
         LET waits == threads \cup {x \in Held : x[1] \in Guards}
         IN  /\ stopper' = [stopper EXCEPT ![k].at = "cleaning", ![k].waits = waits]
             /\ live' = live \ (Held \ waits)
    /\ field' = [r \in Resource |-> None]
    /\ listeners' = listeners \ {"scope"}
    /\ UNCHANGED <<state, connectingJob, job, main, enabled, orphans>>

\* Fault: a listener thread ends without a word on its closeChannel.
EndsSilently(k, x) == main

Notify(k, x) == Append(main, ChildMsg(k, x))

\* A process has exited, or a listener thread has ended: the coroutine that
\* waits for it is posted.
ChildExits(k, x) ==
    /\ x \in stopper[k].waits
    /\ x \in live
    /\ live' = live \ {x}
    /\ main' = Notify(k, x)
    /\ UNCHANGED <<state, connectingJob, job, field, stopper, listeners, enabled, orphans>>

ChildJoined(k, x) ==
    /\ Take(ChildMsg(k, x))
    /\ stopper' = [stopper EXCEPT ![k].waits = @ \ {x}]
    /\ UNCHANGED <<state, connectingJob, job, field, live, listeners, enabled, orphans>>

\* Fault: the boot receiver is left as it was.
KeepBoot == enabled

\* DripVpnReceiver.enabled after a stop that is not a restart
BootAfterStop == FALSE

StopperFinishes(k) ==
    /\ stopper[k].at = "cleaning"
    /\ stopper[k].waits = {}
    /\ state' = "Stopped"
    /\ stopper' = [stopper EXCEPT ![k] = NoStopper]
    /\ IF stopper[k].restart
       THEN main' = Append(main, StartMsg) /\ UNCHANGED enabled     \* startRunner
       ELSE enabled' = BootAfterStop /\ UNCHANGED main                   \* stopSelf
    /\ UNCHANGED <<connectingJob, job, field, live, listeners, orphans>>
-----------------------------------------------------------------------------
(***************************************************************************)
(* The environment.                                                        *)
(***************************************************************************)
\* Somebody starts, closes or reloads the service.
Post(m) ==
    /\ Len(main) < MaxMain
    /\ main' = Append(main, m)
    /\ UNCHANGED <<state, connectingJob, job, field, live, stopper, listeners,
                   enabled, orphans>>

\* The process :bg dies.  Its child processes do not die with it.
Crash ==
    /\ state' = "Stopped"
    /\ connectingJob' = None
    /\ job' = [s \in Sessions |-> NoJob]
    /\ field' = [r \in Resource |-> None]
    /\ live' = {}
    /\ stopper' = [k \in Stops |-> NoStopper]
    /\ main' = <<>>
    /\ listeners' = {}
    /\ orphans' = IF \E x \in live : x[1] \in Guards THEN "alive" ELSE orphans
    /\ UNCHANGED enabled

(***************************************************************************)
(* onRevoke is called on a binder thread: stopRunner marks the state there *)
(* and then, at StopBegins, its coroutine begins on the main thread.  The  *)
(* test of the state and the write are one step here.                      *)
(***************************************************************************)
OnRevoke ==
    /\ state # "Stopping"
    /\ state' = "Stopping"
    /\ \E k \in Stops :
         /\ stopper[k].at = "idle"
         /\ stopper' = [stopper EXCEPT ![k].at = "posted"]
         /\ main' = Append(main, StopMsg(k))
    /\ UNCHANGED <<connectingJob, job, field, live, listeners, enabled, orphans>>

StopBegins(k) ==
    /\ Take(StopMsg(k))
    /\ stopper[k].at = "posted"
    /\ stopper' = [stopper EXCEPT ![k].at = "begin", ![k].joins = connectingJob]
    /\ UNCHANGED <<state, connectingJob, job, field, live, listeners, enabled, orphans>>
-----------------------------------------------------------------------------
\* A step of the main thread that takes a message.
Handle ==
    \/ OnStartUnprepared \/ OnStartIgnored \/ OnStartRejected \/ OnStartCommand
    \/ OnClose \/ OnReload
    \/ \E s \in Sessions : JobBegins(s) \/ JobContinues(s) \/ JobUnwinds(s) \/ OnFatal(s)
    \/ \E k \in Stops, x \in Thing : ChildJoined(k, x)

\* A step of a coroutine of stopRunner.
Stopping(k) == StopperCancels(k) \/ StopperCleans(k) \/ StopperFinishes(k)

\* Everything but a crash.
Step ==
    \/ Handle
    \/ \E k \in Stops : Stopping(k)
    \/ \E s \in Sessions : AclReturns(s) \/ SendFd(s) \/ RestartFails(s)
    \/ \E s \in Sessions, g \in Guards : GuardFails(s, g)
    \/ \E k \in Stops, x \in Thing : ChildExits(k, x)
    \/ \E c \in Commands : Post([what |-> c])

Next == Step \/ Crash

Spec == Init /\ [][Next]_vars

(***************************************************************************)
(* Fairness.  The main thread takes its messages (weak fairness of Handle, *)
(* which alone shortens the queue or puts something else into it) and runs *)
(* the coroutines of stopRunner; timers fire; a listener thread whose      *)
(* socket is closed ends.  A stop has three stretches, sendFd finitely     *)
(* many tries, and a thread ends once, so that fairness of these is that   *)
(* they are disabled again and again.  Neither a child process nor the IO  *)
(* thread owes the service anything: a guard may wait for ever for an exit *)
(* code, and the wait for a network has no timeout.                        *)
(***************************************************************************)
FairSpec ==
    /\ Spec
    /\ \/ []<>~(Idle /\ main # <<>>)
       \/ []<><<Len(main') <= Len(main) /\ main' # main>>_vars
    /\ []<>Idle
    /\ \A s \in Sessions : []<>~(Idle /\ job[s].at = "sendFd")
    /\ \A k \in Stops, x \in Threads \X Sessions : []<>~(x \in stopper[k].waits \cap live)

(***************************************************************************)
(* Spec is the service whose VPN permission stays; RevokeSpec is the       *)
(* service whose permission may be revoked at any moment.  Of the          *)
(* properties below OneStopper, Edges and the refinement of Lifecycle do   *)
(* not survive onRevoke, which StopWins shows; as long as NotRevoked holds *)
(* the two specifications are the same.                                    *)
(***************************************************************************)
RevokeNext == Next \/ OnRevoke \/ \E k \in Stops : StopBegins(k)
RevokeSpec == Init /\ [][RevokeNext]_vars

\* No stop that onRevoke has asked for waits to begin.
NotRevoked == \A k \in Stops : stopper[k].at # "posted"
-----------------------------------------------------------------------------
(***************************************************************************)
(* Properties.                                                             *)
(***************************************************************************)
\* The early return of stopRunner is enough: never do two of its coroutines
\* run at once, and the state is Stopping exactly while one does.
OneStopper ==
    /\ \A j, k \in Stops : stopper[j].at # "idle" /\ stopper[k].at # "idle" => j = k
    /\ state = "Stopping" <=> \E k \in Stops : stopper[k].at # "idle"

\* "ensure stop connecting first": no connecting job is under way while
\* stopRunner cleans up (cancelAndJoin before killProcesses).
StopAfterConnect ==
    \A k \in Stops : stopper[k].at = "cleaning" => \A s \in Sessions : job[s].at = "none"

\* The same seen from the state: while a stop is under way, also one that has
\* only been posted, connecting does not succeed any more.
StopWins == state = "Connected" => \A k \in Stops : stopper[k].at = "idle"

\* Once the state is Stopped, no process, thread, descriptor, receiver or
\* notification of any session is left, whichever step the session had reached
\* when it failed or was stopped.
NothingLeft ==
    state = "Stopped" =>
      /\ live = {}
      /\ \A r \in Resource : field[r] = None
      /\ \A s \in Sessions : job[s].at = "none"

\* No assignment to a field of Data or of DripVpnService drops the last
\* reference to something that is still alive.
NothingLost ==
    \A x \in live : field[x[1]] = x[2] \/ \E k \in Stops : x \in stopper[k].waits

\* While the state is Connected one session has everything; a child process
\* that is missing has been reported, and the report has not been handled.
ConnectedIsWhole ==
    state = "Connected" =>
      /\ "service" \in listeners
      /\ \E s \in Sessions : \A r \in Resource :
           \/ <<r, s>> \in live /\ field[r] = s
           \/ r \in Guards /\ \E i \in 1..Len(main) : main[i] = FatalMsg(s)

\* The child processes of this run of :bg never meet those of an earlier one,
\* but for the ones that killAll has failed to kill before the first was started.
NoForeignProcess == orphans = "alive" => \A x \in live : x[1] \notin Guards

\* The boot receiver is enabled, and the service neither runs nor is about to.
StaleFlag == state = "Stopped" /\ enabled /\ \A i \in 1..Len(main) : main[i] # StartMsg

\* Only a crash leaves the boot receiver enabled for a service that does not
\* run: every stop, every start that is refused and every restart that comes to
\* nothing clears the flag.
BootFlag == [][StaleFlag' => StaleFlag \/ Crash]_vars

Edge ==
    \/ state = "Stopped" /\ state' \in {"Connecting", "Stopping"}
    \/ state = "Connecting" /\ state' \in {"Connected", "Stopping"}
    \/ state = "Connected" /\ state' = "Stopping"
    \/ state = "Stopping" /\ state' = "Stopped"
    \/ Crash

\* The state changes only along these edges, the ones changeState's callers
\* mean; above all, a stop that has begun is never overtaken by Connected.
Edges == [][Edge]_state

\* A stop waits for a child process that has not exited.
AwaitsProcess == \E k \in Stops : \E x \in stopper[k].waits \cap live : x[1] \in Guards

\* A connecting job is in the IO thread, which may wait for a network or a server.
Flattening == \E s \in Sessions : job[s].at = "acl"

\* The service never hangs by itself.  Connecting ends one way or the other
\* (sendFd gives up in the end) unless the IO thread never returns; a stop
\* completes, also the one a failing connecting job asks for, which has to wait
\* for that very job, unless the IO thread or a process it waits for never ends.
ChangesEnd ==
    []<>~Flattening =>
      /\ state = "Connecting" ~> state # "Connecting"
      /\ []<>~AwaitsProcess => (state = "Stopping" ~> state = "Stopped")

\* A session whose child process has gone for good does not stay Connected.
DeadProcessEndsSession ==
    (state = "Connected" /\ \E g \in Guards : field[g] = None) ~> state # "Connected"
=============================================================================
