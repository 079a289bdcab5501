-------------------------- MODULE VpnServiceProofs --------------------------
(***************************************************************************)
(* Proofs about VpnService, for every set of sessions and of stoppers: its *)
(* safety, and that it implements Lifecycle.                               *)
(***************************************************************************)
EXTENDS VpnRefinement, TLAPS

\* What onStartCommand acquires itself.
First == {"proxy", "receiver", "notification"}

\* A connecting job that has not ended is the one data.connectingJob names, and
\* a coroutine of stopRunner that runs meanwhile waits for it and, once past
\* the cancellation, finds it cancelled and out of its delay.
TheJob ==
    \A s \in Sessions : job[s].at # "none" =>
      /\ connectingJob = s
      /\ state \in {"Connecting", "Stopping"}
      /\ \A k \in Stops : stopper[k].at # "idle" =>
           /\ stopper[k].at \in {"begin", "joining"}
           /\ stopper[k].joins = s
           /\ stopper[k].at = "joining" => job[s].cancelled /\ job[s].at # "sendFd"

\* Only a coroutine that cleans up waits for children, and it has cleared the
\* fields.
Stoppers ==
    \A k \in Stops :
      /\ stopper[k].at # "cleaning" => stopper[k].waits = {}
      /\ stopper[k].at = "cleaning" => \A r \in Resource : field[r] = None

\* Before the process pool is made, only what onStartCommand acquired is there.
Early ==
    \A s \in Sessions : job[s].at \in {"queued", "acl", "aclBack"} =>
      /\ \A x \in live : x[1] \in First
      /\ state = "Connecting" => \A r \in First : <<r, s>> \in live /\ field[r] = s

\* A posted child has ended, is still waited for, and has been posted once.
Children ==
    \A i \in 1..Len(main), k \in Stops, x \in Thing : main[i] = ChildMsg(k, x) =>
      /\ x \in stopper[k].waits
      /\ x \notin live
      /\ \A j \in 1..Len(main) : main[j] = main[i] => j = i

\* The inductive invariant of the safety properties.
IInv ==
    /\ TypeOK
    /\ OneStopper /\ NothingLeft /\ NothingLost
    /\ TheJob /\ Stoppers /\ Early /\ Children
-----------------------------------------------------------------------------
(***************************************************************************)
(* Types.                                                                  *)
(***************************************************************************)
\* What the actions post is a message.
LEMMA MessageTypes ==
    /\ StartMsg \in Message
    /\ \A c \in Commands : [what |-> c] \in Message
    /\ \A s \in Sessions : JobMsg(s) \in Message /\ FatalMsg(s) \in Message
    /\ \A k \in Stops, x \in Thing : ChildMsg(k, x) \in Message
  BY ConstantsAssumption DEF Message, Command, StartMsg

\* Taking a message leaves a queue; so does stopRunner leave a typed state.
LEMMA TakeType == ASSUME TypeOK, main # <<>> PROVE Tail(main) \in Seq(Message)
  BY DEF TypeOK

\* stopRunner keeps the types of what it writes.
LEMMA StopRunnerType ==
    ASSUME TypeOK, NEW restart \in BOOLEAN, StopRunner(restart)
    PROVE  state' \in State /\ stopper' \in [Stops -> Stopper]
<1>. DEFINE begun == [at |-> "begin", joins |-> connectingJob, restart |-> restart,
                      waits |-> {}]
<1>2. begun \in Stopper
  BY DEF TypeOK, Stopper
<1>. HIDE DEF begun
<1>3. CASE AlreadyStopping
  BY <1>3 DEF TypeOK, StopRunner
<1>4. CASE ~AlreadyStopping
  BY <1>2, <1>4 DEF TypeOK, StopRunner, State, begun
<1>. QED  BY <1>3, <1>4

\* The end of a connecting job, with its finally, keeps the types.
LEMMA JobEndsType ==
    ASSUME TypeOK, NEW s \in Sessions, JobEnds(s)
    PROVE  job' \in [Sessions -> Job] /\ connectingJob' \in Sessions \cup {None}
  BY ConstantsAssumption DEF TypeOK, JobEnds, NoJob, Job, Phase

\* Acquiring resources keeps the types of the fields and of what is alive.
LEMMA HoldingType ==
    ASSUME TypeOK, NEW s \in Sessions, NEW R \in SUBSET Resource
    PROVE  /\ Holding(s, R) \in [Resource -> Sessions \cup {None}]
           /\ live \cup (R \X {s}) \subseteq Thing
  BY DEF TypeOK, Holding, Thing

\* What startProcesses acquires are resources.
LEMMA StartOrderResources ==
    /\ Len(StartOrder) = 8
    /\ \A n \in 1..8 : {StartOrder[i] : i \in 1..n} \subseteq Resource
  BY DEF StartOrder, Resource, Guards, Threads

\* startProcesses, also when it fails half-way, keeps the types.
LEMMA StartProcessesType ==
    ASSUME TypeOK, NEW s \in Sessions, StartProcesses(s)
    PROVE  /\ field' \in [Resource -> Sessions \cup {None}]
           /\ live' \subseteq Thing
           /\ state' \in State /\ stopper' \in [Stops -> Stopper]
           /\ job' \in [Sessions -> Job] /\ connectingJob' \in Sessions \cup {None}
<1>1. PICK n \in 1..8 :
        LET R == {StartOrder[i] : i \in 1..n}
        IN  /\ field' = Holding(s, R)
            /\ live' = live \cup (R \X {s})
            /\ \/ JobFails(s)
               \/ /\ job' = [job EXCEPT ![s].at = "sendFd"]
                  /\ UNCHANGED <<state, stopper, connectingJob>>
  BY StartOrderResources DEF StartProcesses
<1>2. field' \in [Resource -> Sessions \cup {None}] /\ live' \subseteq Thing
  BY <1>1, StartOrderResources, HoldingType
<1>3. CASE JobFails(s)
  BY <1>2, <1>3, StopRunnerType, JobEndsType DEF JobFails
<1>4. CASE /\ job' = [job EXCEPT ![s].at = "sendFd"]
           /\ UNCHANGED <<state, stopper, connectingJob>>
  BY <1>2, <1>4, SMTT(30) DEF TypeOK, Job, Phase
<1>. QED  BY <1>1, <1>3, <1>4

\* Changing one field of a job or of a stop leaves a job or a stop.
LEMMA RecordTypes ==
    /\ NoJob \in Job
    /\ NoStopper \in Stopper
    /\ \A j \in Job, a \in Phase : [j EXCEPT !.at = a] \in Job
    /\ \A p \in Stopper, w \in SUBSET Thing :
         /\ [p EXCEPT !.waits = w] \in Stopper
         /\ [p EXCEPT !.at = "cleaning", !.waits = w] \in Stopper
<1>1. NoJob \in Job /\ NoStopper \in Stopper
  BY ConstantsAssumption DEF NoJob, Job, Phase, NoStopper, Stopper
<1>2. ASSUME NEW j \in Job, NEW a \in Phase PROVE [j EXCEPT !.at = a] \in Job
  BY DEF Job
<1>3. ASSUME NEW p \in Stopper, NEW w \in SUBSET Thing
      PROVE  /\ [p EXCEPT !.waits = w] \in Stopper
             /\ [p EXCEPT !.at = "cleaning", !.waits = w] \in Stopper
  BY DEF Stopper
<1>. QED  BY <1>1, <1>2, <1>3

\* The types of the initial states.
LEMMA TypeInit == Init => TypeOK
<1>. SUFFICES ASSUME Init PROVE TypeOK
  OBVIOUS
<1>1. state \in State /\ main \in Seq(Message)
  BY DEF Init, State
<1>2. enabled \in BOOLEAN /\ orphans \in {"none", "alive", "spared"}
  BY DEF Init
<1>3. /\ job \in [Sessions -> Job] /\ stopper \in [Stops -> Stopper]
      /\ field \in [Resource -> Sessions \cup {None}]
  BY RecordTypes DEF Init
<1>. QED  BY <1>1, <1>2, <1>3 DEF Init, TypeOK

\* Every step keeps the types.
LEMMA TypeNext == TypeOK /\ [Next]_vars => TypeOK'
<1>. SUFFICES ASSUME TypeOK, [Next]_vars PROVE TypeOK'
  OBVIOUS
<1>. USE ConstantsAssumption
<1>1. CASE OnStartUnprepared
  BY <1>1, TakeType, StopRunnerType DEF TypeOK, OnStartUnprepared, Take, Receive
<1>2. CASE OnStartIgnored
  BY <1>2, TakeType DEF TypeOK, OnStartIgnored, Take, Receive
<1>3. CASE OnStartRejected
  <2>1. PICK s \in Sessions, R \in SUBSET Resource :
          field' = Holding(s, R) /\ live' = live \cup (R \X {s})
    BY <1>3 DEF OnStartRejected, Resource
  <2>2. field' \in [Resource -> Sessions \cup {None}] /\ live' \subseteq Thing
    BY <2>1, HoldingType
  <2>. QED  BY <1>3, <2>2, TakeType, StopRunnerType
              DEF TypeOK, OnStartRejected, Take, Receive
<1>4. CASE OnStartCommand
  <2>1. PICK s \in Sessions, R \in SUBSET Resource :
          /\ field' = [Holding(s, R) EXCEPT !["monitor"] = None]
          /\ live' = live \cup (R \X {s})
          /\ connectingJob' = s
          /\ job' = [job EXCEPT ![s] = [NoJob EXCEPT !.at = "queued"]]
          /\ main' = Append(Tail(main), JobMsg(s))
    BY <1>4 DEF OnStartCommand, Resource
  <2>2. field' \in [Resource -> Sessions \cup {None}] /\ live' \subseteq Thing
    BY <2>1, HoldingType
  <2>3. main' \in Seq(Message)
    BY <1>4, <2>1, TakeType, MessageTypes DEF OnStartCommand, Receive
  <2>4. job' \in [Sessions -> Job]
    <3>1. [NoJob EXCEPT !.at = "queued"] \in Job
      BY RecordTypes DEF Phase
    <3>. QED  BY <2>1, <3>1 DEF TypeOK
  <2>5. enabled' \in BOOLEAN
    BY <1>4 DEF OnStartCommand
  <2>. QED  BY <1>4, <2>1, <2>2, <2>3, <2>4, <2>5 DEF TypeOK, OnStartCommand, State
<1>5. ASSUME NEW s \in Sessions, JobBegins(s) PROVE TypeOK'
  <2>1. main' \in Seq(Message)
    BY <1>5, TakeType DEF JobBegins, Take, Receive
  <2>2. /\ listeners' \subseteq {"service", "scope"}
        /\ orphans' \in {"none", "alive", "spared"} /\ enabled' \in BOOLEAN
    BY <1>5 DEF JobBegins, TypeOK, KillAll
  <2>3. CASE /\ job' = [job EXCEPT ![s] = NoJob]
             /\ UNCHANGED <<state, connectingJob, field, live, stopper, listeners, orphans>>
    BY <2>1, <2>2, <2>3 DEF TypeOK, NoJob, Job, Phase
  <2>4. CASE /\ job' = [job EXCEPT ![s].at = "acl"]
             /\ UNCHANGED <<state, connectingJob, field, live, stopper>>
    BY <2>1, <2>2, <2>4, SMTT(30) DEF TypeOK, Job, Phase
  <2>5. CASE StartProcesses(s)
    BY <2>1, <2>2, <2>5, StartProcessesType DEF TypeOK
  <2>. QED  BY <1>5, <2>3, <2>4, <2>5 DEF JobBegins
<1>6. ASSUME NEW s \in Sessions, AclReturns(s) PROVE TypeOK'
  <2>1. main' \in Seq(Message)
    BY <1>6, MessageTypes DEF AclReturns, TypeOK
  <2>. QED  BY <1>6, <2>1, ZenonT(60) DEF TypeOK, AclReturns, Job, Phase
<1>7. ASSUME NEW s \in Sessions, JobContinues(s) PROVE TypeOK'
  <2>1. main' \in Seq(Message)
    BY <1>7, TakeType DEF JobContinues, Take, Receive
  <2>2. CASE JobEnds(s) /\ UNCHANGED <<state, field, live, stopper>>
    BY <1>7, <2>1, <2>2, JobEndsType DEF TypeOK, JobContinues
  <2>3. CASE JobFails(s) /\ UNCHANGED <<field, live>>
    BY <1>7, <2>1, <2>3, JobEndsType, StopRunnerType DEF TypeOK, JobContinues, JobFails
  <2>4. CASE StartProcesses(s)
    BY <1>7, <2>1, <2>4, StartProcessesType DEF TypeOK, JobContinues
  <2>. QED  BY <1>7, <2>2, <2>3, <2>4 DEF JobContinues
<1>8. ASSUME NEW s \in Sessions, SendFd(s) PROVE TypeOK'
  <2>1. CASE state' = "Connected" /\ JobEnds(s) /\ UNCHANGED stopper
    BY <1>8, <2>1, JobEndsType DEF TypeOK, SendFd, State
  <2>2. CASE MayRetry(s) /\ job' = NextTry(s) /\ UNCHANGED <<state, connectingJob, stopper>>
    <3>1. job[s].tries + 1 \in 0..(MaxTries + 1)
      BY <2>2 DEF TypeOK, Job, MayRetry
    <3>2. job' \in [Sessions -> Job]
      BY <2>2, <3>1, SMTT(30) DEF TypeOK, NextTry, Job
    <3>. QED  BY <1>8, <2>2, <3>2 DEF TypeOK, SendFd
  <2>3. CASE JobFails(s)
    BY <1>8, <2>3, JobEndsType, StopRunnerType DEF TypeOK, SendFd, JobFails
  <2>. QED  BY <1>8, <2>1, <2>2, <2>3 DEF SendFd
<1>9. ASSUME NEW s \in Sessions, JobUnwinds(s) PROVE TypeOK'
  BY <1>9, TakeType, JobEndsType DEF TypeOK, JobUnwinds, Take, Receive
<1>10. CASE OnClose
  BY <1>10, TakeType, StopRunnerType DEF TypeOK, OnClose, Take, Receive
<1>11. CASE OnReload
  <2>1. main' \in Seq(Message)
    BY <1>11, TakeType, MessageTypes DEF OnReload, Receive
  <2>. QED  BY <1>11, <2>1, StopRunnerType DEF TypeOK, OnReload
<1>12. ASSUME NEW s \in Sessions, OnFatal(s) PROVE TypeOK'
  BY <1>12, TakeType, StopRunnerType DEF TypeOK, OnFatal, Take, Receive
<1>13. ASSUME NEW s \in Sessions, NEW g \in Guards, GuardFails(s, g) PROVE TypeOK'
  <2>1. main' \in Seq(Message)
    BY <1>13, MessageTypes DEF GuardFails, Report, TypeOK
  <2>. QED  BY <1>13, <2>1 DEF TypeOK, GuardFails
<1>14. ASSUME NEW s \in Sessions, RestartFails(s) PROVE TypeOK'
  <2>1. main' \in Seq(Message)
    <3>1. CASE UNCHANGED main
      BY <3>1 DEF TypeOK
    <3>2. CASE main' = Append(main, FatalMsg(s))
      BY <3>2, MessageTypes DEF TypeOK
    <3>. QED  BY <1>14, <3>1, <3>2 DEF RestartFails, Report
  <2>. QED  BY <1>14, <2>1, StopRunnerType DEF TypeOK, RestartFails
<1>15. ASSUME NEW k \in Stops, StopperCancels(k) PROVE TypeOK'
  <2>. DEFINE c == stopper[k].joins
  <2>1. stopper' \in [Stops -> Stopper]
    <3>1. stopper \in [Stops -> Stopper]
      BY DEF TypeOK
    <3>2. stopper' = [stopper EXCEPT ![k].at = "joining"]
      BY <1>15 DEF StopperCancels
    <3>. QED  BY <3>1, <3>2 DEF Stopper
  <2>2. CASE Joined(k)
    BY <1>15, <2>1, <2>2 DEF TypeOK, StopperCancels
  <2>3. CASE ~Joined(k)
    <3>1. c \in Sessions
      BY <2>3 DEF TypeOK, Stopper, Joined
    <3>. DEFINE at == IF job[c].at = "sendFd" THEN "unwinding" ELSE job[c].at
                new == [job[c] EXCEPT !.cancelled = TRUE, !.at = at]
    <3>a. job[c] \in Job /\ at \in Phase
      BY <3>1 DEF TypeOK, Job, Phase
    <3>b. new \in Job
      BY <3>a DEF Job
    <3>c. job' = [job EXCEPT ![c] = new]
      BY <1>15, <2>3, <3>1 DEF TypeOK, StopperCancels
    <3>2. job' \in [Sessions -> Job]
      BY <3>1, <3>b, <3>c DEF TypeOK
    <3>3. main' \in Seq(Message)
      BY <1>15, <2>3, <3>1, MessageTypes DEF TypeOK, StopperCancels
    <3>. QED  BY <1>15, <2>1, <3>2, <3>3 DEF TypeOK, StopperCancels
  <2>. QED  BY <2>2, <2>3
<1>16. ASSUME NEW k \in Stops, StopperCleans(k) PROVE TypeOK'
  <2>1. PICK waits \in SUBSET Thing :
          /\ stopper' = [stopper EXCEPT ![k].at = "cleaning", ![k].waits = waits]
          /\ live' = live \ (Held \ waits)
    BY <1>16 DEF StopperCleans, Held
  <2>. DEFINE new == [stopper[k] EXCEPT !.at = "cleaning", !.waits = waits]
  <2>a. new \in Stopper
    BY RecordTypes DEF TypeOK
  <2>b. stopper' = [stopper EXCEPT ![k] = new]
    BY <2>1 DEF TypeOK
  <2>2. stopper' \in [Stops -> Stopper]
    BY <2>a, <2>b DEF TypeOK
  <2>. QED  BY <1>16, <2>1, <2>2 DEF TypeOK, StopperCleans
<1>17. ASSUME NEW k \in Stops, StopperFinishes(k) PROVE TypeOK'
  <2>1. main' \in Seq(Message)
    <3>1. main \in Seq(Message) /\ StartMsg \in Message
      BY MessageTypes DEF TypeOK
    <3>2. main' = main \/ main' = Append(main, StartMsg)
      BY <1>17 DEF StopperFinishes
    <3>. QED  BY <3>1, <3>2
  <2>2. stopper' \in [Stops -> Stopper]
    BY <1>17, RecordTypes DEF TypeOK, StopperFinishes
  <2>. QED  BY <1>17, <2>1, <2>2 DEF TypeOK, StopperFinishes, State, BootAfterStop
<1>18. ASSUME NEW k \in Stops, NEW x \in Thing, ChildExits(k, x) PROVE TypeOK'
  <2>1. main' \in Seq(Message)
    BY <1>18, MessageTypes DEF ChildExits, Notify, TypeOK
  <2>. QED  BY <1>18, <2>1 DEF TypeOK, ChildExits
<1>19. ASSUME NEW k \in Stops, NEW x \in Thing, ChildJoined(k, x) PROVE TypeOK'
  <2>1. stopper' \in [Stops -> Stopper]
    <3>1. stopper[k].waits \ {x} \in SUBSET Thing
      BY DEF TypeOK, Stopper
    <3>2. [stopper[k] EXCEPT !.waits = stopper[k].waits \ {x}] \in Stopper
      BY <3>1, RecordTypes DEF TypeOK
    <3>. QED  BY <1>19, <3>2 DEF TypeOK, ChildJoined
  <2>. QED  BY <1>19, <2>1, TakeType DEF TypeOK, ChildJoined, Take, Receive
<1>20. ASSUME NEW c \in Commands, Post([what |-> c]) PROVE TypeOK'
  <2>1. main' \in Seq(Message)
    BY <1>20, MessageTypes DEF Post, TypeOK
  <2>. QED  BY <1>20, <2>1 DEF TypeOK, Post
<1>21. CASE Crash
  <2>1. stopper' \in [Stops -> Stopper] /\ job' \in [Sessions -> Job]
    BY <1>21, RecordTypes DEF Crash
  <2>2. orphans' \in {"none", "alive", "spared"}
    BY <1>21 DEF Crash, TypeOK
  <2>3. /\ state' \in State /\ connectingJob' \in Sessions \cup {None}
        /\ field' \in [Resource -> Sessions \cup {None}] /\ live' \subseteq Thing
        /\ main' \in Seq(Message) /\ listeners' \subseteq {"service", "scope"}
    BY <1>21 DEF Crash, State
  <2>. QED  BY <1>21, <2>1, <2>2, <2>3 DEF TypeOK, Crash
<1>22. CASE UNCHANGED vars
  BY <1>22 DEF TypeOK, vars
<1>. QED
  BY <1>1, <1>2, <1>3, <1>4, <1>5, <1>6, <1>7, <1>8, <1>9, <1>10, <1>11, <1>12, <1>13,
     <1>14, <1>15, <1>16, <1>17, <1>18, <1>19, <1>20, <1>21, <1>22
     DEF Next, Step, Handle, Stopping

\* The variables keep their types; in particular sendFd never tries more than
\* MaxTries + 1 times.
THEOREM TypeCorrect == Spec => []TypeOK
  BY TypeInit, TypeNext, PTL DEF Spec
-----------------------------------------------------------------------------
(***************************************************************************)
(* Safety.                                                                 *)
(***************************************************************************)
\* The queue q is the old one, or what is left of it when its head is taken.
LEMMA QueueFacts ==
    ASSUME NEW q \in Seq(Message), NEW m \in Message
    PROVE  /\ Len(q) \in Nat
           /\ Len(Append(q, m)) = Len(q) + 1
           /\ Append(q, m)[Len(q) + 1] = m
           /\ \A i \in 1..Len(q) : Append(q, m)[i] = q[i]
           /\ q # <<>> => /\ Len(q) \in Nat \ {0}
                          /\ Head(q) = q[1]
                          /\ Len(Tail(q)) = Len(q) - 1
                          /\ \A i \in 1..Len(Tail(q)) : Tail(q)[i] = q[i + 1]
  OBVIOUS

\* The step takes at most the head of the queue and posts at most m.
QueueStep(m) ==
    \/ main' = main \/ main' = Append(main, m)
    \/ main # <<>> /\ (main' = Tail(main) \/ main' = Append(Tail(main), m))

\* Children survives a step that posts no child and takes at most the head, as
\* long as what has been posted stays waited for and stays dead.
LEMMA ChildrenKept ==
    ASSUME TypeOK, Children,
           NEW m \in Message, \A k \in Stops, x \in Thing : m # ChildMsg(k, x),
           QueueStep(m),
           \A k \in Stops, x \in Thing :
             x \in stopper[k].waits /\ x \notin live => x \in stopper'[k].waits /\ x \notin live'
    PROVE  Children'
<1>. SUFFICES ASSUME NEW i \in 1..Len(main'), NEW k \in Stops, NEW x \in Thing,
                     main'[i] = ChildMsg(k, x)
              PROVE  /\ x \in stopper'[k].waits
                     /\ x \notin live'
                     /\ \A j \in 1..Len(main') : main'[j] = main'[i] => j = i
  BY DEF Children
<1>0. PICK q \in Seq(Message) : /\ q = main \/ (main # <<>> /\ q = Tail(main))
                                /\ main' = q \/ main' = Append(q, m)
  BY TakeType DEF TypeOK, QueueStep
<1>. DEFINE d == IF q = main THEN 0 ELSE 1
<1>1. \A j \in 1..Len(q) : j + d \in 1..Len(main) /\ q[j] = main[j + d]
  <2>. SUFFICES ASSUME NEW j \in 1..Len(q)
                PROVE  j + d \in 1..Len(main) /\ q[j] = main[j + d]
    OBVIOUS
  <2>1. CASE q = main
    BY <2>1, QueueFacts
  <2>2. CASE q # main
    <3>1. main \in Seq(Message) /\ main # <<>> /\ q = Tail(main)
      BY <1>0, <2>2 DEF TypeOK
    <3>2. /\ Len(main) \in Nat \ {0} /\ Len(q) = Len(main) - 1
          /\ q[j] = main[j + 1]
      BY <3>1, QueueFacts
    <3>. QED  BY <2>2, <3>2
  <2>. QED  BY <2>1, <2>2
<1>2. \A j \in 1..Len(main') : main'[j] = ChildMsg(k, x) =>
        j + d \in 1..Len(main) /\ main[j + d] = ChildMsg(k, x)
  <2>. SUFFICES ASSUME NEW j \in 1..Len(main'), main'[j] = ChildMsg(k, x)
                PROVE  j \in 1..Len(q) /\ q[j] = ChildMsg(k, x)
    BY <1>1
  <2>1. CASE main' = q
    BY <2>1
  <2>2. CASE main' = Append(q, m)
    <3>1. j \in 1..(Len(q) + 1) /\ (j = Len(q) + 1 => main'[j] = m)
      BY <2>2, QueueFacts
    <3>2. j \in 1..Len(q)
      BY <3>1, QueueFacts
    <3>. QED  BY <2>2, <3>2, QueueFacts
  <2>. QED  BY <1>0, <2>1, <2>2
<1>3. i + d \in 1..Len(main) /\ main[i + d] = ChildMsg(k, x)
  BY <1>2
<1>4. /\ x \in stopper[k].waits /\ x \notin live
      /\ \A j \in 1..Len(main) : main[j] = ChildMsg(k, x) => j = i + d
  BY <1>3 DEF Children
<1>5. \A j \in 1..Len(main') : main'[j] = ChildMsg(k, x) => j + d = i + d
  BY <1>2, <1>4
<1>6. \A j \in 1..Len(main') : j + d = i + d => j = i
  BY <1>0, QueueFacts
<1>. QED  BY <1>4, <1>5, <1>6

\* With no coroutine of stopRunner under way, nothing is waited for.
LEMMA NoStopperWaits ==
    ASSUME IInv, state # "Stopping"
    PROVE  \A k \in Stops : stopper[k].at = "idle" /\ stopper[k].waits = {}
  BY DEF IInv, OneStopper, Stoppers

\* The job that runs on is alone, and no coroutine of stopRunner is under way.
LEMMA RunningJob ==
    ASSUME IInv, Idle, NEW s \in Sessions, job[s].at # "none",
           ~Cancelled(s) \/ job[s].at = "sendFd"
    PROVE  /\ state = "Connecting"
           /\ connectingJob = s
           /\ \A j \in Sessions : j # s => job[j].at = "none"
<1>1. \A k \in Stops : stopper[k].at = "idle"
  BY DEF IInv, TheJob, Idle, Cancelled
<1>. QED  BY <1>1 DEF IInv, TheJob, OneStopper

\* stopRunner preserves the invariant, whatever message has called it.
LEMMA StopKeeps ==
    ASSUME IInv, TypeOK',
           NEW restart \in BOOLEAN, StopRunner(restart),
           UNCHANGED <<connectingJob, job, field, live>>,
           NEW m \in Message, \A k \in Stops, x \in Thing : m # ChildMsg(k, x),
           QueueStep(m)
    PROVE  IInv'
<1>1. CASE AlreadyStopping
  <2>1. UNCHANGED <<state, stopper>>
    BY <1>1 DEF StopRunner
  <2>2. Children'
    BY <2>1, ChildrenKept DEF IInv
  <2>. QED  BY <2>1, <2>2 DEF IInv, OneStopper, NothingLeft, NothingLost, TheJob, Stoppers, Early
<1>2. CASE ~AlreadyStopping
  <2>1. PICK k \in Stops :
          stopper' = [stopper EXCEPT ![k] =
            [at |-> "begin", joins |-> connectingJob, restart |-> restart, waits |-> {}]]
    BY <1>2 DEF StopRunner
  <2>2. state' = "Stopping"
    BY <1>2 DEF StopRunner
  <2>3. \A j \in Stops : stopper[j].at = "idle" /\ stopper[j].waits = {}
    BY <1>2, NoStopperWaits DEF AlreadyStopping
  <2>4. /\ stopper'[k].at = "begin" /\ stopper'[k].joins = connectingJob
        /\ stopper'[k].waits = {}
        /\ \A j \in Stops : j # k => stopper'[j].at = "idle" /\ stopper'[j].waits = {}
    BY <2>1, <2>3 DEF IInv, TypeOK
  <2>5. Children'
    BY <2>3, ChildrenKept DEF IInv
  <2>6. OneStopper'
    BY <2>2, <2>4 DEF OneStopper
  <2>7. NothingLost'
    BY <2>3 DEF IInv, NothingLost
  <2>8. TheJob' /\ Stoppers' /\ Early' /\ NothingLeft'
    BY <2>2, <2>4 DEF IInv, TheJob, Stoppers, Early, NothingLeft
  <2>. QED  BY <2>5, <2>6, <2>7, <2>8 DEF IInv
<1>. QED  BY <1>1, <1>2

\* So does a failure of the connecting job that runs, whatever it had acquired.
LEMMA FailKeeps ==
    ASSUME IInv, TypeOK', Idle,
           NEW s \in Sessions, job[s].at # "none", ~Cancelled(s) \/ job[s].at = "sendFd",
           JobFails(s), NothingLost',
           NEW m \in Message, \A k \in Stops, x \in Thing : m # ChildMsg(k, x),
           QueueStep(m)
    PROVE  IInv'
<1>1. /\ state = "Connecting" /\ connectingJob = s
      /\ \A j \in Sessions : j # s => job[j].at = "none"
  BY RunningJob
<1>2. \A j \in Stops : stopper[j].at = "idle" /\ stopper[j].waits = {}
  BY <1>1, NoStopperWaits
<1>3. PICK k \in Stops :
        stopper' = [stopper EXCEPT ![k] =
          [at |-> "begin", joins |-> connectingJob, restart |-> FALSE, waits |-> {}]]
  BY <1>1 DEF JobFails, StopRunner, AlreadyStopping
<1>4. state' = "Stopping"
  BY <1>1 DEF JobFails, StopRunner, AlreadyStopping
<1>5. /\ stopper'[k].at = "begin" /\ stopper'[k].joins = connectingJob
      /\ stopper'[k].waits = {}
      /\ \A j \in Stops : j # k => stopper'[j].at = "idle" /\ stopper'[j].waits = {}
  BY <1>2, <1>3 DEF IInv, TypeOK
<1>6. \A j \in Sessions : job'[j].at = "none"
  BY <1>1 DEF JobFails, JobEnds, NoJob, IInv, TypeOK
<1>7. Children'
  BY <1>2, ChildrenKept DEF IInv
<1>8. OneStopper' /\ NothingLeft' /\ TheJob' /\ Stoppers' /\ Early'
  BY <1>4, <1>5, <1>6 DEF OneStopper, NothingLeft, TheJob, Stoppers, Early
<1>. QED  BY <1>7, <1>8 DEF IInv

\* What startProcesses acquires is not among what onStartCommand acquired.
LEMMA StartOrderLater ==
    \A n \in 1..8 : {StartOrder[i] : i \in 1..n} \cap First = {}
  BY DEF StartOrder, First

\* Nothing that the actions post is a child, but for ChildExits.
LEMMA Posted ==
    /\ StartMsg \in Message
    /\ \A s \in Sessions : JobMsg(s) \in Message /\ FatalMsg(s) \in Message
    /\ \A c \in Commands : [what |-> c] \in Message
    /\ \A k \in Stops, x \in Thing :
         /\ StartMsg # ChildMsg(k, x)
         /\ \A c \in Commands : [what |-> c] # ChildMsg(k, x)
         /\ \A s \in Sessions : JobMsg(s) # ChildMsg(k, x) /\ FatalMsg(s) # ChildMsg(k, x)
  BY MessageTypes, ConstantsAssumption DEF StartMsg, JobMsg, FatalMsg, ChildMsg

\* startProcesses drops no reference, and preserves the invariant.
LEMMA StartKeeps ==
    ASSUME IInv, TypeOK', Idle,
           NEW s \in Sessions, job[s].at \in {"queued", "aclBack"}, ~Cancelled(s),
           StartProcesses(s), main # <<>>, main' = Tail(main)
    PROVE  IInv'
<1>1. /\ state = "Connecting" /\ connectingJob = s
      /\ \A j \in Sessions : j # s => job[j].at = "none"
  BY RunningJob
<1>2. \A j \in Stops : stopper[j].at = "idle" /\ stopper[j].waits = {}
  BY <1>1, NoStopperWaits
<1>3. PICK n \in 1..8 :
        LET R == {StartOrder[i] : i \in 1..n}
        IN  /\ field' = Holding(s, R)
            /\ live' = live \cup (R \X {s})
            /\ \/ JobFails(s)
               \/ /\ job' = [job EXCEPT ![s].at = "sendFd"]
                  /\ UNCHANGED <<state, stopper, connectingJob>>
  BY StartOrderResources DEF StartProcesses
<1>. DEFINE R == {StartOrder[i] : i \in 1..n}
<1>4. R \subseteq Resource /\ R \cap First = {}
  BY StartOrderResources, StartOrderLater
<1>. HIDE DEF R
<1>5. field' = Holding(s, R) /\ live' = live \cup (R \X {s})
  BY <1>3 DEF R
<1>6. NothingLost'
  <2>. SUFFICES ASSUME NEW x \in live' PROVE field'[x[1]] = x[2]
    BY DEF NothingLost
  <2>1. CASE x \in R \X {s}
    BY <1>4, <1>5, <2>1 DEF Holding
  <2>2. CASE x \in live
    <3>1. x[1] \in First /\ x[1] \in Resource
      BY <2>2 DEF IInv, Early, TypeOK, Thing
    <3>2. field[x[1]] = x[2]
      BY <1>2, <2>2 DEF IInv, NothingLost
    <3>. QED  BY <1>4, <1>5, <3>1, <3>2 DEF Holding
  <2>. QED  BY <1>5, <2>1, <2>2
<1>7. CASE JobFails(s)
  BY <1>6, <1>7, FailKeeps, Posted DEF QueueStep
<1>8. CASE /\ job' = [job EXCEPT ![s].at = "sendFd"]
           /\ UNCHANGED <<state, stopper, connectingJob>>
  <2>1. job'[s].at = "sendFd" /\ \A j \in Sessions : j # s => job'[j].at = "none"
    BY <1>1, <1>8 DEF IInv, TypeOK, Job
  <2>2. Children'
    BY <1>2, <1>8, ChildrenKept, Posted DEF IInv, QueueStep
  <2>3. OneStopper' /\ NothingLeft' /\ TheJob' /\ Stoppers' /\ Early'
    BY <1>1, <1>2, <1>8, <2>1 DEF IInv, OneStopper, NothingLeft, TheJob, Stoppers, Early
  <2>. QED  BY <1>6, <2>2, <2>3 DEF IInv
<1>. QED  BY <1>3, <1>7, <1>8

\* The job that ends by cancellation leaves the rest to the coroutine of
\* stopRunner that waits for it; one that has connected leaves a whole session.
LEMMA EndKeeps ==
    ASSUME IInv, TypeOK', NEW s \in Sessions, job[s].at # "none",
           job'[s].at = "none", \A j \in Sessions : j # s => job'[j] = job[j],
           state' = state \/ (state # "Stopping" /\ state' = "Connected"),
           UNCHANGED <<field, live, stopper>>,
           main' = main \/ (main # <<>> /\ main' = Tail(main))
    PROVE  IInv'
<1>1. \A j \in Sessions : job'[j].at = "none"
  BY DEF IInv, TheJob
<1>2. state \in {"Connecting", "Stopping"}
  BY DEF IInv, TheJob
<1>3. Children'
  BY ChildrenKept, Posted DEF IInv, QueueStep
<1>4. OneStopper' /\ NothingLeft' /\ TheJob' /\ Early'
  BY <1>1, <1>2 DEF IInv, OneStopper, NothingLeft, TheJob, Early
<1>5. NothingLost' /\ Stoppers'
  BY DEF IInv, NothingLost, Stoppers
<1>. QED  BY <1>3, <1>4, <1>5 DEF IInv

\* The invariant holds initially.
LEMMA SafetyInit == Init => IInv
<1>. SUFFICES ASSUME Init PROVE IInv
  OBVIOUS
<1>1. Len(main) = 0 /\ 1..Len(main) = {}
  BY DEF Init
<1>. QED  BY <1>1, TypeInit DEF Init, IInv, OneStopper, NothingLeft, NothingLost, TheJob,
            Stoppers, Early, Children, NoJob, NoStopper

\* Every step keeps the invariant.
LEMMA SafetyNext == IInv /\ [Next]_vars => IInv'
<1>. SUFFICES ASSUME IInv, [Next]_vars PROVE IInv'
  OBVIOUS
<1>t. TypeOK /\ TypeOK'
  BY TypeNext DEF IInv
<1>s. ASSUME UNCHANGED <<state, connectingJob, job, field, live, stopper>>, Children'
      PROVE  IInv'
  BY <1>s, <1>t DEF IInv, OneStopper, NothingLeft, NothingLost, TheJob, Stoppers, Early
<1>1. CASE OnStartUnprepared
  BY <1>1, <1>t, Posted, StopKeeps DEF OnStartUnprepared, Take, Receive, QueueStep
<1>2. CASE OnStartIgnored
  <2>1. Children'
    BY <1>2, <1>t, Posted, ChildrenKept DEF IInv, OnStartIgnored, Take, Receive, QueueStep
  <2>. QED  BY <1>2, <1>s, <2>1 DEF OnStartIgnored
<1>10. CASE OnClose
  <2>1. CASE field["receiver"] # None
    BY <1>10, <2>1, <1>t, Posted, StopKeeps DEF OnClose, Take, Receive, QueueStep
  <2>2. CASE field["receiver"] = None
    <3>1. Children'
      BY <1>10, <2>2, <1>t, Posted, ChildrenKept DEF IInv, OnClose, Take, Receive, QueueStep
    <3>. QED  BY <1>10, <2>2, <1>s, <3>1 DEF OnClose
  <2>. QED  BY <2>1, <2>2
<1>11. CASE OnReload
  <2>1. main # <<>> /\ (main' = Tail(main) \/ main' = Append(Tail(main), StartMsg))
    BY <1>11 DEF OnReload, Receive
  <2>2. CASE field["receiver"] # None /\ state \in canStop
    BY <1>11, <2>1, <2>2, <1>t, Posted, StopKeeps DEF OnReload, QueueStep
  <2>3. CASE ~(field["receiver"] # None /\ state \in canStop)
    <3>1. Children'
      BY <1>11, <2>1, <2>3, <1>t, Posted, ChildrenKept DEF IInv, OnReload, QueueStep
    <3>. QED  BY <1>11, <2>3, <1>s, <3>1 DEF OnReload
  <2>. QED  BY <2>2, <2>3
<1>12. ASSUME NEW s \in Sessions, OnFatal(s) PROVE IInv'
  BY <1>12, <1>t, Posted, StopKeeps DEF OnFatal, Take, Receive, QueueStep
<1>14. ASSUME NEW s \in Sessions, RestartFails(s) PROVE IInv'
  <2>1. CASE StopRunner(FALSE) /\ UNCHANGED main
    <3>1. UNCHANGED <<connectingJob, job, field, live>>
      BY <1>14 DEF RestartFails
    <3>. QED  BY <2>1, <3>1, <1>t, Posted, StopKeeps DEF QueueStep
  <2>2. CASE main' = Report(s) /\ UNCHANGED <<state, stopper>>
    <3>1. Children'
      <4>1. main' = Append(main, FatalMsg(s)) /\ UNCHANGED <<live, stopper>>
        BY <1>14, <2>2 DEF RestartFails, Report
      <4>. QED  BY <4>1, <1>t, Posted, ChildrenKept DEF IInv, QueueStep
    <3>. QED  BY <1>14, <2>2, <1>s, <3>1 DEF RestartFails
  <2>. QED  BY <1>14, <2>1, <2>2 DEF RestartFails
<1>20. ASSUME NEW c \in Commands, Post([what |-> c]) PROVE IInv'
  <2>1. Children'
    <3>. DEFINE m == [what |-> c]
    <3>1. m \in Message /\ \A k \in Stops, x \in Thing : m # ChildMsg(k, x)
      BY Posted, MessageTypes
    <3>2. main' = Append(main, m) /\ UNCHANGED <<live, stopper>>
      BY <1>20 DEF Post
    <3>. HIDE DEF m
    <3>. QED  BY <3>1, <3>2, <1>t, ChildrenKept DEF IInv, QueueStep
  <2>. QED  BY <1>20, <1>s, <2>1 DEF Post
<1>3. CASE OnStartRejected
  <2>1. state = "Stopped" /\ state' = "Stopping" /\ live = {}
    BY <1>3 DEF IInv, NothingLeft, OnStartRejected, MayStart, StopRunner, AlreadyStopping
  <2>2. PICK s \in Sessions, R \in SUBSET Resource :
          field' = Holding(s, R) /\ live' = R \X {s}
    BY <1>3, <2>1 DEF OnStartRejected, Resource
  <2>3. \A j \in Stops : stopper[j].at = "idle" /\ stopper[j].waits = {}
    BY <2>1, NoStopperWaits
  <2>4. PICK k \in Stops :
          stopper' = [stopper EXCEPT ![k] =
            [at |-> "begin", joins |-> connectingJob, restart |-> FALSE, waits |-> {}]]
    BY <1>3, <2>1 DEF OnStartRejected, StopRunner, AlreadyStopping
  <2>5. /\ stopper'[k].at = "begin" /\ stopper'[k].waits = {}
        /\ \A j \in Stops : j # k => stopper'[j].at = "idle" /\ stopper'[j].waits = {}
    BY <2>3, <2>4, <1>t DEF TypeOK
  <2>6. \A s1 \in Sessions : job'[s1].at = "none"
    BY <1>3, <2>1 DEF OnStartRejected, IInv, NothingLeft
  <2>7. NothingLost'
    BY <2>2 DEF NothingLost, Holding
  <2>8. Children'
    BY <1>3, <2>3, <1>t, Posted, ChildrenKept DEF IInv, OnStartRejected, Take, Receive, QueueStep
  <2>9. OneStopper' /\ NothingLeft' /\ TheJob' /\ Stoppers' /\ Early'
    BY <2>1, <2>5, <2>6 DEF OneStopper, NothingLeft, TheJob, Stoppers, Early
  <2>. QED  BY <1>t, <2>7, <2>8, <2>9 DEF IInv
<1>4. CASE OnStartCommand
  <2>1. /\ state = "Stopped" /\ live = {} /\ \A r \in Resource : field[r] = None
        /\ \A j \in Sessions : job[j].at = "none"
    BY <1>4 DEF IInv, NothingLeft, OnStartCommand, MayStart
  <2>2. \A j \in Stops : stopper[j].at = "idle" /\ stopper[j].waits = {}
    BY <2>1, NoStopperWaits
  <2>3. PICK s \in Sessions :
          /\ field' = [Holding(s, First) EXCEPT !["monitor"] = None]
          /\ live' = First \X {s}
          /\ connectingJob' = s
          /\ job' = [job EXCEPT ![s] = [NoJob EXCEPT !.at = "queued"]]
          /\ main' = Append(Tail(main), JobMsg(s))
    <3>1. {"proxy", "notification"} \cup {r \in {"receiver"} : field[r] = None} = First
      BY <2>1 DEF First, Resource
    <3>. QED  BY <1>4, <2>1, <3>1 DEF OnStartCommand
  <2>4. /\ state' = "Connecting" /\ UNCHANGED stopper /\ main # <<>>
    BY <1>4 DEF OnStartCommand, Receive
  <2>5. job'[s].at = "queued" /\ \A j \in Sessions : j # s => job'[j].at = "none"
    BY <2>1, <2>3, <1>t DEF TypeOK, NoJob
  <2>6. \A r \in First : r \in Resource /\ field'[r] = s
    BY <2>3 DEF First, Resource, Holding
  <2>7. NothingLost' /\ Early'
    BY <2>3, <2>5, <2>6 DEF NothingLost, Early
  <2>8. Children'
    BY <2>2, <2>3, <2>4, <1>t, Posted, ChildrenKept DEF IInv, QueueStep
  <2>9. OneStopper' /\ NothingLeft' /\ TheJob' /\ Stoppers'
    BY <2>2, <2>3, <2>4, <2>5 DEF OneStopper, NothingLeft, TheJob, Stoppers
  <2>. QED  BY <1>t, <2>7, <2>8, <2>9 DEF IInv
<1>5. ASSUME NEW s \in Sessions, JobBegins(s) PROVE IInv'
  <2>1. Idle /\ main # <<>> /\ main' = Tail(main) /\ job[s].at = "queued"
    BY <1>5 DEF JobBegins, Take, Receive
  <2>2. CASE /\ job' = [job EXCEPT ![s] = NoJob]
             /\ UNCHANGED <<state, connectingJob, field, live, stopper>>
    <3>1. job'[s].at = "none" /\ \A j \in Sessions : j # s => job'[j] = job[j]
      BY <2>2, <1>t DEF TypeOK, NoJob
    <3>. QED  BY <2>1, <2>2, <3>1, <1>t, EndKeeps
  <2>3. CASE /\ job' = [job EXCEPT ![s].at = "acl"]
             /\ UNCHANGED <<state, connectingJob, field, live, stopper>>
    <3>1. /\ job'[s].at = "acl" /\ job'[s].cancelled = job[s].cancelled
          /\ \A j \in Sessions : j # s => job'[j] = job[j]
      BY <2>3, <1>t DEF TypeOK, Job
    <3>2. Children'
      BY <2>1, <2>3, <1>t, Posted, ChildrenKept DEF IInv, QueueStep
    <3>3. OneStopper' /\ NothingLeft' /\ NothingLost' /\ TheJob' /\ Stoppers' /\ Early'
      BY <2>1, <2>3, <3>1 DEF IInv, OneStopper, NothingLeft, NothingLost, TheJob, Stoppers, Early
    <3>. QED  BY <1>t, <3>2, <3>3 DEF IInv
  <2>4. CASE ~Cancelled(s) /\ StartProcesses(s)
    BY <2>1, <2>4, <1>t, StartKeeps
  <2>. QED  BY <1>5, <2>2, <2>3, <2>4 DEF JobBegins
<1>6. ASSUME NEW s \in Sessions, AclReturns(s) PROVE IInv'
  <2>1. /\ job[s].at = "acl" /\ job'[s].at = "aclBack"
        /\ job'[s].cancelled = job[s].cancelled
        /\ \A j \in Sessions : j # s => job'[j] = job[j]
    BY <1>6, <1>t DEF AclReturns, TypeOK, Job
  <2>2. UNCHANGED <<state, connectingJob, field, live, stopper>>
    BY <1>6 DEF AclReturns
  <2>3. Children'
    BY <1>6, <2>2, <1>t, Posted, ChildrenKept DEF IInv, AclReturns, QueueStep
  <2>4. OneStopper' /\ NothingLeft' /\ NothingLost' /\ TheJob' /\ Stoppers' /\ Early'
    BY <2>1, <2>2, SMTT(30) DEF IInv, OneStopper, NothingLeft, NothingLost, TheJob, Stoppers, Early
  <2>. QED  BY <1>t, <2>3, <2>4 DEF IInv
<1>7. ASSUME NEW s \in Sessions, JobContinues(s) PROVE IInv'
  <2>1. Idle /\ main # <<>> /\ main' = Tail(main) /\ job[s].at = "aclBack"
    BY <1>7 DEF JobContinues, Take, Receive
  <2>2. CASE JobEnds(s) /\ UNCHANGED <<state, field, live, stopper>>
    <3>1. job'[s].at = "none" /\ \A j \in Sessions : j # s => job'[j] = job[j]
      BY <2>2, <1>t DEF TypeOK, NoJob, JobEnds
    <3>. QED  BY <2>1, <2>2, <3>1, <1>t, EndKeeps
  <2>3. CASE ~Cancelled(s) /\ JobFails(s) /\ UNCHANGED <<field, live>>
    <3>1. NothingLost'
      <4>1. \A k \in Stops : stopper[k].waits = {}
        BY <2>1, <2>3, RunningJob, NoStopperWaits
      <4>. QED  BY <2>3, <4>1 DEF IInv, NothingLost
    <3>. QED  BY <2>1, <2>3, <3>1, <1>t, Posted, FailKeeps DEF QueueStep
  <2>4. CASE ~Cancelled(s) /\ StartProcesses(s)
    BY <2>1, <2>4, <1>t, StartKeeps
  <2>. QED  BY <1>7, <2>2, <2>3, <2>4 DEF JobContinues
<1>8. ASSUME NEW s \in Sessions, SendFd(s) PROVE IInv'
  <2>1. Idle /\ job[s].at = "sendFd" /\ UNCHANGED <<field, live, main>>
    BY <1>8 DEF SendFd
  <2>2. state = "Connecting" /\ connectingJob = s
    BY <2>1, RunningJob
  <2>3. \A k \in Stops : stopper[k].at = "idle" /\ stopper[k].waits = {}
    BY <2>2, NoStopperWaits
  <2>4. CASE state' = "Connected" /\ JobEnds(s) /\ UNCHANGED stopper
    <3>1. job'[s].at = "none" /\ \A j \in Sessions : j # s => job'[j] = job[j]
      BY <2>4, <1>t DEF TypeOK, NoJob, JobEnds
    <3>. QED  BY <2>1, <2>2, <2>4, <3>1, <1>t, EndKeeps
  <2>5. CASE job' = NextTry(s) /\ UNCHANGED <<state, connectingJob, stopper>>
    <3>1. /\ job'[s].at = "sendFd"
          /\ \A j \in Sessions : j # s => job'[j] = job[j]
      BY <2>1, <2>5, <1>t DEF TypeOK, Job, NextTry
    <3>2. Children'
      BY <2>1, <2>5, <1>t, Posted, ChildrenKept DEF IInv, QueueStep
    <3>3. OneStopper' /\ NothingLeft' /\ NothingLost' /\ TheJob' /\ Stoppers' /\ Early'
      BY <2>1, <2>2, <2>3, <2>5, <3>1, SMTT(30)
         DEF IInv, OneStopper, NothingLeft, NothingLost, TheJob, Stoppers, Early
    <3>. QED  BY <1>t, <3>2, <3>3 DEF IInv
  <2>6. CASE JobFails(s)
    <3>1. NothingLost'
      BY <2>1, <2>3 DEF IInv, NothingLost
    <3>. QED  BY <2>1, <2>6, <3>1, <1>t, Posted, FailKeeps DEF QueueStep
  <2>. QED  BY <1>8, <2>4, <2>5, <2>6 DEF SendFd
<1>9. ASSUME NEW s \in Sessions, JobUnwinds(s) PROVE IInv'
  <2>1. job'[s].at = "none" /\ \A j \in Sessions : j # s => job'[j] = job[j]
    BY <1>9, <1>t DEF TypeOK, NoJob, JobEnds, JobUnwinds
  <2>. QED  BY <1>9, <2>1, <1>t, EndKeeps DEF JobUnwinds, Take, Receive
<1>13. ASSUME NEW s \in Sessions, NEW g \in Guards, GuardFails(s, g) PROVE IInv'
  <2>1. Idle /\ <<g, s>> \in live /\ field[g] = s /\ g \in Resource /\ g \notin First
    BY <1>13 DEF GuardFails, Guards, Resource, First
  <2>2. /\ live' = live \ {<<g, s>>} /\ field' = [field EXCEPT ![g] = None]
        /\ UNCHANGED <<state, connectingJob, job, stopper>>
    BY <1>13 DEF GuardFails
  <2>3. Children'
    BY <1>13, <2>2, <1>t, Posted, ChildrenKept, SMTT(30) DEF IInv, GuardFails, Report, QueueStep
  <2>4. NothingLost'
    <3>. SUFFICES ASSUME NEW x \in live'
                  PROVE  field'[x[1]] = x[2] \/ \E k \in Stops : x \in stopper'[k].waits
      BY DEF NothingLost
    <3>1. x \in live /\ x \in Thing /\ x # <<g, s>>
      BY <2>2, <1>t DEF TypeOK
    <3>2. CASE field[x[1]] = x[2]
      <4>1. x[1] # g
        BY <2>1, <3>1, <3>2 DEF Thing
      <4>. QED  BY <2>2, <3>1, <3>2, <4>1, <1>t DEF TypeOK, Thing
    <3>3. CASE \E k \in Stops : x \in stopper[k].waits
      BY <2>2, <3>3
    <3>. QED  BY <3>1, <3>2, <3>3 DEF IInv, NothingLost
  <2>5. OneStopper' /\ NothingLeft' /\ TheJob' /\ Stoppers'
    BY <2>1, <2>2, <1>t DEF TypeOK, IInv, OneStopper, NothingLeft, TheJob, Stoppers
  <2>6. Early'
    BY <2>1, <2>2 DEF IInv, Early, First
  <2>. QED  BY <1>t, <2>3, <2>4, <2>5, <2>6 DEF IInv
<1>15. ASSUME NEW k \in Stops, StopperCancels(k) PROVE IInv'
  <2>. DEFINE c == stopper[k].joins
  <2>1. /\ stopper[k].at = "begin" /\ UNCHANGED <<state, connectingJob, field, live>>
        /\ stopper' = [stopper EXCEPT ![k].at = "joining"]
    BY <1>15 DEF StopperCancels
  <2>2. /\ stopper'[k].at = "joining" /\ stopper'[k].joins = c
        /\ \A j \in Stops : stopper'[j].waits = stopper[j].waits
        /\ \A j \in Stops : j # k => stopper'[j] = stopper[j]
    BY <2>1, <1>t DEF TypeOK, Stopper
  <2>3. state = "Stopping" /\ \A j \in Stops : j # k => stopper[j].at = "idle"
    BY <2>1 DEF IInv, OneStopper
  <2>4. OneStopper' /\ NothingLeft' /\ NothingLost' /\ Stoppers'
    BY <2>1, <2>2, <2>3 DEF IInv, OneStopper, NothingLeft, NothingLost, Stoppers
  <2>5. CASE Joined(k)
    <3>1. UNCHANGED <<job, main>>
      BY <1>15, <2>5 DEF StopperCancels
    <3>2. \A s \in Sessions : job[s].at = "none"
      BY <2>1, <2>5, ConstantsAssumption DEF IInv, TheJob, Joined
    <3>3. TheJob' /\ Early'
      BY <3>1, <3>2 DEF TheJob, Early
    <3>4. Children'
      BY <2>1, <2>2, <3>1, <1>t, Posted, ChildrenKept DEF IInv, QueueStep
    <3>. QED  BY <1>t, <2>4, <3>3, <3>4 DEF IInv
  <2>6. CASE ~Joined(k)
    <3>1. c \in Sessions /\ job[c].at # "none" /\ connectingJob = c
      BY <2>6, <1>t DEF TypeOK, Stopper, Joined, IInv, TheJob
    <3>2. /\ job'[c].cancelled /\ job'[c].at # "sendFd"
          /\ job[c].at # "sendFd" => job'[c].at = job[c].at
          /\ job[c].at = "sendFd" => job'[c].at = "unwinding"
          /\ \A s \in Sessions : s # c => job'[s].at = job[s].at
      <4>1. job \in [Sessions -> Job] /\ c \in Sessions
        BY <3>1, <1>t DEF TypeOK
      <4>2. job' = [job EXCEPT ![c].cancelled = TRUE,
                               ![c].at = IF job[c].at = "sendFd" THEN "unwinding" ELSE @]
        BY <1>15, <2>6 DEF StopperCancels
      <4>. HIDE DEF c
      <4>3. \A s \in Sessions : s # c => job'[s] = job[s]
        BY <4>1, <4>2
      <4>4. /\ job'[c].cancelled
            /\ job'[c].at = IF job[c].at = "sendFd" THEN "unwinding" ELSE job[c].at
        BY <4>1, <4>2 DEF Job
      <4>. QED  BY <4>3, <4>4
    <3>3. \A s \in Sessions : s # c => job[s].at = "none"
      BY <3>1 DEF IInv, TheJob
    <3>4. TheJob' /\ Early'
      BY <2>1, <2>2, <2>3, <3>1, <3>2, <3>3 DEF IInv, TheJob, Early
    <3>5. main' = main \/ main' = Append(main, JobMsg(c))
      BY <1>15 DEF StopperCancels
    <3>6. Children'
      BY <2>1, <2>2, <3>1, <3>5, <1>t, Posted, ChildrenKept DEF IInv, QueueStep
    <3>. QED  BY <1>t, <2>4, <3>4, <3>6 DEF IInv
  <2>. QED  BY <2>5, <2>6
<1>16. ASSUME NEW k \in Stops, StopperCleans(k) PROVE IInv'
  <2>1. /\ stopper[k].at = "joining" /\ Joined(k)
        /\ field' = [r \in Resource |-> None]
        /\ UNCHANGED <<state, connectingJob, job, main>>
    BY <1>16 DEF StopperCleans
  <2>2. PICK waits \in SUBSET Thing :
          /\ stopper' = [stopper EXCEPT ![k].at = "cleaning", ![k].waits = waits]
          /\ live' = live \ (Held \ waits)
    BY <1>16 DEF StopperCleans, Held
  <2>3. /\ stopper'[k].at = "cleaning" /\ stopper'[k].waits = waits
        /\ \A j \in Stops : j # k => stopper'[j] = stopper[j]
    BY <2>2, <1>t DEF TypeOK, Stopper
  <2>4. \A s \in Sessions : job[s].at = "none"
    BY <2>1, ConstantsAssumption DEF IInv, TheJob, Joined
  <2>5. state = "Stopping" /\ \A j \in Stops : j # k => stopper[j].at = "idle"
    BY <2>1 DEF IInv, OneStopper
  <2>6. \A j \in Stops : stopper[j].waits = {}
    BY <2>1, <2>5 DEF IInv, Stoppers
  <2>7. NothingLost'
    <3>. SUFFICES ASSUME NEW x \in live' PROVE x \in stopper'[k].waits
      BY DEF NothingLost
    <3>1. x \in live /\ x \in Thing /\ (x \notin Held \/ x \in waits)
      BY <2>2, <1>t DEF TypeOK
    <3>2. x \in Held
      BY <2>6, <3>1 DEF IInv, NothingLost, Held
    <3>. QED  BY <2>3, <3>1, <3>2
  <2>8. Children'
    BY <2>1, <2>6, <1>t, Posted, ChildrenKept DEF IInv, QueueStep
  <2>9. OneStopper' /\ NothingLeft' /\ TheJob' /\ Stoppers' /\ Early'
    BY <2>1, <2>3, <2>4, <2>5, <2>6 DEF OneStopper, NothingLeft, TheJob, Stoppers, Early
  <2>. QED  BY <1>t, <2>7, <2>8, <2>9 DEF IInv
<1>17. ASSUME NEW k \in Stops, StopperFinishes(k) PROVE IInv'
  <2>1. /\ stopper[k].at = "cleaning" /\ stopper[k].waits = {}
        /\ state' = "Stopped" /\ stopper' = [stopper EXCEPT ![k] = NoStopper]
        /\ UNCHANGED <<connectingJob, job, field, live>>
    BY <1>17 DEF StopperFinishes
  <2>2. \A j \in Stops : (j # k => stopper[j].at = "idle") /\ stopper[j].waits = {}
    BY <2>1 DEF IInv, OneStopper, Stoppers
  <2>3. \A j \in Stops : stopper'[j].at = "idle" /\ stopper'[j].waits = {}
    BY <2>1, <2>2, <1>t DEF TypeOK, NoStopper
  <2>4. (\A s \in Sessions : job[s].at = "none") /\ \A r \in Resource : field[r] = None
    BY <2>1 DEF IInv, TheJob, Stoppers
  <2>5. live = {}
    <3>. SUFFICES ASSUME NEW x \in live PROVE FALSE
      OBVIOUS
    <3>1. x[1] \in Resource /\ x[2] \in Sessions
      BY <1>t DEF TypeOK, Thing
    <3>2. field[x[1]] = x[2]
      BY <2>2 DEF IInv, NothingLost
    <3>. QED  BY <2>4, <3>1, <3>2, ConstantsAssumption
  <2>6. main' = main \/ main' = Append(main, StartMsg)
    BY <1>17 DEF StopperFinishes
  <2>7. Children'
    BY <2>1, <2>2, <2>6, <1>t, Posted, ChildrenKept DEF IInv, QueueStep
  <2>8. OneStopper' /\ NothingLeft' /\ NothingLost' /\ TheJob' /\ Stoppers' /\ Early'
    BY <2>1, <2>3, <2>4, <2>5 DEF OneStopper, NothingLeft, NothingLost, TheJob, Stoppers, Early
  <2>. QED  BY <1>t, <2>7, <2>8 DEF IInv
<1>18. ASSUME NEW k \in Stops, NEW x \in Thing, ChildExits(k, x) PROVE IInv'
  <2>1. /\ x \in stopper[k].waits /\ x \in live /\ live' = live \ {x}
        /\ main' = Append(main, ChildMsg(k, x))
        /\ UNCHANGED <<state, connectingJob, job, field, stopper>>
    BY <1>18 DEF ChildExits, Notify
  <2>2. stopper[k].at = "cleaning"
    BY <2>1 DEF IInv, Stoppers
  <2>3. state = "Stopping" /\ \A s \in Sessions : job[s].at = "none"
    BY <2>2 DEF IInv, OneStopper, TheJob
  <2>4. OneStopper' /\ NothingLeft' /\ NothingLost' /\ TheJob' /\ Stoppers' /\ Early'
    BY <2>1, <2>3 DEF IInv, OneStopper, NothingLeft, NothingLost, TheJob, Stoppers, Early
  <2>5. Children'
    <3>. DEFINE n == Len(main)
    <3>1. /\ n \in Nat /\ Len(main') = n + 1 /\ main'[n + 1] = ChildMsg(k, x)
          /\ \A i \in 1..n : main'[i] = main[i]
      <4>1. main \in Seq(Message)
        BY <1>t DEF TypeOK
      <4>2. ChildMsg(k, x) \in Message
        BY MessageTypes
      <4>. QED  BY <2>1, <4>1, <4>2, QueueFacts
    <3>. HIDE DEF n
    <3>2. \A i \in 1..n : main[i] # ChildMsg(k, x)
      BY <2>1 DEF IInv, Children, n
    <3>. SUFFICES ASSUME NEW i \in 1..Len(main'), NEW j \in Stops, NEW y \in Thing,
                         main'[i] = ChildMsg(j, y)
                  PROVE  /\ y \in stopper'[j].waits
                         /\ y \notin live'
                         /\ \A h \in 1..Len(main') : main'[h] = main'[i] => h = i
      BY DEF Children
    <3>3. CASE i = n + 1
      <4>1. j = k /\ y = x
        BY <3>1, <3>3 DEF ChildMsg
      <4>2. \A h \in 1..(n + 1) : h # n + 1 => main'[h] # ChildMsg(k, x)
        BY <3>1, <3>2
      <4>. QED  BY <2>1, <3>1, <3>3, <4>1, <4>2
    <3>4. CASE i \in 1..n
      <4>1. main[i] = ChildMsg(j, y) /\ main[i] # ChildMsg(k, x)
        BY <3>1, <3>2, <3>4
      <4>2. /\ y \in stopper[j].waits /\ y \notin live
            /\ \A h \in 1..n : main[h] = main[i] => h = i
        BY <3>4, <4>1 DEF IInv, Children, n
      <4>. QED  BY <2>1, <3>1, <3>4, <4>1, <4>2
    <3>5. i = n + 1 \/ i \in 1..n
      BY <3>1
    <3>. QED  BY <3>3, <3>4, <3>5
  <2>. QED  BY <1>t, <2>4, <2>5 DEF IInv
<1>19. ASSUME NEW k \in Stops, NEW x \in Thing, ChildJoined(k, x) PROVE IInv'
  <2>1. /\ main # <<>> /\ Head(main) = ChildMsg(k, x) /\ main' = Tail(main)
        /\ stopper' = [stopper EXCEPT ![k].waits = @ \ {x}]
        /\ UNCHANGED <<state, connectingJob, job, field, live>>
    BY <1>19 DEF ChildJoined, Take, Receive
  <2>2. /\ stopper'[k].waits = stopper[k].waits \ {x}
        /\ \A j \in Stops : /\ j # k => stopper'[j].waits = stopper[j].waits
                             /\ stopper'[j].at = stopper[j].at
                             /\ stopper'[j].joins = stopper[j].joins
    BY <2>1, <1>t DEF TypeOK, Stopper
  <2>3. /\ Len(main) \in Nat \ {0} /\ main[1] = ChildMsg(k, x)
        /\ Len(main') = Len(main) - 1
        /\ \A i \in 1..Len(main') : i + 1 \in 1..Len(main) /\ main'[i] = main[i + 1]
    BY <2>1, <1>t, QueueFacts, MessageTypes DEF TypeOK
  <2>4. /\ 1 \in 1..Len(main) /\ x \notin live /\ x \in stopper[k].waits
        /\ \A i \in 1..Len(main) : main[i] = ChildMsg(k, x) => i = 1
    BY <2>3 DEF IInv, Children
  <2>5. NothingLost'
    BY <2>1, <2>2, <2>4 DEF IInv, NothingLost
  <2>6. OneStopper' /\ NothingLeft' /\ TheJob' /\ Stoppers' /\ Early'
    BY <2>1, <2>2 DEF IInv, OneStopper, NothingLeft, TheJob, Stoppers, Early
  <2>7. Children'
    <3>. SUFFICES ASSUME NEW i \in 1..Len(main'), NEW j \in Stops, NEW y \in Thing,
                         main'[i] = ChildMsg(j, y)
                  PROVE  /\ y \in stopper'[j].waits
                         /\ y \notin live'
                         /\ \A h \in 1..Len(main') : main'[h] = main'[i] => h = i
      BY DEF Children
    <3>1. i + 1 \in 1..Len(main) /\ main[i + 1] = ChildMsg(j, y) /\ i + 1 # 1
      BY <2>3
    <3>2. ChildMsg(j, y) # ChildMsg(k, x)
      BY <2>4, <3>1
    <3>3. j # k \/ y # x
      BY <3>2
    <3>4. /\ y \in stopper[j].waits /\ y \notin live
          /\ \A h \in 1..Len(main) : main[h] = main[i + 1] => h = i + 1
      BY <3>1 DEF IInv, Children
    <3>5. y \in stopper'[j].waits
      BY <2>2, <3>3, <3>4
    <3>6. ASSUME NEW h \in 1..Len(main'), main'[h] = main'[i] PROVE h = i
      <4>1. h + 1 = i + 1
        BY <2>3, <3>4, <3>6
      <4>. QED  BY <2>3, <4>1
    <3>. QED  BY <2>1, <3>4, <3>5, <3>6
  <2>. QED  BY <1>t, <2>5, <2>6, <2>7 DEF IInv
<1>21. CASE Crash
  <2>1. Len(main') = 0 /\ 1..Len(main') = {}
    BY <1>21 DEF Crash
  <2>. QED  BY <1>21, <2>1, <1>t DEF Crash, IInv, OneStopper, NothingLeft, NothingLost,
              TheJob, Stoppers, Early, Children, NoJob, NoStopper
<1>22. CASE UNCHANGED vars
  <2>1. UNCHANGED <<state, connectingJob, job, field, live, stopper, main>>
    BY <1>22 DEF vars
  <2>2. Children
    BY DEF IInv
  <2>3. Children'
    BY <2>1, <2>2 DEF Children
  <2>. QED  BY <1>s, <2>1, <2>3
<1>. QED
  BY <1>1, <1>2, <1>3, <1>4, <1>5, <1>6, <1>7, <1>8, <1>9, <1>10, <1>11, <1>12, <1>13,
     <1>14, <1>15, <1>16, <1>17, <1>18, <1>19, <1>20, <1>21, <1>22
     DEF Next, Step, Handle, Stopping

\* The invariant holds in every state of the service.
LEMMA Invariant == Spec => []IInv
  BY SafetyInit, SafetyNext, PTL DEF Spec

\* The early return of stopRunner keeps a second coroutine of it from running.
THEOREM StopsOnce == Spec => []OneStopper
<1>1. IInv => OneStopper
  BY DEF IInv
<1>. QED  BY <1>1, Invariant, PTL

\* cancelAndJoin keeps the clean-up and the connecting job apart.
THEOREM ConnectingEndsFirst == Spec => []StopAfterConnect
<1>1. IInv => StopAfterConnect
  BY DEF IInv, TheJob, StopAfterConnect
<1>. QED  BY <1>1, Invariant, PTL

\* A stopped service has released everything, however far the session had got
\* and whatever stopped it.
THEOREM StoppedIsClean == Spec => []NothingLeft
<1>1. IInv => NothingLeft
  BY DEF IInv
<1>. QED  BY <1>1, Invariant, PTL

\* At every moment, whatever is alive can be reached by the next stop, or is
\* being waited for by this one.
THEOREM AllReachable == Spec => []NothingLost
<1>1. IInv => NothingLost
  BY DEF IInv
<1>. QED  BY <1>1, Invariant, PTL

\* stopRunner moves the state to Stopping or leaves it alone.
LEMMA StopRunnerState ==
    ASSUME NEW restart, StopRunner(restart)
    PROVE  state' = "Stopping" \/ UNCHANGED state
  BY DEF StopRunner

\* Under the invariant, every step follows the state diagram of the service.
LEMMA EdgeStep == IInv /\ [Next]_vars => [Edge]_state
<1>. SUFFICES ASSUME IInv, [Next]_vars, state' # state PROVE Edge
  OBVIOUS
<1>0. state \in State
  BY DEF IInv, TypeOK
<1>1. CASE state' = "Stopping"
  BY <1>0, <1>1 DEF Edge, State
<1>2. CASE OnStartCommand
  BY <1>2 DEF Edge, OnStartCommand, MayStart
<1>3. ASSUME NEW s \in Sessions, SendFd(s), state' = "Connected" PROVE Edge
  BY <1>3, RunningJob DEF Edge, SendFd
<1>4. ASSUME NEW k \in Stops, StopperFinishes(k) PROVE Edge
  BY <1>4 DEF Edge, StopperFinishes, IInv, OneStopper
<1>5. CASE Crash
  BY <1>5 DEF Edge
<1>6. ASSUME NEW s \in Sessions, JobBegins(s) \/ JobContinues(s) \/ JobUnwinds(s) \/ OnFatal(s)
      PROVE  Edge
  BY <1>1, <1>6, StopRunnerState
     DEF JobBegins, JobContinues, JobUnwinds, OnFatal, StartProcesses, JobFails
<1>7. ASSUME NEW s \in Sessions, SendFd(s) PROVE Edge
  BY <1>1, <1>3, <1>7, StopRunnerState DEF SendFd, JobFails
<1>8. CASE OnStartUnprepared \/ OnStartIgnored \/ OnStartRejected \/ OnClose \/ OnReload
  BY <1>1, <1>8, StopRunnerState
     DEF OnStartUnprepared, OnStartIgnored, OnStartRejected, OnClose, OnReload
<1>9. ASSUME NEW s \in Sessions, AclReturns(s) \/ RestartFails(s) PROVE Edge
  BY <1>1, <1>9, StopRunnerState DEF AclReturns, RestartFails
<1>. QED
  BY <1>2, <1>4, <1>5, <1>6, <1>7, <1>8, <1>9
     DEF Next, Step, Handle, Stopping, vars, StopperCancels, StopperCleans, ChildJoined,
         ChildExits, GuardFails, Post

\* Without a revoked permission the service with onRevoke is Spec: what is
\* proved here of Spec holds of it until Android calls onRevoke.
THEOREM Unrevoked == RevokeSpec /\ []NotRevoked => Spec
<1>1. TypeOK /\ NotRevoked /\ NotRevoked' /\ [RevokeNext]_vars => [Next]_vars
  <2>1. TypeOK /\ OnRevoke => ~NotRevoked'
    <3>. SUFFICES ASSUME TypeOK, OnRevoke, NotRevoked' PROVE FALSE
      OBVIOUS
    <3>1. PICK k \in Stops : stopper' = [stopper EXCEPT ![k].at = "posted"]
      BY DEF OnRevoke
    <3>2. stopper'[k].at = "posted"
      BY <3>1 DEF TypeOK, Stopper
    <3>. QED  BY <3>2 DEF NotRevoked
  <2>2. ASSUME NEW k \in Stops, StopBegins(k) PROVE ~NotRevoked
    BY <2>2 DEF StopBegins, NotRevoked
  <2>. QED  BY <2>1, <2>2 DEF RevokeNext
<1>. QED  BY <1>1, TypeInit, TypeNext, PTL DEF RevokeSpec, Spec

\* As long as the permission is not revoked, no step but a crash leaves the
\* edges of the state diagram: sendFd, above all, does not report Connected
\* once a stop has begun on the main thread.  One that onRevoke has begun on a
\* binder thread is overtaken (StopWins).
THEOREM StateDiagram == RevokeSpec /\ []NotRevoked => Edges
  BY Unrevoked, Invariant, EdgeStep, PTL DEF Spec, Edges
-----------------------------------------------------------------------------
(***************************************************************************)
(* What a session has while it is connected.                               *)
(***************************************************************************)
\* The state of the world that killAll and preInit have left to a job.
Prepared ==
    \A s \in Sessions : job[s].at \in {"acl", "aclBack", "sendFd", "unwinding"} =>
      orphans # "alive" /\ "service" \in listeners

Whole(s) ==
    /\ "service" \in listeners
    /\ \A r \in Resource :
         \/ <<r, s>> \in live /\ field[r] = s
         \/ r \in Guards /\ \E i \in 1..Len(main) : main[i] = FatalMsg(s)

Sending ==
    \A s \in Sessions : job[s].at = "sendFd" /\ state = "Connecting" => Whole(s)

\* What ConnectedIsWhole and NoForeignProcess need besides IInv.
WInv == ConnectedIsWhole /\ NoForeignProcess /\ Prepared /\ Sending
-----------------------------------------------------------------------------
\* What has been posted stays in the queue until it is taken.
LEMMA MessageKept ==
    ASSUME TypeOK, NEW x, NEW m \in Message, QueueStep(m),
           main # <<>> /\ main' # main /\ main' # Append(main, m) => Head(main) # x,
           NEW i \in 1..Len(main), main[i] = x
    PROVE  \E j \in 1..Len(main') : main'[j] = x
<1>. USE DEF TypeOK
<1>1. CASE main' = main
  BY <1>1
<1>2. CASE main' = Append(main, m)
  <2>1. i \in 1..Len(main') /\ main'[i] = main[i]
    BY <1>2, QueueFacts
  <2>. QED  BY <2>1
<1>3. CASE /\ main # <<>> /\ main' # main /\ main' # Append(main, m)
           /\ main' = Tail(main) \/ main' = Append(Tail(main), m)
  <2>1. /\ Len(main) \in Nat \ {0} /\ Len(Tail(main)) = Len(main) - 1
        /\ main[1] # x
        /\ \A j \in 1..Len(Tail(main)) : Tail(main)[j] = main[j + 1]
    BY <1>3, QueueFacts
  <2>2. i - 1 \in 1..Len(Tail(main)) /\ Tail(main)[i - 1] = x
    BY <2>1
  <2>3. i - 1 \in 1..Len(main') /\ main'[i - 1] = x
    <3>1. CASE main' = Tail(main)
      BY <2>2, <3>1
    <3>2. CASE main' = Append(Tail(main), m)
      <4>. DEFINE q == Tail(main)
      <4>1. q \in Seq(Message) /\ Len(q) \in Nat
        BY <1>3, TakeType
      <4>. HIDE DEF q
      <4>2. Len(Append(q, m)) = Len(q) + 1 /\ \A j \in 1..Len(q) : Append(q, m)[j] = q[j]
        BY <4>1, QueueFacts
      <4>. QED  BY <2>2, <3>2, <4>1, <4>2 DEF q
    <3>. QED  BY <1>3, <3>1, <3>2
  <2>. QED  BY <2>3
<1>. QED  BY <1>1, <1>2, <1>3 DEF QueueStep

\* A session stays whole as long as nothing it needs is released.
LEMMA WholeKept ==
    ASSUME TypeOK, NEW s \in Sessions, Whole(s), NEW m \in Message, QueueStep(m),
           main # <<>> /\ main' # main /\ main' # Append(main, m) => Head(main) # FatalMsg(s),
           UNCHANGED <<field, live>>, listeners \subseteq listeners'
    PROVE  Whole(s)'
<1>. SUFFICES ASSUME NEW r \in Resource, ~(<<r, s>> \in live /\ field[r] = s)
              PROVE  r \in Guards /\ \E j \in 1..Len(main') : main'[j] = FatalMsg(s)
  BY DEF Whole
<1>1. r \in Guards /\ \E i \in 1..Len(main) : main[i] = FatalMsg(s)
  BY DEF Whole
<1>. QED  BY <1>1, MessageKept

\* The invariant of a session holds initially.
LEMMA SessionInit == Init => WInv
  BY DEF Init, WInv, ConnectedIsWhole, NoForeignProcess, Prepared, Sending, NoJob

\* A step that leaves the service stopping or stopped.
LEMMA HaltKeeps ==
    ASSUME WInv, state' \in {"Stopping", "Stopped"},
           orphans' = "alive" => orphans = "alive" /\ \A x \in live' : x \in live \/ x[1] \notin Guards,
           \A s \in Sessions : job'[s].at \in {"acl", "aclBack", "sendFd", "unwinding"} =>
             job[s].at \in {"acl", "aclBack", "sendFd", "unwinding"},
           listeners' = listeners \/ listeners' = listeners \ {"scope"}
    PROVE  WInv'
  BY DEF WInv, ConnectedIsWhole, NoForeignProcess, Prepared, Sending

\* A step of the queue alone that takes no report.
LEMMA QuietKeeps ==
    ASSUME TypeOK, WInv, NEW m \in Message, QueueStep(m),
           \A s \in Sessions :
             main # <<>> /\ main' # main /\ main' # Append(main, m) => Head(main) # FatalMsg(s),
           UNCHANGED <<state, field, live, listeners, orphans>>,
           \A s \in Sessions : job'[s].at = job[s].at
    PROVE  WInv'
<1>1. \A s \in Sessions : Whole(s) => Whole(s)'
  BY WholeKept
<1>2. ConnectedIsWhole'
  <2>. SUFFICES ASSUME state = "Connected" PROVE \E s \in Sessions : Whole(s)'
    BY DEF ConnectedIsWhole, Whole
  <2>. QED  BY <1>1 DEF WInv, ConnectedIsWhole, Whole
<1>. QED  BY <1>1, <1>2 DEF WInv, NoForeignProcess, Prepared, Sending

\* onStartCommand and startProcesses between them acquire every resource.
LEMMA StartOrderComplete == Resource = First \cup {StartOrder[i] : i \in 1..8}
  BY DEF Resource, Guards, Threads, First, StartOrder

\* startProcesses completes what onStartCommand has begun.
LEMMA StartWhole ==
    ASSUME IInv, WInv, Idle,
           NEW s \in Sessions, job[s].at \in {"queued", "aclBack"}, ~Cancelled(s),
           StartProcesses(s), "service" \in listeners', orphans' # "alive"
    PROVE  WInv'
<1>1. /\ state = "Connecting" /\ connectingJob = s
      /\ \A j \in Sessions : j # s => job[j].at = "none"
  BY RunningJob
<1>2. NoForeignProcess' /\ Prepared'
  BY DEF NoForeignProcess, Prepared
<1>3. CASE JobFails(s)
  <2>1. state' = "Stopping"
    BY <1>1, <1>3 DEF JobFails, StopRunner, AlreadyStopping
  <2>. QED  BY <1>2, <2>1 DEF WInv, ConnectedIsWhole, Sending
<1>4. CASE /\ field' = Holding(s, {StartOrder[i] : i \in 1..8})
           /\ live' = live \cup ({StartOrder[i] : i \in 1..8} \X {s})
           /\ job' = [job EXCEPT ![s].at = "sendFd"]
           /\ UNCHANGED state
  <2>. DEFINE R == {StartOrder[i] : i \in 1..8}
  <2>1. \A r \in First : <<r, s>> \in live /\ field[r] = s
    BY <1>1 DEF IInv, Early
  <2>2. R \cap First = {} /\ Resource = First \cup R
    BY StartOrderLater, StartOrderComplete
  <2>3. field' = Holding(s, R) /\ live' = live \cup (R \X {s})
    BY <1>4
  <2>. HIDE DEF R
  <2>4. \A r \in Resource : <<r, s>> \in live' /\ field'[r] = s
    BY <2>1, <2>2, <2>3 DEF Holding
  <2>5. Whole(s)'
    BY <2>4 DEF Whole
  <2>6. \A j \in Sessions : j # s => job'[j].at = "none"
    BY <1>1, <1>4 DEF IInv, TypeOK
  <2>. QED  BY <1>1, <1>2, <1>4, <2>5, <2>6 DEF WInv, ConnectedIsWhole, Sending
<1>. QED  BY <1>3, <1>4, StartOrderResources DEF StartProcesses

\* Every step keeps the invariant of a session.
LEMMA SessionNext == IInv /\ IInv' /\ WInv /\ [Next]_vars => WInv'
<1>. SUFFICES ASSUME IInv, IInv', WInv, [Next]_vars PROVE WInv'
  OBVIOUS
<1>t. TypeOK
  BY DEF IInv
<1>m. \A s \in Sessions : /\ StartMsg # FatalMsg(s)
                          /\ [what |-> "close"] # FatalMsg(s)
                          /\ [what |-> "reload"] # FatalMsg(s)
                          /\ \A j \in Sessions : JobMsg(j) # FatalMsg(s)
                          /\ \A k \in Stops, x \in Thing : ChildMsg(k, x) # FatalMsg(s)
  BY DEF StartMsg, FatalMsg, JobMsg, ChildMsg
<1>s. ASSUME NEW restart, StopRunner(restart),
             UNCHANGED <<job, live, listeners, orphans>> PROVE WInv'
  <2>1. state' = "Stopping"
    BY <1>s DEF StopRunner, AlreadyStopping
  <2>. QED  BY <1>s, <2>1, HaltKeeps
<1>1. CASE OnStartUnprepared
  BY <1>1, <1>s DEF OnStartUnprepared
<1>2. CASE OnStartIgnored
  BY <1>2, <1>t, <1>m, Posted, QuietKeeps DEF OnStartIgnored, Take, Receive, QueueStep
<1>3. CASE OnStartRejected
  <2>1. state' = "Stopping"
    BY <1>3 DEF OnStartRejected, StopRunner, AlreadyStopping
  <2>2. \A x \in live' : x \in live \/ x[1] \notin Guards
    BY <1>3 DEF OnStartRejected, Guards
  <2>. QED  BY <1>3, <2>1, <2>2, HaltKeeps DEF OnStartRejected
<1>4. CASE OnStartCommand
  <2>1. state' = "Connecting" /\ UNCHANGED orphans
    BY <1>4 DEF OnStartCommand
  <2>2. \A x \in live' : x \in live \/ x[1] \notin Guards
    BY <1>4 DEF OnStartCommand, Guards
  <2>3. \A s \in Sessions : job'[s].at \in {"none", "queued"}
    BY <1>4, <1>t DEF OnStartCommand, MayStart, IInv, NothingLeft, NoJob, TypeOK
  <2>. QED  BY <2>1, <2>2, <2>3 DEF WInv, ConnectedIsWhole, NoForeignProcess, Prepared, Sending
<1>5. ASSUME NEW s \in Sessions, JobBegins(s) PROVE WInv'
  <2>1. Idle /\ job[s].at = "queued" /\ connectingJob = s /\ state # "Connected"
        /\ \A j \in Sessions : j # s => job[j].at = "none"
    BY <1>5 DEF JobBegins, Take, Receive, IInv, TheJob
  <2>2. CASE /\ job' = [job EXCEPT ![s] = NoJob]
             /\ UNCHANGED <<state, live, orphans>>
    <3>1. \A j \in Sessions : job'[j].at = "none"
      BY <2>1, <2>2, <1>t DEF TypeOK, NoJob
    <3>. QED  BY <2>1, <2>2, <3>1
                DEF WInv, ConnectedIsWhole, NoForeignProcess, Prepared, Sending
  <2>3. CASE /\ job' = [job EXCEPT ![s].at = "acl"] /\ UNCHANGED state
             /\ orphans' # "alive" /\ "service" \in listeners'
    <3>1. \A j \in Sessions : job'[j].at \in {"none", "acl"}
      BY <2>1, <2>3, <1>t DEF TypeOK
    <3>. QED  BY <2>1, <2>3, <3>1
                DEF WInv, ConnectedIsWhole, NoForeignProcess, Prepared, Sending
  <2>4. CASE ~Cancelled(s) /\ StartProcesses(s) /\ orphans' # "alive" /\ "service" \in listeners'
    BY <2>1, <2>4, StartWhole
  <2>. QED  BY <1>5, <2>2, <2>3, <2>4 DEF JobBegins, KillAll
<1>6. ASSUME NEW s \in Sessions, AclReturns(s) PROVE WInv'
  <2>1. job[s].at = "acl" /\ state # "Connected" /\ \A j \in Sessions : j # s => job[j].at = "none"
    BY <1>6 DEF AclReturns, IInv, TheJob
  <2>2. job'[s].at = "aclBack" /\ \A j \in Sessions : j # s => job'[j].at = "none"
    BY <1>6, <2>1, <1>t DEF AclReturns, TypeOK, Job
  <2>. QED  BY <1>6, <2>1, <2>2
              DEF AclReturns, WInv, ConnectedIsWhole, NoForeignProcess, Prepared, Sending
<1>7. ASSUME NEW s \in Sessions, JobContinues(s) PROVE WInv'
  <2>1. Idle /\ job[s].at = "aclBack" /\ connectingJob = s /\ state # "Connected"
        /\ \A j \in Sessions : j # s => job[j].at = "none"
    <3>1. Idle /\ job[s].at = "aclBack"
      BY Zenon, <1>7 DEF JobContinues, Take, Receive
    <3>2. TheJob
      BY DEF IInv
    <3>. QED  BY <3>1, <3>2 DEF TheJob
  <2>2. UNCHANGED <<listeners, orphans>> /\ "service" \in listeners /\ orphans # "alive"
    BY <1>7, <2>1 DEF JobContinues, WInv, Prepared
  <2>3. CASE JobEnds(s) /\ (UNCHANGED state \/ state' = "Stopping") /\ UNCHANGED live
    <3>1. \A j \in Sessions : job'[j].at = "none"
      BY <2>1, <2>3, <1>t DEF TypeOK, NoJob, JobEnds
    <3>. QED  BY <2>1, <2>2, <2>3, <3>1
                DEF WInv, ConnectedIsWhole, NoForeignProcess, Prepared, Sending
  <2>4. CASE ~Cancelled(s) /\ StartProcesses(s)
    <3>1. orphans' # "alive"
      BY <2>2, <1>t DEF TypeOK
    <3>. QED  BY <2>1, <2>2, <2>4, <3>1, StartWhole
  <2>. QED  BY <1>7, <2>3, <2>4, StopRunnerState DEF JobContinues, JobFails
<1>8. ASSUME NEW s \in Sessions, SendFd(s) PROVE WInv'
  <2>1. /\ job[s].at = "sendFd" /\ state = "Connecting" /\ connectingJob = s
        /\ \A j \in Sessions : j # s => job[j].at = "none"
    BY <1>8, RunningJob DEF SendFd
  <2>2. UNCHANGED <<field, live, main, listeners, orphans>>
    BY <1>8 DEF SendFd
  <2>3. Whole(s) /\ Whole(s)'
    BY <2>1, <2>2 DEF WInv, Sending, Whole
  <2>4. NoForeignProcess'
    BY <2>2 DEF WInv, NoForeignProcess
  <2>5. CASE JobEnds(s)
    <3>1. \A j \in Sessions : job'[j].at = "none"
      BY <2>1, <2>5, <1>t DEF TypeOK, NoJob, JobEnds
    <3>2. ConnectedIsWhole'
      BY <2>3 DEF ConnectedIsWhole, Whole
    <3>. QED  BY <2>4, <3>1, <3>2 DEF WInv, Prepared, Sending
  <2>6. CASE job' = NextTry(s) /\ UNCHANGED state
    <3>1. job'[s].at = "sendFd" /\ \A j \in Sessions : j # s => job'[j].at = "none"
      BY <2>1, <2>6, <1>t DEF TypeOK, Job, NextTry
    <3>. QED  BY <2>1, <2>2, <2>3, <2>4, <2>6, <3>1
                DEF WInv, ConnectedIsWhole, Prepared, Sending
  <2>. QED  BY <1>8, <2>5, <2>6 DEF SendFd, JobFails
<1>9. ASSUME NEW s \in Sessions, JobUnwinds(s) PROVE WInv'
  <2>1. state # "Connected" /\ \A j \in Sessions : j # s => job[j].at = "none"
    BY <1>9 DEF JobUnwinds, IInv, TheJob
  <2>2. \A j \in Sessions : job'[j].at = "none"
    BY <1>9, <2>1, <1>t DEF TypeOK, NoJob, JobEnds, JobUnwinds
  <2>. QED  BY <1>9, <2>1, <2>2
              DEF JobUnwinds, WInv, ConnectedIsWhole, NoForeignProcess, Prepared, Sending
<1>10. CASE OnClose
  <2>1. CASE field["receiver"] # None
    BY <1>10, <2>1, <1>s DEF OnClose
  <2>2. CASE field["receiver"] = None
    BY <1>10, <2>2, <1>t, <1>m, Posted, QuietKeeps DEF OnClose, Take, Receive, QueueStep
  <2>. QED  BY <2>1, <2>2
<1>11. CASE OnReload
  <2>1. CASE field["receiver"] # None /\ state \in canStop
    BY <1>11, <2>1, <1>s DEF OnReload
  <2>2. CASE ~(field["receiver"] # None /\ state \in canStop)
    BY <1>11, <2>2, <1>t, <1>m, Posted, QuietKeeps DEF OnReload, Receive, QueueStep
  <2>. QED  BY <2>1, <2>2
<1>12. ASSUME NEW s \in Sessions, OnFatal(s) PROVE WInv'
  BY <1>12, <1>s DEF OnFatal
<1>13. ASSUME NEW s \in Sessions, NEW g \in Guards, GuardFails(s, g) PROVE WInv'
  <2>1. /\ field[g] = s /\ live' = live \ {<<g, s>>} /\ field' = [field EXCEPT ![g] = None]
        /\ main' = Append(main, FatalMsg(s))
        /\ UNCHANGED <<state, job, listeners, orphans>>
    BY <1>13 DEF GuardFails, Report
  <2>2. \E i \in 1..Len(main') : main'[i] = FatalMsg(s)
    <3>1. Len(main') = Len(main) + 1 /\ Len(main) \in Nat /\ main'[Len(main) + 1] = FatalMsg(s)
      BY <2>1, <1>t, Posted, QueueFacts DEF TypeOK
    <3>. QED  BY <3>1
  <2>3. ASSUME NEW j \in Sessions, Whole(j) PROVE Whole(j)'
    <3>. SUFFICES ASSUME NEW r \in Resource
                  PROVE  \/ <<r, j>> \in live' /\ field'[r] = j
                         \/ r \in Guards /\ \E i \in 1..Len(main') : main'[i] = FatalMsg(j)
      BY <2>1, <2>3 DEF Whole
    <3>1. CASE <<r, j>> \in live /\ field[r] = j
      <4>1. CASE r = g
        BY <2>1, <2>2, <3>1, <4>1
      <4>2. CASE r # g
        BY <2>1, <3>1, <4>2, <1>t DEF TypeOK
      <4>. QED  BY <4>1, <4>2
    <3>2. CASE r \in Guards /\ \E i \in 1..Len(main) : main[i] = FatalMsg(j)
      BY <2>1, <3>2, <1>t, Posted, MessageKept DEF QueueStep
    <3>. QED  BY <2>3, <3>1, <3>2 DEF Whole
  <2>4. ConnectedIsWhole'
    <3>. SUFFICES ASSUME state = "Connected" PROVE \E j \in Sessions : Whole(j)'
      BY <2>1 DEF ConnectedIsWhole, Whole
    <3>. QED  BY <2>3 DEF WInv, ConnectedIsWhole, Whole
  <2>5. Sending'
    BY <2>1, <2>3 DEF WInv, Sending
  <2>. QED  BY <2>1, <2>4, <2>5 DEF WInv, NoForeignProcess, Prepared
<1>14. ASSUME NEW s \in Sessions, RestartFails(s) PROVE WInv'
  <2>1. CASE StopRunner(FALSE)
    BY <1>14, <2>1, <1>s DEF RestartFails
  <2>2. CASE main' = Append(main, FatalMsg(s)) /\ UNCHANGED state
    BY <1>14, <2>2, <1>t, Posted, QuietKeeps DEF RestartFails, QueueStep
  <2>. QED  BY <1>14, <2>1, <2>2 DEF RestartFails, Report
<1>15. ASSUME NEW k \in Stops, StopperCancels(k) PROVE WInv'
  <2>1. state = "Stopping" /\ UNCHANGED <<state, live, listeners, orphans>>
    BY <1>15 DEF StopperCancels, IInv, OneStopper
  <2>2. ASSUME NEW s \in Sessions
        PROVE  job'[s].at = job[s].at \/ job[s].at = "sendFd"
    <3>1. CASE Joined(k)
      BY <1>15, <3>1 DEF StopperCancels
    <3>2. CASE ~Joined(k)
      BY <1>15, <3>2, <1>t DEF StopperCancels, TypeOK, Job
    <3>. QED  BY <3>1, <3>2
  <2>. QED  BY <2>1, <2>2, HaltKeeps
<1>16. ASSUME NEW k \in Stops, StopperCleans(k) PROVE WInv'
  <2>1. state' = "Stopping" /\ UNCHANGED <<job, orphans>> /\ listeners' = listeners \ {"scope"}
    BY <1>16 DEF StopperCleans, IInv, OneStopper
  <2>2. live' \subseteq live
    BY <1>16 DEF StopperCleans
  <2>. QED  BY <2>1, <2>2, HaltKeeps
<1>17. ASSUME NEW k \in Stops, StopperFinishes(k) PROVE WInv'
  BY <1>17, HaltKeeps DEF StopperFinishes
<1>18. ASSUME NEW k \in Stops, NEW x \in Thing, ChildExits(k, x) PROVE WInv'
  <2>1. state = "Stopping"
    BY <1>18 DEF ChildExits, IInv, Stoppers, OneStopper
  <2>. QED  BY <1>18, <2>1, HaltKeeps DEF ChildExits
<1>19. ASSUME NEW k \in Stops, NEW x \in Thing, ChildJoined(k, x) PROVE WInv'
  BY <1>19, <1>t, <1>m, Posted, QuietKeeps DEF ChildJoined, Take, Receive, QueueStep
<1>20. ASSUME NEW c \in Commands, Post([what |-> c]) PROVE WInv'
  <2>. DEFINE m == [what |-> c]
  <2>1. m \in Message /\ main' = Append(main, m)
    BY <1>20, Posted DEF Post
  <2>2. UNCHANGED <<state, field, live, listeners, orphans, job>>
    BY <1>20 DEF Post
  <2>. HIDE DEF m
  <2>. QED  BY <2>1, <2>2, <1>t, QuietKeeps DEF QueueStep
<1>21. CASE Crash
  BY <1>21 DEF Crash, NoJob, WInv, ConnectedIsWhole, NoForeignProcess, Prepared, Sending
<1>22. CASE UNCHANGED vars
  BY <1>22 DEF vars, WInv, ConnectedIsWhole, NoForeignProcess, Prepared, Sending, Whole
<1>. QED
  BY <1>1, <1>2, <1>3, <1>4, <1>5, <1>6, <1>7, <1>8, <1>9, <1>10, <1>11, <1>12, <1>13,
     <1>14, <1>15, <1>16, <1>17, <1>18, <1>19, <1>20, <1>21, <1>22
     DEF Next, Step, Handle, Stopping

\* The invariant of a session holds in every state.
LEMMA SessionInvariant == Spec => []WInv
  BY SessionInit, SessionNext, Invariant, PTL DEF Spec

\* A Connected service has a whole session: a child process it lacks has been
\* reported by its guard, and onFatal is still to come.
THEOREM SessionIsWhole == Spec => []ConnectedIsWhole
<1>1. WInv => ConnectedIsWhole
  BY DEF WInv
<1>. QED  BY <1>1, SessionInvariant, PTL

\* killAll runs before any process is started, so the processes of two runs of
\* :bg are alive together only if a kill has failed, wherever the earlier run
\* died.
THEOREM OneGeneration == Spec => []NoForeignProcess
<1>1. WInv => NoForeignProcess
  BY DEF WInv
<1>. QED  BY <1>1, SessionInvariant, PTL

-----------------------------------------------------------------------------
(***************************************************************************)
(* The boot receiver.                                                      *)
(***************************************************************************)
\* stopRunner never leads to the state Stopped.
LEMMA StopsFrom ==
    ASSUME NEW restart, StopRunner(restart), state' = "Stopped"
    PROVE  FALSE
  BY DEF StopRunner, AlreadyStopping

\* If no start is in the queue after a step that takes none, none was before.
LEMMA NoStartBefore ==
    ASSUME TypeOK, NEW m \in Message, QueueStep(m),
           main # <<>> /\ main' # main /\ main' # Append(main, m) => Head(main) # StartMsg,
           \A i \in 1..Len(main') : main'[i] # StartMsg
    PROVE  \A i \in 1..Len(main) : main[i] # StartMsg
  BY MessageKept

\* Messages other than a start are not a start.
LEMMA NotStart ==
    /\ [what |-> "close"] # StartMsg /\ [what |-> "reload"] # StartMsg
    /\ \A s \in Sessions : JobMsg(s) # StartMsg /\ FatalMsg(s) # StartMsg
    /\ \A k \in Stops, x \in Thing : ChildMsg(k, x) # StartMsg
  BY DEF StartMsg, JobMsg, FatalMsg, ChildMsg

\* A step other than a crash that ends in a stale flag begins with one.
LEMMA BootStep ==
    IInv /\ [Next]_vars => [StaleFlag' => StaleFlag \/ Crash]_vars
<1>. SUFFICES ASSUME IInv, Next, StaleFlag', ~Crash PROVE StaleFlag
  OBVIOUS
<1>0. /\ state' = "Stopped" /\ enabled' /\ \A i \in 1..Len(main') : main'[i] # StartMsg
      /\ TypeOK /\ enabled \in BOOLEAN
  BY DEF StaleFlag, IInv, TypeOK
<1>1. ASSUME state = "Stopped", enabled' = enabled,
             NEW m \in Message, QueueStep(m),
             main # <<>> /\ main' # main /\ main' # Append(main, m) => Head(main) # StartMsg
      PROVE  StaleFlag
  BY <1>0, <1>1, NoStartBefore DEF StaleFlag
<1>2. CASE OnStartUnprepared \/ OnStartRejected \/ OnStartIgnored \/ OnStartCommand
  BY <1>0, <1>2, StopsFrom
     DEF OnStartUnprepared, OnStartRejected, OnStartIgnored, OnStartCommand, MayStart
<1>3. CASE OnClose \/ OnReload
  <2>1. state = "Stopped" /\ enabled' = enabled
    BY <1>0, <1>3, StopsFrom DEF OnClose, OnReload
  <2>2. QueueStep(StartMsg) /\ main # <<>> /\ Head(main) # StartMsg
    BY <1>3, NotStart DEF OnClose, OnReload, Take, Receive, QueueStep
  <2>. QED  BY <1>1, <2>1, <2>2, MessageTypes
<1>4. ASSUME NEW s \in Sessions, JobBegins(s) \/ JobContinues(s) \/ JobUnwinds(s) \/ OnFatal(s)
      PROVE  StaleFlag
  <2>1. state = "Stopped" /\ enabled' = enabled
    BY <1>0, <1>4, StopsFrom
       DEF JobBegins, JobContinues, JobUnwinds, OnFatal, StartProcesses, JobFails
  <2>2. QueueStep(StartMsg) /\ main # <<>> /\ Head(main) # StartMsg
    BY <1>4, NotStart
       DEF JobBegins, JobContinues, JobUnwinds, OnFatal, Take, Receive, QueueStep
  <2>. QED  BY <1>1, <2>1, <2>2, MessageTypes
<1>5. ASSUME NEW k \in Stops, NEW x \in Thing, ChildJoined(k, x)
      PROVE  StaleFlag
  <2>1. QueueStep(StartMsg) /\ main # <<>> /\ Head(main) # StartMsg
    BY <1>5, NotStart DEF ChildJoined, Take, Receive, QueueStep
  <2>. QED  BY <1>0, <1>1, <1>5, <2>1, MessageTypes DEF ChildJoined
<1>6. ASSUME NEW k \in Stops, Stopping(k)
      PROVE  FALSE
  <2>1. state = "Stopping"
    BY <1>6 DEF Stopping, StopperCancels, StopperCleans, StopperFinishes, IInv, OneStopper
  <2>2. CASE StopperFinishes(k)
    <3>1. stopper[k].restart /\ main' = Append(main, StartMsg)
      BY <1>0, <2>2 DEF StopperFinishes, BootAfterStop
    <3>2. Len(main) + 1 \in 1..Len(main') /\ main'[Len(main) + 1] = StartMsg
      <4>1. main \in Seq(Message) /\ StartMsg \in Message
        BY <1>0, MessageTypes DEF TypeOK
      <4>2. Len(main) \in Nat /\ Len(main') = Len(main) + 1
            /\ main'[Len(main) + 1] = StartMsg
        BY <3>1, <4>1, QueueFacts
      <4>. QED  BY <4>2
    <3>. QED  BY <1>0, <3>2
  <2>3. CASE StopperCancels(k) \/ StopperCleans(k)
    BY <1>0, <2>1, <2>3 DEF StopperCancels, StopperCleans
  <2>. QED  BY <1>6, <2>2, <2>3 DEF Stopping
<1>7. ASSUME NEW s \in Sessions, AclReturns(s) \/ SendFd(s) \/ RestartFails(s)
      PROVE  StaleFlag
  <2>1. state = "Stopped" /\ enabled' = enabled
    BY <1>0, <1>7, StopsFrom DEF AclReturns, SendFd, RestartFails, JobFails
  <2>2. \E m \in Message : main' = main \/ main' = Append(main, m)
    BY <1>7, MessageTypes DEF AclReturns, SendFd, RestartFails, Report
  <2>. QED  BY <1>1, <2>1, <2>2 DEF QueueStep
<1>8. ASSUME NEW s \in Sessions, NEW g \in Guards, GuardFails(s, g)
      PROVE  StaleFlag
  BY <1>0, <1>1, <1>8, MessageTypes DEF GuardFails, Report, QueueStep
<1>9. ASSUME NEW k \in Stops, NEW x \in Thing, ChildExits(k, x)
      PROVE  StaleFlag
  BY <1>0, <1>1, <1>9, MessageTypes DEF ChildExits, Notify, QueueStep
<1>10. ASSUME NEW c \in Commands, Post([what |-> c])
       PROVE  StaleFlag
  BY <1>0, <1>1, <1>10, MessageTypes DEF Post, QueueStep
<1>. QED
  BY <1>2, <1>3, <1>4, <1>5, <1>6, <1>7, <1>8, <1>9, <1>10 DEF Next, Step, Handle

\* The boot receiver is enabled for a service that does not run only after a
\* crash: no stop, refused start or restart leaves the flag behind.
THEOREM BootFlagFollows == Spec => BootFlag
  BY Invariant, BootStep, PTL DEF Spec, BootFlag

-----------------------------------------------------------------------------
(***************************************************************************)
(* The refinement: VpnService implements Lifecycle, for every set of       *)
(* sessions, of stoppers and of commands.                                  *)
(***************************************************************************)
\* The commands.
Three == {"start", "close", "reload"}

-----------------------------------------------------------------------------
(***************************************************************************)
(* The queue.                                                              *)
(***************************************************************************)
\* Messages that are no commands.
LEMMA NoCommand ==
    \A c \in Three :
      /\ \A s \in Sessions : JobMsg(s) # [what |-> c] /\ FatalMsg(s) # [what |-> c]
      /\ \A k \in Stops, x \in Thing : ChildMsg(k, x) # [what |-> c]
      /\ \A d \in Three : [what |-> c] = [what |-> d] => c = d
  BY DEF Three, JobMsg, FatalMsg, ChildMsg

\* What is asked depends on the queue alone.
LEMMA AskedKept == ASSUME main' = main PROVE Asked' = Asked
  BY DEF Asked

\* A message that is posted adds the command that it is.
LEMMA AskedPosted ==
    ASSUME TypeOK, NEW m \in Message, main' = Append(main, m)
    PROVE  Asked' = Asked \cup {c \in Three : m = [what |-> c]}
<1>1. \A c : (\E i \in 1..Len(main') : main'[i] = [what |-> c])
               <=> (m = [what |-> c] \/ \E i \in 1..Len(main) : main[i] = [what |-> c])
  <2>1. main \in Seq(Message)
    BY DEF TypeOK
  <2>2. /\ Len(main) \in Nat /\ Len(main') = Len(main) + 1
        /\ main'[Len(main) + 1] = m /\ \A i \in 1..Len(main) : main'[i] = main[i]
    BY <2>1, QueueFacts
  <2>. QED  BY <2>2
<1>. QED  BY <1>1 DEF Asked, Three

\* A message that is taken is no longer asked, unless it was asked twice.
LEMMA AskedTaken ==
    ASSUME TypeOK, main # <<>>, main' = Tail(main)
    PROVE  /\ \A c \in Three : Head(main) = [what |-> c] =>
                c \in Asked /\ Asked' \in {Asked, Asked \ {c}}
           /\ (\A c \in Three : Head(main) # [what |-> c]) => Asked' = Asked
<1>1. main \in Seq(Message)
  BY DEF TypeOK
<1>2. /\ Len(main) \in Nat \ {0} /\ Len(main') = Len(main) - 1 /\ Head(main) = main[1]
      /\ \A i \in 1..Len(main') : main'[i] = main[i + 1]
  BY <1>1, QueueFacts
<1>3. \A c : (\E i \in 1..Len(main) : main[i] = [what |-> c])
               <=> (Head(main) = [what |-> c] \/ \E i \in 1..Len(main') : main'[i] = [what |-> c])
  <2>. SUFFICES ASSUME NEW c
                PROVE  (\E i \in 1..Len(main) : main[i] = [what |-> c])
                         <=> (Head(main) = [what |-> c]
                               \/ \E i \in 1..Len(main') : main'[i] = [what |-> c])
    OBVIOUS
  <2>1. ASSUME NEW i \in 1..Len(main), main[i] = [what |-> c]
        PROVE  Head(main) = [what |-> c] \/ \E j \in 1..Len(main') : main'[j] = [what |-> c]
    <3>1. CASE i = 1
      BY <1>2, <2>1, <3>1
    <3>2. CASE i # 1
      <4>1. i - 1 \in 1..Len(main') /\ main'[i - 1] = main[i]
        BY <1>2, <3>2
      <4>. QED  BY <2>1, <4>1
    <3>. QED  BY <3>1, <3>2
  <2>2. ASSUME NEW i \in 1..Len(main'), main'[i] = [what |-> c]
        PROVE  \E j \in 1..Len(main) : main[j] = [what |-> c]
    BY <1>2, <2>2
  <2>3. 1 \in 1..Len(main)
    BY <1>2
  <2>. QED  BY <1>2, <2>1, <2>2, <2>3
<1>4. \A c \in Three : c \in Asked <=> (Head(main) = [what |-> c] \/ c \in Asked')
  BY <1>3 DEF Asked, Three
<1>5. Asked \subseteq Three /\ Asked' \subseteq Three
  BY DEF Asked, Three
<1>6. ASSUME NEW c \in Three, Head(main) = [what |-> c]
      PROVE  c \in Asked /\ Asked' \in {Asked, Asked \ {c}}
  <2>1. \A d \in Three : Head(main) = [what |-> d] => d = c
    BY <1>6, NoCommand
  <2>. QED  BY <1>4, <1>5, <1>6, <2>1
<1>. QED  BY <1>4, <1>5, <1>6

-----------------------------------------------------------------------------
(***************************************************************************)
(* The coroutines of stopRunner.                                           *)
(***************************************************************************)
\* stopRunner is a stop of Lifecycle, or nothing.
LEMMA StopSeen ==
    ASSUME IInv, NEW r \in BOOLEAN, StopRunner(r)
    PROVE  \/ state = "Stopping" /\ state' = state /\ Restarts' = Restarts
           \/ Life!Stop(r)
<1>1. CASE state = "Stopping"
  BY <1>1 DEF StopRunner, AlreadyStopping, Restarts
<1>2. CASE state # "Stopping"
  <2>1. \A j \in Stops : stopper[j].at = "idle"
    BY <1>2, NoStopperWaits
  <2>2. PICK k \in Stops : stopper' = [stopper EXCEPT ![k] =
               [at |-> "begin", joins |-> connectingJob, restart |-> r, waits |-> {}]]
    BY <1>2 DEF StopRunner, AlreadyStopping
  <2>3. stopper'[k].at = "begin" /\ stopper'[k].restart = r
    BY <2>2 DEF IInv, TypeOK
  <2>4. \A j \in Stops : j # k => stopper'[j].at = "idle"
    BY <2>1, <2>2 DEF IInv, TypeOK
  <2>5. Restarts' = r
    BY <2>3, <2>4, Zenon DEF Restarts
  <2>6. state' = "Stopping"
    BY <1>2 DEF StopRunner, AlreadyStopping
  <2>. QED  BY <1>2, <2>5, <2>6 DEF Life!Stop
<1>. QED  BY <1>1, <1>2

\* The others neither begin nor end one.
LEMMA RestartsKept ==
    ASSUME TypeOK, NEW k \in Stops, NEW w, NEW a, stopper[k].at # "idle", a # "idle",
           stopper' = [stopper EXCEPT ![k].at = a, ![k].waits = w]
    PROVE  Restarts' = Restarts
<1>1. \A j \in Stops : j # k => stopper'[j] = stopper[j]
  BY DEF TypeOK
<1>2. stopper'[k].at = a /\ stopper'[k].restart = stopper[k].restart
  BY DEF TypeOK, Stopper
<1>. QED  BY <1>1, <1>2, Zenon DEF Restarts

-----------------------------------------------------------------------------
(***************************************************************************)
(* The steps.                                                              *)
(***************************************************************************)
\* A step that nobody outside sees.
Unseen == UNCHANGED <<state, Asked, Restarts, Receiving>>

\* A stop that is not asked for by a command.
LEMMA FailSeen ==
    ASSUME IInv, StopRunner(FALSE), Asked' = Asked, Receiving' = Receiving
    PROVE  Life!Fail \/ Unseen
<1>1. Life!Stop(FALSE) \/ (state' = state /\ Restarts' = Restarts)
  BY StopSeen
<1>. QED  BY <1>1 DEF Life!Fail, Unseen

\* The message of a start, a close or a reload is taken.
LEMMA CommandTaken ==
    ASSUME TypeOK, NEW c \in Three, Take([what |-> c])
    PROVE  Life!Handled(c)
  BY AskedTaken DEF Take, Receive, Life!Handled

\* A start that is taken and posts the connecting job.
LEMMA StartTaken ==
    ASSUME TypeOK, main # <<>>, Head(main) = [what |-> "start"], NEW s \in Sessions,
           main' = Append(Tail(main), JobMsg(s))
    PROVE  Life!Handled("start")
<1>. DEFINE rest == Tail(main)
<1>1. main \in Seq(Message) /\ rest \in Seq(Message) /\ JobMsg(s) \in Message
  BY TakeType, MessageTypes DEF TypeOK
<1>2. /\ Len(main) \in Nat \ {0} /\ Len(rest) = Len(main) - 1 /\ main[1] = [what |-> "start"]
      /\ \A i \in 1..Len(rest) : rest[i] = main[i + 1]
  BY <1>1, QueueFacts
<1>3. /\ Len(rest) \in Nat /\ Len(main') = Len(rest) + 1 /\ main'[Len(rest) + 1] = JobMsg(s)
      /\ \A i \in 1..Len(rest) : main'[i] = rest[i]
  BY <1>1, QueueFacts
<1>. HIDE DEF rest
<1>4. Len(main') = Len(main) /\ main'[Len(main)] = JobMsg(s)
      /\ \A i \in 1..(Len(main) - 1) : main'[i] = main[i + 1]
  BY <1>2, <1>3
<1>5. ASSUME NEW c \in Three, NEW i \in 1..Len(main'), main'[i] = [what |-> c]
      PROVE  \E j \in 1..Len(main) : main[j] = [what |-> c]
  <2>1. i # Len(main)
    BY <1>4, <1>5, NoCommand
  <2>2. i + 1 \in 1..Len(main) /\ main[i + 1] = main'[i]
    BY <1>2, <1>4, <2>1
  <2>. QED  BY <1>5, <2>2
<1>6. ASSUME NEW c \in Three, c # "start", NEW i \in 1..Len(main), main[i] = [what |-> c]
      PROVE  \E j \in 1..Len(main') : main'[j] = [what |-> c]
  <2>1. i # 1
    BY <1>2, <1>6, NoCommand DEF Three
  <2>2. i - 1 \in 1..Len(main') /\ main'[i - 1] = main[i]
    BY <1>2, <1>4, <2>1
  <2>. QED  BY <1>6, <2>2
<1>7. "start" \in Asked
  BY <1>2 DEF Asked
<1>8. Asked' \subseteq Asked /\ Asked \ {"start"} \subseteq Asked'
  BY <1>5, <1>6 DEF Asked, Three
<1>. QED  BY <1>7, <1>8 DEF Life!Handled

\* Any other message is taken.
LEMMA OtherTaken ==
    ASSUME TypeOK, NEW m, \A c \in Three : m # [what |-> c], Take(m)
    PROVE  Asked' = Asked
  BY AskedTaken DEF Take, Receive

\* Acquiring what startProcesses acquires leaves the receiver alone.
LEMMA ReceiverKept ==
    ASSUME TypeOK, NEW s \in Sessions, StartProcesses(s)
    PROVE  Receiving' = Receiving
<1>1. PICK n \in 1..8 : field' = Holding(s, {StartOrder[i] : i \in 1..n})
  BY StartOrderResources DEF StartProcesses
<1>2. "receiver" \notin {StartOrder[i] : i \in 1..n} /\ "receiver" \in Resource
  BY StartOrderLater DEF First, Resource
<1>3. field'["receiver"] = field["receiver"]
  BY <1>1, <1>2 DEF Holding
<1>. QED  BY <1>3 DEF Receiving

\* The handlers of the three commands.
LEMMA CommandSeen ==
    ASSUME IInv,
           \/ OnStartUnprepared \/ OnStartIgnored \/ OnStartRejected \/ OnStartCommand
           \/ OnClose \/ OnReload
    PROVE  Life!Handle
<1>0. TypeOK /\ "receiver" \in Resource
  BY DEF IInv, Resource
<1>1. CASE OnStartUnprepared
  <2>1. Life!Handled("start") /\ Receiving' = Receiving
    BY <1>0, <1>1, CommandTaken DEF OnStartUnprepared, Three, StartMsg, Receiving
  <2>2. (state = "Stopping" /\ state' = state /\ Restarts' = Restarts) \/ Life!Stop(FALSE)
    BY <1>1, StopSeen DEF OnStartUnprepared
  <2>. QED  BY <2>1, <2>2 DEF Life!Handle, Life!Ignore, Life!Refuse
<1>2. CASE OnStartIgnored
  <2>1. Life!Handled("start") /\ Receiving' = Receiving /\ Restarts' = Restarts
    BY <1>0, <1>2, CommandTaken DEF OnStartIgnored, Three, StartMsg, Receiving, Restarts
  <2>. QED  BY <1>2, <2>1 DEF OnStartIgnored, MayStart, Life!Handle, Life!Ignore
<1>3. CASE OnStartRejected
  <2>1. Life!Handled("start")
    BY <1>0, <1>3, CommandTaken DEF OnStartRejected, Three, StartMsg
  <2>2. PICK s \in Sessions, R \in {{"notification"}, {"notification", "proxy"}} :
          field' = Holding(s, R)
    BY <1>3 DEF OnStartRejected
  <2>3. field'["receiver"] = field["receiver"]
    BY <1>0, <2>2 DEF Holding
  <2>4. Receiving' = Receiving
    BY <2>3 DEF Receiving
  <2>5. Life!Stop(FALSE)
    BY <1>3, StopSeen DEF OnStartRejected, MayStart
  <2>. QED  BY <2>1, <2>4, <2>5 DEF Life!Handle, Life!Refuse
<1>4. CASE OnStartCommand
  <2>1. PICK s \in Sessions :
          /\ field' = [Holding(s, {"proxy", "notification"}
                              \cup {r \in {"receiver"} : field[r] = None})
                         EXCEPT !["monitor"] = None]
          /\ main' = Append(Tail(main), JobMsg(s))
    BY <1>4 DEF OnStartCommand
  <2>2. Life!Handled("start")
    BY <1>0, <1>4, <2>1, StartTaken DEF OnStartCommand, Receive, StartMsg
  <2>3. field'["receiver"] = IF field["receiver"] = None THEN s ELSE field["receiver"]
    BY <1>0, <2>1 DEF Holding
  <2>4. Receiving' = TRUE
    BY <2>3, ConstantsAssumption DEF Receiving
  <2>5. Restarts' = Restarts
    BY <1>4 DEF OnStartCommand, Restarts
  <2>. QED
    BY <1>4, <2>2, <2>4, <2>5 DEF OnStartCommand, MayStart, Life!Handle, Life!Start
<1>5. CASE OnClose
  <2>1. Life!Handled("close") /\ Receiving' = Receiving
    BY <1>0, <1>5, CommandTaken DEF OnClose, Three, Receiving
  <2>2. CASE Receiving
    <3>1. (state = "Stopping" /\ state' = state /\ Restarts' = Restarts) \/ Life!Stop(FALSE)
      BY <1>5, <2>2, StopSeen DEF OnClose, Receiving
    <3>. QED  BY <2>1, <2>2, <3>1 DEF Life!Handle, Life!Ignore, Life!Close
  <2>3. CASE ~Receiving
    <3>1. state' = state /\ Restarts' = Restarts
      BY <1>5, <2>3 DEF OnClose, Receiving, Restarts
    <3>. QED  BY <2>1, <2>3, <3>1 DEF Life!Handle, Life!Ignore
  <2>. QED  BY <2>2, <2>3
<1>6. CASE OnReload
  <2>1. Receiving => state # "Stopped"
    BY <1>0 DEF IInv, NothingLeft, Receiving
  <2>2. Take([what |-> "reload"]) /\ Receiving' = Receiving
    BY <1>6, <2>1 DEF OnReload, Take, Receive, Receiving
  <2>3. Life!Handled("reload")
    BY <1>0, <2>2, CommandTaken DEF Three
  <2>4. CASE Receiving /\ state \in Life!canStop
    <3>1. Life!Stop(TRUE)
      BY <1>6, <2>4, StopSeen DEF OnReload, Receiving, canStop, Life!canStop
    <3>. QED  BY <2>2, <2>3, <2>4, <3>1 DEF Life!Handle, Life!Reload
  <2>5. CASE ~(Receiving /\ state \in Life!canStop)
    <3>1. state' = state /\ Restarts' = Restarts
      BY <1>6, <2>5 DEF OnReload, Receiving, canStop, Life!canStop, Restarts
    <3>2. Receiving => state = "Stopping"
      BY <1>0, <2>1, <2>5 DEF TypeOK, State, Life!canStop
    <3>. QED  BY <2>2, <2>3, <3>1, <3>2 DEF Life!Handle, Life!Ignore
  <2>. QED  BY <2>4, <2>5
<1>. QED  BY <1>1, <1>2, <1>3, <1>4, <1>5, <1>6

\* The connecting job: it connects, it fails, or it goes on unseen.
LEMMA JobSeen ==
    ASSUME IInv, NEW s \in Sessions,
           \/ JobBegins(s) \/ JobContinues(s) \/ JobUnwinds(s) \/ AclReturns(s) \/ SendFd(s)
    PROVE  Life!Connect \/ Life!Fail \/ Unseen
<1>0. TypeOK /\ JobMsg(s) \in Message /\ \A c \in Three : JobMsg(s) # [what |-> c]
  BY MessageTypes, NoCommand DEF IInv
<1>1. ASSUME StartProcesses(s), Asked' = Asked PROVE Life!Fail \/ Unseen
  <2>1. Receiving' = Receiving
    BY <1>0, <1>1, ReceiverKept
  <2>2. StopRunner(FALSE) \/ UNCHANGED <<state, stopper>>
    BY <1>1 DEF StartProcesses, JobFails
  <2>3. CASE UNCHANGED <<state, stopper>>
    BY <1>1, <2>1, <2>3 DEF Unseen, Restarts
  <2>. QED  BY <1>1, <2>1, <2>2, <2>3, FailSeen
<1>2. CASE JobBegins(s)
  <2>1. Asked' = Asked
    BY <1>0, <1>2, OtherTaken DEF JobBegins
  <2>2. CASE UNCHANGED <<state, stopper, field>>
    BY <2>1, <2>2 DEF Unseen, Restarts, Receiving
  <2>. QED  BY <1>1, <1>2, <2>1, <2>2 DEF JobBegins
<1>3. CASE JobContinues(s)
  <2>1. Asked' = Asked
    BY <1>0, <1>3, OtherTaken DEF JobContinues
  <2>2. CASE UNCHANGED <<state, stopper, field>>
    BY <2>1, <2>2 DEF Unseen, Restarts, Receiving
  <2>3. CASE JobFails(s) /\ UNCHANGED field
    BY <2>1, <2>3, FailSeen DEF JobFails, Receiving
  <2>. QED  BY <1>1, <1>3, <2>1, <2>2, <2>3 DEF JobContinues
<1>4. CASE JobUnwinds(s)
  BY <1>0, <1>4, OtherTaken DEF JobUnwinds, Unseen, Restarts, Receiving
<1>5. CASE AclReturns(s)
  BY <1>0, <1>5, AskedPosted DEF AclReturns, Unseen, Restarts, Receiving
<1>6. CASE SendFd(s)
  <2>1. Asked' = Asked /\ Receiving' = Receiving
    BY <1>6, AskedKept DEF SendFd, Receiving
  <2>2. CASE state' = "Connected" /\ UNCHANGED stopper
    <3>1. state = "Connecting"
      BY <1>6, RunningJob DEF SendFd
    <3>. QED  BY <2>1, <2>2, <3>1 DEF Life!Connect, Restarts
  <2>3. CASE UNCHANGED <<state, stopper>>
    BY <2>1, <2>3 DEF Unseen, Restarts
  <2>4. CASE JobFails(s)
    BY <2>1, <2>4, FailSeen DEF JobFails
  <2>. QED  BY <1>6, <2>2, <2>3, <2>4 DEF SendFd
<1>. QED  BY <1>2, <1>3, <1>4, <1>5, <1>6

\* The guards and their reports.
LEMMA GuardSeen ==
    ASSUME IInv, NEW s \in Sessions,
           \/ RestartFails(s) \/ OnFatal(s) \/ \E g \in Guards : GuardFails(s, g)
    PROVE  Life!Fail \/ Unseen
<1>0. TypeOK /\ FatalMsg(s) \in Message /\ \A c \in Three : FatalMsg(s) # [what |-> c]
  BY MessageTypes, NoCommand DEF IInv
<1>1. CASE RestartFails(s)
  <2>1. Asked' = Asked /\ Receiving' = Receiving
    BY <1>0, <1>1, AskedKept, AskedPosted DEF RestartFails, Report, Receiving
  <2>. QED  BY <1>1, <2>1, FailSeen DEF RestartFails, Unseen, Restarts
<1>2. CASE OnFatal(s)
  BY <1>0, <1>2, OtherTaken, FailSeen DEF OnFatal, Receiving
<1>3. ASSUME NEW g \in Guards, GuardFails(s, g) PROVE Unseen
  <2>1. Asked' = Asked
    <3>1. main' = Append(main, FatalMsg(s))
      BY <1>3 DEF GuardFails, Report
    <3>2. Asked' = Asked \cup {c \in Three : FatalMsg(s) = [what |-> c]}
      BY <1>0, <3>1, AskedPosted
    <3>. QED  BY <1>0, <3>2
  <2>2. g # "receiver"
    BY DEF Guards
  <2>3. field'["receiver"] = field["receiver"]
    BY <1>0, <1>3, <2>2 DEF GuardFails, TypeOK, Resource
  <2>. QED  BY <1>3, <2>1, <2>3 DEF GuardFails, Unseen, Restarts, Receiving
<1>. QED  BY <1>1, <1>2, <1>3

\* The coroutine of stopRunner.
LEMMA StopperSeen ==
    ASSUME IInv, NEW k \in Stops, Stopping(k)
    PROVE  Life!Release \/ Life!Finish \/ Unseen
<1>0. TypeOK /\ "receiver" \in Resource
  BY DEF IInv, Resource
<1>1. CASE StopperCancels(k)
  <2>1. stopper[k].at = "begin" /\ stopper' = [stopper EXCEPT ![k].at = "joining"]
    BY <1>1 DEF StopperCancels
  <2>2. stopper' = [stopper EXCEPT ![k].at = "joining", ![k].waits = stopper[k].waits]
    BY <1>0, <2>1 DEF TypeOK, Stopper
  <2>3. Restarts' = Restarts
    BY <1>0, <2>1, <2>2, RestartsKept
  <2>4. main' = main \/ \E s \in Sessions : main' = Append(main, JobMsg(s))
    BY <1>0, <1>1 DEF StopperCancels, Joined, TypeOK, Stopper
  <2>5. Asked' = Asked
    <3>1. ASSUME NEW s \in Sessions, main' = Append(main, JobMsg(s)) PROVE Asked' = Asked
      <4>1. {c \in Three : JobMsg(s) = [what |-> c]} = {}
        BY NoCommand
      <4>2. JobMsg(s) \in Message
        BY MessageTypes
      <4>. QED  BY <1>0, <3>1, <4>1, <4>2, AskedPosted
    <3>. QED  BY <2>4, <3>1, AskedKept
  <2>. QED  BY <1>1, <2>3, <2>5 DEF StopperCancels, Unseen, Receiving
<1>2. CASE StopperCleans(k)
  <2>1. stopper[k].at = "joining" /\ state = "Stopping"
    BY <1>2 DEF StopperCleans, IInv, OneStopper
  <2>2. \E w : stopper' = [stopper EXCEPT ![k].at = "cleaning", ![k].waits = w]
    BY <1>2 DEF StopperCleans
  <2>3. Restarts' = Restarts
    BY <1>0, <2>1, <2>2, RestartsKept
  <2>4. Receiving' = FALSE
    BY <1>0, <1>2 DEF StopperCleans, Receiving
  <2>5. Asked' = Asked /\ state' = state
    BY <1>2, AskedKept DEF StopperCleans
  <2>6. Receiving \in BOOLEAN
    BY DEF Receiving
  <2>. QED  BY <2>1, <2>3, <2>4, <2>5, <2>6 DEF Life!Release, Unseen
<1>3. CASE StopperFinishes(k)
  <2>1. stopper[k].at = "cleaning" /\ state = "Stopping" /\ Receiving = FALSE
    BY <1>0, <1>3 DEF StopperFinishes, IInv, OneStopper, Stoppers, Receiving
  <2>2. \A j \in Stops : j # k => stopper[j].at = "idle"
    BY <2>1 DEF IInv, OneStopper
  <2>3. Restarts = stopper[k].restart
    <3>1. stopper[k].restart \in BOOLEAN
      BY <1>0 DEF TypeOK, Stopper
    <3>. QED  BY <2>1, <2>2, <3>1, Zenon DEF Restarts
  <2>4. \A j \in Stops : stopper'[j].at = "idle"
    BY <1>0, <1>3, <2>2 DEF StopperFinishes, NoStopper, TypeOK
  <2>5. Restarts' = FALSE
    BY <2>4, Zenon DEF Restarts
  <2>6. Asked' = IF Restarts THEN Asked \cup {"start"} ELSE Asked
    <3>1. CASE Restarts
      <4>1. main' = Append(main, StartMsg)
        BY <1>3, <2>3, <3>1 DEF StopperFinishes
      <4>2. {c \in Three : StartMsg = [what |-> c]} = {"start"}
        BY NoCommand DEF Three, StartMsg
      <4>. QED  BY <1>0, <3>1, <4>1, <4>2, AskedPosted, MessageTypes
    <3>2. CASE ~Restarts
      BY <1>3, <2>3, <3>2, AskedKept DEF StopperFinishes
    <3>. QED  BY <3>1, <3>2
  <2>7. state' = "Stopped" /\ Receiving' = Receiving
    BY <1>3 DEF StopperFinishes, Receiving
  <2>. QED  BY <2>1, <2>5, <2>6, <2>7 DEF Life!Finish
<1>. QED  BY <1>1, <1>2, <1>3 DEF Stopping

\* Every step is a step of Lifecycle, or nothing.
LEMMA Simulates == IInv /\ [Next]_vars => [Life!Next]_(Life!lifeVars)
<1>. SUFFICES ASSUME IInv, [Next]_vars PROVE Life!Next \/ UNCHANGED Life!lifeVars
  OBVIOUS
<1>0. Unseen => UNCHANGED Life!lifeVars
  BY DEF Unseen, Life!lifeVars
<1>. USE DEF Life!Next
<1>1. CASE Handle
  <2>1. ASSUME NEW k \in Stops, NEW x \in Thing, ChildJoined(k, x) PROVE Unseen
    <3>1. Asked' = Asked
      BY <2>1, OtherTaken, NoCommand DEF ChildJoined, IInv
    <3>2. stopper[k].at = "cleaning"
      <4>1. main \in Seq(Message) /\ main # <<>> /\ Head(main) = ChildMsg(k, x)
        BY <2>1 DEF ChildJoined, Take, Receive, IInv, TypeOK
      <4>2. 1 \in 1..Len(main) /\ main[1] = ChildMsg(k, x)
        BY <4>1, QueueFacts
      <4>3. x \in stopper[k].waits
        BY <4>2 DEF IInv, Children
      <4>. QED  BY <4>3 DEF IInv, Stoppers
    <3>3. stopper' = [stopper EXCEPT ![k].at = "cleaning", ![k].waits = stopper[k].waits \ {x}]
      BY <2>1, <3>2 DEF ChildJoined, IInv, TypeOK, Stopper
    <3>4. Restarts' = Restarts
      BY <3>2, <3>3, RestartsKept DEF IInv
    <3>. QED  BY <2>1, <3>1, <3>4 DEF ChildJoined, Unseen, Receiving
  <2>. QED  BY <1>0, <1>1, <2>1, CommandSeen, JobSeen, GuardSeen DEF Handle
<1>2. ASSUME NEW k \in Stops, Stopping(k) PROVE Life!Next \/ UNCHANGED Life!lifeVars
  BY <1>0, <1>2, StopperSeen
<1>3. ASSUME NEW s \in Sessions,
             \/ AclReturns(s) \/ SendFd(s) \/ RestartFails(s) \/ \E g \in Guards : GuardFails(s, g)
      PROVE  Life!Next \/ UNCHANGED Life!lifeVars
  BY <1>0, <1>3, JobSeen, GuardSeen
<1>4. ASSUME NEW k \in Stops, NEW x \in Thing, ChildExits(k, x) PROVE Unseen
  <2>1. {c \in Three : ChildMsg(k, x) = [what |-> c]} = {}
    BY NoCommand
  <2>2. ChildMsg(k, x) \in Message
    BY MessageTypes
  <2>3. Asked' = Asked
    BY <1>4, <2>1, <2>2, AskedPosted DEF ChildExits, Notify, IInv
  <2>. QED  BY <1>4, <2>3 DEF ChildExits, Unseen, Restarts, Receiving
<1>5. ASSUME NEW c \in Commands, Post([what |-> c]) PROVE Life!Ask(c)
  <2>1. c \in Three /\ {d \in Three : [what |-> c] = [what |-> d]} = {c}
    BY NoCommand, ConstantsAssumption DEF Three
  <2>2. Asked' = Asked \cup {c}
    BY <1>5, <2>1, AskedPosted, MessageTypes DEF Post, IInv
  <2>. QED  BY <1>5, <2>2 DEF Post, Life!Ask, Restarts, Receiving
<1>6. CASE Crash
  <2>1. Asked' = {}
    BY <1>6 DEF Crash, Asked
  <2>2. Restarts' = FALSE
    BY <1>6 DEF Crash, Restarts, NoStopper
  <2>3. Receiving' = FALSE
    BY <1>6 DEF Crash, Receiving, Resource
  <2>. QED  BY <1>6, <2>1, <2>2, <2>3 DEF Crash, Life!Crash
<1>7. CASE UNCHANGED vars
  BY <1>7, AskedKept DEF vars, Life!lifeVars, Restarts, Receiving
<1>. QED  BY <1>0, <1>1, <1>2, <1>3, <1>4, <1>5, <1>6, <1>7 DEF Next, Step

\* A service that has just been created is stopped and nothing is asked of it.
LEMMA StartsAlike == Init => Life!Init
<1>. SUFFICES ASSUME Init PROVE Life!Init
  OBVIOUS
<1>1. Asked = {}
  BY DEF Init, Asked
<1>2. Restarts = FALSE
  BY DEF Init, Restarts, NoStopper
<1>3. Receiving = FALSE
  BY DEF Init, Receiving, Resource
<1>. QED  BY <1>1, <1>2, <1>3 DEF Init, Life!Init

\* The service, with its jobs, guards, threads and stops, implements Lifecycle:
\* onStartCommand, the close receiver, forceLoad, the guards and stopRunner do
\* to the state what Lifecycle says, and no step in between is seen outside.
THEOREM Refines == Spec => ImplementsLifecycle
  BY Invariant, StartsAlike, Simulates, PTL DEF Spec, ImplementsLifecycle, Life!Spec
=============================================================================
