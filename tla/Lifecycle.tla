------------------------------- MODULE Lifecycle -------------------------------
(***************************************************************************)
(* What the VPN service promises to those who use it: the four states of   *)
(* BaseService.State that it goes through, and what it makes of a start, a *)
(* close and a reload.  VpnService implements it (VpnRefinement), and Ui   *)
(* uses it in place of the service.                                        *)
(*                                                                         *)
(* asked is the set of commands on their way.  They are not in order: a    *)
(* start is an intent and the other two are broadcasts.  A command that    *)
(* has been handled may be on its way once more.                           *)
(***************************************************************************)
CONSTANT Commands   \* what others ask, among start, close and reload

VARIABLES
    state,      \* data.state
    asked,      \* the commands on their way
    restart,    \* the stop under way is one of forceLoad
    open        \* data.closeReceiver is registered

lifeVars == <<state, asked, restart, open>>

canStop == {"Connecting", "Connected"}

Init == state = "Stopped" /\ asked = {} /\ restart = FALSE /\ open = FALSE

Ask(c) ==
    /\ asked' = asked \cup {c}
    /\ UNCHANGED <<state, restart, open>>

Handled(c) == c \in asked /\ asked' \in {asked, asked \ {c}}

\* stopRunner, but for its early return.
Stop(r) == state # "Stopping" /\ state' = "Stopping" /\ restart' = r

\* onStartCommand: a stopped service connects, unless the permission, the
\* mode or the profile is missing.
Start ==
    /\ Handled("start") /\ state = "Stopped"
    /\ state' = "Connecting" /\ open' = TRUE
    /\ UNCHANGED restart

Refuse == Handled("start") /\ Stop(FALSE) /\ UNCHANGED open

Close == Handled("close") /\ open /\ Stop(FALSE) /\ UNCHANGED open

\* forceLoad
Reload == Handled("reload") /\ open /\ state \in canStop /\ Stop(TRUE) /\ UNCHANGED open

\* A start in any state but Stopped, a broadcast that nobody receives or that
\* finds a stop under way.
Ignore ==
    /\ \/ Handled("start") /\ state # "Stopped"
       \/ Handled("close") /\ (open => state = "Stopping")
       \/ Handled("reload") /\ (open => state = "Stopping")
    /\ UNCHANGED <<state, restart, open>>

Connect == state = "Connecting" /\ state' = "Connected" /\ UNCHANGED <<asked, restart, open>>

\* The connecting job fails, or a guard reports that its process is gone.  A
\* guard's report may be about a session that is over: it stops the service in
\* whatever state it finds it.
Fail == Stop(FALSE) /\ UNCHANGED <<asked, open>>

\* The clean-up of stopRunner takes the receiver back before the state is
\* Stopped again.
Release == state = "Stopping" /\ open /\ open' = FALSE /\ UNCHANGED <<state, asked, restart>>

Finish ==
    /\ state = "Stopping" /\ ~open
    /\ state' = "Stopped" /\ restart' = FALSE
    /\ asked' = IF restart THEN asked \cup {"start"} ELSE asked
    /\ UNCHANGED open

\* The process :bg dies.
Crash == state' = "Stopped" /\ asked' = {} /\ restart' = FALSE /\ open' = FALSE

Handle == Start \/ Refuse \/ Close \/ Reload \/ Ignore

Next ==
    \/ \E c \in Commands : Ask(c)
    \/ Handle \/ Connect \/ Fail \/ Release \/ Finish \/ Crash

Spec == Init /\ [][Next]_lifeVars
=============================================================================
