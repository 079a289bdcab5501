----------------------------------- MODULE Ui -----------------------------------
(***************************************************************************)
(* The app before the service: the button and the list of servers (Dart),  *)
(* MainActivity with its delayed coroutines, the bridge between the two,   *)
(* and the status, the clock and the loading dialog that Flutter shows.    *)
(* The service is what Lifecycle promises, and the connection to it is     *)
(* taken as one step (Binding has its parts).                              *)
(*                                                                         *)
(* Four queues lie between them: calls from Dart to Kotlin, channel back,  *)
(* the commands to :bg (asked) and the news from there.                    *)
(***************************************************************************)
EXTENDS Naturals, Sequences

CONSTANTS
    Faults,     \* whether sessions fail, :bg dies, the activity goes away
    Prompt,     \* a delay of two seconds outlasts a stop and every message,
                \* and the start screen outlasts bindService
    MaxTaps,    \* bound: taps that Kotlin has not dealt with, delayed ones included
    MaxNews,    \* bound: the service does nothing with so much news on its way
    MaxDialogs  \* bound: nor with so many dialogs open

ASSUME UiAssumption ==
    /\ Faults \subseteq {"fail", "crash", "recreate"} /\ Prompt \in BOOLEAN
    /\ MaxTaps \in Nat /\ MaxNews \in Nat /\ MaxDialogs \in Nat

VARIABLES
    state, asked, restart, open,    \* the service
    permitted,  \* VpnService.prepare returns null
    linked,     \* the activity is registered with the service
    news,       \* states on their way to stateChanged
    vpnState,   \* currentVpnState
    vpnStatus,  \* currentVpnStatus
    delayed,    \* coroutines in delay(2000L), in the order in which they wake
    calls,      \* method calls on their way
    sink,       \* Flutter listens to the events
    omission,   \* omissionEvents
    channel,    \* events on their way, with how often they have been encoded
    page,       \* which screen lies under the dialogs
    shown,      \* lastVpnStatus and vpnStatusPod
    ticks,      \* _isConnected of the clock
    dialogs,    \* how many loading dialogs are open
    showing,    \* _isShowingLoadingDialog
    slip        \* what has come in between: a state of which Flutter is not
                \* told, stacked dialogs

life == <<state, asked, restart, open, permitted>>
kotlin == <<vpnState, vpnStatus, delayed>>
flutter == <<page, shown, ticks, dialogs, showing>>
bridge == <<calls, sink, omission, channel>>
vars == <<life, linked, news, kotlin, bridge, flutter, slip>>

Service == INSTANCE Lifecycle WITH Commands <- {"start", "close"}

canStop == {"Connecting", "Connected"}
Executing == {"Stopping", "Connecting", "Switching"}
Statuses == {"Idle", "Connecting", "Connected", "Switching", "Stopping", "Stopped"}

Init ==
    /\ Service!Init /\ permitted \in BOOLEAN
    /\ linked = FALSE /\ news = <<>>
    /\ vpnState = "Idle" /\ vpnStatus = "Idle" /\ delayed = <<>>
    /\ calls = <<>> /\ sink = FALSE /\ omission = <<>> /\ channel = <<>>
    /\ page = "start" /\ shown = "Idle" /\ ticks = FALSE /\ dialogs = 0 /\ showing = FALSE
    /\ slip = {}

-----------------------------------------------------------------------------
(***************************************************************************)
(* The service, and what the activity hears of it.  With Prompt no command *)
(* is on its way twice.  The permission goes when another VPN takes over,  *)
(* which ends the session as a failure does.                               *)
(***************************************************************************)
Serve ==
    /\ Len(news) + Len(channel) + Len(omission) < MaxNews /\ dialogs < MaxDialogs
    /\ \/ /\ \/ permitted /\ Service!Start
             \/ (~permitted \/ "fail" \in Faults) /\ Service!Refuse
             \/ Service!Close
             \/ Service!Ignore
          /\ Prompt => asked' # asked
          /\ UNCHANGED permitted
       \/ (Service!Connect \/ Service!Release \/ Service!Finish) /\ UNCHANGED permitted
       \/ "fail" \in Faults /\ Service!Fail /\ permitted' \in {permitted, FALSE}
    /\ news' = IF linked /\ state' # state THEN Append(news, state') ELSE news
    /\ UNCHANGED <<linked, kotlin, bridge, flutter, slip>>

\* The process :bg dies; the connection is made again by Connect.
Crash ==
    /\ "crash" \in Faults /\ Service!Crash
    /\ linked' = FALSE
    /\ UNCHANGED <<permitted, news, kotlin, bridge, flutter, slip>>

\* MainActivity.onServiceConnected: the state is read, and Flutter is not told.
Connect ==
    /\ ~linked /\ news = <<>>
    /\ linked' = TRUE
    /\ vpnState' = state
    /\ slip' = slip \cup {"untold"}
    /\ UNCHANGED <<life, news, vpnStatus, delayed, bridge, flutter>>

-----------------------------------------------------------------------------
(***************************************************************************)
(* The bridge.                                                             *)
(***************************************************************************)
\* sendToFlutter: an event is encoded, and kept while nobody listens.
Send(s) ==
    IF sink THEN channel' = Append(channel, [status |-> s, encoded |-> 1]) /\ UNCHANGED omission
            ELSE omission' = Append(omission, [status |-> s, encoded |-> 1]) /\ UNCHANGED channel

\* onListen: what was kept is encoded once more.
OnListen ==
    /\ ~sink
    /\ sink' = TRUE
    /\ channel' = channel \o [i \in 1..Len(omission) |-> [omission[i] EXCEPT !.encoded = 2]]
    /\ omission' = <<>>
    /\ UNCHANGED <<life, linked, news, kotlin, calls, flutter, slip>>

-----------------------------------------------------------------------------
(***************************************************************************)
(* MainActivity.                                                           *)
(***************************************************************************)
\* Fault: Switching hides what ends it, too.
Hidden_all(s) == vpnStatus = "Switching"

Hidden(s) == vpnStatus = "Switching" /\ s \in {"Stopping", "Stopped", "Connecting"}

StateChanged ==
    /\ news # <<>>
    /\ LET s == Head(news)
       IN  /\ vpnState' = s
           /\ IF Hidden(s) THEN UNCHANGED <<vpnStatus, omission, channel>>
                           ELSE vpnStatus' = s /\ Send(s)
    /\ news' = Tail(news)
    /\ slip' = IF sink THEN slip \ {"untold"} ELSE slip \cup {"untold"}
    /\ UNCHANGED <<life, linked, delayed, calls, sink, flutter>>

\* startVpn up to its delay.
StartVpn(switching) ==
    /\ Send(IF switching THEN "Switching" ELSE "Connecting")
    /\ delayed' = Append(delayed, "start")
    /\ vpnStatus' = IF switching THEN "Switching" ELSE vpnStatus
    /\ asked' = IF switching THEN asked \cup {"close"} ELSE asked

StopVpn ==
    /\ Send("Stopping")
    /\ delayed' = Append(delayed, "close")
    /\ UNCHANGED <<vpnStatus, asked>>

\* Without the permission the user is asked for it.
Toggle ==
    /\ calls # <<>> /\ Head(calls) = "toggle"
    /\ \/ /\ calls' = Tail(calls)
          /\ \/ permitted /\ vpnState \in canStop /\ StopVpn
             \/ permitted /\ vpnState \notin canStop /\ StartVpn(FALSE)
       \/ /\ ~permitted
          /\ calls' = Append(Tail(calls), "permission")
          /\ UNCHANGED <<asked, vpnStatus, delayed, omission, channel>>
    /\ UNCHANGED <<state, restart, open, permitted, linked, news, vpnState, sink, flutter, slip>>

\* The user grants the permission or not.  A second request is granted after
\* the first: the start it announces may find the service connected.
OnActivityResult ==
    /\ calls # <<>> /\ Head(calls) = "permission"
    /\ calls' = Tail(calls)
    /\ \/ /\ StartVpn(FALSE) /\ permitted' = TRUE
          /\ slip' = IF permitted THEN slip \cup {"untold"} ELSE slip
       \/ UNCHANGED <<asked, permitted, vpnStatus, delayed, omission, channel, slip>>
    /\ UNCHANGED <<state, restart, open, linked, news, vpnState, sink, flutter>>

Switch ==
    /\ calls # <<>> /\ Head(calls) = "switch"
    /\ calls' = Tail(calls)
    /\ StartVpn(TRUE)
    /\ UNCHANGED <<state, restart, open, permitted, linked, news, vpnState, sink, flutter, slip>>

\* The delay is over.
Wake ==
    /\ delayed # <<>>
    /\ Prompt => /\ state # "Stopping" /\ asked = {}
                 /\ news = <<>> /\ channel = <<>> /\ calls = <<>>
    /\ asked' = asked \cup {Head(delayed)}
    /\ delayed' = Tail(delayed)
    /\ UNCHANGED <<state, restart, open, permitted, linked, news, vpnState, vpnStatus, bridge,
                   flutter, slip>>

\* The activity is destroyed (and closes the service) or dies with its process,
\* and is created again.
Recreate ==
    /\ "recreate" \in Faults
    /\ asked' \in {asked, asked \cup {"close"}}
    /\ linked' = FALSE /\ news' = <<>>
    /\ vpnState' = "Idle" /\ vpnStatus' = "Idle" /\ delayed' = <<>>
    /\ calls' = <<>> /\ sink' = FALSE /\ omission' = <<>> /\ channel' = <<>>
    /\ page' = "start" /\ shown' = "Idle" /\ ticks' = FALSE /\ dialogs' = 0 /\ showing' = FALSE
    /\ slip' = {}
    /\ UNCHANGED <<state, restart, open, permitted>>

-----------------------------------------------------------------------------
(***************************************************************************)
(* Flutter.                                                                *)
(***************************************************************************)
\* The start screen gives way to the home screen.
Home ==
    /\ sink /\ page = "start" /\ (Prompt => linked)
    /\ page' = "home"
    /\ UNCHANGED <<life, linked, news, kotlin, bridge, shown, ticks, dialogs, showing, slip>>

\* A dialog takes all taps.  The list of servers is offered while connected.
Tap ==
    /\ dialogs = 0 /\ Len(calls) + Len(delayed) < MaxTaps /\ Len(channel) < MaxNews
    /\ \/ page = "home" /\ calls' = Append(calls, "toggle") /\ UNCHANGED page
       \/ page = "home" /\ shown = "Connected" /\ page' = "servers" /\ UNCHANGED calls
       \/ page = "servers" /\ calls' = Append(calls, "switch") /\ page' = "home"
       \/ page = "servers" /\ page' = "home" /\ UNCHANGED calls
    /\ UNCHANGED <<life, linked, news, kotlin, sink, omission, channel, shown, ticks, dialogs,
                   showing, slip>>

\* Fault: a session that comes to nothing leaves its dialog open.
Dialog_success(s) ==
    IF page = "start" THEN UNCHANGED <<dialogs, showing>>
    ELSE IF s \in Executing THEN dialogs' = dialogs + 1 /\ showing' = TRUE
    ELSE dialogs' = (IF showing /\ s = "Connected" THEN dialogs - 1 ELSE dialogs) /\ showing' = FALSE

\* The listener of the home screen.  context.pop() closes the topmost dialog.
Dialog(s) ==
    IF page = "start" THEN UNCHANGED <<dialogs, showing>>
    ELSE IF s \in Executing THEN dialogs' = dialogs + 1 /\ showing' = TRUE
    ELSE dialogs' = (IF showing THEN dialogs - 1 ELSE dialogs) /\ showing' = FALSE

\* Fault: the clock is started and never stopped.
Clock_on(s) == ticks' = (ticks \/ s = "Connected")

Clock(s) == ticks' = IF s \in {"Connected", "Stopped"} THEN s = "Connected" ELSE ticks

\* An event that decodes to a string has no name: the handler throws.
DealEvent ==
    /\ channel # <<>>
    /\ channel' = Tail(channel)
    /\ LET e == Head(channel)
       IN  IF e.encoded = 1 /\ e.status # shown
           THEN /\ shown' = e.status /\ Clock(e.status) /\ Dialog(e.status)
                /\ slip' = IF {shown, e.status} \subseteq Executing THEN slip \cup {"stacked"} ELSE slip
           ELSE UNCHANGED <<shown, ticks, dialogs, showing, slip>>
    /\ UNCHANGED <<life, linked, news, kotlin, calls, sink, omission, page>>

Next ==
    \/ Serve \/ Crash \/ Connect \/ OnListen \/ StateChanged \/ Toggle
    \/ OnActivityResult \/ Switch \/ Wake \/ Recreate \/ Home \/ Tap \/ DealEvent

Spec == Init /\ [][Next]_vars

\* The service does what it has begun, Kotlin and Dart handle their events, and
\* timers fire.  Nobody has to tap.
FairSpec ==
    /\ Spec
    /\ WF_vars(Serve) /\ WF_vars(Connect) /\ WF_vars(OnListen) /\ WF_vars(StateChanged)
    /\ WF_vars(Toggle) /\ WF_vars(OnActivityResult) /\ WF_vars(Switch) /\ WF_vars(Wake) /\ WF_vars(Home) /\ WF_vars(DealEvent)

-----------------------------------------------------------------------------
\* The types of the variables: the statuses of vpn_status.dart, and only
\* dialogs that are there are closed.
TypeOK ==
    /\ state \in {"Stopped", "Connecting", "Connected", "Stopping"}
    /\ asked \subseteq {"start", "close"} /\ ~restart
    /\ vpnState \in Statuses /\ vpnStatus \in Statuses /\ shown \in Statuses
    /\ dialogs \in Nat

\* Nothing is under way.
Quiet ==
    /\ state \in {"Stopped", "Connected"} /\ asked = {} /\ linked /\ news = <<>>
    /\ delayed = <<>> /\ calls = <<>> /\ sink /\ omission = <<>> /\ channel = <<>>

\* When nothing is under way, Flutter shows the state of the service, its
\* clock runs exactly while the service is connected, and a tap on the button
\* does what its label says ('Tap to disconnect' while shown is connected).
\* Excepted are a switch that has not come to its end (a session that fails in
\* it is hidden), a connection to the service that is new (onServiceConnected
\* tells Flutter nothing) and a permission granted twice.
ShownTrue ==
    /\ TypeOK
    /\ Quiet /\ vpnStatus # "Switching" /\ "untold" \notin slip =>
          /\ shown = state
          /\ ticks = (state = "Connected")
    /\ Quiet /\ page = "home" /\ shown \notin Executing /\ "untold" \notin slip =>
          (shown = "Connected" <=> vpnState \in canStop)

\* No loading dialog stays open when nothing is being executed, unless one
\* has been stacked on another: a session that fails while it is connecting,
\* or a tap that crosses a stop, shows two such statuses in a row.
DialogGone ==
    shown \notin Executing /\ "stacked" \notin slip => dialogs = 0

\* If a stop takes less than the two seconds that startVpn waits, and sessions
\* do not fail, then a switch ends: the loading dialog gives way to a
\* connected service.
Executed == shown \in Executing ~> shown \notin Executing
=============================================================================
