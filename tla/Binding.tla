------------------------------- MODULE Binding -------------------------------
(***************************************************************************)
(* How the activity follows the service: BaseService.Binder in the process *)
(* :bg, DripVpnConnection and the callbacks of MainActivity in the app's   *)
(* process, and ServiceNotification, which listens to the same Binder.     *)
(*                                                                         *)
(* Calls of the Binder arrive on binder threads of :bg.  startListening    *)
(* and stopListening post their work to the main thread (posted);          *)
(* registerCallback and getState act at once, also in the middle of        *)
(* changeState.  stopListening and unregisterCallback are oneway: they     *)
(* wait in a queue of their own (oneway), and a later call that is not     *)
(* oneway may overtake them.  What is sent to the app's main thread waits  *)
(* in inbox.                                                               *)
(***************************************************************************)
EXTENDS Naturals, Sequences

CONSTANTS
    None,
    MaxGen,     \* bound: how often :bg is started again
    MaxQueue    \* bound: no new request with this much on its way to :bg, and no
                \* new state with this much on its way to the app

ASSUME BindingAssumption ==
    /\ MaxGen \in Nat /\ MaxQueue \in Nat
    /\ None \notin Nat \cup {"Stopped", "Connecting", "Connected", "Stopping"}

VARIABLES
    alive, gen, \* :bg runs, and which run it is
    state,      \* data.state
    change,     \* changeState between its broadcast and its write, or None
    registered, \* callbacks
    listeners,  \* bandwidthListeners
    looper,     \* looper # null
    posted,     \* what the main thread of :bg has been asked to do
    note,       \* the notification: absent, or whether its callback is registered
    oneway,     \* oneway calls of the app that have not arrived
    app,        \* DripVpnConnection and the activity (vpnState: currentVpnState,
                \* at: where its main thread is, bound and linked: the run of :bg
                \* that the system has connected it to, or will report the death of)
    inbox,      \* the messages of the app's main thread
    notices,    \* what the system has yet to tell the app of a death of :bg, and
                \* of which run
    fault,      \* which failure has ended :bg or the app, if any
    slip        \* the ways in which the app has been passed by, see below

vars == <<alive, gen, state, change, registered, listeners, looper, posted, note,
          oneway, app, inbox, notices, fault, slip>>

service == <<state, change, registered, listeners, looper, posted, note, oneway>>

Init ==
    /\ alive = TRUE /\ gen = 0
    /\ state = "Stopped" /\ change = None
    /\ registered = {} /\ listeners = {} /\ looper = FALSE /\ posted = <<>>
    /\ note = "absent" /\ oneway = <<>>
    /\ app = [active |-> FALSE, callback |-> FALSE, binder |-> None, service |-> None,
              callbackRegistered |-> FALSE, bandwidth |-> FALSE, bound |-> None,
              linked |-> None, at |-> "created", vpnState |-> "Idle"]
    /\ inbox = <<>> /\ notices = {} /\ fault = "none" /\ slip = {}

\* The app's process is gone, in "midcall" with its last call, one of
\* startListeningForBandwidth, still on a binder thread of :bg.
Dead == app.at \in {"dead", "midcall"}

-----------------------------------------------------------------------------
(***************************************************************************)
(* The Binder, on the main thread of :bg.                                  *)
(***************************************************************************)
\* Fault: a looper is started for every listener.
StartListening_each(cb) ==
    /\ listeners' = listeners \cup {cb}
    /\ fault' = IF cb \notin listeners /\ looper THEN "looper"
                ELSE IF cb = "app" /\ Dead /\ state = "Connected" THEN "listener"
                ELSE fault
    /\ looper' = TRUE

\* The body of startListeningForBandwidth.  The check fails if a looper runs
\* though nobody listened; the call back fails if the listener has died.
StartListening(cb) ==
    /\ listeners' = listeners \cup {cb}
    /\ fault' = IF listeners = {} /\ looper THEN "looper"
                ELSE IF cb = "app" /\ Dead /\ state = "Connected" THEN "listener"
                ELSE fault
    /\ looper' = (looper \/ listeners = {})

\* The body of stopListeningForBandwidth.
StopListening(cb) ==
    /\ listeners' = listeners \ {cb}
    /\ looper' = (looper /\ ~(cb \in listeners /\ listeners' = {}))

\* The main thread takes the next thing it was asked to do.
RunPosted ==
    /\ alive /\ change = None /\ posted # <<>> /\ fault = "none"
    /\ \/ Head(posted) = "start" /\ StartListening("app")
       \/ Head(posted) = "stop" /\ StopListening("app") /\ UNCHANGED fault
    /\ posted' = Tail(posted)
    /\ UNCHANGED <<alive, gen, state, change, registered, note, oneway, app, inbox, notices, slip>>

\* updateCallback of the notification: register and listen, or unregister.
UpdateCallback(to) ==
    /\ note' = to
    /\ IF to = "on"
       THEN registered' = registered \cup {"note"} /\ StartListening("note")
       ELSE registered' = registered \ {"note"} /\ StopListening("note") /\ UNCHANGED fault

\* Screen on and off, which count only in a connected service.
Screen ==
    /\ alive /\ change = None /\ state = "Connected" /\ fault = "none"
    /\ UpdateCallback(IF note = "on" THEN "off" ELSE "on")
    /\ UNCHANGED <<alive, gen, state, change, posted, oneway, app, inbox, notices, slip>>

\* The changes of state.  A start that is refused, and a guard that reports
\* late, stop a service that is Stopped.
Edges == {<<"Stopped", "Connecting">>, <<"Connecting", "Connected">>,
          <<"Connecting", "Stopping">>, <<"Connected", "Stopping">>,
          <<"Stopped", "Stopping">>, <<"Stopping", "Stopped">>}

\* The notification that a change creates: one for every start, accepted or
\* refused, and none for the report of a guard.
Created(s) == {"on", "off"} \cup (IF s = "Connecting" THEN {} ELSE {"absent"})

\* changeState up to the broadcast, with the notification that is created
\* before Connecting and destroyed before Stopped.
Broadcast(s) ==
    /\ alive /\ change = None /\ <<state, s>> \in Edges /\ fault = "none"
    /\ Len(inbox) < MaxQueue
    /\ CASE state = "Stopped" -> \E to \in Created(s) :
              IF to = "on" THEN UpdateCallback(to)
              ELSE note' = to /\ UNCHANGED <<registered, listeners, looper, fault>>
         [] s = "Stopped" -> UpdateCallback("absent")
         [] OTHER -> UNCHANGED <<registered, listeners, looper, note, fault>>
    /\ change' = s
    /\ inbox' = IF "app" \in registered /\ app.callback
                THEN Append(inbox, [kind |-> "state", state |-> s]) ELSE inbox
    /\ UNCHANGED <<alive, gen, state, posted, oneway, app, notices, slip>>

\* ... and its write.
Write ==
    /\ alive /\ change # None
    /\ state' = change /\ change' = None
    /\ UNCHANGED <<alive, gen, registered, listeners, looper, posted, note, oneway,
                   app, inbox, notices, fault, slip>>

\* A oneway call arrives: unregisterCallback stops the listening too.
OnewayArrives ==
    /\ alive /\ oneway # <<>>
    /\ posted' = Append(posted, "stop")
    /\ registered' = IF Head(oneway) = "unregister" THEN registered \ {"app"} ELSE registered
    /\ oneway' = Tail(oneway)
    /\ UNCHANGED <<alive, gen, state, change, listeners, looper, note, app, inbox,
                   notices, fault, slip>>

-----------------------------------------------------------------------------
(***************************************************************************)
(* The app.  A call reaches :bg if the connection's binder is of its       *)
(* present run; otherwise it throws the RemoteException that is ignored.   *)
(***************************************************************************)
Reaches(b) == alive /\ b = gen

\* The queue of oneway calls after the calls of unregisterCallback() and of
\* the setter of bandwidthTimeout, or of disconnect.
Sent(a, calls) == IF Reaches(a.service) THEN oneway \o calls ELSE oneway

\* unbindService: what the system has sent to the ServiceConnection still
\* comes to the main thread, where it is dropped.
Forget(q) ==
    [i \in 1..Len(q) |-> IF q[i].kind \in {"connected", "disconnected"}
                         THEN [kind |-> "forgotten"] ELSE q[i]]

\* unregisterCallback()
Unregister(a) == IF a.callbackRegistered THEN <<"unregister">> ELSE <<>>

connect(a) == [a EXCEPT !.active = TRUE, !.callback = TRUE, !.bound = None]

disconnect(a) ==
    [a EXCEPT !.active = FALSE, !.callback = FALSE, !.binder = None, !.service = None,
              !.callbackRegistered = FALSE, !.linked = None, !.bound = None]

\* unbindService and unlinkToDeath take back what has not been told, but for
\* the death of a run that is no longer the connection's binder.
Untold == {n \in notices : n[1] = "died" /\ n[2] # app.binder}

\* onCreate connects.
Create ==
    /\ app.at = "created"
    /\ app' = [connect(app) EXCEPT !.at = "idle"]
    /\ UNCHANGED <<alive, gen, service, inbox, notices, fault, slip>>

\* onStart and onStop: bandwidthTimeout.
SetBandwidth ==
    /\ app.at = "idle" /\ Len(posted) + Len(oneway) < MaxQueue
    /\ app' = [app EXCEPT !.bandwidth = ~@]
    /\ IF app.bandwidth THEN oneway' = Sent(app, <<"stop">>) /\ UNCHANGED <<posted, slip>>
       ELSE /\ posted' = IF Reaches(app.service) THEN Append(posted, "start") ELSE posted
            /\ slip' = IF oneway = <<>> THEN slip \ {"overtaken"} ELSE slip \cup {"overtaken"}
            /\ UNCHANGED oneway
    /\ UNCHANGED <<alive, gen, state, change, registered, listeners, looper, note,
                   inbox, notices, fault>>

\* onServiceConnected, up to the first call of the service.
Connected ==
    /\ app.at = "idle" /\ inbox # <<>> /\ Head(inbox).kind = "connected"
    /\ inbox' = Tail(inbox)
    /\ fault' = IF app.callbackRegistered THEN "registered" ELSE fault
    /\ app' = [app EXCEPT !.binder = Head(inbox).gen, !.service = Head(inbox).gen,
                          !.linked = IF Reaches(Head(inbox).gen) THEN gen ELSE None,
                          !.at = IF Reaches(Head(inbox).gen) THEN "register" ELSE "read"]
    /\ UNCHANGED <<alive, gen, service, notices, slip>>

\* Fault: the callback is registered only along with the listener.
Register_wanted ==
    /\ app.at = "register"
    /\ IF Reaches(app.binder) /\ app.bandwidth
       THEN registered' = registered \cup {"app"} /\ app' = [app EXCEPT !.at = "mark"]
       ELSE UNCHANGED registered /\ app' = [app EXCEPT !.at = "read"]
    /\ UNCHANGED <<alive, gen, state, change, listeners, looper, posted, note, oneway,
                   inbox, notices, fault, slip>>

\* registerCallback.  The binder may have died since, and binderDied may have
\* run.
Register ==
    /\ app.at = "register"
    /\ IF Reaches(app.binder)
       THEN registered' = registered \cup {"app"} /\ app' = [app EXCEPT !.at = "mark"]
       ELSE UNCHANGED registered /\ app' = [app EXCEPT !.at = "read"]
    /\ UNCHANGED <<alive, gen, state, change, listeners, looper, posted, note, oneway,
                   inbox, notices, fault, slip>>

\* callbackRegistered = true, whatever binderDied has done in between.
Mark ==
    /\ app.at = "mark"
    /\ app' = [app EXCEPT !.callbackRegistered = TRUE,
                          !.at = IF app.bandwidth THEN "listen" ELSE "read"]
    /\ UNCHANGED <<alive, gen, service, inbox, notices, fault, slip>>

\* startListeningForBandwidth, at the moment at which its binder thread posts
\* the work; the app waits for the call to return.
Listen ==
    /\ app.at = "listen"
    /\ posted' = IF Reaches(app.binder) THEN Append(posted, "start") ELSE posted
    /\ app' = [app EXCEPT !.at = "read"]
    /\ slip' = IF oneway = <<>> THEN slip \ {"overtaken"} ELSE slip \cup {"overtaken"}
    /\ UNCHANGED <<alive, gen, state, change, registered, listeners, looper, note, oneway,
                   inbox, notices, fault>>

\* The activity reads the state.
Read ==
    /\ app.at = "read"
    /\ app' = [app EXCEPT !.at = "idle", !.vpnState = IF Reaches(app.binder) THEN state ELSE "Idle"]
    /\ slip' = IF change # None /\ \A i \in 1..Len(inbox) : inbox[i].kind # "state"
               THEN slip \cup {"between"} ELSE slip \ {"between"}
    /\ UNCHANGED <<alive, gen, service, inbox, notices, fault>>

\* stateChanged
StateChanged ==
    /\ app.at \in {"idle", "destroyed"} /\ inbox # <<>> /\ Head(inbox).kind = "state"
    /\ inbox' = Tail(inbox)
    /\ app' = [app EXCEPT !.vpnState = Head(inbox).state]
    /\ slip' = slip \ {"between"}
    /\ UNCHANGED <<alive, gen, service, notices, fault>>

\* onServiceDisconnected
Disconnected ==
    /\ app.at = "idle" /\ inbox # <<>> /\ Head(inbox).kind = "disconnected"
    /\ inbox' = Tail(inbox)
    /\ oneway' = Sent(app, Unregister(app))
    /\ app' = [app EXCEPT !.callbackRegistered = FALSE, !.service = None, !.binder = None]
    /\ UNCHANGED <<alive, gen, state, change, registered, listeners, looper, posted, note,
                   notices, fault, slip>>

\* A death is reported so late that the report hits the present service.
LateSlip == IF Reaches(app.service) THEN slip \cup {"late"} ELSE slip

\* binderDied, on a binder thread of the app.
BinderDied ==
    /\ \E run \in 0..MaxGen :
          /\ <<"died", run>> \in notices
          /\ notices' = notices \ {<<"died", run>>}
          /\ app' = [app EXCEPT !.service = None, !.callbackRegistered = FALSE,
                                !.linked = IF @ = run THEN None ELSE @]
    /\ inbox' = IF app.callback THEN Append(inbox, [kind |-> "died"]) ELSE inbox
    /\ slip' = LateSlip
    /\ UNCHANGED <<alive, gen, service, fault>>

\* MainActivity.onBinderDied: disconnect, connect.
OnBinderDied ==
    /\ app.at \in {"idle", "destroyed"} /\ inbox # <<>> /\ Head(inbox).kind = "died"
    /\ inbox' = Forget(Tail(inbox))
    /\ oneway' = Sent(app, Unregister(app) \o <<"stop">>)
    /\ notices' = Untold
    /\ app' = connect(disconnect(app))
    /\ slip' = LateSlip
    /\ UNCHANGED <<alive, gen, state, change, registered, listeners, looper, posted, note, fault>>

Forgotten ==
    /\ app.at \in {"idle", "destroyed"} /\ inbox # <<>> /\ Head(inbox).kind = "forgotten"
    /\ inbox' = Tail(inbox)
    /\ UNCHANGED <<alive, gen, service, app, notices, fault, slip>>

\* onDestroy: disconnect.
Destroy ==
    /\ app.at = "idle"
    /\ app' = [disconnect(app) EXCEPT !.at = "destroyed"]
    /\ oneway' = Sent(app, Unregister(app) \o <<"stop">>)
    /\ inbox' = Forget(inbox)
    /\ notices' = Untold
    /\ UNCHANGED <<alive, gen, state, change, registered, listeners, looper, posted, note,
                   fault, slip>>

-----------------------------------------------------------------------------
(***************************************************************************)
(* The system.                                                             *)
(***************************************************************************)
\* bindService leads to onServiceConnected, again after every restart of :bg.
Bind ==
    /\ alive /\ app.active /\ app.bound # gen
    /\ \A run \in 0..MaxGen : <<"disconnected", run>> \notin notices
    /\ ~Dead
    /\ app' = [app EXCEPT !.bound = gen]
    /\ inbox' = Append(inbox, [kind |-> "connected", gen |-> gen])
    /\ UNCHANGED <<alive, gen, service, notices, fault, slip>>

\* :bg dies, and what it had in memory is gone.
Crash ==
    /\ alive /\ gen < MaxGen /\ ~Dead
    /\ alive' = FALSE
    /\ state' = "Stopped" /\ change' = None /\ registered' = {} /\ listeners' = {}
    /\ looper' = FALSE /\ posted' = <<>> /\ note' = "absent" /\ oneway' = <<>>
    /\ notices' = notices \cup (IF app.bound = gen THEN {<<"disconnected", gen>>} ELSE {})
                          \cup (IF app.linked = gen THEN {<<"died", gen>>} ELSE {})
    /\ UNCHANGED <<gen, app, inbox, fault, slip>>

PostDisconnected ==
    /\ \E run \in 0..MaxGen :
          /\ <<"disconnected", run>> \in notices
          /\ notices' = notices \ {<<"disconnected", run>>}
    /\ inbox' = Append(inbox, [kind |-> "disconnected"])
    /\ UNCHANGED <<alive, gen, service, app, fault, slip>>

Restart ==
    /\ ~alive
    /\ alive' = TRUE /\ gen' = gen + 1
    /\ UNCHANGED <<service, app, inbox, notices, fault, slip>>

\* The call of startListeningForBandwidth that the app can be waiting for.
InStart ==
    \/ app.at = "listen" /\ Reaches(app.binder)
    \/ app.at = "idle" /\ ~app.bandwidth /\ Reaches(app.service)

\* The app's process dies, with what it knew.
AppDies ==
    /\ alive /\ ~Dead
    /\ \E place \in {"dead"} \cup (IF InStart THEN {"midcall"} ELSE {}) :
          app' = [disconnect(app) EXCEPT !.at = place, !.bandwidth = FALSE, !.vpnState = "Idle"]
    /\ inbox' = <<>> /\ notices' = {}
    /\ slip' = slip \cap {"late"}
    /\ UNCHANGED <<alive, gen, service, fault>>

\* Fault: the death of a callback does not end its listening.
OnCallbackDied_plain ==
    /\ alive /\ Dead /\ "app" \in registered
    /\ registered' = registered \ {"app"}
    /\ UNCHANGED <<alive, gen, state, change, listeners, looper, posted, note, oneway, app, inbox,
                   notices, fault, slip>>

\* onCallbackDied, on a binder thread of :bg: a registered callback of a dead
\* app is dropped, and its listening ended.
OnCallbackDied ==
    /\ alive /\ Dead /\ "app" \in registered
    /\ registered' = registered \ {"app"}
    /\ posted' = Append(posted, "stop")
    /\ UNCHANGED <<alive, gen, state, change, listeners, looper, note, oneway, app, inbox,
                   notices, fault, slip>>

\* The last call of a dead app is posted, and nothing will end the listening
\* if onCallbackDied has been faster.
Straggle ==
    /\ app.at = "midcall"
    /\ posted' = Append(posted, "start")
    /\ app' = [app EXCEPT !.at = "dead"]
    /\ slip' = IF "app" \in registered THEN slip ELSE slip \cup {"straggler"}
    /\ UNCHANGED <<alive, gen, state, change, registered, listeners, looper, note, oneway,
                   inbox, notices, fault>>

Next ==
    \/ RunPosted \/ Screen \/ Write \/ OnewayArrives
    \/ \E s \in {"Stopped", "Connecting", "Connected", "Stopping"} : Broadcast(s)
    \/ Create \/ SetBandwidth \/ Connected \/ Register \/ Mark \/ Listen \/ Read
    \/ StateChanged \/ Disconnected \/ BinderDied \/ OnBinderDied \/ Forgotten
    \/ Destroy
    \/ Bind \/ Crash \/ PostDisconnected \/ Restart \/ AppDies \/ OnCallbackDied \/ Straggle

Spec == Init /\ [][Next]_vars

\* The threads of :bg go on with what has begun; the queue of its main thread
\* is served in order, whatever else it does.  Nothing is asked of the app.
\* The queues of :bg do not grow for ever once the app is dead, so that the
\* first two are what strong fairness of RunPosted and weak fairness of
\* OnewayArrives say of them then; the others are the weak fairness of Write,
\* OnCallbackDied and Straggle, which disable themselves.
Fairness ==
    /\ []<>(Dead => posted = <<>> \/ fault # "none")
    /\ []<>(Dead => oneway = <<>>)
    /\ []<>(change = None)
    /\ []<>~(alive /\ Dead /\ "app" \in registered)
    /\ []<>(app.at # "midcall")

FairSpec == Spec /\ Fairness

-----------------------------------------------------------------------------
\* The types of the variables.  There is a looper exactly while somebody
\* listens for bandwidth.
TypeOK ==
    /\ alive \in BOOLEAN /\ gen \in 0..MaxGen
    /\ state \in {"Stopped", "Connecting", "Connected", "Stopping"}
    /\ change \in {None, "Stopped", "Connecting", "Connected", "Stopping"}
    /\ registered \subseteq {"app", "note"} /\ listeners \subseteq {"app", "note"}
    /\ looper = (listeners # {})
    /\ note \in {"absent", "on", "off"}
    /\ notices \subseteq {"died", "disconnected"} \X (0..MaxGen)
    /\ slip \subseteq {"between", "overtaken", "late", "straggler"}

\* Neither check fails: a looper is never started twice (check(looper ==
\* null)), and a connection is never told of a service twice without hearing
\* of its end in between (check(!callbackRegistered)), whichever of
\* onServiceDisconnected, binderDied and the new onServiceConnected comes
\* first.
ChecksHold == TypeOK /\ fault \notin {"looper", "registered"}

\* Nothing of the connection is under way.
Settled ==
    /\ alive /\ change = None /\ inbox = <<>> /\ notices = {} /\ posted = <<>> /\ oneway = <<>>
    /\ app.at = "idle" /\ app.bound = gen

\* A connected activity knows the state of the service, unless it read the
\* state, with no news on the way, between the broadcast of changeState and
\* its write; and it is listed for bandwidth exactly if it wants to be, unless
\* its request overtook the oneway call that ended an earlier one.  Neither is
\* so if the death of the last run of :bg was reported so late that binderDied
\* or onBinderDied dropped the service of the present one.
ClientCurrent ==
    Settled /\ "late" \notin slip =>
        /\ "between" \notin slip => app.vpnState = state
        /\ "overtaken" \notin slip => (app.bandwidth <=> "app" \in listeners)

\* onCallbackDied and the queue behind it: an app that has died is in the end,
\* and from then on, neither registered nor a listener that keeps the looper
\* running.  There are three exceptions.  A start of the listening that the
\* main thread takes after the death, in a connected service, calls back to
\* the dead app, and the exception ends :bg.  One that its binder thread posts
\* after onCallbackDied has posted its stop is never undone.  And a late
\* report of a death of :bg, as above, may have unregistered the app before.
ClientForgotten ==
    Dead ~> [](\/ "app" \notin listeners \cup registered
               \/ fault = "listener"
               \/ slip \cap {"late", "straggler"} # {})
=============================================================================
