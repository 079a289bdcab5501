------------------------------ MODULE BindingProofs ------------------------------
(***************************************************************************)
(* Proofs about Binding, for every number of runs of :bg and every bound   *)
(* on the queues: no check of the Binder or the connection fails, and with *)
(* nothing under way the activity knows the service.                       *)
(*                                                                         *)
(* The check of the connection is about the order in which an old run's    *)
(* end and a new run's beginning come to the main thread; Hooked states    *)
(* that order.  That the activity is current is a fact about the end of    *)
(* what is under way; Current states what holds on the way there, phase by *)
(* phase.                                                                  *)
(***************************************************************************)
EXTENDS Binding, TLAPS

States == {"Stopped", "Connecting", "Connected", "Stopping"}
Places ==
    {"created", "idle", "register", "mark", "listen", "read", "destroyed", "dead", "midcall"}

Connections ==
    [active : BOOLEAN, callback : BOOLEAN, binder : Nat \cup {None}, service : Nat \cup {None},
     callbackRegistered : BOOLEAN, bandwidth : BOOLEAN, bound : Nat \cup {None},
     linked : Nat \cup {None}, at : Places, vpnState : States \cup {"Idle"}]

Messages ==
    [kind : {"state"}, state : States] \cup [kind : {"connected"}, gen : Nat]
        \cup [kind : {"died", "disconnected", "forgotten"}]

Typed ==
    /\ TypeOK /\ (~alive => gen < MaxGen)
    /\ app \in Connections /\ inbox \in Seq(Messages)
    /\ posted \in Seq({"start", "stop"}) /\ oneway \in Seq({"stop", "unregister"})
    /\ fault # "looper"

-----------------------------------------------------------------------------
(***************************************************************************)
(* The connection's fields after connect and disconnect.                   *)
(***************************************************************************)
\* connect takes nothing but active, callback and bound from what it was.
LEMMA ConnectFields ==
  ASSUME NEW a \in Connections
  PROVE  /\ connect(a) \in Connections
         /\ connect(a).active = TRUE /\ connect(a).callback = TRUE /\ connect(a).bound = None
         /\ connect(a).binder = a.binder /\ connect(a).service = a.service
         /\ connect(a).callbackRegistered = a.callbackRegistered
         /\ connect(a).bandwidth = a.bandwidth /\ connect(a).linked = a.linked
         /\ connect(a).at = a.at /\ connect(a).vpnState = a.vpnState
BY DEF connect, Connections

\* disconnect leaves bandwidthTimeout, the place and the state.
LEMMA DisconnectFields ==
  ASSUME NEW a \in Connections
  PROVE  /\ disconnect(a) \in Connections
         /\ disconnect(a).active = FALSE /\ disconnect(a).callback = FALSE
         /\ disconnect(a).bound = None /\ disconnect(a).linked = None
         /\ disconnect(a).binder = None /\ disconnect(a).service = None
         /\ disconnect(a).callbackRegistered = FALSE
         /\ disconnect(a).bandwidth = a.bandwidth
         /\ disconnect(a).at = a.at /\ disconnect(a).vpnState = a.vpnState
BY DEF disconnect, Connections

\* What the main thread takes is a message, with what goes with its kind.
LEMMA FirstMessage ==
  ASSUME Typed, inbox # <<>>
  PROVE  /\ Head(inbox) = inbox[1] /\ Head(inbox) \in Messages
         /\ Head(inbox).kind = "state" => Head(inbox).state \in States
         /\ Head(inbox).kind = "connected" => Head(inbox).gen \in Nat
<1>1. Head(inbox) = inbox[1] /\ Head(inbox) \in Messages
  BY DEF Typed
<1>2. QED
  BY <1>1 DEF Messages

\* onStart and onStop change bandwidthTimeout alone.
LEMMA SetBandwidthFields ==
  ASSUME Typed, SetBandwidth
  PROVE  /\ app' \in Connections
         /\ app'.bandwidth = ~app.bandwidth
         /\ UNCHANGED <<app.active, app.callback, app.binder, app.service,
                         app.callbackRegistered, app.bound, app.linked, app.at, app.vpnState>>
BY DEF Typed, SetBandwidth, Connections

\* What onServiceConnected sets before its first call.
LEMMA ConnectedFields ==
  ASSUME Typed, Connected
  PROVE  /\ app' \in Connections
         /\ app'.binder = Head(inbox).gen
         /\ app'.service = Head(inbox).gen
         /\ app'.linked = IF Reaches(Head(inbox).gen) THEN gen ELSE None
         /\ app'.at = IF Reaches(Head(inbox).gen) THEN "register" ELSE "read"
         /\ UNCHANGED <<app.active, app.callback, app.callbackRegistered, app.bandwidth,
                         app.bound, app.vpnState>>
<1>1. Head(inbox).gen \in Nat /\ gen \in Nat
  BY FirstMessage, BindingAssumption DEF Connected, Typed, TypeOK
<1>2. QED
  BY <1>1 DEF Typed, Connected, Connections, Places

\* What registerCallback leaves behind.
LEMMA RegisterFields ==
  ASSUME Typed, Register
  PROVE  /\ app' \in Connections
         /\ app'.at = IF Reaches(app.binder) THEN "mark" ELSE "read"
         /\ UNCHANGED <<app.active, app.callback, app.binder, app.service, app.bandwidth,
                         app.callbackRegistered, app.bound, app.linked, app.vpnState>>
<1>1. app' = [app EXCEPT !.at = IF Reaches(app.binder) THEN "mark" ELSE "read"]
  BY DEF Register
<1>2. QED
  BY <1>1 DEF Typed, Connections, Places

\* What is noted of it.
LEMMA MarkFields ==
  ASSUME Typed, Mark
  PROVE  /\ app' \in Connections
         /\ app'.callbackRegistered = TRUE
         /\ app'.at = IF app.bandwidth THEN "listen" ELSE "read"
         /\ UNCHANGED <<app.active, app.callback, app.binder, app.service, app.bandwidth,
                         app.bound, app.linked, app.vpnState>>
BY DEF Typed, Mark, Connections, Places

\* What startListeningForBandwidth leaves behind.
LEMMA ListenFields ==
  ASSUME Typed, Listen
  PROVE  /\ app' \in Connections
         /\ app'.at = "read"
         /\ UNCHANGED <<app.active, app.callback, app.binder, app.service,
                         app.callbackRegistered, app.bandwidth, app.bound, app.linked,
                         app.vpnState>>
BY DEF Typed, Listen, Connections, Places

\* What the activity reads.
LEMMA ReadFields ==
  ASSUME Typed, Read
  PROVE  /\ app' \in Connections
         /\ app'.at = "idle"
         /\ app'.vpnState = IF Reaches(app.binder) THEN state ELSE "Idle"
         /\ UNCHANGED <<app.active, app.callback, app.binder, app.service,
                         app.callbackRegistered, app.bandwidth, app.bound, app.linked>>
BY DEF Typed, TypeOK, Read, Connections, Places, States

\* What stateChanged sets.
LEMMA StateChangedFields ==
  ASSUME Typed, StateChanged
  PROVE  /\ app' \in Connections
         /\ app'.vpnState = Head(inbox).state
         /\ UNCHANGED <<app.active, app.callback, app.binder, app.service,
                         app.callbackRegistered, app.bandwidth, app.bound, app.linked, app.at>>
<1>1. Head(inbox).state \in States
  BY FirstMessage DEF StateChanged
<1>2. QED
  BY <1>1 DEF Typed, StateChanged, Connections

\* What onServiceDisconnected drops.
LEMMA DisconnectedFields ==
  ASSUME Typed, Disconnected
  PROVE  /\ app' \in Connections
         /\ app'.callbackRegistered = FALSE
         /\ app'.service = None
         /\ app'.binder = None
         /\ UNCHANGED <<app.active, app.callback, app.bandwidth, app.bound, app.linked,
                         app.at, app.vpnState>>
BY DEF Typed, Disconnected, Connections

\* What binderDied drops.
LEMMA BinderDiedFields ==
  ASSUME Typed, BinderDied
  PROVE  /\ app' \in Connections
         /\ app'.callbackRegistered = FALSE
         /\ app'.service = None
         /\ UNCHANGED <<app.active, app.callback, app.binder, app.bandwidth, app.bound,
                         app.at, app.vpnState>>
BY DEF Typed, BinderDied, Connections

\* What bindService leads to.
LEMMA BindFields ==
  ASSUME Typed, Bind
  PROVE  /\ app' \in Connections
         /\ app'.bound = gen
         /\ UNCHANGED <<app.active, app.callback, app.binder, app.service,
                         app.callbackRegistered, app.bandwidth, app.linked, app.at,
                         app.vpnState>>
<1>1. gen \in Nat
  BY BindingAssumption DEF Typed, TypeOK
<1>2. QED
  BY <1>1 DEF Typed, Bind, Connections

\* onCreate connects.
LEMMA CreateFields ==
  ASSUME Typed, Create
  PROVE  /\ app' \in Connections
         /\ app'.active = TRUE
         /\ app'.callback = TRUE
         /\ app'.bound = None
         /\ app'.at = "idle"
         /\ UNCHANGED <<app.binder, app.service, app.callbackRegistered, app.bandwidth,
                         app.linked, app.vpnState>>
<1>1. app \in Connections
  BY DEF Typed
<1> DEFINE c == connect(app)
<1>2. c \in Connections
  BY <1>1, ConnectFields
<1>3. app' = [c EXCEPT !.at = "idle"]
  BY DEF Create
<1> HIDE DEF c
<1>4. /\ app' \in Connections /\ app'.at = "idle"
      /\ app'.active = c.active
      /\ app'.callback = c.callback
      /\ app'.binder = c.binder
      /\ app'.service = c.service
      /\ app'.callbackRegistered = c.callbackRegistered
      /\ app'.bandwidth = c.bandwidth
      /\ app'.bound = c.bound
      /\ app'.linked = c.linked
      /\ app'.vpnState = c.vpnState
  BY <1>2, <1>3 DEF Connections, Places
<1>5. QED
  BY <1>1, <1>4, ConnectFields DEF c

\* onBinderDied disconnects and connects.
LEMMA OnBinderDiedFields ==
  ASSUME Typed, OnBinderDied
  PROVE  /\ app' \in Connections
         /\ app'.active = TRUE
         /\ app'.callback = TRUE
         /\ app'.bound = None
         /\ app'.binder = None
         /\ app'.service = None
         /\ app'.callbackRegistered = FALSE
         /\ app'.linked = None
         /\ UNCHANGED <<app.bandwidth, app.at, app.vpnState>>
BY ConnectFields, DisconnectFields DEF Typed, OnBinderDied

\* onDestroy disconnects.
LEMMA DestroyFields ==
  ASSUME Typed, Destroy
  PROVE  /\ app' \in Connections
         /\ app'.active = FALSE
         /\ app'.callback = FALSE
         /\ app'.bound = None
         /\ app'.binder = None
         /\ app'.service = None
         /\ app'.callbackRegistered = FALSE
         /\ app'.linked = None
         /\ app'.at = "destroyed"
         /\ UNCHANGED <<app.bandwidth, app.vpnState>>
<1>1. app \in Connections
  BY DEF Typed
<1> DEFINE c == disconnect(app)
<1>2. c \in Connections
  BY <1>1, DisconnectFields
<1>3. app' = [c EXCEPT !.at = "destroyed"]
  BY DEF Destroy
<1> HIDE DEF c
<1>4. /\ app' \in Connections /\ app'.at = "destroyed"
      /\ app'.active = c.active
      /\ app'.callback = c.callback
      /\ app'.binder = c.binder
      /\ app'.service = c.service
      /\ app'.callbackRegistered = c.callbackRegistered
      /\ app'.bandwidth = c.bandwidth
      /\ app'.bound = c.bound
      /\ app'.linked = c.linked
      /\ app'.vpnState = c.vpnState
  BY <1>2, <1>3 DEF Connections, Places
<1>5. QED
  BY <1>1, <1>4, DisconnectFields DEF c

\* What is left of a dead app.
LEMMA AppDiesFields ==
  ASSUME Typed, AppDies
  PROVE  /\ app' \in Connections
         /\ app'.active = FALSE
         /\ app'.callback = FALSE
         /\ app'.bound = None
         /\ app'.binder = None
         /\ app'.service = None
         /\ app'.callbackRegistered = FALSE
         /\ app'.linked = None
         /\ app'.at \in {"dead", "midcall"}
<1>1. app \in Connections
  BY DEF Typed
<1> DEFINE c == disconnect(app)
<1>2. c \in Connections
  BY <1>1, DisconnectFields
<1>3. PICK place \in {"dead", "midcall"} :
         app' = [c EXCEPT !.at = place, !.bandwidth = FALSE, !.vpnState = "Idle"]
  BY DEF AppDies
<1> HIDE DEF c
<1>4. /\ app' \in Connections /\ app'.at = place
      /\ app'.active = c.active
      /\ app'.callback = c.callback
      /\ app'.binder = c.binder
      /\ app'.service = c.service
      /\ app'.callbackRegistered = c.callbackRegistered
      /\ app'.bound = c.bound
      /\ app'.linked = c.linked
  BY <1>2, <1>3 DEF Connections, Places
<1>5. QED
  BY <1>1, <1>4, DisconnectFields DEF c

\* The last call of a dead app leaves the connection as it is.
LEMMA StraggleFields ==
  ASSUME Typed, Straggle
  PROVE  /\ app' \in Connections
         /\ app.at = "midcall" /\ app'.at = "dead"
         /\ UNCHANGED <<app.active, app.callback, app.binder, app.service,
                         app.callbackRegistered, app.bandwidth, app.bound, app.linked,
                         app.vpnState>>
BY DEF Typed, Straggle, Connections, Places

-----------------------------------------------------------------------------
(***************************************************************************)
(* The queues.                                                             *)
(***************************************************************************)
\* What unbindService leaves of the messages: no report of the connection.
LEMMA ForgetEffect ==
  ASSUME NEW q \in Seq(Messages)
  PROVE  /\ Forget(q) \in Seq(Messages) /\ Len(Forget(q)) = Len(q)
         /\ \A i \in 1..Len(q) : Forget(q)[i].kind \notin {"connected", "disconnected"}
<1>1. [kind |-> "forgotten"] \in Messages
  BY DEF Messages
<1>2. \A i \in 1..Len(q) : q[i] \in Messages
  OBVIOUS
<1>3. Forget(q) \in Seq(Messages) /\ Len(Forget(q)) = Len(q)
  BY <1>1, <1>2 DEF Forget
<1>4. ASSUME NEW i \in 1..Len(q)
      PROVE  Forget(q)[i].kind \notin {"connected", "disconnected"}
  <2>1. Forget(q)[i] = IF q[i].kind \in {"connected", "disconnected"}
                       THEN [kind |-> "forgotten"] ELSE q[i]
    BY DEF Forget
  <2>2. [kind |-> "forgotten"].kind = "forgotten"
    OBVIOUS
  <2>3. QED
    BY <2>1, <2>2
<1>5. QED
  BY <1>3, <1>4

\* The messages that are sent are messages.
LEMMA Sendable ==
  /\ \A s \in States : [kind |-> "state", state |-> s] \in Messages
  /\ \A g \in Nat : [kind |-> "connected", gen |-> g] \in Messages
  /\ [kind |-> "died"] \in Messages /\ [kind |-> "disconnected"] \in Messages
BY DEF Messages

\* oneway calls are of two kinds.
LEMMA SentType ==
  ASSUME Typed, NEW calls \in Seq({"stop", "unregister"})
  PROVE  Sent(app, calls) \in Seq({"stop", "unregister"})
BY DEF Sent, Typed

\* unregisterCallback() is at most one such call.
LEMMA UnregisterType ==
  /\ Unregister(app) \in Seq({"stop", "unregister"})
  /\ Unregister(app) \o <<"stop">> \in Seq({"stop", "unregister"})
  /\ <<"stop">> \in Seq({"stop", "unregister"})
<1> DEFINE Calls == {"stop", "unregister"}
<1>1. <<>> \in Seq(Calls) /\ <<"stop">> \in Seq(Calls) /\ <<"unregister">> \in Seq(Calls)
  OBVIOUS
<1>2. Unregister(app) \in Seq(Calls)
  BY <1>1 DEF Unregister
<1> HIDE DEF Calls
<1>3. Unregister(app) \o <<"stop">> \in Seq(Calls)
  BY <1>1, <1>2
<1>4. QED
  BY <1>1, <1>2, <1>3 DEF Calls

\* The looper runs exactly while somebody listens, so that it is not started
\* a second time.
LEMMA ListeningKept ==
  ASSUME Typed, NEW cb \in {"app", "note"},
         \/ StartListening(cb)
         \/ StopListening(cb) /\ UNCHANGED fault
         \/ UNCHANGED <<listeners, looper, fault>>
  PROVE  /\ listeners' \subseteq {"app", "note"} /\ looper' = (listeners' # {})
         /\ fault' # "looper"
<1>1. /\ listeners \subseteq {"app", "note"} /\ looper = (listeners # {})
      /\ fault # "looper"
  BY DEF Typed, TypeOK
<1>2. CASE StartListening(cb)
  BY <1>1, <1>2 DEF StartListening
<1>3. CASE StopListening(cb) /\ UNCHANGED fault
  <2>1. listeners' \subseteq {"app", "note"} /\ fault' # "looper"
    BY <1>1, <1>3 DEF StopListening
  <2>2. CASE cb \in listeners /\ listeners' = {}
    BY <1>1, <1>3, <2>1, <2>2 DEF StopListening
  <2>3. CASE ~(cb \in listeners /\ listeners' = {})
    <3>1. looper' = looper
      BY <1>1, <1>3, <2>3 DEF StopListening
    <3>2. (listeners' # {}) = (listeners # {})
      BY <1>3, <2>3 DEF StopListening
    <3>3. QED
      BY <1>1, <2>1, <3>1, <3>2
  <2>4. QED
    BY <2>2, <2>3
<1>4. CASE UNCHANGED <<listeners, looper, fault>>
  BY <1>1, <1>4
<1>5. QED
  BY <1>2, <1>3, <1>4

-----------------------------------------------------------------------------
(***************************************************************************)
(* Types, and the first check: the looper.                                 *)
(***************************************************************************)
\* The steps on the main thread of :bg keep to the types.
LEMMA ServiceTyped ==
  ASSUME Typed,
         \/ RunPosted \/ Screen \/ Write \/ OnewayArrives
         \/ \E s \in States : Broadcast(s)
  PROVE  Typed'
<1> USE BindingAssumption
<1>1. CASE RunPosted
  <2>1. /\ listeners' \subseteq {"app", "note"} /\ looper' = (listeners' # {})
        /\ fault' # "looper"
    BY <1>1, ListeningKept DEF RunPosted
  <2>2. posted' \in Seq({"start", "stop"})
    BY <1>1 DEF RunPosted, Typed
  <2>3. UNCHANGED <<alive, gen, state, change, registered, note, oneway, app, inbox, notices, slip>>
    BY <1>1 DEF RunPosted
  <2>4. QED
    BY <2>1, <2>2, <2>3 DEF Typed, TypeOK
<1>2. ASSUME NEW to \in {"absent", "on", "off"}, UpdateCallback(to)
      PROVE  /\ listeners' \subseteq {"app", "note"} /\ looper' = (listeners' # {})
             /\ fault' # "looper" /\ registered' \subseteq {"app", "note"}
             /\ note' \in {"absent", "on", "off"}
  <2>1. /\ listeners' \subseteq {"app", "note"} /\ looper' = (listeners' # {})
        /\ fault' # "looper"
    BY <1>2, ListeningKept DEF UpdateCallback
  <2>2. registered' \subseteq {"app", "note"}
    BY <1>2 DEF UpdateCallback, Typed, TypeOK
  <2>3. QED
    BY <1>2, <2>1, <2>2 DEF UpdateCallback
<1>3. CASE Screen
  <2>1. UNCHANGED <<alive, gen, state, change, posted, oneway, app, inbox, notices, slip>>
    BY <1>3 DEF Screen
  <2>2. \E to \in {"absent", "on", "off"} : UpdateCallback(to)
    BY <1>3 DEF Screen
  <2>3. QED
    BY <1>2, <2>1, <2>2 DEF Typed, TypeOK
<1>4. ASSUME NEW s \in States, Broadcast(s)
      PROVE  Typed'
  <2>1. UNCHANGED <<alive, gen, state, posted, oneway, app, notices, slip>> /\ change' = s
    BY <1>4 DEF Broadcast
  <2>2. /\ listeners' \subseteq {"app", "note"} /\ looper' = (listeners' # {})
        /\ fault' # "looper" /\ registered' \subseteq {"app", "note"}
        /\ note' \in {"absent", "on", "off"}
    <3>1. \/ \E to \in {"absent", "on", "off"} : UpdateCallback(to)
          \/ /\ note' \in {"absent", "on", "off"}
             /\ UNCHANGED <<registered, listeners, looper, fault>>
          \/ UNCHANGED <<registered, listeners, looper, note, fault>>
      BY <1>4 DEF Broadcast, Created, States
    <3>2. QED
      BY <1>2, <3>1 DEF Typed, TypeOK
  <2>3. inbox' \in Seq(Messages)
    <3>1. Append(inbox, [kind |-> "state", state |-> s]) \in Seq(Messages)
      BY Sendable DEF Typed
    <3>2. QED
      BY <1>4, <3>1 DEF Broadcast, Typed
  <2>4. QED
    BY <2>1, <2>2, <2>3 DEF Typed, TypeOK, States
<1>5. CASE Write
  BY <1>5 DEF Write, Typed, TypeOK
<1>6. CASE OnewayArrives
  <2>1. posted' \in Seq({"start", "stop"}) /\ oneway' \in Seq({"stop", "unregister"})
    BY <1>6 DEF OnewayArrives, Typed
  <2>2. registered' \subseteq {"app", "note"}
    BY <1>6 DEF OnewayArrives, Typed, TypeOK
  <2>3. UNCHANGED <<alive, gen, state, change, listeners, looper, note, app, inbox, notices,
                    fault, slip>>
    BY <1>6 DEF OnewayArrives
  <2>4. QED
    BY <2>1, <2>2, <2>3 DEF Typed, TypeOK
<1>7. QED
  BY <1>1, <1>3, <1>4, <1>5, <1>6

\* A step that leaves :bg alone, but for its queues, keeps to the types.
LEMMA AppTyped ==
  ASSUME Typed,
         \/ Create \/ SetBandwidth \/ Connected \/ Register \/ Mark \/ Listen \/ Read
         \/ StateChanged \/ Disconnected \/ BinderDied \/ OnBinderDied \/ Forgotten \/ Destroy
  PROVE  Typed'
<1> USE BindingAssumption
<1> DEFINE Queues == /\ inbox' \in Seq(Messages) /\ posted' \in Seq({"start", "stop"})
                     /\ oneway' \in Seq({"stop", "unregister"})
           Ours == /\ UNCHANGED <<alive, gen, state, change, listeners, looper, note>>
                   /\ registered' \subseteq {"app", "note"}
                   /\ notices' \subseteq notices /\ slip' \subseteq slip \cup {"between", "overtaken", "late"}
                   /\ fault' # "looper"
<1>1. ASSUME app' \in Connections, Queues, Ours PROVE Typed'
  BY <1>1 DEF Typed, TypeOK
<1>2. Tail(inbox) \in Seq(Messages) \/ inbox = <<>>
  BY DEF Typed
<1>3. CASE Create
  BY <1>1, <1>3, CreateFields DEF Create, service, Typed, TypeOK
<1>4. CASE SetBandwidth
  <2>1. Queues
    <3>1. Sent(app, <<"stop">>) \in Seq({"stop", "unregister"})
      BY SentType, UnregisterType
    <3>2. Append(posted, "start") \in Seq({"start", "stop"})
      BY DEF Typed
    <3>3. QED
      BY <1>4, <3>1, <3>2 DEF SetBandwidth, Typed
  <2>2. Ours
    BY <1>4 DEF SetBandwidth, Typed, TypeOK
  <2>3. QED
    BY <1>1, <1>4, <2>1, <2>2, SetBandwidthFields
<1>5. CASE Connected
  BY <1>1, <1>2, <1>5, ConnectedFields DEF Connected, service, Typed, TypeOK
<1>6. CASE Register
  BY <1>1, <1>6, RegisterFields DEF Register, Typed, TypeOK
<1>16. CASE Mark
  BY <1>1, <1>16, MarkFields DEF Mark, service, Typed, TypeOK
<1>7. CASE Listen
  BY <1>1, <1>7, ListenFields DEF Listen, Typed, TypeOK
<1>8. CASE Read
  BY <1>1, <1>8, ReadFields DEF Read, service, Typed, TypeOK
<1>9. CASE StateChanged
  BY <1>1, <1>2, <1>9, StateChangedFields DEF StateChanged, service, Typed, TypeOK
<1>10. CASE Disconnected
  <2>1. Queues
    BY <1>2, <1>10, SentType, UnregisterType DEF Disconnected, Typed
  <2>2. QED
    BY <1>1, <1>10, <2>1, DisconnectedFields DEF Disconnected, Typed, TypeOK
<1>11. CASE BinderDied
  <2>1. Append(inbox, [kind |-> "died"]) \in Seq(Messages)
    BY Sendable DEF Typed
  <2>2. Queues
    BY <1>11, <2>1 DEF BinderDied, service, Typed
  <2>3. Ours
    BY <1>11 DEF BinderDied, service, LateSlip, Typed, TypeOK
  <2>4. QED
    BY <1>1, <1>11, <2>2, <2>3, BinderDiedFields
<1>12. CASE OnBinderDied
  <2>1. Forget(Tail(inbox)) \in Seq(Messages)
    BY <1>2, <1>12, ForgetEffect DEF OnBinderDied
  <2>2. Queues
    BY <1>12, <2>1, SentType, UnregisterType DEF OnBinderDied, Typed
  <2>3. Ours
    BY <1>12 DEF OnBinderDied, Untold, LateSlip, Typed, TypeOK
  <2>4. QED
    BY <1>1, <1>12, <2>2, <2>3, OnBinderDiedFields
<1>13. CASE Forgotten
  BY <1>1, <1>2, <1>13 DEF Forgotten, service, Typed, TypeOK
<1>14. CASE Destroy
  <2>1. Forget(inbox) \in Seq(Messages)
    BY ForgetEffect DEF Typed
  <2>2. Queues
    BY <1>14, <2>1, SentType, UnregisterType DEF Destroy, Typed
  <2>3. Ours
    BY <1>14 DEF Destroy, Untold, Typed, TypeOK
  <2>4. QED
    BY <1>1, <1>14, <2>2, <2>3, DestroyFields
<1>15. QED
  BY <1>3, <1>4, <1>5, <1>6, <1>7, <1>8, <1>9, <1>10, <1>11, <1>12, <1>13, <1>14, <1>16

\* Every step keeps to the types.
LEMMA TypedStep ==
  ASSUME Typed, [Next]_vars
  PROVE  Typed'
<1> USE BindingAssumption
<1>1. CASE \/ RunPosted \/ Screen \/ Write \/ OnewayArrives
           \/ \E s \in {"Stopped", "Connecting", "Connected", "Stopping"} : Broadcast(s)
  BY <1>1, ServiceTyped DEF States
<1>2. CASE \/ Create \/ SetBandwidth \/ Connected \/ Register \/ Mark \/ Listen \/ Read
           \/ StateChanged \/ Disconnected \/ BinderDied \/ OnBinderDied \/ Forgotten \/ Destroy
  BY <1>2, AppTyped
<1>3. CASE Bind
  <2>1. Append(inbox, [kind |-> "connected", gen |-> gen]) \in Seq(Messages)
    BY Sendable DEF Typed, TypeOK
  <2>2. QED
    BY <1>3, <2>1, BindFields DEF Bind, service, Typed, TypeOK
<1>4. CASE Crash
  <2>1. posted' \in Seq({"start", "stop"}) /\ oneway' \in Seq({"stop", "unregister"})
    BY <1>4 DEF Crash
  <2>2. notices' \subseteq {"died", "disconnected"} \X (0..MaxGen)
    <3>1. <<"died", gen>> \in {"died", "disconnected"} \X (0..MaxGen)
      BY DEF Typed, TypeOK
    <3>2. <<"disconnected", gen>> \in {"died", "disconnected"} \X (0..MaxGen)
      BY DEF Typed, TypeOK
    <3>3. QED
      BY <1>4, <3>1, <3>2 DEF Crash, Typed, TypeOK
  <2>3. QED
    BY <1>4, <2>1, <2>2 DEF Crash, Typed, TypeOK
<1>5. CASE PostDisconnected
  <2>1. Append(inbox, [kind |-> "disconnected"]) \in Seq(Messages)
    BY Sendable DEF Typed
  <2>2. QED
    BY <1>5, <2>1 DEF PostDisconnected, service, Typed, TypeOK
<1>6. CASE Restart
  BY <1>6 DEF Restart, service, Typed, TypeOK
<1>7. CASE AppDies
  <2>1. inbox' \in Seq(Messages) /\ notices' = {} /\ slip' \subseteq slip
        /\ UNCHANGED <<alive, gen, state, change, registered, listeners, looper, posted, note,
                       oneway, fault>>
    BY <1>7 DEF AppDies, service
  <2>2. QED
    BY <1>7, <2>1, AppDiesFields DEF Typed, TypeOK
<1>8. CASE OnCallbackDied
  <2>1. posted' \in Seq({"start", "stop"}) /\ registered' \subseteq registered
        /\ UNCHANGED <<alive, gen, state, change, listeners, looper, note, oneway, app, inbox,
                       notices, fault, slip>>
    BY <1>8 DEF OnCallbackDied, Typed
  <2>2. QED
    BY <2>1 DEF Typed, TypeOK
<1>9. CASE Straggle
  <2>1. posted' \in Seq({"start", "stop"}) /\ slip' \subseteq slip \cup {"straggler"}
        /\ UNCHANGED <<alive, gen, state, change, registered, listeners, looper, note, oneway,
                       inbox, notices, fault>>
    BY <1>9 DEF Straggle, Typed
  <2>2. QED
    BY <1>9, <2>1, StraggleFields DEF Typed, TypeOK
<1>10. CASE UNCHANGED vars
  BY <1>10 DEF vars, Typed, TypeOK
<1>11. QED
  BY <1>1, <1>2, <1>3, <1>4, <1>5, <1>6, <1>7, <1>8, <1>9, <1>10 DEF Next

-----------------------------------------------------------------------------
(***************************************************************************)
(* The second check: onServiceConnected never finds a callback registered. *)
(*                                                                         *)
(* A connection that is made or on its way to the main thread (Hook, with  *)
(* 0 for the one that is made) is of the run that the system has bound, or *)
(* its end has yet to be told, or is told behind it in the inbox; and      *)
(* between two of them one end is told.                                    *)
(***************************************************************************)
Attached == app.callbackRegistered \/ app.at \in {"register", "mark"}
Hook(i) == IF i = 0 THEN Attached ELSE inbox[i].kind = "connected"
Reported == \E run \in 0..MaxGen : <<"disconnected", run>> \in notices
Covered == (alive /\ app.bound = gen) \/ Reported

Ended ==
    \A i \in 0..Len(inbox) : Hook(i) =>
        \/ Covered
        \/ \E j \in 1..Len(inbox) : i < j /\ inbox[j].kind = "disconnected"

Apart ==
    \A k \in 1..Len(inbox) : \A i \in 0..Len(inbox) : i < k /\ Hook(i) /\ Hook(k) =>
        \E j \in 1..Len(inbox) : i < j /\ j < k /\ inbox[j].kind = "disconnected"

Unbound ==
    app.at = "created" =>
        /\ inbox = <<>> /\ notices = {} /\ app.callbackRegistered = FALSE
        /\ app.active = FALSE /\ app.callback = FALSE
        /\ app.bound = None /\ app.linked = None

Hooked == Ended /\ Apart /\ Unbound /\ fault # "registered"

\* With the inbox as it was.
LEMMA HooksKept ==
  ASSUME Typed, Ended, Apart, inbox' = inbox, Attached' => Attached, Covered => Covered'
  PROVE  Ended' /\ Apart'
<1>1. \A i \in 0..Len(inbox) : Hook(i)' => Hook(i)
  BY DEF Hook
<1>2. Ended'
  BY <1>1 DEF Ended
<1>3. Apart'
  BY <1>1 DEF Apart
<1>4. QED
  BY <1>2, <1>3

\* With a message put into it that is no connection.
LEMMA HooksPut ==
  ASSUME Typed, Ended, Apart, NEW m \in Messages, m.kind # "connected",
         inbox' = Append(inbox, m), Attached' => Attached,
         Covered => Covered' \/ m.kind = "disconnected"
  PROVE  Ended' /\ Apart'
<1>1. /\ Len(inbox) \in Nat /\ Len(inbox') = Len(inbox) + 1
      /\ \A i \in 1..Len(inbox) : inbox'[i] = inbox[i]
      /\ inbox'[Len(inbox) + 1] = m
  BY DEF Typed
<1>2. ASSUME NEW i \in 0..Len(inbox'), Hook(i)'
      PROVE  i \in 0..Len(inbox) /\ Hook(i)
  <2>1. CASE i = 0
    BY <1>1, <1>2, <2>1 DEF Hook
  <2>2. CASE i \in 1..Len(inbox)
    BY <1>1, <1>2, <2>2 DEF Hook
  <2>3. CASE i = Len(inbox) + 1
    BY <1>1, <1>2, <2>3 DEF Hook
  <2>4. QED
    BY <1>1, <2>1, <2>2, <2>3
<1>3. Ended'
  <2> SUFFICES ASSUME NEW i \in 0..Len(inbox'), Hook(i)', ~Covered'
               PROVE  \E j \in 1..Len(inbox') : i < j /\ inbox'[j].kind = "disconnected"
    BY DEF Ended
  <2>1. i \in 0..Len(inbox) /\ Hook(i)
    BY <1>2
  <2>2. CASE m.kind = "disconnected"
    BY <1>1, <2>1, <2>2
  <2>3. CASE m.kind # "disconnected"
    <3>1. PICK j \in 1..Len(inbox) : i < j /\ inbox[j].kind = "disconnected"
      BY <2>1, <2>3 DEF Ended
    <3>2. QED
      BY <1>1, <3>1
  <2>4. QED
    BY <2>2, <2>3
<1>4. Apart'
  <2> SUFFICES ASSUME NEW k \in 1..Len(inbox'), NEW i \in 0..Len(inbox'), i < k, Hook(i)', Hook(k)'
               PROVE  \E j \in 1..Len(inbox') : i < j /\ j < k /\ inbox'[j].kind = "disconnected"
    BY DEF Apart
  <2>1. i \in 0..Len(inbox) /\ Hook(i) /\ k \in 1..Len(inbox) /\ Hook(k)
    BY <1>1, <1>2
  <2>2. PICK j \in 1..Len(inbox) : i < j /\ j < k /\ inbox[j].kind = "disconnected"
    BY <2>1 DEF Apart
  <2>3. QED
    BY <1>1, <2>2
<1>5. QED
  BY <1>3, <1>4

\* With its first message taken: a connection takes the place of the one that
\* was made, the end of one leaves none.
LEMMA HooksTaken ==
  ASSUME Typed, Ended, Apart, inbox # <<>>, inbox' = Tail(inbox), Covered => Covered',
         Attached' => \/ Head(inbox).kind = "connected"
                      \/ Attached /\ Head(inbox).kind # "disconnected"
  PROVE  Ended' /\ Apart'
<1>1. /\ Len(inbox) \in Nat /\ Len(inbox) > 0 /\ Len(inbox') = Len(inbox) - 1
      /\ \A i \in 1..Len(inbox') : inbox'[i] = inbox[i + 1]
      /\ Head(inbox) = inbox[1]
  BY DEF Typed
<1>2. ASSUME NEW i \in 0..Len(inbox'), Hook(i)'
      PROVE  \/ i + 1 \in 1..Len(inbox) /\ Hook(i + 1)
             \/ i = 0 /\ Hook(0) /\ inbox[1].kind # "disconnected"
  <2>1. CASE i = 0
    BY <1>1, <1>2, <2>1 DEF Hook
  <2>2. CASE i # 0
    BY <1>1, <1>2, <2>2 DEF Hook
  <2>3. QED
    BY <2>1, <2>2
<1>3. ASSUME NEW i \in 0..Len(inbox'), Hook(i)', NEW j \in 1..Len(inbox),
             inbox[j].kind = "disconnected",
             \/ i + 1 < j
             \/ i = 0 /\ inbox[1].kind # "disconnected"
      PROVE  j - 1 \in 1..Len(inbox') /\ i < j - 1 /\ inbox'[j - 1].kind = "disconnected"
  <2>1. j # 1 /\ i < j - 1
    BY <1>1, <1>3
  <2>2. j - 1 \in 1..Len(inbox')
    BY <1>1, <2>1
  <2>3. QED
    BY <1>1, <1>3, <2>1, <2>2
<1>4. Ended'
  <2> SUFFICES ASSUME NEW i \in 0..Len(inbox'), Hook(i)', ~Covered'
               PROVE  \E j \in 1..Len(inbox') : i < j /\ inbox'[j].kind = "disconnected"
    BY DEF Ended
  <2>1. CASE i + 1 \in 1..Len(inbox) /\ Hook(i + 1)
    <3>1. PICK j \in 1..Len(inbox) : i + 1 < j /\ inbox[j].kind = "disconnected"
      BY <1>1, <2>1 DEF Ended
    <3>2. QED
      BY <1>3, <3>1
  <2>2. CASE i = 0 /\ Hook(0) /\ inbox[1].kind # "disconnected"
    <3>1. PICK j \in 1..Len(inbox) : inbox[j].kind = "disconnected"
      BY <1>1, <2>2 DEF Ended
    <3>2. QED
      BY <1>3, <2>2, <3>1
  <2>3. QED
    BY <1>2, <2>1, <2>2
<1>5. Apart'
  <2> SUFFICES ASSUME NEW k \in 1..Len(inbox'), NEW i \in 0..Len(inbox'), i < k, Hook(i)', Hook(k)'
               PROVE  \E j \in 1..Len(inbox') : i < j /\ j < k /\ inbox'[j].kind = "disconnected"
    BY DEF Apart
  <2>1. k + 1 \in 1..Len(inbox) /\ Hook(k + 1)
    BY <1>1, <1>2
  <2>2. CASE i + 1 \in 1..Len(inbox) /\ Hook(i + 1)
    <3>1. PICK j \in 1..Len(inbox) : i + 1 < j /\ j < k + 1 /\ inbox[j].kind = "disconnected"
      BY <1>1, <2>1, <2>2 DEF Apart
    <3>2. j - 1 \in 1..Len(inbox') /\ i < j - 1 /\ inbox'[j - 1].kind = "disconnected"
      BY <1>3, <3>1
    <3>3. j - 1 < k
      BY <3>1, <1>1
    <3>4. QED
      BY <3>2, <3>3
  <2>3. CASE i = 0 /\ Hook(0) /\ inbox[1].kind # "disconnected"
    <3>1. PICK j \in 1..Len(inbox) : j < k + 1 /\ inbox[j].kind = "disconnected"
      BY <1>1, <2>1, <2>3 DEF Apart
    <3>2. j - 1 \in 1..Len(inbox') /\ i < j - 1 /\ inbox'[j - 1].kind = "disconnected"
      BY <1>3, <2>3, <3>1
    <3>3. j - 1 < k
      BY <3>1, <1>1
    <3>4. QED
      BY <3>2, <3>3
  <2>4. QED
    BY <1>2, <2>2, <2>3
<1>6. QED
  BY <1>4, <1>5

\* With nothing in it that would connect, and nothing connected.
LEMMA HooksGone ==
  ASSUME Attached' = FALSE, \A i \in 1..Len(inbox') : inbox'[i].kind # "connected",
         inbox' \in Seq(Messages)
  PROVE  Ended' /\ Apart'
<1>1. \A i \in 0..Len(inbox') : ~Hook(i)'
  BY DEF Hook
<1>2. \A k \in 1..Len(inbox') : k \in 0..Len(inbox')
  OBVIOUS
<1>3. QED
  BY <1>1, <1>2 DEF Ended, Apart

\* With a connection put into it: whatever was connected has been ended.
LEMMA HooksBind ==
  ASSUME Typed, Ended, Apart, Bind
  PROVE  Ended' /\ Apart'
<1> DEFINE m == [kind |-> "connected", gen |-> gen]
<1>1. /\ inbox' = Append(inbox, m) /\ m \in Messages /\ m.kind = "connected" /\ ~Covered
      /\ alive' = alive /\ gen' = gen
  <2>1. gen \in Nat
    BY BindingAssumption DEF Typed, TypeOK
  <2>2. m \in Messages /\ m.kind = "connected"
    BY <2>1, Sendable
  <2>3. ~Covered
    BY DEF Bind, Covered, Reported
  <2>4. QED
    BY <2>2, <2>3 DEF Bind
<1> HIDE DEF m
<1>2. /\ Len(inbox) \in Nat /\ Len(inbox') = Len(inbox) + 1
      /\ \A i \in 1..Len(inbox) : inbox'[i] = inbox[i]
      /\ inbox'[Len(inbox) + 1] = m
  BY <1>1 DEF Typed
<1>3. Covered'
  BY BindFields DEF Covered, Bind
<1>4. Attached' = Attached
  BY BindFields DEF Attached
<1>5. Ended'
  BY <1>3 DEF Ended
<1>6. ASSUME NEW i \in 0..Len(inbox)
      PROVE  Hook(i)' = Hook(i)
  BY <1>2, <1>4 DEF Hook
<1>7. Apart'
  <2> SUFFICES ASSUME NEW k \in 1..Len(inbox'), NEW i \in 0..Len(inbox'), i < k, Hook(i)', Hook(k)'
               PROVE  \E j \in 1..Len(inbox') : i < j /\ j < k /\ inbox'[j].kind = "disconnected"
    BY DEF Apart
  <2>1. i \in 0..Len(inbox) /\ Hook(i)
    BY <1>2, <1>6
  <2>2. CASE k \in 1..Len(inbox)
    <3>1. Hook(k)
      BY <1>6, <2>2
    <3>2. PICK j \in 1..Len(inbox) : i < j /\ j < k /\ inbox[j].kind = "disconnected"
      BY <2>1, <2>2, <3>1 DEF Apart
    <3>3. QED
      BY <1>2, <3>2
  <2>3. CASE k = Len(inbox) + 1
    <3>1. PICK j \in 1..Len(inbox) : i < j /\ inbox[j].kind = "disconnected"
      BY <1>1, <2>1 DEF Ended
    <3>2. QED
      BY <1>2, <2>3, <3>1
  <2>4. QED
    BY <1>2, <2>2, <2>3
<1>8. QED
  BY <1>5, <1>7

\* The steps of :bg leave the connection alone.
LEMMA ServiceHooked ==
  ASSUME Typed, Hooked,
         \/ RunPosted \/ Screen \/ Write \/ OnewayArrives
         \/ \E s \in States : Broadcast(s)
  PROVE  Hooked'
<1>1. UNCHANGED <<alive, gen, app, notices>>
  BY DEF RunPosted, Screen, Write, OnewayArrives, Broadcast
<1>2. Attached' = Attached /\ Covered' = Covered
  BY <1>1 DEF Attached, Covered, Reported
<1>3. fault' # "registered"
  <2>1. \A cb : StartListening(cb) => fault' # "registered"
    BY DEF StartListening, Hooked
  <2>2. \A to : UpdateCallback(to) => fault' # "registered"
    BY <2>1 DEF UpdateCallback, Hooked
  <2>3. QED
    BY <2>1, <2>2 DEF RunPosted, Screen, Write, OnewayArrives, Broadcast, Hooked
<1>4. CASE inbox' = inbox
  BY <1>1, <1>2, <1>3, <1>4, HooksKept DEF Hooked, Unbound
<1>5. CASE inbox' # inbox
  <2>1. PICK s \in States : inbox' = Append(inbox, [kind |-> "state", state |-> s]) /\ app.callback
    BY <1>5 DEF RunPosted, Screen, Write, OnewayArrives, Broadcast
  <2>2. [kind |-> "state", state |-> s].kind = "state"
    OBVIOUS
  <2>3. Ended' /\ Apart'
    BY <1>2, <2>1, <2>2, Sendable, HooksPut DEF Hooked
  <2>4. QED
    BY <1>1, <1>3, <2>1, <2>3 DEF Hooked, Unbound
<1>6. QED
  BY <1>4, <1>5

\* Every step keeps the connections apart, and the check holds.
LEMMA HookedStep ==
  ASSUME Typed, Typed', Hooked, [Next]_vars
  PROVE  Hooked'
<1> USE BindingAssumption
<1>0. Ended /\ Apart /\ Unbound /\ fault # "registered"
  BY DEF Hooked
<1>1. CASE \/ RunPosted \/ Screen \/ Write \/ OnewayArrives
           \/ \E s \in {"Stopped", "Connecting", "Connected", "Stopping"} : Broadcast(s)
  BY <1>1, ServiceHooked DEF States
<1>2. CASE Create
  <2>1. app'.at = "idle" /\ app'.callbackRegistered = FALSE /\ inbox' = <<>>
    BY <1>0, <1>2, CreateFields DEF Create, Unbound
  <2>2. Attached' = FALSE
    BY <2>1 DEF Attached
  <2>3. Ended' /\ Apart'
    <3>1. inbox' \in Seq(Messages) /\ \A i \in 1..Len(inbox') : inbox'[i].kind # "connected"
      BY <2>1
    <3>2. QED
      BY <2>2, <3>1, HooksGone
  <2>4. QED
    BY <1>0, <1>2, <2>1, <2>3 DEF Hooked, Unbound, Create
<1>3. CASE SetBandwidth \/ Listen \/ Read
  <2>1. /\ UNCHANGED <<alive, gen, inbox, notices, fault>>
        /\ UNCHANGED <<app.callbackRegistered, app.bound>>
        /\ app'.at # "created" /\ (app'.at \in {"register", "mark"} => app'.at = app.at)
    BY <1>3, SetBandwidthFields, ListenFields, ReadFields DEF SetBandwidth, Listen, Read, service
  <2>2. (Attached' => Attached) /\ (Covered => Covered')
    BY <2>1 DEF Attached, Covered, Reported
  <2>3. QED
    BY <1>0, <2>1, <2>2, HooksKept DEF Hooked, Unbound
<1>4. CASE Connected
  <2>1. /\ inbox # <<>> /\ Head(inbox).kind = "connected" /\ inbox' = Tail(inbox)
        /\ UNCHANGED <<alive, gen, notices>>
    BY <1>4 DEF Connected
  <2>2. app'.bound = app.bound /\ app'.at # "created"
    BY <1>4, ConnectedFields
  <2>3. Covered => Covered'
    BY <2>1, <2>2 DEF Covered, Reported
  <2>4. ~app.callbackRegistered
    <3>1. inbox[1].kind = "connected" /\ 1 \in 1..Len(inbox) /\ 0 \in 0..Len(inbox)
      BY <2>1, FirstMessage DEF Typed
    <3>2. Hook(1)
      BY <3>1 DEF Hook
    <3>3. ~Hook(0)
      BY <1>0, <3>1, <3>2 DEF Apart
    <3>4. QED
      BY <3>3 DEF Hook, Attached
  <2>5. fault' = fault
    BY <1>4, <2>4 DEF Connected
  <2>6. QED
    BY <1>0, <2>1, <2>2, <2>3, <2>5, HooksTaken DEF Hooked, Unbound
<1>5. CASE Register \/ Mark
  <2>1. /\ UNCHANGED <<alive, gen, inbox, notices, fault>> /\ app.at \in {"register", "mark"}
        /\ app'.bound = app.bound /\ app'.at # "created"
    BY <1>5, RegisterFields, MarkFields DEF Register, Mark
  <2>2. (Attached' => Attached) /\ (Covered => Covered')
    BY <2>1 DEF Attached, Covered, Reported
  <2>3. QED
    BY <1>0, <2>1, <2>2, HooksKept DEF Hooked, Unbound
<1>6. CASE StateChanged \/ Disconnected \/ Forgotten
  <2>1. /\ inbox # <<>> /\ inbox' = Tail(inbox)
        /\ UNCHANGED <<alive, gen, notices, fault>>
        /\ app'.bound = app.bound /\ app'.at = app.at /\ app.at # "created"
    BY <1>6, StateChangedFields, DisconnectedFields DEF StateChanged, Disconnected, Forgotten
  <2>2. Attached' => Attached /\ Head(inbox).kind # "disconnected"
    BY <1>6, <2>1, StateChangedFields, DisconnectedFields
       DEF StateChanged, Disconnected, Forgotten, Attached
  <2>3. Covered => Covered'
    BY <2>1 DEF Covered, Reported
  <2>4. QED
    BY <1>0, <2>1, <2>2, <2>3, HooksTaken DEF Hooked, Unbound
<1>7. CASE BinderDied
  <2>1. /\ UNCHANGED <<alive, gen, fault>> /\ app'.callbackRegistered = FALSE
        /\ app'.bound = app.bound /\ app'.at = app.at
    BY <1>7, BinderDiedFields DEF BinderDied
  <2>2. app.at # "created"
    BY <1>0, <1>7 DEF BinderDied, Unbound
  <2>3. Attached' => Attached
    BY <2>1 DEF Attached
  <2>4. Covered => Covered'
    BY <1>7, <2>1 DEF Covered, Reported, BinderDied
  <2>5. Ended' /\ Apart'
    <3>1. CASE inbox' = inbox
      BY <1>0, <2>3, <2>4, <3>1, HooksKept
    <3>2. CASE inbox' = Append(inbox, [kind |-> "died"])
      <4>1. [kind |-> "died"].kind = "died" /\ [kind |-> "died"] \in Messages
        BY Sendable
      <4>2. QED
        BY <1>0, <2>3, <2>4, <3>2, <4>1, HooksPut
    <3>3. QED
      BY <1>7, <3>1, <3>2 DEF BinderDied
  <2>6. QED
    BY <1>0, <2>1, <2>2, <2>5 DEF Hooked, Unbound
<1>8. CASE OnBinderDied \/ Destroy
  <2>1. /\ app'.callbackRegistered = FALSE /\ app'.at \in {"idle", "destroyed"}
        /\ UNCHANGED fault
    BY <1>8, OnBinderDiedFields, DestroyFields DEF OnBinderDied, Destroy
  <2>2. Attached' = FALSE
    BY <2>1 DEF Attached
  <2>3. \A i \in 1..Len(inbox') : inbox'[i].kind # "connected"
    <3>1. inbox \in Seq(Messages) /\ (inbox # <<>> => Tail(inbox) \in Seq(Messages))
      BY DEF Typed
    <3>2. CASE OnBinderDied
      BY <3>1, <3>2, ForgetEffect DEF OnBinderDied
    <3>3. CASE Destroy
      BY <3>1, <3>3, ForgetEffect DEF Destroy
    <3>4. QED
      BY <1>8, <3>2, <3>3
  <2>4. QED
    BY <1>0, <2>1, <2>2, <2>3, HooksGone DEF Hooked, Unbound, Typed
<1>9. CASE Bind
  <2>1. app.active = TRUE /\ app'.at = app.at /\ fault' = fault
    BY <1>9, BindFields DEF Bind, Typed, Connections
  <2>2. app.at # "created"
    BY <1>0, <2>1 DEF Unbound
  <2>3. QED
    BY <1>0, <1>9, <2>1, <2>2, HooksBind DEF Hooked, Unbound
<1>10. CASE Crash
  <2>1. UNCHANGED <<app, inbox, fault, gen>> /\ notices \subseteq notices'
    BY <1>10 DEF Crash
  <2>2. gen \in 0..MaxGen /\ gen # None
    BY DEF Typed, TypeOK
  <2>3. app.bound = gen => Reported'
    BY <1>10, <2>2 DEF Crash, Reported
  <2>4. Covered => Covered'
    BY <2>1, <2>3 DEF Covered, Reported
  <2>5. Attached' = Attached
    BY <2>1 DEF Attached
  <2>6. Unbound'
    BY <1>0, <1>10, <2>1, <2>2 DEF Unbound, Crash
  <2>7. QED
    BY <1>0, <2>1, <2>4, <2>5, <2>6, HooksKept DEF Hooked
<1>11. CASE PostDisconnected
  <2>1. /\ UNCHANGED <<app, fault>> /\ inbox' = Append(inbox, [kind |-> "disconnected"])
        /\ notices # {}
    BY <1>11 DEF PostDisconnected
  <2>2. [kind |-> "disconnected"].kind = "disconnected" /\ [kind |-> "disconnected"] \in Messages
    BY Sendable
  <2>3. Attached' = Attached
    BY <2>1 DEF Attached
  <2>4. Ended' /\ Apart'
    BY <1>0, <2>1, <2>2, <2>3, HooksPut
  <2>5. QED
    BY <1>0, <2>1, <2>4 DEF Hooked, Unbound
<1>12. CASE Restart
  <2>1. UNCHANGED <<app, inbox, notices, fault>> /\ ~alive
    BY <1>12 DEF Restart
  <2>2. Attached' = Attached /\ (Covered => Covered')
    BY <2>1 DEF Attached, Covered, Reported
  <2>3. QED
    BY <1>0, <2>1, <2>2, HooksKept DEF Hooked, Unbound
<1>13. CASE AppDies
  <2>1. /\ app'.callbackRegistered = FALSE /\ app'.at \in {"dead", "midcall"}
        /\ inbox' = <<>> /\ fault' = fault
    BY <1>13, AppDiesFields DEF AppDies
  <2>2. Attached' = FALSE
    BY <2>1 DEF Attached
  <2>3. inbox' \in Seq(Messages) /\ \A i \in 1..Len(inbox') : inbox'[i].kind # "connected"
    BY <2>1
  <2>4. Ended' /\ Apart'
    BY <2>2, <2>3, HooksGone
  <2>5. QED
    BY <1>0, <2>1, <2>4 DEF Hooked, Unbound
<1>16. CASE Straggle
  <2>1. /\ UNCHANGED <<alive, gen, inbox, notices, fault>> /\ app'.at = "dead"
        /\ UNCHANGED <<app.callbackRegistered, app.bound>>
    BY <1>16, StraggleFields DEF Straggle
  <2>2. (Attached' => Attached) /\ (Covered => Covered')
    BY <2>1 DEF Attached, Covered, Reported
  <2>3. QED
    BY <1>0, <2>1, <2>2, HooksKept DEF Hooked, Unbound
<1>14. CASE OnCallbackDied \/ UNCHANGED vars
  <2>1. UNCHANGED <<app, inbox, notices, fault, alive, gen>>
    BY <1>14 DEF vars, OnCallbackDied
  <2>2. Attached' = Attached /\ Covered' = Covered
    BY <2>1 DEF Attached, Covered, Reported
  <2>3. QED
    BY <1>0, <2>1, <2>2, HooksKept DEF Hooked, Unbound
<1>15. QED
  BY <1>1, <1>2, <1>3, <1>4, <1>5, <1>6, <1>7, <1>8, <1>9, <1>10, <1>11, <1>12, <1>13, <1>14,
     <1>16 DEF Next

\* It is so at the start.
LEMMA InitHooked == Init => Typed /\ Hooked
<1> SUFFICES ASSUME Init PROVE Typed /\ Hooked
  OBVIOUS
<1>1. /\ app.at = "created" /\ app.callbackRegistered = FALSE /\ app.active = FALSE
      /\ app.callback = FALSE /\ app.bound = None /\ app.linked = None
  BY DEF Init
<1>2. app \in Connections
  BY DEF Init, Connections, Places
<1>3. /\ inbox \in Seq(Messages) /\ posted \in Seq({"start", "stop"})
      /\ oneway \in Seq({"stop", "unregister"})
  BY DEF Init
<1>4. Typed
  <2>1. TypeOK
    <3>1. looper = FALSE /\ listeners = {} /\ gen = 0 /\ 0 \in 0..MaxGen
      BY BindingAssumption DEF Init
    <3>2. /\ alive \in BOOLEAN /\ state = "Stopped" /\ change = None /\ registered = {}
          /\ note = "absent" /\ notices = {} /\ slip = {}
      BY DEF Init
    <3>3. looper = (listeners # {})
      BY <3>1
    <3>4. QED
      BY <3>1, <3>2, <3>3 DEF TypeOK
  <2>2. QED
    BY <1>2, <1>3, <2>1 DEF Init, Typed
<1>5. Len(inbox) = 0 /\ inbox = <<>>
  BY DEF Init
<1>6. Ended /\ Apart
  BY <1>1, <1>5 DEF Ended, Apart, Hook, Attached
<1>7. QED
  BY <1>1, <1>4, <1>6 DEF Init, Hooked, Unbound

\* Theorem: neither check of the code fails, whatever the order in which
\* onServiceDisconnected, binderDied and the next onServiceConnected come and
\* however often :bg is started again.
THEOREM ChecksFollow == Spec => []ChecksHold
<1>1. Init => Typed /\ Hooked
  BY InitHooked
<1>2. Typed /\ Hooked /\ [Next]_vars => (Typed /\ Hooked)'
  BY TypedStep, HookedStep
<1>3. Typed /\ Hooked => ChecksHold
  BY DEF Typed, Hooked, ChecksHold
<1>4. QED
  BY <1>1, <1>2, <1>3, PTL DEF Spec

-----------------------------------------------------------------------------
(***************************************************************************)
(* What the activity knows of the service.                                 *)
(*                                                                         *)
(* Seen from a run of :bg that is alive, the connection is in one of four  *)
(* phases: it is to some other run or none (Away), onServiceConnected is   *)
(* on its way and nothing of interest behind it (Coming), it has begun     *)
(* (Joining), or the callback is registered (Joined).  In the last one the *)
(* last state in the inbox is the state that was last broadcast (Heard),   *)
(* and the queues end with what bandwidthTimeout was set to (Wanted).      *)
(***************************************************************************)
Arriving(i) == inbox[i].kind = "connected" /\ inbox[i].gen = gen
Calm(i) ==
    \A j \in 1..Len(inbox) : i < j => inbox[j].kind \notin {"state", "connected", "disconnected"}
Expecting ==
    \E i \in 1..Len(inbox) :
        Arriving(i) /\ Calm(i) /\ \A j \in 1..Len(inbox) : j < i => ~Arriving(j)

Fresh == "app" \notin registered /\ "app" \notin listeners /\ posted = <<>> /\ oneway = <<>>

Away ==
    /\ Fresh /\ app.bound # gen /\ app.binder # gen /\ app.service # gen
    /\ \A i \in 1..Len(inbox) : ~Arriving(i)

Coming == Fresh /\ app.bound = gen /\ app.binder # gen /\ app.service # gen /\ Expecting

Joining ==
    /\ Fresh /\ app.bound = gen /\ app.binder = gen /\ app.service = gen
    /\ app.at = "register" /\ Calm(0)

Target == IF change # None THEN change ELSE state
LastState(i) ==
    inbox[i].kind = "state" /\ \A j \in 1..Len(inbox) : i < j => inbox[j].kind # "state"

Heard ==
    /\ \A i \in 1..Len(inbox) : LastState(i) => inbox[i].state = Target
    /\ app.at = "idle" /\ "between" \notin slip
          /\ (\A j \in 1..Len(inbox) : inbox[j].kind # "state") => app.vpnState = Target

Listening ==
    /\ oneway = <<>>
    /\ IF posted = <<>> THEN "app" \in listeners ELSE posted[Len(posted)] = "start"

Wanted ==
    /\ app.at = "mark" => ~Listening
    /\ app.at = "listen" => app.bandwidth
    /\ app.at \in {"read", "idle"} /\ "overtaken" \notin slip => (app.bandwidth <=> Listening)
    /\ \A i \in 1..Len(oneway) : oneway[i] # "unregister"

Joined ==
    /\ "app" \in registered
    /\ app.bound = gen /\ app.binder = gen /\ app.service = gen
    /\ app.at \in {"mark", "listen", "read", "idle"}
    /\ \A i \in 1..Len(inbox) : inbox[i].kind \notin {"connected", "disconnected"}
    /\ Heard /\ Wanted

Well == "late" \notin slip /\ app.at \notin {"destroyed", "dead", "midcall"}
Phase == IF alive THEN Away \/ Coming \/ Joining \/ Joined ELSE Fresh

Past ==
    /\ app.bound \in 0..gen \cup {None} /\ app.binder \in 0..gen \cup {None}
    /\ app.service \in 0..gen \cup {None}
    /\ \A i \in 1..Len(inbox) : inbox[i].kind = "connected" => inbox[i].gen \in 0..gen

Linked ==
    /\ app.active => app.callback
    /\ app.bound # None => app.callback
    /\ alive /\ app.bound = gen => ~Reported

\* A message is put into the inbox.
LEMMA PutFacts ==
  ASSUME Typed, NEW m \in Messages, inbox' = Append(inbox, m)
  PROVE  /\ Len(inbox) \in Nat /\ Len(inbox') = Len(inbox) + 1
         /\ \A i \in 1..Len(inbox) : i \in 1..Len(inbox') /\ inbox'[i] = inbox[i]
         /\ Len(inbox') \in 1..Len(inbox') /\ inbox'[Len(inbox')] = m
         /\ \A i \in 1..Len(inbox') : i \in 1..Len(inbox) \/ i = Len(inbox')
BY DEF Typed

\* The first message is taken.
LEMMA TakenFacts ==
  ASSUME Typed, inbox # <<>>, inbox' = Tail(inbox)
  PROVE  /\ Len(inbox) \in Nat /\ Len(inbox) > 0 /\ Len(inbox') = Len(inbox) - 1
         /\ \A i \in 1..Len(inbox') : i + 1 \in 1..Len(inbox) /\ inbox'[i] = inbox[i + 1]
         /\ \A i \in 1..Len(inbox) : i > 1 => i - 1 \in 1..Len(inbox') /\ inbox'[i - 1] = inbox[i]
         /\ Head(inbox) = inbox[1] /\ 1 \in 1..Len(inbox)
<1>1. /\ Len(inbox) \in Nat /\ Len(inbox) > 0 /\ Len(inbox') = Len(inbox) - 1
      /\ \A i \in 1..Len(inbox') : inbox'[i] = inbox[i + 1]
      /\ Head(inbox) = inbox[1]
  BY DEF Typed
<1>2. ASSUME NEW i \in 1..Len(inbox), i > 1
      PROVE  i - 1 \in 1..Len(inbox') /\ inbox'[i - 1] = inbox[i]
  <2>1. i - 1 \in 1..Len(inbox') /\ (i - 1) + 1 = i
    BY <1>1, <1>2
  <2>2. QED
    BY <1>1, <2>1
<1>3. QED
  BY <1>1, <1>2

\* onServiceConnected stays on its way.
LEMMA ExpectingPut ==
  ASSUME Typed, NEW m \in Messages, inbox' = Append(inbox, m), gen' = gen, Expecting,
         m.kind \notin {"state", "connected", "disconnected"}
  PROVE  Expecting'
<1>1. PICK i \in 1..Len(inbox) :
        Arriving(i) /\ Calm(i) /\ \A j \in 1..Len(inbox) : j < i => ~Arriving(j)
  BY DEF Expecting
<1>2. i \in 1..Len(inbox') /\ Arriving(i)'
  BY <1>1, PutFacts DEF Arriving
<1>3. Calm(i)'
  BY <1>1, PutFacts DEF Calm
<1>4. \A j \in 1..Len(inbox') : j < i => ~Arriving(j)'
  BY <1>1, PutFacts DEF Arriving
<1>5. QED
  BY <1>2, <1>3, <1>4 DEF Expecting

\* ... and does not lose it with another message that is taken.
LEMMA ExpectingTaken ==
  ASSUME Typed, inbox # <<>>, inbox' = Tail(inbox), gen' = gen, Expecting, ~Arriving(1)
  PROVE  Expecting'
<1>1. PICK i \in 1..Len(inbox) :
        Arriving(i) /\ Calm(i) /\ \A j \in 1..Len(inbox) : j < i => ~Arriving(j)
  BY DEF Expecting
<1>2. i > 1 /\ i - 1 \in 1..Len(inbox') /\ inbox'[i - 1] = inbox[i]
  BY <1>1, TakenFacts
<1>3. Arriving(i - 1)'
  BY <1>1, <1>2 DEF Arriving
<1>4. Calm(i - 1)'
  <2> SUFFICES ASSUME NEW j \in 1..Len(inbox'), i - 1 < j
               PROVE  inbox'[j].kind \notin {"state", "connected", "disconnected"}
    BY DEF Calm
  <2>1. j + 1 \in 1..Len(inbox) /\ i < j + 1 /\ inbox'[j] = inbox[j + 1]
    BY TakenFacts
  <2>2. QED
    BY <1>1, <2>1 DEF Calm
<1>5. ASSUME NEW j \in 1..Len(inbox'), j < i - 1
      PROVE  ~Arriving(j)'
  <2>1. j + 1 \in 1..Len(inbox) /\ j + 1 < i /\ inbox'[j] = inbox[j + 1]
    BY <1>5, TakenFacts
  <2>2. QED
    BY <1>1, <2>1 DEF Arriving
<1>6. QED
  BY <1>2, <1>3, <1>4, <1>5 DEF Expecting

\* A state that is broadcast is the last one in the inbox.
LEMMA HeardPut ==
  ASSUME Typed, NEW s \in States, inbox' = Append(inbox, [kind |-> "state", state |-> s]),
         Target' = s
  PROVE  Heard'
<1> DEFINE m == [kind |-> "state", state |-> s]
<1>1. m \in Messages /\ m.kind = "state" /\ m.state = s /\ inbox' = Append(inbox, m)
  BY Sendable
<1> HIDE DEF m
<1>2. /\ Len(inbox') \in 1..Len(inbox') /\ inbox'[Len(inbox')] = m
      /\ \A i \in 1..Len(inbox') : i \in 1..Len(inbox) \/ i = Len(inbox')
      /\ Len(inbox) \in Nat /\ Len(inbox') = Len(inbox) + 1
  BY <1>1, PutFacts
<1>3. ASSUME NEW i \in 1..Len(inbox'), LastState(i)'
      PROVE  inbox'[i].state = s
  <2>1. ~(i < Len(inbox'))
    BY <1>1, <1>2, <1>3 DEF LastState
  <2>2. i = Len(inbox')
    BY <1>2, <2>1
  <2>3. QED
    BY <1>1, <1>2, <2>2
<1>4. QED
  BY <1>1, <1>2, <1>3 DEF Heard

\* What is done with the listeners of :bg keeps the listener of the app, but
\* for what was posted.
LEMMA NoteOnly ==
  ASSUME NEW to, UpdateCallback(to)
  PROVE  /\ "app" \in listeners' <=> "app" \in listeners
         /\ "app" \in registered' <=> "app" \in registered
BY DEF UpdateCallback, StartListening, StopListening

\* The queue of the main thread of :bg.
LEMMA PostedFacts ==
  ASSUME Typed
  PROVE  /\ posted # <<>> =>
               /\ Head(posted) \in {"start", "stop"}
               /\ Tail(posted) = <<>> => posted[Len(posted)] = Head(posted)
               /\ Tail(posted) # <<>> => Tail(posted)[Len(Tail(posted))] = posted[Len(posted)]
         /\ \A c \in {"start", "stop"} :
               Append(posted, c) # <<>> /\ Append(posted, c)[Len(Append(posted, c))] = c
<1> DEFINE S == {"start", "stop"}
<1>1. posted \in Seq(S)
  BY DEF Typed
<1> HIDE DEF S
<1>2. ASSUME posted # <<>>
      PROVE  /\ Head(posted) \in S
             /\ Tail(posted) = <<>> => posted[Len(posted)] = Head(posted)
             /\ Tail(posted) # <<>> => Tail(posted)[Len(Tail(posted))] = posted[Len(posted)]
  <2>1. /\ Len(posted) \in Nat /\ Len(posted) > 0 /\ Head(posted) = posted[1]
        /\ Head(posted) \in S /\ Tail(posted) \in Seq(S) /\ Len(Tail(posted)) = Len(posted) - 1
    BY <1>1, <1>2
  <2>2. ASSUME Tail(posted) = <<>>
        PROVE  posted[Len(posted)] = Head(posted)
    <3>1. Len(<<>>) = 0
      OBVIOUS
    <3>2. Len(Tail(posted)) = 0
      BY <2>2, <3>1, Zenon
    <3>3. Len(posted) - 1 = 0
      BY <2>1, <3>2, Zenon
    <3>4. Len(posted) = 1
      <4>1. \A n \in Nat : n - 1 = 0 => n = 1
        OBVIOUS
      <4>2. QED
        BY <2>1, <3>3, <4>1, Zenon
    <3>5. QED
      BY <2>1, <3>4
  <2>3. ASSUME Tail(posted) # <<>>
        PROVE  Tail(posted)[Len(Tail(posted))] = posted[Len(posted)]
    <3>1. Len(posted) - 1 \in 1..Len(Tail(posted))
      BY <2>1, <2>3
    <3>2. Tail(posted)[Len(posted) - 1] = posted[Len(posted)]
      BY <1>1, <1>2, <3>1
    <3>3. QED
      BY <2>1, <3>2
  <2>4. QED
    BY <2>1, <2>2, <2>3
<1>3. ASSUME NEW c \in S
      PROVE  Append(posted, c) # <<>> /\ Append(posted, c)[Len(Append(posted, c))] = c
  BY <1>1
<1>4. QED
  BY <1>2, <1>3 DEF S

\* The main thread of :bg does what the queues end with.
LEMMA RunPostedListening ==
  ASSUME Typed, RunPosted
  PROVE  Listening' = Listening
<1>1. posted # <<>> /\ posted' = Tail(posted) /\ oneway' = oneway
  BY DEF RunPosted
<1>2. /\ Tail(posted) = <<>> => posted[Len(posted)] = Head(posted)
      /\ Tail(posted) # <<>> => Tail(posted)[Len(Tail(posted))] = posted[Len(posted)]
  BY <1>1, PostedFacts
<1>3. /\ posted' = <<>> => posted[Len(posted)] = Head(posted)
      /\ posted' # <<>> => posted'[Len(posted')] = posted[Len(posted)]
  BY <1>1, <1>2, Zenon
<1>4. "app" \in listeners' <=> Head(posted) = "start"
  BY DEF RunPosted, StartListening, StopListening
<1>5. QED
  BY <1>1, <1>3, <1>4 DEF Listening

\* A oneway call that arrives was to be the last.
LEMMA OnewayListening ==
  ASSUME Typed, OnewayArrives
  PROVE  Listening' = FALSE /\ Listening = FALSE
<1>1. oneway # <<>> /\ posted' = Append(posted, "stop")
  BY DEF OnewayArrives
<1>2. /\ Append(posted, "stop") # <<>>
      /\ Append(posted, "stop")[Len(Append(posted, "stop"))] = "stop"
  BY PostedFacts
<1>3. posted' # <<>> /\ posted'[Len(posted')] = "stop"
  BY <1>1, <1>2, Zenon
<1>4. QED
  BY <1>1, <1>3 DEF Listening

\* What the steps on the main thread of :bg do to the phase.
LEMMA ServicePhase ==
  ASSUME Typed, Linked, Phase, alive,
         \/ RunPosted \/ Screen \/ Write \/ OnewayArrives
         \/ \E s \in States : Broadcast(s)
  PROVE  Phase'
<1>1. UNCHANGED <<alive, gen, app, slip>>
  BY DEF RunPosted, Screen, Write, OnewayArrives, Broadcast
<1>2. ASSUME Fresh PROVE Fresh' /\ inbox' = inbox
  <2>1. posted = <<>> /\ oneway = <<>> /\ "app" \notin registered /\ "app" \notin listeners
    BY <1>2 DEF Fresh
  <2>2. CASE Screen
    BY <2>1, <2>2, NoteOnly DEF Screen, Fresh
  <2>3. CASE Write
    BY <2>1, <2>3 DEF Write, Fresh
  <2>4. ASSUME NEW s \in States, Broadcast(s) PROVE Fresh' /\ inbox' = inbox
    <3>1. UNCHANGED <<posted, oneway>> /\ inbox' = inbox
      BY <2>1, <2>4 DEF Broadcast
    <3>2. \/ \E to : UpdateCallback(to)
          \/ UNCHANGED <<registered, listeners>>
      BY <2>4 DEF Broadcast, States
    <3>3. QED
      BY <2>1, <3>1, <3>2, NoteOnly DEF Fresh
  <2>5. QED
    BY <2>1, <2>2, <2>3, <2>4 DEF RunPosted, OnewayArrives
<1>3. CASE Away
  BY <1>1, <1>2, <1>3 DEF Phase, Away, Arriving
<1>4. CASE Coming
  <2>1. Fresh' /\ inbox' = inbox
    BY <1>2, <1>4 DEF Coming
  <2>2. Expecting'
    BY <1>1, <1>4, <2>1 DEF Coming, Expecting, Arriving, Calm
  <2>3. QED
    BY <1>1, <1>4, <2>1, <2>2 DEF Phase, Coming
<1>5. CASE Joining
  BY <1>1, <1>2, <1>5 DEF Phase, Joining, Calm
<1>6. CASE Joined
  <2> DEFINE Place == /\ app.bound = gen /\ app.binder = gen /\ app.service = gen
                      /\ app.at \in {"mark", "listen", "read", "idle"}
  <2>1. /\ "app" \in registered /\ Place
        /\ \A i \in 1..Len(inbox) : inbox[i].kind \notin {"connected", "disconnected"}
        /\ Heard /\ Wanted
    BY <1>6 DEF Joined
  <2>2. ASSUME "app" \in registered',
               \A i \in 1..Len(inbox') : inbox'[i].kind \notin {"connected", "disconnected"},
               Heard', Wanted'
        PROVE  Phase'
    BY <1>1, <2>1, <2>2 DEF Phase, Joined
  <2>3. CASE RunPosted
    <3>1. UNCHANGED <<state, change, registered, oneway, inbox>>
      BY <2>3 DEF RunPosted
    <3>2. Heard'
      BY <1>1, <2>1, <3>1 DEF Heard, LastState, Target
    <3>3. Wanted'
      BY <1>1, <2>1, <2>3, <3>1, RunPostedListening DEF Wanted
    <3>4. QED
      BY <2>1, <2>2, <3>1, <3>2, <3>3
  <2>4. CASE Screen
    <3>1. UNCHANGED <<state, change, posted, oneway, inbox>>
      BY <2>4 DEF Screen
    <3>2. /\ "app" \in listeners' <=> "app" \in listeners
          /\ "app" \in registered'
      BY <2>1, <2>4, NoteOnly DEF Screen
    <3>3. Heard'
      BY <1>1, <2>1, <3>1 DEF Heard, LastState, Target
    <3>4. Listening' = Listening
      BY <3>1, <3>2 DEF Listening
    <3>5. Wanted'
      BY <1>1, <2>1, <3>1, <3>4 DEF Wanted
    <3>6. QED
      BY <2>1, <2>2, <3>1, <3>2, <3>3, <3>5
  <2>5. CASE Write
    <3>1. UNCHANGED <<registered, listeners, posted, oneway, inbox>> /\ change # None
          /\ state' = change /\ change' = None
      BY <2>5 DEF Write
    <3>2. Target' = Target
      BY <3>1 DEF Target
    <3>3. Heard'
      BY <1>1, <2>1, <3>1, <3>2 DEF Heard, LastState
    <3>4. Wanted'
      BY <1>1, <2>1, <3>1 DEF Wanted, Listening
    <3>5. QED
      BY <2>1, <2>2, <3>1, <3>3, <3>4
  <2>6. CASE OnewayArrives
    <3>1. /\ UNCHANGED <<state, change, listeners, inbox>> /\ oneway # <<>>
          /\ oneway' = Tail(oneway) /\ oneway \in Seq({"stop", "unregister"})
      BY <2>6 DEF OnewayArrives, Typed
    <3>2. /\ Head(oneway) = oneway[1] /\ 1 \in 1..Len(oneway)
          /\ \A i \in 1..Len(Tail(oneway)) : i + 1 \in 1..Len(oneway) /\ Tail(oneway)[i] = oneway[i + 1]
      BY <3>1
    <3>3. Head(oneway) # "unregister"
      BY <2>1, <3>2 DEF Wanted
    <3>4. registered' = registered
      BY <2>6, <3>3 DEF OnewayArrives
    <3>5. Heard'
      BY <1>1, <2>1, <3>1 DEF Heard, LastState, Target
    <3>6. \A i \in 1..Len(oneway') : oneway'[i] # "unregister"
      BY <2>1, <3>1, <3>2 DEF Wanted
    <3>7. Wanted'
      BY <1>1, <2>1, <2>6, <3>6, OnewayListening DEF Wanted
    <3>8. QED
      BY <2>1, <2>2, <3>1, <3>4, <3>5, <3>7
  <2>7. ASSUME NEW s \in States, Broadcast(s) PROVE Phase'
    <3>1. UNCHANGED <<state, posted, oneway>> /\ change' = s
      BY <2>7 DEF Broadcast
    <3>2. app.callback
      <4>1. app.bound # None
        BY <2>1, BindingAssumption DEF Typed, TypeOK
      <4>2. QED
        BY <4>1 DEF Linked
    <3>3. inbox' = Append(inbox, [kind |-> "state", state |-> s])
      BY <2>1, <2>7, <3>2 DEF Broadcast
    <3>4. \/ \E to : UpdateCallback(to)
          \/ UNCHANGED <<registered, listeners>>
      BY <2>7 DEF Broadcast, States
    <3>5. /\ "app" \in listeners' <=> "app" \in listeners
          /\ "app" \in registered'
      BY <2>1, <3>4, NoteOnly
    <3>6. s # None
      BY BindingAssumption DEF States
    <3>7. Heard'
      BY <3>1, <3>3, <3>6, HeardPut DEF Target
    <3>8. Wanted'
      BY <1>1, <2>1, <3>1, <3>5 DEF Wanted, Listening
    <3>9. \A i \in 1..Len(inbox') : inbox'[i].kind \notin {"connected", "disconnected"}
      <4>1. [kind |-> "state", state |-> s].kind = "state"
        OBVIOUS
      <4>2. QED
        BY <2>1, <3>3, <4>1, Sendable, PutFacts
    <3>10. QED
      BY <2>2, <3>5, <3>7, <3>8, <3>9
  <2>8. QED
    BY <2>3, <2>4, <2>5, <2>6, <2>7
<1>7. QED
  BY <1>3, <1>4, <1>5, <1>6 DEF Phase

\* A step that leaves :bg and the inbox alone, and the runs that the
\* connection is of, leaves the phases before it is joined.
LEMMA PhaseKept ==
  ASSUME Phase, ~(alive /\ (Joining \/ Joined)),
         UNCHANGED <<alive, gen, registered, listeners, posted, oneway, inbox>>,
         UNCHANGED <<app.bound, app.binder, app.service>>
  PROVE  Phase'
<1>1. Fresh => Fresh'
  BY DEF Fresh
<1>2. Expecting => Expecting'
  BY DEF Expecting, Arriving, Calm
<1>3. Away => Away'
  BY <1>1 DEF Away, Arriving
<1>4. Coming => Coming'
  BY <1>1, <1>2 DEF Coming
<1>5. QED
  BY <1>1, <1>3, <1>4 DEF Phase

\* onStart and onStop.
LEMMA SetBandwidthPhase ==
  ASSUME Typed, Phase, Well, SetBandwidth
  PROVE  Phase'
<1>1. /\ UNCHANGED <<alive, gen, state, change, registered, listeners, inbox>> /\ app.at = "idle"
      /\ "between" \in slip' <=> "between" \in slip
  BY DEF SetBandwidth
<1>2. /\ app'.bandwidth = ~app.bandwidth
      /\ UNCHANGED <<app.at, app.vpnState, app.bound, app.binder, app.service>>
  BY SetBandwidthFields
<1>3. ~Joining
  BY <1>1 DEF Joining
<1>4. CASE alive /\ Joined
  <2>1. Reaches(app.service) /\ Heard /\ Wanted
    BY <1>4 DEF Joined, Reaches
  <2>2. Heard'
    BY <1>1, <1>2, <2>1 DEF Heard, LastState, Target
  <2>3. CASE app.bandwidth
    <3>1. oneway' = oneway \o <<"stop">> /\ posted' = posted /\ oneway \in Seq({"stop", "unregister"})
      BY <2>1, <2>3 DEF SetBandwidth, Sent, Typed
    <3>2. /\ Len(oneway') = Len(oneway) + 1 /\ Len(oneway) \in Nat
          /\ \A i \in 1..Len(oneway) : oneway'[i] = oneway[i]
          /\ oneway'[Len(oneway) + 1] = "stop"
      BY <3>1
    <3>3. oneway' # <<>> /\ \A i \in 1..Len(oneway') : oneway'[i] # "unregister"
      BY <2>1, <3>2 DEF Wanted
    <3>4. Wanted'
      BY <1>1, <1>2, <2>3, <3>3 DEF Wanted, Listening
    <3>5. QED
      BY <1>1, <1>2, <1>4, <2>2, <3>4 DEF Phase, Joined
  <2>4. CASE ~app.bandwidth
    <3>1. /\ posted' = Append(posted, "start") /\ oneway' = oneway
          /\ "overtaken" \notin slip' => oneway = <<>>
      BY <2>1, <2>4 DEF SetBandwidth
    <3>2. /\ Append(posted, "start") # <<>>
          /\ Append(posted, "start")[Len(Append(posted, "start"))] = "start"
      BY PostedFacts
    <3>3. posted' # <<>> /\ posted'[Len(posted')] = "start"
      BY <3>1, <3>2, Zenon
    <3>4. Wanted'
      BY <1>1, <1>2, <2>1, <2>4, <3>1, <3>3 DEF Wanted, Listening
    <3>5. QED
      BY <1>1, <1>2, <1>4, <2>2, <3>4 DEF Phase, Joined
  <2>5. QED
    BY <2>3, <2>4
<1>5. CASE ~(alive /\ Joined)
  <2>1. ~Reaches(app.service)
    BY <1>3, <1>5 DEF Phase, Away, Coming, Reaches
  <2>2. UNCHANGED <<posted, oneway>>
    BY <2>1 DEF SetBandwidth, Sent
  <2>3. QED
    BY <1>1, <1>2, <1>3, <1>5, <2>2, PhaseKept
<1>6. QED
  BY <1>4, <1>5

\* onServiceConnected.
LEMMA ConnectedPhase ==
  ASSUME Typed, Phase, Well, Connected
  PROVE  Phase'
<1>1. /\ UNCHANGED <<alive, gen, registered, listeners, posted, oneway, slip>> /\ app.at = "idle"
      /\ inbox # <<>> /\ inbox' = Tail(inbox) /\ Head(inbox).kind = "connected"
  BY DEF Connected, service
<1>2. /\ app'.binder = Head(inbox).gen /\ app'.service = Head(inbox).gen
      /\ app'.at = IF Reaches(Head(inbox).gen) THEN "register" ELSE "read"
      /\ app'.bound = app.bound
  BY ConnectedFields
<1>3. Head(inbox) = inbox[1] /\ 1 \in 1..Len(inbox)
  BY <1>1, TakenFacts
<1>4. Fresh => Fresh'
  BY <1>1 DEF Fresh
<1>5. CASE ~alive
  BY <1>1, <1>4, <1>5 DEF Phase
<1>6. CASE alive /\ Away
  <2>1. app'.binder # gen /\ app'.service # gen
    BY <1>1, <1>2, <1>3, <1>6 DEF Away, Arriving
  <2>2. \A i \in 1..Len(inbox') : ~Arriving(i)'
    BY <1>1, <1>6, TakenFacts DEF Away, Arriving
  <2>3. QED
    BY <1>1, <1>2, <1>4, <1>6, <2>1, <2>2 DEF Phase, Away
<1>7. CASE alive /\ Coming /\ ~Arriving(1)
  <2>1. app'.binder # gen /\ app'.service # gen
    BY <1>1, <1>2, <1>3, <1>7 DEF Arriving
  <2>2. Expecting'
    BY <1>1, <1>7, ExpectingTaken DEF Coming
  <2>3. QED
    BY <1>1, <1>2, <1>4, <1>7, <2>1, <2>2 DEF Phase, Coming
<1>8. CASE alive /\ Coming /\ Arriving(1)
  <2>1. app'.binder = gen /\ app'.service = gen /\ app'.at = "register" /\ app'.bound = gen
    BY <1>2, <1>3, <1>8 DEF Arriving, Reaches, Coming
  <2>2. PICK i \in 1..Len(inbox) :
          Arriving(i) /\ Calm(i) /\ \A j \in 1..Len(inbox) : j < i => ~Arriving(j)
    BY <1>8 DEF Coming, Expecting
  <2>3. Len(inbox) \in Nat
    BY DEF Typed
  <2>4. i = 1
    BY <1>3, <1>8, <2>2, <2>3
  <2>5. Calm(0)'
    <3> SUFFICES ASSUME NEW j \in 1..Len(inbox')
                 PROVE  inbox'[j].kind \notin {"state", "connected", "disconnected"}
      BY DEF Calm
    <3>1. j + 1 \in 1..Len(inbox) /\ 1 < j + 1 /\ inbox'[j] = inbox[j + 1]
      BY <1>1, TakenFacts
    <3>2. QED
      BY <2>2, <2>4, <3>1 DEF Calm
  <2>6. QED
    BY <1>1, <1>4, <1>8, <2>1, <2>5 DEF Phase, Joining, Coming
<1>9. CASE Joining \/ Joined
  BY <1>1, <1>3, <1>9 DEF Joining, Joined
<1>10. QED
  BY <1>5, <1>6, <1>7, <1>8, <1>9 DEF Phase

\* registerCallback: from now on every state that is broadcast is heard.
LEMMA RegisterPhase ==
  ASSUME Typed, Phase, Well, Register
  PROVE  Phase'
<1>1. /\ UNCHANGED <<alive, gen, state, change, listeners, posted, oneway, inbox, slip>>
      /\ app.at = "register"
  BY DEF Register
<1>2. /\ UNCHANGED <<app.bound, app.binder, app.service, app.bandwidth>>
      /\ app'.at = IF Reaches(app.binder) THEN "mark" ELSE "read"
  BY RegisterFields
<1>3. ~Joined
  BY <1>1 DEF Joined
<1>4. CASE alive /\ Joining
  <2>1. Reaches(app.binder) /\ Fresh /\ Calm(0)
    BY <1>4 DEF Joining, Reaches
  <2>2. "app" \in registered'
    BY <2>1 DEF Register
  <2>3. \A i \in 1..Len(inbox) : inbox[i].kind \notin {"state", "connected", "disconnected"}
    BY <2>1 DEF Calm, Typed
  <2>4. Heard'
    BY <1>1, <1>2, <2>3 DEF Heard, LastState
  <2>5. Listening' = FALSE /\ oneway' = <<>>
    BY <1>1, <2>1 DEF Listening, Fresh
  <2>6. Wanted'
    BY <1>2, <2>1, <2>5 DEF Wanted
  <2>7. QED
    BY <1>1, <1>2, <1>4, <2>2, <2>3, <2>4, <2>6 DEF Phase, Joining, Joined
<1>5. CASE ~(alive /\ Joining)
  <2>1. ~Reaches(app.binder)
    BY <1>3, <1>5 DEF Phase, Away, Coming, Reaches
  <2>2. registered' = registered
    BY <2>1 DEF Register
  <2>3. QED
    BY <1>1, <1>2, <1>3, <1>5, <2>2, PhaseKept
<1>6. QED
  BY <1>4, <1>5

\* It is noted.
LEMMA MarkPhase ==
  ASSUME Typed, Phase, Well, Mark
  PROVE  Phase'
<1>1. /\ UNCHANGED <<alive, gen, state, change, registered, listeners, posted, oneway, inbox, slip>>
      /\ app.at = "mark"
  BY DEF Mark, service
<1>2. /\ app'.at = IF app.bandwidth THEN "listen" ELSE "read"
      /\ UNCHANGED <<app.bound, app.binder, app.service, app.bandwidth>>
  BY MarkFields
<1>3. ~Joining
  BY <1>1 DEF Joining
<1>4. CASE alive /\ Joined
  <2>1. Heard /\ Wanted
    BY <1>4 DEF Joined
  <2>2. Heard'
    BY <1>1, <1>2, <2>1 DEF Heard, LastState, Target
  <2>3. ~Listening /\ Listening' = Listening
    BY <1>1, <2>1 DEF Wanted, Listening
  <2>4. Wanted'
    BY <1>1, <1>2, <2>1, <2>3 DEF Wanted
  <2>5. QED
    BY <1>1, <1>2, <1>4, <2>2, <2>4 DEF Phase, Joined
<1>5. CASE ~(alive /\ Joined)
  BY <1>1, <1>2, <1>3, <1>5, PhaseKept
<1>6. QED
  BY <1>4, <1>5

\* startListeningForBandwidth in onServiceConnected.
LEMMA ListenPhase ==
  ASSUME Typed, Phase, Well, Listen
  PROVE  Phase'
<1>1. /\ UNCHANGED <<alive, gen, state, change, registered, listeners, oneway, inbox>>
      /\ app.at = "listen"
  BY DEF Listen
<1>2. app'.at = "read" /\ UNCHANGED <<app.bound, app.binder, app.service, app.bandwidth>>
  BY ListenFields
<1>3. ~Joining
  BY <1>1 DEF Joining
<1>4. CASE alive /\ Joined
  <2>1. Reaches(app.binder) /\ Heard /\ Wanted
    BY <1>4 DEF Joined, Reaches
  <2>2. Heard'
    BY <1>1, <1>2, <2>1 DEF Heard, LastState, Target
  <2>3. posted' = Append(posted, "start") /\ ("overtaken" \notin slip' => oneway = <<>>)
    BY <2>1 DEF Listen
  <2>4. /\ Append(posted, "start") # <<>>
        /\ Append(posted, "start")[Len(Append(posted, "start"))] = "start"
    BY PostedFacts
  <2>5. posted' # <<>> /\ posted'[Len(posted')] = "start"
    BY <2>3, <2>4, Zenon
  <2>6. Wanted'
    BY <1>1, <1>2, <2>1, <2>3, <2>5 DEF Wanted, Listening
  <2>7. QED
    BY <1>1, <1>2, <1>4, <2>2, <2>6 DEF Phase, Joined
<1>5. CASE ~(alive /\ Joined)
  <2>1. ~Reaches(app.binder)
    BY <1>3, <1>5 DEF Phase, Away, Coming, Reaches
  <2>2. posted' = posted
    BY <2>1 DEF Listen
  <2>3. QED
    BY <1>1, <1>2, <1>3, <1>5, <2>2, PhaseKept
<1>6. QED
  BY <1>4, <1>5

\* The activity reads the state.
LEMMA ReadPhase ==
  ASSUME Typed, Phase, Well, Read
  PROVE  Phase'
<1>1. /\ UNCHANGED <<alive, gen, state, change, registered, listeners, posted, oneway, inbox>>
      /\ app.at = "read" /\ ("overtaken" \in slip' <=> "overtaken" \in slip)
      /\ change # None /\ (\A i \in 1..Len(inbox) : inbox[i].kind # "state") => "between" \in slip'
  BY DEF Read, service
<1>2. /\ app'.at = "idle" /\ UNCHANGED <<app.bound, app.binder, app.service, app.bandwidth>>
      /\ Reaches(app.binder) => app'.vpnState = state
  BY ReadFields
<1>3. ~Joining
  BY <1>1 DEF Joining
<1>4. CASE alive /\ Joined
  <2>1. app'.vpnState = state /\ Heard /\ Wanted
    BY <1>2, <1>4 DEF Joined, Reaches
  <2>2. Heard'
    BY <1>1, <1>2, <2>1 DEF Heard, LastState, Target
  <2>3. Wanted'
    BY <1>1, <1>2, <2>1 DEF Wanted, Listening
  <2>4. QED
    BY <1>1, <1>2, <1>4, <2>2, <2>3 DEF Phase, Joined
<1>5. CASE ~(alive /\ Joined)
  BY <1>1, <1>2, <1>3, <1>5, PhaseKept
<1>6. QED
  BY <1>4, <1>5

\* A message is taken that is neither a connection nor, once it is joined,
\* the end of one.
LEMMA TakenPhase ==
  ASSUME Typed, Phase, Well, app.at = "idle", StateChanged \/ Disconnected \/ Forgotten
  PROVE  Phase'
<1>1. /\ UNCHANGED <<alive, gen, state, change, registered, listeners, posted>>
      /\ inbox # <<>> /\ inbox' = Tail(inbox) /\ Head(inbox).kind # "connected"
      /\ slip' = IF StateChanged THEN slip \ {"between"} ELSE slip
  BY DEF StateChanged, Disconnected, Forgotten, service
<1>2. /\ UNCHANGED <<app.bound, app.at, app.bandwidth>>
      /\ \/ UNCHANGED <<app.binder, app.service>>
         \/ app'.binder = None /\ app'.service = None
  BY StateChangedFields, DisconnectedFields DEF Forgotten
<1>3. ~Arriving(1) /\ gen # None
  BY <1>1, TakenFacts, BindingAssumption DEF Arriving, Typed, TypeOK
<1>4. ASSUME Fresh, ~Reaches(app.service) PROVE Fresh'
  <2>1. oneway' = oneway
    BY <1>4 DEF StateChanged, Disconnected, Forgotten, service, Sent
  <2>2. QED
    BY <1>1, <1>4, <2>1 DEF Fresh
<1>5. CASE ~alive
  BY <1>1, <1>4, <1>5 DEF Phase, Reaches
<1>6. CASE alive /\ Away
  <2>1. ASSUME NEW i \in 1..Len(inbox') PROVE ~Arriving(i)'
    <3>1. i + 1 \in 1..Len(inbox) /\ inbox'[i] = inbox[i + 1] /\ gen' = gen
      BY <1>1, <2>1, TakenFacts
    <3>2. ~Arriving(i + 1)
      BY <1>6, <3>1 DEF Away
    <3>3. QED
      BY <3>1, <3>2 DEF Arriving
  <2>2. Fresh'
    BY <1>4, <1>6 DEF Away, Reaches
  <2>3. QED
    BY <1>1, <1>2, <1>3, <1>6, <2>1, <2>2 DEF Phase, Away
<1>7. CASE alive /\ Coming
  <2>1. Expecting'
    BY <1>1, <1>3, <1>7, ExpectingTaken DEF Coming
  <2>2. Fresh'
    BY <1>4, <1>7 DEF Coming, Reaches
  <2>3. QED
    BY <1>1, <1>2, <1>3, <1>7, <2>1, <2>2 DEF Phase, Coming
<1>8. CASE alive /\ Joined
  <2>1. \A i \in 1..Len(inbox) : inbox[i].kind \notin {"connected", "disconnected"}
    BY <1>8 DEF Joined
  <2>2. ~Disconnected
    BY <2>1, <1>1, TakenFacts DEF Disconnected
  <2>3. UNCHANGED <<oneway, app.binder, app.service>>
    BY <2>2, StateChangedFields DEF StateChanged, Forgotten, service
  <2>4. \A i \in 1..Len(inbox') : inbox'[i].kind \notin {"connected", "disconnected"}
    BY <1>1, <2>1, TakenFacts
  <2>5. Wanted'
    BY <1>1, <1>2, <1>8, <2>3 DEF Joined, Wanted, Listening
  <2>6. ASSUME NEW i \in 1..Len(inbox'), LastState(i)'
        PROVE  i + 1 \in 1..Len(inbox) /\ LastState(i + 1) /\ inbox'[i] = inbox[i + 1]
    <3>1. i + 1 \in 1..Len(inbox) /\ inbox'[i] = inbox[i + 1]
      BY <1>1, TakenFacts
    <3>2. ASSUME NEW j \in 1..Len(inbox), i + 1 < j
          PROVE  inbox[j].kind # "state"
      <4>1. j - 1 \in 1..Len(inbox') /\ inbox'[j - 1] = inbox[j] /\ i < j - 1
        BY <1>1, <3>2, TakenFacts
      <4>2. QED
        BY <2>6, <4>1 DEF LastState
    <3>3. QED
      BY <2>6, <3>1, <3>2 DEF LastState
  <2>7. Target' = Target
    BY <1>1 DEF Target
  <2>8. ASSUME \A j \in 1..Len(inbox') : inbox'[j].kind # "state", "between" \notin slip'
        PROVE  app'.vpnState = Target
    <3>1. ASSUME NEW j \in 1..Len(inbox), 1 < j
          PROVE  inbox[j].kind # "state"
      BY <1>1, <2>8, <3>1, TakenFacts
    <3>2. CASE StateChanged
      <4>1. inbox[1].kind = "state" /\ app'.vpnState = inbox[1].state /\ 1 \in 1..Len(inbox)
        BY <1>1, <3>2, TakenFacts, StateChangedFields DEF StateChanged
      <4>2. LastState(1)
        BY <3>1, <4>1 DEF LastState
      <4>3. QED
        BY <1>8, <4>1, <4>2 DEF Joined, Heard
    <3>3. CASE Forgotten
      <4>1. inbox[1].kind # "state" /\ app' = app /\ slip' = slip
        BY <1>1, <3>3, TakenFacts DEF Forgotten
      <4>2. \A j \in 1..Len(inbox) : inbox[j].kind # "state"
        <5>1. \A j \in 1..Len(inbox) : j = 1 \/ 1 < j
          BY <1>1, TakenFacts
        <5>2. QED
          BY <3>1, <4>1, <5>1
      <4>3. QED
        BY <1>8, <2>8, <4>1, <4>2 DEF Joined, Heard
    <3>4. QED
      BY <2>2, <3>2, <3>3
  <2>9. Heard'
    BY <1>8, <2>6, <2>7, <2>8 DEF Joined, Heard
  <2>10. QED
    BY <1>1, <1>2, <1>8, <2>3, <2>4, <2>5, <2>9 DEF Phase, Joined
<1>9. QED
  BY <1>5, <1>6, <1>7, <1>8 DEF Phase, Joining

\* binderDied, where it does not hit the service of the present run.
LEMMA BinderDiedPhase ==
  ASSUME Typed, Phase, Well, Well', BinderDied
  PROVE  Phase'
<1>1. /\ UNCHANGED <<alive, gen, registered, listeners, posted, oneway>>
      /\ inbox' = IF app.callback THEN Append(inbox, [kind |-> "died"]) ELSE inbox
      /\ slip' = LateSlip
  BY DEF BinderDied, service
<1>2. app'.service = None /\ UNCHANGED <<app.bound, app.binder>> /\ gen # None
  <2>1. gen # None
    BY BindingAssumption DEF Typed, TypeOK
  <2>2. QED
    BY <2>1, BinderDiedFields
<1>3. ~Reaches(app.service)
  BY <1>1 DEF LateSlip, Well
<1>4. Fresh => Fresh'
  BY <1>1 DEF Fresh
<1>5. [kind |-> "died"].kind = "died" /\ [kind |-> "died"] \in Messages
  BY Sendable
<1>6. Expecting => Expecting'
  <2>1. CASE app.callback
    BY <1>1, <1>5, <2>1, ExpectingPut
  <2>2. CASE ~app.callback
    BY <1>1, <2>2 DEF Expecting, Arriving, Calm
  <2>3. QED
    BY <2>1, <2>2
<1>7. Away => Away'
  <2>1. CASE app.callback
    <3>1. inbox' = Append(inbox, [kind |-> "died"])
      BY <1>1, <2>1
    <3>2. ASSUME Away, NEW i \in 1..Len(inbox')
          PROVE  ~Arriving(i)'
      BY <1>1, <1>5, <3>1, <3>2, PutFacts DEF Away, Arriving
    <3>3. QED
      BY <1>1, <1>2, <1>4, <3>2 DEF Away
  <2>2. CASE ~app.callback
    BY <1>1, <1>2, <1>4, <2>2 DEF Away, Arriving
  <2>3. QED
    BY <2>1, <2>2
<1>8. Coming => Coming'
  BY <1>1, <1>2, <1>4, <1>6 DEF Coming
<1>9. QED
  BY <1>1, <1>3, <1>4, <1>7, <1>8 DEF Phase, Joining, Joined, Reaches

\* onBinderDied, where it does not hit the service of the present run.
LEMMA OnBinderDiedPhase ==
  ASSUME Typed, Phase, Well, Well', OnBinderDied
  PROVE  Phase'
<1>1. /\ UNCHANGED <<alive, gen, registered, listeners, posted>> /\ inbox # <<>>
      /\ inbox' = Forget(Tail(inbox)) /\ slip' = LateSlip
      /\ oneway' = Sent(app, Unregister(app) \o <<"stop">>)
  BY DEF OnBinderDied
<1>2. app'.service = None /\ app'.bound = None /\ app'.binder = None /\ gen # None
  <2>1. gen # None
    BY BindingAssumption DEF Typed, TypeOK
  <2>2. QED
    BY <2>1, OnBinderDiedFields
<1>3. ~Reaches(app.service)
  BY <1>1 DEF LateSlip, Well
<1>4. oneway' = oneway
  BY <1>1, <1>3 DEF Sent
<1>5. Fresh
  BY <1>3 DEF Phase, Away, Coming, Joining, Joined, Reaches
<1>6. Fresh'
  BY <1>1, <1>4, <1>5 DEF Fresh
<1>7. \A i \in 1..Len(inbox') : ~Arriving(i)'
  <2>1. Tail(inbox) \in Seq(Messages)
    BY <1>1 DEF Typed
  <2>2. QED
    BY <1>1, <2>1, ForgetEffect DEF Arriving
<1>8. QED
  BY <1>1, <1>2, <1>6, <1>7 DEF Phase, Away

\* onCreate and bindService.
LEMMA BindPhase ==
  ASSUME Typed, Unbound, Phase, Well, Create \/ Bind
  PROVE  Phase'
<1>1. UNCHANGED <<alive, gen, registered, listeners, posted, oneway>> /\ gen \in Nat /\ gen # None
  BY BindingAssumption DEF Create, Bind, service, Typed, TypeOK
<1>2. Fresh => Fresh'
  BY <1>1 DEF Fresh
<1>3. CASE Create
  <2>1. app'.bound = None /\ UNCHANGED <<app.binder, app.service>> /\ inbox' = inbox /\ app.at = "created"
    BY <1>3, CreateFields DEF Create
  <2>2. app.bound = None
    BY <2>1 DEF Unbound
  <2>3. Away => Away'
    BY <1>1, <1>2, <2>1 DEF Away, Arriving
  <2>4. QED
    BY <1>1, <1>2, <2>2, <2>3 DEF Phase, Coming, Joining, Joined
<1>4. CASE Bind
  <2> DEFINE m == [kind |-> "connected", gen |-> gen]
  <2>1. /\ m \in Messages /\ m.kind = "connected" /\ m.gen = gen
    BY <1>1, Sendable
  <2>2. alive /\ app.bound # gen /\ inbox' = Append(inbox, m)
    BY <1>4 DEF Bind
  <2> HIDE DEF m
  <2>3. app'.bound = gen /\ UNCHANGED <<app.binder, app.service>>
    BY <1>4, BindFields
  <2>4. Away
    BY <2>2 DEF Phase, Coming, Joining, Joined
  <2>5. /\ Len(inbox') \in 1..Len(inbox') /\ inbox'[Len(inbox')].kind = "connected"
        /\ inbox'[Len(inbox')].gen = gen'
    BY <1>1, <2>1, <2>2, PutFacts
  <2>6. \A j \in 1..Len(inbox') : ~(Len(inbox') < j)
    BY <2>1, <2>2, PutFacts
  <2>7. ASSUME NEW j \in 1..Len(inbox'), j < Len(inbox')
        PROVE  ~Arriving(j)'
    <3>1. j \in 1..Len(inbox) /\ inbox'[j] = inbox[j]
      BY <2>1, <2>2, <2>7, PutFacts
    <3>2. QED
      BY <1>1, <2>4, <3>1 DEF Away, Arriving
  <2>8. Expecting'
    BY <2>5, <2>6, <2>7 DEF Expecting, Arriving, Calm
  <2>9. QED
    BY <1>1, <1>2, <2>2, <2>3, <2>4, <2>8 DEF Phase, Away, Coming
<1>5. QED
  BY <1>3, <1>4

\* :bg dies, its end is told, it is started again.
LEMMA SystemPhase ==
  ASSUME Typed, Past, Linked, Phase, Crash \/ PostDisconnected \/ Restart
  PROVE  Phase'
<1>1. gen \in Nat /\ gen # None /\ UNCHANGED app
  BY BindingAssumption DEF Typed, TypeOK, Crash, PostDisconnected, Restart
<1>2. CASE Crash
  <2>1. /\ ~alive' /\ registered' = {} /\ listeners' = {}
        /\ posted' = <<>> /\ oneway' = <<>>
    BY <1>2 DEF Crash
  <2>2. QED
    BY <2>1 DEF Phase, Fresh
<1>3. CASE PostDisconnected
  <2>1. /\ UNCHANGED <<alive, gen, registered, listeners, posted, oneway>> /\ Reported
        /\ inbox' = Append(inbox, [kind |-> "disconnected"])
    BY <1>3 DEF PostDisconnected, service, Reported
  <2>2. [kind |-> "disconnected"].kind = "disconnected" /\ [kind |-> "disconnected"] \in Messages
    BY Sendable
  <2>3. Fresh => Fresh'
    BY <2>1 DEF Fresh
  <2>4. CASE alive
    <3>1. Away
      BY <2>1, <2>4 DEF Linked, Phase, Coming, Joining, Joined
    <3>2. ASSUME NEW i \in 1..Len(inbox')
          PROVE  ~Arriving(i)'
      BY <2>1, <2>2, <3>1, PutFacts DEF Away, Arriving
    <3>3. QED
      BY <1>1, <2>1, <2>3, <2>4, <3>1, <3>2 DEF Phase, Away
  <2>5. QED
    BY <2>1, <2>3, <2>4 DEF Phase
<1>4. CASE Restart
  <2>1. /\ ~alive /\ alive' /\ gen' = gen + 1
        /\ UNCHANGED <<registered, listeners, posted, oneway, inbox>>
    BY <1>4 DEF Restart, service
  <2>2. gen' # None /\ gen' \notin 0..gen
    BY <1>1, <2>1, BindingAssumption
  <2>3. app.bound # gen' /\ app.binder # gen' /\ app.service # gen'
    BY <2>2 DEF Past
  <2>4. \A i \in 1..Len(inbox) : ~Arriving(i)'
    BY <2>1, <2>2 DEF Past, Arriving
  <2>5. Fresh'
    BY <2>1 DEF Phase, Fresh
  <2>6. QED
    BY <1>1, <2>1, <2>3, <2>4, <2>5 DEF Phase, Away
<1>5. QED
  BY <1>2, <1>3, <1>4

\* What was bound, and what is told, is of this run of :bg or of an earlier
\* one.
LEMMA PastStep ==
  ASSUME Typed, Past, Next
  PROVE  Past'
<1> DEFINE Runs == 0..gen \cup {None}
           Dated(q) == \A i \in 1..Len(q) : q[i].kind = "connected" => q[i].gen \in 0..gen
<1>1. gen \in Nat /\ gen \in 0..gen
  BY BindingAssumption DEF Typed, TypeOK
<1>2. Past' <=> /\ app'.bound \in 0..gen' \cup {None} /\ app'.binder \in 0..gen' \cup {None}
                /\ app'.service \in 0..gen' \cup {None}
                /\ \A i \in 1..Len(inbox') : inbox'[i].kind = "connected" => inbox'[i].gen \in 0..gen'
  BY DEF Past
<1>3. /\ app.bound \in Runs /\ app.binder \in Runs /\ app.service \in Runs /\ Dated(inbox)
  BY DEF Past
<1>4. None \in Runs /\ gen \in Runs
  BY <1>1
<1>5. SUFFICES ASSUME ~Restart
               PROVE  Past'
  <2>1. ASSUME Restart PROVE Past'
    <3>1. gen' = gen + 1 /\ UNCHANGED <<app, inbox>>
      BY <2>1 DEF Restart
    <3>2. 0..gen \subseteq 0..gen'
      BY <1>1, <3>1
    <3>3. QED
      BY <1>2, <3>1, <3>2 DEF Past
  <2>2. QED
    BY <1>5, <2>1
<1>6. gen' = gen
  BY <1>5 DEF Next, RunPosted, Screen, Write, OnewayArrives, Broadcast, Create, SetBandwidth,
              Connected, Register, Mark, Listen, Read, StateChanged, Disconnected, BinderDied,
              OnBinderDied, Forgotten, Destroy, Bind, Crash, PostDisconnected, AppDies,
              OnCallbackDied, Straggle
<1>7. SUFFICES /\ app'.bound \in Runs /\ app'.binder \in Runs /\ app'.service \in Runs
               /\ Dated(inbox')
  BY <1>2, <1>6
<1>8. ASSUME NEW m \in Messages, inbox' = Append(inbox, m), m.kind = "connected" => m.gen \in 0..gen
      PROVE  Dated(inbox')
  BY <1>3, <1>8, PutFacts
<1>9. ASSUME inbox # <<>>
      PROVE  Dated(Tail(inbox)) /\ Tail(inbox) \in Seq(Messages)
  BY <1>3, <1>9 DEF Typed
<1>10. ASSUME NEW q \in Seq(Messages)
       PROVE  Dated(Forget(q))
  BY ForgetEffect
<1>11. ASSUME UNCHANGED app
       PROVE  app'.bound \in Runs /\ app'.binder \in Runs /\ app'.service \in Runs
  BY <1>3, <1>11
<1> HIDE DEF Runs, Dated
<1>12. CASE RunPosted \/ Screen \/ Write \/ OnewayArrives \/ OnCallbackDied
  <2>1. UNCHANGED <<app, inbox>>
    BY <1>12 DEF RunPosted, Screen, Write, OnewayArrives, OnCallbackDied
  <2>2. QED
    BY <1>3, <1>11, <2>1
<1>13. CASE \E s \in {"Stopped", "Connecting", "Connected", "Stopping"} : Broadcast(s)
  <2>1. PICK s \in {"Stopped", "Connecting", "Connected", "Stopping"} : Broadcast(s)
    BY <1>13
  <2>2. app' = app /\ (inbox' = inbox \/ inbox' = Append(inbox, [kind |-> "state", state |-> s]))
    BY <2>1 DEF Broadcast
  <2>3. [kind |-> "state", state |-> s] \in Messages /\ [kind |-> "state", state |-> s].kind = "state"
    BY Sendable DEF States
  <2>4. Dated(inbox')
    BY <1>3, <1>8, <2>2, <2>3
  <2>5. QED
    BY <1>11, <2>2, <2>4
<1>14. CASE Create
  BY <1>3, <1>4, <1>14, CreateFields DEF Create
<1>15. CASE SetBandwidth
  <2>1. inbox' = inbox
    BY <1>15 DEF SetBandwidth
  <2>2. QED
    BY <1>3, <1>15, <2>1, SetBandwidthFields
<1>16. CASE Connected
  <2>1. inbox' = Tail(inbox) /\ inbox # <<>> /\ inbox[1].kind = "connected"
    BY <1>16 DEF Connected, Typed
  <2>2. inbox[1].gen \in 0..gen
    <3>1. 1 \in 1..Len(inbox)
      BY <2>1 DEF Typed
    <3>2. QED
      BY <1>3, <2>1, <3>1 DEF Dated
  <2>3. inbox[1].gen \in Runs
    BY <2>2 DEF Runs
  <2>4. QED
    BY <1>3, <1>9, <1>16, <2>1, <2>3, ConnectedFields
<1>17. CASE Register
  <2>1. inbox' = inbox
    BY <1>17 DEF Register
  <2>2. QED
    BY <1>3, <1>17, <2>1, RegisterFields
<1>31. CASE Mark
  <2>1. inbox' = inbox
    BY <1>31 DEF Mark
  <2>2. QED
    BY <1>3, <1>31, <2>1, MarkFields
<1>32. CASE Straggle
  <2>1. inbox' = inbox
    BY <1>32 DEF Straggle
  <2>2. QED
    BY <1>3, <1>32, <2>1, StraggleFields
<1>18. CASE Listen
  <2>1. inbox' = inbox
    BY <1>18 DEF Listen
  <2>2. QED
    BY <1>3, <1>18, <2>1, ListenFields
<1>19. CASE Read
  <2>1. inbox' = inbox
    BY <1>19 DEF Read
  <2>2. QED
    BY <1>3, <1>19, <2>1, ReadFields
<1>20. CASE StateChanged
  <2>1. inbox' = Tail(inbox) /\ inbox # <<>>
    BY <1>20 DEF StateChanged
  <2>2. QED
    BY <1>3, <1>9, <1>20, <2>1, StateChangedFields
<1>21. CASE Disconnected
  <2>1. inbox' = Tail(inbox) /\ inbox # <<>>
    BY <1>21 DEF Disconnected
  <2>2. QED
    BY <1>3, <1>4, <1>9, <1>21, <2>1, DisconnectedFields
<1>22. CASE BinderDied
  <2>1. inbox' = inbox \/ inbox' = Append(inbox, [kind |-> "died"])
    BY <1>22 DEF BinderDied
  <2>2. [kind |-> "died"] \in Messages /\ [kind |-> "died"].kind = "died"
    BY Sendable
  <2>3. Dated(inbox')
    BY <1>3, <1>8, <2>1, <2>2
  <2>4. QED
    BY <1>3, <1>4, <1>22, <2>3, BinderDiedFields
<1>23. CASE OnBinderDied
  <2>1. inbox' = Forget(Tail(inbox)) /\ inbox # <<>>
    BY <1>23 DEF OnBinderDied
  <2>2. Dated(inbox')
    BY <1>9, <1>10, <2>1
  <2>3. QED
    BY <1>4, <1>23, <2>2, OnBinderDiedFields
<1>24. CASE Forgotten
  <2>1. inbox' = Tail(inbox) /\ inbox # <<>> /\ UNCHANGED app
    BY <1>24 DEF Forgotten
  <2>2. QED
    BY <1>9, <1>11, <2>1
<1>25. CASE Destroy
  <2>1. inbox' = Forget(inbox) /\ inbox \in Seq(Messages)
    BY <1>25 DEF Destroy, Typed
  <2>2. Dated(inbox')
    BY <1>10, <2>1
  <2>3. QED
    BY <1>4, <1>25, <2>2, DestroyFields
<1>26. CASE Bind
  <2>1. inbox' = Append(inbox, [kind |-> "connected", gen |-> gen])
    BY <1>26 DEF Bind
  <2>2. /\ [kind |-> "connected", gen |-> gen] \in Messages
        /\ [kind |-> "connected", gen |-> gen].gen = gen
    BY <1>1, Sendable
  <2>3. Dated(inbox')
    BY <1>1, <1>8, <2>1, <2>2
  <2>4. QED
    BY <1>3, <1>4, <1>26, <2>3, BindFields
<1>27. CASE Crash
  <2>1. UNCHANGED <<app, inbox>>
    BY <1>27 DEF Crash
  <2>2. QED
    BY <1>3, <1>11, <2>1
<1>28. CASE PostDisconnected
  <2>1. UNCHANGED app /\ inbox' = Append(inbox, [kind |-> "disconnected"])
    BY <1>28 DEF PostDisconnected
  <2>2. [kind |-> "disconnected"] \in Messages /\ [kind |-> "disconnected"].kind = "disconnected"
    BY Sendable
  <2>3. Dated(inbox')
    BY <1>8, <2>1, <2>2
  <2>4. QED
    BY <1>11, <2>1, <2>3
<1>29. CASE AppDies
  <2>1. inbox' = <<>>
    BY <1>29 DEF AppDies
  <2>2. Dated(inbox')
    BY <2>1 DEF Dated
  <2>3. QED
    BY <1>4, <1>29, <2>2, AppDiesFields
<1>30. QED
  BY <1>5, <1>12, <1>13, <1>14, <1>15, <1>16, <1>17, <1>18, <1>19, <1>20, <1>21, <1>22, <1>23,
     <1>24, <1>25, <1>26, <1>27, <1>28, <1>29, <1>31, <1>32 DEF Next

\* A connection that is made or wanted has its Callback, and the end of a run
\* is told before the next one is bound.
LEMMA LinkedStep ==
  ASSUME Typed, Past, Linked, Next
  PROVE  Linked'
<1>1. gen \in Nat /\ gen \in 0..MaxGen /\ gen # None
  BY BindingAssumption DEF Typed, TypeOK
<1>2. Linked' <=> /\ app'.active => app'.callback
                  /\ app'.bound # None => app'.callback
                  /\ alive' /\ app'.bound = gen' => ~Reported'
  BY DEF Linked
<1>3. ASSUME UNCHANGED <<alive, gen, app.active, app.callback, app.bound>>, Reported' => Reported
      PROVE  Linked'
  BY <1>2, <1>3 DEF Linked
<1>4. ASSUME app'.bound = None, app'.active => app'.callback, gen' = gen
      PROVE  Linked'
  BY <1>1, <1>2, <1>4
<1>5. CASE RunPosted \/ Screen \/ Write \/ OnewayArrives \/ Forgotten \/ OnCallbackDied
           \/ \E s \in {"Stopped", "Connecting", "Connected", "Stopping"} : Broadcast(s)
  <2>1. UNCHANGED <<alive, gen, app, notices>>
    BY <1>5 DEF RunPosted, Screen, Write, OnewayArrives, Forgotten, Broadcast, OnCallbackDied
  <2>2. QED
    BY <1>3, <2>1 DEF Reported
<1>6. CASE Create
  BY <1>4, <1>6, CreateFields DEF Create
<1>7. CASE SetBandwidth
  <2>1. UNCHANGED <<alive, gen, notices>>
    BY <1>7 DEF SetBandwidth
  <2>2. QED
    BY <1>3, <1>7, <2>1, SetBandwidthFields DEF Reported
<1>8. CASE Connected
  <2>1. UNCHANGED <<alive, gen, notices>>
    BY <1>8 DEF Connected
  <2>2. QED
    BY <1>3, <1>8, <2>1, ConnectedFields DEF Reported
<1>9. CASE Register
  <2>1. UNCHANGED <<alive, gen, notices>>
    BY <1>9 DEF Register
  <2>2. QED
    BY <1>3, <1>9, <2>1, RegisterFields DEF Reported
<1>23. CASE Mark
  <2>1. UNCHANGED <<alive, gen, notices>>
    BY <1>23 DEF Mark
  <2>2. QED
    BY <1>3, <1>23, <2>1, MarkFields DEF Reported
<1>24. CASE Straggle
  <2>1. UNCHANGED <<alive, gen, notices>>
    BY <1>24 DEF Straggle
  <2>2. QED
    BY <1>3, <1>24, <2>1, StraggleFields DEF Reported
<1>10. CASE Listen
  <2>1. UNCHANGED <<alive, gen, notices>>
    BY <1>10 DEF Listen
  <2>2. QED
    BY <1>3, <1>10, <2>1, ListenFields DEF Reported
<1>11. CASE Read
  <2>1. UNCHANGED <<alive, gen, notices>>
    BY <1>11 DEF Read
  <2>2. QED
    BY <1>3, <1>11, <2>1, ReadFields DEF Reported
<1>12. CASE StateChanged
  <2>1. UNCHANGED <<alive, gen, notices>>
    BY <1>12 DEF StateChanged
  <2>2. QED
    BY <1>3, <1>12, <2>1, StateChangedFields DEF Reported
<1>13. CASE Disconnected
  <2>1. UNCHANGED <<alive, gen, notices>>
    BY <1>13 DEF Disconnected
  <2>2. QED
    BY <1>3, <1>13, <2>1, DisconnectedFields DEF Reported
<1>14. CASE BinderDied
  <2>1. UNCHANGED <<alive, gen>> /\ notices' \subseteq notices
    BY <1>14 DEF BinderDied
  <2>2. QED
    BY <1>3, <1>14, <2>1, BinderDiedFields DEF Reported
<1>15. CASE OnBinderDied
  <2>1. gen' = gen
    BY <1>15 DEF OnBinderDied
  <2>2. QED
    BY <1>4, <1>15, <2>1, OnBinderDiedFields
<1>16. CASE Destroy
  <2>1. gen' = gen
    BY <1>16 DEF Destroy
  <2>2. QED
    BY <1>4, <1>16, <2>1, DestroyFields
<1>17. CASE Bind
  <2>1. UNCHANGED <<alive, gen, notices>> /\ app.active /\ ~Reported
    BY <1>17 DEF Bind, Reported
  <2>2. QED
    BY <1>2, <1>17, <2>1, BindFields DEF Linked, Reported
<1>18. CASE Crash
  BY <1>2, <1>18 DEF Crash, Linked
<1>19. CASE PostDisconnected
  <2>1. UNCHANGED <<alive, gen, app>> /\ notices' \subseteq notices
    BY <1>19 DEF PostDisconnected
  <2>2. QED
    BY <1>3, <2>1 DEF Reported
<1>20. CASE Restart
  <2>1. gen' = gen + 1 /\ app' = app
    BY <1>20 DEF Restart
  <2>2. gen' # None /\ gen' \notin 0..gen
    BY <1>1, <2>1, BindingAssumption
  <2>3. app'.bound # gen'
    BY <2>1, <2>2 DEF Past
  <2>4. QED
    BY <1>2, <2>1, <2>3 DEF Linked
<1>21. CASE AppDies
  <2>1. gen' = gen
    BY <1>21 DEF AppDies
  <2>2. QED
    BY <1>4, <1>21, <2>1, AppDiesFields
<1>22. QED
  BY <1>5, <1>6, <1>7, <1>8, <1>9, <1>10, <1>11, <1>12, <1>13, <1>14, <1>15, <1>16, <1>17, <1>18,
     <1>19, <1>20, <1>21, <1>23, <1>24 DEF Next

Current == Past /\ Linked /\ (Well => Phase)

\* What is not well any more stays so: a late report is not unsaid, and an
\* activity does not come back.
LEMMA WellBefore ==
  ASSUME Typed, Next, Well'
  PROVE  Well /\ ~Destroy /\ ~AppDies
<1>1. "late" \in slip => "late" \in slip'
  BY DEF Next, RunPosted, Screen, Write, OnewayArrives, Broadcast, Create, SetBandwidth,
         Connected, Register, Mark, Listen, Read, StateChanged, Disconnected, BinderDied, LateSlip,
         OnBinderDied, Forgotten, Destroy, Bind, Crash, PostDisconnected, Restart, AppDies,
         OnCallbackDied, Straggle
<1>2. ~Destroy /\ ~AppDies
  BY DestroyFields, AppDiesFields DEF Well
<1>3. ASSUME app.at \in {"destroyed", "dead", "midcall"}
      PROVE  app'.at \in {"destroyed", "dead", "midcall"}
  <2>1. /\ ~Create /\ ~SetBandwidth /\ ~Connected /\ ~Register /\ ~Mark /\ ~Listen /\ ~Read
        /\ ~Disconnected
    BY <1>3 DEF Create, SetBandwidth, Connected, Register, Mark, Listen, Read, Disconnected
  <2>2. CASE \/ RunPosted \/ Screen \/ Write \/ OnewayArrives \/ Forgotten \/ Crash
             \/ PostDisconnected \/ Restart \/ OnCallbackDied
             \/ \E s \in {"Stopped", "Connecting", "Connected", "Stopping"} : Broadcast(s)
    <3>1. app' = app
      BY <2>2 DEF RunPosted, Screen, Write, OnewayArrives, Forgotten, Broadcast, Crash,
                  PostDisconnected, Restart, OnCallbackDied
    <3>2. QED
      BY <1>3, <3>1
  <2>3. CASE StateChanged \/ BinderDied \/ OnBinderDied \/ Bind \/ Straggle
    BY <1>3, <2>3, StateChangedFields, BinderDiedFields, OnBinderDiedFields, BindFields,
       StraggleFields
  <2>4. QED
    BY <1>2, <2>1, <2>2, <2>3 DEF Next
<1>4. QED
  BY <1>1, <1>2, <1>3 DEF Well

\* Every step keeps the phases.
LEMMA CurrentStep ==
  ASSUME Typed, Hooked, Current, [Next]_vars
  PROVE  Current'
<1>1. CASE UNCHANGED vars
  <2>1. Past => Past'
    BY <1>1 DEF vars, service, Past
  <2>2. Linked => Linked'
    BY <1>1 DEF vars, service, Linked, Reported
  <2>3. Well' => Well
    BY <1>1 DEF vars, service, Well
  <2>4. Fresh => Fresh'
    BY <1>1 DEF vars, service, Fresh
  <2>5. Away => Away'
    BY <1>1 DEF vars, service, Away, Fresh, Arriving
  <2>6. Coming => Coming'
    BY <1>1 DEF vars, service, Coming, Fresh, Expecting, Arriving, Calm
  <2>7. Joining => Joining'
    BY <1>1 DEF vars, service, Joining, Fresh, Calm
  <2>8. Joined => Joined'
    BY <1>1 DEF vars, service, Joined, Heard, LastState, Target, Wanted, Listening
  <2>9. alive' = alive
    BY <1>1 DEF vars, service
  <2>10. Phase => Phase'
    BY <2>4, <2>5, <2>6, <2>7, <2>8, <2>9 DEF Phase
  <2>11. QED
    BY <2>1, <2>2, <2>3, <2>10 DEF Current
<1>2. CASE Next
  <2>1. Past' /\ Linked'
    BY <1>2, PastStep, LinkedStep DEF Current
  <2>2. SUFFICES ASSUME Well' PROVE Phase'
    BY <2>1 DEF Current
  <2>3. Well /\ Phase /\ Past /\ Linked /\ Unbound /\ ~Destroy /\ ~AppDies
    BY <1>2, <2>2, WellBefore DEF Current, Hooked
  <2>4. CASE RunPosted \/ Screen \/ Write \/ OnewayArrives \/ \E s \in States : Broadcast(s)
    <3>1. alive
      BY <2>4 DEF RunPosted, Screen, Write, OnewayArrives, Broadcast
    <3>2. QED
      BY <2>3, <2>4, <3>1, ServicePhase
  <2>5. CASE StateChanged \/ Disconnected \/ Forgotten
    <3>1. app.at = "idle"
      BY <2>3, <2>5 DEF StateChanged, Disconnected, Forgotten, Well
    <3>2. QED
      BY <2>3, <2>5, <3>1, TakenPhase
  <2>6. CASE SetBandwidth \/ Connected \/ Register \/ Mark \/ Listen \/ Read
    BY <2>3, <2>6, SetBandwidthPhase, ConnectedPhase, RegisterPhase, MarkPhase, ListenPhase,
       ReadPhase
  <2>7. CASE BinderDied \/ OnBinderDied
    BY <2>2, <2>3, <2>7, BinderDiedPhase, OnBinderDiedPhase
  <2>8. CASE Create \/ Bind
    BY <2>3, <2>8, BindPhase
  <2>9. CASE Crash \/ PostDisconnected \/ Restart
    BY <2>3, <2>9, SystemPhase
  <2>10. ~OnCallbackDied /\ ~Straggle
    BY <2>3 DEF OnCallbackDied, Straggle, Dead, Well
  <2>11. QED
    BY <1>2, <2>3, <2>4, <2>5, <2>6, <2>7, <2>8, <2>9, <2>10 DEF Next, States
<1>3. QED
  BY <1>1, <1>2

\* In the beginning nothing is bound.
LEMMA InitCurrent == Init => Current
<1> SUFFICES ASSUME Init PROVE Current
  OBVIOUS
<1>1. /\ app.bound = None /\ app.binder = None /\ app.service = None
      /\ app.active = FALSE /\ gen = 0 /\ alive
      /\ registered = {} /\ listeners = {} /\ posted = <<>> /\ oneway = <<>> /\ inbox = <<>>
  BY DEF Init
<1>2. gen # None /\ 1..Len(inbox) = {}
  <2>1. Len(inbox) = 0
    BY <1>1
  <2>2. QED
    BY <1>1, <2>1, BindingAssumption
<1>3. Fresh
  BY <1>1 DEF Fresh
<1>4. QED
  BY <1>1, <1>2, <1>3 DEF Current, Past, Linked, Phase, Away

\* With nothing under way the connection is in its last phase, and what was
\* heard and asked for last is so.
LEMMA CurrentKnows == Typed /\ Current => ClientCurrent
<1> SUFFICES ASSUME Typed, Current, Settled, "late" \notin slip
             PROVE  /\ "between" \notin slip => app.vpnState = state
                    /\ "overtaken" \notin slip => (app.bandwidth <=> "app" \in listeners)
  BY DEF ClientCurrent
<1>1. /\ alive /\ change = None /\ inbox = <<>> /\ posted = <<>> /\ oneway = <<>>
      /\ app.at = "idle" /\ app.bound = gen
  BY DEF Settled
<1>2. 1..Len(inbox) = {}
  <2>1. Len(inbox) = 0
    BY <1>1
  <2>2. QED
    BY <2>1
<1>3. Phase
  BY <1>1 DEF Current, Well
<1>4. Joined
  BY <1>1, <1>2, <1>3 DEF Phase, Away, Coming, Expecting, Joining
<1>5. "between" \notin slip => app.vpnState = state
  BY <1>1, <1>2, <1>4 DEF Joined, Heard, Target
<1>6. Listening <=> "app" \in listeners
  BY <1>1 DEF Listening
<1>7. "overtaken" \notin slip => (app.bandwidth <=> "app" \in listeners)
  BY <1>1, <1>4, <1>6 DEF Joined, Wanted
<1>8. QED
  BY <1>5, <1>7

\* With nothing of the connection under way, however often :bg has died and
\* come back, the activity shows the service's state, and it is listed for
\* bandwidth exactly if it asked to be (ClientCurrent).
THEOREM ClientFollows == Spec => []ClientCurrent
<1>1. Init => Typed /\ Hooked /\ Current
  BY InitHooked, InitCurrent
<1>2. Typed /\ Hooked /\ Current /\ [Next]_vars => (Typed /\ Hooked /\ Current)'
  BY TypedStep, HookedStep, CurrentStep
<1>3. Typed /\ Hooked /\ Current => ClientCurrent
  BY CurrentKnows
<1>4. QED
  BY <1>1, <1>2, <1>3, PTL DEF Spec
=============================================================================
