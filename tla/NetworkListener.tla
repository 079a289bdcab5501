--------------------------- MODULE NetworkListener ---------------------------
(***************************************************************************)
(* DefaultNetworkListener: the actor with its listeners, its network and   *)
(* its pending requests, the callbacks of ConnectivityManager that feed it *)
(* and the service instances that use it.                                  *)
(*                                                                         *)
(* The actor runs on Dispatchers.Unconfined over a channel without buffer: *)
(* a message is handled where it is sent, and one at a time, so sending    *)
(* and handling it is one step.  From API 26 on the callbacks run on the   *)
(* main thread, where the service sends Stop too; before, they have a      *)
(* thread of their own, and one of them may be in its runBlocking while    *)
(* the service unregisters it (flying).                                    *)
(***************************************************************************)
EXTENDS Naturals, Sequences, FiniteSets

CONSTANTS
    Keys,       \* the service instances, which are the keys of their listeners
    OtherKey,   \* a key that nobody starts with
    Networks,   \* the networks
    None,       \* null
    Threads,    \* whether the callbacks have a thread of their own (API < 26)
    MaxEvents   \* bound: callbacks that wait at the same time

ASSUME ListenerAssumption ==
    /\ OtherKey \notin Keys
    /\ None \notin Networks
    /\ Threads \subseteq BOOLEAN
    /\ MaxEvents \in Nat

VARIABLES
    ownThread,  \* the callbacks have a thread of their own
    default,    \* the default network, as the system sees it
    registered, \* Callback is registered
    events,     \* the callbacks that wait for their thread
    flying,     \* the callback that has begun: a sequence of at most one
    listeners,  \* the actor's listeners
    network,    \* the actor's network
    pending,    \* the actor's pendingRequests, by the instance that waits
    dead,       \* the actor has failed; nothing is modelled after that
    told,       \* what each listener was called with last: underlyingNetwork
    phase       \* what each instance is doing

vars == <<ownThread, default, registered, events, flying, listeners, network,
          pending, dead, told, phase>>

system == <<ownThread, default>>
callbacks == <<registered, events, flying>>

Init ==
    /\ ownThread \in Threads
    /\ default \in Networks \cup {None}
    /\ registered = FALSE /\ events = <<>> /\ flying = <<>>
    /\ listeners = {} /\ network = None /\ pending = {} /\ dead = FALSE
    /\ told = [k \in Keys |-> None]
    /\ phase = [k \in Keys |-> "idle"]

-----------------------------------------------------------------------------
(***************************************************************************)
(* ConnectivityManager.  A callback that is registered hears of a default  *)
(* network at once, and then of every change; one that is unregistered     *)
(* hears no more, except what it has begun to hear.                        *)
(***************************************************************************)
Event(kind, n) == [kind |-> kind, network |-> n]

\* register(): what the system then has to say.
Registered ==
    /\ registered' = TRUE
    /\ events' = IF default = None THEN <<>>
                 ELSE <<Event("Put", default), Event("Update", default)>>
    /\ UNCHANGED flying

Unregistered ==
    /\ registered' = FALSE /\ events' = <<>> /\ UNCHANGED flying

\* The default network changes or changes its capabilities; a network is
\* lost, the default one or one that was replaced.
SystemChange ==
    /\ Len(events) < MaxEvents
    /\ \E kind \in {"Put", "Lost", "Update"}, n \in Networks :
          /\ kind = "Put" => default # n
          /\ kind = "Update" => default = n
          /\ default' = IF kind # "Lost" THEN n ELSE IF default = n THEN None ELSE default
          /\ events' = IF registered THEN Append(events, Event(kind, n)) ELSE events
    /\ UNCHANGED <<ownThread, registered, flying, listeners, network, pending,
                   dead, told, phase>>

-----------------------------------------------------------------------------
(***************************************************************************)
(* The actor.                                                              *)
(***************************************************************************)
\* listeners.values.forEach { it(n) }
TellAll(n) == told' = [k \in Keys |-> IF k \in listeners THEN n ELSE told[k]]

\* Fault: only a change of network is passed on, and a first one is not.
Put_quiet(n) ==
    /\ network' = n
    /\ phase' = [k \in Keys |-> IF phase[k] = "getting" /\ k \in pending THEN "listening" ELSE phase[k]]
    /\ pending' = {}
    /\ IF network = None THEN UNCHANGED told ELSE TellAll(n)

Put(n) ==
    /\ network' = n
    /\ phase' = [k \in Keys |-> IF phase[k] = "getting" /\ k \in pending THEN "listening" ELSE phase[k]]
    /\ pending' = {}
    /\ TellAll(n)

Update(n) ==
    /\ IF network = n THEN TellAll(n) ELSE UNCHANGED told
    /\ UNCHANGED <<network, pending, phase>>

\* Fault: the loss of any network counts.
Lost_any(n) ==
    /\ network' = None /\ TellAll(None)
    /\ UNCHANGED <<pending, phase>>

Lost(n) ==
    /\ IF network = n THEN network' = None /\ TellAll(None)
                      ELSE UNCHANGED <<network, told>>
    /\ UNCHANGED <<pending, phase>>

\* The callback sends its message.
Handle(e) ==
    /\ \/ e.kind = "Put" /\ Put(e.network)
       \/ e.kind = "Update" /\ Update(e.network)
       \/ e.kind = "Lost" /\ Lost(e.network)
    /\ UNCHANGED <<listeners, dead>>

\* A callback runs on the main thread.
Callback ==
    /\ ~ownThread /\ events # <<>>
    /\ Handle(Head(events))
    /\ events' = Tail(events)
    /\ UNCHANGED <<system, registered, flying>>

\* A callback begins on its own thread ...
CallbackBegins ==
    /\ ownThread /\ events # <<>> /\ flying = <<>>
    /\ flying' = <<Head(events)>> /\ events' = Tail(events)
    /\ UNCHANGED <<system, registered, listeners, network, pending, dead, told, phase>>

\* ... and sends.
CallbackSends ==
    /\ flying # <<>>
    /\ Handle(Head(flying))
    /\ flying' = <<>>
    /\ UNCHANGED <<system, registered, events>>

\* preInit: start.
Start(k) ==
    /\ phase[k] = "idle"
    /\ phase' = [phase EXCEPT ![k] = "listening"]
    /\ IF listeners = {} THEN Registered ELSE UNCHANGED callbacks
    /\ listeners' = listeners \cup {k}
    /\ told' = IF network # None THEN [told EXCEPT ![k] = network] ELSE told
    /\ UNCHANGED <<system, network, pending, dead>>

\* Fault: the request is kept only while nobody else waits.
Get_first(k) ==
    /\ phase[k] = "listening"
    /\ dead' = (listeners = {})
    /\ IF network # None \/ listeners = {} THEN UNCHANGED <<pending, phase>>
       ELSE /\ pending' = IF pending = {} THEN {k} ELSE pending
            /\ phase' = [phase EXCEPT ![k] = "getting"]
    /\ UNCHANGED <<system, callbacks, listeners, network, told>>

\* openConnection, from the IO thread of the connecting job: get.  An answer
\* that is there at once leaves no trace.
Get(k) ==
    /\ phase[k] = "listening"
    /\ dead' = (listeners = {})
    /\ IF network # None \/ listeners = {} THEN UNCHANGED <<pending, phase>>
       ELSE /\ pending' = pending \cup {k}
            /\ phase' = [phase EXCEPT ![k] = "getting"]
    /\ UNCHANGED <<system, callbacks, listeners, network, told>>

\* The connecting job is cancelled in response.await(); the request stays.
Cancel(k) ==
    /\ phase[k] = "getting"
    /\ phase' = [phase EXCEPT ![k] = "listening"]
    /\ UNCHANGED <<system, callbacks, listeners, network, pending, dead, told>>

\* Fault: stop does not ask whose listener it is.
Stop_clear(k, key) ==
    /\ phase[k] = "listening"
    /\ phase' = [phase EXCEPT ![k] = "idle"]
    /\ listeners' = {}
    /\ IF listeners # {} THEN network' = None /\ Unregistered
                         ELSE UNCHANGED <<network, callbacks>>
    /\ UNCHANGED <<system, pending, dead, told>>

\* killProcesses: stop, with a key that may or may not be the one of start.
Stop(k, key) ==
    /\ phase[k] = "listening"
    /\ phase' = [phase EXCEPT ![k] = "idle"]
    /\ IF key \in listeners
       THEN /\ listeners' = listeners \ {key}
            /\ IF listeners' = {} THEN network' = None /\ Unregistered
                                  ELSE UNCHANGED <<network, callbacks>>
       ELSE UNCHANGED <<listeners, network, callbacks>>
    /\ UNCHANGED <<system, pending, dead, told>>

Next ==
    \/ SystemChange
    \/ Callback
    \/ CallbackBegins
    \/ CallbackSends
    \/ \E k \in Keys : Start(k)
    \/ \E k \in Keys : Get(k)
    \/ \E k \in Keys : Cancel(k)
    \/ \E k \in Keys : \E key \in {k, OtherKey} : Stop(k, key)

Spec == Init /\ [][Next]_vars

\* The callbacks' thread takes what is posted to it.
Fairness == WF_vars(Callback) /\ WF_vars(CallbackBegins) /\ WF_vars(CallbackSends)

FairSpec == Spec /\ Fairness

-----------------------------------------------------------------------------
\* The types of the variables.  The actor is registered exactly while it has
\* listeners.
TypeOK ==
    /\ ownThread \in BOOLEAN
    /\ default \in Networks \cup {None}
    /\ registered = (listeners # {})
    /\ \A q \in {events, flying} : \A i \in 1..Len(q) :
          q[i] \in [kind : {"Put", "Update", "Lost"}, network : Networks]
    /\ listeners \subseteq Keys
    /\ network \in Networks \cup {None}
    /\ pending \subseteq Keys
    /\ told \in [Keys -> Networks \cup {None}]
    /\ phase \in [Keys -> {"idle", "listening", "getting"}]

\* The check in Get never fails, and so never ends the actor: an instance
\* asks for the network only between its start and its stop, and no other
\* instance can take its listener away in between.
ActorLives == TypeOK /\ ~dead

\* A listener is never behind the actor: it has been called with the present
\* network if there is one.  (It may keep an old one while there is none:
\* Start does not call a listener with null.)
ListenersCurrent ==
    network # None => \A k \in listeners : told[k] = network

\* Once the callbacks are through, the actor's network is the system's, and
\* without listeners it is null: no sequence of starts, stops, changes and
\* losses leaves an old network behind.  This is for callbacks on the main
\* thread; one that is under way on its own thread when the last listener
\* stops sets the network of an actor that nobody listens to.
NetworkTrue ==
    ~ownThread /\ events = <<>> => network = IF registered THEN default ELSE None

\* An instance that waits in get is answered if there is a network, or gives
\* up, or the network is lost: stopping another listener does not leave its
\* request without an answer.
GetAnswered ==
    \A k \in Keys : phase[k] = "getting" ~> (phase[k] # "getting" \/ default = None)
=============================================================================
