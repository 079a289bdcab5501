------------------------ MODULE NetworkListenerProofs ------------------------
(***************************************************************************)
(* The actor survives and its listeners are current, for any number of     *)
(* service instances, networks and waiting callbacks.                      *)
(*                                                                         *)
(* The check of Get can only be seen not to fail with the fact that an     *)
(* instance between its start and its stop is listed; the callbacks carry  *)
(* networks, never null, so that a listener told of one is told of the     *)
(* actor's.                                                                *)
(*                                                                         *)
(* That the actor ends up with the system's network is a fact about the    *)
(* callbacks that wait: Tracked says that they lead from the actor's       *)
(* network to the system's.                                                *)
(***************************************************************************)
EXTENDS NetworkListener, TLAPS

Message == [kind : {"Put", "Update", "Lost"}, network : Networks]

\* An instance that may ask for the network is listed.
Listed == \A k \in Keys : phase[k] # "idle" => k \in listeners

Queues == events \in Seq(Message) /\ flying \in Seq(Message)

IInv == TypeOK /\ ~dead /\ ListenersCurrent /\ Listed /\ Queues

\* The type of the queues in TypeOK follows from Queues.
LEMMA QueueTypes ==
    ASSUME Queues
    PROVE  \A q \in {events, flying} : \A i \in 1..Len(q) : q[i] \in Message
  BY DEF Queues

\* The initial state.
LEMMA InitInv ==
    Init => IInv
  <1>. SUFFICES ASSUME Init PROVE IInv
    OBVIOUS
  <1>1. Queues
    BY DEF Init, Queues
  <1>2. TypeOK
    BY <1>1, QueueTypes, ListenerAssumption DEF Init, TypeOK, Message
  <1>. QED  BY <1>1, <1>2 DEF Init, IInv, ListenersCurrent, Listed

\* What the handling of a callback's message does to the actor.
LEMMA HandleKeeps ==
    ASSUME IInv, NEW e \in Message, Handle(e)
    PROVE  /\ network' \in Networks \cup {None}
           /\ pending' \subseteq Keys
           /\ told' \in [Keys -> Networks \cup {None}]
           /\ phase' \in [Keys -> {"idle", "listening", "getting"}]
           /\ listeners' = listeners /\ dead' = dead
           /\ ListenersCurrent' /\ Listed'
  <1>. USE DEF IInv
  <1>1. e.network \in Networks
    BY DEF Message
  <1>2. CASE e.kind = "Put" /\ Put(e.network)
    BY <1>1, <1>2 DEF Handle, Put, TellAll, TypeOK, ListenersCurrent, Listed
  <1>3. CASE e.kind = "Update" /\ Update(e.network)
    <2>1. CASE network = e.network
      BY <1>1, <1>3, <2>1 DEF Handle, Update, TellAll, TypeOK, ListenersCurrent, Listed
    <2>2. CASE network # e.network
      BY <1>1, <1>3, <2>2 DEF Handle, Update, TypeOK, ListenersCurrent, Listed
    <2>. QED  BY <2>1, <2>2
  <1>4. CASE e.kind = "Lost" /\ Lost(e.network)
    <2>1. CASE network = e.network
      BY <1>1, <1>4, <2>1 DEF Handle, Lost, TellAll, TypeOK, ListenersCurrent, Listed
    <2>2. CASE network # e.network
      BY <1>1, <1>4, <2>2 DEF Handle, Lost, TypeOK, ListenersCurrent, Listed
    <2>. QED  BY <2>1, <2>2
  <1>. QED  BY <1>2, <1>3, <1>4 DEF Handle

\* Every step preserves the invariant.
LEMMA NextInv ==
    IInv /\ [Next]_vars => IInv'
  <1>. SUFFICES ASSUME IInv, [Next]_vars PROVE IInv'
    OBVIOUS
  <1>. USE DEF IInv
  <1>. SUFFICES /\ Queues' /\ ~dead' /\ ListenersCurrent' /\ Listed'
                /\ Queues' => TypeOK'
    OBVIOUS
  <1>0. Queues' => \A q \in {events', flying'} : \A i \in 1..Len(q) : q[i] \in Message
    BY DEF Queues
  <1>1. CASE SystemChange
    <2>1. PICK kind \in {"Put", "Lost", "Update"}, n \in Networks :
             /\ default' = IF kind # "Lost" THEN n ELSE IF default = n THEN None ELSE default
             /\ events' = IF registered THEN Append(events, Event(kind, n)) ELSE events
      BY <1>1 DEF SystemChange
    <2>2. Event(kind, n) \in Message
      BY DEF Event, Message
    <2>3. Queues'
      BY <1>1, <2>1, <2>2 DEF SystemChange, Queues
    <2>. QED
      BY <1>0, <1>1, <2>1, <2>3 DEF SystemChange, TypeOK, ListenersCurrent, Listed, Message
  <1>2. CASE Callback
    <2>1. Head(events) \in Message /\ Tail(events) \in Seq(Message)
      BY <1>2 DEF Callback, Queues
    <2>2. Queues'
      BY <1>2, <2>1 DEF Callback, Queues
    <2>. QED
      BY <1>0, <1>2, <2>1, <2>2, HandleKeeps DEF Callback, TypeOK, Message, system
  <1>3. CASE CallbackBegins
    <2>1. Head(events) \in Message /\ Tail(events) \in Seq(Message)
      BY <1>3 DEF CallbackBegins, Queues
    <2>2. Queues'
      BY <1>3, <2>1 DEF CallbackBegins, Queues
    <2>. QED
      BY <1>0, <1>3, <2>2 DEF CallbackBegins, TypeOK, ListenersCurrent, Listed, Message, system
  <1>4. CASE CallbackSends
    <2>1. Head(flying) \in Message
      BY <1>4 DEF CallbackSends, Queues
    <2>2. Queues'
      BY <1>4 DEF CallbackSends, Queues
    <2>. QED
      BY <1>0, <1>4, <2>1, <2>2, HandleKeeps DEF CallbackSends, TypeOK, Message, system
  <1>5. ASSUME NEW k \in Keys, Start(k)
        PROVE  /\ Queues' /\ ~dead' /\ ListenersCurrent' /\ Listed'
               /\ Queues' => TypeOK'
    <2>1. Queues' /\ registered' = TRUE
      <3>1. CASE listeners = {}
        <4>1. default # None => /\ Event("Put", default) \in Message
                                /\ Event("Update", default) \in Message
          BY DEF Event, Message, TypeOK
        <4>2. Registered
          BY <1>5, <3>1 DEF Start
        <4>3. events' \in Seq(Message)
          BY <4>1, <4>2 DEF Registered
        <4>. QED  BY <4>2, <4>3 DEF Registered, Queues
      <3>2. CASE listeners # {}
        BY <1>5, <3>2 DEF Start, callbacks, Queues, TypeOK
      <3>. QED  BY <3>1, <3>2
    <2>2. told' \in [Keys -> Networks \cup {None}] /\ ListenersCurrent'
      BY <1>5 DEF Start, TypeOK, ListenersCurrent
    <2>3. phase' \in [Keys -> {"idle", "listening", "getting"}] /\ Listed'
      BY <1>5 DEF Start, TypeOK, Listed
    <2>. QED
      BY <1>0, <1>5, <2>1, <2>2, <2>3 DEF Start, TypeOK, Message, system
  <1>6. ASSUME NEW k \in Keys, Get(k)
        PROVE  /\ Queues' /\ ~dead' /\ ListenersCurrent' /\ Listed'
               /\ Queues' => TypeOK'
    <2>1. k \in listeners
      BY <1>6 DEF Get, Listed
    <2>2. ~dead'
      BY <1>6, <2>1 DEF Get
    <2>3. /\ pending' \subseteq Keys
          /\ phase' \in [Keys -> {"idle", "listening", "getting"}] /\ Listed'
      BY <1>6, <2>1 DEF Get, TypeOK, Listed
    <2>. QED
      BY <1>0, <1>6, <2>2, <2>3
      DEF Get, TypeOK, ListenersCurrent, Message, Queues, system, callbacks
  <1>7. ASSUME NEW k \in Keys, Cancel(k)
        PROVE  /\ Queues' /\ ~dead' /\ ListenersCurrent' /\ Listed'
               /\ Queues' => TypeOK'
    <2>1. phase' \in [Keys -> {"idle", "listening", "getting"}] /\ Listed'
      BY <1>7 DEF Cancel, TypeOK, Listed
    <2>. QED
      BY <1>0, <1>7, <2>1
      DEF Cancel, TypeOK, ListenersCurrent, Message, Queues, system, callbacks
  <1>8. ASSUME NEW k \in Keys, NEW key \in {k, OtherKey}, Stop(k, key)
        PROVE  /\ Queues' /\ ~dead' /\ ListenersCurrent' /\ Listed'
               /\ Queues' => TypeOK'
    <2>1. listeners' \subseteq listeners /\ \A h \in listeners : h # k => h \in listeners'
      BY <1>8, ListenerAssumption DEF Stop, TypeOK
    <2>2. phase' \in [Keys -> {"idle", "listening", "getting"}] /\ Listed'
      BY <1>8, <2>1 DEF Stop, TypeOK, Listed
    <2>3. CASE key \in listeners /\ listeners' = {}
      <3>1. Unregistered /\ network' = None
        BY <1>8, <2>3 DEF Stop
      <3>2. Queues'
        BY <3>1 DEF Unregistered, Queues
      <3>. QED
        BY <1>0, <1>8, <2>2, <2>3, <3>1, <3>2
        DEF Stop, Unregistered, TypeOK, ListenersCurrent, Message, system
    <2>4. CASE key \in listeners /\ listeners' # {}
      BY <1>0, <1>8, <2>1, <2>2, <2>4
      DEF Stop, TypeOK, ListenersCurrent, Message, Queues, system, callbacks
    <2>5. CASE key \notin listeners
      BY <1>0, <1>8, <2>1, <2>2, <2>5
      DEF Stop, TypeOK, ListenersCurrent, Message, Queues, system, callbacks
    <2>. QED  BY <2>3, <2>4, <2>5
  <1>9. CASE UNCHANGED vars
    BY <1>9 DEF vars, TypeOK, ListenersCurrent, Listed, Queues
  <1>. QED
    BY <1>1, <1>2, <1>3, <1>4, <1>5, <1>6, <1>7, <1>8, <1>9 DEF Next

\* DefaultNetworkListener's actor never fails in Get, whatever the instances
\* and the system do, with the right key or with a wrong one.
THEOREM ActorSurvives == Spec => []ActorLives
  <1>1. IInv => ActorLives
    BY DEF IInv, ActorLives
  <1>. QED  BY <1>1, InitInv, NextInv, PTL DEF Spec

\* Every listener has been called with the actor's network when it has one.
THEOREM ListenersFollow == Spec => []ListenersCurrent
  <1>1. IInv => ListenersCurrent
    BY DEF IInv
  <1>. QED  BY <1>1, InitInv, NextInv, PTL DEF Spec

-----------------------------------------------------------------------------
(***************************************************************************)
(* The actor's network is the system's.  What the waiting callbacks will   *)
(* make of the actor's network is not a function of the two ends, so the   *)
(* invariant says that there is a course of networks, one more than there  *)
(* are callbacks, which begins with the actor's, ends with the system's    *)
(* and changes as the callbacks say.                                       *)
(***************************************************************************)
\* What the message of a callback makes of the actor's network.
Effect(e, n) ==
    IF e.kind = "Put" THEN e.network
    ELSE IF e.kind = "Lost" /\ e.network = n THEN None ELSE n

\* d is the course from m to n along the callbacks in q.
Course(d, q, m, n) ==
    /\ d \in [0..Len(q) -> Networks \cup {None}]
    /\ d[0] = m /\ d[Len(q)] = n
    /\ \A i \in 1..Len(q) : d[i] = Effect(q[i], d[i - 1])

Leads(q, m, n) == \E d : Course(d, q, m, n)

Tracked ==
    ~ownThread =>
       /\ flying = <<>>
       /\ registered => Leads(events, network, default)
       /\ ~registered => network = None /\ events = <<>>

\* A message changes the actor's network to another one or to null.
LEMMA EffectType ==
    ASSUME NEW e \in Message, NEW n \in Networks \cup {None}
    PROVE  Effect(e, n) \in Networks \cup {None}
  BY DEF Effect, Message

\* Without callbacks the two ends are one.
LEMMA LeadsNowhere ==
    ASSUME NEW m, NEW n, Leads(<<>>, m, n)
    PROVE  m = n
  BY DEF Leads, Course

\* One more callback leads one step further.
LEMMA LeadsOn ==
    ASSUME NEW q \in Seq(Message), NEW e \in Message, NEW m, NEW n, Leads(q, m, n)
    PROVE  Leads(Append(q, e), m, Effect(e, n))
  <1>1. PICK d : Course(d, q, m, n)
    BY DEF Leads
  <1>. DEFINE r == Append(q, e)
              c == [i \in 0..Len(r) |-> IF i = Len(r) THEN Effect(e, n) ELSE d[i]]
  <1>2. Len(q) \in Nat /\ Len(r) = Len(q) + 1
    OBVIOUS
  <1>3. n \in Networks \cup {None}
    BY <1>1, <1>2 DEF Course
  <1>4. c \in [0..Len(r) -> Networks \cup {None}]
    BY <1>1, <1>2, <1>3, EffectType DEF Course
  <1>5. ASSUME NEW i \in 1..Len(r)
        PROVE  c[i] = Effect(r[i], c[i - 1])
    <2>1. CASE i = Len(r)
      BY <1>1, <1>2, <2>1 DEF Course
    <2>2. CASE i # Len(r)
      <3>1. i \in 1..Len(q) /\ r[i] = q[i] /\ i - 1 \in 0..Len(q)
        BY <1>2, <2>2
      <3>. QED  BY <1>1, <1>2, <3>1 DEF Course
    <2>. QED  BY <2>1, <2>2
  <1>6. c[0] = m /\ c[Len(r)] = Effect(e, n)
    BY <1>1, <1>2 DEF Course
  <1>7. Course(c, r, m, Effect(e, n))
    BY <1>4, <1>5, <1>6 DEF Course
  <1>. QED  BY <1>7 DEF Leads

\* The first callback takes the first step.
LEMMA LeadsFromHead ==
    ASSUME NEW q \in Seq(Message), q # <<>>, NEW m, NEW n, Leads(q, m, n)
    PROVE  Leads(Tail(q), Effect(Head(q), m), n)
  <1>1. PICK d : Course(d, q, m, n)
    BY DEF Leads
  <1>. DEFINE r == Tail(q)
              c == [i \in 0..Len(r) |-> d[i + 1]]
  <1>2. Len(q) \in Nat /\ Len(q) >= 1 /\ Len(r) = Len(q) - 1 /\ Head(q) = q[1]
    OBVIOUS
  <1>3. c \in [0..Len(r) -> Networks \cup {None}]
    BY <1>1, <1>2 DEF Course
  <1>4. ASSUME NEW i \in 1..Len(r)
        PROVE  c[i] = Effect(r[i], c[i - 1])
    <2>1. r[i] = q[i + 1] /\ i + 1 \in 1..Len(q) /\ (i + 1) - 1 = i /\ (i - 1) + 1 = i
      BY <1>2
    <2>2. c[i] = d[i + 1] /\ c[i - 1] = d[i]
      BY <1>2, <2>1
    <2>. QED  BY <1>1, <2>1, <2>2 DEF Course
  <1>5. c[0] = Effect(Head(q), m) /\ c[Len(r)] = n
    <2>1. c[0] = d[1] /\ c[Len(r)] = d[Len(q)]
      BY <1>2
    <2>2. d[1] = Effect(q[1], d[0])
      BY <1>1, <1>2 DEF Course
    <2>. QED  BY <1>1, <1>2, <2>1, <2>2 DEF Course
  <1>6. Course(c, r, Effect(Head(q), m), n)
    BY <1>3, <1>4, <1>5 DEF Course
  <1>. QED  BY <1>6 DEF Leads

\* A single network leads to itself.
LEMMA LeadsStill ==
    ASSUME NEW m \in Networks \cup {None}
    PROVE  Leads(<<>>, m, m)
  <1>1. Course([i \in 0..0 |-> m], <<>>, m, m)
    BY DEF Course
  <1>. QED  BY <1>1 DEF Leads

\* Two callbacks lead two steps.
LEMMA LeadsTwice ==
    ASSUME NEW p \in Message, NEW u \in Message, NEW m \in Networks \cup {None}
    PROVE  Leads(<<p, u>>, m, Effect(u, Effect(p, m)))
  <1>. DEFINE q == <<p, u>>
              n == Effect(u, Effect(p, m))
              c == [i \in 0..2 |-> IF i = 0 THEN m ELSE IF i = 1 THEN Effect(p, m) ELSE n]
  <1>1. Effect(p, m) \in Networks \cup {None} /\ n \in Networks \cup {None}
    BY EffectType
  <1>2. Len(q) = 2 /\ q[1] = p /\ q[2] = u
    OBVIOUS
  <1>3. c[0] = m /\ c[1] = Effect(p, m) /\ c[2] = n
    OBVIOUS
  <1>4. c \in [0..Len(q) -> Networks \cup {None}]
    BY <1>1, <1>2
  <1>5. \A i \in 1..Len(q) : c[i] = Effect(q[i], c[i - 1])
    <2>1. \A i \in 1..Len(q) : i = 1 \/ i = 2
      BY <1>2
    <2>2. c[1] = Effect(q[1], c[1 - 1]) /\ c[2] = Effect(q[2], c[2 - 1])
      BY <1>2, <1>3
    <2>. QED  BY <2>1, <2>2
  <1>6. Course(c, q, m, n)
    BY <1>2, <1>3, <1>4, <1>5 DEF Course
  <1>. QED  BY <1>6 DEF Leads

\* The actor does with its network what the message says.
LEMMA HandleEffect ==
    ASSUME IInv, NEW e \in Message, Handle(e)
    PROVE  network' = Effect(e, network)
  BY DEF Handle, Put, Update, Lost, Effect

\* Every step keeps the actor's network on course.
LEMMA NextTracked ==
    IInv /\ Tracked /\ [Next]_vars => Tracked'
  <1>. SUFFICES ASSUME IInv, Tracked, [Next]_vars, ~ownThread' PROVE Tracked'
    BY DEF Tracked
  <1>0. ~ownThread
    BY DEF Next, vars, SystemChange, Callback, CallbackBegins, CallbackSends, Start, Get,
           Cancel, Stop, system
  <1>1. /\ flying = <<>> /\ events \in Seq(Message)
        /\ default \in Networks \cup {None} /\ network \in Networks \cup {None}
        /\ registered = (listeners # {})
        /\ registered => Leads(events, network, default)
        /\ ~registered => network = None /\ events = <<>>
    BY <1>0 DEF Tracked, IInv, Queues, TypeOK
  <1>2. CASE SystemChange
    <2>1. PICK kind \in {"Put", "Lost", "Update"}, n \in Networks :
             /\ kind = "Update" => default = n
             /\ default' = IF kind # "Lost" THEN n ELSE IF default = n THEN None ELSE default
             /\ events' = IF registered THEN Append(events, Event(kind, n)) ELSE events
      BY <1>2 DEF SystemChange
    <2>2. Event(kind, n) \in Message /\ default' = Effect(Event(kind, n), default)
      BY <2>1 DEF Event, Message, Effect
    <2>3. registered => Leads(events', network, default')
      BY <1>1, <2>1, <2>2, LeadsOn
    <2>. QED  BY <1>1, <1>2, <2>1, <2>3 DEF SystemChange, Tracked
  <1>3. CASE Callback
    <2>1. Head(events) \in Message
      BY <1>1, <1>3 DEF Callback
    <2>2. network' = Effect(Head(events), network)
      BY <1>3, <2>1, HandleEffect DEF Callback
    <2>3. registered /\ Leads(Tail(events), network', default)
      BY <1>1, <1>3, <2>2, LeadsFromHead DEF Callback
    <2>. QED  BY <1>1, <1>3, <2>3 DEF Callback, Tracked, system
  <1>4. CASE CallbackBegins \/ CallbackSends
    BY <1>0, <1>1, <1>4 DEF CallbackBegins, CallbackSends
  <1>5. ASSUME NEW k \in Keys, Start(k)
        PROVE  Tracked'
    <2>1. CASE listeners = {}
      <3>1. Registered /\ network' = None /\ default' = default /\ flying' = <<>>
        BY <1>1, <1>5, <2>1 DEF Start, Registered, system
      <3>2. CASE default = None
        BY <3>1, <3>2, LeadsStill DEF Registered, Tracked
      <3>3. CASE default # None
        <4>. DEFINE p == Event("Put", default)
                    u == Event("Update", default)
        <4>1. /\ p \in Message /\ u \in Message
              /\ Effect(p, None) = default /\ Effect(u, default) = default
          BY <1>1, <3>3 DEF Event, Message, Effect
        <4>. HIDE DEF p, u
        <4>2. Leads(<<p, u>>, None, default)
          BY <4>1, LeadsTwice
        <4>3. events' = <<p, u>> /\ registered'
          BY <3>1, <3>3 DEF Registered, p, u
        <4>. QED  BY <3>1, <4>2, <4>3 DEF Tracked
      <3>. QED  BY <3>2, <3>3
    <2>2. CASE listeners # {}
      BY <1>1, <1>5, <2>2 DEF Start, callbacks, system, Tracked
    <2>. QED  BY <2>1, <2>2
  <1>6. ASSUME NEW k \in Keys, Get(k) \/ Cancel(k)
        PROVE  Tracked'
    BY <1>1, <1>6 DEF Get, Cancel, callbacks, system, Tracked
  <1>7. ASSUME NEW k \in Keys, NEW key \in {k, OtherKey}, Stop(k, key)
        PROVE  Tracked'
    BY <1>1, <1>7 DEF Stop, Unregistered, callbacks, system, Tracked
  <1>8. CASE UNCHANGED vars
    BY <1>1, <1>8 DEF vars, Tracked
  <1>. QED
    BY <1>2, <1>3, <1>4, <1>5, <1>6, <1>7, <1>8 DEF Next

\* With callbacks on the main thread, the actor's network is the system's as
\* soon as no callback waits, and null without listeners, whatever starts,
\* stops, changes and losses came before and however many callbacks waited.
THEOREM NetworkFollows == Spec => []NetworkTrue
  <1>1. Init => Tracked
    BY DEF Init, Tracked
  <1>2. IInv /\ Tracked => NetworkTrue
    BY LeadsNowhere DEF IInv, Tracked, NetworkTrue
  <1>. QED  BY <1>1, <1>2, InitInv, NextInv, NextTracked, PTL DEF Spec
=============================================================================
