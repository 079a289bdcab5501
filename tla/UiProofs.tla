-------------------------------- MODULE UiProofs --------------------------------
(***************************************************************************)
(* Proofs about Ui, for every bound on taps, news and dialogs, with and    *)
(* without faults: what Flutter shows when nothing is under way, and that  *)
(* no loading dialog is left behind.                                       *)
(*                                                                         *)
(* Neither is inductive.  Flutter shows the state of the service at rest   *)
(* because of what holds on the way there: the last news is the state      *)
(* (Informed), and the last status announced to Flutter is the state,      *)
(* unless the service is still on its way or the command that was          *)
(* announced will change the state when it arrives (Announced).            *)
(***************************************************************************)
EXTENDS Ui, TLAPS

States == {"Stopped", "Connecting", "Connected", "Stopping"}
Events == [status : Statuses, encoded : {1, 2}]

Typed ==
    /\ state \in States /\ asked \subseteq {"start", "close"} /\ restart = FALSE
    /\ open \in BOOLEAN /\ permitted \in BOOLEAN /\ linked \in BOOLEAN
    /\ news \in Seq(States) /\ vpnState \in Statuses /\ vpnStatus \in Statuses
    /\ delayed \in Seq({"start", "close"})
    /\ calls \in Seq({"toggle", "permission", "switch"})
    /\ sink \in BOOLEAN /\ omission \in Seq(Events) /\ channel \in Seq(Events)
    /\ shown \in Statuses /\ ticks \in BOOLEAN /\ showing \in BOOLEAN
    /\ dialogs \in Nat /\ (showing => dialogs > 0)

-----------------------------------------------------------------------------
(***************************************************************************)
(* Queues.                                                                 *)
(***************************************************************************)
\* What is put into a queue is its last element.
LEMMA LastPut ==
  ASSUME NEW S, NEW q \in Seq(S), NEW e \in S
  PROVE  /\ Append(q, e) \in Seq(S)
         /\ Append(q, e) # <<>>
         /\ Append(q, e)[Len(Append(q, e))] = e
  OBVIOUS

\* What is taken from a queue is its last element only if it is the only one.
LEMMA LastKept ==
  ASSUME NEW S, NEW q \in Seq(S), q # <<>>
  PROVE  /\ Head(q) \in S /\ Tail(q) \in Seq(S)
         /\ Tail(q) = <<>> => q[Len(q)] = Head(q)
         /\ Tail(q) # <<>> => Tail(q)[Len(Tail(q))] = q[Len(q)]
<1>1. Len(q) \in Nat /\ Len(q) > 0 /\ Head(q) = q[1] /\ Head(q) \in S
  OBVIOUS
<1>2. Tail(q) \in Seq(S) /\ Len(Tail(q)) = Len(q) - 1
  OBVIOUS
<1>3. ASSUME Tail(q) = <<>>
      PROVE  q[Len(q)] = Head(q)
  <2>1. Len(q) - 1 = 0
    <3>1. Len(<<>>) = 0
      OBVIOUS
    <3>2. Len(Tail(q)) = 0
      BY <1>3, <3>1, Zenon
    <3>3. QED
      BY <1>2, <3>2
  <2>2. Len(q) = 1
    BY <1>1, <2>1
  <2>3. QED
    BY <1>1, <2>2
<1>4. ASSUME Tail(q) # <<>>
      PROVE  Tail(q)[Len(Tail(q))] = q[Len(q)]
  <2>1. Len(q) - 1 \in 1..Len(Tail(q))
    BY <1>1, <1>2, <1>4
  <2>2. Tail(q)[Len(q) - 1] = q[Len(q)]
    BY <2>1
  <2>3. QED
    BY <1>2, <2>2
<1>5. QED
  BY <1>1, <1>2, <1>3, <1>4

\* A command that is taken from a queue leaves the others there.
LEMMA OthersKept ==
  ASSUME NEW S, NEW q \in Seq(S), q # <<>>, NEW i \in 1..Len(q), q[i] # Head(q)
  PROVE  \E j \in 1..Len(Tail(q)) : Tail(q)[j] = q[i]
<1>1. i # 1 /\ i - 1 \in 1..Len(Tail(q)) /\ Tail(q)[i - 1] = q[i]
  OBVIOUS
<1>2. QED
  BY <1>1

\* What is put into a queue leaves what was there.
LEMMA AllKept ==
  ASSUME NEW S, NEW q \in Seq(S), NEW e \in S, NEW i \in 1..Len(q)
  PROVE  i \in 1..Len(Append(q, e)) /\ Append(q, e)[i] = q[i]
  OBVIOUS

\* What onListen makes of the events that were kept are events.
LEMMA OnceMore ==
  ASSUME NEW q \in Seq(Events), NEW o \in Seq(Events)
  PROVE  q \o [i \in 1..Len(o) |-> [o[i] EXCEPT !.encoded = 2]] \in Seq(Events)
<1>1. ASSUME NEW i \in 1..Len(o)
      PROVE  [o[i] EXCEPT !.encoded = 2] \in Events
  <2>1. o[i] \in Events
    OBVIOUS
  <2>2. QED
    BY <2>1 DEF Events
<1>2. [i \in 1..Len(o) |-> [o[i] EXCEPT !.encoded = 2]] \in Seq(Events)
  BY <1>1
<1>3. QED
  BY <1>2

-----------------------------------------------------------------------------
(***************************************************************************)
(* The service, as Serve has it.                                           *)
(***************************************************************************)
\* A session has its receiver and its permission, so that a close finds it.
Held == state \in canStop => open /\ permitted

\* What the service does keeps to the types, and a command that would change
\* the state is not ignored.
LEMMA ServeEffect ==
  ASSUME Typed, Held, Serve
  PROVE  /\ state' \in States /\ asked' \subseteq {"start", "close"} /\ restart' = FALSE
         /\ open' \in BOOLEAN /\ permitted' \in BOOLEAN
         /\ Held'
         /\ state' = state /\ state = "Stopped" /\ "start" \in asked => "start" \in asked'
         /\ state' = state /\ state = "Connected" /\ "close" \in asked => "close" \in asked'
<1> USE DEF Held, canStop, States
<1>1. CASE permitted /\ Service!Start /\ UNCHANGED permitted
  BY <1>1 DEF Typed, Service!Start, Service!Handled
<1>2. CASE Service!Refuse /\ UNCHANGED permitted
  BY <1>2 DEF Typed, Service!Refuse, Service!Handled, Service!Stop
<1>3. CASE Service!Close /\ UNCHANGED permitted
  BY <1>3 DEF Typed, Service!Close, Service!Handled, Service!Stop
<1>4. CASE Service!Ignore /\ UNCHANGED permitted
  <2>1. asked' \subseteq asked /\ UNCHANGED <<state, restart, open, permitted>>
    BY <1>4 DEF Service!Ignore, Service!Handled
  <2>2. CASE Service!Handled("start") /\ state # "Stopped"
    BY <1>4, <2>1, <2>2 DEF Typed, Service!Handled
  <2>3. CASE Service!Handled("close") /\ (open => state = "Stopping")
    BY <1>4, <2>1, <2>3 DEF Typed, Service!Handled
  <2>4. CASE Service!Handled("reload")
    BY <1>4, <2>1, <2>4 DEF Typed, Service!Handled
  <2>5. QED
    BY <1>4, <2>2, <2>3, <2>4 DEF Service!Ignore
<1>5. CASE Service!Connect /\ UNCHANGED permitted
  BY <1>5 DEF Typed, Service!Connect
<1>6. CASE Service!Release /\ UNCHANGED permitted
  BY <1>6 DEF Typed, Service!Release
<1>7. CASE Service!Finish /\ UNCHANGED permitted
  BY <1>7 DEF Typed, Service!Finish
<1>8. CASE Service!Fail /\ permitted' \in {permitted, FALSE}
  BY <1>8 DEF Typed, Service!Fail, Service!Stop
<1>9. QED
  BY <1>1, <1>2, <1>3, <1>4, <1>5, <1>6, <1>7, <1>8 DEF Serve

\* sendToFlutter keeps to the types.
LEMMA SendTyped ==
  ASSUME Typed, NEW s \in Statuses, Send(s)
  PROVE  omission' \in Seq(Events) /\ channel' \in Seq(Events)
<1>1. [status |-> s, encoded |-> 1] \in Events
  BY DEF Events
<1>2. Append(channel, [status |-> s, encoded |-> 1]) \in Seq(Events)
  BY <1>1, LastPut DEF Typed
<1>3. Append(omission, [status |-> s, encoded |-> 1]) \in Seq(Events)
  BY <1>1, LastPut DEF Typed
<1>4. QED
  BY <1>2, <1>3 DEF Send, Typed

\* startVpn keeps to the types.
LEMMA StartTyped ==
  ASSUME Typed, NEW b \in BOOLEAN, StartVpn(b)
  PROVE  /\ omission' \in Seq(Events) /\ channel' \in Seq(Events)
         /\ delayed' \in Seq({"start", "close"}) /\ vpnStatus' \in Statuses
         /\ asked' \subseteq {"start", "close"}
<1>1. (IF b THEN "Switching" ELSE "Connecting") \in Statuses
  BY DEF Statuses
<1>2. omission' \in Seq(Events) /\ channel' \in Seq(Events)
  BY <1>1, SendTyped DEF StartVpn
<1>3. delayed' \in Seq({"start", "close"})
  BY LastPut DEF StartVpn, Typed
<1>4. QED
  BY <1>2, <1>3 DEF StartVpn, Typed, Statuses

\* stopVpn keeps to the types.
LEMMA StopTyped ==
  ASSUME Typed, StopVpn
  PROVE  /\ omission' \in Seq(Events) /\ channel' \in Seq(Events)
         /\ delayed' \in Seq({"start", "close"})
         /\ vpnStatus' = vpnStatus /\ asked' = asked
<1>1. omission' \in Seq(Events) /\ channel' \in Seq(Events)
  BY SendTyped DEF StopVpn, Statuses
<1>2. delayed' \in Seq({"start", "close"})
  BY LastPut DEF StopVpn, Typed
<1>3. QED
  BY <1>1, <1>2 DEF StopVpn

-----------------------------------------------------------------------------
(***************************************************************************)
(* Types, sessions and dialogs.                                            *)
(***************************************************************************)
\* Unless one dialog has been stacked on another there is at most one, it is
\* known to be there, and it stands for what is shown.
OneDialog ==
    "stacked" \notin slip =>
        \/ dialogs = 0 /\ showing = FALSE
        \/ dialogs = 1 /\ showing = TRUE /\ shown \in Executing /\ page # "start"

\* An event that Flutter handles keeps to the types, and to one dialog.
LEMMA DealEventStep ==
  ASSUME Typed, OneDialog, DealEvent
  PROVE  Typed' /\ OneDialog'
<1> DEFINE e == Head(channel)
<1>1. e \in Events /\ Tail(channel) \in Seq(Events)
  BY LastKept DEF DealEvent, Typed
<1>2. e.status \in Statuses
  BY <1>1 DEF Events
<1>3. CASE e.encoded = 1 /\ e.status # shown
  <2>1. /\ channel' = Tail(channel) /\ shown' = e.status /\ Clock(e.status) /\ Dialog(e.status)
        /\ slip' = IF {shown, e.status} \subseteq Executing THEN slip \cup {"stacked"} ELSE slip
        /\ UNCHANGED <<life, linked, news, kotlin, calls, sink, omission, page>>
    BY <1>3 DEF DealEvent
  <2>2. ticks' \in BOOLEAN
    BY <2>1 DEF Clock, Typed
  <2>3. /\ showing' \in BOOLEAN /\ dialogs' \in Nat
        /\ showing' => dialogs' > 0
    <3>1. CASE page = "start"
      BY <2>1, <3>1 DEF Dialog, Typed
    <3>2. CASE page # "start" /\ e.status \in Executing
      <4>1. dialogs' = dialogs + 1 /\ showing' = TRUE
        BY <2>1, <3>2 DEF Dialog
      <4>2. QED
        BY <4>1 DEF Typed
    <3>3. CASE page # "start" /\ e.status \notin Executing
      <4>1. dialogs' = (IF showing THEN dialogs - 1 ELSE dialogs) /\ showing' = FALSE
        BY <2>1, <3>3 DEF Dialog
      <4>2. dialogs' \in Nat
        BY <4>1 DEF Typed
      <4>3. QED
        BY <4>1, <4>2
    <3>4. QED
      BY <3>1, <3>2, <3>3
  <2>4. Typed'
    BY <1>1, <1>2, <2>1, <2>2, <2>3 DEF Typed, life, kotlin
  <2>5. OneDialog'
    BY <2>1 DEF OneDialog, Dialog, Typed
  <2>6. QED
    BY <2>4, <2>5
<1>4. CASE ~(e.encoded = 1 /\ e.status # shown)
  <2>1. channel' = Tail(channel) /\ UNCHANGED <<shown, ticks, dialogs, showing, slip>>
    BY <1>4 DEF DealEvent
  <2>2. QED
    BY <1>1, <2>1 DEF DealEvent, Typed, OneDialog, life, kotlin
<1>5. QED
  BY <1>3, <1>4

\* A step keeps to the types.
LEMMA TypedStep ==
  ASSUME Typed, Held, OneDialog, [Next]_vars
  PROVE  Typed'
<1>1. CASE Serve
  <2>1. news' \in Seq(States)
    BY <1>1, ServeEffect, LastPut DEF Serve, Typed
  <2>2. QED
    BY <1>1, <2>1, ServeEffect DEF Serve, Typed, kotlin, bridge, flutter
<1>2. CASE Crash
  BY <1>2 DEF Crash, Service!Crash, Typed, States, kotlin, bridge, flutter
<1>3. CASE Connect
  BY <1>3 DEF Connect, Typed, States, Statuses, life, bridge, flutter
<1>4. CASE OnListen
  <2>1. channel' \in Seq(Events)
    BY <1>4, OnceMore DEF OnListen, Typed
  <2>2. omission' \in Seq(Events)
    BY <1>4 DEF OnListen
  <2>3. QED
    BY <1>4, <2>1, <2>2 DEF OnListen, Typed, life, kotlin, flutter
<1>5. CASE StateChanged
  <2>1. Head(news) \in States /\ Tail(news) \in Seq(States)
    BY <1>5, LastKept DEF StateChanged, Typed
  <2>2. Head(news) \in Statuses
    BY <2>1 DEF States, Statuses
  <2>3. omission' \in Seq(Events) /\ channel' \in Seq(Events) /\ vpnStatus' \in Statuses
    BY <1>5, <2>2, SendTyped DEF StateChanged, Typed
  <2>4. QED
    BY <1>5, <2>1, <2>2, <2>3 DEF StateChanged, Typed, life, flutter
<1>6. CASE Toggle
  <2>1. Tail(calls) \in Seq({"toggle", "permission", "switch"})
    BY <1>6, LastKept DEF Toggle, Typed
  <2>2. calls' \in Seq({"toggle", "permission", "switch"})
    BY <1>6, <2>1, LastPut DEF Toggle
  <2>3. /\ omission' \in Seq(Events) /\ channel' \in Seq(Events)
        /\ delayed' \in Seq({"start", "close"}) /\ vpnStatus' \in Statuses
        /\ asked' \subseteq {"start", "close"}
    <3>1. CASE StopVpn
      BY <3>1, StopTyped DEF Typed
    <3>2. CASE StartVpn(FALSE)
      BY <3>2, StartTyped
    <3>3. CASE UNCHANGED <<asked, vpnStatus, delayed, omission, channel>>
      BY <3>3 DEF Typed
    <3>4. QED
      BY <1>6, <3>1, <3>2, <3>3 DEF Toggle
  <2>4. QED
    BY <1>6, <2>2, <2>3 DEF Toggle, Typed, flutter
<1>7. CASE OnActivityResult
  <2>1. Tail(calls) \in Seq({"toggle", "permission", "switch"})
    BY <1>7, LastKept DEF OnActivityResult, Typed
  <2>2. /\ omission' \in Seq(Events) /\ channel' \in Seq(Events)
        /\ delayed' \in Seq({"start", "close"}) /\ vpnStatus' \in Statuses
        /\ asked' \subseteq {"start", "close"}
    <3>1. CASE StartVpn(FALSE)
      BY <3>1, StartTyped
    <3>2. CASE UNCHANGED <<asked, vpnStatus, delayed, omission, channel>>
      BY <3>2 DEF Typed
    <3>3. QED
      BY <1>7, <3>1, <3>2 DEF OnActivityResult
  <2>3. permitted' \in BOOLEAN
    BY <1>7 DEF OnActivityResult, Typed
  <2>4. QED
    BY <1>7, <2>1, <2>2, <2>3 DEF OnActivityResult, Typed, flutter
<1>8. CASE Switch
  <2>1. Tail(calls) \in Seq({"toggle", "permission", "switch"})
    BY <1>8, LastKept DEF Switch, Typed
  <2>2. StartVpn(TRUE)
    BY <1>8 DEF Switch
  <2>3. QED
    BY <1>8, <2>1, <2>2, StartTyped DEF Switch, Typed, flutter
<1>9. CASE Wake
  <2>1. Head(delayed) \in {"start", "close"} /\ Tail(delayed) \in Seq({"start", "close"})
    BY <1>9, LastKept DEF Wake, Typed
  <2>2. QED
    BY <1>9, <2>1 DEF Wake, Typed, bridge, flutter
<1>10. CASE Recreate
  <2>1. asked' \subseteq {"start", "close"}
    BY <1>10 DEF Recreate, Typed
  <2>2. /\ news' \in Seq(States) /\ delayed' \in Seq({"start", "close"})
        /\ calls' \in Seq({"toggle", "permission", "switch"})
        /\ omission' \in Seq(Events) /\ channel' \in Seq(Events)
    BY <1>10 DEF Recreate
  <2>3. QED
    BY <1>10, <2>1, <2>2 DEF Recreate, Typed, Statuses
<1>11. CASE Home
  BY <1>11 DEF Home, Typed, life, kotlin, bridge
<1>12. CASE Tap
  <2>1. calls' \in Seq({"toggle", "permission", "switch"})
    <3>1. \A c \in {"toggle", "permission", "switch"} :
             Append(calls, c) \in Seq({"toggle", "permission", "switch"})
      BY LastPut DEF Typed
    <3>2. QED
      BY <1>12, <3>1 DEF Tap, Typed
  <2>2. QED
    BY <1>12, <2>1 DEF Tap, Typed, life, kotlin
<1>13. CASE DealEvent
  BY <1>13, DealEventStep
<1>14. CASE UNCHANGED vars
  BY <1>14 DEF vars, Typed, life, kotlin, bridge, flutter
<1>15. QED
  BY <1>1, <1>2, <1>3, <1>4, <1>5, <1>6, <1>7, <1>8, <1>9, <1>10, <1>11, <1>12, <1>13, <1>14
     DEF Next

\* A step keeps Held and OneDialog: only DealEvent opens and closes dialogs.
LEMMA HeldStep ==
  ASSUME Typed, Held, OneDialog, [Next]_vars
  PROVE  Held' /\ OneDialog'
<1>1. CASE Serve
  BY <1>1, ServeEffect DEF Serve, OneDialog, flutter
<1>2. CASE Crash
  BY <1>2 DEF Crash, Service!Crash, Held, canStop, OneDialog, flutter
<1>3. CASE Connect
  BY <1>3 DEF Connect, Held, OneDialog, life, flutter
<1>4. CASE OnListen
  BY <1>4 DEF OnListen, Held, OneDialog, life, flutter
<1>5. CASE StateChanged
  BY <1>5 DEF StateChanged, Held, OneDialog, life, flutter
<1>6. CASE Toggle
  BY <1>6 DEF Toggle, Held, OneDialog, flutter
<1>7. CASE OnActivityResult
  <2>1. UNCHANGED <<state, open, dialogs, showing, shown, page>>
    BY <1>7 DEF OnActivityResult, flutter
  <2>2. slip \subseteq slip'
    BY <1>7 DEF OnActivityResult
  <2>3. permitted' = TRUE \/ permitted' = permitted
    BY <1>7 DEF OnActivityResult
  <2>4. QED
    BY <2>1, <2>2, <2>3 DEF Held, OneDialog
<1>8. CASE Switch
  BY <1>8 DEF Switch, Held, OneDialog, flutter
<1>9. CASE Wake
  BY <1>9 DEF Wake, Held, OneDialog, flutter
<1>10. CASE Recreate
  BY <1>10 DEF Recreate, Held, OneDialog
<1>11. CASE Home
  BY <1>11 DEF Home, Held, OneDialog, life
<1>12. CASE Tap
  BY <1>12 DEF Tap, Held, OneDialog, life
<1>13. CASE DealEvent
  BY <1>13, DealEventStep DEF DealEvent, Held, life
<1>14. CASE UNCHANGED vars
  BY <1>14 DEF vars, Held, OneDialog, life, flutter
<1>15. QED
  BY <1>1, <1>2, <1>3, <1>4, <1>5, <1>6, <1>7, <1>8, <1>9, <1>10, <1>11, <1>12, <1>13, <1>14
     DEF Next

\* The three hold at the start.
LEMMA InitTyped == Init => Typed /\ Held /\ OneDialog
<1> SUFFICES ASSUME Init PROVE Typed /\ Held /\ OneDialog
  OBVIOUS
<1>1. /\ news \in Seq(States) /\ delayed \in Seq({"start", "close"})
      /\ calls \in Seq({"toggle", "permission", "switch"})
      /\ omission \in Seq(Events) /\ channel \in Seq(Events)
  BY DEF Init
<1>2. Typed
  BY <1>1 DEF Init, Service!Init, Typed, States, Statuses
<1>3. QED
  BY <1>2 DEF Init, Service!Init, Held, canStop, OneDialog

\* Theorem: when what is shown is no status under execution and no dialog
\* has been stacked on another, no loading dialog is open - whatever is
\* tapped, whatever fails and whenever the activity is created again.
THEOREM DialogsEnd == Spec => []DialogGone
<1>1. Init => Typed /\ Held /\ OneDialog
  BY InitTyped
<1>2. Typed /\ Held /\ OneDialog /\ [Next]_vars => (Typed /\ Held /\ OneDialog)'
  BY TypedStep, HeldStep
<1>3. OneDialog => DialogGone
  BY DEF OneDialog, DialogGone
<1>4. QED
  BY <1>1, <1>2, <1>3, PTL DEF Spec

-----------------------------------------------------------------------------
(***************************************************************************)
(* What Flutter is told.                                                   *)
(***************************************************************************)
\* The status that Flutter shows once it has dealt with its events, if the
\* last of them can be decoded.
Said == IF channel = <<>> THEN shown ELSE channel[Len(channel)].status
Readable == channel # <<>> => channel[Len(channel)].encoded = 1

Pending(c) == c \in asked \/ \E i \in 1..Len(delayed) : delayed[i] = c

\* The activity has heard of the state, or it is the last news on its way.
Informed ==
    linked => IF news = <<>> THEN vpnState = state ELSE news[Len(news)] = state

\* While nobody listens nothing is tapped, and the state has not been told.
Deaf ==
    sink = FALSE => /\ calls = <<>> /\ page = "start" /\ channel = <<>>
                    /\ vpnStatus # "Switching"
                    /\ linked => "untold" \in slip

\* A switch that has not come to its end shows a status under execution.
Switches == vpnStatus = "Switching" => Readable /\ Said \in Executing

\* With no news on its way, what has been announced is the state - or the
\* service is on its way to another, or a command is that will take it there.
Announced ==
    linked /\ news = <<>> /\ vpnStatus # "Switching" /\ "untold" \notin slip =>
       /\ Readable
       /\ \/ Said = state
          \/ state \in {"Connecting", "Stopping"}
          \/ state = "Stopped" /\ Pending("start")
          \/ state = "Connected" /\ Pending("close")

Ticking == (shown = "Connected" => ticks = TRUE) /\ (shown = "Stopped" => ticks = FALSE)

Told == Informed /\ Deaf /\ Switches /\ Announced /\ Ticking

\* What is sent while Flutter listens is the last it has been told.
LEMMA SendSaid ==
  ASSUME Typed, NEW s \in Statuses, Send(s), sink, UNCHANGED shown
  PROVE  channel' # <<>> /\ Readable' /\ Said' = s
<1> DEFINE e == [status |-> s, encoded |-> 1]
<1>1. e \in Events /\ e.status = s /\ e.encoded = 1
  BY DEF Events
<1>2. channel' = Append(channel, e)
  BY DEF Send
<1>3. Append(channel, e) # <<>> /\ Append(channel, e)[Len(Append(channel, e))] = e
  BY <1>1, LastPut DEF Typed
<1>4. channel' # <<>> /\ channel'[Len(channel')] = e
  BY <1>2, <1>3, Zenon
<1>5. QED
  BY <1>1, <1>4 DEF Readable, Said

\* A coroutine that is started leaves the others, and its command is pending.
LEMMA DelayKeeps ==
  ASSUME Typed, NEW c \in {"start", "close"}, delayed' = Append(delayed, c), asked \subseteq asked'
  PROVE  /\ Pending(c)'
         /\ \A d \in {"start", "close"} : Pending(d) => Pending(d)'
<1>1. delayed' # <<>> /\ delayed'[Len(delayed')] = c /\ delayed' \in Seq({"start", "close"})
  <2> DEFINE Commands == {"start", "close"}
  <2>1. delayed \in Seq(Commands) /\ c \in Commands
    BY DEF Typed
  <2> HIDE DEF Commands
  <2>2. /\ Append(delayed, c) # <<>> /\ Append(delayed, c)[Len(Append(delayed, c))] = c
        /\ Append(delayed, c) \in Seq(Commands)
    BY <2>1, LastPut, Zenon
  <2>3. delayed' # <<>> /\ delayed'[Len(delayed')] = c /\ delayed' \in Seq(Commands)
    BY <2>2, Zenon
  <2>4. QED
    BY <2>3 DEF Commands
<1>2. Len(delayed') \in 1..Len(delayed')
  BY <1>1
<1>3. ASSUME NEW i \in 1..Len(delayed)
      PROVE  i \in 1..Len(delayed') /\ delayed'[i] = delayed[i]
  BY AllKept DEF Typed
<1>4. QED
  BY <1>1, <1>2, <1>3 DEF Pending

\* What the service does is news, and leaves alone what has been announced.
LEMMA ServeTold ==
  ASSUME Typed, Held, Told, Serve
  PROVE  Told'
<1>1. UNCHANGED <<linked, vpnState, vpnStatus, delayed, calls, sink, omission, channel, page,
                  shown, ticks, slip>>
  BY DEF Serve, kotlin, bridge, flutter
<1>2. Deaf' /\ Switches' /\ Ticking'
  BY <1>1 DEF Told, Deaf, Switches, Ticking, Readable, Said
<1>3. CASE linked /\ state' # state
  <2>1. news' = Append(news, state') /\ state' \in States
    BY <1>3, ServeEffect DEF Serve
  <2>2. news' # <<>> /\ news'[Len(news')] = state'
    <3>1. /\ Append(news, state') # <<>>
          /\ Append(news, state')[Len(Append(news, state'))] = state'
      BY <2>1, LastPut DEF Typed
    <3>2. QED
      BY <2>1, <3>1, Zenon
  <2>3. QED
    BY <1>2, <2>2 DEF Told, Informed, Announced
<1>4. CASE ~(linked /\ state' # state)
  <2>1. news' = news
    BY <1>4 DEF Serve
  <2>2. Informed'
    BY <1>1, <1>4, <2>1 DEF Told, Informed
  <2>3. Announced'
    <3> SUFFICES ASSUME linked /\ news = <<>> /\ vpnStatus # "Switching" /\ "untold" \notin slip
                 PROVE  Announced'
      BY <1>1, <2>1 DEF Announced
    <3>1. state' = state
      BY <1>4
    <3>2. Readable' = Readable /\ Said' = Said
      BY <1>1 DEF Readable, Said
    <3>3. state = "Stopped" /\ Pending("start") => Pending("start")'
      BY <1>1, <3>1, ServeEffect DEF Pending
    <3>4. state = "Connected" /\ Pending("close") => Pending("close")'
      BY <1>1, <3>1, ServeEffect DEF Pending
    <3>5. Readable
      BY DEF Told, Announced
    <3>6. \/ Said = state
          \/ state \in {"Connecting", "Stopping"}
          \/ state = "Stopped" /\ Pending("start")
          \/ state = "Connected" /\ Pending("close")
      BY DEF Told, Announced
    <3>7. QED
      BY <3>1, <3>2, <3>3, <3>4, <3>5, <3>6 DEF Announced
  <2>4. QED
    BY <1>2, <2>2, <2>3 DEF Told
<1>5. QED
  BY <1>3, <1>4

\* The news that stateChanged handles is the state, or more news is on its way.
LEMMA StateChangedTold ==
  ASSUME Typed, Told, StateChanged
  PROVE  Told'
<1> DEFINE s == Head(news)
<1>1. s \in States /\ s \in Statuses
  BY LastKept DEF StateChanged, Typed, States, Statuses
<1>2. /\ vpnState' = s /\ news' = Tail(news)
      /\ slip' = IF sink THEN slip \ {"untold"} ELSE slip \cup {"untold"}
      /\ UNCHANGED <<state, linked, calls, sink, page, shown, ticks>>
  BY DEF StateChanged, life, flutter
<1>3. Informed'
  <2>1. news # <<>> /\ news \in Seq(States)
    BY DEF StateChanged, Typed
  <2>2. /\ Tail(news) = <<>> => news[Len(news)] = s
        /\ Tail(news) # <<>> => Tail(news)[Len(Tail(news))] = news[Len(news)]
    BY <2>1, LastKept
  <2>3. linked => news[Len(news)] = state
    BY <2>1 DEF Told, Informed
  <2>4. /\ news' = <<>> => news[Len(news)] = s
        /\ news' # <<>> => news'[Len(news')] = news[Len(news)]
    BY <1>2, <2>2, Zenon
  <2>5. QED
    BY <1>2, <2>3, <2>4 DEF Informed
<1>4. Ticking'
  BY <1>2 DEF Told, Ticking
<1>5. CASE Hidden(s)
  <2>1. vpnStatus = "Switching" /\ UNCHANGED <<vpnStatus, channel>>
    BY <1>5 DEF StateChanged, Hidden
  <2>2. Deaf' /\ Switches' /\ Announced'
    BY <1>2, <2>1 DEF Told, Deaf, Switches, Announced, Readable, Said
  <2>3. QED
    BY <1>3, <1>4, <2>2 DEF Told
<1>6. CASE ~Hidden(s)
  <2>1. vpnStatus' = s /\ Send(s)
    BY <1>6 DEF StateChanged
  <2>2. Switches'
    BY <1>1, <2>1 DEF Switches, States
  <2>3. CASE sink
    <3>1. Readable' /\ Said' = s
      BY <1>1, <1>2, <2>1, <2>3, SendSaid
    <3>2. linked' /\ news' = <<>> => s = state'
      BY <1>2, <1>3 DEF Informed
    <3>3. Announced'
      BY <3>1, <3>2 DEF Announced
    <3>4. Deaf'
      BY <1>2, <2>3 DEF Deaf, Typed
    <3>5. QED
      BY <1>3, <1>4, <2>2, <3>3, <3>4 DEF Told
  <2>4. CASE ~sink
    <3>1. channel' = channel
      BY <2>1, <2>4 DEF Send
    <3>2. "untold" \in slip'
      BY <1>2, <2>4
    <3>3. Deaf' /\ Announced'
      BY <1>1, <1>2, <2>1, <2>4, <3>1, <3>2 DEF Told, Deaf, Announced, States
    <3>4. QED
      BY <1>3, <1>4, <2>2, <3>3 DEF Told
  <2>5. QED
    BY <2>3, <2>4
<1>7. QED
  BY <1>5, <1>6

\* While Flutter listens, startVpn and stopVpn announce what they will ask for.
\* They are called with the state that stateChanged has set: the command finds
\* the service in a state that it changes, unless there is news on its way.
LEMMA CommandTold ==
  ASSUME Typed, Told, sink, NEW c \in {"start", "close"},
         NEW s \in {"Connecting", "Stopping"}, Send(s),
         delayed' = Append(delayed, c), asked' = asked, vpnStatus' = vpnStatus,
         linked /\ news = <<>> /\ "untold" \notin slip' =>
             state \in IF c = "start" THEN {"Stopped", "Stopping"} ELSE canStop,
         slip \subseteq slip', sink' = sink,
         UNCHANGED <<state, linked, news, vpnState, page, shown, ticks>>
  PROVE  Told'
<1>1. Readable' /\ Said' = s
  BY SendSaid DEF Statuses
<1>2. Pending(c)'
  BY DelayKeeps
<1>3. Informed' /\ Ticking'
  BY DEF Told, Informed, Ticking
<1>4. Deaf'
  BY DEF Deaf
<1>5. Switches'
  BY <1>1 DEF Switches, Executing
<1>6. Announced'
  BY <1>1, <1>2 DEF Announced, canStop
<1>7. QED
  BY <1>3, <1>4, <1>5, <1>6 DEF Told

\* The button: what it does follows from vpnState.
LEMMA ToggleTold ==
  ASSUME Typed, Held, Told, Toggle
  PROVE  Told'
<1>1. calls # <<>> /\ sink
  BY DEF Toggle, Told, Deaf, Typed
<1>2. UNCHANGED <<state, linked, news, vpnState, sink, page, shown, ticks, slip>>
  BY DEF Toggle, flutter
<1>3. CASE vpnState \in canStop /\ StopVpn
  <2>1. Send("Stopping") /\ delayed' = Append(delayed, "close") /\ UNCHANGED <<vpnStatus, asked>>
    BY <1>3 DEF StopVpn
  <2>2. linked /\ news = <<>> => state \in canStop
    BY <1>3 DEF Told, Informed
  <2>3. QED
    BY <1>1, <1>2, <2>1, <2>2, CommandTold
<1>4. CASE vpnState \notin canStop /\ StartVpn(FALSE)
  <2>1. Send("Connecting") /\ delayed' = Append(delayed, "start") /\ UNCHANGED <<vpnStatus, asked>>
    BY <1>4 DEF StartVpn
  <2>2. linked /\ news = <<>> => state \in {"Stopped", "Stopping"}
    BY <1>4 DEF Told, Informed, Typed, States, canStop
  <2>3. QED
    BY <1>1, <1>2, <2>1, <2>2, CommandTold
<1>5. CASE UNCHANGED <<asked, vpnStatus, delayed, omission, channel>>
  BY <1>1, <1>2, <1>5 DEF Told, Informed, Deaf, Switches, Announced, Ticking, Readable, Said, Pending
<1>6. QED
  BY <1>3, <1>4, <1>5 DEF Toggle

\* The permission: without it there is no session that a start would find.
LEMMA ResultTold ==
  ASSUME Typed, Held, Told, OnActivityResult
  PROVE  Told'
<1>1. calls # <<>> /\ sink
  BY DEF OnActivityResult, Told, Deaf, Typed
<1>2. UNCHANGED <<state, linked, news, vpnState, sink, page, shown, ticks>>
  BY DEF OnActivityResult, flutter
<1>3. CASE StartVpn(FALSE) /\ slip' = IF permitted THEN slip \cup {"untold"} ELSE slip
  <2>1. Send("Connecting") /\ delayed' = Append(delayed, "start") /\ UNCHANGED <<vpnStatus, asked>>
    BY <1>3 DEF StartVpn
  <2>2. "untold" \notin slip' => state \in {"Stopped", "Stopping"}
    BY <1>3 DEF Held, Typed, States, canStop
  <2>3. slip \subseteq slip'
    BY <1>3
  <2>4. QED
    BY <1>1, <1>2, <2>1, <2>2, <2>3, CommandTold
<1>4. CASE UNCHANGED <<asked, vpnStatus, delayed, omission, channel, slip>>
  BY <1>1, <1>2, <1>4 DEF Told, Informed, Deaf, Switches, Announced, Ticking, Readable, Said, Pending
<1>5. QED
  BY <1>3, <1>4 DEF OnActivityResult

\* An event that Flutter deals with leaves the last one, or has become what
\* is shown.
LEMMA DealEventTold ==
  ASSUME Typed, Told, DealEvent
  PROVE  Told'
<1> DEFINE e == Head(channel)
<1>1. /\ channel # <<>> /\ channel \in Seq(Events) /\ channel' = Tail(channel)
      /\ UNCHANGED <<state, asked, linked, news, vpnState, vpnStatus, delayed, calls, sink, page>>
  BY DEF DealEvent, Typed, life, kotlin
<1>2. /\ Tail(channel) = <<>> => channel[Len(channel)] = e
      /\ Tail(channel) # <<>> => Tail(channel)[Len(Tail(channel))] = channel[Len(channel)]
  BY <1>1, LastKept
<1>3. /\ channel' = <<>> => channel[Len(channel)] = e
      /\ channel' # <<>> => channel'[Len(channel')] = channel[Len(channel)]
  BY <1>1, <1>2, Zenon
<1>4. sink
  BY <1>1 DEF Told, Deaf, Typed
<1>5. "untold" \in slip' <=> "untold" \in slip
  BY DEF DealEvent
<1>6. e.encoded = 1 => shown' = e.status
  BY DEF DealEvent
<1>7. Readable => Readable' /\ Said' = Said
  <2> SUFFICES ASSUME Readable PROVE Readable' /\ Said' = Said
    OBVIOUS
  <2>1. channel[Len(channel)].encoded = 1 /\ Said = channel[Len(channel)].status
    BY <1>1 DEF Readable, Said
  <2>2. CASE channel' = <<>>
    BY <1>3, <1>6, <2>1, <2>2 DEF Readable, Said
  <2>3. CASE channel' # <<>>
    BY <1>3, <2>1, <2>3 DEF Readable, Said
  <2>4. QED
    BY <2>2, <2>3
<1>8. Informed'
  BY <1>1 DEF Told, Informed
<1>9. Deaf'
  BY <1>1, <1>4 DEF Deaf
<1>10. Switches'
  BY <1>1, <1>7 DEF Told, Switches
<1>11. \A c : Pending(c)' = Pending(c)
  BY <1>1 DEF Pending
<1>12. Announced'
  BY <1>1, <1>5, <1>7, <1>11 DEF Told, Announced
<1>13. Ticking'
  BY DEF DealEvent, Clock, Told, Ticking
<1>14. QED
  BY <1>8, <1>9, <1>10, <1>12, <1>13 DEF Told

\* Every step keeps what Flutter is told.
LEMMA ToldStep ==
  ASSUME Typed, Held, Told, [Next]_vars
  PROVE  Told'
<1> USE DEF Told
<1>1. CASE Serve
  BY <1>1, ServeTold
<1>2. CASE Crash
  BY <1>2 DEF Crash, Informed, Deaf, Switches, Announced, Ticking, Readable, Said,
              kotlin, bridge, flutter
<1>3. CASE Connect
  BY <1>3 DEF Connect, Informed, Deaf, Switches, Announced, Ticking, Readable, Said,
              life, bridge, flutter
<1>4. CASE OnListen
  <2>1. /\ sink = FALSE /\ sink' = TRUE
        /\ UNCHANGED <<state, linked, news, vpnState, vpnStatus, shown, ticks, slip>>
    BY <1>4 DEF OnListen, life, kotlin, flutter, Typed
  <2>2. vpnStatus # "Switching" /\ (linked => "untold" \in slip)
    BY <2>1 DEF Deaf
  <2>3. QED
    BY <2>1, <2>2 DEF Informed, Deaf, Switches, Announced, Ticking
<1>5. CASE StateChanged
  BY <1>5, StateChangedTold
<1>6. CASE Toggle
  BY <1>6, ToggleTold
<1>7. CASE OnActivityResult
  BY <1>7, ResultTold
<1>8. CASE Switch
  <2>1. /\ UNCHANGED <<state, linked, news, vpnState, sink, page, shown, ticks, slip>>
        /\ Send("Switching") /\ vpnStatus' = "Switching" /\ calls # <<>>
    BY <1>8 DEF Switch, StartVpn, flutter
  <2>2. sink
    BY <2>1 DEF Deaf, Typed
  <2>3. Readable' /\ Said' = "Switching"
    BY <2>1, <2>2, SendSaid DEF Statuses
  <2>4. QED
    BY <2>1, <2>2, <2>3 DEF Informed, Deaf, Switches, Announced, Ticking, Executing
<1>9. CASE Wake
  <2>1. /\ UNCHANGED <<state, linked, news, vpnState, vpnStatus, calls, sink, channel, page,
                       shown, ticks, slip>>
        /\ asked' = asked \cup {Head(delayed)} /\ delayed' = Tail(delayed)
        /\ delayed # <<>> /\ delayed \in Seq({"start", "close"})
    BY <1>9 DEF Wake, bridge, flutter, Typed
  <2>2. \A c : Pending(c) => Pending(c)'
    <3> SUFFICES ASSUME NEW c, Pending(c) PROVE Pending(c)'
      OBVIOUS
    <3>1. CASE c \in asked'
      BY <3>1 DEF Pending
    <3>2. CASE c \notin asked'
      <4>1. PICK i \in 1..Len(delayed) : delayed[i] = c
        BY <2>1, <3>2 DEF Pending
      <4>2. c # Head(delayed)
        BY <2>1, <3>2
      <4>3. \E j \in 1..Len(Tail(delayed)) : Tail(delayed)[j] = delayed[i]
        BY <2>1, <4>1, <4>2, OthersKept
      <4>4. QED
        BY <2>1, <4>1, <4>3 DEF Pending
    <3>3. QED
      BY <3>1, <3>2
  <2>3. Informed' /\ Deaf' /\ Switches' /\ Ticking'
    BY <2>1 DEF Informed, Deaf, Switches, Ticking, Readable, Said
  <2>4. Announced'
    BY <2>1, <2>2 DEF Announced, Readable, Said
  <2>5. QED
    BY <2>3, <2>4
<1>10. CASE Recreate
  BY <1>10 DEF Recreate, Informed, Deaf, Switches, Announced, Ticking
<1>11. CASE Home
  BY <1>11 DEF Home, Informed, Deaf, Switches, Announced, Ticking, Readable, Said, Pending,
               life, kotlin, bridge
<1>12. CASE Tap
  <2>1. page # "start"
    BY <1>12 DEF Tap
  <2>2. sink
    BY <2>1 DEF Deaf, Typed
  <2>3. QED
    BY <1>12, <2>2 DEF Tap, Informed, Deaf, Switches, Announced, Ticking, Readable, Said, Pending,
                       life, kotlin
<1>13. CASE DealEvent
  BY <1>13, DealEventTold
<1>14. CASE UNCHANGED vars
  BY <1>14 DEF vars, Informed, Deaf, Switches, Announced, Ticking, Readable, Said, Pending,
               life, kotlin, bridge, flutter
<1>15. QED
  BY <1>1, <1>2, <1>3, <1>4, <1>5, <1>6, <1>7, <1>8, <1>9, <1>10, <1>11, <1>12, <1>13, <1>14
     DEF Next

\* Theorem: when nothing is under way, Flutter shows the state of the service,
\* its clock runs exactly while the service is connected, and the button does
\* what its label says - with the exceptions that ShownTrue names, for any
\* number of taps and with any faults.
THEOREM ShownFollows == Spec => []ShownTrue
<1> DEFINE UInv == Typed /\ Held /\ OneDialog /\ Told
<1>1. Init => UInv
  <2>1. Init => Told
    BY DEF Init, Told, Informed, Deaf, Switches, Announced, Ticking
  <2>2. QED
    BY <2>1, InitTyped
<1>2. UInv /\ [Next]_vars => UInv'
  BY TypedStep, HeldStep, ToldStep
<1>3. UInv => ShownTrue
  <2> SUFFICES ASSUME UInv PROVE ShownTrue
    OBVIOUS
  <2>1. TypeOK
    BY DEF TypeOK, Typed, States
  <2>2. Quiet => /\ vpnState = state /\ Said = shown
                 /\ ~Pending("start") /\ ~Pending("close")
    BY DEF Quiet, Told, Informed, Said, Pending
  <2>3. Quiet /\ vpnStatus # "Switching" /\ "untold" \notin slip => shown = state
    BY <2>2 DEF Quiet, Told, Announced
  <2>4. shown = state /\ state \in {"Stopped", "Connected"} => ticks = (state = "Connected")
    BY DEF Told, Ticking
  <2>5. Quiet /\ shown \notin Executing => vpnStatus # "Switching"
    BY <2>2 DEF Told, Switches
  <2>6. Quiet => state \in {"Stopped", "Connected"}
    BY DEF Quiet
  <2>7. Quiet /\ shown \notin Executing /\ "untold" \notin slip =>
            (shown = "Connected" <=> vpnState \in canStop)
    BY <2>2, <2>3, <2>5, <2>6 DEF canStop
  <2>8. QED
    BY <2>1, <2>3, <2>4, <2>6, <2>7 DEF ShownTrue
<1>4. QED
  BY <1>1, <1>2, <1>3, PTL DEF Spec

=============================================================================
