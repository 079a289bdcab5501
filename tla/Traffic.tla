------------------------------- MODULE Traffic -------------------------------
(***************************************************************************)
(* TrafficMonitor: the socket thread that takes the totals ss-local sends, *)
(* the main thread that asks for updates (Binder.loop) and the persistence *)
(* of the totals in the profile.                                           *)
(*                                                                         *)
(* The fields are plain, so the steps of the two threads interleave; each  *)
(* read or write of a field is a step where the other thread can notice.   *)
(* A unit of traffic is one byte, and the clock moves by one second (delta *)
(* 1000) between updates: a rate is then the difference of two totals.     *)
(***************************************************************************)
EXTENDS Integers

CONSTANTS
    MaxTraffic, \* bound: the bytes one run of ss-local counts in a direction
    MaxCounted  \* bound: no more broadcasts once the profile has been given this

Dir == {"tx", "rx"}
Totals == [Dir -> 0..MaxTraffic]
Zero == [d \in Dir |-> 0]

ASSUME TrafficAssumption == MaxTraffic \in Nat /\ MaxCounted \in Nat

VARIABLES
    sent,       \* ss-local's own counters
    message,    \* the totals acceptInternal has read, and where it is
    current,    \* current.txTotal and rxTotal
    dirty,
    update,     \* where requestUpdate is, and the totals it has copied
    out,        \* out's totals and rates
    counted,    \* the totals in the profile
    persisted,  \* persisted is null (FALSE) or refers to current (TRUE)
    phase       \* "running", or "stopped" after ProxyInstance.shutdown

vars == <<sent, message, current, dirty, update, out, counted, persisted, phase>>

Init ==
    /\ sent = Zero /\ current = Zero /\ counted = Zero
    /\ message = [at |-> "accept", total |-> Zero]
    /\ dirty = FALSE
    /\ update = [at |-> "idle", copy |-> Zero]
    /\ out = [total |-> Zero, rate |-> Zero]
    /\ persisted = FALSE
    /\ phase = "running"

-----------------------------------------------------------------------------
\* ss-local: traffic, and a restart by its guard.
Count(d) ==
    /\ phase = "running" /\ sent[d] < MaxTraffic
    /\ sent' = [sent EXCEPT ![d] = @ + 1]
    /\ UNCHANGED <<message, current, dirty, update, out, counted, persisted, phase>>

Restart ==
    /\ phase = "running" /\ sent # Zero
    /\ sent' = Zero
    /\ UNCHANGED <<message, current, dirty, update, out, counted, persisted, phase>>

\* acceptInternal reads sixteen bytes.
Accept ==
    /\ message.at = "accept" /\ phase = "running"
    /\ message' = [at |-> "tx", total |-> sent]
    /\ UNCHANGED <<sent, current, dirty, update, out, counted, persisted, phase>>

After(at) ==
    CASE at = "tx" -> "txDirty" [] at = "txDirty" -> "rx"
      [] at = "rx" -> "rxDirty" [] at = "rxDirty" -> "accept"

\* A total that differs is written ...
WriteTotal(d) ==
    /\ message.at = d
    /\ current' = [current EXCEPT ![d] = message.total[d]]
    /\ message' = [message EXCEPT !.at = IF current[d] # message.total[d] THEN After(d)
                                         ELSE After(After(d))]
    /\ UNCHANGED <<sent, dirty, update, out, counted, persisted, phase>>

\* Fault: only the first of the two totals sets the flag.
WriteDirty_tx ==
    /\ message.at \in {"txDirty", "rxDirty"}
    /\ dirty' = (dirty \/ message.at = "txDirty")
    /\ message' = [message EXCEPT !.at = After(@)]
    /\ UNCHANGED <<sent, current, update, out, counted, persisted, phase>>

\* ... and then the flag is set.
WriteDirty ==
    /\ message.at \in {"txDirty", "rxDirty"}
    /\ dirty' = TRUE
    /\ message' = [message EXCEPT !.at = After(@)]
    /\ UNCHANGED <<sent, current, update, out, counted, persisted, phase>>

-----------------------------------------------------------------------------
\* Fault: an update without news leaves the rates as they are.
RequestUpdate_stay ==
    /\ update.at = "idle" /\ phase = "running"
    /\ update' = IF dirty THEN [update EXCEPT !.at = "tx"] ELSE update
    /\ UNCHANGED <<sent, message, current, dirty, out, counted, persisted, phase>>

\* requestUpdate looks at the flag: without news the rates are zero.
RequestUpdate ==
    /\ update.at = "idle" /\ phase = "running"
    /\ \/ dirty /\ update' = [update EXCEPT !.at = "tx"] /\ UNCHANGED out
       \/ ~dirty /\ out' = [out EXCEPT !.rate = Zero] /\ UNCHANGED update
    /\ UNCHANGED <<sent, message, current, dirty, counted, persisted, phase>>

\* current.copy() reads one total after the other, and out is replaced.
Copy(d) ==
    /\ update.at = d
    /\ update' = [at |-> IF d = "tx" THEN "rx" ELSE "reset",
                  copy |-> [update.copy EXCEPT ![d] = current[d]]]
    /\ out' = IF d = "tx" THEN out
              ELSE [total |-> update'.copy,
                    rate |-> [e \in Dir |-> update'.copy[e] - out.total[e]]]
    /\ UNCHANGED <<sent, message, current, dirty, counted, persisted, phase>>

\* dirty = false
Reset ==
    /\ update.at = "reset"
    /\ dirty' = FALSE
    /\ update' = [update EXCEPT !.at = "idle"]
    /\ UNCHANGED <<sent, message, current, out, counted, persisted, phase>>

-----------------------------------------------------------------------------
\* persistStats.  persisted is current itself, not a copy, so the check
\* compares an object with itself and never fails, and each call adds the
\* present totals to the profile once more.
PersistStats ==
    /\ counted' = [d \in Dir |-> counted[d] + current[d]]
    /\ persisted' = TRUE

\* ACTION_SHUTDOWN, as often as it comes.
Shutdown ==
    /\ phase = "running" /\ update.at = "idle"
    /\ \A d \in Dir : counted[d] < MaxCounted
    /\ PersistStats
    /\ UNCHANGED <<sent, message, current, dirty, update, out, phase>>

\* The stop of the service: ProxyInstance.shutdown closes the socket and
\* persists; the thread may still be in acceptInternal.
Stop ==
    /\ phase = "running" /\ update.at = "idle"
    /\ PersistStats
    /\ phase' = "stopped"
    /\ UNCHANGED <<sent, message, current, dirty, update, out>>

Next ==
    \/ \E d \in Dir : Count(d)
    \/ Restart
    \/ Accept
    \/ \E d \in Dir : WriteTotal(d)
    \/ WriteDirty
    \/ RequestUpdate
    \/ \E d \in Dir : Copy(d)
    \/ Reset
    \/ Shutdown
    \/ Stop

Spec == Init /\ [][Next]_vars

\* Binder.loop asks again and again while somebody listens, and both threads
\* get on.  ss-local need not count anything, nor the service stop.
Fairness ==
    /\ WF_vars(RequestUpdate)
    /\ \A d \in Dir : WF_vars(Copy(d)) /\ WF_vars(WriteTotal(d))
    /\ WF_vars(Reset) /\ WF_vars(WriteDirty)

FairSpec == Spec /\ Fairness

-----------------------------------------------------------------------------
\* The types of the variables.
TypeOK ==
    /\ sent \in Totals /\ current \in Totals
    /\ message \in [at : {"accept", "tx", "txDirty", "rx", "rxDirty"}, total : Totals]
    /\ dirty \in BOOLEAN
    /\ update \in [at : {"idle", "tx", "rx", "reset"}, copy : Totals]
    /\ out \in [total : Totals, rate : [Dir -> (-MaxTraffic)..MaxTraffic]]
    /\ counted \in [Dir -> Nat]
    /\ persisted \in BOOLEAN
    /\ phase \in {"running", "stopped"}

\* A total that the clients have not been shown is announced by the flag, or
\* the thread is about to set it.
Known ==
    \A d \in Dir : \/ current[d] = out.total[d] \/ dirty
                   \/ message.at = IF d = "tx" THEN "txDirty" ELSE "rxDirty"

\* No step makes the clients miss a total but the reset of the flag, which
\* comes after the copy: neither a torn copy, nor a report that arrives
\* between two updates, nor counters that start again.
MissedOnlyByReset == [][Known /\ ~Known' => update.at = "reset"]_vars

\* Once ss-local is silent, the rates shown to the clients become zero and
\* stay so, even if the last change was missed or the counters went back.
RatesSettle ==
    <>[][UNCHANGED sent]_sent => <>[](out.rate = Zero \/ phase = "stopped")
=============================================================================
