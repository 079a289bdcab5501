----------------------------- MODULE VpnRefinement -----------------------------
(***************************************************************************)
(* VpnService implements Lifecycle.  Of the queue of the main thread only  *)
(* the commands are seen, of the fields only the receiver, and of the      *)
(* coroutines of stopRunner only whether one will start the service again. *)
(***************************************************************************)
EXTENDS VpnService

\* The commands among the messages of the main thread.
Asked == {c \in {"start", "close", "reload"} : \E i \in 1..Len(main) : main[i] = [what |-> c]}

Restarts == \E k \in Stops : stopper[k].at # "idle" /\ stopper[k].restart

Receiving == field["receiver"] # None

Life == INSTANCE Lifecycle WITH asked <- Asked, restart <- Restarts, open <- Receiving

\* Every step of the service, of its jobs, its guards and its stops is a step
\* that Lifecycle allows, or one that nobody outside can see.
ImplementsLifecycle == Life!Spec
=============================================================================
