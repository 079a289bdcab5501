---------------------------- MODULE TrafficProofs ----------------------------
(***************************************************************************)
(* The late reset is the only way a total is hidden from the clients, for  *)
(* any amount of traffic.                                                  *)
(*                                                                         *)
(* MissedOnlyByReset is about single steps, but not of all states: copying *)
(* one total after the other would tear what is shown if the flag could be *)
(* down meanwhile.  So the invariant adds that the flag stays up from      *)
(* requestUpdate's look at it to its reset.                                *)
(***************************************************************************)
EXTENDS Traffic, TLAPS

\* requestUpdate is past its look at the flag only while the flag is up.
FlagUp == update.at # "idle" => dirty

IInv == TypeOK /\ FlagUp

\* A total stands between zero and the bound.
LEMMA ZeroTotal ==
    Zero \in Totals
  BY TrafficAssumption DEF Zero, Totals, Dir

\* Writing one of the two totals leaves totals.
LEMMA WriteOne ==
    ASSUME NEW t \in Totals, NEW d \in Dir, NEW v \in 0..MaxTraffic
    PROVE  [t EXCEPT ![d] = v] \in Totals
  BY DEF Totals

\* The rate is the difference of two totals.
LEMMA RateType ==
    ASSUME NEW t \in Totals, NEW u \in Totals
    PROVE  [e \in Dir |-> t[e] - u[e]] \in [Dir -> (-MaxTraffic)..MaxTraffic]
  BY TrafficAssumption DEF Totals

\* persistStats adds the present totals to those of the profile.
LEMMA PersistTypes ==
    ASSUME TypeOK, PersistStats
    PROVE  counted' \in [Dir -> Nat] /\ persisted' \in BOOLEAN
  BY TrafficAssumption DEF TypeOK, PersistStats, Totals

\* The initial state.
LEMMA InitInv ==
    Init => IInv
  <1>. SUFFICES ASSUME Init PROVE IInv
    OBVIOUS
  <1>1. Zero \in [Dir -> (-MaxTraffic)..MaxTraffic] /\ Zero \in [Dir -> Nat]
    BY TrafficAssumption DEF Zero
  <1>. QED  BY <1>1, ZeroTotal DEF Init, IInv, TypeOK, FlagUp

\* Every step preserves the types and keeps the flag up during an update.
LEMMA NextInv ==
    IInv /\ [Next]_vars => IInv'
  <1>. SUFFICES ASSUME IInv, [Next]_vars PROVE IInv'
    OBVIOUS
  <1>. USE DEF IInv
  <1>1. ASSUME NEW d \in Dir, Count(d) PROVE IInv'
    <2>1. sent[d] + 1 \in 0..MaxTraffic
      BY <1>1, TrafficAssumption DEF Count, TypeOK, Totals
    <2>2. sent' \in Totals
      BY <1>1, <2>1, WriteOne DEF Count, TypeOK
    <2>. QED  BY <1>1, <2>2 DEF Count, TypeOK, FlagUp
  <1>2. CASE Restart
    BY <1>2, ZeroTotal DEF Restart, TypeOK, FlagUp
  <1>3. CASE Accept
    BY <1>3 DEF Accept, TypeOK, FlagUp
  <1>4. ASSUME NEW d \in Dir, WriteTotal(d) PROVE IInv'
    <2>1. message.total[d] \in 0..MaxTraffic
      BY DEF TypeOK, Totals
    <2>2. current' \in Totals
      BY <1>4, <2>1, WriteOne DEF WriteTotal, TypeOK
    <2>3. message'.at \in {"accept", "txDirty", "rx", "rxDirty"} /\ message'.total = message.total
      BY <1>4 DEF WriteTotal, TypeOK, After, Dir
    <2>4. message' \in [at : {"accept", "tx", "txDirty", "rx", "rxDirty"}, total : Totals]
      BY <1>4, <2>3 DEF WriteTotal, TypeOK
    <2>. QED  BY <1>4, <2>2, <2>4 DEF WriteTotal, TypeOK, FlagUp
  <1>5. CASE WriteDirty
    <2>1. message' \in [at : {"accept", "tx", "txDirty", "rx", "rxDirty"}, total : Totals]
      BY <1>5 DEF WriteDirty, TypeOK, After
    <2>. QED  BY <1>5, <2>1 DEF WriteDirty, TypeOK, FlagUp
  <1>6. CASE RequestUpdate
    <2>1. CASE dirty
      <3>1. update' \in [at : {"idle", "tx", "rx", "reset"}, copy : Totals]
        BY <1>6, <2>1 DEF RequestUpdate, TypeOK
      <3>. QED  BY <1>6, <2>1, <3>1 DEF RequestUpdate, TypeOK, FlagUp
    <2>2. CASE ~dirty
      <3>1. Zero \in [Dir -> (-MaxTraffic)..MaxTraffic]
        BY TrafficAssumption DEF Zero
      <3>2. out' \in [total : Totals, rate : [Dir -> (-MaxTraffic)..MaxTraffic]]
        BY <1>6, <2>2, <3>1 DEF RequestUpdate, TypeOK
      <3>. QED  BY <1>6, <2>2, <3>2 DEF RequestUpdate, TypeOK, FlagUp
    <2>. QED  BY <2>1, <2>2
  <1>7. ASSUME NEW d \in Dir, Copy(d) PROVE IInv'
    <2>1. current[d] \in 0..MaxTraffic
      BY DEF TypeOK, Totals
    <2>2. update'.copy \in Totals
      BY <1>7, <2>1, WriteOne DEF Copy, TypeOK
    <2>3. update' \in [at : {"idle", "tx", "rx", "reset"}, copy : Totals]
      BY <1>7, <2>2 DEF Copy
    <2>4. out' \in [total : Totals, rate : [Dir -> (-MaxTraffic)..MaxTraffic]]
      BY <1>7, <2>2, RateType DEF Copy, TypeOK
    <2>5. dirty
      BY <1>7 DEF Copy, FlagUp, Dir
    <2>. QED  BY <1>7, <2>3, <2>4, <2>5 DEF Copy, TypeOK, FlagUp
  <1>8. CASE Reset
    <2>1. update' \in [at : {"idle", "tx", "rx", "reset"}, copy : Totals] /\ update'.at = "idle"
      BY <1>8 DEF Reset, TypeOK
    <2>. QED  BY <1>8, <2>1 DEF Reset, TypeOK, FlagUp
  <1>9. CASE Shutdown
    BY <1>9, PersistTypes DEF Shutdown, TypeOK, FlagUp
  <1>10. CASE Stop
    BY <1>10, PersistTypes DEF Stop, TypeOK, FlagUp
  <1>11. CASE UNCHANGED vars
    BY <1>11 DEF vars, TypeOK, FlagUp
  <1>. QED
    BY <1>1, <1>2, <1>3, <1>4, <1>5, <1>6, <1>7, <1>8, <1>9, <1>10, <1>11 DEF Next

\* Under the invariant, a step that hides a total is the reset.
LEMMA StepShows ==
    ASSUME IInv, Next, Known, ~Known'
    PROVE  update.at = "reset"
  <1>. USE DEF IInv
  <1>1. ASSUME NEW d \in Dir, Count(d) PROVE Known'
    BY <1>1 DEF Count, Known
  <1>2. CASE Restart
    BY <1>2 DEF Restart, Known
  <1>3. CASE Accept
    BY <1>3 DEF Accept, Known, Dir
  <1>4. ASSUME NEW d \in Dir, WriteTotal(d) PROVE Known'
    <2>1. ASSUME NEW e \in Dir, ~dirty
          PROVE  \/ current'[e] = out.total[e]
                 \/ message'.at = IF e = "tx" THEN "txDirty" ELSE "rxDirty"
      <3>1. current[e] = out.total[e]
        BY <1>4, <2>1 DEF WriteTotal, Known, Dir
      <3>2. CASE e # d
        BY <1>4, <3>1, <3>2 DEF WriteTotal, TypeOK, Totals
      <3>3. CASE e = d
        BY <1>4, <3>1, <3>3 DEF WriteTotal, TypeOK, Totals, After, Dir
      <3>. QED  BY <3>2, <3>3
    <2>. QED  BY <1>4, <2>1 DEF WriteTotal, Known
  <1>5. CASE WriteDirty
    BY <1>5 DEF WriteDirty, Known
  <1>6. CASE RequestUpdate
    BY <1>6 DEF RequestUpdate, Known, TypeOK
  <1>7. ASSUME NEW d \in Dir, Copy(d) PROVE Known'
    BY <1>7 DEF Copy, Known, FlagUp, Dir
  <1>8. CASE Reset
    BY <1>8 DEF Reset
  <1>9. CASE Shutdown
    BY <1>9 DEF Shutdown, Known
  <1>10. CASE Stop
    BY <1>10 DEF Stop, Known
  <1>. QED
    BY <1>1, <1>2, <1>3, <1>4, <1>5, <1>6, <1>7, <1>8, <1>9, <1>10 DEF Next

\* No step but the write of dirty at the end of requestUpdate makes the
\* clients miss a total.
THEOREM OnlyResetHides == Spec => MissedOnlyByReset
  <1>1. IInv /\ [Next]_vars => [Known /\ ~Known' => update.at = "reset"]_vars
    BY StepShows
  <1>. QED  BY <1>1, InitInv, NextInv, PTL DEF Spec, MissedOnlyByReset
=============================================================================
