-------------------------- MODULE ProcessPoolProofs --------------------------
(***************************************************************************)
(* PoolInv is inductive, and with it no process outlives its guard and no  *)
(* guard ends silently, for any set of guards and any bound on restarts.   *)
(*                                                                         *)
(* Every action but Close changes one guard's record, so the proof is      *)
(* about records: Good(r, c) is PoolInv for one record under the value c   *)
(* of cancelled, the steps of the looper preserve it, and Replace lifts it *)
(* to the guards.                                                          *)
(***************************************************************************)
EXTENDS ProcessPool, TLAPS

Record ==
    [proc : {"none", "alive", "asked", "killed", "dead"},
     waiter : {"none", "waits", "sent"},
     recv : {"no", "wait", "handed"},
     pc : {"none", "loop", "callback", "term", "ask", "last", "end"},
     is : SUBSET {"running", "expired", "reported"},
     starts : 0..MaxStarts]

Good(r, c) ==
    /\ r \in Record
    /\ r.pc \notin {"none", "end"} <=> "running" \in r.is /\ r.pc # "end"
    /\ r.pc = "none" => r.recv = "no" /\ r.starts = 0
    /\ r.recv = "handed" => r.proc = "dead" /\ r.waiter = "sent"
    /\ r.recv = "no" <=> r.pc \in {"none", "callback", "end"}
    /\ r.pc = "end" => r.proc = "dead"
    /\ r.pc \in {"term", "ask", "last", "end"} => c \/ "reported" \in r.is

\* PoolInv says that every guard's record is good.
LEMMA InvIsGood ==
    PoolInv <=> /\ api \in Apis
                /\ cancelled \in BOOLEAN
                /\ guard \in [Guards -> Record]
                /\ \A g \in Guards : Good(guard[g], cancelled)
  BY DEF PoolInv, TypeOK, Good, Record

\* A step that puts a good record in the place of one guard's keeps PoolInv.
LEMMA Replace ==
    ASSUME PoolInv, NEW g \in Guards, NEW r, Good(r, cancelled), Set(g, r),
           UNCHANGED <<api, cancelled>>
    PROVE  PoolInv'
  <1>1. guard \in [Guards -> Record] /\ \A h \in Guards : Good(guard[h], cancelled)
    BY InvIsGood
  <1>2. r \in Record
    BY DEF Good
  <1>3. guard' \in [Guards -> Record]
    BY <1>1, <1>2 DEF Set
  <1>4. \A h \in Guards : guard'[h] = IF h = g THEN r ELSE guard[h]
    BY <1>1 DEF Set
  <1>5. \A h \in Guards : Good(guard'[h], cancelled')
    BY <1>1, <1>4
  <1> QED
    BY <1>3, <1>5, InvIsGood DEF PoolInv, TypeOK, Good, Record

\* What the steps of the looper do to the fields of a record.
LEMMA ReceiveFields ==
    ASSUME NEW r \in Record, NEW pc \in {"loop", "term", "ask", "last"}
    PROVE  LET s == Receive(r, pc)
           IN /\ s \in Record /\ s.pc = pc /\ s.recv = "wait"
              /\ "running" \in s.is <=> "running" \in r.is
              /\ "reported" \in s.is <=> "reported" \in r.is
  BY DEF Receive, Record

\* The kill of the process leaves a record in which the guard has the same flags.
LEMMA KillFields ==
    ASSUME NEW r \in Record
    PROVE  Kill(r) \in Record /\ Kill(r).is = r.is
  BY DEF Kill, Record

\* So does asking the process to end (SIGTERM).
LEMMA AskFields ==
    ASSUME NEW r \in Record
    PROVE  Ask(r) \in Record /\ Ask(r).is = r.is
  BY DEF Ask, Record

\* The looper ends.
LEMMA EndFields ==
    ASSUME NEW r \in Record
    PROVE  /\ End(r) \in Record /\ End(r).pc = "end" /\ End(r).recv = "no"
           /\ End(r).proc = r.proc
           /\ "reported" \in End(r).is <=> "reported" \in r.is
  BY DEF End, Record

\* ProcessBuilder.start succeeds.
LEMMA StartedFields ==
    ASSUME NEW r \in Record, r.starts < MaxStarts
    PROVE  /\ Started(r) \in Record /\ "running" \in Started(r).is
           /\ Started(r).recv = r.recv
  <1>1. r.starts + 1 \in 0..MaxStarts
    BY PoolAssumption DEF Record
  <1> QED
    BY <1>1 DEF Started, Record

\* A looper under way that receives is good, whatever it did before.
LEMMA WaitingGood ==
    ASSUME NEW c \in BOOLEAN, NEW r \in Record, "running" \in r.is,
           NEW pc \in {"loop", "term", "ask", "last"},
           pc = "loop" \/ c \/ "reported" \in r.is
    PROVE  Good(Receive(r, pc), c)
  BY ReceiveFields DEF Good

\* The last kill of the clean-up, with what it may find, leaves a good record.
LEMMA LastResortGood ==
    ASSUME NEW c \in BOOLEAN, NEW r \in Record, "running" \in r.is,
           c \/ "reported" \in r.is
    PROVE  Good(LastResort(r), c)
  <1>1. CASE api = 24
    BY <1>1, AskFields, WaitingGood DEF LastResort
  <1>2. CASE api # 24
    BY <1>2, KillFields, WaitingGood DEF LastResort
  <1>. QED  BY <1>1, <1>2

\* The finally block leads a looper that is under way, or one whose process
\* has exited, to a good record, provided that it may clean up.
LEMMA CleanupGood ==
    ASSUME api \in Apis, NEW c \in BOOLEAN, NEW r \in Record,
           "running" \in r.is \/ r.proc = "dead",
           c \/ "reported" \in r.is
    PROVE  Good(Cleanup(r), c)
  <1>1. api = 23 \/ api = 24 \/ api = 26
    BY PoolAssumption
  <1>2. CASE "running" \notin r.is
    <2>1. Cleanup(r) = End(r)
      BY <1>1, <1>2 DEF Cleanup
    <2> QED
      BY <1>2, <2>1, EndFields DEF Good
  <1>3. CASE "running" \in r.is /\ api = 23
    <2>1. Cleanup(r) = Receive(Ask(r), "term")
      BY <1>3 DEF Cleanup
    <2> QED
      BY <1>3, <2>1, AskFields, WaitingGood
  <1>4. CASE "running" \in r.is /\ api = 24
    <2>1. Cleanup(r) = LastResort(r)
      BY <1>4 DEF Cleanup
    <2> QED
      BY <1>4, <2>1, LastResortGood
  <1>5. CASE "running" \in r.is /\ api = 26
    <2>1. Cleanup(r) = Receive(Ask(r), "ask")
      BY <1>5 DEF Cleanup
    <2> QED
      BY <1>5, <2>1, AskFields, WaitingGood
  <1> QED
    BY <1>1, <1>2, <1>3, <1>4, <1>5 DEF Record

\* The same for a looper that leaves its loop with an IOException, which it
\* reports.
LEMMA FatalGood ==
    ASSUME api \in Apis, NEW c \in BOOLEAN, NEW r \in Record,
           "running" \in r.is \/ r.proc = "dead"
    PROVE  Good(Fatal(r), c)
  <1> DEFINE s == [r EXCEPT !.is = @ \cup {"reported"}]
  <1>1. s \in Record /\ ("running" \in s.is <=> "running" \in r.is) /\ s.proc = r.proc /\ "reported" \in s.is
    BY DEF Record
  <1>2. Good(Cleanup(s), c)
    <2> HIDE DEF s
    <2> QED BY <1>1, CleanupGood
  <1> QED
    BY <1>2 DEF Fatal

\* A restart that stays within the bound, and the top of the loop after it.
LEMMA StartedGood ==
    ASSUME NEW c \in BOOLEAN, NEW r \in Record, r.starts < MaxStarts
    PROVE  /\ Good(LoopTop(Started(r)), c)
           /\ r.recv = "no" => Good([Started(r) EXCEPT !.pc = "callback"], c)
  <1>1. Started(r) \in Record /\ "running" \in Started(r).is /\ Started(r).recv = r.recv
    BY StartedFields
  <1>2. ASSUME NEW s \in Record, "running" \in s.is PROVE Good(LoopTop(s), c)
    <2>1. [s EXCEPT !.waiter = "waits"] \in Record /\ [s EXCEPT !.waiter = "waits"].is = s.is
      BY DEF Record
    <2> QED
      BY <1>2, <2>1, WaitingGood DEF LoopTop
  <1>3. ASSUME NEW s \in Record, "running" \in s.is, s.recv = "no"
        PROVE  Good([s EXCEPT !.pc = "callback"], c)
    BY <1>3 DEF Good, Record
  <1> QED
    BY <1>1, <1>2, <1>3

\* PoolInv is an invariant of every pool: the guards of any number of
\* processes keep running and the channel in step with the process.
THEOREM PoolInvariant == Spec => []PoolInv
  <1>1. Init => PoolInv
    <2>1. Good(NoGuard, FALSE)
      BY PoolAssumption DEF NoGuard, Good, Record
    <2> QED
      BY <2>1, InvIsGood DEF Init, Good
  <1>2. PoolInv /\ [Next]_vars => PoolInv'
    <2> SUFFICES ASSUME PoolInv, [Next]_vars PROVE PoolInv'
      OBVIOUS
    <2>0. /\ api \in Apis /\ cancelled \in BOOLEAN
          /\ guard \in [Guards -> Record]
          /\ \A g \in Guards : Good(guard[g], cancelled) /\ guard[g] \in Record
      BY InvIsGood
    <2>1. ASSUME NEW g \in Guards, Start(g) PROVE PoolInv'
      <3>1. guard[g].starts < MaxStarts
        BY <2>0, <2>1, PoolAssumption DEF Start, Good
      <3> QED
        BY <2>0, <2>1, <3>1, StartedGood, Replace DEF Start
    <2>2. ASSUME NEW g \in Guards, Exit(g) PROVE PoolInv'
      <3>1. Good([guard[g] EXCEPT !.proc = "dead"], cancelled)
        BY <2>0 DEF Good, Record
      <3> QED
        BY <2>2, <3>1, Replace DEF Exit
    <2>3. ASSUME NEW g \in Guards, HandOver(g) PROVE PoolInv'
      <3>1. Good([guard[g] EXCEPT !.waiter = "sent", !.recv = "handed"], cancelled)
        BY <2>0, <2>3, ZenonT(60) DEF Good, Record, HandOver
      <3> QED
        BY <2>3, <3>1, Replace DEF HandOver
    <2>4. ASSUME NEW g \in Guards, Resume(g) PROVE PoolInv'
      <3> DEFINE r == [guard[g] EXCEPT !.is = @ \ {"running"}, !.recv = "no"]
                 s == [guard[g] EXCEPT !.recv = "no"]
      <3>1. guard[g].proc = "dead" /\ guard[g].pc \in {"loop", "term", "ask", "last"}
        BY <2>0, <2>4 DEF Resume, Good, Record
      <3>2. /\ r \in Record /\ r.recv = "no" /\ r.proc = "dead"
            /\ r.starts = guard[g].starts
            /\ s \in Record /\ "running" \in s.is /\ s.recv = "no"
        BY <2>0, <3>1, ZenonT(60) DEF Good, Record
      <3>3. CASE guard[g].pc = "loop" /\ cancelled
        <4>1. Set(g, Cleanup(s))
          BY <2>4, <3>3 DEF Resume
        <4>2. Good(Cleanup(s), cancelled)
          <5> HIDE DEF s
          <5> QED BY <2>0, <3>2, <3>3, CleanupGood
        <4> QED
          BY <2>4, <4>1, <4>2, Replace DEF Resume
      <3>4. CASE guard[g].pc = "loop" /\ ~cancelled
        <4>1. Exited(g)
          BY <2>4, <3>4 DEF Resume
        <4>2. CASE Set(g, Fatal(r))
          BY <2>0, <2>4, <3>2, <4>2, FatalGood, Replace DEF Resume
        <4>3. CASE /\ r.starts < MaxStarts
                   /\ Set(g, IF g \in Callbacks THEN [Started(r) EXCEPT !.pc = "callback"]
                                                ELSE LoopTop(Started(r)))
          <5>1. Good(LoopTop(Started(r)), cancelled) /\ Good([Started(r) EXCEPT !.pc = "callback"], cancelled)
            BY <2>0, <3>2, <4>3, StartedGood
          <5> QED
            BY <2>4, <4>3, <5>1, Replace DEF Resume
        <4> QED
          BY <4>1, <4>2, <4>3 DEF Exited
      <3>5. CASE guard[g].pc \in {"term", "ask", "last"}
        <4>1. Set(g, End(guard[g])) \/ Set(g, LastResort(guard[g]))
          BY <2>4, <3>5 DEF Resume
        <4>2. Good(LastResort(guard[g]), cancelled)
          BY <2>0, <3>5, LastResortGood DEF Good
        <4>3. Good(End(guard[g]), cancelled)
          <5>1. cancelled \/ "reported" \in guard[g].is
            BY <2>0, <3>5 DEF Good
          <5> QED
            BY <2>0, <3>1, <5>1, EndFields DEF Good
        <4> QED
          BY <2>4, <4>1, <4>2, <4>3, Replace DEF Resume
      <3> QED
        BY <3>1, <3>3, <3>4, <3>5
    <2>5. ASSUME NEW g \in Guards, Timeout(g) PROVE PoolInv'
      <3>1. Good(LastResort(guard[g]), cancelled)
        BY <2>0, <2>5, LastResortGood DEF Timeout, Good
      <3>2. Good([guard[g] EXCEPT !.is = @ \cup {"expired"}], cancelled)
        BY <2>0 DEF Good, Record
      <3> QED
        BY <2>5, <3>1, <3>2, Replace DEF Timeout
    <2>6. ASSUME NEW g \in Guards, CallbackEnds(g) PROVE PoolInv'
      <3>1. Good(LoopTop(guard[g]), cancelled)
        <4> DEFINE r == [guard[g] EXCEPT !.waiter = "waits"]
        <4>1. guard[g] \in Record /\ "running" \in guard[g].is
          BY <2>0, <2>6 DEF CallbackEnds, Good
        <4>2. r \in Record /\ "running" \in r.is
          BY <4>1 DEF Record
        <4>3. LoopTop(guard[g]) = Receive(r, "loop")
          BY DEF LoopTop
        <4> HIDE DEF r
        <4> QED
          BY <2>0, <4>2, <4>3, WaitingGood
      <3>2. Good(Fatal(guard[g]), cancelled)
        BY <2>0, <2>6, FatalGood DEF CallbackEnds, Good
      <3> QED
        BY <2>6, <3>1, <3>2, Replace DEF CallbackEnds
    <2>7. CASE Close
      <3>1. \A g \in Guards : Good(guard'[g], TRUE)
        <4> SUFFICES ASSUME NEW g \in Guards PROVE Good(guard'[g], TRUE)
          OBVIOUS
        <4>1. Good(guard[g], TRUE)
          BY <2>0 DEF Good
        <4>2. guard[g].pc \in {"loop", "callback"} => Good(Cleanup(guard[g]), TRUE)
          BY <2>0, CleanupGood DEF Good
        <4> QED
          BY <2>7, <4>1, <4>2 DEF Close
      <3>2. guard' \in [Guards -> Record]
        BY <2>7, <3>1 DEF Close, Good
      <3>3. api' \in Apis /\ cancelled' = TRUE
        BY <2>0, <2>7 DEF Close
      <3> QED
        BY <3>1, <3>2, <3>3 DEF PoolInv, TypeOK, Good, Record
    <2>8. CASE UNCHANGED vars
      BY <2>8 DEF vars, PoolInv, TypeOK
    <2> QED
      BY <2>1, <2>2, <2>3, <2>4, <2>5, <2>6, <2>7, <2>8 DEF Next
  <1> QED
    BY <1>1, <1>2, PTL DEF Spec

\* No process outlives its guard.
THEOREM PoolNoOrphan == Spec => []NoOrphan
  <1>1. PoolInv => NoOrphan
    BY DEF PoolInv, NoOrphan
  <1> QED
    BY <1>1, PoolInvariant, PTL

\* No guard of an open pool ends without a report.
THEOREM PoolNotSilent == Spec => []NotSilent
  <1>1. PoolInv => NotSilent
    BY DEF PoolInv, NotSilent
  <1> QED
    BY <1>1, PoolInvariant, PTL
=============================================================================
