--------------------------- MODULE ChunkBuffer2Proofs ---------------------------
(***************************************************************************)
(* The ring of ChunkBuffer2 for every size, every maximal length and every *)
(* sequence of submitted and consumed packets.                             *)
(***************************************************************************)
EXTENDS ChunkBuffer2, TLAPS

\* The rings of n blocks over a set S of packets.
Ring(S, n) ==
    [size : {n}, wrap : Int, start : Int, used : Int, mtu : Int,
     data : [0..(n - 1) -> S], heads : SUBSET Int,
     input_avail : Int, output_avail : Int]

Packets(S) == Data \in S /\ \A p \in S : p.len \in Int

\* The types of the fields of a ring, and of what is computed from them.
LEMMA RingTypes ==
  ASSUME NEW S, NEW n \in Nat, NEW b \in Ring(S, n)
  PROVE  /\ b.size = n /\ b.wrap \in Int /\ b.start \in Int /\ b.used \in Int /\ b.mtu \in Int
         /\ b.data \in [0..(n - 1) -> S] /\ b.heads \in SUBSET Int
         /\ b.input_avail \in Int /\ b.output_avail \in Int
         /\ end(b) \in Int /\ free(b) \in Int /\ update_input(b) \in Int
  PROOF
  <1>1. /\ b.size = n /\ b.wrap \in Int /\ b.start \in Int /\ b.used \in Int /\ b.mtu \in Int
        /\ b.data \in [0..(n - 1) -> S] /\ b.heads \in SUBSET Int
        /\ b.input_avail \in Int /\ b.output_avail \in Int
    BY DEF Ring
  <1>2. end(b) \in Int
    BY <1>1 DEF end, Wrapped
  <1>3. free(b) \in Int
    BY <1>1, <1>2 DEF free
  <1>4. update_input(b) \in Int
    BY <1>1, <1>2, <1>3 DEF update_input
  <1>. QED  BY <1>1, <1>2, <1>3, <1>4

\* What SubmitPacket does to each field.
LEMMA SubmitFields ==
  ASSUME NEW S, NEW n \in Nat, NEW b \in Ring(S, n), NEW p \in S, Packets(S),
         AssertBuffer(b)
  PROVE  LET d == SubmitPacket(b, p)
         IN  /\ d \in Ring(S, n)
             /\ d.size = b.size /\ d.start = b.start /\ d.mtu = b.mtu
             /\ d.used = b.used + (1 + p.len)
             /\ d.wrap = NewWrap(b, 1 + p.len)
             /\ d.data = Written(b, p)
             /\ d.heads = b.heads \cup {b.used}
             /\ d.input_avail = update_input(d)
             /\ d.output_avail = IF d.used = 1 + p.len THEN update_output(d) ELSE b.output_avail
  PROOF
  <1>. DEFINE m == 1 + p.len
              d == [b EXCEPT !.data = Written(b, p), !.heads = @ \cup {b.used},
                             !.used = @ + m, !.wrap = NewWrap(b, m)]
              e == SubmitPacket(b, p)
  <1>1. /\ b.size = n /\ b.wrap \in Int /\ b.start \in Int /\ b.used \in Int /\ b.mtu \in Int
        /\ b.data \in [0..(n - 1) -> S] /\ b.heads \in SUBSET Int
        /\ b.input_avail \in Int /\ b.output_avail \in Int /\ end(b) \in Int
    BY RingTypes
  <1>2. p.len \in Int /\ Data \in S
    BY DEF Packets
  <1>3. Written(b, p) \in [0..(n - 1) -> S]
    BY <1>1, <1>2 DEF Written
  <1>4. NewWrap(b, m) \in Int
    BY <1>1, <1>2 DEF NewWrap
  <1>5. /\ d \in Ring(S, n)
        /\ d.size = b.size /\ d.start = b.start /\ d.mtu = b.mtu /\ d.used = b.used + m
        /\ d.wrap = NewWrap(b, m) /\ d.data = Written(b, p) /\ d.heads = b.heads \cup {b.used}
        /\ d.output_avail = b.output_avail
    <2>1. m \in Int
      BY <1>2
    <2>. HIDE DEF m
    <2>2. b.used + m \in Int
      BY <2>1, <1>1
    <2>. QED  BY <1>1, <1>3, <1>4, <2>2 DEF Ring
  <1>6. e = [d EXCEPT !.input_avail = update_input(d),
                      !.output_avail = IF d.used = m THEN update_output(d) ELSE @]
    BY DEF SubmitPacket
  <1>. HIDE DEF d
  <1>7. update_input(d) \in Int /\ d.start \in Int /\ d.used \in Int
    BY <1>5, RingTypes
  <1>8. ASSUME d.used = m PROVE update_output(d) \in Int
    <2>1. d.start \in 0..(n - 1) /\ d.data \in [0..(n - 1) -> S]
      BY <1>1, <1>3, <1>5 DEF AssertBuffer
    <2>. QED  BY <2>1, <1>7 DEF update_output, Packets
  <1>. HIDE DEF e, m
  <1>9. /\ e \in Ring(S, n)
        /\ e.size = d.size /\ e.start = d.start /\ e.mtu = d.mtu /\ e.used = d.used
        /\ e.wrap = d.wrap /\ e.data = d.data /\ e.heads = d.heads
        /\ e.input_avail = update_input(d)
        /\ e.output_avail = IF d.used = m THEN update_output(d) ELSE d.output_avail
    BY <1>5, <1>6, <1>7, <1>8 DEF Ring
  <1>10. update_input(e) = update_input(d) /\ update_output(e) = update_output(d)
    BY <1>9 DEF update_input, update_output, free, end, Wrapped
  <1>. QED  BY <1>5, <1>9, <1>10 DEF e, m

\* The ChunkBuffer2_SubmitPacket of a packet for which there is room keeps the
\* ring sound: it writes over no packet that is still to be read, and leaves
\* input_avail and output_avail as they would be computed anew.
THEOREM SubmitSound ==
  ASSUME NEW S, NEW n \in Nat, NEW b \in Ring(S, n), NEW p \in S, Packets(S),
         Sound(b), CanSubmit(b, p)
  PROVE  SubmitPacket(b, p) \in Ring(S, n) /\ Sound(SubmitPacket(b, p))
  PROOF
  <1>. DEFINE m == 1 + p.len
              e == SubmitPacket(b, p)
  <1>1. /\ b.size = n /\ b.wrap \in Int /\ b.start \in Int /\ b.used \in Int /\ b.mtu \in Int
        /\ b.input_avail \in Int /\ end(b) \in Int /\ free(b) \in Int
    BY RingTypes
  <1>0. b.data \in [0..(n - 1) -> S] /\ b.heads \in SUBSET Int
    BY RingTypes
  <1>2. AssertBuffer(b) /\ AssertIo(b) /\ Tiled(b) /\ Roomy(b)
    BY DEF Sound
  <1>3. /\ e \in Ring(S, n)
        /\ e.size = b.size /\ e.start = b.start /\ e.mtu = b.mtu
        /\ e.used = b.used + m
        /\ e.wrap = NewWrap(b, m)
        /\ e.data = Written(b, p)
        /\ e.heads = b.heads \cup {b.used}
        /\ e.input_avail = update_input(e)
        /\ e.output_avail = IF e.used = m THEN update_output(e) ELSE b.output_avail
    BY SubmitFields, <1>2
  <1>. HIDE DEF e
  <1>4. /\ m \in Int /\ 1 <= m /\ m <= free(b)
        /\ b.size - end(b) - 1 >= b.mtu
        /\ p.len \in Int
    BY <1>1, <1>2 DEF CanSubmit, AssertIo, update_input, Packets
  <1>. HIDE DEF m
  <1>. DEFINE len(o) == b.data[Pos(b, o)].len
  <1>5. ASSUME NEW o \in b.heads
        PROVE  /\ o \in Int /\ 0 <= o /\ o < b.used
               /\ 1 + len(o) >= 1 /\ len(o) \in Int
               /\ o + (1 + len(o)) <= b.used
               /\ b.start + o < b.wrap => b.start + o + (1 + len(o)) <= b.wrap
               /\ Pos(b, o) \in 0..(n - 1)
    <2>1. o \in Int /\ 0 <= o /\ o < b.used
      BY <1>0, <1>1, <1>2 DEF Tiled
    <2>2. Pos(b, o) \in 0..(n - 1)
      BY <1>1, <1>2, <2>1 DEF AssertBuffer, Pos
    <2>3. len(o) \in Int
      BY <1>0, <2>2 DEF Packets
    <2>4. /\ 1 + len(o) >= 1
          /\ o + (1 + len(o)) \in b.heads \cup {b.used}
          /\ b.start + o < b.wrap => b.start + o + (1 + len(o)) <= b.wrap
      BY <1>2 DEF Tiled
    <2>5. \A q \in b.heads : q < b.used
      BY <1>0, <1>1, <1>2 DEF Tiled
    <2>. HIDE DEF len
    <2>6. o + (1 + len(o)) <= b.used
      BY <1>1, <2>1, <2>3, <2>4, <2>5
    <2>. QED  BY <2>1, <2>2, <2>3, <2>4, <2>6
  <1>. HIDE DEF len
  <1>6. /\ AssertBuffer(e) /\ Roomy(e)
        /\ end(b) \in 0..(n - 1) /\ Pos(e, b.used) = end(b)
        /\ e.start + b.used < e.wrap => e.start + b.used + m <= e.wrap
        /\ \A o \in b.heads :
              /\ Pos(e, o) = Pos(b, o)
              /\ Pos(b, o) < end(b) \/ Pos(b, o) >= end(b) + m
              /\ e.start + o < e.wrap => e.start + o + (1 + len(o)) <= e.wrap
    <2>1. CASE Wrapped(b)
      <3>1. /\ end(b) = b.used - (b.wrap - b.start)
            /\ end(b) >= 0 /\ end(b) + m <= b.start
        BY <1>1, <1>2, <1>4, <2>1 DEF end, free, Wrapped, AssertBuffer
      <3>2. e.wrap = b.wrap
        BY <1>1, <1>3, <1>4, <2>1 DEF NewWrap, Wrapped
      <3>3. Wrapped(e)
        BY <1>1, <1>3, <1>4, <2>1, <3>2 DEF Wrapped
      <3>4. AssertBuffer(e) /\ Roomy(e)
        BY <1>1, <1>2, <1>3, <1>4, <3>1, <3>2, <3>3 DEF AssertBuffer, Roomy
      <3>5. Pos(e, b.used) = end(b) /\ ~(e.start + b.used < e.wrap)
        BY <1>1, <1>3, <2>1, <3>1, <3>2 DEF Pos, Wrapped
      <3>6. end(b) \in 0..(n - 1)
        BY <1>1, <1>2, <1>4, <3>1 DEF AssertBuffer
      <3>7. \A o \in b.heads :
              /\ Pos(e, o) = Pos(b, o)
              /\ Pos(b, o) < end(b) \/ Pos(b, o) >= end(b) + m
              /\ e.start + o < e.wrap => e.start + o + (1 + len(o)) <= e.wrap
        BY <1>1, <1>3, <1>4, <1>5, <3>1, <3>2 DEF Pos
      <3>. QED  BY <3>4, <3>5, <3>6, <3>7
    <2>2. CASE ~Wrapped(b)
      <3>1. /\ end(b) = b.start + b.used /\ b.wrap = n
            /\ end(b) >= 0 /\ end(b) + m <= n
        BY <1>1, <1>2, <1>4, <2>2 DEF end, free, AssertBuffer
      <3>2. \/ e.wrap = end(b) + m /\ b.mtu > n - (end(b) + m) - 1
            \/ e.wrap = n /\ b.mtu <= n - (end(b) + m) - 1
        BY <1>1, <1>3, <1>4, <3>1 DEF NewWrap
      <3>3. AssertBuffer(e)
        BY <1>1, <1>2, <1>3, <1>4, <3>1, <3>2 DEF AssertBuffer, Wrapped
      <3>4. Roomy(e)
        BY <1>1, <1>2, <1>3, <1>4, <3>1, <3>2 DEF AssertBuffer, Roomy, Wrapped, end
      <3>5. Pos(e, b.used) = end(b) /\ e.start + b.used + m <= e.wrap
        BY <1>1, <1>2, <1>3, <1>4, <3>1, <3>2 DEF Pos, AssertBuffer
      <3>6. end(b) \in 0..(n - 1)
        BY <1>1, <1>4, <3>1
      <3>7. \A o \in b.heads :
              /\ Pos(e, o) = Pos(b, o)
              /\ Pos(b, o) < end(b) \/ Pos(b, o) >= end(b) + m
              /\ e.start + o < e.wrap => e.start + o + (1 + len(o)) <= e.wrap
        BY <1>1, <1>3, <1>4, <1>5, <3>1, <3>2 DEF Pos
      <3>. QED  BY <3>3, <3>4, <3>5, <3>6, <3>7
    <2>. QED  BY <2>1, <2>2
  <1>. HIDE DEF Sound
  <1>7. \A o \in b.heads : e.data[Pos(e, o)] = b.data[Pos(b, o)]
    <2>. TAKE o \in b.heads
    <2>1. /\ Pos(e, o) = Pos(b, o) /\ Pos(b, o) \in 0..(n - 1)
          /\ Pos(b, o) < end(b) \/ Pos(b, o) >= end(b) + (1 + p.len)
      BY <1>5, <1>6 DEF m
    <2>2. Pos(b, o) # end(b) /\ ~(end(b) < Pos(b, o) /\ Pos(b, o) <= end(b) + p.len)
      BY <1>1, <1>4, <2>1 DEF m
    <2>3. Written(b, p)[Pos(b, o)] = b.data[Pos(b, o)]
      BY <1>1, <2>1, <2>2 DEF Written
    <2>. QED  BY <1>3, <2>1, <2>3
  <1>8. e.data[Pos(e, b.used)] = p
    BY <1>1, <1>3, <1>6 DEF Written
  <1>9. AssertIo(e)
    <2>1. CASE e.used = m
      BY <1>3, <2>1 DEF AssertIo
    <2>2. CASE e.used # m
      <3>1. b.used > 0 /\ e.used > 0 /\ 0 \in b.heads
        BY <1>1, <1>2, <1>3, <1>4, <2>2 DEF AssertBuffer, Tiled
      <3>2. Pos(b, 0) = b.start /\ Pos(e, 0) = e.start
        BY <1>1, <1>2, <1>3, <1>6, <3>1 DEF AssertBuffer, Pos
      <3>3. update_output(e) = update_output(b)
        BY <1>7, <3>1, <3>2 DEF update_output
      <3>. QED  BY <1>2, <1>3, <2>2, <3>3 DEF AssertIo
    <2>. QED  BY <2>1, <2>2
  <1>10. Tiled(e)
    <2>1. e.heads \subseteq 0..(e.used - 1) /\ 0 \in e.heads
      BY <1>1, <1>2, <1>3, <1>4 DEF Tiled, AssertBuffer
    <2>2. ASSUME NEW o \in e.heads
          PROVE  LET k == 1 + e.data[Pos(e, o)].len
                 IN  /\ k >= 1
                     /\ o + k \in e.heads \cup {e.used}
                     /\ e.start + o < e.wrap => e.start + o + k <= e.wrap
                     /\ e.size - Pos(e, o) - 1 >= e.mtu
                     /\ \A q \in e.heads : o < q => o + k <= q
      <3>1. CASE o \in b.heads
        <4>1. 1 + e.data[Pos(e, o)].len = 1 + len(o)
          BY <1>7, <3>1 DEF len
        <4>2. /\ o + (1 + len(o)) \in b.heads \cup {b.used}
              /\ b.size - Pos(b, o) - 1 >= b.mtu
              /\ \A q \in b.heads : o < q => o + (1 + len(o)) <= q
          BY <1>2, <3>1 DEF Tiled, len
        <4>. QED  BY <1>1, <1>3, <1>4, <1>5, <1>6, <3>1, <4>1, <4>2
      <3>2. CASE o = b.used
        <4>1. \A q \in b.heads : q \in Int /\ q < b.used
          BY <1>5
        <4>2. 1 + e.data[Pos(e, o)].len = m
          BY <1>8, <3>2 DEF m
        <4>3. e.size - Pos(e, o) - 1 >= e.mtu
          BY <1>3, <1>4, <1>6, <3>2
        <4>. QED  BY <1>1, <1>3, <1>4, <1>6, <3>2, <4>1, <4>2, <4>3
      <3>. QED  BY <1>3, <3>1, <3>2
    <2>. QED  BY <2>1, <2>2 DEF Tiled
  <1>. QED  BY <1>3, <1>6, <1>9, <1>10 DEF Sound, e

\* What ConsumePacket does to each field.
LEMMA ConsumeFields ==
  ASSUME NEW S, NEW n \in Nat, NEW b \in Ring(S, n), Packets(S),
         NEW m \in Int, m = 1 + b.data[b.start].len
  PROVE  LET d == ConsumePacket(b)
         IN  /\ d.size = b.size /\ d.mtu = b.mtu /\ d.data = b.data
             /\ d.used = b.used - m
             /\ d.start = IF b.start + m = b.wrap THEN 0 ELSE b.start + m
             /\ d.wrap = IF b.start + m = b.wrap THEN b.size ELSE b.wrap
             /\ d.heads = {o - m : o \in b.heads \ {0}}
             /\ d.input_avail = IF Wrapped(b) THEN update_input(d) ELSE b.input_avail
             /\ d.output_avail = update_output(d)
             /\ update_output(d) \in Int => d \in Ring(S, n)
  PROOF
  <1>. DEFINE start == IF b.start + m = b.wrap THEN 0 ELSE b.start + m
              wrap == IF b.start + m = b.wrap THEN b.size ELSE b.wrap
              heads == {o - m : o \in b.heads \ {0}}
              used == b.used - m
              d == [b EXCEPT !.start = start, !.wrap = wrap, !.used = used, !.heads = heads]
              input == IF Wrapped(b) THEN update_input(d) ELSE d.input_avail
              e == ConsumePacket(b)
  <1>1. /\ b.size = n /\ b.wrap \in Int /\ b.start \in Int /\ b.used \in Int /\ b.mtu \in Int
        /\ b.data \in [0..(n - 1) -> S] /\ b.heads \in SUBSET Int
        /\ b.input_avail \in Int /\ b.output_avail \in Int
    BY RingTypes
  <1>2. e = [d EXCEPT !.input_avail = input, !.output_avail = update_output(d)]
    BY DEF ConsumePacket
  <1>3. start \in Int /\ wrap \in Int /\ used \in Int /\ heads \in SUBSET Int
    <2>1. ASSUME NEW o \in b.heads PROVE o - m \in Int
      <3>1. o \in Int
        BY <1>1, Zenon
      <3>. QED  BY <3>1
    <2>2. heads \in SUBSET Int
      BY <2>1
    <2>3. start \in Int /\ wrap \in Int /\ used \in Int
      BY <1>1
    <2>. QED  BY <2>2, <2>3
  <1>. HIDE DEF start, wrap, used, heads
  <1>4. /\ d \in Ring(S, n)
        /\ d.size = b.size /\ d.mtu = b.mtu /\ d.data = b.data /\ d.used = used
        /\ d.start = start /\ d.wrap = wrap /\ d.heads = heads
        /\ d.input_avail = b.input_avail
    BY <1>1, <1>3 DEF Ring
  <1>. HIDE DEF d, e
  <1>5. input \in Int
    <2>1. update_input(d) \in Int
      BY <1>4, RingTypes
    <2>2. d.input_avail \in Int
      BY <1>1, <1>4
    <2>. QED  BY <2>1, <2>2
  <1>. HIDE DEF input
  <1>6. /\ e.size = d.size /\ e.start = d.start /\ e.mtu = d.mtu /\ e.used = d.used
        /\ e.wrap = d.wrap /\ e.data = d.data /\ e.heads = d.heads
        /\ e.input_avail = input
        /\ e.output_avail = update_output(d)
    BY <1>2, <1>4, <1>5 DEF Ring
  <1>7. update_output(d) \in Int => e \in Ring(S, n)
    BY <1>2, <1>4, <1>5 DEF Ring
  <1>8. update_input(e) = update_input(d) /\ update_output(e) = update_output(d)
    BY <1>6 DEF update_input, update_output, free, end, Wrapped
  <1>. QED  BY <1>4, <1>6, <1>7, <1>8 DEF e, start, wrap, used, heads, input

\* The first packet of a ring that holds one may be consumed (the ASSERTs of
\* ChunkBuffer2_ConsumePacket hold), and the ring stays sound.
THEOREM ConsumeSound ==
  ASSUME NEW S, NEW n \in Nat, NEW b \in Ring(S, n), Packets(S), Sound(b), b.used > 0
  PROVE  CanConsume(b) /\ ConsumePacket(b) \in Ring(S, n) /\ Sound(ConsumePacket(b))
  PROOF
  <1>. DEFINE m == 1 + b.data[b.start].len
              e == ConsumePacket(b)
              len(o) == b.data[Pos(b, o)].len
  <1>1. /\ b.size = n /\ b.wrap \in Int /\ b.start \in Int /\ b.used \in Int /\ b.mtu \in Int
        /\ b.input_avail \in Int /\ end(b) \in Int /\ free(b) \in Int
    BY RingTypes
  <1>0. b.data \in [0..(n - 1) -> S] /\ b.heads \in SUBSET Int
    BY RingTypes
  <1>2. AssertBuffer(b) /\ AssertIo(b) /\ Tiled(b) /\ Roomy(b)
    BY DEF Sound
  <1>3. ASSUME NEW o \in b.heads
        PROVE  /\ o \in Int /\ 0 <= o /\ o < b.used
               /\ 1 + len(o) >= 1 /\ len(o) \in Int
               /\ o + (1 + len(o)) \in b.heads \cup {b.used}
               /\ b.start + o < b.wrap => b.start + o + (1 + len(o)) <= b.wrap
               /\ b.size - Pos(b, o) - 1 >= b.mtu
               /\ \A q \in b.heads : o < q => o + (1 + len(o)) <= q
               /\ Pos(b, o) \in 0..(n - 1)
    <2>1. o \in Int /\ 0 <= o /\ o < b.used
      BY <1>0, <1>1, <1>2 DEF Tiled
    <2>2. Pos(b, o) \in 0..(n - 1)
      BY <1>1, <1>2, <2>1 DEF AssertBuffer, Pos
    <2>3. len(o) \in Int
      BY <1>0, <2>2 DEF Packets
    <2>. QED  BY <1>2, <2>1, <2>2, <2>3 DEF Tiled
  <1>4. 0 \in b.heads /\ Pos(b, 0) = b.start
    BY <1>1, <1>2 DEF Tiled, AssertBuffer, Pos
  <1>5. m = 1 + len(0)
    BY <1>4
  <1>. HIDE DEF m, len, e
  <1>6. /\ m \in Int /\ 1 <= m /\ b.start + m <= b.wrap
        /\ m \in b.heads \cup {b.used} /\ m <= b.used
        /\ b.size - b.start - 1 >= b.mtu
        /\ \A q \in b.heads : q # 0 => m <= q
    BY <1>1, <1>2, <1>3, <1>4, <1>5 DEF AssertBuffer
  <1>7. CanConsume(b)
    <2>1. b.output_avail = b.data[b.start].len
      BY <1>2 DEF AssertIo, update_output
    <2>2. b.data[b.start].len = m - 1
      BY <1>4, <1>3 DEF m, len
    <2>. QED  BY <1>1, <1>6, <2>1, <2>2 DEF CanConsume
  <1>8. /\ e.size = n /\ e.mtu = b.mtu /\ e.data = b.data
        /\ e.used = b.used - m
        /\ e.start = IF b.start + m = b.wrap THEN 0 ELSE b.start + m
        /\ e.wrap = IF b.start + m = b.wrap THEN n ELSE b.wrap
        /\ e.input_avail = IF Wrapped(b) THEN update_input(e) ELSE b.input_avail
        /\ e.output_avail = update_output(e)
    BY <1>1, <1>6, ConsumeFields DEF e, m
  <1>9. /\ e.heads = {o - m : o \in b.heads \ {0}}
        /\ update_output(e) \in Int => e \in Ring(S, n)
    BY <1>6, ConsumeFields DEF e, m
  <1>10. /\ AssertBuffer(e) /\ Roomy(e) /\ e.input_avail = update_input(e)
         /\ \A o \in b.heads : o # 0 =>
               /\ Pos(e, o - m) = Pos(b, o)
               /\ e.start + (o - m) < e.wrap => e.start + (o - m) + (1 + len(o)) <= e.wrap
    <2>1. CASE b.start + m = b.wrap
      <3>1. Wrapped(b) /\ e.start = 0 /\ e.wrap = n /\ e.used = b.used - m
        BY <1>1, <1>6, <1>8, <2>1 DEF Wrapped
      <3>2. e.used <= b.start /\ e.used >= 0 /\ b.start + b.mtu < n /\ b.mtu >= 0 /\ b.start >= 0
        BY <1>1, <1>2, <1>6, <2>1, <3>1 DEF AssertBuffer
      <3>3. ~Wrapped(e) /\ end(e) = e.used
        BY <1>1, <1>6, <3>1, <3>2 DEF Wrapped, end
      <3>4. AssertBuffer(e) /\ Roomy(e)
        BY <1>1, <1>6, <1>8, <3>1, <3>2, <3>3 DEF AssertBuffer, Roomy
      <3>5. ASSUME NEW o \in b.heads, o # 0
            PROVE  /\ Pos(e, o - m) = Pos(b, o)
                   /\ e.start + (o - m) < e.wrap => e.start + (o - m) + (1 + len(o)) <= e.wrap
        <4>1. o \in Int /\ m <= o /\ o < b.used /\ len(o) \in Int
          BY <1>3, <1>6, <3>5
        <4>2. o + (1 + len(o)) <= b.used
          BY <1>1, <1>3, <4>1
        <4>. QED  BY <1>1, <1>6, <2>1, <3>1, <3>2, <4>1, <4>2 DEF Pos
      <3>. QED  BY <1>8, <3>1, <3>4, <3>5
    <2>2. CASE b.start + m # b.wrap
      <3>1. e.start = b.start + m /\ e.wrap = b.wrap /\ e.used = b.used - m
        BY <1>8, <2>2
      <3>2. (Wrapped(e) <=> Wrapped(b)) /\ end(e) = end(b)
        BY <1>1, <1>6, <3>1 DEF Wrapped, end
      <3>3. AssertBuffer(e)
        BY <1>1, <1>2, <1>6, <1>8, <2>2, <3>1, <3>2 DEF AssertBuffer
      <3>4. Roomy(e)
        BY <1>1, <1>2, <1>8, <3>1, <3>2 DEF Roomy
      <3>5. e.input_avail = update_input(e)
        <4>1. CASE Wrapped(b)
          BY <1>8, <4>1
        <4>2. CASE ~Wrapped(b)
          BY <1>1, <1>2, <1>8, <3>2, <4>2 DEF AssertIo, update_input, free
        <4>. QED  BY <4>1, <4>2
      <3>6. ASSUME NEW o \in b.heads, o # 0
            PROVE  /\ Pos(e, o - m) = Pos(b, o)
                   /\ e.start + (o - m) < e.wrap => e.start + (o - m) + (1 + len(o)) <= e.wrap
        BY <1>1, <1>3, <1>6, <3>1 DEF Pos
      <3>. QED  BY <3>3, <3>4, <3>5, <3>6
    <2>. QED  BY <2>1, <2>2
  <1>11. update_output(e) \in Int
    <2>1. e.start \in 0..(n - 1)
      BY <1>1, <1>6, <1>8, <1>10 DEF AssertBuffer
    <2>. QED  BY <1>0, <1>8, <2>1 DEF update_output, Packets
  <1>12. Tiled(e)
    <2>1. \A q \in e.heads : q \in Int /\ q >= 0 /\ q < e.used /\ q + m \in b.heads /\ q + m # 0
      BY <1>1, <1>3, <1>6, <1>8, <1>9
    <2>2. \A q \in b.heads : q # 0 => q - m \in e.heads
      BY <1>9
    <2>3. e.used > 0 => 0 \in e.heads
      BY <1>1, <1>6, <1>8, <2>2
    <2>4. ASSUME NEW q \in e.heads
          PROVE  LET k == 1 + e.data[Pos(e, q)].len
                 IN  /\ k >= 1
                     /\ q + k \in e.heads \cup {e.used}
                     /\ e.start + q < e.wrap => e.start + q + k <= e.wrap
                     /\ e.size - Pos(e, q) - 1 >= e.mtu
                     /\ \A r \in e.heads : q < r => q + k <= r
      <3>. DEFINE o == q + m
      <3>1. o \in b.heads /\ o # 0 /\ q \in Int /\ o - m = q
        BY <1>6, <2>1
      <3>. HIDE DEF o
      <3>2. /\ Pos(e, q) = Pos(b, o)
            /\ e.start + q < e.wrap => e.start + q + (1 + len(o)) <= e.wrap
        BY <1>10, <3>1
      <3>3. 1 + e.data[Pos(e, q)].len = 1 + len(o)
        BY <1>8, <3>2 DEF len
      <3>4. /\ len(o) \in Int /\ 1 + len(o) >= 1
            /\ o + (1 + len(o)) \in b.heads \cup {b.used}
            /\ b.size - Pos(b, o) - 1 >= b.mtu
            /\ \A r \in b.heads : o < r => o + (1 + len(o)) <= r
        BY <1>3, <3>1
      <3>5. q + (1 + len(o)) \in e.heads \cup {e.used}
        <4>. DEFINE z == o + (1 + len(o))
        <4>1. q + (1 + len(o)) = z - m /\ z # 0
          BY <1>3, <1>6, <3>1, <3>4 DEF o
        <4>2. z \in b.heads \/ z = b.used
          BY <3>4
        <4>. HIDE DEF z
        <4>3. z - m \in e.heads \/ z - m = e.used
          BY <1>8, <2>2, <4>1, <4>2
        <4>. QED  BY <4>1, <4>3
      <3>6. \A r \in e.heads : q < r => q + (1 + len(o)) <= r
        <4>. TAKE r \in e.heads
        <4>1. r \in Int /\ r + m \in b.heads
          BY <2>1
        <4>2. o = q + m
          BY DEF o
        <4>3. o < r + m => o + (1 + len(o)) <= r + m
          BY <3>4, <4>1
        <4>. QED  BY <1>6, <3>1, <3>4, <4>1, <4>2, <4>3
      <3>. QED  BY <1>1, <1>8, <3>2, <3>3, <3>4, <3>5, <3>6
    <2>5. e.heads \subseteq 0..(e.used - 1)
      BY <1>1, <1>6, <1>8, <2>1
    <2>. QED  BY <2>3, <2>4, <2>5 DEF Tiled
  <1>. QED  BY <1>7, <1>8, <1>9, <1>10, <1>11, <1>12 DEF Sound, AssertIo, e

\* A ring is sound when ChunkBuffer2_Init has made it, if it has room for one
\* packet of full length.
THEOREM InitSound ==
  ASSUME NEW S, Packets(S), NEW blocks \in Nat, NEW mtu \in Nat, blocks >= 1 + mtu
  PROVE  Init_(blocks, mtu) \in Ring(S, blocks) /\ Sound(Init_(blocks, mtu))
  PROOF
  <1>. DEFINE data == [i \in 0..(blocks - 1) |-> Data]
              b == [size |-> blocks, wrap |-> blocks, start |-> 0, used |-> 0, mtu |-> mtu,
                    data |-> data, heads |-> {}, input_avail |-> -1, output_avail |-> -1]
              e == Init_(blocks, mtu)
  <1>1. data \in [0..(blocks - 1) -> S]
    BY DEF Packets
  <1>2. e = [b EXCEPT !.input_avail = update_input(b), !.output_avail = update_output(b)]
    BY DEF Init_
  <1>. HIDE DEF data
  <1>3. ~Wrapped(b) /\ end(b) = 0 /\ update_input(b) = blocks - 1 /\ update_output(b) = -1
    <2>1. b.size = blocks /\ b.wrap = blocks /\ b.start = 0 /\ b.used = 0 /\ b.mtu = mtu
      OBVIOUS
    <2>. HIDE DEF b
    <2>2. ~Wrapped(b) /\ end(b) = 0
      BY <2>1 DEF Wrapped, end
    <2>3. free(b) = blocks
      BY <2>1, <2>2 DEF free
    <2>4. update_input(b) = blocks - 1
      BY <2>1, <2>2, <2>3 DEF update_input
    <2>. QED  BY <2>1, <2>2, <2>4 DEF update_output
  <1>4. /\ e \in Ring(S, blocks)
        /\ e.size = blocks /\ e.wrap = blocks /\ e.start = 0 /\ e.used = 0 /\ e.mtu = mtu
        /\ e.heads = {} /\ e.input_avail = blocks - 1 /\ e.output_avail = -1
    <2>. HIDE DEF b, e
    <2>1. e = [b EXCEPT !.input_avail = blocks - 1, !.output_avail = -1]
      BY <1>2, <1>3
    <2>2. e = [size |-> blocks, wrap |-> blocks, start |-> 0, used |-> 0, mtu |-> mtu,
               data |-> data, heads |-> {}, input_avail |-> blocks - 1, output_avail |-> -1]
      BY <2>1 DEF b
    <2>3. /\ blocks \in Int /\ mtu \in Int /\ blocks - 1 \in Int /\ -1 \in Int /\ 0 \in Int
          /\ {} \in SUBSET Int /\ blocks \in {blocks}
      OBVIOUS
    <2>4. e \in Ring(S, blocks)
      BY <1>1, <2>2, <2>3, Zenon DEF Ring
    <2>. QED  BY <2>2, <2>4
  <1>. HIDE DEF b, e
  <1>5. ~Wrapped(e) /\ end(e) = 0
    BY <1>4 DEF Wrapped, end
  <1>6. AssertBuffer(e) /\ Roomy(e)
    <2>1. AssertBuffer(e)
      BY <1>4 DEF AssertBuffer
    <2>2. e.size - e.wrap <= e.mtu /\ e.size - end(e) - 1 >= e.mtu
      BY <1>4, <1>5
    <2>. QED  BY <2>1, <2>2 DEF Roomy
  <1>7. AssertIo(e)
    <2>1. free(e) = blocks
      BY <1>4, <1>5 DEF free
    <2>2. update_input(e) = blocks - 1
      BY <1>4, <1>5, <2>1 DEF update_input
    <2>3. update_output(e) = -1
      BY <1>4 DEF update_output
    <2>. QED  BY <1>4, <2>2, <2>3 DEF AssertIo
  <1>8. Tiled(e)
    BY <1>4 DEF Tiled
  <1>. QED  BY <1>4, <1>6, <1>7, <1>8 DEF Sound, e

\* A ring made for num packets (calc_blocks) refuses a packet of full length
\* only when the packets in it take more blocks than num - 1 of full length:
\* an empty ring always takes one, so a writer that waits for room waits for a
\* reader that has something to read.
THEOREM Capacity ==
  ASSUME NEW S, NEW n \in Nat, NEW b \in Ring(S, n), Sound(b), NEW c \in Nat,
         n = c + 2 * (1 + b.mtu), b.input_avail < b.mtu
  PROVE  b.used > c
  PROOF
  <1>1. /\ b.size = n /\ b.wrap \in Int /\ b.start \in Int /\ b.used \in Int /\ b.mtu \in Int
        /\ b.input_avail \in Int /\ end(b) \in Int /\ free(b) \in Int
    BY RingTypes
  <1>2. AssertBuffer(b) /\ AssertIo(b) /\ Tiled(b) /\ Roomy(b)
    BY DEF Sound
  <1>3. b.size - end(b) - 1 < b.mtu \/ free(b) <= b.mtu
    BY <1>1, <1>2 DEF AssertIo, update_input
  <1>4. CASE ~Wrapped(b)
    BY <1>1, <1>2, <1>3, <1>4 DEF Roomy, free
  <1>5. CASE Wrapped(b)
    <2>1. end(b) = b.used - (b.wrap - b.start) /\ free(b) = b.wrap - b.used
      BY <1>1, <1>5 DEF end, free
    <2>2. b.used > 0
      BY <1>1, <1>2, <1>5 DEF AssertBuffer, Wrapped
    <2>3. 0 \in b.heads /\ Pos(b, 0) = b.start
      BY <1>1, <1>2, <2>2 DEF Tiled, AssertBuffer, Pos
    <2>4. b.size - b.start - 1 >= b.mtu
      BY <1>2, <2>3 DEF Tiled
    <2>5. free(b) <= b.mtu
      BY <1>1, <1>2, <1>3, <2>1, <2>4 DEF AssertBuffer
    <2>. QED  BY <1>1, <1>2, <2>1, <2>5 DEF Roomy
  <1>. QED  BY <1>4, <1>5
================================================================================
