------------------------------ MODULE ChunkBuffer2 ------------------------------
(***************************************************************************)
(* The ring in which a PacketBuffer keeps packets of different lengths.  A *)
(* packet is a header block and the blocks of its data, all in one piece:  *)
(* where a packet of full length would not fit before the end of the       *)
(* memory, wrap moves down and the ring goes on at block 0.                *)
(*                                                                         *)
(* A length is counted in blocks.  An input of input_mtu bytes fits the    *)
(* bytes of n blocks exactly if its rounded-up length fits n.  What the    *)
(* writer puts in the data blocks before it submits is written here with   *)
(* the header.  heads is not in the code: where, counted from start, the   *)
(* headers of the packets in the ring lie.                                 *)
(***************************************************************************)
EXTENDS Integers

Data == [len |-> -1]        \* a block that is no header

Wrapped(b) == b.used >= b.wrap - b.start

end(b) == IF Wrapped(b) THEN b.used - (b.wrap - b.start) ELSE b.start + b.used

\* _ChunkBuffer2_update_input and _ChunkBuffer2_update_output.
free(b) == IF Wrapped(b) THEN b.start - end(b) ELSE b.size - end(b)

update_input(b) ==
    IF b.size - end(b) - 1 < b.mtu \/ free(b) <= 0 THEN -1 ELSE free(b) - 1

update_output(b) == IF b.used > 0 THEN b.data[b.start].len ELSE -1

calc_blocks(chunk_len, num) == (1 + chunk_len) * (num + 1)

Init_(blocks, mtu) ==
    LET b == [size |-> blocks, wrap |-> blocks, start |-> 0, used |-> 0, mtu |-> mtu,
              data |-> [i \in 0..(blocks - 1) |-> Data], heads |-> {},
              input_avail |-> -1, output_avail |-> -1]
    IN  [b EXCEPT !.input_avail = update_input(b), !.output_avail = update_output(b)]

\* The ASSERTs on entry.
CanSubmit(b, p) == b.input_avail >= 0 /\ p.len \in 0..b.input_avail

\* Fault: wrap stays where it is.
NewWrap_size(b, n) == b.wrap

NewWrap(b, n) ==
    IF b.used + n <= b.wrap - b.start /\ b.mtu > b.size - (end(b) + n) - 1
    THEN end(b) + n ELSE b.wrap

Written(b, p) ==
    [i \in 0..(b.size - 1) |->
        IF i = end(b) THEN p
        ELSE IF end(b) < i /\ i <= end(b) + p.len THEN Data ELSE b.data[i]]

SubmitPacket(b, p) ==
    LET n == 1 + p.len
        d == [b EXCEPT !.data = Written(b, p), !.heads = @ \cup {b.used},
                       !.used = @ + n, !.wrap = NewWrap(b, n)]
    IN  [d EXCEPT !.input_avail = update_input(d),
                  !.output_avail = IF d.used = n THEN update_output(d) ELSE @]

CanConsume(b) ==
    /\ b.output_avail >= 0 /\ b.used >= 1 /\ b.wrap - b.start >= 1
    /\ b.data[b.start].len <= b.wrap - b.start - 1
    /\ b.data[b.start].len <= b.used - 1

\* The room for input only changes with start when the ring has wrapped.
ConsumePacket(b) ==
    LET n == 1 + b.data[b.start].len
        atWrap == b.start + n = b.wrap
        d == [b EXCEPT !.start = IF atWrap THEN 0 ELSE @ + n,
                       !.wrap = IF atWrap THEN b.size ELSE @,
                       !.used = @ - n, !.heads = {o - n : o \in @ \ {0}}]
    IN  [d EXCEPT !.input_avail = IF Wrapped(b) THEN update_input(d) ELSE @,
                  !.output_avail = update_output(d)]

--------------------------------------------------------------------------------
\* _ChunkBuffer2_assert_buffer
AssertBuffer(b) ==
    /\ b.size > 0 /\ 0 < b.wrap /\ b.wrap <= b.size
    /\ 0 <= b.start /\ b.start < b.wrap
    /\ 0 <= b.used /\ b.used <= b.wrap
    /\ b.wrap = b.size \/ Wrapped(b)
    /\ b.mtu >= 0

\* _ChunkBuffer2_assert_io: what was computed when last it could change is
\* what would be computed now.
AssertIo(b) == b.input_avail = update_input(b) /\ b.output_avail = update_output(b)

\* The block at distance o from start.
Pos(b, o) == IF b.start + o < b.wrap THEN b.start + o ELSE b.start + o - b.wrap

\* The packets lie one behind the other from start to the end, none of them
\* across wrap, and none begins where one of full length would not fit.
Tiled(b) ==
    /\ b.heads \subseteq 0..(b.used - 1)
    /\ b.used > 0 => 0 \in b.heads
    /\ \A o \in b.heads :
          LET n == 1 + b.data[Pos(b, o)].len
          IN  /\ n >= 1
              /\ o + n \in b.heads \cup {b.used}
              /\ b.start + o < b.wrap => b.start + o + n <= b.wrap
              /\ b.size - Pos(b, o) - 1 >= b.mtu
              /\ \A q \in b.heads : o < q => o + n <= q

\* wrap gives up less than a packet of full length, and a ring that has not
\* wrapped has room for one before the end.
Roomy(b) ==
    /\ b.size - b.wrap <= b.mtu
    /\ ~Wrapped(b) => b.size - end(b) - 1 >= b.mtu

Sound(b) == AssertBuffer(b) /\ AssertIo(b) /\ Tiled(b) /\ Roomy(b)
================================================================================
