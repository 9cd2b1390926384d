------------------------------ MODULE Channel -------------------------------
(***************************************************************************)
(* The byte buffer a relay keeps for each direction of a circuit           *)
(* (struct Channel): poll fills it from one stream and empties it into the *)
(* other, moving the unread part to the front only when the buffer is      *)
(* full.  A step is one turn of poll's loop, which reads at most r and     *)
(* writes at most w bytes, 0 where the stream is pending; the loop ends    *)
(* when neither moved and is entered again when a stream is ready.         *)
(*                                                                         *)
(* Bytes are their positions in the source.  read and out are what the     *)
(* source has given and the sink has got; ended is the error poll returns  *)
(* at the end of the source.                                               *)
(***************************************************************************)
EXTENDS Integers, Sequences, FiniteSets, FiniteSetsExt

CONSTANTS BufLen,     \* length of the buffer, 1 << 14 in the code
          SourceLen,  \* how many bytes the source gives before it ends
          Chunk       \* how many bytes a stream moves at once

ASSUME ChannelAssumption ==
    BufLen \in Nat \ {0} /\ SourceLen \in Nat /\ Chunk \in Nat \ {0}

VARIABLE channel

\* Channel::new
New == [buf |-> [i \in 1 .. BufLen |-> 0], readable_start |-> 0, written_end |-> 0,
        read |-> 0, out |-> <<>>, ended |-> FALSE]

\* Mutant of Compact: the bytes move, the end does not.
CompactInPlace(c) ==
    IF c.written_end = BufLen /\ c.readable_start # 0
    THEN [c EXCEPT !.buf = [i \in 1 .. BufLen |->
                              IF i + c.readable_start <= BufLen THEN @[i + c.readable_start]
                              ELSE @[i]],
                   !.readable_start = 0]
    ELSE c

\* copy_within(readable_start..written_end, 0)
Compact(c) ==
    IF c.written_end = BufLen /\ c.readable_start # 0
    THEN [c EXCEPT !.buf = [i \in 1 .. BufLen |->
                              IF i + c.readable_start <= BufLen THEN @[i + c.readable_start]
                              ELSE @[i]],
                   !.written_end = @ - c.readable_start,
                   !.readable_start = 0]
    ELSE c

\* write_buf
Pending(c) == SubSeq(c.buf, c.readable_start + 1, c.written_end)

\* poll_read into the rest of the buffer; the end of the source counts only when
\* everything was written
Fill(c, r) ==
    LET n == Min({r, BufLen - c.written_end, SourceLen - c.read})
    IN IF r > 0 /\ c.written_end < BufLen /\ c.read = SourceLen /\ c.readable_start = c.written_end
       THEN [c EXCEPT !.ended = TRUE]
       ELSE [c EXCEPT !.buf = [i \in 1 .. BufLen |-> IF i \in c.written_end + 1 .. c.written_end + n
                                                     THEN c.read + i - c.written_end ELSE @[i]],
                      !.written_end = @ + n,
                      !.read = @ + n]

\* poll_write of what is readable
Drain(c, w) ==
    LET n == Min({w, c.written_end - c.readable_start})
    IN [c EXCEPT !.out = @ \o SubSeq(Pending(c), 1, n), !.readable_start = @ + n]

\* One turn of Channel::poll
Turn(c, r, w) == LET filled == Fill(Compact(c), r)
                 IN IF filled.ended THEN filled ELSE Drain(filled, w)

ChannelInit == channel = New

PollChannel(r, w) == ~channel.ended /\ channel' = Turn(channel, r, w)

ChannelNext == \E r, w \in 0 .. Chunk : PollChannel(r, w)

ChannelSpec == ChannelInit /\ [][ChannelNext]_channel
-----------------------------------------------------------------------------
\* Whatever sizes the reads and writes have, the sink gets the bytes of the source in
\* order: it has got a prefix of them and what is readable follows; the indices stay in
\* the buffer; a turn in which both streams are ready for a byte makes progress; and the relay gives
\* up only when the sink has everything.
ForwardsAll ==
    LET c == channel IN
    /\ 0 <= c.readable_start /\ c.readable_start <= c.written_end /\ c.written_end <= BufLen
    /\ c.out = [i \in 1 .. Len(c.out) |-> i]
    /\ Pending(c) = [i \in 1 .. c.read - Len(c.out) |-> Len(c.out) + i]
    /\ c.ended => Len(c.out) = SourceLen
    /\ ~c.ended => Turn(c, 1, 1) # c
=============================================================================
