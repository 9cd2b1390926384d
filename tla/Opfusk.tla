------------------------------ MODULE Opfusk --------------------------------
(***************************************************************************)
(* The encrypted connection every protocol of the node runs on             *)
(* (crypto/opfusk): the handshake, and the stream of sealed chunks behind  *)
(* it.  Shown is the direction from the dialer to the listener, whose      *)
(* Output is ready before the listener has read the last message of the    *)
(* handshake; the other direction runs the same code.                      *)
(*                                                                         *)
(* A chunk is TAG_SIZE bytes (two of length, the rest nonce and tag) and   *)
(* the ciphertext of a message.  Plain bytes are their positions in what   *)
(* the user writes.  A step of poll_write or poll_read is one turn of its  *)
(* loop; busy says that the loop goes on, took that the call has moved a   *)
(* byte of the user's, pending that it has met a Pending of the socket and *)
(* so will be woken.  A message of the handshake is one element of the     *)
(* socket, as read_exact takes it as a whole.                              *)
(***************************************************************************)
EXTENDS Integers, Sequences, FiniteSets, FiniteSetsExt

CONSTANTS Byte,       \* values of a byte, 256
          CryptoTag,  \* crypto::TAG_SIZE
          BufferSize, \* Config::buffer_size
          Written,    \* bytes the user writes
          MaxCall,    \* bytes of one call
          MaxWire     \* elements the socket holds

TAG_SIZE == CryptoTag + 2

\* with_buffer_size asks only for more than CryptoTag; a smaller buffer than this
\* takes no byte at all, and a longer message does not fit its length.
ASSUME OpfuskAssumption ==
    /\ Byte \in Nat \ {0, 1} /\ CryptoTag \in Nat \ {0} /\ BufferSize \in Nat
    /\ BufferSize \div 2 > TAG_SIZE /\ BufferSize - 2 * TAG_SIZE < Byte * Byte
    /\ Written \in Nat /\ MaxCall \in Nat \ {0} /\ MaxWire \in Nat \ {0}

VARIABLES dialer, listener,  \* the two upgrades
          wire, back,        \* what is in the socket, each way
          writer, reader,    \* the Output of the dialer, of the listener
          closed             \* poll_close of the writer is done

handshake == <<dialer, listener, back>>
opfusk == <<dialer, listener, wire, back, writer, reader, closed>>

Item(kind, value) == [kind |-> kind, value |-> value]
Zeros == [i \in 1 .. TAG_SIZE |-> Item("zero", 0)]

NewWriter == [buffer |-> Zeros, start |-> 0, end |-> 0, left |-> 0, total |-> 0,
              busy |-> FALSE, took |-> TRUE, pending |-> FALSE]

NewReader == [buffer |-> <<>>, start |-> 0, end |-> 0, reminder |-> 0, room |-> 0, got |-> <<>>,
              busy |-> FALSE, took |-> TRUE, pending |-> FALSE, error |-> "none"]

Upgrade == [state |-> "start", ss |-> {}, peer |-> "none"]

OpfuskInit ==
    /\ dialer = Upgrade /\ listener = Upgrade
    /\ wire = <<>> /\ back = <<>>
    /\ writer = NewWriter /\ reader = NewReader /\ closed = FALSE

-----------------------------------------------------------------------------
Signed(who, challenge) == [by |-> who, of |-> challenge]
Verified(who, challenge, proof) == proof = Signed(who, challenge)

\* encapsulate: the ciphertext, which is also the secret that both ends share
Sealed(own, peer) == [from |-> own, to |-> peer]
Decapsulates(own, cp) == cp.to = own

\* upgrade_outbound until it waits for the answer
SendInit ==
    /\ dialer.state = "start"
    /\ dialer' = [dialer EXCEPT !.state = "sent"]
    /\ wire' = Append(wire, Item("InitRequest", [challenge |-> "cd", sign_pk |-> "D", enc_pk |-> "kd"]))
    /\ UNCHANGED <<listener, back, writer, reader, closed>>

\* upgrade_inbound until it waits for the last message
AnswerInit ==
    /\ listener.state = "start" /\ wire # <<>>
    /\ LET req == Head(wire).value
           cp  == Sealed("kl", req.enc_pk)
       IN  /\ back' = Append(back, [challenge |-> "cl", sign_pk |-> "L", enc_pk |-> "kl",
                                    proof |-> Signed("L", req.challenge), cp |-> cp])
           /\ listener' = [state |-> "sent", ss |-> {cp}, peer |-> req.sign_pk]
    /\ wire' = Tail(wire)
    /\ UNCHANGED <<dialer, writer, reader, closed>>

\* the rest of upgrade_outbound; xor_secrets is the set of the two secrets
SendFinal ==
    /\ dialer.state = "sent" /\ back # <<>>
    /\ LET resp == Head(back)
           cp   == Sealed("kd", resp.enc_pk)
       IN  IF Verified(resp.sign_pk, "cd", resp.proof) /\ Decapsulates("kd", resp.cp)
           THEN /\ wire' = Append(wire, Item("FinalRequest",
                                             [cp |-> cp, proof |-> Signed("D", resp.challenge)]))
                /\ dialer' = [state |-> "done", ss |-> {resp.cp, cp}, peer |-> resp.sign_pk]
           ELSE dialer' = [dialer EXCEPT !.state = "failed"] /\ UNCHANGED wire
    /\ back' = Tail(back)
    /\ UNCHANGED <<listener, writer, reader, closed>>

\* the rest of upgrade_inbound
AcceptFinal ==
    /\ listener.state = "sent" /\ wire # <<>>
    /\ LET req == Head(wire).value
       IN  listener' = IF Verified(listener.peer, "cl", req.proof) /\ Decapsulates("kl", req.cp)
                       THEN [listener EXCEPT !.state = "done", !.ss = @ \cup {req.cp}]
                       ELSE [listener EXCEPT !.state = "failed"]
    /\ wire' = Tail(wire)
    /\ UNCHANGED <<dialer, back, writer, reader, closed>>

-----------------------------------------------------------------------------
\* u16::to_be_bytes of a length, and back
LengthBytes(n) == <<Item("length", (n \div Byte) % Byte), Item("length", n % Byte)>>
ReadLength(s, at) == s[at + 1].value * Byte + s[at + 2].value

\* A nonce and tag that fit the message, and no other, under the secret of the dialer.
TagOf(message) == [i \in 1 .. CryptoTag |-> Item("tag", message[1].value)]
Ciphertext(message) == [i \in DOMAIN message |-> Item("cipher", message[i].value)]
DecryptsTo(body, tag) ==
    [i \in DOMAIN body |-> Item("plain", tag[1].value + i - 1)]
Opens(body, tag) ==
    /\ listener.ss = dialer.ss
    /\ \A i \in DOMAIN tag : tag[i].kind = "tag"
    /\ body = Ciphertext(DecryptsTo(body, tag))

\* encrypt_in_progress
EncryptInProgress(w) ==
    LET message == SubSeq(w.buffer, w.end + TAG_SIZE + 1, Len(w.buffer))
    IN  [w EXCEPT !.buffer = SubSeq(@, 1, w.end) \o LengthBytes(Len(message)) \o TagOf(message)
                             \o Ciphertext(message) \o Zeros,
                  !.end = Len(w.buffer)]

\* write_inner, and the same in poll_flush: the socket takes n bytes
WriteInner(w, n) == [w EXCEPT !.start = @ + n]
Available(w) == w.end - w.start
Part(w, n) == SubSeq(w.buffer, w.start + 1, w.start + n)

\* Mutant of CollectWritten: only when no byte is free.
CollectWrittenLate(w) ==
    IF Len(w.buffer) < BufferSize \/ w.start = 0 THEN w
    ELSE [w EXCEPT !.buffer = SubSeq(@, w.start + 1, Len(@)), !.end = @ - w.start, !.start = 0]

\* gc of poll_write
CollectWritten(w) ==
    IF Len(w.buffer) < BufferSize - TAG_SIZE \/ w.start = 0 THEN w
    ELSE [w EXCEPT !.buffer = SubSeq(@, w.start + 1, Len(@)), !.end = @ - w.start, !.start = 0]

\* write_buf of poll_write: bytes of the user go behind the message in progress
TakeFromUser(w) ==
    LET n == Min({Max({BufferSize - Len(w.buffer) - TAG_SIZE, 0}), w.left})
    IN  [w EXCEPT !.buffer = @ \o [i \in 1 .. n |-> Item("plain", w.total + i)],
                  !.left = @ - n, !.total = @ + n, !.took = @ \/ n > 0]

\* One turn of poll_write; the socket is ready for m bytes, 0 if it is pending.
WriteTurn(w, m) ==
    LET sealed == IF Len(w.buffer) - w.end < BufferSize \div 2 THEN w ELSE EncryptInProgress(w)
        n      == Min({m, Available(sealed)})
        after  == TakeFromUser(CollectWritten(WriteInner(sealed, n)))
    IN  /\ writer' = [after EXCEPT !.busy = after # w,
                                   !.pending = @ \/ (Available(sealed) > 0 /\ m = 0)]
        /\ wire' = wire \o Part(sealed, n)

Ready == 0 .. Min({MaxCall, MaxWire - Len(wire)})

PollWrite(n, m) ==
    /\ dialer.state = "done" /\ ~writer.busy /\ ~closed /\ n <= Written - writer.total
    /\ WriteTurn([writer EXCEPT !.left = n, !.took = FALSE, !.pending = FALSE, !.busy = TRUE], m)
    /\ UNCHANGED <<handshake, reader, closed>>

ContinueWrite(m) ==
    /\ writer.busy
    /\ WriteTurn(writer, m)
    /\ UNCHANGED <<handshake, reader, closed>>

Flushed(w) == w.start = w.end /\ Len(w.buffer) - w.end = TAG_SIZE

\* One turn of poll_flush; calling it again does what its next turn does.
PollFlush(m) ==
    /\ dialer.state = "done" /\ ~writer.busy /\ ~closed /\ ~Flushed(writer)
    /\ LET sealed == IF Len(writer.buffer) - writer.end = TAG_SIZE THEN writer
                     ELSE EncryptInProgress(writer)
           n      == Min({m, Available(sealed)})
       IN  writer' = WriteInner(sealed, n) /\ wire' = wire \o Part(sealed, n)
    /\ UNCHANGED <<handshake, reader, closed>>

\* poll_close once poll_flush is ready
PollClose ==
    /\ dialer.state = "done" /\ ~writer.busy /\ ~closed /\ Flushed(writer)
    /\ closed' = TRUE
    /\ UNCHANGED <<handshake, wire, writer, reader>>

-----------------------------------------------------------------------------
\* gc of poll_read
CollectRead(r) ==
    IF Len(r.buffer) # BufferSize \/ r.start = 0 THEN r
    ELSE [r EXCEPT !.buffer = SubSeq(@, r.start + 1, Len(@)), !.end = @ - r.start, !.start = 0]

\* decrypt of poll_read: every chunk that is complete
RECURSIVE Decrypt(_)
Decrypt(r) ==
    LET rest == Len(r.buffer) - r.end
        len  == ReadLength(r.buffer, r.end)
        tag  == SubSeq(r.buffer, r.end + 3, r.end + TAG_SIZE)
        next == r.end + TAG_SIZE + len
        body == SubSeq(r.buffer, r.end + TAG_SIZE + 1, next)
    IN  IF rest < 2 THEN r
        ELSE IF rest < len + TAG_SIZE THEN r
        ELSE IF ~Opens(body, tag) THEN [r EXCEPT !.error = "PermissionDenied"]
        ELSE Decrypt([r EXCEPT !.buffer = SubSeq(@, 1, r.end + TAG_SIZE) \o DecryptsTo(body, tag)
                                          \o SubSeq(@, next + 1, Len(@)),
                               !.end = next])

\* write_buf of poll_read: chunk after chunk, as long as the user has room
RECURSIVE GiveToUser(_)
GiveToUser(r) ==
    LET c == IF r.reminder # 0 \/ r.start = r.end THEN r
             ELSE [r EXCEPT !.start = @ + TAG_SIZE, !.reminder = ReadLength(r.buffer, r.start)]
        n == Min({c.reminder, c.room})
    IN  IF n = 0 THEN c
        ELSE GiveToUser([c EXCEPT !.got = @ \o SubSeq(c.buffer, c.start + 1, c.start + n),
                                  !.reminder = @ - n, !.start = @ + n, !.room = @ - n, !.took = TRUE])

\* One turn of poll_read, which gets m bytes of the socket and then finds it at its
\* end, pending, or its own buffer full.
ReadTurn(r, m, eof) ==
    LET clean  == CollectRead(r)
        filled == [clean EXCEPT !.buffer = @ \o SubSeq(wire, 1, m)]
        full   == Len(filled.buffer) = BufferSize
        opened == Decrypt(filled)
        after  == IF opened.error # "none" THEN opened ELSE GiveToUser(opened)
    IN  /\ m <= BufferSize - Len(clean.buffer)
        /\ eof => closed /\ m = Len(wire) /\ ~full
        /\ reader' = IF eof THEN [filled EXCEPT !.error = "UnexpectedEof", !.busy = FALSE]
                     ELSE [after EXCEPT !.busy = after # r /\ after.error = "none",
                                        !.pending = @ \/ ~full]
        /\ wire' = SubSeq(wire, m + 1, Len(wire))

Arrived == 0 .. Len(wire)

PollRead(n, m, eof) ==
    /\ listener.state = "done" /\ ~reader.busy /\ reader.error = "none"
    /\ ReadTurn([reader EXCEPT !.room = n, !.took = FALSE, !.pending = FALSE, !.busy = TRUE], m, eof)
    /\ UNCHANGED <<handshake, writer, closed>>

ContinueRead(m, eof) ==
    /\ reader.busy
    /\ ReadTurn(reader, m, eof)
    /\ UNCHANGED <<handshake, writer, closed>>

OpfuskNext ==
    \/ SendInit
    \/ AnswerInit
    \/ SendFinal
    \/ AcceptFinal
    \/ \E m \in Ready : \/ \E n \in 1 .. MaxCall : PollWrite(n, m)
                        \/ ContinueWrite(m)
                        \/ PollFlush(m)
    \/ PollClose
    \/ \E m \in Arrived, eof \in BOOLEAN : \/ \E n \in 1 .. MaxCall : PollRead(n, m, eof)
                                           \/ ContinueRead(m, eof)

OpfuskSpec == OpfuskInit /\ [][OpfuskNext]_opfusk
-----------------------------------------------------------------------------
\* Both upgrades end with the same secret and the identity of the other.
SameSession == dialer.state = "done" /\ listener.state = "done" =>
    dialer.ss = listener.ss /\ dialer.peer = "L" /\ listener.peer = "D"

\* A call that moved nothing has met a Pending of the socket: somebody wakes it.
WillBeWoken(x) == ~x.busy /\ ~x.took => x.pending

\* What the listener reads is what the dialer wrote, in order and once, and every chunk
\* opens under the secret of the handshake however the socket cuts the bytes; the buffers
\* keep their capacity; poll_write and poll_read return Pending only where they will be
\* woken; and once all is flushed and the socket is empty, a read that returns Pending
\* has given the user everything.
StreamIntact ==
    /\ SameSession
    /\ \A i \in DOMAIN reader.got : reader.got[i] = Item("plain", i)
    /\ reader.error # "PermissionDenied"
    /\ Len(writer.buffer) <= BufferSize /\ Len(reader.buffer) <= BufferSize
    /\ WillBeWoken(writer) /\ (reader.error = "none" => WillBeWoken(reader))
    /\ Flushed(writer) /\ wire = <<>> /\ reader.error = "none" /\ ~reader.busy /\ ~reader.took
         => Len(reader.got) = writer.total
=============================================================================
