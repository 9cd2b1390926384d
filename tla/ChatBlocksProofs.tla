-------------------------- MODULE ChatBlocksProofs --------------------------
(***************************************************************************)
(* First what holds of the logs of a replication group whatever the        *)
(* environment does to it: its Faults, the replicas that are down, the     *)
(* restarts and the order of the group are any at all.                     *)
(*                                                                         *)
(* The header of a log counts bytes, the file is a sequence of messages.   *)
(* The inductive invariant says that the two fit together: the buffer and  *)
(* the part before the checkpoint are each a whole number of messages, and *)
(* they do not overlap.                                                    *)
(*                                                                         *)
(* The second half is about what the replicas agree on, and is true of     *)
(* orderly rounds only: RoundsInv says where every replica stands in the   *)
(* round of one block, by the proposals and votes that are still in        *)
(* flight.                                                                 *)
(***************************************************************************)
EXTENDS ChatBlocks, SubsequencesProofs, FiniteSetTheorems, SequenceTheorems

LogType == [file : Seq(Msg), bufLen : Nat, checkpoint : Nat, discarded : Nat,
            number : Nat, latest : Seq(Msg)]

\* The last k messages of l's file are its buffer, and its first c messages lie
\* before the checkpoint.
Fits(l, k, c) == /\ k \in Nat /\ c \in Nat /\ k + c <= Len(l.file)
                 /\ l.bufLen = MsgLen * k /\ l.checkpoint = MsgLen * c

\* The header of a log fits its file.
WellFormed(l) == l \in LogType /\ \E k, c \in Nat : Fits(l, k, c)

LogsFit == /\ log \in [Nodes -> LogType]
           /\ \A n \in Nodes : WellFormed(log[n]) /\ log[n].bufLen <= UnfinalizedBufferCap

\* Whoever knows the proposer's latest block finds the proposer by the length of the
\* proposed block.
MessagesFit ==
    \A m \in net : /\ m.to \in Nodes /\ m.block \in Seq(Msg) /\ m.number \in Nat
                   /\ m.type = "block" => Finalizer(m.base, ReceivedLen(m.block)) = m.from

\* The inductive invariant.
BlocksInv == LogsFit /\ MessagesFit
-----------------------------------------------------------------------------
\* Division and multiplication by a positive number.
LEMMA DivFacts ==
    ASSUME NEW a \in Nat, NEW b \in Nat \ {0}
    PROVE  a \div b \in Nat /\ b * (a \div b) <= a /\ a < b * (a \div b) + b
BY SMT

LEMMA DivUnique ==
    ASSUME NEW a \in Nat, NEW b \in Nat \ {0}, NEW q \in Nat, b * q <= a, a < b * q + b
    PROVE  a \div b = q
BY SMT

LEMMA Mul ==
    ASSUME NEW b \in Nat \ {0}, NEW i \in Int, NEW j \in Int
    PROVE  /\ b * i \in Int /\ b * (i + j) = b * i + b * j /\ b * (i - j) = b * i - b * j
           /\ (i <= j <=> b * i <= b * j) /\ (i < j <=> b * i < b * j)
           /\ b * 1 = b /\ b * 0 = 0
BY SMT

\* What the constants say of the limits.
LEMMA Limits ==
    /\ MsgLen \in Nat \ {0} /\ BlockSize \in Nat \ {0} /\ MsgLen <= BlockSize
    /\ UnfinalizedBufferCap \in Nat /\ BlockSize <= UnfinalizedBufferCap
    /\ BlockHistory * BlockSize \in Nat
    /\ UnfinalizedBufferCap + BlockSize <= BlockHistory * BlockSize
<1>1. /\ MsgLen \in Nat \ {0} /\ BlockSize \in Nat \ {0} /\ MsgLen <= BlockSize
      /\ MaxUnfinalizedBlocks \in Nat \ {0} /\ BlockHistory \in Nat
      /\ 1 <= MaxUnfinalizedBlocks /\ MaxUnfinalizedBlocks + 1 <= BlockHistory
  BY LengthAssumption, SMT
<1>2. /\ BlockSize * (MaxUnfinalizedBlocks + 1) = BlockSize * MaxUnfinalizedBlocks + BlockSize
      /\ BlockSize * 1 <= BlockSize * MaxUnfinalizedBlocks
      /\ BlockSize * (MaxUnfinalizedBlocks + 1) <= BlockSize * BlockHistory
      /\ BlockSize * 1 = BlockSize
  <2>1. MaxUnfinalizedBlocks \in Int /\ MaxUnfinalizedBlocks + 1 \in Int /\ BlockHistory \in Int /\ 1 \in Int
    BY <1>1, SMT
  <2> QED BY <1>1, <2>1, Mul
<1>3. /\ BlockSize * BlockHistory = BlockHistory * BlockSize
      /\ BlockSize * BlockHistory \in Nat /\ BlockSize * MaxUnfinalizedBlocks \in Nat
  BY <1>1, SMT
<1> QED BY <1>1, <1>2, <1>3, SMT DEF UnfinalizedBufferCap

\* The lengths of the two parts of a log, in messages.
LEMMA Parts ==
    ASSUME NEW l \in LogType, NEW k, NEW c, Fits(l, k, c)
    PROVE  /\ l.bufLen \div MsgLen = k
           /\ Buffer(l) \in Seq(Msg) /\ Len(Buffer(l)) = k
           /\ Finalized(l) \in Seq(Msg) /\ Len(Finalized(l)) = Len(l.file) - k
<1>1. l.bufLen \div MsgLen = k
  <2>1. MsgLen * k \in Nat /\ MsgLen * k <= MsgLen * k /\ MsgLen * k < MsgLen * k + MsgLen
    BY Limits, SMT DEF Fits
  <2> QED BY <2>1, Limits, DivUnique DEF Fits
<1>2. l.file \in Seq(Msg) /\ k \in Nat /\ k <= Len(l.file)
  BY SMT DEF LogType, Fits
<1> QED BY <1>1, <1>2, SMT DEF Buffer, Finalized

LEMMA WrittenFits ==
    ASSUME NEW l \in LogType, NEW k, NEW c, Fits(l, k, c), NEW msg \in Msg
    PROVE  Written(l, msg) \in LogType /\ Fits(Written(l, msg), k + 1, c)
<1>1. MsgLen * (k + 1) = MsgLen * k + MsgLen
  BY Limits, SMT DEF Fits
<1>2. /\ Written(l, msg) \in LogType
      /\ Written(l, msg).file = Append(l.file, msg)
      /\ Written(l, msg).bufLen = l.bufLen + MsgLen
      /\ Written(l, msg).checkpoint = l.checkpoint
  <2> DEFINE f == Append(l.file, msg)
             b == l.bufLen + MsgLen
  <2>1. f \in Seq(Msg) /\ b \in Nat
    BY Limits, SMT DEF LogType
  <2>2. Written(l, msg) = [l EXCEPT !.file = f, !.bufLen = b]
    BY DEF Written
  <2> HIDE DEF f, b
  <2>3. /\ Written(l, msg) \in LogType /\ Written(l, msg).file = f
        /\ Written(l, msg).bufLen = b /\ Written(l, msg).checkpoint = l.checkpoint
    BY <2>1, <2>2 DEF LogType
  <2> QED BY <2>3 DEF f, b
<1>3. Len(Append(l.file, msg)) = Len(l.file) + 1 /\ Len(l.file) \in Nat
  BY SMT DEF LogType
<1> QED BY <1>1, <1>2, <1>3, SMT DEF Fits

\* Cutting the file down leaves the buffer in it, for what is kept is longer than the
\* longest buffer: the checkpoint is set to its start.
LEMMA CompactedFits ==
    ASSUME NEW l \in LogType, NEW k, NEW c, Fits(l, k, c), NEW msg \in Msg,
           l.bufLen <= UnfinalizedBufferCap
    PROVE  LET w == Compacted(l, Written(l, msg))
           IN  w \in LogType /\ \E d \in Nat : Fits(w, k + 1, d)
<1> DEFINE w == Written(l, msg)
           v == Compacted(l, w)
           live == Bytes(l.file) - l.checkpoint
           size == Len(l.file) - c
<1>1. w \in LogType /\ Fits(w, k + 1, c)
  BY WrittenFits
<1>2. k \in Nat /\ c \in Nat /\ size \in Nat /\ Len(l.file) \in Nat /\ l.file \in Seq(Msg)
  BY SMT DEF Fits, LogType
<1>3. CASE live > BlockHistory * BlockSize
  <2>1. live = MsgLen * size
    <3>1. MsgLen * (Len(l.file) - c) = MsgLen * Len(l.file) - MsgLen * c
      <4>1. Len(l.file) \in Int /\ c \in Int
        BY <1>2, SMT
      <4> QED BY <4>1, Limits, Mul
    <3> QED BY <3>1 DEF Fits, Bytes
  <2>2. /\ MsgLen * (k + 1) = MsgLen * k + MsgLen
        /\ MsgLen * (size - (k + 1)) = MsgLen * size - MsgLen * (k + 1)
    <3>1. k \in Int /\ 1 \in Int /\ k + 1 \in Int /\ size \in Int
      BY <1>2, SMT
    <3> HIDE DEF size
    <3> QED BY <3>1, Limits, Mul
  <2>3. MsgLen * (k + 1) <= MsgLen * size
    <3>1. MsgLen * k <= UnfinalizedBufferCap /\ MsgLen * k \in Nat /\ MsgLen * size \in Int
      BY <1>2, Limits, SMT DEF Fits
    <3> HIDE DEF live, size
    <3> QED BY <1>3, <2>1, <2>2, <3>1, Limits, SMT
  <2>4. k + 1 <= size
    <3>1. k + 1 \in Int /\ size \in Int
      BY <1>2, SMT
    <3> QED BY <2>3, <3>1, Limits, Mul
  <2>5. l.checkpoint \div MsgLen = c
    <3>1. MsgLen * c \in Nat /\ MsgLen * c <= MsgLen * c /\ MsgLen * c < MsgLen * c + MsgLen
      BY <1>2, Limits, SMT
    <3> QED BY <1>2, <3>1, Limits, DivUnique DEF Fits
  <2> DEFINE file == SubSeq(l.file, c + 1, Len(l.file))
  <2>6. file \in Seq(Msg) /\ Len(file) = size
    BY <1>2, SMT
  <2>7. v = [w EXCEPT !.file = file, !.discarded = @ + live, !.checkpoint = live - w.bufLen]
    BY <1>3, <2>5 DEF Compacted
  <2>8. live - w.bufLen = MsgLen * (size - (k + 1)) /\ live - w.bufLen \in Nat /\ live \in Nat
    <3>1. MsgLen * (k + 1) \in Nat /\ w.bufLen = MsgLen * (k + 1) /\ MsgLen * size \in Nat
      BY <1>1, <1>2, Limits, SMT DEF Fits
    <3> HIDE DEF live, size, w
    <3> QED BY <2>1, <2>2, <2>3, <3>1, SMT
  <2>9. /\ v \in LogType
        /\ v.file = file /\ v.bufLen = w.bufLen /\ v.checkpoint = live - w.bufLen
    <3> DEFINE cp == live - w.bufLen
               dis == w.discarded + live
    <3>1. cp \in Nat /\ dis \in Nat
      <4> HIDE DEF live, w
      <4> QED BY <1>1, <2>8, SMT DEF LogType
    <3>2. v = [w EXCEPT !.file = file, !.discarded = dis, !.checkpoint = cp]
      BY <2>7
    <3> HIDE DEF cp, dis, w, file, v
    <3>3. v \in LogType /\ v.file = file /\ v.bufLen = w.bufLen /\ v.checkpoint = cp
      BY <1>1, <2>6, <3>1, <3>2 DEF LogType
    <3> QED BY <3>3 DEF cp
  <2>10. size - (k + 1) \in Nat /\ k + 1 \in Nat /\ (k + 1) + (size - (k + 1)) <= size
    <3> HIDE DEF size
    <3> QED BY <1>2, <2>4, SMT
  <2>11. Fits(v, k + 1, size - (k + 1))
    <3> HIDE DEF live, w, file, v, size
    <3> QED BY <1>1, <2>6, <2>8, <2>9, <2>10 DEF Fits
  <2> HIDE DEF v, size
  <2> QED BY <2>9, <2>10, <2>11 DEF v
<1>4. CASE ~(live > BlockHistory * BlockSize)
  <2>1. v = w
    BY <1>4 DEF Compacted
  <2> QED BY <1>1, <1>2, <2>1
<1> QED BY <1>3, <1>4

\* A message that is written leaves the log well-formed and the buffer within its
\* limit: of a buffer that has outgrown the limit by one message at least one message
\* is discarded.
LEMMA AppendedFits ==
    ASSUME NEW l, WellFormed(l), l.bufLen <= UnfinalizedBufferCap, NEW msg \in Msg
    PROVE  WellFormed(Appended(l, msg)) /\ Appended(l, msg).bufLen <= UnfinalizedBufferCap
<1>0. PICK k \in Nat, c \in Nat : Fits(l, k, c)
  BY DEF WellFormed
<1> DEFINE w == Compacted(l, Written(l, msg))
           j == k + 1
<1>1. w \in LogType /\ \E d \in Nat : Fits(w, j, d)
  BY <1>0, CompactedFits DEF WellFormed
<1>2. PICK d \in Nat : Fits(w, j, d)
  BY <1>1
<1>3. j \in Nat /\ MsgLen * j = MsgLen * k + MsgLen /\ MsgLen * k <= UnfinalizedBufferCap
      /\ MsgLen * k \in Nat
  BY <1>0, Limits, SMT DEF Fits
<1> HIDE DEF w, j
<1>4. CASE w.bufLen > UnfinalizedBufferCap
  <2> DEFINE extra == w.bufLen - BlockSize + MsgLen - 1
             kept == extra \div MsgLen
             buf == Buffer(w)
             file == Finalized(w) \o SubSeq(buf, Len(buf) - kept + 1, Len(buf))
             v == [w EXCEPT !.file = file, !.bufLen = kept * MsgLen]
  <2>1. Trimmed(w) = v
    BY <1>4 DEF Trimmed
  <2>2. extra \in Nat /\ extra < MsgLen * j
    BY <1>2, <1>3, <1>4, Limits, SMT DEF Fits
  <2>3. kept \in Nat /\ MsgLen * kept <= extra
    <3> HIDE DEF extra
    <3> QED BY <2>2, Limits, DivFacts
  <2>4. kept < j /\ kept <= k
    <3>1. MsgLen * kept < MsgLen * j
      <4>1. MsgLen * kept \in Nat
        BY <2>3, Limits, SMT
      <4>2. MsgLen * j \in Nat
        BY <1>3, Limits, SMT
      <4> HIDE DEF kept, extra
      <4> QED BY <2>2, <2>3, <4>1, <4>2, SMT
    <3>2. kept < j
      <4>1. kept \in Int /\ j \in Int
        BY <1>3, <2>3, SMT
      <4> HIDE DEF kept
      <4> QED BY <3>1, <4>1, Limits, Mul
    <3> HIDE DEF kept
    <3> QED BY <2>3, <3>2, SMT DEF j
  <2>5. /\ buf \in Seq(Msg) /\ Len(buf) = j
        /\ Finalized(w) \in Seq(Msg) /\ Len(Finalized(w)) = Len(w.file) - j
    BY <1>1, <1>2, Parts
  <2>6. file \in Seq(Msg) /\ Len(file) = Len(w.file) - j + kept /\ Len(w.file) \in Nat
    <3>1. Len(w.file) \in Nat
      BY <1>1 DEF LogType
    <3> DEFINE tail == SubSeq(buf, Len(buf) - kept + 1, Len(buf))
    <3>2. tail \in Seq(Msg) /\ Len(tail) = kept
      <4> HIDE DEF buf, kept
      <4> QED BY <1>3, <2>3, <2>4, <2>5, SMT
    <3> DEFINE front == Finalized(w)
    <3>3. file = front \o tail /\ front \in Seq(Msg) /\ Len(front) = Len(w.file) - j
      BY <2>5
    <3> HIDE DEF tail, file, kept, front
    <3>4. front \in Seq(Msg) /\ tail \in Seq(Msg)
      BY <3>2, <3>3
    <3>5. Len(front \o tail) = Len(front) + Len(tail) /\ front \o tail \in Seq(Msg)
      BY <3>4, SMT
    <3> QED BY <3>1, <3>2, <3>3, <3>5
  <2>7. kept * MsgLen = MsgLen * kept /\ kept * MsgLen \in Nat /\ kept * MsgLen <= UnfinalizedBufferCap
    <3>1. MsgLen * kept <= MsgLen * k /\ MsgLen * kept \in Nat /\ kept * MsgLen = MsgLen * kept
      <4> HIDE DEF kept
      <4> QED BY <1>0, <2>3, <2>4, Limits, SMT
    <3> HIDE DEF kept
    <3> QED BY <3>1, <1>3, Limits, SMT
  <2>8. /\ v \in LogType
        /\ v.file = file /\ v.bufLen = kept * MsgLen /\ v.checkpoint = w.checkpoint
    <3> DEFINE b == kept * MsgLen
    <3>1. b \in Nat /\ v = [w EXCEPT !.file = file, !.bufLen = b]
      BY <2>7
    <3> HIDE DEF file, b, v
    <3>2. v \in LogType /\ v.file = file /\ v.bufLen = b /\ v.checkpoint = w.checkpoint
      BY <1>1, <2>6, <3>1 DEF LogType
    <3> QED BY <3>2 DEF b
  <2>9. Fits(v, kept, d)
    <3>1. kept + d <= Len(file)
      <4> HIDE DEF file, kept
      <4> QED BY <1>2, <1>3, <2>3, <2>6, SMT DEF Fits
    <3> HIDE DEF v, file, kept
    <3> QED BY <1>2, <2>3, <2>7, <2>8, <3>1 DEF Fits
  <2> HIDE DEF v, kept
  <2> QED BY <2>1, <2>3, <2>7, <2>8, <2>9 DEF Appended, WellFormed, w
<1>5. CASE ~(w.bufLen > UnfinalizedBufferCap)
  <2>1. Appended(l, msg) = w
    BY <1>5 DEF Appended, Trimmed, w
  <2>2. w.bufLen <= UnfinalizedBufferCap
    BY <1>1, <1>5, Limits, SMT DEF LogType
  <2> QED BY <1>1, <1>2, <1>3, <2>1, <2>2 DEF WellFormed
<1> QED BY <1>4, <1>5

\* A local block takes messages of its own buffer out of it.
LEMMA AcceptedLocalFits ==
    ASSUME NEW l, WellFormed(l), NEW block \in Seq(Msg), NEW number \in Nat, Bytes(block) <= l.bufLen
    PROVE  /\ WellFormed(AcceptedLocal(l, block, number))
           /\ AcceptedLocal(l, block, number).bufLen <= l.bufLen
<1>0. PICK k \in Nat, c \in Nat : Fits(l, k, c)
  BY DEF WellFormed
<1> DEFINE h == Len(block)
           b == l.bufLen - Bytes(block)
           v == AcceptedLocal(l, block, number)
<1>1. l \in LogType /\ h \in Nat
  BY SMT DEF WellFormed
<1>2. MsgLen * h <= MsgLen * k /\ MsgLen * (k - h) = MsgLen * k - MsgLen * h
  BY <1>0, <1>1, Limits, Mul DEF Fits, Bytes
<1>3. h <= k /\ k - h \in Nat
  BY <1>0, <1>1, <1>2, Limits, Mul
<1>4. b = MsgLen * (k - h) /\ b \in Nat /\ b <= l.bufLen
  <2>1. MsgLen * h \in Nat /\ MsgLen * (k - h) \in Nat
    BY <1>1, <1>3, Limits, SMT
  <2> HIDE DEF h
  <2> QED BY <1>0, <1>1, <1>2, <2>1, SMT DEF Fits, Bytes, h, LogType
<1>5. v = [l EXCEPT !.number = number, !.latest = block, !.bufLen = b]
  BY DEF AcceptedLocal
<1>6. v \in LogType /\ v.file = l.file /\ v.bufLen = b /\ v.checkpoint = l.checkpoint
  <2> HIDE DEF b, v
  <2> QED BY <1>1, <1>4, <1>5 DEF LogType
<1>7. k - h + c <= Len(l.file)
  <2> HIDE DEF h
  <2> QED BY <1>0, <1>1, <1>3, SMT DEF Fits, LogType
<1> HIDE DEF v, b, h
<1>8. Fits(v, k - h, c)
  BY <1>0, <1>3, <1>4, <1>6, <1>7 DEF Fits
<1> QED BY <1>0, <1>3, <1>4, <1>6, <1>8 DEF WellFormed, v

\* A block of another replica pushes the messages that stay in the buffer back; they
\* are no more than before.
LEMMA AcceptedRemoteFits ==
    ASSUME NEW l, WellFormed(l), NEW block \in Seq(Msg), NEW number \in Nat
    PROVE  /\ WellFormed(AcceptedRemote(l, block, number))
           /\ AcceptedRemote(l, block, number).bufLen <= l.bufLen
<1>0. PICK k \in Nat, c \in Nat : Fits(l, k, c)
  BY DEF WellFormed
<1> DEFINE buf == Buffer(l)
           rest == At(buf, {i \in DOMAIN buf : buf[i] \notin Messages(block)})
           front == Finalized(l)
           file == front \o block \o rest
           b == Bytes(rest)
           v == AcceptedRemote(l, block, number)
           j == Len(rest)
<1>1. /\ l \in LogType /\ buf \in Seq(Msg) /\ Len(buf) = k
      /\ front \in Seq(Msg) /\ Len(front) = Len(l.file) - k
  BY <1>0, Parts DEF WellFormed
<1>2. rest \in Seq(Msg) /\ j <= k /\ j \in Nat
  <2>1. rest \in Seq(Msg) /\ Len(rest) <= Len(buf)
    <3> HIDE DEF buf
    <3> QED BY <1>1, AtEmbeds
  <2>2. Len(rest) \in Nat
    <3> HIDE DEF rest
    <3> QED BY <2>1, SMT
  <2> HIDE DEF rest, buf
  <2> QED BY <1>1, <2>1, <2>2
<1>3. file \in Seq(Msg) /\ Len(file) = Len(front) + Len(block) + j
  <2>1. front \in Seq(Msg) /\ rest \in Seq(Msg)
    BY <1>1, <1>2
  <2> HIDE DEF rest, front
  <2>2. front \o block \in Seq(Msg) /\ Len(front \o block) = Len(front) + Len(block)
    BY <2>1, SMT
  <2> DEFINE head == front \o block
  <2> HIDE DEF head
  <2>3. head \o rest \in Seq(Msg) /\ Len(head \o rest) = Len(head) + Len(rest)
    BY <2>1, <2>2, SMT DEF head
  <2> QED BY <2>2, <2>3 DEF head
<1>4. b = MsgLen * j /\ b \in Nat /\ b <= l.bufLen
  <2>1. MsgLen * j <= MsgLen * k /\ MsgLen * j \in Nat
    <3> HIDE DEF j
    <3> QED BY <1>0, <1>2, Limits, SMT
  <2> QED BY <1>0, <2>1 DEF Fits, Bytes
<1>5. v = [l EXCEPT !.number = number, !.latest = block, !.file = file, !.bufLen = b]
  BY DEF AcceptedRemote
<1>6. v \in LogType /\ v.file = file /\ v.bufLen = b /\ v.checkpoint = l.checkpoint
  <2> HIDE DEF b, v, file
  <2> QED BY <1>1, <1>3, <1>4, <1>5 DEF LogType
<1>7. j + c <= Len(file)
  <2>1. Len(l.file) \in Nat /\ Len(block) \in Nat /\ k + c <= Len(l.file)
    BY <1>0, <1>1 DEF LogType, Fits
  <2> HIDE DEF j, file, front
  <2> QED BY <1>0, <1>1, <1>2, <1>3, <2>1, SMT
<1> HIDE DEF v, b, j, file
<1>8. Fits(v, j, c)
  BY <1>0, <1>2, <1>4, <1>6, <1>7 DEF Fits
<1> QED BY <1>0, <1>2, <1>4, <1>6, <1>8 DEF WellFormed, v

\* A receiver computes the proposer's round from the length of the block alone.
LEMMA ProposerFound ==
    ASSUME NEW l, WellFormed(l)
    PROVE  /\ ProposedBlock(l) \in Seq(Msg)
           /\ ReceivedLen(ProposedBlock(l)) \div BlockSize = l.bufLen \div BlockSize
<1>0. PICK k \in Nat, c \in Nat : Fits(l, k, c)
  BY DEF WellFormed
<1> DEFINE K == l.bufLen \div BlockSize
           whole == K * BlockSize
           cnt == whole \div MsgLen
           buf == Buffer(l)
<1>1. l \in LogType /\ buf \in Seq(Msg) /\ Len(buf) = k /\ l.bufLen = MsgLen * k /\ l.bufLen \in Nat
  BY <1>0, Parts DEF WellFormed, Fits, LogType
<1>2. K \in Nat /\ whole = BlockSize * K /\ whole \in Nat /\ whole <= l.bufLen
  <2>1. K \in Nat /\ BlockSize * K <= l.bufLen
    BY <1>1, Limits, DivFacts
  <2>2. whole = BlockSize * K /\ BlockSize * K \in Nat
    <3> HIDE DEF K
    <3> QED BY <2>1, Limits, SMT
  <2> HIDE DEF K
  <2> QED BY <2>1, <2>2
<1>3. cnt \in Nat /\ MsgLen * cnt <= whole /\ whole < MsgLen * cnt + MsgLen
  <2> HIDE DEF whole
  <2> QED BY <1>2, Limits, DivFacts
<1>4. cnt <= k
  <2>1. MsgLen * cnt <= MsgLen * k
    <3>1. MsgLen * cnt \in Nat /\ MsgLen * k \in Nat
      <4> HIDE DEF cnt
      <4> QED BY <1>0, <1>3, Limits, SMT
    <3> HIDE DEF cnt, whole
    <3> QED BY <1>1, <1>2, <1>3, <3>1, SMT
  <2>2. cnt \in Int /\ k \in Int
    <3> HIDE DEF cnt
    <3> QED BY <1>0, <1>3, SMT
  <2> HIDE DEF cnt
  <2> QED BY <2>1, <2>2, Limits, Mul
<1>5. ProposedBlock(l) = SubSeq(buf, 1, cnt)
  BY DEF ProposedBlock
<1>6. ProposedBlock(l) \in Seq(Msg) /\ Len(ProposedBlock(l)) = cnt
  <2> HIDE DEF cnt, buf
  <2> QED BY <1>0, <1>1, <1>3, <1>4, <1>5, SMT
<1> DEFINE r == ReceivedLen(ProposedBlock(l))
<1>7. r \in Nat /\ BlockSize * K <= r /\ r < BlockSize * K + BlockSize
  <2>1. r = MsgLen * cnt + BlockSize - 1
    BY <1>6 DEF ReceivedLen, Bytes
  <2>2. MsgLen * cnt \in Nat
    <3> HIDE DEF cnt
    <3> QED BY <1>3, Limits, SMT
  <2> DEFINE x == MsgLen * cnt
  <2>3. /\ r = x + BlockSize - 1 /\ x \in Nat /\ whole \in Nat /\ x <= whole
        /\ whole < x + MsgLen /\ whole = BlockSize * K
    BY <1>2, <1>3, <2>1, <2>2
  <2> HIDE DEF x, whole, K, r
  <2> QED BY <2>3, Limits, SMT
<1>8. r \div BlockSize = K
  <2> HIDE DEF r, K
  <2> QED BY <1>2, <1>7, Limits, DivUnique
<1> QED BY <1>6, <1>8
-----------------------------------------------------------------------------
FinalLen(l) == Len(l.file) - l.bufLen \div MsgLen

\* The messages that are final in l are so in v, at the same places.
Keeps(l, v) == /\ FinalLen(l) <= FinalLen(v)
               /\ \A i \in 1 .. FinalLen(l) : v.file[i] = l.file[i]

LEMMA FinalTypes ==
    ASSUME NEW l, WellFormed(l)
    PROVE  /\ FinalLen(l) \in Nat /\ FinalLen(l) <= Len(l.file) /\ l.file \in Seq(Msg)
           /\ Finalized(l) \in Seq(Msg) /\ Len(Finalized(l)) = FinalLen(l)
           /\ \A i \in 1 .. FinalLen(l) : Finalized(l)[i] = l.file[i]
<1>0. PICK k \in Nat, c \in Nat : Fits(l, k, c)
  BY DEF WellFormed
<1>1. l \in LogType /\ l.file \in Seq(Msg) /\ Len(l.file) \in Nat
  BY DEF WellFormed, LogType
<1>2. FinalLen(l) = Len(l.file) - k /\ Finalized(l) = SubSeq(l.file, 1, Len(l.file) - k)
  BY <1>0, <1>1, Parts DEF FinalLen, Finalized
<1>3. Len(l.file) - k \in Nat /\ Len(l.file) - k <= Len(l.file)
  BY <1>0, <1>1, SMT DEF Fits
<1> QED BY <1>1, <1>2, <1>3, SMT

LEMMA KeepsPrefix ==
    ASSUME NEW l, NEW v, WellFormed(l), WellFormed(v), Keeps(l, v)
    PROVE  IsPrefix(Finalized(l), Finalized(v))
<1> DEFINE s == Finalized(l)
           t == Finalized(v)
<1>1. /\ s \in Seq(Msg) /\ t \in Seq(Msg) /\ Len(s) <= Len(t)
      /\ \A i \in 1 .. Len(s) : s[i] = t[i]
  <2>1. \A i \in 1 .. FinalLen(l) : i \in 1 .. FinalLen(v)
    BY FinalTypes, SMT DEF Keeps
  <2> QED BY <2>1, FinalTypes DEF Keeps
<1> HIDE DEF s, t
<1>2. IsPrefix(s, t)
  BY <1>1, SMT DEF IsPrefix
<1> QED BY <1>2 DEF s, t

LEMMA WrittenKeeps ==
    ASSUME NEW l, WellFormed(l), NEW msg \in Msg
    PROVE  WellFormed(Written(l, msg)) /\ Keeps(l, Written(l, msg))
<1>0. PICK k \in Nat, c \in Nat : Fits(l, k, c)
  BY DEF WellFormed
<1> DEFINE w == Written(l, msg)
<1>1. l \in LogType /\ w \in LogType /\ Fits(w, k + 1, c) /\ k + 1 \in Nat
  BY <1>0, WrittenFits DEF WellFormed
<1>2. FinalLen(l) = Len(l.file) - k /\ FinalLen(w) = Len(w.file) - (k + 1)
  <2> HIDE DEF w
  <2> QED BY <1>0, <1>1, Parts DEF FinalLen
<1>3. w.file = Append(l.file, msg) /\ l.file \in Seq(Msg)
  BY <1>1 DEF Written, LogType
<1>4. /\ Len(w.file) = Len(l.file) + 1 /\ Len(l.file) \in Nat
      /\ \A i \in 1 .. Len(l.file) : w.file[i] = l.file[i]
  <2> HIDE DEF w
  <2> QED BY <1>3, SMT
<1> HIDE DEF w
<1>5. Keeps(l, w)
  BY <1>0, <1>2, <1>4, SMT DEF Keeps
<1> QED BY <1>0, <1>1, <1>5 DEF WellFormed, w

LEMMA TrimmedKeeps ==
    ASSUME NEW w, WellFormed(w), WellFormed(Trimmed(w))
    PROVE  Keeps(w, Trimmed(w))
<1>1. CASE w.bufLen > UnfinalizedBufferCap
  <2> DEFINE extra == w.bufLen - BlockSize + MsgLen - 1
             kept == extra \div MsgLen
             buf == Buffer(w)
             front == Finalized(w)
             tail == SubSeq(buf, Len(buf) - kept + 1, Len(buf))
             file == front \o tail
             v == [w EXCEPT !.file = file, !.bufLen = kept * MsgLen]
  <2>1. Trimmed(w) = v
    BY <1>1 DEF Trimmed
  <2>2. w \in LogType /\ w.bufLen \in Nat
    BY DEF WellFormed, LogType
  <2>3. v.file = file /\ v.bufLen = kept * MsgLen
    <3> HIDE DEF file, kept
    <3> QED BY <2>2 DEF LogType
  <2>4. extra \in Nat
    BY <1>1, <2>2, Limits, SMT
  <2>5. kept \in Nat
    <3> HIDE DEF extra
    <3> QED BY <2>4, Limits, DivFacts
  <2>6. v.bufLen \div MsgLen = kept
    <3>1. v.bufLen \in Nat /\ MsgLen * kept <= v.bufLen /\ v.bufLen < MsgLen * kept + MsgLen
      <4> HIDE DEF kept, v
      <4> QED BY <2>3, <2>5, Limits, SMT
    <3> HIDE DEF kept, v
    <3> QED BY <2>5, <3>1, Limits, DivUnique
  <2>7. front \in Seq(Msg) /\ Len(front) = FinalLen(w) /\ FinalLen(w) \in Nat
        /\ \A i \in 1 .. FinalLen(w) : front[i] = w.file[i]
    BY FinalTypes
  <2>8. FinalLen(v) = Len(file) - kept
    BY <2>3, <2>6 DEF FinalLen
  <2>9. tail \in Seq(Msg) /\ Len(tail) = kept
    <3>0. PICK k \in Nat, c \in Nat : Fits(w, k, c)
      BY DEF WellFormed
    <3>1. buf \in Seq(Msg) /\ Len(buf) = k
      BY <2>2, <3>0, Parts
    <3>2. w.bufLen = MsgLen * k /\ extra < MsgLen * k
      BY <2>2, <3>0, Limits, SMT DEF Fits
    <3>3. MsgLen * kept <= extra
      <4> HIDE DEF extra
      <4> QED BY <2>4, Limits, DivFacts
    <3>4. MsgLen * kept < MsgLen * k
      <4>1. MsgLen * kept \in Nat /\ MsgLen * k \in Nat
        <5> HIDE DEF kept
        <5> QED BY <2>5, <3>0, Limits, SMT
      <4> HIDE DEF kept, extra
      <4> QED BY <2>4, <3>2, <3>3, <4>1, SMT
    <3>5. kept < k
      <4>1. kept \in Int /\ k \in Int
        <5> HIDE DEF kept
        <5> QED BY <2>5, <3>0, SMT
      <4> HIDE DEF kept
      <4> QED BY <3>4, <4>1, Limits, Mul
    <3> HIDE DEF buf, kept
    <3> QED BY <2>5, <3>0, <3>1, <3>5, SMT
  <2>10. Len(file) = FinalLen(w) + kept /\ \A i \in 1 .. FinalLen(w) : file[i] = w.file[i]
    <3>1. front \in Seq(Msg) /\ tail \in Seq(Msg)
      BY <2>7, <2>9
    <3> HIDE DEF front, tail, kept
    <3>2. Len(file) = Len(front) + Len(tail) /\ \A i \in 1 .. Len(front) : file[i] = front[i]
      BY <3>1, SMT
    <3> HIDE DEF file
    <3> QED BY <2>7, <2>9, <3>2
  <2>11. Keeps(w, v)
    <3>1. FinalLen(v) = FinalLen(w)
      <4>1. \A a, b \in Nat : \A x : x = a + b => x - b = a
        BY SMT
      <4>2. kept \in Nat /\ FinalLen(w) \in Nat /\ Len(file) = FinalLen(w) + kept
        BY <2>5, <2>7, <2>10
      <4> HIDE DEF v, file, kept
      <4>3. Len(file) - kept = FinalLen(w)
        BY <4>1, <4>2
      <4> QED BY <2>8, <4>3
    <3>2. FinalLen(w) <= FinalLen(w)
      BY <2>7, SMT
    <3> HIDE DEF v, file
    <3> QED BY <2>3, <2>10, <3>1, <3>2 DEF Keeps
  <2> QED BY <2>1, <2>11
<1>2. CASE ~(w.bufLen > UnfinalizedBufferCap)
  <2>1. Trimmed(w) = w
    BY <1>2 DEF Trimmed
  <2>2. FinalLen(w) <= FinalLen(w)
    BY FinalTypes, SMT
  <2> QED BY <2>1, <2>2 DEF Keeps
<1> QED BY <1>1, <1>2

\* A message that does not cut the file down only adds to it, and may fill the buffer.
LEMMA NotCut ==
    ASSUME NEW l, WellFormed(l), l.bufLen <= UnfinalizedBufferCap, NEW msg \in Msg,
           Appended(l, msg).discarded <= l.discarded
    PROVE  Appended(l, msg) = Trimmed(Written(l, msg))
<1> DEFINE w == Written(l, msg)
           live == Bytes(l.file) - l.checkpoint
           v == Appended(l, msg)
<1>1. WellFormed(w) /\ w.discarded = l.discarded /\ w \in LogType /\ l.discarded \in Nat
  BY WrittenKeeps DEF WellFormed, Written, LogType
<1>2. live \in Int
  <2>1. Len(l.file) \in Nat /\ l.checkpoint \in Nat
    BY DEF WellFormed, LogType
  <2>2. MsgLen * Len(l.file) \in Nat
    BY <2>1, Limits, SMT
  <2> QED BY <2>1, <2>2, SMT DEF Bytes
<1>3. Compacted(l, w) = w
  <2> SUFFICES ASSUME live > BlockHistory * BlockSize PROVE FALSE
    BY DEF Compacted
  <2>1. Compacted(l, w).discarded = w.discarded + live
    <3> DEFINE f == SubSeq(l.file, l.checkpoint \div MsgLen + 1, Len(l.file))
               d == w.discarded + live
               cp == live - w.bufLen
    <3>1. Compacted(l, w) = [w EXCEPT !.file = f, !.discarded = d, !.checkpoint = cp]
      BY DEF Compacted
    <3>2. Compacted(l, w).discarded = d
      <4> HIDE DEF f, d, cp, w
      <4> QED BY <1>1, <3>1 DEF LogType
    <3> QED BY <3>2
  <2>2. \A x \in LogType : Trimmed(x).discarded = x.discarded
    <3> TAKE x \in LogType
    <3> DEFINE kept == (x.bufLen - BlockSize + MsgLen - 1) \div MsgLen
               f == Finalized(x) \o SubSeq(Buffer(x), Len(Buffer(x)) - kept + 1, Len(Buffer(x)))
               b == kept * MsgLen
    <3>1. Trimmed(x) = x \/ Trimmed(x) = [x EXCEPT !.file = f, !.bufLen = b]
      BY DEF Trimmed
    <3> HIDE DEF kept, f, b
    <3> QED BY <3>1 DEF LogType
  <2>3. Compacted(l, w) \in LogType
    <3>1. PICK k \in Nat, c \in Nat : Fits(l, k, c)
      BY DEF WellFormed
    <3> QED BY <3>1, CompactedFits DEF WellFormed
  <2>4. v.discarded = w.discarded + live
    BY <2>1, <2>2, <2>3 DEF Appended
  <2> HIDE DEF live, w
  <2> QED BY <1>1, <1>2, <2>4, Limits, SMT DEF v
<1> QED BY <1>3 DEF Appended

\* Such a message keeps all that is final where it is.
LEMMA AppendedKeeps ==
    ASSUME NEW l, WellFormed(l), l.bufLen <= UnfinalizedBufferCap, NEW msg \in Msg,
           Appended(l, msg).discarded <= l.discarded
    PROVE  Keeps(l, Appended(l, msg))
<1> DEFINE w == Written(l, msg)
           v == Appended(l, msg)
<1>1. WellFormed(w) /\ Keeps(l, w)
  BY WrittenKeeps
<1>2. v = Trimmed(w) /\ WellFormed(v)
  BY NotCut, AppendedFits
<1>3. Keeps(w, v)
  <2> HIDE DEF w, v
  <2> QED BY <1>1, <1>2, TrimmedKeeps
<1>4. FinalLen(l) \in Nat /\ FinalLen(w) \in Nat /\ FinalLen(v) \in Nat
  <2> HIDE DEF w, v
  <2> QED BY <1>1, <1>2, FinalTypes
<1>5. Keeps(l, v)
  <2> HIDE DEF w, v
  <2> QED BY <1>1, <1>3, <1>4, SMT DEF Keeps
<1> QED BY <1>5

LEMMA AcceptedLocalKeeps ==
    ASSUME NEW l, WellFormed(l), NEW block \in Seq(Msg), NEW number \in Nat, Bytes(block) <= l.bufLen
    PROVE  Keeps(l, AcceptedLocal(l, block, number))
<1> DEFINE v == AcceptedLocal(l, block, number)
<1>1. v.file = l.file /\ l.bufLen \in Nat /\ Len(l.file) \in Nat
  BY DEF AcceptedLocal, WellFormed, LogType
<1>2. WellFormed(v) /\ v.bufLen <= l.bufLen /\ v.bufLen \in Nat
  BY AcceptedLocalFits DEF WellFormed, LogType
<1>3. v.bufLen \div MsgLen <= l.bufLen \div MsgLen /\ v.bufLen \div MsgLen \in Nat /\ l.bufLen \div MsgLen \in Nat
  <2>1. ASSUME NEW a \in Nat, NEW b \in Nat, a <= b
        PROVE  a \div MsgLen <= b \div MsgLen /\ a \div MsgLen \in Nat /\ b \div MsgLen \in Nat
    BY <2>1, Limits, SMT
  <2> HIDE DEF v
  <2> QED BY <1>1, <1>2, <2>1
<1> HIDE DEF v
<1>4. Keeps(l, v)
  BY <1>1, <1>3, SMT DEF Keeps, FinalLen
<1> QED BY <1>4 DEF v

LEMMA AcceptedRemoteKeeps ==
    ASSUME NEW l, WellFormed(l), NEW block \in Seq(Msg), NEW number \in Nat
    PROVE  Keeps(l, AcceptedRemote(l, block, number))
<1> DEFINE buf == Buffer(l)
           rest == At(buf, {i \in DOMAIN buf : buf[i] \notin Messages(block)})
           front == Finalized(l)
           head == front \o block
           file == head \o rest
           b == Bytes(rest)
           v == AcceptedRemote(l, block, number)
           j == Len(rest)
<1>1. /\ l \in LogType /\ buf \in Seq(Msg)
      /\ front \in Seq(Msg) /\ Len(front) = FinalLen(l) /\ FinalLen(l) \in Nat
      /\ \A i \in 1 .. FinalLen(l) : front[i] = l.file[i]
  <2>1. PICK k \in Nat, c \in Nat : Fits(l, k, c)
    BY DEF WellFormed
  <2> QED BY <2>1, Parts, FinalTypes DEF WellFormed
<1>2. rest \in Seq(Msg) /\ j \in Nat
  <2>1. rest \in Seq(Msg)
    <3> HIDE DEF buf
    <3> QED BY <1>1, AtEmbeds
  <2> HIDE DEF rest
  <2> QED BY <2>1, SMT
<1>3. v = [l EXCEPT !.number = number, !.latest = block, !.file = file, !.bufLen = b]
  BY DEF AcceptedRemote
<1>4. v.file = file /\ v.bufLen = b
  <2> HIDE DEF b, v, file
  <2> QED BY <1>1, <1>3 DEF LogType
<1>5. b \div MsgLen = j
  <2>1. b = MsgLen * j
    BY DEF Bytes
  <2> HIDE DEF b, j
  <2>2. b \in Nat /\ MsgLen * j <= b /\ b < MsgLen * j + MsgLen
    BY <1>2, <2>1, Limits, SMT
  <2> QED BY <1>2, <2>2, Limits, DivUnique
<1>6. /\ Len(head) = FinalLen(l) + Len(block) /\ head \in Seq(Msg)
      /\ \A i \in 1 .. FinalLen(l) : head[i] = l.file[i]
  <2>1. front \in Seq(Msg)
    BY <1>1
  <2> HIDE DEF front
  <2>2. /\ Len(head) = Len(front) + Len(block) /\ head \in Seq(Msg)
        /\ \A i \in 1 .. Len(front) : head[i] = front[i]
    BY <2>1, SMT
  <2> HIDE DEF head
  <2> QED BY <1>1, <2>2
<1>7. Len(file) = Len(head) + j /\ \A i \in 1 .. Len(head) : file[i] = head[i]
  <2>1. head \in Seq(Msg) /\ rest \in Seq(Msg)
    BY <1>2, <1>6
  <2> HIDE DEF head, rest
  <2> QED BY <2>1, SMT
<1>8. FinalLen(v) = FinalLen(l) + Len(block)
  <2>1. FinalLen(v) = Len(file) - j
    BY <1>4, <1>5 DEF FinalLen
  <2> HIDE DEF file, head, j
  <2> QED BY <1>1, <1>2, <1>6, <1>7, <2>1, SMT
<1> HIDE DEF v, file, head, j
<1>9. Keeps(l, v)
  <2>1. Len(block) \in Nat
    BY SMT
  <2> QED BY <1>1, <1>4, <1>6, <1>7, <1>8, <2>1, SMT DEF Keeps
<1> QED BY <1>9 DEF v
-----------------------------------------------------------------------------
\* A step that gives one replica a well-formed log with a buffer within its limit
\* leaves all logs so.
LEMMA OneLog ==
    ASSUME LogsFit, NEW n \in Nodes, NEW l, WellFormed(l), l.bufLen <= UnfinalizedBufferCap,
           log' = [log EXCEPT ![n] = l]
    PROVE  LogsFit'
<1>1. l \in LogType
  BY DEF WellFormed
<1>2. log' \in [Nodes -> LogType]
  BY <1>1 DEF LogsFit
<1>3. ASSUME NEW o \in Nodes
      PROVE  WellFormed(log'[o]) /\ log'[o].bufLen <= UnfinalizedBufferCap
  <2>1. CASE o = n
    BY <2>1 DEF LogsFit
  <2>2. CASE o # n
    BY <2>2 DEF LogsFit
  <2> QED BY <2>1, <2>2
<1> QED BY <1>2, <1>3 DEF LogsFit

LEMMA BlocksInit == Init => BlocksInv
<1> SUFFICES ASSUME Init PROVE BlocksInv
  OBVIOUS
<1>1. EmptyLog \in LogType
  BY SMT DEF EmptyLog, LogType
<1>2. Fits(EmptyLog, 0, 0)
  BY Limits, SMT DEF EmptyLog, Fits
<1>3. WellFormed(EmptyLog)
  <2>1. 0 \in Nat
    BY SMT
  <2> QED BY <1>1, <1>2, <2>1 DEF WellFormed
<1>4. EmptyLog.bufLen <= UnfinalizedBufferCap
  BY Limits, SMT DEF EmptyLog
<1>5. LogsFit
  BY <1>1, <1>3, <1>4 DEF Init, LogsFit
<1>6. MessagesFit
  BY DEF Init, MessagesFit
<1> QED BY <1>5, <1>6 DEF BlocksInv

LEMMA SendStep ==
    ASSUME BlocksInv, NEW n \in Nodes, NEW msg \in Msg, SendMessage(n, msg)
    PROVE  BlocksInv'
<1> DEFINE l == Appended(log[n], msg)
           block == ProposedBlock(l)
<1>1. WellFormed(l) /\ l.bufLen <= UnfinalizedBufferCap
  BY AppendedFits DEF BlocksInv, LogsFit
<1>2. LogsFit'
  <2>1. log' = [log EXCEPT ![n] = l]
    BY DEF SendMessage
  <2> HIDE DEF l
  <2> QED BY <1>1, <2>1, OneLog DEF BlocksInv
<1>3. MessagesFit'
  <2>1. CASE net' = net
    BY <2>1 DEF MessagesFit, BlocksInv
  <2>2. CASE /\ net' = net \cup {BlockMsg(n, o, l.number, block, l.latest) : o \in Others(n)}
             /\ Finalizer(l.latest, l.bufLen) = n
    <3>1. block \in Seq(Msg) /\ ReceivedLen(block) \div BlockSize = l.bufLen \div BlockSize
      BY <1>1, ProposerFound
    <3>2. l.number \in Nat
      BY <1>1 DEF WellFormed, LogType
    <3>3. Finalizer(l.latest, ReceivedLen(block)) = n
      <4> HIDE DEF l, block
      <4> QED BY <2>2, <3>1 DEF Finalizer
    <3> HIDE DEF l, block
    <3>4. ASSUME NEW o \in Others(n), NEW m, m = BlockMsg(n, o, l.number, block, l.latest)
          PROVE  /\ m.to \in Nodes /\ m.block \in Seq(Msg) /\ m.number \in Nat
                 /\ m.type = "block" => Finalizer(m.base, ReceivedLen(m.block)) = m.from
      BY <3>1, <3>2, <3>3, <3>4 DEF BlockMsg, Others
    <3> QED BY <2>2, <3>4 DEF MessagesFit, BlocksInv
  <2> QED BY <2>1, <2>2 DEF SendMessage
<1> QED BY <1>2, <1>3 DEF BlocksInv

\* Accepting a block, or panicking over it, leaves the logs well-formed.
LEMMA AcceptStep ==
    ASSUME LogsFit, NEW n \in Nodes, NEW h \in Seq(Msg), NEW number \in Nat, NEW e,
           Accept(n, h, number, e)
    PROVE  LogsFit'
<1> DEFINE l == log[n]
<1>1. WellFormed(l) /\ l.bufLen <= UnfinalizedBufferCap /\ l.bufLen \in Nat
  BY DEF LogsFit, LogType
<1>2. CASE log' = log
  BY <1>2 DEF LogsFit
<1>3. CASE ~Panics(n, h, e) /\ log' = [log EXCEPT ![n] = IF e.proposal = "local"
                                                        THEN AcceptedLocal(@, h, number)
                                                        ELSE AcceptedRemote(@, h, number)]
  <2> DEFINE v == IF e.proposal = "local" THEN AcceptedLocal(l, h, number)
                                          ELSE AcceptedRemote(l, h, number)
  <2>1. WellFormed(v) /\ v.bufLen <= l.bufLen
    <3>1. CASE e.proposal = "local"
      <4>1. ~(Bytes(h) > l.bufLen)
        BY <1>3, <3>1 DEF Panics
      <4>2. Bytes(h) \in Nat
        BY Limits, SMT DEF Bytes
      <4>3. Bytes(h) <= l.bufLen
        <5> HIDE DEF l
        <5> QED BY <1>1, <4>1, <4>2, SMT
      <4>4. v = AcceptedLocal(l, h, number)
        BY <3>1
      <4> HIDE DEF l, v
      <4> QED BY <1>1, <4>3, <4>4, AcceptedLocalFits
    <3>2. CASE e.proposal # "local"
      <4>1. v = AcceptedRemote(l, h, number)
        BY <3>2
      <4> HIDE DEF l, v
      <4> QED BY <1>1, <4>1, AcceptedRemoteFits
    <3> QED BY <3>1, <3>2
  <2>2. v.bufLen <= UnfinalizedBufferCap
    <3>1. v.bufLen \in Nat
      BY <2>1 DEF WellFormed, LogType
    <3> HIDE DEF l, v
    <3> QED BY <1>1, <2>1, <3>1, Limits, SMT
  <2>3. log' = [log EXCEPT ![n] = v]
    BY <1>3
  <2> HIDE DEF v
  <2> QED BY <2>1, <2>2, <2>3, OneLog
<1> QED BY <1>2, <1>3 DEF Accept

LEMMA ProposalStep ==
    ASSUME BlocksInv, NEW m \in net, Proposal(m)
    PROVE  BlocksInv'
<1>1. m.to \in Nodes /\ m.block \in Seq(Msg) /\ m.number \in Nat
  BY DEF BlocksInv, MessagesFit
<1>2. LogsFit'
  <2>1. \/ log' = log
        \/ \E e : Accept(m.to, m.block, m.number, e)
    BY DEF Proposal
  <2>2. CASE log' = log
    BY <2>2 DEF BlocksInv, LogsFit
  <2>3. CASE \E e : Accept(m.to, m.block, m.number, e)
    BY <1>1, <2>3, AcceptStep DEF BlocksInv
  <2> QED BY <2>1, <2>2, <2>3
<1>3. MessagesFit'
  <2>1. \E ok : net' \subseteq net \cup {VoteMsg(m.to, o, m.number, m.block, ok) : o \in Others(m.to)}
    BY DEF Proposal
  <2>2. PICK ok : net' \subseteq net \cup {VoteMsg(m.to, o, m.number, m.block, ok) : o \in Others(m.to)}
    BY <2>1
  <2>3. ASSUME NEW o \in Others(m.to), NEW v, v = VoteMsg(m.to, o, m.number, m.block, ok)
        PROVE  v.to \in Nodes /\ v.block \in Seq(Msg) /\ v.number \in Nat /\ v.type # "block"
    BY <1>1, <2>3 DEF VoteMsg, Others
  <2> QED BY <2>2, <2>3 DEF MessagesFit, BlocksInv
<1> QED BY <1>2, <1>3 DEF BlocksInv

LEMMA VoteStep ==
    ASSUME BlocksInv, NEW m \in net, Vote(m)
    PROVE  BlocksInv'
<1>1. m.to \in Nodes /\ m.block \in Seq(Msg) /\ m.number \in Nat
  BY DEF BlocksInv, MessagesFit
<1>2. LogsFit'
  <2>1. \/ log' = log
        \/ \E e : Accept(m.to, m.block, m.number, e)
    BY DEF Vote
  <2>2. CASE log' = log
    BY <2>2 DEF BlocksInv, LogsFit
  <2>3. CASE \E e : Accept(m.to, m.block, m.number, e)
    BY <1>1, <2>3, AcceptStep DEF BlocksInv
  <2> QED BY <2>1, <2>2, <2>3
<1>3. MessagesFit'
  BY DEF Vote, MessagesFit, BlocksInv
<1> QED BY <1>2, <1>3 DEF BlocksInv

LEMMA RestartStep ==
    ASSUME BlocksInv, NEW n \in Nodes, Restart(n)
    PROVE  BlocksInv'
<1> DEFINE l == [log[n] EXCEPT !.discarded = 0]
<1>1. log[n] \in LogType /\ log[n].bufLen <= UnfinalizedBufferCap
  BY DEF BlocksInv, LogsFit
<1>2. /\ l \in LogType /\ l.file = log[n].file /\ l.bufLen = log[n].bufLen
      /\ l.checkpoint = log[n].checkpoint
  BY <1>1 DEF LogType
<1>3. log' = [log EXCEPT ![n] = l]
  BY DEF Restart
<1>4. WellFormed(l)
  <2>1. PICK k \in Nat, c \in Nat : Fits(log[n], k, c)
    BY DEF BlocksInv, LogsFit, WellFormed
  <2> HIDE DEF l
  <2>2. Fits(l, k, c)
    BY <1>2, <2>1 DEF Fits
  <2> QED BY <1>2, <2>2 DEF WellFormed
<1>5. LogsFit'
  <2> HIDE DEF l
  <2> QED BY <1>1, <1>2, <1>3, <1>4, OneLog DEF BlocksInv
<1>6. MessagesFit'
  BY DEF Restart, MessagesFit, BlocksInv
<1> QED BY <1>5, <1>6 DEF BlocksInv

\* The inductive invariant holds throughout.
THEOREM BlocksInvariant == Spec => []BlocksInv
<1>1. BlocksInv /\ [Next]_vars => BlocksInv'
  <2> SUFFICES ASSUME BlocksInv, [Next]_vars PROVE BlocksInv'
    OBVIOUS
  <2>1. CASE \E n \in Nodes, msg \in Msg : SendMessage(n, msg)
    BY <2>1, SendStep
  <2>2. CASE \E m \in net : Proposal(m)
    BY <2>2, ProposalStep
  <2>3. CASE \E m \in net : Vote(m)
    BY <2>3, VoteStep
  <2>4. CASE \E n \in Nodes, msg \in Msg : SendToPoisoned(n, msg)
    BY <2>4 DEF SendToPoisoned, BlocksInv, LogsFit, MessagesFit
  <2>5. CASE \E n \in Nodes : Restart(n)
    BY <2>5, RestartStep
  <2>6. CASE UNCHANGED vars
    BY <2>6 DEF vars, BlocksInv, LogsFit, MessagesFit
  <2> QED BY <2>1, <2>2, <2>3, <2>4, <2>5, <2>6 DEF Next
<1> QED BY BlocksInit, <1>1, PTL DEF Spec

\* No replica ever buffers more than UNFINALIZED_BUFFER_CAP bytes: send_message
\* discards before it stores the header, and accept_block never lengthens a buffer.
THEOREM BuffersAreBounded == Spec => []BufferBounded
<1>1. BlocksInv => BufferBounded
  BY DEF BlocksInv, LogsFit, BufferBounded
<1> QED BY <1>1, BlocksInvariant, PTL

\* What lies before the checkpoint, and so what send_message takes off the front of the
\* file, is final: whatever blocks, discards and restarts do to a log, its checkpoint stays
\* before the start of its buffer.
THEOREM CheckpointsAreFinal == Spec => []CheckpointIsFinal
<1>1. BlocksInv => CheckpointIsFinal
  <2> SUFFICES ASSUME BlocksInv, NEW n \in Nodes
               PROVE  log[n].checkpoint <= Bytes(Finalized(log[n]))
    BY DEF CheckpointIsFinal
  <2> DEFINE l == log[n]
  <2>1. PICK k \in Nat, c \in Nat : Fits(l, k, c)
    BY DEF BlocksInv, LogsFit, WellFormed
  <2>2. l \in LogType /\ Len(Finalized(l)) = Len(l.file) - k /\ Len(l.file) \in Nat
    <3>1. l \in LogType
      BY DEF BlocksInv, LogsFit
    <3>2. Len(l.file) \in Nat
      BY <3>1 DEF LogType
    <3> HIDE DEF l
    <3> QED BY <2>1, <3>1, <3>2, Parts
  <2>3. c <= Len(l.file) - k /\ c \in Int /\ Len(l.file) - k \in Int
    <3> HIDE DEF l
    <3> QED BY <2>1, <2>2, SMT DEF Fits
  <2>4. MsgLen * c <= MsgLen * (Len(l.file) - k)
    <3> HIDE DEF l
    <3> QED BY <2>3, Limits, Mul
  <2> HIDE DEF l
  <2>5. l.checkpoint <= Bytes(Finalized(l))
    BY <2>1, <2>2, <2>4 DEF Fits, Bytes
  <2> QED BY <2>5 DEF l
<1> QED BY <1>1, BlocksInvariant, PTL

\* Whatever the order of the group and the lengths of messages and blocks, a replica
\* with the proposer's latest block finds the proposer by the block it received.
THEOREM ProposersAreRecognised == Spec => []ProposerRecognised
<1>1. BlocksInv => ProposerRecognised
  BY DEF BlocksInv, MessagesFit, ProposerRecognised
<1> QED BY <1>1, BlocksInvariant, PTL

\* What the final part of one log becomes in an accepting step.
LEMMA AcceptKeeps ==
    ASSUME LogsFit, NEW n \in Nodes, NEW h \in Seq(Msg), NEW number \in Nat, NEW e,
           Accept(n, h, number, e)
    PROVE  \A o \in Nodes : log'[o] = log[o] \/ Keeps(log[o], log'[o])
<1> DEFINE l == log[n]
<1>1. WellFormed(l) /\ l.bufLen \in Nat /\ log \in [Nodes -> LogType]
  BY DEF LogsFit, LogType
<1>2. CASE log' = log
  BY <1>2
<1>3. CASE ~Panics(n, h, e) /\ log' = [log EXCEPT ![n] = IF e.proposal = "local"
                                                        THEN AcceptedLocal(@, h, number)
                                                        ELSE AcceptedRemote(@, h, number)]
  <2>1. CASE e.proposal = "local"
    <3>1. ~(Bytes(h) > l.bufLen)
      BY <1>3, <2>1 DEF Panics
    <3>2. Bytes(h) \in Nat
      BY Limits, SMT DEF Bytes
    <3>3. Bytes(h) <= l.bufLen
      <4> HIDE DEF l
      <4> QED BY <1>1, <3>1, <3>2, SMT
    <3>4. Keeps(l, AcceptedLocal(l, h, number))
      <4> HIDE DEF l
      <4> QED BY <1>1, <3>3, AcceptedLocalKeeps
    <3> QED BY <1>1, <1>3, <2>1, <3>4
  <2>2. CASE e.proposal # "local"
    <3>1. Keeps(l, AcceptedRemote(l, h, number))
      <4> HIDE DEF l
      <4> QED BY <1>1, AcceptedRemoteKeeps
    <3> QED BY <1>1, <1>3, <2>2, <3>1
  <2> QED BY <2>1, <2>2
<1> QED BY <1>2, <1>3 DEF Accept

LEMMA StepKeeps ==
    ASSUME BlocksInv, [Next]_vars, NEW o \in Nodes, log'[o].discarded <= log[o].discarded
    PROVE  Keeps(log[o], log'[o])
<1>1. WellFormed(log[o]) /\ log[o].bufLen <= UnfinalizedBufferCap /\ log \in [Nodes -> LogType]
  BY DEF BlocksInv, LogsFit
<1>2. Keeps(log[o], log[o])
  <2>1. FinalLen(log[o]) <= FinalLen(log[o])
    BY <1>1, FinalTypes, SMT
  <2> QED BY <2>1 DEF Keeps
<1>3. ASSUME NEW n \in Nodes, NEW msg \in Msg, SendMessage(n, msg)
      PROVE  Keeps(log[o], log'[o])
  <2>1. CASE o = n
    <3>1. log'[o] = Appended(log[o], msg)
      BY <1>1, <1>3, <2>1 DEF SendMessage
    <3> QED BY <1>1, <3>1, AppendedKeeps
  <2>2. CASE o # n
    BY <1>1, <1>2, <1>3, <2>2 DEF SendMessage
  <2> QED BY <2>1, <2>2
<1>4. ASSUME NEW m \in net, Proposal(m) \/ Vote(m)
      PROVE  Keeps(log[o], log'[o])
  <2>1. m.to \in Nodes /\ m.block \in Seq(Msg) /\ m.number \in Nat
    BY DEF BlocksInv, MessagesFit
  <2>2. \/ log' = log
        \/ \E e : Accept(m.to, m.block, m.number, e)
    BY <1>4 DEF Proposal, Vote
  <2>3. CASE log' = log
    BY <1>2, <2>3
  <2>4. CASE \E e : Accept(m.to, m.block, m.number, e)
    BY <1>2, <2>1, <2>4, AcceptKeeps DEF BlocksInv
  <2> QED BY <2>2, <2>3, <2>4
<1>5. ASSUME NEW n \in Nodes, Restart(n)
      PROVE  Keeps(log[o], log'[o])
  <2>1. log' = [log EXCEPT ![n] = [log[n] EXCEPT !.discarded = 0]]
    BY <1>5 DEF Restart
  <2>2. log'[o].file = log[o].file /\ log'[o].bufLen = log[o].bufLen
    BY <1>1, <2>1 DEF LogType
  <2> QED BY <1>2, <2>2 DEF Keeps, FinalLen
<1>6. CASE log' = log
  BY <1>2, <1>6
<1> QED BY <1>3, <1>4, <1>5, <1>6 DEF Next, vars, SendToPoisoned

\* No step takes back or moves what a block has finalized: not the block of another
\* replica that pushes the buffer back, not the discarding of an overfull buffer, not a
\* restart; only compaction does, and only in the step in which it cuts the file.
THEOREM FinalStays == Spec => FinalStable
<1>1. BlocksInv /\ BlocksInv' /\ [Next]_vars =>
        [\A n \in Nodes : log'[n].discarded <= log[n].discarded =>
           IsPrefix(Finalized(log[n]), Finalized(log'[n]))]_vars
  <2> SUFFICES ASSUME BlocksInv, BlocksInv', [Next]_vars, NEW n \in Nodes,
                      log'[n].discarded <= log[n].discarded
               PROVE  IsPrefix(Finalized(log[n]), Finalized(log'[n]))
    OBVIOUS
  <2>1. Keeps(log[n], log'[n])
    BY StepKeeps
  <2>2. WellFormed(log[n]) /\ WellFormed(log'[n])
    BY DEF BlocksInv, LogsFit
  <2> QED BY <2>1, <2>2, KeepsPrefix
<1> QED BY <1>1, BlocksInvariant, PTL DEF Spec, FinalStable
-----------------------------------------------------------------------------
\* The messages of c are some of b, in the same order.
Thins(b, c) ==
    \E e \in [1 .. Len(c) -> 1 .. Len(b)] :
        /\ \A i \in 1 .. Len(c) : c[i] = b[e[i]]
        /\ \A i, j \in 1 .. Len(c) : i < j => e[i] < e[j]

\* The messages of a buffer were taken, and those of a sender stand in their order.
InOrder(b, last) ==
    /\ \A i \in 1 .. Len(b) : b[i][2] <= last[b[i][1]]
    /\ \A i, j \in 1 .. Len(b) : i < j /\ b[i][1] = b[j][1] => b[i][2] < b[j][2]

LEMMA ThinsInOrder ==
    ASSUME NEW b, NEW c, Thins(b, c), NEW last, InOrder(b, last)
    PROVE  InOrder(c, last)
<1>1. PICK e \in [1 .. Len(c) -> 1 .. Len(b)] :
          /\ \A i \in 1 .. Len(c) : c[i] = b[e[i]]
          /\ \A i, j \in 1 .. Len(c) : i < j => e[i] < e[j]
  BY DEF Thins
<1>2. \A i \in 1 .. Len(c) : e[i] \in 1 .. Len(b) /\ c[i] = b[e[i]]
  BY <1>1
<1>3. ASSUME NEW i \in 1 .. Len(c)
      PROVE  c[i][2] <= last[c[i][1]]
  BY <1>2 DEF InOrder
<1>4. ASSUME NEW i \in 1 .. Len(c), NEW j \in 1 .. Len(c), i < j, c[i][1] = c[j][1]
      PROVE  c[i][2] < c[j][2]
  <2>1. e[i] < e[j] /\ b[e[i]][1] = b[e[j]][1]
    BY <1>1, <1>2, <1>4
  <2> QED BY <1>2, <2>1 DEF InOrder
<1> QED BY <1>3, <1>4 DEF InOrder

\* The last j of the last k of n places.
LEMMA LastPlaces ==
    ASSUME NEW n \in Nat, NEW k \in Nat, NEW j \in Nat, j <= k, k <= n, NEW i \in 1 .. j
    PROVE  k - j + i \in 1 .. k /\ n - k + (k - j + i) = n - j + i
BY SMT

\* What a buffer holds, by its place in the file.
LEMMA BufferParts ==
    ASSUME NEW l \in LogType, NEW k, NEW c, Fits(l, k, c)
    PROVE  /\ Buffer(l) \in Seq(Msg) /\ Len(Buffer(l)) = k /\ k \in Nat /\ k <= Len(l.file)
           /\ l.file \in Seq(Msg) /\ Len(l.file) \in Nat
           /\ \A i \in 1 .. k : Buffer(l)[i] = l.file[Len(l.file) - k + i]
<1>1. l.file \in Seq(Msg) /\ Len(l.file) \in Nat /\ k \in Nat /\ k <= Len(l.file)
  BY SMT DEF LogType, Fits
<1>2. /\ Buffer(l) = SubSeq(l.file, Len(l.file) - k + 1, Len(l.file))
      /\ Buffer(l) \in Seq(Msg) /\ Len(Buffer(l)) = k
  BY Parts DEF Buffer
<1> QED BY <1>1, <1>2, SMT

\* The end of a buffer thins it.
LEMMA EndThins ==
    ASSUME NEW l \in LogType, NEW k, NEW c, Fits(l, k, c),
           NEW v \in LogType, NEW j, NEW d, Fits(v, j, d), j <= k,
           \A i \in 1 .. j : v.file[Len(v.file) - j + i] = l.file[Len(l.file) - j + i]
    PROVE  Thins(Buffer(l), Buffer(v))
<1> DEFINE b == Buffer(l)
           r == Buffer(v)
           e == [i \in 1 .. j |-> k - j + i]
<1>1. /\ Len(b) = k /\ k \in Nat /\ k <= Len(l.file) /\ Len(l.file) \in Nat
      /\ \A i \in 1 .. k : b[i] = l.file[Len(l.file) - k + i]
  BY BufferParts
<1>2. /\ Len(r) = j /\ j \in Nat
      /\ \A i \in 1 .. j : r[i] = v.file[Len(v.file) - j + i]
  BY BufferParts
<1> HIDE DEF b, r
<1>3. \A i \in 1 .. j : /\ k - j + i \in 1 .. k
                        /\ Len(l.file) - k + (k - j + i) = Len(l.file) - j + i
  BY <1>1, <1>2, LastPlaces
<1>4. e \in [1 .. Len(r) -> 1 .. Len(b)]
  BY <1>1, <1>2, <1>3
<1>5. \A i \in 1 .. Len(r) : r[i] = b[e[i]]
  <2> SUFFICES ASSUME NEW i \in 1 .. j PROVE r[i] = b[e[i]]
    BY <1>2
  <2>1. b[k - j + i] = l.file[Len(l.file) - k + (k - j + i)]
    BY <1>1, <1>3
  <2> QED BY <1>2, <1>3, <2>1
<1>6. \A i, m \in 1 .. Len(r) : i < m => e[i] < e[m]
  BY <1>1, <1>2, SMT
<1>7. Thins(b, r)
  <2> HIDE DEF e
  <2> QED BY <1>4, <1>5, <1>6 DEF Thins
<1> QED BY <1>7 DEF b, r

\* send_message appends to the buffer, ...
LEMMA WrittenInOrder ==
    ASSUME NEW l, WellFormed(l), NEW msg \in Msg, NEW last \in [Sender -> Nat],
           InOrder(Buffer(l), last), last[msg[1]] < msg[2]
    PROVE  InOrder(Buffer(Written(l, msg)), [last EXCEPT ![msg[1]] = msg[2]])
<1> DEFINE w == Written(l, msg)
           b == Buffer(l)
           r == Buffer(w)
           new == [last EXCEPT ![msg[1]] = msg[2]]
<1>0. PICK k \in Nat, c \in Nat : Fits(l, k, c)
  BY DEF WellFormed
<1>1. l \in LogType /\ w \in LogType /\ Fits(w, k + 1, c)
  BY <1>0, WrittenFits DEF WellFormed
<1>2. /\ b \in Seq(Msg) /\ Len(b) = k /\ k \in Nat /\ k <= Len(l.file)
      /\ l.file \in Seq(Msg) /\ Len(l.file) \in Nat
      /\ \A i \in 1 .. k : b[i] = l.file[Len(l.file) - k + i]
  BY <1>0, <1>1, BufferParts
<1>3. /\ Len(r) = k + 1
      /\ \A i \in 1 .. k + 1 : r[i] = w.file[Len(w.file) - (k + 1) + i]
  <2> HIDE DEF w
  <2> QED BY <1>1, BufferParts
<1>4. w.file = Append(l.file, msg)
  BY <1>1 DEF Written, LogType
<1>5. /\ Len(w.file) = Len(l.file) + 1 /\ w.file[Len(l.file) + 1] = msg
      /\ \A i \in 1 .. Len(l.file) : w.file[i] = l.file[i]
  <2> HIDE DEF w
  <2> QED BY <1>2, <1>4, SMT
<1> HIDE DEF w, r, b
<1>6. r[k + 1] = msg
  <2>1. k + 1 \in 1 .. k + 1 /\ Len(w.file) - (k + 1) + (k + 1) = Len(l.file) + 1
    <3>1. \A m, n \in Nat : \A x : x = m + 1 => x - (n + 1) + (n + 1) = m + 1
      BY SMT
    <3>2. k + 1 \in 1 .. k + 1
      BY <1>2, SMT
    <3> QED BY <1>2, <1>5, <3>1, <3>2
  <2> QED BY <1>3, <1>5, <2>1
<1>7. \A i \in 1 .. k : r[i] = b[i]
  <2> TAKE i \in 1 .. k
  <2>1. /\ i \in 1 .. k + 1 /\ Len(l.file) - k + i \in 1 .. Len(l.file)
        /\ Len(w.file) - (k + 1) + i = Len(l.file) - k + i
    BY <1>2, <1>5, SMT
  <2> QED BY <1>2, <1>3, <1>5, <2>1
<1>8. /\ msg[1] \in Sender /\ msg[2] \in Nat
      /\ \A i \in 1 .. k : b[i][1] \in Sender /\ b[i][2] \in Nat
  <2>1. \A m \in Msg : m[1] \in Sender /\ m[2] \in Nat
    BY MsgAssumption
  <2>2. \A i \in 1 .. k : b[i] \in Msg
    BY <1>2
  <2> QED BY <2>1, <2>2
<1>9. new[msg[1]] = msg[2] /\ \A s \in Sender : last[s] <= new[s] /\ new[s] \in Nat /\ last[s] \in Nat
  BY <1>8, SMT
<1> HIDE DEF new
<1>10. \A i \in 1 .. k + 1 : r[i][2] <= new[r[i][1]]
  <2> TAKE i \in 1 .. k + 1
  <2>1. CASE i = k + 1
    BY <1>6, <1>8, <1>9, <2>1, SMT
  <2>2. CASE i # k + 1
    <3>1. i \in 1 .. k /\ r[i] = b[i] /\ b[i][2] <= last[b[i][1]]
      BY <1>2, <1>7, <2>2 DEF InOrder, b
    <3> QED BY <1>8, <1>9, <3>1, SMT
  <2> QED BY <2>1, <2>2
<1>11. ASSUME NEW i \in 1 .. k + 1, NEW j \in 1 .. k + 1, i < j, r[i][1] = r[j][1]
       PROVE  r[i][2] < r[j][2]
  <2>1. i \in 1 .. k /\ r[i] = b[i]
    BY <1>2, <1>7, <1>11
  <2>2. CASE j = k + 1
    <3>1. b[i][2] <= last[b[i][1]] /\ b[i][1] = msg[1]
      BY <1>2, <1>6, <1>11, <2>1, <2>2 DEF InOrder, b
    <3> QED BY <1>6, <1>8, <1>9, <2>1, <2>2, <3>1, SMT
  <2>3. CASE j # k + 1
    <3>1. j \in 1 .. k /\ r[j] = b[j]
      BY <1>2, <1>7, <2>3
    <3> QED BY <1>2, <1>11, <2>1, <3>1 DEF InOrder, b
  <2> QED BY <2>2, <2>3
<1> QED BY <1>3, <1>10, <1>11 DEF InOrder, r, w, new

\* ... an overfull buffer keeps its end, ...
LEMMA TrimmedThins ==
    ASSUME NEW w, WellFormed(w), WellFormed(Trimmed(w))
    PROVE  Thins(Buffer(w), Buffer(Trimmed(w)))
<1>0. PICK k \in Nat, c \in Nat : Fits(w, k, c)
  BY DEF WellFormed
<1> DEFINE v == Trimmed(w)
<1>1. PICK j \in Nat, d \in Nat : Fits(v, j, d)
  BY DEF WellFormed
<1>2. w \in LogType /\ v \in LogType
  BY DEF WellFormed
<1>3. CASE w.bufLen > UnfinalizedBufferCap
  <2> DEFINE extra == w.bufLen - BlockSize + MsgLen - 1
             kept == extra \div MsgLen
             buf == Buffer(w)
             front == Finalized(w)
             tail == SubSeq(buf, Len(buf) - kept + 1, Len(buf))
             file == front \o tail
             x == kept * MsgLen
  <2>1. v = [w EXCEPT !.file = file, !.bufLen = x]
    BY <1>3 DEF Trimmed
  <2>2. v.file = file /\ v.bufLen = kept * MsgLen
    <3>1. v.file = file /\ v.bufLen = x
      <4> HIDE DEF file, x
      <4> QED BY <1>2, <2>1 DEF LogType
    <3> QED BY <3>1
  <2>3. /\ buf \in Seq(Msg) /\ Len(buf) = k /\ k <= Len(w.file) /\ Len(w.file) \in Nat
        /\ \A i \in 1 .. k : buf[i] = w.file[Len(w.file) - k + i]
    BY <1>0, <1>2, BufferParts
  <2>4. extra \in Nat /\ extra < MsgLen * k /\ MsgLen * k \in Nat
    BY <1>0, <1>3, Limits, SMT DEF Fits
  <2>5. kept \in Nat /\ MsgLen * kept <= extra
    <3> HIDE DEF extra
    <3> QED BY <2>4, Limits, DivFacts
  <2>6. kept = j
    <3>1. MsgLen * kept = MsgLen * j
      <4>1. MsgLen * kept = kept * MsgLen
        <5> HIDE DEF kept
        <5> QED BY <2>5, Limits, SMT
      <4> HIDE DEF kept, v
      <4> QED BY <1>1, <2>2, <4>1 DEF Fits
    <3>2. kept \in Int /\ j \in Int /\ MsgLen * kept \in Int
      <4> HIDE DEF kept
      <4> QED BY <2>5, Limits, SMT
    <3>3. kept <= j /\ j <= kept
      <4>1. MsgLen * kept <= MsgLen * j /\ MsgLen * j <= MsgLen * kept
        <5> HIDE DEF kept
        <5> QED BY <3>1, <3>2, SMT
      <4> HIDE DEF kept
      <4> QED BY <3>2, <4>1, Limits, Mul
    <3> HIDE DEF kept
    <3> QED BY <3>2, <3>3, SMT
  <2>7. j <= k
    <3>1. MsgLen * j <= MsgLen * k
      <4>1. MsgLen * j <= extra
        BY <2>5, <2>6
      <4>2. MsgLen * j \in Nat
        BY Limits, SMT
      <4> HIDE DEF extra
      <4> QED BY <2>4, <4>1, <4>2, SMT
    <3>2. j \in Int /\ k \in Int
      OBVIOUS
    <3> QED BY <3>1, <3>2, Limits, Mul
  <2>8. tail = SubSeq(buf, k - j + 1, k)
    BY <2>3, <2>6
  <2>9. tail \in Seq(Msg) /\ Len(tail) = j /\ \A i \in 1 .. j : tail[i] = buf[k - j + i]
    <3> HIDE DEF tail, buf
    <3> QED BY <2>3, <2>7, <2>8, SMT
  <2>10. front \in Seq(Msg)
    BY FinalTypes
  <2>11. Len(file) = Len(front) + j /\ Len(front) \in Nat /\ \A i \in 1 .. j : file[Len(front) + i] = tail[i]
    <3>1. front \in Seq(Msg) /\ tail \in Seq(Msg)
      BY <2>9, <2>10
    <3> HIDE DEF front, tail
    <3>2. /\ Len(file) = Len(front) + Len(tail) /\ Len(front) \in Nat
          /\ \A i \in 1 .. Len(tail) : file[Len(front) + i] = tail[i]
      BY ONLY <3>1, ConcatFacts DEF file
    <3> HIDE DEF file
    <3> QED BY <2>9, <3>2
  <2>12. ASSUME NEW i \in 1 .. j
         PROVE  v.file[Len(v.file) - j + i] = w.file[Len(w.file) - j + i]
    <3>1. /\ k - j + i \in 1 .. k /\ Len(w.file) - k + (k - j + i) = Len(w.file) - j + i
      <4>1. Len(w.file) \in Nat /\ k <= Len(w.file)
        BY <2>3
      <4> DEFINE a == Len(w.file)
      <4> HIDE DEF a
      <4>2. k - j + i \in 1 .. k /\ a - k + (k - j + i) = a - j + i
        BY ONLY <2>7, <4>1, LastPlaces, k \in Nat, j \in Nat, i \in 1 .. j DEF a
      <4> QED BY <4>2 DEF a
    <3>2. Len(file) - j + i = Len(front) + i
      <4> HIDE DEF file, front
      <4> QED BY <2>11, SMT
    <3>3. file[Len(file) - j + i] = tail[i]
      <4> HIDE DEF file, front, tail
      <4> QED BY <2>11, <3>2
    <3>4. buf[k - j + i] = w.file[Len(w.file) - k + (k - j + i)]
      BY <2>3, <3>1
    <3> HIDE DEF file, tail, buf, v
    <3> QED BY <2>2, <2>9, <3>1, <3>3, <3>4
  <2> HIDE DEF v
  <2> QED BY <1>0, <1>1, <1>2, <2>7, <2>12, EndThins DEF v
<1>4. CASE ~(w.bufLen > UnfinalizedBufferCap)
  <2>1. v = w
    BY <1>4 DEF Trimmed
  <2>2. k <= k /\ \A i \in 1 .. k : w.file[Len(w.file) - k + i] = w.file[Len(w.file) - k + i]
    OBVIOUS
  <2>3. Thins(Buffer(w), Buffer(w))
    BY ONLY <1>0, <1>2, <2>2, EndThins
  <2> QED BY <2>1, <2>3
<1> QED BY <1>3, <1>4

\* ... a block of the replica itself takes its beginning, ...
LEMMA AcceptedLocalThins ==
    ASSUME NEW l, WellFormed(l), NEW block \in Seq(Msg), NEW number \in Nat, Bytes(block) <= l.bufLen
    PROVE  Thins(Buffer(l), Buffer(AcceptedLocal(l, block, number)))
<1> DEFINE v == AcceptedLocal(l, block, number)
<1>0. PICK k \in Nat, c \in Nat : Fits(l, k, c)
  BY DEF WellFormed
<1>1. WellFormed(v) /\ v.bufLen <= l.bufLen /\ v \in LogType /\ l \in LogType
  BY AcceptedLocalFits DEF WellFormed
<1>2. PICK j \in Nat, d \in Nat : Fits(v, j, d)
  BY <1>1 DEF WellFormed
<1>3. v.file = l.file
  BY <1>1 DEF AcceptedLocal, LogType
<1> HIDE DEF v
<1>4. j <= k
  <2>1. MsgLen * j <= MsgLen * k /\ j \in Int /\ k \in Int
    BY <1>0, <1>1, <1>2 DEF Fits
  <2> QED BY <2>1, Limits, Mul
<1>5. \A i \in 1 .. j : v.file[Len(v.file) - j + i] = l.file[Len(l.file) - j + i]
  BY <1>3
<1> QED BY <1>0, <1>1, <1>2, <1>4, <1>5, EndThins DEF v

\* ... and the block of another replica any of its messages.
LEMMA AcceptedRemoteThins ==
    ASSUME NEW l, WellFormed(l), NEW block \in Seq(Msg), NEW number \in Nat
    PROVE  Thins(Buffer(l), Buffer(AcceptedRemote(l, block, number)))
<1> DEFINE buf == Buffer(l)
           K == {i \in DOMAIN buf : buf[i] \notin Messages(block)}
           rest == At(buf, K)
           head == Finalized(l) \o block
           file == head \o rest
           b == Bytes(rest)
           v == AcceptedRemote(l, block, number)
           j == Len(rest)
<1>1. l \in LogType /\ buf \in Seq(Msg) /\ head \in Seq(Msg)
  <2>1. PICK k \in Nat, c \in Nat : Fits(l, k, c)
    BY DEF WellFormed
  <2>2. Finalized(l) \in Seq(Msg)
    BY FinalTypes
  <2>3. head \in Seq(Msg)
    BY <2>2, ConcatFacts
  <2> QED BY <2>1, <2>3, Parts DEF WellFormed
<1>2. rest \in Seq(Msg) /\ \E e : Embeds(e, rest, buf, Len(buf), K)
  <2> HIDE DEF buf, K
  <2> QED BY <1>1, AtEmbeds
<1>3. v = [l EXCEPT !.number = number, !.latest = block, !.file = file, !.bufLen = b]
  BY DEF AcceptedRemote
<1>4. v.file = file /\ v.bufLen = b
  <2> HIDE DEF b, v, file
  <2> QED BY <1>1, <1>3 DEF LogType
<1>5. WellFormed(v) /\ v \in LogType
  BY AcceptedRemoteFits DEF WellFormed
<1>6. PICK m \in Nat, d \in Nat : Fits(v, m, d)
  BY <1>5 DEF WellFormed
<1>7. m = j
  <2>1. MsgLen * m = MsgLen * j /\ j \in Nat
    <3>1. j \in Nat
      <4> HIDE DEF rest
      <4> QED BY <1>2
    <3> QED BY <1>4, <1>6, <3>1 DEF Fits, Bytes
  <2>2. MsgLen * m <= MsgLen * j /\ MsgLen * j <= MsgLen * m /\ m \in Int /\ j \in Int
    <3> HIDE DEF j
    <3> QED BY <2>1, Limits, SMT
  <2>3. m <= j /\ j <= m
    <3> HIDE DEF j
    <3> QED BY <2>2, Limits, Mul
  <2> HIDE DEF j
  <2> QED BY <2>1, <2>3, SMT
<1>8. Buffer(v) = rest
  <2>1. /\ Buffer(v) \in Seq(Msg) /\ Len(Buffer(v)) = j
        /\ \A i \in 1 .. j : Buffer(v)[i] = file[Len(file) - j + i]
    BY <1>4, <1>5, <1>6, <1>7, BufferParts
  <2>2. Len(file) = Len(head) + j /\ Len(head) \in Nat /\ j \in Nat
        /\ \A i \in 1 .. j : file[Len(head) + i] = rest[i]
    <3> HIDE DEF head, rest
    <3> QED BY <1>1, <1>2, ConcatFacts
  <2>3. \A i \in 1 .. j : Buffer(v)[i] = rest[i]
    <3> TAKE i \in 1 .. j
    <3>1. Len(file) - j + i = Len(head) + i
      <4> HIDE DEF file, head, j
      <4> QED BY <2>2, SMT
    <3> HIDE DEF file, head, v
    <3> QED BY <2>1, <2>2, <3>1
  <2> DEFINE r == Buffer(v)
  <2> HIDE DEF r, rest
  <2>4. r \in Seq(Msg) /\ Len(r) = Len(rest) /\ \A i \in 1 .. Len(rest) : r[i] = rest[i]
    BY <2>1, <2>3 DEF r
  <2>5. r = rest
    BY <1>2, <2>4
  <2> QED BY <2>5 DEF r
<1>9. Thins(buf, rest)
  <2>1. PICK e : Embeds(e, rest, buf, Len(buf), K)
    BY <1>2
  <2>2. e \in [1 .. Len(rest) -> 1 .. Len(buf)]
    BY <2>1 DEF Embeds
  <2> HIDE DEF rest, buf, K
  <2> QED BY <2>1, <2>2 DEF Thins, Embeds
<1> QED BY <1>8, <1>9
-----------------------------------------------------------------------------
\* No file is cut down to its history.
NoCut == \A n \in Nodes : log'[n].discarded <= log[n].discarded

SendOrder == /\ nonce \in [Nodes -> [Sender -> Nat]]
             /\ \A n \in Nodes : InOrder(Buffer(log[n]), nonce[n])

LEMMA AcceptInOrder ==
    ASSUME LogsFit, SendOrder, NEW n \in Nodes, NEW h \in Seq(Msg), NEW number \in Nat, NEW e,
           Accept(n, h, number, e), nonce' = nonce
    PROVE  SendOrder'
<1> DEFINE l == log[n]
<1>1. WellFormed(l) /\ l.bufLen \in Nat /\ log \in [Nodes -> LogType]
  BY DEF LogsFit, LogType
<1>2. CASE log' = log
  BY <1>2 DEF SendOrder
<1>3. CASE ~Panics(n, h, e) /\ log' = [log EXCEPT ![n] = IF e.proposal = "local"
                                                        THEN AcceptedLocal(@, h, number)
                                                        ELSE AcceptedRemote(@, h, number)]
  <2> DEFINE v == IF e.proposal = "local" THEN AcceptedLocal(l, h, number)
                                          ELSE AcceptedRemote(l, h, number)
  <2>1. Thins(Buffer(l), Buffer(v))
    <3>1. CASE e.proposal = "local"
      <4>1. ~(Bytes(h) > l.bufLen)
        BY <1>3, <3>1 DEF Panics
      <4>2. Bytes(h) \in Nat
        BY Limits, SMT DEF Bytes
      <4>3. Bytes(h) <= l.bufLen
        <5> HIDE DEF l
        <5> QED BY <1>1, <4>1, <4>2, SMT
      <4>4. v = AcceptedLocal(l, h, number)
        BY <3>1
      <4> HIDE DEF l, v
      <4> QED BY <1>1, <4>3, <4>4, AcceptedLocalThins
    <3>2. CASE e.proposal # "local"
      <4>1. v = AcceptedRemote(l, h, number)
        BY <3>2
      <4> HIDE DEF l, v
      <4> QED BY <1>1, <4>1, AcceptedRemoteThins
    <3> QED BY <3>1, <3>2
  <2>2. InOrder(Buffer(v), nonce[n])
    <3>1. InOrder(Buffer(l), nonce[n])
      BY DEF SendOrder
    <3> HIDE DEF v, l
    <3> QED BY <2>1, <3>1, ThinsInOrder
  <2>3. log' = [log EXCEPT ![n] = v]
    BY <1>3
  <2>4. \A o \in Nodes : log'[o] = IF o = n THEN v ELSE log[o]
    <3> HIDE DEF v
    <3> QED BY <1>1, <2>3
  <2> HIDE DEF v
  <2> QED BY <2>2, <2>4 DEF SendOrder
<1> QED BY <1>2, <1>3 DEF Accept

LEMMA SendInOrder ==
    ASSUME LogsFit, SendOrder, NoCut, NEW n \in Nodes, NEW msg \in Msg, SendMessage(n, msg)
    PROVE  SendOrder'
<1> DEFINE l == log[n]
           w == Written(l, msg)
           v == Appended(l, msg)
           last == [nonce[n] EXCEPT ![msg[1]] = msg[2]]
<1>1. WellFormed(l) /\ l.bufLen <= UnfinalizedBufferCap /\ log \in [Nodes -> LogType]
  BY DEF LogsFit
<1>2. log' = [log EXCEPT ![n] = v]
  BY DEF SendMessage
<1>3. \A o \in Nodes : log'[o] = IF o = n THEN v ELSE log[o]
  <2> HIDE DEF v
  <2> QED BY <1>1, <1>2
<1>4. nonce[n][msg[1]] < msg[2] /\ nonce' = [nonce EXCEPT ![n][msg[1]] = msg[2]]
  BY DEF SendMessage, TakesNonce
<1>5. msg[1] \in Sender /\ msg[2] \in Nat /\ nonce[n] \in [Sender -> Nat]
  BY MsgAssumption DEF SendOrder
<1>6. last \in [Sender -> Nat] /\ nonce' = [nonce EXCEPT ![n] = last]
  BY <1>4, <1>5 DEF SendOrder
<1>7. /\ nonce' \in [Nodes -> [Sender -> Nat]]
      /\ \A o \in Nodes : nonce'[o] = IF o = n THEN last ELSE nonce[o]
  <2> HIDE DEF last
  <2> QED BY <1>6 DEF SendOrder
<1>8. v.discarded <= l.discarded
  BY <1>3 DEF NoCut
<1>9. v = Trimmed(w) /\ WellFormed(v) /\ WellFormed(w)
  <2>1. v = Trimmed(w)
    <3> HIDE DEF l
    <3> QED BY <1>1, <1>8, NotCut
  <2>2. WellFormed(v) /\ WellFormed(w)
    <3> HIDE DEF l
    <3> QED BY <1>1, AppendedFits, WrittenKeeps
  <2> QED BY <2>1, <2>2
<1>10. InOrder(Buffer(w), last)
  <2>1. InOrder(Buffer(l), nonce[n])
    BY DEF SendOrder
  <2> HIDE DEF l
  <2> QED BY <1>1, <1>4, <1>5, <2>1, WrittenInOrder
<1>11. InOrder(Buffer(v), last)
  <2>1. Thins(Buffer(w), Buffer(v))
    <3> HIDE DEF w, v
    <3> QED BY <1>9, TrimmedThins
  <2> HIDE DEF w, v, last
  <2> QED BY <1>10, <2>1, ThinsInOrder
<1>12. ASSUME NEW o \in Nodes
       PROVE  InOrder(Buffer(log'[o]), nonce'[o])
  <2> HIDE DEF v, last
  <2>1. CASE o = n
    BY <1>3, <1>7, <1>11, <2>1
  <2>2. CASE o # n
    BY <1>3, <1>7, <2>2 DEF SendOrder
  <2> QED BY <2>1, <2>2
<1> QED BY <1>7, <1>12 DEF SendOrder

LEMMA StepInOrder ==
    ASSUME BlocksInv, SendOrder, [Next]_vars, [NoCut]_vars
    PROVE  SendOrder'
<1>1. CASE UNCHANGED vars
  BY <1>1 DEF vars, SendOrder
<1>2. ASSUME NoCut, NEW n \in Nodes, NEW msg \in Msg, SendMessage(n, msg)
      PROVE  SendOrder'
  BY <1>2, SendInOrder DEF BlocksInv
<1>3. ASSUME NEW m \in net, Proposal(m) \/ Vote(m)
      PROVE  SendOrder'
  <2>1. m.to \in Nodes /\ m.block \in Seq(Msg) /\ m.number \in Nat
    BY DEF BlocksInv, MessagesFit
  <2>2. /\ nonce' = nonce
        /\ \/ log' = log
           \/ \E e : Accept(m.to, m.block, m.number, e)
    BY <1>3 DEF Proposal, Vote
  <2>3. CASE log' = log
    BY <2>2, <2>3 DEF SendOrder
  <2>4. CASE \E e : Accept(m.to, m.block, m.number, e)
    BY <2>1, <2>2, <2>4, AcceptInOrder DEF BlocksInv
  <2> QED BY <2>2, <2>3, <2>4
<1>4. ASSUME NEW n \in Nodes, NEW msg \in Msg, SendToPoisoned(n, msg)
      PROVE  SendOrder'
  <2> DEFINE last == [nonce[n] EXCEPT ![msg[1]] = msg[2]]
  <2>1. /\ nonce[n][msg[1]] < msg[2] /\ nonce' = [nonce EXCEPT ![n][msg[1]] = msg[2]]
        /\ log' = log
    BY <1>4 DEF SendToPoisoned, TakesNonce
  <2>2. msg[1] \in Sender /\ msg[2] \in Nat /\ nonce[n] \in [Sender -> Nat]
    BY MsgAssumption DEF SendOrder
  <2>3. last \in [Sender -> Nat] /\ nonce' = [nonce EXCEPT ![n] = last]
    BY <2>1, <2>2 DEF SendOrder
  <2>4. /\ nonce' \in [Nodes -> [Sender -> Nat]]
        /\ \A o \in Nodes : nonce'[o] = IF o = n THEN last ELSE nonce[o]
    <3> HIDE DEF last
    <3> QED BY <2>3 DEF SendOrder
  <2>5. \A s \in Sender : nonce[n][s] <= last[s] /\ last[s] \in Nat /\ nonce[n][s] \in Nat
    BY <2>1, <2>2, SMT
  <2>6. InOrder(Buffer(log[n]), last)
    <3> DEFINE b == Buffer(log[n])
    <3>1. b \in Seq(Msg)
      <4>1. WellFormed(log[n])
        BY DEF BlocksInv, LogsFit
      <4>2. PICK k \in Nat, c \in Nat : Fits(log[n], k, c)
        BY <4>1 DEF WellFormed
      <4> QED BY <4>1, <4>2, Parts DEF WellFormed
    <3>2. \A i \in 1 .. Len(b) : b[i][1] \in Sender /\ b[i][2] \in Nat
      <4>1. \A m \in Msg : m[1] \in Sender /\ m[2] \in Nat
        BY MsgAssumption
      <4> HIDE DEF b
      <4> QED BY <3>1, <4>1
    <3>3. InOrder(b, nonce[n])
      BY DEF SendOrder
    <3> HIDE DEF b, last
    <3>4. \A i \in 1 .. Len(b) : b[i][2] <= last[b[i][1]]
      <4> TAKE i \in 1 .. Len(b)
      <4>1. b[i][2] <= nonce[n][b[i][1]] /\ b[i][1] \in Sender /\ b[i][2] \in Nat
        BY <3>2, <3>3 DEF InOrder
      <4>2. nonce[n][b[i][1]] <= last[b[i][1]] /\ last[b[i][1]] \in Nat /\ nonce[n][b[i][1]] \in Nat
        BY <2>5, <4>1
      <4> QED BY <4>1, <4>2, SMT
    <3>5. InOrder(b, last)
      BY <3>3, <3>4 DEF InOrder
    <3> QED BY <3>5 DEF b
  <2>7. ASSUME NEW o \in Nodes
        PROVE  InOrder(Buffer(log'[o]), nonce'[o])
    <3> HIDE DEF last
    <3>1. CASE o = n
      BY <2>1, <2>4, <2>6, <3>1
    <3>2. CASE o # n
      BY <2>1, <2>4, <3>2 DEF SendOrder
    <3> QED BY <3>1, <3>2
  <2> QED BY <2>4, <2>7 DEF SendOrder
<1>5. ASSUME NEW n \in Nodes, Restart(n)
      PROVE  SendOrder'
  <2>1. nonce' = nonce /\ log' = [log EXCEPT ![n] = [log[n] EXCEPT !.discarded = 0]]
    BY <1>5 DEF Restart
  <2>2. log \in [Nodes -> LogType]
    BY DEF BlocksInv, LogsFit
  <2>3. \A o \in Nodes : log'[o].file = log[o].file /\ log'[o].bufLen = log[o].bufLen
    BY <2>1, <2>2 DEF LogType
  <2>4. \A o \in Nodes : Buffer(log'[o]) = Buffer(log[o])
    BY <2>3 DEF Buffer
  <2> QED BY <2>1, <2>4 DEF SendOrder
<1> QED BY <1>1, <1>2, <1>3, <1>4, <1>5 DEF Next

LEMMA InitInOrder == Init => SendOrder
<1> SUFFICES ASSUME Init PROVE SendOrder
  OBVIOUS
<1>1. nonce \in [Nodes -> [Sender -> Nat]]
  BY SMT DEF Init
<1>2. ASSUME NEW n \in Nodes
      PROVE  InOrder(Buffer(log[n]), nonce[n])
  <2>1. log[n] = EmptyLog
    BY DEF Init
  <2>2. EmptyLog \in LogType /\ Fits(EmptyLog, 0, 0)
    BY Limits, SMT DEF EmptyLog, LogType, Fits
  <2>3. Len(Buffer(EmptyLog)) = 0
    BY <2>2, Parts
  <2> DEFINE b == Buffer(log[n])
  <2>4. Len(b) = 0
    BY <2>1, <2>3
  <2> HIDE DEF b
  <2>5. InOrder(b, nonce[n])
    BY <2>4, SMT DEF InOrder
  <2> QED BY <2>5 DEF b
<1> QED BY <1>1, <1>2 DEF SendOrder

\* Until a file is cut down to its history, no buffer reorders or repeats the messages of
\* a sender: not the block of another replica that takes messages out of its middle, not
\* a block that arrives twice, not the discarding of an overfull buffer.  (The step that
\* cuts the file puts one message too many into the buffer.)
THEOREM BuffersInSendOrder == Spec /\ [][NoCut]_vars => []BufferInSendOrder
<1>1. BlocksInv /\ SendOrder => BufferInSendOrder
  <2> SUFFICES ASSUME BlocksInv, SendOrder, NEW n \in Nodes,
                      NEW i \in DOMAIN Buffer(log[n]), NEW j \in DOMAIN Buffer(log[n]), i < j,
                      Buffer(log[n])[i][1] = Buffer(log[n])[j][1]
               PROVE  Buffer(log[n])[i][2] < Buffer(log[n])[j][2]
    BY DEF BufferInSendOrder
  <2> DEFINE b == Buffer(log[n])
  <2>1. b \in Seq(Msg)
    <3>1. WellFormed(log[n])
      BY DEF BlocksInv, LogsFit
    <3>2. PICK k \in Nat, c \in Nat : Fits(log[n], k, c)
      BY <3>1 DEF WellFormed
    <3> QED BY <3>1, <3>2, Parts DEF WellFormed
  <2>2. InOrder(b, nonce[n])
    BY DEF SendOrder
  <2>3. i \in DOMAIN b /\ j \in DOMAIN b /\ b[i][1] = b[j][1]
    OBVIOUS
  <2> HIDE DEF b
  <2>4. b[i][2] < b[j][2]
    BY <2>1, <2>2, <2>3 DEF InOrder
  <2> QED BY <2>4 DEF b
<1> QED BY <1>1, InitInOrder, StepInOrder, BlocksInvariant, PTL DEF Spec
-----------------------------------------------------------------------------
\* The two parts of a log.
LEMMA LogParts ==
    ASSUME NEW l, WellFormed(l)
    PROVE  /\ l \in LogType /\ l.file \in Seq(Msg) /\ Len(l.file) \in Nat
           /\ Finalized(l) \in Seq(Msg) /\ Buffer(l) \in Seq(Msg)
           /\ Len(Finalized(l)) \in Nat /\ Len(Buffer(l)) \in Nat
           /\ Len(l.file) = Len(Finalized(l)) + Len(Buffer(l))
           /\ \A i \in 1 .. Len(Finalized(l)) : l.file[i] = Finalized(l)[i]
           /\ \A i \in 1 .. Len(Buffer(l)) : l.file[Len(Finalized(l)) + i] = Buffer(l)[i]
           /\ l.bufLen = MsgLen * Len(Buffer(l)) /\ l.bufLen \in Nat
<1>0. PICK k \in Nat, c \in Nat : Fits(l, k, c)
  BY DEF WellFormed
<1>1. l \in LogType /\ l.bufLen \in Nat
  BY DEF WellFormed, LogType
<1>2. /\ Buffer(l) \in Seq(Msg) /\ Len(Buffer(l)) = k /\ k \in Nat /\ k <= Len(l.file)
      /\ l.file \in Seq(Msg) /\ Len(l.file) \in Nat
      /\ \A i \in 1 .. k : Buffer(l)[i] = l.file[Len(l.file) - k + i]
  BY <1>0, <1>1, BufferParts
<1>3. Finalized(l) \in Seq(Msg) /\ Len(Finalized(l)) = Len(l.file) - k
  BY <1>0, <1>1, Parts
<1>4. \A i \in 1 .. Len(Finalized(l)) : l.file[i] = Finalized(l)[i]
  BY <1>3, FinalTypes
<1>5. l.bufLen = MsgLen * k
  BY <1>0 DEF Fits
<1>6. Len(l.file) = Len(Finalized(l)) + Len(Buffer(l)) /\ Len(Finalized(l)) \in Nat
  BY <1>2, <1>3, SMT
<1>7. \A i \in 1 .. k : l.file[Len(Finalized(l)) + i] = Buffer(l)[i]
  BY <1>2, <1>3
<1> QED BY <1>1, <1>2, <1>3, <1>4, <1>5, <1>6, <1>7

\* The parts of a log are what its file and its length say.
LEMMA PartsOf ==
    ASSUME NEW v, WellFormed(v), NEW f \in Seq(Msg), NEW b \in Seq(Msg),
           v.file = f \o b, v.bufLen = MsgLen * Len(b)
    PROVE  Finalized(v) = f /\ Buffer(v) = b
<1> DEFINE F == Finalized(v)
           B == Buffer(v)
<1>1. /\ F \in Seq(Msg) /\ B \in Seq(Msg) /\ Len(F) \in Nat /\ Len(B) \in Nat
      /\ Len(v.file) = Len(F) + Len(B) /\ v.bufLen = MsgLen * Len(B)
      /\ \A i \in 1 .. Len(F) : v.file[i] = F[i]
      /\ \A i \in 1 .. Len(B) : v.file[Len(F) + i] = B[i]
  BY LogParts
<1>2. /\ Len(v.file) = Len(f) + Len(b) /\ Len(f) \in Nat /\ Len(b) \in Nat
      /\ \A i \in 1 .. Len(f) : v.file[i] = f[i]
      /\ \A i \in 1 .. Len(b) : v.file[Len(f) + i] = b[i]
  BY ConcatFacts
<1> HIDE DEF F, B
<1>3. Len(B) = Len(b)
  <2>1. MsgLen * Len(B) <= MsgLen * Len(b) /\ MsgLen * Len(b) <= MsgLen * Len(B)
    <3>1. MsgLen * Len(b) \in Nat
      BY <1>2, Limits, SMT
    <3> QED BY <1>1, <3>1, SMT
  <2> DEFINE x == Len(B)
             y == Len(b)
  <2>2. x \in Int /\ y \in Int /\ MsgLen * x <= MsgLen * y /\ MsgLen * y <= MsgLen * x
    BY <1>1, <1>2, <2>1
  <2> HIDE DEF x, y
  <2>3. x <= y /\ y <= x
    BY <2>2, Limits, Mul
  <2>4. x = y
    BY <2>2, <2>3, SMT
  <2> QED BY <2>4 DEF x, y
<1>4. Len(F) = Len(f)
  BY <1>1, <1>2, <1>3, SMT
<1>5. F = f
  BY <1>1, <1>2, <1>4
<1>6. B = b
  BY <1>1, <1>2, <1>3, <1>4
<1> QED BY <1>5, <1>6 DEF F, B

LEMMA ConcatAgain ==
    ASSUME NEW s \in Seq(Msg), NEW t \in Seq(Msg), NEW u \in Seq(Msg)
    PROVE  (s \o t) \o u = s \o (t \o u) /\ s \o t \in Seq(Msg) /\ t \o u \in Seq(Msg)
BY SMT

LEMMA FileIsParts ==
    ASSUME NEW l, WellFormed(l)
    PROVE  l.file = Finalized(l) \o Buffer(l)
<1> DEFINE F == Finalized(l)
           B == Buffer(l)
           u == F \o B
<1>1. /\ F \in Seq(Msg) /\ B \in Seq(Msg) /\ l.file \in Seq(Msg) /\ Len(F) \in Nat /\ Len(B) \in Nat
      /\ Len(l.file) = Len(F) + Len(B)
      /\ \A i \in 1 .. Len(F) : l.file[i] = F[i]
      /\ \A i \in 1 .. Len(B) : l.file[Len(F) + i] = B[i]
  BY LogParts
<1> HIDE DEF F, B
<1>2. /\ u \in Seq(Msg) /\ Len(u) = Len(F) + Len(B)
      /\ \A i \in 1 .. Len(F) : u[i] = F[i]
      /\ \A i \in 1 .. Len(B) : u[Len(F) + i] = B[i]
  BY <1>1, ConcatFacts
<1> HIDE DEF u
<1>3. ASSUME NEW i \in 1 .. Len(u)
      PROVE  l.file[i] = u[i]
  <2>1. CASE i <= Len(F)
    BY <1>1, <1>2, <2>1
  <2>2. CASE ~(i <= Len(F))
    <3>1. i - Len(F) \in 1 .. Len(B) /\ Len(F) + (i - Len(F)) = i
      BY <1>1, <1>2, <2>2, SMT
    <3> QED BY <1>1, <1>2, <3>1
  <2> QED BY <2>1, <2>2
<1>4. l.file = u
  BY <1>1, <1>2, <1>3
<1> QED BY <1>4 DEF u, F, B

\* A message that is written goes to the end of the buffer.
LEMMA WrittenParts ==
    ASSUME NEW l, WellFormed(l), NEW msg \in Msg
    PROVE  /\ WellFormed(Written(l, msg))
           /\ Finalized(Written(l, msg)) = Finalized(l)
           /\ Buffer(Written(l, msg)) = Append(Buffer(l), msg)
           /\ Written(l, msg).number = l.number /\ Written(l, msg).latest = l.latest
           /\ Written(l, msg).bufLen = l.bufLen + MsgLen
           /\ Written(l, msg).discarded = l.discarded
<1> DEFINE v == Written(l, msg)
           f == Finalized(l)
           b == Append(Buffer(l), msg)
<1>1. /\ l \in LogType /\ l.file \in Seq(Msg) /\ f \in Seq(Msg) /\ Buffer(l) \in Seq(Msg)
      /\ Len(Buffer(l)) \in Nat /\ l.bufLen = MsgLen * Len(Buffer(l)) /\ l.bufLen \in Nat
  BY LogParts
<1>2. WellFormed(v)
  BY WrittenKeeps
<1>3. /\ v.file = Append(l.file, msg) /\ v.bufLen = l.bufLen + MsgLen /\ v.number = l.number
      /\ v.latest = l.latest /\ v.discarded = l.discarded
  BY <1>1 DEF Written, LogType
<1>4. b \in Seq(Msg) /\ Len(b) = Len(Buffer(l)) + 1
  BY <1>1
<1>5. v.file = f \o b
  <2>1. l.file = f \o Buffer(l)
    BY FileIsParts
  <2>2. Append(f \o Buffer(l), msg) = f \o b
    <3> DEFINE c == Buffer(l)
    <3>1. f \in Seq(Msg) /\ c \in Seq(Msg)
      BY <1>1
    <3> HIDE DEF f, c
    <3>2. AppendsLast(f, c, msg)
      BY <3>1, AppendConcat
    <3> QED BY <3>2 DEF AppendsLast, c
  <2> QED BY <1>3, <2>1, <2>2
<1>6. v.bufLen = MsgLen * Len(b)
  <2> DEFINE k == Len(Buffer(l))
  <2>1. k \in Nat /\ Len(b) = k + 1 /\ l.bufLen = MsgLen * k
    BY <1>1, <1>4
  <2> HIDE DEF k
  <2>2. k \in Int /\ 1 \in Int
    BY <2>1, SMT
  <2>3. MsgLen * (k + 1) = MsgLen * k + MsgLen
    BY <2>2, Limits, Mul
  <2> QED BY <1>3, <2>1, <2>3
<1> HIDE DEF v, f, b
<1>7. Finalized(v) = f /\ Buffer(v) = b
  BY <1>1, <1>2, <1>4, <1>5, <1>6, PartsOf
<1> QED BY <1>2, <1>3, <1>7 DEF v, f, b
\* s starts with the elements of t.
Starts(s, t) == Len(t) <= Len(s) /\ \A i \in 1 .. Len(t) : s[i] = t[i]
NoRepeats(s) == \A i, j \in DOMAIN s : s[i] = s[j] => i = j

\* v is l after block has become final: the rest of the buffer stays as it is.
Finalizes(l, block, v) ==
    /\ WellFormed(v) /\ v.latest = block
    /\ Finalized(v) = Finalized(l) \o block
    /\ Messages(Buffer(v)) = Messages(Buffer(l)) \ Messages(block)
    /\ NoRepeats(Buffer(v))

\* The proposer finalizes the beginning of its buffer, ...
LEMMA LocalFinalizes ==
    ASSUME NEW l, WellFormed(l), NoRepeats(Buffer(l)), NEW block \in Seq(Msg), Starts(Buffer(l), block),
           NEW number \in Nat
    PROVE  /\ Bytes(block) <= l.bufLen
           /\ Finalizes(l, block, AcceptedLocal(l, block, number))
           /\ AcceptedLocal(l, block, number).number = number
<1> DEFINE v == AcceptedLocal(l, block, number)
           F == Finalized(l)
           B == Buffer(l)
           n == Len(block)
           b == SubSeq(B, n + 1, Len(B))
<1>1. /\ l \in LogType /\ F \in Seq(Msg) /\ B \in Seq(Msg) /\ Len(B) \in Nat
      /\ l.bufLen = MsgLen * Len(B) /\ l.bufLen \in Nat
  BY LogParts
<1>2. l.file = F \o B
  BY FileIsParts
<1>3. n \in Nat /\ n <= Len(B) /\ \A i \in 1 .. n : B[i] = block[i]
  BY SMT DEF Starts
<1>4. Bytes(block) <= l.bufLen /\ l.bufLen - Bytes(block) = MsgLen * (Len(B) - n)
  <2> DEFINE k == Len(B)
  <2>1. k \in Int /\ n \in Int /\ n <= k /\ Bytes(block) = MsgLen * n /\ l.bufLen = MsgLen * k
    BY <1>1, <1>3 DEF Bytes
  <2> HIDE DEF k, n
  <2>2. MsgLen * n <= MsgLen * k /\ MsgLen * (k - n) = MsgLen * k - MsgLen * n
    BY <2>1, Limits, Mul
  <2> QED BY <2>1, <2>2 DEF k, n
<1>5. WellFormed(v)
  BY <1>4, AcceptedLocalFits
<1>6. /\ v.file = l.file /\ v.latest = block /\ v.number = number /\ v.bufLen = l.bufLen - Bytes(block)
  BY <1>1 DEF AcceptedLocal, LogType
<1> HIDE DEF v, F, B, n
<1>7. /\ b \in Seq(Msg) /\ Len(b) = Len(B) - n
      /\ \A i \in 1 .. Len(b) : b[i] = B[n + i]
  BY <1>1, <1>3, SMT
<1>8. B = block \o b
  <2> DEFINE u == block \o b
  <2>1. /\ u \in Seq(Msg) /\ Len(u) = n + Len(b)
        /\ \A i \in 1 .. n : u[i] = block[i]
        /\ \A i \in 1 .. Len(b) : u[n + i] = b[i]
    <3> HIDE DEF b
    <3> QED BY <1>7, ConcatFacts DEF n
  <2> HIDE DEF u, b
  <2>2. Len(u) = Len(B)
    BY <1>1, <1>3, <1>7, <2>1, SMT
  <2>3. ASSUME NEW i \in 1 .. Len(B)
        PROVE  B[i] = u[i]
    <3>1. CASE i <= n
      BY <1>3, <2>1, <3>1
    <3>2. CASE ~(i <= n)
      <4>1. i - n \in 1 .. Len(b) /\ n + (i - n) = i
        BY <1>1, <1>3, <1>7, <3>2, SMT
      <4> QED BY <1>7, <2>1, <4>1
    <3> QED BY <3>1, <3>2
  <2>4. \A i \in 1 .. Len(u) : B[i] = u[i]
    BY <2>2, <2>3
  <2>5. B \in Seq(Msg) /\ u \in Seq(Msg) /\ Len(B) = Len(u)
    BY <1>1, <2>1, <2>2
  <2>6. B = u
    BY ONLY <2>4, <2>5
  <2> QED BY <2>6 DEF u
<1> HIDE DEF b
<1>9. F \o block \in Seq(Msg) /\ v.file = (F \o block) \o b
  <2>1. v.file = F \o (block \o b)
    BY <1>2, <1>6, <1>8
  <2>2. (F \o block) \o b = F \o (block \o b) /\ F \o block \in Seq(Msg)
    BY <1>1, <1>7, SMT
  <2> QED BY <2>1, <2>2
<1>10. v.bufLen = MsgLen * Len(b)
  BY <1>4, <1>6, <1>7
<1>11. Finalized(v) = F \o block /\ Buffer(v) = b
  BY <1>5, <1>7, <1>9, <1>10, PartsOf
<1>12. NoRepeats(B)
  BY DEF B
<1>13. /\ DOMAIN B = 1 .. Len(B) /\ DOMAIN b = 1 .. Len(b) /\ DOMAIN block = 1 .. n
       /\ \A i \in 1 .. Len(b) : n + i \in 1 .. Len(B) /\ n + i \notin 1 .. n
  <2>1. DOMAIN B = 1 .. Len(B) /\ DOMAIN b = 1 .. Len(b) /\ DOMAIN block = 1 .. n
    BY <1>1, <1>7 DEF n
  <2>2. \A i \in 1 .. Len(b) : n + i \in 1 .. Len(B) /\ n + i \notin 1 .. n
    BY <1>1, <1>3, <1>7, SMT
  <2> QED BY <2>1, <2>2
<1>14. NoRepeats(b)
  <2> SUFFICES ASSUME NEW i \in 1 .. Len(b), NEW j \in 1 .. Len(b), b[i] = b[j]
               PROVE  i = j
    BY <1>13 DEF NoRepeats
  <2>1. B[n + i] = B[n + j] /\ n + i \in DOMAIN B /\ n + j \in DOMAIN B
    BY <1>7, <1>13
  <2>2. n + i = n + j
    BY <1>12, <2>1 DEF NoRepeats
  <2> QED BY <1>3, <2>2, SMT
<1>15. Messages(b) = Messages(B) \ Messages(block)
  <2>1. ASSUME NEW i \in 1 .. Len(b)
        PROVE  b[i] \in Messages(B) /\ b[i] \notin Messages(block)
    <3>1. b[i] = B[n + i] /\ n + i \in DOMAIN B
      BY <1>7, <1>13
    <3>2. ASSUME NEW j \in 1 .. n, b[i] = block[j] PROVE FALSE
      <4>1. B[j] = B[n + i]
        BY <1>3, <3>1, <3>2
      <4>0. j \in DOMAIN B
        BY <1>1, <1>3, <1>13, SMT
      <4>2. j = n + i
        BY <1>12, <3>1, <4>0, <4>1 DEF NoRepeats
      <4> QED BY <1>13, <4>2
    <3> QED BY <1>13, <3>1, <3>2 DEF Messages
  <2>2. ASSUME NEW i \in 1 .. Len(B), B[i] \notin Messages(block)
        PROVE  B[i] \in Messages(b)
    <3>1. ~(i <= n)
      BY <1>3, <1>13, <2>2 DEF Messages
    <3>2. i - n \in 1 .. Len(b) /\ n + (i - n) = i
      BY <1>1, <1>3, <1>7, <3>1, SMT
    <3>3. b[i - n] = B[i]
      BY <1>7, <3>2
    <3> QED BY <1>13, <3>2, <3>3 DEF Messages
  <2> QED BY <1>13, <2>1, <2>2 DEF Messages
<1> QED BY <1>4, <1>5, <1>6, <1>11, <1>14, <1>15 DEF Finalizes, v, F, B

\* ... and everybody else its messages, wherever they are.
LEMMA RemoteFinalizes ==
    ASSUME NEW l, WellFormed(l), NoRepeats(Buffer(l)), NEW block \in Seq(Msg), NEW number \in Nat
    PROVE  /\ Finalizes(l, block, AcceptedRemote(l, block, number))
           /\ AcceptedRemote(l, block, number).number = number
<1> DEFINE v == AcceptedRemote(l, block, number)
           F == Finalized(l)
           B == Buffer(l)
           K == {i \in DOMAIN B : B[i] \notin Messages(block)}
           b == At(B, K)
           file == F \o block \o b
           size == Bytes(b)
<1>1. l \in LogType /\ F \in Seq(Msg) /\ B \in Seq(Msg) /\ Len(B) \in Nat
  BY LogParts
<1>2. WellFormed(v)
  BY AcceptedRemoteFits
<1>3. v = [l EXCEPT !.number = number, !.latest = block, !.file = file, !.bufLen = size]
  BY DEF AcceptedRemote
<1>4. v.file = file /\ v.bufLen = size /\ v.latest = block /\ v.number = number
  <2> HIDE DEF v, file, size
  <2> QED BY <1>1, <1>3 DEF LogType
<1> HIDE DEF v
<1>5. size = MsgLen * Len(b)
  BY DEF Bytes
<1> HIDE DEF size, F, B, K
<1>6. b \in Seq(Msg) /\ \E e : Embeds(e, b, B, Len(B), K)
  BY <1>1, AtEmbeds
<1> HIDE DEF b
<1>7. F \o block \in Seq(Msg)
  BY <1>1, ConcatFacts
<1>8. Finalized(v) = F \o block /\ Buffer(v) = b
  BY <1>2, <1>4, <1>5, <1>6, <1>7, PartsOf
<1>9. PICK e : Embeds(e, b, B, Len(B), K)
  BY <1>6
<1>10. /\ e \in [1 .. Len(b) -> K \cap (1 .. Len(B))]
       /\ \A i \in 1 .. Len(b) : b[i] = B[e[i]] /\ e[i] \in K
       /\ \A i, j \in 1 .. Len(b) : i < j => e[i] < e[j]
       /\ \A k \in K : \E i \in 1 .. Len(b) : e[i] = k
  <2>1. K \cap (1 .. Len(B)) = K
    BY <1>1 DEF K
  <2> QED BY <1>9, <2>1 DEF Embeds
<1>11. DOMAIN b = 1 .. Len(b) /\ DOMAIN B = 1 .. Len(B) /\ Len(b) \in Nat
  BY <1>1, <1>6
<1>12. NoRepeats(B)
  BY DEF B
<1>13. NoRepeats(b)
  <2> SUFFICES ASSUME NEW i \in 1 .. Len(b), NEW j \in 1 .. Len(b), b[i] = b[j], i # j
               PROVE  FALSE
    BY <1>11 DEF NoRepeats
  <2>1. e[i] \in DOMAIN B /\ e[j] \in DOMAIN B /\ B[e[i]] = B[e[j]]
    BY <1>10 DEF K
  <2>2. e[i] = e[j] /\ e[i] \in 1 .. Len(B)
    BY <1>11, <1>12, <2>1 DEF NoRepeats
  <2>3. i < j \/ j < i
    BY <1>11, SMT
  <2>4. e[i] < e[j] \/ e[j] < e[i]
    BY <1>10, <2>3
  <2> QED BY <1>1, <2>2, <2>4, SMT
<1>14. Messages(b) = Messages(B) \ Messages(block)
  <2>1. ASSUME NEW i \in 1 .. Len(b)
        PROVE  b[i] \in Messages(B) /\ b[i] \notin Messages(block)
    BY <1>10 DEF K, Messages
  <2>2. ASSUME NEW k \in DOMAIN B, B[k] \notin Messages(block)
        PROVE  B[k] \in Messages(b)
    <3>1. k \in K
      BY <2>2 DEF K
    <3>2. PICK i \in 1 .. Len(b) : e[i] = k
      BY <1>10, <3>1
    <3> QED BY <1>10, <1>11, <3>2 DEF Messages
  <2>3. \A x : x \in Messages(b) <=> \E i \in 1 .. Len(b) : x = b[i]
    BY <1>11 DEF Messages
  <2>4. \A x : x \in Messages(B) <=> \E k \in DOMAIN B : x = B[k]
    BY DEF Messages
  <2> QED BY <2>1, <2>2, <2>3, <2>4
<1> QED BY <1>2, <1>4, <1>8, <1>13, <1>14 DEF Finalizes, v, F, B

\* A proposed block is the beginning of the buffer, and more than half a block follows.
LEMMA ProposedParts ==
    ASSUME NEW l, WellFormed(l), NEW prev \in Nat, ShouldFinalize(prev, l.bufLen)
    PROVE  LET h == ProposedBlock(l)
           IN  /\ h \in Seq(Msg) /\ h # <<>> /\ Starts(Buffer(l), h)
               /\ MsgLen * (Len(Buffer(l)) - Len(h)) > HalfBlock
<1> DEFINE B == Buffer(l)
           size == l.bufLen
           K == size \div BlockSize
           whole == K * BlockSize
           cnt == whole \div MsgLen
           h == ProposedBlock(l)
           k == Len(B)
<1>1. /\ B \in Seq(Msg) /\ k \in Nat /\ size = MsgLen * k /\ size \in Nat
  BY LogParts
<1>2. size > BlockSize /\ size % BlockSize > HalfBlock
  BY DEF ShouldFinalize
<1>3. h = SubSeq(B, 1, cnt)
  BY DEF ProposedBlock
<1> HIDE DEF B, size, h, k
<1>4. K \in Nat /\ BlockSize * K <= size /\ size < BlockSize * K + BlockSize
  BY <1>1, Limits, DivFacts
<1>5. size % BlockSize = size - BlockSize * K
  BY <1>1, Limits, SMT
<1> HIDE DEF K
<1>6. whole = BlockSize * K /\ whole \in Nat
  BY <1>4, Limits, SMT
<1>7. K >= 1
  <2>1. CASE K = 0
    <3>1. BlockSize * K = 0
      BY <2>1, Limits, SMT
    <3> QED BY <1>1, <1>2, <1>4, <3>1, Limits, SMT
  <2> QED BY <1>4, <2>1, SMT
<1>8. whole >= MsgLen
  <2>1. BlockSize * 1 <= BlockSize * K /\ BlockSize * 1 = BlockSize
    <3>1. 1 \in Int /\ K \in Int /\ 1 <= K
      BY <1>4, <1>7, SMT
    <3> QED BY <3>1, Limits, Mul
  <2> QED BY <1>6, <2>1, Limits, SMT
<1> HIDE DEF whole
<1>9. cnt \in Nat /\ MsgLen * cnt <= whole /\ whole < MsgLen * cnt + MsgLen
  BY <1>6, Limits, DivFacts
<1> HIDE DEF cnt
<1>10. cnt >= 1
  <2>1. CASE cnt = 0
    <3>1. MsgLen * cnt = 0
      BY <2>1, Limits, SMT
    <3> QED BY <1>6, <1>8, <1>9, <3>1, Limits, SMT
  <2> QED BY <1>9, <2>1, SMT
<1>11. MsgLen * cnt \in Nat
  BY <1>9, Limits, SMT
<1>12. cnt <= k /\ MsgLen * (k - cnt) = size - MsgLen * cnt
  <2>1. cnt \in Int /\ k \in Int /\ MsgLen * cnt <= MsgLen * k
    BY <1>1, <1>4, <1>6, <1>9, <1>11, SMT
  <2> QED BY <1>1, <2>1, Limits, Mul
<1>13. MsgLen * (k - cnt) > HalfBlock
  <2>1. HalfBlock \in Int
    BY Limits, SMT DEF HalfBlock
  <2> QED BY <1>1, <1>2, <1>4, <1>5, <1>6, <1>9, <1>11, <1>12, <2>1, SMT
<1>14. h \in Seq(Msg) /\ Len(h) = cnt /\ \A i \in 1 .. cnt : B[i] = h[i]
  <2>1. k = Len(B)
    BY DEF k, B
  <2> QED BY <1>1, <1>3, <1>9, <1>12, <2>1, SMT
<1>15. h # <<>>
  BY <1>9, <1>10, <1>14, SMT
<1>16. Starts(B, h) /\ MsgLen * (Len(B) - Len(h)) > HalfBlock
  <2>1. k = Len(B)
    BY DEF k, B
  <2> QED BY <1>12, <1>13, <1>14, <2>1 DEF Starts
<1> QED BY <1>14, <1>15, <1>16 DEF h, B

\* A replica that holds all messages of a block in its buffer votes for it.
LEMMA PresentIsSeen ==
    ASSUME NEW l, WellFormed(l), NoRepeats(Buffer(l)), NEW h, Messages(h) \subseteq Messages(Buffer(l))
    PROVE  AllPresent(l, h)
<1> DEFINE B == Buffer(l)
           M == Messages(h)
           S == {i \in DOMAIN B : B[i] \in M}
           f == [i \in S |-> B[i]]
<1>1. B \in Seq(Msg) /\ DOMAIN B = 1 .. Len(B) /\ Len(B) \in Nat
  BY LogParts
<1>2. NoRepeats(B) /\ M \subseteq Messages(B)
  OBVIOUS
<1>3. AllPresent(l, h) <=> Cardinality(S) = Cardinality(M)
  BY DEF AllPresent
<1> HIDE DEF B, M
<1>4. IsFiniteSet(S)
  <2>1. 1 .. Len(B) \in SUBSET (1 .. Len(B)) /\ IsFiniteSet(1 .. Len(B))
    <3>1. 1 \in Int /\ Len(B) \in Int
      BY <1>1, SMT
    <3> QED BY <3>1, FS_Interval
  <2>2. S \in SUBSET (1 .. Len(B))
    BY <1>1
  <2> HIDE DEF S
  <2> QED BY <2>1, <2>2, FS_Subset
<1>5. ExistsBijection(S, M)
  <2>1. f \in [S -> M]
    OBVIOUS
  <2>2. \A i, j \in S : f[i] = f[j] => i = j
    BY <1>2 DEF NoRepeats
  <2>3. \A x \in M : \E i \in S : f[i] = x
    BY <1>2 DEF Messages
  <2> HIDE DEF f, S
  <2>4. f \in Bijection(S, M)
    BY <2>1, <2>2, <2>3 DEF Bijection, Injection, Surjection, IsInjective
  <2> QED BY <2>4 DEF ExistsBijection
<1> HIDE DEF S
<1>6. Cardinality(M) = Cardinality(S)
  BY <1>4, <1>5, FS_Bijection
<1> QED BY <1>3, <1>6
-----------------------------------------------------------------------------
\* What FlattenSeq computes, element by element.
IsFlat(f, S, s) ==
    /\ f \in [1 .. Len(s) -> Seq(S)] /\ f[1] = s[1]
    /\ \A i \in 2 .. Len(s) : f[i] = f[i - 1] \o s[i]

LEMMA FlatRecursion ==
    ASSUME NEW S, NEW s \in Seq(Seq(S)), s # <<>>
    PROVE  \E f : IsFlat(f, S, s) /\ FlattenSeq(s) = f[Len(s)]
<1> DEFINE n == Len(s)
           V == Seq(S)
           step == [i \in 1 .. n |-> [v \in V |-> v \o s[i]]]
           A(h) == [i \in 1 .. Len(s) |-> IF i = 1 THEN s[i] ELSE h[i - 1] \o s[i]]
           Is(f) == /\ f \in [1 .. n -> V] /\ f[1] = s[1]
                    /\ \A i \in 2 .. n : f[i] = f[i - 1] \o s[i]
<1>0. n \in Nat /\ n # 0 /\ 1 \in 1 .. n /\ \A i \in 1 .. n : s[i] \in V
  BY SMT
<1>1. \E f : Is(f)
  <2> DEFINE a == <<>>
  <2>1. n \in Nat /\ a \in V /\ step \in [1 .. n -> [V -> V]]
    BY SMT
  <2>2. PICK g : ByRecursion(g, V, n, a, step)
    <3> HIDE DEF step, V, n, a
    <3> QED BY <2>1, Recursion
  <2>3. ASSUME NEW i \in 1 .. n
        PROVE  g[i] = g[i - 1] \o s[i] /\ g[i] \in V
    <3>1. i - 1 \in 0 .. n /\ i \in 0 .. n
      BY SMT
    <3>2. g[i - 1] \in V /\ g[i] \in V /\ g[i] = step[i][g[i - 1]]
      <4> HIDE DEF V, n, step
      <4> QED BY <2>2, <3>1 DEF ByRecursion
    <3> HIDE DEF V, n
    <3> QED BY <3>2
  <2> DEFINE f == [i \in 1 .. n |-> g[i]]
  <2>4. f \in [1 .. n -> V]
    BY <2>3
  <2>5. f[1] = s[1]
    <3>1. g[1] = g[0] \o s[1] /\ g[0] = <<>> /\ s[1] \in Seq(S) /\ f[1] = g[1]
      <4>1. 1 - 1 = 0 /\ g[0] = <<>>
        BY <2>2 DEF ByRecursion
      <4>2. g[1] = g[1 - 1] \o s[1]
        <5> HIDE DEF n, V
        <5> QED BY <1>0, <2>3
      <4>3. g[1] = g[0] \o s[1]
        BY <4>1, <4>2
      <4> QED BY <1>0, <4>1, <4>3
    <3>2. <<>> \o s[1] = s[1]
      BY <3>1
    <3> QED BY <3>1, <3>2
  <2>6. ASSUME NEW i \in 2 .. n
        PROVE  f[i] = f[i - 1] \o s[i]
    <3>1. i \in 1 .. n /\ i - 1 \in 1 .. n
      BY SMT
    <3> HIDE DEF n
    <3> QED BY <2>3, <3>1
  <2>7. Is(f)
    <3> HIDE DEF f
    <3> QED BY <2>4, <2>5, <2>6
  <2> QED BY <2>7
<1>2. ASSUME NEW f, Is(f)
      PROVE  f = A(f)
  <2>1. ASSUME NEW i \in 1 .. n
        PROVE  f[i] = A(f)[i]
    <3>1. CASE i = 1
      BY <1>2, <3>1
    <3>2. CASE i # 1
      <4>1. i \in 2 .. n
        BY <3>2, SMT
      <4> QED BY <1>2, <3>2, <4>1
    <3> QED BY <3>1, <3>2
  <2> QED BY <1>2, <2>1
<1>3. DEFINE g == CHOOSE g : g = A(g)
<1>4. g = A(g)
  <2> HIDE DEF A, Is
  <2> QED BY <1>1, <1>2
<1>5. FlattenSeq(s) = g[Len(s)]
  BY <1>0 DEF FlattenSeq
<1>6. /\ DOMAIN g = 1 .. n /\ g[1] = s[1]
      /\ \A i \in 2 .. n : g[i] = g[i - 1] \o s[i]
  <2>1. 1 \in 1 .. n /\ \A i \in 2 .. n : i \in 1 .. n /\ i # 1
    BY <1>0, SMT
  <2>2. ASSUME NEW h
        PROVE  /\ DOMAIN A(h) = 1 .. n /\ A(h)[1] = s[1]
               /\ \A i \in 2 .. n : A(h)[i] = h[i - 1] \o s[i]
    BY <2>1, Zenon
  <2> HIDE DEF g, n, A
  <2>3. /\ DOMAIN A(g) = 1 .. n /\ A(g)[1] = s[1]
        /\ \A i \in 2 .. n : A(g)[i] = g[i - 1] \o s[i]
    BY <2>2
  <2>4. g = A(g)
    BY <1>4
  <2>5. DOMAIN g = 1 .. n /\ g[1] = s[1]
    BY <2>3, <2>4
  <2>6. ASSUME NEW i \in 2 .. n
        PROVE  g[i] = g[i - 1] \o s[i]
    <3>1. A(g)[i] = g[i - 1] \o s[i]
      BY <2>3
    <3> DEFINE a == A(g)
    <3>2. g = a /\ a[i] = g[i - 1] \o s[i]
      BY <2>4, <3>1
    <3> HIDE DEF a
    <3>3. g[i] = a[i]
      BY ONLY <3>2
    <3> QED BY <3>2, <3>3
  <2> QED BY <2>5, <2>6
<1>7. \A i \in 1 .. n : g[i] \in Seq(S)
  <2> DEFINE G == {i \in 0 .. n : i = 0 \/ g[i] \in Seq(S)}
  <2>1. n \in Nat /\ 0 \in 0 .. n /\ \A i \in 1 .. n : i \in 0 .. n /\ s[i] \in Seq(S)
    BY <1>0, SMT
  <2> HIDE DEF g, n
  <2>2. 0 \in G
    BY <2>1
  <2>3. ASSUME NEW i \in 1 .. n, i - 1 \in G
        PROVE  i \in G
    <3>1. CASE i = 1
      BY <1>6, <2>1, <3>1
    <3>2. CASE i # 1
      <4>1. i \in 2 .. n /\ i - 1 # 0
        BY <2>1, <3>2, SMT
      <4>2. g[i] = g[i - 1] \o s[i] /\ g[i - 1] \in Seq(S) /\ s[i] \in Seq(S)
        BY <1>6, <2>1, <2>3, <4>1
      <4>3. g[i - 1] \o s[i] \in Seq(S)
        BY <4>2, ConcatFacts
      <4> QED BY <2>1, <4>2, <4>3
    <3> QED BY <3>1, <3>2
  <2>4. \A i \in 0 .. n : i \in G
    <3> HIDE DEF G
    <3> QED BY <2>1, <2>2, <2>3, UpTo
  <2>5. \A i \in 1 .. n : i \in 0 .. n /\ i # 0
    BY <2>1, SMT
  <2> QED BY <2>4, <2>5
<1>8. g \in [1 .. n -> Seq(S)]
  <2>1. g = [i \in 1 .. n |-> g[i]]
    BY <1>4
  <2> HIDE DEF g
  <2> QED BY <1>7, <2>1
<1> HIDE DEF g
<1> QED BY <1>5, <1>6, <1>8 DEF IsFlat

\* One more sequence goes to the end.
LEMMA FlattenAppend ==
    ASSUME NEW S, NEW s \in Seq(Seq(S)), NEW t \in Seq(S)
    PROVE  /\ FlattenSeq(s) \in Seq(S)
           /\ FlattenSeq(Append(s, t)) = FlattenSeq(s) \o t
<1> DEFINE n == Len(s)
           u == Append(s, t)
<1>1. /\ n \in Nat /\ u \in Seq(Seq(S)) /\ Len(u) = n + 1 /\ u # <<>>
      /\ u[n + 1] = t /\ \A i \in 1 .. n : u[i] = s[i]
  <2> DEFINE T == Seq(S)
  <2>1. s \in Seq(T) /\ t \in T
    OBVIOUS
  <2> HIDE DEF T
  <2> QED BY <2>1
<1> HIDE DEF u
<1>2. PICK f : IsFlat(f, S, u) /\ FlattenSeq(u) = f[n + 1]
  <2>1. \E f : IsFlat(f, S, u) /\ FlattenSeq(u) = f[Len(u)]
    BY <1>1, FlatRecursion
  <2> QED BY <1>1, <2>1
<1>3. /\ f \in [1 .. n + 1 -> Seq(S)] /\ f[1] = u[1]
      /\ \A i \in 2 .. n + 1 : f[i] = f[i - 1] \o u[i]
  BY <1>1, <1>2 DEF IsFlat
<1>4. CASE s = <<>>
  <2>1. n = 0
    BY <1>4
  <2>2. FlattenSeq(s) = <<>>
    BY <1>4 DEF FlattenSeq
  <2>3. f[n + 1] = t /\ <<>> \o t = t /\ <<>> \in Seq(S)
    BY <1>1, <1>3, <2>1
  <2> QED BY <1>2, <2>2, <2>3 DEF u
<1>5. CASE s # <<>>
  <2>1. PICK g : IsFlat(g, S, s) /\ FlattenSeq(s) = g[n]
    BY <1>5, FlatRecursion
  <2>2. /\ g \in [1 .. n -> Seq(S)] /\ g[1] = s[1]
        /\ \A i \in 2 .. n : g[i] = g[i - 1] \o s[i]
    BY <2>1 DEF IsFlat
  <2>3. n # 0
    BY <1>5
  <2> HIDE DEF n
  <2> DEFINE G == {i \in 0 .. n : i = 0 \/ f[i] = g[i]}
  <2>4. 0 \in G
    BY <1>1, SMT
  <2>5. ASSUME NEW i \in 1 .. n, i - 1 \in G
        PROVE  i \in G
    <3>1. i \in 0 .. n /\ u[i] = s[i]
      BY <1>1, SMT
    <3>2. CASE i = 1
      BY <1>3, <2>2, <3>1, <3>2
    <3>3. CASE i # 1
      <4>1. i \in 2 .. n /\ i \in 2 .. n + 1 /\ i - 1 # 0
        BY <1>1, <3>3, SMT
      <4>2. f[i] = f[i - 1] \o u[i] /\ g[i] = g[i - 1] \o s[i] /\ f[i - 1] = g[i - 1]
        BY <1>3, <2>2, <2>5, <4>1
      <4> QED BY <3>1, <4>2
    <3> QED BY <3>2, <3>3
  <2>6. \A i \in 0 .. n : i \in G
    <3> HIDE DEF G
    <3> QED BY <1>1, <2>4, <2>5, UpTo
  <2>7. f[n] = g[n] /\ g[n] \in Seq(S)
    <3>1. n \in 0 .. n /\ n \in 1 .. n
      BY <1>1, <2>3, SMT
    <3> QED BY <2>2, <2>3, <2>6, <3>1
  <2>8. f[n + 1] = f[n] \o t
    <3>1. n + 1 \in 2 .. n + 1 /\ (n + 1) - 1 = n
      BY <1>1, <2>3, SMT
    <3>2. f[n + 1] = f[(n + 1) - 1] \o u[n + 1]
      BY <1>3, <3>1
    <3> QED BY <1>1, <3>1, <3>2
  <2> QED BY <1>2, <2>1, <2>7, <2>8 DEF u
<1> QED BY <1>4, <1>5
-----------------------------------------------------------------------------
\* A log that holds the messages of M, each once.
Clean(l, M) ==
    /\ WellFormed(l) /\ l.number = 0
    /\ NoRepeats(Finalized(l)) /\ NoRepeats(Buffer(l))
    /\ Messages(Finalized(l)) \cap Messages(Buffer(l)) = {}
    /\ Messages(Finalized(l)) \cup Messages(Buffer(l)) = M

LEMMA AppendFacts ==
    ASSUME NEW s \in Seq(Msg), NEW msg \in Msg
    PROVE  /\ Messages(Append(s, msg)) = Messages(s) \cup {msg}
           /\ NoRepeats(s) /\ msg \notin Messages(s) => NoRepeats(Append(s, msg))
<1> DEFINE a == Append(s, msg)
<1>1. /\ DOMAIN s = 1 .. Len(s) /\ Len(s) \in Nat
      /\ \A x : x \in Messages(s) <=> \E i \in 1 .. Len(s) : x = s[i]
  BY DEF Messages
<1>2. /\ a \in Seq(Msg) /\ Len(a) = Len(s) + 1 /\ a[Len(s) + 1] = msg
      /\ \A i \in 1 .. Len(s) : a[i] = s[i]
      /\ DOMAIN a = 1 .. Len(s) + 1
  OBVIOUS
<1> HIDE DEF a
<1>4. \A i : i \in 1 .. Len(s) + 1 <=> i \in 1 .. Len(s) \/ i = Len(s) + 1
  BY <1>1, SMT
<1>6. Messages(a) = Messages(s) \cup {msg}
  BY <1>1, <1>2, <1>4 DEF Messages
<1>7. ASSUME NoRepeats(s), msg \notin Messages(s)
      PROVE  NoRepeats(a)
  BY <1>1, <1>2, <1>4, <1>7 DEF NoRepeats
<1> QED BY <1>6, <1>7 DEF a

LEMMA SequenceFacts ==
    ASSUME NEW s \in Seq(Msg), NEW t \in Seq(Msg)
    PROVE  /\ Messages(s \o t) = Messages(s) \cup Messages(t)
           /\ NoRepeats(s) /\ NoRepeats(t) /\ Messages(s) \cap Messages(t) = {} => NoRepeats(s \o t)
           /\ Starts(s, t) => Messages(t) \subseteq Messages(s) /\ (NoRepeats(s) => NoRepeats(t))
           /\ s # <<>> => Messages(s) # {}
<1>1. /\ DOMAIN s = 1 .. Len(s) /\ DOMAIN t = 1 .. Len(t) /\ Len(s) \in Nat /\ Len(t) \in Nat
      /\ \A x : x \in Messages(s) <=> \E i \in 1 .. Len(s) : x = s[i]
      /\ \A x : x \in Messages(t) <=> \E i \in 1 .. Len(t) : x = t[i]
  BY DEF Messages
<1> DEFINE c == s \o t
<1>3. /\ c \in Seq(Msg) /\ Len(c) = Len(s) + Len(t) /\ DOMAIN c = 1 .. Len(s) + Len(t)
      /\ \A i \in 1 .. Len(s) : c[i] = s[i]
      /\ \A i \in 1 .. Len(t) : c[Len(s) + i] = t[i]
  BY ConcatFacts
<1> HIDE DEF c
<1>5. /\ \A i : i \in 1 .. Len(s) + Len(t) =>
                  i \in 1 .. Len(s) \/ \E j \in 1 .. Len(t) : i = Len(s) + j
      /\ \A i \in 1 .. Len(s) : i \in 1 .. Len(s) + Len(t)
      /\ \A j \in 1 .. Len(t) : Len(s) + j \in 1 .. Len(s) + Len(t)
  <2>1. ASSUME NEW i \in 1 .. Len(s) + Len(t), i \notin 1 .. Len(s)
        PROVE  i - Len(s) \in 1 .. Len(t) /\ i = Len(s) + (i - Len(s))
    BY <1>1, <2>1, SMT
  <2>2. /\ \A i \in 1 .. Len(s) : i \in 1 .. Len(s) + Len(t)
        /\ \A j \in 1 .. Len(t) : Len(s) + j \in 1 .. Len(s) + Len(t)
    BY <1>1, SMT
  <2> QED BY <2>1, <2>2
<1>8. Messages(c) = Messages(s) \cup Messages(t)
  <2>1. ASSUME NEW x \in Messages(c)
        PROVE  x \in Messages(s) \cup Messages(t)
    <3>1. PICK i \in 1 .. Len(s) + Len(t) : x = c[i]
      BY <1>3 DEF Messages
    <3>2. CASE i \in 1 .. Len(s)
      BY <1>1, <1>3, <3>1, <3>2
    <3>3. ASSUME NEW j \in 1 .. Len(t), i = Len(s) + j
          PROVE  x \in Messages(t)
      BY <1>1, <1>3, <3>1, <3>3
    <3> QED BY <1>5, <3>2, <3>3
  <2>2. ASSUME NEW x \in Messages(s) \cup Messages(t)
        PROVE  x \in Messages(c)
    <3>1. CASE x \in Messages(s)
      <4>1. PICK i \in 1 .. Len(s) : x = s[i]
        BY <1>1, <3>1
      <4>2. x = c[i] /\ i \in DOMAIN c
        BY <1>3, <1>5, <4>1
      <4> QED BY <4>2 DEF Messages
    <3>2. CASE x \in Messages(t)
      <4>1. PICK i \in 1 .. Len(t) : x = t[i]
        BY <1>1, <3>2
      <4>2. x = c[Len(s) + i] /\ Len(s) + i \in DOMAIN c
        BY <1>3, <1>5, <4>1
      <4> QED BY <4>2 DEF Messages
    <3> QED BY <3>1, <3>2
  <2> QED BY <2>1, <2>2
<1>9. ASSUME NoRepeats(s), NoRepeats(t), Messages(s) \cap Messages(t) = {}
      PROVE  NoRepeats(c)
  <2> SUFFICES ASSUME NEW i \in 1 .. Len(s) + Len(t), NEW j \in 1 .. Len(s) + Len(t), c[i] = c[j]
               PROVE  i = j
    BY <1>3 DEF NoRepeats
  <2>1. CASE i \in 1 .. Len(s) /\ j \in 1 .. Len(s)
    <3>1. s[i] = s[j]
      BY <1>3, <2>1
    <3> QED BY <1>1, <1>9, <2>1, <3>1 DEF NoRepeats
  <2>2. ASSUME NEW k \in 1 .. Len(t), NEW m \in 1 .. Len(t), i = Len(s) + k, j = Len(s) + m
        PROVE  i = j
    <3>1. t[k] = t[m]
      BY <1>3, <2>2
    <3>2. k = m
      BY <1>1, <1>9, <3>1 DEF NoRepeats
    <3> QED BY <2>2, <3>2
  <2>3. ASSUME NEW k \in 1 .. Len(s), NEW m \in 1 .. Len(t), c[k] = c[Len(s) + m]
        PROVE  FALSE
    <3>1. s[k] = t[m]
      BY <1>3, <2>3
    <3>2. s[k] \in Messages(s) /\ t[m] \in Messages(t)
      BY <1>1
    <3> QED BY <1>9, <3>1, <3>2
  <2> QED BY <1>5, <2>1, <2>2, <2>3
<1>10. ASSUME Starts(s, t)
       PROVE  Messages(t) \subseteq Messages(s) /\ (NoRepeats(s) => NoRepeats(t))
  <2>1. \A i \in 1 .. Len(t) : i \in 1 .. Len(s) /\ s[i] = t[i]
    BY <1>1, <1>10, SMT DEF Starts
  <2>2. Messages(t) \subseteq Messages(s)
    BY <1>1, <2>1
  <2>3. NoRepeats(s) => NoRepeats(t)
    BY <1>1, <2>1 DEF NoRepeats
  <2> QED BY <2>2, <2>3
<1>11. ASSUME s # <<>>
       PROVE  Messages(s) # {}
  <2>1. Len(s) # 0
    BY <1>11
  <2>2. 1 \in 1 .. Len(s)
    BY <1>1, <2>1, SMT
  <2> QED BY <1>1, <2>2
<1> QED BY <1>8, <1>9, <1>10, <1>11 DEF c

LEMMA WrittenClean ==
    ASSUME NEW l, NEW M, Clean(l, M), NEW msg \in Msg, msg \notin M
    PROVE  /\ Clean(Written(l, msg), M \cup {msg})
           /\ Messages(Buffer(Written(l, msg))) = Messages(Buffer(l)) \cup {msg}
<1> DEFINE v == Written(l, msg)
           F == Finalized(l)
           B == Buffer(l)
<1>1. /\ WellFormed(v) /\ Finalized(v) = F /\ Buffer(v) = Append(B, msg) /\ v.number = 0
  BY WrittenParts DEF Clean
<1>2. F \in Seq(Msg) /\ B \in Seq(Msg)
  BY LogParts DEF Clean
<1>3. /\ NoRepeats(F) /\ NoRepeats(B) /\ Messages(F) \cap Messages(B) = {}
      /\ Messages(F) \cup Messages(B) = M
  BY DEF Clean
<1> HIDE DEF v, F, B
<1>4. Messages(Append(B, msg)) = Messages(B) \cup {msg} /\ NoRepeats(Append(B, msg))
  BY <1>2, <1>3, AppendFacts
<1>5. Clean(v, M \cup {msg})
  BY <1>1, <1>3, <1>4 DEF Clean
<1> QED BY <1>1, <1>4, <1>5 DEF v, B

LEMMA FinalClean ==
    ASSUME NEW l, NEW M, Clean(l, M), NEW block \in Seq(Msg), NEW v, Finalizes(l, block, v),
           NoRepeats(block), Messages(block) \subseteq Messages(Buffer(l)), v.number = 0
    PROVE  Clean(v, M)
<1> DEFINE F == Finalized(l)
           B == Buffer(l)
<1>1. F \in Seq(Msg) /\ B \in Seq(Msg)
  BY LogParts DEF Clean
<1>2. /\ NoRepeats(F) /\ NoRepeats(B) /\ Messages(F) \cap Messages(B) = {}
      /\ Messages(F) \cup Messages(B) = M
  BY DEF Clean
<1>3. /\ WellFormed(v) /\ Finalized(v) = F \o block /\ NoRepeats(Buffer(v))
      /\ Messages(Buffer(v)) = Messages(B) \ Messages(block) /\ Messages(block) \subseteq Messages(B)
  BY DEF Finalizes
<1> HIDE DEF F, B
<1>4. Messages(F) \cap Messages(block) = {}
  BY <1>2, <1>3
<1>5. NoRepeats(F \o block) /\ Messages(F \o block) = Messages(F) \cup Messages(block)
  BY <1>1, <1>2, <1>4, SequenceFacts
<1> QED BY <1>2, <1>3, <1>5 DEF Clean

\* A log that holds each message once is as long as there are messages.
LEMMA CleanLength ==
    ASSUME NEW l, NEW M, Clean(l, M)
    PROVE  Messages(l.file) = M /\ Len(l.file) = Cardinality(M)
<1> DEFINE F == Finalized(l)
           B == Buffer(l)
           s == l.file
<1>1. F \in Seq(Msg) /\ B \in Seq(Msg) /\ s \in Seq(Msg) /\ s = F \o B
  BY LogParts, FileIsParts DEF Clean
<1>2. /\ NoRepeats(F) /\ NoRepeats(B) /\ Messages(F) \cap Messages(B) = {}
      /\ Messages(F) \cup Messages(B) = M
  BY DEF Clean
<1> HIDE DEF F, B, s
<1>3. NoRepeats(s) /\ Messages(s) = M
  BY <1>1, <1>2, SequenceFacts
<1>4. DOMAIN s = 1 .. Len(s) /\ Len(s) \in Nat
  BY <1>1
<1>5. s \in Bijection(1 .. Len(s), M)
  <2>1. s \in [1 .. Len(s) -> M]
    <3>1. \A i \in 1 .. Len(s) : s[i] \in M
      BY <1>3, <1>4 DEF Messages
    <3>2. s \in [1 .. Len(s) -> Msg]
      BY <1>1, LenProperties
    <3> QED BY <3>1, <3>2
  <2>2. \A x \in M : \E i \in 1 .. Len(s) : s[i] = x
    BY <1>3, <1>4 DEF Messages
  <2>3. IsInjective(s)
    BY <1>3 DEF NoRepeats, IsInjective
  <2> QED BY <2>1, <2>2, <2>3 DEF Bijection, Injection, Surjection
<1>6. Cardinality(M) = Len(s)
  BY <1>4, <1>5, FS_CountingElements DEF ExistsBijection
<1> QED BY <1>3, <1>6 DEF s
-----------------------------------------------------------------------------
\* What the rounds of a chat rest on: all replicas run, nothing is taken while proposals
\* or votes are in flight, and half a block of other messages overtakes no message.
Orderly ==
    /\ Faults = {} /\ Up = Nodes /\ RF > 1
    /\ \A k \in Nat : MsgLen * k > HalfBlock => MsgLen * k >= Slack

\* No buffer is about to overflow and no file about to be cut down.
Room == \A n \in Nodes : /\ log[n].bufLen + MsgLen <= UnfinalizedBufferCap
                         /\ Bytes(log[n].file) - log[n].checkpoint <= BlockHistory * BlockSize

\* Replicas restart between the rounds.
RestartsBetween == net # {} => restarts' = restarts

\* A round: what was final before, as messages and as blocks, the latest block that chose
\* the finalizer, the block of this round and who proposed it.
Rounds == [final : Seq(Msg), blocks : Seq(Seq(Msg)), base : Seq(Msg), block : Seq(Msg), proposer : Nodes]

Offer(r, n) == BlockMsg(r.proposer, n, 0, r.block, r.base)
Ballot(r, o, n) == VoteMsg(o, n, 0, r.block, TRUE)

\* n has the proposal, and these are the votes it counted.
Got(r, n) == n = r.proposer \/ Offer(r, n) \notin net
Voters(r, n) == {o \in Others(n) \ {r.proposer} : Got(r, o) /\ Ballot(r, o, n) \notin net}
Yes(r, n) == Cardinality(Voters(r, n)) + IF ~Got(r, n) THEN 0 ELSE IF n = r.proposer THEN 1 ELSE 2
Done(r, n) == Got(r, n) /\ Yes(r, n) > RF \div 2

Counted(r, n) ==
    [number |-> 0, yes |-> Yes(r, n), no |-> 0,
     proposal |-> IF ~Got(r, n) \/ Done(r, n) THEN "absent"
                  ELSE IF n = r.proposer THEN "local" ELSE "remote",
     votes |-> Voters(r, n)]

\* The other proposals n knows are of blocks that are final.
Older(n, final, block) ==
    \A b \in DOMAIN voting[n] : /\ voting[n][b].number = 0
                                /\ b = block \/ Messages(b) \subseteq Messages(final)
Knows(n, final, blocks, latest) ==
    Finalized(log[n]) = final /\ accepted[n] = blocks /\ log[n].latest = latest

\* What a replica that has not accepted the block has in its buffer.
Holds(n, r) == /\ Messages(r.block) \subseteq Messages(Buffer(log[n]))
               /\ n = r.proposer => Starts(Buffer(log[n]), r.block)

Stands(r, n) ==
    /\ Entry(n, r.block, 0) = Counted(r, n)
    /\ Older(n, r.final, r.block)
    /\ IF Done(r, n) THEN Knows(n, r.final \o r.block, Append(r.blocks, r.block), r.block)
                     ELSE Knows(n, r.final, r.blocks, r.base) /\ Holds(n, r)

OnlyOf(r) ==
    \A m \in net : \/ \E n \in Others(r.proposer) : m = Offer(r, n)
                   \/ \E o \in Others(r.proposer) : \E n \in Others(o) : Got(r, o) /\ m = Ballot(r, o, n)

\* The replicas of ns, at least, backed the block b.
BackedBy(b, ns) == b \in DOMAIN backers /\ ns \subseteq backers[b]
HasQuorum(b) == b \in DOMAIN backers /\ Cardinality(backers[b]) > RF \div 2

InRound(r) ==
    /\ r.block # <<>> /\ NoRepeats(r.block) /\ Finalizer(r.base, ReceivedLen(r.block)) = r.proposer
    /\ OnlyOf(r)
    /\ BackedBy(r.block, {n \in Nodes : Got(r, n)})
    /\ \A n \in Nodes : Stands(r, n)
Settled(r) ==
    /\ net = {}
    /\ \A n \in Nodes : Knows(n, r.final, r.blocks, r.base) /\ Older(n, r.final, <<>>)

\* What both have in common.
Sane ==
    /\ poisoned = {} /\ restarts \in Nat /\ nonce \in [Nodes -> [Sender -> Nat]]
    /\ voting = [n \in Nodes |-> voting[n]] /\ accepted = [n \in Nodes |-> accepted[n]]
    /\ log \in [Nodes -> LogType]
    /\ \A n \in Nodes : Clean(log[n], Taken(n))
    /\ \A b \in DOMAIN backers : backers[b] \subseteq Nodes
History(r) == /\ r.final = FlattenSeq(r.blocks)
              /\ \A i \in 1 .. Len(r.blocks) : HasQuorum(r.blocks[i])

RoundsInv == Sane /\ \E r \in Rounds : History(r) /\ (Settled(r) \/ InRound(r))

\* tab2 is tab with e as the entry of h.
Sets(tab, h, e, tab2) ==
    DOMAIN tab2 = DOMAIN tab \cup {h} /\ tab2[h] = e /\ \A b \in DOMAIN tab : b # h => tab2[b] = tab[b]

LEMMA EntrySet ==
    ASSUME NEW tab, NEW h, NEW e
    PROVE  Sets(tab, h, e, WithEntry(tab, h, e))
BY DEF Sets, WithEntry

\* Who is in a group and how many they are.
LEMMA GroupFacts ==
    /\ RF \in Nat /\ IsFiniteSet(Nodes) /\ Cardinality(Nodes) = RF + 1
    /\ \A S \in SUBSET Nodes : IsFiniteSet(S) /\ Cardinality(S) \in Nat
    /\ \A S \in SUBSET Nodes : \A x \in Nodes :
          x \notin S => Cardinality(S \cup {x}) = Cardinality(S) + 1
    /\ \A S, T \in SUBSET Nodes : S \subseteq T => Cardinality(S) <= Cardinality(T)
    /\ \A x \in Nodes : Cardinality(Nodes \ {x}) = RF
    /\ \A x, y \in Nodes : x # y => Cardinality(Nodes \ {x, y}) = RF - 1
    /\ Cardinality({}) = 0
<1>1. RF \in Nat /\ IsFiniteSet(Nodes) /\ Cardinality(Nodes) = RF + 1
  BY GroupAssumption
<1>2. \A S \in SUBSET Nodes : IsFiniteSet(S) /\ Cardinality(S) \in Nat
  BY <1>1, FS_Subset, FS_CardinalityType
<1>3. \A S \in SUBSET Nodes : \A x \in Nodes : x \notin S => Cardinality(S \cup {x}) = Cardinality(S) + 1
  BY <1>2, FS_AddElement
<1>4. \A S, T \in SUBSET Nodes : S \subseteq T => Cardinality(S) <= Cardinality(T)
  <2> TAKE S, T \in SUBSET Nodes
  <2> HAVE S \subseteq T
  <2> QED BY <1>2, FS_Subset
<1>5. ASSUME NEW x \in Nodes PROVE Cardinality(Nodes \ {x}) = RF
  <2>1. Cardinality(Nodes \ {x}) = Cardinality(Nodes) - 1
    BY <1>1, FS_RemoveElement
  <2> QED BY <1>1, <2>1, SMT
<1>6. ASSUME NEW x \in Nodes, NEW y \in Nodes, x # y PROVE Cardinality(Nodes \ {x, y}) = RF - 1
  <2> DEFINE S == Nodes \ {x}
  <2>1. Nodes \ {x, y} = S \ {y} /\ y \in S /\ S \in SUBSET Nodes
    BY <1>6
  <2>2. Cardinality(S) = RF /\ IsFiniteSet(S)
    BY <1>2, <1>5, <2>1
  <2> HIDE DEF S
  <2>3. Cardinality(S \ {y}) = Cardinality(S) - 1
    BY <2>1, <2>2, FS_RemoveElement
  <2> QED BY <2>1, <2>2, <2>3
<1> QED BY <1>1, <1>2, <1>3, <1>4, <1>5, <1>6, FS_EmptySet

\* The messages of a round.
LEMMA OfferFacts ==
    ASSUME NEW r, NEW n
    PROVE  /\ Offer(r, n).type = "block" /\ Offer(r, n).to = n /\ Offer(r, n).from = r.proposer
           /\ Offer(r, n).number = 0 /\ Offer(r, n).block = r.block /\ Offer(r, n).base = r.base
BY DEF Offer, BlockMsg

LEMMA BallotFacts ==
    ASSUME NEW r, NEW o, NEW n
    PROVE  /\ Ballot(r, o, n).type = "vote" /\ Ballot(r, o, n).to = n /\ Ballot(r, o, n).from = o
           /\ Ballot(r, o, n).number = 0 /\ Ballot(r, o, n).block = r.block /\ Ballot(r, o, n).agrees = TRUE
BY DEF Ballot, VoteMsg

LEMMA MessagesDiffer ==
    ASSUME NEW r
    PROVE  /\ \A n, o, x : Offer(r, n) # Ballot(r, o, x)
           /\ \A n, x : Offer(r, n) = Offer(r, x) => n = x
           /\ \A o, n, x, y : Ballot(r, o, n) = Ballot(r, x, y) => o = x /\ n = y
<1>1. \A n : Offer(r, n).type = "block" /\ Offer(r, n).to = n
  BY OfferFacts
<1>2. \A o, n : Ballot(r, o, n).type = "vote" /\ Ballot(r, o, n).from = o /\ Ballot(r, o, n).to = n
  BY DEF Ballot, VoteMsg
<1>3. \A n, o, x : Offer(r, n) # Ballot(r, o, x)
  BY <1>1, <1>2
<1>4. \A n, x : Offer(r, n) = Offer(r, x) => n = x
  BY <1>1
<1>5. ASSUME NEW o, NEW n, NEW x, NEW y, Ballot(r, o, n) = Ballot(r, x, y)
      PROVE  o = x /\ n = y
  <2>1. o = Ballot(r, o, n).from /\ n = Ballot(r, o, n).to /\ x = Ballot(r, x, y).from /\ y = Ballot(r, x, y).to
    BY <1>2
  <2> QED BY <1>5, <2>1
<1> QED BY <1>3, <1>4, <1>5

\* A proposal that is handled: its receiver has it, and its votes are on their way.
LEMMA ProposalNet ==
    ASSUME NEW r \in Rounds, OnlyOf(r), NEW n \in Others(r.proposer), Offer(r, n) \in net,
           net' = (net \ {Offer(r, n)}) \cup {Ballot(r, n, o) : o \in Others(n)}
    PROVE  /\ ~Got(r, n) /\ Got(r, n)'
           /\ \A x \in Nodes : x # n => (Got(r, x)' <=> Got(r, x))
           /\ \A x \in Nodes : Voters(r, x)' = Voters(r, x)
           /\ OnlyOf(r)'
<1>1. n # r.proposer /\ n \in Nodes /\ r.proposer \in Nodes
  BY DEF Others, Rounds
<1>2. \A x : Offer(r, x) \in net' <=> Offer(r, x) \in net /\ x # n
  BY MessagesDiffer
<1>3. \A o, x : Ballot(r, o, x) \in net' <=> Ballot(r, o, x) \in net \/ (o = n /\ x \in Others(n))
  BY MessagesDiffer
<1>4. ~Got(r, n) /\ Got(r, n)'
  BY <1>1, <1>2 DEF Got
<1>5. \A x \in Nodes : x # n => (Got(r, x)' <=> Got(r, x))
  BY <1>2 DEF Got
<1>6. ASSUME NEW x \in Nodes
      PROVE  Voters(r, x)' = Voters(r, x)
  <2>1. ASSUME NEW o \in Others(x) \ {r.proposer}
        PROVE  (Got(r, o)' /\ Ballot(r, o, x) \notin net') <=> (Got(r, o) /\ Ballot(r, o, x) \notin net)
    <3>1. CASE o = n
      <4>1. x \in Others(n)
        BY <2>1, <3>1 DEF Others
      <4> QED BY <1>3, <1>4, <3>1, <4>1
    <3>2. CASE o # n
      <4>1. o \in Nodes
        BY <2>1 DEF Others
      <4> QED BY <1>3, <1>5, <3>2, <4>1
    <3> QED BY <3>1, <3>2
  <2> QED BY <2>1 DEF Voters
<1>7. OnlyOf(r)'
  <2> SUFFICES ASSUME NEW m \in net'
               PROVE  \/ \E x \in Others(r.proposer) : m = Offer(r, x)
                      \/ \E o \in Others(r.proposer) : \E x \in Others(o) : Got(r, o)' /\ m = Ballot(r, o, x)
    BY DEF OnlyOf
  <2>1. CASE m \in net
    <3>1. \A o \in Others(r.proposer) : o \in Nodes /\ (Got(r, o) => Got(r, o)')
      BY <1>4, <1>5 DEF Others
    <3> QED BY <2>1, <3>1 DEF OnlyOf
  <2>2. CASE m \notin net
    <3>1. PICK x \in Others(n) : m = Ballot(r, n, x)
      BY <2>2
    <3> QED BY <1>4, <3>1
  <2> QED BY <2>1, <2>2
<1> QED BY <1>4, <1>5, <1>6, <1>7

\* A vote that is handled: its receiver has counted it.
LEMMA VoteNet ==
    ASSUME NEW r \in Rounds, OnlyOf(r), NEW o \in Others(r.proposer), NEW n \in Others(o), Got(r, o),
           Ballot(r, o, n) \in net, net' = net \ {Ballot(r, o, n)}
    PROVE  /\ \A x : Got(r, x)' <=> Got(r, x)
           /\ o \in Nodes /\ o \notin Voters(r, n) /\ Voters(r, n)' = Voters(r, n) \cup {o}
           /\ \A x \in Nodes : x # n => Voters(r, x)' = Voters(r, x)
           /\ OnlyOf(r)'
<1>1. \A x : Offer(r, x) \in net' <=> Offer(r, x) \in net
  BY MessagesDiffer
<1>2. \A u, x : Ballot(r, u, x) \in net' <=> Ballot(r, u, x) \in net /\ ~(u = o /\ x = n)
  BY MessagesDiffer
<1>3. \A x : Got(r, x)' <=> Got(r, x)
  BY <1>1 DEF Got
<1>4. o \in Others(n) \ {r.proposer} /\ o \in Nodes
  BY DEF Others
<1>5. o \notin Voters(r, n)
  BY DEF Voters
<1>6. Voters(r, n)' = Voters(r, n) \cup {o}
  BY <1>2, <1>3, <1>4 DEF Voters
<1>7. \A x \in Nodes : x # n => Voters(r, x)' = Voters(r, x)
  BY <1>2, <1>3 DEF Voters
<1>8. OnlyOf(r)'
  BY <1>3 DEF OnlyOf
<1> QED BY <1>3, <1>4, <1>5, <1>6, <1>7, <1>8
-----------------------------------------------------------------------------
\* Where nothing but number 0 is in the table of n, accepting a block leaves it whole.
LEMMA AcceptedTable ==
    ASSUME Sane, NEW n \in Nodes, NEW h, NEW e, e.number = 0,
           e = [number |-> e.number, yes |-> e.yes, no |-> e.no, proposal |-> e.proposal, votes |-> e.votes],
           \A b \in DOMAIN voting[n] : voting[n][b].number = 0, Accept(n, h, 0, e)
    PROVE  /\ Sets(voting[n], h, [e EXCEPT !.proposal = "absent"], voting'[n])
           /\ voting' = [voting EXCEPT ![n] = voting'[n]]
<1> DEFINE e2 == [e EXCEPT !.proposal = "absent"]
           old == voting[n]
           tab == WithEntry(old, h, e2)
           D == {y \in DOMAIN tab : tab[y].number >= 0}
           new == [x \in D |-> tab[x]]
<1>1. Sets(old, h, e2, tab)
  BY EntrySet
<1>2. e2.number = 0
  OBVIOUS
<1>3. voting' = [voting EXCEPT ![n] = new]
  BY DEF Accept
<1>4. DOMAIN voting = Nodes
  BY DEF Sane
<1>5. voting'[n] = new /\ voting' = [voting EXCEPT ![n] = voting'[n]]
  <2> HIDE DEF new
  <2> QED BY <1>3, <1>4
<1>6. \A b \in DOMAIN old : old[b].number = 0
  OBVIOUS
<1> HIDE DEF e2, old, tab
<1>7. D = DOMAIN tab
  <2>1. \A b \in DOMAIN tab : tab[b].number = 0
    BY <1>1, <1>2, <1>6 DEF Sets
  <2>2. 0 >= 0
    BY SMT
  <2> QED BY <2>1, <2>2, Zenon
<1>8. Sets(old, h, e2, new)
  BY <1>1, <1>7 DEF Sets
<1> QED BY <1>5, <1>8 DEF e2, old

\* What becomes of the table of n when the entry of the round's block is set.
LEMMA EntryOfBlock ==
    ASSUME NEW n \in Nodes, NEW r, NEW e, Sets(voting[n], r.block, e, voting'[n]), e.number = 0,
           Older(n, r.final, r.block)
    PROVE  Entry(n, r.block, 0)' = e /\ Older(n, r.final, r.block)'
<1>1. DOMAIN voting'[n] = DOMAIN voting[n] \cup {r.block} /\ voting'[n][r.block] = e
  BY DEF Sets
<1>2. \A b \in DOMAIN voting[n] : b # r.block => voting'[n][b] = voting[n][b]
  BY DEF Sets
<1>3. Entry(n, r.block, 0)' = e
  BY <1>1 DEF Entry
<1>4. Older(n, r.final, r.block)'
  BY <1>1, <1>2 DEF Older
<1> QED BY <1>3, <1>4

\* A replica whom nothing happens to stands where it stood.
LEMMA OthersStand ==
    ASSUME NEW r, NEW n \in Nodes, Stands(r, n), voting'[n] = voting[n], log'[n] = log[n],
           accepted'[n] = accepted[n], Got(r, n)' <=> Got(r, n), Voters(r, n)' = Voters(r, n)
    PROVE  Stands(r, n)'
<1>1. Yes(r, n)' = Yes(r, n)
  BY DEF Yes
<1>2. Done(r, n)' <=> Done(r, n)
  BY <1>1 DEF Done
<1>3. Counted(r, n)' = Counted(r, n)
  BY <1>1, <1>2 DEF Counted
<1>4. Entry(n, r.block, 0)' = Entry(n, r.block, 0)
  BY DEF Entry
<1>5. Older(n, r.final, r.block)' <=> Older(n, r.final, r.block)
  BY DEF Older
<1>6. Holds(n, r)' <=> Holds(n, r)
  BY DEF Holds
<1>7. \A f, b, l : Knows(n, f, b, l)' <=> Knows(n, f, b, l)
  BY DEF Knows
<1> QED BY <1>2, <1>3, <1>4, <1>5, <1>6, <1>7 DEF Stands

\* The block of the round becomes final at n.
LEMMA AcceptsBlock ==
    ASSUME Sane, NEW r \in Rounds, NoRepeats(r.block), NEW n \in Nodes, Older(n, r.final, r.block),
           Knows(n, r.final, r.blocks, r.base), Holds(n, r),
           NEW e, e.number = 0, e.proposal \in {"local", "remote"}, e.proposal = "local" => n = r.proposer,
           e = [number |-> e.number, yes |-> e.yes, no |-> e.no, proposal |-> e.proposal, votes |-> e.votes],
           Accept(n, r.block, 0, e), nonce' = nonce
    PROVE  /\ ~Panics(n, r.block, e)
           /\ poisoned' = poisoned
           /\ Entry(n, r.block, 0)' = [e EXCEPT !.proposal = "absent"] /\ Older(n, r.final, r.block)'
           /\ Knows(n, r.final \o r.block, Append(r.blocks, r.block), r.block)'
           /\ Clean(log'[n], Taken(n)')
           /\ voting' = [voting EXCEPT ![n] = voting'[n]]
           /\ log' = [log EXCEPT ![n] = log'[n]]
           /\ accepted' = [accepted EXCEPT ![n] = accepted'[n]]
<1> DEFINE l == log[n]
           h == r.block
<1>1. /\ Clean(l, Taken(n)) /\ WellFormed(l) /\ NoRepeats(Buffer(l)) /\ h \in Seq(Msg)
      /\ DOMAIN log = Nodes /\ DOMAIN accepted = Nodes
  BY DEF Sane, Clean, Rounds
<1>2. Messages(h) \subseteq Messages(Buffer(l)) /\ (n = r.proposer => Starts(Buffer(l), h))
  BY DEF Holds
<1>3. Finalized(l) = r.final /\ accepted[n] = r.blocks
  BY DEF Knows
<1> HIDE DEF l, h
<1>4. ASSUME e.proposal = "local"
      PROVE  /\ Bytes(h) <= l.bufLen /\ Finalizes(l, h, AcceptedLocal(l, h, 0))
             /\ AcceptedLocal(l, h, 0).number = 0
  BY <1>1, <1>2, <1>4, LocalFinalizes, SMT
<1>5. Finalizes(l, h, AcceptedRemote(l, h, 0)) /\ AcceptedRemote(l, h, 0).number = 0
  BY <1>1, RemoteFinalizes, SMT
<1>6. ~Panics(n, h, e)
  <2>1. ASSUME e.proposal = "local" PROVE ~(Bytes(h) > log[n].bufLen)
    <3>1. Bytes(h) <= l.bufLen /\ l.bufLen \in Nat
      BY <1>1, <1>4, <2>1 DEF WellFormed, LogType
    <3>2. Bytes(h) \in Int
      <4>1. Len(h) \in Nat
        BY <1>1
      <4> QED BY <4>1, Limits, SMT DEF Bytes
    <3> QED BY <3>1, <3>2, SMT DEF l
  <2> QED BY <2>1 DEF Panics
<1> DEFINE v == IF e.proposal = "local" THEN AcceptedLocal(l, h, 0) ELSE AcceptedRemote(l, h, 0)
<1>7. /\ poisoned' = poisoned /\ log' = [log EXCEPT ![n] = v]
      /\ accepted' = [accepted EXCEPT ![n] = Append(@, h)]
  BY <1>6 DEF Accept, l, h
<1>8. Finalizes(l, h, v) /\ v.number = 0
  BY <1>4, <1>5
<1> HIDE DEF v
<1>9. log'[n] = v /\ log' = [log EXCEPT ![n] = log'[n]]
  BY <1>1, <1>7
<1>10. accepted'[n] = Append(r.blocks, h) /\ accepted' = [accepted EXCEPT ![n] = accepted'[n]]
  BY <1>1, <1>3, <1>7
<1>11. /\ Sets(voting[n], h, [e EXCEPT !.proposal = "absent"], voting'[n])
       /\ voting' = [voting EXCEPT ![n] = voting'[n]]
  <2>1. \A b \in DOMAIN voting[n] : voting[n][b].number = 0
    BY DEF Older
  <2> QED BY <2>1, AcceptedTable DEF h
<1>12. Entry(n, h, 0)' = [e EXCEPT !.proposal = "absent"] /\ Older(n, r.final, h)'
  <2> DEFINE e2 == [e EXCEPT !.proposal = "absent"]
  <2>1. e2.number = 0
    OBVIOUS
  <2>2. Sets(voting[n], h, e2, voting'[n])
    BY <1>11
  <2> HIDE DEF e2
  <2>3. Entry(n, h, 0)' = e2 /\ Older(n, r.final, h)'
    BY <2>1, <2>2, EntryOfBlock DEF h
  <2> QED BY <2>3 DEF e2
<1>13. Taken(n)' = Taken(n)
  BY DEF Taken
<1>14. Clean(v, Taken(n))
  BY <1>1, <1>2, <1>8, FinalClean DEF h
<1>15. Knows(n, r.final \o h, Append(r.blocks, h), h)'
  BY <1>3, <1>8, <1>9, <1>10 DEF Finalizes, Knows
<1>16. Clean(log'[n], Taken(n)')
  BY <1>9, <1>13, <1>14
<1> QED BY <1>6, <1>7, <1>9, <1>10, <1>11, <1>12, <1>15, <1>16 DEF h
-----------------------------------------------------------------------------
\* A step that changes nothing but what n keeps.
OnlyAt(n) ==
    /\ voting' = [voting EXCEPT ![n] = voting'[n]]
    /\ log' = [log EXCEPT ![n] = log'[n]]
    /\ accepted' = [accepted EXCEPT ![n] = accepted'[n]]

\* The backers of a block never leave it.
MoreBacked ==
    /\ \A b \in DOMAIN backers : b \in DOMAIN backers' /\ backers[b] \subseteq backers'[b]
    /\ \A b \in DOMAIN backers' : backers'[b] \subseteq Nodes

LEMMA OnlyAtFacts ==
    ASSUME Sane, NEW n \in Nodes, OnlyAt(n)
    PROVE  /\ \A o \in Nodes : o # n => voting'[o] = voting[o] /\ log'[o] = log[o] /\ accepted'[o] = accepted[o]
           /\ DOMAIN voting' = Nodes /\ DOMAIN log' = Nodes /\ DOMAIN accepted' = Nodes
           /\ voting' = [o \in Nodes |-> voting'[o]] /\ accepted' = [o \in Nodes |-> accepted'[o]]
           /\ log' = [o \in Nodes |-> log'[o]]
<1>1. DOMAIN voting = Nodes /\ DOMAIN log = Nodes /\ DOMAIN accepted = Nodes
  BY DEF Sane
<1>2. /\ DOMAIN voting' = Nodes /\ voting' = [o \in Nodes |-> voting'[o]]
      /\ \A o \in Nodes : o # n => voting'[o] = voting[o]
  BY <1>1 DEF OnlyAt
<1>3. /\ DOMAIN log' = Nodes /\ log' = [o \in Nodes |-> log'[o]]
      /\ \A o \in Nodes : o # n => log'[o] = log[o]
  BY <1>1 DEF OnlyAt
<1>4. /\ DOMAIN accepted' = Nodes /\ accepted' = [o \in Nodes |-> accepted'[o]]
      /\ \A o \in Nodes : o # n => accepted'[o] = accepted[o]
  BY <1>1 DEF OnlyAt
<1> QED BY <1>2, <1>3, <1>4

LEMMA SaneAfter ==
    ASSUME Sane, NEW n \in Nodes, OnlyAt(n), Clean(log'[n], Taken(n)'), poisoned' = poisoned,
           restarts' \in Nat, nonce' \in [Nodes -> [Sender -> Nat]],
           \A o \in Nodes : o # n => nonce'[o] = nonce[o], MoreBacked
    PROVE  Sane'
<1>1. \A o \in Nodes : o # n => log'[o] = log[o]
  BY OnlyAtFacts
<1>2. /\ voting' = [o \in Nodes |-> voting'[o]] /\ accepted' = [o \in Nodes |-> accepted'[o]]
      /\ log' = [o \in Nodes |-> log'[o]]
  BY OnlyAtFacts
<1>3. \A o \in Nodes : o # n => Taken(o)' = Taken(o)
  BY DEF Taken
<1>4. \A o \in Nodes : Clean(log'[o], Taken(o)')
  BY <1>1, <1>3 DEF Sane
<1>5. log' \in [Nodes -> LogType]
  <2>1. \A o \in Nodes : log'[o] \in LogType
    BY <1>4 DEF Clean, WellFormed
  <2> QED BY <1>2, <2>1
<1>6. poisoned' = {}
  BY DEF Sane
<1> QED BY <1>2, <1>4, <1>5, <1>6 DEF Sane, MoreBacked

LEMMA InRoundAfter ==
    ASSUME Sane, NEW r \in Rounds, InRound(r), NEW n \in Nodes, OnlyAt(n), OnlyOf(r)', Stands(r, n)',
           \A x \in Nodes : x # n => (Got(r, x)' <=> Got(r, x)) /\ Voters(r, x)' = Voters(r, x),
           BackedBy(r.block, {x \in Nodes : Got(r, x)})'
    PROVE  InRound(r)'
<1>1. ASSUME NEW x \in Nodes PROVE Stands(r, x)'
  <2>1. CASE x = n
    BY <2>1
  <2>2. CASE x # n
    <3>1. voting'[x] = voting[x] /\ log'[x] = log[x] /\ accepted'[x] = accepted[x]
      BY <2>2, OnlyAtFacts
    <3>2. (Got(r, x)' <=> Got(r, x)) /\ Voters(r, x)' = Voters(r, x)
      BY <2>2
    <3>3. Stands(r, x)
      BY DEF InRound
    <3> QED BY <3>1, <3>2, <3>3, OthersStand
  <2> QED BY <2>1, <2>2
<1> QED BY <1>1 DEF InRound

LEMMA MoreAreBacked ==
    ASSUME Sane, NEW h, NEW ns \in SUBSET Nodes, backers' = Backed(h, ns)
    PROVE  MoreBacked /\ h \in DOMAIN backers' /\ ns \subseteq backers'[h]
<1>1. /\ DOMAIN backers' = DOMAIN backers \cup {h}
      /\ \A b \in DOMAIN backers \cup {h} :
            backers'[b] = (IF b \in DOMAIN backers THEN backers[b] ELSE {}) \cup (IF b = h THEN ns ELSE {})
  BY DEF Backed
<1>2. \A b \in DOMAIN backers : backers[b] \subseteq Nodes
  BY DEF Sane
<1> QED BY <1>1, <1>2 DEF MoreBacked

LEMMA HistoryAfter ==
    ASSUME Sane, NEW r, History(r), MoreBacked
    PROVE  History(r)'
<1>1. ASSUME NEW b, HasQuorum(b) PROVE HasQuorum(b)'
  <2>1. b \in DOMAIN backers /\ Cardinality(backers[b]) > RF \div 2
    BY <1>1 DEF HasQuorum
  <2>2. b \in DOMAIN backers' /\ backers[b] \subseteq backers'[b] /\ backers'[b] \subseteq Nodes
    BY <2>1 DEF MoreBacked
  <2>3. /\ Cardinality(backers[b]) <= Cardinality(backers'[b])
        /\ Cardinality(backers[b]) \in Nat /\ Cardinality(backers'[b]) \in Nat /\ RF \in Nat
    BY <2>2, GroupFacts
  <2>4. Cardinality(backers'[b]) > RF \div 2
    BY <2>1, <2>3, SMT
  <2> QED BY <2>2, <2>4 DEF HasQuorum
<1> QED BY <1>1 DEF History

\* A replica votes for the block it gets, and counts the proposer's vote and its own.
LEMMA ProposalInRound ==
    ASSUME Sane, NEW r \in Rounds, History(r), InRound(r), NEW m \in net, Proposal(m)
    PROVE  Sane' /\ History(r)' /\ InRound(r)'
<1>1. PICK n \in Others(r.proposer) : m = Offer(r, n)
  <2>1. m.type = "block"
    BY DEF Proposal
  <2>2. OnlyOf(r)
    BY DEF InRound
  <2>3. ASSUME NEW o, NEW x PROVE m # Ballot(r, o, x)
    <3>1. Ballot(r, o, x).type = "vote"
      BY DEF Ballot, VoteMsg
    <3> QED BY <2>1, <3>1
  <2> QED BY <2>2, <2>3 DEF OnlyOf
<1> DEFINE h == r.block
           p == r.proposer
           V == Voters(r, n)
           e0 == Entry(n, h, 0)
           in == TakenIn(n, m, e0)
           ok == in /\ e0.number = 0 /\ AllPresent(log[n], h)
           e == [e0 EXCEPT !.yes = @ + 1 + Count(ok), !.no = @ + Count(~ok),
                           !.proposal = IF in THEN "remote" ELSE @]
<1>2. /\ m.type = "block" /\ m.to = n /\ m.from = p /\ m.number = 0 /\ m.block = h /\ m.base = r.base
      /\ n \in Nodes /\ n # p /\ p \in Nodes /\ h \in Seq(Msg) /\ p \notin V
  BY <1>1, OfferFacts DEF Others, Rounds, Voters
<1>3. /\ (\/ /\ Accepts(e) /\ Accept(n, h, 0, e)
          \/ /\ Rejects(e)
             /\ voting' = [voting EXCEPT ![n] = Without(@, h)] /\ UNCHANGED <<log, accepted, poisoned>>
          \/ /\ ~Accepts(e) /\ ~Rejects(e)
             /\ voting' = [voting EXCEPT ![n] = WithEntry(@, h, e)] /\ UNCHANGED <<log, accepted, poisoned>>)
      /\ net' = (net \ {m}) \cup IF Accepts(e) /\ Panics(n, h, e) THEN {}
                                 ELSE {VoteMsg(n, o, 0, h, ok) : o \in Others(n)}
      /\ backers' = Backed(h, IF ok THEN {n} ELSE {})
      /\ nonce' = nonce /\ restarts' = restarts
  BY <1>2 DEF Proposal
<1>4. OnlyOf(r) /\ Stands(r, n) /\ NoRepeats(h) /\ Finalizer(r.base, ReceivedLen(h)) = p
  BY <1>2 DEF InRound
<1>5. ~Got(r, n) /\ ~Done(r, n)
  BY <1>1, <1>2 DEF Got, Done
<1>6. V \in SUBSET Nodes /\ Cardinality(V) \in Nat /\ RF \in Nat
  <2>1. V \in SUBSET Nodes
    BY DEF Voters, Others
  <2> QED BY <2>1, GroupFacts
<1>7. e0 = [number |-> 0, yes |-> Cardinality(V), no |-> 0, proposal |-> "absent", votes |-> V]
  <2>1. Yes(r, n) = Cardinality(V)
    BY <1>5, <1>6, SMT DEF Yes
  <2> QED BY <1>4, <1>5, <2>1 DEF Stands, Counted
<1>8. Knows(n, r.final, r.blocks, r.base) /\ Holds(n, r) /\ Older(n, r.final, h)
  BY <1>4, <1>5 DEF Stands
<1> HIDE DEF V, e0
<1>9. in
  BY <1>2, <1>4, <1>7, <1>8 DEF TakenIn, Knows
<1>10. ok
  <2>1. AllPresent(log[n], h)
    <3>1. WellFormed(log[n]) /\ NoRepeats(Buffer(log[n]))
      BY <1>2 DEF Sane, Clean
    <3>2. Messages(h) \subseteq Messages(Buffer(log[n]))
      BY <1>8 DEF Holds
    <3> HIDE DEF h
    <3> QED BY <3>1, <3>2, PresentIsSeen
  <2> QED BY <1>7, <1>9, <2>1
<1> HIDE DEF in, ok
<1>11. e = [number |-> 0, yes |-> Cardinality(V) + 2, no |-> 0, proposal |-> "remote", votes |-> V]
  <2>1. Count(ok) = 1 /\ Count(~ok) = 0
    BY <1>10 DEF Count
  <2>2. Cardinality(V) + 1 + 1 = Cardinality(V) + 2 /\ 0 + 0 = 0
    BY <1>6, SMT
  <2> DEFINE y == Cardinality(V) + 1 + Count(ok)
             z == 0 + Count(~ok)
  <2>3. y = Cardinality(V) + 2 /\ z = 0
    BY <2>1, <2>2
  <2>4. e = [e0 EXCEPT !.yes = y, !.no = z, !.proposal = "remote"]
    BY <1>7, <1>9
  <2> HIDE DEF y, z, e
  <2>5. e = [number |-> 0, yes |-> y, no |-> z, proposal |-> "remote", votes |-> V]
    BY <1>7, <2>4
  <2> QED BY <2>3, <2>5
<1> HIDE DEF e
<1>12. ~Rejects(e) /\ ~Panics(n, h, e)
  <2>1. ~(0 > RF \div 2)
    BY <1>6, SMT
  <2> QED BY <1>11, <2>1 DEF Rejects, Panics
<1>13. net' = (net \ {Offer(r, n)}) \cup {Ballot(r, n, o) : o \in Others(n)}
  <2>1. \A o : VoteMsg(n, o, 0, h, ok) = Ballot(r, n, o)
    BY <1>10 DEF Ballot
  <2> QED BY <1>1, <1>3, <1>12, <2>1
<1>14. /\ Got(r, n)' /\ OnlyOf(r)'
       /\ \A x \in Nodes : x # n => (Got(r, x)' <=> Got(r, x))
       /\ \A x \in Nodes : Voters(r, x)' = Voters(r, x)
  BY <1>1, <1>4, <1>13, ProposalNet
<1>15. MoreBacked /\ BackedBy(h, {x \in Nodes : Got(r, x)})'
  <2>1. backers' = Backed(h, {n})
    BY <1>3, <1>10
  <2>2. MoreBacked /\ h \in DOMAIN backers' /\ n \in backers'[h]
    <3> DEFINE ns == {n}
    <3>1. ns \in SUBSET Nodes /\ backers' = Backed(h, ns) /\ n \in ns
      BY <1>2, <2>1
    <3> HIDE DEF ns
    <3> QED BY <3>1, MoreAreBacked
  <2>3. h \in DOMAIN backers /\ {x \in Nodes : Got(r, x)} \subseteq backers[h]
    BY DEF InRound, BackedBy
  <2>4. backers[h] \subseteq backers'[h]
    BY <2>2, <2>3 DEF MoreBacked
  <2>5. {x \in Nodes : Got(r, x)'} \subseteq backers'[h]
    BY <1>14, <2>2, <2>3, <2>4
  <2> QED BY <2>2, <2>5 DEF BackedBy
<1>16. Yes(r, n)' = Cardinality(V) + 2 /\ Voters(r, n)' = V
  BY <1>2, <1>14 DEF Yes, V
<1>17. Done(r, n)' <=> Accepts(e)
  BY <1>11, <1>14, <1>16 DEF Done, Accepts
<1>18. /\ OnlyAt(n) /\ Clean(log'[n], Taken(n)') /\ Stands(r, n)' /\ poisoned' = poisoned
  <2>1. CASE Accepts(e)
    <3>1. Accept(n, h, 0, e)
      BY <1>3, <1>12, <2>1
    <3>2. /\ e.number = 0 /\ e.proposal = "remote"
          /\ e = [number |-> e.number, yes |-> e.yes, no |-> e.no, proposal |-> e.proposal, votes |-> e.votes]
      BY <1>11
    <3>3. /\ poisoned' = poisoned
          /\ Entry(n, r.block, 0)' = [e EXCEPT !.proposal = "absent"] /\ Older(n, r.final, r.block)'
          /\ Knows(n, r.final \o r.block, Append(r.blocks, r.block), r.block)'
          /\ Clean(log'[n], Taken(n)') /\ OnlyAt(n)
      BY <1>2, <1>3, <1>4, <1>8, <3>1, <3>2, AcceptsBlock DEF OnlyAt
    <3>4. Counted(r, n)' = [e EXCEPT !.proposal = "absent"]
      BY <1>11, <1>14, <1>16, <1>17, <2>1 DEF Counted
    <3> QED BY <1>17, <2>1, <3>3, <3>4 DEF Stands
  <2>2. CASE ~Accepts(e)
    <3>1. voting' = [voting EXCEPT ![n] = WithEntry(@, h, e)] /\ UNCHANGED <<log, accepted, poisoned>>
      BY <1>3, <1>12, <2>2
    <3>2. /\ DOMAIN voting = Nodes /\ DOMAIN log = Nodes /\ DOMAIN accepted = Nodes
          /\ log = [x \in Nodes |-> log[x]] /\ accepted = [x \in Nodes |-> accepted[x]]
          /\ Clean(log[n], Taken(n))
      BY <1>2 DEF Sane
    <3>3. voting'[n] = WithEntry(voting[n], h, e) /\ OnlyAt(n)
      BY <1>2, <3>1, <3>2 DEF OnlyAt
    <3>4. Taken(n)' = Taken(n)
      BY <1>3 DEF Taken
    <3>5. Sets(voting[n], h, e, voting'[n])
      BY <3>3, EntrySet
    <3>6. Entry(n, h, 0)' = e /\ Older(n, r.final, h)'
      BY <1>2, <1>8, <1>11, <3>5, EntryOfBlock
    <3>7. Counted(r, n)' = e
      BY <1>2, <1>11, <1>14, <1>16, <1>17, <2>2 DEF Counted
    <3>8. Knows(n, r.final, r.blocks, r.base)' /\ Holds(n, r)'
      BY <1>8, <3>1 DEF Knows, Holds
    <3>9. Stands(r, n)'
      BY <1>17, <2>2, <3>6, <3>7, <3>8 DEF Stands
    <3> QED BY <3>1, <3>2, <3>3, <3>4, <3>9
  <2> QED BY <2>1, <2>2
<1>19. InRound(r)'
  BY <1>2, <1>14, <1>15, <1>18, InRoundAfter
<1>20. Sane'
  <2>1. restarts' \in Nat /\ nonce' \in [Nodes -> [Sender -> Nat]]
    BY <1>3 DEF Sane
  <2> QED BY <1>2, <1>3, <1>15, <1>18, <2>1, SaneAfter
<1> QED BY <1>15, <1>19, <1>20, HistoryAfter
-----------------------------------------------------------------------------
\* A vote is counted, and makes the block final where it completes the majority.
LEMMA VoteInRound ==
    ASSUME Sane, NEW r \in Rounds, History(r), InRound(r), NEW m \in net, Vote(m)
    PROVE  Sane' /\ History(r)' /\ InRound(r)'
<1>1. PICK o \in Others(r.proposer) : \E n \in Others(o) : Got(r, o) /\ m = Ballot(r, o, n)
  <2>1. m.type = "vote"
    BY DEF Vote
  <2>2. OnlyOf(r)
    BY DEF InRound
  <2>3. ASSUME NEW x PROVE m # Offer(r, x)
    <3>1. Offer(r, x).type = "block"
      BY DEF Offer, BlockMsg
    <3> QED BY <2>1, <3>1
  <2> QED BY <2>2, <2>3 DEF OnlyOf
<1>2. PICK n \in Others(o) : Got(r, o) /\ m = Ballot(r, o, n)
  BY <1>1
<1> DEFINE h == r.block
           p == r.proposer
           V == Voters(r, n)
           y == Yes(r, n)
           e0 == Entry(n, h, 0)
           e == [e0 EXCEPT !.votes = @ \cup {o}, !.yes = @ + Count(TRUE), !.no = @ + Count(~TRUE)]
<1>3. /\ m.type = "vote" /\ m.to = n /\ m.from = o /\ m.number = 0 /\ m.block = h /\ m.agrees = TRUE
  BY <1>2 DEF Ballot, VoteMsg
<1>4. n \in Nodes /\ o \in Nodes /\ o # n /\ o # p /\ p \in Nodes /\ h \in Seq(Msg)
  BY <1>1, <1>2 DEF Others, Rounds
<1>5. /\ net' = net \ {Ballot(r, o, n)}
      /\ \/ /\ e0.number # 0 \/ o \in e0.votes
            /\ UNCHANGED <<log, voting, accepted, poisoned>>
         \/ /\ e0.number = 0 /\ o \notin e0.votes
            /\ Accepts(e)
            /\ Accept(n, h, 0, e)
         \/ /\ e0.number = 0 /\ o \notin e0.votes
            /\ ~Accepts(e)
            /\ voting' = [voting EXCEPT ![n] = WithEntry(@, h, e)]
            /\ UNCHANGED <<log, accepted, poisoned>>
      /\ nonce' = nonce /\ backers' = backers /\ restarts' = restarts
  BY <1>2, <1>3 DEF Vote
<1>6. OnlyOf(r) /\ Stands(r, n) /\ NoRepeats(h) /\ BackedBy(h, {x \in Nodes : Got(r, x)})
  BY <1>4 DEF InRound
<1>7. /\ \A x : Got(r, x)' <=> Got(r, x)
      /\ o \notin V /\ Voters(r, n)' = V \cup {o}
      /\ \A x \in Nodes : x # n => Voters(r, x)' = Voters(r, x)
      /\ OnlyOf(r)'
  BY <1>1, <1>2, <1>5, <1>6, VoteNet
<1>8. V \in SUBSET Nodes /\ Cardinality(V) \in Nat /\ RF \in Nat
  <2>1. V \in SUBSET Nodes
    BY DEF Voters, Others
  <2> QED BY <2>1, GroupFacts
<1>9. y \in Nat /\ Yes(r, n)' = y + 1
  <2>1. Cardinality(V \cup {o}) = Cardinality(V) + 1
    BY <1>4, <1>7, <1>8, GroupFacts
  <2> DEFINE k == IF ~Got(r, n) THEN 0 ELSE IF n = p THEN 1 ELSE 2
  <2>2. Yes(r, n)' = Cardinality(V \cup {o}) + k /\ y = Cardinality(V) + k
    BY <1>7 DEF Yes
  <2>3. k \in Nat
    BY SMT
  <2> HIDE DEF k, y, V
  <2> QED BY <1>8, <2>1, <2>2, <2>3, SMT
<1>10. e0 = [number |-> 0, yes |-> y, no |-> 0,
             proposal |-> IF ~Got(r, n) \/ Done(r, n) THEN "absent" ELSE IF n = p THEN "local" ELSE "remote",
             votes |-> V]
  BY <1>6 DEF Stands, Counted
<1> HIDE DEF V, e0
<1> DEFINE prop == e0.proposal
           W == V \cup {o}
<1>11. prop = IF ~Got(r, n) \/ Done(r, n) THEN "absent" ELSE IF n = p THEN "local" ELSE "remote"
  BY <1>10
<1>12. e = [number |-> 0, yes |-> y + 1, no |-> 0, proposal |-> prop, votes |-> W]
  <2>1. Count(TRUE) = 1 /\ Count(~TRUE) = 0
    BY DEF Count
  <2>2. e0 = [number |-> 0, yes |-> y, no |-> 0, proposal |-> prop, votes |-> V]
    BY <1>10
  <2> DEFINE z == 0 + Count(~TRUE)
             a == y + Count(TRUE)
  <2>3. z = 0 /\ a = y + 1
    <3>1. z = 0 + 0 /\ a = y + 1
      BY <2>1, Zenon
    <3>2. 0 + 0 = 0
      BY SMT
    <3> QED BY <3>1, <3>2, Zenon
  <2> HIDE DEF y, prop
  <2>4. e = [e0 EXCEPT !.votes = W, !.yes = a, !.no = z]
    BY <2>2
  <2> HIDE DEF z, a, W, e
  <2>5. e = [number |-> 0, yes |-> a, no |-> z, proposal |-> prop, votes |-> W]
    BY <2>2, <2>4
  <2> QED BY <2>3, <2>5
<1> HIDE DEF e, y, prop, W
<1>13. e0.number = 0 /\ o \notin e0.votes
  BY <1>7, <1>10
<1>14. Accepts(e) <=> y + 1 > RF \div 2 /\ Got(r, n) /\ ~Done(r, n)
  BY <1>11, <1>12 DEF Accepts
<1>15. Done(r, n)' <=> Got(r, n) /\ y + 1 > RF \div 2
  BY <1>7, <1>9 DEF Done
<1>16. Done(r, n) => Done(r, n)'
  <2>1. ASSUME y > RF \div 2 PROVE y + 1 > RF \div 2
    BY <1>8, <1>9, <2>1, SMT
  <2> QED BY <1>15, <2>1 DEF Done, y
<1>17. MoreBacked /\ BackedBy(h, {x \in Nodes : Got(r, x)})'
  <2>1. MoreBacked
    BY <1>5 DEF MoreBacked, Sane
  <2>2. BackedBy(h, {x \in Nodes : Got(r, x)})'
    BY <1>5, <1>6, <1>7 DEF BackedBy
  <2> QED BY <2>1, <2>2
<1>18. Voters(r, n)' = W /\ Yes(r, n)' = y + 1 /\ (Got(r, n)' <=> Got(r, n))
  BY <1>7, <1>9 DEF W
<1>19. /\ OnlyAt(n) /\ Clean(log'[n], Taken(n)') /\ Stands(r, n)' /\ poisoned' = poisoned
  <2>1. CASE Accepts(e)
    <3>1. Accept(n, h, 0, e)
      BY <1>5, <1>13, <2>1
    <3>2. /\ e.number = 0 /\ e.proposal \in {"local", "remote"} /\ (e.proposal = "local" => n = p)
          /\ e = [number |-> e.number, yes |-> e.yes, no |-> e.no, proposal |-> e.proposal, votes |-> e.votes]
      BY <1>11, <1>12, <1>14, <2>1
    <3>3. Knows(n, r.final, r.blocks, r.base) /\ Holds(n, r) /\ Older(n, r.final, h)
      BY <1>6, <1>14, <2>1 DEF Stands
    <3>4. /\ poisoned' = poisoned
          /\ Entry(n, r.block, 0)' = [e EXCEPT !.proposal = "absent"] /\ Older(n, r.final, r.block)'
          /\ Knows(n, r.final \o r.block, Append(r.blocks, r.block), r.block)'
          /\ Clean(log'[n], Taken(n)') /\ OnlyAt(n)
      BY <1>4, <1>5, <1>6, <3>1, <3>2, <3>3, AcceptsBlock DEF OnlyAt
    <3>5. Done(r, n)'
      BY <1>14, <1>15, <2>1
    <3>6. Counted(r, n)' = [e EXCEPT !.proposal = "absent"]
      BY <1>12, <1>18, <3>5 DEF Counted
    <3> QED BY <3>4, <3>5, <3>6 DEF Stands
  <2>2. CASE ~Accepts(e)
    <3>1. voting' = [voting EXCEPT ![n] = WithEntry(@, h, e)] /\ UNCHANGED <<log, accepted, poisoned>>
      BY <1>5, <1>13, <2>2
    <3>2. /\ DOMAIN voting = Nodes /\ log = [x \in Nodes |-> log[x]] /\ accepted = [x \in Nodes |-> accepted[x]]
          /\ Clean(log[n], Taken(n))
      BY <1>4 DEF Sane
    <3>3. voting'[n] = WithEntry(voting[n], h, e) /\ OnlyAt(n)
      BY <1>4, <3>1, <3>2 DEF OnlyAt
    <3>4. Taken(n)' = Taken(n)
      BY <1>5 DEF Taken
    <3>5. Sets(voting[n], h, e, voting'[n])
      BY <3>3, EntrySet
    <3>6. Older(n, r.final, h)
      BY <1>6 DEF Stands
    <3>7. Entry(n, h, 0)' = e /\ Older(n, r.final, h)'
      BY <1>4, <1>12, <3>5, <3>6, EntryOfBlock
    <3>8. Done(r, n)' <=> Done(r, n)
      BY <1>14, <1>15, <1>16, <2>2
    <3>9. Counted(r, n)' = e
      BY <1>11, <1>12, <1>18, <3>8 DEF Counted
    <3>10. /\ \A f, b, l : Knows(n, f, b, l)' <=> Knows(n, f, b, l)
           /\ Holds(n, r)' <=> Holds(n, r)
      BY <3>1 DEF Knows, Holds
    <3>11. Stands(r, n)'
      BY <1>6, <3>7, <3>8, <3>9, <3>10 DEF Stands
    <3> QED BY <3>1, <3>2, <3>3, <3>4, <3>11
  <2> QED BY <2>1, <2>2
<1>20. InRound(r)'
  BY <1>4, <1>7, <1>17, <1>19, InRoundAfter
<1>21. Sane'
  <2>1. restarts' \in Nat /\ nonce' \in [Nodes -> [Sender -> Nat]]
    BY <1>5 DEF Sane
  <2> QED BY <1>4, <1>5, <1>17, <1>19, <2>1, SaneAfter
<1> QED BY <1>17, <1>20, <1>21, HistoryAfter
-----------------------------------------------------------------------------
\* Once nothing is in flight every replica has counted all votes, the round is over, and
\* the whole group backed its block.
LEMMA RoundCloses ==
    ASSUME Orderly, Sane, NEW r \in Rounds, History(r), InRound(r), net = {}
    PROVE  \E r2 \in Rounds : History(r2) /\ Settled(r2)
<1> DEFINE h == r.block
           p == r.proposer
           final == r.final \o h
           blocks == Append(r.blocks, h)
           r2 == [final |-> final, blocks |-> blocks, base |-> h, block |-> h, proposer |-> p]
<1>1. h \in Seq(Msg) /\ p \in Nodes /\ r.final \in Seq(Msg) /\ r.blocks \in Seq(Seq(Msg))
  BY DEF Rounds
<1>2. \A n \in Nodes : Got(r, n)
  BY DEF Got
<1>3. ASSUME NEW n \in Nodes
      PROVE  Voters(r, n) = Nodes \ {n, p}
  BY <1>2 DEF Voters, Others
<1>4. RF \in Nat /\ RF + 1 > RF \div 2
  BY GroupFacts, SMT
<1>5. ASSUME NEW n \in Nodes
      PROVE  Done(r, n)
  <2>1. CASE n = p
    <3>1. Cardinality(Nodes \ {n, p}) = RF
      <4>1. Nodes \ {n, p} = Nodes \ {p}
        BY <2>1
      <4> QED BY <1>1, <4>1, GroupFacts
    <3>2. Yes(r, n) = Cardinality(Nodes \ {n, p}) + 1
      BY <1>2, <1>3, <2>1 DEF Yes
    <3> QED BY <1>2, <1>4, <3>1, <3>2 DEF Done
  <2>2. CASE n # p
    <3>1. Cardinality(Nodes \ {n, p}) = RF - 1
      BY <1>1, <2>2, GroupFacts
    <3>2. Yes(r, n) = Cardinality(Nodes \ {n, p}) + 2
      BY <1>2, <1>3, <2>2 DEF Yes
    <3>3. RF - 1 + 2 = RF + 1
      BY <1>4, SMT
    <3> QED BY <1>2, <1>4, <3>1, <3>2, <3>3 DEF Done
  <2> QED BY <2>1, <2>2
<1>6. \A n \in Nodes : Knows(n, final, blocks, h) /\ Older(n, r.final, h)
  BY <1>5 DEF InRound, Stands
<1>7. final \in Seq(Msg) /\ Messages(final) = Messages(r.final) \cup Messages(h)
  BY <1>1, SequenceFacts, ConcatFacts
<1>8. blocks \in Seq(Seq(Msg)) /\ FlattenSeq(blocks) = final
  <2>1. FlattenSeq(blocks) = FlattenSeq(r.blocks) \o h
    <3> DEFINE b == r.blocks
    <3> HIDE DEF h
    <3>1. b \in Seq(Seq(Msg)) /\ h \in Seq(Msg)
      BY <1>1
    <3> HIDE DEF b
    <3>2. FlattenSeq(Append(b, h)) = FlattenSeq(b) \o h
      BY <3>1, FlattenAppend
    <3> QED BY <3>2 DEF b
  <2>2. blocks \in Seq(Seq(Msg))
    <3> DEFINE T == Seq(Msg)
               b == r.blocks
    <3>1. b \in Seq(T) /\ h \in T
      BY <1>1
    <3> HIDE DEF T, b, h
    <3>2. Append(b, h) \in Seq(T)
      BY <3>1
    <3> QED BY <3>2 DEF T, b
  <2> QED BY <2>1, <2>2 DEF History
<1>9. \A n \in Nodes : Older(n, final, <<>>)
  BY <1>6, <1>7 DEF Older
<1>10. r2 \in Rounds
  <2> HIDE DEF final, blocks, h, p
  <2> QED BY <1>1, <1>7, <1>8 DEF Rounds
<1>11. r2.final = final /\ r2.blocks = blocks /\ r2.base = h
  <2> HIDE DEF final, blocks, h, p
  <2> QED OBVIOUS
<1> HIDE DEF final, r2
<1>12. Settled(r2)
  BY <1>6, <1>9, <1>11 DEF Settled
<1>13. HasQuorum(h)
  <2>1. h \in DOMAIN backers /\ Nodes \subseteq backers[h]
    BY <1>2 DEF InRound, BackedBy
  <2>2. backers[h] = Nodes
    BY <2>1 DEF Sane
  <2>3. Cardinality(Nodes) = RF + 1
    BY GroupFacts
  <2> QED BY <1>4, <2>1, <2>2, <2>3 DEF HasQuorum
<1>14. \A i \in 1 .. Len(blocks) : HasQuorum(blocks[i])
  <2> DEFINE b == r.blocks
             T == Seq(Msg)
  <2>1. \A i \in 1 .. Len(b) : HasQuorum(b[i])
    BY DEF History
  <2>2. b \in Seq(T) /\ h \in T
    BY <1>1
  <2> HIDE DEF b, T, h
  <2>3. /\ Len(Append(b, h)) = Len(b) + 1 /\ Append(b, h)[Len(b) + 1] = h /\ Len(b) \in Nat
        /\ \A i \in 1 .. Len(b) : Append(b, h)[i] = b[i]
    BY <2>2
  <2>4. \A i \in 1 .. Len(b) + 1 : i \in 1 .. Len(b) \/ i = Len(b) + 1
    BY <2>3, SMT
  <2>5. \A i \in 1 .. Len(Append(b, h)) : HasQuorum(Append(b, h)[i])
    BY <1>13, <2>1, <2>3, <2>4
  <2> QED BY <2>5 DEF b
<1> HIDE DEF blocks
<1>15. History(r2)
  BY <1>8, <1>11, <1>14 DEF History
<1> QED BY <1>10, <1>12, <1>15

\* Nothing has been sent.
LEMMA RoundsInit ==
    ASSUME Init
    PROVE  RoundsInv
<1>1. PICK p : p \in Nodes
  <2>1. Cardinality(Nodes) # 0 /\ Cardinality({}) = 0
    BY GroupFacts, SMT
  <2> QED BY <2>1
<1> DEFINE r == [final |-> <<>>, blocks |-> <<>>, base |-> <<>>, block |-> <<>>, proposer |-> p]
<1>2. r \in Rounds
  <2>1. <<>> \in Seq(Msg) /\ <<>> \in Seq(Seq(Msg))
    OBVIOUS
  <2> QED BY <1>1, <2>1 DEF Rounds
<1>3. WellFormed(EmptyLog) /\ EmptyLog \in LogType
  BY <1>1, BlocksInit DEF BlocksInv, LogsFit, Init
<1>4. Finalized(EmptyLog) = <<>> /\ Buffer(EmptyLog) = <<>> /\ EmptyLog.number = 0 /\ EmptyLog.latest = <<>>
  <2>1. EmptyLog.file = <<>> \o <<>> /\ EmptyLog.bufLen = 0 /\ EmptyLog.number = 0 /\ EmptyLog.latest = <<>>
    BY DEF EmptyLog
  <2>2. MsgLen * Len(<<>>) = 0
    BY Limits, SMT
  <2> DEFINE e == <<>>
  <2>3. e \in Seq(Msg) /\ EmptyLog.file = e \o e /\ EmptyLog.bufLen = MsgLen * Len(e)
    BY <2>1, <2>2
  <2> HIDE DEF e
  <2>4. Finalized(EmptyLog) = e /\ Buffer(EmptyLog) = e
    BY <1>3, <2>3, PartsOf
  <2> QED BY <2>1, <2>4 DEF e
<1>5. \A n \in Nodes : Taken(n) = {}
  <2> SUFFICES ASSUME NEW n \in Nodes, NEW msg \in Msg, msg[2] <= nonce[n][msg[1]] PROVE FALSE
    BY DEF Taken
  <2>1. msg[1] \in Sender /\ msg[2] \in Nat \ {0}
    BY MsgAssumption
  <2>2. nonce[n][msg[1]] = 0
    BY <2>1 DEF Init
  <2> QED BY <2>1, <2>2, SMT
<1>6. Messages(<<>>) = {} /\ NoRepeats(<<>>)
  BY DEF Messages, NoRepeats
<1>7. \A n \in Nodes : Clean(log[n], Taken(n))
  BY <1>3, <1>4, <1>5, <1>6 DEF Clean, Init
<1>8. Sane
  <2>1. log \in [Nodes -> LogType] /\ nonce \in [Nodes -> [Sender -> Nat]] /\ restarts \in Nat
    BY <1>3 DEF Init
  <2> QED BY <1>7, <2>1 DEF Init, Sane
<1>9. FlattenSeq(<<>>) = <<>>
  BY DEF FlattenSeq
<1>10. \A i \in 1 .. Len(<<>>) : FALSE
  BY SMT
<1>11. r.final = <<>> /\ r.blocks = <<>> /\ r.base = <<>>
  OBVIOUS
<1> HIDE DEF r
<1>12. History(r)
  BY <1>9, <1>10, <1>11 DEF History
<1>13. Settled(r)
  BY <1>4, <1>11 DEF Settled, Knows, Older, Init
<1> QED BY <1>2, <1>8, <1>12, <1>13 DEF RoundsInv

\* A replica that restarts between two rounds loses nothing it needs.
LEMMA RestartInRounds ==
    ASSUME Sane, NEW r \in Rounds, History(r), Settled(r), NEW n \in Nodes, Restart(n)
    PROVE  Sane' /\ History(r)' /\ Settled(r)'
<1> DEFINE l == log[n]
           v == [l EXCEPT !.discarded = 0]
<1>1. Clean(l, Taken(n)) /\ WellFormed(l) /\ l \in LogType
  BY DEF Sane, Clean, WellFormed
<1>2. /\ v \in LogType /\ v.file = l.file /\ v.bufLen = l.bufLen
      /\ v.checkpoint = l.checkpoint /\ v.number = l.number /\ v.latest = l.latest
  BY <1>1 DEF LogType
<1>3. /\ log' = [log EXCEPT ![n] = v] /\ voting' = [voting EXCEPT ![n] = [h \in {} |-> NoVotes(0)]]
      /\ restarts' = restarts + 1 /\ poisoned' = poisoned \ {n}
      /\ nonce' = nonce /\ net' = net /\ backers' = backers /\ accepted' = accepted
  BY DEF Restart
<1> HIDE DEF l, v
<1>4. WellFormed(v)
  <2>1. PICK k \in Nat, c \in Nat : Fits(l, k, c)
    BY <1>1 DEF WellFormed
  <2>2. Fits(v, k, c)
    BY <1>2, <2>1 DEF Fits
  <2> QED BY <1>2, <2>2 DEF WellFormed
<1>5. Finalized(v) = Finalized(l) /\ Buffer(v) = Buffer(l)
  BY <1>2 DEF Finalized, Buffer
<1>6. Clean(v, Taken(n))
  BY <1>1, <1>2, <1>4, <1>5 DEF Clean
<1>7. DOMAIN log = Nodes /\ DOMAIN voting = Nodes /\ accepted = [x \in Nodes |-> accepted[x]] /\ log[n] = l
  BY DEF Sane, l
<1>8. OnlyAt(n) /\ log'[n] = v /\ DOMAIN voting'[n] = {}
  BY <1>3, <1>7 DEF OnlyAt
<1>9. Taken(n)' = Taken(n)
  BY <1>3 DEF Taken
<1>10. MoreBacked
  BY <1>3 DEF MoreBacked, Sane
<1>11. Sane'
  <2>1. poisoned' = poisoned /\ restarts' \in Nat /\ nonce' \in [Nodes -> [Sender -> Nat]]
    BY <1>3, SMT DEF Sane
  <2> QED BY <1>3, <1>6, <1>8, <1>9, <1>10, <2>1, SaneAfter
<1>12. ASSUME NEW o \in Nodes
       PROVE  Knows(o, r.final, r.blocks, r.base)' /\ Older(o, r.final, <<>>)'
  <2>1. Knows(o, r.final, r.blocks, r.base) /\ Older(o, r.final, <<>>)
    BY DEF Settled
  <2>2. CASE o = n
    <3>1. Knows(o, r.final, r.blocks, r.base)'
      BY <1>2, <1>3, <1>5, <1>7, <1>8, <2>1, <2>2 DEF Knows
    <3> QED BY <1>8, <2>2, <3>1 DEF Older
  <2>3. CASE o # n
    <3>1. voting'[o] = voting[o] /\ log'[o] = log[o] /\ accepted'[o] = accepted[o]
      BY <1>8, <2>3, OnlyAtFacts
    <3> QED BY <2>1, <3>1 DEF Knows, Older
  <2> QED BY <2>2, <2>3
<1>13. Settled(r)'
  BY <1>3, <1>12 DEF Settled
<1> QED BY <1>10, <1>11, <1>13, HistoryAfter
-----------------------------------------------------------------------------
\* Where there is room a message is only written.
LEMMA OnlyWritten ==
    ASSUME NEW l, WellFormed(l), NEW msg \in Msg, l.bufLen + MsgLen <= UnfinalizedBufferCap,
           Bytes(l.file) - l.checkpoint <= BlockHistory * BlockSize
    PROVE  Appended(l, msg) = Written(l, msg)
<1> DEFINE w == Written(l, msg)
           live == Bytes(l.file) - l.checkpoint
<1>1. w.bufLen = l.bufLen + MsgLen
  BY WrittenParts
<1>2. l.bufLen \in Nat /\ l.checkpoint \in Nat /\ Bytes(l.file) \in Int /\ Bytes(l.file) \in Nat
  <2>1. Len(l.file) \in Nat /\ l \in LogType
    BY LogParts
  <2> QED BY <2>1, Limits, SMT DEF LogType, Bytes
<1>3. live \in Int
  BY <1>2, SMT
<1> HIDE DEF w
<1>4. ~(live > BlockHistory * BlockSize)
  BY <1>3, Limits, SMT
<1>5. ~(w.bufLen > UnfinalizedBufferCap)
  BY <1>1, <1>2, Limits, SMT
<1>6. Compacted(l, w) = w
  BY <1>4 DEF Compacted
<1>7. Trimmed(w) = w
  BY <1>5 DEF Trimmed
<1> QED BY <1>6, <1>7 DEF Appended, w

\* A replica that takes the next message of a sender has taken this one more.
LEMMA TakenGrows ==
    ASSUME Sane, NEW n \in Nodes, NEW msg \in Msg, msg[2] = nonce[n][msg[1]] + 1,
           nonce' = [nonce EXCEPT ![n][msg[1]] = msg[2]]
    PROVE  /\ msg \notin Taken(n) /\ Taken(n)' = Taken(n) \cup {msg}
           /\ nonce' \in [Nodes -> [Sender -> Nat]]
           /\ \A o \in Nodes : o # n => nonce'[o] = nonce[o]
<1>1. nonce \in [Nodes -> [Sender -> Nat]]
  BY DEF Sane
<1>2. \A x \in Msg : x = <<x[1], x[2]>> /\ x[1] \in Sender /\ x[2] \in Nat
  BY MsgAssumption
<1>3. /\ nonce'[n] \in [Sender -> Nat] /\ nonce'[n][msg[1]] = msg[2]
      /\ \A s \in Sender : s # msg[1] => nonce'[n][s] = nonce[n][s]
      /\ \A o \in Nodes : o # n => nonce'[o] = nonce[o]
      /\ nonce' \in [Nodes -> [Sender -> Nat]]
  BY <1>1, <1>2
<1>4. nonce[n][msg[1]] \in Nat
  BY <1>1, <1>2
<1>5. msg \notin Taken(n)
  BY <1>4, SMT DEF Taken
<1>6. ASSUME NEW x \in Msg
      PROVE  x[2] <= nonce'[n][x[1]] <=> x[2] <= nonce[n][x[1]] \/ x = msg
  <2>1. CASE x[1] = msg[1]
    <3> DEFINE a == nonce[n][msg[1]]
               b == x[2]
    <3>1. a \in Nat /\ b \in Nat /\ msg[2] = a + 1
      BY <1>2, <1>4
    <3>2. x = msg <=> b = msg[2]
      BY <1>2, <2>1
    <3>3. nonce'[n][x[1]] = msg[2] /\ nonce[n][x[1]] = a
      BY <1>3, <2>1
    <3> HIDE DEF a, b
    <3>4. b <= a + 1 <=> b <= a \/ b = a + 1
      BY <3>1, SMT
    <3> QED BY <3>1, <3>2, <3>3, <3>4 DEF b
  <2>2. CASE x[1] # msg[1]
    BY <1>2, <1>3, <2>2
  <2> QED BY <2>1, <2>2
<1>7. Taken(n)' = Taken(n) \cup {msg}
  BY <1>6 DEF Taken
<1> QED BY <1>3, <1>5, <1>7

\* What a message does to the replica that takes it.
LEMMA SendTakes ==
    ASSUME Orderly, Room, Sane, NEW n \in Nodes, NEW msg \in Msg, SendMessage(n, msg)
    PROVE  /\ net = {} /\ Timely(n, msg)
           /\ Appended(log[n], msg) = Written(log[n], msg)
           /\ log' = [log EXCEPT ![n] = Written(log[n], msg)]
           /\ log'[n] = Written(log[n], msg)
           /\ Clean(log'[n], Taken(n)') /\ Finalized(log'[n]) = Finalized(log[n])
           /\ log'[n].latest = log[n].latest
           /\ Buffer(log'[n]) = Append(Buffer(log[n]), msg)
           /\ nonce' \in [Nodes -> [Sender -> Nat]]
           /\ \A o \in Nodes : o # n => nonce'[o] = nonce[o]
           /\ restarts' = restarts /\ accepted' = accepted /\ poisoned' = poisoned
<1> DEFINE l == log[n]
<1>1. /\ TakesNonce(n, msg) /\ log' = [log EXCEPT ![n] = Appended(l, msg)]
      /\ restarts' = restarts /\ accepted' = accepted /\ poisoned' = poisoned
  BY DEF SendMessage
<1>2. net = {} /\ Timely(n, msg) /\ nonce' = [nonce EXCEPT ![n][msg[1]] = msg[2]]
  BY <1>1 DEF TakesNonce, Orderly, Quiet
<1>3. Clean(l, Taken(n)) /\ WellFormed(l) /\ DOMAIN log = Nodes
  BY DEF Sane, Clean
<1>4. Appended(l, msg) = Written(l, msg)
  BY <1>3, OnlyWritten DEF Room
<1>5. log'[n] = Written(l, msg) /\ log' = [log EXCEPT ![n] = Written(l, msg)]
  BY <1>1, <1>3, <1>4
<1>6. /\ msg \notin Taken(n) /\ Taken(n)' = Taken(n) \cup {msg}
      /\ nonce' \in [Nodes -> [Sender -> Nat]]
      /\ \A o \in Nodes : o # n => nonce'[o] = nonce[o]
  BY <1>2, TakenGrows DEF Timely
<1> HIDE DEF l
<1>7. Clean(Written(l, msg), Taken(n) \cup {msg})
  BY <1>3, <1>6, WrittenClean
<1>8. /\ Finalized(Written(l, msg)) = Finalized(l) /\ Written(l, msg).latest = l.latest
      /\ Buffer(Written(l, msg)) = Append(Buffer(l), msg)
  BY <1>3, WrittenParts
<1> QED BY <1>1, <1>2, <1>4, <1>5, <1>6, <1>7, <1>8 DEF l

\* A message with which no block is proposed.
LEMMA SendPlain ==
    ASSUME Orderly, Room, Sane, NEW r \in Rounds, History(r), Settled(r),
           NEW n \in Nodes, NEW msg \in Msg, SendMessage(n, msg), UNCHANGED <<voting, net, backers>>
    PROVE  Sane' /\ History(r)' /\ Settled(r)'
<1>1. /\ net = {} /\ log' = [log EXCEPT ![n] = Written(log[n], msg)]
      /\ Clean(log'[n], Taken(n)') /\ Finalized(log'[n]) = Finalized(log[n])
      /\ log'[n].latest = log[n].latest
      /\ nonce' \in [Nodes -> [Sender -> Nat]]
      /\ \A o \in Nodes : o # n => nonce'[o] = nonce[o]
      /\ restarts' = restarts /\ accepted' = accepted /\ poisoned' = poisoned
  BY SendTakes
<1>2. /\ DOMAIN log = Nodes /\ voting = [x \in Nodes |-> voting[x]]
      /\ accepted = [x \in Nodes |-> accepted[x]] /\ restarts \in Nat
  BY DEF Sane
<1>3. OnlyAt(n)
  <2>1. log' = [log EXCEPT ![n] = log'[n]]
    <3> DEFINE w == Written(log[n], msg)
    <3>1. log' = [log EXCEPT ![n] = w]
      BY <1>1
    <3> HIDE DEF w
    <3> QED BY <1>2, <3>1
  <2>2. voting' = [voting EXCEPT ![n] = voting'[n]] /\ accepted' = [accepted EXCEPT ![n] = accepted'[n]]
    BY <1>1, <1>2
  <2> QED BY <2>1, <2>2 DEF OnlyAt
<1>4. MoreBacked
  BY DEF MoreBacked, Sane
<1>5. Sane'
  BY <1>1, <1>2, <1>3, <1>4, SaneAfter
<1>6. ASSUME NEW o \in Nodes
      PROVE  Knows(o, r.final, r.blocks, r.base)' /\ Older(o, r.final, <<>>)'
  <2>1. Knows(o, r.final, r.blocks, r.base) /\ Older(o, r.final, <<>>)
    BY DEF Settled
  <2>2. Finalized(log'[o]) = Finalized(log[o]) /\ log'[o].latest = log[o].latest
    <3>1. CASE o = n
      BY <1>1, <3>1
    <3>2. CASE o # n
      BY <1>3, <3>2, OnlyAtFacts
    <3> QED BY <3>1, <3>2
  <2> QED BY <1>1, <2>1, <2>2 DEF Knows, Older
<1>7. Settled(r)'
  BY <1>1, <1>6 DEF Settled
<1> QED BY <1>4, <1>5, <1>7, HistoryAfter
-----------------------------------------------------------------------------
\* More than half a block stands behind the messages of a proposed block: all replicas
\* have them, and none of them is final anywhere.
LEMMA BlockIsEverywhere ==
    ASSUME Orderly, Room, Sane, NEW r \in Rounds, Settled(r), NEW n \in Nodes, NEW msg \in Msg,
           SendMessage(n, msg), NEW h \in Seq(Msg), Starts(Buffer(log'[n]), h),
           MsgLen * (Len(Buffer(log'[n])) - Len(h)) > HalfBlock
    PROVE  /\ NoRepeats(h) /\ Messages(h) \cap Messages(r.final) = {}
           /\ \A o \in Nodes : Messages(h) \subseteq Messages(Buffer(log'[o]))
<1> DEFINE l == log[n]
           v == log'[n]
           B == Buffer(v)
           F == Finalized(l)
           k == Len(B)
<1>1. /\ Timely(n, msg) /\ v = Written(l, msg) /\ Clean(v, Taken(n)') /\ Finalized(v) = F
      /\ Buffer(v) = Append(Buffer(l), msg)
  BY SendTakes
<1>2. Clean(l, Taken(n)) /\ WellFormed(l)
  BY DEF Sane, Clean
<1>3. /\ B \in Seq(Msg) /\ k \in Nat /\ NoRepeats(B) /\ Messages(F) \cap Messages(B) = {}
  BY <1>1, LogParts DEF Clean
<1>4. F = r.final
  BY DEF Settled, Knows
<1>5. Messages(h) \subseteq Messages(B) /\ NoRepeats(h)
  BY <1>3, SequenceFacts
<1>6. /\ F \in Seq(Msg) /\ Buffer(l) \in Seq(Msg) /\ Len(F) \in Nat /\ Len(Buffer(l)) \in Nat
      /\ Len(l.file) = Len(F) + Len(Buffer(l)) /\ l.file \in Seq(Msg)
      /\ \A i \in 1 .. Len(Buffer(l)) : l.file[Len(F) + i] = Buffer(l)[i]
  BY <1>2, LogParts
<1>7. k = Len(Buffer(l)) + 1 /\ \A i \in 1 .. Len(Buffer(l)) : B[i] = Buffer(l)[i]
  BY <1>1, <1>6
<1>8. /\ MsgLen * (k - Len(h)) > HalfBlock /\ Len(h) \in Nat /\ Len(h) <= k
      /\ \A i \in 1 .. Len(h) : B[i] = h[i]
  BY DEF Starts
<1> HIDE DEF l, v, B, F, k
<1>9. Len(h) < k
  <2>1. CASE Len(h) = k
    <3>1. k - Len(h) = 0
      BY <1>3, <2>1, SMT
    <3>2. MsgLen * (k - Len(h)) = 0
      BY <3>1, Limits, SMT
    <3>3. HalfBlock \in Nat
      BY Limits, SMT DEF HalfBlock
    <3> QED BY <1>8, <3>2, <3>3, SMT
  <2> QED BY <1>3, <1>8, <2>1, SMT
<1>10. ASSUME NEW i \in 1 .. Len(h), NEW o \in Nodes
       PROVE  h[i] \in Taken(o)
  <2> DEFINE f == Len(F) + i
             d == k - i
             c == k - Len(h)
  <2>1. /\ i \in 1 .. Len(Buffer(l)) /\ f \in 1 .. Len(l.file) /\ Len(l.file) + 1 - f = d
        /\ d \in Nat /\ c \in Nat /\ c <= d
    BY <1>3, <1>6, <1>7, <1>8, <1>9, SMT
  <2>2. MsgLen * d > HalfBlock
    <3>0. MsgLen * c > HalfBlock
      BY <1>8
    <3> HIDE DEF c, d
    <3>1. c \in Int /\ d \in Int
      BY <2>1, SMT
    <3>2. MsgLen * c <= MsgLen * d /\ MsgLen * c \in Int /\ MsgLen * d \in Int
      BY <2>1, <3>1, Limits, Mul
    <3>3. HalfBlock \in Int
      BY Limits, SMT DEF HalfBlock
    <3> QED BY <3>0, <3>2, <3>3, SMT
  <2> HIDE DEF d, f
  <2>3. MsgLen * (Len(l.file) + 1 - f) >= Slack
    <3>1. MsgLen * d >= Slack
      BY <2>1, <2>2 DEF Orderly
    <3> QED BY <2>1, <3>1
  <2>4. f \in DOMAIN l.file
    BY <1>6, <2>1
  <2>5. l.file[f] \in Taken(o)
    BY <1>1, <2>3, <2>4 DEF Timely, Orderly, l
  <2>6. l.file[f] = h[i]
    BY <1>6, <1>7, <1>8, <2>1 DEF f
  <2> QED BY <2>5, <2>6
<1>11. Messages(h) \cap Messages(r.final) = {}
  BY <1>3, <1>4, <1>5
<1>12. ASSUME NEW o \in Nodes
       PROVE  Messages(h) \subseteq Messages(Buffer(log'[o]))
  <2>1. CASE o = n
    BY <1>5, <2>1 DEF B, v
  <2>2. CASE o # n
    <3>1. log'[o] = log[o]
      <4> DEFINE w == Written(log[n], msg)
      <4>1. log' = [log EXCEPT ![n] = w] /\ DOMAIN log = Nodes
        BY SendTakes DEF Sane
      <4> HIDE DEF w
      <4> QED BY <2>2, <4>1
    <3>2. Finalized(log[o]) = r.final /\ Clean(log[o], Taken(o))
      BY DEF Settled, Knows, Sane
    <3>3. DOMAIN h = 1 .. Len(h)
      OBVIOUS
    <3>4. Messages(h) \subseteq Taken(o)
      BY <1>10, <3>3 DEF Messages
    <3> QED BY <1>11, <3>1, <3>2, <3>4 DEF Clean
  <2> QED BY <2>1, <2>2
<1> QED BY <1>5, <1>11, <1>12

\* A message with which a block is proposed begins a round.
LEMMA SendProposes ==
    ASSUME Orderly, Room, Sane, NEW r \in Rounds, History(r), Settled(r),
           NEW n \in Nodes, NEW msg \in Msg, SendMessage(n, msg),
           ShouldFinalize(log[n].bufLen, log'[n].bufLen), Finalizer(log'[n].latest, log'[n].bufLen) = n,
           voting' = [voting EXCEPT ![n] = WithEntry(@, ProposedBlock(log'[n]),
                        [NoVotes(log'[n].number) EXCEPT !.yes = 1, !.proposal = "local"])],
           net' = net \cup {BlockMsg(n, o, log'[n].number, ProposedBlock(log'[n]), log'[n].latest) : o \in Others(n)},
           backers' = Backed(ProposedBlock(log'[n]), {n})
    PROVE  /\ Sane' /\ \E r2 \in Rounds : History(r2)' /\ InRound(r2)'
<1> DEFINE v == log'[n]
           e == [NoVotes(0) EXCEPT !.yes = 1, !.proposal = "local"]
<1>0. PICK h, final, blocks, base : /\ h = ProposedBlock(v) /\ final = r.final /\ blocks = r.blocks
                                    /\ base = r.base
  OBVIOUS
<1>1. /\ net = {} /\ log' = [log EXCEPT ![n] = Written(log[n], msg)]
      /\ Clean(v, Taken(n)') /\ Finalized(v) = Finalized(log[n])
      /\ v.latest = log[n].latest
      /\ nonce' \in [Nodes -> [Sender -> Nat]]
      /\ \A o \in Nodes : o # n => nonce'[o] = nonce[o]
      /\ restarts' = restarts /\ accepted' = accepted /\ poisoned' = poisoned
  BY SendTakes
<1>2. /\ DOMAIN log = Nodes /\ DOMAIN voting = Nodes /\ accepted = [x \in Nodes |-> accepted[x]]
      /\ restarts \in Nat /\ Clean(log[n], Taken(n))
  BY DEF Sane
<1>3. WellFormed(v) /\ v.number = 0 /\ v.latest = base
  BY <1>0, <1>1 DEF Clean, Settled, Knows
<1>4. h \in Seq(Msg) /\ h # <<>> /\ Starts(Buffer(v), h) /\ MsgLen * (Len(Buffer(v)) - Len(h)) > HalfBlock
  <2> HIDE DEF v
  <2>1. log[n].bufLen \in Nat /\ ShouldFinalize(log[n].bufLen, v.bufLen)
    BY <1>2 DEF Clean, WellFormed, LogType, v
  <2> QED BY <1>0, <1>3, <2>1, ProposedParts
<1>5. /\ NoRepeats(h) /\ Messages(h) \cap Messages(final) = {}
      /\ \A o \in Nodes : Messages(h) \subseteq Messages(Buffer(log'[o]))
  BY <1>0, <1>4, BlockIsEverywhere
<1>6. Messages(h) # {}
  BY <1>4, SequenceFacts
<1>7. Finalizer(base, ReceivedLen(h)) = n
  <2>1. Finalizer(base, v.bufLen) = n
    BY <1>3
  <2>2. ReceivedLen(h) \div BlockSize = v.bufLen \div BlockSize
    <3> HIDE DEF v
    <3> QED BY <1>0, <1>3, ProposerFound
  <2> HIDE DEF v
  <2> QED BY <2>1, <2>2 DEF Finalizer
<1>8. PICK r2 \in Rounds : /\ r2.final = final /\ r2.blocks = blocks /\ r2.base = base /\ r2.block = h
                            /\ r2.proposer = n
  <2> DEFINE x == [final |-> final, blocks |-> blocks, base |-> base, block |-> h, proposer |-> n]
  <2>1. final \in Seq(Msg) /\ blocks \in Seq(Seq(Msg)) /\ base \in Seq(Msg)
    BY <1>0 DEF Rounds
  <2>2. x \in Rounds
    BY <1>4, <2>1 DEF Rounds
  <2>3. x.final = final /\ x.blocks = blocks /\ x.base = base /\ x.block = h /\ x.proposer = n
    OBVIOUS
  <2> HIDE DEF x
  <2> QED BY <2>2, <2>3
<1>10. /\ voting' = [voting EXCEPT ![n] = WithEntry(@, h, e)]
       /\ backers' = Backed(h, {n})
       /\ net' = {Offer(r2, o) : o \in Others(n)}
  <2>1. \A o : BlockMsg(n, o, log'[n].number, h, log'[n].latest) = Offer(r2, o)
    BY <1>3, <1>8 DEF Offer
  <2> QED BY <1>0, <1>1, <1>3, <2>1
<1>11. Sets(voting[n], h, e, voting'[n]) /\ OnlyAt(n)
  <2> HIDE DEF e, v
  <2>1. log' = [log EXCEPT ![n] = log'[n]]
    <3> DEFINE w == Written(log[n], msg)
    <3>1. log' = [log EXCEPT ![n] = w]
      BY <1>1
    <3> HIDE DEF w
    <3> QED BY <1>2, <3>1
  <2>2. voting'[n] = WithEntry(voting[n], h, e) /\ voting' = [voting EXCEPT ![n] = voting'[n]]
    BY <1>2, <1>10
  <2>3. accepted' = [accepted EXCEPT ![n] = accepted'[n]]
    BY <1>1, <1>2
  <2>4. Sets(voting[n], h, e, voting'[n])
    BY <2>2, EntrySet
  <2> QED BY <2>1, <2>2, <2>3, <2>4 DEF OnlyAt
<1>12. e = [number |-> 0, yes |-> 1, no |-> 0, proposal |-> "local", votes |-> {}]
  <2>1. PICK z : z = NoVotes(0)
    OBVIOUS
  <2>2. z = [number |-> 0, yes |-> 0, no |-> 0, proposal |-> "absent", votes |-> {}]
    BY <2>1 DEF NoVotes
  <2>3. e = [z EXCEPT !.yes = 1, !.proposal = "local"]
    BY <2>1
  <2> HIDE DEF e
  <2> QED BY <2>2, <2>3
<1> HIDE DEF v, e
<1>13. MoreBacked /\ h \in DOMAIN backers' /\ n \in backers'[h]
  <2> DEFINE ns == {n}
  <2>1. ns \in SUBSET Nodes /\ backers' = Backed(h, ns) /\ n \in ns
    BY <1>10
  <2> HIDE DEF ns
  <2> QED BY <2>1, MoreAreBacked
<1>14. Sane'
  <2>1. Clean(log'[n], Taken(n)')
    BY <1>1 DEF v
  <2> QED BY <1>1, <1>2, <1>11, <1>13, <2>1, SaneAfter
<1>15. \A o \in Nodes : Got(r2, o)' <=> o = n
  <2> SUFFICES ASSUME NEW o \in Nodes PROVE Got(r2, o)' <=> o = n
    OBVIOUS
  <2>1. CASE o = n
    BY <1>8, <2>1 DEF Got
  <2>2. CASE o # n
    <3>1. Offer(r2, o) \in net'
      BY <1>10, <2>2 DEF Others
    <3> QED BY <1>8, <2>2, <3>1 DEF Got
  <2> QED BY <2>1, <2>2
<1>16. \A o \in Nodes : Voters(r2, o)' = {}
  BY <1>8, <1>15 DEF Voters, Others
<1>17. RF \in Nat /\ RF > 1 /\ ~(1 > RF \div 2)
  <2>1. RF \in Nat /\ RF > 1
    BY GroupFacts DEF Orderly
  <2> QED BY <2>1, SMT
<1>18. ASSUME NEW o \in Nodes
       PROVE  ~Done(r2, o)' /\ Yes(r2, o)' = IF o = n THEN 1 ELSE 0
  <2>1. Cardinality({}) = 0
    BY GroupFacts
  <2>2. CASE o = n
    <3>1. Yes(r2, o)' = 0 + 1
      BY <1>8, <1>15, <1>16, <2>1, <2>2 DEF Yes
    <3>2. Yes(r2, o)' = 1
      BY <3>1, SMT
    <3> QED BY <1>17, <2>2, <3>2 DEF Done
  <2>3. CASE o # n
    <3>1. Yes(r2, o)' = 0 + 0 /\ ~Got(r2, o)'
      BY <1>15, <1>16, <2>1, <2>3 DEF Yes
    <3>2. Yes(r2, o)' = 0
      BY <3>1, SMT
    <3> QED BY <2>3, <3>1, <3>2 DEF Done
  <2> QED BY <2>2, <2>3
<1>19. ASSUME NEW o \in Nodes
       PROVE  Stands(r2, o)'
  <2>0. Knows(o, final, blocks, base) /\ Older(o, final, <<>>)
    BY <1>0 DEF Settled
  <2>1. \A b \in DOMAIN voting[o] : voting[o][b].number = 0 /\ Messages(b) \subseteq Messages(final)
    <3>1. Messages(<<>>) = {}
      BY DEF Messages
    <3> QED BY <2>0, <3>1 DEF Older
  <2>2. h \notin DOMAIN voting[o]
    BY <1>5, <1>6, <2>1
  <2>3. Entry(o, h, 0)' = Counted(r2, o)' /\ Older(o, final, h)'
    <3>1. CASE o = n
      <4>1. Entry(o, h, 0)' = e
        BY <1>11, <3>1 DEF Entry, Sets
      <4>2. Counted(r2, o)' = e
        BY <1>8, <1>12, <1>15, <1>16, <1>18, <3>1 DEF Counted
      <4>3. Older(o, final, h)'
        BY <1>11, <1>12, <2>1, <3>1 DEF Sets, Older
      <4> QED BY <4>1, <4>2, <4>3
    <3>2. CASE o # n
      <4>1. voting'[o] = voting[o]
        BY <1>11, <3>2, OnlyAtFacts
      <4>2. Entry(o, h, 0)' = NoVotes(0)
        BY <2>2, <4>1 DEF Entry
      <4>3. Counted(r2, o)' = NoVotes(0)
        BY <1>15, <1>16, <1>18, <3>2 DEF Counted, NoVotes
      <4>4. Older(o, final, h)'
        BY <2>1, <4>1 DEF Older
      <4> QED BY <4>2, <4>3, <4>4
    <3> QED BY <3>1, <3>2
  <2>4. Knows(o, final, blocks, base)'
    <3>1. Finalized(log'[o]) = Finalized(log[o]) /\ log'[o].latest = log[o].latest
      <4>1. CASE o = n
        BY <1>1, <4>1 DEF v
      <4>2. CASE o # n
        BY <1>11, <4>2, OnlyAtFacts
      <4> QED BY <4>1, <4>2
    <3> QED BY <1>1, <2>0, <3>1 DEF Knows
  <2>5. Holds(o, r2)'
    BY <1>4, <1>5, <1>8 DEF Holds, v
  <2> QED BY <1>8, <1>18, <2>3, <2>4, <2>5 DEF Stands
<1>20. OnlyOf(r2)'
  BY <1>8, <1>10 DEF OnlyOf
<1>21. BackedBy(r2.block, {x \in Nodes : Got(r2, x)})'
  BY <1>8, <1>13, <1>15 DEF BackedBy
<1>22. InRound(r2)'
  BY <1>4, <1>5, <1>7, <1>8, <1>19, <1>20, <1>21 DEF InRound
<1>23. History(r2)'
  <2>1. History(r)'
    BY <1>13, HistoryAfter
  <2> QED BY <1>0, <1>8, <2>1 DEF History
<1> QED BY <1>14, <1>22, <1>23
-----------------------------------------------------------------------------
LEMMA RoundsStep ==
    ASSUME Orderly, Room, RoundsInv, [Next]_vars, [RestartsBetween]_vars
    PROVE  RoundsInv'
<1>0. PICK r \in Rounds : Sane /\ History(r) /\ (Settled(r) \/ InRound(r))
  BY DEF RoundsInv
<1>1. ASSUME net = {}
      PROVE  \E r2 \in Rounds : History(r2) /\ Settled(r2)
  BY <1>0, <1>1, RoundCloses
<1>2. ASSUME NEW n \in Nodes, NEW msg \in Msg, SendMessage(n, msg)
      PROVE  RoundsInv'
  <2>1. /\ net = {} /\ Appended(log[n], msg) = log'[n]
    BY <1>0, <1>2, SendTakes
  <2>2. PICK r1 \in Rounds : History(r1) /\ Settled(r1)
    BY <1>1, <2>1
  <2> DEFINE proposes == /\ ShouldFinalize(log[n].bufLen, log'[n].bufLen)
                         /\ Finalizer(log'[n].latest, log'[n].bufLen) = n
             h == ProposedBlock(log'[n])
             tab == [voting EXCEPT ![n] = WithEntry(@, h, [NoVotes(log'[n].number) EXCEPT !.yes = 1, !.proposal = "local"])]
             offers == {BlockMsg(n, o, log'[n].number, h, log'[n].latest) : o \in Others(n)}
  <2>3. \/ UNCHANGED <<voting, net, backers>>
        \/ proposes /\ voting' = tab /\ net' = net \cup offers /\ backers' = Backed(h, {n})
    BY <1>2, <2>1 DEF SendMessage
  <2>4. CASE UNCHANGED <<voting, net, backers>>
    <3>1. Sane' /\ History(r1)' /\ Settled(r1)'
      BY <1>0, <1>2, <2>2, <2>4, SendPlain
    <3> QED BY <3>1 DEF RoundsInv
  <2>5. CASE proposes /\ voting' = tab /\ net' = net \cup offers /\ backers' = Backed(h, {n})
    <3>1. Sane' /\ \E r2 \in Rounds : History(r2)' /\ InRound(r2)'
      BY <1>0, <1>2, <2>2, <2>5, SendProposes
    <3> QED BY <3>1 DEF RoundsInv
  <2> QED BY <2>3, <2>4, <2>5
<1>3. ASSUME NEW m \in net
      PROVE  InRound(r)
  BY <1>0 DEF Settled
<1>4. ASSUME NEW m \in net, Proposal(m) \/ Vote(m)
      PROVE  RoundsInv'
  <2>1. InRound(r)
    BY <1>3
  <2>2. Sane' /\ History(r)' /\ InRound(r)'
    BY <1>0, <1>4, <2>1, ProposalInRound, VoteInRound
  <2> QED BY <2>2 DEF RoundsInv
<1>5. ASSUME NEW n \in Nodes, Restart(n)
      PROVE  RoundsInv'
  <2>1. net = {}
    <3>1. restarts \in Nat /\ restarts' = restarts + 1
      BY <1>0, <1>5 DEF Sane, Restart
    <3>2. restarts' # restarts
      BY <3>1, SMT
    <3>3. RestartsBetween
      BY <3>2 DEF vars
    <3> QED BY <3>2, <3>3 DEF RestartsBetween
  <2>2. PICK r1 \in Rounds : History(r1) /\ Settled(r1)
    BY <1>1, <2>1
  <2>3. Sane' /\ History(r1)' /\ Settled(r1)'
    BY <1>0, <1>5, <2>2, RestartInRounds
  <2> QED BY <2>3 DEF RoundsInv
<1>6. ASSUME NEW n \in Nodes, NEW msg \in Msg, SendToPoisoned(n, msg)
      PROVE  FALSE
  BY <1>0, <1>6 DEF SendToPoisoned, Sane
<1>7. ASSUME UNCHANGED vars
      PROVE  RoundsInv'
  <2>1. Sane' /\ History(r)' /\ (Settled(r) \/ InRound(r))'
    <3>1. /\ log' = log /\ nonce' = nonce /\ voting' = voting /\ net' = net /\ backers' = backers
          /\ accepted' = accepted /\ poisoned' = poisoned /\ restarts' = restarts
      BY <1>7 DEF vars
    <3>2. Sane'
      BY <1>0, <3>1 DEF Sane, Taken
    <3>3. History(r)'
      BY <1>0, <3>1 DEF History, HasQuorum
    <3>4. (Settled(r)' <=> Settled(r))
      BY <3>1 DEF Settled, Knows, Older
    <3>5. \A x : Got(r, x)' <=> Got(r, x)
      BY <3>1 DEF Got
    <3>6. \A x : Voters(r, x)' = Voters(r, x)
      BY <3>1, <3>5 DEF Voters
    <3>7. ASSUME InRound(r) PROVE InRound(r)'
      <4>1. \A n \in Nodes : Stands(r, n)'
        BY <3>1, <3>5, <3>6, <3>7, OthersStand DEF InRound
      <4>2. OnlyOf(r)' /\ BackedBy(r.block, {x \in Nodes : Got(r, x)})'
        BY <3>1, <3>5, <3>7 DEF InRound, OnlyOf, BackedBy
      <4> QED BY <3>7, <4>1, <4>2 DEF InRound
    <3> QED BY <1>0, <3>2, <3>3, <3>4, <3>7
  <2> QED BY <2>1 DEF RoundsInv
<1> QED BY <1>2, <1>4, <1>5, <1>6, <1>7 DEF Next

\* Orderly rounds: between two of them the replicas know the same, and in one of them
\* everybody votes for the block and counts what has arrived.
THEOREM RoundsInvariant ==
    ASSUME Orderly
    PROVE  Spec /\ []Room /\ [][RestartsBetween]_vars => []RoundsInv
<1>1. Init => RoundsInv
  BY RoundsInit
<1>2. RoundsInv /\ Room /\ [Next]_vars /\ [RestartsBetween]_vars => RoundsInv'
  BY RoundsStep
<1> QED BY <1>1, <1>2, PTL DEF Spec

\* What a replica has made final, in a round and between two.
LEMMA FinalInRounds ==
    ASSUME RoundsInv
    PROVE  \E r \in Rounds :
             /\ Sane /\ History(r)
             /\ net = {} => Settled(r) \/ InRound(r)
             /\ \A n \in Nodes :
                  \/ Knows(n, r.final, r.blocks, r.base)
                  \/ /\ InRound(r) /\ Done(r, n)
                     /\ Knows(n, r.final \o r.block, Append(r.blocks, r.block), r.block)
<1>0. PICK r \in Rounds : Sane /\ History(r) /\ (Settled(r) \/ InRound(r))
  BY DEF RoundsInv
<1>1. CASE Settled(r)
  BY <1>0, <1>1 DEF Settled
<1>2. CASE InRound(r)
  BY <1>0, <1>2 DEF InRound, Stands
<1> QED BY <1>0, <1>1, <1>2

LEMMA PrefixFacts ==
    ASSUME NEW s \in Seq(Msg), NEW t \in Seq(Msg)
    PROVE  IsPrefix(s, s) /\ IsPrefix(s, s \o t)
<1> DEFINE u == s \o t
<1>1. u \in Seq(Msg) /\ Len(s) <= Len(u) /\ \A i \in 1 .. Len(s) : s[i] = u[i]
  BY SMT
<1> HIDE DEF u
<1>2. IsPrefix(s, u)
  BY <1>1, SMT DEF IsPrefix
<1>3. IsPrefix(s, s)
  BY SMT DEF IsPrefix
<1> QED BY <1>2, <1>3 DEF u

\* The finalized logs of any two replicas agree when rounds are orderly: whoever is ahead
\* is so by the block the others hold in their buffers and will accept.
THEOREM LogsAgree ==
    ASSUME Orderly
    PROVE  Spec /\ []Room /\ [][RestartsBetween]_vars => []Agreement
<1>1. RoundsInv => Agreement
  <2> SUFFICES ASSUME RoundsInv PROVE Agreement
    OBVIOUS
  <2>1. PICK r \in Rounds : \A n \in Nodes : Finalized(log[n]) \in {r.final, r.final \o r.block}
    BY FinalInRounds DEF Knows
  <2>2. r.final \in Seq(Msg) /\ r.block \in Seq(Msg)
    BY DEF Rounds
  <2>3. /\ IsPrefix(r.final, r.final) /\ IsPrefix(r.final, r.final \o r.block)
        /\ IsPrefix(r.final \o r.block, r.final \o r.block)
    <3>1. r.final \o r.block \in Seq(Msg)
      BY <2>2, ConcatFacts
    <3> QED BY <2>2, <3>1, PrefixFacts
  <2> QED BY <2>1, <2>3 DEF Agreement
<1> QED BY <1>1, RoundsInvariant, PTL

\* After the votes of a round are in nobody is left a block behind.
THEOREM RoundsDoConverge ==
    ASSUME Orderly
    PROVE  Spec /\ []Room /\ [][RestartsBetween]_vars => []RoundsConverge
<1>1. RoundsInv => RoundsConverge
  <2> SUFFICES ASSUME RoundsInv, net = {}
               PROVE  \A n, o \in Nodes : Finalized(log[n]) = Finalized(log[o])
    BY DEF RoundsConverge
  <2>1. PICK r \in Rounds : Sane /\ History(r) /\ (Settled(r) \/ InRound(r))
    BY DEF RoundsInv
  <2>2. PICK r2 \in Rounds : Settled(r2)
    BY <2>1, RoundCloses
  <2> QED BY <2>2 DEF Settled, Knows
<1> QED BY <1>1, RoundsInvariant, PTL

\* What a replica considers final is what the group voted on, whether it cut the block
\* from its own buffer or received it.
THEOREM FinalIsVotedOn ==
    ASSUME Orderly
    PROVE  Spec /\ []Room /\ [][RestartsBetween]_vars => []FinalIsAccepted
<1>1. RoundsInv => FinalIsAccepted
  <2> SUFFICES ASSUME RoundsInv, NEW n \in Nodes PROVE Finalized(log[n]) = FlattenSeq(accepted[n])
    BY DEF FinalIsAccepted
  <2>1. PICK r \in Rounds :
             /\ History(r)
             /\ \/ Knows(n, r.final, r.blocks, r.base)
                \/ Knows(n, r.final \o r.block, Append(r.blocks, r.block), r.block)
    BY FinalInRounds
  <2>2. r.block \in Seq(Msg) /\ r.blocks \in Seq(Seq(Msg))
    BY DEF Rounds
  <2>3. FlattenSeq(Append(r.blocks, r.block)) = FlattenSeq(r.blocks) \o r.block
    <3> DEFINE b == r.blocks
               h == r.block
    <3> HIDE DEF b, h
    <3>1. b \in Seq(Seq(Msg)) /\ h \in Seq(Msg)
      BY <2>2 DEF b, h
    <3>2. FlattenSeq(Append(b, h)) = FlattenSeq(b) \o h
      BY <3>1, FlattenAppend
    <3> QED BY <3>2 DEF b, h
  <2> QED BY <2>1, <2>3 DEF History, Knows
<1> QED BY <1>1, RoundsInvariant, PTL

\* Finalization neither loses nor repeats a message.
THEOREM MessagesKeptOnce ==
    ASSUME Orderly
    PROVE  Spec /\ []Room /\ [][RestartsBetween]_vars => []ExactlyOnce
<1>1. RoundsInv => ExactlyOnce
  <2> SUFFICES ASSUME RoundsInv, NEW n \in Nodes
               PROVE  /\ Messages(log[n].file) = Taken(n)
                      /\ Len(log[n].file) = Cardinality(Taken(n))
    BY DEF ExactlyOnce
  <2>1. Clean(log[n], Taken(n))
    BY DEF RoundsInv, Sane
  <2> QED BY <2>1, CleanLength
<1> QED BY <1>1, RoundsInvariant, PTL

\* Whoever counts a majority of votes counts different replicas that backed the block.
LEMMA CountedAreBackers ==
    ASSUME Sane, NEW r \in Rounds, InRound(r), NEW n \in Nodes, Done(r, n)
    PROVE  HasQuorum(r.block)
<1> DEFINE V == Voters(r, n)
           p == r.proposer
           h == r.block
           G == {x \in Nodes : Got(r, x)}
<1>1. p \in Nodes /\ p \in G /\ n \in G /\ V \subseteq G /\ n \notin V /\ p \notin V
  BY DEF Rounds, Got, Done, Voters, Others
<1>2. V \in SUBSET Nodes /\ Cardinality(V) \in Nat /\ RF \in Nat
  <2>1. V \in SUBSET Nodes
    BY DEF Voters, Others
  <2> QED BY <2>1, GroupFacts
<1>3. h \in DOMAIN backers /\ G \subseteq backers[h] /\ backers[h] \in SUBSET Nodes
  BY DEF InRound, BackedBy, Sane
<1>4. Got(r, n) /\ Yes(r, n) > RF \div 2
  BY DEF Done
<1> HIDE DEF V, p, h, G
<1>5. Cardinality(V \cup {n}) = Cardinality(V) + 1
  BY <1>1, <1>2, GroupFacts
<1>6. ASSUME NEW W \in SUBSET G
      PROVE  Cardinality(W) \in Nat /\ Cardinality(W) <= Cardinality(backers[h]) /\ Cardinality(backers[h]) \in Nat
  BY <1>3, GroupFacts
<1>7. Yes(r, n) \in Nat /\ Yes(r, n) <= Cardinality(backers[h])
  <2>1. CASE n = p
    <3>1. Yes(r, n) = Cardinality(V) + 1
      BY <1>4, <2>1 DEF Yes, V, p
    <3>2. Cardinality(V \cup {n}) <= Cardinality(backers[h])
      <4>1. V \cup {n} \in SUBSET G
        BY <1>1
      <4> QED BY <1>6, <4>1
    <3> QED BY <1>2, <1>5, <3>1, <3>2, SMT
  <2>2. CASE n # p
    <3> DEFINE T == V \cup {n}
    <3>1. Yes(r, n) = Cardinality(V) + 2
      BY <1>4, <2>2 DEF Yes, V, p
    <3>2. T \in SUBSET Nodes /\ p \notin T /\ T \cup {p} \in SUBSET G
      BY <1>1, <1>2, <2>2
    <3>3. Cardinality(T) = Cardinality(V) + 1
      BY <1>5
    <3> HIDE DEF T
    <3>4. Cardinality(T \cup {p}) = Cardinality(T) + 1
      BY <1>1, <3>2, GroupFacts
    <3>5. Cardinality(T \cup {p}) <= Cardinality(backers[h])
      BY <1>6, <3>2
    <3> QED BY <1>2, <3>1, <3>3, <3>4, <3>5, SMT
  <2> QED BY <2>1, <2>2
<1>8. Cardinality(backers[h]) \in Nat
  BY <1>3, GroupFacts
<1>9. Cardinality(backers[h]) > RF \div 2
  BY <1>2, <1>4, <1>7, <1>8, SMT
<1> QED BY <1>3, <1>9 DEF HasQuorum, h

\* A block is made final only after a majority of the group proposed or checked it.
THEOREM FinalHasQuorum ==
    ASSUME Orderly
    PROVE  Spec /\ []Room /\ [][RestartsBetween]_vars => []QuorumBacked
<1>1. RoundsInv => QuorumBacked
  <2> SUFFICES ASSUME RoundsInv, NEW n \in Nodes, NEW i \in DOMAIN accepted[n]
               PROVE  HasQuorum(accepted[n][i])
    BY DEF QuorumBacked, HasQuorum
  <2>1. PICK r \in Rounds :
             /\ Sane /\ History(r)
             /\ \/ Knows(n, r.final, r.blocks, r.base)
                \/ /\ InRound(r) /\ Done(r, n)
                   /\ Knows(n, r.final \o r.block, Append(r.blocks, r.block), r.block)
    BY FinalInRounds
  <2> DEFINE b == r.blocks
             h == r.block
             T == Seq(Msg)
  <2>2. b \in Seq(T) /\ h \in T
    BY DEF Rounds
  <2>3. \A k \in 1 .. Len(b) : HasQuorum(b[k])
    BY <2>1 DEF History
  <2>4. accepted[n] = b \/ (accepted[n] = Append(b, h) /\ HasQuorum(h))
    BY <2>1, CountedAreBackers DEF Knows
  <2> HIDE DEF b, h, T
  <2>5. CASE accepted[n] = b
    <3>1. DOMAIN b = 1 .. Len(b)
      BY <2>2
    <3> QED BY <2>3, <2>5, <3>1
  <2>6. CASE accepted[n] = Append(b, h) /\ HasQuorum(h)
    <3>1. /\ DOMAIN Append(b, h) = 1 .. Len(b) + 1 /\ Append(b, h)[Len(b) + 1] = h /\ Len(b) \in Nat
          /\ \A k \in 1 .. Len(b) : Append(b, h)[k] = b[k]
      BY <2>2
    <3>2. \A k \in 1 .. Len(b) + 1 : k \in 1 .. Len(b) \/ k = Len(b) + 1
      BY <3>1, SMT
    <3> QED BY <2>3, <2>6, <3>1, <3>2
  <2> QED BY <2>4, <2>5, <2>6
<1> QED BY <1>1, RoundsInvariant, PTL
=============================================================================
