------------------------------ MODULE ChatLog ------------------------------
(***************************************************************************)
(* The message log of one replica of a chat: the file blocks.bin and the   *)
(* header root.bin of storage::chat::Handle, and what send_message,        *)
(* accept_block and proposal_low compute from them.                        *)
(*                                                                         *)
(* A message stands for its encoding followed by its two-byte length;      *)
(* every message occupies MsgLen bytes.  All lengths are in bytes, as in   *)
(* the code, and the file is the sequence of its messages, the oldest      *)
(* first.  Its last bufLen bytes are the buffer of messages no block has   *)
(* finalized yet.  The hash of a block is the block, and the all-zero hash *)
(* that Root::default holds is the empty sequence.                         *)
(***************************************************************************)
EXTENDS Integers, Sequences, FiniteSets, Subsequences

CONSTANTS Nodes,                \* the replication group
          MsgLen,               \* bytes a message takes in the file
          BlockSize,            \* BLOCK_SIZE
          MaxUnfinalizedBlocks, \* MAX_UNFINALIZED_BLOCKS
          BlockHistory,         \* BLOCK_HISTORY
          XorOrder(_)           \* the group sorted by its distance from a hash

ASSUME LengthAssumption ==
    /\ MsgLen \in Nat \ {0} /\ BlockSize \in Nat \ {0} /\ MsgLen <= BlockSize
    /\ MaxUnfinalizedBlocks \in Nat \ {0} /\ BlockHistory \in Nat
    /\ MaxUnfinalizedBlocks < BlockHistory

UnfinalizedBufferCap == BlockSize * MaxUnfinalizedBlocks
HalfBlock == BlockSize \div 2

\* struct Root, and the file it describes
EmptyLog == [file |-> <<>>, bufLen |-> 0, checkpoint |-> 0, discarded |-> 0,
             number |-> 0, latest |-> <<>>]

Bytes(msgs) == MsgLen * Len(msgs)
Messages(s) == {s[i] : i \in DOMAIN s}

\* Root::buffer_start: the buffer is read from the end of the file.
Finalized(l) == SubSeq(l.file, 1, Len(l.file) - l.bufLen \div MsgLen)
Buffer(l) == SubSeq(l.file, Len(l.file) - l.bufLen \div MsgLen + 1, Len(l.file))
-----------------------------------------------------------------------------
\* select_finalizer: the round of a block length picks one member of the group
\* in the order of the latest block's hash.
Finalizer(latest, len) ==
    LET order == XorOrder(latest)
    IN  order[((len \div BlockSize) % Len(order)) + 1]

\* The writes at the end of the file.
Written(l, msg) == [l EXCEPT !.file = Append(@, msg), !.bufLen = @ + MsgLen]

\* Mutant of Compacted: the checkpoint is set to the end of the file.
CompactedToEnd(l, w) ==
    LET live == Bytes(l.file) - l.checkpoint
    IN  IF live > BlockHistory * BlockSize
        THEN [w EXCEPT !.file = SubSeq(l.file, l.checkpoint \div MsgLen + 1, Len(l.file)),
                       !.discarded = @ + live,
                       !.checkpoint = live]
        ELSE w

\* The file is cut down to what follows the checkpoint once that has grown past
\* the history: l is the log before the message was written, w the one after.
\* The length copied is that of the file before the write.
Compacted(l, w) ==
    LET live == Bytes(l.file) - l.checkpoint
    IN  IF live > BlockHistory * BlockSize
        THEN [w EXCEPT !.file = SubSeq(l.file, l.checkpoint \div MsgLen + 1, Len(l.file)),
                       !.discarded = @ + live,
                       !.checkpoint = live - w.bufLen]
        ELSE w

\* Mutant of Trimmed: the limit is one block too high.
TrimmedLate(l) ==
    IF l.bufLen > UnfinalizedBufferCap + BlockSize
    THEN LET kept == (l.bufLen - BlockSize + MsgLen - 1) \div MsgLen
             buf  == Buffer(l)
         IN  [l EXCEPT !.file = Finalized(l) \o SubSeq(buf, Len(buf) - kept + 1, Len(buf)),
                       !.bufLen = kept * MsgLen]
    ELSE l

\* An overfull buffer keeps its newest messages, as few as leave at most one
\* block out.
Trimmed(l) ==
    IF l.bufLen > UnfinalizedBufferCap
    THEN LET kept == (l.bufLen - BlockSize + MsgLen - 1) \div MsgLen
             buf  == Buffer(l)
         IN  [l EXCEPT !.file = Finalized(l) \o SubSeq(buf, Len(buf) - kept + 1, Len(buf)),
                       !.bufLen = kept * MsgLen]
    ELSE l

\* The log that send_message stores.
Appended(l, msg) == Trimmed(Compacted(l, Written(l, msg)))

\* should_finalize: the buffer has just grown past the middle of a block.
ShouldFinalize(prevLen, len) ==
    /\ len > BlockSize
    /\ len % BlockSize > HalfBlock
    /\ prevLen % BlockSize < HalfBlock

\* Mutant of ProposedBlock: the newest messages instead of the oldest.
ProposedNewest(l) ==
    SubSeq(Buffer(l), Len(Buffer(l)) + 1 - ((l.bufLen \div BlockSize) * BlockSize) \div MsgLen,
           Len(Buffer(l)))

\* The block a finalizer proposes: the oldest messages of the buffer that fit
\* into its whole blocks.
ProposedBlock(l) ==
    SubSeq(Buffer(l), 1, ((l.bufLen \div BlockSize) * BlockSize) \div MsgLen)

\* Mutant of ReceivedLen: the length of the block as it is.
ReceivedLenUnrounded(block) == Bytes(block)

\* The length a receiver of a block hands to select_finalizer: the block was cut
\* down to whole blocks, so rounding it up gives the proposer's round.
ReceivedLen(block) == Bytes(block) + BlockSize - 1

\* proposal_low's count: how many messages of the buffer are in the block.
AllPresent(l, block) ==
    LET buf == Buffer(l)
    IN  Cardinality({i \in DOMAIN buf : buf[i] \in Messages(block)}) = Cardinality(Messages(block))
-----------------------------------------------------------------------------
\* accept_block on the proposer: the front of the buffer becomes final.
AcceptedLocal(l, block, number) ==
    [l EXCEPT !.number = number, !.latest = block, !.bufLen = @ - Bytes(block)]

\* Mutants of AcceptedRemote: the block is written after the rest of the buffer;
\* its messages stay in the buffer; the buffer's length is taken after the splice;
\* the file is written from its start.
RemoteAfterRest(l, block, number) ==
    LET rest == SelectSeq(Buffer(l), LAMBDA m : m \notin Messages(block))
    IN  [l EXCEPT !.number = number, !.latest = block,
                  !.file = Finalized(l) \o rest \o block,
                  !.bufLen = Bytes(rest)]
RemoteKeepsAll(l, block, number) ==
    [l EXCEPT !.number = number, !.latest = block,
              !.file = Finalized(l) \o block \o Buffer(l)]
RemoteLenAfterSplice(l, block, number) ==
    LET rest == SelectSeq(Buffer(l), LAMBDA m : m \notin Messages(block))
    IN  [l EXCEPT !.number = number, !.latest = block,
                  !.file = Finalized(l) \o block \o rest,
                  !.bufLen = Bytes(block \o rest)]
RemoteFromStart(l, block, number) ==
    LET rest == SelectSeq(Buffer(l), LAMBDA m : m \notin Messages(block))
    IN  [l EXCEPT !.number = number, !.latest = block,
                  !.file = block \o rest,
                  !.bufLen = Bytes(rest)]

\* accept_block elsewhere: the block is written after the finalized messages and
\* the messages of the buffer that are not in it follow.
AcceptedRemote(l, block, number) ==
    LET buf  == Buffer(l)
        rest == At(buf, {i \in DOMAIN buf : buf[i] \notin Messages(block)})
    IN  [l EXCEPT !.number = number, !.latest = block,
                  !.file = Finalized(l) \o block \o rest,
                  !.bufLen = Bytes(rest)]
=============================================================================
