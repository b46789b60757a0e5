---------------------------- MODULE FrameTransfer ----------------------------
(***************************************************************************)
(* The stop-and-wait transfer inside one chunk.  The agent reads a chunk,  *)
(* sends it in frames of at most layout.frame bytes, each numbered and     *)
(* each acknowledged (cmd/imajer-agent/main.go, stream); the controller    *)
(* puts the frames of a chunk together, writes it through the segment      *)
(* files, appends its record and advances (internal/controller,            *)
(* transferSession).  Module Acquisition treats a chunk as one frame and   *)
(* looks at crashes and bookkeeping around it; this module opens the       *)
(* frame and looks at what the link can do to it.                          *)
(*                                                                         *)
(* Simplifications: a frame is handled in one step (the writes of a chunk, *)
(* its record and the state are split in Acquisition); the identity fields *)
(* of a header are left out, one session's frames all carry the same.  The *)
(* byte at a position is told apart by the session that read it, because   *)
(* a live source may change between two sessions.                          *)
(***************************************************************************)
EXTENDS SegmentedImage, FiniteSets

CONSTANTS
    Extent,         \* bytes the source really holds
    Sizes,          \* sizes a job may declare, 0 where it declares none
    Layouts,        \* [chunk, frame, segment] sizes a job may choose
    MaxSessions,    \* bound: transfer sessions
    MaxFaults       \* bound: faults of the link

ASSUME FrameTransferAssumption ==
    /\ Extent \in Nat \ {0}
    /\ Sizes \subseteq Nat
    /\ Layouts \subseteq [chunk : Nat \ {0}, frame : Nat \ {0},
                          segment : Nat \ {0}]
    /\ \A l \in Layouts : l.frame <= l.chunk
    /\ MaxSessions \in Nat \ {0}
    /\ MaxFaults \in Nat

VARIABLES
    layout,         \* the job's chunk, frame and segment sizes
    size,           \* the size the job declares
    files,          \* the segment files
    records,        \* chunks.jsonl
    nextOffset,     \* state.NextOffset
    session,        \* sessions started so far
    start,          \* the offset the session was started at
    phase,          \* how the session stands at the controller
    assembled,      \* the chunk being put together, or None
    expected,       \* expectedSequence, expectedFrameIndex
    received,       \* what the session hash of the controller is taken of
    agent,          \* the agent's local variables
    streamed,       \* what the agent's stream hash is taken of
    sent,           \* the frames the agent wrote in this session
    frames,         \* on their way to the controller
    acks,           \* on their way to the agent
    faults          \* faults of the link so far

image == << files, records, nextOffset >>
controller == << phase, assembled, expected, received >>
link == << frames, acks, faults >>
vars == << layout, size, image, session, start, controller, agent, streamed,
           sent, link >>

None == << >>
Damaged == << 0, 0 >>          \* a byte no session read
Phases == {"idle", "open", "broken", "refused", "complete"}

SourceByte(p) == << p, session >>
Zero == [sequence |-> 0, index |-> 0]
Idle == [pc |-> "gone", current |-> 0, chunk |-> << >>, index |-> 0,
         sequence |-> 0, last |-> FALSE]

Init ==
    /\ layout \in Layouts
    /\ size \in Sizes
    /\ files = [i \in 0..(Extent \div layout.segment) |-> << >>]
    /\ records = << >>
    /\ nextOffset = 0
    /\ session = 0
    /\ start = 0
    /\ phase = "idle"
    /\ assembled = None
    /\ expected = Zero
    /\ received = << >>
    /\ agent = Idle
    /\ streamed = << >>
    /\ sent = << >>
    /\ frames = << >>
    /\ acks = << >>
    /\ faults = 0

-----------------------------------------------------------------------------
(* The controller opens a session at NextOffset; whatever was assembled in *)
(* an earlier one is gone with it.  Memory, whose size no job declares, is *)
(* not resumed: its next attempt is an artifact of its own.                *)
StartSession ==
    /\ \/ phase = "idle"
       \/ phase \in {"broken", "refused"} /\ size > 0
    /\ session < MaxSessions
    /\ session' = session + 1
    /\ start' = nextOffset
    /\ phase' = "open"
    /\ assembled' = None
    /\ expected' = Zero
    /\ received' = << >>
    /\ agent' = [Idle EXCEPT !.pc = "read", !.current = nextOffset]
    /\ streamed' = << >>
    /\ sent' = << >>
    /\ frames' = << >>
    /\ acks' = << >>
    /\ UNCHANGED << layout, size, image, faults >>

(* The session is over, its process closed and its pipes with it.          *)
Close(how) ==
    /\ phase' = how
    /\ assembled' = None
    /\ expected' = Zero
    /\ received' = << >>
    /\ agent' = Idle
    /\ streamed' = << >>
    /\ sent' = << >>
    /\ frames' = << >>
    /\ acks' = << >>
    /\ UNCHANGED << layout, size, image, session, start >>

-----------------------------------------------------------------------------
(* The agent. *)

Wanted == IF size > 0 /\ size - agent.current < layout.chunk
          THEN size - agent.current ELSE layout.chunk

Got == LET left == Extent - agent.current
       IN  IF left < Wanted THEN left ELSE Wanted

\* a short last read taken for the end of the source
ReadUntilShort ==
    /\ agent.pc = "read"
    /\ UNCHANGED << layout, size, image, session, start, controller, sent,
                    link >>
    /\ \/ /\ Wanted > 0 /\ Got = Wanted
          /\ agent' = [agent EXCEPT !.pc = "send", !.index = 0, !.chunk =
                         [i \in 1..Got |-> SourceByte(agent.current + i - 1)]]
          /\ streamed' = streamed \o agent'.chunk
       \/ /\ \/ Wanted = 0
             \/ size = 0 /\ Got < Wanted
          /\ agent' = [agent EXCEPT !.pc = "trailer"]
          /\ UNCHANGED streamed
       \/ /\ size > 0 /\ Got < Wanted
          /\ agent' = [agent EXCEPT !.pc = "gone"]
          /\ UNCHANGED streamed

(* io.ReadFull up to the chunk size, or up to the declared size: a whole   *)
(* chunk; a short last one, where no size is declared; the end; and the    *)
(* end before the declared size, which the agent gives up on.              *)
Read ==
    /\ agent.pc = "read"
    /\ UNCHANGED << layout, size, image, session, start, controller, sent,
                    link >>
    /\ \/ /\ Got > 0
          /\ Got = Wanted \/ size = 0
          /\ agent' = [agent EXCEPT !.pc = "send", !.index = 0,
                         !.last = Got < Wanted, !.chunk =
                         [i \in 1..Got |-> SourceByte(agent.current + i - 1)]]
          /\ streamed' = streamed \o agent'.chunk
       \/ /\ \/ Wanted = 0
             \/ size = 0 /\ Got = 0
          /\ agent' = [agent EXCEPT !.pc = "trailer"]
          /\ UNCHANGED streamed
       \/ /\ size > 0 /\ Got < Wanted
          /\ agent' = [agent EXCEPT !.pc = "gone"]
          /\ UNCHANGED streamed

FrameCount == (Len(agent.chunk) + layout.frame - 1) \div layout.frame

(* The agent's next frame: its own place in the stream, and the chunk it   *)
(* is a part of.                                                           *)
Frame ==
    LET at == agent.index * layout.frame
        payload == SubSeq(agent.chunk, at + 1,
                          IF at + layout.frame < Len(agent.chunk)
                          THEN at + layout.frame ELSE Len(agent.chunk))
    IN  [type |-> "data", sequence |-> agent.sequence,
         offset |-> agent.current + at, payload |-> payload,
         digest |-> payload, chunkOffset |-> agent.current,
         chunkDigest |-> agent.chunk, index |-> agent.index,
         count |-> FrameCount]

Trailer == [type |-> "trailer", sequence |-> agent.sequence,
            offset |-> agent.current, bytes |-> agent.current - start,
            stream |-> streamed]

Write(frame) ==
    /\ frames' = Append(frames, frame)
    /\ sent' = Append(sent, frame)
    /\ UNCHANGED << layout, size, image, session, start, controller, streamed,
                    acks, faults >>

SendFrame ==
    /\ agent.pc = "send"
    /\ agent' = [agent EXCEPT !.pc = "ack"]
    /\ Write(Frame)

SendTrailer ==
    /\ agent.pc = "trailer"
    /\ agent' = [agent EXCEPT !.pc = "gone"]
    /\ Write(Trailer)

(* ReadAck: after the last frame of a chunk the agent moves past it and    *)
(* reads on, or ends where that chunk was the short last one; a refusal    *)
(* ends the agent.                                                         *)
ReadAck ==
    /\ agent.pc = "ack"
    /\ acks # << >>
    /\ acks' = Tail(acks)
    /\ agent' =
         IF ~Head(acks) THEN [agent EXCEPT !.pc = "gone"]
         ELSE IF (agent.index + 1) * layout.frame < Len(agent.chunk)
              THEN [agent EXCEPT !.pc = "send", !.index = @ + 1,
                                 !.sequence = @ + 1]
              ELSE [agent EXCEPT !.pc = IF agent.last THEN "trailer"
                                        ELSE "read",
                                 !.current = @ + Len(agent.chunk),
                                 !.sequence = @ + 1]
    /\ UNCHANGED << layout, size, image, session, start, controller, streamed,
                    sent, frames, faults >>

-----------------------------------------------------------------------------
(* The controller: one step per frame it decodes. *)

\* the sequence number taken from the frame instead of compared
InSequenceAny(frame) == TRUE

(* A frame is the next one of the session and arrived as it was sent.      *)
InSequence(frame) == frame.sequence = expected.sequence

\* two digests compared by what their inputs are as long as
SameLength(bytes, digest) == Len(bytes) = Len(digest)

(* The digest of some bytes is the one a header gives.                     *)
SameDigest(bytes, digest) == bytes = digest

Undamaged(frame) == SameDigest(frame.payload, frame.digest)

(* The chunk a frame belongs to: the one being assembled, or a new one.    *)
Chunk(frame) ==
    IF assembled # None THEN assembled
    ELSE [offset |-> frame.chunkOffset, digest |-> frame.chunkDigest,
          count |-> frame.count, sequence |-> frame.sequence,
          bytes |-> << >>]

Consistent(frame, chunk) ==
    /\ Len(frame.chunkDigest) \in 1..layout.chunk
    /\ frame.count > 0
    /\ chunk.offset <= nextOffset
    /\ frame.chunkOffset = chunk.offset
    /\ frame.chunkDigest = chunk.digest
    /\ frame.index = expected.index
    /\ frame.count = chunk.count
    /\ frame.offset = chunk.offset + Len(chunk.bytes)

(* The chunk after this frame, what it makes of it, and whether the bytes  *)
(* put together are the chunk the agent digested.                          *)
Extended(frame) == [Chunk(frame) EXCEPT !.bytes = @ \o frame.payload]

Partial(frame) == Len(Extended(frame).bytes) < Len(frame.chunkDigest)

Whole(frame) ==
    /\ expected.index + 1 = Extended(frame).count
    /\ Len(Extended(frame).bytes) = Len(Extended(frame).digest)
    /\ SameDigest(Extended(frame).bytes, Extended(frame).digest)

(* A chunk below NextOffset is a replay: it must be in the log and on disk *)
(* already, and is not written again.                                      *)
Replay(frame) == Chunk(frame).offset < nextOffset

Acceptable(frame) ==
    /\ InSequence(frame)
    /\ Undamaged(frame)
    /\ Consistent(frame, Chunk(frame))
    /\ \/ Partial(frame)
       \/ /\ Whole(frame)
          /\ Replay(frame) => VerifyExistingChunk(files, records,
                                Chunk(frame).offset, Extended(frame).bytes,
                                layout.segment)

Arrived(type) == phase = "open" /\ frames # << >> /\ Head(frames).type = type

Acknowledge ==
    /\ frames' = Tail(frames)
    /\ acks' = Append(acks, TRUE)
    /\ UNCHANGED << layout, size, session, start, phase, agent, streamed,
                    sent, faults >>

AcceptPart ==
    /\ Arrived("data")
    /\ LET frame == Head(frames)
       IN  /\ Acceptable(frame)
           /\ Partial(frame)
           /\ assembled' = Extended(frame)
    /\ expected' = [sequence |-> expected.sequence + 1,
                    index |-> expected.index + 1]
    /\ UNCHANGED << image, received >>
    /\ Acknowledge

\* the frame index kept from one chunk to the next
StoreChunkNoReset ==
    /\ Arrived("data")
    /\ LET frame == Head(frames)
           chunk == Extended(frame)
       IN  /\ Acceptable(frame)
           /\ ~Partial(frame)
           /\ IF Replay(frame) THEN UNCHANGED << image, received >>
              ELSE /\ files' = WriteAt(files, chunk.bytes, chunk.offset,
                                       layout.segment)
                   /\ records' = Append(records,
                        [session |-> session, sequence |-> chunk.sequence,
                         offset |-> chunk.offset, digest |-> chunk.bytes])
                   /\ received' = received \o chunk.bytes
                   /\ nextOffset' = nextOffset + Len(chunk.bytes)
    /\ assembled' = None
    /\ expected' = [sequence |-> expected.sequence + 1,
                    index |-> expected.index + 1]
    /\ Acknowledge

(* The last frame of a chunk: the chunk is written, recorded, hashed and   *)
(* NextOffset moved, then acknowledged; a replay is only acknowledged.     *)
StoreChunk ==
    /\ Arrived("data")
    /\ LET frame == Head(frames)
           chunk == Extended(frame)
       IN  /\ Acceptable(frame)
           /\ ~Partial(frame)
           /\ IF Replay(frame) THEN UNCHANGED << image, received >>
              ELSE /\ files' = WriteAt(files, chunk.bytes, chunk.offset,
                                       layout.segment)
                   /\ records' = Append(records,
                        [session |-> session, sequence |-> chunk.sequence,
                         offset |-> chunk.offset, digest |-> chunk.bytes])
                   /\ received' = received \o chunk.bytes
                   /\ nextOffset' = nextOffset + Len(chunk.bytes)
    /\ assembled' = None
    /\ expected' = [sequence |-> expected.sequence + 1, index |-> 0]
    /\ Acknowledge

(* Anything else is refused, which ends the session.                       *)
RefuseFrame ==
    /\ Arrived("data")
    /\ ~Acceptable(Head(frames))
    /\ Close("refused")
    /\ UNCHANGED faults

TrailerMatches(frame) ==
    /\ assembled = None
    /\ frame.sequence = expected.sequence
    /\ frame.offset = nextOffset
    /\ frame.bytes = nextOffset - start
    /\ frame.stream = received
    /\ size > 0 => nextOffset = size

ReadTrailer ==
    /\ Arrived("trailer")
    /\ Close(IF TrailerMatches(Head(frames)) THEN "complete" ELSE "refused")
    /\ UNCHANGED faults

AgentWaits == agent.pc = "ack" /\ acks = << >>

\* a deadline set again when it passes inside a chunk
ReadAgain ==
    /\ phase = "open"
    /\ frames = << >>
    /\ agent.pc = "gone" \/ AgentWaits
    /\ IF AgentWaits /\ assembled # None THEN UNCHANGED vars
       ELSE Close("broken") /\ UNCHANGED faults

(* readFrameWithTimeout: the stream ends, or nothing more arrives on it    *)
(* because the agent waits for an answer.                                  *)
ReadFails ==
    /\ phase = "open"
    /\ frames = << >>
    /\ agent.pc = "gone" \/ AgentWaits
    /\ Close("broken")
    /\ UNCHANGED faults

-----------------------------------------------------------------------------
(* The link. *)

Fault == phase = "open" /\ faults < MaxFaults /\ faults' = faults + 1

OnLink == UNCHANGED << layout, size, image, session, start, controller, agent,
                       streamed, sent >>

(* A frame delivered a second time, some time after the first.             *)
RepeatFrame ==
    /\ Fault
    /\ \E i \in DOMAIN sent : frames' = Append(frames, sent[i])
    /\ UNCHANGED acks
    /\ OnLink

LoseFrame ==
    /\ Fault
    /\ frames # << >>
    /\ frames' = Tail(frames)
    /\ UNCHANGED acks
    /\ OnLink

DamageFrame ==
    /\ Fault
    /\ Arrived("data")
    /\ frames' = [frames EXCEPT ![1].payload[1] = Damaged]
    /\ UNCHANGED acks
    /\ OnLink

LoseAck ==
    /\ Fault
    /\ acks # << >>
    /\ acks' = Tail(acks)
    /\ UNCHANGED frames
    /\ OnLink

Disconnect ==
    /\ Fault
    /\ Close("broken")

(* No session is left to start, or none is needed.                         *)
Finished ==
    /\ phase = "complete" \/ (phase # "open" /\ (session = MaxSessions
                                                 \/ size = 0))
    /\ UNCHANGED vars

Agent == Read \/ SendFrame \/ SendTrailer \/ ReadAck
Controller == AcceptPart \/ StoreChunk \/ RefuseFrame \/ ReadTrailer
                \/ ReadFails
Link == RepeatFrame \/ LoseFrame \/ DamageFrame \/ LoseAck \/ Disconnect

Next == StartSession \/ Agent \/ Controller \/ Link \/ Finished

(* The agent and the controller are processes that run until they block;   *)
(* the deadline of a read is a timer.  Nothing makes the link fail.        *)
Fairness == WF_vars(Agent) /\ WF_vars(Controller)

Spec == Init /\ [][Next]_vars /\ Fairness

-----------------------------------------------------------------------------
Bytes == ((0..(Extent - 1)) \X (1..MaxSessions)) \cup {Damaged}

(* Shape of the state; no file is longer than a segment and NextOffset     *)
(* never passes the end of the source.                                     *)
TypeOK ==
    /\ layout \in Layouts
    /\ size \in Sizes
    /\ \A s \in DOMAIN files : /\ files[s] \in Seq(Bytes)
                               /\ Len(files[s]) <= layout.segment
    /\ nextOffset \in 0..Extent
    /\ session \in 0..MaxSessions
    /\ start \in 0..nextOffset
    /\ phase \in Phases
    /\ agent.pc \in {"gone", "read", "send", "ack", "trailer"}
    /\ agent.current \in 0..Extent
    /\ received \in Seq(Bytes)
    /\ streamed \in Seq(Bytes)
    /\ faults \in 0..MaxFaults

(* What the log says of a range is what reading that range back through    *)
(* the segment files gives, whichever segments it spans, at every moment:  *)
(* evidence.VerifyChunks passes.                                           *)
ChunksReadBack == VerifyChunks(files, records, layout.segment)

(* A chunk in the log is one read of the source: consecutive bytes, all of *)
(* the session its record names, joined to the chunk before it.  Frames    *)
(* of two chunks, of two sessions or damaged ones are never put together.  *)
ChunksAreOneRead ==
    \A i \in DOMAIN records :
        /\ records[i].digest = [k \in 1..Len(records[i].digest) |->
              << records[i].offset + k - 1, records[i].session >>]
        /\ records[i].offset = IF i = 1 THEN 0
              ELSE records[i - 1].offset + Len(records[i - 1].digest)

(* The bytes of the image, read through the segment files. *)
Delivered == ReadLogical(files, 0, nextOffset, layout.segment)

Delivery == INSTANCE ChunkDelivery
            WITH image <- Delivered, known <- agent.current, outcome <- phase

(* Frames, numbers and segment files implement delivery in order and once: *)
(* every step appends to the image the bytes this session read after those *)
(* already there, lets the agent know of them, opens or ends a session, or *)
(* changes nothing of the kind, even where the link repeats, damages or    *)
(* loses frames and answers.  The agent never believes a chunk delivered   *)
(* that the image does not have, no byte once written is written again,    *)
(* and a source is called complete only where the image has all of it.     *)
ImplementsDelivery == Delivery!Spec

(* Repeating the words of the test (state_test.go:                         *)
(* TestStreamingMerkleMatchesReferenceForOddAndEvenLeafCounts): the root   *)
(* of one node per level is the root of the tree built level by level.     *)
RootIsTheTree == MerkleRoot(records, Extent) = ReferenceRoot(records)

(* Where the link does nothing wrong and the source is as long as declared *)
(* no session fails, since the controller refuses no frame the agent       *)
(* sends; and a session called complete, whatever the link did, left the   *)
(* whole source in the image, the short last chunk of a source of          *)
(* undeclared size included.                                               *)
CleanTransfer ==
    size \in {0, Extent} =>
        /\ faults = 0 => phase \notin {"refused", "broken"}
        /\ phase = "complete" => nextOffset = Extent

(* A session ends whatever the link does: the agent waiting for an answer  *)
(* that was lost and the controller for a frame that will not come do not  *)
(* wait for each other for ever.                                           *)
SessionsEnd == (phase = "open") ~> (phase # "open")
=============================================================================
