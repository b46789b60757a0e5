-------------------------- MODULE FrameTransferProofs --------------------------
(***************************************************************************)
(* Proofs about FrameTransfer, for every extent, layout and number of      *)
(* faults: a chunk in the log is one read of the source, the log reads     *)
(* back from the files and has the root of its tree, on a link that does   *)
(* nothing wrong nothing goes wrong, and every step implements delivery in *)
(* order and once (ChunkDelivery).                                         *)
(*                                                                         *)
(* The argument is that of stop-and-wait.  The controller expects either   *)
(* the frame the agent sends now or the one after it; every frame on the   *)
(* link, repeated or not, has at most the agent's number, and one that has *)
(* it is the agent's present frame but for its payload.  The image is then *)
(* written in one action only, at its end, by the chunk the agent holds;   *)
(* what that does to the files is proved in SegmentedImageProofs.          *)
(***************************************************************************)
EXTENDS FrameTransfer, SegmentedImageProofs

-----------------------------------------------------------------------------
(* Acknowledgements. *)

AllTrue(s) == \A i \in 1..Len(s) : s[i] = TRUE

LEMMA AllTrueTail ==
  ASSUME NEW s, IsSeq(s), s # << >>, AllTrue(s)
  PROVE  Head(s) = TRUE /\ AllTrue(Tail(s))
<1>1. /\ Len(s) \in Nat /\ Len(s) >= 1 /\ Head(s) = s[1] /\ Len(Tail(s)) = Len(s) - 1
      /\ \A i \in 1..Len(Tail(s)) : Tail(s)[i] = s[i + 1]
  BY TailOf
<1>2. 1 \in 1..Len(s) /\ \A i \in 1..Len(Tail(s)) : i + 1 \in 1..Len(s)
  BY <1>1
<1>3. Head(s) = TRUE
  BY <1>1, <1>2, Zenon DEF AllTrue
<1>4. AllTrue(Tail(s))
  BY <1>1, <1>2, Zenon DEF AllTrue
<1>. QED
  BY <1>3, <1>4

LEMMA AllTrueAppend ==
  ASSUME NEW s, IsSeq(s), AllTrue(s)
  PROVE  AllTrue(Append(s, TRUE))
<1>1. /\ Len(s) \in Nat /\ Len(Append(s, TRUE)) = Len(s) + 1
      /\ \A i \in 1..Len(s) : Append(s, TRUE)[i] = s[i]
      /\ Append(s, TRUE)[Len(s) + 1] = TRUE
  BY AppendTo
<1>2. \A i \in 1..(Len(s) + 1) : i \in 1..Len(s) \/ i = Len(s) + 1
  BY <1>1
<1>. QED
  BY <1>1, <1>2, Zenon DEF AllTrue

LEMMA AllTrueEmpty == AllTrue(<< >>)
  BY EmptyIsSeq DEF AllTrue

-----------------------------------------------------------------------------
(* The invariant. *)

AgentFields == {"pc", "current", "chunk", "index", "sequence", "last"}
Busy == agent.pc \in {"send", "ack"}

(* The agent holds a chunk of this session's reads, and a frame of it is   *)
(* left; a source of undeclared size is read to its end.                   *)
AgentInv ==
    /\ DOMAIN agent = AgentFields
    /\ agent.sequence \in Nat /\ agent.index \in Nat
    /\ agent.current \in 0..Extent
    /\ Busy =>
         /\ Len(agent.chunk) \in Nat \ {0} /\ IsSeq(agent.chunk)
         /\ agent.current + Len(agent.chunk) <= Extent
         /\ agent.chunk = [i \in 1..Len(agent.chunk) |->
                             << agent.current + i - 1, session >>]
         /\ agent.index * layout.frame < Len(agent.chunk)
         /\ agent.last /\ size = 0 => agent.current + Len(agent.chunk) = Extent
    /\ agent.pc = "trailer" /\ size = 0 => agent.current = Extent

(* What is on the link, or may be repeated on it. *)
Genuine(frame) ==
    /\ frame.type \in {"data", "trailer"}
    /\ frame.sequence \in Nat /\ frame.sequence <= agent.sequence
    /\ frame.type = "data" /\ frame.sequence = agent.sequence =>
         /\ agent.pc = "ack"
         /\ frame.digest = Frame.digest
         /\ frame.chunkOffset = agent.current
         /\ frame.chunkDigest = agent.chunk
         /\ frame.index = agent.index
    /\ frame.type = "trailer" /\ size = 0 => frame.offset = Extent

LinkInv ==
    /\ IsSeq(frames) /\ \A i \in 1..Len(frames) : Genuine(frames[i])
    /\ IsSeq(sent) /\ \A i \in 1..Len(sent) : Genuine(sent[i])
    /\ IsSeq(acks) /\ AllTrue(acks)

ChunkFields == {"offset", "digest", "count", "sequence", "bytes"}

(* n bytes of the agent's chunk are put together. *)
Assembled(n) ==
    IF n = 0 THEN assembled = None
    ELSE /\ assembled # None
         /\ DOMAIN assembled = ChunkFields
         /\ assembled.offset = agent.current
         /\ assembled.digest = agent.chunk
         /\ IsSeq(assembled.bytes) /\ Len(assembled.bytes) = n

(* The controller expects the agent's present frame. *)
Behind ==
    /\ expected.sequence = agent.sequence
    /\ Len(acks) = 0
    /\ nextOffset = agent.current
    /\ IF Busy THEN expected.index = agent.index
                    /\ Assembled(agent.index * layout.frame)
       ELSE expected.index = 0 /\ assembled = None

(* The controller has taken it, and the agent may not know yet. *)
Ahead ==
    /\ expected.sequence = agent.sequence + 1
    /\ agent.pc = "ack"
    /\ Len(acks) <= 1
    /\ IF (agent.index + 1) * layout.frame < Len(agent.chunk)
       THEN /\ nextOffset = agent.current
            /\ expected.index = agent.index + 1
            /\ Assembled((agent.index + 1) * layout.frame)
       ELSE /\ nextOffset = agent.current + Len(agent.chunk)
            /\ expected.index = 0
            /\ assembled = None

LogInv ==
    /\ IsSeq(records)
    /\ ChunksAreOneRead
    /\ nextOffset = IF records = << >> THEN 0
                    ELSE records[Len(records)].offset
                           + Len(records[Len(records)].digest)

CompleteInv == phase = "complete" /\ size \in {0, Extent} => nextOffset = Extent

StopAndWait ==
    /\ layout \in Layouts /\ size \in Nat
    /\ nextOffset \in 0..Extent
    /\ LogInv
    /\ CompleteInv
    /\ phase = "open" => AgentInv /\ LinkInv /\ (Behind \/ Ahead)

LEMMA LayoutType ==
  ASSUME layout \in Layouts
  PROVE  /\ layout.chunk \in Nat \ {0} /\ layout.frame \in Nat \ {0}
         /\ layout.segment \in Nat \ {0}
  BY FrameTransferAssumption

LEMMA InitStopAndWait == Init => StopAndWait
<1>. SUFFICES ASSUME Init PROVE StopAndWait
  OBVIOUS
<1>1. layout \in Layouts /\ size \in Nat /\ nextOffset \in 0..Extent /\ phase = "idle"
  BY FrameTransferAssumption DEF Init
<1>2. LogInv
  BY EmptyIsSeq DEF Init, LogInv, ChunksAreOneRead
<1>. QED
  BY <1>1, <1>2 DEF StopAndWait, CompleteInv

(* A session that is over leaves nothing to hold but the log. *)
LEMMA CloseStep ==
  ASSUME StopAndWait, NEW how, Close(how), how # "open",
         how = "complete" /\ size \in {0, Extent} => nextOffset = Extent
  PROVE  StopAndWait'
<1>1. phase' = how /\ UNCHANGED << layout, size, files, records, nextOffset >>
  BY DEF Close, image
<1>. QED
  BY <1>1, Zenon DEF StopAndWait, LogInv, ChunksAreOneRead, CompleteInv

LEMMA StartStep == ASSUME StopAndWait, StartSession PROVE StopAndWait'
<1>1. /\ phase' = "open" /\ assembled' = None /\ expected' = Zero
      /\ frames' = << >> /\ acks' = << >> /\ sent' = << >>
      /\ UNCHANGED << layout, size, records, nextOffset >>
      /\ agent' = [Idle EXCEPT !.pc = "read", !.current = nextOffset]
  BY DEF StartSession, image
<1>2. /\ DOMAIN agent' = AgentFields /\ agent'.pc = "read" /\ agent'.sequence = 0
      /\ agent'.index = 0 /\ agent'.current = nextOffset
  BY <1>1 DEF Idle, AgentFields
<1>3. AgentInv'
  BY <1>1, <1>2 DEF AgentInv, Busy, StopAndWait
<1>4. LinkInv'
  BY <1>1, EmptyIsSeq, AllTrueEmpty DEF LinkInv
<1>5. Behind'
  BY <1>1, <1>2, EmptyIsSeq DEF Behind, Busy, Zero, Assembled
<1>. QED
  BY <1>1, <1>3, <1>4, <1>5, Zenon DEF StopAndWait, LogInv, ChunksAreOneRead, CompleteInv

-----------------------------------------------------------------------------
(* The agent. *)

(* An agent that has no frame on the link, or is past it, owns none of the *)
(* frames there.                                                           *)
LEMMA GenuineKept ==
  ASSUME size' = size, agent'.sequence \in Nat, agent.sequence \in Nat,
         \/ agent.pc # "ack" /\ agent'.sequence = agent.sequence
         \/ agent'.sequence = agent.sequence + 1
  PROVE  \A frame : Genuine(frame) => Genuine(frame)'
<1>. TAKE frame
<1>. HAVE Genuine(frame)
<1>1. /\ frame.type \in {"data", "trailer"}
      /\ frame.sequence \in Nat /\ frame.sequence <= agent.sequence
      /\ frame.type = "data" => ~(frame.sequence = agent.sequence /\ agent.pc # "ack")
      /\ frame.type = "trailer" /\ size = 0 => frame.offset = Extent
  BY DEF Genuine
<1>2. frame.sequence <= agent'.sequence
  BY <1>1
<1>3. ~(frame.type = "data" /\ frame.sequence = agent'.sequence)
  BY <1>1
<1>. QED
  BY <1>1, <1>2, <1>3 DEF Genuine

LEMMA LinkKept ==
  ASSUME LinkInv, UNCHANGED << frames, sent, acks >>,
         \A frame : Genuine(frame) => Genuine(frame)'
  PROVE  LinkInv'
  BY DEF LinkInv

LEMMA GotType ==
  ASSUME layout \in Layouts, size \in Nat, agent.current \in 0..Extent
  PROVE  Wanted \in Int /\ Got \in Int /\ Got <= Extent - agent.current
  BY LayoutType, FrameTransferAssumption DEF Wanted, Got

LEMMA ReadStep == ASSUME StopAndWait, Read PROVE StopAndWait'
<1>1. /\ agent.pc = "read"
      /\ UNCHANGED << layout, size, records, nextOffset, session, phase, assembled, expected,
                      frames, acks, sent >>
  BY DEF Read, image, controller, link
<1>. SUFFICES ASSUME phase = "open" PROVE AgentInv' /\ LinkInv' /\ Behind'
  BY <1>1, Zenon DEF StopAndWait, LogInv, ChunksAreOneRead, CompleteInv
<1>2. AgentInv /\ LinkInv /\ Behind
  BY <1>1 DEF StopAndWait, Ahead
<1>3. Got \in Int /\ Wanted \in Int /\ Got <= Extent - agent.current
  BY <1>2, GotType DEF StopAndWait, AgentInv
<1>4. CASE /\ Got > 0
           /\ agent' = [agent EXCEPT !.pc = "send", !.index = 0,
                          !.last = Got < Wanted, !.chunk =
                          [i \in 1..Got |-> SourceByte(agent.current + i - 1)]]
           /\ Got = Wanted \/ size = 0
  <2>. DEFINE bytes == [i \in 1..Got |-> SourceByte(agent.current + i - 1)]
  <2>1. /\ DOMAIN agent' = AgentFields /\ agent'.pc = "send" /\ agent'.index = 0
        /\ agent'.last = (Got < Wanted) /\ agent'.chunk = bytes
        /\ agent'.sequence = agent.sequence /\ agent'.current = agent.current
    BY <1>2, <1>4 DEF AgentInv, AgentFields
  <2>2. DOMAIN bytes = 1..Got /\ bytes = [i \in 1..Got |-> bytes[i]] /\ Got \in Nat
    BY <1>3, <1>4
  <2>3. IsSeq(bytes) /\ Len(bytes) = Got
    BY <2>2, FunctionIsSeq
  <2>4. bytes = [i \in 1..Len(bytes) |-> << agent.current + i - 1, session >>]
    BY <2>3 DEF SourceByte
  <2>. HIDE DEF bytes
  <2>5. agent'.index * layout'.frame = 0
    BY <1>1, <2>1, LayoutType DEF StopAndWait
  <2>6. Got < Wanted /\ size = 0 => agent.current + Got = Extent
    BY <1>2, <1>3, FrameTransferAssumption DEF Got, AgentInv
  <2>7. AgentInv'
    <3>1. agent'.index \in Nat /\ agent'.sequence \in Nat /\ agent'.current \in 0..Extent
      BY <1>2, <2>1 DEF AgentInv
    <3>2. Len(bytes) \in Nat \ {0} /\ agent.current + Len(bytes) <= Extent
      BY <1>2, <1>3, <1>4, <2>3, FrameTransferAssumption DEF AgentInv
    <3>3. agent'.last /\ size = 0 => agent.current + Len(bytes) = Extent
      BY <2>1, <2>3, <2>6
    <3>4. agent'.chunk = [i \in 1..Len(agent'.chunk) |-> << agent'.current + i - 1, session' >>]
      BY <1>1, <2>1, <2>4
    <3>5. agent'.index * layout'.frame < Len(agent'.chunk)
      BY <2>1, <2>5, <3>2
    <3>. QED
      BY <1>1, <2>1, <2>3, <3>1, <3>2, <3>3, <3>4, <3>5 DEF AgentInv, Busy
  <2>8. LinkInv'
    BY <1>1, <1>2, <2>1, GenuineKept, LinkKept DEF AgentInv
  <2>9. Behind'
    BY <1>1, <1>2, <2>1, <2>5 DEF Behind, Busy, Assembled
  <2>. QED
    BY <2>7, <2>8, <2>9
<1>5. CASE \/ /\ Wanted = 0 \/ (size = 0 /\ Got = 0)
              /\ agent' = [agent EXCEPT !.pc = "trailer"]
           \/ agent' = [agent EXCEPT !.pc = "gone"]
  <2>1. /\ DOMAIN agent' = AgentFields /\ agent'.pc \in {"trailer", "gone"}
        /\ agent'.index = agent.index
        /\ agent'.sequence = agent.sequence /\ agent'.current = agent.current
    BY <1>2, <1>5 DEF AgentInv, AgentFields
  <2>2. agent'.pc = "trailer" /\ size = 0 => agent.current = Extent
    <3>1. agent'.pc = "trailer" => Wanted = 0 \/ (size = 0 /\ Got = 0)
      BY <1>2, <1>5 DEF AgentInv, AgentFields
    <3>2. size = 0 => Wanted > 0
      BY LayoutType DEF Wanted, StopAndWait
    <3>. QED
      BY <1>2, <1>3, <3>1, <3>2, FrameTransferAssumption DEF Got, AgentInv
  <2>3. AgentInv'
    BY <1>1, <1>2, <2>1, <2>2 DEF AgentInv, Busy
  <2>4. LinkInv'
    BY <1>1, <1>2, <2>1, GenuineKept, LinkKept DEF AgentInv
  <2>5. Behind'
    BY <1>1, <1>2, <2>1 DEF Behind, Busy
  <2>. QED
    BY <2>3, <2>4, <2>5
<1>. QED
  BY <1>4, <1>5 DEF Read

(* A frame the agent writes is its present frame. *)
LEMMA WriteStep ==
  ASSUME StopAndWait, NEW frame, Write(frame), phase = "open",
         AgentInv', Genuine(frame)', \A f : Genuine(f) => Genuine(f)', Behind => Behind', Behind
  PROVE  StopAndWait'
<1>1. /\ frames' = Append(frames, frame) /\ sent' = Append(sent, frame)
      /\ UNCHANGED << layout, size, records, nextOffset, session, phase, assembled, expected, acks >>
  BY DEF Write, image, controller
<1>2. LinkInv
  BY DEF StopAndWait
<1>3. LinkInv'
  <2>1. \A i \in 1..Len(frames') : Genuine(frames[i])'
    <3>. TAKE i \in 1..Len(frames')
    <3>1. i \in 1..Len(frames) \/ i = Len(frames) + 1
      BY <1>1, <1>2, AppendTo DEF LinkInv
    <3>. QED
      BY <1>1, <1>2, <3>1, AppendTo DEF LinkInv
  <2>2. \A i \in 1..Len(sent') : Genuine(sent[i])'
    <3>. TAKE i \in 1..Len(sent')
    <3>1. i \in 1..Len(sent) \/ i = Len(sent) + 1
      BY <1>1, <1>2, AppendTo DEF LinkInv
    <3>. QED
      BY <1>1, <1>2, <3>1, AppendTo DEF LinkInv
  <2>. QED
    BY <1>1, <1>2, <2>1, <2>2, AppendTo DEF LinkInv
<1>. QED
  BY <1>1, <1>3, Zenon DEF StopAndWait, LogInv, ChunksAreOneRead, CompleteInv

LEMMA SendFrameStep == ASSUME StopAndWait, phase = "open", SendFrame PROVE StopAndWait'
<1>. PICK f : f = Frame
  OBVIOUS
<1>1. /\ agent.pc = "send" /\ agent' = [agent EXCEPT !.pc = "ack"] /\ Write(f)
      /\ UNCHANGED << layout, size, nextOffset, session, assembled, expected, acks >>
  BY DEF SendFrame, Write, image, controller
<1>2. AgentInv /\ LinkInv /\ Behind
  BY <1>1 DEF StopAndWait, Ahead
<1>3. /\ DOMAIN agent' = AgentFields /\ agent'.pc = "ack" /\ agent'.index = agent.index
      /\ agent'.last = agent.last /\ agent'.chunk = agent.chunk
      /\ agent'.sequence = agent.sequence /\ agent'.current = agent.current
  BY <1>1, <1>2 DEF AgentInv, AgentFields
<1>4. AgentInv'
  BY <1>1, <1>2, <1>3 DEF AgentInv, Busy
<1>5. Genuine(f)'
  <2>1. Frame' = Frame
    BY <1>1, <1>3 DEF Frame, FrameCount
  <2>2. /\ f.type = "data" /\ f.sequence = agent.sequence /\ f.chunkOffset = agent.current
        /\ f.chunkDigest = agent.chunk /\ f.index = agent.index
    BY DEF Frame
  <2>. QED
    BY <1>2, <1>3, <2>1, <2>2 DEF Genuine, AgentInv
<1>6. \A g : Genuine(g) => Genuine(g)'
  BY <1>1, <1>2, <1>3, GenuineKept DEF AgentInv
<1>7. Behind'
  BY <1>1, <1>2, <1>3 DEF Behind, Busy, Assembled
<1>. QED
  BY <1>1, <1>2, <1>4, <1>5, <1>6, <1>7, WriteStep

LEMMA SendTrailerStep == ASSUME StopAndWait, phase = "open", SendTrailer PROVE StopAndWait'
<1>. PICK f : f = Trailer
  OBVIOUS
<1>1. /\ agent.pc = "trailer" /\ agent' = [agent EXCEPT !.pc = "gone"] /\ Write(f)
      /\ UNCHANGED << layout, size, nextOffset, session, assembled, expected, acks >>
  BY DEF SendTrailer, Write, image, controller
<1>2. AgentInv /\ LinkInv /\ Behind
  BY <1>1 DEF StopAndWait, Ahead
<1>3. /\ DOMAIN agent' = AgentFields /\ agent'.pc = "gone" /\ agent'.index = agent.index
      /\ agent'.sequence = agent.sequence /\ agent'.current = agent.current
  BY <1>1, <1>2 DEF AgentInv, AgentFields
<1>4. AgentInv'
  BY <1>1, <1>2, <1>3 DEF AgentInv, Busy
<1>5. Genuine(f)'
  <2>1. f.type = "trailer" /\ f.sequence = agent.sequence /\ f.offset = agent.current
    BY DEF Trailer
  <2>. QED
    BY <1>1, <1>2, <1>3, <2>1 DEF Genuine, AgentInv
<1>6. \A g : Genuine(g) => Genuine(g)'
  BY <1>1, <1>2, <1>3, GenuineKept DEF AgentInv
<1>7. Behind'
  BY <1>1, <1>2, <1>3 DEF Behind, Busy
<1>. QED
  BY <1>1, <1>2, <1>4, <1>5, <1>6, <1>7, WriteStep

LEMMA ReadAckStep == ASSUME StopAndWait, phase = "open", ReadAck PROVE StopAndWait'
<1>1. /\ agent.pc = "ack" /\ acks # << >> /\ acks' = Tail(acks)
      /\ UNCHANGED << layout, size, records, nextOffset, session, phase, assembled, expected,
                      frames, sent >>
  BY DEF ReadAck, image, controller
<1>2. AgentInv /\ LinkInv
  BY DEF StopAndWait
<1>3. /\ IsSeq(acks') /\ Len(acks') = Len(acks) - 1
      /\ Len(acks) \in Nat /\ Len(acks) >= 1
  BY <1>1, <1>2, TailOf DEF LinkInv
<1>a. Head(acks) = TRUE /\ AllTrue(acks')
  BY <1>1, <1>2, AllTrueTail, Zenon DEF LinkInv
<1>b. ~(~Head(acks))
  BY <1>a
<1>4. Ahead /\ Len(acks') = 0
  <2>1. Len(acks) # 0
    BY <1>3
  <2>2. Ahead
    BY <2>1 DEF StopAndWait, Behind
  <2>. QED
    BY <1>3, <2>2 DEF Ahead
<1>5. agent.index + 1 \in Nat /\ agent.sequence + 1 \in Nat
  BY <1>2 DEF AgentInv
<1>6. (agent.index + 1) * layout.frame \in Nat
  BY <1>5, LayoutType DEF StopAndWait
<1>7. CASE (agent.index + 1) * layout.frame < Len(agent.chunk)
  <2>1. /\ DOMAIN agent' = AgentFields /\ agent'.pc = "send" /\ agent'.index = agent.index + 1
        /\ agent'.last = agent.last /\ agent'.chunk = agent.chunk
        /\ agent'.sequence = agent.sequence + 1 /\ agent'.current = agent.current
    BY <1>2, <1>b, <1>7 DEF ReadAck, AgentInv, AgentFields
  <2>2. AgentInv'
    BY <1>1, <1>2, <1>5, <1>7, <2>1 DEF AgentInv, Busy
  <2>3. LinkInv'
    <3>1. \A f : Genuine(f) => Genuine(f)'
      BY <1>1, <1>2, <1>5, <2>1, GenuineKept DEF AgentInv
    <3>. QED
      BY <1>1, <1>2, <1>3, <1>a, <3>1, Zenon DEF LinkInv
  <2>4. Behind'
    BY <1>1, <1>4, <1>7, <2>1 DEF Behind, Ahead, Busy, Assembled
  <2>. QED
    BY <1>1, <2>2, <2>3, <2>4, Zenon DEF StopAndWait, LogInv, ChunksAreOneRead, CompleteInv
<1>8. CASE ~((agent.index + 1) * layout.frame < Len(agent.chunk))
  <2>1. /\ DOMAIN agent' = AgentFields
        /\ agent'.pc = IF agent.last THEN "trailer" ELSE "read"
        /\ agent'.index = agent.index
        /\ agent'.sequence = agent.sequence + 1
        /\ agent'.current = agent.current + Len(agent.chunk)
    BY <1>2, <1>b, <1>8 DEF ReadAck, AgentInv, AgentFields
  <2>2. AgentInv'
    BY <1>1, <1>2, <1>5, <2>1 DEF AgentInv, Busy
  <2>3. LinkInv'
    <3>1. \A f : Genuine(f) => Genuine(f)'
      BY <1>1, <1>2, <1>5, <2>1, GenuineKept DEF AgentInv
    <3>. QED
      BY <1>1, <1>2, <1>3, <1>a, <3>1, Zenon DEF LinkInv
  <2>4. Behind'
    BY <1>1, <1>4, <1>8, <2>1 DEF Behind, Ahead, Busy
  <2>. QED
    BY <1>1, <2>2, <2>3, <2>4, Zenon DEF StopAndWait, LogInv, ChunksAreOneRead, CompleteInv
<1>. QED
  BY <1>7, <1>8

-----------------------------------------------------------------------------
(* The link. *)

(* A step of the link changes what is on it and nothing else. *)
LEMMA OnLinkStep ==
  ASSUME StopAndWait, OnLink, phase = "open",
         IsSeq(frames'), \A i \in 1..Len(frames') : Genuine(frames[i])',
         acks' = acks \/ (acks # << >> /\ acks' = Tail(acks))
  PROVE  StopAndWait'
<1>1. UNCHANGED << layout, size, records, nextOffset, session, phase, assembled, expected, agent,
                   sent >>
  BY DEF OnLink, image, controller
<1>2. AgentInv /\ LinkInv /\ (Behind \/ Ahead)
  BY DEF StopAndWait
<1>3. \A f : Genuine(f) <=> Genuine(f)'
  BY <1>1 DEF Genuine, Frame, FrameCount
<1>4. /\ IsSeq(acks') /\ (Len(acks) = 0 => Len(acks') = 0) /\ (Len(acks) <= 1 => Len(acks') <= 1)
  <2>1. CASE acks # << >> /\ acks' = Tail(acks)
    BY <1>2, <2>1, TailOf DEF LinkInv
  <2>. QED
    BY <1>2, <2>1 DEF LinkInv
<1>a. AllTrue(acks')
  BY <1>2, AllTrueTail, Zenon DEF LinkInv
<1>5. AgentInv'
  BY <1>1, <1>2 DEF AgentInv, Busy
<1>6. LinkInv'
  BY <1>1, <1>2, <1>3, <1>4, <1>a, Zenon DEF LinkInv
<1>7. Behind' \/ Ahead'
  BY <1>1, <1>2, <1>4 DEF Behind, Ahead, Busy, Assembled
<1>. QED
  BY <1>1, <1>5, <1>6, <1>7, Zenon DEF StopAndWait, LogInv, ChunksAreOneRead, CompleteInv

LEMMA LinkStep == ASSUME StopAndWait, Link PROVE StopAndWait'
<1>1. CASE Disconnect
  BY <1>1, CloseStep DEF Disconnect
<1>. SUFFICES ASSUME RepeatFrame \/ LoseFrame \/ DamageFrame \/ LoseAck PROVE StopAndWait'
  BY <1>1 DEF Link
<1>2. phase = "open" /\ OnLink /\ LinkInv
  BY DEF RepeatFrame, LoseFrame, DamageFrame, LoseAck, Fault, StopAndWait
<1>3. UNCHANGED << layout, size, agent, sent >>
  BY <1>2 DEF OnLink
<1>4. \A f : Genuine(f) => Genuine(f)'
  BY <1>3 DEF Genuine, Frame, FrameCount
<1>5. acks' = acks \/ (acks # << >> /\ acks' = Tail(acks))
  BY DEF RepeatFrame, LoseFrame, DamageFrame, LoseAck
<1>6. IsSeq(frames') /\ \A i \in 1..Len(frames') : Genuine(frames[i])'
  <2>1. CASE RepeatFrame
    <3>1. PICK k \in DOMAIN sent : frames' = Append(frames, sent[k])
      BY <2>1 DEF RepeatFrame
    <3>2. k \in 1..Len(sent)
      BY <1>2, <3>1 DEF LinkInv, IsSeq
    <3>3. Genuine(sent[k])
      BY <1>2, <3>2 DEF LinkInv
    <3>4. \A i \in 1..Len(frames') : Genuine(frames[i])'
      <4>. TAKE i \in 1..Len(frames')
      <4>1. i \in 1..Len(frames) \/ i = Len(frames) + 1
        BY <1>2, <3>1, AppendTo DEF LinkInv
      <4>. QED
        BY <1>2, <1>4, <3>1, <3>3, <4>1, AppendTo DEF LinkInv
    <3>. QED
      BY <1>2, <3>1, <3>4, AppendTo DEF LinkInv
  <2>2. CASE LoseFrame
    <3>1. frames # << >> /\ frames' = Tail(frames)
      BY <2>2 DEF LoseFrame
    <3>. QED
      BY <1>2, <1>4, <3>1, TailOf DEF LinkInv
  <2>3. CASE DamageFrame
    <3>. PICK e : e = [frames[1] EXCEPT !.payload = [frames[1].payload EXCEPT ![1] = Damaged]]
      OBVIOUS
    <3>1. frames # << >> /\ frames' = [frames EXCEPT ![1] = e]
      BY <2>3 DEF DamageFrame, Arrived
    <3>2. /\ e.type = frames[1].type /\ e.sequence = frames[1].sequence
          /\ e.digest = frames[1].digest /\ e.chunkOffset = frames[1].chunkOffset
          /\ e.chunkDigest = frames[1].chunkDigest /\ e.index = frames[1].index
          /\ e.offset = frames[1].offset
      OBVIOUS
    <3>3. Genuine(frames[1]) => Genuine(e)
      BY <3>2 DEF Genuine
    <3>4. /\ IsSeq(frames') /\ Len(frames') = Len(frames) /\ frames'[1] = e
          /\ \A i \in 2..Len(frames) : frames'[i] = frames[i]
      <4>1. Len(frames) \in Nat /\ Len(frames) >= 1 /\ DOMAIN frames = 1..Len(frames)
        BY <1>2, <3>1, DomainOfSeq DEF LinkInv
      <4>2. /\ DOMAIN frames' = 1..Len(frames) /\ frames'[1] = e
            /\ \A i \in 2..Len(frames) : frames'[i] = frames[i]
        BY <3>1, <4>1
      <4>3. frames' = [i \in 1..Len(frames) |-> IF i = 1 THEN e ELSE frames[i]]
        BY <3>1, <4>1
      <4>4. frames' = [i \in 1..Len(frames) |-> frames'[i]]
        BY ONLY <4>3
      <4>. QED
        BY <4>1, <4>2, <4>4, FunctionIsSeq
    <3>5. Len(frames) \in Nat /\ 1 \in 1..Len(frames)
      BY <1>2, <3>1, TailOf DEF LinkInv
    <3>6. \A i \in 1..Len(frames') : Genuine(frames[i])'
      <4>. TAKE i \in 1..Len(frames')
      <4>1. i = 1 \/ i \in 2..Len(frames)
        BY <3>4, <3>5
      <4>. QED
        BY <1>2, <1>4, <3>3, <3>4, <3>5, <4>1 DEF LinkInv
    <3>. QED
      BY <3>4, <3>6
  <2>4. CASE LoseAck
    BY <1>2, <1>4, <2>4 DEF LoseAck, LinkInv
  <2>. QED
    BY <2>1, <2>2, <2>3, <2>4
<1>. QED
  BY <1>2, <1>5, <1>6, OnLinkStep

-----------------------------------------------------------------------------
(* The controller. *)

(* The log grows by one read of the source that begins where it ended. *)
LEMMA LogGrows ==
  ASSUME LogInv, NEW r, records' = Append(records, r), r.offset = nextOffset,
         r.digest = [k \in 1..Len(r.digest) |-> << r.offset + k - 1, r.session >>],
         nextOffset' = nextOffset + Len(r.digest)
  PROVE  LogInv'
<1>1. /\ IsSeq(records') /\ Len(records) \in Nat /\ Len(records') = Len(records) + 1
      /\ \A i \in 1..Len(records) : records'[i] = records[i]
      /\ records'[Len(records) + 1] = r
  BY AppendTo DEF LogInv
<1>2. DOMAIN records = 1..Len(records) /\ DOMAIN records' = 1..Len(records')
      /\ (records # << >> => Len(records) >= 1)
  BY <1>1, DomainOfSeq DEF LogInv
<1>3. records = << >> <=> Len(records) = 0
  BY <1>2, EmptyIsSeq
<1>4. ChunksAreOneRead'
  <2>. SUFFICES ASSUME NEW i \in DOMAIN records'
                PROVE  /\ records'[i].digest = [k \in 1..Len(records'[i].digest) |->
                             << records'[i].offset + k - 1, records'[i].session >>]
                       /\ records'[i].offset = IF i = 1 THEN 0
                             ELSE records'[i - 1].offset + Len(records'[i - 1].digest)
    BY DEF ChunksAreOneRead
  <2>1. CASE i \in 1..Len(records)
    <3>1. records'[i] = records[i] /\ i \in DOMAIN records
      BY <1>1, <1>2, <2>1
    <3>2. i # 1 => records'[i - 1] = records[i - 1]
      BY <1>1, <2>1
    <3>. QED
      BY <3>1, <3>2 DEF LogInv, ChunksAreOneRead
  <2>2. CASE i = Len(records) + 1
    <3>1. records'[i] = r /\ i - 1 = Len(records)
      BY <1>1, <2>2
    <3>2. CASE i = 1
      <4>1. records = << >>
        BY <1>1, <1>3, <3>1, <3>2
      <4>. QED
        BY <3>1, <3>2, <4>1 DEF LogInv
    <3>3. CASE i # 1
      <4>1. Len(records) \in 1..Len(records) /\ records # << >>
        BY <1>1, <1>3, <2>2, <3>3
      <4>2. records'[i - 1] = records[Len(records)]
        BY <1>1, <3>1, <4>1
      <4>3. nextOffset = records[Len(records)].offset + Len(records[Len(records)].digest)
        BY <4>1 DEF LogInv
      <4>. QED
        BY <3>1, <3>3, <4>2, <4>3
    <3>. QED
      BY <3>2, <3>3
  <2>3. i \in 1..Len(records) \/ i = Len(records) + 1
    BY <1>1, <1>2
  <2>. QED
    BY <2>1, <2>2, <2>3
<1>5. records' # << >> /\ records'[Len(records')] = r
  BY <1>1, EmptyIsSeq
<1>. QED
  BY <1>1, <1>4, <1>5 DEF LogInv

(* What the controller makes of a frame it accepts: it is the agent's      *)
(* present one, and its chunk the agent's chunk as far as it was sent.     *)
NextByte == (agent.index + 1) * layout.frame

LEMMA Accepting ==
  ASSUME StopAndWait, Arrived("data"), NEW f, f = Head(frames), Acceptable(f)
  PROVE  /\ Behind /\ agent.pc = "ack"
         /\ NextByte \in Nat \ {0}
         /\ Chunk(f).offset = nextOffset
         /\ DOMAIN Extended(f) = ChunkFields
         /\ Extended(f).offset = agent.current /\ Extended(f).digest = agent.chunk
         /\ IsSeq(Extended(f).bytes)
         /\ Partial(f) <=> NextByte < Len(agent.chunk)
         /\ Partial(f) => Len(Extended(f).bytes) = NextByte
         /\ ~Partial(f) => Extended(f).bytes = agent.chunk
<1>1. AgentInv /\ LinkInv /\ phase = "open" /\ frames # << >> /\ f.type = "data"
  BY DEF StopAndWait, Arrived
<1>2. Genuine(f)
  <2>1. 1 \in 1..Len(frames) /\ f = frames[1]
    BY <1>1, TailOf DEF LinkInv
  <2>. QED
    BY <1>1, <2>1 DEF LinkInv
<1>3. f.sequence = expected.sequence /\ f.payload = f.digest /\ f.sequence \in Nat
  BY <1>2 DEF Acceptable, InSequence, Undamaged, SameDigest, Genuine
<1>4. Behind
  BY <1>1, <1>2, <1>3 DEF StopAndWait, Ahead, Genuine, AgentInv
<1>5. /\ f.sequence = agent.sequence /\ agent.pc = "ack" /\ Busy
      /\ f.digest = Frame.digest /\ f.chunkOffset = agent.current
      /\ f.chunkDigest = agent.chunk
  BY <1>1, <1>2, <1>3, <1>4 DEF Genuine, Behind, Busy
<1>. DEFINE at == agent.index * layout.frame
            len == Len(agent.chunk)
            upto == IF at + layout.frame < len THEN at + layout.frame ELSE len
<1>6. /\ agent.index \in Nat /\ layout.frame \in Nat \ {0} /\ at \in Nat
      /\ NextByte = at + layout.frame /\ len \in Nat \ {0} /\ at < len /\ IsSeq(agent.chunk)
  BY <1>1, <1>5, LayoutType DEF AgentInv, StopAndWait, NextByte
<1>7. f.payload = SubSeq(agent.chunk, at + 1, upto)
  BY <1>3, <1>5 DEF Frame
<1>8. Assembled(at) /\ nextOffset = agent.current
  BY <1>4, <1>5 DEF Behind
<1>. HIDE DEF at, len
<1>9. upto \in Nat /\ at + 1 <= upto /\ upto <= len /\ at + 1 \in Nat /\ 1 <= at + 1
  BY <1>6
<1>. HIDE DEF upto
<1>10. IsSeq(f.payload) /\ Len(f.payload) = upto - at
  <2>1. IsSeq(SubSeq(agent.chunk, at + 1, upto))
        /\ Len(SubSeq(agent.chunk, at + 1, upto)) = upto - (at + 1) + 1
    BY <1>6, <1>9, SubSeqOf DEF len, IsPart
  <2>2. upto - (at + 1) + 1 = upto - at
    BY <1>6, <1>9
  <2>. QED
    BY <1>7, <2>1, <2>2
<1>11. /\ DOMAIN Chunk(f) = ChunkFields
       /\ Chunk(f).offset = agent.current /\ Chunk(f).digest = agent.chunk
       /\ IsSeq(Chunk(f).bytes) /\ Len(Chunk(f).bytes) = at
  <2>1. CASE at = 0
    BY <1>5, <1>8, <2>1, EmptyIsSeq DEF Assembled, Chunk, ChunkFields
  <2>2. CASE at # 0
    BY <1>8, <2>2 DEF Assembled, Chunk
  <2>. QED
    BY <2>1, <2>2
<1>12. /\ DOMAIN Extended(f) = ChunkFields
       /\ Extended(f).offset = agent.current /\ Extended(f).digest = agent.chunk
       /\ Extended(f).bytes = Chunk(f).bytes \o f.payload
  BY <1>11 DEF Extended, ChunkFields
<1>13. IsSeq(Extended(f).bytes) /\ Len(Extended(f).bytes) = upto
  <2>1. IsSeq(Chunk(f).bytes \o f.payload)
        /\ Len(Chunk(f).bytes \o f.payload) = Len(Chunk(f).bytes) + Len(f.payload)
    BY <1>10, <1>11, ConcatOf DEF Extends
  <2>2. at + (upto - at) = upto
    BY <1>6, <1>9
  <2>. QED
    BY <1>10, <1>11, <1>12, <2>1, <2>2, Zenon
<1>14. Partial(f) <=> upto < len
  BY <1>5, <1>13 DEF Partial, len
<1>15. (upto < len <=> NextByte < len) /\ (upto < len => upto = NextByte)
  BY <1>6 DEF upto
<1>16. NextByte \in Nat \ {0}
  BY <1>6
<1>17. ~Partial(f) => Extended(f).bytes = agent.chunk
  BY <1>12 DEF Acceptable, Whole, SameDigest
<1>. QED
  BY <1>4, <1>5, <1>8, <1>11, <1>12, <1>13, <1>14, <1>15, <1>16, <1>17 DEF len

(* The controller answers a frame it accepted. *)
LEMMA AcknowledgeStep ==
  ASSUME StopAndWait, Arrived("data"), Acknowledge, Behind, agent.pc = "ack"
  PROVE  /\ AgentInv' /\ LinkInv' /\ IsSeq(acks') /\ Len(acks') = 1
         /\ UNCHANGED << layout, size, session, phase, agent >>
         /\ phase = "open"
<1>1. /\ frames' = Tail(frames) /\ acks' = Append(acks, TRUE)
      /\ UNCHANGED << layout, size, session, phase, agent, sent >>
  BY DEF Acknowledge
<1>2. AgentInv /\ LinkInv /\ frames # << >> /\ phase = "open"
  BY DEF StopAndWait, Arrived
<1>3. \A f : Genuine(f) => Genuine(f)'
  BY <1>1 DEF Genuine, Frame, FrameCount
<1>4. /\ IsSeq(frames') /\ \A i \in 1..Len(frames') : Genuine(frames[i])'
  BY <1>1, <1>2, <1>3, TailOf DEF LinkInv
<1>5. IsSeq(acks') /\ Len(acks') = 1
  <2>. PICK e : e = TRUE
    OBVIOUS
  <2>1. acks' = Append(acks, e) /\ IsSeq(acks)
    BY <1>1, <1>2, Zenon DEF LinkInv
  <2>2. IsSeq(acks') /\ Len(acks') = Len(acks) + 1
    BY ONLY <2>1, AppendTo
  <2>. QED
    BY <2>2 DEF Behind
<1>6. AllTrue(acks')
  BY <1>1, <1>2, AllTrueAppend, Zenon DEF LinkInv
<1>7. LinkInv'
  BY <1>1, <1>2, <1>3, <1>4, <1>5, <1>6, Zenon DEF LinkInv
<1>8. AgentInv'
  BY <1>1, <1>2 DEF AgentInv, Busy
<1>. QED
  BY <1>1, <1>2, <1>5, <1>7, <1>8

LEMMA AcceptPartStep == ASSUME StopAndWait, AcceptPart PROVE StopAndWait'
<1>. PICK f : f = Head(frames)
  OBVIOUS
<1>1. /\ Arrived("data") /\ Acceptable(f) /\ Partial(f) /\ assembled' = Extended(f)
      /\ expected' = [sequence |-> expected.sequence + 1, index |-> expected.index + 1]
      /\ UNCHANGED << records, nextOffset >>
      /\ Acknowledge
  BY DEF AcceptPart, image
<1>2. /\ Behind /\ agent.pc = "ack" /\ NextByte \in Nat \ {0}
      /\ DOMAIN Extended(f) = ChunkFields
      /\ Extended(f).offset = agent.current /\ Extended(f).digest = agent.chunk
      /\ IsSeq(Extended(f).bytes)
      /\ NextByte < Len(agent.chunk) /\ Len(Extended(f).bytes) = NextByte
  BY <1>1, Accepting
<1>3. /\ AgentInv' /\ LinkInv' /\ Len(acks') = 1
      /\ UNCHANGED << layout, size, session, phase, agent >>
      /\ phase = "open"
  BY <1>1, <1>2, AcknowledgeStep
<1>4. Ahead'
  <2>1. assembled' # None
    BY <1>1, <1>2 DEF None, ChunkFields
  <2>2. expected'.sequence = agent'.sequence + 1 /\ expected'.index = agent'.index + 1
    BY <1>1, <1>2, <1>3 DEF Behind, Busy
  <2>3. Assembled(NextByte)'
    BY <1>1, <1>2, <1>3, <2>1 DEF Assembled, NextByte
  <2>. QED
    BY <1>1, <1>2, <1>3, <2>2, <2>3 DEF Ahead, Behind, NextByte
<1>. QED
  BY <1>1, <1>3, <1>4, Zenon DEF StopAndWait, LogInv, ChunksAreOneRead, CompleteInv

LEMMA StoreChunkStep == ASSUME StopAndWait, StoreChunk PROVE StopAndWait'
<1>. PICK f : f = Head(frames)
  OBVIOUS
<1>. DEFINE r == [session |-> session, sequence |-> Extended(f).sequence,
                  offset |-> Extended(f).offset, digest |-> Extended(f).bytes]
<1>1. /\ Arrived("data") /\ Acceptable(f) /\ ~Partial(f) /\ assembled' = None
      /\ expected' = [sequence |-> expected.sequence + 1, index |-> 0]
      /\ ~Replay(f) => /\ records' = Append(records, r)
                       /\ nextOffset' = nextOffset + Len(Extended(f).bytes)
      /\ Acknowledge
  BY DEF StoreChunk
<1>2. /\ Behind /\ agent.pc = "ack" /\ NextByte \in Nat \ {0}
      /\ Chunk(f).offset = nextOffset
      /\ Extended(f).offset = agent.current /\ Extended(f).bytes = agent.chunk
      /\ ~(NextByte < Len(agent.chunk))
  BY <1>1, Accepting
<1>3. /\ AgentInv' /\ LinkInv' /\ Len(acks') = 1
      /\ UNCHANGED << layout, size, session, phase, agent >>
      /\ phase = "open"
  BY <1>1, <1>2, AcknowledgeStep
<1>4. AgentInv /\ Busy /\ nextOffset = agent.current /\ nextOffset \in 0..Extent /\ LogInv
  BY <1>2, <1>3 DEF StopAndWait, Busy, Behind
<1>5. ~Replay(f)
  BY <1>2, <1>4 DEF Replay
<1>6. r.offset = nextOffset /\ r.digest = agent.chunk /\ r.session = session
  BY <1>2, <1>4
<1>7. records' = Append(records, r) /\ nextOffset' = nextOffset + Len(agent.chunk)
  BY <1>1, <1>2, <1>5
<1>. HIDE DEF r
<1>8. LogInv'
  <2>1. r.digest = [k \in 1..Len(r.digest) |-> << r.offset + k - 1, r.session >>]
    BY <1>4, <1>6 DEF AgentInv
  <2>. QED
    BY <1>4, <1>6, <1>7, <2>1, LogGrows
<1>9. nextOffset' \in 0..Extent
  BY <1>4, <1>7, FrameTransferAssumption DEF AgentInv
<1>10. Ahead'
  <2>1. expected'.sequence = agent'.sequence + 1 /\ expected'.index = 0
    BY <1>1, <1>2, <1>3 DEF Behind
  <2>. QED
    BY <1>1, <1>2, <1>3, <1>4, <1>7, <2>1 DEF Ahead, NextByte
<1>. QED
  BY <1>3, <1>8, <1>9, <1>10 DEF StopAndWait, CompleteInv

LEMMA CloseSteps ==
  ASSUME StopAndWait, RefuseFrame \/ ReadTrailer \/ ReadFails PROVE StopAndWait'
<1>1. CASE RefuseFrame
  BY <1>1, CloseStep DEF RefuseFrame
<1>2. CASE ReadFails
  BY <1>2, CloseStep DEF ReadFails
<1>3. CASE ReadTrailer
  <2>. PICK f : f = Head(frames)
    OBVIOUS
  <2>1. /\ Arrived("trailer") /\ frames # << >> /\ f.type = "trailer" /\ phase = "open"
        /\ Close(IF TrailerMatches(f) THEN "complete" ELSE "refused")
    BY <1>3 DEF ReadTrailer, Arrived
  <2>2. Genuine(f)
    <3>1. LinkInv
      BY <2>1 DEF StopAndWait
    <3>2. 1 \in 1..Len(frames) /\ f = frames[1]
      BY <2>1, <3>1, TailOf DEF LinkInv
    <3>. QED
      BY <3>1, <3>2 DEF LinkInv
  <2>3. TrailerMatches(f) /\ size \in {0, Extent} => nextOffset = Extent
    BY <2>1, <2>2, FrameTransferAssumption DEF TrailerMatches, Genuine
  <2>. QED
    BY <2>1, <2>3, CloseStep
<1>. QED
  BY <1>1, <1>2, <1>3

LEMMA StutterStep == ASSUME StopAndWait, UNCHANGED vars PROVE StopAndWait'
<1>1. /\ UNCHANGED << layout, size, records, nextOffset, session, phase, assembled, expected >>
      /\ UNCHANGED << agent, sent, frames, acks >>
  BY DEF vars, image, controller, link
<1>2. AgentInv => AgentInv'
  BY <1>1 DEF AgentInv, Busy
<1>3. \A f : Genuine(f) => Genuine(f)'
  BY <1>1 DEF Genuine, Frame, FrameCount
<1>4. LinkInv => LinkInv'
  BY <1>1, <1>3 DEF LinkInv
<1>5. (Behind \/ Ahead) => (Behind \/ Ahead)'
  BY <1>1 DEF Behind, Ahead, Busy, Assembled
<1>. QED
  BY <1>1, <1>2, <1>4, <1>5, Zenon DEF StopAndWait, LogInv, ChunksAreOneRead, CompleteInv

LEMMA NextStopAndWait == StopAndWait /\ [Next]_vars => StopAndWait'
<1>. SUFFICES ASSUME StopAndWait, [Next]_vars PROVE StopAndWait'
  OBVIOUS
<1>1. ASSUME SendFrame \/ SendTrailer \/ ReadAck PROVE StopAndWait'
  <2>1. CASE phase = "open"
    BY <1>1, <2>1, SendFrameStep, SendTrailerStep, ReadAckStep
  <2>2. CASE phase # "open"
    <3>1. UNCHANGED << layout, size, records, nextOffset, phase >>
      BY <1>1 DEF SendFrame, SendTrailer, ReadAck, Write, image, controller
    <3>. QED
      BY <2>2, <3>1, SMTT(30) DEF StopAndWait, LogInv, ChunksAreOneRead, CompleteInv
  <2>. QED
    BY <2>1, <2>2
<1>2. CASE Finished \/ UNCHANGED vars
  BY <1>2, StutterStep DEF Finished
<1>. QED
  BY <1>1, <1>2, StartStep, ReadStep, AcceptPartStep, StoreChunkStep, CloseSteps, LinkStep
     DEF Next, Agent, Controller

LEMMA AlwaysStopAndWait == Spec => []StopAndWait
  BY InitStopAndWait, NextStopAndWait, PTL DEF Spec

-----------------------------------------------------------------------------
(* The log. *)

(* A chunk in the log is one read of the source by one session, joined to  *)
(* the chunk before it: frames of two chunks, or damaged ones, are never   *)
(* put together (controller.go, transferSession).                          *)
THEOREM LoggedChunkIsOneRead == Spec => []ChunksAreOneRead
<1>1. StopAndWait => ChunksAreOneRead
  BY DEF StopAndWait, LogInv
<1>. QED
  BY AlwaysStopAndWait, <1>1, PTL

-----------------------------------------------------------------------------
(* The image. *)

(* The files hold the first NextOffset bytes, each file its own part; what *)
(* the log says of a range is in the files, and nothing was written but    *)
(* bytes of the source.                                                    *)
Logged(r, parts, n, seg) ==
    /\ r.offset \in Nat /\ Len(r.digest) \in Nat
    /\ r.offset + Len(r.digest) <= n
    /\ AreBytes(r.digest, parts, r.offset, Len(r.digest), seg)

ImageInv ==
    /\ DOMAIN files = 0..(Extent \div layout.segment)
    /\ files = [s \in DOMAIN files |-> files[s]]
    /\ Fills(files, nextOffset, layout.segment)
    /\ \A s \in DOMAIN files : \A i \in 1..Len(files[s]) : files[s][i] \in Bytes
    /\ \A i \in 1..Len(records) :
            Logged(records[i], files, nextOffset, layout.segment)

(* A file for every byte of the source. *)
LEMMA FilesCover ==
  ASSUME layout \in Layouts, ImageInv, NEW n \in 0..Extent
  PROVE  Covers(files, n, layout.segment)
<1>. SUFFICES ASSUME NEW p \in 0..(n - 1) PROVE p \div layout.segment \in DOMAIN files
  BY DEF Covers
<1>1. p \in Nat /\ Extent \in Nat /\ p <= Extent /\ layout.segment \in Nat \ {0}
  BY LayoutType, FrameTransferAssumption
<1>2. p \div layout.segment \in 0..(Extent \div layout.segment)
  BY <1>1, SegmentsAreOrdered
<1>. QED
  BY <1>2 DEF ImageInv

LEMMA InitImageInv == Init => ImageInv
<1>. SUFFICES ASSUME Init PROVE ImageInv
  OBVIOUS
<1>. PICK seg \in Nat \ {0} : seg = layout.segment
  BY LayoutType DEF Init
<1>. PICK last : last = Extent \div layout.segment
  OBVIOUS
<1>1. /\ DOMAIN files = 0..last /\ files = [s \in 0..last |-> << >>]
      /\ nextOffset = 0 /\ records = << >>
  BY DEF Init
<1>2. \A s \in DOMAIN files : files[s] = << >> /\ s \in Nat
  BY <1>1
<1>3. files = [s \in DOMAIN files |-> files[s]]
  BY ONLY <1>1
<1>4. Fills(files, nextOffset, seg)
  <2>. SUFFICES ASSUME NEW s \in DOMAIN files
                PROVE  IsSeq(files[s]) /\ Len(files[s]) = Portion(nextOffset, Starts(seg)[s], seg)
    BY DEF Fills
  <2>1. Starts(seg)[s] \in Nat
    BY <1>2, StartsAre
  <2>2. Portion(0, Starts(seg)[s], seg) = 0
    BY <2>1 DEF Portion
  <2>. QED
    BY <1>1, <1>2, <2>2, EmptyIsSeq
<1>5. \A s \in DOMAIN files : \A i \in 1..Len(files[s]) : files[s][i] \in Bytes
  BY <1>2, EmptyIsSeq
<1>6. \A i \in 1..Len(records) : Logged(records[i], files, nextOffset, seg)
  BY <1>1, EmptyIsSeq
<1>. QED
  BY <1>1, <1>3, <1>4, <1>5, <1>6 DEF ImageInv

(* A chunk written at the end of the image, and recorded. *)
LEMMA ImageGrows ==
  ASSUME layout \in Layouts, ImageInv, nextOffset \in Nat, IsSeq(records), NEW data, IsSeq(data),
         nextOffset + Len(data) <= Extent,
         \A i \in 1..Len(data) : data[i] \in Bytes,
         UNCHANGED layout,
         files' = WriteAt(files, data, nextOffset, layout.segment),
         NEW r, records' = Append(records, r), r.offset = nextOffset, r.digest = data,
         nextOffset' = nextOffset + Len(data)
  PROVE  ImageInv'
<1>. PICK seg \in Nat \ {0} : seg = layout.segment
  BY LayoutType
<1>. PICK n \in Nat : n = nextOffset
  OBVIOUS
<1>. DEFINE full == n + Len(data)
<1>1. Len(data) \in Nat /\ full \in 0..Extent
  BY DomainOfSeq, FrameTransferAssumption
<1>2. /\ files = [s \in DOMAIN files |-> files[s]] /\ DOMAIN files \subseteq Nat
      /\ Fills(files, n, seg)
  BY DEF ImageInv
<1>3. Covers(files, full, seg)
  BY <1>1, FilesCover
<1>4. PICK after : after = WriteAt(files, data, n, seg)
  OBVIOUS
<1>5. /\ after = [s \in DOMAIN files |-> after[s]] /\ Fills(after, full, seg)
      /\ \A s \in DOMAIN files : \A i \in 1..Len(after[s]) :
           after[s][i] = IF Starts(seg)[s] + i <= n THEN files[s][i]
                         ELSE data[Starts(seg)[s] + i - n]
  BY <1>2, <1>4, WriteAtTheEnd, SMTT(30)
<1>6. \A p \in Nat : p < full => Byte(after, p, seg) = IF p < n THEN Byte(files, p, seg)
                                                       ELSE data[p - n + 1]
  BY <1>2, <1>3, <1>4, BytesAtTheEnd
<1>7. ASSUME NEW s \in DOMAIN files, NEW i \in 1..Len(after[s]) PROVE after[s][i] \in Bytes
  <2>1. PICK from \in Nat : from = Starts(seg)[s]
    BY <1>2, StartsAre
  <2>2. Len(after[s]) = Portion(full, from, seg) /\ Len(files[s]) = Portion(n, from, seg)
    BY <1>2, <1>5, <2>1 DEF Fills
  <2>3. CASE from + i <= n
    <3>1. i \in 1..Len(files[s])
      BY <1>1, <2>2, <2>3 DEF Portion
    <3>. QED
      BY <1>5, <2>1, <2>3, <3>1 DEF ImageInv
  <2>4. CASE ~(from + i <= n)
    <3>1. from + i <= full
      BY <1>1, <2>2, SMTT(30) DEF Portion
    <3>2. PICK j \in 1..Len(data) : j = from + i - n
      BY <1>1, <2>4, <3>1
    <3>. QED
      BY <1>5, <2>1, <2>4, <3>2
  <2>. QED
    BY <2>3, <2>4
<1>8. ASSUME NEW q, Logged(q, files, n, seg)
      PROVE  Logged(q, after, full, seg)
  <2>1. /\ q.offset \in Nat /\ Len(q.digest) \in Nat /\ q.offset + Len(q.digest) <= n
        /\ IsSeq(q.digest)
        /\ \A i \in 1..Len(q.digest) : q.digest[i] = Byte(files, q.offset + i - 1, seg)
    BY <1>8 DEF Logged, AreBytes
  <2>2. ASSUME NEW i \in 1..Len(q.digest)
        PROVE  q.digest[i] = Byte(after, q.offset + i - 1, seg)
    <3>1. PICK p \in Nat : p = q.offset + i - 1
      BY <2>1
    <3>2. p < n /\ p < full
      BY <1>1, <2>1, <3>1, SMTT(30)
    <3>. QED
      BY <1>6, <2>1, <3>1, <3>2
  <2>3. q.offset + Len(q.digest) <= full
    BY <1>1, <2>1
  <2>. QED
    BY <1>4, <2>1, <2>2, <2>3 DEF Logged, AreBytes
<1>9. Logged(r, after, full, seg)
  <2>1. ASSUME NEW i \in 1..Len(data) PROVE data[i] = Byte(after, n + i - 1, seg)
    <3>1. PICK p \in Nat : p = n + i - 1
      BY <1>1
    <3>2. p < full /\ ~(p < n) /\ p - n + 1 = i
      BY <1>1, <3>1
    <3>. QED
      BY <1>6, <3>1, <3>2
  <2>. QED
    BY <1>1, <1>4, <2>1 DEF Logged, AreBytes
<1>10. \A i \in 1..Len(records') : Logged(records'[i], after, full, seg)
  <2>1. /\ Len(records) \in Nat /\ Len(records') = Len(records) + 1
        /\ \A i \in 1..Len(records) : records'[i] = records[i]
        /\ records'[Len(records) + 1] = r
    BY AppendTo
  <2>2. ASSUME NEW i \in 1..Len(records) PROVE Logged(records'[i], after, full, seg)
    <3>1. Logged(records[i], files, n, seg)
      BY DEF ImageInv
    <3>2. Logged(records[i], after, full, seg)
      BY <1>8, <3>1
    <3>. QED
      BY <2>1, <3>2
  <2>3. \A i \in 1..Len(records') : i \in 1..Len(records) \/ i = Len(records) + 1
    BY <2>1
  <2>. QED
    BY <1>9, <2>1, <2>2, <2>3
<1>11. /\ DOMAIN files' = DOMAIN files /\ files' = after /\ nextOffset' = full
       /\ layout'.segment = seg /\ DOMAIN files = 0..(Extent \div seg)
  BY <1>4, <1>5 DEF ImageInv
<1>12. files' = [s \in DOMAIN files' |-> files'[s]]
  BY <1>5, <1>11
<1>. QED
  BY <1>5, <1>7, <1>10, <1>11, <1>12 DEF ImageInv

(* The rest of the shape of the state. *)
ShapeInv ==
    /\ layout \in Layouts
    /\ size \in Sizes
    /\ session \in 0..MaxSessions
    /\ start \in 0..nextOffset
    /\ phase \in Phases
    /\ agent.pc \in {"gone", "read", "send", "ack", "trailer"}
    /\ agent.current \in 0..Extent
    /\ received \in Seq(Bytes)
    /\ streamed \in Seq(Bytes)
    /\ faults \in 0..MaxFaults
    /\ IF phase = "open" THEN session > 0 ELSE agent = Idle

LEMMA BytesOfTheAgent ==
  ASSUME NEW s \in 1..MaxSessions, NEW from \in Nat, NEW n \in Nat, from + n <= Extent,
         NEW data, data = [i \in 1..n |-> << from + i - 1, s >>]
  PROVE  data \in Seq(Bytes)
<1>1. \A i \in 1..n : << from + i - 1, s >> \in Bytes
  BY FrameTransferAssumption DEF Bytes
<1>2. \A i \in 1..n : data[i] \in Bytes
  BY <1>1
<1>3. data \in [1..n -> Bytes]
  BY <1>2
<1>. QED
  BY ONLY <1>3

(* The image and its log change in one action only. *)
LEMMA ImageStutters ==
  ASSUME ImageInv, UNCHANGED << layout, files, records, nextOffset >>
  PROVE  ImageInv'
  BY DEF ImageInv

LEMMA StoreChunkImage ==
  ASSUME StopAndWait, ImageInv, ShapeInv, StoreChunk
  PROVE  ImageInv' /\ nextOffset' \in Nat /\ nextOffset' >= nextOffset /\ received' \in Seq(Bytes)
<1>. PICK f : f = Head(frames)
  OBVIOUS
<1>. DEFINE r == [session |-> session, sequence |-> Extended(f).sequence,
                  offset |-> Extended(f).offset, digest |-> Extended(f).bytes]
<1>1. /\ Arrived("data") /\ Acceptable(f) /\ ~Partial(f)
      /\ ~Replay(f) =>
           /\ files' = WriteAt(files, Extended(f).bytes, Extended(f).offset, layout.segment)
           /\ records' = Append(records, r)
           /\ received' = received \o Extended(f).bytes
           /\ nextOffset' = nextOffset + Len(Extended(f).bytes)
      /\ UNCHANGED layout
  BY DEF StoreChunk, Acknowledge
<1>2. /\ Behind /\ agent.pc = "ack"
      /\ Chunk(f).offset = nextOffset
      /\ Extended(f).offset = agent.current /\ Extended(f).bytes = agent.chunk
  BY <1>1, Accepting
<1>3. AgentInv /\ Busy /\ nextOffset = agent.current /\ nextOffset \in 0..Extent /\ IsSeq(records)
      /\ layout \in Layouts /\ phase = "open"
  BY <1>1, <1>2 DEF StopAndWait, Busy, Behind, LogInv, Arrived
<1>4. ~Replay(f)
  BY <1>2, <1>3 DEF Replay
<1>. PICK data : data = agent.chunk
  OBVIOUS
<1>5. /\ IsSeq(data) /\ Len(data) \in Nat /\ nextOffset + Len(data) <= Extent
      /\ data = [i \in 1..Len(data) |-> << nextOffset + i - 1, session >>]
  BY <1>3 DEF AgentInv
<1>6. session \in 1..MaxSessions
  BY <1>3, FrameTransferAssumption DEF ShapeInv
<1>7. data \in Seq(Bytes)
  <2>1. PICK n \in Nat, from \in Nat : n = Len(data) /\ from = nextOffset
    BY <1>3, <1>5
  <2>2. from + n <= Extent /\ data = [i \in 1..n |-> << from + i - 1, session >>]
    BY <1>5, <2>1
  <2>. QED
    BY <1>6, <2>2, BytesOfTheAgent
<1>8. \A i \in 1..Len(data) : data[i] \in Bytes
  BY <1>7
<1>9. r.offset = nextOffset /\ r.digest = data
  BY <1>2, <1>3
<1>10. /\ files' = WriteAt(files, data, nextOffset, layout.segment)
       /\ records' = Append(records, r)
       /\ received' = received \o data
       /\ nextOffset' = nextOffset + Len(data)
  BY <1>1, <1>2, <1>3, <1>4
<1>. HIDE DEF r
<1>11. ImageInv'
  BY <1>1, <1>3, <1>5, <1>8, <1>9, <1>10, ImageGrows
<1>12. received' \in Seq(Bytes)
  BY <1>7, <1>10 DEF ShapeInv
<1>. QED
  BY <1>3, <1>5, <1>10, <1>11, <1>12

LEMMA NextImageInv ==
  ASSUME StopAndWait, ImageInv, ShapeInv, [Next]_vars PROVE ImageInv'
<1>1. CASE StoreChunk
  BY <1>1, StoreChunkImage
<1>2. CASE ~StoreChunk
  <2>1. UNCHANGED << layout, files, records, nextOffset >>
    BY <1>2 DEF Next, vars, image, Agent, Controller, Link, StartSession, Read, SendFrame,
       SendTrailer, ReadAck, Write, AcceptPart, Acknowledge, RefuseFrame, ReadTrailer, ReadFails,
       Close, RepeatFrame, LoseFrame, DamageFrame, LoseAck, Disconnect, OnLink, Finished
  <2>. QED
    BY <2>1, ImageStutters
<1>. QED
  BY <1>1, <1>2

LEMMA InitShapeInv == Init => ShapeInv
  BY FrameTransferAssumption DEF Init, ShapeInv, Phases, Idle

LEMMA CloseShape ==
  ASSUME ShapeInv, NEW how \in Phases, how # "open", Close(how), faults' \in 0..MaxFaults
  PROVE  ShapeInv'
  BY FrameTransferAssumption DEF ShapeInv, Close, image, Idle

LEMMA NextShapeInv ==
  ASSUME StopAndWait, ImageInv, ShapeInv, [Next]_vars PROVE ShapeInv'
<1>1. CASE StartSession
  BY <1>1, FrameTransferAssumption, SMTT(30)
  DEF StartSession, ShapeInv, StopAndWait, image, Idle, Phases
<1>2. CASE Read
  <2>1. /\ agent.pc = "read" /\ phase = "open" /\ AgentInv /\ session \in 1..MaxSessions
    BY <1>2, FrameTransferAssumption DEF Read, ShapeInv, Idle, StopAndWait
  <2>2. /\ UNCHANGED << layout, size, nextOffset, session, start, phase, received, faults >>
    BY <1>2 DEF Read, image, controller, link
  <2>3. \/ /\ agent' = [agent EXCEPT !.pc = "trailer"] /\ streamed' = streamed
        \/ /\ agent' = [agent EXCEPT !.pc = "gone"] /\ streamed' = streamed
        \/ /\ Got > 0
           /\ agent' = [agent EXCEPT !.pc = "send", !.index = 0,
                          !.last = Got < Wanted, !.chunk =
                          [i \in 1..Got |-> SourceByte(agent.current + i - 1)]]
           /\ streamed' = streamed \o agent'.chunk
    BY <1>2 DEF Read
  <2>4. /\ agent'.pc \in {"trailer", "gone", "send"} /\ agent'.current = agent.current
    BY <2>1, <2>3 DEF AgentInv, AgentFields
  <2>5. streamed' \in Seq(Bytes)
    <3>1. CASE streamed' = streamed
      BY <3>1 DEF ShapeInv
    <3>2. CASE /\ Got > 0
               /\ agent'.chunk = [i \in 1..Got |-> SourceByte(agent.current + i - 1)]
               /\ streamed' = streamed \o agent'.chunk
      <4>1. Got \in Nat /\ agent.current \in Nat /\ agent.current + Got <= Extent
        BY <2>1, <3>2, GotType, FrameTransferAssumption DEF StopAndWait, AgentInv
      <4>2. agent'.chunk \in Seq(Bytes)
        BY <2>1, <3>2, <4>1, BytesOfTheAgent DEF SourceByte
      <4>. QED
        BY <3>2, <4>2 DEF ShapeInv
    <3>. QED
      BY <2>1, <2>3, <3>1, <3>2 DEF AgentInv, AgentFields
  <2>. QED
    BY <2>1, <2>2, <2>4, <2>5 DEF ShapeInv
<1>3. CASE SendFrame \/ SendTrailer
  <2>1. /\ phase = "open" /\ AgentInv
        /\ agent' = [agent EXCEPT !.pc = "ack"] \/ agent' = [agent EXCEPT !.pc = "gone"]
        /\ UNCHANGED << layout, size, nextOffset, session, start, phase, received, streamed,
                        faults >>
    BY <1>3 DEF SendFrame, SendTrailer, Write, ShapeInv, Idle, StopAndWait, image, controller
  <2>. QED
    BY <2>1 DEF ShapeInv, AgentInv, AgentFields
<1>4. CASE ReadAck
  <2>0. agent.pc = "ack"
    BY <1>4 DEF ReadAck
  <2>1. /\ phase = "open"
        /\ UNCHANGED << layout, size, nextOffset, session, start, phase, received, streamed,
                        faults >>
    <3>1. phase = "open"
      BY <2>0 DEF ShapeInv, Idle
    <3>. QED
      BY <1>4, <3>1 DEF ReadAck, image, controller
  <2>2. AgentInv' /\ AgentInv
    BY <1>4, <2>1, ReadAckStep DEF StopAndWait
  <2>3. agent'.pc \in {"gone", "read", "send", "ack", "trailer"}
    BY <1>4, <2>2 DEF ReadAck, AgentInv, AgentFields
  <2>. QED
    BY <2>1, <2>2, <2>3 DEF ShapeInv, AgentInv
<1>5. CASE AcceptPart
  BY <1>5 DEF AcceptPart, Acknowledge, ShapeInv, image, Arrived
<1>6. CASE StoreChunk
  <2>1. nextOffset' \in Nat /\ nextOffset' >= nextOffset /\ received' \in Seq(Bytes)
        /\ nextOffset \in Nat
    BY <1>6, StoreChunkImage DEF StopAndWait
  <2>2. /\ UNCHANGED << layout, size, session, start, phase, agent, streamed, faults >>
    BY <1>6 DEF StoreChunk, Acknowledge
  <2>. QED
    BY <2>1, <2>2 DEF ShapeInv
<1>7. CASE RefuseFrame \/ ReadTrailer \/ ReadFails
  <2>1. \E how \in Phases : how # "open" /\ Close(how)
    BY <1>7 DEF RefuseFrame, ReadTrailer, ReadFails, Phases
  <2>2. UNCHANGED faults
    BY <1>7 DEF RefuseFrame, ReadTrailer, ReadFails
  <2>. QED
    BY <2>1, <2>2, CloseShape DEF ShapeInv
<1>8. CASE Link
  <2>1. phase = "open" /\ faults' \in 0..MaxFaults
    BY <1>8, FrameTransferAssumption, SMTT(30)
    DEF Link, RepeatFrame, LoseFrame, DamageFrame, LoseAck, Disconnect, Fault, ShapeInv
  <2>2. CASE Close("broken")
    BY <2>1, <2>2, CloseShape DEF Phases
  <2>3. CASE OnLink
    BY <2>1, <2>3 DEF OnLink, ShapeInv, image, controller
  <2>. QED
    BY <1>8, <2>2, <2>3 DEF Link, RepeatFrame, LoseFrame, DamageFrame, LoseAck, Disconnect
<1>9. CASE Finished \/ UNCHANGED vars
  BY <1>9 DEF Finished, vars, image, controller, link, ShapeInv
<1>. QED
  BY <1>1, <1>2, <1>3, <1>4, <1>5, <1>6, <1>7, <1>8, <1>9 DEF Next, Agent, Controller

LEMMA AlwaysImageInv == Spec => [](StopAndWait /\ ImageInv /\ ShapeInv)
<1>1. Init => StopAndWait /\ ImageInv /\ ShapeInv
  BY InitStopAndWait, InitImageInv, InitShapeInv
<1>2. StopAndWait /\ ImageInv /\ ShapeInv /\ [Next]_vars => (StopAndWait /\ ImageInv /\ ShapeInv)'
  BY NextStopAndWait, NextImageInv, NextShapeInv
<1>. QED
  BY <1>1, <1>2, PTL DEF Spec

-----------------------------------------------------------------------------
(* A link that does nothing wrong. *)

(* Bytes of the agent's chunk it read and the controller has not stored. *)
Unstored == Busy /\ nextOffset = agent.current

(* The first sequence is where the second one begins. *)
Begins(s, t) == \A i \in 1..Len(s) : s[i] = t[i]

(* One frame or one acknowledgement is under way, and it is the one the    *)
(* other side waits for; what is put together is the beginning of the      *)
(* agent's chunk.                                                          *)
Clean ==
    /\ size > 0 => agent.last = FALSE
    /\ agent.pc \in {"trailer", "gone"} => agent.current = Extent
    /\ Busy => Len(agent.chunk) <= layout.chunk
    /\ assembled # None => /\ assembled.count = FrameCount
                           /\ Begins(assembled.bytes, agent.chunk)
    /\ streamed = IF Unstored THEN received \o agent.chunk ELSE received
    /\ agent.pc \in {"read", "send", "trailer"} => Len(frames) = 0
    /\ agent.pc = "gone" => Len(frames) = 1 /\ frames[1] = Trailer
    /\ agent.pc = "ack" => IF expected.sequence = agent.sequence
                           THEN Len(frames) = 1 /\ frames[1] = Frame
                           ELSE Len(frames) = 0 /\ Len(acks) = 1

CleanInv ==
    faults = 0 /\ size \in {0, Extent} =>
        /\ phase \notin {"refused", "broken"}
        /\ phase = "open" => Clean

(* A chunk takes at least one frame, and as many as the number of its last *)
(* one says.                                                               *)
LEMMA Ceiling ==
  ASSUME NEW len \in Nat \ {0}, NEW frame \in Nat \ {0}, NEW index \in Nat
  PROVE  /\ (len + frame - 1) \div frame \in Nat \ {0}
         /\ index * frame < len /\ ~((index + 1) * frame < len)
              => (len + frame - 1) \div frame = index + 1
<1>. PICK p \in Nat : p = len + frame - 1
  BY len + frame - 1 \in Nat
<1>1. PICK q \in Nat : q = p \div frame
  BY Division
<1>2. PICK from \in Nat : from = Starts(frame)[q]
  BY StartsAre
<1>3. p < from + frame
  <2>1. p < Starts(frame)[p \div frame] + frame
    BY 1 \in Nat \ {0}, InOneSegment
  <2>. QED
    BY <1>1, <1>2, <2>1
<1>4. q # 0
  BY <1>2, <1>3, StartsAre
<1>5. ASSUME index * frame < len, ~((index + 1) * frame < len) PROVE q = index + 1
  <2>1. PICK at \in Nat : at = index * frame
    BY Product
  <2>2. PICK next \in Nat : next = (index + 1) * frame
    BY Product
  <2>3. next = at + frame
    BY <2>1, <2>2
  <2>4. at < len /\ len <= next
    BY <1>5, <2>1, <2>2
  <2>5. next = Starts(frame)[index + 1]
    BY <2>2 DEF Starts
  <2>6. next <= p /\ p < next + frame
    BY ONLY <2>1, <2>2, <2>3, <2>4, p = len + frame - 1, len \in Nat, frame \in Nat, at \in Nat, next \in Nat, p \in Nat
  <2>7. p \div frame = index + 1
    BY index + 1 \in Nat, <2>5, <2>6, StartsDivide
  <2>. QED
    BY <1>1, <2>7
<1>. QED
  BY <1>1, <1>4, <1>5

(* The next part after a beginning is a longer beginning. *)
LEMMA BeginsFurther ==
  ASSUME NEW old, IsSeq(old), NEW at \in Nat, Len(old) = at, NEW chunk, Begins(old, chunk),
         NEW upto \in Nat, at <= upto, NEW part, IsPart(part, chunk, at + 1, upto)
  PROVE  /\ IsSeq(old \o part) /\ Len(old \o part) = upto
         /\ Begins(old \o part, chunk)
<1>. PICK both : both = old \o part
  OBVIOUS
<1>1. IsSeq(part) /\ Len(part) = upto - at
      /\ \A j \in 1..(upto - at) : part[j] = chunk[at + j]
  <2>1. IsSeq(part) /\ Len(part) = upto - (at + 1) + 1
        /\ \A j \in 1..(upto - (at + 1) + 1) : part[j] = chunk[(at + 1) + j - 1]
    BY DEF IsPart
  <2>2. upto - (at + 1) + 1 = upto - at /\ \A j \in Nat : (at + 1) + j - 1 = at + j
    OBVIOUS
  <2>. QED
    BY <2>1, <2>2
<1>2. Extends(both, old, part)
  BY <1>1, ConcatOf
<1>3. IsSeq(both) /\ Len(both) = upto
  BY <1>1, <1>2 DEF Extends
<1>4. ASSUME NEW i \in 1..upto PROVE both[i] = chunk[i]
  <2>1. CASE i <= at
    BY <1>2, <2>1 DEF Extends, Begins
  <2>2. CASE ~(i <= at)
    <3>1. PICK j \in 1..(upto - at) : i = at + j
      BY <2>2, i - at \in 1..(upto - at)
    <3>. QED
      BY <1>1, <1>2, <3>1 DEF Extends
  <2>. QED
    BY <2>1, <2>2
<1>. QED
  BY <1>3, <1>4 DEF Begins

(* The number of the last frame of a chunk. *)
LEMMA FrameCountIs ==
  ASSUME layout \in Layouts, AgentInv, Busy
  PROVE  /\ FrameCount \in Nat /\ FrameCount > 0
         /\ ~(NextByte < Len(agent.chunk)) => FrameCount = agent.index + 1
<1>1. PICK frame \in Nat \ {0} : frame = layout.frame
  BY LayoutType
<1>2. PICK len \in Nat \ {0} : len = Len(agent.chunk)
  BY DEF AgentInv
<1>3. PICK index \in Nat : index = agent.index
  BY DEF AgentInv
<1>4. FrameCount = (len + frame - 1) \div frame /\ NextByte = (index + 1) * frame
      /\ index * frame < len
  BY <1>1, <1>2, <1>3 DEF FrameCount, NextByte, AgentInv
<1>5. PICK count : count = (len + frame - 1) \div frame
  OBVIOUS
<1>6. count \in Nat \ {0} /\ (~(NextByte < len) => count = index + 1)
  BY <1>4, <1>5, Ceiling, Zenon
<1>7. FrameCount = count
  BY <1>4, <1>5, Zenon
<1>. QED
  BY <1>2, <1>3, <1>6, <1>7

(* The payload of the agent's present frame, and where it ends in the      *)
(* chunk.                                                                  *)
Upto == IF NextByte < Len(agent.chunk) THEN NextByte ELSE Len(agent.chunk)

LEMMA FrameIs ==
  ASSUME layout \in Layouts, AgentInv, Busy, NEW f, f = Frame,
         NEW at, at = agent.index * layout.frame
  PROVE  /\ f.type = "data" /\ f.sequence = agent.sequence /\ f.offset = agent.current + at
         /\ f.digest = f.payload /\ f.chunkOffset = agent.current
         /\ f.chunkDigest = agent.chunk /\ f.index = agent.index /\ f.count = FrameCount
         /\ at \in Nat /\ Upto \in Nat /\ at < Upto /\ Upto <= Len(agent.chunk)
         /\ Upto < Len(agent.chunk) <=> NextByte < Len(agent.chunk)
         /\ IsPart(f.payload, agent.chunk, at + 1, Upto)
<1>1. PICK frame \in Nat \ {0} : frame = layout.frame
  BY LayoutType
<1>2. PICK chunk : chunk = agent.chunk
  OBVIOUS
<1>3. PICK len \in Nat \ {0} : len = Len(chunk)
  BY <1>2 DEF AgentInv
<1>4. PICK index \in Nat : index = agent.index
  BY DEF AgentInv
<1>5. IsSeq(chunk) /\ at < len /\ at = index * frame /\ NextByte = (index + 1) * frame
  BY <1>1, <1>2, <1>3, <1>4 DEF AgentInv, NextByte
<1>6. at \in Nat
  BY <1>5, Product
<1>7. (index + 1) * frame = index * frame + frame
  OBVIOUS
<1>8. NextByte = at + frame
  BY <1>5, <1>7, Zenon
<1>9. /\ f.type = "data" /\ f.sequence = agent.sequence /\ f.offset = agent.current + at
      /\ f.payload = SubSeq(chunk, at + 1, IF at + frame < len THEN at + frame ELSE len)
      /\ f.digest = f.payload /\ f.chunkOffset = agent.current
      /\ f.chunkDigest = chunk /\ f.index = agent.index /\ f.count = FrameCount
  BY <1>1, <1>2, <1>3 DEF Frame
<1>a. at < len
  BY <1>5
<1>10. PICK upto : upto = IF at + frame < len THEN at + frame ELSE len
  OBVIOUS
<1>11. /\ upto \in Nat /\ at < upto /\ upto <= len /\ (upto < len <=> at + frame < len)
       /\ at + 1 \in Nat /\ 1 <= at + 1 /\ at + 1 <= upto
  BY <1>6, <1>10, <1>a
<1>12. Upto = upto
  BY <1>2, <1>3, <1>8, <1>10 DEF Upto
<1>13. IsPart(f.payload, chunk, at + 1, upto)
  BY <1>3, <1>5, <1>9, <1>10, <1>11, SubSeqOf
<1>. QED
  BY <1>2, <1>3, <1>6, <1>8, <1>9, <1>11, <1>12, <1>13

(* The controller takes the agent's present frame when it expects it.      *)
LEMMA FrameIsAcceptable ==
  ASSUME StopAndWait, phase = "open", Behind, agent.pc = "ack", Clean, NEW f, f = Frame
  PROVE  /\ Acceptable(f)
         /\ Extended(f).count = FrameCount
         /\ Begins(Extended(f).bytes, agent.chunk)
<1>1. AgentInv /\ Busy /\ layout \in Layouts
  BY DEF StopAndWait, Busy
<1>2. PICK at : at = agent.index * layout.frame
  OBVIOUS
<1>3. /\ f.type = "data" /\ f.sequence = agent.sequence /\ f.offset = agent.current + at
      /\ f.digest = f.payload /\ f.chunkOffset = agent.current
      /\ f.chunkDigest = agent.chunk /\ f.index = agent.index /\ f.count = FrameCount
      /\ at \in Nat /\ Upto \in Nat /\ at < Upto /\ Upto <= Len(agent.chunk)
      /\ (Upto < Len(agent.chunk) <=> NextByte < Len(agent.chunk))
      /\ IsPart(f.payload, agent.chunk, at + 1, Upto)
  BY <1>1, <1>2, FrameIs
<1>4. IsSeq(agent.chunk) /\ Len(agent.chunk) \in Nat \ {0}
  BY <1>1 DEF AgentInv
<1>5. /\ DOMAIN Chunk(f) = ChunkFields
      /\ Chunk(f).offset = agent.current /\ Chunk(f).digest = agent.chunk
      /\ Chunk(f).count = FrameCount
      /\ IsSeq(Chunk(f).bytes) /\ Len(Chunk(f).bytes) = at
      /\ Begins(Chunk(f).bytes, agent.chunk)
  <2>1. Assembled(at)
    BY <1>1, <1>2 DEF Behind
  <2>2. CASE at = 0
    <3>1. Chunk(f) = [offset |-> f.chunkOffset, digest |-> f.chunkDigest,
                      count |-> f.count, sequence |-> f.sequence, bytes |-> << >>]
      BY <2>1, <2>2 DEF Assembled, Chunk
    <3>. QED
      BY <1>3, <2>2, <3>1, EmptyIsSeq DEF ChunkFields, Begins
  <2>3. CASE at # 0
    <3>1. Chunk(f) = assembled /\ assembled # None
      BY <2>1, <2>3 DEF Assembled, Chunk
    <3>. QED
      BY <2>1, <2>3, <3>1 DEF Assembled, Clean
  <2>. QED
    BY <2>2, <2>3
<1>6. /\ Extended(f).digest = agent.chunk /\ Extended(f).count = FrameCount
      /\ Extended(f).offset = agent.current
      /\ Extended(f).bytes = Chunk(f).bytes \o f.payload
  BY <1>5 DEF Extended, ChunkFields
<1>7. PICK bytes : bytes = Extended(f).bytes
  OBVIOUS
<1>8. IsSeq(bytes) /\ Len(bytes) = Upto /\ Begins(bytes, agent.chunk)
  <2>1. at <= Upto
    BY <1>3
  <2>2. /\ IsSeq(Chunk(f).bytes \o f.payload) /\ Len(Chunk(f).bytes \o f.payload) = Upto
        /\ Begins(Chunk(f).bytes \o f.payload, agent.chunk)
    BY <1>3, <1>5, <2>1, BeginsFurther
  <2>. QED
    BY <1>6, <1>7, <2>2
<1>9. InSequence(f) /\ Undamaged(f)
  BY <1>3 DEF InSequence, Undamaged, SameDigest, Behind
<1>10. Consistent(f, Chunk(f))
  <2>1. Len(f.chunkDigest) \in 1..layout.chunk
    <3>1. Len(agent.chunk) <= layout.chunk
      BY <1>1 DEF Clean
    <3>. QED
      BY <1>1, <1>3, <1>4, <3>1, LayoutType
  <2>2. f.count > 0
    BY <1>1, <1>3, FrameCountIs
  <2>3. Chunk(f).offset <= nextOffset
    BY <1>1, <1>5 DEF Behind, AgentInv
  <2>4. f.index = expected.index
    BY <1>1, <1>3 DEF Behind
  <2>5. f.offset = Chunk(f).offset + Len(Chunk(f).bytes)
    BY <1>3, <1>5
  <2>. QED
    BY <1>3, <1>5, <2>1, <2>2, <2>3, <2>4, <2>5 DEF Consistent
<1>11. ~Replay(f)
  BY <1>1, <1>5 DEF Replay, Behind, AgentInv
<1>12. Partial(f) <=> Upto < Len(agent.chunk)
  BY <1>3, <1>7, <1>8 DEF Partial
<1>13. CASE ~Partial(f)
  <2>1. Upto = Len(agent.chunk) /\ ~(NextByte < Len(agent.chunk))
    BY <1>3, <1>4, <1>12, <1>13
  <2>2. FrameCount = agent.index + 1
    BY <1>1, <2>1, FrameCountIs
  <2>3. bytes = agent.chunk
    BY <1>4, <1>8, <2>1, SameSeq DEF Begins
  <2>4. Whole(f)
    BY <1>1, <1>6, <1>7, <2>2, <2>3 DEF Whole, SameDigest, Behind
  <2>. QED
    BY <1>6, <1>7, <1>8, <1>9, <1>10, <1>11, <2>4 DEF Acceptable
<1>14. CASE Partial(f)
  BY <1>6, <1>7, <1>8, <1>9, <1>10, <1>14 DEF Acceptable
<1>. QED
  BY <1>13, <1>14

LEMMA CleanKept ==
  ASSUME Clean, UNCHANGED << layout, size, nextOffset, start, assembled, expected, received,
                             agent, streamed, frames, acks >>
  PROVE  Clean'
  BY DEF Clean, Unstored, Busy, FrameCount, Frame, Trailer

LEMMA StartClean == ASSUME StopAndWait, StartSession PROVE Clean'
<1>1. /\ assembled' = None /\ received' = << >> /\ streamed' = << >> /\ frames' = << >>
      /\ agent' = [Idle EXCEPT !.pc = "read", !.current = nextOffset]
  BY DEF StartSession
<1>2. agent'.pc = "read" /\ agent'.last = FALSE
  BY <1>1 DEF Idle
<1>. QED
  BY <1>1, <1>2, EmptyIsSeq DEF Clean, Unstored, Busy

(* A read gives what it wanted, or a source of undeclared size ends.       *)
LEMMA ReadClean ==
  ASSUME StopAndWait, phase = "open", Clean, size \in {0, Extent}, Read PROVE Clean'
<1>1. /\ agent.pc = "read"
      /\ UNCHANGED << layout, size, nextOffset, start, assembled, expected, received, frames,
                      acks >>
  BY DEF Read, image, controller, link
<1>2. AgentInv /\ Behind /\ layout \in Layouts
  BY <1>1 DEF StopAndWait, Ahead
<1>3. /\ assembled = None /\ nextOffset = agent.current /\ streamed = received
      /\ Len(frames) = 0
  BY <1>1, <1>2 DEF Behind, Busy, Clean, Unstored
<1>4. PICK chunk \in Nat \ {0} : chunk = layout.chunk
  BY <1>2, LayoutType
<1>5. PICK left \in Nat : left = Extent - agent.current
  BY <1>2, FrameTransferAssumption DEF AgentInv
<1>6. /\ Wanted = (IF size > 0 /\ left < chunk THEN left ELSE chunk)
      /\ Got = (IF left < Wanted THEN left ELSE Wanted)
  <2>1. size > 0 => size = Extent
    OBVIOUS
  <2>. QED
    BY <1>4, <1>5, <2>1 DEF Wanted, Got
<1>7. /\ Got \in Nat /\ Got <= chunk /\ (size > 0 => Got = Wanted)
      /\ (Wanted = 0 \/ (size = 0 /\ Got = 0) => left = 0)
  BY <1>4, <1>5, <1>6, FrameTransferAssumption
<1>8. CASE /\ Got > 0
           /\ agent' = [agent EXCEPT !.pc = "send", !.index = 0,
                          !.last = Got < Wanted, !.chunk =
                          [i \in 1..Got |-> SourceByte(agent.current + i - 1)]]
           /\ streamed' = streamed \o agent'.chunk
  <2>1. /\ agent'.pc = "send" /\ agent'.last = (Got < Wanted)
        /\ agent'.chunk = [i \in 1..Got |-> SourceByte(agent.current + i - 1)]
        /\ agent'.current = agent.current
    BY <1>2, <1>8 DEF AgentInv, AgentFields
  <2>2. Len(agent'.chunk) = Got
    BY <1>7, <2>1, FunctionIsSeq
  <2>3. size > 0 => agent'.last = FALSE
    <3>. SUFFICES ASSUME size > 0 PROVE agent'.last = FALSE
      OBVIOUS
    <3>1. (Got < Wanted) = FALSE
      BY <1>7
    <3>2. agent'.last = (Got < Wanted)
      BY <2>1, Zenon
    <3>. QED
      BY <3>1, <3>2, Zenon
  <2>. QED
    BY <1>1, <1>3, <1>4, <1>7, <1>8, <2>1, <2>2, <2>3 DEF Clean, Unstored, Busy
<1>9. CASE /\ Wanted = 0 \/ (size = 0 /\ Got = 0)
           /\ agent' = [agent EXCEPT !.pc = "trailer"]
           /\ UNCHANGED streamed
  <2>1. /\ agent'.pc = "trailer" /\ agent'.last = agent.last /\ agent'.current = agent.current
    BY <1>2, <1>9 DEF AgentInv, AgentFields
  <2>2. agent.current = Extent
    BY <1>2, <1>5, <1>7, <1>9, FrameTransferAssumption DEF AgentInv
  <2>. QED
    BY <1>1, <1>3, <1>9, <2>1, <2>2 DEF Clean, Unstored, Busy
<1>. QED
  BY <1>7, <1>8, <1>9 DEF Read

LEMMA SendFrameClean ==
  ASSUME StopAndWait, phase = "open", Clean, SendFrame PROVE Clean'
<1>1. /\ agent.pc = "send" /\ agent' = [agent EXCEPT !.pc = "ack"]
      /\ frames' = Append(frames, Frame)
      /\ UNCHANGED << layout, size, nextOffset, start, assembled, expected, received, streamed,
                      acks >>
  BY DEF SendFrame, Write, image, controller
<1>2. AgentInv /\ Behind /\ LinkInv
  BY <1>1 DEF StopAndWait, Ahead
<1>3. /\ agent'.pc = "ack" /\ agent'.index = agent.index
      /\ agent'.last = agent.last /\ agent'.chunk = agent.chunk
      /\ agent'.sequence = agent.sequence /\ agent'.current = agent.current
  BY <1>1, <1>2 DEF AgentInv, AgentFields
<1>4. Frame' = Frame /\ FrameCount' = FrameCount
  BY <1>1, <1>3 DEF Frame, FrameCount
<1>5. Len(frames') = 1 /\ frames'[1] = Frame
  <2>1. Len(frames) = 0 /\ IsSeq(frames)
    BY <1>1, <1>2 DEF Clean, LinkInv
  <2>. QED
    BY <1>1, <2>1, AppendTo
<1>6. expected'.sequence = agent'.sequence
  BY <1>1, <1>2, <1>3 DEF Behind
<1>. QED
  BY <1>1, <1>3, <1>4, <1>5, <1>6 DEF Clean, Unstored, Busy

LEMMA SendTrailerClean ==
  ASSUME StopAndWait, phase = "open", Clean, SendTrailer PROVE Clean'
<1>1. /\ agent.pc = "trailer" /\ agent' = [agent EXCEPT !.pc = "gone"]
      /\ frames' = Append(frames, Trailer)
      /\ UNCHANGED << layout, size, nextOffset, start, assembled, expected, received, streamed,
                      acks >>
  BY DEF SendTrailer, Write, image, controller
<1>2. AgentInv /\ Behind /\ LinkInv
  BY <1>1 DEF StopAndWait, Ahead
<1>3. /\ agent'.pc = "gone" /\ agent'.last = agent.last
      /\ agent'.sequence = agent.sequence /\ agent'.current = agent.current
  BY <1>1, <1>2 DEF AgentInv, AgentFields
<1>4. Trailer' = Trailer /\ assembled = None
  BY <1>1, <1>2, <1>3 DEF Trailer, Behind, Busy
<1>5. Len(frames') = 1 /\ frames'[1] = Trailer
  <2>1. Len(frames) = 0 /\ IsSeq(frames)
    BY <1>1, <1>2 DEF Clean, LinkInv
  <2>. QED
    BY <1>1, <2>1, AppendTo
<1>. QED
  BY <1>1, <1>3, <1>4, <1>5 DEF Clean, Unstored, Busy

(* The one acknowledgement is of the agent's present frame.                *)
LEMMA ReadAckClean ==
  ASSUME StopAndWait, phase = "open", Clean, ReadAck PROVE Clean'
<1>1. /\ agent.pc = "ack" /\ acks # << >>
      /\ UNCHANGED << layout, size, nextOffset, start, assembled, expected, received, streamed,
                      frames >>
  BY DEF ReadAck, image, controller
<1>2. AgentInv /\ LinkInv
  BY DEF StopAndWait
<1>3. Len(acks) >= 1 /\ Len(acks) \in Nat
  BY <1>1, <1>2, TailOf DEF LinkInv
<1>a. Head(acks) = TRUE
  BY <1>1, <1>2, AllTrueTail, Zenon DEF LinkInv
<1>b. ~(~Head(acks))
  BY <1>a
<1>4. Ahead
  BY <1>3 DEF StopAndWait, Behind
<1>5. Len(frames) = 0
  BY <1>1, <1>2, <1>4 DEF Clean, Ahead, AgentInv
<1>6. CASE NextByte < Len(agent.chunk)
  <2>1. /\ agent'.pc = "send" /\ agent'.last = agent.last /\ agent'.chunk = agent.chunk
        /\ agent'.current = agent.current
    BY <1>2, <1>b, <1>6 DEF ReadAck, AgentInv, AgentFields, NextByte
  <2>2. FrameCount' = FrameCount
    BY <1>1, <2>1 DEF FrameCount
  <2>. QED
    BY <1>1, <1>5, <2>1, <2>2 DEF Clean, Unstored, Busy
<1>7. CASE ~(NextByte < Len(agent.chunk))
  <2>1. /\ agent'.pc = (IF agent.last THEN "trailer" ELSE "read")
        /\ agent'.last = agent.last
        /\ agent'.current = agent.current + Len(agent.chunk)
    BY <1>2, <1>b, <1>7 DEF ReadAck, AgentInv, AgentFields, NextByte
  <2>2. nextOffset = agent.current + Len(agent.chunk) /\ assembled = None
    BY <1>4, <1>7 DEF Ahead, NextByte
  <2>3. streamed = received
    BY <1>1, <1>2, <2>2 DEF Clean, Unstored, Busy, AgentInv
  <2>4. agent'.pc = "trailer" => agent'.current = Extent
    BY <1>1, <1>2, <2>1 DEF AgentInv, Busy, Clean, StopAndWait
  <2>. QED
    BY <1>1, <1>5, <2>1, <2>2, <2>3, <2>4 DEF Clean, Unstored, Busy
<1>. QED
  BY <1>6, <1>7

(* The controller takes the frame and answers it. *)
LEMMA AcceptClean ==
  ASSUME StopAndWait, phase = "open", Clean, AcceptPart \/ StoreChunk PROVE Clean'
<1>. PICK f : f = Head(frames)
  OBVIOUS
<1>1. /\ Arrived("data") /\ Acceptable(f) /\ Acknowledge
      /\ frames # << >> /\ frames' = Tail(frames)
      /\ UNCHANGED << layout, size, start, agent, streamed >>
      /\ expected'.sequence = expected.sequence + 1
  <2>1. CASE AcceptPart
    BY <2>1 DEF AcceptPart, Arrived, Acknowledge
  <2>2. CASE StoreChunk
    BY <2>2 DEF StoreChunk, Arrived, Acknowledge
  <2>. QED
    BY <2>1, <2>2
<1>2. /\ Behind /\ agent.pc = "ack" /\ Chunk(f).offset = nextOffset
      /\ ~Partial(f) => Extended(f).bytes = agent.chunk
  BY <1>1, Accepting
<1>3. AgentInv /\ LinkInv /\ Busy /\ nextOffset = agent.current /\ agent.current \in Nat
      /\ Len(agent.chunk) \in Nat \ {0}
  BY <1>2 DEF StopAndWait, Busy, Behind, AgentInv
<1>4. Len(acks') = 1
  BY <1>1, <1>2, AcknowledgeStep
<1>5. Len(frames) = 1 /\ frames[1] = Frame
  BY <1>2 DEF Clean, Behind
<1>6. f = Frame /\ Len(frames') = 0
  BY <1>1, <1>3, <1>5, TailOf DEF LinkInv
<1>7. Extended(f).count = FrameCount /\ Begins(Extended(f).bytes, agent.chunk)
  BY <1>2, <1>6, FrameIsAcceptable
<1>8. FrameCount' = FrameCount
  BY <1>1 DEF FrameCount
<1>9. expected'.sequence # agent'.sequence
  BY <1>1, <1>2, <1>3 DEF Behind, AgentInv
<1>10. streamed = received \o agent.chunk
  BY <1>3 DEF Clean, Unstored
<1>11. CASE AcceptPart
  <2>1. assembled' = Extended(f) /\ UNCHANGED << nextOffset, received >>
    BY <1>11 DEF AcceptPart, image
  <2>. QED
    BY <1>1, <1>2, <1>3, <1>4, <1>6, <1>7, <1>8, <1>9, <1>10, <2>1 DEF Clean, Unstored, Busy
<1>12. CASE StoreChunk
  <2>1. ~Replay(f)
    BY <1>2, <1>3 DEF Replay
  <2>2. /\ assembled' = None
        /\ received' = received \o agent.chunk
        /\ nextOffset' = nextOffset + Len(agent.chunk)
    BY <1>2, <1>12, <2>1 DEF StoreChunk
  <2>3. ~Unstored'
    BY <1>1, <1>3, <2>2 DEF Unstored
  <2>. QED
    BY <1>1, <1>2, <1>3, <1>4, <1>6, <1>8, <1>9, <1>10, <2>2, <2>3 DEF Clean, Busy
<1>. QED
  BY <1>11, <1>12

(* The frame on the link is the agent's, or its trailer.                   *)
LEMMA HeadIs ==
  ASSUME StopAndWait, ShapeInv, phase = "open", Clean, frames # << >>
  PROVE  \/ /\ agent.pc = "ack" /\ Behind
            /\ Head(frames) = Frame /\ Frame.type = "data"
         \/ /\ agent.pc = "gone" /\ Behind
            /\ Head(frames) = Trailer /\ Trailer.type = "trailer"
<1>1. LinkInv /\ AgentInv /\ (Behind \/ Ahead)
  BY DEF StopAndWait
<1>2. Len(frames) \in Nat /\ Len(frames) >= 1 /\ Head(frames) = frames[1]
  BY <1>1, TailOf DEF LinkInv
<1>3. agent.pc \in {"gone", "ack"}
  BY <1>2 DEF Clean, ShapeInv
<1>4. Frame.type = "data" /\ Trailer.type = "trailer"
  BY DEF Frame, Trailer
<1>5. CASE agent.pc = "gone"
  BY <1>1, <1>2, <1>4, <1>5 DEF Clean, Ahead
<1>6. CASE agent.pc = "ack"
  <2>1. expected.sequence = agent.sequence /\ frames[1] = Frame
    BY <1>2, <1>6 DEF Clean
  <2>2. Behind
    BY <1>1, <2>1 DEF Ahead, AgentInv
  <2>. QED
    BY <1>2, <1>4, <1>6, <2>1, <2>2
<1>. QED
  BY <1>3, <1>5, <1>6

LEMMA NeverRefused ==
  ASSUME StopAndWait, ShapeInv, phase = "open", Clean PROVE ~RefuseFrame
<1>. SUFFICES ASSUME RefuseFrame PROVE FALSE
  OBVIOUS
<1>1. /\ frames # << >> /\ Head(frames).type = "data" /\ ~Acceptable(Head(frames))
  BY DEF RefuseFrame, Arrived
<1>2. agent.pc = "ack" /\ Behind /\ Head(frames) = Frame
  BY <1>1, HeadIs
<1>. QED
  BY <1>1, <1>2, FrameIsAcceptable

LEMMA TrailerIsAccepted ==
  ASSUME StopAndWait, ShapeInv, phase = "open", Clean, size \in {0, Extent}, ReadTrailer
  PROVE  phase' = "complete"
<1>. PICK f : f = Head(frames)
  OBVIOUS
<1>1. /\ frames # << >> /\ f.type = "trailer"
      /\ phase' = IF TrailerMatches(f) THEN "complete" ELSE "refused"
  BY DEF ReadTrailer, Arrived, Close
<1>2. agent.pc = "gone" /\ Behind /\ f = Trailer
  BY <1>1, HeadIs
<1>3. /\ assembled = None /\ expected.sequence = agent.sequence /\ nextOffset = agent.current
      /\ streamed = received /\ agent.current = Extent
  BY <1>2 DEF Behind, Busy, Clean, Unstored
<1>4. /\ f.sequence = agent.sequence /\ f.offset = agent.current
      /\ f.bytes = agent.current - start /\ f.stream = streamed
  BY <1>2 DEF Trailer
<1>. QED
  BY <1>1, <1>3, <1>4, FrameTransferAssumption DEF TrailerMatches

LEMMA NeverSilent ==
  ASSUME StopAndWait, phase = "open", Clean PROVE ~ReadFails
<1>. SUFFICES ASSUME ReadFails PROVE FALSE
  OBVIOUS
<1>1. frames = << >> /\ (agent.pc = "gone" \/ (agent.pc = "ack" /\ acks = << >>))
  BY DEF ReadFails, AgentWaits
<1>2. Len(frames) = 0 /\ (agent.pc = "ack" => Len(acks) = 0)
  <2>1. Len(frames) = 0
    BY <1>1, EmptyIsSeq, Zenon
  <2>2. acks = << >> => Len(acks) = 0
    BY EmptyIsSeq, Zenon
  <2>. QED
    BY <1>1, <2>1, <2>2
<1>3. /\ agent.pc = "gone" => Len(frames) = 1
      /\ agent.pc = "ack" => Len(frames) = 1 \/ Len(acks) = 1
  BY DEF Clean
<1>4. agent.pc = "gone" \/ agent.pc = "ack"
  BY <1>1, Zenon
<1>. QED
  BY ONLY <1>2, <1>3, <1>4

LEMMA NextCleanInv ==
  ASSUME StopAndWait, ShapeInv, CleanInv, ShapeInv', [Next]_vars PROVE CleanInv'
<1>. SUFFICES ASSUME faults' = 0, size' \in {0, Extent}
              PROVE  phase' \notin {"refused", "broken"} /\ (phase' = "open" => Clean')
  BY DEF CleanInv
<1>1. UNCHANGED size
  BY DEF Next, vars, StartSession, Agent, Controller, Link, Read, SendFrame, SendTrailer, ReadAck,
     Write, AcceptPart, StoreChunk, Acknowledge, RefuseFrame, ReadTrailer, ReadFails, Close,
     RepeatFrame, LoseFrame, DamageFrame, LoseAck, Disconnect, OnLink, Finished
<1>2. ~Link
  BY DEF ShapeInv, Link, RepeatFrame, LoseFrame, DamageFrame, LoseAck, Disconnect, Fault
<1>3. UNCHANGED faults
  BY <1>2 DEF Next, vars, link, StartSession, Agent, Controller, Read, SendFrame, SendTrailer,
     ReadAck, Write, AcceptPart, StoreChunk, Acknowledge, RefuseFrame, ReadTrailer, ReadFails,
     Finished
<1>4. phase \notin {"refused", "broken"} /\ (phase = "open" => Clean) /\ size \in {0, Extent}
  BY <1>1, <1>3 DEF CleanInv
<1>5. CASE StartSession
  <2>1. phase' = "open"
    BY <1>5 DEF StartSession
  <2>. QED
    BY <1>5, <2>1, StartClean
<1>6. CASE Agent
  <2>1. phase = "open"
    <3>1. agent.pc # "gone"
      BY <1>6 DEF Agent, Read, SendFrame, SendTrailer, ReadAck
    <3>. QED
      BY <3>1 DEF ShapeInv, Idle
  <2>2. UNCHANGED phase
    BY <1>6 DEF Agent, Read, SendFrame, SendTrailer, ReadAck, Write, controller
  <2>3. Clean'
    BY <1>4, <1>6, <2>1, ReadClean, SendFrameClean, SendTrailerClean, ReadAckClean DEF Agent
  <2>. QED
    BY <2>1, <2>2, <2>3
<1>7. CASE AcceptPart \/ StoreChunk
  <2>1. phase = "open" /\ UNCHANGED phase
    BY <1>7 DEF AcceptPart, StoreChunk, Acknowledge, Arrived
  <2>. QED
    BY <1>4, <1>7, <2>1, AcceptClean
<1>8. CASE RefuseFrame \/ ReadTrailer \/ ReadFails
  <2>1. phase = "open"
    BY <1>8 DEF RefuseFrame, ReadTrailer, ReadFails, Arrived
  <2>2. ReadTrailer
    BY <1>4, <1>8, <2>1, NeverRefused, NeverSilent
  <2>3. phase' = "complete"
    BY <1>4, <2>1, <2>2, TrailerIsAccepted
  <2>. QED
    BY <2>3
<1>9. CASE Finished \/ UNCHANGED vars
  <2>1. UNCHANGED << layout, size, nextOffset, start, assembled, expected, received,
                     agent, streamed, frames, acks, phase >>
    BY <1>9 DEF Finished, vars, image, controller, link
  <2>. QED
    BY <1>4, <2>1, CleanKept
<1>. QED
  BY <1>2, <1>5, <1>6, <1>7, <1>8, <1>9 DEF Next, Controller

-----------------------------------------------------------------------------
(* The theorems about the image. *)

(* Every record of the log, read back through the segment files, gives the *)
(* digest the log has, for every segment, frame and chunk size, whichever  *)
(* segments the range spans and whatever the link did                      *)
(* (state.go, VerifyChunks; controller.go, transferSession).               *)
THEOREM LogReadsBack == Spec => []ChunksReadBack
<1>1. StopAndWait /\ ImageInv => ChunksReadBack
  <2>. SUFFICES ASSUME StopAndWait, ImageInv, NEW r \in ToSet(records)
                PROVE  ReadLogical(files, r.offset, Len(r.digest), layout.segment) = r.digest
    BY DEF ChunksReadBack, VerifyChunks
  <2>. PICK seg \in Nat \ {0} : seg = layout.segment
    BY LayoutType DEF StopAndWait
  <2>. PICK n \in 0..Extent : n = nextOffset
    BY DEF StopAndWait
  <2>1. DOMAIN records = 1..Len(records)
    BY DomainOfSeq DEF StopAndWait, LogInv
  <2>2. PICK i \in 1..Len(records) : r = records[i]
    BY <2>1 DEF ToSet
  <2>3. Logged(r, files, n, seg)
    BY <2>2 DEF ImageInv
  <2>. PICK offset : offset = r.offset
    OBVIOUS
  <2>. PICK digest : digest = r.digest
    OBVIOUS
  <2>4. /\ offset \in Nat /\ Len(digest) \in Nat /\ offset + Len(digest) <= n
        /\ AreBytes(digest, files, offset, Len(digest), seg)
    BY <2>3 DEF Logged
  <2>5. Fills(files, n, seg) /\ Covers(files, n, seg) /\ n \in Nat
    BY FilesCover, FrameTransferAssumption DEF ImageInv, StopAndWait
  <2>6. ReadLogical(files, offset, Len(digest), seg) = BytesAt(files, offset, Len(digest), seg)
    BY <2>4, <2>5, ReadLogicalIs
  <2>. DEFINE bytes == BytesAt(files, offset, Len(digest), seg)
  <2>7. AreBytes(bytes, files, offset, Len(digest), seg)
    BY <2>4, BytesAtAre
  <2>. HIDE DEF bytes
  <2>8. bytes = digest
    BY <2>4, <2>7, SameSeq DEF AreBytes
  <2>. QED
    BY <2>6, <2>8 DEF bytes
<1>. QED
  BY AlwaysImageInv, <1>1, PTL

(* The state keeps its shape: no segment file is longer than a segment,    *)
(* NextOffset never passes the end of the source, and nothing is written   *)
(* or hashed but bytes some session read.                                  *)
THEOREM FrameTransferTypeCorrect == Spec => []TypeOK
<1>1. StopAndWait /\ ImageInv /\ ShapeInv => TypeOK
  <2>. SUFFICES ASSUME StopAndWait, ImageInv, ShapeInv PROVE TypeOK
    OBVIOUS
  <2>1. ASSUME NEW s \in DOMAIN files
        PROVE  files[s] \in Seq(Bytes) /\ Len(files[s]) <= layout.segment
    <3>. PICK seg \in Nat \ {0} : seg = layout.segment
      BY LayoutType DEF StopAndWait
    <3>. PICK file : file = files[s]
      OBVIOUS
    <3>1. s \in Nat
      BY DEF ImageInv
    <3>2. PICK from \in Nat : from = Starts(seg)[s]
      BY <3>1, StartsAre
    <3>3. IsSeq(file) /\ Len(file) = Portion(nextOffset, from, seg)
      BY <3>2 DEF ImageInv, Fills
    <3>4. Len(file) <= seg
      BY <3>3 DEF Portion, StopAndWait
    <3>5. \A i \in 1..Len(file) : file[i] \in Bytes
      BY DEF ImageInv
    <3>6. file \in Seq(Bytes)
      <4>1. PICK S : file \in Seq(S)
        BY <3>3 DEF IsSeq
      <4>2. Len(file) \in Nat /\ file \in [1..Len(file) -> S]
        BY <4>1
      <4>3. file \in [1..Len(file) -> Bytes]
        BY <3>5, <4>2
      <4>. QED
        BY ONLY <4>2, <4>3
    <3>. QED
      BY <3>4, <3>6
  <2>. QED
    BY <2>1 DEF TypeOK, ShapeInv, StopAndWait
<1>. QED
  BY AlwaysImageInv, <1>1, PTL

(* Where the link does nothing wrong and the source is as long as declared *)
(* the controller refuses no frame the agent sends and no read waits in    *)
(* vain, whatever the sizes of chunk, frame and segment; and a session     *)
(* called complete, whatever the link did, left the whole source in the    *)
(* image (cmd/imajer-agent main.go, stream; controller.go,                 *)
(* transferSession).                                                       *)
THEOREM NothingGoesWrong == Spec => []CleanTransfer
<1>1. Init => CleanInv
  BY DEF Init, CleanInv
<1>2. StopAndWait /\ ShapeInv /\ CleanInv /\ ShapeInv' /\ [Next]_vars => CleanInv'
  BY NextCleanInv
<1>3. StopAndWait /\ CleanInv => CleanTransfer
  BY DEF StopAndWait, CompleteInv, CleanInv, CleanTransfer
<1>. QED
  BY AlwaysImageInv, <1>1, <1>2, <1>3, PTL DEF Spec

(* A chunk is a byte at least, so the log has no more records than the     *)
(* image has bytes.                                                        *)
CountInv == Len(records) <= nextOffset

LEMMA StoreChunkCounts ==
  ASSUME StopAndWait, CountInv, StoreChunk
  PROVE  CountInv'
<1>. PICK f : f = Head(frames)
  OBVIOUS
<1>. DEFINE r == [session |-> session, sequence |-> Extended(f).sequence,
                  offset |-> Extended(f).offset, digest |-> Extended(f).bytes]
<1>1. /\ Arrived("data") /\ Acceptable(f) /\ ~Partial(f)
      /\ IF Replay(f) THEN UNCHANGED << records, nextOffset >>
         ELSE /\ records' = Append(records, r)
              /\ nextOffset' = nextOffset + Len(Extended(f).bytes)
  BY DEF StoreChunk, Acknowledge, image
<1>2. Behind /\ agent.pc = "ack" /\ Extended(f).bytes = agent.chunk
  BY <1>1, Accepting
<1>3. Len(agent.chunk) \in Nat \ {0} /\ nextOffset \in Nat /\ IsSeq(records)
  BY <1>1, <1>2, FrameTransferAssumption DEF StopAndWait, Busy, AgentInv, LogInv, Arrived
<1>. HIDE DEF r
<1>4. Len(Append(records, r)) = Len(records) + 1 /\ Len(records) \in Nat
  BY <1>3, AppendTo
<1>5. CASE Replay(f)
  BY <1>1, <1>5 DEF CountInv
<1>6. CASE ~Replay(f)
  BY <1>1, <1>2, <1>3, <1>4, <1>6 DEF CountInv
<1>. QED
  BY <1>5, <1>6

LEMMA NextCountInv ==
  ASSUME StopAndWait, CountInv, [Next]_vars PROVE CountInv'
<1>1. CASE StoreChunk
  BY <1>1, StoreChunkCounts
<1>2. CASE ~StoreChunk
  <2>1. UNCHANGED << records, nextOffset >>
    BY <1>2 DEF Next, vars, image, Agent, Controller, Link, StartSession, Read, SendFrame,
       SendTrailer, ReadAck, Write, AcceptPart, Acknowledge, RefuseFrame, ReadTrailer, ReadFails,
       Close, RepeatFrame, LoseFrame, DamageFrame, LoseAck, Disconnect, OnLink, Finished
  <2>. QED
    BY <2>1 DEF CountInv
<1>. QED
  BY <1>1, <1>2

(* Whenever the log is audited, the root kept with one node per level is   *)
(* that of the whole tree over the log as it stands, whatever the link     *)
(* repeated or lost on the way (state.go, AuditChunks and                  *)
(* merkleAccumulator; controller.go, transferSession).                     *)
THEOREM RootIsTree == Spec => []RootIsTheTree
<1>1. Init => CountInv
  <2>. SUFFICES ASSUME Init PROVE CountInv
    OBVIOUS
  <2>1. records = << >> /\ nextOffset = 0
    BY DEF Init
  <2>2. Len(<< >>) = 0
    BY EmptyIsSeq, Zenon
  <2>. QED
    BY <2>1, <2>2 DEF CountInv
<1>2. StopAndWait /\ CountInv /\ [Next]_vars => CountInv'
  BY NextCountInv
<1>3. StopAndWait /\ CountInv => RootIsTheTree
  <2>. SUFFICES ASSUME StopAndWait, CountInv PROVE RootIsTheTree
    OBVIOUS
  <2>1. Extent \in Nat /\ IsSeq(records) /\ Len(records) <= nextOffset /\ nextOffset \in 0..Extent
    BY FrameTransferAssumption DEF StopAndWait, LogInv, CountInv
  <2>2. Len(records) \in Nat
    BY <2>1, DomainOfSeq
  <2>3. Len(records) <= Extent
    BY <2>1, <2>2
  <2>4. PICK power : Doubles(power, Extent) /\ Extent < power[Extent]
    BY <2>1, PowersExist
  <2>5. power[Extent] \in Nat
    BY <2>1, <2>4 DEF Doubles
  <2>6. Len(records) < power[Extent]
    BY <2>1, <2>2, <2>3, <2>4, <2>5
  <2>. QED
    BY <2>1, <2>4, <2>6, StreamingRootIsTheTree DEF RootIsTheTree
<1>. QED
  BY AlwaysImageInv, <1>1, <1>2, <1>3, PTL DEF Spec

-----------------------------------------------------------------------------
(* The refinement. *)

(* What reads back through the files is every byte up to NextOffset. *)
LEMMA DeliveredIs ==
  ASSUME StopAndWait, ImageInv
  PROVE  Delivered = BytesAt(files, 0, nextOffset, layout.segment)
<1>. PICK seg \in Nat \ {0} : seg = layout.segment
  BY LayoutType DEF StopAndWait
<1>. PICK n \in 0..Extent : n = nextOffset
  BY DEF StopAndWait
<1>1. /\ n \in Nat /\ Fills(files, n, seg) /\ Covers(files, n, seg)
  BY FilesCover, FrameTransferAssumption DEF ImageInv, StopAndWait
<1>2. 0 \in Nat /\ 0 + n <= n
  BY <1>1
<1>3. ReadLogical(files, 0, n, seg) = BytesAt(files, 0, n, seg)
  BY <1>1, <1>2, ReadLogicalIs
<1>. QED
  BY <1>3 DEF Delivered

LEMMA DeliveredLength ==
  ASSUME StopAndWait, ImageInv
  PROVE  IsSeq(Delivered) /\ Len(Delivered) = nextOffset
<1>1. nextOffset \in Nat
  BY FrameTransferAssumption DEF StopAndWait
<1>2. AreBytes(BytesAt(files, 0, nextOffset, layout.segment), files, 0, nextOffset, layout.segment)
  BY <1>1, BytesAtAre
<1>. QED
  BY <1>2, DeliveredIs DEF AreBytes

(* Nothing but a stored chunk changes the image. *)
LEMMA DeliveredKept ==
  ASSUME UNCHANGED << layout, files, nextOffset >>
  PROVE  Delivered' = Delivered
  BY DEF Delivered

(* The first n bytes of an image are in these files, and there is a file   *)
(* for each of "full" bytes. *)
Holds(parts, n, full, seg) ==
    /\ parts = [s \in DOMAIN parts |-> parts[s]] /\ DOMAIN parts \subseteq Nat
    /\ Fills(parts, n, seg) /\ Covers(parts, full, seg)

(* Written at its end, an image reads back as it did, and then the data. *)
ReadsOn(parts, data, n, full, seg) ==
    BytesAt(WriteAt(parts, data, n, seg), 0, full, seg) = BytesAt(parts, 0, n, seg) \o data

LEMMA ReadsFurther ==
  ASSUME NEW seg \in Nat \ {0}, NEW n \in Nat, NEW data, IsSeq(data),
         NEW full, full = n + Len(data), NEW parts, Holds(parts, n, full, seg)
  PROVE  ReadsOn(parts, data, n, full, seg)
<1>. PICK after : after = WriteAt(parts, data, n, seg)
  OBVIOUS
<1>1. Len(data) \in Nat /\ full \in Nat
  BY DomainOfSeq
<1>2. \A p \in Nat : p < full => Byte(after, p, seg) = IF p < n THEN Byte(parts, p, seg)
                                                       ELSE data[p - n + 1]
  BY BytesAtTheEnd DEF Holds
<1>. PICK new : new = BytesAt(after, 0, full, seg)
  OBVIOUS
<1>. PICK old : old = BytesAt(parts, 0, n, seg)
  OBVIOUS
<1>3. /\ IsSeq(new) /\ Len(new) = full
      /\ \A i \in 1..full : new[i] = Byte(after, 0 + i - 1, seg)
  <2>1. AreBytes(new, after, 0, full, seg)
    BY <1>1, BytesAtAre
  <2>. QED
    BY <2>1 DEF AreBytes
<1>4. /\ IsSeq(old) /\ Len(old) = n
      /\ \A i \in 1..n : old[i] = Byte(parts, 0 + i - 1, seg)
  <2>1. AreBytes(old, parts, 0, n, seg)
    BY BytesAtAre
  <2>. QED
    BY <2>1 DEF AreBytes
<1>. PICK both : both = old \o data
  OBVIOUS
<1>5. /\ IsSeq(both) /\ Len(both) = full
      /\ \A i \in 1..n : both[i] = old[i]
      /\ \A i \in 1..Len(data) : both[n + i] = data[i]
  BY <1>4, ConcatOf DEF Extends
<1>6. ASSUME NEW i \in 1..full PROVE new[i] = both[i]
  <2>1. PICK p \in Nat : p = 0 + i - 1
    BY <1>1
  <2>2. p < full /\ (p < n <=> i <= n)
    BY <1>1, <2>1
  <2>3. CASE i <= n
    <3>1. i \in 1..n
      BY <2>3
    <3>. QED
      BY <1>2, <1>3, <1>4, <1>5, <2>1, <2>2, <2>3, <3>1
  <2>4. CASE ~(i <= n)
    <3>1. PICK j \in 1..Len(data) : j = i - n
      BY <1>1, <2>4
    <3>2. j = p - n + 1 /\ n + j = i
      BY <2>1, <3>1
    <3>. QED
      BY <1>2, <1>3, <1>5, <2>1, <2>2, <2>4, <3>2
  <2>. QED
    BY <2>3, <2>4
<1>7. new = both
  BY <1>3, <1>5, <1>6, SameSeq
<1>. QED
  BY <1>7 DEF ReadsOn

(* A stored chunk is the agent's, and goes where the image ends. *)
LEMMA StoreChunkIs ==
  ASSUME StopAndWait, StoreChunk
  PROVE  /\ phase = "open" /\ nextOffset = agent.current
         /\ IsSeq(agent.chunk) /\ Len(agent.chunk) \in Nat \ {0}
         /\ nextOffset + Len(agent.chunk) <= Extent
         /\ agent.chunk = [i \in 1..Len(agent.chunk) |-> << nextOffset + i - 1, session >>]
         /\ files' = WriteAt(files, agent.chunk, nextOffset, layout.segment)
         /\ nextOffset' = nextOffset + Len(agent.chunk)
         /\ UNCHANGED << layout, size, session, phase, agent >>
<1>. PICK f : f = Head(frames)
  OBVIOUS
<1>1. /\ Arrived("data") /\ Acceptable(f) /\ ~Partial(f)
      /\ ~Replay(f) =>
           /\ files' = WriteAt(files, Extended(f).bytes, Extended(f).offset, layout.segment)
           /\ nextOffset' = nextOffset + Len(Extended(f).bytes)
      /\ UNCHANGED << layout, size, session, phase, agent >>
  BY DEF StoreChunk, Acknowledge
<1>2. /\ Behind /\ agent.pc = "ack" /\ Chunk(f).offset = nextOffset
      /\ Extended(f).offset = agent.current /\ Extended(f).bytes = agent.chunk
  BY <1>1, Accepting
<1>3. /\ AgentInv /\ Busy /\ nextOffset = agent.current /\ nextOffset \in 0..Extent
      /\ phase = "open"
  BY <1>1, <1>2 DEF StopAndWait, Busy, Behind, Arrived
<1>4. ~Replay(f)
  BY <1>2, <1>3 DEF Replay
<1>. QED
  BY <1>1, <1>2, <1>3, <1>4 DEF AgentInv

LEMMA StoreChunkDelivers ==
  ASSUME StopAndWait, ImageInv, ImageInv', StoreChunk
  PROVE  \E n \in 1..Extent : Delivery!Deliver(n)
<1>. PICK seg \in Nat \ {0} : seg = layout.segment
  BY LayoutType DEF StopAndWait
<1>. PICK n \in Nat : n = nextOffset
  BY FrameTransferAssumption DEF StopAndWait
<1>. PICK data : data = agent.chunk
  OBVIOUS
<1>1. /\ phase = "open" /\ n = agent.current
      /\ IsSeq(data) /\ Len(data) \in Nat \ {0} /\ n + Len(data) <= Extent
      /\ data = [i \in 1..Len(data) |-> << n + i - 1, session >>]
      /\ files' = WriteAt(files, data, n, seg)
      /\ nextOffset' = n + Len(data)
      /\ UNCHANGED << layout, size, session, phase, agent >>
  BY StoreChunkIs
<1>. PICK full \in Nat : full = n + Len(data)
  BY <1>1
<1>2. Holds(files, n, full, seg)
  <2>1. full \in 0..Extent
    BY <1>1, FrameTransferAssumption
  <2>. QED
    BY <2>1, FilesCover DEF ImageInv, StopAndWait, Holds
<1>3. Delivered = BytesAt(files, 0, n, seg)
  BY DeliveredIs
<1>4. Delivered' = BytesAt(files', 0, full, seg)
  <2>1. Delivered' = ReadLogical(files', 0, full, seg)
    BY <1>1 DEF Delivered
  <2>2. Fills(files', full, seg) /\ Covers(files', full, seg)
    BY <1>1, <1>2 DEF ImageInv, Covers, Holds
  <2>3. 0 \in Nat /\ 0 + full <= full
    OBVIOUS
  <2>. QED
    BY <2>1, <2>2, <2>3, ReadLogicalIs
<1>5. Delivered' = Delivered \o data
  <2>1. IsSeq(data)
    BY <1>1
  <2>2. ReadsOn(files, data, n, full, seg)
    BY <1>2, <2>1, ReadsFurther
  <2>. QED
    BY <1>1, <1>3, <1>4, <2>2 DEF ReadsOn
<1>6. Len(Delivered) = n
  BY DeliveredLength
<1>7. Delivery!Deliver(Len(data))
  BY <1>1, <1>5, <1>6 DEF Delivery!Deliver
<1>. QED
  BY <1>1, <1>7, FrameTransferAssumption

(* A session ends as "complete" with all of the source in the image. *)
LEMMA CloseEnds ==
  ASSUME StopAndWait, ImageInv, StopAndWait', phase = "open",
         NEW how \in Delivery!Ends, Close(how),
         how = "complete" => (size > 0 => nextOffset = size)
  PROVE  Delivery!End(how)
<1>1. /\ phase' = how /\ agent' = Idle
      /\ UNCHANGED << layout, size, files, nextOffset, session >>
  BY DEF Close, image
<1>2. Delivered' = Delivered /\ agent'.current = 0
  BY <1>1, DeliveredKept DEF Idle
<1>3. how = "complete" => Delivery!Whole
  <2>. SUFFICES ASSUME how = "complete"
                PROVE  Len(Delivered) = IF size > 0 THEN size ELSE Extent
    BY DEF Delivery!Whole
  <2>1. size \in Nat /\ Len(Delivered) = nextOffset
    BY DeliveredLength DEF StopAndWait
  <2>2. size = 0 => nextOffset = Extent
    BY <1>1 DEF StopAndWait, CompleteInv
  <2>. QED
    BY <2>1, <2>2
<1>. QED
  BY <1>1, <1>2, <1>3 DEF Delivery!End

LEMMA ClosesEnd ==
  ASSUME StopAndWait, ImageInv, StopAndWait',
         RefuseFrame \/ ReadTrailer \/ ReadFails \/ Disconnect
  PROVE  \E how \in Delivery!Ends : Delivery!End(how)
<1>1. CASE RefuseFrame
  BY <1>1, CloseEnds DEF RefuseFrame, Arrived, Delivery!Ends
<1>2. CASE ReadFails
  BY <1>2, CloseEnds DEF ReadFails, Delivery!Ends
<1>3. CASE Disconnect
  BY <1>3, CloseEnds DEF Disconnect, Fault, Delivery!Ends
<1>4. CASE ReadTrailer
  <2>. PICK how : how = IF TrailerMatches(Head(frames)) THEN "complete" ELSE "refused"
    OBVIOUS
  <2>1. phase = "open" /\ Close(how) /\ how \in Delivery!Ends
    BY <1>4 DEF ReadTrailer, Arrived, Delivery!Ends
  <2>2. how = "complete" => (size > 0 => nextOffset = size)
    BY DEF TrailerMatches
  <2>. QED
    BY <2>1, <2>2, CloseEnds
<1>. QED
  BY <1>1, <1>2, <1>3, <1>4

(* An answer the agent counts for a chunk was given for that chunk. *)
LEMMA ReadAckLearns ==
  ASSUME StopAndWait, ImageInv, ShapeInv, StopAndWait', ReadAck
  PROVE  Delivery!Learn \/ UNCHANGED Delivery!vars
<1>1. /\ agent.pc = "ack" /\ UNCHANGED << layout, size, files, nextOffset, session, phase >>
  BY DEF ReadAck, image, controller
<1>2. phase = "open" /\ AgentInv /\ (Behind \/ Ahead)'
  BY <1>1 DEF ShapeInv, Idle, StopAndWait
<1>3. Delivered' = Delivered
  BY <1>1, DeliveredKept
<1>4. agent'.current = agent.current \/ agent'.pc \in {"trailer", "read"}
  BY <1>2 DEF ReadAck, AgentInv, AgentFields
<1>5. CASE agent'.current = agent.current
  BY <1>1, <1>3, <1>5 DEF Delivery!vars
<1>6. CASE agent'.pc \in {"trailer", "read"}
  <2>1. agent'.current = nextOffset
    BY <1>1, <1>2, <1>6 DEF Behind, Ahead
  <2>. QED
    BY <1>1, <1>2, <1>3, <2>1, DeliveredLength DEF Delivery!Learn
<1>. QED
  BY <1>4, <1>5, <1>6

LEMMA StartOpens ==
  ASSUME StopAndWait, ImageInv, StartSession
  PROVE  Delivery!Open
<1>1. /\ phase = "idle" \/ (phase \in {"broken", "refused"} /\ size > 0)
      /\ phase' = "open" /\ session' = session + 1 /\ agent'.current = nextOffset
      /\ UNCHANGED << layout, size, files, nextOffset >>
  BY DEF StartSession, Idle, image
<1>2. Delivered' = Delivered
  BY <1>1, DeliveredKept
<1>. QED
  BY <1>1, <1>2, DeliveredLength DEF Delivery!Open

LEMMA StepImplements ==
  ASSUME StopAndWait, ImageInv, ShapeInv, StopAndWait', ImageInv', [Next]_vars
  PROVE  [Delivery!Next]_(Delivery!vars)
<1>1. CASE StartSession
  BY <1>1, StartOpens DEF Delivery!Next
<1>2. CASE StoreChunk
  BY <1>2, StoreChunkDelivers DEF Delivery!Next
<1>3. CASE ReadAck
  BY <1>3, ReadAckLearns DEF Delivery!Next
<1>4. CASE RefuseFrame \/ ReadTrailer \/ ReadFails \/ Disconnect
  BY <1>4, ClosesEnd DEF Delivery!Next
<1>5. CASE \/ Read \/ SendFrame \/ SendTrailer \/ AcceptPart
           \/ RepeatFrame \/ LoseFrame \/ DamageFrame \/ LoseAck \/ Finished \/ UNCHANGED vars
  <2>1. UNCHANGED << layout, size, files, nextOffset, session, phase >>
    BY <1>5 DEF vars, image, controller, Read, SendFrame, SendTrailer, Write, AcceptPart,
       Acknowledge, RepeatFrame, LoseFrame, DamageFrame, LoseAck, OnLink, Finished
  <2>2. agent'.current = agent.current
    <3>1. CASE agent' = agent
      BY <3>1
    <3>2. CASE Read \/ SendFrame \/ SendTrailer
      <4>1. AgentInv
        BY <3>2 DEF Read, SendFrame, SendTrailer, ShapeInv, Idle, StopAndWait
      <4>. QED
        BY <3>2, <4>1 DEF Read, SendFrame, SendTrailer, AgentInv, AgentFields
    <3>. QED
      BY <1>5, <3>1, <3>2 DEF vars, AcceptPart, Acknowledge, RepeatFrame, LoseFrame, DamageFrame,
         LoseAck, OnLink, Finished
  <2>3. Delivered' = Delivered
    BY <2>1, DeliveredKept
  <2>. QED
    BY <2>1, <2>2, <2>3 DEF Delivery!vars
<1>. QED
  BY <1>1, <1>2, <1>3, <1>4, <1>5 DEF Next, Agent, Controller, Link

(* Stop-and-wait through segment files implements ChunkDelivery, whatever  *)
(* the sizes of chunk, frame and segment and whatever the link repeats,    *)
(* damages or loses: the bytes of each session reach the image in order    *)
(* and once, nothing written is written again, the agent is never told of  *)
(* a chunk that is not there, and only a whole source is called complete   *)
(* (cmd/imajer-agent main.go, stream; controller.go, transferSession;      *)
(* state.go, SegmentedWriter).                                             *)
THEOREM DeliversInOrder == Spec => ImplementsDelivery
<1>1. Init => Delivery!Init
  <2>. SUFFICES ASSUME Init PROVE Delivery!Init
    OBVIOUS
  <2>1. StopAndWait /\ ImageInv /\ nextOffset = 0
    BY InitStopAndWait, InitImageInv DEF Init
  <2>2. Delivered = << >>
    <3>1. IsSeq(Delivered) /\ Len(Delivered) = 0
      BY <2>1, DeliveredLength
    <3>. QED
      BY <3>1, EmptyIsSeq, SameSeq
  <2>. QED
    BY <2>2 DEF Init, Idle, Delivery!Init
<1>2. StopAndWait /\ ImageInv /\ ShapeInv /\ StopAndWait' /\ ImageInv' /\ [Next]_vars
        => [Delivery!Next]_(Delivery!vars)
  BY StepImplements, Zenon
<1>. QED
  BY <1>1, <1>2, AlwaysImageInv, PTL DEF Spec, ImplementsDelivery, Delivery!Spec

=============================================================================
