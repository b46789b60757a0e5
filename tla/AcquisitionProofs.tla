-------------------------- MODULE AcquisitionProofs -------------------------
(***************************************************************************)
(* Theorems about the acquisition, for every source size, every data set,  *)
(* transport, retry budget, fault repertoire and number of runs.           *)
(*                                                                         *)
(* The invariants of Acquisition are not inductive.  Three state           *)
(* predicates strengthen them: Handshake ties the agent and the wire to    *)
(* the point at which the controller stands, CommitOrder relates the       *)
(* offsets that memory, state.json, the journal and the agent stand at,    *)
(* and Sealing says where a sealed artifact can still be looked at.        *)
(***************************************************************************)
EXTENDS Acquisition, TLAPS

\* The controller handles a data frame it has accepted.
Handling == {"write", "append", "save", "ack"}

Receiving == {"recv"} \cup Handling

\* One frame at a time: while a frame is handled the agent waits or is gone,
\* and an acknowledgement is under way only when nothing else is.
Handshake ==
  /\ agent.pc # "none" <=> pc \in Receiving
  /\ agent.pc = "read" => pc = "recv" /\ wire = "none"
  /\ acked => pc = "recv" /\ agent.pc = "wait" /\ wire = "none"
  /\ wire # "none" => pc = "recv"
  /\ wire = "data" => agent.next < N
  /\ wire = "data" \/ pc \in {"write", "append"} => agent.sum # <<>>

\* Where memory, state.json, the journal, the session and the agent stand.
CommitOrder ==
  /\ saved.next <= Len(journal) /\ saved.next <= N
  /\ state.next <= Len(journal) /\ state.next <= N
  /\ pc \notin Receiving \cup {"ended"} => session.start = 0
  /\ session.start <= state.next
  /\ pc \in {"loop", "recv", "write", "append", "ack", "exhausted", "backoff"}
       => state.next = saved.next
  /\ pc = "save" => state.next = saved.next + 1
  /\ pc \in {"write", "append"} => agent.next = state.next /\ state.next < N
  /\ pc \in {"save", "ack"} => agent.next + 1 = state.next
  /\ agent.pc # "none" => agent.next <= saved.next
  /\ acked => agent.next < saved.next

\* Nothing that changes the artifact runs once it is sealed.
Sealing ==
  /\ saved.status \in Verified => pc \in {"down", "open", "manifest", "finalize"}
  /\ state.status \in Verified => pc = "manifest"
  /\ pc = "ended" /\ session.outcome = "ok" => state.next = N
  /\ pc = "seal" => state.next = N

IInv == TypeOK /\ Handshake /\ CommitOrder

-----------------------------------------------------------------------------
\* Records: an update of a field by a value of its type keeps the type.

LEMMA StateUpdate ==
  /\ NoState \in State
  /\ \A s \in State, v \in Status : [s EXCEPT !.status = v] \in State
  /\ \A s \in State, v \in Nat : [s EXCEPT !.next = v] \in State
  /\ \A s \in State, v \in Nat : [s EXCEPT !.count = v] \in State
  /\ \A s \in State, v \in BOOLEAN : [s EXCEPT !.resumed = v] \in State
  /\ \A s \in State, v \in Seq(Data) : [s EXCEPT !.remote = v] \in State
  /\ \A s \in State, v \in Seq(Data \cup {Junk}) : [s EXCEPT !.logical = v] \in State
<1>1. NoState \in State
  BY DEF NoState, State, Status
<1>2. \A s \in State, v \in Status : [s EXCEPT !.status = v] \in State
  BY DEF State
<1>3. \A s \in State, v \in Nat : [s EXCEPT !.next = v] \in State
  BY DEF State
<1>4. \A s \in State, v \in Nat : [s EXCEPT !.count = v] \in State
  BY DEF State
<1>5. \A s \in State, v \in BOOLEAN : [s EXCEPT !.resumed = v] \in State
  BY DEF State
<1>6. \A s \in State, v \in Seq(Data) : [s EXCEPT !.remote = v] \in State
  BY DEF State
<1>7. \A s \in State, v \in Seq(Data \cup {Junk}) : [s EXCEPT !.logical = v] \in State
  BY DEF State
<1> QED
  BY <1>1, <1>2, <1>3, <1>4, <1>5, <1>6, <1>7

LEMMA SessionUpdate ==
  /\ NoSession \in Session
  /\ \A s \in Session, v \in Nat : [s EXCEPT !.id = v] \in Session
  /\ \A s \in Session, v \in Nat : [s EXCEPT !.start = v] \in Session
  /\ \A s \in Session, v \in Seq(Data) : [s EXCEPT !.got = v] \in Session
  /\ \A s \in Session, v \in Nat : [s EXCEPT !.bytes = v] \in Session
  /\ \A s \in Session, v \in Outcome : [s EXCEPT !.outcome = v] \in Session
<1>1. NoSession \in Session
  BY DEF NoSession, Session, Outcome
<1>2. \A s \in Session, v \in Nat : [s EXCEPT !.id = v] \in Session
  BY DEF Session
<1>3. \A s \in Session, v \in Nat : [s EXCEPT !.start = v] \in Session
  BY DEF Session
<1>4. \A s \in Session, v \in Seq(Data) : [s EXCEPT !.got = v] \in Session
  BY DEF Session
<1>5. \A s \in Session, v \in Nat : [s EXCEPT !.bytes = v] \in Session
  BY DEF Session
<1>6. \A s \in Session, v \in Outcome : [s EXCEPT !.outcome = v] \in Session
  BY DEF Session
<1> QED
  BY <1>1, <1>2, <1>3, <1>4, <1>5, <1>6

LEMMA AgentUpdate ==
  /\ NoAgent \in Agent
  /\ \A a \in Agent, v \in AgentPC : [a EXCEPT !.pc = v] \in Agent
  /\ \A a \in Agent, v \in Nat : [a EXCEPT !.start = v] \in Agent
  /\ \A a \in Agent, v \in Nat : [a EXCEPT !.next = v] \in Agent
  /\ \A a \in Agent, v \in Seq(Data) : [a EXCEPT !.sum = v] \in Agent
<1>1. NoAgent \in Agent
  BY DEF NoAgent, Agent, AgentPC
<1>2. \A a \in Agent, v \in AgentPC : [a EXCEPT !.pc = v] \in Agent
  BY DEF Agent
<1>3. \A a \in Agent, v \in Nat : [a EXCEPT !.start = v] \in Agent
  BY DEF Agent
<1>4. \A a \in Agent, v \in Nat : [a EXCEPT !.next = v] \in Agent
  BY DEF Agent
<1>5. \A a \in Agent, v \in Seq(Data) : [a EXCEPT !.sum = v] \in Agent
  BY DEF Agent
<1> QED
  BY <1>1, <1>2, <1>3, <1>4, <1>5

\* The fields of the records that the actions read.
LEMMA FieldTypes ==
  ASSUME TypeOK
  PROVE  /\ state.next \in Nat /\ state.count \in Nat
         /\ saved.next \in Nat
         /\ session.id \in Nat /\ session.start \in Nat /\ session.got \in Seq(Data)
         /\ agent.next \in Nat /\ agent.sum \in Seq(Data)
BY DEF TypeOK, State, Session, Agent

\* The values that the actions build from the records and the segments.
LEMMA HashLogicalType ==
  ASSUME TypeOK
  PROVE  \A n \in Nat : n <= N => HashLogical(n) \in Seq(Data \cup {Junk})
<1> SUFFICES ASSUME NEW n \in Nat, n <= N
             PROVE  HashLogical(n) \in Seq(Data \cup {Junk})
  OBVIOUS
<1>1. \A i \in 1..n : raw[i - 1] \in Data \cup {Junk}
  BY ChunksAssumption DEF TypeOK
<1> QED
  BY <1>1 DEF HashLogical

LEMMA MarkResumedType ==
  ASSUME TypeOK
  PROVE  MarkResumed \in State
<1>1. state \in State /\ state.resumed \in BOOLEAN
  BY DEF TypeOK, State
<1> QED
  BY <1>1, StateUpdate DEF MarkResumed

LEMMA SessionEntryType ==
  ASSUME TypeOK
  PROVE  SessionEntry \in SessionRecord
BY DEF TypeOK, SessionEntry, SessionRecord, Session

LEMMA SealedStateType ==
  ASSUME TypeOK, state.next <= N
  PROVE  SealedState \in State
<1>1. state \in State
  BY DEF TypeOK
<1>2. HashLogical(state.next) \in Seq(Data \cup {Junk})
  BY FieldTypes, HashLogicalType
<1>3. "verified_continuous" \in Status /\ "chunk_verified_composite" \in Status
  BY DEF Status, Verified
<1> QED
  BY <1>1, <1>2, <1>3, StateUpdate DEF SealedState

LEMMA CompletedType ==
  ASSUME TypeOK, session.start <= state.next, NEW o \in Outcome
  PROVE  Completed(o) \in Session
<1>1. session \in Session
  BY DEF TypeOK
<1>2. state.next - session.start \in Nat
  BY FieldTypes
<1> QED
  BY <1>1, <1>2, SessionUpdate DEF Completed

LEMMA FrameTypes ==
  ASSUME TypeOK, agent.sum # <<>>
  PROVE  FramePayload \in Data /\ Record \in ChunkRecord
<1>1. FramePayload \in Data
  BY FieldTypes DEF FramePayload
<1> QED
  BY <1>1, FieldTypes DEF Record, ChunkRecord

\* The shared endings of an action leave values of the types behind.
LEMMA DisconnectedType ==
  ASSUME NEW c, Disconnected(c)
  PROVE  agent' \in Agent /\ wire' \in {"none", "data", "trailer", "bad"}
BY AgentUpdate DEF Disconnected

LEMMA ReturnType ==
  ASSUME NEW r \in Result, Return(r)
  PROVE  /\ pc' \in Labels /\ result' \in Result
         /\ state' \in State /\ session' \in Session
         /\ failures' \in Nat /\ retryOffset' \in Nat
         /\ agent' \in Agent /\ wire' \in {"none", "data", "trailer", "bad"}
BY StateUpdate, SessionUpdate, DisconnectedType DEF Return, Labels

LEMMA AbortType ==
  ASSUME TypeOK, NEW s \in State, Abort(s)
  PROVE  /\ pc' \in Labels /\ state' \in State /\ session' \in Session
         /\ agent' \in Agent /\ wire' \in {"none", "data", "trailer", "bad"}
         /\ UNCHANGED <<failures, retryOffset, result>>
<1>1. [session EXCEPT !.outcome = "error"] \in Session
  BY SessionUpdate DEF TypeOK, Outcome
<1> QED
  BY <1>1, DisconnectedType DEF Abort, Labels, loopVars

-----------------------------------------------------------------------------
\* Type correctness, in two parts: the Boolean variables, and the others.

Flags ==
  /\ torn \in BOOLEAN /\ logBroken \in BOOLEAN /\ cancelled \in BOOLEAN
  /\ conn \in BOOLEAN /\ acked \in BOOLEAN

Typed ==
  /\ raw \in [0..(N - 1) -> Data \cup {Junk}]
  /\ journal \in Seq(ChunkRecord)
  /\ saved \in State /\ manifest \in State /\ state \in State
  /\ sessions \in Seq(SessionRecord) /\ session \in Session
  /\ pc \in Labels /\ result \in Result
  /\ failures \in Nat /\ retryOffset \in Nat
  /\ agent \in Agent /\ wire \in {"none", "data", "trailer", "bad"}
  /\ passes \in Nat /\ runs \in Nat /\ faults \in Nat

LEMMA FlagsStep ==
  ASSUME Flags, [Next]_vars
  PROVE  Flags'
<1>1. CASE Run
  BY <1>1, Zenon DEF Flags, Run, durable, files
<1>2. CASE RunUnprepared
  BY <1>2, Zenon DEF Flags, RunUnprepared, durable, files, link
<1>3. CASE CreateState
  BY <1>3, Zenon DEF Flags, CreateState, Return, Disconnected, files, loopVars, link
<1>4. CASE AlreadyVerified
  BY <1>4, Zenon DEF Flags, AlreadyVerified, Return, Disconnected, durable, files, counters
<1>5. CASE JournalRejected
  BY <1>5, Zenon DEF Flags, JournalRejected, Return, Disconnected, durable, files, counters
<1>6. CASE OpenExisting
  BY <1>6, Zenon DEF Flags, OpenExisting, Return, Disconnected, files, link
<1>7. CASE CountSession
  BY <1>7, Zenon DEF Flags, CountSession, Disconnected, files, loopVars, link
<1>8. CASE RejectFrame
  BY <1>8, Zenon DEF Flags, RejectFrame, Abort, Disconnected, loopVars, durable, files,
         counters
<1>9. CASE AcceptChunk
  BY <1>9, Zenon DEF Flags, AcceptChunk, durable, files, process, loopVars, counters
<1>10. CASE WriteChunk
  BY <1>10, Zenon DEF Flags, WriteChunk, Abort, Disconnected, loopVars, link
<1>11. CASE AppendChunk
  BY <1>11, Zenon DEF Flags, AppendChunk, loopVars, link, counters
<1>12. CASE AppendFails
  BY <1>12, Zenon DEF Flags, AppendFails, Abort, Disconnected, loopVars
<1>13. CASE SaveProgress
  BY <1>13, Zenon DEF Flags, SaveProgress, Abort, Disconnected, loopVars, files, link
<1>14. CASE SendAck
  BY <1>14, Zenon DEF Flags, SendAck, Abort, Disconnected, loopVars, durable, files,
         counters
<1>15. CASE ReadTrailer
  BY <1>15, Zenon DEF Flags, ReadTrailer, Disconnected, durable, files, loopVars, counters
<1>16. CASE ReadFails
  BY <1>16, Zenon DEF Flags, ReadFails, Disconnected, durable, files, loopVars
<1>17. CASE IdentityFails
  BY <1>17, Zenon DEF Flags, IdentityFails, Return, Disconnected, durable, files
<1>18. CASE StartSession
  BY <1>18, Zenon DEF Flags, StartSession, durable, files, loopVars, counters
<1>19. CASE StartFails
  BY <1>19, Zenon DEF Flags, StartFails, durable, files, loopVars, link
<1>20. CASE RecordSession
  BY <1>20, Zenon DEF Flags, RecordSession, Return, Disconnected, loopVars, link
<1>21. CASE Seal
  BY <1>21, Zenon DEF Flags, Seal, Return, Disconnected, files, loopVars, link
<1>22. CASE RefuseSeal
  BY <1>22, Zenon DEF Flags, RefuseSeal, Return, Disconnected, durable, files, counters
<1>23. CASE WriteManifest
  BY <1>23, Zenon DEF Flags, WriteManifest, Return, Disconnected
<1>24. CASE Retry
  BY <1>24, Zenon DEF Flags, Retry, Return, Disconnected, files, link
<1>25. CASE GiveUp
  BY <1>25, Zenon DEF Flags, GiveUp, Return, Disconnected, files
<1>26. CASE BackoffCancelled
  BY <1>26, Zenon DEF Flags, BackoffCancelled, Return, Disconnected, durable, files,
         counters
<1>27. CASE Reconnect
  BY <1>27, Zenon DEF Flags, Reconnect, durable, files, process, loopVars, counters
<1>28. CASE ReconnectFails
  BY <1>28, Zenon DEF Flags, ReconnectFails, Return, Disconnected, durable, files,
         process, loopVars
<1>29. CASE NothingToFinalize
  BY <1>29, Zenon DEF Flags, NothingToFinalize, durable, files, process, loopVars, link,
         counters
<1>30. CASE FinalizeState
  BY <1>30, Zenon DEF Flags, FinalizeState, files, process, loopVars, link
<1>31. CASE FinalizeManifest
  BY <1>31, Zenon DEF Flags, FinalizeManifest, process, loopVars, link
<1>32. CASE AgentReads
  BY <1>32, Zenon DEF Flags, AgentReads, agentFrame, durable, files, process, loopVars,
         counters
<1>33. CASE AgentFinishes
  BY <1>33, Zenon DEF Flags, AgentFinishes, agentFrame, durable, files, process, loopVars,
         counters
<1>34. CASE AgentAcknowledged
  BY <1>34, Zenon DEF Flags, AgentAcknowledged, agentFrame, durable, files, process,
         loopVars, counters
<1>35. CASE AgentFails
  BY <1>35, Zenon DEF Flags, AgentFails, agentFrame, durable, files, process, loopVars
<1>36. CASE LinkDrops
  BY <1>36, Zenon DEF Flags, LinkDrops, durable, files, process, loopVars
<1>37. CASE FrameDamaged
  BY <1>37, Zenon DEF Flags, FrameDamaged, durable, files, process, loopVars
<1>38. CASE Cancel
  BY <1>38, Zenon DEF Flags, Cancel, durable, files, link
<1>39. CASE CancelKillsAgent
  BY <1>39, Zenon DEF Flags, CancelKillsAgent, agentFrame, durable, files, process,
         loopVars, counters
<1>40. CASE Crash
  BY <1>40, Zenon DEF Flags, Crash, Disconnected
<1>41. CASE Idle
  BY <1>41, Zenon DEF Flags, Idle, vars, durable, files, process, loopVars, link, counters
<1>42. CASE UNCHANGED vars
  BY <1>42, Zenon DEF Flags, vars, durable, files, process, link, counters, loopVars
<1> QED
  BY <1>1, <1>2, <1>3, <1>4, <1>5, <1>6, <1>7, <1>8, <1>9, <1>10, <1>11, <1>12, <1>13,
         <1>14, <1>15, <1>16, <1>17, <1>18, <1>19, <1>20, <1>21, <1>22, <1>23, <1>24,
         <1>25, <1>26, <1>27, <1>28, <1>29, <1>30, <1>31, <1>32, <1>33, <1>34, <1>35,
         <1>36, <1>37, <1>38, <1>39, <1>40, <1>41, <1>42
  DEF Next, Invocation, Receive, Loop, Finalize, AgentStep, Environment

\* Every action keeps the other variables in their types, group by group.
LEMMA InvocationType ==
  ASSUME IInv, Typed, Invocation
  PROVE  Typed'
<1> USE DEF IInv, Typed, Labels, Result
<1>1. CASE Run
  BY <1>1, SMT DEF Run, durable, files
<1>2. CASE RunUnprepared
  BY <1>2, SMT DEF RunUnprepared, Fault, durable, files, link
<1>3. CASE CreateState
  <2> DEFINE s == [NoState EXCEPT !.status = "running"]
  <2>1. s \in State
    BY StateUpdate DEF Status
  <2>2. CASE SaveState(s) /\ state' = s /\ pc' = "loop"
             /\ UNCHANGED <<session, loopVars, logBroken, link, faults>>
    BY <1>3, <2>1, <2>2, SMT DEF CreateState, SaveState, loopVars, link, files
  <2>3. CASE Fault /\ SaveStateFails(s) /\ Return("storage")
    BY <1>3, <2>1, <2>3, ReturnType, SMT DEF CreateState, SaveStateFails, Fault, files
  <2> QED
    BY <1>3, <2>2, <2>3 DEF CreateState
<1>4. CASE AlreadyVerified
  BY <1>4, StateUpdate, SessionUpdate, AgentUpdate, SMT DEF AlreadyVerified, Return,
         Disconnected, durable, files, counters
<1>5. CASE JournalRejected
  BY <1>5, StateUpdate, SessionUpdate, AgentUpdate, FieldTypes, SMT DEF JournalRejected,
         Return, Disconnected, durable, files, counters
<1>6. CASE OpenExisting
  <2> DEFINE s == [saved EXCEPT !.next = Len(journal), !.resumed = TRUE]
  <2>0. Len(journal) \in Nat
    OBVIOUS
  <2>1. s \in State
    BY <2>0, StateUpdate
  <2>2. saved' \in State
    BY <1>6, <2>1 DEF OpenExisting, SaveState, SaveStateFails
  <2>3. state' \in State /\ retryOffset' \in Nat /\ pc' \in Labels
        /\ session' \in Session /\ failures' \in Nat
        /\ result' \in Result /\ agent' \in Agent
           /\ wire' \in {"none", "data", "trailer", "bad"} /\ faults' \in Nat
    BY <1>6, <2>0, <2>1, ReturnType, SMT DEF OpenExisting, Fault, link
  <2> QED
    BY <1>6, <2>2, <2>3, SMT DEF OpenExisting, files
<1> QED
  BY <1>1, <1>2, <1>3, <1>4, <1>5, <1>6 DEF Invocation

LEMMA AgentStepType ==
  ASSUME IInv, Typed, AgentStep
  PROVE  Typed'
<1> USE DEF IInv, Typed, Labels, Result
<1>1. CASE AgentReads
  <2>1. PICK d \in Data : agent' = [agent EXCEPT !.pc = "wait", !.sum = Append(@, d)]
    BY <1>1 DEF AgentReads
  <2>2. Append(agent.sum, d) \in Seq(Data) /\ "wait" \in AgentPC
    BY FieldTypes DEF AgentPC
  <2>3. agent' \in Agent
    BY <2>1, <2>2, AgentUpdate
  <2> QED
    BY <1>1, <2>3, SMT DEF AgentReads, agentFrame, durable, files, process, loopVars, counters
<1>2. CASE AgentFinishes
  <2>1. agent' \in Agent
    BY <1>2, AgentUpdate DEF AgentFinishes, AgentPC
  <2> QED
    BY <1>2, <2>1, SMT DEF AgentFinishes, agentFrame, durable, files, process, loopVars,
       counters
<1>3. CASE AgentAcknowledged
  <2>1. agent.next + 1 \in Nat /\ "read" \in AgentPC
    BY FieldTypes DEF AgentPC
  <2>2. agent' \in Agent
    BY <1>3, <2>1, AgentUpdate DEF AgentAcknowledged
  <2> QED
    BY <1>3, <2>2, SMT DEF AgentAcknowledged, agentFrame, durable, files, process,
       loopVars, counters
<1> QED
  BY <1>1, <1>2, <1>3 DEF AgentStep

LEMMA ReceiveType ==
  ASSUME IInv, Typed, Receive
  PROVE  Typed'
<1> USE DEF IInv, Typed, Labels, Result
<1>1. CASE CountSession
  <2> DEFINE s == [state EXCEPT !.count = @ + 1]
             named == [session EXCEPT !.id = passes + 1]
  <2>1. s \in State
    <3>1. state.count + 1 \in Nat
      BY FieldTypes
    <3> QED
      BY <3>1, StateUpdate
  <2>2. named \in Session /\ [named EXCEPT !.outcome = "error"] \in Session
    <3>1. passes + 1 \in Nat /\ "error" \in Outcome
      BY DEF Outcome
    <3> QED
      BY <3>1, SessionUpdate
  <2> HIDE DEF s, named
  <2>3. CASE SaveState(s) /\ state' = s /\ session' = named
             /\ UNCHANGED <<pc, loopVars, link, faults>>
    BY <1>1, <2>1, <2>2, <2>3, SMT DEF CountSession, SaveState, loopVars, link, files
  <2>4. CASE /\ Fault /\ SaveStateFails(s)
             /\ pc' = "ended"
             /\ state' = s
             /\ session' = [named EXCEPT !.outcome = "error"]
             /\ Disconnected(conn)
             /\ UNCHANGED <<loopVars>>
    BY <1>1, <2>1, <2>2, <2>4, DisconnectedType, SMT DEF CountSession, SaveStateFails,
       Fault, loopVars, files
  <2> QED
    BY <1>1, <2>3, <2>4 DEF CountSession, s, named
<1>2. CASE RejectFrame
  BY <1>2, AbortType, SMT DEF RejectFrame, durable, files, counters
<1>3. CASE AcceptChunk
  BY <1>3, FieldTypes, SMT DEF AcceptChunk, durable, files, process, loopVars, counters
<1>4. CASE WriteChunk
  <2>1. FramePayload \in Data
    BY <1>4, FrameTypes DEF WriteChunk, Handshake
  <2>2. raw' \in [0..(N - 1) -> Data \cup {Junk}]
    <3>1. state.next \in 0..(N - 1)
      BY <1>4, FieldTypes, ChunksAssumption DEF WriteChunk, CommitOrder
    <3> QED
      BY <1>4, <2>1, <3>1 DEF WriteChunk
  <2> QED
    BY <1>4, <2>2, AbortType, SMT DEF WriteChunk, Fault, loopVars, link
<1>5. CASE AppendChunk
  <2>1. Record \in ChunkRecord /\ FramePayload \in Data
    BY <1>5, FrameTypes DEF AppendChunk, Handshake
  <2>2. state.next + 1 \in Nat /\ Append(session.got, FramePayload) \in Seq(Data)
    BY <2>1, FieldTypes
  <2>3. state' \in State
    BY <1>5, <2>2, StateUpdate DEF AppendChunk
  <2>4. session' \in Session
    BY <1>5, <2>2, SessionUpdate DEF AppendChunk
  <2> QED
    BY <1>5, <2>1, <2>3, <2>4, SMT DEF AppendChunk, loopVars, link, counters
<1>6. CASE AppendFails
  <2>1. Record \in ChunkRecord
    BY <1>6, FrameTypes DEF AppendFails, Handshake
  <2>2. Append(journal, Record) \in Seq(ChunkRecord)
    BY <2>1
  <2>3. journal' \in Seq(ChunkRecord)
    BY <1>6, <2>2 DEF AppendFails
  <2>4. faults' \in Nat
    BY <1>6 DEF AppendFails, Fault
  <2>5. Abort(state)
    BY <1>6 DEF AppendFails
  <2> QED
    BY <1>6, <2>3, <2>4, <2>5, AbortType, SMT DEF AppendFails
<1>7. CASE SaveProgress
  BY <1>7, AbortType, SMT DEF SaveProgress, Fault, SaveState, SaveStateFails, loopVars,
     files, link
<1>8. CASE SendAck
  BY <1>8, AbortType, SMT DEF SendAck, loopVars, durable, files, counters
<1>9. CASE ReadTrailer
  BY <1>9, StateUpdate, AgentUpdate, FieldTypes, CompletedType, SMTT(30) DEF ReadTrailer,
         Disconnected, durable, files, loopVars, counters, Outcome, CommitOrder
<1>10. CASE ReadFails
  BY <1>10, AgentUpdate, CompletedType, SMT DEF ReadFails, Fault, Disconnected, durable,
         files, loopVars, Outcome, CommitOrder
<1> QED
  BY <1>1, <1>2, <1>3, <1>4, <1>5, <1>6, <1>7, <1>8, <1>9, <1>10 DEF Receive

LEMMA LoopType ==
  ASSUME IInv, Typed, Loop
  PROVE  Typed'
<1> USE DEF IInv, Typed, Labels, Result
<1>1. CASE IdentityFails
  BY <1>1, StateUpdate, SessionUpdate, AgentUpdate, SMT DEF IdentityFails, Fault, Return,
         Disconnected, durable, files
<1>2. CASE StartSession
  <2>1. session' \in Session
    BY <1>2, SessionUpdate, FieldTypes DEF StartSession, Outcome
  <2>2. agent' \in Agent
    BY <1>2, AgentUpdate, FieldTypes DEF StartSession, AgentPC
  <2> QED
    BY <1>2, <2>1, <2>2, MarkResumedType, SMT DEF StartSession, durable, files, loopVars,
       counters
<1>3. CASE StartFails
  BY <1>3, MarkResumedType, SMT DEF StartFails, Fault, durable, files, loopVars, link
<1>4. CASE RecordSession
  <2>1. Append(sessions, SessionEntry) \in Seq(SessionRecord)
    BY SessionEntryType
  <2>2. sessions' \in Seq(SessionRecord)
    BY <1>4, <2>1 DEF RecordSession
  <2>3. faults' \in Nat
    BY <1>4 DEF RecordSession, Fault, link
  <2> QED
    BY <1>4, <2>2, <2>3, SessionUpdate, ReturnType, SMT DEF RecordSession, loopVars, link
<1>5. CASE Seal
  BY <1>5, StateUpdate, SessionUpdate, AgentUpdate, SealedStateType, SMT DEF Seal, Fault,
         SaveState, SaveStateFails, Return, Disconnected, files, loopVars, link,
         CommitOrder
<1>6. CASE RefuseSeal
  BY <1>6, StateUpdate, SessionUpdate, AgentUpdate, FieldTypes, SMT DEF RefuseSeal,
         Return, Disconnected, durable, files, counters
<1>7. CASE WriteManifest
  BY <1>7, StateUpdate, SessionUpdate, AgentUpdate, SMT DEF WriteManifest, Fault, Return,
         Disconnected
<1>8. CASE Retry
  BY <1>8, StateUpdate, SessionUpdate, AgentUpdate, FieldTypes, SMTT(30) DEF Retry, Fault,
         SaveState, SaveStateFails, Return, Disconnected, FailuresHere, files, link
<1>9. CASE GiveUp
  <2>1. [state EXCEPT !.status = "failed"] \in State
    BY StateUpdate DEF Status
  <2> QED
    BY <1>9, <2>1, ReturnType, SMT DEF GiveUp, Fault, SaveState, SaveStateFails, files
<1>10. CASE BackoffCancelled
  BY <1>10, StateUpdate, SessionUpdate, AgentUpdate, SMT DEF BackoffCancelled, Return,
         Disconnected, durable, files, counters
<1>11. CASE Reconnect
  BY <1>11, SMT DEF Reconnect, durable, files, process, loopVars, counters
<1>12. CASE ReconnectFails
  BY <1>12, StateUpdate, SessionUpdate, AgentUpdate, SMT DEF ReconnectFails, Fault,
         Return, Disconnected, durable, files, process, loopVars
<1> QED
  BY <1>1, <1>2, <1>3, <1>4, <1>5, <1>6, <1>7, <1>8, <1>9, <1>10, <1>11, <1>12 DEF Loop

LEMMA FinalizeType ==
  ASSUME IInv, Typed, Finalize
  PROVE  Typed'
<1> USE DEF IInv, Typed, Labels, Result
<1>1. CASE NothingToFinalize
  BY <1>1, SMT DEF NothingToFinalize, durable, files, process, loopVars, link, counters
<1>2. CASE FinalizeState
  <2>1. [saved EXCEPT !.logical = HashLogical(saved.next)] \in State
    BY StateUpdate, FieldTypes, HashLogicalType DEF CommitOrder
  <2> QED
    BY <1>2, <2>1, SMTT(30) DEF FinalizeState, Fault, SaveState, SaveStateFails, files, process,
       loopVars, link
<1>3. CASE FinalizeManifest
  BY <1>3, SMT DEF FinalizeManifest, Fault, process, loopVars, link
<1> QED
  BY <1>1, <1>2, <1>3 DEF Finalize

LEMMA EnvironmentType ==
  ASSUME IInv, Typed, Environment
  PROVE  Typed'
<1> USE DEF IInv, Typed, Labels, Result
<1>1. CASE AgentFails
  <2>1. agent' \in Agent
    BY <1>1, AgentUpdate DEF AgentFails, AgentPC
  <2> QED
    BY <1>1, <2>1, SMT DEF AgentFails, Fault, agentFrame, durable, files, process, loopVars
<1>2. CASE LinkDrops
  <2>1. agent' \in Agent
    BY <1>2, AgentUpdate DEF LinkDrops, AgentPC
  <2> QED
    BY <1>2, <2>1, SMT DEF LinkDrops, Fault, durable, files, process, loopVars
<1>3. CASE FrameDamaged
  BY <1>3, SMT DEF FrameDamaged, Fault, durable, files, process, loopVars
<1>4. CASE Cancel
  BY <1>4, SMT DEF Cancel, Fault, durable, files, link
<1>5. CASE CancelKillsAgent
  <2>1. agent' \in Agent
    BY <1>5, AgentUpdate DEF CancelKillsAgent, AgentPC
  <2> QED
    BY <1>5, <2>1, SMT DEF CancelKillsAgent, agentFrame, durable, files, process, loopVars,
       counters
<1>6. CASE Crash
  <2>1. raw' \in [0..(N - 1) -> Data \cup {Junk}]
    <3>1. CASE pc = "write"
      <4>1. FramePayload \in Data /\ state.next \in 0..(N - 1)
        BY <3>1, FrameTypes, FieldTypes, ChunksAssumption DEF Handshake, CommitOrder
      <4> QED
        BY <1>6, <3>1, <4>1 DEF Crash
    <3>2. CASE pc # "write"
      BY <1>6, <3>2 DEF Crash
    <3> QED
      BY <3>1, <3>2
  <2>2. agent' \in Agent /\ wire' \in {"none", "data", "trailer", "bad"}
    BY <1>6, DisconnectedType DEF Crash
  <2>3. state' \in State /\ session' \in Session
    BY <1>6, StateUpdate, SessionUpdate DEF Crash
  <2>4. faults' \in Nat
    BY <1>6 DEF Crash, Fault
  <2> QED
    BY <1>6, <2>1, <2>2, <2>3, <2>4, SMT DEF Crash
<1> QED
  BY <1>1, <1>2, <1>3, <1>4, <1>5, <1>6 DEF Environment

-----------------------------------------------------------------------------
\* The steps keep Handshake.

LEMMA InvocationHandshake ==
  ASSUME agent \in Agent, Handshake, CommitOrder, Invocation
  PROVE  Handshake'
<1> USE DEF Handshake, Receiving, Handling, Agent, AgentPC, NoAgent
<1>1. CASE Run
  BY <1>1, SMT DEF Run, durable, files
<1>2. CASE RunUnprepared
  BY <1>2, SMT DEF RunUnprepared, durable, files, link
<1>3. CASE CreateState
  BY <1>3, SMT DEF CreateState, Return, Disconnected, files, loopVars, link
<1>4. CASE AlreadyVerified
  BY <1>4, SMT DEF AlreadyVerified, Return, Disconnected, durable, files, counters
<1>5. CASE JournalRejected
  BY <1>5, SMT DEF JournalRejected, Return, Disconnected, durable, files, counters
<1>6. CASE OpenExisting
  BY <1>6, SMT DEF OpenExisting, Return, Disconnected, files, link
<1> QED
  BY <1>1, <1>2, <1>3, <1>4, <1>5, <1>6 DEF Invocation

LEMMA AgentStepHandshake ==
  ASSUME agent \in Agent, Handshake, CommitOrder, AgentStep
  PROVE  Handshake'
<1> USE DEF Handshake, Receiving, Handling, Agent, AgentPC, NoAgent
<1>1. CASE AgentReads
  <2>1. PICK d \in Data : agent' = [agent EXCEPT !.pc = "wait", !.sum = Append(@, d)]
    BY <1>1 DEF AgentReads
  <2>2. Append(agent.sum, d) # <<>>
    OBVIOUS
  <2>3. agent'.pc = "wait" /\ agent'.next = agent.next /\ agent'.sum # <<>>
    BY <2>1, <2>2
  <2> QED
    BY <1>1, <2>3, SMT DEF AgentReads, agentFrame, process
<1>2. CASE AgentFinishes
  BY <1>2, SMT DEF AgentFinishes, agentFrame, durable, files, process, loopVars, counters
<1>3. CASE AgentAcknowledged
  BY <1>3, SMT DEF AgentAcknowledged, agentFrame, durable, files, process, loopVars,
         counters
<1> QED
  BY <1>1, <1>2, <1>3 DEF AgentStep

LEMMA ReceiveHandshake ==
  ASSUME agent \in Agent, Handshake, CommitOrder, Receive
  PROVE  Handshake'
<1> USE DEF Handshake, Receiving, Handling, Agent, AgentPC, NoAgent
<1>1. CASE CountSession
  BY <1>1, SMT DEF CountSession, Disconnected, files, loopVars, link
<1>2. CASE RejectFrame
  BY <1>2, SMT DEF RejectFrame, Abort, Disconnected, loopVars, durable, files, counters
<1>3. CASE AcceptChunk
  BY <1>3, SMT DEF AcceptChunk, durable, files, process, loopVars, counters
<1>4. CASE WriteChunk
  BY <1>4, SMT DEF WriteChunk, Abort, Disconnected, loopVars, link
<1>5. CASE AppendChunk
  BY <1>5, SMT DEF AppendChunk, link, counters
<1>6. CASE AppendFails
  BY <1>6, SMT DEF AppendFails, Abort, Disconnected, loopVars
<1>7. CASE SaveProgress
  BY <1>7, SMT DEF SaveProgress, Abort, Disconnected, loopVars, files, link
<1>8. CASE SendAck
  <2>1. CASE acked' = (agent.pc = "wait") /\ pc' = "recv" /\ UNCHANGED <<agent, wire>>
    <3>1. acked' => agent.pc = "wait"
      BY <2>1
    <3>2. wire' = "none" /\ pc' = "recv" /\ agent' = agent /\ agent.pc \notin {"none", "read"}
      BY <1>8, <2>1 DEF SendAck
    <3> QED
      BY <3>1, <3>2
  <2>2. CASE Abort(state)
    BY <1>8, <2>2, SMT DEF SendAck, Abort, Disconnected
  <2> QED
    BY <1>8, <2>1, <2>2 DEF SendAck
<1>9. CASE ReadTrailer
  BY <1>9, SMT DEF ReadTrailer, Disconnected, durable, files, loopVars, counters
<1>10. CASE ReadFails
  BY <1>10, SMT DEF ReadFails, Disconnected, durable, files, loopVars
<1> QED
  BY <1>1, <1>2, <1>3, <1>4, <1>5, <1>6, <1>7, <1>8, <1>9, <1>10 DEF Receive

LEMMA LoopHandshake ==
  ASSUME agent \in Agent, Handshake, CommitOrder, Loop
  PROVE  Handshake'
<1> USE DEF Handshake, Receiving, Handling, Agent, AgentPC, NoAgent
<1>1. CASE IdentityFails
  BY <1>1, SMT DEF IdentityFails, Return, Disconnected, durable, files
<1>2. CASE StartSession
  BY <1>2, SMT DEF StartSession, durable, files, loopVars, counters
<1>3. CASE StartFails
  BY <1>3, SMT DEF StartFails, durable, files, loopVars, link
<1>4. CASE RecordSession
  BY <1>4, SMT DEF RecordSession, Return, Disconnected, loopVars, link
<1>5. CASE Seal
  BY <1>5, SMT DEF Seal, Return, Disconnected, files, loopVars, link
<1>6. CASE RefuseSeal
  BY <1>6, SMT DEF RefuseSeal, Return, Disconnected, durable, files, counters
<1>7. CASE WriteManifest
  BY <1>7, SMT DEF WriteManifest, Return, Disconnected
<1>8. CASE Retry
  BY <1>8, SMT DEF Retry, Return, Disconnected, files, link
<1>9. CASE GiveUp
  BY <1>9, SMT DEF GiveUp, Return, Disconnected, files
<1>10. CASE BackoffCancelled
  BY <1>10, SMT DEF BackoffCancelled, Return, Disconnected, durable, files, counters
<1>11. CASE Reconnect
  BY <1>11, SMT DEF Reconnect, durable, files, process, loopVars, counters
<1>12. CASE ReconnectFails
  BY <1>12, SMT DEF ReconnectFails, Return, Disconnected, durable, files, process, loopVars
<1> QED
  BY <1>1, <1>2, <1>3, <1>4, <1>5, <1>6, <1>7, <1>8, <1>9, <1>10, <1>11, <1>12 DEF Loop

LEMMA FinalizeHandshake ==
  ASSUME agent \in Agent, Handshake, CommitOrder, Finalize
  PROVE  Handshake'
<1> USE DEF Handshake, Receiving, Handling, Agent, AgentPC, NoAgent
<1>1. CASE NothingToFinalize
  BY <1>1, SMT DEF NothingToFinalize, durable, files, process, loopVars, link, counters
<1>2. CASE FinalizeState
  BY <1>2, SMT DEF FinalizeState, files, process, loopVars, link
<1>3. CASE FinalizeManifest
  BY <1>3, SMT DEF FinalizeManifest, process, loopVars, link
<1> QED
  BY <1>1, <1>2, <1>3 DEF Finalize

LEMMA EnvironmentHandshake ==
  ASSUME agent \in Agent, Handshake, CommitOrder, Environment
  PROVE  Handshake'
<1> USE DEF Handshake, Receiving, Handling, Agent, AgentPC, NoAgent
<1>1. CASE AgentFails
  BY <1>1, SMT DEF AgentFails, agentFrame, durable, files, process, loopVars
<1>2. CASE LinkDrops
  BY <1>2, SMT DEF LinkDrops, durable, files, process, loopVars
<1>3. CASE FrameDamaged
  BY <1>3, SMT DEF FrameDamaged, durable, files, process, loopVars
<1>4. CASE Cancel
  BY <1>4, SMT DEF Cancel, durable, files, link
<1>5. CASE CancelKillsAgent
  BY <1>5, SMT DEF CancelKillsAgent, agentFrame, durable, files, process, loopVars, counters
<1>6. CASE Crash
  BY <1>6, SMT DEF Crash, Disconnected
<1> QED
  BY <1>1, <1>2, <1>3, <1>4, <1>5, <1>6 DEF Environment

-----------------------------------------------------------------------------
\* CommitOrder.

\* A transition that ends the invocation or the session keeps it, when the
\* saved offset and the one in memory stay within the journal and the source.
LEMMA ReturnCommit ==
  ASSUME NEW r, Return(r), journal' \in Seq(ChunkRecord),
         saved'.next <= Len(journal'), saved'.next <= N
  PROVE  CommitOrder'
BY ChunksAssumption, SMT
   DEF CommitOrder, Return, Disconnected, NoState, NoSession, NoAgent, Receiving, Handling

LEMMA AbortCommit ==
  ASSUME TypeOK, NEW s \in State, Abort(s),
         saved'.next <= Len(journal'), saved'.next <= N,
         s.next <= Len(journal'), s.next <= N, session.start <= s.next
  PROVE  CommitOrder'
<1>1. session'.start = session.start
  BY DEF Abort, TypeOK, Session
<1> QED
  BY <1>1, SMT DEF CommitOrder, Abort, Disconnected, NoAgent, Receiving, Handling, State

LEMMA InvocationCommitOrder ==
  ASSUME IInv, Invocation
  PROVE  CommitOrder'
<1> USE FieldTypes DEF IInv, TypeOK, Handshake, CommitOrder, Receiving, Handling
<1>1. CASE Run
  BY <1>1, ChunksAssumption, SMT DEF Run, durable, files, Agent, State, Session
<1>2. CASE RunUnprepared
  BY <1>2, ChunksAssumption, SMT DEF RunUnprepared, durable, files, link, Agent, State,
         Session
<1>3. CASE CreateState
  <2> DEFINE s == [NoState EXCEPT !.status = "running"]
  <2>1. s.next = 0
    BY DEF NoState
  <2>2. UNCHANGED journal /\ pc = "open" /\ ~acked
    BY <1>3 DEF CreateState, files
  <2> HIDE DEF s
  <2>3. CASE SaveState(s) /\ state' = s /\ pc' = "loop"
             /\ UNCHANGED <<session, loopVars, logBroken, link, faults>>
    <3>1. saved'.next = 0 /\ state'.next = 0 /\ session' = session /\ agent' = agent /\ ~acked'
      BY <2>1, <2>2, <2>3 DEF SaveState, link
    <3> QED
      BY <2>2, <2>3, <3>1, ChunksAssumption, SMT
  <2>4. CASE Fault /\ SaveStateFails(s) /\ Return("storage")
    <3>1. saved'.next \in {0, saved.next}
      BY <2>1, <2>4 DEF SaveStateFails
    <3> QED
      BY <2>2, <2>4, <3>1, ReturnCommit, ChunksAssumption
  <2> QED
    BY <1>3, <2>3, <2>4 DEF CreateState, s
<1>4. CASE AlreadyVerified
  BY <1>4, ChunksAssumption, SMT DEF AlreadyVerified, Return, Disconnected, NoAgent,
         NoState, NoSession, durable, files, counters, Agent, State, Session
<1>5. CASE JournalRejected
  BY <1>5, ChunksAssumption, SMT DEF JournalRejected, Return, Disconnected, NoAgent,
         NoState, NoSession, durable, files, counters, Agent, State, Session
<1>6. CASE OpenExisting
  <2> DEFINE s == [saved EXCEPT !.next = Len(journal), !.resumed = TRUE]
  <2>1. s.next = Len(journal)
    OBVIOUS
  <2>2. UNCHANGED journal /\ pc = "open" /\ ~acked /\ Len(journal) <= N
        /\ saved.next <= Len(journal)
    BY <1>6 DEF OpenExisting, files
  <2> HIDE DEF s
  <2>3. CASE /\ IF Len(journal) > saved.next THEN SaveState(s) /\ state' = s
                                             ELSE state' = saved /\ UNCHANGED saved
             /\ pc' = "loop" /\ UNCHANGED <<session, link>>
    <3>1. state'.next = Len(journal) /\ saved'.next = Len(journal)
      BY <2>1, <2>2, <2>3 DEF SaveState
    <3>2. session' = session /\ agent' = agent /\ ~acked'
      BY <2>2, <2>3 DEF link
    <3> QED
      BY <2>2, <2>3, <3>1, <3>2, SMT
  <2>4. CASE /\ IF Len(journal) > saved.next THEN SaveStateFails(s) ELSE UNCHANGED saved
             /\ Return("storage")
    <3>1. saved'.next \in {Len(journal), saved.next}
      BY <2>1, <2>4 DEF SaveStateFails
    <3> QED
      BY <2>2, <2>4, <3>1, ReturnCommit
  <2> QED
    BY <1>6, <2>3, <2>4 DEF OpenExisting, s
<1> QED
  BY <1>1, <1>2, <1>3, <1>4, <1>5, <1>6 DEF Invocation

LEMMA AgentStepCommitOrder ==
  ASSUME IInv, AgentStep
  PROVE  CommitOrder'
<1> USE FieldTypes DEF IInv, TypeOK, Handshake, CommitOrder, Receiving, Handling
<1>1. CASE AgentReads
  BY <1>1, ChunksAssumption, SMT DEF AgentReads, agentFrame, durable, files, process,
         loopVars, counters, Agent, State, Session
<1>2. CASE AgentFinishes
  BY <1>2, ChunksAssumption, SMT DEF AgentFinishes, agentFrame, durable, files, process,
         loopVars, counters, Agent, State, Session
<1>3. CASE AgentAcknowledged
  <2>1. agent'.pc = "read" /\ agent'.next = agent.next + 1
    BY <1>3 DEF AgentAcknowledged, Agent
  <2>2. agent.next < saved.next /\ ~acked' /\ pc = "recv"
    BY <1>3 DEF AgentAcknowledged
  <2>3. UNCHANGED <<saved, journal, state, session, pc>>
    BY <1>3 DEF AgentAcknowledged, agentFrame, durable, files, process
  <2> QED
    BY <2>1, <2>2, <2>3, SMT
<1> QED
  BY <1>1, <1>2, <1>3 DEF AgentStep

LEMMA ReceiveCommitOrder ==
  ASSUME IInv, Receive
  PROVE  CommitOrder'
<1> USE FieldTypes DEF IInv, TypeOK, Handshake, CommitOrder, Receiving, Handling
<1>1. CASE CountSession
  <2> DEFINE s == [state EXCEPT !.count = @ + 1]
             named == [session EXCEPT !.id = passes + 1]
  <2>1. s.next = state.next /\ named.start = session.start
        /\ [named EXCEPT !.outcome = "error"].start = session.start
    BY DEF State, Session
  <2>2. UNCHANGED journal
    BY <1>1 DEF CountSession, files
  <2>3. CASE SaveState(s) /\ state' = s /\ session' = named
             /\ UNCHANGED <<pc, loopVars, link, faults>>
    BY <1>1, <2>1, <2>2, <2>3, SMT DEF CountSession, SaveState, link
  <2>4. CASE /\ Fault /\ SaveStateFails(s)
             /\ pc' = "ended"
             /\ state' = s
             /\ session' = [named EXCEPT !.outcome = "error"]
             /\ Disconnected(conn)
             /\ UNCHANGED <<loopVars>>
    <3>1. session'.start = session.start /\ state'.next = state.next
          /\ saved'.next \in {saved.next, state.next}
      BY <2>1, <2>4 DEF SaveStateFails
    <3> QED
      BY <1>1, <2>2, <2>4, <3>1, SMT DEF CountSession, Disconnected, NoAgent
  <2> QED
    BY <1>1, <2>3, <2>4 DEF CountSession
<1>2. CASE RejectFrame
  BY <1>2, ChunksAssumption, SMT DEF RejectFrame, Abort, Disconnected, NoAgent, loopVars,
         durable, files, counters, Agent, State, Session
<1>3. CASE AcceptChunk
  BY <1>3, ChunksAssumption, SMT DEF AcceptChunk, FrameOffset, durable, files, process,
         loopVars, counters, Agent, State, Session
<1>4. CASE WriteChunk
  <2>1. CASE pc' = "append" /\ UNCHANGED <<state, session, loopVars, link, faults>>
    BY <1>4, <2>1, SMT DEF WriteChunk, link
  <2>2. CASE Abort(state)
    BY <1>4, <2>2, AbortCommit DEF WriteChunk
  <2> QED
    BY <1>4, <2>1, <2>2 DEF WriteChunk
<1>5. CASE AppendChunk
  <2>1. Len(journal') = Len(journal) + 1
    BY <1>5 DEF AppendChunk
  <2>2. state'.next = state.next + 1 /\ session'.start = session.start
    BY <1>5 DEF AppendChunk, State, Session
  <2>3. pc = "append" /\ pc' = "save" /\ UNCHANGED <<saved, agent>> /\ ~acked'
    BY <1>5 DEF AppendChunk, link
  <2>4. agent.next = state.next /\ state.next < N /\ state.next = saved.next
        /\ saved.next <= Len(journal)
        /\ session.start <= state.next
    BY <2>3
  <2>5. Len(journal) \in Nat /\ N \in Nat
    BY ChunksAssumption
  <2> QED
    BY <2>1, <2>2, <2>3, <2>4, <2>5, SMT
<1>6. CASE AppendFails
  <2>1. Record \in ChunkRecord
    BY <1>6, FrameTypes DEF AppendFails
  <2>2. Append(journal, Record) \in Seq(ChunkRecord)
        /\ Len(Append(journal, Record)) = Len(journal) + 1
    BY <2>1
  <2>3. journal' \in {journal, Append(journal, Record)} /\ Abort(state) /\ UNCHANGED saved
    BY <1>6 DEF AppendFails
  <2>4. journal' \in Seq(ChunkRecord) /\ Len(journal') >= Len(journal)
    <3>1. Len(journal) \in Nat
      OBVIOUS
    <3>2. CASE journal' = journal
      BY <3>1, <3>2
    <3>3. CASE journal' = Append(journal, Record)
      BY <2>2, <3>1, <3>3
    <3> QED
      BY <2>3, <3>2, <3>3
  <2> QED
    BY <2>3, <2>4, AbortCommit
<1>7. CASE SaveProgress
  <2>1. CASE SaveState(state) /\ pc' = "ack"
             /\ UNCHANGED <<state, session, loopVars, link, faults>>
    BY <1>7, <2>1, SMT DEF SaveProgress, SaveState, link, files
  <2>2. CASE SaveStateFails(state) /\ Abort(state)
    BY <1>7, <2>2, AbortCommit DEF SaveProgress, SaveStateFails, files
  <2> QED
    BY <1>7, <2>1, <2>2 DEF SaveProgress
<1>8. CASE SendAck
  <2>1. CASE pc' = "recv" /\ UNCHANGED <<state, session, loopVars, conn, agent, wire>>
    BY <1>8, <2>1, SMT DEF SendAck, durable, files
  <2>2. CASE Abort(state)
    BY <1>8, <2>2, AbortCommit DEF SendAck, durable, files
  <2> QED
    BY <1>8, <2>1, <2>2 DEF SendAck
<1>9. CASE ReadTrailer
  <2>1. session'.start = session.start
    BY <1>9 DEF ReadTrailer, Completed, Session
  <2>2. state'.next = state.next
    BY <1>9 DEF ReadTrailer, State
  <2>3. pc' = "ended" /\ agent'.pc = "none" /\ ~acked' /\ UNCHANGED <<saved, journal>>
    BY <1>9 DEF ReadTrailer, Disconnected, NoAgent, durable, files
  <2> QED
    BY <2>1, <2>2, <2>3, SMT
<1>10. CASE ReadFails
  BY <1>10, ChunksAssumption, SMT DEF ReadFails, Disconnected, NoAgent, Completed,
         durable, files, loopVars, Agent, State, Session
<1> QED
  BY <1>1, <1>2, <1>3, <1>4, <1>5, <1>6, <1>7, <1>8, <1>9, <1>10 DEF Receive

LEMMA LoopCommitOrder ==
  ASSUME IInv, Loop
  PROVE  CommitOrder'
<1> USE FieldTypes DEF IInv, TypeOK, Handshake, CommitOrder, Receiving, Handling
<1>1. CASE IdentityFails
  <2>1. UNCHANGED <<saved, journal>> /\ \E r \in Result : Return(r)
    BY <1>1 DEF IdentityFails, durable, files, Result
  <2> QED
    BY <2>1, ReturnCommit
<1>2. CASE StartSession
  BY <1>2, ChunksAssumption, SMT DEF StartSession, MarkResumed, NoSession, NoAgent,
         durable, files, loopVars, counters, Agent, State, Session
<1>3. CASE StartFails
  BY <1>3, ChunksAssumption, SMT DEF StartFails, MarkResumed, durable, files, loopVars,
         link, Agent, State, Session
<1>4. CASE RecordSession
  <2>1. UNCHANGED <<saved, journal>> /\ pc = "ended" /\ ~acked
    BY <1>4 DEF RecordSession
  <2>2. CASE /\ pc' \in {"seal", "retry"} /\ session' = NoSession
             /\ UNCHANGED <<state, link>>
    <3>1. session'.start = 0 /\ agent' = agent /\ ~acked' /\ state' = state
      BY <2>1, <2>2 DEF NoSession, link
    <3> QED
      BY <2>1, <2>2, <3>1, SMT
  <2>3. CASE Return("storage")
    BY <2>1, <2>3, ReturnCommit
  <2> QED
    BY <1>4, <2>2, <2>3 DEF RecordSession
<1>5. CASE Seal
  <2>1. SealedState.next = state.next
    BY DEF SealedState
  <2>2. CASE SaveState(SealedState) /\ state' = SealedState /\ pc' = "manifest"
             /\ UNCHANGED <<session, link>>
    BY <1>5, <2>1, <2>2, SMT DEF Seal, SaveState, link, files
  <2>3. CASE SaveStateFails(SealedState) /\ Return("storage")
    BY <1>5, <2>1, <2>3, ReturnCommit DEF Seal, SaveStateFails, files
  <2> QED
    BY <1>5, <2>2, <2>3 DEF Seal
<1>6. CASE RefuseSeal
  BY <1>6, ChunksAssumption, SMT DEF RefuseSeal, Return, Disconnected, NoAgent, NoState,
         NoSession, durable, files, counters, Agent, State, Session
<1>7. CASE WriteManifest
  <2>1. UNCHANGED <<saved, journal>> /\ \E r \in Result : Return(r)
    BY <1>7 DEF WriteManifest, Result
  <2> QED
    BY <2>1, ReturnCommit
<1>8. CASE Retry
  <2>1. pc = "retry" /\ ~acked /\ UNCHANGED journal
    BY <1>8 DEF Retry, files
  <2>2. CASE SaveState(state) /\ pc' \in {"exhausted", "backoff"}
             /\ UNCHANGED <<state, session, link>>
    <3>1. session' = session /\ agent' = agent /\ ~acked' /\ state' = state /\ saved' = state
      BY <2>1, <2>2 DEF SaveState, link
    <3> QED
      BY <2>1, <2>2, <3>1, SMT
  <2>3. CASE SaveStateFails(state) /\ Return("storage")
    BY <2>1, <2>3, ReturnCommit DEF SaveStateFails
  <2> QED
    BY <1>8, <2>2, <2>3 DEF Retry
<1>9. CASE GiveUp
  <2> DEFINE s == [state EXCEPT !.status = "failed"]
  <2>1. s.next = state.next
    OBVIOUS
  <2>2. saved' \in {saved, s} /\ UNCHANGED journal /\ \E r \in Result : Return(r)
    BY <1>9 DEF GiveUp, SaveState, SaveStateFails, files, Result
  <2> QED
    BY <2>1, <2>2, ReturnCommit
<1>10. CASE BackoffCancelled
  BY <1>10, ChunksAssumption, SMT DEF BackoffCancelled, Return, Disconnected, NoAgent,
         NoState, NoSession, durable, files, counters, Agent, State, Session
<1>11. CASE Reconnect
  BY <1>11, ChunksAssumption, SMT DEF Reconnect, durable, files, process, loopVars,
         counters, Agent, State, Session
<1>12. CASE ReconnectFails
  <2>1. UNCHANGED <<saved, journal>>
    BY <1>12 DEF ReconnectFails, durable, files
  <2>2. CASE pc' = "loop" /\ UNCHANGED <<process, agent, wire, acked>>
    BY <1>12, <2>1, <2>2, SMT DEF ReconnectFails, process
  <2>3. CASE Return("storage")
    BY <2>1, <2>3, ReturnCommit
  <2> QED
    BY <1>12, <2>2, <2>3 DEF ReconnectFails
<1> QED
  BY <1>1, <1>2, <1>3, <1>4, <1>5, <1>6, <1>7, <1>8, <1>9, <1>10, <1>11, <1>12 DEF Loop

LEMMA FinalizeCommitOrder ==
  ASSUME IInv, Finalize
  PROVE  CommitOrder'
<1> USE FieldTypes DEF IInv, TypeOK, Handshake, CommitOrder, Receiving, Handling
<1>1. CASE NothingToFinalize
  BY <1>1, ChunksAssumption, SMT DEF NothingToFinalize, durable, files, process, loopVars,
         link, counters, Agent, State, Session
<1>2. CASE FinalizeState
  <2>1. saved'.next = saved.next
    BY <1>2 DEF FinalizeState, SaveState, SaveStateFails, State
  <2>2. pc = "finalize" /\ pc' \in {"finalManifest", "down"}
    BY <1>2 DEF FinalizeState
  <2>3. UNCHANGED <<journal, state, session, agent>> /\ ~acked'
    BY <1>2, <2>2 DEF FinalizeState, files, process, link
  <2> QED
    BY <2>1, <2>2, <2>3, SMT
<1>3. CASE FinalizeManifest
  BY <1>3, ChunksAssumption, SMT DEF FinalizeManifest, process, loopVars, link, Agent,
         State, Session
<1> QED
  BY <1>1, <1>2, <1>3 DEF Finalize

LEMMA EnvironmentCommitOrder ==
  ASSUME IInv, Environment
  PROVE  CommitOrder'
<1> USE FieldTypes DEF IInv, TypeOK, Handshake, CommitOrder, Receiving, Handling
<1>1. CASE AgentFails
  BY <1>1, ChunksAssumption, SMT DEF AgentFails, agentFrame, durable, files, process,
         loopVars, Agent, State, Session
<1>2. CASE LinkDrops
  BY <1>2, ChunksAssumption, SMT DEF LinkDrops, durable, files, process, loopVars, Agent,
         State, Session
<1>3. CASE FrameDamaged
  BY <1>3, ChunksAssumption, SMT DEF FrameDamaged, durable, files, process, loopVars,
         Agent, State, Session
<1>4. CASE Cancel
  BY <1>4, ChunksAssumption, SMT DEF Cancel, durable, files, link, Agent, State, Session
<1>5. CASE CancelKillsAgent
  BY <1>5, ChunksAssumption, SMT DEF CancelKillsAgent, agentFrame, durable, files,
         process, loopVars, counters, Agent, State, Session
<1>6. CASE Crash
  BY <1>6, ChunksAssumption, SMT DEF Crash, Disconnected, NoAgent, NoState, NoSession,
         Agent, State, Session
<1> QED
  BY <1>1, <1>2, <1>3, <1>4, <1>5, <1>6 DEF Environment


-----------------------------------------------------------------------------
\* Sealing.

\* The step leaves the artifact alone, or the artifact is not sealed by it and
\* was not sealed before it.
LeavesSealAlone ==
  \/ UNCHANGED <<raw, journal, torn, saved>>
  \/ saved.status \notin Verified /\ saved'.status \notin Verified

\* Only Seal changes the artifact and its seal together.
LEMMA InvocationLeavesSealAlone ==
  ASSUME TypeOK, Sealing, Invocation
  PROVE  LeavesSealAlone \/ Seal
<1> USE DEF LeavesSealAlone, TypeOK, Sealing, Verified
<1>1. CASE Run
  BY <1>1 DEF Run, durable, files
<1>2. CASE RunUnprepared
  BY <1>2 DEF RunUnprepared, durable, files
<1>3. CASE CreateState
  BY <1>3 DEF CreateState, SaveState, SaveStateFails, NoState, files, loopVars
<1>4. CASE AlreadyVerified
  BY <1>4 DEF AlreadyVerified, NoState, durable, files
<1>5. CASE JournalRejected
  BY <1>5 DEF JournalRejected, NoState, Resumes, durable, files
<1>6. CASE OpenExisting
  BY <1>6 DEF OpenExisting, SaveState, SaveStateFails, NoState, Resumes, files, State
<1> QED
  BY <1>1, <1>2, <1>3, <1>4, <1>5, <1>6 DEF Invocation

LEMMA AgentStepLeavesSealAlone ==
  ASSUME TypeOK, Sealing, AgentStep
  PROVE  LeavesSealAlone \/ Seal
<1> USE DEF LeavesSealAlone, TypeOK, Sealing, Verified
<1>1. CASE AgentReads
  BY <1>1 DEF AgentReads, agentFrame, durable, files, loopVars
<1>2. CASE AgentFinishes
  BY <1>2 DEF AgentFinishes, agentFrame, durable, files, loopVars
<1>3. CASE AgentAcknowledged
  BY <1>3 DEF AgentAcknowledged, agentFrame, durable, files, loopVars
<1> QED
  BY <1>1, <1>2, <1>3 DEF AgentStep

LEMMA ReceiveLeavesSealAlone ==
  ASSUME TypeOK, Sealing, Receive
  PROVE  LeavesSealAlone \/ Seal
<1> USE DEF LeavesSealAlone, TypeOK, Sealing, Verified
<1>1. CASE CountSession
  BY <1>1 DEF CountSession, SaveState, SaveStateFails, files, loopVars, State
<1>2. CASE RejectFrame
  BY <1>2 DEF RejectFrame, loopVars, durable, files
<1>3. CASE AcceptChunk
  BY <1>3 DEF AcceptChunk, durable, files, loopVars
<1>4. CASE WriteChunk
  BY <1>4 DEF WriteChunk, loopVars
<1>5. CASE AppendChunk
  BY <1>5 DEF AppendChunk, State
<1>6. CASE AppendFails
  BY <1>6 DEF AppendFails, loopVars
<1>7. CASE SaveProgress
  BY <1>7 DEF SaveProgress, SaveState, SaveStateFails, loopVars, files
<1>8. CASE SendAck
  BY <1>8 DEF SendAck, loopVars, durable, files
<1>9. CASE ReadTrailer
  BY <1>9 DEF ReadTrailer, durable, files, loopVars, State
<1>10. CASE ReadFails
  BY <1>10 DEF ReadFails, durable, files, loopVars
<1> QED
  BY <1>1, <1>2, <1>3, <1>4, <1>5, <1>6, <1>7, <1>8, <1>9, <1>10 DEF Receive

LEMMA LoopLeavesSealAlone ==
  ASSUME TypeOK, Sealing, Loop
  PROVE  LeavesSealAlone \/ Seal
<1> USE DEF LeavesSealAlone, TypeOK, Sealing, Verified
<1>1. CASE IdentityFails
  BY <1>1 DEF IdentityFails, NoState, durable, files
<1>2. CASE StartSession
  BY <1>2 DEF StartSession, durable, files, loopVars
<1>3. CASE StartFails
  BY <1>3 DEF StartFails, durable, files, loopVars
<1>4. CASE RecordSession
  BY <1>4 DEF RecordSession, NoState, loopVars
<1>5. CASE Seal
  BY <1>5 DEF Seal, SaveState, SaveStateFails, NoState, files, loopVars
<1>6. CASE RefuseSeal
  BY <1>6 DEF RefuseSeal, NoState, durable, files
<1>7. CASE WriteManifest
  BY <1>7 DEF WriteManifest, NoState
<1>8. CASE Retry
  BY <1>8 DEF Retry, SaveState, SaveStateFails, NoState, files
<1>9. CASE GiveUp
  BY <1>9 DEF GiveUp, SaveState, SaveStateFails, NoState, files, State
<1>10. CASE BackoffCancelled
  BY <1>10 DEF BackoffCancelled, NoState, durable, files
<1>11. CASE Reconnect
  BY <1>11 DEF Reconnect, durable, files, loopVars
<1>12. CASE ReconnectFails
  BY <1>12 DEF ReconnectFails, NoState, durable, files, loopVars
<1> QED
  BY <1>1, <1>2, <1>3, <1>4, <1>5, <1>6, <1>7, <1>8, <1>9, <1>10, <1>11, <1>12 DEF Loop

LEMMA FinalizeLeavesSealAlone ==
  ASSUME TypeOK, Sealing, Finalize
  PROVE  LeavesSealAlone \/ Seal
<1> USE DEF LeavesSealAlone, TypeOK, Sealing, Verified
<1>1. CASE NothingToFinalize
  BY <1>1 DEF NothingToFinalize, NeedsFinalizing, Resumes, durable, files, loopVars
<1>2. CASE FinalizeState
  BY <1>2 DEF FinalizeState, SaveState, SaveStateFails, NeedsFinalizing, Resumes, files,
         loopVars, State
<1>3. CASE FinalizeManifest
  BY <1>3 DEF FinalizeManifest, loopVars
<1> QED
  BY <1>1, <1>2, <1>3 DEF Finalize

LEMMA EnvironmentLeavesSealAlone ==
  ASSUME TypeOK, Sealing, Environment
  PROVE  LeavesSealAlone \/ Seal
<1> USE DEF LeavesSealAlone, TypeOK, Sealing, Verified
<1>1. CASE AgentFails
  BY <1>1 DEF AgentFails, agentFrame, durable, files, loopVars
<1>2. CASE LinkDrops
  BY <1>2 DEF LinkDrops, durable, files, loopVars
<1>3. CASE FrameDamaged
  BY <1>3 DEF FrameDamaged, durable, files, loopVars
<1>4. CASE Cancel
  BY <1>4 DEF Cancel, durable, files
<1>5. CASE CancelKillsAgent
  BY <1>5 DEF CancelKillsAgent, agentFrame, durable, files, loopVars
<1>6. CASE Crash
  BY <1>6 DEF Crash, NoState
<1> QED
  BY <1>1, <1>2, <1>3, <1>4, <1>5, <1>6 DEF Environment

\* Where an invocation has returned, nothing is left in memory.
LEMMA ReturnSealing ==
  ASSUME NEW r, Return(r)
  PROVE  Sealing'
BY DEF Sealing, Return, NoState, Verified

\* The steps keep Sealing.
LEMMA InvocationSealing ==
  ASSUME TypeOK, Sealing, Invocation
  PROVE  Sealing'
<1> USE DEF Sealing, TypeOK, Verified
<1>1. CASE Run
  BY <1>1 DEF Run, durable, files
<1>2. CASE RunUnprepared
  BY <1>2 DEF RunUnprepared, durable, files
<1>3. CASE CreateState
  <2> DEFINE s == [NoState EXCEPT !.status = "running"]
  <2>1. s.status = "running"
    BY DEF NoState
  <2> HIDE DEF s
  <2>2. CASE SaveState(s) /\ state' = s /\ pc' = "loop"
    BY <2>1, <2>2 DEF SaveState
  <2> QED
    BY <1>3, <2>2, ReturnSealing DEF CreateState, s
<1>4. CASE AlreadyVerified
  BY <1>4 DEF AlreadyVerified, Return, NoState, NoSession, durable, files
<1>5. CASE JournalRejected
  BY <1>5 DEF JournalRejected, Return, NoState, NoSession, Resumes, durable, files
<1>6. CASE OpenExisting
  <2> DEFINE s == [saved EXCEPT !.next = Len(journal), !.resumed = TRUE]
  <2>1. s.status = saved.status /\ saved.status \notin Verified
    BY <1>6 DEF OpenExisting, Resumes, State
  <2> HIDE DEF s
  <2>2. CASE /\ IF Len(journal) > saved.next THEN SaveState(s) /\ state' = s
                                             ELSE state' = saved /\ UNCHANGED saved
             /\ pc' = "loop"
    BY <2>1, <2>2 DEF SaveState
  <2> QED
    BY <1>6, <2>2, ReturnSealing DEF OpenExisting, s
<1> QED
  BY <1>1, <1>2, <1>3, <1>4, <1>5, <1>6 DEF Invocation

LEMMA AgentStepSealing ==
  ASSUME TypeOK, Sealing, AgentStep
  PROVE  Sealing'
<1> USE DEF Sealing, TypeOK, Verified
<1>1. CASE AgentReads
  BY <1>1 DEF AgentReads, agentFrame, durable, files, process, loopVars
<1>2. CASE AgentFinishes
  BY <1>2 DEF AgentFinishes, agentFrame, durable, files, process, loopVars
<1>3. CASE AgentAcknowledged
  BY <1>3 DEF AgentAcknowledged, agentFrame, durable, files, process, loopVars
<1> QED
  BY <1>1, <1>2, <1>3 DEF AgentStep

LEMMA ReceiveSealing ==
  ASSUME TypeOK, Sealing, Receive
  PROVE  Sealing'
<1> USE DEF Sealing, TypeOK, Verified
<1>1. CASE CountSession
  BY <1>1 DEF CountSession, SaveState, SaveStateFails, files, loopVars, State, Session
<1>2. CASE RejectFrame
  BY <1>2 DEF RejectFrame, Abort, loopVars, durable, files, Session
<1>3. CASE AcceptChunk
  BY <1>3 DEF AcceptChunk, durable, files, process, loopVars
<1>4. CASE WriteChunk
  BY <1>4 DEF WriteChunk, Abort, loopVars, Session
<1>5. CASE AppendChunk
  BY <1>5 DEF AppendChunk, State, Session
<1>6. CASE AppendFails
  BY <1>6 DEF AppendFails, Abort, loopVars, Session
<1>7. CASE SaveProgress
  BY <1>7 DEF SaveProgress, SaveState, SaveStateFails, Abort, loopVars, files, Session
<1>8. CASE SendAck
  BY <1>8 DEF SendAck, Abort, loopVars, durable, files, Session
<1>9. CASE ReadTrailer
  BY <1>9 DEF ReadTrailer, Completed, TrailerMatches, durable, files, loopVars, State,
         Session
<1>10. CASE ReadFails
  BY <1>10 DEF ReadFails, Completed, durable, files, loopVars, Session
<1> QED
  BY <1>1, <1>2, <1>3, <1>4, <1>5, <1>6, <1>7, <1>8, <1>9, <1>10 DEF Receive

LEMMA LoopSealing ==
  ASSUME TypeOK, Sealing, Loop
  PROVE  Sealing'
<1> USE DEF Sealing, TypeOK, Verified
<1>1. CASE IdentityFails
  BY <1>1, ReturnSealing DEF IdentityFails
<1>2. CASE StartSession
  BY <1>2 DEF StartSession, MarkResumed, NoSession, durable, files, loopVars, State
<1>3. CASE StartFails
  BY <1>3 DEF StartFails, MarkResumed, durable, files, loopVars, State
<1>4. CASE RecordSession
  <2>1. CASE pc' = IF session.outcome = "ok" THEN "seal" ELSE "retry"
    BY <1>4, <2>1, ReturnSealing DEF RecordSession, NoSession
  <2> QED
    BY <1>4, <2>1, ReturnSealing DEF RecordSession
<1>5. CASE Seal
  <2>1. CASE pc' = "manifest"
    BY <2>1
  <2> QED
    BY <1>5, <2>1, ReturnSealing DEF Seal
<1>6. CASE RefuseSeal
  BY <1>6 DEF RefuseSeal, Return, NoState, NoSession, durable, files
<1>7. CASE WriteManifest
  BY <1>7, ReturnSealing DEF WriteManifest
<1>8. CASE Retry
  <2>1. CASE SaveState(state) /\ pc' \in {"exhausted", "backoff"}
             /\ UNCHANGED <<state, session>>
    BY <1>8, <2>1 DEF Retry, SaveState
  <2> QED
    BY <1>8, <2>1, ReturnSealing DEF Retry
<1>9. CASE GiveUp
  BY <1>9, ReturnSealing DEF GiveUp
<1>10. CASE BackoffCancelled
  BY <1>10 DEF BackoffCancelled, Return, NoState, NoSession, durable, files
<1>11. CASE Reconnect
  BY <1>11 DEF Reconnect, durable, files, process, loopVars
<1>12. CASE ReconnectFails
  <2>1. CASE pc' = "loop" /\ UNCHANGED <<process, agent, wire, acked>>
    BY <1>12, <2>1 DEF ReconnectFails, process, durable
  <2> QED
    BY <1>12, <2>1, ReturnSealing DEF ReconnectFails
<1> QED
  BY <1>1, <1>2, <1>3, <1>4, <1>5, <1>6, <1>7, <1>8, <1>9, <1>10, <1>11, <1>12 DEF Loop

LEMMA FinalizeSealing ==
  ASSUME TypeOK, Sealing, Finalize
  PROVE  Sealing'
<1> USE DEF Sealing, TypeOK, Verified
<1>1. CASE NothingToFinalize
  BY <1>1 DEF NothingToFinalize, NeedsFinalizing, Resumes, durable, files, process, loopVars
<1>2. CASE FinalizeState
  BY <1>2 DEF FinalizeState, SaveState, SaveStateFails, NeedsFinalizing, Resumes, files,
         process, loopVars, State
<1>3. CASE FinalizeManifest
  BY <1>3 DEF FinalizeManifest, process, loopVars
<1> QED
  BY <1>1, <1>2, <1>3 DEF Finalize

LEMMA EnvironmentSealing ==
  ASSUME TypeOK, Sealing, Environment
  PROVE  Sealing'
<1> USE DEF Sealing, TypeOK, Verified
<1>1. CASE AgentFails
  BY <1>1 DEF AgentFails, agentFrame, durable, files, process, loopVars
<1>2. CASE LinkDrops
  BY <1>2 DEF LinkDrops, durable, files, process, loopVars
<1>3. CASE FrameDamaged
  BY <1>3 DEF FrameDamaged, durable, files, process, loopVars
<1>4. CASE Cancel
  BY <1>4 DEF Cancel, durable, files
<1>5. CASE CancelKillsAgent
  BY <1>5 DEF CancelKillsAgent, agentFrame, durable, files, process, loopVars
<1>6. CASE Crash
  BY <1>6 DEF Crash, NoState, NoSession
<1> QED
  BY <1>1, <1>2, <1>3, <1>4, <1>5, <1>6 DEF Environment

-----------------------------------------------------------------------------
\* The inductive invariant.

LEMMA TypeParts == TypeOK <=> Flags /\ Typed
BY DEF TypeOK, Flags, Typed

LEMMA InitIInv == Init => IInv /\ Sealing /\ SealedIsComplete
<1> SUFFICES ASSUME Init PROVE IInv /\ Sealing /\ SealedIsComplete
  OBVIOUS
<1>1. Flags
  BY DEF Init, Flags
<1>2. Typed
  BY StateUpdate, SessionUpdate, AgentUpdate, SMT DEF Init, Typed, Labels, Result
<1>3. Handshake
  BY DEF Init, Handshake, Receiving, Handling, NoAgent
<1>4. CommitOrder
  BY ChunksAssumption, SMT
     DEF Init, CommitOrder, Receiving, Handling, NoAgent, NoState, NoSession
<1>5. Sealing /\ SealedIsComplete
  BY DEF Init, Sealing, SealedIsComplete, NoState, Verified
<1> QED
  BY <1>1, <1>2, <1>3, <1>4, <1>5, TypeParts DEF IInv

\* A step of the system, as opposed to one that changes nothing.
Moves == Invocation \/ Receive \/ Loop \/ Finalize \/ AgentStep \/ Environment

LEMMA MovesOrStutters == [Next]_vars => Moves \/ UNCHANGED vars
BY DEF Next, Moves, Idle

LEMMA StepIInv ==
  ASSUME IInv, [Next]_vars
  PROVE  IInv'
<1>1. TypeOK'
  <2>1. Flags /\ Typed
    BY TypeParts DEF IInv
  <2>2. Flags'
    BY <2>1, FlagsStep
  <2>3. CASE Moves
    <3>1. Typed'
      BY <2>1, <2>3, InvocationType, ReceiveType, LoopType, FinalizeType, AgentStepType,
         EnvironmentType DEF Moves
    <3> QED
      BY <2>2, <3>1 DEF TypeOK, Flags, Typed
  <2>4. CASE UNCHANGED vars
    BY <2>4 DEF IInv, TypeOK, vars, durable, files, process, loopVars, link, counters
  <2> QED
    BY <2>3, <2>4, MovesOrStutters
<1>2. Handshake'
  <2>1. CASE Moves
    BY <2>1, InvocationHandshake, ReceiveHandshake, LoopHandshake, FinalizeHandshake,
       AgentStepHandshake, EnvironmentHandshake DEF Moves, IInv, TypeOK
  <2>2. CASE UNCHANGED vars
    BY <2>2 DEF IInv, Handshake, vars, durable, files, process, loopVars, link, counters
  <2> QED
    BY <2>1, <2>2, MovesOrStutters
<1>3. CommitOrder'
  <2>1. CASE Moves
    BY <2>1, InvocationCommitOrder, ReceiveCommitOrder, LoopCommitOrder, FinalizeCommitOrder,
       AgentStepCommitOrder, EnvironmentCommitOrder DEF Moves
  <2>2. CASE UNCHANGED vars
    BY <2>2 DEF IInv, CommitOrder, vars, durable, files, process, loopVars, link, counters
  <2> QED
    BY <2>1, <2>2, MovesOrStutters
<1> QED
  BY <1>1, <1>2, <1>3 DEF IInv

LEMMA StepLeavesSealAlone ==
  ASSUME TypeOK, Sealing, [Next]_vars
  PROVE  LeavesSealAlone \/ Seal
<1>1. CASE Moves
  BY <1>1, InvocationLeavesSealAlone, ReceiveLeavesSealAlone, LoopLeavesSealAlone,
     FinalizeLeavesSealAlone, AgentStepLeavesSealAlone, EnvironmentLeavesSealAlone DEF Moves
<1>2. CASE UNCHANGED vars
  BY <1>2 DEF LeavesSealAlone, vars, durable, files
<1> QED
  BY <1>1, <1>2, MovesOrStutters

LEMMA StepSealing ==
  ASSUME TypeOK, Sealing, [Next]_vars
  PROVE  Sealing'
<1>1. CASE Moves
  BY <1>1, InvocationSealing, ReceiveSealing, LoopSealing, FinalizeSealing,
     AgentStepSealing, EnvironmentSealing DEF Moves
<1>2. CASE UNCHANGED vars
  BY <1>2 DEF Sealing, vars, durable, files, process, loopVars, link, counters
<1> QED
  BY <1>1, <1>2, MovesOrStutters

\* At the seal the journal audits, it ends at the end of the source, and the
\* recorded digest is read from the segments the audit has just compared.
LEMMA SealIsComplete ==
  ASSUME TypeOK, Sealing, Seal
  PROVE  SealedIsComplete'
<1>1. UNCHANGED <<raw, journal, torn>>
  BY DEF Seal, files
<1>2. AuditChunks /\ Len(journal) = N /\ state.next = N
  BY DEF Seal, SealRefused, Sealing
<1>3. AuditChunks' /\ Journaled' = Journaled
  BY <1>1, <1>2 DEF AuditChunks, Journaled
<1>4. CASE saved' = saved
  BY <1>4 DEF Seal, Sealing, SealedIsComplete, Verified
<1>5. CASE saved' = SealedState
  <2>1. saved'.next = N /\ saved'.logical = HashLogical(N)
    BY <1>2, <1>5 DEF SealedState, TypeOK, State
  <2>2. HashLogical(N) = Journaled
    BY <1>2 DEF HashLogical, Journaled, AuditChunks
  <2> QED
    BY <1>1, <1>2, <1>3, <2>1, <2>2 DEF SealedIsComplete
<1> QED
  BY <1>4, <1>5 DEF Seal, SaveState, SaveStateFails

LEMMA StepSealedIsComplete ==
  ASSUME TypeOK, Sealing, SealedIsComplete, [Next]_vars
  PROVE  SealedIsComplete'
<1>1. CASE UNCHANGED <<raw, journal, torn, saved>>
  BY <1>1 DEF SealedIsComplete, AuditChunks, Journaled
<1>2. CASE saved'.status \notin Verified
  BY <1>2 DEF SealedIsComplete, Verified
<1> QED
  BY <1>1, <1>2, SealIsComplete, StepLeavesSealAlone DEF LeavesSealAlone

-----------------------------------------------------------------------------
\* The theorems.

\* The inductive invariant holds in every reachable state: the agent, the wire
\* and the offsets of transferSession stay in step, in every interleaving.
THEOREM Invariance == Spec => [](IInv /\ Sealing /\ SealedIsComplete)
<1>1. IInv /\ Sealing /\ SealedIsComplete /\ [Next]_vars
        => (IInv /\ Sealing /\ SealedIsComplete)'
  BY StepIInv, StepSealing, StepSealedIsComplete DEF IInv
<1> QED
  BY <1>1, InitIInv, PTL DEF Spec

\* Type correctness: every variable always has the values its Go type and the
\* control flow of acquireArtifact and transferSession allow.
THEOREM TypeCorrect == Spec => []TypeOK
<1>1. IInv => TypeOK
  BY DEF IInv
<1> QED
  BY <1>1, Invariance, PTL

\* The commit order of transferSession, lines 942 to 963: whatever fails or
\* crashes, state.json is never ahead of the journal and no chunk is
\* acknowledged before state.json covers it.
THEOREM AcknowledgedDurable == Spec => []AcknowledgedIsDurable
<1>1. IInv => AcknowledgedIsDurable
  BY DEF IInv, CommitOrder, Handshake, AcknowledgedIsDurable
<1> QED
  BY <1>1, Invariance, PTL

\* An artifact that state.json calls verified is the whole source, its journal
\* audits against the segments, and the logical digest is that of the journal.
THEOREM SealedComplete == Spec => []SealedIsComplete
BY Invariance, PTL

\* No retry, resume, crash or finalization changes a sealed artifact.
THEOREM SealedFinal == Spec => SealedIsFinal
<1>1. TypeOK /\ Sealing /\ [Next]_vars
        => [saved.status \in Verified => UNCHANGED <<raw, journal, torn, saved>>]_durable
  <2> SUFFICES ASSUME TypeOK, Sealing, [Next]_vars, saved.status \in Verified
               PROVE  UNCHANGED <<raw, journal, torn, saved>>
    OBVIOUS
  <2>1. ~Seal
    BY DEF Seal, Sealing
  <2> QED
    BY <2>1, StepLeavesSealAlone DEF LeavesSealAlone
<1> QED
  BY <1>1, Invariance, PTL DEF Spec, SealedIsFinal, IInv
=============================================================================
