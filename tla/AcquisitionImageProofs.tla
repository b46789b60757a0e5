------------------------ MODULE AcquisitionImageProofs -----------------------
(***************************************************************************)
(* Theorems about the image an acquisition leaves: it can be resumed, what *)
(* is committed is never rewritten, the manifest does not overclaim,       *)
(* "verified_continuous" means one session, and the acquisition implements *)
(* VerifiedImage.  They rest on the invariant of AcquisitionProofs and on  *)
(* more of the kind: ManifestInv relates the manifest to the saved state,  *)
(* ImageInv the journal to the segments and to the offset in memory,       *)
(* PassInv the journal to the sessions that delivered it, Dated those      *)
(* sessions to each other, and SavedBehind the offset of state.json to     *)
(* the one in memory once a session has ended.                             *)
(***************************************************************************)
EXTENDS AcquisitionProofs

\* Where no artifact is open in memory.
Outside == {"down", "open", "finalize", "finalManifest"}

-----------------------------------------------------------------------------
\* Most steps change nothing that the image is made of.

\* The agent, the transport or the signal handler moves, or nobody.
Still ==
  /\ UNCHANGED <<raw, journal, torn, saved, manifest, sessions, state, session, pc, passes>>
  /\ pc \in Handling => agent'.sum = agent.sum

\* An invocation starts, or it returns with everything as it is.
Leaves ==
  /\ UNCHANGED <<raw, journal, torn, saved, manifest, sessions, passes>>
  /\ pc' \in {"down", "open", "finalize"}
  /\ state' \in {state, NoState} /\ session' \in {session, NoSession}

\* The steps that do change something.
Writes ==
  \/ CreateState \/ OpenExisting \/ StartSession \/ StartFails \/ CountSession
  \/ RejectFrame \/ AcceptChunk \/ WriteChunk \/ AppendChunk \/ AppendFails
  \/ SaveProgress \/ SendAck \/ ReadTrailer \/ ReadFails \/ RecordSession \/ Seal
  \/ WriteManifest \/ Retry \/ GiveUp \/ Reconnect \/ ReconnectFails \/ FinalizeState
  \/ FinalizeManifest \/ Crash

LEMMA StepKinds ==
  ASSUME IInv, [Next]_vars
  PROVE  Still \/ Leaves \/ Writes
<1> USE DEF IInv, TypeOK, Handshake, Receiving, Handling
<1>1. CASE AgentReads
  BY <1>1 DEF AgentReads, agentFrame, durable, files, process, loopVars, counters, Still,
     Agent
<1>2. CASE AgentFinishes
  BY <1>2 DEF AgentFinishes, agentFrame, durable, files, process, loopVars, counters, Still,
     Agent
<1>3. CASE AgentAcknowledged
  BY <1>3 DEF AgentAcknowledged, agentFrame, durable, files, process, loopVars, counters,
     Still, Agent
<1>4. CASE AgentFails
  BY <1>4 DEF AgentFails, agentFrame, durable, files, process, loopVars, Still, Agent
<1>5. CASE LinkDrops
  BY <1>5 DEF LinkDrops, durable, files, process, loopVars, Still, Agent
<1>6. CASE FrameDamaged
  BY <1>6 DEF FrameDamaged, durable, files, process, loopVars, Still, Agent
<1>7. CASE Cancel
  BY <1>7 DEF Cancel, durable, files, link, Still, Agent
<1>8. CASE CancelKillsAgent
  BY <1>8 DEF CancelKillsAgent, agentFrame, durable, files, process, loopVars, counters,
     Still, Agent
<1>9. CASE Idle
  BY <1>9 DEF Idle, vars, durable, files, process, loopVars, link, counters, Still, Agent
<1>10. CASE UNCHANGED vars
  BY <1>10 DEF vars, durable, files, process, link, counters, loopVars, Still
<1>11. CASE Run
  BY <1>11 DEF Run, durable, files, Leaves
<1>12. CASE RunUnprepared
  BY <1>12 DEF RunUnprepared, durable, files, link, Leaves
<1>13. CASE AlreadyVerified
  BY <1>13 DEF AlreadyVerified, Return, Disconnected, durable, files, counters, Leaves
<1>14. CASE JournalRejected
  BY <1>14 DEF JournalRejected, Return, Disconnected, durable, files, counters, Leaves
<1>15. CASE IdentityFails
  BY <1>15 DEF IdentityFails, Return, Disconnected, durable, files, Leaves
<1>16. CASE RefuseSeal
  BY <1>16 DEF RefuseSeal, Return, Disconnected, durable, files, counters, Leaves
<1>17. CASE BackoffCancelled
  BY <1>17 DEF BackoffCancelled, Return, Disconnected, durable, files, counters, Leaves
<1>18. CASE NothingToFinalize
  BY <1>18 DEF NothingToFinalize, durable, files, process, loopVars, link, counters, Leaves
<1> QED
  BY <1>1, <1>2, <1>3, <1>4, <1>5, <1>6, <1>7, <1>8, <1>9, <1>10, <1>11, <1>12, <1>13,
     <1>14, <1>15, <1>16, <1>17, <1>18 DEF Next, Invocation, Receive, Loop, Finalize,
     AgentStep, Environment, Writes

-----------------------------------------------------------------------------
\* The saved offset only grows.

\* After a session the state in memory is not behind the saved one.
SavedBehind ==
  /\ pc \in {"ended", "seal", "retry"} => saved.next <= state.next
  /\ saved.status = "none" => saved.next = 0
  /\ pc \notin Outside => state.status # "none" /\ saved.status # "none"

\* What the steps read of the records.
LEMMA Fields ==
  ASSUME TypeOK
  PROVE  /\ DOMAIN state = {"status", "next", "count", "resumed", "remote", "logical"}
         /\ DOMAIN saved = {"status", "next", "count", "resumed", "remote", "logical"}
         /\ DOMAIN session = {"id", "start", "got", "bytes", "outcome"}
BY DEF TypeOK, State, Session

LEMMA Offsets ==
  ASSUME IInv
  PROVE  /\ saved.next \in Nat /\ state.next \in Nat /\ Len(journal) \in Nat
         /\ saved.next <= Len(journal)
         /\ pc \in {"loop", "recv", "write", "append", "ack", "exhausted", "backoff"}
              => state.next = saved.next
         /\ pc = "save" => state.next = saved.next + 1
BY FieldTypes DEF IInv, TypeOK, CommitOrder

LEMMA SealedFields ==
  ASSUME TypeOK
  PROVE  /\ SealedState.next = state.next /\ SealedState.status \in Verified
         /\ SealedState.logical = HashLogical(state.next)
         /\ SealedState.count = state.count /\ SealedState.resumed = state.resumed
         /\ SealedState.remote = state.remote
         /\ SealedState.status = "verified_continuous" => Continuous
<1> DEFINE status == IF Continuous THEN "verified_continuous" ELSE "chunk_verified_composite"
<1>1. status \in Verified /\ (status = "verified_continuous" => Continuous)
  BY DEF Verified
<1>2. SealedState = [state EXCEPT !.logical = HashLogical(state.next), !.status = status]
  BY DEF SealedState
<1> HIDE DEF status
<1> QED
  BY <1>1, <1>2, Fields

\* The state an artifact is opened with: the journal is followed where it is ahead.
LEMMA Opened ==
  ASSUME TypeOK, OpenExisting
  PROVE  /\ UNCHANGED <<raw, journal, torn, manifest, sessions, passes>>
         /\ pc = "open" /\ saved.status \notin Verified \cup {"none"}
         /\ AuditChunks /\ saved.next <= Len(journal) /\ Len(journal) <= N
         /\ saved' = saved \/ ( /\ saved'.next = Len(journal)
                               /\ saved'.status = saved.status
                               /\ saved'.count = saved.count
                               /\ saved'.resumed )
         /\ \/ pc' = "finalize" /\ state' = NoState /\ session' = NoSession
            \/ /\ pc' = "loop" /\ state' = saved' /\ session' = session
               /\ state'.next = Len(journal)
<1> DEFINE s == [saved EXCEPT !.next = Len(journal), !.resumed = TRUE]
<1>1. /\ s.next = Len(journal) /\ s.status = saved.status /\ s.count = saved.count
      /\ s.resumed = TRUE
  BY Fields
<1>2. /\ UNCHANGED <<raw, journal, torn, manifest, sessions, passes>>
      /\ pc = "open" /\ saved.status \notin Verified \cup {"none"}
      /\ AuditChunks /\ saved.next <= Len(journal) /\ Len(journal) <= N
  BY DEF OpenExisting, Resumes, files
<1>3. Len(journal) \in Nat /\ saved.next \in Nat
  BY FieldTypes DEF TypeOK
<1>4. \/ saved' \in {saved, s} /\ pc' = "finalize" /\ state' = NoState /\ session' = NoSession
      \/ Len(journal) > saved.next /\ saved' = s /\ state' = s /\ pc' = "loop"
         /\ session' = session
      \/ ~(Len(journal) > saved.next) /\ saved' = saved /\ state' = saved /\ pc' = "loop"
         /\ session' = session
  BY DEF OpenExisting, SaveState, SaveStateFails, Return
<1> HIDE DEF s
<1>5. CASE saved' \in {saved, s} /\ pc' = "finalize" /\ state' = NoState /\ session' = NoSession
  BY <1>1, <1>2, <1>5
<1>6. CASE Len(journal) > saved.next /\ saved' = s /\ state' = s /\ pc' = "loop"
           /\ session' = session
  BY <1>1, <1>2, <1>6
<1>7. CASE ~(Len(journal) > saved.next) /\ saved' = saved /\ state' = saved /\ pc' = "loop"
           /\ session' = session
  BY <1>2, <1>3, <1>7
<1> QED
  BY <1>4, <1>5, <1>6, <1>7

LEMMA SavedForward ==
  ASSUME IInv, SavedBehind, [Next]_vars
  PROVE  /\ SavedBehind' /\ saved.next <= saved'.next
         /\ saved.status # "none" => saved'.status # "none"
<1> USE Fields, Offsets DEF SavedBehind, Outside
<1>0. TypeOK
  BY DEF IInv
<1> USE <1>0
<1>1. CASE CreateState
  BY <1>1 DEF CreateState, Return, Disconnected, files, NoState, SaveState, SaveStateFails
<1>2. CASE OpenExisting
  BY <1>2, Opened DEF NoState
<1>3. CASE StartSession
  BY <1>3 DEF StartSession, durable, files, MarkResumed
<1>4. CASE StartFails
  BY <1>4 DEF StartFails, durable, files, MarkResumed
<1>5. CASE CountSession
  BY <1>5 DEF CountSession, files, SaveState, SaveStateFails
<1>6. CASE RejectFrame
  BY <1>6 DEF RejectFrame, Abort, durable, files
<1>7. CASE AcceptChunk
  BY <1>7 DEF AcceptChunk, durable, files, process
<1>8. CASE WriteChunk
  BY <1>8 DEF WriteChunk, Abort
<1>9. CASE AppendChunk
  BY <1>9 DEF AppendChunk
<1>10. CASE AppendFails
  BY <1>10 DEF AppendFails, Abort
<1>11. CASE SaveProgress
  BY <1>11 DEF SaveProgress, Abort, files, SaveState, SaveStateFails
<1>12. CASE SendAck
  BY <1>12 DEF SendAck, Abort, durable, files
<1>13. CASE ReadTrailer
  BY <1>13 DEF ReadTrailer, durable, files
<1>14. CASE ReadFails
  BY <1>14 DEF ReadFails, durable, files
<1>15. CASE RecordSession
  BY <1>15 DEF RecordSession, Return, Disconnected
<1>16. CASE Seal
  BY <1>16, SealedFields DEF Seal, Return, Disconnected, files, Verified, SaveState,
     SaveStateFails
<1>17. CASE WriteManifest
  BY <1>17 DEF WriteManifest, Return, Disconnected
<1>18. CASE Retry
  BY <1>18 DEF Retry, Return, Disconnected, files, SaveState, SaveStateFails
<1>19. CASE GiveUp
  BY <1>19 DEF GiveUp, Return, Disconnected, files, SaveState, SaveStateFails
<1>20. CASE Reconnect
  BY <1>20 DEF Reconnect, durable, files, process
<1>21. CASE ReconnectFails
  BY <1>21 DEF ReconnectFails, Return, Disconnected, durable, files, process
<1>22. CASE FinalizeState
  BY <1>22 DEF FinalizeState, files, process, SaveState, SaveStateFails
<1>23. CASE FinalizeManifest
  BY <1>23 DEF FinalizeManifest, process
<1>24. CASE Crash
  BY <1>24 DEF Crash
<1>25. CASE Still
  BY <1>25 DEF Still
<1>26. CASE Leaves
  BY <1>26 DEF Leaves
<1> QED
  BY <1>1, <1>2, <1>3, <1>4, <1>5, <1>6, <1>7, <1>8, <1>9, <1>10, <1>11, <1>12, <1>13,
     <1>14, <1>15, <1>16, <1>17, <1>18, <1>19, <1>20, <1>21, <1>22, <1>23, <1>24, <1>25,
     <1>26, StepKinds DEF Writes

-----------------------------------------------------------------------------
\* The manifest.

\* Where a manifest is about to be written, it is of the saved state, and the
\* digest in it is that of the committed part of the image.
ManifestInv ==
  /\ ManifestNeverOverclaims
  /\ pc = "manifest" =>
       /\ state = saved /\ state.status \in Verified
       /\ state.logical = HashLogical(state.next)
  /\ pc = "finalManifest" =>
       /\ saved.status \notin Verified
       /\ saved.logical = HashLogical(saved.next)

\* The segments change only where the next chunk is being written.
LEMMA RawChanges ==
  ASSUME IInv, [Next]_vars
  PROVE  \/ raw' = raw
         \/ /\ pc = "write" /\ UNCHANGED <<journal, saved, manifest>>
            /\ \E c : raw' = [raw EXCEPT ![state.next] = c]
<1>1. CASE CreateState
  BY <1>1 DEF CreateState, files
<1>2. CASE OpenExisting
  BY <1>2 DEF OpenExisting, files
<1>3. CASE StartSession
  BY <1>3 DEF StartSession, durable, files
<1>4. CASE StartFails
  BY <1>4 DEF StartFails, durable, files
<1>5. CASE CountSession
  BY <1>5 DEF CountSession, files
<1>6. CASE RejectFrame
  BY <1>6 DEF RejectFrame, durable, files
<1>7. CASE AcceptChunk
  BY <1>7 DEF AcceptChunk, durable, files
<1>8. CASE WriteChunk
  BY <1>8 DEF WriteChunk
<1>9. CASE AppendChunk \/ AppendFails
  BY <1>9 DEF AppendChunk, AppendFails
<1>10. CASE SaveProgress
  BY <1>10 DEF SaveProgress, files
<1>11. CASE SendAck
  BY <1>11 DEF SendAck, durable, files
<1>12. CASE ReadTrailer \/ ReadFails
  BY <1>12 DEF ReadTrailer, ReadFails, durable, files
<1>13. CASE RecordSession \/ WriteManifest \/ FinalizeManifest
  BY <1>13 DEF RecordSession, WriteManifest, FinalizeManifest
<1>14. CASE Seal \/ Retry \/ GiveUp \/ FinalizeState
  BY <1>14 DEF Seal, Retry, GiveUp, FinalizeState, files
<1>15. CASE Reconnect \/ ReconnectFails
  BY <1>15 DEF Reconnect, ReconnectFails, durable, files
<1>16. CASE Crash
  BY <1>16 DEF Crash
<1>17. CASE Still \/ Leaves
  BY <1>17 DEF Still, Leaves
<1> QED
  BY <1>1, <1>2, <1>3, <1>4, <1>5, <1>6, <1>7, <1>8, <1>9, <1>10, <1>11, <1>12, <1>13,
     <1>14, <1>15, <1>16, <1>17, StepKinds DEF Writes

\* The journal changes only where a chunk is being appended.
LEMMA JournalChanges ==
  ASSUME IInv, [Next]_vars
  PROVE  \/ journal' = journal
         \/ pc = "append" /\ journal' = Append(journal, Record) /\ (AppendChunk \/ AppendFails)
<1>1. CASE CreateState
  BY <1>1 DEF CreateState, files
<1>2. CASE OpenExisting
  BY <1>2 DEF OpenExisting, files
<1>3. CASE StartSession
  BY <1>3 DEF StartSession, durable, files
<1>4. CASE StartFails
  BY <1>4 DEF StartFails, durable, files
<1>5. CASE CountSession
  BY <1>5 DEF CountSession, files
<1>6. CASE RejectFrame
  BY <1>6 DEF RejectFrame, durable, files
<1>7. CASE AcceptChunk
  BY <1>7 DEF AcceptChunk, durable, files
<1>8. CASE WriteChunk
  BY <1>8 DEF WriteChunk
<1>9. CASE AppendChunk \/ AppendFails
  BY <1>9 DEF AppendChunk, AppendFails
<1>10. CASE SaveProgress
  BY <1>10 DEF SaveProgress, files
<1>11. CASE SendAck
  BY <1>11 DEF SendAck, durable, files
<1>12. CASE ReadTrailer \/ ReadFails
  BY <1>12 DEF ReadTrailer, ReadFails, durable, files
<1>13. CASE RecordSession \/ WriteManifest \/ FinalizeManifest
  BY <1>13 DEF RecordSession, WriteManifest, FinalizeManifest
<1>14. CASE Seal \/ Retry \/ GiveUp \/ FinalizeState
  BY <1>14 DEF Seal, Retry, GiveUp, FinalizeState, files
<1>15. CASE Reconnect \/ ReconnectFails
  BY <1>15 DEF Reconnect, ReconnectFails, durable, files
<1>16. CASE Crash
  BY <1>16 DEF Crash
<1>17. CASE Still \/ Leaves
  BY <1>17 DEF Still, Leaves
<1> QED
  BY <1>1, <1>2, <1>3, <1>4, <1>5, <1>6, <1>7, <1>8, <1>9, <1>10, <1>11, <1>12, <1>13,
     <1>14, <1>15, <1>16, <1>17, StepKinds DEF Writes

\* A line that does not decode is left only by a failed append.
LEMMA JournalDecodes ==
  ASSUME IInv, ~torn, [Next]_vars, AppendFaults \subseteq {"lost"}
  PROVE  ~torn'
<1>0. "torn" \notin AppendFaults
  OBVIOUS
<1>1. CASE CreateState
  BY <1>1 DEF CreateState, files
<1>2. CASE OpenExisting
  BY <1>2 DEF OpenExisting, files
<1>3. CASE StartSession
  BY <1>3 DEF StartSession, durable, files
<1>4. CASE StartFails
  BY <1>4 DEF StartFails, durable, files
<1>5. CASE CountSession
  BY <1>5 DEF CountSession, files
<1>6. CASE RejectFrame
  BY <1>6 DEF RejectFrame, durable, files
<1>7. CASE AcceptChunk
  BY <1>7 DEF AcceptChunk, durable, files
<1>8. CASE WriteChunk
  BY <1>8 DEF WriteChunk
<1>9. CASE AppendChunk \/ AppendFails
  BY <1>0, <1>9, Zenon DEF AppendChunk, AppendFails
<1>10. CASE SaveProgress
  BY <1>10 DEF SaveProgress, files
<1>11. CASE SendAck
  BY <1>11 DEF SendAck, durable, files
<1>12. CASE ReadTrailer \/ ReadFails
  BY <1>12 DEF ReadTrailer, ReadFails, durable, files
<1>13. CASE RecordSession \/ WriteManifest \/ FinalizeManifest
  BY <1>13 DEF RecordSession, WriteManifest, FinalizeManifest
<1>14. CASE Seal \/ Retry \/ GiveUp \/ FinalizeState
  BY <1>14 DEF Seal, Retry, GiveUp, FinalizeState, files
<1>15. CASE Reconnect \/ ReconnectFails
  BY <1>15 DEF Reconnect, ReconnectFails, durable, files
<1>16. CASE Crash
  BY <1>0, <1>16, Zenon DEF Crash
<1>17. CASE Still \/ Leaves
  BY <1>17 DEF Still, Leaves
<1> QED
  BY <1>1, <1>2, <1>3, <1>4, <1>5, <1>6, <1>7, <1>8, <1>9, <1>10, <1>11, <1>12, <1>13,
     <1>14, <1>15, <1>16, <1>17, StepKinds DEF Writes

\* What is covered by state.json keeps its digest, whatever a step does.
LEMMA CommittedDigest ==
  ASSUME IInv, [Next]_vars, NEW n \in Nat, n <= saved.next
  PROVE  HashLogical(n)' = HashLogical(n)
<1>1. CASE raw' = raw
  BY <1>1 DEF HashLogical
<1>2. ASSUME pc = "write", NEW c, raw' = [raw EXCEPT ![state.next] = c]
      PROVE  HashLogical(n)' = HashLogical(n)
  <2>1. state.next = saved.next /\ saved.next \in Nat
    BY <1>2, Offsets
  <2>2. \A i \in 1..n : raw'[i - 1] = raw[i - 1]
    BY <1>2, <2>1
  <2> QED
    BY <2>2 DEF HashLogical
<1> QED
  BY <1>1, <1>2, RawChanges

\* A manifest that is not rewritten stays within the image.
LEMMA ManifestStays ==
  ASSUME IInv, Sealing, SavedBehind, ManifestNeverOverclaims, [Next]_vars, manifest' = manifest
  PROVE  ManifestNeverOverclaims'
<1>1. TypeOK /\ manifest.next \in Nat /\ saved.next \in Nat /\ saved'.next \in Nat
  <2>1. TypeOK /\ TypeOK'
    BY StepIInv DEF IInv
  <2> QED
    BY <2>1, FieldTypes, Offsets, StepIInv DEF TypeOK, State
<1>2. saved.next <= saved'.next
  BY SavedForward
<1>3. manifest.next <= saved.next /\ manifest.logical = HashLogical(manifest.next)
  BY DEF ManifestNeverOverclaims
<1>4. manifest'.next <= saved'.next
  BY <1>1, <1>2, <1>3
<1>5. manifest'.logical = HashLogical(manifest.next)'
  BY <1>1, <1>3, CommittedDigest
<1>6. manifest'.status \in Verified => manifest' = saved'
  <2> SUFFICES ASSUME manifest.status \in Verified PROVE saved' = saved
    BY DEF ManifestNeverOverclaims
  <2>1. saved.status \in Verified
    BY DEF ManifestNeverOverclaims
  <2>2. ~Seal
    BY <2>1 DEF Seal, Sealing
  <2> QED
    BY <1>1, <2>1, <2>2, StepLeavesSealAlone DEF LeavesSealAlone
<1> QED
  BY <1>4, <1>5, <1>6 DEF ManifestNeverOverclaims

LEMMA StepManifestInv ==
  ASSUME IInv, Sealing, SavedBehind, ManifestInv, [Next]_vars
  PROVE  ManifestInv'
<1>1. TypeOK /\ saved.next \in Nat
  BY FieldTypes DEF IInv
<1>2. ASSUME manifest' = manifest, pc' \notin {"manifest", "finalManifest"} PROVE ManifestInv'
  BY <1>2, ManifestStays DEF ManifestInv
<1>3. CASE Seal
  <2>1. UNCHANGED <<raw, manifest>> /\ pc' # "finalManifest"
    BY <1>3 DEF Seal, files, Return
  <2>2. pc' = "manifest" => state' = SealedState /\ saved' = SealedState
    BY <1>3 DEF Seal, Return, SaveState
  <2>3. pc' = "manifest" => state'.logical = HashLogical(state'.next)
    BY <1>1, <2>1, <2>2, SealedFields DEF HashLogical
  <2>4. HashLogical(state.next)' = HashLogical(state'.next)
    BY <2>1 DEF HashLogical
  <2> QED
    BY <1>1, <2>1, <2>2, <2>3, <2>4, SealedFields, ManifestStays DEF ManifestInv
<1>4. CASE WriteManifest
  <2>1. UNCHANGED <<raw, saved>> /\ pc = "manifest" /\ pc' = "finalize"
        /\ manifest' \in {manifest, state}
    BY <1>4 DEF WriteManifest, Return
  <2>2. CASE manifest' = manifest
    BY <1>2, <2>1, <2>2
  <2>3. CASE manifest' = state
    <3>1. manifest' = saved' /\ saved'.logical = HashLogical(saved.next)'
      BY <2>1, <2>3 DEF ManifestInv, HashLogical
    <3> QED
      BY <1>1, <2>1, <3>1 DEF ManifestInv, ManifestNeverOverclaims, HashLogical
  <2> QED
    BY <2>1, <2>2, <2>3
<1>5. CASE FinalizeState
  <2>1. UNCHANGED <<raw, manifest>> /\ pc' # "manifest"
        /\ saved.status \notin Verified
        /\ (pc' = "finalManifest" => saved' = [saved EXCEPT !.logical = HashLogical(saved.next)])
    BY <1>5 DEF FinalizeState, SaveState, files, NeedsFinalizing, Resumes
  <2>2. pc' = "finalManifest" => /\ saved'.status = saved.status
                                 /\ saved'.logical = HashLogical(saved.next)'
    BY <1>1, <2>1, Fields DEF HashLogical
  <2> QED
    BY <2>1, <2>2, ManifestStays DEF ManifestInv
<1>6. CASE FinalizeManifest
  <2>1. UNCHANGED <<raw, saved>> /\ pc = "finalManifest" /\ pc' = "down"
        /\ manifest' \in {manifest, saved}
    BY <1>6 DEF FinalizeManifest
  <2>2. CASE manifest' = manifest
    BY <1>2, <2>1, <2>2
  <2>3. CASE manifest' = saved
    <3>1. manifest' = saved' /\ saved'.logical = HashLogical(saved.next)'
      BY <2>1, <2>3 DEF ManifestInv, HashLogical
    <3> QED
      BY <1>1, <2>1, <3>1 DEF ManifestInv, ManifestNeverOverclaims, HashLogical
  <2> QED
    BY <2>1, <2>2, <2>3
<1>7. CASE CreateState
  BY <1>2, <1>7 DEF CreateState, files, Return
<1>8. CASE OpenExisting
  BY <1>1, <1>2, <1>8, Opened
<1>9. CASE StartSession \/ StartFails \/ AcceptChunk \/ Reconnect
  BY <1>2, <1>9 DEF StartSession, StartFails, AcceptChunk, Reconnect, durable, files
<1>10. CASE CountSession
  BY <1>2, <1>10 DEF CountSession, files
<1>11. CASE RejectFrame \/ SendAck
  BY <1>2, <1>11 DEF RejectFrame, SendAck, Abort, durable, files
<1>12. CASE WriteChunk \/ AppendChunk \/ AppendFails
  BY <1>2, <1>12 DEF WriteChunk, AppendChunk, AppendFails, Abort
<1>13. CASE SaveProgress
  BY <1>2, <1>13 DEF SaveProgress, Abort, files
<1>14. CASE ReadTrailer \/ ReadFails
  BY <1>2, <1>14 DEF ReadTrailer, ReadFails, durable, files
<1>15. CASE RecordSession
  BY <1>2, <1>15 DEF RecordSession, Return
<1>16. CASE Retry \/ GiveUp
  BY <1>2, <1>16 DEF Retry, GiveUp, Return, files
<1>17. CASE ReconnectFails
  BY <1>2, <1>17 DEF ReconnectFails, Return, durable, files
<1>18. CASE Crash
  BY <1>2, <1>18 DEF Crash
<1>19. CASE Still
  <2>1. UNCHANGED <<raw, saved, manifest, state, pc>>
    BY <1>19 DEF Still
  <2>2. HashLogical(state.next)' = HashLogical(state.next)
        /\ HashLogical(saved.next)' = HashLogical(saved.next)
    BY <2>1 DEF HashLogical
  <2> QED
    BY <2>1, <2>2, ManifestStays DEF ManifestInv
<1>20. CASE Leaves
  BY <1>2, <1>20 DEF Leaves
<1> QED
  BY <1>3, <1>4, <1>5, <1>6, <1>7, <1>8, <1>9, <1>10, <1>11, <1>12, <1>13, <1>14, <1>15,
     <1>16, <1>17, <1>18, <1>19, <1>20, StepKinds DEF Writes

-----------------------------------------------------------------------------
\* The journal and the segments, when a failed append does not leave a whole record behind.

\* The records are those of the first chunks, and the segments hold what they say.
Matched ==
  \A i \in 1..Len(journal) :
    journal[i].off = i - 1 /\ i <= N /\ raw[i - 1] = journal[i].val

\* An open artifact stands at the end of the journal, and a chunk about to be
\* journaled is in the segments.
ImageInv ==
  /\ Matched
  /\ pc \notin Outside => Len(journal) = state.next
  /\ saved.status = "none" => journal = <<>>
  /\ pc = "append" => raw[state.next] = FramePayload

\* A step that touches neither of them keeps the invariant.
LEMMA ImageStays ==
  ASSUME IInv, SavedBehind, ImageInv, [Next]_vars, UNCHANGED <<raw, journal>>, pc' # "append",
         pc' \notin Outside => pc \notin Outside /\ state'.next = state.next
  PROVE  ImageInv'
BY SavedForward DEF ImageInv, Matched

LEMMA WriteKeepsImage ==
  ASSUME IInv, SavedBehind, ImageInv, [Next]_vars, pc = "write", UNCHANGED journal,
         NEW c, raw' = [raw EXCEPT ![state.next] = c]
  PROVE  Matched' /\ (saved'.status = "none" => journal' = <<>>)
<1>1. Len(journal) = state.next /\ state.next \in Nat
  BY Offsets DEF ImageInv, Outside
<1>2. \A i \in 1..Len(journal) : raw'[i - 1] = raw[i - 1]
  BY <1>1
<1> QED
  BY <1>2, SavedForward DEF ImageInv, Matched

LEMMA StepImageInv ==
  ASSUME IInv, SavedBehind, ImageInv, [Next]_vars, "kept" \notin AppendFaults
  PROVE  ImageInv'
<1> USE DEF Outside
<1>1. TypeOK
  BY DEF IInv
<1>2. CASE CreateState
  <2>1. UNCHANGED <<raw, journal>> /\ journal = <<>>
    BY <1>2 DEF CreateState, ImageInv, files
  <2>2. pc' = "finalize" \/ (pc' = "loop" /\ state'.next = 0)
    BY <1>2 DEF CreateState, Return, Disconnected, NoState
  <2> QED
    BY <2>1, <2>2 DEF ImageInv, Matched
<1>3. CASE OpenExisting
  BY <1>1, <1>3, Opened, SavedForward DEF ImageInv, Matched
<1>4. CASE StartSession \/ StartFails
  BY <1>1, <1>4, ImageStays, Fields DEF StartSession, StartFails, MarkResumed, durable, files
<1>5. CASE CountSession
  BY <1>1, <1>5, ImageStays, Fields DEF CountSession, files
<1>6. CASE RejectFrame \/ SendAck
  BY <1>6, ImageStays DEF RejectFrame, SendAck, Abort, durable, files
<1>7. CASE AcceptChunk \/ Reconnect
  BY <1>7, ImageStays DEF AcceptChunk, Reconnect, process, durable, files
<1>8. CASE WriteChunk
  <2>1. pc = "write" /\ UNCHANGED <<journal, state>>
    BY <1>8 DEF WriteChunk, Abort
  <2>2. PICK c : raw' = [raw EXCEPT ![state.next] = c]
    BY <1>8 DEF WriteChunk
  <2>3. Matched' /\ (saved'.status = "none" => journal' = <<>>)
    BY <2>1, <2>2, WriteKeepsImage
  <2>4. Len(journal') = state'.next
    BY <2>1 DEF ImageInv
  <2>5. pc' = "append" => raw'[state'.next] = FramePayload'
    <3> SUFFICES ASSUME pc' = "append" PROVE raw'[state'.next] = FramePayload'
      OBVIOUS
    <3>1. raw' = [raw EXCEPT ![state.next] = FramePayload] /\ UNCHANGED <<state, agent>>
      BY <1>8 DEF WriteChunk, Abort, link
    <3>2. state.next \in 0..(N - 1)
      BY <1>1, <2>1, Offsets, ChunksAssumption DEF IInv, CommitOrder
    <3> QED
      BY <1>1, <3>1, <3>2 DEF FramePayload, TypeOK
  <2> QED
    BY <2>3, <2>4, <2>5 DEF ImageInv
<1>9. CASE AppendChunk
  <2>1. /\ journal' = Append(journal, Record) /\ pc = "append" /\ pc' = "save"
        /\ UNCHANGED <<raw, saved>> /\ state'.next = state.next + 1
    BY <1>1, <1>9, Fields DEF AppendChunk
  <2>2. /\ state.next = Len(journal) /\ raw[state.next] = FramePayload
        /\ Len(journal) \in Nat /\ journal \in Seq(ChunkRecord)
    BY <1>1, <2>1, Offsets DEF ImageInv, TypeOK
  <2>3. state.next < N /\ Record \in ChunkRecord
    BY <1>1, <2>1, FrameTypes DEF IInv, CommitOrder, Handshake
  <2>4. Record.off = state.next /\ Record.val = FramePayload
    BY DEF Record
  <2>5. /\ Len(journal') = Len(journal) + 1
        /\ \A i \in 1..Len(journal) : journal'[i] = journal[i]
        /\ journal'[Len(journal) + 1] = Record
    BY <2>1, <2>2, <2>3
  <2>6. Matched'
    <3> SUFFICES ASSUME NEW i \in 1..(Len(journal) + 1)
                 PROVE  journal'[i].off = i - 1 /\ i <= N /\ raw'[i - 1] = journal'[i].val
      BY <2>5 DEF Matched
    <3>1. CASE i \in 1..Len(journal)
      BY <2>1, <2>5, <3>1 DEF ImageInv, Matched
    <3>2. CASE i = Len(journal) + 1
      <4>1. i - 1 = Len(journal) /\ i <= N
        BY <2>2, <2>3, <3>2, ChunksAssumption
      <4> QED
        BY <2>1, <2>2, <2>4, <2>5, <3>2, <4>1
    <3> QED
      BY <2>2, <3>1, <3>2
  <2>7. saved.status # "none"
    BY <2>1 DEF SavedBehind
  <2> QED
    BY <2>1, <2>2, <2>5, <2>6, <2>7 DEF ImageInv
<1>10. CASE AppendFails
  BY <1>10, ImageStays DEF AppendFails, Abort
<1>11. CASE SaveProgress
  BY <1>11, ImageStays DEF SaveProgress, Abort, files
<1>12. CASE ReadTrailer \/ ReadFails
  BY <1>1, <1>12, ImageStays, Fields DEF ReadTrailer, ReadFails, durable, files
<1>13. CASE RecordSession
  BY <1>13, ImageStays DEF RecordSession, Return
<1>14. CASE Seal
  BY <1>1, <1>14, ImageStays, SealedFields DEF Seal, Return, files
<1>15. CASE WriteManifest
  BY <1>15, ImageStays DEF WriteManifest, Return
<1>16. CASE Retry \/ GiveUp
  BY <1>16, ImageStays DEF Retry, GiveUp, Return, files
<1>17. CASE ReconnectFails
  BY <1>17, ImageStays DEF ReconnectFails, Return, process, durable, files
<1>18. CASE FinalizeState
  BY <1>18, ImageStays DEF FinalizeState, files
<1>19. CASE FinalizeManifest
  BY <1>19, ImageStays DEF FinalizeManifest
<1>20. CASE Crash
  <2>1. CASE UNCHANGED raw
    BY <1>20, <2>1, ImageStays DEF Crash
  <2>2. ASSUME pc = "write", NEW c, raw' = [raw EXCEPT ![state.next] = c] PROVE ImageInv'
    <3>1. UNCHANGED journal /\ pc' = "down"
      BY <1>20 DEF Crash
    <3> QED
      BY <2>2, <3>1, WriteKeepsImage DEF ImageInv
  <2> QED
    BY <1>20, <2>1, <2>2 DEF Crash
<1>21. CASE Still
  <2>1. UNCHANGED <<raw, journal, saved, state, pc>>
    BY <1>21 DEF Still
  <2>2. pc = "append" => FramePayload' = FramePayload
    BY <1>21 DEF Still, Handling, FramePayload
  <2> QED
    BY <2>1, <2>2 DEF ImageInv, Matched
<1>22. CASE Leaves
  BY <1>22, ImageStays DEF Leaves
<1> QED
  BY <1>2, <1>3, <1>4, <1>5, <1>6, <1>7, <1>8, <1>9, <1>10, <1>11, <1>12, <1>13, <1>14,
     <1>15, <1>16, <1>17, <1>18, <1>19, <1>20, <1>21, <1>22, StepKinds DEF Writes

\* No step takes back a record or rewrites the bytes it describes.
LEMMA StepIsAppendOnly ==
  ASSUME IInv, SavedBehind, ImageInv, [Next]_vars, "kept" \notin AppendFaults
  PROVE  /\ Len(journal) <= Len(journal')
         /\ \A i \in 1..Len(journal) :
              /\ journal'[i] = journal[i]
              /\ raw'[journal[i].off] = raw[journal[i].off]
<1>1. Len(journal) \in Nat /\ state.next \in Nat /\ journal \in Seq(ChunkRecord)
  BY Offsets DEF IInv, TypeOK
<1>2. /\ Len(journal) <= Len(journal')
      /\ \A i \in 1..Len(journal) : journal'[i] = journal[i]
  <2>1. CASE journal' = journal
    BY <1>1, <2>1
  <2>2. CASE journal' = Append(journal, Record) /\ pc = "append"
    <3>1. Record \in ChunkRecord
      BY <2>2, FrameTypes DEF IInv, Handshake
    <3> QED
      BY <1>1, <2>2, <3>1
  <2>3. journal' = journal \/ (journal' = Append(journal, Record) /\ pc = "append")
    BY JournalChanges
  <2> QED
    BY <2>1, <2>2, <2>3
<1>3. ASSUME NEW i \in 1..Len(journal) PROVE raw'[journal[i].off] = raw[journal[i].off]
  <2>1. CASE raw' = raw
    BY <2>1
  <2>2. ASSUME pc = "write", NEW c, raw' = [raw EXCEPT ![state.next] = c]
        PROVE  raw'[journal[i].off] = raw[journal[i].off]
    <3>1. journal[i].off = i - 1 /\ Len(journal) = state.next
      BY <2>2 DEF ImageInv, Matched, Outside
    <3>2. i - 1 # state.next
      BY <1>1, <3>1
    <3> QED
      BY <2>2, <3>1, <3>2
  <2> QED
    BY <2>1, <2>2, RawChanges
<1> QED
  BY <1>2, <1>3

-----------------------------------------------------------------------------
\* The sessions that delivered the image.

\* An image that has begun was counted or resumed, and so is a session that
\* continues one; no data frame is handled before the session is counted.
Counted ==
  /\ saved.next > 0 => saved.count > 0 \/ saved.resumed
  /\ state.next > 0 => state.count > 0 \/ state.resumed
  /\ pc \in Receiving \cup {"ended"} /\ session.start > 0 => state.resumed
  /\ pc \in Receiving /\ session.id # 0 => state.count > 0
  /\ pc \in Handling => session.id # 0

\* The journal ends with these contents, recorded by this session.
Newest(got, sid) ==
  /\ Len(got) <= Len(journal)
  /\ \A k \in 1..Len(got) :
       /\ journal[Len(journal) - Len(got) + k].val = got[k]
       /\ journal[Len(journal) - Len(got) + k].sid = sid

\* What a session has hashed is what it has journaled, and when it succeeds its
\* record counts it and its hash is the digest of the stream.
Delivered ==
  /\ pc \in Receiving =>
       /\ Newest(session.got, session.id)
       /\ Len(session.got) = state.next - session.start
       /\ session.id = 0 => session.got = <<>>
  /\ pc = "ended" /\ session.outcome = "ok" =>
       /\ Newest(session.got, session.id)
       /\ Len(session.got) = N - session.start
       /\ session.bytes = N - session.start
       /\ state.count = 1 => state.remote = session.got

\* A session that delivered bytes left a saved offset behind it.
Weighed ==
  /\ session.bytes > 0 => saved.next > 0
  /\ \A j \in 1..Len(sessions) : sessions[j].bytes > 0 => saved.next > 0
  /\ pc \in Receiving \cup {"ended"} /\ session.start = 0 =>
       \A j \in 1..Len(sessions) : sessions[j].bytes = 0

\* An image about to be sealed as continuous was delivered by the last session.
OneSession ==
  pc = "seal" /\ Continuous =>
    /\ Len(state.remote) = N
    /\ Len(sessions) > 0
    /\ sessions[Len(sessions)].ok
    /\ sessions[Len(sessions)].bytes = N
    /\ Newest(state.remote, sessions[Len(sessions)].id)
    /\ \A j \in 1..(Len(sessions) - 1) : sessions[j].bytes = 0

PassInv == Counted /\ Delivered /\ Weighed /\ OneSession /\ ContinuousIsOnePass

\* The numbers the steps compare.
LEMMA Numbers ==
  ASSUME TypeOK
  PROVE  /\ state.next \in Nat /\ state.count \in Nat /\ saved.next \in Nat /\ saved.count \in Nat
         /\ session.id \in Nat /\ session.start \in Nat /\ session.bytes \in Nat
         /\ session.got \in Seq(Data) /\ Len(session.got) \in Nat /\ Len(journal) \in Nat
         /\ Len(sessions) \in Nat /\ N \in Nat /\ passes \in Nat
         /\ \A j \in 1..Len(sessions) : sessions[j].bytes \in Nat
<1>1. \A j \in 1..Len(sessions) : sessions[j].bytes \in Nat
  <2> SUFFICES ASSUME NEW j \in 1..Len(sessions) PROVE sessions[j] \in SessionRecord
    BY DEF SessionRecord
  <2> QED
    BY DEF TypeOK
<1>2. saved.count \in Nat /\ session.bytes \in Nat
  BY DEF TypeOK, State, Session
<1>3. Len(journal) \in Nat /\ Len(sessions) \in Nat /\ Len(session.got) \in Nat
  BY FieldTypes DEF TypeOK
<1> QED
  BY <1>1, <1>2, <1>3, FieldTypes, ChunksAssumption DEF TypeOK

LEMMA StepCounted ==
  ASSUME IInv, Counted, [Next]_vars
  PROVE  Counted'
<1> USE DEF Counted, Receiving, Handling
<1>0. TypeOK
  BY DEF IInv
<1> USE <1>0, Fields, Numbers
<1>1. CASE CreateState
  BY <1>1 DEF CreateState, Return, Disconnected, NoState, SaveState, SaveStateFails
<1>2. CASE OpenExisting
  BY <1>2, Opened DEF NoState
<1>3. CASE StartSession
  BY <1>3 DEF StartSession, MarkResumed, NoSession, durable
<1>4. CASE StartFails
  BY <1>4 DEF StartFails, MarkResumed, durable
<1>5. CASE CountSession
  <2> DEFINE s == [state EXCEPT !.count = @ + 1]
             named == [session EXCEPT !.id = passes + 1]
             broken == [named EXCEPT !.outcome = "error"]
  <2>1. s.next = state.next /\ s.count = state.count + 1 /\ s.resumed = state.resumed
    OBVIOUS
  <2>2. named.start = session.start /\ named.id = passes + 1
    OBVIOUS
  <2>3. broken.start = session.start
    OBVIOUS
  <2>4. pc = "recv" /\ saved' \in {saved, s} /\ state' = s
        /\ \/ pc' = pc /\ session' = named
           \/ pc' = "ended" /\ session' = broken
    BY <1>5 DEF CountSession, SaveState, SaveStateFails
  <2> HIDE DEF s, named, broken
  <2> QED
    BY <2>1, <2>2, <2>3, <2>4
<1>6. CASE RejectFrame \/ SendAck
  BY <1>6 DEF RejectFrame, SendAck, Abort, durable
<1>7. CASE AcceptChunk
  BY <1>7 DEF AcceptChunk, durable, process
<1>8. CASE WriteChunk \/ AppendFails
  BY <1>8 DEF WriteChunk, AppendFails, Abort
<1>9. CASE AppendChunk
  BY <1>9 DEF AppendChunk
<1>10. CASE SaveProgress
  BY <1>10 DEF SaveProgress, Abort, SaveState, SaveStateFails
<1>11. CASE ReadTrailer
  BY <1>11 DEF ReadTrailer, Completed, durable
<1>12. CASE ReadFails
  BY <1>12 DEF ReadFails, Completed, durable
<1>13. CASE RecordSession
  BY <1>13, SMTT(30) DEF RecordSession, Return, Disconnected, NoState
<1>14. CASE Seal
  BY <1>14, SealedFields DEF Seal, Return, Disconnected, NoState, SaveState, SaveStateFails
<1>15. CASE WriteManifest
  BY <1>15 DEF WriteManifest, Return, Disconnected, NoState
<1>16. CASE Retry
  BY <1>16 DEF Retry, Return, Disconnected, NoState, SaveState, SaveStateFails
<1>17. CASE GiveUp
  BY <1>17 DEF GiveUp, Return, Disconnected, NoState, SaveState, SaveStateFails
<1>18. CASE Reconnect
  BY <1>18 DEF Reconnect, durable, process
<1>19. CASE ReconnectFails
  BY <1>19 DEF ReconnectFails, Return, Disconnected, NoState, durable, process
<1>20. CASE FinalizeState
  BY <1>20 DEF FinalizeState, SaveState, SaveStateFails, process
<1>21. CASE FinalizeManifest
  BY <1>21 DEF FinalizeManifest, process
<1>22. CASE Crash
  BY <1>22 DEF Crash, NoState
<1>23. CASE Still
  BY <1>23 DEF Still
<1>24. CASE Leaves
  BY <1>24 DEF Leaves, NoState
<1> QED
  BY <1>1, <1>2, <1>3, <1>4, <1>5, <1>6, <1>7, <1>8, <1>9, <1>10, <1>11, <1>12, <1>13,
     <1>14, <1>15, <1>16, <1>17, <1>18, <1>19, <1>20, <1>21, <1>22, <1>23, <1>24, StepKinds
  DEF Writes

\* A session that is over without success, or none at all.
LEMMA NothingDelivered ==
  ASSUME \/ pc' \notin Receiving \cup {"ended"}
         \/ pc' = "ended" /\ session'.outcome = "error"
  PROVE  Delivered'
BY DEF Delivered, Receiving, Handling

LEMMA AppendDelivers ==
  ASSUME IInv, Counted, Delivered, AppendChunk
  PROVE  Delivered'
<1>1. TypeOK /\ pc = "append" /\ pc' = "save"
  BY DEF IInv, AppendChunk
<1>2. /\ journal' = Append(journal, Record)
      /\ state'.next = state.next + 1
      /\ session'.got = Append(session.got, FramePayload)
      /\ session'.id = session.id /\ session'.start = session.start
  BY <1>1, Fields DEF AppendChunk
<1>3. Record \in ChunkRecord /\ FramePayload \in Data
  BY <1>1, FrameTypes DEF IInv, Handshake
<1>4. Record.val = FramePayload /\ Record.sid = session.id
  BY DEF Record
<1>5. journal \in Seq(ChunkRecord) /\ session.got \in Seq(Data)
  BY <1>1, Numbers DEF TypeOK
<1>6. Newest(session.got, session.id) /\ Len(session.got) = state.next - session.start
      /\ session.id # 0
  BY <1>1 DEF Delivered, Counted, Receiving, Handling
<1>7. PICK n \in Nat, m \in Nat : n = Len(journal) /\ m = Len(session.got)
  BY <1>1, Numbers
<1>8. /\ m <= n /\ m = state.next - session.start
      /\ \A k \in 1..m : journal[n - m + k].val = session.got[k]
                      /\ journal[n - m + k].sid = session.id
  BY <1>6, <1>7 DEF Newest
<1>9. /\ Len(journal') = n + 1 /\ Len(session'.got) = m + 1
      /\ \A i \in 1..n : journal'[i] = journal[i]
      /\ journal'[n + 1] = Record
      /\ \A i \in 1..m : session'.got[i] = session.got[i]
      /\ session'.got[m + 1] = FramePayload
  BY <1>2, <1>3, <1>5, <1>7
<1>10. ASSUME NEW k \in 1..(m + 1)
       PROVE  /\ journal'[n - m + k].val = session'.got[k]
              /\ journal'[n - m + k].sid = session.id
  <2>1. CASE k \in 1..m
    <3>1. n - m + k \in 1..n
      BY <1>8, <2>1
    <3> QED
      BY <1>8, <1>9, <2>1, <3>1
  <2>2. CASE k = m + 1
    <3>1. n - m + k = n + 1
      BY <2>2
    <3> QED
      BY <1>4, <1>9, <2>2, <3>1
  <2>3. k \in 1..m \/ k = m + 1
    OBVIOUS
  <2> QED
    BY <2>1, <2>2, <2>3
<1>11. m + 1 <= n + 1 /\ (n + 1) - (m + 1) = n - m
  BY <1>8
<1>12. Newest(session.got, session.id)'
  <2>1. Len(session'.got) <= Len(journal')
    BY <1>9, <1>11
  <2>2. Len(journal') - Len(session'.got) = n - m
    BY <1>9, <1>11
  <2>3. ASSUME NEW k \in 1..Len(session'.got)
        PROVE  /\ journal'[Len(journal') - Len(session'.got) + k].val = session'.got[k]
               /\ journal'[Len(journal') - Len(session'.got) + k].sid = session'.id
    <3>1. k \in 1..(m + 1)
      BY <1>9
    <3>2. journal'[n - m + k].val = session'.got[k] /\ journal'[n - m + k].sid = session.id
      BY <1>10, <3>1
    <3> QED
      BY <1>2, <2>2, <3>2
  <2> QED
    BY <2>1, <2>3 DEF Newest
<1>13. Len(session'.got) = state'.next - session'.start
  BY <1>1, <1>2, <1>8, <1>9, Numbers, SMTT(30)
<1> QED
  BY <1>1, <1>2, <1>6, <1>12, <1>13 DEF Delivered, Receiving, Handling

LEMMA StepDelivered ==
  ASSUME IInv, Counted, Delivered, [Next]_vars
  PROVE  Delivered'
<1> USE DEF Receiving, Handling
<1>0. TypeOK
  BY DEF IInv
<1> USE <1>0, Fields
<1>1. CASE CreateState
  BY <1>1, NothingDelivered DEF CreateState, Return
<1>2. CASE OpenExisting
  BY <1>2, Opened, NothingDelivered
<1>3. CASE StartSession
  <2>1. pc' = "recv" /\ session'.got = <<>> /\ session'.start = state.next /\ session'.id = 0
        /\ state'.next = state.next
    BY <1>3 DEF StartSession, NoSession, MarkResumed
  <2>2. Newest(session.got, session.id)'
    BY <2>1, Numbers DEF Newest, StartSession, durable, files
  <2> QED
    BY <2>1, <2>2, Numbers DEF Delivered
<1>4. CASE StartFails
  BY <1>4, NothingDelivered DEF StartFails
<1>5. CASE CountSession
  <2> DEFINE named == [session EXCEPT !.id = passes + 1]
             broken == [named EXCEPT !.outcome = "error"]
  <2>1. named.got = session.got /\ named.start = session.start /\ named.id = passes + 1
        /\ broken.outcome = "error"
    OBVIOUS
  <2>6. pc = "recv" /\ session.id = 0 /\ UNCHANGED journal
    BY <1>5 DEF CountSession, files
  <2>7. state' = [state EXCEPT !.count = @ + 1]
    BY <1>5 DEF CountSession
  <2>8. (pc' = pc /\ session' = named) \/ (pc' = "ended" /\ session' = broken)
    BY <1>5 DEF CountSession
  <2>2. pc = "recv" /\ session.id = 0 /\ UNCHANGED journal /\ state'.next = state.next
        /\ \/ pc' = pc /\ session' = named
           \/ pc' = "ended" /\ session' = broken
    BY <2>6, <2>7, <2>8
  <2>3. passes + 1 # 0
    BY Numbers
  <2> HIDE DEF named, broken
  <2>4. CASE pc' = "ended" /\ session' = broken
    BY <2>1, <2>4, NothingDelivered
  <2>5. CASE pc' = pc /\ session' = named
    <3>1. session.got = <<>> /\ Len(session.got) = state.next - session.start
      BY <2>2 DEF Delivered
    <3>2. Newest(session.got, session.id)'
      <4>1. session'.got = <<>> /\ Len(<<>>) = 0 /\ Len(journal') \in Nat
        BY <2>1, <2>2, <2>5, <3>1, Numbers
      <4> QED
        BY <4>1 DEF Newest
    <3> QED
      BY <2>1, <2>2, <2>3, <2>5, <3>1, <3>2 DEF Delivered
  <2> QED
    BY <2>2, <2>4, <2>5
<1>6. ASSUME UNCHANGED <<journal, state, session>>, pc \in Receiving, pc' \in Receiving
      PROVE  Delivered'
  BY <1>6 DEF Delivered, Newest
<1>7. CASE RejectFrame
  BY <1>7, NothingDelivered DEF RejectFrame, Abort
<1>8. CASE SendAck
  BY <1>6, <1>8, NothingDelivered DEF SendAck, Abort, durable, files
<1>9. CASE AcceptChunk
  BY <1>6, <1>9 DEF AcceptChunk, durable, files, process
<1>10. CASE WriteChunk
  BY <1>6, <1>10, NothingDelivered DEF WriteChunk, Abort
<1>11. CASE AppendChunk
  BY <1>11, AppendDelivers
<1>12. CASE AppendFails
  BY <1>12, NothingDelivered DEF AppendFails, Abort
<1>13. CASE SaveProgress
  BY <1>6, <1>13, NothingDelivered DEF SaveProgress, Abort, files
<1>14. CASE ReadTrailer
  <2>1. pc = "recv" /\ pc' = "ended" /\ UNCHANGED journal
    BY <1>14 DEF ReadTrailer, durable, files
  <2>2. CASE session' = Completed("error")
    BY <2>1, <2>2, NothingDelivered DEF Completed
  <2>3. CASE TrailerMatches /\ session' = Completed("ok")
             /\ state' = IF state.count = 1 THEN [state EXCEPT !.remote = agent.sum] ELSE state
    <3>1. /\ session'.got = session.got /\ session'.id = session.id
          /\ session'.start = session.start /\ session'.bytes = state.next - session.start
      BY <2>3 DEF Completed
    <3>2. state.next = N /\ session.got = agent.sum
      BY <2>3 DEF TrailerMatches
    <3>3. state'.count = state.count /\ (state.count = 1 => state'.remote = agent.sum)
      BY <2>3
    <3>4. Newest(session.got, session.id) /\ Len(session.got) = state.next - session.start
      BY <2>1 DEF Delivered
    <3>5. Newest(session.got, session.id)'
      BY <2>1, <3>1, <3>4 DEF Newest
    <3> QED
      BY <2>1, <3>1, <3>2, <3>3, <3>4, <3>5 DEF Delivered
  <2> QED
    BY <1>14, <2>2, <2>3 DEF ReadTrailer
<1>15. CASE ReadFails
  BY <1>15, NothingDelivered DEF ReadFails, Completed
<1>16. CASE RecordSession \/ Seal \/ WriteManifest \/ Retry \/ GiveUp
  BY <1>16, NothingDelivered DEF RecordSession, Seal, WriteManifest, Retry, GiveUp, Return
<1>17. CASE Reconnect \/ ReconnectFails
  BY <1>17, NothingDelivered DEF Reconnect, ReconnectFails, Return
<1>18. CASE FinalizeState \/ FinalizeManifest
  BY <1>18, NothingDelivered DEF FinalizeState, FinalizeManifest
<1>19. CASE Crash
  BY <1>19, NothingDelivered DEF Crash
<1>20. CASE Still
  BY <1>20 DEF Still, Delivered, Newest
<1>21. CASE Leaves
  BY <1>21, NothingDelivered DEF Leaves
<1> QED
  BY <1>1, <1>2, <1>3, <1>4, <1>5, <1>7, <1>8, <1>9, <1>10, <1>11, <1>12, <1>13, <1>14,
     <1>15, <1>16, <1>17, <1>18, <1>19, <1>20, <1>21, StepKinds DEF Writes

\* A step that records no session and starts none.
LEMMA WeighedStays ==
  ASSUME IInv, SavedBehind, Weighed, [Next]_vars, sessions' = sessions,
         session'.bytes \in {session.bytes, 0},
         pc' \in Receiving \cup {"ended"} =>
           pc \in Receiving \cup {"ended"} /\ session'.start = session.start
  PROVE  Weighed'
<1>1. saved.next \in Nat /\ saved'.next \in Nat /\ saved.next <= saved'.next
  <2>1. TypeOK' /\ saved.next <= saved'.next
    BY StepIInv, SavedForward DEF IInv
  <2> QED
    BY <2>1, Offsets DEF TypeOK, State
<1>2. saved.next > 0 => saved'.next > 0
  BY <1>1
<1> QED
  BY <1>2 DEF Weighed

LEMMA StepWeighed ==
  ASSUME IInv, SavedBehind, Weighed, [Next]_vars
  PROVE  Weighed'
<1>0. TypeOK
  BY DEF IInv
<1> USE <1>0, Fields DEF Receiving, Handling
<1>1. CASE CreateState
  BY <1>1, WeighedStays DEF CreateState, Return, Disconnected, NoSession, files
<1>2. CASE OpenExisting
  BY <1>2, Opened, WeighedStays DEF NoSession
<1>3. CASE StartSession
  <2>1. /\ pc = "loop" /\ UNCHANGED <<sessions, saved>>
        /\ session'.start = state.next /\ session'.bytes = 0
    BY <1>3 DEF StartSession, NoSession, durable, files
  <2>2. state.next = saved.next /\ saved.next \in Nat
    BY <2>1, Offsets
  <2>3. ASSUME state.next = 0, NEW j \in 1..Len(sessions) PROVE sessions[j].bytes = 0
    <3>1. ~(sessions[j].bytes > 0) /\ sessions[j].bytes \in Nat
      BY <2>2, <2>3, Numbers DEF Weighed
    <3> QED
      BY <3>1
  <2> QED
    BY <2>1, <2>3 DEF Weighed
<1>4. CASE StartFails
  BY <1>4, WeighedStays DEF StartFails, durable, files
<1>5. CASE CountSession
  BY <1>5, WeighedStays DEF CountSession, files
<1>6. CASE RejectFrame \/ SendAck
  BY <1>6, WeighedStays DEF RejectFrame, SendAck, Abort, durable, files
<1>7. CASE AcceptChunk
  BY <1>7, WeighedStays DEF AcceptChunk, durable, files, process
<1>8. CASE WriteChunk \/ AppendFails
  BY <1>8, WeighedStays DEF WriteChunk, AppendFails, Abort
<1>9. CASE AppendChunk
  BY <1>9, WeighedStays DEF AppendChunk
<1>10. CASE SaveProgress
  BY <1>10, WeighedStays DEF SaveProgress, Abort, files
<1>11. CASE ReadTrailer \/ ReadFails
  <2>1. /\ pc = "recv" /\ pc' = "ended" /\ UNCHANGED <<saved, sessions>>
        /\ session'.bytes = state.next - session.start /\ session'.start = session.start
    BY <1>11 DEF ReadTrailer, ReadFails, Completed, durable, files
  <2>2. state.next = saved.next
    BY <2>1, Offsets
  <2>3. session'.bytes > 0 => saved.next > 0
    BY <2>1, <2>2, Numbers
  <2> QED
    BY <2>1, <2>3 DEF Weighed
<1>12. CASE RecordSession
  <2>1. pc' \in {"seal", "retry", "finalize"} /\ session'.bytes = 0 /\ saved' = saved
        /\ sessions' \in {sessions, Append(sessions, SessionEntry)}
    BY <1>12 DEF RecordSession, Return, Disconnected, NoSession
  <2>2. SessionEntry \in SessionRecord /\ SessionEntry.bytes = session.bytes
    BY SessionEntryType DEF SessionEntry
  <2>3. CASE sessions' = sessions
    BY <2>1, <2>3 DEF Weighed
  <2>4. CASE sessions' = Append(sessions, SessionEntry)
    <3>1. /\ sessions \in Seq(SessionRecord) /\ Len(sessions') = Len(sessions) + 1
          /\ \A j \in 1..Len(sessions) : sessions'[j] = sessions[j]
          /\ sessions'[Len(sessions) + 1] = SessionEntry
      BY <2>2, <2>4 DEF TypeOK
    <3>2. ASSUME NEW j \in 1..Len(sessions') PROVE sessions'[j].bytes > 0 => saved.next > 0
      <4>1. CASE j \in 1..Len(sessions)
        BY <3>1, <4>1 DEF Weighed
      <4>2. CASE j = Len(sessions) + 1
        BY <2>2, <3>1, <4>2 DEF Weighed
      <4>3. Len(sessions) \in Nat
        BY Numbers
      <4> QED
        BY <3>1, <4>1, <4>2, <4>3
    <3> QED
      BY <2>1, <3>2 DEF Weighed
  <2> QED
    BY <2>1, <2>3, <2>4
<1>13. CASE Seal \/ Retry \/ GiveUp
  BY <1>13, WeighedStays DEF Seal, Retry, GiveUp, Return, Disconnected, NoSession, files
<1>14. CASE WriteManifest
  BY <1>14, WeighedStays DEF WriteManifest, Return, Disconnected, NoSession
<1>15. CASE Reconnect \/ ReconnectFails
  BY <1>15, WeighedStays DEF Reconnect, ReconnectFails, Return, Disconnected, NoSession,
     durable, files, process
<1>16. CASE FinalizeState
  BY <1>16, WeighedStays DEF FinalizeState, files, process
<1>17. CASE FinalizeManifest
  BY <1>17, WeighedStays DEF FinalizeManifest, process
<1>18. CASE Crash
  BY <1>18, WeighedStays DEF Crash, NoSession
<1>19. CASE Still
  BY <1>19, WeighedStays DEF Still
<1>20. CASE Leaves
  BY <1>20, WeighedStays DEF Leaves, NoSession
<1> QED
  BY <1>1, <1>2, <1>3, <1>4, <1>5, <1>6, <1>7, <1>8, <1>9, <1>10, <1>11, <1>12, <1>13,
     <1>14, <1>15, <1>16, <1>17, <1>18, <1>19, <1>20, StepKinds DEF Writes

\* The seal of a continuous image is reached from its one session only.
LEMMA StepOneSession ==
  ASSUME IInv, Counted, Delivered, Weighed, OneSession, [Next]_vars
  PROVE  OneSession'
<1>0. TypeOK
  BY DEF IInv
<1>1. ASSUME pc' # "seal" PROVE OneSession'
  BY <1>1 DEF OneSession
<1>2. CASE RecordSession
  <2> SUFFICES ASSUME pc' = "seal", Continuous' PROVE OneSession'
    BY DEF OneSession
  <2>1. /\ pc = "ended" /\ session.outcome = "ok" /\ UNCHANGED <<journal, state>>
        /\ sessions' = Append(sessions, SessionEntry)
    BY <1>2 DEF RecordSession, Return
  <2>2. ~state.resumed /\ state.count = 1
    BY <2>1 DEF Continuous
  <2>3. session.start = 0 /\ \A j \in 1..Len(sessions) : sessions[j].bytes = 0
    <3>1. ~(session.start > 0) /\ session.start \in Nat
      BY <1>0, <2>1, <2>2, Numbers DEF Counted
    <3>2. session.start = 0
      BY <3>1
    <3> QED
      BY <2>1, <3>2 DEF Weighed
  <2>4. /\ Newest(session.got, session.id) /\ state.remote = session.got
        /\ Len(session.got) = N /\ session.bytes = N
    BY <1>0, <2>1, <2>2, <2>3, Numbers DEF Delivered
  <2>5. SessionEntry \in SessionRecord /\ SessionEntry.bytes = N
        /\ SessionEntry.id = session.id
    BY <1>0, <2>4, SessionEntryType DEF SessionEntry
  <2>6. SessionEntry.ok
    BY <2>1 DEF SessionEntry
  <2>7. PICK n \in Nat : n = Len(sessions)
    BY <1>0, Numbers
  <2>8. /\ Len(sessions') = n + 1
        /\ \A j \in 1..n : sessions'[j] = sessions[j]
        /\ sessions'[n + 1] = SessionEntry
    BY <1>0, <2>1, <2>5, <2>7 DEF TypeOK
  <2>9. sessions'[Len(sessions')].ok
    BY <2>6, <2>8
  <2>10. Len(sessions') > 0 /\ sessions'[Len(sessions')].bytes = N
         /\ sessions'[Len(sessions')].id = session.id
    BY <2>5, <2>8
  <2>11. \A j \in 1..(Len(sessions') - 1) : sessions'[j].bytes = 0
    BY <2>3, <2>7, <2>8
  <2>12. Newest(state.remote, sessions[Len(sessions)].id)'
    BY <2>1, <2>4, <2>10 DEF Newest
  <2>13. Len(state'.remote) = N
    BY <2>1, <2>4
  <2> QED
    BY <2>9, <2>10, <2>11, <2>12, <2>13 DEF OneSession
<1>3. CASE Still
  BY <1>3 DEF Still, OneSession, Newest, Continuous
<1>4. CASE CreateState \/ StartSession \/ StartFails \/ AcceptChunk
  BY <1>1, <1>4 DEF CreateState, StartSession, StartFails, AcceptChunk, Return
<1>5. CASE OpenExisting
  BY <1>0, <1>1, <1>5, Opened
<1>6. CASE CountSession
  BY <1>1, <1>6 DEF CountSession
<1>7. CASE RejectFrame \/ WriteChunk \/ AppendChunk \/ AppendFails \/ SaveProgress \/ SendAck
  BY <1>1, <1>7 DEF RejectFrame, WriteChunk, AppendChunk, AppendFails, SaveProgress, SendAck,
     Abort
<1>8. CASE ReadTrailer \/ ReadFails
  BY <1>1, <1>8 DEF ReadTrailer, ReadFails
<1>9. CASE Seal \/ WriteManifest \/ Retry \/ GiveUp \/ Reconnect \/ ReconnectFails
  BY <1>1, <1>9 DEF Seal, WriteManifest, Retry, GiveUp, Reconnect, ReconnectFails, Return
<1>10. CASE FinalizeState \/ FinalizeManifest \/ Crash \/ Leaves
  BY <1>1, <1>10 DEF FinalizeState, FinalizeManifest, Crash, Leaves
<1> QED
  BY <1>2, <1>3, <1>4, <1>5, <1>6, <1>7, <1>8, <1>9, <1>10, StepKinds DEF Writes

\* Only RecordSession writes sessions.jsonl.
LEMMA SessionsChange ==
  ASSUME IInv, [Next]_vars
  PROVE  sessions' = sessions \/ pc = "ended"
<1>1. CASE CreateState \/ CountSession \/ SaveProgress \/ Seal \/ Retry \/ GiveUp \/ FinalizeState
  BY <1>1 DEF CreateState, CountSession, SaveProgress, Seal, Retry, GiveUp, FinalizeState, files
<1>2. CASE OpenExisting
  BY <1>2, Opened DEF IInv
<1>3. CASE StartSession \/ StartFails \/ RejectFrame \/ AcceptChunk \/ SendAck
  BY <1>3 DEF StartSession, StartFails, RejectFrame, AcceptChunk, SendAck, durable, files
<1>4. CASE ReadTrailer \/ ReadFails \/ Reconnect \/ ReconnectFails
  BY <1>4 DEF ReadTrailer, ReadFails, Reconnect, ReconnectFails, durable, files
<1>5. CASE WriteChunk \/ AppendChunk \/ AppendFails \/ RecordSession \/ WriteManifest
           \/ FinalizeManifest \/ Crash
  BY <1>5 DEF WriteChunk, AppendChunk, AppendFails, RecordSession, WriteManifest,
     FinalizeManifest, Crash
<1>6. CASE Still \/ Leaves
  BY <1>6 DEF Still, Leaves
<1> QED
  BY <1>1, <1>2, <1>3, <1>4, <1>5, <1>6, StepKinds DEF Writes

\* At the seal, the audit has found the journal to be what the session delivered.
LEMMA SealIsOnePass ==
  ASSUME IInv, Sealing, OneSession, ContinuousIsOnePass, Seal
  PROVE  ContinuousIsOnePass'
<1>1. TypeOK /\ pc = "seal" /\ UNCHANGED <<journal, sessions>>
  BY DEF IInv, Seal, files
<1>2. Len(journal) = N /\ N \in Nat
  BY <1>1, ChunksAssumption DEF Seal, SealRefused, Sealing
<1>3. CASE saved' = saved
  BY <1>1, <1>3 DEF ContinuousIsOnePass, Journaled
<1>4. CASE saved' = SealedState
  <2> SUFFICES ASSUME Continuous PROVE ContinuousIsOnePass'
    BY <1>1, <1>4, SealedFields DEF ContinuousIsOnePass
  <2> DEFINE n == Len(sessions)
  <2>1. n \in Nat /\ n > 0 /\ sessions[n].ok /\ sessions[n].bytes = N
        /\ \A j \in 1..(n - 1) : sessions[j].bytes = 0
    BY <1>1, Numbers DEF OneSession
  <2>2. \A k \in 1..N : /\ journal[k].val = state.remote[k]
                        /\ journal[k].sid = sessions[n].id
    <3>1. Len(state.remote) = N /\ Newest(state.remote, sessions[n].id)
      BY <1>1 DEF OneSession
    <3>2. Len(journal) - Len(state.remote) = 0
      BY <1>2, <3>1
    <3>3. ASSUME NEW k \in 1..N
          PROVE  journal[k].val = state.remote[k] /\ journal[k].sid = sessions[n].id
      <4>1. /\ journal[Len(journal) - Len(state.remote) + k].val = state.remote[k]
            /\ journal[Len(journal) - Len(state.remote) + k].sid = sessions[n].id
        BY <3>1 DEF Newest
      <4>2. Len(journal) - Len(state.remote) + k = k
        BY <1>2, <3>2
      <4> QED
        BY <4>1, <4>2
    <3> QED
      BY <3>3
  <2>3. state.remote = [i \in 1..N |-> state.remote[i]]
    <3>1. state.remote \in Seq(Data) /\ Len(state.remote) = N
      BY <1>1 DEF OneSession, TypeOK, State
    <3> QED
      BY <3>1
  <2>4. SealedState.remote = Journaled
    BY <1>1, <1>2, <2>2, <2>3, SealedFields DEF Journaled
  <2>5. \A j \in 1..n : j # n => sessions[j].bytes = 0
    BY <2>1
  <2>6. saved'.remote = Journaled'
    BY <1>1, <1>4, <2>4 DEF Journaled
  <2>7. \E i \in 1..Len(sessions) :
          /\ sessions[i].ok /\ sessions[i].bytes = N
          /\ \A j \in 1..N : journal[j].sid = sessions[i].id
          /\ \A j \in 1..Len(sessions) : j # i => sessions[j].bytes = 0
    <3>1. n \in 1..n
      BY <2>1
    <3> WITNESS n \in 1..Len(sessions)
    <3> QED
      BY <2>1, <2>2, <2>5, Zenon
  <2> QED
    BY <1>1, <2>6, <2>7 DEF ContinuousIsOnePass
<1> QED
  BY <1>3, <1>4 DEF Seal, SaveState, SaveStateFails

LEMMA StepPassInv ==
  ASSUME IInv, Sealing, SavedBehind, PassInv, [Next]_vars
  PROVE  PassInv'
<1>1. Counted' /\ Delivered' /\ Weighed' /\ OneSession'
  BY StepCounted, StepDelivered, StepWeighed, StepOneSession DEF PassInv
<1>2. TypeOK /\ ContinuousIsOnePass /\ OneSession
  BY DEF IInv, PassInv
<1>3. CASE saved'.status \notin Verified
  BY <1>1, <1>3 DEF PassInv, ContinuousIsOnePass, Verified
<1>4. ASSUME UNCHANGED <<raw, journal, torn, saved>>, saved.status \in Verified PROVE PassInv'
  <2>1. sessions' = sessions
    BY <1>4, SessionsChange DEF Sealing
  <2>2. ContinuousIsOnePass'
    BY <1>2, <1>4, <2>1 DEF ContinuousIsOnePass, Journaled
  <2> QED
    BY <1>1, <2>2 DEF PassInv
<1>5. CASE Seal
  BY <1>1, <1>2, <1>5, SealIsOnePass DEF PassInv
<1> QED
  BY <1>2, <1>3, <1>4, <1>5, StepLeavesSealAlone DEF LeavesSealAlone

-----------------------------------------------------------------------------
\* The refinement of VerifiedImage.

\* Sessions are numbered in the order in which they add to the journal.
Dated ==
  /\ session.id \in {0, passes}
  /\ \A i \in 1..Len(journal) : journal[i].sid <= passes
  /\ \A i, j \in 1..Len(journal) : i <= j => journal[i].sid <= journal[j].sid

\* A step that appends nothing and names no session.
LEMMA DatesStay ==
  ASSUME Dated, UNCHANGED <<journal, passes>>, session'.id \in {session.id, 0}
  PROVE  Dated'
BY DEF Dated

\* A record of the current session is the newest.
LEMMA AppendDates ==
  ASSUME IInv, Counted, Dated, pc = "append", journal' = Append(journal, Record),
         passes' = passes, session'.id = session.id
  PROVE  Dated'
<1>1. TypeOK
  BY DEF IInv
<1>2. Record \in ChunkRecord /\ journal \in Seq(ChunkRecord)
  BY <1>1, FrameTypes DEF IInv, Handshake, TypeOK
<1>3. PICK n \in Nat : n = Len(journal)
  BY <1>1, Numbers
<1>4. /\ Len(journal') = n + 1 /\ journal'[n + 1] = Record
      /\ \A i \in 1..n : journal'[i] = journal[i]
  BY <1>2, <1>3
<1>5. Record.sid = passes /\ passes \in Nat
  BY <1>1, Numbers DEF Record, Dated, Counted, Handling
<1>6. \A i \in 1..(n + 1) : journal'[i].sid <= passes
  BY <1>3, <1>4, <1>5 DEF Dated
<1>7. ASSUME NEW i \in 1..(n + 1), NEW j \in 1..(n + 1), i <= j
      PROVE  journal'[i].sid <= journal'[j].sid
  <2>1. CASE j = n + 1
    BY <1>4, <1>5, <1>6, <2>1
  <2>2. CASE j \in 1..n
    <3>1. i \in 1..n
      BY <1>7, <2>2
    <3> QED
      BY <1>3, <1>4, <1>7, <2>2, <3>1 DEF Dated
  <2>3. j = n + 1 \/ j \in 1..n
    OBVIOUS
  <2> QED
    BY <2>1, <2>2, <2>3
<1> QED
  BY <1>4, <1>6, <1>7 DEF Dated

LEMMA StepDated ==
  ASSUME IInv, Counted, Dated, [Next]_vars
  PROVE  Dated'
<1>0. TypeOK
  BY DEF IInv
<1> USE <1>0, Fields
<1>1. CASE AppendChunk
  BY <1>1, AppendDates DEF AppendChunk, counters
<1>2. CASE AppendFails
  <2>1. session'.id = session.id /\ passes' = passes /\ pc = "append"
        /\ journal' \in {journal, Append(journal, Record)}
    BY <1>2 DEF AppendFails, Abort
  <2> QED
    BY <2>1, AppendDates, DatesStay
<1>3. CASE CountSession
  <2>1. /\ session'.id = passes + 1 /\ passes' = passes + 1 /\ journal' = journal
    BY <1>3 DEF CountSession, files
  <2>2. \A i \in 1..Len(journal) : journal[i].sid \in Nat /\ passes \in Nat
    <3> SUFFICES ASSUME NEW i \in 1..Len(journal)
                 PROVE  journal[i] \in ChunkRecord /\ passes \in Nat
      BY DEF ChunkRecord
    <3> QED
      BY DEF TypeOK
  <2> QED
    BY <2>1, <2>2 DEF Dated
<1>4. CASE CreateState
  BY <1>4, DatesStay DEF CreateState, Return, Disconnected, NoSession, files
<1>5. CASE OpenExisting
  BY <1>5, Opened, DatesStay DEF NoSession
<1>6. CASE StartSession \/ StartFails
  BY <1>6, DatesStay DEF StartSession, StartFails, NoSession, durable, files, counters
<1>7. CASE RejectFrame \/ SendAck
  BY <1>7, DatesStay DEF RejectFrame, SendAck, Abort, durable, files, counters
<1>8. CASE AcceptChunk
  BY <1>8, DatesStay DEF AcceptChunk, durable, files, process, counters
<1>9. CASE WriteChunk
  BY <1>9, DatesStay DEF WriteChunk, Abort
<1>10. CASE SaveProgress
  BY <1>10, DatesStay DEF SaveProgress, Abort, files
<1>11. CASE ReadTrailer \/ ReadFails
  BY <1>11, DatesStay DEF ReadTrailer, ReadFails, Completed, durable, files, counters
<1>12. CASE RecordSession
  BY <1>12, DatesStay DEF RecordSession, Return, Disconnected, NoSession
<1>13. CASE Seal \/ Retry \/ GiveUp
  BY <1>13, DatesStay DEF Seal, Retry, GiveUp, Return, Disconnected, NoSession, files
<1>14. CASE WriteManifest
  BY <1>14, DatesStay DEF WriteManifest, Return, Disconnected, NoSession
<1>15. CASE Reconnect \/ ReconnectFails
  BY <1>15, DatesStay DEF Reconnect, ReconnectFails, Return, Disconnected, NoSession, durable,
     files, process, counters
<1>16. CASE FinalizeState
  BY <1>16, DatesStay DEF FinalizeState, files, process
<1>17. CASE FinalizeManifest
  BY <1>17, DatesStay DEF FinalizeManifest, process
<1>18. CASE Crash
  BY <1>18, DatesStay DEF Crash, NoSession
<1>19. CASE Still \/ Leaves
  BY <1>19, DatesStay DEF Still, Leaves, NoSession
<1> QED
  BY <1>1, <1>2, <1>3, <1>4, <1>5, <1>6, <1>7, <1>8, <1>9, <1>10, <1>11, <1>12, <1>13,
     <1>14, <1>15, <1>16, <1>17, <1>18, <1>19, StepKinds DEF Writes

\* The fields of the image.
LEMMA ImageFields ==
  ASSUME TypeOK
  PROVE  /\ Image \in Seq([val : Data, pass : Nat]) /\ Len(Image) = Len(journal)
         /\ \A i \in 1..Len(journal) : /\ Image[i].val = journal[i].val
                                       /\ Image[i].pass = journal[i].sid
<1>1. \A i \in 1..Len(journal) : journal[i].val \in Data /\ journal[i].sid \in Nat
  <2> SUFFICES ASSUME NEW i \in 1..Len(journal) PROVE journal[i] \in ChunkRecord
    BY DEF ChunkRecord
  <2> QED
    BY DEF TypeOK
<1> QED
  BY <1>1, Numbers, SMTT(30) DEF Image

\* A step that neither appends nor seals is a stutter.
LEMMA Stutters ==
  ASSUME journal' = journal,
         saved' = saved \/ (saved.status \notin Verified /\ saved'.status \notin Verified)
  PROVE  UNCHANGED <<Image, Claim, Digest>>
BY DEF Image, Claim, Digest, Sealed

\* The append of a record commits a chunk of the newest session.
LEMMA AppendCommits ==
  ASSUME IInv, Counted, ImageInv, Dated, AppendChunk, saved.status \notin Verified
  PROVE  Promise!Next
<1> DEFINE c == [val |-> FramePayload, pass |-> session.id]
<1>1. TypeOK /\ pc = "append"
  BY DEF IInv, AppendChunk
<1>2. /\ journal' = Append(journal, Record) /\ saved' = saved
      /\ journal \in Seq(ChunkRecord) /\ Record \in ChunkRecord
  BY <1>1, FrameTypes DEF AppendChunk, IInv, Handshake, TypeOK
<1>3. PICK n \in Nat : n = Len(journal)
  BY <1>1, Numbers
<1>4. /\ Len(journal') = n + 1 /\ journal'[n + 1] = Record
      /\ \A i \in 1..n : journal'[i] = journal[i]
  BY <1>2, <1>3
<1>5. n < N
  BY <1>1, <1>3 DEF IInv, CommitOrder, ImageInv, Outside
<1>6. c \in [val : Data, pass : Nat]
  BY <1>1, FrameTypes, Numbers DEF IInv, Handshake
<1>7. Record.val = FramePayload /\ Record.sid = session.id /\ session.id = passes
  BY <1>1 DEF Record, Dated, Counted, Handling
<1>8. c.val = FramePayload /\ c.pass = session.id
  OBVIOUS
<1> HIDE DEF c
<1>9. /\ Image \in Seq([val : Data, pass : Nat]) /\ Len(Image) = n
      /\ \A i \in 1..n : Image[i].pass = journal[i].sid
  BY <1>1, <1>3, ImageFields
<1>10. Image' = Append(Image, c)
  <2>1. Image' = [i \in 1..(n + 1) |-> [val |-> journal'[i].val, pass |-> journal'[i].sid]]
    BY <1>4 DEF Image
  <2>2. Append(Image, c) = [i \in 1..(n + 1) |-> IF i = n + 1 THEN c ELSE Image[i]]
    <3> DEFINE longer == Append(Image, c)
    <3>1. /\ longer \in Seq([val : Data, pass : Nat]) /\ Len(longer) = n + 1
          /\ longer[n + 1] = c /\ \A i \in 1..n : longer[i] = Image[i]
      BY <1>6, <1>9
    <3> HIDE DEF longer
    <3>2. longer = [i \in 1..(n + 1) |-> longer[i]]
      BY <3>1
    <3>3. ASSUME NEW i \in 1..(n + 1)
          PROVE  longer[i] = IF i = n + 1 THEN c ELSE Image[i]
      BY <3>1
    <3> QED
      BY <3>2, <3>3 DEF longer
  <2>3. ASSUME NEW i \in 1..(n + 1)
        PROVE  [val |-> journal'[i].val, pass |-> journal'[i].sid]
                 = IF i = n + 1 THEN c ELSE Image[i]
    <3>1. CASE i = n + 1
      BY <1>4, <1>7, <3>1 DEF c
    <3>2. CASE i \in 1..n
      <4>1. Image[i] = [val |-> journal[i].val, pass |-> journal[i].sid]
        BY <1>3, <3>2 DEF Image
      <4> QED
        BY <1>4, <3>2, <4>1
    <3> QED
      BY <3>1, <3>2
  <2> QED
    BY <2>1, <2>2, <2>3
<1>11. Image' # <<>> /\ Image'[Len(Image')] = c
  BY <1>6, <1>9, <1>10
<1>12. \A i \in 1..Len(Image) : Image[i].pass <= c.pass
  BY <1>3, <1>7, <1>8, <1>9 DEF Dated
<1>13. Claim = "none" /\ Claim' = Claim /\ Digest' = Digest
  BY <1>2 DEF Claim, Digest, Sealed
<1>14. Promise!Commit(c)
  BY <1>5, <1>6, <1>9, <1>10, <1>12, <1>13 DEF Promise!Commit, Promise!Chunk
<1> QED
  BY <1>11, <1>14 DEF Promise!Next

\* The seal of the artifact seals the image.
LEMMA SealSeals ==
  ASSUME IInv, Sealing, OneSession, ContinuousIsOnePass, Seal, saved' = SealedState
  PROVE  Promise!Next
<1>1. TypeOK /\ pc = "seal" /\ UNCHANGED journal
  BY DEF IInv, Seal, files
<1>2. /\ AuditChunks /\ Len(journal) = state.next /\ Len(journal) = N /\ N \in Nat
  BY <1>1, ChunksAssumption DEF Seal, SealRefused, Sealing
<1>3. /\ SealedState.status \in Verified /\ SealedState.logical = HashLogical(N)
      /\ saved.status \notin Verified
  BY <1>1, <1>2, SealedFields DEF Sealing
<1>4. Claim = "none" /\ Claim' = SealedState.status /\ Digest' = HashLogical(N)
  BY <1>3 DEF Claim, Digest, Sealed
<1>5. Image' = Image /\ Len(Image) = N
      /\ \A i \in 1..N : Image[i].val = journal[i].val /\ Image[i].pass = journal[i].sid
  BY <1>1, <1>2, ImageFields DEF Image
<1>6. HashLogical(N) = [i \in 1..Len(Image) |-> Image[i].val]
  BY <1>2, <1>5 DEF HashLogical, AuditChunks
<1>7. ASSUME SealedState.status = "verified_continuous"
      PROVE  \A i, j \in 1..Len(Image) : Image[i].pass = Image[j].pass
  <2>1. ContinuousIsOnePass'
    BY SealIsOnePass
  <2>2. PICK k : \A j \in 1..N : journal'[j].sid = sessions'[k].id
    BY <1>7, <2>1 DEF ContinuousIsOnePass
  <2> QED
    BY <1>1, <1>5, <2>2
<1>8. Promise!Seal(SealedState.status)
  BY <1>4, <1>5, <1>6, <1>7 DEF Promise!Seal, Promise!OnePass
<1> QED
  BY <1>3, <1>8 DEF Promise!Next, Promise!Claims, Verified

LEMMA StepImplements ==
  ASSUME IInv, Sealing, PassInv, ImageInv, Dated, [Next]_vars, "kept" \notin AppendFaults
  PROVE  Promise!Next \/ UNCHANGED <<Image, Claim, Digest>>
<1>1. TypeOK
  BY DEF IInv
<1>2. CASE UNCHANGED <<raw, journal, torn, saved>>
  BY <1>2, Stutters
<1>3. CASE saved.status \notin Verified /\ saved'.status \notin Verified
  <2>1. CASE journal' = journal
    BY <1>3, <2>1, Stutters
  <2>2. CASE AppendChunk
    BY <1>3, <2>2, AppendCommits DEF PassInv
  <2>3. CASE AppendFails
    <3>1. journal' = journal
      BY <2>3 DEF AppendFails
    <3> QED
      BY <1>3, <3>1, Stutters
  <2> QED
    BY <2>1, <2>2, <2>3, JournalChanges
<1>4. CASE Seal
  <2>1. journal' = journal
    BY <1>4 DEF Seal, files
  <2>2. CASE saved' = SealedState
    BY <1>4, <2>2, SealSeals DEF PassInv
  <2>3. CASE saved' = saved
    BY <2>1, <2>3, Stutters
  <2> QED
    BY <1>4, <2>2, <2>3 DEF Seal, SaveState, SaveStateFails
<1> QED
  BY <1>1, <1>2, <1>3, <1>4, StepLeavesSealAlone DEF LeavesSealAlone

-----------------------------------------------------------------------------
\* The theorems.

LEMMA ManifestInvariance == Spec => [](SavedBehind /\ ManifestInv)
<1>1. Init => SavedBehind /\ ManifestInv
  <2> SUFFICES ASSUME Init PROVE SavedBehind /\ ManifestInv
    OBVIOUS
  <2>1. saved = NoState /\ manifest = NoState /\ pc = "down"
    BY DEF Init
  <2>2. NoState.next = 0 /\ NoState.logical = <<>>
    BY DEF NoState
  <2>3. HashLogical(0) = <<>>
    BY DEF HashLogical
  <2>4. manifest.logical = HashLogical(manifest.next)
    BY <2>1, <2>2, <2>3
  <2> QED
    BY <2>1, <2>2, <2>4 DEF SavedBehind, ManifestInv, ManifestNeverOverclaims, Outside
<1>2. IInv /\ Sealing /\ SavedBehind /\ ManifestInv /\ [Next]_vars
        => SavedBehind' /\ ManifestInv'
  BY SavedForward, StepManifestInv
<1> QED
  BY <1>1, <1>2, Invariance, PTL DEF Spec

\* The manifest never claims more than the artifact holds, whatever fails, is
\* torn or is appended twice: a verified manifest is the saved state, and any
\* other digests a part of the image that no later session rewrites.
THEOREM ManifestIsBacked == Spec => []ManifestNeverOverclaims
<1>1. ManifestInv => ManifestNeverOverclaims
  BY DEF ManifestInv
<1> QED
  BY <1>1, ManifestInvariance, PTL

LEMMA ImageInvariance ==
  ASSUME "kept" \notin AppendFaults
  PROVE  Spec => []ImageInv
<1>1. Init => ImageInv
  BY DEF Init, ImageInv, Matched, Outside
<1>2. IInv /\ SavedBehind /\ ImageInv /\ [Next]_vars => ImageInv'
  BY StepImageInv
<1> QED
  BY <1>1, <1>2, Invariance, ManifestInvariance, PTL DEF Spec

\* Committed evidence is append-only, if a failed append does not leave its
\* whole record behind: no step removes or changes a record or its bytes.
THEOREM CommittedIsFinal ==
  ASSUME "kept" \notin AppendFaults
  PROVE  Spec => CommittedNeverRewritten
<1>1. IInv /\ SavedBehind /\ ImageInv /\ [Next]_vars
        => [ /\ Len(journal) <= Len(journal')
             /\ \A i \in 1..Len(journal) :
                  /\ journal'[i] = journal[i]
                  /\ raw'[journal[i].off] = raw[journal[i].off] ]_<<raw, journal>>
  BY StepIsAppendOnly
<1> QED
  BY <1>1, Invariance, ManifestInvariance, ImageInvariance, PTL DEF Spec, CommittedNeverRewritten

\* What an invocation leaves behind can be resumed, if a failed append leaves
\* nothing behind: the journal audits and is not behind state.json.
THEOREM AlwaysResumable ==
  ASSUME AppendFaults \subseteq {"lost"}
  PROVE  Spec => []Resumable
<1>1. Init => ~torn
  BY DEF Init
<1>2. IInv /\ ~torn /\ [Next]_vars => ~torn'
  BY JournalDecodes
<1>3. IInv /\ ImageInv /\ ~torn => Resumable
  BY Offsets DEF ImageInv, Matched, Resumable, AuditChunks
<1>4. "kept" \notin AppendFaults
  OBVIOUS
<1> QED
  BY <1>1, <1>2, <1>3, <1>4, Invariance, ImageInvariance, PTL DEF Spec

LEMMA PassInvariance == Spec => []PassInv
<1>1. Init => PassInv
  <2> SUFFICES ASSUME Init PROVE PassInv
    OBVIOUS
  <2>1. saved = NoState /\ state = NoState /\ session = NoSession /\ sessions = <<>>
        /\ pc = "down"
    BY DEF Init
  <2>2. NoState.next = 0 /\ NoState.status = "none" /\ NoSession.bytes = 0
    BY DEF NoState, NoSession
  <2> QED
    BY <2>1, <2>2 DEF PassInv, Counted, Delivered, Weighed, OneSession, ContinuousIsOnePass,
       Receiving, Handling
<1>2. IInv /\ Sealing /\ SavedBehind /\ PassInv /\ [Next]_vars => PassInv'
  BY StepPassInv
<1> QED
  BY <1>1, <1>2, Invariance, ManifestInvariance, PTL DEF Spec

\* verified_continuous means one uninterrupted session, whatever fails, is torn
\* or is appended twice: every chunk carries its identifier, its record is the
\* only one with bytes, and the digest of its stream is that of the image.
THEOREM ContinuousOnePass == Spec => []ContinuousIsOnePass
<1>1. PassInv => ContinuousIsOnePass
  BY DEF PassInv
<1> QED
  BY <1>1, PassInvariance, PTL

LEMMA DatedInvariance == Spec => []Dated
<1>1. Init => Dated
  BY DEF Init, Dated, NoSession
<1>2. IInv /\ PassInv /\ Dated /\ [Next]_vars => Dated'
  BY StepDated DEF PassInv
<1> QED
  BY <1>1, <1>2, Invariance, PassInvariance, PTL DEF Spec

\* The acquisition implements VerifiedImage, if a failed append does not leave
\* its whole record behind: every step appends one chunk of the newest session
\* to the image, seals the complete image with its own digest, as continuous
\* only if one session read all of it, or changes nothing an examiner sees.
THEOREM ImplementsPromise ==
  ASSUME "kept" \notin AppendFaults
  PROVE  Spec => ImplementsVerifiedImage
<1>1. Init => Promise!Init
  BY DEF Init, Promise!Init, Image, Claim, Digest, Sealed, NoState, Verified
<1>2. IInv /\ Sealing /\ PassInv /\ ImageInv /\ Dated /\ [Next]_vars
        => [Promise!Next]_(Promise!vars)
  BY StepImplements DEF Promise!vars
<1> QED
  BY <1>1, <1>2, Invariance, PassInvariance, ImageInvariance, DatedInvariance, PTL
     DEF Spec, ImplementsVerifiedImage, Promise!Spec
=============================================================================
