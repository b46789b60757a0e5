---------------------------- MODULE Acquisition ----------------------------
(***************************************************************************)
(* The acquisition of one disk artifact: acquireArtifact and               *)
(* transferSession of the controller, the stream command of the agent that *)
(* reads the source, the transport between them, and the files of the      *)
(* artifact directory (RAW segments, chunks.jsonl, state.json,             *)
(* sessions.jsonl, artifact-manifest.json), over several invocations of    *)
(* `imajer acquire` / `imajer resume`, any of which may crash.             *)
(*                                                                         *)
(* Abstractions.  Offsets count chunks, so the source has N of them.  A    *)
(* SHA-256 digest is the hashed content itself (no collisions).  The       *)
(* source is live: every read of a chunk may return any element of Data.   *)
(* Frames are whole chunks (sub-frames are another component).  The agent  *)
(* is stop-and-wait, so the header of the frame on the wire is a function  *)
(* of the agent's variables (FrameOffset, FramePayload).  A timestamp, an  *)
(* error text, the retry counter, the provider name and the event log are  *)
(* left out.                                                               *)
(***************************************************************************)
EXTENDS Naturals, Sequences

CONSTANTS
  N,             \* size of the source, in chunks
  Data,          \* contents a chunk of the source may have
  Junk,          \* content of a RAW range that was never completely written
  Transport,     \* "ssh", "winrm" or "local"
  MaxAttempts,   \* retry.max_attempts
  AppendFaults,  \* what a failed append to chunks.jsonl may leave behind
  MaxRuns,       \* bound: invocations of the program
  MaxFaults      \* bound: failures of the environment

ASSUME ChunksAssumption == N \in Nat \ {0}
ASSUME JunkAssumption == Junk \notin Data
ASSUME TransportAssumption == Transport \in {"ssh", "winrm", "local"}
ASSUME AttemptsAssumption == MaxAttempts \in Nat \ {0}
ASSUME FaultsAssumption == AppendFaults \subseteq {"lost", "kept", "torn"}
ASSUME BoundsAssumption == MaxRuns \in Nat /\ MaxFaults \in Nat

VARIABLES
  \* Files of the artifact directory; they survive a crash.
  raw,           \* the RAW segments, chunk by chunk
  journal,       \* the records of chunks.jsonl
  torn,          \* chunks.jsonl holds a line that does not decode
  saved,         \* state.json
  sessions,      \* the records of sessions.jsonl
  manifest,      \* the state recorded in artifact-manifest.json
  \* The controller process.
  pc,            \* where acquireArtifact or transferSession stands
  state,         \* the evidence.State in memory
  session,       \* the session record and local hash of transferSession
  failures,      \* failuresAtOffset
  retryOffset,   \* retryOffset
  logBroken,     \* the sticky error of the journal's bufio.Writer
  cancelled,     \* ctx is done
  result,        \* how the last acquireArtifact returned
  \* The transport and the agent at its other end.
  conn,          \* c.Transport can start a command
  agent,         \* the agent process of the current session
  wire,          \* the frame sent and not yet read by the controller
  acked,         \* a positive acknowledgement is on its way to the agent
  \* Counters.
  passes,        \* session identifiers handed out so far
  runs,          \* invocations so far
  faults         \* environment failures so far

files   == <<raw, journal, torn, sessions, manifest>>
durable == <<files, saved>>
loopVars == <<failures, retryOffset, cancelled, result>>
process == <<state, session, loopVars, logBroken>>
link    == <<conn, agent, wire, acked>>
counters == <<passes, runs, faults>>
vars == <<durable, pc, process, link, counters>>

-----------------------------------------------------------------------------
\* Values.

Verified == {"verified_continuous", "chunk_verified_composite"}
Status == Verified \cup {"none", "running", "failed"}

\* evidence.State: status, next_offset, session_count, resumed,
\* remote_stream_sha256 and logical_sha256; "none" stands for no file.
State == [status : Status, next : Nat, count : Nat, resumed : BOOLEAN,
          remote : Seq(Data), logical : Seq(Data \cup {Junk})]

NoState == [status |-> "none", next |-> 0, count |-> 0, resumed |-> FALSE,
            remote |-> <<>>, logical |-> <<>>]

ChunkRecord == [off : Nat, val : Data, sid : Nat]

\* evidence.SessionRecord: a blank ID is 0; bytes is EndOffset - StartOffset.
SessionRecord == [id : Nat, bytes : Nat, ok : BOOLEAN]

Outcome == {"none", "open", "ok", "error"}
Session == [id : Nat, start : Nat, got : Seq(Data), bytes : Nat, outcome : Outcome]
NoSession == [id |-> 0, start |-> 0, got |-> <<>>, bytes |-> 0, outcome |-> "none"]

AgentPC == {"none", "read", "wait", "exit", "dead"}
Agent == [pc : AgentPC, start : Nat, next : Nat, sum : Seq(Data)]
NoAgent == [pc |-> "none", start |-> 0, next |-> 0, sum |-> <<>>]

Labels == {"down", "open", "loop", "recv", "write", "append", "save", "ack",
           "ended", "seal", "manifest", "retry", "exhausted", "backoff",
           "finalize", "finalManifest"}

Result == {"none", "ok", "unprepared", "storage", "journal", "mismatch",
           "identity", "unreachable", "exhausted", "cancelled"}

\* The header of the outstanding frame: protocol.Header.Offset and the chunk.
FrameOffset == agent.next
FramePayload == agent.sum[Len(agent.sum)]

-----------------------------------------------------------------------------
\* What is read back from the artifact directory.

\* HashLogical: the content of the first total chunks.
HashLogical(total) == [i \in 1..total |-> raw[i - 1]]

\* AuditChunks: every line decodes, offsets are contiguous, every chunk still
\* has the recorded digest.  Its EndOffset is then Len(journal).
AuditChunks ==
  /\ ~torn
  /\ \A i \in 1..Len(journal) :
       /\ journal[i].off = i - 1
       /\ i <= N
       /\ raw[i - 1] = journal[i].val

-----------------------------------------------------------------------------
\* Steps shared by the actions.

\* One failure of the environment.
Fault == faults < MaxFaults /\ faults' = faults + 1

\* evidence.SaveState: AtomicWrite replaces the whole file, or fails before
\* the rename (old content) or after it (new content, directory not synced).
SaveState(s) == saved' = s
SaveStateFails(s) == saved' \in {saved, s}

Disconnected(c) ==
  /\ conn' = c
  /\ agent' = NoAgent
  /\ wire' = "none"
  /\ acked' = FALSE

\* acquireArtifact returns; acquire cleans up, closes the transport and goes
\* on to finalize what is on disk.
Return(r) ==
  /\ pc' = "finalize"
  /\ result' = r
  /\ state' = NoState
  /\ session' = NoSession
  /\ failures' = 0
  /\ retryOffset' = 0
  /\ logBroken' = FALSE
  /\ UNCHANGED cancelled
  /\ Disconnected(FALSE)

\* transferSession returns an error without completing the session record.
Abort(s) ==
  /\ pc' = "ended"
  /\ state' = s
  /\ session' = [session EXCEPT !.outcome = "error"]
  /\ Disconnected(conn)
  /\ UNCHANGED <<loopVars>>

\* Defect: the early return for a sealed artifact is missing.
ResumesSealed == saved.status # "none"

\* There is a state file, and not the early return for a sealed artifact.
Resumes == saved.status \notin Verified \cup {"none"}

-----------------------------------------------------------------------------
Init ==
  /\ raw = [i \in 0..(N - 1) |-> Junk]
  /\ journal = <<>>
  /\ torn = FALSE
  /\ saved = NoState
  /\ sessions = <<>>
  /\ manifest = NoState
  /\ pc = "down"
  /\ state = NoState
  /\ session = NoSession
  /\ failures = 0
  /\ retryOffset = 0
  /\ logBroken = FALSE
  /\ cancelled = FALSE
  /\ result = "none"
  /\ conn = FALSE
  /\ agent = NoAgent
  /\ wire = "none"
  /\ acked = FALSE
  /\ passes = 0
  /\ runs = 0
  /\ faults = 0

-----------------------------------------------------------------------------
\* The invocation: controller.New, Prepare and the entry of acquireArtifact.

\* `imajer acquire` or `imajer resume` is started and Prepare succeeds.
Run ==
  /\ pc = "down" /\ runs < MaxRuns
  /\ pc' = "open"
  /\ conn' = TRUE
  /\ cancelled' = FALSE
  /\ result' = "none"
  /\ runs' = runs + 1
  /\ UNCHANGED <<durable, state, session, failures, retryOffset, logBroken>>
  /\ UNCHANGED <<agent, wire, acked, passes, faults>>

\* Acquire fails before it reaches the disk (Prepare, the space check).
RunUnprepared ==
  /\ pc = "down" /\ runs < MaxRuns
  /\ Fault
  /\ pc' = "finalize"
  /\ cancelled' = FALSE
  /\ result' = "unprepared"
  /\ runs' = runs + 1
  /\ UNCHANGED <<durable, state, session, failures, retryOffset, logBroken, link, passes>>

\* loadOrCreateState finds no state.json and writes the first one.
CreateState ==
  /\ pc = "open" /\ saved.status = "none"
  /\ LET s == [NoState EXCEPT !.status = "running"] IN
       \/ /\ SaveState(s)
          /\ state' = s
          /\ pc' = "loop"
          /\ UNCHANGED <<session, loopVars, logBroken, link, faults>>
       \/ Fault /\ SaveStateFails(s) /\ Return("storage")
  /\ UNCHANGED <<files, passes, runs>>

\* The artifact was sealed by an earlier invocation.
AlreadyVerified ==
  /\ pc = "open" /\ saved.status \in Verified
  /\ Return("ok")
  /\ UNCHANGED <<durable, counters>>

\* The journal does not audit, or state.json or the source size is behind it.
JournalRejected ==
  /\ pc = "open" /\ Resumes
  /\ ~AuditChunks \/ Len(journal) < saved.next \/ Len(journal) > N
  /\ Return("journal")
  /\ UNCHANGED <<durable, counters>>

\* Defect: a journal that is ahead of state.json is not followed.
OpenExistingUnrecovered ==
  /\ pc = "open" /\ Resumes
  /\ AuditChunks /\ saved.next <= Len(journal) /\ Len(journal) <= N
  /\ state' = saved
  /\ retryOffset' = saved.next
  /\ pc' = "loop"
  /\ UNCHANGED <<durable, session, failures, cancelled, result, logBroken, link, counters>>

\* The journal is not behind state.json; if it is ahead the state follows it.
OpenExisting ==
  /\ pc = "open" /\ Resumes
  /\ AuditChunks /\ saved.next <= Len(journal) /\ Len(journal) <= N
  /\ LET s == [saved EXCEPT !.next = Len(journal), !.resumed = TRUE] IN
       \/ /\ IF Len(journal) > saved.next
               THEN SaveState(s) /\ state' = s
               ELSE state' = saved /\ UNCHANGED saved
          /\ retryOffset' = Len(journal)
          /\ pc' = "loop"
          /\ UNCHANGED <<session, failures, logBroken, cancelled, result, link, faults>>
       \/ /\ Fault
          /\ IF Len(journal) > saved.next THEN SaveStateFails(s) ELSE UNCHANGED saved
          /\ Return("storage")
  /\ UNCHANGED <<files, passes, runs>>

-----------------------------------------------------------------------------
\* The head of the retry loop.

\* verifyDiskIdentity is called before a session that continues an image.
ChecksIdentity == Transport \in {"ssh", "winrm"} /\ state.next > 0

\* The identify command cannot be started, or it is interrupted, or it finds
\* another disk: acquireArtifact returns.
IdentityFails ==
  /\ pc = "loop" /\ ChecksIdentity
  /\ \/ ~conn /\ Return("unreachable") /\ UNCHANGED faults
     \/ conn /\ cancelled /\ Return("cancelled") /\ UNCHANGED faults
     \/ conn /\ Fault /\ Return("identity")
  /\ UNCHANGED <<durable, passes, runs>>

MarkResumed ==
  [state EXCEPT !.resumed = @ \/ (state.next > 0 /\ state.count > 0)]

\* Transport.Start runs the agent with --offset state.NextOffset.
StartSession ==
  /\ pc = "loop" /\ conn
  /\ ~(cancelled /\ Transport = "local")
  /\ pc' = "recv"
  /\ state' = MarkResumed
  /\ session' = [NoSession EXCEPT !.start = state.next, !.outcome = "open"]
  /\ agent' = [NoAgent EXCEPT !.pc = "read", !.start = state.next, !.next = state.next]
  /\ UNCHANGED <<durable, loopVars, logBroken, conn, wire, acked, counters>>

\* Transport.Start fails: there is no session to record.
StartFails ==
  /\ pc = "loop" /\ (ChecksIdentity => conn)
  /\ \/ (~conn \/ (cancelled /\ Transport = "local")) /\ UNCHANGED faults
     \/ conn /\ Fault
  /\ pc' = "retry"
  /\ state' = MarkResumed
  /\ UNCHANGED <<durable, session, loopVars, logBroken, link, passes, runs>>

-----------------------------------------------------------------------------
\* The agent: the stream command.

agentFrame == <<durable, pc, process, conn>>

\* Read the next chunk of the live source and send it as a data frame.
AgentReads ==
  /\ agent.pc = "read" /\ agent.next < N
  /\ \E d \in Data : agent' = [agent EXCEPT !.pc = "wait", !.sum = Append(@, d)]
  /\ wire' = "data"
  /\ UNCHANGED <<agentFrame, acked, counters>>

\* The whole range was sent: send the trailer and exit.
AgentFinishes ==
  /\ agent.pc = "read" /\ agent.next = N
  /\ agent' = [agent EXCEPT !.pc = "exit"]
  /\ wire' = "trailer"
  /\ UNCHANGED <<agentFrame, acked, counters>>

\* ReadAck returns the positive acknowledgement.
AgentAcknowledged ==
  /\ agent.pc = "wait" /\ acked
  /\ agent' = [agent EXCEPT !.pc = "read", !.next = @ + 1]
  /\ acked' = FALSE
  /\ UNCHANGED <<agentFrame, wire, counters>>

\* A read error, a short source, a failed handle.Close or a killed process:
\* the agent exits without a trailer.  What it wrote before may still arrive.
AgentFails ==
  /\ agent.pc \in {"read", "wait"}
  /\ Fault
  /\ agent' = [agent EXCEPT !.pc = "dead"]
  /\ acked' = FALSE
  /\ UNCHANGED <<agentFrame, wire, passes, runs>>

-----------------------------------------------------------------------------
\* The transport and the signal handler.

\* The connection is lost, with or without the frame on it.  A WinRM client
\* has no connection to lose: its next command opens a new shell.
LinkDrops ==
  /\ Transport # "local" /\ conn /\ pc # "down"
  /\ Fault
  /\ conn' = (Transport = "winrm")
  /\ agent' = IF agent.pc = "none" THEN agent ELSE [agent EXCEPT !.pc = "dead"]
  /\ wire' \in {wire, "none"}
  /\ acked' = FALSE
  /\ UNCHANGED <<durable, pc, process, passes, runs>>

\* The frame on the wire is damaged in a way the checks of transferSession see.
FrameDamaged ==
  /\ wire \in {"data", "trailer"}
  /\ Fault
  /\ wire' = "bad"
  /\ UNCHANGED <<durable, pc, process, conn, agent, acked, passes, runs>>

\* SIGINT, SIGTERM or the cancellation file.
Cancel ==
  /\ pc \notin {"down", "finalize", "finalManifest"} /\ ~cancelled
  /\ Fault
  /\ cancelled' = TRUE
  /\ UNCHANGED <<durable, pc, state, session, failures, retryOffset>>
  /\ UNCHANGED <<logBroken, result, link, passes, runs>>

\* The transport's goroutine kills the command of a cancelled session.
CancelKillsAgent ==
  /\ cancelled /\ agent.pc \in {"read", "wait"}
  /\ agent' = [agent EXCEPT !.pc = "dead"]
  /\ wire' \in {wire, "none"}
  /\ acked' = FALSE
  /\ UNCHANGED <<agentFrame, counters>>

-----------------------------------------------------------------------------
\* The receive loop of transferSession.

\* Defect: the session's byte count is taken the wrong way round.
CompletedReversed(o) ==
  [session EXCEPT !.bytes = session.start - state.next, !.outcome = o]

\* The session record is completed, as on a read error or at the trailer.
Completed(o) == [session EXCEPT !.bytes = state.next - session.start, !.outcome = o]

\* The first frame of a session names it; the state counts it and is saved.
CountSession ==
  /\ pc = "recv" /\ wire # "none" /\ session.id = 0
  /\ passes' = passes + 1
  /\ LET s == [state EXCEPT !.count = @ + 1]
         named == [session EXCEPT !.id = passes + 1]
     IN \/ /\ SaveState(s)
           /\ state' = s
           /\ session' = named
           /\ UNCHANGED <<pc, loopVars, link, faults>>
        \/ /\ Fault /\ SaveStateFails(s)
           /\ pc' = "ended"
           /\ state' = s
           /\ session' = [named EXCEPT !.outcome = "error"]
           /\ Disconnected(conn)
           /\ UNCHANGED <<loopVars>>
  /\ UNCHANGED <<files, logBroken, runs>>

\* Wrong identity, session, sequence, digest or metadata: refused.
RejectFrame ==
  /\ pc = "recv" /\ wire = "bad"
  /\ Abort(state)
  /\ UNCHANGED <<durable, logBroken, counters>>

\* A sound data frame that continues the image.
AcceptChunk ==
  /\ pc = "recv" /\ wire = "data" /\ session.id # 0
  /\ FrameOffset = state.next
  /\ pc' = "write"
  /\ wire' = "none"
  /\ UNCHANGED <<durable, process, conn, agent, acked, counters>>

\* SegmentedWriter.WriteAt, with its fsync.
WriteChunk ==
  /\ pc = "write"
  /\ \/ /\ raw' = [raw EXCEPT ![state.next] = FramePayload]
        /\ pc' = "append"
        /\ UNCHANGED <<state, session, loopVars, link, faults>>
     \/ /\ Fault
        /\ \E c \in {raw[state.next], Junk, FramePayload} :
             raw' = [raw EXCEPT ![state.next] = c]
        /\ Abort(state)
  /\ UNCHANGED <<journal, torn, saved, sessions, manifest, logBroken, passes, runs>>

Record == [off |-> state.next, val |-> FramePayload, sid |-> session.id]

\* Defect: the acknowledgement is sent before state.json is saved.
AppendChunkUnsaved ==
  /\ pc = "append" /\ ~logBroken
  /\ journal' = Append(journal, Record)
  /\ state' = [state EXCEPT !.next = @ + 1]
  /\ session' = [session EXCEPT !.got = Append(@, FramePayload)]
  /\ pc' = "ack"
  /\ UNCHANGED <<raw, torn, saved, sessions, manifest, loopVars, logBroken, link, counters>>

\* ChunkLog.Append, with its fsync; the local hash and NextOffset follow.
AppendChunk ==
  /\ pc = "append" /\ ~logBroken
  /\ journal' = Append(journal, Record)
  /\ state' = [state EXCEPT !.next = @ + 1]
  /\ session' = [session EXCEPT !.got = Append(@, FramePayload)]
  /\ pc' = "save"
  /\ UNCHANGED <<raw, torn, saved, sessions, manifest, loopVars, logBroken, link, counters>>

\* A failed append.  When the write fails, nothing or a part of the line is
\* in the file and the buffered writer refuses all later writes; when only
\* the fsync fails, the whole record is in the file ("kept").
AppendFails ==
  /\ pc = "append"
  /\ \/ logBroken /\ UNCHANGED <<journal, torn, logBroken, faults>>
     \/ /\ ~logBroken /\ Fault
        /\ \/ "lost" \in AppendFaults /\ logBroken' = TRUE /\ UNCHANGED <<journal, torn>>
           \/ /\ "torn" \in AppendFaults /\ torn' = TRUE /\ logBroken' = TRUE
              /\ UNCHANGED journal
           \/ /\ "kept" \in AppendFaults /\ journal' = Append(journal, Record)
              /\ UNCHANGED <<torn, logBroken>>
  /\ Abort(state)
  /\ UNCHANGED <<raw, saved, sessions, manifest, passes, runs>>

\* SaveState after the chunk is in the journal.
SaveProgress ==
  /\ pc = "save"
  /\ \/ /\ SaveState(state)
        /\ pc' = "ack"
        /\ UNCHANGED <<state, session, loopVars, link, faults>>
     \/ Fault /\ SaveStateFails(state) /\ Abort(state)
  /\ UNCHANGED <<files, logBroken, passes, runs>>

\* WriteAck(true).  To an agent that is gone the write fails or is lost.
SendAck ==
  /\ pc = "ack"
  /\ \/ /\ acked' = (agent.pc = "wait")
        /\ pc' = "recv"
        /\ UNCHANGED <<state, session, loopVars, conn, agent, wire>>
     \/ agent.pc = "dead" /\ Abort(state)
  /\ UNCHANGED <<durable, logBroken, counters>>

\* The agent's exit status: a WinRM command whose shell is lost reports 0.
ExitedCleanly == agent.pc = "exit"
ExitUnknown == agent.pc = "dead"

\* What the trailer is compared with.
TrailerMatches ==
  /\ agent.next = state.next
  /\ agent.next - agent.start = state.next - session.start
  /\ session.got = agent.sum
  /\ state.next = N

ReadTrailer ==
  /\ pc = "recv" /\ wire = "trailer" /\ session.id # 0
  /\ \/ /\ ExitedCleanly \/ (ExitUnknown /\ Transport = "winrm")
        /\ TrailerMatches
        /\ session' = Completed("ok")
        /\ state' = IF state.count = 1 THEN [state EXCEPT !.remote = agent.sum] ELSE state
     \/ /\ ~TrailerMatches \/ ExitUnknown
        /\ session' = Completed("error")
        /\ UNCHANGED state
  /\ pc' = "ended"
  /\ Disconnected(conn)
  /\ UNCHANGED <<durable, loopVars, logBroken, counters>>

\* Defect: the end of the stream of a dead agent is not noticed.
ReadFailsOnTimeoutOnly ==
  /\ pc = "recv"
  /\ Fault
  /\ pc' = "ended"
  /\ session' = Completed("error")
  /\ Disconnected(conn)
  /\ UNCHANGED <<durable, state, loopVars, logBroken, passes, runs>>

\* readFrameWithTimeout fails: end of the stream, or the chunk timeout, which
\* may race with a frame that is on its way.
ReadFails ==
  /\ pc = "recv"
  /\ \/ agent.pc = "dead" /\ wire = "none" /\ UNCHANGED faults
     \/ Fault
  /\ pc' = "ended"
  /\ session' = Completed("error")
  /\ Disconnected(conn)
  /\ UNCHANGED <<durable, state, loopVars, logBroken, passes, runs>>

-----------------------------------------------------------------------------
\* The rest of the retry loop of acquireArtifact.

SessionEntry ==
  [id |-> session.id, bytes |-> session.bytes, ok |-> session.outcome = "ok"]

\* Defect: only failed sessions are recorded.
RecordFailedSession ==
  /\ pc = "ended"
  /\ sessions' = IF session.outcome = "ok" THEN sessions ELSE Append(sessions, SessionEntry)
  /\ pc' = IF session.outcome = "ok" THEN "seal" ELSE "retry"
  /\ session' = NoSession
  /\ UNCHANGED <<raw, journal, torn, saved, manifest>>
  /\ UNCHANGED <<state, loopVars, logBroken, link, counters>>

\* AppendSession; a record that cannot be written ends the acquisition.
RecordSession ==
  /\ pc = "ended"
  /\ \/ /\ sessions' = Append(sessions, SessionEntry)
        /\ pc' = IF session.outcome = "ok" THEN "seal" ELSE "retry"
        /\ session' = NoSession
        /\ UNCHANGED <<state, loopVars, logBroken, link, faults>>
     \/ /\ Fault
        /\ sessions' \in {sessions, Append(sessions, SessionEntry)}
        /\ Return("storage")
  /\ UNCHANGED <<raw, journal, torn, saved, manifest, passes, runs>>

\* Continuous: one session delivered everything, so its stream hash can be
\* compared with the independent hash of the segments.
Continuous == ~state.resumed /\ state.count = 1

\* Defect: the digest of the partial image, from an earlier finalization, stays.
SealedStateStaleDigest ==
  [state EXCEPT !.status = IF Continuous THEN "verified_continuous"
                                         ELSE "chunk_verified_composite"]

SealedState ==
  [state EXCEPT !.logical = HashLogical(state.next),
                !.status = IF Continuous THEN "verified_continuous"
                                         ELSE "chunk_verified_composite"]

\* Defect: the journal is not audited again before the artifact is sealed.
SealRefusedUnaudited == Continuous /\ HashLogical(state.next) # state.remote

SealRefused ==
  \/ ~AuditChunks \/ Len(journal) # state.next
  \/ Continuous /\ HashLogical(state.next) # state.remote

\* Defect: the manifest is written before state.json.
SealManifestFirst ==
  /\ pc = "seal" /\ ~SealRefused
  /\ manifest' = SealedState
  /\ \/ /\ SaveState(SealedState)
        /\ state' = SealedState
        /\ pc' = "manifest"
        /\ UNCHANGED <<session, loopVars, logBroken, link, faults>>
     \/ Fault /\ SaveStateFails(SealedState) /\ Return("storage")
  /\ UNCHANGED <<raw, journal, torn, sessions, passes, runs>>

\* The session succeeded: re-hash, audit, classify and save the final state.
Seal ==
  /\ pc = "seal" /\ ~SealRefused
  /\ \/ /\ SaveState(SealedState)
        /\ state' = SealedState
        /\ pc' = "manifest"
        /\ UNCHANGED <<session, loopVars, logBroken, link, faults>>
     \/ Fault /\ SaveStateFails(SealedState) /\ Return("storage")
  /\ UNCHANGED <<files, passes, runs>>

RefuseSeal ==
  /\ pc = "seal" /\ SealRefused
  /\ Return(IF AuditChunks /\ Len(journal) = state.next THEN "mismatch" ELSE "journal")
  /\ UNCHANGED <<durable, counters>>

WriteManifest ==
  /\ pc = "manifest"
  /\ \/ manifest' = state /\ Return("ok") /\ UNCHANGED faults
     \/ Fault /\ manifest' \in {manifest, state} /\ Return("storage")
  /\ UNCHANGED <<raw, journal, torn, saved, sessions, passes, runs>>

\* Failures at the offset the artifact now stands at, this one included.
FailuresHere == IF state.next # retryOffset THEN 1 ELSE failures + 1

\* Defect: the offset in memory is taken back to that of state.json.
RetryRolledBack ==
  /\ pc = "retry"
  /\ state' = saved
  /\ failures' = FailuresHere
  /\ retryOffset' = saved.next
  /\ pc' = IF FailuresHere >= MaxAttempts THEN "exhausted" ELSE "backoff"
  /\ UNCHANGED <<durable, session, cancelled, result, logBroken, link, counters>>

\* The session failed: save the state and charge the retry budget.
Retry ==
  /\ pc = "retry"
  /\ \/ /\ SaveState(state)
        /\ failures' = FailuresHere
        /\ retryOffset' = state.next
        /\ pc' = IF FailuresHere >= MaxAttempts THEN "exhausted" ELSE "backoff"
        /\ UNCHANGED <<state, session, logBroken, cancelled, result, link, faults>>
     \/ Fault /\ SaveStateFails(state) /\ Return("storage")
  /\ UNCHANGED <<files, passes, runs>>

\* The budget is spent: the artifact is failed, "disk remains resumable".
GiveUp ==
  /\ pc = "exhausted"
  /\ LET s == [state EXCEPT !.status = "failed"] IN
       \/ SaveState(s) /\ Return("exhausted") /\ UNCHANGED faults
       \/ Fault /\ SaveStateFails(s) /\ Return("storage")
  /\ UNCHANGED <<files, passes, runs>>

\* The backoff delay is cut short by a cancelled context.
BackoffCancelled ==
  /\ pc = "backoff" /\ cancelled
  /\ Return("cancelled")
  /\ UNCHANGED <<durable, counters>>

\* reconnectTransport closes the old transport and opens a new one.
Reconnect ==
  /\ pc = "backoff" /\ ~cancelled
  /\ pc' = "loop"
  /\ conn' = TRUE
  /\ UNCHANGED <<durable, process, agent, wire, acked, counters>>

\* It cannot: the error is saved and logged and the loop goes on with the
\* transport it has just closed.
ReconnectFails ==
  /\ pc = "backoff" /\ ~cancelled /\ Transport = "ssh"
  /\ Fault
  /\ \/ /\ pc' = "loop"
        /\ conn' = FALSE
        /\ UNCHANGED <<process, agent, wire, acked>>
     \/ Return("storage")
  /\ UNCHANGED <<durable, passes, runs>>

-----------------------------------------------------------------------------
\* After acquireArtifact: acquire finalizes what is on disk.

NeedsFinalizing ==
  /\ Resumes
  /\ AuditChunks /\ Len(journal) = saved.next

\* No state file, a sealed artifact, or a journal that disagrees with it.
NothingToFinalize ==
  /\ pc = "finalize" /\ ~NeedsFinalizing
  /\ pc' = "down"
  /\ UNCHANGED <<durable, process, link, counters>>

\* FinalizeNonCompleteArtifact: hash what is committed and save the state.
FinalizeState ==
  /\ pc = "finalize" /\ NeedsFinalizing
  /\ LET s == [saved EXCEPT !.logical = HashLogical(saved.next)] IN
       \/ SaveState(s) /\ pc' = "finalManifest" /\ UNCHANGED faults
       \/ Fault /\ SaveStateFails(s) /\ pc' = "down"
  /\ UNCHANGED <<files, process, link, passes, runs>>

FinalizeManifest ==
  /\ pc = "finalManifest"
  /\ pc' = "down"
  /\ \/ manifest' = saved /\ UNCHANGED faults
     \/ Fault /\ manifest' \in {manifest, saved}
  /\ UNCHANGED <<raw, journal, torn, saved, sessions, process, link, passes, runs>>

-----------------------------------------------------------------------------
\* The process is killed or the machine stops.  A RAW write may be half done,
\* and so may a line of the journal; the atomic files are old or new.
Crash ==
  /\ pc # "down"
  /\ Fault
  /\ IF pc = "write"
       THEN \E c \in {raw[state.next], Junk, FramePayload} :
              raw' = [raw EXCEPT ![state.next] = c]
       ELSE UNCHANGED raw
  /\ torn' \in {torn, torn \/ (pc = "append" /\ ~logBroken /\ "torn" \in AppendFaults)}
  /\ pc' = "down"
  /\ state' = NoState /\ session' = NoSession
  /\ failures' = 0 /\ retryOffset' = 0 /\ logBroken' = FALSE
  /\ cancelled' = FALSE /\ result' = "none"
  /\ Disconnected(FALSE)
  /\ UNCHANGED <<journal, saved, sessions, manifest, passes, runs>>

\* Nobody resumes any more.
Idle ==
  /\ pc = "down" /\ runs = MaxRuns
  /\ UNCHANGED vars

Invocation == Run \/ RunUnprepared \/ CreateState \/ AlreadyVerified
                \/ JournalRejected \/ OpenExisting
AgentStep == AgentReads \/ AgentFinishes \/ AgentAcknowledged
Receive == CountSession \/ RejectFrame \/ AcceptChunk \/ WriteChunk
             \/ AppendChunk \/ AppendFails \/ SaveProgress \/ SendAck
             \/ ReadTrailer \/ ReadFails
Loop == IdentityFails \/ StartSession \/ StartFails \/ RecordSession
          \/ Seal \/ RefuseSeal \/ WriteManifest \/ Retry \/ GiveUp
          \/ BackoffCancelled \/ Reconnect \/ ReconnectFails
Finalize == NothingToFinalize \/ FinalizeState \/ FinalizeManifest
Environment == AgentFails \/ LinkDrops \/ FrameDamaged \/ Cancel
                 \/ CancelKillsAgent \/ Crash

Next == Invocation \/ Receive \/ Loop \/ Finalize \/ AgentStep \/ Environment \/ Idle

Spec == Init /\ [][Next]_vars

-----------------------------------------------------------------------------
\* Fairness.  The controller is sequential code and takes its next step; a
\* read ends at the latest with the chunk timeout, so the agent and the link
\* need no fairness of their own beyond delivering what they can.  Failures are
\* never fair: they may happen, and MaxFaults bounds how often.

\* A started invocation always goes on, and so does a live agent.
Progress == Invocation \/ Receive \/ Loop \/ Finalize \/ AgentStep

\* The steps of an invocation that is already running.
Working == pc # "down" /\ Progress

RunFairness == WF_vars(Working)

\* In addition the examiner runs `imajer resume` again after a failure.
ResumeFairness == RunFairness /\ WF_vars(Run)

FairSpec == Spec /\ ResumeFairness

-----------------------------------------------------------------------------
\* Properties.

\* The contents recorded in the journal, in order.
Journaled == [i \in 1..Len(journal) |-> journal[i].val]

\* Every variable has the values its Go type and the control flow allow.
TypeOK ==
  /\ raw \in [0..(N - 1) -> Data \cup {Junk}]
  /\ journal \in Seq(ChunkRecord) /\ torn \in BOOLEAN
  /\ saved \in State /\ manifest \in State /\ state \in State
  /\ sessions \in Seq(SessionRecord) /\ session \in Session
  /\ pc \in Labels /\ result \in Result
  /\ failures \in Nat /\ retryOffset \in Nat
  /\ logBroken \in BOOLEAN /\ cancelled \in BOOLEAN
  /\ conn \in BOOLEAN /\ acked \in BOOLEAN
  /\ agent \in Agent /\ wire \in {"none", "data", "trailer", "bad"}
  /\ passes \in Nat /\ runs \in Nat /\ faults \in Nat

\* The commit order RAW, journal, state, acknowledgement: state.json is never
\* ahead of the journal, a session starts at or below the saved offset, and a
\* chunk is acknowledged only when state.json covers it, whatever fails or
\* crashes in between (transferSession, lines 942 to 963).
AcknowledgedIsDurable ==
  /\ saved.next <= Len(journal)
  /\ agent.pc # "none" => agent.next <= saved.next
  /\ acked => agent.next < saved.next

\* What an invocation leaves behind can be resumed: the journal audits against
\* the segments and is not behind state.json (AuditChunks and lines 607 to 616).
Resumable ==
  saved.status # "none" => AuditChunks /\ saved.next <= Len(journal)

\* A sealed artifact is the whole source, its journal audits, and the recorded
\* logical digest is that of the journaled chunks (lines 667 to 691).
SealedIsComplete ==
  saved.status \in Verified =>
    /\ AuditChunks
    /\ Len(journal) = N /\ saved.next = N
    /\ saved.logical = Journaled

\* verified_continuous means one uninterrupted session: every chunk carries its
\* identifier, its record is the only one with bytes, it covers the whole
\* source, and the remote stream digest is that of the image (lines 679 to 684).
ContinuousIsOnePass ==
  saved.status = "verified_continuous" =>
    /\ saved.remote = Journaled
    /\ \E i \in 1..Len(sessions) :
         /\ sessions[i].ok /\ sessions[i].bytes = N
         /\ \A j \in 1..N : journal[j].sid = sessions[i].id
         /\ \A j \in 1..Len(sessions) : j # i => sessions[j].bytes = 0

\* The manifest never claims more than the artifact holds: a verified manifest
\* is the saved state, and any other still digests a prefix of the image, also
\* after later sessions have continued it (lines 66 to 86 and 691 to 697).
ManifestNeverOverclaims ==
  /\ manifest.status \in Verified => manifest = saved
  /\ manifest.next <= saved.next
  /\ manifest.logical = HashLogical(manifest.next)

\* Committed evidence is append-only: no step removes or changes a journal
\* record or rewrites the bytes it describes.
CommittedNeverRewritten ==
  [][ /\ Len(journal) <= Len(journal')
      /\ \A i \in 1..Len(journal) :
           /\ journal'[i] = journal[i]
           /\ raw'[journal[i].off] = raw[journal[i].off] ]_<<raw, journal>>

\* A sealed artifact is never touched again, by no retry, resume, crash or
\* finalization (the early returns at line 604 and line 57).
SealedIsFinal ==
  [][saved.status \in Verified => UNCHANGED <<raw, journal, torn, saved>>]_durable

\* Every invocation ends, whatever fails during it: the retry budget of an
\* offset is finite and only progress renews it.
RunTerminates == pc # "down" ~> pc = "down"

\* If the examiner keeps resuming and the environment eventually stops failing,
\* the disk is eventually verified: no failure makes the artifact stuck.
EventuallyVerified == <>(saved.status \in Verified)

\* What the message of line 737 promises: after the budget is spent the disk
\* remains resumable.
ExhaustedRemainsResumable ==
  pc = "down" /\ result = "exhausted" => AuditChunks

\* The retry budget is applied to the unverified offset: while attempts are left
\* and nobody cancels, a target that cannot be reached for a moment does not end
\* the acquisition at the head of the loop (lines 649 and 756 to 771).
UnreachableSpendsBudget ==
  [][pc = "loop" /\ ~conn /\ ~cancelled /\ failures < MaxAttempts
       => pc' # "finalize"]_vars

\* A completed artifact has its artifact-manifest.json.
CompletedHasManifest ==
  pc = "down" /\ result = "ok" => manifest = saved

-----------------------------------------------------------------------------
\* The abstraction the acquisition implements when a failed append leaves no
\* trace in chunks.jsonl: the journal is the image, the saved status its seal.

Sealed == saved.status \in Verified

Image == [i \in 1..Len(journal) |-> [val |-> journal[i].val, pass |-> journal[i].sid]]
Claim == IF Sealed THEN saved.status ELSE "none"
Digest == IF Sealed THEN saved.logical ELSE <<>>

Promise == INSTANCE VerifiedImage WITH image <- Image, claim <- Claim, digest <- Digest

\* Every step appends one chunk of the newest session to the image, seals the
\* complete image with its own digest, or changes nothing an examiner sees.
ImplementsVerifiedImage == Promise!Spec
=============================================================================
