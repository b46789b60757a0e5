----------------------------- MODULE RamAttempts ----------------------------
(***************************************************************************)
(* The acquisition of live memory: acquireRAM with its attempts, each in a *)
(* directory memory-attempt-NNN of its own, acquireArtifact as it runs for *)
(* a RAM artifact, and what `imajer acquire` finalizes afterwards, over    *)
(* several invocations of the program, any of which may crash.             *)
(*                                                                         *)
(* Abstractions.  Memory has N chunks and changes all the time, so what    *)
(* one session reads is told apart from every other reading by the         *)
(* session's identifier; a digest is the content it digests.  The frames,  *)
(* their acknowledgements and the RAW segments are those of Acquisition;   *)
(* here a chunk is committed in two steps, to the journal and to           *)
(* state.json.  The provider and its fallback, the session records, the    *)
(* report and a disk acquired after the memory are left out.               *)
(***************************************************************************)
EXTENDS Naturals, Sequences

CONSTANTS
  N,               \* chunks of memory
  Transport,       \* "ssh", "winrm" or "local"
  MaxRAMAttempts,  \* attempts of one invocation
  MaxRuns,         \* bound: invocations of the program
  MaxFaults        \* bound: failures of the environment

ASSUME ChunksAssumption == N \in Nat \ {0}
ASSUME TransportAssumption == Transport \in {"ssh", "winrm", "local"}
ASSUME AttemptsAssumption == MaxRAMAttempts \in Nat \ {0}
ASSUME BoundsAssumption == MaxRuns \in Nat /\ MaxFaults \in Nat

VARIABLES
  attempts,   \* the attempt directories, in the order of their numbers
  pc,         \* where acquireRAM, acquireArtifact or acquire stands
  cur,        \* the directory of the current attempt
  attempt,    \* the loop variable of acquireRAM
  state,      \* the evidence.State in memory
  session,    \* transferSession: identifier, local hash, how it ended
  conn,       \* c.Transport can start a command
  cancelled,  \* ctx is done
  result,     \* what the invocation returns
  index,      \* the artifact that acquire finalizes
  passes,     \* session identifiers handed out so far
  runs,       \* invocations so far
  faults      \* environment failures so far

memory == <<cur, attempt, state, session>>
counters == <<passes, runs, faults>>
vars == <<attempts, pc, memory, conn, cancelled, result, index, counters>>

-----------------------------------------------------------------------------
Verified == {"verified_continuous", "chunk_verified_composite"}
Status == Verified \cup {"none", "running", "incomplete"}

\* evidence.State; "none" stands for no file.  Every chunk is named by the
\* session that read it.
State == [status : Status, next : Nat, count : Nat, resumed : BOOLEAN,
          remote : Seq(Nat), logical : Seq(Nat)]
NoState == [status |-> "none", next |-> 0, count |-> 0, resumed |-> FALSE,
            remote |-> <<>>, logical |-> <<>>]

\* An attempt directory: state.json, chunks.jsonl, artifact-manifest.json.
Attempt == [saved : State, journal : Seq(Nat), torn : BOOLEAN, manifest : State]
NoAttempt == [saved |-> NoState, journal |-> <<>>, torn |-> FALSE, manifest |-> NoState]

Session == [id : Nat, got : Seq(Nat), ok : BOOLEAN]
NoSession == [id |-> 0, got |-> <<>>, ok |-> FALSE]

Labels == {"down", "next", "create", "start", "stream", "save", "record", "failed",
           "seal", "manifest", "log", "mark", "backoff", "load", "finalize",
           "finalManifest"}

Init ==
  /\ attempts = <<>>
  /\ pc = "down"
  /\ cur = 0 /\ attempt = 0
  /\ state = NoState
  /\ session = NoSession
  /\ conn = FALSE
  /\ cancelled = FALSE
  /\ result = "none"
  /\ index = 0
  /\ passes = 0 /\ runs = 0 /\ faults = 0

-----------------------------------------------------------------------------
\* Steps shared by the actions.

Fault == faults < MaxFaults /\ faults' = faults + 1
NoFault == UNCHANGED faults

\* evidence.SaveState of an attempt: the old content or the new one, whole.
Save(i, s) == attempts' = [attempts EXCEPT ![i].saved = s]
SaveFails(i, s) == Save(i, s) \/ UNCHANGED attempts

\* AuditChunks accepts the journal, and it ends where the offset says.
Audits(a, next) == ~a.torn /\ Len(a.journal) = next

HashLogical(a, total) == SubSeq(a.journal, 1, total)

\* acquireRAM returns.
Return(r) == pc' = "load" /\ result' = r

-----------------------------------------------------------------------------
\* The invocation and the head of acquireRAM.

\* `imajer acquire` or `imajer resume` is started and Prepare succeeds.
Run ==
  /\ pc = "down" /\ runs < MaxRuns
  /\ pc' = "next"
  /\ attempt' = 1
  /\ conn' = TRUE
  /\ result' = "none"
  /\ runs' = runs + 1
  /\ UNCHANGED <<attempts, cur, state, session, cancelled, index, passes, faults>>

\* Acquire fails before it reaches the memory.
RunUnprepared ==
  /\ pc = "down" /\ runs < MaxRuns
  /\ Fault
  /\ Return("error")
  /\ runs' = runs + 1
  /\ UNCHANGED <<attempts, memory, conn, cancelled, index, passes>>

\* Defect: the newest directory is used again.
NextRAMAttemptReused == IF attempts = <<>> THEN 1 ELSE Len(attempts)

\* One more than the highest number of a directory, whatever is in it.
NextRAMAttempt == Len(attempts) + 1

\* os.MkdirAll of the attempt directory.
MakeDirectory ==
  /\ pc = "next"
  /\ \/ /\ attempts' = IF NextRAMAttempt > Len(attempts)
                         THEN Append(attempts, NoAttempt) ELSE attempts
        /\ cur' = NextRAMAttempt
        /\ pc' = "create"
        /\ NoFault /\ UNCHANGED <<state, result>>
     \/ /\ Fault
        /\ Return("error")
        /\ state' = NoState
        /\ UNCHANGED <<attempts, cur>>
  /\ UNCHANGED <<attempt, session, conn, cancelled, index, passes, runs>>

\* loadOrCreateState: a directory without a state gets its first one; one with
\* a state would be continued.
Opened(a) ==
  IF a.saved.status = "none" THEN [NoState EXCEPT !.status = "running"]
  ELSE [a.saved EXCEPT !.next = Len(a.journal),
                       !.resumed = @ \/ Len(a.journal) > 0]

OpenState ==
  /\ pc = "create"
  /\ \/ /\ Save(cur, Opened(attempts[cur]))
        /\ state' = Opened(attempts[cur])
        /\ pc' = "start"
        /\ NoFault /\ UNCHANGED result
     \/ /\ Fault
        /\ SaveFails(cur, Opened(attempts[cur]))
        /\ state' = NoState
        /\ Return("error")
  /\ UNCHANGED <<cur, attempt, session, conn, cancelled, index, passes, runs>>

-----------------------------------------------------------------------------
\* The session of the attempt.

\* A segment, the journal, a session record or the event log cannot be opened,
\* read back or written: acquireArtifact returns the error.
StorageFails ==
  /\ pc \in {"start", "record", "seal", "log"}
  /\ Fault
  /\ pc' = "mark"
  /\ UNCHANGED <<attempts, memory, conn, cancelled, result, index, passes, runs>>

StartSession ==
  /\ pc = "start" /\ conn
  /\ ~(cancelled /\ Transport = "local")
  /\ pc' = "stream"
  /\ session' = NoSession
  /\ UNCHANGED <<attempts, cur, attempt, state, conn, cancelled, result, index, counters>>

StartFails ==
  /\ pc = "start"
  /\ \/ (~conn \/ (cancelled /\ Transport = "local")) /\ NoFault
     \/ Fault
  /\ pc' = "failed"
  /\ UNCHANGED <<attempts, memory, conn, cancelled, result, index, passes, runs>>

\* The first frame names the session; the state counts it and is saved.
CountSession ==
  /\ pc = "stream" /\ session.id = 0
  /\ passes' = passes + 1
  /\ session' = [session EXCEPT !.id = passes + 1]
  /\ state' = [state EXCEPT !.count = @ + 1]
  /\ \/ Save(cur, state') /\ NoFault /\ UNCHANGED pc
     \/ Fault /\ SaveFails(cur, state') /\ pc' = "record"
  /\ UNCHANGED <<cur, attempt, conn, cancelled, result, index, runs>>

\* A chunk is written and recorded in the journal.
AppendChunk ==
  /\ pc = "stream" /\ session.id # 0 /\ state.next < N
  /\ attempts' = [attempts EXCEPT ![cur].journal = Append(@, session.id)]
  /\ session' = [session EXCEPT !.got = Append(@, session.id)]
  /\ state' = [state EXCEPT !.next = @ + 1]
  /\ pc' = "save"
  /\ UNCHANGED <<cur, attempt, conn, cancelled, result, index, counters>>

\* The append fails with the record, or a part of it, in the file.
AppendFails ==
  /\ pc = "stream" /\ session.id # 0 /\ state.next < N
  /\ Fault
  /\ \/ attempts' = [attempts EXCEPT ![cur].journal = Append(@, session.id)]
     \/ attempts' = [attempts EXCEPT ![cur].torn = TRUE]
  /\ pc' = "record"
  /\ UNCHANGED <<memory, conn, cancelled, result, index, passes, runs>>

SaveProgress ==
  /\ pc = "save"
  /\ \/ Save(cur, state) /\ NoFault /\ pc' = "stream"
     \/ Fault /\ SaveFails(cur, state) /\ pc' = "record"
  /\ UNCHANGED <<memory, conn, cancelled, result, index, passes, runs>>

\* The source ended, its provider exited cleanly, and the trailer matches.
ReadTrailer ==
  /\ pc = "stream" /\ session.id # 0 /\ state.next = N
  /\ session' = [session EXCEPT !.ok = TRUE]
  /\ state' = IF state.count = 1 THEN [state EXCEPT !.remote = session.got] ELSE state
  /\ pc' = "record"
  /\ UNCHANGED <<attempts, cur, attempt, conn, cancelled, result, index, counters>>

\* Any other end: a timeout, a refused frame, a failed provider or RAW write,
\* a lost connection, or the kill of a cancelled command.
SessionFails ==
  /\ pc = "stream"
  /\ \/ cancelled /\ NoFault /\ UNCHANGED conn
     \/ Fault /\ conn' \in {conn, Transport # "ssh"}
  /\ pc' = "record"
  /\ UNCHANGED <<attempts, memory, cancelled, result, index, passes, runs>>

\* AppendSession.
RecordSession ==
  /\ pc = "record"
  /\ pc' = IF session.ok THEN "seal" ELSE "failed"
  /\ session' = NoSession
  /\ UNCHANGED <<attempts, cur, attempt, state, conn, cancelled, result, index, counters>>

-----------------------------------------------------------------------------
\* The end of acquireArtifact.

Continuous == ~state.resumed /\ state.count = 1

Sealed ==
  [state EXCEPT !.logical = HashLogical(attempts[cur], state.next),
                !.status = IF Continuous THEN "verified_continuous"
                                         ELSE "chunk_verified_composite"]

Sealable ==
  /\ Audits(attempts[cur], state.next)
  /\ Continuous => HashLogical(attempts[cur], state.next) = state.remote

\* The session succeeded: re-hash, audit, classify and save the final state.
Seal ==
  /\ pc = "seal"
  /\ IF Sealable
       THEN /\ state' = Sealed
            /\ \/ Save(cur, Sealed) /\ NoFault /\ pc' = "manifest"
               \/ Fault /\ SaveFails(cur, Sealed) /\ pc' = "mark"
       ELSE pc' = "mark" /\ UNCHANGED <<attempts, state, faults>>
  /\ UNCHANGED <<cur, attempt, session, conn, cancelled, result, index, passes, runs>>

\* Defect: a manifest that cannot be written is not an error.
WriteManifestUnchecked ==
  /\ pc = "manifest"
  /\ \/ attempts' = [attempts EXCEPT ![cur].manifest = state] /\ NoFault
     \/ Fault /\ UNCHANGED attempts
  /\ pc' = "log"
  /\ UNCHANGED <<memory, conn, cancelled, result, index, passes, runs>>

WriteManifest ==
  /\ pc = "manifest"
  /\ \/ /\ attempts' = [attempts EXCEPT ![cur].manifest = state]
        /\ pc' = "log" /\ NoFault
     \/ /\ Fault
        /\ \/ attempts' = [attempts EXCEPT ![cur].manifest = state]
           \/ UNCHANGED attempts
        /\ pc' = "mark"
  /\ UNCHANGED <<memory, conn, cancelled, result, index, passes, runs>>

\* The event artifact_verified is logged; acquireRAM returns the state.
LogVerified ==
  /\ pc = "log"
  /\ Return("ok")
  /\ UNCHANGED <<attempts, memory, conn, cancelled, index, counters>>

\* The session failed: its error is saved, and the attempt is over.
SaveError ==
  /\ pc = "failed"
  /\ \/ Save(cur, state) /\ NoFault
     \/ Fault /\ SaveFails(cur, state)
  /\ pc' = "mark"
  /\ UNCHANGED <<memory, conn, cancelled, result, index, passes, runs>>

-----------------------------------------------------------------------------
\* The tail of the loop of acquireRAM.

Marked == [state EXCEPT !.status = "incomplete"]

\* Defect: one attempt too many.
AttemptsLeftInclusive == attempt <= MaxRAMAttempts

AttemptsLeft == attempt < MaxRAMAttempts

\* Whatever acquireArtifact returned the error for, the attempt is incomplete.
MarkIncomplete ==
  /\ pc = "mark"
  /\ state' = Marked
  /\ \/ /\ Save(cur, Marked) /\ NoFault
        /\ IF AttemptsLeft
             THEN pc' = "backoff" /\ UNCHANGED result
             ELSE Return("error")
     \/ Fault /\ SaveFails(cur, Marked) /\ Return("error")
  /\ UNCHANGED <<cur, attempt, session, conn, cancelled, index, passes, runs>>

\* waitAndReconnect; its error, that of a cancelled context included, is only
\* logged, and the next attempt starts with the transport as it is.
Reconnect ==
  /\ pc = "backoff"
  /\ \/ ~cancelled /\ conn' = TRUE /\ NoFault
     \/ ~cancelled /\ Transport = "ssh" /\ Fault /\ conn' = FALSE
     \/ cancelled /\ NoFault /\ UNCHANGED conn
  /\ attempt' = attempt + 1
  /\ state' = NoState
  /\ pc' = "next"
  /\ UNCHANGED <<attempts, cur, session, cancelled, result, index, passes, runs>>

\* It cannot even be logged: the loop ends.
ReconnectUnlogged ==
  /\ pc = "backoff"
  /\ Fault
  /\ \/ ~cancelled /\ Transport = "ssh" /\ conn' = FALSE
     \/ cancelled /\ UNCHANGED conn
  /\ Return("error")
  /\ UNCHANGED <<attempts, memory, cancelled, index, passes, runs>>

-----------------------------------------------------------------------------
\* After Acquire: acquire loads all states and finalizes what is partial.

Forget ==
  /\ cur' = 0 /\ attempt' = 0
  /\ state' = NoState
  /\ session' = NoSession
  /\ conn' = FALSE

\* loadAllStates.  A directory without state.json makes it fail with an error
\* that acquire takes for "no artifacts" and drops.
LoadStates ==
  /\ pc = "load"
  /\ \/ /\ IF \E i \in 1..Len(attempts) : attempts[i].saved.status = "none"
             THEN pc' = "down" /\ UNCHANGED index
             ELSE pc' = "finalize" /\ index' = 1
        /\ NoFault /\ UNCHANGED result
     \/ Fault /\ pc' = "down" /\ result' = "error" /\ UNCHANGED index
  /\ cancelled' = FALSE
  /\ Forget
  /\ UNCHANGED <<attempts, passes, runs>>

Current == attempts[index]

Finalizable ==
  /\ index <= Len(attempts)
  /\ Current.saved.status \notin Verified
  /\ Audits(Current, Current.saved.next)

\* FinalizeNonCompleteArtifact has nothing to do, or its audit fails and the
\* error is joined to the result.
SkipArtifact ==
  /\ pc = "finalize" /\ index <= Len(attempts) /\ ~Finalizable
  /\ index' = index + 1
  /\ result' = IF Current.saved.status \in Verified THEN result ELSE "error"
  /\ UNCHANGED <<attempts, pc, memory, conn, cancelled, counters>>

\* Defect: an attempt that is complete is finalized as verified.
FinalizedUpgraded ==
  [Current.saved EXCEPT !.logical = HashLogical(Current, Current.saved.next),
                        !.status = IF Current.saved.next = N THEN "verified_continuous" ELSE @]

Finalized ==
  [Current.saved EXCEPT !.logical = HashLogical(Current, Current.saved.next)]

FinalizeState ==
  /\ pc = "finalize" /\ Finalizable
  /\ \/ /\ Save(index, Finalized) /\ NoFault
        /\ pc' = "finalManifest"
        /\ UNCHANGED <<index, result>>
     \/ /\ Fault /\ SaveFails(index, Finalized)
        /\ index' = index + 1
        /\ result' = "error"
        /\ UNCHANGED pc
  /\ UNCHANGED <<memory, conn, cancelled, passes, runs>>

FinalizeManifest ==
  /\ pc = "finalManifest"
  /\ \/ /\ attempts' = [attempts EXCEPT ![index].manifest = Current.saved]
        /\ NoFault /\ UNCHANGED result
     \/ /\ Fault
        /\ \/ attempts' = [attempts EXCEPT ![index].manifest = Current.saved]
           \/ UNCHANGED attempts
        /\ result' = "error"
  /\ index' = index + 1
  /\ pc' = "finalize"
  /\ UNCHANGED <<memory, conn, cancelled, passes, runs>>

Finish ==
  /\ pc = "finalize" /\ index > Len(attempts)
  /\ pc' = "down"
  /\ index' = 0
  /\ UNCHANGED <<attempts, memory, conn, cancelled, result, counters>>

-----------------------------------------------------------------------------
\* The environment.

\* SIGINT, SIGTERM or the cancellation file.
Cancel ==
  /\ pc \notin {"down", "load", "finalize", "finalManifest"} /\ ~cancelled
  /\ Fault
  /\ cancelled' = TRUE
  /\ UNCHANGED <<attempts, pc, memory, conn, result, index, passes, runs>>

\* The process is killed; a journal line may be half written.
Crash ==
  /\ pc # "down"
  /\ Fault
  /\ \/ UNCHANGED attempts
     \/ /\ pc = "stream" /\ session.id # 0 /\ state.next < N
        /\ attempts' = [attempts EXCEPT ![cur].torn = TRUE]
  /\ pc' = "down"
  /\ Forget
  /\ cancelled' = FALSE
  /\ result' = "crashed"
  /\ index' = 0
  /\ UNCHANGED <<passes, runs>>

\* Nobody runs the program any more.
Idle == pc = "down" /\ runs = MaxRuns /\ UNCHANGED vars

AttemptStep == MakeDirectory \/ OpenState \/ StorageFails \/ StartSession \/ StartFails
                 \/ CountSession \/ AppendChunk \/ AppendFails \/ SaveProgress
                 \/ ReadTrailer \/ SessionFails \/ RecordSession
Conclude == Seal \/ WriteManifest \/ LogVerified \/ SaveError \/ MarkIncomplete
              \/ Reconnect \/ ReconnectUnlogged
Finalize == LoadStates \/ SkipArtifact \/ FinalizeState \/ FinalizeManifest \/ Finish

Next == Run \/ RunUnprepared \/ AttemptStep \/ Conclude \/ Finalize \/ Cancel
          \/ Crash \/ Idle

Spec == Init /\ [][Next]_vars

\* The program is sequential code that takes its next step, a chunk timeout at
\* the latest, and the examiner runs it again.  Failures are never fair.
FairSpec ==
  /\ Spec
  /\ WF_vars(AttemptStep \/ Conclude \/ Finalize)
  /\ WF_vars(Run)

-----------------------------------------------------------------------------
\* Properties.

\* Every variable has the values its Go type and the control flow allow.
TypeOK ==
  /\ attempts \in Seq(Attempt)
  /\ pc \in Labels
  /\ cur \in Nat /\ attempt \in 0..MaxRAMAttempts /\ index \in Nat
  /\ state \in State /\ session \in Session
  /\ conn \in BOOLEAN /\ cancelled \in BOOLEAN
  /\ result \in {"none", "ok", "error", "crashed"}
  /\ passes \in Nat /\ runs \in Nat /\ faults \in Nat

\* A verified memory image is the work of one uninterrupted session: complete,
\* from the first chunk to the last read by the same session, with the digest
\* of this content, and never a composite (the attempts start at offset zero in
\* directories of their own, lines 539 to 541 and 1241 to 1252).
VerifiedIsOnePass ==
  \A i \in 1..Len(attempts) :
    LET a == attempts[i] IN
    a.saved.status \in Verified =>
      /\ a.saved.status = "verified_continuous"
      /\ Audits(a, N) /\ a.saved.next = N
      /\ a.saved.logical = a.journal
      /\ \A j, k \in 1..N : a.journal[j] = a.journal[k]

\* An attempt given up as incomplete is preserved: its journal never grows and
\* nothing upgrades its status again, not a later attempt and not the
\* finalization, "never upgrades verification status" (lines 50 to 94).
IncompleteIsPreserved ==
  [][\A i \in 1..Len(attempts) :
       attempts[i].saved.status = "incomplete" =>
         /\ attempts'[i].saved.status = "incomplete"
         /\ attempts'[i].journal = attempts[i].journal]_attempts

\* A run that reports success has at least one verified attempt to show, and
\* it is one whose manifest is that of the verified state (lines 541 to 545).
SuccessIsVerified ==
  pc = "down" /\ result = "ok" =>
    \E i \in 1..Len(attempts) :
      /\ attempts[i].saved.status \in Verified
      /\ attempts[i].manifest = attempts[i].saved

\* Every invocation ends, cancelled or not, and if the examiner keeps running
\* the program and failures stop, the memory is eventually acquired.
EventuallyAcquired ==
  /\ pc # "down" ~> pc = "down"
  /\ <>(\E i \in 1..Len(attempts) : attempts[i].saved.status \in Verified)

\* The verdict of `imajer verify` on the artifacts of the package.
VerifyPasses ==
  /\ \A i \in 1..Len(attempts) :
       /\ attempts[i].saved.status \in Verified \cup {"incomplete"}
       /\ Audits(attempts[i], attempts[i].saved.next)
  /\ \E i \in 1..Len(attempts) : attempts[i].saved.status \in Verified

\* What the documentation says of verify: partial attempts kept beside a
\* completed one do not wrongly stand in the way of success.  So the package of
\* a run that reported success verifies.
PartialsDoNotBlock == pc = "down" /\ result = "ok" => VerifyPasses

=============================================================================
