# Verification of imajer

imajer acquires disk and memory images over SSH, WinRM or locally, and leaves an evidence
package: RAW segments, an append-only chunk journal, resumable state, manifests, and a signed
index. This directory holds TLA+ models of the program, the TLC runs that check them on small
instances, and machine-checked (TLAPS) proofs about them. File names below are under `src/`;
`controller.go` is `internal/controller/controller.go`, `state.go` is
`internal/evidence/state.go`, `report.go` is `internal/report/report.go`, `main.go` and `ui*.go`
are in `cmd/imajer`, `agent` is `cmd/imajer-agent/main.go`.

    tlc -workers 2 -config CaseLifecycle.cfg MCCaseLifecycle  # a run
    tlapm AcquisitionProofs.tla                               # proofs (about 80 s)
    tlapm AcquisitionImageProofs.tla                          # (about 90 s)
    tlapm RamAttemptsProofs.tla                               # (about 60 s)
    tlapm SegmentedImageProofs.tla                            # (about 100 s)
    tlapm FrameTransferProofs.tla                             # (about 160 s)
    tlapm CaseLifecycleProofs.tla                             # (about 120 s)
    tlapm CaseReportProofs.tla                                # (about 50 s)
    tlapm UiServerProofs.tla                                  # (about 80 s)

`PROJECT.json` maps every definition to the lines it models and lists the runs, the hazards,
the mutants (a plausible bug for every property, which the property must catch) and the
theorems.

## 1. The system: components, state, operations

| Component | State it keeps | Operations | Modelled in |
|---|---|---|---|
| Disk acquisition (`controller.go` 50-87, 591-1053) | `evidence.State` in memory, failures at the current offset, session record, journal writer | open or create the artifact, retry loop, session, seal, finalize | `Acquisition`; the frames of a chunk in `FrameTransfer` |
| Evidence store (`state.go`) | `state.json`, `chunks.jsonl`, `sessions.jsonl`, RAW segments, `artifact-manifest.json` | AtomicWrite/SaveState, Append, AuditChunks, HashLogical, WriteAt, Merkle root | `Acquisition`, `RamAttempts`; segment addressing and Merkle accumulator in `SegmentedImage` |
| Stream agent (`agent`) | offset, sequence, running digest | read, send, wait for the acknowledgement, trailer | `Acquisition`, `FrameTransfer` |
| Wire protocol (`internal/protocol`) | decoder and encoder buffers | frames with checked headers and digests, one-byte acknowledgements | `FrameTransfer`; a one-place channel in `Acquisition` |
| Transports (`internal/transport`) | connection, command processes | Start, Wait, Close, Upload, HashFile, Remove | `Acquisition`, `RamAttempts` (start, loss, kill, exit status), `RemoteFootprint` (files) |
| RAM acquisition (`controller.go` 535-589, 1241-1252) | attempt directories, provider | up to three attempts from zero, compare with the stream digest | `RamAttempts` |
| Evidence package and report (`internal/report`) | case report, tree index, signature, event log | WriteCaseReport, FinalizeIndex, VerifyIndex, Log | `EvidencePackage`, `CaseLifecycle` |
| Remote footprint (`controller.go` 130-426, 1055-1175, `main.go` 386-479) | agent, tools and case marker on the target, local record of the marker | Prepare, Cleanup, `imajer cleanup` | `RemoteFootprint`, `CaseLifecycle` |
| Command line (`main.go`) | cancellation file | acquire, resume, discover, verify, report, cleanup | `CaseLifecycle`; invocations in `Acquisition` and `RamAttempts` |
| Desktop UI server (`ui.go`, `ui_integrity.go`, `ui_inventory.go`) | the one running operation, its child process and job file, examiner's keys, known_hosts, inventory lock | run, cancel, finish, shutdown, status, host-key check | `UiOperations`, `UiTrust`, `UiServer` |
| Source readers (`internal/source`) | device handles | read the source | a reader of a live source, in `Acquisition` and `FrameTransfer` |
| Job configuration, tool manifests (`internal/config`, `internal/tools`) | none | validation of a file | not modelled; bounds and outcomes appear as ASSUMEs and choices |
| Probes, file system helpers (`internal/probe`, `internal/fsutil`) | none | query the system | not modelled |
| UI front end, folder pickers, macOS wrapper | presentation only | | not modelled |

How they interact. `imajer acquire` prepares the target (probe, upload of agent and tools, case
marker), acquires memory or a disk, cleans up, and finalizes, reports and signs what is on
disk. For the disk the controller starts the agent's `stream` command at the first offset it does
not have; the agent sends one chunk, in one or several frames, each acknowledged, and ends with
a trailer. The controller makes every chunk durable in a fixed order (RAW, journal, `state.json`)
before it acknowledges it. A failed session is retried; a failed invocation is continued by
`imajer resume`. What a run has left on a target is removed by Cleanup, or later by
`imajer cleanup` from the local record. The UI is a server that runs the same commands as child
processes, one at a time, and talks to them through job and cancellation files.

What is hard. (a) The commit order across crashes at every point, failed writes, and failed
fsyncs. (b) The source is live, so a chunk read twice may differ, and what an earlier session
committed must not be replaced. (c) The agent, the link and cancellation act concurrently with
the controller. (d) The status `verified_continuous` is decided from two counters that crashes
and recoveries change. (e) What one invocation leaves is the input of the next. (f) The retry
budget is per offset, and reconnecting may fail. (g) A frame or its answer may be lost or come
twice while both ends wait. (h) The target, the local record and the report describe each other
across crashes and failed rollbacks. (i) UI requests, the running command, its helper and the
shutdown share state under a lock that is released in between. The `hazards` of `PROJECT.json`
list the points one by one.

What makes each component correct:

- *Disk acquisition and evidence store*: acknowledged data is durable; committed evidence is
  append-only; a seal means a complete, audited image with its own digest and is final;
  `verified_continuous` means one pass; what is left behind can be resumed; every run ends.
- *Wire protocol and agent*: frames reassemble to exactly the chunks that were read, in order,
  once; the image read back through the segments is what the log says; no session waits for ever.
- *RAM*: bytes of two attempts are never mixed; a verified attempt is never superseded by a
  failed one; cancellation ends the loop.
- *Package*: a command that succeeds leaves a package that verifies; an accepted report tells the
  truth about evidence and target.
- *Remote footprint*: an agent that was there before is never removed; the agent and the tools a
  run has put on a target are named by the local record and can be removed later. (Of files of
  somebody else and of files sent in part less is true, see section 4.)
- *UI*: one operation at a time, with its own job, its outcome reported as it was and a summary
  that is current or marked as unread, a cancel that reaches the operation it was meant for; keys
  that match and were confirmed.

## 2. Modules

    VerifiedImage        what a disk acquisition promises (abstract)
      ^ implemented by
    Acquisition          controller + agent + transport + files of one disk artifact
      ^ AcquisitionProofs <- AcquisitionImageProofs

    SegmentedImage       segment addressing and Merkle accumulator (pure)
      ^ SegmentedImageProofs
    ChunkDelivery        what a transfer promises: in order and once (abstract)
      ^ implemented by
    FrameTransfer        the frames of a chunk on a faulty link
      ^ FrameTransferProofs (over SegmentedImage too), MCFrameTransfer

    RamAttempts          acquireRAM with its attempts, and the finalization of all of them
      ^ RamAttemptsProofs

    RemoteFootprint      what a run puts on the target, and cleanup
    EvidencePackage      the case directory, report, index and signature
      ^ both
    CaseLifecycle        acquire, discover, report and cleanup on one case
      ^ CaseLifecycleProofs <- CaseReportProofs, MCCaseLifecycle

    UiOperations         requests, the running command, cancel and shutdown
    UiTrust              examiner's keys and confirmed host keys
      ^ both
    UiServer             the server from start to end
      ^ UiServerProofs, MCUiServer

### Acquisition

`Acquisition` is the whole chain from the live source to the manifest of one disk artifact,
because the properties are about the order of steps of several parts. Its variables:

| Variables | In the code |
|---|---|
| `raw`, `journal`, `torn`, `saved`, `sessions`, `manifest` | RAW segments, `chunks.jsonl` (and whether it holds a line that does not decode), `state.json`, `sessions.jsonl`, `artifact-manifest.json`; they survive a crash |
| `pc` | where `acquireArtifact` / `transferSession` / `FinalizeNonCompleteArtifact` stand |
| `state`, `session` | the `evidence.State` and `SessionRecord` in memory, with `localSessionHash` |
| `failures`, `retryOffset` | `failuresAtOffset`, `retryOffset` |
| `logBroken` | the sticky error of the `bufio.Writer` in `ChunkLog` |
| `cancelled`, `result` | the context, and how the artifact returned |
| `conn`, `agent`, `wire`, `acked` | the transport, the agent process, the frame and the acknowledgement under way |
| `passes`, `runs`, `faults` | session identifiers handed out; bounded counters |

Each action is one atomic step of the code between two points where a crash, a signal or the
other side can come in. In the order of a run:

- `Run`, `RunUnprepared`: the invocation. `CreateState`, `AlreadyVerified`, `JournalRejected`,
  `OpenExisting`: `loadOrCreateState` and the head of `acquireArtifact` (597-641).
- `IdentityFails`, `StartSession`, `StartFails`: 643-652 and the start of `transferSession`.
- `CountSession`, `RejectFrame`, `AcceptChunk`, `WriteChunk`, `AppendChunk`, `AppendFails`,
  `SaveProgress`, `SendAck`, `ReadTrailer`, `ReadFails`: the receive loop.
- `RecordSession`, `Seal`, `RefuseSeal`, `WriteManifest`: a session that ended (656-699).
- `Retry`, `GiveUp`, `BackoffCancelled`, `Reconnect`, `ReconnectFails`: 700-772.
- `NothingToFinalize`, `FinalizeState`, `FinalizeManifest`: `FinalizeNonCompleteArtifact`.
- `AgentReads`, `AgentFinishes`, `AgentAcknowledged`: the agent. `AgentFails`, `LinkDrops`,
  `FrameDamaged`, `Cancel`, `CancelKillsAgent`, `Crash`: what happens to it and to the process.

Abstractions. An offset counts chunks and a digest is the content it digests, so equal digests
mean equal contents. Reading the live source returns any member of `Data`; `Junk` is a RAW range
never completely written. Every save is atomic and may fail before the rename (old content) or
after it (new content), as `AtomicWrite` can. A failed journal append leaves nothing, a torn line
or the whole record (`AppendFaults`); a failed RAW write leaves any mixture that matters. A
transport differs from the others in two ways: ssh loses its connection and must reconnect, WinRM
opens a new shell per command and reports exit code 0 for a lost one.

`VerifiedImage` is the promise to the examiner: an image that only grows, by chunks of ever later
passes, and is sealed once, when it is complete, with the digest of exactly its content, and as
continuous only when one pass delivered it. `Promise == INSTANCE VerifiedImage WITH ...` maps the
journal to the image and the saved status to the seal.

### RamAttempts

`RamAttempts` is about the loop around `acquireArtifact`: memory cannot be resumed, so every
attempt starts at zero in a directory of its own, and what is left of the others must neither be
mixed with it nor count as evidence. `attempts` holds the directories (`saved` is `state.json`,
`journal` and `torn` are `chunks.jsonl`, `manifest` is `artifact-manifest.json`); `cur`,
`attempt`, `state`, `session` are the local variables, `conn` and `cancelled` the transport and
the context, `index` the loop of `acquire` that finalizes. Memory never stands still, so a chunk
is named by the session that read it, which is what the properties tell apart. The actions follow
the code: `Run`, `MakeDirectory` (`nextRAMAttempt` and `MkdirAll`), `OpenState`, `StartSession`,
`CountSession`, `AppendChunk`, `SaveProgress`, `ReadTrailer`, `RecordSession`, `Seal`,
`WriteManifest`, `LogVerified`; on a failure `SaveError`, `MarkIncomplete`, `Reconnect` (whose
error is only logged: `ReconnectUnlogged` is the case that it cannot be); and `LoadStates`,
`SkipArtifact`, `FinalizeState`, `FinalizeManifest`, `Finish` after `Acquire`. What `Acquisition`
resolves (frames, acknowledgements, RAW writes) is one step here; the order of journal and state
is kept. A failed journal append leaves the record, a torn line or nothing.

### FrameTransfer over SegmentedImage

`Acquisition` treats a chunk as one frame and looks at crashes around it; `FrameTransfer` opens
the frame and looks at what the link can do to it. `agent` holds the local variables of the
agent's `stream`, `streamed` its hash, `sent` the frames it has written; `frames` and `acks` are
the two directions of the link; `phase`, `assembled`, `expected` and `received` are the
controller's session (`assembledData` with its header, `expectedSequence`, `expectedFrameIndex`,
the session hash); `files`, `records` and `nextOffset` are the image. The agent steps `Read`,
`SendFrame`, `ReadAck`, `SendTrailer`; the controller takes one step per frame (`AcceptPart`,
`StoreChunk`, `RefuseFrame`, `ReadTrailer`, and `ReadFails` when its deadline passes); the link
may repeat, lose or damage a frame, lose an answer, or break. A byte is the pair of its position
and the session that read it, because the source is live.

`ChunkDelivery` is what all of this is for, without frames, numbers, segments or a log: the bytes
of each session reach the image in order and once, from where it ended; what is in it stays; the
sender hears of a chunk before the next one is delivered, and of nothing that is not there; and
only the whole source is called complete. `Delivery == INSTANCE ChunkDelivery WITH ...` maps the
image to what `readLogical` gives for the first `NextOffset` bytes, what the sender knows to the
agent's `current`, and the outcome to `phase`.

`SegmentedImage` has the two algorithms under it as functions: `WriteAt`, `ReadLogical`,
`VerifyChunks` and `VerifyExistingChunk` address a logical offset through segment files; `Add` and
`Root` are the streaming Merkle accumulator, `ReferenceRoot` the level-by-level tree that the
repository's own test compares it with.

### CaseLifecycle over RemoteFootprint and EvidencePackage

`RemoteFootprint` follows one controller through `Prepare`, `Cleanup` and the cleanup command.
`target` holds the files on the target under their own names, `partial` the paths beside which an
SSH upload has left `<path>.upload`, `record` is `remote-footprint-marker.json`; `candidate`,
`agentPath`, `agentUploaded`, `uploadedTools`, `markerPath`, `markerPaths` are the fields of the
controller; `stage` says where it stands, `todo` and `cleanupErr` are the loop of the cleanup.
The steps: `HashPreinstalled`, `UploadAgent`, `CheckAgent` (candidates one after the other),
`UploadMarker`, `RecordMarker`, `DropOldMarker` (`installRemoteMarker`, once for the agent and
again for every tool, with its rollback `MarkerFails`), `ProbeTarget`, `PrepareTool`,
`UploadTool`, `VerifyTool`, `EndPrepare`; `StartCleanup`, `RemoveNext`, `EndCleanup`;
`ManualCleanup`, `EndManual`; and `AlterMarker`, by which somebody changes a marker on the target.
A path is a tuple with the run that owns it, so a later run's files are told from an earlier
one's. `put`, `begun` and `lost` are history: what the run created, which temporary files it
created, and what a failed rollback gave up.

The three transports differ in what an upload may leave. SSH creates `<path>.upload` with O_EXCL
(`OpenTemp`), fills it and renames it, which a file in the way refuses; when it fails it tries to
remove the temporary file, and a process that dies does not. WinRM empties the file and appends to
it, so it overwrites what is there, and a failure leaves the file or nothing. The local transport
creates the file with O_EXCL, or finds that it is the very file it was to copy. `CanCreate`,
`UploadTo` and `Breaks` say this once for agent, marker and tools.

`EvidencePackage` has the case directory as `tree` (the epoch of each file's last write; an epoch
ends when the tree is hashed), `artifact` (what each artifact directory was left as), `garbled`
(those whose `sessions.jsonl` holds half a line), `json` and `pdf` (what the report lists), `index`,
`sig`, `pub`. `cmd` and `step` follow the command: `OpenCase`, `CheckSpace`, `CreateArtifact`,
`SaveFirstState`, `Stream`, then `LoadStates` (`loadAllStates` with its missing-file exception, and
`loadAllSessions`), `WriteJSON`, `WritePDF`, `WriteIndex`, `WriteSignature`, `WritePublicKey`;
`StartReport` is `imajer report`, `Die` the end of the process, which may leave the temporary file
of an atomic write. `VerifyIndex` is what `imajer verify` asks.

`CaseLifecycle` runs the two together: a step of the controller that writes a case file touches
the tree, Cleanup follows whatever Prepare or Acquire returned, and its warning goes into the
report.

### UiServer over UiOperations and UiTrust

`UiOperations` is `ui.go` with every goroutine a process of its own: `request` holds the handlers (a
form is saved in one step and started in the next, a cancel takes its function in one step and calls
it in the next), `runner` is `runCommand` with `finishOperation`, `watch` its helper that asks the
child to stop and, on Windows, kills it after five minutes. `status` and `cancelFunc` are the fields
under the mutex; the integrity summary in it counts the artifacts it lists and says whether an error
cut it short (`Readings`), which the page shows as a log line only; `child` is the command, which
loads its job from `jobFile`, writes artifacts and ends as it likes; `orphans` are commands that an
ended server left alone. Steps that the code does under one lock are one action.

`UiTrust` is the first start (`ensureExaminerKey`: private key, then public key, or the public key
recovered) of any number of processes, and the host-key check (`handleSSHHostKey`: probe, decide,
append to known_hosts under `inventoryMu`) beside the inventory that holds the same lock.
`UiServer` composes them: `Listen` succeeds for one process at a time, target checks ask whether
an operation runs, and `Stop` ends them with the server.

## 3. Runs

The first six are instances of `Acquisition`; the digests are contents, so two contents per chunk are
enough to tell "the same" from "read again and different", and three chunks give a first, a
middle and a last one.

| Run | Instance | Question |
|---|---|---|
| `acquisition_commit` | ssh, N=3, two contents, failed appends leave nothing, 3 runs, 3 faults, 2 attempts; 1.23 M states | Is what is left always resumable, is evidence append-only, does the manifest never overclaim, and does every step implement `VerifiedImage`? |
| `acquisition_faults` | WinRM, the same, every outcome of a failed append; 1.62 M states | Is what is acknowledged durable, and is a seal complete, final and, when continuous, one pass, whatever fails? |
| `acquisition_live` | ssh, N=2, 4 runs, 3 faults; 113 k states | Does every invocation end, and is the disk eventually verified? |
| `exhausted_not_resumable` | ssh, N=2, a failed fsync keeps the record | A disagreement, see below |
| `unreachable_ends_run` | ssh, N=2 | A disagreement, see below |
| `completed_without_manifest` | ssh, N=2 | A disagreement, see below |
| `ram_attempts` | `RamAttempts`, ssh, N=2, 2 attempts per run, 3 runs, 2 faults; 128 k states | Is a verified memory image one reading of one session, is success backed by one, are incomplete attempts preserved, does every run end and the memory get acquired? |
| `partial_blocks_verify` | `RamAttempts`, 2 runs | A disagreement, see below |
| `frame_transfer` | 7 bytes, declared size right, too large or none, three layouts, 3 sessions, 3 link faults; 54 k states | Is a chunk in the log one reading, does it read back through the segments, is the Merkle root right, does a clean link never fail, does every step implement `ChunkDelivery`, and does every session end? |
| `case_lifecycle` | six jobs, 2 runs, 2 faults, 2 keys (interchangeable), 2 artifacts; 3.7 M states | Are agent and tools on a target named by the record and within reach of cleanup, does a preinstalled agent stay, does a successful command leave a package that verifies and lists every session, and is an accepted report true of evidence and target? |
| `cleanup_leaves_upload` | `CaseLifecycle`, a tool over SSH, 1 run, 1 crash | A disagreement, see below |
| `ui_server` | 3 requests, 2 cases, 2 processes, 2 checks, 2 host keys, Windows and Unix; 773 k states | Is there one command at a time, with its own job and verdict and a summary that is current or marked as unread, does a cancel hit its own operation, are keys matched and confirmed, does a stopped operation come to its verdict? |

Bounds of `Acquisition` and `RamAttempts`: `MaxRuns` (invocations) and `MaxFaults` (failures of
the environment, crashes and cancellation included) are the only ones; each is a guard. Three
faults spread over three runs include: a failed session, a crash after it, and a failed
finalization; a crash between each two of RAW, journal, state and acknowledgement; two failed
sessions at one offset (the budget) and a later crash. `MaxAttempts = 2` is the smallest budget
that is not spent at once. When the runs are used up the model stutters (`Idle`), so that every
other deadlock is an error. `RamAttempts` has N = 2, so that a session can end after one chunk of
two and the next could continue it, and two attempts per invocation instead of the code's three
(`MaxRAMAttempts`; the first, and a last one): over three invocations that makes up to six
directories. The theorems hold for any number.

`Resumable`, `EventuallyVerified` and the refinement of `VerifiedImage` are checked under the
hypothesis that a failed append leaves nothing behind (`AppendFaults = {"lost"}`): with a record
that is kept, or a torn line, they are false of the code, which is the first disagreement below.
The properties of `acquisition_faults` need no hypothesis.

Bounds of `FrameTransfer`: the layouts are one byte per chunk (seven leaves of the Merkle tree,
several levels and a promoted node), a chunk of three frames that straddles three segments and
ends short, and frames that do not divide the chunk nor chunks the segment. Three faults allow a
loss, a repetition and a damage in one session; three sessions allow two to fail.

Bounds of `CaseLifecycle`: two runs, so that a second one meets what a first has left; two faults,
so that a rollback can fail after what it rolls back; two memory attempts; `MaxSeals` bounds how
often `report` is run again. The jobs (`MCCaseLifecycle`) are, over SSH, an uploaded agent with a
tool, a preinstalled one with a foreign file where the tool goes, and one told to keep its files;
over WinRM a preinstalled agent with a tool; and the examiner's own machine with a tool and without.
The keys an examiner signs with are only ever compared, so they are a symmetry set
(`KeySymmetry`); the run has no liveness property that a symmetry could hide. A command may stop
between any two steps and the bounds end the run, so deadlock is not checked.

Bounds of `UiServer`: three requests are enough for an operation, a second one (or a cancel) and a
shutdown to overlap; the first two may carry a form; the two cases are ids that lead to the same job
file ("A-1" with "2", and "A" with "1-2"), the worst case. `MaxTraffic` bounds the load as a
whole: all requests with one start, fewer with two starts or with target checks. A server may be
off for good, so deadlock is not checked.

Fairness. In `Acquisition` and `RamAttempts` the controller and the agent are sequential code that
always takes its next step, and a read ends at the latest with the chunk timeout; hence weak
fairness of the steps of a running invocation (`RunFairness`). `EventuallyVerified` adds that the
examiner runs `imajer resume` again (`ResumeFairness`), without which nothing can finish;
`FairSpec` of `RamAttempts` is the same. Failures, cancellation, the loss of the link and the kill
of the agent are never fair: they may or may not happen. In `FrameTransfer` agent and controller
run until they block, and a read that blocks ends with its deadline, which the configuration
forces to be at least a second (`config.go` 195, 277); the link is never fair. In `UiServer` the
goroutines of the running operation are fair (`Run`, `AskChild`, `KillChild`); the child is not
assumed to do anything, so on Unix, where it is only asked to stop, nothing is promised of an
operation whose child does not answer.

## 4. Where the code disagrees with what it says

- `ExhaustedRemainsResumable`. The message at `controller.go` 737 says the disk remains resumable
  when the budget is spent. If an fsync of `chunks.jsonl` fails (`state.go` 167) the record is in
  the file but `NextOffset` is not advanced (950-955), so the next session of the same process
  writes over the RAW range of a journaled chunk (942). The run shows what follows when that write
  fails too and the budget is spent: the range no longer has the digest of its record (`state.go`
  374), and every later resume fails at its audit (606). A retry that gets further appends a second
  record for the offset, which the audit refuses as well (362).
- `UnreachableSpendsBudget`. `docs/PLAN_EKSIK_ANALIZI.md` 147 says the budget is applied to the
  unverified offset. After one failed reconnect the loop goes on with the transport it closed;
  past offset 0 the identity check (649) fails on it and ends the acquisition with attempts left,
  while at offset 0 the same failure is charged to the budget and retried.
- `CompletedHasManifest`. `docs/PLAN_EKSIK_ANALIZI.md` 269-270 promises a manifest for completed
  and incomplete artifacts. A crash between 691 and 696 leaves a verified state without one, and
  both later entries return early (604, 57), so it is never written.
- `PartialsDoNotBlock`. `docs/PLAN_EKSIK_ANALIZI.md` 191-192 says that partial attempts kept beside
  a completed one do not wrongly block success. An attempt directory without `state.json` (a crash
  or a failed save between `controller.go` 593 and 1049) makes `loadAllStates` fail with
  `ErrNotExist`, which `acquire` drops (`cmd/imajer/main.go` 205) and reports success, and which
  `verify` returns (288) for ever after. An attempt a crash left `running` blocks it too (320-327).
- `CleanupLeavesNothing`. `docs/KULLANIM_KILAVUZU.md` 835-836 gives `imajer cleanup` for agent and
  tool files that a cut of the network has left. Over SSH a file is first written as
  `<path>.upload` (`ssh.go` 176); when the process dies then, or the link is lost so that the
  deferred removal (186) fails too, neither marker nor record names that file. Cleanup removes
  `<path>`, which is not there and counts as removed (223), and reports success; beside a
  preinstalled agent, whose directory stays the same, every later upload of the tool then fails.

Properties that are weaker than one might expect, because the code is:

- `CleanupKeepsItsReach` and `MarkerGoesLast` except a removal that failed: Cleanup goes on to the
  markers after it (`controller.go` 1055-1110), and the file that stayed is then out of reach of
  `imajer cleanup`. The examiner is told (`CleanReportMeansCleanTarget`).
- `PreinstalledStays` is about the agent only. A file of somebody else in the way of a tool is removed:
  `prepareSourceTool` enters the tool's path in the list (`controller.go` 396) before it uploads
  (403) and leaves it there when the upload fails on that file (`ssh.go` 198, `local.go` 61; WinRM
  overwrites it); Cleanup (1097-1099), or `imajer cleanup` from the record, then removes it, although
  `docs/EKIP_HIZLI_KULLANIM.md` 148-149 says that cleaning is for temporary files of IMAJER. The
  model takes these steps (`BesideForeignTool`, `LocalMemory`), and `CleanupKeepsItsReach` leaves the
  file out of account.
- `CleanReportMeansCleanTarget` speaks of a tool sent in part only where the command succeeded: beside
  a run that failed in an SSH upload the temporary file may stay under a report without a warning.
- `OwnFilesAreRecorded` names a tool that was sent in part by the path beside which it lies, and
  starts with the first marker: an agent uploaded before it, or the marker
  between its upload and the local record (1132), is known to nobody if the process dies there.
- `RunsTheJobItAccepted` excepts a job file that another request has written in between: a form is
  saved (`ui.go` 383) before it is asked whether an operation may start, so a refused request has
  already replaced the file, and two cases can share one file name.
- `NoChildUnattended` holds within one server: `Serve` returns as soon as `Shutdown` is called (217)
  and the command goes on alone, `SummaryIsCurrent` names the exception.
- `SummaryIsCurrent` lets a summary that could not be read to its end be shown: `finishOperation`
  publishes what `loadUIIntegrity` had listed (`ui.go` 720, 727), and only a log line (746) tells it
  from the whole.
- `PairMatches` excepts two first starts that overlap: nothing locks the key files.
- In `RamAttempts` a verified attempt may become `incomplete`: when the final save (`controller.go`
  691) reports an error after its rename, or the manifest or the event cannot be written,
  `acquireRAM` (553-557) saves the attempt again as incomplete and reads the memory anew. No text
  of the repository rules that out; `SuccessIsVerified` says that a success has another attempt.
- The comment at `state.go` 404 expects a replayed frame after a lost acknowledgement. The sequence
  check (`controller.go` 871) refuses any repeated frame before the replay branch (932) is reached,
  and a new session starts at `NextOffset`, so with this agent the branch is never taken;
  `FrameTransfer` has it, and nothing depends on it.
- Of the session logs `SuccessIsSealed` says only that a success lists them. A process that dies inside
  `AppendSession` (`state.go` 218) leaves half a line, the next record is glued to it, and from then
  on every `acquire` and `report` of the case ends with an error, even one that completes the
  image; `imajer verify` does not read the log and may still accept the package.

## 5. Proofs

`AcquisitionProofs` proves, for every source size, data set, transport, retry budget, repertoire
of append faults and number of runs and failures:

| Theorem | Says |
|---|---|
| `TypeCorrect` | `Spec => []TypeOK` |
| `AcknowledgedDurable` | `Spec => []AcknowledgedIsDurable`: no acknowledgement for a chunk that `state.json` and the journal do not cover |
| `SealedComplete` | `Spec => []SealedIsComplete`: a sealed artifact is the whole source, audits, and carries the digest of its content |
| `SealedFinal` | `Spec => SealedIsFinal`: no step changes a sealed artifact |
| `Invariance` | the inductive invariant all of them rest on |

Assumptions: the named ASSUMEs of `Acquisition` (a non-empty source, `Junk` not a content, a known
transport, a positive budget, known faults); the runs evaluate them too.

The argument. None of the properties is inductive. That an acknowledgement is durable needs to
know, at every point of the receive loop, where memory, `state.json`, the journal and the agent
stand relative to each other: `CommitOrder` says so (equal at the head of the loop and after the
save, one apart in between, never `state.json` ahead of the journal). That needs to know that only
one frame is under way and that the agent waits while it is handled: `Handshake`. The record
operations need the types: `TypeOK`. Together they are `IInv`, and each action group has one lemma
per conjunct, with one step per action. That a seal is final needs to know the control points at
which a sealed artifact can be seen (`Sealing`); that it is complete follows from the audit that
precedes it and from no step touching the files of a sealed artifact (`LeavesSealAlone`), where
the step that appends to the journal is excluded by `Sealing`.

`RamAttemptsProofs` proves, for every memory size, transport, number of attempts, runs and
failures, and from the named ASSUMEs of `RamAttempts` only:

| Theorem | Says |
|---|---|
| `RamTypeCorrect` | `Spec => []TypeOK` |
| `RamVerifiedIsOnePass` | `Spec => []VerifiedIsOnePass`: a verified image is complete and one session's reading |
| `RamSuccessIsVerified` | `Spec => []SuccessIsVerified`: a reported success has a verified attempt with its manifest |
| `RamIncompleteIsPreserved` | `Spec => IncompleteIsPreserved` |

The invariant follows the current attempt through its one session (`Stage`): the directory is
new, so the journal holds what this session has received and nothing else (`Received`), and when
the trailer matched it is the whole memory (`Whole`), which is why the seal never makes a
composite. `Position` says at which directory the program is, `Shown` and `Pending` where the
result "ok" can come from. What a step does to the directories is proved once (`StepEffect`: nothing,
one more empty directory, or a change of one that keeps what is verified, incomplete or shown),
and three of the four results follow from that lemma alone.

`AcquisitionImageProofs` continues with the image that is left:

| Theorem | Says |
|---|---|
| `ManifestIsBacked` | `Spec => []ManifestNeverOverclaims`, for every repertoire of append faults |
| `ContinuousOnePass` | `Spec => []ContinuousIsOnePass`, for every repertoire of append faults |
| `CommittedIsFinal` | `Spec => CommittedNeverRewritten`, if a failed append never keeps its record |
| `ImplementsPromise` | `Spec => ImplementsVerifiedImage`, under the same hypothesis: the refinement |
| `AlwaysResumable` | `Spec => []Resumable`, if a failed append leaves nothing behind |

The hypotheses are those of the runs, and the first disagreement of section 4 shows that they are
needed. The argument: once a session has ended `state.json` may be behind memory and never ahead
(`SavedBehind`), so the audit of an entry decides about what memory knows. The segments change
only where the next chunk is being written, which is beyond every digest a manifest states
(`ManifestInv`) and beyond the journal as long as its length is the offset in memory (`ImageInv`).
That a continuous image is one pass needs the two counters of the state: which of them a nonzero
offset implies (`Counted`), that the session's content is the tail of the journal (`Delivered`),
that a session with bytes leaves a nonzero offset (`Weighed`), and what the seal may conclude from
that (`OneSession`). For the refinement the passes in the journal never decrease (`Dated`).

`SegmentedImageProofs` proves the two algorithms under an image, for every size:

| Theorem | Says |
|---|---|
| `AppendReadsBack` | what `WriteAt` appends is what `ReadLogical` gives back, and every earlier range still reads the same, whichever segments a range spans |
| `StreamingRootIsTheTree` | `MerkleRoot(records, depth) = ReferenceRoot(records)` for every log of less than two to the `depth` records; the code has 64 levels |

The only assumptions are those of a caller: a positive segment size, files filled up to the offset
of the append and not beyond it (`Fills`), and a file for every byte of the range (`Covers`);
`FrameTransferProofs` shows that every reachable image has them. Both algorithms are recursive
functions, that is, the value CHOOSE picks among the solutions of an equation, so each proof shows
that there is a solution and only one: its closed form (`Written`, `BytesAt`, `Turns`). The
induction over data is by a least counterexample (`Least`, `Induction`): well-foundedness of the
naturals is a fact about sets, which the provers can use where the theorems with an operator
parameter are out of their reach. The Merkle root: after `n` records level `l` is held exactly when
the `l`-th binary digit of `n` is one, and holds the last full tree of its height (`Held`,
`AddsALeaf`: the carry of Add is the carry of `n + 1`); the row of the reference tree at height `l`
is the full trees of that height followed by what Root has joined of the levels below (`Row`,
`PairsAre`); and with less than two to the `depth` records a level is always free (`ALevelIsFree`)
and one node is left at the top (`NoneAtTheTop`).

`FrameTransferProofs` proves, for every source, every layout and any number of link faults:

| Theorem | Says |
|---|---|
| `FrameTransferTypeCorrect` | `Spec => []TypeOK` |
| `LoggedChunkIsOneRead` | `Spec => []ChunksAreOneRead` |
| `LogReadsBack` | `Spec => []ChunksReadBack`: every record read back through the segments gives its digest |
| `RootIsTree` | `Spec => []RootIsTheTree` |
| `NothingGoesWrong` | `Spec => []CleanTransfer`: without a fault nothing is refused and no read waits in vain, and a completed session has left the whole source |
| `DeliversInOrder` | `Spec => ImplementsDelivery`: the refinement of `ChunkDelivery` |

The invariant is that of stop-and-wait: the controller expects either the frame the agent is sending
(`Behind`) or the one after it (`Ahead`), every frame on the link has at most the agent's number,
and one with that number is the agent's frame but for its payload (`LinkInv`). A repeated frame is
then refused by its number and a damaged one by its digest. The image changes in one action only,
which appends the agent's chunk at `NextOffset`: that the files hold exactly the first `NextOffset`
bytes and every record's range its digest (`ImageInv`) is then `WriteAtTheEnd` and `BytesAtTheEnd`.
The log is never longer than the image (`CountInv`), so it fits the levels. On a clean link the
controller is nowhere but one frame from the agent, and the frames of a chunk it has taken are the
beginning of the chunk (`CleanInv`, `Begins`): the frame that comes is whole, in order, of a count
and an index the controller accepts, and the last one completes the chunk (`FrameIsAcceptable`); and
while nobody has anything to do there is no frame or answer under way that could be lost
(`NeverSilent`). The refinement maps the steps one by one: what the files hold is read back as one
sequence (`DeliveredIs`) that a stored chunk makes longer by itself (`ReadsFurther`,
`StoreChunkDelivers`); an answer that takes the agent past a chunk leaves it where the image ends
(`ReadAckLearns`); a session that ends as complete has all of the source (`CloseEnds`); all other
steps stutter.

`CaseLifecycleProofs` and `CaseReportProofs` prove, for every set of jobs, keys and artifacts and
any number of tools, runs, failures and later reports:

| Theorem | Says |
|---|---|
| `LifecycleTypeCorrect` | `Spec => []TypeOK` |
| `SuccessSealed` | `Spec => []SuccessIsSealed`: a command that ended without an error leaves a package that verifies and a report with every session |
| `PreinstalledAgentStays` | `Spec => []PreinstalledStays`: no step removes an agent that was there before |
| `OwnFilesRecorded` | `Spec => []OwnFilesAreRecorded`: agent and tools on the target, and tools there in part, are at or beside a path the local record names |
| `MarkerOutlivesFiles` | `Spec => []MarkerGoesLast`: while Cleanup removes and nothing failed, the marker outlives the files it names |
| `CleanupReaches` | `Spec => CleanupKeepsItsReach`: nothing of ours gets out of the reach of `imajer cleanup`, but for the four named cases |
| `VerifiedReportIsCurrent` | `Spec => []AcceptedReportIsCurrent`: an accepted report lists the evidence as it is, in JSON and PDF alike |
| `CleanReportTrue` | `Spec => []CleanReportMeansCleanTarget`: an accepted report without a cleanup warning tells the truth about the target |

The package: `Sealed` says how much of index, signature and key already fits the tree, and `Place`
that nobody else writes while it is sealed; `Listing` follows the sessions into the report. The
footprint: `Kinds` gives the lists their kinds, `Preinstalled` keeps the agent off each of them;
`Known` compares what is ours on the target with what the record covers, at every step between two
writes of the record, which needs to know that only announced tools have been uploaded (`Numbered`,
`Announced`) and what each stage may hold (`Phases`). The cleanup (`CleanInv`): in a worklist only
markers follow a marker (`MarkersLast`), every marker this run has written has a number below the
next one's (`Aged`, `Limit`), so no rollback meets an older marker, what the record names of this
run is backed by its marker (`Backed`), a marker on the target is listed (`Traced`), and what is not
yet removed is still on the worklist (`Pending`); with the worklist empty and no failure nothing is
left. A tool is sent in part only while it is uploaded or when Prepare has failed there, and it is
the last one entered (`Halved`), hence named by the record; the command fails then (`HalfFails`).
The report: a file written in the current epoch is newer than any index (`Epochs`), so no package
verifies from the first event of a command to its index; and when the index is written, both reports
come from the same data and no artifact has changed since those were collected (`Made`). `Truth`
takes the outcome of Cleanup from the controller into the data, from there into the JSON and up to
the index, where `Epochs` excludes that an older index fits a newer report.

`UiServerProofs` proves, for any number of requests, cases, processes, checks and keys:

| Theorem | Says |
|---|---|
| `UiTypeCorrect` | `Spec => []TypeOK`; among others, no nil function is ever called to cancel |
| `ChildAttended` | `Spec => []NoChildUnattended`: a live command is the one the status shows and a cancel reaches |
| `CancelFindsItsOwn` | `Spec => []CancelHitsItsOwn`: a cancel only ever ends the operation it found |
| `VerdictTrue` | `Spec => []VerdictIsTrue` |
| `JobIsTheOneAccepted` | `Spec => []RunsTheJobItAccepted` |
| `ShownSummaryIsCurrent` | `Spec => []SummaryIsCurrent`: the summary is current, or a part of it that is marked as such |
| `TrustedKeyConfirmed` | `Spec => []OneConfirmedKey` |
| `KeyPairMatches` | `Spec => []PairMatches` |

The operations: `Attended` ties status, cancel function, runner and child together, `Judged` what
the runner is about to publish to what happened, `Asking` where a cancel can still come from.
The job: `Holds` says of a task that its file has its job unless another request has written it,
from the save of the form to the load by the command. The summary needs that no artifact changes
between its loading and the next operation. The trust: whoever reads known_hosts to decide holds
the lock, and no two checks do (`HostInv`); of the key files, one process at most is on its way
through the first start, and where it stands says which of them exist (`PairInv`).

Only model-checked, and why:

- Liveness (`RunTerminates`, `EventuallyVerified`, `EventuallyAcquired`, `SessionsEnd`,
  `StopIsBounded`): `ENABLED` and liveness under fairness are beyond the prover.

Every invariant and action property that a passing run checks is a theorem.

## 6. Not modelled

- Job configuration, tool manifests: validation of one file without state. Their results are the
  ASSUMEs on the constants (positive chunk and segment sizes, a timeout of at least a second) and
  the choice of a job. Probes, inventory results and file system helpers: queries of the system,
  whose outcome is a choice. The UI front end, folder pickers, tokens of a UI session, the layout
  of the PDF and the wording of messages.
- The event log: its redaction, and an entry that cannot be written, which returns like a failing
  save. A torn line of `events.jsonl`: nothing in the program reads it back.
- Canonical encoding and the cryptography of digests, signatures and host keys: equal means equal.
- The blocks of a WinRM upload: an upload succeeds, or leaves nothing, or leaves the file with an
  error. `agent.remote_path` of an uploaded agent and `tool_remote_path`, by which a job gives a
  path of its own.
- A second UI server: `imajer ui --listen` on another port starts one with its own `inventoryMu` over
  the same known_hosts. `UiServer` has one port, so `OneConfirmedKey` is about one server at a time.
- `cmd.Wait` is called before the output pipes are read to their end (`ui.go` 681); the last log
  lines may be missing from the display. No property is about log lines.
- A crash inside the very first `SaveState` leaves a directory that every later run refuses
  (`controller.go` 1033): `CaseLifecycle` has the crash and the refusal, and no property, since
  nothing in the repository says what should happen. The space check of a resume (528) asks for
  the whole image again: a choice of the environment here.
- An error frame of the agent: it ends the session like a dead agent. `controller.New` failing: an
  invocation that changes nothing. Providers and their fallback (it renames the provider),
  timestamps, and the total retry counter.
- In `RamAttempts`: a declared memory size, a disk acquired after the memory, and session records.
- The composition of all modules: each resolves what its properties are about and takes the
  others' results as choices. `CaseLifecycle` streams an artifact in one step, `Acquisition` a
  chunk in one frame, `UiOperations` runs a command as a process that ends as it likes.

## 7. What is left

- `RamAttempts` against an abstract one-pass image, as `VerifiedImage` is for the disk.
- The profile `both` as one run of memory and disk: a disk that is acquired after the memory meets
  the attempts of an earlier invocation.
- The integrity panel over a case that a command left alone is still writing: `UiOperations` reads
  the summary in one step.
