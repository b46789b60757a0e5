-------------------------- MODULE RemoteFootprint --------------------------
(***************************************************************************)
(* What one run of the controller puts on the target and takes away again: *)
(* the agent, the tools and the case markers that name them, together with *)
(* the record remote-footprint-marker.json kept on the examiner's side,    *)
(* from which `imajer cleanup` removes what an interrupted run left there. *)
(* Prepare, prepareSourceTool, installRemoteMarker and Cleanup of the      *)
(* controller, Upload, HashFile and Remove of the transports, and the      *)
(* cleanup command, with crashes between any two of their steps.           *)
(*                                                                         *)
(* Abstractions.  A path is a tuple <<owner, kind, number>>: the owner is  *)
(* the run whose random directory it lies in, or 0 for the directory of a  *)
(* preinstalled agent.  A marker is named after its hash, so its path      *)
(* stands for its content.  Over SSH a file first grows under the name     *)
(* <path>.upload and is then renamed, which partial keeps apart.  The      *)
(* result of a hash or of a trial execution is chosen where it is used; a  *)
(* best-effort removal after a failure may or may not succeed.  Manifests, *)
(* probing and identity checks are the outcomes they allow.  A job sets    *)
(* neither agent.remote_path for an upload nor tool_remote_path.  One      *)
(* command runs at a time on a case.                                       *)
(***************************************************************************)
EXTENDS Naturals, Sequences, SequencesExt

CONSTANTS
  Jobs,          \* the jobs considered, see Job
  MaxRuns,       \* bound: runs of the controller
  MaxFaults      \* bound: crashes and failures of link, target or local disk

ASSUME FootprintBounds == MaxRuns \in Nat /\ MaxFaults \in Nat

\* How the agent gets to the target, the transport, the profile, the number of
\* source tools to upload, agent.keep_on_failure, and whether a file of somebody
\* else already lies where the first tool of a preinstalled or local agent goes.
Job == [placement : {"upload", "preinstalled", "local"},
        transport : {"ssh", "winrm", "local"}, profile : {"ram", "disk"},
        tools : Nat, keep : BOOLEAN, occupied : BOOLEAN]

ASSUME JobsAssumption == Jobs \subseteq Job

VARIABLES
  job,
  \* The target, and the examiner's record of it; they survive a crash.
  target,        \* the files of ours and of the preinstalled agent
  partial,       \* paths p for which a file <p>.upload lies there
  altered,       \* markers somebody changed or deleted on the target
  record,        \* remote-footprint-marker.json
  \* The controller.
  stage,         \* where Prepare, Cleanup or the cleanup command stands
  candidate,     \* index of the agent path being tried
  agentPath,     \* c.AgentPath
  agentUploaded, \* c.agentUploaded
  uploadedTools, \* c.uploadedTools
  markerPath,    \* c.markerPath (and c.markerHash, which it determines)
  markerPaths,   \* c.markerPaths
  todo,          \* paths still to be removed by the cleanup under way
  cleanupErr,    \* the cleanup under way has failed somewhere
  \* History of the current run.
  put,           \* paths this run has created on the target
  begun,         \* paths whose temporary file an Upload of this run has created
  lost,          \* of those, the ones a rollback has given up
  runs,          \* runs so far, also the number of the current one
  faults         \* failures so far

remote     == <<target, partial, altered>>
agentVars  == <<candidate, agentPath, agentUploaded>>
markerVars == <<markerPath, markerPaths>>
controller == <<agentVars, uploadedTools, markerVars>>
cleaning   == <<todo, cleanupErr>>
history    == <<put, begun, lost>>
footprint  == <<job, remote, record, stage, controller, cleaning, history, runs, faults>>

-----------------------------------------------------------------------------
\* Paths and the marker.

NoPath == <<0, "none", 0>>
OwnAgent == <<0, "agent", 0>>
ForeignTool == <<0, "tool", 1>>
Owner == IF job.placement = "upload" THEN runs ELSE 0

AgentCandidate(c) == <<runs, "agent", c>>
ToolPath(i) == <<Owner, "tool", i>>
IsMarker(p) == p[2] = "marker"

\* /dev/shm, then /tmp; another transport has one candidate, which is a case
\* of the first succeeding or both failing.
Candidates == 2

NoRecord == [id |-> NoPath, agent |-> NoPath, removeAgent |-> FALSE,
             tools |-> <<>>, prior |-> <<>>]

\* The marker installRemoteMarker writes now.
Marker == [id |-> <<runs, "marker", Len(uploadedTools)>>, agent |-> agentPath,
           removeAgent |-> agentUploaded, tools |-> uploadedTools,
           prior |-> markerPaths]

\* remoteHash of a marker returns its hash.
Intact(id) == id \in target /\ id \notin altered

\* The agent and the tools a record lets the cleanup command remove.
Named(r) == ToSet(r.tools) \cup IF r.removeAgent THEN {r.agent} ELSE {}

\* Defects: the markers go first; nobody asks who installed the agent.
MarkersFirst(tools, removeAgent, agent, markers) ==
  Reverse(markers) \o Reverse(tools) \o IF removeAgent THEN <<agent>> ELSE <<>>
AgentAlways(tools, removeAgent, agent, markers) ==
  Reverse(tools) \o <<agent>> \o Reverse(markers)

\* What is removed, in this order: tools, agent, markers, each newest first.
Worklist(tools, removeAgent, agent, markers) ==
  Reverse(tools) \o (IF removeAgent THEN <<agent>> ELSE <<>>) \o Reverse(markers)

\* One crash, or one failure of the link, the target or the local disk.
Fault == faults < MaxFaults /\ faults' = faults + 1
NoFault == UNCHANGED faults

FootprintInit ==
  /\ job \in Jobs
  /\ target = (IF job.placement = "upload" THEN {} ELSE {OwnAgent})
              \cup (IF job.occupied THEN {ForeignTool} ELSE {})
  /\ partial = {}
  /\ altered = {}
  /\ record = NoRecord
  /\ stage = "idle"
  /\ candidate = 0
  /\ agentPath = NoPath
  /\ agentUploaded = FALSE
  /\ uploadedTools = <<>>
  /\ markerPath = NoPath
  /\ markerPaths = <<>>
  /\ todo = <<>>
  /\ cleanupErr = FALSE
  /\ put = {}
  /\ begun = {}
  /\ lost = {}
  /\ runs = 0
  /\ faults = 0

-----------------------------------------------------------------------------
\* Upload of the transports.

\* The path of the Upload that is due at this stage.
UploadPath == CASE stage = "agent" -> AgentCandidate(candidate)
                [] stage = "mark" -> Marker.id
                [] OTHER -> Last(uploadedTools)

\* SSH creates <path>.upload, which must not exist.
OpenTemp ==
  /\ job.transport = "ssh"
  /\ stage \in {"mark", "upload"} \/ (stage = "agent" /\ job.placement = "upload")
  /\ UploadPath \notin partial
  /\ partial' = partial \cup {UploadPath}
  /\ begun' = begun \cup {UploadPath}
  /\ NoFault
  /\ UNCHANGED <<job, target, altered, record, stage, controller, cleaning, put, lost, runs>>

\* Upload can bring p into being: WinRM overwrites, SSH renames and the local
\* transport creates only where nothing is.
CanCreate(p) ==
  \/ job.transport = "winrm"
  \/ p \notin target /\ (job.transport = "ssh" => p \in begun)

UploadTo(p) ==
  /\ CanCreate(p)
  /\ target' = target \cup {p}
  /\ put' = put \cup {p}
  /\ partial' = partial \ {p}

\* Upload fails on the way and leaves left of {p}, or the temporary file where
\* its removal fails too; a rename whose answer is lost has left p.
Breaks(p, left) ==
  /\ left # {} => CanCreate(p)
  /\ partial' \in {partial, partial \ (begun \cap {p})}
  /\ left # {} => p \notin partial'

-----------------------------------------------------------------------------
\* Prepare: the agent.

\* controller.New connects and opens the case; Prepare is entered.
StartRun ==
  /\ stage = "idle" /\ runs < MaxRuns
  /\ runs' = runs + 1
  /\ stage' = IF job.placement = "local" THEN "probe" ELSE "agent"
  /\ candidate' = 1
  /\ agentPath' = IF job.placement = "local" THEN OwnAgent ELSE NoPath
  /\ put' = {} /\ begun' = {} /\ lost' = {}
  /\ NoFault
  /\ UNCHANGED <<job, remote, record, agentUploaded, uploadedTools, markerVars, cleaning>>

\* A preinstalled agent: AgentPath is set first, then the manifest is loaded
\* and the remote hash looked up in it.
HashPreinstalled ==
  /\ stage = "agent" /\ job.placement = "preinstalled"
  /\ agentPath' = OwnAgent
  /\ \/ stage' = "mark" /\ NoFault
     \/ stage' = "failed" /\ Fault
  /\ UNCHANGED <<job, remote, record, candidate, agentUploaded, uploadedTools,
                 markerVars, cleaning, history, runs>>

\* Defect: the list of candidates has no end.
EndlessCandidates ==
  /\ candidate' = candidate + 1
  /\ stage' = "agent"
  /\ agentPath' = NoPath
  /\ agentUploaded' = FALSE

\* After a candidate failed: the next one, or "upload/execute signed agent".
NextCandidate ==
  /\ candidate' = candidate + 1
  /\ stage' = IF candidate < Candidates THEN "agent" ELSE "failed"
  /\ agentPath' = NoPath
  /\ agentUploaded' = FALSE

\* Upload of the verified local agent to the candidate path.
UploadAgent ==
  /\ stage = "agent" /\ job.placement = "upload"
  /\ LET p == AgentCandidate(candidate)
     IN \/ /\ UploadTo(p)
           /\ agentPath' = p /\ agentUploaded' = TRUE
           /\ stage' = "check"
           /\ NoFault
           /\ UNCHANGED <<lost, candidate>>
        \/ /\ \E left \in SUBSET {p} :
                /\ Breaks(p, left)
                /\ target' = target \cup left
                /\ put' = put \cup left
                /\ lost' = lost \cup left
           /\ Fault
           /\ NextCandidate
  /\ UNCHANGED <<job, altered, record, begun, uploadedTools, markerVars, cleaning, runs>>

\* remoteHash, and `version` run from the candidate: a mount without exec is
\* no failure of the environment.
CheckAgent ==
  /\ stage = "check"
  /\ \/ /\ stage' = "mark"
        /\ NoFault
        /\ UNCHANGED <<target, lost, agentVars>>
     \/ /\ target' = target \ {agentPath}
        /\ NextCandidate
        /\ NoFault
        /\ UNCHANGED lost
     \/ /\ lost' = lost \cup {agentPath}
        /\ NextCandidate
        /\ Fault
        /\ UNCHANGED target
  /\ UNCHANGED <<job, partial, altered, record, uploadedTools, markerVars, cleaning, put,
                 begun, runs>>

-----------------------------------------------------------------------------
\* installRemoteMarker, for the agent and again for every tool.

MarkerFor == IF uploadedTools = <<>> THEN "agent" ELSE "tool"
AfterMarker == IF MarkerFor = "agent" THEN "probe" ELSE "upload"

\* The marker could not be installed; left is what the failed step and its
\* rollback leave behind of it.  The agent uploaded for it is removed too
\* (or not, when that fails as well); a tool was not uploaded yet.
MarkerFails(left) ==
  LET agent == IF MarkerFor = "agent" /\ agentUploaded THEN {agentPath} ELSE {}
  IN /\ \E kept \in SUBSET agent :
          /\ target' = (target \ (agent \cup {Marker.id})) \cup kept \cup left
          /\ lost' = lost \cup kept \cup left
     /\ put' = put \cup left
     /\ agentUploaded' = (agentUploaded /\ agent = {})
     /\ agentPath' = IF agent = {} THEN agentPath ELSE NoPath
     /\ uploadedTools' = IF MarkerFor = "tool" THEN Front(uploadedTools) ELSE uploadedTools
     /\ stage' = "failed"
     /\ Fault

\* Upload of the marker and the check of its remote hash.
UploadMarker ==
  /\ stage = "mark"
  /\ \/ /\ UploadTo(Marker.id)
        /\ stage' = "record"
        /\ NoFault
        /\ UNCHANGED <<agentVars, uploadedTools, lost>>
     \/ /\ \E left \in SUBSET {Marker.id} : Breaks(Marker.id, left) /\ MarkerFails(left)
        /\ UNCHANGED candidate
  /\ UNCHANGED <<job, altered, record, markerVars, cleaning, begun, runs>>

\* AtomicWrite of the local record, which may report a failure after it has
\* replaced the file; then c.markerPath and c.markerPaths.
RecordMarker ==
  /\ stage = "record"
  /\ \/ /\ record' = Marker
        /\ markerPath' = Marker.id
        /\ markerPaths' = Append(markerPaths, Marker.id)
        /\ stage' = IF markerPath = NoPath THEN AfterMarker ELSE "drop"
        /\ NoFault
        /\ UNCHANGED <<target, agentVars, uploadedTools, put, lost>>
     \/ /\ record' \in {record, Marker}
        /\ \E left \in SUBSET {Marker.id} : MarkerFails(left)
        /\ UNCHANGED <<markerVars, candidate>>
  /\ UNCHANGED <<job, partial, altered, cleaning, begun, runs>>

\* Defect: the newest marker is removed in place of the one it replaces.
DropNewMarker ==
  /\ stage = "drop"
  /\ target' = target \ {markerPath}
  /\ stage' = AfterMarker
  /\ NoFault
  /\ UNCHANGED <<job, partial, altered, record, agentVars, uploadedTools, markerVars,
                 cleaning, history, runs>>

\* The marker this one replaces is removed, or stays in c.markerPaths.
DropOldMarker ==
  /\ stage = "drop"
  /\ LET n == Len(markerPaths)
     IN \/ /\ target' = target \ {markerPaths[n - 1]}
           /\ markerPaths' = Append(SubSeq(markerPaths, 1, n - 2), markerPath)
           /\ NoFault
        \/ Fault /\ UNCHANGED <<target, markerPaths>>
  /\ stage' = AfterMarker
  /\ UNCHANGED <<job, partial, altered, record, agentVars, uploadedTools, markerPath,
                 cleaning, history, runs>>

-----------------------------------------------------------------------------
\* Prepare: the rest.

\* Discover, the privilege and platform checks and verifyDiskIdentity.
ProbeTarget ==
  /\ stage = "probe"
  /\ stage' \in {"tool", "failed"}
  /\ NoFault
  /\ UNCHANGED <<job, remote, record, controller, cleaning, history, runs>>

\* Defect: the tool is uploaded without a new marker.
PrepareUnmarked ==
  /\ stage = "tool" /\ Len(uploadedTools) < job.tools
  /\ NoFault
  /\ uploadedTools' = Append(uploadedTools, ToolPath(Len(uploadedTools) + 1))
  /\ stage' = "upload"
  /\ UNCHANGED <<job, remote, record, agentVars, markerVars, cleaning, history, runs>>

\* prepareSourceTool up to the marker: the signed artifact that matches the
\* target is found or not; the path is entered before anything is uploaded.
PrepareTool ==
  /\ stage = "tool" /\ Len(uploadedTools) < job.tools
  /\ NoFault
  /\ \/ /\ uploadedTools' = Append(uploadedTools, ToolPath(Len(uploadedTools) + 1))
        /\ stage' = IF job.placement = "local" THEN "upload" ELSE "mark"
     \/ stage' = "failed" /\ UNCHANGED uploadedTools
  /\ UNCHANGED <<job, remote, record, agentVars, markerVars, cleaning, history, runs>>

\* Upload of the tool.  Where a file already lies in the way it fails, unless
\* WinRM overwrites it or it is the very file the local transport was to copy.
UploadTool ==
  /\ stage = "upload"
  /\ LET p == Last(uploadedTools)
     IN \/ /\ UploadTo(p)
           /\ stage' = "verify"
           /\ NoFault
        \/ /\ job.transport = "local" /\ p \in target
           /\ stage' = "verify"
           /\ NoFault
           /\ UNCHANGED <<target, partial, put>>
        \/ /\ ~CanCreate(p)
           /\ job.transport = "ssh" => p \in begun \cup partial
           /\ partial' = partial \ (begun \cap {p})
           /\ stage' = "failed"
           /\ NoFault
           /\ UNCHANGED <<target, put>>
        \/ /\ \E left \in SUBSET {p} :
                /\ Breaks(p, left)
                /\ \/ target' = target \cup left
                   \/ job.transport = "winrm" /\ left = {} /\ target' = target \ {p}
                /\ put' = put \cup left
           /\ stage' = "failed"
           /\ Fault
  /\ UNCHANGED <<job, altered, record, controller, cleaning, begun, lost, runs>>

\* The remote hash of the tool, and the event that reports it.
VerifyTool ==
  /\ stage = "verify"
  /\ \/ stage' = "tool" /\ NoFault /\ UNCHANGED target
     \/ /\ target' \in {target, target \ {Last(uploadedTools)}}
        /\ stage' = "failed"
        /\ Fault
  /\ UNCHANGED <<job, partial, altered, record, controller, cleaning, history, runs>>

\* validateRAMProvider and target-probe.json.
EndPrepare ==
  /\ stage = "tool" /\ Len(uploadedTools) = job.tools
  /\ stage' \in {"ready", "failed"}
  /\ NoFault
  /\ UNCHANGED <<job, remote, record, controller, cleaning, history, runs>>

PrepareStep ==
  \/ OpenTemp \/ HashPreinstalled \/ UploadAgent \/ CheckAgent
  \/ UploadMarker \/ RecordMarker \/ DropOldMarker
  \/ ProbeTarget \/ PrepareTool \/ UploadTool \/ VerifyTool \/ EndPrepare

-----------------------------------------------------------------------------
\* Cleanup of the controller.

\* Cleanup returns before it has removed anything.
Retained(err) ==
  /\ stage' = "cleaned"
  /\ cleanupErr' = err
  /\ UNCHANGED todo

NeedsMarker == agentUploaded \/ uploadedTools # <<>> \/ markerPath # NoPath

\* keep_on_failure, the new connection, the check of the newest marker, and
\* the cleanup command of the agent.
StartCleanup ==
  /\ stage \in {"ready", "failed"}
  /\ \/ job.keep /\ Retained(FALSE) /\ NoFault
     \/ ~job.keep /\ job.placement # "local" /\ Retained(TRUE) /\ Fault
     \/ /\ ~job.keep /\ NeedsMarker /\ markerPath = NoPath
        /\ Retained(TRUE) /\ NoFault
     \/ /\ ~job.keep /\ markerPath # NoPath
        /\ \/ ~Intact(markerPath) /\ NoFault
           \/ Fault
        /\ Retained(TRUE)
     \/ /\ ~job.keep
        /\ NeedsMarker => markerPath # NoPath /\ Intact(markerPath)
        /\ todo' = Worklist(uploadedTools, agentUploaded, agentPath, markerPaths)
        /\ stage' = "removing"
        /\ \/ cleanupErr' = FALSE /\ NoFault
           \/ agentPath # NoPath /\ cleanupErr' = TRUE /\ Fault
  /\ UNCHANGED <<job, remote, record, controller, history, runs>>

\* Defect: the failure of a removal is not reported.
RemoveQuietly ==
  /\ stage \in {"removing", "manual"} /\ todo # <<>>
  /\ todo' = Tail(todo)
  /\ (target' = target \ {Head(todo)} /\ NoFault) \/ (Fault /\ UNCHANGED target)
  /\ UNCHANGED <<job, partial, altered, record, stage, controller, cleanupErr, history, runs>>

\* One removal; a failure is noted and the next path is removed all the same.
RemoveNext ==
  /\ stage \in {"removing", "manual"} /\ todo # <<>>
  /\ todo' = Tail(todo)
  /\ \/ target' = target \ {Head(todo)} /\ NoFault /\ UNCHANGED cleanupErr
     \/ Fault /\ cleanupErr' = TRUE /\ UNCHANGED target
  /\ UNCHANGED <<job, partial, altered, record, stage, controller, history, runs>>

EndCleanup ==
  /\ stage = "removing" /\ todo = <<>>
  /\ stage' = "cleaned"
  /\ NoFault
  /\ UNCHANGED <<job, remote, record, controller, cleaning, history, runs>>

CleanupStep == StartCleanup \/ EndCleanup \/ (stage = "removing" /\ RemoveNext)

\* The controller is gone, because the command ended or the process died.
Gone ==
  /\ stage' = "idle"
  /\ candidate' = 0 /\ agentPath' = NoPath /\ agentUploaded' = FALSE
  /\ uploadedTools' = <<>> /\ markerPath' = NoPath /\ markerPaths' = <<>>
  /\ todo' = <<>> /\ cleanupErr' = FALSE
  /\ UNCHANGED <<job, remote, record, history, runs>>

-----------------------------------------------------------------------------
\* `imajer cleanup`: the local record names what may be removed, and only if
\* the remote marker it describes still has the recorded hash.
ManualCleanup ==
  /\ stage = "idle" /\ record # NoRecord
  /\ Intact(record.id)
  /\ stage' = "manual"
  /\ todo' = Worklist(record.tools, record.removeAgent, record.agent,
                      <<record.id>> \o record.prior)
  /\ NoFault
  /\ UNCHANGED <<job, remote, record, controller, cleanupErr, history, runs>>

\* It ends, or dies with paths left to remove.
EndManual ==
  /\ stage = "manual"
  /\ Gone
  /\ (todo = <<>> /\ NoFault) \/ Fault

\* Somebody changes or deletes a marker on the target.
AlterMarker ==
  /\ \E p \in {q \in target : IsMarker(q)} \ altered :
       /\ altered' = altered \cup {p}
       /\ target' \in {target, target \ {p}}
  /\ Fault
  /\ UNCHANGED <<job, partial, record, stage, controller, cleaning, history, runs>>

-----------------------------------------------------------------------------
\* Properties.

\* The values the variables take.
FootprintTypeOK ==
  /\ job \in Jobs
  /\ stage \in {"idle", "agent", "check", "mark", "record", "drop", "probe", "tool",
                "upload", "verify", "ready", "failed", "removing", "cleaned", "manual"}
  /\ candidate \in 0..(Candidates + 1)
  /\ lost \subseteq put
  /\ agentUploaded \in BOOLEAN /\ cleanupErr \in BOOLEAN
  /\ runs \in 0..MaxRuns /\ faults \in 0..MaxFaults

\* The agent and the tools this run has on the target and has not given up.
Own == {p \in (target \cap put) \ lost : ~IsMarker(p)}

\* The tools of this run whose temporary file is still there.
HalfSent == {p \in partial \cap begun : p[2] = "tool"}

\* From the first marker on, at every instant, the local record names each tool
\* and agent this run has on the target, and each tool it has there only in
\* part: a run that dies now leaves files under names the record gives, or an
\* SSH temporary next to such a name (marker before upload, local record before
\* the old marker goes).
OwnFilesAreRecorded ==
  markerPath # NoPath /\ record.id = markerPath => Own \cup HalfSent \subseteq Named(record)

\* While Cleanup removes and no removal has failed, the marker the record
\* describes outlives every own file it names: an interrupted cleanup can always
\* be finished by hand.
MarkerGoesLast ==
  stage = "removing" /\ ~cleanupErr /\ record.id = markerPath /\ markerPath \notin altered
    => Own = {} \/ markerPath \in target

\* A file of ours on the target that `imajer cleanup` would remove stays within
\* its reach until it is removed, unless a later run has replaced the record,
\* somebody altered the marker, a removal failed before the marker went, or the
\* record was replaced by a write that then reported a failure.
Foreign == {OwnAgent} \cup IF job.occupied THEN {ForeignTool} ELSE {}
InReach == IF Intact(record.id) THEN (Named(record) \cap target) \ Foreign ELSE {}
CleanupKeepsItsReach ==
  [][(InReach \cap target') \ InReach' # {} =>
       \/ record'.id[1] # record.id[1]
       \/ record'.id \in altered'
       \/ cleanupErr
       \/ stage = "record" /\ stage' = "failed"]_footprint

\* No step of a run, a rollback or a cleanup takes away an agent that was
\* there before.  (A file of somebody else that lies where a tool goes is not
\* as safe: its path is entered before the upload that fails on it, and Cleanup
\* removes it.)
PreinstalledStays == job.placement # "upload" => OwnAgent \in target

\* What docs/KULLANIM_KILAVUZU.md:835 promises of `imajer cleanup`: once it has
\* removed every path without a failure, no agent or tool file is left of a run
\* that was interrupted (ssh.go, Upload; main.go, cleanup).
CleanupLeavesNothing ==
  stage = "manual" /\ todo = <<>> /\ ~cleanupErr => Own \cup HalfSent = {}

=============================================================================
