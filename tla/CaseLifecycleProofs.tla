------------------------ MODULE CaseLifecycleProofs -------------------------
(***************************************************************************)
(* Theorems about the commands on one case, for every set of jobs, keys,   *)
(* artifacts and every number of runs and failures.                        *)
(*                                                                         *)
(* The package.  Sealed says how much of index, signature and key already  *)
(* fits the tree while a command seals it; that nothing else can write to  *)
(* the tree meanwhile is what Place says of the two program counters       *)
(* (step for the command, stage for the controller).                       *)
(***************************************************************************)
EXTENDS CaseLifecycle, SequenceTheorems, TLAPS

Sealing == {"load", "json", "pdf", "index", "sig", "pub"}

\* Where the controller can be while the command is at step.
Place ==
  /\ step \in {"none", "prepare", "create", "first", "stream", "cleanup"} \cup Sealing
  /\ cmd = "none" <=> step = "none"
  /\ cmd = "none" => stage \in {"idle", "manual"}
  /\ step \in Sealing => stage \in {"idle", "cleaned"}
  /\ step = "prepare" => stage \notin {"idle", "manual", "removing", "cleaned"}
  /\ step \in {"create", "first", "stream"} => stage = "ready"
  /\ step = "cleanup" => stage \in {"ready", "failed", "removing", "cleaned"}

Verifies == exit.ok /\ exit.cmd \in {"acquire", "report"} => VerifyIndex(pub)

Sealed ==
  /\ DOMAIN tree = File
  /\ step \in {"sig", "pub"} => index.files = tree /\ index # NoIndex
  /\ step = "pub" => sig = index
  /\ cmd # "none" => exit = NoExit
  /\ Verifies

PackInv == Place /\ Sealed

LEMMA PackInit == Init => PackInv
  BY DEF Init, FootprintInit, PackageInit, PackInv, Place, Sealed, Sealing, NoExit, Verifies

LEMMA TouchKeeps == ASSUME NEW files, Touch(files) PROVE DOMAIN tree' = File
  BY DEF Touch

\* A step that leaves what a successful command has sealed.
LEMMA ExitKept ==
  ASSUME PackInv, cmd' # "none", exit' = NoExit, DOMAIN tree' = File,
         step' \notin {"sig", "pub"}
  PROVE  Sealed'
  BY DEF PackInv, Sealed, Verifies, NoExit

LEMMA PackBegin == ASSUME PackInv, Begin PROVE PackInv'
<1>1. /\ cmd' \in {"acquire", "discover"} /\ step' = "prepare" /\ exit' = NoExit
      /\ DOMAIN tree' = File /\ stage' \in {"probe", "agent"}
  BY DEF Begin, OpenCase, StartRun, Touch
<1>. QED
  BY <1>1, ExitKept DEF PackInv, Place, Sealing

LEMMA PackPrepare == ASSUME PackInv, Prepare PROVE PackInv'
<1>1. /\ step = "prepare" /\ UNCHANGED <<cmd, step, exit>> /\ DOMAIN tree' = File
  BY DEF Prepare, Writing, Touch, command
<1>2. stage' \notin {"idle", "manual", "removing", "cleaned"}
  BY <1>1 DEF Prepare, PackInv, Place, PrepareStep, OpenTemp, HashPreinstalled, UploadAgent,
         CheckAgent, UploadMarker, RecordMarker, DropOldMarker, ProbeTarget, PrepareTool, UploadTool,
         VerifyTool, EndPrepare, NextCandidate, MarkerFails, AfterMarker
<1>. QED
  BY <1>1, <1>2, ExitKept DEF PackInv, Place, Sealing, Sealed

LEMMA PackAcquire == ASSUME PackInv, Acquire PROVE PackInv'
<1>1. /\ stage = "ready" /\ UNCHANGED <<stage, cmd, exit>> /\ DOMAIN tree' = File
      /\ step \in {"prepare", "create", "first", "stream"}
      /\ step' \in {"create", "first", "stream", "cleanup"}
  BY DEF Acquire, CheckSpace, CreateArtifact, Stream, SaveFirstState, EndAcquire, Touch,
         directory, PackInv, Sealed
<1>. QED
  BY <1>1, ExitKept DEF PackInv, Place, Sealing, Sealed

LEMMA PackCleanup == ASSUME PackInv, Cleanup PROVE PackInv'
<1>1. CASE step' = "cleanup" /\ StartCleanup /\ Touch({"events"}) /\ UNCHANGED <<cmd, exit>>
  <2>1. stage \in {"ready", "failed"} /\ stage' \in {"cleaned", "removing"}
    BY <1>1 DEF StartCleanup, Retained
  <2>2. cmd # "none"
    BY <2>1 DEF PackInv, Place
  <2>. QED
    BY <1>1, <2>1, <2>2, TouchKeeps, ExitKept DEF PackInv, Place, Sealing, Sealed
<1>2. CASE stage = "removing" /\ CleanupStep /\ Writing({"events"})
  <2>1. stage' \in {"removing", "cleaned"} /\ UNCHANGED <<cmd, step, exit>> /\ DOMAIN tree' = File
    BY <1>2 DEF CleanupStep, StartCleanup, EndCleanup, RemoveNext, Writing, Touch, command
  <2>2. step = "cleanup"
    BY <1>2 DEF PackInv, Place, Sealing
  <2>. QED
    BY <2>1, <2>2, ExitKept DEF PackInv, Place, Sealing, Sealed
<1>. QED
  BY <1>1, <1>2 DEF Cleanup

LEMMA PackAfterCleanup == ASSUME PackInv, AfterCleanup PROVE PackInv'
<1>1. CASE /\ cmd = "acquire" /\ step' = "load"
           /\ UNCHANGED <<cmd, exit, footprint>>
  BY <1>1, ExitKept DEF AfterCleanup, PackInv, Place, Sealing, Sealed, footprint, directory
<1>2. CASE cmd = "discover" /\ Finish(cleanupErr) /\ Gone /\ NoFault
  <2>1. /\ cmd' = "none" /\ step' = "none" /\ stage' = "idle"
        /\ exit'.cmd = "discover" /\ UNCHANGED tree
    BY <1>2 DEF Finish, Gone, AfterCleanup, directory
  <2>. QED
    BY <2>1 DEF PackInv, Place, Sealing, Sealed, Verifies
<1>. QED
  BY <1>1, <1>2 DEF AfterCleanup

\* A sealing step that fails ends the command with an error.
LEMMA PackFails ==
  ASSUME PackInv, Finish(TRUE), Gone, DOMAIN tree' = File
  PROVE  PackInv'
<1>1. cmd' = "none" /\ step' = "none" /\ stage' = "idle" /\ ~exit'.ok
  BY DEF Finish, Gone
<1>. QED
  BY <1>1 DEF PackInv, Place, Sealing, Sealed, Verifies

LEMMA PackSeal == ASSUME PackInv, Seal PROVE PackInv'
<1>. PICK f \in BOOLEAN :
       /\ \/ LoadStates(f, cleanupErr)
          \/ WriteJSON(f) \/ WritePDF(f)
          \/ WriteIndex(f) \/ WriteSignature(f) \/ WritePublicKey(f)
       /\ IF cmd' = "none" THEN Gone
          ELSE UNCHANGED <<job, remote, record, stage, controller, cleaning, history, runs>>
  BY DEF Seal
<1>0. DOMAIN tree' = File
  BY TouchKeeps DEF LoadStates, WriteJSON, WritePDF, WriteIndex, WriteSignature,
                    WritePublicKey, PackInv, Sealed
<1>1. CASE Finish(TRUE)
  BY <1>0, <1>1, PackFails DEF Finish
<1>2. ASSUME step \in Sealing, step' \in Sealing \ {"sig", "pub"}, UNCHANGED <<cmd, exit>>
      PROVE  PackInv'
  <2>1. cmd # "none" /\ cmd' # "none" /\ exit' = NoExit /\ UNCHANGED stage
    BY <1>2 DEF PackInv, Place, Sealing, Sealed
  <2>. QED
    BY <1>0, <1>2, <2>1, ExitKept DEF PackInv, Place, Sealing
<1>3. CASE LoadStates(f, cleanupErr)
  BY <1>2, <1>3 DEF LoadStates, Sealing
<1>4. CASE WriteJSON(f)
  BY <1>1, <1>2, <1>4 DEF WriteJSON, Sealing
<1>5. CASE WritePDF(f)
  BY <1>1, <1>2, <1>5 DEF WritePDF, Sealing
<1>6. CASE WriteIndex(f) /\ ~Finish(TRUE)
  <2>1. PICK k \in Keys : index' = [files |-> tree, key |-> k]
    BY <1>6 DEF WriteIndex
  <2>2. step = "index" /\ step' = "sig" /\ UNCHANGED <<cmd, exit, tree>>
    BY <1>6 DEF WriteIndex
  <2>3. index'.files = tree
    BY <2>1
  <2>4. index' # NoIndex
    <3>1. "events" \in File
      BY DEF File
    <3>. QED
      BY <2>3, <3>1 DEF NoIndex, PackInv, Sealed
  <2>5. cmd # "none" /\ exit' = NoExit /\ UNCHANGED stage
    BY <2>2 DEF PackInv, Place, Sealing, Sealed
  <2>. QED
    BY <1>0, <2>2, <2>3, <2>4, <2>5 DEF PackInv, Place, Sealing, Sealed, Verifies, NoExit
<1>7. CASE WriteSignature(f) /\ ~Finish(TRUE)
  <2>1. /\ sig' = index /\ step = "sig" /\ step' = "pub" /\ UNCHANGED <<cmd, exit, tree, index>>
    BY <1>7 DEF WriteSignature
  <2>2. cmd # "none" /\ exit' = NoExit /\ UNCHANGED stage
    BY <2>1 DEF PackInv, Place, Sealing, Sealed
  <2>. QED
    BY <1>0, <2>1, <2>2 DEF PackInv, Place, Sealing, Sealed, Verifies, NoExit
<1>8. CASE WritePublicKey(f) /\ ~Finish(TRUE)
  <2>1. ~f /\ Finish(FALSE)
    BY <1>8 DEF WritePublicKey
  <2>2. /\ pub' = index.key /\ step = "pub" /\ UNCHANGED <<tree, index, sig>>
    BY <1>8, <2>1 DEF WritePublicKey
  <2>3. cmd' = "none" /\ step' = "none" /\ stage' = "idle"
    BY <2>1 DEF Finish, Gone
  <2>4. VerifyIndex(pub)'
    BY <2>2 DEF VerifyIndex, PackInv, Sealed
  <2>. QED
    BY <1>0, <2>3, <2>4 DEF PackInv, Place, Sealing, Sealed, Verifies
<1>. QED
  BY <1>1, <1>3, <1>4, <1>5, <1>6, <1>7, <1>8

LEMMA PackReport == ASSUME PackInv, BeginReport PROVE PackInv'
<1>1. /\ cmd' = "report" /\ step' = "json" /\ exit' = NoExit /\ UNCHANGED <<tree, stage>>
      /\ stage = "idle"
  BY DEF BeginReport, StartReport, footprint, directory
<1>. QED
  BY <1>1, ExitKept DEF PackInv, Place, Sealing, Sealed

LEMMA PackOther ==
  ASSUME PackInv, CleanupCommand \/ Crash \/ Environment \/ UNCHANGED vars
  PROVE  PackInv'
<1>1. CASE UNCHANGED package /\ (stage' = stage \/ (cmd = "none" /\ stage' \in {"idle", "manual"}))
  BY <1>1 DEF package, directory, command, PackInv, Place, Sealing, Sealed, Verifies,
              VerifyIndex
<1>2. CleanupCommand => UNCHANGED package /\ cmd = "none" /\ stage' \in {"idle", "manual"}
  BY DEF CleanupCommand, ManualCleanup, RemoveNext, EndManual, Gone
<1>3. Environment \/ UNCHANGED vars => UNCHANGED package /\ stage' = stage
  BY DEF Environment, AlterMarker, vars, footprint
<1>4. CASE Crash
  <2>1. cmd' = "none" /\ step' = "none" /\ stage' = "idle" /\ exit' = NoExit /\ DOMAIN tree' = File
    BY <1>4, TouchKeeps DEF Crash, Die, Gone, PackInv, Sealed
  <2>. QED
    BY <2>1 DEF PackInv, Place, Sealing, Sealed, Verifies, NoExit
<1>. QED
  BY <1>1, <1>2, <1>3, <1>4

LEMMA PackStep == PackInv /\ [Next]_vars => PackInv'
  BY PackBegin, PackPrepare, PackAcquire, PackCleanup, PackAfterCleanup, PackSeal, PackReport,
     PackOther DEF Next

\* The report of this run has the sessions, unless it is to end with an error.
Listing ==
  /\ step = "json" /\ ~failed => data.sessions
  /\ step \in {"pdf", "index", "sig", "pub"} /\ ~failed => json.sessions
  /\ exit.ok /\ exit.cmd \in {"acquire", "report"} => json.sessions

LEMMA ListingQuiet ==
  ASSUME step' \notin {"json", "pdf", "index", "sig", "pub"},
         exit'.cmd \notin {"acquire", "report"}
  PROVE  Listing'
  BY DEF Listing

LEMMA ListingInit == Init => Listing
  BY ListingQuiet DEF Init, PackageInit, Listing, NoExit

LEMMA ListingFirst ==
  ASSUME PackInv, Begin \/ Prepare \/ Acquire \/ Cleanup \/ AfterCleanup \/ Crash
  PROVE  Listing'
<1>1. step' \notin {"json", "pdf", "index", "sig", "pub"}
  BY DEF Begin, OpenCase, Prepare, Writing, command, Acquire, CheckSpace, CreateArtifact,
         SaveFirstState, Stream, EndAcquire, Cleanup, StartCleanup, AfterCleanup, Finish, Crash,
         Die, PackInv, Place, Sealing
<1>2. exit'.cmd \notin {"acquire", "report"}
  <2>1. CASE Begin \/ Crash
    BY <2>1 DEF Begin, OpenCase, Crash, Die, NoExit
  <2>2. CASE Prepare \/ Acquire
    <3>1. exit' = exit /\ cmd # "none"
      BY <2>2 DEF Prepare, Writing, command, Acquire, CheckSpace, CreateArtifact, SaveFirstState,
                  Stream, PackInv, Place
    <3>. QED
      BY <3>1 DEF PackInv, Sealed, NoExit
  <2>3. CASE Cleanup
    <3>1. exit' = exit /\ cmd # "none"
      BY <2>3 DEF Cleanup, StartCleanup, Writing, command, PackInv, Place
    <3>. QED
      BY <3>1 DEF PackInv, Sealed, NoExit
  <2>4. CASE AfterCleanup
    BY <2>4 DEF AfterCleanup, Finish, PackInv, Sealed, NoExit
  <2>. QED
    BY <2>1, <2>2, <2>3, <2>4
<1>. QED
  BY <1>1, <1>2, ListingQuiet

LEMMA ListingSeal == ASSUME PackInv, Listing, Seal PROVE Listing'
<1>. PICK f \in BOOLEAN :
       \/ LoadStates(f, cleanupErr)
       \/ WriteJSON(f) \/ WritePDF(f)
       \/ WriteIndex(f) \/ WriteSignature(f) \/ WritePublicKey(f)
  BY DEF Seal
<1>0. Finish(TRUE) => step' = "none" /\ ~exit'.ok
  <2>. SUFFICES ASSUME Finish(TRUE) PROVE step' = "none" /\ ~exit'.ok
    OBVIOUS
  <2>1. step' = "none" /\ exit' = [cmd |-> cmd, ok |-> ~(failed \/ TRUE)]
    BY DEF Finish
  <2>2. ~(failed \/ TRUE) = FALSE
    OBVIOUS
  <2>. QED
    BY <2>1, <2>2
<1>1. step # "none" => exit = NoExit
  BY DEF PackInv, Place, Sealed
<1>2. CASE LoadStates(f, cleanupErr)
  <2>1. PICK list \in {Loaded(f), Loaded(FALSE)} :
          /\ data' = [by |-> "acquire", warn |-> cleanupErr, loaded |-> ~f,
                      listed |-> States(list), sessions |-> list \cap garbled = {}]
          /\ Fails(LoadErr(list, f \/ cleanupErr))
    BY <1>2 DEF LoadStates
  <2>2. ~failed' => data'.sessions
    BY <2>1 DEF Fails, LoadErr
  <2>3. step' = "json" /\ exit' = NoExit
    BY <1>1, <1>2 DEF LoadStates
  <2>. QED
    BY <2>2, <2>3 DEF Listing, NoExit
<1>3. CASE WriteJSON(f)
  <2>1. step = "json" /\ \/ step' = "pdf" /\ json' = data /\ UNCHANGED <<failed, exit>>
                         \/ step' = "none" /\ ~exit'.ok
    BY <1>0, <1>3 DEF WriteJSON
  <2>. QED
    BY <1>1, <2>1 DEF Listing, NoExit
<1>4. CASE WritePDF(f) \/ WriteIndex(f) \/ WriteSignature(f)
  <2>1. /\ step \in {"pdf", "index", "sig"} /\ json' = json
        /\ \/ step' \in {"index", "sig", "pub"} /\ UNCHANGED <<failed, exit>>
           \/ step' = "none" /\ ~exit'.ok
    BY <1>0, <1>4 DEF WritePDF, WriteIndex, WriteSignature
  <2>. QED
    BY <1>1, <2>1 DEF Listing, NoExit
<1>5. CASE WritePublicKey(f)
  <2>1. step = "pub" /\ step' = "none" /\ json' = json /\ (exit'.ok => ~failed)
    BY <1>5 DEF WritePublicKey, Finish
  <2>. QED
    BY <2>1 DEF Listing
<1>. QED
  BY <1>2, <1>3, <1>4, <1>5

LEMMA ListingReport == ASSUME BeginReport PROVE Listing'
<1>1. step' = "json" /\ data'.sessions /\ exit' = NoExit
  BY DEF BeginReport, StartReport
<1>. QED
  BY <1>1 DEF Listing, NoExit

LEMMA ListingStep == PackInv /\ Listing /\ [Next]_vars => Listing'
<1>. SUFFICES ASSUME PackInv, Listing, [Next]_vars PROVE Listing'
  OBVIOUS
<1>1. CASE CleanupCommand \/ Environment \/ UNCHANGED vars
  <2>1. UNCHANGED package
    BY <1>1 DEF CleanupCommand, Environment, vars
  <2>. QED
    BY <2>1 DEF package, directory, command, Listing
<1>. QED
  BY <1>1, ListingFirst, ListingSeal, ListingReport DEF Next

\* A command that succeeds has left a package that verifies, and keeps verifying
\* until the next command, and has the sessions of every artifact it lists in
\* its report (main.go, acquire, loadAllSessions, regenerateReport; report.go,
\* FinalizeIndex, VerifyIndex).
THEOREM SuccessSealed == Spec => []SuccessIsSealed
<1>1. PackInv /\ Listing => SuccessIsSealed
  BY DEF PackInv, Sealed, Verifies, Listing, SuccessIsSealed
<1>. QED
  BY PackInit, PackStep, ListingInit, ListingStep, <1>1, PTL DEF Spec

-----------------------------------------------------------------------------
(* The footprint: what kinds of paths the controller and the record hold. *)

PathsOf(kind) == Nat \X {kind} \X Nat
Removable == PathsOf("tool") \cup PathsOf("marker")

Kinds ==
  /\ runs \in Nat
  /\ uploadedTools \in Seq(PathsOf("tool"))
  /\ markerPaths \in Seq(PathsOf("marker"))
  /\ record.tools \in Seq(PathsOf("tool"))
  /\ record.prior \in Seq(PathsOf("marker"))
  /\ record # NoRecord => record.id \in PathsOf("marker")
  /\ markerPath # NoPath => Len(markerPaths) >= 1
  /\ stage = "drop" => Len(markerPaths) >= 2 /\ markerPath \in PathsOf("marker")
  /\ stage \in {"upload", "verify"} => uploadedTools # <<>>

\* Where the agent was there before, it is on no list of things to remove.
Preinstalled ==
  job.placement # "upload" =>
    /\ OwnAgent \in target
    /\ agentUploaded = FALSE /\ record.removeAgent = FALSE
    /\ stage # "check"
    /\ todo \in Seq(Removable)

FootInv == Kinds /\ Preinstalled

LEMMA ReverseType == ASSUME NEW S, NEW s \in Seq(S) PROVE Reverse(s) \in Seq(S)
  BY DEF Reverse

LEMMA FrontType ==
  ASSUME NEW S, NEW s \in Seq(S), s # <<>>
  PROVE  /\ Front(s) \in Seq(S)
         /\ Len(Front(s)) = Len(s) - 1
         /\ \A i \in 1..(Len(s) - 1) : Front(s)[i] = s[i]
<1>1. Len(s) \in Nat /\ Len(s) >= 1
  OBVIOUS
<1>2. Len(s) - 1 \in Int /\ 1 \in Int /\ \A i \in 1..(Len(s) - 1) : s[i] \in S
  BY <1>1
<1>3. /\ SubSeq(s, 1, Len(s) - 1) \in Seq(S)
      /\ Len(SubSeq(s, 1, Len(s) - 1)) = IF 1 <= Len(s) - 1 THEN Len(s) - 1 - 1 + 1 ELSE 0
      /\ \A i \in 1..(Len(s) - 1 - 1 + 1) : SubSeq(s, 1, Len(s) - 1)[i] = s[1 + i - 1]
  BY ONLY <1>2, SubSeqProperties
<1>4. Front(s) = SubSeq(s, 1, Len(s) - 1)
  BY DEF Front
<1>5. Len(s) - 1 - 1 + 1 = Len(s) - 1 /\ \A i \in 1..(Len(s) - 1) : 1 + i - 1 = i
  BY <1>1
<1>6. Len(Front(s)) = Len(s) - 1
  <2>1. Len(SubSeq(s, 1, Len(s) - 1)) = IF 1 <= Len(s) - 1 THEN Len(s) - 1 ELSE 0
    BY <1>3, <1>5
  <2>2. (1 <= Len(s) - 1) \/ Len(s) - 1 = 0
    <3>1. \A n \in Nat : n >= 1 => (1 <= n - 1) \/ n - 1 = 0
      OBVIOUS
    <3>. QED
      BY ONLY <1>1, <3>1
  <2>. QED
    BY <1>4, <2>1, <2>2
<1>7. \A i \in 1..(Len(s) - 1) : Front(s)[i] = s[i]
  <2>. TAKE i \in 1..(Len(s) - 1)
  <2>1. SubSeq(s, 1, Len(s) - 1)[i] = s[1 + i - 1]
    BY <1>3, <1>5
  <2>. QED
    BY <1>4, <1>5, <2>1
<1>. QED
  BY <1>3, <1>4, <1>6, <1>7

LEMMA WorklistType ==
  ASSUME NEW tools \in Seq(PathsOf("tool")), NEW markers \in Seq(PathsOf("marker")), NEW agent
  PROVE  Worklist(tools, FALSE, agent, markers) \in Seq(Removable)
<1>1. Reverse(tools) \in Seq(Removable) /\ Reverse(markers) \in Seq(Removable)
  <2>1. tools \in Seq(Removable) /\ markers \in Seq(Removable)
    BY DEF Removable
  <2>. QED
    BY <2>1, ReverseType
<1>. QED
  BY <1>1 DEF Worklist

LEMMA MarkerType ==
  ASSUME Kinds
  PROVE  /\ Marker.id \in PathsOf("marker") /\ Marker.id # NoPath
         /\ Marker.tools = uploadedTools /\ Marker.prior = markerPaths
         /\ Marker.removeAgent = agentUploaded /\ Marker.agent = agentPath
  BY DEF Kinds, Marker, PathsOf, NoPath

LEMMA FootInit == Init => FootInv
<1>. SUFFICES ASSUME Init PROVE FootInv
  OBVIOUS
<1>1. NoRecord.tools = <<>> /\ NoRecord.prior = <<>> /\ NoRecord.removeAgent = FALSE
  BY DEF NoRecord
<1>. QED
  BY <1>1 DEF Init, FootprintInit, FootInv, Kinds, Preinstalled

\* What the rest of the program does to the footprint.
LEMMA Steps ==
  ASSUME [Next]_vars
  PROVE  \/ StartRun \/ PrepareStep \/ StartCleanup \/ EndCleanup
         \/ (stage \in {"removing", "manual"} /\ RemoveNext)
         \/ ManualCleanup \/ Gone \/ AlterMarker
         \/ UNCHANGED <<job, remote, record, stage, controller, cleaning, history, runs>>
  BY DEF Next, Begin, Prepare, Acquire, Cleanup, AfterCleanup, Seal, BeginReport, CleanupCommand,
         Crash, Environment, CleanupStep, EndManual, vars, footprint

LEMMA OwnerType == ASSUME runs \in Nat PROVE Owner \in Nat
  BY DEF Owner

\* Nothing that is removed by kind is the agent.
LEMMA NotAgent == OwnAgent \notin PathsOf("tool") \cup PathsOf("marker")
  BY DEF OwnAgent, PathsOf

\* Steps that only move the stage, or choose an agent.
LEMMA FootSimple ==
  ASSUME FootInv,
         OpenTemp \/ HashPreinstalled \/ UploadAgent \/ ProbeTarget \/ EndPrepare
           \/ EndCleanup \/ Gone
           \/ UNCHANGED <<job, remote, record, stage, controller, cleaning, history, runs>>
  PROVE  FootInv'
<1>1. CASE HashPreinstalled
  BY <1>1 DEF HashPreinstalled, FootInv, Kinds, Preinstalled, NoFault, Fault, remote, markerVars,
              cleaning, history
<1>2. CASE UploadAgent
  <2>1. job.placement = "upload" /\ job' = job /\ stage' \in {"check", "agent", "failed"}
        /\ UNCHANGED <<record, uploadedTools, markerPath, markerPaths, runs>>
    BY <1>2 DEF UploadAgent, NextCandidate, markerVars
  <2>. QED
    BY <2>1 DEF FootInv, Kinds, Preinstalled
<1>3. CASE ProbeTarget \/ EndPrepare
  <2>1. stage' \in {"tool", "ready", "failed"}
        /\ UNCHANGED <<job, remote, record, controller, cleaning, runs>>
    BY <1>3 DEF ProbeTarget, EndPrepare
  <2>. QED
    BY <2>1 DEF FootInv, Kinds, Preinstalled, remote, controller, agentVars, markerVars, cleaning
<1>4. CASE EndCleanup
  BY <1>4 DEF EndCleanup, FootInv, Kinds, Preinstalled, remote, controller, agentVars, markerVars,
              cleaning
<1>5. CASE Gone
  BY <1>5 DEF Gone, FootInv, Kinds, Preinstalled, remote
<1>6. CASE OpenTemp \/ UNCHANGED <<job, remote, record, stage, controller, cleaning, history, runs>>
  BY <1>6 DEF OpenTemp, FootInv, Kinds, Preinstalled, remote, controller, agentVars, markerVars,
              cleaning
<1>. QED
  BY <1>1, <1>2, <1>3, <1>4, <1>5, <1>6

LEMMA FootStart == ASSUME FootInv, StartRun PROVE FootInv'
  BY DEF StartRun, FootInv, Kinds, Preinstalled, remote, markerVars, cleaning

LEMMA FootCheck == ASSUME FootInv, CheckAgent PROVE FootInv'
<1>1. job.placement = "upload" /\ job' = job /\ stage' \in {"mark", "agent", "failed"}
      /\ UNCHANGED <<record, uploadedTools, markerPath, markerPaths, runs>>
  BY DEF CheckAgent, NextCandidate, markerVars, FootInv, Preinstalled
<1>. QED
  BY <1>1 DEF FootInv, Kinds, Preinstalled

\* A marker that could not be installed.
LEMMA FootMarkerFails ==
  ASSUME FootInv, NEW left \in SUBSET {Marker.id}, MarkerFails(left)
  PROVE  /\ stage' = "failed"
         /\ uploadedTools' \in Seq(PathsOf("tool"))
         /\ job.placement # "upload" => OwnAgent \in target' /\ agentUploaded' = FALSE
<1>1. Front(uploadedTools) \in Seq(PathsOf("tool")) \/ uploadedTools = <<>>
  BY FrontType DEF FootInv, Kinds
<1>2. stage' = "failed" /\ uploadedTools' \in Seq(PathsOf("tool"))
  BY <1>1 DEF MarkerFails, MarkerFor, FootInv, Kinds
<1>3. ASSUME job.placement # "upload"
      PROVE  OwnAgent \in target' /\ agentUploaded' = FALSE
  <2>1. Marker.id # OwnAgent
    BY MarkerType, NotAgent DEF FootInv
  <2>2. agentUploaded = FALSE /\ OwnAgent \in target
    BY <1>3 DEF FootInv, Preinstalled
  <2>. QED
    BY <2>1, <2>2 DEF MarkerFails
<1>. QED
  BY <1>2, <1>3

LEMMA FootUploadMarker == ASSUME FootInv, UploadMarker PROVE FootInv'
<1>1. UNCHANGED <<job, record, markerPath, markerPaths, runs, todo>>
  BY DEF UploadMarker, markerVars, cleaning
<1>2. CASE \E left \in SUBSET {Marker.id} : MarkerFails(left)
  BY <1>1, <1>2, FootMarkerFails DEF FootInv, Kinds, Preinstalled
<1>3. CASE stage' = "record" /\ target' = target \cup {Marker.id}
           /\ UNCHANGED <<agentVars, uploadedTools, lost>>
  BY <1>1, <1>3 DEF FootInv, Kinds, Preinstalled, agentVars
<1>. QED
  BY <1>2, <1>3 DEF UploadMarker, UploadTo

LEMMA FootRecordMarker == ASSUME FootInv, RecordMarker PROVE FootInv'
<1>1. UNCHANGED <<job, runs, todo>>
  BY DEF RecordMarker, cleaning
<1>2. record' \in {record, Marker}
  BY DEF RecordMarker
<1>3. /\ record'.tools \in Seq(PathsOf("tool")) /\ record'.prior \in Seq(PathsOf("marker"))
      /\ record' # NoRecord => record'.id \in PathsOf("marker")
      /\ job.placement # "upload" => record'.removeAgent = FALSE
  BY <1>2, MarkerType DEF FootInv, Kinds, Preinstalled
<1>4. CASE (\E left \in SUBSET {Marker.id} : MarkerFails(left)) /\ UNCHANGED <<markerVars, candidate>>
  BY <1>1, <1>3, <1>4, FootMarkerFails DEF FootInv, Kinds, Preinstalled, markerVars
<1>5. CASE /\ markerPath' = Marker.id /\ markerPaths' = Append(markerPaths, Marker.id)
           /\ stage' = IF markerPath = NoPath THEN AfterMarker ELSE "drop"
           /\ UNCHANGED <<target, agentVars, uploadedTools, put, lost>>
  <2>1. /\ markerPaths' \in Seq(PathsOf("marker")) /\ Len(markerPaths') = Len(markerPaths) + 1
        /\ Len(markerPaths) \in Nat
    BY <1>5, MarkerType DEF FootInv, Kinds
  <2>2. stage' \in {"drop", "probe", "upload"} /\ (stage' = "upload" => uploadedTools' # <<>>)
    BY <1>5 DEF AfterMarker, MarkerFor
  <2>3. stage' = "drop" => Len(markerPaths') >= 2
    BY <1>5, <2>1 DEF FootInv, Kinds, AfterMarker, MarkerFor
  <2>4. markerPath' \in PathsOf("marker")
    BY <1>5, MarkerType DEF FootInv
  <2>5. Kinds'
    BY <1>1, <1>3, <1>5, <2>1, <2>2, <2>3, <2>4 DEF FootInv, Kinds
  <2>6. Preinstalled'
    BY <1>1, <1>3, <1>5, <2>2 DEF FootInv, Preinstalled, agentVars
  <2>. QED
    BY <2>5, <2>6 DEF FootInv
<1>. QED
  BY <1>4, <1>5 DEF RecordMarker

LEMMA PrefixType ==
  ASSUME NEW S, NEW s \in Seq(S), Len(s) >= 2
  PROVE  SubSeq(s, 1, Len(s) - 2) \in Seq(S) /\ s[Len(s) - 1] \in S
<1>1. Len(s) \in Nat
  OBVIOUS
<1>2. Len(s) - 2 \in Int /\ 1 \in Int /\ \A i \in 1..(Len(s) - 2) : s[i] \in S
  BY <1>1
<1>3. SubSeq(s, 1, Len(s) - 2) \in Seq(S)
  BY ONLY <1>2, SubSeqProperties
<1>. QED
  BY <1>1, <1>3

LEMMA FootDropOldMarker == ASSUME FootInv, DropOldMarker PROVE FootInv'
<1>1. UNCHANGED <<job, record, runs, todo, agentUploaded, uploadedTools, markerPath>>
  BY DEF DropOldMarker, cleaning, agentVars
<1>2. stage' \in {"probe", "upload"} /\ (stage' = "upload" => uploadedTools # <<>>)
  BY DEF DropOldMarker, AfterMarker, MarkerFor
<1>3. Len(markerPaths) >= 2 /\ markerPath \in PathsOf("marker")
      /\ markerPaths \in Seq(PathsOf("marker"))
  BY DEF DropOldMarker, FootInv, Kinds
<1>4. /\ SubSeq(markerPaths, 1, Len(markerPaths) - 2) \in Seq(PathsOf("marker"))
      /\ markerPaths[Len(markerPaths) - 1] \in PathsOf("marker")
  BY <1>3, PrefixType
<1>5. markerPaths' \in Seq(PathsOf("marker")) /\ Len(markerPaths') >= 1
  <2>1. CASE UNCHANGED markerPaths
    BY <1>3, <2>1
  <2>2. CASE markerPaths' = Append(SubSeq(markerPaths, 1, Len(markerPaths) - 2), markerPath)
    BY <1>3, <1>4, <2>2, AppendProperties
  <2>. QED
    BY <2>1, <2>2 DEF DropOldMarker
<1>6. OwnAgent \in target => OwnAgent \in target'
  BY <1>4, NotAgent DEF DropOldMarker
<1>7. Kinds'
  BY <1>1, <1>2, <1>5 DEF FootInv, Kinds
<1>8. Preinstalled'
  BY <1>1, <1>2, <1>6 DEF FootInv, Preinstalled
<1>. QED
  BY <1>7, <1>8 DEF FootInv

LEMMA FootTool == ASSUME FootInv, PrepareTool \/ UploadTool \/ VerifyTool PROVE FootInv'
<1>1. CASE PrepareTool
  <2>1. UNCHANGED <<job, target, record, agentUploaded, markerPath, markerPaths, todo, runs>>
    BY <1>1 DEF PrepareTool, remote, agentVars, markerVars, cleaning
  <2>2. CASE stage' = "failed" /\ UNCHANGED uploadedTools
    BY <2>1, <2>2 DEF FootInv, Kinds, Preinstalled
  <2>3. CASE /\ uploadedTools' = Append(uploadedTools, ToolPath(Len(uploadedTools) + 1))
             /\ stage' = IF job.placement = "local" THEN "upload" ELSE "mark"
    <3>1. Len(uploadedTools) + 1 \in Nat /\ Owner \in Nat
      BY OwnerType DEF FootInv, Kinds
    <3>2. ToolPath(Len(uploadedTools) + 1) \in PathsOf("tool")
      BY <3>1 DEF ToolPath, PathsOf
    <3>3. uploadedTools' \in Seq(PathsOf("tool")) /\ uploadedTools' # <<>>
      BY <2>3, <3>2, AppendProperties DEF FootInv, Kinds
    <3>4. stage' \in {"upload", "mark"}
      BY <2>3
    <3>. QED
      BY <2>1, <3>3, <3>4 DEF FootInv, Kinds, Preinstalled
  <2>. QED
    BY <1>1, <2>2, <2>3 DEF PrepareTool
<1>2. CASE UploadTool
  <2>1. UNCHANGED <<job, record, agentUploaded, uploadedTools, markerPath, markerPaths, todo, runs>>
        /\ stage = "upload" /\ stage' \in {"verify", "failed"}
        /\ target \ {Last(uploadedTools)} \subseteq target'
    BY <1>2 DEF UploadTool, UploadTo, controller, agentVars, markerVars, cleaning
  <2>2. Last(uploadedTools) \in PathsOf("tool")
    BY <2>1 DEF FootInv, Kinds, Last
  <2>. QED
    BY <2>1, <2>2, NotAgent DEF FootInv, Kinds, Preinstalled
<1>3. CASE VerifyTool
  <2>1. UNCHANGED <<job, record, agentUploaded, uploadedTools, markerPath, markerPaths, todo, runs>>
        /\ stage = "verify" /\ stage' \in {"tool", "failed"}
        /\ target' \in {target, target \ {Last(uploadedTools)}}
    BY <1>3 DEF VerifyTool, controller, agentVars, markerVars, cleaning
  <2>2. Last(uploadedTools) \in PathsOf("tool")
    BY <2>1 DEF FootInv, Kinds, Last
  <2>. QED
    BY <2>1, <2>2, NotAgent DEF FootInv, Kinds, Preinstalled
<1>. QED
  BY <1>1, <1>2, <1>3

LEMMA FootCleanup == ASSUME FootInv, StartCleanup PROVE FootInv'
<1>1. UNCHANGED <<job, target, record, agentUploaded, uploadedTools, markerPath, markerPaths, runs>>
  BY DEF StartCleanup, remote, controller, agentVars, markerVars
<1>2. stage' \in {"cleaned", "removing"}
      /\ (todo' = todo \/ todo' = Worklist(uploadedTools, agentUploaded, agentPath, markerPaths))
  BY DEF StartCleanup, Retained
<1>3. Kinds'
  BY <1>1, <1>2 DEF FootInv, Kinds
<1>4. ASSUME job.placement # "upload" PROVE todo' \in Seq(Removable)
  <2>1. agentUploaded = FALSE /\ todo \in Seq(Removable)
    BY <1>4 DEF FootInv, Preinstalled
  <2>2. Worklist(uploadedTools, FALSE, agentPath, markerPaths) \in Seq(Removable)
    BY WorklistType DEF FootInv, Kinds
  <2>. QED
    BY <1>2, <2>1, <2>2
<1>. QED
  BY <1>1, <1>2, <1>3, <1>4 DEF FootInv, Preinstalled

LEMMA FootRemove == ASSUME FootInv, RemoveNext PROVE FootInv'
<1>1. UNCHANGED <<job, record, stage, agentUploaded, uploadedTools, markerPath, markerPaths, runs>>
      /\ todo # <<>> /\ todo' = Tail(todo) /\ (target' = target \ {Head(todo)} \/ target' = target)
  BY DEF RemoveNext, controller, agentVars, markerVars
<1>2. ASSUME job.placement # "upload" PROVE todo' \in Seq(Removable) /\ OwnAgent \in target'
  <2>1. todo \in Seq(Removable) /\ OwnAgent \in target
    BY <1>2 DEF FootInv, Preinstalled
  <2>2. Head(todo) \in Removable /\ Tail(todo) \in Seq(Removable)
    BY <1>1, <2>1, HeadTailProperties
  <2>. QED
    BY <1>1, <2>1, <2>2, NotAgent DEF Removable
<1>. QED
  BY <1>1, <1>2 DEF FootInv, Kinds, Preinstalled

LEMMA FootManual == ASSUME FootInv, ManualCleanup \/ AlterMarker PROVE FootInv'
<1>1. CASE ManualCleanup
  <2>1. UNCHANGED <<job, target, record, agentUploaded, uploadedTools, markerPath, markerPaths, runs>>
        /\ stage' = "manual" /\ record # NoRecord
        /\ todo' = Worklist(record.tools, record.removeAgent, record.agent,
                            <<record.id>> \o record.prior)
    BY <1>1 DEF ManualCleanup, remote, controller, agentVars, markerVars
  <2>2. <<record.id>> \o record.prior \in Seq(PathsOf("marker"))
    <3>1. <<record.id>> \in Seq(PathsOf("marker")) /\ record.prior \in Seq(PathsOf("marker"))
      BY <2>1 DEF FootInv, Kinds
    <3>. QED
      BY <3>1, ConcatProperties
  <2>3. ASSUME job.placement # "upload" PROVE todo' \in Seq(Removable)
    <3>1. record.removeAgent = FALSE /\ record.tools \in Seq(PathsOf("tool"))
      BY <2>3 DEF FootInv, Kinds, Preinstalled
    <3>2. Worklist(record.tools, FALSE, record.agent, <<record.id>> \o record.prior)
            \in Seq(Removable)
      BY <2>2, <3>1, WorklistType
    <3>. QED
      BY <2>1, <3>1, <3>2
  <2>. QED
    BY <2>1, <2>3 DEF FootInv, Kinds, Preinstalled
<1>2. CASE AlterMarker
  <2>1. UNCHANGED <<job, record, stage, agentUploaded, uploadedTools, markerPath, markerPaths, todo, runs>>
    BY <1>2 DEF AlterMarker, controller, agentVars, markerVars, cleaning
  <2>2. OwnAgent \in target => OwnAgent \in target'
    BY <1>2 DEF AlterMarker, IsMarker, OwnAgent
  <2>. QED
    BY <2>1, <2>2 DEF FootInv, Kinds, Preinstalled
<1>. QED
  BY <1>1, <1>2

LEMMA FootStep == FootInv /\ [Next]_vars => FootInv'
  BY Steps, FootSimple, FootStart, FootCheck, FootUploadMarker, FootRecordMarker,
     FootDropOldMarker, FootTool, FootCleanup, FootRemove, FootManual DEF PrepareStep

\* No step of a run, a rollback, a cleanup or `imajer cleanup` takes away an
\* agent that was there before (controller.go, Prepare, Cleanup; main.go,
\* cleanup).
THEOREM PreinstalledAgentStays == Spec => []PreinstalledStays
<1>1. FootInv => PreinstalledStays
  BY DEF FootInv, Preinstalled, PreinstalledStays
<1>. QED
  BY FootInit, FootStep, <1>1, PTL DEF Spec

-----------------------------------------------------------------------------
(* What is on the target is on record.                                     *)

\* What the controller knows to have put on the target.
Covered == ToSet(uploadedTools) \cup (IF agentUploaded THEN {agentPath} ELSE {})

Live == stage \notin {"idle", "manual"}
Recorded == markerPath # NoPath /\ record.id = markerPath

\* The tools that may be on the target: the newest is only named while its
\* marker is installed.
Uploaded == IF stage \in {"mark", "record"} /\ uploadedTools # <<>>
            THEN Len(uploadedTools) - 1 ELSE Len(uploadedTools)

Known == Live => Own \cup HalfSent \subseteq Covered
Numbered ==
  /\ Live => \A i \in Nat : ToolPath(i) \in put \cup begun => i <= Uploaded
  /\ \A i \in 1..Len(uploadedTools) : uploadedTools[i] = ToolPath(i)
Announced == stage \in {"drop", "upload"} /\ Recorded => record.tools = uploadedTools
Phases ==
  /\ stage \in {"agent", "check"} \/ ~Live => markerPath = NoPath /\ uploadedTools = <<>>
  /\ stage = "agent" \/ ~Live => agentUploaded = FALSE
  /\ job.placement = "local" =>
       markerPath = NoPath /\ stage \notin {"agent", "check", "mark", "record", "drop"}

\* Only SSH leaves half a tool, and only where its upload is under way or was
\* the end of Prepare.
Halted == {"upload", "failed", "removing", "cleaned", "idle", "manual"}
Halved ==
  /\ begun # {} => job.transport = "ssh"
  /\ HalfSent # {} => stage \in Halted
  /\ stage = "upload" => HalfSent \subseteq {Last(uploadedTools)}

OwnInv == Known /\ Numbered /\ Announced /\ Phases /\ Halved /\ OwnFilesAreRecorded

LEMMA OwnInit == Init => OwnInv
  BY DEF Init, FootprintInit, OwnInv, Known, Numbered, Announced, Phases, Halved,
         HalfSent, OwnFilesAreRecorded, Live, Recorded

\* Removing files and giving them up only takes from what is ours there.
LEMMA OwnShrinks ==
  ASSUME target' \subseteq target, partial' \subseteq partial, put' = put, begun' = begun,
         lost \subseteq lost'
  PROVE  Own' \subseteq Own /\ HalfSent' \subseteq HalfSent
  BY DEF Own, HalfSent

\* Where nothing is half sent no step but OpenTemp makes it so.
LEMMA NoneHalf ==
  ASSUME Halved, stage \notin Halted, partial' \subseteq partial, begun' = begun, job' = job
  PROVE  HalfSent = {} /\ HalfSent' = {} /\ Halved'
<1>1. HalfSent = {}
  BY DEF Halved
<1>2. HalfSent' = {}
  BY <1>1 DEF HalfSent
<1>. QED
  BY <1>1, <1>2 DEF Halved

LEMMA OwnQuiet ==
  ASSUME FootInv, OwnInv, target' \subseteq target, partial' \subseteq partial, lost \subseteq lost',
         UNCHANGED <<job, runs, record, put, begun, agentPath, agentUploaded, uploadedTools,
                     markerPath>>,
         \/ stage' = stage
         \/ Live /\ stage' \in {"tool", "failed", "ready", "removing", "cleaned"}
         \/ stage = "idle" /\ stage' = "manual",
         stage' \in Halted \/ stage \notin Halted
  PROVE  OwnInv'
<1>1. Own' \subseteq Own /\ HalfSent' \subseteq HalfSent
  BY OwnShrinks
<1>2. Known' /\ OwnFilesAreRecorded'
  BY <1>1 DEF OwnInv, Known, OwnFilesAreRecorded, Live, Covered, Named
<1>3. Numbered'
  <2>1. Len(uploadedTools) \in Nat
    BY DEF FootInv, Kinds
  <2>2. \A i : ToolPath(i)' = ToolPath(i)
    BY DEF ToolPath, Owner
  <2>3. Live' => Live /\ (Uploaded' = Uploaded \/ Uploaded' = Len(uploadedTools))
    BY DEF Live, Uploaded
  <2>4. Uploaded \in Int /\ Uploaded <= Len(uploadedTools)
    BY <2>1 DEF Uploaded
  <2>5. Live' => \A i \in Nat : ToolPath(i)' \in (put \cup begun)' => i <= Uploaded'
    <3>. SUFFICES ASSUME Live', NEW i \in Nat, ToolPath(i) \in put \cup begun
                  PROVE  i <= Uploaded'
      BY <2>2
    <3>1. i <= Uploaded
      BY <2>3 DEF OwnInv, Numbered
    <3>. QED
      BY <2>1, <2>3, <2>4, <3>1
  <2>. QED
    BY <2>2, <2>5 DEF OwnInv, Numbered
<1>4. Announced' /\ Phases'
  BY DEF OwnInv, Announced, Phases, Live, Recorded
<1>5. Halved'
  BY <1>1 DEF OwnInv, Halved, Halted
<1>. QED
  BY <1>2, <1>3, <1>4, <1>5 DEF OwnInv

LEMMA OwnGone == ASSUME OwnInv, Gone PROVE OwnInv'
<1>1. /\ ~Live' /\ markerPath' = NoPath /\ uploadedTools' = <<>> /\ agentUploaded' = FALSE
      /\ stage' = "idle" /\ UNCHANGED <<job, begun>>
  BY DEF Gone, Live, history
<1>. QED
  BY <1>1 DEF OwnInv, Known, Numbered, Announced, Phases, OwnFilesAreRecorded, Live, Recorded,
              Halved, Halted

LEMMA OwnStart == ASSUME OwnInv, StartRun PROVE OwnInv'
<1>1. /\ stage = "idle" /\ put' = {} /\ begun' = {}
      /\ UNCHANGED <<job, uploadedTools, agentUploaded, markerPath>>
      /\ stage' = IF job.placement = "local" THEN "probe" ELSE "agent"
  BY DEF StartRun, markerVars
<1>2. markerPath' = NoPath /\ uploadedTools' = <<>> /\ agentUploaded' = FALSE
  BY <1>1 DEF OwnInv, Phases, Live
<1>3. Own' = {} /\ HalfSent' = {}
  BY <1>1 DEF Own, HalfSent
<1>. QED
  BY <1>1, <1>2, <1>3 DEF OwnInv, Known, Numbered, Announced, Phases, OwnFilesAreRecorded,
                          Halved, Live, Recorded

LEMMA OwnAgentSteps ==
  ASSUME OwnInv, HashPreinstalled \/ UploadAgent \/ CheckAgent PROVE OwnInv'
<1>1. /\ stage \in {"agent", "check"} /\ stage' \in {"mark", "failed", "check", "agent"}
      /\ UNCHANGED <<job, runs, record, uploadedTools, markerPath>>
  BY DEF HashPreinstalled, UploadAgent, CheckAgent, NextCandidate, markerVars
<1>2. markerPath' = NoPath /\ uploadedTools' = <<>> /\ uploadedTools = <<>> /\ Live
      /\ job.placement # "local" /\ (stage = "agent" => agentUploaded = FALSE)
  BY <1>1 DEF OwnInv, Phases, Live
<1>3. /\ stage' = "agent" => agentUploaded' = FALSE
  BY <1>2 DEF HashPreinstalled, UploadAgent, CheckAgent, NextCandidate
<1>4. Uploaded = 0 /\ Uploaded' = 0
  BY <1>2 DEF Uploaded
<1>5. \A i \in Nat : ToolPath(i)' \in (put \cup begun)' => ToolPath(i) \in put \cup begun
  <2>1. \A i : ToolPath(i)' = ToolPath(i) /\ ToolPath(i) # AgentCandidate(candidate)
    BY <1>1 DEF ToolPath, Owner, AgentCandidate
  <2>. QED
    BY <2>1 DEF HashPreinstalled, UploadAgent, UploadTo, CheckAgent, history
<1>6. Numbered'
  BY <1>2, <1>4, <1>5 DEF OwnInv, Numbered
<1>0. HalfSent' = {} /\ Halved'
  <2>1. begun' = begun /\ partial' \subseteq partial /\ stage \notin Halted
    BY <1>1 DEF HashPreinstalled, UploadAgent, UploadTo, Breaks, CheckAgent, remote, history, Halted
  <2>. QED
    BY <1>1, <2>1, NoneHalf DEF OwnInv
<1>7. Known'
  <2>1. Own \subseteq Covered
    BY <1>2 DEF OwnInv, Known
  <2>2. CASE HashPreinstalled
    <3>1. Own' = Own /\ agentUploaded' = agentUploaded /\ agentUploaded = FALSE
      BY <1>2, <2>2 DEF HashPreinstalled, Own, remote, history
    <3>. QED
      BY <1>0, <1>2, <2>1, <3>1 DEF Known, Covered
  <2>3. CASE UploadAgent
    <3>1. Own = {}
      BY <1>2, <2>1, <2>3 DEF UploadAgent, Covered, ToSet
    <3>2. CASE /\ target' = target \cup {AgentCandidate(candidate)}
               /\ put' = put \cup {AgentCandidate(candidate)}
               /\ agentPath' = AgentCandidate(candidate) /\ agentUploaded' = TRUE
               /\ UNCHANGED <<lost, candidate>>
      <4>1. Own' \subseteq Own \cup {AgentCandidate(candidate)}
        BY <3>2 DEF Own
      <4>. QED
        BY <1>0, <3>1, <3>2, <4>1 DEF Known, Covered
    <3>3. CASE \E left \in SUBSET {AgentCandidate(candidate)} :
                 /\ target' = target \cup left
                 /\ put' = put \cup left
                 /\ lost' = lost \cup left
      BY <1>0, <3>1, <3>3 DEF Own, Known
    <3>. QED
      BY <2>3, <3>2, <3>3 DEF UploadAgent, UploadTo
  <2>4. CASE CheckAgent
    <3>1. CASE UNCHANGED <<target, lost, agentVars>>
      BY <1>0, <2>1, <2>4, <1>2, <3>1 DEF CheckAgent, Known, Covered, Own, agentVars
    <3>2. CASE target' = target \ {agentPath} \/ (lost' = lost \cup {agentPath} /\ UNCHANGED target)
      <4>1. put' = put /\ (lost' = lost \/ lost' = lost \cup {agentPath})
            /\ (target' = target \/ target' = target \ {agentPath})
        BY <2>4, <3>2 DEF CheckAgent
      <4>2. Own' \subseteq Own \ {agentPath}
        BY <3>2, <4>1 DEF Own
      <4>3. Own \subseteq {agentPath}
        BY <1>2, <2>1 DEF Covered, ToSet
      <4>. QED
        BY <1>0, <4>2, <4>3 DEF Known
    <3>. QED
      BY <2>4, <3>1, <3>2 DEF CheckAgent
  <2>. QED
    BY <2>2, <2>3, <2>4
<1>8. Announced' /\ Phases' /\ OwnFilesAreRecorded'
  BY <1>1, <1>2, <1>3 DEF Announced, Phases, OwnFilesAreRecorded, Live, Recorded
<1>. QED
  BY <1>0, <1>6, <1>7, <1>8 DEF OwnInv

\* A marker that could not be installed takes the newest tool off the list,
\* which had not been uploaded, or the agent it was for.
LEMMA OwnMarkerFails ==
  ASSUME FootInv, OwnInv, stage \in {"mark", "record"}, NEW left \in SUBSET {Marker.id},
         MarkerFails(left), UNCHANGED <<job, runs, markerPath, begun>>,
         partial' \subseteq partial, record' \in {record, Marker}
  PROVE  OwnInv'
<1>0. HalfSent' = {} /\ Halved'
  BY NoneHalf DEF OwnInv, Halted
<1>1. /\ Live /\ job.placement # "local" /\ Own \subseteq Covered /\ stage' = "failed"
      /\ Len(uploadedTools) \in Nat
  BY DEF OwnInv, Known, Phases, Live, MarkerFails, FootInv, Kinds
<1>2. IsMarker(Marker.id) /\ Marker.id \notin PathsOf("tool")
  BY MarkerType DEF FootInv, PathsOf, IsMarker
<1>3. \A i : ToolPath(i)' = ToolPath(i) /\ ToolPath(i) # Marker.id
  BY <1>2 DEF ToolPath, Owner, IsMarker
<1>4. put' = put \cup left /\ lost \subseteq lost' /\ target' \subseteq target \cup left \cup lost'
  BY DEF MarkerFails
<1>5. Own' \subseteq Own
  BY <1>2, <1>4 DEF Own
<1>6. ASSUME uploadedTools = <<>> PROVE Numbered' /\ Known'
  <2>1. uploadedTools' = <<>> /\ Uploaded = 0 /\ Uploaded' = 0
    BY <1>6 DEF MarkerFails, MarkerFor, Uploaded
  <2>2. Numbered'
    BY <1>1, <1>3, <1>4, <2>1 DEF OwnInv, Numbered
  <2>3. Known'
    <3>0. Own' \subseteq Own /\ HalfSent' = {}
      BY <1>0, <1>5
    <3>1. CASE agentUploaded
      <4>1. Own \subseteq {agentPath}
        BY <1>1, <1>6, <3>1 DEF Covered, ToSet
      <4>2. PICK kept \in SUBSET {agentPath} :
               /\ target' = (target \ ({agentPath} \cup {Marker.id})) \cup kept \cup left
               /\ lost' = lost \cup kept \cup left
        BY <1>6, <3>1 DEF MarkerFails, MarkerFor
      <4>3. agentPath \notin Own'
        BY <1>2, <4>2 DEF Own
      <4>. QED
        BY <3>0, <4>1, <4>3 DEF Known
    <3>2. CASE ~agentUploaded
      <4>1. Own = {}
        BY <1>1, <1>6, <3>2 DEF Covered, ToSet
      <4>. QED
        BY <3>0, <4>1 DEF Known
    <3>. QED
      BY <3>1, <3>2
  <2>. QED
    BY <2>2, <2>3
<1>7. ASSUME uploadedTools # <<>> PROVE Numbered' /\ Known'
  <2>1. uploadedTools' = Front(uploadedTools) /\ agentPath' = agentPath
        /\ (agentUploaded' = (agentUploaded /\ TRUE))
    BY <1>7 DEF MarkerFails, MarkerFor
  <2>2. /\ Len(uploadedTools') = Len(uploadedTools) - 1
        /\ \A i \in 1..(Len(uploadedTools) - 1) : uploadedTools'[i] = uploadedTools[i]
        /\ uploadedTools' \in Seq(PathsOf("tool"))
    BY <1>7, <2>1, FrontType DEF FootInv, Kinds
  <2>3. Uploaded = Len(uploadedTools) - 1 /\ Uploaded' = Len(uploadedTools) - 1
    BY <1>1, <1>7, <2>2 DEF Uploaded
  <2>4. Numbered'
    BY <1>1, <1>3, <1>4, <2>2, <2>3 DEF OwnInv, Numbered
  <2>5. Last(uploadedTools) = ToolPath(Len(uploadedTools)) /\ Len(uploadedTools) >= 1
    BY <1>1, <1>7 DEF OwnInv, Numbered, Last, FootInv, Kinds
  <2>6. Last(uploadedTools) \notin put
    BY <1>1, <2>3, <2>5 DEF OwnInv, Numbered
  <2>7. Known'
    <3>. SUFFICES ASSUME NEW p \in Own' PROVE p \in Covered'
      BY <1>0 DEF Known
    <3>1. p \in Own /\ p \in Covered /\ p # uploadedTools[Len(uploadedTools)]
      BY <1>1, <1>5, <2>6 DEF Own, Last
    <3>2. CASE p \in ToSet(uploadedTools)
      <4>1. PICK i \in 1..Len(uploadedTools) : p = uploadedTools[i]
        BY <3>2 DEF ToSet, FootInv, Kinds
      <4>2. i \in 1..Len(uploadedTools') /\ uploadedTools'[i] = p
        BY <1>1, <2>2, <3>1, <4>1
      <4>. QED
        BY <2>2, <4>2 DEF Covered, ToSet
    <3>3. CASE agentUploaded /\ p = agentPath
      BY <2>1, <3>3 DEF Covered
    <3>. QED
      BY <3>1, <3>2, <3>3 DEF Covered
  <2>. QED
    BY <2>4, <2>7
<1>8. OwnFilesAreRecorded'
  <2>1. Marker.tools = uploadedTools /\ Marker.removeAgent = agentUploaded
        /\ Marker.agent = agentPath
    BY MarkerType DEF FootInv
  <2>2. Named(Marker) = Covered
    BY <2>1 DEF Named, Covered
  <2>3. CASE record' = Marker
    <3>1. Named(record)' = Named(Marker)
      BY <2>3 DEF Named
    <3>. QED
      BY <1>0, <1>1, <1>5, <2>2, <3>1 DEF OwnFilesAreRecorded
  <2>4. CASE record' = record
    BY <1>0, <1>5, <2>4 DEF OwnInv, OwnFilesAreRecorded, Named
  <2>. QED
    BY <2>3, <2>4
<1>9. Announced' /\ Phases'
  BY <1>1 DEF OwnInv, Announced, Phases, Live
<1>. QED
  BY <1>0, <1>6, <1>7, <1>8, <1>9 DEF OwnInv

LEMMA OwnUploadMarker == ASSUME FootInv, OwnInv, UploadMarker PROVE OwnInv'
<1>1. stage = "mark" /\ UNCHANGED <<job, runs, record, markerPath, begun>>
      /\ partial' \subseteq partial
  BY DEF UploadMarker, UploadTo, Breaks, markerVars
<1>0. HalfSent' = {} /\ Halved'
  BY <1>1, NoneHalf DEF OwnInv, Halted
<1>2. CASE \E left \in SUBSET {Marker.id} : MarkerFails(left)
  BY <1>1, <1>2, OwnMarkerFails
<1>3. CASE /\ target' = target \cup {Marker.id} /\ put' = put \cup {Marker.id}
           /\ stage' = "record"
           /\ UNCHANGED <<agentVars, uploadedTools, lost>>
  <2>1. IsMarker(Marker.id) /\ Marker.id \notin PathsOf("tool")
    BY MarkerType DEF FootInv, PathsOf, IsMarker
  <2>2. \A i : ToolPath(i)' = ToolPath(i) /\ ToolPath(i) # Marker.id
    BY <1>1, <2>1 DEF ToolPath, Owner, IsMarker
  <2>3. Own' \subseteq Own
    BY <1>3, <2>1 DEF Own
  <2>4. Live /\ UNCHANGED <<uploadedTools, agentPath, agentUploaded>> /\ Uploaded' = Uploaded
    BY <1>1, <1>3 DEF Live, agentVars, Uploaded
  <2>5. Known' /\ OwnFilesAreRecorded'
    BY <1>0, <1>1, <2>3, <2>4 DEF OwnInv, Known, OwnFilesAreRecorded, Covered, Named
  <2>6. Numbered'
    BY <1>1, <1>3, <2>2, <2>4 DEF OwnInv, Numbered
  <2>7. Announced' /\ Phases'
    BY <1>1, <1>3, <2>4 DEF OwnInv, Announced, Phases, Live
  <2>. QED
    BY <1>0, <2>5, <2>6, <2>7 DEF OwnInv
<1>. QED
  BY <1>2, <1>3 DEF UploadMarker, UploadTo

LEMMA OwnRecordMarker == ASSUME FootInv, OwnInv, RecordMarker PROVE OwnInv'
<1>1. stage = "record" /\ UNCHANGED <<job, runs, partial, begun>> /\ record' \in {record, Marker}
  BY DEF RecordMarker
<1>0. HalfSent' = {} /\ Halved'
  BY <1>1, NoneHalf DEF OwnInv, Halted
<1>2. CASE (\E left \in SUBSET {Marker.id} : MarkerFails(left)) /\ UNCHANGED <<markerVars, candidate>>
  <2>1. markerPath' = markerPath
    BY <1>2 DEF markerVars
  <2>. QED
    BY <1>1, <1>2, <2>1, OwnMarkerFails
<1>3. CASE /\ record' = Marker /\ markerPath' = Marker.id
           /\ stage' = IF markerPath = NoPath THEN AfterMarker ELSE "drop"
           /\ UNCHANGED <<target, agentVars, uploadedTools, put, lost>>
  <2>1. Marker.tools = uploadedTools /\ Marker.removeAgent = agentUploaded
        /\ Marker.agent = agentPath
    BY MarkerType DEF FootInv
  <2>2. Live /\ UNCHANGED <<uploadedTools, agentPath, agentUploaded, put, lost>> /\ Own' = Own
    BY <1>1, <1>3 DEF Live, agentVars, Own
  <2>3. stage' \in {"drop", "probe", "upload"}
    BY <1>3 DEF AfterMarker, MarkerFor
  <2>4. Known' /\ Named(record)' = Covered
    BY <1>0, <1>1, <1>3, <2>1, <2>2 DEF OwnInv, Known, Covered, Named
  <2>5. OwnFilesAreRecorded'
    BY <1>0, <2>2, <2>4 DEF OwnInv, Known, OwnFilesAreRecorded
  <2>6. Numbered'
    <3>1. \A i : ToolPath(i)' = ToolPath(i)
      BY <1>1 DEF ToolPath, Owner
    <3>2. Len(uploadedTools) \in Nat
      BY DEF FootInv, Kinds
    <3>3. Uploaded' = Len(uploadedTools) /\ Uploaded \in Int /\ Uploaded <= Len(uploadedTools)
      BY <2>2, <2>3, <3>2 DEF Uploaded
    <3>4. \A i \in Nat : ToolPath(i) \in put \cup begun => i <= Len(uploadedTools)
      BY <2>2, <3>2, <3>3 DEF OwnInv, Numbered
    <3>. QED
      BY <1>1, <2>2, <3>1, <3>3, <3>4 DEF OwnInv, Numbered
  <2>7. Announced'
    BY <1>3, <2>1, <2>2 DEF Announced
  <2>8. Phases'
    <3>1. job.placement # "local"
      BY <1>1 DEF OwnInv, Phases
    <3>. QED
      BY <1>1, <2>2, <2>3, <3>1 DEF Phases, Live
  <2>. QED
    BY <1>0, <2>4, <2>5, <2>6, <2>7, <2>8 DEF OwnInv
<1>. QED
  BY <1>2, <1>3 DEF RecordMarker

LEMMA OwnDropOldMarker == ASSUME FootInv, OwnInv, DropOldMarker PROVE OwnInv'
<1>1. /\ stage = "drop" /\ stage' \in {"probe", "upload"} /\ Live
      /\ UNCHANGED <<job, runs, record, partial, put, begun, lost, agentPath, agentUploaded, uploadedTools,
                     markerPath>>
      /\ target' \subseteq target
  BY DEF DropOldMarker, AfterMarker, MarkerFor, agentVars, history, Live
<1>2. Own' \subseteq Own
  BY <1>1, OwnShrinks
<1>0. HalfSent' = {} /\ Halved'
  BY <1>1, NoneHalf DEF OwnInv, Halted
<1>3. Known' /\ OwnFilesAreRecorded'
  BY <1>0, <1>1, <1>2 DEF OwnInv, Known, OwnFilesAreRecorded, Covered, Named
<1>4. Numbered'
  <2>1. \A i : ToolPath(i)' = ToolPath(i)
    BY <1>1 DEF ToolPath, Owner
  <2>2. Uploaded' = Uploaded
    BY <1>1 DEF Uploaded
  <2>. QED
    BY <1>1, <2>1, <2>2 DEF OwnInv, Numbered
<1>5. Announced' /\ Phases'
  BY <1>1 DEF OwnInv, Announced, Phases, Live, Recorded
<1>. QED
  BY <1>0, <1>3, <1>4, <1>5 DEF OwnInv

LEMMA OwnPrepareTool == ASSUME FootInv, OwnInv, PrepareTool PROVE OwnInv'
<1>1. /\ stage = "tool" /\ Live
      /\ UNCHANGED <<job, runs, record, target, partial, put, begun, lost, agentPath,
                     agentUploaded, markerPath>>
  BY DEF PrepareTool, agentVars, markerVars, history, remote, Live
<1>0. HalfSent' = {} /\ Halved' /\ stage \notin Halted
  BY <1>1, NoneHalf DEF OwnInv, Halted
<1>2. CASE stage' = "failed" /\ UNCHANGED uploadedTools
  BY <1>0, <1>1, <1>2, OwnQuiet
<1>3. CASE /\ uploadedTools' = Append(uploadedTools, ToolPath(Len(uploadedTools) + 1))
           /\ stage' = IF job.placement = "local" THEN "upload" ELSE "mark"
  <2>1. Len(uploadedTools) \in Nat /\ ToolPath(Len(uploadedTools) + 1) \in PathsOf("tool")
        /\ uploadedTools \in Seq(PathsOf("tool"))
    <3>1. Len(uploadedTools) + 1 \in Nat /\ Owner \in Nat
      BY OwnerType DEF FootInv, Kinds
    <3>. QED
      BY <3>1 DEF ToolPath, PathsOf, FootInv, Kinds
  <2>2. /\ Len(uploadedTools') = Len(uploadedTools) + 1 /\ uploadedTools' # <<>>
        /\ \A i \in 1..Len(uploadedTools) : uploadedTools'[i] = uploadedTools[i]
        /\ uploadedTools'[Len(uploadedTools) + 1] = ToolPath(Len(uploadedTools) + 1)
        /\ uploadedTools' \in Seq(PathsOf("tool"))
    BY <1>3, <2>1, AppendProperties
  <2>3. Own' = Own
    BY <1>1 DEF Own
  <2>4. Covered \subseteq Covered'
    BY <1>1, <2>1, <2>2 DEF Covered, ToSet
  <2>5. Known' /\ OwnFilesAreRecorded'
    BY <1>0, <1>1, <2>3, <2>4 DEF OwnInv, Known, OwnFilesAreRecorded, Named
  <2>6. Numbered'
    <3>1. \A i : ToolPath(i)' = ToolPath(i)
      BY <1>1 DEF ToolPath, Owner
    <3>2. Uploaded = Len(uploadedTools)
      BY <1>1 DEF Uploaded
    <3>3. Uploaded' \in {Len(uploadedTools), Len(uploadedTools) + 1}
      BY <2>1, <2>2 DEF Uploaded
    <3>4. \A i \in 1..Len(uploadedTools') : uploadedTools'[i] = ToolPath(i)
      BY <2>1, <2>2 DEF OwnInv, Numbered
    <3>5. \A i \in Nat : ToolPath(i) \in put \cup begun => i <= Uploaded'
      BY <1>1, <2>1, <3>2, <3>3 DEF OwnInv, Numbered
    <3>. QED
      BY <1>1, <3>1, <3>4, <3>5 DEF Numbered
  <2>7. Announced' /\ Phases'
    BY <1>1, <1>3 DEF OwnInv, Announced, Phases, Live, Recorded
  <2>. QED
    BY <1>0, <2>5, <2>6, <2>7 DEF OwnInv
<1>. QED
  BY <1>2, <1>3 DEF PrepareTool

LEMMA OwnUploadTool == ASSUME FootInv, OwnInv, UploadTool PROVE OwnInv'
<1>1. /\ stage = "upload" /\ stage' \in {"verify", "failed"} /\ Live
      /\ UNCHANGED <<job, runs, record, begun, lost, agentPath, agentUploaded, uploadedTools,
                     markerPath>>
  BY DEF UploadTool, controller, agentVars, markerVars, Live
<1>2. /\ target' \subseteq target \cup {Last(uploadedTools)}
      /\ put' \subseteq put \cup {Last(uploadedTools)}
      /\ \A p \in put' \ put : p = Last(uploadedTools)
      /\ partial' \subseteq partial
  <2>1. CASE UploadTo(Last(uploadedTools))
    BY <2>1 DEF UploadTo
  <2>2. CASE UNCHANGED <<target, put>> /\ partial' \subseteq partial
    BY <2>2
  <2>3. CASE \E left \in SUBSET {Last(uploadedTools)} :
               /\ Breaks(Last(uploadedTools), left)
               /\ \/ target' = target \cup left
                  \/ /\ job.transport = "winrm" /\ left = {}
                     /\ target' = target \ {Last(uploadedTools)}
               /\ put' = put \cup left
    BY <2>3 DEF Breaks
  <2>. QED
    BY <2>1, <2>2, <2>3 DEF UploadTool
<1>3. Len(uploadedTools) \in Nat /\ Len(uploadedTools) >= 1 /\ DOMAIN uploadedTools = 1..Len(uploadedTools)
  BY <1>1 DEF FootInv, Kinds
<1>4. Last(uploadedTools) = ToolPath(Len(uploadedTools))
      /\ Last(uploadedTools) \in ToSet(uploadedTools)
  BY <1>3 DEF OwnInv, Numbered, Last, ToSet
<1>5. Own' \subseteq Own \cup {Last(uploadedTools)} /\ HalfSent' \subseteq HalfSent
  BY <1>1, <1>2 DEF Own, HalfSent
<1>6. Known'
  BY <1>1, <1>4, <1>5 DEF OwnInv, Known, Covered
<1>7. OwnFilesAreRecorded'
  BY <1>1, <1>4, <1>5 DEF OwnInv, OwnFilesAreRecorded, Announced, Recorded, Named
<1>8. Numbered'
  <2>1. \A i : ToolPath(i)' = ToolPath(i)
    BY <1>1 DEF ToolPath, Owner
  <2>2. Uploaded = Len(uploadedTools) /\ Uploaded' = Len(uploadedTools)
    BY <1>1 DEF Uploaded
  <2>3. \A i \in Nat : ToolPath(i) = ToolPath(Len(uploadedTools)) => i = Len(uploadedTools)
    BY DEF ToolPath
  <2>4. ASSUME NEW i \in Nat, ToolPath(i) \in put' \cup begun PROVE i <= Len(uploadedTools)
    <3>1. CASE ToolPath(i) \in put \cup begun
      BY <1>1, <2>2, <3>1 DEF OwnInv, Numbered
    <3>2. CASE ToolPath(i) = Last(uploadedTools)
      <4>1. i = Len(uploadedTools)
        BY <1>4, <2>3, <3>2
      <4>. QED
        BY <1>3, <4>1
    <3>. QED
      BY <1>2, <2>4, <3>1, <3>2
  <2>. QED
    BY <1>1, <2>1, <2>2, <2>4 DEF OwnInv, Numbered
<1>9. Announced' /\ Phases'
  BY <1>1 DEF OwnInv, Announced, Phases, Live
<1>10. Halved'
  <2>1. CASE stage' = "failed"
    BY <1>1, <2>1 DEF OwnInv, Halved, Halted
  <2>2. CASE UploadTo(Last(uploadedTools))
    <3>1. HalfSent \subseteq {Last(uploadedTools)} /\ Last(uploadedTools) \notin partial'
      BY <1>1, <2>2 DEF OwnInv, Halved, UploadTo
    <3>2. HalfSent' = {}
      BY <1>5, <3>1 DEF HalfSent
    <3>. QED
      BY <1>1, <3>2 DEF OwnInv, Halved
  <2>3. CASE job.transport = "local"
    <3>1. begun = {} /\ HalfSent' = {}
      BY <1>1, <2>3 DEF OwnInv, Halved, HalfSent
    <3>. QED
      BY <1>1, <3>1 DEF Halved
  <2>. QED
    BY <2>1, <2>2, <2>3 DEF UploadTool
<1>. QED
  BY <1>6, <1>7, <1>8, <1>9, <1>10 DEF OwnInv

\* A temporary file comes up next to the path that is due.
LEMMA OwnOpenTemp == ASSUME FootInv, OwnInv, OpenTemp PROVE OwnInv'
<1>1. /\ stage \in {"agent", "mark", "upload"} /\ job.transport = "ssh" /\ Live
      /\ begun' = begun \cup {UploadPath} /\ partial' = partial \cup {UploadPath}
      /\ UNCHANGED <<job, runs, target, put, lost, record, stage, candidate, agentPath,
                     agentUploaded, uploadedTools, markerPath>>
  BY DEF OpenTemp, controller, agentVars, markerVars, Live
<1>2. UploadPath[2] = "tool" => stage = "upload" /\ UploadPath = Last(uploadedTools)
  <2>1. stage = "agent" => UploadPath[2] = "agent"
    BY DEF UploadPath, AgentCandidate
  <2>2. stage = "mark" => UploadPath[2] = "marker"
    BY DEF UploadPath, Marker
  <2>3. stage = "upload" => UploadPath = Last(uploadedTools)
    BY DEF UploadPath
  <2>. QED
    BY <1>1, <2>1, <2>2, <2>3
<1>3. stage = "upload" =>
        /\ Last(uploadedTools) = ToolPath(Len(uploadedTools))
        /\ Last(uploadedTools) \in ToSet(uploadedTools)
        /\ Len(uploadedTools) \in Nat
  BY DEF OwnInv, Numbered, Last, ToSet, FootInv, Kinds
<1>4. Own' = Own /\ \A p \in HalfSent' : p \in HalfSent \/ (stage = "upload" /\ p = Last(uploadedTools))
  BY <1>1, <1>2 DEF Own, HalfSent
<1>5. Known' /\ OwnFilesAreRecorded'
  BY <1>1, <1>3, <1>4 DEF OwnInv, Known, Covered, OwnFilesAreRecorded, Announced, Recorded, Named
<1>6. Numbered'
  <2>1. \A i : ToolPath(i)' = ToolPath(i) /\ ToolPath(i)[2] = "tool"
    BY <1>1 DEF ToolPath, Owner
  <2>2. Uploaded' = Uploaded
    BY <1>1 DEF Uploaded
  <2>3. ASSUME NEW i \in Nat, ToolPath(i) \in put \cup begun \cup {UploadPath} PROVE i <= Uploaded
    <3>1. CASE ToolPath(i) \in put \cup begun
      BY <1>1, <3>1 DEF OwnInv, Numbered
    <3>2. CASE ToolPath(i) = UploadPath
      <4>1. stage = "upload" /\ ToolPath(i) = ToolPath(Len(uploadedTools))
        BY <1>2, <1>3, <2>1, <3>2
      <4>2. i = Len(uploadedTools) /\ Uploaded = Len(uploadedTools)
        BY <4>1 DEF ToolPath, Uploaded
      <4>. QED
        BY <4>2
    <3>. QED
      BY <2>3, <3>1, <3>2
  <2>. QED
    BY <1>1, <2>1, <2>2, <2>3 DEF OwnInv, Numbered
<1>7. Announced' /\ Phases'
  BY <1>1 DEF OwnInv, Announced, Phases, Live, Recorded
<1>8. Halved'
  BY <1>1, <1>4 DEF OwnInv, Halved, Halted
<1>. QED
  BY <1>5, <1>6, <1>7, <1>8 DEF OwnInv

\* The steps that neither upload nor enter anything.
LEMMA OwnOther ==
  ASSUME FootInv, OwnInv,
         \/ ProbeTarget \/ EndPrepare \/ VerifyTool \/ StartCleanup \/ EndCleanup
         \/ (stage \in {"removing", "manual"} /\ RemoveNext) \/ ManualCleanup \/ AlterMarker
         \/ UNCHANGED <<job, remote, record, stage, controller, cleaning, history, runs>>
  PROVE  OwnInv'
<1>1. UNCHANGED <<job, runs, record, partial, put, begun, lost, agentPath, agentUploaded,
                  uploadedTools, markerPath>>
  BY DEF ProbeTarget, EndPrepare, VerifyTool, StartCleanup, EndCleanup, RemoveNext, ManualCleanup,
         AlterMarker, remote, controller, agentVars, markerVars, history
<1>2. target' \subseteq target
  BY DEF ProbeTarget, EndPrepare, VerifyTool, StartCleanup, EndCleanup, RemoveNext, ManualCleanup,
         AlterMarker, remote
<1>3. \/ stage' = stage
      \/ Live /\ stage' \in {"tool", "failed", "ready", "removing", "cleaned"}
      \/ stage = "idle" /\ stage' = "manual"
  BY DEF ProbeTarget, EndPrepare, VerifyTool, StartCleanup, EndCleanup, RemoveNext, ManualCleanup,
         AlterMarker, Retained, Live
<1>4. stage' \in Halted \/ stage \notin Halted
  BY DEF ProbeTarget, EndPrepare, VerifyTool, StartCleanup, EndCleanup, RemoveNext, ManualCleanup,
         AlterMarker, Retained, Halted
<1>. QED
  BY <1>1, <1>2, <1>3, <1>4, OwnQuiet

LEMMA OwnStep == FootInv /\ OwnInv /\ [Next]_vars => OwnInv'
  BY Steps, OwnGone, OwnStart, OwnAgentSteps, OwnUploadMarker, OwnRecordMarker, OwnDropOldMarker,
     OwnPrepareTool, OwnUploadTool, OwnOpenTemp, OwnOther DEF PrepareStep

\* From the first marker on, each tool and agent a run has on the target is
\* named by the local record at every instant, so `imajer cleanup` can remove it
\* after a crash, and of each tool it has there in part, as <path>.upload, the
\* record names at least <path> (controller.go, installRemoteMarker,
\* prepareSourceTool; ssh.go, Upload).
THEOREM OwnFilesRecorded == Spec => []OwnFilesAreRecorded
<1>1. FootInv /\ OwnInv => OwnFilesAreRecorded
  BY DEF OwnInv
<1>. QED
  BY FootInit, FootStep, OwnInit, OwnStep, <1>1, PTL DEF Spec

-----------------------------------------------------------------------------
(* Cleanup: what it removes last, and what `imajer cleanup` can still reach. *)

AgentPaths == PathsOf("agent") \cup {NoPath}
Paths == Removable \cup AgentPaths

\* In a worklist only markers follow a marker.
MarkersLast(list) ==
  \A i, j \in 1..Len(list) : i <= j /\ IsMarker(list[i]) => IsMarker(list[j])

Typed ==
  /\ candidate \in Nat
  /\ agentPath \in AgentPaths /\ record.agent \in AgentPaths
  /\ markerPath \in PathsOf("marker") \cup {NoPath}
  /\ stage \in {"removing", "manual"} => todo \in Seq(Paths) /\ MarkersLast(todo)

Preparing == {"agent", "check", "mark", "record", "drop", "probe", "tool", "upload",
              "verify", "ready"}

\* Markers are numbered by the tools they announce.
Limit == IF stage \in {"agent", "check", "mark", "record"}
         THEN Len(uploadedTools) - 1 ELSE Len(uploadedTools)
Aged ==
  /\ record.id[1] <= runs
  /\ ~Live => markerPaths = <<>>
  /\ \A p \in ToSet(markerPaths) : p[1] = runs
  /\ stage \in Preparing =>
       \A p \in ToSet(markerPaths) \cup {record.id} : p[1] = runs => p[3] <= Limit

\* The record is that of a marker still listed.
Current ==
  /\ stage \in Preparing /\ record.id[1] = runs => record.id \in ToSet(markerPaths)
  /\ stage = "drop" =>
       /\ record.id = markerPath /\ markerPaths[Len(markerPaths)] = markerPath
       /\ markerPaths[Len(markerPaths) - 1] # markerPath
  /\ stage = "record" => Marker.id \in target \cup altered

\* What such a record names the controller knows to have put there.
Backed ==
  Live /\ record.id \in ToSet(markerPaths) =>
    /\ ToSet(record.tools) \subseteq {uploadedTools[i] : i \in 1..Uploaded}
    /\ record.removeAgent => agentUploaded /\ record.agent = agentPath

\* What the run has on the target and has not given up.
Left == (target \cap put) \ lost

\* A marker among it is listed, or about to be.
Traced ==
  Live => \A p \in Left : IsMarker(p) =>
            p \in ToSet(markerPaths) \/ (stage = "record" /\ p = Marker.id)

\* What is there and may be removed is still on the worklist.
Pending ==
  /\ stage = "removing" /\ ~cleanupErr =>
       /\ Left \subseteq ToSet(todo)
       /\ markerPath = NoPath => Own = {}
  /\ stage \in {"removing", "manual"} /\ ~cleanupErr /\ record.id \in ToSet(todo) =>
       Named(record) \cap target \subseteq ToSet(todo)

CleanInv == Typed /\ Aged /\ Current /\ Backed /\ Traced /\ Pending /\ MarkerGoesLast

-----------------------------------------------------------------------------
\* Facts about lists of paths.

LEMMA ReverseSet == ASSUME NEW S, NEW s \in Seq(S) PROVE ToSet(Reverse(s)) = ToSet(s)
<1>1. Len(s) \in Nat /\ DOMAIN s = 1..Len(s) /\ DOMAIN Reverse(s) = 1..Len(s)
  BY DEF Reverse
<1>2. \A i \in 1..Len(s) : Len(s) - i + 1 \in 1..Len(s) /\ Reverse(s)[i] = s[Len(s) - i + 1]
  BY <1>1 DEF Reverse
<1>3. \A i \in 1..Len(s) : Len(s) - (Len(s) - i + 1) + 1 = i
  BY <1>1
<1>4. \A i \in 1..Len(s) : s[i] = Reverse(s)[Len(s) - i + 1]
  BY <1>2, <1>3
<1>. QED
  BY <1>1, <1>2, <1>4 DEF ToSet

LEMMA ConcatSet ==
  ASSUME NEW S, NEW s \in Seq(S), NEW t \in Seq(S) PROVE ToSet(s \o t) = ToSet(s) \cup ToSet(t)
<1>1. Len(s) \in Nat /\ Len(t) \in Nat /\ DOMAIN s = 1..Len(s) /\ DOMAIN t = 1..Len(t)
  OBVIOUS
<1>2. /\ s \o t \in Seq(S) /\ Len(s \o t) = Len(s) + Len(t)
      /\ \A i \in 1..(Len(s) + Len(t)) :
           (s \o t)[i] = IF i <= Len(s) THEN s[i] ELSE t[i - Len(s)]
  BY ConcatProperties
<1>3. DOMAIN (s \o t) = 1..(Len(s) + Len(t))
  BY <1>2
<1>4. \A i \in 1..Len(s) : i \in 1..(Len(s) + Len(t)) /\ (s \o t)[i] = s[i]
  BY <1>1, <1>2
<1>5. \A i \in 1..Len(t) : i + Len(s) \in 1..(Len(s) + Len(t)) /\ (s \o t)[i + Len(s)] = t[i]
  BY <1>1, <1>2
<1>6. ToSet(s) \cup ToSet(t) \subseteq ToSet(s \o t)
  BY <1>1, <1>3, <1>4, <1>5 DEF ToSet
<1>7. \A i \in 1..(Len(s) + Len(t)) : (s \o t)[i] \in ToSet(s) \cup ToSet(t)
  <2>. TAKE i \in 1..(Len(s) + Len(t))
  <2>1. i <= Len(s) \/ i - Len(s) \in 1..Len(t)
    BY <1>1
  <2>. QED
    BY <1>1, <1>2, <2>1 DEF ToSet
<1>. QED
  BY <1>3, <1>6, <1>7 DEF ToSet

LEMMA AppendSet ==
  ASSUME NEW S, NEW s \in Seq(S), NEW e \in S PROVE ToSet(Append(s, e)) = ToSet(s) \cup {e}
<1>1. Len(s) \in Nat /\ DOMAIN s = 1..Len(s)
  OBVIOUS
<1>2. /\ DOMAIN Append(s, e) = 1..(Len(s) + 1)
      /\ \A i \in 1..Len(s) : Append(s, e)[i] = s[i]
      /\ Append(s, e)[Len(s) + 1] = e
  BY <1>1, AppendProperties
<1>. QED
  BY <1>1, <1>2 DEF ToSet

\* A list whose last entry but one is taken out.
LEMMA DropSet ==
  ASSUME NEW S, NEW s \in Seq(S), Len(s) >= 2, NEW last \in S, s[Len(s)] = last
  PROVE  LET dropped == Append(SubSeq(s, 1, Len(s) - 2), last)
         IN /\ ToSet(dropped) \subseteq ToSet(s)
            /\ ToSet(s) \ {s[Len(s) - 1]} \subseteq ToSet(dropped)
            /\ last \in ToSet(dropped)
<1>1. Len(s) \in Nat /\ DOMAIN s = 1..Len(s)
  BY SMTT(30)
<1>2. PICK n \in Nat : Len(s) = n + 2
  <2>1. Len(s) - 2 \in Nat /\ Len(s) = (Len(s) - 2) + 2
    BY <1>1
  <2>. QED
    BY <2>1
<1>. DEFINE rest == SubSeq(s, 1, Len(s) - 2)
<1>3. n \in Int /\ 1 \in Int /\ \A i \in 1..n : s[i] \in S
  BY <1>1, <1>2
<1>4. /\ Len(SubSeq(s, 1, n)) = IF 1 <= n THEN n - 1 + 1 ELSE 0
      /\ \A i \in 1..(n - 1 + 1) : SubSeq(s, 1, n)[i] = s[1 + i - 1]
  BY ONLY <1>3, SubSeqProperties
<1>5. (IF 1 <= n THEN n - 1 + 1 ELSE 0) = n /\ n - 1 + 1 = n /\ \A i \in 1..n : 1 + i - 1 = i
  OBVIOUS
<1>6. rest \in Seq(S) /\ Len(rest) = n /\ \A i \in 1..n : rest[i] = s[i]
  <2>1. Len(s) - 2 = n
    BY <1>2
  <2>2. rest \in Seq(S)
    BY PrefixType
  <2>. QED
    BY <1>4, <1>5, <2>1, <2>2
<1>. HIDE DEF rest
<1>7. DOMAIN rest = 1..n
  BY <1>6
<1>8. ToSet(Append(rest, last)) = ToSet(rest) \cup {last}
  BY <1>6, AppendSet
<1>9. \A i \in 1..Len(s) : i \in 1..n \/ i = Len(s) - 1 \/ i = Len(s)
  BY <1>1, <1>2
<1>10. (\A i \in 1..n : i \in 1..Len(s)) /\ Len(s) \in 1..Len(s)
  BY <1>1, <1>2
<1>11. ToSet(rest) \subseteq ToSet(s) /\ last \in ToSet(s)
  BY <1>1, <1>6, <1>7, <1>10 DEF ToSet
<1>12. \A i \in 1..Len(s) : s[i] \in ToSet(rest) \cup {last, s[Len(s) - 1]}
  BY <1>6, <1>7, <1>9 DEF ToSet
<1>13. ToSet(s) \ {s[Len(s) - 1]} \subseteq ToSet(rest) \cup {last}
  BY <1>1, <1>12 DEF ToSet
<1>. QED
  BY <1>8, <1>11, <1>13 DEF rest

LEMMA TailSet ==
  ASSUME NEW S, NEW s \in Seq(S), s # <<>>
  PROVE  /\ Head(s) \in S /\ Tail(s) \in Seq(S)
         /\ ToSet(s) = {Head(s)} \cup ToSet(Tail(s))
         /\ MarkersLast(s) => MarkersLast(Tail(s))
         /\ MarkersLast(s) /\ IsMarker(Head(s)) => \A p \in ToSet(s) : IsMarker(p)
<1>1. Len(s) \in Nat /\ Len(s) >= 1 /\ DOMAIN s = 1..Len(s)
  OBVIOUS
<1>2. /\ Head(s) = s[1] /\ Tail(s) \in Seq(S) /\ Len(Tail(s)) = Len(s) - 1
      /\ \A i \in 1..(Len(s) - 1) : Tail(s)[i] = s[i + 1]
  BY HeadTailProperties
<1>3. DOMAIN Tail(s) = 1..(Len(s) - 1)
  BY <1>2
<1>4. ToSet(s) = {Head(s)} \cup ToSet(Tail(s))
  <2>1. \A i \in 1..Len(s) : i = 1 \/ (i - 1 \in 1..(Len(s) - 1) /\ s[i] = Tail(s)[i - 1])
    BY <1>1, <1>2
  <2>2. \A i \in 1..(Len(s) - 1) : i + 1 \in 1..Len(s)
    BY <1>1
  <2>3. \A i \in 1..Len(s) : s[i] \in {Head(s)} \cup ToSet(Tail(s))
    BY <1>2, <1>3, <2>1 DEF ToSet
  <2>4. \A i \in 1..(Len(s) - 1) : Tail(s)[i] \in ToSet(s)
    BY <1>1, <1>2, <2>2 DEF ToSet
  <2>5. Head(s) \in ToSet(s)
    BY <1>1, <1>2 DEF ToSet
  <2>. QED
    BY <1>1, <1>3, <2>3, <2>4, <2>5 DEF ToSet
<1>5. MarkersLast(s) => MarkersLast(Tail(s))
  BY <1>1, <1>2 DEF MarkersLast
<1>6. MarkersLast(s) /\ IsMarker(Head(s)) => \A p \in ToSet(s) : IsMarker(p)
  BY <1>1, <1>2 DEF MarkersLast, ToSet
<1>. QED
  BY <1>1, <1>2, <1>4, <1>5, <1>6

LEMMA NotMarkers ==
  /\ \A p \in PathsOf("marker") : IsMarker(p)
  /\ \A p \in PathsOf("tool") \cup AgentPaths : ~IsMarker(p)
BY DEF PathsOf, AgentPaths, IsMarker, NoPath

LEMMA WorklistOrder ==
  ASSUME NEW tools \in Seq(PathsOf("tool")), NEW markers \in Seq(PathsOf("marker")),
         NEW agent \in AgentPaths, NEW remove
  PROVE  /\ Worklist(tools, remove, agent, markers) \in Seq(Paths)
         /\ MarkersLast(Worklist(tools, remove, agent, markers))
         /\ ToSet(Worklist(tools, remove, agent, markers))
              = ToSet(tools) \cup (IF remove THEN {agent} ELSE {}) \cup ToSet(markers)
<1>. DEFINE t == Reverse(tools)
            a == IF remove THEN <<agent>> ELSE <<>>
            m == Reverse(markers)
<1>1. /\ t \in Seq(PathsOf("tool")) /\ m \in Seq(PathsOf("marker")) /\ a \in Seq(AgentPaths)
      /\ t \in Seq(Paths) /\ a \in Seq(Paths) /\ m \in Seq(Paths)
  <2>1. t \in Seq(PathsOf("tool")) /\ m \in Seq(PathsOf("marker")) /\ a \in Seq(AgentPaths)
    BY ReverseType
  <2>2. PathsOf("tool") \subseteq Paths /\ PathsOf("marker") \subseteq Paths /\ AgentPaths \subseteq Paths
    BY DEF Paths, Removable
  <2>3. \A S : S \subseteq Paths => Seq(S) \subseteq Seq(Paths)
    OBVIOUS
  <2>. HIDE DEF t, a, m
  <2>. QED
    BY <2>1, <2>2, <2>3
<1>2. Worklist(tools, remove, agent, markers) = (t \o a) \o m
  BY DEF Worklist
<1>3. ToSet(t) = ToSet(tools) /\ ToSet(m) = ToSet(markers)
      /\ ToSet(a) = IF remove THEN {agent} ELSE {}
  <2>1. ToSet(<<>>) = {} /\ ToSet(<<agent>>) = {agent}
    BY DEF ToSet
  <2>. QED
    BY <2>1, ReverseSet
<1>. HIDE DEF t, a, m
<1>4. /\ t \o a \in Seq(Paths) /\ Len(t \o a) = Len(t) + Len(a)
      /\ \A i \in 1..(Len(t) + Len(a)) : (t \o a)[i] = IF i <= Len(t) THEN t[i] ELSE a[i - Len(t)]
  BY <1>1, ConcatProperties
<1>5. /\ (t \o a) \o m \in Seq(Paths) /\ Len((t \o a) \o m) = Len(t) + Len(a) + Len(m)
      /\ \A i \in 1..(Len(t) + Len(a) + Len(m)) :
           ((t \o a) \o m)[i] = IF i <= Len(t) + Len(a) THEN (t \o a)[i]
                                ELSE m[i - (Len(t) + Len(a))]
  BY <1>1, <1>4, ConcatProperties
<1>6. Len(t) \in Nat /\ Len(a) \in Nat /\ Len(m) \in Nat
  BY <1>1
<1>7. \A i \in 1..(Len(t) + Len(a) + Len(m)) :
        IsMarker(((t \o a) \o m)[i]) <=> i > Len(t) + Len(a)
  <2>. SUFFICES ASSUME NEW i \in 1..(Len(t) + Len(a) + Len(m))
                PROVE  IsMarker(((t \o a) \o m)[i]) <=> i > Len(t) + Len(a)
    OBVIOUS
  <2>1. CASE i <= Len(t)
    <3>1. t[i] \in PathsOf("tool") /\ ((t \o a) \o m)[i] = t[i]
      BY <1>1, <1>4, <1>5, <1>6, <2>1
    <3>. QED
      BY <1>6, <2>1, <3>1, NotMarkers
  <2>2. CASE i > Len(t) /\ i <= Len(t) + Len(a)
    <3>1. i - Len(t) \in 1..Len(a)
      BY <1>6, <2>2
    <3>2. a[i - Len(t)] \in AgentPaths /\ ((t \o a) \o m)[i] = a[i - Len(t)]
      BY <1>1, <1>4, <1>5, <1>6, <2>2, <3>1
    <3>. QED
      BY <1>6, <2>2, <3>2, NotMarkers
  <2>3. CASE i > Len(t) + Len(a)
    <3>1. i - (Len(t) + Len(a)) \in 1..Len(m)
      BY <1>6, <2>3
    <3>2. m[i - (Len(t) + Len(a))] \in PathsOf("marker")
          /\ ((t \o a) \o m)[i] = m[i - (Len(t) + Len(a))]
      BY <1>1, <1>5, <1>6, <2>3, <3>1
    <3>. QED
      BY <2>3, <3>2, NotMarkers
  <2>. QED
    BY <1>6, <2>1, <2>2, <2>3
<1>8. MarkersLast((t \o a) \o m)
  BY <1>5, <1>6, <1>7 DEF MarkersLast
<1>9. ToSet((t \o a) \o m) = ToSet(t) \cup ToSet(a) \cup ToSet(m)
  <2>1. ToSet(t \o a) = ToSet(t) \cup ToSet(a)
    BY <1>1, ConcatSet
  <2>2. ToSet((t \o a) \o m) = ToSet(t \o a) \cup ToSet(m)
    <3>1. t \o a \in Seq(Paths) /\ m \in Seq(Paths)
      BY <1>1, <1>4
    <3>. QED
      BY ONLY <3>1, ConcatSet, Zenon
  <2>. QED
    BY <2>1, <2>2
<1>. QED
  BY <1>2, <1>3, <1>5, <1>8, <1>9

-----------------------------------------------------------------------------
LEMMA CleanInit == Init => CleanInv
<1>. SUFFICES ASSUME Init PROVE CleanInv
  OBVIOUS
<1>1. NoRecord.id = NoPath /\ NoRecord.agent = NoPath /\ NoPath[1] = 0 /\ ToSet(<<>>) = {}
  BY DEF NoRecord, NoPath, ToSet
<1>. QED
  BY <1>1 DEF Init, FootprintInit, CleanInv, Typed, Aged, Current, Backed, Traced, Pending,
              MarkerGoesLast, AgentPaths, Live, Preparing

\* The numbers of a marker and of a record.
LEMMA RecordNumbers ==
  ASSUME Kinds
  PROVE  /\ record.id[1] \in Nat /\ record.id[3] \in Nat
         /\ \A p \in ToSet(markerPaths) : p \in PathsOf("marker") /\ p[1] \in Nat /\ p[3] \in Nat
         /\ Len(uploadedTools) \in Nat /\ runs \in Nat
         /\ Marker.id[1] = runs /\ Marker.id[3] = Len(uploadedTools)
         /\ uploadedTools # <<>> => Len(uploadedTools) >= 1
<1>1. record = NoRecord => record.id[1] = 0 /\ record.id[3] = 0
  BY DEF NoRecord, NoPath
<1>2. \A p \in PathsOf("marker") : p[1] \in Nat /\ p[3] \in Nat
  BY DEF PathsOf
<1>3. \A p \in ToSet(markerPaths) : p \in PathsOf("marker")
  BY DEF Kinds, ToSet
<1>4. Len(uploadedTools) \in Nat /\ (uploadedTools # <<>> => Len(uploadedTools) >= 1)
  BY DEF Kinds
<1>. QED
  BY <1>1, <1>2, <1>3, <1>4 DEF Kinds, Marker

\* Before the first marker of the run none is listed.
LEMMA NoMarkerYet ==
  ASSUME Kinds, Aged, stage \in {"agent", "check", "mark", "record"}, uploadedTools = <<>>
  PROVE  ToSet(markerPaths) = {} /\ record.id[1] # runs
<1>1. Limit = -1
  BY DEF Limit
<1>2. stage \in Preparing
  BY DEF Preparing
<1>3. \A p \in ToSet(markerPaths) \cup {record.id} : p[3] \in Nat
  BY RecordNumbers
<1>. QED
  BY <1>1, <1>2, <1>3 DEF Aged

\* The marker to be written is new.
LEMMA MarkerIsNew ==
  ASSUME Kinds, Aged, stage \in {"mark", "record"}
  PROVE  Marker.id \notin ToSet(markerPaths) \cup {record.id}
<1>1. Limit = Len(uploadedTools) - 1 /\ stage \in Preparing
  BY DEF Limit, Preparing
<1>. QED
  BY <1>1, RecordNumbers DEF Aged

LEMMA CleanStart == ASSUME FootInv, OwnInv, CleanInv, StartRun PROVE CleanInv'
<1>1. /\ stage = "idle" /\ runs' = runs + 1 /\ candidate' = 1 /\ put' = {}
      /\ stage' \in {"probe", "agent"} /\ agentPath' \in {OwnAgent, NoPath}
      /\ UNCHANGED <<job, record, uploadedTools, markerPath, markerPaths, cleanupErr>>
  BY DEF StartRun, markerVars, cleaning
<1>2. markerPaths = <<>> /\ ToSet(<<>>) = {}
  BY <1>1 DEF CleanInv, Aged, Live, ToSet
<1>3. record.id[1] \in Nat /\ runs \in Nat /\ record.id[1] <= runs
  BY RecordNumbers DEF FootInv, Kinds, CleanInv, Aged
<1>4. Typed'
  BY <1>1 DEF CleanInv, Typed, AgentPaths, PathsOf, OwnAgent
<1>5. Aged' /\ Current' /\ Backed'
  BY <1>1, <1>2, <1>3 DEF Aged, Current, Backed, Live, Preparing
<1>6. Traced' /\ Pending' /\ MarkerGoesLast'
  BY <1>1 DEF Traced, Pending, MarkerGoesLast, Left
<1>. QED
  BY <1>4, <1>5, <1>6 DEF CleanInv

\* A stage of Prepare that does not touch markers.
LEMMA CleanAgentSteps ==
  ASSUME FootInv, OwnInv, CleanInv, HashPreinstalled \/ UploadAgent \/ CheckAgent PROVE CleanInv'
<1>1. /\ stage \in {"agent", "check"} /\ stage' \in {"mark", "failed", "check", "agent"}
      /\ UNCHANGED <<job, runs, record, uploadedTools, markerPath, markerPaths>>
  BY DEF HashPreinstalled, UploadAgent, CheckAgent, NextCandidate, markerVars
<1>2. uploadedTools = <<>> /\ ToSet(markerPaths) = {} /\ record.id[1] # runs
  BY <1>1, NoMarkerYet DEF OwnInv, Phases, FootInv, CleanInv
<1>3. Typed'
  <2>1. /\ candidate' \in {candidate, candidate + 1}
        /\ agentPath' \in {agentPath, OwnAgent, NoPath, AgentCandidate(candidate)}
    BY DEF HashPreinstalled, UploadAgent, CheckAgent, NextCandidate, agentVars
  <2>2. AgentCandidate(candidate) \in AgentPaths /\ OwnAgent \in AgentPaths
    BY DEF AgentCandidate, AgentPaths, PathsOf, OwnAgent, CleanInv, Typed, FootInv, Kinds
  <2>. QED
    BY <1>1, <2>1, <2>2 DEF CleanInv, Typed, AgentPaths
<1>4. Aged'
  BY <1>1, <1>2 DEF CleanInv, Aged, Live
<1>5. Current' /\ Backed'
  BY <1>1, <1>2 DEF Current, Backed
<1>6. Traced'
  <2>1. Left' \subseteq Left \cup {AgentCandidate(candidate)}
    BY DEF HashPreinstalled, UploadAgent, UploadTo, CheckAgent, Left, remote, history
  <2>2. ~IsMarker(AgentCandidate(candidate))
    BY DEF IsMarker, AgentCandidate
  <2>. QED
    BY <1>1, <2>1, <2>2 DEF CleanInv, Traced, Live
<1>. QED
  BY <1>1, <1>3, <1>4, <1>5, <1>6 DEF CleanInv, Pending, MarkerGoesLast

LEMMA CleanMarkerFails ==
  ASSUME FootInv, OwnInv, CleanInv, stage \in {"mark", "record"}, NEW left \in SUBSET {Marker.id},
         MarkerFails(left), UNCHANGED <<job, runs, candidate, markerPath, markerPaths>>,
         record' \in {record, Marker}
  PROVE  CleanInv'
<1>1. stage' = "failed" /\ agentPath' \in {agentPath, NoPath} /\ ~(stage' \in Preparing) /\ Live
  BY DEF MarkerFails, Preparing, Live
<1>2. Marker.id \notin ToSet(markerPaths) \cup {record.id} /\ Marker.id[1] = runs
      /\ Marker.agent = agentPath
  BY MarkerIsNew, RecordNumbers, MarkerType DEF FootInv, CleanInv
<1>3. Typed' /\ Aged' /\ Current'
  <2>1. Typed'
    BY <1>1, <1>2 DEF CleanInv, Typed, AgentPaths
  <2>2. record'.id[1] <= runs
    BY <1>2, RecordNumbers DEF FootInv, CleanInv, Aged
  <2>. QED
    BY <1>1, <2>1, <2>2 DEF CleanInv, Aged, Current, Live
<1>4. Backed'
  <2>. SUFFICES ASSUME record.id \in ToSet(markerPaths), record' = record
                PROVE  /\ ToSet(record.tools) \subseteq {uploadedTools'[i] : i \in 1..Uploaded'}
                       /\ record.removeAgent => agentUploaded' /\ record.agent = agentPath'
    BY <1>2 DEF Backed
  <2>1. uploadedTools # <<>>
    BY NoMarkerYet DEF FootInv, CleanInv
  <2>2. /\ uploadedTools' = Front(uploadedTools) /\ agentPath' = agentPath
        /\ agentUploaded' = (agentUploaded /\ TRUE)
    BY <2>1 DEF MarkerFails, MarkerFor
  <2>3. /\ Len(Front(uploadedTools)) = Len(uploadedTools) - 1
        /\ \A i \in 1..(Len(uploadedTools) - 1) : Front(uploadedTools)[i] = uploadedTools[i]
    BY <2>1, FrontType DEF FootInv, Kinds
  <2>4. Uploaded = Len(uploadedTools) - 1 /\ Uploaded' = Len(uploadedTools) - 1
    BY <1>1, <2>1, <2>2, <2>3 DEF Uploaded
  <2>5. /\ ToSet(record.tools) \subseteq {uploadedTools[i] : i \in 1..Uploaded}
        /\ record.removeAgent => agentUploaded /\ record.agent = agentPath
    BY <1>1 DEF CleanInv, Backed
  <2>6. {uploadedTools[i] : i \in 1..Uploaded} = {uploadedTools'[i] : i \in 1..Uploaded'}
    BY <2>2, <2>3, <2>4
  <2>7. record.removeAgent => agentUploaded' /\ record.agent = agentPath'
    BY <2>2, <2>5
  <2>. QED
    BY <2>5, <2>6, <2>7
<1>5. Traced'
  <2>1. /\ put' = put \cup left /\ left \subseteq lost' /\ lost \subseteq lost'
        /\ \A p \in target' : p \in lost' \/ (p \in target /\ p # Marker.id)
    BY DEF MarkerFails
  <2>2. Left' \subseteq Left \ {Marker.id}
    BY <2>1 DEF Left
  <2>. QED
    BY <1>1, <2>2 DEF CleanInv, Traced
<1>. QED
  BY <1>1, <1>3, <1>4, <1>5 DEF CleanInv, Pending, MarkerGoesLast

LEMMA CleanUploadMarker == ASSUME FootInv, OwnInv, CleanInv, UploadMarker PROVE CleanInv'
<1>1. stage = "mark" /\ UNCHANGED <<job, runs, record, candidate, markerPath, markerPaths>>
  BY DEF UploadMarker, markerVars, agentVars
<1>2. CASE \E left \in SUBSET {Marker.id} : MarkerFails(left)
  BY <1>1, <1>2, CleanMarkerFails
<1>3. CASE /\ target' = target \cup {Marker.id} /\ put' = put \cup {Marker.id}
           /\ stage' = "record"
           /\ UNCHANGED <<agentVars, uploadedTools, lost>>
  <2>1. Marker.id' = Marker.id /\ UNCHANGED <<agentPath, agentUploaded, uploadedTools>>
    BY <1>1, <1>3 DEF Marker, agentVars
  <2>2. Typed' /\ Aged'
    BY <1>1, <1>3, <2>1 DEF CleanInv, Typed, Aged, Live, Preparing, Limit
  <2>3. Current' /\ Backed'
    BY <1>1, <1>3, <2>1 DEF CleanInv, Current, Backed, Live, Preparing, Uploaded
  <2>4. Traced'
    <3>1. Left' \subseteq Left \cup {Marker.id}
      BY <1>3 DEF Left
    <3>. QED
      BY <1>1, <1>3, <2>1, <3>1 DEF CleanInv, Traced, Live
  <2>. QED
    BY <1>3, <2>2, <2>3, <2>4 DEF CleanInv, Pending, MarkerGoesLast
<1>. QED
  BY <1>2, <1>3 DEF UploadMarker, UploadTo

LEMMA CleanRecordMarker == ASSUME FootInv, OwnInv, CleanInv, RecordMarker PROVE CleanInv'
<1>1. stage = "record" /\ UNCHANGED <<job, runs>> /\ record' \in {record, Marker}
  BY DEF RecordMarker
<1>2. CASE (\E left \in SUBSET {Marker.id} : MarkerFails(left)) /\ UNCHANGED <<markerVars, candidate>>
  <2>1. UNCHANGED <<markerPath, markerPaths>>
    BY <1>2 DEF markerVars
  <2>. QED
    BY <1>1, <1>2, <2>1, CleanMarkerFails
<1>3. CASE /\ record' = Marker /\ markerPath' = Marker.id
           /\ markerPaths' = Append(markerPaths, Marker.id)
           /\ stage' = IF markerPath = NoPath THEN AfterMarker ELSE "drop"
           /\ UNCHANGED <<target, agentVars, uploadedTools, put, lost>>
  <2>1. /\ UNCHANGED <<candidate, agentPath, agentUploaded, uploadedTools, put, lost>>
        /\ stage' \in {"drop", "probe", "upload"}
        /\ stage' = "drop" => markerPath # NoPath
    BY <1>3 DEF agentVars, AfterMarker, MarkerFor
  <2>2. Marker.id \in PathsOf("marker") /\ markerPaths \in Seq(PathsOf("marker"))
        /\ Marker.agent = agentPath /\ Marker.tools = uploadedTools
        /\ Marker.removeAgent = agentUploaded
    BY MarkerType DEF FootInv, Kinds
  <2>3. ToSet(markerPaths') = ToSet(markerPaths) \cup {Marker.id}
    BY <1>3, <2>2, AppendSet
  <2>4. Typed'
    BY <1>3, <2>1, <2>2 DEF CleanInv, Typed
  <2>5. Limit = Len(uploadedTools) - 1 /\ Limit' = Len(uploadedTools) /\ stage \in Preparing
    BY <1>1, <2>1 DEF Limit, Preparing
  <2>6. Aged'
    BY <1>1, <1>3, <2>1, <2>3, <2>5, RecordNumbers DEF FootInv, CleanInv, Aged, Live
  <2>7. stage' = "drop" => /\ markerPaths'[Len(markerPaths')] = Marker.id
                           /\ markerPaths'[Len(markerPaths') - 1] # Marker.id
    <3>. SUFFICES ASSUME markerPath # NoPath
                  PROVE  /\ markerPaths'[Len(markerPaths')] = Marker.id
                         /\ markerPaths'[Len(markerPaths') - 1] # Marker.id
      BY <2>1
    <3>1. Len(markerPaths) \in Nat /\ Len(markerPaths) >= 1 /\ DOMAIN markerPaths = 1..Len(markerPaths)
      BY <2>2 DEF FootInv, Kinds
    <3>2. /\ Len(markerPaths') = Len(markerPaths) + 1
          /\ markerPaths'[Len(markerPaths) + 1] = Marker.id
          /\ markerPaths'[Len(markerPaths)] = markerPaths[Len(markerPaths)]
      BY <1>3, <2>2, <3>1, AppendProperties
    <3>3. markerPaths[Len(markerPaths)] \in ToSet(markerPaths)
      BY <3>1 DEF ToSet
    <3>4. Marker.id \notin ToSet(markerPaths)
      BY <1>1, MarkerIsNew DEF FootInv, CleanInv
    <3>5. Len(markerPaths') - 1 = Len(markerPaths)
      BY <3>1, <3>2
    <3>. QED
      BY <3>2, <3>3, <3>4, <3>5
  <2>8. Current'
    BY <1>3, <2>1, <2>3, <2>7 DEF Current
  <2>9. Backed'
    <3>1. Uploaded' = Len(uploadedTools) /\ ToSet(uploadedTools) = {uploadedTools[i] : i \in 1..Len(uploadedTools)}
      BY <2>1 DEF Uploaded, ToSet, FootInv, Kinds
    <3>. QED
      BY <1>3, <2>1, <2>2, <3>1 DEF Backed
  <2>10. Traced'
    <3>1. Left' = Left
      BY <1>3, <2>1 DEF Left
    <3>. QED
      BY <1>1, <2>1, <2>3, <3>1 DEF CleanInv, Traced, Live
  <2>. QED
    BY <2>1, <2>4, <2>6, <2>8, <2>9, <2>10 DEF CleanInv, Pending, MarkerGoesLast
<1>. QED
  BY <1>2, <1>3 DEF RecordMarker

LEMMA CleanDropOldMarker == ASSUME FootInv, OwnInv, CleanInv, DropOldMarker PROVE CleanInv'
<1>1. /\ stage = "drop" /\ stage' \in {"probe", "upload"} /\ Live
      /\ UNCHANGED <<job, altered, runs, record, put, lost, candidate, agentPath, agentUploaded,
                     uploadedTools, markerPath>>
  BY DEF DropOldMarker, AfterMarker, MarkerFor, agentVars, history, Live
<1>2. /\ record.id = markerPath /\ markerPaths[Len(markerPaths)] = markerPath
      /\ markerPaths \in Seq(PathsOf("marker")) /\ Len(markerPaths) >= 2
      /\ markerPath \in PathsOf("marker")
  BY <1>1 DEF CleanInv, Current, FootInv, Kinds
<1>. DEFINE old == markerPaths[Len(markerPaths) - 1]
            rest == SubSeq(markerPaths, 1, Len(markerPaths) - 2)
<1>3. \/ markerPaths' = markerPaths /\ target' = target
      \/ markerPaths' = Append(rest, markerPath) /\ target' = target \ {old}
  BY DEF DropOldMarker
<1>4. /\ ToSet(Append(rest, markerPath)) \subseteq ToSet(markerPaths)
      /\ ToSet(markerPaths) \ {old} \subseteq ToSet(Append(rest, markerPath))
      /\ markerPath \in ToSet(Append(rest, markerPath))
  BY <1>2, DropSet
<1>. HIDE DEF old, rest
<1>5. /\ ToSet(markerPaths') \subseteq ToSet(markerPaths)
      /\ \A p \in ToSet(markerPaths) : p \in ToSet(markerPaths') \/ p \notin target'
      /\ markerPath \in ToSet(markerPaths')
  <2>1. markerPath \in ToSet(markerPaths)
    BY <1>4
  <2>. QED
    BY <1>3, <1>4, <2>1
<1>6. Typed' /\ Aged'
  BY <1>1, <1>5 DEF CleanInv, Typed, Aged, Live, Preparing, Limit
<1>7. Current' /\ Backed'
  BY <1>1, <1>2, <1>5 DEF CleanInv, Current, Backed, Uploaded
<1>8. Traced'
  <2>1. Left' \subseteq Left \cap target'
    BY <1>1, <1>3 DEF Left
  <2>. QED
    BY <1>1, <1>5, <2>1 DEF CleanInv, Traced
<1>. QED
  BY <1>1, <1>6, <1>7, <1>8 DEF CleanInv, Pending, MarkerGoesLast

LEMMA CleanPrepareTool == ASSUME FootInv, OwnInv, CleanInv, PrepareTool PROVE CleanInv'
<1>1. /\ stage = "tool" /\ stage' \in {"upload", "mark", "failed"}
      /\ UNCHANGED <<job, runs, record, target, altered, put, lost, candidate, agentPath,
                     agentUploaded, markerPath, markerPaths>>
      /\ \/ uploadedTools' = Append(uploadedTools, ToolPath(Len(uploadedTools) + 1))
            /\ stage' # "failed"
         \/ stage' = "failed" /\ UNCHANGED uploadedTools
  BY DEF PrepareTool, agentVars, markerVars, history, remote
<1>2. Len(uploadedTools) \in Nat /\ uploadedTools \in Seq(PathsOf("tool"))
      /\ ToolPath(Len(uploadedTools) + 1) \in PathsOf("tool")
  <2>1. Len(uploadedTools) + 1 \in Nat /\ Owner \in Nat
    BY OwnerType DEF FootInv, Kinds
  <2>. QED
    BY <2>1 DEF ToolPath, PathsOf, FootInv, Kinds
<1>3. stage' # "failed" =>
        /\ Len(uploadedTools') = Len(uploadedTools) + 1 /\ uploadedTools' # <<>>
        /\ \A i \in 1..Len(uploadedTools) : uploadedTools'[i] = uploadedTools[i]
  BY <1>1, <1>2, AppendProperties
<1>4. /\ Limit = Len(uploadedTools) /\ Limit <= Limit' /\ Limit' \in Int
  BY <1>1, <1>2, <1>3 DEF Limit
<1>5. Typed' /\ Aged'
  BY <1>1, <1>4, RecordNumbers DEF CleanInv, Typed, Aged, Live, Preparing, FootInv
<1>6. Backed'
  <2>1. /\ Uploaded = Len(uploadedTools) /\ Uploaded' \in Int /\ Uploaded' >= Uploaded
        /\ \A i \in 1..Uploaded : uploadedTools'[i] = uploadedTools[i]
    BY <1>1, <1>2, <1>3 DEF Uploaded
  <2>2. {uploadedTools[i] : i \in 1..Uploaded} \subseteq {uploadedTools'[i] : i \in 1..Uploaded'}
    BY <1>2, <2>1
  <2>. QED
    BY <1>1, <2>2 DEF CleanInv, Backed, Live
<1>7. Current' /\ Traced'
  BY <1>1 DEF CleanInv, Current, Traced, Left, Live, Preparing
<1>. QED
  BY <1>1, <1>5, <1>6, <1>7 DEF CleanInv, Pending, MarkerGoesLast

\* A tool comes or goes, or only the stage changes.
LEMMA CleanQuiet ==
  ASSUME FootInv, OwnInv, CleanInv,
         UploadTool \/ VerifyTool \/ ProbeTarget \/ EndPrepare \/ EndCleanup
           \/ (StartCleanup /\ stage' = "cleaned")
  PROVE  CleanInv'
<1>1. /\ Live /\ Live' /\ stage' \in {"tool", "verify", "failed", "ready", "cleaned"}
      /\ stage \notin {"agent", "check", "mark", "record"}
      /\ stage' \in Preparing => stage \in Preparing
      /\ UNCHANGED <<job, runs, record, altered, lost, candidate, agentPath, agentUploaded,
                     uploadedTools, markerPath, markerPaths>>
  BY DEF UploadTool, VerifyTool, ProbeTarget, EndPrepare, EndCleanup, StartCleanup, Live, Preparing,
         remote, controller, agentVars, markerVars, history
<1>2. Typed' /\ Aged' /\ Current' /\ Backed'
  BY <1>1 DEF CleanInv, Typed, Aged, Current, Backed, Limit, Uploaded
<1>3. Traced'
  <2>1. Left' \subseteq Left \cup ({Last(uploadedTools)} \cap target')
    BY DEF UploadTool, UploadTo, VerifyTool, ProbeTarget, EndPrepare, EndCleanup, StartCleanup, Left,
           remote, history
  <2>2. UploadTool => Last(uploadedTools) \in PathsOf("tool")
    BY DEF UploadTool, Last, FootInv, Kinds
  <2>3. ~UploadTool => Left' \subseteq Left
    BY DEF VerifyTool, ProbeTarget, EndPrepare, EndCleanup, StartCleanup, Left, remote, history
  <2>4. \A p \in Left' : IsMarker(p) => p \in Left
    BY <2>1, <2>2, <2>3, NotMarkers
  <2>. QED
    BY <1>1, <2>4 DEF CleanInv, Traced
<1>. QED
  BY <1>1, <1>2, <1>3 DEF CleanInv, Pending, MarkerGoesLast

LEMMA CleanBegins == ASSUME FootInv, OwnInv, CleanInv, StartCleanup, stage' = "removing" PROVE CleanInv'
<1>1. /\ stage \in {"ready", "failed"} /\ Live /\ Live'
      /\ UNCHANGED <<job, runs, record, target, altered, put, lost, candidate, agentPath,
                     agentUploaded, uploadedTools, markerPath, markerPaths>>
      /\ NeedsMarker => markerPath # NoPath /\ Intact(markerPath)
      /\ todo' = Worklist(uploadedTools, agentUploaded, agentPath, markerPaths)
  BY DEF StartCleanup, Retained, Live, remote, controller, agentVars, markerVars, history
<1>2. /\ todo' \in Seq(Paths) /\ MarkersLast(todo')
      /\ ToSet(todo') = Covered \cup ToSet(markerPaths)
  BY <1>1, WorklistOrder DEF CleanInv, Typed, FootInv, Kinds, Covered
<1>3. Typed' /\ Aged' /\ Current' /\ Backed' /\ Traced'
  BY <1>1, <1>2 DEF CleanInv, Typed, Aged, Current, Backed, Traced, Left, Live, Preparing, Uploaded
<1>4. Left \subseteq ToSet(todo') /\ Left' = Left /\ Own' = Own
  BY <1>1, <1>2 DEF CleanInv, Traced, OwnInv, Known, Own, Left
<1>5. markerPath = NoPath => Own = {}
  BY <1>1 DEF NeedsMarker, OwnInv, Known, Covered, ToSet
<1>6. ASSUME record.id \in ToSet(todo') PROVE Named(record) \subseteq ToSet(todo')
  <2>1. CASE record = NoRecord
    BY <2>1 DEF Named, NoRecord, ToSet
  <2>2. CASE record # NoRecord
    <3>1. record.id \in PathsOf("marker")
      BY <2>2 DEF FootInv, Kinds
    <3>2. Covered \subseteq PathsOf("tool") \cup AgentPaths
      BY DEF Covered, ToSet, CleanInv, Typed, FootInv, Kinds
    <3>3. record.id \in ToSet(markerPaths)
      BY <1>2, <1>6, <3>1, <3>2, NotMarkers
    <3>4. /\ ToSet(record.tools) \subseteq {uploadedTools[i] : i \in 1..Uploaded}
          /\ record.removeAgent => agentUploaded /\ record.agent = agentPath
      BY <1>1, <3>3 DEF CleanInv, Backed
    <3>5. Uploaded = Len(uploadedTools) /\ DOMAIN uploadedTools = 1..Len(uploadedTools)
      BY <1>1 DEF Uploaded, FootInv, Kinds
    <3>. QED
      BY <1>2, <3>4, <3>5 DEF Named, Covered, ToSet
  <2>. QED
    BY <2>1, <2>2
<1>7. Pending' /\ MarkerGoesLast'
  <2>1. markerPath # NoPath => markerPath \in target
    BY <1>1 DEF NeedsMarker, Intact
  <2>2. Named(record)' = Named(record)
    BY <1>1 DEF Named
  <2>3. MarkerGoesLast'
    BY <1>1, <1>4, <1>5, <2>1 DEF MarkerGoesLast
  <2>. QED
    BY <1>1, <1>4, <1>5, <1>6, <2>2, <2>3 DEF Pending
<1>. QED
  BY <1>3, <1>7 DEF CleanInv

LEMMA CleanRemoves ==
  ASSUME FootInv, OwnInv, CleanInv, stage \in {"removing", "manual"}, RemoveNext PROVE CleanInv'
<1>1. /\ UNCHANGED <<job, runs, record, stage, altered, put, lost, candidate, agentPath,
                     agentUploaded, uploadedTools, markerPath, markerPaths>>
      /\ todo # <<>> /\ todo' = Tail(todo) /\ target' \subseteq target
      /\ ~cleanupErr' => ~cleanupErr /\ target' = target \ {Head(todo)}
  BY DEF RemoveNext, controller, agentVars, markerVars, history
<1>2. /\ Tail(todo) \in Seq(Paths) /\ MarkersLast(Tail(todo))
      /\ ToSet(todo) = {Head(todo)} \cup ToSet(Tail(todo))
      /\ IsMarker(Head(todo)) => \A p \in ToSet(todo) : IsMarker(p)
  BY <1>1, TailSet DEF CleanInv, Typed
<1>3. Typed' /\ Aged' /\ Backed'
  BY <1>1, <1>2 DEF CleanInv, Typed, Aged, Backed, Live, Preparing, Limit, Uploaded
<1>4. Current' /\ Traced'
  BY <1>1 DEF CleanInv, Current, Traced, Left, Live, Preparing
<1>5. Left' \subseteq Left /\ Own' \subseteq Own /\ (~cleanupErr' => Head(todo) \notin Left')
  BY <1>1 DEF Left, Own
<1>6. Pending'
  BY <1>1, <1>2, <1>5 DEF CleanInv, Pending, Named
<1>7. MarkerGoesLast'
  <2>. SUFFICES ASSUME stage = "removing", ~cleanupErr', record.id = markerPath,
                       markerPath \notin altered
                PROVE  Own' = {} \/ markerPath \in target'
    BY <1>1 DEF MarkerGoesLast
  <2>1. ~cleanupErr /\ target' = target \ {Head(todo)} /\ Left \subseteq ToSet(todo)
        /\ (markerPath = NoPath => Own = {}) /\ (Own = {} \/ markerPath \in target)
    BY <1>1 DEF CleanInv, Pending, MarkerGoesLast
  <2>2. CASE Own = {}
    BY <1>5, <2>2
  <2>3. CASE Own # {}
    <3>1. PICK p \in Own : TRUE
      BY <2>3
    <3>2. p \in ToSet(todo) /\ ~IsMarker(p)
      BY <2>1, <3>1 DEF Own, Left
    <3>3. ~IsMarker(Head(todo))
      BY <1>2, <3>2
    <3>4. IsMarker(markerPath)
      BY <2>1, <2>3, NotMarkers DEF CleanInv, Typed
    <3>. QED
      BY <2>1, <2>3, <3>3, <3>4
  <2>. QED
    BY <2>2, <2>3
<1>. QED
  BY <1>3, <1>4, <1>6, <1>7 DEF CleanInv

LEMMA CleanByHand == ASSUME FootInv, OwnInv, CleanInv, ManualCleanup PROVE CleanInv'
<1>1. /\ UNCHANGED <<job, runs, record, target, candidate, agentPath, uploadedTools, markerPath,
                     markerPaths>>
      /\ stage = "idle" /\ stage' = "manual" /\ record # NoRecord
      /\ todo' = Worklist(record.tools, record.removeAgent, record.agent,
                          <<record.id>> \o record.prior)
  BY DEF ManualCleanup, remote, controller, agentVars, markerVars
<1>2. <<record.id>> \o record.prior \in Seq(PathsOf("marker"))
  <2>1. <<record.id>> \in Seq(PathsOf("marker")) /\ record.prior \in Seq(PathsOf("marker"))
    BY <1>1 DEF FootInv, Kinds
  <2>. QED
    BY <2>1, ConcatProperties
<1>3. /\ todo' \in Seq(Paths) /\ MarkersLast(todo')
      /\ Named(record) \subseteq ToSet(todo')
  <2>1. record.tools \in Seq(PathsOf("tool")) /\ record.agent \in AgentPaths
    BY DEF CleanInv, Typed, FootInv, Kinds
  <2>2. /\ todo' \in Seq(Paths) /\ MarkersLast(todo')
        /\ ToSet(todo') = ToSet(record.tools)
                            \cup (IF record.removeAgent THEN {record.agent} ELSE {})
                            \cup ToSet(<<record.id>> \o record.prior)
    <3>. DEFINE markers == <<record.id>> \o record.prior
    <3>1. markers \in Seq(PathsOf("marker"))
      BY <1>2
    <3>. HIDE DEF markers
    <3>2. /\ Worklist(record.tools, record.removeAgent, record.agent, markers) \in Seq(Paths)
          /\ MarkersLast(Worklist(record.tools, record.removeAgent, record.agent, markers))
          /\ ToSet(Worklist(record.tools, record.removeAgent, record.agent, markers))
               = ToSet(record.tools) \cup (IF record.removeAgent THEN {record.agent} ELSE {})
                   \cup ToSet(markers)
      BY <2>1, <3>1, WorklistOrder
    <3>. QED
      BY <1>1, <3>2 DEF markers
  <2>. QED
    BY <2>2 DEF Named
<1>4. Typed' /\ Aged'
  BY <1>1, <1>3 DEF CleanInv, Typed, Aged, Live, Preparing
<1>5. Current' /\ Backed' /\ Traced' /\ MarkerGoesLast'
  BY <1>1 DEF Current, Backed, Traced, MarkerGoesLast, Live, Preparing
<1>6. Pending'
  BY <1>1, <1>3 DEF Pending, Named
<1>. QED
  BY <1>4, <1>5, <1>6 DEF CleanInv

LEMMA CleanGone == ASSUME CleanInv, Gone PROVE CleanInv'
<1>1. /\ stage' = "idle" /\ candidate' = 0 /\ agentPath' = NoPath /\ markerPath' = NoPath
      /\ markerPaths' = <<>> /\ UNCHANGED <<record, runs>>
  BY DEF Gone
<1>2. ToSet(<<>>) = {} /\ ~Live'
  BY <1>1 DEF ToSet, Live
<1>. QED
  BY <1>1, <1>2 DEF CleanInv, Typed, Aged, Current, Backed, Traced, Pending, MarkerGoesLast,
                    AgentPaths, Preparing, Live

LEMMA CleanAltered ==
  ASSUME CleanInv,
         \/ AlterMarker \/ OpenTemp
         \/ UNCHANGED <<job, remote, record, stage, controller, cleaning, history, runs>>
  PROVE  CleanInv'
<1>1. /\ UNCHANGED <<job, record, stage, candidate, agentPath, agentUploaded, uploadedTools,
                     markerPath, markerPaths, todo, cleanupErr, put, lost, runs>>
      /\ target' \subseteq target /\ altered \subseteq altered' /\ target \subseteq target' \cup altered'
  BY DEF AlterMarker, OpenTemp, remote, controller, agentVars, markerVars, cleaning, history
<1>2. Typed' /\ Aged' /\ Backed'
  BY <1>1 DEF CleanInv, Typed, Aged, Backed, Live, Limit, Uploaded
<1>3. Current'
  <2>1. Marker.id' = Marker.id
    BY <1>1 DEF Marker
  <2>. QED
    BY <1>1, <2>1 DEF CleanInv, Current
<1>4. Traced'
  <2>1. Marker.id' = Marker.id /\ Left' \subseteq Left
    BY <1>1 DEF Marker, Left
  <2>. QED
    BY <1>1, <2>1 DEF CleanInv, Traced, Live
<1>5. Pending' /\ MarkerGoesLast'
  <2>1. Left' \subseteq Left /\ Own' \subseteq Own
    BY <1>1 DEF Left, Own
  <2>. QED
    BY <1>1, <2>1 DEF CleanInv, Pending, MarkerGoesLast, Named
<1>. QED
  BY <1>2, <1>3, <1>4, <1>5 DEF CleanInv

LEMMA CleanStep == FootInv /\ OwnInv /\ CleanInv /\ [Next]_vars => CleanInv'
<1>1. StartCleanup => stage' \in {"cleaned", "removing"}
  BY DEF StartCleanup, Retained
<1>. QED
  BY <1>1, Steps, CleanStart, CleanAgentSteps, CleanUploadMarker, CleanRecordMarker,
     CleanDropOldMarker, CleanPrepareTool, CleanQuiet, CleanBegins, CleanRemoves, CleanByHand,
     CleanGone, CleanAltered DEF PrepareStep

\* While Cleanup removes and no removal has failed, the marker outlives every
\* file it names (controller.go, Cleanup).
THEOREM MarkerOutlivesFiles == Spec => []MarkerGoesLast
<1>1. CleanInv => MarkerGoesLast
  BY DEF CleanInv
<1>. QED
  BY FootInit, FootStep, OwnInit, OwnStep, CleanInit, CleanStep, <1>1, PTL DEF Spec

-----------------------------------------------------------------------------
(* What the record names stays in reach.                                   *)

Reach ==
  (InReach \cap target') \ InReach' # {} =>
    \/ record'.id[1] # record.id[1]
    \/ record'.id \in altered'
    \/ cleanupErr
    \/ stage = "record" /\ stage' = "failed"

\* Nothing is in reach without a record.
LEMMA NothingOnRecord == record = NoRecord => InReach = {}
  BY DEF InReach, Named, NoRecord, ToSet

\* A step that leaves the record and its marker alone.
LEMMA ReachStays ==
  ASSUME UNCHANGED <<job, record>>,
         record # NoRecord /\ record.id \in target => record.id \in target',
         altered' = altered \/ record.id \in altered'
  PROVE  Reach
<1>1. CASE record = NoRecord
  BY <1>1, NothingOnRecord DEF Reach
<1>2. CASE record.id \in altered'
  BY <1>2 DEF Reach
<1>3. CASE record # NoRecord /\ altered' = altered
  <2>1. InReach \cap target' \subseteq InReach'
    BY <1>3 DEF InReach, Intact, Named, Foreign
  <2>. QED
    BY <2>1 DEF Reach
<1>. QED
  BY <1>1, <1>2, <1>3

LEMMA ReachMarker == ASSUME FootInv, OwnInv, CleanInv, UploadMarker \/ RecordMarker PROVE Reach
<1>1. UNCHANGED <<job, altered>> /\ Live
  BY DEF UploadMarker, RecordMarker, Live
<1>2. CASE UploadMarker
  <2>1. stage = "mark" /\ UNCHANGED record
    BY <1>2 DEF UploadMarker
  <2>2. record.id # Marker.id /\ (record # NoRecord => record.id # agentPath)
    BY <2>1, MarkerIsNew, NotMarkers DEF FootInv, Kinds, CleanInv, Typed
  <2>3. record # NoRecord /\ record.id \in target => record.id \in target'
    BY <1>2, <2>2 DEF UploadMarker, UploadTo, MarkerFails
  <2>. QED
    BY <1>1, <2>1, <2>3, ReachStays
<1>3. CASE RecordMarker
  <2>1. stage = "record" /\ stage' # "failed" => record' = Marker /\ target' = target
    BY <1>3 DEF RecordMarker, MarkerFails
  <2>. SUFFICES ASSUME stage' # "failed", record' = Marker, target' = target,
                       record.id[1] = runs, Marker.id \notin altered
                PROVE  InReach \cap target' \subseteq InReach'
    BY <1>1, <1>3, <2>1, RecordNumbers DEF Reach, RecordMarker, FootInv
  <2>2. Marker.id \in target /\ record.id \in ToSet(markerPaths)
    BY <1>3 DEF RecordMarker, CleanInv, Current, Preparing
  <2>3. /\ ToSet(record.tools) \subseteq {uploadedTools[i] : i \in 1..Uploaded}
        /\ record.removeAgent => agentUploaded /\ record.agent = agentPath
    BY <1>1, <2>2 DEF CleanInv, Backed
  <2>4. Uploaded \in Int /\ Uploaded <= Len(uploadedTools) /\ Len(uploadedTools) \in Nat
        /\ DOMAIN uploadedTools = 1..Len(uploadedTools)
    BY DEF Uploaded, FootInv, Kinds
  <2>5. Named(record) \subseteq Named(Marker)
    <3>1. Marker.tools = uploadedTools /\ Marker.removeAgent = agentUploaded
          /\ Marker.agent = agentPath
      BY DEF Marker
    <3>2. \A i \in 1..Uploaded : i \in DOMAIN uploadedTools
      BY <2>4
    <3>3. {uploadedTools[i] : i \in 1..Uploaded} \subseteq ToSet(uploadedTools)
      BY <3>2 DEF ToSet
    <3>. QED
      BY <2>3, <3>1, <3>3 DEF Named
  <2>6. InReach' = (Named(Marker) \cap target) \ Foreign
    BY <1>1, <2>2 DEF InReach, Intact, Named, Foreign
  <2>. QED
    BY <2>5, <2>6 DEF InReach
<1>. QED
  BY <1>2, <1>3

LEMMA ReachRemoves ==
  ASSUME FootInv, CleanInv, stage \in {"removing", "manual"}, RemoveNext PROVE Reach
<1>1. /\ UNCHANGED <<job, record, altered>> /\ todo # <<>>
      /\ target' = target \/ target' = target \ {Head(todo)}
  BY DEF RemoveNext
<1>2. /\ ToSet(todo) = {Head(todo)} \cup ToSet(Tail(todo))
      /\ IsMarker(Head(todo)) => \A p \in ToSet(todo) : IsMarker(p)
  BY <1>1, TailSet DEF CleanInv, Typed
<1>3. CASE record = NoRecord \/ Head(todo) # record.id \/ target' = target
  BY <1>1, <1>3, ReachStays
<1>4. CASE record # NoRecord /\ Head(todo) = record.id
  <2>1. \A p \in ToSet(todo) : IsMarker(p)
    BY <1>2, <1>4, NotMarkers DEF FootInv, Kinds
  <2>2. \A p \in Named(record) : ~IsMarker(p)
    BY NotMarkers DEF Named, ToSet, FootInv, Kinds, CleanInv, Typed
  <2>3. ~cleanupErr => Named(record) \cap target = {}
    BY <1>2, <1>4, <2>1, <2>2 DEF CleanInv, Pending
  <2>4. ~cleanupErr => InReach = {}
    BY <2>3 DEF InReach
  <2>. QED
    BY <2>4 DEF Reach
<1>. QED
  BY <1>3, <1>4

LEMMA ReachOther ==
  ASSUME FootInv, OwnInv, CleanInv,
         \/ StartRun \/ OpenTemp \/ HashPreinstalled \/ UploadAgent \/ CheckAgent \/ DropOldMarker
         \/ ProbeTarget \/ PrepareTool \/ UploadTool \/ VerifyTool \/ EndPrepare
         \/ StartCleanup \/ EndCleanup \/ ManualCleanup \/ Gone \/ AlterMarker
         \/ UNCHANGED <<job, remote, record, stage, controller, cleaning, history, runs>>
  PROVE  Reach
<1>1. UNCHANGED <<job, record>>
  BY DEF StartRun, OpenTemp, HashPreinstalled, UploadAgent, CheckAgent, DropOldMarker,
         ProbeTarget, PrepareTool, UploadTool, VerifyTool, EndPrepare, StartCleanup, EndCleanup, ManualCleanup, Gone, AlterMarker
<1>2. record # NoRecord => IsMarker(record.id)
  BY NotMarkers DEF FootInv, Kinds
<1>3. CASE CheckAgent
  <2>1. ~IsMarker(agentPath) /\ (target' = target \/ target' = target \ {agentPath}) /\ altered' = altered
    BY <1>3, NotMarkers DEF CheckAgent, CleanInv, Typed
  <2>. QED
    BY <1>1, <1>2, <2>1, ReachStays
<1>4. CASE VerifyTool \/ UploadTool
  <2>1. Last(uploadedTools) \in PathsOf("tool")
    BY <1>4 DEF VerifyTool, UploadTool, Last, FootInv, Kinds
  <2>2. target \ {Last(uploadedTools)} \subseteq target' /\ altered' = altered
    BY <1>4 DEF VerifyTool, UploadTool, UploadTo
  <2>. QED
    BY <1>1, <1>2, <2>1, <2>2, NotMarkers, ReachStays
<1>5. CASE DropOldMarker
  <2>1. /\ record.id # markerPaths[Len(markerPaths) - 1] /\ altered' = altered
        /\ target' = target \/ target' = target \ {markerPaths[Len(markerPaths) - 1]}
    BY <1>5 DEF DropOldMarker, CleanInv, Current
  <2>. QED
    BY <1>1, <2>1, ReachStays
<1>6. CASE AlterMarker
  <2>1. \/ record.id \in altered'
        \/ record.id \in target => record.id \in target'
    BY <1>6 DEF AlterMarker
  <2>2. CASE record.id \in altered'
    BY <2>2, <1>1 DEF Reach
  <2>3. CASE record.id \notin altered' /\ (record.id \in target => record.id \in target')
    <3>1. InReach \cap target' \subseteq InReach'
      BY <1>1, <2>3 DEF InReach, Intact, Named, Foreign
    <3>. QED
      BY <3>1 DEF Reach
  <2>. QED
    BY <2>1, <2>2, <2>3
<1>7. CASE \/ StartRun \/ OpenTemp \/ HashPreinstalled \/ UploadAgent \/ ProbeTarget
           \/ PrepareTool \/ EndPrepare \/ StartCleanup \/ EndCleanup \/ ManualCleanup \/ Gone
           \/ UNCHANGED <<job, remote, record, stage, controller, cleaning, history, runs>>
  <2>1. target \subseteq target' /\ altered' = altered
    BY <1>7 DEF StartRun, OpenTemp, HashPreinstalled, UploadAgent, UploadTo, ProbeTarget,
                PrepareTool, EndPrepare, StartCleanup, EndCleanup, ManualCleanup, Gone, remote
  <2>. QED
    BY <1>1, <2>1, ReachStays
<1>. QED
  BY <1>3, <1>4, <1>5, <1>6, <1>7

\* A file of ours that `imajer cleanup` would remove stays within its reach until
\* it is removed, but for the four exceptions the property names (controller.go,
\* installRemoteMarker, Cleanup; main.go, cleanup).
THEOREM CleanupReaches == Spec => CleanupKeepsItsReach
<1>1. FootInv /\ OwnInv /\ CleanInv /\ [Next]_vars => [Reach]_footprint
  BY Steps, ReachMarker, ReachRemoves, ReachOther DEF PrepareStep
<1>2. [][Reach]_footprint => CleanupKeepsItsReach
  BY PTL DEF CleanupKeepsItsReach, Reach
<1>. QED
  BY FootInit, FootStep, OwnInit, OwnStep, CleanInit, CleanStep, <1>1, <1>2, PTL DEF Spec

=============================================================================
