-------------------------- MODULE CaseReportProofs -------------------------
(***************************************************************************)
(* Theorems about the case report, for every set of jobs, keys, artifacts  *)
(* and every number of runs and failures: in a package that verifies the   *)
(* PDF has the content of the JSON, and both list the evidence as it is.   *)
(*                                                                         *)
(* The argument is about epochs.  A file that was written in the current   *)
(* epoch is newer than what any index says of it, so no package verifies   *)
(* from the first event of a command until its index is written; and when  *)
(* it is written, both reports have just been made from the same data, and *)
(* no artifact has changed since the data were collected.                  *)
(*                                                                         *)
(* The last part is about what an accepted report says of the target: it   *)
(* follows the outcome of Cleanup from the controller (CleanInv) through   *)
(* the data of the report to the index.                                    *)
(***************************************************************************)
EXTENDS CaseLifecycleProofs

\* Before the report is made.
Collecting == {"prepare", "create", "first", "stream", "cleanup", "load"}
Reporting == {"json", "pdf", "index"}

\* The report lists every artifact with the state it has on disk.
Lists(report) ==
  report.loaded /\ Present # {} /\ Unreadable = {} => report.listed = States(Present)

Epochs ==
  /\ epoch \in Nat
  /\ DOMAIN tree = File
  /\ \A f \in File : tree[f] \in 0..epoch
  /\ index # NoIndex => \A f \in File : index.files[f] \in 0..(epoch - 1)

Fits == index.files = tree => pdf = json /\ Lists(json)

Made ==
  /\ step \in Collecting => cmd \in {"acquire", "discover"} /\ tree["events"] = epoch
  /\ step \in Reporting => Lists(data)
  /\ step \in {"pdf", "index"} => json = data
  /\ step = "index" => pdf = data

ReportInv == Epochs /\ Fits /\ Made

LEMMA ReportInit == Init => ReportInv
<1>1. \A f \in File : [g \in File |-> 0][f] = 0
  OBVIOUS
<1>2. NoIndex.files # [f \in File |-> 0]
  BY DEF NoIndex, File
<1>. QED
  BY <1>1, <1>2 DEF Init, PackageInit, ReportInv, Epochs, Fits, Made, Collecting, Reporting

LEMMA TouchEpochs ==
  ASSUME Epochs, NEW files, Touch(files), UNCHANGED <<index, epoch>>
  PROVE  /\ Epochs'
         /\ \A f \in File : tree[f] = epoch => tree'[f] = epoch
         /\ \A f \in File \cap files : tree'[f] = epoch
  BY DEF Epochs, Touch

LEMMA Collects ==
  ASSUME Epochs', tree'["events"] = epoch', step' \in Collecting,
         cmd' \in {"acquire", "discover"}
  PROVE  ReportInv'
<1>1. index'.files # tree'
  <2>1. "events" \in File
    BY DEF File
  <2>2. ASSUME index' = NoIndex PROVE index'.files # tree'
    BY <2>1, <2>2 DEF Epochs, NoIndex
  <2>3. ASSUME index' # NoIndex PROVE index'.files # tree'
    BY <2>1, <2>3 DEF Epochs
  <2>. QED
    BY <2>2, <2>3
<1>. QED
  BY <1>1 DEF ReportInv, Fits, Made, Collecting, Reporting

\* A step before the report that writes some files of the case, or none.
LEMMA CollectsMore ==
  ASSUME ReportInv, step \in Collecting, step' \in Collecting,
         UNCHANGED <<cmd, index, epoch>>,
         UNCHANGED tree \/ \E files \in SUBSET File : Touch(files)
  PROVE  ReportInv'
<1>1. tree["events"] = epoch /\ Epochs /\ cmd \in {"acquire", "discover"} /\ "events" \in File
  BY DEF ReportInv, Made, File
<1>2. Epochs' /\ tree'["events"] = epoch
  <2>1. CASE UNCHANGED tree
    BY <1>1, <2>1 DEF Epochs
  <2>2. ASSUME NEW files \in SUBSET File, Touch(files) PROVE Epochs' /\ tree'["events"] = epoch
    BY <1>1, <2>2, TouchEpochs
  <2>. QED
    BY <2>1, <2>2
<1>. QED
  BY <1>1, <1>2, Collects

LEMMA ReportBegin == ASSUME PackInv, ReportInv, Begin PROVE ReportInv'
<1>1. cmd' \in {"acquire", "discover"} /\ step' = "prepare" /\ Touch({"events"})
        /\ UNCHANGED <<index, epoch>>
  BY DEF Begin, OpenCase
<1>2. Epochs' /\ tree'["events"] = epoch
  BY <1>1, TouchEpochs DEF ReportInv, File
<1>. QED
  BY <1>1, <1>2, Collects DEF Collecting

LEMMA ReportCollects == ASSUME PackInv, ReportInv, Prepare \/ Acquire \/ Cleanup PROVE ReportInv'
<1>1. CASE Prepare
  <2>1. step = "prepare" /\ UNCHANGED <<step, cmd, index, epoch>>
    BY <1>1 DEF Prepare, Writing, command
  <2>2. \E files \in SUBSET File : Touch(files)
    BY <1>1 DEF Prepare, Writing, File
  <2>. QED
    BY <2>1, <2>2, CollectsMore DEF Collecting
<1>2. CASE Acquire
  <2>1. /\ step \in {"prepare", "create", "first", "stream"}
        /\ step' \in {"create", "first", "stream", "cleanup"}
        /\ UNCHANGED <<cmd, index, epoch>>
    BY <1>2 DEF Acquire, CheckSpace, CreateArtifact, Stream, SaveFirstState, EndAcquire, directory
  <2>2. UNCHANGED tree \/ Touch({"artifacts"})
    BY <1>2 DEF Acquire, CheckSpace, CreateArtifact, Stream, SaveFirstState, directory
  <2>3. {"artifacts"} \in SUBSET File
    BY DEF File
  <2>. QED
    BY <2>1, <2>2, <2>3, CollectsMore DEF Collecting
<1>3. CASE Cleanup
  <2>1. step \in Collecting /\ step' \in Collecting
    BY <1>3 DEF Cleanup, StartCleanup, PackInv, Place, Sealing, Collecting, Writing, command
  <2>2. UNCHANGED <<cmd, index, epoch>> /\ Touch({"events"})
    BY <1>3 DEF Cleanup, Writing, command
  <2>3. {"events"} \in SUBSET File
    BY DEF File
  <2>. QED
    BY <2>1, <2>2, <2>3, CollectsMore
<1>. QED
  BY <1>1, <1>2, <1>3

\* What the report is about stays, and the command has left its making.
LEMMA ReportStays ==
  ASSUME ReportInv, UNCHANGED <<tree, artifact, json, pdf, index, epoch>>,
         step' \notin Collecting \cup Reporting
  PROVE  ReportInv'
  BY DEF ReportInv, Epochs, Fits, Made, Lists, Present, Unreadable, States, Reporting

LEMMA ReportAfterCleanup == ASSUME PackInv, ReportInv, AfterCleanup PROVE ReportInv'
<1>1. UNCHANGED <<tree, artifact, json, pdf, index, epoch>> /\ step = "cleanup"
  BY DEF AfterCleanup, directory
<1>2. CASE step' = "load" /\ UNCHANGED cmd
  BY <1>1, <1>2, CollectsMore DEF Collecting
<1>3. CASE step' = "none"
  BY <1>1, <1>3, ReportStays DEF Collecting, Reporting
<1>. QED
  BY <1>2, <1>3 DEF AfterCleanup, Finish

\* The step has written a file, which no index knows yet.
LEMMA ReportMoves ==
  ASSUME Epochs', NEW f \in File, tree'[f] = epoch', Made'
  PROVE  ReportInv'
<1>1. index'.files # tree'
  <2>1. ASSUME index' = NoIndex PROVE index'.files # tree'
    BY <2>1 DEF Epochs, NoIndex
  <2>2. ASSUME index' # NoIndex PROVE index'.files # tree'
    BY <2>2 DEF Epochs
  <2>. QED
    BY <2>1, <2>2
<1>. QED
  BY <1>1 DEF ReportInv, Fits

LEMMA SameArtifacts ==
  ASSUME UNCHANGED artifact
  PROVE  /\ Present' = Present /\ Unreadable' = Unreadable
         /\ States(Present)' = States(Present)
  BY DEF Present, Unreadable, States

LEMMA ReportLoad ==
  ASSUME ReportInv, NEW f \in BOOLEAN, LoadStates(f, cleanupErr)
  PROVE  ReportInv'
<1>1. /\ step = "load" /\ step' = "json" /\ UNCHANGED <<artifact, index, epoch>>
      /\ UNCHANGED tree \/ Touch({"artifacts"})
  BY DEF LoadStates
<1>2. Epochs' /\ tree'["events"] = epoch
  BY <1>1, TouchEpochs DEF ReportInv, Made, Collecting, Epochs, File
<1>3. Lists(data)'
  <2>1. PICK list \in {Loaded(f), Loaded(FALSE)} :
          data' = [by |-> "acquire", warn |-> cleanupErr, loaded |-> ~f,
                   listed |-> States(list), sessions |-> list \cap garbled = {}]
    BY DEF LoadStates
  <2>2. data'.loaded = ~f /\ data'.listed = States(list)
    BY <2>1
  <2>3. CASE f
    BY <2>2, <2>3 DEF Lists
  <2>4. CASE ~f
    <3>1. Present # {} /\ Unreadable = {} => list = Present
      BY <2>4 DEF Loaded
    <3>. QED
      BY <1>1, <2>2, <2>4, <3>1, SameArtifacts DEF Lists
  <2>. QED
    BY <2>3, <2>4
<1>4. Made'
  BY <1>1, <1>3 DEF Made, Collecting, Reporting
<1>. QED
  BY <1>1, <1>2, <1>4, ReportMoves DEF File

LEMMA ReportJSON ==
  ASSUME ReportInv, NEW f \in BOOLEAN, WriteJSON(f)
  PROVE  ReportInv'
<1>1. /\ step = "json" /\ UNCHANGED <<artifact, pdf, index, epoch>>
      /\ json' = json \/ json' = data
      /\ IF json' = data THEN Touch({"json"}) ELSE UNCHANGED tree
      /\ \/ step' = "pdf" /\ json' = data /\ UNCHANGED data
         \/ step' = "none"
  BY DEF WriteJSON, Finish
<1>2. CASE json' = data
  <2>1. Epochs' /\ tree'["json"] = epoch
    BY <1>1, <1>2, TouchEpochs DEF ReportInv, File
  <2>2. Made'
    BY <1>1, <1>2, SameArtifacts DEF Made, Collecting, Reporting, ReportInv, Lists
  <2>. QED
    BY <1>1, <2>1, <2>2, ReportMoves DEF File
<1>3. CASE json' # data
  BY <1>1, <1>3, ReportStays DEF Collecting, Reporting
<1>. QED
  BY <1>2, <1>3

LEMMA ReportPDF ==
  ASSUME ReportInv, NEW f \in BOOLEAN, WritePDF(f)
  PROVE  ReportInv'
<1>1. /\ step = "pdf" /\ UNCHANGED <<artifact, json, index, epoch>>
      /\ pdf' = pdf \/ pdf' = data
      /\ IF pdf' = data THEN Touch({"pdf"}) ELSE UNCHANGED tree
      /\ \/ step' = "index" /\ pdf' = data /\ UNCHANGED data
         \/ step' = "none"
  BY DEF WritePDF, Finish
<1>2. CASE pdf' = data
  <2>1. Epochs' /\ tree'["pdf"] = epoch
    BY <1>1, <1>2, TouchEpochs DEF ReportInv, File
  <2>2. Made'
    BY <1>1, <1>2, SameArtifacts DEF Made, Collecting, Reporting, ReportInv, Lists
  <2>. QED
    BY <1>1, <2>1, <2>2, ReportMoves DEF File
<1>3. CASE pdf' # data
  BY <1>1, <1>3, ReportStays DEF Collecting, Reporting
<1>. QED
  BY <1>2, <1>3

\* The index is written over the tree as it is, or not.
LEMMA ReportIndex ==
  ASSUME ReportInv, NEW f \in BOOLEAN, WriteIndex(f)
  PROVE  ReportInv'
<1>1. /\ step = "index" /\ step' \in {"sig", "none"} /\ epoch' = epoch + 1
      /\ UNCHANGED <<tree, artifact, json, pdf>>
      /\ index' = index \/ index'.files = tree
  BY DEF WriteIndex, Finish
<1>2. pdf = json /\ Lists(json)
  BY <1>1 DEF ReportInv, Made, Reporting
<1>3. Epochs'
  <2>1. CASE index' = index
    BY <1>1, <2>1 DEF ReportInv, Epochs
  <2>2. CASE index'.files = tree
    BY <1>1, <2>2 DEF ReportInv, Epochs
  <2>. QED
    BY <1>1, <2>1, <2>2
<1>4. Fits'
  BY <1>1, <1>2, SameArtifacts DEF Fits, Lists
<1>5. Made'
  BY <1>1 DEF Made, Collecting, Reporting
<1>. QED
  BY <1>3, <1>4, <1>5 DEF ReportInv

LEMMA ReportSeal == ASSUME ReportInv, Seal PROVE ReportInv'
<1>. PICK f \in BOOLEAN :
       \/ LoadStates(f, cleanupErr)
       \/ WriteJSON(f) \/ WritePDF(f)
       \/ WriteIndex(f) \/ WriteSignature(f) \/ WritePublicKey(f)
  BY DEF Seal
<1>1. CASE WriteSignature(f) \/ WritePublicKey(f)
  <2>1. UNCHANGED <<tree, artifact, json, pdf, index, epoch>> /\ step' \in {"pub", "none"}
    BY <1>1 DEF WriteSignature, WritePublicKey, Finish
  <2>. QED
    BY <2>1, ReportStays DEF Collecting, Reporting
<1>. QED
  BY <1>1, ReportLoad, ReportJSON, ReportPDF, ReportIndex

LEMMA ReportCommand == ASSUME ReportInv, BeginReport PROVE ReportInv'
<1>1. /\ step' = "json" /\ UNCHANGED <<tree, artifact, json, pdf, index, epoch>>
      /\ data'.listed = States(Present)
  BY DEF BeginReport, StartReport, directory
<1>2. Lists(data)'
  BY <1>1, SameArtifacts DEF Lists
<1>3. Fits'
  BY <1>1, SameArtifacts DEF ReportInv, Fits, Lists
<1>. QED
  BY <1>1, <1>2, <1>3 DEF ReportInv, Epochs, Made, Collecting, Reporting

LEMMA ReportCrash == ASSUME ReportInv, Crash PROVE ReportInv'
<1>1. step' = "none" /\ UNCHANGED <<json, pdf, index, epoch>>
  BY DEF Crash, Die
<1>2. Made'
  BY <1>1 DEF Made, Collecting, Reporting
<1>3. CASE UNCHANGED <<tree, artifact>>
  BY <1>1, <1>3, ReportStays DEF Collecting, Reporting
<1>4. ASSUME NEW f \in File, Touch({f}) PROVE ReportInv'
  BY <1>1, <1>2, <1>4, TouchEpochs, ReportMoves DEF ReportInv
<1>. QED
  BY <1>3, <1>4 DEF Crash, Die, File

LEMMA ReportStep == PackInv /\ ReportInv /\ [Next]_vars => ReportInv'
<1>. SUFFICES ASSUME PackInv, ReportInv, [Next]_vars PROVE ReportInv'
  OBVIOUS
<1>1. CASE UNCHANGED package
  BY <1>1, SameArtifacts
  DEF package, directory, command, ReportInv, Epochs, Fits, Made, Lists
<1>2. CleanupCommand \/ Environment \/ UNCHANGED vars => UNCHANGED package
  BY DEF CleanupCommand, Environment, vars
<1>. QED
  BY <1>1, <1>2, ReportBegin, ReportCollects, ReportAfterCleanup, ReportSeal, ReportCommand,
     ReportCrash DEF Next

\* In a package that verifies the PDF has the content of the JSON, and both list
\* every artifact as it is, unless its states could not be loaded (report.go,
\* WriteCaseReport, FinalizeIndex, VerifyIndex; main.go, loadAllStates).
THEOREM VerifiedReportIsCurrent == Spec => []AcceptedReportIsCurrent
<1>1. ReportInv => AcceptedReportIsCurrent
  BY DEF ReportInv, Fits, Lists, AcceptedReportIsCurrent, VerifyIndex
<1>. QED
  BY PackInit, PackStep, ReportInit, ReportStep, <1>1, PTL DEF Spec

-----------------------------------------------------------------------------
(* What an accepted report says of the target.                             *)

AfterCleaning == {"load", "json", "pdf", "index", "sig", "pub"}

\* Cleanup without a failure has left nothing; the report that is being made,
\* or has been made, of this run says so only if it is so.
Truth ==
  /\ stage = "cleaned" /\ ~cleanupErr /\ ~job.keep => Left = {}
  /\ cmd = "acquire" /\ step \in AfterCleaning => stage = "cleaned"
  /\ cmd = "acquire" /\ step \in Reporting =>
       tree["events"] = epoch /\ (~data.warn /\ ~job.keep => Left = {})
  /\ (cmd = "acquire" /\ step \in {"sig", "pub"}) \/ (cmd = "none" /\ exit.cmd = "acquire") =>
       (index.files = tree /\ ~json.warn /\ ~job.keep => Left = {})

LEMMA TruthInit == Init => Truth
  BY DEF Init, FootprintInit, PackageInit, Truth, NoExit, Left

\* Before a cleanup has ended there is nothing to tell, nor after a crash.
LEMMA TruthQuiet ==
  ASSUME step' \notin AfterCleaning, stage' # "cleaned", cmd' = "none" => exit'.cmd # "acquire"
  PROVE  Truth'
  BY DEF Truth, AfterCleaning, Reporting

\* Files may go from the target.
LEMMA TruthStays ==
  ASSUME Truth, UNCHANGED <<job, put, lost, cleanupErr>>, UNCHANGED package, target' \subseteq target,
         stage' = stage
  PROVE  Truth'
<1>1. Left' \subseteq Left
  BY DEF Left
<1>. QED
  BY <1>1 DEF Truth, package, directory, command

LEMMA TruthFirst == ASSUME PackInv, Begin \/ Prepare \/ Acquire PROVE Truth'
<1>1. step' \notin AfterCleaning
  BY DEF Begin, OpenCase, Prepare, Writing, command, Acquire, CheckSpace, CreateArtifact,
         SaveFirstState, Stream, EndAcquire, AfterCleaning
<1>2. stage' # "cleaned"
  BY DEF Begin, StartRun, Prepare, PrepareStep, OpenTemp, HashPreinstalled, UploadAgent, CheckAgent,
         NextCandidate, UploadMarker, MarkerFails, RecordMarker, AfterMarker, MarkerFor, DropOldMarker,
         ProbeTarget, PrepareTool, UploadTool, VerifyTool, EndPrepare, Acquire
<1>3. cmd' # "none"
  BY DEF Begin, OpenCase, Prepare, Writing, command, Acquire, CheckSpace, CreateArtifact,
         SaveFirstState, Stream, PackInv, Place
<1>. QED
  BY <1>1, <1>2, <1>3, TruthQuiet

LEMMA TruthCleanup == ASSUME PackInv, CleanInv, Truth, Cleanup PROVE Truth'
<1>1. step' \notin AfterCleaning /\ cmd' # "none"
  BY DEF Cleanup, StartCleanup, Writing, command, AfterCleaning, PackInv, Place, Sealing
<1>2. UNCHANGED <<job, target, put, lost>> \/ (stage = "removing" /\ RemoveNext)
  BY DEF Cleanup, CleanupStep, StartCleanup, EndCleanup, remote, history
<1>3. ASSUME stage' = "cleaned", ~cleanupErr', ~job.keep PROVE Left' = {}
  <2>1. stage = "removing" /\ EndCleanup
    BY <1>3 DEF Cleanup, CleanupStep, StartCleanup, Retained, RemoveNext
  <2>2. Left \subseteq ToSet(<<>>) /\ Left' = Left
    BY <1>3, <2>1 DEF EndCleanup, CleanInv, Pending, Left, remote, cleaning, history
  <2>. QED
    BY <2>2 DEF ToSet
<1>4. job' = job
  BY DEF Cleanup, CleanupStep, StartCleanup, EndCleanup, RemoveNext
<1>. QED
  BY <1>1, <1>3, <1>4 DEF Truth, AfterCleaning, Reporting

LEMMA TruthAfterCleanup == ASSUME PackInv, Truth, AfterCleanup PROVE Truth'
<1>1. CASE cmd = "acquire"
  <2>1. step' = "load" /\ UNCHANGED <<cmd, job, stage, cleanupErr, target, put, lost>> /\ stage = "cleaned"
    BY <1>1 DEF AfterCleanup, footprint, remote, cleaning, history
  <2>. QED
    BY <1>1, <2>1 DEF Truth, Left, Reporting
<1>2. CASE cmd = "discover"
  <2>1. step' = "none" /\ stage' = "idle" /\ exit'.cmd = "discover"
    BY <1>2 DEF AfterCleanup, Finish, Gone
  <2>. QED
    BY <2>1, TruthQuiet DEF AfterCleaning
<1>. QED
  BY <1>1, <1>2 DEF AfterCleanup

\* A file written after the first event of the command is on no index.
LEMMA Unindexed ==
  ASSUME Epochs, tree["events"] = epoch PROVE index.files # tree
<1>1. "events" \in File
  BY DEF File
<1>2. ASSUME index = NoIndex PROVE index.files # tree
  BY <1>1, <1>2 DEF Epochs, NoIndex
<1>3. ASSUME index # NoIndex PROVE index.files # tree
  BY <1>1, <1>3 DEF Epochs
<1>. QED
  BY <1>2, <1>3

\* What sealing leaves alone.
LEMMA SealKeeps ==
  ASSUME PackInv, Seal
  PROVE  /\ job' = job /\ Left' = Left
         /\ cmd # "none" /\ step \in AfterCleaning
         /\ cmd' # "none" => UNCHANGED <<cmd, stage, cleanupErr>>
         /\ cmd' = "none" => step' = "none" /\ stage' = "idle" /\ exit'.cmd = cmd
<1>1. IF cmd' = "none" THEN Gone
      ELSE UNCHANGED <<job, remote, record, stage, controller, cleaning, history, runs>>
  BY DEF Seal
<1>2. UNCHANGED <<job, target, put, lost>>
  BY <1>1 DEF Gone, remote, history
<1>3. PICK f \in BOOLEAN :
        \/ LoadStates(f, cleanupErr)
        \/ WriteJSON(f) \/ WritePDF(f)
        \/ WriteIndex(f) \/ WriteSignature(f) \/ WritePublicKey(f)
  BY DEF Seal
<1>4. step \in AfterCleaning
  BY <1>3 DEF LoadStates, WriteJSON, WritePDF, WriteIndex, WriteSignature, WritePublicKey,
              AfterCleaning
<1>5. cmd # "none"
  BY <1>4 DEF PackInv, Place, AfterCleaning
<1>6. cmd' = cmd \/ (cmd' = "none" /\ step' = "none" /\ exit'.cmd = cmd)
  <2>1. CASE LoadStates(f, cleanupErr)
    BY <2>1 DEF LoadStates
  <2>2. CASE WriteJSON(f) \/ WritePDF(f)
    BY <2>2 DEF WriteJSON, WritePDF, Finish
  <2>3. CASE WriteIndex(f) \/ WriteSignature(f) \/ WritePublicKey(f)
    BY <2>3 DEF WriteIndex, WriteSignature, WritePublicKey, Finish
  <2>. QED
    BY <1>3, <2>1, <2>2, <2>3
<1>. QED
  BY <1>1, <1>2, <1>4, <1>5, <1>6 DEF Left, Gone, cleaning

\* The events of this run are on no index while the report is being made.
LEMMA TruthReports ==
  ASSUME PackInv, ReportInv, Truth, cmd = "acquire", Seal, ReportInv',
         NEW f \in BOOLEAN, LoadStates(f, cleanupErr) \/ WriteJSON(f) \/ WritePDF(f)
  PROVE  /\ cmd' = "acquire" => step' \in Reporting
         /\ cmd' = "acquire" => tree'["events"] = epoch' /\ (~data'.warn /\ ~job.keep => Left = {})
         /\ cmd' = "none" => index'.files # tree'
<1>1. "events" \in File /\ Epochs /\ Epochs' /\ UNCHANGED <<index, epoch>>
  BY DEF ReportInv, File, LoadStates, WriteJSON, WritePDF
<1>2. tree["events"] = epoch
  BY DEF LoadStates, WriteJSON, WritePDF, ReportInv, Made, Collecting, Truth, Reporting
<1>3. UNCHANGED tree \/ \E files \in SUBSET File : Touch(files)
  BY DEF LoadStates, WriteJSON, WritePDF, File
<1>4. tree'["events"] = epoch'
  BY <1>1, <1>2, <1>3, TouchEpochs
<1>5. index'.files # tree'
  <2>1. ASSUME index' = NoIndex PROVE index'.files # tree'
    BY <1>1, <2>1 DEF Epochs, NoIndex
  <2>2. ASSUME index' # NoIndex PROVE index'.files # tree'
    BY <1>1, <1>4, <2>2 DEF Epochs
  <2>. QED
    BY <2>1, <2>2
<1>6. cmd' = "acquire" => step' \in Reporting /\ (~data'.warn /\ ~job.keep => Left = {})
  <2>1. CASE LoadStates(f, cleanupErr)
    <3>1. step = "load" /\ step' = "json" /\ data'.warn = cleanupErr
      BY <2>1 DEF LoadStates
    <3>. QED
      BY <3>1 DEF Truth, AfterCleaning, Reporting
  <2>2. CASE WriteJSON(f) \/ WritePDF(f)
    <3>1. step \in {"json", "pdf"} /\ (cmd' = "acquire" => step' \in {"pdf", "index"} /\ data' = data)
      BY <2>2 DEF WriteJSON, WritePDF, Finish
    <3>. QED
      BY <3>1 DEF Truth, Reporting
  <2>. QED
    BY <2>1, <2>2
<1>. QED
  BY <1>4, <1>5, <1>6

\* The index knows the report just made of this run; the rest leaves both.
LEMMA TruthSigns ==
  ASSUME ReportInv, Truth, cmd = "acquire",
         NEW f \in BOOLEAN, WriteIndex(f) \/ WriteSignature(f) \/ WritePublicKey(f)
  PROVE  /\ step' \notin Reporting
         /\ index'.files = tree' /\ ~json'.warn /\ ~job.keep => Left = {}
<1>1. CASE WriteIndex(f)
  <2>1. step = "index" /\ step' \in {"sig", "none"} /\ json' = json
    BY <1>1 DEF WriteIndex, Finish
  <2>2. json = data
    BY <2>1 DEF ReportInv, Made
  <2>. QED
    BY <2>1, <2>2 DEF Truth, Reporting
<1>2. CASE WriteSignature(f) \/ WritePublicKey(f)
  <2>1. step \in {"sig", "pub"} /\ step' \in {"pub", "none"} /\ UNCHANGED <<index, tree, json>>
    BY <1>2 DEF WriteSignature, WritePublicKey, Finish
  <2>. QED
    BY <2>1 DEF Truth, Reporting
<1>. QED
  BY <1>1, <1>2

LEMMA TruthSeal == ASSUME PackInv, ReportInv, Truth, Seal PROVE Truth'
<1>1. stage' = "cleaned" /\ ~cleanupErr' /\ ~job'.keep => Left' = {}
  BY SealKeeps DEF Truth
<1>2. CASE cmd # "acquire"
  BY <1>1, <1>2, SealKeeps DEF Truth
<1>3. CASE cmd = "acquire"
  <2>. PICK f \in BOOLEAN :
         \/ LoadStates(f, cleanupErr) \/ WriteJSON(f) \/ WritePDF(f)
         \/ WriteIndex(f) \/ WriteSignature(f) \/ WritePublicKey(f)
    BY DEF Seal
  <2>1. cmd' = "acquire" => stage' = "cleaned"
    BY <1>3, SealKeeps DEF Truth
  <2>2. CASE LoadStates(f, cleanupErr) \/ WriteJSON(f) \/ WritePDF(f)
    <3>1. ReportInv'
      BY ReportSeal
    <3>2. /\ cmd' = "acquire" => step' \in Reporting
          /\ cmd' = "acquire" => tree'["events"] = epoch' /\ (~data'.warn /\ ~job.keep => Left = {})
          /\ cmd' = "none" => index'.files # tree'
      BY <1>3, <2>2, <3>1, TruthReports
    <3>. QED
      BY <1>1, <2>1, <3>2, SealKeeps DEF Truth, Reporting
  <2>3. CASE WriteIndex(f) \/ WriteSignature(f) \/ WritePublicKey(f)
    <3>1. /\ step' \notin Reporting
          /\ index'.files = tree' /\ ~json'.warn /\ ~job.keep => Left = {}
      BY <1>3, <2>3, TruthSigns
    <3>. QED
      BY <1>1, <2>1, <3>1, SealKeeps DEF Truth
  <2>. QED
    BY <2>2, <2>3
<1>. QED
  BY <1>2, <1>3

LEMMA TruthReport == ASSUME Truth, BeginReport PROVE Truth'
<1>1. stage = "idle" /\ stage' = stage /\ cmd' = "report"
  BY DEF BeginReport, StartReport, footprint
<1>. QED
  BY <1>1 DEF Truth

\* The cleanup command only takes away.
LEMMA TruthManual == ASSUME PackInv, Truth, CleanupCommand PROVE Truth'
<1>1. /\ cmd = "none" /\ step = "none" /\ UNCHANGED <<job, put, lost>> /\ target' \subseteq target
      /\ UNCHANGED package
  BY DEF CleanupCommand, ManualCleanup, RemoveNext, EndManual, Gone, history, remote, PackInv, Place
<1>2. stage' \in {"idle", "manual"}
  BY DEF CleanupCommand, ManualCleanup, RemoveNext, EndManual, Gone
<1>3. Left' \subseteq Left
  BY <1>1 DEF Left
<1>. QED
  BY <1>1, <1>2, <1>3 DEF Truth, package, directory, command, AfterCleaning, Reporting

LEMMA TruthCrash == ASSUME Crash PROVE Truth'
<1>1. step' = "none" /\ stage' = "idle" /\ exit'.cmd = "none"
  BY DEF Crash, Die, Gone, NoExit
<1>. QED
  BY <1>1, TruthQuiet DEF AfterCleaning

LEMMA TruthStep == PackInv /\ CleanInv /\ ReportInv /\ Truth /\ [Next]_vars => Truth'
<1>. SUFFICES ASSUME PackInv, CleanInv, ReportInv, Truth, [Next]_vars PROVE Truth'
  OBVIOUS
<1>1. CASE Environment \/ UNCHANGED vars
  <2>1. /\ UNCHANGED <<job, put, lost, cleanupErr, stage>> /\ UNCHANGED package
        /\ target' \subseteq target
    BY <1>1 DEF Environment, AlterMarker, vars, footprint, cleaning, history, remote
  <2>. QED
    BY <2>1, TruthStays
<1>. QED
  BY <1>1, TruthFirst, TruthCleanup, TruthAfterCleanup, TruthSeal, TruthReport, TruthManual,
     TruthCrash DEF Next

\* A tool sent in part is the end of Prepare, and of the command's success.
HalfFails ==
  HalfSent # {} =>
    /\ stage \in {"removing", "cleaned"} => failed = TRUE
    /\ exit.ok => exit.cmd # "acquire"

LEMMA HalfInit == Init => HalfFails
  BY DEF Init, FootprintInit, PackageInit, HalfFails, HalfSent, NoExit

\* Steps of a command that is not yet at its Cleanup.
LEMMA HalfEarly ==
  ASSUME PackInv, Prepare \/ Acquire \/ BeginReport \/ Crash PROVE HalfFails'
<1>1. stage' \notin {"removing", "cleaned"}
  BY DEF Prepare, PrepareStep, OpenTemp, HashPreinstalled, UploadAgent, CheckAgent, NextCandidate,
         UploadMarker, MarkerFails, RecordMarker, AfterMarker, MarkerFor, DropOldMarker, ProbeTarget,
         PrepareTool, UploadTool, VerifyTool, EndPrepare, Acquire, BeginReport, footprint, Crash, Gone
<1>2. exit' = NoExit
  <2>1. CASE Prepare \/ Acquire
    <3>1. exit' = exit /\ cmd # "none"
      BY <2>1 DEF Prepare, Writing, command, Acquire, CheckSpace, CreateArtifact, SaveFirstState,
                  Stream, PackInv, Place
    <3>. QED
      BY <3>1 DEF PackInv, Sealed
  <2>. QED
    BY <2>1 DEF BeginReport, StartReport, Crash, Die
<1>. QED
  BY <1>1, <1>2 DEF HalfFails, NoExit

LEMMA HalfStart == ASSUME Begin PROVE HalfFails'
  BY DEF Begin, StartRun, HalfFails, HalfSent

\* Prepare that ended there is not ready: Cleanup notes its error.
LEMMA HalfCleanup == ASSUME PackInv, OwnInv, HalfFails, Cleanup PROVE HalfFails'
<1>1. HalfSent' = HalfSent
  BY DEF Cleanup, CleanupStep, StartCleanup, EndCleanup, RemoveNext, remote, history, HalfSent
<1>2. exit' = exit /\ exit = NoExit
  BY DEF Cleanup, CleanupStep, StartCleanup, Writing, command, PackInv, Place, Sealed
<1>3. CASE StartCleanup /\ failed' = (failed \/ stage = "failed")
  <2>1. HalfSent # {} => stage = "failed"
    BY <1>3 DEF StartCleanup, OwnInv, Halved, Halted
  <2>2. stage = "failed" => failed' = TRUE
    BY <1>3
  <2>. QED
    BY <1>1, <1>2, <2>1, <2>2 DEF HalfFails, NoExit
<1>4. CASE stage = "removing" /\ Writing({"events"})
  BY <1>1, <1>2, <1>4 DEF Writing, command, HalfFails, NoExit
<1>. QED
  BY <1>3, <1>4 DEF Cleanup

\* The command returns the error that was noted.
LEMMA FinishFails == ASSUME NEW err, failed = TRUE, Finish(err) PROVE ~exit'.ok
<1>1. exit'.ok = ~(failed \/ err) /\ (failed \/ err) = TRUE
  BY DEF Finish
<1>. QED
  BY <1>1

LEMMA HalfSeal == ASSUME PackInv, Truth, HalfFails, Seal PROVE HalfFails'
<1>. PICK f \in BOOLEAN :
       \/ LoadStates(f, cleanupErr)
       \/ WriteJSON(f) \/ WritePDF(f)
       \/ WriteIndex(f) \/ WriteSignature(f) \/ WritePublicKey(f)
  BY DEF Seal
<1>1. HalfSent' = HalfSent
  BY DEF Seal, Gone, remote, history, HalfSent
<1>2. exit = NoExit /\ cmd # "none"
  BY SealKeeps DEF PackInv, Sealed
<1>3. \/ /\ step' \in AfterCleaning /\ cmd' = cmd /\ exit' = exit
         /\ failed = TRUE => failed' = TRUE
      \/ \E err \in BOOLEAN : Finish(err)
  BY DEF LoadStates, Fails, WriteJSON, WritePDF, WriteIndex, WriteSignature, WritePublicKey,
         AfterCleaning
<1>4. CASE cmd' = cmd /\ exit' = exit /\ (failed = TRUE => failed' = TRUE)
  BY <1>1, <1>2, <1>4, SealKeeps DEF HalfFails, NoExit
<1>5. ASSUME NEW err \in BOOLEAN, Finish(err) PROVE HalfFails'
  <2>1. stage' = "idle" /\ exit'.cmd = cmd
    BY <1>5, SealKeeps DEF Finish
  <2>2. cmd = "acquire" => stage = "cleaned"
    BY SealKeeps DEF Truth
  <2>3. cmd = "acquire" /\ HalfSent # {} => ~exit'.ok
    BY <1>5, <2>2, FinishFails DEF HalfFails
  <2>. QED
    BY <1>1, <2>1, <2>3 DEF HalfFails
<1>. QED
  BY <1>3, <1>4, <1>5

LEMMA HalfOther ==
  ASSUME PackInv, HalfFails, AfterCleanup \/ CleanupCommand \/ Environment \/ UNCHANGED vars
  PROVE  HalfFails'
<1>1. HalfSent' = HalfSent
  BY DEF AfterCleanup, CleanupCommand, ManualCleanup, RemoveNext, EndManual, Gone, Environment,
         AlterMarker, vars, footprint, remote, history, HalfSent
<1>2. CASE AfterCleanup
  <2>1. CASE cmd = "acquire"
    BY <1>1, <1>2, <2>1 DEF AfterCleanup, footprint, HalfFails
  <2>2. CASE cmd = "discover"
    <3>1. stage' = "idle" /\ exit'.cmd = "discover"
      BY <1>2, <2>2 DEF AfterCleanup, Finish, Gone
    <3>. QED
      BY <3>1 DEF HalfFails
  <2>. QED
    BY <1>2, <2>1, <2>2 DEF AfterCleanup
<1>3. CASE CleanupCommand
  <2>1. UNCHANGED package /\ stage' \in {"idle", "manual"}
    BY <1>3 DEF CleanupCommand, ManualCleanup, RemoveNext, EndManual, Gone
  <2>. QED
    BY <1>1, <2>1 DEF HalfFails, package, command
<1>4. CASE Environment \/ UNCHANGED vars
  <2>1. UNCHANGED package /\ stage' = stage
    BY <1>4 DEF Environment, AlterMarker, vars, footprint
  <2>. QED
    BY <1>1, <2>1 DEF HalfFails, package, command
<1>. QED
  BY <1>2, <1>3, <1>4

LEMMA HalfStep == PackInv /\ OwnInv /\ Truth /\ HalfFails /\ [Next]_vars => HalfFails'
  BY HalfStart, HalfEarly, HalfCleanup, HalfSeal, HalfOther DEF Next

\* An accepted report of the last acquisition that warns of no cleanup failure
\* tells the truth: of what the run created on the target nothing is left under
\* its own name, apart from what a rollback gave up and a run told to keep its
\* files, and no tool in part if the command succeeded (controller.go, Cleanup;
\* ssh.go, Upload; main.go, acquire; report.go, WriteCaseReport, VerifyIndex).
THEOREM CleanReportTrue == Spec => []CleanReportMeansCleanTarget
<1>1. Truth /\ HalfFails => CleanReportMeansCleanTarget
  <2>1. Truth => (VerifyIndex(pub) /\ json.by = "acquire" /\ ~json.warn /\ ~job.keep
                    /\ cmd = "none" /\ exit.cmd = "acquire" => target \cap put \subseteq lost)
    BY DEF Truth, Left, VerifyIndex
  <2>2. HalfFails => (exit.cmd = "acquire" /\ exit.ok => HalfSent = {})
    BY DEF HalfFails
  <2>. QED
    BY <2>1, <2>2 DEF CleanReportMeansCleanTarget
<1>. QED
  BY PackInit, PackStep, FootInit, FootStep, OwnInit, OwnStep, CleanInit, CleanStep,
     ReportInit, ReportStep, TruthInit, TruthStep, HalfInit, HalfStep, <1>1, PTL DEF Spec

-----------------------------------------------------------------------------
(* The shape of the state. *)

\* What a rollback gives up has been put there: the agent to be checked, or
\* removed with its marker, was uploaded by this run.
Launched ==
  /\ stage \in {"agent", "check"} => candidate <= Candidates
  /\ stage = "check" => agentUploaded = TRUE
  /\ stage = "agent" => agentUploaded = FALSE
  /\ agentUploaded = TRUE => agentPath \in put /\ stage \notin {"idle", "manual"}

Shape == FootprintTypeOK /\ Launched

LEMMA TwoCandidates == Candidates = 2
  BY DEF Candidates

LEMMA ShapeInit == Init => Shape
<1>. SUFFICES ASSUME Init PROVE Shape
  OBVIOUS
<1>1. MaxRuns \in Nat /\ MaxFaults \in Nat
  BY FootprintBounds
<1>. QED
  <2>1. FootprintTypeOK
    <3>1. agentUploaded \in BOOLEAN /\ cleanupErr \in BOOLEAN
      BY Zenon DEF Init, FootprintInit
    <3>2. /\ job \in Jobs /\ stage = "idle" /\ candidate = 0 /\ put = {} /\ lost = {}
          /\ runs = 0 /\ faults = 0
      BY DEF Init, FootprintInit
    <3>. QED
      BY <1>1, <3>1, <3>2, TwoCandidates DEF FootprintTypeOK
  <2>2. Launched
    BY DEF Init, FootprintInit, Launched
  <2>. QED
    BY <2>1, <2>2 DEF Shape

\* Failures are counted, and no more happen than the bound allows.
LEMMA FaultsCounted == ASSUME FootprintTypeOK, [Next]_vars PROVE faults' \in 0..MaxFaults
<1>1. Fault \/ NoFault
  <2>1. CASE Begin
    BY <2>1 DEF Begin, StartRun
  <2>2. CASE Prepare
    BY <2>2 DEF Prepare, PrepareStep, OpenTemp, HashPreinstalled, UploadAgent, CheckAgent, UploadMarker,
       RecordMarker, MarkerFails, DropOldMarker, ProbeTarget, PrepareTool, UploadTool, VerifyTool,
       EndPrepare
  <2>3. CASE Acquire
    BY <2>3 DEF Acquire, Meets
  <2>4. CASE Cleanup
    BY <2>4 DEF Cleanup, CleanupStep, StartCleanup, EndCleanup, RemoveNext
  <2>5. CASE AfterCleanup
    BY <2>5 DEF AfterCleanup, footprint, NoFault
  <2>6. CASE Seal
    BY <2>6 DEF Seal, Meets
  <2>7. CASE BeginReport \/ UNCHANGED vars
    BY <2>7 DEF BeginReport, footprint, NoFault, vars
  <2>8. CASE CleanupCommand
    BY <2>8 DEF CleanupCommand, ManualCleanup, RemoveNext, EndManual
  <2>9. CASE Crash \/ Environment
    BY <2>9 DEF Crash, Environment, AlterMarker
  <2>. QED
    BY <2>1, <2>2, <2>3, <2>4, <2>5, <2>6, <2>7, <2>8, <2>9 DEF Next
<1>. QED
  BY <1>1, FootprintBounds DEF Fault, NoFault, FootprintTypeOK

LEMMA ShapeStart == ASSUME Shape, StartRun, faults' \in 0..MaxFaults PROVE Shape'
<1>1. /\ stage = "idle" /\ runs < MaxRuns /\ runs' = runs + 1 /\ stage' \in {"probe", "agent"}
      /\ candidate' = 1 /\ put' = {} /\ lost' = {}
      /\ UNCHANGED <<job, agentUploaded, cleanupErr>>
  BY DEF StartRun, cleaning
<1>2. agentUploaded = FALSE
  BY <1>1 DEF Shape, FootprintTypeOK, Launched
<1>. QED
  BY <1>1, <1>2, FootprintBounds, TwoCandidates DEF Shape, FootprintTypeOK, Launched

LEMMA ShapeAgent ==
  ASSUME Shape, HashPreinstalled \/ UploadAgent \/ CheckAgent, faults' \in 0..MaxFaults
  PROVE  Shape'
<1>1. CASE HashPreinstalled
  <2>1. /\ stage = "agent" /\ job.placement = "preinstalled" /\ stage' \in {"mark", "failed"}
        /\ UNCHANGED <<job, candidate, agentUploaded, cleanupErr, put, lost, runs>>
    BY <1>1 DEF HashPreinstalled, cleaning, history
  <2>2. agentUploaded = FALSE
    BY <2>1 DEF Shape, Launched, FootprintTypeOK
  <2>. QED
    BY <2>1, <2>2 DEF Shape, FootprintTypeOK, Launched
<1>2. CASE UploadAgent
  <2>. PICK p : p = AgentCandidate(candidate)
    OBVIOUS
  <2>1. /\ stage = "agent" /\ UNCHANGED <<job, cleanupErr, runs>>
        /\ \/ /\ put' = put \cup {p} /\ agentPath' = p /\ agentUploaded' = TRUE
              /\ stage' = "check" /\ UNCHANGED <<lost, candidate>>
           \/ /\ \E left \in SUBSET {p} : put' = put \cup left /\ lost' = lost \cup left
              /\ NextCandidate
    BY <1>2 DEF UploadAgent, UploadTo, cleaning
  <2>2. CASE NextCandidate /\ \E left \in SUBSET {p} : put' = put \cup left /\ lost' = lost \cup left
    <3>1. agentUploaded' \in BOOLEAN /\ ~(agentUploaded' = TRUE)
      BY <2>2, Zenon DEF NextCandidate
    <3>2. candidate' = candidate + 1 /\ stage' = IF candidate < Candidates THEN "agent" ELSE "failed"
      BY <2>2 DEF NextCandidate
    <3>3. agentUploaded' = FALSE /\ lost' \subseteq put'
      BY <2>2 DEF NextCandidate, Shape, FootprintTypeOK
    <3>4. stage' \in {"agent", "failed"} /\ (stage' = "agent" => candidate' <= Candidates)
          /\ candidate' \in 0..(Candidates + 1)
      BY <2>1, <3>2, TwoCandidates DEF Shape, FootprintTypeOK, Launched
    <3>. QED
      BY <2>1, <3>1, <3>3, <3>4 DEF Shape, FootprintTypeOK, Launched
  <2>. QED
    BY <2>1, <2>2, TwoCandidates DEF Shape, FootprintTypeOK, Launched
<1>3. CASE CheckAgent
  <2>1. /\ stage = "check" /\ UNCHANGED <<job, cleanupErr, put, runs>>
        /\ \/ stage' = "mark" /\ UNCHANGED <<lost, candidate, agentPath, agentUploaded>>
           \/ NextCandidate /\ lost' = lost
           \/ NextCandidate /\ lost' = lost \cup {agentPath}
    BY <1>3 DEF CheckAgent, cleaning, agentVars
  <2>2. agentPath \in put /\ candidate <= Candidates
    BY <2>1 DEF Shape, Launched
  <2>3. CASE NextCandidate
    <3>1. agentUploaded' \in BOOLEAN /\ ~(agentUploaded' = TRUE)
      BY <2>3, Zenon DEF NextCandidate
    <3>2. candidate' = candidate + 1 /\ stage' = IF candidate < Candidates THEN "agent" ELSE "failed"
      BY <2>3 DEF NextCandidate
    <3>3. agentUploaded' = FALSE
      BY <2>3 DEF NextCandidate
    <3>4. lost' \subseteq put'
      BY <2>1, <2>2 DEF Shape, FootprintTypeOK
    <3>5. stage' \in {"agent", "failed"} /\ (stage' = "agent" => candidate' <= Candidates)
          /\ candidate' \in 0..(Candidates + 1)
      BY <2>1, <2>2, <3>2, TwoCandidates DEF Shape, FootprintTypeOK, Launched
    <3>. QED
      BY <2>1, <3>1, <3>3, <3>4, <3>5 DEF Shape, FootprintTypeOK, Launched
  <2>. QED
    BY <2>1, <2>2, <2>3 DEF Shape, FootprintTypeOK, Launched
<1>. QED
  BY <1>1, <1>2, <1>3

LEMMA ShapeMarker ==
  ASSUME Shape, UploadMarker \/ RecordMarker, faults' \in 0..MaxFaults
  PROVE  Shape'
<1>1. /\ stage \in {"mark", "record"}
      /\ UNCHANGED <<job, candidate, cleanupErr, runs>>
  BY DEF UploadMarker, RecordMarker, cleaning, agentVars
<1>2. CASE \E left \in SUBSET {Marker.id} : MarkerFails(left)
  <2>. PICK left \in SUBSET {Marker.id} : MarkerFails(left)
    BY <1>2
  <2>. PICK agent : agent = IF MarkerFor = "agent" /\ agentUploaded THEN {agentPath} ELSE {}
    OBVIOUS
  <2>1. /\ \E kept \in SUBSET agent : lost' = lost \cup kept \cup left
        /\ put' = put \cup left
        /\ agentUploaded' = (agentUploaded /\ agent = {})
        /\ agentPath' = (IF agent = {} THEN agentPath ELSE NoPath)
        /\ stage' = "failed"
    BY DEF MarkerFails
  <2>2. agent \subseteq put
    BY DEF Shape, Launched, FootprintTypeOK
  <2>3. lost' \subseteq put'
    BY <2>1, <2>2 DEF Shape, FootprintTypeOK
  <2>4. agentUploaded' \in BOOLEAN
    BY <2>1, Zenon
  <2>5. agentUploaded' = TRUE => agentUploaded = TRUE /\ agentPath' = agentPath
    BY <2>1 DEF Shape, FootprintTypeOK
  <2>. QED
    BY <1>1, <2>1, <2>3, <2>4, <2>5 DEF Shape, FootprintTypeOK, Launched
<1>3. CASE /\ stage' \in {"record", "probe", "upload", "drop"}
           /\ put \subseteq put'
           /\ UNCHANGED <<agentPath, agentUploaded, lost>>
  BY <1>1, <1>3 DEF Shape, FootprintTypeOK, Launched
<1>4. AfterMarker \in {"probe", "upload"}
  BY DEF AfterMarker
<1>. QED
  BY <1>2, <1>3, <1>4 DEF UploadMarker, UploadTo, RecordMarker, agentVars

\* The other steps put nothing on the list of what was given up.
LEMMA ShapeOther ==
  ASSUME Shape, faults' \in 0..MaxFaults,
         \/ DropOldMarker \/ ProbeTarget \/ PrepareTool \/ UploadTool \/ VerifyTool \/ EndPrepare
         \/ StartCleanup \/ EndCleanup \/ (stage \in {"removing", "manual"} /\ RemoveNext)
         \/ ManualCleanup \/ AlterMarker \/ Gone \/ OpenTemp
         \/ UNCHANGED <<job, remote, record, stage, controller, cleaning, history, runs>>
  PROVE  Shape'
<1>1. CASE \/ DropOldMarker \/ ProbeTarget \/ PrepareTool \/ UploadTool \/ VerifyTool \/ EndPrepare
  <2>1. AfterMarker \in {"probe", "upload"}
    BY DEF AfterMarker
  <2>2. /\ stage' \in {"probe", "upload", "tool", "failed", "mark", "verify", "ready"}
        /\ UNCHANGED <<job, candidate, agentPath, agentUploaded, cleanupErr, lost, runs>>
        /\ put \subseteq put'
    BY <1>1, <2>1 DEF DropOldMarker, ProbeTarget, PrepareTool, UploadTool, VerifyTool, EndPrepare,
       UploadTo, controller, agentVars, cleaning, history
  <2>. QED
    BY <2>2 DEF Shape, FootprintTypeOK, Launched
<1>2. CASE StartCleanup
  <2>1. /\ stage' \in {"cleaned", "removing"} /\ cleanupErr' \in BOOLEAN
        /\ UNCHANGED <<job, candidate, agentPath, agentUploaded, put, lost, runs>>
    BY <1>2 DEF StartCleanup, Retained, controller, agentVars, history
  <2>. QED
    BY <2>1 DEF Shape, FootprintTypeOK, Launched
<1>3. CASE EndCleanup \/ (stage \in {"removing", "manual"} /\ RemoveNext) \/ ManualCleanup
             \/ AlterMarker \/ OpenTemp
             \/ UNCHANGED <<job, remote, record, stage, controller, cleaning, history, runs>>
  <2>1. /\ \/ stage' = stage
           \/ stage = "removing" /\ stage' = "cleaned"
           \/ stage = "idle" /\ stage' = "manual"
        /\ cleanupErr' = cleanupErr \/ cleanupErr' = TRUE
        /\ UNCHANGED <<job, candidate, agentPath, agentUploaded, put, lost, runs>>
    BY <1>3 DEF EndCleanup, RemoveNext, ManualCleanup, AlterMarker, OpenTemp, controller, agentVars,
       cleaning, history
  <2>. QED
    BY <2>1 DEF Shape, FootprintTypeOK, Launched
<1>4. CASE Gone
  <2>1. /\ stage' = "idle" /\ candidate' = 0 /\ agentUploaded' = FALSE /\ cleanupErr' = FALSE
        /\ UNCHANGED <<job, put, lost, runs>>
    BY <1>4 DEF Gone, history
  <2>2. agentUploaded' \in BOOLEAN /\ cleanupErr' \in BOOLEAN /\ ~(agentUploaded' = TRUE)
    BY <2>1, Zenon
  <2>3. candidate' \in 0..(Candidates + 1) /\ stage' = "idle"
    BY <2>1, TwoCandidates
  <2>4. UNCHANGED <<job, put, lost, runs>>
    BY <2>1
  <2>. QED
    BY <2>2, <2>3, <2>4 DEF Shape, FootprintTypeOK, Launched
<1>. QED
  BY <1>1, <1>2, <1>3, <1>4

LEMMA ShapeStep == Shape /\ [Next]_vars => Shape'
<1>. SUFFICES ASSUME Shape, [Next]_vars PROVE Shape'
  OBVIOUS
<1>1. faults' \in 0..MaxFaults
  BY FaultsCounted DEF Shape
<1>. QED
  BY <1>1, Steps, ShapeStart, ShapeAgent, ShapeMarker, ShapeOther DEF PrepareStep

\* The directory is changed by writes to its files only.
IsTree == tree = [f \in File |-> tree[f]]

LEMMA TreeInit == Init => IsTree
  BY DEF Init, PackageInit, IsTree

LEMMA TouchedTree == ASSUME NEW files, Touch(files) PROVE IsTree'
  BY DEF Touch, IsTree

LEMMA TreeStep == IsTree /\ [Next]_vars => IsTree'
<1>. SUFFICES ASSUME IsTree, [Next]_vars PROVE IsTree'
  OBVIOUS
<1>1. tree' = tree \/ \E files : Touch(files)
  <2>1. CASE Begin \/ Prepare \/ Cleanup
    BY <2>1 DEF Begin, OpenCase, Prepare, Cleanup, Writing
  <2>2. CASE Acquire
    BY <2>2 DEF Acquire, CheckSpace, CreateArtifact, SaveFirstState, Stream, directory
  <2>3. CASE AfterCleanup \/ BeginReport \/ CleanupCommand \/ Environment \/ UNCHANGED vars
    BY <2>3 DEF AfterCleanup, BeginReport, StartReport, CleanupCommand, Environment, vars, package,
       directory
  <2>4. CASE Seal
    BY <2>4 DEF Seal, LoadStates, WriteJSON, WritePDF, WriteIndex, WriteSignature, WritePublicKey
  <2>5. CASE Crash
    BY <2>5 DEF Crash, Die
  <2>. QED
    BY <2>1, <2>2, <2>3, <2>4, <2>5 DEF Next
<1>. QED
  BY <1>1, TouchedTree DEF IsTree

\* An artifact at work is one of the case.
Working ==
  /\ artifact \in [Artifacts -> Status] /\ garbled \subseteq Artifacts
  /\ current \in Artifacts \cup {0}
  /\ step \in {"first", "stream"} => current \in Artifacts
  /\ cmd \in {"none", "acquire", "discover", "report"}

LEMMA WorkingInit == Init => Working
  BY DEF Init, PackageInit, Working, Status

LEMMA WorkingStep == PackInv /\ Working /\ [Next]_vars => Working'
<1>. SUFFICES ASSUME PackInv, Working, [Next]_vars PROVE Working'
  OBVIOUS
<1>1. CASE Begin
  BY <1>1 DEF Begin, OpenCase, Working
<1>2. CASE Prepare
  BY <1>2 DEF Prepare, Writing, command, Working
<1>3. CASE Acquire
  <2>1. CASE CheckSpace
    BY <2>1 DEF CheckSpace, EndAcquire, directory, Working
  <2>2. CASE CreateArtifact
    <3>. PICK a : a = NextArtifact
      OBVIOUS
    <3>1. /\ a \in Artifacts /\ UNCHANGED <<garbled, cmd>>
          /\ \/ /\ artifact' = [artifact EXCEPT ![a] = "empty"] /\ current' = a
             \/ /\ step' = "cleanup" /\ UNCHANGED <<artifact, current>>
             \/ current' = a /\ UNCHANGED artifact
      BY <2>2 DEF CreateArtifact, EndAcquire
    <3>. QED
      BY <3>1 DEF Working, Status, Stateless
  <2>3. ASSUME NEW f \in BOOLEAN, SaveFirstState(f) PROVE Working'
    <3>1. /\ step = "first" /\ UNCHANGED <<garbled, cmd>> /\ current' \in {current, 0}
          /\ step' = "stream" => current' = current
          /\ step' \in {"stream", "cleanup"}
          /\ \E s \in {"empty", "running"} : artifact' = [artifact EXCEPT ![current] = s]
      BY <2>3 DEF SaveFirstState, EndAcquire
    <3>. QED
      BY <3>1 DEF Working, Status, Stateless
  <2>4. ASSUME NEW f \in BOOLEAN, Stream(f) PROVE Working'
    <3>1. /\ step = "stream" /\ step' = "cleanup" /\ UNCHANGED <<cmd, current>>
          /\ garbled' \subseteq garbled \cup {current}
          /\ \E s \in {"verified", "running", "failed", "incomplete"} :
               artifact' = [artifact EXCEPT ![current] = s]
      BY <2>4 DEF Stream, EndAcquire, Unfinished
    <3>. QED
      BY <3>1 DEF Working, Status
  <2>. QED
    BY <1>3, <2>1, <2>2, <2>3, <2>4 DEF Acquire
<1>4. CASE Cleanup
  <2>1. /\ UNCHANGED <<artifact, garbled, current, cmd>> /\ step' \in {step, "cleanup"}
    BY <1>4 DEF Cleanup, Writing, command
  <2>. QED
    BY <2>1 DEF Working
<1>5. CASE AfterCleanup
  <2>1. /\ UNCHANGED <<artifact, garbled>> /\ current' \in {current, 0} /\ cmd' \in {cmd, "none"}
        /\ step' \in {"load", "none"}
    BY <1>5 DEF AfterCleanup, Finish, directory
  <2>. QED
    BY <2>1 DEF Working
<1>6. CASE Seal
  <2>1. /\ UNCHANGED <<artifact, garbled>> /\ current' \in {current, 0} /\ cmd' \in {cmd, "none"}
        /\ step' \in Sealing \cup {"none"}
    BY <1>6 DEF Seal, LoadStates, WriteJSON, WritePDF, WriteIndex, WriteSignature, WritePublicKey,
       Finish, Sealing
  <2>. QED
    BY <2>1 DEF Working, Sealing
<1>7. CASE BeginReport
  BY <1>7 DEF BeginReport, StartReport, directory, Working
<1>8. CASE CleanupCommand \/ Environment \/ UNCHANGED vars
  <2>1. UNCHANGED <<artifact, garbled, current, step, cmd>>
    BY <1>8 DEF CleanupCommand, Environment, vars, package, directory, command
  <2>. QED
    BY <2>1 DEF Working
<1>9. CASE Crash
  <2>1. /\ cmd' = "none" /\ step' = "none" /\ current' = 0
        /\ \/ UNCHANGED <<artifact, garbled>>
           \/ /\ step = "first" /\ UNCHANGED garbled
              /\ artifact' = [artifact EXCEPT ![current] = "littered"]
           \/ /\ step = "stream" /\ UNCHANGED artifact
              /\ garbled' = garbled \cup {current}
    BY <1>9 DEF Crash, Die
  <2>. QED
    BY <2>1 DEF Working, Status, Stateless
<1>. QED
  BY <1>1, <1>2, <1>3, <1>4, <1>5, <1>6, <1>7, <1>8, <1>9 DEF Next

\* The state keeps its shape: a rollback gives up nothing but what the run put
\* on the target, the list of agent candidates ends, and only artifacts of the
\* case are worked on (controller.go, Prepare, Acquire).
THEOREM LifecycleTypeCorrect == Spec => []TypeOK
<1>1. Shape /\ Working /\ IsTree /\ ReportInv /\ PackInv => TypeOK
  <2>. SUFFICES ASSUME Shape, Working, IsTree, ReportInv, PackInv PROVE TypeOK
    OBVIOUS
  <2>1. DOMAIN tree = File /\ \A f \in File : tree[f] \in 0..epoch
    BY DEF ReportInv, Epochs
  <2>2. tree \in [File -> 0..epoch]
    BY <2>1 DEF IsTree
  <2>. QED
    BY <2>2 DEF TypeOK, Shape, Working, PackInv, Place, Sealing
<1>. QED
  BY PackInit, PackStep, ReportInit, ReportStep, ShapeInit, ShapeStep, WorkingInit, WorkingStep,
     TreeInit, TreeStep, <1>1, PTL DEF Spec

=============================================================================
