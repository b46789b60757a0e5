--------------------------- MODULE CaseLifecycle ---------------------------
(***************************************************************************)
(* The commands acquire, discover, report and cleanup on one case, from    *)
(* beginning to end: what they put on the target and take away             *)
(* (RemoteFootprint) together with what they write into the case directory *)
(* and sign (EvidencePackage).  A command may die between any two steps;   *)
(* commands run one after another.                                         *)
(***************************************************************************)
EXTENDS RemoteFootprint, EvidencePackage

vars == <<footprint, package>>

Init == FootprintInit /\ PackageInit /\ profile = job.profile

\* A step that meets a failure of the local disk, or does not.
Meets(fault) == IF fault THEN Fault ELSE NoFault

\* A step of the controller; it writes the given files of the case.
Writing(files) ==
  /\ Touch(files)
  /\ UNCHANGED <<profile, artifact, garbled, json, pdf, index, sig, pub, epoch, command>>

-----------------------------------------------------------------------------
\* `imajer acquire` (or resume) and `imajer discover`.
Begin == /\ cmd = "none"
         /\ StartRun
         /\ \E c \in {"acquire", "discover"} : OpenCase(c)

\* Prepare; its marker record and target-probe.json are files of the case.
Prepare ==
  /\ step = "prepare"
  /\ PrepareStep
  /\ Writing((IF stage = "record" /\ record' # record THEN {"marker"} ELSE {})
             \cup (IF stage = "tool" /\ stage' = "ready" THEN {"probe"} ELSE {}))

\* Prepare has succeeded and this is an acquisition: Acquire goes on.
Acquire ==
  /\ stage = "ready"
  /\ \E f \in BOOLEAN :
       /\ \/ (CheckSpace \/ CreateArtifact) /\ ~f
          \/ SaveFirstState(f) \/ Stream(f)
       /\ Meets(f)
  /\ UNCHANGED <<job, remote, record, stage, controller, cleaning, history, runs>>

\* Cleanup follows whatever Acquire or Prepare returned; it logs events.
Cleanup ==
  \/ /\ step = "cleanup" \/ stage = "failed" \/ (cmd = "discover" /\ stage = "ready")
     /\ StartCleanup
     /\ step' = "cleanup" /\ failed' = (failed \/ stage = "failed")
     /\ Touch({"events"})
     /\ UNCHANGED <<profile, artifact, garbled, json, pdf, index, sig, pub, epoch, cmd, current, data, exit>>
  \/ /\ stage = "removing"
     /\ CleanupStep
     /\ Writing({"events"})

\* After Cleanup discover returns; acquire goes on to load what is there.
AfterCleanup ==
  /\ stage = "cleaned" /\ step = "cleanup"
  /\ \/ /\ cmd = "acquire"
        /\ step' = "load"
        /\ UNCHANGED <<cmd, current, failed, data, exit, footprint>>
     \/ /\ cmd = "discover"
        /\ Finish(cleanupErr)
        /\ Gone /\ NoFault
  /\ UNCHANGED <<profile, directory, epoch>>

\* Report and index, of acquire after Cleanup or of `imajer report`.
Seal ==
  \E f \in BOOLEAN :
    /\ \/ LoadStates(f, cleanupErr)
       \/ WriteJSON(f) \/ WritePDF(f)
       \/ WriteIndex(f) \/ WriteSignature(f) \/ WritePublicKey(f)
    /\ Meets(f)
    /\ IF cmd' = "none" THEN Gone
       ELSE UNCHANGED <<job, remote, record, stage, controller, cleaning, history, runs>>

BeginReport == stage = "idle" /\ StartReport /\ UNCHANGED footprint

\* `imajer cleanup`, which writes nothing into the case directory.
CleanupCommand ==
  /\ cmd = "none"
  /\ ManualCleanup \/ (stage = "manual" /\ RemoveNext) \/ EndManual
  /\ UNCHANGED package

\* The process is killed or the examiner's machine stops.
Crash == Die /\ Gone /\ Fault

Environment == AlterMarker /\ UNCHANGED package

Next ==
  \/ Begin \/ Prepare \/ Acquire \/ Cleanup \/ AfterCleanup \/ Seal
  \/ BeginReport \/ CleanupCommand \/ Crash \/ Environment

Spec == Init /\ [][Next]_vars

-----------------------------------------------------------------------------
\* Properties.

TypeOK ==
  /\ FootprintTypeOK
  /\ tree \in [File -> 0..epoch]
  /\ artifact \in [Artifacts -> Status] /\ garbled \subseteq Artifacts
  /\ current \in Artifacts \cup {0}
  /\ cmd \in {"none", "acquire", "discover", "report"}
  /\ step \in {"none", "prepare", "create", "first", "stream", "cleanup", "load",
               "json", "pdf", "index", "sig", "pub"}

\* A command that ended without an error has left a package `imajer verify`
\* accepts: nothing is written after the tree was hashed (events, reports,
\* states, marker), and index, signature and public key belong together.  Its
\* report has the sessions of every artifact it lists: a session log that an
\* earlier run has garbled is never passed over in silence.
SuccessIsSealed ==
  exit.ok /\ exit.cmd \in {"acquire", "report"} => VerifyIndex(pub) /\ json.sessions

\* In an accepted package the report is up to date: the PDF has the content of
\* the JSON, and both list every artifact with the state it has on disk, unless
\* the states could not be loaded when the report was made.
AcceptedReportIsCurrent ==
  VerifyIndex(pub) =>
    /\ pdf = json
    /\ json.loaded /\ Present # {} /\ Unreadable = {} => json.listed = States(Present)

\* An accepted report of the last acquisition that warns of no cleanup failure
\* tells the truth about the target: of what the run created there nothing is
\* left under its own name, apart from what a failed rollback gave up and a run
\* told to keep its files; and if the command succeeded, no tool is left there
\* in part either.  (Beside a run that failed in the upload of a tool over SSH
\* the temporary file may stay under such a report, see CleanupLeavesNothing;
\* an agent's may where its first candidate path was given up.)
CleanReportMeansCleanTarget ==
  VerifyIndex(pub) /\ json.by = "acquire" /\ ~json.warn /\ ~job.keep /\ cmd = "none"
    /\ exit.cmd = "acquire"
    => target \cap put \subseteq lost /\ (exit.ok => HalfSent = {})

=============================================================================
