-------------------------- MODULE EvidencePackage --------------------------
(***************************************************************************)
(* The case directory as a package: the files a command writes into it,    *)
(* the case report, and the signed index that `imajer verify` checks, for  *)
(* the commands acquire, discover and report.  What acquire does to the    *)
(* artifacts is kept to the states their directories can be left in (see   *)
(* Acquisition and RamAttempts); what Prepare and Cleanup do to the target *)
(* is the module RemoteFootprint.  CaseLifecycle composes the two.         *)
(*                                                                         *)
(* Abstractions.  A file's content is the epoch in which it was last       *)
(* written, where an epoch ends whenever the tree is hashed: every write   *)
(* carries a time of its own, so two contents are equal exactly if no      *)
(* write lies between.  A signature is the signed pair of tree and key.    *)
(***************************************************************************)
EXTENDS Naturals, FiniteSets

CONSTANTS
  Keys,          \* examiner keys a job may name
  Artifacts,     \* numbers of the artifact directories
  MaxSeals       \* bound: `report` is only run up to this epoch

ASSUME PackageAssumption ==
  /\ Artifacts \subseteq Nat \ {0} /\ IsFiniteSet(Artifacts)
  /\ MaxSeals \in Nat

VARIABLES
  profile,       \* acquisition.profile of the job
  \* The case directory; it survives a crash.
  tree,          \* its files: epoch of the last write, 0 if absent
  artifact,      \* what the artifact directories hold
  garbled,       \* those whose sessions.jsonl has a line that does not decode
  json, pdf,     \* data of case-report.json and case-report.pdf
  index, sig, pub, \* evidence-index.json, .sig and examiner-public-key.pem
  epoch,         \* the current epoch
  \* The command.
  cmd,           \* the command that is running
  step,          \* where it stands
  current,       \* artifact being acquired, then the one Acquire returned
  failed,        \* some error is to be returned
  data,          \* the CaseReport in memory
  exit           \* how the last command ended

directory == <<tree, artifact, garbled, json, pdf, index, sig, pub>>
command   == <<cmd, step, current, failed, data, exit>>
package   == <<profile, directory, epoch, command>>

-----------------------------------------------------------------------------
\* Values.

File == {"events", "marker", "probe", "artifacts", "json", "pdf", "litter"}

\* "empty" and "littered" directories have no state.json; a littered one holds
\* the temporary file of a first SaveState that died.
Stateless == {"empty", "littered"}
Status == Stateless \cup {"none", "running", "incomplete", "failed", "verified"}

NoReport == [by |-> "none", listed |-> [a \in {} |-> "none"], warn |-> FALSE, loaded |-> TRUE,
             sessions |-> TRUE]
NoIndex == [files |-> [f \in {} |-> 0], key |-> 0]
NoExit == [cmd |-> "none", ok |-> TRUE]

Present == {a \in Artifacts : artifact[a] # "none"}
Unreadable == {a \in Artifacts : artifact[a] \in Stateless}

\* The states of a set of artifacts as the report lists them.
States(set) == [a \in set |-> artifact[a]]

\* A write to files of the case directory.
Touch(files) == tree' = [f \in File |-> IF f \in files THEN epoch ELSE tree[f]]

\* An environment failure ends or spoils a step; the composition counts them.
Fails(f) == failed' = (failed \/ f)

\* VerifyIndex with the trusted key k: canonical index, signature over it by
\* that key, and the tree file by file.
VerifyIndex(k) ==
  /\ index # NoIndex
  /\ sig = index
  /\ index.key = k
  /\ index.files = tree

PackageInit ==
  /\ profile \in {"ram", "disk"}
  /\ tree = [f \in File |-> 0]
  /\ artifact = [a \in Artifacts |-> "none"] /\ garbled = {}
  /\ json = NoReport /\ pdf = NoReport
  /\ index = NoIndex /\ sig = NoIndex /\ pub = 0
  /\ epoch = 1
  /\ cmd = "none" /\ step = "none"
  /\ current = 0 /\ failed = FALSE /\ data = NoReport
  /\ exit = NoExit

-----------------------------------------------------------------------------
\* The acquisition as far as the package sees it.

\* OpenEvents, and the events of the run.
OpenCase(c) ==
  /\ cmd = "none"
  /\ cmd' = c /\ step' = "prepare"
  /\ current' = 0 /\ failed' = FALSE /\ data' = NoReport /\ exit' = NoExit
  /\ Touch({"events"})
  /\ UNCHANGED <<profile, artifact, garbled, json, pdf, index, sig, pub, epoch>>

\* Acquire returns; the command goes on to Cleanup.
EndAcquire(err) ==
  /\ step' = "cleanup"
  /\ Fails(err)

\* checkLocalSpace is passed or not.
CheckSpace ==
  /\ step = "prepare" /\ cmd = "acquire"
  /\ \/ step' = "create" /\ UNCHANGED failed
     \/ EndAcquire(TRUE)
  /\ UNCHANGED <<profile, directory, epoch, cmd, current, data, exit>>

\* The next memory attempt, or the one disk artifact.
NextArtifact ==
  IF profile = "disk" THEN 1 ELSE 1 + Cardinality(Present)

\* MkdirAll and loadOrCreateState up to the first SaveState: a sealed artifact
\* is returned, a directory with files but no state is refused.
CreateArtifact ==
  /\ step = "create"
  /\ NextArtifact \in Artifacts
  /\ LET a == NextArtifact
     IN \/ /\ artifact[a] \in {"none", "empty"}
           /\ artifact' = [artifact EXCEPT ![a] = "empty"]
           /\ step' = "first" /\ current' = a
           /\ UNCHANGED failed
        \/ /\ artifact[a] = "littered"
           /\ EndAcquire(TRUE)
           /\ UNCHANGED <<artifact, current>>
        \/ /\ artifact[a] = "verified"
           /\ EndAcquire(FALSE) /\ current' = a
           /\ UNCHANGED artifact
        \/ /\ artifact[a] \in {"running", "incomplete", "failed"}
           /\ step' = "stream" /\ current' = a
           /\ UNCHANGED <<artifact, failed>>
  /\ UNCHANGED <<profile, tree, garbled, json, pdf, index, sig, pub, epoch, cmd, data, exit>>

\* The first SaveState; a failure may come after the file was replaced, and
\* acquireArtifact then returns no state.
SaveFirstState(fault) ==
  /\ step = "first"
  /\ \/ ~fault /\ step' = "stream" /\ UNCHANGED <<current, failed>>
        /\ artifact' = [artifact EXCEPT ![current] = "running"]
     \/ fault /\ EndAcquire(TRUE) /\ current' = 0
        /\ \E s \in {"empty", "running"} : artifact' = [artifact EXCEPT ![current] = s]
  /\ Touch({"artifacts"})
  /\ UNCHANGED <<profile, garbled, json, pdf, index, sig, pub, epoch, cmd, data, exit>>

\* How an attempt may leave the artifact when it returns an error.
Unfinished == IF profile = "disk" THEN {"running", "failed"} ELSE {"incomplete"}

\* The transfer of the artifact to its end, verified or not; AppendSession may
\* leave half a line, and the attempt ends there.
Stream(fault) ==
  /\ step = "stream"
  /\ \E s \in {"verified"} \cup Unfinished :
       /\ fault => s \in {"running", "incomplete"}
       /\ artifact' = [artifact EXCEPT ![current] = s]
       /\ EndAcquire(s # "verified")
  /\ garbled' = garbled \cup IF fault THEN {current} ELSE {}
  /\ Touch({"artifacts"})
  /\ UNCHANGED <<profile, json, pdf, index, sig, pub, epoch, cmd, current, data, exit>>

-----------------------------------------------------------------------------
\* The end of acquire, and the report command.

\* Defect: the states on disk are not loaded.
Returned(fault) == {current} \cap Artifacts

\* The artifacts to list, from loadAllStates.  A missing file (no artifact at
\* all, or a directory without state.json) is no error: the report lists what
\* Acquire returned.  So it does after any other failure.
Loaded(fault) ==
  IF Present # {} /\ Unreadable = {} /\ ~fault THEN Present ELSE {current} \cap Artifacts

\* Defect: the error of loadAllSessions is not joined to the others.
StatesErr(list, err) == err

\* loadAllSessions gives up at the first log that does not decode.
LoadErr(list, err) == err \/ list \cap garbled # {}

\* loadAllStates, FinalizeNonCompleteArtifact and loadAllSessions; whatever
\* fails (the states to load, or one of those loaded to be finalized), the
\* report still goes ahead.
LoadStates(fault, warn) ==
  /\ step = "load"
  /\ step' = "json"
  /\ \E list \in {Loaded(fault), Loaded(FALSE)} :
       /\ data' = [by |-> "acquire", warn |-> warn, loaded |-> ~fault,
                   listed |-> States(list), sessions |-> list \cap garbled = {}]
       /\ Fails(LoadErr(list, fault \/ warn))
  /\ IF Present # {} /\ Unreadable = {} THEN Touch({"artifacts"}) ELSE UNCHANGED tree
  /\ UNCHANGED <<profile, artifact, garbled, json, pdf, index, sig, pub, epoch, cmd, current, exit>>

\* `imajer report`: every state and session log must load and the probe be
\* there; warnings and footprint of the previous report are kept.
StartReport ==
  /\ cmd = "none" /\ epoch <= MaxSeals
  /\ Present # {} /\ Unreadable = {} /\ Present \cap garbled = {} /\ tree["probe"] # 0
  /\ cmd' = "report" /\ step' = "json"
  /\ data' = [by |-> "report", warn |-> json.warn, loaded |-> TRUE, listed |-> States(Present),
              sessions |-> TRUE]
  /\ current' = 0 /\ failed' = FALSE /\ exit' = NoExit
  /\ UNCHANGED <<profile, directory, epoch>>

\* The command returns.
Finish(err) ==
  /\ cmd' = "none" /\ step' = "none"
  /\ current' = 0 /\ failed' = FALSE /\ data' = NoReport
  /\ exit' = [cmd |-> cmd, ok |-> ~(failed \/ err)]

\* WriteCaseReport: the JSON, then the PDF.  Without it there is no index.
WriteJSON(fault) ==
  /\ step = "json"
  /\ \/ ~fault /\ json' = data /\ step' = "pdf"
        /\ UNCHANGED <<cmd, current, failed, data, exit>>
     \/ fault /\ json' \in {json, data} /\ Finish(TRUE)
  /\ IF json' = data THEN Touch({"json"}) ELSE UNCHANGED tree
  /\ UNCHANGED <<profile, artifact, garbled, pdf, index, sig, pub, epoch>>

WritePDF(fault) ==
  /\ step = "pdf"
  /\ \/ ~fault /\ pdf' = data /\ step' = "index"
        /\ UNCHANGED <<cmd, current, failed, data, exit>>
     \/ fault /\ pdf' \in {pdf, data} /\ Finish(TRUE)
  /\ IF pdf' = data THEN Touch({"pdf"}) ELSE UNCHANGED tree
  /\ UNCHANGED <<profile, artifact, garbled, json, index, sig, pub, epoch>>

\* FinalizeIndex: key, hashTree and the index over it; then the signature of
\* that index and the public key.  The three files are not part of the tree.
WriteIndex(fault) ==
  /\ step = "index"
  /\ \/ ~fault /\ step' = "sig"
        /\ \E k \in Keys : index' = [files |-> tree, key |-> k]
        /\ UNCHANGED <<cmd, current, failed, data, exit>>
     \/ fault /\ Finish(TRUE)
        /\ \E k \in Keys : index' \in {index, [files |-> tree, key |-> k]}
  /\ epoch' = epoch + 1
  /\ UNCHANGED <<profile, tree, artifact, garbled, json, pdf, sig, pub>>

WriteSignature(fault) ==
  /\ step = "sig"
  /\ \/ ~fault /\ sig' = index /\ step' = "pub"
        /\ UNCHANGED <<cmd, current, failed, data, exit>>
     \/ fault /\ sig' \in {sig, index} /\ Finish(TRUE)
  /\ UNCHANGED <<profile, tree, artifact, garbled, json, pdf, index, pub, epoch>>

\* Defect: a public key file that exists is kept.
WritePublicKeyOnce(fault) ==
  /\ step = "pub"
  /\ pub' = IF pub = 0 THEN index.key ELSE pub
  /\ Finish(fault)
  /\ UNCHANGED <<profile, tree, artifact, garbled, json, pdf, index, sig, epoch>>

WritePublicKey(fault) ==
  /\ step = "pub"
  /\ \/ ~fault /\ pub' = index.key
     \/ fault /\ pub' \in {pub, index.key}
  /\ Finish(fault)
  /\ UNCHANGED <<profile, tree, artifact, garbled, json, pdf, index, sig, epoch>>

\* The process dies.  AtomicWrite leaves a temporary file behind if it dies
\* inside, which is then a file of the tree.
Die ==
  /\ cmd # "none"
  /\ cmd' = "none" /\ step' = "none"
  /\ current' = 0 /\ failed' = FALSE /\ data' = NoReport
  /\ exit' = NoExit
  /\ \/ UNCHANGED <<tree, artifact, garbled>>
     \/ /\ step \in {"prepare", "json", "pdf", "index", "sig", "pub"}
        /\ Touch({"litter"})
        /\ UNCHANGED <<artifact, garbled>>
     \/ /\ step = "first"
        /\ artifact' = [artifact EXCEPT ![current] = "littered"]
        /\ Touch({"artifacts"})
        /\ UNCHANGED garbled
     \/ /\ step = "stream"
        /\ garbled' = garbled \cup {current}
        /\ Touch({"artifacts"})
        /\ UNCHANGED artifact
  /\ UNCHANGED <<profile, json, pdf, index, sig, pub, epoch>>

=============================================================================
