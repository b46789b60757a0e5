---------------------------- MODULE UiOperations ----------------------------
(***************************************************************************)
(* The local web server of the user interface: requests that start an      *)
(* imajer command as a child process, watch it, cancel it and shut the     *)
(* server down, each handled in a goroutine of its own.  runCommand is a   *)
(* goroutine too (runner), with a helper that forwards a cancellation to   *)
(* the child (watch).  The child reads its job from a file that the        *)
(* handlers write.                                                         *)
(*                                                                         *)
(* Abstractions.  An operation is known by the request that started it, a  *)
(* job by the form it was saved from and by its case.  The integrity       *)
(* summary of a case stands for its artifacts, counted by artifacts.  Log  *)
(* lines are left out, but for the one that says the summary could not be  *)
(* read.  What a command does is kept to loading its job, writing          *)
(* artifacts of the job's case and ending.                                 *)
(***************************************************************************)
EXTENDS Naturals, FiniteSets

CONSTANTS
  Requests,      \* 1..n: bound on the requests, in their order of arrival
  Forms,         \* bound: the ones that may carry a form
  Cases,         \* cases (with evidence id), numbered from 1
  Paths, JobPath, \* job files, and the one a form for a case is saved to
  Platforms,     \* of the examiner's machine
  MaxArtifacts   \* bound: artifact writes per case

ASSUME UiAssumption ==
  /\ Requests \subseteq Nat \ {0} /\ Forms \subseteq Requests /\ Cases \subseteq Nat \ {0}
  /\ JobPath \in [Cases -> Paths]
  /\ Platforms \subseteq {"windows", "unix"}
  /\ MaxArtifacts \in Nat

VARIABLES
  platform,
  \* The server process.
  server,        \* "off", "up", or "stopping" once the shutdown has begun
  signal,        \* the shutdown channel holds a message, or ctx is done
  request,       \* the handlers
  status,        \* s.status
  cancelFunc,    \* the operation s.cancel belongs to, 0 for nil
  cancelled,     \* operations whose context is cancelled
  runner,        \* runCommand and finishOperation
  watch,         \* its helper: "idle", or "timer" once the file is written
  \* Outside the server.
  child,         \* the command it started last
  orphans,       \* commands servers have left alone, also when they have ended
  jobFile,       \* the job files
  artifacts      \* writes to the artifacts of a case

operation  == <<status, cancelFunc, runner, watch>>
process    == <<server, signal>>
disk       == <<jobFile, artifacts>>
operations == <<platform, process, request, operation, cancelled, child, orphans, disk>>

-----------------------------------------------------------------------------
\* Values.

\* A job, and what a request asks for: verb and arguments of the command, the
\* job meant, and (history) whether another request has written its file since.
NoJob == [form |-> 0, case |-> 0]
NoTask == [verb |-> "none", case |-> 0, path |-> "none", job |-> NoJob, disturbed |-> FALSE]

\* A summary: how many artifacts it lists, and whether an error cut it short.
NoSummary == [listed |-> 0, error |-> FALSE]

NewRequest == [at |-> "new", task |-> NoTask, op |-> 0]
Done == [NewRequest EXCEPT !.at = "done"]
Ready == [running |-> FALSE, op |-> 0, task |-> NoTask, verdict |-> "none", integrity |-> NoSummary]
NoRunner == [at |-> "none", job |-> NoJob, verdict |-> "none", integrity |-> NoSummary]
NoChild == [op |-> 0, at |-> "none", verb |-> "none", path |-> "none", job |-> NoJob]

Running == status.running
Alive(c) == c.at \in {"start", "work"}
\* The command c when it has come to its end; only its operation matters then.
Over(c, end) == [NoChild EXCEPT !.op = c.op, !.at = end]
ArtifactsOf(c) == IF c = 0 THEN 0 ELSE artifacts[c]

\* loadUIIntegrity: all artifacts of the case, or the ones before one that
\* cannot be read (or is one too many).  An error that hides none is left out.
Readings(c) ==
  {[listed |-> ArtifactsOf(c), error |-> FALSE]} \cup
  {[listed |-> n, error |-> TRUE] : n \in (0..ArtifactsOf(c)) \ {ArtifactsOf(c)}}

OperationsInit ==
  /\ platform \in Platforms
  /\ server = "off" /\ signal = FALSE
  /\ request = [r \in Requests |-> NewRequest]
  /\ status = Ready /\ cancelFunc = 0 /\ cancelled = {}
  /\ runner = NoRunner /\ watch = "idle"
  /\ child = NoChild /\ orphans = {}
  /\ jobFile = [p \in Paths |-> NoJob]
  /\ artifacts = [c \in Cases |-> 0]

-----------------------------------------------------------------------------
\* Requests.

Serving == server \in {"up", "stopping"}

\* Request r comes in and its handler goes on as q.
Arrives(r, q) ==
  /\ server = "up"
  /\ request[r].at = "new" /\ \A s \in Requests : s < r => request[s].at # "new"
  /\ request' = [request EXCEPT ![r] = q]
  /\ UNCHANGED <<platform, process, operation, cancelled, child, orphans, disk>>

At(r, from) == Serving /\ request[r].at = from
GoesTo(r, q) == request' = [request EXCEPT ![r] = q]

\* A task whose job file p is written by another.
After(task, p) == [task EXCEPT !.disturbed = @ \/ task.path = p]

\* handleRun with a form, and saveJob up to caseHasArtifacts.
SubmitForm(r) ==
  r \in Forms /\ \E c \in Cases :
    Arrives(r, IF artifacts[c] # 0 THEN Done
               ELSE [NewRequest EXCEPT !.at = "save",
                       !.task = [NoTask EXCEPT !.verb = "acquire", !.case = c,
                                   !.path = JobPath[c], !.job = [form |-> r, case |-> c]]])

\* The job file of task is written, and the handler goes on as q.
Save(r, q) ==
  LET p == request[r].task.path
  IN /\ jobFile' = [jobFile EXCEPT ![p] = request[r].task.job]
     /\ request' = [s \in Requests |->
                      IF s = r THEN q ELSE [request[s] EXCEPT !.task = After(@, p)]]
     /\ status' = [status EXCEPT !.task = After(@, p)]

ToStart(r) == [request[r] EXCEPT !.at = "start", !.task.disturbed = FALSE]

\* Defect: a job file that exists is kept.
SaveJobOnce(r) ==
  /\ At(r, "save")
  /\ IF jobFile[request[r].task.path] = NoJob
       THEN Save(r, ToStart(r))
       ELSE GoesTo(r, ToStart(r)) /\ UNCHANGED <<jobFile, status>>
  /\ UNCHANGED <<platform, process, cancelFunc, runner, watch, cancelled, child, orphans,
                 artifacts>>

\* The rest of saveJob, which may fail; whether the operation may start is
\* asked afterwards.
SaveJob(r) ==
  /\ At(r, "save")
  /\ \/ Save(r, ToStart(r))
     \/ Save(r, Done)
     \/ GoesTo(r, Done) /\ UNCHANGED <<jobFile, status>>
  /\ UNCHANGED <<platform, process, cancelFunc, runner, watch, cancelled, child, orphans,
                 artifacts>>

\* handleRun with the path of a job file, which is read for the case directory
\* only; a file that cannot be read leaves it empty.
SubmitJob(r) ==
  \E p \in Paths :
    Arrives(r, [NewRequest EXCEPT !.at = "start",
                  !.task = [NoTask EXCEPT !.verb = "resume", !.case = jobFile[p].case,
                              !.path = p, !.job = jobFile[p]]])

\* handleRun for verify, of a case some job file names.
SubmitVerify(r) ==
  \E c \in {jobFile[p].case : p \in Paths} \ {0} :
    Arrives(r, [NewRequest EXCEPT !.at = "start",
                  !.task = [NoTask EXCEPT !.verb = "verify", !.case = c]])

BeginOperation(r) ==
  /\ cancelFunc' = r
  /\ status' = [Ready EXCEPT !.running = TRUE, !.op = r, !.task = request[r].task]
  /\ runner' = [NoRunner EXCEPT !.at = "prepare"]
  /\ watch' = "idle"

\* Defect: nobody asks whether an operation is running.
StartAnyway(r) ==
  /\ At(r, "start")
  /\ BeginOperation(r)
  /\ GoesTo(r, Done)
  /\ UNCHANGED <<platform, process, cancelled, child, orphans, disk>>

\* startOperation.
StartOperation(r) ==
  /\ At(r, "start")
  /\ \/ ~Running /\ BeginOperation(r)
     \/ Running /\ UNCHANGED operation
  /\ GoesTo(r, Done)
  /\ UNCHANGED <<platform, process, cancelled, child, orphans, disk>>

\* Defect: a function that is nil is taken and called.
SubmitAnyCancel(r) ==
  Arrives(r, [NewRequest EXCEPT !.at = "call", !.op = cancelFunc])

\* handleCancel takes the function under the lock ...
SubmitCancel(r) ==
  Arrives(r, IF Running /\ cancelFunc # 0 THEN [NewRequest EXCEPT !.at = "call", !.op = cancelFunc]
             ELSE Done)

\* Defect: it is read again outside the lock.
CallCurrent(r) ==
  /\ At(r, "call")
  /\ cancelled' = cancelled \cup ({cancelFunc} \ {0})
  /\ GoesTo(r, [request[r] EXCEPT !.at = "done"])
  /\ UNCHANGED <<platform, process, operation, child, orphans, disk>>

\* ... and calls it outside.
CallCancel(r) ==
  /\ At(r, "call")
  /\ cancelled' = cancelled \cup {request[r].op}
  /\ GoesTo(r, [request[r] EXCEPT !.at = "done"])
  /\ UNCHANGED <<platform, process, operation, child, orphans, disk>>

\* handleShutdown asks first and sends the message 150 ms later.
SubmitShutdown(r) ==
  Arrives(r, IF Running THEN Done ELSE [NewRequest EXCEPT !.at = "delay"])

SendShutdown(r) ==
  /\ At(r, "delay")
  /\ signal' = TRUE
  /\ GoesTo(r, Done)
  /\ UNCHANGED <<platform, server, operation, cancelled, child, orphans, disk>>

Handle ==
  \E r \in Requests :
    \/ SubmitForm(r) \/ SaveJob(r) \/ SubmitJob(r) \/ SubmitVerify(r) \/ StartOperation(r)
    \/ SubmitCancel(r) \/ CallCancel(r) \/ SubmitShutdown(r) \/ SendShutdown(r)

-----------------------------------------------------------------------------
\* runCommand.

RunnerAt(from) == Serving /\ runner.at = from
RunnerTo(to) == runner' = [runner EXCEPT !.at = to]

\* With a password the name of the variable that carries it goes into the job
\* file, which is read for that ...
ReadJob ==
  /\ RunnerAt("prepare")
  /\ \/ RunnerTo("spawn")
     \/ /\ status.task.path # "none" /\ jobFile[status.task.path] # NoJob
        /\ runner' = [runner EXCEPT !.at = "rewrite", !.job = jobFile[status.task.path]]
  /\ UNCHANGED <<platform, process, request, status, cancelFunc, watch, cancelled,
                 child, orphans, disk>>

\* ... and written again; a failure is ignored.
RewriteJob ==
  /\ RunnerAt("rewrite")
  /\ runner' = [runner EXCEPT !.at = "spawn", !.job = NoJob]
  /\ LET p == status.task.path
     IN \/ /\ jobFile' = [jobFile EXCEPT ![p] = runner.job]
           /\ request' = [s \in Requests |-> [request[s] EXCEPT !.task = After(@, p)]]
        \/ UNCHANGED <<jobFile, request>>
  /\ UNCHANGED <<platform, process, status, cancelFunc, watch, cancelled, child,
                 orphans, artifacts>>

\* The child is started, or it cannot be.
Spawn ==
  /\ RunnerAt("spawn")
  /\ \/ /\ child' = [NoChild EXCEPT !.op = status.op, !.at = "start",
                     !.verb = status.task.verb, !.path = status.task.path]
        /\ RunnerTo("wait")
     \/ /\ runner' = [runner EXCEPT !.at = "summary", !.verdict = "failure"]
        /\ UNCHANGED child
  /\ UNCHANGED <<platform, process, request, status, cancelFunc, watch, cancelled,
                 orphans, disk>>

\* Defect: only the context is asked how the command ended.
WaitForContext ==
  /\ RunnerAt("wait") /\ ~Alive(child)
  /\ runner' = [runner EXCEPT !.at = "summary",
                  !.verdict = IF status.op \in cancelled THEN "cancelled" ELSE "success"]
  /\ UNCHANGED <<platform, process, request, status, cancelFunc, watch, cancelled,
                 child, orphans, disk>>

\* cmd.Wait, to which the error of the context is joined.
WaitForChild ==
  /\ RunnerAt("wait") /\ ~Alive(child)
  /\ runner' = [runner EXCEPT !.at = "summary",
                  !.verdict = IF status.op \in cancelled THEN "cancelled"
                              ELSE IF child.at = "ok" THEN "success" ELSE "failure"]
  /\ UNCHANGED <<platform, process, request, status, cancelFunc, watch, cancelled,
                 child, orphans, disk>>

\* finishOperation: the summary is read without the lock, still running; an
\* error is kept with what was read.
ReadSummary ==
  /\ RunnerAt("summary")
  /\ \E reading \in Readings(status.task.case) :
       runner' = [runner EXCEPT !.at = "publish", !.integrity = reading]
  /\ UNCHANGED <<platform, process, request, status, cancelFunc, watch, cancelled,
                 child, orphans, disk>>

\* Defect: the summary of a finished operation is kept for the next.
PublishFirstSummary ==
  /\ RunnerAt("publish")
  /\ status' = [status EXCEPT !.running = FALSE, !.verdict = runner.verdict]
  /\ cancelFunc' = 0
  /\ runner' = NoRunner /\ watch' = "idle"
  /\ UNCHANGED <<platform, process, request, cancelled, child, orphans, disk>>

Publish ==
  /\ RunnerAt("publish")
  /\ status' = [status EXCEPT !.running = FALSE, !.verdict = runner.verdict,
                  !.task = [NoTask EXCEPT !.case = status.task.case],
                  !.integrity = runner.integrity]
  /\ cancelFunc' = 0
  /\ runner' = NoRunner /\ watch' = "idle"
  /\ UNCHANGED <<platform, process, request, cancelled, child, orphans, disk>>

Run == ReadJob \/ RewriteJob \/ Spawn \/ WaitForChild \/ ReadSummary \/ Publish

\* The helper.
Cancelling == RunnerAt("wait") /\ Alive(child) /\ status.op \in cancelled

Kill == child' = Over(child, "failed")

\* Defect: nobody looks after a child that has been asked to stop.
AskOnly ==
  /\ Cancelling /\ watch = "idle"
  /\ watch' = "asked"
  /\ UNCHANGED <<platform, process, request, status, cancelFunc, runner, cancelled,
                 child, orphans, disk>>

\* Windows: the cancellation file, which the child polls, and five minutes.
\* Elsewhere: SIGINT, which ends a child that has not installed its handler.
AskChild ==
  /\ Cancelling /\ watch = "idle"
  /\ \/ /\ watch' = IF platform = "windows" THEN "timer" ELSE "asked"
        /\ UNCHANGED child
     \/ platform = "windows" /\ Kill /\ watch' = "asked"
     \/ /\ platform = "unix" /\ child.at = "start"
        /\ Kill
        /\ watch' = "asked"
  /\ UNCHANGED <<platform, process, request, status, cancelFunc, runner, cancelled,
                 orphans, disk>>

KillChild ==
  /\ Cancelling /\ watch = "timer"
  /\ Kill
  /\ watch' = "asked"
  /\ UNCHANGED <<platform, process, request, status, cancelFunc, runner, cancelled,
                 orphans, disk>>

-----------------------------------------------------------------------------
\* The command, of this server or of one that is gone: where it may go next,
\* and the case it writes artifacts of meanwhile.
Moves(c) ==
  LET End(at) == [to |-> Over(c, at), writes |-> 0]
      Loaded == {[to |-> [c EXCEPT !.at = "work", !.job = job], writes |-> 0] :
                   job \in {jobFile[p] : p \in {c.path} \cap Paths} \ {NoJob}}
  IN CASE c.at = "start" ->
            {End("failed")} \cup
            IF c.verb = "verify" THEN {[to |-> [c EXCEPT !.at = "work"], writes |-> 0]} ELSE Loaded
       [] c.at = "work" ->
            {End("ok"), End("failed")} \cup
            {[to |-> c, writes |-> w] :
               w \in {d \in Cases : d = c.job.case /\ artifacts[d] < MaxArtifacts}}
       [] OTHER -> {}

Writes(case) ==
  artifacts' = IF case = 0 THEN artifacts ELSE [artifacts EXCEPT ![case] = @ + 1]

ChildStep ==
  /\ \E m \in Moves(child) : child' = m.to /\ Writes(m.writes)
  /\ UNCHANGED <<platform, process, request, operation, cancelled, orphans, jobFile>>

OrphanStep ==
  /\ \E c \in orphans : \E m \in Moves(c) :
       /\ orphans' = (orphans \ {c}) \cup {m.to}
       /\ Writes(m.writes)
  /\ UNCHANGED <<platform, process, request, operation, cancelled, child, jobFile>>

-----------------------------------------------------------------------------
\* The end of the server.

\* The window is closed, or the server gets SIGINT or SIGTERM.
CloseFromOutside ==
  /\ server = "up" /\ ~signal
  /\ signal' = TRUE
  /\ UNCHANGED <<platform, server, request, operation, cancelled, child, orphans, disk>>

\* The shutdown goroutine cancels the operation of the moment.
BeginStop ==
  /\ server = "up" /\ signal
  /\ server' = "stopping" /\ signal' = FALSE
  /\ cancelled' = cancelled \cup ({cancelFunc} \ {0})
  /\ UNCHANGED <<platform, request, operation, child, orphans, disk>>

\* Serve returns as soon as Shutdown is called, and main with it: handlers,
\* runner and helper end where they stand, and the child goes on alone.
Exit ==
  /\ server = "stopping"
  /\ server' = "off" /\ signal' = FALSE
  /\ orphans' = orphans \cup {c \in {child} : Alive(c)}
  /\ child' = NoChild
  /\ request' = [r \in Requests |-> IF request[r].at = "new" THEN NewRequest ELSE Done]
  /\ status' = Ready /\ cancelFunc' = 0 /\ cancelled' = {}
  /\ runner' = NoRunner /\ watch' = "idle"
  /\ UNCHANGED <<platform, disk>>

OperationsNext ==
  \/ Handle \/ Run \/ AskChild \/ KillChild
  \/ ChildStep \/ OrphanStep
  \/ CloseFromOutside \/ BeginStop \/ Exit

-----------------------------------------------------------------------------
\* Properties.

\* The values the variables take; no nil function is ever called.
OperationsTypeOK ==
  /\ server \in {"off", "up", "stopping"}
  /\ \A r \in Requests : request[r].at \in {"new", "save", "start", "call", "delay", "done"}
  /\ status.verdict \in {"none", "success", "cancelled", "failure"}
  /\ runner.at \in {"none", "prepare", "rewrite", "spawn", "wait", "summary", "publish"}
  /\ cancelled \subseteq Requests

\* A live command is the one the status shows as running, with a function to
\* cancel it, and before another is started it has ended.
NoChildUnattended ==
  /\ Alive(child) => Running /\ child.op = status.op /\ runner.at = "wait"
  /\ Serving => (Running <=> cancelFunc # 0)

\* Only an operation that was running when a cancel request looked is ever
\* cancelled, however late the request calls the function it took.
CancelHitsItsOwn ==
  server = "up" =>
    \A op \in cancelled : \E r \in Requests : request[r].op = op

\* The status says success only if the command it shows ended with exit code 0,
\* and cancelled only if it was cancelled.
VerdictIsTrue ==
  /\ status.verdict = "success" => child.op = status.op /\ child.at = "ok"
  /\ status.verdict = "cancelled" => status.op \in cancelled

\* The integrity summary shown with a verdict lists the artifacts of the case
\* as it is; one that lists fewer comes with the line that it could not be
\* read, and it never lists more.  Unless an earlier server has left a command
\* alone.
SummaryIsCurrent ==
  status.verdict # "none" /\ orphans = {}
    => LET all == ArtifactsOf(status.task.case)
       IN \/ status.integrity.listed = all
          \/ status.integrity.error /\ status.integrity.listed \in 0..all

\* The command works on the job its request was accepted for, unless another
\* request wrote the same job file in between.
RunsTheJobItAccepted ==
  child.job # NoJob /\ child.op = status.op /\ ~status.task.disturbed
    => child.job = status.task.job

\* An operation whose command has ended, or on Windows has been cancelled,
\* comes to its verdict, whatever the command does, unless the server ends.
StopIsBounded ==
  (Running
     /\ (runner.at \in {"summary", "publish"} \/ (runner.at = "wait" /\ ~Alive(child))
         \/ (platform = "windows" /\ status.op \in cancelled)))
    ~> (~Running \/ server # "up")

=============================================================================
