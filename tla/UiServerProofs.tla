--------------------------- MODULE UiServerProofs ---------------------------
(***************************************************************************)
(* Theorems about the user interface, for any number of processes, checks, *)
(* requests, cases, job files and keys.                                    *)
(*                                                                         *)
(* Trust.  Between the moment a check reads known_hosts and the moment it  *)
(* appends, nobody else may append: the check holds the lock, which is     *)
(* what Asked says of every check under way.  Of the key files, unless two *)
(* first starts overlapped, one process at most is on its way through      *)
(* ensureExaminerKey, and where it stands says which of the two exist.     *)
(***************************************************************************)
EXTENDS UiServer, FiniteSetTheorems, TLAPS

-----------------------------------------------------------------------------
(* Host keys. *)

CheckShape ==
  /\ DOMAIN check = Checks
  /\ \A c \in Checks : DOMAIN check[c] = {"at", "expected", "key", "entry"}

\* What a target check that is under way may rely on.
Asked(c) ==
  /\ check[c].at \in {"probe", "decide", "collect"} => lock = c
  /\ check[c].at \in {"probe", "decide"} /\ check[c].expected # 0
       => check[c].expected \in confirmed
  /\ check[c].at = "decide" /\ check[c].entry = "none" => known = {}

HostInv ==
  /\ CheckShape
  /\ \A c \in Checks : Asked(c)
  /\ known \subseteq confirmed
  /\ \A k, l \in known : k = l

LEMMA HostInit == Init => HostInv
  BY DEF Init, TrustInit, HostInv, CheckShape, Asked, NoCheck

\* The other checks under way: none, once c holds the lock.
LEMMA OthersIdle ==
  ASSUME HostInv, NEW c \in Checks, lock \in {0, c},
         NEW rec, DOMAIN rec = {"at", "expected", "key", "entry"}, CheckGoesTo(c, rec)
  PROVE  /\ CheckShape'
         /\ check'[c] = rec
         /\ \A d \in Checks \ {c} : /\ check'[d] = check[d]
                                   /\ check[d].at \notin {"probe", "decide", "collect"}
  BY TrustAssumption DEF HostInv, CheckShape, Asked, CheckGoesTo

LEMMA HostCheck ==
  ASSUME HostInv, NEW busy, TargetCheck(busy)
  PROVE  HostInv'
<1>. PICK c \in Checks :
       \/ BeginHostKey(c, busy) \/ ProbeHostKey(c) \/ AnswerHostKey(c) \/ TrustHostKey(c)
       \/ BeginInventory(c, busy) \/ EndInventory(c)
  BY DEF TargetCheck
<1>0. c # 0 /\ CheckShape
  BY TrustAssumption DEF HostInv
<1>. DEFINE Free(d) == check[d].at \notin {"probe", "decide", "collect"}
<1>d. DOMAIN [NoCheck EXCEPT !.at = "done"] = {"at", "expected", "key", "entry"}
      /\ [NoCheck EXCEPT !.at = "done"].at = "done"
  BY DEF NoCheck
<1>1. CASE BeginHostKey(c, busy)
  <2>1. PICK e \in HostKeys \cup {0} :
          /\ CheckGoesTo(c, [NoCheck EXCEPT !.at = "probe", !.expected = e])
          /\ confirmed' = confirmed \cup ({e} \ {0})
    BY <1>1 DEF BeginHostKey, Asks
  <2>. DEFINE rec == [NoCheck EXCEPT !.at = "probe", !.expected = e]
  <2>2. /\ DOMAIN rec = {"at", "expected", "key", "entry"}
        /\ rec.at = "probe" /\ rec.expected = e
    BY DEF NoCheck
  <2>3. lock = 0 /\ lock' = c /\ known' = known
    BY <1>1 DEF BeginHostKey, hosts
  <2>. HIDE DEF rec
  <2>4. /\ CheckShape' /\ check'[c] = rec
        /\ \A d \in Checks \ {c} : check'[d] = check[d] /\ Free(d)
    BY <2>1, <2>2, <2>3, OthersIdle DEF rec
  <2>5. ASSUME NEW d \in Checks PROVE Asked(d)'
    BY <2>1, <2>2, <2>3, <2>4 DEF Asked, HostInv
  <2>. QED
    BY <2>1, <2>3, <2>4, <2>5 DEF HostInv
<1>2. CASE ProbeHostKey(c)
  <2>1. /\ check[c].at = "probe" /\ lock = c
        /\ known' = known /\ confirmed' = confirmed
    BY <1>2 DEF ProbeHostKey, HostInv, Asked, hosts
  <2>2. CASE EndCheck(c)
    <3>1. /\ CheckShape' /\ check'[c].at = "done"
          /\ \A d \in Checks \ {c} : check'[d] = check[d] /\ Free(d)
      BY <2>1, <2>2, <1>d, OthersIdle DEF EndCheck
    <3>2. ASSUME NEW d \in Checks PROVE Asked(d)'
      BY <2>1, <3>1 DEF Asked
    <3>. QED
      BY <2>1, <3>1, <3>2 DEF HostInv
  <2>3. ASSUME NEW k \in HostKeys,
               CheckGoesTo(c, [check[c] EXCEPT !.at = "decide", !.key = k,
                                 !.entry = IF k \in known THEN "trusted"
                                           ELSE IF known = {} THEN "none" ELSE "changed"]),
               lock' = lock
        PROVE  HostInv'
    <3>. DEFINE rec == [check[c] EXCEPT !.at = "decide", !.key = k,
                          !.entry = IF k \in known THEN "trusted"
                                    ELSE IF known = {} THEN "none" ELSE "changed"]
    <3>1. /\ DOMAIN rec = {"at", "expected", "key", "entry"}
          /\ rec.at = "decide" /\ rec.expected = check[c].expected
          /\ rec.entry = "none" => known = {}
      BY <1>0 DEF CheckShape
    <3>2. CheckGoesTo(c, rec)
      BY <2>3
    <3>. HIDE DEF rec
    <3>3. /\ CheckShape' /\ check'[c] = rec
          /\ \A d \in Checks \ {c} : check'[d] = check[d] /\ Free(d)
      BY <2>1, <3>1, <3>2, OthersIdle
    <3>4. ASSUME NEW d \in Checks PROVE Asked(d)'
      BY <2>1, <2>3, <3>1, <3>3 DEF Asked, HostInv
    <3>. QED
      BY <2>1, <3>3, <3>4 DEF HostInv
  <2>. QED
    BY <1>2, <2>2, <2>3 DEF ProbeHostKey
<1>3. CASE AnswerHostKey(c) \/ EndInventory(c)
  <2>1. /\ EndCheck(c) /\ lock = c /\ known' = known /\ confirmed' = confirmed
    BY <1>3 DEF AnswerHostKey, EndInventory, HostInv, Asked, hosts
  <2>2. /\ CheckShape' /\ check'[c].at = "done"
        /\ \A d \in Checks \ {c} : check'[d] = check[d] /\ Free(d)
    BY <2>1, <1>d, OthersIdle DEF EndCheck
  <2>3. ASSUME NEW d \in Checks PROVE Asked(d)'
    BY <2>1, <2>2 DEF Asked
  <2>. QED
    BY <2>1, <2>2, <2>3 DEF HostInv
<1>4. CASE TrustHostKey(c)
  <2>1. /\ EndCheck(c) /\ lock = c /\ known = {} /\ confirmed' = confirmed
        /\ check[c].expected \in confirmed
    BY <1>4 DEF TrustHostKey, HostInv, Asked, Confirmed
  <2>2. known' \subseteq {check[c].expected}
    BY <1>4, <2>1 DEF TrustHostKey, hosts
  <2>3. /\ CheckShape' /\ check'[c].at = "done"
        /\ \A d \in Checks \ {c} : check'[d] = check[d] /\ Free(d)
    BY <2>1, <1>d, OthersIdle DEF EndCheck
  <2>4. ASSUME NEW d \in Checks PROVE Asked(d)'
    BY <2>1, <2>3 DEF Asked
  <2>. QED
    BY <2>1, <2>2, <2>3, <2>4 DEF HostInv
<1>5. CASE BeginInventory(c, busy)
  <2>1. /\ lock = 0 /\ lock' = c /\ known' = known /\ confirmed' = confirmed
        /\ CheckGoesTo(c, [NoCheck EXCEPT !.at = "collect"])
    BY <1>5 DEF BeginInventory, hosts
  <2>2. /\ DOMAIN [NoCheck EXCEPT !.at = "collect"] = {"at", "expected", "key", "entry"}
        /\ [NoCheck EXCEPT !.at = "collect"].at = "collect"
    BY DEF NoCheck
  <2>3. /\ CheckShape' /\ check'[c].at = "collect"
        /\ \A d \in Checks \ {c} : check'[d] = check[d] /\ Free(d)
    BY <2>1, <2>2, OthersIdle
  <2>4. ASSUME NEW d \in Checks PROVE Asked(d)'
    BY <2>1, <2>3 DEF Asked
  <2>. QED
    BY <2>1, <2>3, <2>4 DEF HostInv
<1>. QED
  BY <1>1, <1>2, <1>3, <1>4, <1>5

LEMMA HostStep == HostInv /\ [Next]_vars => HostInv'
<1>. SUFFICES ASSUME HostInv, [Next]_vars
              PROVE  HostInv'
  OBVIOUS
<1>1. CASE CheckTarget
  BY <1>1, HostCheck DEF CheckTarget
<1>2. CASE Stop
  BY <1>2, TrustAssumption DEF Stop, HostInv, CheckShape, Asked, NoCheck, hosts
<1>3. CASE UNCHANGED targets
  BY <1>3 DEF targets, hosts, HostInv, CheckShape, Asked
<1>4. Prepare \/ Listen \/ Operate => UNCHANGED targets
  BY DEF Prepare, Start, Launch, LookForKeys, RecoverPublic, WritePrivate, WritePublic,
         OpenKnownHosts, StartDies, Listen, Operate, targets, trust
<1>5. UNCHANGED vars => UNCHANGED targets
  BY DEF vars, trust
<1>. QED
  BY <1>1, <1>2, <1>3, <1>4, <1>5 DEF Next

\* The host keys the application adds for a target are at most one, and one the
\* examiner confirmed (ui_inventory.go, handleSSHHostKey).
THEOREM TrustedKeyConfirmed == Spec => []OneConfirmedKey
<1>1. HostInv => OneConfirmedKey
  <2>. SUFFICES ASSUME HostInv
                PROVE  Cardinality(known) <= 1
    BY DEF HostInv, OneConfirmedKey
  <2>1. CASE known = {}
    BY <2>1, FS_EmptySet
  <2>2. CASE known # {}
    <3>. PICK k \in known : known = {k}
      BY <2>2 DEF HostInv
    <3>. QED
      BY FS_Singleton
  <2>. QED
    BY <2>1, <2>2
<1>. QED
  BY HostInit, HostStep, <1>1, PTL DEF Spec

-----------------------------------------------------------------------------
(* The examiner's key pair. *)

\* What a process on its way relies on of the two files.
Underway(p) ==
  /\ start[p] = "private" => private = 0 /\ public = 0
  /\ start[p] = "public" => private = p /\ public = 0
  /\ start[p] = "recover" => private # 0 /\ public = 0
  /\ start[p] \in {"hosts", "listen", "serve"} => private = public /\ private # 0

PairInv ==
  /\ DOMAIN start = Processes
  /\ ~raced =>
       /\ \A p, q \in Processes : start[p] \in InKeys /\ start[q] \in InKeys => p = q
       /\ \A p \in Processes : Underway(p)
       /\ public # 0 => public = private

LEMMA PairInit == Init => PairInv
  BY DEF Init, TrustInit, PairInv, Underway, InKeys

LEMMA PairStart == PairInv /\ Start => PairInv'
<1>. SUFFICES ASSUME PairInv, NEW p \in Processes,
                     \/ Launch(p) \/ LookForKeys(p) \/ RecoverPublic(p) \/ WritePrivate(p)
                     \/ WritePublic(p) \/ OpenKnownHosts(p) \/ StartDies(p)
              PROVE  PairInv'
  BY DEF Start
<1>0. p # 0
  BY TrustAssumption
<1>. USE <1>0 DEF PairInv, Underway, InKeys, GoesOn, keyFiles
<1>1. CASE Launch(p)
  BY <1>1, Zenon DEF Launch
<1>2. CASE LookForKeys(p)
  BY <1>2 DEF LookForKeys
<1>3. CASE RecoverPublic(p)
  BY <1>3 DEF RecoverPublic
<1>4. CASE WritePrivate(p)
  BY <1>4 DEF WritePrivate
<1>5. CASE WritePublic(p)
  BY <1>5 DEF WritePublic
<1>6. CASE OpenKnownHosts(p)
  BY <1>6 DEF OpenKnownHosts
<1>7. CASE StartDies(p)
  BY <1>7 DEF StartDies
<1>. QED
  BY <1>1, <1>2, <1>3, <1>4, <1>5, <1>6, <1>7

LEMMA PairStep == PairInv /\ [Next]_vars => PairInv'
<1>. SUFFICES ASSUME PairInv, [Next]_vars
              PROVE  PairInv'
  OBVIOUS
<1>1. CASE Prepare
  BY <1>1, PairStart DEF Prepare
<1>2. CASE Listen
  BY <1>2 DEF Listen, GoesOn, PairInv, Underway, InKeys, keyFiles
<1>3. CASE Stop
  BY <1>3 DEF Stop, PairInv, Underway, InKeys, keyFiles
<1>4. CASE UNCHANGED starting
  BY <1>4 DEF starting, keyFiles, PairInv, Underway
<1>5. Operate \/ CheckTarget => UNCHANGED starting
  BY DEF Operate, trust, CheckTarget, TargetCheck, BeginHostKey, ProbeHostKey, AnswerHostKey,
         TrustHostKey, BeginInventory, EndInventory
<1>6. UNCHANGED vars => UNCHANGED starting
  BY DEF vars, trust
<1>. QED
  BY <1>1, <1>2, <1>3, <1>4, <1>5, <1>6 DEF Next

\* A process that comes to listen has a matching pair of keys, unless two first
\* starts overlapped (ui.go, ensureExaminerKey).
THEOREM KeyPairMatches == Spec => []PairMatches
<1>1. PairInv => PairMatches
  BY DEF PairInv, PairMatches, Underway
<1>. QED
  BY PairInit, PairStep, <1>1, PTL DEF Spec

-----------------------------------------------------------------------------
(* Operations.  The records keep their fields; an operation that runs has  *)
(* its runner, its cancel function and, while the runner waits, the one    *)
(* child that may be alive.                                                *)

Shape ==
  /\ DOMAIN request = Requests
  /\ \A r \in Requests : DOMAIN request[r] = {"at", "task", "op"}
  /\ DOMAIN status = {"running", "op", "task", "verdict", "integrity"}
  /\ DOMAIN runner = {"at", "job", "verdict", "integrity"}
  /\ DOMAIN child = {"op", "at", "verb", "path", "job"}

Attended ==
  /\ server \in {"off", "up", "stopping"}
  /\ Running <=> runner.at # "none"
  /\ Running <=> cancelFunc # 0
  /\ Running => cancelFunc = status.op
  /\ runner.at = "wait" => child.op = status.op
  /\ Alive(child) => runner.at = "wait"

\* What the runner will publish is true already.
Judged ==
  /\ runner.at \in {"none", "prepare", "rewrite", "spawn", "wait"} => runner.verdict = "none"
  /\ runner.verdict = "success" => child.op = status.op /\ child.at = "ok"
  /\ runner.verdict = "cancelled" => status.op \in cancelled
  /\ Running => status.verdict = "none"
  /\ VerdictIsTrue

\* Where a cancellation can come from while the server is up.
Asking ==
  /\ \A r \in Requests :
       /\ request[r].op # 0 => request[r].at \in {"call", "done"}
       /\ request[r].at = "call" => request[r].op \in Requests
  /\ cancelFunc \in Requests \cup {0}
  /\ cancelled \subseteq Requests
  /\ server = "off" => cancelled = {}
  /\ CancelHitsItsOwn

OpsInv == Shape /\ Attended /\ Judged /\ Asking

LEMMA OpsInit == Init => OpsInv
  BY DEF Init, OperationsInit, OpsInv, Shape, Attended, Judged, Asking, NewRequest, Ready,
         NoRunner, NoChild, Alive, Running, VerdictIsTrue, CancelHitsItsOwn

\* A handler goes on: what it may make of the requests.
Handler(r) ==
  /\ r \in Requests
  /\ DOMAIN request' = Requests
  /\ \A s \in Requests : DOMAIN request'[s] = {"at", "task", "op"}
  /\ \A s \in Requests \ {r} : request'[s].at = request[s].at /\ request'[s].op = request[s].op

LEMMA Replace ==
  ASSUME Shape, NEW r \in Requests, NEW q, DOMAIN q = {"at", "task", "op"},
         request' = [request EXCEPT ![r] = q]
  PROVE  Handler(r) /\ request'[r] = q
  BY DEF Shape, Handler

\* A handler that is not about cancelling.
LEMMA PlainHandler ==
  ASSUME OpsInv, NEW r \in Requests, Handler(r), request'[r].op = 0, request'[r].at # "call",
         request[r].at # "call",
         request[r].op = 0,
         UNCHANGED <<server, status.running, status.op, status.verdict, DOMAIN status,
                     cancelFunc, runner, cancelled, child>>
  PROVE  OpsInv'
<1>1. Shape'
  BY DEF OpsInv, Shape, Handler
<1>2. Attended'
  BY DEF OpsInv, Attended, Running, Alive
<1>3. Judged'
  BY DEF OpsInv, Judged, Running, VerdictIsTrue
<1>4. Asking'
  <2>1. CancelHitsItsOwn'
    <3>. SUFFICES ASSUME server' = "up", NEW op \in cancelled'
                  PROVE  \E s \in Requests : request'[s].op = op
      BY DEF CancelHitsItsOwn
    <3>. PICK s \in Requests : request[s].op = op
      BY DEF OpsInv, Asking, CancelHitsItsOwn
    <3>. CASE s = r
      BY DEF Handler
    <3>. CASE s # r
      BY DEF Handler
    <3>. QED
      OBVIOUS
  <2>. QED
    BY <2>1 DEF OpsInv, Asking, Handler
<1>. QED
  BY <1>1, <1>2, <1>3, <1>4 DEF OpsInv

Fields == {"at", "task", "op"}

LEMMA Forms0 ==
  /\ DOMAIN Done = Fields /\ Done.at = "done" /\ Done.op = 0
  /\ \A at, task : LET q == [NewRequest EXCEPT !.at = at, !.task = task]
                   IN DOMAIN q = Fields /\ q.at = at /\ q.op = 0
  /\ \A at, op : LET q == [NewRequest EXCEPT !.at = at, !.op = op]
                 IN DOMAIN q = Fields /\ q.at = at /\ q.op = op
  /\ LET q == [NewRequest EXCEPT !.at = "delay"]
     IN DOMAIN q = Fields /\ q.at = "delay" /\ q.op = 0
  BY DEF Fields, Done, NewRequest

LEMMA Arrival ==
  ASSUME OpsInv, NEW r \in Requests, NEW q, Arrives(r, q), DOMAIN q = Fields,
         q.op = 0, q.at # "call"
  PROVE  OpsInv'
<1>1. Handler(r) /\ request'[r] = q
  BY Replace DEF OpsInv, Arrives, Fields
<1>2. request[r].at # "call" /\ request[r].op = 0
  BY DEF Arrives, OpsInv, Asking
<1>3. UNCHANGED <<server, status.running, status.op, status.verdict, DOMAIN status,
                  cancelFunc, runner, cancelled, child>>
  BY DEF Arrives, process, operation
<1>. QED
  BY <1>1, <1>2, <1>3, PlainHandler

LEMMA StepSubmit ==
  ASSUME OpsInv, NEW r \in Requests,
         SubmitForm(r) \/ SubmitJob(r) \/ SubmitVerify(r) \/ SubmitShutdown(r)
  PROVE  OpsInv'
<1>1. CASE SubmitForm(r)
  <2>. PICK c \in Cases :
         Arrives(r, IF artifacts[c] # 0 THEN Done
                    ELSE [NewRequest EXCEPT !.at = "save",
                            !.task = [NoTask EXCEPT !.verb = "acquire", !.case = c,
                                        !.path = JobPath[c], !.job = [form |-> r, case |-> c]]])
    BY <1>1 DEF SubmitForm
  <2>. DEFINE task == [NoTask EXCEPT !.verb = "acquire", !.case = c,
                         !.path = JobPath[c], !.job = [form |-> r, case |-> c]]
  <2>1. CASE artifacts[c] # 0
    BY <2>1, Forms0, Arrival
  <2>2. CASE artifacts[c] = 0
    <3>. DEFINE q == [NewRequest EXCEPT !.at = "save", !.task = task]
    <3>1. Arrives(r, q)
      BY <2>2
    <3>2. DOMAIN q = Fields /\ q.op = 0 /\ q.at # "call"
      BY Forms0
    <3>. QED
      BY <3>1, <3>2, Arrival
  <2>. QED
    BY <2>1, <2>2
<1>2. CASE SubmitJob(r)
  <2>. PICK p \in Paths :
         Arrives(r, [NewRequest EXCEPT !.at = "start",
                       !.task = [NoTask EXCEPT !.verb = "resume", !.case = jobFile[p].case,
                                   !.path = p, !.job = jobFile[p]]])
    BY <1>2 DEF SubmitJob
  <2>. DEFINE q == [NewRequest EXCEPT !.at = "start",
                      !.task = [NoTask EXCEPT !.verb = "resume", !.case = jobFile[p].case,
                                  !.path = p, !.job = jobFile[p]]]
  <2>1. DOMAIN q = Fields /\ q.op = 0 /\ q.at # "call"
    BY Forms0
  <2>. QED
    BY <2>1, Arrival
<1>3. CASE SubmitVerify(r)
  <2>. PICK c \in {jobFile[p].case : p \in Paths} \ {0} :
         Arrives(r, [NewRequest EXCEPT !.at = "start",
                       !.task = [NoTask EXCEPT !.verb = "verify", !.case = c]])
    BY <1>3 DEF SubmitVerify
  <2>. DEFINE q == [NewRequest EXCEPT !.at = "start",
                      !.task = [NoTask EXCEPT !.verb = "verify", !.case = c]]
  <2>1. DOMAIN q = Fields /\ q.op = 0 /\ q.at # "call"
    BY Forms0
  <2>. QED
    BY <2>1, Arrival
<1>4. CASE SubmitShutdown(r)
  <2>1. CASE Running
    BY <1>4, <2>1, Forms0, Arrival DEF SubmitShutdown
  <2>2. CASE ~Running
    BY <1>4, <2>2, Forms0, Arrival DEF SubmitShutdown
  <2>. QED
    BY <2>1, <2>2
<1>. QED
  BY <1>1, <1>2, <1>3, <1>4

LEMMA StepSave ==
  ASSUME OpsInv, NEW r \in Requests, SaveJob(r)
  PROVE  OpsInv'
<1>0. request[r].at = "save" /\ request[r].op = 0
  BY DEF SaveJob, At, OpsInv, Asking
<1>1. ASSUME NEW q, DOMAIN q = Fields, q.op = 0, q.at # "call", Save(r, q)
      PROVE  OpsInv'
  <2>1. Handler(r) /\ request'[r] = q
    <3>. DEFINE p == request[r].task.path
    <3>1. request' = [s \in Requests |->
                        IF s = r THEN q ELSE [request[s] EXCEPT !.task = After(@, p)]]
      BY <1>1 DEF Save
    <3>. HIDE DEF p
    <3>. QED
      BY <1>1, <3>1 DEF Handler, Fields, OpsInv, Shape
  <2>2. UNCHANGED <<status.running, status.op, status.verdict, DOMAIN status>>
    <3>1. PICK task : status' = [status EXCEPT !.task = task]
      BY <1>1 DEF Save
    <3>. QED
      BY <3>1 DEF OpsInv, Shape
  <2>3. UNCHANGED <<server, cancelFunc, runner, cancelled, child>>
    BY DEF SaveJob, process
  <2>. QED
    BY <1>0, <1>1, <2>1, <2>2, <2>3, PlainHandler
<1>2. CASE Save(r, ToStart(r))
  <2>1. DOMAIN ToStart(r) = Fields /\ ToStart(r).op = 0 /\ ToStart(r).at # "call"
    BY <1>0 DEF ToStart, Fields, OpsInv, Shape
  <2>. QED
    BY <1>1, <1>2, <2>1
<1>3. CASE Save(r, Done)
  BY <1>1, <1>3, Forms0
<1>4. CASE GoesTo(r, Done) /\ UNCHANGED <<jobFile, status>>
  <2>1. Handler(r) /\ request'[r] = Done
    BY <1>4, Forms0, Replace DEF GoesTo, OpsInv, Fields
  <2>2. UNCHANGED <<server, status.running, status.op, status.verdict, DOMAIN status,
                    cancelFunc, runner, cancelled, child>>
    BY <1>4 DEF SaveJob, process
  <2>. QED
    BY <1>0, <2>1, <2>2, Forms0, PlainHandler
<1>. QED
  BY <1>2, <1>3, <1>4 DEF SaveJob

LEMMA StepStart ==
  ASSUME OpsInv, NEW r \in Requests, StartOperation(r)
  PROVE  OpsInv'
<1>0. request[r].at = "start" /\ request[r].op = 0 /\ r # 0
  BY UiAssumption DEF StartOperation, At, OpsInv, Asking
<1>1. Handler(r) /\ request'[r] = Done
  BY Forms0, Replace DEF StartOperation, GoesTo, OpsInv, Fields
<1>2. CASE UNCHANGED operation
  <2>1. UNCHANGED <<server, status.running, status.op, status.verdict, DOMAIN status,
                    cancelFunc, runner, cancelled, child>>
    BY <1>2 DEF StartOperation, process, operation
  <2>. QED
    BY <1>0, <1>1, <2>1, Forms0, PlainHandler
<1>3. CASE ~Running /\ BeginOperation(r)
  <2>1. /\ cancelFunc' = r
        /\ DOMAIN status' = {"running", "op", "task", "verdict", "integrity"}
        /\ status'.running /\ status'.op = r /\ status'.verdict = "none"
    BY <1>3 DEF BeginOperation, Ready
  <2>2. /\ DOMAIN runner' = {"at", "job", "verdict", "integrity"}
        /\ runner'.at = "prepare" /\ runner'.verdict = "none"
    BY <1>3 DEF BeginOperation, NoRunner
  <2>3. UNCHANGED <<server, cancelled, child>>
    BY DEF StartOperation, process
  <2>4. Shape'
    BY <1>1, <2>1, <2>2, <2>3 DEF OpsInv, Shape, Handler
  <2>5. ~Alive(child)
    BY <1>3 DEF OpsInv, Attended
  <2>6. Attended'
    BY <1>0, <2>1, <2>2, <2>3, <2>5 DEF OpsInv, Attended, Running, Alive
  <2>7. Judged'
    BY <2>1, <2>2, <2>3 DEF OpsInv, Judged, Running, VerdictIsTrue
  <2>8. Asking'
    BY <1>0, <1>1, <2>1, <2>3, Forms0 DEF OpsInv, Asking, Handler, CancelHitsItsOwn
  <2>. QED
    BY <2>4, <2>6, <2>7, <2>8 DEF OpsInv
<1>. QED
  BY <1>2, <1>3 DEF StartOperation

LEMMA StepCancel ==
  ASSUME OpsInv, NEW r \in Requests, SubmitCancel(r) \/ CallCancel(r) \/ SendShutdown(r)
  PROVE  OpsInv'
<1>1. CASE SubmitCancel(r)
  <2>1. CASE ~(Running /\ cancelFunc # 0)
    BY <1>1, <2>1, Forms0, Arrival DEF SubmitCancel
  <2>2. CASE Running /\ cancelFunc # 0
    <3>. DEFINE q == [NewRequest EXCEPT !.at = "call", !.op = cancelFunc]
    <3>1. DOMAIN q = Fields /\ q.at = "call" /\ q.op = cancelFunc
      BY Forms0
    <3>2. Arrives(r, q)
      BY <1>1, <2>2 DEF SubmitCancel
    <3>. HIDE DEF q
    <3>3. Handler(r) /\ request'[r] = q
      BY <3>1, <3>2, Replace DEF OpsInv, Arrives, Fields
    <3>4. request[r].at = "new" /\ request[r].op = 0
      BY <3>2 DEF Arrives, OpsInv, Asking
    <3>5. UNCHANGED <<server, status, cancelFunc, runner, cancelled, child>>
      BY <3>2 DEF Arrives, process, operation
    <3>6. Shape'
      BY <3>3, <3>5 DEF OpsInv, Shape, Handler
    <3>7. Attended' /\ Judged'
      BY <3>5 DEF OpsInv, Attended, Judged, Running, Alive, VerdictIsTrue
    <3>8. 0 \notin cancelled
      BY UiAssumption DEF OpsInv, Asking
    <3>9. Asking'
      BY <2>2, <3>1, <3>3, <3>4, <3>5, <3>8
      DEF OpsInv, Asking, Handler, CancelHitsItsOwn
    <3>. QED
      BY <3>6, <3>7, <3>9 DEF OpsInv
  <2>. QED
    BY <2>1, <2>2
<1>2. CASE CallCancel(r)
  <2>0. request[r].at = "call" /\ request[r].op \in Requests /\ server # "off"
    BY <1>2 DEF CallCancel, At, Serving, OpsInv, Asking
  <2>. DEFINE q == [request[r] EXCEPT !.at = "done"]
  <2>1. DOMAIN q = Fields /\ q.at = "done" /\ q.op = request[r].op
    BY DEF OpsInv, Shape, Fields
  <2>2. request' = [request EXCEPT ![r] = q]
    BY <1>2 DEF CallCancel, GoesTo
  <2>. HIDE DEF q
  <2>3. Handler(r) /\ request'[r] = q
    BY <2>1, <2>2, Replace DEF OpsInv, Fields
  <2>4. /\ cancelled' = cancelled \cup {request[r].op}
        /\ UNCHANGED <<server, status, cancelFunc, runner, child>>
    BY <1>2 DEF CallCancel, process, operation
  <2>5. Shape' /\ Attended'
    BY <2>3, <2>4 DEF OpsInv, Shape, Handler, Attended, Running, Alive
  <2>6. Judged'
    BY <2>4 DEF OpsInv, Judged, Running, VerdictIsTrue
  <2>7. CancelHitsItsOwn'
    BY <2>1, <2>3, <2>4 DEF OpsInv, Asking, Handler, CancelHitsItsOwn
  <2>8. Asking'
    BY <2>0, <2>1, <2>3, <2>4, <2>7 DEF OpsInv, Asking, Handler
  <2>. QED
    BY <2>5, <2>6, <2>8 DEF OpsInv
<1>3. CASE SendShutdown(r)
  <2>1. Handler(r) /\ request'[r] = Done
    BY <1>3, Forms0, Replace DEF SendShutdown, GoesTo, OpsInv, Fields
  <2>2. request[r].at # "call" /\ request[r].op = 0
    BY <1>3 DEF SendShutdown, At, OpsInv, Asking
  <2>3. UNCHANGED <<server, status.running, status.op, status.verdict, DOMAIN status,
                    cancelFunc, runner, cancelled, child>>
    BY <1>3 DEF SendShutdown, operation
  <2>. QED
    BY <2>1, <2>2, <2>3, Forms0, PlainHandler
<1>. QED
  BY <1>1, <1>2, <1>3

\* A step that leaves the requests as they are, but for job files written.
Undisturbed ==
  /\ DOMAIN request' = Requests
  /\ \A s \in Requests : /\ DOMAIN request'[s] = {"at", "task", "op"}
                         /\ request'[s].at = request[s].at
                         /\ request'[s].op = request[s].op

LEMMA AskingKept ==
  ASSUME OpsInv, Undisturbed, UNCHANGED <<server, cancelFunc, cancelled>>
  PROVE  Asking'
<1>1. CancelHitsItsOwn'
  BY DEF OpsInv, Asking, CancelHitsItsOwn, Undisturbed
<1>. QED
  BY <1>1 DEF OpsInv, Asking, Undisturbed

LEMMA SameRequests ==
  ASSUME OpsInv, UNCHANGED request
  PROVE  Undisturbed
  BY DEF OpsInv, Shape, Undisturbed

RunnerFields == {"at", "job", "verdict", "integrity"}

\* The runner goes on; the operation, its child and its verdict stay.
LEMMA RunnerMoves ==
  ASSUME OpsInv, Undisturbed, UNCHANGED <<server, cancelFunc, cancelled, status, child>>,
         runner.at # "none", runner'.at \notin {"none", "prepare", "wait"}, ~Alive(child),
         DOMAIN runner' = RunnerFields,
         \/ runner'.verdict = runner.verdict
         \/ runner'.verdict = "failure" /\ runner'.at = "summary"
         \/ /\ runner'.verdict = "success" => child.op = status.op /\ child.at = "ok"
            /\ runner'.verdict = "cancelled" => status.op \in cancelled
            /\ runner'.at = "summary",
         runner'.at \in {"rewrite", "spawn"}
           => runner.at \in {"prepare", "rewrite"} /\ runner'.verdict = runner.verdict
  PROVE  OpsInv'
<1>1. Shape'
  BY DEF OpsInv, Shape, Undisturbed, RunnerFields
<1>2. Attended'
  BY DEF OpsInv, Attended, Running, Alive
<1>3. Judged'
  BY DEF OpsInv, Judged, Running, VerdictIsTrue
<1>. QED
  BY <1>1, <1>2, <1>3, AskingKept DEF OpsInv

LEMMA StepRun ==
  ASSUME OpsInv, Run
  PROVE  OpsInv'
<1>0. DOMAIN runner = RunnerFields /\ DOMAIN child = {"op", "at", "verb", "path", "job"}
  BY DEF OpsInv, Shape, RunnerFields
<1>1. CASE ReadJob
  <2>1. /\ UNCHANGED <<server, cancelFunc, cancelled, status, child, request>>
        /\ runner.at = "prepare"
    BY <1>1 DEF ReadJob, RunnerAt, process
  <2>2. /\ DOMAIN runner' = RunnerFields /\ runner'.verdict = runner.verdict
        /\ runner'.at \in {"spawn", "rewrite"}
    BY <1>0, <1>1 DEF ReadJob, RunnerTo, RunnerFields
  <2>3. ~Alive(child)
    BY <2>1 DEF OpsInv, Attended
  <2>. QED
    BY <2>1, <2>2, <2>3, SameRequests, RunnerMoves
<1>2. CASE RewriteJob
  <2>1. /\ UNCHANGED <<server, cancelFunc, cancelled, status, child>>
        /\ runner.at = "rewrite"
    BY <1>2 DEF RewriteJob, RunnerAt, process
  <2>2. /\ DOMAIN runner' = RunnerFields /\ runner'.verdict = runner.verdict
        /\ runner'.at = "spawn"
    BY <1>0, <1>2 DEF RewriteJob, RunnerFields
  <2>3. ~Alive(child)
    BY <2>1 DEF OpsInv, Attended
  <2>4. Undisturbed
    <3>1. CASE UNCHANGED request
      BY <3>1, SameRequests
    <3>2. CASE request' = [s \in Requests |->
                              [request[s] EXCEPT !.task = After(@, status.task.path)]]
      BY <3>2 DEF OpsInv, Shape, Undisturbed
    <3>. QED
      BY <1>2, <3>1, <3>2 DEF RewriteJob
  <2>. QED
    BY <2>1, <2>2, <2>3, <2>4, RunnerMoves
<1>3. CASE Spawn
  <2>1. /\ UNCHANGED <<server, cancelFunc, cancelled, status, request>>
        /\ runner.at = "spawn"
    BY <1>3 DEF Spawn, RunnerAt, process
  <2>2. ~Alive(child) /\ Running /\ runner.verdict = "none" /\ status.verdict = "none"
    BY <2>1 DEF OpsInv, Attended, Judged
  <2>3. CASE UNCHANGED child
    <3>1. runner' = [runner EXCEPT !.at = "summary", !.verdict = "failure"]
      <4>. SUFFICES ASSUME child' = [NoChild EXCEPT !.op = status.op, !.at = "start",
                       !.verb = status.task.verb, !.path = status.task.path]
                    PROVE FALSE
        BY <1>3 DEF Spawn
      <4>. child'.at = "start"
        BY DEF NoChild
      <4>. QED
        BY <2>2, <2>3 DEF Alive
    <3>2. DOMAIN runner' = RunnerFields /\ runner'.verdict = "failure" /\ runner'.at = "summary"
      BY <1>0, <3>1 DEF RunnerFields
    <3>. QED
      BY <2>1, <2>2, <2>3, <3>2, SameRequests, RunnerMoves
  <2>4. CASE /\ child' = [NoChild EXCEPT !.op = status.op, !.at = "start",
                            !.verb = status.task.verb, !.path = status.task.path]
             /\ RunnerTo("wait")
    <3>1. /\ DOMAIN child' = {"op", "at", "verb", "path", "job"}
          /\ child'.op = status.op /\ child'.at = "start"
      BY <2>4 DEF NoChild
    <3>2. DOMAIN runner' = RunnerFields /\ runner'.verdict = "none" /\ runner'.at = "wait"
      BY <1>0, <2>2, <2>4 DEF RunnerTo, RunnerFields
    <3>3. Shape'
      BY <2>1, <3>1, <3>2, SameRequests DEF OpsInv, Shape, Undisturbed, RunnerFields
    <3>4. Attended'
      BY <2>1, <2>2, <3>1, <3>2 DEF OpsInv, Attended, Running, Alive
    <3>5. Judged'
      BY <2>1, <2>2, <3>1, <3>2 DEF OpsInv, Judged, Running, VerdictIsTrue
    <3>. QED
      BY <2>1, <3>3, <3>4, <3>5, SameRequests, AskingKept DEF OpsInv
  <2>. QED
    BY <1>3, <2>3, <2>4 DEF Spawn
<1>4. CASE WaitForChild
  <2>1. /\ UNCHANGED <<server, cancelFunc, cancelled, status, child, request>>
        /\ runner.at = "wait" /\ ~Alive(child)
    BY <1>4 DEF WaitForChild, RunnerAt, process
  <2>. DEFINE verdict == IF status.op \in cancelled THEN "cancelled"
                         ELSE IF child.at = "ok" THEN "success" ELSE "failure"
  <2>2. DOMAIN runner' = RunnerFields /\ runner'.verdict = verdict /\ runner'.at = "summary"
    BY <1>0, <1>4 DEF WaitForChild, RunnerFields
  <2>3. verdict = "success" => child.op = status.op /\ child.at = "ok"
    BY <2>1 DEF OpsInv, Attended
  <2>. QED
    BY <2>1, <2>2, <2>3, SameRequests, RunnerMoves
<1>5. CASE ReadSummary
  <2>1. /\ UNCHANGED <<server, cancelFunc, cancelled, status, child, request>>
        /\ runner.at = "summary"
    BY <1>5 DEF ReadSummary, RunnerAt, process
  <2>2. DOMAIN runner' = RunnerFields /\ runner'.verdict = runner.verdict /\ runner'.at = "publish"
    BY <1>0, <1>5 DEF ReadSummary, RunnerFields
  <2>3. ~Alive(child)
    BY <2>1 DEF OpsInv, Attended
  <2>. QED
    BY <2>1, <2>2, <2>3, SameRequests, RunnerMoves
<1>6. CASE Publish
  <2>1. /\ UNCHANGED <<server, cancelled, child, request>>
        /\ runner.at = "publish" /\ cancelFunc' = 0
    BY <1>6 DEF Publish, RunnerAt, process
  <2>2. /\ DOMAIN status' = {"running", "op", "task", "verdict", "integrity"}
        /\ ~status'.running /\ status'.op = status.op /\ status'.verdict = runner.verdict
    <3>1. PICK task : status' = [status EXCEPT !.running = FALSE, !.verdict = runner.verdict,
                                   !.task = task, !.integrity = runner.integrity]
      BY <1>6 DEF Publish
    <3>. QED
      BY <3>1 DEF OpsInv, Shape
  <2>3. DOMAIN runner' = RunnerFields /\ runner'.at = "none" /\ runner'.verdict = "none"
    BY <1>6 DEF Publish, NoRunner, RunnerFields
  <2>4. Shape'
    BY <2>1, <2>2, <2>3 DEF OpsInv, Shape, RunnerFields
  <2>5. Attended'
    BY <2>1, <2>2, <2>3 DEF OpsInv, Attended, Running, Alive
  <2>6. Judged'
    BY <2>1, <2>2, <2>3 DEF OpsInv, Judged, Running, VerdictIsTrue
  <2>7. Asking'
    BY <2>1 DEF OpsInv, Asking, CancelHitsItsOwn
  <2>. QED
    BY <2>4, <2>5, <2>6, <2>7 DEF OpsInv
<1>. QED
  BY <1>1, <1>2, <1>3, <1>4, <1>5, <1>6 DEF Run

-----------------------------------------------------------------------------
(* The child, and the end of the server. *)

LEMMA OverIs ==
  ASSUME NEW c, NEW end
  PROVE  /\ DOMAIN Over(c, end) = {"op", "at", "verb", "path", "job"}
         /\ Over(c, end).op = c.op /\ Over(c, end).at = end /\ Over(c, end).job = NoJob
BY DEF Over, NoChild

\* Whatever the child does, it does not come back to life and keeps its operation.
LEMMA MovesOn ==
  ASSUME OpsInv, NEW m \in Moves(child)
  PROVE  /\ Alive(child)
         /\ DOMAIN m.to = {"op", "at", "verb", "path", "job"}
         /\ m.to.op = child.op
<1>1. DOMAIN child = {"op", "at", "verb", "path", "job"}
  BY DEF OpsInv, Shape
<1>2. Alive(child)
  BY DEF Moves, Alive
<1>3. CASE child.at = "start"
  <2>1. m \in {[to |-> Over(child, "failed"), writes |-> 0],
               [to |-> [child EXCEPT !.at = "work"], writes |-> 0]}
          \cup {[to |-> [child EXCEPT !.at = "work", !.job = job], writes |-> 0] :
                  job \in {jobFile[p] : p \in {child.path} \cap Paths} \ {NoJob}}
    BY <1>3 DEF Moves
  <2>2. CASE m = [to |-> Over(child, "failed"), writes |-> 0]
    BY <1>1, <1>2, <2>2, OverIs
  <2>3. CASE m = [to |-> [child EXCEPT !.at = "work"], writes |-> 0]
    BY <1>1, <1>2, <2>3
  <2>4. ASSUME NEW job, m = [to |-> [child EXCEPT !.at = "work", !.job = job], writes |-> 0]
        PROVE  DOMAIN m.to = DOMAIN child /\ m.to.op = child.op
    BY <1>1, <2>4
  <2>. QED
    BY <1>1, <1>2, <2>1, <2>2, <2>3, <2>4
<1>4. CASE child.at = "work"
  <2>1. m \in {[to |-> Over(child, "ok"), writes |-> 0],
               [to |-> Over(child, "failed"), writes |-> 0]}
          \cup {[to |-> child, writes |-> w] :
                  w \in {d \in Cases : d = child.job.case /\ artifacts[d] < MaxArtifacts}}
    BY <1>4 DEF Moves
  <2>2. CASE m = [to |-> Over(child, "ok"), writes |-> 0]
    BY <1>1, <1>2, <2>2, OverIs
  <2>3. CASE m = [to |-> Over(child, "failed"), writes |-> 0]
    BY <1>1, <1>2, <2>3, OverIs
  <2>4. ASSUME NEW w, m = [to |-> child, writes |-> w]
        PROVE  m.to = child
    BY <2>4
  <2>. QED
    BY <1>1, <1>2, <2>1, <2>2, <2>3, <2>4
<1>. QED
  BY <1>2, <1>3, <1>4 DEF Alive

\* The child of the running operation changes.
LEMMA ChildChanges ==
  ASSUME OpsInv, Alive(child), child'.op = child.op,
         DOMAIN child' = {"op", "at", "verb", "path", "job"},
         UNCHANGED <<server, request, status, cancelFunc, cancelled, runner>>
  PROVE  OpsInv'
<1>1. Running /\ status.verdict = "none" /\ runner.at = "wait" /\ runner.verdict = "none"
  BY DEF OpsInv, Attended, Judged
<1>2. Shape'
  BY DEF OpsInv, Shape
<1>3. Attended'
  BY <1>1 DEF OpsInv, Attended, Running, Alive
<1>4. Judged'
  BY <1>1 DEF OpsInv, Judged, Running, VerdictIsTrue
<1>5. Asking'
  BY DEF OpsInv, Asking, CancelHitsItsOwn
<1>. QED
  BY <1>2, <1>3, <1>4, <1>5 DEF OpsInv

LEMMA StepChild ==
  ASSUME OpsInv, ChildStep \/ AskChild \/ KillChild
  PROVE  OpsInv'
<1>1. CASE ChildStep
  <2>1. PICK m \in Moves(child) : child' = m.to
    BY <1>1 DEF ChildStep
  <2>2. UNCHANGED <<server, request, status, cancelFunc, cancelled, runner>>
    BY <1>1 DEF ChildStep, process, operation
  <2>. QED
    BY <2>1, <2>2, MovesOn, ChildChanges
<1>2. ASSUME Cancelling, Kill, UNCHANGED <<server, request, status, cancelFunc, cancelled, runner>>
      PROVE  OpsInv'
  <2>1. Alive(child)
    BY <1>2 DEF Cancelling
  <2>2. child'.op = child.op /\ DOMAIN child' = {"op", "at", "verb", "path", "job"}
    BY <1>2, OverIs DEF Kill
  <2>. QED
    BY <1>2, <2>1, <2>2, ChildChanges
<1>3. ASSUME UNCHANGED <<server, request, status, cancelFunc, cancelled, runner, child>>
      PROVE  OpsInv'
  BY <1>3 DEF OpsInv, Shape, Attended, Judged, Asking, Running, Alive, VerdictIsTrue,
              CancelHitsItsOwn
<1>4. CASE AskChild
  <2>1. Cancelling /\ UNCHANGED <<server, request, status, cancelFunc, cancelled, runner>>
    BY <1>4 DEF AskChild, process
  <2>2. Kill \/ UNCHANGED child
    BY <1>4 DEF AskChild
  <2>. QED
    BY <1>2, <1>3, <2>1, <2>2
<1>5. CASE KillChild
  BY <1>2, <1>5 DEF KillChild, process
<1>. QED
  BY <1>1, <1>4, <1>5

LEMMA StepServer ==
  ASSUME OpsInv, OrphanStep \/ CloseFromOutside \/ BeginStop \/ Exit
                   \/ (Listen /\ UNCHANGED <<request, operation, cancelled, child>>)
  PROVE  OpsInv'
<1>1. CASE OrphanStep \/ CloseFromOutside
  <2>1. UNCHANGED <<server, request, status, cancelFunc, cancelled, runner, child>>
    BY <1>1 DEF OrphanStep, CloseFromOutside, process, operation
  <2>. QED
    BY <2>1 DEF OpsInv, Shape, Attended, Judged, Asking, Running, Alive, VerdictIsTrue,
                CancelHitsItsOwn
<1>2. CASE BeginStop
  <2>1. /\ server' = "stopping" /\ cancelled' = cancelled \cup ({cancelFunc} \ {0})
        /\ UNCHANGED <<request, status, cancelFunc, runner, child>>
    BY <1>2 DEF BeginStop, operation
  <2>. QED
    BY <2>1 DEF OpsInv, Shape, Attended, Judged, Asking, Running, Alive, VerdictIsTrue,
                CancelHitsItsOwn
<1>3. CASE Exit
  <2>1. Shape'
    BY <1>3 DEF Exit, Shape, Done, NewRequest, Ready, NoRunner, NoChild
  <2>2. Attended'
    BY <1>3 DEF Exit, Attended, Running, Alive, Ready, NoRunner, NoChild
  <2>3. Judged'
    BY <1>3 DEF Exit, Judged, VerdictIsTrue, Running, Ready, NoRunner
  <2>4. Asking'
    BY <1>3 DEF Exit, Asking, CancelHitsItsOwn, Done, NewRequest
  <2>. QED
    BY <2>1, <2>2, <2>3, <2>4 DEF OpsInv
<1>4. CASE Listen /\ UNCHANGED <<request, operation, cancelled, child>>
  <2>1. /\ server' = server \/ (server = "off" /\ server' = "up")
        /\ UNCHANGED <<request, status, cancelFunc, cancelled, runner, child>>
    BY <1>4 DEF Listen, operation
  <2>. QED
    BY <2>1 DEF OpsInv, Shape, Attended, Judged, Asking, Running, Alive, VerdictIsTrue,
                CancelHitsItsOwn
<1>. QED
  BY <1>1, <1>2, <1>3, <1>4

LEMMA OpsStep == OpsInv /\ [Next]_vars => OpsInv'
<1>. SUFFICES ASSUME OpsInv, [Next]_vars
              PROVE  OpsInv'
  OBVIOUS
<1>1. CASE Operate
  <2>1. CASE Handle
    <3>. PICK r \in Requests :
           \/ SubmitForm(r) \/ SaveJob(r) \/ SubmitJob(r) \/ SubmitVerify(r)
           \/ StartOperation(r) \/ SubmitCancel(r) \/ CallCancel(r) \/ SubmitShutdown(r)
           \/ SendShutdown(r)
      BY <2>1 DEF Handle
    <3>. QED
      BY StepSubmit, StepSave, StepStart, StepCancel
  <2>2. CASE Run
    BY <2>2, StepRun
  <2>3. CASE AskChild \/ KillChild \/ ChildStep
    BY <2>3, StepChild
  <2>4. CASE OrphanStep \/ CloseFromOutside \/ BeginStop
    BY <2>4, StepServer
  <2>. QED
    BY <1>1, <2>1, <2>2, <2>3, <2>4 DEF Operate
<1>2. CASE Listen
  BY <1>2, StepServer DEF Listen
<1>3. CASE Stop
  BY <1>3, StepServer DEF Stop
<1>4. CASE UNCHANGED operations
  BY <1>4 DEF operations, process, operation, OpsInv, Shape, Attended, Judged, Asking,
              Running, Alive, VerdictIsTrue, CancelHitsItsOwn
<1>5. Prepare \/ CheckTarget \/ UNCHANGED vars => UNCHANGED operations
  BY DEF Prepare, CheckTarget, vars
<1>. QED
  BY <1>1, <1>2, <1>3, <1>4, <1>5 DEF Next

\* No command runs unattended: a live child belongs to the operation the status
\* shows as running, and that can be cancelled (ui.go, startOperation, runCommand,
\* finishOperation).
THEOREM ChildAttended == Spec => []NoChildUnattended
<1>1. OpsInv => NoChildUnattended
  BY DEF OpsInv, Attended, NoChildUnattended
<1>. QED
  BY OpsInit, OpsStep, <1>1, PTL DEF Spec

\* A cancel request only ever cancels the operation it found running, however
\* late it calls the function it took (ui.go, handleCancel).
THEOREM CancelFindsItsOwn == Spec => []CancelHitsItsOwn
<1>1. OpsInv => CancelHitsItsOwn
  BY DEF OpsInv, Asking
<1>. QED
  BY OpsInit, OpsStep, <1>1, PTL DEF Spec

\* The verdict shown is how the command ended (ui.go, runCommand, finishOperation).
THEOREM VerdictTrue == Spec => []VerdictIsTrue
<1>1. OpsInv => VerdictIsTrue
  BY DEF OpsInv, Judged
<1>. QED
  BY OpsInit, OpsStep, <1>1, PTL DEF Spec

-----------------------------------------------------------------------------
(* Types.  Of each handler and of the runner only the place it has come    *)
(* to is needed beside the invariants above: a key that is known has been  *)
(* confirmed, and what is cancelled has been requested.                    *)

Places == {"new", "save", "start", "call", "delay", "done"}

RequestsTyped == \A r \in Requests : request[r].at \in Places

RunnerTyped ==
  /\ runner.at \in {"none", "prepare", "rewrite", "spawn", "wait", "summary", "publish"}
  /\ runner.verdict \in {"none", "success", "cancelled", "failure"}
  /\ status.verdict \in {"none", "success", "cancelled", "failure"}

LEMMA RequestReplaced ==
  ASSUME OpsInv, RequestsTyped, NEW r \in Requests, NEW q, q.at \in Places,
         request' = [request EXCEPT ![r] = q]
  PROVE  RequestsTyped'
  BY DEF OpsInv, Shape, RequestsTyped

LEMMA HandleTyped ==
  ASSUME OpsInv, RequestsTyped, Handle
  PROVE  RequestsTyped'
<1>. PICK r \in Requests :
       \/ SubmitForm(r) \/ SaveJob(r) \/ SubmitJob(r) \/ SubmitVerify(r) \/ StartOperation(r)
       \/ SubmitCancel(r) \/ CallCancel(r) \/ SubmitShutdown(r) \/ SendShutdown(r)
  BY DEF Handle
<1>0. Done.at \in Places
  BY Forms0 DEF Places
<1>1. ASSUME NEW at \in Places, NEW task,
             request' = [request EXCEPT ![r] = [NewRequest EXCEPT !.at = at, !.task = task]]
      PROVE  RequestsTyped'
  <2>. DEFINE q == [NewRequest EXCEPT !.at = at, !.task = task]
  <2>1. q.at \in Places
    BY Forms0
  <2>. HIDE DEF q
  <2>. QED
    BY <1>1, <2>1, RequestReplaced DEF q
<1>2. CASE request' = [request EXCEPT ![r] = Done]
  BY <1>0, <1>2, RequestReplaced
<1>3. CASE SubmitForm(r)
  <2>. PICK c \in Cases :
         Arrives(r, IF artifacts[c] # 0 THEN Done
                    ELSE [NewRequest EXCEPT !.at = "save",
                            !.task = [NoTask EXCEPT !.verb = "acquire", !.case = c,
                                        !.path = JobPath[c], !.job = [form |-> r, case |-> c]]])
    BY <1>3 DEF SubmitForm
  <2>1. CASE artifacts[c] # 0
    BY <1>2, <2>1 DEF Arrives
  <2>2. CASE artifacts[c] = 0
    BY <1>1, <2>2 DEF Arrives, Places
  <2>. QED
    BY <2>1, <2>2
<1>4. CASE SaveJob(r)
  <2>1. request[r].at = "save"
    BY <1>4 DEF SaveJob, At
  <2>2. ToStart(r).at \in Places
    BY DEF ToStart, Places, OpsInv, Shape
  <2>3. ASSUME NEW q, q.at \in Places, Save(r, q)
        PROVE  RequestsTyped'
    <3>. DEFINE p == request[r].task.path
    <3>1. request' = [s \in Requests |->
                        IF s = r THEN q ELSE [request[s] EXCEPT !.task = After(@, p)]]
      BY <2>3 DEF Save
    <3>. HIDE DEF p
    <3>. QED
      BY <2>3, <3>1 DEF RequestsTyped, OpsInv, Shape
  <2>4. CASE GoesTo(r, Done)
    BY <1>2, <2>4 DEF GoesTo
  <2>. QED
    BY <1>0, <1>4, <2>2, <2>3, <2>4 DEF SaveJob
<1>5. CASE SubmitJob(r)
  BY <1>1, <1>5 DEF SubmitJob, Arrives, Places
<1>6. CASE SubmitVerify(r)
  BY <1>1, <1>6 DEF SubmitVerify, Arrives, Places
<1>7. CASE StartOperation(r) \/ SendShutdown(r)
  BY <1>2, <1>7 DEF StartOperation, SendShutdown, GoesTo
<1>8. CASE SubmitCancel(r)
  <2>. DEFINE q == [NewRequest EXCEPT !.at = "call", !.op = cancelFunc]
  <2>1. q.at \in Places
    BY Forms0 DEF Places
  <2>2. request' = [request EXCEPT ![r] = q] \/ request' = [request EXCEPT ![r] = Done]
    BY <1>8 DEF SubmitCancel, Arrives
  <2>. HIDE DEF q
  <2>. QED
    BY <1>2, <2>1, <2>2, RequestReplaced
<1>9. CASE CallCancel(r)
  <2>. DEFINE q == [request[r] EXCEPT !.at = "done"]
  <2>1. q.at \in Places
    BY DEF Places, OpsInv, Shape
  <2>2. request' = [request EXCEPT ![r] = q]
    BY <1>9 DEF CallCancel, GoesTo
  <2>. HIDE DEF q
  <2>. QED
    BY <2>1, <2>2, RequestReplaced
<1>10. CASE SubmitShutdown(r)
  <2>. DEFINE q == [NewRequest EXCEPT !.at = "delay"]
  <2>1. q.at \in Places
    BY Forms0 DEF Places
  <2>2. request' = [request EXCEPT ![r] = q] \/ request' = [request EXCEPT ![r] = Done]
    BY <1>10 DEF SubmitShutdown, Arrives
  <2>. HIDE DEF q
  <2>. QED
    BY <1>2, <2>1, <2>2, RequestReplaced
<1>. QED
  BY <1>3, <1>4, <1>5, <1>6, <1>7, <1>8, <1>9, <1>10

LEMMA RunTyped ==
  ASSUME OpsInv, RequestsTyped, RunnerTyped, Run
  PROVE  RequestsTyped' /\ RunnerTyped'
<1>0. DOMAIN runner = RunnerFields
  BY DEF OpsInv, Shape, RunnerFields
<1>1. CASE ReadJob \/ Spawn \/ WaitForChild \/ ReadSummary
  <2>1. UNCHANGED <<request, status>>
    BY <1>1 DEF ReadJob, Spawn, WaitForChild, ReadSummary
  <2>2. CASE ReadJob
    BY <1>0, <2>1, <2>2 DEF ReadJob, RunnerTo, RunnerFields, RunnerTyped, RequestsTyped
  <2>3. CASE Spawn
    BY <1>0, <2>1, <2>3 DEF Spawn, RunnerTo, RunnerFields, RunnerTyped, RequestsTyped
  <2>4. CASE WaitForChild
    BY <1>0, <2>1, <2>4 DEF WaitForChild, RunnerFields, RunnerTyped, RequestsTyped
  <2>5. CASE ReadSummary
    BY <1>0, <2>1, <2>5 DEF ReadSummary, RunnerFields, RunnerTyped, RequestsTyped
  <2>. QED
    BY <1>1, <2>2, <2>3, <2>4, <2>5
<1>2. CASE RewriteJob
  <2>1. RunnerTyped'
    BY <1>0, <1>2 DEF RewriteJob, RunnerFields, RunnerTyped
  <2>2. CASE UNCHANGED request
    BY <2>1, <2>2 DEF RequestsTyped
  <2>3. CASE request' = [s \in Requests |->
                           [request[s] EXCEPT !.task = After(@, status.task.path)]]
    BY <2>1, <2>3 DEF RequestsTyped, OpsInv, Shape
  <2>. QED
    BY <1>2, <2>1, <2>2, <2>3 DEF RewriteJob
<1>3. CASE Publish
  <2>1. UNCHANGED request /\ runner' = NoRunner
    BY <1>3 DEF Publish
  <2>2. status'.verdict = runner.verdict
    <3>1. PICK task : status' = [status EXCEPT !.running = FALSE, !.verdict = runner.verdict,
                                   !.task = task, !.integrity = runner.integrity]
      BY <1>3 DEF Publish
    <3>. QED
      BY <3>1 DEF OpsInv, Shape
  <2>. QED
    BY <2>1, <2>2 DEF RunnerTyped, RequestsTyped, NoRunner
<1>. QED
  BY <1>1, <1>2, <1>3 DEF Run

TrustTyped ==
  /\ private \in Processes \cup {0} /\ public \in Processes \cup {0}
  /\ confirmed \subseteq HostKeys
  /\ lock \in Checks \cup {0}

TypeInv == OpsInv /\ HostInv /\ RequestsTyped /\ RunnerTyped /\ TrustTyped

LEMMA OperationsTyped ==
  ASSUME OpsInv, RequestsTyped, RunnerTyped, [Next]_vars
  PROVE  RequestsTyped' /\ RunnerTyped'
<1>1. CASE Handle
  <2>1. CASE UNCHANGED <<status.verdict, runner>>
    BY <1>1, <2>1, HandleTyped DEF RunnerTyped
  <2>2. ~UNCHANGED <<status.verdict, runner>> => RunnerTyped'
    <3>. PICK r \in Requests :
           \/ SubmitForm(r) \/ SaveJob(r) \/ SubmitJob(r) \/ SubmitVerify(r)
           \/ StartOperation(r) \/ SubmitCancel(r) \/ CallCancel(r) \/ SubmitShutdown(r)
           \/ SendShutdown(r)
      BY <1>1 DEF Handle
    <3>1. CASE StartOperation(r)
      BY <3>1 DEF StartOperation, BeginOperation, Ready, NoRunner, operation, RunnerTyped
    <3>2. CASE SaveJob(r)
      <4>1. status' = status \/ \E task : status' = [status EXCEPT !.task = task]
        BY <3>2, SMTT(30) DEF SaveJob, Save
      <4>. QED
        BY <3>2, <4>1 DEF SaveJob, OpsInv, Shape, RunnerTyped
    <3>3. \/ SubmitForm(r) \/ SubmitJob(r) \/ SubmitVerify(r) \/ SubmitCancel(r)
          \/ CallCancel(r) \/ SubmitShutdown(r) \/ SendShutdown(r)
          => UNCHANGED <<status, runner>>
      BY DEF SubmitForm, SubmitJob, SubmitVerify, SubmitCancel, CallCancel, SubmitShutdown,
             SendShutdown, Arrives, operation
    <3>. QED
      BY <3>1, <3>2, <3>3 DEF RunnerTyped
  <2>. QED
    BY <1>1, <2>1, <2>2, HandleTyped
<1>2. CASE Run
  BY <1>2, RunTyped
<1>3. CASE Stop
  BY <1>3 DEF Stop, Exit, Ready, NoRunner, NewRequest, Done, RequestsTyped, RunnerTyped, Places
<1>4. CASE UNCHANGED <<request, status, runner>>
  BY <1>4 DEF RequestsTyped, RunnerTyped
<1>5. AskChild \/ KillChild \/ ChildStep \/ OrphanStep \/ CloseFromOutside \/ BeginStop
        => UNCHANGED <<request, status, runner>>
  BY DEF AskChild, KillChild, ChildStep, OrphanStep, CloseFromOutside, BeginStop, operation
<1>6. Prepare \/ Listen \/ CheckTarget \/ UNCHANGED vars => UNCHANGED <<request, status, runner>>
  BY DEF Prepare, Listen, CheckTarget, vars, operations, operation
<1>. QED
  BY <1>1, <1>2, <1>3, <1>4, <1>5, <1>6 DEF Next, Operate

LEMMA TrustStep ==
  ASSUME TrustTyped, [Next]_vars
  PROVE  TrustTyped'
<1>1. CASE Prepare
  <2>. PICK p \in Processes :
         \/ Launch(p) \/ LookForKeys(p) \/ RecoverPublic(p) \/ WritePrivate(p)
         \/ WritePublic(p) \/ OpenKnownHosts(p) \/ StartDies(p)
    BY <1>1 DEF Prepare, Start
  <2>. QED
    BY DEF Launch, LookForKeys, RecoverPublic, WritePrivate, WritePublic, OpenKnownHosts,
           StartDies, keyFiles, targets, TrustTyped
<1>2. CASE CheckTarget
  <2>. PICK c \in Checks :
         \/ BeginHostKey(c, Running) \/ ProbeHostKey(c) \/ AnswerHostKey(c) \/ TrustHostKey(c)
         \/ BeginInventory(c, Running) \/ EndInventory(c)
    BY <1>2 DEF CheckTarget, TargetCheck
  <2>. QED
    BY DEF BeginHostKey, ProbeHostKey, AnswerHostKey, TrustHostKey, BeginInventory,
           EndInventory, EndCheck, Asks, starting, keyFiles, TrustTyped
<1>3. CASE Stop
  BY <1>3 DEF Stop, keyFiles, TrustTyped
<1>4. CASE UNCHANGED <<private, public, confirmed, lock>>
  BY <1>4 DEF TrustTyped
<1>5. Listen \/ Operate \/ UNCHANGED vars => UNCHANGED <<private, public, confirmed, lock>>
  BY DEF Listen, Operate, vars, trust, starting, keyFiles, targets
<1>. QED
  BY <1>1, <1>2, <1>3, <1>4, <1>5 DEF Next

\* Type correctness: among others, no function that is nil is ever called by
\* handleCancel or by the shutdown (ui.go), and every known host key is a key.
THEOREM UiTypeCorrect == Spec => []TypeOK
<1>1. Init => TypeInv
  <2>1. Init => RequestsTyped /\ RunnerTyped /\ TrustTyped
    BY DEF Init, OperationsInit, TrustInit, RequestsTyped, RunnerTyped, TrustTyped, NewRequest,
           NoRunner, Ready, Places
  <2>. QED
    BY <2>1, OpsInit, HostInit DEF TypeInv
<1>2. TypeInv /\ [Next]_vars => TypeInv'
  BY OpsStep, HostStep, OperationsTyped, TrustStep DEF TypeInv
<1>3. TypeInv => TypeOK
  BY DEF TypeInv, OpsInv, Attended, Asking, HostInv, RequestsTyped, RunnerTyped, TrustTyped,
         TypeOK, OperationsTypeOK, TrustTypeOK, Places
<1>. QED
  BY <1>1, <1>2, <1>3, PTL DEF Spec

-----------------------------------------------------------------------------
(* The job.  From the moment a request may start (or, of a form, has       *)
(* written its file) until the command loads it, the file holds the job    *)
(* meant, or another request has written to the same file since: this is   *)
(* what Fresh says of the tasks of handlers and of the status.             *)

TaskFields == {"verb", "case", "path", "job", "disturbed"}

Tasks ==
  /\ DOMAIN jobFile = Paths
  /\ DOMAIN status.task = TaskFields
  /\ \A r \in Requests : DOMAIN request[r].task = TaskFields

\* The task's file, among files, holds its job.
Holds(files, task) ==
  /\ task.verb = "verify" => task.path = "none"
  /\ task.verb # "verify" /\ ~task.disturbed
       => task.path \in Paths /\ files[task.path] = task.job

Fresh(task) == Holds(jobFile, task)

Accepted(r) ==
  /\ request[r].at = "save" => request[r].task.path \in Paths /\ request[r].task.verb = "acquire"
  /\ request[r].at = "start" => Fresh(request[r].task)

Loading ==
  /\ Running => Fresh(status.task)
  /\ runner.at = "rewrite" =>
       /\ status.task.verb # "verify"
       /\ ~status.task.disturbed => runner.job = jobFile[status.task.path]
  /\ runner.at = "wait" /\ Alive(child)
       => child.verb = status.task.verb /\ child.path = status.task.path
  /\ child.at # "work" => child.job = NoJob
  /\ RunsTheJobItAccepted

JobInv ==
  /\ Tasks
  /\ \A r \in Requests : Accepted(r)
  /\ Loading

LEMMA NoTaskShape ==
  /\ DOMAIN NoTask = TaskFields /\ NoTask.verb = "none"
  /\ \A verb, case : LET t == [NoTask EXCEPT !.verb = verb, !.case = case]
       IN DOMAIN t = TaskFields /\ t.verb = verb /\ t.path = "none" /\ t.case = case
  /\ \A case : LET t == [NoTask EXCEPT !.case = case]
       IN DOMAIN t = TaskFields /\ t.case = case
  /\ \A verb, case, path, job :
       LET t == [NoTask EXCEPT !.verb = verb, !.case = case, !.path = path, !.job = job]
       IN DOMAIN t = TaskFields /\ t.verb = verb /\ t.path = path /\ t.job = job
  BY DEF NoTask, TaskFields

LEMMA JobInit == Init => JobInv
<1>. SUFFICES ASSUME Init PROVE JobInv
  OBVIOUS
<1>1. request = [r \in Requests |-> NewRequest] /\ status = Ready /\ runner = NoRunner
        /\ child = NoChild /\ jobFile = [p \in Paths |-> NoJob]
  BY DEF Init, OperationsInit
<1>2. NewRequest.at = "new" /\ NewRequest.task = NoTask
  BY DEF NewRequest
<1>3. Ready.task = NoTask /\ ~Ready.running /\ NoRunner.at = "none"
  BY DEF Ready, NoRunner
<1>4. NoChild.at = "none" /\ NoChild.job = NoJob
  BY DEF NoChild
<1>. QED
  BY <1>1, <1>2, <1>3, <1>4, NoTaskShape
  DEF JobInv, Tasks, Accepted, Loading, Running, RunsTheJobItAccepted

LEMMA AfterTask ==
  ASSUME NEW t, DOMAIN t = TaskFields, NEW p
  PROVE  /\ DOMAIN After(t, p) = TaskFields
         /\ After(t, p).verb = t.verb /\ After(t, p).case = t.case
         /\ After(t, p).path = t.path /\ After(t, p).job = t.job
         /\ t.path = p => After(t, p).disturbed
         /\ t.path # p => (After(t, p).disturbed <=> t.disturbed)
         /\ t.disturbed => After(t, p).disturbed
  BY DEF After, TaskFields

\* A task whose file another writes is disturbed; the others stay fresh.
LEMMA FreshAfter ==
  ASSUME NEW files, DOMAIN files = Paths, NEW t, DOMAIN t = TaskFields, Holds(files, t),
         NEW p, NEW job
  PROVE  Holds([files EXCEPT ![p] = job], After(t, p))
  BY AfterTask DEF Holds

LEMMA Forms1 ==
  /\ Done.task = NoTask
  /\ \A at, task : [NewRequest EXCEPT !.at = at, !.task = task].task = task
  /\ \A at, op : [NewRequest EXCEPT !.at = at, !.op = op].task = NoTask
  /\ [NewRequest EXCEPT !.at = "delay"].task = NoTask
  BY DEF Done, NewRequest

\* What a request may become: r goes on as it is asked, the others keep place and
\* task, or find their job file written by another.
LEMMA OthersFresh ==
  ASSUME OpsInv, JobInv, NEW s \in Requests, NEW p, NEW job,
         request'[s] = [request[s] EXCEPT !.task = After(@, p)],
         jobFile' = [jobFile EXCEPT ![p] = job]
  PROVE  Accepted(s)' /\ DOMAIN request'[s].task = TaskFields
<1>1. DOMAIN request[s] = Fields /\ DOMAIN request[s].task = TaskFields
  BY DEF OpsInv, Shape, JobInv, Tasks, Fields
<1>2. request'[s].at = request[s].at /\ request'[s].task = After(request[s].task, p)
  BY <1>1 DEF Fields
<1>. DEFINE t == request[s].task
<1>3. DOMAIN After(t, p) = TaskFields /\ After(t, p).verb = t.verb /\ After(t, p).path = t.path
  BY <1>1, AfterTask
<1>4. CASE request[s].at = "start"
  <2>1. Fresh(t)
    BY <1>4 DEF JobInv, Accepted
  <2>2. Holds(jobFile', After(t, p))
    <3>. HIDE DEF t
    <3>. QED
      BY <1>1, <2>1, FreshAfter DEF t, Fresh, JobInv, Tasks
  <2>. QED
    BY <1>2, <1>3, <1>4, <2>2 DEF Accepted, Fresh
<1>. QED
  BY <1>2, <1>3, <1>4 DEF JobInv, Accepted

\* Handler r goes on as q, and nothing else changes that a task depends on.
LEMMA GoingOn ==
  ASSUME OpsInv, JobInv, NEW r \in Requests, NEW q, DOMAIN q.task = TaskFields,
         request' = [request EXCEPT ![r] = q],
         q.at = "save" => q.task.path \in Paths /\ q.task.verb = "acquire",
         q.at = "start" => Fresh(q.task),
         UNCHANGED <<status, runner, child, jobFile>>
  PROVE  JobInv'
<1>1. request'[r] = q /\ DOMAIN request' = Requests
        /\ \A s \in Requests \ {r} : request'[s] = request[s]
  BY DEF OpsInv, Shape
<1>2. Tasks'
  BY <1>1 DEF JobInv, Tasks
<1>3. Accepted(r)'
  BY <1>1 DEF Accepted, Fresh, Holds
<1>4. ASSUME NEW s \in Requests \ {r} PROVE Accepted(s)'
  BY <1>1 DEF JobInv, Accepted, Fresh, Holds
<1>5. Loading'
  BY DEF JobInv, Loading, Fresh, Holds, Running, RunsTheJobItAccepted
<1>. QED
  BY <1>2, <1>3, <1>4, <1>5 DEF JobInv

LEMMA JobArrives ==
  ASSUME OpsInv, JobInv, NEW r \in Requests,
         SubmitForm(r) \/ SubmitJob(r) \/ SubmitVerify(r) \/ SubmitShutdown(r) \/ SubmitCancel(r)
  PROVE  JobInv'
<1>0. ASSUME NEW q, Arrives(r, q), DOMAIN q.task = TaskFields,
             q.at = "save" => q.task.path \in Paths /\ q.task.verb = "acquire",
             q.at = "start" => Fresh(q.task)
      PROVE  JobInv'
  <2>1. request' = [request EXCEPT ![r] = q] /\ UNCHANGED <<status, runner, child, jobFile>>
    BY <1>0 DEF Arrives, operation, disk
  <2>. QED
    BY <1>0, <2>1, GoingOn
<1>a. Done.at = "done" /\ Done.task = NoTask /\ DOMAIN NoTask = TaskFields
  BY Forms0, Forms1, NoTaskShape
<1>b. Arrives(r, Done) => JobInv'
  BY <1>0, <1>a
<1>1. CASE SubmitForm(r)
  <2>. PICK c \in Cases :
         Arrives(r, IF artifacts[c] # 0 THEN Done
                    ELSE [NewRequest EXCEPT !.at = "save",
                            !.task = [NoTask EXCEPT !.verb = "acquire", !.case = c,
                                        !.path = JobPath[c], !.job = [form |-> r, case |-> c]]])
    BY <1>1 DEF SubmitForm
  <2>. DEFINE task == [NoTask EXCEPT !.verb = "acquire", !.case = c,
                         !.path = JobPath[c], !.job = [form |-> r, case |-> c]]
              q == [NewRequest EXCEPT !.at = "save", !.task = task]
  <2>1. CASE artifacts[c] # 0
    BY <2>1, <1>b
  <2>2. CASE artifacts[c] = 0
    <3>1. Arrives(r, q)
      BY <2>2
    <3>2. q.at = "save" /\ q.task = task
      BY Forms0, Forms1
    <3>3. DOMAIN task = TaskFields /\ task.verb = "acquire" /\ task.path \in Paths
      BY NoTaskShape, UiAssumption
    <3>. HIDE DEF q, task
    <3>. QED
      BY <1>0, <3>1, <3>2, <3>3
  <2>. QED
    BY <2>1, <2>2
<1>2. CASE SubmitJob(r)
  <2>. PICK p \in Paths :
         Arrives(r, [NewRequest EXCEPT !.at = "start",
                       !.task = [NoTask EXCEPT !.verb = "resume", !.case = jobFile[p].case,
                                   !.path = p, !.job = jobFile[p]]])
    BY <1>2 DEF SubmitJob
  <2>. DEFINE task == [NoTask EXCEPT !.verb = "resume", !.case = jobFile[p].case,
                         !.path = p, !.job = jobFile[p]]
              q == [NewRequest EXCEPT !.at = "start", !.task = task]
  <2>1. q.at = "start" /\ q.task = task
    BY Forms0, Forms1
  <2>2. DOMAIN task = TaskFields /\ task.verb = "resume" /\ task.path = p /\ task.job = jobFile[p]
    BY NoTaskShape
  <2>3. Arrives(r, q)
    OBVIOUS
  <2>. HIDE DEF q, task
  <2>. QED
    BY <1>0, <2>1, <2>2, <2>3 DEF Fresh, Holds
<1>3. CASE SubmitVerify(r)
  <2>. PICK c \in {jobFile[p].case : p \in Paths} \ {0} :
         Arrives(r, [NewRequest EXCEPT !.at = "start",
                       !.task = [NoTask EXCEPT !.verb = "verify", !.case = c]])
    BY <1>3 DEF SubmitVerify
  <2>. DEFINE task == [NoTask EXCEPT !.verb = "verify", !.case = c]
              q == [NewRequest EXCEPT !.at = "start", !.task = task]
  <2>1. q.at = "start" /\ q.task = task
    BY Forms0, Forms1
  <2>2. DOMAIN task = TaskFields /\ task.verb = "verify" /\ task.path = "none"
    BY NoTaskShape
  <2>3. Arrives(r, q)
    OBVIOUS
  <2>. HIDE DEF q, task
  <2>. QED
    BY <1>0, <2>1, <2>2, <2>3 DEF Fresh, Holds
<1>4. CASE SubmitShutdown(r)
  <2>. DEFINE q == [NewRequest EXCEPT !.at = "delay"]
  <2>1. q.at = "delay" /\ q.task = NoTask
    BY Forms0, Forms1
  <2>2. Arrives(r, Done) \/ Arrives(r, q)
    BY <1>4 DEF SubmitShutdown
  <2>. HIDE DEF q
  <2>. QED
    BY <1>0, <1>a, <1>b, <2>1, <2>2
<1>5. CASE SubmitCancel(r)
  <2>. DEFINE q == [NewRequest EXCEPT !.at = "call", !.op = cancelFunc]
  <2>1. q.at = "call" /\ q.task = NoTask
    BY Forms0, Forms1
  <2>2. Arrives(r, Done) \/ Arrives(r, q)
    BY <1>5 DEF SubmitCancel
  <2>. HIDE DEF q
  <2>. QED
    BY <1>0, <1>a, <1>b, <2>1, <2>2
<1>. QED
  BY <1>1, <1>2, <1>3, <1>4, <1>5

\* What the status may be told of a job file that another writes.
LEMMA StatusAfter ==
  ASSUME OpsInv, JobInv, NEW p, NEW job, jobFile' = [jobFile EXCEPT ![p] = job],
         status' = [status EXCEPT !.task = After(@, p)], UNCHANGED <<runner, child>>
  PROVE  Loading' /\ DOMAIN status'.task = TaskFields
<1>1. DOMAIN status = {"running", "op", "task", "verdict", "integrity"}
        /\ DOMAIN status.task = TaskFields
  BY DEF OpsInv, Shape, JobInv, Tasks
<1>2. status'.task = After(status.task, p) /\ status'.running = status.running
        /\ status'.op = status.op
  BY <1>1
<1>3. /\ DOMAIN status'.task = TaskFields
      /\ status'.task.verb = status.task.verb /\ status'.task.path = status.task.path
      /\ status'.task.job = status.task.job
      /\ ~status'.task.disturbed => ~status.task.disturbed /\ status.task.path # p
  BY <1>1, <1>2, AfterTask
<1>4. Running => Fresh(status.task)'
  <2>. SUFFICES ASSUME Running PROVE Fresh(status.task)'
    OBVIOUS
  <2>1. Fresh(status.task) /\ Tasks
    BY DEF JobInv, Loading
  <2>2. Holds(jobFile', After(status.task, p))
    BY <1>1, <2>1, FreshAfter DEF Fresh, Tasks
  <2>. QED
    BY <1>2, <2>2 DEF Fresh
<1>5. runner.at = "rewrite" /\ ~status'.task.disturbed => runner.job = jobFile'[status'.task.path]
  <2>. SUFFICES ASSUME runner.at = "rewrite", ~status'.task.disturbed
                PROVE  runner.job = jobFile'[status'.task.path]
    OBVIOUS
  <2>1. Running
    BY DEF OpsInv, Attended
  <2>2. status.task.verb # "verify" /\ runner.job = jobFile[status.task.path]
    BY <1>3 DEF JobInv, Loading
  <2>3. status.task.path \in Paths
    BY <1>3, <2>1, <2>2 DEF JobInv, Loading, Fresh, Holds
  <2>. QED
    BY <1>3, <2>2, <2>3 DEF JobInv, Tasks
<1>. QED
  BY <1>2, <1>3, <1>4, <1>5 DEF JobInv, Loading, Running, RunsTheJobItAccepted

LEMMA JobSave ==
  ASSUME OpsInv, JobInv, NEW r \in Requests, SaveJob(r)
  PROVE  JobInv'
<1>. DEFINE p == request[r].task.path
            u == ToStart(r)
<1>0. /\ request[r].at = "save" /\ p \in Paths /\ request[r].task.verb = "acquire"
      /\ UNCHANGED <<runner, child>>
  BY DEF SaveJob, At, JobInv, Accepted
<1>a. DOMAIN request[r] = Fields /\ DOMAIN request[r].task = TaskFields
  BY DEF OpsInv, Shape, JobInv, Tasks, Fields
<1>b. /\ u.at = "start" /\ DOMAIN u.task = TaskFields /\ u.task.verb = "acquire"
      /\ u.task.path = p /\ u.task.job = request[r].task.job
  BY <1>0, <1>a DEF ToStart, Fields, TaskFields
<1>. HIDE DEF u
<1>1. ASSUME NEW q, DOMAIN q.task = TaskFields, q.at \notin {"save"}, Save(r, q),
             q.at = "start" => /\ q.task.verb = "acquire" /\ q.task.path = p
                               /\ q.task.job = request[r].task.job
      PROVE  JobInv'
  <2>1. /\ jobFile' = [jobFile EXCEPT ![p] = request[r].task.job]
        /\ request' = [s \in Requests |->
                         IF s = r THEN q ELSE [request[s] EXCEPT !.task = After(@, p)]]
        /\ status' = [status EXCEPT !.task = After(@, p)]
    BY <1>1 DEF Save
  <2>2. DOMAIN jobFile' = Paths /\ jobFile'[p] = request[r].task.job
    BY <1>0, <2>1 DEF JobInv, Tasks
  <2>. HIDE DEF p
  <2>3. Accepted(r)' /\ request'[r] = q
    BY <1>0, <1>1, <2>1, <2>2 DEF Accepted, Fresh, Holds
  <2>4. ASSUME NEW s \in Requests, s # r
        PROVE  Accepted(s)' /\ DOMAIN request'[s].task = TaskFields
    BY <2>1, <2>4, OthersFresh
  <2>5. Loading' /\ DOMAIN status'.task = TaskFields
    BY <1>0, <2>1, StatusAfter
  <2>. QED
    BY <1>1, <2>2, <2>3, <2>4, <2>5 DEF JobInv, Tasks
<1>c. Done.at = "done" /\ DOMAIN Done.task = TaskFields
  BY Forms0, Forms1, NoTaskShape
<1>2. CASE Save(r, u)
  BY <1>1, <1>2, <1>b
<1>3. CASE Save(r, Done)
  BY <1>1, <1>3, <1>c
<1>4. CASE GoesTo(r, Done) /\ UNCHANGED <<jobFile, status>>
  BY <1>0, <1>4, <1>c, GoingOn DEF GoesTo
<1>. QED
  BY <1>2, <1>3, <1>4 DEF SaveJob, u

LEMMA JobHandlers ==
  ASSUME OpsInv, JobInv, NEW r \in Requests, StartOperation(r) \/ CallCancel(r) \/ SendShutdown(r)
  PROVE  JobInv'
<1>0. Done.at = "done" /\ DOMAIN Done.task = TaskFields
  BY Forms0, Forms1, NoTaskShape
<1>1. CASE CallCancel(r)
  <2>. DEFINE q == [request[r] EXCEPT !.at = "done"]
  <2>1. q.at = "done" /\ DOMAIN q.task = TaskFields
    BY DEF OpsInv, Shape, JobInv, Tasks
  <2>2. request' = [request EXCEPT ![r] = q] /\ UNCHANGED <<status, runner, child, jobFile>>
    BY <1>1 DEF CallCancel, GoesTo, operation, disk
  <2>. HIDE DEF q
  <2>. QED
    BY <2>1, <2>2, GoingOn
<1>2. CASE SendShutdown(r)
  BY <1>0, <1>2, GoingOn DEF SendShutdown, GoesTo, operation, disk
<1>3. CASE StartOperation(r)
  <2>1. request' = [request EXCEPT ![r] = Done] /\ UNCHANGED <<child, jobFile>>
          /\ request[r].at = "start"
    BY <1>3 DEF StartOperation, GoesTo, At, disk
  <2>2. CASE UNCHANGED operation
    BY <1>0, <2>1, <2>2, GoingOn DEF operation
  <2>3. CASE ~Running /\ BeginOperation(r)
    <3>1. status'.task = request[r].task /\ runner'.at = "prepare"
      BY <2>3 DEF BeginOperation, Ready, NoRunner
    <3>2. Fresh(request[r].task) /\ DOMAIN request[r].task = TaskFields
      BY <2>1 DEF JobInv, Accepted, Tasks
    <3>3. ~Alive(child)
      BY <2>3 DEF OpsInv, Attended
    <3>4. child.job = NoJob
      BY <3>3 DEF JobInv, Loading, Alive
    <3>5. Loading'
      BY <2>1, <3>1, <3>2, <3>4 DEF Loading, Fresh, RunsTheJobItAccepted, JobInv
    <3>6. Tasks' /\ \A s \in Requests : Accepted(s)'
      BY <1>0, <2>1, <3>1, <3>2 DEF JobInv, Tasks, Accepted, Fresh, OpsInv, Shape
    <3>. QED
      BY <3>5, <3>6 DEF JobInv
  <2>. QED
    BY <1>3, <2>2, <2>3 DEF StartOperation
<1>. QED
  BY <1>1, <1>2, <1>3

\* Requests and job files stay; the runner, the child or the status changes.
LEMMA TasksKept ==
  ASSUME JobInv, UNCHANGED <<request, jobFile>>
  PROVE  /\ \A r \in Requests : Accepted(r)'
         /\ DOMAIN status'.task = TaskFields => Tasks'
  BY DEF JobInv, Tasks, Accepted, Fresh

LEMMA JobRun ==
  ASSUME OpsInv, JobInv, Run
  PROVE  JobInv'
<1>. USE DEF RunnerAt
<1>0. DOMAIN runner = RunnerFields /\ DOMAIN status.task = TaskFields /\ Loading
  BY DEF OpsInv, Shape, RunnerFields, JobInv, Tasks
<1>a. runner.at # "none" /\ runner.at # "wait" => Running /\ child.job = NoJob
  BY DEF OpsInv, Attended, Alive, JobInv, Loading
<1>1. CASE ReadJob
  <2>1. UNCHANGED <<request, jobFile, status, child>> /\ runner.at = "prepare"
    BY <1>1 DEF ReadJob, disk
  <2>2. \/ runner'.at = "spawn"
        \/ runner'.at = "rewrite" /\ runner'.job = jobFile[status.task.path]
             /\ status.task.path # "none"
    BY <1>0, <1>1 DEF ReadJob, RunnerTo, RunnerFields
  <2>3. Fresh(status.task)
    BY <1>0, <1>a, <2>1 DEF Loading
  <2>4. Loading'
    BY <1>0, <2>1, <2>2, <2>3 DEF Loading, Running, RunsTheJobItAccepted, Fresh, Holds
  <2>. QED
    BY <1>0, <2>1, <2>4, TasksKept DEF JobInv
<1>2. CASE RewriteJob
  <2>. DEFINE p == status.task.path
  <2>1. UNCHANGED <<status, child>> /\ runner.at = "rewrite" /\ runner'.at = "spawn"
    BY <1>0, <1>2 DEF RewriteJob, RunnerFields
  <2>2. CASE UNCHANGED <<jobFile, request>>
    <3>1. Loading'
      BY <1>0, <2>1, <2>2 DEF Loading, Running, RunsTheJobItAccepted, Fresh
    <3>. QED
      BY <1>0, <2>1, <2>2, <3>1, TasksKept DEF JobInv
  <2>3. CASE /\ jobFile' = [jobFile EXCEPT ![p] = runner.job]
             /\ request' = [s \in Requests |-> [request[s] EXCEPT !.task = After(@, p)]]
    <3>. HIDE DEF p
    <3>1. ASSUME NEW s \in Requests PROVE Accepted(s)' /\ DOMAIN request'[s].task = TaskFields
      BY <2>3, OthersFresh
    <3>2. Tasks'
      BY <1>0, <2>1, <2>3, <3>1 DEF Tasks, JobInv
    <3>3. Fresh(status.task) /\ Running
      BY <1>0, <1>a, <2>1 DEF Loading
    <3>4. Fresh(status.task)'
      <4>1. CASE status.task.disturbed
        BY <2>1, <3>3, <4>1 DEF Fresh, Holds
      <4>2. CASE ~status.task.disturbed
        <5>1. runner.job = status.task.job /\ p \in Paths /\ status.task.verb # "verify"
          BY <1>0, <2>1, <3>3, <4>2 DEF Loading, Fresh, Holds, p
        <5>2. jobFile'[p] = status.task.job
          BY <2>3, <5>1 DEF JobInv, Tasks
        <5>. QED
          BY <2>1, <5>1, <5>2 DEF Fresh, Holds, p
      <4>. QED
        BY <4>1, <4>2
    <3>5. Loading'
      BY <1>0, <2>1, <3>4 DEF Loading, Running, RunsTheJobItAccepted
    <3>. QED
      BY <3>1, <3>2, <3>5 DEF JobInv
  <2>. QED
    BY <1>2, <2>2, <2>3 DEF RewriteJob
<1>3. CASE Spawn
  <2>1. UNCHANGED <<request, jobFile, status>> /\ runner.at = "spawn"
    BY <1>3 DEF Spawn, disk
  <2>2. CASE runner' = [runner EXCEPT !.at = "summary", !.verdict = "failure"] /\ UNCHANGED child
    <3>1. runner'.at = "summary"
      BY <1>0, <2>2 DEF RunnerFields
    <3>2. Loading'
      BY <1>0, <2>1, <2>2, <3>1 DEF Loading, Running, RunsTheJobItAccepted, Fresh
    <3>. QED
      BY <1>0, <2>1, <3>2, TasksKept DEF JobInv
  <2>3. CASE /\ child' = [NoChild EXCEPT !.op = status.op, !.at = "start",
                            !.verb = status.task.verb, !.path = status.task.path]
             /\ RunnerTo("wait")
    <3>1. child'.at = "start" /\ child'.job = NoJob /\ child'.verb = status.task.verb
            /\ child'.path = status.task.path
      BY <2>3 DEF NoChild
    <3>2. runner'.at = "wait"
      BY <1>0, <2>3 DEF RunnerTo, RunnerFields
    <3>3. Loading'
      BY <1>0, <2>1, <3>1, <3>2 DEF Loading, Running, RunsTheJobItAccepted, Fresh
    <3>. QED
      BY <1>0, <2>1, <3>3, TasksKept DEF JobInv
  <2>. QED
    BY <1>3, <2>2, <2>3 DEF Spawn
<1>4. CASE WaitForChild \/ ReadSummary
  <2>1. UNCHANGED <<request, jobFile, status, child>>
    BY <1>4 DEF WaitForChild, ReadSummary, disk
  <2>2. runner'.at \in {"summary", "publish"}
    BY <1>0, <1>4 DEF WaitForChild, ReadSummary, RunnerFields
  <2>3. Loading'
    BY <1>0, <2>1, <2>2 DEF Loading, Running, RunsTheJobItAccepted, Fresh
  <2>. QED
    BY <1>0, <2>1, <2>3, TasksKept DEF JobInv
<1>5. CASE Publish
  <2>1. UNCHANGED <<request, jobFile, child>> /\ runner.at = "publish"
    BY <1>5 DEF Publish, disk
  <2>2. ~status'.running /\ DOMAIN status'.task = TaskFields
    <3>. DEFINE task == [NoTask EXCEPT !.case = status.task.case]
    <3>1. DOMAIN task = TaskFields
      BY NoTaskShape
    <3>2. status' = [status EXCEPT !.running = FALSE, !.verdict = runner.verdict,
                       !.task = task, !.integrity = runner.integrity]
      BY <1>5 DEF Publish
    <3>. HIDE DEF task
    <3>. QED
      BY <3>1, <3>2 DEF OpsInv, Shape
  <2>3. runner'.at = "none"
    BY <1>5 DEF Publish, NoRunner
  <2>4. Loading'
    BY <1>0, <1>a, <2>1, <2>2, <2>3 DEF Loading, Running, RunsTheJobItAccepted
  <2>. QED
    BY <2>1, <2>2, <2>4, TasksKept DEF JobInv
<1>. QED
  BY <1>1, <1>2, <1>3, <1>4, <1>5 DEF Run

\* What a command loads is the job its file holds.
LEMMA Loads ==
  ASSUME OpsInv, NEW m \in Moves(child)
  PROVE  \/ m.to.job = NoJob /\ ~Alive(m.to)
         \/ /\ m.to.verb = child.verb /\ m.to.path = child.path /\ m.to.at = "work"
            /\ \/ m.to.job = child.job
               \/ /\ child.at = "start" /\ child.verb # "verify"
                  /\ m.to.job = jobFile[child.path]
<1>1. DOMAIN child = {"op", "at", "verb", "path", "job"}
  BY DEF OpsInv, Shape
<1>2. child.at \in {"start", "work"}
  BY DEF Moves
<1>3. CASE child.at = "start"
  <2>. DEFINE Loaded == {[to |-> [child EXCEPT !.at = "work", !.job = job], writes |-> 0] :
                           job \in {jobFile[p] : p \in {child.path} \cap Paths} \ {NoJob}}
  <2>1. m \in {[to |-> Over(child, "failed"), writes |-> 0]}
          \cup IF child.verb = "verify"
               THEN {[to |-> [child EXCEPT !.at = "work"], writes |-> 0]}
               ELSE Loaded
    BY <1>3 DEF Moves
  <2>2. CASE m = [to |-> Over(child, "failed"), writes |-> 0]
    BY <1>1, <2>2, OverIs DEF Alive
  <2>3. CASE m = [to |-> [child EXCEPT !.at = "work"], writes |-> 0]
    BY <1>1, <2>3
  <2>4. CASE child.verb # "verify" /\ m \in Loaded
    <3>1. m = [to |-> [child EXCEPT !.at = "work", !.job = jobFile[child.path]], writes |-> 0]
      BY <2>4
    <3>. QED
      BY <1>1, <1>3, <2>4, <3>1
  <2>. QED
    BY <2>1, <2>2, <2>3, <2>4
<1>4. CASE child.at = "work"
  <2>1. m \in {[to |-> Over(child, "ok"), writes |-> 0],
               [to |-> Over(child, "failed"), writes |-> 0]}
          \cup {[to |-> child, writes |-> w] :
                  w \in {d \in Cases : d = child.job.case /\ artifacts[d] < MaxArtifacts}}
    BY <1>4 DEF Moves
  <2>2. CASE m = [to |-> Over(child, "ok"), writes |-> 0]
    BY <1>1, <2>2, OverIs DEF Alive
  <2>3. CASE m = [to |-> Over(child, "failed"), writes |-> 0]
    BY <1>1, <2>3, OverIs DEF Alive
  <2>4. ASSUME NEW w, m = [to |-> child, writes |-> w] PROVE m.to = child /\ m.to.at = "work"
    BY <1>4, <2>4
  <2>. QED
    BY <2>1, <2>2, <2>3, <2>4
<1>. QED
  BY <1>2, <1>3, <1>4

LEMMA JobChild ==
  ASSUME OpsInv, JobInv, ChildStep \/ AskChild \/ KillChild
  PROVE  JobInv'
<1>1. UNCHANGED <<request, jobFile, status, runner>>
  BY DEF ChildStep, AskChild, KillChild, operation, disk
<1>2. DOMAIN child = {"op", "at", "verb", "path", "job"} /\ DOMAIN status.task = TaskFields
  BY DEF OpsInv, Shape, JobInv, Tasks
<1>3. CASE child'.job = NoJob /\ ~Alive(child')
  <2>1. Loading'
    BY <1>1, <1>3 DEF JobInv, Loading, Running, RunsTheJobItAccepted, Fresh, Alive
  <2>. QED
    BY <1>1, <1>2, <2>1, TasksKept DEF JobInv
<1>4. CASE UNCHANGED child
  <2>1. Loading'
    BY <1>1, <1>4 DEF JobInv, Loading, Running, RunsTheJobItAccepted, Fresh
  <2>. QED
    BY <1>1, <1>2, <2>1, TasksKept DEF JobInv
<1>5. CASE ChildStep
  <2>1. PICK m \in Moves(child) : child' = m.to
    BY <1>5 DEF ChildStep
  <2>2. CASE /\ child.at = "start" /\ child.verb # "verify" /\ m.to.at = "work"
             /\ m.to.job = jobFile[child.path]
    <3>1. Alive(child) /\ Running /\ runner.at = "wait"
      BY <2>2 DEF OpsInv, Attended, Alive
    <3>2. child.verb = status.task.verb /\ child.path = status.task.path /\ Fresh(status.task)
      BY <3>1 DEF JobInv, Loading
    <3>3. ~status.task.disturbed => child'.job = status.task.job
      BY <2>1, <2>2, <3>2 DEF Fresh, Holds
    <3>4. child'.verb = child.verb /\ child'.path = child.path /\ child'.at = "work"
      BY <2>1, <2>2, Loads DEF Alive
    <3>5. Loading'
      BY <1>1, <3>1, <3>2, <3>3, <3>4 DEF JobInv, Loading, Running, RunsTheJobItAccepted, Fresh
    <3>. QED
      BY <1>1, <1>2, <3>5, TasksKept DEF JobInv
  <2>3. CASE /\ m.to.verb = child.verb /\ m.to.path = child.path /\ m.to.at = "work"
             /\ m.to.job = child.job
    <3>1. Alive(child) /\ m.to.op = child.op /\ Running /\ runner.at = "wait"
      BY <2>1, MovesOn DEF OpsInv, Attended
    <3>2. child.verb = status.task.verb /\ child.path = status.task.path /\ Fresh(status.task)
      BY <3>1 DEF JobInv, Loading
    <3>3. Loading'
      BY <1>1, <2>1, <2>3, <3>1, <3>2 DEF JobInv, Loading, Running, RunsTheJobItAccepted, Fresh, Alive
    <3>. QED
      BY <1>1, <1>2, <3>3, TasksKept DEF JobInv
  <2>. QED
    BY <1>3, <1>4, <2>1, <2>2, <2>3, Loads
<1>6. CASE AskChild \/ KillChild
  <2>1. Kill => child'.job = NoJob /\ ~Alive(child')
    BY OverIs DEF Kill, Alive
  <2>2. Kill \/ UNCHANGED child
    BY <1>6 DEF AskChild, KillChild
  <2>. QED
    BY <1>3, <1>4, <2>1, <2>2
<1>. QED
  BY <1>5, <1>6

LEMMA JobStep == OpsInv /\ JobInv /\ [Next]_vars => JobInv'
<1>. SUFFICES ASSUME OpsInv, JobInv, [Next]_vars PROVE JobInv'
  OBVIOUS
<1>0. ASSUME UNCHANGED <<request, jobFile, status, runner, child>> PROVE JobInv'
  BY <1>0 DEF JobInv, Tasks, Accepted, Loading, Fresh, Running, RunsTheJobItAccepted
<1>1. CASE Operate
  <2>1. CASE Handle
    <3>. PICK r \in Requests :
           \/ SubmitForm(r) \/ SaveJob(r) \/ SubmitJob(r) \/ SubmitVerify(r)
           \/ StartOperation(r) \/ SubmitCancel(r) \/ CallCancel(r) \/ SubmitShutdown(r)
           \/ SendShutdown(r)
      BY <2>1 DEF Handle
    <3>. QED
      BY JobArrives, JobSave, JobHandlers
  <2>2. CASE OrphanStep \/ CloseFromOutside \/ BeginStop
    BY <1>0, <2>2 DEF OrphanStep, CloseFromOutside, BeginStop, operation, disk
  <2>. QED
    BY <1>1, <2>1, <2>2, JobRun, JobChild DEF Operate
<1>2. CASE Prepare \/ Listen \/ CheckTarget \/ UNCHANGED vars
  BY <1>0, <1>2 DEF Prepare, Listen, CheckTarget, vars, operations, operation, disk
<1>3. CASE Stop
  <2>1. request' = [r \in Requests |-> IF request[r].at = "new" THEN NewRequest ELSE Done]
          /\ status' = Ready /\ runner' = NoRunner /\ child' = NoChild /\ UNCHANGED jobFile
    BY <1>3 DEF Stop, Exit, disk
  <2>2. NewRequest.at = "new" /\ NewRequest.task = NoTask /\ Done.at = "done" /\ Done.task = NoTask
    BY Forms0, Forms1 DEF NewRequest
  <2>3. Ready.task = NoTask /\ ~Ready.running /\ NoRunner.at = "none" /\ NoChild.at = "none"
          /\ NoChild.job = NoJob
    BY DEF Ready, NoRunner, NoChild
  <2>. QED
    BY <2>1, <2>2, <2>3, NoTaskShape
    DEF JobInv, Tasks, Accepted, Loading, Running, RunsTheJobItAccepted
<1>. QED
  BY <1>1, <1>2, <1>3 DEF Next

\* The command works on the job its request was accepted for, unless another
\* request wrote the same job file in between (ui.go, saveJob, runCommand).
THEOREM JobIsTheOneAccepted == Spec => []RunsTheJobItAccepted
<1>1. JobInv => RunsTheJobItAccepted
  BY DEF JobInv, Loading
<1>. QED
  BY OpsInit, OpsStep, JobInit, JobStep, <1>1, PTL DEF Spec

-----------------------------------------------------------------------------
(* The summary.  It is read when the command has ended, and from then on   *)
(* nobody writes artifacts until the next command starts, which takes the  *)
(* verdict away; only commands an earlier server has left alone may.       *)

\* A summary of a case whose artifacts are as many as all.
Current(summary, all) == summary.listed = all \/ (summary.error /\ summary.listed \in 0..all)

SummaryInv ==
  /\ runner.at = "publish" /\ orphans = {}
       => Current(runner.integrity, ArtifactsOf(status.task.case))
  /\ SummaryIsCurrent

LEMMA ReadingsAreCurrent ==
  ASSUME NEW c, NEW reading \in Readings(c)
  PROVE  Current(reading, ArtifactsOf(c))
BY DEF Readings, Current

\* Nothing happens to the summary, the verdict it is shown with and the artifacts.
Shown ==
  /\ UNCHANGED <<artifacts, runner, status.verdict, status.integrity, status.task.case>>
  /\ orphans' = {} => orphans = {}

LEMMA ShownStays == ASSUME SummaryInv, Shown PROVE SummaryInv'
  BY DEF SummaryInv, Shown, SummaryIsCurrent, ArtifactsOf

\* Nothing is shown or about to be.
Hidden == runner'.at # "publish" /\ status'.verdict = "none"

LEMMA HiddenIsFine == Hidden => SummaryInv'
  BY DEF Hidden, SummaryInv, SummaryIsCurrent

LEMMA SummaryHandlers ==
  ASSUME OpsInv, JobInv, SummaryInv, NEW r \in Requests,
         \/ SubmitForm(r) \/ SaveJob(r) \/ SubmitJob(r) \/ SubmitVerify(r) \/ StartOperation(r)
         \/ SubmitCancel(r) \/ CallCancel(r) \/ SubmitShutdown(r) \/ SendShutdown(r)
  PROVE  SummaryInv'
<1>1. CASE SaveJob(r)
  <2>1. UNCHANGED <<artifacts, runner, orphans>>
    BY <1>1 DEF SaveJob
  <2>2. DOMAIN status = {"running", "op", "task", "verdict", "integrity"}
          /\ DOMAIN status.task = TaskFields
    BY DEF OpsInv, Shape, JobInv, Tasks
  <2>3. status' = [status EXCEPT !.task = After(@, request[r].task.path)] \/ UNCHANGED status
    BY <1>1 DEF SaveJob, Save
  <2>4. UNCHANGED <<status.verdict, status.integrity, status.task.case>>
    BY <2>2, <2>3, AfterTask
  <2>. QED
    BY <2>1, <2>4, ShownStays DEF Shown
<1>2. CASE StartOperation(r)
  <2>1. CASE UNCHANGED operation
    BY <1>2, <2>1, ShownStays DEF StartOperation, operation, disk, Shown
  <2>2. CASE BeginOperation(r)
    BY <2>2, HiddenIsFine DEF BeginOperation, Ready, NoRunner, Hidden
  <2>. QED
    BY <1>2, <2>1, <2>2 DEF StartOperation
<1>3. ASSUME NEW q, Arrives(r, q) PROVE SummaryInv'
  BY <1>3, ShownStays, SMTT(30) DEF Arrives, operation, disk, Shown
<1>4. CASE SubmitForm(r) \/ SubmitJob(r) \/ SubmitVerify(r) \/ SubmitCancel(r) \/ SubmitShutdown(r)
  BY <1>3, <1>4 DEF SubmitForm, SubmitJob, SubmitVerify, SubmitCancel, SubmitShutdown
<1>5. CASE CallCancel(r) \/ SendShutdown(r)
  BY <1>5, ShownStays DEF CallCancel, SendShutdown, operation, disk, Shown
<1>. QED
  BY <1>1, <1>2, <1>4, <1>5

LEMMA SummaryRun ==
  ASSUME OpsInv, SummaryInv, Run
  PROVE  SummaryInv'
<1>. USE DEF RunnerAt
<1>0. DOMAIN runner = RunnerFields
        /\ DOMAIN status = {"running", "op", "task", "verdict", "integrity"}
  BY DEF OpsInv, Shape, RunnerFields
<1>1. runner.at # "none" => status.verdict = "none"
  BY DEF OpsInv, Attended, Judged
<1>2. CASE ReadJob \/ RewriteJob \/ Spawn \/ WaitForChild
  <2>1. UNCHANGED status /\ runner.at # "none"
    BY <1>2 DEF ReadJob, RewriteJob, Spawn, WaitForChild
  <2>2. runner'.at \in {"spawn", "rewrite", "wait", "summary"}
    BY <1>0, <1>2 DEF ReadJob, RewriteJob, Spawn, WaitForChild, RunnerTo, RunnerFields
  <2>. QED
    BY <1>1, <2>1, <2>2, HiddenIsFine DEF Hidden
<1>3. CASE ReadSummary
  <2>1. UNCHANGED <<status, artifacts>> /\ runner.at # "none"
    BY <1>3 DEF ReadSummary, disk
  <2>2. PICK reading \in Readings(status.task.case) :
          runner' = [runner EXCEPT !.at = "publish", !.integrity = reading]
    BY <1>3 DEF ReadSummary
  <2>3. Current(runner'.integrity, ArtifactsOf(status.task.case))
    BY <1>0, <2>2, ReadingsAreCurrent DEF RunnerFields
  <2>4. ArtifactsOf(status.task.case)' = ArtifactsOf(status.task.case)
    BY <2>1 DEF ArtifactsOf
  <2>. QED
    BY <1>1, <2>1, <2>3, <2>4 DEF SummaryInv, SummaryIsCurrent
<1>4. CASE Publish
  <2>. DEFINE task == [NoTask EXCEPT !.case = status.task.case]
  <2>1. task.case = status.task.case
    BY NoTaskShape
  <2>2. status' = [status EXCEPT !.running = FALSE, !.verdict = runner.verdict,
                     !.task = task, !.integrity = runner.integrity]
    BY <1>4 DEF Publish
  <2>3. UNCHANGED <<artifacts, orphans>> /\ runner.at = "publish" /\ runner'.at = "none"
    BY <1>4 DEF Publish, disk, NoRunner
  <2>. HIDE DEF task
  <2>4. status'.task.case = status.task.case /\ status'.integrity = runner.integrity
    BY <1>0, <2>1, <2>2
  <2>. QED
    BY <2>3, <2>4 DEF SummaryInv, SummaryIsCurrent, Current, ArtifactsOf
<1>. QED
  BY <1>2, <1>3, <1>4 DEF Run

LEMMA SummaryStep == OpsInv /\ JobInv /\ SummaryInv /\ [Next]_vars => SummaryInv'
<1>. SUFFICES ASSUME OpsInv, JobInv, SummaryInv, [Next]_vars PROVE SummaryInv'
  OBVIOUS
<1>1. CASE Operate
  <2>1. CASE Handle
    BY <2>1, SummaryHandlers DEF Handle
  <2>2. CASE ChildStep
    <3>1. Alive(child) /\ UNCHANGED <<status, runner>>
      BY <2>2, MovesOn DEF ChildStep, operation
    <3>. QED
      BY <3>1, HiddenIsFine DEF Hidden, OpsInv, Attended, Judged
  <2>3. CASE OrphanStep
    <3>1. orphans' # {}
      BY <2>3 DEF OrphanStep
    <3>. QED
      BY <3>1 DEF SummaryInv, SummaryIsCurrent
  <2>4. CASE AskChild \/ KillChild \/ CloseFromOutside \/ BeginStop
    BY <2>4, ShownStays DEF AskChild, KillChild, CloseFromOutside, BeginStop, operation, disk, Shown
  <2>. QED
    BY <1>1, <2>1, <2>2, <2>3, <2>4, SummaryRun DEF Operate
<1>2. CASE Prepare \/ Listen \/ CheckTarget \/ UNCHANGED vars
  BY <1>2, ShownStays DEF Prepare, Listen, CheckTarget, vars, operations, operation, disk, Shown
<1>3. CASE Stop
  BY <1>3, HiddenIsFine DEF Stop, Exit, Ready, NoRunner, Hidden
<1>. QED
  BY <1>1, <1>2, <1>3 DEF Next

\* The integrity summary shown with a verdict lists the artifacts of the case
\* as it is, or some of them together with the line that it could not be read,
\* unless an earlier server has left a command alone (ui.go, finishOperation;
\* ui_integrity.go, loadUIIntegrity).
THEOREM ShownSummaryIsCurrent == Spec => []SummaryIsCurrent
<1>1. Init => SummaryInv
  BY DEF Init, OperationsInit, SummaryInv, SummaryIsCurrent, Ready, NoRunner
<1>2. SummaryInv => SummaryIsCurrent
  BY DEF SummaryInv
<1>. QED
  BY OpsInit, OpsStep, JobInit, JobStep, SummaryStep, <1>1, <1>2, PTL DEF Spec

=============================================================================
