-------------------------- MODULE RamAttemptsProofs -------------------------
(***************************************************************************)
(* Theorems about the acquisition of memory, for every memory size, number *)
(* of attempts, transport and number of runs and failures.                 *)
(*                                                                         *)
(* The invariant behind them follows the current attempt through its one   *)
(* session: its directory is new, the journal holds what this session has  *)
(* received and nothing else, and once the trailer matched it is the whole *)
(* memory.  All other attempts are left alone, except that the             *)
(* finalization re-saves those that are not verified.                      *)
(***************************************************************************)
EXTENDS RamAttempts, TLAPS

\* The current attempt is being worked on.
Busy == {"create", "start", "stream", "save", "record", "failed", "seal",
         "manifest", "log", "mark", "backoff"}

\* Its status is still "running".
Open == {"start", "stream", "save", "record", "failed", "seal"}

\* Which directory the program is at.
Position ==
  /\ cur \in 0..Len(attempts)
  /\ pc \in Busy => cur \in 1..Len(attempts)
  /\ pc \in {"finalize", "finalManifest"} => index >= 1
  /\ pc = "finalManifest" => index <= Len(attempts)
  /\ pc \in Busy \cup {"next"} => attempt >= 1
  /\ pc = "backoff" => attempt < MaxRAMAttempts

OneReading(s) == \A j, k \in 1..Len(s) : s[j] = s[k]

\* Attempt a holds exactly what the current session has received.
Received(a) ==
  /\ ~a.torn
  /\ a.journal = session.got
  /\ Len(session.got) = state.next
  /\ state.next <= N
  /\ \A j \in 1..Len(session.got) : session.got[j] = session.id
  /\ session.id = 0 => state.next = 0 /\ state.count = 0
  /\ session.id # 0 => state.count = 1

\* Attempt a holds the whole memory, read by one session.
Whole(a) ==
  /\ ~a.torn
  /\ state.next = N /\ Len(a.journal) = N
  /\ state.count = 1
  /\ state.remote = a.journal
  /\ OneReading(a.journal)

\* How far the current attempt is.
Stage(a) ==
  /\ pc = "create" => a = NoAttempt
  /\ pc \in Open => a.saved.status = "running" /\ state.status = "running" /\ ~state.resumed
  /\ pc = "start" => a.journal = <<>> /\ ~a.torn /\ state.next = 0 /\ state.count = 0
  /\ pc \in {"stream", "save"} => Received(a) /\ ~session.ok
  /\ pc = "save" => session.id # 0
  /\ pc = "record" /\ session.ok => Whole(a)
  /\ pc = "seal" => Whole(a)
  /\ pc \in {"manifest", "log"} => a.saved = state /\ state.status \in Verified
  /\ pc = "log" => a.manifest = state

FirstSession == pc \in Busy => Stage(attempts[cur])

\* A success was reported by an attempt that is still there.
Shown ==
  result = "ok" =>
    \E i \in 1..Len(attempts) :
      attempts[i].saved.status \in Verified /\ attempts[i].manifest = attempts[i].saved

\* No result is "ok" before acquireRAM has returned.
Pending == pc \in Busy \cup {"next"} => result # "ok"

IInv == TypeOK /\ Position /\ FirstSession /\ VerifiedIsOnePass /\ Shown /\ Pending

-----------------------------------------------------------------------------
\* Updates of records and of one attempt of the sequence.

LEMMA StateUpdate ==
  /\ NoState \in State
  /\ \A s \in State, v \in Status : [s EXCEPT !.status = v] \in State
  /\ \A s \in State, v \in Nat : [s EXCEPT !.next = v] \in State
  /\ \A s \in State, v \in Nat : [s EXCEPT !.count = v] \in State
  /\ \A s \in State, v \in Seq(Nat) : [s EXCEPT !.remote = v] \in State
  /\ \A s \in State, v \in Seq(Nat) : [s EXCEPT !.logical = v] \in State
<1>1. NoState \in State
  BY DEF NoState, State, Status
<1>2. \A s \in State, v \in Status : [s EXCEPT !.status = v] \in State
  BY DEF State
<1>3. \A s \in State, v \in Nat : [s EXCEPT !.next = v] \in State
  BY DEF State
<1>4. \A s \in State, v \in Nat : [s EXCEPT !.count = v] \in State
  BY DEF State
<1>5. \A s \in State, v \in Seq(Nat) : [s EXCEPT !.remote = v] \in State
  BY DEF State
<1>6. \A s \in State, v \in Seq(Nat) : [s EXCEPT !.logical = v] \in State
  BY DEF State
<1> QED
  BY <1>1, <1>2, <1>3, <1>4, <1>5, <1>6

LEMMA SessionUpdate ==
  /\ NoSession \in Session
  /\ \A s \in Session, v \in Nat : [s EXCEPT !.id = v] \in Session
  /\ \A s \in Session, v \in Seq(Nat) : [s EXCEPT !.got = v] \in Session
  /\ \A s \in Session, v \in BOOLEAN : [s EXCEPT !.ok = v] \in Session
<1>1. NoSession \in Session
  BY DEF NoSession, Session
<1>2. \A s \in Session, v \in Nat : [s EXCEPT !.id = v] \in Session
  BY DEF Session
<1>3. \A s \in Session, v \in Seq(Nat) : [s EXCEPT !.got = v] \in Session
  BY DEF Session
<1>4. \A s \in Session, v \in BOOLEAN : [s EXCEPT !.ok = v] \in Session
  BY DEF Session
<1> QED
  BY <1>1, <1>2, <1>3, <1>4

LEMMA AttemptUpdate ==
  /\ NoAttempt \in Attempt
  /\ \A a \in Attempt, v \in State : [a EXCEPT !.saved = v] \in Attempt
  /\ \A a \in Attempt, v \in Seq(Nat) : [a EXCEPT !.journal = v] \in Attempt
  /\ \A a \in Attempt : [a EXCEPT !.torn = TRUE] \in Attempt
  /\ \A a \in Attempt, v \in State : [a EXCEPT !.manifest = v] \in Attempt
<1>1. NoAttempt \in Attempt
  BY StateUpdate DEF NoAttempt, Attempt
<1>2. \A a \in Attempt, v \in State : [a EXCEPT !.saved = v] \in Attempt
  BY DEF Attempt
<1>3. \A a \in Attempt, v \in Seq(Nat) : [a EXCEPT !.journal = v] \in Attempt
  BY DEF Attempt
<1>4. \A a \in Attempt : [a EXCEPT !.torn = TRUE] \in Attempt
  BY DEF Attempt
<1>5. \A a \in Attempt, v \in State : [a EXCEPT !.manifest = v] \in Attempt
  BY DEF Attempt
<1> QED
  BY <1>1, <1>2, <1>3, <1>4, <1>5

\* The fields of records.
LEMMA FieldTypes ==
  /\ \A s \in State : /\ s.status \in Status /\ s.next \in Nat /\ s.count \in Nat
                      /\ s.remote \in Seq(Nat) /\ s.logical \in Seq(Nat)
  /\ \A s \in Session : s.id \in Nat /\ s.got \in Seq(Nat)
  /\ \A a \in Attempt : a.saved \in State /\ a.journal \in Seq(Nat) /\ a.manifest \in State
BY DEF State, Session, Attempt

\* One attempt changes, the rest stays.
Others(i) ==
  /\ attempts' \in Seq(Attempt)
  /\ Len(attempts') = Len(attempts)
  /\ \A j \in 1..Len(attempts) : j # i => attempts'[j] = attempts[j]

LEMMA Replacement ==
  ASSUME attempts \in Seq(Attempt), NEW i \in 1..Len(attempts), NEW a \in Attempt,
         attempts' = [attempts EXCEPT ![i] = a]
  PROVE  Others(i) /\ attempts'[i] = a
<1>1. attempts \in [1..Len(attempts) -> Attempt] /\ Len(attempts) \in Nat
  OBVIOUS
<1>2. attempts' \in [1..Len(attempts) -> Attempt]
  BY <1>1
<1>3. attempts' \in Seq(Attempt) /\ Len(attempts') = Len(attempts)
  BY <1>1, <1>2
<1> QED
  BY <1>1, <1>3 DEF Others

\* evidence.SaveState changes state.json of one attempt.
LEMMA SaveEffect ==
  ASSUME attempts \in Seq(Attempt), NEW i \in 1..Len(attempts), NEW s \in State, Save(i, s)
  PROVE  /\ Others(i)
         /\ attempts'[i].saved = s
         /\ attempts'[i].journal = attempts[i].journal
         /\ attempts'[i].torn = attempts[i].torn
         /\ attempts'[i].manifest = attempts[i].manifest
<1>1. attempts[i] \in Attempt
  OBVIOUS
<1>2. [attempts[i] EXCEPT !.saved = s] \in Attempt
  BY <1>1, AttemptUpdate
<1>3. attempts' = [attempts EXCEPT ![i] = [attempts[i] EXCEPT !.saved = s]]
  BY DEF Save
<1>4. Others(i) /\ attempts'[i] = [attempts[i] EXCEPT !.saved = s]
  BY <1>2, <1>3, Replacement
<1> QED
  BY <1>1, <1>4 DEF Attempt

\* When it fails, the old content or the new one is in place.
LEMMA SaveFailsEffect ==
  ASSUME attempts \in Seq(Attempt), NEW i \in 1..Len(attempts), NEW s \in State,
         Save(i, s) \/ SaveFails(i, s)
  PROVE  /\ Others(i)
         /\ attempts'[i].saved \in {s, attempts[i].saved}
         /\ attempts'[i].journal = attempts[i].journal
         /\ attempts'[i].torn = attempts[i].torn
         /\ attempts'[i].manifest = attempts[i].manifest
<1>1. CASE Save(i, s)
  BY <1>1, SaveEffect
<1>2. CASE UNCHANGED attempts
  BY <1>2 DEF Others
<1> QED
  BY <1>1, <1>2 DEF SaveFails

\* Another record in the journal.
LEMMA JournalEffect ==
  ASSUME attempts \in Seq(Attempt), NEW i \in 1..Len(attempts), NEW v \in Nat,
         attempts' = [attempts EXCEPT ![i].journal = Append(@, v)]
  PROVE  /\ Others(i)
         /\ attempts'[i].journal = Append(attempts[i].journal, v)
         /\ attempts'[i].saved = attempts[i].saved
         /\ attempts'[i].torn = attempts[i].torn
         /\ attempts'[i].manifest = attempts[i].manifest
<1>1. attempts[i] \in Attempt
  OBVIOUS
<1>2. Append(attempts[i].journal, v) \in Seq(Nat)
  BY <1>1, FieldTypes
<1>3. [attempts[i] EXCEPT !.journal = Append(attempts[i].journal, v)] \in Attempt
  BY <1>1, <1>2, AttemptUpdate
<1>4. attempts' = [attempts EXCEPT ![i] =
                    [attempts[i] EXCEPT !.journal = Append(attempts[i].journal, v)]]
  OBVIOUS
<1>5. /\ Others(i)
      /\ attempts'[i] = [attempts[i] EXCEPT !.journal = Append(attempts[i].journal, v)]
  BY <1>3, <1>4, Replacement
<1> QED
  BY <1>1, <1>5 DEF Attempt

\* A half written record in the journal.
LEMMA TornEffect ==
  ASSUME attempts \in Seq(Attempt), NEW i \in 1..Len(attempts),
         attempts' = [attempts EXCEPT ![i].torn = TRUE]
  PROVE  /\ Others(i)
         /\ attempts'[i].saved = attempts[i].saved
         /\ attempts'[i].journal = attempts[i].journal
<1>1. attempts[i] \in Attempt
  OBVIOUS
<1>2. [attempts[i] EXCEPT !.torn = TRUE] \in Attempt
  BY <1>1, AttemptUpdate
<1>3. Others(i) /\ attempts'[i] = [attempts[i] EXCEPT !.torn = TRUE]
  BY <1>2, Replacement
<1> QED
  BY <1>1, <1>3 DEF Attempt

\* A manifest.
LEMMA ManifestEffect ==
  ASSUME attempts \in Seq(Attempt), NEW i \in 1..Len(attempts), NEW s \in State,
         attempts' = [attempts EXCEPT ![i].manifest = s]
  PROVE  /\ Others(i)
         /\ attempts'[i].manifest = s
         /\ attempts'[i].saved = attempts[i].saved
         /\ attempts'[i].journal = attempts[i].journal
         /\ attempts'[i].torn = attempts[i].torn
<1>1. attempts[i] \in Attempt
  OBVIOUS
<1>2. [attempts[i] EXCEPT !.manifest = s] \in Attempt
  BY <1>1, AttemptUpdate
<1>3. Others(i) /\ attempts'[i] = [attempts[i] EXCEPT !.manifest = s]
  BY <1>2, Replacement
<1> QED
  BY <1>1, <1>3 DEF Attempt

\* The fields of the current attempt and of the variables.
LEMMA CurrentTypes ==
  ASSUME TypeOK
  PROVE  /\ state \in State /\ state.next \in Nat /\ state.count \in Nat
         /\ state.remote \in Seq(Nat) /\ state.status \in Status
         /\ session.id \in Nat /\ session.got \in Seq(Nat)
         /\ attempts \in Seq(Attempt) /\ Len(attempts) \in Nat
         /\ \A i \in 1..Len(attempts) :
              /\ attempts[i] \in Attempt /\ attempts[i].saved \in State
              /\ attempts[i].journal \in Seq(Nat) /\ attempts[i].manifest \in State
              /\ attempts[i].saved.status \in Status /\ attempts[i].saved.next \in Nat
<1>1. \A i \in 1..Len(attempts) : attempts[i] \in Attempt
  BY DEF TypeOK
<1> QED
  BY <1>1, FieldTypes DEF TypeOK

\* A prefix of a journal is a digest.
LEMMA PrefixType ==
  ASSUME NEW s \in Seq(Nat), NEW n \in 0..Len(s)
  PROVE  /\ SubSeq(s, 1, n) \in Seq(Nat)
         /\ n = Len(s) => SubSeq(s, 1, n) = s
OBVIOUS

-----------------------------------------------------------------------------
\* What a step does to the attempts: nothing, one more empty attempt, or a
\* change of one attempt that keeps what is verified and what is incomplete.

OnePass(a) ==
  a.saved.status \in Verified =>
    /\ a.saved.status = "verified_continuous"
    /\ Audits(a, N) /\ a.saved.next = N
    /\ a.saved.logical = a.journal
    /\ \A j, k \in 1..N : a.journal[j] = a.journal[k]

Changed(i) ==
  /\ Others(i)
  /\ OnePass(attempts'[i])
  /\ attempts[i].saved.status = "incomplete" =>
       /\ attempts'[i].saved.status = "incomplete"
       /\ attempts'[i].journal = attempts[i].journal
  /\ result = "ok" /\ attempts[i].saved.status \in Verified
       /\ attempts[i].manifest = attempts[i].saved
     => attempts'[i].saved = attempts[i].saved /\ attempts'[i].manifest = attempts[i].saved

Effect ==
  \/ UNCHANGED attempts
  \/ attempts' = Append(attempts, NoAttempt)
  \/ \E i \in 1..Len(attempts) : Changed(i)

\* Work on an attempt that is neither verified nor given up.
LEMMA Unfinished ==
  ASSUME NEW i \in 1..Len(attempts), Others(i),
         attempts[i].saved.status \notin Verified \cup {"incomplete"},
         attempts'[i].saved.status \notin Verified
  PROVE  Effect
BY DEF Effect, Changed, OnePass

\* The state a directory is opened with.
LEMMA OpenedFresh ==
  Opened(NoAttempt) \in State /\ Opened(NoAttempt) = [NoState EXCEPT !.status = "running"]
<1>1. NoAttempt.saved.status = "none"
  BY DEF NoAttempt, NoState
<1> QED
  BY <1>1, StateUpdate DEF Opened, Status

LEMMA OpenedFields ==
  /\ Opened(NoAttempt).status = "running"
  /\ Opened(NoAttempt).next = 0 /\ Opened(NoAttempt).count = 0
  /\ ~Opened(NoAttempt).resumed
BY OpenedFresh DEF NoState

LEMMA OpenStateEffect ==
  ASSUME IInv, OpenState
  PROVE  Effect
<1> DEFINE a == attempts[cur]
<1>1. cur \in 1..Len(attempts) /\ a = NoAttempt
  BY DEF IInv, OpenState, Position, FirstSession, Stage, Busy
<1>2. Opened(a) \in State /\ Opened(a).status = "running"
  BY <1>1, OpenedFresh, OpenedFields
<1>3. a.saved.status = "none"
  BY <1>1 DEF NoAttempt, NoState
<1>4. Others(cur) /\ attempts'[cur].saved \in {Opened(a), a.saved}
  <2>1. Save(cur, Opened(a)) \/ SaveFails(cur, Opened(a))
    BY DEF OpenState
  <2> QED
    BY <1>1, <1>2, <2>1, SaveFailsEffect, CurrentTypes DEF IInv
<1> QED
  BY <1>1, <1>2, <1>3, <1>4, Unfinished DEF Verified

\* A save while the session runs, or after it failed.
LEMMA SaveRunning ==
  ASSUME IInv, pc \in Open, NEW s \in State, s.status \in {"running", "incomplete"},
         Save(cur, s) \/ SaveFails(cur, s)
  PROVE  Effect
<1>1. cur \in 1..Len(attempts) /\ attempts[cur].saved.status = "running"
  BY DEF IInv, Position, FirstSession, Stage, Busy, Open
<1>2. Others(cur) /\ attempts'[cur].saved \in {s, attempts[cur].saved}
  BY <1>1, SaveFailsEffect, CurrentTypes DEF IInv
<1> QED
  BY <1>1, <1>2, Unfinished DEF Verified

\* The state with one more session.
LEMMA CountedState ==
  ASSUME IInv, pc \in Open, CountSession
  PROVE  /\ state' \in State /\ state'.status = "running" /\ state'.next = state.next
         /\ state'.count = state.count + 1 /\ ~state'.resumed
<1>1. state \in State /\ state.status = "running" /\ ~state.resumed
  BY DEF IInv, TypeOK, FirstSession, Stage, Busy, Open
<1>2. state.count + 1 \in Nat
  BY CurrentTypes DEF IInv
<1>3. state' = [state EXCEPT !.count = state.count + 1]
  BY DEF CountSession
<1>4. state' \in State
  BY <1>1, <1>2, <1>3, StateUpdate
<1> QED
  BY <1>1, <1>3, <1>4 DEF State

LEMMA CountSessionEffect ==
  ASSUME IInv, CountSession
  PROVE  Effect
<1>1. pc \in Open
  BY DEF CountSession, Open
<1>2. state' \in State /\ state'.status = "running"
  BY <1>1, CountedState
<1>3. Save(cur, state') \/ SaveFails(cur, state')
  BY DEF CountSession
<1> QED
  BY <1>1, <1>2, <1>3, SaveRunning

LEMMA AppendEffect ==
  ASSUME IInv, AppendChunk \/ AppendFails
  PROVE  Effect
<1>1. /\ cur \in 1..Len(attempts) /\ attempts[cur].saved.status = "running"
      /\ attempts \in Seq(Attempt) /\ session.id \in Nat
  BY CurrentTypes
  DEF IInv, Position, FirstSession, Stage, Busy, Open, AppendChunk, AppendFails
<1>2. \/ attempts' = [attempts EXCEPT ![cur].journal = Append(@, session.id)]
      \/ attempts' = [attempts EXCEPT ![cur].torn = TRUE]
  BY DEF AppendChunk, AppendFails
<1>3. Others(cur) /\ attempts'[cur].saved = attempts[cur].saved
  BY <1>1, <1>2, JournalEffect, TornEffect
<1> QED
  BY <1>1, <1>3, Unfinished DEF Verified

LEMMA SavesEffect ==
  ASSUME IInv, SaveProgress \/ SaveError
  PROVE  Effect
<1>1. pc \in Open /\ state \in State /\ state.status = "running"
  BY DEF IInv, TypeOK, FirstSession, Stage, Busy, Open, SaveProgress, SaveError
<1>2. Save(cur, state) \/ SaveFails(cur, state)
  BY DEF SaveProgress, SaveError
<1> QED
  BY <1>1, <1>2, SaveRunning

\* The sealed state describes the whole memory, read by one session.
LEMMA SealedState ==
  ASSUME IInv, pc = "seal"
  PROVE  /\ Sealed \in State /\ Sealed.status = "verified_continuous"
         /\ Sealed.next = N /\ Sealed.logical = attempts[cur].journal
<1> DEFINE a == attempts[cur]
<1>1. cur \in 1..Len(attempts) /\ Whole(a) /\ ~state.resumed
  BY DEF IInv, Position, FirstSession, Stage, Busy, Open
<1>2. state \in State /\ a.journal \in Seq(Nat)
  BY <1>1, CurrentTypes DEF IInv
<1>3. HashLogical(a, state.next) = a.journal
  BY <1>1, <1>2, PrefixType, ChunksAssumption DEF HashLogical, Whole
<1>4. Continuous
  BY <1>1 DEF Continuous, Whole
<1> DEFINE t == [state EXCEPT !.logical = a.journal]
<1>5. t \in State /\ t.next = N /\ t.logical = a.journal
  BY <1>1, <1>2 DEF State, Whole
<1>6. Sealed = [t EXCEPT !.status = "verified_continuous"]
  BY <1>3, <1>4 DEF Sealed
<1>7. Sealed \in State
  BY <1>5, <1>6, StateUpdate DEF Status, Verified
<1> QED
  BY <1>5, <1>6, <1>7 DEF State

LEMMA SealEffect ==
  ASSUME IInv, Seal
  PROVE  Effect
<1>1. /\ cur \in 1..Len(attempts) /\ attempts[cur].saved.status = "running"
      /\ pc = "seal" /\ Whole(attempts[cur]) /\ attempts \in Seq(Attempt)
  BY CurrentTypes DEF IInv, Position, FirstSession, Stage, Busy, Open, Seal
<1>2. CASE UNCHANGED attempts
  BY <1>2 DEF Effect
<1>3. CASE Save(cur, Sealed) \/ SaveFails(cur, Sealed)
  <2>1. /\ Others(cur) /\ attempts'[cur].saved \in {Sealed, attempts[cur].saved}
        /\ attempts'[cur].journal = attempts[cur].journal
        /\ attempts'[cur].torn = attempts[cur].torn
    BY <1>1, <1>3, SealedState, SaveFailsEffect
  <2>2. OnePass(attempts'[cur])
    BY <1>1, <2>1, SealedState DEF OnePass, Whole, OneReading, Audits, Verified
  <2> QED
    BY <1>1, <2>1, <2>2 DEF Effect, Changed, Verified
<1> QED
  BY <1>2, <1>3 DEF Seal

LEMMA WriteManifestEffect ==
  ASSUME IInv, WriteManifest
  PROVE  Effect
<1>1. /\ cur \in 1..Len(attempts) /\ state \in State /\ attempts \in Seq(Attempt)
      /\ attempts[cur].saved = state /\ state.status \in Verified /\ result # "ok"
      /\ OnePass(attempts[cur])
  BY CurrentTypes
  DEF IInv, Position, FirstSession, Stage, Busy, WriteManifest, VerifiedIsOnePass, OnePass,
      Pending
<1>2. CASE UNCHANGED attempts
  BY <1>2 DEF Effect
<1>3. CASE attempts' = [attempts EXCEPT ![cur].manifest = state]
  <2>1. /\ Others(cur) /\ attempts'[cur].saved = attempts[cur].saved
        /\ attempts'[cur].journal = attempts[cur].journal
        /\ attempts'[cur].torn = attempts[cur].torn
    BY <1>1, <1>3, ManifestEffect
  <2>2. OnePass(attempts'[cur])
    BY <1>1, <2>1 DEF OnePass, Audits
  <2> QED
    BY <1>1, <2>1, <2>2 DEF Effect, Changed
<1> QED
  BY <1>2, <1>3 DEF WriteManifest

\* The incomplete state.
LEMMA MarkedState ==
  ASSUME TypeOK
  PROVE  Marked \in State /\ Marked.status = "incomplete"
BY StateUpdate DEF TypeOK, Marked, Status, State

LEMMA MarkIncompleteEffect ==
  ASSUME IInv, MarkIncomplete
  PROVE  Effect
<1>1. /\ cur \in 1..Len(attempts) /\ attempts \in Seq(Attempt) /\ result # "ok"
      /\ OnePass(attempts[cur])
      /\ Marked \in State /\ Marked.status = "incomplete"
  BY CurrentTypes, MarkedState
  DEF IInv, Position, Busy, MarkIncomplete, VerifiedIsOnePass, OnePass, Pending
<1>2. Save(cur, Marked) \/ SaveFails(cur, Marked)
  BY DEF MarkIncomplete
<1>3. /\ Others(cur) /\ attempts'[cur].saved \in {Marked, attempts[cur].saved}
      /\ attempts'[cur].journal = attempts[cur].journal
      /\ attempts'[cur].torn = attempts[cur].torn
  BY <1>1, <1>2, SaveFailsEffect
<1>4. OnePass(attempts'[cur])
  BY <1>1, <1>3 DEF OnePass, Audits, Verified
<1> QED
  BY <1>1, <1>3, <1>4 DEF Effect, Changed

\* Finalizing keeps the status.
LEMMA FinalizedState ==
  ASSUME TypeOK, index \in 1..Len(attempts), Finalizable
  PROVE  Finalized \in State /\ Finalized.status = Current.saved.status
<1>1. Current.saved \in State /\ Current.journal \in Seq(Nat) /\ Current.saved.next \in Nat
  BY CurrentTypes DEF Current
<1>2. HashLogical(Current, Current.saved.next) \in Seq(Nat)
  BY <1>1, PrefixType DEF Finalizable, Audits, HashLogical
<1>3. Finalized \in State
  BY <1>1, <1>2, StateUpdate DEF Finalized
<1> QED
  BY <1>1, <1>3 DEF Finalized, State

LEMMA FinalizeStateEffect ==
  ASSUME IInv, FinalizeState
  PROVE  Effect
<1>1. /\ index \in 1..Len(attempts) /\ attempts \in Seq(Attempt)
      /\ attempts[index].saved.status \notin Verified
      /\ Finalized \in State /\ Finalized.status = attempts[index].saved.status
  BY CurrentTypes, FinalizedState
  DEF IInv, TypeOK, Position, FinalizeState, Finalizable, Current
<1>2. Save(index, Finalized) \/ SaveFails(index, Finalized)
  BY DEF FinalizeState
<1>3. /\ Others(index) /\ attempts'[index].saved \in {Finalized, attempts[index].saved}
      /\ attempts'[index].journal = attempts[index].journal
  BY <1>1, <1>2, SaveFailsEffect
<1> QED
  BY <1>1, <1>3 DEF Effect, Changed, OnePass

LEMMA FinalizeManifestEffect ==
  ASSUME IInv, FinalizeManifest
  PROVE  Effect
<1>1. /\ index \in 1..Len(attempts) /\ attempts \in Seq(Attempt)
      /\ attempts[index].saved \in State /\ OnePass(attempts[index])
  BY CurrentTypes, SMTT(30)
  DEF IInv, TypeOK, Position, FinalizeManifest, VerifiedIsOnePass, OnePass
<1>2. CASE UNCHANGED attempts
  BY <1>2 DEF Effect
<1>3. CASE attempts' = [attempts EXCEPT ![index].manifest = Current.saved]
  <2>1. /\ Others(index) /\ attempts'[index].saved = attempts[index].saved
        /\ attempts'[index].manifest = attempts[index].saved
        /\ attempts'[index].journal = attempts[index].journal
        /\ attempts'[index].torn = attempts[index].torn
    BY <1>1, <1>3, ManifestEffect DEF Current
  <2>2. OnePass(attempts'[index])
    BY <1>1, <2>1 DEF OnePass, Audits
  <2> QED
    BY <1>1, <2>1, <2>2 DEF Effect, Changed
<1> QED
  BY <1>2, <1>3 DEF FinalizeManifest

LEMMA CrashEffect ==
  ASSUME IInv, Crash
  PROVE  Effect
<1>1. CASE UNCHANGED attempts
  BY <1>1 DEF Effect
<1>2. CASE pc = "stream" /\ attempts' = [attempts EXCEPT ![cur].torn = TRUE]
  <2>1. /\ cur \in 1..Len(attempts) /\ attempts[cur].saved.status = "running"
        /\ attempts \in Seq(Attempt)
    BY <1>2, CurrentTypes DEF IInv, Position, FirstSession, Stage, Busy, Open
  <2>2. Others(cur) /\ attempts'[cur].saved = attempts[cur].saved
    BY <1>2, <2>1, TornEffect
  <2> QED
    BY <2>1, <2>2, Unfinished DEF Verified
<1> QED
  BY <1>1, <1>2 DEF Crash

LEMMA StepEffect ==
  ASSUME IInv, Next
  PROVE  Effect
<1>1. CASE AttemptStep
  <2>1. CASE MakeDirectory
    <3>1. NextRAMAttempt > Len(attempts)
      BY CurrentTypes DEF IInv, NextRAMAttempt
    <3> QED
      BY <2>1, <3>1 DEF MakeDirectory, Effect
  <2>2. CASE StorageFails \/ StartSession \/ StartFails \/ ReadTrailer \/ SessionFails
               \/ RecordSession
    BY <2>2 DEF StorageFails, StartSession, StartFails, ReadTrailer, SessionFails,
                RecordSession, Effect
  <2> QED
    BY <1>1, <2>1, <2>2, OpenStateEffect, CountSessionEffect, AppendEffect, SavesEffect
    DEF AttemptStep
<1>2. CASE Conclude
  <2>1. CASE LogVerified \/ Reconnect \/ ReconnectUnlogged
    BY <2>1 DEF LogVerified, Reconnect, ReconnectUnlogged, Effect
  <2> QED
    BY <1>2, <2>1, SealEffect, WriteManifestEffect, SavesEffect, MarkIncompleteEffect
    DEF Conclude
<1>3. CASE Finalize
  <2>1. CASE LoadStates \/ SkipArtifact \/ Finish
    BY <2>1 DEF LoadStates, SkipArtifact, Finish, Effect
  <2> QED
    BY <1>3, <2>1, FinalizeStateEffect, FinalizeManifestEffect DEF Finalize
<1>4. CASE Run \/ RunUnprepared \/ Cancel \/ Idle
  BY <1>4 DEF Run, RunUnprepared, Cancel, Idle, vars, Effect
<1> QED
  BY <1>1, <1>2, <1>3, <1>4, CrashEffect DEF Next

\* What follows for every attempt.
LEMMA EffectParts ==
  ASSUME IInv, Effect
  PROVE  /\ attempts' \in Seq(Attempt)
         /\ Len(attempts) \in Nat /\ Len(attempts') \in Nat
         /\ Len(attempts') >= Len(attempts)
         /\ \A i \in 1..Len(attempts) : attempts'[i] = attempts[i] \/ Changed(i)
         /\ \A i \in 1..Len(attempts') :
              i \in 1..Len(attempts) \/ attempts'[i] = NoAttempt
<1>1. attempts \in Seq(Attempt) /\ Len(attempts) \in Nat
  BY CurrentTypes DEF IInv
<1>2. CASE UNCHANGED attempts
  BY <1>1, <1>2
<1>3. CASE attempts' = Append(attempts, NoAttempt)
  BY <1>1, <1>3, AttemptUpdate
<1>4. CASE \E i \in 1..Len(attempts) : Changed(i)
  BY <1>1, <1>4 DEF Changed, Others
<1> QED
  BY <1>2, <1>3, <1>4 DEF Effect

LEMMA OnePassStep ==
  ASSUME IInv, Effect
  PROVE  VerifiedIsOnePass'
<1>1. OnePass(NoAttempt)
  BY DEF OnePass, NoAttempt, NoState, Verified
<1>2. \A i \in 1..Len(attempts) : OnePass(attempts[i])
  BY DEF IInv, VerifiedIsOnePass, OnePass
<1>3. \A i \in 1..Len(attempts') : OnePass(attempts'[i])
  BY <1>1, <1>2, EffectParts DEF Changed
<1> QED
  BY <1>3 DEF VerifiedIsOnePass, OnePass, Audits

LEMMA PreservedStep ==
  ASSUME IInv, Effect, NEW i \in 1..Len(attempts), attempts[i].saved.status = "incomplete"
  PROVE  /\ attempts'[i].saved.status = "incomplete"
         /\ attempts'[i].journal = attempts[i].journal
BY EffectParts DEF Changed

\* An attempt that was shown when the result was "ok" is still there.
LEMMA ShownStep ==
  ASSUME IInv, Effect, result = "ok"
  PROVE  \E i \in 1..Len(attempts') :
           attempts'[i].saved.status \in Verified /\ attempts'[i].manifest = attempts'[i].saved
<1>1. PICK i \in 1..Len(attempts) :
        attempts[i].saved.status \in Verified /\ attempts[i].manifest = attempts[i].saved
  BY DEF IInv, Shown
<1>2. i \in 1..Len(attempts')
  BY EffectParts
<1>3. attempts'[i] = attempts[i] \/ Changed(i)
  BY EffectParts
<1>4. attempts'[i].saved = attempts[i].saved /\ attempts'[i].manifest = attempts[i].saved
  BY <1>1, <1>3 DEF Changed
<1> QED
  BY <1>1, <1>2, <1>4

\* acquireRAM returns "ok" only behind a verified attempt.
LEMMA ResultStep ==
  ASSUME IInv, Next
  PROVE  Shown' /\ Pending'
<1>1. CASE LogVerified
  <2>1. /\ cur \in 1..Len(attempts) /\ attempts[cur].saved.status \in Verified
        /\ attempts[cur].manifest = attempts[cur].saved
    BY <1>1 DEF LogVerified, IInv, Position, FirstSession, Stage, Busy
  <2> QED
    BY <1>1, <2>1 DEF LogVerified, Return, Shown, Pending, Busy
<1>2. CASE ~LogVerified
  <2>1. result' = "ok" => result = "ok"
    BY <1>2 DEF Next, Run, RunUnprepared, AttemptStep, Conclude, Finalize, Cancel, Crash,
      Idle, vars, MakeDirectory, OpenState, StorageFails, StartSession, StartFails,
      CountSession, AppendChunk, AppendFails, SaveProgress, ReadTrailer, SessionFails,
      RecordSession, Seal, WriteManifest, SaveError, MarkIncomplete, Reconnect, ReconnectUnlogged,
      LoadStates,
      SkipArtifact, FinalizeState, FinalizeManifest, Finish, Return
  <2>2. Shown'
    BY <2>1, StepEffect, ShownStep DEF Shown
  <2>3. pc' \in Busy \cup {"next"} => pc \in Busy \cup {"next"} \/ result' = "none"
    BY <1>2 DEF Next, Run, RunUnprepared, AttemptStep, Conclude, Finalize, Cancel, Crash,
      Idle, vars, LoadStates, SkipArtifact, FinalizeState, FinalizeManifest, Finish, Return,
      MakeDirectory, OpenState, StorageFails, StartSession, StartFails,
      CountSession, AppendChunk, AppendFails, SaveProgress, ReadTrailer, SessionFails,
      RecordSession, Seal, WriteManifest, SaveError, MarkIncomplete, Reconnect,
      ReconnectUnlogged, Busy
  <2> QED
    BY <2>1, <2>2, <2>3 DEF IInv, Pending
<1> QED
  BY <1>1, <1>2

-----------------------------------------------------------------------------
\* Types.  The Boolean variables are kept apart from the others.

Flags == conn \in BOOLEAN /\ cancelled \in BOOLEAN

Typed ==
  /\ pc \in Labels
  /\ cur \in Nat /\ attempt \in 0..MaxRAMAttempts /\ index \in Nat
  /\ state \in State /\ session \in Session
  /\ result \in {"none", "ok", "error", "crashed"}
  /\ passes \in Nat /\ runs \in Nat /\ faults \in Nat

LEMMA TypeParts == TypeOK <=> Flags /\ Typed /\ attempts \in Seq(Attempt)
BY DEF TypeOK, Flags, Typed

\* The state and the session after a step.
LEMMA StateStep ==
  ASSUME IInv, Next
  PROVE  state' \in State
<1>1. state \in State /\ NoState \in State
  BY StateUpdate DEF IInv, TypeOK
<1>2. CASE OpenState
  <2>1. attempts[cur] = NoAttempt
    BY <1>2 DEF IInv, OpenState, Position, FirstSession, Stage, Busy
  <2> QED
    BY <1>1, <1>2, <2>1, OpenedFresh DEF OpenState
<1>3. CASE CountSession
  BY <1>3, CountedState DEF CountSession, Open
<1>4. CASE AppendChunk
  <2>1. state.next + 1 \in Nat
    BY CurrentTypes DEF IInv
  <2> QED
    BY <1>1, <1>4, <2>1, StateUpdate DEF AppendChunk
<1>5. CASE ReadTrailer
  BY <1>1, <1>5, CurrentTypes, StateUpdate DEF ReadTrailer, IInv
<1>6. CASE Seal
  BY <1>1, <1>6, SealedState DEF Seal
<1>7. CASE MarkIncomplete
  BY <1>7, MarkedState DEF MarkIncomplete, IInv
<1>8. CASE state' \in {state, NoState}
  BY <1>1, <1>8
<1> QED
  BY <1>2, <1>3, <1>4, <1>5, <1>6, <1>7, <1>8
  DEF Next, Run, RunUnprepared, AttemptStep, Conclude, Finalize, Cancel, Crash, Idle, vars,
      memory, LoadStates, SkipArtifact, FinalizeState, FinalizeManifest, Finish, Forget,
      MakeDirectory, StorageFails, StartSession, StartFails, AppendFails, SaveProgress,
      SessionFails, RecordSession, WriteManifest, LogVerified, SaveError, Reconnect,
      ReconnectUnlogged

LEMMA SessionStep ==
  ASSUME IInv, Next
  PROVE  session' \in Session
<1>1. session \in Session /\ NoSession \in Session
  BY SessionUpdate DEF IInv, TypeOK
<1>2. CASE CountSession
  <2>1. passes + 1 \in Nat
    BY DEF IInv, TypeOK
  <2> QED
    BY <1>1, <1>2, <2>1, SessionUpdate DEF CountSession
<1>3. CASE AppendChunk
  <2>1. Append(session.got, session.id) \in Seq(Nat)
    BY CurrentTypes DEF IInv
  <2>2. session' = [session EXCEPT !.got = Append(session.got, session.id)]
    BY <1>3 DEF AppendChunk
  <2> QED
    BY <1>1, <2>1, <2>2, SessionUpdate
<1>4. CASE ReadTrailer
  BY <1>1, <1>4, SessionUpdate DEF ReadTrailer
<1>5. CASE session' \in {session, NoSession}
  BY <1>1, <1>5
<1> QED
  BY <1>2, <1>3, <1>4, <1>5
  DEF Next, Run, RunUnprepared, AttemptStep, Conclude, Finalize, Cancel, Crash, Idle, vars,
      memory, LoadStates, SkipArtifact, FinalizeState, FinalizeManifest, Finish, Forget,
      MakeDirectory, OpenState, StorageFails, StartSession, StartFails, AppendFails,
      SaveProgress, SessionFails, RecordSession, Seal, WriteManifest, LogVerified, SaveError,
      MarkIncomplete, Reconnect, ReconnectUnlogged

LEMMA FlagsStep ==
  ASSUME IInv, Next
  PROVE  Flags'
<1>1. conn \in BOOLEAN /\ cancelled \in BOOLEAN
  BY DEF IInv, TypeOK
<1>2. (Transport # "ssh") \in BOOLEAN
  OBVIOUS
<1>3. CASE SessionFails
  BY <1>1, <1>2, <1>3, Zenon DEF SessionFails, Flags
<1>4. CASE Reconnect \/ ReconnectUnlogged
  BY <1>1, <1>4, Zenon DEF Reconnect, ReconnectUnlogged, Flags
<1>5. CASE /\ UNCHANGED conn \/ conn' = TRUE \/ conn' = FALSE
           /\ UNCHANGED cancelled \/ cancelled' = TRUE \/ cancelled' = FALSE
  BY <1>1, <1>5, Zenon DEF Flags
<1> QED
  BY <1>3, <1>4, <1>5, Zenon
  DEF Next, Run, RunUnprepared, AttemptStep, Conclude, Finalize, Cancel, Crash, Idle, vars,
      LoadStates, SkipArtifact, FinalizeState, FinalizeManifest, Finish, Forget,
      MakeDirectory, OpenState, StorageFails, StartSession, StartFails, CountSession,
      AppendChunk, AppendFails, SaveProgress, ReadTrailer, RecordSession, Seal,
      WriteManifest, LogVerified, SaveError, MarkIncomplete

\* The remaining variables, which only count and name.
LEMMA TypedStep ==
  ASSUME IInv, Next
  PROVE  Typed'
<1> USE DEF NoFault, Fault, Return, Labels, TypeOK
<1>1. /\ TypeOK /\ Position /\ state' \in State /\ session' \in Session
      /\ Len(attempts) \in Nat /\ NextRAMAttempt \in Nat
  BY StateStep, SessionStep, CurrentTypes DEF IInv, NextRAMAttempt
<1>2. CASE AttemptStep
  BY <1>1, <1>2, SMTT(30)
  DEF AttemptStep, MakeDirectory, OpenState, StorageFails, StartSession, StartFails,
      CountSession, AppendChunk, AppendFails, SaveProgress, ReadTrailer, SessionFails,
      RecordSession, counters, memory, Typed
<1>3. CASE Conclude
  <2>1. CASE Reconnect
    <3>1. attempt + 1 \in 0..MaxRAMAttempts
      BY <1>1, <2>1, AttemptsAssumption DEF Reconnect, Position
    <3> QED
      BY <1>1, <2>1, <3>1 DEF Reconnect, Typed
  <2>2. CASE Seal \/ WriteManifest \/ LogVerified \/ SaveError \/ MarkIncomplete
               \/ ReconnectUnlogged
    BY <1>1, <2>2, SMTT(30)
    DEF Seal, WriteManifest, LogVerified, SaveError, MarkIncomplete, ReconnectUnlogged,
        counters, memory, Typed
  <2> QED
    BY <1>3, <2>1, <2>2 DEF Conclude
<1>4. CASE Finalize
  BY <1>1, <1>4, AttemptsAssumption, SMTT(30)
  DEF Finalize, LoadStates, SkipArtifact, FinalizeState, FinalizeManifest, Finish, Forget,
      counters, memory, Typed
<1>5. CASE Run \/ RunUnprepared \/ Cancel \/ Crash \/ Idle
  BY <1>1, <1>5, AttemptsAssumption, SMTT(30)
  DEF Run, RunUnprepared, Cancel, Crash, Idle, Forget, counters, memory, vars, Typed
<1> QED
  BY <1>2, <1>3, <1>4, <1>5 DEF Next

LEMMA PositionStep ==
  ASSUME IInv, Next
  PROVE  Position'
<1> USE DEF NoFault, Fault, Return, Busy, Position
<1>1. /\ Position /\ Len(attempts) \in Nat /\ Len(attempts') \in Nat
      /\ Len(attempts') >= Len(attempts) /\ attempt \in Nat /\ index \in Nat
  BY StepEffect, EffectParts DEF IInv, TypeOK
<1>2. CASE MakeDirectory
  <2>1. NextRAMAttempt = Len(attempts) + 1
    BY DEF NextRAMAttempt
  <2>2. attempts' = Append(attempts, NoAttempt) \/ UNCHANGED attempts
    BY <1>1, <1>2, <2>1 DEF MakeDirectory
  <2>3. attempts' = Append(attempts, NoAttempt) => Len(attempts') = Len(attempts) + 1
    BY CurrentTypes DEF IInv
  <2>4. CASE pc' = "create"
    <3>1. attempts' = Append(attempts, NoAttempt) /\ cur' = Len(attempts) + 1
      BY <1>1, <1>2, <2>1, <2>4 DEF MakeDirectory
    <3> QED
      BY <1>1, <1>2, <2>3, <2>4, <3>1 DEF MakeDirectory
  <2>5. CASE pc' = "load"
    BY <1>1, <1>2, <2>5 DEF MakeDirectory
  <2> QED
    BY <1>2, <2>4, <2>5 DEF MakeDirectory
<1>3. CASE AttemptStep /\ ~MakeDirectory
  BY <1>1, <1>3, SMTT(30)
  DEF AttemptStep, OpenState, StorageFails, StartSession, StartFails,
      CountSession, AppendChunk, AppendFails, SaveProgress, ReadTrailer, SessionFails,
      RecordSession, counters, memory
<1>4. CASE Conclude
  BY <1>1, <1>4, SMTT(30)
  DEF Conclude, Seal, WriteManifest, LogVerified, SaveError, MarkIncomplete, Reconnect,
      ReconnectUnlogged, AttemptsLeft, counters, memory
<1>5. CASE Finalize
  BY <1>1, <1>5, SMTT(30)
  DEF Finalize, LoadStates, SkipArtifact, FinalizeState, FinalizeManifest, Finish, Forget,
      Finalizable, counters, memory
<1>6. CASE Run \/ RunUnprepared \/ Cancel \/ Crash \/ Idle
  BY <1>1, <1>6, SMTT(30)
  DEF Run, RunUnprepared, Cancel, Crash, Idle, Forget, counters, memory, vars
<1> QED
  BY <1>2, <1>3, <1>4, <1>5, <1>6 DEF Next

-----------------------------------------------------------------------------
\* The current attempt through its session.

\* What is known of the current attempt before a step.
LEMMA Now ==
  ASSUME IInv, pc \in Busy
  PROVE  /\ cur \in 1..Len(attempts) /\ Stage(attempts[cur])
         /\ attempts \in Seq(Attempt)
         /\ state \in State /\ state.next \in Nat /\ state.count \in Nat
         /\ session \in Session /\ session.id \in Nat /\ session.got \in Seq(Nat)
         /\ attempts[cur].journal \in Seq(Nat)
BY CurrentTypes DEF IInv, TypeOK, Position, FirstSession

LEMMA MakeDirectoryStage ==
  ASSUME IInv, MakeDirectory
  PROVE  FirstSession'
<1>1. CASE pc' = "create"
  <2>1. attempts \in Seq(Attempt) /\ NextRAMAttempt = Len(attempts) + 1
    BY CurrentTypes DEF IInv, NextRAMAttempt
  <2>2. attempts' = Append(attempts, NoAttempt) /\ cur' = Len(attempts) + 1
    BY <1>1, <2>1 DEF MakeDirectory, Return
  <2>3. attempts'[cur'] = NoAttempt
    BY <2>1, <2>2, AttemptUpdate
  <2> QED
    BY <1>1, <2>3 DEF FirstSession, Stage, Open
<1>2. CASE pc' = "load"
  BY <1>2 DEF FirstSession, Busy
<1> QED
  BY <1>1, <1>2 DEF MakeDirectory, Return

LEMMA OpenStateStage ==
  ASSUME IInv, OpenState
  PROVE  FirstSession'
<1>1. CASE pc' = "start"
  <2>1. /\ cur \in 1..Len(attempts) /\ attempts[cur] = NoAttempt
        /\ attempts \in Seq(Attempt) /\ cur' = cur
    BY Now DEF OpenState, Stage, Busy
  <2>2. state' = Opened(NoAttempt) /\ Save(cur, Opened(NoAttempt))
    BY <1>1, <2>1 DEF OpenState, Return
  <2>3. /\ attempts'[cur].saved = Opened(NoAttempt)
        /\ attempts'[cur].journal = <<>> /\ ~attempts'[cur].torn
    BY <2>1, <2>2, OpenedFresh, SaveEffect DEF NoAttempt
  <2> QED
    BY <1>1, <2>1, <2>2, <2>3, OpenedFields DEF FirstSession, Stage, Open
<1>2. CASE pc' = "load"
  BY <1>2 DEF FirstSession, Busy
<1> QED
  BY <1>1, <1>2 DEF OpenState, Return

\* Steps that leave the attempt, the state and the session alone.
LEMMA QuietStage ==
  ASSUME IInv, StorageFails \/ StartFails \/ SessionFails
  PROVE  FirstSession'
<1>1. pc \in Busy
  BY DEF StorageFails, StartFails, SessionFails, Busy
<1>2. UNCHANGED <<attempts, cur, state, session>>
  BY DEF StorageFails, StartFails, SessionFails, memory
<1>3. pc' \in {"mark", "failed"} \/ (pc = "stream" /\ pc' = "record")
  BY DEF StorageFails, StartFails, SessionFails
<1>4. pc' = "failed" => pc = "start"
  BY DEF StorageFails, StartFails, SessionFails
<1> QED
  BY <1>1, <1>2, <1>3, <1>4, Now DEF FirstSession, Stage, Open

LEMMA StartSessionStage ==
  ASSUME IInv, StartSession
  PROVE  FirstSession'
<1>1. /\ UNCHANGED <<attempts, cur, state>> /\ session' = NoSession
      /\ pc = "start" /\ pc' = "stream"
  BY DEF StartSession
<1>2. Stage(attempts[cur]) /\ attempts[cur].journal = <<>> /\ state.next = 0
  BY <1>1, Now DEF Stage, Busy
<1>3. Received(attempts[cur])'
  BY <1>1, <1>2, ChunksAssumption DEF Stage, Received, NoSession
<1> QED
  BY <1>1, <1>2, <1>3 DEF FirstSession, Stage, Open, NoSession

LEMMA CountSessionStage ==
  ASSUME IInv, CountSession
  PROVE  FirstSession'
<1>1. /\ pc = "stream" /\ pc' \in {"stream", "record"} /\ cur' = cur /\ session.id = 0
      /\ session' = [session EXCEPT !.id = passes + 1]
      /\ Save(cur, state') \/ SaveFails(cur, state')
      /\ pc' = "stream" => Save(cur, state')
  BY DEF CountSession
<1>2. /\ cur \in 1..Len(attempts) /\ attempts \in Seq(Attempt) /\ Received(attempts[cur])
      /\ session \in Session /\ ~session.ok
      /\ attempts[cur].saved.status = "running"
  BY <1>1, Now DEF Stage, Busy, Open
<1>3. /\ state' \in State /\ state'.status = "running" /\ state'.next = state.next
      /\ state'.count = state.count + 1 /\ ~state'.resumed
  BY <1>1, CountedState DEF Open
<1>4. session'.id = passes + 1 /\ session'.got = session.got /\ session'.ok = session.ok
  BY <1>1, <1>2 DEF Session
<1>5. /\ attempts'[cur].saved.status = "running"
      /\ attempts'[cur].journal = attempts[cur].journal
      /\ attempts'[cur].torn = attempts[cur].torn
  BY <1>1, <1>2, <1>3, SaveFailsEffect
<1>6. passes + 1 # 0 /\ passes \in Nat
  BY DEF IInv, TypeOK
<1>7. Received(attempts[cur])'
  <2>1. session.got = <<>> /\ state.next = 0 /\ state.count = 0
    BY <1>1, <1>2, Now DEF Received, Busy
  <2> QED
    BY <1>1, <1>2, <1>3, <1>4, <1>5, <1>6, <2>1, ChunksAssumption DEF Received
<1> QED
  BY <1>1, <1>2, <1>3, <1>4, <1>5, <1>7 DEF FirstSession, Stage, Open

LEMMA AppendChunkStage ==
  ASSUME IInv, AppendChunk
  PROVE  FirstSession'
<1>1. /\ pc = "stream" /\ pc' = "save" /\ cur' = cur /\ session.id # 0 /\ state.next < N
      /\ session' = [session EXCEPT !.got = Append(session.got, session.id)]
      /\ state' = [state EXCEPT !.next = state.next + 1]
  BY DEF AppendChunk
<1>2. /\ cur \in 1..Len(attempts) /\ attempts \in Seq(Attempt) /\ Received(attempts[cur])
      /\ session \in Session /\ ~session.ok /\ session.id \in Nat /\ session.got \in Seq(Nat)
      /\ attempts[cur].saved.status = "running"
      /\ state \in State /\ state.status = "running" /\ ~state.resumed /\ state.next \in Nat
  BY <1>1, Now DEF Stage, Busy, Open
<1>3. /\ state'.status = "running" /\ state'.next = state.next + 1
      /\ state'.count = state.count /\ state'.resumed = state.resumed
  BY <1>1, <1>2 DEF State
<1>4. /\ session'.id = session.id /\ session'.got = Append(session.got, session.id)
      /\ session'.ok = session.ok
  BY <1>1, <1>2 DEF Session
<1>5. /\ attempts'[cur].saved = attempts[cur].saved
      /\ attempts'[cur].journal = Append(attempts[cur].journal, session.id)
      /\ attempts'[cur].torn = attempts[cur].torn
  BY <1>2, JournalEffect DEF AppendChunk
<1>6. Received(attempts[cur])'
  <2>1. /\ Len(session'.got) = Len(session.got) + 1
        /\ \A j \in 1..Len(session'.got) : session'.got[j] = session.id
    BY <1>2, <1>4 DEF Received
  <2> QED
    BY <1>1, <1>2, <1>3, <1>4, <1>5, <2>1, ChunksAssumption DEF Received
<1> QED
  BY <1>1, <1>2, <1>3, <1>4, <1>5, <1>6 DEF FirstSession, Stage, Open

LEMMA AppendFailsStage ==
  ASSUME IInv, AppendFails
  PROVE  FirstSession'
<1>1. /\ pc = "stream" /\ pc' = "record" /\ UNCHANGED <<cur, state, session>>
      /\ \/ attempts' = [attempts EXCEPT ![cur].journal = Append(@, session.id)]
         \/ attempts' = [attempts EXCEPT ![cur].torn = TRUE]
  BY DEF AppendFails, memory
<1>2. /\ cur \in 1..Len(attempts) /\ attempts \in Seq(Attempt) /\ ~session.ok
      /\ session.id \in Nat /\ attempts[cur].saved.status = "running"
      /\ state.status = "running" /\ ~state.resumed
  BY <1>1, Now DEF Stage, Busy, Open
<1>3. attempts'[cur].saved = attempts[cur].saved
  BY <1>1, <1>2, JournalEffect, TornEffect
<1> QED
  BY <1>1, <1>2, <1>3 DEF FirstSession, Stage, Open

LEMMA SavesStage ==
  ASSUME IInv, SaveProgress \/ SaveError
  PROVE  FirstSession'
<1>1. /\ pc \in Open /\ UNCHANGED <<cur, state, session>>
      /\ Save(cur, state) \/ SaveFails(cur, state)
  BY DEF SaveProgress, SaveError, Open, memory
<1>2. (pc = "save" /\ pc' \in {"stream", "record"}) \/ pc' = "mark"
  BY DEF SaveProgress, SaveError
<1>3. /\ cur \in 1..Len(attempts) /\ attempts \in Seq(Attempt) /\ Stage(attempts[cur])
      /\ state \in State
      /\ attempts[cur].saved.status = "running"
      /\ state.status = "running" /\ ~state.resumed
  BY <1>1, Now DEF Stage, Busy, Open
<1>4. /\ attempts'[cur].saved.status = "running"
      /\ attempts'[cur].journal = attempts[cur].journal
      /\ attempts'[cur].torn = attempts[cur].torn
  BY <1>1, <1>3, SaveFailsEffect
<1>5. pc = "save" => Received(attempts[cur])' /\ ~session'.ok
  BY <1>1, <1>3, <1>4 DEF Stage, Received
<1> QED
  BY <1>1, <1>2, <1>3, <1>4, <1>5 DEF FirstSession, Stage, Open

LEMMA ReadTrailerStage ==
  ASSUME IInv, ReadTrailer
  PROVE  FirstSession'
<1>1. /\ pc = "stream" /\ pc' = "record" /\ UNCHANGED <<attempts, cur>>
      /\ session.id # 0 /\ state.next = N
  BY DEF ReadTrailer
<1>2. /\ cur \in 1..Len(attempts) /\ Received(attempts[cur]) /\ session.got \in Seq(Nat)
      /\ attempts[cur].saved.status = "running"
      /\ state \in State /\ state.status = "running" /\ ~state.resumed
  BY <1>1, Now DEF Stage, Busy, Open
<1>3. state' = [state EXCEPT !.remote = session.got]
  BY <1>1, <1>2 DEF ReadTrailer, Received
<1>4. /\ state'.status = "running" /\ ~state'.resumed /\ state'.next = N
      /\ state'.count = 1 /\ state'.remote = session.got
  BY <1>1, <1>2, <1>3 DEF State, Received
<1>5. Whole(attempts[cur])'
  BY <1>1, <1>2, <1>4 DEF Whole, Received, OneReading
<1> QED
  BY <1>1, <1>2, <1>4, <1>5 DEF FirstSession, Stage, Open

LEMMA RecordSessionStage ==
  ASSUME IInv, RecordSession
  PROVE  FirstSession'
<1>1. /\ pc = "record" /\ UNCHANGED <<attempts, cur, state>>
      /\ pc' \in {"seal", "failed"} /\ (pc' = "seal" => session.ok)
  BY DEF RecordSession
<1>2. Stage(attempts[cur])
  BY <1>1, Now DEF Busy
<1>3. pc' = "seal" => Whole(attempts[cur])
  BY <1>1, <1>2 DEF Stage
<1> QED
  BY <1>1, <1>2, <1>3 DEF FirstSession, Stage, Open, Whole

LEMMA SealStage ==
  ASSUME IInv, Seal
  PROVE  FirstSession'
<1>1. CASE pc' = "mark"
  BY <1>1 DEF FirstSession, Stage, Open
<1>2. CASE pc' = "manifest"
  <2>1. pc = "seal" /\ state' = Sealed /\ Save(cur, Sealed) /\ cur' = cur
    BY <1>2 DEF Seal
  <2>2. cur \in 1..Len(attempts) /\ attempts \in Seq(Attempt)
    BY <2>1, Now DEF Busy
  <2>3. attempts'[cur].saved = Sealed
    BY <2>1, <2>2, SealedState, SaveEffect
  <2> QED
    BY <1>2, <2>1, <2>3, SealedState DEF FirstSession, Stage, Open, Verified
<1> QED
  BY <1>1, <1>2 DEF Seal

LEMMA ManifestStage ==
  ASSUME IInv, WriteManifest \/ LogVerified \/ MarkIncomplete
  PROVE  FirstSession'
<1>1. CASE pc' = "log"
  <2>1. /\ pc = "manifest" /\ UNCHANGED <<cur, state>>
        /\ attempts' = [attempts EXCEPT ![cur].manifest = state]
    BY <1>1 DEF WriteManifest, LogVerified, MarkIncomplete, Return, memory
  <2>2. /\ cur \in 1..Len(attempts) /\ attempts \in Seq(Attempt) /\ state \in State
        /\ attempts[cur].saved = state /\ state.status \in Verified
    BY <2>1, Now DEF Stage, Busy
  <2>3. attempts'[cur].saved = state /\ attempts'[cur].manifest = state
    BY <2>1, <2>2, ManifestEffect
  <2> QED
    BY <1>1, <2>1, <2>2, <2>3 DEF FirstSession, Stage, Open
<1>2. CASE pc' \in {"load", "mark", "backoff"}
  BY <1>2 DEF FirstSession, Stage, Open, Busy
<1> QED
  BY <1>1, <1>2 DEF WriteManifest, LogVerified, MarkIncomplete, Return

LEMMA StageStep ==
  ASSUME IInv, Next
  PROVE  FirstSession'
<1>1. CASE AttemptStep
  BY <1>1, MakeDirectoryStage, OpenStateStage, QuietStage, StartSessionStage,
     CountSessionStage, AppendChunkStage, AppendFailsStage, SavesStage, ReadTrailerStage,
     RecordSessionStage DEF AttemptStep
<1>2. CASE Conclude
  <2>1. CASE Reconnect \/ ReconnectUnlogged
    BY <2>1 DEF Reconnect, ReconnectUnlogged, Return, FirstSession, Busy
  <2> QED
    BY <1>2, <2>1, SealStage, ManifestStage, SavesStage DEF Conclude
<1>3. CASE Finalize
  BY <1>3 DEF Finalize, LoadStates, SkipArtifact, FinalizeState, FinalizeManifest, Finish,
    FirstSession, Busy
<1>4. CASE Run \/ RunUnprepared \/ Crash
  BY <1>4 DEF Run, RunUnprepared, Crash, Return, FirstSession, Busy
<1>5. CASE Cancel \/ Idle
  <2>1. UNCHANGED <<attempts, pc, cur, state, session>>
    BY <1>5 DEF Cancel, Idle, vars, memory
  <2> QED
    BY <2>1 DEF IInv, FirstSession, Stage, Received, Whole
<1> QED
  BY <1>1, <1>2, <1>3, <1>4, <1>5 DEF Next

-----------------------------------------------------------------------------
\* The inductive invariant.

LEMMA InitIInv == Init => IInv
<1> SUFFICES ASSUME Init PROVE IInv
  OBVIOUS
<1>1. TypeOK
  <2>1. Flags
    BY Zenon DEF Init, Flags
  <2>2. Typed
    BY StateUpdate, SessionUpdate, AttemptsAssumption DEF Init, Typed, Labels
  <2>3. attempts \in Seq(Attempt)
    BY DEF Init
  <2> QED
    BY <2>1, <2>2, <2>3, TypeParts
<1>2. Position /\ FirstSession /\ VerifiedIsOnePass /\ Shown /\ Pending
  BY DEF Init, Position, FirstSession, VerifiedIsOnePass, Shown, Pending, Busy
<1> QED
  BY <1>1, <1>2 DEF IInv

LEMMA StepIInv == IInv /\ [Next]_vars => IInv'
<1> SUFFICES ASSUME IInv, [Next]_vars PROVE IInv'
  OBVIOUS
<1>1. CASE Next
  <2>1. TypeOK'
    <3>1. Flags' /\ Typed' /\ attempts' \in Seq(Attempt)
      BY <1>1, FlagsStep, TypedStep, StepEffect, EffectParts
    <3> QED
      BY <3>1 DEF TypeOK, Flags, Typed
  <2>2. Position' /\ FirstSession' /\ VerifiedIsOnePass' /\ Shown' /\ Pending'
    BY <1>1, PositionStep, StageStep, StepEffect, OnePassStep, ResultStep
  <2> QED
    BY <2>1, <2>2 DEF IInv
<1>2. CASE UNCHANGED vars
  BY <1>2 DEF IInv, TypeOK, Position, FirstSession, VerifiedIsOnePass, Shown, Pending,
    Stage, Received, Whole, Audits, vars, memory, counters
<1> QED
  BY <1>1, <1>2

LEMMA Invariance == Spec => []IInv
<1> QED
  BY InitIInv, StepIInv, PTL DEF Spec

\* Every variable of the acquisition of memory keeps its type, whatever fails.
THEOREM RamTypeCorrect == Spec => []TypeOK
<1>1. IInv => TypeOK
  BY DEF IInv
<1> QED
  BY <1>1, Invariance, PTL

\* No run, crash or failure ever leaves a verified memory image that is not one
\* complete reading by one session.
THEOREM RamVerifiedIsOnePass == Spec => []VerifiedIsOnePass
<1>1. IInv => VerifiedIsOnePass
  BY DEF IInv
<1> QED
  BY <1>1, Invariance, PTL

\* A run that reports success leaves a verified attempt with its manifest.
THEOREM RamSuccessIsVerified == Spec => []SuccessIsVerified
<1>1. IInv => SuccessIsVerified
  BY DEF IInv, Shown, SuccessIsVerified
<1> QED
  BY <1>1, Invariance, PTL

\* No step adds to an incomplete attempt or gives it another status.
THEOREM RamIncompleteIsPreserved == Spec => IncompleteIsPreserved
<1> DEFINE Kept == \A i \in 1..Len(attempts) :
                     attempts[i].saved.status = "incomplete" =>
                       /\ attempts'[i].saved.status = "incomplete"
                       /\ attempts'[i].journal = attempts[i].journal
<1>1. IInv /\ [Next]_vars => [Kept]_attempts
  <2> SUFFICES ASSUME IInv, [Next]_vars PROVE [Kept]_attempts
    OBVIOUS
  <2>1. CASE Next
    BY <2>1, StepEffect, PreservedStep
  <2>2. CASE UNCHANGED vars
    BY <2>2 DEF vars
  <2> QED
    BY <2>1, <2>2
<1> QED
  BY <1>1, Invariance, PTL DEF Spec, IncompleteIsPreserved
=============================================================================
