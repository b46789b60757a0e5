------------------------------ MODULE UiTrust ------------------------------
(***************************************************************************)
(* What the user interface keeps to trust others and be trusted: the       *)
(* examiner's key pair, made by the first start of a packaged application  *)
(* (ensureExaminerKey), and the SSH host keys of the targets, confirmed by *)
(* the examiner (handleSSHHostKey), together with the target inventory     *)
(* that shares its lock.  Several processes may start at once, and several *)
(* target checks may be under way.                                         *)
(*                                                                         *)
(* Abstractions.  A key pair is the number of the process that generated   *)
(* it; each of its two files names a pair, or 0.  One target with several  *)
(* host keys stands for all, as known_hosts is read host by host.  The     *)
(* result of an inventory is not modelled.                                 *)
(***************************************************************************)
EXTENDS Naturals, FiniteSets

CONSTANTS
  Processes,     \* starts of the application
  Checks,        \* 1..n: bound on the target checks, in their order of arrival
  HostKeys       \* keys the target may present

ASSUME TrustAssumption ==
  Processes \subseteq Nat \ {0} /\ Checks \subseteq Nat \ {0} /\ HostKeys \subseteq Nat \ {0}

VARIABLES
  \* Files.
  private, public, \* examiner-private.pem and examiner-public.pem
  known,         \* keys of the target in the managed known_hosts
  torn,          \* known_hosts ends in the middle of a line
  \* Processes.
  start,         \* how far a process has come in runUI
  raced,         \* history: two of them were in ensureExaminerKey at once
  \* Handlers.
  lock,          \* holder of inventoryMu
  check,
  confirmed      \* history: fingerprints the examiner has confirmed

keyFiles == <<private, public>>
starting == <<keyFiles, start, raced>>
hosts    == <<known, torn>>
targets  == <<hosts, lock, check, confirmed>>
trust    == <<starting, targets>>

-----------------------------------------------------------------------------
NoCheck == [at |-> "new", expected |-> 0, key |-> 0, entry |-> "none"]
InKeys == {"look", "private", "public", "recover"}

TrustInit ==
  /\ private = 0 /\ public = 0
  /\ known = {} /\ torn = FALSE
  /\ start = [p \in Processes |-> "off"] /\ raced = FALSE
  /\ lock = 0 /\ check = [c \in Checks |-> NoCheck] /\ confirmed = {}

-----------------------------------------------------------------------------
\* The start of the application up to the listener.

GoesOn(p, from, to) ==
  /\ start[p] = from
  /\ start' = [start EXCEPT ![p] = to]

Launch(p) ==
  /\ GoesOn(p, "off", "look")
  /\ \A q \in Processes : q < p => start[q] # "off"
  /\ raced' = (raced \/ \E q \in Processes : start[q] \in InKeys)
  /\ UNCHANGED <<keyFiles, targets>>

\* ensureExaminerKey: which of the two files are there.
LookForKeys(p) ==
  /\ \/ private # 0 /\ public # 0 /\ GoesOn(p, "look", "hosts")
     \/ private = 0 /\ public # 0 /\ GoesOn(p, "look", "gone")
     \/ private # 0 /\ public = 0 /\ GoesOn(p, "look", "recover")
     \/ private = 0 /\ public = 0 /\ GoesOn(p, "look", "private")
  /\ UNCHANGED <<keyFiles, raced, targets>>

\* Defect: a new public key is made for the old private key.
RecoverFresh(p) ==
  /\ GoesOn(p, "recover", "hosts")
  /\ public' = p
  /\ UNCHANGED <<private, raced, targets>>

\* The public key is derived from the private one.
RecoverPublic(p) ==
  /\ \/ GoesOn(p, "recover", "hosts") /\ public' = private
     \/ GoesOn(p, "recover", "gone") /\ public' \in {public, private}
  /\ UNCHANGED <<private, raced, targets>>

\* A new pair: the private key first; AtomicWrite may fail after the rename.
WritePrivate(p) ==
  /\ \/ GoesOn(p, "private", "public") /\ private' = p
     \/ GoesOn(p, "private", "gone") /\ private' \in {private, p}
  /\ UNCHANGED <<public, raced, targets>>

WritePublic(p) ==
  /\ \/ GoesOn(p, "public", "hosts") /\ public' = p
     \/ GoesOn(p, "public", "gone") /\ public' \in {public, p}
  /\ UNCHANGED <<private, raced, targets>>

\* ensureManagedKnownHosts.
OpenKnownHosts(p) ==
  /\ GoesOn(p, "hosts", "listen") \/ GoesOn(p, "hosts", "gone")
  /\ UNCHANGED <<keyFiles, raced, targets>>

\* The process is killed on its way.
StartDies(p) ==
  /\ start[p] \in InKeys \cup {"hosts", "listen"}
  /\ GoesOn(p, start[p], "gone")
  /\ UNCHANGED <<keyFiles, raced, targets>>

Start ==
  \E p \in Processes :
    \/ Launch(p) \/ LookForKeys(p) \/ RecoverPublic(p) \/ WritePrivate(p) \/ WritePublic(p)
    \/ OpenKnownHosts(p) \/ StartDies(p)

-----------------------------------------------------------------------------
\* Target checks.  busy says whether an operation is running.

CheckGoesTo(c, rec) == check' = [check EXCEPT ![c] = rec]
EndCheck(c) == lock' = 0 /\ CheckGoesTo(c, [NoCheck EXCEPT !.at = "done"])
Comes(c) == check[c].at = "new" /\ \A d \in Checks : d < c => check[d].at # "new"

\* The fingerprint the examiner confirms, or 0 to be shown it.
Asks(c) ==
  \E e \in HostKeys \cup {0} :
    /\ CheckGoesTo(c, [NoCheck EXCEPT !.at = "probe", !.expected = e])
    /\ confirmed' = confirmed \cup ({e} \ {0})

\* Defect: the lock is not taken.
BeginUnlocked(c, busy) ==
  /\ Comes(c) /\ ~busy
  /\ Asks(c)
  /\ UNCHANGED <<hosts, lock, starting>>

\* handleSSHHostKey.
BeginHostKey(c, busy) ==
  /\ Comes(c) /\ lock = 0 /\ ~busy
  /\ lock' = c
  /\ Asks(c)
  /\ UNCHANGED <<hosts, starting>>

\* probeSSHHostKey: the key the target presents now, and what known_hosts says
\* of it.
ProbeHostKey(c) ==
  /\ check[c].at = "probe"
  /\ \/ /\ ~torn
        /\ \E k \in HostKeys :
             CheckGoesTo(c, [check[c] EXCEPT !.at = "decide", !.key = k,
                               !.entry = IF k \in known THEN "trusted"
                                         ELSE IF known = {} THEN "none" ELSE "changed"])
        /\ UNCHANGED lock
     \/ EndCheck(c)
  /\ UNCHANGED <<hosts, confirmed, starting>>

Confirmed(c) == check[c].expected # 0

\* A changed key is refused; otherwise the fingerprint is shown.
AnswerHostKey(c) ==
  /\ check[c].at = "decide"
  /\ check[c].entry # "none" \/ ~Confirmed(c)
  /\ EndCheck(c)
  /\ UNCHANGED <<hosts, confirmed, starting>>

\* A new key with a confirmation: trusted only if it is the one confirmed.
TrustHostKey(c) ==
  /\ check[c].at = "decide" /\ check[c].entry = "none" /\ Confirmed(c)
  /\ \/ /\ check[c].expected = check[c].key
        /\ known' = known \cup {check[c].key}
        /\ UNCHANGED torn
     \/ /\ check[c].expected = check[c].key
        /\ torn' \in {torn, TRUE}
        /\ UNCHANGED known
     \/ check[c].expected # check[c].key /\ UNCHANGED hosts
  /\ EndCheck(c)
  /\ UNCHANGED <<confirmed, starting>>

\* handleInventory holds the same lock from the check to the answer; an
\* operation may start meanwhile.
BeginInventory(c, busy) ==
  /\ Comes(c) /\ lock = 0 /\ ~busy
  /\ lock' = c
  /\ CheckGoesTo(c, [NoCheck EXCEPT !.at = "collect"])
  /\ UNCHANGED <<hosts, confirmed, starting>>

EndInventory(c) ==
  /\ check[c].at = "collect"
  /\ EndCheck(c)
  /\ UNCHANGED <<hosts, confirmed, starting>>

TargetCheck(busy) ==
  \E c \in Checks :
    \/ BeginHostKey(c, busy) \/ ProbeHostKey(c) \/ AnswerHostKey(c) \/ TrustHostKey(c)
    \/ BeginInventory(c, busy) \/ EndInventory(c)

-----------------------------------------------------------------------------
\* Properties.

TrustTypeOK ==
  /\ private \in Processes \cup {0} /\ public \in Processes \cup {0}
  /\ known \subseteq HostKeys /\ confirmed \subseteq HostKeys /\ lock \in Checks \cup {0}

\* The application adds at most one key for a target, and one whose fingerprint
\* the examiner confirmed, even if checks overlap and the target presents another
\* key to each: a second key would make the first confirmation worthless.
OneConfirmedKey == Cardinality(known) <= 1 /\ known \subseteq confirmed

\* A process that comes to listen has a matching pair, also if an earlier start
\* died between the two files, unless two first starts overlapped.
PairMatches ==
  ~raced => \A p \in Processes :
              start[p] \in {"hosts", "listen", "serve"} => private = public /\ private # 0

=============================================================================
