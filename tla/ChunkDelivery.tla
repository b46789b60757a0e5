---------------------------- MODULE ChunkDelivery ----------------------------
(***************************************************************************)
(* What the transfer of a source promises, without frames, numbers, files  *)
(* or a log: sessions follow one another, and in each the bytes of the     *)
(* source reach the image in order and once, as this session read them,    *)
(* from where the image ends; what is in the image stays as it is; the     *)
(* sender is told of a chunk before the next one is delivered, and of      *)
(* nothing that is not there; "complete" is said of the whole source only. *)
(* Abstracts transferSession (internal/controller/controller.go) together  *)
(* with the stream command (cmd/imajer-agent/main.go).                     *)
(***************************************************************************)
EXTENDS Naturals, Sequences

CONSTANTS
    Extent,         \* bytes the source really holds
    Sizes           \* sizes a job may declare, 0 where it declares none

VARIABLES
    size,           \* the size the job declares
    image,          \* the bytes received so far, each with its session
    known,          \* what the sender believes is in the image
    session,        \* sessions started so far
    outcome         \* how the session stands, or ended

vars == << size, image, known, session, outcome >>

Ends == {"broken", "refused", "complete"}

Init ==
    /\ size \in Sizes
    /\ image = << >>
    /\ known = 0
    /\ session = 0
    /\ outcome = "idle"

(* A session goes on where the image ends; where no size is declared       *)
(* (memory) there is only one.                                             *)
Open ==
    /\ outcome = "idle" \/ (outcome \in {"broken", "refused"} /\ size > 0)
    /\ outcome' = "open"
    /\ session' = session + 1
    /\ known' = Len(image)
    /\ UNCHANGED << size, image >>

(* The next n bytes, which the sender knows are the next ones.             *)
Deliver(n) ==
    /\ outcome = "open"
    /\ known = Len(image)
    /\ Len(image) + n <= Extent
    /\ image' = image \o [i \in 1..n |-> << Len(image) + i - 1, session >>]
    /\ UNCHANGED << size, known, session, outcome >>

(* The sender hears of them.                                               *)
Learn ==
    /\ outcome = "open"
    /\ known' = Len(image)
    /\ UNCHANGED << size, image, session, outcome >>

Whole == Len(image) = IF size > 0 THEN size ELSE Extent

End(how) ==
    /\ outcome = "open"
    /\ how = "complete" => Whole
    /\ outcome' = how
    /\ known' = 0
    /\ UNCHANGED << size, image, session >>

Next ==
    \/ Open
    \/ \E n \in 1..Extent : Deliver(n)
    \/ Learn
    \/ \E how \in Ends : End(how)

Spec == Init /\ [][Next]_vars
=============================================================================
