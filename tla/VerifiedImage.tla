---------------------------- MODULE VerifiedImage ---------------------------
(***************************************************************************)
(* What the acquisition of a disk promises, without saying how: the image  *)
(* grows by appending the chunks of ever later read passes over a live     *)
(* source, nothing is ever taken back, and when it is complete it is       *)
(* sealed once, with the digest of exactly these contents.  The seal       *)
(* "verified_continuous" is given only when one pass delivered all of it.  *)
(* Abstracts the states and transitions of evidence.State.Status together  *)
(* with the chunk journal (internal/evidence/state.go).                    *)
(***************************************************************************)
EXTENDS Naturals, Sequences

CONSTANTS
  N,     \* size of the source, in chunks
  Data   \* contents a chunk may have

VARIABLES
  image,   \* the committed chunks, each with the read pass it came from
  claim,   \* "none" until the image is sealed
  digest   \* content digest of the sealed image

vars == <<image, claim, digest>>

Claims == {"verified_continuous", "chunk_verified_composite"}

Init ==
  /\ image = <<>>
  /\ claim = "none"
  /\ digest = <<>>

Chunk == [val : Data, pass : Nat]

\* A chunk is committed; read passes do not interleave.
Commit(c) ==
  /\ claim = "none" /\ Len(image) < N
  /\ c \in Chunk
  /\ \A i \in 1..Len(image) : image[i].pass <= c.pass
  /\ image' = Append(image, c)
  /\ UNCHANGED <<claim, digest>>

OnePass == \A i, j \in 1..Len(image) : image[i].pass = image[j].pass

\* The complete image is sealed.
Seal(c) ==
  /\ claim = "none" /\ Len(image) = N
  /\ c = "verified_continuous" => OnePass
  /\ claim' = c
  /\ digest' = [i \in 1..Len(image) |-> image[i].val]
  /\ UNCHANGED image

Next ==
  \/ image' # <<>> /\ Commit(image'[Len(image')])
  \/ \E c \in Claims : Seal(c)

Spec == Init /\ [][Next]_vars
=============================================================================
