--------------------------- MODULE SegmentedImage ---------------------------
(***************************************************************************)
(* The two pure algorithms under an image in parts: a logical offset       *)
(* addressed through segment files (internal/evidence/state.go,            *)
(* SegmentedWriter and readLogical), and the Merkle root of the chunk log  *)
(* folded from one node per level (merkleAccumulator).  A byte is any      *)
(* value, a file the sequence of its bytes; a SHA-256 digest is the value  *)
(* it is taken of, since no two values are assumed to share one.           *)
(***************************************************************************)
EXTENDS Integers, Sequences, SequencesExt

Hole == << >>                    \* a byte a file system returns for a gap

(* A write inside one file: it keeps what is around it, and a write beyond *)
(* the end leaves a hole.                                                  *)
Overwrite(file, within, piece) ==
    [i \in 1..(IF Len(file) > within + Len(piece)
               THEN Len(file) ELSE within + Len(piece)) |->
        IF i \in (within + 1)..(within + Len(piece)) THEN piece[i - within]
        ELSE IF i <= Len(file) THEN file[i]
        ELSE Hole]

\* the end of the segment forgotten
AllOfIt(n, offset, size) == n

(* How many of the n bytes at "offset" belong to the segment it falls in.  *)
InSegment(n, offset, size) ==
    LET room == size - (offset % size)
    IN  IF n > room THEN room ELSE n

\* a segment index computed once, from the start of the write
WriteAtStart(files, data, offset, size) ==
    LET write[k \in 0..Len(data)] ==
            IF k = Len(data) THEN files
            ELSE LET n == InSegment(Len(data) - k, offset + k, size)
                 IN  [write[k + n] EXCEPT ![offset \div size] =
                        Overwrite(@, (offset + k) % size,
                                  SubSeq(data, k + 1, k + n))]
    IN  write[0]

(* WriteAt: index and offset within the segment are computed again for     *)
(* every piece of the data.                                                *)
WriteAt(files, data, offset, size) ==
    LET write[k \in 0..Len(data)] ==
            IF k = Len(data) THEN files
            ELSE LET n == InSegment(Len(data) - k, offset + k, size)
                 IN  [write[k + n] EXCEPT ![(offset + k) \div size] =
                        Overwrite(@, (offset + k) % size,
                                  SubSeq(data, k + 1, k + n))]
    IN  write[0]

(* readLogical: the bytes of a logical range, shorter than asked for where *)
(* a segment ends too early (io.ErrUnexpectedEOF).                         *)
ReadLogical(files, offset, length, size) ==
    LET read[k \in 0..length] ==
            IF k = length THEN << >>
            ELSE LET n == InSegment(length - k, offset + k, size)
                     within == (offset + k) % size
                     file == files[(offset + k) \div size]
                 IN  SubSeq(file, within + 1,
                            IF within + n < Len(file)
                            THEN within + n ELSE Len(file)) \o read[k + n]
    IN  read[0]

(* VerifyChunks: every record's range, read back, has the record's digest. *)
VerifyChunks(files, records, size) ==
    \A r \in ToSet(records) :
        ReadLogical(files, r.offset, Len(r.digest), size) = r.digest

(* VerifyExistingChunk: the range is in the log with this digest and the   *)
(* bytes on disk still have it.                                            *)
VerifyExistingChunk(files, records, offset, digest, size) ==
    /\ \E r \in ToSet(records) : r.offset = offset /\ r.digest = digest
    /\ ReadLogical(files, offset, Len(digest), size) = digest

-----------------------------------------------------------------------------
(* The accumulator: levels[i] is free or the root of a full tree of        *)
(* 2^(i-1) leaves.  A leaf and a parent are hashed under different         *)
(* prefixes, so no leaf is a parent: tuples of different length here.      *)

Free == << >>
Leaf(digest) == << digest >>
MerkleParent(left, right) == << left, right >>
Empty(depth) == [i \in 1..depth |-> Free]

\* the carry joined on the wrong side of the level it meets
AddSwapped(levels, digest) ==
    LET free == CHOOSE i \in DOMAIN levels :
                    /\ levels[i] = Free
                    /\ \A j \in 1..(i - 1) : levels[j] # Free
        carry[i \in 1..free] == IF i = 1 THEN Leaf(digest)
                                ELSE MerkleParent(carry[i - 1], levels[i - 1])
    IN  [i \in DOMAIN levels |-> IF i < free THEN Free
                                 ELSE IF i = free THEN carry[i]
                                 ELSE levels[i]]

(* Add: the leaf is carried up through the occupied levels, which it       *)
(* clears, to the first free one.                                          *)
Add(levels, digest) ==
    LET free == CHOOSE i \in DOMAIN levels :
                    /\ levels[i] = Free
                    /\ \A j \in 1..(i - 1) : levels[j] # Free
        carry[i \in 1..free] == IF i = 1 THEN Leaf(digest)
                                ELSE MerkleParent(levels[i - 1], carry[i - 1])
    IN  [i \in DOMAIN levels |-> IF i < free THEN Free
                                 ELSE IF i = free THEN carry[i]
                                 ELSE levels[i]]

(* Root: the occupied levels joined from the lowest, the higher level on   *)
(* the left.  Of no leaf at all it is the hash of nothing.                 *)
Root(levels) ==
    FoldLeft(LAMBDA right, node : IF node = Free THEN right
                                  ELSE IF right = Free THEN node
                                  ELSE MerkleParent(node, right),
             Free, levels)

MerkleRoot(records, depth) ==
    Root(FoldLeft(LAMBDA levels, r : Add(levels, r.digest),
                  Empty(depth), records))

(* The reference of the repository's own test (state_test.go,              *)
(* referenceMerkleRoot): the tree level by level, an odd node promoted.    *)
ReferenceRoot(records) ==
    LET leaves == [i \in DOMAIN records |-> Leaf(records[i].digest)]
        Pairs(row) == [i \in 1..((Len(row) + 1) \div 2) |->
                         IF 2 * i > Len(row) THEN row[2 * i - 1]
                         ELSE MerkleParent(row[2 * i - 1], row[2 * i])]
        row[n \in 0..Len(records)] == IF n = 0 THEN leaves
                                      ELSE Pairs(row[n - 1])
    IN  IF records = << >> THEN Free ELSE row[Len(records)][1]
=============================================================================
