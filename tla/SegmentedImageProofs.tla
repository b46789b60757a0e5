------------------------- MODULE SegmentedImageProofs -------------------------
(***************************************************************************)
(* Proofs about the two recursive algorithms of SegmentedImage, for every  *)
(* segment size, range and number of records.                              *)
(*                                                                         *)
(* Induction is by least counterexample: a set of naturals without a least *)
(* element is empty.  A recursive function is the value that CHOOSE picks  *)
(* among the solutions of its equation, so each one is shown to have a     *)
(* solution, and only one: the closed form of what the loop in the code    *)
(* has done when it ends.                                                  *)
(*                                                                         *)
(* For an image: what WriteAt puts into each file, and what readLogical    *)
(* gets from them.  For the Merkle root: after n records the levels hold   *)
(* the binary digits of n (Held), and the row of the reference tree at     *)
(* each height is the full trees of that height with what the levels       *)
(* below have left over (Row).                                             *)
(***************************************************************************)
EXTENDS SegmentedImage, SequenceTheorems, WellFoundedInduction, TLAPS

-----------------------------------------------------------------------------
(* Induction. *)

LEMMA Least ==
  ASSUME NEW T, T \subseteq Nat, T # {}
  PROVE  \E n \in T : \A m \in T : n <= m
<1>. DEFINE R == OpToRel(<, Nat)
<1>1. IsWellFoundedOn(R, Nat)
  BY NatLessThanWellFounded
<1>2. \A x, y \in Nat : y < x => << y, x >> \in R
  BY DEF OpToRel
<1>. HIDE DEF R
<1>3. PICK n \in T : \A m \in T : ~ (<< m, n >> \in R)
  BY <1>1, WFMin
<1>4. \A m \in T : ~(m < n) /\ m \in Nat /\ n \in Nat
  BY <1>2, <1>3
<1>5. \A m \in T : n <= m
  BY <1>4
<1>. QED
  BY <1>3, <1>5

LEMMA Induction ==
  ASSUME NEW T, 0 \in T, \A n \in Nat : n \in T => n + 1 \in T
  PROVE  \A n \in Nat : n \in T
<1>1. ASSUME Nat \ T # {} PROVE FALSE
  <2>1. PICK n \in Nat \ T : \A m \in Nat \ T : n <= m
    BY <1>1, Least
  <2>2. n - 1 \in Nat /\ n - 1 \in T
    BY <2>1
  <2>. QED
    BY <2>1, <2>2
<1>. QED
  BY <1>1

-----------------------------------------------------------------------------
(* Sequences of values that form no set of their own. *)

IsSeq(s) == \E S : s \in Seq(S)

LEMMA EmptyIsSeq == IsSeq(<< >>) /\ Len(<< >>) = 0
  BY DEF IsSeq

LEMMA AppendTo ==
  ASSUME NEW s, IsSeq(s), NEW e
  PROVE  /\ IsSeq(Append(s, e)) /\ Len(s) \in Nat
         /\ Len(Append(s, e)) = Len(s) + 1
         /\ \A i \in 1..Len(s) : Append(s, e)[i] = s[i]
         /\ Append(s, e)[Len(s) + 1] = e
<1>1. PICK S : s \in Seq(S)
  BY DEF IsSeq
<1>2. s \in Seq(S \cup {e}) /\ e \in S \cup {e}
  BY <1>1
<1>. QED
  BY <1>2, AppendProperties DEF IsSeq

LEMMA FunctionIsSeq ==
  ASSUME NEW n \in Nat, NEW f, DOMAIN f = 1..n, f = [i \in 1..n |-> f[i]]
  PROVE  IsSeq(f) /\ Len(f) = n
<1>. DEFINE S == {f[i] : i \in 1..n}
<1>1. \A i \in 1..n : f[i] \in S
  OBVIOUS
<1>. HIDE DEF S
<1>2. f \in [1..n -> S]
  BY ONLY <1>1, f = [i \in 1..n |-> f[i]]
<1>3. f \in Seq(S)
  BY <1>2
<1>4. Len(f) \in Nat /\ DOMAIN f = 1..Len(f)
  BY <1>3
<1>. QED
  BY <1>3, <1>4 DEF IsSeq

LEMMA TailOf ==
  ASSUME NEW s, IsSeq(s), s # << >>
  PROVE  /\ IsSeq(Tail(s)) /\ Len(s) \in Nat /\ Len(s) >= 1 /\ Head(s) = s[1]
         /\ Len(Tail(s)) = Len(s) - 1
         /\ \A i \in 1..Len(Tail(s)) : Tail(s)[i] = s[i + 1]
<1>1. PICK S : s \in Seq(S)
  BY DEF IsSeq
<1>2. Head(s) = s[1] /\ Len(s) \in Nat /\ Len(s) >= 1
  BY <1>1
<1>. QED
  BY <1>1, <1>2, HeadTailProperties DEF IsSeq

LEMMA DomainOfSeq ==
  ASSUME NEW s, IsSeq(s)
  PROVE  Len(s) \in Nat /\ DOMAIN s = 1..Len(s) /\ (s # << >> => Len(s) >= 1)
  BY DEF IsSeq

LEMMA SameSeq ==
  ASSUME NEW s, IsSeq(s), NEW t, IsSeq(t), Len(s) = Len(t),
         \A i \in 1..Len(s) : s[i] = t[i]
  PROVE  s = t
<1>1. PICK S : s \in Seq(S)
  BY DEF IsSeq
<1>2. PICK T : t \in Seq(T)
  BY DEF IsSeq
<1>3. s \in Seq(S \cup T) /\ t \in Seq(S \cup T)
  BY <1>1, <1>2
<1>. QED
  BY <1>3, SeqEqual

(* "both" is the second sequence after the first. *)
Extends(both, s, t) ==
    /\ IsSeq(both) /\ Len(both) = Len(s) + Len(t)
    /\ \A i \in 1..Len(s) : both[i] = s[i]
    /\ \A i \in 1..Len(t) : both[Len(s) + i] = t[i]

LEMMA ConcatOf ==
  ASSUME NEW s, IsSeq(s), NEW t, IsSeq(t)
  PROVE  Extends(s \o t, s, t)
<1>1. PICK S : s \in Seq(S)
  BY DEF IsSeq
<1>2. PICK T : t \in Seq(T)
  BY DEF IsSeq
<1>3. s \in Seq(S \cup T) /\ t \in Seq(S \cup T)
  BY <1>1, <1>2
<1>4. /\ s \o t \in Seq(S \cup T) /\ Len(s \o t) = Len(s) + Len(t)
      /\ \A i \in 1..(Len(s) + Len(t)) :
           (s \o t)[i] = IF i <= Len(s) THEN s[i] ELSE t[i - Len(s)]
  BY ONLY <1>3, ConcatProperties
<1>5. Len(s) \in Nat /\ Len(t) \in Nat
  BY <1>3
<1>6. \A i \in 1..Len(s) : (s \o t)[i] = s[i]
  BY <1>4, <1>5
<1>7. ASSUME NEW i \in 1..Len(t) PROVE (s \o t)[Len(s) + i] = t[i]
  <2>1. Len(s) + i \in 1..(Len(s) + Len(t)) /\ ~(Len(s) + i <= Len(s))
        /\ (Len(s) + i) - Len(s) = i
    BY <1>5
  <2>. QED
    BY <1>4, <2>1
<1>. QED
  BY <1>4, <1>6, <1>7 DEF IsSeq, Extends

(* "part" is the sequence from its place m to its place n. *)
IsPart(part, s, m, n) ==
    /\ IsSeq(part) /\ Len(part) = n - m + 1
    /\ \A i \in 1..(n - m + 1) : part[i] = s[m + i - 1]

LEMMA SubSeqOf ==
  ASSUME NEW s, IsSeq(s), NEW m \in Nat, NEW n \in Nat, 1 <= m, m <= n, n <= Len(s)
  PROVE  IsPart(SubSeq(s, m, n), s, m, n)
<1>1. PICK S : s \in Seq(S)
  BY DEF IsSeq
<1>2. m \in Int /\ n \in Int /\ \A i \in m..n : s[i] \in S
  BY <1>1
<1>3. /\ SubSeq(s, m, n) \in Seq(S) /\ Len(SubSeq(s, m, n)) = IF m <= n THEN n - m + 1 ELSE 0
      /\ \A i \in 1..(n - m + 1) : SubSeq(s, m, n)[i] = s[m + i - 1]
  BY ONLY <1>2, SubSeqProperties
<1>. QED
  BY <1>3 DEF IsSeq, IsPart

-----------------------------------------------------------------------------
(* Addressing: where a logical offset falls. *)

LEMMA Division ==
  ASSUME NEW p \in Nat, NEW size \in Nat \ {0}
  PROVE  /\ p \div size \in Nat /\ p % size \in Nat
         /\ p = (p \div size) * size + (p % size)
         /\ p % size < size
  OBVIOUS

LEMMA Product ==
  ASSUME NEW s \in Nat, NEW size \in Nat \ {0}
  PROVE  s * size \in Nat
  OBVIOUS

(* Segments do not overlap. *)
LEMMA Apart ==
  ASSUME NEW s \in Nat, NEW t \in Nat, s < t, NEW size \in Nat \ {0}
  PROVE  s * size + size <= t * size
<1>1. PICK d \in Nat : t = s + 1 + d
  BY t - s - 1 \in Nat
<1>2. t * size = s * size + size + d * size
  BY <1>1
<1>3. d * size \in Nat
  OBVIOUS
<1>. QED
  BY <1>2, <1>3, Product

LEMMA Within ==
  ASSUME NEW s \in Nat, NEW size \in Nat \ {0}, NEW p \in Nat,
         s * size <= p, p < s * size + size
  PROVE  p \div size = s /\ p % size = p - s * size
<1>1. s * size \in Nat
  BY Product
<1>2. CASE p \div size < s
  BY <1>1, <1>2, Division, Apart
<1>3. CASE p \div size > s
  BY <1>1, <1>3, Division, Apart, Product
<1>4. p \div size = s
  BY <1>2, <1>3, Division
<1>. QED
  BY <1>1, <1>4, Division

(* The logical offset at which a segment starts. *)
Starts(size) == [s \in Nat |-> s * size]

LEMMA StartsAre ==
  ASSUME NEW size \in Nat \ {0}
  PROVE  /\ Starts(size) \in [Nat -> Nat]
         /\ \A s, t \in Nat : s < t => Starts(size)[s] + size <= Starts(size)[t]
         /\ Starts(size)[0] = 0
<1>1. \A s \in Nat : Starts(size)[s] = s * size /\ s * size \in Nat
  BY Product DEF Starts
<1>2. Starts(size) \in [Nat -> Nat]
  BY <1>1 DEF Starts
<1>3. \A s, t \in Nat : s < t => Starts(size)[s] + size <= Starts(size)[t]
  BY <1>1, Apart
<1>4. 0 * size = 0
  OBVIOUS
<1>. QED
  BY <1>1, <1>2, <1>3, <1>4

LEMMA StartsDivide ==
  ASSUME NEW size \in Nat \ {0}, NEW s \in Nat, NEW p \in Nat,
         Starts(size)[s] <= p, p < Starts(size)[s] + size
  PROVE  p \div size = s /\ p % size = p - Starts(size)[s]
<1>1. Starts(size)[s] = s * size /\ s * size \in Nat
  BY Product DEF Starts
<1>2. s * size <= p /\ p < s * size + size
  BY <1>1
<1>3. p \div size = s /\ p % size = p - s * size
  BY <1>2, Within
<1>. QED
  BY <1>1, <1>3

(* A step of either loop stays in one segment, and goes to its end or to   *)
(* the end of what is left. *)
LEMMA InOneSegment ==
  ASSUME NEW p \in Nat, NEW rest \in Nat \ {0}, NEW size \in Nat \ {0}
  PROVE  LET n == InSegment(rest, p, size)
             start == Starts(size)[p \div size]
         IN  /\ n \in 1..rest
             /\ p \div size \in Nat /\ start \in Nat
             /\ p % size = p - start
             /\ start <= p /\ p < start + size
             /\ p + n = IF p + rest < start + size THEN p + rest
                        ELSE start + size
<1>1. PICK t \in Nat : t = p \div size
  BY Division
<1>2. PICK w \in Nat : w = p % size
  BY Division
<1>3. PICK start \in Nat : start = Starts(size)[t] /\ start = t * size
  BY <1>1, Product DEF Starts
<1>4. w < size /\ p = start + w
  BY <1>1, <1>2, <1>3, Division
<1>5. InSegment(rest, p, size) = IF rest > size - w THEN size - w ELSE rest
  BY <1>2 DEF InSegment
<1>6. LET n == InSegment(rest, p, size)
      IN  /\ n \in 1..rest
          /\ w = p - start /\ start <= p /\ p < start + size
          /\ p + n = IF p + rest < start + size THEN p + rest ELSE start + size
  BY <1>4, <1>5
<1>. QED
  BY <1>1, <1>2, <1>3, <1>6

-----------------------------------------------------------------------------
(* Writing. *)

From(p, s, size) == IF p > Starts(size)[s] THEN p ELSE Starts(size)[s]

To(p, s, size) == IF p < Starts(size)[s] + size THEN p
                  ELSE Starts(size)[s] + size

(* What is written of the data from its byte k on, one file at a time. *)
Written(files, data, offset, size, k) ==
    [s \in DOMAIN files |->
        IF From(offset + k, s, size) < To(offset + Len(data), s, size)
        THEN Overwrite(files[s], From(offset + k, s, size) - Starts(size)[s],
                SubSeq(data, From(offset + k, s, size) - offset + 1,
                       To(offset + Len(data), s, size) - offset))
        ELSE files[s]]

(* How far the loop goes in one turn, and what it writes in it. *)
WriteTurn(data, offset, size, k) == InSegment(Len(data) - k, offset + k, size)

WriteOne(files, data, offset, size, k) ==
    [files EXCEPT ![(offset + k) \div size] =
        Overwrite(@, (offset + k) % size,
                  SubSeq(data, k + 1, k + WriteTurn(data, offset, size, k)))]

LEMMA WrittenAtTheEnd ==
  ASSUME NEW files, files = [s \in DOMAIN files |-> files[s]],
         DOMAIN files \subseteq Nat, NEW data, IsSeq(data),
         NEW offset \in Nat, NEW size \in Nat \ {0}
  PROVE  Written(files, data, offset, size, Len(data)) = files
<1>1. Len(data) \in Nat
  BY DomainOfSeq
<1>2. \A s \in DOMAIN files :
        ~(From(offset + Len(data), s, size) < To(offset + Len(data), s, size))
  <2>. TAKE s \in DOMAIN files
  <2>1. Starts(size)[s] \in Nat
    BY StartsAre
  <2>. QED
    BY <1>1, <2>1 DEF From, To
<1>. QED
  BY <1>2 DEF Written

LEMMA WrittenInATurn ==
  ASSUME NEW files, DOMAIN files \subseteq Nat, NEW data, IsSeq(data),
         NEW offset \in Nat, NEW size \in Nat \ {0}, NEW k \in 0..(Len(data) - 1)
  PROVE  LET n == WriteTurn(data, offset, size, k)
         IN  /\ n \in 1..(Len(data) - k)
             /\ Written(files, data, offset, size, k) =
                  WriteOne(Written(files, data, offset, size, k + n),
                           data, offset, size, k)
<1>1. Len(data) \in Nat
  BY DomainOfSeq
<1>2. PICK p \in Nat : p = offset + k
  OBVIOUS
<1>3. PICK rest \in Nat \ {0} : rest = Len(data) - k
  BY <1>1
<1>4. PICK t : t = p \div size
  OBVIOUS
<1>5. PICK n : n = InSegment(rest, p, size)
  OBVIOUS
<1>6. /\ n \in 1..rest /\ t \in Nat /\ Starts(size)[t] \in Nat
      /\ p % size = p - Starts(size)[t]
      /\ Starts(size)[t] <= p /\ p < Starts(size)[t] + size
      /\ p + n = IF p + rest < Starts(size)[t] + size THEN p + rest
                 ELSE Starts(size)[t] + size
  BY <1>4, <1>5, InOneSegment
<1>7. PICK start \in Nat : start = Starts(size)[t]
  BY <1>6
<1>8. /\ n \in 1..(Len(data) - k)
      /\ start <= offset + k /\ offset + k < start + size
      /\ offset + k + n = IF offset + Len(data) < start + size
                          THEN offset + Len(data) ELSE start + size
  <2>1. /\ n \in 1..rest /\ start <= p /\ p < start + size
        /\ p + n = IF p + rest < start + size THEN p + rest ELSE start + size
    BY <1>6, <1>7
  <2>. QED
    BY <1>1, <1>2, <1>3, <2>1
<1>. DEFINE before == Written(files, data, offset, size, k + n)
            after == Written(files, data, offset, size, k)
<1>9. ASSUME NEW s \in DOMAIN files, s # t
      PROVE  after[s] = before[s]
  <2>1. PICK base \in Nat : base = Starts(size)[s]
    BY StartsAre
  <2>2. s \in Nat /\ t \in Nat
    BY <1>6
  <2>3. base + size <= start \/ start + size <= base
    <3>1. s < t \/ t < s
      BY <1>9, <2>2
    <3>. QED
      BY <1>7, <2>1, <2>2, <3>1, StartsAre
  <2>4. CASE base + size <= start
    <3>1. offset + k > base /\ offset + (k + n) > base /\ offset + Len(data) >= base + size
      BY <1>1, <1>8, <2>4
    <3>2. /\ From(offset + k, s, size) = offset + k
          /\ From(offset + (k + n), s, size) = offset + (k + n)
      BY <2>1, <3>1 DEF From
    <3>3. To(offset + Len(data), s, size) = base + size
      BY <1>1, <2>1, <3>1 DEF To
    <3>4. ~(offset + k < base + size) /\ ~(offset + (k + n) < base + size)
      BY <1>1, <1>8, <2>4
    <3>. QED
      BY <3>2, <3>3, <3>4, <1>9 DEF Written
  <2>5. CASE start + size <= base
    <3>1. ~(offset + k > base) /\ (offset + (k + n) > base => offset + (k + n) = base)
      BY <1>1, <1>8, <2>5
    <3>2. From(offset + k, s, size) = base /\ From(offset + (k + n), s, size) = base
      BY <2>1, <3>1 DEF From
    <3>. QED
      BY <3>2, <1>9 DEF Written
  <2>. QED
    BY <2>3, <2>4, <2>5
<1>10. ASSUME t \in DOMAIN files
       PROVE  after[t] = Overwrite(before[t], p % size, SubSeq(data, k + 1, k + n))
  <2>0. /\ offset + k > start \/ offset + k = start
        /\ offset + (k + n) > start /\ offset + (k + n) = offset + k + n
    BY <1>1, <1>8
  <2>1. /\ From(offset + k, t, size) = offset + k
        /\ From(offset + (k + n), t, size) = offset + k + n
    BY <1>7, <2>0 DEF From
  <2>2. To(offset + Len(data), t, size) = offset + k + n
    BY <1>1, <1>7, <1>8 DEF To
  <2>3. /\ offset + k - offset + 1 = k + 1 /\ (offset + k + n) - offset = k + n
        /\ offset + k < offset + k + n /\ ~(offset + k + n < offset + k + n)
    BY <1>1, <1>8
  <2>4. before[t] = files[t]
    BY <1>10, <2>1, <2>2, <2>3 DEF Written
  <2>5. after[t] = Overwrite(files[t], offset + k - start, SubSeq(data, k + 1, k + n))
    BY <1>7, <1>10, <2>1, <2>2, <2>3 DEF Written
  <2>6. p % size = offset + k - start
    <3>1. p % size = p - Starts(size)[t]
      BY <1>6
    <3>2. p - Starts(size)[t] = offset + k - start
      BY <1>2, <1>7
    <3>. QED
      BY <3>1, <3>2
  <2>. QED
    BY <2>4, <2>5, <2>6
<1>11. /\ DOMAIN after = DOMAIN files /\ DOMAIN before = DOMAIN files
       /\ after = [s \in DOMAIN files |-> after[s]]
  BY DEF Written
<1>12. after = [before EXCEPT ![t] = Overwrite(@, p % size, SubSeq(data, k + 1, k + n))]
  <2>. HIDE DEF before, after
  <2>. QED
    BY <1>9, <1>10, <1>11
<1>. QED
  <2>. HIDE DEF before, after
  <2>1. /\ n = InSegment(Len(data) - k, offset + k, size)
        /\ t = (offset + k) \div size /\ p % size = (offset + k) % size
    BY <1>2, <1>3, <1>4, <1>5
  <2>. QED
    BY <1>8, <1>12, <2>1 DEF before, after, WriteTurn, WriteOne

(* The loop of WriteAt is the equation of a recursive function.  It has a  *)
(* solution and only one, so the loop does what Written says.              *)
LEMMA WriteAtIsWritten ==
  ASSUME NEW files, files = [s \in DOMAIN files |-> files[s]],
         DOMAIN files \subseteq Nat, NEW data, IsSeq(data),
         NEW offset \in Nat, NEW size \in Nat \ {0}
  PROVE  WriteAt(files, data, offset, size) = Written(files, data, offset, size, 0)
<1>. DEFINE N(k) == WriteTurn(data, offset, size, k)
            W(k) == Written(files, data, offset, size, k)
            Next(w, k) == WriteOne(w[k + N(k)], data, offset, size, k)
            Writes(w) == w = [k \in 0..Len(data) |->
                                IF k = Len(data) THEN files ELSE Next(w, k)]
<1>1. Len(data) \in Nat
  BY DomainOfSeq
<1>2. W(Len(data)) = files
  BY WrittenAtTheEnd
<1>3. ASSUME NEW k \in 0..(Len(data) - 1)
      PROVE  /\ N(k) \in 1..(Len(data) - k)
             /\ W(k) = WriteOne(W(k + N(k)), data, offset, size, k)
  BY WrittenInATurn
<1>4. \E w : Writes(w)
  <2>. DEFINE w == [k \in 0..Len(data) |-> W(k)]
  <2>. HIDE DEF W, N
  <2>1. ASSUME NEW k \in 0..Len(data)
        PROVE  W(k) = IF k = Len(data) THEN files ELSE Next(w, k)
    <3>1. CASE k = Len(data)
      BY <1>2, <3>1
    <3>2. CASE k # Len(data)
      <4>1. k \in 0..(Len(data) - 1) /\ k + N(k) \in 0..Len(data)
        BY <1>1, <1>3, <3>2
      <4>2. w[k + N(k)] = W(k + N(k))
        BY <4>1
      <4>. QED
        BY <1>3, <3>2, <4>1, <4>2
    <3>. QED
      BY <3>1, <3>2
  <2>2. Writes(w)
    BY <2>1
  <2>. QED
    BY <2>2
<1>5. ASSUME NEW w, Writes(w)
      PROVE  w[0] = W(0)
  <2>. HIDE DEF W, N
  <2>. HIDE DEF Next
  <2>1. /\ w[Len(data)] = files
        /\ \A k \in 0..(Len(data) - 1) : w[k] = Next(w, k)
    <3>1. \A k \in 0..Len(data) : w[k] = IF k = Len(data) THEN files ELSE Next(w, k)
      BY <1>5
    <3>. QED
      BY <1>1, <3>1
  <2>. DEFINE Done == {d \in Nat : \A k \in 0..Len(data) : Len(data) - k <= d => w[k] = W(k)}
  <2>2. 0 \in Done
    BY <1>1, <1>2, <2>1
  <2>3. ASSUME NEW d \in Nat, d \in Done
        PROVE  d + 1 \in Done
    <3>. SUFFICES ASSUME NEW k \in 0..Len(data), Len(data) - k <= d + 1, k # Len(data)
                  PROVE  w[k] = W(k)
      BY <1>1, <1>2, <2>1
    <3>1. k \in 0..(Len(data) - 1) /\ k + N(k) \in 0..Len(data)
          /\ Len(data) - (k + N(k)) <= d
      BY <1>1, <1>3
    <3>2. w[k + N(k)] = W(k + N(k))
      BY <2>3, <3>1
    <3>3. W(k) = Next(w, k)
      BY <1>3, <3>1, <3>2 DEF Next
    <3>. QED
      BY <2>1, <3>1, <3>3
  <2>. HIDE DEF Done
  <2>4. \A d \in Nat : d \in Done
    BY <2>2, <2>3, Induction
  <2>. QED
    BY <1>1, <2>4 DEF Done
<1>6. WriteAt(files, data, offset, size) = (CHOOSE w : Writes(w))[0]
  BY DEF WriteAt, WriteOne, WriteTurn
<1>. HIDE DEF Writes, W
<1>7. Writes(CHOOSE w : Writes(w))
  BY <1>4
<1>. QED
  BY <1>5, <1>6, <1>7 DEF W

-----------------------------------------------------------------------------
(* An image written from its start to offset n. *)

(* How many of its first n bytes are in the segment that starts at "start". *)
Portion(n, start, size) == IF n <= start THEN 0
                           ELSE IF n < start + size THEN n - start
                           ELSE size

Fills(files, n, size) ==
    \A s \in DOMAIN files :
        /\ IsSeq(files[s])
        /\ Len(files[s]) = Portion(n, Starts(size)[s], size)

Byte(files, p, size) == files[p \div size][(p % size) + 1]

LEMMA OverwriteAtTheEnd ==
  ASSUME NEW file, IsSeq(file), NEW piece, IsSeq(piece)
  PROVE  Extends(Overwrite(file, Len(file), piece), file, piece)
<1>. DEFINE after == Overwrite(file, Len(file), piece)
<1>1. Len(file) \in Nat /\ Len(piece) \in Nat
  BY DomainOfSeq
<1>2. ~(Len(file) > Len(file) + Len(piece)) /\ Len(file) + Len(piece) \in Nat
  BY <1>1
<1>3. after = [i \in 1..(Len(file) + Len(piece)) |->
                IF i \in (Len(file) + 1)..(Len(file) + Len(piece)) THEN piece[i - Len(file)]
                ELSE IF i <= Len(file) THEN file[i] ELSE Hole]
  BY <1>2 DEF Overwrite
<1>. HIDE DEF after
<1>4. IsSeq(after) /\ Len(after) = Len(file) + Len(piece)
  <2>1. DOMAIN after = 1..(Len(file) + Len(piece))
        /\ after = [i \in 1..(Len(file) + Len(piece)) |-> after[i]]
    BY <1>3
  <2>. QED
    BY <1>2, <2>1, FunctionIsSeq
<1>5. ASSUME NEW i \in 1..Len(file) PROVE after[i] = file[i]
  <2>1. i \in 1..(Len(file) + Len(piece)) /\ i \notin (Len(file) + 1)..(Len(file) + Len(piece))
        /\ i <= Len(file)
    BY <1>1
  <2>. QED
    BY <1>3, <2>1
<1>6. ASSUME NEW i \in 1..Len(piece) PROVE after[Len(file) + i] = piece[i]
  <2>1. /\ Len(file) + i \in 1..(Len(file) + Len(piece))
        /\ Len(file) + i \in (Len(file) + 1)..(Len(file) + Len(piece))
        /\ (Len(file) + i) - Len(file) = i
    BY <1>1
  <2>. QED
    BY <1>3, <2>1
<1>. QED
  BY <1>4, <1>5, <1>6 DEF after, Extends

(* WriteAt at the end of what is written: every file holds its part of the *)
(* data after its part of what was there. *)
LEMMA WriteAtTheEnd ==
  ASSUME NEW files, files = [s \in DOMAIN files |-> files[s]],
         DOMAIN files \subseteq Nat, NEW size \in Nat \ {0},
         NEW n \in Nat, Fills(files, n, size), NEW data, IsSeq(data)
  PROVE  LET after == WriteAt(files, data, n, size)
         IN  /\ after = [s \in DOMAIN files |-> after[s]]
             /\ Fills(after, n + Len(data), size)
             /\ \A s \in DOMAIN files : \A i \in 1..Len(after[s]) :
                  after[s][i] = IF Starts(size)[s] + i <= n THEN files[s][i]
                                ELSE data[Starts(size)[s] + i - n]
<1>. DEFINE after == WriteAt(files, data, n, size)
            full == n + Len(data)
<1>1. after = Written(files, data, n, size, 0)
  BY WriteAtIsWritten
<1>2. Len(data) \in Nat /\ n + 0 = n
  BY DomainOfSeq
<1>. HIDE DEF after
<1>3. after = [s \in DOMAIN files |-> after[s]] /\ DOMAIN after = DOMAIN files
  BY <1>1 DEF Written
<1>4. ASSUME NEW s \in DOMAIN files
      PROVE  /\ IsSeq(after[s])
             /\ Len(after[s]) = Portion(full, Starts(size)[s], size)
             /\ \A i \in 1..Len(after[s]) :
                  after[s][i] = IF Starts(size)[s] + i <= n THEN files[s][i]
                                ELSE data[Starts(size)[s] + i - n]
  <2>1. PICK start \in Nat : start = Starts(size)[s]
    BY StartsAre
  <2>2. PICK from \in Nat : from = From(n, s, size)
    BY <2>1 DEF From
  <2>3. PICK to \in Nat : to = To(full, s, size)
    BY <1>2, <2>1 DEF To
  <2>4. from = (IF n > start THEN n ELSE start)
        /\ to = (IF full < start + size THEN full ELSE start + size)
    BY <2>1, <2>2, <2>3 DEF From, To
  <2>5. IsSeq(files[s]) /\ Len(files[s]) = Portion(n, start, size)
    BY <2>1 DEF Fills
  <2>6. after[s] = IF from < to
                   THEN Overwrite(files[s], from - start,
                                  SubSeq(data, from - n + 1, to - n))
                   ELSE files[s]
    BY <1>1, <1>2, <2>1, <2>2, <2>3 DEF Written
  <2>7. CASE ~(from < to)
    <3>1. Portion(full, start, size) = Portion(n, start, size)
      BY <1>2, <2>4, <2>7 DEF Portion
    <3>2. Portion(full, start, size) \in Nat
          /\ \A i \in 1..Portion(full, start, size) : start + i <= n
      BY <1>2, <2>4, <2>7 DEF Portion
    <3>. QED
      BY <2>1, <2>5, <2>6, <2>7, <3>1, <3>2
  <2>8. CASE from < to
    <3>1. PICK m \in Nat, e \in Nat : m = from - n + 1 /\ e = to - n
      BY <1>2, <2>4, <2>8
    <3>9. from >= n
      BY <2>4
    <3>7. 1 <= m /\ m <= e /\ e - m + 1 = to - from
      BY <2>8, <3>1, <3>9
    <3>8. e <= Len(data)
      BY <1>2, <2>4, <3>1
    <3>. DEFINE piece == SubSeq(data, m, e)
    <3>2. /\ IsSeq(piece) /\ Len(piece) = to - from
          /\ \A i \in 1..(to - from) : piece[i] = data[m + i - 1]
      <4>1. /\ IsSeq(piece) /\ Len(piece) = e - m + 1
            /\ \A i \in 1..(e - m + 1) : piece[i] = data[m + i - 1]
        BY <3>7, <3>8, SubSeqOf, SMTT(30) DEF IsPart
      <4>. QED
        BY <3>7, <4>1
    <3>. HIDE DEF piece
    <3>3. Len(files[s]) = from - start
      BY <2>4, <2>5, <2>8 DEF Portion
    <3>4. after[s] = Overwrite(files[s], Len(files[s]), piece)
      BY <2>6, <2>8, <3>1, <3>3 DEF piece
    <3>5. /\ IsSeq(after[s]) /\ Len(after[s]) = (from - start) + (to - from)
          /\ \A i \in 1..(from - start) : after[s][i] = files[s][i]
          /\ \A i \in 1..(to - from) : after[s][(from - start) + i] = piece[i]
      <4>1. Extends(after[s], files[s], piece)
        BY <2>5, <3>2, <3>4, OverwriteAtTheEnd
      <4>. QED
        BY <3>2, <3>3, <4>1 DEF Extends
    <3>6. Portion(full, start, size) = to - start /\ (from - start) + (to - from) = to - start
      BY <1>2, <2>4, <2>8 DEF Portion
    <3>10. ASSUME NEW i \in 1..(to - start)
          PROVE  after[s][i] = IF start + i <= n THEN files[s][i] ELSE data[start + i - n]
      <4>1. CASE i <= from - start
        <5>1. i \in 1..(from - start) /\ start + i <= n
          BY <2>4, <4>1
        <5>. QED
          BY <3>5, <5>1
      <4>2. CASE ~(i <= from - start)
        <5>1. PICK j \in Nat : j = i - (from - start)
          BY <4>2
        <5>2. j \in 1..(to - from) /\ i = (from - start) + j /\ start + i = from + j
          BY <4>2, <5>1
        <5>3. ~(start + i <= n) /\ m + j - 1 = start + i - n
          BY <3>9, <3>1, <5>2
        <5>. QED
          BY <3>2, <3>5, <5>2, <5>3
      <4>. QED
        BY <4>1, <4>2
    <3>. QED
      BY <2>1, <3>5, <3>6, <3>10
  <2>. QED
    BY <2>7, <2>8
<1>. QED
  BY <1>3, <1>4 DEF Fills, after

(* Where a byte is. *)
LEMMA Located ==
  ASSUME NEW p \in Nat, NEW size \in Nat \ {0}
  PROVE  LET start == Starts(size)[p \div size]
         IN  /\ p \div size \in Nat /\ start \in Nat
             /\ start <= p /\ p < start + size /\ p % size = p - start
  BY InOneSegment, 1 \in Nat \ {0}

(* There is a file for each of the first n bytes. *)
Covers(files, n, size) == \A p \in 0..(n - 1) : p \div size \in DOMAIN files

(* What was written stays, and the data follows it, byte by byte. *)
LEMMA BytesAtTheEnd ==
  ASSUME NEW files, files = [s \in DOMAIN files |-> files[s]],
         DOMAIN files \subseteq Nat, NEW size \in Nat \ {0},
         NEW n \in Nat, Fills(files, n, size), NEW data, IsSeq(data),
         Covers(files, n + Len(data), size), NEW p \in Nat, p < n + Len(data)
  PROVE  Byte(WriteAt(files, data, n, size), p, size) =
            IF p < n THEN Byte(files, p, size) ELSE data[p - n + 1]
<1>. DEFINE after == WriteAt(files, data, n, size)
            full == n + Len(data)
<1>1. /\ Fills(after, full, size) /\ after = [s \in DOMAIN files |-> after[s]]
      /\ \A s \in DOMAIN files : \A i \in 1..Len(after[s]) :
           after[s][i] = IF Starts(size)[s] + i <= n THEN files[s][i]
                         ELSE data[Starts(size)[s] + i - n]
  BY WriteAtTheEnd
<1>2. Len(data) \in Nat
  BY DomainOfSeq
<1>. HIDE DEF after
<1>3. PICK t \in DOMAIN files : t = p \div size
  BY <1>2 DEF Covers
<1>4. PICK start \in Nat : start = Starts(size)[t]
  BY <1>3, Located
<1>5. /\ start <= p /\ p < start + size
  BY <1>3, <1>4, Located
<1>6. PICK i \in Nat : i = (p % size) + 1
  BY Division
<1>7. i = p - start + 1
  BY <1>3, <1>4, <1>6, Located
<1>8. Len(after[t]) = Portion(full, start, size)
  BY <1>1, <1>3, <1>4 DEF Fills
<1>9. i \in 1..Len(after[t])
  BY <1>2, <1>5, <1>7, <1>8, SMTT(30) DEF Portion
<1>10. after[t][i] = IF start + i <= n THEN files[t][i] ELSE data[start + i - n]
  BY <1>1, <1>3, <1>4, <1>9
<1>11. (start + i <= n <=> p < n) /\ start + i - n = p - n + 1
  BY <1>7, SMTT(30)
<1>12. Byte(after, p, size) = after[t][i] /\ Byte(files, p, size) = files[t][i]
  BY <1>3, <1>6 DEF Byte
<1>. QED
  BY <1>10, <1>11, <1>12 DEF after

-----------------------------------------------------------------------------
(* Reading. *)

(* The bytes at offset "offset" of an image. *)
BytesAt(files, offset, length, size) ==
    [i \in 1..length |-> Byte(files, offset + i - 1, size)]

AreBytes(bytes, files, offset, length, size) ==
    /\ IsSeq(bytes) /\ Len(bytes) = length
    /\ \A i \in 1..length : bytes[i] = Byte(files, offset + i - 1, size)

LEMMA BytesAtAre ==
  ASSUME NEW files, NEW offset, NEW length \in Nat, NEW size
  PROVE  AreBytes(BytesAt(files, offset, length, size), files, offset, length, size)
<1>. DEFINE bytes == BytesAt(files, offset, length, size)
<1>1. /\ DOMAIN bytes = 1..length /\ bytes = [i \in 1..length |-> bytes[i]]
      /\ \A i \in 1..length : bytes[i] = Byte(files, offset + i - 1, size)
  BY DEF BytesAt
<1>. HIDE DEF bytes
<1>2. IsSeq(bytes) /\ Len(bytes) = length
  BY <1>1, FunctionIsSeq
<1>. QED
  BY <1>1, <1>2 DEF bytes, AreBytes

(* How far the loop of readLogical goes in one turn, and what it reads. *)
ReadTurn(offset, length, size, k) == InSegment(length - k, offset + k, size)

ReadOne(files, offset, length, size, k) ==
    LET n == ReadTurn(offset, length, size, k)
        within == (offset + k) % size
        file == files[(offset + k) \div size]
    IN  SubSeq(file, within + 1, IF within + n < Len(file)
                                 THEN within + n ELSE Len(file))

LEMMA ReadInATurn ==
  ASSUME NEW files, NEW size \in Nat \ {0}, NEW total \in Nat, Fills(files, total, size),
         NEW offset \in Nat, NEW length \in Nat, offset + length <= total,
         Covers(files, total, size),
         NEW k \in 0..(length - 1)
  PROVE  LET n == ReadTurn(offset, length, size, k)
             one == ReadOne(files, offset, length, size, k)
         IN  /\ n \in 1..(length - k)
             /\ AreBytes(one, files, offset + k, n, size)
<1>1. PICK p \in Nat : p = offset + k
  OBVIOUS
<1>2. PICK rest \in Nat \ {0} : rest = length - k
  OBVIOUS
<1>3. PICK t \in Nat : t = p \div size
  BY Located
<1>4. PICK start \in Nat : start = Starts(size)[t]
  BY <1>3, Located
<1>5. PICK n \in 1..rest : n = InSegment(rest, p, size)
  BY InOneSegment
<1>6. /\ start <= p /\ p < start + size
      /\ p + n = IF p + rest < start + size THEN p + rest ELSE start + size
  BY <1>3, <1>4, <1>5, InOneSegment
<1>7. PICK within \in Nat : within = p % size
  BY Division
<1>8. within = p - start
  BY <1>3, <1>4, <1>7, Located
<1>9. p \in 0..(total - 1) /\ p + rest <= total
  BY <1>1, <1>2
<1>10. IsSeq(files[t]) /\ Len(files[t]) = Portion(total, start, size)
  BY <1>3, <1>4, <1>9 DEF Fills, Covers
<1>11. /\ Len(files[t]) \in Nat /\ within + n <= Len(files[t])
  BY <1>6, <1>8, <1>9, <1>10 DEF Portion
<1>. DEFINE one == SubSeq(files[t], within + 1, within + n)
<1>12. /\ IsSeq(one) /\ Len(one) = n
       /\ \A i \in 1..n : one[i] = files[t][within + i]
  <2>1. PICK m \in Nat, e \in Nat : m = within + 1 /\ e = within + n
    OBVIOUS
  <2>2. 1 <= m /\ m <= e /\ e <= Len(files[t]) /\ e - m + 1 = n
        /\ \A i \in 1..n : m + i - 1 = within + i
    BY <1>11, <2>1
  <2>3. IsPart(SubSeq(files[t], m, e), files[t], m, e)
    BY <1>10, <2>2, SubSeqOf
  <2>4. /\ IsSeq(SubSeq(files[t], m, e)) /\ Len(SubSeq(files[t], m, e)) = e - m + 1
        /\ \A i \in 1..(e - m + 1) : SubSeq(files[t], m, e)[i] = files[t][m + i - 1]
    BY <2>3 DEF IsPart
  <2>. QED
    BY <2>1, <2>2, <2>4
<1>13. ReadOne(files, offset, length, size, k) = one
  <2>1. (IF within + n < Len(files[t]) THEN within + n ELSE Len(files[t])) = within + n
    <3>1. PICK length1 \in Nat : length1 = Len(files[t])
      BY <1>11
    <3>2. within + n < length1 \/ within + n = length1
      BY <1>11, <3>1
    <3>. QED
      BY <3>1, <3>2
  <2>. QED
    BY <1>1, <1>2, <1>3, <1>5, <1>7, <2>1 DEF ReadOne, ReadTurn
<1>14. ASSUME NEW i \in 1..n
       PROVE  Byte(files, offset + k + i - 1, size) = files[t][within + i]
  <2>1. PICK q \in Nat : q = p + i - 1
    OBVIOUS
  <2>2. start <= q /\ q < start + size /\ q - start + 1 = within + i
    BY <1>6, <1>8, <2>1
  <2>3. q \div size = t /\ q % size = q - start
    BY <1>4, <2>2, StartsDivide
  <2>4. Byte(files, q, size) = files[t][within + i]
    BY <2>2, <2>3 DEF Byte
  <2>. QED
    BY <1>1, <2>1, <2>4
<1>. HIDE DEF one
<1>15. n = ReadTurn(offset, length, size, k)
  BY <1>1, <1>2, <1>5 DEF ReadTurn
<1>16. n \in 1..(length - k)
  BY <1>2
<1>. QED
  BY <1>12, <1>13, <1>14, <1>15, <1>16 DEF AreBytes

(* readLogical gives the bytes of its range, all of them: it returns       *)
(* nothing short inside what is written. *)
LEMMA ReadLogicalIs ==
  ASSUME NEW files, NEW size \in Nat \ {0}, NEW total \in Nat, Fills(files, total, size),
         Covers(files, total, size),
         NEW offset \in Nat, NEW length \in Nat, offset + length <= total
  PROVE  ReadLogical(files, offset, length, size) = BytesAt(files, offset, length, size)
<1>. DEFINE N(k) == ReadTurn(offset, length, size, k)
            One(k) == ReadOne(files, offset, length, size, k)
            R(k) == BytesAt(files, offset + k, length - k, size)
            Reads(r) == r = [k \in 0..length |->
                               IF k = length THEN << >> ELSE One(k) \o r[k + N(k)]]
<1>1. R(length) = << >>
  <2>1. IsSeq(R(length)) /\ Len(R(length)) = 0
    BY BytesAtAre DEF AreBytes
  <2>. QED
    BY <2>1, DomainOfSeq
<1>2. ASSUME NEW k \in 0..(length - 1)
      PROVE  N(k) \in 1..(length - k) /\ R(k) = One(k) \o R(k + N(k))
  <2>1. PICK n : n = N(k)
    OBVIOUS
  <2>2. /\ n \in 1..(length - k)
        /\ IsSeq(One(k)) /\ Len(One(k)) = n
        /\ \A i \in 1..n : One(k)[i] = Byte(files, offset + k + i - 1, size)
    <3>1. n \in 1..(length - k) /\ AreBytes(One(k), files, offset + k, n, size)
      BY <2>1, ReadInATurn
    <3>. QED
      BY <3>1 DEF AreBytes
  <2>3. PICK rest \in Nat : rest = length - k
    OBVIOUS
  <2>4. PICK left \in Nat : left = length - (k + n)
    BY <2>2
  <2>5. /\ IsSeq(R(k + n)) /\ Len(R(k + n)) = left
        /\ \A i \in 1..left : R(k + n)[i] = Byte(files, offset + (k + n) + i - 1, size)
    BY <2>4, BytesAtAre DEF AreBytes
  <2>6. AreBytes(R(k), files, offset + k, rest, size)
    BY <2>3, BytesAtAre
  <2>7. IsSeq(R(k)) /\ Len(R(k)) = rest
        /\ \A i \in 1..rest : R(k)[i] = Byte(files, offset + k + i - 1, size)
    BY <2>6 DEF AreBytes
  <2>. DEFINE both == One(k) \o R(k + n)
  <2>8. n + left = rest
    BY <2>2, <2>3, <2>4
  <2>. HIDE DEF One, R
  <2>9. Extends(both, One(k), R(k + n))
    BY <2>2, <2>5, ConcatOf
  <2>10. ASSUME NEW i \in 1..rest PROVE both[i] = R(k)[i]
    <3>1. CASE i <= n
      BY <2>2, <2>7, <2>9, <3>1 DEF Extends
    <3>2. CASE ~(i <= n)
      <4>1. PICK j \in 1..left : i = n + j
        BY <2>2, <2>8, <3>2
      <4>2. offset + (k + n) + j - 1 = offset + k + i - 1
        BY <2>2, <4>1
      <4>3. both[i] = R(k + n)[j]
        BY <2>2, <2>5, <2>9, <4>1 DEF Extends
      <4>. QED
        BY <2>5, <2>7, <4>2, <4>3
    <3>. QED
      BY <3>1, <3>2
  <2>12. IsSeq(both) /\ Len(both) = rest
    BY <2>2, <2>5, <2>8, <2>9 DEF Extends
  <2>. HIDE DEF both
  <2>11. both = R(k)
    BY <2>7, <2>10, <2>12, SameSeq
  <2>. QED
    BY <2>1, <2>2, <2>11 DEF both
<1>3. \E r : Reads(r)
  <2>. DEFINE r == [k \in 0..length |-> R(k)]
  <2>. HIDE DEF R, N, One
  <2>1. ASSUME NEW k \in 0..length
        PROVE  R(k) = IF k = length THEN << >> ELSE One(k) \o r[k + N(k)]
    <3>1. CASE k = length
      BY <1>1, <3>1
    <3>2. CASE k # length
      <4>1. k \in 0..(length - 1)
        BY <3>2
      <4>2. k + N(k) \in 0..length
        BY <1>2, <4>1
      <4>3. r[k + N(k)] = R(k + N(k))
        BY <4>2
      <4>. QED
        BY <1>2, <3>2, <4>1, <4>3
    <3>. QED
      BY <3>1, <3>2
  <2>2. Reads(r)
    BY <2>1
  <2>. QED
    BY <2>2
<1>4. ASSUME NEW r, Reads(r)
      PROVE  r[0] = R(0)
  <2>. HIDE DEF R, N, One
  <2>. DEFINE Next(k) == One(k) \o r[k + N(k)]
  <2>. HIDE DEF Next
  <2>1. \A k \in 0..length : r[k] = IF k = length THEN << >> ELSE Next(k)
    BY <1>4 DEF Next
  <2>. DEFINE Done == {d \in Nat : \A k \in 0..length : length - k <= d => r[k] = R(k)}
  <2>2. 0 \in Done
    BY <1>1, <2>1
  <2>3. ASSUME NEW d \in Nat, d \in Done
        PROVE  d + 1 \in Done
    <3>. SUFFICES ASSUME NEW k \in 0..length, length - k <= d + 1, k # length
                  PROVE  r[k] = R(k)
      BY <1>1, <2>1
    <3>1. k \in 0..(length - 1)
      OBVIOUS
    <3>2. k + N(k) \in 0..length /\ length - (k + N(k)) <= d
      BY <1>2, <3>1
    <3>3. r[k + N(k)] = R(k + N(k))
      BY <2>3, <3>2
    <3>4. R(k) = Next(k)
      BY <1>2, <3>1, <3>3 DEF Next
    <3>. QED
      BY <2>1, <3>4
  <2>. HIDE DEF Done
  <2>4. \A d \in Nat : d \in Done
    BY <2>2, <2>3, Induction
  <2>. QED
    BY <2>4 DEF Done
<1>5. ReadLogical(files, offset, length, size) = (CHOOSE r : Reads(r))[0]
  BY DEF ReadLogical, ReadOne, ReadTurn
<1>. HIDE DEF Reads, R
<1>6. Reads(CHOOSE r : Reads(r))
  BY <1>3
<1>7. R(0) = BytesAt(files, offset, length, size)
  BY DEF R
<1>. QED
  BY <1>4, <1>5, <1>6, <1>7

(* A later byte is in a later segment, or the same. *)
LEMMA SegmentsAreOrdered ==
  ASSUME NEW p \in Nat, NEW q \in Nat, p <= q, NEW size \in Nat \ {0}
  PROVE  p \div size \in 0..(q \div size)
<1>1. PICK s \in Nat, t \in Nat : s = p \div size /\ t = q \div size
  BY Division
<1>2. PICK b \in Nat, c \in Nat : b = s * size /\ c = t * size
  BY Product
<1>3. b <= p /\ q < c + size
  BY <1>1, <1>2, Division
<1>4. CASE t < s
  <2>1. c + size <= b
    BY <1>2, <1>4, Apart
  <2>. QED
    BY <1>3, <2>1
<1>. QED
  BY <1>1, <1>4

-----------------------------------------------------------------------------
(* Folds. *)

(* One turn of either fold: a record added to the levels, or a level       *)
(* joined to the root.                                                     *)
FoldTurn(kind, so_far, item) ==
  IF kind = "log" THEN Add(so_far, item.digest)
  ELSE IF item = Free THEN so_far
       ELSE IF so_far = Free THEN item
            ELSE MerkleParent(item, so_far)

IsFold(kind, base, seq, n, iter) ==
  iter = [s \in SUBSET (1..n) |->
            IF s = {} THEN base
            ELSE FoldTurn(kind, iter[s \ {Max(s)}], seq[Max(s)])]

TheFold(kind, base, seq, n) == CHOOSE iter : IsFold(kind, base, seq, n, iter)

(* What the fold has after each of its turns.                              *)
Turns(kind, base, seq, n, v) ==
  /\ v[0] = base
  /\ \A k \in 0..(n - 1) : v[k + 1] = FoldTurn(kind, v[k], seq[k + 1])

LEMMA TopOf ==
  ASSUME NEW k \in Nat, NEW s \in SUBSET (1..(k + 1)), k + 1 \in s
  PROVE  Max(s) = k + 1
<1>1. k + 1 \in s /\ \A y \in s : k + 1 >= y
  OBVIOUS
<1>2. \A x \in s : (\A y \in s : x >= y) => x = k + 1
  <2>. SUFFICES ASSUME NEW x \in s, \A y \in s : x >= y PROVE x = k + 1
    OBVIOUS
  <2>1. x >= k + 1 /\ x \in 1..(k + 1)
    OBVIOUS
  <2>. QED
    BY <2>1
<1>. QED
  BY <1>1, <1>2, Zenon DEF Max

LEMMA FoldExists ==
  ASSUME NEW kind, NEW base, NEW seq, NEW n \in Nat
  PROVE  \E iter : IsFold(kind, base, seq, n, iter)
<1>. DEFINE T == {k \in Nat : \E iter : IsFold(kind, base, seq, k, iter)}
<1>1. 0 \in T
  <2>. PICK iter : iter = [s \in SUBSET (1..0) |-> base]
    OBVIOUS
  <2>1. 1..0 = {}
    OBVIOUS
  <2>2. \A s \in SUBSET (1..0) : s = {}
    BY <2>1
  <2>3. iter = [s \in SUBSET (1..0) |->
                  IF s = {} THEN base
                  ELSE FoldTurn(kind, iter[s \ {Max(s)}], seq[Max(s)])]
    BY <2>2
  <2>. QED
    BY <2>3 DEF IsFold
<1>2. ASSUME NEW k \in Nat, k \in T PROVE k + 1 \in T
  <2>1. PICK old : IsFold(kind, base, seq, k, old)
    BY <1>2
  <2>. DEFINE top == k + 1
              new == [s \in SUBSET (1..top) |->
                        IF top \in s THEN FoldTurn(kind, old[s \ {top}], seq[top])
                        ELSE old[s]]
  <2>2. \A s \in SUBSET (1..k) : top \notin s /\ s \in SUBSET (1..top)
    OBVIOUS
  <2>3. \A s \in SUBSET (1..top) : s \ {top} \in SUBSET (1..k)
    OBVIOUS
  <2>4. \A s \in SUBSET (1..top) : top \notin s => s \in SUBSET (1..k)
    BY <2>3
  <2>5. \A s \in SUBSET (1..k) : new[s] = old[s]
    BY <2>2
  <2>6. \A s \in SUBSET (1..top) : top \in s => Max(s) = top
    BY TopOf
  <2>. HIDE DEF top
  <2>7. ASSUME NEW s \in SUBSET (1..top)
        PROVE  new[s] = IF s = {} THEN base
                        ELSE FoldTurn(kind, new[s \ {Max(s)}], seq[Max(s)])
    <3>1. CASE top \in s
      <4>1. new[s] = FoldTurn(kind, old[s \ {top}], seq[top])
        BY <3>1
      <4>2. new[s \ {top}] = old[s \ {top}]
        BY <2>3, <2>5
      <4>. QED
        BY <2>6, <3>1, <4>1, <4>2
    <3>2. CASE top \notin s
      <4>1. s \in SUBSET (1..k) /\ s \ {Max(s)} \in SUBSET (1..k)
        BY <2>4, <3>2
      <4>2. old[s] = IF s = {} THEN base
                     ELSE FoldTurn(kind, old[s \ {Max(s)}], seq[Max(s)])
        BY <2>1, <4>1 DEF IsFold
      <4>. QED
        BY <2>5, <4>1, <4>2
    <3>. QED
      BY <3>1, <3>2
  <2>8. new = [s \in SUBSET (1..top) |-> new[s]]
    OBVIOUS
  <2>. HIDE DEF new
  <2>9. new = [s \in SUBSET (1..top) |->
                 IF s = {} THEN base
                 ELSE FoldTurn(kind, new[s \ {Max(s)}], seq[Max(s)])]
    BY <2>7, <2>8
  <2>10. IsFold(kind, base, seq, k + 1, new)
    BY <2>9 DEF IsFold, top
  <2>. QED
    BY <2>10
<1>. HIDE DEF T
<1>3. n \in T
  BY <1>1, <1>2, Induction
<1>. QED
  BY <1>3 DEF T

LEMMA FoldTurns ==
  ASSUME NEW kind, NEW base, NEW seq, NEW n \in Nat
  PROVE  \E v : /\ Turns(kind, base, seq, n, v)
                /\ TheFold(kind, base, seq, n)[1..n] = v[n]
<1>1. PICK iter : IsFold(kind, base, seq, n, iter)
                  /\ iter = TheFold(kind, base, seq, n)
  BY FoldExists, Zenon DEF TheFold
<1>. DEFINE v == [k \in 0..n |-> iter[1..k]]
<1>2. v[0] = base
  <2>1. 1..0 = {} /\ {} \in SUBSET (1..n)
    OBVIOUS
  <2>2. iter[{}] = base
    BY <1>1, <2>1 DEF IsFold
  <2>. QED
    BY <2>1, <2>2
<1>3. ASSUME NEW k \in 0..(n - 1) PROVE v[k + 1] = FoldTurn(kind, v[k], seq[k + 1])
  <2>1. /\ 1..(k + 1) \in SUBSET (1..n) /\ k + 1 \in 1..(k + 1)
        /\ (1..(k + 1)) \ {k + 1} = 1..k /\ 1..(k + 1) # {}
    OBVIOUS
  <2>2. Max(1..(k + 1)) = k + 1
    BY <2>1, TopOf
  <2>3. iter[1..(k + 1)] = FoldTurn(kind, iter[(1..(k + 1)) \ {Max(1..(k + 1))}],
                                    seq[Max(1..(k + 1))])
    BY <1>1, <2>1 DEF IsFold
  <2>4. v[k + 1] = iter[1..(k + 1)] /\ v[k] = iter[1..k]
    OBVIOUS
  <2>. QED
    BY <2>1, <2>2, <2>3, <2>4
<1>4. v[n] = iter[1..n]
  OBVIOUS
<1>. HIDE DEF v
<1>. QED
  BY <1>1, <1>2, <1>3, <1>4 DEF Turns

LEMMA RootIsFold ==
  ASSUME NEW levels, NEW n, DOMAIN levels = 1..n
  PROVE  Root(levels) = TheFold("levels", Free, levels, n)[1..n]
<1>1. "levels" # "log"
  OBVIOUS
<1>. QED
  BY <1>1 DEF Root, FoldLeft, MapThenFoldSet, TheFold, IsFold, FoldTurn

LEMMA RootTurns ==
  ASSUME NEW levels, NEW n \in Nat, DOMAIN levels = 1..n
  PROVE  \E right : Turns("levels", Free, levels, n, right) /\ Root(levels) = right[n]
<1>1. PICK right : /\ Turns("levels", Free, levels, n, right)
                   /\ TheFold("levels", Free, levels, n)[1..n] = right[n]
  BY FoldTurns
<1>2. Root(levels) = right[n]
  BY <1>1, RootIsFold
<1>. QED
  BY <1>1, <1>2

LEMMA LogIsFold ==
  ASSUME NEW records, NEW n, DOMAIN records = 1..n, NEW depth
  PROVE  MerkleRoot(records, depth)
           = Root(TheFold("log", Empty(depth), records, n)[1..n])
  BY DEF MerkleRoot, FoldLeft, MapThenFoldSet, TheFold, IsFold, FoldTurn

-----------------------------------------------------------------------------
(* The accumulator. *)

(* B[l][j]: the root of the j-th full tree of 2^l leaves, counted from the *)
(* first record.                                                           *)
AreBlocks(B, records, depth) ==
  /\ \A j \in Nat \ {0} : B[0][j] = Leaf(records[j].digest)
  /\ \A l \in 0..(depth - 1) : \A j \in Nat \ {0} :
       B[l + 1][j] = MerkleParent(B[l][(2 * j) - 1], B[l][2 * j])

(* H[l]: how many full trees of 2^l leaves there are in n records.         *)
Counts(H, n, depth) ==
  /\ H \in [0..depth -> Nat] /\ H[0] = n
  /\ \A l \in 0..(depth - 1) : H[l] = 2 * H[l + 1] \/ H[l] = (2 * H[l + 1]) + 1

(* The last tree of a height is held while it has no brother.              *)
Held(B, H, depth) ==
  [i \in 1..depth |-> IF H[i - 1] = 2 * H[i] THEN Free ELSE B[i - 1][H[i - 1]]]

LEMMA NodesAreNotFree ==
  ASSUME NEW a, NEW b
  PROVE  Leaf(a) # Free /\ MerkleParent(a, b) # Free
  BY DEF Leaf, MerkleParent, Free

LEMMA BlocksExist ==
  ASSUME NEW records, NEW depth \in Nat
  PROVE  \E B : AreBlocks(B, records, depth)
<1>. DEFINE T == {d \in Nat : \E B : AreBlocks(B, records, d)}
<1>1. 0 \in T
  <2>. DEFINE B == [l \in 0..0 |-> [j \in Nat \ {0} |-> Leaf(records[j].digest)]]
  <2>1. \A j \in Nat \ {0} : B[0][j] = Leaf(records[j].digest)
    OBVIOUS
  <2>2. 0..(0 - 1) = {}
    OBVIOUS
  <2>. HIDE DEF B
  <2>3. AreBlocks(B, records, 0)
    BY <2>1, <2>2 DEF AreBlocks
  <2>. QED
    BY <2>3
<1>2. ASSUME NEW d \in Nat, d \in T PROVE d + 1 \in T
  <2>1. PICK A : AreBlocks(A, records, d)
    BY <1>2
  <2>. DEFINE up == [j \in Nat \ {0} |-> MerkleParent(A[d][(2 * j) - 1], A[d][2 * j])]
              B == [l \in 0..(d + 1) |-> IF l = d + 1 THEN up ELSE A[l]]
  <2>2. \A l \in 0..d : B[l] = A[l]
    OBVIOUS
  <2>3. B[d + 1] = up
    OBVIOUS
  <2>. HIDE DEF B
  <2>4. \A j \in Nat \ {0} : B[0][j] = Leaf(records[j].digest)
    BY <2>1, <2>2 DEF AreBlocks
  <2>5. ASSUME NEW l \in 0..d, NEW j \in Nat \ {0}
        PROVE  B[l + 1][j] = MerkleParent(B[l][(2 * j) - 1], B[l][2 * j])
    <3>1. CASE l = d
      BY <2>2, <2>3, <3>1
    <3>2. CASE l # d
      <4>1. l \in 0..(d - 1) /\ l + 1 \in 0..d
        BY <3>2
      <4>. QED
        BY <2>1, <2>2, <4>1 DEF AreBlocks
    <3>. QED
      BY <3>1, <3>2
  <2>6. (d + 1) - 1 = d
    OBVIOUS
  <2>7. AreBlocks(B, records, d + 1)
    BY <2>4, <2>5, <2>6 DEF AreBlocks
  <2>. QED
    BY <2>7
<1>. HIDE DEF T
<1>3. depth \in T
  BY <1>1, <1>2, Induction
<1>. QED
  BY <1>3 DEF T

LEMMA BlocksAreNotFree ==
  ASSUME NEW records, NEW depth \in Nat, NEW B, AreBlocks(B, records, depth),
         NEW l \in 0..depth, NEW j \in Nat \ {0}
  PROVE  B[l][j] # Free
<1>1. CASE l = 0
  BY <1>1, NodesAreNotFree DEF AreBlocks
<1>2. CASE l # 0
  <2>1. l - 1 \in 0..(depth - 1) /\ (l - 1) + 1 = l
    BY <1>2
  <2>2. B[l][j] = MerkleParent(B[l - 1][(2 * j) - 1], B[l - 1][2 * j])
    BY <2>1 DEF AreBlocks
  <2>. QED
    BY <2>2, NodesAreNotFree
<1>. QED
  BY <1>1, <1>2

(* No more than n levels are ever held of n records. *)
LEMMA CountsFall ==
  ASSUME NEW n \in Nat, NEW depth \in Nat, NEW H, Counts(H, n, depth)
  PROVE  \A l \in 0..depth : H[l] = 0 \/ H[l] + l <= n
<1>. DEFINE T == {l \in Nat : l <= depth => H[l] = 0 \/ H[l] + l <= n}
<1>1. 0 \in T
  BY DEF Counts
<1>2. ASSUME NEW l \in Nat, l \in T PROVE l + 1 \in T
  <2>. SUFFICES ASSUME l + 1 <= depth PROVE H[l + 1] = 0 \/ H[l + 1] + (l + 1) <= n
    OBVIOUS
  <2>1. l \in 0..(depth - 1) /\ l \in 0..depth /\ l + 1 \in 0..depth
    OBVIOUS
  <2>2. H[l] \in Nat /\ H[l + 1] \in Nat
        /\ (H[l] = 2 * H[l + 1] \/ H[l] = (2 * H[l + 1]) + 1)
    BY <2>1 DEF Counts
  <2>3. H[l] = 0 \/ H[l] + l <= n
    BY <1>2, <2>1
  <2>. QED
    BY <2>2, <2>3
<1>. HIDE DEF T
<1>3. \A l \in Nat : l \in T
  BY <1>1, <1>2, Induction
<1>. QED
  BY <1>3 DEF T

(* The number of records that do not fit: two to the number of levels. *)
Doubles(power, depth) ==
  /\ power \in [0..depth -> Nat] /\ power[0] = 1
  /\ \A l \in 0..(depth - 1) : power[l + 1] = 2 * power[l]

LEMMA PowersExist ==
  ASSUME NEW depth \in Nat
  PROVE  \E power : Doubles(power, depth) /\ depth < power[depth]
<1>. DEFINE T == {d \in Nat : \E power : Doubles(power, d) /\ d < power[d]}
<1>1. 0 \in T
  <2>. DEFINE power == [l \in 0..0 |-> 1]
  <2>1. power \in [0..0 -> Nat] /\ power[0] = 1 /\ 0..(0 - 1) = {}
    OBVIOUS
  <2>. HIDE DEF power
  <2>2. Doubles(power, 0) /\ 0 < power[0]
    BY <2>1 DEF Doubles
  <2>. QED
    BY <2>2
<1>2. ASSUME NEW d \in Nat, d \in T PROVE d + 1 \in T
  <2>1. PICK old : Doubles(old, d) /\ d < old[d]
    BY <1>2
  <2>2. /\ old \in [0..d -> Nat] /\ old[0] = 1 /\ old[d] \in Nat
        /\ \A l \in 0..(d - 1) : old[l + 1] = 2 * old[l]
    BY <2>1 DEF Doubles
  <2>. DEFINE power == [l \in 0..(d + 1) |-> IF l = d + 1 THEN 2 * old[d] ELSE old[l]]
  <2>3. power[0] = 1 /\ power[d + 1] = 2 * old[d] /\ \A l \in 0..d : power[l] = old[l]
    BY <2>2
  <2>4. power \in [0..(d + 1) -> Nat]
    BY <2>2
  <2>. HIDE DEF power
  <2>5. ASSUME NEW l \in 0..d PROVE power[l + 1] = 2 * power[l]
    <3>1. CASE l = d
      BY <2>3, <3>1
    <3>2. CASE l # d
      <4>1. l \in 0..(d - 1) /\ l + 1 \in 0..d
        BY <3>2
      <4>. QED
        BY <2>2, <2>3, <4>1
    <3>. QED
      BY <3>1, <3>2
  <2>6. (d + 1) - 1 = d
    OBVIOUS
  <2>7. Doubles(power, d + 1)
    BY <2>3, <2>4, <2>5, <2>6 DEF Doubles
  <2>8. d + 1 < power[d + 1]
    BY <2>1, <2>2, <2>3
  <2>. QED
    BY <2>7, <2>8
<1>. HIDE DEF T
<1>3. depth \in T
  BY <1>1, <1>2, Induction
<1>. QED
  BY <1>3 DEF T

(* No full tree is as high as the levels go. *)
LEMMA NoneAtTheTop ==
  ASSUME NEW n \in Nat, NEW depth \in Nat, NEW H, Counts(H, n, depth),
         NEW power, Doubles(power, depth), n < power[depth]
  PROVE  H[depth] = 0
<1>. DEFINE T == {l \in Nat : l <= depth => H[l] < power[depth - l]}
<1>1. 0 \in T
  BY DEF Counts
<1>2. ASSUME NEW l \in Nat, l \in T PROVE l + 1 \in T
  <2>. SUFFICES ASSUME l + 1 <= depth PROVE H[l + 1] < power[depth - (l + 1)]
    OBVIOUS
  <2>1. PICK m \in Nat : m = depth - (l + 1)
    OBVIOUS
  <2>2. /\ l \in 0..(depth - 1) /\ l \in 0..depth /\ l + 1 \in 0..depth
        /\ m \in 0..(depth - 1) /\ m \in 0..depth /\ m + 1 = depth - l
    BY <2>1
  <2>3. H[l] \in Nat /\ H[l + 1] \in Nat
        /\ (H[l] = 2 * H[l + 1] \/ H[l] = (2 * H[l + 1]) + 1)
    BY <2>2 DEF Counts
  <2>4. power[m] \in Nat /\ power[m + 1] = 2 * power[m]
    BY <2>2 DEF Doubles
  <2>5. H[l] < power[m + 1]
    BY <1>2, <2>2
  <2>6. H[l + 1] < power[m]
    BY <2>3, <2>4, <2>5
  <2>. QED
    BY <2>1, <2>6
<1>. HIDE DEF T
<1>3. depth \in T
  BY <1>1, <1>2, Induction
<1>4. H[depth] < power[0]
  BY <1>3 DEF T
<1>. QED
  BY <1>4 DEF Counts, Doubles

(* A level is free as long as one more record fits. *)
LEMMA ALevelIsFree ==
  ASSUME NEW n \in Nat, NEW depth \in Nat, NEW H, Counts(H, n, depth),
         NEW power, Doubles(power, depth), n + 1 < power[depth]
  PROVE  \E i \in 1..depth : H[i - 1] = 2 * H[i]
<1>. SUFFICES ASSUME \A i \in 1..depth : H[i - 1] # 2 * H[i] PROVE FALSE
  OBVIOUS
<1>. DEFINE T == {m \in Nat : m <= depth => power[m] <= H[depth - m] + 1}
<1>1. 0 \in T
  <2>1. H[depth] \in Nat /\ power[0] = 1
    BY DEF Counts, Doubles
  <2>. QED
    BY <2>1
<1>2. ASSUME NEW m \in Nat, m \in T PROVE m + 1 \in T
  <2>. SUFFICES ASSUME m + 1 <= depth PROVE power[m + 1] <= H[depth - (m + 1)] + 1
    OBVIOUS
  <2>1. PICK l \in Nat : l = depth - (m + 1)
    OBVIOUS
  <2>2. /\ l \in 0..(depth - 1) /\ l \in 0..depth /\ l + 1 \in 0..depth /\ l + 1 \in 1..depth
        /\ (l + 1) - 1 = l /\ l + 1 = depth - m
        /\ m \in 0..(depth - 1) /\ m \in 0..depth
    BY <2>1
  <2>3. H[l] \in Nat /\ H[l + 1] \in Nat
        /\ (H[l] = 2 * H[l + 1] \/ H[l] = (2 * H[l + 1]) + 1)
    BY <2>2 DEF Counts
  <2>4. H[l] # 2 * H[l + 1]
    BY <2>2
  <2>5. power[m] \in Nat /\ power[m + 1] = 2 * power[m]
    BY <2>2 DEF Doubles
  <2>6. power[m] <= H[l + 1] + 1
    BY <1>2, <2>2
  <2>7. power[m + 1] <= H[l] + 1
    BY <2>3, <2>4, <2>5, <2>6
  <2>. QED
    BY <2>1, <2>7
<1>. HIDE DEF T
<1>3. depth \in T
  BY <1>1, <1>2, Induction
<1>4. power[depth] <= H[0] + 1 /\ power[depth] \in Nat /\ H[0] = n
  BY <1>3 DEF T, Counts, Doubles
<1>. QED
  BY <1>4

(* The level at which the loop of Add ends, and what it carries there. *)
FirstFree(levels, depth, free) ==
  /\ DOMAIN levels = 1..depth /\ free \in 1..depth
  /\ levels[free] = Free /\ \A j \in 1..(free - 1) : levels[j] # Free

CarriedTo(levels, digest, free, carried) ==
  /\ carried = [i \in 1..free |-> carried[i]] /\ carried[1] = Leaf(digest)
  /\ \A i \in 1..(free - 1) : carried[i + 1] = MerkleParent(levels[i], carried[i])

LEMMA AddIs ==
  ASSUME NEW depth \in Nat, NEW levels, NEW digest, NEW free, NEW carried,
         FirstFree(levels, depth, free), CarriedTo(levels, digest, free, carried)
  PROVE  Add(levels, digest) = [i \in 1..depth |-> IF i < free THEN Free
                                                   ELSE IF i = free THEN carried[free]
                                                   ELSE levels[i]]
<1>. /\ DOMAIN levels = 1..depth /\ free \in 1..depth
     /\ levels[free] = Free /\ \A j \in 1..(free - 1) : levels[j] # Free
     /\ carried = [i \in 1..free |-> carried[i]] /\ carried[1] = Leaf(digest)
     /\ \A i \in 1..(free - 1) : carried[i + 1] = MerkleParent(levels[i], carried[i])
  BY DEF FirstFree, CarriedTo
<1>. DEFINE IsFree(i) == levels[i] = Free /\ \A j \in 1..(i - 1) : levels[j] # Free
            place == CHOOSE i \in DOMAIN levels : IsFree(i)
            Carries(c, f) == c = [i \in 1..f |->
                                    IF i = 1 THEN Leaf(digest)
                                    ELSE MerkleParent(levels[i - 1], c[i - 1])]
            Carry(f) == CHOOSE c : Carries(c, f)
            carry == Carry(free)
<1>1. \A i \in 1..depth : IsFree(i) => i = free
  <2>. SUFFICES ASSUME NEW i \in 1..depth, IsFree(i) PROVE i = free
    OBVIOUS
  <2>1. ~(i < free)
    <3>. SUFFICES ASSUME i < free PROVE FALSE
      OBVIOUS
    <3>1. i \in 1..(free - 1)
      OBVIOUS
    <3>. QED
      BY <3>1
  <2>2. ~(free < i)
    <3>. SUFFICES ASSUME free < i PROVE FALSE
      OBVIOUS
    <3>1. free \in 1..(i - 1)
      OBVIOUS
    <3>. QED
      BY <3>1
  <2>. QED
    BY <2>1, <2>2
<1>2. place = free
  BY <1>1, Zenon
<1>3. Carries(carried, free)
  <2>1. ASSUME NEW i \in 1..free
        PROVE  carried[i] = IF i = 1 THEN Leaf(digest)
                            ELSE MerkleParent(levels[i - 1], carried[i - 1])
    <3>1. CASE i = 1
      BY <3>1
    <3>2. CASE i # 1
      <4>1. i - 1 \in 1..(free - 1) /\ (i - 1) + 1 = i
        BY <3>2
      <4>. QED
        BY <3>2, <4>1
    <3>. QED
      BY <3>1, <3>2
  <2>. QED
    BY <2>1
<1>. HIDE DEF Carries
<1>4. Carries(carry, free)
  BY <1>3
<1>. HIDE DEF carry
<1>5. carry[free] = carried[free]
  <2>. DEFINE T == {i \in Nat : i + 1 <= free => carry[i + 1] = carried[i + 1]}
  <2>1. 0 \in T
    <3>1. 1 \in 1..free
      OBVIOUS
    <3>2. carry[1] = Leaf(digest)
      BY <1>4, <3>1 DEF Carries
    <3>. QED
      BY <3>2
  <2>2. ASSUME NEW i \in Nat, i \in T PROVE i + 1 \in T
    <3>. SUFFICES ASSUME (i + 1) + 1 <= free
                  PROVE  carry[(i + 1) + 1] = carried[(i + 1) + 1]
      OBVIOUS
    <3>1. PICK k \in Nat : k = i + 1
      OBVIOUS
    <3>2. k + 1 \in 1..free /\ k + 1 # 1 /\ (k + 1) - 1 = k /\ k \in 1..(free - 1)
      BY <3>1
    <3>3. carry[k + 1] = MerkleParent(levels[k], carry[k])
      BY <1>4, <3>2 DEF Carries
    <3>4. carry[k] = carried[k]
      BY <2>2, <3>1, <3>2
    <3>. QED
      BY <3>1, <3>2, <3>3, <3>4
  <2>. HIDE DEF T
  <2>3. free - 1 \in T /\ (free - 1) + 1 = free
    BY <2>1, <2>2, Induction
  <2>. QED
    BY <2>3 DEF T
<1>6. Add(levels, digest) = [i \in DOMAIN levels |-> IF i < free THEN Free
                                                     ELSE IF i = free THEN carry[i]
                                                     ELSE levels[i]]
  <2>1. Add(levels, digest) = [i \in DOMAIN levels |-> IF i < place THEN Free
                                                       ELSE IF i = place
                                                            THEN Carry(place)[i]
                                                       ELSE levels[i]]
    BY DEF Add, Carries
  <2>. HIDE DEF place, Carry
  <2>. QED
    BY <1>2, <2>1 DEF carry
<1>. QED
  BY <1>5, <1>6

(* Adding a record to the levels of the n before it gives the levels of    *)
(* the n + 1.                                                              *)
LEMMA AddsALeaf ==
  ASSUME NEW records, NEW depth \in Nat, NEW B, AreBlocks(B, records, depth),
         NEW power, Doubles(power, depth), NEW n \in Nat, n + 1 < power[depth],
         NEW H, Counts(H, n, depth)
  PROVE  \E G : /\ Counts(G, n + 1, depth)
                /\ Add(Held(B, H, depth), records[n + 1].digest) = Held(B, G, depth)
<1>. DEFINE F == {i \in 1..depth : H[i - 1] = 2 * H[i]}
<1>1. \A i \in 1..depth : /\ i - 1 \in 0..(depth - 1) /\ i \in 0..depth
                          /\ H[i - 1] \in Nat /\ H[i] \in Nat
                          /\ (H[i - 1] = 2 * H[i] \/ H[i - 1] = (2 * H[i]) + 1)
  <2>. SUFFICES ASSUME NEW i \in 1..depth
                PROVE  /\ i - 1 \in 0..(depth - 1) /\ i \in 0..depth
                       /\ H[i - 1] \in Nat /\ H[i] \in Nat
                       /\ (H[i - 1] = 2 * H[i] \/ H[i - 1] = (2 * H[i]) + 1)
    OBVIOUS
  <2>1. i - 1 \in 0..(depth - 1) /\ i - 1 \in 0..depth /\ i \in 0..depth /\ (i - 1) + 1 = i
    OBVIOUS
  <2>. QED
    BY <2>1 DEF Counts
<1>2. F # {}
  BY ALevelIsFree
<1>3. PICK f \in F : \A j \in F : f <= j
  <2>1. F \subseteq Nat
    OBVIOUS
  <2>. HIDE DEF F
  <2>. QED
    BY <1>2, <2>1, Least
<1>4. f \in 1..depth /\ H[f - 1] = 2 * H[f] /\ f - 1 \in 0..(depth - 1) /\ f \in 0..depth
  BY <1>1, <1>3
<1>5. ASSUME NEW j \in 1..depth, j < f PROVE H[j - 1] = (2 * H[j]) + 1
  <2>1. ~(j \in F)
    BY <1>3, <1>5
  <2>. QED
    BY <1>1, <2>1
<1>. HIDE DEF F
<1>. DEFINE G == [l \in 0..depth |-> IF l < f THEN H[l] + 1 ELSE H[l]]
            levels == Held(B, H, depth)
            carried == [i \in 1..f |-> B[i - 1][G[i - 1]]]
            digest == records[n + 1].digest
<1>6. \A l \in 0..depth : G[l] = (IF l < f THEN H[l] + 1 ELSE H[l]) /\ G[l] \in Nat
                          /\ H[l] \in Nat
  BY DEF Counts
<1>7. \A i \in 1..depth : G[i - 1] = 2 * G[i] \/ G[i - 1] = (2 * G[i]) + 1
  <2>. SUFFICES ASSUME NEW i \in 1..depth
                PROVE  G[i - 1] = 2 * G[i] \/ G[i - 1] = (2 * G[i]) + 1
    OBVIOUS
  <2>1. i - 1 \in 0..depth /\ i \in 0..depth
    OBVIOUS
  <2>2. /\ G[i - 1] = IF i - 1 < f THEN H[i - 1] + 1 ELSE H[i - 1]
        /\ G[i] = IF i < f THEN H[i] + 1 ELSE H[i]
        /\ H[i] \in Nat /\ H[i - 1] \in Nat
    BY <1>6, <2>1
  <2>3. CASE i < f
    <3>1. H[i - 1] = (2 * H[i]) + 1
      BY <1>5, <2>3
    <3>. QED
      BY <1>4, <2>2, <2>3, <3>1, SMTT(30)
  <2>4. CASE i = f
    BY <1>4, <2>2, <2>4
  <2>5. CASE i > f
    BY <1>1, <1>4, <2>2, <2>5
  <2>. QED
    BY <1>4, <2>3, <2>4, <2>5
<1>8. G[0] = n + 1
  BY <1>4, <1>6 DEF Counts
<1>9. G \in [0..depth -> Nat]
  BY <1>6
<1>. HIDE DEF G
<1>10. Counts(G, n + 1, depth)
  <2>1. ASSUME NEW l \in 0..(depth - 1)
        PROVE  G[l] = 2 * G[l + 1] \/ G[l] = (2 * G[l + 1]) + 1
    <3>1. l + 1 \in 1..depth /\ (l + 1) - 1 = l
      OBVIOUS
    <3>. QED
      BY <1>7, <3>1
  <2>. QED
    BY <1>8, <1>9, <2>1 DEF Counts
<1>11. ASSUME NEW i \in 1..depth
       PROVE  levels[i] = IF H[i - 1] = 2 * H[i] THEN Free ELSE B[i - 1][H[i - 1]]
  BY DEF Held
<1>12. DOMAIN levels = 1..depth
  BY DEF Held
<1>. HIDE DEF levels
<1>13. levels[f] = Free
  BY <1>4, <1>11
<1>14. \A j \in 1..(f - 1) : levels[j] # Free /\ levels[j] = B[j - 1][H[j - 1]]
  <2>. SUFFICES ASSUME NEW j \in 1..(f - 1)
                PROVE  levels[j] # Free /\ levels[j] = B[j - 1][H[j - 1]]
    OBVIOUS
  <2>1. j \in 1..depth /\ j < f /\ j - 1 \in 0..depth
    BY <1>4
  <2>2. H[j - 1] = (2 * H[j]) + 1 /\ H[j] \in Nat
    BY <1>1, <1>5, <2>1
  <2>3. H[j - 1] # 2 * H[j] /\ H[j - 1] \in Nat \ {0}
    BY <2>2
  <2>4. levels[j] = B[j - 1][H[j - 1]]
    BY <1>11, <2>1, <2>3
  <2>. QED
    BY <2>1, <2>3, <2>4, BlocksAreNotFree
<1>15. carried[1] = Leaf(digest)
  BY <1>4, <1>8, SMTT(30) DEF AreBlocks
<1>16. ASSUME NEW i \in 1..(f - 1)
       PROVE  carried[i + 1] = MerkleParent(levels[i], carried[i])
  <2>1. /\ i \in 1..depth /\ i < f /\ i - 1 \in 0..(depth - 1) /\ (i - 1) + 1 = i
        /\ i \in 1..f /\ i + 1 \in 1..f /\ (i + 1) - 1 = i /\ i - 1 \in 0..depth
        /\ i \in 0..depth /\ i - 1 < f
    BY <1>4
  <2>2. H[i - 1] = (2 * H[i]) + 1 /\ H[i] \in Nat
    BY <1>1, <1>5, <2>1
  <2>3. G[i] = H[i] + 1 /\ G[i - 1] = H[i - 1] + 1
    BY <1>6, <2>1
  <2>4. G[i] \in Nat \ {0} /\ 2 * G[i] = G[i - 1] /\ (2 * G[i]) - 1 = H[i - 1]
    BY <2>2, <2>3
  <2>5. B[i][G[i]] = MerkleParent(B[i - 1][H[i - 1]], B[i - 1][G[i - 1]])
    <3>1. B[(i - 1) + 1][G[i]] = MerkleParent(B[i - 1][(2 * G[i]) - 1], B[i - 1][2 * G[i]])
      BY <2>1, <2>4 DEF AreBlocks
    <3>. QED
      BY <2>1, <2>4, <3>1
  <2>6. carried[i + 1] = B[i][G[i]] /\ carried[i] = B[i - 1][G[i - 1]]
    BY <2>1
  <2>. QED
    BY <1>14, <2>5, <2>6
<1>17. f \in 1..f /\ carried[f] = B[f - 1][G[f - 1]] /\ carried = [i \in 1..f |-> carried[i]]
  BY <1>4
<1>. HIDE DEF carried, digest
<1>18. Add(levels, digest) = [i \in 1..depth |-> IF i < f THEN Free
                                                ELSE IF i = f THEN carried[f] ELSE levels[i]]
  <2>1. FirstFree(levels, depth, f)
    BY <1>4, <1>12, <1>13, <1>14 DEF FirstFree
  <2>2. CarriedTo(levels, digest, f, carried)
    BY <1>15, <1>16, <1>17 DEF CarriedTo
  <2>. QED
    BY <2>1, <2>2, AddIs
<1>19. ASSUME NEW i \in 1..depth
       PROVE  (IF i < f THEN Free ELSE IF i = f THEN carried[f] ELSE levels[i])
                = IF G[i - 1] = 2 * G[i] THEN Free ELSE B[i - 1][G[i - 1]]
  <2>1. i - 1 \in 0..depth /\ i \in 0..depth
    OBVIOUS
  <2>2. /\ G[i - 1] = IF i - 1 < f THEN H[i - 1] + 1 ELSE H[i - 1]
        /\ G[i] = IF i < f THEN H[i] + 1 ELSE H[i]
        /\ H[i] \in Nat /\ H[i - 1] \in Nat
    BY <1>6, <2>1
  <2>3. CASE i < f
    <3>1. H[i - 1] = (2 * H[i]) + 1
      BY <1>5, <2>3
    <3>2. G[i - 1] = 2 * G[i]
      BY <1>4, <2>2, <2>3, <3>1
    <3>. QED
      BY <2>3, <3>2
  <2>4. CASE i = f
    <3>1. G[i - 1] # 2 * G[i]
      BY <1>4, <2>2, <2>4
    <3>. QED
      BY <1>4, <1>17, <2>4, <3>1
  <2>5. CASE i > f
    <3>1. G[i - 1] = H[i - 1] /\ G[i] = H[i] /\ ~(i < f) /\ i # f
      BY <1>4, <2>2, <2>5
    <3>. QED
      BY <1>11, <3>1
  <2>. QED
    BY <1>4, <2>3, <2>4, <2>5
<1>20. Add(levels, digest) = Held(B, G, depth)
  BY <1>18, <1>19 DEF Held
<1>. QED
  BY <1>10, <1>20 DEF levels, digest

(* The levels after the whole log. *)
LEMMA LogIsHeld ==
  ASSUME NEW records, NEW depth \in Nat, NEW B, AreBlocks(B, records, depth),
         NEW power, Doubles(power, depth), NEW n \in Nat, n < power[depth],
         DOMAIN records = 1..n
  PROVE  \E H : /\ Counts(H, n, depth)
                /\ MerkleRoot(records, depth) = Root(Held(B, H, depth))
<1>1. PICK v : /\ Turns("log", Empty(depth), records, n, v)
               /\ TheFold("log", Empty(depth), records, n)[1..n] = v[n]
  BY FoldTurns
<1>. DEFINE T == {k \in Nat : k <= n => \E H : Counts(H, k, depth)
                                               /\ v[k] = Held(B, H, depth)}
<1>2. 0 \in T
  <2>. DEFINE H == [l \in 0..depth |-> 0]
  <2>1. Counts(H, 0, depth)
    <3>1. \A l \in 0..(depth - 1) : H[l] = 2 * H[l + 1]
      OBVIOUS
    <3>2. H \in [0..depth -> Nat] /\ H[0] = 0
      OBVIOUS
    <3>. HIDE DEF H
    <3>. QED
      BY <3>1, <3>2 DEF Counts
  <2>2. Held(B, H, depth) = Empty(depth)
    BY DEF Held, Empty
  <2>3. v[0] = Held(B, H, depth)
    BY <1>1, <2>2 DEF Turns
  <2>. HIDE DEF H
  <2>. QED
    BY <2>1, <2>3
<1>3. ASSUME NEW k \in Nat, k \in T PROVE k + 1 \in T
  <2>. SUFFICES ASSUME k + 1 <= n
                PROVE  \E H : Counts(H, k + 1, depth) /\ v[k + 1] = Held(B, H, depth)
    OBVIOUS
  <2>1. PICK H : Counts(H, k, depth) /\ v[k] = Held(B, H, depth)
    BY <1>3
  <2>2. k + 1 < power[depth] /\ k \in 0..(n - 1)
    <3>1. power[depth] \in Nat
      BY DEF Doubles
    <3>. QED
      BY <3>1
  <2>3. v[k + 1] = Add(v[k], records[k + 1].digest)
    BY <1>1, <2>2 DEF Turns, FoldTurn
  <2>4. PICK G : Counts(G, k + 1, depth)
                 /\ Add(Held(B, H, depth), records[k + 1].digest) = Held(B, G, depth)
    BY <2>1, <2>2, AddsALeaf
  <2>. QED
    BY <2>1, <2>3, <2>4
<1>. HIDE DEF T
<1>4. n \in T
  BY <1>2, <1>3, Induction
<1>5. PICK H : Counts(H, n, depth) /\ v[n] = Held(B, H, depth)
  BY <1>4 DEF T
<1>6. MerkleRoot(records, depth) = Root(v[n])
  BY <1>1, LogIsFold
<1>. QED
  BY <1>5, <1>6

-----------------------------------------------------------------------------
(* The tree, level by level. *)

(* The row above a row: its nodes in pairs, an odd one promoted.           *)
PairsOf(row) == [i \in 1..((Len(row) + 1) \div 2) |->
                   IF 2 * i > Len(row) THEN row[(2 * i) - 1]
                   ELSE MerkleParent(row[(2 * i) - 1], row[2 * i])]

AreRows(rows, records, n) ==
  rows = [k \in 0..n |-> IF k = 0 THEN [i \in DOMAIN records |-> Leaf(records[i].digest)]
                         ELSE PairsOf(rows[k - 1])]

(* A row is the full trees of its height, and what is left over: what the  *)
(* levels below hold, joined.                                              *)
Row(block, h, rest) ==
  [i \in 1..(IF rest = Free THEN h ELSE h + 1) |-> IF i <= h THEN block[i] ELSE rest]

OneNode(node) == [i \in 1..1 |-> node]

LEMMA Halves ==
  ASSUME NEW m \in Nat, NEW h \in Nat, m = 2 * h \/ m + 1 = 2 * h
  PROVE  (m + 1) \div 2 = h
  OBVIOUS

LEMMA RowsExist ==
  ASSUME NEW records, NEW n \in Nat
  PROVE  \E rows : AreRows(rows, records, n)
<1>. DEFINE T == {m \in Nat : \E rows : AreRows(rows, records, m)}
            leaves == [i \in DOMAIN records |-> Leaf(records[i].digest)]
<1>1. 0 \in T
  <2>. DEFINE rows == [k \in 0..0 |-> leaves]
  <2>1. AreRows(rows, records, 0)
    <3>1. \A k \in 0..0 : k = 0
      OBVIOUS
    <3>. QED
      BY <3>1 DEF AreRows
  <2>. QED
    BY <2>1
<1>2. ASSUME NEW m \in Nat, m \in T PROVE m + 1 \in T
  <2>1. PICK old : AreRows(old, records, m)
    BY <1>2
  <2>. DEFINE rows == [k \in 0..(m + 1) |-> IF k = m + 1 THEN PairsOf(old[m]) ELSE old[k]]
  <2>2. \A k \in 0..m : rows[k] = old[k]
    OBVIOUS
  <2>3. rows[m + 1] = PairsOf(old[m])
    OBVIOUS
  <2>4. rows = [k \in 0..(m + 1) |-> rows[k]]
    OBVIOUS
  <2>. HIDE DEF rows, leaves
  <2>5. ASSUME NEW k \in 0..(m + 1)
        PROVE  rows[k] = IF k = 0 THEN leaves ELSE PairsOf(rows[k - 1])
    <3>1. CASE k = m + 1
      <4>1. (m + 1) - 1 = m /\ m \in 0..m /\ k # 0
        BY <3>1
      <4>. QED
        BY <2>2, <2>3, <3>1, <4>1
    <3>2. CASE k # m + 1
      <4>1. k \in 0..m /\ (k # 0 => k - 1 \in 0..m)
        BY <3>2
      <4>2. old[k] = IF k = 0 THEN leaves ELSE PairsOf(old[k - 1])
        BY <2>1, <4>1 DEF AreRows, leaves
      <4>. QED
        BY <2>2, <4>1, <4>2
    <3>. QED
      BY <3>1, <3>2
  <2>6. AreRows(rows, records, m + 1)
    BY <2>4, <2>5 DEF AreRows, leaves
  <2>. QED
    BY <2>6
<1>. HIDE DEF T
<1>3. n \in T
  BY <1>1, <1>2, Induction
<1>. QED
  BY <1>3 DEF T

LEMMA ReferenceIsRows ==
  ASSUME NEW records, NEW n, n = Len(records), n \in Nat, records # << >>
  PROVE  \E rows : AreRows(rows, records, n) /\ ReferenceRoot(records) = rows[n][1]
<1>1. PICK rows : AreRows(rows, records, n)
                  /\ rows = CHOOSE w : AreRows(w, records, n)
  BY RowsExist
<1>2. ReferenceRoot(records) = (CHOOSE w : AreRows(w, records, n))[n][1]
  BY DEF ReferenceRoot, AreRows, PairsOf
<1>. QED
  BY <1>1, <1>2

Joins(up, g, block, h) ==
  /\ h \in Nat /\ g \in Nat /\ (h = 2 * g \/ h = (2 * g) + 1)
  /\ h \in Nat \ {0} => block[h] # Free
  /\ \A j \in Nat \ {0} : up[j] = MerkleParent(block[(2 * j) - 1], block[2 * j])

(* Pairing a row joins the tree of its height that has no brother with     *)
(* what is left over, as Root does at that level.                          *)
LEMMA PairsAre ==
  ASSUME NEW up, NEW g, NEW block, NEW h, NEW rest, Joins(up, g, block, h)
  PROVE  PairsOf(Row(block, h, rest))
           = Row(up, g, FoldTurn("levels", rest, IF h = 2 * g THEN Free ELSE block[h]))
<1>. DEFINE row == Row(block, h, rest)
            next == FoldTurn("levels", rest, IF h = 2 * g THEN Free ELSE block[h])
            len == IF rest = Free THEN h ELSE h + 1
            len2 == IF next = Free THEN g ELSE g + 1
<1>. /\ h \in Nat /\ g \in Nat /\ (h = 2 * g \/ h = (2 * g) + 1)
     /\ h \in Nat \ {0} => block[h] # Free
  BY DEF Joins
<1>1. next = IF h = 2 * g THEN rest
             ELSE IF rest = Free THEN block[h] ELSE MerkleParent(block[h], rest)
  <2>1. "levels" # "log"
    OBVIOUS
  <2>2. h # 2 * g => block[h] # Free
    OBVIOUS
  <2>. QED
    BY <2>1, <2>2 DEF FoldTurn
<1>2. h # 2 * g => next # Free
  BY <1>1, NodesAreNotFree
<1>3. len \in Nat /\ len2 \in Nat
  OBVIOUS
<1>4. row = [i \in 1..len |-> IF i <= h THEN block[i] ELSE rest]
  BY DEF Row
<1>5. Len(row) = len
  <2>1. row = [i \in 1..len |-> row[i]] /\ DOMAIN row = 1..len
    BY <1>4
  <2>. HIDE DEF row, len
  <2>. QED
    BY <1>3, <2>1, FunctionIsSeq
<1>6. (len + 1) \div 2 = len2
  <2>1. len = 2 * len2 \/ len + 1 = 2 * len2
    BY <1>1, <1>2
  <2>. HIDE DEF len, len2
  <2>. QED
    BY <1>3, <2>1, Halves
<1>. HIDE DEF row, next
<1>7. ASSUME NEW i \in 1..len2
      PROVE  (IF 2 * i > len THEN row[(2 * i) - 1]
              ELSE MerkleParent(row[(2 * i) - 1], row[2 * i]))
               = IF i <= g THEN up[i] ELSE next
  <2>1. CASE i <= g
    <3>1. /\ ~(2 * i > len) /\ (2 * i) - 1 \in 1..len /\ 2 * i \in 1..len
          /\ (2 * i) - 1 <= h /\ 2 * i <= h
      BY <2>1
    <3>2. row[(2 * i) - 1] = block[(2 * i) - 1] /\ row[2 * i] = block[2 * i]
      BY <1>4, <3>1
    <3>3. up[i] = MerkleParent(block[(2 * i) - 1], block[2 * i])
      BY DEF Joins
    <3>. QED
      BY <2>1, <3>1, <3>2, <3>3
  <2>2. CASE i = g + 1
    <3>1. next # Free
      BY <2>2
    <3>2. CASE h = 2 * g
      <4>1. next = rest /\ rest # Free
        BY <1>1, <3>1, <3>2
      <4>2. len = h + 1 /\ 2 * i > len /\ (2 * i) - 1 = h + 1 /\ h + 1 \in 1..len
        BY <2>2, <3>2, <4>1
      <4>3. row[h + 1] = rest
        BY <1>4, <4>2
      <4>4. ~(i <= g)
        BY <2>2
      <4>. QED
        BY <4>1, <4>2, <4>3, <4>4
    <3>3. CASE h # 2 * g /\ rest = Free
      <4>1. next = block[h] /\ len = h /\ 2 * i > len /\ (2 * i) - 1 = h /\ h \in 1..len
        BY <1>1, <2>2, <3>3
      <4>2. row[h] = block[h]
        BY <1>4, <4>1
      <4>3. ~(i <= g)
        BY <2>2
      <4>. QED
        BY <4>1, <4>2, <4>3
    <3>4. CASE h # 2 * g /\ rest # Free
      <4>1. next = MerkleParent(block[h], rest) /\ len = h + 1
        BY <1>1, <3>4
      <4>2. /\ ~(2 * i > h + 1) /\ (2 * i) - 1 = h /\ 2 * i = h + 1
            /\ h \in 1..(h + 1) /\ h + 1 \in 1..(h + 1) /\ ~(i <= g)
        BY <2>2, <3>4
      <4>3. row[h] = block[h] /\ row[h + 1] = rest
        BY <1>4, <4>1, <4>2
      <4>. QED
        BY <4>1, <4>2, <4>3
    <3>. QED
      BY <3>2, <3>3, <3>4
  <2>. QED
    BY <2>1, <2>2
<1>8. PairsOf(row) = [i \in 1..len2 |-> IF i <= g THEN up[i] ELSE next]
  BY <1>5, <1>6, <1>7 DEF PairsOf
<1>. QED
  BY <1>8 DEF row, Row, next

LEMMA RootOfNothing ==
  ASSUME NEW depth \in Nat
  PROVE  Root(Empty(depth)) = Free
<1>. DEFINE levels == Empty(depth)
<1>1. DOMAIN levels = 1..depth /\ \A i \in 1..depth : levels[i] = Free
  BY DEF Empty
<1>. HIDE DEF levels
<1>2. PICK right : Turns("levels", Free, levels, depth, right) /\ Root(levels) = right[depth]
  BY <1>1, RootTurns
<1>. DEFINE T == {k \in Nat : k <= depth => right[k] = Free}
<1>3. 0 \in T
  BY <1>2 DEF Turns
<1>4. ASSUME NEW k \in Nat, k \in T PROVE k + 1 \in T
  <2>. SUFFICES ASSUME k + 1 <= depth PROVE right[k + 1] = Free
    OBVIOUS
  <2>1. k \in 0..(depth - 1) /\ k + 1 \in 1..depth /\ "levels" # "log"
    OBVIOUS
  <2>. QED
    BY <1>1, <1>2, <1>4, <2>1 DEF Turns, FoldTurn
<1>. HIDE DEF T
<1>5. depth \in T
  BY <1>3, <1>4, Induction
<1>. QED
  BY <1>2, <1>5 DEF T, levels

(* Joining the levels from the lowest gives the tree of the whole log.     *)
LEMMA RootOfTheRows ==
  ASSUME NEW records, NEW n \in Nat \ {0}, IsSeq(records), Len(records) = n,
         NEW depth \in Nat, NEW B, AreBlocks(B, records, depth),
         NEW H, Counts(H, n, depth), H[depth] = 0
  PROVE  Root(Held(B, H, depth)) = ReferenceRoot(records)
<1>. DEFINE levels == Held(B, H, depth)
<1>1. PICK right : Turns("levels", Free, levels, depth, right) /\ Root(levels) = right[depth]
  <2>1. DOMAIN levels = 1..depth
    BY DEF Held
  <2>. HIDE DEF levels
  <2>. QED
    BY <2>1, RootTurns
<1>2. Root(levels) = right[depth]
  BY <1>1
<1>3. DOMAIN records = 1..n /\ records # << >>
  BY DomainOfSeq, EmptyIsSeq
<1>4. PICK rows : AreRows(rows, records, n) /\ ReferenceRoot(records) = rows[n][1]
  BY <1>3, ReferenceIsRows
<1>5. \A l \in 0..depth : H[l] \in Nat /\ (H[l] = 0 \/ H[l] + l <= n)
  BY CountsFall DEF Counts
<1>6. \A l \in 0..(depth - 1) : H[l] = 2 * H[l + 1] \/ H[l] = (2 * H[l + 1]) + 1
  BY DEF Counts
<1>7. ASSUME NEW k \in 0..(depth - 1)
      PROVE  right[k + 1] = FoldTurn("levels", right[k],
                                     IF H[k] = 2 * H[k + 1] THEN Free ELSE B[k][H[k]])
  <2>1. k + 1 \in 1..depth /\ (k + 1) - 1 = k
    OBVIOUS
  <2>2. levels[k + 1] = IF H[k] = 2 * H[k + 1] THEN Free ELSE B[k][H[k]]
    BY <2>1 DEF Held
  <2>. HIDE DEF levels
  <2>. QED
    BY <1>1, <2>2 DEF Turns
<1>. HIDE DEF levels
<1>8. ASSUME NEW k \in 0..(depth - 1), H[k] # 0 \/ right[k] # Free
      PROVE  H[k + 1] # 0 \/ right[k + 1] # Free
  <2>1. k \in 0..depth /\ k + 1 \in 0..depth
    OBVIOUS
  <2>2. H[k] \in Nat /\ H[k + 1] \in Nat
    BY <1>5, <2>1
  <2>3. "levels" # "log"
    OBVIOUS
  <2>4. CASE H[k] = 2 * H[k + 1]
    <3>1. right[k + 1] = right[k]
      BY <1>7, <2>3, <2>4 DEF FoldTurn
    <3>. QED
      BY <1>8, <2>2, <2>4, <3>1
  <2>5. CASE H[k] # 2 * H[k + 1]
    <3>1. H[k] \in Nat \ {0}
      BY <1>6, <2>2, <2>5
    <3>2. B[k][H[k]] # Free
      BY <2>1, <3>1, BlocksAreNotFree
    <3>. QED
      BY <1>7, <2>3, <2>5, <3>2, NodesAreNotFree DEF FoldTurn
  <2>. QED
    BY <2>4, <2>5
<1>. DEFINE T == {k \in Nat : k <= n /\ k <= depth =>
                                       /\ rows[k] = Row(B[k], H[k], right[k])
                                       /\ H[k] # 0 \/ right[k] # Free}
<1>9. 0 \in T
  <2>1. H[0] = n /\ right[0] = Free
    BY <1>1 DEF Counts, Turns
  <2>2. rows[0] = [i \in 1..n |-> Leaf(records[i].digest)]
    BY <1>3, <1>4 DEF AreRows
  <2>3. ASSUME NEW i \in 1..n
        PROVE  Leaf(records[i].digest) = IF i <= n THEN B[0][i] ELSE Free
    <3>1. i \in Nat \ {0} /\ i <= n
      OBVIOUS
    <3>2. B[0][i] = Leaf(records[i].digest)
      BY <3>1 DEF AreBlocks
    <3>. QED
      BY <3>1, <3>2
  <2>4. rows[0] = Row(B[0], n, Free)
    BY <2>2, <2>3 DEF Row
  <2>. QED
    BY <2>1, <2>4
<1>10. ASSUME NEW k \in Nat, k \in T PROVE k + 1 \in T
  <2>. SUFFICES ASSUME k + 1 <= n, k + 1 <= depth
                PROVE  /\ rows[k + 1] = Row(B[k + 1], H[k + 1], right[k + 1])
                       /\ H[k + 1] # 0 \/ right[k + 1] # Free
    OBVIOUS
  <2>1. /\ k \in 0..(depth - 1) /\ k \in 0..depth /\ k + 1 \in 0..depth
        /\ k + 1 \in 0..n /\ k + 1 # 0 /\ (k + 1) - 1 = k
    OBVIOUS
  <2>2. rows[k] = Row(B[k], H[k], right[k]) /\ (H[k] # 0 \/ right[k] # Free)
    BY <1>10
  <2>3. rows[k + 1] = PairsOf(rows[k])
    BY <1>4, <2>1 DEF AreRows
  <2>4. H[k] \in Nat /\ H[k + 1] \in Nat
        /\ (H[k] = 2 * H[k + 1] \/ H[k] = (2 * H[k + 1]) + 1)
    BY <1>5, <1>6, <2>1
  <2>5. H[k] \in Nat \ {0} => B[k][H[k]] # Free
    BY <2>1, BlocksAreNotFree
  <2>6. Joins(B[k + 1], H[k + 1], B[k], H[k])
    BY <2>1, <2>4, <2>5 DEF AreBlocks, Joins
  <2>7. PairsOf(Row(B[k], H[k], right[k]))
          = Row(B[k + 1], H[k + 1],
                FoldTurn("levels", right[k], IF H[k] = 2 * H[k + 1] THEN Free ELSE B[k][H[k]]))
    BY <2>6, PairsAre
  <2>. QED
    BY <1>7, <1>8, <2>1, <2>2, <2>3, <2>7
<1>. HIDE DEF T
<1>11. ASSUME NEW top \in Nat, top <= n, top <= depth, H[top] = 0
       PROVE  right[top] # Free /\ rows[top] = OneNode(right[top])
  <2>1. top \in T
    BY <1>9, <1>10, Induction
  <2>2. rows[top] = Row(B[top], 0, right[top]) /\ right[top] # Free
    BY <1>11, <2>1 DEF T
  <2>3. \A i \in 1..1 : ~(i <= 0)
    OBVIOUS
  <2>. QED
    BY <2>2, <2>3 DEF Row, OneNode
(* Either the levels end first, and the rest of the rows have one node ... *)
<1>12. CASE depth <= n
  <2>. PICK node : node = OneNode(right[depth])
    OBVIOUS
  <2>1. PairsOf(node) = node
    <3>1. node = [i \in 1..1 |-> node[i]] /\ DOMAIN node = 1..1 /\ node[1] = right[depth]
      BY DEF OneNode
    <3>2. Len(node) = 1
      BY <3>1, FunctionIsSeq
    <3>3. (1 + 1) \div 2 = 1
      BY Halves
    <3>4. \A i \in 1..1 : 2 * i > 1 /\ (2 * i) - 1 = i
      OBVIOUS
    <3>5. PairsOf(node) = [i \in 1..1 |-> node[i]]
      BY <3>2, <3>3, <3>4 DEF PairsOf
    <3>. QED
      BY <3>1, <3>5
  <2>. DEFINE W == {m \in Nat : depth + m <= n => rows[depth + m] = node}
  <2>2. 0 \in W
    <3>1. rows[depth] = node
      BY <1>11, <1>12
    <3>2. depth + 0 = depth
      OBVIOUS
    <3>. QED
      BY <3>1, <3>2
  <2>3. ASSUME NEW m \in Nat, m \in W PROVE m + 1 \in W
    <3>. SUFFICES ASSUME depth + (m + 1) <= n PROVE rows[depth + (m + 1)] = node
      OBVIOUS
    <3>1. PICK k \in Nat : k = depth + m
      OBVIOUS
    <3>2. k + 1 \in 0..n /\ k + 1 # 0 /\ (k + 1) - 1 = k /\ k + 1 = depth + (m + 1)
      BY <3>1
    <3>3. rows[k + 1] = PairsOf(rows[k])
      BY <1>4, <3>2 DEF AreRows
    <3>4. rows[k] = node
      BY <2>3, <3>1, <3>2
    <3>. QED
      BY <2>1, <3>2, <3>3, <3>4
  <2>. HIDE DEF W
  <2>4. PICK m \in Nat : n = depth + m
    <3>1. n - depth \in Nat /\ n = depth + (n - depth)
      BY <1>12
    <3>. QED
      BY <3>1
  <2>5. m \in W
    BY <2>2, <2>3, Induction
  <2>6. rows[n] = node
    BY <2>4, <2>5 DEF W
  <2>7. node[1] = right[depth]
    BY DEF OneNode
  <2>. QED
    BY <1>2, <1>4, <2>6, <2>7 DEF levels
(* ... or the rows, and the rest of the levels are free. *)
<1>13. CASE n <= depth
  <2>1. n \in 0..depth /\ H[n] = 0
    <3>1. n \in 0..depth
      BY <1>13
    <3>2. H[n] \in Nat /\ (H[n] = 0 \/ H[n] + n <= n)
      BY <1>5, <3>1
    <3>. QED
      BY <3>1, <3>2
  <2>2. rows[n][1] = right[n]
    <3>1. rows[n] = OneNode(right[n])
      BY <1>11, <1>13, <2>1
    <3>. QED
      BY <3>1 DEF OneNode
  <2>. DEFINE U == {m \in Nat : n + m <= depth => right[n + m] = right[n]}
  <2>3. 0 \in U
    OBVIOUS
  <2>4. ASSUME NEW m \in Nat, m \in U PROVE m + 1 \in U
    <3>. SUFFICES ASSUME n + (m + 1) <= depth PROVE right[n + (m + 1)] = right[n]
      OBVIOUS
    <3>1. PICK k \in Nat : k = n + m
      OBVIOUS
    <3>2. /\ k \in 0..(depth - 1) /\ k \in 0..depth /\ k + 1 \in 0..depth
          /\ n + (m + 1) = k + 1 /\ k >= n
      BY <3>1
    <3>3. H[k] = 0 /\ H[k + 1] = 0
      <4>1. /\ H[k] \in Nat /\ (H[k] = 0 \/ H[k] + k <= n)
            /\ H[k + 1] \in Nat /\ (H[k + 1] = 0 \/ H[k + 1] + (k + 1) <= n)
        BY <1>5, <3>2
      <4>. QED
        BY <3>2, <4>1
    <3>4. right[k + 1] = right[k]
      <4>1. "levels" # "log" /\ 0 = 2 * 0
        OBVIOUS
      <4>2. right[k + 1] = FoldTurn("levels", right[k],
                                    IF H[k] = 2 * H[k + 1] THEN Free ELSE B[k][H[k]])
        BY <1>7, <3>2
      <4>. QED
        BY <3>3, <4>1, <4>2 DEF FoldTurn
    <3>. QED
      BY <2>4, <3>1, <3>2, <3>4
  <2>. HIDE DEF U
  <2>5. right[depth] = right[n]
    <3>1. PICK m \in Nat : depth = n + m
      <4>1. depth - n \in Nat /\ depth = n + (depth - n)
        BY <1>13
      <4>. QED
        BY <4>1
    <3>2. m \in U
      BY <2>3, <2>4, Induction
    <3>. QED
      BY <3>1, <3>2 DEF U
  <2>. QED
    BY <1>2, <1>4, <2>2, <2>5 DEF levels
<1>. QED
  BY <1>12, <1>13

-----------------------------------------------------------------------------
(* The theorems. *)

(* What an append adds to an image in parts, reading any earlier range     *)
(* still gives: what was written is read back as it was written, and       *)
(* nothing before it changes, whatever the segment size and whichever      *)
(* segments a range spans (state.go, SegmentedWriter.WriteAt and           *)
(* readLogical).                                                           *)
THEOREM AppendReadsBack ==
  ASSUME NEW files, files = [s \in DOMAIN files |-> files[s]],
         DOMAIN files \subseteq Nat, NEW size \in Nat \ {0},
         NEW n \in Nat, Fills(files, n, size), NEW data, IsSeq(data),
         Covers(files, n + Len(data), size)
  PROVE  LET after == WriteAt(files, data, n, size)
         IN  /\ ReadLogical(after, n, Len(data), size) = data
             /\ \A offset \in Nat, length \in Nat :
                  offset + length <= n =>
                    ReadLogical(after, offset, length, size) =
                    ReadLogical(files, offset, length, size)
<1>. DEFINE after == WriteAt(files, data, n, size)
            full == n + Len(data)
<1>1. Len(data) \in Nat /\ full \in Nat
  BY DomainOfSeq
<1>2. after = [s \in DOMAIN files |-> after[s]] /\ Fills(after, full, size)
  BY WriteAtTheEnd
<1>3. \A p \in Nat : p < full => Byte(after, p, size) = IF p < n THEN Byte(files, p, size)
                                                        ELSE data[p - n + 1]
  BY BytesAtTheEnd
<1>. HIDE DEF after
<1>4. Covers(after, full, size) /\ Covers(files, n, size)
  BY <1>1, <1>2 DEF Covers
<1>5. ReadLogical(after, n, Len(data), size) = data
  <2>1. ReadLogical(after, n, Len(data), size) = BytesAt(after, n, Len(data), size)
    BY <1>1, <1>2, <1>4, ReadLogicalIs
  <2>. DEFINE bytes == BytesAt(after, n, Len(data), size)
  <2>2. AreBytes(bytes, after, n, Len(data), size)
    BY <1>1, BytesAtAre
  <2>. HIDE DEF bytes
  <2>3. ASSUME NEW i \in 1..Len(data) PROVE bytes[i] = data[i]
    <3>1. PICK p \in Nat : p = n + i - 1
      BY <1>1
    <3>2. p < full /\ ~(p < n) /\ p - n + 1 = i
      BY <1>1, <3>1
    <3>. QED
      BY <1>3, <2>2, <3>1, <3>2 DEF AreBytes
  <2>4. bytes = data
    BY <2>2, <2>3, SameSeq DEF AreBytes
  <2>. QED
    BY <2>1, <2>4 DEF bytes
<1>6. ASSUME NEW offset \in Nat, NEW length \in Nat, offset + length <= n
      PROVE  ReadLogical(after, offset, length, size) = ReadLogical(files, offset, length, size)
  <2>1. offset + length <= full
    BY <1>1, <1>6
  <2>2. /\ ReadLogical(after, offset, length, size) = BytesAt(after, offset, length, size)
        /\ ReadLogical(files, offset, length, size) = BytesAt(files, offset, length, size)
    BY <1>1, <1>2, <1>4, <1>6, <2>1, ReadLogicalIs
  <2>3. ASSUME NEW i \in 1..length
        PROVE  Byte(after, offset + i - 1, size) = Byte(files, offset + i - 1, size)
    <3>1. PICK p \in Nat : p = offset + i - 1
      OBVIOUS
    <3>2. p < n /\ p < full
      BY <1>1, <1>6, <3>1
    <3>. QED
      BY <1>3, <3>1, <3>2
  <2>4. BytesAt(after, offset, length, size) = BytesAt(files, offset, length, size)
    BY <2>3, Zenon DEF BytesAt
  <2>. QED
    BY <2>2, <2>4
<1>. QED
  BY <1>5, <1>6 DEF after

(* The accumulator that keeps one node per level, fed the chunk log record *)
(* by record and joined at the end, has the root of the whole tree built   *)
(* level by level, for every log of less than two to the number of levels  *)
(* (state.go, merkleAccumulator with its 64 levels, and the reference of   *)
(* state_test.go).                                                         *)
THEOREM StreamingRootIsTheTree ==
  ASSUME NEW records, IsSeq(records), NEW depth \in Nat,
         NEW power, Doubles(power, depth), Len(records) < power[depth]
  PROVE  MerkleRoot(records, depth) = ReferenceRoot(records)
<1>1. PICK n \in Nat : n = Len(records) /\ DOMAIN records = 1..n
  BY DomainOfSeq
<1>2. PICK B : AreBlocks(B, records, depth)
  BY BlocksExist
<1>3. CASE n \in Nat \ {0}
  <2>1. PICK H : Counts(H, n, depth) /\ MerkleRoot(records, depth) = Root(Held(B, H, depth))
    BY <1>1, <1>2, LogIsHeld
  <2>2. H[depth] = 0
    BY <1>1, <2>1, NoneAtTheTop
  <2>3. Root(Held(B, H, depth)) = ReferenceRoot(records)
    BY <1>1, <1>2, <1>3, <2>1, <2>2, RootOfTheRows
  <2>. QED
    BY <2>1, <2>3
<1>4. CASE n = 0
  <2>1. records = << >>
    BY <1>1, <1>4, DomainOfSeq
  <2>2. MerkleRoot(records, depth) = Root(Empty(depth))
    <3>1. PICK v : /\ Turns("log", Empty(depth), records, 0, v)
                   /\ TheFold("log", Empty(depth), records, 0)[1..0]
                        = v[0]
      BY FoldTurns
    <3>2. MerkleRoot(records, depth) = Root(v[0])
      BY <1>1, <1>4, <3>1, LogIsFold
    <3>. QED
      BY <3>1, <3>2 DEF Turns
  <2>3. Root(Empty(depth)) = Free
    BY RootOfNothing
  <2>. QED
    BY <2>1, <2>2, <2>3 DEF ReferenceRoot
<1>. QED
  BY <1>1, <1>3, <1>4

=============================================================================
