------------------------- MODULE Relocation_proofs -------------------------
(***************************************************************************)
(* Proof that a moved instruction does, from wherever it is moved to, what *)
(* it did at its place: for every word that is no condition on a covered   *)
(* word, every trampoline and every reach.  The copies lie where they were *)
(* measured to lie (Placement_proofs) and hold what was emitted;           *)
(* executing one leads through its literal, if it has one, to the end that *)
(* the original has.  The type invariant of Placement, which needs both    *)
(* the search and the sizes, is at the end.                                *)
(***************************************************************************)
EXTENDS Placement_proofs

Kinds == {"plain", "b", "bl", "bcond", "cbz", "tbz", "lit", "adr", "adrp"}
IsInsn(w) == w.kind \in Kinds /\ w.to \in Int /\ w.neg \in BOOLEAN

\* The words guarded are instructions, none of them ldrsw or a vector's load of a
\* literal, whose copies are other instructions, and no condition among them
\* leads to a covered word: such a condition is not led to the copy (run
\* inner_condition).
OrdinaryCodes ==
  \A c \in Codes : \A k \in 0..3 :
    IsInsn(c[k]) /\ (c[k].kind \in Conditional => c[k].to \notin 0..3)

\* The module's code does not branch into the trampoline, which it knows
\* nothing of; what counts is that no word moved leads into the middle of its
\* own copy, and that the tail does not lead into itself.
TargetsOutside ==
  step \in {"emitted", "run"} =>
    /\ Guard + PatchLen \notin At(start[PatchLen + 1])..(Here - 1)
    /\ \A k \in 0..(PatchLen - 1) :
         code[k].kind \in {"b"} \cup Conditional /\ ~Covered(code[k]) =>
           Target(code[k]) \notin (At(start[k + 1]) + 1)..(At(start[k + 2]) - 1)

(***************************************************************************)
(* Sequences: what two joined ones hold.                                   *)
(***************************************************************************)
Joins(c, s, t) ==
  /\ \A j \in 1..Len(s) : c[j] = s[j]
  /\ \A j \in 1..Len(t) : c[Len(s) + j] = t[j]
LEMMA JoinedElements ==
  ASSUME NEW s, NEW t, IsSeq(s), IsSeq(t)
  PROVE  Joins(s \o t, s, t)
<1>1. PICK A : s \in Seq(A)  BY DEF IsSeq
<1>2. PICK B : t \in Seq(B)  BY DEF IsSeq
<1>3. s \in Seq(A \cup B) /\ t \in Seq(A \cup B)
  BY <1>1, <1>2
<1>4. Len(s) \in Nat /\ Len(t) \in Nat
  BY <1>3
<1> QED BY <1>3, <1>4 DEF Joins

\* The words of a literal and its use.
LEMMA LitWords ==
  ASSUME NEW v, NEW pc, NEW u
  PROVE  LET c == PutLit(v, pc) \o <<Op(u)>>
         IN  /\ c[1] = Insn("ldrx16", pc + 2, FALSE) /\ c[2] = Insn("b", pc + 4, FALSE)
             /\ c[3] = Insn("data", v, FALSE) /\ c[5] = Op(u)
<1> DEFINE l == PutLit(v, pc)
           o == <<Op(u)>>
           c == l \o o
<1>1. IsSeq(l) /\ Len(l) = 4 /\ IsSeq(o) /\ Len(o) = 1
  BY LitLength, OneWord
<1>2. /\ l[1] = Insn("ldrx16", pc + 2, FALSE) /\ l[2] = Insn("b", pc + 4, FALSE)
      /\ l[3] = Insn("data", v, FALSE) /\ o[1] = Op(u)
  BY DEF PutLit
<1> HIDE DEF l, o
<1>3. Joins(c, l, o)
  <2>1. IsSeq(l) /\ IsSeq(o)
    BY <1>1
  <2> QED BY <2>1, JoinedElements, Zenon
<1> HIDE DEF c
<1>4. c[1] = l[1] /\ c[2] = l[2] /\ c[3] = l[3] /\ c[4 + 1] = o[1]
  BY <1>1, <1>3 DEF Joins
<1>5. c[5] = o[1]
  BY <1>4
<1> QED BY <1>2, <1>4, <1>5 DEF c, l, o

\* The same behind a condition.
Behind(c, q, v, pc, u) ==
  /\ c[1] = q
  /\ c[2] = Insn("ldrx16", pc + 2, FALSE) /\ c[3] = Insn("b", pc + 4, FALSE)
  /\ c[4] = Insn("data", v, FALSE) /\ c[6] = Op(u)
LEMMA CondWords ==
  ASSUME NEW v, NEW pc, NEW u, NEW q
  PROVE  Behind(<<q>> \o PutLit(v, pc) \o <<Op(u)>>, q, v, pc, u)
<1> DEFINE f == <<q>>
           l == PutLit(v, pc)
           o == <<Op(u)>>
           d == f \o l
           c == d \o o
<1>1. IsSeq(f) /\ Len(f) = 1 /\ IsSeq(l) /\ Len(l) = 4 /\ IsSeq(o) /\ Len(o) = 1
  BY LitLength, OneWord
<1>2. /\ f[1] = q /\ l[1] = Insn("ldrx16", pc + 2, FALSE) /\ l[2] = Insn("b", pc + 4, FALSE)
      /\ l[3] = Insn("data", v, FALSE) /\ o[1] = Op(u)
  BY DEF PutLit
<1> HIDE DEF f, l, o
<1>0. IsSeq(f) /\ IsSeq(l) /\ IsSeq(o)
  BY <1>1
<1>3. IsSeq(d) /\ Len(d) = Len(f) + Len(l)
  BY <1>0, Joined, Zenon
<1>4. Joins(d, f, l)
  BY <1>0, JoinedElements, Zenon
<1> HIDE DEF d
<1>5. Joins(c, d, o)
  <2>1. IsSeq(d)
    BY <1>3
  <2> QED BY <1>0, <2>1, JoinedElements, Zenon
<1> HIDE DEF c
<1>6. Len(d) = 5
  BY <1>1, <1>3
<1>7. d[1] = f[1] /\ d[1 + 1] = l[1] /\ d[1 + 2] = l[2] /\ d[1 + 3] = l[3]
  BY <1>1, <1>4 DEF Joins
<1>8. c[1] = d[1] /\ c[2] = d[2] /\ c[3] = d[3] /\ c[4] = d[4] /\ c[5 + 1] = o[1]
  BY <1>1, <1>5, <1>6 DEF Joins
<1>9. c[1] = f[1] /\ c[2] = l[1] /\ c[3] = l[2] /\ c[4] = l[3] /\ c[6] = o[1]
  BY <1>7, <1>8
<1>10. Behind(c, q, v, pc, u)
  BY <1>2, <1>9 DEF Behind
<1> QED BY <1>10 DEF c, d, f, l, o

(***************************************************************************)
(* What has been emitted.                                                  *)
(***************************************************************************)
Placed(k) == Copy(code[k], At(start[k + 1]))
Lies(off, c) == \A j \in 1..Len(c) : words[off - Lead + j] = c[j]
Written(n) == \A k \in 0..(n - 1) : Lies(start[k + 1], Placed(k))

\* None of the first n words is moved so far that its encoder garbles it.
Sound(n) ==
  \A k \in 0..(n - 1) :
    Internal(code[k]) \/ ~Garbled(code[k], Target(code[k]), At(start[k + 1]))

TailCopy == PutLit(Guard + PatchLen, At(start[PatchLen + 1])) \o <<Op("brx16")>>

WordsInv ==
  /\ tramp.at \in Int
  /\ step \in {"size", "emit", "emitted", "run", "ran"} => code \in Codes
  /\ step = "size" => Sound(i)
  /\ step \in {"emit", "emitted", "run"} => Sound(PatchLen)
  /\ step = "emit" => Written(i)
  /\ step \in {"emitted", "run"} =>
       /\ Chain(PatchLen) /\ Written(PatchLen)
       /\ Lies(start[PatchLen + 1], TailCopy) /\ Here = At(start[PatchLen + 1]) + 5

LEMMA CopyKept ==
  ASSUME UNCHANGED <<place, start>>, NEW w, NEW pc
  PROVE  Copy(w, pc)' = Copy(w, pc)
BY DEF place, Copy, PutDisplaced, Internal, Covered, PatchLen, Guard, Target, Encodable, InReach,
   Garbled, Within, Page, Encoded, At, Value, Opposite, PutLit, Use, Insn, Op

LEMMA SoundKept ==
  ASSUME NEW n, Sound(n), UNCHANGED <<place, code, start>>
  PROVE  Sound(n)'
BY DEF place, Sound, Internal, Covered, PatchLen, Guard, Target, Garbled, InReach, Within, Page, At

\* The places ascend, and a copy ends where the next one begins.
LEMMA Ascending ==
  ASSUME Chain(PatchLen)
  PROVE  /\ \A k \in 0..PatchLen : start[k + 1] \in Int /\ Lead <= start[k + 1]
         /\ \A k \in 0..(PatchLen - 1) :
              Size(code[k], At(start[k + 1])) \in Nat /\ Size(code[k], At(start[k + 1])) > 0
              /\ start[k + 2] = start[k + 1] + Size(code[k], At(start[k + 1]))
         /\ \A j, k \in 0..PatchLen : j < k => start[j + 2] <= start[k + 1]
<1> DEFINE n(k) == Size(code[k], At(start[k + 1]))
<1>1. PatchLen \in {3, 4} /\ Lead \in Nat
  BY PatchLenNat, PlacementAssumption DEF PlacementAssumption
<1>2. ASSUME NEW k \in 0..(PatchLen - 1)
      PROVE  n(k) \in Nat /\ n(k) > 0
  BY DEF Size, WordCount
<1>3. ASSUME NEW k \in 0..(PatchLen - 1)
      PROVE  start[k + 2] = start[k + 1] + n(k)
  <2>1. k + 1 \in 1..PatchLen /\ (k + 1) + 1 = k + 2 /\ (k + 1) - 1 = k
    BY <1>1
  <2>2. start[(k + 1) + 1] = start[k + 1] + Size(code[(k + 1) - 1], At(start[k + 1]))
    BY <2>1 DEF Chain
  <2> QED BY <2>1, <2>2
<1>4. start[1] = Lead /\ \A k \in 0..PatchLen : start[k + 1] \in Int
  BY <1>1 DEF Chain
<1> HIDE DEF n
<1>5. /\ start[2] = start[1] + n(0) /\ start[3] = start[2] + n(1) /\ start[4] = start[3] + n(2)
      /\ PatchLen = 4 => start[5] = start[4] + n(3)
  <2>1. /\ start[0 + 2] = start[0 + 1] + n(0) /\ start[1 + 2] = start[1 + 1] + n(1)
        /\ start[2 + 2] = start[2 + 1] + n(2)
        /\ PatchLen = 4 => start[3 + 2] = start[3 + 1] + n(3)
    BY <1>1, <1>3
  <2> QED BY <2>1
<1>6. n(0) \in Nat /\ n(1) \in Nat /\ n(2) \in Nat /\ (PatchLen = 4 => n(3) \in Nat)
  BY <1>1, <1>2
<1>7. start[1] \in Int /\ start[2] \in Int /\ start[3] \in Int /\ start[4] \in Int
  BY <1>1, <1>4, <1>5, <1>6
<1>8. ASSUME NEW k \in 0..PatchLen PROVE Lead <= start[k + 1]
  <2>1. k \in {0, 1, 2, 3, 4} /\ (k = 4 => PatchLen = 4)
    BY <1>1
  <2> QED BY <2>1, <1>4, <1>5, <1>6, <1>7
<1>9. ASSUME NEW j \in 0..PatchLen, NEW k \in 0..PatchLen, j < k PROVE start[j + 2] <= start[k + 1]
  <2>1. j \in {0, 1, 2, 3} /\ k \in {1, 2, 3, 4} /\ (k = 4 => PatchLen = 4)
    BY <1>1, <1>9
  <2>2. start[j + 2] \in {start[2], start[3], start[4], start[5]}
    BY <2>1
  <2> QED BY <2>1, <1>9, <1>5, <1>6, <1>7
<1> QED BY <1>2, <1>3, <1>4, <1>8, <1>9 DEF n

\* Emitting copies and the tail adds words behind those that are there.
LEMMA WrittenKept ==
  ASSUME NEW n \in Nat, n <= PatchLen, Chain(PatchLen), Written(n),
         UNCHANGED <<place, code, start>>,
         \A m \in 1..(start[n + 1] - Lead) : words'[m] = words[m]
  PROVE  Written(n)'
<1>1. PatchLen \in {3, 4} /\ Lead \in Nat
  BY PatchLenNat, PlacementAssumption DEF PlacementAssumption
<1>2. ASSUME NEW k \in 0..(n - 1) PROVE Lies(start[k + 1], Placed(k))'
  <2>1. Placed(k)' = Placed(k) /\ start' = start
    BY CopyKept DEF Placed, At, place
  <2>2. Len(Placed(k)) = Size(code[k], At(start[k + 1]))
    BY CopyLength DEF Placed
  <2>3. /\ k \in 0..PatchLen /\ k \in 0..(PatchLen - 1) /\ n \in 0..PatchLen /\ k < n
    BY <1>1
  <2>4. /\ start[k + 1] \in Int /\ start[n + 1] \in Int /\ Lead <= start[k + 1]
        /\ start[k + 2] <= start[n + 1]
        /\ start[k + 2] = start[k + 1] + Len(Placed(k)) /\ Len(Placed(k)) \in Nat
    BY <2>2, <2>3, Ascending
  <2>5. ASSUME NEW j \in 1..Len(Placed(k))
        PROVE  words'[start[k + 1] - Lead + j] = Placed(k)[j]
    <3>1. start[k + 1] - Lead + j \in 1..(start[n + 1] - Lead)
      <4> DEFINE x == start[k + 1]
                 y == start[n + 1]
                 z == start[k + 2]
                 l == Len(Placed(k))
      <4>1. /\ x \in Int /\ y \in Int /\ Lead <= x /\ z <= y /\ z = x + l /\ l \in Nat
            /\ j \in 1..l /\ Lead \in Nat
        BY <2>4, <1>1
      <4> HIDE DEF x, y, z, l
      <4>2. x - Lead + j \in 1..(y - Lead)
        BY <4>1
      <4> QED BY <4>2 DEF x, y
    <3>2. words[start[k + 1] - Lead + j] = Placed(k)[j]
      BY DEF Written, Lies
    <3> QED BY <3>1, <3>2
  <2> QED BY <2>1, <2>5 DEF Lies
<1> QED BY <1>2 DEF Written

\* What is added to the words lies where the words ended.
Adds(c, off) ==
  /\ \A j \in 1..Len(c) : words'[off - Lead + j] = c[j]
  /\ \A m \in 1..(off - Lead) : words'[m] = words[m]
  /\ Len(words') = off - Lead + Len(c)
LEMMA Added ==
  ASSUME NEW c, IsSeq(c), IsSeq(words), words' = words \o c,
         NEW off, Emitted = off, off \in Int
  PROVE  Adds(c, off)
<1>1. Joins(words', words, c)
  BY JoinedElements
<1>2. Len(words') = Len(words) + Len(c)
  BY Joined
<1>3. Len(words) \in Nat /\ Len(c) \in Nat
  BY DEF IsSeq
<1>4. Lead \in Nat
  BY PlacementAssumption DEF PlacementAssumption
<1>5. Len(words) = off - Lead
  BY <1>3, <1>4 DEF Emitted
<1> QED BY <1>1, <1>2, <1>3, <1>4, <1>5 DEF Joins, Adds

LEMMA EmitWords ==
  ASSUME WordsInv, SizesInv, Emit PROVE WordsInv'
<1>1. /\ step = "emit" /\ step' = "emit" /\ i < PatchLen /\ i' = i + 1
      /\ UNCHANGED <<place, code, start>> /\ PatchLen' = PatchLen
  BY PatchLenKept DEF Emit
<1>2. i \in 0..(PatchLen - 1) /\ Chain(PatchLen) /\ IsSeq(words) /\ Emitted = start[i + 1]
  BY <1>1, PatchLenNat DEF SizesInv, Emitting
<1>3. PICK n \in {0, 1, 2, 3} : n = i
  BY <1>2, PatchLenNat
<1>4. words' = words \o Placed(n)
  BY <1>2, <1>3 DEF Here, Placed, Emit
<1>5. n \in 0..PatchLen /\ start[n + 1] \in Int /\ IsSeq(Placed(n)) /\ n <= PatchLen /\ n \in Nat
  BY <1>2, <1>3, PatchLenNat, Ascending, CopyLength DEF Placed
<1>6. /\ \A j \in 1..Len(Placed(n)) : words'[start[n + 1] - Lead + j] = Placed(n)[j]
      /\ \A m \in 1..(start[n + 1] - Lead) : words'[m] = words[m]
  <2>1. IsSeq(Placed(n)) /\ start[n + 1] \in Int /\ IsSeq(words) /\ Emitted = start[n + 1]
    BY <1>2, <1>3, <1>5
  <2>2. Adds(Placed(n), start[n + 1])
    BY <2>1, <1>4, Added, Zenon
  <2> QED BY <2>2 DEF Adds
<1>7. Written(n)'
  BY <1>1, <1>2, <1>3, <1>5, <1>6, WrittenKept DEF WordsInv
<1>8. Placed(n)' = Placed(n) /\ start' = start /\ tramp' = tramp
  BY <1>1, CopyKept DEF Placed, At, place
<1>9. Lies(start[n + 1], Placed(n))'
  BY <1>6, <1>8 DEF Lies
<1>10. Written(n + 1)'
  <2>1. \A k \in 0..((n + 1) - 1) : k \in 0..(n - 1) \/ k = n
    BY <1>3
  <2> QED BY <2>1, <1>7, <1>9 DEF Written
<1>11. Sound(PatchLen)'
  <2>1. PICK p \in {3, 4} : p = PatchLen
    BY PatchLenNat
  <2>2. Sound(p)'
    BY <2>1, <1>1, SoundKept DEF WordsInv
  <2> QED BY <2>1, <2>2, <1>1
<1> QED BY <1>1, <1>3, <1>8, <1>10, <1>11 DEF WordsInv

\* The tail, which is put where the last copy ends.
LEMMA TailWords ==
  ASSUME WordsInv, SizesInv, EmitTail PROVE WordsInv'
<1>1. /\ step = "emit" /\ step' = "emitted" /\ i = PatchLen
      /\ UNCHANGED <<place, code, start>> /\ PatchLen' = PatchLen
  BY PatchLenKept DEF EmitTail
<1>2. PICK p \in {3, 4} : p = PatchLen
  BY PatchLenNat
<1>3. Chain(p) /\ IsSeq(words) /\ Emitted = start[p + 1] /\ start[p + 1] \in Int
  BY <1>1, <1>2, Ascending DEF SizesInv, Emitting
<1> DEFINE l == PutLit(Guard + PatchLen, Here)
           u == <<Op("brx16")>>
<1>4. words' = words \o (l \o u) /\ TailCopy = l \o u
  <2>1. words' = words \o l \o u
    BY DEF EmitTail
  <2>2. Here = At(start[p + 1])
    BY <1>3 DEF Here
  <2>3. IsSeq(l) /\ IsSeq(u)
    BY LitLength, OneWord
  <2>4. TailCopy = l \o u
    BY <2>2, <1>2 DEF TailCopy
  <2> HIDE DEF l, u
  <2>5. (words \o l) \o u = words \o (l \o u)
    <3>1. PICK A : words \in Seq(A)  BY <1>3 DEF IsSeq
    <3>2. PICK B : l \in Seq(B)  BY <2>3 DEF IsSeq
    <3>3. PICK C : u \in Seq(C)  BY <2>3 DEF IsSeq
    <3> DEFINE D == A \cup B \cup C
    <3>4. words \in Seq(D) /\ l \in Seq(D) /\ u \in Seq(D)
      BY <3>1, <3>2, <3>3
    <3> HIDE DEF D
    <3> QED BY <3>4, ConcatAssociative
  <2> QED BY <2>1, <2>4, <2>5
<1>5. IsSeq(TailCopy) /\ Len(TailCopy) = 5
  <2>1. IsSeq(l) /\ Len(l) = 4 /\ IsSeq(u) /\ Len(u) = 1
    BY LitLength, OneWord
  <2> HIDE DEF l, u
  <2>2. IsSeq(l) /\ IsSeq(u)
    BY <2>1
  <2>3. IsSeq(l \o u) /\ Len(l \o u) = Len(l) + Len(u)
    BY <2>2, Joined, Zenon
  <2> QED BY <2>1, <2>3, <1>4
<1>6. /\ \A j \in 1..Len(TailCopy) : words'[start[p + 1] - Lead + j] = TailCopy[j]
      /\ \A m \in 1..(start[p + 1] - Lead) : words'[m] = words[m]
      /\ Len(words') = start[p + 1] - Lead + Len(TailCopy)
  <2>1. words' = words \o TailCopy
    BY <1>4
  <2>2. Adds(TailCopy, start[p + 1])
    BY <2>1, <1>3, <1>5, Added, Zenon
  <2> QED BY <2>2 DEF Adds
<1>7. Written(p)'
  BY <1>1, <1>2, <1>3, <1>6, WrittenKept DEF WordsInv
<1>8. Chain(p)' /\ Sound(p)'
  BY <1>1, <1>2, <1>3, ChainKept, SoundKept DEF WordsInv
<1>9. TailCopy' = TailCopy /\ tramp' = tramp /\ start' = start
  BY <1>1 DEF TailCopy, place, Guard, At, PutLit, Insn, Op
<1>10. Lies(start[p + 1], TailCopy)'
  BY <1>6, <1>9 DEF Lies
<1>11. Here' = At(start[p + 1])' + 5
  <2>1. Lead \in Int /\ tramp.at \in Int
    BY PlacementAssumption DEF PlacementAssumption, WordsInv
  <2>2. Emitted' = start[p + 1] + 5
    BY <2>1, <1>3, <1>5, <1>6 DEF Emitted
  <2> QED BY <2>1, <2>2, <1>3, <1>9 DEF Here, At
<1> QED BY <1>1, <1>2, <1>7, <1>8, <1>9, <1>10, <1>11 DEF WordsInv

LEMMA MeasureWords ==
  ASSUME ~FarBitTests, WordsInv, SizesInv, Measure PROVE WordsInv'
<1>1. /\ step = "size" /\ step' = "size" /\ i' = i + 1 /\ UNCHANGED <<place, code>>
      /\ start' = Append(start, start[i + 1] + Size(code[i], At(start[i + 1])))
      /\ Internal(code[i]) \/ ~Garbled(code[i], Target(code[i]), At(start[i + 1]))
      /\ i < PatchLen
  BY DEF Measure
<1>2. PICK n \in {0, 1, 2, 3} : n = i
  BY <1>1, PatchLenNat DEF SizesInv, Measuring
<1>3. start \in Seq(Int) /\ Len(start) = n + 1
  BY <1>1, <1>2 DEF SizesInv, Measuring, Chain
<1>4. \A k \in 0..n : start'[k + 1] = start[k + 1]
  <2> TAKE k \in 0..n
  <2>1. k + 1 \in 1..Len(start)
    BY <1>2, <1>3
  <2> QED BY <2>1, <1>1, <1>3
<1>5. ASSUME NEW k \in 0..n
      PROVE  (Internal(code[k]) \/ ~Garbled(code[k], Target(code[k]), At(start[k + 1])))'
  <2>1. k \in 0..(n - 1) \/ k = n
    BY <1>2
  <2>2. Internal(code[k]) \/ ~Garbled(code[k], Target(code[k]), At(start[k + 1]))
    BY <2>1, <1>1, <1>2 DEF WordsInv, Sound
  <2>3. start'[k + 1] = start[k + 1]
    BY <1>4
  <2> QED BY <2>2, <2>3, <1>1
       DEF place, Internal, Covered, PatchLen, Guard, Target, Garbled, InReach, Within, Page, At
<1>6. Sound(n + 1)'
  <2>1. 0..((n + 1) - 1) = 0..n
    BY <1>2
  <2> QED BY <2>1, <1>5 DEF Sound
<1> QED BY <1>1, <1>2, <1>6 DEF WordsInv, place

LEMMA MeasuredWords ==
  ASSUME WordsInv, SizesInv, Measured PROVE WordsInv'
<1>1. /\ step = "size" /\ i = PatchLen /\ step' = "emit" /\ i' = 0
      /\ UNCHANGED <<place, code, start>> /\ PatchLen' = PatchLen
  BY PatchLenKept DEF Measured
<1>2. PICK p \in {3, 4} : p = PatchLen
  BY PatchLenNat
<1>3. Sound(p)'
  BY <1>1, <1>2, SoundKept DEF WordsInv
<1>4. Written(0)'
  BY DEF Written
<1> QED BY <1>1, <1>2, <1>3, <1>4 DEF WordsInv, place

\* Until the plan is made there is only an address.
LEMMA PlaceWords ==
  ASSUME NearInv, SizesInv, WordsInv,
         \/ Scan \/ OtherMaps \/ PlaceNear \/ NearRefused \/ PlaceAnywhere \/ PlaceFails \/ Plan
  PROVE  WordsInv'
<1>1. CASE Scan \/ OtherMaps \/ NearRefused \/ PlaceFails
  <2>1. tramp' = tramp /\ step' \in {"scan", "place", "failed"}
    BY <1>1 DEF Scan, OtherMaps, NearRefused, PlaceFails, place
  <2> QED BY <2>1 DEF WordsInv
<1>2. CASE PlaceNear
  <2>1. step' = "plan" /\ tramp'.at = found.at /\ found.at \in Nat
    BY <1>2 DEF PlaceNear, Taken, NearInv, InRange
  <2> QED BY <2>1 DEF WordsInv
<1>3. CASE PlaceAnywhere
  <2>1. step' = "plan" /\ \E p \in Pages : tramp'.at = p * PageWords
    BY <1>3 DEF PlaceAnywhere, Taken
  <2>2. tramp'.at \in Int
    BY <2>1, PlacementAssumption DEF PlacementAssumption
  <2> QED BY <2>1, <2>2 DEF WordsInv
<1>4. CASE Plan
  <2>1. step = "plan" /\ tramp'.at = tramp.at /\ i' = i
        /\ (step' = "failed" \/ (step' = "size" /\ code' \in Codes))
    BY <1>4 DEF Plan
  <2>2. i' = 0
    BY <2>1 DEF SizesInv, Before
  <2>3. Sound(0)'
    BY DEF Sound
  <2> QED BY <2>1, <2>2, <2>3 DEF WordsInv
<1> QED BY <1>1, <1>2, <1>3, <1>4

\* From then on the words stay.
LEMMA LaterWords ==
  ASSUME WordsInv,
         \/ \E b \in Branches : Redirect(b)
         \/ Enter \/ Run
  PROVE  WordsInv'
<1>1. /\ step \in {"emitted", "run"} /\ step' \in {"redirected", "refused", "run", "ran"}
      /\ UNCHANGED <<place, code, start, words>> /\ PatchLen' = PatchLen
  BY PatchLenKept DEF Redirect, Enter, Run
<1>2. PICK p \in {3, 4} : p = PatchLen
  BY PatchLenNat
<1>3. Sound(p)' /\ Chain(p)'
  BY <1>1, <1>2, SoundKept, ChainKept DEF WordsInv
<1>4. Written(p)'
  BY <1>1, <1>2, WrittenKept DEF WordsInv
<1>5. TailCopy' = TailCopy /\ Here' = Here /\ At(start[p + 1])' = At(start[p + 1])
  BY <1>1 DEF TailCopy, place, Guard, At, PutLit, Insn, Op, Here, Emitted
<1>6. Lies(start[p + 1], TailCopy)'
  BY <1>1, <1>2, <1>5 DEF Lies, WordsInv
<1> QED BY <1>1, <1>2, <1>3, <1>4, <1>5, <1>6 DEF WordsInv, place

LEMMA StutterWords ==
  ASSUME WordsInv, SizesInv, UNCHANGED vars PROVE WordsInv'
<1>1. UNCHANGED <<step, place, code, i, start, words>> /\ PatchLen' = PatchLen
  BY PatchLenKept DEF vars
<1>2. TailCopy' = TailCopy /\ Here' = Here /\ tramp' = tramp
  BY <1>1 DEF TailCopy, place, Guard, At, PutLit, Insn, Op, Here, Emitted
<1>3. PICK p \in {3, 4} : p = PatchLen
  BY PatchLenNat
<1>4. CASE step = "size"
  <2>1. PICK n \in {0, 1, 2, 3, 4} : n = i
    BY <1>3, <1>4 DEF SizesInv, Measuring
  <2>2. Sound(n)'
    BY <2>1, <1>1, <1>4, SoundKept DEF WordsInv
  <2> QED BY <2>1, <2>2, <1>1, <1>2, <1>4 DEF WordsInv
<1>5. CASE step = "emit"
  <2>1. PICK n \in {0, 1, 2, 3, 4} : n = i
    BY <1>3, <1>5 DEF SizesInv, Emitting
  <2>2. Chain(PatchLen) /\ n <= PatchLen
    BY <2>1, <1>3, <1>5 DEF SizesInv, Emitting
  <2>3. Written(n)'
    BY <2>1, <2>2, <1>1, <1>5, WrittenKept DEF WordsInv
  <2>4. Sound(p)'
    BY <1>1, <1>3, <1>5, SoundKept DEF WordsInv
  <2> QED BY <2>1, <2>3, <2>4, <1>1, <1>2, <1>3, <1>5 DEF WordsInv
<1>6. CASE step \in {"emitted", "run"}
  <2>1. Sound(p)' /\ Chain(p)'
    BY <1>1, <1>3, <1>6, SoundKept, ChainKept DEF WordsInv
  <2>2. Written(p)'
    BY <1>1, <1>3, <1>6, WrittenKept DEF WordsInv
  <2>3. Lies(start[p + 1], TailCopy)'
    BY <1>1, <1>2, <1>3, <1>6 DEF Lies, WordsInv
  <2>4. At(start[p + 1])' = At(start[p + 1])
    BY <1>1, <1>2 DEF At
  <2> QED BY <2>1, <2>2, <2>3, <2>4, <1>1, <1>2, <1>3, <1>6 DEF WordsInv
<1>7. CASE step \notin {"size", "emit", "emitted", "run"}
  BY <1>1, <1>2, <1>7 DEF WordsInv
<1> QED BY <1>4, <1>5, <1>6, <1>7

LEMMA WordsStep ==
  ASSUME ~FarBitTests, NearInv, SizesInv, WordsInv, [Next]_vars
  PROVE  WordsInv'
BY PlaceWords, MeasureWords, MeasuredWords, EmitWords, TailWords, LaterWords, StutterWords
   DEF Next

(***************************************************************************)
(* Executing a copy.                                                       *)
(***************************************************************************)
CpuShape ==
  /\ cpu = [pc |-> cpu.pc, x16 |-> cpu.x16, did |-> cpu.did, with |-> cpu.with, cond |-> cpu.cond]
  /\ cpu.cond \in BOOLEAN
Outcome == <<cpu.pc, cpu.did, cpu.with>>

Moves(a) ==
  cpu'.pc = a /\ cpu'.x16 = cpu.x16 /\ cpu'.did = cpu.did /\ cpu'.with = cpu.with
Acts(what, a) ==
  cpu'.pc = cpu.pc + 1 /\ cpu'.did = what /\ cpu'.with = a

\* What each kind of word does.
Effect(w) ==
  /\ CpuShape' /\ cpu'.cond = cpu.cond
  /\ w.kind = "b" => Moves(w.to)
  /\ w.kind \in Conditional => Moves(IF cpu.cond # w.neg THEN w.to ELSE cpu.pc + 1)
  /\ w.kind = "bl" => Acts("call", w.to)
  /\ w.kind = "lit" => Acts("load", w.to)
  /\ w.kind = "adr" => Acts("address", w.to)
  /\ w.kind = "adrp" => Acts("address", Page(w.to) * PageWords)
  /\ w.kind = "plain" => Acts("plain", 0)
  /\ w.kind = "ldrx16" =>
       /\ cpu'.pc = cpu.pc + 1 /\ cpu'.x16 = Fetch(w.to).to
       /\ cpu'.did = cpu.did /\ cpu'.with = cpu.with
  /\ w.kind = "brx16" => Moves(cpu.x16)
  /\ w.kind = "blrx16" => Acts("call", cpu.x16)
  /\ w.kind = "loadx16" => Acts("load", cpu.x16)
  /\ w.kind = "movx16" => Acts("address", cpu.x16)

LEMMA Effects ==
  ASSUME CpuShape, NEW w, Execute(w) PROVE Effect(w)
<1> DEFINE k == w.kind
<1>1. CpuShape' /\ cpu'.cond = cpu.cond
  BY DEF Execute, CpuShape, Goes, Does
<1>2. /\ k = "b" => Moves(w.to)
      /\ k \in Conditional => Moves(IF cpu.cond # w.neg THEN w.to ELSE cpu.pc + 1)
  BY DEF Execute, CpuShape, Goes, Does, Moves, Conditional
<1>3. /\ k = "bl" => Acts("call", w.to)
      /\ k = "lit" => Acts("load", w.to)
      /\ k = "adr" => Acts("address", w.to)
      /\ k = "adrp" => Acts("address", Page(w.to) * PageWords)
      /\ k = "plain" => Acts("plain", 0)
  BY DEF Execute, CpuShape, Does, Acts, Conditional
<1>4. k = "ldrx16" => /\ cpu'.pc = cpu.pc + 1 /\ cpu'.x16 = Fetch(w.to).to
                      /\ cpu'.did = cpu.did /\ cpu'.with = cpu.with
  BY DEF Execute, CpuShape, Conditional
<1>5. /\ k = "brx16" => Moves(cpu.x16)
      /\ k = "blrx16" => Acts("call", cpu.x16)
      /\ k = "loadx16" => Acts("load", cpu.x16)
      /\ k = "movx16" => Acts("address", cpu.x16)
  BY DEF Execute, CpuShape, Goes, Does, Moves, Acts, Conditional
<1> QED BY <1>1, <1>2, <1>3, <1>4, <1>5 DEF Effect

\* A literal at b, with the value v and the use u of it.
Literal(b, v, u) ==
  /\ Fetch(b) = Insn("ldrx16", b + 2, FALSE) /\ Fetch(b + 1) = Insn("b", b + 4, FALSE)
  /\ Fetch(b + 2) = Insn("data", v, FALSE) /\ Fetch(b + 4) = Op(u)
InLiteral(b, v) ==
  /\ cpu.did = "nothing" /\ cpu.with = 0
  /\ \/ cpu.pc = b
     \/ cpu.pc = b + 1 /\ cpu.x16 = v
     \/ cpu.pc = b + 4 /\ cpu.x16 = v
Used(v, u) ==
  /\ u = "brx16" => Moves(v)
  /\ u = "blrx16" => Acts("call", v)
  /\ u = "loadx16" => Acts("load", v)
  /\ u = "movx16" => Acts("address", v)

\* A step in a literal leads on in it, or is the use of its value.
LitNext(b, v, u) ==
  \/ /\ cpu'.did = "nothing" /\ cpu'.with = 0 /\ cpu'.x16 = v
     /\ cpu'.pc = b + 1 \/ cpu'.pc = b + 4
  \/ cpu.pc = b + 4 /\ cpu.did = "nothing" /\ cpu.with = 0 /\ Used(v, u)
LEMMA LitStep ==
  ASSUME NEW b \in Int, NEW v, NEW u, Literal(b, v, u), InLiteral(b, v), Effect(Fetch(cpu.pc))
  PROVE  LitNext(b, v, u)
<1>1. CASE cpu.pc = b
  BY <1>1 DEF Literal, InLiteral, Effect, LitNext, Insn, Moves
<1>2. CASE cpu.pc = b + 1 /\ cpu.x16 = v
  BY <1>2 DEF Literal, InLiteral, Effect, LitNext, Insn, Moves
<1>3. CASE cpu.pc = b + 4 /\ cpu.x16 = v
  <2>1. Fetch(cpu.pc) = Op(u)
    BY <1>3 DEF Literal
  <2>2. Used(v, u)
    BY <2>1, <1>3 DEF Effect, Used, Op, Insn
  <2> QED BY <1>3, <2>2 DEF InLiteral, LitNext
<1> QED BY <1>1, <1>2, <1>3 DEF InLiteral

(***************************************************************************)
(* Where the copy of word i lies, and where its original leads.            *)
(***************************************************************************)
First == At(start[i + 1])
LitAt == IF code[i].kind \in Conditional THEN First + 1 ELSE First
Long == ~Internal(code[i]) /\ ~Encodable(code[i], Target(code[i]), First)

LEMMA CopyPlace ==
  ASSUME Chain(PatchLen), tramp.at \in Int, i \in 0..(PatchLen - 1)
  PROVE  /\ First \in Int /\ CopyEnd = First + Size(code[i], First) /\ CopyEnd \in Int
         /\ First < CopyEnd /\ At(start[i + 2]) = CopyEnd
         /\ \A j \in 0..(PatchLen - 1) :
              j # i => At(start[j + 1]) < First \/ CopyEnd <= At(start[j + 1])
<1>1. PICK n \in {0, 1, 2, 3} : n = i
  BY PatchLenNat
<1>2. PICK p \in {3, 4} : p = PatchLen
  BY PatchLenNat
<1>3. n \in 0..PatchLen /\ n \in 0..(PatchLen - 1) /\ n < p /\ p \in 0..PatchLen
  BY <1>1, <1>2
<1> DEFINE z == Size(code[n], At(start[n + 1]))
           x == start[n + 1]
           y == start[n + 2]
<1>4. x \in Int /\ Lead <= x /\ z \in Nat /\ z > 0 /\ y = x + z
  BY <1>2, <1>3, Ascending
<1>5. Lead \in Int /\ tramp.at \in Int
  BY PlacementAssumption DEF PlacementAssumption
<1>6. First = tramp.at + x /\ CopyEnd = tramp.at + y /\ At(start[i + 2]) = CopyEnd
  BY <1>1, <1>3, <1>2 DEF First, At, CopyEnd
<1>7. z = Size(code[i], First)
  BY <1>1 DEF First
<1>8. ASSUME NEW j \in 0..(PatchLen - 1), j # i
      PROVE  At(start[j + 1]) < First \/ CopyEnd <= At(start[j + 1])
  <2>1. /\ j \in 0..PatchLen /\ start[j + 1] \in Int
        /\ Size(code[j], At(start[j + 1])) \in Nat /\ Size(code[j], At(start[j + 1])) > 0
        /\ start[j + 2] = start[j + 1] + Size(code[j], At(start[j + 1]))
    BY <1>2, Ascending
  <2>2. (j < n \/ n < j)
    BY <1>1, <1>8, <1>2
  <2>3. (j < n => start[j + 2] <= x) /\ (n < j => y <= start[j + 1])
    BY <1>3, <2>1, Ascending
  <2> QED BY <2>1, <2>2, <2>3, <1>4, <1>5, <1>6 DEF At
<1> HIDE DEF x, y, z
<1>9. /\ First \in Int /\ CopyEnd = First + z /\ CopyEnd \in Int /\ First < CopyEnd
  BY <1>4, <1>5, <1>6, <1>7
<1> QED BY <1>6, <1>7, <1>8, <1>9

\* The copy of word i is executed.
Running ==
  /\ OrdinaryCodes /\ TargetsOutside /\ WordsInv /\ CpuShape
  /\ step = "run" /\ i \in 0..(PatchLen - 1)

LEMMA RunningPlace ==
  ASSUME Running
  PROVE  /\ Chain(PatchLen) /\ tramp.at \in Int
         /\ i \in 0..(PatchLen - 1) /\ i \in 0..3
         /\ IsInsn(code[i]) /\ (code[i].kind \in Conditional => ~Covered(code[i]))
         /\ Internal(code[i]) \/ ~Garbled(code[i], Target(code[i]), First)
<1>1. code \in Codes /\ i \in 0..(PatchLen - 1) /\ Sound(PatchLen)
  BY DEF Running, WordsInv
<1>2. i \in 0..3 /\ 0..(PatchLen - 1) \subseteq 0..3
  BY <1>1, PatchLenNat
<1>3. IsInsn(code[i]) /\ (code[i].kind \in Conditional => code[i].to \notin 0..3)
  BY <1>1, <1>2 DEF Running, OrdinaryCodes
<1>4. code[i].kind \in Conditional => ~Covered(code[i])
  BY <1>2, <1>3 DEF Covered
<1>5. Internal(code[i]) \/ ~Garbled(code[i], Target(code[i]), First)
  BY <1>1 DEF Sound, First
<1> QED BY <1>1, <1>2, <1>3, <1>4, <1>5 DEF Running, WordsInv

LEMMA Fetched ==
  ASSUME Running, NEW j \in 1..Size(code[i], First)
  PROVE  Fetch(First + j - 1) = Copy(code[i], First)[j]
<1>1. Lies(start[i + 1], Copy(code[i], First))
  BY DEF Running, WordsInv, Written, Placed, First
<1>2. Len(Copy(code[i], First)) = Size(code[i], First)
  BY CopyLength
<1>3. words[start[i + 1] - Lead + j] = Copy(code[i], First)[j]
  BY <1>1, <1>2 DEF Lies
<1>4. start[i + 1] \in Int /\ tramp.at \in Int /\ Lead \in Int /\ j \in Int
  <2>1. i \in 0..PatchLen
    BY PatchLenNat DEF Running
  <2>2. Size(code[i], First) \in Nat
    BY SizeNat
  <2> QED BY <2>1, <2>2, RunningPlace, Ascending, PlacementAssumption DEF PlacementAssumption
<1>5. ((First + j - 1) - At(Lead)) + 1 = start[i + 1] - Lead + j
  BY <1>4 DEF First, At
<1>6. Fetch(First + j - 1) = words[((First + j - 1) - At(Lead)) + 1]
  BY Zenon DEF Fetch
<1> QED BY <1>3, <1>5, <1>6, Zenon

\* Where a branch leads that is executed as a copy: to the copy itself, or out
\* of it.
Dest == IF Covered(code[i]) THEN At(start[code[i].to + 1]) ELSE Target(code[i])
LEMMA DestOutside ==
  ASSUME Running, code[i].kind \in {"b"} \cup Conditional
  PROVE  Dest = First \/ Dest \notin First..(CopyEnd - 1)
<1>1. /\ First \in Int /\ CopyEnd \in Int
      /\ \A j \in 0..(PatchLen - 1) :
           j # i => At(start[j + 1]) < First \/ CopyEnd <= At(start[j + 1])
  BY RunningPlace, CopyPlace
<1>2. CASE Covered(code[i])
  <2>1. code[i].to \in 0..(PatchLen - 1) /\ Dest = At(start[code[i].to + 1])
    BY <1>2 DEF Covered, Dest
  <2>2. CASE code[i].to = i
    BY <2>1, <2>2 DEF First
  <2>3. CASE code[i].to # i
    <3>1. Dest < First \/ CopyEnd <= Dest
      BY <2>1, <2>3, <1>1
    <3>2. Dest \in Int
      <4>1. code[i].to \in 0..PatchLen
        BY <2>1, PatchLenNat
      <4>2. start[code[i].to + 1] \in Int /\ tramp.at \in Int
        BY <4>1, RunningPlace, Ascending
      <4> QED BY <4>2, <2>1 DEF At
    <3> QED BY <3>1, <3>2, <1>1
  <2> QED BY <2>2, <2>3
<1>3. CASE ~Covered(code[i])
  <2>1. At(start[i + 2]) = CopyEnd
    BY RunningPlace, CopyPlace
  <2>2. Target(code[i]) \notin (First + 1)..(CopyEnd - 1)
    BY <2>1, <1>3 DEF Running, TargetsOutside, First
  <2> QED BY <2>2, <1>1, <1>3 DEF Dest
<1> QED BY <1>2, <1>3

\* What the original of word i does, said with the places of its copy.
LEMMA OriginalIs ==
  ASSUME Running
  PROVE  LET w == code[i] IN
         /\ w.kind = "b" => Original(i) = <<Dest, "nothing", 0>>
         /\ w.kind \in Conditional =>
              Original(i) = <<IF cpu.cond # w.neg THEN Dest ELSE CopyEnd, "nothing", 0>>
         /\ w.kind = "bl" => Original(i) = <<CopyEnd, "call", Dest>>
         /\ w.kind = "lit" => Original(i) = <<CopyEnd, "load", Target(w)>>
         /\ w.kind = "adr" => Original(i) = <<CopyEnd, "address", Target(w)>>
         /\ w.kind = "adrp" =>
              Original(i) = <<CopyEnd, "address", Page(Target(w)) * PageWords>>
         /\ w.kind = "plain" => Original(i) = <<CopyEnd, "plain", 0>>
<1>1. At(start[i + 2]) = CopyEnd
  BY RunningPlace, CopyPlace
<1> QED BY <1>1 DEF Original, Dest, Conditional

(***************************************************************************)
(* The words of the copy.                                                  *)
(***************************************************************************)
LEMMA ShortWord ==
  ASSUME Running, ~Long
  PROVE  LET w == code[i] IN
         /\ CopyEnd = First + 1
         /\ Fetch(First).kind = w.kind
         /\ w.kind \in {"b", "bl"} \cup Conditional => Fetch(First).to = Dest
         /\ w.kind \in {"lit", "adr", "adrp"} => Fetch(First).to = Target(w)
         /\ w.kind \in Conditional => Fetch(First).neg = w.neg
<1> DEFINE w == code[i]
           c == Copy(w, First)
<1>1. /\ IsInsn(w) /\ (w.kind \in Conditional => ~Covered(w))
      /\ Internal(w) \/ ~Garbled(w, Target(w), First)
  BY RunningPlace
<1>2. CopyEnd = First + Size(w, First) /\ First \in Int
  BY RunningPlace, CopyPlace
<1>3. Size(w, First) = 1
  BY DEF Long, Size, WordCount
<1>4. Fetch(First) = c[1]
  <2>1. Fetch(First + 1 - 1) = c[1]
    BY <1>3, Fetched
  <2> QED BY <1>2, <2>1
<1>5. CASE Internal(w)
  <2>1. c[1] = Insn(w.kind, At(start[w.to + 1]), FALSE)
    BY <1>5 DEF Copy
  <2>2. w.kind \in {"b", "bl"} /\ w.kind \notin Conditional /\ Dest = At(start[w.to + 1])
    BY <1>5 DEF Internal, Dest, Conditional
  <2>3. Fetch(First).kind = w.kind /\ Fetch(First).to = At(start[w.to + 1])
    BY <2>1, <1>4 DEF Insn
  <2> QED BY <2>2, <2>3, <1>2, <1>3
<1>6. CASE ~Internal(w)
  <2>1. c[1] = Insn(w.kind, Target(w), w.neg)
    <3>1. w.kind \notin {"litsw", "litfp"} /\ ~Garbled(w, Target(w), First)
      BY <1>1, <1>6 DEF IsInsn, Kinds
    <3>2. Encoded(w, Target(w), First) = Insn(w.kind, Target(w), w.neg)
      BY <3>1 DEF Encoded
    <3>3. c = <<Encoded(w, Target(w), First)>>
      BY <1>6 DEF Long, Copy, PutDisplaced
    <3> QED BY <3>2, <3>3
  <2>2. w.kind \in {"b", "bl"} \cup Conditional => Dest = Target(w)
    BY <1>1, <1>6 DEF Internal, Dest
  <2> QED BY <2>1, <2>2, <1>2, <1>3, <1>4 DEF Insn
<1> QED BY <1>5, <1>6

LEMMA LongWords ==
  ASSUME Running, Long
  PROVE  LET w == code[i] IN
         /\ LitAt \in Int /\ CopyEnd = LitAt + 5
         /\ Literal(LitAt, Value(w), Use(w.kind))
         /\ w.kind \in Conditional => Fetch(First) = Opposite(w, First)
         /\ w.kind # "plain"
         /\ w.kind \in {"b", "bl"} \cup Conditional => Dest = Target(w)
<1> DEFINE w == code[i]
           v == Value(w)
           u == Use(w.kind)
<1>1. IsInsn(w) /\ (w.kind \in Conditional => ~Covered(w))
  BY RunningPlace
<1>2. CopyEnd = First + Size(w, First) /\ First \in Int
  BY RunningPlace, CopyPlace
<1>3. w.kind # "plain"
  BY DEF Long, Encodable, InReach
<1>4. w.kind \in {"b", "bl"} \cup Conditional => Dest = Target(w)
  BY <1>1 DEF Long, Internal, Dest
<1>5. CASE w.kind \in Conditional
  <2>1. Size(w, First) = 6 /\ LitAt = First + 1
    BY <1>5 DEF Long, Size, WordCount, LitAt
  <2>2. Copy(w, First) = <<Opposite(w, First)>> \o PutLit(v, First + 1) \o <<Op(u)>>
    BY <1>5 DEF Long, Copy, PutDisplaced
  <2>3. /\ Fetch(First + 1 - 1) = Copy(w, First)[1] /\ Fetch(First + 2 - 1) = Copy(w, First)[2]
        /\ Fetch(First + 3 - 1) = Copy(w, First)[3] /\ Fetch(First + 4 - 1) = Copy(w, First)[4]
        /\ Fetch(First + 6 - 1) = Copy(w, First)[6]
    <3>1. \A j \in 1..6 : Fetch(First + j - 1) = Copy(w, First)[j]
      BY <2>1, Fetched
    <3> QED BY <3>1
  <2>4. /\ Copy(w, First)[1] = Opposite(w, First)
        /\ Copy(w, First)[2] = Insn("ldrx16", First + 1 + 2, FALSE)
        /\ Copy(w, First)[3] = Insn("b", First + 1 + 4, FALSE)
        /\ Copy(w, First)[4] = Insn("data", v, FALSE) /\ Copy(w, First)[6] = Op(u)
    <3> HIDE DEF v, u
    <3>1. Behind(Copy(w, First), Opposite(w, First), v, First + 1, u)
      BY <2>2, CondWords, Zenon
    <3> QED BY <3>1 DEF Behind
  <2>5. /\ First + 1 - 1 = First /\ First + 2 - 1 = LitAt /\ First + 3 - 1 = LitAt + 1
        /\ First + 4 - 1 = LitAt + 2 /\ First + 6 - 1 = LitAt + 4
        /\ First + 1 + 2 = LitAt + 2 /\ First + 1 + 4 = LitAt + 4
        /\ LitAt \in Int /\ CopyEnd = LitAt + 5
    BY <1>2, <2>1
  <2>6. Literal(LitAt, v, u) /\ Fetch(First) = Opposite(w, First)
    BY <2>3, <2>4, <2>5, Zenon DEF Literal
  <2> QED BY <2>5, <2>6, <1>3, <1>4
<1>6. CASE w.kind \notin Conditional
  <2>1. Size(w, First) = 5 /\ LitAt = First
    BY <1>6 DEF Long, Size, WordCount, LitAt
  <2>2. Copy(w, First) = PutLit(v, First) \o <<Op(u)>>
    BY <1>6 DEF Long, Copy, PutDisplaced
  <2>3. /\ Fetch(First + 1 - 1) = Copy(w, First)[1] /\ Fetch(First + 2 - 1) = Copy(w, First)[2]
        /\ Fetch(First + 3 - 1) = Copy(w, First)[3] /\ Fetch(First + 5 - 1) = Copy(w, First)[5]
    <3>1. \A j \in 1..5 : Fetch(First + j - 1) = Copy(w, First)[j]
      BY <2>1, Fetched
    <3> QED BY <3>1
  <2>4. /\ Copy(w, First)[1] = Insn("ldrx16", First + 2, FALSE)
        /\ Copy(w, First)[2] = Insn("b", First + 4, FALSE)
        /\ Copy(w, First)[3] = Insn("data", v, FALSE) /\ Copy(w, First)[5] = Op(u)
    <3> HIDE DEF v, u
    <3>1. LET c == PutLit(v, First) \o <<Op(u)>>
          IN  /\ c[1] = Insn("ldrx16", First + 2, FALSE) /\ c[2] = Insn("b", First + 4, FALSE)
              /\ c[3] = Insn("data", v, FALSE) /\ c[5] = Op(u)
      BY LitWords, Zenon
    <3> QED BY <2>2, <3>1, Zenon
  <2>5. /\ First + 1 - 1 = LitAt /\ First + 2 - 1 = LitAt + 1
        /\ First + 3 - 1 = LitAt + 2 /\ First + 5 - 1 = LitAt + 4
        /\ LitAt \in Int /\ CopyEnd = LitAt + 5
    BY <1>2, <2>1
  <2>6. Literal(LitAt, v, u)
    BY <2>1, <2>3, <2>4, <2>5, Zenon DEF Literal
  <2> QED BY <2>5, <2>6, <1>3, <1>4, <1>6
<1> QED BY <1>5, <1>6

LEMMA TailWordsAre ==
  ASSUME Chain(PatchLen), tramp.at \in Int, Lies(start[PatchLen + 1], TailCopy), i = PatchLen
  PROVE  Literal(First, Guard + PatchLen, "brx16") /\ First \in Int
<1> DEFINE x == start[PatchLen + 1]
           v == Guard + PatchLen
<1>1. First = tramp.at + x
  BY DEF First, At
<1>2. x \in Int /\ tramp.at \in Int /\ Lead \in Int /\ Lead <= x
  BY PatchLenNat, Ascending, PlacementAssumption DEF PlacementAssumption
<1>3. First = At(x)
  BY DEF First
<1>4. /\ TailCopy[1] = Insn("ldrx16", First + 2, FALSE) /\ TailCopy[2] = Insn("b", First + 4, FALSE)
      /\ TailCopy[3] = Insn("data", v, FALSE) /\ TailCopy[5] = Op("brx16")
  BY <1>3, LitWords DEF TailCopy
<1>5. Len(TailCopy) = 5
  <2> DEFINE l == PutLit(v, At(x))
             o == <<Op("brx16")>>
  <2>1. IsSeq(l) /\ Len(l) = 4 /\ IsSeq(o) /\ Len(o) = 1
    BY LitLength, OneWord
  <2> HIDE DEF l, o
  <2>2. IsSeq(l) /\ IsSeq(o)
    BY <2>1
  <2>3. Len(l \o o) = Len(l) + Len(o)
    BY <2>2, Joined, Zenon
  <2>4. TailCopy = l \o o
    BY DEF l, o, TailCopy
  <2> QED BY <2>1, <2>3, <2>4
<1>6. /\ words[x - Lead + 1] = TailCopy[1] /\ words[x - Lead + 2] = TailCopy[2]
      /\ words[x - Lead + 3] = TailCopy[3] /\ words[x - Lead + 5] = TailCopy[5]
  BY <1>5 DEF Lies
<1>7. /\ First - At(Lead) + 1 = x - Lead + 1 /\ (First + 1) - At(Lead) + 1 = x - Lead + 2
      /\ (First + 2) - At(Lead) + 1 = x - Lead + 3
      /\ (First + 4) - At(Lead) + 1 = x - Lead + 5
      /\ First \in Int
  BY <1>1, <1>2 DEF At
<1> QED BY <1>4, <1>6, <1>7, Zenon DEF Literal, Fetch

(***************************************************************************)
(* The way through a copy: its first word, its literal, the end that the   *)
(* original has.                                                           *)
(***************************************************************************)
Result == <<cpu'.pc, cpu'.did, cpu'.with>>
Finishes == Result = Original(i) /\ cpu'.pc \notin First..(CopyEnd - 1)
Restarts == Result = <<First, "nothing", 0>>
NextInLiteral(b, v) ==
  /\ cpu'.did = "nothing" /\ cpu'.with = 0
  /\ \/ cpu'.pc = b
     \/ cpu'.pc = b + 1 /\ cpu'.x16 = v
     \/ cpu'.pc = b + 4 /\ cpu'.x16 = v

LEMMA ShortCopy ==
  ASSUME Running, ~Long, Outcome = <<First, "nothing", 0>>, Effect(Fetch(cpu.pc))
  PROVE  Restarts \/ Finishes
<1> DEFINE w == code[i]
           f == Fetch(First)
<1>1. cpu.pc = First /\ cpu.did = "nothing" /\ cpu.with = 0 /\ Effect(f)
  BY DEF Outcome
<1>2. First \in Int /\ CopyEnd = First + 1 /\ CopyEnd \notin First..(CopyEnd - 1)
  BY RunningPlace, CopyPlace, ShortWord
<1>3. f.kind = w.kind /\ w.kind \in Kinds
  BY RunningPlace, ShortWord DEF IsInsn
<1>4. CASE w.kind = "b"
  <2>1. Moves(Dest) /\ Original(i) = <<Dest, "nothing", 0>>
    BY <1>1, <1>3, <1>4, ShortWord, OriginalIs DEF Effect
  <2> QED BY <2>1, <1>1, <1>4, DestOutside DEF Moves, Restarts, Finishes, Result
<1>5. CASE w.kind \in Conditional
  <2>1. /\ f.to = Dest /\ f.neg = w.neg
        /\ Original(i) = <<IF cpu.cond # w.neg THEN Dest ELSE CopyEnd, "nothing", 0>>
    BY <1>5, ShortWord, OriginalIs
  <2>2. Moves(IF cpu.cond # w.neg THEN Dest ELSE CopyEnd)
    BY <2>1, <1>1, <1>2, <1>3, <1>5 DEF Effect
  <2>3. Dest = First \/ Dest \notin First..(CopyEnd - 1)
    BY <1>5, DestOutside
  <2> QED BY <2>1, <2>2, <2>3, <1>1, <1>2 DEF Moves, Restarts, Finishes, Result
<1>6. CASE w.kind \in {"bl", "lit", "adr", "adrp", "plain"}
  <2>1. cpu'.pc = CopyEnd
    BY <1>1, <1>2, <1>3, <1>6 DEF Effect, Acts
  <2>2. CASE w.kind = "bl"
    BY <2>1, <2>2, <1>1, <1>2, <1>3, ShortWord, OriginalIs DEF Effect, Acts, Finishes, Result
  <2>3. CASE w.kind \in {"lit", "adr", "adrp"}
    BY <2>1, <2>3, <1>1, <1>2, <1>3, ShortWord, OriginalIs DEF Effect, Acts, Finishes, Result
  <2>4. CASE w.kind = "plain"
    BY <2>1, <2>4, <1>1, <1>2, <1>3, OriginalIs DEF Effect, Acts, Finishes, Result
  <2> QED BY <2>2, <2>3, <2>4, <1>6
<1> QED BY <1>3, <1>4, <1>5, <1>6 DEF Kinds, Conditional

LEMMA LongCondition ==
  ASSUME Running, Long, code[i].kind \in Conditional,
         Outcome = <<First, "nothing", 0>>, Effect(Fetch(cpu.pc))
  PROVE  \/ NextInLiteral(LitAt, Value(code[i])) /\ cpu.cond # code[i].neg
         \/ Finishes
<1> DEFINE w == code[i]
<1>1. cpu.pc = First /\ cpu.did = "nothing" /\ cpu.with = 0 /\ Effect(Opposite(w, First))
  BY LongWords DEF Outcome
<1>2. /\ First \in Int /\ LitAt = First + 1 /\ CopyEnd = First + 6
      /\ CopyEnd \notin First..(CopyEnd - 1)
  BY RunningPlace, CopyPlace, LongWords DEF LitAt
<1>3. cpu.cond \in BOOLEAN /\ w.neg \in BOOLEAN
  BY RunningPlace DEF IsInsn, Running, CpuShape
<1>4. Moves(IF cpu.cond # ~w.neg THEN CopyEnd ELSE LitAt)
  BY <1>1, <1>2 DEF Effect, Opposite, Insn
<1>5. Original(i) = <<IF cpu.cond # w.neg THEN Dest ELSE CopyEnd, "nothing", 0>>
  BY OriginalIs
<1>6. CASE cpu.cond # w.neg
  <2>1. cpu.cond = ~w.neg
    BY <1>3, <1>6
  <2> QED BY <2>1, <1>1, <1>4, <1>6 DEF Moves, NextInLiteral
<1>7. CASE cpu.cond = w.neg
  <2>1. cpu.cond # ~w.neg
    BY <1>3, <1>7
  <2> QED BY <2>1, <1>1, <1>2, <1>4, <1>5, <1>7 DEF Moves, Finishes, Result
<1> QED BY <1>6, <1>7

LEMMA LongLiteral ==
  ASSUME Running, Long, InLiteral(LitAt, Value(code[i])),
         code[i].kind \in Conditional => cpu.cond # code[i].neg,
         Effect(Fetch(cpu.pc))
  PROVE  NextInLiteral(LitAt, Value(code[i])) \/ Restarts \/ Finishes
<1> DEFINE w == code[i]
           v == Value(w)
           u == Use(w.kind)
<1>1. /\ LitAt \in Int /\ CopyEnd = LitAt + 5 /\ Literal(LitAt, v, u)
      /\ w.kind # "plain" /\ (w.kind \in {"b", "bl"} \cup Conditional => Dest = Target(w))
  BY LongWords
<1>2. First \in Int /\ CopyEnd \notin First..(CopyEnd - 1)
  BY RunningPlace, CopyPlace
<1>3. LitNext(LitAt, v, u)
  BY <1>1, LitStep
<1>4. CASE cpu.pc = LitAt + 4 /\ cpu.did = "nothing" /\ cpu.with = 0 /\ Used(v, u)
  <2>1. w.kind \in Kinds \ {"plain"}
    BY <1>1, RunningPlace DEF IsInsn
  <2>2. CASE w.kind \in {"b"} \cup Conditional
    <3>1. u = "brx16" /\ v = Dest
      BY <2>2, <1>1 DEF Use, Value, Conditional
    <3>2. Original(i) = <<Dest, "nothing", 0>>
      BY <2>2, OriginalIs
    <3>3. Moves(Dest)
      BY <3>1, <1>4 DEF Used
    <3> QED BY <3>2, <3>3, <1>4, <2>2, DestOutside DEF Moves, Restarts, Finishes, Result
  <2>3. CASE w.kind = "bl"
    <3>1. u = "blrx16" /\ v = Dest /\ Original(i) = <<CopyEnd, "call", Dest>>
      BY <2>3, <1>1, OriginalIs DEF Use, Value
    <3> QED BY <3>1, <1>1, <1>2, <1>4 DEF Used, Acts, Finishes, Result
  <2>4. CASE w.kind = "lit"
    <3>1. u = "loadx16" /\ Original(i) = <<CopyEnd, "load", v>>
      BY <2>4, OriginalIs DEF Use, Value
    <3> QED BY <3>1, <1>1, <1>2, <1>4 DEF Used, Acts, Finishes, Result
  <2>5. CASE w.kind \in {"adr", "adrp"}
    <3>1. u = "movx16" /\ Original(i) = <<CopyEnd, "address", v>>
      BY <2>5, OriginalIs DEF Use, Value
    <3> QED BY <3>1, <1>1, <1>2, <1>4 DEF Used, Acts, Finishes, Result
  <2> QED BY <2>1, <2>2, <2>3, <2>4, <2>5 DEF Kinds, Conditional
<1> QED BY <1>3, <1>4 DEF LitNext, NextInLiteral

(***************************************************************************)
(* The invariant of the execution.                                         *)
(***************************************************************************)
Progress ==
  \/ Outcome = <<First, "nothing", 0>>
  \/ /\ Long /\ InLiteral(LitAt, Value(code[i]))
     /\ code[i].kind \in Conditional => cpu.cond # code[i].neg
  \/ Outcome = Original(i) /\ cpu.pc \notin First..(CopyEnd - 1)
Back == <<Guard + PatchLen, "nothing", 0>>
TailProgress == InLiteral(First, Guard + PatchLen) \/ Outcome = Back

RunInv ==
  /\ step = "run" =>
       /\ i \in 0..PatchLen /\ CpuShape
       /\ i # PatchLen => Progress
       /\ i = PatchLen => TailProgress
  /\ MovedMeansSame

\* What none but the copies' planner changes.
Held ==
  /\ First' = First /\ CopyEnd' = CopyEnd /\ LitAt' = LitAt /\ Long' = Long
  /\ Value(code[i])' = Value(code[i]) /\ PatchLen' = PatchLen /\ Back' = Back
  /\ Original(i)' = Original(i) /\ code' = code /\ i' = i
LEMMA RunHolds ==
  ASSUME UNCHANGED <<place, code, i, start, words>>, cpu'.cond = cpu.cond
  PROVE  Held
<1>1. /\ UNCHANGED <<fn, tramp, code, i, start, words>> /\ PatchLen' = PatchLen
      /\ Guard' = Guard
  BY PatchLenKept DEF place, Guard
<1>2. First' = First /\ CopyEnd' = CopyEnd /\ LitAt' = LitAt /\ Back' = Back
  BY <1>1 DEF First, CopyEnd, LitAt, Back, At, Here, Emitted
<1>3. Value(code[i])' = Value(code[i])
  BY <1>1 DEF Value, Target, Page
<1>4. Internal(code[i])' = Internal(code[i]) /\ Covered(code[i])' = Covered(code[i])
  BY <1>1 DEF Internal, Covered
<1>5. Encodable(code[i], Target(code[i]), First)' = Encodable(code[i], Target(code[i]), First)
  BY <1>1, <1>2 DEF Encodable, InReach, Garbled, Within, Page, Target
<1>6. Original(i)' = Original(i)
  BY <1>1, <1>4 DEF Original, At, Target, Page, Covered
<1> QED BY <1>1, <1>2, <1>3, <1>4, <1>5, <1>6 DEF Held, Long

\* A step inside a copy.
LEMMA CopyRuns ==
  ASSUME Running, Progress, cpu.pc \in First..(CopyEnd - 1), Effect(Fetch(cpu.pc))
  PROVE  \/ Restarts \/ Finishes
         \/ /\ Long /\ NextInLiteral(LitAt, Value(code[i]))
            /\ code[i].kind \in Conditional => cpu.cond # code[i].neg
<1>1. CASE Outcome = <<First, "nothing", 0>> /\ ~Long
  BY <1>1, ShortCopy
<1>2. CASE Outcome = <<First, "nothing", 0>> /\ Long /\ code[i].kind \in Conditional
  BY <1>2, LongCondition
<1>3. CASE Outcome = <<First, "nothing", 0>> /\ Long /\ code[i].kind \notin Conditional
  <2>1. InLiteral(LitAt, Value(code[i]))
    BY <1>3 DEF LitAt, InLiteral, Outcome
  <2> QED BY <2>1, <1>3, LongLiteral
<1>4. CASE /\ Long /\ InLiteral(LitAt, Value(code[i]))
           /\ code[i].kind \in Conditional => cpu.cond # code[i].neg
  BY <1>4, LongLiteral
<1> QED BY <1>1, <1>2, <1>3, <1>4 DEF Progress

\* A step inside the tail.
LEMMA TailRuns ==
  ASSUME WordsInv, TargetsOutside, step = "run", i = PatchLen, TailProgress,
         cpu.pc \in First..(CopyEnd - 1), Effect(Fetch(cpu.pc))
  PROVE  NextInLiteral(First, Guard + PatchLen) \/ Result = Back
<1>1. /\ Chain(PatchLen) /\ tramp.at \in Int /\ Lies(start[PatchLen + 1], TailCopy)
  BY DEF WordsInv
<1>2. Literal(First, Guard + PatchLen, "brx16") /\ First \in Int
  BY <1>1, TailWordsAre
<1>3. CopyEnd = Here
  BY DEF CopyEnd
<1>4. Guard + PatchLen \notin First..(Here - 1)
  BY DEF TargetsOutside, First
<1>5. CASE Outcome = Back
  <2>1. cpu.pc \notin First..(Here - 1)
    BY <1>5, <1>4 DEF Outcome, Back
  <2> QED BY <2>1, <1>3
<1>6. CASE InLiteral(First, Guard + PatchLen)
  <2>1. LitNext(First, Guard + PatchLen, "brx16")
    BY <1>2, <1>6, LitStep
  <2> QED BY <2>1 DEF LitNext, NextInLiteral, Used, Moves, Result, Back
<1> QED BY <1>5, <1>6 DEF TailProgress

\* Where the execution of a copy ends.
LEMMA CopyEnds ==
  ASSUME Running, Progress, cpu.pc \notin First..(CopyEnd - 1)
  PROVE  Outcome = Original(i)
<1>1. /\ First \in Int /\ First < CopyEnd /\ CopyEnd \in Int
  BY RunningPlace, CopyPlace
<1>2. ~(Outcome = <<First, "nothing", 0>>)
  BY <1>1 DEF Outcome
<1>3. ~(Long /\ InLiteral(LitAt, Value(code[i])))
  <2>1. ASSUME Long PROVE LitAt \in Int /\ CopyEnd = LitAt + 5 /\ First <= LitAt
    BY <1>1, <2>1, LongWords DEF LitAt
  <2> QED BY <2>1, <1>1 DEF InLiteral
<1> QED BY <1>2, <1>3 DEF Progress
LEMMA TailEnds ==
  ASSUME WordsInv, step = "run", i = PatchLen, TailProgress,
         cpu.pc \notin First..(CopyEnd - 1)
  PROVE  Outcome = Back
<1>1. /\ Chain(PatchLen) /\ tramp.at \in Int /\ Lies(start[PatchLen + 1], TailCopy)
  BY DEF WordsInv
<1>2. First \in Int
  BY <1>1, TailWordsAre
<1>3. CopyEnd = First + 5
  BY DEF WordsInv, CopyEnd, First
<1> QED BY <1>2, <1>3 DEF TailProgress, InLiteral

LEMMA RunStep ==
  ASSUME OrdinaryCodes, TargetsOutside, WordsInv, RunInv, Run
  PROVE  RunInv'
<1>1. /\ step = "run" /\ i \in 0..PatchLen /\ CpuShape
      /\ (i # PatchLen => Progress) /\ (i = PatchLen => TailProgress)
      /\ UNCHANGED <<place, code, i, start, words>>
  BY DEF Run, RunInv
<1>2. i # PatchLen => Running
  BY <1>1, PatchLenNat DEF Running
<1>3. CASE cpu.pc \in First..(CopyEnd - 1)
  <2>1. Execute(Fetch(cpu.pc)) /\ step' = "run"
    BY <1>1, <1>3 DEF Run, First
  <2>2. Effect(Fetch(cpu.pc))
    BY <1>1, <2>1, Effects
  <2>3. CpuShape' /\ cpu'.cond = cpu.cond
    BY <2>2 DEF Effect
  <2>4. Held
    BY <1>1, <2>3, RunHolds
  <2>5. ASSUME i # PatchLen PROVE Progress'
    <3>1. \/ Restarts \/ Finishes
          \/ /\ Long /\ NextInLiteral(LitAt, Value(code[i]))
             /\ code[i].kind \in Conditional => cpu.cond # code[i].neg
      BY <1>1, <1>2, <1>3, <2>2, <2>5, CopyRuns
    <3>2. CASE Restarts
      BY <3>2, <2>4 DEF Held, Restarts, Result, Progress, Outcome
    <3>3. CASE Finishes
      BY <3>3, <2>4 DEF Held, Finishes, Result, Progress, Outcome
    <3>4. CASE /\ Long /\ NextInLiteral(LitAt, Value(code[i]))
               /\ code[i].kind \in Conditional => cpu.cond # code[i].neg
      <4>1. InLiteral(LitAt, Value(code[i]))'
        BY <3>4, <2>4 DEF Held, NextInLiteral, InLiteral
      <4> QED BY <4>1, <3>4, <2>3, <2>4 DEF Held, Progress
    <3> QED BY <3>1, <3>2, <3>3, <3>4
  <2>6. ASSUME i = PatchLen PROVE TailProgress'
    <3>1. NextInLiteral(First, Guard + PatchLen) \/ Result = Back
      BY <1>1, <1>3, <2>2, <2>6, TailRuns
    <3>2. CASE Result = Back
      BY <3>2, <2>4 DEF Held, Result, Outcome, TailProgress
    <3>3. CASE NextInLiteral(First, Guard + PatchLen)
      <4>1. (Guard + PatchLen)' = Guard + PatchLen
        BY <1>1, <2>4 DEF Held, Guard, place
      <4> QED BY <3>3, <4>1, <2>4 DEF Held, NextInLiteral, InLiteral, TailProgress
    <3> QED BY <3>1, <3>2, <3>3
  <2> QED BY <1>1, <2>1, <2>3, <2>4, <2>5, <2>6 DEF RunInv, Held, MovedMeansSame
<1>4. CASE cpu.pc \notin First..(CopyEnd - 1)
  <2>1. step' = "ran" /\ cpu' = cpu
    BY <1>1, <1>4 DEF Run, First
  <2>2. Held
    BY <1>1, <2>1, RunHolds
  <2>3. Outcome' = Outcome
    BY <2>1 DEF Outcome
  <2>4. Outcome = IF i = PatchLen THEN Back ELSE Original(i)
    BY <1>1, <1>2, <1>4, CopyEnds, TailEnds
  <2>5. MovedMeansSame'
    BY <2>2, <2>3, <2>4 DEF Held, Outcome, Back, MovedMeansSame
  <2> QED BY <2>1, <2>5 DEF RunInv
<1> QED BY <1>3, <1>4

LEMMA EnterStep == ASSUME Enter PROVE RunInv'
<1>1. /\ step' = "run" /\ i' \in 0..PatchLen /\ UNCHANGED <<place, code, start, words>>
      /\ \E c \in BOOLEAN : cpu' = [pc |-> At(start[i' + 1]), x16 |-> 0, did |-> "nothing",
                                    with |-> 0, cond |-> c]
  BY DEF Enter
<1>2. PatchLen' = PatchLen /\ At(start[i' + 1]) = First'
  BY <1>1, PatchLenKept DEF place, First, At
<1>3. CpuShape' /\ cpu'.pc = First' /\ cpu'.did = "nothing" /\ cpu'.with = 0
  BY <1>1, <1>2 DEF CpuShape
<1>4. Progress' /\ TailProgress'
  BY <1>3 DEF Progress, TailProgress, Outcome, InLiteral
<1> QED BY <1>1, <1>2, <1>3, <1>4 DEF RunInv, MovedMeansSame

LEMMA RunStutter == ASSUME RunInv, UNCHANGED vars PROVE RunInv'
<1>1. UNCHANGED <<step, place, code, i, start, words, cpu>>
  BY DEF vars
<1>2. Held
  BY <1>1, RunHolds
<1>3. Outcome' = Outcome /\ (CpuShape' <=> CpuShape) /\ (Guard + PatchLen)' = Guard + PatchLen
  BY <1>1, <1>2 DEF Outcome, CpuShape, Guard, Held, place
<1>4. Progress => Progress'
  BY <1>1, <1>2, <1>3 DEF Progress, Held, InLiteral, Outcome
<1>5. TailProgress => TailProgress'
  BY <1>1, <1>2, <1>3 DEF TailProgress, Held, InLiteral, Outcome
<1>6. MovedMeansSame'
  BY <1>1, <1>2, <1>3 DEF RunInv, MovedMeansSame, Held, Outcome, Back
<1> QED BY <1>1, <1>2, <1>3, <1>4, <1>5, <1>6 DEF RunInv, Held

LEMMA RunElse ==
  ASSUME \/ Scan \/ OtherMaps \/ PlaceNear \/ NearRefused \/ PlaceAnywhere \/ PlaceFails
         \/ Plan \/ Measure \/ Measured \/ Emit \/ EmitTail
         \/ \E b \in Branches : Redirect(b)
  PROVE  RunInv'
<1>1. step' \notin {"run", "ran"}
  BY DEF Scan, OtherMaps, PlaceNear, NearRefused, PlaceAnywhere, PlaceFails, Plan, Measure,
         Measured, Emit, EmitTail, Redirect, Taken
<1> QED BY <1>1 DEF RunInv, MovedMeansSame

\* A copy does what its original would, and the tail leads back behind the
\* patch (instr_plan.c 57-263): for every word that is no
\* condition on a covered word and no load of a literal that is extended or goes
\* to a vector register, provided no tbnz is moved out of its reach and the
\* module does not branch into the trampoline.
THEOREM CopiesMeanSame ==
  ASSUME ~FarBitTests, OrdinaryCodes
  PROVE  Spec /\ []TargetsOutside => []MovedMeansSame
<1> USE PlacementAssumption
<1>1. Init => NearInv /\ SizesInv /\ WordsInv /\ RunInv
  <2> SUFFICES ASSUME Init PROVE NearInv /\ SizesInv /\ WordsInv /\ RunInv
    OBVIOUS
  <2>1. NearInv
    BY NearStart
  <2> QED BY <2>1 DEF Init, SizesInv, Before, Measuring, Emitting, WordsInv, RunInv,
                      MovedMeansSame
<1>2. /\ NearInv /\ SizesInv /\ WordsInv /\ RunInv /\ TargetsOutside /\ [Next]_vars
      => NearInv' /\ SizesInv' /\ WordsInv' /\ RunInv'
  <2> SUFFICES ASSUME NearInv, SizesInv, WordsInv, RunInv, TargetsOutside, [Next]_vars
               PROVE  NearInv' /\ SizesInv' /\ WordsInv' /\ RunInv'
    OBVIOUS
  <2>1. NearInv'
    BY NearStep
  <2>2. SizesInv'
    BY PlanStep, MeasureStep, MeasuredStep, EmitStep, LaterStep, StutterStep DEF Next
  <2>3. WordsInv'
    BY WordsStep
  <2>4. RunInv'
    BY RunElse, EnterStep, RunStep, RunStutter DEF Next
  <2> QED BY <2>1, <2>2, <2>3, <2>4
<1>3. RunInv => MovedMeansSame
  BY DEF RunInv
<1> QED BY <1>1, <1>2, <1>3, PTL DEF Spec

(***************************************************************************)
(* Types.                                                                  *)
(***************************************************************************)
PlaceTyped ==
  /\ step \in Steps /\ mapped \subseteq Pages /\ lost \subseteq Pages
  /\ fn \in Fns /\ hook \in HookLens \cup {0}
  /\ found.at \in Nat /\ found.range \in {0, NearRange, WideRange}
  /\ tramp.at \in Nat /\ tramp.at % PageWords = 0 /\ Span(tramp.at, tramp.pages) \subseteq Pages
  /\ step = "place" /\ found # None => OnPages(found.at, 2)

\* Five places at most, and six words at most for each copy emitted.
ListsTyped ==
  /\ i \in 0..4 /\ Len(start) <= 5 /\ Len(words) <= 29
  /\ step = "emit" => Len(words) <= 6 * i
  /\ step \in {"scan", "place", "plan"} => start = <<>>

LEMMA SeqLength == ASSUME NEW s, IsSeq(s) PROVE Len(s) \in Nat
<1>1. PICK A : s \in Seq(A)  BY DEF IsSeq
<1> QED BY <1>1

\* What a search finds is whole pages of the process.
LEMMA PlaceTypedSearch ==
  ASSUME Contiguous, NearInv, PlaceTyped, Scan \/ NearRefused
  PROVE  PlaceTyped'
<1>1. /\ UNCHANGED <<mapped, fn, hook, tramp, lost>> /\ step \in {"scan", "place"}
      /\ step' = "place" /\ mapped \subseteq Pages /\ fn \in Nat
  BY DEF Scan, NearRefused, NearInv, PlaceTyped
<1>2. found' # None => /\ InRange(found'.at, found'.range)
                       /\ OnPages(found'.at, 2)
  BY <1>1, ScanFinds DEF NearInv
<1>3. found'.at \in Nat /\ found'.range \in {0, NearRange, WideRange}
  BY <1>2 DEF InRange, None
<1>4. OnPages(found.at, 2)' <=> OnPages(found'.at, 2)
  BY DEF OnPages, Contiguous, Span, Page
<1>5. Span(tramp.at, tramp.pages)' = Span(tramp.at, tramp.pages) /\ None' = None
  BY <1>1 DEF Span, Page, None
<1> QED BY <1>1, <1>2, <1>3, <1>4, <1>5 DEF PlaceTyped, Steps, NearRange, WideRange

LEMMA PlaceTypedTaken ==
  ASSUME Contiguous, NearInv, PlaceTyped, PlaceNear \/ PlaceAnywhere
  PROVE  PlaceTyped'
<1>1. PICK a, range :
        /\ Taken(a, range) /\ a \in Nat /\ a % PageWords = 0
        /\ Span(a, TrampPages) \subseteq Pages
  <2>1. CASE PlaceNear
    <3>1. /\ step = "place" /\ found # None /\ Taken(found.at, found.range) /\ hook # 0
      BY <2>1 DEF PlaceNear, NearInv
    <3>2. TrampPages = 2
      BY <3>1 DEF TrampPages
    <3> QED BY <3>1, <3>2 DEF PlaceTyped, OnPages
  <2>2. CASE PlaceAnywhere
    <3>1. PICK p \in Pages : /\ Span(p * PageWords, TrampPages) \subseteq Pages \ mapped
                             /\ Taken(p * PageWords, 0)
      BY <2>2 DEF PlaceAnywhere
    <3>2. p \in Nat
      BY PlacementAssumption DEF PlacementAssumption
    <3>3. p * PageWords \in Nat /\ (p * PageWords) % PageWords = 0
      BY <3>2, MultipleMod, PageSize
    <3> QED BY <3>1, <3>3
  <2> QED BY <2>1, <2>2
<1>2. /\ tramp' = [at |-> a, pages |-> TrampPages, range |-> range]
      /\ lost' = Span(a, TrampPages) \cap mapped /\ mapped' = mapped \cup Span(a, TrampPages)
      /\ UNCHANGED <<fn, hook, found>> /\ step' = "plan"
  BY <1>1 DEF Taken, PlaceNear, PlaceAnywhere
<1>3. Span(tramp.at, tramp.pages)' = Span(a, TrampPages)
  BY <1>2 DEF Span, Page
<1> QED BY <1>1, <1>2, <1>3 DEF PlaceTyped, Steps, NearRange, WideRange

LEMMA PlaceTypedStep ==
  ASSUME Contiguous, NearInv, PlaceTyped, [Next]_vars
  PROVE  PlaceTyped'
<1>1. CASE Plan
  <2>1. /\ step' \in {"failed", "size"} /\ mapped' = {} /\ lost' = {} /\ found' = None /\ hook' = 0
        /\ tramp' = [tramp EXCEPT !.range = 0, !.pages = 0] /\ UNCHANGED fn
    BY <1>1 DEF Plan
  <2>2. tramp'.at = tramp.at /\ Span(tramp'.at, 0) = {} /\ (tramp'.pages = 0 \/ tramp' = tramp)
    BY <2>1 DEF Span
  <2>3. Span(tramp.at, tramp.pages)' \subseteq Pages
    BY <2>1, <2>2 DEF Span, Page, PlaceTyped
  <2> QED BY <2>1, <2>2, <2>3 DEF PlaceTyped, Steps, None, NearRange, WideRange
<1>2. CASE OtherMaps
  <2>1. /\ mapped' \subseteq Pages /\ UNCHANGED <<step, fn, hook, found, tramp, lost>>
    BY <1>2, PlacementAssumption DEF PlacementAssumption, OtherMaps, PlaceTyped
  <2>2. /\ Span(tramp.at, tramp.pages)' = Span(tramp.at, tramp.pages) /\ None' = None
        /\ OnPages(found.at, 2)' <=> OnPages(found.at, 2)
    BY <2>1 DEF Span, Page, None, OnPages, Contiguous
  <2> QED BY <2>1, <2>2 DEF PlaceTyped, NearRange, WideRange
<1>3. CASE \/ PlaceFails \/ Measure \/ Measured \/ Emit \/ EmitTail
           \/ (\E b \in Branches : Redirect(b)) \/ Enter \/ Run \/ UNCHANGED vars
  <2>1. UNCHANGED place /\ step' \in Steps /\ (step' = "place" => step = "place")
    BY <1>3 DEF PlaceFails, Measure, Measured, Emit, EmitTail, Redirect, Enter, Run, vars,
       Steps, PlaceTyped
  <2>2. /\ Span(tramp.at, tramp.pages)' = Span(tramp.at, tramp.pages) /\ None' = None
        /\ OnPages(found.at, 2)' <=> OnPages(found.at, 2)
    BY <2>1 DEF place, Span, Page, None, OnPages, Contiguous
  <2> QED BY <2>1, <2>2 DEF PlaceTyped, place, NearRange, WideRange
<1> QED BY <1>1, <1>2, <1>3, PlaceTypedSearch, PlaceTypedTaken DEF Next

LEMMA ListsTypedStep ==
  ASSUME SizesInv, ListsTyped, [Next]_vars
  PROVE  ListsTyped'
<1> USE DEF ListsTyped
<1>1. PatchLen \in {3, 4}
  BY PatchLenNat
<1>2. CASE Scan \/ OtherMaps \/ PlaceNear \/ NearRefused \/ PlaceAnywhere \/ PlaceFails
  BY <1>2 DEF Scan, OtherMaps, PlaceNear, NearRefused, PlaceAnywhere, PlaceFails, Planning
<1>3. CASE Plan
  <2>1. Len(<<Lead>>) = 1
    OBVIOUS
  <2>2. UNCHANGED <<i, words>> /\ start' \in {start, <<Lead>>} /\ step' \in {"failed", "size"}
    BY <1>3 DEF Plan
  <2>3. Len(start') <= 5
    <3>1. CASE start' = start
      BY <3>1
    <3>2. CASE start' = <<Lead>>
      <4>1. Len(start') = 1
        BY <2>1, <3>2, Zenon
      <4> QED BY <4>1
    <3> QED BY <2>2, <3>1, <3>2
  <2>4. step = "plan"
    BY <1>3 DEF Plan
  <2> QED BY <2>2, <2>3, <2>4
<1>4. CASE Measure
  <2>1. /\ step = "size" /\ step' = "size" /\ i' = i + 1 /\ i < PatchLen /\ words' = words
        /\ start' = Append(start, start[i + 1] + Size(code[i], At(start[i + 1])))
        /\ start \in Seq(Int) /\ Len(start) = i + 1
    BY <1>4 DEF Measure, SizesInv, Measuring, Chain
  <2>2. start[i + 1] + Size(code[i], At(start[i + 1])) \in Int
    <3>1. start[i + 1] \in Int
      BY <2>1
    <3> QED BY <3>1, SizeNat
  <2>3. Len(start') = i + 2
    BY <2>1, <2>2
  <2> QED BY <1>1, <2>1, <2>3
<1>5. CASE Measured
  <2>1. words = <<>>
    BY <1>5 DEF Measured, SizesInv, Measuring
  <2> QED BY <1>5, <2>1 DEF Measured
<1>6. CASE Emit
  <2> DEFINE c == Copy(code[i], Here)
  <2>1. /\ step = "emit" /\ step' = "emit" /\ i' = i + 1 /\ i < PatchLen /\ start' = start
        /\ words' = words \o c /\ IsSeq(words)
    BY <1>6 DEF Emit, SizesInv, Emitting
  <2>2. IsSeq(c) /\ Len(c) \in {1, 5, 6}
    BY CopyLength DEF Size, WordCount
  <2> HIDE DEF c
  <2>3. Len(words \o c) = Len(words) + Len(c)
    BY <2>1, <2>2, Joined
  <2>4. Len(words) \in Nat
    BY <2>1, SeqLength
  <2>5. Len(c) \in Nat /\ Len(c) <= 6
    <3>1. \A n \in {1, 5, 6} : n \in Nat /\ n <= 6
      OBVIOUS
    <3> HIDE DEF ListsTyped
    <3> QED BY <2>2, <3>1, Zenon
  <2>6. i \in 0..4 /\ i' \in 0..4 /\ i' = i + 1 /\ Len(words) <= 6 * i
    BY <1>1, <2>1
  <2>7. Len(words') = Len(words) + Len(c)
    BY <2>1, <2>3
  <2> HIDE DEF c
  <2>8. Len(words') <= 6 * i' /\ Len(words') <= 29
    BY <2>4, <2>5, <2>6, <2>7
  <2> QED BY <2>1, <2>6, <2>8
<1>7. CASE EmitTail
  <2> DEFINE l == PutLit(Guard + PatchLen, Here)
             u == <<Op("brx16")>>
  <2>1. /\ step = "emit" /\ step' = "emitted" /\ i = PatchLen /\ i' = i /\ start' = start
        /\ words' = words \o l \o u /\ IsSeq(words)
    BY <1>7 DEF EmitTail, SizesInv, Emitting
  <2>2. IsSeq(l) /\ Len(l) = 4 /\ IsSeq(u) /\ Len(u) = 1
    BY LitLength, OneWord
  <2> HIDE DEF l, u
  <2>3. IsSeq(words \o l) /\ Len(words \o l) = Len(words) + Len(l)
    BY <2>1, <2>2, Joined, Zenon
  <2>4. Len((words \o l) \o u) = Len(words \o l) + Len(u)
    BY <2>2, <2>3, Joined, Zenon
  <2>5. Len(words) \in Nat
    BY <2>1, SeqLength
  <2> QED BY <1>1, <2>1, <2>2, <2>3, <2>4, <2>5
<1>8. CASE (\E b \in Branches : Redirect(b)) \/ Run \/ UNCHANGED vars
  <2>1. UNCHANGED <<i, start, words>>
    BY <1>8 DEF Redirect, Run, vars
  <2>2. step' = "emit" => step = "emit"
    BY <1>8 DEF Redirect, Run, vars
  <2>3. step' \in {"scan", "place", "plan"} => step = step'
    BY <1>8 DEF Redirect, Run, vars
  <2> QED BY <2>1, <2>2, <2>3
<1>9. CASE Enter
  BY <1>1, <1>9 DEF Enter
<1> QED BY <1>2, <1>3, <1>4, <1>5, <1>6, <1>7, <1>8, <1>9 DEF Next

\* Every variable keeps its type; in particular the pages of a trampoline are
\* pages of the process, it begins on one of them, and what is emitted fits in
\* 29 words (instr.c 107-145, 246-260, instr_plan.c 207-263).  The pages a
\* process has are those from the second on; the first is never mapped.
THEOREM PlacementTyped ==
  ASSUME Contiguous
  PROVE  Spec => []TypeOK
<1> USE PlacementAssumption
<1> DEFINE Inv == NearInv /\ SizesInv /\ PlaceTyped /\ ListsTyped
<1>1. Init => Inv
  <2> SUFFICES ASSUME Init PROVE Inv
    OBVIOUS
  <2>1. NearInv
    BY NearStart
  <2>2. SizesInv
    BY DEF Init, SizesInv, Before, Measuring, Emitting
  <2>3. PlaceTyped
    <3>1. Span(0, 0) = {} /\ 0 % PageWords = 0
      BY PageSize DEF Span
    <3> QED BY <3>1 DEF Init, PlaceTyped, Steps, None, PlacementAssumption
  <2>4. ListsTyped
    BY DEF Init, ListsTyped
  <2> QED BY <2>1, <2>2, <2>3, <2>4
<1>2. Inv /\ [Next]_vars => Inv'
  <2>1. SizesInv /\ [Next]_vars => SizesInv'
    BY PlanStep, MeasureStep, MeasuredStep, EmitStep, LaterStep, StutterStep DEF Next
  <2> QED BY <2>1, NearStep, PlaceTypedStep, ListsTypedStep
<1>3. Inv => TypeOK
  BY DEF PlaceTyped, ListsTyped, TypeOK
<1> HIDE DEF Inv
<1> QED BY <1>1, <1>2, <1>3, PTL DEF Spec
=============================================================================
