----------------------------- MODULE Placement -----------------------------
(***************************************************************************)
(* Where a trampoline is put and what becomes of the words moved into it.  *)
(* First apply_plan maps pages, near the function if the entry is hooked   *)
(* already (mmap_near, src/instr.c); then plan_displaced (src/instr_plan.c)*)
(* measures and emits copies of the words the patch covers; then the       *)
(* copies are executed, and compared with the words they stand for.        *)
(*                                                                         *)
(* Addresses count words of 4 bytes.  The reaches of the instructions are  *)
(* parameters, so that TLC can take small ones; registers and immediates   *)
(* that a copy keeps are abstracted away.                                  *)
(***************************************************************************)
EXTENDS Integers, Sequences

CONSTANTS
  Pages,      \* pages of the address space, numbered
  PageWords,  \* words of a page
  ReachB,     \* b, bl: words either way            (2^25)
  ReachC,     \* b.cond, cbz, ldr literal, adr      (2^18)
  ReachT,     \* tbz                                (2^13)
  ReachPages, \* adrp: pages either way             (2^20)
  Maps,       \* sets of pages the process may have mapped already
  Fns,        \* addresses the function may have
  HookLens,   \* 0 without a hook at its entry, or the hook's words: 1, 3, 4
  GuardOff,   \* the guard, counted from the function's entry
  Lead,       \* words of the trampoline before the copies
  Codes,      \* the guarded words: functions from 0..3 to instructions
  Branches,   \* branches that lead to a guarded word, from elsewhere
  Others,     \* pages that other threads may map between scan and mmap
  Race,       \* TRUE if they may map the very pages that were found free
  FarBitTests \* TRUE if a tbnz may be moved, or redirected, out of its reach

ASSUME PlacementAssumption ==
  /\ Pages \subseteq Nat \ {0} /\ PageWords \in Nat \ {0}
  /\ 6 < ReachT /\ ReachT <= ReachC /\ ReachC <= ReachB
  /\ ReachB <= ReachPages * PageWords /\ HookLens \subseteq {0, 1, 3, 4}
  /\ ReachB \in Nat /\ ReachC \in Nat /\ ReachT \in Nat /\ ReachPages \in Nat
  /\ Maps \subseteq SUBSET Pages /\ Fns \subseteq Nat /\ GuardOff \in Nat /\ Lead \in Nat
  /\ Others \subseteq Pages /\ Race \in BOOLEAN /\ FarBitTests \in BOOLEAN

VARIABLES
  step,   \* "scan", "place", "plan", "size", "emit", "run", "ran", or how it ended
  mapped, \* pages mapped in the process
  fn,     \* cstart
  hook,   \* the length of the hook found at the entry
  found,  \* what mmap_near has chosen: address, and the range asked for
  tramp,  \* the trampoline: address, pages, and the range it was found in
  lost,   \* pages of others that a mapping has replaced
  code,   \* the words the patch covers, by the guard's offsets
  i,      \* the word being measured, emitted or executed
  start,  \* new_addr: where each copy is to start, counted from the trampoline
  words,  \* the words emitted so far
  cpu     \* the processor, executing the copy of word i

place == <<mapped, fn, hook, found, tramp, lost>>
vars == <<step, place, code, i, start, words, cpu>>

Page(a) == a \div PageWords
\* Mutants: the address is not aligned; the page it begins is skipped.
MutUnaligned(a) == a
MutNextPage(a) == (Page(a) + 1) * PageWords
AlignUp(a) == Page(a + PageWords - 1) * PageWords
Distance(a, b) == IF a > b THEN a - b ELSE b - a
Larger(a, b) == IF a > b THEN a ELSE b
Smaller(a, b) == IF a < b THEN a ELSE b

(***************************************************************************)
(* mmap_near.  Each page mapped counts as a line of /proc/self/maps, and   *)
(* the lines come in ascending order.                                      *)
(***************************************************************************)
Low(near, range) == IF near > range THEN near - range ELSE PageWords
High(near, range) == near + range

\* prev_end is where the line before ends, 0 at the first line.
FirstLine == -1
NextTo(q, p) == q < p /\ \A r \in mapped : r <= q \/ p <= r
End(q) == (q + 1) * PageWords

\* Mutant: the gap need not hold all pages.
MutHoldsFirst(first, size, to) == first < to
Holds(first, size, to) == first + size <= to

\* The gap between the lines q and p, as far as it is in range, and the first
\* page in it.
From(q, near, range) == Larger(End(q), Low(near, range))
To(p, near, range) == Smaller(p * PageWords, High(near, range))
Usable(q, p, near, size, range) ==
  /\ NextTo(q, p) /\ p * PageWords < High(near, range) /\ Low(near, range) <= End(p)
  /\ From(q, near, range) < To(p, near, range)
  /\ Holds(AlignUp(From(q, near, range)), size, To(p, near, range))
Gaps(near, size, range) ==
  {AlignUp(From(q, near, range)) :
     q \in {r \in mapped \cup {FirstLine} :
              \E p \in mapped : Usable(r, p, near, size, range)}}

\* The closest is taken, of two that are equally close the first.
Closer(a, b, near) ==
  Distance(a, near) < Distance(b, near) \/ (Distance(a, near) = Distance(b, near) /\ a <= b)
NearGap(near, size, range) ==
  LET gaps == Gaps(near, size, range)
  IN  IF gaps = {} THEN 0 ELSE CHOOSE a \in gaps : \A b \in gaps : Closer(a, b, near)

\* Mutant: the range of b counted in the wrong unit.
MutNearRange == 2 * ReachB
NearRange == ReachB
WideRange == ReachPages * PageWords

(***************************************************************************)
(* Mapping the trampoline.                                                 *)
(***************************************************************************)
None == [at |-> 0, range |-> 0]
Span(a, n) == {Page(a) + k : k \in 0..(n - 1)}
TrampPages == IF hook = 0 THEN 1 ELSE 2

Init ==
  /\ step = "scan"
  /\ fn \in Fns /\ mapped \in {S \in Maps : Page(fn) \in S}
  /\ hook \in HookLens
  /\ found = None
  /\ tramp = [at |-> 0, pages |-> 0, range |-> 0]
  /\ lost = {}
  /\ code = <<>> /\ i = 0 /\ start = <<>> /\ words = <<>> /\ cpu = <<>>

Planning == UNCHANGED <<code, i, start, words, cpu>>

\* Only a function whose entry is hooked asks for a near mapping: within the
\* reach of b, or else within the reach of adrp.
Scan ==
  /\ step = "scan" /\ step' = "place"
  /\ found' =
       LET gap(range) == [at |-> NearGap(fn, TrampPages * PageWords, range), range |-> range]
       IN  IF hook = 0 THEN None
           ELSE IF gap(NearRange).at # 0 THEN gap(NearRange)
           ELSE IF gap(WideRange).at # 0 THEN gap(WideRange)
           ELSE None
  /\ UNCHANGED <<mapped, fn, hook, tramp, lost>> /\ Planning

OtherMaps ==
  /\ step = "place"
  /\ \E p \in Others \ mapped :
       /\ Race \/ found = None \/ p \notin Span(found.at, TrampPages)
       /\ mapped' = mapped \cup {p}
  /\ UNCHANGED <<step, fn, hook, found, tramp, lost>> /\ Planning

Taken(a, range) ==
  /\ tramp' = [at |-> a, pages |-> TrampPages, range |-> range]
  /\ lost' = Span(a, TrampPages) \cap mapped
  /\ mapped' = mapped \cup Span(a, TrampPages)

\* MAP_FIXED at the address chosen.
PlaceNear ==
  /\ step = "place" /\ step' = "plan"
  /\ found # None
  /\ Taken(found.at, found.range)
  /\ UNCHANGED <<fn, hook, found>> /\ Planning

\* mmap(NULL): wherever the system likes.
PlaceAnywhere ==
  /\ step = "place" /\ step' = "plan"
  /\ found = None
  /\ \E p \in Pages : /\ Span(p * PageWords, TrampPages) \subseteq Pages \ mapped
                      /\ Taken(p * PageWords, 0)
  /\ UNCHANGED <<fn, hook, found>> /\ Planning

\* The system refuses to map the gap: the next wider range is tried.
NearRefused ==
  /\ step = "place" /\ found # None
  /\ LET a == NearGap(fn, TrampPages * PageWords, WideRange)
     IN  found' = IF found.range = NearRange /\ a # 0
                  THEN [at |-> a, range |-> WideRange] ELSE None
  /\ UNCHANGED <<step, mapped, fn, hook, tramp, lost>> /\ Planning

PlaceFails ==
  /\ step = "place" /\ step' = "failed"
  /\ found = None
  /\ UNCHANGED place /\ Planning

(***************************************************************************)
(* Instructions.  "to" is a target, "neg" the bit that turns cbz into      *)
(* cbnz, tbz into tbnz and a condition into its opposite.  An instruction  *)
(* of the guarded code names its target by the distance from the guard.    *)
(* "lit" loads a literal into a general register, "litsw" is ldrsw, which  *)
(* extends the word it loads, and "litfp" loads into a vector register.    *)
(***************************************************************************)
Insn(kind, to, neg) == [kind |-> kind, to |-> to, neg |-> neg]
Op(kind) == Insn(kind, 0, FALSE)
Conditional == {"bcond", "cbz", "tbz"}

Guard == fn + GuardOff

\* The range tests of the encoders.
Within(d, reach) == -reach <= d /\ d < reach
InReach(kind, to, pc) ==
  CASE kind \in {"b", "bl"} -> Within(to - pc, ReachB)
    [] kind \in {"bcond", "cbz", "lit", "litsw", "adr"} -> Within(to - pc, ReachC)
    [] kind = "tbz" -> Within(to - pc, ReachT)
    [] kind = "adrp" -> Within(Page(to) - Page(pc), ReachPages)
    [] OTHER -> TRUE

\* For tbz the encoder's 0 is turned into another word before it is tested.
Garbled(w, to, pc) == w.kind = "tbz" /\ w.neg /\ ~InReach("tbz", to, pc)
\* a64_decode takes ldrsw for a load of 32 bits, and a vector's literal load for
\* no pc-relative word: that one is copied as it is, and loads a literal that
\* lies as far from the copy as its own lay from the original.
Encoded(w, to, pc) ==
  CASE Garbled(w, to, pc) -> Op("garbage")
    [] w.kind = "litsw"   -> Insn("lit", to, FALSE)
    [] w.kind = "litfp"   -> Op("elsewhere")
    [] OTHER              -> Insn(w.kind, to, w.neg)
Encodable(w, to, pc) == InReach(w.kind, to, pc) \/ Garbled(w, to, pc)

(***************************************************************************)
(* The patch and the entry's patch: the form with adrp where that reaches, *)
(* and for a hook of less than three words a single b.                     *)
(***************************************************************************)
PatchLen == IF InReach("adrp", tramp.at, Guard) THEN 3 ELSE 4
EntryBase == tramp.at + PageWords
EntryForm ==
  IF hook = 4 THEN 4
  ELSE IF hook = 3 /\ InReach("adrp", EntryBase, fn) THEN 3
  ELSE IF hook \in {1, 3} /\ InReach("b", EntryBase, fn) THEN 1
  ELSE 0

\* What the choice of the address needed is not read any more.
Plan ==
  /\ step = "plan"
  /\ IF hook # 0 /\ EntryForm = 0
     THEN step' = "failed" /\ UNCHANGED <<code, start>>
     ELSE step' = "size" /\ code' \in Codes /\ start' = <<Lead>>
  /\ mapped' = {} /\ lost' = {} /\ found' = None /\ hook' = 0
  /\ tramp' = [tramp EXCEPT !.range = 0, !.pages = 0]
  /\ UNCHANGED <<fn, i, words, cpu>>

(***************************************************************************)
(* plan_displaced: sizes first, then the copies.  A b or bl to a covered   *)
(* word is a word of its own kind; everything else em_put_displaced emits. *)
(***************************************************************************)
Target(w) == Guard + w.to
Covered(w) == w.to \in 0..(PatchLen - 1)
Internal(w) == w.kind \in {"b", "bl"} /\ Covered(w)
At(off) == tramp.at + off
Emitted == Lead + Len(words)
Here == At(Emitted)

\* displaced_word_count.  Mutant: conditions are not counted apart.
MutWordCount(w, pc) == IF Encodable(w, Target(w), pc) THEN 1 ELSE 5
WordCount(w, pc) ==
  IF Encodable(w, Target(w), pc) THEN 1 ELSE IF w.kind \in Conditional THEN 6 ELSE 5
Size(w, pc) == IF Internal(w) THEN 1 ELSE WordCount(w, pc)

\* em_put_lit: x16 gets a value from the two words behind a branch.
PutLit(value, pc) ==
  << Insn("ldrx16", pc + 2, FALSE), Insn("b", pc + 4, FALSE),
     Insn("data", value, FALSE), Op("data") >>

\* em_put_displaced, out of reach: the value and a use of it, behind the
\* opposite condition if there is one.
Use(kind) ==
  CASE kind = "bl" -> "blrx16" [] kind \in {"lit", "litsw"} -> "loadx16"
    [] kind \in {"adr", "adrp"} -> "movx16" [] OTHER -> "brx16"
Value(w) == IF w.kind = "adrp" THEN Page(Target(w)) * PageWords ELSE Target(w)
\* Mutant: the condition stays as it is.
MutSameCondition(w, pc) == Insn(w.kind, pc + 6, w.neg)
Opposite(w, pc) == Insn(w.kind, pc + 6, ~w.neg)

PutDisplaced(w, pc) ==
  IF Encodable(w, Target(w), pc) THEN <<Encoded(w, Target(w), pc)>>
  ELSE IF w.kind \in Conditional
    THEN <<Opposite(w, pc)>> \o PutLit(Value(w), pc + 1) \o <<Op(Use(w.kind))>>
  ELSE PutLit(Value(w), pc) \o <<Op(Use(w.kind))>>
Copy(w, pc) ==
  IF Internal(w) THEN <<Insn(w.kind, At(start[w.to + 1]), FALSE)>> ELSE PutDisplaced(w, pc)

Measure ==
  /\ step = "size" /\ i < PatchLen
  /\ FarBitTests \/ Internal(code[i]) \/ ~Garbled(code[i], Target(code[i]), At(start[i + 1]))
  /\ start' = Append(start, start[i + 1] + Size(code[i], At(start[i + 1])))
  /\ i' = i + 1
  /\ UNCHANGED <<step, place, code, words, cpu>>

Measured ==
  /\ step = "size" /\ i = PatchLen
  /\ step' = "emit" /\ i' = 0
  /\ UNCHANGED <<place, code, start, words, cpu>>

Emit ==
  /\ step = "emit" /\ i < PatchLen
  /\ words' = words \o Copy(code[i], Here)
  /\ i' = i + 1
  /\ UNCHANGED <<step, place, code, start, cpu>>

\* The tail leads back behind the patch.
EmitTail ==
  /\ step = "emit" /\ i = PatchLen
  /\ words' = words \o PutLit(Guard + PatchLen, Here) \o <<Op("brx16")>>
  /\ step' = "emitted"
  /\ UNCHANGED <<place, code, i, start, cpu>>

(***************************************************************************)
(* collect_external_fixups: a branch from elsewhere to a covered word is   *)
(* made to lead to the guard, if it reaches.  The plan is given up if not. *)
(***************************************************************************)
Redirect(b) ==
  /\ step = "emitted"
  /\ b.to \in 0..(PatchLen - 1) /\ b.pc \notin 0..(PatchLen - 1)
  /\ FarBitTests \/ ~Garbled(b, Guard, Guard + b.pc)
  /\ IF Encodable(b, Guard, Guard + b.pc)
     THEN /\ step' = "redirected"
          /\ cpu' = [old |-> b, new |-> Encoded(b, Guard, Guard + b.pc)]
     ELSE step' = "refused" /\ UNCHANGED cpu
  /\ UNCHANGED <<place, code, i, start, words>>

(***************************************************************************)
(* The processor executes one of the copies, or the tail.                  *)
(***************************************************************************)
Enter ==
  /\ step = "emitted" /\ step' = "run"
  /\ i' \in 0..PatchLen
  /\ \E c \in BOOLEAN : cpu' = [pc |-> At(start[i' + 1]), x16 |-> 0, did |-> "nothing",
                                with |-> 0, cond |-> c]
  /\ UNCHANGED <<place, code, start, words>>

Fetch(a) == words[a - At(Lead) + 1]
CopyEnd == IF i = PatchLen THEN Here ELSE At(start[i + 2])
Goes(a) == cpu' = [cpu EXCEPT !.pc = a]
Does(what, a) == cpu' = [cpu EXCEPT !.pc = @ + 1, !.did = what, !.with = a]

Execute(w) ==
  CASE w.kind = "b" -> Goes(w.to)
    [] w.kind \in Conditional -> Goes(IF cpu.cond # w.neg THEN w.to ELSE cpu.pc + 1)
    [] w.kind = "bl" -> Does("call", w.to)
    [] w.kind = "lit" -> Does("load", w.to)
    [] w.kind = "elsewhere" -> Does("load elsewhere", 0)
    [] w.kind = "adr" -> Does("address", w.to)
    [] w.kind = "adrp" -> Does("address", Page(w.to) * PageWords)
    [] w.kind = "plain" -> Does("plain", 0)
    [] w.kind = "ldrx16" -> cpu' = [cpu EXCEPT !.pc = @ + 1, !.x16 = Fetch(w.to).to]
    [] w.kind = "blrx16" -> Does("call", cpu.x16)
    [] w.kind = "brx16" -> Goes(cpu.x16)
    [] w.kind = "loadx16" -> Does("load", cpu.x16)
    [] w.kind = "movx16" -> Does("address", cpu.x16)
    [] OTHER -> cpu' = [cpu EXCEPT !.pc = 0, !.did = "fault"]

Run ==
  /\ step = "run"
  /\ IF cpu.pc \in At(start[i + 1])..(CopyEnd - 1)
     THEN Execute(Fetch(cpu.pc)) /\ UNCHANGED step
     ELSE step' = "ran" /\ UNCHANGED cpu
  /\ UNCHANGED <<place, code, i, start, words>>

Next ==
  \/ Scan \/ OtherMaps \/ PlaceNear \/ NearRefused \/ PlaceAnywhere \/ PlaceFails
  \/ Plan \/ Measure \/ Measured \/ Emit \/ EmitTail
  \/ \E b \in Branches : Redirect(b)
  \/ Enter \/ Run

Spec == Init /\ [][Next]_vars

(***************************************************************************)
(* Properties.                                                             *)
(***************************************************************************)
Steps == {"scan", "place", "plan", "size", "emit", "emitted", "run", "ran",
          "redirected", "refused", "failed"}

\* Every variable keeps its type.
TypeOK ==
  /\ step \in Steps /\ mapped \subseteq Pages /\ lost \subseteq Pages
  /\ fn \in Fns /\ hook \in HookLens \cup {0}
  /\ found.at \in Nat /\ found.range \in {0, NearRange, WideRange}
  /\ tramp.at \in Nat /\ tramp.at % PageWords = 0 /\ Span(tramp.at, tramp.pages) \subseteq Pages
  /\ i \in 0..4 /\ Len(start) <= 5 /\ Len(words) <= 29

\* The mapping replaces nothing that was mapped, although MAP_FIXED would let
\* it (instr.c 102).
OverlapsNothing == lost = {}

\* A mapping found near is reached by the patch it was wanted for, no longer
\* than the hook (instr.c 104, 245-248): by b within 128 MB, by adrp within
\* 4 GB.
NearReaches ==
  /\ EntryForm <= hook
  /\ tramp.range = NearRange => InReach("b", EntryBase, fn) /\ EntryForm # 0
  /\ tramp.range = WideRange /\ hook >= 3 => EntryForm # 0

\* If no gap was found there is none: between two mappings that begin below
\* the upper end of the range, the pages in range leave no room.
Room(near, size, range) ==
  \E p \in Pages :
    /\ p * PageWords >= Low(near, range)
    /\ Span(p * PageWords, size) \subseteq Pages \ mapped
    /\ \E q \in mapped : q * PageWords < High(near, range) /\ p < q
NearFindsRoom ==
  [][step = "scan" /\ hook # 0 /\ found' = None => ~Room(fn, TrampPages, NearRange)]_vars

\* The two passes agree: each copy starts where the first pass put it, so that
\* branches between covered words find it (instr_plan.c 129-133, 225).
SizesAgree == step = "emit" => Emitted = start[i + 1]

\* A copy does what its original would: the same call, load or address, and
\* control goes to the same place, or to the copy of that place.
Original(k) ==
  LET w == code[k]
      next == At(start[k + 2])
      dest == IF Covered(w) THEN At(start[w.to + 1]) ELSE Target(w)
  IN  CASE w.kind = "b" -> <<dest, "nothing", 0>>
        [] w.kind \in Conditional ->
             <<IF cpu.cond # w.neg THEN dest ELSE next, "nothing", 0>>
        [] w.kind = "bl" -> <<next, "call", dest>>
        [] w.kind = "lit" -> <<next, "load", Target(w)>>
        [] w.kind = "litsw" -> <<next, "load extended", Target(w)>>
        [] w.kind = "litfp" -> <<next, "load vector", Target(w)>>
        [] w.kind = "adr" -> <<next, "address", Target(w)>>
        [] w.kind = "adrp" -> <<next, "address", Page(Target(w)) * PageWords>>
        [] OTHER -> <<next, "plain", 0>>
MovedMeansSame ==
  step = "ran" =>
    <<cpu.pc, cpu.did, cpu.with>> =
      IF i = PatchLen THEN <<Guard + PatchLen, "nothing", 0>> ELSE Original(i)

\* A redirected branch leads to the guard on the same condition as before
\* (instr_plan.c 266-277).
RedirectsReach ==
  step = "redirected" =>
    cpu.new = Insn(cpu.old.kind, Guard, cpu.old.neg)
=============================================================================
