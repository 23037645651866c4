---------------------------- MODULE MCPlacement ----------------------------
(***************************************************************************)
(* An address space of fourteen pages for TLC, with the function on the    *)
(* seventh, and instructions near and far from their targets.              *)
(***************************************************************************)
EXTENDS Placement

FourteenPages == 1..14
FnPage == 7
AllMaps == {{1, FnPage, 14} \cup S : S \in SUBSET {3, 4, 5, 6, 8, 9, 11}}
TwoFns == {FnPage * PageWords, FnPage * PageWords + 20}

Plain == Op("plain")
Instructions ==
  {Plain, Insn("b", 90, FALSE), Insn("b", 2, FALSE), Insn("b", 0, FALSE),
   Insn("bl", -90, FALSE), Insn("bl", 1, FALSE),
   Insn("bcond", 40, FALSE), Insn("bcond", -30, TRUE),
   Insn("cbz", 30, TRUE), Insn("tbz", 25, FALSE), Insn("tbz", -20, TRUE),
   Insn("lit", 40, FALSE), Insn("adr", -40, FALSE), Insn("adrp", 70, FALSE)}
InOrder(a, b, c) == [k \in 0..3 |-> CASE k = 0 -> a [] k = 1 -> b [] k = 2 -> c [] OTHER -> Plain]
TwoOfThree ==
  {InOrder(a, b, Plain) : a, b \in Instructions} \cup
  {InOrder(Plain, a, b) : a, b \in Instructions}

External(kind, pc, to, neg) == [kind |-> kind, pc |-> pc, to |-> to, neg |-> neg]
\* Branches that just reach a word behind the guard, and others.
FromElsewhere ==
  {External(kind, pc, to, neg) : kind \in {"b"}, pc \in {-5, 20}, to \in 0..3, neg \in {FALSE}}
  \cup {External("bcond", ReachC + 1, 2, TRUE), External("cbz", 40, 1, TRUE),
        External("tbz", ReachT + 2, 2, FALSE), External("tbz", ReachT + 2, 2, TRUE),
        External("tbz", 20, 1, TRUE)}

\* A condition that leads to another covered word.
InnerConditions == {InOrder(Insn("cbz", 2, FALSE), Plain, Plain)}
\* Literal loads that the decoder does not tell from others, near and far.
SignedLiterals == {InOrder(Insn("litsw", to, FALSE), Plain, Plain) : to \in {10, 40}}
VectorLiterals == {InOrder(Insn("litfp", to, FALSE), Plain, Plain) : to \in {10, 40}}
=============================================================================
