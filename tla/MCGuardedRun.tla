---------------------------- MODULE MCGuardedRun ----------------------------
(***************************************************************************)
(* Layouts for TLC: places in which analysis may find the eight arguments. *)
(***************************************************************************)
EXTENDS GuardedRun

FramePointer == -8

Same8 == [k \in Args |-> InReg(k)]
Rotated == [k \in Args |-> InReg((k + 1) % 8)]
Swapped == [k \in Args |-> InReg(7 - k)]
\* The registers the loading itself works with.
Working == [k \in Args |-> IF k < 7 THEN InReg(9 + k) ELSE InReg(17)]
Saved == [k \in Args |-> InReg(19 + k)]
Spilled == [k \in Args |-> InSlot(31, 2 * k)]
\* The last word an immediate reaches, and words below the base.
Framed == [k \in Args |-> CASE k = 0 -> InSlot(31, ImmWords - SaveWords)
                            [] k \in 1..3 -> InSlot(29, -k)
                            [] k \in 4..5 -> InSlot(19, -(ImmWords + k))
                            [] k = 6 -> InSlot(5, 4)
                            [] OTHER -> Lost]
Mixed == [k \in Args |-> CASE k = 0 -> InReg(17) [] k = 1 -> InReg(0)
                           [] k = 2 -> InSlot(3, 1) [] k = 3 -> Lost
                           [] k = 4 -> InReg(4) [] k = 5 -> InReg(13)
                           [] k = 6 -> InSlot(31, 0) [] OTHER -> InReg(30)]
Ordinary == {Saved}
Usual == {Same8, Rotated, Swapped, Working, Saved, Spilled, Framed, Mixed}

\* An argument that analysis finds in x8, in x16, or deep in a large frame.
InX8 == {[Saved EXCEPT ![0] = InReg(8)]}
InX16 == {[Saved EXCEPT ![0] = InReg(IP0)]}
Deep == {[Spilled EXCEPT ![0] = InSlot(31, ImmWords - SaveWords + 1)]}

\* All of them are layouts that analysis may give; the last three are the ones
\* that the theorems about check's arguments leave out.
ASSUME MCLayoutsAreSound ==
  /\ \A l \in Usual : Readable(l)
  /\ \A l \in InX8 \cup InX16 \cup Deep : Sound(l) /\ ~Readable(l)
=============================================================================
