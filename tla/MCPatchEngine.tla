--------------------------- MODULE MCPatchEngine ---------------------------
(***************************************************************************)
(* Instances of PatchEngine for TLC.  The plain layout is one function of  *)
(* fifteen words with two blocks and branches that lead into them:         *)
(*                                                                         *)
(*   0..3   entry        4..7  block one (7 branches to 4)                 *)
(*   8..11  block two    12    branch to 5                                 *)
(*   13     branch to 9  14    branch to 1                                 *)
(***************************************************************************)
EXTENDS PatchEngineRefinement, PatchEngineInvariant

Code == 0..14
End == [f \in {0} |-> 15]
PageOfWord == [a \in Code |-> a \div 4]
BranchesAt(t) == [a \in Code |-> IF a \in DOMAIN t THEN t[a] ELSE NoAddr]
Loops == BranchesAt([a \in {7, 12, 13, 14} |->
           CASE a = 7 -> 4 [] a = 12 -> 5 [] a = 13 -> 9 [] a = 14 -> 1])

Unhooked == {[f \in {0} |-> 0]}
HookedFour == {[f \in {0} |-> 4]}

Block(s) == [mode |-> "block", fn |-> 0, start |-> s, end |-> s + 4]
Snap(s) == [Block(s) EXCEPT !.mode = "snap"]

BlockRequests == {Block(4), Block(8)}
SnapRequests == {Snap(4), Snap(8)}
MixedRequests == {Block(4), Snap(4), Snap(8)}

Distances == [m \in MapId |-> CASE m = 1 -> "near" [] m = 2 -> "far" [] OTHER -> "adrp"]

(***************************************************************************)
(* The hooked layout: two functions of eight words, both already hooked,   *)
(* one by three words (form A), one by a single branch (form C).           *)
(***************************************************************************)
TwoEnds == [f \in {0, 8} |-> f + 8]
TwoCode == 0..15
TwoPages == [a \in TwoCode |-> a \div 4]
NoLoops == [a \in TwoCode |-> NoAddr]
TwoHooks == {[f \in {0, 8} |-> IF f = 0 THEN 3 ELSE 1]}
TwoRequests == {[Snap(4) EXCEPT !.fn = 0], [Snap(12) EXCEPT !.fn = 8]}
=============================================================================
