----------------------------- MODULE PatchTable -----------------------------
(***************************************************************************)
(* What the patch engine promises its client (include/instr.h): a set of   *)
(* patches over a piece of code, put in and taken out all at once.  A call *)
(* that fails is not visible at all.                                       *)
(***************************************************************************)
CONSTANTS Addr, Initial   \* the code's addresses; the code there may be at start

VARIABLES code,           \* [Addr -> word]
          patches         \* set of [addr, words, saved]

Span(P) == UNION {DOMAIN p.words : p \in P}
Separate(P) == \A p, q \in P : p # q => DOMAIN p.words \cap DOMAIN q.words = {}

Init == code \in Initial /\ patches = {}

Overlaid(c, P) ==
  [a \in Addr |-> IF a \in Span(P) THEN (CHOOSE p \in P : a \in DOMAIN p.words).words[a]
                  ELSE c[a]]

\* A call adds one or two patches, each at its own words, and keeps what it
\* overwrites.
Install ==
  /\ patches \subseteq patches' /\ patches' # patches
  /\ Separate(patches')
  /\ LET new == patches' \ patches IN
     /\ \A p \in new : p.saved = [a \in DOMAIN p.words |-> code[a]]
     /\ code' = Overlaid(code, new)

\* Removing a patch gives its words back and touches no other.
Uninstall ==
  \E p \in patches :
    /\ patches' = patches \ {p}
    /\ code' = [a \in Addr |-> IF a \in DOMAIN p.words THEN p.saved[a] ELSE code[a]]

Next == Install \/ Uninstall
Spec == Init /\ [][Next]_<<code, patches>>
=============================================================================
