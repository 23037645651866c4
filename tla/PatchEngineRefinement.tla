----------------------- MODULE PatchEngineRefinement -----------------------
(***************************************************************************)
(* The patch engine implements the patch table, as seen between its calls: *)
(* while a call runs the table is still the one the call began with.       *)
(***************************************************************************)
EXTENDS PatchEngine

Committed == IF call.pc = "idle" THEN [mem |-> mem, maps |-> maps, recs |-> recs]
             ELSE before

\* The patch a record describes: the words it covers as they are in the code,
\* and what they were before.
PatchOf(r, code) ==
  LET words == DOMAIN r.orig \cup DOMAIN r.fixes IN
  [addr |-> r.addr, words |-> [a \in words |-> code[a]],
   saved |-> [a \in words |-> IF a \in DOMAIN r.orig THEN r.orig[a] ELSE r.fixes[a]]]

Patches(rs, code) == {PatchOf(rs[i], code) : i \in {j \in Slot : rs[j].used}}

Table == INSTANCE PatchTable WITH
  Initial <- {HookedCode(h) : h \in Hooks},
  code <- Committed.mem,
  patches <- Patches(Committed.recs, Committed.mem)

\* Each call of the engine is one step of the table or none: a guard is put
\* in whole or not at all, whatever step of apply_plan fails, and
\* instr_unpatch takes out exactly what was put in.
ImplementsTable == Table!Spec
=============================================================================
