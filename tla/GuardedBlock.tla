---------------------------- MODULE GuardedBlock ----------------------------
(***************************************************************************)
(* What a guard promises to the function it is put into (instr.h 57-67):   *)
(*                                                                         *)
(*     if (check(arguments at entry)) { block }                            *)
(*                                                                         *)
(* Whatever check does, the function goes on with the state it had at the  *)
(* guard.  Which arguments can be found is settled beforehand; any other   *)
(* is given as 0.                                                          *)
(***************************************************************************)
CONSTANTS Threads, Args, Nothing, Zero

VARIABLES
  found,  \* the arguments check is to get
  stage,  \* where each thread is
  args,   \* the arguments of its current call
  view,   \* the state the function works on
  given   \* what check has last been given

vars == <<found, stage, args, view, given>>

Init ==
  /\ found \subseteq Args
  /\ stage = [t \in Threads |-> "idle"]
  /\ args = [t \in Threads |-> Nothing]
  /\ view = [t \in Threads |-> Nothing]
  /\ given = [t \in Threads |-> Nothing]

Move(t, from, to) == stage[t] = from /\ stage' = [stage EXCEPT ![t] = to]

\* The caller chooses arguments and state.
Call(t) ==
  /\ Move(t, "idle", "body")
  /\ \A u \in Threads \ {t} : args'[u] = args[u] /\ view'[u] = view[u]
  /\ UNCHANGED given

\* The function's own code, up to the guard, or in the block and from its end
\* back to the guard, computes as it likes.
Compute(t, from, to) ==
  /\ Move(t, from, to)
  /\ \A u \in Threads \ {t} : view'[u] = view[u]
  /\ UNCHANGED <<args, given>>

Check(t) ==
  /\ Move(t, "guard", "block") \/ Move(t, "guard", "after")
  /\ given' = [given EXCEPT ![t] =
                 [k \in Args |-> IF k \in found THEN args[t][k] ELSE Zero]]
  /\ UNCHANGED <<args, view>>

Return(t) ==
  /\ Move(t, "after", "idle")
  /\ args' = [args EXCEPT ![t] = Nothing]
  /\ view' = [view EXCEPT ![t] = Nothing]
  /\ given' = [given EXCEPT ![t] = Nothing]

Next ==
  /\ UNCHANGED found
  /\ \E t \in Threads :
       \/ Call(t) \/ Check(t) \/ Return(t)
       \/ Compute(t, "body", "guard") \/ Compute(t, "body", "after")
       \/ Compute(t, "block", "guard") \/ Compute(t, "block", "after")
       \/ Compute(t, "after", "guard")

Spec == Init /\ [][Next]_vars
=============================================================================
