----------------------------- MODULE MCArgFlow -----------------------------
(***************************************************************************)
(* Functions for TLC: a prologue, three instructions taken from Body, the  *)
(* guard at index 4 and one instruction after it.                          *)
(***************************************************************************)
EXTENDS ArgFlow

Registers4 == {0, 1, 19, 29}
Prologue == {StpPre(0, 1, SP, -2), AddSP(-2)}
Body == {Mov(19, 0), Mov(1, 19), Set(0), Set(29), SetFP(1), AddSP(-1), Mov(SP, FP),
         Str(1, SP, 1), Str(0, FP, 0), Str(19, SP, 0), Ldr(0, SP, 0), Ldr(19, FP, 0),
         LdpPost(0, 19, SP, 1), Call, JumpIf(1), JumpIf(3), JumpIf(4), Jump(5)}
Undecoded == {JumpReg({4, 5}), Unseen(SP, -1)}
After == {Ret}
Loop == {JumpIf(1)}

Function(p, b, a) ==
  [n \in 0..5 |-> CASE n = 0 -> p [] n = 4 -> Nop [] n = 5 -> a [] OTHER -> b[n]]
\* Stores of an argument and of another register to one slot.
Spilling == {Nop, Set(0), Str(0, SP, 0), Str(19, SP, 0)}

Functions(body, last) ==
  {Function(p, b, a) : p \in Prologue, b \in [1..3 -> body], a \in last}
\* An argument is spilled, and sp moves by a shifted immediate.
Framing == {Nop, Set(0), Str(0, SP, 0), Shifted(AddSP(-1))}
\* An argument is spilled, and x29 is set below sp.
Lowering == {Nop, Set(0), Str(0, SP, 0), SetFP(-1)}
\* A jump through a register that another path joins, or does not.
Tabled == {Nop, Set(0), JumpIf(4), JumpReg({4, 5})}
\* An argument is spilled, and an instruction the decoder does not know moves sp
\* or overwrites the argument.
Moving == {Nop, Set(0), Str(0, SP, 0), Unseen(SP, -1)}
Writing == {Nop, Mov(19, 0), Unseen(0, 0)}

Straight == Functions(Body \cup Undecoded, After)
Loops == Functions(Body, Loop)
Large == Functions(Framing, After)
Below == Functions(Lowering, After)
Reuse == Functions(Spilling, After)
Tables == Functions(Tabled, After)
Dynamic == Functions(Moving, After)
Paired == Functions(Writing, After)
=============================================================================
