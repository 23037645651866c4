------------------------------ MODULE ArgFlow ------------------------------
(***************************************************************************)
(* The argument analysis of arm64-guard (src/analysis.c, locate_args)      *)
(* together with the code it analyses.  The analysis runs first: it visits *)
(* the instructions up to the guard, in passes, until nothing changes, and *)
(* reports for each argument of the function a place that holds it at the  *)
(* guard.  Then the function runs, and the places reported can be compared *)
(* with what registers and stack really hold when control is at the guard. *)
(*                                                                         *)
(* The code's bit masks are sets of facts "this place holds argument k".   *)
(* Registers and stack words are whole: the widths of accesses, and the    *)
(* bytes and half-words that the code treats as losing the argument, are   *)
(* abstracted away.  An instruction is known by what it does to arguments  *)
(* and to the addresses of slots.                                          *)
(***************************************************************************)
EXTENDS Integers, FiniteSets

CONSTANTS
  Args,        \* the arguments followed (NARGS: x0 to x7)
  Reg,         \* general registers of the programs, numbered as in the code
  Programs,    \* functions: [0..(length - 1) -> Instr]
  Guard,       \* index of the guarded instruction
  MaxSlots,    \* MAX_SLOTS
  MaxPasses,   \* MAX_PASSES
  FrameStable, \* TRUE if the function keeps spilled arguments where they are
  StackWords,  \* bound: how deep the function's frame may grow
  LslFactor,   \* bound: what "LSL #12" multiplies an immediate by, 4096 in fact
  LoopBack,    \* TRUE if control may come back to the guard from after it
  TableJumps   \* TRUE if a jump through a register may lead up to the guard

SP == 31
FP == 29
CallerSaved == (0..18) \cup {30}

ASSUME FlowAssumption ==
  /\ Reg \subseteq 0..30 /\ Args \subseteq Reg \cap (0..7)
  /\ Guard \in Nat /\ MaxSlots \in Nat /\ MaxPasses \in Nat \ {0}
  /\ StackWords \in Nat /\ LslFactor \in Nat
  /\ FrameStable \in BOOLEAN /\ LoopBack \in BOOLEAN /\ TableJumps \in BOOLEAN

VARIABLES
  prog,     \* the function
  phase,    \* "analyse", then "run" or "refused", at last "returned"
  st,       \* st: facts before each instruction of the window
  valid,    \* valid: indices reached
  table,    \* slots registered so far: pairs of base register and offset
  idx,      \* the instruction being visited
  pass,     \* number of complete passes
  changed,  \* whether this pass changed anything
  locs,     \* the result: a place for each argument
  pc, regs, \* the processor, while the function runs
  mem       \* the stack words that hold arguments: pairs of address and argument

analysis == <<st, valid, table, idx, pass, changed, locs>>
machine == <<pc, regs, mem>>
vars == <<prog, phase, analysis, machine>>

Window == 0..Guard

(***************************************************************************)
(* Instructions, as a64_decode distinguishes them.  "set" is every         *)
(* instruction that only gives rd a value which is not an argument.  "moves" *)
(* holds the registers of a store or load, each with its place in the pair, *)
(* "off" what the processor adds to a base, "to" where a branch may lead.   *)
(* Of add and sub a64_decode reports "imm", which has neither the sign nor  *)
(* the shift.  "unseen" is an instruction a64_decode does not know that     *)
(* writes a register transfer does not clear for it: sp, which sub sp, sp,  *)
(* x9 and the write-back of stp d8, d9, [sp, #-16]! move, or the second     *)
(* register of ldpsw.                                                       *)
(***************************************************************************)
Blank == [op |-> "nop", rd |-> 0, rn |-> 0, off |-> 0, imm |-> 0,
          mode |-> "offset", moves |-> {}, to |-> {}]
Nop == Blank
Ret == [Blank EXCEPT !.op = "ret"]
Call == [Blank EXCEPT !.op = "call"]
Jump(t) == [Blank EXCEPT !.op = "jump", !.to = {t}]
JumpIf(t) == [Blank EXCEPT !.op = "jumpif", !.to = {t}]
JumpReg(T) == [Blank EXCEPT !.op = "br", !.to = T]
Unseen(d, n) == [Blank EXCEPT !.op = "unseen", !.rd = d, !.off = n]
Mov(d, n) == [Blank EXCEPT !.op = "mov", !.rd = d, !.rn = n]
Set(d) == [Blank EXCEPT !.op = "set", !.rd = d]
Unsigned(n) == IF n < 0 THEN -n ELSE n
AddSP(n) == [Blank EXCEPT !.op = "addsp", !.off = n, !.imm = Unsigned(n)]
SetFP(n) == [Blank EXCEPT !.op = "setfp", !.off = n, !.imm = Unsigned(n)]
Shifted(i) == [i EXCEPT !.off = LslFactor * @]
Access(op, m, b, n, mode) ==
  [Blank EXCEPT !.op = op, !.moves = m, !.rn = b, !.off = n, !.mode = mode]
One(r) == {[reg |-> r, at |-> 0]}
Two(r, s) == {[reg |-> r, at |-> 0], [reg |-> s, at |-> 1]}
Str(r, b, n) == Access("store", One(r), b, n, "offset")
StpPre(r, s, b, n) == Access("store", Two(r, s), b, n, "pre")
Ldr(r, b, n) == Access("load", One(r), b, n, "offset")
LdpPost(r, s, b, n) == Access("load", Two(r, s), b, n, "post")

\* The address of an access relative to its base: for post-index the base.
Eff(i) == IF i.mode = "post" THEN 0 ELSE i.off
WritesBack(i) == i.mode # "offset"
Loaded(i) == {m.reg : m \in i.moves}

(***************************************************************************)
(* Facts.                                                                  *)
(***************************************************************************)
InReg(r, k) == [in |-> "reg", reg |-> r, off |-> 0, arg |-> k]
InSlot(b, n, k) == [in |-> "slot", reg |-> b, off |-> n, arg |-> k]
RegFact(f, r) == f.in = "reg" /\ f.reg = r
SlotFact(f, b) == f.in = "slot" /\ f.reg = b

ArgsInReg(S, r) == {k \in Args : InReg(r, k) \in S}
ArgsInSlot(S, b, n) == {k \in Args : InSlot(b, n, k) \in S}

\* kill_slots_base, and what every write of a register does.
KillSlots(S, b) == {f \in S : ~SlotFact(f, b)}
KillReg(S, r) == {f \in S : ~RegFact(f, r)}
Overwrite(S, r) == KillSlots(KillReg(S, r), r)

\* rebase_slots: after "b = b + n" the word at offset x is at x - n.
Rebase(S, b, n) ==
  {IF SlotFact(f, b) THEN [f EXCEPT !.off = @ - n] ELSE f : f \in S}
WriteBack(S, i) ==
  IF WritesBack(i) THEN KillReg(Rebase(S, i.rn, i.off), i.rn) ELSE S

(***************************************************************************)
(* transfer: the facts after instruction i, given the facts before it.     *)
(***************************************************************************)
AfterMov(i, S) ==
  IF i.rd = SP THEN KillSlots(S, SP)
  ELSE Overwrite(S, i.rd) \cup {InReg(i.rd, k) : k \in ArgsInReg(S, i.rn)}

\* add x29, sp, #imm: what sp reaches, x29 reaches too.  The slots an earlier
\* x29 reached are kept.
AfterSetFP(i, S) ==
  KillReg(S, FP) \cup {InSlot(FP, f.off - i.imm, f.arg) : f \in {g \in S : SlotFact(g, SP)}}

\* add sp, sp, #imm, and sub, which is told apart here.
AfterAddSP(i, S) == Rebase(S, SP, IF i.off < 0 THEN -i.imm ELSE i.imm)

\* bl, blr.
AfterCall(S) == {f \in S : f.reg \notin CallerSaved}

\* A store of a register that holds arguments marks the slot; a store of
\* another register leaves the slot's mark.
Spills(i, S) == {m \in i.moves : ArgsInReg(S, m.reg) # {}}
AfterStore(i, S) ==
  LET hit == {Eff(i) + m.at : m \in Spills(i, S)}
      new == UNION {{InSlot(i.rn, Eff(i) + m.at, k) : k \in ArgsInReg(S, m.reg)} :
                      m \in Spills(i, S)}
  IN  {f \in S : ~(SlotFact(f, i.rn) /\ f.off \in hit)} \cup new

AfterLoad(i, S) ==
  LET kept == {f \in S : f.reg \notin Loaded(i)}
      new  == UNION {{InReg(m.reg, k) : k \in ArgsInSlot(S, i.rn, Eff(i) + m.at)} :
                       m \in i.moves}
  IN  kept \cup new

\* All an instruction does before its base register is written back.
Direct(i, S) ==
  CASE i.op = "mov"   -> AfterMov(i, S)
    [] i.op = "set"   -> Overwrite(S, i.rd)
    [] i.op = "addsp" -> AfterAddSP(i, S)
    [] i.op = "setfp" -> AfterSetFP(i, S)
    [] i.op = "call"  -> AfterCall(S)
    [] i.op = "store" -> AfterStore(i, S)
    [] i.op = "load"  -> AfterLoad(i, S)
    [] OTHER          -> S

Transfer(i, S) == WriteBack(Direct(i, S), i)

\* slot_index: the slots of the new facts are registered until the table is
\* full; facts about other slots are lost.
SlotsOf(S) == {<<f.reg, f.off>> : f \in {g \in S : g.in = "slot"}}
\* Which of the slots find room is left open.  Mutant: the size is not tested.
MutRegistered(t, S) == {t \cup SlotsOf(S)}
Registered(t, S) ==
  LET all == t \cup SlotsOf(S) IN
  IF Cardinality(all) <= MaxSlots THEN {all}
  ELSE {u \in SUBSET all : t \subseteq u /\ Cardinality(u) = MaxSlots}
Known(S, t) == {f \in S : f.in = "reg" \/ <<f.reg, f.off>> \in t}

(***************************************************************************)
(* The passes.                                                             *)
(***************************************************************************)
\* Where the analysis takes control to go: behind a return or a jump through a
\* register, nowhere.
Flow(i, at) == CASE i.op \in {"ret", "br"} -> {}
                 [] i.op = "jump"          -> i.to
                 [] i.op = "jumpif"        -> i.to \cup {at + 1}
                 [] OTHER                  -> {at + 1}

\* Successors outside the window are left out.
Succ(at) == Flow(prog[at], at) \cap Window

\* Facts that meet at s.  Mutants: any path will do; only a new state counts
\* as a change.
MutMeetAny(s, out) == IF s \in valid THEN st[s] \cup out ELSE out
Meet(s, out) == IF s \in valid THEN st[s] \cap out ELSE out
MutGrew(s, out) == s \notin valid
Grew(s, out) == s \notin valid \/ Meet(s, out) # st[s]

Visit ==
  /\ phase = "analyse" /\ idx <= Guard
  /\ IF idx \in valid
     THEN LET direct == Direct(prog[idx], st[idx]) IN
          \E t \in Registered(table, direct) :
            LET after == WriteBack(Known(direct, t), prog[idx]) IN
            \E u \in Registered(t, after) :
              LET out == Known(after, u) IN
                /\ table' = u
                /\ st' = [s \in Window |-> IF s \in Succ(idx) THEN Meet(s, out) ELSE st[s]]
                /\ valid' = valid \cup Succ(idx)
                /\ changed' = (changed \/ \E s \in Succ(idx) : Grew(s, out))
     ELSE UNCHANGED <<table, st, valid, changed>>
  /\ idx' = idx + 1
  /\ UNCHANGED <<prog, phase, pass, locs, machine>>

EndPass ==
  /\ phase = "analyse" /\ idx = Guard + 1
  /\ changed /\ pass + 1 < MaxPasses
  /\ idx' = 0 /\ pass' = pass + 1 /\ changed' = FALSE
  /\ UNCHANGED <<prog, phase, st, valid, table, locs, machine>>

Finished == phase = "analyse" /\ idx = Guard + 1 /\ (~changed \/ pass + 1 >= MaxPasses)

\* A register if there is one, the lowest; else a slot whose base is not one of
\* the trampoline's scratch registers.
Unknown == [in |-> "unknown", reg |-> 0, off |-> 0, arg |-> 0]
BaseOK(b) == b \in (0..7) \cup (18..31)
Places(k) ==
  LET here == {f \in st[Guard] : f.arg = k}
      rs   == {f.reg : f \in {g \in here : g.in = "reg"}}
      ss   == {f \in here : f.in = "slot" /\ BaseOK(f.reg)}
  IN  IF rs # {} THEN {InReg(r, k) : r \in {x \in rs : \A y \in rs : x <= y}}
      ELSE IF ss # {} THEN ss ELSE {Unknown}

\* The call that asked for the analysis fails if the guard is not reached or no
\* argument was found.
Report ==
  /\ Finished /\ Guard \in valid
  /\ locs' \in {l \in [Args -> UNION {Places(k) : k \in Args}] :
                  \A k \in Args : l[k] \in Places(k)}
  /\ phase' = IF \A k \in Args : locs'[k] = Unknown THEN "refused" ELSE "run"
  /\ UNCHANGED <<prog, st, valid, table, idx, pass, changed, machine>>

Unreachable ==
  /\ Finished /\ Guard \notin valid
  /\ phase' = "refused"
  /\ UNCHANGED <<prog, analysis, machine>>

(***************************************************************************)
(* The function runs.  A register holds an argument, an address in the     *)
(* frame, or something else.  What compiled code is taken to do under      *)
(* FrameStable: no step destroys a spilled argument, arguments are spilled *)
(* to the frame only, x29 is made to point into the frame once, and once   *)
(* an argument is spilled sp moves by instructions only that transfer      *)
(* knows to move it.                                                       *)
(***************************************************************************)
ArgVal(k) == [is |-> "arg", n |-> k]
FrameVal(a) == [is |-> "frame", n |-> a]
Other == [is |-> "other", n |-> 0]

\* Where the processor goes.
Goes(i, at) == IF i.op = "br" THEN i.to ELSE Flow(i, at)

Here == prog[pc]
Goto(t) == IF t \in DOMAIN prog THEN phase' = "run" /\ pc' = t
                                ELSE phase' = "returned" /\ pc' = pc
Step(rs, ms) ==
  /\ phase = "run"
  /\ \E t \in Goes(Here, pc) :
       /\ LoopBack \/ pc <= Guard \/ t > Guard
       /\ TableJumps \/ Here.op # "br" \/ t > Guard
       /\ Goto(t)
  /\ FrameStable => mem \subseteq ms
  /\ rs[SP].n \in -StackWords..0
  /\ regs' = rs /\ mem' = ms
  /\ UNCHANGED <<prog, analysis>>

ExecBranch == /\ Here.op \in {"nop", "jump", "jumpif", "br"}
              /\ Step(regs, mem)

ExecReturn == /\ phase = "run" /\ Here.op = "ret"
              /\ phase' = "returned"
              /\ UNCHANGED <<prog, analysis, machine>>

ExecMov == /\ Here.op = "mov"
           /\ Here.rd = SP => regs[Here.rn].is = "frame"
           /\ Step([regs EXCEPT ![Here.rd] = regs[Here.rn]], mem)

ExecSet == /\ Here.op = "set"
           /\ Step([regs EXCEPT ![Here.rd] = Other], mem)

ExecUnseen == /\ Here.op = "unseen"
              /\ FrameStable => mem = {}
              /\ Step(IF Here.rd = SP THEN [regs EXCEPT ![SP].n = @ + Here.off]
                                     ELSE [regs EXCEPT ![Here.rd] = Other], mem)

ExecAddSP == /\ Here.op = "addsp"
             /\ Step([regs EXCEPT ![SP].n = @ + Here.off], mem)

ExecSetFP == /\ Here.op = "setfp"
             /\ FrameStable => regs[FP].is # "frame"
             /\ Step([regs EXCEPT ![FP] = FrameVal(regs[SP].n + Here.off)], mem)

\* The callee overwrites its own registers and what lies below sp.
ExecCall == /\ Here.op = "call"
            /\ Step([r \in DOMAIN regs |-> IF r \in CallerSaved THEN Other ELSE regs[r]],
                    {w \in mem : w[1] >= regs[SP].n})

Base == regs[Here.rn]
Bumped(rs) == IF WritesBack(Here) /\ Base.is = "frame"
              THEN [rs EXCEPT ![Here.rn] = FrameVal(Base.n + Here.off)] ELSE rs
Addr(m) == Base.n + Eff(Here) + m.at

ExecStore ==
  /\ Here.op = "store"
  /\ LET spills == {m \in Here.moves : regs[m.reg].is = "arg"} IN
     IF Base.is = "frame"
     THEN Step(Bumped(regs),
               {w \in mem : \A m \in Here.moves : w[1] # Addr(m)}
                 \cup {<<Addr(m), regs[m.reg].n>> : m \in spills})
     ELSE /\ FrameStable => spills = {}
          /\ Step(Bumped(regs), mem)

InMem(a) == IF \E k \in Args : <<a, k>> \in mem
            THEN ArgVal(CHOOSE k \in Args : <<a, k>> \in mem) ELSE Other

ExecLoad ==
  /\ Here.op = "load"
  /\ Step(Bumped([r \in DOMAIN regs |->
                    IF r \notin Loaded(Here) THEN regs[r]
                    ELSE IF Base.is # "frame" THEN Other
                    ELSE InMem(Addr(CHOOSE m \in Here.moves : m.reg = r))]),
          mem)

Init ==
  /\ prog \in Programs
  /\ phase = "analyse"
  /\ st = [s \in Window |-> IF s = 0 THEN {InReg(k, k) : k \in Args} ELSE {}]
  /\ valid = {0} /\ table = {}
  /\ idx = 0 /\ pass = 0 /\ changed = FALSE
  /\ locs = [k \in Args |-> Unknown]
  /\ pc = 0 /\ mem = {}
  /\ regs = [r \in Reg \cup {SP} |-> IF r \in Args THEN ArgVal(r)
                                     ELSE IF r = SP THEN FrameVal(0) ELSE Other]

Analyse == Visit \/ EndPass \/ Report \/ Unreachable
Execute == \/ ExecBranch \/ ExecReturn \/ ExecMov \/ ExecSet \/ ExecUnseen \/ ExecAddSP
           \/ ExecSetFP \/ ExecCall \/ ExecStore \/ ExecLoad
Next == Analyse \/ Execute
Spec == Init /\ [][Next]_vars

(***************************************************************************)
(* Properties.                                                             *)
(***************************************************************************)
IsFact(f) == /\ f.in \in {"reg", "slot"} /\ f.reg \in Reg \cup {SP}
             /\ f.off \in Int /\ f.arg \in Args

\* Every variable has its type, and the slot table keeps to its size.
TypeOK ==
  /\ phase \in {"analyse", "run", "refused", "returned"}
  /\ DOMAIN st = Window /\ \A s \in Window : \A f \in st[s] : IsFact(f)
  /\ valid \subseteq Window
  /\ table \subseteq (Reg \cup {SP}) \X Int /\ Cardinality(table) <= MaxSlots
  /\ idx \in 0..(Guard + 1) /\ pass \in 0..MaxPasses /\ changed \in BOOLEAN
  /\ \A k \in Args : locs[k] = Unknown \/ (IsFact(locs[k]) /\ locs[k].arg = k)
  /\ pc \in DOMAIN prog
  /\ \A r \in Reg \cup {SP} : regs[r].is \in {"arg", "frame", "other"} /\ regs[r].n \in Int
  /\ mem \subseteq Int \X Args

\* What a fact says of the processor.
Holds(f) ==
  IF f.in = "reg" THEN regs[f.reg] = ArgVal(f.arg)
  ELSE regs[f.reg].is = "frame" /\ <<regs[f.reg].n + f.off, f.arg>> \in mem

\* Whenever control is at the guard, each place reported holds its argument: a
\* wrong place is never handed to check (src/README.md 33, analysis.c 10-12).
LocationsHold ==
  phase = "run" /\ pc = Guard =>
    \A k \in Args : locs[k] # Unknown => Holds(locs[k])

\* When the analysis ends, with as many passes as it is given, it has reached a
\* fixpoint: no path of the window brings fewer facts to an instruction than
\* are recorded there (analysis.c 336-414).
Converged ==
  phase = "run" =>
    \A s \in valid : \A t \in Succ(s) : t \in valid /\ st[t] \subseteq Transfer(prog[s], st[s])
=============================================================================
