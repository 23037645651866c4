--------------------------- MODULE ArgFlow_proofs ---------------------------
(***************************************************************************)
(* Proof that the places the argument analysis reports hold the arguments, *)
(* for every function, guard and table size.  An iteration that ended      *)
(* because nothing changed has reached a fixpoint; at a fixpoint the facts *)
(* recorded before an instruction hold whenever control is there, since    *)
(* transfer follows what each instruction does.                            *)
(***************************************************************************)
EXTENDS ArgFlow, TLAPS, FiniteSetTheorems

Storage == Reg \cup {SP}

\* Instructions that transfer sees as they are: an immediate without shift, x29
\* set above sp, no write to register 31 but where it is sp, a pair of two
\* registers next to each other, and of undecoded instructions those only that
\* write a register transfer clears or move sp.
Ordinary(i) ==
  /\ i.op \in {"nop", "ret", "call", "jump", "jumpif", "br", "mov", "set", "unseen", "addsp",
               "setfp", "store", "load"}
  /\ i.off \in Int
  /\ i.op \notin {"store", "load"} => i.mode = "offset"
  /\ i.op = "mov" => i.rd \in Storage /\ i.rn \in Storage
  /\ i.op = "set" => i.rd \in Reg
  /\ i.op = "unseen" => i.rd = SP
  /\ i.op = "addsp" => i.imm = Unsigned(i.off)
  /\ i.op = "setfp" => i.off \in Nat /\ i.imm = i.off /\ FP \in Reg
  /\ i.op \in {"store", "load"} =>
       /\ i.rn \in Storage
       /\ \A m \in i.moves : m.reg \in Reg /\ m.at \in Int
       /\ \A m, n \in i.moves : m # n => m.at # n.at
  /\ i.op = "load" => \A m, n \in i.moves : m # n => m.reg # n.reg

OrdinaryPrograms ==
  \A p \in Programs :
    /\ DOMAIN p \subseteq Nat /\ Window \subseteq DOMAIN p
    /\ \A s \in DOMAIN p : Ordinary(p[s])

(***************************************************************************)
(* Facts and register files.                                               *)
(***************************************************************************)
Facts ==
  {f \in [in : {"reg", "slot"}, reg : Storage, off : Int, arg : Args] :
     f.in = "reg" => f.off = 0}
Val == [is : {"arg", "frame", "other"}, n : Int]
RegFile == [Storage -> Val]

\* What fact f says of registers R and stack words M.
HoldsIn(f, R, M) ==
  IF f.in = "reg" THEN R[f.reg] = ArgVal(f.arg)
  ELSE R[f.reg].is = "frame" /\ <<R[f.reg].n + f.off, f.arg>> \in M
Sound(S, R, M) == \A f \in S : HoldsIn(f, R, M)

LEMMA ArgsInt == Args \subseteq Int /\ Args \subseteq Reg /\ Reg \subseteq Int /\ SP \notin Reg
BY FlowAssumption DEF FlowAssumption, SP

LEMMA FactMade ==
  /\ \A r \in Storage, k \in Args : InReg(r, k) \in Facts
  /\ \A b \in Storage, n \in Int, k \in Args : InSlot(b, n, k) \in Facts
BY DEF Facts, InReg, InSlot

\* A fact moved along its base is one.
LEMMA FactMoved ==
  ASSUME NEW f \in Facts, SlotFact(f, f.reg), NEW n \in Int
  PROVE  [f EXCEPT !.off = @ - n] \in Facts
BY DEF Facts, SlotFact

LEMMA RebaseFacts ==
  ASSUME NEW S \in SUBSET Facts, NEW b, NEW n \in Int
  PROVE  Rebase(S, b, n) \subseteq Facts
BY DEF Facts, SlotFact, Rebase

\* What an instruction makes of facts are facts.
LEMMA DirectFacts ==
  ASSUME NEW i, Ordinary(i), NEW S \in SUBSET Facts
  PROVE  Direct(i, S) \subseteq Facts
<1> USE DEF Ordinary
<1>1. CASE i.op = "mov"
  <2>1. AfterMov(i, S) \subseteq S \cup {InReg(i.rd, k) : k \in ArgsInReg(S, i.rn)}
    BY DEF AfterMov, Overwrite, KillSlots, KillReg
  <2>2. {InReg(i.rd, k) : k \in ArgsInReg(S, i.rn)} \subseteq Facts
    BY <1>1, FactMade DEF ArgsInReg
  <2> QED BY <1>1, <2>1, <2>2 DEF Direct
<1>2. CASE i.op = "set"
  BY <1>2 DEF Direct, Overwrite, KillSlots, KillReg
<1>3. CASE i.op = "addsp"
  <2>1. (IF i.off < 0 THEN -i.imm ELSE i.imm) = i.off
    BY <1>3 DEF Unsigned
  <2> QED BY <1>3, <2>1, RebaseFacts DEF Direct, AfterAddSP
<1>4. CASE i.op = "setfp"
  <2>1. FP \in Storage /\ i.imm \in Int
    BY <1>4 DEF Storage
  <2>2. {InSlot(FP, f.off - i.imm, f.arg) : f \in {g \in S : SlotFact(g, SP)}} \subseteq Facts
    BY <2>1 DEF Facts, InSlot
  <2> QED BY <1>4, <2>2 DEF Direct, AfterSetFP, KillReg
<1>5. CASE i.op = "call"
  BY <1>5 DEF Direct, AfterCall
<1>6. CASE i.op = "store"
  <2> DEFINE new == UNION {{InSlot(i.rn, Eff(i) + m.at, k) : k \in ArgsInReg(S, m.reg)} :
                             m \in Spills(i, S)}
  <2>1. Eff(i) \in Int /\ i.rn \in Storage
    BY <1>6 DEF Eff
  <2>2. \A m \in Spills(i, S) : Eff(i) + m.at \in Int
    BY <1>6, <2>1 DEF Spills
  <2>3. new \subseteq Facts
    BY <2>1, <2>2, FactMade DEF ArgsInReg
  <2>4. AfterStore(i, S) \subseteq S \cup new
    BY DEF AfterStore
  <2> QED BY <1>6, <2>3, <2>4 DEF Direct
<1>7. CASE i.op = "load"
  <2> DEFINE new == UNION {{InReg(m.reg, k) : k \in ArgsInSlot(S, i.rn, Eff(i) + m.at)} :
                             m \in i.moves}
  <2>1. new \subseteq Facts
    BY <1>7, FactMade DEF ArgsInSlot, Storage
  <2>2. AfterLoad(i, S) \subseteq S \cup new
    BY DEF AfterLoad
  <2> QED BY <1>7, <2>1, <2>2 DEF Direct
<1>8. CASE i.op \in {"nop", "ret", "jump", "jumpif", "br", "unseen"}
  BY <1>8 DEF Direct
<1> QED BY <1>1, <1>2, <1>3, <1>4, <1>5, <1>6, <1>7, <1>8

LEMMA WriteBackFacts ==
  ASSUME NEW i, Ordinary(i), NEW S \in SUBSET Facts
  PROVE  WriteBack(S, i) \subseteq Facts
BY RebaseFacts DEF Ordinary, WriteBack, KillReg

\* Facts lost on the way to a write-back are lost behind it.
LEMMA WriteBackMonotone ==
  ASSUME NEW i, NEW S, NEW T, S \subseteq T
  PROVE  WriteBack(S, i) \subseteq WriteBack(T, i)
BY DEF WriteBack, KillReg, Rebase

(***************************************************************************)
(* Types.                                                                  *)
(***************************************************************************)
\* A register file of the processor: sp points into the frame.
Regular(R) ==
  /\ R \in RegFile /\ R[SP].is = "frame"
  /\ \A r \in Storage : R[r].is = "arg" => R[r].n \in Args
FactsTyped == \A s \in Window : st[s] \subseteq Facts
TypeInv ==
  /\ TypeOK /\ FactsTyped
  /\ prog \in Programs /\ Regular(regs)

\* The slots registered are slots, and no more than the table has room for.
LEMMA RegisteredSlots ==
  ASSUME NEW v \in SUBSET ((Reg \cup {SP}) \X Int), NEW S \in SUBSET Facts,
         NEW w \in Registered(v, S)
  PROVE  w \subseteq (Reg \cup {SP}) \X Int /\ Cardinality(w) <= MaxSlots
<1>1. SlotsOf(S) \subseteq (Reg \cup {SP}) \X Int
  BY DEF SlotsOf, Facts, Storage
<1>2. MaxSlots \in Nat
  BY FlowAssumption DEF FlowAssumption
<1> DEFINE all == v \cup SlotsOf(S)
<1>3. CASE Cardinality(all) <= MaxSlots
  <2>1. w = all
    BY <1>3 DEF Registered
  <2> QED BY <2>1, <1>1, <1>3
<1>4. CASE ~(Cardinality(all) <= MaxSlots)
  <2>1. w \subseteq all /\ Cardinality(w) = MaxSlots
    BY <1>4 DEF Registered
  <2> QED BY <2>1, <1>1, <1>2
<1> QED BY <1>3, <1>4

\* The facts a visit hands on.
Handed(out) ==
  \E t \in Registered(table, Direct(prog[idx], st[idx])) :
    \E u \in Registered(t, WriteBack(Known(Direct(prog[idx], st[idx]), t), prog[idx])) :
      /\ out = Known(WriteBack(Known(Direct(prog[idx], st[idx]), t), prog[idx]), u)
      /\ table' = u

LEMMA VisitHands ==
  ASSUME Visit, idx \in valid
  PROVE  \E out : /\ Handed(out)
                  /\ st' = [s \in Window |-> IF s \in Succ(idx) THEN Meet(s, out) ELSE st[s]]
                  /\ valid' = valid \cup Succ(idx)
                  /\ changed' = (changed \/ \E s \in Succ(idx) : Grew(s, out))
BY DEF Visit, Handed

LEMMA HandedFacts ==
  ASSUME OrdinaryPrograms, TypeInv, idx \in valid, NEW out, Handed(out)
  PROVE  /\ out \subseteq Facts /\ out \subseteq Transfer(prog[idx], st[idx])
         /\ table' \subseteq (Reg \cup {SP}) \X Int /\ Cardinality(table') <= MaxSlots
<1> DEFINE i == prog[idx]
           direct == Direct(i, st[idx])
<1>1. idx \in Window /\ prog \in Programs /\ st[idx] \in SUBSET Facts
  BY DEF TypeInv, TypeOK, FactsTyped
<1>2. Ordinary(i)
  BY <1>1 DEF OrdinaryPrograms
<1>3. direct \in SUBSET Facts
  BY <1>1, <1>2, DirectFacts
<1>4. PICK t \in Registered(table, direct) :
        \E u \in Registered(t, WriteBack(Known(direct, t), i)) :
          out = Known(WriteBack(Known(direct, t), i), u) /\ table' = u
  BY DEF Handed
<1>5. PICK u \in Registered(t, WriteBack(Known(direct, t), i)) :
        out = Known(WriteBack(Known(direct, t), i), u) /\ table' = u
  BY <1>4
<1> DEFINE known == Known(direct, t)
           after == WriteBack(known, i)
<1>6. known \subseteq direct /\ known \in SUBSET Facts
  BY <1>3 DEF Known
<1>7. after \subseteq Facts /\ after \subseteq WriteBack(direct, i)
  BY <1>2, <1>6, WriteBackFacts, WriteBackMonotone
<1>8. out \subseteq after
  BY <1>5 DEF Known
<1>10. table \subseteq (Reg \cup {SP}) \X Int
  BY DEF TypeInv, TypeOK
<1> HIDE DEF known, after, direct
<1>12. t \subseteq (Reg \cup {SP}) \X Int
  BY <1>3, <1>4, <1>10, RegisteredSlots
<1>13. u \subseteq (Reg \cup {SP}) \X Int /\ Cardinality(u) <= MaxSlots
  <2>1. u \in Registered(t, after) /\ after \in SUBSET Facts
    BY <1>5, <1>7 DEF known, after
  <2> QED BY <2>1, <1>12, RegisteredSlots
<1>14. table' = u
  BY <1>5
<1> QED BY <1>7, <1>8, <1>13, <1>14 DEF Transfer, direct

\* A place reported is recorded at the guard.
LEMMA PlacesRecorded ==
  ASSUME FactsTyped, NEW k \in Args
  PROVE  \A p \in Places(k) : p = Unknown \/ (p \in st[Guard] /\ p.arg = k)
<1> DEFINE here == {f \in st[Guard] : f.arg = k}
           rs == {f.reg : f \in {g \in here : g.in = "reg"}}
           ss == {f \in here : f.in = "slot" /\ BaseOK(f.reg)}
<1>1. st[Guard] \subseteq Facts
  BY FlowAssumption DEF FactsTyped, Window, FlowAssumption
<1>2. \A r \in rs : InReg(r, k) \in here
  <2> TAKE r \in rs
  <2>1. PICK f \in here : f.in = "reg" /\ f.reg = r
    OBVIOUS
  <2>2. f \in Facts /\ f.arg = k
    BY <1>1
  <2>3. f = InReg(r, k)
    BY <2>1, <2>2 DEF Facts, InReg
  <2> QED BY <2>3
<1>3. Places(k) \subseteq {InReg(r, k) : r \in rs} \cup ss \cup {Unknown}
  BY DEF Places
<1> QED BY <1>2, <1>3

LEMMA InitTypes ==
  ASSUME OrdinaryPrograms, Init
  PROVE  TypeInv
<1>1. 0 \in Window /\ Guard \in Nat /\ MaxSlots \in Nat /\ MaxPasses \in Nat
  BY FlowAssumption DEF FlowAssumption, Window
<1>2. \A k \in Args : InReg(k, k) \in Facts
  BY ArgsInt, FactMade DEF Storage
<1>3. FactsTyped /\ DOMAIN st = Window
  BY <1>2 DEF Init, FactsTyped
<1>4. \A S : S \subseteq Facts => \A f \in S : IsFact(f)
  BY DEF Facts, IsFact, Storage
<1>5. Regular(regs)
  <2>1. \A r \in Storage : regs[r] \in Val /\ (regs[r].is = "arg" => regs[r].n \in Args)
    BY ArgsInt DEF Init, Storage, Val, ArgVal, FrameVal, Other
  <2>2. regs = [r \in Storage |-> regs[r]]
    BY DEF Init, Storage
  <2>3. regs[SP].is = "frame"
    BY ArgsInt DEF Init, FrameVal
  <2> QED BY <2>1, <2>2, <2>3 DEF Regular, RegFile
<1>6. pc \in DOMAIN prog /\ prog \in Programs
  BY <1>1 DEF Init, OrdinaryPrograms
<1>7. Cardinality({}) = 0
  BY FS_EmptySet
<1>8. \A r \in Storage : regs[r].is \in {"arg", "frame", "other"} /\ regs[r].n \in Int
  BY <1>5 DEF Regular, RegFile, Val
<1>9. idx \in 0..(Guard + 1) /\ pass \in 0..MaxPasses /\ changed \in BOOLEAN
  <2>1. idx \in 0..(Guard + 1) /\ pass \in 0..MaxPasses
    BY <1>1 DEF Init
  <2>2. changed \in BOOLEAN
    BY DEF Init
  <2> QED BY <2>1, <2>2
<1>10. valid \subseteq Window /\ phase = "analyse" /\ mem = {} /\ table = {}
       /\ \A k \in Args : locs[k] = Unknown
  BY <1>1 DEF Init
<1>11. Cardinality(table) <= MaxSlots
  BY <1>1, <1>7, <1>10
<1>12. \A s \in Window : \A f \in st[s] : IsFact(f)
  BY <1>3, <1>4 DEF FactsTyped
<1>13. TypeOK
  BY <1>3, <1>6, <1>8, <1>9, <1>10, <1>11, <1>12 DEF TypeOK, Storage
<1> QED BY <1>3, <1>5, <1>6, <1>13 DEF TypeInv

LEMMA VisitTypes ==
  ASSUME OrdinaryPrograms, TypeInv, Visit
  PROVE  TypeInv'
<1>1. FactsTyped' /\ DOMAIN st' = Window /\ valid' \subseteq Window /\ changed' \in BOOLEAN
      /\ table' \subseteq (Reg \cup {SP}) \X Int /\ Cardinality(table') <= MaxSlots
  <2>1. CASE idx \in valid
    <3>1. PICK out : /\ Handed(out)
                     /\ st' = [s \in Window |-> IF s \in Succ(idx) THEN Meet(s, out) ELSE st[s]]
                     /\ valid' = valid \cup Succ(idx)
                     /\ changed' = (changed \/ \E s \in Succ(idx) : Grew(s, out))
      BY <2>1, VisitHands
    <3>2. out \subseteq Facts
          /\ table' \subseteq (Reg \cup {SP}) \X Int /\ Cardinality(table') <= MaxSlots
      BY <2>1, <3>1, HandedFacts
    <3>3. \A s \in Window : st'[s] \subseteq Facts
      <4>1. \A s \in Window : Meet(s, out) \subseteq Facts /\ st[s] \subseteq Facts
        BY <3>2 DEF TypeInv, FactsTyped, Meet
      <4> QED BY <3>1, <4>1
    <3>4. Succ(idx) \subseteq Window
      BY DEF Succ
    <3> QED BY <3>1, <3>2, <3>3, <3>4 DEF TypeInv, TypeOK, FactsTyped
  <2>2. CASE idx \notin valid
    BY <2>2 DEF Visit, TypeInv, TypeOK, FactsTyped
  <2> QED BY <2>1, <2>2
<1>2. \A f \in Facts : IsFact(f)
  BY DEF Facts, IsFact, Storage
<1>3. idx' \in 0..(Guard + 1)
  BY FlowAssumption DEF Visit, TypeInv, TypeOK, FlowAssumption
<1>4. UNCHANGED <<prog, phase, pass, locs, pc, regs, mem>>
  BY DEF Visit, machine
<1>5. \A s \in Window : \A f \in st'[s] : IsFact(f)
  BY <1>1, <1>2 DEF FactsTyped
<1> QED BY <1>1, <1>3, <1>4, <1>5 DEF TypeInv, TypeOK, Regular

LEMMA ReportTypes ==
  ASSUME TypeInv, Report
  PROVE  TypeInv'
<1>1. \A k \in Args : locs'[k] = Unknown \/ (locs'[k] \in st[Guard] /\ locs'[k].arg = k)
  <2> TAKE k \in Args
  <2>1. locs'[k] \in Places(k)
    BY DEF Report
  <2> QED BY <2>1, PlacesRecorded DEF TypeInv
<1>2. Guard \in Window
  BY FlowAssumption DEF Window, FlowAssumption
<1>3. \A k \in Args : locs'[k] = Unknown \/ (IsFact(locs'[k]) /\ locs'[k].arg = k)
  BY <1>1, <1>2 DEF TypeInv, TypeOK
<1>4. UNCHANGED <<prog, st, valid, table, idx, pass, changed, pc, regs, mem>>
  BY DEF Report, machine
<1>5. phase' \in {"analyse", "run", "refused", "returned"}
  BY DEF Report
<1> QED BY <1>3, <1>4, <1>5 DEF TypeInv, TypeOK, Regular, FactsTyped

(***************************************************************************)
(* The processor's steps.                                                  *)
(***************************************************************************)
\* The instruction that runs is one of the function's.
LEMMA HereOrdinary ==
  ASSUME OrdinaryPrograms, TypeInv
  PROVE  Ordinary(Here) /\ pc \in Nat
BY DEF TypeInv, TypeOK, OrdinaryPrograms, Here

LEMMA RegularAt ==
  ASSUME NEW R, Regular(R), NEW r \in Storage
  PROVE  /\ R[r] \in Val /\ R[r].n \in Int /\ R[r].is \in {"arg", "frame", "other"}
         /\ R[r] = [is |-> R[r].is, n |-> R[r].n]
         /\ R[r].is = "arg" => R[r].n \in Args /\ R[r] = ArgVal(R[r].n)
BY DEF Regular, RegFile, Val, ArgVal

LEMMA RegularExcept ==
  ASSUME NEW R, Regular(R), NEW r \in Storage,
         NEW v \in Val, v.is = "arg" => v.n \in Args, r = SP => v.is = "frame"
  PROVE  Regular([R EXCEPT ![r] = v])
BY DEF Regular, RegFile, Storage

LEMMA Values ==
  /\ \A k \in Args : ArgVal(k) \in Val /\ ArgVal(k).is = "arg" /\ ArgVal(k).n = k
  /\ \A a \in Int : FrameVal(a) \in Val /\ FrameVal(a).is = "frame" /\ FrameVal(a).n = a
  /\ Other \in Val /\ Other.is = "other"
BY ArgsInt DEF Val, ArgVal, FrameVal, Other

LEMMA InMemValue ==
  ASSUME NEW a
  PROVE  InMem(a) = Other \/ \E k \in Args : <<a, k>> \in mem /\ InMem(a) = ArgVal(k)
BY DEF InMem

\* The base register after a store or load.
LEMMA BumpedRegular ==
  ASSUME OrdinaryPrograms, TypeInv, Here.op \in {"store", "load"}, NEW R, Regular(R)
  PROVE  Regular(Bumped(R))
<1>1. Here.rn \in Storage /\ Here.off \in Int
  BY HereOrdinary DEF Ordinary
<1>2. Base.n \in Int
  BY <1>1, RegularAt DEF TypeInv, Base
<1>3. Regular([R EXCEPT ![Here.rn] = FrameVal(Base.n + Here.off)])
  <2>1. Base.n + Here.off \in Int
    BY <1>1, <1>2
  <2>2. FrameVal(Base.n + Here.off) \in Val /\ FrameVal(Base.n + Here.off).is = "frame"
    BY <2>1, Values
  <2>3. FrameVal(Base.n + Here.off).is = "arg" => FrameVal(Base.n + Here.off).n \in Args
    BY <2>2
  <2> QED BY <1>1, <2>2, <2>3, RegularExcept
<1> QED BY <1>3 DEF Bumped

\* Where an access goes.
LEMMA AddrInt ==
  ASSUME OrdinaryPrograms, TypeInv, Here.op \in {"store", "load"}, NEW m \in Here.moves
  PROVE  Addr(m) \in Int /\ m.reg \in Reg /\ m.at \in Int /\ Base.n \in Int /\ Eff(Here) \in Int
<1>1. Here.rn \in Storage /\ Here.off \in Int /\ m.reg \in Reg /\ m.at \in Int
  BY HereOrdinary DEF Ordinary
<1>2. Base.n \in Int
  BY <1>1, RegularAt DEF TypeInv, Base
<1> QED BY <1>1, <1>2 DEF Addr, Eff

\* A call leaves the callee's registers without arguments.
Clobbered == [r \in DOMAIN regs |-> IF r \in CallerSaved THEN Other ELSE regs[r]]
Filled == [r \in DOMAIN regs |-> IF r \notin Loaded(Here) THEN regs[r]
                                 ELSE IF Base.is # "frame" THEN Other
                                 ELSE InMem(Addr(CHOOSE m \in Here.moves : m.reg = r))]

LEMMA ClobberedRegular ==
  ASSUME TypeInv
  PROVE  Regular(Clobbered) /\ (Ordinary(Here) /\ Here.op = "load" => Regular(Filled))
<1>1. DOMAIN regs = Storage
  BY DEF TypeInv, Regular, RegFile
<1>2. \A r \in Storage : regs[r] \in Val /\ (regs[r].is = "arg" => regs[r].n \in Args)
  BY RegularAt DEF TypeInv
<1>3. Regular(Clobbered)
  <2>1. Clobbered \in RegFile /\ \A r \in Storage : Clobbered[r].is = "arg" => Clobbered[r].n \in Args
    BY <1>1, <1>2, Values DEF Clobbered, RegFile
  <2>2. SP \notin CallerSaved /\ SP \in Storage
    BY DEF SP, CallerSaved, Storage
  <2>3. Clobbered[SP] = regs[SP]
    BY <1>1, <2>2 DEF Clobbered
  <2> QED BY <2>1, <2>3 DEF Regular, TypeInv
<1>4. \A a : InMem(a) \in Val /\ (InMem(a).is = "arg" => InMem(a).n \in Args)
  <2> TAKE a
  <2>1. InMem(a) = Other \/ \E k \in Args : InMem(a) = ArgVal(k)
    BY InMemValue
  <2>2. CASE InMem(a) = Other
    BY <2>2, Values
  <2>3. CASE \E k \in Args : InMem(a) = ArgVal(k)
    BY <2>3, Values
  <2> QED BY <2>1, <2>2, <2>3
<1>5. \A r \in Storage : Filled[r] \in Val /\ (Filled[r].is = "arg" => Filled[r].n \in Args)
  BY <1>1, <1>2, <1>4, Values DEF Filled
<1>6. Filled = [r \in Storage |-> Filled[r]]
  BY <1>1 DEF Filled
<1>7. ASSUME Ordinary(Here), Here.op = "load" PROVE Regular(Filled)
  <2>1. SP \notin Loaded(Here) /\ SP \in Storage
    BY <1>7, ArgsInt DEF Ordinary, Loaded, Storage
  <2>2. Filled[SP] = regs[SP]
    BY <1>1, <2>1 DEF Filled
  <2> QED BY <1>5, <1>6, <2>2 DEF Regular, RegFile, TypeInv
<1> QED BY <1>3, <1>7

\* What an instruction leaves in registers and stack words.
LEMMA StepTypes ==
  ASSUME TypeInv, NEW R, Regular(R), NEW M \in SUBSET (Int \X Args), Step(R, M)
  PROVE  TypeInv'
<1>1. regs' = R /\ mem' = M
      /\ UNCHANGED <<prog, st, valid, table, idx, pass, changed, locs>>
  BY DEF Step, analysis
<1>2. pc' \in DOMAIN prog /\ phase' \in {"run", "returned"}
  BY DEF Step, Goto, TypeInv, TypeOK
<1>3. \A r \in Storage : R[r].is \in {"arg", "frame", "other"} /\ R[r].n \in Int
  BY RegularAt
<1> QED BY <1>1, <1>2, <1>3 DEF TypeInv, TypeOK, FactsTyped, Storage

\* sp moved points into the frame as before.
LEMMA SPMoved ==
  ASSUME Regular(regs), NEW n \in Int
  PROVE  Regular([regs EXCEPT ![SP].n = @ + n])
<1>1. SP \in Storage
  BY DEF Storage
<1> DEFINE R == [regs EXCEPT ![SP].n = @ + n]
<1>2. regs[SP] \in Val /\ regs[SP].n \in Int
  BY <1>1, RegularAt
<1>3. R = [regs EXCEPT ![SP] = [is |-> regs[SP].is, n |-> regs[SP].n + n]]
  <2>1. \A v \in Val, x \in Int : [v EXCEPT !.n = x] = [is |-> v.is, n |-> x]
    BY DEF Val
  <2>2. regs[SP].n + n \in Int
    BY <1>2
  <2>3. [regs[SP] EXCEPT !.n = regs[SP].n + n] = [is |-> regs[SP].is, n |-> regs[SP].n + n]
    BY <1>2, <2>1, <2>2
  <2>4. R = [regs EXCEPT ![SP] = [regs[SP] EXCEPT !.n = regs[SP].n + n]]
    OBVIOUS
  <2> QED BY <2>3, <2>4
<1>4. [is |-> regs[SP].is, n |-> regs[SP].n + n] \in Val /\ regs[SP].is = "frame"
  BY <1>2 DEF Val, Regular
<1>5. Regular([regs EXCEPT ![SP] = [is |-> regs[SP].is, n |-> regs[SP].n + n]])
  BY <1>1, <1>4, RegularExcept
<1> QED BY <1>3, <1>5

\* Every instruction but a return is a Step, to registers and stack words of
\* their types.
LEMMA ExecuteSteps ==
  ASSUME OrdinaryPrograms, TypeInv, Execute
  PROVE  ExecReturn \/ \E R, M : Regular(R) /\ M \in SUBSET (Int \X Args) /\ Step(R, M)
<1>1. Ordinary(Here) /\ Regular(regs) /\ mem \in SUBSET (Int \X Args)
  BY HereOrdinary DEF TypeInv, TypeOK
<1>2. CASE ExecBranch
  BY <1>1, <1>2 DEF ExecBranch
<1>3. CASE ExecMov
  <2>1. Here.rd \in Storage /\ Here.rn \in Storage
    BY <1>1, <1>3 DEF ExecMov, Ordinary
  <2>2. Here.rd = SP => regs[Here.rn].is = "frame"
    BY <1>3 DEF ExecMov
  <2>3. Regular([regs EXCEPT ![Here.rd] = regs[Here.rn]])
    BY <2>2, <1>1, <2>1, RegularAt, RegularExcept
  <2> QED BY <1>1, <1>3, <2>3 DEF ExecMov
<1>4. CASE ExecSet
  <2>1. Here.rd \in Storage /\ Here.rd # SP
    BY <1>1, <1>4, ArgsInt DEF ExecSet, Ordinary, Storage
  <2>2. Regular([regs EXCEPT ![Here.rd] = Other])
    BY <1>1, <2>1, Values, RegularExcept
  <2> QED BY <1>1, <1>4, <2>2 DEF ExecSet
<1>5. CASE ExecAddSP
  <2>1. Step([regs EXCEPT ![SP].n = @ + Here.off], mem)
    BY <1>5 DEF ExecAddSP
  <2>2. Regular([regs EXCEPT ![SP].n = @ + Here.off])
    BY <1>1, SPMoved DEF Ordinary
  <2> QED BY <1>1, <2>1, <2>2
<1>6. CASE ExecSetFP
  <2>1. FP \in Storage /\ SP \in Storage /\ Here.off \in Int /\ FP # SP
    <3>1. Here.op = "setfp"
      BY <1>6 DEF ExecSetFP
    <3>2. FP \in Reg /\ Here.off \in Int
      BY <1>1, <3>1 DEF Ordinary
    <3> QED BY <3>2, ArgsInt DEF Storage
  <2>2. regs[SP].n + Here.off \in Int
    <3>1. regs[SP].n \in Int
      BY <1>1, <2>1, RegularAt
    <3> QED BY <2>1, <3>1
  <2>3. FrameVal(regs[SP].n + Here.off) \in Val /\ FrameVal(regs[SP].n + Here.off).is = "frame"
    BY <2>2, Values
  <2>4. Regular([regs EXCEPT ![FP] = FrameVal(regs[SP].n + Here.off)])
    BY <1>1, <2>1, <2>3, RegularExcept
  <2> QED BY <1>1, <1>6, <2>4 DEF ExecSetFP
<1>7. CASE ExecCall
  <2>1. Step(Clobbered, {w \in mem : w[1] >= regs[SP].n})
    BY <1>7 DEF ExecCall, Clobbered
  <2>2. {w \in mem : w[1] >= regs[SP].n} \in SUBSET (Int \X Args)
    BY <1>1
  <2> QED BY <2>1, <2>2, ClobberedRegular
<1>8. CASE ExecStore
  <2>1. Here.op = "store"
    BY <1>8 DEF ExecStore
  <2>2. Regular(Bumped(regs))
    BY <1>1, <2>1, BumpedRegular
  <2> DEFINE spills == {m \in Here.moves : regs[m.reg].is = "arg"}
             M == {w \in mem : \A m \in Here.moves : w[1] # Addr(m)}
                    \cup {<<Addr(m), regs[m.reg].n>> : m \in spills}
  <2>3. \A m \in spills : Addr(m) \in Int /\ regs[m.reg].n \in Args
    <3> TAKE m \in spills
    <3>1. Addr(m) \in Int /\ m.reg \in Storage
      BY <2>1, AddrInt DEF Storage
    <3> QED BY <1>1, <3>1, RegularAt
  <2>4. M \in SUBSET (Int \X Args)
    BY <1>1, <2>3
  <2>5. Step(Bumped(regs), M) \/ Step(Bumped(regs), mem)
    BY <1>8 DEF ExecStore
  <2> QED BY <1>1, <2>2, <2>4, <2>5
<1>9. CASE ExecLoad
  <2>1. Here.op = "load" /\ Step(Bumped(Filled), mem)
    BY <1>9 DEF ExecLoad, Filled
  <2>2. Regular(Bumped(Filled))
    BY <1>1, <2>1, ClobberedRegular, BumpedRegular
  <2> QED BY <1>1, <2>1, <2>2
<1>10. CASE ExecUnseen
  <2>1. Here.op = "unseen" /\ Here.rd = SP
    BY <1>1, <1>10 DEF ExecUnseen, Ordinary
  <2>2. Step([regs EXCEPT ![SP].n = @ + Here.off], mem)
    BY <1>10, <2>1 DEF ExecUnseen
  <2>3. Regular([regs EXCEPT ![SP].n = @ + Here.off])
    BY <1>1, SPMoved DEF Ordinary
  <2> QED BY <1>1, <2>2, <2>3
<1> QED BY <1>2, <1>3, <1>4, <1>5, <1>6, <1>7, <1>8, <1>9, <1>10 DEF Execute

LEMMA ExecuteTypes ==
  ASSUME OrdinaryPrograms, TypeInv, Execute
  PROVE  TypeInv'
<1>1. CASE ExecReturn
  BY <1>1 DEF ExecReturn, analysis, machine, TypeInv, TypeOK, FactsTyped, Regular
<1>2. CASE ~ExecReturn
  <2>1. PICK R, M : Regular(R) /\ M \in SUBSET (Int \X Args) /\ Step(R, M)
    BY <1>2, ExecuteSteps
  <2> QED BY <2>1, StepTypes
<1> QED BY <1>1, <1>2

LEMMA NextTypes ==
  ASSUME OrdinaryPrograms, TypeInv, [Next]_vars
  PROVE  TypeInv'
<1>1. CASE Visit
  BY <1>1, VisitTypes
<1>2. CASE EndPass
  <2>1. UNCHANGED <<prog, phase, st, valid, table, locs, pc, regs, mem>>
    BY <1>2 DEF EndPass, machine
  <2>2. idx' \in 0..(Guard + 1) /\ pass' \in 0..MaxPasses
    BY <1>2, FlowAssumption DEF EndPass, TypeInv, TypeOK, FlowAssumption
  <2>3. changed' \in BOOLEAN
    BY <1>2 DEF EndPass
  <2> QED BY <2>1, <2>2, <2>3 DEF TypeInv, TypeOK, FactsTyped, Regular
<1>3. CASE Report
  BY <1>3, ReportTypes
<1>4. CASE Unreachable
  BY <1>4 DEF Unreachable, analysis, machine, TypeInv, TypeOK, FactsTyped, Regular
<1>5. CASE Execute
  BY <1>5, ExecuteTypes
<1>6. CASE UNCHANGED vars
  BY <1>6 DEF vars, analysis, machine, TypeInv, TypeOK, FactsTyped, Regular
<1> QED BY <1>1, <1>2, <1>3, <1>4, <1>5, <1>6 DEF Next, Analyse

\* Every variable of analysis and processor has its type, and the slot table
\* keeps to MAX_SLOTS (analysis.c 59-72, 336-414).
THEOREM FlowTyped ==
  ASSUME OrdinaryPrograms
  PROVE  Spec => []TypeOK
<1>1. Init => TypeInv
  BY InitTypes
<1>2. TypeInv /\ [Next]_vars => TypeInv'
  BY NextTypes
<1>3. TypeInv => TypeOK
  BY DEF TypeInv
<1> QED BY <1>1, <1>2, <1>3, PTL DEF Spec

(***************************************************************************)
(* The passes end at a fixpoint.                                           *)
(***************************************************************************)
\* The analysis was not cut short: its last pass changed nothing.  The code does
\* not test this; it is taken of a function that MAX_PASSES passes suffice.
PassesSuffice == phase = "run" => ~changed

\* All that instruction s hands on is recorded.
Fixed(s) == \A t \in Succ(s) : t \in valid /\ st[t] \subseteq Transfer(prog[s], st[s])

\* In a pass that has changed nothing yet, the instructions visited are settled.
FixInv ==
  ~changed => /\ phase = "analyse" => \A s \in valid : s < idx => Fixed(s)
              /\ phase = "run" => \A s \in valid : Fixed(s)

\* What neither the processor nor the end of the analysis changes.
LEMMA FixedKept ==
  ASSUME UNCHANGED <<prog, st, valid>>, NEW s, Fixed(s)
  PROVE  Fixed(s)'
BY DEF Fixed, Succ

LEMMA VisitFixes ==
  ASSUME OrdinaryPrograms, TypeInv, FixInv, Visit
  PROVE  FixInv'
<1> SUFFICES ASSUME ~changed' PROVE \A s \in valid' : s < idx' => Fixed(s)'
  BY DEF FixInv, Visit
<1>1. phase = "analyse" /\ idx' = idx + 1 /\ prog' = prog /\ idx \in Int
  BY DEF Visit, TypeInv, TypeOK
<1>2. CASE idx \notin valid
  <2>1. UNCHANGED <<prog, st, valid>> /\ ~changed
    BY <1>2 DEF Visit
  <2>2. valid \subseteq Int
    BY FlowAssumption DEF TypeInv, TypeOK, Window, FlowAssumption
  <2>3. \A s \in valid' : s < idx' => s < idx /\ s \in valid
    BY <1>1, <1>2, <2>1, <2>2
  <2>4. \A s \in valid : s < idx => Fixed(s)
    BY <1>1, <2>1 DEF FixInv
  <2> QED BY <2>1, <2>3, <2>4, FixedKept
<1>3. CASE idx \in valid
  <2>1. PICK out : /\ Handed(out)
                   /\ st' = [s \in Window |-> IF s \in Succ(idx) THEN Meet(s, out) ELSE st[s]]
                   /\ valid' = valid \cup Succ(idx)
                   /\ changed' = (changed \/ \E s \in Succ(idx) : Grew(s, out))
    BY <1>3, VisitHands
  <2>2. ~changed /\ \A s \in Succ(idx) : ~Grew(s, out)
    BY <2>1
  <2>3. \A s \in Succ(idx) : s \in valid /\ st[s] \cap out = st[s]
    BY <2>2 DEF Grew, Meet
  <2>4. valid' = valid
    BY <2>1, <2>3
  <2>5. \A s \in Window : st'[s] = st[s]
    BY <2>1, <2>3 DEF Meet
  <2>6. out \subseteq Transfer(prog[idx], st[idx])
    BY <1>3, <2>1, HandedFacts
  <2>7. Fixed(idx)
    BY <2>3, <2>6 DEF Fixed
  <2>8. \A s \in valid : s < idx => Fixed(s)
    BY <1>1, <2>2 DEF FixInv
  <2>9. valid \subseteq Window /\ \A s \in Window : s \in Int
    BY FlowAssumption DEF TypeInv, TypeOK, Window, FlowAssumption
  <2>10. \A s \in valid : Fixed(s) => Fixed(s)'
    <3> TAKE s \in valid
    <3>1. Succ(s)' = Succ(s) /\ Succ(s) \subseteq Window
      BY <1>1 DEF Succ
    <3>2. (Transfer(prog[s], st[s]))' = Transfer(prog[s], st[s])
      BY <1>1, <2>5, <2>9
    <3> QED BY <2>4, <2>5, <3>1, <3>2 DEF Fixed
  <2>11. \A s \in valid' : s < idx' => s < idx \/ s = idx
    BY <1>1, <2>4, <2>9
  <2> QED BY <2>4, <2>7, <2>8, <2>10, <2>11
<1> QED BY <1>2, <1>3

LEMMA NextFixes ==
  ASSUME OrdinaryPrograms, TypeInv, FixInv, [Next]_vars
  PROVE  FixInv'
<1>1. CASE Visit
  BY <1>1, VisitFixes
<1>2. CASE EndPass
  BY <1>2, FlowAssumption DEF EndPass, FixInv, TypeInv, TypeOK, Window, FlowAssumption
<1>3. CASE Report \/ Unreachable
  <2>1. UNCHANGED <<prog, st, valid, idx, changed>> /\ phase = "analyse" /\ idx = Guard + 1
        /\ phase' # "analyse"
    BY <1>3 DEF Report, Unreachable, Finished, analysis
  <2>2. \A s \in valid : s < idx
    BY <2>1, FlowAssumption DEF TypeInv, TypeOK, Window, FlowAssumption
  <2> QED BY <2>1, <2>2, FixedKept DEF FixInv
<1>4. CASE Execute
  <2>1. UNCHANGED <<prog, st, valid, changed>> /\ phase = "run" /\ phase' # "analyse"
    BY <1>4 DEF Execute, ExecBranch, ExecReturn, ExecMov, ExecSet, ExecUnseen, ExecAddSP, ExecSetFP,
                ExecCall, ExecStore, ExecLoad, Step, Goto, analysis
  <2> QED BY <2>1, FixedKept DEF FixInv
<1>5. CASE UNCHANGED vars
  BY <1>5 DEF vars, analysis, FixInv, Fixed, Succ
<1> QED BY <1>1, <1>2, <1>3, <1>4, <1>5 DEF Next, Analyse

\* When the last pass changed nothing, no path of the window brings fewer facts to
\* an instruction than are recorded there, whatever facts a full table lost on
\* the way (analysis.c 336-414).
THEOREM Fixpoint ==
  ASSUME OrdinaryPrograms
  PROVE  Spec /\ []PassesSuffice => []Converged
<1>1. Init => TypeInv /\ FixInv
  <2> SUFFICES ASSUME Init PROVE TypeInv /\ FixInv
    OBVIOUS
  <2>1. valid = {0} /\ idx = 0 /\ phase = "analyse"
    BY DEF Init
  <2> QED BY <2>1, InitTypes DEF FixInv
<1>2. TypeInv /\ FixInv /\ [Next]_vars => (TypeInv /\ FixInv)'
  BY NextTypes, NextFixes
<1>3. FixInv /\ PassesSuffice => Converged
  BY DEF FixInv, PassesSuffice, Converged, Fixed
<1> QED BY <1>1, <1>2, <1>3, PTL DEF Spec

(***************************************************************************)
(* transfer follows the processor.                                         *)
(***************************************************************************)
\* The processor is in a state in which the recorded facts S hold, about to execute
\* an instruction that keeps spilled arguments; a stack word holds one argument.
Functional(M) == \A v, w \in M : v[1] = w[1] => v = w
Running(S) ==
  /\ OrdinaryPrograms /\ TypeInv /\ FrameStable
  /\ S \in SUBSET Facts /\ Sound(S, regs, mem)

\* A fact about a register that is not written stays true while words are added.
LEMMA FactKept ==
  ASSUME NEW f, NEW R, NEW M, NEW Q, NEW N,
         HoldsIn(f, R, M), R[f.reg] = Q[f.reg], M \subseteq N
  PROVE  HoldsIn(f, Q, N)
BY DEF HoldsIn

LEMMA RunningFacts ==
  ASSUME NEW S, Running(S), NEW f \in S
  PROVE  /\ f \in Facts /\ f.reg \in Storage /\ f.off \in Int /\ f.arg \in Args
         /\ f.in \in {"reg", "slot"} /\ HoldsIn(f, regs, mem)
BY DEF Running, Sound, Facts

LEMMA RunningState ==
  ASSUME NEW S, Running(S)
  PROVE  /\ Regular(regs) /\ regs \in RegFile /\ DOMAIN regs = Storage
         /\ \A r \in Storage : regs[r].n \in Int
         /\ regs[SP].is = "frame" /\ SP \in Storage /\ SP \notin Reg
         /\ Ordinary(Here) /\ mem \in SUBSET (Int \X Args)
<1>1. Regular(regs) /\ mem \in SUBSET (Int \X Args) /\ Ordinary(Here)
  BY HereOrdinary DEF Running, TypeInv, TypeOK
<1>2. SP \in Storage /\ SP \notin Reg
  BY ArgsInt DEF Storage
<1>3. \A r \in Storage : regs[r].n \in Int
  BY <1>1, RegularAt
<1> QED BY <1>1, <1>2, <1>3 DEF Regular, RegFile

\* What a register fact and a slot fact say.
LEMMA InRegHolds ==
  ASSUME NEW r, NEW k, NEW R, NEW M
  PROVE  HoldsIn(InReg(r, k), R, M) <=> R[r] = ArgVal(k)
BY DEF HoldsIn, InReg

LEMMA InSlotHolds ==
  ASSUME NEW b, NEW n, NEW k, NEW R, NEW M
  PROVE  HoldsIn(InSlot(b, n, k), R, M) <=> R[b].is = "frame" /\ <<R[b].n + n, k>> \in M
BY DEF HoldsIn, InSlot

\* A register that holds an argument does not point into the frame.
LEMMA ArgNotFrame == \A k : ArgVal(k).is # "frame"
BY DEF ArgVal

LEMMA MovSound ==
  ASSUME NEW S, Running(S), ExecMov
  PROVE  Sound(Direct(Here, S), [regs EXCEPT ![Here.rd] = regs[Here.rn]], mem)
<1> DEFINE R == [regs EXCEPT ![Here.rd] = regs[Here.rn]]
<1>1. Here.op = "mov" /\ Here.rd \in Storage /\ Here.rn \in Storage
  BY RunningState DEF ExecMov, Ordinary
<1>2. \A r \in Storage : r # Here.rd => R[r] = regs[r]
  BY RunningState
<1>3. R[Here.rd] = regs[Here.rn]
  BY <1>1, RunningState
<1>4. \A f \in S : f.reg # Here.rd => HoldsIn(f, R, mem)
  <2> TAKE f \in S
  <2> HAVE f.reg # Here.rd
  <2>1. R[f.reg] = regs[f.reg] /\ HoldsIn(f, regs, mem)
    BY <1>2, RunningFacts
  <2> HIDE DEF R
  <2> QED BY <2>1, FactKept
<1> HIDE DEF R
<1>5. CASE Here.rd = SP
  <2>1. Direct(Here, S) = KillSlots(S, SP)
    BY <1>1, <1>5 DEF Direct, AfterMov
  <2>2. \A f \in S : f.in = "slot" \/ f.reg # SP
    <3> TAKE f \in S
    <3>1. f.in # "slot" /\ f.reg = SP => regs[SP] = ArgVal(f.arg)
      BY RunningFacts DEF HoldsIn
    <3> QED BY <3>1, RunningFacts, RunningState, ArgNotFrame
  <2>3. \A f \in KillSlots(S, SP) : f \in S /\ f.reg # SP
    BY <2>2 DEF KillSlots, SlotFact
  <2> QED BY <1>4, <1>5, <2>1, <2>3 DEF Sound, R
<1>6. CASE Here.rd # SP
  <2>1. Direct(Here, S) = Overwrite(S, Here.rd) \cup {InReg(Here.rd, k) : k \in ArgsInReg(S, Here.rn)}
    BY <1>1, <1>6 DEF Direct, AfterMov
  <2>2. \A f \in Overwrite(S, Here.rd) : f \in S /\ f.reg # Here.rd
    <3>1. \A f \in S : f.in \in {"reg", "slot"}
      BY RunningFacts
    <3> QED BY <3>1 DEF Overwrite, KillSlots, KillReg, SlotFact, RegFact
  <2>3. \A k \in ArgsInReg(S, Here.rn) : HoldsIn(InReg(Here.rd, k), R, mem)
    <3> TAKE k \in ArgsInReg(S, Here.rn)
    <3>1. InReg(Here.rn, k) \in S
      BY DEF ArgsInReg
    <3>2. regs[Here.rn] = ArgVal(k)
      BY <3>1, RunningFacts, InRegHolds
    <3> QED BY <1>3, <3>2, InRegHolds DEF R
  <2> QED BY <1>4, <2>1, <2>2, <2>3 DEF Sound, R
<1> QED BY <1>5, <1>6

LEMMA SetSound ==
  ASSUME NEW S, Running(S), ExecSet
  PROVE  Sound(Direct(Here, S), [regs EXCEPT ![Here.rd] = Other], mem)
<1> DEFINE R == [regs EXCEPT ![Here.rd] = Other]
<1>1. Here.op = "set" /\ Direct(Here, S) = Overwrite(S, Here.rd)
  BY DEF ExecSet, Direct
<1>2. \A f \in Overwrite(S, Here.rd) : f \in S /\ f.reg # Here.rd
  <2>1. \A f \in S : f.in \in {"reg", "slot"}
    BY RunningFacts
  <2> QED BY <2>1 DEF Overwrite, KillSlots, KillReg, SlotFact, RegFact
<1>3. \A f \in Overwrite(S, Here.rd) : R[f.reg] = regs[f.reg] /\ HoldsIn(f, regs, mem)
  BY <1>2, RunningFacts, RunningState
<1> HIDE DEF R
<1>4. \A f \in Overwrite(S, Here.rd) : HoldsIn(f, R, mem)
  BY <1>3, FactKept
<1> QED BY <1>1, <1>4 DEF Sound, R

\* While sp is moved unseen no argument is spilled, so nothing is recorded
\* that depends on sp.
LEMMA UnseenSound ==
  ASSUME NEW S, Running(S), ExecUnseen
  PROVE  Sound(Direct(Here, S), [regs EXCEPT ![SP].n = @ + Here.off], mem)
<1> DEFINE R == [regs EXCEPT ![SP].n = @ + Here.off]
<1>1. Direct(Here, S) = S /\ mem = {}
  BY DEF ExecUnseen, Direct, Running
<1>2. ASSUME NEW f \in S PROVE HoldsIn(f, R, mem)
  <2>1. HoldsIn(f, regs, mem) /\ f.in = "reg"
    BY <1>1, RunningFacts DEF HoldsIn
  <2>2. f.reg # SP
    BY <2>1, RunningState, ArgNotFrame DEF HoldsIn
  <2>3. R[f.reg] = regs[f.reg]
    BY <2>2, RunningFacts, RunningState
  <2> HIDE DEF R
  <2> QED BY <2>1, <2>3, FactKept
<1> QED BY <1>1, <1>2 DEF Sound

LEMMA AddSPSound ==
  ASSUME NEW S, Running(S), ExecAddSP
  PROVE  Sound(Direct(Here, S), [regs EXCEPT ![SP].n = @ + Here.off], mem)
<1> DEFINE R == [regs EXCEPT ![SP].n = @ + Here.off]
<1>1. Here.op = "addsp" /\ Here.off \in Int /\ Here.imm = Unsigned(Here.off)
  BY RunningState DEF ExecAddSP, Ordinary
<1>2. Direct(Here, S) = Rebase(S, SP, Here.off)
  <2>1. (IF Here.off < 0 THEN -Here.imm ELSE Here.imm) = Here.off
    BY <1>1 DEF Unsigned
  <2> QED BY <1>1, <2>1 DEF Direct, AfterAddSP
<1>3. R[SP].is = "frame" /\ R[SP].n = regs[SP].n + Here.off /\ regs[SP].n \in Int
  <2>1. regs[SP] \in Val
    BY RunningState, RegularAt
  <2> QED BY <2>1, RunningState DEF Val
<1>4. \A r \in Storage : r # SP => R[r] = regs[r]
  BY RunningState
<1> HIDE DEF R
<1>5. ASSUME NEW f \in S, SlotFact(f, SP)
      PROVE  HoldsIn([f EXCEPT !.off = @ - Here.off], R, mem)
  <2> DEFINE g == [f EXCEPT !.off = @ - Here.off]
  <2>1. f \in Facts /\ f.off \in Int /\ HoldsIn(f, regs, mem) /\ f.in = "slot" /\ f.reg = SP
    BY <1>5, RunningFacts DEF SlotFact
  <2>2. <<regs[SP].n + f.off, f.arg>> \in mem
    BY <2>1 DEF HoldsIn
  <2>3. g.in = "slot" /\ g.reg = SP /\ g.off = f.off - Here.off /\ g.arg = f.arg
    BY <2>1 DEF Facts
  <2> HIDE DEF g
  <2>4. R[SP].n + g.off = regs[SP].n + f.off
    BY <1>1, <1>3, <2>1, <2>3
  <2>5. HoldsIn(g, R, mem)
    BY <1>3, <2>2, <2>3, <2>4 DEF HoldsIn
  <2> QED BY <2>5 DEF g
<1>6. ASSUME NEW f \in S, ~SlotFact(f, SP)
      PROVE  HoldsIn(f, R, mem)
  <2>1. f.reg \in Storage /\ HoldsIn(f, regs, mem) /\ f.in \in {"reg", "slot"}
    BY RunningFacts
  <2>2. f.reg # SP
    <3>1. f.in = "reg" /\ f.reg = SP => regs[SP] = ArgVal(f.arg)
      BY <2>1 DEF HoldsIn
    <3> QED BY <1>6, <2>1, <3>1, RunningState, ArgNotFrame DEF SlotFact
  <2> QED BY <1>4, <2>1, <2>2, FactKept
<1>7. \A g \in Rebase(S, SP, Here.off) : HoldsIn(g, R, mem)
  BY <1>5, <1>6 DEF Rebase
<1> QED BY <1>2, <1>7 DEF Sound, R

LEMMA SetFPSound ==
  ASSUME NEW S, Running(S), ExecSetFP
  PROVE  Sound(Direct(Here, S), [regs EXCEPT ![FP] = FrameVal(regs[SP].n + Here.off)], mem)
<1> DEFINE R == [regs EXCEPT ![FP] = FrameVal(regs[SP].n + Here.off)]
           new == {InSlot(FP, f.off - Here.imm, f.arg) : f \in {g \in S : SlotFact(g, SP)}}
<1>1. Here.op = "setfp"
  BY DEF ExecSetFP
<1>2. Here.off \in Int /\ Here.imm = Here.off /\ FP \in Storage
  BY <1>1, RunningState DEF Ordinary, Storage
<1>3. Direct(Here, S) = KillReg(S, FP) \cup new
  BY <1>1 DEF Direct, AfterSetFP
<1>4. regs[FP].is # "frame"
  BY DEF ExecSetFP, Running
<1>5. R[FP] = FrameVal(regs[SP].n + Here.off) /\ \A r \in Storage : r # FP => R[r] = regs[r]
  BY <1>2, RunningState
<1> HIDE DEF R
<1>6. R[FP].is = "frame" /\ R[FP].n = regs[SP].n + Here.off /\ regs[SP].n \in Int
  BY <1>5, RunningState DEF FrameVal
<1>7. ASSUME NEW f \in KillReg(S, FP)
      PROVE  HoldsIn(f, R, mem)
  <2>1. f \in S /\ ~RegFact(f, FP)
    BY DEF KillReg
  <2>2. f.reg \in Storage /\ HoldsIn(f, regs, mem) /\ f.in \in {"reg", "slot"}
    BY <2>1, RunningFacts
  <2>3. f.reg # FP
    BY <1>4, <2>1, <2>2 DEF HoldsIn, RegFact
  <2> QED BY <1>5, <2>2, <2>3, FactKept
<1>8. ASSUME NEW f \in S, SlotFact(f, SP)
      PROVE  HoldsIn(InSlot(FP, f.off - Here.imm, f.arg), R, mem)
  <2>1. f.off \in Int /\ <<regs[SP].n + f.off, f.arg>> \in mem
    BY <1>8, RunningFacts DEF SlotFact, HoldsIn
  <2>2. R[FP].n + (f.off - Here.imm) = regs[SP].n + f.off
    BY <1>2, <1>6, <2>1
  <2> QED BY <1>6, <2>1, <2>2, InSlotHolds
<1> QED BY <1>3, <1>7, <1>8 DEF Sound, R

LEMMA CallSound ==
  ASSUME NEW S, Running(S), ExecCall, NEW N, mem \subseteq N
  PROVE  Sound(Direct(Here, S), Clobbered, N)
<1>1. Direct(Here, S) = {f \in S : f.reg \notin CallerSaved}
  BY DEF ExecCall, Direct, AfterCall
<1>2. \A f \in S : f.reg \notin CallerSaved =>
                     Clobbered[f.reg] = regs[f.reg] /\ HoldsIn(f, regs, mem)
  BY RunningFacts, RunningState DEF Clobbered
<1>3. \A f \in S : f.reg \notin CallerSaved => HoldsIn(f, Clobbered, N)
  BY <1>2, FactKept
<1> QED BY <1>1, <1>3 DEF Sound

\* The words a store leaves, and those among them that are new.
Spilled == {m \in Here.moves : regs[m.reg].is = "arg"}
Stored == {w \in mem : \A m \in Here.moves : w[1] # Addr(m)}
            \cup {<<Addr(m), regs[m.reg].n>> : m \in Spilled}

LEMMA StoreSound ==
  ASSUME NEW S, Running(S), Here.op = "store", NEW N, mem \subseteq N,
         \/ Base.is = "frame" /\ N = Stored
         \/ Base.is # "frame" /\ Spilled = {}
  PROVE  Sound(Direct(Here, S), regs, N)
<1> DEFINE new == UNION {{InSlot(Here.rn, Eff(Here) + m.at, k) : k \in ArgsInReg(S, m.reg)} :
                           m \in Spills(Here, S)}
<1>1. Direct(Here, S) \subseteq S \cup new
  BY DEF Direct, AfterStore
<1>2. \A f \in S : HoldsIn(f, regs, N)
  BY RunningFacts, FactKept
<1>3. ASSUME NEW m \in Spills(Here, S), NEW k \in ArgsInReg(S, m.reg)
      PROVE  HoldsIn(InSlot(Here.rn, Eff(Here) + m.at, k), regs, N)
  <2>1. m \in Here.moves /\ InReg(m.reg, k) \in S
    BY <1>3 DEF Spills, ArgsInReg
  <2>2. regs[m.reg] = ArgVal(k)
    BY <2>1, RunningFacts, InRegHolds
  <2>3. m \in Spilled /\ regs[m.reg].n = k
    BY <2>1, <2>2 DEF Spilled, ArgVal
  <2>4. Base.is = "frame" /\ <<Addr(m), k>> \in N
    BY <2>3 DEF Stored
  <2>5. regs[Here.rn].n + (Eff(Here) + m.at) = Addr(m)
    <3>1. m.at \in Int /\ Base.n \in Int /\ Eff(Here) \in Int
      BY <2>1, AddrInt DEF Running
    <3> QED BY <3>1 DEF Addr, Base
  <2> QED BY <2>4, <2>5, InSlotHolds DEF Base
<1>4. \A f \in new : HoldsIn(f, regs, N)
  BY <1>3
<1> QED BY <1>1, <1>2, <1>4 DEF Sound

LEMMA LoadSound ==
  ASSUME NEW S, Running(S), Here.op = "load", Functional(mem)
  PROVE  Sound(Direct(Here, S), Filled, mem)
<1> DEFINE kept == {f \in S : f.reg \notin Loaded(Here)}
           new == UNION {{InReg(m.reg, k) : k \in ArgsInSlot(S, Here.rn, Eff(Here) + m.at)} :
                           m \in Here.moves}
<1>1. Direct(Here, S) = kept \cup new
  BY DEF Direct, AfterLoad
<1>2. \A f \in kept : HoldsIn(f, Filled, mem)
  <2>1. \A f \in kept : Filled[f.reg] = regs[f.reg] /\ HoldsIn(f, regs, mem)
    BY RunningFacts, RunningState DEF Filled
  <2> QED BY <2>1, FactKept
<1>3. ASSUME NEW m \in Here.moves, NEW k \in ArgsInSlot(S, Here.rn, Eff(Here) + m.at)
      PROVE  HoldsIn(InReg(m.reg, k), Filled, mem)
  <2>1. InSlot(Here.rn, Eff(Here) + m.at, k) \in S /\ k \in Args
    BY <1>3 DEF ArgsInSlot
  <2>2. Base.is = "frame" /\ <<Base.n + (Eff(Here) + m.at), k>> \in mem
    BY <2>1, RunningFacts, InSlotHolds DEF Base
  <2>3. Base.n + (Eff(Here) + m.at) = Addr(m) /\ m.reg \in Reg
    <3>1. m.reg \in Reg /\ m.at \in Int /\ Base.n \in Int /\ Eff(Here) \in Int
      BY <1>3, AddrInt DEF Running
    <3> QED BY <3>1 DEF Addr
  <2>4. (CHOOSE n \in Here.moves : n.reg = m.reg) = m
    BY <1>3, RunningState DEF Ordinary
  <2>5. m.reg \in Loaded(Here) /\ m.reg \in DOMAIN regs
    BY <1>3, <2>3, RunningState DEF Loaded, Storage
  <2>6. Filled[m.reg] = InMem(Addr(m))
    BY <2>2, <2>4, <2>5 DEF Filled
  <2>7. (CHOOSE l \in Args : <<Addr(m), l>> \in mem) = k
    <3>1. <<Addr(m), k>> \in mem
      BY <2>2, <2>3
    <3>2. \A l \in Args : <<Addr(m), l>> \in mem => l = k
      BY <3>1 DEF Functional
    <3> QED BY <2>1, <3>1, <3>2
  <2>8. InMem(Addr(m)) = ArgVal(k)
    BY <2>1, <2>2, <2>3, <2>7 DEF InMem
  <2> QED BY <2>6, <2>8, InRegHolds
<1>4. \A f \in new : HoldsIn(f, Filled, mem)
  BY <1>3
<1> QED BY <1>1, <1>2, <1>4 DEF Sound

\* The write-back: facts through the base register follow it.
LEMMA WriteBackSound ==
  ASSUME OrdinaryPrograms, TypeInv, Here.op \in {"store", "load"},
         NEW D \in SUBSET Facts, NEW R, R \in RegFile, NEW M, Sound(D, R, M),
         \A f \in D : SlotFact(f, Here.rn) => R[Here.rn] = Base
  PROVE  Sound(WriteBack(D, Here), Bumped(R), M)
<1> DEFINE b == Here.rn
           Q == Bumped(R)
<1>1. b \in Storage /\ Here.off \in Int /\ Base.n \in Int
  BY HereOrdinary, RegularAt DEF Ordinary, TypeInv, Base
<1>2. \A r \in Storage : r # b => Q[r] = R[r]
  BY DEF Bumped, RegFile
<1>3. WritesBack(Here) /\ Base.is = "frame" => Q[b].is = "frame" /\ Q[b].n = Base.n + Here.off
  BY <1>1 DEF Bumped, RegFile, FrameVal
<1>4. ~WritesBack(Here) => Q = R
  BY DEF Bumped
<1> HIDE DEF Q
<1>5. CASE ~WritesBack(Here)
  BY <1>4, <1>5 DEF WriteBack, Q
<1>6. CASE WritesBack(Here)
  <2>1. ASSUME NEW f \in D, SlotFact(f, b)
        PROVE  HoldsIn([f EXCEPT !.off = @ - Here.off], Q, M)
    <3> DEFINE g == [f EXCEPT !.off = @ - Here.off]
    <3>1. f \in Facts /\ f.off \in Int /\ HoldsIn(f, R, M) /\ f.in = "slot" /\ f.reg = b
      BY <2>1 DEF Facts, Sound, SlotFact
    <3>2. Base.is = "frame" /\ <<Base.n + f.off, f.arg>> \in M
      BY <2>1, <3>1 DEF HoldsIn
    <3>3. g.in = "slot" /\ g.reg = b /\ g.off = f.off - Here.off /\ g.arg = f.arg
      BY <3>1 DEF Facts
    <3>4. Q[b].is = "frame" /\ Q[b].n = Base.n + Here.off
      BY <1>3, <1>6, <3>2
    <3> HIDE DEF g
    <3>5. Q[b].n + g.off = Base.n + f.off
      BY <1>1, <3>1, <3>3, <3>4
    <3>6. HoldsIn(g, Q, M)
      BY <3>2, <3>3, <3>4, <3>5 DEF HoldsIn
    <3> QED BY <3>6 DEF g
  <2>2. ASSUME NEW f \in D, ~SlotFact(f, b), ~RegFact(f, b)
        PROVE  HoldsIn(f, Q, M)
    <3>1. f.reg \in Storage /\ f.reg # b /\ HoldsIn(f, R, M)
      BY <2>2 DEF Facts, SlotFact, RegFact, Sound
    <3> QED BY <1>2, <3>1, FactKept
  <2>3. \A f \in D : SlotFact(f, b) => ~RegFact([f EXCEPT !.off = @ - Here.off], b)
    BY DEF Facts, SlotFact, RegFact
  <2>4. WriteBack(D, Here) = {g \in Rebase(D, b, Here.off) : ~RegFact(g, b)}
    BY <1>6 DEF WriteBack, KillReg
  <2>5. \A g \in WriteBack(D, Here) : HoldsIn(g, Q, M)
    BY <2>1, <2>2, <2>4 DEF Rebase
  <2> QED BY <2>5 DEF Sound, Q
<1> QED BY <1>5, <1>6

\* Other instructions have no write-back.
LEMMA PlainTransfer ==
  ASSUME NEW S, Running(S), Here.op \notin {"store", "load"}
  PROVE  Transfer(Here, S) = Direct(Here, S)
BY RunningState DEF Ordinary, Transfer, WriteBack, WritesBack

\* Whatever the instruction, what transfer makes of facts that hold before it holds
\* behind it.
LEMMA ExecuteSound ==
  ASSUME NEW S, Running(S), Functional(mem), Execute, ~ExecReturn
  PROVE  Sound(Transfer(Here, S), regs', mem') /\ Functional(mem')
<1>1. Ordinary(Here) /\ Regular(regs) /\ regs \in RegFile
  BY RunningState
<1>2. \A R, M : Step(R, M) => regs' = R /\ mem' = M /\ mem \subseteq M
  BY DEF Step, Running
<1>3. CASE ExecBranch
  <2>1. Here.op \in {"nop", "jump", "jumpif", "br"} /\ regs' = regs /\ mem' = mem
    BY <1>2, <1>3 DEF ExecBranch
  <2>2. Direct(Here, S) = S
    BY <2>1 DEF Direct
  <2> QED BY <2>1, <2>2, PlainTransfer DEF Running
<1>4. CASE ExecMov
  <2>1. Here.op = "mov" /\ regs' = [regs EXCEPT ![Here.rd] = regs[Here.rn]] /\ mem' = mem
    BY <1>2, <1>4 DEF ExecMov
  <2> QED BY <1>4, <2>1, MovSound, PlainTransfer
<1>5. CASE ExecSet
  <2>1. Here.op = "set" /\ regs' = [regs EXCEPT ![Here.rd] = Other] /\ mem' = mem
    BY <1>2, <1>5 DEF ExecSet
  <2> QED BY <1>5, <2>1, SetSound, PlainTransfer
<1>6. CASE ExecAddSP
  <2>1. Here.op = "addsp" /\ regs' = [regs EXCEPT ![SP].n = @ + Here.off] /\ mem' = mem
    BY <1>2, <1>6 DEF ExecAddSP
  <2> QED BY <1>6, <2>1, AddSPSound, PlainTransfer
<1>7. CASE ExecSetFP
  <2>1. Here.op = "setfp" /\ mem' = mem
        /\ regs' = [regs EXCEPT ![FP] = FrameVal(regs[SP].n + Here.off)]
    BY <1>2, <1>7 DEF ExecSetFP
  <2> QED BY <1>7, <2>1, SetFPSound, PlainTransfer
<1>8. CASE ExecCall
  <2> DEFINE N == {w \in mem : w[1] >= regs[SP].n}
  <2>1. Here.op = "call" /\ regs' = Clobbered /\ mem' = N /\ mem \subseteq N
    BY <1>2, <1>8 DEF ExecCall, Clobbered
  <2> HIDE DEF N
  <2>2. Sound(Direct(Here, S), Clobbered, N)
    BY <1>8, <2>1, CallSound
  <2>3. Functional(N)
    BY DEF Functional, N
  <2> QED BY <2>1, <2>2, <2>3, PlainTransfer
<1>9. CASE ExecStore
  <2>1. Here.op = "store"
    BY <1>9 DEF ExecStore
  <2>2. PICK N : /\ regs' = Bumped(regs) /\ mem' = N /\ mem \subseteq N
                 /\ \/ Base.is = "frame" /\ N = Stored
                    \/ Base.is # "frame" /\ Spilled = {} /\ N = mem
    <3>1. CASE Base.is = "frame"
      <4>1. Step(Bumped(regs), Stored)
        BY <1>9, <3>1 DEF ExecStore, Stored, Spilled
      <4> QED BY <1>2, <3>1, <4>1
    <3>2. CASE Base.is # "frame"
      <4>1. Step(Bumped(regs), mem) /\ Spilled = {}
        BY <1>9, <3>2 DEF ExecStore, Spilled, Running
      <4> QED BY <1>2, <3>2, <4>1
    <3> QED BY <3>1, <3>2
  <2>3. Sound(Direct(Here, S), regs, N)
    BY <2>1, <2>2, StoreSound
  <2>4. Direct(Here, S) \in SUBSET Facts
    BY <1>1, DirectFacts DEF Running
  <2>5. Sound(Transfer(Here, S), Bumped(regs), N)
    BY <1>1, <2>1, <2>3, <2>4, WriteBackSound DEF Transfer, Running, Base
  <2>6. Functional(N)
    <3>1. CASE N = Stored
      <4>1. \A m, n \in Spilled : Addr(m) = Addr(n) => m = n
        <5> TAKE m, n \in Spilled
        <5>1. m \in Here.moves /\ n \in Here.moves
          BY DEF Spilled
        <5>2. m.at \in Int /\ n.at \in Int /\ Base.n \in Int /\ Eff(Here) \in Int
          BY <2>1, <5>1, AddrInt DEF Running
        <5>3. Addr(m) = Addr(n) => m.at = n.at
          BY <5>2 DEF Addr
        <5> QED BY <1>1, <2>1, <5>1, <5>3 DEF Ordinary
      <4>2. Spilled \subseteq Here.moves
        BY DEF Spilled
      <4> QED BY <3>1, <4>1, <4>2 DEF Functional, Stored
    <3> QED BY <2>2, <3>1
  <2> QED BY <2>2, <2>5, <2>6
<1>10. CASE ExecLoad
  <2>1. Here.op = "load" /\ regs' = Bumped(Filled) /\ mem' = mem
    BY <1>2, <1>10 DEF ExecLoad, Filled
  <2>2. Sound(Direct(Here, S), Filled, mem)
    BY <2>1, LoadSound
  <2>3. Direct(Here, S) \in SUBSET Facts
    BY <1>1, DirectFacts DEF Running
  <2>4. Filled \in RegFile
    BY <1>1, <2>1, ClobberedRegular DEF Running, Regular
  <2>5. \A f \in Direct(Here, S) : SlotFact(f, Here.rn) => Filled[Here.rn] = Base
    <3> TAKE f \in Direct(Here, S)
    <3> HAVE SlotFact(f, Here.rn)
    <3>1. Direct(Here, S) = {g \in S : g.reg \notin Loaded(Here)} \cup
             UNION {{InReg(m.reg, k) : k \in ArgsInSlot(S, Here.rn, Eff(Here) + m.at)} :
                      m \in Here.moves}
      BY <2>1 DEF Direct, AfterLoad
    <3>2. \A r, k : ~SlotFact(InReg(r, k), Here.rn)
      BY DEF SlotFact, InReg
    <3>3. Here.rn \notin Loaded(Here)
      BY <3>1, <3>2 DEF SlotFact
    <3>4. Here.rn \in Storage
      BY <1>1, <2>1 DEF Ordinary
    <3> QED BY <3>3, <3>4, RunningState DEF Filled, Base
  <2>6. Sound(Transfer(Here, S), Bumped(Filled), mem)
    BY <2>1, <2>2, <2>3, <2>4, <2>5, WriteBackSound DEF Transfer, Running
  <2> QED BY <2>1, <2>6
<1>11. CASE ExecUnseen
  <2>1. Here.op = "unseen" /\ Here.rd = SP
    BY <1>1, <1>11 DEF ExecUnseen, Ordinary
  <2>2. Step([regs EXCEPT ![SP].n = @ + Here.off], mem)
    BY <1>11, <2>1 DEF ExecUnseen
  <2>3. regs' = [regs EXCEPT ![SP].n = @ + Here.off] /\ mem' = mem
    BY <1>2, <2>2
  <2> QED BY <1>11, <2>1, <2>3, UnseenSound, PlainTransfer
<1> QED BY <1>3, <1>4, <1>5, <1>6, <1>7, <1>8, <1>9, <1>10, <1>11 DEF Execute

(***************************************************************************)
(* The places reported.                                                    *)
(***************************************************************************)
\* On entry no more is taken for known than the call itself gives; while the
\* function runs, the facts recorded before the instruction at pc hold.
EntryFacts == 0 \in valid /\ \A f \in st[0] : \E k \in Args : f = InReg(k, k)
EntryState == phase = "analyse" =>
                pc = 0 /\ mem = {} /\ \A k \in Args : regs[k] = ArgVal(k)
LocsRecorded == phase = "run" =>
                  \A k \in Args : locs[k] = Unknown \/ locs[k] \in st[Guard]
FactsHold == phase = "run" /\ pc <= Guard => pc \in valid /\ Sound(st[pc], regs, mem)
SoundInv == EntryFacts /\ EntryState /\ Functional(mem) /\ LocsRecorded /\ FactsHold

\* A step to an instruction of the window starts in the window.
LEMMA StaysInWindow ==
  ASSUME OrdinaryPrograms, TypeInv, ~LoopBack, ~TableJumps, NEW R, NEW M, Step(R, M),
         phase' = "run", pc' <= Guard
  PROVE  pc <= Guard /\ pc' \in Succ(pc)
<1>1. PICK t \in Goes(Here, pc) : /\ LoopBack \/ pc <= Guard \/ t > Guard
                                  /\ TableJumps \/ Here.op # "br" \/ t > Guard
                                  /\ Goto(t)
  BY DEF Step
<1>2. pc' = t /\ t \in DOMAIN prog
  BY <1>1 DEF Goto
<1>3. t \in Nat /\ pc \in Nat /\ Guard \in Nat
  BY <1>2, HereOrdinary, FlowAssumption DEF OrdinaryPrograms, TypeInv, FlowAssumption
<1>4. t \in Window
  BY <1>2, <1>3 DEF Window
<1>5. t \in Flow(Here, pc)
  BY <1>1, <1>2, <1>3 DEF Goes
<1> QED BY <1>1, <1>2, <1>3, <1>4, <1>5 DEF Succ, Here

LEMMA ExecuteKeeps ==
  ASSUME OrdinaryPrograms, FrameStable, ~LoopBack, ~TableJumps, TypeInv, FixInv, PassesSuffice,
         SoundInv, Execute
  PROVE  SoundInv'
<1>1. UNCHANGED <<prog, st, valid, locs>> /\ phase = "run" /\ phase' # "analyse"
  BY DEF Execute, ExecBranch, ExecReturn, ExecMov, ExecSet, ExecUnseen, ExecAddSP, ExecSetFP,
         ExecCall, ExecStore, ExecLoad, Step, Goto, analysis
<1>2. EntryFacts' /\ EntryState' /\ LocsRecorded'
  BY <1>1 DEF SoundInv, EntryFacts, EntryState, LocsRecorded
<1>3. CASE ExecReturn
  BY <1>2, <1>3 DEF ExecReturn, machine, SoundInv, Functional, FactsHold
<1>4. CASE ~ExecReturn
  <2>1. PICK R, M : Step(R, M)
    BY <1>4, ExecuteSteps
  <2>2. Functional(mem)'
    <3>1. Running({})
      BY DEF Running, Sound
    <3> QED BY <1>4, <3>1, ExecuteSound DEF SoundInv
  <2>3. ASSUME phase' = "run", pc' <= Guard
        PROVE  pc' \in valid /\ Sound(st[pc'], regs', mem')
    <3>1. pc <= Guard /\ pc' \in Succ(pc)
      BY <2>1, <2>3, StaysInWindow
    <3>2. pc \in valid /\ Sound(st[pc], regs, mem)
      BY <1>1, <3>1 DEF SoundInv, FactsHold
    <3>3. pc' \in valid /\ st[pc'] \subseteq Transfer(Here, st[pc])
      BY <1>1, <3>1, <3>2 DEF FixInv, PassesSuffice, Fixed, Here
    <3>4. Running(st[pc])
      BY <3>2 DEF Running, TypeInv, TypeOK, FactsTyped
    <3>5. Sound(Transfer(Here, st[pc]), regs', mem')
      BY <1>4, <3>4, ExecuteSound DEF SoundInv
    <3> QED BY <3>3, <3>5 DEF Sound
  <2> QED BY <1>1, <1>2, <2>2, <2>3 DEF SoundInv, FactsHold
<1> QED BY <1>3, <1>4

LEMMA NextSound ==
  ASSUME OrdinaryPrograms, FrameStable, ~LoopBack, ~TableJumps, TypeInv, FixInv, PassesSuffice,
         SoundInv, [Next]_vars
  PROVE  SoundInv'
<1>1. CASE Visit
  <2>1. UNCHANGED <<phase, locs, pc, regs, mem>> /\ phase = "analyse"
    BY <1>1 DEF Visit, machine
  <2>2. EntryFacts'
    <3>1. 0 \in Window
      BY FlowAssumption DEF Window, FlowAssumption
    <3>2. CASE idx \in valid
      <4>1. PICK out :
              /\ st' = [s \in Window |-> IF s \in Succ(idx) THEN Meet(s, out) ELSE st[s]]
              /\ valid' = valid \cup Succ(idx)
        BY <1>1, <3>2, VisitHands
      <4>2. 0 \in valid' /\ st'[0] \subseteq st[0]
        BY <3>1, <4>1 DEF Meet, SoundInv, EntryFacts
      <4> QED BY <4>2 DEF SoundInv, EntryFacts
    <3>3. CASE idx \notin valid
      BY <1>1, <3>3 DEF Visit, SoundInv, EntryFacts
    <3> QED BY <3>2, <3>3
  <2> QED BY <2>1, <2>2 DEF SoundInv, EntryState, Functional, LocsRecorded, FactsHold
<1>2. CASE EndPass \/ Unreachable
  BY <1>2 DEF EndPass, Unreachable, Finished, analysis, machine, SoundInv, EntryFacts,
              EntryState, Functional, LocsRecorded, FactsHold
<1>3. CASE Report
  <2>1. UNCHANGED <<st, valid, pc, regs, mem>> /\ phase = "analyse" /\ phase' # "analyse"
    BY <1>3 DEF Report, Finished, machine
  <2>2. \A k \in Args : locs'[k] = Unknown \/ locs'[k] \in st[Guard]
    <3> TAKE k \in Args
    <3>1. locs'[k] \in Places(k)
      BY <1>3 DEF Report
    <3> QED BY <3>1, PlacesRecorded DEF TypeInv
  <2>3. pc = 0 /\ Sound(st[0], regs, mem)
    BY <2>1, InRegHolds DEF SoundInv, EntryState, EntryFacts, Sound
  <2> QED BY <2>1, <2>2, <2>3 DEF SoundInv, EntryFacts, EntryState, Functional,
                                  LocsRecorded, FactsHold
<1>4. CASE Execute
  BY <1>4, ExecuteKeeps
<1>5. CASE UNCHANGED vars
  BY <1>5 DEF vars, analysis, machine, SoundInv, EntryFacts, EntryState, Functional,
              LocsRecorded, FactsHold
<1> QED BY <1>1, <1>2, <1>3, <1>4, <1>5 DEF Next, Analyse

LEMMA InitSound ==
  ASSUME OrdinaryPrograms, Init
  PROVE  SoundInv
<1>1. 0 \in Window
  BY FlowAssumption DEF Window, FlowAssumption
<1>2. \A k \in Args : k \in Storage
  BY ArgsInt DEF Storage
<1> QED BY <1>1, <1>2 DEF Init, SoundInv, EntryFacts, EntryState, Functional, LocsRecorded,
                          FactsHold, Storage

\* A wrong place is never handed to check: whenever control is at the guard, each
\* place reported holds its argument (src/README.md 33, analysis.c 10-12), for
\* every function of ordinary instructions that keeps its spilled arguments, has
\* no way up to the guard through a register or from behind it, and that
\* MAX_PASSES passes settle.
THEOREM PlacesHold ==
  ASSUME OrdinaryPrograms, FrameStable, ~LoopBack, ~TableJumps
  PROVE  Spec /\ []PassesSuffice => []LocationsHold
<1> DEFINE Inv == TypeInv /\ FixInv /\ SoundInv
<1>1. Init => Inv
  <2> SUFFICES ASSUME Init PROVE Inv
    OBVIOUS
  <2>1. valid = {0} /\ idx = 0 /\ phase = "analyse"
    BY DEF Init
  <2> QED BY <2>1, InitTypes, InitSound DEF FixInv
<1>2. Inv /\ PassesSuffice /\ [Next]_vars => Inv'
  BY NextTypes, NextFixes, NextSound
<1>3. Inv => LocationsHold
  <2> SUFFICES ASSUME Inv, phase = "run", pc = Guard, NEW k \in Args, locs[k] # Unknown
               PROVE  Holds(locs[k])
    BY DEF LocationsHold
  <2>1. locs[k] \in st[Guard] /\ Guard <= Guard
    BY FlowAssumption DEF SoundInv, LocsRecorded, FlowAssumption
  <2>2. HoldsIn(locs[k], regs, mem)
    BY <2>1 DEF SoundInv, FactsHold, Sound
  <2> QED BY <2>2 DEF HoldsIn, Holds
<1> QED BY <1>1, <1>2, <1>3, PTL DEF Spec
=============================================================================
