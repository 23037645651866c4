----------------------------- MODULE GuardedRun -----------------------------
(***************************************************************************)
(* Threads that execute a guarded function: the machine code emitted by    *)
(* instr_plan_guard and instr_plan_entry_snapshot (src/instr_plan.c), run  *)
(* on the registers and the stack of each thread.  The trampolines belong  *)
(* to this program; the function, its callers and check are external.      *)
(*                                                                         *)
(* Memory is counted in words of 8 bytes and sp is 0 when the function is  *)
(* called.  A value is a triple: a tag, a number, and the call or visit    *)
(* that it comes from.  What a thread does with its own registers and      *)
(* stack, between two accesses to the snapshot area, is one step.          *)
(***************************************************************************)
EXTENDS Integers

CONSTANTS
  Threads,    \* threads that call the function
  Modes,      \* "block" (instr_guard_block), "snap" (instr_guard_block_snap),
              \* "call" (is_call_guard: the guard is put on a single call)
  Overlapping,\* the modes in which calls of the function may overlap
  Layouts,    \* where analysis may find the arguments: functions on Args
  PairLoad,   \* what a pair load into one register leaves there: 0 for the
              \* first word, 1 for the second
  Frame,      \* words of the function's frame at the guard
  BaseAt,     \* the address in base registers of slots
  MaxCalls,   \* bound: calls of the function
  MaxVisits   \* bound: times a call reaches its guard

Args == 0..7
Reg == 0..30
IP0 == 16           \* x16, used by every jump of a patch or trampoline
CheckSpoils == (0..18) \cup {30}
ImmWords == 511     \* what fits the 12 bits of add and sub, in words
SaveWords == 74     \* TRAMP_SAVE_BYTES

Place == [kind : {"reg", "slot", "unknown"}, reg : 0..31, off : Int]

ASSUME RunAssumption ==
  /\ Layouts \subseteq [Args -> Place]
  /\ Modes \subseteq {"block", "snap", "call"} /\ Overlapping \subseteq Modes
  /\ PairLoad \subseteq {0, 1} /\ Frame \in Nat /\ BaseAt \in Int
  /\ MaxCalls \in Nat /\ MaxVisits \in Nat

VARIABLES
  mode, locs,  \* how the guard was installed, and where analysis found arguments
  snap,        \* the snapshot area
  calls,       \* number of calls so far
  pc,          \* where each thread is
  m,           \* its registers and stack
  at,          \* its registers and stack when it last met a patch
  call,        \* the number of its current call
  visit,       \* how often that call has met the guard
  word,        \* the word of the snapshot area to be copied next
  given        \* what check was given last

vars == <<mode, locs, snap, calls, pc, m, at, call, visit, word, given>>

(***************************************************************************)
(* Values and places.                                                      *)
(***************************************************************************)
Num(n) == <<"num", n, 0>>
Zero == Num(0)
Addr(a) == <<"addr", a, 0>>
Arg(k, c) == <<"arg", k, c>>
Junk(r, v) == <<"junk", r, v>>
Old(a) == <<"old", a, 0>>
Nothing == <<"none", 0, 0>>
Behind == <<"behind", 0, 0>>   \* the address behind a guarded call

InReg(r) == [kind |-> "reg", reg |-> r, off |-> 0]
InSlot(b, n) == [kind |-> "slot", reg |-> b, off |-> n]
Lost == [kind |-> "unknown", reg |-> 0, off |-> 0]

(***************************************************************************)
(* The machine.  The stack holds only words that have been written.        *)
(***************************************************************************)
Peek(s, a) == IF a \in DOMAIN s.stack THEN s.stack[a] ELSE Old(a)
Poke(s, a, v) ==
  [s EXCEPT !.stack = [b \in DOMAIN @ \cup {a} |-> IF b = a THEN v ELSE @[b]]]
X(s, r) == IF r = 31 THEN Zero ELSE s.x[r]
Put(s, r, v) == IF r = 31 THEN s ELSE [s EXCEPT !.x[r] = v]
MoveSP(s, n) == [s EXCEPT !.sp = @ + n]

\* stp xa, xb, [sp, #-16]! and ldp xa, xb, [sp], #16.  The encoders know the
\* general registers only.
StpPre(s, a, b) ==
  LET low == MoveSP(s, -2)
  IN  Poke(Poke(low, low.sp, X(s, a)), low.sp + 1, X(s, b))
LdpPost(s, a, b) ==
  MoveSP(Put(Put(s, a, Peek(s, s.sp)), b, Peek(s, s.sp + 1)), 2)
StrPre(s, a) == LET low == MoveSP(s, -2) IN Poke(low, low.sp, X(s, a))

(***************************************************************************)
(* emit_save_all: sixteen pairs meant to hold d0 to d31, sixteen that hold *)
(* x0 to x30 and xzr, the flags, and eight words of scratch.               *)
(***************************************************************************)
Pair(i) == (2 * (i - 1)) % 32
Pushed(s) ==
  LET z[i \in 0..32] == IF i = 0 THEN s ELSE StpPre(z[i - 1], Pair(i), Pair(i) + 1)
  IN  z[32]

\* Mutant: no scratch area.
MutSaveAll(s) ==
  LET p == Pushed(s) IN StrPre(Put(p, 8, p.flags), 8)
SaveAll(s) ==
  LET p == Pushed(s) IN MoveSP(StrPre(Put(p, 8, p.flags), 8), -8)

\* emit_restore_all.  The flags come back through a pair load of x8 and x8, of
\* which only one word survives.  Mutant: registers come back in the order in
\* which they were saved.
MutPopped(s) ==
  LET z[i \in 0..32] == IF i = 0 THEN s ELSE LdpPost(z[i - 1], Pair(i), Pair(i) + 1)
  IN  z[32]
Popped(s) ==
  LET z[i \in 0..32] == IF i = 0 THEN s ELSE LdpPost(z[i - 1], Pair(33 - i), Pair(33 - i) + 1)
  IN  z[32]
RestoreAll(s, survives) ==
  LET open == MoveSP(s, 8)
      read == MoveSP(Put(open, 8, Peek(open, open.sp + survives)), 2)
  IN  Popped([read EXCEPT !.flags = read.x[8]])

(***************************************************************************)
(* em_addr: x16 = base + off.  An offset that does not fit an immediate is *)
(* added as a register, and there register 31 is xzr, not sp.              *)
(***************************************************************************)
BaseValue(s, base, asRegister) ==
  IF base # 31 THEN s.x[base] ELSE IF asRegister THEN Zero ELSE Addr(s.sp)
EmAddr(s, base, off) ==
  LET b == BaseValue(s, base, off \notin (-ImmWords)..ImmWords)
  IN  IF b[1] \in {"addr", "num"} THEN <<b[1], b[2] + off, 0>> ELSE Nothing

\* em_slot_load.  A load that misses the stack gives no value the models know.
SlotLoad(s, d, base, off) ==
  LET z == Put(s, IP0, EmAddr(s, base, off))
  IN  Put(z, d, IF z.x[IP0][1] = "addr" THEN Peek(z, z.x[IP0][2]) ELSE Nothing)

(***************************************************************************)
(* emit_args_load without a snapshot: register sources to the scratch      *)
(* area, slots to x8 to x15, and then all of them to x0 to x7.             *)
(***************************************************************************)
Moved(k) == locs[k].kind = "reg" /\ locs[k].reg # k

SaveSource(s, k) == IF Moved(k) THEN Poke(s, s.sp + k, X(s, locs[k].reg)) ELSE s
LoadSlot(s, k) ==
  IF locs[k].kind # "slot" THEN s
  ELSE SlotLoad(s, 8 + k, locs[k].reg,
                locs[k].off + (IF locs[k].reg = 31 THEN SaveWords ELSE 0))
Assemble(s, k) ==
  CASE Moved(k)               -> Put(s, k, Peek(s, s.sp + k))
    [] locs[k].kind = "slot"  -> Put(s, k, X(s, 8 + k))
    [] locs[k].kind = "unknown" -> Put(s, k, Zero)
    [] OTHER                  -> s

\* Mutant: an argument's register is written while others are still to be read.
MutArgsLoad(s) ==
  LET z[k \in 0..8] ==
        IF k = 0 THEN s
        ELSE Assemble(LoadSlot(SaveSource(z[k - 1], k - 1), k - 1), k - 1)
  IN  z[8]
SaveSources(s) == LET z[k \in 0..8] == IF k = 0 THEN s ELSE SaveSource(z[k - 1], k - 1) IN z[8]
LoadSlots(s) == LET z[k \in 0..8] == IF k = 0 THEN s ELSE LoadSlot(z[k - 1], k - 1) IN z[8]
AssembleAll(s) == LET z[k \in 0..8] == IF k = 0 THEN s ELSE Assemble(z[k - 1], k - 1) IN z[8]
ArgsLoad(s) == AssembleAll(LoadSlots(SaveSources(s)))

(***************************************************************************)
(* The function, as far as its guard can tell: it is entered with          *)
(* arguments in x0 to x7, and when it meets the guard the places that      *)
(* analysis found hold them (ArgFlow, LocationsHold).  All else it has     *)
(* overwritten.                                                            *)
(***************************************************************************)
Bases == {locs[k].reg : k \in {j \in Args : locs[j].kind = "slot"}} \ {31}
InRegister(r) == {k \in Args : locs[k].kind = "reg" /\ locs[k].reg = r}
WordOf(p) == p.off + (IF p.reg = 31 THEN -Frame ELSE BaseAt)
SlotAt(k) == WordOf(locs[k])
Slots == {k \in Args : locs[k].kind = "slot"}

Resting == [x |-> [r \in Reg |-> Nothing], sp |-> 0, flags |-> Nothing,
            fp |-> Nothing, stack |-> <<>>]
Entered(c) ==
  [x |-> [r \in Reg |-> IF r \in Args THEN Arg(r, c) ELSE Junk(r, c)], sp |-> 0,
   flags |-> Junk(32, c), fp |-> Junk(33, c), stack |-> <<>>]

Holding(c, v) ==
  [r \in Reg |-> IF r \in Bases THEN Addr(BaseAt)
                 ELSE IF InRegister(r) # {} THEN Arg(CHOOSE k \in InRegister(r) : TRUE, c)
                 ELSE Junk(r, v)]
AtGuard(s, c, v) ==
  [x |-> Holding(c, v), sp |-> -Frame, flags |-> Junk(32, v), fp |-> Junk(33, v),
   stack |-> [a \in {SlotAt(k) : k \in Slots} \cup DOMAIN s.stack |->
                IF \E k \in Slots : SlotAt(k) = a
                THEN Arg(CHOOSE k \in Slots : SlotAt(k) = a, c) ELSE s.stack[a]]]

\* A C function has been called: it keeps to the calling convention, and below
\* sp it has written what it likes.
Called(s, result) ==
  [s EXCEPT !.x = [r \in Reg |-> IF r = 0 THEN result
                                 ELSE IF r \in CheckSpoils THEN Nothing ELSE @[r]],
            !.flags = Nothing, !.fp = Nothing,
            !.stack = [a \in DOMAIN @ |-> IF a < s.sp THEN Nothing ELSE @[a]]]

(***************************************************************************)
(* Steps.                                                                  *)
(***************************************************************************)
Init ==
  /\ mode \in Modes /\ locs \in Layouts
  /\ snap = [k \in Args |-> Zero]
  /\ calls = 0
  /\ pc = [t \in Threads |-> "idle"]
  /\ m = [t \in Threads |-> Resting]
  /\ at = [t \in Threads |-> Resting]
  /\ call = [t \in Threads |-> 0]
  /\ visit = [t \in Threads |-> 0]
  /\ word = [t \in Threads |-> 0]
  /\ given = [t \in Threads |-> Nothing]

Step(t, from, to, s) ==
  /\ pc[t] = from /\ pc' = [pc EXCEPT ![t] = to]
  /\ m' = [m EXCEPT ![t] = s]
Same == UNCHANGED <<mode, locs, snap, calls, at, call, visit, word, given>>

\* A caller of the function.  Calls overlap only in the modes that allow it.
Call(t) ==
  /\ calls < MaxCalls
  /\ mode \in Overlapping \/ \A u \in Threads : pc[u] = "idle"
  /\ Step(t, "idle", IF mode = "snap" THEN "entry" ELSE "body", Entered(calls + 1))
  /\ calls' = calls + 1
  /\ at' = [at EXCEPT ![t] = Entered(calls + 1)]
  /\ call' = [call EXCEPT ![t] = calls + 1]
  /\ UNCHANGED <<mode, locs, snap, visit, word, given>>

\* The entry's patch and trampoline: save everything, store x0 to x7 one by one
\* into the snapshot area, restore everything, and go on in the function.
EntrySave(t) ==
  /\ Step(t, "entry", "store", Put(SaveAll(Put(m[t], IP0, Nothing)), 9, Nothing))
  /\ Same

EntryStore(t) ==
  /\ Step(t, "store", IF word[t] = 7 THEN "stored" ELSE "store", m[t])
  /\ snap' = [snap EXCEPT ![word[t]] = X(m[t], word[t])]
  /\ word' = [word EXCEPT ![t] = (@ + 1) % 8]
  /\ UNCHANGED <<mode, locs, calls, at, call, visit, given>>

EntryRestore(t) ==
  /\ \E w \in PairLoad :
       Step(t, "stored", "body", Put(RestoreAll(m[t], w), IP0, Nothing))
  /\ Same

\* The function reaches its guard, the first time or again.
Reach(t, from) ==
  /\ visit[t] < MaxVisits
  /\ LET s == AtGuard(m[t], call[t], MaxCalls + call[t] * MaxVisits + visit[t])
     IN  Step(t, from, "guard", s) /\ at' = [at EXCEPT ![t] = s]
  /\ visit' = [visit EXCEPT ![t] = @ + 1]
  /\ UNCHANGED <<mode, locs, snap, calls, call, word, given>>

\* Or it takes a path that does not lead there.
Leave(t, from) == Step(t, from, "after", m[t]) /\ Same

\* The guard's patch and trampoline.
GuardSave(t) ==
  /\ Step(t, "guard", "args", SaveAll(Put(m[t], IP0, Nothing)))
  /\ Same

ArgsFromPlaces(t) ==
  /\ mode # "snap"
  /\ Step(t, "args", "check", ArgsLoad(m[t]))
  /\ Same

ArgsFromSnap(t) ==
  /\ mode = "snap"
  /\ Step(t, "args", IF word[t] = 7 THEN "check" ELSE "args",
          Put(Put(m[t], 9, Nothing), word[t], snap[word[t]]))
  /\ word' = [word EXCEPT ![t] = (@ + 1) % 8]
  /\ UNCHANGED <<mode, locs, snap, calls, at, call, visit, given>>

Check(t) ==
  /\ \E answer \in {0, 1} : Step(t, "check", "decide", Called(m[t], Num(answer)))
  /\ given' = [given EXCEPT ![t] = [k \in Args |-> X(m[t], k)]]
  /\ UNCHANGED <<mode, locs, snap, calls, at, call, visit, word>>

\* cbz w0: the pass path restores everything, to replay the words the patch
\* covers; the skip path restores everything and jumps to the block's end.
\* Mutant: the answer is not tested.
MutPass(t) ==
  /\ mode # "call"
  /\ \E w \in PairLoad : Step(t, "decide", "replay", RestoreAll(m[t], w))
  /\ Same
Pass(t) ==
  /\ mode # "call" /\ X(m[t], 0) # Zero
  /\ \E w \in PairLoad : Step(t, "decide", "replay", RestoreAll(m[t], w))
  /\ Same

Skip(t) ==
  /\ mode # "call" /\ X(m[t], 0) = Zero
  /\ \E w \in PairLoad :
       Step(t, "decide", "after", Put(RestoreAll(m[t], w), IP0, Nothing))
  /\ Same

Replay(t) == Step(t, "replay", "rest", Put(m[t], IP0, Nothing)) /\ Same

\* A guarded call: the pass path restores everything, makes the call, and loads
\* x30 with the address behind it; the skip path does so without the call.  Then
\* the words behind the call are replayed.
CallPass(t) ==
  /\ mode = "call" /\ X(m[t], 0) # Zero
  /\ \E w \in PairLoad :
       Step(t, "decide", "callee",
            Put(Put(RestoreAll(m[t], w), IP0, Nothing), 30, Nothing))
  /\ Same

Callee(t) ==
  /\ Step(t, "callee", "back", Called(m[t], Junk(0, call[t])))
  /\ at' = [at EXCEPT ![t] = Called(@, Junk(0, call[t]))]
  /\ UNCHANGED <<mode, locs, snap, calls, call, visit, word, given>>

CallBack(t) == Step(t, "back", "resume", Put(m[t], 30, Behind)) /\ Same

CallSkip(t) ==
  /\ mode = "call" /\ X(m[t], 0) = Zero
  /\ \E w \in PairLoad :
       Step(t, "decide", "resume", Put(RestoreAll(m[t], w), 30, Behind))
  /\ Same

Resume(t) == Step(t, "resume", "rest", Put(m[t], IP0, Nothing)) /\ Same

Return(t) ==
  /\ Step(t, "after", "idle", Resting)
  /\ at' = [at EXCEPT ![t] = Resting]
  /\ call' = [call EXCEPT ![t] = 0]
  /\ visit' = [visit EXCEPT ![t] = 0]
  /\ given' = [given EXCEPT ![t] = Nothing]
  /\ UNCHANGED <<mode, locs, snap, calls, word>>

ThreadStep(t) ==
  \/ Call(t) \/ EntrySave(t) \/ EntryStore(t) \/ EntryRestore(t)
  \/ Reach(t, "body") \/ Leave(t, "body")
  \/ GuardSave(t) \/ ArgsFromPlaces(t) \/ ArgsFromSnap(t) \/ Check(t)
  \/ Pass(t) \/ Skip(t) \/ Replay(t)
  \/ CallPass(t) \/ Callee(t) \/ CallBack(t) \/ CallSkip(t) \/ Resume(t)
  \/ Reach(t, "rest") \/ Leave(t, "rest") \/ Reach(t, "after") \/ Return(t)

Next == \E t \in Threads : ThreadStep(t)
Spec == Init /\ [][Next]_vars

(***************************************************************************)
(* Properties.                                                             *)
(***************************************************************************)
Points == {"idle", "entry", "store", "stored", "body", "guard", "args", "check",
           "decide", "replay", "callee", "back", "resume", "rest", "after"}
Value == {"num", "addr", "arg", "junk", "old", "none", "behind"} \X Int \X Int
IsState(s) ==
  /\ DOMAIN s = {"x", "sp", "flags", "fp", "stack"}
  /\ DOMAIN s.x = Reg /\ \A r \in Reg : s.x[r] \in Value
  /\ s.sp \in Int /\ s.flags \in Value /\ s.fp \in Value
  /\ \A a \in DOMAIN s.stack : a \in Int /\ s.stack[a] \in Value

\* Every variable keeps its type, and the stack pointer is where the layout of
\* the saved registers (instr_plan.c 377-382) puts it.
TypeOK ==
  /\ mode \in Modes /\ locs \in Layouts
  /\ DOMAIN snap = Args /\ \A k \in Args : snap[k] \in Value
  /\ calls \in 0..MaxCalls
  /\ pc \in [Threads -> Points] /\ word \in [Threads -> Args]
  /\ call \in [Threads -> 0..MaxCalls] /\ visit \in [Threads -> 0..MaxVisits]
  /\ DOMAIN m = Threads /\ DOMAIN at = Threads /\ DOMAIN given = Threads
  /\ \A t \in Threads :
       /\ IsState(m[t]) /\ IsState(at[t])
       /\ m[t].sp = at[t].sp - (IF pc[t] \in {"store", "stored", "args", "check", "decide"}
                                THEN SaveWords ELSE 0)

\* A layout as analysis gives it (analysis.c 439-450): no place holds two values,
\* and a slot is in the function's frame or above it.
Sound(l) ==
  /\ \A k \in Args :
       /\ l[k].kind = "reg" => l[k].reg \in Reg
       /\ l[k].kind = "slot" =>
            (l[k].reg < 8 \/ l[k].reg > 17) /\ WordOf(l[k]) >= -Frame
  /\ \A j, k \in Args :
       /\ j # k /\ l[j].kind = "reg" /\ l[k].kind = "reg" => l[j].reg # l[k].reg
       /\ j # k /\ l[j].kind = "slot" /\ l[k].kind = "slot" =>
            WordOf(l[j]) # WordOf(l[k])
       /\ l[j].kind = "slot" /\ l[k].kind = "reg" => l[j].reg # l[k].reg

\* Of these, the ones that emit_args_load reads rightly: no argument in x8 or
\* x16, and no slot of sp that is out of an immediate's reach.
Readable(l) ==
  /\ Sound(l)
  /\ \A k \in Args :
       /\ l[k].kind = "reg" => l[k].reg \notin {8, IP0}
       /\ l[k].kind = "slot" /\ l[k].reg = 31 => l[k].off + SaveWords <= ImmWords

\* The hypotheses of the theorems about check's arguments.
LayoutsReadable == \A l \in Layouts : Readable(l)
SnapAlone == "snap" \notin Overlapping

\* check is called with the arguments of the very call that meets the guard;
\* one that analysis did not find is 0 (instr.h 61-62, and 78 for snapshots).
Found == IF mode = "snap" THEN Args ELSE {k \in Args : locs[k].kind # "unknown"}
Expected(t) == [k \in Args |-> IF k \in Found THEN Arg(k, call[t]) ELSE Zero]
CheckGetsArguments ==
  \A t \in Threads :
    pc[t] = "check" => \A k \in Args : X(m[t], k) = Expected(t)[k]

\* What the function can see of its state: every general register except IP0
\* and, at a guarded call, the register that the call sets; the flags, sp, and
\* the stack from sp upwards.
Unseen == {IP0} \cup {r \in {30} : mode = "call"}
Visible(s) ==
  <<[r \in Reg \ Unseen |-> s.x[r]], s.flags, s.sp,
    [a \in {b \in DOMAIN s.stack : b >= s.sp} |-> s.stack[a]]>>
FrameKept(s, s0) ==
  \A a \in DOMAIN s.stack \cup DOMAIN s0.stack :
    a >= s0.sp => Peek(s, a) = Peek(s0, a)

\* Wherever the function's own code runs, it finds the state it had when it met
\* the patch (instr_plan.c 383-384), and the trampolines write nothing into its
\* frame, not even for a while.  So does the function called from a guarded call;
\* and behind the call x30 is what the call would have left there, whether it
\* was made or not (instr_plan.c 609, 616).
ContextIntact ==
  \A t \in Threads :
    /\ pc[t] \in {"body", "replay", "callee", "back", "resume", "rest", "after"} =>
         Visible(m[t]) = Visible(at[t])
    /\ pc[t] = "resume" \/ (mode = "call" /\ pc[t] = "rest") => X(m[t], 30) = Behind
    /\ pc[t] # "idle" => FrameKept(m[t], at[t])

\* The words replayed after check find the floating-point registers of the
\* guard (instr_plan.c 386-390).
FloatIntact == \A t \in Threads : pc[t] = "replay" => m[t].fp = at[t].fp

(***************************************************************************)
(* The guarded function is the function with an if around its block, or    *)
(* around its call, which is then the block.  Code in a trampoline is not  *)
(* seen: the function's state is what it was when it met the patch.        *)
(***************************************************************************)
Stage(t) ==
  CASE pc[t] = "idle"                                  -> "idle"
    [] pc[t] \in {"entry", "store", "stored", "body"}   -> "body"
    [] pc[t] \in {"guard", "args", "check"}             -> "guard"
    [] pc[t] \in {"back", "resume", "after"}            -> "after"
    [] pc[t] = "decide" /\ X(m[t], 0) = Zero            -> "after"
    [] pc[t] = "rest" /\ mode = "call"                  -> "after"
    [] OTHER                                            -> "block"

View(t) ==
  CASE pc[t] = "idle" -> Nothing
    [] pc[t] \in {"store", "stored", "args", "check", "decide"} -> Visible(at[t])
    [] OTHER -> Visible(m[t])

Block == INSTANCE GuardedBlock WITH
  Nothing <- Nothing, Zero <- Zero,
  found <- Found,
  stage <- [t \in Threads |-> Stage(t)],
  args <- [t \in Threads |->
             IF pc[t] = "idle" THEN Nothing ELSE [k \in Args |-> Arg(k, call[t])]],
  view <- [t \in Threads |-> View(t)],
  given <- given

\* Every step is a step of "if (check(arguments)) { block }" or none
\* (instr.h 57-67).
ImplementsBlock == Block!Spec
=============================================================================
