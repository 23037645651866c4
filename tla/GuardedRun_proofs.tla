------------------------- MODULE GuardedRun_proofs -------------------------
(***************************************************************************)
(* Proofs about the trampolines: what they save they restore, check gets   *)
(* the arguments of the call that meets the guard, and a guard is an if    *)
(* around its block, for any number of threads, calls and visits, and      *)
(* wherever analysis has found the arguments.                              *)
(***************************************************************************)
EXTENDS GuardedRun, TLAPS, WellFoundedInduction, NaturalsInduction

(***************************************************************************)
(* Counting up to a bound.                                                 *)
(***************************************************************************)
Less == {p \in Nat \X Nat : p[1] < p[2]}

LEMMA LessWellFounded == IsWellFoundedOn(Less, Nat)
BY NatLessThanWellFounded DEF OpToRel, Less

\* What holds of 0 and is handed on holds up to the bound.
LEMMA Upwards ==
  ASSUME NEW n \in Nat, NEW T, 0 \in T, \A i \in 1..n : i - 1 \in T => i \in T
  PROVE  \A i \in 0..n : i \in T
<1> DEFINE U == (0..n) \ T
<1> SUFFICES ASSUME U # {} PROVE FALSE
  OBVIOUS
<1>1. U \subseteq Nat
  OBVIOUS
<1>2. PICK x \in U : \A y \in U : ~(<<y, x>> \in Less)
  BY <1>1, LessWellFounded, WFMin
<1>3. x \in 1..n /\ x - 1 \in 0..n /\ x - 1 \notin T
  BY <1>2
<1>4. <<x - 1, x>> \in Nat \X Nat /\ <<x - 1, x>>[1] < <<x - 1, x>>[2]
  BY <1>3
<1> QED BY <1>2, <1>3, <1>4 DEF Less

(***************************************************************************)
(* The machine.                                                            *)
(***************************************************************************)
\* The numbers that stand for a register in an instruction, and the turns of
\* the two loops over pairs of registers.
Code == 0..31
Round == 1..32

LEMMA CodeIs ==
  /\ Reg \subseteq Code /\ 31 \in Code /\ \A r \in Code : r = 31 \/ r \in Reg
  /\ {0, 8, 9, 16, 30} \subseteq Code /\ Args \subseteq Code
BY DEF Code, Reg, Args

LEMMA RoundIs == \A i \in Int : i \in Round <=> 1 <= i /\ i <= 32
BY DEF Round

LEMMA RoundInt == Round \subseteq Int /\ \A i \in Round : 1 <= i /\ i <= 32
BY DEF Round

LEMMA ValueMade ==
  /\ \A n \in Int : Num(n) \in Value /\ Addr(n) \in Value /\ Old(n) \in Value
  /\ \A k, c \in Int : Arg(k, c) \in Value /\ Junk(k, c) \in Value
  /\ Nothing \in Value /\ Zero \in Value /\ Behind \in Value
BY DEF Num, Addr, Old, Arg, Junk, Nothing, Zero, Behind, Value

LEMMA PeekTyped ==
  ASSUME NEW s, IsState(s), NEW a \in Int
  PROVE  Peek(s, a) \in Value
BY ValueMade DEF Peek, IsState

LEMMA XTyped ==
  ASSUME NEW s, IsState(s), NEW r \in Code
  PROVE  X(s, r) \in Value
BY ValueMade, CodeIs DEF X, IsState

\* A register is written, and nothing else changes.
LEMMA PutElse ==
  ASSUME NEW s, IsState(s), NEW r \in Code, NEW v \in Value,
         NEW z, z = Put(s, r, v)
  PROVE  /\ IsState(z) /\ z.sp = s.sp /\ z.flags = s.flags /\ z.fp = s.fp
         /\ z.stack = s.stack
<1>1. CASE r = 31
  BY <1>1 DEF Put
<1>2. CASE r # 31
  <2>1. r \in Reg /\ z = [s EXCEPT !.x[r] = v]
    BY <1>2, CodeIs DEF Put
  <2>2. /\ DOMAIN z = DOMAIN s /\ z.sp = s.sp /\ z.flags = s.flags /\ z.fp = s.fp
        /\ z.stack = s.stack /\ z.x = [s.x EXCEPT ![r] = v]
    BY <2>1 DEF IsState
  <2>3. /\ DOMAIN z.x = Reg /\ z.x[r] = v /\ \A q \in Reg : q # r => z.x[q] = s.x[q]
    BY <2>1, <2>2 DEF IsState
  <2>4. IsState(z)
    BY <2>2, <2>3 DEF IsState
  <2> QED BY <2>2, <2>4
<1> QED BY <1>1, <1>2

\* A state that differs from another in its registers only.
Steady(z, s) ==
  IsState(z) /\ z.sp = s.sp /\ z.flags = s.flags /\ z.fp = s.fp /\ z.stack = s.stack

LEMMA PutSteady ==
  ASSUME NEW s, IsState(s), NEW r \in Code, NEW v \in Value
  PROVE  Steady(Put(s, r, v), s)
<1>1. PICK z : z = Put(s, r, v)
  OBVIOUS
<1>2. /\ IsState(z) /\ z.sp = s.sp /\ z.flags = s.flags /\ z.fp = s.fp
      /\ z.stack = s.stack
  BY <1>1, PutElse
<1> QED BY <1>1, <1>2 DEF Steady

LEMMA PutReg ==
  ASSUME NEW s, IsState(s), NEW r \in Code, NEW v, NEW q \in Reg
  PROVE  Put(s, r, v).x[q] = IF q = r THEN v ELSE s.x[q]
<1>1. CASE r = 31
  BY <1>1 DEF Put, Reg
<1>2. CASE r # 31
  BY <1>2, CodeIs DEF Put, IsState
<1> QED BY <1>1, <1>2

\* Words at and above address n are alike in two states.
Alike(z, s, n) ==
  \A a \in Int : a >= n => /\ a \in DOMAIN z.stack <=> a \in DOMAIN s.stack
                           /\ a \in DOMAIN s.stack => z.stack[a] = s.stack[a]

LEMMA AlikePeek ==
  ASSUME NEW z, NEW s, NEW n, Alike(z, s, n), NEW a \in Int, a >= n
  PROVE  Peek(z, a) = Peek(s, a)
BY DEF Alike, Peek

LEMMA AlikeSame == \A z, s, n : z.stack = s.stack => Alike(z, s, n)
BY DEF Alike

LEMMA AlikeTrans ==
  ASSUME NEW z, NEW y, NEW s, NEW n \in Int, NEW k \in Int, k <= n, Alike(z, y, k), Alike(y, s, n)
  PROVE  Alike(z, s, n)
BY DEF Alike

\* A word of the stack is written.
LEMMA PokeIs ==
  ASSUME NEW s, IsState(s), NEW a \in Int, NEW v \in Value, NEW z, z = Poke(s, a, v)
  PROVE  /\ IsState(z) /\ z.sp = s.sp /\ z.flags = s.flags /\ z.fp = s.fp /\ z.x = s.x
         /\ Peek(z, a) = v
         /\ \A b \in Int : b # a => /\ b \in DOMAIN z.stack <=> b \in DOMAIN s.stack
                                    /\ b \in DOMAIN s.stack => z.stack[b] = s.stack[b]
                                    /\ Peek(z, b) = Peek(s, b)
<1> DEFINE D == DOMAIN s.stack \cup {a}
<1>1. /\ DOMAIN z = DOMAIN s /\ z.sp = s.sp /\ z.flags = s.flags /\ z.fp = s.fp
      /\ z.x = s.x /\ z.stack = [b \in D |-> IF b = a THEN v ELSE s.stack[b]]
  BY DEF Poke, IsState
<1>2. /\ DOMAIN z.stack = D /\ z.stack[a] = v
      /\ \A b \in DOMAIN s.stack : b # a => z.stack[b] = s.stack[b]
  BY <1>1
<1>3. IsState(z)
  BY <1>1, <1>2 DEF IsState
<1>4. \A b \in Int : b # a => (b \in DOMAIN z.stack <=> b \in DOMAIN s.stack)
  BY <1>2
<1> QED BY <1>1, <1>2, <1>3, <1>4 DEF Peek

LEMMA MoveIs ==
  ASSUME NEW s, IsState(s), NEW n \in Int, NEW z, z = MoveSP(s, n)
  PROVE  /\ IsState(z) /\ z.sp = s.sp + n /\ z.flags = s.flags /\ z.fp = s.fp /\ z.x = s.x
         /\ z.stack = s.stack
BY DEF MoveSP, IsState

\* stp xa, xb, [sp, #-16]!
LEMMA StpPreIs ==
  ASSUME NEW s, IsState(s), NEW a \in Code, NEW b \in Code, NEW z, z = StpPre(s, a, b)
  PROVE  /\ IsState(z) /\ z.sp = s.sp - 2 /\ z.flags = s.flags /\ z.fp = s.fp /\ z.x = s.x
         /\ Peek(z, s.sp - 2) = X(s, a) /\ Peek(z, s.sp - 1) = X(s, b)
         /\ Alike(z, s, s.sp)
<1>1. PICK low, y : /\ low = MoveSP(s, -2) /\ y = Poke(low, low.sp, X(s, a))
                    /\ z = Poke(y, low.sp + 1, X(s, b))
  BY DEF StpPre
<1>2. s.sp \in Int
  BY DEF IsState
<1>3. /\ IsState(low) /\ low.sp = s.sp + -2 /\ low.flags = s.flags /\ low.fp = s.fp
      /\ low.x = s.x /\ low.stack = s.stack
  BY <1>1, MoveIs
<1>4. PICK u \in Value, v \in Value : u = X(s, a) /\ v = X(s, b)
  BY XTyped
<1>5. PICK c \in Int, d \in Int : c = low.sp /\ d = low.sp + 1 /\ c = s.sp - 2
  BY <1>2, <1>3
<1>6. /\ IsState(y) /\ y.sp = low.sp /\ y.flags = low.flags /\ y.fp = low.fp /\ y.x = low.x
      /\ Peek(y, c) = u
      /\ \A e \in Int : e # c => /\ e \in DOMAIN y.stack <=> e \in DOMAIN low.stack
                                 /\ e \in DOMAIN low.stack => y.stack[e] = low.stack[e]
                                 /\ Peek(y, e) = Peek(low, e)
  <2>1. IsState(low) /\ y = Poke(low, c, u)
    BY <1>1, <1>3, <1>4, <1>5
  <2> QED BY <2>1, PokeIs
<1>7. /\ IsState(z) /\ z.sp = y.sp /\ z.flags = y.flags /\ z.fp = y.fp /\ z.x = y.x
      /\ Peek(z, d) = v
      /\ \A e \in Int : e # d => /\ e \in DOMAIN z.stack <=> e \in DOMAIN y.stack
                                 /\ e \in DOMAIN y.stack => z.stack[e] = y.stack[e]
                                 /\ Peek(z, e) = Peek(y, e)
  <2>1. IsState(y) /\ z = Poke(y, d, v)
    BY <1>1, <1>4, <1>5, <1>6
  <2> QED BY <2>1, PokeIs
<1>8. Peek(z, s.sp - 2) = X(s, a) /\ Peek(z, s.sp - 1) = X(s, b)
  BY <1>2, <1>4, <1>5, <1>6, <1>7
<1>9. Alike(z, s, s.sp)
  BY <1>2, <1>3, <1>5, <1>6, <1>7 DEF Alike
<1> QED BY <1>2, <1>3, <1>5, <1>6, <1>7, <1>8, <1>9

\* ldp xa, xb, [sp], #16
LEMMA LdpPostElse ==
  ASSUME NEW s, IsState(s), NEW a \in Code, NEW b \in Code, NEW w, w = LdpPost(s, a, b)
  PROVE  /\ IsState(w) /\ w.sp = s.sp + 2 /\ w.flags = s.flags /\ w.fp = s.fp
         /\ w.stack = s.stack
<1>1. s.sp \in Int /\ s.sp + 1 \in Int
  BY DEF IsState
<1>2. PICK v \in Value : v = Peek(s, s.sp)
  BY <1>1, PeekTyped
<1>3. PICK u \in Value : u = Peek(s, s.sp + 1)
  BY <1>1, PeekTyped
<1>4. PICK y : y = Put(s, a, v)
  OBVIOUS
<1>5. IsState(y) /\ y.sp = s.sp /\ y.flags = s.flags /\ y.fp = s.fp /\ y.stack = s.stack
  BY <1>4, PutElse
<1>6. PICK z : z = Put(y, b, u)
  OBVIOUS
<1>7. IsState(z) /\ z.sp = y.sp /\ z.flags = y.flags /\ z.fp = y.fp /\ z.stack = y.stack
  BY <1>5, <1>6, PutElse
<1>8. z = Put(Put(s, a, Peek(s, s.sp)), b, Peek(s, s.sp + 1))
  BY <1>2, <1>3, <1>4, <1>6
<1>9. w = MoveSP(z, 2)
  BY <1>8 DEF LdpPost
<1>10. /\ IsState(w) /\ w.sp = z.sp + 2 /\ w.flags = z.flags /\ w.fp = z.fp
      /\ w.stack = z.stack /\ w.x = z.x
  BY <1>7, <1>9, MoveIs
<1> QED BY <1>5, <1>7, <1>8, <1>10

LEMMA LdpPostReg ==
  ASSUME NEW s, IsState(s), NEW a \in Code, NEW b \in Code, NEW q \in Reg
  PROVE  LdpPost(s, a, b).x[q] = IF q = b THEN Peek(s, s.sp + 1)
                                 ELSE IF q = a THEN Peek(s, s.sp) ELSE s.x[q]
<1>1. s.sp \in Int /\ s.sp + 1 \in Int
  BY DEF IsState
<1>2. PICK v \in Value : v = Peek(s, s.sp)
  BY <1>1, PeekTyped
<1>3. PICK u \in Value : u = Peek(s, s.sp + 1)
  BY <1>1, PeekTyped
<1>4. PICK y : y = Put(s, a, v)
  OBVIOUS
<1>5. IsState(y) /\ y.x[q] = IF q = a THEN v ELSE s.x[q]
  <2>1. IsState(y)
    BY <1>4, PutElse
  <2>2. y.x[q] = IF q = a THEN v ELSE s.x[q]
    BY <1>4, PutReg
  <2> QED BY <2>1, <2>2
<1>6. Put(y, b, u).x[q] = IF q = b THEN u ELSE y.x[q]
  BY <1>5, PutReg
<1>7. LdpPost(s, a, b).x = Put(y, b, u).x
  <2>1. PICK z : z = Put(y, b, u) /\ z = Put(Put(s, a, Peek(s, s.sp)), b, Peek(s, s.sp + 1))
    BY <1>2, <1>3, <1>4
  <2>2. IsState(z)
    BY <1>5, <2>1, PutElse
  <2>3. LdpPost(s, a, b) = MoveSP(z, 2)
    BY <2>1 DEF LdpPost
  <2>4. LdpPost(s, a, b).x = z.x
    BY <2>2, <2>3, MoveIs
  <2> QED BY <2>1, <2>4
<1> QED BY <1>2, <1>3, <1>5, <1>6, <1>7

\* str xa, [sp, #-16]!
LEMMA StrPreIs ==
  ASSUME NEW s, IsState(s), NEW a \in Code, NEW z, z = StrPre(s, a)
  PROVE  /\ IsState(z) /\ z.sp = s.sp - 2 /\ z.flags = s.flags /\ z.fp = s.fp /\ z.x = s.x
         /\ Peek(z, s.sp - 2) = X(s, a) /\ Alike(z, s, s.sp - 1)
<1>1. PICK low : low = MoveSP(s, -2) /\ z = Poke(low, low.sp, X(s, a))
  BY DEF StrPre
<1>2. /\ IsState(low) /\ low.sp = s.sp + -2 /\ low.flags = s.flags /\ low.fp = s.fp
      /\ low.x = s.x /\ low.stack = s.stack
  BY <1>1, MoveIs
<1>3. PICK v \in Value : v = X(s, a)
  BY XTyped
<1>4. s.sp \in Int
  BY DEF IsState
<1>5. PICK c \in Int : c = low.sp /\ c = s.sp - 2
  BY <1>2, <1>4
<1>6. /\ IsState(z) /\ z.sp = low.sp /\ z.flags = low.flags /\ z.fp = low.fp /\ z.x = low.x
      /\ Peek(z, c) = v
      /\ \A e \in Int : e # c => /\ e \in DOMAIN z.stack <=> e \in DOMAIN low.stack
                                 /\ e \in DOMAIN low.stack => z.stack[e] = low.stack[e]
                                 /\ Peek(z, e) = Peek(low, e)
  <2>1. IsState(low) /\ z = Poke(low, c, v)
    BY <1>1, <1>2, <1>3, <1>5
  <2> QED BY <2>1, PokeIs
<1>7. Alike(z, s, s.sp - 1)
  BY <1>2, <1>4, <1>5, <1>6 DEF Alike
<1> QED BY <1>2, <1>3, <1>5, <1>6, <1>7

(***************************************************************************)
(* The loops of the emitters.  Each state of a loop is made from the one   *)
(* before it; that there is such a sequence of states is shown once.       *)
(***************************************************************************)
Turn(loop, s, i) ==
  CASE loop = "push"     -> StpPre(s, Pair(i), Pair(i) + 1)
    [] loop = "pop"      -> LdpPost(s, Pair(33 - i), Pair(33 - i) + 1)
    [] loop = "save"     -> SaveSource(s, i - 1)
    [] loop = "load"     -> LoadSlot(s, i - 1)
    [] loop = "assemble" -> Assemble(s, i - 1)

Made(z, loop, s, n) ==
  z = [i \in 0..n |-> IF i = 0 THEN s ELSE Turn(loop, z[i - 1], i)]

LEMMA OneMore ==
  ASSUME NEW loop, NEW s, NEW n \in Nat, NEW z, Made(z, loop, s, n)
  PROVE  \E y : Made(y, loop, s, n + 1)
<1> DEFINE y == [i \in 0..n + 1 |-> IF i = n + 1 THEN Turn(loop, z[n], i) ELSE z[i]]
<1> HIDE DEF Turn
<1>1. ASSUME NEW i \in 0..n + 1 PROVE y[i] = IF i = 0 THEN s ELSE Turn(loop, y[i - 1], i)
  <2>1. CASE i = n + 1
    <3>1. y[n] = z[n]
      BY <2>1
    <3> QED BY <2>1, <3>1
  <2>2. CASE i # n + 1
    <3>1. i \in 0..n /\ z[i] = IF i = 0 THEN s ELSE Turn(loop, z[i - 1], i)
      BY <2>2 DEF Made
    <3>2. y[i] = z[i] /\ (i # 0 => i - 1 \in 0..n + 1 /\ y[i - 1] = z[i - 1])
      BY <2>2
    <3> HIDE DEF y
    <3> QED BY <3>1, <3>2
  <2> QED BY <2>1, <2>2
<1>2. y = [i \in 0..n + 1 |-> IF i = 0 THEN s ELSE Turn(loop, y[i - 1], i)]
  BY <1>1
<1> HIDE DEF y
<1> QED BY <1>2 DEF Made

LEMMA AlwaysMade == ASSUME NEW loop, NEW s, NEW n \in Nat PROVE \E z : Made(z, loop, s, n)
<1> DEFINE T == {i \in 0..n : \E z : Made(z, loop, s, i)}
<1>1. 0 \in T
  <2>1. Made([i \in 0..0 |-> s], loop, s, 0)
    BY DEF Made
  <2> QED BY <2>1
<1>2. \A i \in 1..n : i - 1 \in T => i \in T
  <2> SUFFICES ASSUME NEW i \in 1..n, NEW z, Made(z, loop, s, i - 1)
               PROVE  \E y : Made(y, loop, s, i)
    OBVIOUS
  <2>1. i - 1 \in Nat /\ (i - 1) + 1 = i
    OBVIOUS
  <2> QED BY <2>1, OneMore
<1> HIDE DEF T
<1>3. \A i \in 0..n : i \in T
  BY <1>1, <1>2, Upwards
<1> QED BY <1>3 DEF T

\* What a loop computes is the last state of such a sequence.
Steps(z, loop, s, n) ==
  z[0] = s /\ \A i \in 1..n : z[i] = Turn(loop, z[i - 1], i)

LEMMA PushedMade == \A s : \E z : Steps(z, "push", s, 32) /\ Pushed(s) = z[32]
<1> SUFFICES ASSUME NEW s PROVE \E z : Steps(z, "push", s, 32) /\ Pushed(s) = z[32]
  OBVIOUS
<1> HIDE DEF StpPre, Pair
<1> DEFINE z == CHOOSE z : Made(z, "push", s, 32)
<1>1. Made(z, "push", s, 32)
  BY AlwaysMade
<1>2. Pushed(s) = z[32]
  BY DEF Pushed, Made, Turn
<1> HIDE DEF z
<1>3. Steps(z, "push", s, 32)
  BY <1>1 DEF Made, Steps
<1> QED BY <1>2, <1>3
\* The same for the other loops.
LEMMA PoppedMade == \A s : \E z : Steps(z, "pop", s, 32) /\ Popped(s) = z[32]
<1> SUFFICES ASSUME NEW s PROVE \E z : Steps(z, "pop", s, 32) /\ Popped(s) = z[32]
  OBVIOUS
<1> HIDE DEF LdpPost, Pair
<1> DEFINE z == CHOOSE z : Made(z, "pop", s, 32)
<1>1. Made(z, "pop", s, 32)
  BY AlwaysMade
<1>2. Popped(s) = z[32]
  BY DEF Popped, Made, Turn
<1> HIDE DEF z
<1>3. Steps(z, "pop", s, 32)
  BY <1>1 DEF Made, Steps
<1> QED BY <1>2, <1>3

LEMMA SourcesMade == \A s : \E z : Steps(z, "save", s, 8) /\ SaveSources(s) = z[8]
<1> SUFFICES ASSUME NEW s PROVE \E z : Steps(z, "save", s, 8) /\ SaveSources(s) = z[8]
  OBVIOUS
<1> HIDE DEF SaveSource
<1> DEFINE z == CHOOSE z : Made(z, "save", s, 8)
<1>1. Made(z, "save", s, 8)
  BY AlwaysMade
<1>2. SaveSources(s) = z[8]
  BY DEF SaveSources, Made, Turn
<1> HIDE DEF z
<1>3. Steps(z, "save", s, 8)
  BY <1>1 DEF Made, Steps
<1> QED BY <1>2, <1>3

LEMMA LoadsMade == \A s : \E z : Steps(z, "load", s, 8) /\ LoadSlots(s) = z[8]
<1> SUFFICES ASSUME NEW s PROVE \E z : Steps(z, "load", s, 8) /\ LoadSlots(s) = z[8]
  OBVIOUS
<1> HIDE DEF LoadSlot
<1> DEFINE z == CHOOSE z : Made(z, "load", s, 8)
<1>1. Made(z, "load", s, 8)
  BY AlwaysMade
<1>2. LoadSlots(s) = z[8]
  BY DEF LoadSlots, Made, Turn
<1> HIDE DEF z
<1>3. Steps(z, "load", s, 8)
  BY <1>1 DEF Made, Steps
<1> QED BY <1>2, <1>3

LEMMA AssembledMade == \A s : \E z : Steps(z, "assemble", s, 8) /\ AssembleAll(s) = z[8]
<1> SUFFICES ASSUME NEW s PROVE \E z : Steps(z, "assemble", s, 8) /\ AssembleAll(s) = z[8]
  OBVIOUS
<1> HIDE DEF Assemble
<1> DEFINE z == CHOOSE z : Made(z, "assemble", s, 8)
<1>1. Made(z, "assemble", s, 8)
  BY AlwaysMade
<1>2. AssembleAll(s) = z[8]
  BY DEF AssembleAll, Made, Turn
<1> HIDE DEF z
<1>3. Steps(z, "assemble", s, 8)
  BY <1>1 DEF Made, Steps
<1> QED BY <1>2, <1>3

(***************************************************************************)
(* Saving and restoring.                                                   *)
(***************************************************************************)
LEMMA PairIs ==
  \A i \in Round : /\ Pair(i) \in Code /\ Pair(i) + 1 \in Code
                   /\ Pair(i) = IF i <= 16 THEN 2 * (i - 1) ELSE 2 * (i - 17)
BY DEF Pair, Round, Code

\* The pair of the registers pushed at turn i is where it was pushed to.
Has(z, s, i) ==
  /\ Peek(z, s.sp - 2 * i) = X(s, Pair(i))
  /\ Peek(z, s.sp - 2 * i + 1) = X(s, Pair(i) + 1)

LEMMA HasKept ==
  ASSUME NEW s, s.sp \in Int, NEW i \in Round, NEW y, NEW z, Has(y, s, i),
         NEW n \in Int, n <= s.sp - 2 * i, Alike(z, y, n)
  PROVE  Has(z, s, i)
<1>1. PICK a \in Int, b \in Int :
        a = s.sp - 2 * i /\ b = s.sp - 2 * i + 1 /\ a >= n /\ b >= n
  BY RoundInt
<1>2. Peek(z, a) = Peek(y, a) /\ Peek(z, b) = Peek(y, b)
  BY <1>1, AlikePeek
<1> QED BY <1>1, <1>2 DEF Has

LEMMA SameX == \A y, s, r : y.x = s.x => X(y, r) = X(s, r)
BY DEF X

LEMMA PushedIs ==
  ASSUME NEW s, IsState(s), NEW p, p = Pushed(s)
  PROVE  /\ IsState(p) /\ p.sp = s.sp - 64 /\ p.flags = s.flags /\ p.fp = s.fp /\ p.x = s.x
         /\ Alike(p, s, s.sp) /\ \A i \in Round : Has(p, s, i)
<1>1. PICK z : Steps(z, "push", s, 32) /\ p = z[32]
  BY PushedMade
<1>2. PICK n \in Nat : n = 32
  OBVIOUS
<1>3. z[0] = s /\ \A i \in 1..n : z[i] = StpPre(z[i - 1], Pair(i), Pair(i) + 1)
  BY <1>1, <1>2 DEF Steps, Turn
<1>4. s.sp \in Int
  BY DEF IsState
<1> DEFINE Good(y, i) ==
             /\ IsState(y) /\ y.sp = s.sp - 2 * i /\ y.flags = s.flags
             /\ y.fp = s.fp /\ y.x = s.x /\ Alike(y, s, s.sp)
             /\ \A j \in Round : j <= i => Has(y, s, j)
           T == {i \in 0..n : Good(z[i], i)}
<1>5. Good(s, 0)
  BY <1>4, AlikeSame, RoundInt
<1>6. ASSUME NEW i \in 1..n, NEW y, NEW w, Good(y, i - 1), w = StpPre(y, Pair(i), Pair(i) + 1)
      PROVE  Good(w, i)
  <2>1. i \in Round
    BY <1>2, RoundIs
  <2>2. PICK a \in Code, b \in Code : a = Pair(i) /\ b = Pair(i) + 1
    BY <2>1, PairIs
  <2>3. IsState(y) /\ w = StpPre(y, a, b)
    BY <1>6, <2>2
  <2>4. /\ IsState(w) /\ w.sp = y.sp - 2 /\ w.flags = y.flags /\ w.fp = y.fp
        /\ w.x = y.x /\ Peek(w, y.sp - 2) = X(y, a) /\ Peek(w, y.sp - 1) = X(y, b)
        /\ Alike(w, y, y.sp)
    BY <2>3, StpPreIs
  <2>5. y.sp = s.sp - 2 * (i - 1) /\ y.sp \in Int
    BY <1>4, <1>6
  <2>6. Alike(w, s, s.sp)
    <3>1. Alike(y, s, s.sp) /\ y.sp <= s.sp
      BY <1>4, <1>6, <2>5
    <3> QED BY <1>4, <2>4, <2>5, <3>1, AlikeTrans
  <2>7. Has(w, s, i)
    <3>1. y.sp - 2 = s.sp - 2 * i /\ y.sp - 1 = s.sp - 2 * i + 1
      BY <1>4, <2>5
    <3>2. X(y, a) = X(s, a) /\ X(y, b) = X(s, b)
      BY <1>6, SameX
    <3> QED BY <2>2, <2>4, <3>1, <3>2 DEF Has
  <2>8. ASSUME NEW j \in Round, j <= i - 1 PROVE Has(w, s, j)
    <3>1. Has(y, s, j) /\ y.sp <= s.sp - 2 * j
      BY <1>4, <1>6, <2>5, <2>8, RoundInt
    <3> QED BY <1>4, <2>4, <2>5, <3>1, HasKept
  <2>9. \A j \in Round : j <= i => Has(w, s, j)
    BY <2>7, <2>8, RoundInt
  <2>10. w.sp = s.sp - 2 * i
    BY <1>4, <2>4, <2>5
  <2>11. w.flags = s.flags /\ w.fp = s.fp /\ w.x = s.x
    BY <1>6, <2>4
  <2> QED BY <2>4, <2>6, <2>9, <2>10, <2>11
<1> HIDE DEF Good
<1>7. 0 \in T
  BY <1>3, <1>5
<1>8. \A i \in 1..n : i - 1 \in T => i \in T
  BY <1>3, <1>6
<1> HIDE DEF T
<1>9. \A i \in 0..n : i \in T
  BY <1>7, <1>8, Upwards
<1>10. Good(p, n)
  BY <1>1, <1>2, <1>9 DEF T
<1> QED BY <1>2, <1>4, <1>10, RoundInt DEF Good

\* What emit_save_all leaves on the stack: every register and the flags.
Saved(z, s) ==
  Peek(z, s.sp - 66) = s.flags /\ \A i \in Round : Has(z, s, i)

LEMMA SavedKept ==
  ASSUME NEW s, s.sp \in Int, NEW y, NEW z, Saved(y, s), Alike(z, y, s.sp - 66)
  PROVE  Saved(z, s)
<1>1. PICK n \in Int : n = s.sp - 66
  OBVIOUS
<1>2. Peek(z, n) = Peek(y, n)
  BY <1>1, AlikePeek
<1>3. ASSUME NEW i \in Round PROVE Has(z, s, i)
  <2>1. Has(y, s, i) /\ n <= s.sp - 2 * i /\ Alike(z, y, n)
    BY <1>1, RoundInt DEF Saved
  <2> QED BY <2>1, HasKept
<1> QED BY <1>1, <1>2, <1>3 DEF Saved

LEMMA SaveAllIs ==
  ASSUME NEW s, IsState(s), NEW z, z = SaveAll(s)
  PROVE  /\ IsState(z) /\ z.sp = s.sp - SaveWords /\ z.flags = s.flags /\ z.fp = s.fp
         /\ \A q \in Reg : q # 8 => z.x[q] = s.x[q]
         /\ Alike(z, s, s.sp) /\ Saved(z, s)
<1>1. PICK p : p = Pushed(s)
  OBVIOUS
<1>2. /\ IsState(p) /\ p.sp = s.sp - 64 /\ p.flags = s.flags /\ p.fp = s.fp /\ p.x = s.x
      /\ Alike(p, s, s.sp) /\ \A i \in Round : Has(p, s, i)
  BY <1>1, PushedIs
<1>3. s.sp \in Int /\ p.sp \in Int
  BY <1>2 DEF IsState
<1>4. PICK v \in Value : v = p.flags
  BY <1>2 DEF IsState
<1>5. PICK r \in Code : r = 8
  BY CodeIs
<1>6. PICK y : y = Put(p, r, v)
  OBVIOUS
<1>7. /\ IsState(y) /\ y.sp = p.sp /\ y.flags = p.flags /\ y.fp = p.fp /\ y.stack = p.stack
  BY <1>2, <1>6, PutElse
<1>8. \A q \in Reg : y.x[q] = IF q = r THEN v ELSE p.x[q]
  BY <1>2, <1>6, PutReg
<1>9. PICK w : w = StrPre(y, r) /\ w = StrPre(Put(p, 8, p.flags), 8)
  BY <1>4, <1>5, <1>6
<1>10. /\ IsState(w) /\ w.sp = y.sp - 2 /\ w.flags = y.flags /\ w.fp = y.fp /\ w.x = y.x
       /\ Peek(w, y.sp - 2) = X(y, r) /\ Alike(w, y, y.sp - 1)
  BY <1>7, <1>9, StrPreIs
<1>11. PICK n \in Int : n = -8 /\ z = MoveSP(w, n)
  BY <1>1, <1>9 DEF SaveAll
<1>12. /\ IsState(z) /\ z.sp = w.sp + n /\ z.flags = w.flags /\ z.fp = w.fp /\ z.x = w.x
       /\ z.stack = w.stack
  <2>1. IsState(w) /\ z = MoveSP(w, n)
    BY <1>10, <1>11
  <2> QED BY <2>1, MoveIs
<1>13. Alike(z, p, s.sp - 64)
  BY <1>2, <1>3, <1>7, <1>10, <1>11, <1>12 DEF Alike
<1>14. ASSUME NEW i \in Round PROVE Has(z, s, i)
  <2>1. Has(p, s, i) /\ s.sp - 64 \in Int /\ s.sp - 64 <= s.sp - 2 * i
    BY <1>2, <1>3, RoundInt
  <2> QED BY <1>3, <1>13, <2>1, HasKept
<1>15. Peek(z, s.sp - 66) = s.flags
  <2>1. X(y, r) = v
    BY <1>5, <1>8, CodeIs DEF X
  <2>2. Peek(z, s.sp - 66) = Peek(w, s.sp - 66)
    BY <1>12 DEF Peek
  <2>3. y.sp - 2 = s.sp - 66
    BY <1>2, <1>3, <1>7
  <2> QED BY <1>2, <1>4, <1>10, <2>1, <2>2, <2>3
<1>16. Alike(z, s, s.sp)
  BY <1>2, <1>3, <1>13 DEF Alike
<1>17. z.sp = s.sp - SaveWords
  BY <1>2, <1>3, <1>7, <1>10, <1>11, <1>12 DEF SaveWords
<1>18. Saved(z, s)
  BY <1>14, <1>15 DEF Saved
<1>19. \A q \in Reg : q # 8 => z.x[q] = s.x[q]
  BY <1>2, <1>5, <1>8, <1>10, <1>12
<1> QED BY <1>2, <1>7, <1>10, <1>12, <1>16, <1>17, <1>18, <1>19

\* Every register is popped at some turn.
LEMMA EveryRegister ==
  ASSUME NEW q \in Reg
  PROVE  \E j \in Round : q = Pair(33 - j) \/ q = Pair(33 - j) + 1
<1>1. q \in Int /\ 0 <= q /\ q <= 30
  BY DEF Reg
<1>2. PICK k \in Int : 0 <= k /\ k <= 15 /\ (q = 2 * k \/ q = 2 * k + 1)
  <2>1. q \div 2 \in Int /\ 0 <= q \div 2 /\ q \div 2 <= 15
        /\ (q = 2 * (q \div 2) \/ q = 2 * (q \div 2) + 1)
    BY <1>1
  <2> QED BY <2>1
<1>3. PICK j \in Int : j = 32 - k
  BY <1>2
<1>4. j \in Round /\ 33 - j \in Round /\ 33 - j <= 16 /\ 2 * (33 - j - 1) = 2 * k
  BY <1>2, <1>3, RoundIs
<1>5. Pair(33 - j) = 2 * k
  <2>1. PICK i \in Round : i = 33 - j
    BY <1>4
  <2>2. Pair(i) = 2 * (i - 1)
    BY <1>4, <2>1, PairIs
  <2> QED BY <1>2, <1>3, <2>1, <2>2
<1> QED BY <1>2, <1>4, <1>5

LEMMA PoppedIs ==
  ASSUME NEW b, IsState(b), NEW s, IsState(s), s.sp = b.sp - 64,
         NEW p, p = Popped(s)
  PROVE  /\ IsState(p) /\ p.sp = b.sp /\ p.flags = s.flags /\ p.fp = s.fp
         /\ p.stack = s.stack
         /\ (\A i \in Round : Has(s, b, i)) => \A q \in Reg : p.x[q] = b.x[q]
<1> DEFINE H == \A i \in Round : Has(s, b, i)
<1>1. PICK z : Steps(z, "pop", s, 32) /\ p = z[32]
  BY PoppedMade
<1>2. PICK n \in Nat : n = 32
  OBVIOUS
<1>3. z[0] = s /\ \A i \in 1..n : z[i] = LdpPost(z[i - 1], Pair(33 - i), Pair(33 - i) + 1)
  BY <1>1, <1>2 DEF Steps, Turn
<1>4. b.sp \in Int
  BY DEF IsState
<1> DEFINE Good(y, i) ==
             /\ IsState(y) /\ y.sp = b.sp - 64 + 2 * i /\ y.flags = s.flags
             /\ y.fp = s.fp /\ y.stack = s.stack
             /\ H => \A q \in Reg, j \in Round :
                  j <= i /\ (q = Pair(33 - j) \/ q = Pair(33 - j) + 1) => y.x[q] = b.x[q]
           T == {i \in 0..n : Good(z[i], i)}
<1> HIDE DEF H
<1>5. Good(s, 0)
  BY <1>4, RoundInt
<1>6. ASSUME NEW i \in 1..n, NEW y, NEW w, Good(y, i - 1),
             w = LdpPost(y, Pair(33 - i), Pair(33 - i) + 1)
      PROVE  Good(w, i)
  <2>1. i \in Round /\ 33 - i \in Round
    BY <1>2, RoundIs
  <2>2. PICK f \in Round : f = 33 - i
    BY <2>1
  <2>3. PICK c \in Code, d \in Code : c = Pair(f) /\ d = Pair(f) + 1
    BY PairIs
  <2>4. IsState(y) /\ w = LdpPost(y, c, d)
    BY <1>6, <2>2, <2>3
  <2>5. /\ IsState(w) /\ w.sp = y.sp + 2 /\ w.flags = y.flags /\ w.fp = y.fp
        /\ w.stack = y.stack
    BY <2>4, LdpPostElse
  <2>6. \A q \in Reg : LdpPost(y, c, d).x[q] = IF q = d THEN Peek(y, y.sp + 1)
                                               ELSE IF q = c THEN Peek(y, y.sp) ELSE y.x[q]
    BY <2>4, LdpPostReg
  <2>7. ASSUME H PROVE Peek(y, y.sp) = X(b, c) /\ Peek(y, y.sp + 1) = X(b, d)
    <3>1. y.stack = s.stack /\ y.sp = b.sp - 64 + 2 * (i - 1)
      BY <1>6
    <3>2. y.sp = b.sp - 2 * f /\ y.sp + 1 = b.sp - 2 * f + 1
      BY <1>4, <2>2, <3>1
    <3>3. Peek(y, y.sp) = Peek(s, y.sp) /\ Peek(y, y.sp + 1) = Peek(s, y.sp + 1)
      BY <3>1 DEF Peek
    <3>4. Has(s, b, f)
      BY <2>7 DEF H
    <3> QED BY <2>3, <3>2, <3>3, <3>4 DEF Has
  <2>8. ASSUME H, NEW q \in Reg PROVE w.x[q] = IF q = c \/ q = d THEN b.x[q] ELSE y.x[q]
    <3>1. X(b, q) = b.x[q]
      BY DEF X, Reg
    <3> QED BY <2>4, <2>6, <2>7, <2>8, <3>1
  <2>9. ASSUME H, NEW q \in Reg, NEW j \in Round, j <= i, q = Pair(33 - j) \/ q = Pair(33 - j) + 1
        PROVE  w.x[q] = b.x[q]
    <3>1. CASE j = i
      BY <2>2, <2>3, <2>8, <2>9, <3>1
    <3>2. CASE j # i
      <4>1. j <= i - 1
        BY <2>9, <3>2, RoundInt
      <4>2. y.x[q] = b.x[q]
        BY <1>6, <2>9, <4>1
      <4> QED BY <2>8, <2>9, <4>2
    <3> QED BY <3>1, <3>2
  <2>10. w.sp = b.sp - 64 + 2 * i
    BY <1>4, <1>6, <2>5
  <2>11. w.flags = s.flags /\ w.fp = s.fp /\ w.stack = s.stack
    BY <1>6, <2>5
  <2> QED BY <2>5, <2>9, <2>10, <2>11
<1> HIDE DEF Good
<1>7. 0 \in T
  BY <1>3, <1>5
<1>8. \A i \in 1..n : i - 1 \in T => i \in T
  BY <1>3, <1>6
<1> HIDE DEF T
<1>9. \A i \in 0..n : i \in T
  BY <1>7, <1>8, Upwards
<1>10. Good(p, n)
  BY <1>1, <1>2, <1>9 DEF T
<1>11. ASSUME H, NEW q \in Reg PROVE p.x[q] = b.x[q]
  <2>1. PICK j \in Round : q = Pair(33 - j) \/ q = Pair(33 - j) + 1
    BY EveryRegister
  <2>2. j <= n
    BY <1>2, RoundInt
  <2> QED BY <1>10, <1>11, <2>1, <2>2 DEF Good
<1> QED BY <1>2, <1>4, <1>10, <1>11 DEF Good, H

\* emit_restore_all undoes emit_save_all, where a pair load of x8 and x8 leaves
\* the first word there; only the floating-point registers are not restored.
LEMMA RestoreAllIs ==
  ASSUME NEW b, IsState(b), NEW s, IsState(s), s.sp = b.sp - SaveWords,
         NEW survives \in {0, 1}, NEW p, p = RestoreAll(s, survives)
  PROVE  /\ IsState(p) /\ p.sp = b.sp /\ p.fp = s.fp /\ p.stack = s.stack
         /\ survives = 0 /\ Saved(s, b) =>
              p.flags = b.flags /\ \A q \in Reg : p.x[q] = b.x[q]
<1>1. b.sp \in Int /\ survives \in Int
  BY DEF IsState
<1> PICK k \in Int, l \in Int : k = 8 /\ l = 2
  OBVIOUS
<1>2. PICK open : open = MoveSP(s, k)
  OBVIOUS
<1>3. /\ IsState(open) /\ open.sp = s.sp + k /\ open.fp = s.fp /\ open.stack = s.stack
  BY <1>2, MoveIs
<1>4. PICK n \in Int : n = b.sp - 66 + survives /\ n = open.sp + survives
  BY <1>1, <1>2, <1>3 DEF SaveWords
<1>5. PICK v \in Value : v = Peek(open, n)
  BY <1>3, PeekTyped
<1>6. ASSUME survives = 0, Saved(s, b) PROVE v = b.flags
  <2>1. Peek(open, n) = Peek(s, n) /\ n = b.sp - 66
    BY <1>1, <1>3, <1>4, <1>6 DEF Peek
  <2> QED BY <1>5, <1>6, <2>1 DEF Saved
<1>7. PICK r \in Code : r = 8
  BY CodeIs
<1>8. PICK y : y = Put(open, r, v)
  OBVIOUS
<1>9. IsState(y) /\ y.sp = open.sp /\ y.fp = open.fp /\ y.stack = open.stack
  BY <1>3, <1>8, PutElse
<1>10. \A q \in Reg : y.x[q] = IF q = r THEN v ELSE open.x[q]
  BY <1>3, <1>8, PutReg
<1>11. PICK read : read = MoveSP(y, l)
  OBVIOUS
<1>12. /\ IsState(read) /\ read.sp = y.sp + l /\ read.fp = y.fp /\ read.stack = y.stack
       /\ read.x = y.x
  BY <1>9, <1>11, MoveIs
<1>13. read.x[8] = v
  BY <1>7, <1>10, <1>12 DEF Reg
<1>14. PICK w : w = [read EXCEPT !.flags = read.x[8]]
  OBVIOUS
<1>15. /\ IsState(w) /\ w.sp = read.sp /\ w.fp = read.fp /\ w.stack = read.stack
       /\ w.flags = v
  BY <1>12, <1>13, <1>14 DEF IsState
<1>16. p = Popped(w)
  BY <1>2, <1>4, <1>5, <1>7, <1>8, <1>11, <1>14 DEF RestoreAll
<1>17. w.sp = b.sp - 64
  BY <1>1, <1>3, <1>9, <1>12, <1>15 DEF SaveWords
<1>18. w.stack = s.stack /\ w.fp = s.fp
  BY <1>3, <1>9, <1>12, <1>15
<1>19. /\ IsState(p) /\ p.sp = b.sp /\ p.flags = w.flags /\ p.fp = w.fp
       /\ p.stack = w.stack
       /\ (\A i \in Round : Has(w, b, i)) => \A q \in Reg : p.x[q] = b.x[q]
  BY <1>15, <1>16, <1>17, PoppedIs
<1>20. Saved(s, b) => \A i \in Round : Has(w, b, i)
  BY <1>18 DEF Saved, Has, Peek
<1> QED BY <1>6, <1>15, <1>18, <1>19, <1>20

\* A C function has been called.
LEMMA CalledIs ==
  ASSUME NEW s, IsState(s), NEW v \in Value, NEW z, z = Called(s, v)
  PROVE  /\ IsState(z) /\ z.sp = s.sp /\ z.flags = Nothing
         /\ \A q \in Reg : z.x[q] = IF q = 0 THEN v
                                    ELSE IF q \in CheckSpoils THEN Nothing ELSE s.x[q]
         /\ Alike(z, s, s.sp)
<1>1. /\ DOMAIN z = DOMAIN s /\ z.sp = s.sp /\ z.flags = Nothing /\ z.fp = Nothing
      /\ z.x = [r \in Reg |-> IF r = 0 THEN v
                              ELSE IF r \in CheckSpoils THEN Nothing ELSE s.x[r]]
      /\ z.stack = [a \in DOMAIN s.stack |-> IF a < s.sp THEN Nothing ELSE s.stack[a]]
  BY DEF Called, IsState
<1>2. /\ DOMAIN z.x = Reg
      /\ \A q \in Reg : z.x[q] = IF q = 0 THEN v
                                 ELSE IF q \in CheckSpoils THEN Nothing ELSE s.x[q]
  BY <1>1
<1>3. /\ DOMAIN z.stack = DOMAIN s.stack
      /\ \A a \in DOMAIN s.stack : z.stack[a] = IF a < s.sp THEN Nothing ELSE s.stack[a]
  BY <1>1
<1>4. IsState(z)
  <2>1. \A q \in Reg : z.x[q] \in Value
    BY <1>2, ValueMade DEF IsState
  <2>2. \A a \in DOMAIN z.stack : a \in Int /\ z.stack[a] \in Value
    BY <1>3, ValueMade DEF IsState
  <2> QED BY <1>1, <1>2, <2>1, <2>2, ValueMade DEF IsState
<1>5. Alike(z, s, s.sp)
  BY <1>3 DEF Alike, IsState
<1> QED BY <1>1, <1>2, <1>4, <1>5

(***************************************************************************)
(* Loading the arguments.                                                  *)
(***************************************************************************)
LEMMA ArgsInt == Args \subseteq Int /\ \A k \in Args : 0 <= k /\ k <= 7
BY DEF Args

LEMMA ArgsAre == \A k \in Int : 0 <= k /\ k <= 7 => k \in Args
BY DEF Args

LEMMA RegInt == Reg \subseteq Int /\ \A r \in Reg : 0 <= r /\ r <= 30
BY DEF Reg

LEMMA RegsAre == \A r \in Int : 0 <= r /\ r <= 30 => r \in Reg
BY DEF Reg

LEMMA PlaceIs ==
  ASSUME locs \in Layouts, NEW k \in Args
  PROVE  /\ locs[k].kind \in {"reg", "slot", "unknown"}
         /\ locs[k].reg \in Code /\ locs[k].off \in Int
BY RunAssumption DEF Place, Code

LEMMA SaveSourceIs ==
  ASSUME NEW s, IsState(s), locs \in Layouts, NEW k \in Args, NEW z, z = SaveSource(s, k)
  PROVE  /\ IsState(z) /\ z.sp = s.sp /\ z.flags = s.flags /\ z.fp = s.fp /\ z.x = s.x
         /\ Moved(k) => Peek(z, s.sp + k) = X(s, locs[k].reg)
         /\ \A a \in Int : a # s.sp + k => /\ a \in DOMAIN z.stack <=> a \in DOMAIN s.stack
                                           /\ a \in DOMAIN s.stack => z.stack[a] = s.stack[a]
                                           /\ Peek(z, a) = Peek(s, a)
<1>1. CASE ~Moved(k)
  BY <1>1 DEF SaveSource
<1>2. CASE Moved(k)
  <2>1. PICK a \in Int : a = s.sp + k
    BY ArgsInt DEF IsState
  <2>2. PICK v \in Value : v = X(s, locs[k].reg)
    BY PlaceIs, XTyped
  <2>3. z = Poke(s, a, v)
    BY <1>2, <2>1, <2>2 DEF SaveSource
  <2> QED BY <2>1, <2>2, <2>3, PokeIs
<1> QED BY <1>1, <1>2

LEMMA SourcesIs ==
  ASSUME NEW s, IsState(s), locs \in Layouts, NEW p, p = SaveSources(s)
  PROVE  /\ IsState(p) /\ p.sp = s.sp /\ p.flags = s.flags /\ p.fp = s.fp /\ p.x = s.x
         /\ Alike(p, s, s.sp + 8)
         /\ \A k \in Args : Moved(k) => Peek(p, s.sp + k) = X(s, locs[k].reg)
<1>1. PICK z : Steps(z, "save", s, 8) /\ p = z[8]
  BY SourcesMade
<1>2. PICK n \in Nat : n = 8
  OBVIOUS
<1>3. z[0] = s /\ \A i \in 1..n : z[i] = SaveSource(z[i - 1], i - 1)
  BY <1>1, <1>2 DEF Steps, Turn
<1>4. s.sp \in Int
  BY DEF IsState
<1> DEFINE Good(y, i) ==
             /\ IsState(y) /\ y.sp = s.sp /\ y.flags = s.flags /\ y.fp = s.fp /\ y.x = s.x
             /\ Alike(y, s, s.sp + 8)
             /\ \A k \in Args : k < i /\ Moved(k) => Peek(y, s.sp + k) = X(s, locs[k].reg)
           T == {i \in 0..n : Good(z[i], i)}
<1>5. Good(s, 0)
  BY <1>4, AlikeSame, ArgsInt
<1>6. ASSUME NEW i \in 1..n, NEW y, NEW w, Good(y, i - 1), w = SaveSource(y, i - 1)
      PROVE  Good(w, i)
  <2>1. PICK k \in Args : k = i - 1
    BY <1>2, ArgsAre
  <2>2. IsState(y) /\ w = SaveSource(y, k)
    BY <1>6, <2>1
  <2>3. /\ IsState(w) /\ w.sp = y.sp /\ w.flags = y.flags /\ w.fp = y.fp /\ w.x = y.x
        /\ Moved(k) => Peek(w, y.sp + k) = X(y, locs[k].reg)
        /\ \A a \in Int : a # y.sp + k => /\ a \in DOMAIN w.stack <=> a \in DOMAIN y.stack
                                          /\ a \in DOMAIN y.stack => w.stack[a] = y.stack[a]
                                          /\ Peek(w, a) = Peek(y, a)
    BY <2>2, SaveSourceIs
  <2>4. y.sp = s.sp /\ y.x = s.x /\ Alike(y, s, s.sp + 8)
    BY <1>6
  <2>5. Alike(w, s, s.sp + 8)
    <3>1. \A a \in Int : a >= s.sp + 8 => a # y.sp + k
      BY <1>4, <2>4, ArgsInt
    <3> QED BY <2>3, <2>4, <3>1 DEF Alike
  <2>6. ASSUME NEW j \in Args, j < i, Moved(j) PROVE Peek(w, s.sp + j) = X(s, locs[j].reg)
    <3>1. CASE j = k
      BY <2>3, <2>4, <2>6, <3>1, SameX
    <3>2. CASE j # k
      <4>1. j < i - 1 /\ s.sp + j \in Int /\ s.sp + j # y.sp + k
        BY <1>4, <2>1, <2>4, <2>6, <3>2, ArgsInt
      <4>2. Peek(y, s.sp + j) = X(s, locs[j].reg)
        BY <1>6, <2>6, <4>1
      <4> QED BY <2>3, <4>1, <4>2
    <3> QED BY <3>1, <3>2
  <2>7. w.sp = s.sp /\ w.flags = s.flags /\ w.fp = s.fp /\ w.x = s.x
    BY <1>6, <2>3
  <2> QED BY <2>3, <2>5, <2>6, <2>7
<1> HIDE DEF Good
<1>7. 0 \in T
  BY <1>3, <1>5
<1>8. \A i \in 1..n : i - 1 \in T => i \in T
  BY <1>3, <1>6
<1> HIDE DEF T
<1>9. \A i \in 0..n : i \in T
  BY <1>7, <1>8, Upwards
<1>10. Good(p, n)
  BY <1>1, <1>2, <1>9 DEF T
<1>11. \A k \in Args : k < n
  BY <1>2, ArgsInt
<1> QED BY <1>10, <1>11 DEF Good

LEMMA EmAddrTyped ==
  ASSUME NEW s, IsState(s), NEW base \in Code, NEW off \in Int
  PROVE  EmAddr(s, base, off) \in Value
<1>1. PICK b : b = BaseValue(s, base, off \notin (-ImmWords)..ImmWords)
  OBVIOUS
<1>2. b \in Value
  <2>1. base # 31 => s.x[base] \in Value
    BY CodeIs DEF IsState
  <2>2. s.sp \in Int
    BY DEF IsState
  <2>3. Addr(s.sp) \in Value
    BY <2>2, ValueMade
  <2> QED BY <1>1, <2>1, <2>3, ValueMade DEF BaseValue
<1>3. EmAddr(s, base, off) =
        IF b[1] \in {"addr", "num"} THEN <<b[1], b[2] + off, 0>> ELSE Nothing
  BY <1>1 DEF EmAddr
<1>4. b[2] + off \in Int
  BY <1>2 DEF Value
<1>5. CASE b[1] \in {"addr", "num"}
  BY <1>3, <1>4, <1>5 DEF Value
<1> QED BY <1>3, <1>5, ValueMade

LEMMA SlotLoadIs ==
  ASSUME NEW s, IsState(s), NEW d \in Code, NEW base \in Code, NEW off \in Int,
         NEW z, z = SlotLoad(s, d, base, off)
  PROVE  /\ IsState(z) /\ z.sp = s.sp /\ z.flags = s.flags /\ z.fp = s.fp /\ z.stack = s.stack
         /\ \A q \in Reg : q # d /\ q # 16 => z.x[q] = s.x[q]
         /\ \A n \in Int : d \in Reg /\ EmAddr(s, base, off) = Addr(n) => z.x[d] = Peek(s, n)
<1>1. PICK e \in Value : e = EmAddr(s, base, off)
  BY EmAddrTyped
<1>2. PICK r \in Code : r = 16
  BY CodeIs
<1>3. PICK y : y = Put(s, r, e)
  OBVIOUS
<1>4. /\ IsState(y) /\ y.sp = s.sp /\ y.flags = s.flags /\ y.fp = s.fp /\ y.stack = s.stack
  BY <1>3, PutElse
<1>5. \A q \in Reg : y.x[q] = IF q = r THEN e ELSE s.x[q]
  BY <1>3, PutReg
<1>6. y.x[IP0] = e
  BY <1>2, <1>5, CodeIs DEF IP0, Reg
<1>7. PICK v : v = IF e[1] = "addr" THEN Peek(y, e[2]) ELSE Nothing
  OBVIOUS
<1>8. v \in Value
  <2>1. PICK n \in Int : n = e[2]
    BY DEF Value
  <2>2. Peek(y, n) \in Value
    BY <1>4, PeekTyped
  <2> QED BY <1>7, <2>1, <2>2, ValueMade
<1>9. z = Put(y, d, v)
  <2>1. y = Put(s, IP0, EmAddr(s, base, off))
    BY <1>1, <1>2, <1>3 DEF IP0
  <2> QED BY <1>6, <1>7, <2>1 DEF SlotLoad
<1>10. /\ IsState(z) /\ z.sp = y.sp /\ z.flags = y.flags /\ z.fp = y.fp /\ z.stack = y.stack
  <2>1. Steady(Put(y, d, v), y)
    BY <1>4, <1>8, PutSteady
  <2> QED BY <1>9, <2>1 DEF Steady
<1>11. \A q \in Reg : z.x[q] = IF q = d THEN v ELSE y.x[q]
  BY <1>4, <1>9, PutReg
<1>12. ASSUME NEW n \in Int, d \in Reg, e = Addr(n) PROVE z.x[d] = Peek(s, n)
  <2>1. e[1] = "addr" /\ e[2] = n
    BY <1>12 DEF Addr
  <2>2. v = Peek(y, n)
    BY <1>7, <2>1
  <2>3. Peek(y, n) = Peek(s, n)
    BY <1>4 DEF Peek
  <2> QED BY <1>11, <1>12, <2>2, <2>3
<1>13. \A q \in Reg : q # d /\ q # 16 => z.x[q] = s.x[q]
  BY <1>2, <1>5, <1>11
<1> QED BY <1>1, <1>4, <1>10, <1>12, <1>13

\* Word n of the stack, counted from the entry of the function, is the slot of
\* argument k as em_addr addresses it when the registers have been saved.
PointsTo(s, k, n) ==
  IF locs[k].reg = 31
  THEN locs[k].off + SaveWords \in (-ImmWords)..ImmWords /\ n = s.sp + SaveWords + locs[k].off
  ELSE s.x[locs[k].reg] = Addr(n - locs[k].off)

LEMMA LoadSlotIs ==
  ASSUME NEW s, IsState(s), locs \in Layouts, NEW k \in Args, NEW z, z = LoadSlot(s, k)
  PROVE  /\ IsState(z) /\ z.sp = s.sp /\ z.flags = s.flags /\ z.fp = s.fp /\ z.stack = s.stack
         /\ \A q \in Reg : q # 8 + k /\ q # 16 => z.x[q] = s.x[q]
         /\ \A n \in Int : locs[k].kind = "slot" /\ PointsTo(s, k, n) => z.x[8 + k] = Peek(s, n)
<1>1. CASE locs[k].kind # "slot"
  BY <1>1 DEF LoadSlot
<1>2. CASE locs[k].kind = "slot"
  <2>1. PICK base \in Code, off \in Int :
          /\ base = locs[k].reg
          /\ off = locs[k].off + (IF locs[k].reg = 31 THEN SaveWords ELSE 0)
    BY PlaceIs DEF SaveWords
  <2>2. PICK d \in Code : d = 8 + k /\ d \in Reg
    BY CodeIs, ArgsInt, RegsAre
  <2>3. z = SlotLoad(s, d, base, off)
    BY <1>2, <2>1, <2>2 DEF LoadSlot
  <2>4. /\ IsState(z) /\ z.sp = s.sp /\ z.flags = s.flags /\ z.fp = s.fp /\ z.stack = s.stack
        /\ \A q \in Reg : q # d /\ q # 16 => z.x[q] = s.x[q]
        /\ \A n \in Int : d \in Reg /\ EmAddr(s, base, off) = Addr(n) => z.x[d] = Peek(s, n)
    <3>1. /\ IsState(z) /\ z.sp = s.sp /\ z.flags = s.flags /\ z.fp = s.fp
          /\ z.stack = s.stack
      BY <2>3, SlotLoadIs
    <3>2. \A q \in Reg : q # d /\ q # 16 => z.x[q] = s.x[q]
      BY <2>3, SlotLoadIs
    <3>3. \A n \in Int : d \in Reg /\ EmAddr(s, base, off) = Addr(n) => z.x[d] = Peek(s, n)
      BY <2>3, SlotLoadIs
    <3> QED BY <3>1, <3>2, <3>3
  <2>5. ASSUME NEW n \in Int, PointsTo(s, k, n) PROVE EmAddr(s, base, off) = Addr(n)
    <3>1. PICK c \in Int : BaseValue(s, base, off \notin (-ImmWords)..ImmWords) = Addr(c)
                           /\ c + off = n
      <4>1. CASE base = 31
        <5>1. off \in (-ImmWords)..ImmWords /\ n = s.sp + off
          BY <2>1, <2>5, <4>1, PlaceIs DEF PointsTo, IsState, SaveWords
        <5> QED BY <4>1, <5>1 DEF BaseValue, IsState
      <4>2. CASE base # 31
        <5>1. off = locs[k].off /\ s.x[base] = Addr(n - off)
          BY <2>1, <2>5, <4>2, PlaceIs DEF PointsTo
        <5>2. PICK c \in Int : c = n - off
          OBVIOUS
        <5> QED BY <4>2, <5>1, <5>2 DEF BaseValue
      <4> QED BY <4>1, <4>2
    <3> QED BY <3>1 DEF EmAddr, Addr
  <2> QED BY <2>2, <2>4, <2>5
<1> QED BY <1>1, <1>2

LEMMA LoadsIs ==
  ASSUME NEW s, IsState(s), locs \in Layouts, NEW p, p = LoadSlots(s)
  PROVE  /\ Steady(p, s)
         /\ \A q \in Reg : q < 8 \/ q > 16 => p.x[q] = s.x[q]
         /\ \A k \in Args, n \in Int :
              /\ locs[k].kind = "slot" /\ PointsTo(s, k, n)
              /\ locs[k].reg < 8 \/ locs[k].reg > 16
              => p.x[8 + k] = Peek(s, n)
<1>1. PICK z : Steps(z, "load", s, 8) /\ p = z[8]
  BY LoadsMade
<1>2. PICK e \in Nat : e = 8
  OBVIOUS
<1>3. z[0] = s /\ \A i \in 1..e : z[i] = LoadSlot(z[i - 1], i - 1)
  BY <1>1, <1>2 DEF Steps, Turn
<1> DEFINE Clear(k, n) == /\ locs[k].kind = "slot" /\ PointsTo(s, k, n)
                          /\ locs[k].reg < 8 \/ locs[k].reg > 16
           Good(y, i) ==
             /\ Steady(y, s)
             /\ \A q \in Reg : q < 8 \/ q > 16 => y.x[q] = s.x[q]
             /\ \A k \in Args, n \in Int : k < i /\ Clear(k, n) => y.x[8 + k] = Peek(s, n)
           T == {i \in 0..e : Good(z[i], i)}
<1>4. Good(s, 0)
  BY ArgsInt DEF Steady
<1>5. ASSUME NEW i \in 1..e, NEW y, NEW w, Good(y, i - 1), w = LoadSlot(y, i - 1)
      PROVE  Good(w, i)
  <2>1. PICK k \in Args : k = i - 1
    BY <1>2, ArgsAre
  <2>2. IsState(y) /\ w = LoadSlot(y, k)
    BY <1>5, <2>1 DEF Steady
  <2>3. /\ IsState(w) /\ w.sp = y.sp /\ w.flags = y.flags /\ w.fp = y.fp /\ w.stack = y.stack
    BY <2>2, LoadSlotIs
  <2>4. \A q \in Reg : q # 8 + k /\ q # 16 => w.x[q] = y.x[q]
    BY <2>2, LoadSlotIs
  <2>5. \A n \in Int : locs[k].kind = "slot" /\ PointsTo(y, k, n) => w.x[8 + k] = Peek(y, n)
    BY <2>2, LoadSlotIs
  <2>6. Steady(w, s)
    BY <1>5, <2>3 DEF Steady
  <2>7. ASSUME NEW q \in Reg, q < 8 \/ q > 16 PROVE w.x[q] = s.x[q]
    <3>1. q # 8 + k /\ q # 16
      BY <2>7, ArgsInt, RegInt
    <3> QED BY <1>5, <2>4, <2>7, <3>1
  <2>8. ASSUME NEW j \in Args, NEW n \in Int, j < i, Clear(j, n) PROVE w.x[8 + j] = Peek(s, n)
    <3>1. CASE j = k
      <4>1. PointsTo(y, k, n)
        <5>1. y.sp = s.sp
          BY <1>5 DEF Steady
        <5>2. locs[k].reg # 31 => y.x[locs[k].reg] = s.x[locs[k].reg]
          BY <1>5, <2>8, <3>1, PlaceIs, CodeIs
        <5> QED BY <2>8, <3>1, <5>1, <5>2 DEF PointsTo
      <4>2. Peek(y, n) = Peek(s, n)
        BY <1>5 DEF Steady, Peek
      <4> QED BY <2>5, <2>8, <3>1, <4>1, <4>2
    <3>2. CASE j # k
      <4>1. j < i - 1 /\ 8 + j \in Reg /\ 8 + j # 8 + k /\ 8 + j # 16
        BY <2>1, <2>8, <3>2, ArgsInt, RegsAre
      <4>2. y.x[8 + j] = Peek(s, n)
        BY <1>5, <2>8, <4>1
      <4> QED BY <2>4, <4>1, <4>2
    <3> QED BY <3>1, <3>2
  <2> QED BY <2>6, <2>7, <2>8
<1> HIDE DEF Good
<1>6. 0 \in T
  BY <1>3, <1>4
<1>7. \A i \in 1..e : i - 1 \in T => i \in T
  BY <1>3, <1>5
<1> HIDE DEF T
<1>8. \A i \in 0..e : i \in T
  BY <1>6, <1>7, Upwards
<1>9. Good(p, e)
  BY <1>1, <1>2, <1>8 DEF T
<1>10. \A k \in Args : k < e
  BY <1>2, ArgsInt
<1> QED BY <1>9, <1>10 DEF Good

\* What argument register k holds in the end.
Loaded(s, k) ==
  IF Moved(k) THEN Peek(s, s.sp + k)
  ELSE IF locs[k].kind = "slot" THEN s.x[8 + k]
  ELSE IF locs[k].kind = "unknown" THEN Zero
  ELSE s.x[k]

LEMMA AssembleIs ==
  ASSUME NEW s, IsState(s), NEW k \in Args, NEW z, z = Assemble(s, k)
  PROVE  /\ Steady(z, s) /\ \A q \in Reg : q # k => z.x[q] = s.x[q]
         /\ z.x[k] = Loaded(s, k)
<1>1. PICK r \in Code : r = k /\ r \in Reg
  BY ArgsInt, RegsAre, CodeIs
<1>2. ASSUME NEW v \in Value, z = Put(s, r, v), v = Loaded(s, k)
      PROVE  /\ Steady(z, s) /\ \A q \in Reg : q # k => z.x[q] = s.x[q]
             /\ z.x[k] = Loaded(s, k)
  <2>1. Steady(Put(s, r, v), s)
    BY PutSteady
  <2>2. \A q \in Reg : Put(s, r, v).x[q] = IF q = r THEN v ELSE s.x[q]
    BY PutReg
  <2> QED BY <1>1, <1>2, <2>1, <2>2
<1>3. CASE Moved(k)
  <2>1. s.sp + k \in Int
    BY ArgsInt DEF IsState
  <2>2. PICK v \in Value : v = Peek(s, s.sp + k)
    BY <2>1, PeekTyped
  <2>3. v = Loaded(s, k)
    BY <1>3, <2>2 DEF Loaded
  <2>4. locs[k].kind # "slot" /\ locs[k].kind # "unknown"
    BY <1>3 DEF Moved
  <2>5. z = Put(s, r, v)
    BY <1>1, <1>3, <2>2, <2>4 DEF Assemble
  <2> QED BY <1>2, <2>3, <2>5
<1>4. CASE ~Moved(k) /\ locs[k].kind = "slot"
  <2>1. 8 + k \in Reg /\ 8 + k # 31
    BY ArgsInt, RegsAre
  <2>2. PICK v \in Value : v = X(s, 8 + k) /\ v = s.x[8 + k]
    BY <2>1 DEF X, IsState
  <2>3. z = Put(s, r, v) /\ v = Loaded(s, k)
    BY <1>1, <1>4, <2>2 DEF Assemble, Loaded
  <2> QED BY <1>2, <2>3
<1>5. CASE ~Moved(k) /\ locs[k].kind = "unknown"
  <2>1. PICK v \in Value : v = Zero
    BY ValueMade
  <2>2. z = Put(s, r, v) /\ v = Loaded(s, k)
    BY <1>1, <1>5, <2>1 DEF Assemble, Loaded
  <2> QED BY <1>2, <2>2
<1>6. CASE ~Moved(k) /\ locs[k].kind # "slot" /\ locs[k].kind # "unknown"
  BY <1>1, <1>6 DEF Assemble, Loaded, Steady
<1> QED BY <1>3, <1>4, <1>5, <1>6

LEMMA AssembledIs ==
  ASSUME NEW s, IsState(s), NEW p, p = AssembleAll(s)
  PROVE  /\ Steady(p, s) /\ \A q \in Reg : q > 7 => p.x[q] = s.x[q]
         /\ \A k \in Args : p.x[k] = Loaded(s, k)
<1>1. PICK z : Steps(z, "assemble", s, 8) /\ p = z[8]
  BY AssembledMade
<1>2. PICK e \in Nat : e = 8
  OBVIOUS
<1>3. z[0] = s /\ \A i \in 1..e : z[i] = Assemble(z[i - 1], i - 1)
  BY <1>1, <1>2 DEF Steps, Turn
<1> DEFINE Good(y, i) ==
             /\ Steady(y, s)
             /\ \A q \in Reg : q >= i => y.x[q] = s.x[q]
             /\ \A k \in Args : k < i => y.x[k] = Loaded(s, k)
           T == {i \in 0..e : Good(z[i], i)}
<1>4. Good(s, 0)
  BY ArgsInt DEF Steady
<1>5. ASSUME NEW i \in 1..e, NEW y, NEW w, Good(y, i - 1), w = Assemble(y, i - 1)
      PROVE  Good(w, i)
  <2>1. PICK k \in Args : k = i - 1 /\ k \in Reg
    BY <1>2, ArgsAre, RegsAre
  <2>2. IsState(y) /\ w = Assemble(y, k)
    BY <1>5, <2>1 DEF Steady
  <2>3. /\ Steady(w, y) /\ \A q \in Reg : q # k => w.x[q] = y.x[q]
        /\ w.x[k] = Loaded(y, k)
    <3>1. Steady(w, y)
      BY <2>2, AssembleIs
    <3>2. \A q \in Reg : q # k => w.x[q] = y.x[q]
      BY <2>2, AssembleIs
    <3>3. w.x[k] = Loaded(y, k)
      BY <2>2, AssembleIs
    <3> QED BY <3>1, <3>2, <3>3
  <2>4. Steady(w, s)
    BY <1>5, <2>3 DEF Steady
  <2>5. Loaded(y, k) = Loaded(s, k)
    <3>1. y.sp = s.sp /\ y.stack = s.stack
      BY <1>5 DEF Steady
    <3>2. Peek(y, y.sp + k) = Peek(s, s.sp + k)
      BY <3>1 DEF Peek
    <3>3. y.x[k] = s.x[k] /\ y.x[8 + k] = s.x[8 + k]
      BY <1>5, <2>1, ArgsInt, RegsAre
    <3> QED BY <3>2, <3>3 DEF Loaded
  <2>6. ASSUME NEW q \in Reg, q >= i PROVE w.x[q] = s.x[q]
    <3>1. q # k /\ q >= i - 1
      BY <2>1, <2>6, RegInt
    <3> QED BY <1>5, <2>3, <3>1
  <2>7. ASSUME NEW j \in Args, j < i PROVE w.x[j] = Loaded(s, j)
    <3>1. CASE j = k
      BY <2>3, <2>5, <3>1
    <3>2. CASE j # k
      <4>1. j < i - 1 /\ j \in Reg
        BY <2>1, <2>7, <3>2, ArgsInt, RegsAre
      <4> QED BY <1>5, <2>3, <3>2, <4>1
    <3> QED BY <3>1, <3>2
  <2> QED BY <2>4, <2>6, <2>7
<1> HIDE DEF Good
<1>6. 0 \in T
  BY <1>3, <1>4
<1>7. \A i \in 1..e : i - 1 \in T => i \in T
  BY <1>3, <1>5
<1> HIDE DEF T
<1>8. \A i \in 0..e : i \in T
  BY <1>6, <1>7, Upwards
<1>9. Good(p, e)
  BY <1>1, <1>2, <1>8 DEF T
<1>10. \A k \in Args : k < e
  BY <1>2, ArgsInt
<1>11. \A q \in Reg : q > 7 => q >= e
  BY <1>2, RegInt
<1> QED BY <1>9, <1>10, <1>11 DEF Good

LEMMA ArgsLoadIs ==
  ASSUME NEW s, IsState(s), locs \in Layouts, NEW p, p = ArgsLoad(s)
  PROVE  /\ IsState(p) /\ p.sp = s.sp /\ Alike(p, s, s.sp + 8)
         /\ \A k \in Args :
              /\ locs[k].kind = "reg" /\ locs[k].reg # 31 => p.x[k] = s.x[locs[k].reg]
              /\ \A n \in Int :
                   /\ locs[k].kind = "slot" /\ PointsTo(s, k, n) /\ n >= s.sp + 8
                   /\ locs[k].reg < 8 \/ locs[k].reg > 16
                   => p.x[k] = Peek(s, n)
              /\ locs[k].kind = "unknown" => p.x[k] = Zero
<1>1. PICK y : y = SaveSources(s)
  OBVIOUS
<1>2. PICK z : z = LoadSlots(y)
  OBVIOUS
<1>3. p = AssembleAll(z)
  BY <1>1, <1>2 DEF ArgsLoad
<1>4. /\ IsState(y) /\ y.sp = s.sp /\ y.flags = s.flags /\ y.fp = s.fp /\ y.x = s.x
      /\ Alike(y, s, s.sp + 8)
      /\ \A k \in Args : Moved(k) => Peek(y, s.sp + k) = X(s, locs[k].reg)
  BY <1>1, SourcesIs
<1>5. Steady(z, y)
  BY <1>2, <1>4, LoadsIs
<1>6. \A q \in Reg : q < 8 \/ q > 16 => z.x[q] = y.x[q]
  BY <1>2, <1>4, LoadsIs
<1>7. \A k \in Args, n \in Int :
        /\ locs[k].kind = "slot" /\ PointsTo(y, k, n)
        /\ locs[k].reg < 8 \/ locs[k].reg > 16
        => z.x[8 + k] = Peek(y, n)
  BY <1>2, <1>4, LoadsIs
<1>8. IsState(z)
  BY <1>5 DEF Steady
<1>9. Steady(p, z) /\ \A k \in Args : p.x[k] = Loaded(z, k)
  BY <1>3, <1>8, AssembledIs
<1>10. IsState(p) /\ p.sp = s.sp /\ p.stack = y.stack /\ z.stack = y.stack /\ z.sp = s.sp
  BY <1>4, <1>5, <1>9 DEF Steady
<1>11. Alike(p, s, s.sp + 8)
  BY <1>4, <1>10 DEF Alike
<1>12. ASSUME NEW k \in Args, locs[k].kind = "reg", locs[k].reg # 31
       PROVE  p.x[k] = s.x[locs[k].reg]
  <2>1. p.x[k] = Loaded(z, k)
    BY <1>9
  <2>2. CASE locs[k].reg = k
    <3>1. ~Moved(k) /\ k \in Reg /\ k < 8
      BY <2>2, ArgsInt, RegsAre DEF Moved
    <3>2. Loaded(z, k) = z.x[k]
      BY <1>12, <3>1 DEF Loaded
    <3> QED BY <1>4, <1>6, <2>1, <2>2, <3>1, <3>2
  <2>3. CASE locs[k].reg # k
    <3>1. Moved(k)
      BY <1>12, <2>3 DEF Moved
    <3>2. Loaded(z, k) = Peek(z, s.sp + k)
      BY <1>10, <3>1 DEF Loaded
    <3>3. Peek(z, s.sp + k) = Peek(y, s.sp + k)
      BY <1>10 DEF Peek
    <3>4. Peek(y, s.sp + k) = X(s, locs[k].reg)
      BY <1>4, <3>1
    <3> QED BY <1>12, <2>1, <3>2, <3>3, <3>4 DEF X
  <2> QED BY <2>2, <2>3
<1>13. ASSUME NEW k \in Args, NEW n \in Int, locs[k].kind = "slot", PointsTo(s, k, n),
              n >= s.sp + 8, locs[k].reg < 8 \/ locs[k].reg > 16
       PROVE  p.x[k] = Peek(s, n)
  <2>1. PointsTo(y, k, n)
    BY <1>4, <1>13 DEF PointsTo
  <2>2. z.x[8 + k] = Peek(y, n)
    BY <1>7, <1>13, <2>1
  <2>3. Peek(y, n) = Peek(s, n)
    BY <1>4, <1>13 DEF Alike, Peek
  <2>4. Loaded(z, k) = z.x[8 + k]
    BY <1>13 DEF Loaded, Moved
  <2> QED BY <1>9, <2>2, <2>3, <2>4
<1>14. ASSUME NEW k \in Args, locs[k].kind = "unknown" PROVE p.x[k] = Zero
  BY <1>9, <1>14 DEF Loaded, Moved
<1> QED BY <1>10, <1>11, <1>12, <1>13, <1>14

(***************************************************************************)
(* The states of a thread, step by step.  A thread at point p has state s; *)
(* b is its state when it last met a patch.                                *)
(***************************************************************************)
Inside == {"store", "stored", "args", "check", "decide"}
Running == {"body", "replay", "callee", "back", "resume", "rest", "after"}

\* Its type.
TypedAt(p, s, b) ==
  /\ IsState(s) /\ IsState(b)
  /\ s.sp = b.sp - (IF p \in Inside THEN SaveWords ELSE 0)

\* The function's own registers and flags are those of b.
AsBefore(s, b, md) ==
  /\ s.flags = b.flags
  /\ \A q \in Reg : q # IP0 /\ (md = "call" => q # 30) => s.x[q] = b.x[q]

\* What the trampolines keep: b is on the stack while they run and in the
\* registers when they are left, and nothing above b's stack pointer changes.
KeptAt(p, s, b, md) ==
  /\ p \in {"entry", "guard"} => s = b
  /\ p \in Inside => Saved(s, Put(b, IP0, Nothing))
  /\ p # "idle" => Alike(s, b, b.sp)
  /\ p \in Running => AsBefore(s, b, md)
  /\ p = "resume" \/ (md = "call" /\ p = "rest") => s.x[30] = Behind
  /\ p \in {"callee", "back", "resume"} => md = "call"
  /\ p = "replay" => md # "call"

LEMMA RestingIs == IsState(Resting) /\ Resting.sp = 0
<1>1. /\ DOMAIN Resting = {"x", "sp", "flags", "fp", "stack"}
      /\ Resting.x = [r \in Reg |-> Nothing] /\ Resting.sp = 0
      /\ Resting.flags = Nothing /\ Resting.fp = Nothing /\ Resting.stack = <<>>
  BY DEF Resting
<1>2. DOMAIN Resting.stack = {}
  BY <1>1
<1> QED BY <1>1, <1>2, ValueMade DEF IsState

LEMMA EnteredIs ==
  ASSUME NEW c \in Int, NEW s, s = Entered(c)
  PROVE  IsState(s) /\ s.sp = 0
<1>1. /\ DOMAIN s = {"x", "sp", "flags", "fp", "stack"}
      /\ s.x = [r \in Reg |-> IF r \in Args THEN Arg(r, c) ELSE Junk(r, c)] /\ s.sp = 0
      /\ s.flags = Junk(32, c) /\ s.fp = Junk(33, c) /\ s.stack = <<>>
  BY DEF Entered
<1>2. DOMAIN s.stack = {}
  BY <1>1
<1>3. \A r \in Reg : s.x[r] \in Value
  BY <1>1, ValueMade, RegInt
<1>4. s.flags \in Value /\ s.fp \in Value
  BY <1>1, ValueMade
<1> QED BY <1>1, <1>2, <1>3, <1>4 DEF IsState

LEMMA SlotAtInt == ASSUME locs \in Layouts, NEW k \in Args PROVE SlotAt(k) \in Int
BY PlaceIs, RunAssumption DEF SlotAt, WordOf

LEMMA AtGuardIs ==
  ASSUME NEW b, IsState(b), locs \in Layouts, NEW c \in Int, NEW v \in Int,
         NEW s, s = AtGuard(b, c, v)
  PROVE  /\ IsState(s) /\ s.sp = -Frame /\ s.x = Holding(c, v)
         /\ \A k \in Slots : Peek(s, SlotAt(k)) =
              Arg(CHOOSE j \in Slots : SlotAt(j) = SlotAt(k), c)
<1> DEFINE D == {SlotAt(k) : k \in Slots} \cup DOMAIN b.stack
           F(a) == IF \E k \in Slots : SlotAt(k) = a
                   THEN Arg(CHOOSE k \in Slots : SlotAt(k) = a, c) ELSE b.stack[a]
<1>1. /\ DOMAIN s = {"x", "sp", "flags", "fp", "stack"}
      /\ s.x = Holding(c, v) /\ s.sp = -Frame
      /\ s.flags = Junk(32, v) /\ s.fp = Junk(33, v) /\ s.stack = [a \in D |-> F(a)]
  BY DEF AtGuard
<1>2. Slots \subseteq Args /\ Slots \subseteq Int
  BY ArgsInt DEF Slots
<1>3. ASSUME NEW a \in D PROVE a \in Int /\ F(a) \in Value
  <2>1. a \in Int
    BY <1>2, SlotAtInt DEF IsState
  <2>2. CASE \E k \in Slots : SlotAt(k) = a
    <3>1. PICK j : j = CHOOSE k \in Slots : SlotAt(k) = a
      OBVIOUS
    <3>2. j \in Int
      BY <1>2, <2>2, <3>1
    <3> QED BY <2>1, <2>2, <3>1, <3>2, ValueMade
  <2>3. CASE ~\E k \in Slots : SlotAt(k) = a
    <3>1. a \in DOMAIN b.stack
      BY <2>3
    <3> QED BY <2>1, <2>3, <3>1 DEF IsState
  <2> QED BY <2>2, <2>3
<1>4. ASSUME NEW r \in Reg PROVE Holding(c, v)[r] \in Value
  <2>1. InRegister(r) \subseteq Int
    BY ArgsInt DEF InRegister
  <2>2. InRegister(r) # {} => (CHOOSE k \in InRegister(r) : TRUE) \in Int
    BY <2>1
  <2>3. r \in Int /\ BaseAt \in Int
    BY RegInt, RunAssumption
  <2> QED BY <2>2, <2>3, ValueMade DEF Holding
<1>5. DOMAIN Holding(c, v) = Reg /\ -Frame \in Int
  BY RunAssumption DEF Holding
<1> HIDE DEF F, D
<1>6. IsState(s)
  BY <1>1, <1>3, <1>4, <1>5, ValueMade DEF IsState
<1>7. ASSUME NEW k \in Slots
      PROVE  Peek(s, SlotAt(k)) = Arg(CHOOSE j \in Slots : SlotAt(j) = SlotAt(k), c)
  <2>1. SlotAt(k) \in D
    BY DEF D
  <2>2. Peek(s, SlotAt(k)) = F(SlotAt(k))
    BY <1>1, <2>1 DEF Peek
  <2> QED BY <2>2 DEF F
<1> QED BY <1>1, <1>6, <1>7

\* A patch sends the thread, in state b, to a trampoline, which saves it.
LEMMA SavingIs ==
  ASSUME NEW b, IsState(b), NEW z, z = SaveAll(Put(b, IP0, Nothing))
  PROVE  /\ IsState(z) /\ z.sp = b.sp - SaveWords /\ Alike(z, b, b.sp)
         /\ Saved(z, Put(b, IP0, Nothing))
         /\ \A q \in Reg : q # 8 /\ q # 16 => z.x[q] = b.x[q]
<1>1. PICK r \in Code, v \in Value : r = IP0 /\ v = Nothing
  BY CodeIs, ValueMade DEF IP0
<1>2. PICK y : y = Put(b, r, v)
  OBVIOUS
<1>3. Steady(y, b)
  BY <1>2, PutSteady
<1>4. \A q \in Reg : y.x[q] = IF q = r THEN v ELSE b.x[q]
  BY <1>2, PutReg
<1>5. IsState(y) /\ z = SaveAll(y)
  BY <1>1, <1>2, <1>3 DEF Steady
<1>6. /\ IsState(z) /\ z.sp = y.sp - SaveWords /\ z.flags = y.flags /\ z.fp = y.fp
      /\ \A q \in Reg : q # 8 => z.x[q] = y.x[q]
      /\ Alike(z, y, y.sp) /\ Saved(z, y)
  BY <1>5, SaveAllIs
<1>7. Alike(z, b, b.sp) /\ z.sp = b.sp - SaveWords
  BY <1>3, <1>6 DEF Steady, Alike
<1>8. \A q \in Reg : q # 8 /\ q # 16 => z.x[q] = b.x[q]
  BY <1>1, <1>4, <1>6 DEF IP0
<1> QED BY <1>1, <1>2, <1>6, <1>7, <1>8

\* A trampoline restores the thread.
LEMMA RestoringIs ==
  ASSUME NEW b, NEW s, NEW p \in Inside, TypedAt(p, s, b), NEW w \in PairLoad,
         NEW z, z = RestoreAll(s, w), NEW md
  PROVE  /\ IsState(z) /\ z.sp = b.sp
         /\ PairLoad \subseteq {0} /\ KeptAt(p, s, b, md) =>
              AsBefore(z, b, md) /\ Alike(z, b, b.sp)
<1>1. PICK r \in Code, v \in Value : r = IP0 /\ v = Nothing
  BY CodeIs, ValueMade DEF IP0
<1>2. PICK y : y = Put(b, r, v)
  OBVIOUS
<1>3. IsState(s) /\ IsState(b) /\ s.sp = b.sp - SaveWords
  BY DEF TypedAt
<1>4. Steady(y, b)
  BY <1>2, <1>3, PutSteady
<1>5. \A q \in Reg : y.x[q] = IF q = r THEN v ELSE b.x[q]
  BY <1>2, <1>3, PutReg
<1>6. IsState(y) /\ s.sp = y.sp - SaveWords /\ w \in {0, 1}
  BY <1>3, <1>4, RunAssumption DEF Steady
<1>7. /\ IsState(z) /\ z.sp = y.sp /\ z.fp = s.fp /\ z.stack = s.stack
      /\ w = 0 /\ Saved(s, y) => z.flags = y.flags /\ \A q \in Reg : z.x[q] = y.x[q]
  BY <1>3, <1>6, RestoreAllIs
<1>8. ASSUME PairLoad \subseteq {0}, KeptAt(p, s, b, md)
      PROVE  AsBefore(z, b, md) /\ Alike(z, b, b.sp)
  <2>1. w = 0 /\ Saved(s, y) /\ Alike(s, b, b.sp)
    BY <1>1, <1>2, <1>8 DEF KeptAt, Inside
  <2>2. z.flags = b.flags /\ \A q \in Reg : q # IP0 => z.x[q] = b.x[q]
    BY <1>1, <1>4, <1>5, <1>7, <2>1 DEF Steady
  <2>3. Alike(z, b, b.sp)
    BY <1>7, <2>1 DEF Alike
  <2> QED BY <2>2, <2>3 DEF AsBefore
<1> QED BY <1>4, <1>7, <1>8 DEF Steady

\* Writing a register that the function does not see.
LEMMA WritingIs ==
  ASSUME NEW s, IsState(s), NEW r \in Code, NEW v \in Value, NEW z, z = Put(s, r, v)
  PROVE  IsState(z) /\ z.sp = s.sp /\ z.stack = s.stack
<1>1. Steady(z, s)
  BY PutSteady
<1> QED BY <1>1 DEF Steady

LEMMA WritingUnseen ==
  ASSUME NEW s, IsState(s), NEW r \in Code, NEW v \in Value, NEW z, z = Put(s, r, v),
         NEW b, NEW md, AsBefore(s, b, md), r = IP0 \/ (md = "call" /\ r = 30)
  PROVE  AsBefore(z, b, md)
<1>1. Steady(z, s)
  BY PutSteady
<1>2. \A q \in Reg : z.x[q] = IF q = r THEN v ELSE s.x[q]
  BY PutReg
<1> QED BY <1>1, <1>2 DEF AsBefore, Steady

LEMMA AlikeStack ==
  \A z, s, b : z.stack = s.stack /\ Alike(s, b, b.sp) => Alike(z, b, b.sp)
BY DEF Alike

(***************************************************************************)
(* Thread t goes from a point to another, to state s, and b is now its     *)
(* state when it last met a patch.  The other threads stay where they are. *)
(***************************************************************************)
Goes(t, from, to, s, b) ==
  /\ pc[t] = from /\ pc' \in [Threads -> Points] /\ pc'[t] = to
  /\ DOMAIN m' = Threads /\ m'[t] = s /\ DOMAIN at' = Threads /\ at'[t] = b
  /\ \A u \in Threads : u # t => pc'[u] = pc[u] /\ m'[u] = m[u] /\ at'[u] = at[u]

LEMMA GoesStaying ==
  ASSUME TypeOK, NEW t \in Threads, NEW from, NEW to \in Points, NEW s,
         Step(t, from, to, s), UNCHANGED at
  PROVE  Goes(t, from, to, s, at[t])
BY DEF TypeOK, Step, Goes

LEMMA GoesMeeting ==
  ASSUME TypeOK, NEW t \in Threads, NEW from, NEW to \in Points, NEW s, NEW b,
         Step(t, from, to, s), at' = [at EXCEPT ![t] = b]
  PROVE  Goes(t, from, to, s, b)
BY DEF TypeOK, Step, Goes

PairFirst == PairLoad \subseteq {0}

\* What a step of thread t does to its own states.
Going(t) ==
  \E to \in Points : \E s, b :
    /\ Goes(t, pc[t], to, s, b) /\ TypedAt(to, s, b)
    /\ PairFirst /\ KeptAt(pc[t], m[t], at[t], mode) => KeptAt(to, s, b, mode)

LEMMA TypedNow == ASSUME TypeOK, NEW t \in Threads PROVE TypedAt(pc[t], m[t], at[t])
BY DEF TypeOK, TypedAt, Inside

LEMMA PointsAre == Inside \subseteq Points /\ Running \subseteq Points
BY DEF Inside, Running, Points

LEMMA GoingCall ==
  ASSUME TypeOK, NEW t \in Threads, Call(t)
  PROVE  Going(t)
<1> PICK s : s = Entered(calls + 1)
  OBVIOUS
<1>1. PICK to \in Points :
        s = Entered(calls + 1) /\ to = IF mode = "snap" THEN "entry" ELSE "body"
  BY DEF Points
<1>2. IsState(s) /\ s.sp = 0
  <2>1. calls + 1 \in Int
    BY DEF TypeOK
  <2> QED BY <1>1, <2>1, EnteredIs
<1>3. Goes(t, pc[t], to, s, s)
  BY <1>1, GoesMeeting DEF Call, Step
<1>4. TypedAt(to, s, s)
  BY <1>1, <1>2 DEF TypedAt, Inside
<1>5. KeptAt(to, s, s, mode)
  BY <1>1, AlikeSame DEF KeptAt, Inside, Running, AsBefore
<1> QED BY <1>3, <1>4, <1>5 DEF Going

LEMMA KeptInside ==
  ASSUME NEW p \in Inside, NEW s, NEW b, NEW md
  PROVE  KeptAt(p, s, b, md) <=> Saved(s, Put(b, IP0, Nothing)) /\ Alike(s, b, b.sp)
BY DEF KeptAt, Inside, Running

LEMMA InsideKept ==
  ASSUME NEW p \in Inside, NEW q \in Inside, NEW s, NEW b, NEW md, NEW z,
         TypedAt(p, s, b), IsState(z), z.sp = s.sp, NEW n \in Int, n <= s.sp + 8, Alike(z, s, n)
  PROVE  /\ TypedAt(q, z, b)
         /\ KeptAt(p, s, b, md) => KeptAt(q, z, b, md)
<1>1. IsState(s) /\ IsState(b) /\ s.sp = b.sp - 74
  BY DEF TypedAt, SaveWords
<1>2. TypedAt(q, z, b)
  BY DEF TypedAt
<1>3. PICK y : y = Put(b, IP0, Nothing)
  OBVIOUS
<1>4. PICK r \in Code, v \in Value : r = IP0 /\ v = Nothing
  BY CodeIs, ValueMade DEF IP0
<1>5. IsState(y) /\ y.sp = b.sp
  BY <1>1, <1>3, <1>4, WritingIs
<1>6. b.sp \in Int
  BY <1>1 DEF IsState
<1>7. ASSUME KeptAt(p, s, b, md) PROVE KeptAt(q, z, b, md)
  <2>1. Saved(s, y) /\ Alike(s, b, b.sp)
    BY <1>3, <1>7, KeptInside
  <2>2. Alike(z, s, y.sp - 66) /\ y.sp \in Int
    BY <1>1, <1>5, <1>6 DEF Alike
  <2>3. Saved(z, y)
    BY <2>1, <2>2, SavedKept
  <2>4. Alike(z, b, b.sp)
    BY <1>1, <1>6, <2>1 DEF Alike
  <2> QED BY <1>3, <2>3, <2>4, KeptInside
<1> QED BY <1>2, <1>7

LEMMA SavedIn ==
  ASSUME NEW p \in {"entry", "guard"}, NEW q \in Inside, NEW s, NEW b, NEW md,
         TypedAt(p, s, b), NEW z, z = SaveAll(Put(s, IP0, Nothing))
  PROVE  /\ TypedAt(q, z, b)
         /\ KeptAt(p, s, b, md) => KeptAt(q, z, b, md)
<1>1. IsState(s) /\ IsState(b) /\ s.sp = b.sp
  BY DEF TypedAt, Inside, IsState
<1>2. /\ IsState(z) /\ z.sp = s.sp - SaveWords /\ Alike(z, s, s.sp)
      /\ Saved(z, Put(s, IP0, Nothing))
  BY <1>1, SavingIs
<1>3. TypedAt(q, z, b)
  BY <1>1, <1>2 DEF TypedAt
<1>4. ASSUME KeptAt(p, s, b, md) PROVE KeptAt(q, z, b, md)
  <2>1. s = b
    BY <1>4 DEF KeptAt
  <2> QED BY <1>2, <2>1, KeptInside
<1> QED BY <1>3, <1>4

\* A thread inside a trampoline that stays there and keeps its place.
LEMMA GoingInside ==
  ASSUME TypeOK, NEW t \in Threads, pc[t] \in Inside, NEW to \in Inside, NEW z,
         Step(t, pc[t], to, z), UNCHANGED at, IsState(z), z.sp = m[t].sp,
         NEW n \in Int, n <= m[t].sp + 8, Alike(z, m[t], n)
  PROVE  Going(t)
<1>1. to \in Points /\ TypedAt(pc[t], m[t], at[t])
  BY TypedNow, PointsAre
<1> PICK s, b, md : s = m[t] /\ b = at[t] /\ md = mode
  OBVIOUS
<1>2. PICK p \in Inside : p = pc[t] /\ s = m[t] /\ b = at[t] /\ md = mode
  OBVIOUS
<1>3. Goes(t, p, to, z, b)
  BY <1>1, <1>2, GoesStaying
<1>4. TypedAt(to, z, b) /\ (KeptAt(p, s, b, md) => KeptAt(to, z, b, md))
  <2>1. TypedAt(p, s, b) /\ n <= s.sp + 8 /\ Alike(z, s, n) /\ z.sp = s.sp
    BY <1>1, <1>2
  <2>2. TypedAt(to, z, b)
    BY <2>1, InsideKept
  <2>3. KeptAt(p, s, b, md) => KeptAt(to, z, b, md)
    BY <2>1, InsideKept
  <2> QED BY <2>2, <2>3
<1> QED BY <1>1, <1>2, <1>3, <1>4 DEF Going

LEMMA GoingOn ==
  ASSUME TypeOK, NEW t \in Threads, NEW to \in Running, NEW z,
         Step(t, pc[t], to, z), UNCHANGED at, IsState(z), z.sp = at[t].sp,
         PairFirst /\ KeptAt(pc[t], m[t], at[t], mode) =>
           /\ AsBefore(z, at[t], mode) /\ Alike(z, at[t], at[t].sp)
           /\ to = "resume" \/ (mode = "call" /\ to = "rest") => z.x[30] = Behind
           /\ to \in {"callee", "back", "resume"} => mode = "call"
           /\ to = "replay" => mode # "call"
  PROVE  Going(t)
<1>1. to \in Points
  BY PointsAre
<1>2. Goes(t, pc[t], to, z, at[t])
  BY <1>1, GoesStaying
<1>3. TypedAt(to, z, at[t])
  <2>1. IsState(at[t])
    BY DEF TypeOK
  <2>2. to \notin Inside /\ at[t].sp \in Int
    BY <2>1 DEF Inside, Running, IsState
  <2> QED BY <2>1, <2>2 DEF TypedAt
<1>4. ASSUME PairFirst, KeptAt(pc[t], m[t], at[t], mode) PROVE KeptAt(to, z, at[t], mode)
  <2>1. to \notin Inside /\ to # "entry" /\ to # "guard"
    BY DEF Inside, Running
  <2> QED BY <1>4, <2>1 DEF KeptAt
<1> QED BY <1>1, <1>2, <1>3, <1>4 DEF Going

\* A register is written that the function does not see.
LEMMA WrittenOn ==
  ASSUME NEW s, IsState(s), NEW r \in {16, 30}, NEW v \in {Nothing, Behind}, NEW b, NEW md,
         NEW z, z = Put(s, r, v)
  PROVE  /\ IsState(z) /\ z.sp = s.sp /\ z.stack = s.stack
         /\ AsBefore(s, b, md) /\ (r = 30 => md = "call") => AsBefore(z, b, md)
         /\ Alike(s, b, b.sp) => Alike(z, b, b.sp)
<1>1. PICK c \in Code, u \in Value : c = r /\ u = v
  BY CodeIs, ValueMade
<1>2. z = Put(s, c, u)
  BY <1>1
<1>3. IsState(z) /\ z.sp = s.sp /\ z.stack = s.stack
  BY <1>2, WritingIs
<1>4. ASSUME AsBefore(s, b, md), r = 30 => md = "call" PROVE AsBefore(z, b, md)
  <2>1. c = IP0 \/ (md = "call" /\ c = 30)
    BY <1>1, <1>4 DEF IP0
  <2> QED BY <1>2, <1>4, <2>1, WritingUnseen
<1>5. Alike(s, b, b.sp) => Alike(z, b, b.sp)
  BY <1>3, AlikeStack
<1> QED BY <1>3, <1>4, <1>5

LEMMA BehindWritten ==
  ASSUME NEW s, IsState(s), NEW v
  PROVE  Put(s, 30, v).x[30] = v
<1>1. PICK r \in Code : r = 30 /\ r \in Reg
  BY CodeIs, RegsAre
<1>2. Put(s, r, v).x[r] = v
  BY <1>1, PutReg
<1> QED BY <1>1, <1>2

LEMMA Restored ==
  ASSUME TypeOK, NEW t \in Threads, pc[t] \in Inside, NEW w \in PairLoad,
         NEW z, z = RestoreAll(m[t], w)
  PROVE  /\ IsState(z) /\ z.sp = at[t].sp
         /\ PairFirst /\ KeptAt(pc[t], m[t], at[t], mode) =>
              AsBefore(z, at[t], mode) /\ Alike(z, at[t], at[t].sp)
<1>1. PICK b, s, md : b = at[t] /\ s = m[t] /\ md = mode
  OBVIOUS
<1>2. PICK p \in Inside : p = pc[t]
  OBVIOUS
<1>3. TypedAt(p, s, b) /\ z = RestoreAll(s, w)
  BY <1>1, <1>2, TypedNow
<1>4. IsState(z) /\ z.sp = b.sp
  BY <1>3, RestoringIs
<1>5. PairLoad \subseteq {0} /\ KeptAt(p, s, b, md) => AsBefore(z, b, md) /\ Alike(z, b, b.sp)
  BY <1>3, RestoringIs
<1> QED BY <1>1, <1>2, <1>4, <1>5 DEF PairFirst

\* A trampoline is left, or the function's own code goes on.
LEMMA GoingEntryRestore ==
  ASSUME TypeOK, NEW t \in Threads, EntryRestore(t)
  PROVE  Going(t)
<1>1. PICK w \in PairLoad : Step(t, "stored", "body", Put(RestoreAll(m[t], w), IP0, Nothing))
  BY DEF EntryRestore
<1>2. PICK y, z : y = RestoreAll(m[t], w) /\ z = Put(y, 16, Nothing)
  OBVIOUS
<1>3. pc[t] \in Inside /\ "body" \in Running /\ Step(t, pc[t], "body", z) /\ UNCHANGED at
  BY <1>1, <1>2 DEF EntryRestore, Step, Same, Inside, Running, IP0
<1>4. /\ IsState(y) /\ y.sp = at[t].sp
      /\ PairFirst /\ KeptAt(pc[t], m[t], at[t], mode) =>
           AsBefore(y, at[t], mode) /\ Alike(y, at[t], at[t].sp)
  BY <1>2, <1>3, Restored
<1>5. /\ IsState(z) /\ z.sp = y.sp /\ z.stack = y.stack
      /\ AsBefore(y, at[t], mode) => AsBefore(z, at[t], mode)
      /\ Alike(y, at[t], at[t].sp) => Alike(z, at[t], at[t].sp)
  BY <1>2, <1>4, WrittenOn
<1> QED BY <1>3, <1>4, <1>5, GoingOn

LEMMA GoingPass ==
  ASSUME TypeOK, NEW t \in Threads, Pass(t)
  PROVE  Going(t)
<1>1. PICK w \in PairLoad : Step(t, "decide", "replay", RestoreAll(m[t], w))
  BY DEF Pass
<1>2. PICK z : z = RestoreAll(m[t], w)
  OBVIOUS
<1>3. /\ pc[t] \in Inside /\ "replay" \in Running /\ Step(t, pc[t], "replay", z) /\ UNCHANGED at
      /\ mode # "call"
  BY <1>1, <1>2 DEF Pass, Step, Same, Inside, Running
<1>4. /\ IsState(z) /\ z.sp = at[t].sp
      /\ PairFirst /\ KeptAt(pc[t], m[t], at[t], mode) =>
           AsBefore(z, at[t], mode) /\ Alike(z, at[t], at[t].sp)
  BY <1>2, <1>3, Restored
<1> QED BY <1>3, <1>4, GoingOn

LEMMA GoingSkip ==
  ASSUME TypeOK, NEW t \in Threads, Skip(t)
  PROVE  Going(t)
<1>1. PICK w \in PairLoad : Step(t, "decide", "after", Put(RestoreAll(m[t], w), IP0, Nothing))
  BY DEF Skip
<1>2. PICK y, z : y = RestoreAll(m[t], w) /\ z = Put(y, 16, Nothing)
  OBVIOUS
<1>3. pc[t] \in Inside /\ "after" \in Running /\ Step(t, pc[t], "after", z) /\ UNCHANGED at
  BY <1>1, <1>2 DEF Skip, Step, Same, Inside, Running, IP0
<1>4. /\ IsState(y) /\ y.sp = at[t].sp
      /\ PairFirst /\ KeptAt(pc[t], m[t], at[t], mode) =>
           AsBefore(y, at[t], mode) /\ Alike(y, at[t], at[t].sp)
  BY <1>2, <1>3, Restored
<1>5. /\ IsState(z) /\ z.sp = y.sp /\ z.stack = y.stack
      /\ AsBefore(y, at[t], mode) => AsBefore(z, at[t], mode)
      /\ Alike(y, at[t], at[t].sp) => Alike(z, at[t], at[t].sp)
  BY <1>2, <1>4, WrittenOn
<1> QED BY <1>3, <1>4, <1>5, GoingOn

LEMMA GoingCallPass ==
  ASSUME TypeOK, NEW t \in Threads, CallPass(t)
  PROVE  Going(t)
<1>1. PICK w \in PairLoad :
        Step(t, "decide", "callee", Put(Put(RestoreAll(m[t], w), IP0, Nothing), 30, Nothing))
  BY DEF CallPass
<1>2. PICK x, y, z : /\ x = RestoreAll(m[t], w) /\ y = Put(x, 16, Nothing)
                     /\ z = Put(y, 30, Nothing)
  OBVIOUS
<1>3. /\ pc[t] \in Inside /\ "callee" \in Running /\ Step(t, pc[t], "callee", z) /\ UNCHANGED at
      /\ mode = "call"
  BY <1>1, <1>2 DEF CallPass, Step, Same, Inside, Running, IP0
<1>4. /\ IsState(x) /\ x.sp = at[t].sp
      /\ PairFirst /\ KeptAt(pc[t], m[t], at[t], mode) =>
           AsBefore(x, at[t], mode) /\ Alike(x, at[t], at[t].sp)
  BY <1>2, <1>3, Restored
<1>5. /\ IsState(y) /\ y.sp = x.sp /\ y.stack = x.stack
      /\ AsBefore(x, at[t], mode) => AsBefore(y, at[t], mode)
      /\ Alike(x, at[t], at[t].sp) => Alike(y, at[t], at[t].sp)
  BY <1>2, <1>4, WrittenOn
<1>6. /\ IsState(z) /\ z.sp = y.sp /\ z.stack = y.stack
      /\ AsBefore(y, at[t], mode) => AsBefore(z, at[t], mode)
      /\ Alike(y, at[t], at[t].sp) => Alike(z, at[t], at[t].sp)
  <2>1. /\ IsState(z) /\ z.sp = y.sp /\ z.stack = y.stack
        /\ AsBefore(y, at[t], mode) /\ (30 = 30 => mode = "call") => AsBefore(z, at[t], mode)
        /\ Alike(y, at[t], at[t].sp) => Alike(z, at[t], at[t].sp)
    BY <1>2, <1>5, WrittenOn
  <2> QED BY <1>3, <2>1
<1> QED BY <1>3, <1>4, <1>5, <1>6, GoingOn

LEMMA GoingCallSkip ==
  ASSUME TypeOK, NEW t \in Threads, CallSkip(t)
  PROVE  Going(t)
<1>1. PICK w \in PairLoad : Step(t, "decide", "resume", Put(RestoreAll(m[t], w), 30, Behind))
  BY DEF CallSkip
<1>2. PICK y, z : y = RestoreAll(m[t], w) /\ z = Put(y, 30, Behind)
  OBVIOUS
<1>3. /\ pc[t] \in Inside /\ "resume" \in Running /\ Step(t, pc[t], "resume", z) /\ UNCHANGED at
      /\ mode = "call"
  BY <1>1, <1>2 DEF CallSkip, Step, Same, Inside, Running
<1>4. /\ IsState(y) /\ y.sp = at[t].sp
      /\ PairFirst /\ KeptAt(pc[t], m[t], at[t], mode) =>
           AsBefore(y, at[t], mode) /\ Alike(y, at[t], at[t].sp)
  BY <1>2, <1>3, Restored
<1>5. /\ IsState(z) /\ z.sp = y.sp /\ z.stack = y.stack
      /\ AsBefore(y, at[t], mode) => AsBefore(z, at[t], mode)
      /\ Alike(y, at[t], at[t].sp) => Alike(z, at[t], at[t].sp)
  <2>1. /\ IsState(z) /\ z.sp = y.sp /\ z.stack = y.stack
        /\ AsBefore(y, at[t], mode) /\ (30 = 30 => mode = "call") => AsBefore(z, at[t], mode)
        /\ Alike(y, at[t], at[t].sp) => Alike(z, at[t], at[t].sp)
    BY <1>2, <1>4, WrittenOn
  <2> QED BY <1>3, <2>1
<1>6. z.x[30] = Behind
  BY <1>2, <1>4, BehindWritten
<1> QED BY <1>3, <1>4, <1>5, <1>6, GoingOn

LEMMA RunningNow ==
  ASSUME TypeOK, NEW t \in Threads, pc[t] \in Running
  PROVE  /\ IsState(m[t]) /\ m[t].sp = at[t].sp
         /\ KeptAt(pc[t], m[t], at[t], mode) =>
              AsBefore(m[t], at[t], mode) /\ Alike(m[t], at[t], at[t].sp)
<1>1. pc[t] \notin Inside /\ pc[t] # "idle"
  BY DEF Inside, Running
<1>2. IsState(m[t]) /\ IsState(at[t]) /\ m[t].sp = at[t].sp - 0
  BY <1>1, TypedNow DEF TypedAt
<1>3. m[t].sp = at[t].sp
  BY <1>2 DEF IsState
<1> QED BY <1>1, <1>2, <1>3 DEF KeptAt

LEMMA GoingLeave ==
  ASSUME TypeOK, NEW t \in Threads, NEW from \in {"body", "rest"}, Leave(t, from)
  PROVE  Going(t)
<1>1. pc[t] \in Running /\ "after" \in Running /\ Step(t, pc[t], "after", m[t]) /\ UNCHANGED at
  BY DEF Leave, Step, Same, Running
<1>2. /\ IsState(m[t]) /\ m[t].sp = at[t].sp
      /\ KeptAt(pc[t], m[t], at[t], mode) =>
           AsBefore(m[t], at[t], mode) /\ Alike(m[t], at[t], at[t].sp)
  BY <1>1, RunningNow
<1> QED BY <1>1, <1>2, GoingOn

\* One register of a running thread is written.
LEMMA GoingWritten ==
  ASSUME TypeOK, NEW t \in Threads, pc[t] \in Running, NEW r \in {16, 30},
         NEW v \in {Nothing, Behind}, NEW to \in Running,
         Step(t, pc[t], to, Put(m[t], r, v)), UNCHANGED at,
         KeptAt(pc[t], m[t], at[t], mode) =>
           /\ r = 30 => mode = "call"
           /\ to = "resume" \/ (mode = "call" /\ to = "rest") =>
                \/ r = 30 /\ v = Behind
                \/ r = 16 /\ m[t].x[30] = Behind
           /\ to \in {"callee", "back", "resume"} => mode = "call"
           /\ to = "replay" => mode # "call"
  PROVE  Going(t)
<1>1. /\ IsState(m[t]) /\ m[t].sp = at[t].sp
      /\ KeptAt(pc[t], m[t], at[t], mode) =>
           AsBefore(m[t], at[t], mode) /\ Alike(m[t], at[t], at[t].sp)
  BY RunningNow
<1>2. PICK z : z = Put(m[t], r, v)
  OBVIOUS
<1>3. /\ IsState(z) /\ z.sp = m[t].sp /\ z.stack = m[t].stack
      /\ AsBefore(m[t], at[t], mode) /\ (r = 30 => mode = "call") => AsBefore(z, at[t], mode)
      /\ Alike(m[t], at[t], at[t].sp) => Alike(z, at[t], at[t].sp)
  BY <1>1, <1>2, WrittenOn
<1>4. /\ r = 30 => z.x[30] = v
      /\ r = 16 => z.x[30] = m[t].x[30]
  <2>1. r = 30 => z.x[30] = v
    BY <1>1, <1>2, BehindWritten
  <2>2. PICK c \in Code, q \in Reg : c = r /\ q = 30
    BY CodeIs, RegsAre
  <2>3. Put(m[t], c, v).x[q] = IF q = c THEN v ELSE m[t].x[q]
    BY <1>1, PutReg
  <2> QED BY <1>2, <2>1, <2>2, <2>3
<1>5. KeptAt(pc[t], m[t], at[t], mode) =>
        /\ AsBefore(z, at[t], mode) /\ Alike(z, at[t], at[t].sp)
        /\ to = "resume" \/ (mode = "call" /\ to = "rest") => z.x[30] = Behind
        /\ to \in {"callee", "back", "resume"} => mode = "call"
        /\ to = "replay" => mode # "call"
  BY <1>1, <1>3, <1>4
<1>6. Step(t, pc[t], to, z) /\ z.sp = at[t].sp
  BY <1>1, <1>2, <1>3
<1> QED BY <1>3, <1>5, <1>6, GoingOn

LEMMA GoingReplay ==
  ASSUME TypeOK, NEW t \in Threads, Replay(t) \/ Resume(t) \/ CallBack(t)
  PROVE  Going(t)
<1>1. CASE Replay(t)
  <2>1. /\ pc[t] = "replay" /\ pc[t] \in Running /\ "rest" \in Running /\ UNCHANGED at
        /\ Step(t, pc[t], "rest", Put(m[t], 16, Nothing))
    BY <1>1 DEF Replay, Step, Same, Running, IP0
  <2>2. KeptAt(pc[t], m[t], at[t], mode) => mode # "call"
    BY <2>1 DEF KeptAt
  <2> QED BY <2>1, <2>2, GoingWritten
<1>2. CASE Resume(t)
  <2>1. /\ pc[t] = "resume" /\ pc[t] \in Running /\ "rest" \in Running /\ UNCHANGED at
        /\ Step(t, pc[t], "rest", Put(m[t], 16, Nothing))
    BY <1>2 DEF Resume, Step, Same, Running, IP0
  <2>2. KeptAt(pc[t], m[t], at[t], mode) => m[t].x[30] = Behind
    BY <2>1 DEF KeptAt
  <2> QED BY <2>1, <2>2, GoingWritten
<1>3. CASE CallBack(t)
  <2>1. /\ pc[t] = "back" /\ pc[t] \in Running /\ "resume" \in Running /\ UNCHANGED at
        /\ Step(t, pc[t], "resume", Put(m[t], 30, Behind))
    BY <1>3 DEF CallBack, Step, Same, Running
  <2>2. KeptAt(pc[t], m[t], at[t], mode) => mode = "call"
    BY <2>1 DEF KeptAt
  <2> QED BY <2>1, <2>2, GoingWritten
<1> QED BY <1>1, <1>2, <1>3

LEMMA GoingEntrySave ==
  ASSUME TypeOK, NEW t \in Threads, EntrySave(t)
  PROVE  Going(t)
<1>1. PICK s, b, md : s = m[t] /\ b = at[t] /\ md = mode
  OBVIOUS
<1>2. PICK y : y = SaveAll(Put(s, IP0, Nothing))
  OBVIOUS
<1>3. PICK r \in Code, v \in Value : r = 9 /\ v = Nothing
  BY CodeIs, ValueMade
<1>4. PICK z : z = Put(y, r, v)
  OBVIOUS
<1>5. pc[t] = "entry" /\ Step(t, pc[t], "store", z) /\ UNCHANGED at
  BY <1>1, <1>2, <1>3, <1>4 DEF EntrySave, Step, Same
<1>6. PICK p \in {"entry", "guard"}, q \in Inside : p = "entry" /\ q = "store" /\ q \in Points
  BY PointsAre DEF Inside
<1>7. TypedAt(p, s, b)
  BY <1>1, <1>5, <1>6, TypedNow
<1>8. TypedAt(q, y, b)
  BY <1>2, <1>7, SavedIn
<1>9. KeptAt(p, s, b, md) => KeptAt(q, y, b, md)
  BY <1>2, <1>7, SavedIn
<1>10. IsState(z) /\ z.sp = y.sp /\ z.stack = y.stack
  <2>1. IsState(y)
    BY <1>8 DEF TypedAt
  <2> QED BY <1>4, <2>1, WritingIs
<1>11. TypedAt(q, z, b) /\ (KeptAt(q, y, b, md) => KeptAt(q, z, b, md))
  <2>1. PICK n \in Int : n = y.sp
    BY <1>8 DEF TypedAt, IsState
  <2>2. Alike(z, y, n) /\ n <= y.sp + 8
    BY <1>10, <2>1, AlikeSame
  <2>3. TypedAt(q, z, b)
    BY <1>8, <1>10, <2>2, InsideKept
  <2>4. KeptAt(q, y, b, md) => KeptAt(q, z, b, md)
    BY <1>8, <1>10, <2>2, InsideKept
  <2> QED BY <2>3, <2>4
<1>12. Goes(t, pc[t], q, z, b)
  BY <1>1, <1>5, <1>6, GoesStaying
<1> QED BY <1>1, <1>5, <1>6, <1>9, <1>11, <1>12 DEF Going

LEMMA GoingGuardSave ==
  ASSUME TypeOK, NEW t \in Threads, GuardSave(t)
  PROVE  Going(t)
<1>1. PICK s, b, md : s = m[t] /\ b = at[t] /\ md = mode
  OBVIOUS
<1>2. PICK z : z = SaveAll(Put(s, IP0, Nothing))
  OBVIOUS
<1>3. pc[t] = "guard" /\ Step(t, pc[t], "args", z) /\ UNCHANGED at
  BY <1>1, <1>2 DEF GuardSave, Step, Same
<1>4. PICK p \in {"entry", "guard"}, q \in Inside : p = "guard" /\ q = "args" /\ q \in Points
  BY PointsAre DEF Inside
<1>5. TypedAt(p, s, b)
  BY <1>1, <1>3, <1>4, TypedNow
<1>6. TypedAt(q, z, b)
  BY <1>2, <1>5, SavedIn
<1>7. KeptAt(p, s, b, md) => KeptAt(q, z, b, md)
  BY <1>2, <1>5, SavedIn
<1>8. Goes(t, pc[t], q, z, b)
  BY <1>1, <1>3, <1>4, GoesStaying
<1> QED BY <1>1, <1>3, <1>4, <1>6, <1>7, <1>8 DEF Going

LEMMA StateNow == ASSUME TypeOK, NEW t \in Threads PROVE IsState(m[t]) /\ m[t].sp \in Int
BY DEF TypeOK, IsState

\* The stack is left alone.
LEMMA GoingQuietly ==
  ASSUME TypeOK, NEW t \in Threads, pc[t] \in Inside, NEW to \in Inside, NEW z,
         Step(t, pc[t], to, z), UNCHANGED at, IsState(z), z.sp = m[t].sp, z.stack = m[t].stack
  PROVE  Going(t)
<1>1. PICK n \in Int : n = m[t].sp
  BY StateNow
<1>2. n <= m[t].sp + 8 /\ Alike(z, m[t], n)
  BY <1>1, AlikeSame
<1> QED BY <1>2, GoingInside

LEMMA GoingEntryStore ==
  ASSUME TypeOK, NEW t \in Threads, EntryStore(t)
  PROVE  Going(t)
<1>1. PICK to \in Inside : to = IF word[t] = 7 THEN "stored" ELSE "store"
  BY DEF Inside
<1>2. pc[t] \in Inside /\ Step(t, pc[t], to, m[t]) /\ UNCHANGED at
  BY <1>1 DEF EntryStore, Step, Inside
<1> QED BY <1>2, StateNow, GoingQuietly

LEMMA GoingArgsFromSnap ==
  ASSUME TypeOK, NEW t \in Threads, ArgsFromSnap(t)
  PROVE  Going(t)
<1>1. PICK to \in Inside : to = IF word[t] = 7 THEN "check" ELSE "args"
  BY DEF Inside
<1>2. PICK r \in Code, v \in Value : r = 9 /\ v = Nothing
  BY CodeIs, ValueMade
<1>3. PICK d \in Code, u \in Value : d = word[t] /\ u = snap[word[t]]
  <2>1. word[t] \in Args /\ \A k \in Args : snap[k] \in Value
    BY DEF TypeOK
  <2> QED BY <2>1, CodeIs
<1>4. PICK y, z : y = Put(m[t], r, v) /\ z = Put(y, d, u)
  OBVIOUS
<1>5. pc[t] \in Inside /\ Step(t, pc[t], to, z) /\ UNCHANGED at
  BY <1>1, <1>2, <1>3, <1>4 DEF ArgsFromSnap, Step, Inside
<1>6. IsState(m[t])
  BY StateNow
<1>7. IsState(y) /\ y.sp = m[t].sp /\ y.stack = m[t].stack
  BY <1>4, <1>6, WritingIs
<1>8. IsState(z) /\ z.sp = y.sp /\ z.stack = y.stack
  BY <1>4, <1>7, WritingIs
<1> QED BY <1>5, <1>7, <1>8, GoingQuietly

LEMMA GoingArgsFromPlaces ==
  ASSUME TypeOK, NEW t \in Threads, ArgsFromPlaces(t)
  PROVE  Going(t)
<1>1. PICK to \in Inside : to = "check"
  BY DEF Inside
<1>2. PICK z : z = ArgsLoad(m[t])
  OBVIOUS
<1>3. pc[t] \in Inside /\ Step(t, pc[t], to, z) /\ UNCHANGED at
  BY <1>1, <1>2 DEF ArgsFromPlaces, Step, Same, Inside
<1>4. locs \in Layouts /\ IsState(m[t])
  BY StateNow DEF TypeOK
<1>5. IsState(z) /\ z.sp = m[t].sp /\ Alike(z, m[t], m[t].sp + 8)
  BY <1>2, <1>4, ArgsLoadIs
<1>6. PICK n \in Int : n = m[t].sp + 8
  BY StateNow
<1> QED BY <1>3, <1>5, <1>6, GoingInside

LEMMA GoingCheck ==
  ASSUME TypeOK, NEW t \in Threads, Check(t)
  PROVE  Going(t)
<1>1. PICK to \in Inside : to = "decide"
  BY DEF Inside
<1>2. PICK answer \in {0, 1} : Step(t, "check", "decide", Called(m[t], Num(answer)))
  BY DEF Check
<1>3. PICK v \in Value : v = Num(answer)
  BY ValueMade
<1>4. PICK z : z = Called(m[t], v)
  OBVIOUS
<1>5. pc[t] \in Inside /\ Step(t, pc[t], to, z) /\ UNCHANGED at
  BY <1>1, <1>2, <1>3, <1>4 DEF Check, Step, Inside
<1>6. IsState(m[t])
  BY StateNow
<1>7. IsState(z) /\ z.sp = m[t].sp /\ Alike(z, m[t], m[t].sp)
  BY <1>4, <1>6, CalledIs
<1>8. PICK n \in Int : n = m[t].sp /\ n <= m[t].sp + 8
  BY StateNow
<1> QED BY <1>5, <1>7, <1>8, GoingInside

LEMMA GoingReach ==
  ASSUME TypeOK, NEW t \in Threads, NEW from, Reach(t, from)
  PROVE  Going(t)
<1>1. PICK c \in Int, v \in Int :
        c = call[t] /\ v = MaxCalls + call[t] * MaxVisits + visit[t]
  BY RunAssumption DEF TypeOK
<1>2. PICK to \in Points : to = "guard"
  BY DEF Points
<1>3. PICK z : z = AtGuard(m[t], c, v)
  OBVIOUS
<1>4. Step(t, pc[t], to, z) /\ at' = [at EXCEPT ![t] = z]
  BY <1>1, <1>2, <1>3 DEF Reach, Step
<1>5. locs \in Layouts /\ IsState(m[t])
  BY StateNow DEF TypeOK
<1>6. IsState(z)
  BY <1>3, <1>5, AtGuardIs
<1>7. Goes(t, pc[t], to, z, z)
  BY <1>4, GoesMeeting
<1>8. TypedAt(to, z, z)
  BY <1>2, <1>6 DEF TypedAt, Inside, IsState
<1>9. KeptAt(to, z, z, mode)
  BY <1>2, AlikeSame DEF KeptAt, Inside, Running
<1> QED BY <1>7, <1>8, <1>9 DEF Going

LEMMA GoingReturn ==
  ASSUME TypeOK, NEW t \in Threads, Return(t)
  PROVE  Going(t)
<1>1. PICK to \in Points : to = "idle"
  BY DEF Points
<1>2. Step(t, pc[t], to, Resting) /\ at' = [at EXCEPT ![t] = Resting]
  BY <1>1 DEF Return, Step
<1>3. Goes(t, pc[t], to, Resting, Resting)
  BY <1>2, GoesMeeting
<1>4. TypedAt(to, Resting, Resting)
  BY <1>1, RestingIs DEF TypedAt, Inside
<1>5. KeptAt(to, Resting, Resting, mode)
  BY <1>1 DEF KeptAt, Inside, Running
<1> QED BY <1>3, <1>4, <1>5 DEF Going

\* The function called from a guarded call finds, and leaves, the same.
LEMMA GoingCallee ==
  ASSUME TypeOK, NEW t \in Threads, Callee(t)
  PROVE  Going(t)
<1>1. PICK v \in Value : v = Junk(0, call[t])
  BY ValueMade DEF TypeOK
<1>2. PICK s, b, md, z, y : /\ s = m[t] /\ b = at[t] /\ md = mode
                            /\ z = Called(s, v) /\ y = Called(b, v)
  OBVIOUS
<1>3. PICK to \in Points : to = "back"
  BY DEF Points
<1>4. pc[t] = "callee" /\ Step(t, pc[t], to, z) /\ at' = [at EXCEPT ![t] = y]
  BY <1>1, <1>2, <1>3 DEF Callee, Step, TypeOK
<1>5. IsState(s) /\ IsState(b) /\ s.sp = b.sp
  <2>1. pc[t] \in Running
    BY <1>4 DEF Running
  <2> QED BY <1>2, <2>1, RunningNow, TypedNow DEF TypedAt
<1>6. /\ IsState(z) /\ z.sp = s.sp /\ z.flags = Nothing
      /\ \A q \in Reg : z.x[q] = IF q = 0 THEN v
                                 ELSE IF q \in CheckSpoils THEN Nothing ELSE s.x[q]
  BY <1>2, <1>5, CalledIs
<1>7. /\ IsState(y) /\ y.sp = b.sp /\ y.flags = Nothing
      /\ \A q \in Reg : y.x[q] = IF q = 0 THEN v
                                 ELSE IF q \in CheckSpoils THEN Nothing ELSE b.x[q]
  BY <1>2, <1>5, CalledIs
<1>8. TypedAt(to, z, y)
  BY <1>3, <1>5, <1>6, <1>7 DEF TypedAt, Inside, IsState
<1>9. ASSUME KeptAt(pc[t], s, b, md) PROVE KeptAt(to, z, y, md)
  <2>1. AsBefore(s, b, md) /\ Alike(s, b, b.sp) /\ md = "call"
    BY <1>4, <1>9 DEF KeptAt, Running
  <2>2. AsBefore(z, y, md)
    BY <1>6, <1>7, <2>1 DEF AsBefore
  <2>3. Alike(z, y, y.sp)
    <3>1. Alike(z, s, s.sp) /\ Alike(y, b, b.sp)
      BY <1>2, <1>5, CalledIs
    <3> QED BY <1>5, <1>7, <2>1, <3>1 DEF Alike
  <2> QED BY <1>3, <2>1, <2>2, <2>3 DEF KeptAt, Inside
<1>10. Goes(t, pc[t], to, z, y)
  BY <1>4, GoesMeeting
<1> QED BY <1>2, <1>8, <1>9, <1>10 DEF Going

LEMMA AlwaysGoing ==
  ASSUME TypeOK, NEW t \in Threads, ThreadStep(t)
  PROVE  Going(t)
<1>1. CASE Call(t)
  BY <1>1, GoingCall
<1>2. CASE EntrySave(t)
  BY <1>2, GoingEntrySave
<1>3. CASE EntryStore(t)
  BY <1>3, GoingEntryStore
<1>4. CASE EntryRestore(t)
  BY <1>4, GoingEntryRestore
<1>5. CASE Reach(t, "body") \/ Reach(t, "rest") \/ Reach(t, "after")
  BY <1>5, GoingReach
<1>6. CASE Leave(t, "body") \/ Leave(t, "rest")
  BY <1>6, GoingLeave
<1>7. CASE GuardSave(t)
  BY <1>7, GoingGuardSave
<1>8. CASE ArgsFromPlaces(t)
  BY <1>8, GoingArgsFromPlaces
<1>9. CASE ArgsFromSnap(t)
  BY <1>9, GoingArgsFromSnap
<1>10. CASE Check(t)
  BY <1>10, GoingCheck
<1>11. CASE Pass(t)
  BY <1>11, GoingPass
<1>12. CASE Skip(t)
  BY <1>12, GoingSkip
<1>13. CASE Replay(t) \/ Resume(t) \/ CallBack(t)
  BY <1>13, GoingReplay
<1>14. CASE CallPass(t)
  BY <1>14, GoingCallPass
<1>15. CASE Callee(t)
  BY <1>15, GoingCallee
<1>16. CASE CallSkip(t)
  BY <1>16, GoingCallSkip
<1>17. CASE Return(t)
  BY <1>17, GoingReturn
<1> QED BY <1>1, <1>2, <1>3, <1>4, <1>5, <1>6, <1>7, <1>8, <1>9, <1>10, <1>11, <1>12,
           <1>13, <1>14, <1>15, <1>16, <1>17 DEF ThreadStep

\* The variables that are not the states of the threads.
RestTyped ==
  /\ mode \in Modes /\ locs \in Layouts
  /\ DOMAIN snap = Args /\ \A k \in Args : snap[k] \in Value
  /\ calls \in 0..MaxCalls /\ word \in [Threads -> Args]
  /\ call \in [Threads -> 0..MaxCalls] /\ visit \in [Threads -> 0..MaxVisits]
  /\ DOMAIN given = Threads

LEMMA NextWord ==
  ASSUME TypeOK, NEW t \in Threads
  PROVE  [word EXCEPT ![t] = (@ + 1) % 8] \in [Threads -> Args]
<1>1. \A k \in Args : (k + 1) % 8 \in Args
  <2> SUFFICES ASSUME NEW k \in Args PROVE (k + 1) % 8 \in Args
    OBVIOUS
  <2>1. k + 1 \in Int /\ (k + 1) % 8 \in Int /\ 0 <= (k + 1) % 8 /\ (k + 1) % 8 <= 7
    BY ArgsInt
  <2> QED BY <2>1, ArgsAre
<1> QED BY <1>1 DEF TypeOK

LEMMA RestStays ==
  ASSUME TypeOK, NEW t \in Threads, ThreadStep(t)
  PROVE  mode' = mode /\ locs' = locs /\ RestTyped'
<1>1. RestTyped
  BY DEF TypeOK, RestTyped
<1>2. CASE Same
  BY <1>1, <1>2 DEF Same, RestTyped
<1>3. CASE Call(t)
  <2>1. calls + 1 \in 0..MaxCalls
    BY <1>3, RunAssumption DEF Call, TypeOK
  <2> QED BY <1>1, <1>3, <2>1 DEF Call, RestTyped
<1>4. CASE EntryStore(t)
  <2>1. word[t] \in Args /\ X(m[t], word[t]) \in Value
    BY StateNow, XTyped, CodeIs DEF TypeOK
  <2>2. DOMAIN snap' = Args /\ \A k \in Args : snap'[k] \in Value
    BY <1>1, <1>4, <2>1 DEF EntryStore, RestTyped
  <2>3. word' \in [Threads -> Args]
    BY <1>4, NextWord DEF EntryStore
  <2> QED BY <1>1, <1>4, <2>2, <2>3 DEF EntryStore, RestTyped
<1>5. CASE ArgsFromSnap(t)
  <2>1. word' \in [Threads -> Args]
    BY <1>5, NextWord DEF ArgsFromSnap
  <2> QED BY <1>1, <1>5, <2>1 DEF ArgsFromSnap, RestTyped
<1>6. ASSUME NEW from, Reach(t, from) PROVE mode' = mode /\ locs' = locs /\ RestTyped'
  <2>1. visit[t] + 1 \in 0..MaxVisits
    BY <1>6, RunAssumption DEF Reach, TypeOK
  <2> QED BY <1>1, <1>6, <2>1 DEF Reach, RestTyped
<1>7. CASE Check(t)
  BY <1>1, <1>7 DEF Check, RestTyped
<1>8. CASE Callee(t)
  BY <1>1, <1>8 DEF Callee, RestTyped
<1>9. CASE Return(t)
  <2>1. 0 \in 0..MaxCalls /\ 0 \in 0..MaxVisits
    BY RunAssumption
  <2> QED BY <1>1, <1>9, <2>1 DEF Return, RestTyped
<1>10. CASE \/ EntrySave(t) \/ EntryRestore(t) \/ Leave(t, "body") \/ Leave(t, "rest")
            \/ GuardSave(t) \/ ArgsFromPlaces(t) \/ Pass(t) \/ Skip(t) \/ Replay(t)
            \/ CallPass(t) \/ CallBack(t) \/ CallSkip(t) \/ Resume(t)
  <2>1. Same
    BY <1>10 DEF EntrySave, EntryRestore, Leave, GuardSave, ArgsFromPlaces, Pass, Skip, Replay,
                 CallPass, CallBack, CallSkip, Resume
  <2> QED BY <1>2, <2>1
<1> QED BY <1>3, <1>4, <1>5, <1>6, <1>7, <1>8, <1>9, <1>10 DEF ThreadStep

LEMMA TypeParts ==
  TypeOK <=> /\ RestTyped /\ pc \in [Threads -> Points]
             /\ DOMAIN m = Threads /\ DOMAIN at = Threads
             /\ \A t \in Threads : TypedAt(pc[t], m[t], at[t])
BY DEF TypeOK, RestTyped, TypedAt, Inside

LEMMA TypeInit == Init => TypeOK
<1> SUFFICES ASSUME Init PROVE TypeOK
  OBVIOUS
<1>1. RestTyped
  <2>1. DOMAIN snap = Args /\ \A k \in Args : snap[k] \in Value
    BY ValueMade DEF Init
  <2>2. 0 \in 0..MaxCalls /\ 0 \in 0..MaxVisits /\ 0 \in Args
    BY RunAssumption, ArgsAre
  <2>3. mode \in Modes /\ locs \in Layouts /\ calls = 0 /\ DOMAIN given = Threads
    BY DEF Init
  <2>4. word \in [Threads -> Args]
    BY <2>2 DEF Init
  <2>5. call \in [Threads -> 0..MaxCalls] /\ visit \in [Threads -> 0..MaxVisits]
    BY <2>2 DEF Init
  <2> QED BY <2>1, <2>2, <2>3, <2>4, <2>5 DEF RestTyped
<1>2. pc \in [Threads -> Points] /\ DOMAIN m = Threads /\ DOMAIN at = Threads
  BY DEF Init, Points
<1>3. \A t \in Threads : TypedAt(pc[t], m[t], at[t])
  <2>1. TypedAt("idle", Resting, Resting)
    BY RestingIs DEF TypedAt, Inside
  <2>2. \A t \in Threads : pc[t] = "idle" /\ m[t] = Resting /\ at[t] = Resting
    BY DEF Init
  <2> QED BY <2>1, <2>2
<1> QED BY <1>1, <1>2, <1>3, TypeParts

LEMMA TypeNext == TypeOK /\ [Next]_vars => TypeOK'
<1> SUFFICES ASSUME TypeOK, [Next]_vars PROVE TypeOK'
  OBVIOUS
<1>1. CASE UNCHANGED vars
  BY <1>1 DEF vars, TypeOK
<1>2. ASSUME NEW t \in Threads, ThreadStep(t) PROVE TypeOK'
  <2>1. RestTyped'
    BY <1>2, RestStays
  <2>2. PICK to \in Points : \E s, b : Goes(t, pc[t], to, s, b) /\ TypedAt(to, s, b)
    BY <1>2, AlwaysGoing DEF Going
  <2>3. PICK s, b : Goes(t, pc[t], to, s, b) /\ TypedAt(to, s, b)
    BY <2>2
  <2>4. \A u \in Threads : TypedAt(pc'[u], m'[u], at'[u])
    BY <2>3, TypedNow DEF Goes
  <2>5. pc' \in [Threads -> Points] /\ DOMAIN m' = Threads /\ DOMAIN at' = Threads
    BY <2>3 DEF Goes
  <2> QED BY <2>1, <2>4, <2>5 DEF TypeOK, RestTyped, TypedAt, Inside
<1> QED BY <1>1, <1>2 DEF Next

\* The type invariant holds in every state that threads can reach, whatever
\* the layouts and however calls overlap.
THEOREM RunTyped == Spec => []TypeOK
<1> QED BY TypeInit, TypeNext, PTL DEF Spec

(***************************************************************************)
(* What the trampolines keep.                                              *)
(***************************************************************************)
Kept == \A t \in Threads : KeptAt(pc[t], m[t], at[t], mode)

LEMMA KeptInit == Init => Kept
BY DEF Init, Kept, KeptAt, Inside, Running

LEMMA KeptNext == PairFirst /\ TypeOK /\ Kept /\ [Next]_vars => Kept'
<1> SUFFICES ASSUME PairFirst, TypeOK, Kept, [Next]_vars PROVE Kept'
  OBVIOUS
<1>1. CASE UNCHANGED vars
  BY <1>1 DEF vars, Kept
<1>2. ASSUME NEW t \in Threads, ThreadStep(t) PROVE Kept'
  <2>1. mode' = mode
    BY <1>2, RestStays
  <2>2. PICK to \in Points : \E s, b :
          /\ Goes(t, pc[t], to, s, b)
          /\ PairFirst /\ KeptAt(pc[t], m[t], at[t], mode) => KeptAt(to, s, b, mode)
    BY <1>2, AlwaysGoing DEF Going
  <2>3. PICK s, b :
          /\ Goes(t, pc[t], to, s, b)
          /\ PairFirst /\ KeptAt(pc[t], m[t], at[t], mode) => KeptAt(to, s, b, mode)
    BY <2>2
  <2>4. \A u \in Threads : KeptAt(pc'[u], m'[u], at'[u], mode)
    BY <2>3 DEF Goes, Kept
  <2> QED BY <2>1, <2>4 DEF Kept
<1> QED BY <1>1, <1>2 DEF Next

LEMMA KeptSeen ==
  ASSUME TypeOK, Kept
  PROVE  ContextIntact
<1> SUFFICES ASSUME NEW t \in Threads
             PROVE  /\ pc[t] \in Running => Visible(m[t]) = Visible(at[t])
                    /\ pc[t] = "resume" \/ (mode = "call" /\ pc[t] = "rest") => X(m[t], 30) = Behind
                    /\ pc[t] # "idle" => FrameKept(m[t], at[t])
  BY DEF ContextIntact, Running
<1> PICK s, b : s = m[t] /\ b = at[t]
  OBVIOUS
<1>1. IsState(s) /\ IsState(b) /\ KeptAt(pc[t], s, b, mode)
  BY TypedNow DEF TypedAt, Kept
<1>2. ASSUME pc[t] \in Running PROVE Visible(s) = Visible(b)
  <2>1. s.sp = b.sp /\ AsBefore(s, b, mode) /\ Alike(s, b, b.sp)
    BY <1>1, <1>2, RunningNow
  <2>2. \A r \in Reg \ Unseen : s.x[r] = b.x[r]
    BY <2>1 DEF AsBefore, Unseen
  <2>3. {a \in DOMAIN s.stack : a >= s.sp} = {a \in DOMAIN b.stack : a >= b.sp}
    BY <1>1, <2>1 DEF Alike, IsState
  <2>4. \A a \in {c \in DOMAIN b.stack : c >= b.sp} : s.stack[a] = b.stack[a]
    BY <1>1, <2>1 DEF Alike, IsState
  <2>5. [r \in Reg \ Unseen |-> s.x[r]] = [r \in Reg \ Unseen |-> b.x[r]]
    BY <2>2
  <2>6. [a \in {c \in DOMAIN s.stack : c >= s.sp} |-> s.stack[a]] =
        [a \in {c \in DOMAIN b.stack : c >= b.sp} |-> b.stack[a]]
    BY <2>3, <2>4
  <2>7. s.flags = b.flags
    BY <2>1 DEF AsBefore
  <2> QED BY <2>1, <2>5, <2>6, <2>7 DEF Visible
<1>3. ASSUME pc[t] = "resume" \/ (mode = "call" /\ pc[t] = "rest") PROVE X(s, 30) = Behind
  BY <1>1, <1>3 DEF KeptAt, X
<1>4. ASSUME pc[t] # "idle" PROVE FrameKept(s, b)
  <2>1. Alike(s, b, b.sp)
    BY <1>1, <1>4 DEF KeptAt
  <2>2. \A a \in DOMAIN s.stack \cup DOMAIN b.stack : a \in Int
    BY <1>1 DEF IsState
  <2> QED BY <2>1, <2>2, AlikePeek DEF FrameKept
<1> QED BY <1>2, <1>3, <1>4

\* The function finds its registers, flags and frame as it left them, if a pair
\* load into one register leaves the first word there.
THEOREM ContextKept == PairFirst => (Spec => []ContextIntact)
<1> SUFFICES ASSUME PairFirst PROVE Spec => []ContextIntact
  OBVIOUS
<1>1. Init => TypeOK /\ Kept
  BY TypeInit, KeptInit
<1>2. TypeOK /\ Kept /\ [Next]_vars => (TypeOK /\ Kept)'
  BY TypeNext, KeptNext
<1>3. TypeOK /\ Kept => ContextIntact
  BY KeptSeen
<1> QED BY <1>1, <1>2, <1>3, PTL DEF Spec

(***************************************************************************)
(* What check is given.                                                    *)
(***************************************************************************)

\* The places that analysis found hold the arguments of call c.
Holds(s, c) ==
  \A k \in Args :
    /\ locs[k].kind = "reg" => s.x[locs[k].reg] = Arg(k, c)
    /\ locs[k].kind = "slot" =>
         /\ Peek(s, SlotAt(k)) = Arg(k, c)
         /\ locs[k].reg # 31 => s.x[locs[k].reg] = Addr(BaseAt)

\* A guard that reads the places.
PlacedAt(p, s, c) ==
  /\ p = "guard" => s.sp = -Frame /\ Holds(s, c)
  /\ p = "args" => s.sp = -Frame - SaveWords /\ Holds(s, c)
  /\ p = "check" => \A k \in Args : s.x[k] = IF locs[k].kind = "unknown" THEN Zero ELSE Arg(k, c)

\* A guard that reads the snapshot a, filled word by word at the entry.
SnapAt(p, s, c, w, a) ==
  /\ p \in {"entry", "store", "stored"} => \A k \in Args : s.x[k] = Arg(k, c)
  /\ p = "store" => \A k \in Args : k < w => a[k] = Arg(k, c)
  /\ p \notin {"idle", "entry", "store"} => \A k \in Args : a[k] = Arg(k, c)
  /\ p \notin {"store", "args"} => w = 0
  /\ p = "args" => \A k \in Args : k < w => s.x[k] = Arg(k, c)
  /\ p = "check" => \A k \in Args : s.x[k] = Arg(k, c)

\* Calls do not overlap.
Alone == \A t, u \in Threads : pc[t] # "idle" /\ pc[u] # "idle" => t = u

Brought ==
  /\ mode # "snap" => \A t \in Threads : PlacedAt(pc[t], m[t], call[t])
  /\ mode = "snap" => /\ Alone
                      /\ \A t \in Threads : SnapAt(pc[t], m[t], call[t], word[t], snap)

LEMMA PlaceInt ==
  ASSUME locs \in Layouts, NEW k \in Args
  PROVE  /\ locs[k].reg \in Int /\ 0 <= locs[k].reg /\ locs[k].reg <= 31
         /\ locs[k].off \in Int
<1>1. \A r \in Code : r \in Int /\ 0 <= r /\ r <= 31
  BY DEF Code
<1> QED BY <1>1, PlaceIs

LEMMA PlacesAre ==
  ASSUME LayoutsReadable, locs \in Layouts, NEW k \in Args
  PROVE  /\ locs[k].kind = "reg" =>
              /\ locs[k].reg \in Reg /\ locs[k].reg # 8 /\ locs[k].reg # 16 /\ locs[k].reg # 31
         /\ locs[k].kind = "slot" =>
              /\ locs[k].reg < 8 \/ locs[k].reg > 17
              /\ locs[k].reg # 31 => locs[k].reg \in Reg
              /\ SlotAt(k) >= -Frame
              /\ locs[k].reg = 31 => locs[k].off + SaveWords \in (-ImmWords)..ImmWords
<1>1. Sound(locs) /\ Readable(locs)
  BY DEF LayoutsReadable, Readable
<1>2. CASE locs[k].kind = "reg"
  <2>1. locs[k].reg \in Reg /\ locs[k].reg \notin {8, IP0}
    BY <1>1, <1>2 DEF Sound, Readable
  <2> QED BY <1>2, <2>1, RegInt DEF IP0
<1>3. CASE locs[k].kind = "slot"
  <2>1. /\ locs[k].reg < 8 \/ locs[k].reg > 17
        /\ SlotAt(k) >= -Frame
        /\ locs[k].reg = 31 => locs[k].off + SaveWords <= ImmWords
    BY <1>1, <1>3 DEF Sound, Readable, SlotAt
  <2>2. locs[k].off \in Int /\ locs[k].reg \in Int /\ 0 <= locs[k].reg /\ locs[k].reg <= 31
    BY PlaceInt
  <2>3. locs[k].reg # 31 => locs[k].reg \in Reg
    BY <2>2, RegsAre
  <2>4. locs[k].reg = 31 => locs[k].off >= 0
    BY <2>1, <2>2, RunAssumption DEF SlotAt, WordOf
  <2> QED BY <1>3, <2>1, <2>2, <2>3, <2>4 DEF SaveWords, ImmWords
<1> QED BY <1>2, <1>3

\* Two arguments are not in one place, and a base is not an argument.
LEMMA PlacesDiffer ==
  ASSUME LayoutsReadable, locs \in Layouts, NEW j \in Args, NEW k \in Args
  PROVE  /\ locs[j].kind = "reg" /\ locs[k].kind = "reg" /\ locs[j].reg = locs[k].reg => j = k
         /\ locs[j].kind = "slot" /\ locs[k].kind = "slot" /\ SlotAt(j) = SlotAt(k) => j = k
         /\ locs[j].kind = "slot" /\ locs[k].kind = "reg" => locs[j].reg # locs[k].reg
BY DEF LayoutsReadable, Readable, Sound, SlotAt

\* The function brings them there.
LEMMA HeldAtGuard ==
  ASSUME LayoutsReadable, locs \in Layouts, NEW b, IsState(b), NEW c \in Int, NEW v \in Int,
         NEW s, s = AtGuard(b, c, v)
  PROVE  s.sp = -Frame /\ Holds(s, c)
<1>1. /\ s.sp = -Frame /\ s.x = Holding(c, v)
      /\ \A k \in Slots : Peek(s, SlotAt(k)) = Arg(CHOOSE j \in Slots : SlotAt(j) = SlotAt(k), c)
  BY AtGuardIs
<1>2. ASSUME NEW k \in Args, locs[k].kind = "reg" PROVE s.x[locs[k].reg] = Arg(k, c)
  <2>1. PICK r \in Reg : r = locs[k].reg
    BY <1>2, PlacesAre
  <2>2. r \notin Bases
    BY <1>2, <2>1, PlacesDiffer DEF Bases
  <2>3. InRegister(r) = {k}
    BY <1>2, <2>1, PlacesDiffer DEF InRegister
  <2>4. (CHOOSE j \in InRegister(r) : TRUE) = k
    BY <2>3
  <2> QED BY <1>1, <2>1, <2>2, <2>3, <2>4 DEF Holding
<1>3. ASSUME NEW k \in Args, locs[k].kind = "slot"
      PROVE  /\ Peek(s, SlotAt(k)) = Arg(k, c)
             /\ locs[k].reg # 31 => s.x[locs[k].reg] = Addr(BaseAt)
  <2>1. k \in Slots
    BY <1>3 DEF Slots
  <2>2. \A j \in Slots : SlotAt(j) = SlotAt(k) => j = k
    BY <1>3, PlacesDiffer DEF Slots
  <2>3. (CHOOSE j \in Slots : SlotAt(j) = SlotAt(k)) = k
    BY <2>1, <2>2
  <2>4. ASSUME locs[k].reg # 31 PROVE s.x[locs[k].reg] = Addr(BaseAt)
    <3>1. PICK r \in Reg : r = locs[k].reg
      BY <1>3, <2>4, PlacesAre
    <3>2. r \in Bases
      BY <1>3, <2>4, <3>1 DEF Bases
    <3> QED BY <1>1, <3>1, <3>2 DEF Holding
  <2> QED BY <1>1, <2>1, <2>3, <2>4
<1> QED BY <1>1, <1>2, <1>3 DEF Holds

\* They are still there when the trampoline has saved the registers.
LEMMA HeldSaved ==
  ASSUME LayoutsReadable, locs \in Layouts, NEW b, IsState(b), b.sp = -Frame, NEW c, Holds(b, c),
         NEW z, z = SaveAll(Put(b, IP0, Nothing))
  PROVE  z.sp = -Frame - SaveWords /\ Holds(z, c)
<1>1. /\ z.sp = b.sp - SaveWords /\ Alike(z, b, b.sp)
      /\ \A q \in Reg : q # 8 /\ q # 16 => z.x[q] = b.x[q]
  BY SavingIs
<1>2. ASSUME NEW k \in Args, locs[k].kind = "reg" PROVE z.x[locs[k].reg] = Arg(k, c)
  <2>1. /\ locs[k].reg \in Reg /\ locs[k].reg # 8 /\ locs[k].reg # 16
        /\ b.x[locs[k].reg] = Arg(k, c)
    BY <1>2, PlacesAre DEF Holds
  <2> QED BY <1>1, <2>1
<1>3. ASSUME NEW k \in Args, locs[k].kind = "slot"
      PROVE  /\ Peek(z, SlotAt(k)) = Arg(k, c)
             /\ locs[k].reg # 31 => z.x[locs[k].reg] = Addr(BaseAt)
  <2>1. PICK n \in Int : n = SlotAt(k) /\ n >= b.sp
    BY <1>3, PlacesAre, SlotAtInt
  <2>2. Peek(b, n) = Arg(k, c) /\ (locs[k].reg # 31 => b.x[locs[k].reg] = Addr(BaseAt))
    BY <1>3, <2>1 DEF Holds
  <2>3. Peek(z, n) = Peek(b, n)
    BY <1>1, <2>1, AlikePeek
  <2>4. ASSUME locs[k].reg # 31 PROVE z.x[locs[k].reg] = b.x[locs[k].reg]
    <3>1. /\ locs[k].reg \in Reg /\ locs[k].reg \in Int
          /\ locs[k].reg < 8 \/ locs[k].reg > 17
      BY <1>3, <2>4, PlacesAre, RegInt
    <3>2. locs[k].reg # 8 /\ locs[k].reg # 16
      BY <3>1
    <3> QED BY <1>1, <3>1, <3>2
  <2> QED BY <2>1, <2>2, <2>3, <2>4
<1> QED BY <1>1, <1>2, <1>3 DEF Holds

\* And then they are loaded.
LEMMA LoadedRight ==
  ASSUME LayoutsReadable, locs \in Layouts, NEW s, IsState(s), s.sp = -Frame - SaveWords,
         NEW c, Holds(s, c), NEW p, p = ArgsLoad(s), NEW k \in Args
  PROVE  p.x[k] = IF locs[k].kind = "unknown" THEN Zero ELSE Arg(k, c)
<1>1. /\ locs[k].kind = "reg" /\ locs[k].reg # 31 => p.x[k] = s.x[locs[k].reg]
      /\ \A n \in Int : /\ locs[k].kind = "slot" /\ PointsTo(s, k, n) /\ n >= s.sp + 8
                        /\ locs[k].reg < 8 \/ locs[k].reg > 16
                        => p.x[k] = Peek(s, n)
      /\ locs[k].kind = "unknown" => p.x[k] = Zero
  BY ArgsLoadIs
<1>2. locs[k].kind \in {"reg", "slot", "unknown"} /\ locs[k].off \in Int /\ locs[k].reg \in Int
  BY PlaceIs, PlaceInt
<1>3. CASE locs[k].kind = "reg"
  BY <1>1, <1>3, PlacesAre DEF Holds
<1>4. CASE locs[k].kind = "slot"
  <2>1. PICK n \in Int : n = SlotAt(k) /\ n >= -Frame
    BY <1>4, PlacesAre, SlotAtInt
  <2>2. n >= s.sp + 8
    BY <2>1, RunAssumption DEF SaveWords
  <2>3. PointsTo(s, k, n)
    <3>1. CASE locs[k].reg = 31
      <4>1. locs[k].off + SaveWords \in (-ImmWords)..ImmWords
        BY <1>4, <3>1, PlacesAre
      <4>2. n = s.sp + SaveWords + locs[k].off
        BY <1>2, <2>1, <3>1, RunAssumption DEF SlotAt, WordOf, SaveWords
      <4> QED BY <3>1, <4>1, <4>2 DEF PointsTo
    <3>2. CASE locs[k].reg # 31
      <4>1. n - locs[k].off = BaseAt
        BY <1>2, <2>1, <3>2, RunAssumption DEF SlotAt, WordOf
      <4>2. s.x[locs[k].reg] = Addr(BaseAt)
        BY <1>4, <3>2 DEF Holds
      <4> QED BY <3>2, <4>1, <4>2 DEF PointsTo
    <3> QED BY <3>1, <3>2
  <2>4. locs[k].reg < 8 \/ locs[k].reg > 16
    BY <1>2, <1>4, PlacesAre
  <2>5. p.x[k] = Peek(s, n)
    BY <1>1, <1>4, <2>2, <2>3, <2>4
  <2> QED BY <1>4, <2>1, <2>5 DEF Holds
<1>5. CASE locs[k].kind = "unknown"
  BY <1>1, <1>5
<1> QED BY <1>2, <1>3, <1>4, <1>5

\* The other threads see nothing of a step but the snapshot area.
LEMMA OthersStay ==
  ASSUME TypeOK, NEW t \in Threads, ThreadStep(t), NEW u \in Threads, u # t
  PROVE  /\ pc'[u] = pc[u] /\ m'[u] = m[u] /\ at'[u] = at[u]
         /\ call'[u] = call[u] /\ word'[u] = word[u] /\ given'[u] = given[u]
<1>1. pc'[u] = pc[u] /\ m'[u] = m[u] /\ at'[u] = at[u]
  <2>1. PICK to \in Points : \E s, b : Goes(t, pc[t], to, s, b)
    BY AlwaysGoing DEF Going
  <2> QED BY <2>1 DEF Goes
<1>2. DOMAIN call = Threads /\ DOMAIN word = Threads /\ DOMAIN given = Threads
  BY DEF TypeOK
<1> DEFINE Stay == call'[u] = call[u] /\ word'[u] = word[u] /\ given'[u] = given[u]
<1> SUFFICES Stay
  BY <1>1
<1>3. CASE Same
  BY <1>3 DEF Same
<1>4. CASE Call(t) \/ EntryStore(t) \/ ArgsFromSnap(t) \/ Check(t) \/ Callee(t) \/ Return(t)
  BY <1>2, <1>4 DEF Call, EntryStore, ArgsFromSnap, Check, Callee, Return
<1>5. ASSUME NEW from, Reach(t, from) PROVE Stay
  BY <1>5 DEF Reach
<1>6. CASE \/ EntrySave(t) \/ EntryRestore(t) \/ Leave(t, "body") \/ Leave(t, "rest")
           \/ GuardSave(t) \/ ArgsFromPlaces(t) \/ Pass(t) \/ Skip(t) \/ Replay(t)
           \/ CallPass(t) \/ CallBack(t) \/ CallSkip(t) \/ Resume(t)
  <2>1. Same
    BY <1>6 DEF EntrySave, EntryRestore, Leave, GuardSave, ArgsFromPlaces, Pass, Skip, Replay,
                CallPass, CallBack, CallSkip, Resume
  <2> QED BY <1>3, <2>1
<1> QED BY <1>4, <1>5, <1>6 DEF ThreadStep

LEMMA StepIs ==
  ASSUME TypeOK, NEW t \in Threads, NEW from, NEW to, NEW s, Step(t, from, to, s)
  PROVE  pc[t] = from /\ pc'[t] = to /\ m'[t] = s
BY DEF TypeOK, Step

\* A guard that reads the places.
LEMMA PlacedOn ==
  ASSUME TypeOK, LayoutsReadable, NEW t \in Threads, ThreadStep(t), mode # "snap",
         PlacedAt(pc[t], m[t], call[t])
  PROVE  PlacedAt(pc'[t], m'[t], call'[t])
<1>1. locs \in Layouts /\ locs' = locs /\ IsState(m[t])
  BY StateNow, RestStays DEF TypeOK
<1>2. ASSUME NEW from, Reach(t, from) PROVE PlacedAt(pc'[t], m'[t], call'[t])
  <2>1. PICK c \in Int, v \in Int :
          c = call[t] /\ v = MaxCalls + call[t] * MaxVisits + visit[t]
    BY RunAssumption DEF TypeOK
  <2>2. PICK s : s = AtGuard(m[t], c, v)
    OBVIOUS
  <2>3. s.sp = -Frame /\ Holds(s, c)
    BY <1>1, <2>2, HeldAtGuard
  <2>4. Step(t, from, "guard", s) /\ call' = call
    BY <1>2, <2>1, <2>2 DEF Reach
  <2>5. pc'[t] = "guard" /\ m'[t] = s
    BY <2>4, StepIs
  <2> QED BY <2>1, <2>3, <2>4, <2>5 DEF PlacedAt
<1>3. CASE GuardSave(t)
  <2>1. PICK z : z = SaveAll(Put(m[t], IP0, Nothing))
    OBVIOUS
  <2>2. Step(t, "guard", "args", z) /\ call' = call
    BY <1>3, <2>1 DEF GuardSave, Same
  <2>3. pc[t] = "guard" /\ pc'[t] = "args" /\ m'[t] = z
    BY <2>2, StepIs
  <2>4. m[t].sp = -Frame /\ Holds(m[t], call[t])
    BY <2>3 DEF PlacedAt
  <2>5. z.sp = -Frame - SaveWords /\ Holds(z, call[t])
    BY <1>1, <2>1, <2>4, HeldSaved
  <2> QED BY <2>2, <2>3, <2>5 DEF PlacedAt
<1>4. CASE ArgsFromPlaces(t)
  <2>1. PICK p : p = ArgsLoad(m[t])
    OBVIOUS
  <2>2. Step(t, "args", "check", p) /\ call' = call
    BY <1>4, <2>1 DEF ArgsFromPlaces, Same
  <2>3. pc[t] = "args" /\ pc'[t] = "check" /\ m'[t] = p
    BY <2>2, StepIs
  <2>4. m[t].sp = -Frame - SaveWords /\ Holds(m[t], call[t])
    BY <2>3 DEF PlacedAt
  <2>5. \A k \in Args : p.x[k] = IF locs[k].kind = "unknown" THEN Zero ELSE Arg(k, call[t])
    BY <1>1, <2>1, <2>4, LoadedRight
  <2> QED BY <1>1, <2>2, <2>3, <2>5 DEF PlacedAt
<1>5. CASE ArgsFromSnap(t)
  BY <1>5 DEF ArgsFromSnap
<1>6. ASSUME NEW from, NEW to, NEW s, Step(t, from, to, s), to \notin {"guard", "args", "check"}
      PROVE  PlacedAt(pc'[t], m'[t], call'[t])
  <2>1. pc'[t] = to
    BY <1>6, StepIs
  <2> QED BY <1>6, <2>1 DEF PlacedAt
<1>7. CASE \/ Call(t) \/ EntrySave(t) \/ EntryStore(t) \/ EntryRestore(t)
  BY <1>6, <1>7 DEF Call, EntrySave, EntryStore, EntryRestore
<1>8. CASE Leave(t, "body") \/ Leave(t, "rest") \/ Check(t) \/ Pass(t) \/ Skip(t) \/ Replay(t)
  BY <1>6, <1>8 DEF Leave, Check, Pass, Skip, Replay
<1>9. CASE CallPass(t) \/ Callee(t) \/ CallBack(t) \/ CallSkip(t) \/ Resume(t) \/ Return(t)
  BY <1>6, <1>9 DEF CallPass, Callee, CallBack, CallSkip, Resume, Return
<1> QED BY <1>2, <1>3, <1>4, <1>5, <1>7, <1>8, <1>9 DEF ThreadStep

\* A guard that reads the snapshot.  Most steps of a thread leave it as it is.
LEMMA SnapOn ==
  ASSUME NEW p \in Points \ {"idle", "entry", "store", "args"},
         NEW q \in Points \ {"idle", "entry", "store", "stored", "check"},
         NEW s, NEW z, NEW c, NEW w, NEW a, SnapAt(p, s, c, w, a)
  PROVE  SnapAt(q, z, c, w, a)
<1>1. w = 0 /\ \A k \in Args : a[k] = Arg(k, c)
  BY DEF SnapAt
<1>2. \A k \in Args : ~(k < 0)
  BY ArgsInt
<1> QED BY <1>1, <1>2 DEF SnapAt

\* Saving the registers changes x8, x9 and x16 alone.
LEMMA SavingArgs ==
  ASSUME NEW b, IsState(b), NEW z, z = Put(SaveAll(Put(b, IP0, Nothing)), 9, Nothing)
  PROVE  \A k \in Args : z.x[k] = b.x[k]
<1>1. PICK y : y = SaveAll(Put(b, IP0, Nothing))
  OBVIOUS
<1>2. IsState(y) /\ \A q \in Reg : q # 8 /\ q # 16 => y.x[q] = b.x[q]
  BY <1>1, SavingIs
<1>3. PICK r \in Code, v \in Value : r = 9 /\ v = Nothing
  BY CodeIs, ValueMade
<1>4. \A q \in Reg : z.x[q] = IF q = r THEN v ELSE y.x[q]
  BY <1>1, <1>2, <1>3, PutReg
<1> QED BY <1>2, <1>3, <1>4, ArgsInt, RegsAre

LEMMA WordIs == \A w \in Args : w # 7 => (w + 1) % 8 = w + 1 /\ (7 + 1) % 8 = 0
BY DEF Args

LEMMA BelowNext == \A j, w \in Args : (j < w + 1 => j < w \/ j = w) /\ (w = 7 => j < w \/ j = w)
BY ArgsInt

LEMMA SnapStored ==
  ASSUME TypeOK, NEW t \in Threads, EntryStore(t),
         SnapAt(pc[t], m[t], call[t], word[t], snap)
  PROVE  SnapAt(pc'[t], m'[t], call'[t], word'[t], snap')
<1> PICK s, c : s = m[t] /\ c = call[t]
  OBVIOUS
<1>1. PICK w \in Args : w = word[t]
  BY DEF TypeOK
<1>2. Step(t, "store", IF w = 7 THEN "stored" ELSE "store", s)
  BY <1>1 DEF EntryStore
<1>3. pc[t] = "store" /\ pc'[t] = (IF w = 7 THEN "stored" ELSE "store") /\ m'[t] = s
  BY <1>2, StepIs
<1>4. /\ \A k \in Args : s.x[k] = Arg(k, c)
      /\ \A k \in Args : k < w => snap[k] = Arg(k, c)
  BY <1>1, <1>3 DEF SnapAt
<1>5. X(s, w) = Arg(w, c)
  BY <1>4, ArgsInt DEF X
<1>6. call' = call /\ word'[t] = (w + 1) % 8
  BY <1>1 DEF EntryStore, TypeOK
<1>7. \A k \in Args : k < w \/ k = w => snap'[k] = Arg(k, c)
  <2>1. \A k \in Args : snap'[k] = IF k = w THEN X(s, w) ELSE snap[k]
    BY <1>1 DEF EntryStore, TypeOK
  <2> QED BY <1>4, <1>5, <2>1
<1>8. CASE w = 7
  <2>1. \A k \in Args : snap'[k] = Arg(k, c)
    BY <1>7, <1>8, BelowNext
  <2>2. word'[t] = 0 /\ pc'[t] = "stored"
    BY <1>3, <1>6, <1>8
  <2> QED BY <1>3, <1>4, <1>6, <2>1, <2>2 DEF SnapAt
<1>9. CASE w # 7
  <2>1. word'[t] = w + 1 /\ pc'[t] = "store"
    BY <1>3, <1>6, <1>9, WordIs
  <2>2. \A k \in Args : k < w + 1 => snap'[k] = Arg(k, c)
    BY <1>7, BelowNext
  <2> QED BY <1>3, <1>4, <1>6, <2>1, <2>2 DEF SnapAt
<1> QED BY <1>8, <1>9

LEMMA SnapRead ==
  ASSUME TypeOK, NEW t \in Threads, ArgsFromSnap(t),
         SnapAt(pc[t], m[t], call[t], word[t], snap)
  PROVE  SnapAt(pc'[t], m'[t], call'[t], word'[t], snap')
<1> PICK c : c = call[t]
  OBVIOUS
<1>1. PICK w \in Args : w = word[t]
  BY DEF TypeOK
<1>2. PICK y, z : y = Put(m[t], 9, Nothing) /\ z = Put(y, w, snap[w])
  OBVIOUS
<1>3. Step(t, "args", IF w = 7 THEN "check" ELSE "args", z)
  BY <1>1, <1>2 DEF ArgsFromSnap
<1>4. pc[t] = "args" /\ pc'[t] = (IF w = 7 THEN "check" ELSE "args") /\ m'[t] = z
  BY <1>3, StepIs
<1>5. /\ \A k \in Args : snap[k] = Arg(k, c)
      /\ \A k \in Args : k < w => m[t].x[k] = Arg(k, c)
  BY <1>1, <1>4 DEF SnapAt
<1>6. call' = call /\ snap' = snap /\ word'[t] = (w + 1) % 8
  BY <1>1 DEF ArgsFromSnap, TypeOK
<1>7. \A k \in Args : k < w \/ k = w => z.x[k] = Arg(k, c)
  <2>1. PICK r \in Code, v \in Value : r = 9 /\ v = Nothing
    BY CodeIs, ValueMade
  <2>2. PICK d \in Code, u \in Value : d = w /\ u = snap[w]
    BY CodeIs DEF TypeOK
  <2>3. IsState(m[t])
    BY StateNow
  <2>4. y = Put(m[t], r, v) /\ z = Put(y, d, u)
    BY <1>2, <2>1, <2>2
  <2>5. IsState(y)
    BY <2>3, <2>4, WritingIs
  <2>6. \A q \in Reg : y.x[q] = IF q = r THEN v ELSE m[t].x[q]
    BY <2>3, <2>4, PutReg
  <2>7. \A q \in Reg : z.x[q] = IF q = d THEN u ELSE y.x[q]
    BY <2>4, <2>5, PutReg
  <2>8. \A k \in Args : k \in Reg /\ k # 9
    BY ArgsInt, RegsAre
  <2>9. \A k \in Args : z.x[k] = IF k = w THEN snap[w] ELSE m[t].x[k]
    BY <2>1, <2>2, <2>6, <2>7, <2>8
  <2> QED BY <1>5, <2>9
<1>8. CASE w = 7
  <2>1. \A k \in Args : z.x[k] = Arg(k, c)
    BY <1>7, <1>8, BelowNext
  <2>2. word'[t] = 0 /\ pc'[t] = "check"
    BY <1>4, <1>6, <1>8
  <2> QED BY <1>4, <1>5, <1>6, <2>1, <2>2 DEF SnapAt
<1>9. CASE w # 7
  <2>1. word'[t] = w + 1 /\ pc'[t] = "args"
    BY <1>4, <1>6, <1>9, WordIs
  <2>2. \A k \in Args : k < w + 1 => z.x[k] = Arg(k, c)
    BY <1>7, BelowNext
  <2> QED BY <1>4, <1>5, <1>6, <2>1, <2>2 DEF SnapAt
<1> QED BY <1>8, <1>9

LEMMA SnapSteps ==
  ASSUME TypeOK, NEW t \in Threads, ThreadStep(t), mode = "snap",
         SnapAt(pc[t], m[t], call[t], word[t], snap)
  PROVE  SnapAt(pc'[t], m'[t], call'[t], word'[t], snap')
<1>1. CASE Call(t)
  <2>1. PICK s, c : c = calls + 1 /\ s = Entered(c)
    OBVIOUS
  <2>2. Step(t, "idle", "entry", s) /\ call' = [call EXCEPT ![t] = c] /\ word' = word
    BY <1>1, <2>1 DEF Call
  <2>3. pc[t] = "idle" /\ pc'[t] = "entry" /\ m'[t] = s
    BY <2>2, StepIs
  <2>4. call'[t] = c
    BY <2>2 DEF TypeOK
  <2>5. \A k \in Args : s.x[k] = Arg(k, c)
    BY <2>1, ArgsInt, RegsAre DEF Entered
  <2>6. word[t] = 0
    BY <2>3 DEF SnapAt
  <2> QED BY <2>2, <2>3, <2>4, <2>5, <2>6 DEF SnapAt
<1>2. CASE EntrySave(t)
  <2>1. PICK z : z = Put(SaveAll(Put(m[t], IP0, Nothing)), 9, Nothing)
    OBVIOUS
  <2>2. Step(t, "entry", "store", z) /\ call' = call /\ word' = word /\ snap' = snap
    BY <1>2, <2>1 DEF EntrySave, Same
  <2>3. pc[t] = "entry" /\ pc'[t] = "store" /\ m'[t] = z
    BY <2>2, StepIs
  <2>4. word[t] = 0 /\ \A k \in Args : m[t].x[k] = Arg(k, call[t])
    BY <2>3 DEF SnapAt
  <2>5. \A k \in Args : z.x[k] = m[t].x[k]
    BY <2>1, StateNow, SavingArgs
  <2>6. \A k \in Args : ~(k < 0)
    BY ArgsInt
  <2> QED BY <2>2, <2>3, <2>4, <2>5, <2>6 DEF SnapAt
<1>3. CASE EntryStore(t)
  BY <1>3, SnapStored
<1>4. CASE ArgsFromSnap(t)
  BY <1>4, SnapRead
<1>5. CASE Return(t)
  <2>1. Step(t, "after", "idle", Resting) /\ word' = word
    BY <1>5 DEF Return
  <2>2. pc[t] = "after" /\ pc'[t] = "idle"
    BY <2>1, StepIs
  <2>3. word[t] = 0
    BY <2>2 DEF SnapAt
  <2> QED BY <2>1, <2>2, <2>3 DEF SnapAt
<1>6. ASSUME NEW from \in Points \ {"idle", "entry", "store", "args"},
             NEW to \in Points \ {"idle", "entry", "store", "stored", "check"},
             NEW s, Step(t, from, to, s), call' = call, word' = word, snap' = snap
      PROVE  SnapAt(pc'[t], m'[t], call'[t], word'[t], snap')
  <2>1. pc[t] = from /\ pc'[t] = to
    BY <1>6, StepIs
  <2> QED BY <1>6, <2>1, SnapOn
<1>7. CASE Reach(t, "body") \/ Reach(t, "rest") \/ Reach(t, "after")
  BY <1>6, <1>7 DEF Reach, Points
<1>8. CASE EntryRestore(t) \/ Leave(t, "body") \/ Leave(t, "rest") \/ GuardSave(t)
  BY <1>6, <1>8 DEF EntryRestore, Leave, GuardSave, Same, Points
<1>9. CASE Check(t)
  BY <1>6, <1>9 DEF Check, Points
<1>10. CASE Pass(t) \/ Skip(t) \/ Replay(t)
  BY <1>6, <1>10 DEF Pass, Skip, Replay, Same, Points
<1>11. CASE CallPass(t) \/ CallBack(t) \/ CallSkip(t) \/ Resume(t)
  BY <1>6, <1>11 DEF CallPass, CallBack, CallSkip, Resume, Same, Points
<1>12. CASE Callee(t)
  BY <1>6, <1>12 DEF Callee, Points
<1>13. CASE ArgsFromPlaces(t)
  BY <1>13 DEF ArgsFromPlaces
<1> QED BY <1>1, <1>2, <1>3, <1>4, <1>5, <1>7, <1>8, <1>9, <1>10, <1>11, <1>12, <1>13
        DEF ThreadStep

LEMMA AloneStays ==
  ASSUME TypeOK, NEW t \in Threads, ThreadStep(t), mode \notin Overlapping, Alone
  PROVE  Alone' /\ \A u \in Threads : u # t => pc'[u] = "idle" /\ pc[u] = "idle"
<1>1. \A u \in Threads : u # t => pc[u] = "idle"
  <2>1. CASE pc[t] = "idle"
    <3>1. Call(t)
      BY <2>1 DEF ThreadStep, Call, EntrySave, EntryStore, EntryRestore, Reach, Leave, GuardSave,
                  ArgsFromPlaces, ArgsFromSnap, Check, Pass, Skip, Replay, CallPass, Callee,
                  CallBack, CallSkip, Resume, Return, Step
    <3> QED BY <3>1 DEF Call
  <2>2. CASE pc[t] # "idle"
    BY <2>2 DEF Alone
  <2> QED BY <2>1, <2>2
<1>2. \A u \in Threads : u # t => pc'[u] = "idle"
  BY <1>1, OthersStay
<1> QED BY <1>1, <1>2 DEF Alone

LEMMA BroughtInit == Init => Brought
<1> SUFFICES ASSUME Init PROVE Brought
  OBVIOUS
<1>1. \A t \in Threads : pc[t] = "idle" /\ word[t] = 0
  BY DEF Init
<1>2. \A t \in Threads : PlacedAt(pc[t], m[t], call[t])
  BY <1>1 DEF PlacedAt
<1>3. \A t \in Threads : SnapAt(pc[t], m[t], call[t], word[t], snap)
  BY <1>1 DEF SnapAt
<1>4. Alone
  BY <1>1 DEF Alone
<1> QED BY <1>2, <1>3, <1>4 DEF Brought

LEMMA BroughtNext ==
  LayoutsReadable /\ SnapAlone /\ TypeOK /\ Brought /\ [Next]_vars => Brought'
<1> SUFFICES ASSUME LayoutsReadable, SnapAlone, TypeOK, Brought, [Next]_vars PROVE Brought'
  OBVIOUS
<1>1. CASE UNCHANGED vars
  BY <1>1 DEF vars, Brought, PlacedAt, Holds, SnapAt, Alone, SlotAt
<1>2. ASSUME NEW t \in Threads, ThreadStep(t) PROVE Brought'
  <2>1. mode' = mode /\ locs' = locs
    BY <1>2, RestStays
  <2>2. ASSUME mode # "snap", NEW u \in Threads PROVE PlacedAt(pc[u], m[u], call[u])'
    <3>1. PlacedAt(pc[u], m[u], call[u]) /\ PlacedAt(pc[t], m[t], call[t])
      BY <2>2 DEF Brought
    <3>2. PlacedAt(pc'[t], m'[t], call'[t])
      BY <1>2, <2>2, <3>1, PlacedOn
    <3>3. PlacedAt(pc'[u], m'[u], call'[u])
      BY <1>2, <3>1, <3>2, OthersStay
    <3> QED BY <2>1, <3>3 DEF PlacedAt, Holds, SlotAt
  <2>3. ASSUME mode = "snap"
        PROVE  Alone' /\ \A u \in Threads : SnapAt(pc[u], m[u], call[u], word[u], snap)'
    <3>1. /\ Alone /\ mode \notin Overlapping
          /\ \A u \in Threads : SnapAt(pc[u], m[u], call[u], word[u], snap)
      BY <2>3 DEF Brought, SnapAlone
    <3>2. Alone' /\ \A u \in Threads : u # t => pc'[u] = "idle" /\ pc[u] = "idle"
      BY <1>2, <3>1, AloneStays
    <3>3. SnapAt(pc'[t], m'[t], call'[t], word'[t], snap')
      BY <1>2, <2>3, <3>1, SnapSteps
    <3>4. ASSUME NEW u \in Threads, u # t
          PROVE  SnapAt(pc'[u], m'[u], call'[u], word'[u], snap')
      <4>1. pc[u] = "idle" /\ pc'[u] = "idle"
        BY <3>2, <3>4
      <4>2. word'[u] = word[u]
        BY <1>2, <3>4, OthersStay
      <4>3. word[u] = 0
        BY <3>1, <4>1 DEF SnapAt
      <4> QED BY <4>1, <4>2, <4>3 DEF SnapAt
    <3> QED BY <3>2, <3>3, <3>4 DEF SnapAt
  <2> QED BY <2>1, <2>2, <2>3 DEF Brought
<1> QED BY <1>1, <1>2 DEF Next

LEMMA BroughtGiven ==
  ASSUME LayoutsReadable, TypeOK, Brought
  PROVE  CheckGetsArguments
<1> SUFFICES ASSUME NEW t \in Threads, pc[t] = "check", NEW k \in Args
             PROVE  X(m[t], k) = Expected(t)[k]
  BY DEF CheckGetsArguments
<1>1. X(m[t], k) = m[t].x[k]
  BY ArgsInt DEF X
<1>2. Expected(t)[k] = IF k \in Found THEN Arg(k, call[t]) ELSE Zero
  BY DEF Expected
<1>3. CASE mode = "snap"
  <2>1. m[t].x[k] = Arg(k, call[t])
    BY <1>3 DEF Brought, SnapAt
  <2> QED BY <1>1, <1>2, <1>3, <2>1 DEF Found
<1>4. CASE mode # "snap"
  <2>1. m[t].x[k] = IF locs[k].kind = "unknown" THEN Zero ELSE Arg(k, call[t])
    BY <1>4 DEF Brought, PlacedAt
  <2> QED BY <1>1, <1>2, <1>4, <2>1 DEF Found
<1> QED BY <1>3, <1>4

\* check gets the arguments of the very call that meets the guard, 0 for one that
\* analysis did not find, wherever it has found the others, if it is not in the
\* places that emit_args_load misreads, and if calls of a function with a
\* snapshot do not overlap.
THEOREM ArgumentsGiven == LayoutsReadable /\ SnapAlone => (Spec => []CheckGetsArguments)
<1> SUFFICES ASSUME LayoutsReadable, SnapAlone PROVE Spec => []CheckGetsArguments
  OBVIOUS
<1>1. Init => TypeOK /\ Brought
  BY TypeInit, BroughtInit
<1>2. TypeOK /\ Brought /\ [Next]_vars => (TypeOK /\ Brought)'
  BY TypeNext, BroughtNext
<1>3. TypeOK /\ Brought => CheckGetsArguments
  BY BroughtGiven
<1> QED BY <1>1, <1>2, <1>3, PTL DEF Spec

(***************************************************************************)
(* The guard is an if around its block.                                    *)
(***************************************************************************)
\* The function works on the state in which it last met a patch.
Looks == \A t \in Threads : View(t) = IF pc[t] = "idle" THEN Nothing ELSE Visible(at[t])

LEMMA LooksSo == TypeOK /\ Kept => Looks
<1> SUFFICES ASSUME TypeOK, Kept, NEW t \in Threads
             PROVE  View(t) = IF pc[t] = "idle" THEN Nothing ELSE Visible(at[t])
  BY DEF Looks
<1>1. pc[t] \in Points
  BY DEF TypeOK
<1>2. CASE pc[t] = "idle" \/ pc[t] \in Inside
  BY <1>2 DEF View, Inside
<1>3. CASE pc[t] \in {"entry", "guard"}
  <2>1. m[t] = at[t]
    BY <1>3 DEF Kept, KeptAt
  <2> QED BY <1>3, <2>1 DEF View
<1>4. CASE pc[t] \in Running
  <2>1. Visible(m[t]) = Visible(at[t])
    BY <1>4, KeptSeen DEF ContextIntact, Running
  <2> QED BY <1>4, <2>1 DEF View, Running
<1> QED BY <1>1, <1>2, <1>3, <1>4 DEF Points, Inside, Running

ArgsOf(t) == IF pc[t] = "idle" THEN Nothing ELSE [k \in Args |-> Arg(k, call[t])]

\* What the block sees of thread t, and that it sees no change of it.
Seen(t) == <<Stage(t), ArgsOf(t), View(t), given[t]>>

LEMMA SeenOthers ==
  ASSUME TypeOK, NEW t \in Threads, ThreadStep(t)
  PROVE  Found' = Found /\ \A u \in Threads : u # t => Seen(u)' = Seen(u)
<1>1. mode' = mode /\ locs' = locs
  BY RestStays
<1>2. Found' = Found
  BY <1>1 DEF Found
<1>3. ASSUME NEW u \in Threads, u # t PROVE Seen(u)' = Seen(u)
  <2>1. /\ pc'[u] = pc[u] /\ m'[u] = m[u] /\ at'[u] = at[u]
        /\ call'[u] = call[u] /\ given'[u] = given[u]
    BY <1>3, OthersStay
  <2>2. Stage(u)' = Stage(u)
    BY <1>1, <2>1 DEF Stage
  <2>3. View(u)' = View(u)
    BY <1>1, <2>1 DEF View, Visible, Unseen
  <2>4. ArgsOf(u)' = ArgsOf(u)
    BY <2>1 DEF ArgsOf
  <2> QED BY <2>1, <2>2, <2>3, <2>4 DEF Seen
<1> QED BY <1>2, <1>3

BlockSees == <<Found, [t \in Threads |-> Stage(t)], [t \in Threads |-> ArgsOf(t)],
               [t \in Threads |-> View(t)], given>>

\* A step of a trampoline is none of the block.
LEMMA BlockStutters ==
  ASSUME TypeOK, Looks, Looks', NEW t \in Threads, ThreadStep(t),
         pc[t] # "idle", pc'[t] # "idle", Stage(t)' = Stage(t),
         UNCHANGED <<at, call, given>>
  PROVE  UNCHANGED BlockSees
<1>1. Found' = Found /\ \A u \in Threads : u # t => Seen(u)' = Seen(u)
  BY SeenOthers
<1>2. View(t)' = View(t)
  <2>1. View(t) = Visible(at[t]) /\ View(t)' = Visible(at[t])'
    BY DEF Looks
  <2>2. mode' = mode /\ at' = at
    BY RestStays
  <2>3. Visible(at[t])' = Visible(at[t])
    BY <2>2 DEF Visible, Unseen
  <2> QED BY <2>1, <2>3
<1>3. ArgsOf(t)' = ArgsOf(t)
  BY DEF ArgsOf
<1>4. \A u \in Threads : Stage(u)' = Stage(u) /\ ArgsOf(u)' = ArgsOf(u) /\ View(u)' = View(u)
  BY <1>1, <1>2, <1>3 DEF Seen
<1>5. [u \in Threads |-> Stage(u)]' = [u \in Threads |-> Stage(u)]
  BY <1>4
<1>6. [u \in Threads |-> ArgsOf(u)]' = [u \in Threads |-> ArgsOf(u)]
  BY <1>4
<1>7. [u \in Threads |-> View(u)]' = [u \in Threads |-> View(u)]
  BY <1>4
<1> QED BY <1>1, <1>5, <1>6, <1>7 DEF BlockSees

\* A step of the function is one of the block.
LEMMA BlockMoves ==
  ASSUME TypeOK, NEW t \in Threads, ThreadStep(t), NEW from, NEW to,
         Stage(t) = from, Stage(t)' = to
  PROVE  Block!Move(t, from, to)
<1>1. \A u \in Threads : u # t => Stage(u)' = Stage(u)
  BY SeenOthers DEF Seen
<1>2. [u \in Threads |-> Stage(u)]' = [[u \in Threads |-> Stage(u)] EXCEPT ![t] = to]
  BY <1>1
<1> QED BY <1>2 DEF Block!Move

LEMMA BlockComputes ==
  ASSUME TypeOK, NEW t \in Threads, ThreadStep(t), NEW from, NEW to,
         Stage(t) = from, Stage(t)' = to, pc[t] # "idle", pc'[t] # "idle",
         UNCHANGED <<call, given>>
  PROVE  Block!Compute(t, from, to)
<1>1. \A u \in Threads : u # t => View(u)' = View(u) /\ ArgsOf(u)' = ArgsOf(u)
  BY SeenOthers DEF Seen
<1>2. ArgsOf(t)' = ArgsOf(t)
  BY DEF ArgsOf
<1>3. [u \in Threads |-> ArgsOf(u)]' = [u \in Threads |-> ArgsOf(u)]
  BY <1>1, <1>2
<1>4. Block!Move(t, from, to)
  BY BlockMoves
<1> QED BY <1>1, <1>3, <1>4 DEF Block!Compute, ArgsOf

LEMMA BlockCalled ==
  ASSUME TypeOK, Looks, Looks', NEW t \in Threads, Call(t)
  PROVE  Block!Call(t)
<1>1. ThreadStep(t)
  BY DEF ThreadStep
<1>2. PICK to \in {"entry", "body"} : Step(t, "idle", to, Entered(calls + 1)) /\ given' = given
  BY DEF Call
<1>3. pc[t] = "idle" /\ pc'[t] = to
  BY <1>2, StepIs
<1>4. Stage(t) = "idle" /\ Stage(t)' = "body"
  BY <1>2, <1>3 DEF Stage
<1>5. Block!Move(t, "idle", "body")
  BY <1>1, <1>4, BlockMoves
<1>6. \A u \in Threads : u # t => View(u)' = View(u) /\ ArgsOf(u)' = ArgsOf(u)
  BY <1>1, SeenOthers DEF Seen
<1> QED BY <1>2, <1>5, <1>6 DEF Block!Call, ArgsOf

LEMMA BlockChecks ==
  ASSUME TypeOK, Looks, Looks', CheckGetsArguments, NEW t \in Threads, Check(t)
  PROVE  Block!Check(t)
<1>1. ThreadStep(t)
  BY DEF ThreadStep
<1>2. PICK s : Step(t, "check", "decide", s)
  BY DEF Check
<1>3. pc[t] = "check" /\ pc'[t] = "decide"
  BY <1>2, StepIs
<1>4. Stage(t) = "guard" /\ (Stage(t)' = "after" \/ Stage(t)' = "block")
  BY <1>3 DEF Stage
<1>5. Block!Move(t, "guard", "block") \/ Block!Move(t, "guard", "after")
  BY <1>1, <1>4, BlockMoves
<1>6. mode' = mode /\ UNCHANGED <<at, call>>
  BY <1>1, RestStays DEF Check
<1>7. View(t)' = View(t) /\ ArgsOf(t)' = ArgsOf(t)
  <2>1. View(t) = Visible(at[t]) /\ View(t)' = Visible(at[t])'
    BY <1>3 DEF Looks
  <2>2. Visible(at[t])' = Visible(at[t])
    BY <1>6 DEF Visible, Unseen
  <2> QED BY <1>3, <1>6, <2>1, <2>2 DEF ArgsOf
<1>8. \A u \in Threads : View(u)' = View(u) /\ ArgsOf(u)' = ArgsOf(u)
  BY <1>1, <1>7, SeenOthers DEF Seen
<1>9. /\ [u \in Threads |-> ArgsOf(u)]' = [u \in Threads |-> ArgsOf(u)]
      /\ [u \in Threads |-> View(u)]' = [u \in Threads |-> View(u)]
  BY <1>8
<1>10. given' = [given EXCEPT ![t] =
                  [k \in Args |-> IF k \in Found THEN ArgsOf(t)[k] ELSE Zero]]
  <2>1. given' = [given EXCEPT ![t] = [k \in Args |-> X(m[t], k)]]
    BY DEF Check
  <2>2. \A k \in Args : X(m[t], k) = IF k \in Found THEN Arg(k, call[t]) ELSE Zero
    BY <1>3 DEF CheckGetsArguments, Expected
  <2>3. \A k \in Args : ArgsOf(t)[k] = Arg(k, call[t])
    BY <1>3 DEF ArgsOf
  <2>4. [k \in Args |-> X(m[t], k)] = [k \in Args |-> IF k \in Found THEN ArgsOf(t)[k] ELSE Zero]
    BY <2>2, <2>3
  <2> QED BY <2>1, <2>4
<1>11. given' = [given EXCEPT ![t] =
          [k \in Args |-> IF k \in Found THEN [u \in Threads |-> ArgsOf(u)][t][k] ELSE Zero]]
  BY <1>10
<1> QED BY <1>5, <1>9, <1>11 DEF Block!Check, ArgsOf

LEMMA BlockReturns ==
  ASSUME TypeOK, Looks, Looks', NEW t \in Threads, Return(t)
  PROVE  Block!Return(t)
<1>1. ThreadStep(t)
  BY DEF ThreadStep
<1>2. Step(t, "after", "idle", Resting) /\ given' = [given EXCEPT ![t] = Nothing]
  BY DEF Return
<1>3. pc[t] = "after" /\ pc'[t] = "idle"
  BY <1>2, StepIs
<1>4. Stage(t) = "after" /\ Stage(t)' = "idle"
  BY <1>3 DEF Stage
<1>5. Block!Move(t, "after", "idle")
  BY <1>1, <1>4, BlockMoves
<1>6. View(t)' = Nothing /\ ArgsOf(t)' = Nothing
  BY <1>3 DEF Looks, ArgsOf
<1>7. \A u \in Threads : u # t => View(u)' = View(u) /\ ArgsOf(u)' = ArgsOf(u)
  BY <1>1, SeenOthers DEF Seen
<1>8. [u \in Threads |-> ArgsOf(u)]' = [[u \in Threads |-> ArgsOf(u)] EXCEPT ![t] = Nothing]
  BY <1>6, <1>7
<1>9. [u \in Threads |-> View(u)]' = [[u \in Threads |-> View(u)] EXCEPT ![t] = Nothing]
  BY <1>6, <1>7
<1> QED BY <1>2, <1>5, <1>8, <1>9 DEF Block!Return, ArgsOf

LEMMA BlockStep ==
  ASSUME TypeOK, Kept, CheckGetsArguments, Looks, Looks', NEW t \in Threads, ThreadStep(t)
  PROVE  Block!Next \/ UNCHANGED BlockSees
<1>1. Found' = Found /\ mode' = mode
  BY SeenOthers, RestStays
<1>2. CASE Call(t)
  BY <1>1, <1>2, BlockCalled DEF Block!Next
<1>3. CASE Check(t)
  BY <1>1, <1>3, BlockChecks DEF Block!Next
<1>4. CASE Return(t)
  BY <1>1, <1>4, BlockReturns DEF Block!Next
<1>5. ASSUME NEW from \in Points \ {"idle"}, NEW to \in Points \ {"idle"}, NEW s,
             Step(t, from, to, s), Stage(t)' = Stage(t), UNCHANGED <<at, call, given>>
      PROVE  UNCHANGED BlockSees
  <2>1. pc[t] = from /\ pc'[t] = to
    BY <1>5, StepIs
  <2> QED BY <1>5, <2>1, BlockStutters
<1>6. ASSUME NEW p \in Points \ {"idle"}, NEW q \in Points \ {"idle"}, NEW s,
             Step(t, p, q, s), UNCHANGED <<call, given>>,
             NEW from, NEW to, Stage(t) = from, Stage(t)' = to,
             \/ from = "body" /\ to \in {"guard", "after"}
             \/ from = "block" /\ to \in {"guard", "after"}
             \/ from = "after" /\ to = "guard"
      PROVE  Block!Next
  <2>1. pc[t] = p /\ pc'[t] = q
    BY <1>6, StepIs
  <2>2. Block!Compute(t, from, to)
    BY <1>6, <2>1, BlockComputes
  <2> QED BY <1>1, <1>6, <2>2 DEF Block!Next
<1>7. CASE EntrySave(t) \/ EntryStore(t) \/ EntryRestore(t)
  <2>1. PICK from, to \in {"entry", "store", "stored", "body"} : \E s : Step(t, from, to, s)
    BY <1>7 DEF EntrySave, EntryStore, EntryRestore
  <2>2. Stage(t) = "body" /\ Stage(t)' = "body"
    BY <2>1, StepIs DEF Stage
  <2>3. UNCHANGED <<at, call, given>>
    BY <1>7 DEF EntrySave, EntryStore, EntryRestore, Same
  <2> QED BY <1>5, <2>1, <2>2, <2>3 DEF Points
<1>8. CASE GuardSave(t) \/ ArgsFromPlaces(t) \/ ArgsFromSnap(t)
  <2>1. PICK from, to \in {"guard", "args", "check"} : \E s : Step(t, from, to, s)
    BY <1>8 DEF GuardSave, ArgsFromPlaces, ArgsFromSnap
  <2>2. Stage(t) = "guard" /\ Stage(t)' = "guard"
    BY <2>1, StepIs DEF Stage
  <2>3. UNCHANGED <<at, call, given>>
    BY <1>8 DEF GuardSave, ArgsFromPlaces, ArgsFromSnap, Same
  <2> QED BY <1>5, <2>1, <2>2, <2>3 DEF Points
<1>9. ASSUME NEW from \in {"body", "rest", "after"}, Reach(t, from) PROVE Block!Next
  <2>1. PICK s : Step(t, from, "guard", s) /\ UNCHANGED <<call, given>>
    BY <1>9 DEF Reach
  <2>2. pc[t] = from /\ pc'[t] = "guard"
    BY <2>1, StepIs
  <2>3. Stage(t) \in {"body", "block", "after"} /\ Stage(t)' = "guard"
    BY <2>2 DEF Stage
  <2> QED BY <1>6, <2>1, <2>3 DEF Points
<1>10. ASSUME NEW from \in {"body", "rest"}, Leave(t, from)
       PROVE  Block!Next \/ UNCHANGED BlockSees
  <2>1. Step(t, from, "after", m[t]) /\ UNCHANGED <<at, call, given>>
    BY <1>10 DEF Leave, Same
  <2>2. pc[t] = from /\ pc'[t] = "after"
    BY <2>1, StepIs
  <2>3. Stage(t) \in {"body", "block", "after"} /\ Stage(t)' = "after"
    BY <2>2 DEF Stage
  <2> QED BY <1>5, <1>6, <2>1, <2>3 DEF Points
<1>11. CASE Pass(t) \/ CallPass(t)
  <2>1. PICK to \in {"replay", "callee"} : \E s : Step(t, "decide", to, s)
    BY <1>11 DEF Pass, CallPass
  <2>2. X(m[t], 0) # Zero /\ UNCHANGED <<at, call, given>>
    BY <1>11 DEF Pass, CallPass, Same
  <2>3. Stage(t) = "block" /\ Stage(t)' = "block"
    BY <2>1, <2>2, StepIs DEF Stage
  <2> QED BY <1>5, <2>1, <2>2, <2>3 DEF Points
<1>12. CASE Skip(t) \/ CallSkip(t)
  <2>1. PICK to \in {"after", "resume"} : \E s : Step(t, "decide", to, s)
    BY <1>12 DEF Skip, CallSkip
  <2>2. X(m[t], 0) = Zero /\ UNCHANGED <<at, call, given>>
    BY <1>12 DEF Skip, CallSkip, Same
  <2>3. Stage(t) = "after" /\ Stage(t)' = "after"
    BY <2>1, <2>2, StepIs DEF Stage
  <2> QED BY <1>5, <2>1, <2>2, <2>3 DEF Points
<1>13. CASE Replay(t)
  <2>1. PICK s : Step(t, "replay", "rest", s) /\ UNCHANGED <<at, call, given>>
    BY <1>13 DEF Replay, Same
  <2>2. pc[t] = "replay" /\ pc'[t] = "rest"
    BY <2>1, StepIs
  <2>3. mode # "call"
    BY <2>2 DEF Kept, KeptAt
  <2>4. Stage(t) = "block" /\ Stage(t)' = "block"
    BY <1>1, <2>2, <2>3 DEF Stage
  <2> QED BY <1>5, <2>1, <2>4 DEF Points
<1>14. CASE Callee(t)
  <2>1. PICK s : Step(t, "callee", "back", s) /\ UNCHANGED <<call, given>>
    BY <1>14 DEF Callee
  <2>2. pc[t] = "callee" /\ pc'[t] = "back"
    BY <2>1, StepIs
  <2>3. Stage(t) = "block" /\ Stage(t)' = "after"
    BY <2>2 DEF Stage
  <2> QED BY <1>6, <2>1, <2>3 DEF Points
<1>15. CASE CallBack(t) \/ Resume(t)
  <2>1. PICK from \in {"back", "resume"}, to \in {"resume", "rest"} : \E s : Step(t, from, to, s)
    BY <1>15 DEF CallBack, Resume
  <2>2. UNCHANGED <<at, call, given>>
    BY <1>15 DEF CallBack, Resume, Same
  <2>3. pc[t] = from /\ pc'[t] = to
    BY <2>1, StepIs
  <2>4. mode = "call"
    BY <2>3 DEF Kept, KeptAt
  <2>5. Stage(t) = "after" /\ Stage(t)' = "after"
    BY <1>1, <2>3, <2>4 DEF Stage
  <2> QED BY <1>5, <2>1, <2>2, <2>5 DEF Points
<1> QED BY <1>2, <1>3, <1>4, <1>7, <1>8, <1>9, <1>10, <1>11, <1>12, <1>13, <1>14, <1>15
        DEF ThreadStep

LEMMA BlockInit == Init => Block!Init
<1> SUFFICES ASSUME Init PROVE Block!Init
  OBVIOUS
<1>1. \A t \in Threads : pc[t] = "idle"
  BY DEF Init
<1>2. \A t \in Threads : Stage(t) = "idle" /\ View(t) = Nothing /\ ArgsOf(t) = Nothing
  BY <1>1 DEF Stage, View, ArgsOf
<1>3. Found \subseteq Args /\ given = [t \in Threads |-> Nothing]
  BY DEF Found, Init
<1> QED BY <1>2, <1>3 DEF Block!Init, ArgsOf

LEMMA BlockNext ==
  /\ TypeOK /\ Kept /\ CheckGetsArguments /\ Looks /\ Looks' /\ [Next]_vars
  => [Block!Next]_(Block!vars)
<1> SUFFICES ASSUME TypeOK, Kept, CheckGetsArguments, Looks, Looks', [Next]_vars
             PROVE  Block!Next \/ UNCHANGED Block!vars
  OBVIOUS
<1>1. CASE UNCHANGED vars
  BY <1>1 DEF vars, Block!vars, Stage, View, Visible, Unseen, Found
<1>2. ASSUME NEW t \in Threads, ThreadStep(t) PROVE Block!Next \/ UNCHANGED Block!vars
  BY <1>2, BlockStep DEF BlockSees, Block!vars, ArgsOf
<1> QED BY <1>1, <1>2 DEF Next

\* A guarded function behaves as the function with an if around its block, for
\* any number of threads and calls, if the flags come back, the layouts can be
\* read and calls with a snapshot do not overlap.
THEOREM GuardIsIf == PairFirst /\ LayoutsReadable /\ SnapAlone => (Spec => ImplementsBlock)
<1> SUFFICES ASSUME PairFirst, LayoutsReadable, SnapAlone PROVE Spec => ImplementsBlock
  OBVIOUS
<1>1. Init => TypeOK /\ Kept /\ Brought
  BY TypeInit, KeptInit, BroughtInit
<1>2. TypeOK /\ Kept /\ Brought /\ [Next]_vars => (TypeOK /\ Kept /\ Brought)'
  BY TypeNext, KeptNext, BroughtNext
<1>3. TypeOK /\ Kept /\ Brought => Looks /\ CheckGetsArguments
  BY LooksSo, BroughtGiven
<1> QED BY <1>1, <1>2, <1>3, BlockInit, BlockNext, PTL DEF Spec, ImplementsBlock, Block!Spec
=============================================================================
