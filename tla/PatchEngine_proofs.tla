------------------------- MODULE PatchEngine_proofs -------------------------
(***************************************************************************)
(* Proofs about the patch engine: its types, and that no jump into an      *)
(* unmapped trampoline is ever in the code.                                *)
(***************************************************************************)
EXTENDS PatchEngineInvariant, TLAPS

(***************************************************************************)
(* Words, and what planning and rollback compute.                          *)
(***************************************************************************)

\* The words the engine writes are words.
LEMMA WordTypes ==
  /\ \A a \in Addr : Orig(a) \in Word /\ Branch(a) \in Word
  /\ \A fn \in Fn : \A n \in 0..4 : Hook(fn, n) \in Word
  /\ \A a \in Addr : \A n \in 0..4 : \A m \in MapId : \A p \in Part : Patch(a, n, m, p) \in Word
<1>1. \A fn \in Fn : fn \in Addr
  BY EngineAssumption DEF Fn
<1>2. ASSUME NEW k \in {"orig", "branch", "patch", "hook"}, NEW a \in Addr, NEW n \in 0..4,
             NEW m \in MapId \cup {NoMap}, NEW p \in Part
      PROVE  [kind |-> k, at |-> a, map |-> m, part |-> p, len |-> n] \in Word
  BY DEF Word
<1>3. ASSUME NEW k \in {"orig", "branch", "patch", "hook"}, NEW a \in Addr, NEW n \in 0..4
      PROVE  Plain(k, a, n) \in Word
  BY <1>2 DEF Plain, Part
<1>4. \A a \in Addr : Orig(a) \in Word /\ Branch(a) \in Word
  BY <1>3 DEF Orig, Branch
<1>5. \A fn \in Fn : \A n \in 0..4 : Hook(fn, n) \in Word
  BY <1>1, <1>3 DEF Hook
<1>6. ASSUME NEW a \in Addr, NEW n \in 0..4, NEW m \in MapId, NEW p \in Part
      PROVE  Patch(a, n, m, p) \in Word
  BY <1>2 DEF Patch
<1> QED
  BY <1>4, <1>5, <1>6

LEMMA WordKinds ==
  /\ \A a : Orig(a).kind = "orig" /\ Branch(a).kind = "branch"
  /\ \A fn, n : Hook(fn, n).kind = "hook"
BY DEF Orig, Branch, Hook, Plain

\* Overwriting code with words leaves code.
LEMMA PutType ==
  ASSUME NEW code \in [Addr -> Word], NEW p, IsSaved(p)
  PROVE  Put(code, p) \in [Addr -> Word]
BY DEF Put, IsSaved

LEMMA HookedCodeType ==
  ASSUME NEW h \in Hooks
  PROVE  /\ HookedCode(h) \in [Addr -> Word]
         /\ \A a \in Addr : HookedCode(h)[a].kind # "patch"
<1> DEFINE fn(a) == CHOOSE f \in Fn : a \in Region(f, h[f])
<1>1. ASSUME NEW a \in Addr
      PROVE  HookedCode(h)[a] \in Word /\ HookedCode(h)[a].kind # "patch"
  <2>1. CASE \E f \in Fn : a \in Region(f, h[f])
    <3>1. fn(a) \in Fn
      BY <2>1
    <3>2. HookedCode(h)[a] = Hook(fn(a), h[fn(a)])
      BY <2>1 DEF HookedCode
    <3>3. h[fn(a)] \in 0..4
      BY <3>1, EngineAssumption DEF Fn
    <3>4. Hook(fn(a), h[fn(a)]) \in Word
      BY <3>1, <3>3, WordTypes
    <3>5. Hook(fn(a), h[fn(a)]).kind # "patch"
      BY WordKinds
    <3> QED
      BY <3>2, <3>4, <3>5
  <2>2. CASE ~\E f \in Fn : a \in Region(f, h[f])
    BY <2>2, WordTypes, WordKinds DEF HookedCode
  <2> QED
    BY <2>1, <2>2
<1> QED
  BY <1>1 DEF HookedCode

LEMMA NothingSaved == IsSaved(Nothing)
BY DEF IsSaved, Nothing

\* The instructions a plan keeps are words of the code.
LEMMA PlanType ==
  ASSUME TypeOK, NEW a \in Addr, NEW n \in 0..4, Region(a, n) \subseteq Addr,
         NEW S, S \subseteq Addr
  PROVE  /\ IsPlan(MakePlan(a, n, S))
         /\ MakePlan(a, n, S).addr = a /\ MakePlan(a, n, S).len = n
         /\ DOMAIN MakePlan(a, n, S).orig = Region(a, n)
         /\ DOMAIN MakePlan(a, n, S).fixes = S
<1>1. Source \in [Addr -> Word]
  BY WordTypes DEF Source, Pristine, TypeOK
<1> QED
  BY <1>1 DEF MakePlan, IsPlan, IsSaved, TypeOK, MaybeAddr

LEMMA FixupsAddr == \A fn, a, n, last : Fixups(fn, a, n, last) \subseteq Addr
BY DEF Fixups

(***************************************************************************)
(* Types.                                                                  *)
(***************************************************************************)
TypeInv == TypeOK /\ CallShape

LEMMA IdleOK ==
  /\ Idle.pc = "idle" /\ Idle.rec = 0
  /\ Idle \in [pc : Pc, req : Requests \cup {NoReq}, snap : MaybeMap,
               chain : {0, 1, 3, 4}, map : MaybeMap, stage : Part,
               plan : {Idle.plan}, left : SUBSET Addr, rec : 0..MaxRecs]
  /\ Idle.plan \in [Part -> {Idle.plan[s] : s \in Part}]
  /\ \A s \in Part : IsPlan(Idle.plan[s])
<1>1. IsPlan(NoPlan)
  BY NothingSaved DEF IsPlan, NoPlan, MaybeAddr
<1> QED
  BY <1>1, EngineAssumption DEF Idle, Enter, Pc, MaybeMap, Part

\* What Enter builds at the start of a call has its type.
LEMMA EnterOK ==
  ASSUME NEW pc \in Pc, NEW req \in Requests \cup {NoReq}, NEW snap \in MaybeMap,
         NEW chain \in {0, 1, 3, 4}, NEW rec \in 0..MaxRecs, NEW left \in SUBSET Addr,
         call' = Enter(pc, req, snap, chain, rec, left)
  PROVE  /\ CallOK'
         /\ call'.pc = pc /\ call'.req = req /\ call'.snap = snap /\ call'.chain = chain
         /\ call'.rec = rec /\ call'.left = left /\ call'.stage = "guard"
         /\ \A s \in Part : call'.plan[s] = NoPlan
<1>1. IsPlan(NoPlan)
  BY NothingSaved DEF IsPlan, NoPlan, MaybeAddr
<1>2. \A s \in Part : call'.plan[s] = NoPlan
  BY DEF Enter
<1> QED
  BY <1>1, <1>2 DEF CallOK, Enter, MaybeMap, Part

\* The initial code is code; the other variables start empty.
LEMMA TypeInit == Init => TypeInv
<1> SUFFICES ASSUME Init PROVE TypeInv
  OBVIOUS
<1>1. mem \in [Addr -> Word] /\ before.mem \in [Addr -> Word]
  BY HookedCodeType, WordTypes DEF Init, NoHistory, Pristine
<1>2. MapsOK(maps) /\ MapsOK(before.maps)
  BY DEF Init, NoHistory, MapsOK, Unmapped, NewMapping, Empty, Mapping, Trampoline
<1>3. IsRecord(Blank)
  BY NothingSaved DEF IsRecord, Blank, MaybeAddr, MaybeMap
<1>4. RecsOK(recs) /\ RecsOK(before.recs)
  BY <1>3 DEF Init, NoHistory, RecsOK
<1>5. CallOK
  BY IdleOK DEF Init, CallOK
<1>6. CallShape
  BY IdleOK DEF Init, CallShape, Mapped, Planned, Pending
<1> QED
  BY <1>1, <1>2, <1>4, <1>5, <1>6 DEF TypeInv, TypeOK, Init

LEMMA ReturnOK ==
  ASSUME TypeInv, NEW res \in {"ok", "error"}, Return(res)
  PROVE  /\ CallOK' /\ CallShape'
         /\ ret' \in {"ok", "error"}
         /\ before'.mem \in [Addr -> Word] /\ MapsOK(before'.maps) /\ RecsOK(before'.recs)
<1>1. CallOK' /\ call'.pc = "idle"
  BY IdleOK DEF Return, CallOK
<1>2. CallShape'
  BY <1>1 DEF CallShape, Mapped, Planned, Pending
<1>3. IsRecord(Blank)
  BY NothingSaved DEF IsRecord, Blank, MaybeAddr, MaybeMap
<1>4. before'.mem \in [Addr -> Word] /\ MapsOK(before'.maps) /\ RecsOK(before'.recs)
  BY <1>3, WordTypes DEF Return, NoHistory, Pristine, MapsOK, RecsOK, Unmapped,
     NewMapping, Empty, Mapping, Trampoline
<1> QED
  BY <1>1, <1>2, <1>4 DEF Return

LEMMA MapsEdit ==
  ASSUME MapsOK(maps), NEW m \in MapId, NEW v \in Mapping
  PROVE  MapsOK([maps EXCEPT ![m] = v])
BY DEF MapsOK

LEMMA TypeMapTrampoline ==
  ASSUME TypeInv, NEW m \in MapId, MapTrampoline(m)
  PROVE  TypeInv'
<1>1. MapsOK(maps')
  <2>1. NewMapping(IF Fresh THEN 2 ELSE 1) \in Mapping
    BY DEF NewMapping, Empty, Mapping, Trampoline
  <2> QED
    BY <2>1, MapsEdit DEF MapTrampoline, TypeInv, TypeOK
<1>2. call' = [call EXCEPT !.pc = "plan", !.map = m]
  BY DEF MapTrampoline
<1>3. /\ CallOK' /\ call'.pc = "plan" /\ call'.map = m
      /\ call'.req = call.req /\ call'.stage = call.stage
  BY <1>2 DEF TypeInv, TypeOK, CallOK, Pc, MaybeMap
<1>4. CallShape'
  BY <1>3 DEF MapTrampoline, TypeInv, CallShape, Mapped, Planned, Pending
<1> QED
  BY <1>1, <1>3, <1>4 DEF MapTrampoline, TypeInv, TypeOK

\* A block's words, and an entry's, are code of the module.
LEMMA SiteWords ==
  /\ \A a \in Nat : /\ a \in Region(a, 4)
                    /\ \A n \in 0..4 : Region(a, n) \subseteq Region(a, 4)
  /\ \A a \in Addr : \A n \in 0..4 : Region(a, n) \subseteq Region(a, 4)
  /\ \A fn \in Fn : fn \in Addr /\ Region(fn, 4) \subseteq Addr
<1>1. \A a \in Nat : /\ a \in Region(a, 4)
                     /\ \A n \in 0..4 : Region(a, n) \subseteq Region(a, 4)
  BY DEF Region
<1>2. \A a \in Nat : a..(a + 3) = Region(a, 4)
  BY DEF Region
<1>3. \A fn \in Fn : fn \in Addr /\ fn \in Nat /\ fn..(fn + 3) \subseteq Addr
  BY EngineAssumption DEF Fn
<1>4. \A fn \in Fn : Region(fn, 4) \subseteq Addr
  BY <1>2, <1>3
<1>5. Addr \subseteq Nat
  BY EngineAssumption
<1> QED
  BY <1>1, <1>3, <1>4, <1>5

LEMMA LensOK == \A m \in MapId : /\ GuardLen(m) \in 3..4
                                 /\ \A n \in {0, 1, 3, 4} : EntryLen(n, m) \in 0..4
BY EngineAssumption DEF GuardLen, EntryLen

LEMMA DispWords ==
  ASSUME TypeOK, NEW p, IsPlan(p), NEW S, S \subseteq DOMAIN p.orig
  PROVE  {p.orig[a] : a \in S} \subseteq Word
BY DEF IsPlan, IsSaved

LEMMA TypePlanGuard ==
  ASSUME TypeInv, PlanGuard
  PROVE  TypeInv'
<1> DEFINE site  == call.req.start
           n     == GuardLen(call.map)
           fixes == GuardFixups(call.req, n)
           plan  == MakePlan(site, n, fixes)
<1>1. /\ call.map \in MapId /\ call.req \in Requests /\ Region(site, 4) \subseteq Addr
      /\ site \in Addr /\ n \in 0..4 /\ Region(site, n) \subseteq Region(site, 4)
      /\ call.stage = "guard"
  <2>1. call.map \in MapId /\ call.req \in Requests /\ Region(site, 4) \subseteq Addr
    BY DEF PlanGuard, TypeInv, CallShape, Mapped
  <2>2. site \in Addr
    BY <2>1, SiteWords, EngineAssumption
  <2> QED
    BY <2>1, <2>2, SiteWords, LensOK DEF PlanGuard, TypeInv, CallShape
<1>2. fixes \subseteq Addr
  BY FixupsAddr DEF GuardFixups
<1>3. /\ IsPlan(plan) /\ plan.addr = site /\ DOMAIN plan.orig = Region(site, n)
  <2> HIDE DEF n, fixes, site
  <2> QED
    BY <1>1, <1>2, PlanType DEF TypeInv
<1>4. MapsOK(maps')
  <2>1. {plan.orig[a] : a \in Region(site, n)} \subseteq Word
    BY <1>3, DispWords DEF TypeInv
  <2>2. (IF Fresh THEN call.map ELSE call.snap) \in MapId \cup {NoMap}
    BY <1>1 DEF TypeInv, TypeOK, CallOK, MaybeMap
  <2>3. [disp |-> {plan.orig[a] : a \in Region(site, n)},
         snap |-> IF Fresh THEN call.map ELSE call.snap] \in Trampoline
    BY <2>1, <2>2 DEF Trampoline
  <2> HIDE DEF n, fixes, site, plan
  <2> QED
    BY <1>1, <2>3 DEF PlanGuard, TypeInv, TypeOK, MapsOK, Mapping, plan, n, fixes, site
<1>5. /\ call' = [call EXCEPT !.pc = IF Fresh THEN "plan_entry" ELSE "apply",
                              !.plan["guard"] = plan]
  BY DEF PlanGuard
<1> HIDE DEF plan
<1>6. /\ CallOK' /\ call'.pc = IF Fresh THEN "plan_entry" ELSE "apply"
      /\ call'.plan["guard"] = plan
      /\ call'.req = call.req /\ call'.stage = call.stage /\ call'.map = call.map
      /\ call'.snap = call.snap
  BY <1>3, <1>5 DEF TypeInv, TypeOK, CallOK, Pc, Part
<1>7. CallShape'
  BY <1>1, <1>3, <1>6 DEF CallShape, Mapped, Planned, Pending, Fresh
<1> QED
  BY <1>4, <1>6, <1>7 DEF PlanGuard, TypeInv, TypeOK

LEMMA TypePlanEntry ==
  ASSUME TypeInv, PlanEntry
  PROVE  TypeInv'
<1> DEFINE fn    == call.req.fn
           n     == EntryLen(call.chain, call.map)
           fixes == EntryFixups(call.req, n)
           plan  == MakePlan(fn, n, fixes)
           disp  == IF call.chain = 0 THEN {Source[a] : a \in Region(fn, 4)} ELSE {mem[fn]}
<1>1. /\ call.map \in MapId /\ call.req \in Requests /\ Fresh
      /\ call.stage = "guard"
      /\ call.plan["guard"].addr = call.req.start
      /\ DOMAIN call.plan["guard"].orig \subseteq Region(call.req.start, 4)
      /\ Region(call.req.start, 4) \subseteq Addr
  BY DEF PlanEntry, TypeInv, CallShape, Mapped
<1>2. /\ fn \in Fn /\ fn \in Addr /\ n \in 0..4 /\ Region(fn, 4) \subseteq Addr
      /\ Region(fn, n) \subseteq Region(fn, 4)
  <2>1. fn \in Fn
    BY <1>1, EngineAssumption DEF Fn
  <2>2. call.chain \in {0, 1, 3, 4}
    BY DEF TypeInv, TypeOK, CallOK
  <2>3. n \in 0..4
    BY <1>1, <2>2, LensOK
  <2> QED
    BY <2>1, <2>3, SiteWords
<1>3. fixes \subseteq Addr
  BY FixupsAddr DEF EntryFixups
<1>4. IsPlan(plan) /\ plan.addr = fn /\ DOMAIN plan.orig = Region(fn, n)
  <2> HIDE DEF n, fixes, fn
  <2> QED
    BY <1>2, <1>3, PlanType DEF TypeInv
<1>5. disp \subseteq Word
  <2>1. Source \in [Addr -> Word]
    BY WordTypes DEF Source, Pristine, TypeInv, TypeOK
  <2> QED
    BY <1>2, <2>1 DEF TypeInv, TypeOK
<1> HIDE DEF plan, disp
<1>6. MapsOK(maps')
  <2>1. maps' = [maps EXCEPT ![call.map].entry.disp = disp]
    BY DEF PlanEntry, disp
  <2> QED
    BY <1>1, <1>5, <2>1 DEF TypeInv, TypeOK, MapsOK, Mapping, Trampoline
<1>7. call' = [call EXCEPT !.pc = "apply", !.stage = "entry", !.plan["entry"] = plan]
  BY DEF PlanEntry, plan
<1>8. /\ CallOK' /\ call'.pc = "apply" /\ call'.stage = "entry"
      /\ call'.plan["entry"] = plan /\ call'.plan["guard"] = call.plan["guard"]
      /\ call'.req = call.req /\ call'.map = call.map /\ call'.snap = call.snap
  BY <1>4, <1>7 DEF TypeInv, TypeOK, CallOK, Pc, Part
<1>9. CallShape'
  BY <1>1, <1>2, <1>4, <1>8 DEF CallShape, Mapped, Planned, Pending, Fresh
<1> QED
  BY <1>6, <1>8, <1>9 DEF PlanEntry, TypeInv, TypeOK

\* Giving up a planned trampoline.
LEMMA TypeUnmap ==
  ASSUME TypeInv, PlanFails \/ Unmap \/ MapFails
  PROVE  TypeInv'
<1>1. CASE MapFails
  BY <1>1, ReturnOK DEF MapFails, TypeInv, TypeOK
<1>2. CASE PlanFails \/ Unmap
  <2>1. Munmap(call.map) /\ Return("error") /\ call.map \in MapId
    BY <1>2 DEF PlanFails, Unmap, TypeInv, CallShape, Mapped
  <2>2. Unmapped \in Mapping
    BY DEF Unmapped, NewMapping, Empty, Mapping, Trampoline
  <2>3. MapsOK(maps')
    BY <2>1, <2>2, MapsEdit DEF Munmap, TypeInv, TypeOK
  <2> QED
    BY <1>2, <2>1, <2>3, ReturnOK DEF PlanFails, Unmap, TypeInv, TypeOK
<1> QED
  BY <1>1, <1>2

LEMMA ApplyType ==
  ASSUME TypeInv, NEW p, IsSaved(p), ApplyBytes(p)
  PROVE  mem' \in [Addr -> Word] /\ rwx' \subseteq Page
BY PutType DEF ApplyBytes, PagesOf, IsSaved, Page, TypeInv, TypeOK

\* At the stage of a planned call its plan is at hand.
LEMMA CurrentPlan ==
  ASSUME TypeInv, call.pc \in Planned
  PROVE  /\ IsPlan(Current) /\ Current.addr \in Addr
         /\ Current = call.plan[call.stage] /\ call.map \in MapId
         /\ call.stage \in Part
         /\ DOMAIN Current.orig \subseteq Region(Current.addr, 4)
         /\ Current.addr = IF call.stage = "entry" THEN call.req.fn ELSE call.req.start
         /\ call.stage = "entry" => Fresh
<1>1. /\ call.stage \in Part /\ IsPlan(Current) /\ call.map \in MapId
      /\ call.req \in Requests /\ Region(call.req.start, 4) \subseteq Addr
      /\ call.stage = "entry" => Fresh
  BY DEF TypeInv, TypeOK, CallOK, CallShape, Planned, Mapped, Current
<1>2. call.req.start \in Addr /\ call.req.fn \in Addr
  BY <1>1, SiteWords, EngineAssumption DEF Fn
<1>3. CASE call.stage = "entry"
  BY <1>1, <1>2, <1>3 DEF TypeInv, CallShape, Current
<1>4. CASE call.stage = "guard"
  BY <1>1, <1>2, <1>4 DEF TypeInv, CallShape, Current
<1> QED
  BY <1>1, <1>3, <1>4 DEF Part, Current

LEMMA TypeApply ==
  ASSUME TypeInv, Apply
  PROVE  TypeInv'
<1>1. call.pc = "apply" /\ call.pc \in Planned
  BY DEF Apply, Planned
<1> DEFINE p == Current
           new == [a \in DOMAIN p.orig |-> Patch(p.addr, p.len, call.map, call.stage)]
<1>2. /\ IsPlan(p) /\ p.addr \in Addr /\ call.map \in MapId /\ call.stage \in Part
  BY <1>1, CurrentPlan
<1>3. Patch(p.addr, p.len, call.map, call.stage) \in Word
  BY <1>2, WordTypes DEF IsPlan
<1>4. IsSaved(new)
  <2> HIDE DEF p
  <2> QED
    BY <1>2, <1>3 DEF IsPlan, IsSaved
<1>5. ApplyBytes(new)
  BY DEF Apply
<1>6. mem' \in [Addr -> Word] /\ rwx' \subseteq Page
  <2> HIDE DEF new
  <2> QED
    BY <1>4, <1>5, ApplyType
<1>7. call' = [call EXCEPT !.pc = "fix", !.left = DOMAIN p.fixes]
  BY DEF Apply
<1>8. DOMAIN p.fixes \subseteq Addr
  BY <1>2 DEF IsPlan, IsSaved
<1>9. /\ CallOK' /\ call'.pc = "fix" /\ call'.left = DOMAIN p.fixes
      /\ call'.plan = call.plan /\ call'.stage = call.stage
      /\ call'.req = call.req /\ call'.map = call.map /\ call'.snap = call.snap
  BY <1>7, <1>8 DEF TypeInv, TypeOK, CallOK, Pc
<1>10. CallShape'
  BY <1>1, <1>9 DEF TypeInv, CallShape, Mapped, Planned, Pending, Fresh, Current
<1> QED
  BY <1>6, <1>9, <1>10 DEF Apply, TypeInv, TypeOK

\* A refused write only moves the program counter.
LEMMA TypeRefused ==
  ASSUME TypeInv, ApplyRefused \/ FixRefused
  PROVE  TypeInv'
<1>1. CASE ApplyRefused
  <2>1. call' = [call EXCEPT !.pc = AfterUndo]
    BY <1>1 DEF ApplyRefused
  <2>2. AfterUndo \in {"undo_entry", "unmap"} /\ (AfterUndo = "undo_entry" => call.stage = "guard")
    BY DEF AfterUndo
  <2>3. /\ CallOK' /\ call' .pc = AfterUndo /\ call'.left = call.left
        /\ call'.plan = call.plan /\ call'.stage = call.stage
        /\ call'.req = call.req /\ call'.map = call.map /\ call'.snap = call.snap
    BY <2>1, <2>2 DEF TypeInv, TypeOK, CallOK, Pc
  <2>4. CallShape'
    BY <1>1, <2>2, <2>3 DEF ApplyRefused, TypeInv, CallShape, Mapped, Planned, Pending, Fresh
  <2> QED
    BY <1>1, <2>3, <2>4 DEF ApplyRefused, TypeInv, TypeOK
<1>2. CASE FixRefused
  <2>1. call' = [call EXCEPT !.pc = "undo"] /\ call.pc = "fix"
    BY <1>2 DEF FixRefused
  <2>2. /\ CallOK' /\ call'.pc = "undo" /\ call'.left = call.left
        /\ call'.plan = call.plan /\ call'.stage = call.stage
        /\ call'.req = call.req /\ call'.map = call.map /\ call'.snap = call.snap
    BY <2>1 DEF TypeInv, TypeOK, CallOK, Pc
  <2>3. CallShape'
    BY <2>1, <2>2 DEF TypeInv, CallShape, Mapped, Planned, Pending, Fresh, Current
  <2> QED
    BY <1>2, <2>2, <2>3 DEF FixRefused, TypeInv, TypeOK
<1> QED
  BY <1>1, <1>2

LEMMA TypeFix ==
  ASSUME TypeInv, Fix
  PROVE  TypeInv'
<1>1. PICK f \in call.left : /\ ApplyBytes([a \in {f} |-> Branch(Current.addr)])
                             /\ call' = [call EXCEPT !.left = call.left \ {f}]
  BY DEF Fix, Written
<1>2. call.pc = "fix" /\ call.pc \in Planned /\ f \in Addr
  BY DEF Fix, Planned, TypeInv, TypeOK, CallOK
<1>3. IsSaved([a \in {f} |-> Branch(Current.addr)])
  <2>1. Branch(Current.addr) \in Word
    BY <1>2, CurrentPlan, WordTypes
  <2> QED
    BY <1>2, <2>1 DEF IsSaved
<1>4. mem' \in [Addr -> Word] /\ rwx' \subseteq Page
  BY <1>1, <1>3, ApplyType
<1>5. /\ CallOK' /\ call'.pc = call.pc /\ call'.left = call.left \ {f}
      /\ call'.plan = call.plan /\ call'.stage = call.stage
      /\ call'.req = call.req /\ call'.map = call.map /\ call'.snap = call.snap
  BY <1>1 DEF TypeInv, TypeOK, CallOK
<1>6. CallShape'
  BY <1>2, <1>5 DEF TypeInv, CallShape, Mapped, Planned, Pending, Fresh, Current
<1> QED
  BY <1>4, <1>5, <1>6 DEF Fix, TypeInv, TypeOK

LEMMA TypeRegister ==
  ASSUME TypeInv, Register \/ RegisterFails
  PROVE  TypeInv'
<1>1. call.pc = "fix" /\ call.pc \in Planned
  BY DEF Register, RegisterFails, Planned
<1>2. RecsOK(recs')
  <2>1. CASE RegisterFails
    BY <2>1 DEF RegisterFails, TypeInv, TypeOK
  <2>2. CASE Register
    <3> DEFINE new == [used |-> TRUE, addr |-> Current.addr, orig |-> Current.orig,
                       fixes |-> Current.fixes, map |-> call.map,
                       refs |-> IF Fresh THEN 2 ELSE 1]
    <3>1. IsRecord(new)
      BY <1>1, CurrentPlan DEF IsRecord, IsPlan, MaybeAddr, MaybeMap
    <3>2. \E i \in Slot : recs' = [recs EXCEPT ![i] = new]
      BY <2>2 DEF Register
    <3> HIDE DEF new
    <3> QED
      BY <3>1, <3>2 DEF RecsOK, TypeInv, TypeOK
  <2> QED
    BY <2>1, <2>2
<1>3. CASE Register /\ call.stage = "entry"
  <2>1. call' = [call EXCEPT !.pc = "apply", !.stage = "guard"] /\ UNCHANGED <<ret, before>>
    BY <1>3 DEF Register
  <2>2. /\ CallOK' /\ call'.pc = "apply" /\ call'.left = call.left
        /\ call'.plan = call.plan /\ call'.stage = "guard"
        /\ call'.req = call.req /\ call'.map = call.map /\ call'.snap = call.snap
    BY <2>1 DEF TypeInv, TypeOK, CallOK, Pc, Part
  <2>3. CallShape'
    BY <1>1, <1>3, <2>2 DEF TypeInv, CallShape, Mapped, Planned, Pending, Fresh
  <2> QED
    BY <1>2, <1>3, <2>1, <2>2, <2>3 DEF Register, TypeInv, TypeOK
<1>4. CASE RegisterFails /\ call.stage = "entry"
  <2>1. call' = [call EXCEPT !.pc = "unmap"] /\ UNCHANGED <<ret, before>>
    BY <1>4 DEF RegisterFails
  <2>2. /\ CallOK' /\ call'.pc = "unmap" /\ call'.map = call.map /\ call'.req = call.req
    BY <2>1 DEF TypeInv, TypeOK, CallOK, Pc
  <2>3. CallShape'
    BY <1>1, <2>2 DEF TypeInv, CallShape, Mapped, Planned, Pending
  <2> QED
    BY <1>2, <1>4, <2>1, <2>2, <2>3 DEF RegisterFails, TypeInv, TypeOK
<1>5. CASE call.stage # "entry"
  <2>1. \E res \in {"ok", "error"} : Return(res)
    BY <1>5 DEF Register, RegisterFails
  <2> QED
    BY <1>2, <2>1, ReturnOK DEF Register, RegisterFails, TypeInv, TypeOK
<1> QED
  BY <1>3, <1>4, <1>5

\* Rolling back writes only what a plan or a record has kept.
LEMMA TypeUndo ==
  ASSUME TypeInv, Undo \/ UndoEntry \/ UndoUnplannedEntry
  PROVE  TypeInv'
<1>1. CASE Undo
  <2>1. call.pc = "undo" /\ call.pc \in Planned /\ IsPlan(Current)
    BY <1>1, CurrentPlan DEF Undo, Planned
  <2> DEFINE done == [a \in DOMAIN Current.fixes \ call.left |-> Current.fixes[a]]
  <2>2. IsSaved(done) /\ IsSaved(Current.orig)
    BY <2>1 DEF IsPlan, IsSaved
  <2>3. mem' = Put(Put(mem, done), Current.orig)
    BY <1>1 DEF Undo, RolledBack, Done
  <2> HIDE DEF done
  <2>4. mem' \in [Addr -> Word]
    BY <2>2, <2>3, PutType DEF TypeInv, TypeOK
  <2>5. call' = [call EXCEPT !.pc = AfterUndo, !.left = {}]
    BY <1>1 DEF Undo
  <2>6. AfterUndo \in {"undo_entry", "unmap"} /\ (AfterUndo = "undo_entry" => call.stage = "guard")
    BY DEF AfterUndo
  <2>7. /\ CallOK' /\ call'.pc = AfterUndo
        /\ call'.plan = call.plan /\ call'.stage = call.stage
        /\ call'.req = call.req /\ call'.map = call.map /\ call'.snap = call.snap
    BY <2>5, <2>6 DEF TypeInv, TypeOK, CallOK, Pc
  <2>8. CallShape'
    BY <2>1, <2>6, <2>7 DEF TypeInv, CallShape, Mapped, Planned, Pending, Fresh
  <2> QED
    BY <1>1, <2>4, <2>7, <2>8 DEF Undo, TypeInv, TypeOK
<1>2. CASE UndoEntry \/ UndoUnplannedEntry
  <2>1. call.pc = "undo_entry"
    BY <1>2 DEF UndoEntry, UndoUnplannedEntry
  <2>2. mem' \in [Addr -> Word]
    <3>1. CASE UndoEntry
      <4>1. IsPlan(call.plan["entry"])
        BY DEF TypeInv, TypeOK, CallOK, Part
      <4> QED
        BY <3>1, <4>1, PutType DEF UndoEntry, IsPlan, TypeInv, TypeOK
    <3>2. CASE UndoUnplannedEntry /\ mem' # mem
      <4>1. PICK i \in Slot : mem' = Put(Put(mem, recs[i].orig), recs[i].fixes)
        BY <3>2 DEF UndoUnplannedEntry
      <4>2. IsSaved(recs[i].orig) /\ IsSaved(recs[i].fixes)
        BY DEF TypeInv, TypeOK, RecsOK, IsRecord
      <4> QED
        BY <4>1, <4>2, PutType DEF TypeInv, TypeOK
    <3> QED
      BY <1>2, <3>1, <3>2 DEF TypeInv, TypeOK
  <2>3. PICK pc \in {"unmap", "crashed"} : call' = [call EXCEPT !.pc = pc]
    BY <1>2 DEF UndoEntry, UndoUnplannedEntry
  <2>4. /\ CallOK' /\ call'.pc = pc /\ call'.map = call.map /\ call'.req = call.req
    BY <2>3 DEF TypeInv, TypeOK, CallOK, Pc
  <2>5. CallShape'
    BY <2>1, <2>4 DEF TypeInv, CallShape, Mapped, Planned, Pending
  <2> QED
    BY <1>2, <2>2, <2>4, <2>5 DEF UndoEntry, UndoUnplannedEntry, TypeInv, TypeOK
<1> QED
  BY <1>1, <1>2

LEMMA TypeGuardBlock ==
  ASSUME TypeInv, NEW r \in Requests, GuardBlock(r) \/ GuardBlockSnap(r)
  PROVE  TypeInv'
<1>1. Region(r.start, 4) \subseteq Addr
  BY DEF GuardBlock, GuardBlockSnap, Fits
<1>2. PICK snap \in MaybeMap, chain \in {0, 1, 3, 4} : Begin(r, snap, chain)
  <2>1. CASE GuardBlock(r)
    BY <2>1 DEF GuardBlock, MaybeMap
  <2>2. CASE GuardBlockSnap(r) /\ SnapshotRecs(r.fn) # {}
    BY <2>2 DEF GuardBlockSnap, SnapshotRecs, TypeInv, TypeOK, RecsOK, IsRecord
  <2>3. CASE GuardBlockSnap(r) /\ SnapshotRecs(r.fn) = {}
    <3>1. HookLen(r.fn) \in {0, 1, 3, 4}
      BY DEF HookLen
    <3>2. (IF EntryBusy(r.fn) THEN HookLen(r.fn) ELSE 0) \in {0, 1, 3, 4}
      BY <3>1
    <3>3. Begin(r, NoMap, IF EntryBusy(r.fn) THEN HookLen(r.fn) ELSE 0)
      BY <2>3 DEF GuardBlockSnap
    <3> QED
      BY <3>2, <3>3 DEF MaybeMap
  <2> QED
    BY <2>1, <2>2, <2>3
<1>3. call' = Enter("map", r, snap, chain, 0, {})
  BY <1>2 DEF Begin
<1>4. CallOK' /\ call'.pc = "map" /\ call'.req = r /\ call'.stage = "guard"
  BY <1>3, EnterOK, EngineAssumption DEF Pc
<1>5. CallShape'
  BY <1>1, <1>4 DEF CallShape, Mapped, Planned, Pending
<1> QED
  BY <1>2, <1>4, <1>5 DEF Begin, TypeInv, TypeOK

LEMMA TypeUnpatch ==
  ASSUME TypeInv, NEW i \in Slot, Unpatch(i)
  PROVE  TypeInv'
<1>1. /\ recs[i].used /\ UNCHANGED <<mem, rwx, maps, recs, ret>>
      /\ call' = Enter("unfix", NoReq, NoMap, 0, i, DOMAIN recs[i].fixes)
      /\ before' = [mem |-> mem, maps |-> maps, recs |-> recs]
  BY DEF Unpatch, Least
<1>2. DOMAIN recs[i].fixes \in SUBSET Addr
  BY DEF TypeInv, TypeOK, RecsOK, IsRecord, IsSaved
<1>3. i \in 0..MaxRecs
  BY EngineAssumption DEF Slot
<1> DEFINE left == DOMAIN recs[i].fixes
<1>4. CallOK' /\ call'.pc = "unfix" /\ call'.rec = i /\ call'.left = left
  <2>1. call' = Enter("unfix", NoReq, NoMap, 0, i, left)
    BY <1>1
  <2> HIDE DEF left
  <2>2. "unfix" \in Pc /\ NoReq \in Requests \cup {NoReq} /\ NoMap \in MaybeMap
    BY DEF Pc, MaybeMap
  <2> QED
    BY <1>2, <1>3, <2>1, <2>2, EnterOK DEF left
<1>5. CallShape'
  BY <1>1, <1>4 DEF CallShape, Mapped, Planned, Pending
<1> QED
  BY <1>1, <1>4, <1>5 DEF TypeInv, TypeOK

LEMMA TypeUnfix ==
  ASSUME TypeInv, Unfix \/ Restore
  PROVE  TypeInv'
<1>1. /\ call.pc = "unfix" /\ call.rec \in Slot /\ recs[call.rec].used
      /\ IsSaved(recs[call.rec].orig) /\ IsSaved(recs[call.rec].fixes)
      /\ call.left \subseteq DOMAIN recs[call.rec].fixes
  BY DEF Unfix, Restore, TypeInv, TypeOK, CallShape, RecsOK, IsRecord
<1>2. CASE Unfix
  <2>1. PICK f \in call.left : /\ ApplyBytes([a \in {f} |-> recs[call.rec].fixes[f]])
                               /\ call' = [call EXCEPT !.left = call.left \ {f}]
    BY <1>2 DEF Unfix, Written
  <2>2. IsSaved([a \in {f} |-> recs[call.rec].fixes[f]])
    BY <1>1 DEF IsSaved
  <2>3. mem' \in [Addr -> Word] /\ rwx' \subseteq Page
    BY <2>1, <2>2, ApplyType
  <2>4. /\ CallOK' /\ call'.pc = call.pc /\ call'.left = call.left \ {f}
        /\ call'.rec = call.rec
    BY <2>1 DEF TypeInv, TypeOK, CallOK
  <2>5. CallShape'
    BY <1>1, <1>2, <2>4 DEF Unfix, TypeInv, CallShape, Mapped, Planned, Pending
  <2> QED
    BY <1>2, <2>3, <2>4, <2>5 DEF Unfix, TypeInv, TypeOK
<1>3. CASE Restore
  <2>1. mem' \in [Addr -> Word] /\ rwx' \subseteq Page
    BY <1>1, <1>3, ApplyType DEF Restore
  <2>2. call' = [call EXCEPT !.pc = "release"]
    BY <1>3 DEF Restore
  <2>3. CallOK' /\ call'.pc = "release" /\ call'.rec = call.rec
    BY <2>2 DEF TypeInv, TypeOK, CallOK, Pc
  <2>4. CallShape'
    BY <1>1, <1>3, <2>3 DEF Restore, CallShape, Mapped, Planned, Pending
  <2> QED
    BY <1>3, <2>1, <2>3, <2>4 DEF Restore, TypeInv, TypeOK
<1> QED
  BY <1>2, <1>3

LEMMA TypeRelease ==
  ASSUME TypeInv, Release \/ UnpatchRefused
  PROVE  TypeInv'
<1>1. CASE UnpatchRefused
  BY <1>1, ReturnOK DEF UnpatchRefused, TypeInv, TypeOK
<1>2. CASE Release
  <2>1. IsRecord(Blank)
    BY NothingSaved DEF IsRecord, Blank, MaybeAddr, MaybeMap
  <2>2. RecsOK(recs')
    BY <1>2, <2>1 DEF Release, RecsOK, TypeInv, TypeOK
  <2>3. Unmapped \in Mapping
    BY DEF Unmapped, NewMapping, Empty, Mapping, Trampoline
  <2>4. MapsOK(maps')
    BY <1>2, <2>3 DEF Release, DropRef, Munmap, MapsOK, TypeInv, TypeOK
  <2> QED
    BY <1>2, <2>2, <2>4, ReturnOK DEF Release, TypeInv, TypeOK
<1> QED
  BY <1>1, <1>2

LEMMA TypeNext == TypeInv /\ [Next]_vars => TypeInv'
<1> SUFFICES ASSUME TypeInv, [Next]_vars PROVE TypeInv'
  OBVIOUS
<1>1. CASE \E r \in Requests : GuardBlock(r) \/ GuardBlockSnap(r)
  BY <1>1, TypeGuardBlock
<1>2. CASE Reject
  BY <1>2 DEF Reject, TypeInv, TypeOK, CallOK, CallShape, Fresh, Current
<1>3. CASE \E i \in Slot : Unpatch(i)
  BY <1>3, TypeUnpatch
<1>4. CASE Install
  BY <1>4, TypeMapTrampoline, TypeUnmap, TypePlanGuard, TypePlanEntry, TypeApply,
     TypeRefused, TypeFix, TypeRegister, TypeUndo DEF Install
<1>5. CASE Uninstall
  BY <1>5, TypeUnfix, TypeRelease DEF Uninstall
<1>6. CASE \E p \in Resets : ResetPage(p)
  BY <1>6 DEF ResetPage, TypeInv, TypeOK, CallOK, CallShape, Fresh, Current
<1>7. CASE UNCHANGED vars
  BY <1>7 DEF vars, TypeInv, TypeOK, CallOK, CallShape, Fresh, Current
<1> QED
  BY <1>1, <1>2, <1>3, <1>4, <1>5, <1>6, <1>7 DEF Next

\* Every variable keeps its type, and every call its shape: at each step of a
\* call the locals it reads have been set (apply_plan, instr_unpatch).
THEOREM TypeCorrect == Spec => []TypeOK
<1>1. TypeInv => TypeOK
  BY DEF TypeInv
<1> QED
  BY <1>1, TypeInit, TypeNext, PTL DEF Spec
=============================================================================
