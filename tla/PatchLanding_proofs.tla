------------------------ MODULE PatchLanding_proofs ------------------------
(***************************************************************************)
(* No jump of the engine leads into an unmapped trampoline, whatever the   *)
(* mappings, the size of the table, the code, the hooks and the refusals   *)
(* of the system, provided clients keep their blocks apart, do not guard a *)
(* block twice, and do not call with a full table.                         *)
(***************************************************************************)
EXTENDS PatchEngine_proofs

Discipline == ~Reguard /\ SitesApart

(***************************************************************************)
(* Writing clean words.                                                    *)
(***************************************************************************)
Shrinks == \A a \in Addr : mem'[a].kind = "patch" => mem'[a] = mem[a]

LEMMA PutClean ==
  ASSUME NEW code \in [Addr -> Word], NEW p, IsSaved(p), Clean(p)
  PROVE  /\ \A a \in Addr : Put(code, p)[a].kind = "patch" => Put(code, p)[a] = code[a]
         /\ \A a \in DOMAIN p : Put(code, p)[a].kind # "patch"
BY DEF Put, IsSaved, Clean

LEMMA ShrinkJumps ==
  ASSUME IInv, Shrinks, UNCHANGED <<maps, recs>>
  PROVE  Landing' /\ SoleOwner'
<1>1. Landing'
  BY DEF IInv, Landing, Lands, Shrinks
<1>2. SoleOwner'
  BY DEF IInv, SoleOwner, Shrinks, PatchAt
<1> QED
  BY <1>1, <1>2

LEMMA LandMapTrampoline ==
  ASSUME IInv, NEW m \in MapId, MapTrampoline(m)
  PROVE  IInv'
<1>1. TypeInv'
  BY TypeMapTrampoline DEF IInv, TypeInv
<1>2. /\ call.pc = "map" /\ maps[m].pages = 0
      /\ call'.pc = "plan" /\ call'.map = m
      /\ call'.req = call.req /\ call'.snap = call.snap /\ call'.plan = call.plan
      /\ UNCHANGED <<mem, rwx, recs, ret, before>>
      /\ Fresh' = Fresh
  BY DEF MapTrampoline, IInv, TypeOK, CallOK, Fresh
<1>3. /\ maps'[m] = NewMapping(IF Fresh THEN 2 ELSE 1)
      /\ \A x \in MapId \ {m} : maps'[x] = maps[x]
  BY DEF MapTrampoline, IInv, TypeOK, MapsOK
<1>4. /\ maps'[m].pages = (IF Fresh THEN 2 ELSE 1)
      /\ maps'[m].guard.disp = {} /\ maps'[m].entry.disp = {}
  BY <1>3 DEF NewMapping, Empty
<1>5. \A a \in Addr : PatchAt(a) => mem[a].map # m /\ mem[a].map \in MapId
  BY <1>2 DEF IInv, Landing, Lands, Owned, WellPlaced, PatchAt
<1>6. NotYetGuarded'
  BY <1>2 DEF IInv, NotYetGuarded, SnapshotRecs
<1>7. SavedClean'
  BY <1>2, <1>3, <1>4 DEF IInv, SavedClean
<1>8. Owned'
  BY <1>2 DEF IInv, Owned, PatchAt, WellPlaced, Recorded, InCall, Pending
<1>9. CallMapping'
  BY <1>2, <1>4, <1>5 DEF IInv, CallMapping, SoleOwner, PatchAt
<1>10. SoleOwner'
  BY <1>2, <1>3 DEF IInv, SoleOwner, PatchAt
<1>11. Restored' /\ Landing'
  BY <1>2, <1>3, <1>5 DEF IInv, Restored, Landing, Lands, PatchAt
<1> QED
  BY <1>1, <1>6, <1>7, <1>8, <1>9, <1>10, <1>11 DEF IInv, TypeInv

(***************************************************************************)
(* The ends of a call.                                                     *)
(***************************************************************************)
LEMMA ReturnShape ==
  ASSUME NEW res, Return(res)
  PROVE  /\ call'.pc = "idle"
         /\ NotYetGuarded' /\ CallMapping' /\ Restored'
         /\ \A s \in Part : Clean(call'.plan[s].orig) /\ Clean(call'.plan[s].fixes)
<1>1. call'.pc = "idle" /\ \A s \in Part : call'.plan[s] = NoPlan
  BY DEF Return, Idle, Enter
<1>2. Clean(NoPlan.orig) /\ Clean(NoPlan.fixes)
  BY DEF Clean, NoPlan, Nothing
<1> QED
  BY <1>1, <1>2 DEF NotYetGuarded, CallMapping, Restored, Mapped

\* A call that returns without touching code, mappings or registry, and
\* without work of its own in the code.
LEMMA LandReturn ==
  ASSUME IInv, NEW res \in {"ok", "error"}, Return(res), TypeInv',
         call.pc \notin Pending, UNCHANGED <<mem, maps, recs>>
  PROVE  IInv'
<1>1. SavedClean'
  BY ReturnShape DEF IInv, SavedClean
<1>2. Owned'
  BY DEF IInv, Owned, PatchAt, WellPlaced, Recorded, InCall
<1>3. SoleOwner' /\ Landing'
  BY DEF IInv, SoleOwner, Landing, Lands, PatchAt
<1> QED
  BY <1>1, <1>2, <1>3, ReturnShape DEF IInv, TypeInv

\* No jump leads into the mapping of a call that has nothing in the code.
LEMMA LandUnmap ==
  ASSUME IInv, PlanFails \/ Unmap
  PROVE  IInv'
<1>1. TypeInv'
  BY TypeUnmap DEF IInv, TypeInv
<1>2. /\ call.pc \in Mapped /\ call.pc \notin Planned /\ call.pc \notin Pending
      /\ Return("error") /\ UNCHANGED <<mem, recs>>
      /\ call.map \in MapId /\ Munmap(call.map)
  BY DEF PlanFails, Unmap, Mapped, Planned, Pending, IInv, CallShape
<1>3. /\ maps'[call.map].guard.disp = {} /\ maps'[call.map].entry.disp = {}
      /\ \A x \in MapId \ {call.map} : maps'[x] = maps[x]
  BY <1>2 DEF Munmap, Unmapped, NewMapping, Empty, IInv, TypeOK, MapsOK
<1>4. /\ \A a \in Addr : PatchAt(a) => mem[a].map # call.map
      /\ \A i \in Slot : recs[i].used /\ recs[i].refs = 1 => recs[i].map # call.map
  BY <1>2 DEF IInv, CallMapping, Planned, Pending
<1>5. SavedClean'
  BY <1>2, <1>3, ReturnShape DEF IInv, SavedClean
<1>6. Owned'
  BY <1>2 DEF IInv, Owned, PatchAt, WellPlaced, Recorded, InCall
<1>7. SoleOwner'
  BY <1>2, <1>3, <1>4 DEF IInv, SoleOwner, PatchAt
<1>8. Landing'
  BY <1>2, <1>3, <1>4 DEF IInv, Landing, Lands, Owned, WellPlaced, PatchAt
<1> QED
  BY <1>1, <1>2, <1>5, <1>6, <1>7, <1>8, ReturnShape DEF IInv, TypeInv

(***************************************************************************)
(* The start of a call.                                                    *)
(***************************************************************************)
LEMMA EnterShape ==
  ASSUME NEW pc, NEW req, NEW snap, NEW chain, NEW rec, NEW left,
         call' = Enter(pc, req, snap, chain, rec, left)
  PROVE  /\ call'.pc = pc /\ call'.req = req /\ call'.snap = snap
         /\ \A s \in Part : Clean(call'.plan[s].orig) /\ Clean(call'.plan[s].fixes)
<1>1. /\ call'.pc = pc /\ call'.req = req /\ call'.snap = snap
      /\ \A s \in Part : call'.plan[s] = NoPlan
  BY DEF Enter
<1>2. Clean(NoPlan.orig) /\ Clean(NoPlan.fixes)
  BY DEF Clean, NoPlan, Nothing
<1> QED
  BY <1>1, <1>2

\* A call that begins finds the code as the registry says.
LEMMA LandEnter ==
  ASSUME IInv, TypeInv', call.pc = "idle", UNCHANGED <<mem, maps, recs>>,
         call'.pc \in {"map", "unfix"}, NotYetGuarded',
         \A s \in Part : Clean(call'.plan[s].orig) /\ Clean(call'.plan[s].fixes)
  PROVE  IInv'
<1>1. SavedClean'
  BY DEF IInv, SavedClean
<1>2. Owned'
  BY DEF IInv, Owned, PatchAt, WellPlaced, Recorded, InCall, Pending
<1>3. CallMapping' /\ Restored'
  BY DEF CallMapping, Restored, Mapped
<1>4. SoleOwner' /\ Landing'
  BY DEF IInv, SoleOwner, Landing, Lands, PatchAt
<1> QED
  BY <1>1, <1>2, <1>3, <1>4 DEF IInv, TypeInv

LEMMA LandGuardBlock ==
  ASSUME IInv, Discipline, NEW r \in Requests, GuardBlock(r) \/ GuardBlockSnap(r)
  PROVE  IInv'
<1>1. TypeInv'
  BY TypeGuardBlock DEF IInv, TypeInv
<1>2. PICK snap, chain :
        /\ snap \in MaybeMap
        /\ Begin(r, snap, chain)
        /\ r.mode = "snap" /\ snap = NoMap => SnapshotRecs(r.fn) = {}
  <2>1. CASE GuardBlock(r)
    BY <2>1 DEF GuardBlock, MaybeMap
  <2>2. CASE GuardBlockSnap(r) /\ SnapshotRecs(r.fn) # {}
    <3>1. PICK i \in SnapshotRecs(r.fn) : Begin(r, recs[i].map, 0)
      BY <2>2 DEF GuardBlockSnap, Least
    <3>2. recs[i].map \in MapId /\ recs[i].map # NoMap
      BY <3>1, EngineAssumption DEF SnapshotRecs, IInv, SoleOwner
    <3> QED
      BY <3>1, <3>2 DEF MaybeMap
  <2>3. CASE GuardBlockSnap(r) /\ SnapshotRecs(r.fn) = {}
    BY <2>3 DEF GuardBlockSnap, MaybeMap
  <2> QED
    BY <2>1, <2>2, <2>3
<1>3. /\ call.pc = "idle" /\ UNCHANGED <<mem, maps, recs>>
      /\ call' = Enter("map", r, snap, chain, 0, {})
      /\ \A i \in Slot : recs[i].used => recs[i].addr # r.start
  BY <1>2 DEF GuardBlock, GuardBlockSnap, Begin, Allowed, Discipline
<1>4. NotYetGuarded'
  BY <1>2, <1>3, EnterShape DEF NotYetGuarded, Fresh, SnapshotRecs
<1> QED
  BY <1>1, <1>3, <1>4, EnterShape, LandEnter

LEMMA LandUnpatch ==
  ASSUME IInv, NEW i \in Slot, Unpatch(i)
  PROVE  IInv'
<1>1. TypeInv'
  BY TypeUnpatch DEF IInv, TypeInv
<1>2. /\ call.pc = "idle" /\ UNCHANGED <<mem, maps, recs>>
      /\ call' = Enter("unfix", NoReq, NoMap, 0, i, DOMAIN recs[i].fixes)
  BY DEF Unpatch
<1> DEFINE left == DOMAIN recs[i].fixes
<1>3. /\ call'.pc = "unfix"
      /\ \A s \in Part : Clean(call'.plan[s].orig) /\ Clean(call'.plan[s].fixes)
  <2>1. call' = Enter("unfix", NoReq, NoMap, 0, i, left)
    BY <1>2
  <2> HIDE DEF left
  <2> QED
    BY <2>1, EnterShape
<1>4. NotYetGuarded'
  BY <1>3 DEF NotYetGuarded
<1> QED
  BY <1>1, <1>2, <1>3, <1>4, LandEnter

(***************************************************************************)
(* Planning.                                                               *)
(***************************************************************************)
\* The block, and the entry whose snapshot is being made, hold no patch: a
\* patch there would be in a record, and there is none.
LEMMA SiteClean ==
  ASSUME IInv, Discipline, call.pc \in {"plan", "plan_entry"}
  PROVE  /\ call.pc = "plan" => \A x \in Region(call.req.start, 4) : ~PatchAt(x)
         /\ Fresh => \A x \in Region(call.req.fn, 4) : ~PatchAt(x)
<1>1. /\ call.req \in Requests /\ Region(call.req.start, 4) \subseteq Addr
      /\ call.req.fn \in Fn /\ Region(call.req.fn, 4) \subseteq Addr
  <2>1. call.req \in Requests /\ Region(call.req.start, 4) \subseteq Addr
    BY DEF IInv, CallShape, Mapped
  <2> QED
    BY <2>1, SiteWords, EngineAssumption DEF Fn
<1>2. \A x \in Addr : PatchAt(x) => WellPlaced(x) /\ Recorded(x)
  BY DEF IInv, Owned, InCall, Pending
<1>3. \A x \in Addr : mem[x].part \in Part
  BY DEF IInv, TypeOK, Word
<1>4. ASSUME call.pc = "plan", NEW x \in Region(call.req.start, 4), PatchAt(x)
      PROVE  FALSE
  <2>1. x \in Addr /\ WellPlaced(x) /\ Recorded(x)
    BY <1>1, <1>2, <1>4
  <2>2. mem[x].at = call.req.start
    BY <1>1, <1>3, <1>4, <2>1 DEF WellPlaced, Discipline, SitesApart, Part
  <2> QED
    BY <1>4, <2>1, <2>2 DEF Recorded, IInv, NotYetGuarded, Discipline
<1>5. ASSUME Fresh, NEW x \in Region(call.req.fn, 4), PatchAt(x)
      PROVE  FALSE
  <2>1. x \in Addr /\ WellPlaced(x) /\ Recorded(x)
    BY <1>1, <1>2, <1>5
  <2>2. mem[x].at = call.req.fn /\ mem[x].part = "entry"
    BY <1>1, <1>3, <1>5, <2>1 DEF WellPlaced, Discipline, SitesApart, Part
  <2>3. \E i \in Slot : i \in SnapshotRecs(call.req.fn)
    BY <2>1, <2>2 DEF Recorded, SnapshotRecs
  <2> QED
    BY <1>5, <2>3 DEF IInv, NotYetGuarded
<1> QED
  BY <1>4, <1>5

\* A plan for such a site keeps no patch word.
LEMMA PlanClean ==
  ASSUME TypeOK, NEW a \in Addr, NEW n \in 0..4, Region(a, 4) \subseteq Addr,
         \A x \in Region(a, 4) : ~PatchAt(x),
         NEW fn, NEW last
  PROVE  /\ Clean(MakePlan(a, n, Fixups(fn, a, n, last)).orig)
         /\ Clean(MakePlan(a, n, Fixups(fn, a, n, last)).fixes)
         /\ \A x \in Region(a, 4) : Source[x].kind # "patch"
<1>1. Region(a, n) \subseteq Region(a, 4)
  BY SiteWords
<1>2. \A x \in Addr : Orig(x).kind # "patch"
  BY WordKinds
<1>3. \A x \in Region(a, 4) : Source[x].kind # "patch"
  BY <1>2 DEF Source, Pristine, PatchAt
<1>4. \A x \in Fixups(fn, a, n, last) : mem[x].kind # "patch"
  <2>1. NoAddr \notin Region(a, n)
    BY <1>1, EngineAssumption
  <2> QED
    BY <2>1 DEF Fixups, BranchTo
<1> QED
  BY <1>1, <1>3, <1>4 DEF MakePlan, Clean

\* Filling in a trampoline of the call's mapping.
LEMMA LandPlanned ==
  ASSUME IInv, TypeInv', call.pc \in {"plan", "plan_entry"},
         call'.pc \in {"plan_entry", "apply"}, UNCHANGED <<mem, recs>>,
         call'.map = call.map, call'.req = call.req, call'.snap = call.snap,
         call'.stage = "entry" \/ call'.pc = "plan_entry" \/ ~Fresh,
         \A s \in Part : Clean(call'.plan[s].orig) /\ Clean(call'.plan[s].fixes),
         \A m \in MapId :
           /\ maps'[m].pages = maps[m].pages
           /\ \A w \in maps'[m].guard.disp \cup maps'[m].entry.disp : w.kind # "patch"
  PROVE  IInv'
<1>1. Fresh' = Fresh /\ call.pc \in Mapped /\ call.pc \notin Planned /\ call.pc \notin Pending
  BY DEF Fresh, Mapped, Planned, Pending
<1>2. call.map \in MapId
  BY <1>1 DEF IInv, CallShape
<1>3. NotYetGuarded'
  BY <1>1 DEF IInv, NotYetGuarded, SnapshotRecs
<1>4. SavedClean'
  BY DEF IInv, SavedClean
<1>5. Owned'
  BY <1>1 DEF IInv, Owned, PatchAt, WellPlaced, Recorded, InCall
<1>6. CallMapping'
  BY <1>1, <1>2 DEF IInv, CallMapping, PatchAt
<1>7. SoleOwner'
  BY DEF IInv, SoleOwner, PatchAt
<1>8. Restored' /\ Landing'
  BY DEF IInv, Restored, Landing, Lands, Owned, WellPlaced, PatchAt
<1> QED
  BY <1>3, <1>4, <1>5, <1>6, <1>7, <1>8 DEF IInv, TypeInv

LEMMA LandPlanGuard ==
  ASSUME IInv, Discipline, PlanGuard
  PROVE  IInv'
<1> DEFINE site  == call.req.start
           n     == GuardLen(call.map)
           last  == Later(FnEnd[call.req.fn], call.req.end + ScanSpan)
           fixes == Fixups(call.req.fn, site, n, last)
           plan  == MakePlan(site, n, fixes)
<1>1. TypeInv'
  BY TypePlanGuard DEF IInv, TypeInv
<1>2. /\ call.pc = "plan" /\ call.stage = "guard" /\ UNCHANGED <<mem, recs>>
      /\ call.map \in MapId /\ site \in Addr /\ n \in 0..4
      /\ Region(site, 4) \subseteq Addr
  <2>1. /\ call.pc = "plan" /\ call.stage = "guard" /\ call.map \in MapId
        /\ Region(site, 4) \subseteq Addr /\ call.req \in Requests
    BY DEF PlanGuard, IInv, CallShape, Mapped
  <2>2. site \in Addr
    BY <2>1, SiteWords, EngineAssumption
  <2> QED
    BY <2>1, <2>2, LensOK DEF PlanGuard
<1>3. \A x \in Region(site, 4) : ~PatchAt(x)
  BY <1>2, SiteClean
<1>4. /\ IsPlan(plan) /\ DOMAIN plan.orig = Region(site, n)
      /\ Clean(plan.orig) /\ Clean(plan.fixes)
  <2>1. fixes \subseteq Addr /\ Region(site, n) \subseteq Addr
    BY <1>2, FixupsAddr, SiteWords
  <2>2. TypeOK
    BY DEF IInv
  <2> HIDE DEF n, site, last
  <2>3. Clean(plan.orig) /\ Clean(plan.fixes)
    BY <1>2, <1>3, <2>2, PlanClean
  <2> HIDE DEF fixes
  <2> QED
    BY <1>2, <2>1, <2>2, <2>3, PlanType
<1>5. /\ call' = [call EXCEPT !.pc = IF Fresh THEN "plan_entry" ELSE "apply",
                              !.plan["guard"] = plan]
      /\ maps' = [maps EXCEPT ![call.map].guard =
                    [disp |-> {plan.orig[a] : a \in Region(site, n)},
                     snap |-> IF Fresh THEN call.map ELSE call.snap]]
  BY DEF PlanGuard, GuardFixups
<1> HIDE DEF plan, n
<1>6. /\ call'.pc = (IF Fresh THEN "plan_entry" ELSE "apply")
      /\ call'.map = call.map /\ call'.req = call.req /\ call'.snap = call.snap
      /\ \A s \in Part : Clean(call'.plan[s].orig) /\ Clean(call'.plan[s].fixes)
  BY <1>4, <1>5 DEF IInv, TypeOK, CallOK, SavedClean, Part
<1>7. \A m \in MapId :
        /\ maps'[m].pages = maps[m].pages
        /\ \A w \in maps'[m].guard.disp \cup maps'[m].entry.disp : w.kind # "patch"
  <2>1. \A w \in {plan.orig[a] : a \in Region(site, n)} : w.kind # "patch"
    BY <1>4 DEF Clean
  <2>2. \A m \in MapId : /\ maps'[m].pages = maps[m].pages
                         /\ maps'[m].entry = maps[m].entry
                         /\ m # call.map => maps'[m] = maps[m]
                         /\ m = call.map => maps'[m].guard.disp =
                                              {plan.orig[a] : a \in Region(site, n)}
    BY <1>2, <1>5 DEF IInv, TypeOK, MapsOK, Mapping, Trampoline
  <2> QED
    BY <2>1, <2>2 DEF IInv, SavedClean
<1> QED
  BY <1>1, <1>2, <1>6, <1>7, LandPlanned

LEMMA LandPlanEntry ==
  ASSUME IInv, Discipline, PlanEntry
  PROVE  IInv'
<1> DEFINE fn    == call.req.fn
           n     == EntryLen(call.chain, call.map)
           last  == call.req.end + ScanSpan
           fixes == Fixups(fn, fn, n, last)
           plan  == MakePlan(fn, n, fixes)
           disp  == IF call.chain = 0 THEN {Source[a] : a \in Region(fn, 4)} ELSE {mem[fn]}
<1>1. TypeInv'
  BY TypePlanEntry DEF IInv, TypeInv
<1>2. /\ call.pc = "plan_entry" /\ Fresh /\ UNCHANGED <<mem, recs>>
      /\ call.map \in MapId /\ fn \in Addr /\ n \in 0..4
      /\ Region(fn, 4) \subseteq Addr /\ fn \in Region(fn, 4)
  <2>1. call.pc = "plan_entry" /\ Fresh /\ call.map \in MapId /\ call.req \in Requests
    BY DEF PlanEntry, IInv, CallShape, Mapped
  <2>2. fn \in Addr /\ Region(fn, 4) \subseteq Addr /\ fn \in Region(fn, 4)
    BY <2>1, SiteWords, EngineAssumption DEF Fn
  <2> QED
    BY <2>1, <2>2, LensOK DEF PlanEntry, IInv, TypeOK, CallOK
<1>3. \A x \in Region(fn, 4) : ~PatchAt(x)
  BY <1>2, SiteClean
<1>4. /\ IsPlan(plan) /\ Clean(plan.orig) /\ Clean(plan.fixes)
      /\ \A w \in disp : w.kind # "patch"
  <2>1. fixes \subseteq Addr /\ Region(fn, n) \subseteq Addr
    BY <1>2, FixupsAddr, SiteWords
  <2>2. TypeOK
    BY DEF IInv
  <2> HIDE DEF n, fn, last
  <2>3. /\ Clean(plan.orig) /\ Clean(plan.fixes)
        /\ \A x \in Region(fn, 4) : Source[x].kind # "patch"
    BY <1>2, <1>3, <2>2, PlanClean
  <2>4. \A w \in disp : w.kind # "patch"
    BY <1>2, <1>3, <2>3 DEF PatchAt
  <2> HIDE DEF fixes, disp
  <2> QED
    BY <1>2, <2>1, <2>2, <2>3, <2>4, PlanType
<1>5. /\ call' = [call EXCEPT !.pc = "apply", !.stage = "entry", !.plan["entry"] = plan]
      /\ maps' = [maps EXCEPT ![call.map].entry.disp = disp]
  BY DEF PlanEntry, EntryFixups
<1> HIDE DEF plan, disp
<1>6. /\ call'.pc = "apply" /\ call'.stage = "entry"
      /\ call'.map = call.map /\ call'.req = call.req /\ call'.snap = call.snap
      /\ \A s \in Part : Clean(call'.plan[s].orig) /\ Clean(call'.plan[s].fixes)
  BY <1>4, <1>5 DEF IInv, TypeOK, CallOK, SavedClean, Part
<1>7. \A m \in MapId :
        /\ maps'[m].pages = maps[m].pages
        /\ \A w \in maps'[m].guard.disp \cup maps'[m].entry.disp : w.kind # "patch"
  <2>1. \A m \in MapId : /\ maps'[m].pages = maps[m].pages
                         /\ maps'[m].guard = maps[m].guard
                         /\ m # call.map => maps'[m] = maps[m]
                         /\ m = call.map => maps'[m].entry.disp = disp
    BY <1>2, <1>5 DEF IInv, TypeOK, MapsOK, Mapping, Trampoline
  <2> QED
    BY <1>4, <2>1 DEF IInv, SavedClean
<1> QED
  BY <1>1, <1>2, <1>6, <1>7, LandPlanned

(***************************************************************************)
(* Writing a stage of the call, and registering it.                        *)
(***************************************************************************)
LEMMA LandApply ==
  ASSUME IInv, Apply
  PROVE  IInv'
<1> DEFINE D == DOMAIN Current.orig
           w == Patch(Current.addr, Current.len, call.map, call.stage)
<1>1. TypeInv'
  BY TypeApply DEF IInv, TypeInv
<1>2. /\ call.pc = "apply" /\ call.pc \in Planned /\ call.pc \notin Pending
      /\ call.pc \in Mapped
  BY DEF Apply, Planned, Pending, Mapped
<1>3. /\ D \subseteq Addr /\ D \subseteq Region(Current.addr, 4)
      /\ call.map \in MapId /\ call.stage \in Part /\ call.req \in Requests
      /\ Current.addr = IF call.stage = "entry" THEN call.req.fn ELSE call.req.start
      /\ call.stage = "entry" => Fresh
  BY <1>2, CurrentPlan DEF IInv, TypeInv, CallShape, IsPlan, IsSaved
<1>4. /\ UNCHANGED <<maps, recs>>
      /\ call' = [call EXCEPT !.pc = "fix", !.left = DOMAIN Current.fixes]
      /\ \A a \in Addr : mem'[a] = IF a \in D THEN w ELSE mem[a]
  BY DEF Apply, ApplyBytes, Put
<1>5. /\ call'.pc = "fix" /\ call'.map = call.map /\ call'.req = call.req
      /\ call'.snap = call.snap /\ call'.plan = call.plan /\ call'.stage = call.stage
      /\ Fresh' = Fresh /\ Current' = Current
  <2>1. /\ call'.pc = "fix" /\ call'.map = call.map /\ call'.req = call.req
        /\ call'.snap = call.snap /\ call'.plan = call.plan /\ call'.stage = call.stage
    BY <1>4 DEF IInv, TypeOK, CallOK
  <2> QED
    BY <2>1 DEF Fresh, Current
<1>6. /\ w.kind = "patch" /\ w.at = Current.addr /\ w.map = call.map
      /\ w.part = call.stage
  BY DEF Patch
<1> HIDE DEF D, w
<1>7. NotYetGuarded' /\ Restored'
  BY <1>5 DEF NotYetGuarded, Restored
<1>8. SavedClean'
  BY <1>4, <1>5 DEF IInv, SavedClean
<1>9. Owned'
  <2>1. ASSUME NEW a \in D
        PROVE  WellPlaced(a)' /\ InCall(a)'
    <3>1. mem'[a] = w /\ a \in Region(Current.addr, 4)
      BY <1>3, <1>4, <2>1
    <3>2. Current.addr \in Fn \/ call.stage = "guard"
      BY <1>3, EngineAssumption DEF Fn, Part
    <3>3. WellPlaced(a)'
      BY <1>3, <1>6, <3>1, <3>2 DEF WellPlaced
    <3>4. InCall(a)'
      BY <1>5, <1>6, <2>1, <3>1 DEF InCall, Pending, D
    <3> QED
      BY <3>3, <3>4
  <2>2. ASSUME NEW a \in Addr \ D, PatchAt(a)'
        PROVE  WellPlaced(a)' /\ Recorded(a)'
    <3>1. mem'[a] = mem[a]
      BY <1>4, <2>2
    <3> QED
      BY <1>2, <1>4, <2>2, <3>1 DEF IInv, Owned, PatchAt, WellPlaced, Recorded, InCall
  <2> QED
    BY <2>1, <2>2 DEF Owned
<1>10. CallMapping'
  <2>1. ASSUME NEW a \in Addr, PatchAt(a)', mem'[a].map = call.map, a \notin D
        PROVE  Fresh /\ call.stage = "guard" /\ a \in DOMAIN call.plan["entry"].orig
    <3>1. PatchAt(a) /\ mem[a].map = call.map
      BY <1>4, <2>1 DEF PatchAt
    <3> QED
      BY <1>2, <3>1 DEF IInv, CallMapping
  <2>2. /\ maps[call.map].pages = IF Fresh THEN 2 ELSE 1
        /\ \A i \in Slot : recs[i].used /\ recs[i].refs = 1 => recs[i].map # call.map
    BY <1>2 DEF IInv, CallMapping
  <2> QED
    BY <1>4, <1>5, <2>1, <2>2 DEF CallMapping, Pending, Planned, D
<1>11. SoleOwner'
  <2>1. \A i \in Slot : recs[i].used /\ recs[i].refs = 1 => recs[i].map # call.map
    BY <1>2 DEF IInv, CallMapping
  <2> QED
    BY <1>4, <1>6, <2>1 DEF IInv, SoleOwner, PatchAt
<1>12. Landing'
  <2>1. maps[call.map].pages = IF Fresh THEN 2 ELSE 1
    BY <1>2 DEF IInv, CallMapping
  <2> QED
    BY <1>3, <1>4, <1>6, <2>1 DEF IInv, Landing, Lands, Part
<1> QED
  BY <1>1, <1>7, <1>8, <1>9, <1>10, <1>11, <1>12 DEF IInv, TypeInv

LEMMA LandRefused ==
  ASSUME IInv, ApplyRefused \/ FixRefused
  PROVE  IInv'
<1>1. TypeInv'
  BY TypeRefused DEF IInv, TypeInv
<1>2. /\ UNCHANGED <<mem, maps, recs>>
      /\ \/ /\ call.pc = "apply" /\ call'.pc = AfterUndo
         \/ /\ call.pc = "fix" /\ call'.pc = "undo"
      /\ call'.map = call.map /\ call'.req = call.req /\ call'.snap = call.snap
      /\ call'.plan = call.plan /\ call'.stage = call.stage
      /\ Fresh' = Fresh /\ Current' = Current
  BY DEF ApplyRefused, FixRefused, IInv, TypeOK, CallOK, Fresh, Current
<1>3. /\ AfterUndo \in {"undo_entry", "unmap"}
      /\ Fresh /\ call.stage = "guard" => AfterUndo = "undo_entry"
  BY DEF AfterUndo, Fresh
<1>4. NotYetGuarded' /\ Restored'
  BY <1>2, <1>3 DEF NotYetGuarded, Restored
<1>5. SavedClean' /\ SoleOwner' /\ Landing'
  BY <1>2 DEF IInv, SavedClean, SoleOwner, Landing, Lands, PatchAt
<1>6. Owned'
  BY <1>2 DEF IInv, Owned, PatchAt, WellPlaced, Recorded, InCall, Pending
<1>7. CallMapping'
  BY <1>2, <1>3 DEF IInv, CallMapping, PatchAt, Mapped, Planned, Pending
<1> QED
  BY <1>1, <1>4, <1>5, <1>6, <1>7 DEF IInv, TypeInv

LEMMA LandRegister ==
  ASSUME IInv, Register
  PROVE  IInv'
<1>1. TypeInv'
  BY TypeRegister DEF IInv, TypeInv
<1>2. /\ call.pc = "fix" /\ call.pc \in Planned /\ call.pc \in Pending /\ call.pc \in Mapped
      /\ UNCHANGED <<mem, maps>>
  BY DEF Register, Planned, Pending, Mapped
<1>3. /\ call.map \in MapId /\ call.stage \in Part
      /\ Current = call.plan[call.stage] /\ (call.stage = "entry" => Fresh)
      /\ Clean(Current.orig) /\ Clean(Current.fixes)
  BY <1>2, CurrentPlan DEF IInv, TypeInv, SavedClean
<1>4. PICK i \in Slot :
        /\ ~recs[i].used
        /\ recs' = [recs EXCEPT ![i] =
             [used |-> TRUE, addr |-> Current.addr, orig |-> Current.orig,
              fixes |-> Current.fixes, map |-> call.map,
              refs |-> IF Fresh THEN 2 ELSE 1]]
  BY DEF Register, Least
<1>5. /\ recs'[i].used /\ recs'[i].addr = Current.addr /\ recs'[i].orig = Current.orig
      /\ recs'[i].fixes = Current.fixes /\ recs'[i].map = call.map
      /\ recs'[i].refs = IF Fresh THEN 2 ELSE 1
  BY <1>4 DEF IInv, TypeOK, RecsOK
<1>6. \A j \in Slot \ {i} : recs'[j] = recs[j]
  BY <1>4 DEF IInv, TypeOK, RecsOK
<1>7. \/ /\ call.stage = "entry" /\ call'.pc = "apply" /\ call'.stage = "guard"
         /\ call'.map = call.map /\ call'.req = call.req /\ call'.snap = call.snap
         /\ call'.plan = call.plan
      \/ call.stage = "guard" /\ Return("ok")
  BY <1>3 DEF Register, IInv, TypeOK, CallOK, Part
<1>8. call'.pc \in {"apply", "idle"}
  BY <1>7, ReturnShape
<1>9. NotYetGuarded' /\ Restored'
  BY <1>8 DEF NotYetGuarded, Restored
<1>10. SavedClean'
  <2>1. \A s \in Part : Clean(call'.plan[s].orig) /\ Clean(call'.plan[s].fixes)
    BY <1>7, ReturnShape DEF IInv, SavedClean
  <2>2. \A j \in Slot : recs'[j].used => Clean(recs'[j].orig) /\ Clean(recs'[j].fixes)
    BY <1>3, <1>5, <1>6 DEF IInv, SavedClean
  <2> QED
    BY <1>2, <2>1, <2>2 DEF IInv, SavedClean
<1>11. Owned'
  <2>1. ASSUME NEW a \in Addr, PatchAt(a)
        PROVE  WellPlaced(a)' /\ Recorded(a)'
    <3>1. WellPlaced(a)'
      BY <1>2, <2>1 DEF IInv, Owned, WellPlaced
    <3>2. \E j \in Slot : /\ recs'[j].used /\ recs'[j].addr = mem[a].at
                          /\ recs'[j].map = mem[a].map
                          /\ a \in DOMAIN recs'[j].orig
                          /\ mem[a].part = "entry" => recs'[j].refs = 2
      <4>1. CASE Recorded(a)
        BY <1>4, <1>6, <4>1 DEF Recorded
      <4>2. CASE InCall(a)
        BY <1>3, <1>5, <4>2 DEF InCall
      <4> QED
        BY <2>1, <4>1, <4>2 DEF IInv, Owned
    <3> QED
      BY <1>2, <3>1, <3>2 DEF Recorded
  <2> QED
    BY <1>2, <2>1 DEF Owned, PatchAt
<1>12. CallMapping'
  <2>1. CASE call.stage = "entry" /\ call'.pc = "apply" /\ call'.stage = "guard"
    <3>1. /\ call'.map = call.map /\ call'.plan = call.plan /\ Fresh /\ Fresh'
      BY <1>3, <1>7, <2>1, ReturnShape DEF Fresh
    <3>2. \A a \in Addr : PatchAt(a)' /\ mem'[a].map = call.map =>
            a \in DOMAIN call.plan["entry"].orig
      BY <1>2, <1>3, <2>1 DEF IInv, CallMapping, PatchAt
    <3>3. \A j \in Slot : recs'[j].used /\ recs'[j].refs = 1 => recs'[j].map # call.map
      BY <1>2, <1>5, <1>6, <3>1 DEF IInv, CallMapping
    <3> QED
      BY <1>2, <2>1, <3>1, <3>2, <3>3 DEF IInv, CallMapping, Planned
  <2>2. CASE call'.pc = "idle"
    BY <2>2 DEF CallMapping, Mapped
  <2> QED
    BY <1>7, <2>1, <2>2, ReturnShape
<1>13. SoleOwner'
  <2>1. /\ maps[call.map].pages = IF Fresh THEN 2 ELSE 1
        /\ \A j \in Slot : recs[j].used /\ recs[j].refs = 1 => recs[j].map # call.map
    BY <1>2 DEF IInv, CallMapping
  <2>2. ~Fresh => \A a \in Addr : PatchAt(a) /\ mem[a].map = call.map =>
                    a \in DOMAIN Current.orig
    BY <1>2 DEF IInv, CallMapping
  <2> QED
    BY <1>2, <1>3, <1>5, <1>6, <2>1, <2>2 DEF IInv, SoleOwner, PatchAt
<1>14. Landing'
  BY <1>2 DEF IInv, Landing, Lands
<1> QED
  BY <1>1, <1>9, <1>10, <1>11, <1>12, <1>13, <1>14 DEF IInv, TypeInv

(***************************************************************************)
(* Writing a branch, and rolling a stage back.                             *)
(***************************************************************************)
\* Writing clean words within a call that stays where it is.
LEMMA LandWrite ==
  ASSUME IInv, TypeInv', Shrinks, UNCHANGED <<maps, recs>>,
         call.pc \in {"fix", "unfix"},
         call'.pc = call.pc, call'.plan = call.plan, call'.stage = call.stage,
         call'.map = call.map, call'.req = call.req, call'.snap = call.snap,
         call'.rec = call.rec
  PROVE  IInv'
<1>1. Fresh' = Fresh /\ Current' = Current
  BY DEF Fresh, Current
<1>2. NotYetGuarded' /\ Restored'
  BY DEF NotYetGuarded, Restored
<1>3. SavedClean'
  BY DEF IInv, SavedClean
<1>4. Owned'
  BY <1>1 DEF IInv, Owned, Shrinks, PatchAt, WellPlaced, Recorded, InCall
<1>5. CallMapping'
  BY <1>1 DEF IInv, CallMapping, Shrinks, PatchAt
<1> QED
  BY <1>2, <1>3, <1>4, <1>5, ShrinkJumps DEF IInv, TypeInv

LEMMA LandFix ==
  ASSUME IInv, Fix \/ Unfix
  PROVE  IInv'
<1>1. TypeInv'
  BY TypeFix, TypeUnfix DEF IInv, TypeInv
<1>2. call.pc \in {"fix", "unfix"} /\ UNCHANGED <<maps, recs>>
  BY DEF Fix, Unfix
<1>3. PICK f \in call.left :
        call' = [call EXCEPT !.left = call.left \ {f}]
  BY DEF Fix, Unfix, Written
<1>4. /\ call'.pc = call.pc /\ call'.plan = call.plan /\ call'.stage = call.stage
      /\ call'.map = call.map /\ call'.req = call.req /\ call'.snap = call.snap
      /\ call'.rec = call.rec
  BY <1>3 DEF IInv, TypeOK, CallOK
<1>5. \E g \in call.left : \E v : v.kind # "patch" /\ ApplyBytes([a \in {g} |-> v])
  <2>1. CASE Fix
    <3>1. Branch(Current.addr).kind # "patch"
      BY WordKinds
    <3> QED
      BY <2>1, <3>1 DEF Fix
  <2>2. CASE Unfix
    <3>1. \A g \in call.left : recs[call.rec].fixes[g].kind # "patch"
      BY <2>2 DEF Unfix, IInv, CallShape, SavedClean, Clean
    <3>2. PICK g \in call.left : ApplyBytes([a \in {g} |-> recs[call.rec].fixes[g]])
      BY <2>2 DEF Unfix
    <3>3. [a \in {g} |-> recs[call.rec].fixes[g]] = [a \in {g} |-> recs[call.rec].fixes[a]]
      OBVIOUS
    <3> QED
      BY <3>1, <3>2
  <2> QED
    BY <2>1, <2>2
<1>6. Shrinks
  BY <1>5 DEF Shrinks, ApplyBytes, Put
<1> QED
  BY <1>1, <1>2, <1>4, <1>6, LandWrite

\* Two rounds of clean words; the words of both are clean afterwards.
LEMMA PutTwice ==
  ASSUME TypeOK, NEW p, NEW q, IsSaved(p), IsSaved(q), Clean(p), Clean(q),
         mem' = Put(Put(mem, p), q)
  PROVE  Shrinks /\ \A a \in DOMAIN p \cup DOMAIN q : ~PatchAt(a)'
<1>1. mem \in [Addr -> Word] /\ Put(mem, p) \in [Addr -> Word]
  BY PutType DEF TypeOK
<1>2. /\ \A a \in Addr : Put(mem, p)[a].kind = "patch" => Put(mem, p)[a] = mem[a]
      /\ \A a \in DOMAIN p : Put(mem, p)[a].kind # "patch"
  BY <1>1, PutClean
<1>3. /\ \A a \in Addr : mem'[a].kind = "patch" => mem'[a] = Put(mem, p)[a]
      /\ \A a \in DOMAIN q : mem'[a].kind # "patch"
  BY <1>1, PutClean
<1>4. DOMAIN p \subseteq Addr
  BY DEF IsSaved
<1> QED
  BY <1>2, <1>3, <1>4 DEF Shrinks, PatchAt

LEMMA LandUndo ==
  ASSUME IInv, Undo
  PROVE  IInv'
<1> DEFINE done == [a \in DOMAIN Current.fixes \ call.left |-> Current.fixes[a]]
<1>1. TypeInv'
  BY TypeUndo DEF IInv, TypeInv
<1>2. /\ call.pc = "undo" /\ UNCHANGED <<maps, recs>>
      /\ call'.pc = AfterUndo
      /\ call'.map = call.map /\ call'.req = call.req /\ call'.snap = call.snap
      /\ call'.plan = call.plan /\ call'.stage = call.stage
      /\ Fresh' = Fresh /\ Current' = Current
  BY DEF Undo, IInv, TypeOK, CallOK, Fresh, Current
<1>3. /\ AfterUndo \in {"undo_entry", "unmap"}
      /\ Fresh /\ call.stage = "guard" => AfterUndo = "undo_entry"
  BY DEF AfterUndo, Fresh
<1>4. /\ IsPlan(Current) /\ Clean(Current.orig) /\ Clean(Current.fixes)
  BY <1>2, CurrentPlan DEF IInv, TypeInv, SavedClean, Planned
<1>5. Shrinks /\ \A a \in DOMAIN Current.orig : ~PatchAt(a)'
  <2>1. IsSaved(done) /\ Clean(done) /\ IsSaved(Current.orig)
    BY <1>4 DEF IsPlan, IsSaved, Clean
  <2>2. mem' = Put(Put(mem, done), Current.orig)
    BY DEF Undo, RolledBack, Done
  <2> HIDE DEF done
  <2> QED
    BY <1>4, <2>1, <2>2, PutTwice DEF IInv
<1>6. NotYetGuarded' /\ Restored'
  BY <1>2, <1>3 DEF NotYetGuarded, Restored
<1>7. SavedClean'
  BY <1>2 DEF IInv, SavedClean
<1>8. Owned'
  BY <1>2, <1>5 DEF IInv, Owned, Shrinks, PatchAt, WellPlaced, Recorded, InCall
<1>9. CallMapping'
  BY <1>2, <1>3, <1>5 DEF IInv, CallMapping, Shrinks, PatchAt, Mapped, Planned, Pending
<1> QED
  BY <1>1, <1>2, <1>5, <1>6, <1>7, <1>8, <1>9, ShrinkJumps DEF IInv, TypeInv

\* A rollback of the entry: no jump into the call's mapping is left.
LEMMA LandUndoEntry ==
  ASSUME IInv, UndoEntry \/ UndoUnplannedEntry
  PROVE  IInv'
<1>1. TypeInv'
  BY TypeUndo DEF IInv, TypeInv
<1>2. /\ call.pc = "undo_entry" /\ UNCHANGED <<maps, recs>>
      /\ call'.pc \in {"unmap", "crashed"}
      /\ call'.map = call.map /\ call'.req = call.req /\ call'.snap = call.snap
      /\ call'.plan = call.plan /\ call'.stage = call.stage
      /\ Fresh' = Fresh
  BY DEF UndoEntry, UndoUnplannedEntry, IInv, TypeOK, CallOK, Fresh
<1>3. Shrinks /\ (Fresh => \A a \in DOMAIN call.plan["entry"].orig : ~PatchAt(a)')
  <2>1. CASE UndoEntry
    <3> DEFINE e == call.plan["entry"]
    <3>1. /\ IsSaved(e.orig) /\ IsSaved(e.fixes) /\ Clean(e.orig) /\ Clean(e.fixes)
          /\ mem' = Put(Put(mem, e.orig), e.fixes) /\ TypeOK
      BY <2>1 DEF UndoEntry, IInv, TypeOK, CallOK, IsPlan, SavedClean, Part
    <3> QED
      BY <3>1, PutTwice
  <2>2. CASE UndoUnplannedEntry /\ mem' = mem
    BY <2>2 DEF UndoUnplannedEntry, Shrinks
  <2>3. CASE UndoUnplannedEntry /\ mem' # mem
    <3>1. PICK i \in Slot : recs[i].used /\ mem' = Put(Put(mem, recs[i].orig), recs[i].fixes)
      BY <2>3 DEF UndoUnplannedEntry
    <3>2. /\ IsSaved(recs[i].orig) /\ IsSaved(recs[i].fixes)
          /\ Clean(recs[i].orig) /\ Clean(recs[i].fixes) /\ TypeOK
      BY <3>1 DEF IInv, TypeOK, RecsOK, IsRecord, SavedClean
    <3>3. Shrinks
      BY <3>1, <3>2, PutTwice
    <3> QED
      BY <2>3, <3>3 DEF UndoUnplannedEntry
  <2> QED
    BY <2>1, <2>2, <2>3
<1>4. NotYetGuarded' /\ Restored'
  BY <1>2 DEF NotYetGuarded, Restored
<1>5. SavedClean'
  BY <1>2 DEF IInv, SavedClean
<1>6. Owned'
  BY <1>2, <1>3 DEF IInv, Owned, Shrinks, PatchAt, WellPlaced, Recorded, InCall, Pending
<1>7. CallMapping'
  BY <1>2, <1>3 DEF IInv, CallMapping, Shrinks, PatchAt, Mapped, Planned, Pending
<1> QED
  BY <1>1, <1>2, <1>3, <1>4, <1>5, <1>6, <1>7, ShrinkJumps DEF IInv, TypeInv

(***************************************************************************)
(* Removing a guard.                                                       *)
(***************************************************************************)
LEMMA LandRestore ==
  ASSUME IInv, Restore
  PROVE  IInv'
<1> DEFINE orig == recs[call.rec].orig
<1>1. TypeInv'
  BY TypeUnfix DEF IInv, TypeInv
<1>2. /\ call.pc = "unfix" /\ UNCHANGED <<maps, recs>> /\ mem' = Put(mem, orig)
      /\ call'.pc = "release" /\ call'.rec = call.rec /\ call'.plan = call.plan
  BY DEF Restore, ApplyBytes, IInv, TypeOK, CallOK
<1>3. IsSaved(orig) /\ Clean(orig) /\ mem \in [Addr -> Word]
  BY <1>2 DEF IInv, CallShape, TypeOK, RecsOK, IsRecord, SavedClean
<1>4. Shrinks /\ \A a \in DOMAIN orig : ~PatchAt(a)'
  <2> HIDE DEF orig
  <2> QED
    BY <1>2, <1>3, PutClean DEF Shrinks, PatchAt
<1>5. NotYetGuarded' /\ CallMapping' /\ Restored'
  BY <1>2, <1>4 DEF NotYetGuarded, CallMapping, Restored, Mapped
<1>6. SavedClean'
  BY <1>2 DEF IInv, SavedClean
<1>7. Owned'
  BY <1>2, <1>4 DEF IInv, Owned, Shrinks, PatchAt, WellPlaced, Recorded, InCall, Pending
<1> QED
  BY <1>1, <1>2, <1>4, <1>5, <1>6, <1>7, ShrinkJumps DEF IInv, TypeInv

\* The mapping of the record is unmapped only when nothing jumps into it.
LEMMA LandRelease ==
  ASSUME IInv, Release
  PROVE  IInv'
<1> DEFINE k == call.rec
<1>1. TypeInv'
  BY TypeRelease DEF IInv, TypeInv
<1>2. /\ call.pc = "release" /\ Return("ok") /\ mem' = mem
      /\ k \in Slot /\ recs[k].used
      /\ \A a \in DOMAIN recs[k].orig : ~PatchAt(a)
  BY DEF Release, IInv, CallShape, Restored
<1>3. ~recs'[k].used /\ \A i \in Slot \ {k} : recs'[i] = recs[i]
  BY <1>2 DEF Release, Blank, IInv, TypeOK, RecsOK
<1>4. /\ recs[k].refs \in {1, 2} /\ recs[k].map \in MapId
      /\ IF recs[k].refs = 1 THEN Munmap(recs[k].map) ELSE maps' = maps
  BY <1>2 DEF Release, DropRef, IInv, SoleOwner
<1>5. \A m \in MapId :
        \/ maps'[m] = maps[m]
        \/ /\ m = recs[k].map /\ recs[k].refs = 1
           /\ maps'[m].guard.disp = {} /\ maps'[m].entry.disp = {}
  BY <1>4 DEF Munmap, Unmapped, NewMapping, Empty, IInv, TypeOK, MapsOK
<1>6. recs[k].refs = 1 =>
        /\ \A a \in Addr : PatchAt(a) => mem[a].map # recs[k].map
        /\ \A i \in Slot \ {k} : recs[i].used /\ recs[i].refs = 1 => recs[i].map # recs[k].map
  BY <1>2 DEF IInv, SoleOwner
<1>7. SavedClean'
  BY <1>3, <1>5, <1>2, ReturnShape DEF IInv, SavedClean
<1>8. Owned'
  <2>1. ASSUME NEW a \in Addr, PatchAt(a)
        PROVE  WellPlaced(a)' /\ Recorded(a)'
    <3>1. WellPlaced(a) /\ Recorded(a)
      BY <1>2, <2>1 DEF IInv, Owned, InCall, Pending
    <3>2. \E j \in Slot : /\ recs'[j].used /\ recs'[j].addr = mem[a].at
                          /\ recs'[j].map = mem[a].map
                          /\ a \in DOMAIN recs'[j].orig
                          /\ mem[a].part = "entry" => recs'[j].refs = 2
      BY <1>2, <1>3, <2>1, <3>1 DEF Recorded
    <3> QED
      BY <1>2, <3>1, <3>2 DEF WellPlaced, Recorded
  <2> QED
    BY <1>2, <2>1 DEF Owned, PatchAt
<1>9. SoleOwner'
  BY <1>2, <1>3, <1>5, <1>6 DEF IInv, SoleOwner, PatchAt
<1>10. Landing'
  BY <1>2, <1>5, <1>6 DEF IInv, Landing, Lands, Owned, WellPlaced, PatchAt
<1> QED
  BY <1>1, <1>2, <1>7, <1>8, <1>9, <1>10, ReturnShape DEF IInv, TypeInv

(***************************************************************************)
(* The invariant, and what it means for jumps.                             *)
(***************************************************************************)
LEMMA LandInit == Init => IInv
<1> SUFFICES ASSUME Init PROVE IInv
  OBVIOUS
<1>1. TypeInv
  BY TypeInit
<1>2. /\ call.pc = "idle" /\ \A s \in Part : call.plan[s] = NoPlan
      /\ \A i \in Slot : ~recs[i].used
  BY DEF Init, Idle, Enter, Blank
<1>3. \A m \in MapId : maps[m].guard.disp = {} /\ maps[m].entry.disp = {}
  BY DEF Init, Unmapped, NewMapping, Empty
<1>4. \A a \in Addr : ~PatchAt(a)
  BY HookedCodeType DEF Init, PatchAt
<1>5. Clean(NoPlan.orig) /\ Clean(NoPlan.fixes)
  BY DEF Clean, NoPlan, Nothing
<1>6. NotYetGuarded /\ SavedClean /\ CallMapping /\ SoleOwner /\ Restored
  BY <1>2, <1>3, <1>5 DEF NotYetGuarded, SavedClean, CallMapping, SoleOwner, Restored, Mapped
<1>7. Owned /\ Landing
  BY <1>4 DEF Owned, Landing, Lands, PatchAt
<1> QED
  BY <1>1, <1>6, <1>7 DEF IInv, TypeInv

\* Nothing but the result or the protection of a page changes.
LEMMA LandStutter ==
  ASSUME IInv, UNCHANGED <<mem, maps, recs, call>>, TypeInv'
  PROVE  IInv'
<1>1. Fresh' = Fresh /\ Current' = Current
  BY DEF Fresh, Current
<1>2. NotYetGuarded' /\ SavedClean' /\ CallMapping' /\ SoleOwner' /\ Restored' /\ Landing'
  BY <1>1 DEF IInv, NotYetGuarded, SavedClean, CallMapping, SoleOwner, Restored, Landing,
     SnapshotRecs, PatchAt, Lands
<1>3. Owned'
  BY <1>1 DEF IInv, Owned, PatchAt, WellPlaced, Recorded, InCall
<1> QED
  BY <1>2, <1>3 DEF IInv, TypeInv

LEMMA LandNext ==
  ASSUME Discipline, IInv, TableHasRoom, [Next]_vars
  PROVE  IInv'
<1>1. TypeInv'
  BY TypeNext DEF IInv, TypeInv
<1>2. CASE \E r \in Requests : GuardBlock(r) \/ GuardBlockSnap(r)
  BY <1>2, LandGuardBlock
<1>3. CASE \E i \in Slot : Unpatch(i)
  BY <1>3, LandUnpatch
<1>4. CASE Reject \/ (\E p \in Resets : ResetPage(p)) \/ UNCHANGED vars
  BY <1>1, <1>4, LandStutter DEF Reject, ResetPage, vars
<1>5. CASE Install
  <2>1. CASE \E m \in MapId : MapTrampoline(m)
    BY <2>1, LandMapTrampoline
  <2>2. CASE MapFails
    BY <1>1, <2>2, LandReturn DEF MapFails, Pending
  <2>3. CASE PlanFails \/ Unmap
    BY <2>3, LandUnmap
  <2>4. CASE PlanGuard \/ PlanEntry
    BY <2>4, LandPlanGuard, LandPlanEntry
  <2>5. CASE Apply \/ ApplyRefused \/ FixRefused
    BY <2>5, LandApply, LandRefused
  <2>6. CASE Fix
    BY <2>6, LandFix
  <2>7. CASE Register
    BY <2>7, LandRegister
  <2>8. CASE RegisterFails
    BY <2>8 DEF RegisterFails, TableHasRoom
  <2>9. CASE Undo \/ UndoEntry \/ UndoUnplannedEntry
    BY <2>9, LandUndo, LandUndoEntry
  <2> QED
    BY <1>5, <2>1, <2>2, <2>3, <2>4, <2>5, <2>6, <2>7, <2>8, <2>9 DEF Install
<1>6. CASE Uninstall
  <2>1. CASE Unfix \/ Restore \/ Release
    BY <2>1, LandFix, LandRestore, LandRelease
  <2>2. CASE UnpatchRefused
    BY <1>1, <2>2, LandReturn DEF UnpatchRefused, Pending
  <2> QED
    BY <1>6, <2>1, <2>2 DEF Uninstall
<1> QED
  BY <1>2, <1>3, <1>4, <1>5, <1>6 DEF Next

\* At no moment of a call or between calls does a patch word in the code, or a
\* word a trampoline replays, jump into an unmapped trampoline: apply_bytes
\* comes before munmap on every way in and out of apply_plan and instr_unpatch
\* (instr.c 298-372, 635-660), whatever write is refused.  It takes clients
\* that keep blocks apart, guard none twice and leave room in the table.
THEOREM JumpsLand ==
  ASSUME Discipline
  PROVE  Spec /\ []TableHasRoom => []NoDanglingJump
<1>1. IInv /\ TableHasRoom /\ [Next]_vars => IInv'
  BY LandNext
<1>2. IInv => NoDanglingJump
  BY DEF IInv, NoDanglingJump, Landing, SavedClean, Lands
<1> QED
  BY <1>1, <1>2, LandInit, PTL DEF Spec

\* Under the same discipline each patch word in the code stays owned by a record or
\* by the call in progress, what would be written back is never a patch, and
\* a mapping that will be released is jumped to by nobody else (instr.c 298-372,
\* 635-660).
THEOREM WordsOwned ==
  ASSUME Discipline
  PROVE  Spec /\ []TableHasRoom => []IInv
<1>1. IInv /\ TableHasRoom /\ [Next]_vars => IInv'
  BY LandNext
<1> QED
  BY <1>1, LandInit, PTL DEF Spec
=============================================================================
