------------------------ MODULE PatchMappings_proofs ------------------------
(***************************************************************************)
(* What becomes of the trampoline mappings: none is lost when clients ask  *)
(* for data-flow guards only, and the snapshot that a guard reads stays    *)
(* mapped when the system refuses no write.                                *)
(***************************************************************************)
EXTENDS PatchEngine_proofs

BlockOnly == \A r \in Requests : r.mode = "block"

\* No rollback reaches an entry: either none is patched, or no write is refused.
NoEntryRollback == Faulty = {} \/ BlockOnly

(***************************************************************************)
(* The inductive invariant.                                                *)
(***************************************************************************)
\* A jump in the code, or among the words that may be written back, names a mapping.
JumpMaps(p) == \A a \in DOMAIN p : p[a].kind = "patch" => p[a].map \in MapId
WordsMapped ==
  /\ JumpMaps(mem)
  /\ \A i \in Slot : JumpMaps(recs[i].orig) /\ JumpMaps(recs[i].fixes)
  /\ \A s \in Part : JumpMaps(call.plan[s].orig) /\ JumpMaps(call.plan[s].fixes)

\* A record's mapping has as many pages as the record counts sharers, and
\* one page belongs to one record.
PagesCounted ==
  /\ \A i \in Slot : recs[i].used =>
       /\ recs[i].map \in MapId /\ recs[i].refs \in {1, 2}
       /\ maps[recs[i].map].pages = recs[i].refs
  /\ \A i, j \in Slot : /\ recs[i].used /\ recs[i].refs = 1
                        /\ recs[j].used /\ recs[j].refs = 1
                        /\ recs[i].map = recs[j].map
                        => i = j

\* The mapping of the call in progress is in no record until the entry is.
EntryIn == Fresh /\ call.stage = "guard" /\ call.pc \in {"apply", "fix"}
Unregistered == call.pc \in Mapped /\ ~EntryIn
CallPages ==
  /\ call.pc \in Mapped => maps[call.map].pages = IF Fresh THEN 2 ELSE 1
  /\ Unregistered => \A i \in Slot : recs[i].used => recs[i].map # call.map
  /\ call.pc \in Mapped \cup {"map"} /\ call.snap # NoMap =>
       maps[call.snap].pages = 2 /\ (call.pc \in Mapped => call.snap # call.map)
  /\ call.pc # "undo_entry"
  /\ call.pc = "undo" => BlockOnly

\* The snapshot a guard trampoline reads is mapped, and is not the one a call
\* may yet give up, unless that call's own guard reads it.
SnapsRead ==
  \A m \in MapId : LET s == maps[m].guard.snap IN
    s # NoMap => /\ maps[s].pages = 2
                 /\ Unregistered /\ s = call.map => m = call.map

SnapInv == TypeInv /\ WordsMapped /\ PagesCounted /\ CallPages /\ SnapsRead

(***************************************************************************)
(* Words.                                                                  *)
(***************************************************************************)
LEMMA PutMaps ==
  ASSUME NEW code \in [Addr -> Word], NEW p, JumpMaps(code), JumpMaps(p)
  PROVE  JumpMaps(Put(code, p))
BY DEF JumpMaps, Put

LEMMA OrigMaps == \A a \in Addr : Orig(a).kind # "patch"
BY DEF Orig, Plain

LEMMA NoPlanMaps == JumpMaps(NoPlan.orig) /\ JumpMaps(NoPlan.fixes)
BY DEF JumpMaps, NoPlan, Nothing

\* A plan saves words of the code or of the file.
LEMMA MakePlanMaps ==
  ASSUME JumpMaps(mem), mem \in [Addr -> Word],
         NEW a, NEW n, NEW fixes, Region(a, n) \subseteq Addr, fixes \subseteq Addr
  PROVE  JumpMaps(MakePlan(a, n, fixes).orig) /\ JumpMaps(MakePlan(a, n, fixes).fixes)
<1>1. \A x \in Addr : Source[x].kind = "patch" => Source[x].map \in MapId
  BY OrigMaps DEF Source, Pristine, JumpMaps
<1>2. \A x \in Addr : mem[x].kind = "patch" => mem[x].map \in MapId
  BY DEF JumpMaps
<1> QED BY <1>1, <1>2 DEF MakePlan, JumpMaps

\* A call that ends or begins carries no plan.
LEMMA FreshPlan ==
  ASSUME \/ \E res : Return(res)
         \/ \E pc, req, snap, chain, rec, left : call' = Enter(pc, req, snap, chain, rec, left)
  PROVE  \A s \in Part : JumpMaps(call'.plan[s].orig) /\ JumpMaps(call'.plan[s].fixes)
<1>1. \A s \in Part : call'.plan[s] = NoPlan
  BY DEF Return, Idle, Enter
<1> QED BY <1>1, NoPlanMaps

LEMMA ReturnIdle ==
  ASSUME NEW res, Return(res)
  PROVE  call'.pc = "idle"
BY DEF Return, Idle, Enter

\* A step that leaves mappings and registry alone, within a call or out of one.
LEMMA SnapQuiet ==
  ASSUME PagesCounted, CallPages, SnapsRead, UNCHANGED <<maps, recs>>,
         call'.pc \in Mapped \cup {"map"} =>
           /\ call'.pc \in Mapped /\ call.pc \in Mapped
           /\ call'.map = call.map /\ call'.req = call.req /\ call'.snap = call.snap
           /\ Unregistered' => Unregistered,
         call'.pc # "undo_entry", call'.pc = "undo" => BlockOnly
  PROVE  PagesCounted' /\ CallPages' /\ SnapsRead'
<1>1. Unregistered' => Unregistered /\ call'.map = call.map
  BY DEF Unregistered
<1>2. PagesCounted' /\ SnapsRead'
  BY <1>1 DEF PagesCounted, SnapsRead
<1>3. CallPages'
  BY <1>1 DEF CallPages, Fresh
<1> QED BY <1>2, <1>3

\* Writes of words that name mappings.
LEMMA SnapWrite ==
  ASSUME SnapInv, NEW p, JumpMaps(p), mem' = Put(mem, p)
  PROVE  JumpMaps(mem')
BY PutMaps DEF SnapInv, WordsMapped, TypeInv, TypeOK

LEMMA CallFields ==
  ASSUME TypeInv
  PROVE  /\ call \in [pc : Pc, req : Requests \cup {NoReq}, snap : MaybeMap,
                      chain : {0, 1, 3, 4}, map : MaybeMap, stage : Part,
                      plan : {call.plan}, left : SUBSET Addr, rec : 0..MaxRecs]
         /\ call.plan \in [Part -> {call.plan[s] : s \in Part}]
         /\ maps \in [MapId -> Mapping] /\ DOMAIN recs = Slot /\ mem \in [Addr -> Word]
BY DEF TypeInv, TypeOK, CallOK, MapsOK, RecsOK

(***************************************************************************)
(* The steps.                                                              *)
(***************************************************************************)
LEMMA SnapBegin ==
  ASSUME SnapInv, TypeInv', NEW r \in Requests, GuardBlock(r) \/ GuardBlockSnap(r)
  PROVE  SnapInv'
<1>1. PICK snap, chain :
        /\ Begin(r, snap, chain)
        /\ snap # NoMap => maps[snap].pages = 2
  <2>1. CASE GuardBlock(r)
    BY <2>1 DEF GuardBlock
  <2>2. CASE GuardBlockSnap(r) /\ SnapshotRecs(r.fn) # {}
    <3>1. PICK i \in SnapshotRecs(r.fn) : Begin(r, recs[i].map, 0)
      BY <2>2 DEF GuardBlockSnap, Least
    <3>2. maps[recs[i].map].pages = 2
      BY <3>1 DEF SnapshotRecs, SnapInv, PagesCounted
    <3> QED BY <3>1, <3>2
  <2>3. CASE GuardBlockSnap(r) /\ SnapshotRecs(r.fn) = {}
    BY <2>3 DEF GuardBlockSnap
  <2> QED BY <2>1, <2>2, <2>3
<1>2. call' = Enter("map", r, snap, chain, 0, {}) /\ UNCHANGED <<mem, maps, recs>>
  BY <1>1 DEF Begin
<1>3. call'.pc = "map" /\ call'.snap = snap
  BY <1>2 DEF Enter
<1>4. WordsMapped'
  BY <1>2, FreshPlan DEF SnapInv, WordsMapped
<1>5. PagesCounted' /\ SnapsRead' /\ CallPages'
  BY <1>1, <1>2, <1>3 DEF SnapInv, PagesCounted, SnapsRead, CallPages, Unregistered, Mapped
<1> QED BY <1>4, <1>5 DEF SnapInv

\* Calls of instr_unpatch, and returns that leave mappings and registry alone.
LEMMA SnapTurn ==
  ASSUME SnapInv, TypeInv', UNCHANGED <<maps, recs>>, JumpMaps(mem'),
         \/ \E res : Return(res)
         \/ \E i \in Slot : Unpatch(i)
  PROVE  SnapInv'
<1>1. /\ call'.pc \in {"idle", "unfix"}
      /\ \A s \in Part : JumpMaps(call'.plan[s].orig) /\ JumpMaps(call'.plan[s].fixes)
  <2>1. CASE \E res : Return(res)
    BY <2>1, ReturnIdle, FreshPlan
  <2>2. CASE \E i \in Slot : Unpatch(i)
    <3>1. PICK i \in Slot : call' = Enter("unfix", NoReq, NoMap, 0, i, DOMAIN recs[i].fixes)
      BY <2>2 DEF Unpatch
    <3>2. call'.pc = "unfix"
      BY <3>1 DEF Enter
    <3> QED BY <3>1, <3>2, FreshPlan
  <2> QED BY <2>1, <2>2
<1>2. WordsMapped'
  BY <1>1 DEF SnapInv, WordsMapped
<1>3. PagesCounted' /\ SnapsRead' /\ CallPages'
  BY <1>1, SnapQuiet DEF SnapInv, Mapped
<1> QED BY <1>2, <1>3 DEF SnapInv

LEMMA SnapMapTrampoline ==
  ASSUME SnapInv, TypeInv', NEW m \in MapId, MapTrampoline(m)
  PROVE  SnapInv'
<1>1. /\ call.pc = "map" /\ maps[m].pages = 0
      /\ call'.pc = "plan" /\ call'.map = m
      /\ call'.req = call.req /\ call'.snap = call.snap /\ call'.plan = call.plan
      /\ UNCHANGED <<mem, recs>> /\ Fresh' = Fresh
  BY CallFields DEF MapTrampoline, SnapInv, Fresh
<1>2. /\ maps'[m] = NewMapping(IF Fresh THEN 2 ELSE 1)
      /\ \A x : x # m => maps'[x] = maps[x]
  BY CallFields DEF MapTrampoline, SnapInv
<1>3. /\ maps'[m].pages = (IF Fresh THEN 2 ELSE 1) /\ maps'[m].guard.snap = NoMap
  BY <1>2 DEF NewMapping, Empty
<1>4. WordsMapped'
  BY <1>1 DEF SnapInv, WordsMapped
<1>5. \A i \in Slot : recs[i].used => recs[i].map # m
  BY <1>1 DEF SnapInv, PagesCounted
<1>6. PagesCounted'
  BY <1>1, <1>2, <1>5 DEF SnapInv, PagesCounted
<1>7. \A x \in MapId : maps[x].guard.snap # NoMap => maps[x].guard.snap # m
  BY <1>1 DEF SnapInv, SnapsRead
<1>8. SnapsRead'
  <2>1. \A x \in MapId : x # m /\ maps[x].guard.snap # NoMap =>
          maps'[maps[x].guard.snap].pages = 2
    BY <1>2, <1>7 DEF SnapInv, SnapsRead
  <2> QED BY <1>1, <1>2, <1>3, <1>7, <2>1 DEF SnapsRead
<1>9. CallPages'
  <2>1. call.snap # NoMap => maps[call.snap].pages = 2 /\ call.snap # m
    BY <1>1 DEF SnapInv, CallPages
  <2> QED BY <1>1, <1>2, <1>3, <1>5, <2>1 DEF CallPages, Mapped
<1> QED BY <1>4, <1>6, <1>8, <1>9 DEF SnapInv

LEMMA SnapPlanGuard ==
  ASSUME SnapInv, TypeInv', PlanGuard
  PROVE  SnapInv'
<1> DEFINE site  == call.req.start
           n     == GuardLen(call.map)
           fixes == GuardFixups(call.req, n)
           plan  == MakePlan(site, n, fixes)
           snap  == IF Fresh THEN call.map ELSE call.snap
<1>1. /\ call.pc = "plan" /\ call.map \in MapId /\ call.req \in Requests
      /\ Region(site, 4) \subseteq Addr /\ call.stage = "guard"
  BY DEF PlanGuard, SnapInv, TypeInv, CallShape, Mapped
<1>2. Region(site, n) \subseteq Addr /\ fixes \subseteq Addr
  <2>1. site \in Nat /\ n \in 3..4
    BY <1>1, LensOK, EngineAssumption
  <2>2. Region(site, n) \subseteq Region(site, 4)
    BY <2>1 DEF Region
  <2> QED BY <1>1, <2>2, FixupsAddr DEF GuardFixups
<1>3. JumpMaps(plan.orig) /\ JumpMaps(plan.fixes)
  <2> HIDE DEF site, n, fixes
  <2> QED BY <1>2, MakePlanMaps, CallFields DEF SnapInv, WordsMapped
<1> HIDE DEF plan, n, fixes
<1>4. /\ call'.pc = IF Fresh THEN "plan_entry" ELSE "apply"
      /\ call'.plan["guard"] = plan /\ call'.plan["entry"] = call.plan["entry"]
      /\ call'.map = call.map /\ call'.req = call.req /\ call'.snap = call.snap
      /\ call'.stage = "guard" /\ UNCHANGED <<mem, recs>>
  BY <1>1, CallFields DEF PlanGuard, SnapInv, plan, fixes, n, Part
<1>5. Unregistered /\ Unregistered' /\ Fresh' = Fresh
  BY <1>1, <1>4 DEF Unregistered, EntryIn, Fresh, Mapped
<1>6. /\ \A x : maps'[x].pages = maps[x].pages
      /\ maps'[call.map].guard.snap = snap
      /\ \A x : x # call.map => maps'[x] = maps[x]
  <2>1. maps \in [MapId -> Mapping] /\ maps[call.map] \in Mapping
    BY <1>1, CallFields DEF SnapInv
  <2>2. PICK disp : maps' = [maps EXCEPT ![call.map].guard = [disp |-> disp, snap |-> snap]]
    BY DEF PlanGuard
  <2> HIDE DEF snap
  <2>3. /\ maps'[call.map] = [maps[call.map] EXCEPT !.guard = [disp |-> disp, snap |-> snap]]
        /\ \A x : x # call.map => maps'[x] = maps[x]
    BY <1>1, <2>1, <2>2
  <2> QED BY <2>1, <2>3 DEF Mapping
<1>7. PagesCounted'
  BY <1>4, <1>6 DEF SnapInv, PagesCounted
<1>8. snap # NoMap => maps[snap].pages = 2 /\ (snap = call.map \/ (snap = call.snap /\ snap # call.map))
  BY <1>1 DEF SnapInv, CallPages, Mapped
<1> HIDE DEF snap
<1>9. SnapsRead'
  <2> SUFFICES ASSUME NEW x \in MapId, maps'[x].guard.snap # NoMap
               PROVE  /\ maps[maps'[x].guard.snap].pages = 2
                      /\ maps'[x].guard.snap = call.map => x = call.map
    BY <1>4, <1>6 DEF SnapsRead
  <2>1. CASE x = call.map
    BY <1>6, <1>8, <2>1
  <2>2. CASE x # call.map
    BY <1>5, <1>6, <2>2 DEF SnapInv, SnapsRead
  <2> QED BY <2>1, <2>2
<1>10. CallPages'
  BY <1>1, <1>4, <1>5, <1>6 DEF SnapInv, CallPages, Mapped
<1>11. WordsMapped'
  BY <1>3, <1>4 DEF SnapInv, WordsMapped, Part
<1> QED BY <1>7, <1>9, <1>10, <1>11 DEF SnapInv

LEMMA SnapPlanEntry ==
  ASSUME SnapInv, TypeInv', PlanEntry
  PROVE  SnapInv'
<1> DEFINE fn    == call.req.fn
           n     == EntryLen(call.chain, call.map)
           fixes == EntryFixups(call.req, n)
           plan  == MakePlan(fn, n, fixes)
<1>1. /\ call.pc = "plan_entry" /\ call.map \in MapId /\ call.req \in Requests /\ Fresh
      /\ call.stage = "guard"
  BY DEF PlanEntry, SnapInv, TypeInv, CallShape, Mapped
<1>2. Region(fn, n) \subseteq Addr /\ fixes \subseteq Addr
  <2>1. fn \in Fn
    BY <1>1, EngineAssumption DEF Fn
  <2>2. call.chain \in {0, 1, 3, 4}
    BY CallFields DEF SnapInv
  <2>3. n \in 0..4
    BY <1>1, <2>2, LensOK
  <2>4. Region(fn, n) \subseteq Region(fn, 4) /\ Region(fn, 4) \subseteq Addr
    BY <2>1, <2>3, SiteWords
  <2> QED BY <2>4, FixupsAddr DEF EntryFixups
<1>3. JumpMaps(plan.orig) /\ JumpMaps(plan.fixes)
  <2> HIDE DEF fn, n, fixes
  <2> QED BY <1>2, MakePlanMaps, CallFields DEF SnapInv, WordsMapped
<1> HIDE DEF plan, n, fixes
<1>4. /\ call'.pc = "apply" /\ call'.stage = "entry"
      /\ call'.plan["entry"] = plan /\ call'.plan["guard"] = call.plan["guard"]
      /\ call'.map = call.map /\ call'.req = call.req /\ call'.snap = call.snap
      /\ UNCHANGED <<mem, recs>>
  BY <1>1, CallFields DEF PlanEntry, SnapInv, plan, fixes, n, Part
<1>5. Unregistered /\ Unregistered' /\ Fresh'
  BY <1>1, <1>4 DEF Unregistered, EntryIn, Fresh, Mapped
<1>6. /\ \A x : maps'[x].pages = maps[x].pages /\ maps'[x].guard.snap = maps[x].guard.snap
  <2>1. maps[call.map] \in Mapping
    BY <1>1, CallFields DEF SnapInv
  <2> QED BY <1>1, <2>1, CallFields DEF PlanEntry, SnapInv, Mapping
<1>7. PagesCounted'
  BY <1>4, <1>6 DEF SnapInv, PagesCounted
<1>8. SnapsRead'
  BY <1>4, <1>5, <1>6 DEF SnapInv, SnapsRead
<1>9. CallPages'
  BY <1>1, <1>4, <1>5, <1>6 DEF SnapInv, CallPages, Mapped
<1>10. WordsMapped'
  BY <1>3, <1>4 DEF SnapInv, WordsMapped, Part
<1> QED BY <1>7, <1>8, <1>9, <1>10 DEF SnapInv

\* Giving a mapping back that no record names.
LEMMA SnapUnmap ==
  ASSUME SnapInv, TypeInv', PlanFails \/ Unmap
  PROVE  SnapInv'
<1>1. /\ Unregistered /\ Munmap(call.map) /\ Return("error") /\ UNCHANGED <<mem, recs>>
  BY DEF PlanFails, Unmap, Unregistered, EntryIn, Mapped
<1>2. \A x \in MapId : x # call.map => maps'[x] = maps[x]
  BY <1>1, CallFields DEF Munmap, SnapInv
<1>3. maps'[call.map].guard.snap = NoMap \/ call.map \notin MapId
  BY <1>1, CallFields DEF Munmap, SnapInv, Unmapped, NewMapping, Empty
<1>4. PagesCounted'
  BY <1>1, <1>2 DEF SnapInv, PagesCounted, CallPages
<1>5. WordsMapped'
  BY <1>1, FreshPlan DEF SnapInv, WordsMapped
<1>6. call'.pc = "idle"
  BY <1>1, ReturnIdle
<1>7. \A x \in MapId : maps'[x].guard.snap # NoMap =>
        /\ x # call.map /\ maps'[x].guard.snap = maps[x].guard.snap
        /\ maps[x].guard.snap # call.map /\ maps[maps[x].guard.snap].pages = 2
  BY <1>1, <1>2, <1>3 DEF SnapInv, SnapsRead
<1>8. \A s : s # call.map => maps'[s] = maps[s]
  BY <1>1, CallFields DEF Munmap, SnapInv
<1>9. SnapsRead'
  BY <1>6, <1>7, <1>8 DEF SnapsRead, Unregistered, Mapped
<1>10. CallPages'
  BY <1>6 DEF CallPages, Unregistered, Mapped
<1> QED BY <1>4, <1>5, <1>9, <1>10 DEF SnapInv

\* The patch, and each branch redirected to it or given back.
LEMMA SnapApply ==
  ASSUME SnapInv, TypeInv', Apply
  PROVE  SnapInv'
<1>1. /\ call.pc = "apply" /\ call.map \in MapId /\ UNCHANGED <<maps, recs>>
  BY DEF Apply, SnapInv, TypeInv, CallShape, Mapped
<1>2. JumpMaps([a \in DOMAIN Current.orig |->
                  Patch(Current.addr, Current.len, call.map, call.stage)])
  BY <1>1 DEF JumpMaps, Patch
<1>3. JumpMaps(mem')
  BY <1>2, SnapWrite DEF Apply, ApplyBytes
<1>4. /\ call'.pc = "fix" /\ call'.map = call.map /\ call'.req = call.req
      /\ call'.snap = call.snap /\ call'.stage = call.stage /\ call'.plan = call.plan
  BY CallFields DEF Apply, SnapInv
<1>5. WordsMapped'
  BY <1>1, <1>3, <1>4 DEF SnapInv, WordsMapped
<1>6. Unregistered' => Unregistered
  BY <1>1, <1>4 DEF Unregistered, EntryIn, Fresh, Mapped
<1>7. PagesCounted' /\ SnapsRead' /\ CallPages'
  BY <1>1, <1>4, <1>6, SnapQuiet DEF SnapInv, Mapped
<1> QED BY <1>5, <1>7 DEF SnapInv

LEMMA SnapFix ==
  ASSUME SnapInv, TypeInv', Fix \/ Unfix
  PROVE  SnapInv'
<1>1. /\ call.pc \in {"fix", "unfix"} /\ UNCHANGED <<maps, recs>>
  BY DEF Fix, Unfix
<1>2. JumpMaps(mem')
  <2>1. CASE Fix
    <3>1. PICK f : mem' = Put(mem, [a \in {f} |-> Branch(Current.addr)])
      BY <2>1 DEF Fix, ApplyBytes
    <3>2. JumpMaps([a \in {f} |-> Branch(Current.addr)])
      BY DEF JumpMaps, Branch, Plain
    <3> QED BY <3>1, <3>2, SnapWrite
  <2>2. CASE Unfix
    <3>1. PICK f \in call.left : mem' = Put(mem, [a \in {f} |-> recs[call.rec].fixes[f]])
      BY <2>2 DEF Unfix, ApplyBytes
    <3>2. call.rec \in Slot /\ f \in DOMAIN recs[call.rec].fixes
      BY <2>2 DEF Unfix, SnapInv, TypeInv, CallShape
    <3>3. JumpMaps([a \in {f} |-> recs[call.rec].fixes[f]])
      BY <3>2 DEF JumpMaps, SnapInv, WordsMapped
    <3> QED BY <3>1, <3>3, SnapWrite
  <2> QED BY <2>1, <2>2
<1>3. PICK left : call' = [call EXCEPT !.left = left]
  BY DEF Fix, Unfix
<1>4. /\ call'.pc = call.pc /\ call'.map = call.map /\ call'.req = call.req
      /\ call'.snap = call.snap /\ call'.stage = call.stage /\ call'.plan = call.plan
  BY <1>3, CallFields DEF SnapInv
<1>5. WordsMapped'
  BY <1>1, <1>2, <1>4 DEF SnapInv, WordsMapped
<1>6. Unregistered' => Unregistered
  BY <1>4 DEF Unregistered, EntryIn, Fresh
<1>7. PagesCounted' /\ SnapsRead' /\ CallPages'
  BY <1>1, <1>4, <1>6, SnapQuiet DEF SnapInv, Mapped
<1> QED BY <1>5, <1>7 DEF SnapInv

\* A refusal, and the rollback: no entry is involved.
LEMMA SnapRefused ==
  ASSUME SnapInv, TypeInv', NoEntryRollback, ApplyRefused \/ FixRefused \/ Undo
  PROVE  SnapInv'
<1>1. BlockOnly
  <2>1. CASE ApplyRefused \/ FixRefused
    BY <2>1 DEF ApplyRefused, FixRefused, Refused, NoEntryRollback
  <2>2. CASE Undo
    BY <2>2 DEF Undo, SnapInv, CallPages
  <2> QED BY <2>1, <2>2
<1>2. call.pc \in {"apply", "fix", "undo"} /\ call.req \in Requests /\ UNCHANGED <<maps, recs>>
  BY DEF ApplyRefused, FixRefused, Undo, SnapInv, TypeInv, CallShape, Mapped
<1>3. call.req.mode # "snap" /\ ~Fresh /\ AfterUndo = "unmap"
  BY <1>1, <1>2 DEF BlockOnly, Fresh, AfterUndo
<1>4. /\ call'.pc \in {"unmap", "undo"} /\ call'.map = call.map /\ call'.req = call.req
      /\ call'.snap = call.snap /\ call'.stage = call.stage /\ call'.plan = call.plan
  BY <1>3, CallFields DEF ApplyRefused, FixRefused, Undo, SnapInv
<1>5. JumpMaps(mem')
  <2>1. CASE ApplyRefused \/ FixRefused
    BY <2>1 DEF ApplyRefused, FixRefused, SnapInv, WordsMapped
  <2>2. CASE Undo
    <3>1. mem' = Put(Put(mem, Done(Current)), Current.orig)
      BY <2>2 DEF Undo, RolledBack
    <3>2. JumpMaps(Current.orig) /\ JumpMaps(Current.fixes)
      BY <1>2, CallFields DEF Current, SnapInv, WordsMapped
    <3>3. JumpMaps(Done(Current))
      BY <3>2 DEF Done, JumpMaps
    <3>4. mem \in [Addr -> Word] /\ IsSaved(Current.orig) /\ IsSaved(Current.fixes)
      BY <2>2, CurrentPlan DEF Undo, Planned, SnapInv, TypeInv, TypeOK, IsPlan
    <3>5. Put(mem, Done(Current)) \in [Addr -> Word]
      BY <3>4, PutType DEF Done, IsSaved
    <3>6. JumpMaps(Put(mem, Done(Current)))
      BY <3>3, <3>4, PutMaps DEF SnapInv, WordsMapped
    <3> QED BY <3>1, <3>2, <3>5, <3>6, PutMaps
  <2> QED BY <2>1, <2>2
<1>6. WordsMapped'
  BY <1>2, <1>4, <1>5 DEF SnapInv, WordsMapped
<1>7. Unregistered
  BY <1>2, <1>3 DEF Unregistered, EntryIn, Mapped
<1>8. PagesCounted' /\ SnapsRead' /\ CallPages'
  BY <1>1, <1>2, <1>4, <1>7, SnapQuiet DEF SnapInv, Mapped
<1> QED BY <1>6, <1>8 DEF SnapInv

\* The entry's record, then the guard's, or the guard's alone.
LEMMA SnapRegister ==
  ASSUME SnapInv, TypeInv', Register
  PROVE  SnapInv'
<1>1. /\ call.pc = "fix" /\ call.map \in MapId /\ UNCHANGED <<mem, maps>>
      /\ call.stage \in Part /\ (call.stage = "entry" => Fresh)
  BY CallFields DEF Register, SnapInv, TypeInv, CallShape, Mapped, Planned
<1>2. PICK i \in Slot :
        /\ ~recs[i].used
        /\ recs' = [recs EXCEPT ![i] =
             [used |-> TRUE, addr |-> Current.addr, orig |-> Current.orig,
              fixes |-> Current.fixes, map |-> call.map,
              refs |-> IF Fresh THEN 2 ELSE 1]]
  BY DEF Register, Least
<1>3. /\ recs'[i].used /\ recs'[i].map = call.map /\ recs'[i].refs = IF Fresh THEN 2 ELSE 1
      /\ recs'[i].orig = Current.orig /\ recs'[i].fixes = Current.fixes
      /\ \A j \in Slot : j # i => recs'[j] = recs[j]
  BY <1>2, CallFields DEF SnapInv
<1>4. JumpMaps(Current.orig) /\ JumpMaps(Current.fixes)
  BY <1>1 DEF SnapInv, WordsMapped, Current
<1>5. /\ maps[call.map].pages = IF Fresh THEN 2 ELSE 1
      /\ ~Fresh => \A j \in Slot : recs[j].used => recs[j].map # call.map
  BY <1>1 DEF SnapInv, CallPages, Unregistered, EntryIn, Mapped
<1>6. PagesCounted'
  <2>1. \A j \in Slot : recs'[j].used =>
          /\ recs'[j].map \in MapId /\ recs'[j].refs \in {1, 2}
          /\ maps[recs'[j].map].pages = recs'[j].refs
    BY <1>1, <1>3, <1>5 DEF SnapInv, PagesCounted
  <2>2. ASSUME NEW j \in Slot, NEW k \in Slot,
               recs'[j].used, recs'[j].refs = 1, recs'[k].used, recs'[k].refs = 1,
               recs'[j].map = recs'[k].map
        PROVE  j = k
    <3>1. CASE j = i \/ k = i
      BY <1>3, <1>5, <2>2, <3>1
    <3>2. CASE j # i /\ k # i
      BY <1>3, <2>2, <3>2 DEF SnapInv, PagesCounted
    <3> QED BY <3>1, <3>2
  <2> QED BY <1>1, <2>1, <2>2 DEF PagesCounted
<1>7. /\ ~Unregistered'
      /\ call'.pc = "idle" \/ (/\ call'.pc = "apply" /\ Fresh /\ Fresh' /\ call'.snap = NoMap
                               /\ call'.map = call.map)
      /\ \A s \in Part : JumpMaps(call'.plan[s].orig) /\ JumpMaps(call'.plan[s].fixes)
  <2>1. CASE call.stage = "entry"
    <3>1. /\ call'.pc = "apply" /\ call'.stage = "guard" /\ call'.map = call.map
          /\ call'.plan = call.plan /\ call'.req = call.req /\ call'.snap = call.snap
      BY <2>1, CallFields DEF Register, SnapInv
    <3> QED BY <1>1, <2>1, <3>1 DEF Unregistered, EntryIn, Fresh, SnapInv, WordsMapped
  <2>2. CASE call.stage # "entry"
    <3>1. Return("ok")
      BY <2>2 DEF Register
    <3> QED BY <3>1, ReturnIdle, FreshPlan DEF Unregistered, Mapped
  <2> QED BY <2>1, <2>2
<1>8. WordsMapped'
  BY <1>1, <1>3, <1>4, <1>7 DEF SnapInv, WordsMapped
<1>9. SnapsRead'
  BY <1>1, <1>7 DEF SnapInv, SnapsRead
<1>10. CallPages'
  BY <1>1, <1>5, <1>7 DEF CallPages, Fresh, Mapped
<1> QED BY <1>6, <1>8, <1>9, <1>10 DEF SnapInv

LEMMA SnapRegisterFails ==
  ASSUME SnapInv, TypeInv', RegisterFails
  PROVE  SnapInv'
<1>1. /\ call.pc = "fix" /\ UNCHANGED <<mem, maps, recs>>
  BY DEF RegisterFails
<1>2. CASE call.stage = "entry"
  <2>1. /\ call'.pc = "unmap" /\ call'.stage = call.stage /\ call'.map = call.map
        /\ call'.plan = call.plan /\ call'.req = call.req /\ call'.snap = call.snap
    BY <1>2, CallFields DEF RegisterFails, SnapInv
  <2>2. Unregistered
    BY <1>1, <1>2 DEF Unregistered, EntryIn, Mapped
  <2>3. PagesCounted' /\ SnapsRead' /\ CallPages'
    BY <1>1, <2>1, <2>2, SnapQuiet DEF SnapInv, Mapped
  <2>4. WordsMapped'
    BY <1>1, <2>1 DEF SnapInv, WordsMapped
  <2> QED BY <2>3, <2>4 DEF SnapInv
<1>3. CASE call.stage # "entry"
  BY <1>1, <1>3, SnapTurn DEF RegisterFails, SnapInv, WordsMapped
<1> QED BY <1>2, <1>3

LEMMA SnapRestore ==
  ASSUME SnapInv, TypeInv', Restore
  PROVE  SnapInv'
<1>1. /\ call.rec \in Slot /\ UNCHANGED <<maps, recs>> /\ mem' = Put(mem, recs[call.rec].orig)
  BY DEF Restore, ApplyBytes, SnapInv, TypeInv, CallShape
<1>2. JumpMaps(mem')
  BY <1>1, SnapWrite DEF SnapInv, WordsMapped
<1>3. call'.pc = "release" /\ call'.plan = call.plan
  BY CallFields DEF Restore, SnapInv
<1>4. WordsMapped'
  BY <1>1, <1>2, <1>3 DEF SnapInv, WordsMapped
<1>5. PagesCounted' /\ SnapsRead' /\ CallPages'
  BY <1>1, <1>3, SnapQuiet DEF SnapInv, Mapped
<1> QED BY <1>4, <1>5 DEF SnapInv

\* A count that reaches zero is that of a mapping of one page, which no guard
\* reads a snapshot from.
LEMMA SnapRelease ==
  ASSUME SnapInv, TypeInv', Release
  PROVE  SnapInv'
<1> DEFINE k == call.rec
<1>1. /\ k \in Slot /\ recs[k].used /\ Return("ok") /\ UNCHANGED mem
  BY DEF Release, SnapInv, TypeInv, CallShape
<1>2. /\ ~recs'[k].used /\ recs'[k].orig = Nothing /\ recs'[k].fixes = Nothing
      /\ \A i \in Slot : i # k => recs'[i] = recs[i]
  BY <1>1, CallFields DEF Release, SnapInv, Blank
<1>3. call'.pc = "idle" /\ ~Unregistered'
  BY <1>1, ReturnIdle DEF Unregistered, Mapped
<1>4. /\ recs[k].map \in MapId /\ recs[k].refs \in {1, 2}
      /\ maps[recs[k].map].pages = recs[k].refs
  BY <1>1 DEF SnapInv, PagesCounted
<1>5. IF recs[k].refs = 1 THEN Munmap(recs[k].map) ELSE maps' = maps
  BY <1>4 DEF Release, DropRef
<1>6. WordsMapped'
  <2>1. JumpMaps(Nothing)
    BY DEF JumpMaps, Nothing
  <2> QED BY <1>1, <1>2, <2>1, FreshPlan DEF SnapInv, WordsMapped
<1>7. PagesCounted' /\ SnapsRead'
  <2>1. CASE recs[k].refs = 2
    BY <1>2, <1>3, <1>5, <2>1 DEF SnapInv, PagesCounted, SnapsRead
  <2>2. CASE recs[k].refs = 1
    <3> DEFINE m == recs[k].map
    <3>1. /\ maps' = [maps EXCEPT ![m] = Unmapped]
      BY <1>5, <2>2 DEF Munmap
    <3>2. /\ \A x : x # m => maps'[x] = maps[x]
          /\ maps'[m].guard.snap = NoMap
      BY <1>4, <3>1, CallFields DEF SnapInv, Unmapped, NewMapping, Empty
    <3>3. maps[m].pages = 1
      BY <1>4, <2>2
    <3>4. \A i \in Slot : i # k /\ recs[i].used => recs[i].map # m
      BY <1>1, <2>2, <3>3 DEF SnapInv, PagesCounted
    <3>5. PagesCounted'
      BY <1>2, <3>2, <3>4 DEF SnapInv, PagesCounted
    <3>6. SnapsRead'
      <4>1. \A x \in MapId : maps'[x].guard.snap # NoMap =>
              /\ maps'[x].guard.snap = maps[x].guard.snap
              /\ maps[maps[x].guard.snap].pages = 2
        BY <3>2 DEF SnapInv, SnapsRead
      <4> QED BY <1>3, <3>2, <3>3, <4>1 DEF SnapsRead
    <3> QED BY <3>5, <3>6
  <2> QED BY <1>4, <2>1, <2>2
<1>8. CallPages'
  BY <1>3 DEF CallPages, Mapped
<1> QED BY <1>6, <1>7, <1>8 DEF SnapInv

LEMMA SnapInit == Init => SnapInv
<1> SUFFICES ASSUME Init PROVE SnapInv
  OBVIOUS
<1>1. JumpMaps(mem)
  BY HookedCodeType DEF Init, JumpMaps
<1>2. \A s \in Part : call.plan[s] = NoPlan
  BY DEF Init, Idle, Enter
<1>3. WordsMapped
  BY <1>1, <1>2, NoPlanMaps DEF Init, WordsMapped, Blank, JumpMaps, Nothing
<1>4. call.pc = "idle"
  BY DEF Init, Idle, Enter
<1>5. PagesCounted /\ CallPages /\ SnapsRead
  BY <1>4 DEF Init, PagesCounted, CallPages, SnapsRead, Mapped, Unregistered, Blank,
     Unmapped, NewMapping, Empty
<1> QED BY <1>3, <1>5, TypeInit DEF SnapInv

LEMMA SnapStutter ==
  ASSUME SnapInv, TypeInv', UNCHANGED <<mem, maps, recs, call>>
  PROVE  SnapInv'
<1>1. (Unregistered' <=> Unregistered) /\ Fresh' = Fresh
  BY DEF Unregistered, EntryIn, Fresh
<1>2. WordsMapped' /\ PagesCounted' /\ SnapsRead' /\ CallPages'
  BY <1>1 DEF SnapInv, WordsMapped, PagesCounted, SnapsRead, CallPages
<1> QED BY <1>2 DEF SnapInv

LEMMA SnapNext ==
  ASSUME SnapInv, NoEntryRollback, [Next]_vars
  PROVE  SnapInv'
<1>1. TypeInv'
  BY TypeNext DEF SnapInv
<1>2. CASE \E r \in Requests : GuardBlock(r) \/ GuardBlockSnap(r)
  BY <1>1, <1>2, SnapBegin
<1>3. CASE (\E i \in Slot : Unpatch(i)) \/ MapFails \/ UnpatchRefused
  <2>1. UNCHANGED <<mem, maps, recs>>
    BY <1>3 DEF Unpatch, MapFails, UnpatchRefused
  <2>2. JumpMaps(mem')
    BY <2>1 DEF SnapInv, WordsMapped
  <2>3. (\E res : Return(res)) \/ \E i \in Slot : Unpatch(i)
    BY <1>3 DEF MapFails, UnpatchRefused
  <2> QED BY <1>1, <2>1, <2>2, <2>3, SnapTurn
<1>4. CASE Reject \/ (\E p \in Resets : ResetPage(p)) \/ UNCHANGED vars
  BY <1>1, <1>4, SnapStutter DEF Reject, ResetPage, vars
<1>5. CASE Install /\ ~MapFails
  <2>1. ~UndoEntry /\ ~UndoUnplannedEntry
    BY DEF UndoEntry, UndoUnplannedEntry, SnapInv, CallPages
  <2> QED
    BY <1>1, <1>5, <2>1, SnapMapTrampoline, SnapPlanGuard, SnapPlanEntry, SnapUnmap,
       SnapApply, SnapFix, SnapRefused, SnapRegister, SnapRegisterFails DEF Install
<1>6. CASE Uninstall /\ ~UnpatchRefused
  BY <1>1, <1>6, SnapFix, SnapRestore, SnapRelease DEF Uninstall
<1> QED BY <1>2, <1>3, <1>4, <1>5, <1>6 DEF Next

LEMMA SnapInvariant ==
  ASSUME NoEntryRollback
  PROVE  Spec => []SnapInv
<1>1. SnapInv /\ [Next]_vars => SnapInv'
  BY SnapNext
<1> QED BY <1>1, SnapInit, PTL DEF Spec

\* The snapshot that a guard in the code reads is mapped for as long as the
\* guard is in the code, whatever the order in which guards that share it are
\* installed and removed (instr.c 262-270, 592-608, 655-658), provided no
\* rollback reaches an entry: each page takes the write, or no call patches an
\* entry.
THEOREM SnapshotStays ==
  ASSUME NoEntryRollback
  PROVE  Spec => []SnapshotMapped
<1>1. SnapInv => SnapshotMapped
  BY DEF SnapInv, WordsMapped, JumpMaps, SnapsRead, SnapshotMapped, SnapshotsRead,
         TypeInv, TypeOK
<1> QED BY <1>1, SnapInvariant, PTL

(***************************************************************************)
(* No mapping is lost.                                                     *)
(***************************************************************************)
Kept(m) == \/ \E i \in Slot : recs[i].used /\ recs[i].map = m
           \/ call.pc \in Mapped /\ call.map = m
LeakInv == /\ SnapInv
           /\ \A i \in Slot : recs[i].used => recs[i].refs = 1
           /\ \A m \in MapId : maps[m].pages > 0 => Kept(m)

\* Without snapshots no call is of the kind that makes one.
LEMMA NeverFresh ==
  ASSUME BlockOnly, TypeInv, call.pc \in Mapped
  PROVE  ~Fresh
BY DEF BlockOnly, TypeInv, CallShape, Fresh

\* A step that takes no mapping, removes no record and stays in its phase.
LEMMA LeakQuiet ==
  ASSUME LeakInv, SnapInv', UNCHANGED recs,
         \A m \in MapId : maps'[m].pages = maps[m].pages,
         call.pc \in Mapped => call'.pc \in Mapped /\ call'.map = call.map
  PROVE  LeakInv'
BY DEF LeakInv, Kept

LEMMA LeakNext ==
  ASSUME LeakInv, BlockOnly, TableHasRoom, [Next]_vars
  PROVE  LeakInv'
<1>1. SnapInv'
  BY SnapNext DEF LeakInv, NoEntryRollback
<1>2. SnapInv /\ TypeInv
  BY DEF LeakInv, SnapInv
<1>3. ASSUME \/ \E r \in Requests : GuardBlock(r) \/ GuardBlockSnap(r)
             \/ \E i \in Slot : Unpatch(i)
             \/ Reject \/ (\E p \in Resets : ResetPage(p)) \/ UNCHANGED vars
             \/ MapFails \/ UnpatchRefused
      PROVE  LeakInv'
  <2>1. UNCHANGED <<maps, recs>> /\ (call.pc \in Mapped => UNCHANGED call)
    BY <1>3 DEF GuardBlock, GuardBlockSnap, Begin, Unpatch, Reject, ResetPage, vars, MapFails,
       UnpatchRefused, Mapped
  <2> QED BY <1>1, <2>1, LeakQuiet
<1>4. ASSUME NEW m \in MapId, MapTrampoline(m)
      PROVE  LeakInv'
  <2>1. /\ call.pc = "map" /\ call'.pc = "plan" /\ call'.map = m /\ UNCHANGED recs
        /\ \A x \in MapId : x # m => maps'[x] = maps[x]
    BY <1>2, <1>4, CallFields DEF MapTrampoline
  <2> QED BY <1>1, <2>1 DEF LeakInv, Kept, Mapped
<1>5. ASSUME PlanGuard
      PROVE  LeakInv'
  <2>1. /\ call'.pc \in Mapped /\ call'.map = call.map /\ UNCHANGED recs
    BY <1>2, <1>5, CallFields DEF PlanGuard, Mapped
  <2>2. PICK g : maps' = [maps EXCEPT ![call.map].guard = g]
    BY <1>5 DEF PlanGuard
  <2>3. \A x \in MapId : maps'[x].pages = maps[x].pages
    BY <1>2, <2>2, CallFields DEF Mapping
  <2> QED BY <1>1, <2>1, <2>3, LeakQuiet
<1>6. ~PlanEntry /\ ~UndoEntry /\ ~UndoUnplannedEntry /\ ~RegisterFails
  <2>1. ~PlanEntry
    BY <1>2, NeverFresh DEF PlanEntry, TypeInv, CallShape, Mapped
  <2> QED BY <1>2, <2>1 DEF UndoEntry, UndoUnplannedEntry, RegisterFails, TableHasRoom,
             SnapInv, CallPages
<1>7. ASSUME PlanFails \/ Unmap
      PROVE  LeakInv'
  <2>1. UNCHANGED recs /\ maps' = [maps EXCEPT ![call.map] = Unmapped]
    BY <1>7 DEF PlanFails, Unmap, Munmap
  <2>2. \A x \in MapId : /\ x # call.map => maps'[x] = maps[x]
                         /\ x = call.map => maps'[x].pages = 0
    BY <1>2, <2>1, CallFields DEF Unmapped, NewMapping
  <2> QED BY <1>1, <2>1, <2>2 DEF LeakInv, Kept
<1>8. ASSUME Apply \/ ApplyRefused \/ Fix \/ FixRefused \/ Undo
      PROVE  LeakInv'
  <2>1. UNCHANGED <<maps, recs>>
    BY <1>8 DEF Apply, ApplyRefused, Fix, FixRefused, Undo
  <2>2. AfterUndo \in Mapped
    BY DEF AfterUndo, Mapped
  <2>3. call'.pc \in Mapped /\ call'.map = call.map
    BY <1>2, <1>8, <2>2, CallFields DEF Apply, ApplyRefused, Fix, FixRefused, Undo, Mapped
  <2> QED BY <1>1, <2>1, <2>3, LeakQuiet
<1>9. ASSUME Register
      PROVE  LeakInv'
  <2>1. call.pc \in Mapped /\ ~Fresh /\ UNCHANGED maps
    BY <1>2, <1>9, NeverFresh DEF Register, Mapped
  <2>2. PICK i \in Slot :
          /\ ~recs[i].used
          /\ recs' = [recs EXCEPT ![i] =
               [used |-> TRUE, addr |-> Current.addr, orig |-> Current.orig,
                fixes |-> Current.fixes, map |-> call.map, refs |-> 1]]
    BY <1>9, <2>1 DEF Register, Least
  <2>3. /\ recs'[i].used /\ recs'[i].map = call.map /\ recs'[i].refs = 1
        /\ \A j \in Slot : j # i => recs'[j] = recs[j]
    BY <1>2, <2>2, CallFields
  <2>4. \A m \in MapId : Kept(m) => \E j \in Slot : recs'[j].used /\ recs'[j].map = m
    BY <2>2, <2>3 DEF Kept
  <2> QED BY <1>1, <2>1, <2>3, <2>4 DEF LeakInv, Kept
<1>10. ASSUME Unfix \/ Restore
       PROVE  LeakInv'
  BY <1>1, <1>10, LeakQuiet DEF Unfix, Restore, Mapped
<1>11. ASSUME Release
       PROVE  LeakInv'
  <2> DEFINE k == call.rec
  <2>1. /\ k \in Slot /\ recs[k].used /\ recs[k].refs = 1 /\ call.pc \notin Mapped
    BY <1>2, <1>11 DEF Release, TypeInv, CallShape, LeakInv, Mapped
  <2>2. maps' = [maps EXCEPT ![recs[k].map] = Unmapped]
    BY <1>11, <2>1 DEF Release, DropRef, Munmap
  <2>3. /\ ~recs'[k].used /\ \A i \in Slot : i # k => recs'[i] = recs[i]
    BY <1>2, <1>11, <2>1, CallFields DEF Release, Blank
  <2>4. \A x \in MapId : /\ x # recs[k].map => maps'[x] = maps[x]
                         /\ x = recs[k].map => maps'[x].pages = 0
    BY <1>2, <2>2, CallFields DEF Unmapped, NewMapping
  <2> QED BY <1>1, <2>1, <2>3, <2>4 DEF LeakInv, Kept
<1> QED BY <1>3, <1>4, <1>5, <1>6, <1>7, <1>8, <1>9, <1>10, <1>11 DEF Next, Install, Uninstall

LEMMA LeakInit == Init => LeakInv
<1>1. Init => \A i \in Slot : ~recs[i].used
  BY DEF Init, Blank
<1>2. Init => \A m \in MapId : maps[m].pages = 0
  BY DEF Init, Unmapped, NewMapping
<1> QED BY <1>1, <1>2, SnapInit DEF LeakInv

\* When clients ask for data-flow guards only, and the table never fills,
\* every path out of a call, failed mapping, failed plan, refused write or
\* removal, accounts for the trampoline it made: between calls each mapping is
\* that of a record (instr.c 298-372, 645-660).
THEOREM MappingsKept ==
  ASSUME BlockOnly
  PROVE  Spec /\ []TableHasRoom => []NoLeak
<1>1. LeakInv /\ TableHasRoom /\ [Next]_vars => LeakInv'
  BY LeakNext
<1>2. LeakInv => NoLeak
  BY DEF LeakInv, Kept, NoLeak, Mapped
<1> QED BY <1>1, <1>2, LeakInit, PTL DEF Spec

(***************************************************************************)
(* A failed call changes nothing.                                          *)
(***************************************************************************)
\* The steps of a guard call at which no word of the code is its own.
Unwritten == \/ call.pc \in {"map", "plan", "plan_entry", "unmap"}
             \/ call.pc = "apply" /\ ~EntryIn

\* What the stage in progress would write back is what the call began with.
SavesBefore ==
  /\ \A a \in DOMAIN Current.orig : Current.orig[a] = before.mem[a]
  /\ \A a \in DOMAIN Current.fixes : Current.fixes[a] = before.mem[a]

HarmInv ==
  /\ SnapInv
  /\ \A m \in MapId : maps[m].pages = 0 => maps[m] = Unmapped
  /\ call.pc = "map" => maps = before.maps
  /\ call.pc \in Mapped =>
       /\ before.maps[call.map] = Unmapped
       /\ \A m \in MapId : m # call.map => maps[m] = before.maps[m]
  /\ Unwritten => mem = before.mem /\ recs = before.recs
  /\ call.pc \in {"apply", "fix", "undo"} /\ call.req.mode = "block" => SavesBefore
  /\ call.pc \in {"fix", "undo"} /\ call.req.mode = "block" =>
       /\ recs = before.recs
       /\ \A a \in Addr : a \notin DOMAIN Current.orig \cup (DOMAIN Current.fixes \ call.left)
                          => mem[a] = before.mem[a]

\* A step of a call that leaves the mappings alone.
LEMMA HarmKeep ==
  ASSUME HarmInv, SnapInv', UNCHANGED <<maps, before>>,
         call.pc \in Mapped, call'.pc \in Mapped, call'.map = call.map,
         Unwritten' => mem' = before.mem /\ recs' = before.recs,
         call'.pc \in {"apply", "fix", "undo"} /\ call'.req.mode = "block" => SavesBefore',
         call'.pc \in {"fix", "undo"} /\ call'.req.mode = "block" =>
           /\ recs' = before.recs
           /\ \A a \in Addr : a \notin DOMAIN Current'.orig \cup (DOMAIN Current'.fixes \ call'.left)
                              => mem'[a] = before.mem[a]
  PROVE  HarmInv'
BY DEF HarmInv, Mapped

\* Outside of an installation only the mappings matter.
LEMMA HarmAway ==
  ASSUME HarmInv, SnapInv', call'.pc \in {"idle", "unfix", "release"},
         \A m \in MapId : maps'[m] = maps[m] \/ maps'[m] = Unmapped
  PROVE  HarmInv'
BY DEF HarmInv, Mapped, Unwritten

LEMMA HarmPlan ==
  ASSUME HarmInv, SnapInv', PlanGuard \/ PlanEntry
  PROVE  HarmInv'
<1>1. SnapInv /\ TypeInv /\ call.map \in MapId /\ call.pc \in {"plan", "plan_entry"}
  BY DEF PlanGuard, PlanEntry, HarmInv, SnapInv, TypeInv, CallShape, Mapped
<1>2. /\ mem = before.mem /\ recs = before.recs /\ UNCHANGED <<mem, recs, before>>
  BY <1>1 DEF PlanGuard, PlanEntry, HarmInv, Unwritten
<1>3. /\ \A x \in MapId : x # call.map => maps'[x] = maps[x]
      /\ maps'[call.map].pages = maps[call.map].pages
  <2>1. CASE PlanGuard
    <3>1. PICK g : maps' = [maps EXCEPT ![call.map].guard = g]
      BY <2>1 DEF PlanGuard
    <3> QED BY <1>1, <3>1, CallFields DEF Mapping
  <2>2. CASE PlanEntry
    <3>1. PICK d : maps' = [maps EXCEPT ![call.map].entry.disp = d]
      BY <2>2 DEF PlanEntry
    <3>2. maps \in [MapId -> Mapping] /\ maps[call.map] \in Mapping
      BY <1>1, CallFields
    <3>3. maps'[call.map].pages = maps[call.map].pages
      BY <1>1, <3>1, <3>2 DEF Mapping
    <3>4. \A x \in MapId : x # call.map => maps'[x] = maps[x]
      BY <3>1, <3>2
    <3> QED BY <3>3, <3>4
  <2> QED BY <2>1, <2>2
<1>4. maps[call.map].pages \in {1, 2}
  BY <1>1 DEF SnapInv, CallPages, Mapped
<1>5. /\ call'.pc \in {"plan_entry", "apply"} /\ call'.map = call.map /\ call'.req = call.req
      /\ PlanEntry => call.req.mode = "snap"
  <2>1. CASE PlanGuard
    <3>1. PICK pc, plan : /\ call' = [call EXCEPT !.pc = pc, !.plan["guard"] = plan]
                          /\ pc \in {"plan_entry", "apply"}
      BY <2>1 DEF PlanGuard
    <3>2. ~PlanEntry
      BY <2>1 DEF PlanGuard, PlanEntry
    <3> QED BY <1>1, <3>1, <3>2, CallFields
  <2>2. CASE PlanEntry
    <3>1. PICK plan : call' = [call EXCEPT !.pc = "apply", !.stage = "entry",
                                           !.plan["entry"] = plan]
      BY <2>2 DEF PlanEntry
    <3>2. Fresh
      BY <1>1, <2>2 DEF PlanEntry, TypeInv, CallShape
    <3> QED BY <1>1, <3>1, <3>2, CallFields DEF Fresh
  <2> QED BY <2>1, <2>2 DEF PlanGuard, PlanEntry
<1>6. ASSUME call'.pc = "apply", call'.req.mode = "block"
      PROVE  SavesBefore'
  <2> DEFINE site  == call.req.start
             n     == GuardLen(call.map)
             fixes == GuardFixups(call.req, n)
             plan  == MakePlan(site, n, fixes)
  <2>1. PlanGuard /\ Source = mem
    BY <1>5, <1>6 DEF Source
  <2>2. /\ \A a \in DOMAIN plan.orig : plan.orig[a] = mem[a]
        /\ \A a \in DOMAIN plan.fixes : plan.fixes[a] = mem[a]
    <3> HIDE DEF site, n, fixes
    <3> QED BY <2>1 DEF MakePlan
  <2> HIDE DEF plan
  <2>3. call.stage = "guard"
    BY <1>1 DEF TypeInv, CallShape
  <2>4. PICK pc : call' = [call EXCEPT !.pc = pc, !.plan["guard"] = plan]
    BY <2>1 DEF PlanGuard, plan
  <2>5. Current' = plan
    BY <1>1, <2>3, <2>4, CallFields DEF Current, Part
  <2> QED BY <1>2, <2>2, <2>5 DEF SavesBefore
<1> QED
  BY <1>1, <1>2, <1>3, <1>4, <1>5, <1>6 DEF HarmInv, Mapped

LEMMA HarmWrite ==
  ASSUME HarmInv, SnapInv', NoEntryRollback,
         Apply \/ Fix \/ ApplyRefused \/ FixRefused \/ Undo
  PROVE  HarmInv'
<1>1. /\ SnapInv /\ TypeInv /\ UNCHANGED <<maps, recs, before>>
      /\ call.pc \in {"apply", "fix", "undo"} /\ call.pc \in Planned
      /\ call.req \in Requests
  BY DEF Apply, Fix, ApplyRefused, FixRefused, Undo, HarmInv, SnapInv, TypeInv, CallShape,
         Planned, Mapped
<1>2. /\ mem \in [Addr -> Word] /\ mem' \in [Addr -> Word] /\ before.mem \in [Addr -> Word]
      /\ IsSaved(Current.orig) /\ IsSaved(Current.fixes)
  BY <1>1, CurrentPlan DEF TypeInv, TypeOK, SnapInv, IsPlan
<1>3. /\ call'.pc = (CASE Apply -> "fix" [] Fix -> "fix" [] ApplyRefused -> AfterUndo
                       [] FixRefused -> "undo" [] OTHER -> AfterUndo)
      /\ call'.map = call.map /\ call'.req = call.req
      /\ call'.stage = call.stage /\ call'.plan = call.plan
      /\ call'.left = (CASE Apply -> DOMAIN Current.fixes [] Undo -> {}
                         [] Fix -> call'.left [] OTHER -> call.left)
  BY <1>1, CallFields DEF Apply, Fix, ApplyRefused, FixRefused, Undo
<1>4. Current' = Current
  BY <1>3 DEF Current
<1>5. ASSUME ApplyRefused \/ FixRefused \/ Undo
      PROVE  call.req.mode = "block" /\ AfterUndo = "unmap" /\ ~EntryIn
  <2>1. BlockOnly
    BY <1>1, <1>5 DEF ApplyRefused, FixRefused, Undo, Refused, NoEntryRollback, SnapInv, CallPages
  <2> QED BY <1>1, <2>1 DEF BlockOnly, AfterUndo, EntryIn, Fresh
<1>6. call.req.mode = "block" => SavesBefore /\ SavesBefore'
  BY <1>1, <1>4 DEF HarmInv, SavesBefore
<1>7. call.req.mode = "block" /\ call.pc = "apply" => mem = before.mem /\ recs = before.recs
  BY DEF HarmInv, Unwritten, EntryIn, Fresh
<1>8. CASE Apply
  <2>1. mem' = Put(mem, [a \in DOMAIN Current.orig |->
                           Patch(Current.addr, Current.len, call.map, call.stage)])
    BY <1>8 DEF Apply, ApplyBytes
  <2>2. \A a \in Addr : a \notin DOMAIN Current.orig => mem'[a] = mem[a]
    BY <2>1 DEF Put
  <2>3. call'.pc = "fix" /\ call.pc = "apply"
    BY <1>8, <1>3 DEF Apply
  <2> QED BY <1>1, <1>3, <1>4, <1>6, <1>7, <2>2, <2>3, HarmKeep DEF Unwritten, Mapped
<1>9. CASE Fix
  <2>1. PICK f \in call.left : /\ mem' = Put(mem, [a \in {f} |-> Branch(Current.addr)])
                               /\ call' = [call EXCEPT !.left = call.left \ {f}]
    BY <1>9 DEF Fix, ApplyBytes, Written
  <2>2. \A a \in Addr : a # f => mem'[a] = mem[a]
    BY <2>1 DEF Put
  <2>3. /\ call'.left = call.left \ {f} /\ call.pc = "fix" /\ call'.pc = "fix"
        /\ f \in DOMAIN Current.fixes
    BY <1>1, <1>9, <2>1, CallFields DEF Fix, TypeInv, CallShape, Pending
  <2>4. call.req.mode = "block" =>
          \A a \in Addr : a \notin DOMAIN Current.orig \cup (DOMAIN Current.fixes \ call'.left)
                          => mem'[a] = before.mem[a]
    BY <2>2, <2>3 DEF HarmInv
  <2>5. call.req.mode = "block" => recs = before.recs
    BY <2>3 DEF HarmInv
  <2> QED BY <1>1, <1>3, <1>4, <1>6, <2>3, <2>4, <2>5, HarmKeep DEF Unwritten, Mapped
<1>10. CASE ApplyRefused
  <2>1. call.pc = "apply" /\ call'.pc = "unmap" /\ mem' = mem
    BY <1>5, <1>10, CallFields, <1>1 DEF ApplyRefused
  <2> QED BY <1>1, <1>3, <1>5, <1>7, <1>10, <2>1, HarmKeep DEF Mapped
<1>11. CASE FixRefused
  <2>1. call.pc = "fix" /\ call'.pc = "undo" /\ mem' = mem /\ call'.left = call.left
    BY <1>11, CallFields, <1>1 DEF FixRefused
  <2> QED BY <1>1, <1>3, <1>4, <1>5, <1>6, <1>11, <2>1, HarmKeep DEF HarmInv, Mapped, Unwritten
<1>12. CASE Undo
  <2>1. /\ call.pc = "undo" /\ call'.pc = "unmap"
        /\ mem' = Put(Put(mem, Done(Current)), Current.orig)
    BY <1>1, <1>5, <1>12, CallFields DEF Undo, RolledBack
  <2>2. \A a \in Addr : mem'[a] = before.mem[a]
    <3>1. \A a \in Addr : a \notin DOMAIN Current.orig \cup (DOMAIN Current.fixes \ call.left)
                          => mem[a] = before.mem[a]
      BY <1>5, <1>12, <2>1 DEF HarmInv
    <3>2. SavesBefore
      BY <1>5, <1>6, <1>12
    <3> QED BY <2>1, <3>1, <3>2 DEF Put, Done, SavesBefore
  <2>3. mem' = before.mem
    BY <1>2, <2>2
  <2>4. recs = before.recs
    BY <1>5, <1>12, <2>1 DEF HarmInv
  <2> QED BY <1>1, <1>3, <2>1, <2>3, <2>4, HarmKeep DEF Mapped
<1> QED BY <1>8, <1>9, <1>10, <1>11, <1>12

LEMMA HarmNext ==
  ASSUME HarmInv, NoEntryRollback, TableHasRoom, [Next]_vars
  PROVE  HarmInv'
<1>1. SnapInv' /\ SnapInv /\ TypeInv
  BY SnapNext DEF HarmInv, SnapInv
<1>2. ASSUME NEW r \in Requests, GuardBlock(r) \/ GuardBlockSnap(r)
      PROVE  HarmInv'
  <2>1. PICK snap, chain : Begin(r, snap, chain)
    BY <1>2 DEF GuardBlock, GuardBlockSnap
  <2>2. /\ call'.pc = "map" /\ UNCHANGED <<mem, maps, recs>>
        /\ before'.mem = mem /\ before'.maps = maps /\ before'.recs = recs
    BY <2>1 DEF Begin, Enter
  <2> QED BY <1>1, <2>2 DEF HarmInv, Mapped, Unwritten
<1>3. ASSUME \/ \E i \in Slot : Unpatch(i)
             \/ MapFails \/ PlanFails \/ Unmap \/ Uninstall
      PROVE  HarmInv'
  <2>1. call'.pc \in {"idle", "unfix", "release"}
    <3>1. CASE \E i \in Slot : Unpatch(i)
      BY <3>1 DEF Unpatch, Enter
    <3>2. CASE Unfix \/ Restore
      BY <1>1, <3>2, CallFields DEF Unfix, Restore
    <3>3. CASE \E res : Return(res)
      BY <3>3, ReturnIdle
    <3> QED
      BY <1>3, <3>1, <3>2, <3>3 DEF MapFails, PlanFails, Unmap, Uninstall, UnpatchRefused, Release
  <2>2. \A m \in MapId : maps'[m] = maps[m] \/ maps'[m] = Unmapped
    BY <1>1, <1>3, CallFields DEF Unpatch, MapFails, PlanFails, Unmap, Uninstall, Unfix,
       Restore, UnpatchRefused, Release, DropRef, Munmap
  <2> QED BY <1>1, <2>1, <2>2, HarmAway
<1>4. ASSUME Reject \/ (\E p \in Resets : ResetPage(p)) \/ UNCHANGED vars
      PROVE  HarmInv'
  <2>1. UNCHANGED <<mem, maps, recs, call, before>>
    BY <1>4 DEF Reject, ResetPage, vars
  <2> QED BY <1>1, <2>1 DEF HarmInv, Unwritten, EntryIn, Fresh, SavesBefore, Current
<1>5. ASSUME NEW m \in MapId, MapTrampoline(m)
      PROVE  HarmInv'
  <2>1. /\ call.pc = "map" /\ maps[m].pages = 0 /\ UNCHANGED <<mem, recs, before>>
        /\ call'.pc = "plan" /\ call'.map = m
    BY <1>1, <1>5, CallFields DEF MapTrampoline
  <2>2. /\ \A x \in MapId : x # m => maps'[x] = maps[x]
        /\ maps'[m].pages \in {1, 2}
    BY <1>1, <1>5, CallFields DEF MapTrampoline, NewMapping
  <2> QED BY <1>1, <2>1, <2>2 DEF HarmInv, Mapped, Unwritten
<1>6. ASSUME Register
      PROVE  HarmInv'
  <2>1. CASE call.stage = "entry"
    <3>1. /\ call.pc = "fix" /\ call'.pc = "apply" /\ call'.stage = "guard"
          /\ call'.map = call.map /\ call'.req = call.req /\ call'.snap = call.snap
          /\ UNCHANGED <<maps, before>>
      BY <1>1, <1>6, <2>1, CallFields DEF Register
    <3>2. Fresh
      BY <1>1, <2>1, <3>1 DEF TypeInv, CallShape, Planned
    <3>3. EntryIn' /\ call'.req.mode = "snap"
      BY <3>1, <3>2 DEF EntryIn, Fresh
    <3> QED BY <1>1, <3>1, <3>3, HarmKeep DEF Unwritten, Mapped
  <2>2. CASE call.stage # "entry"
    <3>1. Return("ok") /\ UNCHANGED maps
      BY <1>6, <2>2 DEF Register
    <3> QED BY <1>1, <3>1, ReturnIdle, HarmAway
  <2> QED BY <2>1, <2>2
<1>7. ~RegisterFails /\ ~UndoEntry /\ ~UndoUnplannedEntry
  BY <1>1 DEF RegisterFails, TableHasRoom, UndoEntry, UndoUnplannedEntry, SnapInv, CallPages
<1> QED
  BY <1>1, <1>2, <1>3, <1>4, <1>5, <1>6, <1>7, HarmPlan, HarmWrite DEF Next, Install

LEMMA HarmInit == Init => HarmInv
<1>1. Init => call.pc = "idle"
  BY DEF Init, Idle, Enter
<1>2. Init => \A m \in MapId : maps[m] = Unmapped
  BY DEF Init
<1> QED BY <1>1, <1>2, SnapInit DEF HarmInv, Mapped, Unwritten

\* The history is the state at the beginning of a call.
History == before = [mem |-> before.mem, maps |-> before.maps, recs |-> before.recs]
LEMMA HistoryKept ==
  ASSUME History, [Next]_vars
  PROVE  History'
<1>1. \/ UNCHANGED before
      \/ before' = NoHistory
      \/ before' = [mem |-> mem, maps |-> maps, recs |-> recs]
  <2>1. CASE Install
    BY <2>1 DEF Install, MapTrampoline, MapFails, PlanGuard, PlanEntry, PlanFails, Apply,
       ApplyRefused, Fix, FixRefused, Register, RegisterFails, Undo, UndoEntry,
       UndoUnplannedEntry, Unmap, Return
  <2>2. CASE Uninstall
    BY <2>2 DEF Uninstall, Unfix, Restore, UnpatchRefused, Release, Return
  <2> QED
    BY <2>1, <2>2 DEF Next, GuardBlock, GuardBlockSnap, Begin, Reject, Unpatch, ResetPage, vars
<1> QED BY <1>1 DEF History, NoHistory

\* A guard call that returns an error has changed nothing (instr.c 298-372):
\* the rollback of a refused write gives back the patch and each branch already
\* redirected, and unmaps the call's own trampoline; no other is touched.  That
\* the table has room and that no rollback reaches an entry is assumed.
THEOREM FailuresHarmless ==
  ASSUME NoEntryRollback
  PROVE  Spec /\ []TableHasRoom => FailedCallHarmless
<1>1. HarmInv /\ TableHasRoom /\ [Next]_vars => HarmInv'
  BY HarmNext
<1>2. ASSUME HarmInv, History, TableHasRoom, [Next]_vars,
             call.pc # "idle", call.rec = 0, call'.pc = "idle", ret' = "error"
      PROVE  [mem |-> mem', maps |-> maps', recs |-> recs'] = before
  <2>1. SnapInv /\ TypeInv
    BY <1>2 DEF HarmInv, SnapInv
  <2>2. call.rec \notin Slot
    BY <1>2 DEF Slot
  <2>3. ~Uninstall
    BY <1>2, <2>1, <2>2 DEF Uninstall, Unfix, Restore, UnpatchRefused, Release, TypeInv, CallShape
  <2>4. MapFails \/ PlanFails \/ Unmap
    <3>1. ~(\E m \in MapId : MapTrampoline(m)) /\ ~PlanGuard /\ ~PlanEntry /\ ~Apply /\ ~Fix
      BY <1>2, <2>1, CallFields DEF MapTrampoline, PlanGuard, PlanEntry, Apply, Fix
    <3>2. ~ApplyRefused /\ ~FixRefused /\ ~Undo
      BY <1>2, <2>1, CallFields DEF ApplyRefused, FixRefused, Undo, AfterUndo
    <3>3. ~Register
      BY <1>2, <2>1, CallFields DEF Register, Return
    <3>4. ~RegisterFails /\ ~UndoEntry /\ ~UndoUnplannedEntry
      BY <1>2, <2>1 DEF RegisterFails, TableHasRoom, UndoEntry, UndoUnplannedEntry, SnapInv, CallPages
    <3> QED
      BY <1>2, <2>3, <3>1, <3>2, <3>3, <3>4 DEF Next, Install, GuardBlock, GuardBlockSnap,
         Reject, Unpatch, ResetPage, vars
  <2>5. mem' = before.mem /\ recs' = before.recs
    BY <1>2, <2>4 DEF MapFails, PlanFails, Unmap, HarmInv, Unwritten
  <2>6. maps' = before.maps
    <3>1. CASE MapFails
      BY <1>2, <3>1 DEF MapFails, HarmInv
    <3>2. CASE PlanFails \/ Unmap
      <4>1. /\ maps' = [maps EXCEPT ![call.map] = Unmapped]
            /\ call.pc \in Mapped
        BY <3>2 DEF PlanFails, Unmap, Munmap, Mapped
      <4>2. maps \in [MapId -> Mapping] /\ before.maps \in [MapId -> Mapping]
        BY <2>1 DEF TypeInv, TypeOK, MapsOK
      <4>3. \A m \in MapId : maps'[m] = before.maps[m]
        BY <1>2, <4>1, <4>2 DEF HarmInv
      <4> QED BY <4>1, <4>2, <4>3
    <3> QED BY <2>4, <3>1, <3>2
  <2>7. before = [mem |-> before.mem, maps |-> before.maps, recs |-> before.recs]
    BY <1>2 DEF History
  <2> QED BY <2>5, <2>6, <2>7
<1>3. Init => History
  BY DEF Init, History, NoHistory
<1> QED BY <1>1, <1>2, <1>3, HarmInit, HistoryKept, PTL DEF Spec, FailedCallHarmless
=============================================================================
