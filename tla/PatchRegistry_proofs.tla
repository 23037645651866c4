------------------------ MODULE PatchRegistry_proofs ------------------------
(***************************************************************************)
(* The registry and the code agree, and every call of the engine is one    *)
(* step of the patch table or none.  The code is seen as the words found   *)
(* at the start with layers of patches over them, one for each record and  *)
(* one for the stage in progress, no two over the same word.               *)
(***************************************************************************)
EXTENDS PatchMappings_proofs, PatchLanding_proofs, PatchEngineRefinement

Site == {r.start : r \in Requests} \cup Fn

\* No branch leads from one place that may be patched into another.
Independent ==
  \A s, t \in Site : s # t => \A a \in Region(s, 4) \cap Addr : Target[a] \notin Region(t, 4)

\* A module whose file is read carries no foreign hooks.
HooksSeen == Image => \A h \in Hooks : \A fn \in Fn : h[fn] = 0

\* What has been written once can be written again.
WritesRepeat == Faulty = {} \/ Resets = {}

\* The scan for branches sees every branch that leads into a place to be patched.
ScanCovers ==
  \A r \in Requests : \A a \in Addr :
    /\ Target[a] \in Region(r.start, 4) =>
         r.fn <= a /\ a < Later(FnEnd[r.fn], r.end + ScanSpan)
    /\ Target[a] \in Region(r.fn, 4) => r.fn <= a /\ a < r.end + ScanSpan

\* Each hook is of a form the engine recognises.
HooksKnown == \A h \in Hooks : \A fn \in Fn : h[fn] \in {0, 1, 3, 4}

Orderly == Discipline /\ Independent /\ HooksSeen /\ NoEntryRollback /\ WritesRepeat

(***************************************************************************)
(* Layers.                                                                 *)
(***************************************************************************)
Layer(r, m, left) ==
  [addr |-> r.addr, orig |-> r.orig, fixes |-> r.fixes, map |-> m, left |-> left]

Cover(l) == DOMAIN l.orig \cup DOMAIN l.fixes

\* What a layer would give back is what was found at the start.
Saves(l, h) ==
  /\ l.addr \in Site /\ Region(l.addr, 4) \subseteq Addr
  /\ DOMAIN l.orig \subseteq Region(l.addr, 4)
  /\ \A a \in DOMAIN l.orig : a \in Addr /\ l.orig[a] = HookedCode(h)[a]
  /\ \A a \in DOMAIN l.fixes :
       /\ a \in Addr /\ l.fixes[a] = HookedCode(h)[a]
       /\ a \notin DOMAIN l.orig /\ BranchTo(HookedCode(h)[a]) \in Region(l.addr, 4)
  /\ ScanCovers => \A a \in Addr : BranchTo(HookedCode(h)[a]) \in DOMAIN l.orig => a \in Cover(l)
  /\ HooksKnown /\ l.addr \in Fn /\ h[l.addr] > 0 =>
       DOMAIN l.orig \subseteq Region(l.addr, h[l.addr])

\* The patch of a layer is in the code, and its branches but those left.
Placed(code, l, h) ==
  /\ \A a \in DOMAIN l.orig :
       code[a].kind = "patch" /\ code[a].at = l.addr /\ code[a].map = l.map
  /\ \A a \in DOMAIN l.fixes :
       code[a] = IF a \in l.left THEN HookedCode(h)[a] ELSE Branch(l.addr)

Layered(code, L, h) ==
  /\ \A l \in L : Saves(l, h) /\ Placed(code, l, h)
  /\ \A l, k \in L : l.addr = k.addr => l = k
  /\ \A a \in Addr : (\A l \in L : a \notin Cover(l)) => code[a] = HookedCode(h)[a]

\* The words found at the start: original or hooks.
LEMMA FoundWords ==
  ASSUME NEW h \in Hooks, NEW a \in Addr
  PROVE  /\ HookedCode(h)[a] = Orig(a) \/ HookedCode(h)[a].kind = "hook"
         /\ BranchTo(HookedCode(h)[a]) \in {Target[a], NoAddr}
         /\ (\A fn \in Fn : a \notin Region(fn, h[fn])) => HookedCode(h)[a] = Orig(a)
<1>1. \/ HookedCode(h)[a] = Orig(a)
      \/ \E fn : HookedCode(h)[a] = Hook(fn, h[fn])
  BY DEF HookedCode
<1>2. (\A fn \in Fn : a \notin Region(fn, h[fn])) => HookedCode(h)[a] = Orig(a)
  BY DEF HookedCode
<1>3. Orig(a).at = a
  BY DEF Orig, Plain
<1> QED
  BY <1>1, <1>2, <1>3, WordKinds DEF BranchTo

LEMMA SitesDisjoint ==
  ASSUME Discipline, NEW s \in Site, NEW t \in Site, s # t
  PROVE  Region(s, 4) \cap Region(t, 4) = {}
BY DEF Discipline, SitesApart, Site

\* Layers at different places cover different words.
LEMMA LayersApart ==
  ASSUME Discipline, Independent, NEW h \in Hooks, NEW l, NEW k,
         Saves(l, h), Saves(k, h), l.addr # k.addr
  PROVE  Cover(l) \cap Cover(k) = {}
<1> SUFFICES ASSUME NEW a \in Cover(l) \cap Cover(k) PROVE FALSE
  OBVIOUS
<1>1. /\ a \in Addr /\ l.addr \in Site /\ k.addr \in Site
      /\ a \in DOMAIN l.orig => a \in Region(l.addr, 4)
      /\ a \in DOMAIN k.orig => a \in Region(k.addr, 4)
      /\ a \in DOMAIN l.fixes => BranchTo(HookedCode(h)[a]) \in Region(l.addr, 4)
      /\ a \in DOMAIN k.fixes => BranchTo(HookedCode(h)[a]) \in Region(k.addr, 4)
  BY DEF Saves, Cover
<1>2. Region(l.addr, 4) \cap Region(k.addr, 4) = {}
  BY <1>1, SitesDisjoint
<1>3. BranchTo(HookedCode(h)[a]) \in {Target[a], NoAddr}
  BY <1>1, FoundWords
<1>4. BranchTo(HookedCode(h)[a]) = NoAddr =>
        /\ BranchTo(HookedCode(h)[a]) \notin Region(l.addr, 4)
        /\ BranchTo(HookedCode(h)[a]) \notin Region(k.addr, 4)
  BY EngineAssumption DEF Saves
<1>5. CASE a \in DOMAIN l.orig
  BY <1>1, <1>2, <1>3, <1>4, <1>5 DEF Cover, Independent
<1>6. CASE a \in DOMAIN k.orig
  BY <1>1, <1>2, <1>3, <1>4, <1>6 DEF Cover, Independent
<1>7. CASE a \notin DOMAIN l.orig /\ a \notin DOMAIN k.orig
  BY <1>1, <1>2, <1>7 DEF Cover
<1> QED
  BY <1>5, <1>6, <1>7

(***************************************************************************)
(* What a write does to the layers.                                        *)
(***************************************************************************)
\* A patch is written: one more layer.
LEMMA LayerAdded ==
  ASSUME Discipline, Independent, NEW h \in Hooks, NEW code, NEW L, NEW n, NEW code2,
         Layered(code, L, h), Saves(n, h), n.left = DOMAIN n.fixes,
         \A l \in L : l.addr # n.addr,
         \A a \in DOMAIN n.orig :
           code2[a].kind = "patch" /\ code2[a].at = n.addr /\ code2[a].map = n.map,
         \A a \in Addr : a \notin DOMAIN n.orig => code2[a] = code[a]
  PROVE  Layered(code2, L \cup {n}, h)
<1>1. \A l \in L : Cover(l) \cap Cover(n) = {}
  BY LayersApart DEF Layered
<1>2. \A l \in L : \A a \in Cover(l) : code2[a] = code[a]
  BY <1>1 DEF Layered, Saves, Cover
<1>3. \A l \in L : Placed(code2, l, h)
  BY <1>2 DEF Layered, Placed, Cover
<1>4. \A a \in DOMAIN n.fixes : code2[a] = HookedCode(h)[a]
  BY <1>1 DEF Layered, Saves, Cover
<1>5. Placed(code2, n, h)
  BY <1>4 DEF Placed
<1> QED
  BY <1>3, <1>5 DEF Layered, Cover

\* One branch is redirected, or given back.
LEMMA LayerWritten ==
  ASSUME Discipline, Independent, NEW h \in Hooks, NEW code, NEW L, NEW l \in L, NEW n,
         NEW f \in DOMAIN l.fixes, NEW code2,
         Layered(code, L, h),
         n.addr = l.addr, n.orig = l.orig, n.fixes = l.fixes, n.map = l.map,
         \A a \in DOMAIN l.fixes : a # f => (a \in n.left <=> a \in l.left),
         code2[f] = IF f \in n.left THEN HookedCode(h)[f] ELSE Branch(l.addr),
         \A a \in Addr : a # f => code2[a] = code[a]
  PROVE  Layered(code2, (L \ {l}) \cup {n}, h)
<1>1. \A k \in L : k # l => Cover(k) \cap Cover(l) = {}
  BY LayersApart DEF Layered
<1>2. f \in Cover(l) /\ f \notin DOMAIN l.orig
  BY DEF Layered, Saves, Cover
<1>3. \A k \in L : k # l => Placed(code2, k, h)
  BY <1>1, <1>2 DEF Layered, Placed, Saves, Cover
<1>4. Placed(code2, n, h) /\ Saves(n, h)
  BY <1>2 DEF Layered, Placed, Saves, Cover
<1>5. \A a \in Addr : (\A k \in (L \ {l}) \cup {n} : a \notin Cover(k)) =>
        code2[a] = HookedCode(h)[a]
  BY <1>2 DEF Layered, Cover
<1> QED
  BY <1>3, <1>4, <1>5 DEF Layered

\* A layer's words are given back: one layer less.
LEMMA LayerRemoved ==
  ASSUME Discipline, Independent, NEW h \in Hooks, NEW code, NEW L, NEW l \in L, NEW code2,
         Layered(code, L, h),
         \A a \in Cover(l) : code2[a] = HookedCode(h)[a],
         \A a \in Addr : a \notin Cover(l) => code2[a] = code[a]
  PROVE  Layered(code2, L \ {l}, h)
<1>1. \A k \in L : k # l => Cover(k) \cap Cover(l) = {}
  BY LayersApart DEF Layered
<1>2. \A k \in L : k # l => Placed(code2, k, h)
  BY <1>1 DEF Layered, Placed, Saves, Cover
<1> QED
  BY <1>2 DEF Layered

\* A plan made for a place where nothing is patched saves what was found there.
LEMMA PlanSaves ==
  ASSUME Discipline, Independent, HooksSeen, NEW h \in Hooks, NEW L, NEW s \in Site,
         NEW n \in 0..4, NEW fn, NEW last,
         mem \in [Addr -> Word], Region(s, 4) \subseteq Addr, s \in Addr,
         Layered(mem, L, h), \A l \in L : l.left = {} /\ l.addr # s,
         ScanCovers => \A a \in Addr : Target[a] \in Region(s, 4) => fn <= a /\ a < last,
         HooksKnown /\ s \in Fn /\ h[s] > 0 => n <= h[s]
  PROVE  Saves(MakePlan(s, n, Fixups(fn, s, n, last)), h)
<1> DEFINE H == HookedCode(h)
           fixes == Fixups(fn, s, n, last)
           p == MakePlan(s, n, fixes)
<1>1. /\ p.addr = s /\ DOMAIN p.orig = Region(s, n) /\ DOMAIN p.fixes = fixes
      /\ \A a \in Region(s, n) : p.orig[a] = Source[a]
      /\ \A a \in fixes : p.fixes[a] = mem[a]
  BY DEF MakePlan
<1>2. Region(s, n) \subseteq Region(s, 4)
  BY SiteWords
<1>3. \A l \in L : /\ Saves(l, h) /\ Placed(mem, l, h) /\ l.left = {}
                   /\ Region(s, 4) \cap Region(l.addr, 4) = {}
  BY SitesDisjoint DEF Layered, Saves
<1>4. NoAddr \notin Region(s, 4)
  BY EngineAssumption
<1>5. ASSUME NEW a \in Region(s, 4), NEW l \in L
      PROVE  a \notin Cover(l)
  <2>1. BranchTo(H[a]) \in {Target[a], NoAddr}
    BY <1>5, FoundWords
  <2>2. BranchTo(H[a]) \notin Region(l.addr, 4)
    BY <1>3, <1>5, <2>1, EngineAssumption DEF Independent, Saves
  <2> QED BY <1>3, <1>5, <2>2 DEF Cover, Saves
<1>6. \A a \in Region(s, 4) : mem[a] = H[a]
  BY <1>5 DEF Layered
<1>7. \A a \in Region(s, 4) : Source[a] = H[a]
  <2>1. CASE Image
    <3>1. \A fn2 \in Fn : Region(fn2, h[fn2]) = {}
      BY <2>1, SiteWords, EngineAssumption DEF HooksSeen, Region
    <3>2. \A a \in Addr : H[a] = Orig(a)
      BY <3>1, FoundWords
    <3> QED BY <1>6, <3>2 DEF Source, Pristine
  <2>2. CASE ~Image
    BY <1>6, <2>2 DEF Source
  <2> QED BY <2>1, <2>2
<1>8. ASSUME NEW a \in Addr, NEW l \in L, a \in Cover(l)
      PROVE  BranchTo(mem[a]) \notin Region(s, 4)
  <2>1. CASE a \in DOMAIN l.orig
    BY <1>3, <1>4, <1>8, <2>1 DEF Placed, BranchTo
  <2>2. CASE a \in DOMAIN l.fixes
    <3>1. mem[a] = Branch(l.addr)
      BY <1>3, <2>2 DEF Placed
    <3>2. BranchTo(mem[a]) = l.addr
      BY <3>1 DEF BranchTo, Branch, Plain
    <3>3. l.addr \in Region(l.addr, 4)
      <4>1. l.addr \in Nat
        BY <1>3, SiteWords, EngineAssumption DEF Saves, Site
      <4> QED BY <4>1, SiteWords
    <3> QED BY <1>3, <3>2, <3>3
  <2> QED BY <1>8, <2>1, <2>2 DEF Cover
<1>9. \A a \in fixes : /\ a \in Addr /\ a \notin Region(s, n)
                       /\ BranchTo(mem[a]) \in Region(s, n)
  BY DEF Fixups
<1>10. \A a \in fixes : mem[a] = H[a]
  BY <1>2, <1>8, <1>9 DEF Layered
<1>11. ASSUME ScanCovers, NEW a \in Addr, BranchTo(H[a]) \in Region(s, n), a \notin Region(s, n)
       PROVE  a \in fixes
  <2>1. BranchTo(H[a]) = Target[a] /\ Target[a] \in Region(s, 4)
    BY <1>2, <1>4, <1>11, FoundWords
  <2>2. \A l \in L : a \notin Cover(l)
    <3> SUFFICES ASSUME NEW l \in L, a \in Cover(l) PROVE FALSE
      OBVIOUS
    <3>1. CASE a \in DOMAIN l.orig
      BY <1>3, <2>1, <3>1 DEF Saves, Independent
    <3>2. CASE a \in DOMAIN l.fixes
      BY <1>3, <2>1, <3>2 DEF Saves
    <3> QED BY <3>1, <3>2 DEF Cover
  <2>3. mem[a] = H[a]
    BY <2>2 DEF Layered
  <2> QED BY <1>11, <2>1, <2>3 DEF Fixups
<1>12. HooksKnown /\ s \in Fn /\ h[s] > 0 => Region(s, n) \subseteq Region(s, h[s])
  <2>1. s \in Nat /\ (s \in Fn => h[s] \in 0..4)
    BY EngineAssumption DEF Fn
  <2> QED BY <2>1 DEF Region
<1> HIDE DEF p, fixes, H
<1>13. \A a \in DOMAIN p.orig : a \in Addr /\ p.orig[a] = H[a]
  BY <1>1, <1>2, <1>7
<1>14. \A a \in DOMAIN p.fixes :
         /\ a \in Addr /\ p.fixes[a] = H[a]
         /\ a \notin DOMAIN p.orig /\ BranchTo(H[a]) \in Region(p.addr, 4)
  BY <1>1, <1>2, <1>9, <1>10
<1>15. ScanCovers => \A a \in Addr : BranchTo(H[a]) \in DOMAIN p.orig => a \in Cover(p)
  BY <1>1, <1>11 DEF Cover
<1>16. Saves(p, h)
  BY <1>1, <1>2, <1>12, <1>13, <1>14, <1>15 DEF Saves, H
<1> QED BY <1>16 DEF p, fixes

(***************************************************************************)
(* The layers of a state.                                                  *)
(***************************************************************************)
RecLayer(i) ==
  Layer(recs[i], recs[i].map,
        IF call.pc = "unfix" /\ i = call.rec THEN DOMAIN recs[i].fixes \ call.left ELSE {})
Held == {i \in Slot : recs[i].used /\ ~(call.pc = "release" /\ i = call.rec)}
RecLayers == {RecLayer(i) : i \in Held}
CallLayer == Layer(Current, call.map, call.left)
Layers == RecLayers \cup (IF call.pc \in Pending THEN {CallLayer} ELSE {})

\* No record is about a.
Free(a) == \A i \in Slot : recs[i].used => recs[i].addr # a

Records(h) ==
  /\ \A i \in Slot : recs[i].used =>
       Saves(recs[i], h) /\ (recs[i].addr \in Fn => recs[i].refs = 2)
  /\ \A i, j \in Slot : /\ recs[i].used /\ recs[j].used
                        /\ recs[i].addr = recs[j].addr
                        => i = j

Early == {"map", "plan", "plan_entry"}
InStage == {"apply"} \cup Pending

\* What the call in progress is about to patch is patched by no record.
Plans(h) ==
  /\ call.pc \in Early \cup InStage => Free(call.req.start)
  /\ \/ Fresh /\ call.pc \in Early
     \/ call.stage = "entry" /\ call.pc \in InStage
     => Free(call.req.fn)
  /\ call.pc \in {"plan_entry"} \cup InStage => Saves(call.plan["guard"], h)
  /\ call.stage = "entry" /\ call.pc \in InStage => Saves(call.plan["entry"], h)
  /\ Fresh /\ call.pc \in Early /\ HooksKnown /\ h[call.req.fn] > 0 =>
       call.chain = h[call.req.fn]

Registry(h) == Layered(mem, Layers, h) /\ Records(h) /\ Plans(h)

\* What is known of a step.
Step == Orderly /\ IInv /\ SnapInv /\ IInv' /\ SnapInv'

LEMMA LayerFields ==
  ASSUME NEW r, NEW m, NEW left
  PROVE  /\ Layer(r, m, left).addr = r.addr /\ Layer(r, m, left).orig = r.orig
         /\ Layer(r, m, left).fixes = r.fixes /\ Layer(r, m, left).map = m
         /\ Layer(r, m, left).left = left
         /\ Cover(Layer(r, m, left)) = Cover(r)
         /\ \A h : Saves(Layer(r, m, left), h) <=> Saves(r, h)
BY DEF Layer, Cover, Saves

\* Outside of a removal the layers of the records are all whole.
LEMMA RecordLayers ==
  ASSUME call.pc \notin {"unfix", "release"}
  PROVE  RecLayers = {Layer(recs[i], recs[i].map, {}) : i \in {j \in Slot : recs[j].used}}
BY DEF RecLayers, RecLayer, Held

LEMMA SameRecordLayers ==
  ASSUME UNCHANGED recs, call.pc \notin {"unfix", "release"}, call'.pc \notin {"unfix", "release"}
  PROVE  RecLayers' = RecLayers
BY DEF RecLayers, RecLayer, Held

\* A step that writes no code and no record.
LEMMA RegStill ==
  ASSUME NEW h \in Hooks, Registry(h), UNCHANGED <<mem, recs>>, Layers' = Layers, Plans(h)'
  PROVE  Registry(h)'
BY DEF Registry, Records

LEMMA RegAway ==
  ASSUME NEW h \in Hooks, Registry(h), Step, UNCHANGED <<mem, recs>>,
         call.pc \notin Pending \cup {"unfix", "release"},
         call'.pc \notin InStage \cup Early \cup {"unfix", "release"}
  PROVE  Registry(h)'
<1>1. RecLayers' = RecLayers
  BY SameRecordLayers
<1>2. Layers' = Layers
  BY <1>1 DEF Layers, InStage
<1>3. Plans(h)'
  BY DEF Plans, InStage, Early
<1> QED BY <1>2, <1>3, RegStill

\* A hook that is recognised is measured.
LEMMA HookMeasured ==
  ASSUME NEW h \in Hooks, Registry(h), Orderly, TypeInv, HooksKnown,
         call.pc = "idle", NEW fn \in Fn, Free(fn), h[fn] > 0
  PROVE  (IF EntryBusy(fn) THEN HookLen(fn) ELSE 0) = h[fn]
<1> DEFINE H == HookedCode(h)
<1>1. /\ fn \in Addr /\ fn \in Nat /\ h[fn] \in {1, 3, 4} /\ Region(fn, 4) \subseteq Addr
      /\ fn \in Region(fn, 4) /\ Region(fn, h[fn]) \subseteq Region(fn, 4)
  <2>1. fn \in Addr /\ fn \in Nat /\ h[fn] \in 0..4
    BY EngineAssumption DEF Fn
  <2> QED BY <2>1, SiteWords DEF HooksKnown
<1>2. ~Image
  BY <1>1 DEF Orderly, HooksSeen
<1>3. \A a \in Region(fn, h[fn]) : H[a] = Hook(fn, h[fn])
  <2> SUFFICES ASSUME NEW a \in Region(fn, h[fn]) PROVE H[a] = Hook(fn, h[fn])
    OBVIOUS
  <2>1. \A f \in Fn : a \in Region(f, h[f]) => f = fn
    <3>1. \A f \in Fn : h[f] \in 0..4 /\ f \in Nat
      BY EngineAssumption DEF Fn
    <3>2. \A f \in Fn : Region(f, h[f]) \subseteq Region(f, 4)
      BY <3>1, SiteWords
    <3> QED BY <1>1, <3>2 DEF Orderly, Discipline, SitesApart
  <2>2. (CHOOSE f \in Fn : a \in Region(f, h[f])) = fn
    BY <2>1
  <2> QED BY <1>1, <2>2 DEF HookedCode
<1>4. \A a \in Region(fn, 4) : mem[a] = H[a]
  <2> SUFFICES ASSUME NEW a \in Region(fn, 4), NEW l \in Layers PROVE a \notin Cover(l)
    BY <1>1 DEF Registry, Layered
  <2>1. /\ l.addr # fn /\ Saves(l, h)
    BY RecordLayers, LayerFields DEF Layers, Pending, Free, Registry, Layered
  <2>2. Region(fn, 4) \cap Region(l.addr, 4) = {} /\ l.addr \in Site /\ fn \in Site
    BY <2>1, SitesDisjoint DEF Orderly, Saves, Site
  <2>3. BranchTo(H[a]) \in {Target[a], NoAddr}
    BY <1>1, FoundWords
  <2>4. BranchTo(H[a]) \notin Region(l.addr, 4)
    BY <1>1, <2>1, <2>2, <2>3, EngineAssumption DEF Orderly, Independent, Saves
  <2> QED BY <2>1, <2>2, <2>4 DEF Cover, Saves
<1>5. fn \in Region(fn, h[fn])
  BY <1>1 DEF Region
<1>6. /\ mem[fn] = Hook(fn, h[fn]) /\ \A a \in Region(fn, h[fn]) : mem[a] = mem[fn]
  BY <1>1, <1>3, <1>4, <1>5
<1>7. Hook(fn, h[fn]).kind = "hook" /\ Hook(fn, h[fn]).at = fn /\ Hook(fn, h[fn]).len = h[fn]
  BY DEF Hook, Plain
<1>8. HookLen(fn) = h[fn]
  BY <1>1, <1>6, <1>7 DEF HookLen
<1> QED BY <1>1, <1>2, <1>8 DEF EntryBusy

LEMMA RegBegin ==
  ASSUME NEW h \in Hooks, Registry(h), Step, NEW r \in Requests, GuardBlock(r) \/ GuardBlockSnap(r)
  PROVE  Registry(h)'
<1>1. PICK snap, chain :
        /\ Begin(r, snap, chain) /\ call.pc = "idle"
        /\ r.mode = "snap" /\ snap = NoMap =>
             chain = IF EntryBusy(r.fn) THEN HookLen(r.fn) ELSE 0
  <2>1. CASE GuardBlock(r)
    BY <2>1 DEF GuardBlock
  <2>2. CASE GuardBlockSnap(r) /\ SnapshotRecs(r.fn) # {}
    <3>1. PICK i \in SnapshotRecs(r.fn) : Begin(r, recs[i].map, 0) /\ call.pc = "idle"
      BY <2>2 DEF GuardBlockSnap, Least
    <3>2. recs[i].map # NoMap
      BY <3>1, EngineAssumption DEF SnapshotRecs, Step, IInv, SoleOwner
    <3> QED BY <3>1, <3>2
  <2>3. CASE GuardBlockSnap(r) /\ SnapshotRecs(r.fn) = {}
    BY <2>3 DEF GuardBlockSnap
  <2> QED BY <2>1, <2>2, <2>3
<1>2. /\ call'.pc = "map" /\ call'.req = r /\ call'.snap = snap /\ call'.chain = chain
      /\ UNCHANGED <<mem, recs>>
  BY <1>1 DEF Begin, Enter
<1>3. Layers' = Layers
  BY <1>1, <1>2, SameRecordLayers DEF Layers, Pending
<1>4. Free(r.start)' /\ (Fresh' => Free(r.fn)')
  <2>1. Free(r.start)'
    BY <1>2 DEF Step, IInv, NotYetGuarded, Orderly, Discipline, Free
  <2>2. Fresh' => SnapshotRecs(r.fn)' = {}
    BY <1>2 DEF Step, IInv, NotYetGuarded
  <2>3. r.fn \in Fn
    BY EngineAssumption DEF Fn
  <2> QED BY <1>2, <2>1, <2>2, <2>3 DEF Free, SnapshotRecs, Registry, Records
<1>5. Fresh' /\ HooksKnown /\ h[r.fn] > 0 => chain = h[r.fn]
  <2>1. r.fn \in Fn
    BY EngineAssumption DEF Fn
  <2>2. Fresh' => r.mode = "snap" /\ snap = NoMap /\ Free(r.fn)
    BY <1>2, <1>4 DEF Fresh, Free
  <2> QED BY <1>1, <2>1, <2>2, HookMeasured DEF Step, SnapInv
<1>6. Plans(h)'
  BY <1>2, <1>4, <1>5 DEF Plans, Early, InStage, Pending
<1> QED BY <1>2, <1>3, <1>6, RegStill

LEMMA RegMapTrampoline ==
  ASSUME NEW h \in Hooks, Registry(h), Step, NEW m \in MapId, MapTrampoline(m)
  PROVE  Registry(h)'
<1>1. /\ call.pc = "map" /\ call'.pc = "plan" /\ call'.req = call.req /\ call'.snap = call.snap
      /\ call'.chain = call.chain /\ call'.stage = call.stage /\ UNCHANGED <<mem, recs>>
  BY CallFields DEF MapTrampoline, Step, SnapInv
<1>2. Layers' = Layers
  BY <1>1, SameRecordLayers DEF Layers, Pending
<1>3. Plans(h)'
  BY <1>1 DEF Plans, Early, InStage, Pending, Registry, Free, Fresh
<1> QED BY <1>1, <1>2, <1>3, RegStill

\* Before the first write of a stage every layer is whole.
LEMMA WholeLayers ==
  ASSUME NEW h \in Hooks, Registry(h), call.pc \in Early \cup {"apply"}
  PROVE  /\ Layers = RecLayers
         /\ \A l \in Layers : l.left = {} /\ \E i \in Slot : recs[i].used /\ l.addr = recs[i].addr
BY RecordLayers, LayerFields DEF Layers, Early, Pending

LEMMA RegPlanGuard ==
  ASSUME NEW h \in Hooks, Registry(h), Step, PlanGuard
  PROVE  Registry(h)'
<1> DEFINE site  == call.req.start
           n     == GuardLen(call.map)
           last  == Later(FnEnd[call.req.fn], call.req.end + ScanSpan)
           fixes == Fixups(call.req.fn, site, n, last)
           plan  == MakePlan(site, n, fixes)
<1>1. /\ call.pc = "plan" /\ call.stage = "guard" /\ UNCHANGED <<mem, recs>>
      /\ call.map \in MapId /\ call.req \in Requests /\ Region(site, 4) \subseteq Addr
  BY DEF PlanGuard, Step, IInv, CallShape, Mapped
<1>2. /\ site \in Nat /\ site \in Addr /\ site \in Site /\ n \in 0..4 /\ n \in 3..4
  BY <1>1, SiteWords, LensOK, EngineAssumption DEF Site
<1>3. site \notin Fn
  BY <1>1, <1>2, SiteWords DEF Step, Orderly, Discipline, SitesApart
<1>4. Free(site) /\ \A l \in Layers : l.left = {} /\ l.addr # site
  BY <1>1, WholeLayers DEF Registry, Plans, Free, Early
<1>5. mem \in [Addr -> Word]
  BY DEF Step, IInv, TypeOK
<1>6. Saves(plan, h)
  <2>1. ScanCovers => \A a \in Addr : Target[a] \in Region(site, 4) => call.req.fn <= a /\ a < last
    BY <1>1 DEF ScanCovers
  <2> HIDE DEF site, n, last
  <2> QED BY <1>1, <1>2, <1>3, <1>4, <1>5, <2>1, PlanSaves DEF Step, Orderly, Registry
<1>7. PICK pc : /\ call' = [call EXCEPT !.pc = pc, !.plan["guard"] = plan]
                /\ pc \in {"plan_entry", "apply"}
  BY DEF PlanGuard, GuardFixups
<1> HIDE DEF plan, fixes, last, n
<1>8. /\ call'.pc \in {"plan_entry", "apply"} /\ call'.plan["guard"] = plan
      /\ call'.req = call.req /\ call'.snap = call.snap /\ call'.chain = call.chain
      /\ call'.stage = call.stage
  BY <1>7, CallFields DEF Step, SnapInv, Part
<1>9. Layers' = Layers
  BY <1>1, <1>8, SameRecordLayers DEF Layers, Pending
<1>10. Plans(h)'
  BY <1>1, <1>6, <1>8 DEF Plans, Early, InStage, Pending, Registry, Free, Fresh
<1> QED BY <1>1, <1>9, <1>10, RegStill

LEMMA RegPlanEntry ==
  ASSUME NEW h \in Hooks, Registry(h), Step, PlanEntry
  PROVE  Registry(h)'
<1> DEFINE fn    == call.req.fn
           n     == EntryLen(call.chain, call.map)
           last  == call.req.end + ScanSpan
           fixes == Fixups(fn, fn, n, last)
           plan  == MakePlan(fn, n, fixes)
<1>1. /\ call.pc = "plan_entry" /\ Fresh /\ call.stage = "guard" /\ UNCHANGED <<mem, recs>>
      /\ call.map \in MapId /\ call.req \in Requests /\ n > 0
  BY DEF PlanEntry, Step, IInv, CallShape, Mapped
<1>2. /\ fn \in Fn /\ fn \in Site /\ fn \in Addr /\ Region(fn, 4) \subseteq Addr
      /\ call.chain \in {0, 1, 3, 4} /\ n \in 0..4
  <2>1. fn \in Fn /\ call.chain \in {0, 1, 3, 4}
    BY <1>1, EngineAssumption, CallFields DEF Fn, Step, SnapInv
  <2> QED BY <1>1, <2>1, SiteWords, LensOK DEF Site
<1>3. Free(fn) /\ \A l \in Layers : l.left = {} /\ l.addr # fn
  BY <1>1, WholeLayers DEF Registry, Plans, Free, Early
<1>4. mem \in [Addr -> Word]
  BY DEF Step, IInv, TypeOK
<1>5. HooksKnown /\ h[fn] > 0 => n <= h[fn]
  <2>1. HooksKnown /\ h[fn] > 0 => call.chain = h[fn]
    BY <1>1 DEF Registry, Plans, Early
  <2>2. HooksKnown => h[fn] \in {0, 1, 3, 4}
    BY <1>2 DEF HooksKnown
  <2>3. call.chain \in {1, 3, 4} => n <= call.chain
    BY <1>1 DEF EntryLen
  <2> QED BY <2>1, <2>2, <2>3
<1>6. Saves(plan, h)
  <2>1. ScanCovers => \A a \in Addr : Target[a] \in Region(fn, 4) => fn <= a /\ a < last
    BY <1>1 DEF ScanCovers
  <2> HIDE DEF fn, n, last
  <2> QED BY <1>1, <1>2, <1>3, <1>4, <1>5, <2>1, PlanSaves DEF Step, Orderly, Registry
<1>7. call' = [call EXCEPT !.pc = "apply", !.stage = "entry", !.plan["entry"] = plan]
  BY DEF PlanEntry, EntryFixups
<1> HIDE DEF plan, fixes, last, n
<1>8. /\ call'.pc = "apply" /\ call'.plan["entry"] = plan
      /\ call'.plan["guard"] = call.plan["guard"]
      /\ call'.req = call.req /\ call'.snap = call.snap /\ call'.stage = "entry"
  BY <1>7, CallFields DEF Step, SnapInv, Part
<1>9. Layers' = Layers
  BY <1>1, <1>8, SameRecordLayers DEF Layers, Pending
<1>10. Plans(h)'
  BY <1>1, <1>3, <1>6, <1>8 DEF Plans, Early, InStage, Pending, Registry, Free, Fresh
<1> QED BY <1>1, <1>9, <1>10, RegStill

\* What the stage in progress patches.
LEMMA StagePlan ==
  ASSUME NEW h \in Hooks, Registry(h), TypeInv, call.pc \in InStage
  PROVE  /\ Saves(Current, h) /\ Free(Current.addr) /\ call.map \in MapId
         /\ call.stage \in {"guard", "entry"}
<1>1. call.pc \in Planned /\ call.pc \in {"apply", "fix", "undo"}
  BY DEF InStage, Pending, Planned
<1>2. /\ call.stage \in Part /\ Current = call.plan[call.stage] /\ call.map \in MapId
      /\ Current.addr = IF call.stage = "entry" THEN call.req.fn ELSE call.req.start
  BY <1>1, CurrentPlan
<1>3. call.stage = "entry" => Saves(Current, h) /\ Free(Current.addr)
  BY <1>2 DEF Registry, Plans
<1>4. call.stage = "guard" => Saves(Current, h) /\ Free(Current.addr)
  BY <1>2 DEF Registry, Plans
<1>5. call.stage \in {"guard", "entry"}
  BY <1>2 DEF Part
<1> QED BY <1>2, <1>3, <1>4, <1>5

\* The layer of the stage is none of the records'.
LEMMA CallLayerApart ==
  ASSUME NEW h \in Hooks, Registry(h), TypeInv, call.pc \in InStage
  PROVE  \A l \in RecLayers : l.addr # Current.addr
<1>1. Free(Current.addr)
  BY StagePlan
<1>2. \A i \in Slot : RecLayer(i).addr = recs[i].addr
  BY DEF RecLayer, Layer
<1> QED BY <1>1, <1>2 DEF RecLayers, Held, Free

LEMMA RegApply ==
  ASSUME NEW h \in Hooks, Registry(h), Step, Apply
  PROVE  Registry(h)'
<1> DEFINE n == Layer(Current, call.map, DOMAIN Current.fixes)
<1>1. /\ call.pc = "apply" /\ call.pc \in InStage /\ TypeInv /\ UNCHANGED recs
  BY DEF Apply, InStage, Step, SnapInv
<1>2. call' = [call EXCEPT !.pc = "fix", !.left = DOMAIN Current.fixes]
  BY DEF Apply
<1>3. /\ call'.pc = "fix" /\ call'.left = DOMAIN Current.fixes
      /\ call'.map = call.map /\ call'.req = call.req /\ call'.snap = call.snap
      /\ call'.stage = call.stage /\ call'.plan = call.plan
  BY <1>1, <1>2, CallFields
<1>4. Current' = Current
  BY <1>3 DEF Current
<1>5. Layers' = Layers \cup {n}
  <2>1. RecLayers' = RecLayers
    BY <1>1, <1>3, SameRecordLayers
  <2>2. CallLayer' = n
    BY <1>3, <1>4 DEF CallLayer
  <2> QED BY <1>1, <1>3, <2>1, <2>2 DEF Layers, Pending
<1>6. mem' = Put(mem, [a \in DOMAIN Current.orig |->
                         Patch(Current.addr, Current.len, call.map, call.stage)])
  BY DEF Apply, ApplyBytes
<1>7. /\ \A a \in DOMAIN Current.orig :
           mem'[a].kind = "patch" /\ mem'[a].at = Current.addr /\ mem'[a].map = call.map
      /\ \A a \in Addr : a \notin DOMAIN Current.orig => mem'[a] = mem[a]
  <2>1. DOMAIN Current.orig \subseteq Addr
    BY <1>1, StagePlan DEF Saves
  <2> QED BY <1>6, <2>1 DEF Put, Patch
<1>8. Saves(n, h) /\ n.left = DOMAIN n.fixes /\ n.addr = Current.addr /\ n.orig = Current.orig
      /\ n.map = call.map
  BY <1>1, StagePlan, LayerFields
<1>9. \A l \in Layers : l.addr # n.addr
  BY <1>1, <1>8, CallLayerApart, WholeLayers
<1>10. Layered(mem', Layers', h)
  <2> HIDE DEF n
  <2> QED BY <1>5, <1>7, <1>8, <1>9, LayerAdded DEF Step, Orderly, Registry
<1>11. Plans(h)'
  BY <1>1, <1>3 DEF Plans, Early, InStage, Pending, Registry, Free, Fresh
<1> QED BY <1>1, <1>10, <1>11 DEF Registry, Records

\* Refusals, and the rollback of the stage.
LEMMA RegRefused ==
  ASSUME NEW h \in Hooks, Registry(h), Step, ApplyRefused \/ FixRefused
  PROVE  Registry(h)'
<1>1. /\ TypeInv /\ UNCHANGED <<mem, recs>> /\ call.pc \in {"apply", "fix"}
  BY DEF ApplyRefused, FixRefused, Step, SnapInv
<1>2. CASE FixRefused
  <2>1. /\ call.pc = "fix" /\ call'.pc = "undo" /\ call'.left = call.left
        /\ call'.map = call.map /\ call'.req = call.req /\ call'.snap = call.snap
        /\ call'.stage = call.stage /\ call'.plan = call.plan
    BY <1>1, <1>2, CallFields DEF FixRefused
  <2>2. RecLayers' = RecLayers
    BY <1>1, <2>1, SameRecordLayers
  <2>3. Layers' = Layers
    BY <2>1, <2>2 DEF Layers, CallLayer, Current, Pending
  <2>4. Plans(h)'
    BY <2>1, <1>1 DEF Plans, Early, InStage, Pending, Registry, Free, Fresh
  <2> QED BY <1>1, <2>3, <2>4, RegStill
<1>3. CASE ApplyRefused
  <2>1. call.pc = "apply" /\ call'.pc \in {"unmap", "undo_entry"}
    BY <1>1, <1>3, CallFields DEF ApplyRefused, AfterUndo
  <2> QED BY <1>1, <2>1, RegAway DEF InStage, Early, Pending
<1> QED BY <1>2, <1>3

LEMMA StageLayer ==
  ASSUME call.pc \in Pending
  PROVE  /\ CallLayer \in Layers /\ Layers = RecLayers \cup {CallLayer}
         /\ CallLayer.addr = Current.addr /\ CallLayer.orig = Current.orig
         /\ CallLayer.fixes = Current.fixes /\ CallLayer.map = call.map
         /\ CallLayer.left = call.left /\ Cover(CallLayer) = Cover(Current)
BY LayerFields DEF Layers, CallLayer

LEMMA RegUndo ==
  ASSUME NEW h \in Hooks, Registry(h), Step, Undo
  PROVE  Registry(h)'
<1>1. /\ call.pc = "undo" /\ call.pc \in InStage /\ call.pc \in Pending /\ TypeInv
      /\ UNCHANGED recs /\ mem' = Put(Put(mem, Done(Current)), Current.orig)
  BY DEF Undo, RolledBack, InStage, Pending, Step, SnapInv
<1>2. Saves(Current, h) /\ \A l \in RecLayers : l.addr # Current.addr
  BY <1>1, StagePlan, CallLayerApart
<1>3. call'.pc \in {"unmap", "undo_entry"}
  BY <1>1, CallFields DEF Undo, AfterUndo
<1>4. Layers' = Layers \ {CallLayer}
  <2>1. RecLayers' = RecLayers
    BY <1>1, <1>3, SameRecordLayers
  <2> QED BY <1>1, <1>2, <1>3, <2>1, StageLayer DEF Layers, Pending
<1>5. \A a \in DOMAIN Current.fixes : a \in call.left => mem[a] = HookedCode(h)[a]
  BY <1>1, StageLayer DEF Registry, Layered, Placed
<1>6. /\ \A a \in Cover(Current) : mem'[a] = HookedCode(h)[a]
      /\ \A a \in Addr : a \notin Cover(Current) => mem'[a] = mem[a]
  BY <1>1, <1>2, <1>5 DEF Put, Done, Saves, Cover
<1>7. Layered(mem', Layers', h)
  <2>1. CallLayer \in Layers /\ Cover(CallLayer) = Cover(Current)
    BY <1>1, StageLayer
  <2> QED BY <1>4, <1>6, <2>1, LayerRemoved DEF Step, Orderly, Registry
<1>8. Plans(h)'
  BY <1>3 DEF Plans, Early, InStage, Pending
<1> QED BY <1>1, <1>7, <1>8 DEF Registry, Records

LEMMA RegFix ==
  ASSUME NEW h \in Hooks, Registry(h), Step, Fix
  PROVE  Registry(h)'
<1>1. /\ call.pc = "fix" /\ call.pc \in InStage /\ call.pc \in Pending /\ TypeInv
      /\ UNCHANGED recs
  BY DEF Fix, InStage, Pending, Step, SnapInv
<1>2. PICK f \in call.left : /\ mem' = Put(mem, [a \in {f} |-> Branch(Current.addr)])
                             /\ call' = [call EXCEPT !.left = call.left \ {f}]
  BY DEF Fix, ApplyBytes, Written
<1>3. /\ call'.pc = "fix" /\ call'.left = call.left \ {f}
      /\ call'.map = call.map /\ call'.req = call.req /\ call'.snap = call.snap
      /\ call'.stage = call.stage /\ call'.plan = call.plan
  BY <1>1, <1>2, CallFields
<1>4. Current' = Current
  BY <1>3 DEF Current
<1>5. f \in DOMAIN Current.fixes /\ f \in Addr
  BY <1>1, StagePlan DEF TypeInv, CallShape, Saves
<1>6. Layers' = (Layers \ {CallLayer}) \cup {CallLayer'}
  <2>1. RecLayers' = RecLayers
    BY <1>1, <1>3, SameRecordLayers
  <2>2. CallLayer \notin RecLayers
    BY <1>1, CallLayerApart, StageLayer
  <2> QED BY <1>1, <1>3, <2>1, <2>2, StageLayer DEF Layers, Pending
<1>7. /\ CallLayer'.addr = Current.addr /\ CallLayer'.orig = Current.orig
      /\ CallLayer'.fixes = Current.fixes /\ CallLayer'.map = call.map
      /\ CallLayer'.left = call.left \ {f}
  BY <1>3, <1>4 DEF CallLayer, Layer
<1>8. mem'[f] = Branch(Current.addr) /\ \A a \in Addr : a # f => mem'[a] = mem[a]
  BY <1>2, <1>5 DEF Put
<1>9. Layered(mem', Layers', h)
  <2> DEFINE l == CallLayer
             n == CallLayer'
  <2>1. /\ l \in Layers /\ l.addr = Current.addr /\ l.orig = Current.orig
        /\ l.fixes = Current.fixes /\ l.map = call.map /\ l.left = call.left
    BY <1>1, StageLayer
  <2>2. Layers' = (Layers \ {l}) \cup {n}
    BY <1>6
  <2>3. /\ n.addr = Current.addr /\ n.orig = Current.orig /\ n.fixes = Current.fixes
        /\ n.map = call.map /\ n.left = call.left \ {f}
    BY <1>7
  <2>4. Layered(mem, Layers, h)
    BY DEF Registry
  <2> HIDE DEF l, n
  <2>5. Layered(mem', (Layers \ {l}) \cup {n}, h)
    BY <1>5, <1>8, <2>1, <2>3, <2>4, LayerWritten DEF Step, Orderly
  <2> QED BY <2>2, <2>5
<1>10. Plans(h)'
  BY <1>1, <1>3 DEF Plans, Early, InStage, Pending, Registry, Free, Fresh
<1> QED BY <1>1, <1>9, <1>10 DEF Registry, Records

\* What the stage has patched becomes a record: the layers are the same.
LEMMA RegRegister ==
  ASSUME NEW h \in Hooks, Registry(h), Step, Register
  PROVE  Registry(h)'
<1>1. /\ call.pc = "fix" /\ call.pc \in InStage /\ call.pc \in Pending /\ call.pc \in Planned
      /\ call.left = {} /\ TypeInv /\ UNCHANGED mem /\ call.req \in Requests
  BY DEF Register, InStage, Pending, Planned, Step, SnapInv, IInv, CallShape, Mapped
<1>2. /\ Saves(Current, h) /\ Free(Current.addr)
      /\ call.stage \in {"guard", "entry"}
      /\ Current.addr = IF call.stage = "entry" THEN call.req.fn ELSE call.req.start
      /\ call.stage = "entry" => Fresh
  BY <1>1, StagePlan, CurrentPlan
<1>3. call.req.fn \in Fn /\ call.req.start \notin Fn /\ call.req.start # call.req.fn
  <2>1. call.req.fn \in Fn /\ call.req.start \in Nat
    BY <1>1, EngineAssumption DEF Fn
  <2>2. \A fn \in Fn : fn \in Nat
    BY EngineAssumption DEF Fn
  <2> QED BY <1>1, <2>1, <2>2, SiteWords DEF Step, Orderly, Discipline, SitesApart
<1> DEFINE r == [used |-> TRUE, addr |-> Current.addr, orig |-> Current.orig,
                 fixes |-> Current.fixes, map |-> call.map,
                 refs |-> IF Fresh THEN 2 ELSE 1]
<1>4. PICK i \in Slot : ~recs[i].used /\ recs' = [recs EXCEPT ![i] = r]
  BY DEF Register, Least
<1>5. /\ r.used /\ r.addr = Current.addr /\ r.map = call.map /\ r.orig = Current.orig
      /\ r.fixes = Current.fixes /\ (call.stage = "entry" => r.refs = 2) /\ Saves(r, h)
      /\ Layer(r, r.map, {}) = CallLayer
  BY <1>1, <1>2 DEF Saves, Cover, Layer, CallLayer
<1> HIDE DEF r
<1>6. recs'[i] = r /\ \A j \in Slot : j # i => recs'[j] = recs[j]
  BY <1>1, <1>4, CallFields
<1>7. /\ \/ call.stage = "entry" /\ call'.pc = "apply" /\ call'.stage = "guard"
         \/ call.stage = "guard" /\ call'.pc = "idle"
      /\ call'.pc = "apply" =>
           call'.req = call.req /\ call'.snap = call.snap /\ call'.plan = call.plan
  <2>1. CASE call.stage = "entry"
    <3>1. call' = [call EXCEPT !.pc = "apply", !.stage = "guard"]
      BY <2>1 DEF Register
    <3> QED BY <1>1, <2>1, <3>1, CallFields
  <2>2. CASE call.stage = "guard"
    BY <2>2, ReturnIdle DEF Register
  <2> QED BY <1>2, <2>1, <2>2
<1>8. Layers' = Layers
  <2>1. RecLayers = {Layer(recs[j], recs[j].map, {}) : j \in {k \in Slot : recs[k].used}}
    BY <1>1, RecordLayers
  <2>2. RecLayers' = {Layer(recs'[j], recs'[j].map, {}) : j \in {k \in Slot : recs'[k].used}}
    BY <1>7 DEF RecLayers, RecLayer, Held
  <2>3. RecLayers' = RecLayers \cup {Layer(r, r.map, {})}
    BY <1>4, <1>5, <1>6, <2>1, <2>2
  <2> QED BY <1>1, <1>5, <1>7, <2>3, StageLayer DEF Layers, Pending
<1>9. Records(h)'
  <2>1. \A j \in Slot : recs'[j].used =>
          Saves(recs'[j], h) /\ (recs'[j].addr \in Fn => recs'[j].refs = 2)
    BY <1>2, <1>3, <1>5, <1>6 DEF Registry, Records
  <2>2. \A j \in Slot : recs'[j].used /\ j # i => recs'[j].addr # r.addr
    BY <1>2, <1>5, <1>6 DEF Free
  <2> QED BY <1>5, <1>6, <2>1, <2>2 DEF Registry, Records
<1>10. Plans(h)'
  <2>1. CASE call'.pc = "idle"
    BY <2>1 DEF Plans, Early, InStage, Pending
  <2>2. CASE call.stage = "entry" /\ call'.pc = "apply" /\ call'.stage = "guard"
    <3>1. Free(call.req.start)'
      BY <1>1, <1>2, <1>3, <1>5, <1>6, <1>7, <2>2 DEF Registry, Plans, Free
    <3> QED BY <1>1, <1>7, <2>2, <3>1 DEF Registry, Plans, Early, InStage, Pending, Free
  <2> QED BY <1>7, <2>1, <2>2
<1> QED BY <1>1, <1>8, <1>9, <1>10 DEF Registry

LEMMA RegUnpatch ==
  ASSUME NEW h \in Hooks, Registry(h), Step, NEW i \in Slot, Unpatch(i)
  PROVE  Registry(h)'
<1>1. /\ call.pc = "idle" /\ UNCHANGED <<mem, recs>> /\ call'.pc = "unfix"
      /\ call'.rec = i /\ call'.left = DOMAIN recs[i].fixes
  BY DEF Unpatch, Enter
<1>2. RecLayers' = RecLayers
  BY <1>1 DEF RecLayers, RecLayer, Held
<1>3. Layers' = Layers
  BY <1>1, <1>2 DEF Layers, Pending
<1>4. Plans(h)'
  BY <1>1 DEF Plans, Early, InStage, Pending
<1> QED BY <1>1, <1>3, <1>4, RegStill

\* The record being removed, and its layer.
LEMMA RemovedLayer ==
  ASSUME NEW h \in Hooks, Registry(h), Step, call.pc \in {"unfix", "release"}
  PROVE  /\ call.rec \in Slot /\ recs[call.rec].used /\ Saves(recs[call.rec], h)
         /\ \A i \in Slot : recs[i].used /\ i # call.rec => recs[i].addr # recs[call.rec].addr
         /\ Layers = RecLayers
         /\ call.pc = "unfix" => RecLayer(call.rec) \in RecLayers
BY DEF Step, IInv, CallShape, Registry, Records, Layers, Pending, RecLayers, Held

LEMMA RegUnfix ==
  ASSUME NEW h \in Hooks, Registry(h), Step, Unfix
  PROVE  Registry(h)'
<1> DEFINE i == call.rec
<1>1. /\ call.pc = "unfix" /\ TypeInv /\ UNCHANGED recs /\ i \in Slot /\ recs[i].used
      /\ Saves(recs[i], h) /\ Layers = RecLayers /\ RecLayer(i) \in RecLayers
      /\ \A j \in Slot : recs[j].used /\ j # i => recs[j].addr # recs[i].addr
      /\ call.left \subseteq DOMAIN recs[i].fixes
  BY RemovedLayer DEF Unfix, Step, SnapInv, IInv, CallShape
<1>2. PICK f \in call.left : /\ mem' = Put(mem, [a \in {f} |-> recs[i].fixes[f]])
                             /\ call' = [call EXCEPT !.left = call.left \ {f}]
  BY DEF Unfix, ApplyBytes, Written
<1>3. call'.pc = "unfix" /\ call'.left = call.left \ {f} /\ call'.rec = call.rec
  BY <1>1, <1>2, CallFields
<1>4. f \in DOMAIN recs[i].fixes /\ f \in Addr /\ recs[i].fixes[f] = HookedCode(h)[f]
  BY <1>1, <1>2 DEF Saves
<1>5. mem'[f] = HookedCode(h)[f] /\ \A a \in Addr : a # f => mem'[a] = mem[a]
  BY <1>2, <1>4 DEF Put
<1> DEFINE l == RecLayer(i)
           n == Layer(recs[i], recs[i].map, DOMAIN recs[i].fixes \ (call.left \ {f}))
<1>6. /\ l.addr = recs[i].addr /\ l.orig = recs[i].orig /\ l.fixes = recs[i].fixes
      /\ l.map = recs[i].map /\ l.left = DOMAIN recs[i].fixes \ call.left
      /\ n.addr = recs[i].addr /\ n.orig = recs[i].orig /\ n.fixes = recs[i].fixes
      /\ n.map = recs[i].map /\ n.left = DOMAIN recs[i].fixes \ (call.left \ {f})
  BY <1>1 DEF RecLayer, Layer
<1>7. Layers' = (Layers \ {l}) \cup {n}
  <2> DEFINE New(j) == IF j = i THEN n ELSE RecLayer(j)
  <2>1. \A j \in Slot : RecLayer(j)' = New(j) /\ RecLayer(j).addr = recs[j].addr
    BY <1>1, <1>3 DEF RecLayer, Layer
  <2>2. Held' = Held /\ Held = {j \in Slot : recs[j].used}
    BY <1>1, <1>3 DEF Held
  <2>3. i \in Held /\ \A j \in Held : j # i => RecLayer(j) # l
    BY <1>1, <1>6, <2>1, <2>2
  <2> HIDE DEF New
  <2>4. RecLayers' = {New(j) : j \in Held} /\ RecLayers = {RecLayer(j) : j \in Held}
    BY <2>1, <2>2 DEF RecLayers
  <2>5. New(i) = n /\ \A j \in Held : j # i => New(j) = RecLayer(j)
    BY DEF New
  <2> HIDE DEF n
  <2>6. RecLayers' = (RecLayers \ {l}) \cup {n}
    BY <2>3, <2>4, <2>5
  <2> QED BY <1>1, <1>3, <2>6 DEF Layers, Pending
<1>8. Layered(mem', Layers', h)
  <2>1. l \in Layers /\ Layered(mem, Layers, h)
    BY <1>1 DEF Registry
  <2> HIDE DEF l, n
  <2>2. /\ f \in n.left /\ f \in DOMAIN l.fixes
        /\ \A a \in DOMAIN l.fixes : a # f => (a \in n.left <=> a \in l.left)
        /\ n.addr = l.addr /\ n.orig = l.orig /\ n.fixes = l.fixes /\ n.map = l.map
    BY <1>4, <1>6
  <2>3. Layered(mem', (Layers \ {l}) \cup {n}, h)
    BY <1>5, <2>1, <2>2, LayerWritten DEF Step, Orderly
  <2> QED BY <1>7, <2>3
<1>9. Plans(h)'
  BY <1>3 DEF Plans, Early, InStage, Pending
<1> QED BY <1>1, <1>8, <1>9 DEF Registry, Records

LEMMA RegRestore ==
  ASSUME NEW h \in Hooks, Registry(h), Step, Restore
  PROVE  Registry(h)'
<1> DEFINE i == call.rec
           l == RecLayer(i)
<1>1. /\ call.pc = "unfix" /\ call.left = {} /\ TypeInv /\ UNCHANGED recs /\ i \in Slot
      /\ recs[i].used /\ Saves(recs[i], h) /\ Layers = RecLayers /\ l \in RecLayers
      /\ \A j \in Slot : recs[j].used /\ j # i => recs[j].addr # recs[i].addr
      /\ mem' = Put(mem, recs[i].orig)
  BY RemovedLayer DEF Restore, Step, SnapInv, ApplyBytes
<1>2. call'.pc = "release" /\ call'.rec = call.rec
  <2>1. call' = [call EXCEPT !.pc = "release"]
    BY DEF Restore
  <2> QED BY <1>1, <2>1, CallFields
<1>3. /\ l.addr = recs[i].addr /\ l.fixes = recs[i].fixes /\ l.left = DOMAIN recs[i].fixes
      /\ Cover(l) = Cover(recs[i])
  BY <1>1 DEF RecLayer, Layer, Cover
<1>4. Layers' = Layers \ {l}
  <2>1. \A j \in Slot : j # i => RecLayer(j)' = RecLayer(j) /\ RecLayer(j).addr = recs[j].addr
    BY <1>1, <1>2 DEF RecLayer, Layer
  <2>2. Held' = Held \ {i} /\ Held = {j \in Slot : recs[j].used}
    BY <1>1, <1>2 DEF Held
  <2>3. \A j \in Held : j # i => RecLayer(j) # l
    BY <1>1, <1>3, <2>1, <2>2
  <2>4. RecLayers' = RecLayers \ {l}
    BY <1>1, <2>1, <2>2, <2>3 DEF RecLayers
  <2> QED BY <1>1, <1>2, <2>4 DEF Layers, Pending
<1>5. \A a \in DOMAIN recs[i].fixes : mem[a] = HookedCode(h)[a]
  BY <1>1, <1>3 DEF Registry, Layered, Placed
<1>6. /\ \A a \in Cover(l) : mem'[a] = HookedCode(h)[a]
      /\ \A a \in Addr : a \notin Cover(l) => mem'[a] = mem[a]
  BY <1>1, <1>3, <1>5 DEF Put, Saves, Cover
<1>7. Layered(mem', Layers', h)
  <2>1. l \in Layers /\ Layered(mem, Layers, h)
    BY <1>1 DEF Registry
  <2> HIDE DEF l
  <2> QED BY <1>4, <1>6, <2>1, LayerRemoved DEF Step, Orderly
<1>8. Plans(h)'
  BY <1>2 DEF Plans, Early, InStage, Pending
<1> QED BY <1>1, <1>7, <1>8 DEF Registry, Records

LEMMA RegRelease ==
  ASSUME NEW h \in Hooks, Registry(h), Step, Release
  PROVE  Registry(h)'
<1> DEFINE i == call.rec
<1>1. /\ call.pc = "release" /\ TypeInv /\ UNCHANGED mem /\ i \in Slot
      /\ Layers = RecLayers /\ recs' = [recs EXCEPT ![i] = Blank] /\ call'.pc = "idle"
  BY RemovedLayer, ReturnIdle DEF Release, Step, SnapInv
<1>2. ~recs'[i].used /\ \A j \in Slot : j # i => recs'[j] = recs[j]
  BY <1>1, CallFields DEF Blank
<1>3. Layers' = Layers
  <2>1. Held' = Held
    BY <1>1, <1>2 DEF Held
  <2>2. \A j \in Held : RecLayer(j)' = RecLayer(j)
    BY <1>1, <1>2 DEF RecLayer, Held
  <2>3. RecLayers' = RecLayers
    BY <2>1, <2>2 DEF RecLayers
  <2> QED BY <1>1, <2>3 DEF Layers, Pending
<1>4. Records(h)'
  BY <1>2 DEF Registry, Records
<1>5. Plans(h)'
  BY <1>1 DEF Plans, Early, InStage, Pending
<1> QED BY <1>1, <1>3, <1>4, <1>5 DEF Registry

(***************************************************************************)
(* Pages that nothing makes read-only again stay writable, so a removal is *)
(* never refused half way.                                                 *)
(***************************************************************************)
Writable ==
  Resets = {} =>
    /\ \A i \in Slot : recs[i].used => \A a \in Cover(recs[i]) : PageOf[a] \in rwx
    /\ call.pc \in Pending =>
         \A a \in DOMAIN Current.orig \cup (DOMAIN Current.fixes \ call.left) : PageOf[a] \in rwx

\* A step that makes pages writable at most, and puts no record in.
LEMMA WritableKeep ==
  ASSUME Writable, TypeInv, Resets = {} => rwx \subseteq rwx',
         \A i \in Slot : recs'[i].used => recs'[i] = recs[i],
         call'.pc \in Pending =>
           /\ call.pc \in Pending /\ call'.left = call.left
           /\ call'.plan = call.plan /\ call'.stage = call.stage
  PROVE  Writable'
<1>1. call'.pc \in Pending => Current' = Current
  BY DEF Current
<1> QED BY <1>1 DEF Writable

LEMMA WritableNext ==
  ASSUME Writable, TypeInv, SnapInv, SnapInv', TableHasRoom, [Next]_vars
  PROVE  Writable'
<1>1. CASE Apply
  <2>1. /\ rwx' = rwx \cup PagesOf(DOMAIN Current.orig) /\ UNCHANGED recs
        /\ call.pc = "apply" /\ call' = [call EXCEPT !.pc = "fix", !.left = DOMAIN Current.fixes]
    BY <1>1 DEF Apply, ApplyBytes
  <2>2. call'.left = DOMAIN Current.fixes /\ call'.plan = call.plan /\ call'.stage = call.stage
    BY <2>1, CallFields
  <2>3. Current' = Current
    BY <2>2 DEF Current
  <2>4. \A a \in DOMAIN Current.orig : PageOf[a] \in rwx'
    BY <2>1 DEF PagesOf
  <2> QED BY <2>1, <2>2, <2>3, <2>4 DEF Writable
<1>2. CASE Fix
  <2>1. PICK f \in call.left :
          /\ rwx' = rwx \cup PagesOf({f}) /\ call' = [call EXCEPT !.left = call.left \ {f}]
          /\ UNCHANGED recs /\ call.pc = "fix"
    BY <1>2 DEF Fix, ApplyBytes, Written
  <2>2. call'.left = call.left \ {f} /\ call'.plan = call.plan /\ call'.stage = call.stage
    BY <2>1, CallFields
  <2>3. Current' = Current
    BY <2>2 DEF Current
  <2>4. PageOf[f] \in rwx'
    BY <2>1 DEF PagesOf
  <2> QED BY <2>1, <2>2, <2>3, <2>4 DEF Writable, Pending
<1>3. CASE Register
  <2>1. /\ call.pc \in Pending /\ call.left = {} /\ UNCHANGED rwx /\ call'.pc \notin Pending
    <3>1. CASE call.stage = "entry"
      BY <1>3, <3>1, CallFields DEF Register, Pending
    <3>2. CASE call.stage # "entry"
      BY <1>3, <3>2, ReturnIdle DEF Register, Pending
    <3> QED BY <3>1, <3>2
  <2>2. PICK i \in Slot : recs' = [recs EXCEPT ![i] =
            [used |-> TRUE, addr |-> Current.addr, orig |-> Current.orig,
             fixes |-> Current.fixes, map |-> call.map, refs |-> IF Fresh THEN 2 ELSE 1]]
    BY <1>3 DEF Register
  <2>3. /\ recs'[i].orig = Current.orig /\ recs'[i].fixes = Current.fixes
        /\ \A j \in Slot : j # i => recs'[j] = recs[j]
    BY <2>2, CallFields
  <2>4. Cover(recs'[i]) = DOMAIN Current.orig \cup (DOMAIN Current.fixes \ call.left)
    BY <2>1, <2>3 DEF Cover
  <2>5. ASSUME NEW j \in Slot, j # i PROVE Cover(recs'[j]) = Cover(recs[j])
    BY <2>3, <2>5
  <2> QED BY <2>1, <2>3, <2>4, <2>5 DEF Writable
<1>4. CASE Release
  <2>1. UNCHANGED rwx /\ recs' = [recs EXCEPT ![call.rec] = Blank] /\ call'.pc = "idle"
    BY <1>4, ReturnIdle DEF Release
  <2>2. \A i \in Slot : recs'[i].used => recs'[i] = recs[i]
    BY <2>1, CallFields DEF Blank
  <2> QED BY <2>1, <2>2, WritableKeep DEF Pending
<1>5. CASE FixRefused
  <2>1. call' = [call EXCEPT !.pc = "undo"] /\ call.pc = "fix" /\ UNCHANGED <<recs, rwx>>
    BY <1>5 DEF FixRefused
  <2> QED BY <2>1, CallFields, WritableKeep DEF Pending
<1>6. CASE Reject \/ (\E p \in Resets : ResetPage(p)) \/ UNCHANGED vars
  <2>1. UNCHANGED <<recs, call>> /\ (Resets = {} => UNCHANGED rwx)
    BY <1>6 DEF Reject, ResetPage, vars
  <2> QED BY <2>1, WritableKeep
<1>7. CASE \/ \E r \in Requests : GuardBlock(r) \/ GuardBlockSnap(r)
           \/ \E i \in Slot : Unpatch(i)
           \/ \E m \in MapId : MapTrampoline(m)
           \/ MapFails \/ PlanGuard \/ PlanEntry \/ PlanFails \/ ApplyRefused
           \/ Undo \/ Unmap \/ Unfix \/ Restore \/ UnpatchRefused
  <2>1. UNCHANGED recs /\ rwx \subseteq rwx'
    BY <1>7 DEF GuardBlock, GuardBlockSnap, Begin, Unpatch, MapTrampoline, MapFails, PlanGuard,
       PlanEntry, PlanFails, ApplyRefused, Undo, Unmap, Unfix, Restore, UnpatchRefused, ApplyBytes
  <2>2. call'.pc \notin Pending
    <3>1. CASE \E r \in Requests : GuardBlock(r) \/ GuardBlockSnap(r)
      BY <3>1 DEF GuardBlock, GuardBlockSnap, Begin, Enter, Pending
    <3>2. CASE \E i \in Slot : Unpatch(i)
      BY <3>2 DEF Unpatch, Enter, Pending
    <3>3. CASE MapFails \/ PlanFails \/ Unmap \/ UnpatchRefused
      BY <3>3, ReturnIdle DEF MapFails, PlanFails, Unmap, UnpatchRefused, Pending
    <3>4. CASE (\E m \in MapId : MapTrampoline(m)) \/ Unfix \/ Restore \/ ApplyRefused \/ Undo
      BY <3>4, CallFields DEF MapTrampoline, Unfix, Restore, ApplyRefused, Undo, AfterUndo, Pending
    <3>5. CASE PlanGuard
      <4>1. PICK pc, d : call' = [call EXCEPT !.pc = pc, !.plan["guard"] = d]
                         /\ pc \in {"plan_entry", "apply"}
        BY <3>5 DEF PlanGuard
      <4> QED BY <4>1, CallFields DEF Pending
    <3>6. CASE PlanEntry
      <4>1. PICK d : call' = [call EXCEPT !.pc = "apply", !.stage = "entry", !.plan["entry"] = d]
        BY <3>6 DEF PlanEntry
      <4> QED BY <4>1, CallFields DEF Pending
    <3> QED BY <1>7, <3>1, <3>2, <3>3, <3>4, <3>5, <3>6
  <2> QED BY <2>1, <2>2, WritableKeep
<1>8. ~RegisterFails /\ ~UndoEntry /\ ~UndoUnplannedEntry
  BY DEF RegisterFails, TableHasRoom, UndoEntry, UndoUnplannedEntry, SnapInv, CallPages
<1> QED
  BY <1>1, <1>2, <1>3, <1>4, <1>5, <1>6, <1>7, <1>8 DEF Next, Install, Uninstall

\* A removal that has begun is carried through.
LEMMA RemovalGoesThrough ==
  ASSUME Writable, SnapInv, IInv, WritesRepeat
  PROVE  ~UnpatchRefused
<1> SUFFICES ASSUME UnpatchRefused PROVE FALSE
  OBVIOUS
<1>1. /\ call.pc = "unfix" /\ recs[call.rec].used /\ call.rec \in Slot
      /\ call.left \subseteq DOMAIN recs[call.rec].fixes
  BY DEF UnpatchRefused, IInv, CallShape
<1>2. PICK a \in Cover(recs[call.rec]) : PageOf[a] \in Faulty \ rwx
  <2>1. CASE call.left # {}
    BY <1>1, <2>1 DEF UnpatchRefused, Refused, PagesOf, Least, Cover
  <2>2. CASE call.left = {}
    BY <1>1, <2>2 DEF UnpatchRefused, Refused, PagesOf, Cover
  <2> QED BY <2>1, <2>2
<1> QED BY <1>1, <1>2 DEF Writable, WritesRepeat

(***************************************************************************)
(* The registry and the code agree.                                        *)
(***************************************************************************)
LEMMA RegNext ==
  ASSUME NEW h \in Hooks, Registry(h), Step, Writable, TableHasRoom, [Next]_vars
  PROVE  Registry(h)'
<1>1. SnapInv /\ IInv /\ TypeInv /\ WritesRepeat
  BY DEF Step, SnapInv, Orderly
<1>2. CASE MapFails \/ PlanFails \/ Unmap
  <2>1. /\ call.pc \in {"map", "plan", "plan_entry", "unmap"} /\ call'.pc = "idle"
        /\ UNCHANGED <<mem, recs>>
    BY <1>2, ReturnIdle DEF MapFails, PlanFails, Unmap
  <2> QED BY <2>1, RegAway DEF Pending, InStage, Early
<1>3. CASE Reject \/ (\E p \in Resets : ResetPage(p)) \/ UNCHANGED vars
  <2>1. UNCHANGED <<mem, recs, call>>
    BY <1>3 DEF Reject, ResetPage, vars
  <2>2. Layers' = Layers
    BY <2>1 DEF Layers, RecLayers, Held, RecLayer, CallLayer, Current
  <2>3. Plans(h)'
    BY <2>1 DEF Registry, Plans, Free, Fresh
  <2> QED BY <2>1, <2>2, <2>3, RegStill
<1>4. ~RegisterFails /\ ~UndoEntry /\ ~UndoUnplannedEntry
  BY <1>1 DEF RegisterFails, TableHasRoom, UndoEntry, UndoUnplannedEntry, SnapInv, CallPages
<1>5. ~UnpatchRefused
  BY <1>1, RemovalGoesThrough
<1>6. CASE Install
  BY <1>2, <1>4, <1>6, RegMapTrampoline, RegPlanGuard, RegPlanEntry, RegApply, RegRefused,
     RegFix, RegRegister, RegUndo DEF Install
<1>7. CASE Uninstall
  BY <1>5, <1>7, RegUnfix, RegRestore, RegRelease DEF Uninstall
<1> QED BY <1>3, <1>6, <1>7, RegBegin, RegUnpatch DEF Next

RegInv == IInv /\ SnapInv /\ Writable /\ \E h \in Hooks : Registry(h)

LEMMA RegInit == Init => RegInv
<1> SUFFICES ASSUME Init PROVE RegInv
  OBVIOUS
<1>1. IInv /\ SnapInv
  BY LandInit, SnapInit
<1>2. /\ call.pc = "idle" /\ \A i \in Slot : ~recs[i].used
  BY DEF Init, Idle, Enter, Blank
<1>3. PICK h \in Hooks : mem = HookedCode(h)
  BY DEF Init
<1>4. Layers = {}
  BY <1>2 DEF Layers, RecLayers, Held, Pending
<1>5. Registry(h)
  BY <1>2, <1>3, <1>4 DEF Registry, Layered, Records, Plans, Early, InStage, Pending
<1>6. Writable
  BY <1>2 DEF Writable, Pending
<1> QED BY <1>1, <1>5, <1>6 DEF RegInv

LEMMA RegInvNext ==
  ASSUME RegInv, Orderly, TableHasRoom, [Next]_vars
  PROVE  RegInv'
<1>1. IInv' /\ SnapInv'
  BY LandNext, SnapNext DEF RegInv, Orderly
<1>2. Writable'
  BY <1>1, WritableNext DEF RegInv, SnapInv
<1>3. Step
  BY <1>1 DEF Step, RegInv
<1>4. PICK h \in Hooks : Registry(h)
  BY DEF RegInv
<1>5. Registry(h)'
  BY <1>3, <1>4, RegNext DEF RegInv
<1> QED BY <1>1, <1>2, <1>5 DEF RegInv

LEMMA RegistryInvariant ==
  ASSUME Orderly
  PROVE  Spec /\ []TableHasRoom => []RegInv
<1>1. RegInv /\ TableHasRoom /\ [Next]_vars => RegInv'
  BY RegInvNext
<1> QED BY <1>1, RegInit, PTL DEF Spec

\* Between calls every layer is that of a record, and whole.
LEMMA IdleLayers ==
  ASSUME NEW h \in Hooks, Registry(h), call.pc = "idle"
  PROVE  /\ \A i \in Slot : recs[i].used =>
              /\ Saves(recs[i], h)
              /\ \A a \in DOMAIN recs[i].orig : /\ mem[a].kind = "patch"
                                                /\ mem[a].at = recs[i].addr
                                                /\ mem[a].map = recs[i].map
              /\ \A a \in DOMAIN recs[i].fixes : mem[a] = Branch(recs[i].addr)
         /\ \A a \in Addr : ~Covered(a) => mem[a] = HookedCode(h)[a]
<1>1. Layers = {Layer(recs[i], recs[i].map, {}) : i \in {j \in Slot : recs[j].used}}
  BY RecordLayers DEF Layers, Pending
<1>2. ASSUME NEW i \in Slot, recs[i].used
      PROVE  /\ Saves(recs[i], h)
             /\ \A a \in DOMAIN recs[i].orig : /\ mem[a].kind = "patch"
                                               /\ mem[a].at = recs[i].addr
                                               /\ mem[a].map = recs[i].map
             /\ \A a \in DOMAIN recs[i].fixes : mem[a] = Branch(recs[i].addr)
  <2> DEFINE l == Layer(recs[i], recs[i].map, {})
  <2>1. /\ l.addr = recs[i].addr /\ l.orig = recs[i].orig /\ l.fixes = recs[i].fixes
        /\ l.map = recs[i].map /\ l.left = {}
    BY LayerFields
  <2>2. l \in Layers
    BY <1>1, <1>2
  <2> HIDE DEF l
  <2>3. Placed(mem, l, h)
    BY <2>2 DEF Registry, Layered
  <2> QED BY <1>2, <2>1, <2>3 DEF Placed, Registry, Records
<1>3. ASSUME NEW a \in Addr, ~Covered(a)
      PROVE  mem[a] = HookedCode(h)[a]
  <2>1. \A l \in Layers : a \notin Cover(l)
    BY <1>1, <1>3, LayerFields DEF Covered, Cover
  <2> QED BY <2>1 DEF Registry, Layered
<1> QED BY <1>2, <1>3

\* Between calls the registry and the code agree (instr.c 298-372, 635-660):
\* what each record would give back is in its place, the jump and the
\* redirected branches, and every other word is what was found before the first
\* call.  It takes places to patch that no branch joins, hooks that the file
\* does not hide, and writes that can be repeated.
THEOREM RegistryAgrees ==
  ASSUME Orderly
  PROVE  Spec /\ []TableHasRoom => []RegistryMatchesCode
<1>1. ASSUME RegInv PROVE RegistryMatchesCode
  <2>1. PICK h \in Hooks : Registry(h)
    BY <1>1 DEF RegInv
  <2>2. ASSUME call.pc = "idle"
        PROVE  /\ \A i \in Slot : recs[i].used => InPlace(recs[i])
               /\ \A a \in Addr : Covered(a) \/ mem[a] = HookedCode(h)[a]
    BY <2>1, <2>2, IdleLayers DEF InPlace
  <2> QED BY <2>2 DEF RegistryMatchesCode
<1> QED BY <1>1, RegistryInvariant, PTL

\* Once no record is left the code is what was found at the start
\* (instr.c 635-660).
COROLLARY CodeGivenBack ==
  ASSUME Orderly
  PROVE  Spec /\ []TableHasRoom => []CodeRestored
<1>1. ASSUME RegInv PROVE CodeRestored
  <2>1. PICK h \in Hooks : Registry(h)
    BY <1>1 DEF RegInv
  <2>2. ASSUME call.pc = "idle", \A i \in Slot : ~recs[i].used
        PROVE  mem = HookedCode(h)
    <3>1. \A a \in Addr : mem[a] = HookedCode(h)[a]
      BY <2>1, <2>2, IdleLayers DEF Covered
    <3>2. mem \in [Addr -> Word] /\ HookedCode(h) \in [Addr -> Word]
      BY <1>1, HookedCodeType DEF RegInv, IInv, TypeOK
    <3> QED BY <3>1, <3>2
  <2> QED BY <2>2 DEF CodeRestored
<1> QED BY <1>1, RegistryInvariant, PTL

(***************************************************************************)
(* The engine implements the patch table.  What a call has not patched     *)
(* itself is as it was when the call began.                                *)
(***************************************************************************)
Whole(rs) == {Layer(rs[i], rs[i].map, {}) : i \in {j \in Slot : rs[j].used}}
Removal == {"unfix", "release"}

Since(h) ==
  call.pc # "idle" =>
    /\ Layered(before.mem, Whole(before.recs), h)
    /\ \A i \in Slot : before.recs[i].used =>
         /\ recs[i] = before.recs[i]
         /\ ~(call.pc \in Removal /\ i = call.rec) =>
              \A a \in Cover(recs[i]) : mem[a] = before.mem[a]
    /\ call.pc \in Removal => recs = before.recs

\* A step of a call that writes no more than the words of r.
LEMMA SinceWrite ==
  ASSUME NEW h \in Hooks, Since(h), Step, Registry(h), call.pc # "idle",
         UNCHANGED <<recs, before>>,
         call'.pc \in Removal <=> call.pc \in Removal,
         call.pc \in Removal => call'.rec = call.rec,
         NEW r, Saves(r, h),
         \A i \in Slot : recs[i].used /\ ~(call.pc \in Removal /\ i = call.rec) =>
           recs[i].addr # r.addr,
         \A a \in Addr : a \notin Cover(r) => mem'[a] = mem[a]
  PROVE  Since(h)'
<1>1. ASSUME NEW i \in Slot, before.recs[i].used, ~(call.pc \in Removal /\ i = call.rec)
      PROVE  \A a \in Cover(recs[i]) : mem'[a] = before.mem[a]
  <2>1. /\ recs[i].used /\ Saves(recs[i], h) /\ recs[i].addr # r.addr
        /\ \A a \in Cover(recs[i]) : mem[a] = before.mem[a]
    BY <1>1 DEF Since, Registry, Records
  <2>2. Cover(recs[i]) \cap Cover(r) = {}
    BY <2>1, LayersApart DEF Step, Orderly
  <2>3. Cover(recs[i]) \subseteq Addr
    BY <2>1 DEF Saves, Cover
  <2> QED BY <2>1, <2>2, <2>3
<1>2. \A i \in Slot : Cover(recs[i])' = Cover(recs[i])
  OBVIOUS
<1> QED BY <1>1, <1>2 DEF Since

\* A step of a call that writes no code and keeps the records it found.
LEMMA SinceKeep ==
  ASSUME NEW h \in Hooks, Since(h), call.pc \notin Removal \cup {"idle"}, call'.pc \notin Removal,
         UNCHANGED <<mem, before>>, \A i \in Slot : recs[i].used => recs'[i] = recs[i]
  PROVE  Since(h)'
<1>1. \A i \in Slot : before.recs[i].used => recs'[i] = recs[i] /\ recs[i] = before.recs[i]
  BY DEF Since
<1>2. \A i \in Slot : before.recs[i].used => Cover(recs'[i]) = Cover(recs[i])
  BY <1>1
<1> QED BY <1>1, <1>2 DEF Since

\* A call begins.
LEMMA SinceBegin ==
  ASSUME NEW h \in Hooks, Registry(h), call.pc = "idle", UNCHANGED <<mem, recs>>,
         before' = [mem |-> mem, maps |-> maps, recs |-> recs]
  PROVE  Since(h)'
<1>1. Layers = Whole(recs)
  BY RecordLayers DEF Layers, Pending, Whole
<1>2. Layered(mem, Whole(recs), h)
  BY <1>1 DEF Registry
<1>3. before'.mem = mem /\ before'.recs = recs
  OBVIOUS
<1>4. Whole(before.recs)' = Whole(recs)
  BY <1>3 DEF Whole
<1>5. Layered(before.mem, Whole(before.recs), h)'
  BY <1>2, <1>3, <1>4 DEF Layered
<1> QED BY <1>3, <1>5 DEF Since

LEMMA SinceNext ==
  ASSUME NEW h \in Hooks, Since(h), Step, Registry(h), Writable, TableHasRoom, [Next]_vars
  PROVE  Since(h)'
<1>1. SnapInv /\ IInv /\ TypeInv /\ WritesRepeat
  BY DEF Step, SnapInv, Orderly
<1>2. CASE \/ \E r \in Requests : GuardBlock(r) \/ GuardBlockSnap(r)
           \/ \E i \in Slot : Unpatch(i)
  BY <1>2, SinceBegin DEF GuardBlock, GuardBlockSnap, Begin, Unpatch
<1>3. CASE Reject \/ (\E p \in Resets : ResetPage(p)) \/ UNCHANGED vars
  <2>1. UNCHANGED <<mem, recs, call, before>>
    BY <1>3 DEF Reject, ResetPage, vars
  <2> QED BY <2>1 DEF Since, Whole
<1>4. CASE call'.pc = "idle"
  BY <1>4 DEF Since
<1>5. CASE (\E m \in MapId : MapTrampoline(m)) \/ PlanGuard \/ PlanEntry \/ ApplyRefused \/ FixRefused
  <2>1. UNCHANGED <<mem, recs, before>> /\ call.pc \notin Removal \cup {"idle"}
    BY <1>5 DEF MapTrampoline, PlanGuard, PlanEntry, ApplyRefused, FixRefused, Removal
  <2>2. call'.pc \notin Removal
    <3>1. CASE (\E m \in MapId : MapTrampoline(m)) \/ ApplyRefused \/ FixRefused
      BY <1>1, <3>1, CallFields DEF MapTrampoline, ApplyRefused, FixRefused, AfterUndo, Removal
    <3>2. CASE PlanGuard
      <4>1. PICK pc, d : call' = [call EXCEPT !.pc = pc, !.plan["guard"] = d]
                         /\ pc \in {"plan_entry", "apply"}
        BY <3>2 DEF PlanGuard
      <4> QED BY <1>1, <4>1, CallFields DEF Removal
    <3>3. CASE PlanEntry
      <4>1. PICK d : call' = [call EXCEPT !.pc = "apply", !.stage = "entry", !.plan["entry"] = d]
        BY <3>3 DEF PlanEntry
      <4> QED BY <1>1, <4>1, CallFields DEF Removal
    <3> QED BY <1>5, <3>1, <3>2, <3>3
  <2> QED BY <2>1, <2>2, SinceKeep
<1>6. CASE Register
  <2>1. CASE call.stage = "entry"
    <3>1. PICK i, r : i \in Slot /\ ~recs[i].used /\ recs' = [recs EXCEPT ![i] = r]
      BY <1>6 DEF Register, Least
    <3>2. \A j \in Slot : recs[j].used => recs'[j] = recs[j]
      BY <1>1, <3>1, CallFields
    <3>3. /\ call.pc = "fix" /\ call'.pc = "apply" /\ UNCHANGED <<mem, before>>
      BY <1>1, <1>6, <2>1, CallFields DEF Register
    <3> QED BY <3>2, <3>3, SinceKeep DEF Removal
  <2>2. CASE call.stage # "entry"
    BY <1>4, <1>6, <2>2, ReturnIdle DEF Register
  <2> QED BY <2>1, <2>2
<1>7. CASE Apply \/ Fix \/ Undo
  <2>1. /\ call.pc \in InStage /\ UNCHANGED <<recs, before>> /\ call.pc \in {"apply", "fix", "undo"}
    BY <1>7 DEF Apply, Fix, Undo, InStage, Pending
  <2>2. Saves(Current, h) /\ Free(Current.addr)
    BY <1>1, <2>1, StagePlan
  <2>3. call'.pc \notin Removal
    BY <1>1, <1>7, CallFields DEF Apply, Fix, Undo, AfterUndo, Removal
  <2>4. \A a \in Addr : a \notin Cover(Current) => mem'[a] = mem[a]
    <3>1. CASE Apply
      <4>1. mem' = Put(mem, [a \in DOMAIN Current.orig |->
                               Patch(Current.addr, Current.len, call.map, call.stage)])
        BY <3>1 DEF Apply, ApplyBytes
      <4> QED BY <4>1 DEF Put, Cover
    <3>2. CASE Fix
      <4>1. PICK f \in call.left : mem' = Put(mem, [a \in {f} |-> Branch(Current.addr)])
        BY <3>2 DEF Fix, ApplyBytes
      <4>2. f \in DOMAIN Current.fixes
        BY <1>1, <3>2, <4>1 DEF Fix, TypeInv, CallShape, Pending
      <4> QED BY <4>1, <4>2 DEF Put, Cover
    <3>3. CASE Undo
      BY <3>3 DEF Undo, RolledBack, Put, Done, Cover
    <3> QED BY <1>7, <3>1, <3>2, <3>3
  <2> QED BY <2>1, <2>2, <2>3, <2>4, SinceWrite DEF Removal, Free
<1>8. CASE Unfix \/ Restore
  <2> DEFINE r == recs[call.rec]
  <2>1. /\ call.pc = "unfix" /\ UNCHANGED <<recs, before>> /\ Saves(r, h)
        /\ \A i \in Slot : recs[i].used /\ i # call.rec => recs[i].addr # r.addr
        /\ call.left \subseteq DOMAIN r.fixes
    BY <1>1, <1>8, RemovedLayer DEF Unfix, Restore, IInv, CallShape
  <2>2. call'.pc \in Removal /\ call'.rec = call.rec
    BY <1>1, <1>8, CallFields DEF Unfix, Restore, Removal
  <2>3. \A a \in Addr : a \notin Cover(r) => mem'[a] = mem[a]
    <3>1. CASE Unfix
      <4>1. PICK f \in call.left : mem' = Put(mem, [a \in {f} |-> r.fixes[f]])
        BY <3>1 DEF Unfix, ApplyBytes
      <4> QED BY <2>1, <4>1 DEF Put, Cover
    <3>2. CASE Restore
      BY <3>2 DEF Restore, ApplyBytes, Put, Cover
    <3> QED BY <1>8, <3>1, <3>2
  <2> HIDE DEF r
  <2> QED BY <2>1, <2>2, <2>3, SinceWrite DEF Removal
<1>9. CASE MapFails \/ PlanFails \/ Unmap \/ Release
  BY <1>4, <1>9, ReturnIdle DEF MapFails, PlanFails, Unmap, Release
<1>10. ~RegisterFails /\ ~UndoEntry /\ ~UndoUnplannedEntry /\ ~UnpatchRefused
  <2>1. ~UnpatchRefused
    BY <1>1, RemovalGoesThrough
  <2> QED BY <1>1, <2>1 DEF RegisterFails, TableHasRoom, UndoEntry, UndoUnplannedEntry, SnapInv, CallPages
<1> QED
  BY <1>2, <1>3, <1>5, <1>6, <1>7, <1>8, <1>9, <1>10 DEF Next, Install, Uninstall

(***************************************************************************)
(* What a table of records, over a code, shows of itself.                  *)
(***************************************************************************)
\* The records are orderly, and where none is the code is what was found.
Consistent(rs, code, h) ==
  /\ code \in [Addr -> Word]
  /\ \A i \in Slot : rs[i].used => Saves(rs[i], h)
  /\ \A i, j \in Slot : rs[i].used /\ rs[j].used /\ rs[i].addr = rs[j].addr => i = j
  /\ \A a \in Addr : (\A i \in Slot : rs[i].used => a \notin Cover(rs[i])) =>
                       code[a] = HookedCode(h)[a]

LEMMA CoversApart ==
  ASSUME Discipline, Independent, NEW h \in Hooks, NEW rs, NEW code, Consistent(rs, code, h),
         NEW i \in Slot, NEW j \in Slot, rs[i].used, rs[j].used, i # j
  PROVE  Cover(rs[i]) \cap Cover(rs[j]) = {} /\ rs[i].addr # rs[j].addr
BY LayersApart DEF Consistent

\* What a record gives back is what was found.
LEMMA SavedWords ==
  ASSUME NEW h \in Hooks, NEW r, NEW code, Saves(r, h)
  PROVE  /\ Cover(r) \subseteq Addr
         /\ \A a \in Cover(r) : PatchOf(r, code).saved[a] = HookedCode(h)[a]
BY DEF Saves, Cover, PatchOf

\* From patches P over code to patches Q over code2: some are put in, one is taken out.
PutIn(P, code, Q, code2) ==
  /\ P \subseteq Q /\ Q # P /\ Table!Separate(Q)
  /\ \A p \in Q \ P : p.saved = [a \in DOMAIN p.words |-> code[a]]
  /\ code2 = Table!Overlaid(code, Q \ P)
TakenOut(P, code, Q, code2) ==
  \E p \in P :
    /\ Q = P \ {p}
    /\ code2 = [a \in Addr |-> IF a \in DOMAIN p.words THEN p.saved[a] ELSE code[a]]

LEMMA TableInstall ==
  ASSUME Discipline, Independent, NEW h \in Hooks, NEW rs, NEW code, NEW rs2, NEW code2,
         Consistent(rs, code, h), Consistent(rs2, code2, h),
         \A i \in Slot : rs[i].used =>
           rs2[i] = rs[i] /\ \A a \in Cover(rs[i]) : code2[a] = code[a],
         \E i \in Slot : rs2[i].used /\ ~rs[i].used
  PROVE  PutIn(Patches(rs, code), code, Patches(rs2, code2), code2)
<1> DEFINE P == Patches(rs, code)
           Q == Patches(rs2, code2)
           New == {i \in Slot : rs2[i].used /\ ~rs[i].used}
<1>1. ASSUME NEW i \in Slot, rs[i].used
      PROVE  rs2[i].used /\ PatchOf(rs[i], code) = PatchOf(rs2[i], code2)
  <2>1. rs2[i] = rs[i] /\ \A a \in Cover(rs[i]) : code2[a] = code[a]
    BY <1>1
  <2>2. [a \in Cover(rs[i]) |-> code2[a]] = [a \in Cover(rs[i]) |-> code[a]]
    BY <2>1
  <2> QED BY <1>1, <2>1, <2>2 DEF PatchOf, Cover
<1>2. P \subseteq Q
  BY <1>1 DEF Patches
<1>3. ASSUME NEW i \in New, NEW j \in Slot, rs[j].used
      PROVE  rs2[i].addr # rs[j].addr /\ Cover(rs2[i]) \cap Cover(rs[j]) = {}
  <2>1. rs2[j] = rs[j] /\ rs2[j].used /\ rs2[i].used /\ i # j /\ i \in Slot
    BY <1>1, <1>3
  <2>2. rs2[i].addr # rs2[j].addr /\ Cover(rs2[i]) \cap Cover(rs2[j]) = {}
    BY <2>1, CoversApart
  <2> QED BY <2>1, <2>2
<1>4. ASSUME NEW i \in New PROVE PatchOf(rs2[i], code2) \in Q \ P
  <2>1. PatchOf(rs2[i], code2) \in Q
    BY <1>4 DEF Patches
  <2>2. ASSUME PatchOf(rs2[i], code2) \in P PROVE FALSE
    <3>1. PICK j \in Slot : rs[j].used /\ PatchOf(rs2[i], code2) = PatchOf(rs[j], code)
      BY <2>2 DEF Patches
    <3>2. rs2[i].addr = rs[j].addr
      BY <3>1 DEF PatchOf
    <3> QED BY <1>3, <3>1, <3>2
  <2> QED BY <2>1, <2>2
<1>5. ASSUME NEW p \in Q \ P
      PROVE  \E i \in New : p = PatchOf(rs2[i], code2)
  <2>1. PICK i \in Slot : rs2[i].used /\ p = PatchOf(rs2[i], code2)
    BY DEF Patches
  <2>2. rs[i].used => p \in P
    BY <1>1, <2>1 DEF Patches
  <2> QED BY <2>1, <2>2
<1>6. Q # P
  BY <1>4
<1>7. Table!Separate(Q)
  <2>1. ASSUME NEW p \in Q, NEW q \in Q, p # q
        PROVE  DOMAIN p.words \cap DOMAIN q.words = {}
    <3>1. PICK i \in Slot : rs2[i].used /\ p = PatchOf(rs2[i], code2)
      BY DEF Patches
    <3>2. PICK j \in Slot : rs2[j].used /\ q = PatchOf(rs2[j], code2)
      BY DEF Patches
    <3>3. i # j
      BY <2>1, <3>1, <3>2
    <3>4. Cover(rs2[i]) \cap Cover(rs2[j]) = {}
      BY <3>1, <3>2, <3>3, CoversApart
    <3> QED BY <3>1, <3>2, <3>4 DEF PatchOf, Cover
  <2> QED BY <2>1 DEF Table!Separate
<1>8. ASSUME NEW i \in New, NEW a \in Cover(rs2[i]) PROVE code[a] = HookedCode(h)[a]
  <2>1. a \in Addr
    BY SavedWords DEF Consistent
  <2>2. \A j \in Slot : rs[j].used => a \notin Cover(rs[j])
    BY <1>3
  <2> QED BY <2>1, <2>2 DEF Consistent
<1>9. ASSUME NEW p \in Q \ P PROVE p.saved = [a \in DOMAIN p.words |-> code[a]]
  <2>1. PICK i \in New : p = PatchOf(rs2[i], code2)
    BY <1>5
  <2>2. Saves(rs2[i], h)
    BY DEF Consistent
  <2>3. /\ DOMAIN p.words = Cover(rs2[i])
        /\ p.saved = [a \in Cover(rs2[i]) |->
                        IF a \in DOMAIN rs2[i].orig THEN rs2[i].orig[a] ELSE rs2[i].fixes[a]]
    BY <2>1 DEF PatchOf, Cover
  <2>4. \A a \in Cover(rs2[i]) :
          (IF a \in DOMAIN rs2[i].orig THEN rs2[i].orig[a] ELSE rs2[i].fixes[a]) = code[a]
    BY <1>8, <2>2 DEF Saves, Cover
  <2> QED BY <2>3, <2>4
<1>10. ASSUME NEW a \in Addr
       PROVE  code2[a] = IF a \in Table!Span(Q \ P)
                         THEN (CHOOSE p \in Q \ P : a \in DOMAIN p.words).words[a]
                         ELSE code[a]
  <2>1. CASE a \in Table!Span(Q \ P)
    <3>1. \E p \in Q \ P : a \in DOMAIN p.words
      BY <2>1 DEF Table!Span
    <3> DEFINE q == CHOOSE p \in Q \ P : a \in DOMAIN p.words
    <3>2. q \in Q \ P /\ a \in DOMAIN q.words
      BY <3>1
    <3> HIDE DEF q
    <3>3. PICK i \in New : q = PatchOf(rs2[i], code2)
      BY <1>5, <3>2
    <3>4. q.words[a] = code2[a]
      BY <3>2, <3>3 DEF PatchOf
    <3> QED BY <2>1, <3>4 DEF q
  <2>2. CASE a \notin Table!Span(Q \ P)
    <3>1. ASSUME NEW i \in New PROVE a \notin Cover(rs2[i])
      <4>1. DOMAIN PatchOf(rs2[i], code2).words = Cover(rs2[i])
        BY DEF PatchOf, Cover
      <4>2. \A q \in Q \ P : a \notin DOMAIN q.words
        BY <2>2 DEF Table!Span
      <4> QED BY <1>4, <4>1, <4>2
    <3>2. CASE \E i \in Slot : rs[i].used /\ a \in Cover(rs[i])
      BY <2>2, <3>2
    <3>3. CASE \A i \in Slot : rs[i].used => a \notin Cover(rs[i])
      <4>1. \A i \in Slot : rs2[i].used => a \notin Cover(rs2[i])
        BY <3>1, <3>3
      <4>2. code2[a] = HookedCode(h)[a] /\ code[a] = HookedCode(h)[a]
        BY <3>3, <4>1 DEF Consistent
      <4> QED BY <2>2, <4>2
    <3> QED BY <3>2, <3>3
  <2> QED BY <2>1, <2>2
<1>11. code2 = [a \in Addr |-> code2[a]]
  BY DEF Consistent
<1> HIDE DEF P, Q
<1>12. code2 = [a \in Addr |->
                  IF a \in Table!Span(Q \ P)
                  THEN (CHOOSE p \in Q \ P : a \in DOMAIN p.words).words[a]
                  ELSE code[a]]
  BY <1>10, <1>11
<1>13. PutIn(P, code, Q, code2)
  BY <1>2, <1>6, <1>7, <1>9, <1>12 DEF PutIn, Table!Overlaid
<1> QED BY <1>13 DEF P, Q

LEMMA TableUninstall ==
  ASSUME Discipline, Independent, NEW h \in Hooks, NEW rs, NEW code, NEW rs2, NEW code2,
         Consistent(rs, code, h), Consistent(rs2, code2, h), NEW i \in Slot, rs[i].used, ~rs2[i].used,
         \A j \in Slot : j # i =>
           rs2[j] = rs[j] /\ (rs[j].used => \A a \in Cover(rs[j]) : code2[a] = code[a])
  PROVE  TakenOut(Patches(rs, code), code, Patches(rs2, code2), code2)
<1> DEFINE p == PatchOf(rs[i], code)
           P == Patches(rs, code)
           Q == Patches(rs2, code2)
<1>1. p \in P
  BY DEF Patches
<1>2. ASSUME NEW j \in Slot, j # i, rs[j].used
      PROVE  /\ PatchOf(rs2[j], code2) = PatchOf(rs[j], code) /\ rs2[j].used
             /\ PatchOf(rs[j], code) # p /\ Cover(rs[j]) \cap Cover(rs[i]) = {}
  <2>1. rs2[j] = rs[j] /\ \A a \in Cover(rs[j]) : code2[a] = code[a]
    BY <1>2
  <2>2. [a \in Cover(rs[j]) |-> code2[a]] = [a \in Cover(rs[j]) |-> code[a]]
    BY <2>1
  <2>3. PatchOf(rs2[j], code2) = PatchOf(rs[j], code)
    BY <2>1, <2>2 DEF PatchOf, Cover
  <2>4. rs[j].addr # rs[i].addr /\ Cover(rs[j]) \cap Cover(rs[i]) = {}
    BY <1>2, CoversApart
  <2>5. PatchOf(rs[j], code) # p
    BY <2>4 DEF PatchOf
  <2> QED BY <1>2, <2>1, <2>3, <2>4, <2>5
<1>3. Q = P \ {p}
  <2>1. ASSUME NEW q \in Q PROVE q \in P \ {p}
    <3>1. PICK j \in Slot : rs2[j].used /\ q = PatchOf(rs2[j], code2)
      BY DEF Patches
    <3>2. j # i /\ rs[j].used
      BY <3>1
    <3> QED BY <1>2, <3>1, <3>2 DEF Patches
  <2>2. ASSUME NEW q \in P, q # p PROVE q \in Q
    <3>1. PICK j \in Slot : rs[j].used /\ q = PatchOf(rs[j], code)
      BY DEF Patches
    <3>2. j # i
      BY <2>2, <3>1
    <3> QED BY <1>2, <3>1, <3>2 DEF Patches
  <2> QED BY <2>1, <2>2
<1>4. DOMAIN p.words = Cover(rs[i]) /\ \A a \in Cover(rs[i]) : p.saved[a] = HookedCode(h)[a]
  <2>1. Saves(rs[i], h)
    BY DEF Consistent
  <2>2. DOMAIN p.words = Cover(rs[i])
    BY DEF PatchOf, Cover
  <2> QED BY <2>1, <2>2, SavedWords
<1>5. ASSUME NEW a \in Addr
      PROVE  code2[a] = IF a \in DOMAIN p.words THEN p.saved[a] ELSE code[a]
  <2>1. CASE a \in Cover(rs[i])
    <3>1. \A j \in Slot : rs2[j].used => a \notin Cover(rs2[j])
      BY <1>2, <2>1
    <3> QED BY <1>4, <2>1, <3>1 DEF Consistent
  <2>2. CASE a \notin Cover(rs[i]) /\ \E j \in Slot : rs[j].used /\ a \in Cover(rs[j])
    BY <1>4, <2>2
  <2>3. CASE \A j \in Slot : rs[j].used => a \notin Cover(rs[j])
    <3>1. \A j \in Slot : rs2[j].used => a \notin Cover(rs2[j])
      BY <2>3
    <3> QED BY <1>4, <2>3, <3>1 DEF Consistent
  <2> QED BY <2>1, <2>2, <2>3
<1>6. code2 = [a \in Addr |-> code2[a]]
  BY DEF Consistent
<1> HIDE DEF p, P, Q
<1>7. code2 = [a \in Addr |-> IF a \in DOMAIN p.words THEN p.saved[a] ELSE code[a]]
  BY <1>5, <1>6
<1>8. TakenOut(P, code, Q, code2)
  BY <1>1, <1>3, <1>7 DEF TakenOut
<1> QED BY <1>8 DEF P, Q

\* A call has ended: only records cover the code.
LEMMA IdleKept ==
  ASSUME NEW h \in Hooks, Registry(h)', call'.pc = "idle", TypeInv'
  PROVE  Consistent(recs', mem', h)
<1>1. mem' \in [Addr -> Word]
  BY DEF TypeInv, TypeOK
<1>2. /\ \A i \in Slot : recs'[i].used => Saves(recs'[i], h)
      /\ \A i, j \in Slot : recs'[i].used /\ recs'[j].used /\ recs'[i].addr = recs'[j].addr
                            => i = j
  BY DEF Registry, Records
<1>3. Layers' = Whole(recs')
  BY DEF Layers, RecLayers, RecLayer, Held, Pending, Whole
<1>4. ASSUME NEW a \in Addr, \A i \in Slot : recs'[i].used => a \notin Cover(recs'[i])
      PROVE  mem'[a] = HookedCode(h)[a]
  <2>1. \A l \in Layers' : a \notin Cover(l)
    BY <1>3, <1>4, LayerFields DEF Whole
  <2> QED BY <2>1 DEF Registry, Layered
<1> QED BY <1>1, <1>2, <1>4 DEF Consistent

LEMMA BeforeKept ==
  ASSUME NEW h \in Hooks, Registry(h), Since(h), call.pc # "idle", TypeInv
  PROVE  Consistent(before.recs, before.mem, h)
<1>1. before.mem \in [Addr -> Word]
  BY DEF TypeInv, TypeOK
<1>2. \A i \in Slot : before.recs[i].used =>
        recs[i].used /\ recs[i] = before.recs[i] /\ Saves(recs[i], h)
  BY DEF Since, Registry, Records
<1>3. ASSUME NEW i \in Slot, NEW j \in Slot, before.recs[i].used, before.recs[j].used,
             before.recs[i].addr = before.recs[j].addr
      PROVE  i = j
  <2>1. recs[i].used /\ recs[j].used /\ recs[i].addr = recs[j].addr
    BY <1>2, <1>3
  <2> QED BY <2>1 DEF Registry, Records
<1>4. ASSUME NEW a \in Addr, \A i \in Slot : before.recs[i].used => a \notin Cover(before.recs[i])
      PROVE  before.mem[a] = HookedCode(h)[a]
  <2>1. \A l \in Whole(before.recs) : a \notin Cover(l)
    BY <1>4, LayerFields DEF Whole
  <2> QED BY <2>1 DEF Since, Layered
<1> QED BY <1>1, <1>2, <1>3, <1>4 DEF Consistent

\* The code and the records the client sees.
Seen == <<Committed.mem, Patches(Committed.recs, Committed.mem)>>

LEMMA SeenStill ==
  ASSUME Committed'.mem = Committed.mem, Committed'.recs = Committed.recs
  PROVE  UNCHANGED Seen
BY DEF Seen, Patches

\* A call that puts a guard in.
LEMMA InstallStep ==
  ASSUME NEW h \in Hooks, Registry(h), Registry(h)', Since(h), Step,
         Register, call.stage # "entry"
  PROVE  Table!Install
<1>1. /\ call.pc = "fix" /\ call'.pc = "idle" /\ UNCHANGED mem /\ TypeInv /\ TypeInv'
  BY ReturnIdle DEF Register, Step, SnapInv
<1>2. /\ Committed.mem = before.mem /\ Committed.recs = before.recs
      /\ Committed'.mem = mem' /\ Committed'.recs = recs'
  BY <1>1 DEF Committed
<1>3. PICK i, r : /\ i \in Slot /\ ~recs[i].used /\ r.used
                  /\ recs' = [recs EXCEPT ![i] = r]
  BY DEF Register, Least
<1>4. recs'[i] = r /\ \A j \in Slot : j # i => recs'[j] = recs[j]
  BY <1>1, <1>3, CallFields
<1>5. \A j \in Slot : before.recs[j].used =>
        /\ recs'[j] = before.recs[j]
        /\ \A a \in Cover(before.recs[j]) : mem'[a] = before.mem[a]
  <2>1. \A j \in Slot : before.recs[j].used =>
          recs[j] = before.recs[j] /\ \A a \in Cover(recs[j]) : mem[a] = before.mem[a]
    BY <1>1 DEF Since, Removal
  <2> QED BY <1>1, <1>3, <1>4, <2>1
<1>6. recs'[i].used /\ ~before.recs[i].used
  BY <1>3, <1>4, <1>1 DEF Since
<1>7. Consistent(before.recs, before.mem, h)
  BY <1>1, BeforeKept
<1>8. Consistent(recs', mem', h)
  BY <1>1, IdleKept
<1> DEFINE rs == before.recs  code == before.mem  rs2 == recs'  code2 == mem'
<1>9. PutIn(Patches(rs, code), code, Patches(rs2, code2), code2)
  <2> HIDE DEF rs, code, rs2, code2
  <2>1. /\ Consistent(rs, code, h) /\ Consistent(rs2, code2, h)
        /\ \A j \in Slot : rs[j].used =>
             rs2[j] = rs[j] /\ \A a \in Cover(rs[j]) : code2[a] = code[a]
        /\ \E j \in Slot : rs2[j].used /\ ~rs[j].used
    <3>1. \E j \in Slot : rs2[j].used /\ ~rs[j].used
      BY <1>3, <1>6 DEF rs, rs2
    <3> QED BY <1>5, <1>7, <1>8, <3>1 DEF rs, code, rs2, code2
  <2> QED BY <2>1, TableInstall DEF Step, Orderly
<1>10. /\ Patches(Committed.recs, Committed.mem) = Patches(rs, code)
       /\ Patches(Committed.recs, Committed.mem)' = Patches(rs2, code2)
       /\ Committed.mem = code /\ Committed.mem' = code2
  BY <1>2 DEF Patches
<1> HIDE DEF rs, code, rs2, code2
<1> QED BY <1>9, <1>10 DEF Table!Install, PutIn

\* A call that takes a guard out.
LEMMA UninstallStep ==
  ASSUME NEW h \in Hooks, Registry(h), Registry(h)', Since(h), Step, Release
  PROVE  Table!Uninstall
<1>1. /\ call.pc = "release" /\ call'.pc = "idle" /\ UNCHANGED mem /\ TypeInv /\ TypeInv'
      /\ call.rec \in Slot /\ recs[call.rec].used
  BY ReturnIdle, RemovedLayer DEF Release, Step, SnapInv
<1>2. /\ Committed.mem = before.mem /\ Committed.recs = before.recs
      /\ Committed'.mem = mem' /\ Committed'.recs = recs'
  BY <1>1 DEF Committed
<1>3. ~recs'[call.rec].used /\ \A j \in Slot : j # call.rec => recs'[j] = recs[j]
  <2>1. recs' = [recs EXCEPT ![call.rec] = Blank]
    BY DEF Release
  <2> QED BY <1>1, <2>1, CallFields DEF Blank
<1>4. /\ before.recs = recs
      /\ \A j \in Slot : j # call.rec /\ recs[j].used =>
           \A a \in Cover(recs[j]) : mem[a] = before.mem[a]
  BY <1>1 DEF Since, Removal
<1>5. Consistent(before.recs, before.mem, h)
  BY <1>1, BeforeKept
<1>6. Consistent(recs', mem', h)
  BY <1>1, IdleKept
<1> DEFINE rs == before.recs  code == before.mem  rs2 == recs'  code2 == mem'  i == call.rec
<1>7. TakenOut(Patches(rs, code), code, Patches(rs2, code2), code2)
  <2> HIDE DEF rs, code, rs2, code2, i
  <2>1. /\ Consistent(rs, code, h) /\ Consistent(rs2, code2, h) /\ i \in Slot /\ rs[i].used /\ ~rs2[i].used
        /\ \A j \in Slot : j # i =>
             rs2[j] = rs[j] /\ (rs[j].used => \A a \in Cover(rs[j]) : code2[a] = code[a])
    BY <1>1, <1>3, <1>4, <1>5, <1>6 DEF rs, code, rs2, code2, i
  <2> QED BY <2>1, TableUninstall DEF Step, Orderly
<1>8. /\ Patches(Committed.recs, Committed.mem) = Patches(rs, code)
       /\ Patches(Committed.recs, Committed.mem)' = Patches(rs2, code2)
       /\ Committed.mem = code /\ Committed.mem' = code2
  BY <1>2 DEF Patches
<1> HIDE DEF rs, code, rs2, code2
<1> QED BY <1>7, <1>8 DEF Table!Uninstall, TakenOut

\* Every step is one of the table's, or shows the client nothing.
LEMMA TableStep ==
  ASSUME NEW h \in Hooks, Registry(h), Registry(h)', Since(h), Step, HarmInv, Writable,
         TableHasRoom, [Next]_vars
  PROVE  Table!Next \/ UNCHANGED Seen
<1>1. SnapInv /\ IInv /\ TypeInv /\ WritesRepeat
  BY DEF Step, SnapInv, Orderly
<1>2. CASE \/ \E r \in Requests : GuardBlock(r) \/ GuardBlockSnap(r)
           \/ \E i \in Slot : Unpatch(i)
  <2>1. /\ call.pc = "idle" /\ call'.pc # "idle" /\ UNCHANGED <<mem, recs>>
        /\ before' = [mem |-> mem, maps |-> maps, recs |-> recs]
    <3>1. CASE \E r \in Requests : GuardBlock(r) \/ GuardBlockSnap(r)
      <4>1. PICK r, snap, chain : Begin(r, snap, chain) /\ call.pc = "idle"
        BY <3>1 DEF GuardBlock, GuardBlockSnap
      <4> QED BY <4>1 DEF Begin, Enter
    <3>2. CASE \E i \in Slot : Unpatch(i)
      BY <3>2 DEF Unpatch, Enter
    <3> QED BY <1>2, <3>1, <3>2
  <2> QED BY <2>1, SeenStill DEF Committed
<1>3. CASE Reject \/ (\E p \in Resets : ResetPage(p)) \/ UNCHANGED vars
  <2>1. UNCHANGED <<mem, maps, recs, call, before>>
    BY <1>3 DEF Reject, ResetPage, vars
  <2> QED BY <2>1, SeenStill DEF Committed
<1>4. CASE MapFails \/ PlanFails \/ Unmap
  <2>1. /\ call.pc # "idle" /\ call'.pc = "idle"
        /\ UNCHANGED <<mem, recs>> /\ mem = before.mem /\ recs = before.recs
    BY <1>4, ReturnIdle DEF MapFails, PlanFails, Unmap, HarmInv, Unwritten
  <2> QED BY <2>1, SeenStill DEF Committed
<1>5. ASSUME call.pc # "idle", call'.pc # "idle", UNCHANGED before
      PROVE  UNCHANGED Seen
  BY <1>5, SeenStill DEF Committed
<1>6. CASE (\E m \in MapId : MapTrampoline(m)) \/ PlanGuard \/ PlanEntry \/ Apply \/ Fix
           \/ ApplyRefused \/ FixRefused \/ Undo \/ Unfix \/ Restore
  <2>1. call.pc # "idle" /\ UNCHANGED before
    BY <1>6 DEF MapTrampoline, PlanGuard, PlanEntry, Apply, Fix, ApplyRefused, FixRefused,
       Undo, Unfix, Restore
  <2>2. call'.pc # "idle"
    <3>1. CASE \/ (\E m \in MapId : MapTrampoline(m)) \/ Apply \/ Fix
               \/ ApplyRefused \/ FixRefused \/ Undo \/ Unfix \/ Restore
      BY <1>1, <3>1, CallFields DEF MapTrampoline, Apply, Fix, ApplyRefused, FixRefused,
         Undo, Unfix, Restore, AfterUndo
    <3>2. CASE PlanGuard
      <4>1. PICK pc, d : call' = [call EXCEPT !.pc = pc, !.plan["guard"] = d]
                         /\ pc \in {"plan_entry", "apply"}
        BY <3>2 DEF PlanGuard
      <4> QED BY <1>1, <4>1, CallFields
    <3>3. CASE PlanEntry
      <4>1. PICK d : call' = [call EXCEPT !.pc = "apply", !.stage = "entry", !.plan["entry"] = d]
        BY <3>3 DEF PlanEntry
      <4> QED BY <1>1, <4>1, CallFields
    <3> QED BY <1>6, <3>1, <3>2, <3>3
  <2> QED BY <1>5, <2>1, <2>2
<1>7. CASE Register
  <2>1. CASE call.stage = "entry"
    <3>1. call.pc # "idle" /\ call'.pc # "idle" /\ UNCHANGED before
      BY <1>1, <1>7, <2>1, CallFields DEF Register
    <3> QED BY <1>5, <3>1
  <2>2. CASE call.stage # "entry"
    BY <1>7, <2>2, InstallStep DEF Table!Next
  <2> QED BY <2>1, <2>2
<1>8. CASE Release
  BY <1>8, UninstallStep DEF Table!Next
<1>9. ~RegisterFails /\ ~UndoEntry /\ ~UndoUnplannedEntry /\ ~UnpatchRefused
  <2>1. ~UnpatchRefused
    BY <1>1, RemovalGoesThrough
  <2> QED BY <1>1, <2>1 DEF RegisterFails, TableHasRoom, UndoEntry, UndoUnplannedEntry, SnapInv, CallPages
<1> QED
  BY <1>2, <1>3, <1>4, <1>6, <1>7, <1>8, <1>9 DEF Next, Install, Uninstall

TableInv == IInv /\ HarmInv /\ Writable /\ \E h \in Hooks : Registry(h) /\ Since(h)

LEMMA TableInit == Init => TableInv /\ Table!Init
<1> SUFFICES ASSUME Init PROVE TableInv /\ Table!Init
  OBVIOUS
<1>1. /\ call.pc = "idle" /\ \A i \in Slot : ~recs[i].used
  BY DEF Init, Idle, Enter, Blank
<1>2. RegInv /\ HarmInv
  BY RegInit, HarmInit
<1>3. TableInv
  BY <1>1, <1>2 DEF RegInv, TableInv, Since
<1>4. Committed.mem = mem /\ Committed.recs = recs
  BY <1>1 DEF Committed
<1>5. Patches(Committed.recs, Committed.mem) = {}
  BY <1>1, <1>4 DEF Patches
<1>6. mem \in {HookedCode(h) : h \in Hooks}
  BY DEF Init
<1> QED BY <1>3, <1>4, <1>5, <1>6 DEF Table!Init

LEMMA TableNext ==
  ASSUME TableInv, Orderly, TableHasRoom, [Next]_vars
  PROVE  TableInv' /\ (Table!Next \/ UNCHANGED Seen)
<1>1. IInv' /\ HarmInv' /\ SnapInv' /\ SnapInv
  BY LandNext, HarmNext DEF TableInv, Orderly, HarmInv
<1>2. Writable' /\ Step
  BY <1>1, WritableNext DEF TableInv, SnapInv, Step
<1>3. PICK h \in Hooks : Registry(h) /\ Since(h)
  BY DEF TableInv
<1>4. Registry(h)' /\ Since(h)'
  BY <1>2, <1>3, RegNext, SinceNext DEF TableInv
<1>5. Table!Next \/ UNCHANGED Seen
  BY <1>2, <1>3, <1>4, TableStep DEF TableInv
<1> QED BY <1>1, <1>2, <1>4, <1>5 DEF TableInv

\* The engine implements the table of patches (include/instr.h): a guard is put
\* in whole or not at all, whatever step of apply_plan fails, and instr_unpatch
\* takes out exactly what was put in (instr.c 298-372, 635-660).
THEOREM EngineImplementsTable ==
  ASSUME Orderly
  PROVE  Spec /\ []TableHasRoom => ImplementsTable
<1>1. TableInv /\ TableHasRoom /\ [Next]_vars =>
        TableInv' /\ [Table!Next]_<<Committed.mem, Patches(Committed.recs, Committed.mem)>>
  BY TableNext DEF Seen
<1> QED BY <1>1, TableInit, PTL DEF Spec, ImplementsTable, Table!Spec

(***************************************************************************)
(* The words behind a foreign hook.  Beside a hook a plan made from the    *)
(* file gives back words that were not there, so the layers above do not   *)
(* describe the entries; this invariant does, for either source.           *)
(***************************************************************************)
\* The first words of a function do not branch among themselves.
EntriesStraight == \A fn \in Fn : \A a \in Region(fn, 4) : Target[a] \notin Region(fn, 4)

\* The words of the entry of fn behind its first n.
Behind(fn, n) == Region(fn, 4) \ Region(fn, n)

\* What may be written back at an entry: the file's word, or the word found.
GivesBack(fn, a, w, h) ==
  IF Image THEN w = Orig(a)
           ELSE w = HookedCode(h)[a] /\ (h[fn] > 0 => a \in Region(fn, h[fn]))

\* A hook that control goes on into finds the words behind it.
Resumes(fn, w, h) ==
  /\ \A a \in Behind(fn, w.len) : mem[a] = Orig(a)
  /\ ~Image => w.len = h[fn]

EntryWord(a, h) ==
  mem[a].kind = "patch" \/ mem[a] = HookedCode(h)[a] \/ (Image /\ mem[a] = Orig(a))

EntryCode(h) ==
  \A fn \in Fn :
    /\ \A a \in Region(fn, 4) : EntryWord(a, h)
    /\ ~Image /\ h[fn] > 0 => \A a \in Behind(fn, h[fn]) : mem[a] = Orig(a)
    /\ \A w \in HooksEntered(fn) : Resumes(fn, w, h)

\* A plan or a record writes back nothing else at an entry.
SparesEntries(p, h) ==
  \A fn \in Fn : \A a \in Region(fn, 4) :
    a \notin DOMAIN p.fixes /\ (a \in DOMAIN p.orig => GivesBack(fn, a, p.orig[a], h))

\* The entry to be patched next is as its hook was measured, ...
Measured(h) ==
  call.pc \in Early /\ Fresh =>
    IF call.chain = 0 THEN Image \/ h[call.req.fn] = 0
    ELSE mem[call.req.fn].kind = "hook" /\ mem[call.req.fn].len = call.chain

\* ... and as it was planned.
EntryStaged(h) ==
  call.pc = "apply" /\ call.stage = "entry" =>
    /\ call.req.fn \in DOMAIN call.plan["entry"].orig
    /\ \A w \in maps[call.map].entry.disp : w.kind = "hook" =>
         /\ Resumes(call.req.fn, w, h)
         /\ DOMAIN call.plan["entry"].orig \subseteq Region(call.req.fn, w.len)

EntriesKept(h) ==
  /\ EntryCode(h) /\ Measured(h) /\ EntryStaged(h)
  /\ \A i \in Slot : recs[i].used => SparesEntries(recs[i], h)
  /\ \A s \in Part : SparesEntries(call.plan[s], h)

LEMMA EntryPlace ==
  ASSUME NEW fn \in Fn
  PROVE  /\ fn \in Addr /\ fn \in Nat /\ fn \in Site
         /\ fn \in Region(fn, 4) /\ Region(fn, 4) \subseteq Addr
BY SiteWords, EngineAssumption DEF Site

\* Words found at an entry: its hook, and what the linker put there.
LEMMA FoundEntry ==
  ASSUME Discipline, NEW h \in Hooks, NEW fn \in Fn
  PROVE  /\ h[fn] \in 0..4 /\ Region(fn, h[fn]) \subseteq Region(fn, 4)
         /\ fn \in Region(fn, h[fn]) <=> h[fn] > 0
         /\ Hook(fn, h[fn]).kind = "hook" /\ Hook(fn, h[fn]).len = h[fn]
         /\ Hook(fn, h[fn]).at = fn
         /\ \A a \in Region(fn, h[fn]) : HookedCode(h)[a] = Hook(fn, h[fn])
         /\ \A a \in Behind(fn, h[fn]) : HookedCode(h)[a] = Orig(a)
<1>1. \A g \in Fn : /\ h[g] \in 0..4 /\ g \in Nat
                    /\ Region(g, h[g]) \subseteq Region(g, 4) /\ Region(g, 4) \subseteq Addr
  <2>1. \A g \in Fn : h[g] \in 0..4
    BY EngineAssumption DEF Fn
  <2> QED BY <2>1, EntryPlace, SiteWords
<1>2. fn \in Region(fn, h[fn]) <=> h[fn] > 0
  BY <1>1 DEF Region
<1>3. \A a \in Region(fn, 4) : \A g \in Fn : a \in Region(g, h[g]) => g = fn
  BY <1>1 DEF Discipline, SitesApart
<1>4. ASSUME NEW a \in Region(fn, h[fn]) PROVE HookedCode(h)[a] = Hook(fn, h[fn])
  <2>1. (CHOOSE f \in Fn : a \in Region(f, h[f])) = fn
    BY <1>1, <1>3, <1>4
  <2> QED BY <1>1, <2>1 DEF HookedCode
<1>5. ASSUME NEW a \in Behind(fn, h[fn]) PROVE HookedCode(h)[a] = Orig(a)
  <2>1. a \in Addr /\ \A g \in Fn : a \notin Region(g, h[g])
    BY <1>1, <1>3 DEF Behind
  <2> QED BY <2>1, FoundWords
<1>6. Hook(fn, h[fn]).kind = "hook" /\ Hook(fn, h[fn]).len = h[fn] /\ Hook(fn, h[fn]).at = fn
  BY DEF Hook, Plain
<1> QED BY <1>1, <1>2, <1>4, <1>5, <1>6

LEMMA OrigNoHook == \A a : Orig(a).kind \notin {"hook", "patch"}
BY WordKinds

\* Writes that give entry words back, while no trampoline in use replays more.
LEMMA EntryGivenBack ==
  ASSUME Discipline, NEW h \in Hooks, EntryCode(h),
         \A fn \in Fn : \A a \in Region(fn, 4) :
           mem'[a] = mem[a] \/ GivesBack(fn, a, mem'[a], h),
         \A fn \in Fn : mem[fn].kind = "patch" =>
           maps'[mem[fn].map].entry.disp \subseteq maps[mem[fn].map].entry.disp
  PROVE  EntryCode(h)'
<1> SUFFICES ASSUME NEW fn \in Fn
             PROVE  /\ \A a \in Region(fn, 4) : EntryWord(a, h)'
                    /\ ~Image /\ h[fn] > 0 => \A a \in Behind(fn, h[fn]) : mem'[a] = Orig(a)
                    /\ \A w \in HooksEntered(fn)' : Resumes(fn, w, h)'
  BY DEF EntryCode
<1>1. \A a \in Region(fn, 4) : EntryWord(a, h)'
  BY DEF EntryCode, EntryWord, GivesBack
<1>2. ~Image /\ h[fn] > 0 => \A a \in Behind(fn, h[fn]) : mem'[a] = Orig(a)
  BY DEF EntryCode, Behind, GivesBack
<1>3. ASSUME NEW w \in HooksEntered(fn)' PROVE Resumes(fn, w, h)'
  <2>1. fn \in Region(fn, 4) /\ fn \in Nat
    BY EntryPlace
  <2>2. CASE mem'[fn] = mem[fn]
    <3>1. w \in HooksEntered(fn)
      BY <1>3, <2>2 DEF HooksEntered
    <3>2. Resumes(fn, w, h)
      BY <3>1 DEF EntryCode
    <3>3. ASSUME NEW a \in Behind(fn, w.len) PROVE mem'[a] = Orig(a)
      <4>1. mem[a] = Orig(a) /\ a \in Region(fn, 4)
        BY <3>2 DEF Resumes, Behind
      <4>2. CASE ~Image
        <5>1. a \in Behind(fn, h[fn])
          BY <3>2, <4>2 DEF Resumes
        <5> QED BY <4>1, <4>2, <5>1, FoundEntry DEF GivesBack
      <4> QED BY <4>1, <4>2 DEF GivesBack
    <3> QED BY <3>2, <3>3 DEF Resumes
  <2>3. CASE mem'[fn] # mem[fn]
    <3>1. GivesBack(fn, fn, mem'[fn], h)
      BY <2>1, <2>3
    <3>2. CASE Image
      <4>1. mem'[fn] = Orig(fn)
        BY <3>1, <3>2 DEF GivesBack
      <4> QED BY <1>3, <4>1, OrigNoHook DEF HooksEntered
    <3>3. CASE ~Image
      <4>1. mem'[fn] = HookedCode(h)[fn]
        BY <3>1, <3>3 DEF GivesBack
      <4>2. mem'[fn].kind # "patch"
        BY <4>1, EntryPlace, HookedCodeType
      <4>3. w = mem'[fn] /\ w.kind = "hook"
        BY <1>3, <4>2 DEF HooksEntered
      <4>4. fn \in Region(fn, h[fn])
        BY <2>1, <4>1, <4>3, OrigNoHook, FoundEntry DEF Behind
      <4>5. w.len = h[fn] /\ h[fn] > 0
        BY <4>1, <4>3, <4>4, FoundEntry
      <4> QED BY <1>2, <3>3, <4>5 DEF Resumes
    <3> QED BY <3>2, <3>3
  <2> QED BY <2>2, <2>3
<1> QED BY <1>1, <1>2, <1>3

LEMMA NoPlanSpares == ASSUME NEW h PROVE SparesEntries(NoPlan, h)
BY DEF SparesEntries, NoPlan, Nothing

\* Nothing that a call has saved, or redirects, takes an entry away.
LEMMA EntriesAway ==
  ASSUME Discipline, NEW h \in Hooks, EntriesKept(h),
         \A fn \in Fn : \A a \in Region(fn, 4) :
           mem'[a] = mem[a] \/ GivesBack(fn, a, mem'[a], h),
         \A fn \in Fn : mem[fn].kind = "patch" =>
           maps'[mem[fn].map].entry.disp \subseteq maps[mem[fn].map].entry.disp,
         call'.pc \notin Early, ~(call'.pc = "apply" /\ call'.stage = "entry"),
         \A s \in Part : SparesEntries(call'.plan[s], h),
         \A i \in Slot : recs'[i].used => SparesEntries(recs'[i], h)
  PROVE  EntriesKept(h)'
<1>1. EntryCode(h)'
  BY EntryGivenBack DEF EntriesKept
<1>2. Measured(h)' /\ EntryStaged(h)'
  BY DEF Measured, EntryStaged
<1>3. \A s \in Part : SparesEntries(call.plan[s], h)'
  BY DEF SparesEntries
<1>4. \A i \in Slot : recs'[i].used => SparesEntries(recs[i], h)'
  BY DEF SparesEntries
<1> QED BY <1>1, <1>2, <1>3, <1>4 DEF EntriesKept

\* Where no record holds a snapshot entry, and no stage is being written, no
\* patch lies at an entry.
LEMMA EntryUnpatched ==
  ASSUME IInv, Discipline, call.pc \notin Pending, NEW fn \in Fn, SnapshotRecs(fn) = {}
  PROVE  \A x \in Region(fn, 4) : mem[x].kind # "patch"
<1> SUFFICES ASSUME NEW x \in Region(fn, 4), PatchAt(x) PROVE FALSE
  BY DEF PatchAt
<1>1. x \in Addr
  BY EntryPlace
<1>2. WellPlaced(x) /\ Recorded(x)
  BY <1>1 DEF IInv, Owned, InCall
<1>3. mem[x].part \in Part
  BY <1>1 DEF IInv, TypeOK, Word
<1>4. mem[x].at = fn /\ mem[x].part = "entry"
  BY <1>1, <1>2, <1>3 DEF WellPlaced, Discipline, SitesApart, Part
<1>5. \E i \in Slot : i \in SnapshotRecs(fn)
  BY <1>2, <1>4 DEF Recorded, SnapshotRecs
<1> QED BY <1>5

\* A hook of the engine's own forms, with nothing over it, is measured.
LEMMA HookFound ==
  ASSUME Discipline, HooksKnown, NEW h \in Hooks, EntryCode(h), ~Image, NEW fn \in Fn,
         \A x \in Region(fn, 4) : mem[x].kind # "patch", h[fn] > 0
  PROVE  HookLen(fn) = h[fn]
<1>1. h[fn] \in {1, 3, 4} /\ fn \in Region(fn, h[fn]) /\ Region(fn, h[fn]) \subseteq Region(fn, 4)
  BY FoundEntry DEF HooksKnown
<1>2. \A a \in Region(fn, h[fn]) : mem[a] = Hook(fn, h[fn])
  <2>1. \A a \in Region(fn, 4) : mem[a] = HookedCode(h)[a]
    BY DEF EntryCode, EntryWord
  <2> QED BY <1>1, <2>1, FoundEntry
<1>3. /\ mem[fn].kind = "hook" /\ mem[fn].at = fn /\ mem[fn].len = h[fn]
      /\ \A a \in Region(fn, h[fn]) : mem[a] = mem[fn]
  BY <1>1, <1>2, FoundEntry
<1> QED BY <1>1, <1>3 DEF HookLen

LEMMA KeptBegin ==
  ASSUME Discipline, HooksKnown, IInv, NEW h \in Hooks, EntriesKept(h),
         NEW r \in Requests, GuardBlock(r) \/ GuardBlockSnap(r)
  PROVE  EntriesKept(h)'
<1>1. PICK snap, chain :
        /\ Begin(r, snap, chain) /\ call.pc = "idle"
        /\ r.mode = "snap" /\ snap = NoMap =>
             /\ SnapshotRecs(r.fn) = {}
             /\ EntryBusy(r.fn) => HookLen(r.fn) # 0
             /\ chain = IF EntryBusy(r.fn) THEN HookLen(r.fn) ELSE 0
  <2>1. CASE GuardBlock(r)
    BY <2>1 DEF GuardBlock
  <2>2. CASE GuardBlockSnap(r) /\ SnapshotRecs(r.fn) # {}
    <3>1. PICK i \in SnapshotRecs(r.fn) : Begin(r, recs[i].map, 0) /\ call.pc = "idle"
      BY <2>2 DEF GuardBlockSnap, Least
    <3>2. recs[i].map # NoMap
      BY <3>1, EngineAssumption DEF SnapshotRecs, IInv, SoleOwner
    <3> QED BY <3>1, <3>2
  <2>3. CASE GuardBlockSnap(r) /\ SnapshotRecs(r.fn) = {}
    BY <2>3 DEF GuardBlockSnap
  <2> QED BY <2>1, <2>2, <2>3
<1>2. /\ call'.pc = "map" /\ call'.req = r /\ call'.snap = snap /\ call'.chain = chain
      /\ \A s \in Part : call'.plan[s] = NoPlan
      /\ UNCHANGED <<mem, maps, recs>>
  BY <1>1 DEF Begin, Enter
<1>3. EntryCode(h)'
  BY <1>2, EntryGivenBack DEF EntriesKept
<1>4. Measured(h)'
  <2> SUFFICES ASSUME r.mode = "snap", snap = NoMap
               PROVE  IF chain = 0 THEN Image \/ h[r.fn] = 0
                      ELSE mem[r.fn].kind = "hook" /\ mem[r.fn].len = chain
    BY <1>2 DEF Measured, Fresh
  <2>1. r.fn \in Fn
    BY EngineAssumption DEF Fn
  <2>2. \A x \in Region(r.fn, 4) : mem[x].kind # "patch"
    BY <1>1, <2>1, EntryUnpatched DEF Pending
  <2>3. CASE chain = 0
    <3>1. ~Image => HookLen(r.fn) = 0
      BY <1>1, <2>3 DEF EntryBusy
    <3>2. h[r.fn] \in 0..4
      BY <2>1, FoundEntry
    <3>3. ~Image => ~(h[r.fn] > 0)
      BY <2>1, <2>2, <3>1, HookFound DEF EntriesKept
    <3> QED BY <2>3, <3>2, <3>3
  <2>4. CASE chain # 0
    <3>1. HookLen(r.fn) # 0 /\ chain = HookLen(r.fn)
      BY <1>1, <2>4
    <3>2. mem[r.fn].kind \in {"patch", "hook"} /\ HookLen(r.fn) = mem[r.fn].len
      BY <3>1 DEF HookLen
    <3> QED BY <2>1, <2>2, <2>4, <3>1, <3>2, EntryPlace
  <2> QED BY <2>3, <2>4
<1>5. EntryStaged(h)'
  BY <1>2 DEF EntryStaged
<1>6. \A s \in Part : SparesEntries(call.plan[s], h)'
  BY <1>2, NoPlanSpares DEF SparesEntries
<1>7. \A i \in Slot : recs'[i].used => SparesEntries(recs[i], h)'
  BY <1>2 DEF EntriesKept, SparesEntries
<1> QED BY <1>3, <1>4, <1>5, <1>6, <1>7 DEF EntriesKept

\* A plan redirects no branch at an entry.
LEMMA FixupsElsewhere ==
  ASSUME Discipline, Independent, EntriesStraight, NEW h \in Hooks, EntryCode(h),
         NEW s \in Site \cap Addr, NEW n \in 0..4, NEW from, NEW last,
         Region(s, 4) \subseteq Addr, NEW fn \in Fn, NEW a \in Region(fn, 4)
  PROVE  a \notin Fixups(from, s, n, last)
<1> SUFFICES ASSUME BranchTo(mem[a]) \in Region(s, n) PROVE FALSE
  BY DEF Fixups
<1>1. a \in Addr /\ fn \in Site
  BY EntryPlace
<1>2. Region(s, n) \subseteq Region(s, 4) /\ NoAddr \notin Region(s, n)
  BY SiteWords, EngineAssumption
<1>3. BranchTo(mem[a]) \in {Target[a], NoAddr}
  <2>1. mem[a].kind = "patch" => BranchTo(mem[a]) = NoAddr
    BY DEF BranchTo
  <2>2. BranchTo(Orig(a)) = Target[a]
    BY DEF BranchTo, Orig, Plain
  <2>3. BranchTo(HookedCode(h)[a]) \in {Target[a], NoAddr}
    BY <1>1, FoundWords
  <2> QED BY <2>1, <2>2, <2>3 DEF EntryCode, EntryWord
<1>4. Target[a] \notin Region(s, 4)
  BY <1>1 DEF EntriesStraight, Independent
<1> QED BY <1>2, <1>3, <1>4

\* A step that writes no code and no record, and changes no plan.
LEMMA KeptQuiet ==
  ASSUME Discipline, NEW h \in Hooks, EntriesKept(h), UNCHANGED <<mem, recs>>,
         \A fn \in Fn : mem[fn].kind = "patch" =>
           maps'[mem[fn].map].entry.disp \subseteq maps[mem[fn].map].entry.disp,
         call'.pc \notin Early, ~(call'.pc = "apply" /\ call'.stage = "entry"),
         \A s \in Part : call'.plan[s] \in {call.plan[s], NoPlan}
  PROVE  EntriesKept(h)'
<1>1. \A s \in Part : SparesEntries(call'.plan[s], h)
  BY NoPlanSpares DEF EntriesKept
<1>2. \A i \in Slot : recs'[i].used => SparesEntries(recs'[i], h)
  BY DEF EntriesKept
<1> QED BY <1>1, <1>2, EntriesAway

\* A mapping emptied, or none.
LEMMA EmptyReplays ==
  ASSUME IInv, NEW m, maps' = [maps EXCEPT ![m] = NewMapping(0)]
                      \/ maps' = [maps EXCEPT ![m] = NewMapping(1)]
                      \/ maps' = [maps EXCEPT ![m] = NewMapping(2)]
                      \/ UNCHANGED maps
  PROVE  \A fn \in Fn : mem[fn].kind = "patch" =>
           maps'[mem[fn].map].entry.disp \subseteq maps[mem[fn].map].entry.disp
<1>1. \A fn \in Fn : mem[fn].kind = "patch" => mem[fn].map \in MapId
  BY EntryPlace DEF IInv, Owned, WellPlaced, PatchAt
<1>2. \A x : NewMapping(x).entry.disp = {}
  BY DEF NewMapping, Empty
<1> QED BY <1>1, <1>2 DEF IInv, TypeOK, MapsOK

LEMMA KeptMapTrampoline ==
  ASSUME Discipline, IInv, NEW h \in Hooks, EntriesKept(h), NEW m \in MapId, MapTrampoline(m)
  PROVE  EntriesKept(h)'
<1>1. /\ call.pc = "map" /\ call'.pc = "plan"
      /\ call'.req = call.req /\ call'.snap = call.snap /\ call'.plan = call.plan
      /\ call'.chain = call.chain /\ UNCHANGED <<mem, recs>>
  BY CallFields DEF MapTrampoline, IInv, TypeInv
<1>2. EntryCode(h)'
  <2>1. \A fn \in Fn : mem[fn].kind = "patch" =>
          maps'[mem[fn].map].entry.disp \subseteq maps[mem[fn].map].entry.disp
    BY EmptyReplays DEF MapTrampoline
  <2> QED BY <1>1, <2>1, EntryGivenBack DEF EntriesKept
<1>3. Measured(h)' /\ EntryStaged(h)'
  BY <1>1 DEF EntriesKept, Measured, EntryStaged, Fresh, Early
<1>4. \A s \in Part : SparesEntries(call.plan[s], h)'
  BY <1>1 DEF EntriesKept, SparesEntries
<1>5. \A i \in Slot : recs'[i].used => SparesEntries(recs[i], h)'
  BY <1>1 DEF EntriesKept, SparesEntries
<1> QED BY <1>2, <1>3, <1>4, <1>5 DEF EntriesKept

LEMMA KeptPlanGuard ==
  ASSUME Discipline, Independent, EntriesStraight, IInv, NEW h \in Hooks, EntriesKept(h),
         PlanGuard
  PROVE  EntriesKept(h)'
<1> DEFINE site == call.req.start
           n == GuardLen(call.map)
           fixes == GuardFixups(call.req, n)
           plan == MakePlan(site, n, fixes)
<1>1. /\ call.pc = "plan" /\ call.map \in MapId /\ call.req \in Requests
      /\ Region(site, 4) \subseteq Addr /\ site \in Addr /\ site \in Site
      /\ call.stage = "guard" /\ n \in 0..4
  <2>1. /\ call.pc = "plan" /\ call.map \in MapId /\ call.req \in Requests
        /\ Region(site, 4) \subseteq Addr /\ call.stage = "guard"
    BY DEF PlanGuard, IInv, CallShape, Mapped
  <2> QED BY <2>1, SiteWords, LensOK, EngineAssumption DEF Site
<1>2. SparesEntries(plan, h)
  <2> SUFFICES ASSUME NEW fn \in Fn, NEW a \in Region(fn, 4)
               PROVE  a \notin DOMAIN plan.fixes /\ a \notin DOMAIN plan.orig
    BY DEF SparesEntries
  <2>1. a \notin Region(site, n)
    BY <1>1, SiteWords DEF Discipline, SitesApart
  <2>2. a \notin fixes
    BY <1>1, FixupsElsewhere DEF GuardFixups, EntriesKept
  <2> HIDE DEF site, n, fixes
  <2> QED BY <2>1, <2>2 DEF MakePlan
<1>3. /\ maps' = [maps EXCEPT ![call.map].guard =
                    [disp |-> {plan.orig[a] : a \in Region(site, n)},
                     snap |-> IF Fresh THEN call.map ELSE call.snap]]
      /\ call' = [call EXCEPT !.pc = IF Fresh THEN "plan_entry" ELSE "apply",
                              !.plan["guard"] = plan]
      /\ UNCHANGED <<mem, rwx, recs, ret, before>>
  BY DEF PlanGuard
<1> HIDE DEF plan, site, n, fixes
<1>4. /\ call'.pc = (IF Fresh THEN "plan_entry" ELSE "apply") /\ call'.stage = "guard"
      /\ call'.req = call.req /\ call'.snap = call.snap /\ call'.chain = call.chain
      /\ call'.plan["guard"] = plan /\ call'.plan["entry"] = call.plan["entry"]
  BY <1>1, <1>3, CallFields DEF IInv, TypeInv, Part
<1>5. \A x \in MapId : maps'[x].entry.disp = maps[x].entry.disp
  BY <1>3 DEF IInv, TypeOK, MapsOK
<1>6. EntryCode(h)'
  <2>1. \A fn \in Fn : mem[fn].kind = "patch" => mem[fn].map \in MapId
    BY EntryPlace DEF IInv, Owned, WellPlaced, PatchAt
  <2> QED BY <1>3, <1>5, <2>1, EntryGivenBack DEF EntriesKept
<1>7. Measured(h)' /\ EntryStaged(h)'
  BY <1>1, <1>3, <1>4 DEF EntriesKept, Measured, EntryStaged, Fresh, Early
<1>8. \A s \in Part : SparesEntries(call.plan[s], h)'
  BY <1>2, <1>4 DEF EntriesKept, SparesEntries, Part
<1>9. \A i \in Slot : recs'[i].used => SparesEntries(recs[i], h)'
  BY <1>3 DEF EntriesKept, SparesEntries
<1> QED BY <1>6, <1>7, <1>8, <1>9 DEF EntriesKept

LEMMA KeptPlanEntry ==
  ASSUME Discipline, Independent, EntriesStraight, HooksKnown, IInv,
         NEW h \in Hooks, EntriesKept(h), PlanEntry
  PROVE  EntriesKept(h)'
<1> DEFINE fn == call.req.fn
           n == EntryLen(call.chain, call.map)
           fixes == EntryFixups(call.req, n)
           plan == MakePlan(fn, n, fixes)
           disp == IF call.chain = 0 THEN {Source[a] : a \in Region(fn, 4)} ELSE {mem[fn]}
<1>1. /\ call.pc = "plan_entry" /\ call.map \in MapId /\ Fresh /\ fn \in Fn /\ n > 0
      /\ call.chain \in {0, 1, 3, 4} /\ n \in 0..4
      /\ call.chain # 0 => n <= call.chain
  <2>1. /\ call.pc = "plan_entry" /\ call.map \in MapId /\ Fresh /\ fn \in Fn /\ n > 0
        /\ call.chain \in {0, 1, 3, 4}
    BY EngineAssumption DEF PlanEntry, IInv, CallShape, Mapped, TypeOK, CallOK, Fn
  <2>2. call.chain # 0 => n <= call.chain
    BY <2>1 DEF EntryLen
  <2> QED BY <2>1, <2>2, LensOK
<1>2. /\ fn \in Addr /\ fn \in Nat /\ fn \in Site /\ fn \in Region(fn, 4)
      /\ Region(fn, 4) \subseteq Addr /\ Region(fn, n) \subseteq Region(fn, 4)
      /\ fn \in Region(fn, n)
  <2>1. fn \in Nat /\ n \in 0..4 /\ n > 0
    BY <1>1, EntryPlace
  <2>2. fn \in Region(fn, n)
    BY <2>1 DEF Region
  <2> QED BY <1>1, <2>2, EntryPlace, SiteWords
<1>3. \A x \in Region(fn, 4) : mem[x].kind # "patch"
  BY <1>1, <1>2, SiteClean DEF PatchAt
<1>4. IF call.chain = 0 THEN Image \/ h[fn] = 0
      ELSE mem[fn].kind = "hook" /\ mem[fn].len = call.chain
  BY <1>1 DEF EntriesKept, Measured, Early
<1>5. \A a \in Region(fn, 4) : Source[a] = IF Image THEN Orig(a) ELSE HookedCode(h)[a]
  <2>1. CASE Image
    BY <1>1, <1>2, <2>1 DEF Source, Fresh, Pristine
  <2>2. CASE ~Image
    BY <1>1, <1>3, <2>2 DEF Source, EntriesKept, EntryCode, EntryWord
  <2> QED BY <2>1, <2>2
<1>6. ASSUME call.chain # 0
      PROVE  mem[fn] \in HooksEntered(fn) /\ Resumes(fn, mem[fn], h)
  BY <1>1, <1>4, <1>6 DEF HooksEntered, EntriesKept, EntryCode
<1>7. ~Image /\ h[fn] > 0 => n <= h[fn]
  BY <1>1, <1>4, <1>6 DEF Resumes
<1>8. Region(fn, 4) \subseteq Addr /\ fn \in Site \cap Addr
  BY <1>2
<1>9. SparesEntries(plan, h)
  <2> SUFFICES ASSUME NEW g \in Fn, NEW a \in Region(g, 4)
               PROVE  /\ a \notin DOMAIN plan.fixes
                      /\ a \in DOMAIN plan.orig => GivesBack(g, a, plan.orig[a], h)
    BY DEF SparesEntries
  <2>1. a \notin fixes
    BY <1>1, <1>8, FixupsElsewhere DEF EntryFixups, EntriesKept
  <2>2. /\ DOMAIN plan.fixes = fixes /\ DOMAIN plan.orig = Region(fn, n)
        /\ \A x \in Region(fn, n) : plan.orig[x] = Source[x]
    BY DEF MakePlan
  <2>3. a \in Region(fn, n) => g = fn
    BY <1>1, <1>2 DEF Discipline, SitesApart
  <2>4. ~Image /\ h[fn] > 0 /\ a \in Region(fn, n) => a \in Region(fn, h[fn])
    <3>1. fn \in Nat /\ n \in 0..4 /\ h[fn] \in 0..4
      BY <1>1, <1>2, FoundEntry
    <3> HIDE DEF fn, n
    <3> QED BY <1>7, <3>1 DEF Region
  <2> HIDE DEF fn, n, fixes, plan
  <2> QED BY <1>2, <1>5, <2>1, <2>2, <2>3, <2>4 DEF GivesBack
<1>10. ASSUME NEW w \in disp, w.kind = "hook"
       PROVE  Resumes(fn, w, h) /\ Region(fn, n) \subseteq Region(fn, w.len)
  <2>1. CASE call.chain = 0
    <3>1. PICK a \in Region(fn, 4) : w = Source[a]
      BY <1>10, <2>1
    <3>2. Behind(fn, 0) = Region(fn, 4)
      BY <1>2 DEF Behind, Region
    <3>3. Source[a] = Orig(a)
      BY <1>1, <1>4, <1>5, <2>1, <3>2, FoundEntry
    <3> QED BY <1>10, <3>1, <3>3, OrigNoHook
  <2>2. CASE call.chain # 0
    <3>1. w = mem[fn] /\ w.len = call.chain
      BY <1>4, <1>10, <2>2
    <3>2. fn \in Nat /\ n \in 0..4 /\ w.len \in 0..4 /\ n <= w.len
      BY <1>1, <1>2, <2>2, <3>1
    <3> HIDE DEF fn, n
    <3>3. Region(fn, n) \subseteq Region(fn, w.len)
      BY <3>2 DEF Region
    <3> QED BY <1>6, <2>2, <3>1, <3>3
  <2> QED BY <2>1, <2>2
<1>11. /\ maps' = [maps EXCEPT ![call.map].entry.disp = disp]
       /\ call' = [call EXCEPT !.pc = "apply", !.stage = "entry", !.plan["entry"] = plan]
       /\ UNCHANGED <<mem, rwx, recs, ret, before>>
  BY DEF PlanEntry
<1>12. DOMAIN plan.orig = Region(fn, n)
  BY DEF MakePlan
<1> HIDE DEF plan, n, fixes, disp
<1>13. /\ call'.pc = "apply" /\ call'.stage = "entry" /\ call'.req = call.req
       /\ call'.map = call.map
       /\ call'.plan["entry"] = plan /\ call'.plan["guard"] = call.plan["guard"]
  BY <1>11, CallFields DEF IInv, TypeInv, Part
<1>14. /\ maps'[call.map].entry.disp = disp
       /\ \A x \in MapId \ {call.map} : maps'[x].entry.disp = maps[x].entry.disp
  BY <1>1, <1>11 DEF IInv, TypeOK, MapsOK, Mapping, Trampoline
<1>15. EntryCode(h)'
  <2>1. \A g \in Fn : mem[g].kind = "patch" => mem[g].map \in MapId \ {call.map}
    <3>1. \A g \in Fn : mem[g].kind = "patch" => mem[g].map \in MapId
      BY EntryPlace DEF IInv, Owned, WellPlaced, PatchAt
    <3>2. \A g \in Fn : mem[g].kind = "patch" => mem[g].map # call.map
      BY <1>1, EntryPlace DEF IInv, CallMapping, Mapped, Planned, Pending, PatchAt
    <3> QED BY <3>1, <3>2
  <2> QED BY <1>11, <1>14, <2>1, EntryGivenBack DEF EntriesKept
<1>16. Measured(h)' /\ EntryStaged(h)'
  <2>1. Measured(h)'
    BY <1>13 DEF Measured, Early
  <2>2. \A w : Resumes(fn, w, h) => Resumes(fn, w, h)'
    BY <1>11 DEF Resumes
  <2> QED BY <1>2, <1>10, <1>12, <1>13, <1>14, <2>1, <2>2 DEF EntryStaged
<1>17. \A s \in Part : SparesEntries(call.plan[s], h)'
  BY <1>9, <1>13 DEF EntriesKept, SparesEntries, Part
<1>18. \A i \in Slot : recs'[i].used => SparesEntries(recs[i], h)'
  BY <1>11 DEF EntriesKept, SparesEntries
<1> QED BY <1>15, <1>16, <1>17, <1>18 DEF EntriesKept

LEMMA KeptApply ==
  ASSUME Discipline, IInv, NEW h \in Hooks, EntriesKept(h), Apply
  PROVE  EntriesKept(h)'
<1> DEFINE p == Current
           jump == [a \in DOMAIN p.orig |-> Patch(p.addr, p.len, call.map, call.stage)]
<1>1. /\ call.pc = "apply" /\ mem' = Put(mem, jump) /\ UNCHANGED <<maps, recs>>
      /\ call'.pc = "fix" /\ call'.plan = call.plan
  BY CallFields DEF Apply, ApplyBytes, IInv, TypeInv
<1>2. /\ p = call.plan[call.stage] /\ call.stage \in Part
      /\ DOMAIN p.orig \subseteq Region(p.addr, 4)
      /\ p.addr = IF call.stage = "entry" THEN call.req.fn ELSE call.req.start
      /\ call.req \in Requests /\ call.req.fn \in Fn
  BY <1>1, CurrentPlan, EngineAssumption
     DEF IInv, TypeInv, Planned, Fn, CallShape, Mapped
<1>3. /\ \A a \in Addr \cap DOMAIN p.orig :
           mem'[a] = Patch(p.addr, p.len, call.map, call.stage)
      /\ \A a \in Addr \ DOMAIN p.orig : mem'[a] = mem[a]
  BY <1>1 DEF Put
<1>4. SparesEntries(p, h)
  BY <1>2 DEF EntriesKept
<1> HIDE DEF p, jump
<1>5. Patch(p.addr, p.len, call.map, call.stage).kind = "patch"
  BY DEF Patch
<1>6. EntryCode(h)'
  <2> SUFFICES ASSUME NEW fn \in Fn
               PROVE  /\ \A a \in Region(fn, 4) : EntryWord(a, h)'
                      /\ ~Image /\ h[fn] > 0 => \A a \in Behind(fn, h[fn]) : mem'[a] = Orig(a)
                      /\ \A w \in HooksEntered(fn)' : Resumes(fn, w, h)'
    BY DEF EntryCode
  <2>1. fn \in Addr /\ fn \in Region(fn, 4) /\ Region(fn, 4) \subseteq Addr
    BY EntryPlace
  <2>2. \A a \in Region(fn, 4) : EntryWord(a, h)'
    BY <1>3, <1>5, <2>1 DEF EntriesKept, EntryCode, EntryWord
  <2>3. ~Image /\ h[fn] > 0 => \A a \in Behind(fn, h[fn]) : mem'[a] = Orig(a)
    BY <1>3, <1>4, <2>1 DEF EntriesKept, EntryCode, Behind, SparesEntries, GivesBack
  <2>4. CASE call.stage = "entry" /\ fn = call.req.fn
    <3>1. fn \in DOMAIN p.orig
      BY <1>1, <1>2, <2>4 DEF EntriesKept, EntryStaged
    <3>2. mem'[fn].kind = "patch" /\ mem'[fn].map = call.map
      BY <1>3, <2>1, <3>1 DEF Patch
    <3>3. \A w \in HooksEntered(fn)' : w \in maps[call.map].entry.disp /\ w.kind = "hook"
      BY <1>1, <3>2 DEF HooksEntered
    <3>4. ASSUME NEW w \in HooksEntered(fn)' PROVE Resumes(fn, w, h)'
      <4>1. Resumes(fn, w, h) /\ DOMAIN p.orig \subseteq Region(fn, w.len)
        BY <1>1, <1>2, <2>4, <3>3 DEF EntriesKept, EntryStaged
      <4> QED BY <1>3, <2>1, <4>1 DEF Resumes, Behind
    <3> QED BY <2>2, <2>3, <3>4
  <2>5. CASE ~(call.stage = "entry" /\ fn = call.req.fn)
    <3>1. \A a \in Region(fn, 4) : a \notin DOMAIN p.orig
      BY <1>2, <2>5 DEF Discipline, SitesApart
    <3>2. \A a \in Region(fn, 4) : mem'[a] = mem[a]
      BY <1>3, <2>1, <3>1
    <3>3. \A w \in HooksEntered(fn)' : w \in HooksEntered(fn)
      BY <1>1, <2>1, <3>2 DEF HooksEntered
    <3>4. \A w \in HooksEntered(fn)' : Resumes(fn, w, h)'
      BY <3>2, <3>3 DEF EntriesKept, EntryCode, Resumes, Behind
    <3> QED BY <2>2, <2>3, <3>4
  <2> QED BY <2>4, <2>5
<1>7. Measured(h)' /\ EntryStaged(h)'
  BY <1>1 DEF Measured, EntryStaged, Early
<1>8. \A s \in Part : SparesEntries(call.plan[s], h)'
  BY <1>1 DEF EntriesKept, SparesEntries
<1>9. \A i \in Slot : recs'[i].used => SparesEntries(recs[i], h)'
  BY <1>1 DEF EntriesKept, SparesEntries
<1> QED BY <1>6, <1>7, <1>8, <1>9 DEF EntriesKept

\* Writes of what a plan or a record saved, or of a branch it redirects.
LEMMA KeptWrite ==
  ASSUME Discipline, IInv, NEW h \in Hooks, EntriesKept(h), NEW p, SparesEntries(p, h),
         \A a \in Addr : \/ mem'[a] = mem[a] \/ a \in DOMAIN p.fixes
                         \/ a \in DOMAIN p.orig /\ mem'[a] = p.orig[a],
         UNCHANGED <<maps, recs>>, call'.plan = call.plan,
         call'.pc \notin Early, ~(call'.pc = "apply" /\ call'.stage = "entry")
  PROVE  EntriesKept(h)'
<1>1. ASSUME NEW fn \in Fn, NEW a \in Region(fn, 4)
      PROVE  mem'[a] = mem[a] \/ GivesBack(fn, a, mem'[a], h)
  BY EntryPlace DEF SparesEntries
<1>2. \A s \in Part : SparesEntries(call'.plan[s], h)
  BY DEF EntriesKept
<1>3. \A i \in Slot : recs'[i].used => SparesEntries(recs'[i], h)
  BY DEF EntriesKept
<1> QED BY <1>1, <1>2, <1>3, EntriesAway

LEMMA KeptFix ==
  ASSUME Discipline, IInv, NEW h \in Hooks, EntriesKept(h), Fix \/ Unfix
  PROVE  EntriesKept(h)'
<1>1. CASE Fix
  <2>1. PICK f \in call.left : ApplyBytes([a \in {f} |-> Branch(Current.addr)])
    BY <1>1 DEF Fix
  <2>2. f \in DOMAIN Current.fixes /\ call.pc = "fix" /\ call.stage \in Part
    BY <1>1, <2>1, CurrentPlan DEF Fix, IInv, TypeInv, CallShape, Pending, Planned
  <2>3. \A a \in Addr : mem'[a] = mem[a] \/ a \in DOMAIN Current.fixes
    BY <2>1, <2>2 DEF ApplyBytes, Put
  <2>4. SparesEntries(Current, h)
    BY <2>2 DEF EntriesKept, Current
  <2>5. call'.plan = call.plan /\ call'.pc = "fix" /\ UNCHANGED <<maps, recs>>
    BY <1>1, CallFields DEF Fix, IInv, TypeInv
  <2> QED BY <2>3, <2>4, <2>5, KeptWrite DEF Early
<1>2. CASE Unfix
  <2>1. PICK f \in call.left : ApplyBytes([a \in {f} |-> recs[call.rec].fixes[f]])
    BY <1>2 DEF Unfix
  <2>2. call.rec \in Slot /\ recs[call.rec].used /\ f \in DOMAIN recs[call.rec].fixes
    BY <1>2, <2>1 DEF Unfix, IInv, CallShape
  <2>3. \A a \in Addr : mem'[a] = mem[a] \/ a \in DOMAIN recs[call.rec].fixes
    BY <2>1, <2>2 DEF ApplyBytes, Put
  <2>4. SparesEntries(recs[call.rec], h)
    BY <2>2 DEF EntriesKept
  <2>5. call'.plan = call.plan /\ call'.pc = "unfix" /\ UNCHANGED <<maps, recs>>
    BY <1>2, CallFields DEF Unfix, IInv, TypeInv
  <2> QED BY <2>3, <2>4, <2>5, KeptWrite DEF Early
<1> QED BY <1>1, <1>2

LEMMA KeptRestore ==
  ASSUME Discipline, IInv, NEW h \in Hooks, EntriesKept(h), Restore
  PROVE  EntriesKept(h)'
<1>1. call.rec \in Slot /\ recs[call.rec].used
  BY DEF Restore, IInv, CallShape
<1>2. \A a \in Addr : \/ mem'[a] = mem[a]
                      \/ a \in DOMAIN recs[call.rec].orig /\ mem'[a] = recs[call.rec].orig[a]
  BY DEF Restore, ApplyBytes, Put
<1>3. SparesEntries(recs[call.rec], h)
  BY <1>1 DEF EntriesKept
<1>4. call'.plan = call.plan /\ call'.pc = "release" /\ UNCHANGED <<maps, recs>>
  BY CallFields DEF Restore, IInv, TypeInv
<1> QED BY <1>2, <1>3, <1>4, KeptWrite DEF Early

LEMMA KeptUndo ==
  ASSUME Discipline, IInv, NEW h \in Hooks, EntriesKept(h),
         Undo \/ UndoEntry \/ UndoUnplannedEntry
  PROVE  EntriesKept(h)'
<1>1. /\ call'.plan = call.plan /\ call'.pc \in {"undo_entry", "unmap", "crashed"}
      /\ UNCHANGED <<maps, recs>>
  BY CallFields DEF Undo, UndoEntry, UndoUnplannedEntry, AfterUndo, IInv, TypeInv
<1>2. CASE Undo
  <2>1. call.stage \in Part
    BY <1>2, CallFields DEF IInv, TypeInv
  <2>2. SparesEntries(Current, h)
    BY <2>1 DEF EntriesKept, Current
  <2>3. \A a \in Addr : \/ mem'[a] = mem[a] \/ a \in DOMAIN Current.fixes
                        \/ a \in DOMAIN Current.orig /\ mem'[a] = Current.orig[a]
    BY <1>2 DEF Undo, RolledBack, Done, Put
  <2> QED BY <1>1, <2>2, <2>3, KeptWrite DEF Early
<1>3. ASSUME NEW p, SparesEntries(p, h), mem' = Put(Put(mem, p.orig), p.fixes)
      PROVE  EntriesKept(h)'
  <2>1. \A a \in Addr : \/ mem'[a] = mem[a] \/ a \in DOMAIN p.fixes
                        \/ a \in DOMAIN p.orig /\ mem'[a] = p.orig[a]
    BY <1>3 DEF Put
  <2> QED BY <1>1, <1>3, <2>1, KeptWrite DEF Early
<1>4. CASE UndoEntry
  BY <1>3, <1>4 DEF UndoEntry, EntriesKept, Part
<1>5. CASE UndoUnplannedEntry
  <2>1. CASE UNCHANGED mem
    BY <1>1, <2>1, KeptQuiet, EmptyReplays DEF Early
  <2>2. CASE ~UNCHANGED mem
    <3>1. PICK i \in Slot : recs[i].used /\ mem' = Put(Put(mem, recs[i].orig), recs[i].fixes)
      BY <1>5, <2>2 DEF UndoUnplannedEntry
    <3> QED BY <1>3, <3>1 DEF EntriesKept
  <2> QED BY <2>1, <2>2
<1> QED BY <1>2, <1>4, <1>5

\* The ends of calls, and steps that only turn the call.
LEMMA KeptTurn ==
  ASSUME Discipline, IInv, NEW h \in Hooks, EntriesKept(h),
         \/ MapFails \/ PlanFails \/ Unmap \/ ApplyRefused \/ FixRefused \/ UnpatchRefused
         \/ RegisterFails \/ \E i \in Slot : Unpatch(i)
  PROVE  EntriesKept(h)'
<1>1. /\ UNCHANGED <<mem, recs>>
      /\ \/ UNCHANGED maps \/ maps' = [maps EXCEPT ![call.map] = NewMapping(0)]
  BY DEF MapFails, PlanFails, Unmap, ApplyRefused, FixRefused, UnpatchRefused, RegisterFails,
         Unpatch, Munmap, Unmapped
<1>2. \A res : Return(res) => call'.pc = "idle" /\ \A s \in Part : call'.plan[s] = NoPlan
  BY DEF Return, Idle, Enter
<1>3. (\E i \in Slot : Unpatch(i)) =>
        call'.pc = "unfix" /\ \A s \in Part : call'.plan[s] = NoPlan
  BY DEF Unpatch, Enter
<1>4. ApplyRefused \/ FixRefused => call'.pc \in {"undo", "undo_entry", "unmap"} /\ call'.plan = call.plan
  BY CallFields DEF ApplyRefused, FixRefused, AfterUndo, IInv, TypeInv
<1>5. RegisterFails => \/ call'.pc = "unmap" /\ call'.plan = call.plan
                       \/ Return("error")
  BY CallFields DEF RegisterFails, IInv, TypeInv
<1>6. /\ call'.pc \in {"idle", "unfix", "undo", "undo_entry", "unmap"}
      /\ \A s \in Part : call'.plan[s] \in {call.plan[s], NoPlan}
  BY <1>2, <1>3, <1>4, <1>5 DEF MapFails, PlanFails, Unmap, UnpatchRefused
<1> QED BY <1>1, <1>6, KeptQuiet, EmptyReplays DEF Early

LEMMA KeptRegister ==
  ASSUME Discipline, IInv, NEW h \in Hooks, EntriesKept(h), Register
  PROVE  EntriesKept(h)'
<1>1. call.pc = "fix" /\ call.stage \in Part /\ UNCHANGED <<mem, maps>>
  BY CallFields DEF Register, IInv, TypeInv
<1>2. SparesEntries(Current, h)
  BY <1>1 DEF EntriesKept, Current
<1>3. PICK i \in Slot : recs' = [recs EXCEPT ![i] =
            [used |-> TRUE, addr |-> Current.addr, orig |-> Current.orig,
             fixes |-> Current.fixes, map |-> call.map,
             refs |-> IF Fresh THEN 2 ELSE 1]]
  BY DEF Register
<1>4. recs'[i].orig = Current.orig /\ recs'[i].fixes = Current.fixes
  BY <1>3 DEF IInv, TypeOK, RecsOK
<1>5. \A j \in Slot \ {i} : recs'[j] = recs[j]
  BY <1>3 DEF IInv, TypeOK, RecsOK
<1>6. SparesEntries(recs'[i], h)
  BY <1>2, <1>4 DEF SparesEntries
<1>7. \A j \in Slot : recs'[j].used => SparesEntries(recs'[j], h)
  BY <1>5, <1>6 DEF EntriesKept
<1>8. /\ call'.pc \in {"apply", "idle"} /\ (call'.pc = "apply" => call'.stage = "guard")
      /\ \A s \in Part : call'.plan[s] \in {call.plan[s], NoPlan}
  <2>1. CASE call.stage = "entry"
    BY <2>1, CallFields DEF Register, IInv, TypeInv
  <2>2. CASE call.stage # "entry"
    BY <2>2 DEF Register, Return, Idle, Enter
  <2> QED BY <2>1, <2>2
<1>9. \A s \in Part : SparesEntries(call'.plan[s], h)
  BY <1>8, NoPlanSpares DEF EntriesKept
<1> QED BY <1>1, <1>7, <1>8, <1>9, EntriesAway DEF Early

LEMMA KeptRelease ==
  ASSUME Discipline, IInv, NEW h \in Hooks, EntriesKept(h), Release
  PROVE  EntriesKept(h)'
<1>1. /\ UNCHANGED mem /\ recs' = [recs EXCEPT ![call.rec] = Blank]
      /\ \/ UNCHANGED maps \/ maps' = [maps EXCEPT ![recs[call.rec].map] = NewMapping(0)]
      /\ call'.pc = "idle" /\ \A s \in Part : call'.plan[s] = NoPlan
  BY DEF Release, DropRef, Munmap, Unmapped, Return, Idle, Enter
<1>2. \A i \in Slot : recs'[i].used => recs'[i] = recs[i] /\ recs[i].used
  BY <1>1 DEF Blank, IInv, TypeOK, RecsOK
<1>3. \A i \in Slot : recs'[i].used => SparesEntries(recs'[i], h)
  BY <1>2 DEF EntriesKept
<1>4. \A s \in Part : SparesEntries(call'.plan[s], h)
  BY <1>1, NoPlanSpares
<1>5. \A fn \in Fn : mem[fn].kind = "patch" =>
        maps'[mem[fn].map].entry.disp \subseteq maps[mem[fn].map].entry.disp
  BY <1>1, EmptyReplays
<1> QED BY <1>1, <1>3, <1>4, <1>5, EntriesAway DEF Early

LEMMA KeptStutter ==
  ASSUME NEW h \in Hooks, EntriesKept(h), UNCHANGED <<mem, maps, recs, call>>
  PROVE  EntriesKept(h)'
BY DEF EntriesKept, EntryCode, EntryWord, Behind, HooksEntered, Resumes, Measured, EntryStaged,
       SparesEntries, Fresh

LEMMA KeptInit ==
  ASSUME Discipline, Init
  PROVE  \E h \in Hooks : EntriesKept(h)
<1>1. PICK h \in Hooks : mem = HookedCode(h)
  BY DEF Init
<1>2. /\ call.pc = "idle" /\ \A s \in Part : call.plan[s] = NoPlan
      /\ \A i \in Slot : ~recs[i].used
  BY DEF Init, Idle, Enter, Blank
<1>3. ASSUME NEW fn \in Fn, NEW w \in HooksEntered(fn) PROVE Resumes(fn, w, h)
  <2>1. fn \in Addr /\ mem[fn].kind # "patch" /\ fn \in Region(fn, 4)
    BY <1>1, EntryPlace, HookedCodeType
  <2>2. w = mem[fn] /\ w.kind = "hook"
    BY <1>3, <2>1 DEF HooksEntered
  <2>3. fn \in Region(fn, h[fn])
    BY <1>1, <2>1, <2>2, FoundEntry, OrigNoHook DEF Behind
  <2>4. w.len = h[fn]
    BY <1>1, <2>2, <2>3, FoundEntry
  <2> QED BY <1>1, <2>4, FoundEntry DEF Resumes
<1>4. EntryCode(h)
  BY <1>1, <1>3, FoundEntry DEF EntryCode, EntryWord
<1>5. Measured(h) /\ EntryStaged(h)
  BY <1>2 DEF Measured, EntryStaged, Early
<1> QED BY <1>2, <1>4, <1>5, NoPlanSpares DEF EntriesKept

LEMMA KeptNext ==
  ASSUME Discipline, Independent, HooksKnown, EntriesStraight, IInv,
         NEW h \in Hooks, EntriesKept(h), [Next]_vars
  PROVE  EntriesKept(h)'
<1>1. CASE \E r \in Requests : GuardBlock(r) \/ GuardBlockSnap(r)
  BY <1>1, KeptBegin
<1>2. CASE (\E i \in Slot : Unpatch(i)) \/ MapFails \/ UnpatchRefused
  BY <1>2, KeptTurn
<1>3. CASE Reject \/ (\E p \in Resets : ResetPage(p)) \/ UNCHANGED vars
  BY <1>3, KeptStutter DEF Reject, ResetPage, vars
<1>4. CASE Install /\ ~MapFails
  <2>1. CASE \E m \in MapId : MapTrampoline(m)
    BY <2>1, KeptMapTrampoline
  <2>2. CASE PlanGuard
    BY <2>2, KeptPlanGuard
  <2>3. CASE PlanEntry
    BY <2>3, KeptPlanEntry
  <2>4. CASE PlanFails \/ Unmap \/ ApplyRefused \/ FixRefused \/ RegisterFails
    BY <2>4, KeptTurn
  <2>5. CASE Apply
    BY <2>5, KeptApply
  <2>6. CASE Fix
    BY <2>6, KeptFix
  <2>7. CASE Register
    BY <2>7, KeptRegister
  <2>8. CASE Undo \/ UndoEntry \/ UndoUnplannedEntry
    BY <2>8, KeptUndo
  <2> QED BY <1>4, <2>1, <2>2, <2>3, <2>4, <2>5, <2>6, <2>7, <2>8 DEF Install
<1>5. CASE Uninstall /\ ~UnpatchRefused
  BY <1>5, KeptFix, KeptRestore, KeptRelease DEF Uninstall
<1> QED BY <1>1, <1>2, <1>3, <1>4, <1>5 DEF Next

\* As long as control entering a function goes on into a foreign hook, found in
\* the code or kept by an entry patch, the words between the hook's end and the
\* fifth word, where its relocated code comes back to, are as the linker put
\* them: at every moment, whichever write is refused, and whether a call plans
\* from the file or from the live code (instr_plan.c 741-796).
THEOREM HookReturnKept ==
  ASSUME Discipline, Independent, HooksKnown, EntriesStraight
  PROVE  Spec /\ []TableHasRoom => []HookReturnIntact
<1> DEFINE Inv == IInv /\ \E h \in Hooks : EntriesKept(h)
<1>1. Init => Inv
  BY LandInit, KeptInit
<1>2. Inv /\ TableHasRoom /\ [Next]_vars => Inv'
  BY LandNext, KeptNext
<1>3. Inv => HookReturnIntact
  BY DEF EntriesKept, EntryCode, Resumes, Behind, HookReturnIntact
<1> QED BY <1>1, <1>2, <1>3, PTL DEF Spec

(***************************************************************************)
(* Branches and patches.                                                   *)
(***************************************************************************)
\* A place to be patched branches to its own first word at most, unless clients
\* ask for data-flow guards only.
OwnBranches ==
  \/ BlockOnly
  \/ \A s \in Site : \A a \in Region(s, 4) \cap Addr :
       Target[a] \in Region(s, 4) => Target[a] = s

Ready == Planned \cup {"plan_entry"}

\* The words of s are what the trampoline in mapping m replays; of data-flow
\* guards, s is the place the mapping is used for.
ReplaysOf(m, s, h) ==
  /\ \A w \in maps[m].guard.disp : \E x \in Region(s, 4) \cap Addr : w = HookedCode(h)[x]
  /\ BlockOnly =>
       /\ \A i \in Slot : recs[i].used /\ recs[i].map = m => recs[i].addr = s
       /\ call.pc \in Ready /\ call.map = m => call.req.start = s
Replays(h) == \A m \in MapId : maps[m].guard.disp # {} => \E s \in Site : ReplaysOf(m, s, h)

\* A step that fills no trampoline and puts no record in.
LEMMA ReplayKeep ==
  ASSUME NEW h \in Hooks, Replays(h),
         \A m \in MapId : maps'[m].guard.disp \in {maps[m].guard.disp, {}},
         \A i \in Slot : recs'[i].used =>
           recs[i].used /\ recs'[i].map = recs[i].map /\ recs'[i].addr = recs[i].addr,
         call'.pc \in Ready =>
           call.pc \in Ready /\ call'.map = call.map /\ call'.req = call.req
  PROVE  Replays(h)'
<1> SUFFICES ASSUME NEW m \in MapId, maps'[m].guard.disp # {}
             PROVE  \E s \in Site : ReplaysOf(m, s, h)'
  BY DEF Replays
<1>1. maps'[m].guard.disp = maps[m].guard.disp
  OBVIOUS
<1>2. PICK s \in Site : ReplaysOf(m, s, h)
  BY <1>1 DEF Replays
<1>3. ReplaysOf(m, s, h)'
  BY <1>1, <1>2 DEF ReplaysOf
<1> QED BY <1>3

LEMMA ReplayPlan ==
  ASSUME NEW h \in Hooks, Replays(h), Registry(h)', Step, PlanGuard
  PROVE  Replays(h)'
<1>1. /\ call.pc = "plan" /\ call.stage = "guard" /\ UNCHANGED recs /\ TypeInv
      /\ call.map \in MapId /\ call.req \in Requests /\ SnapInv
  BY DEF PlanGuard, Step, IInv, CallShape, Mapped, SnapInv
<1>2. \A i \in Slot : recs[i].used => recs[i].map # call.map
  BY <1>1 DEF SnapInv, CallPages, Unregistered, EntryIn, Mapped
<1> DEFINE n    == GuardLen(call.map)
           plan == MakePlan(call.req.start, n, GuardFixups(call.req, n))
           d    == {plan.orig[a] : a \in Region(call.req.start, n)}
<1>3. /\ \E pc \in {"plan_entry", "apply"} :
           call' = [call EXCEPT !.pc = pc, !.plan["guard"] = plan]
      /\ \E sn : maps' = [maps EXCEPT ![call.map].guard = [disp |-> d, snap |-> sn]]
      /\ d = {plan.orig[a] : a \in Region(call.req.start, n)}
      /\ DOMAIN plan.orig = Region(call.req.start, n)
  BY DEF PlanGuard, MakePlan
<1> HIDE DEF n, plan, d
<1>4. /\ call'.pc \in {"plan_entry", "apply"} /\ call'.map = call.map /\ call'.req = call.req
      /\ call'.plan["guard"] = plan
  BY <1>1, <1>3, CallFields DEF Part
<1>5. Saves(plan, h)
  BY <1>4 DEF Registry, Plans, InStage
<1>6. plan.addr = call.req.start
  <2>1. IInv'
    BY DEF Step
  <2> QED BY <1>4, <2>1 DEF IInv, CallShape, Planned
<1>7. /\ maps'[call.map].guard.disp = d
      /\ \A m \in MapId : m # call.map => maps'[m] = maps[m]
  BY <1>1, <1>3, CallFields
<1> SUFFICES ASSUME NEW m \in MapId, maps'[m].guard.disp # {}
             PROVE  \E s \in Site : ReplaysOf(m, s, h)'
  BY DEF Replays
<1>8. CASE m # call.map
  <2>1. maps'[m] = maps[m]
    BY <1>7, <1>8
  <2>2. PICK s \in Site : ReplaysOf(m, s, h)
    BY <2>1 DEF Replays
  <2>3. ReplaysOf(m, s, h)'
    BY <1>1, <1>4, <1>8, <2>1, <2>2 DEF ReplaysOf
  <2> QED BY <2>3
<1>9. CASE m = call.map
  <2>1. \A w \in maps'[m].guard.disp :
          \E x \in Region(call.req.start, 4) \cap Addr : w = HookedCode(h)[x]
    BY <1>3, <1>5, <1>6, <1>7, <1>9 DEF Saves
  <2>2. PICK s \in Site : s = call.req.start
    BY <1>1 DEF Site
  <2>3. ReplaysOf(m, s, h)'
    BY <1>1, <1>2, <1>4, <1>9, <2>1, <2>2 DEF ReplaysOf
  <2> QED BY <2>3
<1> QED BY <1>8, <1>9

LEMMA ReplayRegister ==
  ASSUME NEW h \in Hooks, Replays(h), Step, Register
  PROVE  Replays(h)'
<1>1. /\ call.pc = "fix" /\ call.pc \in Planned /\ call.pc \in Ready /\ UNCHANGED maps
      /\ TypeInv /\ call.req \in Requests
  BY DEF Register, Planned, Ready, Step, SnapInv, IInv, CallShape, Mapped
<1>2. BlockOnly => call.stage # "entry" /\ Current.addr = call.req.start
  BY <1>1, CurrentPlan DEF BlockOnly, Fresh
<1> DEFINE r == [used |-> TRUE, addr |-> Current.addr, orig |-> Current.orig,
                 fixes |-> Current.fixes, map |-> call.map,
                 refs |-> IF Fresh THEN 2 ELSE 1]
<1>3. r.map = call.map /\ r.addr = Current.addr /\ \E i \in Slot : recs' = [recs EXCEPT ![i] = r]
  BY DEF Register
<1> HIDE DEF r
<1>4. PICK i \in Slot : recs'[i] = r /\ \A j \in Slot : j # i => recs'[j] = recs[j]
  BY <1>1, <1>3, CallFields
<1>5. call'.pc \in Ready => call'.map = call.map /\ call'.req = call.req
  <2>1. CASE call.stage = "entry"
    BY <1>1, <2>1, CallFields DEF Register
  <2>2. CASE call.stage # "entry"
    BY <2>2, ReturnIdle DEF Register, Ready, Planned
  <2> QED BY <2>1, <2>2
<1> SUFFICES ASSUME NEW m \in MapId, maps'[m].guard.disp # {}
             PROVE  \E s \in Site : ReplaysOf(m, s, h)'
  BY DEF Replays
<1>6. PICK s \in Site : ReplaysOf(m, s, h)
  BY <1>1 DEF Replays
<1>7. BlockOnly => \A j \in Slot : recs'[j].used /\ recs'[j].map = m => recs'[j].addr = s
  BY <1>1, <1>2, <1>3, <1>4, <1>6 DEF ReplaysOf
<1>8. ReplaysOf(m, s, h)'
  BY <1>1, <1>5, <1>6, <1>7 DEF ReplaysOf
<1> QED BY <1>8

LEMMA ReplayNext ==
  ASSUME NEW h \in Hooks, Replays(h), Registry(h)', Step, TableHasRoom, [Next]_vars
  PROVE  Replays(h)'
<1>1. TypeInv /\ SnapInv /\ IInv
  BY DEF Step, SnapInv
<1>2. CASE PlanGuard \/ Register
  BY <1>2, ReplayPlan, ReplayRegister
<1>3. CASE PlanEntry
  <2>1. PICK d, p : /\ maps' = [maps EXCEPT ![call.map].entry.disp = d]
                    /\ call' = [call EXCEPT !.pc = "apply", !.stage = "entry", !.plan["entry"] = p]
                    /\ UNCHANGED recs /\ call.pc = "plan_entry"
    BY <1>3 DEF PlanEntry
  <2>2. call.map \in MapId /\ maps[call.map] \in Mapping
    BY <1>1, <2>1, CallFields DEF IInv, CallShape, Mapped
  <2>3. \A m \in MapId : maps'[m].guard.disp = maps[m].guard.disp
    BY <1>1, <2>1, <2>2, CallFields DEF Mapping
  <2>4. call'.map = call.map /\ call'.req = call.req
    BY <1>1, <2>1, CallFields
  <2> QED BY <2>1, <2>3, <2>4, ReplayKeep DEF Ready
<1>4. CASE (\E m \in MapId : MapTrampoline(m)) \/ MapFails \/ PlanFails \/ Unmap \/ Release
           \/ UnpatchRefused
  <2>1. \A m \in MapId : maps'[m].guard.disp \in {maps[m].guard.disp, {}}
    <3>1. \/ UNCHANGED maps
          \/ \E x, k : maps' = [maps EXCEPT ![x] = NewMapping(k)]
      BY <1>4 DEF MapTrampoline, MapFails, PlanFails, Unmap, Release,
         UnpatchRefused, DropRef, Munmap, Unmapped
    <3>2. \A k : NewMapping(k).guard = Empty
      BY DEF NewMapping
    <3>3. \A m \in MapId : maps'[m] = maps[m] \/ maps'[m].guard = Empty
      BY <1>1, <3>1, <3>2, CallFields
    <3> QED BY <3>3 DEF Empty
  <2>2. call'.pc \notin Ready
    <3>1. CASE \E m \in MapId : MapTrampoline(m)
      BY <1>1, <3>1, CallFields DEF MapTrampoline, Ready, Planned
    <3> QED BY <1>4, <3>1, ReturnIdle DEF MapFails, PlanFails, Unmap, Release, UnpatchRefused,
               Ready, Planned
  <2>3. \A i \in Slot : recs'[i].used => recs'[i] = recs[i]
    <3>1. CASE Release
      <4>1. recs' = [recs EXCEPT ![call.rec] = Blank]
        BY <3>1 DEF Release
      <4> QED BY <1>1, <4>1, CallFields DEF Blank
    <3> QED BY <1>4, <3>1 DEF MapTrampoline, MapFails, PlanFails, Unmap, UnpatchRefused
  <2>4. ASSUME NEW i \in Slot, recs'[i].used
        PROVE  recs[i].used /\ recs'[i].map = recs[i].map /\ recs'[i].addr = recs[i].addr
    BY <2>3, <2>4
  <2> QED BY <2>1, <2>2, <2>4, ReplayKeep
<1>5. CASE \/ \E r \in Requests : GuardBlock(r) \/ GuardBlockSnap(r)
           \/ \E i \in Slot : Unpatch(i)
           \/ Reject \/ (\E p \in Resets : ResetPage(p)) \/ UNCHANGED vars
           \/ Apply \/ ApplyRefused \/ Fix \/ FixRefused \/ Undo \/ Unfix \/ Restore
  <2>1. UNCHANGED <<maps, recs>>
    BY <1>5 DEF GuardBlock, GuardBlockSnap, Begin, Unpatch, Reject, ResetPage, vars, Apply,
       ApplyRefused, Fix, FixRefused, Undo, Unfix, Restore
  <2>2. call'.pc \in Ready => call.pc \in Ready /\ call'.map = call.map /\ call'.req = call.req
    <3>1. CASE \E r \in Requests : GuardBlock(r) \/ GuardBlockSnap(r)
      BY <3>1 DEF GuardBlock, GuardBlockSnap, Begin, Enter, Ready, Planned
    <3>2. CASE \E i \in Slot : Unpatch(i)
      BY <3>2 DEF Unpatch, Enter, Ready, Planned
    <3>3. CASE Reject \/ (\E p \in Resets : ResetPage(p)) \/ UNCHANGED vars
      BY <3>3 DEF Reject, ResetPage, vars
    <3>4. CASE Apply \/ ApplyRefused \/ Fix \/ FixRefused \/ Undo
      BY <1>1, <3>4, CallFields DEF Apply, ApplyRefused, Fix, FixRefused, Undo, Ready, Planned
    <3>5. CASE Unfix \/ Restore
      BY <1>1, <3>5, CallFields DEF Unfix, Restore, Ready, Planned
    <3> QED BY <1>5, <3>1, <3>2, <3>3, <3>4, <3>5
  <2> QED BY <2>1, <2>2, ReplayKeep
<1>6. ~RegisterFails /\ ~UndoEntry /\ ~UndoUnplannedEntry
  BY <1>1 DEF RegisterFails, TableHasRoom, UndoEntry, UndoUnplannedEntry, SnapInv, CallPages
<1> QED
  BY <1>2, <1>3, <1>4, <1>5, <1>6 DEF Next, Install, Uninstall

BranchInv == RegInv /\ \E h \in Hooks : Registry(h) /\ Replays(h)

\* The patch an inner word belongs to.
LEMMA InnerWord ==
  ASSUME NEW h \in Hooks, Registry(h), IInv, call.pc = "idle", NEW b \in Interior
  PROVE  \E j \in Slot : /\ recs[j].used /\ Saves(recs[j], h) /\ b \in DOMAIN recs[j].orig
                         /\ recs[j].addr = mem[b].at /\ recs[j].map = mem[b].map
                         /\ b # recs[j].addr /\ b \in Addr
<1>1. b \in Addr /\ PatchAt(b) /\ b # mem[b].at
  BY DEF Interior, PatchAt
<1>2. Recorded(b)
  BY <1>1 DEF IInv, Owned, InCall, Pending
<1> QED BY <1>1, <1>2 DEF Recorded, Registry, Records

\* No branch in the code leads into a patch.
LEMMA CodeAvoids ==
  ASSUME NEW h \in Hooks, Registry(h), IInv, Orderly, ScanCovers, call.pc = "idle",
         NEW a \in Addr
  PROVE  BranchTo(mem[a]) \notin Interior
<1> SUFFICES ASSUME BranchTo(mem[a]) \in Interior PROVE FALSE
  OBVIOUS
<1>1. PICK b : b = BranchTo(mem[a])
  OBVIOUS
<1>2. PICK j \in Slot : /\ recs[j].used /\ Saves(recs[j], h) /\ b \in DOMAIN recs[j].orig
                        /\ b # recs[j].addr /\ b \in Addr
  BY <1>1, InnerWord
<1>3. CASE ~Covered(a)
  <2>1. mem[a] = HookedCode(h)[a]
    BY <1>3, IdleLayers
  <2>2. a \in Cover(recs[j])
    BY <1>1, <1>2, <2>1 DEF Saves
  <2> QED BY <1>2, <1>3, <2>2 DEF Covered, Cover
<1>4. CASE Covered(a)
  <2>1. PICK i \in Slot : recs[i].used /\ a \in DOMAIN recs[i].orig \cup DOMAIN recs[i].fixes
    BY <1>4 DEF Covered
  <2>2. a \notin DOMAIN recs[i].orig
    <3>1. mem[a].kind = "patch" => b = NoAddr
      BY <1>1 DEF BranchTo
    <3> QED BY <1>2, <2>1, <3>1, IdleLayers, EngineAssumption
  <2>3. b = recs[i].addr
    <3>1. mem[a] = Branch(recs[i].addr)
      BY <2>1, <2>2, IdleLayers
    <3> QED BY <1>1, <3>1 DEF BranchTo, Branch, Plain
  <2>4. recs[i].addr \in Site /\ recs[j].addr \in Site /\ b \in Region(recs[j].addr, 4)
    BY <1>2, <2>1 DEF Saves, Registry, Records
  <2>5. b \in Region(recs[i].addr, 4)
    <3>1. b \in Nat
      BY <1>2, EngineAssumption
    <3> QED BY <2>3, <3>1, SiteWords
  <2> QED BY <1>2, <2>3, <2>4, <2>5, SitesDisjoint DEF Orderly
<1> QED BY <1>3, <1>4

\* No branch that a guard's trampoline replays leads into another patch.
LEMMA ReplayAvoids ==
  ASSUME NEW h \in Hooks, Registry(h), Replays(h), IInv, Orderly, OwnBranches,
         call.pc = "idle", NEW a \in Addr, mem[a].kind = "patch",
         NEW w \in maps[mem[a].map].guard.disp, BranchTo(w) \in Interior
  PROVE  mem[BranchTo(w)].map = mem[a].map
<1>1. PICK b : b = BranchTo(w)
  OBVIOUS
<1>2. PICK m : m = mem[a].map
  OBVIOUS
<1>3. PICK j \in Slot : /\ recs[j].used /\ Saves(recs[j], h) /\ b \in DOMAIN recs[j].orig
                        /\ recs[j].addr = mem[b].at /\ recs[j].map = mem[b].map
                        /\ b # recs[j].addr /\ b \in Addr
  BY <1>1, InnerWord
<1>4. m \in MapId /\ \E i \in Slot : recs[i].used /\ recs[i].map = m
  BY <1>2 DEF IInv, Owned, PatchAt, WellPlaced, Recorded, InCall, Pending
<1>5. PICK s \in Site : ReplaysOf(m, s, h)
  BY <1>2, <1>4 DEF Replays
<1>6. PICK x \in Region(s, 4) \cap Addr : w = HookedCode(h)[x]
  BY <1>2, <1>5 DEF ReplaysOf
<1>7. b = Target[x]
  <2>1. b \in {Target[x], NoAddr}
    BY <1>1, <1>6, FoundWords
  <2> QED BY <1>3, <2>1, EngineAssumption
<1>8. b \in Region(recs[j].addr, 4) /\ recs[j].addr \in Site
  BY <1>3 DEF Saves
<1>9. s = recs[j].addr
  BY <1>6, <1>7, <1>8 DEF Orderly, Independent
<1>10. BlockOnly
  BY <1>3, <1>6, <1>7, <1>8, <1>9 DEF OwnBranches
<1>11. PICK i \in Slot : recs[i].used /\ recs[i].map = m
  BY <1>4
<1>12. recs[i].addr = s
  BY <1>5, <1>10, <1>11 DEF ReplaysOf
<1>13. i = j
  BY <1>3, <1>9, <1>11, <1>12 DEF Registry, Records
<1> QED BY <1>1, <1>2, <1>3, <1>11, <1>13

\* Between calls no branch leads into the middle of a patch, whether it is in
\* the code, was redirected, or is replayed by the trampoline of another patch
\* (instr_plan.c 266-275).  It takes a scan that sees every branch to the places
\* patched, places that no branch joins, and branches within a place that lead
\* to its first word only, unless every guard is a data-flow guard.
THEOREM BranchesAvoid ==
  ASSUME Orderly, ScanCovers, OwnBranches
  PROVE  Spec /\ []TableHasRoom => []BranchesAvoidPatches
<1>1. ASSUME Init PROVE BranchInv
  <2>1. RegInv
    BY <1>1, RegInit
  <2>2. \A h \in Hooks : Replays(h)
    BY <1>1 DEF Init, Replays, Unmapped, NewMapping, Empty
  <2> QED BY <2>1, <2>2 DEF BranchInv, RegInv
<1>2. ASSUME BranchInv, TableHasRoom, [Next]_vars PROVE BranchInv'
  <2>1. RegInv' /\ RegInv
    BY <1>2, RegInvNext DEF BranchInv
  <2>2. Step /\ Writable
    BY <2>1 DEF Step, RegInv
  <2>3. PICK h \in Hooks : Registry(h) /\ Replays(h)
    BY <1>2 DEF BranchInv
  <2>4. Registry(h)'
    BY <1>2, <2>2, <2>3, RegNext
  <2>5. Replays(h)'
    BY <1>2, <2>2, <2>3, <2>4, ReplayNext
  <2> QED BY <2>1, <2>4, <2>5 DEF BranchInv
<1>3. ASSUME BranchInv PROVE BranchesAvoidPatches
  <2>1. PICK h \in Hooks : Registry(h) /\ Replays(h)
    BY <1>3 DEF BranchInv
  <2>2. IInv
    BY <1>3 DEF BranchInv, RegInv
  <2> QED BY <2>1, <2>2, CodeAvoids, ReplayAvoids DEF BranchesAvoidPatches
<1>4. Init => BranchInv
  BY <1>1
<1>5. BranchInv /\ TableHasRoom /\ [Next]_vars => BranchInv'
  BY <1>2
<1> QED BY <1>3, <1>4, <1>5, PTL DEF Spec

(***************************************************************************)
(* Snapshots and the entries that refresh them.                            *)
(***************************************************************************)
\* The snapshot s is refreshed by the entry of the function a lies in.
FedAt(s, a) ==
  \E j \in Slot : /\ recs[j].used /\ recs[j].addr \in Fn /\ recs[j].map = s
                  /\ recs[j].addr <= a /\ a + 4 <= FnEnd[recs[j].addr]

SnapOf(i) == maps[recs[i].map].guard.snap
RecordsFed == \A i \in Slot :
  recs[i].used /\ recs[i].addr \notin Fn /\ SnapOf(i) # NoMap => FedAt(SnapOf(i), recs[i].addr)

\* The first word of a patch is the patch's own.
Heads ==
  /\ \A i \in Slot : recs[i].used => recs[i].addr \in DOMAIN recs[i].orig
  /\ call.pc \in Ready => call.plan["guard"].addr \in DOMAIN call.plan["guard"].orig
  /\ call.pc \in InStage /\ call.stage = "entry" =>
       call.plan["entry"].addr \in DOMAIN call.plan["entry"].orig

Asking == Mapped \cup {"map"}
Reads == IF Fresh THEN call.map ELSE call.snap
CallFed ==
  /\ call.pc \in Asking => /\ call.req.fn <= call.req.start
                           /\ call.req.start + 4 <= FnEnd[call.req.fn]
                           /\ call.snap # NoMap => FedAt(call.snap, call.req.start)
  /\ EntryIn => FedAt(call.map, call.req.start)
  /\ call.pc \in Ready => maps[call.map].guard.snap = Reads
  /\ call.pc \in Removal /\ recs[call.rec].addr \in Fn => ~Feeds(call.rec)

FedInv == RecordsFed /\ Heads /\ CallFed

\* A step of a call that changes neither mappings nor registry.
LEMMA FedKeep ==
  ASSUME FedInv, UNCHANGED <<maps, recs>>,
         call'.pc \in Asking =>
           /\ call.pc \in Asking /\ call'.req = call.req /\ call'.snap = call.snap
           /\ call'.map = call.map /\ call'.plan = call.plan /\ call'.stage = call.stage
           /\ call'.pc \in Ready => call.pc \in Ready
           /\ call'.pc \in InStage => call.pc \in InStage
           /\ EntryIn' => EntryIn,
         call'.pc \in Removal => call.pc \in Removal /\ call'.rec = call.rec
  PROVE  FedInv'
<1>1. RecordsFed'
  BY DEF FedInv, RecordsFed, FedAt, SnapOf
<1>2. Ready \cup InStage \subseteq Asking /\ (EntryIn' => call'.pc \in Asking)
  BY DEF Ready, InStage, Asking, Planned, Pending, Mapped, EntryIn
<1>3. Heads'
  BY <1>2 DEF FedInv, Heads
<1>4. call'.pc \in Asking => (Fresh' <=> Fresh)
  BY DEF Fresh
<1>5. CallFed'
  BY <1>2, <1>4 DEF FedInv, CallFed, FedAt, Feeds, Reads
<1> QED BY <1>1, <1>3, <1>5 DEF FedInv

LEMMA FedBegin ==
  ASSUME FedInv, Step, NEW r \in Requests, GuardBlock(r) \/ GuardBlockSnap(r)
  PROVE  FedInv'
<1>1. r.fn \in Fn /\ r.fn \in Nat /\ r.start \in Nat /\ r.end \in Nat /\ FnEnd[r.fn] \in Nat
  BY EngineAssumption DEF Fn
<1>2. r.fn <= r.start /\ r.start + 4 <= FnEnd[r.fn]
  <2>1. Fits(r) /\ (r.fn <= r.start \/ r.fn + 4 <= r.start)
    BY DEF GuardBlock, GuardBlockSnap
  <2> QED BY <1>1, <2>1 DEF Fits, MinBlock
<1>3. PICK snap, chain :
        /\ Begin(r, snap, chain)
        /\ snap # NoMap => \E i \in SnapshotRecs(r.fn) : snap = recs[i].map
  <2>1. CASE GuardBlock(r)
    BY <2>1 DEF GuardBlock
  <2>2. CASE GuardBlockSnap(r)
    BY <2>2 DEF GuardBlockSnap, Least
  <2> QED BY <2>1, <2>2
<1>4. /\ call'.pc = "map" /\ call'.req = r /\ call'.snap = snap
      /\ UNCHANGED <<maps, recs>>
  BY <1>3 DEF Begin, Enter
<1>5. snap # NoMap => FedAt(snap, r.start)
  BY <1>1, <1>2, <1>3 DEF SnapshotRecs, FedAt
<1>6. RecordsFed' /\ Heads'
  BY <1>4 DEF FedInv, RecordsFed, FedAt, SnapOf, Heads, Ready, InStage, Planned, Pending
<1>7. CallFed'
  <2>1. FedAt(snap, r.start)' <=> FedAt(snap, r.start)
    BY <1>4 DEF FedAt
  <2> QED BY <1>2, <1>4, <1>5, <2>1 DEF CallFed, EntryIn, Ready, Planned, Removal, FedAt
<1> QED BY <1>6, <1>7 DEF FedInv

LEMMA FedMapTrampoline ==
  ASSUME FedInv, Step, NEW m \in MapId, MapTrampoline(m)
  PROVE  FedInv'
<1>1. /\ call.pc = "map" /\ maps[m].pages = 0 /\ call'.pc = "plan"
      /\ call'.req = call.req /\ call'.snap = call.snap /\ UNCHANGED recs
      /\ \A x : x # m => maps'[x] = maps[x]
  BY CallFields DEF MapTrampoline, Step, SnapInv
<1>2. \A i \in Slot : recs[i].used => recs[i].map # m
  BY <1>1 DEF Step, SnapInv, PagesCounted
<1>3. RecordsFed' /\ Heads'
  BY <1>1, <1>2 DEF FedInv, RecordsFed, FedAt, SnapOf, Heads, Ready, InStage, Planned, Pending
<1>4. CallFed'
  BY <1>1 DEF FedInv, CallFed, EntryIn, Ready, Planned, Removal, FedAt, Asking, Mapped
<1> QED BY <1>3, <1>4 DEF FedInv

LEMMA FedPlanGuard ==
  ASSUME FedInv, Step, PlanGuard
  PROVE  FedInv'
<1>1. /\ call.pc = "plan" /\ call.stage = "guard" /\ UNCHANGED recs /\ TypeInv
      /\ call.map \in MapId /\ call.req \in Requests /\ call.pc \in Asking
  BY DEF PlanGuard, Step, IInv, CallShape, Mapped, SnapInv, Asking
<1>2. \A i \in Slot : recs[i].used => recs[i].map # call.map
  BY <1>1 DEF Step, SnapInv, CallPages, Unregistered, EntryIn, Mapped
<1> DEFINE n    == GuardLen(call.map)
           plan == MakePlan(call.req.start, n, GuardFixups(call.req, n))
           d    == {plan.orig[a] : a \in Region(call.req.start, n)}
<1>3. plan.addr \in DOMAIN plan.orig
  <2>1. n \in 3..4 /\ call.req.start \in Nat
    BY <1>1, LensOK, EngineAssumption
  <2>2. plan.addr = call.req.start /\ DOMAIN plan.orig = Region(call.req.start, n)
    BY DEF MakePlan
  <2> HIDE DEF plan, n
  <2> QED BY <2>1, <2>2 DEF Region
<1>4. /\ call' = [call EXCEPT !.pc = IF Fresh THEN "plan_entry" ELSE "apply",
                              !.plan["guard"] = plan]
      /\ maps' = [maps EXCEPT ![call.map].guard = [disp |-> d, snap |-> Reads]]
  BY DEF PlanGuard, Reads
<1> HIDE DEF n, plan, d
<1>5. /\ call'.pc = (IF Fresh THEN "plan_entry" ELSE "apply")
      /\ call'.map = call.map /\ call'.req = call.req /\ call'.snap = call.snap
      /\ call'.stage = "guard" /\ call'.plan["guard"] = plan
  BY <1>1, <1>4, CallFields DEF Part
<1>6. Reads' = Reads /\ (Fresh' <=> Fresh)
  BY <1>5 DEF Reads, Fresh
<1> HIDE DEF Reads
<1>7. /\ maps'[call.map].guard.snap = Reads
      /\ \A m \in MapId : m # call.map => maps'[m] = maps[m]
  <2>1. maps[call.map] \in Mapping /\ DOMAIN maps = MapId
    BY <1>1, CallFields
  <2>2. maps'[call.map] = [maps[call.map] EXCEPT !.guard = [disp |-> d, snap |-> Reads]]
    BY <1>1, <1>4, <2>1
  <2> QED BY <1>4, <2>1, <2>2 DEF Mapping
<1>8. RecordsFed'
  <2>1. \A i \in Slot : recs[i].used => recs[i].map \in MapId
    BY DEF Step, SnapInv, PagesCounted
  <2> QED BY <1>1, <1>2, <1>7, <2>1 DEF FedInv, RecordsFed, FedAt, SnapOf
<1>9. Heads'
  BY <1>1, <1>3, <1>5 DEF FedInv, Heads
<1>10. CallFed'
  <2>1. ~EntryIn' /\ call'.pc \notin Removal
    BY <1>5, <1>6 DEF EntryIn, Removal
  <2>2. call'.map = call.map
    BY <1>5
  <2> QED BY <1>1, <1>5, <1>6, <1>7, <2>1 DEF FedInv, CallFed, FedAt
<1> QED BY <1>8, <1>9, <1>10 DEF FedInv

LEMMA FedPlanEntry ==
  ASSUME FedInv, Step, PlanEntry
  PROVE  FedInv'
<1>1. /\ call.pc = "plan_entry" /\ UNCHANGED recs /\ TypeInv /\ Fresh
      /\ call.map \in MapId /\ call.req \in Requests /\ call.pc \in Asking /\ call.pc \in Ready
  BY DEF PlanEntry, Step, IInv, CallShape, Mapped, SnapInv, Asking, Ready
<1> DEFINE n    == EntryLen(call.chain, call.map)
           plan == MakePlan(call.req.fn, n, EntryFixups(call.req, n))
<1>2. plan.addr \in DOMAIN plan.orig
  <2>1. n > 0 /\ n \in 0..4 /\ call.req.fn \in Nat
    <3>1. n > 0 /\ call.chain \in {0, 1, 3, 4}
      BY <1>1, CallFields DEF PlanEntry
    <3> QED BY <1>1, <3>1, LensOK, EngineAssumption
  <2>2. plan.addr = call.req.fn /\ DOMAIN plan.orig = Region(call.req.fn, n)
    BY DEF MakePlan
  <2> HIDE DEF plan, n
  <2> QED BY <2>1, <2>2 DEF Region
<1>3. /\ call' = [call EXCEPT !.pc = "apply", !.stage = "entry", !.plan["entry"] = plan]
      /\ \E d : maps' = [maps EXCEPT ![call.map].entry.disp = d]
  BY DEF PlanEntry
<1> HIDE DEF n, plan
<1>4. /\ call'.pc = "apply" /\ call'.map = call.map /\ call'.req = call.req
      /\ call'.snap = call.snap /\ call'.stage = "entry"
      /\ call'.plan["entry"] = plan /\ call'.plan["guard"] = call.plan["guard"]
  BY <1>1, <1>3, CallFields DEF Part
<1>5. \A m \in MapId : maps'[m].guard = maps[m].guard
  <2>1. maps[call.map] \in Mapping /\ maps \in [MapId -> Mapping]
    BY <1>1, CallFields
  <2> QED BY <1>1, <1>3, <2>1 DEF Mapping
<1>6. RecordsFed'
  <2>1. \A i \in Slot : recs[i].used => recs[i].map \in MapId
    BY DEF Step, SnapInv, PagesCounted
  <2> QED BY <1>1, <1>5, <2>1 DEF FedInv, RecordsFed, FedAt, SnapOf
<1>7. Heads'
  BY <1>1, <1>2, <1>4 DEF FedInv, Heads
<1>8. CallFed'
  <2>1. ~EntryIn' /\ call'.pc \notin Removal /\ (Fresh' <=> Fresh)
    BY <1>4 DEF EntryIn, Removal, Fresh
  <2> QED BY <1>1, <1>4, <1>5, <2>1 DEF FedInv, CallFed, FedAt, Reads
<1> QED BY <1>6, <1>7, <1>8 DEF FedInv

LEMMA FedRegister ==
  ASSUME FedInv, NEW h \in Hooks, Registry(h), Step, Register
  PROVE  FedInv'
<1>1. /\ call.pc = "fix" /\ call.pc \in InStage /\ call.pc \in Planned /\ call.pc \in Ready
      /\ call.pc \in Asking /\ TypeInv /\ UNCHANGED maps /\ call.req \in Requests
  BY DEF Register, InStage, Pending, Planned, Ready, Asking, Step, SnapInv, IInv, CallShape, Mapped
<1>2. /\ call.stage \in {"guard", "entry"}
      /\ Current.addr = IF call.stage = "entry" THEN call.req.fn ELSE call.req.start
      /\ Current = call.plan[call.stage] /\ (call.stage = "entry" => Fresh)
  BY <1>1, CurrentPlan DEF Part
<1>3. call.req.fn \in Fn /\ call.req.start \notin Fn
  <2>1. call.req.fn \in Fn /\ call.req.start \in Nat
    BY <1>1, EngineAssumption DEF Fn
  <2>2. \A fn \in Fn : fn \in Nat
    BY EngineAssumption DEF Fn
  <2> QED BY <1>1, <2>1, <2>2, SiteWords DEF Step, Orderly, Discipline, SitesApart
<1> DEFINE r == [used |-> TRUE, addr |-> Current.addr, orig |-> Current.orig,
                 fixes |-> Current.fixes, map |-> call.map,
                 refs |-> IF Fresh THEN 2 ELSE 1]
<1>4. PICK i \in Slot : ~recs[i].used /\ recs' = [recs EXCEPT ![i] = r]
  BY DEF Register, Least
<1>5. r.used /\ r.addr = Current.addr /\ r.map = call.map /\ r.orig = Current.orig
  OBVIOUS
<1> HIDE DEF r
<1>6. recs'[i] = r /\ \A j \in Slot : j # i => recs'[j] = recs[j]
  BY <1>1, <1>4, CallFields
<1>7. \A s, a : FedAt(s, a) => FedAt(s, a)'
  BY <1>4, <1>6 DEF FedAt
<1>8. /\ \/ call.stage = "entry" /\ call'.pc = "apply" /\ call'.stage = "guard"
         \/ call.stage = "guard" /\ call'.pc = "idle"
      /\ call'.pc = "apply" => /\ call'.req = call.req /\ call'.snap = call.snap
                               /\ call'.plan = call.plan /\ call'.map = call.map
  <2>1. CASE call.stage = "entry"
    <3>1. call' = [call EXCEPT !.pc = "apply", !.stage = "guard"]
      BY <2>1 DEF Register
    <3> QED BY <1>1, <2>1, <3>1, CallFields
  <2>2. CASE call.stage = "guard"
    BY <2>2, ReturnIdle DEF Register
  <2> QED BY <1>2, <2>1, <2>2
<1>9. r.addr \notin Fn /\ maps[r.map].guard.snap # NoMap => FedAt(maps[r.map].guard.snap, r.addr)
  <2>1. CASE call.stage = "entry"
    BY <1>2, <1>3, <1>5, <2>1
  <2>2. CASE call.stage = "guard"
    <3>1. maps[r.map].guard.snap = Reads /\ r.addr = call.req.start
      BY <1>1, <1>2, <1>5, <2>2 DEF FedInv, CallFed
    <3>2. Fresh => FedAt(call.map, call.req.start)
      BY <1>1, <2>2 DEF FedInv, CallFed, EntryIn
    <3>3. call.snap # NoMap => FedAt(call.snap, call.req.start)
      BY <1>1 DEF FedInv, CallFed
    <3> QED BY <3>1, <3>2, <3>3 DEF Reads
  <2> QED BY <1>2, <2>1, <2>2
<1>10. RecordsFed'
  <2> SUFFICES ASSUME NEW j \in Slot, recs'[j].used, recs'[j].addr \notin Fn, NEW s, NEW a,
                      s = maps[recs'[j].map].guard.snap, a = recs'[j].addr, s # NoMap
               PROVE  FedAt(s, a)'
    BY <1>1 DEF RecordsFed, SnapOf, FedAt
  <2>2. FedAt(s, a)
    <3>1. CASE j = i
      BY <1>6, <1>9, <3>1
    <3>2. CASE j # i
      BY <1>6, <3>2 DEF FedInv, RecordsFed, SnapOf
    <3> QED BY <3>1, <3>2
  <2> QED BY <1>7, <2>2
<1>11. Heads'
  <2>1. r.addr \in DOMAIN r.orig
    BY <1>1, <1>2, <1>5 DEF FedInv, Heads
  <2>2. \A j \in Slot : recs'[j].used => recs'[j].addr \in DOMAIN recs'[j].orig
    BY <1>6, <2>1 DEF FedInv, Heads
  <2> QED BY <1>1, <1>8, <2>2 DEF FedInv, Heads, Ready, Planned, InStage, Pending
<1>12. CallFed'
  <2>1. CASE call'.pc = "idle"
    BY <2>1 DEF CallFed, Asking, Mapped, EntryIn, Ready, Planned, Removal
  <2>2. CASE call.stage = "entry" /\ call'.pc = "apply"
    <3>1. Fresh /\ call.snap = NoMap
      BY <1>2, <2>2 DEF Fresh
    <3>2. FedAt(call.map, call.req.start)'
      <4>1. /\ call.req.fn <= call.req.start
            /\ call.req.start + 4 <= FnEnd[call.req.fn]
        BY <1>1 DEF FedInv, CallFed
      <4>2. /\ recs'[i].used /\ recs'[i].addr = call.req.fn /\ recs'[i].map = call.map
        BY <1>2, <1>5, <1>6, <2>2
      <4>3. PICK m, a : m = call.map /\ a = call.req.start
        OBVIOUS
      <4>4. FedAt(m, a)'
        BY <1>3, <4>1, <4>2, <4>3 DEF FedAt
      <4> QED BY <1>8, <2>2, <4>3, <4>4 DEF FedAt
    <3>3. maps[call.map].guard.snap = call.map
      BY <1>1, <3>1 DEF FedInv, CallFed, Reads
    <3>4. Reads' = call.map
      BY <1>8, <2>2, <3>1 DEF Reads, Fresh
    <3>5. /\ call.req.fn <= call.req.start /\ call.req.start + 4 <= FnEnd[call.req.fn]
          /\ call'.req = call.req /\ call'.snap = NoMap /\ call'.map = call.map
      BY <1>1, <1>8, <2>2, <3>1 DEF FedInv, CallFed
    <3> QED BY <1>1, <2>2, <3>2, <3>3, <3>4, <3>5 DEF CallFed, Removal
  <2> QED BY <1>8, <2>1, <2>2
<1> QED BY <1>10, <1>11, <1>12 DEF FedInv

LEMMA FedUnpatch ==
  ASSUME FedInv, Step, ~EntryFirst, NEW i \in Slot, Unpatch(i)
  PROVE  FedInv'
<1>1. /\ call'.pc = "unfix" /\ call'.rec = i /\ UNCHANGED <<maps, recs>>
      /\ recs[i].addr \in Fn => ~Feeds(i)
  BY DEF Unpatch, Enter
<1>2. RecordsFed' /\ Heads'
  BY <1>1 DEF FedInv, RecordsFed, FedAt, SnapOf, Heads, Ready, InStage, Planned, Pending
<1>3. Feeds(call.rec)' => Feeds(i)
  BY <1>1 DEF Feeds
<1>4. CallFed'
  BY <1>1, <1>3 DEF CallFed, Asking, Mapped, EntryIn, Ready, Planned
<1> QED BY <1>2, <1>4 DEF FedInv

LEMMA FedRelease ==
  ASSUME FedInv, Step, Release
  PROVE  FedInv'
<1> DEFINE k == call.rec
           m == recs[k].map
<1>1. /\ k \in Slot /\ recs[k].used /\ call.pc = "release" /\ call'.pc = "idle"
  BY ReturnIdle DEF Release, Step, IInv, CallShape
<1>2. ~recs'[k].used /\ \A i \in Slot : i # k => recs'[i] = recs[i]
  BY <1>1, CallFields DEF Release, Step, SnapInv, Blank
<1>3. m \in MapId /\ recs[k].refs \in {1, 2} /\ maps[m].pages = recs[k].refs
  BY <1>1 DEF Step, SnapInv, PagesCounted
<1>4. ASSUME NEW i \in Slot, recs'[i].used
      PROVE  i # k /\ recs[i].used /\ recs'[i] = recs[i] /\ maps'[recs[i].map] = maps[recs[i].map]
  <2>1. i # k /\ recs[i].used /\ recs'[i] = recs[i]
    BY <1>2, <1>4
  <2>2. CASE recs[k].refs = 1
    <3>1. recs[i].map # m
      BY <1>1, <1>3, <2>1, <2>2 DEF Step, SnapInv, PagesCounted
    <3>2. maps' = [maps EXCEPT ![m] = Unmapped]
      BY <2>2 DEF Release, DropRef, Munmap
    <3> QED BY <2>1, <3>1, <3>2, CallFields DEF Step, SnapInv
  <2>3. CASE recs[k].refs = 2
    BY <2>1, <2>3 DEF Release, DropRef
  <2> QED BY <1>3, <2>2, <2>3
<1>5. RecordsFed'
  <2> SUFFICES ASSUME NEW i \in Slot, recs'[i].used, recs'[i].addr \notin Fn, SnapOf(i)' # NoMap
               PROVE  FedAt(SnapOf(i), recs[i].addr)'
    BY <1>4 DEF RecordsFed
  <2>1. /\ i # k /\ recs[i].used /\ recs[i].addr \notin Fn /\ SnapOf(i)' = SnapOf(i)
        /\ recs'[i] = recs[i]
    BY <1>4 DEF SnapOf
  <2>2. PICK j \in Slot : /\ recs[j].used /\ recs[j].addr \in Fn /\ recs[j].map = SnapOf(i)
                          /\ recs[j].addr <= recs[i].addr
                          /\ recs[i].addr + 4 <= FnEnd[recs[j].addr]
    BY <2>1 DEF FedInv, RecordsFed, FedAt
  <2>3. j # k
    BY <1>1, <2>1, <2>2 DEF FedInv, CallFed, Removal, Feeds, SnapOf
  <2>4. recs'[j] = recs[j]
    BY <1>2, <2>3
  <2> QED BY <2>1, <2>2, <2>4 DEF FedAt
<1>6. Heads'
  BY <1>1, <1>4 DEF FedInv, Heads, Ready, InStage, Planned, Pending
<1>7. CallFed'
  BY <1>1 DEF CallFed, Asking, Mapped, EntryIn, Ready, Planned, Removal
<1> QED BY <1>5, <1>6, <1>7 DEF FedInv

LEMMA FedNext ==
  ASSUME FedInv, NEW h \in Hooks, Registry(h), Step, Writable, ~EntryFirst, TableHasRoom,
         [Next]_vars
  PROVE  FedInv'
<1>1. TypeInv /\ SnapInv /\ IInv /\ WritesRepeat
  BY DEF Step, SnapInv, Orderly
<1>2. CASE MapFails \/ PlanFails \/ Unmap
  <2>1. /\ call'.pc = "idle" /\ UNCHANGED recs
        /\ maps' = maps \/ (Munmap(call.map) /\ Unregistered)
    BY <1>2, ReturnIdle DEF MapFails, PlanFails, Unmap, Unregistered, EntryIn, Mapped
  <2>2. \A i \in Slot : recs[i].used => maps'[recs[i].map] = maps[recs[i].map]
    BY <1>1, <2>1, CallFields DEF SnapInv, CallPages, PagesCounted, Munmap
  <2>3. RecordsFed' /\ Heads'
    BY <2>1, <2>2 DEF FedInv, RecordsFed, FedAt, SnapOf, Heads, Ready, InStage, Planned, Pending
  <2>4. CallFed'
    BY <2>1 DEF CallFed, Asking, Mapped, EntryIn, Ready, Planned, Removal
  <2> QED BY <2>3, <2>4 DEF FedInv
<1>3. CASE Reject \/ (\E p \in Resets : ResetPage(p)) \/ UNCHANGED vars
  <2>1. UNCHANGED <<maps, recs, call>>
    BY <1>3 DEF Reject, ResetPage, vars
  <2>2. EntryIn' => EntryIn
    BY <2>1 DEF EntryIn, Fresh
  <2> QED BY <2>1, <2>2, FedKeep
<1>4. CASE Apply \/ ApplyRefused \/ Fix \/ FixRefused \/ Undo
  <2>1. /\ call'.req = call.req /\ call'.snap = call.snap /\ call'.map = call.map
        /\ call'.plan = call.plan /\ call'.stage = call.stage
        /\ UNCHANGED <<maps, recs>>
    BY <1>1, <1>4, CallFields DEF Apply, ApplyRefused, Fix, FixRefused, Undo
  <2>2. /\ call.pc \in {"apply", "fix", "undo"} /\ call'.pc \in {"fix", "undo", "undo_entry", "unmap"}
        /\ call'.pc = "fix" => call.pc \in {"apply", "fix"}
    BY <1>1, <1>4, CallFields DEF Apply, ApplyRefused, Fix, FixRefused, Undo, AfterUndo
  <2>3. EntryIn' => EntryIn
    BY <2>1, <2>2 DEF EntryIn, Fresh
  <2> QED BY <2>1, <2>2, <2>3, FedKeep
          DEF Asking, Mapped, Ready, Planned, InStage, Pending, Removal
<1>5. CASE Unfix \/ Restore
  <2>1. /\ call.pc \in Removal /\ call'.pc \in Removal /\ call'.rec = call.rec
        /\ UNCHANGED <<maps, recs>>
    BY <1>1, <1>5, CallFields DEF Unfix, Restore, Removal
  <2> QED BY <2>1, FedKeep DEF Asking, Mapped, Removal
<1>6. ~RegisterFails /\ ~UndoEntry /\ ~UndoUnplannedEntry /\ ~UnpatchRefused
  <2>1. ~UnpatchRefused
    BY <1>1, RemovalGoesThrough
  <2> QED BY <1>1, <2>1 DEF RegisterFails, TableHasRoom, UndoEntry, UndoUnplannedEntry, SnapInv, CallPages
<1> QED
  BY <1>2, <1>3, <1>4, <1>5, <1>6, FedBegin, FedMapTrampoline, FedPlanGuard, FedPlanEntry,
     FedRegister, FedUnpatch, FedRelease DEF Next, Install, Uninstall

\* Between calls each guard that reads a snapshot lies in a function whose entry
\* carries the patch that takes that snapshot (instr.c 588-608): the entry is
\* patched before the guard, is found again by the next guard of the function,
\* and outlives its guards as long as clients remove them first.
THEOREM SnapshotsFed ==
  ASSUME Orderly, ~EntryFirst
  PROVE  Spec /\ []TableHasRoom => []SnapshotFed
<1>1. Init => RegInv /\ FedInv
  <2> SUFFICES ASSUME Init PROVE FedInv
    BY RegInit
  <2>1. /\ call.pc = "idle" /\ \A i \in Slot : ~recs[i].used
    BY DEF Init, Idle, Enter, Blank
  <2> QED BY <2>1 DEF FedInv, RecordsFed, Heads, CallFed, Asking, Mapped, EntryIn, Ready,
          Planned, InStage, Pending, Removal
<1>2. ASSUME RegInv, FedInv, TableHasRoom, [Next]_vars
      PROVE  RegInv' /\ FedInv'
  <2>1. RegInv'
    BY <1>2, RegInvNext
  <2>2. Step /\ Writable
    BY <1>2, <2>1 DEF Step, RegInv
  <2>3. PICK h \in Hooks : Registry(h)
    BY <1>2 DEF RegInv
  <2> QED BY <1>2, <2>1, <2>2, <2>3, FedNext
<1>3. ASSUME RegInv, FedInv PROVE SnapshotFed
  <2> DEFINE snap(a) == maps[mem[a].map].guard.snap
  <2> SUFFICES ASSUME call.pc = "idle", NEW a \in Addr, mem[a].kind = "patch",
                      mem[a].part = "guard", snap(a) # NoMap
               PROVE  \E fn \in Fn : /\ fn <= a /\ a < FnEnd[fn] /\ mem[fn].kind = "patch"
                                     /\ mem[fn].part = "entry" /\ mem[fn].map = snap(a)
    BY DEF SnapshotFed
  <2>1. PICK h \in Hooks : Registry(h)
    BY <1>3 DEF RegInv
  <2>2. \A b \in Addr : PatchAt(b) => WellPlaced(b) /\ Recorded(b)
    BY <1>3 DEF RegInv, IInv, Owned, InCall, Pending
  <2>3. \A r \in Requests : r.start \notin Fn /\ r.start \in Nat
    <3>1. \A r \in Requests : r.start \in Nat
      BY EngineAssumption
    <3> QED BY <3>1, SiteWords DEF Orderly, Discipline, SitesApart
  <2>4. PICK i \in Slot : /\ recs[i].used /\ recs[i].addr = mem[a].at /\ recs[i].map = mem[a].map
    BY <2>2 DEF PatchAt, Recorded
  <2>5. /\ recs[i].addr \notin Fn /\ recs[i].addr \in Nat /\ a \in Region(recs[i].addr, 4)
    BY <2>2, <2>3, <2>4 DEF PatchAt, WellPlaced
  <2>6. PICK j \in Slot : /\ recs[j].used /\ recs[j].addr \in Fn /\ recs[j].map = snap(a)
                          /\ recs[j].addr <= recs[i].addr
                          /\ recs[i].addr + 4 <= FnEnd[recs[j].addr]
    BY <1>3, <2>4, <2>5 DEF FedInv, RecordsFed, FedAt, SnapOf
  <2>7. PICK fn \in Fn : fn = recs[j].addr
    BY <2>6
  <2>8. fn \in Addr /\ fn \in Nat /\ FnEnd[fn] \in Nat
    BY EngineAssumption DEF Fn
  <2>9. mem[fn].kind = "patch" /\ mem[fn].at = fn /\ mem[fn].map = snap(a)
    BY <1>3, <2>1, <2>6, <2>7, IdleLayers DEF FedInv, Heads
  <2>10. mem[fn].part = "entry"
    <3>1. mem[fn].part \in Part
      BY <1>3, <2>8 DEF RegInv, IInv, TypeOK, Word
    <3> QED BY <2>2, <2>3, <2>8, <2>9, <3>1 DEF PatchAt, WellPlaced, Part
  <2>11. fn <= a /\ a < FnEnd[fn]
    BY <2>5, <2>6, <2>7, <2>8 DEF Region
  <2> QED BY <2>9, <2>10, <2>11
<1>4. RegInv /\ FedInv /\ TableHasRoom /\ [Next]_vars => RegInv' /\ FedInv'
  BY <1>2
<1> QED BY <1>1, <1>3, <1>4, PTL DEF Spec
=============================================================================
