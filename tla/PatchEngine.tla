---------------------------- MODULE PatchEngine ----------------------------
(***************************************************************************)
(* The patch engine of arm64-guard (src/instr.c): guarding a code block,   *)
(* guarding it with an entry snapshot, and removing a guard.  One action   *)
(* per step of a call after which the engine may fail or another thread    *)
(* may run the code being patched; the locals of the call in progress are  *)
(* the record "call".  The unit of memory is the 4-byte instruction word.  *)
(* What a word or a trampoline says is reduced to where it leads: which    *)
(* mapping a patch jumps to, which instructions a trampoline replays.      *)
(***************************************************************************)
EXTENDS Integers, FiniteSets

CONSTANTS
  Addr,      \* word addresses of the module's code
  PageOf,    \* [Addr -> page]: the page a word lies on
  Target,    \* [Addr -> Addr or NoAddr]: where the original word branches to
  NoAddr,    \* "no branch target"
  FnEnd,     \* [function entry -> first address after the function]
  ScanSpan,  \* how far past block_end the branch scan looks (64 KB)
  Hooks,     \* set of [entry -> 0..4]: foreign hooks found at start, in words
  Image,     \* TRUE if the module's file on disk could be opened
  Requests,  \* the calls a client makes: [mode, fn, start, end]
  Reguard,   \* TRUE if clients may guard a block that is already guarded
  EntryFirst,\* TRUE if clients may remove an entry patch before its guards
  MapId,     \* addresses mmap may return
  NoMap,     \* "no mapping"
  Reach,     \* [MapId -> "near" (+-128MB), "adrp" (+-4GB) or "far"]
  MaxRecs,   \* MAX_RECS
  MaxFix,    \* INSTR_FIX_MAX
  Faulty,    \* pages whose protection the system may refuse to change
  Resets     \* pages other code may make read-only again between calls

VARIABLES
  mem,       \* the code: [Addr -> Word]
  rwx,       \* pages already made writable
  maps,      \* the trampoline mappings
  recs,      \* g_recs
  call,      \* locals of the call in progress
  ret,       \* result of the last call
  before     \* history: code, mappings, registry when the call in progress began

\* What the code relies on: the module is code of aligned words, functions are
\* at least four words long, and a request names a function of the module.
ASSUME EngineAssumption ==
  /\ Addr \subseteq Nat /\ NoAddr \notin Addr
  /\ Target \in [Addr -> Addr \cup {NoAddr}]
  /\ FnEnd \in [DOMAIN FnEnd -> Nat]
  /\ DOMAIN FnEnd \subseteq Addr
  /\ \A fn \in DOMAIN FnEnd : fn..(fn + 3) \subseteq Addr
  /\ ScanSpan \in Nat /\ MaxRecs \in Nat /\ MaxFix \in Nat
  /\ \A h \in Hooks : h \in [DOMAIN FnEnd -> 0..4]
  /\ \A r \in Requests : /\ r.mode \in {"block", "snap"} /\ r.fn \in DOMAIN FnEnd
                         /\ r.start \in Nat /\ r.end \in Nat
  /\ NoMap \notin MapId
  /\ Reach \in [MapId -> {"near", "adrp", "far"}]

vars == <<mem, rwx, maps, recs, call, ret, before>>

Fn == DOMAIN FnEnd
Page == {PageOf[a] : a \in Addr}
Slot == 1..MaxRecs
Region(a, n) == a..(a + n - 1)

(***************************************************************************)
(* Words.  "orig": the instruction the linker put at "at"; "branch": a     *)
(* branch whose target the engine rewrote to "at"; "patch": one word of a  *)
(* len-word jump at "at" into a trampoline; "hook": one word of a foreign  *)
(* hook.                                                                   *)
(***************************************************************************)
Part == {"guard", "entry"}
Word == [kind : {"orig", "branch", "patch", "hook"}, at : Addr,
         map : MapId \cup {NoMap}, part : Part, len : 0..4]

Plain(k, a, n) == [kind |-> k, at |-> a, map |-> NoMap, part |-> "guard", len |-> n]
Orig(a) == Plain("orig", a, 0)
Branch(t) == Plain("branch", t, 0)
Hook(fn, n) == Plain("hook", fn, n)
Patch(a, n, m, p) ==
  [kind |-> "patch", at |-> a, map |-> m, part |-> p, len |-> n]

Pristine == [a \in Addr |-> Orig(a)]
HookedCode(h) ==
  [a \in Addr |-> IF \E fn \in Fn : a \in Region(fn, h[fn])
                  THEN LET fn == CHOOSE f \in Fn : a \in Region(f, h[f])
                       IN  Hook(fn, h[fn])
                  ELSE Orig(a)]

Nothing == [a \in {} |-> Orig(a)]
Put(code, p) == [a \in Addr |-> IF a \in DOMAIN p THEN p[a] ELSE code[a]]

(***************************************************************************)
(* A trampoline is known by the words it replays ("disp") and, for a       *)
(* guard, by the mapping that holds the snapshot it reads.  Page 1 of a    *)
(* mapping is the guard trampoline, page 2 the entry trampoline and the    *)
(* snapshot.                                                               *)
(***************************************************************************)
Trampoline == [disp : SUBSET Word, snap : MapId \cup {NoMap}]
Mapping == [pages : 0..2, guard : Trampoline, entry : Trampoline]
Empty == [disp |-> {}, snap |-> NoMap]
NewMapping(n) == [pages |-> n, guard |-> Empty, entry |-> Empty]
Unmapped == NewMapping(0)

\* rec_t: what was overwritten ("orig"), the redirected branches ("fixes").
Blank == [used |-> FALSE, addr |-> NoAddr, orig |-> Nothing, fixes |-> Nothing,
          map |-> NoMap, refs |-> 0]

NoPlan == [addr |-> NoAddr, len |-> 0, orig |-> Nothing, fixes |-> Nothing]

Pc == {"idle", "map", "plan", "plan_entry", "apply", "fix", "undo",
       "undo_entry", "unmap", "unfix", "restore", "release", "crashed"}
NoReq == [mode |-> "none", fn |-> NoAddr, start |-> NoAddr, end |-> NoAddr]
Enter(pc, req, snap, chain, rec, left) ==
  [pc |-> pc, req |-> req, snap |-> snap, chain |-> chain, map |-> NoMap,
   stage |-> "guard", plan |-> [s \in Part |-> NoPlan], left |-> left, rec |-> rec]
Idle == Enter("idle", NoReq, NoMap, 0, 0, {})

NoHistory == [mem |-> Pristine, maps |-> [m \in MapId |-> Unmapped],
              recs |-> [i \in Slot |-> Blank]]

(***************************************************************************)
(* Planning (instr_plan.c), as far as it decides what is written where.    *)
(***************************************************************************)
BranchTo(w) == IF w.kind = "orig" THEN Target[w.at]
               ELSE IF w.kind = "branch" THEN w.at ELSE NoAddr

\* collect_external_fixups: the branches of the live code from fn up to
\* "last", outside the n words at a, that lead into these n words.
Fixups(fn, a, n, last) ==
  {pc \in Addr : /\ fn <= pc /\ pc < last
                 /\ pc \notin Region(a, n)
                 /\ BranchTo(mem[pc]) \in Region(a, n)}

Later(x, y) == IF x > y THEN x ELSE y
\* Mutant: the scan for a guard's patch ends with the block.
MutScanBlock(r, n) == Fixups(r.fn, r.start, n, r.end)
GuardFixups(r, n) ==
  Fixups(r.fn, r.start, n, Later(FnEnd[r.fn], r.end + ScanSpan))
EntryFixups(r, n) == Fixups(r.fn, r.fn, n, r.end + ScanSpan)

\* Form A (adrp/add/br, 3 words) when the trampoline is within 4 GB, else
\* form B (ldr/br/.quad, 4 words).  Mutant: form B with its literal padded.
MutLenPadded(m) == IF Reach[m] = "far" THEN 5 ELSE 3
GuardLen(m) == IF Reach[m] = "far" THEN 4 ELSE 3

\* A patch chained onto a hook of n words must not be longer than the hook;
\* 0: no form fits.  Mutant: the length of the hook is ignored.
MutHookIgnored(n, m) == GuardLen(m)
EntryLen(n, m) == CASE n \in {0, 4} -> 4
                    [] n = 3 -> IF Reach[m] # "far" THEN 3 ELSE 0
                    [] n = 1 -> IF Reach[m] = "near" THEN 1 ELSE 0

\* Where instructions are read from: the file for a snapshot guard when it
\* could be opened, the live code otherwise.
Source == IF Image /\ call.req.mode = "snap" THEN Pristine ELSE mem

MakePlan(a, n, fixes) ==
  [addr |-> a, len |-> n, orig |-> [x \in Region(a, n) |-> Source[x]],
   fixes |-> [x \in fixes |-> mem[x]]]

(***************************************************************************)
(* apply_bytes: mprotect the pages of the words, then write them.          *)
(***************************************************************************)
PagesOf(S) == {PageOf[a] : a \in S}
ApplyBytes(p) == /\ mem' = Put(mem, p)
                 /\ rwx' = rwx \cup PagesOf(DOMAIN p)
Refused(S) == PagesOf(S) \cap (Faulty \ rwx) # {}

Least(x, S) == x \in S /\ \A y \in S : x <= y

Return(result) == /\ call' = Idle
                  /\ ret' = result
                  /\ before' = NoHistory

(***************************************************************************)
(* Entry of a call: argument checks, and in snapshot mode the search for   *)
(* an installed snapshot of fn (lines 592-599), then the occupancy test.   *)
(***************************************************************************)
\* parse_prev_hook: length of the jump it recognises at fn (0: none).
HookLen(fn) ==
  LET w == mem[fn] IN
  IF /\ w.kind \in {"patch", "hook"} /\ w.at = fn /\ w.len \in {1, 3, 4}
     /\ \A a \in Region(fn, w.len) : mem[a] = w
  THEN w.len ELSE 0

\* entry_busy: byte comparison with the file, or the shape of a hook.
EntryBusy(fn) == IF Image THEN \E a \in Region(fn, 4) : mem[a] # Orig(a)
                 ELSE HookLen(fn) # 0

\* Mutant: the snapshot of whatever function.
MutSnapshotOfAny(fn) == {i \in Slot : recs[i].used /\ recs[i].refs >= 2}
SnapshotRecs(fn) == {i \in Slot : recs[i].used /\ recs[i].addr = fn /\ recs[i].refs >= 2}

\* The trial plan with the base unknown is made for form B: 4 words.
MinBlock == 4
Fits(r) == /\ r.end - r.start >= MinBlock
           /\ r.end <= FnEnd[r.fn]
           /\ Region(r.start, 4) \subseteq Addr
           /\ Cardinality(GuardFixups(r, 4)) <= MaxFix

Allowed(r) == Reguard \/ ~\E i \in Slot : recs[i].used /\ recs[i].addr = r.start

Begin(r, snap, chain) ==
  /\ call' = Enter("map", r, snap, chain, 0, {})
  /\ before' = [mem |-> mem, maps |-> maps, recs |-> recs]
  /\ UNCHANGED <<mem, rwx, maps, recs, ret>>

GuardBlock(r) ==
  /\ call.pc = "idle" /\ r.mode = "block" /\ Allowed(r)
  /\ r.fn <= r.start
  /\ Fits(r)
  /\ Begin(r, NoMap, 0)

GuardBlockSnap(r) ==
  /\ call.pc = "idle" /\ r.mode = "snap" /\ Allowed(r)
  /\ r.fn + 4 <= r.start
  /\ Fits(r)
  /\ IF SnapshotRecs(r.fn) # {}
     THEN \E i \in Slot : Least(i, SnapshotRecs(r.fn)) /\ Begin(r, recs[i].map, 0)
     ELSE /\ Cardinality(EntryFixups(r, 4)) <= MaxFix
          /\ EntryBusy(r.fn) => HookLen(r.fn) # 0
          /\ Begin(r, NoMap, IF EntryBusy(r.fn) THEN HookLen(r.fn) ELSE 0)

\* Every early return before the mmap: bad range, unresolvable arguments, an
\* instruction that cannot be moved, an unknown hook, an address that is not
\* patched.
Reject ==
  /\ call.pc = "idle"
  /\ ret' = "error"
  /\ UNCHANGED <<mem, rwx, maps, recs, call, before>>

(***************************************************************************)
(* apply_plan.                                                             *)
(***************************************************************************)
\* Mutant: an installed snapshot is made again for each guard.
MutFreshAgain == call.req.mode = "snap"
Fresh == call.req.mode = "snap" /\ call.snap = NoMap
Current == call.plan[call.stage]

MapTrampoline(m) ==
  /\ call.pc = "map"
  /\ maps[m].pages = 0
  /\ maps' = [maps EXCEPT ![m] = NewMapping(IF Fresh THEN 2 ELSE 1)]
  /\ call' = [call EXCEPT !.pc = "plan", !.map = m]
  /\ UNCHANGED <<mem, rwx, recs, ret, before>>

MapFails ==
  /\ call.pc = "map"
  /\ Return("error")
  /\ UNCHANGED <<mem, rwx, maps, recs>>

\* The second plan, with the real base, and the copy into the mapping.
PlanGuard ==
  /\ call.pc = "plan"
  /\ LET site  == call.req.start
         n     == GuardLen(call.map)
         fixes == GuardFixups(call.req, n)
         plan  == MakePlan(site, n, fixes)
     IN  /\ Cardinality(fixes) <= MaxFix
         /\ maps' = [maps EXCEPT ![call.map].guard =
                       [disp |-> {plan.orig[a] : a \in Region(site, n)},
                        snap |-> IF Fresh THEN call.map ELSE call.snap]]
         /\ call' = [call EXCEPT !.pc = IF Fresh THEN "plan_entry" ELSE "apply",
                                 !.plan["guard"] = plan]
  /\ UNCHANGED <<mem, rwx, recs, ret, before>>

\* The entry trampoline replays the entry, or jumps into the hook found there.
PlanEntry ==
  /\ call.pc = "plan_entry"
  /\ LET fn    == call.req.fn
         n     == EntryLen(call.chain, call.map)
         fixes == EntryFixups(call.req, n)
     IN  /\ n > 0
         /\ Cardinality(fixes) <= MaxFix
         /\ maps' = [maps EXCEPT ![call.map].entry.disp =
                       IF call.chain = 0 THEN {Source[a] : a \in Region(fn, 4)}
                                         ELSE {mem[fn]}]
         /\ call' = [call EXCEPT !.pc = "apply", !.stage = "entry",
                                 !.plan["entry"] = MakePlan(fn, n, fixes)]
  /\ UNCHANGED <<mem, rwx, recs, ret, before>>

Munmap(m) == maps' = [maps EXCEPT ![m] = Unmapped]

PlanFails ==
  /\ call.pc \in {"plan", "plan_entry"}
  /\ Munmap(call.map)
  /\ Return("error")
  /\ UNCHANGED <<mem, rwx, recs>>

\* The jump into the trampoline.
Apply ==
  /\ call.pc = "apply"
  /\ LET p == Current IN
     /\ ApplyBytes([a \in DOMAIN p.orig |-> Patch(p.addr, p.len, call.map, call.stage)])
     /\ call' = [call EXCEPT !.pc = "fix", !.left = DOMAIN p.fixes]
  /\ UNCHANGED <<maps, recs, ret, before>>

\* Once the guard stage fails a snapshot call also rolls back the entry.
\* Mutant: it does not.
MutEntryStays == "unmap"
AfterUndo == IF call.stage = "guard" /\ call.req.mode = "snap"
             THEN "undo_entry" ELSE "unmap"

ApplyRefused ==
  /\ call.pc = "apply"
  /\ Refused(DOMAIN Current.orig)
  /\ call' = [call EXCEPT !.pc = AfterUndo]
  /\ UNCHANGED <<mem, rwx, maps, recs, ret, before>>

\* The loop over the redirected branches goes on to the next one.
\* Mutant: the loop does not advance.
MutWrittenStays(f) == call.left
Written(f) == call.left \ {f}

\* One redirected branch, in the order of the scan.
Fix ==
  /\ call.pc = "fix"
  /\ \E f \in call.left :
       /\ Least(f, call.left)
       /\ ApplyBytes([a \in {f} |-> Branch(Current.addr)])
       /\ call' = [call EXCEPT !.left = Written(f)]
  /\ UNCHANGED <<maps, recs, ret, before>>

FixRefused ==
  /\ call.pc = "fix"
  /\ \E f \in call.left : Least(f, call.left) /\ Refused({f})
  /\ call' = [call EXCEPT !.pc = "undo"]
  /\ UNCHANGED <<mem, rwx, maps, recs, ret, before>>

\* patch_register in the first free slot.  A record keeps the number of
\* records that share its mapping.  After the entry comes the guard.
Register ==
  /\ call.pc = "fix" /\ call.left = {}
  /\ \E i \in Slot :
       /\ Least(i, {j \in Slot : ~recs[j].used})
       /\ recs' = [recs EXCEPT ![i] =
            [used |-> TRUE, addr |-> Current.addr, orig |-> Current.orig,
             fixes |-> Current.fixes, map |-> call.map,
             refs |-> IF Fresh THEN 2 ELSE 1]]
  /\ IF call.stage = "entry"
     THEN /\ call' = [call EXCEPT !.pc = "apply", !.stage = "guard"]
          /\ UNCHANGED <<ret, before>>
     ELSE Return("ok")
  /\ UNCHANGED <<mem, rwx, maps>>

\* A full table: the entry stage unmaps the trampolines, the guard stage
\* only returns the error.
RegisterFails ==
  /\ call.pc = "fix" /\ call.left = {}
  /\ \A i \in Slot : recs[i].used
  /\ IF call.stage = "entry"
     THEN /\ call' = [call EXCEPT !.pc = "unmap"]
          /\ UNCHANGED <<ret, before>>
     ELSE Return("error")
  /\ UNCHANGED <<mem, rwx, maps, recs>>

\* Rollback of the stage that failed: the branches redirected so far, then the
\* patch.  Mutants: the patch stays; the branches stay.
Done(p) == [a \in DOMAIN p.fixes \ call.left |-> p.fixes[a]]
MutKeepsPatch(p) == Put(mem, Done(p))
MutKeepsBranches(p) == Put(mem, p.orig)
RolledBack(p) == Put(Put(mem, Done(p)), p.orig)

Undo ==
  /\ call.pc = "undo"
  /\ mem' = RolledBack(Current)
  /\ call' = [call EXCEPT !.pc = AfterUndo, !.left = {}]
  /\ UNCHANGED <<rwx, maps, recs, ret, before>>

\* Rollback of the entry patch this call applied; its record stays.
UndoEntry ==
  /\ call.pc = "undo_entry" /\ Fresh
  /\ LET e == call.plan["entry"] IN mem' = Put(Put(mem, e.orig), e.fixes)
  /\ call' = [call EXCEPT !.pc = "unmap"]
  /\ UNCHANGED <<rwx, maps, recs, ret, before>>

\* With a reused snapshot the same code reads the local "ep" that was never
\* written.  Its bytes may name nothing writable, or be those an earlier
\* installation left on the stack, or name something that stops the process.
UndoUnplannedEntry ==
  /\ call.pc = "undo_entry" /\ ~Fresh
  /\ \/ /\ call' = [call EXCEPT !.pc = "unmap"]
        /\ UNCHANGED mem
     \/ /\ \E i \in Slot :
             /\ recs[i].used /\ recs[i].refs = 2 /\ recs[i].addr = call.req.fn
             /\ mem' = Put(Put(mem, recs[i].orig), recs[i].fixes)
        /\ call' = [call EXCEPT !.pc = "unmap"]
     \/ /\ call' = [call EXCEPT !.pc = "crashed"]
        /\ UNCHANGED mem
  /\ UNCHANGED <<rwx, maps, recs, ret, before>>

Unmap ==
  /\ call.pc = "unmap"
  /\ Munmap(call.map)
  /\ Return("error")
  /\ UNCHANGED <<mem, rwx, recs>>

(***************************************************************************)
(* instr_unpatch.                                                          *)
(***************************************************************************)
\* Another guard still reads the snapshot in the mapping of record i.
Feeds(i) == \E j \in Slot \ {i} : /\ recs[j].used
                               /\ maps[recs[j].map].guard.snap = recs[i].map

Unpatch(i) ==
  /\ call.pc = "idle"
  /\ EntryFirst \/ recs[i].addr \notin Fn \/ ~Feeds(i)
  /\ Least(i, {j \in Slot : recs[j].used /\ recs[j].addr = recs[i].addr})
  /\ call' = Enter("unfix", NoReq, NoMap, 0, i, DOMAIN recs[i].fixes)
  /\ before' = [mem |-> mem, maps |-> maps, recs |-> recs]
  /\ UNCHANGED <<mem, rwx, maps, recs, ret>>

Unfix ==
  /\ call.pc = "unfix"
  /\ \E f \in call.left :
       /\ Least(f, call.left)
       /\ ApplyBytes([a \in {f} |-> recs[call.rec].fixes[f]])
       /\ call' = [call EXCEPT !.left = Written(f)]
  /\ UNCHANGED <<maps, recs, ret, before>>

Restore ==
  /\ call.pc = "unfix" /\ call.left = {}
  /\ ApplyBytes(recs[call.rec].orig)
  /\ call' = [call EXCEPT !.pc = "release"]
  /\ UNCHANGED <<maps, recs, ret, before>>

\* A page that was made read-only again since may now be refused.
UnpatchRefused ==
  /\ call.pc = "unfix"
  /\ IF call.left # {}
     THEN \E f \in call.left : Least(f, call.left) /\ Refused({f})
     ELSE Refused(DOMAIN recs[call.rec].orig)
  /\ Return("error")
  /\ UNCHANGED <<mem, rwx, maps, recs>>

\* The record's own count goes down; the mapping goes when it reaches zero.
\* Mutants: the count is ignored; it is compared before it goes down.
MutDropAll(r) == Munmap(r.map)
MutDropNone(r) == IF r.refs <= 0 THEN Munmap(r.map) ELSE UNCHANGED maps
DropRef(r) == IF r.refs - 1 <= 0 THEN Munmap(r.map) ELSE UNCHANGED maps

Release ==
  /\ call.pc = "release"
  /\ recs' = [recs EXCEPT ![call.rec] = Blank]
  /\ DropRef(recs[call.rec])
  /\ Return("ok")
  /\ UNCHANGED <<mem, rwx>>

\* Environment: other code of the process restores a page's protection
\* between two calls.
ResetPage(p) ==
  /\ call.pc = "idle" /\ p \in rwx
  /\ rwx' = rwx \ {p}
  /\ UNCHANGED <<mem, maps, recs, call, ret, before>>

Init ==
  /\ mem \in {HookedCode(h) : h \in Hooks}
  /\ rwx = {}
  /\ maps = [m \in MapId |-> Unmapped]
  /\ recs = [i \in Slot |-> Blank]
  /\ call = Idle
  /\ ret = "ok"
  /\ before = NoHistory

Install == \/ \E m \in MapId : MapTrampoline(m)
           \/ MapFails \/ PlanGuard \/ PlanEntry \/ PlanFails
           \/ Apply \/ ApplyRefused \/ Fix \/ FixRefused
           \/ Register \/ RegisterFails
           \/ Undo \/ UndoEntry \/ UndoUnplannedEntry \/ Unmap

Uninstall == Unfix \/ Restore \/ UnpatchRefused \/ Release

Next == \/ \E r \in Requests : GuardBlock(r) \/ GuardBlockSnap(r)
        \/ Reject
        \/ \E i \in Slot : Unpatch(i)
        \/ Install \/ Uninstall
        \/ \E p \in Resets : ResetPage(p)

Spec == Init /\ [][Next]_vars

\* A thread inside the engine keeps running: nothing in it waits.
FairSpec == Spec /\ WF_vars(Install \/ Uninstall)

(***************************************************************************)
(* Types.                                                                  *)
(***************************************************************************)
IsSaved(f) == DOMAIN f \subseteq Addr /\ f \in [DOMAIN f -> Word]
MaybeAddr == Addr \cup {NoAddr}
MaybeMap == MapId \cup {NoMap}

IsRecord(r) == /\ r.used \in BOOLEAN /\ r.addr \in MaybeAddr /\ r.map \in MaybeMap
               /\ r.refs \in 0..2 /\ IsSaved(r.orig) /\ IsSaved(r.fixes)

IsPlan(p) == /\ p.addr \in MaybeAddr /\ p.len \in 0..4
             /\ IsSaved(p.orig) /\ IsSaved(p.fixes)

MapsOK(ms) == ms \in [MapId -> Mapping]
RecsOK(rs) == DOMAIN rs = Slot /\ \A i \in Slot : IsRecord(rs[i])

CallOK ==
  /\ call \in [pc : Pc, req : Requests \cup {NoReq}, snap : MaybeMap,
               chain : {0, 1, 3, 4}, map : MaybeMap, stage : Part,
               plan : {call.plan}, left : SUBSET Addr, rec : 0..MaxRecs]
  /\ call.plan \in [Part -> {call.plan[s] : s \in Part}]
  /\ \A s \in Part : IsPlan(call.plan[s])

\* Every variable, and every local of the call in progress, has its type.
TypeOK ==
  /\ mem \in [Addr -> Word]
  /\ rwx \subseteq Page
  /\ MapsOK(maps)
  /\ RecsOK(recs)
  /\ CallOK
  /\ ret \in {"ok", "error"}
  /\ before.mem \in [Addr -> Word] /\ MapsOK(before.maps) /\ RecsOK(before.recs)

(***************************************************************************)
(* Safety.                                                                 *)
(***************************************************************************)
\* The trampoline a patch word jumps to is mapped.
Lands(w) == w.kind = "patch" =>
              maps[w.map].pages >= (IF w.part = "entry" THEN 2 ELSE 1)

\* At no moment, within a call or between calls, is there a jump into an
\* unmapped trampoline, neither in the code nor among the words a mapped
\* trampoline replays: apply_bytes before munmap on every way in and out
\* (instr.c 298-372, 635-660).
NoDanglingJump ==
  /\ \A a \in Addr : Lands(mem[a])
  /\ \A m \in MapId : \A w \in maps[m].guard.disp \cup maps[m].entry.disp : Lands(w)

\* The snapshots read by the guards now in the code.
SnapshotsRead == {maps[mem[a].map].guard.snap :
                    a \in {b \in Addr : mem[b].kind = "patch" /\ mem[b].part = "guard"}}
                 \ {NoMap}

\* Every guard in the code that reads a snapshot finds the snapshot mapped:
\* the mapping outlives all guards that share it (instr.c 262-270, 592-608).
SnapshotMapped == \A s \in SnapshotsRead : maps[s].pages = 2

\* ... and the entry of the guard's own function carries the patch that
\* refreshes it at each call, so that check gets the arguments of the call
\* being made (instr.c 588-591).
SnapshotFed ==
  call.pc = "idle" =>
    \A a \in Addr :
      LET snap == maps[mem[a].map].guard.snap IN
      mem[a].kind = "patch" /\ mem[a].part = "guard" /\ snap # NoMap =>
        \E fn \in Fn : /\ fn <= a /\ a < FnEnd[fn] /\ mem[fn].kind = "patch"
                       /\ mem[fn].part = "entry" /\ mem[fn].map = snap

\* What a record says of the code.
InPlace(r) ==
  /\ \A a \in DOMAIN r.orig :
       mem[a].kind = "patch" /\ mem[a].at = r.addr /\ mem[a].map = r.map
  /\ \A a \in DOMAIN r.fixes : mem[a] = Branch(r.addr)

Covered(a) == \E i \in Slot : /\ recs[i].used
                              /\ a \in DOMAIN recs[i].orig \cup DOMAIN recs[i].fixes

\* Between calls the registry and the code agree: each record's patch and
\* redirected branches are in the code, and every other word is what it was
\* before the engine was first called.
RegistryMatchesCode ==
  call.pc = "idle" =>
    /\ \A i \in Slot : recs[i].used => InPlace(recs[i])
    /\ \E h \in Hooks : \A a \in Addr : Covered(a) \/ mem[a] = HookedCode(h)[a]

\* The words of the patches in the code at which nothing may arrive.
Interior == {a \in Addr : mem[a].kind = "patch" /\ a # mem[a].at}

\* Between calls no branch leads into the middle of a patch: neither one in
\* the code nor one that a guard's trampoline replays, unless it replays it
\* for that very patch (instr_plan.c 266-275).
BranchesAvoidPatches ==
  call.pc = "idle" =>
    /\ \A a \in Addr : BranchTo(mem[a]) \notin Interior
    /\ \A a \in Addr : mem[a].kind = "patch" =>
         \A w \in maps[mem[a].map].guard.disp :
           BranchTo(w) \in Interior => mem[BranchTo(w)].map = mem[a].map

\* Between calls, once no record is left the code is what it was before the
\* engine was first called.
CodeRestored ==
  (call.pc = "idle" /\ \A i \in Slot : ~recs[i].used) =>
    \E h \in Hooks : mem = HookedCode(h)

\* A guard call never ends in a crash of the process.
FailsWithErrorCode == call.pc # "crashed"

\* Between calls every mapping belongs to a record: none is lost.
NoLeak ==
  call.pc = "idle" =>
    \A m \in MapId : maps[m].pages > 0 =>
      \E i \in Slot : recs[i].used /\ recs[i].map = m

\* The hooks that control entering fn goes on into: the one in the code, or the
\* one that the trampoline of an entry patch goes on to.
HooksEntered(fn) ==
  {w \in {mem[fn]} \cup IF mem[fn].kind = "patch" /\ mem[fn].part = "entry"
                        THEN maps[mem[fn].map].entry.disp ELSE {} : w.kind = "hook"}

\* As long as control entering a function goes on into a foreign hook, the words
\* between the hook and the end of the 4-word entry, where the hook's own
\* relocated code comes back to, are as the linker put them
\* (instr_plan.c 787-796).
HookReturnIntact ==
  \A fn \in Fn : \A w \in HooksEntered(fn) :
    \A a \in Region(fn, 4) \ Region(fn, w.len) : mem[a] = Orig(a)

(***************************************************************************)
(* Action properties and liveness.                                         *)
(***************************************************************************)
\* A guard call that returns an error has changed nothing: not the code, not
\* the mappings, not the registry.
FailedCallHarmless ==
  [][call.pc # "idle" /\ call.rec = 0 /\ call'.pc = "idle" /\ ret' = "error"
       => [mem |-> mem', maps |-> maps', recs |-> recs'] = before]_vars

\* A call in progress returns.
CallReturns == (call.pc # "idle") ~> (call.pc = "idle")
=============================================================================
