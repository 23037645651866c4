------------------------ MODULE PatchEngineInvariant ------------------------
(***************************************************************************)
(* The inductive invariant behind NoDanglingJump.  It follows each patch   *)
(* word to the record, or the call in progress, that can take it out, and  *)
(* each mapping to the words that jump into it.                            *)
(***************************************************************************)
EXTENDS PatchEngine

\* Client discipline: blocks and entries lie apart.
SitesApart ==
  /\ \A r \in Requests : \A fn \in Fn : Region(r.start, 4) \cap Region(fn, 4) = {}
  /\ \A r, s \in Requests : r.start # s.start =>
       Region(r.start, 4) \cap Region(s.start, 4) = {}
  /\ \A f, g \in Fn : f # g => Region(f, 4) \cap Region(g, 4) = {}

TableHasRoom == \E i \in Slot : ~recs[i].used

\* Phases of an installation: a trampoline is mapped; it is planned; the
\* stage's patch is in the code but not yet in the table.
Mapped == {"plan", "plan_entry", "apply", "fix", "undo", "undo_entry", "unmap"}
Planned == {"apply", "fix", "undo", "undo_entry"}
Pending == {"fix", "undo"}

\* The locals of a call at each of its steps.
CallShape ==
  /\ call.pc \in Mapped \cup {"map"} => /\ call.req \in Requests
                                        /\ Region(call.req.start, 4) \subseteq Addr
  /\ call.pc \in Mapped => call.map \in MapId
  /\ call.pc = "plan_entry" => Fresh
  /\ call.pc \in Planned /\ call.stage = "entry" => Fresh
  /\ call.pc \in Planned \cup {"plan_entry"} =>
       /\ call.plan["guard"].addr = call.req.start
       /\ DOMAIN call.plan["guard"].orig \subseteq Region(call.req.start, 4)
  /\ call.pc \in Planned /\ Fresh =>
       /\ call.plan["entry"].addr = call.req.fn
       /\ DOMAIN call.plan["entry"].orig \subseteq Region(call.req.fn, 4)
  /\ call.pc \in {"map", "plan", "plan_entry"} => call.stage = "guard"
  /\ call.pc = "undo_entry" => call.stage = "guard"
  /\ call.pc \in {"unfix", "release"} => call.rec \in Slot /\ recs[call.rec].used
  /\ call.pc \in Pending => call.left \subseteq DOMAIN Current.fixes
  /\ call.pc = "unfix" => call.left \subseteq DOMAIN recs[call.rec].fixes

\* While a call looks at a block, no record names it; nor does a snapshot
\* record name a function whose snapshot is being made.
NotYetGuarded ==
  /\ call.pc \in {"map", "plan"} /\ ~Reguard =>
       \A i \in Slot : recs[i].used => recs[i].addr # call.req.start
  /\ call.pc \in {"map", "plan", "plan_entry"} /\ Fresh => SnapshotRecs(call.req.fn) = {}

Clean(p) == \A a \in DOMAIN p : p[a].kind # "patch"

\* Nothing the engine would write back, and nothing it replays, is a patch.
SavedClean ==
  /\ \A i \in Slot : recs[i].used => Clean(recs[i].orig) /\ Clean(recs[i].fixes)
  /\ \A s \in Part : Clean(call.plan[s].orig) /\ Clean(call.plan[s].fixes)
  /\ \A m \in MapId : \A w \in maps[m].guard.disp \cup maps[m].entry.disp :
       w.kind # "patch"

PatchAt(a) == mem[a].kind = "patch"

\* A patch word lies where its patch belongs ...
WellPlaced(a) ==
  LET w == mem[a] IN
  /\ w.map \in MapId
  /\ a \in Region(w.at, 4)
  /\ w.part = "entry" => w.at \in Fn
  /\ w.part = "guard" => \E r \in Requests : w.at = r.start

\* ... and is in a record, or is the work of the call in progress.
Recorded(a) ==
  LET w == mem[a] IN
  \E i \in Slot : /\ recs[i].used /\ recs[i].addr = w.at /\ recs[i].map = w.map
                  /\ a \in DOMAIN recs[i].orig
                  /\ w.part = "entry" => recs[i].refs = 2

InCall(a) == LET w == mem[a] IN
  /\ call.pc \in Pending
  /\ w.part = call.stage /\ w.at = Current.addr /\ w.map = call.map
  /\ a \in DOMAIN Current.orig

Owned == \A a \in Addr : PatchAt(a) => WellPlaced(a) /\ (Recorded(a) \/ InCall(a))

\* The mapping of the call in progress, and the words that jump into it.
CallMapping ==
  call.pc \in Mapped =>
    /\ maps[call.map].pages = IF Fresh THEN 2 ELSE 1
    /\ \A a \in Addr : PatchAt(a) /\ mem[a].map = call.map =>
         \/ /\ call.pc \in Planned /\ Fresh /\ call.stage = "guard"
            /\ a \in DOMAIN call.plan["entry"].orig
         \/ call.pc \in Pending /\ a \in DOMAIN Current.orig
    /\ \A i \in Slot : recs[i].used /\ recs[i].refs = 1 => recs[i].map # call.map

\* A record that does not share its mapping owns it.
SoleOwner ==
  /\ \A i \in Slot : recs[i].used => recs[i].refs \in {1, 2} /\ recs[i].map \in MapId
  /\ \A i \in Slot : recs[i].used /\ recs[i].refs = 1 =>
       /\ maps[recs[i].map].pages >= 1
       /\ \A a \in Addr : PatchAt(a) /\ mem[a].map = recs[i].map =>
            a \in DOMAIN recs[i].orig
  /\ \A i, j \in Slot : /\ recs[i].used /\ recs[i].refs = 1
                        /\ recs[j].used /\ recs[j].refs = 1
                        /\ recs[i].map = recs[j].map
                        => i = j

\* What instr_unpatch has restored.
Restored == call.pc = "release" =>
              \A a \in DOMAIN recs[call.rec].orig : ~PatchAt(a)

Landing == \A a \in Addr : Lands(mem[a])

\* The inductive invariant.
IInv == /\ TypeOK /\ CallShape /\ NotYetGuarded /\ SavedClean /\ Owned
        /\ CallMapping /\ SoleOwner /\ Restored /\ Landing
=============================================================================
