# Verification of arm64-guard

arm64-guard patches the machine code of a running AArch64 process: before a
block of a function is executed, a client's `check` decides whether the block
runs or is skipped. This directory holds TLA+ models of the library, TLC
configurations that check them on small instances, and TLAPS proofs about
them. Paths below are those of the repository as it lies under `src/`
(`src/src/instr.c` is `instr.c`, and so on).

## 1. The system

| part | files | state it keeps | operations |
|---|---|---|---|
| patch engine | `instr.c` | `g_recs` (64 records), the code it patches, the trampoline mappings, page protections | `instr_guard_block`, `instr_guard_block_snap`, `instr_unpatch`; inside: `apply_plan`, `patch_register`, `apply_bytes`, `mmap_near`, `entry_busy`, `parse_prev_hook` |
| patch planning | `instr_plan.c`, `instr_internal.h` | none (fills an `instr_plan_t`) | `instr_plan_guard`, `instr_plan_entry_snapshot`, `plan_displaced`, `collect_external_fixups` |
| trampoline code | `instr_plan.c` 372-508 and what the two planners emit | registers and stack of each thread, the snapshot area | register save and restore, argument loading, pass and skip paths, the entry's snapshot |
| argument analysis | `analysis.c` | fact sets per instruction, the slot table | `analysis_locate_args`, `analysis_locate_first_arg`, `analysis_find_callsites` |
| instruction coding, relocation | `a64.c` | none | `a64_decode`, the encoders, `a64_relocate_displaced` |
| near mapping | `instr.c` 100-190 | none | `mmap_near` |
| ELF access | `elf64.c` | the parsed module | section, symbol and address lookups |
| demo, tests, tools | `demo/`, `tests/`, `tools/` | - | examples, host tests, emulator scripts |

**How they interact.** A client calls `instr_guard_block` or
`instr_guard_block_snap`. The engine finds the module (ELF access), asks for a
trial plan (planning, which asks the analysis where the arguments are), maps a
trampoline, plans again with the real address, copies the trampoline, writes
the patch with `apply_bytes`, redirects the branches that led into the patched
words, and registers what it did. In snapshot mode it first does the same for
the function's entry, whose trampoline stores x0-x7 into a snapshot area that
the guard's trampoline reads. All guards of one function share the snapshot
area, which lies in the mapping of the first of them. `instr_unpatch` reverses
one record. The guarded program is the other actor: it executes code, patches
and trampolines. Other frameworks (Dobby) may have hooked the entry, and other
code of the process may change page protections.

**Behaviours that are hard.**

- *Partial failure.* Every `mprotect` may be refused. A snapshot call has two
  stages with up to 65 writes each; each refusal has its own rollback.
- *Sharing.* An entry and several guards share a mapping through per-record
  counts, and a later guard finds the snapshot by searching the table.
- *Staleness.* Code is read from the file or from memory, before and after
  other patches are in it; a reused snapshot is taken to be fed.
- *Limits.* 64 records, 64 redirected branches, +-128 MB and +-4 GB reach,
  a patch no longer than the hook it is chained onto, 64 slots, 512 passes.
- *Observation in the middle.* The patched program can run between any two
  writes of the engine.
- *Threads.* Any number of threads may be inside a guarded function, each with
  its own stack, all with one snapshot area.
- *Distance.* How long a moved instruction gets, and whether a patch fits the
  hook it is chained onto, depends on where the system puts the trampoline.
- *Static claims about dynamic behaviour.* What the analysis reports must hold
  on every path, in every iteration.

**What makes each part correct.**

- *Engine*: no jump into an unmapped trampoline, ever; a failed call leaves no
  trace; registry and code agree; removal gives the code back; nothing leaks.
- *Planning*: no branch leads into the middle of a patch; a foreign hook's
  return address is not overwritten.
- *Trampoline*: `check` gets the arguments of the call that meets the guard,
  the function's own code finds the registers, flags and stack it had, and all
  of it amounts to `if (check(args)) { block }`.
- *Analysis*: a reported place holds the argument; the iteration ends in a
  fixpoint.
- *Relocation*: a moved instruction does the same at its new address, is as
  long as it was said to be, and a redirected branch keeps its condition.
- *Near mapping*: the mapping is in reach and overlaps nothing, and room that
  there is is found.

The full list of hazards, each at its line, is in `PROJECT.json`.

## 2. The modules

| module | models | file |
|---|---|---|
| `PatchEngine` | the engine, step by step, and as much of planning as decides which words are written | `instr.c`, `instr_plan.c` |
| `PatchTable` | what the engine promises: patches that come and go whole | abstract |
| `PatchEngineRefinement` | the mapping from the one to the other | |
| `PatchEngineInvariant` | the inductive invariant of the engine | |
| `PatchEngine_proofs` | proof of the type invariant | |
| `PatchLanding_proofs` | proof that every jump lands | |
| `PatchMappings_proofs` | proofs about trampoline mappings: none lost, snapshots stay, failed calls leave no trace | |
| `PatchRegistry_proofs` | proofs that registry and code agree, that the engine implements `PatchTable`, and what follows for hooks, branches and snapshots | |
| `MCPatchEngine` | layouts and requests for TLC | |
| `ArgFlow` | the analysis, pass by pass, and the analysed function running | `analysis.c` |
| `ArgFlow_proofs` | proofs that the passes end at a fixpoint and that reported places hold their arguments | |
| `MCArgFlow` | the functions analysed by TLC | |
| `GuardedRun` | threads that run a guarded function and its trampolines | `instr_plan.c`, `a64.c` |
| `GuardedBlock` | what a guard promises: `if (check(args)) { block }` | abstract |
| `GuardedRun_proofs` | proofs that the trampolines keep the function's state, that `check` gets the arguments, and that a guard is an `if` | |
| `MCGuardedRun` | where TLC lets analysis find the arguments | |
| `Placement` | where a trampoline is mapped, and what becomes of the words moved into it | `instr.c`, `instr_plan.c`, `a64.c` |
| `Placement_proofs` | proofs about `mmap_near` and the mapping, and that the two passes of `plan_displaced` agree | |
| `Relocation_proofs` | proofs that copies mean the same, and of the type invariant of `Placement` | |
| `MCPlacement` | an address space and instructions for TLC | |

The modules meet where the parts do. `ArgFlow` shows that the places reported
hold the arguments at the guard (`LocationsHold`); `GuardedRun` starts there
and shows that `check` gets them. `Placement` shows that the copies of the
covered words do what the words did; `GuardedRun` takes their execution as one
step (`Replay`, `Resume`). `PatchEngine` takes the distance of a mapping as a choice (`Reach`);
`Placement` says which mapping is made and which form of patch it allows.

### 2.1 PatchEngine

| variable | code |
|---|---|
| `mem` | the module's code, one element per 4-byte word |
| `rwx` | pages `mprotect` has made writable |
| `maps` | trampoline mappings: number of pages, the words each trampoline replays, the snapshot a guard reads |
| `recs` | `g_recs` |
| `call` | the locals of the API call in progress, and where it is |
| `ret`, `before` | last result; a history variable with the state when the call began |

A word of code is known by where it leads: the original instruction of an
address (`Target` gives the address it branches to), a branch the engine
redirected, a word of a patch, or a word of a foreign hook. The bytes are
abstracted away. The actions are the steps of a call after which something
else may happen: the system may refuse the next write, or the guarded program
may run.

| actions | code |
|---|---|
| `GuardBlock`, `GuardBlockSnap`, `Reject` | argument checks, search for a snapshot, occupancy test, trial plans (`instr.c` 512-633, 211-235) |
| `MapTrampoline`, `MapFails` | 237-270; the address is chosen freely, near or far |
| `PlanGuard`, `PlanEntry`, `PlanFails` | 271-310 and the planners |
| `Apply`, `ApplyRefused`, `Fix`, `FixRefused` | the patch and the redirected branches of either stage, 312-369 |
| `Register`, `RegisterFails` | `patch_register` and what follows it, 330-336, 370-372 |
| `Undo`, `UndoEntry`, `UndoUnplannedEntry`, `Unmap` | the rollbacks |
| `Unpatch`, `Unfix`, `Restore`, `UnpatchRefused`, `Release` | `instr_unpatch` |
| `ResetPage` | other code makes a page read-only between calls |

Choices and assumptions:

- `apply_bytes` is one step: `mprotect` and `memcpy`. A write is refused only
  if it touches a page that is `Faulty` and not writable already. So the
  writes of a rollback, whose results the code ignores, succeed: they touch
  pages written earlier in the same call, and pages are reset between calls
  only. A rollback is then one step per stage.
- The local `ep` is not initialised when a snapshot is reused. Rolling it back
  may write nothing that matters, or write what an earlier call left on the
  stack, or stop the process (`UndoUnplannedEntry`).
- One call at a time: the library has no locking and `README.md` 191 asks that
  guards be installed before the code runs.
- A function whose first instruction is a lone `b` looks like a hook of one
  word to `entry_busy`; it is covered by `Hooks` with length 1.
- `Reguard` and `EntryFirst` name two client freedoms the documentation
  neither forbids nor describes: guarding a guarded block again, and removing
  an entry patch before the guards that need it. The runs say which are on.
- The planning of a call guard (`is_call_guard`) is left out here, since no public
  function sets it; `GuardedRun` runs the code it would emit.

### 2.2 ArgFlow

`st`, `valid`, `table`, `idx`, `pass`, `changed` and `locs` are the locals of
`locate_args`. A fact is "register r, or the stack word at base b and offset
n, holds argument k", and a bit mask of the code is the set of the facts it
stands for. `Visit` handles one instruction: `Transfer` (`transfer`),
`Registered` (`slot_index`; which slots find room is left open), the meet and
the change flag. `EndPass`, `Report` and `Unreachable` end a pass and the
analysis. A report in which no argument is found is refused by the planner.

Then the function runs (`Exec...`), instruction by instruction, with registers
that hold arguments, frame addresses or something else, and a stack that holds
arguments. This half is external: it is the processor. Both halves read the
same instructions, so what one half forgets the other does not.

The instruction classes are those of `transfer` that treat arguments or slot
addresses differently: mov, add to sp, add x29 from sp, call, store, load
(with offset, pre- and post-index and pairs), the branches, the jump through a
register (`br`), return, and "set", which stands for everything that only gives `rd` a value that is no argument
(`MOV_IMM`, `ADRP`, `ADR`, `MRS`, `LDR_LIT`, `LDR_BH`, loads with a register
offset, other arithmetic). "Unseen" is an instruction the decoder does not know
(`a64.c` 334-336) and that writes more than `transfer` clears for it: it moves
sp (`sub sp, sp, x9`, the write-back of `stp d8, d9, [sp, #-16]!`) or loads a
second register (`ldpsw`). Other destinations 31 occur only where the code gives
them a meaning of their own. `br` ends a path for the analysis (`Flow`) and goes
on for the processor (`Goes`). `off` is what the processor adds to a
base, `imm` what `a64_decode` makes of the immediate of `add` and `sub`: it drops
the LSL #12 bit, and only for sp does `transfer` look at which of the two it is.
The two agree for `AddSP` and for `SetFP` upwards. Left out: access widths, the
cap of 256K instructions.

Three constants bound what functions are analysed:

- `FrameStable`: no instruction destroys a spilled argument, arguments are
  spilled to the frame only, x29 is made to point into the frame once, and once
  an argument is spilled sp is moved by instructions the decoder knows only.
  Without it the claim of `README.md` 33 is false (section 5).
- `TableJumps`: a jump through a register may lead up to the guard, as in a
  `switch`. Without it such a jump leaves the window. With it the claim of
  `README.md` 194-197, which names such jumps, is false (section 5).
- `LoopBack`: control may come to the guard from behind it. Without
  `LoopBack` the analysis window holds every path to the guard.

### 2.3 GuardedRun

`m[t]` is thread t's processor state: x0-x30, sp, the flags, the floating-point
registers as one value, and the stack words that have been written. `at[t]` is
that state when the thread last met a patch; it is what the properties compare
with. A value is known by where it comes from: argument k of call c, junk of a
visit, an address, a number. Offsets count words of 8 bytes.

| actions | code |
|---|---|
| `EntrySave`, `EntryStore`, `EntryRestore` | the entry's trampoline, `instr_plan_entry_snapshot` 752-781; x0 to x7 are stored one step each |
| `GuardSave` | 583-584, `emit_save_all` |
| `ArgsFromPlaces`, `ArgsFromSnap` | `emit_args_load`, 479-508; a snapshot is read one word per step |
| `Check` | `blr` to `check`, which keeps to the calling convention and answers what it likes |
| `Pass`, `Replay`, `Skip` | the two paths of a block, 643-670 |
| `CallPass`, `Callee`, `CallBack`, `CallSkip`, `Resume` | the two paths of a guarded call and the words behind it, 604-640 |
| `Call`, `Reach`, `Leave`, `Return` | the function and its callers: a function may reach its guard several times in one call, or not at all |

Save, restore and argument loading are the very stores and loads the code emits,
one after the other in the loops of the code, on a stack of numbered words; that
slots based on sp move by 592 bytes, that sources must be read before they are
overwritten, and that register 31 means sp in one encoding and xzr in another follow from the
encoders (`StpPre`, `LdpPost`, `BaseValue`), not from what was intended. What a
thread does with its own registers and stack is one step; the snapshot area is
the only thing threads share.

Choices and assumptions:

- `PairLoad`: which word of `ldp x8, x8` survives in x8. The architecture leaves
  it open; the runs take the first.
- x16 is nobody's: a patch loads it before anything is saved. `ContextIntact`
  leaves it out, as compilers keep nothing in it across a branch. At a guarded
  call it also leaves out x30, which the call sets, and instead says what x30
  is behind the call.
- `Overlapping`: the modes in which calls of several threads may overlap. In
  snapshot mode they may not, except in `snap_threads`.
- `Layouts`: where analysis may find the arguments. `Usual` has eight: in their
  registers, rotated, in reverse, in the registers the loading works with, in
  callee-saved registers, in sp slots, in slots of three bases with offsets up
  to and beyond what an immediate holds, and a mixture with one lost.
- `Frame` 600 words: large enough that an sp slot at the last offset an
  immediate reaches lies in the frame.
- Mode "call" has no public caller; `instr_plan_guard` takes it as a parameter.

`GuardedBlock` is the promise of `instr.h` 57-67, for any number of threads: a
thread at its guard goes to the block or behind it, `check` has been given the
found arguments of this very call, and the state the function works on is not
touched. The mapping hides the trampolines: while a thread is in one, its view
is the state it met the patch with.

### 2.4 Placement

One trampoline, from the map of the process to the execution of a copy.

| actions | code |
|---|---|
| `Scan` | the searches of `mmap_near` in `apply_plan`, `instr.c` 107-145, 245-252 |
| `OtherMaps` | other threads map pages between the search and the `mmap` |
| `PlaceNear`, `NearRefused`, `PlaceAnywhere`, `PlaceFails` | the mappings, 146-148, 253-260 |
| `Plan` | which form of patch fits, `instr_plan.c` 569-581, 797-826 |
| `Measure`, `Measured`, `Emit`, `EmitTail` | both passes of `plan_displaced`, 207-263, one word per step |
| `Redirect` | `collect_external_fixups`, 315-367 |
| `Enter`, `Run` | the processor executes one copy, or the tail |

Addresses count words of 4 bytes. An instruction is its kind, its target and
the bit that inverts its condition. The kinds are those the relocation treats
differently, and two that it should: `litsw`, which is `ldrsw` of a literal and
which the decoder takes for a load of 32 bits, and `litfp`, a literal load into
a vector register, which it does not know and which is copied as it is. The encoders answer as the code's do,
including what becomes of an out-of-range `tbnz` (`Garbled`). `NearGap` states
the result of the loop over `/proc/self/maps`: the closest gap between two
neighbouring lines that holds all pages, the first of two equally close. The
plan forgets the map of the process once the address is chosen; nothing
behind reads it.

Choices: `Others` and `Race` (what other threads map, and whether it may be the
very pages found free); `FarBitTests` (whether `tbnz` may be moved out of its
reach); `Codes` (the words that are moved). `Redirect` considers one branch at a time: that all of them are
collected, and the limit of 64, are `PatchEngine`'s.

## 3. The runs

TLC checks each in well under a minute, with two workers.

| run | question | states |
|---|---|---|
| `blocks` | Two guards on looping code, any write refused. Do registry and code agree after each call (`RegistryMatchesCode`), is every mapping owned (`NoLeak`), is a failed call without effect (`FailedCallHarmless`), does each call return (`CallReturns`)? | 494 |
| `mixed` | Data-flow and snapshot guards of one function, a file image, three distances. Is the snapshot mapped and fed while a guard reads it (`SnapshotMapped`, `SnapshotFed`), does no branch lead into a patch (`BranchesAvoidPatches`), is each call one step of `PatchTable` (`ImplementsTable`)? | 17,790 |
| `refusals` | The same with refusals anywhere, pages reset, entries removed first. Does every jump land (`NoDanglingJump`), and does the invariant of the proof hold (`IInv`)? | 28,589 |
| `hooked` | Two functions already hooked with 3 words and 1 word, a table of two records, so that it fills in both stages; plans are made from a file that shows no hooks. Are the words the hooks return to untouched while the hooks are entered (`HookReturnIntact`), and is no guard reading an unmapped snapshot? | 768 |
| `arguments` | All functions of a prologue, three instructions out of 20, the guard and a return: 16,000 of them, with jumps through a register and undecoded writes of sp. Do all reported places hold their argument (`LocationsHold`), and does the analysis end in a fixpoint (`Converged`)? | 276,246 |
| `guarded` | Two threads, three modes, eight layouts, two visits of the guard per call. Does `check` get the arguments (`CheckGetsArguments`), does the function find its state unchanged (`ContextIntact`), is it all a step of `GuardedBlock` (`ImplementsBlock`)? | 31,144 |
| `placement` | 128 maps of the process, two functions, four hooks, 392 pairs of moved instructions. Is the mapping free, in reach, and found if there is room (`OverlapsNothing`, `NearReaches`, `NearFindsRoom`); do the passes agree (`SizesAgree`), does each copy do what its original did (`MovedMeansSame`)? | 401,773 |

Five further runs end in a counterexample: the code does other than its
documentation says (section 5).

**Bounds.** *Engine.* The plain layout has fifteen words: an entry of four, two blocks of
four, and branches from inside and behind the blocks into the first, second
and third word of a block and into the entry. Two blocks are the fewest that
share a snapshot and redirect each other's branches; three requests let one
block be guarded in both modes. Pages are four words, so patch, branches and
entry lie on different pages and are refused apart. `MaxRecs` is 1 to 4:
enough for the requests, or one short of it where the full table is the point.
`MaxFix` 2 is just enough for the busiest patch (two branches lead into a
three-word patch on block one), so the limit is met but not passed; the error
path behind it is that of `Reject` and `PlanFails`. `ScanSpan` 7 covers the
whole function, as 64 KB does for all but very large functions. In `hooked` the
branch-free layout keeps the two functions independent except through table
and mappings; the same two properties hold there with `Image = FALSE` (698 states).

*Analysis.* `arguments` has two arguments, four registers (an argument's own
two, one callee-saved, x29), stack depth 4, five slots: a pair store with
write-back needs four, so the table runs full in the middle of a rebasing.
Programs with loops take up to three passes, of six allowed. Three free
instructions suffice for spill, move of base and reload, and for a diamond or
a loop around them. A `br` joins no path at the guard (`TableJumps`), and an
instruction the decoder does not know runs with nothing spilled (`FrameStable`).
`LslFactor` stands for 4096; no function of `Straight` has a shifted immediate.

*Trampolines.* Two threads and two calls are the fewest that overlap; two
visits, because what a first visit leaves behind is what a second one meets.
The registers are the real 31 and the saved area the real 74 words, so nothing
about their number is scaled.

*Placement.* The reaches 2^25, 2^18 and 2^13 words and 2^20 pages are scaled to
96, 44 and 28 words and 5 pages of 32 words, in the same order and, as the
assumption says, all larger than a copy of six words. The maps put gaps of one,
two and more pages on both sides of the function, at the edge of each range
and beyond it; `Lead` and `GuardOff` move the copies and the patch across the
limits, so that each instruction is met in reach and out of it. Two of three
words vary at a time: copies interact only through their lengths and through
branches from one to another.

**Deadlock** is checked in all runs whose system cannot stop; not in
`refusals`, where the process may have crashed, in the `ArgFlow` runs, where
the function returns, in the `GuardedRun` runs, where the callers may have no
calls left, and in the `Placement` runs, which end when the copy has been executed.

**Fairness.** Only `blocks` uses any: `WF_vars(Install \/ Uninstall)`. A call
in progress is a thread inside the library that never waits for anything, so
it keeps taking steps. No fairness is assumed of clients, of the system's
refusals, or of the choice between success and failure. A guarded function
need not return, and `check` need not either: `GuardedRun` claims no liveness.

## 4. What is proved

### Types and jumps of the engine

`TypeCorrect` (`PatchEngine_proofs`): `Spec => []TypeOK`, from
`EngineAssumption` alone. `TypeOK` is not inductive: a plan's address is known
to be in the module only because the call's request was accepted, so the proof
carries `CallShape`, which says what each local holds at each step.

`JumpsLand` (`PatchLanding_proofs`): under `Discipline`,
`Spec /\ []TableHasRoom => []NoDanglingJump`, for every code layout, number of
mappings, table size, set of hooks, pages refused or reset, and both client
freedoms about removal. The hypotheses:

- `Discipline`: no block is guarded twice, and blocks and entries of requests
  do not overlap. It is the client's part: `README.md` 203-206 describes guards
  of different blocks.
- `TableHasRoom`: a record is free. With a full table the property is false
  (run `table_dangling`).

The argument follows each patch word in the code. Either a record saved the
word it overwrote (`Recorded`), or the call in progress did (`InCall`); what
is saved is never a patch (`SavedClean`), so restoring a record or rolling
back a stage removes jumps and adds none. A mapping is unmapped in two cases.
A failing call unmaps its own: `CallMapping` says that only the words this
call wrote jump there, and the rollback has taken them out. `instr_unpatch`
unmaps when a record's count falls to zero: `SoleOwner` says that a record
with count one is the only one of its mapping, and that the words that jump
there are those it has just restored. The conjunction `IInv` is inductive;
TLC also checks it in `refusals`. The proof has one lemma per action.

`WordsOwned`: under the same hypotheses `Spec /\ []TableHasRoom => []IInv`; the
conjunction is worth stating itself, as it says who owns each patch word.

### Mappings

The theorems of `PatchMappings_proofs` have up to two hypotheses besides
`EngineAssumption`. Each of them excludes something for which section 5 gives a
counterexample.

- `NoEntryRollback`: no write is refused, or no request asks for a snapshot. A
  refused guard stage rolls back an entry whose record stays.
- `BlockOnly`: no request asks for a snapshot. A snapshot guard's two records
  count each other, and their mapping is never released.

| theorem | hypotheses | states |
|---|---|---|
| `SnapshotStays` | `NoEntryRollback` | `Spec => []SnapshotMapped` |
| `MappingsKept` | `BlockOnly` | `Spec /\ []TableHasRoom => []NoLeak` |
| `FailuresHarmless` | `NoEntryRollback` | `Spec /\ []TableHasRoom => FailedCallHarmless` |

For `SnapshotStays` the invariant `SnapInv` counts: a record counts as many sharers
as its mapping has pages (`PagesCounted`), and what a guard reads is a mapping of
two pages that the call in progress will not give up (`SnapsRead`). A removal
unmaps one page only; that a snapshot mapping is never unmapped at all once it is
registered is the leak of section 5, seen from its other side. `LeakInv` follows
the mapping of the call in progress: it is either registered or unmapped on each
way out. For `FailedCallHarmless`, which compares with the history variable
`before`, `HarmInv` says at each step of a call which words and mappings may
differ from `before`, and that the rollback of that step gives back exactly those.

### Registry and code

The theorems of `PatchRegistry_proofs`, all but `HookReturnKept`, are about
`Orderly` use:

- `Discipline`, as above, and `NoEntryRollback`.
- `Independent`: no branch leads from one place that may be patched into
  another. Two guards that redirect each other's branches must be removed newest
  first (section 5).
- `HooksSeen`: a module whose file is read carries no foreign hooks; the file's
  bytes would be saved in place of the hook (section 5).
- `WritesRepeat`: pages are not made read-only again between calls, or no
  write is refused. A refused removal leaves the branches restored and the patch in.

| theorem | further hypotheses | states |
|---|---|---|
| `RegistryAgrees` | | `Spec /\ []TableHasRoom => []RegistryMatchesCode` |
| `CodeGivenBack` | | `Spec /\ []TableHasRoom => []CodeRestored` |
| `EngineImplementsTable` | | `Spec /\ []TableHasRoom => ImplementsTable` |
| `HookReturnKept` | not `Orderly` but `Discipline`, `Independent`, `HooksKnown`, `EntriesStraight` | `Spec /\ []TableHasRoom => []HookReturnIntact` |
| `BranchesAvoid` | `ScanCovers`, `OwnBranches` | `Spec /\ []TableHasRoom => []BranchesAvoidPatches` |
| `SnapshotsFed` | `~EntryFirst` | `Spec /\ []TableHasRoom => []SnapshotFed` |

TLC evaluates `Orderly`, `ScanCovers` and `OwnBranches` to true on the layouts of
`blocks` and `mixed`, and the four hypotheses of `HookReturnKept` on that of
`hooked`, so the theorems are about systems the runs explore too.

*Layers.* The invariant `Registry(h)` says what the code is: the words found at
the start, with hooks `h`, and on top of them disjoint layers, one for each
record and one for the stage a call is in. A layer knows which words it has
still to write, and what it saved are the words found at the start
(`Saves`). Disjointness is where `Independent` and `SitesApart` are used: a
patch and the branches it redirects share no word with another's. Installation
puts words of one layer, restoring takes them off, and no other layer notices;
without layers the code is what was found (`CodeGivenBack`).

*Refinement.* `Patches` reads the abstract table off the records. While a call
runs the abstract state is the one it began with (`Committed`), so every step is
a stutter but the one that returns, which must be one step of the table or
none. `Since` says what the call has left alone: all other records, and the words
they cover. With the layers before and after, a call that returns has then added
the patches of its own records, or taken away one with its words as they were, or
changed nothing.

*Hooks.* `HookReturnKept` needs neither `HooksSeen` nor that writes succeed: it
holds when the plan is made from a file that does not show the hook, which is
how the library comes to live beside other frameworks, and whichever write is
refused. The layers do not describe such code, since a removal writes the file's
words where the hook was. The theorem has an invariant of its own, `EntriesKept`,
about the first four words of each function. `EntryCode` says that each of them
is a patch's, one that was found or, with a file, the linker's, and that a hook
control goes on into finds the words behind it; `SparesEntries` that no branch among
them is redirected and that a record or a rollback writes back the file's words
or words of the hook (`GivesBack`); `Measured` and `EntryStaged` that the entry to
be patched is as its hook was measured, and its patch not longer than the hook. `HooksKnown`
says that each hook has one of the lengths `parse_prev_hook` recognises,
`EntriesStraight` that the first words of a function do not branch among
themselves.

*Branches.* `ScanCovers` says that the scan sees every branch to a place patched:
`collect_external_fixups` is given `caller_end` 0 for an entry and ends 64 KB
behind the block. `OwnBranches` says that a place branches to its own first word
at most, unless all guards are data-flow guards. The words a trampoline
replays are not redirected by later patches, and a trampoline that shares its
mapping with an entry stays when its own guard is gone, and with it the words
it replays. Then each branch is one of three: unchanged and leading elsewhere
(else the scan had found it), redirected to the first word, or replayed and
leading out of every patched place by `Independent` (`CodeAvoids`,
`ReplayAvoids`).

*Feeding.* `FedInv` says that for each record whose guard reads a snapshot there is
one of the function's entry with the same snapshot, and that the call in
progress has found or registered its own before it patches the guard. A removal
keeps it, because clients do not remove an entry while a guard needs it
(`~EntryFirst`; the property is false otherwise, section 5).

### Analysis

`FlowTyped`, `Fixpoint` and `PlacesHold` (`ArgFlow_proofs`) hold for every set of
`OrdinaryPrograms`, every guard, table size and choice of dropped slots. Ordinary
is an instruction whose immediate is not shifted, that sets x29 above sp,
writes register 31 as sp only, and loads no pair into one register, and of a
load or store the words moved lie apart; it may be a `br`, or an undecoded
instruction that moves sp and loads no second register; a shifted immediate and x29 below sp
are findings. The other hypotheses:

- `PassesSuffice`: when the analysis is done its last pass changed nothing.
  `MAX_PASSES` is 512, and the code does not look whether it was enough; a
  function that needs more is analysed as far as the passes went.
- `FrameStable`, `~LoopBack` and `~TableJumps` (section 2.2), for `PlacesHold`
  only; run `loop_back` and section 5 show it false without each of them. Of what
  `README.md` 194-197 promises the theorem covers undecoded writes of sp before
  arguments are spilled and jumps through a register that leave the window;
  beyond that the promise is false.

`Fixpoint`: `Converged` is carried by `FixInv`: in a pass that has changed nothing
yet, each instruction visited hands on only what is recorded at its successors
(`Fixed`). A visit that changes something sets the flag; one that does not
leaves every earlier one as it was, even if the table drops slots meanwhile.

`PlacesHold`: `SoundInv` says that while the function runs, every fact recorded
before the instruction at `pc` holds of registers and memory. A step goes to a
successor in the window, where by `Fixpoint` the facts recorded are among those
`Transfer` gives; so one lemma per instruction class suffices, that what
`Transfer` makes of true facts is true after the step. Stores need
`FrameStable`; loads and stores with write-back need that rebasing a slot keeps
the word it names.

### Trampolines

The theorems of `GuardedRun_proofs` hold for every set of threads, number of calls
and visits, frame size and base address, and whatever `check` answers. Their
hypotheses, besides what the analysis promises (`Sound`), exclude only what section 5
has a counterexample for:

- `PairFirst`: `ldp x8, x8` leaves the first word in x8, so that the flags come back.
- `LayoutsReadable`: the places are such as `locate_args` reports (`Sound`: no
  place holds two values, the base of a slot is sp or one of x0 to x7 and x18 to
  x30, `analysis.c` 442-444, and a slot is not below sp), and of these,
  such as `emit_args_load` reads rightly (`Readable`: no argument in x8 or x16, no
  slot of sp whose offset and the 592 bytes of the save area exceed 4095). TLC evaluates
  it to true on the eight layouts of `guarded`; the layouts `InX8`, `InX16` and
  `Deep` are `Sound` and not `Readable`.
- `SnapAlone`: calls of a function with a snapshot do not overlap.

| theorem | hypotheses | states |
|---|---|---|
| `RunTyped` | | `Spec => []TypeOK` |
| `ContextKept` | `PairFirst` | `Spec => []ContextIntact` |
| `ArgumentsGiven` | `LayoutsReadable`, `SnapAlone` | `Spec => []CheckGetsArguments` |
| `GuardIsIf` | all three | `Spec => ImplementsBlock` |

*Straight-line code.* `SaveAll`, `RestoreAll` and `ArgsLoad` are loops with a
constant number of turns, written as recursive functions. A loop's state after turn
`i` is given by the state before it (`Made`, `OneMore`), and a claim about every
turn follows from the well-foundedness of the naturals (`Upwards`); no induction
over data is needed. So `PushedIs` says that after `emit_save_all` every register
is on the stack at its own offset and nothing above is touched (`Has`, `Alike`),
`PoppedIs` that the restoring loop, which runs the other way, finds each pair where
the saving loop left it, and `RestoreAllIs` that all registers and flags come back.
`ArgsLoadIs` says where each argument comes from: all sources are read before
the first of x0 to x7 is written (`SourcesIs`, `LoadsIs`, `AssembledIs`), and
neither the scratch area nor x8 to x16 is in the way.

*Context.* `KeptAt` is the invariant: `at[t]` is on the stack while thread t is
in a trampoline (`Saved`) and in its registers when it has left it (`AsBefore`),
and above `at[t]`'s stack pointer the two stacks are alike all the time. Each
action of a thread keeps it (`Going`), as `check` keeps to the calling
convention and the scratch area is below what has been saved.

*Arguments.* `Brought` follows the arguments to `check`. At a guard without
a snapshot the places hold them (`Holds`), still so after the registers have
been saved, and then x0 to x7 do. With a snapshot, x0 to x7 hold them until the
entry has copied them, the words copied so far are in the area, and from then on all
of them are, because no other thread is in a call (`Alone`). TLC found `Brought`
invariant on the instance of `guarded` before it was proved.

*Refinement.* By `ContextKept` the state the function works on is always the one
in which it last met a patch (`Looks`). Then the steps of a trampoline are
stutters, `Check` is the step of the block that asks, by `ArgumentsGiven` with the
right arguments, and reaching the guard, leaving and the call that is guarded are the
function's own steps.

### Placement

The theorems about `Placement` rest on `PlacementAssumption`, which says that
pages and words are counted in naturals and that the reaches are in their
order. They hold for the real reaches as for the scaled ones.

`NearMappingsReach` (`Placement_proofs`): `Spec => []NearReaches`. The
invariant `NearInv` carries the range asked for from the search to the mapping:
an address found in a range is page-aligned and lies, with its two pages,
within that range of the function (`GapFits`). The patch starts from the second
page, so "two pages within the range" is what makes its `b` or `adrp` reach.

`MapsFreePages`: `Spec => []OverlapsNothing` if nobody else maps the pages that
were found (`~Race`). `FreeInv` says that the pages of the gap found are still
unmapped: the gap lies between two neighbouring lines (`NextTo`), so no line is
in it. Without the hypothesis it is false (section 5).

`SearchFindsRoom`: `Spec => NearFindsRoom`. Room between two mappings in range
is a gap of the code's loop (`RoomIsGap`), for which the nearest mapping below
and the nearest above are taken; that there is one is the well-foundedness of
the naturals.

`CopiesWhereMeasured` (`Placement_proofs`): `Spec => []SizesAgree`, for all
words moved and all addresses. A copy is as long as it was measured to be at
its own address (`CopyLength`), so the addresses agree one after the other; the
invariant `SizesInv` says so of all words emitted so far.

`CopiesMeanSame` (`Relocation_proofs`): under `OrdinaryCodes` and without
`FarBitTests`, `Spec /\ []TargetsOutside => []MovedMeansSame`: every copy, from
its first word to where control leaves it, has the effect of its original, for
every function, trampoline and reach, and for every word moved. The hypotheses:

- `OrdinaryCodes`: no condition among the guarded words leads to one of them,
  and none loads a literal with `ldrsw` or into a vector register; otherwise the
  property is false (run `inner_condition`, section 5).
- `TargetsOutside`: no branch that is moved leads into the middle of its own copy,
  and the tail does not lead into itself. The module's code cannot know where
  the trampoline is. The instance of `placement` satisfies both.
- `~FarBitTests`: no `tbnz` is moved out of its reach (section 5).

Two invariants carry the argument. `WordsInv` says that the trampoline holds
each copy at its place (`Written`, `Lies`), which needs `CopiesWhereMeasured`:
the first pass decides where a branch between covered words leads. `RunInv` says
how far the execution of a copy has come (`Progress`): at its first word, in
its literal with the right value in x16 and, behind a condition, with the
condition met, or done. There is a lemma for short copies, for the opposite
condition of a long one, for its literal, and for the tail.

`PlacementTyped`: `Spec => []TypeOK` if the pages of the process are counted from
one without a hole (`Contiguous`). What is not obvious in it is that both
pages of a trampoline found near a mapping are pages that exist (`PlaceTyped`),
which the search shows because there is a mapping above or below, and that 29
words hold all copies (`ListsTyped`: six at most for each of four, and the
tail).

### Model-checked only

`CallReturns`, which is liveness and out of the prover's reach.

The properties of the five runs with a counterexample are not true of the code,
so there is nothing to prove. All else the runs check is stated by a theorem,
under the hypotheses above.

## 5. Where the code and its documentation disagree

Each of these has a run that ends in a counterexample.

| run | what happens |
|---|---|
| `table_dangling` | A full table in the entry stage unmaps the trampoline the patched entry jumps to (`instr.c` 332). |
| `loop_back` | The analysis window ends at the guard, so a loop that comes back to it is analysed as if it did not (`analysis.c` 314). |
| `fp_lost` | d0-d31 are "saved" with the encoding of x-register pairs; the block goes on with what `check` left in them (`instr_plan.c` 397). |
| `snap_threads` | The snapshot area is one for all threads: one thread's `check` gets the arguments of another (`instr_plan.c` 756). |
| `inner_condition` | A moved `b.cond`, `cbz` or `tbz` to a covered word leads into the patch instead of to that word's copy (`instr_plan.c` 220). |

The following are shown by the same models with other constants; each line
says what to change in a cfg above to see it.

| change | property violated | what happens |
|---|---|---|
| `table_dangling.cfg`, `Requests <- SnapRequests`, `MaxRecs = 3`, `Faulty = {}` | `NoLeak` | A first snapshot guard gives both records count 2; each removal lowers its own count to 1, so the mapping is never released (`instr.c` 652). |
| `blocks.cfg`, `Requests <- SnapRequests`, `MaxRecs = 3`, `Faulty = {}`, `Hooks <- HookedFour`, `Image = TRUE` | `CodeRestored` | With a file image, a snapshot guard chained onto a hook saves the file's bytes; removing it erases the hook (`instr_plan.c` 741). |
| `refusals.cfg`, `Requests <- SnapRequests`, `MaxRecs = 3`, `Faulty = {1, 2}` | `SnapshotMapped` | A refused guard stage rolls back the entry but not its record; the next snapshot guard reuses an unmapped snapshot (`instr.c` 341-348). |
| `refusals.cfg`, `Requests <- SnapRequests` | `FailsWithErrorCode` | A refused write of a second snapshot guard rolls back the uninitialised `ep` (`instr.c` 341, 360). |
| `arguments.cfg`, `Programs <- Tables`, `TableJumps = TRUE` | `LocationsHold` | A path that overwrites x0 and comes to the guard through a `br` is ignored where another path joins it, and x0 is reported (`analysis.c` 353-356); `README.md` 194-197 names jumps through a register and says that no wrong place is given. |
| `arguments.cfg`, `Programs <- Dynamic`, `FrameStable = FALSE` | `LocationsHold` | An instruction that is not decoded moves sp, and the slots of sp stay where they were (`analysis.c` 147-152, `a64.c` 334-336); the same sentence names instructions that cannot be decoded. |
| `arguments.cfg`, `Programs <- Paired` | `LocationsHold` | An instruction that is not decoded, as `ldpsw`, loads a second register, whose argument is still reported (`analysis.c` 147-152). |
| `arguments.cfg`, `Programs <- Reuse`, `FrameStable = FALSE` | `LocationsHold` | Storing something else over a spilled argument leaves its slot marked (`analysis.c` 223). |
| `arguments.cfg`, `Programs <- Large` | `LocationsHold` | `sub sp, sp, #1, lsl #12` moves the slots by 1 byte instead of 4096 (`a64.c` 187). |
| `arguments.cfg`, `Programs <- Below` | `LocationsHold` | `sub x29, sp, #n` is taken for `add` (`analysis.c` 165). |
| `guarded.cfg`, `Layouts <- InX8` or `InX16` | `CheckGetsArguments` | x8 is overwritten by the flags, x16 by the patch, before they are read as arguments (`instr_plan.c` 415, 691). |
| `guarded.cfg`, `Layouts <- Deep` | `CheckGetsArguments` | An sp slot behind 4095 bytes is addressed with a register add, in which register 31 is xzr (`instr_plan.c` 463); the comment at 448 and `README.md` 32 promise any offset. |
| `guarded.cfg`, `PairLoad = {0, 1}` | `ContextIntact` | The flags come back through `ldp x8, x8`, whose result the architecture leaves open (`instr_plan.c` 422). |
| `placement.cfg`, `Codes <- SignedLiterals` | `MovedMeansSame` | A moved `ldrsw` of a literal becomes `ldr w` and loses the sign extension (`a64.c` 130-137, 417-423, `instr_plan.c` 80). |
| `placement.cfg`, `Codes <- VectorLiterals` | `MovedMeansSame` | A literal load into a vector register is not decoded, is copied as it is and loads other memory (`a64.c` 130-137). |
| `placement.cfg`, `FarBitTests = TRUE`, also with `INVARIANT RedirectsReach` | `MovedMeansSame`, `RedirectsReach` | For an out-of-range `tbnz` the encoder's 0 gets a bit set before it is tested, and passes as the word 0x01000000 (`a64.c` 620, `instr_plan.c` 352). |
| `placement.cfg`, `Race = TRUE` | `OverlapsNothing` | What another thread maps into the gap between the search and the `mmap` with MAP_FIXED is lost (`instr.c` 148). |

Found on the way:

- `mmap_near` never considers the room behind the last mapping below the upper end
  of its range (`instr.c` 116-142); `NearFindsRoom` claims room between two
  mappings only.
- `collect_external_fixups` is called with `caller_end` 0 for the entry
  (`instr_plan.c` 830), so the scan ends 64 KB behind the block. `mixed` uses
  layouts in which that is enough.
- Two guards that redirected each other's branches, removed oldest first, give
  back words that lead into the other's patch; guarding a block twice saves a
  patch as original code. `Reguard = FALSE` keeps the second out of the runs.
- A full table in the guard stage returns an error with the patch in place
  (`instr.c` 370). In `blocks`, where `FailedCallHarmless` is checked, the table
  has room for both guards.
- A branch a guard's trampoline replays is not redirected when a later guard
  covers its target (`instr_plan.c` 306-331 scans the code only). In the layout
  of `mixed` no replayed branch leads to another block.
- Removing the entry first leaves the guards with a snapshot nobody refreshes
  (`EntryFirst`); a refused removal leaves the branches restored and the patch in.
- A redirected branch leads to the start of the block even when it led to its
  second or third word, so words are executed again (`instr_plan.c` 337). The
  comment at 266-277 says so; `RedirectsReach` claims no more.
- `instr.h` 69 asks for 12 bytes of block, the trial plan for 16 (`README.md`
  189 says 12/16); `instr.h` 84 allows one snapshot guard per function,
  `README.md` 203 several.

## 6. Not modelled

- *ELF access*: parsing of a fixed format, with no state that changes.
- *The decoder and the bit patterns of the encoders*: tables of constants. What
  they answer is modelled where it matters: reaches, lengths, the `tbnz` bit,
  the dropped shift.
- `analysis_find_callsites`, a linear scan for calls that no public function
  uses; `analysis_locate_first_arg`, which returns the first element of
  `locate_args`; widths of accesses in the analysis.
- *Two callers at a time.* The library has no locking and asks for
  installation before the code runs (`README.md` 191); everything about the
  table would be lost.
- *Removal while a thread is in a trampoline.* `instr_unpatch` unmaps at once.
  The same sentence of the documentation is the only protection.
- Error texts, debug output, cache flushes, the demo, the tests and the tools.

## 7. Plan

In order of importance.

1. `GuardedRun` composed with `PatchEngine`, to say when a removal is safe.
2. Two callers at a time, to say precisely what the missing lock costs.
3. `RegistryMatchesCode` without `Independent`, for removals newest first.
4. `ArgFlow` and `GuardedRun` joined by a refinement: the layouts of the one are
   the places the other reports, so that `Sound` becomes a theorem.
