# TLA+ models of the ESESC out-of-order core

These TLA+ modules model the parts of the repository's source (`src/`) that hold concurrent or stateful control logic. They are checked with TLC:
- the out-of-order timing core (`OoOProcessor`);
- its replay and lock-detection machinery;
- the data outcome correlator of the load-branch predictor (`BPred.h`);
- the instrumentation helpers through which the RISC-V QEMU front end feeds instructions to the timing model (`op_helper.c`);
- the privileged-instruction helpers of the same file (`sret`, `mret`, `wfi`, `sfence.vma`, CSR access).

An abstract specification, `InOrderCommit`, states what the core promises: an in-order commit window. The core is checked to implement it.

`PROJECT.json` lists:
- every component;
- every run and the property each run checks;
- the mutants;
- the source lines each definition models;
- the findings;
- the hazards.

## 1. The system and how its parts interact

| Part | Source | What it does |
|------|--------|--------------|
| Pipeline engine | `OoOProcessor.cpp` (`fetch`, `advance_clock`, `addInst`, `retire`) and `OoOProcessor.h` | Each tick it fetches a bucket of decoded instructions into `pipeQ.pipeLine`. It moves one bucket to `pipeQ.instQueue` when `spaceInInstQueue >= FetchWidth`. It renames instructions via `GProcessor::issue` → `addInst`, in order: first the stall checks `ReplaysStall`, `SmallROBStall`, `SmallREGStall` and cluster `canIssue`, then register charge, serialization window countdown, `ROB.push`, RAT links and the RAT update. Finally it retires: the executed ROB head goes to `rROB`, then up to `RetireWidth` instructions leave `rROB`, returning their register and counting `nCommitted`. |
| Replay controller | `OoOProcessor::replay`, the `replayRecovering` branch of `advance_clock`, the serialization block of `addInst` | The memory system calls `replay(target)` for a load that read a stale value. This marks the load, raises `replayID` and starts recovery. Renaming of later ids stalls. When the replayed load retires, `flushing` is set, so later retirements are not counted. When ROB and rROB are empty, recovery ends. `serialize_level` moves with the distance between replays, and `serialize_for` opens a window of renames during which `replay()` is ignored. In that window `addInst` chains memory instructions with `addSrc3`: at level 0 each memory instruction after `last_serialized`; at level 1 a load after `last_serializedST` and a store after `last_serialized` (the last load). The retire loop resets both pointers when their instruction leaves. |
| Lock watchdog | `OoOProcessor::retire_lock_check`, `RetireState` | It runs periodically. It reports a lock when `nCommitted` did not change since the previous check. |
| Data outcome correlator (DOC) | `BPred.h`, `BPLdbp::outcome_doc`, `data_outcome_correlator` | A FIFO table of `DOC_SIZE` entries. Each entry has a tag and saturating taken / not-taken counters (limit 8). `doc_compute` turns the counters into a prediction. |
| Branch predictors | `BPred.h` class declarations | Only the declarations and `doPredict`/`update` are under `src/`. The algorithms are in `BPred.cpp`, which is not in `src/`. |
| RISC-V privileged helpers | `op_helper.c` (`helper_sret`, `helper_mret`, `helper_wfi`, `helper_tlb_flush`, `helper_csrrw/_csrrs/_csrrc`) | The emulator runs these for privileged instructions. They check the current privilege and the `mstatus` trap bits (TSR, TW, TVM), raise an exception (which does not return), or restore the interrupt-enable bit and the privilege from SPP/MPP. |
| QEMU helpers | `op_helper.c` (`helper_esesc_load/_ctrl/_alu`, `helper_esesc0`) | Every vCPU thread calls these helpers for each instruction. A global `icount` shared by all threads holds how many calls to skip. A call either consumes a skip (`icount>0` test, then `AtomicSub`) or queues the instruction with the timing model and adds the skip count it returns (`AtomicAdd`). `helper_esesc0` resets `icount` at the start of the region of interest. |
| LDBP triggering | `OoOProcessor.h` (`classify_table_entry`, `load_gen_table_entry`) and `OoOProcessor.cpp` (`retire`, `classify_ld_br_chain`, `generate_trigger_load`) under `ENABLE_LDBP` | At retire, the classify table (CT) follows each register back to the load it came from: `ct_load_hit` on a load, `ct_alu_hit` on an ALU op, with the load-immediate test. A branch classifies the chain of its sources (`ct_br_hit`) and trains the load generation table (LGT): on a hit `lgt_br_hit` learns the stride and confidence, on a miss the oldest entry is evicted and a fresh one is appended. A confident entry sends a prefetch (`generate_trigger_load`) to the DL1. The build compiles it only with the `#define` at `OoOProcessor.h:54`, which is commented out. |
| e500 platform, WaveSnap | `e500plat.c`, `wavesnap.h` | Board configuration and tracing. They have no control logic to check. |

How the parts interact:
- The emulator (QEMU through the helpers) supplies instructions to the core.
- The clusters (outside `src/`) issue renamed instructions once every instruction they were linked to (`addSrc1/2/3`) has executed, later complete them, and clear the RAT entry.
- The memory system calls `replay`.
- The watchdog reads `nCommitted`.

The DOC (predictor side) and LDBP (retire side) are two halves of the same load-branch extension, but they share no state under `src/`. `MC_LoadBranch` runs them side by side.

The simulator itself is single-threaded per core. Ticks, completions, replays and lock checks are events of one discrete-event loop, so the model interleaves them as separate atomic steps. The QEMU helpers are the exception: they run on real vCPU threads in parallel.

## 2. Modules

### `OoOCore.tla` — the pipeline engine, replay controller and watchdog

**State (`VARIABLES`) and the code it corresponds to:**

| Model | Code |
|-------|------|
| `nextId` | the emulator's next instruction id |
| `pipeLine`, `instQueue` | buckets, as sequences of sequences of ids |
| `spaceInInstQueue`, `busy`, `ROB`, `rROB` | the members of the same names |
| `RAT` | register → youngest un-executed producer id, 0 for none |
| `deps` | instructions linked by `addSrc1`/`addSrc2` and the serialization `addSrc3` |
| `issuedInsts` | ids the cluster has issued (`isIssued`) |
| `executed` | completed ids |
| `last_serialized`, `last_serializedST` | the members of the same names, as ids (0 for null) |
| `nTotalRegs`, `replayRecovering`, `flushing`, `replayID`, `lastReplay`, `serialize_level`, `serialize_for` | the members of the same names |
| `replayMarked` | `markReplay` |
| `nCommitted` | the stat counter |
| `lastState` | `last_state.committed` |
| `throttling_cntr` | `GProcessor::throttling_cntr`; its start value is set outside `src/`, so `ThrottleCntrInit` lists the values it may take |

History variables used only by properties:
- `commitHigh`: the youngest id counted as committed;
- `lastStall`, `smallROBAt`: the last stall cause and the occupancy at the last `SmallROBStall`;
- `lockDetected`, `retiredSinceCheck`, `progressAtCheck`;
- `serialLevel[d]`: the level at which `d` was serialized in a window, -1 if it was not;
- `skippedTicks`, `gapAtWork`: the throttled ticks since the last working tick, and their number when that tick came.

**Actions:**
- `TickRecovering` is `advance_clock` while a recovery has not drained: fetch, ID stage, then `retire()`.
- `TickRun` is every other path of `advance_clock`:
  - it ends a drained recovery (`syncHeadTail`, the `serialize_level` update, `lastReplay`);
  - it issues through `IssueLoop`, a RECURSIVE model of `GProcessor::issue` that calls `AddInst` until a stall or `IssueWidth` renames;
  - it retires (`RetireStep`), or goes idle when nothing is queued or in flight.

  A tick on an idle core changes nothing and is a stutter.
- `ThrottlePass` is the throttle test (lines 207-216). Both tick actions pass it: without throttling it is a no-op; with throttling the counter must reach `skip`, and it is then reset to 1.
- `TickThrottled` is a busy tick that returns at the throttle test: fetch has run, the counter is incremented, and nothing else moves.
- `Issue(d)` is the cluster issuing `d` once its linked instructions have executed; `Execute(d)` is its completion.
- `Replay(target)` is `OoOProcessor::replay`. Its early returns on `serialize_for` and `!MemoryReplay` are guards.
- `RetireLockCheck` is `retire_lock_check`.

Every handler is one action, with all of its nested calls: fetch, ID stage, rename, retire and recovery happen in one tick step. Choices the collaborators make are enumerated with `\E`:
- how many instructions the emulator fetches;
- how many instructions the cluster accepts (`ClusterStall`);
- how far `preretire` and the rROB `retire`/`RetireDelay` checks let retirement go. While flushing, every executed head must be accepted (`GI(flushing && isExecuted, done)`).

**Abstractions:**
- Data (pcs, addresses, opcodes) is reduced to a static record per instruction: destination register, source registers, load, store, and statistics flag.
- `isSrc3Ready()` of a freshly renamed instruction is taken to be true.
- The constant `scooreMemory` selects the SCOORE or the tradcore branch of the serialization block. The model assumes `2 * ForwardProgThreshold >= N`: then two replays never lie far enough apart to reset the level to 3, so the level is at most 1 inside a window and the level-2 branch (same-register chains through `serializeRAT`, lines 420-446) never runs. That branch is not modelled.
- Flushed instructions drain and are dropped. Their re-fetch by the emulator (`reexecuteTail`, `syncHeadTail`) is not replayed with the same ids.
- All statistics sampling is left out. The constants `Throttling` (`throttlingRatio > 1`) and `ThrottleSkip` (`ceil(throttlingRatio / getTurboRatio())`) stand for the throttle's configuration.

**Refinement.** `InOrder == INSTANCE InOrderCommit WITH Capacity <- MaxROBSize, renamed <- Renamed, retired <- Retired, done <- executed` maps the core onto the abstract window. `Renamed` is the set of fetched ids no longer queued, and `Retired` is the renamed ids that left ROB and rROB. `InOrderCommitSpec == InOrder!Spec` is checked as a temporal property. A tick is one abstract `Cycle`, a completion is `Complete`, and issue, replay and lock checks are stutters.

### `InOrderCommit.tla` — what the core promises

This is the abstract specification (spec.md sections 4 and 7). Instructions 1..N enter a window in program order and complete in any order. They leave the window strictly in program order, each only after it completed, and at most `Capacity` are in the window. The state is three sets: `renamed`, `retired`, `done`. `Cycle` renames a further prefix and retires a completed prefix, and `Complete(d)` completes a window member.

### `RISCVPriv.tla` — the privileged helpers of `op_helper.c`

**State:**
- `priv`;
- the `mstatus` fields the helpers read or write: the interrupt-enable bits as `ie[p]` (`MSTATUS_UIE << p`), SPIE, MPIE, SPP, MPP, TSR, TW, TVM;
- the low bits of `sepc` and `mepc`;
- the per-hart constants `PrivVer110` and `HasRVC`;
- history: `initPriv`, `lastOutcome`, `csrFailModes`.

`Init` allows any privilege and any `mstatus` contents that earlier traps and CSR writes may have left.

**Actions:** `helper_sret`, `helper_mret`, `helper_wfi`, `helper_tlb_flush`, and `helper_csr(op, fails)` for the three CSR helpers. `riscv_raise_exception` does not return, so each check that raises is one `CASE` arm, in the code's order, that records the outcome and changes nothing else (`Raise`). The CSR file behind `riscv_csrrw` (`csr.c`) is abstracted to whether the access fails; the constant `CONFIG_ESESC` selects the timing-model build.

### `BPredDOC.tla` — the data outcome correlator

**State:**
- `doc_table`: a sequence of `[tag, taken, ntaken]`;
- `lastTag`, `lastPred`: the last call and its result.

**Actions:** `OutcomeDocHit` and `OutcomeDocMiss` are the two paths of `outcome_doc`.

**Pure operators:**
- `update_doc` and `UpdateCounters` translate the code.
- `doc_compute` translates the code. Its C integer division `1/3` is kept as the numerator `1 \div 3` = 0. The comparison with the double `m` is done by cross-multiplication.
- `DocComputeRef` is the reference definition with the intended threshold of one third. It is checked against `doc_compute` over every counter pair the table reaches.

### `LDBP.tla` — the retire-side load-branch chain classifier

**State:**
- `ct_table`: one entry per register, with `ldpc`, `ld_addr`, `dep_depth`, `ldbr_type`, `is_li`, `valid` and `complex_br_set`;
- `lgt_table`: a sequence of `LGT_SIZE` entries `[ldpc, brpc, start_addr, ld_delta, ld_conf, ldbr_type]`;
- `trigger`: the last request `generate_trigger_load` sent to the DL1;
- `lastTrain`: history only. It holds the address each (load, branch) pair was last trained with, so that the stride property can be stated.

**Actions:** one per kind of retired instruction, each the whole `retire` block:
- `RetireLoad(r, pc, a)`: `ct_load_hit` on the destination register;
- `RetireALU(r, s1, s2)`: `ct_alu_hit`, with the load-immediate test of line 791;
- `RetireBranch(pc, s1, s2)`: `ct_br_hit` on both sources, then one or two calls of `classify_ld_br_chain`, as lines 816-831 order them.

**Pure operators:**
- `classify_ld_br_chain` is the early return on `reg_flag`/`complex_br_set`, the search `LgtHits`, and `Train`: hit → `lgt_br_hit`, miss → erase the head, push a fresh entry, `lgt_br_miss`.
- `generate_trigger_load` becomes a record; the DL1 calls it makes are outside `src/`.

Addresses are taken modulo `AddrMod`, as the `uint64` subtraction `ld_addr - start_addr` is modulo 2^64. The fields the code never reads outside `#if 0` (`simple`, `ldbr_set`, `prev_delta`, the `ldbp_*` registers) are left out.

### `MC_LoadBranch.tla`

Composes `LDBP` (registers `x1`, `x2` and the zero register, one load PC, three branch PCs) with `BPredDOC`. Retires and `outcome_doc` calls interleave. `retired` bounds the stream at `MaxRetired`. Registers and branch PCs are symmetric.

### `ESESCHelpers.tla` — `icount` in `op_helper.c`

**State:**
- `icount`;
- a program counter per vCPU thread;
- the number of helper calls per thread;
- the history counters `granted` (skip counts returned by the timing model) and `skipped`.

**Actions:**
- `HelperEnter` is the `icount > 0` test.
- `HelperSkip` is `AtomicSub`.
- `HelperQueue(t, k)` is `AtomicAdd` of a returned count `k`.
- `HelperFinish` is the `pc == target` path of `helper_esesc_ctrl`.
- `HelperStartROI` is `helper_esesc0`.

The test and the decrement are separate actions because they are separate steps in the code.

### `MC_OoOCore.tla`

This module fixes the instruction streams for TLC.

`MCProg` has six instructions over two registers:
- a RAW chain 1→2→4→5;
- a store 3 that reads both registers while both producers can still be pending;
- a WAW on r2 (2 and 4);
- loads 1, 4 and 5, which can be replayed;
- a store 6 with no source, so only the serialization chain orders it after 5 in the level-0 window opened by a replay of 4;
- instruction 1 has statistics off.

`MCProgLive` has four instructions and is used for the liveness run. `MCProgSerial` (loads 1 and 2, stores 3 and 4, load 5) lets a level-1 window hold two stores.

## 3. Runs

| Run | Config | Expect | What it shows |
|-----|--------|--------|---------------|
| `ooo_safety` | `MC_OoOCore.cfg` | pass | Over every interleaving of ticks, completions, replays and lock checks:<br>• the register budget is conserved (`RegBudgetConserved`);<br>• each RAT entry names the youngest un-executed producer (`RATTracksYoungestProducer`);<br>• no instruction executes before the youngest older writer of a source (`DataDependenceRespected`);<br>• nothing at or after a replay target is counted as committed (`ReplayFlushesTail`);<br>• `serialize_level` stays in 0..3 (`TypeOK`);<br>• memory instructions serialized at level 0 issue in program order (`SerializedMemoryOrder`);<br>• `last_serialized`/`_ST` only name instructions still in ROB or rROB (`SerializedPointersLive`);<br>• the core implements `InOrderCommit` (`InOrderCommitSpec`). |
| `ooo_liveness` | `MC_OoOCore_live.cfg` | pass | With the core throttled (skip 3), every recovery completes (`RecoveryCompletes`), and every renamed instruction retires (`RenamedEventuallyRetires`). |
| `ooo_rob_capacity` | `MC_OoOCore_ROBHoldsMaxROBSize.cfg` | violation | `SmallROBStall` is reported with only `MaxROBSize-1` instructions in flight. |
| `ooo_lock_check` | `MC_OoOCore_LockOnlyWithoutProgress.cfg` | violation | A lock is reported after an interval in which an instruction retired with statistics off. |
| `load_branch` | `MC_LoadBranch.cfg` | pass | Over every interleaving of up to six retires with `outcome_doc` calls:<br>• the DOC counters stay in 0..8 and the table at `DOC_SIZE` (`DocTypeOK`);<br>• the CT and the LGT stay well formed, and the LGT stays at `LGT_SIZE` (`LdbpTypeOK`);<br>• the LGT never holds two entries for one (load, branch) pair, across evictions and re-insertions (`LGTKeysUnique`);<br>• every prefetch uses the stride between the last two trainings of its pair (`PrefetchStrideObserved`);<br>• no LGT entry ever holds chain class 7 or 9 (`LGTNeverLearnsClass7or9`). This is a spec gap: the `classify_table_entry` comment lists those classes, but `ct_br_hit` clears `complex_br_set` whenever it assigns them, and `classify_ld_br_chain` then returns before the LGT. |
| `doc_tag` | `BPredDOC_DocRemembersTag.cfg` | violation | A missed tag is lost: the new entry's tag becomes 0. |
| `doc_compute` | `BPredDOC_DocComputeMatchesReference.cfg` | violation | `doc_compute` never predicts. After one update (taken 0, ntaken 1), `m` is 1/3: the reference predicts not-taken, and the code returns 0 (no prediction). |
| `helpers_race` | `ESESCHelpers_SkipsWithinGranted.cfg` | violation | A call's `icount > 0` test and its `AtomicSub` are two steps, and anything that lowers `icount` between them drives it below 0. TLC's shortest trace (6 states): t1 queues and is granted one skip, t1's next call sees `icount = 1`, t2's `helper_esesc0` resets `icount` to 0 with a plain store, and t1's `AtomicSub` leaves -1. The other race, both vCPUs passing the test on the last skip, reaches the same state one step later, so breadth-first search reports the reset. |
| `ooo_throttle` | `MC_OoOCore_ThrottleHonoursRatio.cfg` | violation | With `throttlingRatio` 2 (skip 2), two working ticks follow each other (`ThrottleHonoursRatio`). After a working tick, `throttling_cntr` is reset to 1, not 0, so the next busy tick reaches `skip` at once. A throttled core works every `skip - 1` ticks, and a ratio of 2 does not throttle at all. |
| `ooo_serial_stores` | `MC_OoOCore_StoresSerializedAtLevel1.cfg` | violation | After a replay of load 1 with load 2 in flight, the level-1 window renames stores 3 and 4. Store 4 is chained after `last_serialized` (no load yet), not after store 3, and issues first. Spec section 4.3 and the comment at `OoOProcessor.cpp:406` say level 1 serializes stores. |
| `riscv_priv` | `RISCVPriv.cfg` | pass | From any privilege and `mstatus`, no sequence of the helpers raises the privilege (`PrivilegeNeverEscalates`): `sret` and `mret` only lower it to SPP/MPP, from a mode at least S or M. |
| `riscv_csr_fail` | `RISCVPriv_CsrFailureHandledAlike.cfg` | violation | Under `CONFIG_ESESC` a rejected CSR access returns 0 from `csrrw` and `csrrs` but raises an illegal-instruction exception from `csrrc`. |

Every property of a passing run has a mutant in `PROJECT.json`. The mutant is a plausible bug in the modelled code, written as an operator beside the definition it replaces, and TLC finds the property violated when the mutant is used:
- the `if(serialize_level)` guard dropped;
- the `nTotalRegs <= 0` check dropped;
- RAT cleared unconditionally on completion;
- only one source linked;
- a replayed load counted before `flushing` is set;
- recovery waiting also for an empty `instQueue`;
- `preretire` stopping one instruction short;
- the counters saturating one step late;
- the serialization `addSrc3` dropped, as the tradcore branch has it (FIXME at `OoOProcessor.cpp:386`);
- the retire loop not resetting `last_serialized`;
- `preretire` accepting as many heads as there are executed entries, in any order (breaks the refinement);
- `sret` without its privilege check;
- the LGT miss path pushing without erasing the head;
- the LGT search skipping its last entry;
- `lgt_br_hit` updating `start_addr` before it takes the delta;
- `classify_ld_br_chain` gating on `reg_flag == 3` instead of 4.

The tradcore branch itself (`scooreMemory = FALSE`) is modelled. Every window it opens orders nothing, exactly like the `ChainDropped` mutant, so `SerializedMemoryOrder` fails on that build.

## 4. Bounds and why they suffice

- **`MC_OoOCore.cfg`** uses:
  - `MaxROBSize = 5`, so 4 instructions can be in flight;
  - `NTotalRegs = 2`, `FetchWidth = IssueWidth = RetireWidth = 2`, `InstQueueSize = 2`, `PipeDepth = 2`;
  - `Serialize = 2`, `ForwardProgThreshold = 4`, SCOORE memory.

  With these values:
  - the register budget binds before the ROB does, so `SmallREGStall` happens;
  - two renames and two retirements happen in one tick;
  - the WAW pair and the two-source store can both be renamed while their producers are pending;
  - three replays (of loads 1, 4 and 5) each come close to the previous one, which drives `serialize_level` 2 → 1 → 0 → the guarded decrement at 0;
  - a window of two renames after the second replay holds loads and stores at level 0 (5 and 6), and one after the first replay holds a store and a load at level 1, so both chain kinds are made while their target is still unissued.

  In the code, `ForwardProgThreshold` is 200 instruction ids; here it is scaled to the six-id stream.
- **The level-1 config** runs `MCProgSerial` with `Serialize = 2` and `ForwardProgThreshold = 3`.
- **The ROB and lock configs** use `ForwardProgThreshold = 3` so that the assumption `2 * ForwardProgThreshold >= N` holds.
- **RISCVPriv** enumerates every initial privilege and `mstatus` combination, both `PrivVer110` and `HasRVC`, with a failing and a succeeding CSR access of each kind.
- **The ROB violation config** uses `MaxROBSize = 4` and `NTotalRegs = 3`, so the ROB check is reached first.
- **The liveness config** uses four instructions (load, consumer, WAW load, store) with `MaxROBSize = 4` and `ForwardProgThreshold = 2`. The liveness graph of the six-instruction model is too large for a run of a few minutes. It throttles the core with `ThrottleSkip = 3` and a start counter of 0 or 1, so every run of throttled ticks the code allows (0 or 1 between working ticks) happens.
- **The throttle violation config** uses the same stream without replays and `ThrottleSkip = 2`, the smallest skip that throttles. The other OoOCore configs run unthrottled.
- **`MC_LoadBranch.cfg`** uses:
  - `MaxRetired = 6` retired instructions;
  - `LGT_SIZE = 2` (128 in the code), with three branch PCs, so a live LGT entry is evicted and its pair re-inserted within six retires;
  - `AddrMod = 2`, which keeps the zero and the non-zero stride apart;
  - `LdConfThreshold = 0` (15 in the code), so a trigger with a non-zero stride happens within the bound;
  - `MaxConf = 2` caps the confidence counter;
  - `DOC_SIZE = 1`, tags {0}. Calls with tag 0 hit the entry repeatedly, so the counters reach saturation (8) and wrap around the saturation branch.
- **The DOC violation configs** use `DOC_SIZE = 2` and tags {0, 1, 2}, where 0 is the empty tag.
- **The helpers** use `MaxSkip = 2` with 3 calls per thread for two threads.

## 5. Fairness

`FairSpec` assumes three things:
1. Weak fairness of cluster execution: a ready instruction eventually executes. The clusters schedule every ready instruction.
2. Weak fairness of ticking: the event loop calls `advance_clock` every cycle while the core is active. A tick works or is throttled, so the fair action is `TickRun \/ TickRecovering \/ TickThrottled`. The throttle lets a tick through after at most `skip - 1` throttled ones.
3. Strong fairness of retirement progress. Retirement is a choice in the model because `preretire`, cluster `retire` and `RetireDelay` depend on time. In the code these conditions become true once enough cycles pass after execution, and stay true, so a retirement that is possible infinitely often happens.

Issue is fair together with execution, since the cluster issues every instruction whose links have executed. Replays and lock checks are not fair: they may never happen. The QEMU helpers, the privileged helpers, the DOC and LDBP are checked for safety only.

## 6. What is not modelled, and why

- **Level-2 serialization** (`serializeRAT`, lines 420-446). It is unreachable under the model's assumption `2 * ForwardProgThreshold >= N`. Its entries are cleared through `DInst::setSerializeEntry`, which is outside `src/`.
- **Completion order inside a window.** A chain is skipped when `last_serialized` has already issued, so serialization orders issue only. The model checks issue order.
- **The `isSrc2Ready()==false` path of `addInst`.** It depends on DInst state set outside `src/`.
- **Branch predictor algorithms.** They are not under `src/`.
- **LDBP timing.** The load-latency window (`num_mem_lat`, `mem_lat_vec`, `max_mem_lat`) and the ROB scan for in-flight branches only shift the prefetch address offsets. The DL1 side (`fill_bot_retire`, `triggerReqRead`) is outside `src/`. The window is tumbling, not sliding: on the 10th load it is cleared, so `max_mem_lat` can forget a long latency seen one load before. This is listed as a hazard without a property.
- **LDBP details not checked.** CT entries are never invalidated, so a register written by an instruction that is neither a load nor an ALU op keeps its old chain. The confidence halving keeps a trigger firing for a while after the stride changes. Both are design choices, and no property is stated on them.
- **The stale `is_li` of `ct_load_hit`.** The `classify_table_entry();` at `OoOProcessor.h:188` builds a temporary instead of resetting the entry. The model keeps this, and it is listed as a hazard. It has no violation run: that code is compiled only with `ENABLE_LDBP`.
- **The single-vCPU helpers.** The run cap is spent on the race: with one vCPU, no other call can fall between a call's `icount > 0` test and its `AtomicSub`.
- **e500 platform and WaveSnap.** `e500plat.c` is static board configuration. `wavesnap.h` holds only declarations; the implementation is not in the repository.
- **The CSR file** (`riscv_csrrw` in `csr.c`). It is outside the helpers; only whether an access fails is modelled. The trap entry that raises the privilege (`riscv_cpu_do_interrupt`) is not in `op_helper.c`.

## 7. Next steps

1. Model `BPred::doPredict`'s hit and miss accounting together with the DOC.
2. Model the trap entry together with `RISCVPriv`, so that the privilege can rise through an exception and fall through `xRET`.
3. Check the DOC and LDBP halves together with the branch outcome once `BPLdbp::predict` is under `src/`.
4. Check liveness of the serialization window: every window closes, and replays are accepted again.
