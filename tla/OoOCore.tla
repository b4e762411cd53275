------------------------------ MODULE OoOCore ------------------------------
(***************************************************************************)
(* The timing core of one out-of-order processor, OoOProcessor in          *)
(* src/simu/libcore/OoOProcessor.cpp: the per-tick handler advance_clock   *)
(* (fetch, ID stage, replay recovery, issue/addInst, retire), the replay   *)
(* request from the memory system, and the periodic lock check.           *)
(*                                                                         *)
(* Instructions are identified by their DInst sequence id; id d is the    *)
(* d-th instruction the emulator supplies and its static part is Prog[d]. *)
(* The collaborators outside src/ (Pipeline buckets, GProcessor::issue,   *)
(* the cluster scheduler that executes instructions and clears RAT        *)
(* entries) are modelled from the spec and marked so in PROJECT.json.     *)
(***************************************************************************)
EXTENDS Integers, Sequences, FiniteSets, FiniteSetsExt

CONSTANTS
  Regs,                 \* architectural registers that carry dependences
  NoReg,                \* LREG_InvalidOutput: the instruction writes no register
  Prog,                 \* Prog[d] = [dst, src, load, store, stats] of instruction d
  MaxROBSize,           \* configuration "robSize"
  PipeDepth,            \* buckets the fetch pipeline can hold (pipeLine + instQueue)
  InstQueueSize,        \* configuration "instQueueSize"
  FetchWidth,
  IssueWidth,
  RetireWidth,
  NTotalRegs,           \* configuration "nTotalRegs"
  Serialize,            \* configuration "serialize": window length after a close replay
  ForwardProgThreshold, \* forwardProg_threshold (200 in the code, scaled to the id range)
  MemoryReplay,         \* configuration "MemoryReplay"
  scooreMemory,         \* the memory system is SCOORE (else tradcore)
  Throttling,           \* throttlingRatio > 1
  ThrottleSkip,         \* skip = ceil(throttlingRatio / getTurboRatio())
  ThrottleCntrInit      \* values throttling_cntr may hold when the core starts

N   == Len(Prog)
Ids == 1..N

ASSUME /\ NoReg \notin Regs
       /\ \A d \in Ids : Prog[d].dst \in Regs \cup {NoReg} /\ Prog[d].src \subseteq Regs
       /\ MaxROBSize \in Nat /\ NTotalRegs \in Nat /\ Serialize \in Nat
       /\ {FetchWidth, IssueWidth, RetireWidth, PipeDepth} \subseteq Nat \ {0}
       /\ InstQueueSize >= FetchWidth
       /\ MemoryReplay \in BOOLEAN /\ scooreMemory \in BOOLEAN
       /\ Throttling \in BOOLEAN /\ ThrottleSkip \in Nat \ {0}
       /\ ThrottleCntrInit \subseteq 0..ThrottleSkip
       \* Replays never lie 2 * threshold ids apart, so the level is never
       \* reset to 3 and the same-register chains of level 2 never run.
       /\ 2 * ForwardProgThreshold >= N

Dst(d)    == Prog[d].dst
HasDst(d) == Dst(d) # NoReg
IsMemory(d) == Prog[d].load \/ Prog[d].store

StallCauses == {"NoStall", "ReplaysStall", "SmallROBStall", "SmallREGStall", "ClusterStall"}

VARIABLES
  nextId,           \* emulator: id of the next instruction it will supply
  pipeLine,         \* pipeQ.pipeLine: fetched buckets not yet in the instQueue
  instQueue,        \* pipeQ.instQueue: buckets waiting for rename
  spaceInInstQueue,
  busy,
  ROB, rROB,
  RAT,              \* RAT[r] = youngest un-executed producer of r, 0 = none
  deps,             \* deps[d] = producers d was linked to at rename (addSrc1/addSrc2)
  issuedInsts,      \* ids the cluster has issued to a functional unit
  executed,         \* ids whose execution completed
  nTotalRegs,
  replayRecovering, flushing, replayID, lastReplay,
  serialize_level, serialize_for,
  last_serialized, last_serializedST,
  serialLevel,      \* serialLevel[d]: level d was serialized at, -1 if not (history)
  replayMarked,     \* ids marked by replay() during the current recovery
  nCommitted,       \* committed instructions counted (stats on, not flushing)
  commitHigh,       \* youngest id retired while not flushing (history)
  lastStall,        \* stall cause of the last addInst call
  smallROBAt,       \* ROB+rROB occupancy at the last SmallROBStall, -1 if none
  lastState,        \* last_state.committed of retire_lock_check
  lockDetected,     \* the last retire_lock_check reported a lock
  retiredSinceCheck,\* some instruction left rROB since the last lock check (history)
  progressAtCheck,  \* value of retiredSinceCheck seen by the last lock check (history)
  throttling_cntr,  \* GProcessor::throttling_cntr
  skippedTicks,     \* busy ticks throttled since the last working tick (history)
  gapAtWork         \* skippedTicks seen by the last working tick (history)

vars == <<nextId, pipeLine, instQueue, spaceInInstQueue, busy, ROB, rROB, RAT,
          deps, issuedInsts, executed, nTotalRegs, replayRecovering, flushing, replayID,
          lastReplay, serialize_level, serialize_for, last_serialized,
          last_serializedST, serialLevel, replayMarked, nCommitted,
          commitHigh, lastStall, smallROBAt, lastState, lockDetected,
          retiredSinceCheck, progressAtCheck, throttling_cntr, skippedTicks,
          gapAtWork>>

throttleVars == <<throttling_cntr, skippedTicks, gapAtWork>>

SeqSet(s)  == {s[i] : i \in DOMAIN s}
InFlight   == SeqSet(ROB) \cup SeqSet(rROB)
Queued     == UNION {SeqSet(b) : b \in SeqSet(pipeLine) \cup SeqSet(instQueue)}
Renamed    == {d \in Ids : d < nextId /\ d \notin Queued}
Retired    == Renamed \ InFlight

-----------------------------------------------------------------------------
(* Constructor OoOProcessor::OoOProcessor.                                 *)
Init ==
  /\ nextId = 1
  /\ pipeLine = <<>> /\ instQueue = <<>>
  /\ spaceInInstQueue = InstQueueSize
  /\ busy = FALSE
  /\ ROB = <<>> /\ rROB = <<>>
  /\ RAT = [r \in Regs |-> 0]
  /\ deps = [d \in Ids |-> {}]
  /\ issuedInsts = {} /\ executed = {}
  /\ nTotalRegs = NTotalRegs
  /\ replayRecovering = FALSE /\ flushing = FALSE
  /\ replayID = 0 /\ lastReplay = 0
  /\ serialize_level = 2 /\ serialize_for = 0
  /\ last_serialized = 0 /\ last_serializedST = 0
  /\ serialLevel = [d \in Ids |-> -1]
  /\ replayMarked = {}
  /\ nCommitted = 0 /\ commitHigh = 0
  /\ lastStall = "NoStall" /\ smallROBAt = -1
  /\ lastState = 0 /\ lockDetected = FALSE
  /\ retiredSinceCheck = FALSE /\ progressAtCheck = FALSE
  /\ throttling_cntr \in ThrottleCntrInit
  \* No working tick yet: the first one is not held to a gap.
  /\ skippedTicks = ThrottleSkip - 1 /\ gapAtWork = ThrottleSkip - 1
-----------------------------------------------------------------------------
(***************************************************************************)
(* addInst: rename one instruction.  The tick's working state is a record *)
(* s with fields rob, rrob, rat, deps, regs, sfor, rec, rid, iq, issued,   *)
(* sc, robAt, lvl (serialize_level), ls, lst (last_serialized, _ST) and    *)
(* slev (serialLevel).                                                     *)
(***************************************************************************)

(* The early returns of addInst, in the order the code tests them.         *)
(* Mutant: the SmallREGStall check dropped.                               *)
AddInstStallNoRegCheck(s, d, clusterOK) ==
  CASE s.rec /\ d > s.rid                         -> "ReplaysStall"
    [] Len(s.rob) + Len(s.rrob) >= MaxROBSize - 1 -> "SmallROBStall"
    [] ~clusterOK                                 -> "ClusterStall"
    [] OTHER                                      -> "NoStall"

AddInstStall(s, d, clusterOK) ==
  CASE s.rec /\ d > s.rid                         -> "ReplaysStall"
    [] Len(s.rob) + Len(s.rrob) >= MaxROBSize - 1 -> "SmallROBStall"
    [] s.regs <= 0                                -> "SmallREGStall"
    [] ~clusterOK                                 -> "ClusterStall"
    [] OTHER                                      -> "NoStall"

(* Mutant: only one source is linked to its producer.                    *)
RenameDepsOneSrc(rat, d) ==
  IF Prog[d].src = {} THEN {}
  ELSE {rat[CHOOSE r \in Prog[d].src : TRUE]} \ {0}

(* The producers a renamed instruction waits for: RAT[src1] and RAT[src2]. *)
RenameDeps(rat, d) == {rat[r] : r \in Prog[d].src} \ {0}

(* Mutant: the addSrc3 call commented out, as in the tradcore branch.    *)
ChainDropped(s, prev, d) == s

(* prev->addSrc3(dinst) unless prev is gone (0) or already issued: d then  *)
(* waits for prev to execute.                                              *)
Chain(s, prev, d) ==
  IF prev # 0 /\ prev \notin issuedInsts
  THEN [s EXCEPT !.deps[d] = @ \cup {prev}] ELSE s

(* The memory-order chain of a memory instruction renamed inside the      *)
(* serialization window.  tradcore only remembers it (its addSrc3 is      *)
(* commented out, FIXME); SCOORE at level 0 chains every memory operation *)
(* after the previous one; at level 1 a load after the last store and a   *)
(* store after the last load.  isSrc3Ready holds for a fresh instruction. *)
SerializeMemory(s, d) ==
  LET h == [s EXCEPT !.slev[d] = s.lvl]
  IN  CASE ~IsMemory(d)                   -> s
        [] ~scooreMemory                  -> [h EXCEPT !.ls = d]
        [] s.lvl = 0                      -> [Chain(h, s.ls, d) EXCEPT !.ls = d]
        [] s.lvl = 1 /\ Prog[d].load      -> [Chain(h, s.lst, d) EXCEPT !.ls = d]
        [] s.lvl = 1 /\ Prog[d].store     -> [Chain(h, s.ls, d) EXCEPT !.lst = d]
        [] OTHER                          -> s

(* if(serialize_for > 0 && !replayRecovering): count the window down.     *)
Serialization(s, d) ==
  IF s.sfor > 0 /\ ~s.rec
  THEN SerializeMemory([s EXCEPT !.sfor = @ - 1], d)
  ELSE s

(* The rest of addInst once no stall was found: charge a register, the    *)
(* serialization window, push on the ROB, link the sources to their       *)
(* producers and make d the producer of its destination.                  *)
AddInstInsert(s, d) ==
  LET t == Serialization(s, d)
  IN  [t EXCEPT !.regs = IF HasDst(d) THEN @ - 1 ELSE @,
                !.rob  = Append(@, d),
                !.deps = [@ EXCEPT ![d] = @ \cup RenameDeps(s.rat, d)],
                !.rat  = IF HasDst(d) THEN [@ EXCEPT ![Dst(d)] = d] ELSE @]

AddInst(s, d, clusterOK) ==
  LET sc == AddInstStall(s, d, clusterOK)
  IN  IF sc = "NoStall"
      THEN [AddInstInsert(s, d) EXCEPT !.sc = sc]
      ELSE [s EXCEPT !.sc = sc,
                     !.robAt = IF sc = "SmallROBStall"
                               THEN Len(s.rob) + Len(s.rrob) ELSE @]

(* Remove the renamed instruction from the head bucket of the instQueue.  *)
PopInst(iq) ==
  IF Len(Head(iq)) = 1 THEN Tail(iq) ELSE <<Tail(Head(iq))>> \o Tail(iq)

(* GProcessor::issue: call addInst on the instQueue in order until a stall *)
(* or IssueWidth renames; the cluster accepts the first acc of them.      *)
RECURSIVE IssueLoop(_, _, _)
IssueLoop(s, width, acc) ==
  IF s.iq = <<>> \/ width = 0 THEN s
  ELSE LET t == AddInst(s, Head(Head(s.iq)), acc > 0)
       IN  IF t.sc # "NoStall" THEN t
           ELSE IssueLoop([t EXCEPT !.iq = PopInst(@), !.issued = @ + 1],
                          width - 1, acc - 1)

-----------------------------------------------------------------------------
(***************************************************************************)
(* retire(): move the executed head of the ROB to rROB, then retire up to *)
(* RetireWidth instructions from the head of rROB.  preretire reports     *)
(* done only for executed instructions, and must for all of them while    *)
(* flushing (GI(flushing && isExecuted, done)); cluster->retire and the   *)
(* RetireDelay check may stop the second loop at any point.               *)
(***************************************************************************)
(* Mutant: preretire accepts as many heads as there are executed entries, *)
(* executed or not.                                                      *)
ExecutedPrefixCount(rob) ==
  Cardinality({i \in 1..Len(rob) : rob[i] \in executed})

(* Mutant: preretire stops one instruction short of the executed prefix. *)
ExecutedPrefixShort(rob) ==
  LET k == Max({k \in 0..Len(rob) : \A i \in 1..k : rob[i] \in executed})
  IN  IF k > 0 THEN k - 1 ELSE 0

ExecutedPrefix(rob) ==
  Max({k \in 0..Len(rob) : \A i \in 1..k : rob[i] \in executed})

PreretireChoices(s) ==
  IF s.flushing THEN {ExecutedPrefix(s.rob)} ELSE 0..ExecutedPrefix(s.rob)

(* Mutant: retire leaves last_serialized pointing at a retired dinst.    *)
ClearSerializedNever(p, out) == p

(* if(last_serialized == dinst) last_serialized = 0, for each retired one. *)
ClearSerialized(p, out) == IF p \in SeqSet(out) THEN 0 ELSE p

(* Mutant: an instruction is counted before its replay mark sets flushing.*)
RetireStepCountFirst(s, nPre, nRet) ==
  LET rr  == s.rrob \o SubSeq(s.rob, 1, nPre)
      out == SubSeq(rr, 1, nRet)
      FlushingAt(i) == s.flushing \/ \E j \in 1..(i - 1) : out[j] \in replayMarked
      counted == {i \in 1..nRet : ~FlushingAt(i)}
  IN  [s EXCEPT !.rob  = SubSeq(@, nPre + 1, Len(@)),
                !.rrob = SubSeq(rr, nRet + 1, Len(rr)),
                !.flushing = FlushingAt(nRet + 1),
                !.ncom = @ + Cardinality({i \in counted : Prog[out[i]].stats}),
                !.high = IF counted = {} THEN @ ELSE out[Max(counted)],
                !.regs = @ + Cardinality({i \in 1..nRet : HasDst(out[i])}),
                !.ls   = ClearSerialized(@, out),
                !.lst  = ClearSerialized(@, out),
                !.retiredAny = @ \/ nRet > 0]

(* Retire nRet instructions from rr: a replay-marked instruction sets     *)
(* flushing before it is counted, and every later one retires flushing.   *)
RetireStep(s, nPre, nRet) ==
  LET rr  == s.rrob \o SubSeq(s.rob, 1, nPre)
      out == SubSeq(rr, 1, nRet)
      FlushingAt(i) == s.flushing \/ \E j \in 1..i : out[j] \in replayMarked
      counted == {i \in 1..nRet : ~FlushingAt(i)}
  IN  [s EXCEPT !.rob  = SubSeq(@, nPre + 1, Len(@)),
                !.rrob = SubSeq(rr, nRet + 1, Len(rr)),
                !.flushing = FlushingAt(nRet),
                !.ncom = @ + Cardinality({i \in counted : Prog[out[i]].stats}),
                !.high = IF counted = {} THEN @ ELSE out[Max(counted)],
                !.regs = @ + Cardinality({i \in 1..nRet : HasDst(out[i])}),
                !.ls   = ClearSerialized(@, out),
                !.lst  = ClearSerialized(@, out),
                !.retiredAny = @ \/ nRet > 0]

RetireChoices(s) ==
  {<<p, r>> \in PreretireChoices(s) \X (0..RetireWidth) :
      r <= Len(s.rrob) + p}

-----------------------------------------------------------------------------
(***************************************************************************)
(* advance_clock, split by the path the handler takes.  Every path first  *)
(* calls fetch() and, since fetching sets busy, the ID stage.  A tick on   *)
(* an idle core (busy = FALSE and nothing fetched) changes nothing and is  *)
(* a stuttering step.                                                      *)
(***************************************************************************)

(* fetch(): a new bucket exists while the pipeline has room; the emulator  *)
(* fills it with 0..FetchWidth instructions.                               *)
FetchSizes ==
  IF Len(pipeLine) + Len(instQueue) < PipeDepth
  THEN 0..Min({FetchWidth, N - nextId + 1})
  ELSE {0}

PipeAfterFetch(k) ==
  IF k > 0 THEN Append(pipeLine, [i \in 1..k |-> nextId + i - 1]) ELSE pipeLine

(* ID stage: a bucket fetched in an earlier tick moves to the instQueue   *)
(* when spaceInInstQueue >= FetchWidth (the pipeline latency is >= 1).    *)
IDMoves == spaceInInstQueue >= FetchWidth /\ pipeLine # <<>>

PipeAfterID(k) == IF IDMoves THEN Tail(PipeAfterFetch(k)) ELSE PipeAfterFetch(k)
IQAfterID      == IF IDMoves THEN Append(instQueue, Head(pipeLine)) ELSE instQueue
SpaceAfterID   == IF IDMoves THEN spaceInInstQueue - Len(Head(pipeLine))
                  ELSE spaceInInstQueue

FrontEnd(k) ==
  /\ busy \/ k > 0
  /\ nextId' = nextId + k
  /\ pipeLine' = PipeAfterID(k)

TickState(fl, rec) ==
  [rob |-> ROB, rrob |-> rROB, rat |-> RAT, deps |-> deps, regs |-> nTotalRegs,
   sfor |-> serialize_for, rec |-> rec, rid |-> replayID, iq |-> IQAfterID,
   issued |-> 0, sc |-> lastStall, robAt |-> smallROBAt, flushing |-> fl,
   ncom |-> nCommitted, high |-> commitHigh, retiredAny |-> retiredSinceCheck,
   lvl |-> serialize_level, ls |-> last_serialized, lst |-> last_serializedST,
   slev |-> serialLevel]

Store(s) ==
  /\ ROB' = s.rob /\ rROB' = s.rrob /\ RAT' = s.rat /\ deps' = s.deps
  /\ nTotalRegs' = s.regs /\ serialize_for' = s.sfor
  /\ instQueue' = s.iq /\ spaceInInstQueue' = SpaceAfterID + s.issued
  /\ lastStall' = s.sc /\ smallROBAt' = s.robAt /\ flushing' = s.flushing
  /\ nCommitted' = s.ncom /\ commitHigh' = s.high
  /\ retiredSinceCheck' = s.retiredAny
  /\ last_serialized' = s.ls /\ last_serializedST' = s.lst
  /\ serialLevel' = s.slev

(* Throttling in advance_clock, after fetch and the !busy return: with    *)
(* throttlingRatio > 1 the counter is incremented, and the tick returns   *)
(* before the ID stage while it is below skip; otherwise it is reset to 1 *)
(* and the tick goes on.                                                  *)
ThrottlePass ==
  \/ ~Throttling /\ UNCHANGED throttleVars
  \/ /\ Throttling
     /\ throttling_cntr + 1 >= ThrottleSkip
     /\ throttling_cntr' = 1
     /\ gapAtWork' = skippedTicks
     /\ skippedTicks' = 0

(* A throttled tick: fetch has run (and set busy when it brought a        *)
(* bucket); nothing else moves.                                          *)
TickThrottled ==
  /\ Throttling
  /\ throttling_cntr + 1 < ThrottleSkip
  /\ \E k \in FetchSizes :
       /\ busy \/ k > 0
       /\ nextId' = nextId + k
       /\ pipeLine' = PipeAfterFetch(k)
  /\ busy' = TRUE
  /\ throttling_cntr' = throttling_cntr + 1
  /\ skippedTicks' = skippedTicks + 1
  /\ UNCHANGED <<instQueue, spaceInInstQueue, ROB, rROB, RAT, deps, issuedInsts,
                 executed, nTotalRegs, replayRecovering, flushing, replayID,
                 lastReplay, serialize_level, serialize_for, last_serialized,
                 last_serializedST, serialLevel, replayMarked, nCommitted,
                 commitHigh, lastStall, smallROBAt, lastState, lockDetected,
                 retiredSinceCheck, progressAtCheck, gapAtWork>>

(* Recovery not done: count the stall, retire() and return.               *)
TickRecovering ==
  /\ ThrottlePass
  /\ replayRecovering
  /\ ROB # <<>> \/ rROB # <<>>
  /\ \E k \in FetchSizes, s0 \in {TickState(flushing, TRUE)} :
     \E c \in RetireChoices(s0) :
     \E s1 \in {RetireStep(s0, c[1], c[2])} :
       /\ FrontEnd(k)
       /\ busy' = TRUE
       /\ Store(s1)
  /\ UNCHANGED <<RAT, issuedInsts, executed, replayRecovering, replayID, lastReplay,
                 serialize_level, replayMarked, lastState, lockDetected,
                 progressAtCheck>>

(* Recovering done: the serialization level moves with the distance (in   *)
(* instruction ids) between this replay and the previous one.             *)
ResetLevel == lastReplay + 2 * ForwardProgThreshold < replayID
CloseReplay == lastReplay + ForwardProgThreshold > replayID

(* Mutant: the if(serialize_level) guard dropped, so 0 wraps below zero. *)
LevelAfterRecoveryNoGuard(lvl) ==
  LET l1 == IF ResetLevel THEN 3 ELSE lvl
  IN  IF CloseReplay THEN l1 - 1 ELSE l1

LevelAfterRecovery(lvl) ==
  LET l1 == IF ResetLevel THEN 3 ELSE lvl
  IN  IF CloseReplay /\ l1 > 0 THEN l1 - 1 ELSE l1

(* Mutant: recovery also waits for an empty instQueue.                   *)
RecoveryDoneQueueEmpty ==
  replayRecovering /\ ROB = <<>> /\ rROB = <<>> /\ instQueue = <<>>

RecoveryDone == replayRecovering /\ ROB = <<>> /\ rROB = <<>>

(* The rest of advance_clock: finish a drained recovery (syncHeadTail),   *)
(* then issue and retire, or go idle when nothing is left in flight.      *)
TickRun ==
  /\ ThrottlePass
  /\ ~replayRecovering \/ RecoveryDone
  /\ \E k \in FetchSizes, acc \in 0..IssueWidth :
     \E s0 \in {[TickState(flushing /\ ~RecoveryDone, FALSE) EXCEPT
                  !.sfor = IF RecoveryDone /\ CloseReplay THEN Serialize ELSE @,
                  !.lvl  = IF RecoveryDone THEN LevelAfterRecovery(@) ELSE @]} :
       /\ FrontEnd(k)
       /\ IF IQAfterID = <<>> /\ ROB = <<>> /\ rROB = <<>>
          THEN /\ acc = 0
               /\ busy' = (PipeAfterID(k) # <<>>)
               /\ Store(s0)
          ELSE /\ busy' = TRUE
               /\ \E s1 \in {IssueLoop(s0, IssueWidth, acc)} :
                  \E c \in RetireChoices(s1) :
                  \E s2 \in {RetireStep(s1, c[1], c[2])} : Store(s2)
  /\ IF RecoveryDone
     THEN /\ replayRecovering' = FALSE
          /\ serialize_level' = LevelAfterRecovery(serialize_level)
          /\ lastReplay' = replayID
          /\ replayMarked' = {}
     ELSE UNCHANGED <<replayRecovering, serialize_level, lastReplay, replayMarked>>
  /\ UNCHANGED <<issuedInsts, executed, replayID, lastState, lockDetected,
                 progressAtCheck>>

-----------------------------------------------------------------------------
(***************************************************************************)
(* Events from the collaborators, between ticks.                          *)
(***************************************************************************)

(* The cluster issues a renamed instruction once every instruction it was *)
(* linked to (addSrc1/2/3) has executed, and later completes it;          *)
(* completion clears the RAT entry if it still names d.                   *)
Issue(d) ==
  /\ d \in SeqSet(ROB) \ issuedInsts
  /\ deps[d] \subseteq executed
  /\ issuedInsts' = issuedInsts \cup {d}
  /\ UNCHANGED <<nextId, pipeLine, instQueue, spaceInInstQueue, busy, ROB, rROB,
                 RAT, deps, executed, nTotalRegs, replayRecovering, flushing,
                 replayID, lastReplay, serialize_level, serialize_for,
                 last_serialized, last_serializedST, serialLevel, replayMarked,
                 nCommitted, commitHigh, lastStall, smallROBAt, lastState,
                 lockDetected, retiredSinceCheck, progressAtCheck, throttleVars>>

(* Mutant: completion clears the entry whoever it names.               *)
RATAfterExecuteAlways(rat, d) ==
  [r \in Regs |-> IF Dst(d) = r THEN 0 ELSE rat[r]]

RATAfterExecute(rat, d) == [r \in Regs |-> IF rat[r] = d THEN 0 ELSE rat[r]]

Execute(d) ==
  /\ d \in (SeqSet(ROB) \cap issuedInsts) \ executed
  /\ executed' = executed \cup {d}
  /\ RAT' = RATAfterExecute(RAT, d)
  /\ UNCHANGED <<nextId, pipeLine, instQueue, spaceInInstQueue, busy, ROB, rROB,
                 deps, issuedInsts, nTotalRegs, replayRecovering, flushing,
                 replayID, lastReplay, serialize_level, serialize_for,
                 last_serialized, last_serializedST, serialLevel, replayMarked, nCommitted,
                 commitHigh, lastStall, smallROBAt, lastState, lockDetected,
                 retiredSinceCheck, progressAtCheck, throttleVars>>

(* replay(target): the memory system found that an in-flight, executed    *)
(* load read a stale value.  While serialize_for is nonzero, or without   *)
(* MemoryReplay, replay() returns at once and the step is a stutter.      *)
Replay(target) ==
  /\ MemoryReplay /\ serialize_for = 0
  /\ target \in InFlight \cap executed
  /\ Prog[target].load
  /\ replayMarked' = replayMarked \cup {target}
  /\ replayID' = IF replayID < target THEN target ELSE replayID
  /\ replayRecovering' = TRUE
  /\ UNCHANGED <<nextId, pipeLine, instQueue, spaceInInstQueue, busy, ROB, rROB,
                 RAT, deps, issuedInsts, executed, nTotalRegs, flushing, lastReplay,
                 serialize_level, serialize_for, last_serialized,
                 last_serializedST, serialLevel, nCommitted, commitHigh,
                 lastStall, smallROBAt, lastState, lockDetected,
                 retiredSinceCheck, progressAtCheck, throttleVars>>

(* retire_lock_check: a lock is reported when nCommitted did not change   *)
(* since the previous check.  The core is always active in this model.    *)
RetireLockCheck ==
  /\ lockDetected' = (lastState = nCommitted)
  /\ lastState' = nCommitted
  /\ progressAtCheck' = retiredSinceCheck
  /\ retiredSinceCheck' = FALSE
  /\ UNCHANGED <<nextId, pipeLine, instQueue, spaceInInstQueue, busy, ROB, rROB,
                 RAT, deps, issuedInsts, executed, nTotalRegs, replayRecovering,
                 flushing, replayID, lastReplay, serialize_level, serialize_for,
                 last_serialized, last_serializedST, serialLevel,
                 replayMarked, nCommitted, commitHigh, lastStall, smallROBAt,
                 throttleVars>>

Next ==
  \/ TickRecovering
  \/ TickRun
  \/ TickThrottled
  \/ \E d \in Ids : Issue(d)
  \/ \E d \in Ids : Execute(d)
  \/ \E d \in Ids : Replay(d)
  \/ RetireLockCheck

(* Some instruction leaves the ROB or rROB in this tick.                  *)
RetireProgress ==
  /\ TickRecovering \/ TickRun
  /\ (SeqSet(ROB) \ SeqSet(ROB')) \cup (SeqSet(rROB) \ SeqSet(rROB')) # {}

(* The cluster eventually executes every ready instruction, the core keeps *)
(* ticking, and a retirement that stays possible eventually happens: an   *)
(* executed head passes preretire and, RetireDelay cycles later, retire.  *)
Fairness ==
  /\ WF_vars(\E d \in Ids : Issue(d) \/ Execute(d))
  /\ WF_vars(TickRun \/ TickRecovering \/ TickThrottled)
  /\ SF_vars(RetireProgress)

Spec == Init /\ [][Next]_vars
FairSpec == Spec /\ Fairness

-----------------------------------------------------------------------------
(***************************************************************************)
(* Properties.                                                            *)
(***************************************************************************)

TypeOK ==
  /\ nextId \in 1..(N + 1)
  /\ ROB \in Seq(Ids) /\ rROB \in Seq(Ids)
  /\ RAT \in [Regs -> 0..N]
  /\ deps \in [Ids -> SUBSET Ids]
  /\ executed \subseteq issuedInsts /\ issuedInsts \subseteq Ids
  /\ {last_serialized, last_serializedST} \subseteq 0..N
  /\ nTotalRegs \in Int /\ spaceInInstQueue \in 0..InstQueueSize
  /\ {busy, replayRecovering, flushing, lockDetected} \subseteq BOOLEAN
  /\ replayID \in 0..N /\ lastReplay \in 0..N
  /\ serialize_level \in 0..3 /\ serialize_for \in 0..Serialize
  /\ lastStall \in StallCauses
  /\ throttling_cntr \in 0..ThrottleSkip

(* Register budget (nTotalRegs--, in addInst only after every stall check *)
(* passed, and nTotalRegs++ at retire): the free count plus the in-flight *)
(* instructions with a destination is the configured budget, and the      *)
(* count never goes negative.                                             *)
RegBudgetConserved ==
  /\ nTotalRegs = NTotalRegs - Cardinality({d \in InFlight : HasDst(d)})
  /\ nTotalRegs >= 0

(* RAT (RAT[dst] = dinst in addInst, cleared by the completing producer   *)
(* only if the entry still names it): every register maps to its         *)
(* youngest in-flight producer if that one has not executed, else to      *)
(* nothing, so a later rename links to exactly the value it must wait for.*)
RATTracksYoungestProducer ==
  \A r \in Regs :
    LET P == {d \in InFlight : Dst(d) = r}
    IN  RAT[r] = IF P = {} \/ Max(P) \in executed THEN 0 ELSE Max(P)

(* Data dependences (links made from the RAT at rename): an instruction   *)
(* executes only after the youngest older instruction writing each of its *)
(* source registers has executed.                                         *)
DataDependenceRespected ==
  \A d \in executed : \A r \in Prog[d].src :
    LET P == {p \in Renamed : p < d /\ Dst(p) = r}
    IN  P # {} => Max(P) \in executed \cup Retired

(* Replay (markReplay, then flushing set in retire before nCommitted is   *)
(* incremented): while a replay is pending, nothing at or after a replay  *)
(* target has been retired as committed; those instructions drain only    *)
(* as flushed.                                                            *)
ReplayFlushesTail ==
  \A m \in replayMarked : commitHigh < m

(* A replay recovery (ROB and rROB drain, then syncHeadTail) always       *)
(* completes, so renaming resumes.                                        *)
RecoveryCompletes == replayRecovering ~> ~replayRecovering

(* The core implements the in-order window of InOrderCommit: renaming and  *)
(* retirement (ROB, then rROB, in order, each head only once executed)     *)
(* take prefixes of the program, a cycle keeps at most MaxROBSize          *)
(* instructions in flight, and completion is the cluster's execution.     *)
InOrder == INSTANCE InOrderCommit
             WITH Capacity <- MaxROBSize, renamed <- Renamed,
                  retired <- Retired, done <- executed

InOrderCommitSpec == InOrder!Spec

(* The spec (section 4.3), serialization level 0 "serialize all memory   *)
(* ops": a memory instruction renamed in a level-0 window (addInst's      *)
(* addSrc3 chain on last_serialized, cleared at retire) issues only after *)
(* every earlier memory instruction serialized at level 0 has issued.     *)
SerializedMemoryOrder ==
  \A d \in issuedInsts : serialLevel[d] = 0 =>
    \A p \in Ids : p < d /\ serialLevel[p] = 0 => p \in issuedInsts

(* The spec (section 4.3), level 1 "serialize stores and loads-after-     *)
(* stores": a memory instruction renamed in a level-1 window issues only  *)
(* after every earlier store serialized at level 1 has issued.            *)
StoresSerializedAtLevel1 ==
  \A d \in issuedInsts : serialLevel[d] = 1 =>
    \A p \in Ids : p < d /\ serialLevel[p] = 1 /\ Prog[p].store => p \in issuedInsts

(* last_serialized and last_serializedST (set in addInst, reset in the   *)
(* retire loop, dereferenced by isIssued at the next serialized rename)   *)
(* only ever name an instruction still in ROB or rROB, never a retired    *)
(* or flushed one whose DInst was destroyed.                              *)
SerializedPointersLive ==
  {last_serialized, last_serializedST} \ {0} \subseteq InFlight

(* Every renamed instruction eventually retires from rROB.                *)
RenamedEventuallyRetires ==
  \A d \in Ids : (d \in InFlight) ~> (d \in Retired)

(* The spec (section 8): a ROB of capacity MaxROBSize stalls a rename     *)
(* with SmallROBStall only when MaxROBSize instructions are unretired.    *)
ROBHoldsMaxROBSize ==
  smallROBAt # -1 => smallROBAt >= MaxROBSize

(* The spec (section 4.1): retire_lock_check reports a lock only when no  *)
(* progress was made since the previous check.                           *)
LockOnlyWithoutProgress ==
  lockDetected => ~progressAtCheck

(* advance_clock's throttle (throttlingRatio > 1, skip = ceil(ratio /    *)
(* turbo)) lets a busy core work on one tick in skip: at least skip - 1   *)
(* throttled ticks lie between two working ticks.                         *)
ThrottleHonoursRatio == gapAtWork >= ThrottleSkip - 1

=============================================================================
