---------------------------- MODULE ESESCHelpers ----------------------------
(***************************************************************************)
(* The instrumentation helpers of the RISC-V emulator,                     *)
(* src/emul/qemu_riscv/target/riscv/op_helper.c: every load, alu and       *)
(* control instruction of every vCPU thread calls helper_esesc_load, _alu and _ctrl.  A      *)
(* global counter icount, shared by all threads, holds how many calls to   *)
(* skip: a call that sees icount > 0 decrements it and returns; otherwise  *)
(* it hands the instruction to the timing model (QEMUReader_queue_load or _inst),      *)
(* which answers with a number of instructions to skip, added to icount.   *)
(* The test and the decrement are two steps, so each is an action.        *)
(***************************************************************************)
EXTENDS Integers

CONSTANTS
  Threads,    \* vCPU threads (cpu->fid)
  MaxSkip,    \* largest skip count QEMUReader_queue_inst returns in the model
  MaxCalls    \* helper calls per thread in the model

VARIABLES
  icount,     \* volatile long long int icount
  pc,         \* pc[t]: where thread t is inside a helper
  calls,      \* helper calls thread t has started
  granted,    \* skip counts returned by the timing model (history)
  skipped     \* calls that returned early on icount > 0 (history)

vars == <<icount, pc, calls, granted, skipped>>

Init ==
  /\ icount = 0
  /\ pc = [t \in Threads |-> "idle"]
  /\ calls = [t \in Threads |-> 0]
  /\ granted = 0 /\ skipped = 0

(* The early-return test of every helper: if (icount > 0).               *)
SkipTest(n) == n > 0

(* Entry of helper_esesc_load / _ctrl / _alu: read icount and branch.     *)
HelperEnter(t) ==
  /\ pc[t] = "idle"
  /\ calls[t] < MaxCalls
  /\ pc' = [pc EXCEPT ![t] = IF SkipTest(icount) THEN "skip" ELSE "queue"]
  /\ calls' = [calls EXCEPT ![t] = @ + 1]
  /\ UNCHANGED <<icount, granted, skipped>>

(* AtomicSub(&icount, 1); return.                                          *)
HelperSkip(t) ==
  /\ pc[t] = "skip"
  /\ icount' = icount - 1
  /\ skipped' = skipped + 1
  /\ pc' = [pc EXCEPT ![t] = "idle"]
  /\ UNCHANGED <<calls, granted>>

(* Decode the register fields and AtomicAdd(&icount, QEMUReader_queue_inst). *)
HelperQueue(t, k) ==
  /\ pc[t] = "queue"
  /\ icount' = icount + k
  /\ granted' = granted + k
  /\ pc' = [pc EXCEPT ![t] = "idle"]
  /\ UNCHANGED <<calls, skipped>>

(* helper_esesc_ctrl with pc == target: QEMUReader_finish, the thread ends.*)
HelperFinish(t) ==
  /\ pc[t] = "queue"
  /\ pc' = [pc EXCEPT ![t] = "done"]
  /\ UNCHANGED <<icount, calls, granted, skipped>>

(* helper_esesc0: start of the region of interest, icount = 0 (a plain     *)
(* store).  Pending skips are forgotten, so they count as consumed.       *)
HelperStartROI(t) ==
  /\ pc[t] = "idle"
  /\ icount' = 0
  /\ skipped' = skipped + icount
  /\ UNCHANGED <<pc, calls, granted>>

Next ==
  \E t \in Threads :
    \/ HelperEnter(t)
    \/ HelperSkip(t)
    \/ \E k \in 0..MaxSkip : HelperQueue(t, k)
    \/ HelperFinish(t)
    \/ HelperStartROI(t)

Spec == Init /\ [][Next]_vars

-----------------------------------------------------------------------------
(* The skip counter never goes negative: no helper call is skipped that    *)
(* the timing model did not ask to skip (skipped <= granted), so each      *)
(* skip count QEMUReader_queue_inst returns is honoured exactly.              *)
SkipsWithinGranted == skipped <= granted

=============================================================================
