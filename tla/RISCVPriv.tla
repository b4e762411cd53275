------------------------------ MODULE RISCVPriv ------------------------------
(***************************************************************************)
(* The privileged-instruction helpers of the RISC-V emulator that feeds   *)
(* the timing model, src/emul/qemu_riscv/target/riscv/op_helper.c:         *)
(* helper_csrrw/_csrrs/_csrrc, helper_sret, helper_mret, helper_wfi and    *)
(* helper_tlb_flush.  The state is the hart's privilege and the mstatus    *)
(* fields these helpers read or write; the interrupt-enable bits UIE, SIE  *)
(* and MIE are bits 0, 1 and 3 of mstatus, so they are kept as ie[p] for   *)
(* the privilege p they belong to (MSTATUS_UIE << p).  A helper that calls *)
(* riscv_raise_exception does not return: it records the exception and     *)
(* changes nothing else.                                                   *)
(***************************************************************************)
EXTENDS Naturals, FiniteSets

CONSTANT CONFIG_ESESC  \* built for the timing model

PRV_U == 0
PRV_S == 1
PRV_M == 3
Privs == {PRV_U, PRV_S, PRV_M}

Bit == 0..1

(* The low two bits of sepc / mepc: 0 aligned, 2 only 2-byte aligned.      *)
EpcLow == {0, 2}

Outcomes == {"none", "illegal", "misaligned", "halt", "zero"}

VARIABLES
  PrivVer110,            \* env->priv_ver >= PRIV_VERSION_1_10_0 (fixed per hart)
  HasRVC,                \* riscv_has_ext(env, RVC) (fixed per hart)
  priv,                  \* env->priv
  ie,                    \* ie[p] = mstatus bit MSTATUS_UIE << p
  spie, mpie, spp, mpp,  \* mstatus SPIE, MPIE, SPP, MPP
  tsr, tw, tvm,          \* mstatus TSR, TW, TVM
  sepc, mepc,            \* low bits of env->sepc, env->mepc
  initPriv,              \* privilege the hart started in (history)
  lastOutcome,           \* exception or result of the last helper (history)
  csrFailModes           \* how failed CSR accesses were handled (history)

vars == <<PrivVer110, HasRVC, priv, ie, spie, mpie, spp, mpp, tsr, tw, tvm, sepc, mepc,
          initPriv, lastOutcome, csrFailModes>>

status == <<PrivVer110, HasRVC, ie, spie, mpie, spp, mpp, tsr, tw, tvm, sepc, mepc>>

(* Any privilege and any mstatus contents the earlier trap entries and CSR *)
(* writes may have left (MPP holds a legal privilege, SPP is one bit).    *)
Init ==
  /\ PrivVer110 \in BOOLEAN /\ HasRVC \in BOOLEAN
  /\ priv \in Privs
  /\ ie \in [Privs -> Bit]
  /\ spie \in Bit /\ mpie \in Bit /\ spp \in {PRV_U, PRV_S} /\ mpp \in Privs
  /\ tsr \in Bit /\ tw \in Bit /\ tvm \in Bit
  /\ sepc \in EpcLow /\ mepc \in EpcLow
  /\ initPriv = priv
  /\ lastOutcome = "none"
  /\ csrFailModes = {}

(* The helper ends with this outcome (a return, or riscv_raise_exception   *)
(* which does not return) and changes no tracked state.                   *)
Raise(cause) ==
  /\ lastOutcome' = cause
  /\ UNCHANGED <<priv, status, initPriv, csrFailModes>>

(* The interrupt-enable bit an xRET restores: SIE / MIE since priv 1.10,  *)
(* before that MSTATUS_UIE << prev_priv.                                  *)
RestoredIE(x, prev) == IF PrivVer110 THEN x ELSE prev

(* Mutant: sret without its privilege check.                              *)
SretAllowedAny(p) == p \in Privs

(* if(!(env->priv >= PRV_S)) raise ILLEGAL_INST                           *)
SretAllowed(p) == p >= PRV_S

helper_sret ==
  CASE ~SretAllowed(priv)           -> Raise("illegal")
    [] ~HasRVC /\ sepc # 0          -> Raise("misaligned")
    [] PrivVer110 /\ tsr = 1        -> Raise("illegal")
    [] OTHER ->
         /\ ie' = [ie EXCEPT ![RestoredIE(PRV_S, spp)] = spie]
         /\ spie' = 0 /\ spp' = PRV_U
         /\ priv' = spp
         /\ lastOutcome' = "none"
         /\ UNCHANGED <<PrivVer110, HasRVC, mpie, mpp, tsr, tw, tvm, sepc, mepc, initPriv, csrFailModes>>

helper_mret ==
  CASE ~(priv >= PRV_M)             -> Raise("illegal")
    [] ~HasRVC /\ mepc # 0          -> Raise("misaligned")
    [] OTHER ->
         /\ ie' = [ie EXCEPT ![RestoredIE(PRV_M, mpp)] = mpie]
         /\ mpie' = 0 /\ mpp' = PRV_U
         /\ priv' = mpp
         /\ lastOutcome' = "none"
         /\ UNCHANGED <<PrivVer110, HasRVC, spie, spp, tsr, tw, tvm, sepc, mepc, initPriv, csrFailModes>>

(* wfi: trapped in S-mode by TW (priv 1.10), otherwise the vCPU halts      *)
(* until an interrupt (cpu_loop_exit with EXCP_HLT).                      *)
helper_wfi ==
  IF priv = PRV_S /\ PrivVer110 /\ tw = 1 THEN Raise("illegal") ELSE Raise("halt")

(* sfence.vma: trapped in S-mode by TVM (priv 1.10), otherwise tlb_flush. *)
helper_tlb_flush ==
  IF priv = PRV_S /\ PrivVer110 /\ tvm = 1 THEN Raise("illegal") ELSE Raise("none")

(* helper_csrrw / _csrrs / _csrrc with the result of riscv_csrrw: a failed *)
(* access returns 0 under CONFIG_ESESC in csrrw and csrrs, and raises      *)
(* ILLEGAL_INST otherwise and always in csrrc.  A successful access        *)
(* touches a CSR this model does not track.                               *)
CsrFailure(op) ==
  IF op \in {"csrrw", "csrrs"} /\ CONFIG_ESESC THEN "zero" ELSE "illegal"

helper_csr(op, fails) ==
  /\ lastOutcome' = IF fails THEN CsrFailure(op) ELSE "none"
  /\ csrFailModes' = IF fails THEN csrFailModes \cup {CsrFailure(op)} ELSE csrFailModes
  /\ UNCHANGED <<priv, status, initPriv>>

Next ==
  \/ helper_sret
  \/ helper_mret
  \/ helper_wfi
  \/ helper_tlb_flush
  \/ \E op \in {"csrrw", "csrrs", "csrrc"}, fails \in BOOLEAN : helper_csr(op, fails)

Spec == Init /\ [][Next]_vars

-----------------------------------------------------------------------------
(* No sequence of these helpers raises the hart's privilege: sret and     *)
(* mret only return to the privilege held in SPP / MPP and only from a     *)
(* mode at least as privileged, and the other helpers never change it, so *)
(* only a trap can enter a higher mode.                                   *)
PrivilegeNeverEscalates == priv <= initPriv

(* A CSR access that riscv_csrrw rejects is handled the same way whichever *)
(* of csrrw, csrrs or csrrc made it.                                      *)
CsrFailureHandledAlike == Cardinality(csrFailModes) <= 1

=============================================================================
