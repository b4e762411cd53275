-------------------------------- MODULE LDBP --------------------------------
(***************************************************************************)
(* Retire-side training of the load-branch prefetcher of OoOProcessor,     *)
(* compiled with ENABLE_LDBP (OoOProcessor.h, OoOProcessor.cpp).  At       *)
(* retire a load opens a chain in the classify table ct_table (one entry   *)
(* per logical register), an iAALU writing a chained register lengthens    *)
(* the chain, and a branch classifies the chain of its source register     *)
(* (ct_br_hit) and trains the load generation table lgt_table, a FIFO keyed*)
(* by (load PC, branch PC) that learns the stride of the load.  An entry   *)
(* whose confidence exceeds 15 makes generate_trigger_load send prefetches *)
(* to the DL1.                                                             *)
(*                                                                         *)
(* Abstractions: PCs and registers are model values; addresses are taken   *)
(* modulo AddrMod, as the uint64 arithmetic of the code is modulo 2^64.    *)
(* dep_depth is only ever compared with 1, so every depth above 1 is the   *)
(* single value DepMany.  The in-flight branch count (a scan of the ROB)   *)
(* and the load-latency window only shift the trigger address offsets and *)
(* are left out; a trigger is the request record sent to the DL1.          *)
(***************************************************************************)
EXTENDS Naturals, Sequences, FiniteSetsExt

CONSTANTS
  Regs,             \* logical registers, indices of ct_table
  R0,               \* LREG_R0, the zero register
  LdPCs,            \* PCs of loads
  BrPCs,            \* PCs of iBALU_LBRANCH branches
  NoPC,             \* the 0 of a default-constructed entry
  NoTrigger,        \* no trigger load was generated by this retire
  AddrMod,          \* addresses and deltas are modulo AddrMod
  LGT_SIZE,         \* LGT_SIZE (128 in OoOProcessor.h)
  LdConfThreshold,  \* ld_conf must exceed it to trigger (15 in the code)
  MaxConf           \* model bound on ld_conf

ASSUME /\ R0 \in Regs
       /\ NoPC \notin LdPCs \cup BrPCs
       /\ AddrMod \in Nat \ {0} /\ LGT_SIZE \in Nat \ {0}
       /\ LdConfThreshold \in Nat /\ MaxConf > LdConfThreshold

VARIABLES
  ct_table,         \* [Regs -> classify_table_entry]
  lgt_table,        \* sequence of LGT_SIZE load_gen_table_entry
  trigger,          \* the triggerReqRead of this retire, or NoTrigger
  lastTrain         \* history: address of the last training of each key

vars == <<ct_table, lgt_table, trigger, lastTrain>>

Addrs == 0 .. AddrMod - 1
DepMany == 2
Keys == LdPCs \X BrPCs
NoAddr == AddrMod

\* classify_table_entry(): a default entry of ct_table.
\* dest_reg is the entry's own index; simple and ldbr_set are written and
\* never read outside ct_br_hit, so they are left out.
FreshCT == [ldpc |-> NoPC, ld_addr |-> 0, dep_depth |-> 0, ldbr_type |-> 0,
            is_li |-> FALSE, valid |-> FALSE, complex_br_set |-> FALSE]

\* load_gen_table_entry(): a default entry of lgt_table.  prev_delta is
\* overwritten before every read, and end_addr, inf_branch, brop, br_data2
\* and br_outcome are never read: they are left out.
FreshLGT == [ldpc |-> NoPC, brpc |-> NoPC, start_addr |-> 0, ld_delta |-> 0,
             ld_conf |-> 0, ldbr_type |-> 0]

\* ct_load_hit.  Its first line, classify_table_entry();, builds and drops a
\* temporary: is_li (with simple and ldbr_set) keeps its old value.
ct_load_hit(e, pc, a) ==
  [e EXCEPT !.ldpc = pc, !.ld_addr = a, !.dep_depth = 1, !.ldbr_type = 0,
            !.valid = TRUE, !.complex_br_set = FALSE]

\* ct_alu_hit with the is_li update of the retire loop.
ct_alu_hit(e, li) ==
  [e EXCEPT !.dep_depth = IF @ + 1 > DepMany THEN DepMany ELSE @ + 1,
            !.is_li = li]

\* The class of a simple branch (one source is R0): 1/2 for a direct load,
\* 3/4 through an ALU, 5/6 through a load-immediate; even for reg_flag 2.
SimpleClass(e, flag) ==
  LET side == IF flag = 2 THEN 2 ELSE 1
  IN  IF e.dep_depth = 1 THEN side
      ELSE 2 + side + (IF e.is_li THEN 2 ELSE 0)

\* ct_br_hit(dinst, reg_flag) for a branch with sources s1, s2.
ct_br_hit(e, s1, s2, flag) ==
  LET simple == s1 = R0 \/ s2 = R0
  IN  IF simple THEN [e EXCEPT !.ldbr_type = SimpleClass(e, flag)]
      ELSE IF flag = 3
      THEN IF e.dep_depth > 1 /\ e.is_li THEN [e EXCEPT !.complex_br_set = FALSE]
           ELSE IF e.is_li THEN e
           ELSE [e EXCEPT !.ldbr_type = IF e.dep_depth = 1 THEN 10 ELSE 8,
                          !.complex_br_set = TRUE]
      ELSE IF flag = 4
      THEN [e EXCEPT !.complex_br_set = FALSE,
                     !.ldbr_type = IF e.is_li THEN @
                                   ELSE IF e.dep_depth = 1 THEN 9 ELSE 7]
      ELSE e

\* Mutant: start_addr overwritten before the delta is taken.
lgt_br_hit_start_first(l, a, ldbr) ==
  LET m     == [l EXCEPT !.start_addr = a]
      delta == (a - m.start_addr + AddrMod) % AddrMod
  IN  [m EXCEPT !.ld_delta = delta, !.ldbr_type = ldbr,
                !.ld_conf = IF delta = l.ld_delta THEN @ + 1 ELSE @ \div 2]

\* lgt_br_hit: the stride seen by this branch and its confidence.
lgt_br_hit(l, a, ldbr) ==
  LET delta == (a - l.start_addr + AddrMod) % AddrMod
  IN  [l EXCEPT !.ld_delta = delta,
                !.start_addr = a, !.ldbr_type = ldbr,
                !.ld_conf = IF delta = l.ld_delta THEN @ + 1 ELSE @ \div 2]

\* lgt_br_miss on a fresh entry.
lgt_br_miss(pc, e) ==
  [FreshLGT EXCEPT !.ldpc = e.ldpc, !.brpc = pc, !.start_addr = e.ld_addr,
                   !.ldbr_type = e.ldbr_type]

\* generate_trigger_load: the request sent to the DL1.  The ldbp_* members
\* it sets are read only by this function (elsewhere only under #if 0).
generate_trigger_load(s, pc, l) ==
  [s EXCEPT !.trigger = [ldpc |-> l.ldpc, brpc |-> pc, addr |-> l.start_addr,
                         delta |-> l.ld_delta]]

\* Mutant: the search loop stops one entry short (i < LGT_SIZE - 1).
LgtHitsSkipLast(lgt, ldpc, pc) ==
  {i \in 1 .. LGT_SIZE - 1 : lgt[i].ldpc = ldpc /\ lgt[i].brpc = pc}

\* The LGT search of classify_ld_br_chain: the first entry of the key.
LgtHits(lgt, ldpc, pc) ==
  {i \in 1 .. LGT_SIZE : lgt[i].ldpc = ldpc /\ lgt[i].brpc = pc}

\* Mutant: the miss path pushes back without erasing begin().
TrainNoErase(s, pc, e) ==
  LET hits == LgtHits(s.lgt_table, e.ldpc, pc)
      key  == <<e.ldpc, pc>>
  IN  IF hits # {}
      THEN LET i == Min(hits)
               l == lgt_br_hit(s.lgt_table[i], e.ld_addr, e.ldbr_type)
               t == [s EXCEPT !.lgt_table[i] = l, !.lastTrain[key] = e.ld_addr]
           IN  IF l.ld_conf > LdConfThreshold
               THEN generate_trigger_load(t, pc, l) ELSE t
      ELSE [s EXCEPT !.lgt_table = @ \o <<lgt_br_miss(pc, e)>>,
                     !.lastTrain[key] = e.ld_addr]

\* The LGT part of classify_ld_br_chain for the classified entry e.
Train(s, pc, e) ==
  LET hits == LgtHits(s.lgt_table, e.ldpc, pc)
      key  == <<e.ldpc, pc>>
  IN  IF hits # {}
      THEN LET i == Min(hits)
               l == lgt_br_hit(s.lgt_table[i], e.ld_addr, e.ldbr_type)
               t == [s EXCEPT !.lgt_table[i] = l, !.lastTrain[key] = e.ld_addr]
           IN  IF l.ld_conf > LdConfThreshold
               THEN generate_trigger_load(t, pc, l) ELSE t
      ELSE [s EXCEPT !.lgt_table = Tail(@) \o <<lgt_br_miss(pc, e)>>,
                     !.lastTrain[key] = e.ld_addr]

\* Mutant: only reg_flag 3 returns when complex_br_set is clear.
classify_gate_flag3(s, pc, s1, s2, r, flag) ==
  IF ~s.ct_table[r].valid THEN s
  ELSE LET e == ct_br_hit(s.ct_table[r], s1, s2, flag)
           t == [s EXCEPT !.ct_table[r] = e]
       IN  IF flag = 3 /\ ~e.complex_br_set THEN t ELSE Train(t, pc, e)

\* classify_ld_br_chain(dinst, r, reg_flag).
classify_ld_br_chain(s, pc, s1, s2, r, flag) ==
  IF ~s.ct_table[r].valid THEN s
  ELSE LET e == ct_br_hit(s.ct_table[r], s1, s2, flag)
           t == [s EXCEPT !.ct_table[r] = e]
       IN  IF flag \in {3, 4} /\ ~e.complex_br_set THEN t ELSE Train(t, pc, e)

\* The state as one record, so that the two classify_ld_br_chain calls of a
\* branch compose in sequence.  A retire starts with no trigger.
State == [ct_table |-> ct_table, lgt_table |-> lgt_table,
          trigger |-> NoTrigger, lastTrain |-> lastTrain]

Becomes(n) ==
  /\ ct_table' = n.ct_table /\ lgt_table' = n.lgt_table
  /\ trigger' = n.trigger /\ lastTrain' = n.lastTrain

\* Constructor: default ct entries, LGT_SIZE default LGT entries.
Init ==
  /\ ct_table = [r \in Regs |-> FreshCT]
  /\ lgt_table = [i \in 1 .. LGT_SIZE |-> FreshLGT]
  /\ trigger = NoTrigger
  /\ lastTrain = [k \in Keys |-> NoAddr]

\* retire, isLoad(): the load at pc of address a into r opens a chain.
RetireLoad(r, pc, a) ==
  Becomes([State EXCEPT !.ct_table[r] = ct_load_hit(@, pc, a)])

\* retire, iAALU writing r from s1, s2: a chained r grows; li is R0, R0.
\* Only whether both sources are R0 matters, so Next draws them from {R0, r}.
RetireALU(r, s1, s2) ==
  Becomes(IF State.ct_table[r].valid
          THEN [State EXCEPT !.ct_table[r] = ct_alu_hit(@, s1 = R0 /\ s2 = R0)]
          ELSE State)

\* retire, iBALU_LBRANCH at pc with sources s1, s2: which chain to classify.
BranchClassify(s, pc, s1, s2) ==
  IF s2 = R0 THEN classify_ld_br_chain(s, pc, s1, s2, s1, 1)
  ELSE IF s1 = R0 THEN classify_ld_br_chain(s, pc, s1, s2, s2, 2)
  ELSE IF ~s.ct_table[s1].is_li /\ ~s.ct_table[s2].is_li
  THEN [s EXCEPT !.ct_table[s1].ldbr_type = 0, !.ct_table[s2].ldbr_type = 0]
  ELSE LET t == classify_ld_br_chain(s, pc, s1, s2, s1, 3)
       IN  IF ~t.ct_table[s1].complex_br_set
           THEN classify_ld_br_chain(t, pc, s1, s2, s2, 4) ELSE t

RetireBranch(pc, s1, s2) ==
  \E n \in {BranchClassify(State, pc, s1, s2)} :
    /\ \A i \in 1 .. LGT_SIZE : n.lgt_table[i].ld_conf <= MaxConf
    /\ Becomes(n)

Next ==
  \/ \E r \in Regs \ {R0}, pc \in LdPCs, a \in Addrs : RetireLoad(r, pc, a)
  \/ \E r \in Regs \ {R0} : \E s1, s2 \in {R0, r} : RetireALU(r, s1, s2)
  \/ \E pc \in BrPCs, s1, s2 \in Regs : RetireBranch(pc, s1, s2)

Spec == Init /\ [][Next]_vars

-----------------------------------------------------------------------------
CTEntry == [ldpc : LdPCs \cup {NoPC}, ld_addr : Addrs, dep_depth : 0 .. DepMany,
            ldbr_type : 0 .. 10, is_li : BOOLEAN, valid : BOOLEAN,
            complex_br_set : BOOLEAN]
LGTEntry == [ldpc : LdPCs \cup {NoPC}, brpc : BrPCs \cup {NoPC},
             start_addr : Addrs, ld_delta : Addrs,
             ld_conf : 0 .. MaxConf, ldbr_type : 0 .. 10]

\* Every classify table entry, LGT entry and trigger is well formed.
TypeOK ==
  /\ ct_table \in [Regs -> CTEntry]
  /\ lgt_table \in [1 .. LGT_SIZE -> LGTEntry]
  /\ trigger \in [ldpc : LdPCs, brpc : BrPCs, addr : Addrs, delta : Addrs]
                  \cup {NoTrigger}
  /\ lastTrain \in [Keys -> Addrs \cup {NoAddr}]

\* No two LGT entries of one (load PC, branch PC) pair.
LGTKeysUnique ==
  \A i, j \in 1 .. LGT_SIZE :
    i < j /\ lgt_table[i].ldpc # NoPC =>
      <<lgt_table[i].ldpc, lgt_table[i].brpc>> # <<lgt_table[j].ldpc, lgt_table[j].brpc>>

\* A step whose trigger carries, as its stride, the address difference
\* between this training of the (load, branch) pair and the one before it.
StrideObservedStep ==
  trigger' # NoTrigger =>
    trigger'.delta = (trigger'.addr - lastTrain[trigger'.ldpc, trigger'.brpc]
                      + AddrMod) % AddrMod

\* No LGT entry holds chain class 7 or 9.
LGTNeverLearnsClass7or9 ==
  \A i \in 1 .. LGT_SIZE : lgt_table[i].ldbr_type \notin {7, 9}
==============================================================================
