--------------------------- MODULE MC_LoadBranch ---------------------------
(***************************************************************************)
(* The two halves of the load-branch extension side by side: the data      *)
(* outcome correlator of the predictor BPLdbp (BPredDOC), consulted at     *)
(* prediction, and the retire-side chain classifier and load generation    *)
(* table of OoOProcessor (LDBP).  They share no state under src/: their    *)
(* steps interleave, and each is checked under the other's steps.  The     *)
(* retired instruction stream is bounded by MaxRetired.                    *)
(***************************************************************************)
EXTENDS Naturals, TLC

CONSTANTS R0, x1, x2, l1, b1, b2, b3, NoPC, NoTrigger,
          AddrMod, LGT_SIZE, LdConfThreshold, MaxConf, MaxRetired,
          DOC_SIZE, Tags

VARIABLES ct_table, lgt_table, trigger, lastTrain, doc_table, lastTag,
          lastPred, retired

Ldbp == INSTANCE LDBP WITH Regs <- {R0, x1, x2}, LdPCs <- {l1},
                           BrPCs <- {b1, b2, b3}
Doc == INSTANCE BPredDOC

ldbpVars == <<ct_table, lgt_table, trigger, lastTrain>>
docVars == <<doc_table, lastTag, lastPred>>
vars == <<ldbpVars, docVars, retired>>

\* Registers x1, x2 and branch PCs b1, b2, b3 are interchangeable.
Sym == Permutations({x1, x2}) \cup Permutations({b1, b2, b3})

Init == Ldbp!Init /\ Doc!Init /\ retired = 0

\* A retire of the LDBP half, within the bound on the stream.
RetireStep ==
  /\ retired < MaxRetired
  /\ Ldbp!Next
  /\ retired' = retired + 1
  /\ UNCHANGED docVars

\* An outcome_doc call of the predictor half.
DocStep == Doc!Next /\ UNCHANGED <<ldbpVars, retired>>

Next == RetireStep \/ DocStep

Spec == Init /\ [][Next]_vars

\* update_doc saturates the taken / not-taken counters of every DOC entry
\* at max_counter 8 and never takes them below 0, and outcome_doc keeps the
\* table at DOC_SIZE entries.
DocTypeOK == Doc!TypeOK

\* The miss path of classify_ld_br_chain (erase begin(), push_back) keeps
\* the LGT at LGT_SIZE entries, and the retire hooks keep every classify
\* table entry and LGT entry well formed.
LdbpTypeOK == Ldbp!TypeOK

\* classify_ld_br_chain trains the first LGT entry of a (load PC, branch
\* PC) pair and appends one only when its search misses: the FIFO never
\* holds two entries of one pair, whatever the order of evictions.
LGTKeysUnique == Ldbp!LGTKeysUnique

\* The stride generate_trigger_load hands to the DL1 is the address
\* difference between this training of the (load, branch) pair and the one
\* before it, also when the pair's LGT entry was evicted and re-inserted in
\* between (lgt_br_hit must read start_addr before it overwrites it).
PrefetchStrideObserved == [][Ldbp!StrideObservedStep]_ldbpVars

\* The comment of classify_table_entry lists chain classes 7 and 9, but
\* ct_br_hit clears complex_br_set for reg_flag 4 and classify_ld_br_chain
\* then returns before the LGT: no LGT entry ever holds class 7 or 9.
LGTNeverLearnsClass7or9 == Ldbp!LGTNeverLearnsClass7or9
==============================================================================
