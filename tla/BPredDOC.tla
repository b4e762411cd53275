------------------------------ MODULE BPredDOC ------------------------------
(***************************************************************************)
(* The data outcome correlator (DOC) of the load-branch predictor BPLdbp, *)
(* src/simu/libcore/BPred.h: a FIFO table of DOC_SIZE entries, each a tag  *)
(* and a pair of saturating taken / not-taken counters, looked up by       *)
(* outcome_doc.  doc_compute turns the counters into a prediction: 2 =     *)
(* taken, 1 = not taken, 0 = not confident.                               *)
(***************************************************************************)
EXTENDS Integers, Sequences, FiniteSets

CONSTANTS
  DOC_SIZE,   \* entries of doc_table
  Tags        \* AddrType values outcome_doc is called with; 0 is the empty tag

max_counter == 8

ASSUME DOC_SIZE \in Nat \ {0} /\ Tags \subseteq Nat

Entry == [tag : Nat, taken : 0..max_counter, ntaken : 0..max_counter]

(* The constructor data_outcome_correlator().                              *)
EmptyEntry == [tag |-> 0, taken |-> 0, ntaken |-> 0]

VARIABLES
  doc_table,  \* std::vector<data_outcome_correlator>, index 1 = begin()
  lastTag,    \* tag of the last outcome_doc call, -1 before the first
  lastPred    \* value the last outcome_doc call returned

vars == <<doc_table, lastTag, lastPred>>

(* m <= 1/3 with C++ integer division: 1/3 is 0, so the test is m <= 0.   *)
Threshold == <<1 \div 3, 1>>   \* the threshold as numerator, denominator

(* The threshold the comment and the variable m (a double) intend: 1/3.    *)
IntendedThreshold == <<1, 3>>

(* doc_compute: m = (1 + min) / (2 + taken + ntaken) compared with the     *)
(* threshold by cross-multiplication (both denominators are positive).    *)
DocComputeWith(e, th) ==
  LET lo == IF e.taken < e.ntaken THEN e.taken ELSE e.ntaken
  IN  IF (1 + lo) * th[2] <= th[1] * (2 + e.taken + e.ntaken)
      THEN IF e.taken > e.ntaken THEN 2 ELSE 1
      ELSE 0

doc_compute(e) == DocComputeWith(e, Threshold)

(* Mutant: the counters saturate one step late.                            *)
CountersOffByOne(e, outcome) ==
  IF outcome
  THEN IF e.taken <= max_counter THEN [e EXCEPT !.taken = @ + 1]
       ELSE IF e.ntaken > 0 THEN [e EXCEPT !.ntaken = @ - 1] ELSE e
  ELSE IF e.ntaken <= max_counter THEN [e EXCEPT !.ntaken = @ + 1]
       ELSE IF e.taken > 0 THEN [e EXCEPT !.taken = @ - 1] ELSE e

(* The counter update of update_doc: the outcome's counter counts up to    *)
(* max_counter; once saturated, the other counter counts down to 0.       *)
UpdateCounters(e, outcome) ==
  IF outcome
  THEN IF e.taken < max_counter THEN [e EXCEPT !.taken = @ + 1]
       ELSE IF e.ntaken > 0 THEN [e EXCEPT !.ntaken = @ - 1] ELSE e
  ELSE IF e.ntaken < max_counter THEN [e EXCEPT !.ntaken = @ + 1]
       ELSE IF e.taken > 0 THEN [e EXCEPT !.taken = @ - 1] ELSE e

(* update_doc(_tag, outcome): an entry with a nonzero tag takes the tag    *)
(* passed and computes the prediction from the counters before the       *)
(* update; the result is <<entry after, prediction>>.                     *)
update_doc(e, _tag, outcome) ==
  LET e1 == IF e.tag # 0 THEN [e EXCEPT !.tag = _tag] ELSE e
  IN  <<UpdateCounters(e1, outcome), IF e.tag # 0 THEN doc_compute(e1) ELSE 0>>

(* The first entry whose tag equals _tag, 0 if none.                       *)
HitIndex(tbl, _tag) ==
  LET H == {i \in 1..Len(tbl) : tbl[i].tag = _tag}
  IN  IF H = {} THEN 0 ELSE CHOOSE i \in H : \A j \in H : i <= j

Init ==
  /\ doc_table = [i \in 1..DOC_SIZE |-> EmptyEntry]
  /\ lastTag = -1
  /\ lastPred = 0

(* outcome_doc(_tag, outcome), hit: update the first matching entry.       *)
OutcomeDocHit(_tag, outcome) ==
  LET i == HitIndex(doc_table, _tag)
      r == update_doc(doc_table[i], _tag, outcome)
  IN  /\ i # 0
      /\ doc_table' = [doc_table EXCEPT ![i] = r[1]]
      /\ lastPred' = r[2]
      /\ lastTag' = _tag

(* outcome_doc(_tag, outcome), miss: erase the oldest entry, push a new    *)
(* one tagged _tag and update it with update_doc(0, outcome).             *)
OutcomeDocMiss(_tag, outcome) ==
  LET r == update_doc([EmptyEntry EXCEPT !.tag = _tag], 0, outcome)
  IN  /\ HitIndex(doc_table, _tag) = 0
      /\ doc_table' = Append(Tail(doc_table), r[1])
      /\ lastPred' = r[2]
      /\ lastTag' = _tag

Next ==
  \E t \in Tags, o \in BOOLEAN :
    \/ OutcomeDocHit(t, o)
    \/ OutcomeDocMiss(t, o)

Spec == Init /\ [][Next]_vars

-----------------------------------------------------------------------------
(* The table keeps DOC_SIZE entries, and the counters of every entry stay  *)
(* within 0..max_counter however long one outcome repeats (the saturating *)
(* update of update_doc).                                                 *)
TypeOK ==
  /\ doc_table \in Seq(Entry) /\ Len(doc_table) = DOC_SIZE
  /\ lastTag \in Tags \cup {-1}
  /\ lastPred \in 0..2

(* The intended confidence test of doc_compute, m <= 1/3 over the reals.  *)
DocComputeRef(e) == DocComputeWith(e, IntendedThreshold)

(* doc_compute agrees with the intended test on every counter pair the     *)
(* table holds: a confident entry predicts its majority outcome.          *)
DocComputeMatchesReference ==
  \A i \in 1..DOC_SIZE : doc_compute(doc_table[i]) = DocComputeRef(doc_table[i])

(* After outcome_doc(_tag, ...) the table holds an entry tagged _tag, so   *)
(* the next call with the same tag finds the counters it trained.         *)
DocRemembersTag ==
  lastTag # -1 => \E i \in 1..DOC_SIZE : doc_table[i].tag = lastTag

=============================================================================
