---------------------------- MODULE InOrderCommit ----------------------------
(***************************************************************************)
(* What the out-of-order core promises the rest of the simulator (spec.md *)
(* section 4 and 7): instructions 1..N enter the window in program order,  *)
(* complete in any order, and leave it strictly in program order, each     *)
(* only after it completed; at most Capacity instructions are in the       *)
(* window.  A single step may rename and retire several instructions, as   *)
(* one processor cycle does.                                               *)
(***************************************************************************)
EXTENDS Naturals, FiniteSets

CONSTANTS N, Capacity

VARIABLES
  renamed,   \* the instructions that have entered the window
  retired,   \* the instructions that have left it
  done       \* the instructions that completed execution

Window == renamed \ retired

Init ==
  /\ renamed = {} /\ retired = {}
  /\ done = {}

(* Both sets are always prefixes 1..k of the program.                      *)
Prefixes == {1..k : k \in 0..N}

(* One cycle: rename a further run of instructions, then retire a prefix   *)
(* of the window whose every instruction has completed.                   *)
Cycle ==
  \E r \in Prefixes, t \in Prefixes :
    /\ renamed \subseteq r /\ retired \subseteq t /\ t \subseteq r
    /\ Cardinality(r \ retired) <= Capacity
    /\ t \ retired \subseteq done
    /\ renamed' = r /\ retired' = t
    /\ UNCHANGED done

(* An instruction of the window completes.                                 *)
Complete(d) ==
  /\ d \in Window \ done
  /\ done' = done \cup {d}
  /\ UNCHANGED <<renamed, retired>>

Next == Cycle \/ \E d \in 1..N : Complete(d)

Spec == Init /\ [][Next]_<<renamed, retired, done>>

=============================================================================
