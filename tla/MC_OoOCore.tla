----------------------------- MODULE MC_OoOCore -----------------------------
(***************************************************************************)
(* A six-instruction stream for OoOCore over two registers: a RAW chain   *)
(* 1 -> 2 -> 4 -> 5, a store 3 that reads both registers while both of    *)
(* their producers can still be pending, a WAW on r2 (2 and 4) that fits   *)
(* the register budget beside the store, three replayable loads (1, 4, 5), *)
(* a closing store 6 with no source, so that only the serialization chain  *)
(* orders it after 5 in a window opened by a replay of 4, and a first      *)
(* instruction fetched while statistics were off.                         *)
(***************************************************************************)
EXTENDS OoOCore

CONSTANTS r1, r2

MCProg ==
  << [dst |-> r1,    src |-> {},       load |-> TRUE,  store |-> FALSE, stats |-> FALSE],
     [dst |-> r2,    src |-> {r1},     load |-> FALSE, store |-> FALSE, stats |-> TRUE],
     [dst |-> NoReg, src |-> {r1, r2}, load |-> FALSE, store |-> TRUE, stats |-> TRUE],
     [dst |-> r2,    src |-> {r1},     load |-> TRUE,  store |-> FALSE, stats |-> TRUE],
     [dst |-> r1,    src |-> {r2},     load |-> TRUE,  store |-> FALSE, stats |-> TRUE],
     [dst |-> NoReg, src |-> {},       load |-> FALSE, store |-> TRUE,  stats |-> TRUE] >>

MCRegs == {r1, r2}

(* A four-instruction stream for the liveness runs: a replayable load, a  *)
(* consumer of it, a second load overwriting its register, and a store.  *)
MCProgLive ==
  << [dst |-> r1, src |-> {},   load |-> TRUE,  store |-> FALSE, stats |-> TRUE],
     [dst |-> r2, src |-> {r1}, load |-> FALSE, store |-> FALSE, stats |-> TRUE],
     [dst |-> r1, src |-> {r2}, load |-> TRUE,  store |-> FALSE, stats |-> TRUE],
     [dst |-> NoReg, src |-> {r1}, load |-> FALSE, store |-> TRUE, stats |-> FALSE] >>

(* A five-instruction stream for the serialization windows: two           *)
(* independent loads that can each be replayed close to the previous      *)
(* replay, then two stores and a load, so that a window of two renames    *)
(* can hold a load and a store, or two stores.                            *)
MCProgSerial ==
  << [dst |-> r1,    src |-> {},   load |-> TRUE,  store |-> FALSE, stats |-> TRUE],
     [dst |-> r2,    src |-> {},   load |-> TRUE,  store |-> FALSE, stats |-> TRUE],
     [dst |-> NoReg, src |-> {r1}, load |-> FALSE, store |-> TRUE,  stats |-> TRUE],
     [dst |-> NoReg, src |-> {r2}, load |-> FALSE, store |-> TRUE,  stats |-> TRUE],
     [dst |-> r1,    src |-> {},   load |-> TRUE,  store |-> FALSE, stats |-> TRUE] >>
=============================================================================
