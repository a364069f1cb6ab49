---------------------------- MODULE MCWorkerJob ----------------------------
(* Instances of WorkerJob for TLC. *)
EXTENDS WorkerJob, TLC

CONSTANTS c1, c2

(* The announce lists both chunks; either may be open, absent or stored. *)
MCNames == {<<c1, c2>>}

MCNamesOne == {<<c1>>}

Workers == Permutations(Uploaders)
=============================================================================
