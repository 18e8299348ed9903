----------------------------- MODULE MCWorkerHost -----------------------------
(***************************************************************************)
(* Small instances of WorkerHost for TLC: two files, one of them running   *)
(* blocked native code, on one or two threads.                             *)
(***************************************************************************)
EXTENDS WorkerHost

CONSTANTS f1, f2

MCFiles == {f1, f2}
MCStuck == {f1}
MCOrphans == {f2}
MCNone == {}
MCCrash == {"crash"}
MCAllFaults == FaultKinds
=============================================================================
