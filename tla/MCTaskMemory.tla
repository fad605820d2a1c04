---------------------------- MODULE MCTaskMemory ----------------------------
(* Instances of TaskMemory for TLC: small tasks of a small machine, and    *)
(* the smallest tasks that a 64 bit build accepts.                         *)
EXTENDS TaskMemory

SmallSizes == 60..69
MinSizes   == 1024..1535
=============================================================================
