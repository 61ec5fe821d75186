------------------------------- MODULE MCTsrm -------------------------------
(* Tsrm with three threads, of which the main one and a worker share a bucket. *)
EXTENDS Tsrm

CONSTANTS main, w1, w2, near, far

ThreeThreads == {main, w1, w2}
TwoBuckets == {near, far}
SharedBucket == [th \in ThreeThreads |-> IF th = w2 THEN far ELSE near]
=============================================================================
