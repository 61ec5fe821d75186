---------------------------- MODULE TsHashAtomic ----------------------------
(***************************************************************************)
(* What the thread-safe hash tables of Zend/zend_ts_hash.c promise: every   *)
(* call takes effect at one instant, on all the tables it is given at once. *)
(***************************************************************************)
EXTENDS Sequences

CONSTANTS Threads, Tables, Ops, NoTable, Empty

VARIABLES
    table,      \* the contents of each table
    last        \* the operation each thread performed last, and what it saw

vars == <<table, last>>

\* A write leaves either the operation's own value or a copy of what it read.
Written(o, saw) == IF o.reads = <<>> THEN o.value ELSE saw[1]

Init ==
    /\ table = [t \in Tables |-> Empty]
    /\ last = [th \in Threads |-> <<>>]

Perform(th, o) ==
    LET saw == [k \in DOMAIN o.reads |-> table[o.reads[k]]] IN
    /\ last' = [last EXCEPT ![th] = <<o, saw>>]
    /\ table' = IF o.write = NoTable THEN table
                ELSE [table EXCEPT ![o.write] = Written(o, saw)]

Next == \E th \in Threads, o \in Ops : Perform(th, o)

Spec == Init /\ [][Next]_vars
=============================================================================
