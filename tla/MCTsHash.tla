------------------------------ MODULE MCTsHash ------------------------------
(***************************************************************************)
(* Two tables, and two sets of calls on them: one that orders its copies,   *)
(* and one that also cleans tables in use and copies in both directions.    *)
(***************************************************************************)
EXTENDS TsHash, TLC

CONSTANTS th1, th2, th3, th4, a, b, v

ThreeThreads == {th1, th2, th3}
FourThreads == {th1, th2, th3, th4}
TwoTables == {a, b}
TwoValues == {Empty, v}

OrderedOps == {Find(a), Find(b), Update(a, v), Update(b, v), Copy(a, b), Compare(a, b), Compare(b, a)}
UnorderedOps == {Find(a), Update(a, v), Copy(a, b), Copy(b, a), Copy(a, a), Compare(b, a), Clean(a)}

ThreadSymmetry == Permutations(Threads)
=============================================================================
