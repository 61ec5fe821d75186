------------------------------ MODULE GcCycle ------------------------------
(***************************************************************************)
(* What one run of gc_collect_cycles (Zend/zend_gc.c) promises, in a single *)
(* step: from the nodes recorded as possible roots it selects for freeing   *)
(* exactly the zvals that nothing outside the selected part of the heap     *)
(* still refers to.  GcTraversal implements it with three marking passes.   *)
(***************************************************************************)
EXTENDS Integers, Sequences, FiniteSets

CONSTANTS
    Zvals, Objs,    \* the two kinds of nodes of the heap graph
    Globals,        \* the zvals that are $GLOBALS
    Heaps,          \* the heap graphs considered
    ExtCounts       \* how many references a node may have from outside

VARIABLES kids, ext, suspects, freed, finished

cycleVars == <<kids, ext, suspects, freed, finished>>

Nodes == Zvals \cup Objs

\* What a node refers to.
Refs(h, n) == {h[n][i] : i \in DOMAIN h[n]}

\* Following references from a node of T never leaves T.  The symbol table is
\* not followed: the variables it holds are alive anyway.
Closed(h, T) == \A n \in T \ Globals : Refs(h, n) \subseteq T

\* The nodes that can be reached from S: those in every closed set around S.
Reach(h, S) == {n \in Nodes : \A T \in SUBSET Nodes : S \subseteq T /\ Closed(h, T) => n \in T}

\* What the running script holds directly: nodes with a reference from outside
\* the graph, $GLOBALS, and the global variables.
Anchors(h, e) == {n \in Nodes : e[n] > 0}
                    \cup Globals \cup UNION {Refs(h, g) : g \in Globals}

Live(h, e) == Reach(h, Anchors(h, e))

\* The part of the graph a collection looks at, and what of it is garbage: what
\* neither the script nor a node outside that part leads to.
Suspected(h, sus) == Reach(h, sus)
Garbage(h, e, sus) ==
    Suspected(h, sus) \ Reach(h, Anchors(h, e) \cup (Nodes \ Suspected(h, sus)))

Init ==
    /\ kids \in Heaps
    /\ ext \in [Nodes -> ExtCounts]
    /\ suspects \in SUBSET Nodes
    /\ freed = {}
    /\ finished = FALSE

Collect ==
    /\ ~ finished
    /\ finished' = TRUE
    /\ freed' = Garbage(kids, ext, suspects) \cap Zvals
    /\ UNCHANGED <<kids, ext, suspects>>

Next == Collect
Spec == Init /\ [][Next]_cycleVars
=============================================================================
