---------------------------- MODULE GcTraversal ----------------------------
(***************************************************************************)
(* The traversal half of gc_collect_cycles (Zend/zend_gc.c): gc_mark_roots,*)
(* gc_scan_roots and gc_collect_roots, from the moment gc_active is set to  *)
(* the moment GC_G(zval_to_free) becomes the free list.  Destructors and    *)
(* the actual freeing come after it and are not part of this module.        *)
(*                                                                         *)
(* The heap is a graph.  A node is a zval or an object of the objects store,*)
(* and `kids' lists what a node refers to: the elements of an array, the    *)
(* properties of an object, the one store object of an object zval.  With   *)
(* that reading the C pairs zval_X/zobj_X are one visit of a node, and the  *)
(* C recursion (the `goto tail_call' included) is a stack of frames.        *)
(* References the collector cannot follow - variables, temporaries, objects *)
(* without get_properties, invalid handles - are counted in `ext'.          *)
(***************************************************************************)
EXTENDS Integers, Sequences, FiniteSets

CONSTANTS
    Zvals,      \* the zvals of the heap (arrays, object zvals, scalars)
    Objs,       \* the store_objects of EG(objects_store)
    Globals,    \* zvals whose array is &EG(symbol_table): $GLOBALS
    Heaps,      \* the heap graphs a collection may start from
    ExtCounts   \* how many references a node may have from outside the graph

Nodes == Zvals \cup Objs

\* A slot is one place that holds a reference: the i-th element of a node.
Slots(h) == UNION {{n} \X DOMAIN h[n] : n \in Nodes}

ASSUME NodesAssumption == /\ Zvals \cap Objs = {}
                          /\ Globals \subseteq Zvals
                          /\ IsFiniteSet(Nodes)
ASSUME HeapsAssumption == \A h \in Heaps : /\ h \in [Nodes -> Seq(Nodes)]
                                           /\ IsFiniteSet(Slots(h))
ASSUME ExtAssumption == ExtCounts \subseteq Nat

VARIABLES
    kids,       \* the heap graph; a collection does not change it
    ext,        \* references to a node the traversal cannot see; constant too
    rc,         \* refcount__gc of a zval, refcount of a store_object
    color,      \* the two low bits of u.buffered
    addr,       \* the nodes whose u.buffered holds a root-buffer address
    behind,     \* the roots list before the cursor `current' ...
    ahead,      \* ... and from the cursor on
    stack,      \* the C stack of the visit in progress, innermost frame first
    phase,
    toFree,     \* GC_G(zval_to_free)
    suspects,   \* history: the nodes buffered when the collection started
    cut         \* history: the slots whose reference is counted down just now

heapVars == <<kids, ext, suspects>>
vars == <<kids, ext, suspects, cut, rc, color, addr, behind, ahead, stack, phase, toFree>>

Colors == {"black", "purple", "grey", "white"}
Frames == [node : Nodes, next : Nat \ {0}, mode : {"mark", "scan", "black", "collect"}]

InSlots(h, x) == {s \in Slots(h) : h[s[1]][s[2]] = x}
Elems(s) == {s[i] : i \in DOMAIN s}

-----------------------------------------------------------------------------
\* A node is created with one reference and destroyed with its last one, so
\* every node of the heap has a reference.  Buffered nodes are purple; a purple
\* node without an address is what gc_zval_possible_root leaves behind when the
\* buffer is still full after a collection.
Init ==
    /\ kids \in Heaps
    /\ ext \in [Nodes -> ExtCounts]
    /\ rc = [n \in Nodes |-> ext[n] + Cardinality(InSlots(kids, n))]
    /\ \A n \in Nodes : rc[n] > 0
    /\ addr \in SUBSET Nodes
    /\ suspects = addr
    /\ cut = {}
    /\ color \in [Nodes -> {"black", "purple"}]
    /\ \A n \in addr : color[n] = "purple"
    /\ behind = <<>>
    /\ ahead \in [1..Cardinality(addr) -> addr]
    /\ Elems(ahead) = addr
    /\ stack = <<>>
    /\ phase = "mark"
    /\ toFree = <<>>

-----------------------------------------------------------------------------
\* The test `Z_TYPE_P(pz) != IS_ARRAY || Z_ARRVAL_P(pz) != &EG(symbol_table)'
\* around every change of a child's refcount: $GLOBALS is never counted down,
\* so it must not be counted up.
Weight(c) == IF c \in Globals THEN 0 ELSE 1

\* Mutant: an object gets its reference back as well.
MutRestoredWeightForObjs(c) == Weight(c)

\* zval_collect_white gives a collected zval back its references; the store
\* object behind an object zval keeps the count the mark phase left it with.
RestoredWeight(c) == IF c \in Objs THEN 0 ELSE Weight(c)

\* Where the loop over a frame's elements ends.  The element list of $GLOBALS
\* is not followed, except by zval_collect_white, which does not test for it.
Last(f) == IF f.node \in Globals /\ f.mode # "collect" THEN 0 ELSE Len(kids[f.node])

Call(c, mode, rest) == <<[node |-> c, next |-> 1, mode |-> mode]>> \o rest
Advance == <<[stack[1] EXCEPT !.next = @ + 1]>> \o Tail(stack)
Slot == <<stack[1].node, stack[1].next>>
Child == kids[stack[1].node][stack[1].next]
AtElement(mode) == stack # <<>> /\ stack[1].mode = mode /\ stack[1].next <= Last(stack[1])
Paint(c, k) == color' = [color EXCEPT ![c] = k]

\* Mutant: the whole word is compared with GC_GREY, not its colour bits, so a
\* grey root is entered again.
MutVisitGreyWholeWord(c, rest) ==
    \/ /\ color[c] = "grey" /\ c \notin addr
       /\ stack' = rest
       /\ UNCHANGED color
    \/ /\ color[c] # "grey" \/ c \in addr
       /\ Paint(c, IF c \in Globals THEN "black" ELSE "grey")
       /\ stack' = Call(c, "mark", rest)

\* zval_mark_grey / zobj_mark_grey: a node is entered once.
VisitGrey(c, rest) ==
    \/ /\ color[c] = "grey"
       /\ stack' = rest
       /\ UNCHANGED color
    \/ /\ color[c] # "grey"
       /\ Paint(c, IF c \in Globals THEN "black" ELSE "grey")
       /\ stack' = Call(c, "mark", rest)

\* Mutant: the node turns black but what it refers to is not counted again.
MutVisitBlackShallow(c, rest) ==
    /\ stack' = rest
    /\ Paint(c, "black")

\* zval_scan_black / zobj_scan_black.
VisitBlack(c, rest) ==
    \/ /\ color[c] = "black"
       /\ stack' = rest
       /\ UNCHANGED color
    \/ /\ color[c] # "black"
       /\ Paint(c, "black")
       /\ stack' = Call(c, "black", rest)

\* zval_scan / zobj_scan: a grey node that still has references is alive and
\* everything it refers to is counted again; one that has none turns white.
VisitScan(c, rest) ==
    \/ /\ color[c] # "grey"
       /\ stack' = rest
       /\ UNCHANGED color
    \/ /\ color[c] = "grey"
       /\ rc[c] > 0
       /\ VisitBlack(c, rest)
    \/ /\ color[c] = "grey"
       /\ rc[c] = 0
       /\ Paint(c, IF c \in Globals THEN "black" ELSE "white")
       /\ stack' = Call(c, "scan", rest)

\* Mutant: GC_SET_BLACK is missing, the node stays white while it is visited.
MutVisitWhiteNotPainted(c, given, addrs, rest) ==
    \/ /\ ~ (color[c] = "white" /\ c \notin addrs)
       /\ rc' = [rc EXCEPT ![c] = @ + given]
       /\ stack' = rest
       /\ UNCHANGED <<color, toFree>>
    \/ /\ color[c] = "white" /\ c \notin addrs
       /\ rc' = [rc EXCEPT ![c] = @ + given + 1]
       /\ toFree' = IF c \in Zvals THEN <<c>> \o toFree ELSE toFree
       /\ stack' = Call(c, "collect", rest)
       /\ UNCHANGED color

\* zval_collect_white / zobj_collect_white.  `u.buffered == GC_WHITE' compares
\* the whole word, so a white node that still has a root-buffer address is left
\* to gc_collect_roots.  Only zvals go on the list, holding one more reference.
VisitWhite(c, given, addrs, rest) ==
    \/ /\ ~ (color[c] = "white" /\ c \notin addrs)
       /\ rc' = [rc EXCEPT ![c] = @ + given]
       /\ stack' = rest
       /\ UNCHANGED <<color, toFree>>
    \/ /\ color[c] = "white"
       /\ c \notin addrs
       /\ Paint(c, "black")
       /\ rc' = [rc EXCEPT ![c] = @ + given + IF c \in Zvals THEN 1 ELSE 0]
       /\ toFree' = IF c \in Zvals THEN <<c>> \o toFree ELSE toFree
       /\ stack' = Call(c, "collect", rest)

-----------------------------------------------------------------------------
\* The loop of gc_mark_roots: a root that an earlier root already reached, or
\* that is no longer purple, leaves the buffer.
MarkRoot ==
    /\ phase = "mark" /\ stack = <<>> /\ ahead # <<>>
    /\ color[Head(ahead)] = "purple"
    /\ VisitGrey(Head(ahead), <<>>)
    /\ behind' = Append(behind, Head(ahead))
    /\ ahead' = Tail(ahead)
    /\ UNCHANGED <<heapVars, cut, rc, addr, phase, toFree>>

\* Mutant: the buffer entry is freed but the node keeps its address.
MutDropRootKeepsAddress ==
    /\ phase = "mark" /\ stack = <<>> /\ ahead # <<>>
    /\ color[Head(ahead)] # "purple"
    /\ ahead' = Tail(ahead)
    /\ UNCHANGED <<heapVars, cut, rc, color, addr, behind, stack, phase, toFree>>

DropRoot ==
    /\ phase = "mark" /\ stack = <<>> /\ ahead # <<>>
    /\ color[Head(ahead)] # "purple"
    /\ addr' = addr \ {Head(ahead)}
    /\ ahead' = Tail(ahead)
    /\ UNCHANGED <<heapVars, cut, rc, color, behind, stack, phase, toFree>>

MarkElement ==
    /\ AtElement("mark")
    /\ rc' = [rc EXCEPT ![Child] = @ - Weight(Child)]
    /\ cut' = IF Weight(Child) = 1 THEN cut \cup {Slot} ELSE cut
    /\ VisitGrey(Child, Advance)
    /\ UNCHANGED <<heapVars, addr, behind, ahead, phase, toFree>>

ScanRoot ==
    /\ phase = "scan" /\ stack = <<>> /\ ahead # <<>>
    /\ VisitScan(Head(ahead), <<>>)
    /\ behind' = Append(behind, Head(ahead))
    /\ ahead' = Tail(ahead)
    /\ UNCHANGED <<heapVars, cut, rc, addr, phase, toFree>>

ScanElement ==
    /\ AtElement("scan")
    /\ VisitScan(Child, Advance)
    /\ UNCHANGED <<heapVars, cut, rc, addr, behind, ahead, phase, toFree>>

BlackElement ==
    /\ AtElement("black")
    /\ rc' = [rc EXCEPT ![Child] = @ + Weight(Child)]
    /\ cut' = cut \ {Slot}
    /\ VisitBlack(Child, Advance)
    /\ UNCHANGED <<heapVars, addr, behind, ahead, phase, toFree>>

\* Mutant: the cursor is not moved on.
MutCollectRootStays ==
    /\ phase = "collect" /\ stack = <<>> /\ ahead # <<>>
    /\ addr' = addr \ {Head(ahead)}
    /\ VisitWhite(Head(ahead), 0, addr', <<>>)
    /\ UNCHANGED <<heapVars, cut, behind, ahead, phase>>

\* Mutant: the root is visited before its address is cleared.
MutCollectRootLateClear ==
    /\ phase = "collect" /\ stack = <<>> /\ ahead # <<>>
    /\ addr' = addr \ {Head(ahead)}
    /\ VisitWhite(Head(ahead), 0, addr, <<>>)
    /\ ahead' = Tail(ahead)
    /\ UNCHANGED <<heapVars, cut, behind, phase>>

\* The loop of gc_collect_roots: every root leaves the buffer.
CollectRoot ==
    /\ phase = "collect" /\ stack = <<>> /\ ahead # <<>>
    /\ addr' = addr \ {Head(ahead)}
    /\ VisitWhite(Head(ahead), 0, addr', <<>>)
    /\ ahead' = Tail(ahead)
    /\ UNCHANGED <<heapVars, cut, behind, phase>>

CollectElement ==
    /\ AtElement("collect")
    /\ VisitWhite(Child, RestoredWeight(Child), addr, Advance)
    /\ cut' = IF RestoredWeight(Child) = 1 THEN cut \ {Slot} ELSE cut
    /\ UNCHANGED <<heapVars, addr, behind, ahead, phase>>

\* The end of a frame's element list.
Return ==
    /\ stack # <<>>
    /\ stack[1].next > Last(stack[1])
    /\ stack' = Tail(stack)
    /\ UNCHANGED <<heapVars, cut, rc, color, addr, behind, ahead, phase, toFree>>

\* A pass over the roots is over; the next one starts at the head of the list.
NextPhase ==
    /\ phase # "done" /\ stack = <<>> /\ ahead = <<>>
    /\ phase' = CASE phase = "mark" -> "scan"
                  [] phase = "scan" -> "collect"
                  [] phase = "collect" -> "done"
    /\ ahead' = behind
    /\ behind' = <<>>
    /\ UNCHANGED <<heapVars, cut, rc, color, addr, stack, toFree>>

Finished == phase = "done" /\ UNCHANGED vars

Next == \/ MarkRoot \/ DropRoot \/ MarkElement
        \/ ScanRoot \/ ScanElement \/ BlackElement
        \/ CollectRoot \/ CollectElement
        \/ Return \/ NextPhase \/ Finished

Spec == Init /\ [][Next]_vars
FairSpec == Spec /\ WF_vars(Next)
-----------------------------------------------------------------------------
TypeOK ==
    /\ kids \in Heaps
    /\ ext \in [Nodes -> ExtCounts]
    /\ suspects \in SUBSET Nodes
    /\ cut \in SUBSET Slots(kids)
    /\ rc \in [Nodes -> Nat]
    /\ color \in [Nodes -> Colors]
    /\ addr \in SUBSET Nodes
    /\ behind \in Seq(Nodes)
    /\ ahead \in Seq(Nodes)
    /\ stack \in Seq(Frames)
    /\ phase \in {"mark", "scan", "collect", "done"}
    /\ toFree \in Seq(Zvals)

\* What a finished collection condemns: the zvals on its list, and the objects
\* that have no reference left (the test the destroy loop makes later on).
Condemned == Elems(toFree) \cup {o \in Objs : rc[o] = 0}

Cycle == INSTANCE GcCycle WITH
    freed <- IF phase = "done" THEN Elems(toFree) ELSE {},
    finished <- (phase = "done")

\* gc_collect_roots never condemns a node the script can still reach, through
\* whatever chain of arrays, objects and references: no premature free.
OnlyGarbage ==
    phase = "done" => Condemned \cap Cycle!Live(kids, ext) = {}

\* A node is put on zval_to_free at most once: the free loop at the end of
\* gc_collect_cycles releases every zval of the list exactly once.
NoDoubleFree ==
    \A i, j \in DOMAIN toFree : toFree[i] = toFree[j] => i = j

\* The passes leave every refcount as destruction will need it: a zval counts
\* all references to it, plus the collector's own while it is on the list; an
\* object counts only the references that survive, since the object zvals of
\* the list are freed without giving theirs back.
CountsRestored ==
    phase = "done" =>
        \A n \in Nodes :
            rc[n] = ext[n] + (IF n \in Elems(toFree) THEN 1 ELSE 0)
                    + Cardinality({s \in InSlots(kids, n) : n \in Objs => s[1] \notin Condemned})

\* The root buffer is empty afterwards and no node keeps a colour or an address
\* of this run, so the next run starts from a clean heap.
HeapCleaned ==
    phase = "done" => /\ addr = {}
                      /\ \A n \in Nodes : color[n] \notin {"grey", "white"}
                      /\ \A n \in suspects : color[n] = "black"

\* Cyclic graphs and nested visits notwithstanding, a collection ends.
Terminates == <>(phase = "done")

\* The three passes implement the one-step collection: they free all of the
\* garbage the suspects lead to and nothing else.
CycleSpec == Cycle!Spec
=============================================================================
