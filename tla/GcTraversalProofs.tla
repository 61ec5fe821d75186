------------------------- MODULE GcTraversalProofs -------------------------
(***************************************************************************)
(* Proofs about GcTraversal, for every heap.                               *)
(*                                                                         *)
(* The inductive invariant IInv says, pass by pass, which slots are counted *)
(* down (`cut').  The mark pass cuts exactly the slots of grey nodes.  The  *)
(* scan pass keeps a cut slot only under a grey or white node, or under a   *)
(* black one whose frame is still going to count it again; so a node can    *)
(* only be white when nothing outside the graph and no black node refers to *)
(* it.  The collect pass moves white nodes to the list without changing the *)
(* set of condemned nodes.  That a pass leaves nothing unvisited is said    *)
(* without paths: every non-empty set S of unvisited nodes has a node that  *)
(* a root, a frame or a node outside S still leads the visit to.            *)
(*                                                                         *)
(* CutInv follows the slots that the collect pass counts again, for the     *)
(* refcounts it leaves.  SuspectInv and TrapInv say that the passes paint    *)
(* only what the suspects lead to, and that a set of such nodes that nothing *)
(* else refers to is condemned as a whole: with them the three passes        *)
(* implement the one-step collection of GcCycle.                            *)
(***************************************************************************)
EXTENDS GcTraversal, FiniteSetTheorems, TLAPS

Grey == {n \in Nodes : color[n] = "grey"}
White == {n \in Nodes : color[n] = "white"}
To(s) == kids[s[1]][s[2]]

\* On the C stack st, a frame of s's node has s still ahead of it.
Pending(st, s) ==
    /\ s[1] \notin Globals
    /\ \E k \in DOMAIN st : st[k].node = s[1] /\ st[k].next <= s[2]
PendingBlack(st, s) ==
    /\ s[1] \notin Globals
    /\ \E k \in DOMAIN st : /\ st[k].mode = "black"
                            /\ st[k].node = s[1]
                            /\ st[k].next <= s[2]

TypeInv ==
    /\ kids \in Heaps
    /\ ext \in [Nodes -> ExtCounts]
    /\ suspects \in SUBSET Nodes
    /\ cut \in SUBSET Slots(kids)
    /\ rc \in [Nodes -> Int]
    /\ color \in [Nodes -> Colors]
    /\ addr \in SUBSET Nodes
    /\ behind \in Seq(Nodes)
    /\ ahead \in Seq(Nodes)
    /\ stack \in Seq(Frames)
    /\ phase \in {"mark", "scan", "collect", "done"}
    /\ toFree \in Seq(Zvals)

\* Which frames a pass may have on the stack, and which entries carry addresses.
FrameInv ==
    /\ phase = "mark" => \A k \in DOMAIN stack : stack[k].mode = "mark"
    /\ phase = "scan" => \A k \in DOMAIN stack : stack[k].mode \in {"scan", "black"}
    /\ phase = "collect" => \A k \in DOMAIN stack : stack[k].mode = "collect"
    /\ phase = "done" => stack = <<>> /\ ahead = <<>>
    /\ phase \in {"collect", "done"} => behind = <<>>
    /\ phase \in {"mark", "scan"} => toFree = <<>>
    /\ addr \subseteq Elems(behind) \cup Elems(ahead)

\* A refcount is the number of references that are not counted down.
RefInv ==
    phase \in {"mark", "scan"} =>
        \A n \in Nodes : rc[n] = ext[n] + Cardinality(InSlots(kids, n) \ cut)

MarkInv ==
    phase = "mark" =>
        /\ \A n \in Nodes : color[n] # "white"
        /\ \A g \in Globals : color[g] # "grey"
        /\ \A s \in cut : color[s[1]] = "grey" /\ color[To(s)] = "grey"
        /\ \A s \in Slots(kids) : color[s[1]] = "grey" =>
                s \in cut \/ Pending(stack, s) \/ To(s) \in Globals
        /\ \A k \in DOMAIN stack : stack[k].node \notin Globals =>
                /\ color[stack[k].node] = "grey"
                /\ \A s \in cut : s[1] = stack[k].node => s[2] < stack[k].next
                /\ \A j \in DOMAIN stack : stack[j].node = stack[k].node => j = k
        /\ \A n \in Nodes : color[n] # "grey" => rc[n] > 0
        /\ \A S \in SUBSET Grey : S # {} =>
                \/ S \cap Elems(behind) # {}
                \/ \E s \in Slots(kids) : s[1] \in Grey \ S /\ To(s) \in S
        /\ \A n \in suspects : color[n] = "purple" => n \in Elems(ahead)

ScanInv ==
    phase = "scan" =>
        /\ \A g \in Globals : color[g] \in {"black", "purple"}
        /\ \A s \in cut : /\ color[s[1]] \in {"grey", "white"} \/ PendingBlack(stack, s)
                          /\ color[To(s)] # "purple"
                          /\ s[1] \notin Globals
                          /\ To(s) \notin Globals
        /\ \A s \in Slots(kids) : color[s[1]] \in {"grey", "white"} =>
                s \in cut \/ To(s) \in Globals
        /\ \A k \in DOMAIN stack : stack[k].mode = "black" /\ stack[k].node \notin Globals =>
                /\ color[stack[k].node] = "black"
                /\ \A s \in Slots(kids) : s[1] = stack[k].node /\ stack[k].next <= s[2] =>
                        s \in cut \/ To(s) \in Globals
                /\ \A j \in DOMAIN stack :
                        stack[j].mode = "black" /\ stack[j].node = stack[k].node => j = k
        /\ \A n \in White : rc[n] = 0
        /\ \A n \in Nodes : color[n] \in {"black", "purple"} => rc[n] > 0
        /\ \A S \in SUBSET Grey : S # {} =>
                \/ S \cap Elems(ahead) # {}
                \/ \E s \in Slots(kids) : To(s) \in S /\ (s[1] \in Grey \ S \/ Pending(stack, s))
        /\ \A S \in SUBSET (Grey \cup White) : S # {} =>
                \/ S \cap (Elems(behind) \cup Elems(ahead)) # {}
                \/ \E s \in Slots(kids) : To(s) \in S /\ s[1] \notin S
        /\ \A n \in suspects : color[n] # "purple"

\* The nodes a collection has condemned or is about to.
Doomed == White \cup Condemned

CollectInv ==
    phase \in {"collect", "done"} =>
        /\ Grey = {}
        /\ rc \in [Nodes -> Nat]
        /\ \A n \in Doomed : /\ ext[n] = 0
                             /\ n \notin Globals
                             /\ \A s \in InSlots(kids, n) : s[1] \in Doomed
        /\ \A o \in Objs : color[o] = "white" => rc[o] = 0
        /\ \A i \in DOMAIN toFree : color[toFree[i]] = "black"
        /\ \A i, j \in DOMAIN toFree : toFree[i] = toFree[j] => i = j
        /\ \A S \in SUBSET White : S # {} =>
                \/ S \cap Elems(ahead) # {}
                \/ \E s \in Slots(kids) : To(s) \in S /\ (s[1] \in White \ S \/ Pending(stack, s))
        /\ \A n \in suspects : color[n] # "purple"

IInv == TypeInv /\ FrameInv /\ RefInv /\ MarkInv /\ ScanInv /\ CollectInv
-----------------------------------------------------------------------------
(* Facts about slots and stacks. *)

\* A slot is a node and a position in that node's element list.
LEMMA SlotFacts ==
    ASSUME NEW h \in Heaps
    PROVE  /\ h \in [Nodes -> Seq(Nodes)]
           /\ IsFiniteSet(Slots(h))
           /\ \A n \in Nodes : \A i \in DOMAIN h[n] : <<n, i>> \in Slots(h)
           /\ \A s \in Slots(h) : /\ s = <<s[1], s[2]>>
                                  /\ s[1] \in Nodes
                                  /\ s[2] \in DOMAIN h[s[1]]
                                  /\ s[2] \in 1..Len(h[s[1]])
                                  /\ h[s[1]][s[2]] \in Nodes
<1>1. h \in [Nodes -> Seq(Nodes)] /\ IsFiniteSet(Slots(h))
  BY HeapsAssumption
<1>2. \A n \in Nodes : \A i \in DOMAIN h[n] : <<n, i>> \in Slots(h)
  BY DEF Slots
<1>3. ASSUME NEW s \in Slots(h)
      PROVE  /\ s = <<s[1], s[2]>>
             /\ s[1] \in Nodes
             /\ s[2] \in DOMAIN h[s[1]]
             /\ s[2] \in 1..Len(h[s[1]])
             /\ h[s[1]][s[2]] \in Nodes
  <2>1. PICK n \in Nodes : s \in {n} \X DOMAIN h[n]
    BY DEF Slots
  <2>2. h[n] \in Seq(Nodes)
    BY <1>1
  <2>3. s[1] = n /\ s[2] \in DOMAIN h[n] /\ s = <<s[1], s[2]>>
    BY <2>1
  <2>4. DOMAIN h[n] = 1..Len(h[n])
    BY <2>2
  <2> QED
    BY <2>2, <2>3, <2>4
<1> QED
  BY <1>1, <1>2, <1>3

\* Entering a node puts its frame on top and keeps the frames below.
LEMMA CallFacts ==
    ASSUME NEW st \in Seq(Frames), NEW c \in Nodes,
           NEW m \in {"mark", "scan", "black", "collect"}
    PROVE  /\ Call(c, m, st) \in Seq(Frames)
           /\ Len(Call(c, m, st)) = Len(st) + 1
           /\ Call(c, m, st)[1] = [node |-> c, next |-> 1, mode |-> m]
           /\ \A k \in 1..Len(st) : Call(c, m, st)[k + 1] = st[k]
           /\ \A k \in 2..(Len(st) + 1) : Call(c, m, st)[k] = st[k - 1]
  BY DEF Call, Frames

\* Moving on to the next element changes the top frame's position only.
LEMMA AdvanceFacts ==
    ASSUME stack \in Seq(Frames), stack # <<>>
    PROVE  /\ stack[1] \in Frames
           /\ Advance \in Seq(Frames)
           /\ Len(Advance) = Len(stack)
           /\ Advance[1] = [stack[1] EXCEPT !.next = @ + 1]
           /\ Advance[1].next = stack[1].next + 1
           /\ Advance[1].node = stack[1].node
           /\ Advance[1].mode = stack[1].mode
           /\ \A k \in 2..Len(stack) : Advance[k] = stack[k]
<1>1. stack[1] \in Frames
  OBVIOUS
<1>2. [stack[1] EXCEPT !.next = @ + 1] \in Frames
  BY <1>1 DEF Frames
<1>3. Tail(stack) \in Seq(Frames) /\ Len(Tail(stack)) = Len(stack) - 1
  OBVIOUS
<1>4. \A k \in 2..Len(stack) : Tail(stack)[k - 1] = stack[k]
  OBVIOUS
<1>5. Advance[1] = [stack[1] EXCEPT !.next = @ + 1]
  BY <1>2, <1>3 DEF Advance
<1>6. Advance[1].next = stack[1].next + 1 /\ Advance[1].node = stack[1].node /\ Advance[1].mode = stack[1].mode
  BY <1>1, <1>5 DEF Frames
<1>7. Advance \in Seq(Frames) /\ Len(Advance) = Len(stack)
  BY <1>2, <1>3 DEF Advance
<1>8. \A k \in 2..Len(stack) : Advance[k] = stack[k]
  BY <1>2, <1>3, <1>4 DEF Advance
<1> QED
  BY <1>1, <1>5, <1>6, <1>7, <1>8

\* The visits only change the stack, the colour of the visited node and, in the
\* collect pass, its refcount and the list.
LEMMA RestFacts ==
    ASSUME stack \in Seq(Frames), stack # <<>>
    PROVE  /\ Tail(stack) \in Seq(Frames)
           /\ Len(Tail(stack)) = Len(stack) - 1
           /\ Len(stack) \in Nat \ {0}
           /\ \A k \in 1..Len(Tail(stack)) : Tail(stack)[k] = stack[k + 1]
           /\ \A k \in 2..Len(stack) : Tail(stack)[k - 1] = stack[k]
  OBVIOUS

\* The child the top frame is at, in the typed state.
LEMMA ChildFacts ==
    ASSUME TypeInv, NEW m \in {"mark", "scan", "black", "collect"}, AtElement(m)
    PROVE  /\ stack # <<>>
           /\ stack[1] \in Frames
           /\ stack[1].mode = m
           /\ Slot \in Slots(kids)
           /\ Slot[1] = stack[1].node
           /\ Slot[2] = stack[1].next
           /\ Child \in Nodes
           /\ Child = To(Slot)
           /\ m # "collect" => stack[1].node \notin Globals
<1>1. stack # <<>> /\ stack[1] \in Frames /\ stack[1].mode = m
  BY DEF TypeInv, AtElement
<1>2. stack[1].node \in Nodes /\ stack[1].next \in Nat \ {0}
  BY <1>1 DEF Frames
<1>3. kids[stack[1].node] \in Seq(Nodes)
  BY <1>2, SlotFacts DEF TypeInv
<1>4. stack[1].next \in 1..Len(kids[stack[1].node]) /\ (m # "collect" => stack[1].node \notin Globals)
  BY <1>1, <1>2, <1>3 DEF AtElement, Last
<1>5. stack[1].next \in DOMAIN kids[stack[1].node]
  BY <1>3, <1>4
<1>6. Slot \in Slots(kids)
  BY <1>2, <1>5, SlotFacts DEF Slot, TypeInv
<1>7. Child \in Nodes
  BY <1>3, <1>4 DEF Child
<1> QED
  BY <1>1, <1>4, <1>6, <1>7 DEF Slot, Child, To

\* After moving on, the only slot no longer pending is the one just taken.
LEMMA PendingAdvance ==
    ASSUME stack \in Seq(Frames), stack # <<>>, NEW s \in Slots(kids), kids \in Heaps
    PROVE  /\ Pending(stack, s) => s = Slot \/ Pending(Advance, s)
           /\ PendingBlack(stack, s) => s = Slot \/ PendingBlack(Advance, s)
<1>1. stack[1].next \in Nat /\ s[2] \in Nat /\ s = <<s[1], s[2]>>
  <2>1. stack[1] \in Frames
    OBVIOUS
  <2> QED
    BY <2>1, SlotFacts DEF Frames
<1>2. DOMAIN stack = 1..Len(stack) /\ DOMAIN Advance = 1..Len(stack)
  BY AdvanceFacts
<1>3. ASSUME NEW k \in DOMAIN stack, stack[k].node = s[1], stack[k].next <= s[2], s # Slot
      PROVE  Advance[k].node = s[1] /\ Advance[k].next <= s[2] /\ Advance[k].mode = stack[k].mode
  <2>1. CASE k = 1
    <3>1. stack[1].next # s[2]
      BY <1>1, <1>3, <2>1 DEF Slot
    <3> QED
      BY <1>1, <1>3, <2>1, <3>1, AdvanceFacts
  <2>2. CASE k # 1
    BY <1>2, <1>3, <2>2, AdvanceFacts
  <2> QED
    BY <2>1, <2>2
<1> QED
  BY <1>2, <1>3 DEF Pending, PendingBlack

\* After entering c, the slots of c are pending, and so is what was before.
LEMMA PendingCall ==
    ASSUME NEW st \in Seq(Frames), NEW c \in Nodes, kids \in Heaps,
           NEW m \in {"mark", "scan", "black", "collect"}, NEW s \in Slots(kids)
    PROVE  /\ Pending(st, s) => Pending(Call(c, m, st), s)
           /\ PendingBlack(st, s) => PendingBlack(Call(c, m, st), s)
           /\ s[1] = c /\ c \notin Globals => Pending(Call(c, m, st), s)
           /\ s[1] = c /\ c \notin Globals /\ m = "black" => PendingBlack(Call(c, m, st), s)
<1>1. s[2] \in Nat /\ s[2] >= 1
  BY SlotFacts
<1>2. DOMAIN st = 1..Len(st) /\ DOMAIN Call(c, m, st) = 1..(Len(st) + 1) /\ Len(st) \in Nat
  BY DEF Call, Frames
<1>3. \A k \in DOMAIN st : k + 1 \in DOMAIN Call(c, m, st) /\ Call(c, m, st)[k + 1] = st[k]
  BY <1>2 DEF Call, Frames
<1>4. 1 \in DOMAIN Call(c, m, st)
  BY <1>2
<1>5. Call(c, m, st)[1] = [node |-> c, next |-> 1, mode |-> m]
  BY DEF Call, Frames
<1> QED
  BY <1>1, <1>3, <1>4, <1>5 DEF Pending, PendingBlack

\* A frame at the end of its element list has no slot ahead of it.
LEMMA PendingReturn ==
    ASSUME TypeInv, stack # <<>>, stack[1].next > Last(stack[1]), NEW s \in Slots(kids)
    PROVE  /\ Pending(stack, s) => Pending(Tail(stack), s)
           /\ PendingBlack(stack, s) => PendingBlack(Tail(stack), s)
<1>1. stack \in Seq(Frames) /\ stack[1] \in Frames
  BY DEF TypeInv
<1>2. DOMAIN stack = 1..Len(stack) /\ DOMAIN Tail(stack) = 1..(Len(stack) - 1) /\ Len(stack) \in Nat
  BY <1>1, RestFacts
<1>3. stack[1].node = s[1] /\ s[1] \notin Globals => ~ (stack[1].next <= s[2])
  <2>1. s[2] \in 1..Len(kids[s[1]]) /\ kids[s[1]] \in Seq(Nodes)
    BY SlotFacts DEF TypeInv
  <2>2. stack[1].next \in Nat
    BY <1>1 DEF Frames
  <2> QED
    BY <2>1, <2>2 DEF Last
<1>4. \A k \in DOMAIN stack : k # 1 => k - 1 \in DOMAIN Tail(stack) /\ Tail(stack)[k - 1] = stack[k]
  BY <1>1, <1>2, RestFacts
<1>5. Pending(stack, s) => Pending(Tail(stack), s)
  BY <1>3, <1>4 DEF Pending
<1>6. PendingBlack(stack, s) => PendingBlack(Tail(stack), s)
  BY <1>3, <1>4 DEF PendingBlack
<1> QED
  BY <1>5, <1>6

-----------------------------------------------------------------------------
(* The types of the variables. *)

\* The initial state has the right types.
LEMMA InitType == Init => TypeInv /\ FrameInv
<1> SUFFICES ASSUME Init PROVE TypeInv /\ FrameInv
  OBVIOUS
<1>1. rc \in [Nodes -> Int]
  <2>1. ASSUME NEW n \in Nodes PROVE ext[n] + Cardinality(InSlots(kids, n)) \in Int
    <3>1. ext[n] \in Nat
      BY ExtAssumption DEF Init
    <3>2. IsFiniteSet(InSlots(kids, n))
      BY SlotFacts, FS_Subset DEF InSlots, Init
    <3> QED
      BY <3>1, <3>2, FS_CardinalityType
  <2> QED
    BY <2>1 DEF Init
<1>2. ahead \in Seq(Nodes)
  <2>1. Cardinality(addr) \in Nat
    BY NodesAssumption, FS_Subset, FS_CardinalityType DEF Init
  <2>2. ahead \in [1..Cardinality(addr) -> Nodes]
    BY DEF Init
  <2> QED
    BY <2>1, <2>2
<1>3. color \in [Nodes -> Colors]
  BY DEF Init, Colors
<1>4. addr \subseteq Elems(behind) \cup Elems(ahead)
  BY DEF Init
<1> QED
  BY <1>1, <1>2, <1>3, <1>4 DEF Init, TypeInv, FrameInv

\* A visit leaves a well-typed stack and colouring.
LEMMA VisitTypes ==
    ASSUME color \in [Nodes -> Colors], NEW c \in Nodes, NEW rest \in Seq(Frames)
    PROVE  /\ VisitGrey(c, rest) =>
                /\ color' \in [Nodes -> Colors]
                /\ stack' \in Seq(Frames)
                /\ stack' = rest \/ stack' = Call(c, "mark", rest)
           /\ VisitBlack(c, rest) =>
                /\ color' \in [Nodes -> Colors]
                /\ stack' \in Seq(Frames)
                /\ stack' = rest \/ stack' = Call(c, "black", rest)
           /\ VisitScan(c, rest) =>
                /\ color' \in [Nodes -> Colors]
                /\ stack' \in Seq(Frames)
                /\ stack' = rest \/ stack' = Call(c, "black", rest) \/ stack' = Call(c, "scan", rest)
<1>1. \A m \in {"mark", "scan", "black", "collect"} : Call(c, m, rest) \in Seq(Frames)
  BY CallFacts
<1>2. \A k \in Colors : Paint(c, k) => color' \in [Nodes -> Colors]
  BY DEF Paint
<1>3. ASSUME VisitGrey(c, rest)
      PROVE  /\ color' \in [Nodes -> Colors]
             /\ stack' = rest \/ stack' = Call(c, "mark", rest)
  BY <1>2, <1>3 DEF VisitGrey, Colors
<1>4. ASSUME VisitBlack(c, rest)
      PROVE  /\ color' \in [Nodes -> Colors]
             /\ stack' = rest \/ stack' = Call(c, "black", rest)
  BY <1>2, <1>4 DEF VisitBlack, Colors
<1>5. ASSUME VisitScan(c, rest)
      PROVE  /\ color' \in [Nodes -> Colors]
             /\ stack' = rest \/ stack' = Call(c, "black", rest) \/ stack' = Call(c, "scan", rest)
  BY <1>2, <1>4, <1>5 DEF VisitScan, Colors
<1> QED
  BY <1>1, <1>3, <1>4, <1>5

LEMMA VisitWhiteTypes ==
    ASSUME TypeInv, NEW c \in Nodes, NEW rest \in Seq(Frames),
           NEW given \in {0, 1}, NEW A, VisitWhite(c, given, A, rest)
    PROVE  /\ color' \in [Nodes -> Colors]
           /\ rc' \in [Nodes -> Int]
           /\ stack' \in Seq(Frames)
           /\ stack' = rest \/ stack' = Call(c, "collect", rest)
           /\ toFree' \in Seq(Zvals)
<1>1. CASE ~ (color[c] = "white" /\ c \notin A)
  BY <1>1 DEF VisitWhite, TypeInv
<1>2. CASE color[c] = "white" /\ c \notin A
  <2>0. color' \in [Nodes -> Colors]
    BY <1>2 DEF VisitWhite, TypeInv, Paint, Colors
  <2>a. rc[c] + given + (IF c \in Zvals THEN 1 ELSE 0) \in Int
    BY DEF TypeInv
  <2>b. rc' = [rc EXCEPT ![c] = rc[c] + given + (IF c \in Zvals THEN 1 ELSE 0)]
    BY <1>2 DEF VisitWhite
  <2>1. color' \in [Nodes -> Colors] /\ rc' \in [Nodes -> Int]
    BY <2>0, <2>a, <2>b DEF TypeInv
  <2>2. stack' = Call(c, "collect", rest) /\ stack' \in Seq(Frames)
    BY <1>2, CallFacts DEF VisitWhite
  <2>3. toFree' \in Seq(Zvals)
    <3>1. toFree' = IF c \in Zvals THEN <<c>> \o toFree ELSE toFree
      BY <1>2 DEF VisitWhite
    <3>2. CASE c \in Zvals
      BY <3>1, <3>2 DEF TypeInv
    <3> QED
      BY <3>1, <3>2 DEF TypeInv
  <2> QED
    BY <2>1, <2>2, <2>3
<1> QED
  BY <1>1, <1>2

\* Every step keeps the types.
LEMMA TypeStep == TypeInv /\ [Next]_vars => TypeInv'
<1> SUFFICES ASSUME TypeInv, [Next]_vars PROVE TypeInv'
  OBVIOUS
<1> USE DEF TypeInv
<1>h. ahead # <<>> => /\ Head(ahead) \in Nodes /\ Tail(ahead) \in Seq(Nodes)
                      /\ Append(behind, Head(ahead)) \in Seq(Nodes)
  OBVIOUS
<1>e. <<>> \in Seq(Frames)
  OBVIOUS
<1>w. \A c : Weight(c) \in {0, 1} /\ RestoredWeight(c) \in {0, 1}
  BY DEF Weight, RestoredWeight
<1>1. CASE MarkRoot
  BY <1>1, <1>h, <1>e, VisitTypes DEF MarkRoot, heapVars
<1>2. CASE DropRoot
  BY <1>2, <1>h DEF DropRoot, heapVars
<1>3. CASE MarkElement
  <2>1. Child \in Nodes /\ Slot \in Slots(kids) /\ Advance \in Seq(Frames)
    BY <1>3, ChildFacts, AdvanceFacts DEF MarkElement
  <2>2. cut' \in SUBSET Slots(kids)
    BY <1>3, <2>1 DEF MarkElement
  <2>3. rc' \in [Nodes -> Int]
    BY <1>3, <2>1 DEF MarkElement, Weight
  <2>4. color' \in [Nodes -> Colors] /\ stack' \in Seq(Frames)
    BY <1>3, <2>1, VisitTypes DEF MarkElement
  <2> QED
    BY <1>3, <2>2, <2>3, <2>4 DEF MarkElement, heapVars
<1>4. CASE ScanRoot
  BY <1>4, <1>h, <1>e, VisitTypes DEF ScanRoot, heapVars
<1>5. CASE ScanElement
  <2>1. Child \in Nodes /\ Advance \in Seq(Frames)
    BY <1>5, ChildFacts, AdvanceFacts DEF ScanElement
  <2> QED
    BY <1>5, <2>1, VisitTypes DEF ScanElement, heapVars
<1>6. CASE BlackElement
  <2>1. Child \in Nodes /\ Advance \in Seq(Frames)
    BY <1>6, ChildFacts, AdvanceFacts DEF BlackElement
  <2>2. rc' \in [Nodes -> Int]
    BY <1>6, <2>1 DEF BlackElement, Weight
  <2> QED
    BY <1>6, <2>1, <2>2, VisitTypes DEF BlackElement, heapVars
<1>7. CASE CollectRoot
  <2>1. 0 \in {0, 1}
    OBVIOUS
  <2>2. VisitWhite(Head(ahead), 0, addr', <<>>)
    BY <1>7 DEF CollectRoot
  <2>3. Head(ahead) \in Nodes
    BY <1>7, <1>h DEF CollectRoot
  <2>4. /\ color' \in [Nodes -> Colors] /\ rc' \in [Nodes -> Int]
        /\ stack' \in Seq(Frames) /\ toFree' \in Seq(Zvals)
    BY <1>e, <2>1, <2>2, <2>3, VisitWhiteTypes
  <2> QED
    BY <1>7, <1>h, <2>4 DEF CollectRoot, heapVars
<1>8. CASE CollectElement
  <2>1. Child \in Nodes /\ Advance \in Seq(Frames)
    BY <1>8, ChildFacts, AdvanceFacts DEF CollectElement
  <2>2. VisitWhite(Child, RestoredWeight(Child), addr, Advance)
    BY <1>8 DEF CollectElement
  <2>3. /\ color' \in [Nodes -> Colors] /\ rc' \in [Nodes -> Int]
        /\ stack' \in Seq(Frames) /\ toFree' \in Seq(Zvals)
    BY <1>w, <2>1, <2>2, VisitWhiteTypes
  <2>4. cut' \in SUBSET Slots(kids)
    BY <1>8 DEF CollectElement
  <2> QED
    BY <1>8, <2>3, <2>4 DEF CollectElement, heapVars
<1>9. CASE Return
  BY <1>9, RestFacts DEF Return, heapVars
<1>10. CASE NextPhase
  BY <1>10 DEF NextPhase, heapVars
<1>11. CASE Finished \/ UNCHANGED vars
  BY <1>11 DEF Finished, vars
<1> QED
  BY <1>1, <1>2, <1>3, <1>4, <1>5, <1>6, <1>7, <1>8, <1>9, <1>10, <1>11 DEF Next

\* The cursor moves over the first entry of the rest of the list.
LEMMA ElemsFacts ==
    ASSUME TypeInv
    PROVE  /\ ahead # <<>> => /\ Head(ahead) \in Nodes
                              /\ Elems(ahead) = {Head(ahead)} \cup Elems(Tail(ahead))
                              /\ Elems(Append(behind, Head(ahead))) = Elems(behind) \cup {Head(ahead)}
           /\ Elems(<<>>) = {}
<1>1. ASSUME ahead # <<>>
      PROVE  /\ Head(ahead) \in Nodes
             /\ Elems(ahead) = {Head(ahead)} \cup Elems(Tail(ahead))
             /\ Elems(Append(behind, Head(ahead))) = Elems(behind) \cup {Head(ahead)}
  <2>1. ahead \in Seq(Nodes) /\ behind \in Seq(Nodes) /\ Head(ahead) \in Nodes
    BY <1>1 DEF TypeInv
  <2>2. Elems(ahead) = {Head(ahead)} \cup Elems(Tail(ahead))
    <3>1. Tail(ahead) \in Seq(Nodes) /\ Len(Tail(ahead)) = Len(ahead) - 1 /\ Len(ahead) >= 1
      BY <1>1, <2>1
    <3>2. \A i \in 1..Len(ahead) : i = 1 \/ (i - 1 \in 1..Len(Tail(ahead)) /\ Tail(ahead)[i - 1] = ahead[i])
      BY <2>1, <3>1
    <3>3. \A i \in 1..Len(Tail(ahead)) : i + 1 \in 1..Len(ahead) /\ Tail(ahead)[i] = ahead[i + 1]
      BY <2>1, <3>1
    <3>4. DOMAIN ahead = 1..Len(ahead) /\ DOMAIN Tail(ahead) = 1..Len(Tail(ahead)) /\ Head(ahead) = ahead[1]
      BY <1>1, <2>1, <3>1
    <3>5. Elems(ahead) \subseteq {Head(ahead)} \cup Elems(Tail(ahead))
      BY <3>2, <3>4 DEF Elems
    <3>6. {Head(ahead)} \cup Elems(Tail(ahead)) \subseteq Elems(ahead)
      BY <3>1, <3>3, <3>4 DEF Elems
    <3> QED
      BY <3>5, <3>6
  <2>3. Elems(Append(behind, Head(ahead))) = Elems(behind) \cup {Head(ahead)}
    <3> DEFINE b == Append(behind, Head(ahead))
    <3>1. b \in Seq(Nodes) /\ Len(b) = Len(behind) + 1 /\ Len(behind) \in Nat
      BY <2>1
    <3>2. \A i \in 1..Len(behind) : b[i] = behind[i]
      BY <2>1
    <3>3. b[Len(behind) + 1] = Head(ahead)
      BY <2>1
    <3>4. DOMAIN b = 1..(Len(behind) + 1) /\ DOMAIN behind = 1..Len(behind)
      BY <2>1, <3>1
    <3> HIDE DEF b
    <3>5. Elems(b) = Elems(behind) \cup {Head(ahead)}
      BY <3>1, <3>2, <3>3, <3>4 DEF Elems
    <3> QED
      BY <3>5 DEF b
  <2> QED
    BY <2>1, <2>2, <2>3
<1>2. Elems(<<>>) = {}
  BY DEF Elems
<1> QED
  BY <1>1, <1>2

\* If every frame of st has a mode in M, so has every frame after a move.
LEMMA ModeFacts ==
    ASSUME stack \in Seq(Frames), NEW M,
           \A k \in DOMAIN stack : stack[k].mode \in M
    PROVE  /\ stack # <<>> => /\ \A k \in DOMAIN Advance : Advance[k].mode \in M
                              /\ \A k \in DOMAIN Tail(stack) : Tail(stack)[k].mode \in M
           /\ \A c \in Nodes : \A m \in M \cap {"mark", "scan", "black", "collect"} :
                /\ \A k \in DOMAIN Call(c, m, <<>>) : Call(c, m, <<>>)[k].mode \in M
                /\ stack # <<>> =>
                    \A k \in DOMAIN Call(c, m, Advance) : Call(c, m, Advance)[k].mode \in M
<1>1. ASSUME stack # <<>>
      PROVE  /\ \A k \in DOMAIN Advance : Advance[k].mode \in M
             /\ \A k \in DOMAIN Tail(stack) : Tail(stack)[k].mode \in M
  <2>1. DOMAIN stack = 1..Len(stack) /\ DOMAIN Advance = 1..Len(stack)
        /\ DOMAIN Tail(stack) = 1..(Len(stack) - 1) /\ Len(stack) \in Nat \ {0}
    BY <1>1, AdvanceFacts, RestFacts
  <2>2. \A k \in 1..Len(stack) : Advance[k].mode = stack[k].mode
    BY <1>1, <2>1, AdvanceFacts
  <2>3. \A k \in 1..(Len(stack) - 1) : Tail(stack)[k] = stack[k + 1]
    BY <1>1, <2>1, RestFacts
  <2> QED
    BY <2>1, <2>2, <2>3
<1>2. ASSUME NEW st \in Seq(Frames), \A k \in DOMAIN st : st[k].mode \in M,
             NEW c \in Nodes, NEW m \in M \cap {"mark", "scan", "black", "collect"}
      PROVE  \A k \in DOMAIN Call(c, m, st) : Call(c, m, st)[k].mode \in M
  <2>1. Call(c, m, st) \in Seq(Frames) /\ Len(Call(c, m, st)) = Len(st) + 1
    BY CallFacts
  <2>2. DOMAIN Call(c, m, st) = 1..(Len(st) + 1) /\ DOMAIN st = 1..Len(st)
    BY <2>1
  <2>3. Call(c, m, st)[1].mode = m
    BY DEF Call, Frames
  <2>a. Len(st) \in Nat
    OBVIOUS
  <2>b. \A k \in 2..(Len(st) + 1) : k - 1 \in 1..Len(st)
    BY <2>a
  <2>4. \A k \in 2..(Len(st) + 1) : Call(c, m, st)[k] = st[k - 1] /\ k - 1 \in 1..Len(st)
    BY <2>b, CallFacts, ZenonT(60)
  <2>5. \A k \in 1..(Len(st) + 1) : k = 1 \/ k \in 2..(Len(st) + 1)
    OBVIOUS
  <2> QED
    BY <1>2, <2>2, <2>3, <2>4, <2>5
<1>3. <<>> \in Seq(Frames) /\ \A k \in DOMAIN <<>> : FALSE
  OBVIOUS
<1> QED
  BY <1>1, <1>2, <1>3, AdvanceFacts

\* Which modes the stack may hold once the step is taken.
LEMMA FrameStep == TypeInv /\ FrameInv /\ [Next]_vars => FrameInv'
<1> SUFFICES ASSUME TypeInv, FrameInv, [Next]_vars PROVE FrameInv'
  OBVIOUS
<1> DEFINE M == IF phase = "mark" THEN {"mark"}
                ELSE IF phase = "scan" THEN {"scan", "black"} ELSE {"collect"}
           ModesOK(st) == \A k \in DOMAIN st : st[k].mode \in M
<1>t. stack \in Seq(Frames) /\ <<>> \in Seq(Frames) /\ color \in [Nodes -> Colors] /\ phase \in {"mark", "scan", "collect", "done"}
  BY DEF TypeInv
<1>m. ModesOK(stack)
  <2>1. phase = "done" => stack = <<>>
    BY DEF FrameInv
  <2> QED
    BY <1>t, <2>1 DEF FrameInv
<1>o. ModesOK(<<>>)
  OBVIOUS
<1>s. M \subseteq {"mark", "scan", "black", "collect"}
  OBVIOUS
<1>a. stack # <<>> => ModesOK(Advance) /\ ModesOK(Tail(stack)) /\ Advance \in Seq(Frames)
  BY <1>t, <1>m, ModeFacts, AdvanceFacts
<1>c. \A c \in Nodes : \A m \in M : ModesOK(Call(c, m, <<>>)) /\ (stack # <<>> => ModesOK(Call(c, m, Advance)))
  BY <1>t, <1>m, <1>s, ModeFacts
<1>e. AtElement("mark") => phase = "mark"
  <2>1. AtElement("mark") => "mark" \in M
    BY <1>m, ChildFacts DEF AtElement, TypeInv
  <2> QED
    BY <2>1
<1>f. AtElement("scan") => phase = "scan"
  <2>1. AtElement("scan") => "scan" \in M
    BY <1>m, ChildFacts DEF AtElement, TypeInv
  <2> QED
    BY <2>1
<1>g. AtElement("black") => phase = "scan"
  <2>1. AtElement("black") => "black" \in M
    BY <1>m, ChildFacts DEF AtElement, TypeInv
  <2> QED
    BY <2>1
<1>h. AtElement("collect") => phase = "collect"
  <2>0. AtElement("collect") => stack # <<>> /\ stack[1].mode = "collect"
    BY DEF AtElement
  <2>1. AtElement("collect") => "collect" \in M /\ stack # <<>>
    BY <1>m, <1>t, <2>0
  <2> QED
    BY <2>1, <1>t DEF FrameInv
<1> HIDE DEF ModesOK, M
<1>k. ASSUME phase' = phase, phase # "done", ModesOK(stack'), phase \in {"mark", "scan"} => toFree' = toFree,
             phase = "collect" => behind' = behind,
             addr' \subseteq Elems(behind') \cup Elems(ahead')
      PROVE  FrameInv'
  BY <1>k DEF FrameInv, M, ModesOK
<1>1. CASE MarkRoot
  <2>1. addr' \subseteq Elems(behind') \cup Elems(ahead')
    BY <1>1, ElemsFacts DEF MarkRoot, FrameInv
  <2>2. "mark" \in M
    BY <1>1 DEF MarkRoot, M
  <2>3. ModesOK(stack')
    BY <1>1, <2>2, <1>c, <1>o, <1>t, VisitTypes, ElemsFacts DEF MarkRoot
  <2> QED
    BY <1>1, <1>k, <2>1, <2>3 DEF MarkRoot
<1>2. CASE DropRoot
  <2>1. addr' \subseteq Elems(behind') \cup Elems(ahead')
    BY <1>2, ElemsFacts DEF DropRoot, FrameInv
  <2> QED
    BY <1>2, <1>k, <1>m, <2>1 DEF DropRoot
<1>3. CASE MarkElement
  <2>1. Child \in Nodes /\ stack # <<>>
    BY <1>3, ChildFacts DEF MarkElement
  <2>2. "mark" \in M /\ phase = "mark"
    BY <1>3, <1>e DEF MarkElement, M
  <2>3. ModesOK(stack')
    BY <1>3, <2>1, <2>2, <1>a, <1>c, <1>t, VisitTypes DEF MarkElement
  <2> QED
    BY <1>3, <1>k, <2>2, <2>3 DEF MarkElement, FrameInv
<1>4. CASE ScanRoot
  <2>1. addr' \subseteq Elems(behind') \cup Elems(ahead')
    BY <1>4, ElemsFacts DEF ScanRoot, FrameInv
  <2>2. {"scan", "black"} \subseteq M
    BY <1>4 DEF ScanRoot, M
  <2>3. ModesOK(stack')
    BY <1>4, <2>2, <1>c, <1>o, <1>t, VisitTypes, ElemsFacts DEF ScanRoot
  <2> QED
    BY <1>4, <1>k, <2>1, <2>3 DEF ScanRoot
<1>5. CASE ScanElement
  <2>1. Child \in Nodes /\ stack # <<>>
    BY <1>5, ChildFacts DEF ScanElement
  <2>2. {"scan", "black"} \subseteq M /\ phase = "scan"
    BY <1>5, <1>f DEF ScanElement, M
  <2>3. ModesOK(stack')
    BY <1>5, <2>1, <2>2, <1>a, <1>c, <1>t, VisitTypes DEF ScanElement
  <2> QED
    BY <1>5, <1>k, <2>2, <2>3 DEF ScanElement, FrameInv
<1>6. CASE BlackElement
  <2>1. Child \in Nodes /\ stack # <<>>
    BY <1>6, ChildFacts DEF BlackElement
  <2>2. {"scan", "black"} \subseteq M /\ phase = "scan"
    BY <1>6, <1>g DEF BlackElement, M
  <2>3. ModesOK(stack')
    BY <1>6, <2>1, <2>2, <1>a, <1>c, <1>t, VisitTypes DEF BlackElement
  <2> QED
    BY <1>6, <1>k, <2>2, <2>3 DEF BlackElement, FrameInv
<1>7. CASE CollectRoot
  <2>1. addr' \subseteq Elems(behind') \cup Elems(ahead')
    BY <1>7, ElemsFacts DEF CollectRoot, FrameInv
  <2>2. "collect" \in M
    BY <1>7 DEF CollectRoot, M
  <2>3. stack' = <<>> \/ stack' = Call(Head(ahead), "collect", <<>>)
    BY <1>7 DEF CollectRoot, VisitWhite
  <2>4. ModesOK(stack')
    BY <1>7, <2>2, <2>3, <1>c, <1>o, ElemsFacts DEF CollectRoot
  <2> QED
    BY <1>7, <1>k, <2>1, <2>4 DEF CollectRoot
<1>8. CASE CollectElement
  <2>1. Child \in Nodes /\ stack # <<>>
    BY <1>8, ChildFacts DEF CollectElement
  <2>2. "collect" \in M /\ phase = "collect"
    BY <1>8, <1>h DEF CollectElement, M
  <2>3. stack' = Advance \/ stack' = Call(Child, "collect", Advance)
    BY <1>8 DEF CollectElement, VisitWhite
  <2>4. ModesOK(stack')
    BY <2>1, <2>2, <2>3, <1>a, <1>c
  <2> QED
    BY <1>8, <1>k, <2>2, <2>4 DEF CollectElement, FrameInv
<1>9. CASE Return
  <2>1. phase # "done"
    BY <1>9 DEF Return, FrameInv
  <2> QED
    BY <1>9, <1>k, <1>a, <2>1 DEF Return, FrameInv
<1>10. CASE NextPhase
  <2>1. addr' \subseteq Elems(behind') \cup Elems(ahead')
    BY <1>10, ElemsFacts DEF NextPhase, FrameInv
  <2>2. stack' = <<>> /\ behind' = <<>> /\ ahead' = behind /\ toFree' = toFree /\ phase # "done"
    BY <1>10 DEF NextPhase
  <2>3. phase = "collect" => behind = <<>>
    BY DEF FrameInv
  <2>4. phase' = "done" => phase = "collect"
    BY <1>10, <1>t DEF NextPhase
  <2>5. phase' \in {"mark", "scan"} => phase = "mark"
    BY <1>10, <1>t DEF NextPhase
  <2> QED
    BY <2>1, <2>2, <2>3, <2>4, <2>5 DEF FrameInv
<1>11. CASE Finished \/ UNCHANGED vars
  BY <1>11 DEF Finished, vars, FrameInv
<1> QED
  BY <1>1, <1>2, <1>3, <1>4, <1>5, <1>6, <1>7, <1>8, <1>9, <1>10, <1>11 DEF Next

-----------------------------------------------------------------------------
(* Refcounts count the references that are not cut. *)

\* Cutting or restoring one slot changes the count of its target by one.
LEMMA CutCounts ==
    ASSUME kids \in Heaps, cut \subseteq Slots(kids), NEW s \in Slots(kids), NEW n \in Nodes
    PROVE  /\ Cardinality(InSlots(kids, n) \ cut) \in Nat
           /\ Cardinality(InSlots(kids, n) \ cut) = 0 => InSlots(kids, n) \subseteq cut
           /\ n # To(s) =>
                /\ Cardinality(InSlots(kids, n) \ (cut \cup {s})) = Cardinality(InSlots(kids, n) \ cut)
                /\ Cardinality(InSlots(kids, n) \ (cut \ {s})) = Cardinality(InSlots(kids, n) \ cut)
           /\ n = To(s) /\ s \notin cut =>
                Cardinality(InSlots(kids, n) \ (cut \cup {s})) = Cardinality(InSlots(kids, n) \ cut) - 1
           /\ n = To(s) /\ s \in cut =>
                Cardinality(InSlots(kids, n) \ (cut \ {s})) = Cardinality(InSlots(kids, n) \ cut) + 1
<1> DEFINE A == InSlots(kids, n) \ cut
<1>1. IsFiniteSet(InSlots(kids, n)) /\ IsFiniteSet(A)
  BY SlotFacts, FS_Subset DEF InSlots
<1>2. Cardinality(A) \in Nat
  BY <1>1, FS_CardinalityType
<1>3. Cardinality(A) = 0 => InSlots(kids, n) \subseteq cut
  <2>1. Cardinality(A) = 0 => A = {}
    BY <1>1, FS_EmptySet
  <2> QED
    BY <2>1
<1>4. s \in InSlots(kids, n) <=> n = To(s)
  BY DEF InSlots, To
<1>5. n # To(s) => InSlots(kids, n) \ (cut \cup {s}) = A /\ InSlots(kids, n) \ (cut \ {s}) = A
  BY <1>4
<1>6. ASSUME n = To(s), s \notin cut
      PROVE  Cardinality(InSlots(kids, n) \ (cut \cup {s})) = Cardinality(A) - 1
  <2>1. InSlots(kids, n) \ (cut \cup {s}) = A \ {s} /\ s \in A
    BY <1>4, <1>6
  <2> QED
    BY <1>1, <2>1, FS_RemoveElement
<1>7. ASSUME n = To(s), s \in cut
      PROVE  Cardinality(InSlots(kids, n) \ (cut \ {s})) = Cardinality(A) + 1
  <2>1. InSlots(kids, n) \ (cut \ {s}) = A \cup {s} /\ s \notin A
    BY <1>4, <1>7
  <2> QED
    BY <1>1, <2>1, FS_AddElement
<1> QED
  BY <1>2, <1>3, <1>5, <1>6, <1>7

\* The mark pass never cuts a slot twice.
LEMMA MarkSlotFresh ==
    ASSUME TypeInv, FrameInv, MarkInv, MarkElement
    PROVE  phase = "mark" /\ Slot \notin cut
<1>1. stack # <<>> /\ stack[1].mode = "mark" /\ stack[1] \in Frames
  BY ChildFacts DEF MarkElement
<1>2. stack \in Seq(Frames) /\ 1 \in DOMAIN stack
  BY <1>1 DEF TypeInv
<1>3. phase = "mark"
  BY <1>1, <1>2 DEF FrameInv, TypeInv
<1>4. stack[1].node \notin Globals /\ Slot[1] = stack[1].node /\ Slot[2] = stack[1].next
  BY ChildFacts DEF MarkElement
<1>5. \A s \in cut : s[1] = stack[1].node => s[2] < stack[1].next
  BY <1>2, <1>3, <1>4 DEF MarkInv
<1>6. stack[1].next \in Nat
  BY <1>1 DEF Frames
<1> QED
  BY <1>3, <1>4, <1>5, <1>6

\* zval_scan_black counts again only what was counted down.
LEMMA BlackSlotCut ==
    ASSUME TypeInv, FrameInv, ScanInv, BlackElement
    PROVE  /\ phase = "scan"
           /\ Child \in Globals => Slot \notin cut
           /\ Child \notin Globals => Slot \in cut
<1>1. stack # <<>> /\ stack[1].mode = "black" /\ stack[1] \in Frames /\ stack[1].node \notin Globals
  BY ChildFacts DEF BlackElement
<1>2. stack \in Seq(Frames) /\ 1 \in DOMAIN stack
  BY <1>1 DEF TypeInv
<1>3. phase = "scan"
  BY <1>1, <1>2 DEF FrameInv, TypeInv
<1>4. Slot \in Slots(kids) /\ Slot[1] = stack[1].node /\ Slot[2] = stack[1].next /\ Child = To(Slot)
  BY ChildFacts DEF BlackElement
<1>5. stack[1].next <= stack[1].next
  BY <1>1 DEF Frames
<1>6. Slot \in cut \/ To(Slot) \in Globals
  BY <1>1, <1>2, <1>3, <1>4, <1>5 DEF ScanInv
<1>7. Slot \in cut => To(Slot) \notin Globals
  BY <1>3 DEF ScanInv
<1> QED
  BY <1>3, <1>4, <1>6, <1>7

LEMMA RefStep == IInv /\ [Next]_vars => RefInv'
<1> SUFFICES ASSUME IInv, [Next]_vars PROVE RefInv'
  OBVIOUS
<1>i. TypeInv /\ FrameInv /\ RefInv /\ MarkInv /\ ScanInv
  BY DEF IInv
<1>t. kids \in Heaps /\ cut \subseteq Slots(kids) /\ ext \in [Nodes -> Nat] /\ rc \in [Nodes -> Int]
  BY <1>i, ExtAssumption DEF TypeInv
<1>u. ASSUME UNCHANGED <<kids, ext, cut, rc>>, phase' \in {"mark", "scan"} => phase \in {"mark", "scan"}
      PROVE  RefInv'
  BY <1>i, <1>u DEF RefInv, InSlots, Slots
<1>3. CASE MarkElement
  <2>1. phase = "mark" /\ Slot \notin cut
    BY <1>3, <1>i, MarkSlotFresh
  <2>2. Slot \in Slots(kids) /\ Child \in Nodes /\ Child = To(Slot)
    BY <1>3, <1>i, ChildFacts DEF MarkElement
  <2>3. /\ rc' = [rc EXCEPT ![Child] = @ - Weight(Child)]
        /\ cut' = IF Weight(Child) = 1 THEN cut \cup {Slot} ELSE cut
        /\ UNCHANGED <<kids, ext, phase>>
    BY <1>3 DEF MarkElement, heapVars
  <2>4. ASSUME NEW n \in Nodes
        PROVE  rc'[n] = ext[n] + Cardinality(InSlots(kids, n) \ cut')
    <3>1. rc[n] = ext[n] + Cardinality(InSlots(kids, n) \ cut) /\ ext[n] \in Nat
      BY <1>i, <1>t, <2>1 DEF RefInv
    <3>2. CASE Child \in Globals
      BY <1>t, <2>2, <2>3, <3>1, <3>2 DEF Weight
    <3>3. CASE Child \notin Globals /\ n # Child
      <4>1. cut' = cut \cup {Slot} /\ rc'[n] = rc[n]
        BY <1>t, <2>2, <2>3, <3>3 DEF Weight
      <4> QED
        BY <1>t, <2>2, <3>1, <3>3, <4>1, CutCounts
    <3>4. CASE Child \notin Globals /\ n = Child
      <4>1. cut' = cut \cup {Slot} /\ rc'[n] = rc[n] - 1
        BY <1>t, <2>2, <2>3, <3>4 DEF Weight
      <4>2. Cardinality(InSlots(kids, n) \ cut) \in Nat
        BY <1>t, <2>2, CutCounts
      <4>3. Cardinality(InSlots(kids, n) \ (cut \cup {Slot})) = Cardinality(InSlots(kids, n) \ cut) - 1
        BY <1>t, <2>1, <2>2, <3>4, CutCounts
      <4> QED
        BY <3>1, <4>1, <4>2, <4>3
    <3> QED
      BY <3>2, <3>3, <3>4
  <2> QED
    BY <2>3, <2>4 DEF RefInv, InSlots, Slots
<1>6. CASE BlackElement
  <2>1. phase = "scan" /\ (Child \in Globals => Slot \notin cut) /\ (Child \notin Globals => Slot \in cut)
    BY <1>6, <1>i, BlackSlotCut
  <2>2. Slot \in Slots(kids) /\ Child \in Nodes /\ Child = To(Slot)
    BY <1>6, <1>i, ChildFacts DEF BlackElement
  <2>3. /\ rc' = [rc EXCEPT ![Child] = @ + Weight(Child)]
        /\ cut' = cut \ {Slot}
        /\ UNCHANGED <<kids, ext, phase>>
    BY <1>6 DEF BlackElement, heapVars
  <2>4. ASSUME NEW n \in Nodes
        PROVE  rc'[n] = ext[n] + Cardinality(InSlots(kids, n) \ cut')
    <3>1. rc[n] = ext[n] + Cardinality(InSlots(kids, n) \ cut) /\ ext[n] \in Nat
      BY <1>i, <1>t, <2>1 DEF RefInv
    <3>2. CASE Child \in Globals
      <4>1. cut' = cut /\ rc'[n] = rc[n]
        BY <1>t, <2>1, <2>2, <2>3, <3>2 DEF Weight
      <4> QED
        BY <3>1, <4>1
    <3>3. CASE Child \notin Globals /\ n # Child
      <4>1. cut' = cut \ {Slot} /\ rc'[n] = rc[n]
        BY <1>t, <2>2, <2>3, <3>3 DEF Weight
      <4> QED
        BY <1>t, <2>2, <3>1, <3>3, <4>1, CutCounts
    <3>4. CASE Child \notin Globals /\ n = Child
      <4>1. cut' = cut \ {Slot} /\ rc'[n] = rc[n] + 1
        BY <1>t, <2>2, <2>3, <3>4 DEF Weight
      <4>2. Cardinality(InSlots(kids, n) \ cut) \in Nat
        BY <1>t, <2>2, CutCounts
      <4>3. Cardinality(InSlots(kids, n) \ (cut \ {Slot})) = Cardinality(InSlots(kids, n) \ cut) + 1
        BY <1>t, <2>1, <2>2, <3>4, CutCounts
      <4> QED
        BY <3>1, <4>1, <4>2, <4>3
    <3> QED
      BY <3>2, <3>3, <3>4
  <2> QED
    BY <2>3, <2>4 DEF RefInv, InSlots, Slots
<1>7. CASE CollectRoot
  <2>1. phase' = "collect"
    BY <1>7 DEF CollectRoot
  <2> QED
    BY <2>1 DEF RefInv
<1>8. CASE CollectElement
  <2>1. stack # <<>> /\ stack[1].mode = "collect" /\ 1 \in DOMAIN stack
    BY <1>8, <1>i DEF CollectElement, AtElement, TypeInv
  <2>2. phase \notin {"mark", "scan"} /\ phase' = phase
    BY <1>8, <1>i, <2>1 DEF FrameInv, CollectElement
  <2> QED
    BY <2>2 DEF RefInv
<1>10. CASE NextPhase
  <2>1. phase' \in {"mark", "scan"} => phase = "mark"
    BY <1>10, <1>i DEF NextPhase, TypeInv
  <2> QED
    BY <1>10, <1>u, <2>1 DEF NextPhase, heapVars
<1>12. CASE MarkRoot \/ DropRoot \/ ScanRoot \/ ScanElement \/ Return
  BY <1>12, <1>u DEF MarkRoot, DropRoot, ScanRoot, ScanElement, Return, heapVars
<1>11. CASE Finished \/ UNCHANGED vars
  BY <1>11, <1>u DEF Finished, vars
<1> QED
  BY <1>3, <1>6, <1>7, <1>8, <1>10, <1>11, <1>12 DEF Next

-----------------------------------------------------------------------------
(* The mark pass. *)

\* In the mark pass, entering a node keeps grey nodes grey and greys no other.
LEMMA GreyVisit ==
    ASSUME TypeInv, NEW c \in Nodes, NEW rest \in Seq(Frames), VisitGrey(c, rest)
    PROVE  /\ \A n \in Nodes : n # c => color'[n] = color[n]
           /\ \/ /\ color[c] = "grey" /\ color' = color /\ stack' = rest
              \/ /\ color[c] # "grey" /\ c \in Globals
                 /\ color'[c] = "black" /\ stack' = Call(c, "mark", rest)
              \/ /\ color[c] # "grey" /\ c \notin Globals
                 /\ color'[c] = "grey" /\ stack' = Call(c, "mark", rest)
<1>1. CASE color[c] = "grey"
  BY <1>1 DEF VisitGrey
<1>2. CASE color[c] # "grey" /\ c \in Globals
  BY <1>2 DEF VisitGrey, Paint, TypeInv
<1>3. CASE color[c] # "grey" /\ c \notin Globals
  BY <1>3 DEF VisitGrey, Paint, TypeInv
<1> QED
  BY <1>1, <1>2, <1>3

LEMMA MarkElementStep == IInv /\ MarkElement /\ TypeInv' => MarkInv'
<1> SUFFICES ASSUME IInv, MarkElement, TypeInv' PROVE MarkInv'
  OBVIOUS
<1> DEFINE c == Child
           n0 == stack[1].node
           sl == Slot
<1>i. TypeInv /\ FrameInv /\ RefInv /\ MarkInv
  BY DEF IInv
<1>p. phase = "mark" /\ sl \notin cut
  BY <1>i, MarkSlotFresh
<1>c. /\ stack # <<>> /\ stack[1] \in Frames /\ sl \in Slots(kids) /\ sl[1] = n0
      /\ sl[2] = stack[1].next /\ c \in Nodes /\ c = To(sl) /\ n0 \notin Globals /\ n0 \in Nodes
  <2>1. AtElement("mark")
    BY DEF MarkElement
  <2> QED
    BY <1>i, <2>1, ChildFacts DEF Frames
<1>st. stack \in Seq(Frames) /\ Advance \in Seq(Frames) /\ Len(Advance) = Len(stack) /\ Len(stack) \in Nat
  BY <1>i, <1>c, AdvanceFacts DEF TypeInv
<1>a. /\ VisitGrey(c, Advance)
      /\ rc' = [rc EXCEPT ![c] = @ - Weight(c)]
      /\ cut' = IF Weight(c) = 1 THEN cut \cup {sl} ELSE cut
      /\ UNCHANGED <<kids, ext, suspects, addr, behind, ahead, phase, toFree>>
  BY DEF MarkElement, heapVars
<1>v. /\ \A n \in Nodes : n # c => color'[n] = color[n]
      /\ \/ /\ color[c] = "grey" /\ color' = color /\ stack' = Advance
         \/ /\ color[c] # "grey" /\ c \in Globals
            /\ color'[c] = "black" /\ stack' = Call(c, "mark", Advance)
         \/ /\ color[c] # "grey" /\ c \notin Globals
            /\ color'[c] = "grey" /\ stack' = Call(c, "mark", Advance)
  BY <1>i, <1>c, <1>st, <1>a, GreyVisit
<1>n0. color[n0] = "grey"
  BY <1>c, <1>st, <1>i, <1>p DEF MarkInv
<1>cut. cut' = IF c \in Globals THEN cut ELSE cut \cup {sl}
  BY <1>a DEF Weight
<1>in. cut \subseteq Slots(kids) /\ kids' = kids /\ kids \in Heaps
  BY <1>a, <1>i DEF TypeInv
<1>sf. \A s \in Slots(kids) : s[1] \in Nodes /\ To(s) \in Nodes /\ s[2] \in Nat
  BY <1>in, SlotFacts DEF To
<1>gl. Globals \subseteq Nodes
  BY NodesAssumption DEF Nodes
<1> HIDE DEF c, n0, sl
<1>k. \A n \in Nodes : color[n] = "grey" => color'[n] = "grey"
  BY <1>v
<1>1. \A n \in Nodes : color'[n] # "white"
  BY <1>i, <1>p, <1>v DEF MarkInv
<1>2. \A g \in Globals : color'[g] # "grey"
  BY <1>i, <1>p, <1>v, <1>gl DEF MarkInv
<1>3. \A s \in cut' : color'[s[1]] = "grey" /\ color'[To(s)] = "grey"
  <2>1. \A s \in cut : color[s[1]] = "grey" /\ color[To(s)] = "grey"
    BY <1>i, <1>p DEF MarkInv
  <2>2. c \notin Globals => color'[c] = "grey" /\ color'[n0] = "grey"
    BY <1>v, <1>n0, <1>k, <1>c
  <2> QED
    BY <2>1, <2>2, <1>cut, <1>k, <1>in, <1>sf, <1>c
<1>4. \A s \in Slots(kids) : color'[s[1]] = "grey" => s \in cut' \/ Pending(stack', s) \/ To(s) \in Globals
  <2> SUFFICES ASSUME NEW s \in Slots(kids), color'[s[1]] = "grey", To(s) \notin Globals
               PROVE  s \in cut' \/ Pending(stack', s)
    OBVIOUS
  <2>1. CASE color[s[1]] = "grey"
    <3>1. s \in cut \/ Pending(stack, s)
      BY <1>i, <1>p, <2>1 DEF MarkInv
    <3>2. s \in cut => s \in cut'
      BY <1>cut
    <3>3. Pending(stack, s) => s = sl \/ Pending(Advance, s)
      BY <1>c, <1>st, <1>in, PendingAdvance DEF sl
    <3>4. s = sl => s \in cut'
      BY <1>c, <1>cut
    <3>5. Pending(Advance, s) => Pending(stack', s)
      BY <1>v, <1>c, <1>st, <1>in, PendingCall
    <3> QED
      BY <3>1, <3>2, <3>3, <3>4, <3>5
  <2>2. CASE color[s[1]] # "grey"
    <3>1. s[1] = c
      BY <2>2, <1>v, <1>sf
    <3>2. stack' = Call(c, "mark", Advance) /\ c \notin Globals
      BY <2>2, <3>1, <1>v
    <3> QED
      BY <3>1, <3>2, <1>c, <1>st, <1>in, PendingCall
  <2> QED
    BY <2>1, <2>2
<1>5. \A k \in DOMAIN stack' : stack'[k].node \notin Globals =>
                /\ color'[stack'[k].node] = "grey"
                /\ \A s \in cut' : s[1] = stack'[k].node => s[2] < stack'[k].next
                /\ \A j \in DOMAIN stack' : stack'[j].node = stack'[k].node => j = k
  <2>0. /\ DOMAIN stack = 1..Len(stack) /\ DOMAIN Advance = 1..Len(stack)
        /\ \A k \in DOMAIN stack : stack[k] \in Frames /\ Advance[k] \in Frames
    BY <1>st
  <2>1. \A k \in DOMAIN stack : /\ Advance[k].node = stack[k].node
                                /\ Advance[k].next = IF k = 1 THEN stack[k].next + 1 ELSE stack[k].next
    BY <2>0, <1>st, <1>c, AdvanceFacts
  <2>2. \A k \in DOMAIN stack : stack[k].node \notin Globals =>
                /\ color[stack[k].node] = "grey"
                /\ \A s \in cut : s[1] = stack[k].node => s[2] < stack[k].next
                /\ \A j \in DOMAIN stack : stack[j].node = stack[k].node => j = k
    BY <1>i, <1>p DEF MarkInv
  <2>3. \A k \in DOMAIN stack : stack[k].node \in Nodes /\ stack[k].next \in Nat
    BY <2>0 DEF Frames
  <2>4. 1 \in DOMAIN stack
    BY <1>st, <1>c
  <2>5. \A k \in DOMAIN Advance : Advance[k].node \notin Globals =>
                /\ color[Advance[k].node] = "grey"
                /\ color'[Advance[k].node] = "grey"
                /\ \A s \in cut' : s[1] = Advance[k].node => s[2] < Advance[k].next
                /\ \A j \in DOMAIN Advance : Advance[j].node = Advance[k].node => j = k
    <3> SUFFICES ASSUME NEW k \in DOMAIN Advance, Advance[k].node \notin Globals
                 PROVE  /\ color[Advance[k].node] = "grey"
                        /\ color'[Advance[k].node] = "grey"
                        /\ \A s \in cut' : s[1] = Advance[k].node => s[2] < Advance[k].next
                        /\ \A j \in DOMAIN Advance : Advance[j].node = Advance[k].node => j = k
      OBVIOUS
    <3>1. color[Advance[k].node] = "grey" /\ color'[Advance[k].node] = "grey"
      BY <2>0, <2>1, <2>2, <2>3, <1>k
    <3>2. \A j \in DOMAIN Advance : Advance[j].node = Advance[k].node => j = k
      BY <2>0, <2>1, <2>2
    <3>3. ASSUME NEW s \in cut', s[1] = Advance[k].node PROVE s[2] < Advance[k].next
      <4>1. CASE s \in cut
        BY <4>1, <3>3, <2>0, <2>1, <2>2, <2>3, <1>in, <1>sf
      <4>2. CASE s = sl
        <5>1. k = 1
          BY <4>2, <3>3, <2>0, <2>1, <2>2, <2>4, <1>c DEF n0
        <5> QED
          BY <4>2, <5>1, <2>0, <2>1, <2>3, <2>4, <1>c
      <4> QED
        BY <4>1, <4>2, <1>cut
    <3> QED
      BY <3>1, <3>2, <3>3
  <2>6. CASE stack' = Advance
    BY <2>5, <2>6
  <2>7. CASE stack' = Call(c, "mark", Advance) /\ color[c] # "grey"
    <3>1. /\ DOMAIN stack' = 1..(Len(stack) + 1)
          /\ \A k \in 2..(Len(stack) + 1) : stack'[k] = Advance[k - 1] /\ k - 1 \in DOMAIN Advance
          /\ stack'[1].node = c
      <4>0. /\ Call(c, "mark", Advance) \in Seq(Frames)
            /\ Len(Call(c, "mark", Advance)) = Len(Advance) + 1
            /\ \A k \in 2..(Len(Advance) + 1) : Call(c, "mark", Advance)[k] = Advance[k - 1]
        <5> DEFINE R == Advance
        <5>1. R \in Seq(Frames) /\ c \in Nodes
          BY <1>c, <1>st
        <5> HIDE DEF R
        <5>2. /\ Call(c, "mark", R) \in Seq(Frames)
              /\ Len(Call(c, "mark", R)) = Len(R) + 1
              /\ \A k \in 2..(Len(R) + 1) : Call(c, "mark", R)[k] = R[k - 1]
          BY <5>1 DEF Call, Frames
        <5> QED
          BY <5>2 DEF R
      <4>1. stack' \in Seq(Frames) /\ Len(stack') = Len(stack) + 1
        BY <2>7, <1>st, <4>0
      <4>2. \A k \in 2..(Len(stack) + 1) : stack'[k] = Advance[k - 1]
        BY <2>7, <1>st, <4>0
      <4>3. \A k \in 2..(Len(stack) + 1) : k - 1 \in DOMAIN Advance
        BY <2>0, <1>st
      <4>4. stack'[1].node = c
        BY <2>7, <1>c, <1>st DEF Call, Frames
      <4> QED
        BY <4>1, <4>2, <4>3, <4>4
    <3>2. \A k \in 2..(Len(stack) + 1) : stack'[k].node # c \/ c \in Globals
      BY <3>1, <2>5, <2>7
    <3>3. ASSUME c \notin Globals, NEW s \in cut', s[1] = c PROVE FALSE
      <4>1. s \in cut => color[s[1]] = "grey"
        BY <1>i, <1>p DEF MarkInv
      <4> QED
        BY <4>1, <3>3, <1>cut, <1>c, <1>n0, <2>7
    <3>4. ASSUME NEW k \in DOMAIN stack', stack'[k].node \notin Globals
          PROVE  /\ color'[stack'[k].node] = "grey"
                 /\ \A s \in cut' : s[1] = stack'[k].node => s[2] < stack'[k].next
                 /\ \A j \in DOMAIN stack' : stack'[j].node = stack'[k].node => j = k
      <4>1. CASE k = 1
        <5>1. color'[c] = "grey" /\ c \notin Globals
          BY <3>1, <3>4, <4>1, <1>v, <2>7
        <5>2. \A s \in cut' : s[1] # c
          BY <5>1, <3>3
        <5>3. \A j \in DOMAIN stack' : stack'[j].node = c => j = 1
          BY <3>1, <3>2, <5>1, <1>st
        <5> QED
          BY <3>1, <4>1, <5>1, <5>2, <5>3
      <4>2. CASE k # 1
        <5>1. k \in 2..(Len(stack) + 1) /\ k - 1 \in DOMAIN Advance /\ stack'[k] = Advance[k - 1]
          BY <3>1, <4>2, <1>st
        <5>2. Advance[k - 1].node \notin Globals
          BY <3>4, <5>1
        <5>3. /\ color'[Advance[k - 1].node] = "grey"
              /\ \A s \in cut' : s[1] = Advance[k - 1].node => s[2] < Advance[k - 1].next
              /\ \A j \in DOMAIN Advance : Advance[j].node = Advance[k - 1].node => j = k - 1
          BY <5>1, <5>2, <2>5
        <5>4. ASSUME NEW j \in DOMAIN stack', stack'[j].node = stack'[k].node PROVE j = k
          <6>1. j # 1
            BY <5>1, <5>2, <5>4, <3>1, <3>2
          <6>2. j \in 2..(Len(stack) + 1) /\ j - 1 \in DOMAIN Advance /\ stack'[j] = Advance[j - 1]
            BY <6>1, <3>1, <1>st
          <6>3. j - 1 = k - 1
            BY <6>2, <5>1, <5>3, <5>4
          <6> QED
            BY <6>2, <6>3, <5>1
        <5> QED
          BY <5>1, <5>3, <5>4
      <4> QED
        BY <4>1, <4>2
    <3> QED
      BY <3>4
  <2> QED
    BY <2>6, <2>7, <1>v
<1>6. \A n \in Nodes : color'[n] # "grey" => rc'[n] > 0
  <2> SUFFICES ASSUME NEW n \in Nodes, color'[n] # "grey" PROVE rc'[n] > 0
    OBVIOUS
  <2>1. color[n] # "grey" /\ rc[n] > 0
    BY <1>k, <1>i, <1>p DEF MarkInv
  <2>2. n = c => c \in Globals
    BY <1>v, <2>1
  <2>3. rc \in [Nodes -> Int]
    BY <1>i DEF TypeInv
  <2>4. rc'[n] = rc[n]
    <3>1. CASE n = c
      BY <3>1, <2>2, <2>3, <1>a, <1>c DEF Weight
    <3>2. CASE n # c
      BY <3>2, <2>3, <1>a, <1>c
    <3> QED
      BY <3>1, <3>2
  <2> QED
    BY <2>1, <2>4
<1>7. \A S \in SUBSET (Grey') : S # {} =>
                \/ S \cap Elems(behind) # {}
                \/ \E s \in Slots(kids) : s[1] \in (Grey') \ S /\ To(s) \in S
  <2> SUFFICES ASSUME NEW S \in SUBSET (Grey'), S # {}
               PROVE  \/ S \cap Elems(behind) # {}
                      \/ \E s \in Slots(kids) : s[1] \in (Grey') \ S /\ To(s) \in S
    OBVIOUS
  <2>g. Grey \subseteq Grey' /\ Grey' \subseteq Grey \cup {c}
    BY <1>k, <1>v DEF Grey
  <2>r. \A R \in SUBSET Grey : R # {} =>
                \/ R \cap Elems(behind) # {}
                \/ \E s \in Slots(kids) : s[1] \in Grey \ R /\ To(s) \in R
    BY <1>i, <1>p DEF MarkInv
  <2>1. CASE S \subseteq Grey
    BY <2>1, <2>g, <2>r
  <2>2. CASE c \in S /\ c \notin Grey
    <3>1. CASE n0 \in S
      <4>1. S \ {c} \in SUBSET Grey /\ S \ {c} # {}
        BY <2>2, <2>g, <3>1, <1>n0, <1>c DEF Grey
      <4>2. \/ (S \ {c}) \cap Elems(behind) # {}
            \/ \E s \in Slots(kids) : s[1] \in Grey \ (S \ {c}) /\ To(s) \in S \ {c}
        BY <4>1, <2>r
      <4> QED
        BY <4>2, <2>2, <2>g
    <3>2. CASE n0 \notin S
      <4>1. n0 \in Grey' \ S
        BY <3>2, <2>g, <1>n0, <1>c DEF Grey
      <4> QED
        BY <4>1, <2>2, <1>c
    <3> QED
      BY <3>1, <3>2
  <2> QED
    BY <2>1, <2>2, <2>g
<1>8. \A n \in suspects : color'[n] = "purple" => n \in Elems(ahead)
  <2>1. suspects \subseteq Nodes
    BY <1>i DEF TypeInv
  <2>2. \A n \in Nodes : color'[n] = "purple" => color[n] = "purple"
    BY <1>v
  <2> QED
    BY <2>1, <2>2, <1>i, <1>p DEF MarkInv
<1> QED
  BY <1>1, <1>2, <1>3, <1>4, <1>5, <1>6, <1>7, <1>8, <1>a DEF MarkInv, To

\* A root that is still purple starts a visit on an empty stack.
LEMMA MarkRootStep == IInv /\ MarkRoot /\ TypeInv' => MarkInv'
<1> SUFFICES ASSUME IInv, MarkRoot, TypeInv' PROVE MarkInv'
  OBVIOUS
<1> DEFINE r == Head(ahead)
<1>i. TypeInv /\ FrameInv /\ RefInv /\ MarkInv
  BY DEF IInv
<1>a. /\ phase = "mark" /\ stack = <<>> /\ ahead # <<>> /\ color[r] = "purple"
      /\ VisitGrey(r, <<>>)
      /\ behind' = Append(behind, r) /\ ahead' = Tail(ahead)
      /\ UNCHANGED <<kids, ext, suspects, cut, rc, addr, phase, toFree>>
  BY DEF MarkRoot, heapVars
<1>e. /\ r \in Nodes
      /\ Elems(ahead) = {r} \cup Elems(ahead')
      /\ Elems(behind') = Elems(behind) \cup {r}
  BY <1>i, <1>a, ElemsFacts
<1>n. <<>> \in Seq(Frames)
  OBVIOUS
<1>v. /\ \A n \in Nodes : n # r => color'[n] = color[n]
      /\ stack' = Call(r, "mark", <<>>)
      /\ color[r] # "grey"
      /\ r \in Globals => color'[r] = "black"
      /\ r \notin Globals => color'[r] = "grey"
  <2>1. color[r] # "grey"
    BY <1>a
  <2> QED
    BY <2>1, <1>i, <1>a, <1>e, <1>n, GreyVisit
<1>s. /\ DOMAIN stack' = {1} /\ stack'[1].node = r /\ stack'[1].next = 1
  BY <1>v, <1>e DEF Call, Frames
<1>in. kids \in Heaps /\ cut \subseteq Slots(kids) /\ suspects \subseteq Nodes
  BY <1>i DEF TypeInv
<1>sf. \A s \in Slots(kids) : s[1] \in Nodes /\ To(s) \in Nodes /\ s[2] \in Nat
  BY <1>in, SlotFacts DEF To
<1>gl. Globals \subseteq Nodes
  BY NodesAssumption DEF Nodes
<1> HIDE DEF r
<1>c0. \A s \in cut : color[s[1]] = "grey" /\ color[To(s)] = "grey"
  BY <1>i, <1>a DEF MarkInv
<1>1. \A n \in Nodes : color'[n] # "white"
  BY <1>i, <1>a, <1>v DEF MarkInv
<1>2. \A g \in Globals : color'[g] # "grey"
  BY <1>i, <1>a, <1>v, <1>gl DEF MarkInv
<1>3. \A s \in cut : color'[s[1]] = "grey" /\ color'[To(s)] = "grey"
  BY <1>c0, <1>v, <1>in, <1>sf
<1>4. \A s \in Slots(kids) : color'[s[1]] = "grey" => s \in cut \/ Pending(stack', s) \/ To(s) \in Globals
  <2> SUFFICES ASSUME NEW s \in Slots(kids), color'[s[1]] = "grey", To(s) \notin Globals
               PROVE  s \in cut \/ Pending(stack', s)
    OBVIOUS
  <2>1. CASE s[1] = r
    BY <2>1, <1>v, <1>e, <1>n, <1>in, PendingCall
  <2>2. CASE s[1] # r
    <3>1. color[s[1]] = "grey"
      BY <2>2, <1>v, <1>sf
    <3>2. s \in cut \/ Pending(stack, s)
      BY <3>1, <1>i, <1>a DEF MarkInv
    <3>3. ~ Pending(stack, s)
      BY <1>a DEF Pending
    <3> QED
      BY <3>2, <3>3
  <2> QED
    BY <2>1, <2>2
<1>5. \A k \in DOMAIN stack' : stack'[k].node \notin Globals =>
                /\ color'[stack'[k].node] = "grey"
                /\ \A s \in cut : s[1] = stack'[k].node => s[2] < stack'[k].next
                /\ \A j \in DOMAIN stack' : stack'[j].node = stack'[k].node => j = k
  BY <1>s, <1>v, <1>c0
<1>6. \A n \in Nodes : color'[n] # "grey" => rc[n] > 0
  BY <1>i, <1>a, <1>v DEF MarkInv
<1>7. \A S \in SUBSET (Grey') : S # {} =>
                \/ S \cap Elems(behind') # {}
                \/ \E s \in Slots(kids) : s[1] \in (Grey') \ S /\ To(s) \in S
  <2> SUFFICES ASSUME NEW S \in SUBSET (Grey'), S # {}, r \notin S
               PROVE  \/ S \cap Elems(behind') # {}
                      \/ \E s \in Slots(kids) : s[1] \in (Grey') \ S /\ To(s) \in S
    BY <1>e
  <2>1. S \in SUBSET Grey /\ Grey \subseteq Grey'
    BY <1>v, <1>e DEF Grey
  <2>2. \/ S \cap Elems(behind) # {}
        \/ \E s \in Slots(kids) : s[1] \in Grey \ S /\ To(s) \in S
    BY <2>1, <1>i, <1>a DEF MarkInv
  <2> QED
    BY <2>1, <2>2, <1>e
<1>8. \A n \in suspects : color'[n] = "purple" => n \in Elems(ahead')
  <2>1. \A n \in suspects : color'[n] = "purple" => n # r /\ color[n] = "purple"
    BY <1>v, <1>in
  <2> QED
    BY <2>1, <1>e, <1>i, <1>a DEF MarkInv
<1> QED
  BY <1>1, <1>2, <1>3, <1>4, <1>5, <1>6, <1>7, <1>8, <1>a DEF MarkInv, To

\* A frame that is done leaves the stack.
LEMMA MarkReturnStep == IInv /\ Return => MarkInv'
<1> SUFFICES ASSUME IInv, Return, phase = "mark" PROVE MarkInv'
  BY DEF Return, MarkInv
<1>i. TypeInv /\ FrameInv /\ RefInv /\ MarkInv
  BY DEF IInv
<1>a. /\ stack # <<>> /\ stack[1].next > Last(stack[1]) /\ stack' = Tail(stack)
      /\ UNCHANGED <<kids, ext, suspects, cut, rc, color, addr, behind, ahead, phase, toFree>>
  BY DEF Return, heapVars
<1>s. /\ DOMAIN stack = 1..Len(stack) /\ DOMAIN stack' = 1..(Len(stack) - 1) /\ Len(stack) \in Nat
      /\ \A k \in DOMAIN stack' : stack'[k] = stack[k + 1] /\ k + 1 \in DOMAIN stack
  BY <1>i, <1>a, RestFacts DEF TypeInv
<1>4. \A s \in Slots(kids) : Pending(stack, s) => Pending(stack', s)
  BY <1>i, <1>a, PendingReturn
<1>5. \A k \in DOMAIN stack' : stack'[k].node \notin Globals =>
                /\ color[stack'[k].node] = "grey"
                /\ \A s \in cut : s[1] = stack'[k].node => s[2] < stack'[k].next
                /\ \A j \in DOMAIN stack' : stack'[j].node = stack'[k].node => j = k
  <2> SUFFICES ASSUME NEW k \in DOMAIN stack', stack'[k].node \notin Globals
               PROVE  /\ color[stack'[k].node] = "grey"
                      /\ \A s \in cut : s[1] = stack'[k].node => s[2] < stack'[k].next
                      /\ \A j \in DOMAIN stack' : stack'[j].node = stack'[k].node => j = k
    OBVIOUS
  <2>1. /\ color[stack[k + 1].node] = "grey"
        /\ \A s \in cut : s[1] = stack[k + 1].node => s[2] < stack[k + 1].next
        /\ \A j \in DOMAIN stack : stack[j].node = stack[k + 1].node => j = k + 1
    BY <1>i, <1>s DEF MarkInv
  <2>2. \A j \in DOMAIN stack' : stack'[j].node = stack'[k].node => j + 1 = k + 1
    BY <2>1, <1>s
  <2> QED
    BY <2>1, <2>2, <1>s
<1> QED
  BY <1>i, <1>a, <1>4, <1>5 DEF MarkInv, Grey, To

LEMMA MarkStep == IInv /\ [Next]_vars => MarkInv'
<1> SUFFICES ASSUME IInv, [Next]_vars PROVE MarkInv'
  OBVIOUS
<1>i. TypeInv /\ FrameInv /\ MarkInv /\ TypeInv'
  BY TypeStep DEF IInv
<1>n. ASSUME phase # "mark", phase' = phase PROVE MarkInv'
  BY <1>n DEF MarkInv
<1>1. CASE MarkRoot
  BY <1>1, <1>i, MarkRootStep
<1>2. CASE DropRoot
  <2>1. Elems(ahead) = {Head(ahead)} \cup Elems(Tail(ahead))
    BY <1>2, <1>i, ElemsFacts DEF DropRoot
  <2> QED
    BY <1>2, <1>i, <2>1 DEF DropRoot, MarkInv, Grey, To, heapVars
<1>3. CASE MarkElement
  BY <1>3, <1>i, MarkElementStep
<1>4. CASE ScanRoot \/ CollectRoot
  BY <1>4, <1>n DEF ScanRoot, CollectRoot
<1>5. CASE ScanElement \/ BlackElement \/ CollectElement
  <2>1. stack # <<>> /\ stack[1].mode # "mark" /\ 1 \in DOMAIN stack
    BY <1>5, <1>i DEF ScanElement, BlackElement, CollectElement, AtElement, TypeInv
  <2>2. phase # "mark"
    BY <1>i, <2>1 DEF FrameInv
  <2> QED
    BY <1>5, <2>2, <1>n DEF ScanElement, BlackElement, CollectElement
<1>9. CASE Return
  BY <1>9, MarkReturnStep
<1>10. CASE NextPhase
  <2>1. phase' # "mark"
    BY <1>10, <1>i DEF NextPhase, TypeInv
  <2> QED
    BY <2>1 DEF MarkInv
<1>11. CASE Finished \/ UNCHANGED vars
  BY <1>11, <1>i DEF Finished, vars, MarkInv, Grey, Pending, To
<1> QED
  BY <1>1, <1>2, <1>3, <1>4, <1>5, <1>9, <1>10, <1>11 DEF Next

-----------------------------------------------------------------------------
(* The scan pass. *)

\* The frames of st that count references again.
BlackFrame(st, k) == st[k].mode = "black" /\ st[k].node \notin Globals

\* One visit of the scan pass: the state in which c is visited, R being the
\* stack once the caller has moved on, and what the visit may do.
BeforeVisit(c, R) ==
    /\ \A g \in Globals : color[g] \in {"black", "purple"}
    /\ \A s \in cut' : /\ color[s[1]] \in {"grey", "white"} \/ PendingBlack(R, s)
                       /\ color[To(s)] # "purple"
                       /\ s[1] \notin Globals
                       /\ To(s) \notin Globals
    /\ \A s \in Slots(kids) : color[s[1]] \in {"grey", "white"} => s \in cut' \/ To(s) \in Globals
    /\ \A n \in White : n # c \/ color'[c] = "white" => rc'[n] = 0
    /\ \A n \in Nodes : color[n] \in {"black", "purple"} => rc'[n] > 0
    /\ \A n \in suspects : color[n] # "purple"

FramesBeforeVisit(R) ==
    \A k \in DOMAIN R : BlackFrame(R, k) =>
        /\ color[R[k].node] = "black"
        /\ \A s \in Slots(kids) : s[1] = R[k].node /\ R[k].next <= s[2] =>
                s \in cut' \/ To(s) \in Globals
        /\ \A j \in DOMAIN R : R[j].mode = "black" /\ R[j].node = R[k].node => j = k

ReachBeforeVisit(c, R) ==
    /\ \A S \in SUBSET Grey : S # {} /\ c \notin S =>
            \/ S \cap Elems(ahead') # {}
            \/ \E s \in Slots(kids) : To(s) \in S /\ (s[1] \in Grey \ S \/ Pending(R, s))
    /\ \A S \in SUBSET (Grey \cup White) : S # {} =>
            \/ S \cap (Elems(behind') \cup Elems(ahead')) # {}
            \/ \E s \in Slots(kids) : To(s) \in S /\ s[1] \notin S

Visited(c, R) ==
    /\ \A n \in Nodes : n # c => color'[n] = color[n]
    /\ \/ color'[c] = color[c] /\ color[c] # "grey" /\ stack' = R
       \/ /\ color[c] # "black" /\ color'[c] = "black" /\ rc'[c] > 0
          /\ stack' = Call(c, "black", R)
          /\ c \notin Globals => color[c] \in {"grey", "white"}
       \/ /\ color[c] = "grey" /\ color'[c] = "white" /\ rc'[c] = 0 /\ c \notin Globals
          /\ stack' = Call(c, "scan", R)

\* A visit of the scan pass keeps ScanInv.
LEMMA ScanVisit ==
    ASSUME TypeInv, phase = "scan", phase' = phase, kids' = kids, suspects' = suspects,
           NEW c \in Nodes, NEW R \in Seq(Frames), cut' \subseteq Slots(kids),
           BeforeVisit(c, R), FramesBeforeVisit(R), ReachBeforeVisit(c, R), Visited(c, R)
    PROVE  ScanInv'
<1> USE DEF BeforeVisit, FramesBeforeVisit, ReachBeforeVisit, Visited
<1>in. kids \in Heaps /\ suspects \subseteq Nodes /\ color \in [Nodes -> Colors]
  BY DEF TypeInv
<1>sf. \A s \in Slots(kids) : s[1] \in Nodes /\ To(s) \in Nodes /\ s[2] \in Nat /\ s[2] >= 1
  BY <1>in, SlotFacts DEF To
<1>gl. Globals \subseteq Nodes
  BY NodesAssumption DEF Nodes
<1>pa. \A s \in Slots(kids) : /\ Pending(R, s) => Pending(stack', s)
                              /\ PendingBlack(R, s) => PendingBlack(stack', s)
  BY <1>in, PendingCall
<1>pb. ASSUME NEW s \in Slots(kids), s[1] = c, c \notin Globals, color'[c] # color[c]
       PROVE  /\ Pending(stack', s)
              /\ color'[c] = "black" => PendingBlack(stack', s)
  BY <1>pb, <1>in, PendingCall
<1>1. \A g \in Globals : color'[g] \in {"black", "purple"}
  BY <1>gl
<1>2. \A s \in cut' : /\ color'[s[1]] \in {"grey", "white"} \/ PendingBlack(stack', s)
                      /\ color'[To(s)] # "purple"
                      /\ s[1] \notin Globals
                      /\ To(s) \notin Globals
  <2> SUFFICES ASSUME NEW s \in cut'
               PROVE  /\ color'[s[1]] \in {"grey", "white"} \/ PendingBlack(stack', s)
                      /\ color'[To(s)] # "purple"
                      /\ s[1] \notin Globals
                      /\ To(s) \notin Globals
    OBVIOUS
  <2>1. s \in Slots(kids) /\ s[1] \in Nodes /\ To(s) \in Nodes
    BY <1>sf
  <2>2. color'[To(s)] # "purple" /\ s[1] \notin Globals /\ To(s) \notin Globals
    BY <2>1
  <2>3. color'[s[1]] \in {"grey", "white"} \/ PendingBlack(stack', s)
    <3>1. CASE PendingBlack(R, s)
      BY <3>1, <2>1, <1>pa
    <3>2. CASE color[s[1]] \in {"grey", "white"}
      <4>1. CASE s[1] # c
        BY <4>1, <3>2, <2>1
      <4>2. CASE s[1] = c /\ color'[c] = color[c]
        BY <4>2, <3>2
      <4>3. CASE s[1] = c /\ color'[c] # color[c]
        <5>1. color'[c] = "black" => PendingBlack(stack', s)
          BY <4>3, <2>1, <2>2, <1>pb
        <5> QED
          BY <4>3, <5>1
      <4> QED
        BY <4>1, <4>2, <4>3
    <3> QED
      BY <3>1, <3>2
  <2> QED
    BY <2>2, <2>3
<1>3. \A s \in Slots(kids) : color'[s[1]] \in {"grey", "white"} => s \in cut' \/ To(s) \in Globals
  BY <1>sf
<1>4. \A k \in DOMAIN stack' : BlackFrame(stack', k) =>
                /\ color'[stack'[k].node] = "black"
                /\ \A s \in Slots(kids) : s[1] = stack'[k].node /\ stack'[k].next <= s[2] =>
                        s \in cut' \/ To(s) \in Globals
                /\ \A j \in DOMAIN stack' :
                        stack'[j].mode = "black" /\ stack'[j].node = stack'[k].node => j = k
  <2>1. \A k \in DOMAIN R : R[k] \in Frames /\ R[k].node \in Nodes
    <3>1. \A k \in DOMAIN R : R[k] \in Frames
      OBVIOUS
    <3> QED
      BY <3>1 DEF Frames
  <2>2. \A k \in DOMAIN R : BlackFrame(R, k) => color'[R[k].node] = "black"
    BY <2>1
  <2>3. CASE stack' = R
    BY <2>2, <2>3
  <2>4. ASSUME NEW m \in {"black", "scan"}, stack' = Call(c, m, R), color[c] # "black",
               m = "black" => color'[c] = "black",
               m = "black" /\ c \notin Globals => color[c] \in {"grey", "white"}
        PROVE  \A k \in DOMAIN stack' : BlackFrame(stack', k) =>
                /\ color'[stack'[k].node] = "black"
                /\ \A s \in Slots(kids) : s[1] = stack'[k].node /\ stack'[k].next <= s[2] =>
                        s \in cut' \/ To(s) \in Globals
                /\ \A j \in DOMAIN stack' :
                        stack'[j].mode = "black" /\ stack'[j].node = stack'[k].node => j = k
    <3> DEFINE T == Call(c, m, R)
    <3>1. /\ DOMAIN T = 1..(Len(R) + 1) /\ DOMAIN R = 1..Len(R) /\ Len(R) \in Nat
          /\ T[1].node = c /\ T[1].mode = m
      BY DEF Call, Frames
    <3>2. \A k \in 2..(Len(R) + 1) : T[k] = R[k - 1] /\ k - 1 \in DOMAIN R
      BY <3>1 DEF Call, Frames
    <3> HIDE DEF T
    <3>3. \A k \in 2..(Len(R) + 1) : BlackFrame(T, k) => T[k].node # c
      BY <3>2, <2>4 DEF BlackFrame
    <3>4. ASSUME NEW k \in DOMAIN T, BlackFrame(T, k)
          PROVE  /\ color'[T[k].node] = "black"
                 /\ \A s \in Slots(kids) : s[1] = T[k].node /\ T[k].next <= s[2] =>
                        s \in cut' \/ To(s) \in Globals
                 /\ \A j \in DOMAIN T : T[j].mode = "black" /\ T[j].node = T[k].node => j = k
      <4>1. CASE k = 1
        <5>1. m = "black" /\ c \notin Globals
          BY <3>1, <3>4, <4>1 DEF BlackFrame
        <5>2. ASSUME NEW j \in DOMAIN T, T[j].mode = "black", T[j].node = c PROVE j = 1
          <6>1. BlackFrame(T, j)
            BY <5>1, <5>2 DEF BlackFrame
          <6> QED
            BY <3>1, <3>3, <5>2, <6>1
        <5> QED
          BY <2>4, <3>1, <4>1, <5>1, <5>2
      <4>2. CASE k # 1
        <5>1. k \in 2..(Len(R) + 1) /\ k - 1 \in DOMAIN R /\ T[k] = R[k - 1] /\ T[k].node # c
          BY <3>1, <3>2, <3>3, <3>4, <4>2
        <5>2. BlackFrame(R, k - 1)
          BY <3>4, <5>1 DEF BlackFrame
        <5>3. ASSUME NEW j \in DOMAIN T, T[j].mode = "black", T[j].node = T[k].node PROVE j = k
          <6>1. j # 1
            BY <3>1, <5>1, <5>3
          <6>2. j \in 2..(Len(R) + 1) /\ j - 1 \in DOMAIN R /\ T[j] = R[j - 1]
            BY <3>1, <3>2, <6>1
          <6>3. j - 1 = k - 1
            BY <5>1, <5>2, <5>3, <6>2
          <6> QED
            BY <5>1, <6>2, <6>3
        <5> QED
          BY <2>2, <5>1, <5>2, <5>3
      <4> QED
        BY <4>1, <4>2
    <3> QED
      BY <2>4, <3>4 DEF T, BlackFrame
  <2>5. CASE stack' = Call(c, "black", R) /\ color[c] # "black" /\ color'[c] = "black"
    BY <2>4, <2>5
  <2>6. CASE stack' = Call(c, "scan", R) /\ color[c] = "grey"
    BY <2>4, <2>6
  <2> QED
    BY <2>3, <2>5, <2>6
<1>5. \A n \in White' : rc'[n] = 0
  BY DEF White
<1>6. \A n \in Nodes : color'[n] \in {"black", "purple"} => rc'[n] > 0
  OBVIOUS
<1>7. \A S \in SUBSET (Grey') : S # {} =>
                \/ S \cap Elems(ahead') # {}
                \/ \E s \in Slots(kids) : To(s) \in S /\ (s[1] \in (Grey') \ S \/ Pending(stack', s))
  <2> SUFFICES ASSUME NEW S \in SUBSET (Grey'), S # {}
               PROVE  \/ S \cap Elems(ahead') # {}
                      \/ \E s \in Slots(kids) : To(s) \in S /\ (s[1] \in (Grey') \ S \/ Pending(stack', s))
    OBVIOUS
  <2>1. Grey' = Grey \ {c}
    BY DEF Grey
  <2>2. S \in SUBSET Grey /\ c \notin S
    BY <2>1
  <2>3. \/ S \cap Elems(ahead') # {}
        \/ \E s \in Slots(kids) : To(s) \in S /\ (s[1] \in Grey \ S \/ Pending(R, s))
    BY <2>2
  <2>4. ASSUME NEW s \in Slots(kids), s[1] \in Grey \ S
        PROVE  s[1] \in (Grey') \ S \/ Pending(stack', s)
    <3>1. CASE s[1] = c
      <4>1. color[c] = "grey" /\ c \notin Globals
        BY <3>1, <2>4 DEF Grey
      <4>2. color'[c] # color[c]
        BY <4>1
      <4> QED
        BY <3>1, <2>4, <4>1, <4>2, <1>pb
    <3> QED
      BY <3>1, <2>4, <2>1
  <2> QED
    BY <2>3, <2>4, <1>pa
<1>8. \A S \in SUBSET (Grey' \cup White') : S # {} =>
                \/ S \cap (Elems(behind') \cup Elems(ahead')) # {}
                \/ \E s \in Slots(kids) : To(s) \in S /\ s[1] \notin S
  <2>1. Grey' \cup White' \subseteq Grey \cup White
    BY DEF Grey, White
  <2> QED
    BY <2>1
<1>9. \A n \in suspects : color'[n] # "purple"
  BY <1>in
<1> QED
  BY <1>1, <1>2, <1>3, <1>4, <1>5, <1>6, <1>7, <1>8, <1>9 DEF ScanInv, BlackFrame, To

\* What VisitScan and VisitBlack do to the colour of the visited node.
LEMMA ScanShapes ==
    ASSUME TypeInv, NEW c \in Nodes, NEW R \in Seq(Frames)
    PROVE  /\ VisitBlack(c, R) =>
                /\ \A n \in Nodes : n # c => color'[n] = color[n]
                /\ \/ color' = color /\ color[c] = "black" /\ stack' = R
                   \/ /\ color[c] # "black" /\ color'[c] = "black"
                      /\ stack' = Call(c, "black", R)
           /\ VisitScan(c, R) =>
                /\ \A n \in Nodes : n # c => color'[n] = color[n]
                /\ \/ color' = color /\ color[c] # "grey" /\ stack' = R
                   \/ /\ color[c] = "grey" /\ rc[c] > 0 /\ color'[c] = "black"
                      /\ stack' = Call(c, "black", R)
                   \/ /\ color[c] = "grey" /\ rc[c] = 0
                      /\ color'[c] = (IF c \in Globals THEN "black" ELSE "white")
                      /\ stack' = Call(c, "scan", R)
<1>1. ASSUME VisitBlack(c, R)
      PROVE  /\ \A n \in Nodes : n # c => color'[n] = color[n]
             /\ \/ color' = color /\ color[c] = "black" /\ stack' = R
                \/ /\ color[c] # "black" /\ color'[c] = "black"
                   /\ stack' = Call(c, "black", R)
  <2>1. CASE color[c] = "black"
    BY <1>1, <2>1 DEF VisitBlack
  <2>2. CASE color[c] # "black"
    BY <1>1, <2>2 DEF VisitBlack, Paint, TypeInv
  <2> QED
    BY <2>1, <2>2
<1>2. ASSUME VisitScan(c, R)
      PROVE  /\ \A n \in Nodes : n # c => color'[n] = color[n]
             /\ \/ color' = color /\ color[c] # "grey" /\ stack' = R
                \/ /\ color[c] = "grey" /\ rc[c] > 0 /\ color'[c] = "black"
                   /\ stack' = Call(c, "black", R)
                \/ /\ color[c] = "grey" /\ rc[c] = 0
                   /\ color'[c] = (IF c \in Globals THEN "black" ELSE "white")
                   /\ stack' = Call(c, "scan", R)
  <2>1. CASE color[c] # "grey"
    BY <1>2, <2>1 DEF VisitScan
  <2>2. CASE color[c] = "grey" /\ rc[c] > 0
    <3>1. VisitBlack(c, R)
      BY <1>2, <2>2 DEF VisitScan
    <3> QED
      BY <1>1, <2>2, <3>1
  <2>3. CASE color[c] = "grey" /\ ~ (rc[c] > 0)
    BY <1>2, <2>3 DEF VisitScan, Paint, TypeInv
  <2> QED
    BY <2>1, <2>2, <2>3
<1> QED
  BY <1>1, <1>2

LEMMA ScanRootStep == IInv /\ ScanRoot => ScanInv'
<1> SUFFICES ASSUME IInv, ScanRoot PROVE ScanInv'
  OBVIOUS
<1> DEFINE c == Head(ahead)
<1>i. TypeInv /\ FrameInv /\ ScanInv
  BY DEF IInv
<1>a. /\ phase = "scan" /\ stack = <<>> /\ ahead # <<>> /\ VisitScan(c, <<>>)
      /\ behind' = Append(behind, c) /\ ahead' = Tail(ahead)
      /\ UNCHANGED <<kids, ext, suspects, cut, rc, addr, phase, toFree>>
  BY DEF ScanRoot, heapVars
<1>e. /\ c \in Nodes
      /\ Elems(ahead) = {c} \cup Elems(ahead')
      /\ Elems(behind') = Elems(behind) \cup {c}
      /\ <<>> \in Seq(Frames)
  BY <1>i, <1>a, ElemsFacts
<1> HIDE DEF c
<1>v. /\ \A n \in Nodes : n # c => color'[n] = color[n]
      /\ \/ color' = color /\ color[c] # "grey" /\ stack' = <<>>
         \/ /\ color[c] = "grey" /\ rc[c] > 0 /\ color'[c] = "black"
            /\ stack' = Call(c, "black", <<>>)
         \/ /\ color[c] = "grey" /\ rc[c] = 0
            /\ color'[c] = (IF c \in Globals THEN "black" ELSE "white")
            /\ stack' = Call(c, "scan", <<>>)
  BY <1>i, <1>a, <1>e, ScanShapes
<1>s. cut' \subseteq Slots(kids) /\ cut' = cut /\ rc' = rc /\ color \in [Nodes -> Colors]
  BY <1>i, <1>a DEF TypeInv
<1>g. \A g \in Globals : color[g] \in {"black", "purple"}
  BY <1>i, <1>a DEF ScanInv
<1>1. \A s \in cut' : /\ color[s[1]] \in {"grey", "white"} \/ PendingBlack(<<>>, s)
                      /\ color[To(s)] # "purple"
                      /\ s[1] \notin Globals
                      /\ To(s) \notin Globals
  BY <1>i, <1>a DEF ScanInv
<1>2. \A s \in Slots(kids) : color[s[1]] \in {"grey", "white"} => s \in cut' \/ To(s) \in Globals
  BY <1>i, <1>a DEF ScanInv
<1>3. \A n \in White : n # c \/ color'[c] = "white" => rc'[n] = 0
  BY <1>i, <1>a DEF ScanInv
<1>4. \A n \in Nodes : color[n] \in {"black", "purple"} => rc'[n] > 0
  BY <1>i, <1>a DEF ScanInv
<1>5. \A S \in SUBSET Grey : S # {} /\ c \notin S =>
                \/ S \cap Elems(ahead') # {}
                \/ \E s \in Slots(kids) : To(s) \in S /\ (s[1] \in Grey \ S \/ Pending(<<>>, s))
  BY <1>i, <1>a, <1>e DEF ScanInv
<1>6. \A S \in SUBSET (Grey \cup White) : S # {} =>
                \/ S \cap (Elems(behind') \cup Elems(ahead')) # {}
                \/ \E s \in Slots(kids) : To(s) \in S /\ s[1] \notin S
  BY <1>i, <1>a, <1>e DEF ScanInv
<1>7. \A n \in suspects : color[n] # "purple"
  BY <1>i, <1>a DEF ScanInv
<1>8. \/ color'[c] = color[c] /\ color[c] # "grey" /\ stack' = <<>>
      \/ /\ color[c] # "black" /\ color'[c] = "black" /\ rc'[c] > 0
         /\ stack' = Call(c, "black", <<>>)
         /\ c \notin Globals => color[c] \in {"grey", "white"}
      \/ /\ color[c] = "grey" /\ color'[c] = "white" /\ rc'[c] = 0 /\ c \notin Globals
         /\ stack' = Call(c, "scan", <<>>)
  BY <1>v, <1>s, <1>g
<1>9. BeforeVisit(c, <<>>)
  BY <1>g, <1>1, <1>2, <1>3, <1>4, <1>7 DEF BeforeVisit
<1>10. FramesBeforeVisit(<<>>)
  BY DEF FramesBeforeVisit
<1>11. ReachBeforeVisit(c, <<>>)
  BY <1>5, <1>6 DEF ReachBeforeVisit
<1>12. Visited(c, <<>>)
  BY <1>v, <1>8 DEF Visited
<1> QED
  BY <1>i, <1>a, <1>e, <1>s, <1>9, <1>10, <1>11, <1>12, ScanVisit

\* Moving on keeps what ScanInv says of the black frames.
LEMMA BlackFramesAdvance ==
    ASSUME TypeInv, FrameInv, phase = "scan", ScanInv, stack # <<>>, NEW ct,
           \A s \in cut : s = Slot \/ s \in ct,
           stack[1].mode = "scan" => ct = cut
    PROVE  \A k \in DOMAIN Advance : BlackFrame(Advance, k) =>
                /\ color[Advance[k].node] = "black"
                /\ \A s \in Slots(kids) : s[1] = Advance[k].node /\ Advance[k].next <= s[2] =>
                        s \in ct \/ To(s) \in Globals
                /\ \A j \in DOMAIN Advance : Advance[j].mode = "black" /\ Advance[j].node = Advance[k].node => j = k
<1>st. stack \in Seq(Frames) /\ Advance \in Seq(Frames) /\ kids \in Heaps
  BY AdvanceFacts DEF TypeInv
<1>0. /\ DOMAIN stack = 1..Len(stack) /\ DOMAIN Advance = 1..Len(stack) /\ 1 \in DOMAIN stack
      /\ \A k \in DOMAIN stack : stack[k] \in Frames /\ Advance[k] \in Frames
  BY <1>st, AdvanceFacts
<1>1. \A k \in DOMAIN stack : /\ Advance[k].node = stack[k].node
                              /\ Advance[k].mode = stack[k].mode
                              /\ Advance[k].next = IF k = 1 THEN stack[k].next + 1 ELSE stack[k].next
  BY <1>0, <1>st, AdvanceFacts
<1>2. \A k \in DOMAIN stack : stack[k].next \in Nat
  BY <1>0 DEF Frames
<1>3. \A s \in Slots(kids) : s[2] \in Nat /\ s = <<s[1], s[2]>>
  BY <1>st, SlotFacts
<1>4. ASSUME NEW k \in DOMAIN stack, BlackFrame(stack, k)
      PROVE  /\ color[stack[k].node] = "black"
             /\ \A s \in Slots(kids) : s[1] = stack[k].node /\ stack[k].next <= s[2] =>
                        s \in cut \/ To(s) \in Globals
             /\ \A j \in DOMAIN stack : stack[j].mode = "black" /\ stack[j].node = stack[k].node => j = k
  BY <1>4 DEF ScanInv, BlackFrame
<1>5. ASSUME NEW k \in DOMAIN Advance, BlackFrame(Advance, k)
      PROVE  /\ color[Advance[k].node] = "black"
             /\ \A s \in Slots(kids) : s[1] = Advance[k].node /\ Advance[k].next <= s[2] =>
                        s \in ct \/ To(s) \in Globals
             /\ \A j \in DOMAIN Advance : Advance[j].mode = "black" /\ Advance[j].node = Advance[k].node => j = k
  <2>1. k \in DOMAIN stack /\ BlackFrame(stack, k)
    BY <1>0, <1>1, <1>5 DEF BlackFrame
  <2>2. ASSUME NEW s \in Slots(kids), s[1] = Advance[k].node, Advance[k].next <= s[2], To(s) \notin Globals
        PROVE  s \in ct
    <3>1. s[1] = stack[k].node /\ stack[k].next <= s[2] /\ (k = 1 => s[2] # stack[k].next)
      BY <2>1, <2>2, <1>1, <1>2, <1>3
    <3>2. s \in cut
      BY <2>1, <2>2, <3>1, <1>4
    <3>3. stack[1].mode = "black" => s # Slot
      <4> SUFFICES ASSUME stack[1].mode = "black", s = Slot PROVE FALSE
        OBVIOUS
      <4>1. s[1] = stack[1].node /\ s[2] = stack[1].next
        BY DEF Slot
      <4>2. k = 1
        BY <4>1, <3>1, <2>1, <1>0, <1>4
      <4> QED
        BY <4>1, <4>2, <3>1
    <3>4. stack[1].mode # "black" => ct = cut
      BY <1>0 DEF FrameInv
    <3> QED
      BY <3>2, <3>3, <3>4
  <2> QED
    BY <2>1, <2>2, <1>0, <1>1, <1>4
<1> QED
  BY <1>5

LEMMA ScanElementStep == IInv /\ ScanElement => ScanInv'
<1> SUFFICES ASSUME IInv, ScanElement PROVE ScanInv'
  OBVIOUS
<1> DEFINE c == Child
<1>i. TypeInv /\ FrameInv /\ ScanInv
  BY DEF IInv
<1>a. /\ AtElement("scan") /\ VisitScan(c, Advance)
      /\ UNCHANGED <<kids, ext, suspects, cut, rc, addr, behind, ahead, phase, toFree>>
  BY DEF ScanElement, heapVars
<1>e. /\ stack # <<>> /\ stack[1].mode = "scan" /\ Slot \in Slots(kids)
      /\ c \in Nodes /\ c = To(Slot) /\ Slot[1] = stack[1].node /\ Slot[2] = stack[1].next
  BY <1>i, <1>a, ChildFacts
<1>st. stack \in Seq(Frames) /\ Advance \in Seq(Frames) /\ kids \in Heaps /\ 1 \in DOMAIN stack
  BY <1>i, <1>e, AdvanceFacts DEF TypeInv
<1>p. phase = "scan"
  BY <1>i, <1>e, <1>st DEF FrameInv, TypeInv
<1> HIDE DEF c
<1>v. /\ \A n \in Nodes : n # c => color'[n] = color[n]
      /\ \/ color' = color /\ color[c] # "grey" /\ stack' = Advance
         \/ /\ color[c] = "grey" /\ rc[c] > 0 /\ color'[c] = "black"
            /\ stack' = Call(c, "black", Advance)
         \/ /\ color[c] = "grey" /\ rc[c] = 0
            /\ color'[c] = (IF c \in Globals THEN "black" ELSE "white")
            /\ stack' = Call(c, "scan", Advance)
  BY <1>i, <1>a, <1>e, <1>st, ScanShapes
<1>s. cut' \subseteq Slots(kids) /\ cut' = cut /\ rc' = rc /\ color \in [Nodes -> Colors]
  BY <1>i, <1>a DEF TypeInv
<1>g. \A g \in Globals : color[g] \in {"black", "purple"}
  BY <1>i, <1>p DEF ScanInv
<1>pa. \A s \in Slots(kids) : /\ Pending(stack, s) => s = Slot \/ Pending(Advance, s)
                              /\ PendingBlack(stack, s) => PendingBlack(Advance, s)
  <2>1. ASSUME NEW s \in Slots(kids), PendingBlack(stack, s)
        PROVE  PendingBlack(Advance, s)
    <3>1. PICK k \in DOMAIN stack : /\ stack[k].mode = "black" /\ stack[k].node = s[1]
                                    /\ stack[k].next <= s[2]
      BY <2>1 DEF PendingBlack
    <3>2. k # 1 /\ k \in 2..Len(stack)
      BY <3>1, <1>e, <1>st
    <3>3. k \in DOMAIN Advance /\ Advance[k] = stack[k]
      BY <3>2, <1>st, <1>e, AdvanceFacts
    <3> QED
      BY <2>1, <3>1, <3>3 DEF PendingBlack
  <2> QED
    BY <2>1, <1>st, <1>e, PendingAdvance
<1>1. \A s \in cut' : /\ color[s[1]] \in {"grey", "white"} \/ PendingBlack(Advance, s)
                      /\ color[To(s)] # "purple"
                      /\ s[1] \notin Globals
                      /\ To(s) \notin Globals
  BY <1>i, <1>p, <1>s, <1>pa DEF ScanInv
<1>2. \A s \in Slots(kids) : color[s[1]] \in {"grey", "white"} => s \in cut' \/ To(s) \in Globals
  BY <1>i, <1>p, <1>s DEF ScanInv
<1>b. \A k \in DOMAIN Advance : BlackFrame(Advance, k) =>
                /\ color[Advance[k].node] = "black"
                /\ \A s \in Slots(kids) : s[1] = Advance[k].node /\ Advance[k].next <= s[2] =>
                        s \in cut' \/ To(s) \in Globals
                /\ \A j \in DOMAIN Advance : Advance[j].mode = "black" /\ Advance[j].node = Advance[k].node => j = k
  BY <1>i, <1>p, <1>e, <1>s, BlackFramesAdvance
<1>3. \A n \in White : n # c \/ color'[c] = "white" => rc'[n] = 0
  BY <1>i, <1>p, <1>s DEF ScanInv
<1>4. \A n \in Nodes : color[n] \in {"black", "purple"} => rc'[n] > 0
  BY <1>i, <1>p, <1>s DEF ScanInv
<1>5. \A S \in SUBSET Grey : S # {} /\ c \notin S =>
                \/ S \cap Elems(ahead') # {}
                \/ \E s \in Slots(kids) : To(s) \in S /\ (s[1] \in Grey \ S \/ Pending(Advance, s))
  <2> SUFFICES ASSUME NEW S \in SUBSET Grey, S # {}, c \notin S, S \cap Elems(ahead) = {}
               PROVE  \E s \in Slots(kids) : To(s) \in S /\ (s[1] \in Grey \ S \/ Pending(Advance, s))
    BY <1>a
  <2>1. PICK s \in Slots(kids) : To(s) \in S /\ (s[1] \in Grey \ S \/ Pending(stack, s))
    BY <1>i, <1>p DEF ScanInv
  <2>2. s # Slot
    BY <2>1, <1>e
  <2> QED
    BY <2>1, <2>2, <1>pa
<1>6. \A S \in SUBSET (Grey \cup White) : S # {} =>
                \/ S \cap (Elems(behind') \cup Elems(ahead')) # {}
                \/ \E s \in Slots(kids) : To(s) \in S /\ s[1] \notin S
  BY <1>i, <1>p, <1>a DEF ScanInv
<1>7. \A n \in suspects : color[n] # "purple"
  BY <1>i, <1>p DEF ScanInv
<1>8. \/ color'[c] = color[c] /\ color[c] # "grey" /\ stack' = Advance
      \/ /\ color[c] # "black" /\ color'[c] = "black" /\ rc'[c] > 0
         /\ stack' = Call(c, "black", Advance)
         /\ c \notin Globals => color[c] \in {"grey", "white"}
      \/ /\ color[c] = "grey" /\ color'[c] = "white" /\ rc'[c] = 0 /\ c \notin Globals
         /\ stack' = Call(c, "scan", Advance)
  BY <1>v, <1>s, <1>g
<1>9. BeforeVisit(c, Advance)
  BY <1>g, <1>1, <1>2, <1>3, <1>4, <1>7 DEF BeforeVisit
<1>10. FramesBeforeVisit(Advance)
  BY <1>b DEF FramesBeforeVisit
<1>11. ReachBeforeVisit(c, Advance)
  BY <1>5, <1>6 DEF ReachBeforeVisit
<1>12. Visited(c, Advance)
  BY <1>v, <1>8 DEF Visited
<1> QED
  BY <1>i, <1>a, <1>p, <1>e, <1>st, <1>s, <1>9, <1>10, <1>11, <1>12, ScanVisit

LEMMA BlackElementStep == IInv /\ BlackElement => ScanInv'
<1> SUFFICES ASSUME IInv, BlackElement PROVE ScanInv'
  OBVIOUS
<1> DEFINE c == Child
<1>i. TypeInv /\ FrameInv /\ RefInv /\ ScanInv
  BY DEF IInv
<1>a. /\ AtElement("black") /\ VisitBlack(c, Advance)
      /\ rc' = [rc EXCEPT ![c] = @ + Weight(c)]
      /\ cut' = cut \ {Slot}
      /\ UNCHANGED <<kids, ext, suspects, addr, behind, ahead, phase, toFree>>
  BY DEF BlackElement, heapVars
<1>e. /\ stack # <<>> /\ stack[1] \in Frames /\ stack[1].mode = "black" /\ Slot \in Slots(kids)
      /\ c \in Nodes /\ c = To(Slot) /\ Slot[1] = stack[1].node /\ Slot[2] = stack[1].next
      /\ stack[1].node \notin Globals
  BY <1>i, <1>a, ChildFacts
<1>p. phase = "scan" /\ (c \in Globals => Slot \notin cut) /\ (c \notin Globals => Slot \in cut)
  BY <1>i, BlackSlotCut
<1>st. stack \in Seq(Frames) /\ Advance \in Seq(Frames) /\ kids \in Heaps /\ 1 \in DOMAIN stack
  BY <1>i, <1>e, AdvanceFacts DEF TypeInv
<1> HIDE DEF c
<1>v. /\ \A n \in Nodes : n # c => color'[n] = color[n]
      /\ \/ color' = color /\ color[c] = "black" /\ stack' = Advance
         \/ /\ color[c] # "black" /\ color'[c] = "black"
            /\ stack' = Call(c, "black", Advance)
  BY <1>i, <1>a, <1>e, <1>st, ScanShapes
<1>s. cut' \subseteq Slots(kids) /\ cut' \subseteq cut /\ color \in [Nodes -> Colors] /\ rc \in [Nodes -> Int]
  BY <1>i, <1>a DEF TypeInv
<1>g. \A g \in Globals : color[g] \in {"black", "purple"}
  BY <1>i, <1>p DEF ScanInv
<1>n0. color[stack[1].node] = "black"
  BY <1>i, <1>p, <1>e, <1>st DEF ScanInv
<1>rc. (\A n \in Nodes : n # c => rc'[n] = rc[n]) /\ rc'[c] > 0
  <2>1. \A n \in Nodes : n # c => rc'[n] = rc[n]
    BY <1>a, <1>e, <1>s
  <2>2. rc'[c] = rc[c] + Weight(c)
    BY <1>a, <1>e, <1>s
  <2>3. CASE c \in Globals
    <3>1. rc[c] > 0
      BY <2>3, <1>i, <1>p, <1>g, <1>e DEF ScanInv
    <3>2. rc'[c] = rc[c]
      BY <2>2, <2>3, <1>e, <1>s DEF Weight
    <3> QED
      BY <2>1, <3>1, <3>2
  <2>4. CASE c \notin Globals
    <3>1. Cardinality(InSlots(kids, c) \ cut) \in Nat
      BY <1>i, <1>e, CutCounts DEF TypeInv
    <3>2. ext[c] \in Nat /\ rc[c] = ext[c] + Cardinality(InSlots(kids, c) \ cut)
      BY <1>i, <1>e, <1>p, ExtAssumption DEF TypeInv, RefInv
    <3> QED
      BY <2>1, <2>2, <2>4, <3>1, <3>2 DEF Weight
  <2> QED
    BY <2>3, <2>4
<1>pa. \A s \in Slots(kids) : /\ Pending(stack, s) => s = Slot \/ Pending(Advance, s)
                              /\ PendingBlack(stack, s) => s = Slot \/ PendingBlack(Advance, s)
  BY <1>st, <1>e, PendingAdvance
<1>0. \A s \in cut : /\ color[s[1]] \in {"grey", "white"} \/ PendingBlack(stack, s)
                     /\ color[To(s)] # "purple"
                     /\ s[1] \notin Globals
                     /\ To(s) \notin Globals
  BY <1>i, <1>p DEF ScanInv
<1>1. \A s \in cut' : /\ color[s[1]] \in {"grey", "white"} \/ PendingBlack(Advance, s)
                      /\ color[To(s)] # "purple"
                      /\ s[1] \notin Globals
                      /\ To(s) \notin Globals
  BY <1>0, <1>s, <1>a, <1>pa
<1>2. \A s \in Slots(kids) : color[s[1]] \in {"grey", "white"} => s \in cut' \/ To(s) \in Globals
  <2>1. \A s \in Slots(kids) : color[s[1]] \in {"grey", "white"} => s \in cut \/ To(s) \in Globals
    BY <1>i, <1>p DEF ScanInv
  <2>2. color[Slot[1]] \notin {"grey", "white"}
    BY <1>n0, <1>e
  <2> QED
    BY <2>1, <2>2, <1>a
<1>b. \A k \in DOMAIN Advance : BlackFrame(Advance, k) =>
                /\ color[Advance[k].node] = "black"
                /\ \A s \in Slots(kids) : s[1] = Advance[k].node /\ Advance[k].next <= s[2] =>
                        s \in cut' \/ To(s) \in Globals
                /\ \A j \in DOMAIN Advance : Advance[j].mode = "black" /\ Advance[j].node = Advance[k].node => j = k
  <2>1. \A s \in cut : s = Slot \/ s \in cut'
    BY <1>a
  <2> QED
    BY <1>i, <1>p, <1>e, <2>1, BlackFramesAdvance
<1>3. \A n \in White : n # c \/ color'[c] = "white" => rc'[n] = 0
  <2>1. \A n \in White : rc[n] = 0
    BY <1>i, <1>p DEF ScanInv
  <2>2. color'[c] = "black"
    BY <1>v
  <2> QED
    BY <2>1, <2>2, <1>rc DEF White
<1>4. \A n \in Nodes : color[n] \in {"black", "purple"} => rc'[n] > 0
  BY <1>i, <1>p, <1>rc DEF ScanInv
<1>5. \A S \in SUBSET Grey : S # {} /\ c \notin S =>
                \/ S \cap Elems(ahead') # {}
                \/ \E s \in Slots(kids) : To(s) \in S /\ (s[1] \in Grey \ S \/ Pending(Advance, s))
  <2> SUFFICES ASSUME NEW S \in SUBSET Grey, S # {}, c \notin S, S \cap Elems(ahead) = {}
               PROVE  \E s \in Slots(kids) : To(s) \in S /\ (s[1] \in Grey \ S \/ Pending(Advance, s))
    BY <1>a
  <2>1. PICK s \in Slots(kids) : To(s) \in S /\ (s[1] \in Grey \ S \/ Pending(stack, s))
    BY <1>i, <1>p DEF ScanInv
  <2>2. s # Slot
    BY <2>1, <1>e
  <2> QED
    BY <2>1, <2>2, <1>pa
<1>6. \A S \in SUBSET (Grey \cup White) : S # {} =>
                \/ S \cap (Elems(behind') \cup Elems(ahead')) # {}
                \/ \E s \in Slots(kids) : To(s) \in S /\ s[1] \notin S
  BY <1>i, <1>p, <1>a DEF ScanInv
<1>7. \A n \in suspects : color[n] # "purple"
  BY <1>i, <1>p DEF ScanInv
<1>8. \/ color'[c] = color[c] /\ color[c] # "grey" /\ stack' = Advance
      \/ /\ color[c] # "black" /\ color'[c] = "black" /\ rc'[c] > 0
         /\ stack' = Call(c, "black", Advance)
         /\ c \notin Globals => color[c] \in {"grey", "white"}
  <2>1. c \notin Globals => color[c] # "purple"
    BY <1>0, <1>p, <1>e
  <2>2. color[c] \in {"black", "purple", "grey", "white"}
    BY <1>s, <1>e DEF Colors
  <2> QED
    BY <2>1, <2>2, <1>v, <1>rc
<1>9. BeforeVisit(c, Advance)
  BY <1>g, <1>1, <1>2, <1>3, <1>4, <1>7 DEF BeforeVisit
<1>10. FramesBeforeVisit(Advance)
  BY <1>b DEF FramesBeforeVisit
<1>11. ReachBeforeVisit(c, Advance)
  BY <1>5, <1>6 DEF ReachBeforeVisit
<1>12. Visited(c, Advance)
  BY <1>v, <1>8 DEF Visited
<1> QED
  BY <1>i, <1>a, <1>p, <1>e, <1>st, <1>s, <1>9, <1>10, <1>11, <1>12, ScanVisit

LEMMA ScanReturnStep == IInv /\ Return => ScanInv'
<1> SUFFICES ASSUME IInv, Return, phase = "scan" PROVE ScanInv'
  BY DEF Return, ScanInv
<1>i. TypeInv /\ FrameInv /\ ScanInv
  BY DEF IInv
<1>a. /\ stack # <<>> /\ stack[1].next > Last(stack[1]) /\ stack' = Tail(stack)
      /\ UNCHANGED <<kids, ext, suspects, cut, rc, color, addr, behind, ahead, phase, toFree>>
  BY DEF Return, heapVars
<1>s. /\ DOMAIN stack = 1..Len(stack) /\ DOMAIN stack' = 1..(Len(stack) - 1) /\ Len(stack) \in Nat
      /\ \A k \in DOMAIN stack' : stack'[k] = stack[k + 1] /\ k + 1 \in DOMAIN stack
  BY <1>i, <1>a, RestFacts DEF TypeInv
<1>c. cut \subseteq Slots(kids)
  BY <1>i DEF TypeInv
<1>4. \A s \in Slots(kids) : /\ Pending(stack, s) => Pending(stack', s)
                             /\ PendingBlack(stack, s) => PendingBlack(stack', s)
  BY <1>i, <1>a, PendingReturn
<1>5. \A k \in DOMAIN stack' : stack'[k].mode = "black" /\ stack'[k].node \notin Globals =>
                /\ color[stack'[k].node] = "black"
                /\ \A s \in Slots(kids) : s[1] = stack'[k].node /\ stack'[k].next <= s[2] =>
                        s \in cut \/ To(s) \in Globals
                /\ \A j \in DOMAIN stack' :
                        stack'[j].mode = "black" /\ stack'[j].node = stack'[k].node => j = k
  <2> SUFFICES ASSUME NEW k \in DOMAIN stack', stack'[k].mode = "black", stack'[k].node \notin Globals
               PROVE  /\ color[stack'[k].node] = "black"
                      /\ \A s \in Slots(kids) : s[1] = stack'[k].node /\ stack'[k].next <= s[2] =>
                            s \in cut \/ To(s) \in Globals
                      /\ \A j \in DOMAIN stack' :
                            stack'[j].mode = "black" /\ stack'[j].node = stack'[k].node => j = k
    OBVIOUS
  <2>1. /\ color[stack[k + 1].node] = "black"
        /\ \A s \in Slots(kids) : s[1] = stack[k + 1].node /\ stack[k + 1].next <= s[2] =>
                s \in cut \/ To(s) \in Globals
        /\ \A j \in DOMAIN stack : stack[j].mode = "black" /\ stack[j].node = stack[k + 1].node => j = k + 1
    BY <1>i, <1>s DEF ScanInv
  <2>2. \A j \in DOMAIN stack' : stack'[j].mode = "black" /\ stack'[j].node = stack'[k].node => j + 1 = k + 1
    BY <2>1, <1>s
  <2> QED
    BY <2>1, <2>2, <1>s
<1> QED
  BY <1>i, <1>a, <1>c, <1>4, <1>5 DEF ScanInv, Grey, White, To

\* The scan pass starts from what the mark pass leaves.
LEMMA ScanStart == IInv /\ NextPhase /\ phase = "mark" => ScanInv'
<1> SUFFICES ASSUME IInv, NextPhase, phase = "mark" PROVE ScanInv'
  OBVIOUS
<1>i. TypeInv /\ FrameInv /\ MarkInv
  BY DEF IInv
<1>a. /\ stack = <<>> /\ ahead = <<>> /\ ahead' = behind /\ behind' = <<>>
      /\ UNCHANGED <<kids, ext, suspects, cut, rc, color, addr, stack, toFree>>
  BY DEF NextPhase, heapVars
<1>t. /\ color \in [Nodes -> Colors] /\ cut \subseteq Slots(kids) /\ suspects \subseteq Nodes /\ kids \in Heaps
      /\ Globals \subseteq Nodes
  BY <1>i, NodesAssumption DEF TypeInv, Nodes
<1>sf. \A s \in Slots(kids) : s[1] \in Nodes /\ To(s) \in Nodes
  BY <1>t, SlotFacts DEF To
<1>w. White = {} /\ \A s : ~ Pending(stack, s)
  BY <1>i, <1>a DEF MarkInv, White, Pending
<1>1. \A g \in Globals : color[g] \in {"black", "purple"}
  BY <1>i, <1>t DEF MarkInv, Colors
<1>2. \A s \in cut : color[s[1]] = "grey" /\ color[To(s)] = "grey" /\ s[1] \notin Globals /\ To(s) \notin Globals
  BY <1>i, <1>1 DEF MarkInv
<1>3. \A s \in Slots(kids) : color[s[1]] \in {"grey", "white"} => s \in cut \/ To(s) \in Globals
  BY <1>i, <1>w, <1>sf DEF MarkInv, White
<1>4. \A n \in Nodes : color[n] \in {"black", "purple"} => rc[n] > 0
  BY <1>i DEF MarkInv
<1>5. \A S \in SUBSET Grey : S # {} =>
                \/ S \cap Elems(behind) # {}
                \/ \E s \in Slots(kids) : To(s) \in S /\ s[1] \in Grey \ S
  BY <1>i DEF MarkInv
<1>6. \A n \in suspects : color[n] # "purple"
  BY <1>i, <1>a, ElemsFacts DEF MarkInv
<1> QED
  BY <1>a, <1>w, <1>1, <1>2, <1>3, <1>4, <1>5, <1>6 DEF ScanInv, Grey, White, To

LEMMA ScanStep == IInv /\ [Next]_vars => ScanInv'
<1> SUFFICES ASSUME IInv, [Next]_vars PROVE ScanInv'
  OBVIOUS
<1>i. TypeInv /\ FrameInv /\ ScanInv
  BY DEF IInv
<1>n. ASSUME phase # "scan", phase' = phase PROVE ScanInv'
  BY <1>n DEF ScanInv
<1>1. CASE ScanRoot
  BY <1>1, ScanRootStep
<1>2. CASE ScanElement
  BY <1>2, ScanElementStep
<1>3. CASE BlackElement
  BY <1>3, BlackElementStep
<1>4. CASE MarkRoot \/ DropRoot \/ CollectRoot
  BY <1>4, <1>n DEF MarkRoot, DropRoot, CollectRoot
<1>5. CASE MarkElement \/ CollectElement
  <2>1. stack # <<>> /\ stack[1].mode \notin {"scan", "black"} /\ 1 \in DOMAIN stack
    BY <1>5, <1>i DEF MarkElement, CollectElement, AtElement, TypeInv
  <2>2. phase # "scan"
    BY <1>i, <2>1 DEF FrameInv
  <2> QED
    BY <1>5, <2>2, <1>n DEF MarkElement, CollectElement
<1>9. CASE Return
  BY <1>9, ScanReturnStep
<1>10. CASE NextPhase
  <2>1. phase' = "scan" => phase = "mark"
    BY <1>10, <1>i DEF NextPhase, TypeInv
  <2> QED
    BY <1>10, <2>1, ScanStart DEF ScanInv
<1>11. CASE Finished \/ UNCHANGED vars
  BY <1>11, <1>i DEF Finished, vars, ScanInv, Grey, White, PendingBlack, Pending, To
<1> QED
  BY <1>1, <1>2, <1>3, <1>4, <1>5, <1>9, <1>10, <1>11 DEF Next

-----------------------------------------------------------------------------
(* The collect pass. *)

\* After the scan pass, white nodes are referred to by white nodes only.
LEMMA CollectStart == IInv /\ NextPhase /\ phase = "scan" => CollectInv'
<1> SUFFICES ASSUME IInv, NextPhase, phase = "scan" PROVE CollectInv'
  OBVIOUS
<1>i. TypeInv /\ FrameInv /\ RefInv /\ ScanInv
  BY DEF IInv
<1>a. /\ stack = <<>> /\ ahead = <<>> /\ ahead' = behind /\ behind' = <<>>
      /\ UNCHANGED <<kids, ext, suspects, cut, rc, color, addr, stack, toFree>>
  BY DEF NextPhase, heapVars
<1>t. /\ color \in [Nodes -> Colors] /\ cut \subseteq Slots(kids) /\ suspects \subseteq Nodes /\ kids \in Heaps
      /\ ext \in [Nodes -> Nat] /\ rc \in [Nodes -> Int] /\ toFree = <<>>
  BY <1>i, ExtAssumption DEF TypeInv, FrameInv
<1>sf. \A s \in Slots(kids) : s[1] \in Nodes /\ To(s) \in Nodes
  BY <1>t, SlotFacts DEF To
<1>p. \A s : ~ Pending(stack, s) /\ ~ PendingBlack(stack, s)
  BY <1>a DEF Pending, PendingBlack
<1>e. Elems(ahead) = {} /\ Elems(toFree) = {}
  BY <1>a, <1>t DEF Elems
<1>1. Grey = {}
  <2>1. Grey # {} => \/ Grey \cap Elems(ahead) # {}
                     \/ \E s \in Slots(kids) : To(s) \in Grey /\ (s[1] \in Grey \ Grey \/ Pending(stack, s))
    BY <1>i DEF ScanInv
  <2> QED
    BY <2>1, <1>e, <1>p
<1>2. \A n \in Nodes : rc[n] = ext[n] + Cardinality(InSlots(kids, n) \ cut)
                       /\ Cardinality(InSlots(kids, n) \ cut) \in Nat
                       /\ (Cardinality(InSlots(kids, n) \ cut) = 0 => InSlots(kids, n) \subseteq cut)
  <2> SUFFICES ASSUME NEW n \in Nodes
               PROVE  /\ Cardinality(InSlots(kids, n) \ cut) \in Nat
                      /\ Cardinality(InSlots(kids, n) \ cut) = 0 => InSlots(kids, n) \subseteq cut
    BY <1>i DEF RefInv
  <2>1. IsFiniteSet(InSlots(kids, n) \ cut)
    BY <1>t, SlotFacts, FS_Subset DEF InSlots
  <2>2. Cardinality(InSlots(kids, n) \ cut) \in Nat
    BY <2>1, FS_CardinalityType
  <2>3. Cardinality(InSlots(kids, n) \ cut) = 0 => InSlots(kids, n) \ cut = {}
    BY <2>1, FS_EmptySet
  <2> QED
    BY <2>2, <2>3
<1>3. rc \in [Nodes -> Nat]
  <2>1. ASSUME NEW n \in Nodes PROVE rc[n] \in Nat
    <3> DEFINE C == Cardinality(InSlots(kids, n) \ cut)
    <3>1. rc[n] = ext[n] + C /\ C \in Nat /\ ext[n] \in Nat
      BY <1>2, <1>t
    <3> HIDE DEF C
    <3> QED
      BY <3>1
  <2> QED
    BY <2>1, <1>t
<1>4. \A o \in Objs : rc[o] = 0 => color[o] = "white"
  <2>1. \A n \in Nodes : color[n] # "grey"
    BY <1>1 DEF Grey
  <2>2. \A n \in Nodes : color[n] \in {"black", "purple"} => rc[n] > 0
    BY <1>i DEF ScanInv
  <2> QED
    BY <2>1, <2>2, <1>t DEF Nodes, Colors
<1>5. Doomed = White
  BY <1>4, <1>e DEF Doomed, Condemned, White, Nodes
<1>6. \A n \in White : ext[n] = 0 /\ n \notin Globals /\ \A s \in InSlots(kids, n) : s[1] \in White
  <2> SUFFICES ASSUME NEW n \in White
               PROVE  ext[n] = 0 /\ n \notin Globals /\ \A s \in InSlots(kids, n) : s[1] \in White
    OBVIOUS
  <2>1. n \in Nodes /\ rc[n] = 0 /\ color[n] = "white"
    BY <1>i DEF White, ScanInv
  <2>2. ext[n] = 0 /\ InSlots(kids, n) \subseteq cut
    <3> DEFINE C == Cardinality(InSlots(kids, n) \ cut)
    <3>1. rc[n] = ext[n] + C /\ C \in Nat /\ ext[n] \in Nat /\ (C = 0 => InSlots(kids, n) \subseteq cut)
      BY <2>1, <1>2, <1>t
    <3> HIDE DEF C
    <3> QED
      BY <2>1, <3>1
  <2>3. n \notin Globals
    BY <2>1, <1>i DEF ScanInv
  <2>4. ASSUME NEW s \in InSlots(kids, n) PROVE s[1] \in White
    <3>1. s \in cut /\ s[1] \in Nodes
      BY <2>2, <1>t, <1>sf
    <3>2. color[s[1]] \in {"grey", "white"}
      BY <3>1, <1>i, <1>p DEF ScanInv
    <3> QED
      BY <3>1, <3>2, <1>1 DEF Grey, White
  <2> QED
    BY <2>2, <2>3, <2>4
<1>7. \A S \in SUBSET White : S # {} =>
                \/ S \cap Elems(behind) # {}
                \/ \E s \in Slots(kids) : To(s) \in S /\ (s[1] \in White \ S \/ Pending(stack, s))
  <2> SUFFICES ASSUME NEW S \in SUBSET White, S # {}, S \cap Elems(behind) = {}
               PROVE  \E s \in Slots(kids) : To(s) \in S /\ s[1] \in White \ S
    OBVIOUS
  <2>1. PICK s \in Slots(kids) : To(s) \in S /\ s[1] \notin S
    BY <1>i, <1>e DEF ScanInv
  <2>2. s \in InSlots(kids, To(s))
    BY <2>1 DEF InSlots, To
  <2>3. s[1] \in White
    BY <2>1, <2>2, <1>6
  <2> QED
    BY <2>1, <2>3
<1>8. \A o \in Objs : color[o] = "white" => rc[o] = 0
  BY <1>i DEF ScanInv, White, Nodes
<1>9. \A n \in suspects : color[n] # "purple"
  BY <1>i DEF ScanInv
<1>10. Grey' = {} /\ White' = White /\ Doomed' = White
  BY <1>a, <1>1, <1>5 DEF Grey, White, Doomed, Condemned
<1>11. \A n \in Doomed' : /\ ext'[n] = 0
                          /\ n \notin Globals
                          /\ \A s \in InSlots(kids', n) : s[1] \in Doomed'
  BY <1>a, <1>6, <1>10
<1> QED
  BY <1>a, <1>t, <1>3, <1>7, <1>8, <1>9, <1>10, <1>11 DEF CollectInv, To

\* One visit of the collect pass.  H holds for a slot that the caller has just
\* moved over; A is the set of nodes that still have an address.
LEMMA CollectVisit ==
    ASSUME TypeInv, CollectInv, phase = "collect",
           kids' = kids, ext' = ext, suspects' = suspects, phase' = phase,
           NEW c \in Nodes, NEW R \in Seq(Frames), NEW given \in {0, 1},
           c \in Objs => given = 0,
           VisitWhite(c, given, addr', R),
           \A S \in SUBSET White : S # {} /\ ~ (c \in S /\ c \notin addr') =>
                \/ S \cap Elems(ahead') # {}
                \/ \E s \in Slots(kids) : To(s) \in S /\ (s[1] \in White \ S \/ Pending(R, s))
    PROVE  CollectInv'
<1>t. /\ color \in [Nodes -> Colors] /\ kids \in Heaps /\ toFree \in Seq(Zvals) /\ suspects \subseteq Nodes
      /\ Zvals \cap Objs = {} /\ Nodes = Zvals \cup Objs
  BY NodesAssumption DEF TypeInv, Nodes
<1>k. /\ Grey = {}
      /\ rc \in [Nodes -> Nat]
      /\ \A n \in Doomed : /\ ext[n] = 0
                           /\ n \notin Globals
                           /\ \A s \in InSlots(kids, n) : s[1] \in Doomed
      /\ \A o \in Objs : color[o] = "white" => rc[o] = 0
      /\ \A i \in DOMAIN toFree : color[toFree[i]] = "black"
      /\ \A i, j \in DOMAIN toFree : toFree[i] = toFree[j] => i = j
      /\ \A n \in suspects : color[n] # "purple"
  BY DEF CollectInv
<1>sf. \A s \in Slots(kids) : s[1] \in Nodes /\ To(s) \in Nodes
  BY <1>t, SlotFacts DEF To
<1>sh. \/ /\ ~ (color[c] = "white" /\ c \notin addr')
          /\ color' = color /\ toFree' = toFree /\ stack' = R
          /\ rc' = [rc EXCEPT ![c] = rc[c] + given]
       \/ /\ color[c] = "white" /\ c \notin addr'
          /\ color' = [color EXCEPT ![c] = "black"]
          /\ toFree' = (IF c \in Zvals THEN <<c>> \o toFree ELSE toFree)
          /\ stack' = Call(c, "collect", R)
          /\ rc' = [rc EXCEPT ![c] = rc[c] + given + (IF c \in Zvals THEN 1 ELSE 0)]
  <2>1. CASE ~ (color[c] = "white" /\ c \notin addr')
    BY <2>1 DEF VisitWhite
  <2>2. CASE color[c] = "white" /\ c \notin addr'
    BY <2>2 DEF VisitWhite, Paint
  <2> QED
    BY <2>1, <2>2
<1>1. rc' \in [Nodes -> Nat]
  <2>1. \E d \in Nat : rc' = [rc EXCEPT ![c] = rc[c] + d]
    <3>1. given \in Nat /\ given + 1 \in Nat /\ rc[c] \in Nat
      BY <1>k
    <3>2. rc[c] + given + (IF c \in Zvals THEN 1 ELSE 0) = rc[c] + (given + (IF c \in Zvals THEN 1 ELSE 0))
      BY <3>1
    <3>3. given + (IF c \in Zvals THEN 1 ELSE 0) \in Nat
      BY <3>1
    <3> QED
      BY <1>sh, <3>1, <3>2, <3>3
  <2> QED
    BY <2>1, <1>k
<1>2. \A o \in Objs : rc'[o] = rc[o]
  <2>1. ASSUME NEW o \in Objs PROVE rc'[o] = rc[o]
    <3>1. CASE o # c
      BY <3>1, <1>sh, <1>k, <1>t
    <3>2. CASE o = c
      <4>1. given = 0 /\ c \notin Zvals /\ rc[c] \in Nat
        BY <3>2, <1>t, <1>k
      <4> QED
        BY <3>2, <4>1, <1>sh, <1>k, <1>t
    <3> QED
      BY <3>1, <3>2
  <2> QED
    BY <2>1
<1>3. Grey' = {}
  <2>1. \A n \in Nodes : color'[n] = "grey" => color[n] = "grey"
    BY <1>sh, <1>t
  <2> QED
    BY <2>1, <1>k DEF Grey
<1>4. CASE ~ (color[c] = "white" /\ c \notin addr')
  <2>1. color' = color /\ toFree' = toFree /\ stack' = R
    BY <1>4, <1>sh
  <2>2. Doomed' = Doomed /\ White' = White
    BY <2>1, <1>2 DEF Doomed, Condemned, White, Elems
  <2>3. \A S \in SUBSET White : S # {} =>
                \/ S \cap Elems(ahead') # {}
                \/ \E s \in Slots(kids) : To(s) \in S /\ (s[1] \in White \ S \/ Pending(stack', s))
    <3> SUFFICES ASSUME NEW S \in SUBSET White, S # {}
                 PROVE  \/ S \cap Elems(ahead') # {}
                        \/ \E s \in Slots(kids) : To(s) \in S /\ (s[1] \in White \ S \/ Pending(R, s))
      BY <2>1
    <3>1. ~ (c \in S /\ c \notin addr')
      BY <1>4 DEF White
    <3> QED
      BY <3>1
  <2>4. \A n \in Doomed' : /\ ext'[n] = 0
                            /\ n \notin Globals
                            /\ \A s \in InSlots(kids', n) : s[1] \in Doomed'
    BY <1>k, <2>2
  <2>5. /\ \A o \in Objs : color'[o] = "white" => rc'[o] = 0
        /\ \A i \in DOMAIN toFree' : color'[toFree'[i]] = "black"
        /\ \A i, j \in DOMAIN toFree' : toFree'[i] = toFree'[j] => i = j
        /\ \A n \in suspects : color'[n] # "purple"
    BY <1>k, <1>2, <2>1
  <2> QED
    BY <1>1, <1>3, <2>2, <2>3, <2>4, <2>5 DEF CollectInv, To
<1>5. CASE color[c] = "white" /\ c \notin addr'
  <2>1. /\ color' = [color EXCEPT ![c] = "black"]
        /\ toFree' = (IF c \in Zvals THEN <<c>> \o toFree ELSE toFree)
        /\ stack' = Call(c, "collect", R)
    BY <1>5, <1>sh
  <2>c. /\ color'[c] = "black" /\ \A n \in Nodes : n # c => color'[n] = color[n]
        /\ White' = White \ {c} /\ c \in White /\ c \in Doomed
    BY <1>5, <2>1, <1>t DEF White, Doomed
  <2>f. /\ c \in Zvals => /\ Len(toFree') = Len(toFree) + 1
                          /\ toFree'[1] = c
                          /\ \A i \in 2..(Len(toFree) + 1) : toFree'[i] = toFree[i - 1] /\ i - 1 \in DOMAIN toFree
                          /\ DOMAIN toFree' = 1..(Len(toFree) + 1)
        /\ c \notin Zvals => toFree' = toFree
        /\ DOMAIN toFree = 1..Len(toFree) /\ Len(toFree) \in Nat
    <3>1. DOMAIN toFree = 1..Len(toFree) /\ Len(toFree) \in Nat
      BY <1>t
    <3>2. c \notin Zvals => toFree' = toFree
      BY <2>1
    <3>3. ASSUME c \in Zvals
          PROVE  /\ Len(toFree') = Len(toFree) + 1
                 /\ toFree'[1] = c
                 /\ \A i \in 2..(Len(toFree) + 1) : toFree'[i] = toFree[i - 1] /\ i - 1 \in DOMAIN toFree
                 /\ DOMAIN toFree' = 1..(Len(toFree) + 1)
      BY <2>1, <3>1, <3>3, <1>t
    <3> QED
      BY <3>1, <3>2, <3>3
  <2>n. \A i \in DOMAIN toFree : toFree[i] # c /\ toFree[i] \in Nodes
    <3>1. \A i \in DOMAIN toFree : toFree[i] # c
      BY <1>k, <1>5
    <3>2. \A i \in DOMAIN toFree : toFree[i] \in Zvals
      BY <1>t
    <3> QED
      BY <3>1, <3>2, <1>t
  <2>e. Elems(toFree') = IF c \in Zvals THEN Elems(toFree) \cup {c} ELSE Elems(toFree)
    <3>1. CASE c \in Zvals
      <4>1. \A i \in DOMAIN toFree' : toFree'[i] \in Elems(toFree) \cup {c}
        BY <3>1, <2>f DEF Elems
      <4>2. \A i \in DOMAIN toFree : i + 1 \in DOMAIN toFree' /\ toFree'[i + 1] = toFree[i]
        <5>1. \A i \in DOMAIN toFree : i + 1 \in 2..(Len(toFree) + 1) /\ (i + 1) - 1 = i
          BY <2>f
        <5> QED
          BY <5>1, <3>1, <2>f
      <4>3. 1 \in DOMAIN toFree' /\ toFree'[1] = c
        BY <3>1, <2>f
      <4> QED
        BY <3>1, <4>1, <4>2, <4>3 DEF Elems
    <3>2. CASE c \notin Zvals
      BY <3>2, <2>f
    <3> QED
      BY <3>1, <3>2
  <2>2. Doomed' = Doomed
    <3>1. c \in Objs => rc'[c] = 0
      BY <1>k, <1>2, <1>5
    <3>2. Condemned' = Elems(toFree') \cup {o \in Objs : rc[o] = 0}
      BY <1>2 DEF Condemned
    <3> QED
      BY <2>c, <2>e, <3>1, <3>2, <1>2, <1>t DEF Doomed, Condemned
  <2>3. \A o \in Objs : color'[o] = "white" => rc'[o] = 0
    BY <1>k, <1>2, <2>c, <1>t
  <2>4. \A i \in DOMAIN toFree' : color'[toFree'[i]] = "black"
    <3>1. \A i \in DOMAIN toFree : color'[toFree[i]] = "black"
      BY <2>n, <2>c, <1>k
    <3>2. CASE c \in Zvals
      <4> SUFFICES ASSUME NEW i \in DOMAIN toFree' PROVE color'[toFree'[i]] = "black"
        OBVIOUS
      <4>1. i = 1 \/ i \in 2..(Len(toFree) + 1)
        BY <3>2, <2>f
      <4>2. i # 1 => i - 1 \in DOMAIN toFree /\ toFree'[i] = toFree[i - 1]
        BY <3>2, <4>1, <2>f
      <4>3. toFree'[1] = c
        BY <3>2, <2>f
      <4> QED
        BY <3>1, <4>2, <4>3, <2>c
    <3>3. CASE c \notin Zvals
      BY <3>1, <3>3, <2>f
    <3> QED
      BY <3>2, <3>3
  <2>5. \A i, j \in DOMAIN toFree' : toFree'[i] = toFree'[j] => i = j
    <3>1. CASE c \in Zvals
      <4> SUFFICES ASSUME NEW i \in DOMAIN toFree', NEW j \in DOMAIN toFree', toFree'[i] = toFree'[j]
                   PROVE  i = j
        OBVIOUS
      <4>1. /\ i = 1 \/ (i \in 2..(Len(toFree) + 1) /\ i - 1 \in DOMAIN toFree /\ toFree'[i] = toFree[i - 1])
            /\ j = 1 \/ (j \in 2..(Len(toFree) + 1) /\ j - 1 \in DOMAIN toFree /\ toFree'[j] = toFree[j - 1])
            /\ toFree'[1] = c /\ i \in Nat /\ j \in Nat
        BY <3>1, <2>f
      <4>2. CASE i = 1 \/ j = 1
        BY <4>1, <4>2, <2>n
      <4>3. CASE i # 1 /\ j # 1
        <5>1. i - 1 = j - 1
          BY <4>1, <4>3, <1>k
        <5> QED
          BY <4>1, <5>1
      <4> QED
        BY <4>2, <4>3
    <3>2. CASE c \notin Zvals
      BY <3>2, <2>f, <1>k
    <3> QED
      BY <3>1, <3>2
  <2>6. \A S \in SUBSET (White') : S # {} =>
                \/ S \cap Elems(ahead') # {}
                \/ \E s \in Slots(kids) : To(s) \in S /\ (s[1] \in White' \ S \/ Pending(stack', s))
    <3> SUFFICES ASSUME NEW S \in SUBSET (White'), S # {}, S \cap Elems(ahead') = {}
                 PROVE  \E s \in Slots(kids) : To(s) \in S /\ (s[1] \in White' \ S \/ Pending(stack', s))
      OBVIOUS
    <3>1. S \in SUBSET White /\ c \notin S
      BY <2>c
    <3>2. PICK s \in Slots(kids) : To(s) \in S /\ (s[1] \in White \ S \/ Pending(R, s))
      BY <3>1
    <3>3. Pending(R, s) => Pending(stack', s)
      BY <2>1, <1>t, PendingCall
    <3>4. s[1] = c => Pending(stack', s)
      BY <2>1, <1>t, <1>k, <2>c, PendingCall
    <3> QED
      BY <3>2, <3>3, <3>4, <2>c
  <2>7. \A n \in suspects : color'[n] # "purple"
    BY <1>k, <2>c, <1>t
  <2>8. \A n \in Doomed' : /\ ext'[n] = 0
                            /\ n \notin Globals
                            /\ \A s \in InSlots(kids', n) : s[1] \in Doomed'
    BY <1>k, <2>2
  <2> QED
    BY <1>1, <1>3, <2>3, <2>4, <2>5, <2>6, <2>7, <2>8 DEF CollectInv, To
<1> QED
  BY <1>4, <1>5

LEMMA CollectElementStep == IInv /\ CollectElement => CollectInv'
<1> SUFFICES ASSUME IInv, CollectElement PROVE CollectInv'
  OBVIOUS
<1> DEFINE c == Child
           w == RestoredWeight(Child)
<1>i. TypeInv /\ FrameInv /\ CollectInv
  BY DEF IInv
<1>a. /\ AtElement("collect") /\ VisitWhite(c, w, addr, Advance)
      /\ UNCHANGED <<kids, ext, suspects, addr, behind, ahead, phase>>
  BY DEF CollectElement, heapVars
<1>e. /\ stack # <<>> /\ stack[1] \in Frames /\ stack[1].mode = "collect" /\ Slot \in Slots(kids)
      /\ c \in Nodes /\ c = To(Slot)
  BY <1>i, <1>a, ChildFacts
<1>w. w \in {0, 1} /\ (c \in Objs => w = 0)
  BY DEF RestoredWeight, Weight
<1>st. stack \in Seq(Frames) /\ Advance \in Seq(Frames) /\ kids \in Heaps /\ 1 \in DOMAIN stack
  BY <1>i, <1>e, AdvanceFacts DEF TypeInv
<1>p. phase = "collect"
  <2>1. phase \notin {"mark", "scan", "done"}
    BY <1>i, <1>e, <1>st DEF FrameInv
  <2> QED
    BY <1>i, <2>1 DEF TypeInv
<1> HIDE DEF c, w
<1>1. \A S \in SUBSET White : S # {} /\ ~ (c \in S /\ c \notin addr') =>
                \/ S \cap Elems(ahead') # {}
                \/ \E s \in Slots(kids) : To(s) \in S /\ (s[1] \in White \ S \/ Pending(Advance, s))
  <2> SUFFICES ASSUME NEW S \in SUBSET White, S # {}, ~ (c \in S /\ c \notin addr),
                      S \cap Elems(ahead) = {}
               PROVE  \E s \in Slots(kids) : To(s) \in S /\ (s[1] \in White \ S \/ Pending(Advance, s))
    BY <1>a
  <2>1. PICK s \in Slots(kids) : To(s) \in S /\ (s[1] \in White \ S \/ Pending(stack, s))
    BY <1>i, <1>p DEF CollectInv
  <2>2. addr \subseteq Elems(ahead)
    BY <1>i, <1>p, ElemsFacts DEF FrameInv
  <2>3. c \notin S
    BY <2>2
  <2>4. s # Slot
    BY <2>1, <2>3, <1>e
  <2> QED
    BY <2>1, <2>4, <1>st, <1>e, PendingAdvance
<1>2. VisitWhite(c, w, addr', Advance)
  BY <1>a
<1> QED
  BY <1>i, <1>a, <1>p, <1>e, <1>w, <1>st, <1>1, <1>2, CollectVisit

LEMMA CollectRootStep == IInv /\ CollectRoot => CollectInv'
<1> SUFFICES ASSUME IInv, CollectRoot PROVE CollectInv'
  OBVIOUS
<1> DEFINE c == Head(ahead)
<1>i. TypeInv /\ FrameInv /\ CollectInv
  BY DEF IInv
<1>a. /\ phase = "collect" /\ stack = <<>> /\ ahead # <<>>
      /\ addr' = addr \ {c} /\ VisitWhite(c, 0, addr', <<>>) /\ ahead' = Tail(ahead)
      /\ UNCHANGED <<kids, ext, suspects, behind, phase>>
  BY DEF CollectRoot, heapVars
<1>e. c \in Nodes /\ Elems(ahead) = {c} \cup Elems(ahead') /\ <<>> \in Seq(Frames)
  BY <1>i, <1>a, ElemsFacts
<1>w. 0 \in {0, 1}
  OBVIOUS
<1> HIDE DEF c
<1>1. \A S \in SUBSET White : S # {} /\ ~ (c \in S /\ c \notin addr') =>
                \/ S \cap Elems(ahead') # {}
                \/ \E s \in Slots(kids) : To(s) \in S /\ (s[1] \in White \ S \/ Pending(<<>>, s))
  <2> SUFFICES ASSUME NEW S \in SUBSET White, S # {}, c \notin S, S \cap Elems(ahead') = {}
               PROVE  \E s \in Slots(kids) : To(s) \in S /\ (s[1] \in White \ S \/ Pending(<<>>, s))
    BY <1>a
  <2>1. S \cap Elems(ahead) = {}
    BY <1>e
  <2> QED
    BY <2>1, <1>i, <1>a DEF CollectInv
<1> QED
  BY <1>i, <1>a, <1>e, <1>w, <1>1, CollectVisit

LEMMA CollectStep == IInv /\ [Next]_vars => CollectInv'
<1> SUFFICES ASSUME IInv, [Next]_vars PROVE CollectInv'
  OBVIOUS
<1>i. TypeInv /\ FrameInv /\ CollectInv
  BY DEF IInv
<1>n. ASSUME phase \in {"mark", "scan"}, phase' = phase PROVE CollectInv'
  BY <1>n DEF CollectInv
<1>u. ASSUME phase \in {"collect", "done"}, phase' \in {"collect", "done"},
             UNCHANGED <<kids, ext, suspects, rc, color, toFree, ahead>>,
             \A s \in Slots(kids) : Pending(stack, s) => Pending(stack', s)
      PROVE  CollectInv'
  <2>1. Doomed' = Doomed /\ White' = White /\ Grey' = Grey
    BY <1>u DEF Doomed, Condemned, White, Grey, Elems
  <2>2. \A S \in SUBSET White : S # {} =>
                \/ S \cap Elems(ahead) # {}
                \/ \E s \in Slots(kids) : To(s) \in S /\ (s[1] \in White \ S \/ Pending(stack', s))
    BY <1>u, <1>i DEF CollectInv
  <2>3. \A n \in Doomed : /\ ext[n] = 0
                          /\ n \notin Globals
                          /\ \A s \in InSlots(kids, n) : s[1] \in Doomed
    BY <1>u, <1>i DEF CollectInv
  <2>4. /\ Grey = {} /\ rc \in [Nodes -> Nat]
        /\ \A o \in Objs : color[o] = "white" => rc[o] = 0
        /\ \A i \in DOMAIN toFree : color[toFree[i]] = "black"
        /\ \A i, j \in DOMAIN toFree : toFree[i] = toFree[j] => i = j
        /\ \A n \in suspects : color[n] # "purple"
    BY <1>u, <1>i DEF CollectInv
  <2>5. \A n \in Doomed' : /\ ext'[n] = 0
                           /\ n \notin Globals
                           /\ \A s \in InSlots(kids', n) : s[1] \in Doomed'
    BY <1>u, <2>1, <2>3
  <2> QED
    BY <1>u, <2>1, <2>2, <2>4, <2>5 DEF CollectInv, To
<1>1. CASE MarkRoot \/ DropRoot \/ ScanRoot
  BY <1>1, <1>n DEF MarkRoot, DropRoot, ScanRoot
<1>2. CASE MarkElement \/ ScanElement \/ BlackElement
  <2>1. stack # <<>> /\ stack[1].mode # "collect" /\ 1 \in DOMAIN stack
    BY <1>2, <1>i DEF MarkElement, ScanElement, BlackElement, AtElement, TypeInv
  <2>2. phase \in {"mark", "scan"}
    BY <1>i, <2>1 DEF FrameInv, TypeInv
  <2> QED
    BY <1>2, <2>2, <1>n DEF MarkElement, ScanElement, BlackElement
<1>3. CASE CollectRoot
  BY <1>3, CollectRootStep
<1>4. CASE CollectElement
  BY <1>4, CollectElementStep
<1>9. CASE Return
  <2>1. \A s \in Slots(kids) : Pending(stack, s) => Pending(stack', s)
    BY <1>9, <1>i, PendingReturn DEF Return
  <2>2. CASE phase \in {"mark", "scan"}
    BY <1>9, <2>2, <1>n DEF Return
  <2>3. CASE phase \in {"collect", "done"}
    BY <1>9, <2>1, <2>3, <1>u DEF Return, heapVars
  <2> QED
    BY <2>2, <2>3, <1>i DEF TypeInv
<1>10. CASE NextPhase
  <2>1. CASE phase = "scan"
    BY <1>10, <2>1, CollectStart
  <2>2. CASE phase = "mark"
    <3>1. phase' = "scan"
      BY <1>10, <2>2 DEF NextPhase
    <3> QED
      BY <3>1 DEF CollectInv
  <2>3. CASE phase = "collect"
    <3>1. phase' = "done" /\ stack' = stack /\ ahead' = behind /\ ahead = <<>>
          /\ UNCHANGED <<kids, ext, suspects, rc, color, toFree>>
      BY <1>10, <2>3 DEF NextPhase, heapVars
    <3>2. ahead' = ahead
      BY <3>1, <2>3, <1>i DEF FrameInv
    <3> QED
      BY <2>3, <3>1, <3>2, <1>u
  <2> QED
    BY <2>1, <2>2, <2>3, <1>10, <1>i DEF NextPhase, TypeInv
<1>11. CASE Finished \/ UNCHANGED vars
  <2>1. UNCHANGED vars
    BY <1>11 DEF Finished
  <2>2. CASE phase \in {"mark", "scan"}
    BY <2>1, <2>2, <1>n DEF vars
  <2>3. CASE phase \in {"collect", "done"}
    BY <2>1, <2>3, <1>u DEF vars
  <2> QED
    BY <2>2, <2>3, <1>i DEF TypeInv
<1> QED
  BY <1>1, <1>2, <1>3, <1>4, <1>9, <1>10, <1>11 DEF Next

-----------------------------------------------------------------------------
(* The invariant and its consequences. *)

\* Before the first visit nothing is counted down, grey or white.
LEMMA InitInv == Init => IInv
<1> SUFFICES ASSUME Init PROVE IInv
  OBVIOUS
<1>1. TypeInv /\ FrameInv
  BY InitType
<1>2. /\ phase = "mark" /\ cut = {} /\ stack = <<>>
      /\ \A n \in Nodes : color[n] \in {"black", "purple"}
  BY DEF Init
<1>3. RefInv
  <2>1. ASSUME NEW n \in Nodes PROVE rc[n] = ext[n] + Cardinality(InSlots(kids, n) \ cut)
    <3>1. InSlots(kids, n) \ cut = InSlots(kids, n)
      BY <1>2
    <3> QED
      BY <3>1 DEF Init
  <2> QED
    BY <2>1 DEF RefInv
<1>4. MarkInv
  <2>1. \A n \in Nodes : color[n] # "white" /\ color[n] # "grey"
    BY <1>2
  <2>2. Grey = {}
    BY <2>1 DEF Grey
  <2>3. \A g \in Globals : color[g] # "grey"
    BY <2>1, NodesAssumption DEF Nodes
  <2>4. \A s \in Slots(kids) : color[s[1]] # "grey"
    BY <2>1, SlotFacts, <1>1 DEF TypeInv
  <2>5. \A n \in Nodes : rc[n] > 0
    BY DEF Init
  <2>6. \A n \in suspects : n \in Elems(ahead)
    BY DEF Init
  <2>7. \A k \in DOMAIN stack : FALSE
    BY <1>2
  <2> QED
    BY <1>2, <2>1, <2>2, <2>3, <2>4, <2>5, <2>6, <2>7 DEF MarkInv
<1>5. ScanInv /\ CollectInv
  BY <1>2 DEF ScanInv, CollectInv
<1> QED
  BY <1>1, <1>3, <1>4, <1>5 DEF IInv

\* Every step of the three passes preserves the invariant.
LEMMA Inductive == IInv /\ [Next]_vars => IInv'
<1> SUFFICES ASSUME IInv, [Next]_vars PROVE IInv'
  OBVIOUS
<1>1. TypeInv' /\ FrameInv'
  BY TypeStep, FrameStep DEF IInv
<1>2. RefInv' /\ MarkInv' /\ ScanInv' /\ CollectInv'
  BY RefStep, MarkStep, ScanStep, CollectStep
<1> QED
  BY <1>1, <1>2 DEF IInv

\* The inductive invariant holds in every state of a collection.
THEOREM Invariance == Spec => []IInv
<1>1. Init => IInv
  BY InitInv
<1>2. IInv /\ [Next]_vars => IInv'
  BY Inductive
<1> QED
  BY <1>1, <1>2, PTL DEF Spec

\* No reference count is ever counted below zero (the collector relies on it:
\* refcount__gc is unsigned), and the passes keep every structure well typed.
THEOREM TypeCorrect == Spec => []TypeOK
<1>1. IInv => TypeOK
  <2> SUFFICES ASSUME IInv PROVE TypeOK
    OBVIOUS
  <2>i. TypeInv /\ RefInv /\ CollectInv
    BY DEF IInv
  <2>1. CASE phase \in {"mark", "scan"}
    <3>1. ASSUME NEW n \in Nodes PROVE rc[n] \in Nat
      <4>1. ext[n] \in Nat
        BY <2>i, ExtAssumption DEF TypeInv
      <4>2. IsFiniteSet(InSlots(kids, n) \ cut)
        BY <2>i, SlotFacts, FS_Subset DEF InSlots, TypeInv
      <4>3. Cardinality(InSlots(kids, n) \ cut) \in Nat
        BY <4>2, FS_CardinalityType
      <4> QED
        BY <2>1, <2>i, <4>1, <4>3 DEF RefInv
    <3>2. rc \in [Nodes -> Nat]
      BY <3>1, <2>i DEF TypeInv
    <3> QED
      BY <2>i, <3>2 DEF TypeInv, TypeOK
  <2>2. CASE phase \in {"collect", "done"}
    <3>1. rc \in [Nodes -> Nat]
      BY <2>2, <2>i DEF CollectInv
    <3> QED
      BY <2>i, <3>1 DEF TypeInv, TypeOK
  <2> QED
    BY <2>1, <2>2, <2>i DEF TypeInv
<1> QED
  BY <1>1, Invariance, PTL

\* The list zval_to_free never holds a zval twice.
THEOREM NoDoubleFreeHolds == Spec => []NoDoubleFree
<1>1. IInv => NoDoubleFree
  <2> SUFFICES ASSUME IInv PROVE NoDoubleFree
    OBVIOUS
  <2>1. CASE phase \in {"mark", "scan"}
    <3>1. toFree = <<>>
      BY <2>1 DEF IInv, FrameInv
    <3> QED
      BY <3>1 DEF NoDoubleFree
  <2>2. CASE phase \in {"collect", "done"}
    BY <2>2 DEF IInv, CollectInv, NoDoubleFree
  <2> QED
    BY <2>1, <2>2 DEF IInv, TypeInv
<1> QED
  BY <1>1, Invariance, PTL

\* Nothing outside the doomed nodes leads to them, and the script holds none.
LEMMA DoomedClosed ==
    ASSUME IInv, phase \in {"collect", "done"}
    PROVE  /\ Cycle!Closed(kids, Nodes \ Doomed)
           /\ Cycle!Anchors(kids, ext) \subseteq Nodes \ Doomed
<1> DEFINE T == Nodes \ Doomed
<1>i. TypeInv /\ kids \in Heaps
  BY DEF IInv, TypeInv
<1>1. \A n \in Doomed : /\ ext[n] = 0
                        /\ n \notin Globals
                        /\ \A s \in InSlots(kids, n) : s[1] \in Doomed
  BY DEF IInv, CollectInv
<1>2. ASSUME NEW n \in Nodes, NEW i \in DOMAIN kids[n], kids[n][i] \in Doomed
      PROVE  n \in Doomed
  <2>1. <<n, i>> \in Slots(kids)
    BY SlotFacts, <1>i
  <2>2. <<n, i>> \in InSlots(kids, kids[n][i])
    BY <2>1 DEF InSlots
  <2> QED
    BY <1>1, <1>2, <2>2
<1>3. \A n \in Nodes : \A i \in DOMAIN kids[n] : kids[n][i] \in Nodes
  BY SlotFacts, <1>i
<1>4. Cycle!Closed(kids, T)
  BY <1>2, <1>3 DEF Cycle!Closed, Cycle!Refs
<1>5. Cycle!Anchors(kids, ext) \subseteq T
  <2>1. \A n \in Nodes : ext[n] > 0 => n \in T
    BY <1>1
  <2>2. Globals \subseteq T
    BY <1>1, NodesAssumption DEF Nodes
  <2>3. \A g \in Globals : Cycle!Refs(kids, g) \subseteq T
    BY <1>1, <1>2, <1>3, NodesAssumption DEF Cycle!Refs, Nodes
  <2> QED
    BY <2>1, <2>2, <2>3 DEF Cycle!Anchors, Cycle!Nodes, Nodes
<1> QED
  BY <1>4, <1>5

\* What is reachable from the script's references stays outside the doomed nodes.
LEMMA LiveNotDoomed ==
    ASSUME IInv, phase = "done"
    PROVE  Cycle!Live(kids, ext) \cap Doomed = {}
<1> DEFINE T == Nodes \ Doomed
<1>1. Cycle!Closed(kids, T) /\ Cycle!Anchors(kids, ext) \subseteq T
  BY DoomedClosed
<1>2. T \in SUBSET Nodes
  OBVIOUS
<1> HIDE DEF T
<1>3. Cycle!Live(kids, ext) \subseteq T
  BY <1>1, <1>2 DEF Cycle!Live, Cycle!Reach, Cycle!Nodes, Nodes
<1> QED
  BY <1>3 DEF T

\* A collection condemns nothing that the script can still reach.
THEOREM Safety == Spec => []OnlyGarbage
<1>1. IInv => OnlyGarbage
  BY LiveNotDoomed DEF OnlyGarbage, Doomed
<1> QED
  BY <1>1, Invariance, PTL

\* A collection leaves an empty buffer and no node grey or white: the passes
\* miss nothing of what they painted.
THEOREM Cleanup == Spec => []HeapCleaned
<1>1. IInv => HeapCleaned
  <2> SUFFICES ASSUME IInv, phase = "done" PROVE HeapCleaned
    BY DEF HeapCleaned
  <2>i. TypeInv /\ FrameInv /\ CollectInv
    BY DEF IInv
  <2>1. stack = <<>> /\ ahead = <<>> /\ behind = <<>>
    BY <2>i DEF FrameInv
  <2>2. Elems(<<>>) = {}
    BY DEF Elems
  <2>3. addr = {}
    BY <2>1, <2>2, <2>i DEF FrameInv
  <2>4. White = {}
    <3>1. \A s \in Slots(kids) : ~ Pending(stack, s)
      BY <2>1 DEF Pending
    <3> QED
      BY <2>i, <2>1, <2>2, <3>1 DEF CollectInv
  <2>5. \A n \in Nodes : color[n] \notin {"grey", "white"}
    BY <2>4, <2>i DEF CollectInv, Grey, White
  <2>6. \A n \in suspects : color[n] = "black"
    BY <2>5, <2>i DEF CollectInv, TypeInv, Colors
  <2> QED
    BY <2>3, <2>5, <2>6 DEF HeapCleaned
<1> QED
  BY <1>1, Invariance, PTL
-----------------------------------------------------------------------------
(* What the collect pass gives back. *)

\* The collect pass counts the references of the condemned zvals again, and leaves
\* those to store objects cut: in the end `cut' is just the references that die with
\* their holder.
Settled == phase \in {"collect", "done"}
Counted(n) == rc[n] = ext[n] + (IF n \in Elems(toFree) THEN 1 ELSE 0)
                      + Cardinality(InSlots(kids, n) \ cut)
Gathering(st, C) == \A k \in DOMAIN st :
    /\ st[k].node \in Doomed /\ color[st[k].node] = "black"
    /\ \A s \in Slots(kids) : s[1] = st[k].node /\ st[k].next <= s[2] => s \in C \/ To(s) \in Globals
    /\ \A j \in DOMAIN st : st[j].node = st[k].node => j = k
CutInv == Settled =>
    /\ \A n \in Nodes : Counted(n)
    /\ \A s \in cut : /\ s[1] \in Doomed /\ To(s) \notin Globals
                      /\ color[s[1]] = "white" \/ Pending(stack, s) \/ To(s) \in Objs
    /\ \A s \in Slots(kids) : s[1] \in Doomed /\ (color[s[1]] = "white" \/ To(s) \in Objs)
                                  => s \in cut \/ To(s) \in Globals
    /\ Gathering(stack, cut)

\* One visit of the collect pass: what it changes, and that it condemns nobody new.
LEMMA WhiteVisit ==
    ASSUME TypeInv, CollectInv, phase = "collect",
           NEW c \in Nodes, NEW R \in Seq(Frames), NEW given \in {0, 1},
           c \in Objs => given = 0, NEW A, VisitWhite(c, given, A, R)
    PROVE  /\ \/ /\ color' = color /\ stack' = R
                 /\ Elems(toFree') = Elems(toFree) /\ rc'[c] = rc[c] + given
              \/ /\ color[c] = "white" /\ stack' = Call(c, "collect", R)
                 /\ color'[c] = "black" /\ \A n \in Nodes : n # c => color'[n] = color[n]
                 /\ Elems(toFree') = Elems(toFree) \cup ({c} \cap Zvals) /\ c \notin Elems(toFree)
                 /\ rc'[c] = rc[c] + given + (IF c \in Zvals THEN 1 ELSE 0)
           /\ \A n \in Nodes : n # c => rc'[n] = rc[n]
           /\ Doomed' = Doomed
<1>t. /\ color \in [Nodes -> Colors] /\ toFree \in Seq(Zvals) /\ rc \in [Nodes -> Int]
      /\ Zvals \cap Objs = {} /\ Nodes = Zvals \cup Objs
  BY NodesAssumption DEF TypeInv, Nodes
<1>k. /\ \A o \in Objs : color[o] = "white" => rc[o] = 0
      /\ \A i \in DOMAIN toFree : color[toFree[i]] = "black"
  BY DEF CollectInv
<1>1. CASE ~ (color[c] = "white" /\ c \notin A)
  <2>1. color' = color /\ stack' = R /\ toFree' = toFree /\ rc' = [rc EXCEPT ![c] = rc[c] + given]
    BY <1>1 DEF VisitWhite
  <2>2. rc'[c] = rc[c] + given /\ \A n \in Nodes : n # c => rc'[n] = rc[n]
    BY <1>t, <2>1
  <2>3. \A o \in Objs : rc'[o] = rc[o]
    <3>1. ASSUME c \in Objs PROVE rc'[c] = rc[c]
      BY <3>1, <1>t, <2>2
    <3> QED
      BY <3>1, <1>t, <2>2
  <2>4. Doomed' = Doomed
    BY <2>1, <2>3 DEF Doomed, Condemned, White, Elems
  <2> QED
    BY <2>1, <2>2, <2>4
<1>2. CASE color[c] = "white" /\ c \notin A
  <2>1. /\ color' = [color EXCEPT ![c] = "black"] /\ stack' = Call(c, "collect", R)
        /\ toFree' = (IF c \in Zvals THEN <<c>> \o toFree ELSE toFree)
        /\ rc' = [rc EXCEPT ![c] = rc[c] + given + (IF c \in Zvals THEN 1 ELSE 0)]
    BY <1>2 DEF VisitWhite, Paint
  <2>2. color'[c] = "black" /\ \A n \in Nodes : n # c => color'[n] = color[n]
    BY <1>t, <2>1
  <2>3. /\ rc'[c] = rc[c] + given + (IF c \in Zvals THEN 1 ELSE 0)
        /\ \A n \in Nodes : n # c => rc'[n] = rc[n]
    BY <1>t, <2>1
  <2>4. Elems(toFree') = Elems(toFree) \cup ({c} \cap Zvals)
    <3>1. CASE c \in Zvals
      <4>1. DOMAIN toFree = 1..Len(toFree) /\ Len(toFree) \in Nat
        BY <1>t
      <4>2. /\ DOMAIN toFree' = 1..(Len(toFree) + 1) /\ toFree'[1] = c
            /\ \A i \in 2..(Len(toFree) + 1) : toFree'[i] = toFree[i - 1] /\ i - 1 \in DOMAIN toFree
        BY <1>t, <2>1, <3>1, <4>1
      <4>3. \A i \in DOMAIN toFree : i + 1 \in 2..(Len(toFree) + 1) /\ (i + 1) - 1 = i
        BY <4>1
      <4>4. \A i \in DOMAIN toFree : i + 1 \in DOMAIN toFree' /\ toFree'[i + 1] = toFree[i]
        BY <4>1, <4>2, <4>3
      <4>5. 1 \in DOMAIN toFree' /\ \A i \in DOMAIN toFree' : i = 1 \/ i \in 2..(Len(toFree) + 1)
        BY <4>1, <4>2
      <4>6. \A i \in DOMAIN toFree' : toFree'[i] \in Elems(toFree) \cup {c}
        BY <4>2, <4>5 DEF Elems
      <4>7. c \in Elems(toFree')
        BY <4>2, <4>5 DEF Elems
      <4>8. \A i \in DOMAIN toFree : toFree[i] \in Elems(toFree')
        BY <4>4 DEF Elems
      <4>9. Elems(toFree) \subseteq Elems(toFree')
        BY <4>8 DEF Elems
      <4>10. Elems(toFree') \subseteq Elems(toFree) \cup {c}
        BY <4>6 DEF Elems
      <4> QED
        BY <3>1, <4>7, <4>9, <4>10
    <3>2. CASE c \notin Zvals
      BY <2>1, <3>2 DEF Elems
    <3> QED
      BY <3>1, <3>2
  <2>5. c \notin Elems(toFree)
    BY <1>2, <1>k DEF Elems
  <2>6. Doomed' = Doomed
    <3>1. \A o \in Objs : rc'[o] = rc[o]
      <4>1. ASSUME c \in Objs PROVE rc'[c] = rc[c]
        BY <4>1, <1>t, <1>k, <1>2, <2>3
      <4> QED
        BY <4>1, <1>t, <2>3
    <3>2. White' = White \ {c} /\ c \in White
      BY <1>2, <2>2 DEF White
    <3>3. c \in Objs => rc[c] = 0
      BY <1>2, <1>k
    <3> QED
      BY <1>t, <2>4, <3>1, <3>2, <3>3 DEF Doomed, Condemned
  <2> QED
    BY <1>2, <2>1, <2>2, <2>3, <2>4, <2>5, <2>6
<1> QED
  BY <1>1, <1>2

\* One visit of the collect pass, after which the slots of C are still cut.
LEMMA CutVisit ==
    ASSUME TypeInv, CollectInv, CutInv, phase = "collect",
           kids' = kids, ext' = ext, phase' = phase,
           NEW c \in Nodes, NEW R \in Seq(Frames), NEW given \in {0, 1},
           c \in Objs => given = 0, NEW A, VisitWhite(c, given, A, R),
           NEW C \in SUBSET cut, cut' = C,
           \A n \in Nodes : Cardinality(InSlots(kids, n) \ C)
                                = Cardinality(InSlots(kids, n) \ cut) + (IF n = c THEN given ELSE 0),
           \A s \in cut \ C : color[s[1]] = "black" /\ To(s) \notin Objs,
           \A s \in C : Pending(stack, s) => Pending(R, s) \/ To(s) \in Objs,
           Gathering(R, C)
    PROVE  CutInv'
<1>t. /\ kids \in Heaps /\ cut \subseteq Slots(kids) /\ rc \in [Nodes -> Int] /\ ext \in [Nodes -> Nat]
      /\ toFree \in Seq(Zvals) /\ Zvals \cap Objs = {} /\ Nodes = Zvals \cup Objs
      /\ color \in [Nodes -> Colors]
  BY NodesAssumption, ExtAssumption DEF TypeInv, Nodes
<1>k. /\ \A n \in Nodes : Counted(n)
      /\ \A s \in cut : /\ s[1] \in Doomed /\ To(s) \notin Globals
                        /\ color[s[1]] = "white" \/ Pending(stack, s) \/ To(s) \in Objs
      /\ \A s \in Slots(kids) : s[1] \in Doomed /\ (color[s[1]] = "white" \/ To(s) \in Objs)
                                    => s \in cut \/ To(s) \in Globals
  BY DEF CutInv, Settled
<1>d. \A n \in Doomed : n \notin Globals
  BY DEF CollectInv
<1>sf. \A s \in Slots(kids) : s[1] \in Nodes /\ To(s) \in Nodes
  BY <1>t, SlotFacts DEF To
<1>v. /\ \/ /\ color' = color /\ stack' = R
            /\ Elems(toFree') = Elems(toFree) /\ rc'[c] = rc[c] + given
         \/ /\ color[c] = "white" /\ stack' = Call(c, "collect", R)
            /\ color'[c] = "black" /\ \A n \in Nodes : n # c => color'[n] = color[n]
            /\ Elems(toFree') = Elems(toFree) \cup ({c} \cap Zvals) /\ c \notin Elems(toFree)
            /\ rc'[c] = rc[c] + given + (IF c \in Zvals THEN 1 ELSE 0)
      /\ \A n \in Nodes : n # c => rc'[n] = rc[n]
      /\ Doomed' = Doomed
  BY WhiteVisit
<1>1. \A n \in Nodes : Counted(n)'
  <2>1. ASSUME NEW n \in Nodes
        PROVE  rc'[n] = ext[n] + (IF n \in Elems(toFree') THEN 1 ELSE 0) + Cardinality(InSlots(kids, n) \ C)
    <3>1. PICK q : q = Cardinality(InSlots(kids, n) \ cut)
      OBVIOUS
    <3>2. q \in Nat
      <4>1. IsFiniteSet(InSlots(kids, n) \ cut)
        BY <1>t, SlotFacts, FS_Subset DEF InSlots
      <4> QED
        BY <3>1, <4>1, FS_CardinalityType
    <3>3. /\ rc[n] = ext[n] + (IF n \in Elems(toFree) THEN 1 ELSE 0) + q
          /\ Cardinality(InSlots(kids, n) \ C) = q + (IF n = c THEN given ELSE 0)
          /\ ext[n] \in Nat /\ rc[n] \in Int
      BY <1>k, <1>t, <3>1 DEF Counted
    <3>4. CASE n # c
      <4>1. n \in Elems(toFree') <=> n \in Elems(toFree)
        BY <1>v, <3>4
      <4> QED
        <5>1. rc'[n] = rc[n] /\ Cardinality(InSlots(kids, n) \ C) = q + 0
          BY <1>v, <3>3, <3>4
        <5> QED
          BY <3>2, <3>3, <4>1, <5>1
    <3>5. CASE n = c
      <4>1. CASE rc'[c] = rc[c] + given /\ Elems(toFree') = Elems(toFree)
        <5>1. PICK b \in {0, 1} : b = IF n \in Elems(toFree) THEN 1 ELSE 0
          OBVIOUS
        <5>2. b = IF n \in Elems(toFree') THEN 1 ELSE 0
          BY <4>1, <5>1
        <5>3. rc[n] = ext[n] + b + q /\ rc'[n] = rc[n] + given
          BY <3>3, <3>5, <4>1, <5>1
        <5>4. rc'[n] = ext[n] + b + (q + given)
          BY <3>2, <3>3, <5>3
        <5> QED
          BY <3>3, <3>5, <5>2, <5>4
      <4>2. CASE /\ Elems(toFree') = Elems(toFree) \cup ({c} \cap Zvals) /\ c \notin Elems(toFree)
                 /\ rc'[c] = rc[c] + given + (IF c \in Zvals THEN 1 ELSE 0)
        <5>1. (c \in Elems(toFree') <=> c \in Zvals) /\ ~ (n \in Elems(toFree))
          BY <3>5, <4>2
        <5>2. PICK b \in {0, 1} : b = IF c \in Zvals THEN 1 ELSE 0
          OBVIOUS
        <5>3. b = IF n \in Elems(toFree') THEN 1 ELSE 0
          BY <3>5, <5>1, <5>2
        <5>4. rc[n] = ext[n] + q /\ rc'[n] = rc[n] + given + b
          BY <3>2, <3>3, <3>5, <4>2, <5>1, <5>2
        <5>5. rc'[n] = ext[n] + b + (q + given)
          BY <3>2, <3>3, <5>4
        <5> QED
          BY <3>3, <3>5, <5>3, <5>5
      <4> QED
        BY <1>v, <4>1, <4>2
    <3> QED
      BY <3>4, <3>5
  <2> QED
    BY <2>1 DEF Counted, InSlots, Slots
<1>2. \A n \in Nodes : color'[n] = "white" => color[n] = "white"
  BY <1>v
<1>p. \A s \in C : Pending(R, s) => Pending(stack', s)
  BY <1>t, <1>v, PendingCall
<1>w. \A s \in C : color[s[1]] = "white" => color'[s[1]] = "white" \/ Pending(stack', s)
  <2>1. ASSUME NEW s \in C, color[s[1]] = "white", color'[s[1]] # "white"
        PROVE  Pending(stack', s)
    <3>1. s \in Slots(kids) /\ s[1] \in Nodes /\ s[1] \in Doomed /\ s[1] \notin Globals
      BY <1>t, <1>sf, <1>k, <1>d
    <3>2. s[1] = c /\ stack' = Call(c, "collect", R)
      BY <2>1, <3>1, <1>v
    <3> QED
      BY <3>1, <3>2, <1>t, PendingCall
  <2> QED
    BY <2>1
<1>3. \A s \in C : /\ s[1] \in Doomed /\ To(s) \notin Globals
                   /\ color'[s[1]] = "white" \/ Pending(stack', s) \/ To(s) \in Objs
  BY <1>k, <1>p, <1>w
<1>4. \A s \in Slots(kids) : s[1] \in Doomed /\ (color'[s[1]] = "white" \/ To(s) \in Objs)
                                 => s \in C \/ To(s) \in Globals
  BY <1>k, <1>2, <1>sf
<1>5. Gathering(stack, cut)'
  <2>1. \A n \in Nodes : color[n] = "black" => color'[n] = "black"
    BY <1>v
  <2>g. \A k \in DOMAIN R :
            /\ R[k].node \in Doomed /\ color[R[k].node] = "black" /\ R[k].node \in Nodes
            /\ \A s \in Slots(kids) : s[1] = R[k].node /\ R[k].next <= s[2] => s \in C \/ To(s) \in Globals
            /\ \A j \in DOMAIN R : R[j].node = R[k].node => j = k
    <3>1. ASSUME NEW k \in DOMAIN R PROVE R[k].node \in Nodes
      <4>1. R[k] \in Frames
        OBVIOUS
      <4> QED
        BY <4>1 DEF Frames
    <3> QED
      BY <3>1 DEF Gathering
  <2>2. CASE stack' = R
    BY <2>1, <2>2, <2>g, <1>v DEF Gathering, To
  <2>3. CASE color[c] = "white" /\ stack' = Call(c, "collect", R) /\ color'[c] = "black"
    <3>1. PICK t : t = Call(c, "collect", R)
      OBVIOUS
    <3>2. /\ DOMAIN t = 1..(Len(R) + 1) /\ DOMAIN R = 1..Len(R) /\ Len(R) \in Nat
          /\ t[1].node = c /\ t[1].next = 1
          /\ \A k \in 2..(Len(R) + 1) : t[k] = R[k - 1]
      <4>1. "collect" \in {"mark", "scan", "black", "collect"}
        OBVIOUS
      <4>2. t \in Seq(Frames) /\ Len(t) = Len(R) + 1 /\ t[1] = [node |-> c, next |-> 1, mode |-> "collect"]
            /\ \A k \in 2..(Len(R) + 1) : t[k] = R[k - 1]
        BY <3>1, <4>1, CallFacts
      <4>3. t[1].node = c /\ t[1].next = 1
        BY <4>2
      <4> QED
        BY <4>2, <4>3
    <3>3. \A k \in DOMAIN t : k = 1 \/ (k \in 2..(Len(R) + 1) /\ k - 1 \in DOMAIN R)
      BY <3>2
    <3>4. c \in Doomed /\ \A k \in DOMAIN R : R[k].node # c
      BY <2>3, <2>g DEF Doomed, White
    <3>5. \A s \in Slots(kids) : s[1] = c => s \in C \/ To(s) \in Globals
      BY <1>k, <2>3, <3>4
    <3>6. ASSUME NEW k \in DOMAIN t
          PROVE  /\ t[k].node \in Doomed /\ color'[t[k].node] = "black"
                 /\ \A s \in Slots(kids) : s[1] = t[k].node /\ t[k].next <= s[2] => s \in C \/ To(s) \in Globals
                 /\ \A j \in DOMAIN t : t[j].node = t[k].node => j = k
      <4>1. CASE k = 1
        <5>1. \A j \in DOMAIN t : j # 1 => t[j].node # c
          BY <3>2, <3>3, <3>4
        <5> QED
          BY <4>1, <5>1, <3>2, <3>4, <3>5, <2>3
      <4>2. CASE k # 1
        <5>1. k - 1 \in DOMAIN R /\ t[k] = R[k - 1]
          BY <4>2, <3>2, <3>3
        <5>2. ASSUME NEW j \in DOMAIN t, t[j].node = t[k].node
              PROVE  j = k
          <6>1. j # 1
            BY <5>1, <5>2, <3>2, <3>4
          <6>2. j - 1 \in DOMAIN R /\ t[j] = R[j - 1]
            BY <6>1, <3>2, <3>3
          <6>3. j - 1 = k - 1
            BY <5>1, <5>2, <6>2, <2>g
          <6> QED
            BY <6>3, <3>2
        <5> QED
          BY <5>1, <5>2, <2>1, <2>g
      <4> QED
        BY <4>1, <4>2
    <3> QED
      BY <2>3, <3>1, <3>6, <1>v DEF Gathering, To
  <2> QED
    BY <1>v, <2>2, <2>3
<1> QED
  BY <1>1, <1>3, <1>4, <1>5, <1>v DEF CutInv, To, Settled

\* The collect pass starts with only white nodes condemned.
LEMMA DoomedStart ==
    ASSUME IInv, NextPhase, phase = "scan"
    PROVE  /\ \A n \in Nodes : color[n] # "grey"
           /\ Doomed = White /\ Doomed' = White'
<1>i. TypeInv /\ FrameInv /\ ScanInv
  BY DEF IInv
<1>a. color' = color /\ rc' = rc /\ toFree' = toFree
  BY DEF NextPhase
<1>g. \A n \in Nodes : color[n] # "grey"
  BY <1>a, CollectStart DEF CollectInv, Grey, NextPhase
<1>t. color \in [Nodes -> Colors] /\ Elems(toFree) = {}
  BY <1>i DEF TypeInv, FrameInv, Elems
<1>1. \A n \in Nodes : color[n] \in {"black", "purple"} => rc[n] > 0
  BY <1>i DEF ScanInv
<1>2. \A o \in Objs : rc[o] = 0 => color[o] = "white"
  BY <1>g, <1>1, <1>t DEF Nodes, Colors
<1>3. Doomed = White
  BY <1>2, <1>t DEF Doomed, Condemned, White, Nodes
<1>4. Doomed' = Doomed /\ White' = White
  BY <1>a DEF Doomed, Condemned, White, Elems
<1> QED
  BY <1>g, <1>3, <1>4

\* The collect pass starts where the scan pass left the slots of white nodes cut.
LEMMA CutStart == IInv /\ NextPhase /\ phase = "scan" => CutInv'
<1> SUFFICES ASSUME IInv, NextPhase, phase = "scan" PROVE CutInv'
  OBVIOUS
<1>i. TypeInv /\ FrameInv /\ RefInv /\ ScanInv
  BY DEF IInv
<1>a. /\ stack = <<>> /\ UNCHANGED <<kids, ext, cut, rc, color, stack, toFree>>
  BY DEF NextPhase, heapVars
<1>t. /\ color \in [Nodes -> Colors] /\ cut \subseteq Slots(kids) /\ kids \in Heaps /\ toFree = <<>>
      /\ ext \in [Nodes -> Nat]
  BY <1>i, ExtAssumption DEF TypeInv, FrameInv
<1>sf. \A s \in Slots(kids) : s[1] \in Nodes /\ To(s) \in Nodes
  BY <1>t, SlotFacts DEF To
<1>e. Elems(toFree) = {}
  BY <1>t DEF Elems
<1>p. \A s : ~ PendingBlack(stack, s)
  BY <1>a DEF PendingBlack
<1>g. \A n \in Nodes : color[n] # "grey"
  BY DoomedStart
<1>1. Doomed = White
  BY DoomedStart
<1>2. \A n \in Nodes : Counted(n)
  <2>1. ASSUME NEW n \in Nodes PROVE Counted(n)
    <3>1. PICK q : q = Cardinality(InSlots(kids, n) \ cut)
      OBVIOUS
    <3>2. rc[n] = ext[n] + q /\ ext[n] \in Nat
      BY <1>i, <1>t, <3>1 DEF RefInv
    <3>3. q \in Nat
      <4>1. IsFiniteSet(InSlots(kids, n) \ cut)
        BY <1>t, SlotFacts, FS_Subset DEF InSlots
      <4> QED
        BY <3>1, <4>1, FS_CardinalityType
    <3>4. rc[n] = ext[n] + 0 + q
      BY <3>2, <3>3
    <3> QED
      BY <1>e, <3>1, <3>4 DEF Counted
  <2> QED
    BY <2>1
<1>3. \A s \in cut : s[1] \in Doomed /\ color[s[1]] = "white" /\ To(s) \notin Globals
  BY <1>i, <1>p, <1>g, <1>1, <1>t, <1>sf DEF ScanInv, White
<1>4. \A s \in Slots(kids) : s[1] \in Doomed => s \in cut \/ To(s) \in Globals
  BY <1>i, <1>1 DEF ScanInv, White
<1>5. Gathering(stack, cut)
  BY <1>a DEF Gathering
<1>6. /\ Doomed' = Doomed
      /\ \A n \in Nodes : Counted(n)'
      /\ Gathering(stack, cut)'
  BY <1>a, <1>2, <1>5 DEF Doomed, Condemned, White, Elems, Counted, Gathering, To, InSlots, Slots
<1> QED
  BY <1>a, <1>3, <1>4, <1>6 DEF CutInv, To

\* Taking one element: a reference to a zval is counted again, one to a store
\* object stays cut.
LEMMA CutElement == IInv /\ CutInv /\ CollectElement => CutInv'
<1> SUFFICES ASSUME IInv, CutInv, CollectElement PROVE CutInv'
  OBVIOUS
<1>i. TypeInv /\ FrameInv /\ CollectInv
  BY DEF IInv
<1>r. PICK c : c = Child
  OBVIOUS
<1>q. PICK w : w = RestoredWeight(Child)
  OBVIOUS
<1>a. /\ AtElement("collect") /\ VisitWhite(c, w, addr, Advance)
      /\ UNCHANGED <<kids, ext, phase>>
      /\ cut' = IF w = 1 THEN cut \ {Slot} ELSE cut
  BY <1>r, <1>q DEF CollectElement, heapVars
<1>e. /\ stack # <<>> /\ stack[1] \in Frames /\ stack[1].mode = "collect" /\ Slot \in Slots(kids)
      /\ c \in Nodes /\ c = To(Slot) /\ Slot[1] = stack[1].node /\ Slot[2] = stack[1].next
  BY <1>i, <1>a, <1>r, ChildFacts
<1>w. /\ w \in {0, 1} /\ (c \in Objs => w = 0)
      /\ w = 1 => c \notin Globals
      /\ w = 0 => c \in Objs \/ c \in Globals
  BY <1>r, <1>q DEF RestoredWeight, Weight
<1>st. /\ stack \in Seq(Frames) /\ Advance \in Seq(Frames) /\ kids \in Heaps
       /\ DOMAIN stack = 1..Len(stack) /\ DOMAIN Advance = 1..Len(stack) /\ 1 \in DOMAIN stack
       /\ Advance[1].next = stack[1].next + 1 /\ Advance[1].node = stack[1].node
       /\ \A k \in DOMAIN stack : k # 1 => Advance[k] = stack[k]
       /\ cut \subseteq Slots(kids)
  <2>1. stack \in Seq(Frames) /\ kids \in Heaps /\ cut \subseteq Slots(kids)
    BY <1>i DEF TypeInv
  <2>2. Advance \in Seq(Frames) /\ Len(Advance) = Len(stack)
        /\ \A k \in 2..Len(stack) : Advance[k] = stack[k]
    BY <2>1, <1>e, AdvanceFacts
  <2>3. Advance[1].next = stack[1].next + 1 /\ Advance[1].node = stack[1].node
    BY <2>1, <1>e, AdvanceFacts
  <2>4. DOMAIN stack = 1..Len(stack) /\ DOMAIN Advance = 1..Len(stack) /\ 1 \in DOMAIN stack
    BY <2>1, <2>2, <1>e
  <2>5. \A k \in DOMAIN stack : k # 1 => k \in 2..Len(stack)
    BY <2>4
  <2> QED
    BY <2>1, <2>2, <2>3, <2>4, <2>5
<1>ph. phase = "collect"
  <2>1. phase \notin {"mark", "scan", "done"}
    BY <1>i, <1>e, <1>st DEF FrameInv
  <2> QED
    BY <1>i, <2>1 DEF TypeInv
<1>k. /\ Gathering(stack, cut)
      /\ \A s \in cut : To(s) \notin Globals
  BY <1>ph DEF CutInv, Settled
<1>s. (Slot \in cut \/ c \in Globals) /\ color[Slot[1]] = "black"
  <2>1. stack[1].next \in Nat
    BY <1>e DEF Frames
  <2> QED
    BY <1>k, <1>e, <1>st, <2>1 DEF Gathering
<1>x. PICK C : C = cut'
  OBVIOUS
<1>c. /\ C \in SUBSET cut
      /\ \/ w = 1 /\ C = cut \ {Slot} /\ Slot \in cut
         \/ w = 0 /\ C = cut
  BY <1>x, <1>a, <1>w, <1>s
<1>1. \A n \in Nodes : Cardinality(InSlots(kids, n) \ C)
                           = Cardinality(InSlots(kids, n) \ cut) + (IF n = c THEN w ELSE 0)
  <2>1. ASSUME NEW n \in Nodes
        PROVE  Cardinality(InSlots(kids, n) \ C)
                   = Cardinality(InSlots(kids, n) \ cut) + (IF n = c THEN w ELSE 0)
    <3>1. PICK q : q = Cardinality(InSlots(kids, n) \ cut)
      OBVIOUS
    <3>2. q \in Nat
      BY <1>e, <1>st, <3>1, CutCounts
    <3>3. CASE w = 0
      <4>1. C = cut
        BY <1>c, <3>3
      <4>2. (IF n = c THEN w ELSE 0) = 0
        BY <3>3
      <4> QED
        BY <3>1, <3>2, <4>1, <4>2
    <3>4. CASE w = 1 /\ n = c
      BY <1>c, <1>e, <1>st, <3>1, <3>4, CutCounts
    <3>5. CASE w = 1 /\ n # c
      <4>1. Cardinality(InSlots(kids, n) \ C) = q
        BY <1>c, <1>e, <1>st, <3>1, <3>5, CutCounts
      <4> QED
        BY <3>1, <3>2, <3>5, <4>1
    <3> QED
      BY <1>c, <3>3, <3>4, <3>5
  <2> QED
    BY <2>1
<1>2. \A s \in cut \ C : color[s[1]] = "black" /\ To(s) \notin Objs
  BY <1>c, <1>s, <1>e, <1>w
<1>3. \A s \in C : Pending(stack, s) => Pending(Advance, s) \/ To(s) \in Objs
  <2>1. ASSUME NEW s \in C, Pending(stack, s), ~ Pending(Advance, s)
        PROVE  To(s) \in Objs
    <3>1. s = Slot
      BY <2>1, <1>c, <1>st, <1>e, PendingAdvance
    <3>2. w = 0 /\ c \notin Globals
      BY <2>1, <3>1, <1>c, <1>k, <1>e
    <3> QED
      BY <3>1, <3>2, <1>w, <1>e
  <2> QED
    BY <2>1
<1>4. Gathering(Advance, C)
  <2>1. ASSUME NEW k \in DOMAIN stack
        PROVE  /\ Advance[k].node = stack[k].node
               /\ \A s \in Slots(kids) : s[1] = stack[k].node /\ Advance[k].next <= s[2]
                                             => s \in C \/ To(s) \in Globals
    <3>1. CASE k = 1
      <4>1. stack[1].next \in Nat
        BY <1>e DEF Frames
      <4>2. \A s \in Slots(kids) : stack[1].next + 1 <= s[2] => stack[1].next <= s[2] /\ s # Slot
        <5>1. ASSUME NEW s \in Slots(kids), stack[1].next + 1 <= s[2]
              PROVE  stack[1].next <= s[2] /\ s # Slot
          <6>1. s[2] \in Nat
            BY <1>st, SlotFacts
          <6> QED
            BY <4>1, <5>1, <6>1, <1>e
        <5> QED
          BY <5>1
      <4> QED
        BY <3>1, <4>2, <1>st, <1>c, <1>k DEF Gathering
    <3>2. CASE k # 1
      <4>1. stack[k].node # Slot[1]
        BY <3>2, <1>st, <1>e, <1>k DEF Gathering
      <4>2. Advance[k] = stack[k]
        BY <3>2, <1>st
      <4> QED
        BY <4>1, <4>2, <1>c, <1>k DEF Gathering
    <3> QED
      BY <3>1, <3>2
  <2> QED
    BY <2>1, <1>k, <1>st DEF Gathering
<1>5. cut' = C /\ kids' = kids /\ ext' = ext /\ phase' = phase /\ c \in Nodes /\ Advance \in Seq(Frames)
      /\ VisitWhite(c, w, addr, Advance) /\ w \in {0, 1} /\ (c \in Objs => w = 0) /\ C \in SUBSET cut
  BY <1>x, <1>a, <1>e, <1>st, <1>w, <1>c
<1> QED
  BY <1>i, <1>ph, <1>1, <1>2, <1>3, <1>4, <1>5, CutVisit

LEMMA CutRoot == IInv /\ CutInv /\ CollectRoot => CutInv'
<1> SUFFICES ASSUME IInv, CutInv, CollectRoot PROVE CutInv'
  OBVIOUS
<1>i. TypeInv /\ FrameInv /\ CollectInv
  BY DEF IInv
<1>r. PICK c : c = Head(ahead)
  OBVIOUS
<1>a. /\ phase = "collect" /\ stack = <<>> /\ VisitWhite(c, 0, addr', <<>>)
      /\ kids' = kids /\ ext' = ext /\ cut' = cut /\ phase' = phase /\ ahead # <<>>
  BY <1>r DEF CollectRoot, heapVars
<1>e. c \in Nodes /\ <<>> \in Seq(Frames) /\ 0 \in {0, 1} /\ cut \in SUBSET cut
  BY <1>r, <1>i, <1>a, ElemsFacts
<1>1. \A n \in Nodes : Cardinality(InSlots(kids, n) \ cut)
                           = Cardinality(InSlots(kids, n) \ cut) + (IF n = c THEN 0 ELSE 0)
  <2>1. ASSUME NEW n \in Nodes
        PROVE  Cardinality(InSlots(kids, n) \ cut)
                   = Cardinality(InSlots(kids, n) \ cut) + (IF n = c THEN 0 ELSE 0)
    <3>1. IsFiniteSet(InSlots(kids, n) \ cut)
      BY <1>i, SlotFacts, FS_Subset DEF InSlots, TypeInv
    <3>2. Cardinality(InSlots(kids, n) \ cut) \in Nat
      BY <3>1, FS_CardinalityType
    <3> QED
      BY <3>2
  <2> QED
    BY <2>1
<1>2. Gathering(<<>>, cut)
  BY DEF Gathering
<1>3. \A s \in cut : Pending(stack, s) => Pending(<<>>, s) \/ To(s) \in Objs
  BY <1>a
<1>4. \A s \in cut \ cut : color[s[1]] = "black" /\ To(s) \notin Objs
  OBVIOUS
<1> QED
  BY <1>i, <1>a, <1>e, <1>1, <1>2, <1>3, <1>4, CutVisit

\* Leaving a frame drops no pending slot.
LEMMA CutReturn == IInv /\ CutInv /\ Return => CutInv'
<1> SUFFICES ASSUME IInv, CutInv, Return, Settled PROVE CutInv'
  BY DEF CutInv, Settled, Return
<1>i. TypeInv /\ CollectInv
  BY DEF IInv
<1>a. /\ stack # <<>> /\ stack' = Tail(stack) /\ stack[1].next > Last(stack[1])
      /\ UNCHANGED <<kids, ext, cut, rc, color, phase, toFree>>
  BY DEF Return, heapVars
<1>st. /\ stack \in Seq(Frames) /\ kids \in Heaps /\ cut \subseteq Slots(kids)
  BY <1>i DEF TypeInv
<1>1. \A s \in cut : Pending(stack, s) => Pending(stack', s)
  BY <1>i, <1>a, <1>st, PendingReturn
<1>k. /\ \A n \in Nodes : Counted(n)
      /\ \A s \in cut : /\ s[1] \in Doomed /\ To(s) \notin Globals
                        /\ color[s[1]] = "white" \/ Pending(stack, s) \/ To(s) \in Objs
      /\ \A s \in Slots(kids) : s[1] \in Doomed /\ (color[s[1]] = "white" \/ To(s) \in Objs)
                                    => s \in cut \/ To(s) \in Globals
      /\ Gathering(stack, cut)
  BY DEF CutInv
<1>2. Gathering(stack', cut)
  <2>1. PICK t : t = Tail(stack)
    OBVIOUS
  <2>2. \A k \in DOMAIN t : k + 1 \in DOMAIN stack /\ t[k] = stack[k + 1] /\ k \in Nat
    BY <1>a, <1>st, <2>1, RestFacts
  <2>3. \A k \in DOMAIN t : \A j \in DOMAIN t : t[j].node = t[k].node => j = k
    <3>1. ASSUME NEW k \in DOMAIN t, NEW j \in DOMAIN t, t[j].node = t[k].node
          PROVE  j = k
      <4>1. j + 1 = k + 1
        BY <2>2, <3>1, <1>k DEF Gathering
      <4> QED
        BY <2>2, <4>1
    <3> QED
      BY <3>1
  <2>4. \A k \in DOMAIN t :
            /\ t[k].node \in Doomed /\ color[t[k].node] = "black"
            /\ \A s \in Slots(kids) : s[1] = t[k].node /\ t[k].next <= s[2] => s \in cut \/ To(s) \in Globals
    BY <2>2, <1>k DEF Gathering
  <2> QED
    BY <1>a, <2>1, <2>3, <2>4 DEF Gathering
<1>3. Doomed' = Doomed /\ \A n \in Nodes : Counted(n)'
  BY <1>a, <1>k DEF Doomed, Condemned, White, Elems, Counted, InSlots, Slots
<1>4. Gathering(stack, cut)'
  BY <1>a, <1>2, <1>3 DEF Gathering, To
<1> QED
  BY <1>a, <1>1, <1>k, <1>3, <1>4 DEF CutInv, Settled, To

\* Every step preserves what is known about the cut slots.
LEMMA CutStep == IInv /\ CutInv /\ [Next]_vars => CutInv'
<1> SUFFICES ASSUME IInv, CutInv, [Next]_vars PROVE CutInv'
  OBVIOUS
<1>i. TypeInv /\ FrameInv
  BY DEF IInv
<1>n. ASSUME phase \in {"mark", "scan"}, phase' = phase PROVE CutInv'
  BY <1>n DEF CutInv, Settled
<1>u. ASSUME UNCHANGED <<kids, ext, cut, rc, color, stack, toFree>>, Settled PROVE CutInv'
  <2>1. /\ Doomed' = Doomed
        /\ \A n \in Nodes : Counted(n) => Counted(n)'
    BY <1>u DEF Doomed, Condemned, White, Elems, Counted, InSlots, Slots
  <2>2. Gathering(stack, cut) => Gathering(stack, cut)'
    BY <1>u, <2>1 DEF Gathering, To
  <2> QED
    BY <1>u, <2>1, <2>2 DEF CutInv, To
<1>1. CASE MarkRoot \/ DropRoot \/ ScanRoot
  BY <1>1, <1>n DEF MarkRoot, DropRoot, ScanRoot
<1>2. CASE MarkElement \/ ScanElement \/ BlackElement
  <2>1. stack # <<>> /\ stack[1].mode # "collect" /\ 1 \in DOMAIN stack
    BY <1>2, <1>i DEF MarkElement, ScanElement, BlackElement, AtElement, TypeInv
  <2>2. phase \in {"mark", "scan"}
    BY <1>i, <2>1 DEF FrameInv, TypeInv
  <2> QED
    BY <1>2, <2>2, <1>n DEF MarkElement, ScanElement, BlackElement
<1>3. CASE CollectRoot
  BY <1>3, CutRoot
<1>4. CASE CollectElement
  BY <1>4, CutElement
<1>9. CASE Return
  BY <1>9, CutReturn
<1>10. CASE NextPhase
  <2>1. CASE phase = "scan"
    BY <1>10, <2>1, CutStart
  <2>2. CASE phase = "mark"
    BY <1>10, <2>2 DEF NextPhase, CutInv, Settled
  <2>3. CASE phase = "collect"
    BY <1>10, <2>3, <1>u DEF NextPhase, heapVars, Settled
  <2> QED
    BY <2>1, <2>2, <2>3, <1>10, <1>i DEF NextPhase, TypeInv
<1>11. CASE Finished \/ UNCHANGED vars
  <2>1. UNCHANGED vars
    BY <1>11 DEF Finished
  <2>2. CASE phase \in {"mark", "scan"}
    BY <2>1, <2>2, <1>n DEF vars
  <2>3. CASE phase \in {"collect", "done"}
    BY <2>1, <2>3, <1>u DEF vars, Settled
  <2> QED
    BY <2>2, <2>3, <1>i DEF TypeInv
<1> QED
  BY <1>1, <1>2, <1>3, <1>4, <1>9, <1>10, <1>11 DEF Next

\* Throughout the collect pass every refcount is exact for the slots not cut.
THEOREM CutInvariance == Spec => [](IInv /\ CutInv)
<1>1. Init => IInv /\ CutInv
  BY InitInv DEF Init, CutInv, Settled
<1>2. (IInv /\ CutInv) /\ [Next]_vars => (IInv /\ CutInv)'
  BY Inductive, CutStep
<1> QED
  BY <1>1, <1>2, PTL DEF Spec

\* A collection leaves each refcount as the destruction that follows needs it:
\* every reference counted but those of condemned nodes to store objects.
THEOREM CountsHold == Spec => []CountsRestored
<1>1. IInv /\ CutInv => CountsRestored
  <2> SUFFICES ASSUME IInv, CutInv, phase = "done", NEW n \in Nodes
               PROVE  rc[n] = ext[n] + (IF n \in Elems(toFree) THEN 1 ELSE 0)
                          + Cardinality({s \in InSlots(kids, n) : n \in Objs => s[1] \notin Condemned})
    BY DEF CountsRestored
  <2>i. TypeInv /\ FrameInv /\ CollectInv
    BY DEF IInv
  <2>1. stack = <<>> /\ ahead = <<>>
    BY <2>i DEF FrameInv
  <2>p. \A s \in Slots(kids) : ~ Pending(stack, s)
    BY <2>1 DEF Pending
  <2>2. White = {}
    <3>1. Elems(<<>>) = {}
      BY DEF Elems
    <3> QED
      BY <2>i, <2>1, <2>p, <3>1 DEF CollectInv
  <2>3. Doomed = Condemned
    BY <2>2 DEF Doomed
  <2>4. \A s \in Slots(kids) : s[1] \in Nodes /\ color[s[1]] # "white"
    BY <2>2, <2>i, SlotFacts DEF White, TypeInv
  <2>k. /\ Counted(n)
        /\ \A s \in cut : /\ s[1] \in Doomed /\ To(s) \notin Globals
                          /\ color[s[1]] = "white" \/ Pending(stack, s) \/ To(s) \in Objs
        /\ \A s \in Slots(kids) : s[1] \in Doomed /\ (color[s[1]] = "white" \/ To(s) \in Objs)
                                      => s \in cut \/ To(s) \in Globals
    BY DEF CutInv, Settled
  <2>5. ASSUME NEW s \in InSlots(kids, n)
        PROVE  s \in cut <=> n \in Objs /\ s[1] \in Condemned
    <3>1. s \in Slots(kids) /\ To(s) = n
      BY DEF InSlots, To
    <3>2. n \in Objs => n \notin Globals
      BY NodesAssumption
    <3> QED
      BY <3>1, <3>2, <2>k, <2>p, <2>3, <2>4
  <2>6. {s \in InSlots(kids, n) : n \in Objs => s[1] \notin Condemned} = InSlots(kids, n) \ cut
    BY <2>5
  <2> QED
    BY <2>6, <2>k DEF Counted
<1> QED
  BY <1>1, CutInvariance, PTL
-----------------------------------------------------------------------------
(* The three passes implement the one-step collection. *)

\* The part of the heap a collection looks at.
Suspect == Cycle!Suspected(kids, suspects)

\* The passes stay inside that part, and the mark pass skips no suspect.
SuspectInv ==
    /\ Elems(behind) \cup Elems(ahead) \subseteq suspects
    /\ phase = "mark" => \A n \in suspects : color[n] \in {"purple", "grey"} \/ n \in Globals
    /\ Grey \cup White \subseteq Suspect
    /\ Settled => Doomed \subseteq Suspect

\* Sets of suspected nodes that only the set itself refers to: what a complete
\* collection must not leave behind.
Trapped(S) == /\ S \subseteq Suspect \ Globals
              /\ \A n \in S : ext[n] = 0
              /\ \A s \in Slots(kids) : To(s) \in S => s[1] \in S

\* A trapped set turns grey as a whole, never black, and is condemned as a whole.
TrapInv == \A S \in SUBSET Nodes : Trapped(S) =>
    /\ phase = "scan" => S \subseteq Grey \cup White
    /\ Settled => S \subseteq Doomed

\* The suspected part contains the suspects and what its nodes refer to, and
\* is contained in every closed set around the suspects.
LEMMA SuspectFacts ==
    ASSUME TypeInv
    PROVE  /\ suspects \subseteq Suspect
           /\ Suspect \subseteq Nodes
           /\ \A s \in Slots(kids) : s[1] \in Suspect \ Globals => To(s) \in Suspect
           /\ \A T \in SUBSET Nodes :
                 suspects \subseteq T
                 /\ (\A s \in Slots(kids) : s[1] \in T \ Globals => To(s) \in T)
                     => Suspect \subseteq T
<1>t. kids \in Heaps /\ suspects \subseteq Nodes
  BY DEF TypeInv
<1>n. Cycle!Nodes = Nodes
  BY DEF Cycle!Nodes, Nodes
<1>sf. /\ \A s \in Slots(kids) : s[1] \in Nodes /\ s[2] \in DOMAIN kids[s[1]] /\ To(s) \in Nodes
       /\ \A m \in Nodes : \A i \in DOMAIN kids[m] : <<m, i>> \in Slots(kids)
  BY <1>t, SlotFacts DEF To
<1>1. Suspect = {m \in Nodes : \A T \in SUBSET Nodes : suspects \subseteq T /\ Cycle!Closed(kids, T) => m \in T}
  BY <1>n DEF Suspect, Cycle!Suspected, Cycle!Reach
<1>2. \A T \in SUBSET Nodes :
         Cycle!Closed(kids, T) <=> \A s \in Slots(kids) : s[1] \in T \ Globals => To(s) \in T
  <2>1. ASSUME NEW T \in SUBSET Nodes, Cycle!Closed(kids, T), NEW s \in Slots(kids), s[1] \in T \ Globals
        PROVE  To(s) \in T
    BY <2>1, <1>sf DEF Cycle!Closed, Cycle!Refs, To
  <2>2. ASSUME NEW T \in SUBSET Nodes, \A s \in Slots(kids) : s[1] \in T \ Globals => To(s) \in T
        PROVE  Cycle!Closed(kids, T)
    <3>1. ASSUME NEW m \in T \ Globals, NEW i \in DOMAIN kids[m] PROVE kids[m][i] \in T
      <4>1. PICK s : s = <<m, i>>
        OBVIOUS
      <4>2. s \in Slots(kids) /\ s[1] = m /\ s[2] = i
        BY <4>1, <1>sf
      <4> QED
        BY <4>2, <2>2 DEF To
    <3> QED
      BY <3>1 DEF Cycle!Closed, Cycle!Refs
  <2> QED
    BY <2>1, <2>2
<1>3. suspects \subseteq Suspect /\ Suspect \subseteq Nodes
  BY <1>1, <1>t
<1>4. ASSUME NEW s \in Slots(kids), s[1] \in Suspect \ Globals PROVE To(s) \in Suspect
  BY <1>1, <1>2, <1>4, <1>sf
<1> QED
  BY <1>1, <1>2, <1>3, <1>4

\* A collection changes neither the heap nor what it suspects of it.
LEMMA HeapStep ==
    ASSUME [Next]_vars
    PROVE  kids' = kids /\ ext' = ext /\ suspects' = suspects
BY DEF Next, MarkRoot, DropRoot, MarkElement, ScanRoot, ScanElement, BlackElement,
       CollectRoot, CollectElement, Return, NextPhase, Finished, heapVars, vars

LEMMA SuspectSame ==
    ASSUME kids' = kids, ext' = ext, suspects' = suspects
    PROVE  /\ Suspect' = Suspect
           /\ \A S \in SUBSET Nodes : Trapped(S)' <=> Trapped(S)
<1>1. Suspect' = Suspect
  BY DEF Suspect, Cycle!Suspected, Cycle!Reach, Cycle!Closed, Cycle!Refs
<1>2. ASSUME NEW S \in SUBSET Nodes PROVE Trapped(S)' <=> Trapped(S)
  BY <1>1 DEF Trapped, Slots, To
<1> QED
  BY <1>1, <1>2

\* No node enters the buffer during a collection.
LEMMA RootsStep ==
    ASSUME TypeInv, [Next]_vars
    PROVE  Elems(behind') \cup Elems(ahead') \subseteq Elems(behind) \cup Elems(ahead)
<1>1. CASE UNCHANGED <<behind, ahead>>
  BY <1>1
<1>2. CASE MarkRoot \/ ScanRoot
  <2>1. ahead # <<>> /\ behind' = Append(behind, Head(ahead)) /\ ahead' = Tail(ahead)
    BY <1>2 DEF MarkRoot, ScanRoot
  <2> QED
    BY <2>1, ElemsFacts
<1>3. CASE DropRoot \/ CollectRoot
  <2>1. ahead # <<>> /\ behind' = behind /\ ahead' = Tail(ahead)
    BY <1>3 DEF DropRoot, CollectRoot
  <2> QED
    BY <2>1, ElemsFacts
<1>4. CASE NextPhase
  <2>1. ahead' = behind /\ behind' = <<>>
    BY <1>4 DEF NextPhase
  <2> QED
    BY <2>1, ElemsFacts
<1> QED
  BY <1>1, <1>2, <1>3, <1>4 DEF Next, MarkElement, ScanElement, BlackElement,
       CollectElement, Return, Finished, vars

\* The frame on top tells the pass.
LEMMA PhaseFacts ==
    ASSUME TypeInv, FrameInv
    PROVE  /\ MarkElement => phase = "mark"
           /\ ScanElement \/ BlackElement => phase = "scan"
           /\ CollectElement => phase = "collect"
<1>1. ASSUME stack # <<>> PROVE stack \in Seq(Frames) /\ 1 \in DOMAIN stack
  BY <1>1 DEF TypeInv
<1>2. phase \in {"mark", "scan", "collect", "done"}
  BY DEF TypeInv
<1>3. ASSUME MarkElement PROVE phase = "mark"
  <2>1. stack # <<>> /\ stack[1].mode = "mark"
    BY <1>3 DEF MarkElement, AtElement
  <2> QED
    BY <1>1, <1>2, <2>1 DEF FrameInv
<1>4. ASSUME ScanElement \/ BlackElement PROVE phase = "scan"
  <2>1. stack # <<>> /\ stack[1].mode \in {"scan", "black"}
    BY <1>4 DEF ScanElement, BlackElement, AtElement
  <2> QED
    BY <1>1, <1>2, <2>1 DEF FrameInv
<1>5. ASSUME CollectElement PROVE phase = "collect"
  <2>1. stack # <<>> /\ stack[1].mode = "collect"
    BY <1>5 DEF CollectElement, AtElement
  <2> QED
    BY <1>1, <1>2, <2>1 DEF FrameInv
<1> QED
  BY <1>3, <1>4, <1>5

\* The mark pass greys suspected nodes only.
LEMMA MarkPaint ==
    ASSUME IInv, SuspectInv, [Next]_vars, phase = "mark", NEW n \in Nodes
    PROVE  \/ color'[n] = color[n]
           \/ color'[n] = "grey" /\ n \in Suspect
           \/ color'[n] = "black" /\ n \in Globals
<1>i. TypeInv /\ FrameInv /\ MarkInv
  BY DEF IInv
<1>s. /\ suspects \subseteq Suspect
      /\ \A s \in Slots(kids) : s[1] \in Suspect \ Globals => To(s) \in Suspect
  BY <1>i, SuspectFacts
<1>1. CASE MarkRoot
  <2>1. PICK c : c = Head(ahead)
    OBVIOUS
  <2>2. c \in Nodes /\ c \in Elems(ahead) /\ VisitGrey(c, <<>>) /\ <<>> \in Seq(Frames)
    BY <1>1, <1>i, <2>1, ElemsFacts DEF MarkRoot
  <2>3. c \in Suspect
    BY <2>2, <1>s DEF SuspectInv
  <2> QED
    BY <1>i, <2>2, <2>3, GreyVisit
<1>2. CASE MarkElement
  <2>1. PICK c : c = Child
    OBVIOUS
  <2>2. /\ stack # <<>> /\ stack \in Seq(Frames) /\ stack[1] \in Frames /\ 1 \in DOMAIN stack
        /\ Slot \in Slots(kids) /\ Slot[1] = stack[1].node /\ c \in Nodes /\ c = To(Slot)
        /\ stack[1].node \notin Globals
    BY <1>2, <1>i, <2>1, ChildFacts DEF MarkElement, TypeInv
  <2>3. VisitGrey(c, Advance) /\ Advance \in Seq(Frames)
    BY <1>2, <2>1, <2>2, AdvanceFacts DEF MarkElement
  <2>4. stack[1].node \in Suspect
    <3>1. color[stack[1].node] = "grey" /\ stack[1].node \in Nodes
      BY <1>i, <2>2 DEF MarkInv, Frames
    <3> QED
      BY <3>1 DEF SuspectInv, Grey
  <2>5. c \in Suspect
    BY <1>s, <2>2, <2>4
  <2> QED
    BY <1>i, <2>2, <2>3, <2>5, GreyVisit
<1>3. CASE UNCHANGED color
  BY <1>3
<1>4. ~ ScanRoot /\ ~ CollectRoot /\ ~ ScanElement /\ ~ BlackElement /\ ~ CollectElement
  BY <1>i, PhaseFacts DEF ScanRoot, CollectRoot
<1> QED
  BY <1>1, <1>2, <1>3, <1>4 DEF Next, DropRoot, Return, NextPhase, Finished, vars

\* The scan pass greys nothing, and whitens only what is grey.
LEMMA ScanPaint ==
    ASSUME IInv, [Next]_vars, phase = "scan", NEW n \in Nodes, color'[n] \in {"grey", "white"}
    PROVE  color[n] \in {"grey", "white"}
<1>i. TypeInv /\ FrameInv
  BY DEF IInv
<1>0. "scan" \in {"mark", "scan", "black", "collect"} /\ "black" \in {"mark", "scan", "black", "collect"}
  OBVIOUS
<1>1. CASE ScanRoot
  <2>1. PICK c : c = Head(ahead)
    OBVIOUS
  <2>2. c \in Nodes /\ VisitScan(c, <<>>) /\ <<>> \in Seq(Frames)
    BY <1>1, <1>i, <2>1, ElemsFacts DEF ScanRoot
  <2> QED
    BY <1>i, <2>2, ScanShapes
<1>2. CASE ScanElement \/ BlackElement
  <2>1. PICK c : c = Child
    OBVIOUS
  <2>2. stack # <<>> /\ stack \in Seq(Frames) /\ c \in Nodes
    BY <1>0, <1>2, <1>i, <2>1, ChildFacts DEF ScanElement, BlackElement, TypeInv
  <2>3. Advance \in Seq(Frames) /\ (VisitScan(c, Advance) \/ VisitBlack(c, Advance))
    BY <1>2, <2>1, <2>2, AdvanceFacts DEF ScanElement, BlackElement
  <2> QED
    BY <1>i, <2>2, <2>3, ScanShapes
<1>3. CASE UNCHANGED color
  BY <1>3
<1>4. ~ MarkRoot /\ ~ CollectRoot /\ ~ MarkElement /\ ~ CollectElement
  BY <1>i, PhaseFacts DEF MarkRoot, CollectRoot
<1> QED
  BY <1>1, <1>2, <1>3, <1>4 DEF Next, DropRoot, Return, NextPhase, Finished, vars

\* The collect pass keeps what is condemned or about to be, and whitens nothing.
LEMMA CollectPaint ==
    ASSUME IInv, [Next]_vars, Settled
    PROVE  /\ Settled' /\ Doomed' = Doomed
           /\ \A n \in Nodes : color'[n] \in {"grey", "white"} => color[n] \in {"grey", "white"}
<1>i. TypeInv /\ FrameInv /\ CollectInv
  BY DEF IInv
<1>0. "collect" \in {"mark", "scan", "black", "collect"}
  OBVIOUS
<1>1. ASSUME phase = "collect", phase' = phase, NEW c \in Nodes, NEW R \in Seq(Frames), NEW w \in {0, 1},
             c \in Objs => w = 0, NEW A, VisitWhite(c, w, A, R)
      PROVE  /\ Settled' /\ Doomed' = Doomed
             /\ \A n \in Nodes : color'[n] \in {"grey", "white"} => color[n] \in {"grey", "white"}
  <2>1. /\ \/ color' = color
           \/ color'[c] = "black" /\ \A n \in Nodes : n # c => color'[n] = color[n]
        /\ Doomed' = Doomed
    BY <1>1, <1>i, WhiteVisit
  <2> QED
    BY <1>1, <2>1 DEF Settled
<1>2. CASE CollectRoot
  <2>1. PICK c : c = Head(ahead)
    OBVIOUS
  <2>2. /\ phase = "collect" /\ phase' = phase /\ c \in Nodes /\ <<>> \in Seq(Frames) /\ 0 \in {0, 1}
        /\ VisitWhite(c, 0, addr', <<>>)
    BY <1>2, <1>i, <2>1, ElemsFacts DEF CollectRoot
  <2> QED
    BY <1>1, <2>2
<1>3. CASE CollectElement
  <2>1. PICK c : c = Child
    OBVIOUS
  <2>2. PICK w : w = RestoredWeight(Child)
    OBVIOUS
  <2>3. stack # <<>> /\ stack \in Seq(Frames) /\ c \in Nodes
    BY <1>0, <1>3, <1>i, <2>1, ChildFacts DEF CollectElement, TypeInv
  <2>4. Advance \in Seq(Frames) /\ VisitWhite(c, w, addr, Advance) /\ phase' = phase
    BY <1>3, <2>1, <2>2, <2>3, AdvanceFacts DEF CollectElement
  <2>5. w \in {0, 1} /\ (c \in Objs => w = 0)
    BY <2>1, <2>2 DEF RestoredWeight, Weight
  <2>6. phase = "collect"
    BY <1>3, <1>i, PhaseFacts
  <2> QED
    BY <1>1, <2>3, <2>4, <2>5, <2>6
<1>4. CASE UNCHANGED <<color, rc, toFree>> /\ Settled'
  <2>1. Doomed' = Doomed
    BY <1>4 DEF Doomed, Condemned, White, Elems
  <2> QED
    BY <1>4, <2>1
<1>5. ~ MarkRoot /\ ~ DropRoot /\ ~ ScanRoot /\ ~ MarkElement /\ ~ ScanElement /\ ~ BlackElement
  BY <1>i, PhaseFacts DEF MarkRoot, DropRoot, ScanRoot, Settled
<1>6. CASE Return \/ Finished \/ UNCHANGED vars
  BY <1>4, <1>6 DEF Return, Finished, vars, Settled
<1>7. CASE NextPhase
  BY <1>4, <1>7 DEF NextPhase, Settled
<1> QED
  BY <1>2, <1>3, <1>5, <1>6, <1>7 DEF Next

LEMMA SuspectStep == IInv /\ SuspectInv /\ [Next]_vars => SuspectInv'
<1> SUFFICES ASSUME IInv, SuspectInv, [Next]_vars PROVE SuspectInv'
  OBVIOUS
<1>i. TypeInv /\ FrameInv
  BY DEF IInv
<1>h. kids' = kids /\ ext' = ext /\ suspects' = suspects
  BY HeapStep
<1>s. Suspect' = Suspect
  BY <1>h, SuspectSame
<1>t. suspects \subseteq Nodes /\ phase \in {"mark", "scan", "collect", "done"}
  BY <1>i DEF TypeInv
<1>c. \A n \in Nodes : color[n] \in {"grey", "white"} => n \in Suspect
  BY DEF SuspectInv, Grey, White
<1>1. Elems(behind') \cup Elems(ahead') \subseteq suspects
  BY <1>i, RootsStep DEF SuspectInv
<1>2. CASE phase = "mark"
  <2>1. \A n \in Nodes : \/ color'[n] = color[n]
                         \/ color'[n] = "grey" /\ n \in Suspect
                         \/ color'[n] = "black" /\ n \in Globals
    BY <1>2, MarkPaint
  <2>2. \A n \in suspects : color'[n] \in {"purple", "grey"} \/ n \in Globals
    BY <1>2, <1>t, <2>1 DEF SuspectInv
  <2>3. \A n \in Nodes : color'[n] \in {"grey", "white"} => n \in Suspect
    BY <1>c, <2>1
  <2>4. phase' \in {"mark", "scan"}
    BY <1>2, <1>i, PhaseFacts DEF Next, MarkRoot, DropRoot, MarkElement, ScanRoot, ScanElement,
         BlackElement, CollectRoot, CollectElement, Return, NextPhase, Finished, vars
  <2> QED
    BY <1>1, <1>h, <1>s, <2>2, <2>3, <2>4 DEF SuspectInv, Settled, Grey, White
<1>3. CASE phase = "scan"
  <2>1. \A n \in Nodes : color'[n] \in {"grey", "white"} => n \in Suspect
    BY <1>3, <1>c, ScanPaint
  <2>2. CASE phase' = "scan"
    BY <1>1, <1>h, <1>s, <2>1, <2>2 DEF SuspectInv, Settled, Grey, White
  <2>3. CASE phase' # "scan"
    <3>1. NextPhase
      BY <1>3, <2>3 DEF Next, MarkRoot, DropRoot, MarkElement, ScanRoot, ScanElement,
         BlackElement, CollectRoot, CollectElement, Return, Finished, vars
    <3>2. phase' = "collect"
      BY <1>3, <3>1 DEF NextPhase
    <3>3. Doomed' = White'
      BY <1>3, <3>1, DoomedStart
    <3>4. White' \subseteq Suspect
      BY <2>1 DEF White
    <3> QED
      BY <1>1, <1>h, <1>s, <2>1, <3>2, <3>3, <3>4 DEF SuspectInv, Settled, Grey, White
  <2> QED
    BY <2>2, <2>3
<1>4. CASE Settled
  <2>1. /\ Settled' /\ Doomed' = Doomed
        /\ \A n \in Nodes : color'[n] \in {"grey", "white"} => n \in Suspect
    BY <1>4, <1>c, CollectPaint
  <2> QED
    BY <1>1, <1>4, <1>h, <1>s, <2>1 DEF SuspectInv, Settled, Grey, White
<1> QED
  BY <1>2, <1>3, <1>4, <1>t DEF Settled

\* The mark pass greys every suspected node that is not $GLOBALS.
LEMMA TrapStart ==
    ASSUME IInv, SuspectInv, NextPhase, phase = "mark"
    PROVE  Suspect \subseteq Grey \cup Globals
<1>i. TypeInv /\ MarkInv
  BY DEF IInv
<1>a. stack = <<>> /\ ahead = <<>>
  BY DEF NextPhase
<1>p. \A s : ~ Pending(stack, s)
  BY <1>a DEF Pending
<1>t. kids \in Heaps /\ suspects \subseteq Nodes /\ cut \subseteq Slots(kids) /\ Globals \subseteq Nodes
  BY <1>i, NodesAssumption DEF TypeInv, Nodes
<1>sf. \A s \in Slots(kids) : s[1] \in Nodes /\ To(s) \in Nodes
  BY <1>t, SlotFacts DEF To
<1>1. suspects \subseteq Grey \cup Globals
  <2>1. \A n \in suspects : color[n] # "purple"
    BY <1>a, <1>i, ElemsFacts DEF MarkInv
  <2> QED
    BY <2>1, <1>t DEF SuspectInv, Grey
<1>2. \A s \in Slots(kids) : s[1] \in Grey => To(s) \in Grey \cup Globals
  <2>1. ASSUME NEW s \in Slots(kids), s[1] \in Grey PROVE To(s) \in Grey \cup Globals
    <3>1. s \in cut \/ To(s) \in Globals
      BY <2>1, <1>i, <1>p DEF MarkInv, Grey
    <3>2. s \in cut => color[To(s)] = "grey"
      BY <1>i DEF MarkInv
    <3> QED
      BY <3>1, <3>2, <1>sf DEF Grey
  <2> QED
    BY <2>1
<1>3. Grey \cup Globals \in SUBSET Nodes
  BY <1>t DEF Grey
<1>4. PICK T \in SUBSET Nodes : T = Grey \cup Globals
  BY <1>3
<1>5. suspects \subseteq T /\ \A s \in Slots(kids) : s[1] \in T \ Globals => To(s) \in T
  BY <1>1, <1>2, <1>4
<1> QED
  BY <1>4, <1>5, <1>i, SuspectFacts

\* A trapped node has no reference that is not cut, so the scan pass finds it dead.
LEMMA TrapScan ==
    ASSUME IInv, [Next]_vars, phase = "scan",
           NEW S \in SUBSET Nodes, Trapped(S), S \subseteq Grey \cup White, NEW n \in S
    PROVE  color'[n] \in {"grey", "white"}
<1>i. TypeInv /\ FrameInv /\ RefInv /\ ScanInv
  BY DEF IInv
<1>t. kids \in Heaps /\ n \in Nodes /\ n \notin Globals /\ ext[n] = 0
  BY <1>i DEF TypeInv, Trapped
<1>c. \A m \in S : color[m] \in {"grey", "white"}
  BY DEF Grey, White
<1>0. "scan" \in {"mark", "scan", "black", "collect"} /\ "black" \in {"mark", "scan", "black", "collect"}
  OBVIOUS
<1>1. rc[n] = 0
  <2>1. ASSUME NEW s \in InSlots(kids, n) PROVE s \in cut
    <3>1. s \in Slots(kids) /\ To(s) = n
      BY DEF InSlots, To
    <3>2. color[s[1]] \in {"grey", "white"}
      BY <3>1, <1>c DEF Trapped
    <3> QED
      BY <3>1, <3>2, <1>t, <1>i DEF ScanInv
  <2>2. InSlots(kids, n) \ cut = {}
    BY <2>1
  <2>3. Cardinality(InSlots(kids, n) \ cut) = 0
    BY <2>2, FS_EmptySet
  <2>4. rc[n] = ext[n] + Cardinality(InSlots(kids, n) \ cut)
    BY <1>i, <1>t DEF RefInv
  <2> QED
    BY <2>3, <2>4, <1>t
<1>2. CASE ScanRoot
  <2>1. PICK c : c = Head(ahead)
    OBVIOUS
  <2>2. c \in Nodes /\ VisitScan(c, <<>>) /\ <<>> \in Seq(Frames)
    BY <1>2, <1>i, <2>1, ElemsFacts DEF ScanRoot
  <2>3. PICK R \in Seq(Frames) : R = <<>>
    BY <2>2
  <2>4. VisitScan(c, R)
    BY <2>2, <2>3
  <2> QED
    BY <1>i, <1>t, <1>c, <1>1, <2>2, <2>4, ScanShapes
<1>3. CASE ScanElement \/ BlackElement
  <2>1. PICK c : c = Child
    OBVIOUS
  <2>2. /\ stack # <<>> /\ stack \in Seq(Frames) /\ c \in Nodes /\ Slot \in Slots(kids)
        /\ Slot[1] = stack[1].node /\ c = To(Slot) /\ 1 \in DOMAIN stack /\ stack[1].node \notin Globals
    BY <1>0, <1>3, <1>i, <2>1, ChildFacts DEF ScanElement, BlackElement, TypeInv
  <2>3. Advance \in Seq(Frames)
    BY <2>2, AdvanceFacts
  <2>4. CASE ScanElement
    <3>1. VisitScan(c, Advance)
      BY <2>1, <2>4 DEF ScanElement
    <3> QED
      BY <1>i, <1>t, <1>c, <1>1, <2>2, <2>3, <3>1, ScanShapes
  <2>5. CASE BlackElement
    <3>1. VisitBlack(c, Advance) /\ stack[1].mode = "black"
      BY <2>1, <2>5 DEF BlackElement, AtElement
    <3>2. color[Slot[1]] = "black"
      BY <2>2, <3>1, <1>i DEF ScanInv
    <3>3. c \notin S
      BY <2>2, <3>2, <1>c DEF Trapped
    <3> QED
      BY <1>i, <1>t, <1>c, <2>2, <2>3, <3>1, <3>3, ScanShapes
  <2> QED
    BY <1>3, <2>4, <2>5
<1>4. CASE UNCHANGED color
  BY <1>4, <1>c
<1>5. ~ MarkRoot /\ ~ CollectRoot /\ ~ MarkElement /\ ~ CollectElement
  BY <1>i, PhaseFacts DEF MarkRoot, CollectRoot
<1> QED
  BY <1>2, <1>3, <1>4, <1>5 DEF Next, DropRoot, Return, NextPhase, Finished, vars

LEMMA TrapStep == IInv /\ SuspectInv /\ TrapInv /\ [Next]_vars => TrapInv'
<1> SUFFICES ASSUME IInv, SuspectInv, TrapInv, [Next]_vars PROVE TrapInv'
  OBVIOUS
<1>i. TypeInv /\ FrameInv
  BY DEF IInv
<1>h. \A S \in SUBSET Nodes : Trapped(S)' <=> Trapped(S)
  BY HeapStep, SuspectSame
<1>t. phase \in {"mark", "scan", "collect", "done"}
  BY <1>i DEF TypeInv
<1>1. ASSUME NEW S \in SUBSET Nodes, Trapped(S)
      PROVE  /\ phase' = "scan" => S \subseteq Grey' \cup White'
             /\ Settled' => S \subseteq Doomed'
  <2>1. CASE phase = "mark"
    <3>1. CASE NextPhase
      <4>1. phase' = "scan" /\ color' = color
        BY <2>1, <3>1 DEF NextPhase
      <4>2. S \subseteq Grey
        BY <1>1, <2>1, <3>1, TrapStart DEF Trapped
      <4> QED
        BY <4>1, <4>2 DEF Grey, Settled
    <3>2. CASE ~ NextPhase
      <4>1. phase' = "mark"
        BY <2>1, <3>2, <1>i, PhaseFacts DEF Next, MarkRoot, DropRoot, MarkElement, ScanRoot, ScanElement,
           BlackElement, CollectRoot, CollectElement, Return, Finished, vars
      <4> QED
        BY <4>1 DEF Settled
    <3> QED
      BY <3>1, <3>2
  <2>2. CASE phase = "scan"
    <3>0. S \subseteq Grey \cup White
      BY <1>1, <2>2 DEF TrapInv
    <3>1. \A n \in S : color'[n] \in {"grey", "white"}
      BY <1>1, <2>2, <3>0, TrapScan
    <3>2. CASE NextPhase
      <4>1. phase' = "collect" /\ color' = color /\ Doomed' = White' /\ \A n \in Nodes : color[n] # "grey"
        BY <2>2, <3>2, DoomedStart DEF NextPhase
      <4> QED
        BY <3>1, <4>1 DEF White
    <3>3. CASE ~ NextPhase
      <4>1. phase' = "scan"
        BY <2>2, <3>3, <1>i, PhaseFacts DEF Next, MarkRoot, DropRoot, MarkElement, ScanRoot, ScanElement,
           BlackElement, CollectRoot, CollectElement, Return, Finished, vars
      <4> QED
        BY <3>1, <4>1 DEF Settled, Grey, White
    <3> QED
      BY <3>2, <3>3
  <2>3. CASE Settled
    <3>1. Doomed' = Doomed /\ Settled'
      BY <2>3, CollectPaint
    <3> QED
      BY <1>1, <2>3, <3>1 DEF TrapInv, Settled
  <2> QED
    BY <1>t, <2>1, <2>2, <2>3 DEF Settled
<1> QED
  BY <1>1, <1>h DEF TrapInv

LEMMA SuspectInit == Init => SuspectInv /\ TrapInv
<1> SUFFICES ASSUME Init PROVE SuspectInv /\ TrapInv
  OBVIOUS
<1>i. TypeInv
  BY InitType
<1>1. phase = "mark" /\ behind = <<>> /\ Elems(ahead) = suspects /\ ~ Settled
  BY DEF Init, Settled
<1>2. Elems(behind) \cup Elems(ahead) \subseteq suspects
  BY <1>1, <1>i, ElemsFacts
<1>3. \A n \in Nodes : color[n] \in {"black", "purple"}
  BY DEF Init
<1>4. \A n \in suspects : color[n] = "purple"
  BY DEF Init
<1> QED
  BY <1>1, <1>2, <1>3, <1>4 DEF SuspectInv, TrapInv, Grey, White

\* Throughout a collection nothing but suspected nodes is painted, and whatever
\* only suspected garbage refers to is on its way to the list.
THEOREM SuspectInvariance == Spec => [](IInv /\ SuspectInv /\ TrapInv)
<1>1. Init => IInv /\ SuspectInv /\ TrapInv
  BY InitInv, SuspectInit
<1>2. (IInv /\ SuspectInv /\ TrapInv) /\ [Next]_vars => (IInv /\ SuspectInv /\ TrapInv)'
  BY Inductive, SuspectStep, TrapStep
<1> QED
  BY <1>1, <1>2, PTL DEF Spec

\* When the collect pass ends, the condemned nodes are the garbage of the suspects.
LEMMA CondemnedIsGarbage ==
    ASSUME IInv, SuspectInv, TrapInv, Settled
    PROVE  Doomed = Cycle!Garbage(kids, ext, suspects)
<1>i. TypeInv
  BY DEF IInv
<1>t. kids \in Heaps /\ ext \in [Nodes -> Nat] /\ Globals \subseteq Nodes
  BY <1>i, ExtAssumption, NodesAssumption DEF TypeInv, Nodes
<1>sf. /\ \A s \in Slots(kids) : s[1] \in Nodes /\ s[2] \in DOMAIN kids[s[1]] /\ To(s) \in Nodes
  BY <1>t, SlotFacts DEF To
<1>n. Cycle!Nodes = Nodes
  BY DEF Cycle!Nodes, Nodes
<1>s. Suspect \subseteq Nodes
  BY <1>i, SuspectFacts
<1>d. Doomed \subseteq Nodes /\ Doomed \subseteq Suspect
  BY <1>s DEF SuspectInv
<1>a. PICK A : A = Cycle!Anchors(kids, ext)
  OBVIOUS
<1>b. PICK B : B = A \cup (Nodes \ Suspect)
  OBVIOUS
<1>g. Cycle!Garbage(kids, ext, suspects) =
          {m \in Suspect : \E T \in SUBSET Nodes : B \subseteq T /\ Cycle!Closed(kids, T) /\ m \notin T}
  <2>1. Cycle!Garbage(kids, ext, suspects) = Suspect \ Cycle!Reach(kids, B)
    BY <1>a, <1>b, <1>n DEF Cycle!Garbage, Suspect
  <2>2. Cycle!Reach(kids, B) = {m \in Nodes : \A T \in SUBSET Nodes : B \subseteq T /\ Cycle!Closed(kids, T) => m \in T}
    BY <1>n DEF Cycle!Reach
  <2> QED
    BY <2>1, <2>2, <1>s
<1>1. ASSUME NEW m \in Doomed
      PROVE  \E T \in SUBSET Nodes : B \subseteq T /\ Cycle!Closed(kids, T) /\ m \notin T
  <2>1. PICK T : T = Nodes \ Doomed
    OBVIOUS
  <2>2. Cycle!Closed(kids, T) /\ A \subseteq T
    BY <1>a, <2>1, DoomedClosed DEF Settled
  <2>3. B \subseteq T /\ T \in SUBSET Nodes /\ m \notin T
    BY <1>b, <1>d, <2>1, <2>2
  <2> QED
    BY <2>2, <2>3
<1>2. ASSUME NEW T \in SUBSET Nodes, B \subseteq T, Cycle!Closed(kids, T), NEW m \in Suspect, m \notin T
      PROVE  m \in Doomed
  <2>1. PICK S \in SUBSET Nodes : S = Nodes \ T
    OBVIOUS
  <2>2. /\ \A x \in Nodes : ext[x] > 0 => x \in T
        /\ Globals \subseteq T
        /\ \A g \in Globals : Cycle!Refs(kids, g) \subseteq T
    BY <1>2, <1>a, <1>b, <1>n DEF Cycle!Anchors
  <2>3. S \subseteq Suspect \ Globals
    BY <2>1, <2>2, <1>2, <1>b
  <2>4. \A x \in S : ext[x] = 0
    BY <2>1, <2>2, <1>t
  <2>5. ASSUME NEW s \in Slots(kids), To(s) \in S PROVE s[1] \in S
    <3>1. To(s) \in Cycle!Refs(kids, s[1])
      BY <1>sf DEF Cycle!Refs, To
    <3>2. To(s) \notin T
      BY <2>1, <2>5
    <3>3. s[1] \notin Globals
      BY <3>1, <3>2, <2>2
    <3>4. s[1] \notin T
      BY <3>1, <3>2, <3>3, <1>2 DEF Cycle!Closed
    <3> QED
      BY <3>4, <2>1, <1>sf
  <2>6. Trapped(S)
    BY <2>3, <2>4, <2>5 DEF Trapped
  <2>7. S \subseteq Doomed
    BY <2>1, <2>6 DEF TrapInv
  <2> QED
    BY <1>2, <1>s, <2>1, <2>7
<1> QED
  BY <1>1, <1>2, <1>d, <1>g

\* A run of the three passes is one step of the one-step collection: it puts the
\* zvals of the suspects' garbage on the list, all of them and nothing else.
THEOREM Refinement == Spec => CycleSpec
<1>1. Init => Cycle!Init
  <2> SUFFICES ASSUME Init PROVE Cycle!Init
    OBVIOUS
  <2>1. phase # "done" /\ suspects \in SUBSET Nodes /\ kids \in Heaps /\ ext \in [Nodes -> ExtCounts]
    BY DEF Init
  <2> QED
    BY <2>1 DEF Cycle!Init, Cycle!Nodes, Nodes
<1>2. (IInv /\ SuspectInv /\ TrapInv) /\ (IInv /\ SuspectInv /\ TrapInv)' /\ [Next]_vars
          => [Cycle!Next]_(Cycle!cycleVars)
  <2> SUFFICES ASSUME IInv, SuspectInv, TrapInv, IInv', [Next]_vars
               PROVE  [Cycle!Next]_(Cycle!cycleVars)
    OBVIOUS
  <2>h. kids' = kids /\ ext' = ext /\ suspects' = suspects
    BY HeapStep
  <2>i. TypeInv /\ FrameInv /\ CollectInv
    BY DEF IInv
  <2>t. phase \in {"mark", "scan", "collect", "done"} /\ toFree \in Seq(Zvals) /\ Zvals \cap Objs = {}
    BY <2>i, NodesAssumption DEF TypeInv
  <2>1. CASE phase # "done" /\ phase' # "done"
    BY <2>1, <2>h DEF Cycle!cycleVars
  <2>2. CASE phase = "done"
    <3>1. UNCHANGED <<phase, toFree>>
      BY <2>2, <2>i, PhaseFacts DEF Next, MarkRoot, DropRoot, MarkElement, ScanRoot, ScanElement,
         BlackElement, CollectRoot, CollectElement, Return, NextPhase, Finished, vars
    <3> QED
      BY <2>2, <2>h, <3>1 DEF Cycle!cycleVars, Elems
  <2>3. CASE phase # "done" /\ phase' = "done"
    <3>1. NextPhase
      BY <2>3 DEF Next, MarkRoot, DropRoot, MarkElement, ScanRoot, ScanElement,
         BlackElement, CollectRoot, CollectElement, Return, Finished, vars
    <3>2. phase = "collect" /\ stack = <<>> /\ ahead = <<>> /\ toFree' = toFree
      BY <2>3, <2>t, <3>1 DEF NextPhase
    <3>3. White = {}
      <4>1. \A s \in Slots(kids) : ~ Pending(stack, s)
        BY <3>2 DEF Pending
      <4> QED
        BY <2>i, <3>2, <4>1, ElemsFacts DEF CollectInv
    <3>4. Elems(toFree) \subseteq Zvals
      BY <2>t DEF Elems
    <3>5. Elems(toFree) = Doomed \cap Zvals
      BY <2>t, <3>3, <3>4 DEF Doomed, Condemned
    <3>6. Doomed = Cycle!Garbage(kids, ext, suspects)
      BY <3>2, CondemnedIsGarbage DEF Settled
    <3>7. Elems(toFree') = Cycle!Garbage(kids, ext, suspects) \cap Zvals
      BY <3>2, <3>5, <3>6
    <3> QED
      BY <2>3, <2>h, <3>7 DEF Cycle!Next, Cycle!Collect
  <2> QED
    BY <2>1, <2>2, <2>3
<1> QED
  BY <1>1, <1>2, SuspectInvariance, PTL DEF Spec, CycleSpec, Cycle!Spec
=============================================================================
