---------------------------- MODULE ZendGcProofs ----------------------------
(***************************************************************************)
(* Proofs about the collector at work, for any script, heap and buffer:     *)
(* refcounts are exact, nothing that is freed is referred to, the root      *)
(* buffer and the nodes agree, no object goes before its destructor, and    *)
(* garbage is not forgotten.                                                *)
(*                                                                         *)
(* The free loop frees what a list has, whatever the counts have become     *)
(* since the list was made.  That this is right rests on the part of the    *)
(* invariant called SealInv: once a list is condemned, what refers to its   *)
(* zvals is condemned with them.  The passes establish it because all       *)
(* references to the list were found inside it; that, in turn, needs exact  *)
(* counts.  A destructor called for the list suspends it, the question      *)
(* Revived restores it.  Collections inside a destructor leave the lists of *)
(* those around them alone, because a listed zval has one reference more    *)
(* than there are.                                                         *)
(*                                                                         *)
(* That garbage is known of rests on Cover: no set of nodes is left that    *)
(* has no root in it and no edge into it, where the roots include what the  *)
(* frames have in hand.  Reachability itself is never followed step by      *)
(* step.                                                                   *)
(***************************************************************************)
EXTENDS ZendGcSteps

\* The steps of gc_collect_cycles.

\* A destructor has returned: the collection gives its reference back.
LEMMA DestructorReturnedStep ==
    ASSUME IInv, Sound, DestructorReturned
    PROVE  TypeOK' /\ (Sound' => Inv')
<1>1. /\ Top.at = "destructors" /\ Top.n # 0
      /\ rc' = [rc EXCEPT ![Top.n] = @ - 1]
      /\ stack' = <<[Top EXCEPT !.n = 0]>> \o Tail(stack)
      /\ kind' = kind /\ to' = to /\ elems' = elems /\ valid' = valid /\ called' = called /\ var' = var
      /\ buf' = buf /\ addr' = addr /\ purple' = purple /\ steps' = steps /\ lost' = lost
  BY DEF DestructorReturned, At, This, Replace, buffer, ghosts
<1>2. /\ TypeOK /\ Inv /\ stack \in Seq(Frames) /\ stack # <<>> /\ FrTypes /\ Views /\ Top \in Frames /\ FieldsOK(Top)
      /\ Objs \subseteq Nodes /\ Zvals \cap Objs = {} /\ 0 \notin Objs
  BY Context, Sizes
<1>3. PICK n \in Nat : Len(stack) = n + 1 /\ Fr(stack, n + 1) = Top /\ Len(stack) - 1 = n /\ n >= 1
  BY <1>1, Context
<1>4. n + 1 \in 1..Len(stack) /\ \A h \in 1..n : h \in 1..Len(stack) /\ h # n + 1 /\ ~ (h > n)
  BY <1>3
<1>5. /\ rc \in [Nodes -> Nat] /\ valid \subseteq Objs
      /\ Shape /\ HeapInv /\ FrameInv /\ DyingInv /\ ListInv /\ SealInv /\ BufInv
  BY <1>2 DEF TypeOK, Inv
<1>6. PICK o \in Objs : o = Top.n /\ o \in Nodes /\ o # 0 /\ o \in valid /\ o \in called /\ Top.check
                        /\ Denoting(kind, to, o) \cap Top.list # {}
  <2>1. Top.n \in Objs /\ Top.check
    BY <1>1, <1>2 DEF FieldsOK
  <2>2. Top.n \in called /\ Denoting(kind, to, Top.n) \cap Top.list # {}
    BY <1>1, <1>3, <1>4, <1>5 DEF FrameInv, ReturnOK
  <2>3. Top.n \in valid
    BY <1>1, <1>3, <1>4, <1>5, <2>1 DEF FrameInv, HeldValid, Holds, HoldLabels
  <2> QED BY <1>2, <2>1, <2>2, <2>3
<1>7. Holds(Fr(stack, n + 1), o)
  BY <1>1, <1>3, <1>6 DEF Holds, HoldLabels
<1>8. rc[o] \in Nat /\ rc[o] >= 1
  <2>1. Fr(stack, n + 1) \in HoldFrames(o) /\ Len(stack) \in Nat
    BY <1>2, <1>3, <1>4, <1>7 DEF FrTypes, HoldFrames
  <2>2. CountIn(stack, HoldFrames(o)) \in Nat /\ CountIn(stack, HoldFrames(o)) # 0
    BY <1>4, <2>1, NoneCounted
  <2>3. rc[o] = Cardinality(Counted(o)) + CountIn(stack, HoldFrames(o)) /\ Cardinality(Counted(o)) \in Nat
    BY <1>6, ObjRefs
  <2> QED BY <1>5, <1>6, <2>2, <2>3
<1>9. \A h \in 1..n : Fr(stack, h).at = "storage" => Fr(stack, h).n # o
  <2>1. ASSUME NEW h \in 1..n, Fr(stack, h).at = "storage", Fr(stack, h).n = o PROVE FALSE
    <3>1. rc[o] = 1
      BY <1>4, <1>5, <2>1 DEF FrameInv, StorageOK
    <3>2. Holds(Fr(stack, h), o) /\ h \in 1..Len(stack) /\ h # n + 1 /\ rc[o] <= 1
      BY <1>4, <2>1, <3>1 DEF Holds, HoldLabels
    <3> QED BY <1>4, <1>7, <3>2, TwoHolds
  <2> QED BY <2>1
<1>10. rc' \in [Nodes -> Nat] /\ rc'[o] = rc[o] - 1 /\ \A m \in Nodes : m # o => rc'[m] = rc[m]
  BY <1>1, <1>5, <1>6, <1>8
<1>11. PICK f : f = [Top EXCEPT !.n = 0]
  OBVIOUS
<1>12. /\ f \in Frames /\ f.at = "destructors" /\ f.n = 0 /\ f.z = Top.z /\ f.todo = Top.todo /\ f.list = Top.list /\ f.check
  <2>1. Top \in Frames /\ Top.check /\ Top.at = "destructors"
    BY <1>1, <1>2, <1>6
  <2>2. f = [Top EXCEPT !.n = 0]
    BY <1>11
  <2> QED BY ONLY <2>1, <2>2 DEF Frames
<1>13. stack' \in Seq(Frames) /\ stack' # <<>> /\ Replaced(stack, stack', f)
  <2>1. stack' = <<f>> \o Tail(stack)
    BY <1>1, <1>11
  <2> QED BY <1>2, <1>12, <2>1, FrReplace
<1>14. Moves(stack, stack', n, {f})
  BY <1>2, <1>3, <1>13, AllMoves
<1>15. /\ Len(stack') = n + 1 /\ Fr(stack', n + 1) = f
       /\ \A h \in 1..n : h \in 1..Len(stack') /\ Fr(stack', h) = Fr(stack, h)
       /\ \A h \in 1..Len(stack') : h \in 1..n \/ h = n + 1
       /\ \A h \in 1..Len(stack') : h > n => h = n + 1
  BY <1>3, <1>13 DEF Replaced, Kept
<1>16. /\ Listed' = Listed /\ Dying' = Dying /\ Parts(stack', 3) = Parts(stack, 3) /\ Parts(stack', 4) = Parts(stack, 4)
  <2>1. \A i \in 1..4 : Part(f, i) = Part(Top, i)
    BY <1>1, <1>12 DEF Part
  <2>2. ASSUME NEW i \in 1..4 PROVE Parts(stack', i) = Parts(stack, i)
    <3>1. /\ Parts(stack, i) = Below(stack, i) \cup Part(stack[1], i)
          /\ Parts(stack', i) = Below(stack, i) \cup Part(f, i)
      BY <1>2, <1>13, PartChanges
    <3>2. Part(stack[1], i) = Part(f, i)
      BY <2>1, Context
    <3> QED BY <3>1, <3>2
  <2> QED BY <1>2, <1>13, <2>2, StackViews, NextViews
<1>17. TypeOK'
  <2>1. UNCHANGED <<kind, to, elems, valid, called, var, buf, addr, purple, steps, lost>>
    BY <1>1
  <2>2. TypeOK
    BY <1>2
  <2> QED BY ONLY <1>10, <1>13, <2>1, <2>2 DEF TypeOK
<1>18. Shape'
  <2>1. FieldsOK(f)
    BY <1>1, <1>2, <1>12 DEF FieldsOK
  <2> QED BY <1>1, <1>3, <1>5, <1>12, <1>13, <2>1, ShapeSteps
<1>19. ASSUME NEW x
       PROVE  /\ CountIn(stack', RefFrames(x)) = CountIn(stack, RefFrames(x))
              /\ CountIn(stack, HoldFrames(x)) \in Nat
              /\ x \in Objs => CountIn(stack', HoldFrames(x)) = CountIn(stack, HoldFrames(x)) - (IF x = o THEN 1 ELSE 0)
  <2>1. /\ ~ Refers(Top, x) /\ ~ Refers(f, x)
        /\ x \in Objs => (Holds(Top, x) <=> x = o) /\ ~ Holds(f, x)
    BY <1>1, <1>2, <1>6, <1>12 DEF Refers, Holds, HoldLabels, FieldsOK
  <2>2. /\ Bit(Top, RefFrames(x)) = 0 /\ Bit(f, RefFrames(x)) = 0
        /\ x \in Objs => Bit(Top, HoldFrames(x)) = (IF x = o THEN 1 ELSE 0) /\ Bit(f, HoldFrames(x)) = 0
    BY <1>2, <1>12, <2>1, Bits
  <2>3. /\ CountIn(stack, RefFrames(x)) \in Nat /\ CountIn(stack, HoldFrames(x)) \in Nat
        /\ CountIn(stack', RefFrames(x)) = CountIn(stack, RefFrames(x)) - Bit(Top, RefFrames(x)) + Bit(f, RefFrames(x))
        /\ CountIn(stack', HoldFrames(x)) = CountIn(stack, HoldFrames(x)) - Bit(Top, HoldFrames(x)) + Bit(f, HoldFrames(x))
    BY <1>2, <1>13, Counts
  <2> QED BY <2>2, <2>3
<1>20. \A z \in Zvals : rc'[z] = rc[z]
  BY <1>2, <1>10, Sizes
<1>21. \A w \in valid : w \in Nodes /\ w \in Objs /\ (w # o => rc'[w] = rc[w])
  BY <1>2, <1>5, <1>10
<1>22. HeapInv'
  <2>0. KindsOK /\ NullsOK /\ ZvalCounts /\ ObjCounts /\ VarsHold /\ ElemsHold /\ FramesHold /\ ZvalsHold
    BY <1>5 DEF HeapInv
  <2>1. KindsOK'
    <3>1. \A w \in Objs \ valid : rc'[w] = 0
      BY <1>2, <1>6, <1>10, <2>0 DEF KindsOK
    <3> QED BY <1>1, <2>0, <3>1 DEF KindsOK
  <2>2. NullsOK'
    BY <1>1, <1>16, <2>0 DEF NullsOK
  <2>3. ZvalCounts'
    BY <1>1, <1>16, <1>19, <1>20, <2>0 DEF ZvalCounts, ListRef
  <2>4. ObjCounts'
    <3> SUFFICES ASSUME NEW w \in valid
                 PROVE  rc'[w] = Cardinality(Counted(w)) + CountIn(stack', HoldFrames(w))
      BY <1>1, <1>16 DEF ObjCounts, Counted
    <3>1. rc[w] = Cardinality(Counted(w)) + CountIn(stack, HoldFrames(w)) /\ Cardinality(Counted(w)) \in Nat
      BY <1>21, ObjRefs
    <3>2. /\ CountIn(stack, HoldFrames(w)) \in Nat
          /\ CountIn(stack', HoldFrames(w)) = CountIn(stack, HoldFrames(w)) - (IF w = o THEN 1 ELSE 0)
      BY <1>19, <1>21
    <3> QED BY <1>8, <1>10, <1>21, <3>1, <3>2
  <2>5. VarsHold' /\ ElemsHold'
    BY <1>1, <2>0 DEF VarsHold, ElemsHold
  <2>6. FramesHold'
    <3>1. \A e \in f.todo \cup f.list : kind[e] # "none"
      BY <1>3, <1>4, <1>12, <2>0 DEF FramesHold
    <3> QED BY <1>1, <1>2, <1>14, <2>0, <3>1, FramesHoldMove
  <2>7. ZvalsHold'
    BY <1>1, <1>16, <2>0 DEF ZvalsHold
  <2> QED BY <2>1, <2>2, <2>3, <2>4, <2>5, <2>6, <2>7 DEF HeapInv
<1>23. FrameInv'
  <2>0. HeldValid /\ StorageOK /\ NamedZvals /\ RootArrays /\ OnFree /\ ReturnOK
    BY <1>5 DEF FrameInv
  <2>1. HeldValid'
    <3>1. \A w \in Objs : ~ Holds(f, w)
      BY <1>2, <1>12 DEF Holds
    <3> QED BY <1>1, <1>14, <2>0, <3>1, HeldValidMove
  <2>2. StorageOK'
    <3>1. \A h \in 1..n : Fr(stack, h).at = "storage" => rc'[Fr(stack, h).n] = rc[Fr(stack, h).n]
      <4>1. \A h \in 1..n : Fr(stack, h).at = "storage" => Fr(stack, h).n \in Objs
        BY <1>4, StorageObjs
      <4> QED BY <1>2, <1>9, <1>10, <4>1
    <3> QED BY <1>1, <1>12, <1>14, <2>0, <3>1, StorageMove
  <2>3. NamedZvals'
    BY <1>1, <1>2, <1>12, <1>14, <1>16, <2>0, NamedMove
  <2>4. RootArrays'
    BY <1>1, <1>12, <1>14, <1>16, <2>0, RootArraysMove
  <2>5. OnFree'
    BY <1>12, <1>14, <1>15, <2>0, OnFreeMove
  <2>6. ReturnOK'
    BY <1>1, <1>12, <1>14, <2>0, ReturnMove
  <2> QED BY <2>1, <2>2, <2>3, <2>4, <2>5, <2>6 DEF FrameInv
<1>24. DyingInv'
  <2>0. DyingHeap /\ DyingBuf /\ DyingFrames
    BY <1>5 DEF DyingInv
  <2>1. DyingHeap' /\ DyingBuf'
    BY <1>1, <1>16, <2>0 DEF DyingHeap, DyingBuf
  <2>2. \A x \in {f} : x.at # "free" /\ \A z \in Dying : Refers(x, z) => x.at = "resume"
    BY <1>1, <1>2, <1>12 DEF Refers, FieldsOK
  <2>3. DyingFrames'
    BY <1>2, <1>14, <2>0, <2>2, DyingFramesMove
  <2> QED BY <2>1, <2>3 DEF DyingInv
<1>25. ListInv'
  <2>0. ListedBuf /\ Disjoint /\ Pending /\ CalledFirst
    BY <1>5 DEF ListInv
  <2>1. ListedBuf'
    BY <1>1, <1>16, <2>0 DEF ListedBuf
  <2>2. Disjoint'
    <3>1. \A h \in 1..Len(stack') : h > n /\ Fr(stack', h).list # {} =>
               h = n + 1 /\ h \in 1..Len(stack) /\ Fr(stack', h).list \subseteq Fr(stack, h).list
      BY <1>3, <1>4, <1>12, <1>15
    <3> QED BY <1>14, <2>0, <3>1, DisjointMove
  <2>3. Pending'
    <3>1. Top.list \subseteq Parts(stack, 4)
      <4>1. Part(Fr(stack, n + 1), 4) = Top.list
        BY <1>1, <1>3 DEF Part
      <4> QED BY <1>4, <4>1, PartMember
    <3>2. \A w \in valid : rc'[w] = 0 => Denoting(kind, to, w) \cap Parts(stack, 4) # {}
      BY <1>6, <1>21, <2>0, <3>1 DEF Pending
    <3> QED BY <1>1, <1>16, <3>2 DEF Pending
  <2>4. CalledFirst'
    <3>0. kind' = kind /\ to' = to /\ valid' = valid /\ called' = called
      BY <1>1
    <3> SUFFICES ASSUME NEW h \in 1..Len(stack'), Fr(stack', h).at = "destroy", NEW z \in Fr(stack', h).todo,
                        kind[z] = "object", to[z] \in valid, rc'[to[z]] = 0
                 PROVE  \/ to[z] \in called
                        \/ \E j \in h + 1..Len(stack') : /\ Fr(stack', j).at = "destructors"
                                                         /\ Denoting(kind, to, to[z]) \cap Fr(stack', j).list # {}
      BY <3>0 DEF CalledFirst, Garbage
    <3>1. h \in 1..n /\ h \in 1..Len(stack) /\ Fr(stack', h) = Fr(stack, h)
      BY <1>4, <1>12, <1>15
    <3>2. CASE to[z] = o
      BY <1>6, <3>2
    <3>3. CASE to[z] # o
      <4>1. rc[to[z]] = 0
        BY <1>21, <3>3
      <4>2. \/ to[z] \in called
            \/ \E j \in h + 1..Len(stack) : /\ Fr(stack, j).at = "destructors"
                                            /\ Denoting(kind, to, to[z]) \cap Fr(stack, j).list # {}
        BY <2>0, <3>1, <4>1 DEF CalledFirst, Garbage
      <4>3. \A j \in h + 1..Len(stack) : /\ j \in h + 1..Len(stack') /\ Fr(stack', j).list = Fr(stack, j).list
                                         /\ Fr(stack', j).at = Fr(stack, j).at
        <5>1. \A j \in h + 1..Len(stack) : j \in h + 1..Len(stack') /\ (j \in 1..n \/ j = n + 1)
          BY <1>3, <1>15, <3>1
        <5> QED BY <1>1, <1>3, <1>12, <1>15, <5>1
      <4> QED BY <4>2, <4>3
    <3> QED BY <3>2, <3>3
  <2> QED BY <2>1, <2>2, <2>3, <2>4 DEF ListInv
<1>26. SealInv'
  <2>0. SealedVars /\ SealedElems /\ SealedFrames
    BY <1>5 DEF SealInv
  <2>1. ~ Sealing(f)
    BY <1>12 DEF Sealing
  <2>2. SealedVars'
    BY <1>1, <1>2, <1>14, <2>0, <2>1, SealedVarsMove
  <2>3. \A h \in 1..Len(stack') : h > n => ~ Sealing(Fr(stack', h))
    BY <1>15, <2>1
  <2>4. SealedFrames'
    BY <1>14, <2>0, <2>3, SealedFramesMove
  <2>5. SealedElems'
    <3>1. \A h \in 1..n : \A m \in Nodes : GivenBack(h, m) => elems'[m] = {}
      BY <1>1 DEF GivenBack
    <3>2. \A w \in valid : rc[w] = 0 =>
               /\ w \in valid' /\ rc'[w] = 0
               /\ Denoting(kind', to', w) \subseteq Denoting(kind, to, w)
               /\ Denoting(kind', to', w) \cap Dying \subseteq Dying'
               /\ Denoting(kind, to, w) \cap Listed \subseteq Denoting(kind', to', w)
      BY <1>1, <1>8, <1>16, <1>21
    <3> QED BY <1>1, <1>2, <1>5, <1>14, <2>0, <2>3, <3>1, <3>2, SealedElemsMove
  <2> QED BY <2>2, <2>4, <2>5 DEF SealInv
<1>27. BufInv'
  BY <1>1, <1>5 DEF BufInv
<1> QED BY <1>17, <1>18, <1>22, <1>23, <1>24, <1>25, <1>26, <1>27 DEF Inv

\* A collection calls the destructor of an object that it has condemned.
LEMMA CallDestructorStep ==
    ASSUME IInv, Sound, CallDestructor
    PROVE  TypeOK' /\ (Sound' => Inv')
<1>1. /\ Top.at = "destructors" /\ Top.n = 0
      /\ kind' = kind /\ to' = to /\ elems' = elems /\ valid' = valid /\ var' = var
      /\ buf' = buf /\ addr' = addr /\ purple' = purple /\ steps' = steps /\ lost' = lost
  BY DEF CallDestructor, At, This, buffer, ghosts
<1>2. /\ TypeOK /\ Inv /\ stack \in Seq(Frames) /\ stack # <<>> /\ FrTypes /\ Views /\ Top \in Frames /\ FieldsOK(Top)
      /\ Objs \subseteq Nodes /\ Zvals \cap Objs = {} /\ 0 \notin Objs
  BY Context, Sizes
<1>3. PICK n \in Nat : Len(stack) = n + 1 /\ Fr(stack, n + 1) = Top /\ Len(stack) - 1 = n /\ n >= 1
  BY <1>1, Context
<1>4. n + 1 \in 1..Len(stack) /\ \A h \in 1..n : h \in 1..Len(stack) /\ h # n + 1 /\ ~ (h > n)
  BY <1>3
<1>5. /\ rc \in [Nodes -> Nat] /\ valid \subseteq Objs /\ called \in SUBSET Objs
      /\ Shape /\ HeapInv /\ FrameInv /\ DyingInv /\ ListInv /\ SealInv /\ BufInv
  BY <1>2 DEF TypeOK, Inv
<1>6. PICK x \in Top.list : /\ kind[x] = "object" /\ Garbage(to[x]) /\ to[x] \notin called
                            /\ called' = called \cup {to[x]} /\ rc' = [rc EXCEPT ![to[x]] = 1 + 1]
                            /\ stack' = <<Frame("body", to[x], 0), [Top EXCEPT !.n = to[x], !.check = TRUE]>> \o Tail(stack)
  BY DEF CallDestructor, RunDestructor
<1>7. PICK o \in Objs : o = to[x] /\ o \in Nodes /\ o # 0 /\ o \in valid /\ rc[o] = 0 /\ o \notin called
  BY <1>2, <1>5, <1>6 DEF Garbage
<1>8. x \in Zvals /\ x \in Listed /\ x \notin Dying /\ x \in Denoting(kind, to, o)
  <2>1. x \in Listed
    BY <1>2, <1>3, <1>4 DEF Views
  <2>2. x \in Zvals
    BY <2>1, ListTypes
  <2>3. x \notin Dying
    BY <1>5, <2>1 DEF DyingInv, DyingHeap
  <2> QED BY <1>6, <1>7, <2>1, <2>2, <2>3 DEF Denoting
<1>9. \A h \in 1..Len(stack) : Fr(stack, h).at = "storage" => Fr(stack, h).n # o
  BY <1>5, <1>7 DEF FrameInv, StorageOK
<1>10. rc' \in [Nodes -> Nat] /\ rc'[o] = 2 /\ \A m \in Nodes : m # o => rc'[m] = rc[m]
  BY <1>5, <1>6, <1>7
<1>11. called' = called \cup {o}
  BY <1>6, <1>7
<1>12. PICK f, g : f = Frame("body", o, 0) /\ g = [Top EXCEPT !.n = o, !.check = TRUE]
  OBVIOUS
<1>13. f \in Frames /\ f.at = "body" /\ f.n = o /\ f.z = 0 /\ f.todo = {} /\ f.list = {}
  <2>1. "body" \in Labels /\ o \in Nodes \cup {0} /\ 0 \in Zvals \cup {0}
    BY <1>7 DEF Labels
  <2>2. LET y == Frame("body", o, 0) IN
        y \in Frames /\ y.at = "body" /\ y.n = o /\ y.z = 0 /\ y.todo = {} /\ y.list = {}
    BY ONLY <2>1 DEF Frame, Frames
  <2> QED BY <1>12, <2>2
<1>14. /\ g \in Frames /\ g.at = "destructors" /\ g.n = o /\ g.z = Top.z /\ g.todo = Top.todo /\ g.list = Top.list /\ g.check
  <2>1. Top \in Frames /\ Top.at = "destructors" /\ o \in Nodes \cup {0}
    BY <1>1, <1>2, <1>7
  <2>2. g = [Top EXCEPT !.n = o, !.check = TRUE]
    BY <1>12
  <2> QED BY ONLY <2>1, <2>2 DEF Frames
<1>15. stack' \in Seq(Frames) /\ stack' # <<>> /\ Doubled(stack, stack', f, g)
  <2>1. stack' = <<f, g>> \o Tail(stack)
    BY <1>6, <1>7, <1>12
  <2> QED BY <1>2, <1>13, <1>14, <2>1, FrDouble
<1>16. Moves(stack, stack', n, {f, g})
  BY <1>2, <1>3, <1>15, AllMoves
<1>17. /\ Len(stack') = n + 2 /\ Fr(stack', n + 1) = g /\ Fr(stack', n + 2) = f
       /\ \A h \in 1..n + 1 : h \in 1..Len(stack')
       /\ \A h \in 1..n : h \in 1..Len(stack') /\ Fr(stack', h) = Fr(stack, h)
       /\ \A h \in 1..Len(stack') : h \in 1..n \/ h = n + 1 \/ h = n + 2
       /\ \A h \in 1..Len(stack') : h > n => h = n + 1 \/ h = n + 2
  BY <1>3, <1>15 DEF Doubled, Kept
<1>18. /\ Listed' = Listed /\ Dying' = Dying /\ Parts(stack', 3) = Parts(stack, 3) /\ Parts(stack', 4) = Parts(stack, 4)
  <2>1. \A i \in 1..4 : Part(g, i) = Part(Top, i) /\ Part(f, i) = {}
    BY <1>1, <1>13, <1>14 DEF Part
  <2>2. ASSUME NEW i \in 1..4 PROVE Parts(stack', i) = Parts(stack, i)
    <3>1. /\ Parts(stack, i) = Below(stack, i) \cup Part(stack[1], i)
          /\ Parts(stack', i) = Below(stack, i) \cup Part(g, i) \cup Part(f, i)
      BY <1>2, <1>15, PartChanges
    <3>2. Part(stack[1], i) = Part(g, i) /\ Part(f, i) = {}
      BY <2>1, Context
    <3> QED BY <3>1, <3>2
  <2> QED BY <1>2, <1>15, <2>2, StackViews, NextViews
<1>19. TypeOK'
  <2>1. UNCHANGED <<kind, to, elems, valid, var, buf, addr, purple, steps, lost>>
    BY <1>1
  <2>2. TypeOK
    BY <1>2
  <2>3. called' \in SUBSET Objs
    BY <1>5, <1>11
  <2> QED BY ONLY <1>10, <1>15, <2>1, <2>2, <2>3 DEF TypeOK
<1>20. Shape'
  <2>1. FieldsOK(f) /\ FieldsOK(g) /\ Calls(g)
    BY <1>1, <1>2, <1>7, <1>13, <1>14 DEF FieldsOK, Calls, TopLabels
  <2> QED BY <1>1, <1>3, <1>5, <1>13, <1>14, <1>15, <2>1, ShapeSteps
<1>21. ASSUME NEW y
       PROVE  /\ CountIn(stack', RefFrames(y)) = CountIn(stack, RefFrames(y))
              /\ CountIn(stack, HoldFrames(y)) \in Nat
              /\ y \in Objs => CountIn(stack', HoldFrames(y)) = CountIn(stack, HoldFrames(y)) + (IF y = o THEN 2 ELSE 0)
  <2>1. /\ ~ Refers(Top, y) /\ ~ Refers(f, y) /\ ~ Refers(g, y)
        /\ y \in Objs => ~ Holds(Top, y) /\ (Holds(f, y) <=> y = o) /\ (Holds(g, y) <=> y = o)
    BY <1>1, <1>2, <1>13, <1>14 DEF Refers, Holds, HoldLabels, FieldsOK
  <2>2. /\ Bit(Top, RefFrames(y)) = 0 /\ Bit(f, RefFrames(y)) = 0 /\ Bit(g, RefFrames(y)) = 0
        /\ y \in Objs => /\ Bit(Top, HoldFrames(y)) = 0
                         /\ Bit(f, HoldFrames(y)) = (IF y = o THEN 1 ELSE 0)
                         /\ Bit(g, HoldFrames(y)) = (IF y = o THEN 1 ELSE 0)
    BY <1>2, <1>13, <1>14, <2>1, Bits
  <2>3. /\ CountIn(stack, RefFrames(y)) \in Nat /\ CountIn(stack, HoldFrames(y)) \in Nat
        /\ CountIn(stack', RefFrames(y)) = CountIn(stack, RefFrames(y)) - Bit(Top, RefFrames(y)) + Bit(g, RefFrames(y)) + Bit(f, RefFrames(y))
        /\ CountIn(stack', HoldFrames(y)) = CountIn(stack, HoldFrames(y)) - Bit(Top, HoldFrames(y)) + Bit(g, HoldFrames(y)) + Bit(f, HoldFrames(y))
    BY <1>2, <1>15, Counts
  <2> QED BY <2>2, <2>3
<1>22. \A z \in Zvals : rc'[z] = rc[z]
  BY <1>2, <1>10, Sizes
<1>23. \A w \in valid : w \in Nodes /\ w \in Objs /\ (w # o => rc'[w] = rc[w])
  BY <1>2, <1>5, <1>10
<1>24. HeapInv'
  <2>0. KindsOK /\ NullsOK /\ ZvalCounts /\ ObjCounts /\ VarsHold /\ ElemsHold /\ FramesHold /\ ZvalsHold
    BY <1>5 DEF HeapInv
  <2>1. KindsOK'
    <3>1. \A w \in Objs \ valid : rc'[w] = 0
      BY <1>2, <1>7, <1>10, <2>0 DEF KindsOK
    <3> QED BY <1>1, <2>0, <3>1 DEF KindsOK
  <2>2. NullsOK'
    BY <1>1, <1>18, <2>0 DEF NullsOK
  <2>3. ZvalCounts'
    BY <1>1, <1>18, <1>21, <1>22, <2>0 DEF ZvalCounts, ListRef
  <2>4. ObjCounts'
    <3> SUFFICES ASSUME NEW w \in valid
                 PROVE  rc'[w] = Cardinality(Counted(w)) + CountIn(stack', HoldFrames(w))
      BY <1>1, <1>18 DEF ObjCounts, Counted
    <3>1. rc[w] = Cardinality(Counted(w)) + CountIn(stack, HoldFrames(w)) /\ Cardinality(Counted(w)) \in Nat
      BY <1>23, ObjRefs
    <3>2. /\ CountIn(stack, HoldFrames(w)) \in Nat
          /\ CountIn(stack', HoldFrames(w)) = CountIn(stack, HoldFrames(w)) + (IF w = o THEN 2 ELSE 0)
      BY <1>21, <1>23
    <3> QED BY <1>7, <1>10, <1>23, <3>1, <3>2
  <2>5. VarsHold' /\ ElemsHold'
    BY <1>1, <2>0 DEF VarsHold, ElemsHold
  <2>6. FramesHold'
    <3>1. \A y \in {f, g} : \A e \in y.todo \cup y.list : kind[e] # "none"
      BY <1>3, <1>4, <1>13, <1>14, <2>0 DEF FramesHold
    <3> QED BY <1>1, <1>2, <1>16, <2>0, <3>1, FramesHoldMove
  <2>7. ZvalsHold'
    BY <1>1, <1>18, <2>0 DEF ZvalsHold
  <2> QED BY <2>1, <2>2, <2>3, <2>4, <2>5, <2>6, <2>7 DEF HeapInv
<1>25. called \subseteq called' /\ o \in called'
  BY <1>11
<1>26. FrameInv'
  <2>0. HeldValid /\ StorageOK /\ NamedZvals /\ RootArrays /\ OnFree /\ ReturnOK
    BY <1>5 DEF FrameInv
  <2>1. HeldValid'
    <3>1. \A y \in {f, g} : \A w \in Objs : Holds(y, w) => w \in valid
      BY <1>7, <1>13, <1>14 DEF Holds
    <3> QED BY <1>1, <1>16, <2>0, <3>1, HeldValidMove
  <2>2. StorageOK'
    <3>1. \A h \in 1..n : Fr(stack, h).at = "storage" => rc'[Fr(stack, h).n] = rc[Fr(stack, h).n]
      <4>1. \A h \in 1..n : Fr(stack, h).at = "storage" => Fr(stack, h).n \in Objs
        BY <1>4, StorageObjs
      <4> QED BY <1>2, <1>4, <1>9, <1>10, <4>1
    <3>2. \A y \in {f, g} : y.at \notin {"destructed", "storage"}
      BY <1>13, <1>14
    <3> QED BY <1>1, <1>16, <1>25, <2>0, <3>1, <3>2, StorageMove
  <2>3. NamedZvals'
    <3>1. \A y \in {f, g} : y.at \notin {"ptr_dtor", "root", "resume"}
      BY <1>13, <1>14
    <3> QED BY <1>1, <1>2, <1>16, <1>18, <2>0, <3>1, NamedMove
  <2>4. RootArrays'
    <3>1. \A y \in {f, g} : y.at \notin {"root", "resume"}
      BY <1>13, <1>14
    <3> QED BY <1>1, <1>16, <1>18, <2>0, <3>1, RootArraysMove
  <2>5. OnFree'
    BY <1>13, <1>14, <1>16, <1>17, <2>0, OnFreeMove
  <2>6. ReturnOK'
    <3>1. \A y \in {f, g} : y.at = "destructors" /\ y.n # 0 =>
                y.n \in called' /\ Denoting(kind, to, y.n) \cap y.list # {}
      BY <1>8, <1>13, <1>14, <1>25
    <3> QED BY <1>1, <1>16, <1>25, <2>0, <3>1, ReturnMove
  <2> QED BY <2>1, <2>2, <2>3, <2>4, <2>5, <2>6 DEF FrameInv
<1>27. DyingInv'
  <2>0. DyingHeap /\ DyingBuf /\ DyingFrames
    BY <1>5 DEF DyingInv
  <2>1. DyingHeap' /\ DyingBuf'
    BY <1>1, <1>18, <2>0 DEF DyingHeap, DyingBuf
  <2>2. \A y \in {f, g} : y.at # "free" /\ \A z \in Dying : Refers(y, z) => y.at = "resume"
    BY <1>1, <1>2, <1>13, <1>14 DEF Refers, FieldsOK
  <2>3. DyingFrames'
    BY <1>2, <1>16, <2>0, <2>2, DyingFramesMove
  <2> QED BY <2>1, <2>3 DEF DyingInv
<1>28. ListInv'
  <2>0. ListedBuf /\ Disjoint /\ Pending /\ CalledFirst
    BY <1>5 DEF ListInv
  <2>1. ListedBuf'
    BY <1>1, <1>18, <2>0 DEF ListedBuf
  <2>2. Disjoint'
    <3>1. \A h \in 1..Len(stack') : h > n /\ Fr(stack', h).list # {} =>
               h = n + 1 /\ h \in 1..Len(stack) /\ Fr(stack', h).list \subseteq Fr(stack, h).list
      BY <1>3, <1>4, <1>13, <1>14, <1>17
    <3> QED BY <1>16, <2>0, <3>1, DisjointMove
  <2>3. Pending'
    <3>2. \A w \in valid : rc'[w] = 0 => Denoting(kind, to, w) \cap Parts(stack, 4) # {}
      BY <1>10, <1>23, <2>0 DEF Pending
    <3> QED BY <1>1, <1>18, <3>2 DEF Pending
  <2>4. CalledFirst'
    <3>1. \A h \in 1..Len(stack) : Fr(stack, h).at = "destructors" =>
               /\ h \in 1..Len(stack') /\ Fr(stack', h).at = "destructors"
               /\ Fr(stack', h).list = Fr(stack, h).list
      <4>1. \A h \in 1..Len(stack) : h = n + 1 \/ (h \in 1..n /\ h \in 1..Len(stack') /\ Fr(stack', h) = Fr(stack, h))
        BY <1>3, <1>17
      <4>2. n + 1 \in 1..Len(stack')
        BY <1>17
      <4> QED BY <1>1, <1>3, <1>14, <1>17, <4>1, <4>2
    <3>2. \A y \in {f, g} : y.at # "destroy"
      BY <1>13, <1>14
    <3>3. \A z \in Listed : kind'[z] = "object" /\ to'[z] \in valid' /\ rc'[to'[z]] = 0 =>
               /\ kind[z] = "object" /\ to'[z] = to[z] /\ to[z] \in valid /\ rc[to[z]] = 0
               /\ to[z] \in called => to[z] \in called'
      <4>1. \A w \in valid : rc'[w] = 0 => rc[w] = 0
        BY <1>10, <1>23
      <4> QED BY <1>1, <1>25, <4>1
    <3>4. \A z \in Listed : kind[z] = "object" => kind'[z] = "object" /\ to'[z] = to[z]
      BY <1>1
    <3> QED BY <1>2, <1>5, <1>16, <2>0, <3>1, <3>2, <3>3, <3>4, CalledFirstMove
  <2> QED BY <2>1, <2>2, <2>3, <2>4 DEF ListInv
<1>29. SealInv'
  <2>0. SealedVars /\ SealedElems /\ SealedFrames
    BY <1>5 DEF SealInv
  <2>1. \A y \in {f, g} : ~ Sealing(y)
    BY <1>13, <1>14 DEF Sealing
  <2>2. SealedVars'
    BY <1>1, <1>2, <1>16, <2>0, <2>1, SealedVarsMove
  <2>3. \A h \in 1..Len(stack') : h > n => ~ Sealing(Fr(stack', h))
    BY <1>17, <2>1
  <2>4. SealedFrames'
    BY <1>16, <2>0, <2>3, SealedFramesMove
  <2>5. SealedElems'
    <3>0. kind' = kind /\ to' = to /\ valid' = valid /\ elems' = elems /\ Dying' = Dying
      BY <1>1, <1>18
    <3> SUFFICES ASSUME NEW h \in 1..Len(stack'), Sealing(Fr(stack', h)), NEW z \in Fr(stack', h).list,
                        NEW m \in Nodes, z \in elems'[m], m \notin Fr(stack', h).list
                 PROVE  /\ m \in valid' /\ rc'[m] = 0
                        /\ Denoting(kind', to', m) \subseteq Part(Fr(stack', h), 4) \cup Dying'
                        /\ Denoting(kind', to', m) \cap Part(Fr(stack', h), 4) # {}
      BY DEF SealedElems, Condemned, Sealing
    <3>1. h \in 1..n /\ h \in 1..Len(stack) /\ Fr(stack', h) = Fr(stack, h) /\ h # n + 1
      BY <1>4, <1>17, <2>3
    <3>2. PICK y : y = Fr(stack, h)
      OBVIOUS
    <3>3. /\ m \in valid /\ rc[m] = 0
          /\ Denoting(kind, to, m) \subseteq Part(y, 4) \cup Dying
          /\ Denoting(kind, to, m) \cap Part(y, 4) # {}
      <4>1. m \in Condemned(Fr(stack, h)) \/ GivenBack(h, m)
        BY <2>0, <3>0, <3>1 DEF SealedElems
      <4>2. ~ GivenBack(h, m)
        BY <1>1 DEF GivenBack
      <4> QED BY <3>1, <3>2, <4>1, <4>2 DEF Condemned
    <3>4. m # o
      <4>1. x \notin y.list
        <5>1. Disjoint
          BY <1>5 DEF ListInv
        <5>2. n + 1 \in 1..Len(stack)
          BY <1>4
        <5>3. Fr(stack, h).list \cap Fr(stack, n + 1).list = {}
          BY <3>1, <5>1, <5>2 DEF Disjoint
        <5>4. x \in Fr(stack, n + 1).list
          BY <1>3, <1>6
        <5> QED BY <3>2, <5>3, <5>4
      <4>2. Part(y, 4) \subseteq y.list
        <5>1. FieldsOK(y)
          BY <1>5, <3>1, <3>2 DEF Shape
        <5> QED BY <5>1 DEF FieldsOK, Part
      <4> QED BY <1>8, <3>3, <4>1, <4>2
    <3>5. rc'[m] = rc[m]
      BY <1>23, <3>3, <3>4
    <3>6. Fr(stack', h) = y
      BY <3>1, <3>2
    <3> QED BY <3>0, <3>3, <3>5, <3>6
  <2> QED BY <2>2, <2>4, <2>5 DEF SealInv
<1>30. BufInv'
  BY <1>1, <1>5 DEF BufInv
<1> QED BY <1>19, <1>20, <1>24, <1>26, <1>27, <1>28, <1>29, <1>30 DEF Inv

\* The list of a collection whose destructors have run, if none of them has
\* revived anything: nothing but what is condemned with it refers to its zvals.
LEMMA DoneSealed ==
    ASSUME IInv, Sound, Top.at = "destructors", Top.n = 0, Top.check => ~ Revived(Top.list),
           NEW z \in Top.list
    PROVE  /\ \A v \in Vars : var[v] # z
           /\ \A h \in 1..Len(stack) : ~ Refers(Fr(stack, h), z)
           /\ \A m \in Nodes : z \in elems[m] => m \in Condemned(Top)
<1>1. /\ TypeOK /\ Inv /\ stack \in Seq(Frames) /\ stack # <<>> /\ FrTypes /\ Views /\ Top \in Frames /\ FieldsOK(Top)
      /\ Objs \subseteq Nodes /\ Zvals \cap Objs = {} /\ 0 \notin Objs /\ Nodes = Zvals \cup Objs
      /\ IsFiniteSet(Nodes)
  BY Context, Sizes
<1>2. PICK n \in Nat : Len(stack) = n + 1 /\ Fr(stack, n + 1) = Top
  BY Context
<1>3. n + 1 \in 1..Len(stack) /\ \A h \in 1..Len(stack) : ~ (h > n + 1)
  BY <1>2
<1>4. /\ Shape /\ HeapInv /\ SealInv /\ elems \in [Nodes -> SUBSET Zvals] /\ rc \in [Nodes -> Nat]
      /\ to \in [Zvals -> Objs \cup {0}]
  BY <1>1 DEF TypeOK, Inv
<1>5. z \in Listed /\ z \in Zvals /\ Top.list \subseteq Zvals
  BY <1>1, <1>2, <1>3 DEF Views, Frames
<1>6. Part(Top, 4) = Top.list
  BY DEF Part
<1>7. CASE ~ Top.check
  <2>1. Sealing(Top)
    BY <1>7 DEF Sealing
  <2>2. \A v \in Vars : var[v] # z
    BY <1>2, <1>3, <1>4, <2>1 DEF SealInv, SealedVars
  <2>3. \A h \in 1..Len(stack) : ~ Refers(Fr(stack, h), z)
    BY <1>2, <1>3, <1>4, <2>1 DEF SealInv, SealedFrames
  <2>4. \A m \in Nodes : z \in elems[m] => m \in Condemned(Top) \/ GivenBack(n + 1, m)
    BY <1>2, <1>3, <1>4, <2>1 DEF SealInv, SealedElems
  <2>5. \A m : ~ GivenBack(n + 1, m)
    BY DEF GivenBack
  <2> QED BY <2>2, <2>3, <2>4, <2>5
<1>8. CASE Top.check
  <2> DEFINE K == Top.list \cup {o \in Objs : /\ Garbage(o)
                                             /\ RefsFrom(Top.list, o) > 0
                                             /\ ZvalsOf(o) \subseteq Top.list \cup Dying}
             S == {m \in K : z \in Kids(m)}
             E == {m \in Nodes : z \in elems[m]}
  <2>1. ~ (rc[z] > 1 + RefsFrom(K, z))
    BY <1>8, Zenon DEF Revived
  <2>2. \A m \in Nodes : z \in Kids(m) => z \in elems[m]
    BY <1>1, <1>4, <1>5 DEF Kids, HeapInv, KindsOK
  <2>3. K \subseteq Nodes
    BY <1>1, <1>5
  <2>4. S \subseteq E
    BY <2>2, <2>3
  <2>5. RefsFrom(K, z) = Cardinality(S)
    BY Zenon DEF RefsFrom
  <2>6. ElemRefs(elems, z) = Cardinality(E)
    BY Zenon DEF ElemRefs
  <2>7. kind[z] # "none"
    BY <1>1, <1>2, <1>3, <1>4 DEF HeapInv, FramesHold
  <2>8. rc[z] = VarRefs(var, z) + ElemRefs(elems, z) + CountIn(stack, RefFrames(z)) + 1
    BY <1>4, <1>5, <2>7 DEF HeapInv, ZvalCounts, ListRef
  <2>9. VarRefs(var, z) \in Nat /\ ElemRefs(elems, z) \in Nat /\ CountIn(stack, RefFrames(z)) \in Nat
    BY <1>2, NoneCounted
  <2>10. IsFiniteSet(E)
    <3>1. E \subseteq Nodes
      OBVIOUS
    <3> HIDE DEF E
    <3> QED BY <1>1, <3>1, FS_Subset
  <2>11. /\ Cardinality(S) \in Nat /\ Cardinality(S) <= Cardinality(E)
         /\ Cardinality(S) = Cardinality(E) => S = E
    <3> HIDE DEF S, E
    <3>1. IsFiniteSet(S) /\ Cardinality(S) <= Cardinality(E) /\ (Cardinality(S) = Cardinality(E) => S = E)
      BY <2>4, <2>10, FS_Subset
    <3>2. Cardinality(S) \in Nat
      BY <3>1, FS_CardinalityType
    <3> QED BY <3>1, <3>2
  <2>12. rc[z] \in Nat
    BY <1>1, <1>4, <1>5
  <2>13. VarRefs(var, z) = 0 /\ CountIn(stack, RefFrames(z)) = 0 /\ Cardinality(S) = Cardinality(E)
    <3> HIDE DEF S, E, K
    <3> QED BY ONLY <2>1, <2>5, <2>6, <2>8, <2>9, <2>11, <2>12
  <2>14. \A v \in Vars : var[v] # z
    BY <2>13, NoneCounted
  <2>15. \A h \in 1..Len(stack) : ~ Refers(Fr(stack, h), z)
    <3>1. \A h \in 1..Len(stack) : Fr(stack, h) \notin RefFrames(z)
      BY <1>2, <2>13, NoneCounted
    <3> QED BY <1>1, <3>1 DEF FrTypes, RefFrames
  <2>16. ASSUME NEW m \in Nodes, z \in elems[m] PROVE m \in Condemned(Top)
    <3>1. m \in K
      <4>1. m \in E
        BY <2>16
      <4>2. m \in S
        BY <2>11, <2>13, <4>1
      <4> QED BY <4>2
    <3>2. CASE m \in Top.list
      BY <3>2 DEF Condemned
    <3>3. CASE m \in Objs /\ Garbage(m) /\ RefsFrom(Top.list, m) > 0 /\ ZvalsOf(m) \subseteq Top.list \cup Dying
      <4>1. m \in valid /\ rc[m] = 0
        BY <3>3 DEF Garbage
      <4>2. Denoting(kind, to, m) \subseteq Top.list \cup Dying
        BY <3>3 DEF Denoting, ZvalsOf
      <4>3. PICK w \in Top.list : m \in Kids(w)
        <5> DEFINE W == {w \in Top.list : m \in Kids(w)}
        <5>1. Cardinality(W) > 0
          BY <3>3, Zenon DEF RefsFrom
        <5>2. W # {}
          <6> HIDE DEF W
          <6> QED BY <5>1, FS_EmptySet
        <5> QED BY <5>2
      <4>4. w \in Denoting(kind, to, m)
        <5>1. w \in Zvals /\ m \notin Zvals
          BY <1>1, <1>5, <3>3
        <5>2. elems[w] \subseteq Zvals
          BY <1>1, <1>4, <5>1
        <5> QED BY <4>3, <5>1, <5>2 DEF Kids, Denoting
      <4> QED BY <1>6, <4>1, <4>2, <4>3, <4>4 DEF Condemned
    <3> QED BY <3>1, <3>2, <3>3
  <2> QED BY <2>14, <2>15, <2>16
<1> QED BY <1>7, <1>8

LEMMA DestructorsDoneStep ==
    ASSUME IInv, Sound, DestructorsDone
    PROVE  TypeOK' /\ (Sound' => Inv')
<1>1. /\ Top.at = "destructors" /\ Top.n = 0
      /\ \A z \in Top.list : ~ (kind[z] = "object" /\ Garbage(to[z]) /\ to[z] \notin called)
      /\ stack' = <<[Top EXCEPT !.at = "destroy", !.todo = Top.list]>> \o Tail(stack)
      /\ kind' = kind /\ to' = to /\ elems' = elems /\ rc' = rc /\ valid' = valid /\ called' = called /\ var' = var
      /\ buf' = buf /\ addr' = addr /\ purple' = purple /\ steps' = steps /\ lost' = lost
  BY Zenon DEF DestructorsDone, At, This, Replace, buffer, heap
<1>2. /\ TypeOK /\ Inv /\ stack \in Seq(Frames) /\ stack # <<>> /\ FrTypes /\ Views /\ Top \in Frames /\ FieldsOK(Top)
      /\ Objs \subseteq Nodes /\ Zvals \cap Objs = {} /\ 0 \notin Objs
  BY Context, Sizes
<1>3. PICK n \in Nat : Len(stack) = n + 1 /\ Fr(stack, n + 1) = Top /\ Len(stack) - 1 = n /\ n >= 1
  BY <1>1, Context
<1>4. n + 1 \in 1..Len(stack) /\ \A h \in 1..n : h \in 1..Len(stack) /\ h # n + 1 /\ ~ (h > n)
  BY <1>3
<1>5. /\ rc \in [Nodes -> Nat] /\ valid \subseteq Objs
      /\ Shape /\ HeapInv /\ FrameInv /\ DyingInv /\ ListInv /\ SealInv /\ BufInv
  BY <1>2 DEF TypeOK, Inv
<1>6. Sound' => (Top.check => ~ Revived(Top.list))
  BY Zenon DEF DestructorsDone, Sound
<1>7. Top.z = 0 /\ Top.todo = {} /\ Top.list \subseteq Zvals
  BY <1>1, <1>2 DEF FieldsOK, Frames
<1>8. PICK f : f = [Top EXCEPT !.at = "destroy", !.todo = Top.list]
  OBVIOUS
<1>9. f \in Frames /\ f.at = "destroy" /\ f.n = 0 /\ f.z = 0 /\ f.todo = Top.list /\ f.list = Top.list
  <2>1. "destroy" \in Labels /\ Top.list \in SUBSET Zvals /\ Top.n = 0 /\ Top.z = 0
    BY <1>1, <1>7 DEF Labels
  <2> QED BY ONLY <1>2, <1>8, <2>1 DEF Frames
<1>10. stack' \in Seq(Frames) /\ stack' # <<>> /\ Replaced(stack, stack', f)
  BY <1>1, <1>2, <1>8, <1>9, FrReplace
<1>11. Moves(stack, stack', n, {f})
  BY <1>2, <1>3, <1>10, AllMoves
<1>12. /\ Len(stack') = n + 1 /\ Fr(stack', n + 1) = f /\ n + 1 \in 1..Len(stack')
       /\ \A h \in 1..n : h \in 1..Len(stack') /\ Fr(stack', h) = Fr(stack, h)
       /\ \A h \in 1..Len(stack') : h \in 1..n \/ h = n + 1
       /\ \A h \in 1..Len(stack') : h > n => h = n + 1
  BY <1>3, <1>10 DEF Replaced, Kept
<1>13. /\ Listed' = Listed /\ Dying' = Dying /\ Parts(stack', 3) = Parts(stack, 3) /\ Parts(stack', 4) = Parts(stack, 4)
  <2>1. \A i \in 1..4 : Part(f, i) = Part(Top, i)
    BY <1>1, <1>9 DEF Part
  <2>2. ASSUME NEW i \in 1..4 PROVE Parts(stack', i) = Parts(stack, i)
    <3>1. /\ Parts(stack, i) = Below(stack, i) \cup Part(stack[1], i)
          /\ Parts(stack', i) = Below(stack, i) \cup Part(f, i)
      BY <1>2, <1>10, PartChanges
    <3>2. Part(stack[1], i) = Part(f, i)
      BY <2>1, Context
    <3> QED BY <3>1, <3>2
  <2> QED BY <1>2, <1>10, <2>2, StackViews, NextViews
<1>14. TypeOK'
  <2>1. UNCHANGED <<kind, to, elems, rc, valid, called, var, buf, addr, purple, steps, lost>>
    BY <1>1
  <2> QED BY ONLY <1>2, <1>10, <2>1 DEF TypeOK
<1>15. Shape'
  <2>1. FieldsOK(f)
    BY <1>9 DEF FieldsOK
  <2> QED BY <1>1, <1>3, <1>5, <1>9, <1>10, <2>1, ShapeSteps
<1>16. /\ \A y : ~ Refers(f, y) /\ ~ Refers(Top, y)
       /\ \A y \in Objs : ~ Holds(f, y) /\ ~ Holds(Top, y)
  BY <1>1, <1>2, <1>7, <1>9 DEF Refers, Holds, HoldLabels
<1>17. /\ \A y : CountIn(stack', RefFrames(y)) = CountIn(stack, RefFrames(y))
       /\ \A y \in Objs : CountIn(stack', HoldFrames(y)) = CountIn(stack, HoldFrames(y))
  <2>1. ASSUME NEW F, f \notin F, Top \notin F PROVE CountIn(stack', F) = CountIn(stack, F)
    <3>1. Bit(Top, F) = 0 /\ Bit(f, F) = 0
      BY <2>1 DEF Bit
    <3>2. CountIn(stack, F) \in Nat /\ CountIn(stack', F) = CountIn(stack, F) - Bit(Top, F) + Bit(f, F)
      BY <1>2, <1>10, Counts
    <3> QED BY <3>1, <3>2
  <2>2. ASSUME NEW y PROVE CountIn(stack', RefFrames(y)) = CountIn(stack, RefFrames(y))
    <3>1. f \notin RefFrames(y) /\ Top \notin RefFrames(y)
      BY <1>16 DEF RefFrames
    <3> QED BY <2>1, <3>1
  <2>3. ASSUME NEW y \in Objs PROVE CountIn(stack', HoldFrames(y)) = CountIn(stack, HoldFrames(y))
    <3>1. f \notin HoldFrames(y) /\ Top \notin HoldFrames(y)
      BY <1>16 DEF HoldFrames
    <3> QED BY <2>1, <3>1
  <2> QED BY <2>2, <2>3
<1>18. HeapInv'
  <2>0. KindsOK /\ NullsOK /\ ZvalCounts /\ ObjCounts /\ VarsHold /\ ElemsHold /\ FramesHold /\ ZvalsHold
    BY <1>5 DEF HeapInv
  <2>1. KindsOK' /\ VarsHold' /\ ElemsHold' /\ NullsOK' /\ ZvalsHold'
    BY <1>1, <1>13, <2>0 DEF KindsOK, VarsHold, ElemsHold, NullsOK, ZvalsHold
  <2>2. ZvalCounts'
    BY <1>1, <1>13, <1>17, <2>0 DEF ZvalCounts, ListRef
  <2>3. ObjCounts'
    BY <1>1, <1>5, <1>13, <1>17, <2>0 DEF ObjCounts, Counted
  <2>4. FramesHold'
    <3>1. \A y \in {f} : \A e \in y.todo \cup y.list : kind[e] # "none"
      BY <1>3, <1>4, <1>9, <2>0 DEF FramesHold
    <3> QED BY <1>1, <1>2, <1>11, <2>0, <3>1, FramesHoldMove
  <2> QED BY <2>1, <2>2, <2>3, <2>4 DEF HeapInv
<1>19. FrameInv'
  <2>0. HeldValid /\ StorageOK /\ NamedZvals /\ RootArrays /\ OnFree /\ ReturnOK
    BY <1>5 DEF FrameInv
  <2>1. HeldValid'
    BY <1>1, <1>11, <1>16, <2>0, HeldValidMove
  <2>2. \A y \in {f} : y.at \notin {"destructed", "storage", "ptr_dtor", "root", "resume", "destructors", "del_ref"}
    BY <1>9
  <2>3. StorageOK'
    BY <1>1, <1>11, <2>0, <2>2, StorageMove
  <2>4. NamedZvals'
    BY <1>1, <1>2, <1>11, <1>13, <2>0, <2>2, NamedMove
  <2>5. RootArrays'
    BY <1>1, <1>11, <1>13, <2>0, <2>2, RootArraysMove
  <2>6. OnFree'
    BY <1>9, <1>11, <1>12, <2>0, OnFreeMove
  <2>7. ReturnOK'
    BY <1>1, <1>11, <2>0, <2>2, ReturnMove
  <2> QED BY <2>1, <2>3, <2>4, <2>5, <2>6, <2>7 DEF FrameInv
<1>20. DyingInv'
  <2>0. DyingHeap /\ DyingBuf /\ DyingFrames
    BY <1>5 DEF DyingInv
  <2>1. DyingHeap' /\ DyingBuf'
    BY <1>1, <1>13, <2>0 DEF DyingHeap, DyingBuf
  <2>2. \A y \in {f} : y.at # "free" /\ \A z \in Dying : Refers(y, z) => y.at = "resume"
    BY <1>9, <1>16
  <2>3. DyingFrames'
    BY <1>2, <1>11, <2>0, <2>2, DyingFramesMove
  <2> QED BY <2>1, <2>3 DEF DyingInv
<1>21. ListInv'
  <2>0. ListedBuf /\ Disjoint /\ Pending /\ CalledFirst
    BY <1>5 DEF ListInv
  <2>1. ListedBuf' /\ Pending'
    BY <1>1, <1>13, <2>0 DEF ListedBuf, Pending
  <2>2. Disjoint'
    <3>1. \A h \in 1..Len(stack') : h > n /\ Fr(stack', h).list # {} =>
               h = n + 1 /\ h \in 1..Len(stack) /\ Fr(stack', h).list \subseteq Fr(stack, h).list
      BY <1>3, <1>4, <1>9, <1>12
    <3> QED BY <1>11, <2>0, <3>1, DisjointMove
  <2>3. CalledFirst'
    <3>0. kind' = kind /\ to' = to /\ valid' = valid /\ called' = called /\ rc' = rc
      BY <1>1
    <3> SUFFICES ASSUME NEW h \in 1..Len(stack'), Fr(stack', h).at = "destroy", NEW z \in Fr(stack', h).todo,
                        kind[z] = "object", Garbage(to[z])
                 PROVE  \/ to[z] \in called
                        \/ \E j \in h + 1..Len(stack') : /\ Fr(stack', j).at = "destructors"
                                                         /\ Denoting(kind, to, to[z]) \cap Fr(stack', j).list # {}
      BY <3>0 DEF CalledFirst, Garbage
    <3>1. CASE h = n + 1
      BY <1>1, <1>9, <1>12, <3>1
    <3>2. CASE h \in 1..n
      <4>1. h \in 1..Len(stack) /\ Fr(stack', h) = Fr(stack, h)
        BY <1>4, <1>12, <3>2
      <4>2. \/ to[z] \in called
            \/ \E j \in h + 1..Len(stack) : /\ Fr(stack, j).at = "destructors"
                                            /\ Denoting(kind, to, to[z]) \cap Fr(stack, j).list # {}
        BY <2>0, <4>1 DEF CalledFirst
      <4>3. ASSUME NEW j \in h + 1..Len(stack), Fr(stack, j).at = "destructors",
                   Denoting(kind, to, to[z]) \cap Fr(stack, j).list # {}
            PROVE  \/ to[z] \in called
                   \/ j \in h + 1..Len(stack') /\ Fr(stack', j) = Fr(stack, j)
        <5>1. CASE j = n + 1
          <6>1. PICK y \in Top.list : y \in Denoting(kind, to, to[z])
            BY <1>3, <4>3, <5>1
          <6> QED BY <1>1, <6>1 DEF Denoting
        <5>2. CASE j # n + 1
          <6>1. j \in 1..n /\ j \in h + 1..Len(stack')
            BY <1>3, <1>12, <3>2, <5>2
          <6> QED BY <1>12, <6>1
        <5> QED BY <5>1, <5>2
      <4> QED BY <4>2, <4>3
    <3> QED BY <1>12, <3>1, <3>2
  <2> QED BY <2>1, <2>2, <2>3 DEF ListInv
<1>22. ASSUME Sound' PROVE SealInv'
  <2>0. SealedVars /\ SealedElems /\ SealedFrames
    BY <1>5 DEF SealInv
  <2>1. \A z \in Top.list :
           /\ \A v \in Vars : var[v] # z
           /\ \A h \in 1..Len(stack) : ~ Refers(Fr(stack, h), z)
           /\ \A m \in Nodes : z \in elems[m] => m \in Condemned(Top)
    BY <1>1, <1>6, <1>22, DoneSealed
  <2>2. SealedVars'
    BY <1>1, <1>2, <1>9, <1>11, <2>0, <2>1, SealedVarsMove
  <2>3. SealedFrames'
    <3>1. \A h \in 1..Len(stack') : h > n /\ Sealing(Fr(stack', h)) =>
               \A z \in Fr(stack', h).list, j \in 1..Len(stack') : Refers(Fr(stack', j), z) => j > h
      <4>1. \A j \in 1..Len(stack') : \A z \in Top.list : ~ Refers(Fr(stack', j), z)
        BY <1>4, <1>12, <1>16, <2>1
      <4> QED BY <1>9, <1>12, <4>1
    <3> QED BY <1>11, <2>0, <3>1, SealedFramesMove
  <2>4. SealedElems'
    <3>0. kind' = kind /\ to' = to /\ valid' = valid /\ elems' = elems /\ rc' = rc /\ Dying' = Dying
      BY <1>1, <1>13
    <3> SUFFICES ASSUME NEW h \in 1..Len(stack'), Sealing(Fr(stack', h)), NEW z \in Fr(stack', h).list,
                        NEW m \in Nodes, z \in elems'[m], m \notin Fr(stack', h).list
                 PROVE  /\ m \in valid' /\ rc'[m] = 0
                        /\ Denoting(kind', to', m) \subseteq Part(Fr(stack', h), 4) \cup Dying'
                        /\ Denoting(kind', to', m) \cap Part(Fr(stack', h), 4) # {}
      BY DEF SealedElems, Condemned, Sealing
    <3>1. CASE h = n + 1
      <4>1. z \in Top.list /\ m \notin Top.list /\ Part(Fr(stack', h), 4) = Part(Top, 4)
        BY <1>1, <1>9, <1>12, <3>1 DEF Part
      <4>2. m \in Condemned(Top)
        BY <2>1, <3>0, <4>1
      <4> QED BY <3>0, <4>1, <4>2 DEF Condemned
    <3>2. CASE h \in 1..n
      <4>1. h \in 1..Len(stack) /\ Fr(stack', h) = Fr(stack, h)
        BY <1>4, <1>12, <3>2
      <4>2. m \in Condemned(Fr(stack, h)) \/ GivenBack(h, m)
        BY <2>0, <3>0, <4>1 DEF SealedElems
      <4>3. ~ GivenBack(h, m)
        BY <1>1 DEF GivenBack
      <4> QED BY <3>0, <4>1, <4>2, <4>3 DEF Condemned
    <3> QED BY <1>12, <3>1, <3>2
  <2> QED BY <2>2, <2>3, <2>4 DEF SealInv
<1>23. BufInv'
  BY <1>1, <1>5 DEF BufInv
<1> QED BY <1>14, <1>15, <1>18, <1>19, <1>20, <1>21, <1>22, <1>23 DEF Inv

\* Nothing refers to the zvals of a list whose last zval has been destroyed.
LEMMA ListSealed ==
    ASSUME IInv, Sound, Top.at = "destroy", Top.todo = {}, NEW z \in Top.list
    PROVE  /\ z \in Zvals /\ z \in Listed /\ kind[z] # "array" /\ elems[z] = {}
           /\ \A v \in Vars : var[v] # z
           /\ \A h \in 1..Len(stack) : ~ Refers(Fr(stack, h), z)
           /\ \A m \in Nodes : z \notin elems[m]
           /\ addr[z] = 0 /\ \A e \in Entries : buf[e] # z
<1>1. /\ TypeOK /\ Inv /\ stack \in Seq(Frames) /\ FrTypes /\ Views /\ Top \in Frames
      /\ 0 \notin Entries
  BY Context, Sizes
<1>2. PICK n \in Nat : Len(stack) = n + 1 /\ Fr(stack, n + 1) = Top
  BY Context
<1>3. n + 1 \in 1..Len(stack) /\ \A h \in 1..Len(stack) : ~ (h > n + 1)
  BY <1>2
<1>4. Shape /\ HeapInv /\ SealInv /\ ListInv /\ BufInv
  BY <1>1 DEF Inv
<1>5. z \in Listed /\ z \in Zvals /\ Top.list \subseteq Zvals
  BY <1>1, <1>2, <1>3 DEF Views, Frames
<1>6. Part(Top, 4) = {} /\ Part(Top, 3) = Top.list
  BY DEF Part
<1>7. \A y \in Top.list : y \in Zvals /\ kind[y] # "array" /\ elems[y] = {}
  <2>1. ASSUME NEW y \in Top.list PROVE y \in Parts(stack, 3)
    BY <1>2, <1>3, <1>6, PartMember
  <2> QED BY <1>4, <1>5, <2>1 DEF HeapInv, NullsOK, KindsOK
<1>8. Sealing(Top)
  BY DEF Sealing
<1>9. \A v \in Vars : var[v] # z
  BY <1>2, <1>3, <1>4, <1>8 DEF SealInv, SealedVars
<1>10. \A h \in 1..Len(stack) : ~ Refers(Fr(stack, h), z)
  BY <1>2, <1>3, <1>4, <1>8 DEF SealInv, SealedFrames
<1>11. ASSUME NEW m \in Nodes, z \in elems[m] PROVE FALSE
  <2>1. m \in Condemned(Top) \/ GivenBack(n + 1, m)
    BY <1>2, <1>3, <1>4, <1>8, <1>11 DEF SealInv, SealedElems
  <2>2. ~ GivenBack(n + 1, m)
    BY DEF GivenBack
  <2>3. m \in Top.list
    BY <1>6, <2>1, <2>2 DEF Condemned
  <2> QED BY <1>7, <1>11, <2>3
<1>12. addr[z] = 0
  BY <1>4, <1>5 DEF ListInv, ListedBuf
<1>13. \A e \in Entries : buf[e] # z
  BY <1>1, <1>4, <1>5, <1>12 DEF BufInv
<1> QED BY <1>5, <1>7, <1>9, <1>10, <1>11, <1>12, <1>13

LEMMA FreeListStep ==
    ASSUME IInv, Sound, FreeList
    PROVE  TypeOK' /\ (Sound' => Inv')
<1>1. /\ Top.at = "destroy" /\ Top.todo = {}
      /\ kind' = [z \in Zvals |-> IF z \in Top.list THEN "none" ELSE kind[z]]
      /\ to' = [z \in Zvals |-> IF z \in Top.list THEN 0 ELSE to[z]]
      /\ rc' = [m \in Nodes |-> IF m \in Top.list THEN 0 ELSE rc[m]]
      /\ stack' = Tail(stack)
      /\ elems' = elems /\ valid' = valid /\ called' = called /\ var' = var
      /\ buf' = buf /\ addr' = addr /\ purple' = purple /\ steps' = steps /\ lost' = lost
  BY DEF FreeList, At, Return, buffer, ghosts
<1>2. /\ TypeOK /\ Inv /\ stack \in Seq(Frames) /\ stack # <<>> /\ FrTypes /\ Views /\ Top \in Frames /\ FieldsOK(Top)
      /\ Objs \subseteq Nodes /\ Zvals \subseteq Nodes /\ Zvals \cap Objs = {} /\ 0 \notin Objs /\ 0 \notin Zvals
  BY Context, Sizes
<1>3. PICK n \in Nat : Len(stack) = n + 1 /\ Fr(stack, n + 1) = Top /\ Len(stack) - 1 = n /\ n >= 1
  BY <1>1, Context
<1>4. n + 1 \in 1..Len(stack) /\ \A h \in 1..n : h \in 1..Len(stack) /\ h # n + 1 /\ ~ (h > n)
  BY <1>3
<1>5. /\ kind \in [Zvals -> {"none", "array", "object", "null"}] /\ to \in [Zvals -> Objs \cup {0}]
      /\ elems \in [Nodes -> SUBSET Zvals] /\ rc \in [Nodes -> Nat] /\ valid \subseteq Objs
      /\ buf \in [Entries -> Nodes \cup {0}]
      /\ Shape /\ HeapInv /\ FrameInv /\ DyingInv /\ ListInv /\ SealInv /\ BufInv
  BY <1>2 DEF TypeOK, Inv
<1>6. PICK L : L = Top.list
  OBVIOUS
<1>7. \A z \in L : /\ z \in Zvals /\ z \in Listed /\ kind[z] # "array" /\ elems[z] = {}
                   /\ \A v \in Vars : var[v] # z
                   /\ \A h \in 1..Len(stack) : ~ Refers(Fr(stack, h), z)
                   /\ \A m \in Nodes : z \notin elems[m]
                   /\ \A e \in Entries : buf[e] # z
  BY <1>1, <1>6, ListSealed
<1>8. /\ \A z \in L : kind'[z] = "none"
      /\ \A z \in Zvals : z \notin L => kind'[z] = kind[z] /\ to'[z] = to[z] /\ rc'[z] = rc[z]
      /\ \A o \in Objs : rc'[o] = rc[o]
  BY <1>1, <1>2, <1>6, <1>7
<1>9. stack' \in Seq(Frames) /\ Popped(stack, stack') /\ stack' # <<>>
  <2>1. stack' \in Seq(Frames) /\ Popped(stack, stack')
    BY <1>1, <1>2, FrTail
  <2>2. Len(stack') = n
    BY <1>3, <2>1 DEF Popped
  <2> QED BY <1>3, <2>1, <2>2
<1>10. Moves(stack, stack', n, {})
  BY <1>2, <1>3, <1>9, AllMoves
<1>11. Len(stack') = n /\ \A h \in 1..n : h \in 1..Len(stack') /\ Fr(stack', h) = Fr(stack, h)
  BY <1>3, <1>9 DEF Popped, Kept
<1>12. \A h \in 1..n : Fr(stack, h).list \cap L = {}
  BY <1>3, <1>4, <1>5, <1>6 DEF ListInv, Disjoint
<1>13. \A h \in 1..n, i \in {1, 3, 4} : Part(Fr(stack, h), i) \subseteq Fr(stack, h).list
  <2>1. \A h \in 1..n : FieldsOK(Fr(stack, h))
    BY <1>4, <1>5 DEF Shape
  <2> QED BY <2>1 DEF FieldsOK, Part
<1>14. /\ Listed' = Listed \ L /\ Dying' = Dying
       /\ Parts(stack', 3) = Parts(stack, 3) \ L /\ Parts(stack', 4) = Parts(stack, 4)
       /\ Parts(stack, 4) \cap L = {}
  <2>1. Part(Top, 1) = L /\ Part(Top, 2) = {} /\ Part(Top, 3) = L /\ Part(Top, 4) = {}
    BY <1>1, <1>6 DEF Part
  <2>2. ASSUME NEW i \in 1..4
        PROVE  Parts(stack, i) = Parts(stack', i) \cup Part(Top, i)
    <3>1. /\ Parts(stack, i) = Below(stack, i) \cup Part(stack[1], i)
          /\ Parts(stack', i) = Below(stack, i)
      BY <1>2, <1>9, PartChanges
    <3> QED BY <3>1, Context
  <2>3. ASSUME NEW i \in {1, 3, 4}
        PROVE  Parts(stack', i) \cap L = {}
    <3> SUFFICES ASSUME NEW x \in Parts(stack', i), x \in L PROVE FALSE
      OBVIOUS
    <3>1. PICK h \in 1..Len(stack') : x \in Part(Fr(stack', h), i)
      BY PartMember
    <3>2. h \in 1..n /\ x \in Part(Fr(stack, h), i)
      BY <1>11, <3>1
    <3> QED BY <1>12, <1>13, <3>2
  <2>4. Listed = Parts(stack, 1) /\ Dying = Parts(stack, 2) /\ Listed' = Parts(stack', 1) /\ Dying' = Parts(stack', 2)
    BY <1>2, <1>9, StackViews, NextViews
  <2> QED BY <2>1, <2>2, <2>3, <2>4
<1>15. TypeOK'
  <2>1. UNCHANGED <<elems, valid, called, var, buf, addr, purple, steps, lost>>
    BY <1>1
  <2>2. kind' \in [Zvals -> {"none", "array", "object", "null"}] /\ to' \in [Zvals -> Objs \cup {0}]
    BY <1>1, <1>5
  <2>3. rc' \in [Nodes -> Nat]
    BY <1>1, <1>5
  <2> QED BY ONLY <1>2, <1>9, <2>1, <2>2, <2>3 DEF TypeOK
<1>16. Shape'
  BY <1>1, <1>3, <1>5, <1>9, ShapeSteps
<1>17. /\ \A y : ~ Refers(Top, y)
       /\ \A y \in Objs : ~ Holds(Top, y)
  BY <1>1, <1>2 DEF Refers, Holds, HoldLabels, FieldsOK
<1>18. /\ \A y : CountIn(stack', RefFrames(y)) = CountIn(stack, RefFrames(y))
       /\ \A y \in Objs : CountIn(stack', HoldFrames(y)) = CountIn(stack, HoldFrames(y))
  <2>1. ASSUME NEW F, Top \notin F PROVE CountIn(stack', F) = CountIn(stack, F)
    <3>1. Bit(Top, F) = 0
      BY <2>1 DEF Bit
    <3>2. CountIn(stack, F) \in Nat /\ CountIn(stack', F) = CountIn(stack, F) - Bit(Top, F)
      BY <1>2, <1>9, Counts
    <3> QED BY <3>1, <3>2
  <2>2. ASSUME NEW y PROVE CountIn(stack', RefFrames(y)) = CountIn(stack, RefFrames(y))
    <3>1. Top \notin RefFrames(y)
      BY <1>17 DEF RefFrames
    <3> QED BY <2>1, <3>1
  <2>3. ASSUME NEW y \in Objs PROVE CountIn(stack', HoldFrames(y)) = CountIn(stack, HoldFrames(y))
    <3>1. Top \notin HoldFrames(y)
      BY <1>17 DEF HoldFrames
    <3> QED BY <2>1, <3>1
  <2> QED BY <2>2, <2>3
<1>19. \A o : o \in Objs => Denoting(kind', to', o) = Denoting(kind, to, o) \ L
  BY <1>2, <1>7, <1>8 DEF Denoting
<1>20. HeapInv'
  <2>0. KindsOK /\ NullsOK /\ ZvalCounts /\ ObjCounts /\ VarsHold /\ ElemsHold /\ FramesHold /\ ZvalsHold
    BY <1>5 DEF HeapInv
  <2>1. KindsOK'
    <3>1. \A z \in Zvals : kind'[z] # "array" => elems'[z] = {}
      BY <1>1, <1>7, <1>8, <2>0 DEF KindsOK
    <3>2. \A z \in Zvals : kind'[z] = "object" => to'[z] \in Objs
      BY <1>8, <2>0 DEF KindsOK
    <3>3. \A o \in Objs \ valid' : rc'[o] = 0 /\ elems'[o] = {}
      BY <1>1, <1>8, <2>0 DEF KindsOK
    <3> QED BY <3>1, <3>2, <3>3 DEF KindsOK
  <2>2. NullsOK'
    <3>1. \A z \in Zvals : kind'[z] = "null" => z \in Parts(stack', 3)
      BY <1>8, <1>14, <2>0 DEF NullsOK
    <3>2. \A z \in Parts(stack', 3) : kind'[z] # "array"
      <4>1. Parts(stack, 3) \subseteq Zvals
        BY PartsListed, ListTypes
      <4> QED BY <1>8, <1>14, <2>0, <4>1 DEF NullsOK
    <3> QED BY <3>1, <3>2 DEF NullsOK
  <2>3. ZvalCounts'
    <3>1. \A z \in Zvals : kind'[z] # "none" => z \notin L /\ kind[z] # "none" /\ rc'[z] = rc[z]
      BY <1>8
    <3>2. \A z \in Zvals : z \notin L => ((z \in Listed') <=> (z \in Listed))
      BY <1>14
    <3> QED BY <1>1, <1>18, <2>0, <3>1, <3>2 DEF ZvalCounts, ListRef
  <2>4. ObjCounts'
    <3>1. L \subseteq Listed
      BY <1>7
    <3>2. ASSUME NEW o \in Objs PROVE Counted(o)' = Counted(o)
      BY <1>14, <1>19, <3>1 DEF Counted
    <3> QED BY <1>1, <1>5, <1>8, <1>18, <2>0, <3>2 DEF ObjCounts
  <2>5. VarsHold'
    <3>1. \A v \in Vars : var[v] # 0 => var[v] \in Zvals /\ var[v] \notin L
      BY <1>2, <1>7 DEF TypeOK
    <3> QED BY <1>1, <1>8, <2>0, <3>1 DEF VarsHold
  <2>6. ElemsHold'
    <3>1. \A m \in Nodes : \A e \in elems[m] : e \in Zvals /\ e \notin L
      BY <1>5, <1>7
    <3> QED BY <1>1, <1>8, <2>0, <3>1 DEF ElemsHold
  <2>7. FramesHold'
    <3>1. ASSUME NEW h \in 1..n, NEW e \in Fr(stack, h).todo \cup Fr(stack, h).list
          PROVE  e \in Zvals /\ e \notin L
      <4>1. h \in 1..Len(stack) /\ FieldsOK(Fr(stack, h)) /\ Fr(stack, h) \in Frames
        BY <1>2, <1>4, <1>5 DEF Shape, FrTypes
      <4>2. e \in Zvals
        BY <4>1 DEF Frames
      <4>3. CASE e \in Fr(stack, h).list
        BY <1>12, <4>2, <4>3
      <4>4. CASE e \notin Fr(stack, h).list
        <5>1. Refers(Fr(stack, h), e)
          BY <4>1, <4>4 DEF FieldsOK, Refers
        <5> QED BY <1>7, <4>1, <4>2, <5>1
      <4> QED BY <4>3, <4>4
    <3>2. \A h \in 1..Len(stack') : h \in 1..n /\ h \in 1..Len(stack) /\ Fr(stack', h) = Fr(stack, h)
      BY <1>4, <1>11
    <3> QED BY <1>8, <2>0, <3>1, <3>2 DEF FramesHold
  <2>8. ZvalsHold'
    <3>1. \A z \in Zvals \ (Listed' \cup Dying') : kind'[z] = "object" => z \notin L /\ z \notin Listed /\ z \notin Dying
      BY <1>8, <1>14
    <3> QED BY <1>1, <1>8, <2>0, <3>1 DEF ZvalsHold
  <2> QED BY <2>1, <2>2, <2>3, <2>4, <2>5, <2>6, <2>7, <2>8 DEF HeapInv
<1>21. ASSUME NEW h \in 1..n, Fr(stack, h).at \in {"ptr_dtor", "root", "resume"}
       PROVE  /\ Fr(stack, h).at = "resume" /\ Fr(stack, h).z \notin L
              /\ Fr(stack, h).n \in Zvals => Fr(stack, h).n \notin L
  <2>1. h \in 1..Len(stack) - 1 /\ h \in 1..Len(stack) /\ Fr(stack, h) \in Frames
    BY <1>2, <1>3, <1>4 DEF FrTypes
  <2>2. Calls(Fr(stack, h)) /\ FieldsOK(Fr(stack, h))
    BY <1>5, <2>1 DEF Shape
  <2>3. Fr(stack, h).at = "resume"
    BY <1>21, <2>2 DEF Calls, TopLabels
  <2>4. Fr(stack, h).z # 0 => Fr(stack, h).z \notin Listed
    BY <1>5, <2>1, <2>3 DEF FrameInv, NamedZvals
  <2>5. Fr(stack, h).z \notin L
    BY <1>2, <1>7, <2>4
  <2>6. Fr(stack, h).n \in Zvals => Fr(stack, h).n = Fr(stack, h).z
    BY <2>2, <2>3 DEF FieldsOK
  <2> QED BY <2>3, <2>5, <2>6
<1>22. FrameInv'
  <2>0. HeldValid /\ StorageOK /\ NamedZvals /\ RootArrays /\ OnFree /\ ReturnOK
    BY <1>5 DEF FrameInv
  <2>1. HeldValid'
    BY <1>1, <1>10, <2>0, HeldValidMove
  <2>2. StorageOK'
    <3>1. \A h \in 1..n : Fr(stack, h).at = "storage" => rc'[Fr(stack, h).n] = rc[Fr(stack, h).n]
      BY <1>4, <1>8, StorageObjs
    <3> QED BY <1>1, <1>10, <2>0, <3>1, StorageMove
  <2>3. \A h \in 1..Len(stack') : h \in 1..n /\ h \in 1..Len(stack) /\ Fr(stack', h) = Fr(stack, h)
    BY <1>4, <1>11
  <2>4. NamedZvals'
    <3>1. \A h \in 1..n : Fr(stack, h).z # 0 => Fr(stack, h).z \in Zvals
      BY <1>2, <1>4 DEF FrTypes, Frames
    <3> QED BY <1>8, <1>14, <1>21, <2>0, <2>3, <3>1 DEF NamedZvals
  <2>5. RootArrays'
    BY <1>8, <1>14, <1>21, <2>0, <2>3 DEF RootArrays
  <2>6. OnFree'
    BY <1>10, <1>11, <2>0, OnFreeMove
  <2>7. ReturnOK'
    <3>1. \A h \in 1..n : Fr(stack, h).at = "destructors" /\ Fr(stack, h).n # 0 =>
               Denoting(kind, to, Fr(stack, h).n) \cap Fr(stack, h).list \subseteq Denoting(kind', to', Fr(stack, h).n)
      <4>1. ASSUME NEW h \in 1..n, Fr(stack, h).at = "destructors", Fr(stack, h).n # 0
            PROVE  Fr(stack, h).n \in Objs
        BY <1>4, <1>5, <4>1 DEF Shape, FieldsOK
      <4> QED BY <1>12, <1>19, <4>1
    <3> QED BY <1>1, <1>10, <2>0, <3>1, ReturnMove
  <2> QED BY <2>1, <2>2, <2>4, <2>5, <2>6, <2>7 DEF FrameInv
<1>23. DyingInv'
  <2>0. DyingHeap /\ DyingBuf /\ DyingFrames
    BY <1>5 DEF DyingInv
  <2>1. \A z \in Dying : z \in Zvals /\ z \notin L
    BY <1>7, <2>0 DEF DyingHeap
  <2>2. DyingHeap' /\ DyingBuf'
    BY <1>1, <1>8, <1>14, <2>0, <2>1 DEF DyingHeap, DyingBuf
  <2>3. DyingFrames'
    BY <1>2, <1>10, <2>0, DyingFramesMove
  <2> QED BY <2>2, <2>3 DEF DyingInv
<1>24. ListInv'
  <2>0. ListedBuf /\ Disjoint /\ Pending /\ CalledFirst
    BY <1>5 DEF ListInv
  <2>1. ListedBuf'
    BY <1>1, <1>14, <2>0 DEF ListedBuf
  <2>2. Disjoint'
    <3>1. \A h \in 1..Len(stack') : ~ (h > n)
      BY <1>11
    <3> QED BY <1>10, <2>0, <3>1, DisjointMove
  <2>3. Pending'
    <3> SUFFICES ASSUME NEW o \in valid', rc'[o] = 0
                 PROVE  Denoting(kind', to', o) \cap Parts(stack', 4) # {}
      BY DEF Pending
    <3>1. o \in Objs /\ o \in valid /\ rc[o] = 0
      BY <1>1, <1>5, <1>8
    <3>2. Denoting(kind, to, o) \cap Parts(stack, 4) # {}
      BY <2>0, <3>1 DEF Pending
    <3> QED BY <1>14, <1>19, <3>1, <3>2
  <2>4. CalledFirst'
    <3> SUFFICES ASSUME NEW h \in 1..Len(stack'), Fr(stack', h).at = "destroy", NEW z \in Fr(stack', h).todo,
                        kind'[z] = "object", to'[z] \in valid', rc'[to'[z]] = 0
                 PROVE  \/ to'[z] \in called'
                        \/ \E j \in h + 1..Len(stack') : /\ Fr(stack', j).at = "destructors"
                                                         /\ Denoting(kind', to', to'[z]) \cap Fr(stack', j).list # {}
      BY DEF CalledFirst, Garbage
    <3>1. h \in 1..n /\ h \in 1..Len(stack) /\ Fr(stack', h) = Fr(stack, h) /\ FieldsOK(Fr(stack, h))
          /\ Fr(stack, h) \in Frames
      BY <1>2, <1>4, <1>5, <1>11 DEF Shape, FrTypes
    <3>2. z \in Zvals /\ z \notin L
      BY <1>12, <3>1 DEF FieldsOK, Frames
    <3>3. kind[z] = "object" /\ to'[z] = to[z] /\ to[z] \in Objs /\ to[z] \in valid /\ rc[to[z]] = 0
      BY <1>1, <1>5, <1>8, <3>2
    <3>4. \/ to[z] \in called
          \/ \E j \in h + 1..Len(stack) : /\ Fr(stack, j).at = "destructors"
                                          /\ Denoting(kind, to, to[z]) \cap Fr(stack, j).list # {}
      BY <2>0, <3>1, <3>3 DEF CalledFirst, Garbage
    <3>5. ASSUME NEW j \in h + 1..Len(stack), Fr(stack, j).at = "destructors",
                 Denoting(kind, to, to[z]) \cap Fr(stack, j).list # {}
          PROVE  /\ j \in h + 1..Len(stack') /\ Fr(stack', j) = Fr(stack, j)
                 /\ Denoting(kind', to', to[z]) \cap Fr(stack', j).list # {}
      <4>1. j # n + 1
        BY <1>1, <1>3, <3>5
      <4>2. j \in 1..n /\ j \in h + 1..Len(stack')
        BY <1>3, <1>11, <3>1, <4>1
      <4>3. Denoting(kind', to', to[z]) = Denoting(kind, to, to[z]) \ L
        BY <1>19, <3>3
      <4> QED BY <1>11, <1>12, <3>5, <4>2, <4>3
    <3> QED BY <1>1, <3>3, <3>4, <3>5
  <2> QED BY <2>1, <2>2, <2>3, <2>4 DEF ListInv
<1>25. SealInv'
  <2>0. SealedVars /\ SealedElems /\ SealedFrames
    BY <1>5 DEF SealInv
  <2>1. SealedVars'
    BY <1>1, <1>2, <1>10, <2>0, SealedVarsMove
  <2>2. SealedFrames'
    <3>1. \A h \in 1..Len(stack') : ~ (h > n)
      BY <1>11
    <3> QED BY <1>10, <2>0, <3>1, SealedFramesMove
  <2>3. SealedElems'
    <3> SUFFICES ASSUME NEW h \in 1..Len(stack'), Sealing(Fr(stack', h)), NEW z \in Fr(stack', h).list,
                        NEW m \in Nodes, z \in elems'[m], m \notin Fr(stack', h).list
                 PROVE  /\ m \in valid' /\ rc'[m] = 0
                        /\ Denoting(kind', to', m) \subseteq Part(Fr(stack', h), 4) \cup Dying'
                        /\ Denoting(kind', to', m) \cap Part(Fr(stack', h), 4) # {}
      BY DEF SealedElems, Condemned, Sealing
    <3>1. h \in 1..n /\ h \in 1..Len(stack) /\ Fr(stack', h) = Fr(stack, h)
      BY <1>4, <1>11
    <3>2. m \in Condemned(Fr(stack, h)) \/ GivenBack(h, m)
      BY <1>1, <2>0, <3>1 DEF SealedElems
    <3>3. ~ GivenBack(h, m)
      BY <1>1 DEF GivenBack
    <3>4. /\ m \in valid /\ rc[m] = 0
          /\ Denoting(kind, to, m) \subseteq Part(Fr(stack, h), 4) \cup Dying
          /\ Denoting(kind, to, m) \cap Part(Fr(stack, h), 4) # {}
      BY <3>1, <3>2, <3>3 DEF Condemned
    <3>5. Part(Fr(stack, h), 4) \cap L = {}
      BY <1>12, <1>13, <3>1
    <3>6. m \in Objs /\ Denoting(kind', to', m) = Denoting(kind, to, m) \ L
      BY <1>5, <1>19, <3>4
    <3> QED BY <1>1, <1>8, <1>14, <3>1, <3>4, <3>5, <3>6
  <2> QED BY <2>1, <2>2, <2>3 DEF SealInv
<1>26. BufInv'
  <2>1. \A e \in Entries : buf[e] \in Zvals => buf[e] \notin L
    BY <1>7
  <2> QED BY <1>1, <1>5, <1>8, <2>1 DEF BufInv
<1> QED BY <1>15, <1>16, <1>20, <1>22, <1>23, <1>24, <1>25, <1>26 DEF Inv
-----------------------------------------------------------------------------
\* What the destruction of the zval z of a list comes to, whatever z is: G is the
\* object that it takes with it, N the frame that sees to the rest, if any.
DestroyFrames(z, G, N, rest, n) ==
    /\ n \in Nat /\ n >= 1 /\ Len(stack) = n + 1 /\ Fr(stack, n + 1) = Top
    /\ n + 1 \in 1..Len(stack) /\ n + 1 \in 1..Len(stack') /\ Fr(stack', n + 1) = rest
    /\ Moves(stack, stack', n, {rest} \cup N)
    /\ \A h \in 1..Len(stack') : h > n + 1 => Fr(stack', h) \in N
    /\ rest \in Frames /\ rest.at = "destroy" /\ rest.n = 0 /\ rest.z = 0
    /\ rest.todo = Top.todo \ {z} /\ rest.list = Top.list
    /\ \A f \in N : /\ f.at \in {"release", "del_ref"} /\ f.z = 0 /\ f.list = {} /\ f.todo \subseteq elems[z]
                    /\ f.at = "release" => f.n = 0
                    /\ f.at = "del_ref" => f.n \in G
    /\ \A m \in G : stack'[1].at = "del_ref" /\ stack'[1].n = m /\ Len(stack') = n + 2

Destroying(z, G, N, rest, n) ==
    /\ Top.at = "destroy" /\ z \in Top.todo /\ kind[z] # "none"
    /\ to' = to /\ valid' = valid /\ called' = called /\ var' = var /\ buf' = buf /\ addr' = addr
    /\ elems' = [elems EXCEPT ![z] = {}]
    /\ kind'[z] \in {"null", "object"} /\ (kind'[z] = "object" => kind[z] = "object")
    /\ \A y \in Zvals : y # z => kind'[y] = kind[y]
    /\ G \subseteq valid /\ (kind[z] = "object" /\ Garbage(to[z]) => to[z] \in G)
    /\ \A m \in G : rc[m] = 0 /\ rc'[m] = 1 /\ m \in called /\ kind[z] = "object" /\ to[z] = m
    /\ \A m \in Nodes : m \notin G => rc'[m] = rc[m]
    /\ DestroyFrames(z, G, N, rest, n)
    /\ Listed' = Listed /\ Dying' = Dying
    /\ Parts(stack', 3) = Parts(stack, 3) \cup {z} /\ Parts(stack', 4) = Parts(stack, 4) \ {z}
    /\ \A y : CountIn(stack', RefFrames(y)) = CountIn(stack, RefFrames(y)) + (IF y \in elems[z] THEN 1 ELSE 0)
    /\ \A o \in Objs : CountIn(stack', HoldFrames(o)) = CountIn(stack, HoldFrames(o)) + (IF o \in G THEN 1 ELSE 0)

\* The zval at hand: nothing refers to it, and no other list has it.
LEMMA DestroyedApart ==
    ASSUME IInv, Sound, Top.at = "destroy", NEW z \in Top.todo
    PROVE  /\ z \in Zvals /\ z \in Top.list /\ z \in Listed /\ z \notin Dying /\ kind[z] # "none"
           /\ \A v \in Vars : var[v] # z
           /\ \A h \in 1..Len(stack) - 1 : z \notin Fr(stack, h).list
           /\ \A h \in 1..Len(stack) - 1 :
                 Fr(stack, h).at \in {"ptr_dtor", "root", "resume"} =>
                     /\ Fr(stack, h).at = "resume" /\ Fr(stack, h).z # z
                     /\ Fr(stack, h).n \in Zvals => Fr(stack, h).n # z
           /\ kind[z] = "object" /\ Garbage(to[z]) => to[z] \in called
           /\ z \notin Part(Top, 3)
<1>1. /\ TypeOK /\ Inv /\ stack \in Seq(Frames) /\ FrTypes /\ Views /\ Top \in Frames /\ FieldsOK(Top)
  BY Context
<1>2. PICK n \in Nat : Len(stack) = n + 1 /\ Fr(stack, n + 1) = Top
  BY Context
<1>3. /\ n + 1 \in 1..Len(stack) /\ \A h \in 1..Len(stack) - 1 : h \in 1..Len(stack) /\ h # n + 1
      /\ ~ \E j \in n + 1 + 1..Len(stack) : TRUE
  BY <1>2
<1>4. Shape /\ HeapInv /\ SealInv /\ ListInv /\ DyingInv /\ FrameInv
  BY <1>1 DEF Inv
<1>5. z \in Top.list
  BY <1>1 DEF FieldsOK
<1>6. z \in Listed /\ z \in Zvals
  BY <1>1, <1>2, <1>3, <1>5 DEF Views, Frames
<1>7. z \notin Dying
  BY <1>4, <1>6 DEF DyingInv, DyingHeap
<1>8. kind[z] # "none"
  BY <1>2, <1>3, <1>4, <1>5 DEF HeapInv, FramesHold
<1>9. \A v \in Vars : var[v] # z
  BY <1>2, <1>3, <1>4, <1>5 DEF SealInv, SealedVars, Sealing
<1>10. \A h \in 1..Len(stack) - 1 : z \notin Fr(stack, h).list
  BY <1>2, <1>3, <1>4, <1>5 DEF ListInv, Disjoint
<1>11. ASSUME NEW h \in 1..Len(stack) - 1, Fr(stack, h).at \in {"ptr_dtor", "root", "resume"}
       PROVE  /\ Fr(stack, h).at = "resume" /\ Fr(stack, h).z # z
              /\ Fr(stack, h).n \in Zvals => Fr(stack, h).n # z
  <2>1. h \in 1..Len(stack) /\ Calls(Fr(stack, h)) /\ FieldsOK(Fr(stack, h))
    BY <1>3, <1>4 DEF Shape
  <2>2. Fr(stack, h).at = "resume"
    BY <1>11, <2>1 DEF Calls, TopLabels
  <2>3. Fr(stack, h).z # z
    <3>1. z # 0
      BY <1>6, Sizes
    <3> QED BY <1>4, <1>6, <2>1, <2>2, <3>1 DEF FrameInv, NamedZvals
  <2> QED BY <2>1, <2>2, <2>3 DEF FieldsOK
<1>12. kind[z] = "object" /\ Garbage(to[z]) => to[z] \in called
  BY <1>2, <1>3, <1>4 DEF ListInv, CalledFirst
<1>13. z \notin Part(Top, 3)
  BY DEF Part
<1> QED BY <1>5, <1>6, <1>7, <1>8, <1>9, <1>10, <1>11, <1>12, <1>13

LEMMA DestroyingStep ==
    ASSUME IInv, Sound, NEW z, NEW G, NEW N, NEW rest, NEW n, Destroying(z, G, N, rest, n),
           TypeOK', Shape'
    PROVE  Inv'
<1>1. /\ Top.at = "destroy" /\ z \in Top.todo
      /\ to' = to /\ valid' = valid /\ called' = called /\ var' = var /\ buf' = buf /\ addr' = addr
      /\ elems' = [elems EXCEPT ![z] = {}]
      /\ kind'[z] \in {"null", "object"} /\ (kind'[z] = "object" => kind[z] = "object")
      /\ \A y \in Zvals : y # z => kind'[y] = kind[y]
      /\ G \subseteq valid /\ (kind[z] = "object" /\ Garbage(to[z]) => to[z] \in G)
      /\ \A m \in G : rc[m] = 0 /\ rc'[m] = 1 /\ m \in called /\ kind[z] = "object" /\ to[z] = m
      /\ \A m \in Nodes : m \notin G => rc'[m] = rc[m]
      /\ Listed' = Listed /\ Dying' = Dying
      /\ Parts(stack', 3) = Parts(stack, 3) \cup {z} /\ Parts(stack', 4) = Parts(stack, 4) \ {z}
  BY DEF Destroying
<1>2. /\ TypeOK /\ Inv /\ stack \in Seq(Frames) /\ stack # <<>> /\ FrTypes /\ Views /\ Top \in Frames /\ FieldsOK(Top)
      /\ Objs \subseteq Nodes /\ Zvals \subseteq Nodes /\ Zvals \cap Objs = {} /\ 0 \notin Objs /\ 0 \notin Zvals
  BY Context, Sizes
<1>3. /\ n \in Nat /\ n >= 1 /\ Len(stack) = n + 1 /\ Fr(stack, n + 1) = Top
      /\ n + 1 \in 1..Len(stack) /\ n + 1 \in 1..Len(stack') /\ Fr(stack', n + 1) = rest
      /\ Moves(stack, stack', n, {rest} \cup N)
      /\ \A h \in 1..Len(stack') : h > n + 1 => Fr(stack', h) \in N
  BY DEF Destroying, DestroyFrames
<1>4. /\ rest \in Frames /\ rest.at = "destroy" /\ rest.n = 0 /\ rest.z = 0
      /\ rest.todo = Top.todo \ {z} /\ rest.list = Top.list
      /\ \A f \in N : /\ f.at \in {"release", "del_ref"} /\ f.z = 0 /\ f.list = {} /\ f.todo \subseteq elems[z]
                      /\ f.at = "release" => f.n = 0
                      /\ f.at = "del_ref" => f.n \in G
      /\ \A m \in G : stack'[1].at = "del_ref" /\ stack'[1].n = m /\ Len(stack') = n + 2
  BY DEF Destroying, DestroyFrames
<1>5. /\ rc \in [Nodes -> Nat] /\ valid \subseteq Objs /\ elems \in [Nodes -> SUBSET Zvals]
      /\ to \in [Zvals -> Objs \cup {0}] /\ kind \in [Zvals -> {"none", "array", "object", "null"}]
      /\ Shape /\ HeapInv /\ FrameInv /\ DyingInv /\ ListInv /\ SealInv /\ BufInv
  BY <1>2 DEF TypeOK, Inv
<1>6. /\ z \in Zvals /\ z \in Top.list /\ z \in Listed /\ z \notin Dying /\ kind[z] # "none"
      /\ \A v \in Vars : var[v] # z
      /\ \A h \in 1..n : z \notin Fr(stack, h).list
      /\ \A h \in 1..n : Fr(stack, h).at \in {"ptr_dtor", "root", "resume"} =>
                     /\ Fr(stack, h).at = "resume" /\ Fr(stack, h).z # z
                     /\ Fr(stack, h).n \in Zvals => Fr(stack, h).n # z
  <2>1. Len(stack) - 1 = n
    BY <1>3
  <2> QED BY <1>1, <2>1, DestroyedApart
<1>7. /\ \A h \in 1..Len(stack') : h \in 1..n \/ h = n + 1 \/ h > n + 1
      /\ \A h \in 1..n : h \in 1..Len(stack) /\ h \in 1..Len(stack') /\ Fr(stack', h) = Fr(stack, h)
                         /\ h # n + 1 /\ ~ (h > n)
  BY <1>3 DEF Moves, Kept
<1>8. /\ \A y \in Zvals : (kind'[y] # "none" => kind[y] # "none") /\ (kind[y] # "none" => kind'[y] # "none")
      /\ \A y \in Zvals : rc'[y] = rc[y]
      /\ \A m \in Nodes : elems'[m] \subseteq elems[m] /\ (m # z => elems'[m] = elems[m])
      /\ elems'[z] = {}
  BY <1>1, <1>2, <1>5, <1>6
<1>9. ASSUME NEW o \in Objs
      PROVE  /\ Denoting(kind', to', o) \subseteq Denoting(kind, to, o)
             /\ Denoting(kind, to, o) \ {z} \subseteq Denoting(kind', to', o)
  BY <1>1, <1>6 DEF Denoting
<1>10. \A m \in valid : rc'[m] = 0 => /\ m \notin G /\ rc[m] = 0 /\ m \in Objs
                                      /\ z \notin Denoting(kind, to, m)
                                      /\ Denoting(kind', to', m) = Denoting(kind, to, m)
  <2> SUFFICES ASSUME NEW m \in valid, rc'[m] = 0
               PROVE  /\ m \notin G /\ rc[m] = 0 /\ m \in Objs
                      /\ z \notin Denoting(kind, to, m)
                      /\ Denoting(kind', to', m) = Denoting(kind, to, m)
    OBVIOUS
  <2>1. m \in Objs /\ m \in Nodes /\ m \notin G
    BY <1>1, <1>2, <1>5
  <2>2. rc[m] = 0
    BY <1>1, <2>1
  <2>3. z \notin Denoting(kind, to, m)
    BY <1>1, <2>1, <2>2 DEF Denoting, Garbage
  <2> QED BY <1>9, <2>1, <2>2, <2>3
<1>11. HeapInv'
  <2>0. KindsOK /\ NullsOK /\ ZvalCounts /\ ObjCounts /\ VarsHold /\ ElemsHold /\ FramesHold /\ ZvalsHold
    BY <1>5 DEF HeapInv
  <2>1. KindsOK'
    <3>1. \A y \in Zvals : kind'[y] # "array" => elems'[y] = {}
      <4>1. \A y \in Zvals : y # z /\ kind'[y] # "array" => elems'[y] = {}
        BY <1>1, <1>2, <1>8, <2>0 DEF KindsOK
      <4> QED BY <1>8, <4>1
    <3>2. \A y \in Zvals : kind'[y] = "object" => to'[y] \in Objs
      BY <1>1, <2>0 DEF KindsOK
    <3>3. ASSUME NEW o \in Objs \ valid' PROVE rc'[o] = 0 /\ elems'[o] = {}
      <4>1. o \in Nodes /\ o \notin G /\ o # z
        BY <1>1, <1>2, <1>6
      <4> QED BY <1>1, <1>8, <2>0, <4>1 DEF KindsOK
    <3> QED BY <3>1, <3>2, <3>3 DEF KindsOK
  <2>2. NullsOK'
    <3>1. \A y \in Zvals : kind'[y] = "null" => y \in Parts(stack', 3)
      BY <1>1, <2>0 DEF NullsOK
    <3>2. \A y \in Parts(stack', 3) : kind'[y] # "array"
      <4>1. Parts(stack, 3) \subseteq Zvals
        BY PartsListed, ListTypes
      <4> QED BY <1>1, <2>0, <4>1 DEF NullsOK
    <3> QED BY <3>1, <3>2 DEF NullsOK
  <2>3. ZvalCounts'
    <3> SUFFICES ASSUME NEW y \in Zvals, kind'[y] # "none"
                 PROVE  rc'[y] = VarRefs(var, y) + ElemRefs(elems', y) + CountIn(stack', RefFrames(y)) + ListRef(y)
      BY <1>1 DEF ZvalCounts, ListRef
    <3>1. rc[y] = VarRefs(var, y) + ElemRefs(elems, y) + CountIn(stack, RefFrames(y)) + ListRef(y)
      BY <1>8, <2>0 DEF ZvalCounts
    <3>2. CountIn(stack', RefFrames(y)) = CountIn(stack, RefFrames(y)) + (IF y \in elems[z] THEN 1 ELSE 0)
      BY DEF Destroying
    <3>3. VarRefs(var, y) \in Nat /\ ElemRefs(elems, y) \in Nat /\ CountIn(stack, RefFrames(y)) \in Nat
          /\ ListRef(y) \in {0, 1}
      BY <1>3, NoneCounted DEF ListRef
    <3>4. ElemRefs(elems', y) = ElemRefs(elems, y) - (IF y \in elems[z] THEN 1 ELSE 0)
      <4>1. /\ y \in elems[z] => ElemRefs([elems EXCEPT ![z] = {}], y) = ElemRefs(elems, y) - 1
            /\ y \notin elems[z] => ElemRefs([elems EXCEPT ![z] = {}], y) = ElemRefs(elems, y)
        <5>1. z \in Nodes /\ {} \in SUBSET Zvals /\ y \notin {}
          BY <1>2, <1>6
        <5>2. PICK g \in [Nodes -> SUBSET Zvals] : g = elems
          BY <1>5
        <5>3. /\ y \in g[z] /\ y \notin {} => ElemRefs([g EXCEPT ![z] = {}], y) = ElemRefs(g, y) - 1
              /\ (y \in g[z] <=> y \in {}) => ElemRefs([g EXCEPT ![z] = {}], y) = ElemRefs(g, y)
          BY <5>1, ElemSet
        <5> QED BY <5>1, <5>2, <5>3
      <4> QED BY <1>1, <3>3, <4>1
    <3>5. rc'[y] = rc[y]
      BY <1>8
    <3> QED BY ONLY <3>1, <3>2, <3>3, <3>4, <3>5
  <2>4. ObjCounts'
    <3> SUFFICES ASSUME NEW w \in valid
                 PROVE  rc'[w] = Cardinality(Counted(w)') + CountIn(stack', HoldFrames(w))
      BY <1>1 DEF ObjCounts
    <3>1. w \in Objs /\ w \in Nodes
      BY <1>2, <1>5
    <3>2. /\ rc[w] = Cardinality(Counted(w)) + CountIn(stack, HoldFrames(w)) /\ Cardinality(Counted(w)) \in Nat
          /\ CountIn(stack, HoldFrames(w)) \in Nat
      BY <3>1, ObjRefs
    <3>3. Counted(w)' = Counted(w)
      BY <1>1, <1>6, <1>9, <3>1 DEF Counted
    <3>4. CountIn(stack', HoldFrames(w)) = CountIn(stack, HoldFrames(w)) + (IF w \in G THEN 1 ELSE 0)
      BY <3>1 DEF Destroying
    <3>5. rc'[w] = rc[w] + (IF w \in G THEN 1 ELSE 0)
      <4>1. rc[w] \in Nat
        BY <1>5, <3>1
      <4> QED BY <1>1, <3>1, <4>1
    <3>6. Cardinality(Counted(w)') = Cardinality(Counted(w))
      BY <3>3
    <3> QED BY ONLY <3>2, <3>4, <3>5, <3>6
  <2>5. VarsHold'
    <3>1. \A v \in Vars : var[v] # 0 => var[v] \in Zvals
      BY <1>2 DEF TypeOK
    <3> QED BY <1>1, <1>6, <2>0, <3>1 DEF VarsHold
  <2>6. ElemsHold'
    <3>1. \A m \in Nodes : \A e \in elems'[m] : e \in Zvals /\ e \in elems[m]
      BY <1>5, <1>8
    <3> QED BY <1>8, <2>0, <3>1 DEF ElemsHold
  <2>7. FramesHold'
    <3>1. \A e \in Top.list : e \in Zvals /\ kind[e] # "none"
      BY <1>2, <1>3, <2>0 DEF FramesHold, Frames
    <3>2. \A e \in elems[z] : e \in Zvals /\ kind[e] # "none"
      BY <1>2, <1>5, <1>6, <2>0 DEF ElemsHold
    <3>3. rest.todo \cup rest.list \subseteq Top.list
      BY <1>1, <1>2, <1>4 DEF FieldsOK
    <3>4. \A f \in {rest} \cup N : \A e \in f.todo \cup f.list : kind'[e] # "none"
      BY <1>4, <1>8, <3>1, <3>2, <3>3
    <3> QED BY <1>2, <1>3, <1>8, <2>0, <3>4, FramesHoldMove
  <2>8. ZvalsHold'
    BY <1>1, <1>6, <2>0 DEF ZvalsHold
  <2> QED BY <2>1, <2>2, <2>3, <2>4, <2>5, <2>6, <2>7, <2>8 DEF HeapInv
<1>12. \A f \in {rest} \cup N : /\ f.at \in {"destroy", "release", "del_ref"} /\ f.z = 0
                                /\ f.at = "destroy" => f = rest
  BY <1>4
<1>13. FrameInv'
  <2>0. HeldValid /\ StorageOK /\ NamedZvals /\ RootArrays /\ OnFree /\ ReturnOK
    BY <1>5 DEF FrameInv
  <2>1. HeldValid'
    <3>1. \A f \in {rest} \cup N : \A w \in Objs : Holds(f, w) => w \in valid
      BY <1>1, <1>4, <1>12 DEF Holds, HoldLabels
    <3> QED BY <1>1, <1>3, <2>0, <3>1, HeldValidMove
  <2>2. StorageOK'
    <3>1. ASSUME NEW h \in 1..n, Fr(stack, h).at = "storage"
          PROVE  /\ rc'[Fr(stack, h).n] = rc[Fr(stack, h).n]
                 /\ elems'[Fr(stack, h).n] \subseteq elems[Fr(stack, h).n]
      <4>1. Fr(stack, h).n \in Objs /\ Fr(stack, h).n \in Nodes
        BY <1>2, <1>7, <3>1, StorageObjs
      <4>2. rc[Fr(stack, h).n] = 1
        BY <1>7, <2>0, <3>1 DEF StorageOK
      <4>3. Fr(stack, h).n \notin G
        BY <1>1, <4>2
      <4> QED BY <1>1, <1>8, <4>1, <4>3
    <3> QED BY <1>1, <1>3, <1>12, <2>0, <3>1, StorageMove
  <2>3. NamedZvals'
    BY <1>1, <1>2, <1>3, <1>8, <1>12, <2>0, NamedMove
  <2>4. RootArrays'
    <3>1. \A h \in 1..Len(stack') : Fr(stack', h).at \in {"root", "resume"} =>
              h \in 1..n /\ h \in 1..Len(stack) /\ Fr(stack', h) = Fr(stack, h)
      BY <1>3, <1>7, <1>12
    <3> QED BY <1>1, <1>6, <2>0, <3>1 DEF RootArrays
  <2>5. OnFree'
    <3>1. \A h \in 1..Len(stack') : h > n => Fr(stack', h).z = 0
      BY <1>3, <1>7, <1>12
    <3> QED BY <1>3, <2>0, <3>1, OnFreeMove
  <2>6. ReturnOK'
    <3>1. \A h \in 1..n : Fr(stack, h).at = "destructors" /\ Fr(stack, h).n # 0 =>
               Denoting(kind, to, Fr(stack, h).n) \cap Fr(stack, h).list \subseteq Denoting(kind', to', Fr(stack, h).n)
      <4>1. ASSUME NEW h \in 1..n, Fr(stack, h).at = "destructors", Fr(stack, h).n # 0
            PROVE  Fr(stack, h).n \in Objs
        BY <1>5, <1>7, <4>1 DEF Shape, FieldsOK
      <4> QED BY <1>6, <1>9, <4>1
    <3> QED BY <1>1, <1>3, <1>12, <2>0, <3>1, ReturnMove
  <2> QED BY <2>1, <2>2, <2>3, <2>4, <2>5, <2>6 DEF FrameInv
<1>14. DyingInv'
  <2>0. DyingHeap /\ DyingBuf /\ DyingFrames
    BY <1>5 DEF DyingInv
  <2>1. DyingHeap'
    <3>1. \A y \in Dying : y \in Zvals /\ y # z /\ y \in Nodes
      BY <1>2, <1>6, <2>0 DEF DyingHeap
    <3> QED BY <1>1, <1>8, <2>0, <3>1 DEF DyingHeap
  <2>2. DyingBuf'
    BY <1>1, <2>0 DEF DyingBuf
  <2>3. \A f \in {rest} \cup N : f.at # "free" /\ \A y \in Dying : Refers(f, y) => f.at = "resume"
    <3>1. \A y \in Dying : y \notin elems[z]
      BY <1>2, <1>6, <2>0 DEF DyingHeap
    <3> QED BY <1>4, <1>12, <3>1 DEF Refers
  <2>4. DyingFrames'
    BY <1>2, <1>3, <2>0, <2>3, DyingFramesMove
  <2> QED BY <2>1, <2>2, <2>4 DEF DyingInv
<1>15. ListInv'
  <2>0. ListedBuf /\ Disjoint /\ Pending /\ CalledFirst
    BY <1>5 DEF ListInv
  <2>1. ListedBuf'
    BY <1>1, <2>0 DEF ListedBuf
  <2>2. Disjoint'
    <3>1. \A h \in 1..Len(stack') : h > n /\ Fr(stack', h).list # {} =>
               h = n + 1 /\ h \in 1..Len(stack) /\ Fr(stack', h).list \subseteq Fr(stack, h).list
      BY <1>3, <1>4, <1>7
    <3> QED BY <1>3, <2>0, <3>1, DisjointMove
  <2>3. Pending'
    <3>1. \A w \in valid : rc'[w] = 0 => Denoting(kind', to', w) \cap Parts(stack', 4) # {}
      BY <1>1, <1>10, <2>0 DEF Pending
    <3> QED BY <1>1, <3>1 DEF Pending
  <2>4. CalledFirst'
    <3> SUFFICES ASSUME NEW h \in 1..Len(stack'), Fr(stack', h).at = "destroy", NEW y \in Fr(stack', h).todo,
                        kind'[y] = "object", to[y] \in valid, rc'[to[y]] = 0
                 PROVE  \/ to[y] \in called
                        \/ \E j \in h + 1..Len(stack') : /\ Fr(stack', j).at = "destructors"
                                                         /\ Denoting(kind', to', to[y]) \cap Fr(stack', j).list # {}
      BY <1>1 DEF CalledFirst, Garbage
    <3>1. rc[to[y]] = 0 /\ Denoting(kind', to', to[y]) = Denoting(kind, to, to[y])
      BY <1>10
    <3>2. CASE h > n
      <4>1. h = n + 1 /\ y \in Top.todo /\ y # z /\ y \in Zvals
        BY <1>2, <1>3, <1>4, <1>7, <1>12, <3>2 DEF Frames
      <4>2. kind[y] = "object"
        BY <1>1, <4>1
      <4>3. ~ \E j \in n + 1 + 1..Len(stack) : TRUE
        BY <1>3
      <4> QED BY <1>1, <1>3, <2>0, <3>1, <4>1, <4>2, <4>3 DEF CalledFirst, Garbage
    <3>3. CASE h \in 1..n
      <4>1. h \in 1..Len(stack) /\ Fr(stack', h) = Fr(stack, h) /\ FieldsOK(Fr(stack, h)) /\ Fr(stack, h) \in Frames
        BY <1>2, <1>5, <1>7, <3>3 DEF Shape, FrTypes
      <4>2. y \in Zvals /\ y # z
        BY <1>6, <3>3, <4>1 DEF FieldsOK, Frames
      <4>3. kind[y] = "object"
        BY <1>1, <4>2
      <4>4. \/ to[y] \in called
            \/ \E j \in h + 1..Len(stack) : /\ Fr(stack, j).at = "destructors"
                                            /\ Denoting(kind, to, to[y]) \cap Fr(stack, j).list # {}
        BY <2>0, <3>1, <4>1, <4>3 DEF CalledFirst, Garbage
      <4>5. ASSUME NEW j \in h + 1..Len(stack), Fr(stack, j).at = "destructors"
            PROVE  j \in h + 1..Len(stack') /\ Fr(stack', j) = Fr(stack, j)
        <5>1. j # n + 1
          BY <1>1, <1>3, <4>5
        <5>2. j \in 1..n
          BY <1>3, <3>3, <5>1
        <5>3. j \in 1..Len(stack') /\ Fr(stack', j) = Fr(stack, j)
          BY <1>7, <5>2
        <5>4. j \in h + 1..Len(stack')
          BY <3>3, <5>3
        <5> QED BY <5>3, <5>4
      <4> QED BY <3>1, <4>4, <4>5
    <3> QED BY <1>3, <1>7, <3>2, <3>3
  <2> QED BY <2>1, <2>2, <2>3, <2>4 DEF ListInv
<1>16. SealInv'
  <2>0. SealedVars /\ SealedElems /\ SealedFrames
    BY <1>5 DEF SealInv
  <2>1. Sealing(Top) /\ \A f \in N : ~ Sealing(f)
    BY <1>1, <1>4 DEF Sealing
  <2>2. SealedVars'
    <3>1. \A f \in {rest} \cup N : Sealing(f) => \A y \in f.list : \A v \in Vars : var'[v] # y
      BY <1>1, <1>3, <1>4, <2>0, <2>1 DEF SealedVars
    <3> QED BY <1>1, <1>2, <1>3, <2>0, <3>1, SealedVarsMove
  <2>3. SealedFrames'
    <3>1. \A h \in 1..Len(stack') : h > n /\ Sealing(Fr(stack', h)) =>
               \A y \in Fr(stack', h).list, j \in 1..Len(stack') : Refers(Fr(stack', j), y) => j > h
      <4> SUFFICES ASSUME NEW h \in 1..Len(stack'), h > n, Sealing(Fr(stack', h)),
                          NEW y \in Fr(stack', h).list, NEW j \in 1..Len(stack'), Refers(Fr(stack', j), y)
                   PROVE  j > h
        OBVIOUS
      <4>1. h = n + 1 /\ y \in Top.list
        BY <1>3, <1>4, <1>7, <2>1
      <4>2. j # n + 1
        <5>1. ~ Refers(rest, y)
          BY <1>4 DEF Refers
        <5> QED BY <1>3, <5>1
      <4>3. j \notin 1..n
        <5> SUFFICES ASSUME j \in 1..n PROVE FALSE
          OBVIOUS
        <5>1. j \in 1..Len(stack) /\ Refers(Fr(stack, j), y)
          BY <1>7
        <5>2. j > n + 1
          BY <1>3, <2>0, <2>1, <4>1, <5>1 DEF SealedFrames
        <5> QED BY <1>3, <5>2
      <4> QED BY <1>7, <4>1, <4>2, <4>3
    <3> QED BY <1>3, <2>0, <3>1, SealedFramesMove
  <2>4. SealedElems'
    <3> SUFFICES ASSUME NEW h \in 1..Len(stack'), Sealing(Fr(stack', h)), NEW y \in Fr(stack', h).list,
                        NEW m \in Nodes, y \in elems'[m], m \notin Fr(stack', h).list, ~ GivenBack(h, m)'
                 PROVE  /\ m \in valid' /\ rc'[m] = 0
                        /\ Denoting(kind', to', m) \subseteq Part(Fr(stack', h), 4) \cup Dying'
                        /\ Denoting(kind', to', m) \cap Part(Fr(stack', h), 4) # {}
      BY DEF SealedElems, Condemned, Sealing
    <3>1. /\ h \in 1..n + 1 /\ h \in 1..Len(stack) /\ Sealing(Fr(stack, h))
          /\ Fr(stack', h).list = Fr(stack, h).list
          /\ h < n + 2
          /\ \/ Part(Fr(stack', h), 4) = Part(Fr(stack, h), 4) /\ z \notin Part(Fr(stack, h), 4)
             \/ Part(Fr(stack', h), 4) = Part(Fr(stack, h), 4) \ {z}
      <4>1. CASE h \in 1..n
        <5>1. Fr(stack', h) = Fr(stack, h) /\ h \in 1..Len(stack) /\ h \in 1..n + 1 /\ h < n + 2
          BY <1>3, <1>7, <4>1
        <5>2. Part(Fr(stack, h), 4) \subseteq Fr(stack, h).list
          BY <5>1, PartsListed
        <5>3. z \notin Fr(stack, h).list
          BY <1>6, <4>1
        <5> QED BY <5>1, <5>2, <5>3
      <4>2. CASE h > n
        <5>1. h = n + 1
          BY <1>3, <1>7, <2>1, <4>2
        <5>2. Part(rest, 4) = Part(Top, 4) \ {z}
          BY <1>1, <1>4 DEF Part
        <5>3. h \in 1..n + 1 /\ h < n + 2
          BY <1>3, <5>1
        <5> QED BY <1>3, <1>4, <2>1, <5>1, <5>2, <5>3
      <4> QED BY <1>3, <1>7, <4>1, <4>2
    <3>2. y \in elems[m] /\ y \in Fr(stack, h).list /\ m \notin Fr(stack, h).list
      BY <1>8, <3>1
    <3>3. m \in Condemned(Fr(stack, h)) \/ GivenBack(h, m)
      BY <2>0, <3>1, <3>2 DEF SealedElems
    <3>4. ~ GivenBack(h, m)
      BY <1>1 DEF GivenBack
    <3>5. /\ m \in valid /\ rc[m] = 0
          /\ Denoting(kind, to, m) \subseteq Part(Fr(stack, h), 4) \cup Dying
          /\ Denoting(kind, to, m) \cap Part(Fr(stack, h), 4) # {}
      BY <3>2, <3>3, <3>4 DEF Condemned
    <3>6. m \notin G
      <4> SUFFICES ASSUME m \in G PROVE FALSE
        OBVIOUS
      <4>1. stack'[1].at = "del_ref" /\ stack'[1].n = m /\ Len(stack') = n + 2 /\ rc'[m] = 1 /\ m \in called'
        BY <1>1, <1>4
      <4>2. h < Len(stack')
        BY <3>1, <4>1
      <4> QED BY <4>1, <4>2 DEF GivenBack, Top
    <3>7. rc'[m] = 0
      BY <1>1, <3>5, <3>6
    <3>8. Denoting(kind', to', m) = Denoting(kind, to, m) /\ z \notin Denoting(kind, to, m)
      BY <1>10, <3>5, <3>7
    <3> QED BY <1>1, <3>1, <3>5, <3>7, <3>8
  <2> QED BY <2>2, <2>3, <2>4 DEF SealInv
<1>17. BufInv'
  BY <1>1, <1>5, <1>8 DEF BufInv
<1> QED BY <1>11, <1>13, <1>14, <1>15, <1>16, <1>17 DEF Inv

\* The stack after such a step: the rest of the loop, and perhaps a frame on it.
DestroyStack(z, N, rest) ==
    /\ Top.at = "destroy" /\ z \in Top.todo
    /\ rest \in Frames /\ rest.at = "destroy" /\ rest.n = 0 /\ rest.z = 0
    /\ rest.todo = Top.todo \ {z} /\ rest.list = Top.list
    /\ stack' \in Seq(Frames) /\ stack' # <<>>
    /\ \/ N = {} /\ Replaced(stack, stack', rest)
       \/ \E f \in Frames : /\ N = {f} /\ Doubled(stack, stack', f, rest)
                            /\ f.at \in {"release", "del_ref"} /\ f.list = {} /\ FieldsOK(f)

LEMMA DestroyFrom ==
    ASSUME IInv, Sound, Top.at = "destroy", NEW z \in Top.todo,
           NEW rest, rest = [Top EXCEPT !.todo = @ \ {z}]
    PROVE  /\ stack' = <<rest>> \o Tail(stack) => DestroyStack(z, {}, rest)
           /\ \A f \in Frames : /\ stack' = <<f, rest>> \o Tail(stack)
                                /\ f.at \in {"release", "del_ref"} /\ f.list = {} /\ FieldsOK(f)
                                => DestroyStack(z, {f}, rest)
<1>1. stack \in Seq(Frames) /\ stack # <<>> /\ Top \in Frames /\ FieldsOK(Top)
  BY Context
<1>2. Top.n = 0 /\ Top.z = 0
  BY <1>1 DEF FieldsOK
<1>3. rest \in Frames /\ rest.at = "destroy" /\ rest.n = 0 /\ rest.z = 0
      /\ rest.todo = Top.todo \ {z} /\ rest.list = Top.list
  <2>1. rest = [Top EXCEPT !.todo = @ \ {z}] /\ Top.at = "destroy"
    OBVIOUS
  <2> QED BY ONLY <1>1, <1>2, <2>1 DEF Frames
<1>4. ASSUME stack' = <<rest>> \o Tail(stack) PROVE DestroyStack(z, {}, rest)
  <2>1. stack' \in Seq(Frames) /\ stack' # <<>> /\ Replaced(stack, stack', rest)
    BY <1>1, <1>3, <1>4, FrReplace
  <2> QED BY <1>3, <2>1 DEF DestroyStack
<1>5. ASSUME NEW f \in Frames, stack' = <<f, rest>> \o Tail(stack),
             f.at \in {"release", "del_ref"}, f.list = {}, FieldsOK(f)
      PROVE  DestroyStack(z, {f}, rest)
  <2>1. stack' \in Seq(Frames) /\ stack' # <<>> /\ Doubled(stack, stack', f, rest)
    BY <1>1, <1>3, <1>5, FrDouble
  <2> QED BY <1>3, <1>5, <2>1 DEF DestroyStack
<1> QED BY <1>4, <1>5

LEMMA DestroyShape ==
    ASSUME IInv, Sound, NEW z, NEW N, NEW rest, DestroyStack(z, N, rest)
    PROVE  /\ Shape'
           /\ Listed' = Listed /\ Dying' = Dying
           /\ Parts(stack', 3) = Parts(stack, 3) \cup {z} /\ Parts(stack', 4) = Parts(stack, 4) \ {z}
           /\ \E n \in Nat : /\ n >= 1 /\ Len(stack) = n + 1 /\ Fr(stack, n + 1) = Top
                             /\ n + 1 \in 1..Len(stack) /\ n + 1 \in 1..Len(stack') /\ Fr(stack', n + 1) = rest
                             /\ Moves(stack, stack', n, {rest} \cup N)
                             /\ \A h \in 1..Len(stack') : h > n + 1 => Fr(stack', h) \in N
                             /\ N # {} => N = {stack'[1]} /\ Len(stack') = n + 2
<1>1. /\ TypeOK /\ Inv /\ stack \in Seq(Frames) /\ stack # <<>> /\ FrTypes /\ Views /\ Top \in Frames /\ FieldsOK(Top)
  BY Context
<1>2. /\ Top.at = "destroy" /\ z \in Top.todo
      /\ rest \in Frames /\ rest.at = "destroy" /\ rest.n = 0 /\ rest.z = 0
      /\ rest.todo = Top.todo \ {z} /\ rest.list = Top.list
      /\ stack' \in Seq(Frames) /\ stack' # <<>>
  BY DEF DestroyStack
<1>3. PICK n \in Nat : Len(stack) = n + 1 /\ Fr(stack, n + 1) = Top /\ Len(stack) - 1 = n /\ n >= 1
  BY <1>2, Context
<1>4. \/ N = {} /\ Replaced(stack, stack', rest)
      \/ \E f \in Frames : /\ N = {f} /\ Doubled(stack, stack', f, rest)
                           /\ f.at \in {"release", "del_ref"} /\ f.list = {} /\ FieldsOK(f)
  BY DEF DestroyStack
<1>5. Shape /\ ListInv
  BY <1>1 DEF Inv
<1>6. FieldsOK(rest) /\ Calls(rest) /\ rest.at # "main" /\ Top.at # "main"
  BY <1>1, <1>2 DEF FieldsOK, Calls, TopLabels
<1>7. Shape'
  BY <1>3, <1>4, <1>5, <1>6, ShapeSteps
<1>8. \A i \in 1..4 : Parts(stack', i) = Below(stack, i) \cup Part(rest, i)
  <2> SUFFICES ASSUME NEW i \in 1..4 PROVE Parts(stack', i) = Below(stack, i) \cup Part(rest, i)
    OBVIOUS
  <2>1. CASE N = {} /\ Replaced(stack, stack', rest)
    BY <1>1, <2>1, PartChanges
  <2>2. CASE \E f \in Frames : /\ N = {f} /\ Doubled(stack, stack', f, rest)
                               /\ f.at \in {"release", "del_ref"} /\ f.list = {} /\ FieldsOK(f)
    <3>1. PICK f \in Frames : Doubled(stack, stack', f, rest) /\ f.at \in {"release", "del_ref"} /\ f.list = {}
      BY <2>2
    <3>2. Parts(stack', i) = Below(stack, i) \cup Part(rest, i) \cup Part(f, i)
      BY <1>1, <3>1, PartChanges
    <3>3. Part(f, i) = {}
      BY <3>1 DEF Part
    <3> QED BY <3>2, <3>3
  <2> QED BY <1>4, <2>1, <2>2
<1>9. \A i \in 1..4 : Parts(stack, i) = Below(stack, i) \cup Part(Top, i)
  <2>1. \A i \in 1..4 : Parts(stack, i) = Below(stack, i) \cup Part(stack[1], i)
    BY <1>1, PartChanges
  <2> QED BY <2>1, Context
<1>10. z \notin Below(stack, 4)
  <2> SUFFICES ASSUME z \in Below(stack, 4) PROVE FALSE
    OBVIOUS
  <2>1. Below(stack, 4) = Parts(Tail(stack), 4)
    <3>1. Popped(stack, Tail(stack))
      BY <1>1, FrTail
    <3> QED BY <1>1, <3>1, PartChanges
  <2>2. PICK h \in 1..Len(Tail(stack)) : z \in Part(Fr(Tail(stack), h), 4)
    BY <2>1, PartMember
  <2>3. h \in 1..n /\ Fr(Tail(stack), h) = Fr(stack, h)
    <3>1. Popped(stack, Tail(stack))
      BY <1>1, FrTail
    <3> QED BY <1>3, <2>2, <3>1 DEF Popped, Kept
  <2>4. h \in 1..Len(stack) /\ h \in 1..Len(stack) - 1
    BY <1>3, <2>3
  <2>5. z \in Fr(stack, h).list
    BY <2>2, <2>3, <2>4, PartsListed
  <2> QED BY <1>2, <2>4, <2>5, DestroyedApart
<1>11. /\ Part(Top, 1) = Part(rest, 1) /\ Part(Top, 2) = {} /\ Part(rest, 2) = {}
       /\ Part(rest, 3) = Part(Top, 3) \cup {z}
       /\ Part(rest, 4) = Part(Top, 4) \ {z}
  <2>1. Top.todo \subseteq Top.list
    BY <1>1, <1>2 DEF FieldsOK
  <2> QED BY <1>2, <2>1 DEF Part
<1>12. Parts(stack', 3) = Parts(stack, 3) \cup {z} /\ Parts(stack', 4) = Parts(stack, 4) \ {z}
  BY <1>8, <1>9, <1>10, <1>11
<1>13. Listed' = Listed /\ Dying' = Dying
  <2>1. Parts(stack', 1) = Parts(stack, 1) /\ Parts(stack', 2) = Parts(stack, 2)
    BY <1>8, <1>9, <1>11
  <2> QED BY <1>1, <1>2, <2>1, StackViews, NextViews
<1>14. /\ n + 1 \in 1..Len(stack) /\ n + 1 \in 1..Len(stack') /\ Fr(stack', n + 1) = rest
       /\ Moves(stack, stack', n, {rest} \cup N)
       /\ \A h \in 1..Len(stack') : h > n + 1 => Fr(stack', h) \in N
       /\ N # {} => N = {stack'[1]} /\ Len(stack') = n + 2
  <2>1. CASE N = {} /\ Replaced(stack, stack', rest)
    <3>1. Moves(stack, stack', n, {rest})
      BY <1>1, <1>2, <1>3, <2>1, AllMoves
    <3>2. {rest} \cup N = {rest} /\ N = {}
      BY <2>1
    <3>3. Len(stack') = n + 1 /\ Fr(stack', n + 1) = rest
      BY <1>3, <2>1 DEF Replaced
    <3>4. n + 1 \in 1..Len(stack) /\ n + 1 \in 1..Len(stack') /\ \A h \in 1..Len(stack') : ~ (h > n + 1)
      BY <1>3, <3>3
    <3> QED BY <3>1, <3>2, <3>3, <3>4
  <2>2. CASE \E f \in Frames : /\ N = {f} /\ Doubled(stack, stack', f, rest)
                               /\ f.at \in {"release", "del_ref"} /\ f.list = {} /\ FieldsOK(f)
    <3>1. PICK f \in Frames : N = {f} /\ Doubled(stack, stack', f, rest)
      BY <2>2
    <3>2. Moves(stack, stack', n, {f, rest})
      BY <1>1, <1>2, <1>3, <3>1, AllMoves
    <3>3. {rest} \cup N = {f, rest}
      BY <3>1
    <3>4. Len(stack') = n + 2 /\ Fr(stack', n + 1) = rest /\ Fr(stack', n + 2) = f
      BY <1>3, <3>1 DEF Doubled
    <3>5. stack'[1] = f
      <4>1. n + 2 + 1 - (n + 2) = 1
        OBVIOUS
      <4> QED BY <3>4, <4>1 DEF Fr
    <3>6. n + 1 \in 1..Len(stack) /\ n + 1 \in 1..Len(stack') /\ \A h \in 1..Len(stack') : h > n + 1 => h = n + 2
      BY <1>3, <3>4
    <3> QED BY <3>1, <3>2, <3>3, <3>4, <3>5, <3>6
  <2> QED BY <1>4, <2>1, <2>2
<1> QED BY <1>3, <1>7, <1>12, <1>13, <1>14

\* Neither the loop's frame nor the rest of it has references.
LEMMA DestroyCounts ==
    ASSUME IInv, Sound, NEW z, NEW N, NEW rest, DestroyStack(z, N, rest)
    PROVE  \A y : /\ Top \notin RefFrames(y) /\ rest \notin RefFrames(y)
                  /\ y \in Objs => Top \notin HoldFrames(y) /\ rest \notin HoldFrames(y)
<1>1. /\ Top.at = "destroy" /\ rest.at = "destroy" /\ rest.n = 0 /\ rest.z = 0
  BY DEF DestroyStack
<1>2. FieldsOK(Top) /\ 0 \notin Objs
  BY Context, Sizes
<1>3. \A y : /\ ~ Refers(Top, y) /\ ~ Refers(rest, y)
             /\ y \in Objs => ~ Holds(Top, y) /\ ~ Holds(rest, y)
  BY <1>1, <1>2 DEF Refers, Holds, HoldLabels, FieldsOK
<1> QED BY <1>3 DEF RefFrames, HoldFrames

LEMMA DestroyNone ==
    ASSUME IInv, Sound, NEW z, NEW rest, DestroyStack(z, {}, rest)
    PROVE  /\ \A y : CountIn(stack', RefFrames(y)) = CountIn(stack, RefFrames(y))
           /\ \A o \in Objs : CountIn(stack', HoldFrames(o)) = CountIn(stack, HoldFrames(o))
<1>1. /\ stack \in Seq(Frames) /\ stack # <<>> /\ stack' \in Seq(Frames)
      /\ Replaced(stack, stack', rest)
  <2>1. \A f : {} # {f}
    OBVIOUS
  <2> QED BY <2>1, Context DEF DestroyStack
<1>2. ASSUME NEW F, rest \notin F, Top \notin F PROVE CountIn(stack', F) = CountIn(stack, F)
  <2>1. Bit(Top, F) = 0 /\ Bit(rest, F) = 0
    BY <1>2 DEF Bit
  <2>2. CountIn(stack, F) \in Nat /\ CountIn(stack', F) = CountIn(stack, F) - Bit(Top, F) + Bit(rest, F)
    BY <1>1, Counts
  <2> QED BY <2>1, <2>2
<1>3. ASSUME NEW y PROVE CountIn(stack', RefFrames(y)) = CountIn(stack, RefFrames(y))
  <2>1. rest \notin RefFrames(y) /\ Top \notin RefFrames(y)
    BY DestroyCounts
  <2> QED BY <1>2, <2>1
<1>4. ASSUME NEW o \in Objs PROVE CountIn(stack', HoldFrames(o)) = CountIn(stack, HoldFrames(o))
  <2>1. rest \notin HoldFrames(o) /\ Top \notin HoldFrames(o)
    BY DestroyCounts
  <2> QED BY <1>2, <2>1
<1> QED BY <1>3, <1>4

LEMMA DestroyOne ==
    ASSUME IInv, Sound, NEW z, NEW f, NEW rest, DestroyStack(z, {f}, rest)
    PROVE  /\ \A y : /\ CountIn(stack, RefFrames(y)) \in Nat
                     /\ CountIn(stack', RefFrames(y)) = CountIn(stack, RefFrames(y)) + Bit(f, RefFrames(y))
           /\ \A o \in Objs :
                 /\ CountIn(stack, HoldFrames(o)) \in Nat
                 /\ CountIn(stack', HoldFrames(o)) = CountIn(stack, HoldFrames(o)) + Bit(f, HoldFrames(o))
           /\ \E n \in Nat : /\ n >= 1 /\ Len(stack) = n + 1 /\ Fr(stack, n + 1) = Top
                             /\ n + 1 \in 1..Len(stack) /\ n + 1 \in 1..Len(stack') /\ Fr(stack', n + 1) = rest
                             /\ Moves(stack, stack', n, {rest} \cup {f})
                             /\ \A h \in 1..Len(stack') : h > n + 1 => Fr(stack', h) \in {f}
                             /\ stack'[1] = f /\ Len(stack') = n + 2
<1>1. /\ stack \in Seq(Frames) /\ stack # <<>> /\ stack' \in Seq(Frames)
      /\ Doubled(stack, stack', f, rest)
  <2>1. \E g : {f} = {g} /\ Doubled(stack, stack', g, rest)
    BY DEF DestroyStack
  <2>2. \A g : {f} = {g} => g = f
    OBVIOUS
  <2> QED BY <2>1, <2>2, Context DEF DestroyStack
<1>2. ASSUME NEW F, rest \notin F, Top \notin F
      PROVE  CountIn(stack, F) \in Nat /\ CountIn(stack', F) = CountIn(stack, F) + Bit(f, F)
  <2>1. Bit(Top, F) = 0 /\ Bit(rest, F) = 0 /\ Bit(f, F) \in {0, 1}
    BY <1>2 DEF Bit
  <2>2. CountIn(stack, F) \in Nat /\ CountIn(stack', F) = CountIn(stack, F) - Bit(Top, F) + Bit(rest, F) + Bit(f, F)
    BY <1>1, Counts
  <2> QED BY <2>1, <2>2
<1>3. ASSUME NEW y
      PROVE  /\ CountIn(stack, RefFrames(y)) \in Nat
             /\ CountIn(stack', RefFrames(y)) = CountIn(stack, RefFrames(y)) + Bit(f, RefFrames(y))
  <2>1. rest \notin RefFrames(y) /\ Top \notin RefFrames(y)
    BY DestroyCounts
  <2> QED BY <1>2, <2>1
<1>4. ASSUME NEW o \in Objs
      PROVE  /\ CountIn(stack, HoldFrames(o)) \in Nat
             /\ CountIn(stack', HoldFrames(o)) = CountIn(stack, HoldFrames(o)) + Bit(f, HoldFrames(o))
  <2>1. rest \notin HoldFrames(o) /\ Top \notin HoldFrames(o)
    BY DestroyCounts
  <2> QED BY <1>2, <2>1
<1>5. PICK n \in Nat : /\ n >= 1 /\ Len(stack) = n + 1 /\ Fr(stack, n + 1) = Top
                       /\ n + 1 \in 1..Len(stack) /\ n + 1 \in 1..Len(stack') /\ Fr(stack', n + 1) = rest
                       /\ Moves(stack, stack', n, {rest} \cup {f})
                       /\ \A h \in 1..Len(stack') : h > n + 1 => Fr(stack', h) \in {f}
                       /\ {f} # {} => {f} = {stack'[1]} /\ Len(stack') = n + 2
  BY DestroyShape
<1>6. stack'[1] = f /\ Len(stack') = n + 2
  BY <1>5
<1> QED BY <1>3, <1>4, <1>5, <1>6

LEMMA DestroyStep ==
    ASSUME IInv, Sound, Destroy
    PROVE  TypeOK' /\ (Sound' => Inv')
<1>1. /\ Top.at = "destroy"
      /\ to' = to /\ valid' = valid /\ called' = called /\ var' = var
      /\ buf' = buf /\ addr' = addr /\ purple' = purple /\ steps' = steps /\ lost' = lost
  BY DEF Destroy, At, buffer, ghosts
<1>2. PICK z \in Top.todo :
        LET rest == [Top EXCEPT !.todo = @ \ {z}] IN
        CASE kind[z] = "array" ->
                /\ kind' = [kind EXCEPT ![z] = "null"]
                /\ elems' = [elems EXCEPT ![z] = {}]
                /\ stack' = <<[Frame("release", 0, 0) EXCEPT !.todo = elems[z]], rest>> \o Tail(stack)
                /\ UNCHANGED rc
          [] kind[z] = "object" /\ Garbage(to[z]) ->
                /\ kind' = [kind EXCEPT ![z] = "null"]
                /\ rc' = [rc EXCEPT ![to[z]] = 1]
                /\ stack' = <<Frame("del_ref", to[z], 0), rest>> \o Tail(stack)
                /\ UNCHANGED elems
          [] OTHER ->
                /\ stack' = <<rest>> \o Tail(stack)
                /\ UNCHANGED <<kind, elems, rc>>
  BY DEF Destroy, Replace
<1>3. PICK rest : rest = [Top EXCEPT !.todo = @ \ {z}]
  OBVIOUS
<1>4. /\ kind[z] = "array" =>
            /\ kind' = [kind EXCEPT ![z] = "null"]
            /\ elems' = [elems EXCEPT ![z] = {}]
            /\ stack' = <<[Frame("release", 0, 0) EXCEPT !.todo = elems[z]], rest>> \o Tail(stack)
            /\ rc' = rc
      /\ kind[z] = "object" /\ Garbage(to[z]) =>
            /\ kind' = [kind EXCEPT ![z] = "null"]
            /\ rc' = [rc EXCEPT ![to[z]] = 1]
            /\ stack' = <<Frame("del_ref", to[z], 0), rest>> \o Tail(stack)
            /\ elems' = elems
      /\ kind[z] # "array" /\ ~ (kind[z] = "object" /\ Garbage(to[z])) =>
            stack' = <<rest>> \o Tail(stack) /\ kind' = kind /\ elems' = elems /\ rc' = rc
  <2> HIDE DEF Garbage
  <2> QED BY <1>2, <1>3
<1>5. /\ TypeOK /\ Inv /\ Top \in Frames /\ Objs \subseteq Nodes /\ Zvals \subseteq Nodes /\ Zvals \cap Objs = {}
      /\ 0 \notin Objs /\ 0 \notin Zvals
  BY Context, Sizes
<1>6. /\ rc \in [Nodes -> Nat] /\ valid \subseteq Objs /\ elems \in [Nodes -> SUBSET Zvals]
      /\ to \in [Zvals -> Objs \cup {0}] /\ kind \in [Zvals -> {"none", "array", "object", "null"}]
      /\ HeapInv
  BY <1>5 DEF TypeOK, Inv
<1>7. /\ z \in Zvals /\ z \in Nodes /\ kind[z] # "none" /\ z \notin Part(Top, 3)
      /\ kind[z] = "object" /\ Garbage(to[z]) => to[z] \in called
      /\ z \in Top.list /\ z \in Listed
      /\ \A h \in 1..Len(stack) - 1 : z \notin Fr(stack, h).list
  BY <1>1, <1>5, DestroyedApart
<1>8. kind[z] \in {"array", "object"}
  <2> SUFFICES ASSUME kind[z] = "null" PROVE FALSE
    BY <1>6, <1>7
  <2>1. z \in Parts(stack, 3)
    BY <1>6, <1>7 DEF HeapInv, NullsOK
  <2>2. PICK h \in 1..Len(stack) : z \in Part(Fr(stack, h), 3)
    BY <2>1, PartMember
  <2>3. z \in Fr(stack, h).list
    BY <2>2, PartsListed
  <2>4. PICK n \in Nat : Len(stack) = n + 1 /\ Fr(stack, n + 1) = Top
    BY Context
  <2>5. h \in 1..Len(stack) - 1
    BY <1>7, <2>2, <2>4
  <2> QED BY <1>7, <2>3, <2>5
<1>9. \A N : DestroyStack(z, N, rest) =>
          /\ stack' \in Seq(Frames) /\ stack' # <<>> /\ rest \in Frames /\ rest.at = "destroy" /\ rest.n = 0 /\ rest.z = 0
          /\ rest.todo = Top.todo \ {z} /\ rest.list = Top.list
  BY DEF DestroyStack
<1>10. CASE kind[z] = "array"
  <2>1. /\ kind' = [kind EXCEPT ![z] = "null"] /\ elems' = [elems EXCEPT ![z] = {}] /\ rc' = rc
        /\ stack' = <<[Frame("release", 0, 0) EXCEPT !.todo = elems[z]], rest>> \o Tail(stack)
    BY <1>4, <1>10
  <2>2. PICK f : f = [Frame("release", 0, 0) EXCEPT !.todo = elems[z]]
    OBVIOUS
  <2>3. f \in Frames /\ f.at = "release" /\ f.n = 0 /\ f.z = 0 /\ f.todo = elems[z] /\ f.list = {}
    <3>1. "release" \in Labels /\ 0 \in Nodes \cup {0} /\ 0 \in Zvals \cup {0} /\ elems[z] \in SUBSET Zvals
      BY <1>6, <1>7 DEF Labels
    <3>2. LET y == [Frame("release", 0, 0) EXCEPT !.todo = elems[z]] IN
          y \in Frames /\ y.at = "release" /\ y.n = 0 /\ y.z = 0 /\ y.todo = elems[z] /\ y.list = {}
      BY ONLY <3>1 DEF Frame, Frames
    <3> QED BY <2>2, <3>2
  <2>4. DestroyStack(z, {f}, rest)
    <3>1. FieldsOK(f) /\ stack' = <<f, rest>> \o Tail(stack)
      BY <2>1, <2>2, <2>3 DEF FieldsOK
    <3> QED BY <1>1, <1>3, <2>3, <3>1, DestroyFrom
  <2>5. TypeOK'
    <3>1. kind' \in [Zvals -> {"none", "array", "object", "null"}] /\ elems' \in [Nodes -> SUBSET Zvals]
      BY <1>6, <1>7, <2>1
    <3>2. UNCHANGED <<to, rc, valid, called, var, buf, addr, purple, steps, lost>>
      BY <1>1, <2>1
    <3>3. stack' \in Seq(Frames) /\ stack' # <<>>
      BY <1>9, <2>4
    <3> QED BY ONLY <1>5, <3>1, <3>2, <3>3 DEF TypeOK
  <2>6. PICK n \in Nat : /\ n >= 1 /\ Len(stack) = n + 1 /\ Fr(stack, n + 1) = Top
                         /\ n + 1 \in 1..Len(stack) /\ n + 1 \in 1..Len(stack') /\ Fr(stack', n + 1) = rest
                         /\ Moves(stack, stack', n, {rest} \cup {f})
                         /\ \A h \in 1..Len(stack') : h > n + 1 => Fr(stack', h) \in {f}
    BY <2>4, DestroyOne
  <2>7. DestroyFrames(z, {}, {f}, rest, n)
    BY <1>9, <2>3, <2>4, <2>6 DEF DestroyFrames
  <2>8. /\ \A y : CountIn(stack', RefFrames(y)) = CountIn(stack, RefFrames(y)) + (IF y \in elems[z] THEN 1 ELSE 0)
        /\ \A o \in Objs : CountIn(stack', HoldFrames(o)) = CountIn(stack, HoldFrames(o))
    <3>1. ASSUME NEW y
          PROVE  CountIn(stack', RefFrames(y)) = CountIn(stack, RefFrames(y)) + (IF y \in elems[z] THEN 1 ELSE 0)
      <4>1. CountIn(stack', RefFrames(y)) = CountIn(stack, RefFrames(y)) + Bit(f, RefFrames(y))
        BY <2>4, DestroyOne
      <4>2. Bit(f, RefFrames(y)) = IF y \in elems[z] THEN 1 ELSE 0
        BY <2>3, Bits DEF Refers
      <4> QED BY <4>1, <4>2
    <3>2. ASSUME NEW o \in Objs PROVE CountIn(stack', HoldFrames(o)) = CountIn(stack, HoldFrames(o))
      <4>1. CountIn(stack, HoldFrames(o)) \in Nat
            /\ CountIn(stack', HoldFrames(o)) = CountIn(stack, HoldFrames(o)) + Bit(f, HoldFrames(o))
        BY <2>4, DestroyOne
      <4>2. Bit(f, HoldFrames(o)) = 0
        BY <2>3, Bits DEF Holds, HoldLabels
      <4> QED BY <4>1, <4>2
    <3> QED BY <3>1, <3>2
  <2>9. \A o \in Objs : CountIn(stack', HoldFrames(o)) = CountIn(stack, HoldFrames(o)) + (IF o \in {} THEN 1 ELSE 0)
    <3>1. \A o : CountIn(stack, HoldFrames(o)) \in Nat
      BY <2>6, NoneCounted
    <3> QED BY <2>8, <3>1
  <2>10. kind'[z] = "null" /\ \A y \in Zvals : y # z => kind'[y] = kind[y]
    BY <1>6, <1>7, <2>1
  <2>11. Destroying(z, {}, {f}, rest, n) /\ Shape'
    BY <1>1, <1>7, <1>10, <2>1, <2>4, <2>7, <2>8, <2>9, <2>10, DestroyShape DEF Destroying
  <2> QED BY <2>5, <2>11, DestroyingStep
<1>11. CASE kind[z] = "object" /\ Garbage(to[z])
  <2>1. PICK o \in Objs : o = to[z] /\ o \in Nodes /\ o \in valid /\ rc[o] = 0 /\ o \in called
    BY <1>5, <1>6, <1>7, <1>11 DEF Garbage
  <2>2. /\ kind' = [kind EXCEPT ![z] = "null"] /\ elems' = elems /\ rc' = [rc EXCEPT ![o] = 1]
        /\ stack' = <<Frame("del_ref", o, 0), rest>> \o Tail(stack)
    BY <1>4, <1>11, <2>1
  <2>3. PICK f : f = Frame("del_ref", o, 0)
    OBVIOUS
  <2>4. f \in Frames /\ f.at = "del_ref" /\ f.n = o /\ f.z = 0 /\ f.todo = {} /\ f.list = {}
    <3>1. "del_ref" \in Labels /\ o \in Nodes \cup {0} /\ 0 \in Zvals \cup {0}
      BY <2>1 DEF Labels
    <3>2. LET y == Frame("del_ref", o, 0) IN
          y \in Frames /\ y.at = "del_ref" /\ y.n = o /\ y.z = 0 /\ y.todo = {} /\ y.list = {}
      BY ONLY <3>1 DEF Frame, Frames
    <3> QED BY <2>3, <3>2
  <2>5. DestroyStack(z, {f}, rest)
    <3>1. FieldsOK(f) /\ stack' = <<f, rest>> \o Tail(stack)
      BY <2>2, <2>3, <2>4 DEF FieldsOK
    <3> QED BY <1>1, <1>3, <2>4, <3>1, DestroyFrom
  <2>6. TypeOK'
    <3>1. kind' \in [Zvals -> {"none", "array", "object", "null"}] /\ rc' \in [Nodes -> Nat]
      BY <1>6, <1>7, <2>1, <2>2
    <3>2. UNCHANGED <<to, elems, valid, called, var, buf, addr, purple, steps, lost>>
      BY <1>1, <2>2
    <3>3. stack' \in Seq(Frames) /\ stack' # <<>>
      BY <1>9, <2>5
    <3> QED BY ONLY <1>5, <3>1, <3>2, <3>3 DEF TypeOK
  <2>7. PICK n \in Nat : /\ n >= 1 /\ Len(stack) = n + 1 /\ Fr(stack, n + 1) = Top
                         /\ n + 1 \in 1..Len(stack) /\ n + 1 \in 1..Len(stack') /\ Fr(stack', n + 1) = rest
                         /\ Moves(stack, stack', n, {rest} \cup {f})
                         /\ \A h \in 1..Len(stack') : h > n + 1 => Fr(stack', h) \in {f}
                         /\ stack'[1] = f /\ Len(stack') = n + 2
    BY <2>5, DestroyOne
  <2>8. DestroyFrames(z, {o}, {f}, rest, n)
    BY <1>9, <2>4, <2>5, <2>7 DEF DestroyFrames
  <2>9. elems[z] = {} /\ elems' = [elems EXCEPT ![z] = {}]
    BY <1>6, <1>7, <1>11, <2>2 DEF HeapInv, KindsOK
  <2>10. /\ \A y : CountIn(stack', RefFrames(y)) = CountIn(stack, RefFrames(y)) + (IF y \in elems[z] THEN 1 ELSE 0)
         /\ \A x \in Objs : CountIn(stack', HoldFrames(x)) = CountIn(stack, HoldFrames(x)) + (IF x \in {o} THEN 1 ELSE 0)
    <3>1. ASSUME NEW y
          PROVE  CountIn(stack', RefFrames(y)) = CountIn(stack, RefFrames(y)) + (IF y \in elems[z] THEN 1 ELSE 0)
      <4>1. CountIn(stack', RefFrames(y)) = CountIn(stack, RefFrames(y)) + Bit(f, RefFrames(y))
        BY <2>5, DestroyOne
      <4>2. Bit(f, RefFrames(y)) = 0
        BY <2>4, Bits DEF Refers
      <4> QED BY <2>9, <4>1, <4>2
    <3>2. ASSUME NEW x \in Objs
          PROVE  CountIn(stack', HoldFrames(x)) = CountIn(stack, HoldFrames(x)) + (IF x \in {o} THEN 1 ELSE 0)
      <4>1. CountIn(stack', HoldFrames(x)) = CountIn(stack, HoldFrames(x)) + Bit(f, HoldFrames(x))
        BY <2>5, DestroyOne
      <4>2. Bit(f, HoldFrames(x)) = IF x \in {o} THEN 1 ELSE 0
        BY <2>4, Bits DEF Holds, HoldLabels
      <4> QED BY <4>1, <4>2
    <3> QED BY <3>1, <3>2
  <2>11. kind'[z] = "null" /\ (\A y \in Zvals : y # z => kind'[y] = kind[y])
         /\ rc'[o] = 1 /\ \A m \in Nodes : m \notin {o} => rc'[m] = rc[m]
    BY <1>6, <1>7, <2>1, <2>2
  <2>12. {o} \subseteq valid /\ \A m \in {o} : rc[m] = 0 /\ rc'[m] = 1 /\ m \in called /\ kind[z] = "object" /\ to[z] = m
    BY <1>11, <2>1, <2>11
  <2>13. Destroying(z, {o}, {f}, rest, n) /\ Shape'
    BY <1>1, <1>7, <2>1, <2>5, <2>8, <2>9, <2>10, <2>11, <2>12, DestroyShape DEF Destroying
  <2> QED BY <2>6, <2>13, DestroyingStep
<1>12. CASE kind[z] = "object" /\ ~ Garbage(to[z])
  <2>1. stack' = <<rest>> \o Tail(stack) /\ kind' = kind /\ elems' = elems /\ rc' = rc
    BY <1>4, <1>12
  <2>2. DestroyStack(z, {}, rest)
    BY <1>1, <1>3, <2>1, DestroyFrom
  <2>3. TypeOK'
    <3>1. UNCHANGED <<kind, to, elems, rc, valid, called, var, buf, addr, purple, steps, lost>>
      BY <1>1, <2>1
    <3>2. stack' \in Seq(Frames) /\ stack' # <<>>
      BY <1>9, <2>2
    <3> QED BY ONLY <1>5, <3>1, <3>2 DEF TypeOK
  <2>4. PICK n \in Nat : /\ n >= 1 /\ Len(stack) = n + 1 /\ Fr(stack, n + 1) = Top
                         /\ n + 1 \in 1..Len(stack) /\ n + 1 \in 1..Len(stack') /\ Fr(stack', n + 1) = rest
                         /\ Moves(stack, stack', n, {rest} \cup {})
                         /\ \A h \in 1..Len(stack') : h > n + 1 => Fr(stack', h) \in {}
    <3>1. PICK N : N = {}
      OBVIOUS
    <3>2. DestroyStack(z, N, rest)
      BY <2>2, <3>1
    <3>3. PICK n \in Nat : /\ n >= 1 /\ Len(stack) = n + 1 /\ Fr(stack, n + 1) = Top
                           /\ n + 1 \in 1..Len(stack) /\ n + 1 \in 1..Len(stack') /\ Fr(stack', n + 1) = rest
                           /\ Moves(stack, stack', n, {rest} \cup N)
                           /\ \A h \in 1..Len(stack') : h > n + 1 => Fr(stack', h) \in N
      BY <3>2, DestroyShape
    <3> QED BY <3>1, <3>3
  <2>5. DestroyFrames(z, {}, {}, rest, n)
    BY <1>9, <2>2, <2>4 DEF DestroyFrames
  <2>6. elems[z] = {} /\ elems' = [elems EXCEPT ![z] = {}]
    BY <1>6, <1>7, <1>12, <2>1 DEF HeapInv, KindsOK
  <2>7. /\ \A y : CountIn(stack', RefFrames(y)) = CountIn(stack, RefFrames(y)) + (IF y \in elems[z] THEN 1 ELSE 0)
        /\ \A x \in Objs : CountIn(stack', HoldFrames(x)) = CountIn(stack, HoldFrames(x)) + (IF x \in {} THEN 1 ELSE 0)
    <3>1. \A F : CountIn(stack, F) \in Nat
      BY <2>4, NoneCounted
    <3>2. /\ \A y : CountIn(stack', RefFrames(y)) = CountIn(stack, RefFrames(y))
          /\ \A x \in Objs : CountIn(stack', HoldFrames(x)) = CountIn(stack, HoldFrames(x))
      BY <2>2, DestroyNone
    <3> QED BY <2>6, <3>1, <3>2
  <2>8. Destroying(z, {}, {}, rest, n) /\ Shape'
    BY <1>1, <1>7, <1>12, <2>1, <2>2, <2>5, <2>6, <2>7, DestroyShape DEF Destroying
  <2> QED BY <2>3, <2>8, DestroyingStep
<1> QED BY <1>8, <1>10, <1>11, <1>12
-----------------------------------------------------------------------------
\* Reachability: the least closed set around S.
LEMMA ReachFacts ==
    ASSUME NEW S \in SUBSET Nodes
    PROVE  /\ S \subseteq Reach(S) /\ Reach(S) \subseteq Nodes
           /\ \A T \in SUBSET Nodes : S \subseteq T /\ Closed(T) => Reach(S) \subseteq T
           /\ (\A n \in Nodes : Kids(n) \subseteq Nodes) => Closed(Reach(S))
<1> DEFINE closed == {T \in {S \cup U : U \in SUBSET (Nodes \ S)} : Closed(T)}
<1>1. Reach(S) = {n \in Nodes : \A T \in closed : n \in T}
  BY Zenon DEF Reach
<1>2. \A T : T \in closed <=> T \in SUBSET Nodes /\ S \subseteq T /\ Closed(T)
  <2>1. ASSUME NEW T, T \in closed PROVE T \in SUBSET Nodes /\ S \subseteq T /\ Closed(T)
    BY <2>1
  <2>2. ASSUME NEW T \in SUBSET Nodes, S \subseteq T, Closed(T) PROVE T \in closed
    <3>1. T \ S \in SUBSET (Nodes \ S) /\ T = S \cup (T \ S)
      BY <2>2
    <3> QED BY <2>2, <3>1
  <2> QED BY <2>1, <2>2
<1> HIDE DEF closed
<1>3. S \subseteq Reach(S) /\ Reach(S) \subseteq Nodes
  BY <1>1, <1>2
<1>4. ASSUME NEW T \in SUBSET Nodes, S \subseteq T, Closed(T) PROVE Reach(S) \subseteq T
  BY <1>1, <1>2, <1>4
<1>5. ASSUME \A n \in Nodes : Kids(n) \subseteq Nodes PROVE Closed(Reach(S))
  <2> SUFFICES ASSUME NEW n \in Reach(S), NEW k \in Kids(n) PROVE k \in Reach(S)
    BY DEF Closed
  <2>1. k \in Nodes
    BY <1>1, <1>5
  <2>2. \A T \in closed : k \in T
    BY <1>1, <1>2 DEF Closed
  <2> QED BY <1>1, <2>1, <2>2
<1> QED BY <1>3, <1>4, <1>5

LEMMA KidsFacts ==
    ASSUME IInv, Sound, NEW n \in Nodes
    PROVE  /\ Kids(n) \subseteq Nodes
           /\ \A z \in Zvals : z \in Kids(n) <=> z \in elems[n]
           /\ \A o \in Objs : o \in Kids(n) <=> n \in Denoting(kind, to, o)
<1>1. TypeOK /\ Inv /\ Zvals \cap Objs = {} /\ Nodes = Zvals \cup Objs
  BY Context, Sizes
<1>2. /\ elems[n] \subseteq Zvals
      /\ n \in Zvals /\ kind[n] = "object" => to[n] \in Objs /\ elems[n] = {}
  BY <1>1 DEF TypeOK, Inv, HeapInv, KindsOK
<1>3. CASE n \in Zvals /\ kind[n] = "object"
  BY <1>1, <1>2, <1>3 DEF Kids, Denoting
<1>4. CASE ~ (n \in Zvals /\ kind[n] = "object")
  <2>1. Kids(n) = elems[n]
    BY <1>4 DEF Kids
  <2> QED BY <1>1, <1>2, <1>4, <2>1 DEF Denoting
<1> QED BY <1>3, <1>4

LEMMA SuspectedFacts ==
    ASSUME IInv, Sound
    PROVE  /\ Suspected \subseteq Nodes /\ Anchored \subseteq Suspected /\ White \subseteq Suspected
           /\ \A z \in Suspected : z \in Zvals => kind[z] # "none" /\ z \notin Dying
           /\ \A w \in White : /\ rc[w] = RefsFrom(Suspected, w)
                               /\ \A m \in Suspected : w \in Kids(m) => m \in White
<1>1. TypeOK /\ Inv /\ Zvals \cap Objs = {} /\ Nodes = Zvals \cup Objs
  BY Context, Sizes
<1>2. HeapInv /\ DyingInv /\ BufInv /\ purple \subseteq Nodes /\ elems \in [Nodes -> SUBSET Zvals]
  BY <1>1 DEF TypeOK, Inv
<1>3. PICK S : S = {n \in purple : \E e \in Entries : buf[e] = n}
  OBVIOUS
<1>4. S \in SUBSET Nodes /\ Suspected = Reach(S)
  BY <1>2, <1>3 DEF Suspected
<1>5. \A n \in Nodes : Kids(n) \subseteq Nodes
  BY KidsFacts
<1>6. Suspected \subseteq Nodes /\ Closed(Suspected)
  BY <1>4, <1>5, ReachFacts
<1>7. Anchored \subseteq Suspected /\ White \subseteq Suspected
  BY DEF Anchored, White
<1>8. \A z \in Suspected : z \in Zvals => kind[z] # "none" /\ z \notin Dying
  <2> DEFINE T == {n \in Nodes : n \in Zvals => kind[n] # "none" /\ n \notin Dying}
  <2>1. S \subseteq T
    <3> SUFFICES ASSUME NEW n \in S, n \in Zvals PROVE kind[n] # "none" /\ n \notin Dying
      BY <1>4
    <3>1. PICK e \in Entries : buf[e] = n
      BY <1>3
    <3> QED BY <1>2, <3>1 DEF BufInv, DyingInv, DyingBuf
  <2>2. Closed(T)
    <3> SUFFICES ASSUME NEW n \in T, NEW k \in Kids(n) PROVE k \in T
      BY DEF Closed
    <3>1. n \in Nodes /\ k \in Nodes
      BY <1>5
    <3>2. ASSUME k \in Zvals PROVE kind[k] # "none" /\ k \notin Dying
      <4>1. k \in elems[n]
        BY <3>1, <3>2, KidsFacts
      <4> QED BY <1>2, <3>1, <4>1 DEF HeapInv, ElemsHold, DyingInv, DyingHeap
    <3> QED BY <3>1, <3>2
  <2>3. T \in SUBSET Nodes
    OBVIOUS
  <2>4. Suspected \subseteq T
    <3> HIDE DEF T
    <3> QED BY <1>4, <2>1, <2>2, <2>3, ReachFacts
  <2> QED BY <2>4
<1>9. ASSUME NEW w \in White
      PROVE  /\ rc[w] = RefsFrom(Suspected, w)
             /\ \A m \in Suspected : w \in Kids(m) => m \in White
  <2>1. /\ Anchored \in SUBSET Nodes
        /\ w \in Suspected /\ w \notin Reach(Anchored)
    BY <1>6, <1>7 DEF White
  <2>2. Anchored \subseteq Reach(Anchored) /\ Closed(Reach(Anchored))
    BY <1>5, <2>1, ReachFacts
  <2>3. w \notin Anchored
    BY <2>1, <2>2
  <2>4. rc[w] = RefsFrom(Suspected, w)
    BY <2>1, <2>3, Zenon DEF Anchored
  <2>5. \A m \in Suspected : w \in Kids(m) => m \in White
    BY <2>1, <2>2 DEF Closed, White
  <2> QED BY <2>4, <2>5
<1> QED BY <1>6, <1>7, <1>8, <1>9

\* A white zval: all its references come from white nodes.
LEMMA WhiteZval ==
    ASSUME IInv, Sound, NEW z \in White, z \in Zvals
    PROVE  /\ kind[z] # "none" /\ z \notin Dying /\ z \notin Listed
           /\ \A v \in Vars : var[v] # z
           /\ \A h \in 1..Len(stack) : ~ Refers(Fr(stack, h), z)
           /\ \A m \in Nodes : z \in elems[m] => m \in White
<1>1. /\ TypeOK /\ Inv /\ FrTypes /\ z \in Suspected /\ Suspected \subseteq Nodes /\ IsFiniteSet(Nodes)
      /\ kind[z] # "none" /\ z \notin Dying
      /\ rc[z] = RefsFrom(Suspected, z)
      /\ \A m \in Suspected : z \in Kids(m) => m \in White
  BY Context, SuspectedFacts, Sizes
<1>2. Len(stack) \in Nat
  BY Context
<1> DEFINE K == {m \in Suspected : z \in Kids(m)}
           E == {m \in Nodes : z \in elems[m]}
<1>3. K \subseteq E
  BY <1>1, KidsFacts
<1>4. RefsFrom(Suspected, z) = Cardinality(K)
  BY Zenon DEF RefsFrom
<1>5. ElemRefs(elems, z) = Cardinality(E)
  BY Zenon DEF ElemRefs
<1>6. IsFiniteSet(E)
  <2>1. E \subseteq Nodes
    OBVIOUS
  <2> HIDE DEF E
  <2> QED BY <1>1, <2>1, FS_Subset
<1>7. /\ Cardinality(K) \in Nat /\ Cardinality(K) <= Cardinality(E)
      /\ Cardinality(K) = Cardinality(E) => K = E
  <2> HIDE DEF K, E
  <2>1. IsFiniteSet(K) /\ Cardinality(K) <= Cardinality(E) /\ (Cardinality(K) = Cardinality(E) => K = E)
    BY <1>3, <1>6, FS_Subset
  <2>2. Cardinality(K) \in Nat
    BY <2>1, FS_CardinalityType
  <2> QED BY <2>1, <2>2
<1>8. rc[z] = VarRefs(var, z) + ElemRefs(elems, z) + CountIn(stack, RefFrames(z)) + ListRef(z)
  BY <1>1 DEF Inv, HeapInv, ZvalCounts
<1>9. /\ VarRefs(var, z) \in Nat /\ ElemRefs(elems, z) \in Nat /\ CountIn(stack, RefFrames(z)) \in Nat
      /\ ListRef(z) \in {0, 1}
  BY <1>2, NoneCounted DEF ListRef
<1>10. /\ VarRefs(var, z) = 0 /\ CountIn(stack, RefFrames(z)) = 0 /\ ListRef(z) = 0
       /\ Cardinality(K) = Cardinality(E)
  <2> HIDE DEF K, E
  <2>1. rc[z] = Cardinality(K)
    BY <1>1, <1>4
  <2> QED BY ONLY <1>5, <1>7, <1>8, <1>9, <2>1
<1>11. \A v \in Vars : var[v] # z
  BY <1>10, NoneCounted
<1>12. z \notin Listed
  BY <1>10 DEF ListRef
<1>13. \A h \in 1..Len(stack) : ~ Refers(Fr(stack, h), z)
  <2>1. \A h \in 1..Len(stack) : Fr(stack, h) \notin RefFrames(z)
    BY <1>2, <1>10, NoneCounted
  <2> QED BY <1>1, <2>1 DEF FrTypes, RefFrames
<1>14. \A m \in Nodes : z \in elems[m] => m \in White
  <2>1. \A m \in Nodes : z \in elems[m] => m \in E
    OBVIOUS
  <2>2. \A m \in E : m \in K
    BY <1>7, <1>10
  <2>3. \A m \in K : m \in White
    BY <1>1
  <2> QED BY <2>1, <2>2, <2>3
<1> QED BY <1>1, <1>11, <1>12, <1>13, <1>14

\* The list of a collection, and how many of its zvals denote an object.
LEMMA ListObj ==
    ASSUME IInv, Sound, NEW L, L = White \cap Zvals, NEW o \in Objs
    PROVE  /\ L \subseteq Zvals
           /\ Denoting(kind, to, o) \cap L \subseteq Counted(o)
           /\ RefsFrom(L, o) = Cardinality(Denoting(kind, to, o) \cap L)
           /\ RefsFrom(L, o) \in Nat /\ RefsFrom(L, o) <= rc[o]
           /\ Cardinality(Counted(o) \ L) = Cardinality(Counted(o)) - RefsFrom(L, o)
           /\ (RefsFrom(L, o) = 0 <=> Denoting(kind, to, o) \cap L = {})
<1>1. L \subseteq Zvals /\ L \subseteq Nodes
  BY Sizes
<1>2. PICK D : D = Denoting(kind, to, o) \cap L
  OBVIOUS
<1>3. D \subseteq Counted(o)
  <2>1. \A z \in L : z \notin Listed /\ z \notin Dying
    BY WhiteZval
  <2> QED BY <1>2, <2>1 DEF Counted
<1>4. {m \in L : o \in Kids(m)} = D
  <2>1. \A m \in L : o \in Kids(m) <=> m \in Denoting(kind, to, o)
    BY <1>1, KidsFacts
  <2> QED BY <1>2, <2>1
<1>5. RefsFrom(L, o) = Cardinality(D)
  BY <1>4, Zenon DEF RefsFrom
<1>6. /\ IsFiniteSet(Counted(o)) /\ Cardinality(Counted(o)) \in Nat
      /\ rc[o] = Cardinality(Counted(o)) + CountIn(stack, HoldFrames(o)) /\ CountIn(stack, HoldFrames(o)) \in Nat
  BY ObjRefs
<1>7. IsFiniteSet(D) /\ Cardinality(D) <= Cardinality(Counted(o))
  BY <1>3, <1>6, FS_Subset
<1>8. Cardinality(D) \in Nat /\ (Cardinality(D) = 0 <=> D = {})
  BY <1>7, FS_CardinalityType, FS_EmptySet
<1>9. Cardinality(Counted(o) \ L) = Cardinality(Counted(o)) - Cardinality(D)
  <2>1. Counted(o) \ L = Counted(o) \ D
    BY <1>2, <1>3 DEF Counted
  <2>2. Cardinality(Counted(o) \ D) = Cardinality(Counted(o)) - Cardinality(Counted(o) \cap D)
    BY <1>6, FS_Difference
  <2>3. Counted(o) \cap D = D
    BY <1>3
  <2> QED BY <2>1, <2>2, <2>3
<1>10. RefsFrom(L, o) \in Nat /\ RefsFrom(L, o) <= rc[o]
  BY ONLY <1>5, <1>6, <1>7, <1>8
<1> QED BY <1>1, <1>2, <1>3, <1>5, <1>8, <1>9, <1>10

\* A white object: only listed zvals refer to it.
LEMMA WhiteObj ==
    ASSUME IInv, Sound, NEW L, L = White \cap Zvals, NEW o \in White, o \in Objs
    PROVE  rc[o] = RefsFrom(L, o) /\ Counted(o) \subseteq L
<1>1. /\ Suspected \subseteq Nodes /\ White \subseteq Suspected
      /\ rc[o] = RefsFrom(Suspected, o)
      /\ \A m \in Suspected : o \in Kids(m) => m \in White
  BY SuspectedFacts
<1>2. \A m \in Suspected : o \in Kids(m) => m \in Zvals
  BY <1>1, KidsFacts DEF Denoting
<1>3. {m \in Suspected : o \in Kids(m)} = {m \in L : o \in Kids(m)}
  BY <1>1, <1>2
<1>4. rc[o] = RefsFrom(L, o)
  BY <1>1, <1>3, Zenon DEF RefsFrom
<1>5. /\ rc[o] = Cardinality(Counted(o)) + CountIn(stack, HoldFrames(o))
      /\ Cardinality(Counted(o)) \in Nat /\ CountIn(stack, HoldFrames(o)) \in Nat
      /\ IsFiniteSet(Counted(o))
  BY ObjRefs
<1>6. RefsFrom(L, o) \in Nat /\ Cardinality(Counted(o) \ L) = Cardinality(Counted(o)) - RefsFrom(L, o)
  BY ListObj
<1>7. PICK R : R = Counted(o) \ L
  OBVIOUS
<1>8. IsFiniteSet(R) /\ Cardinality(R) \in Nat
  BY <1>5, <1>7, FS_Subset, FS_CardinalityType
<1>9. Cardinality(R) = 0
  <2>1. Cardinality(R) = Cardinality(Counted(o)) - RefsFrom(L, o)
    BY <1>6, <1>7
  <2>2. RefsFrom(L, o) = Cardinality(Counted(o)) + CountIn(stack, HoldFrames(o))
    BY <1>4, <1>5
  <2>3. ASSUME NEW a \in Nat, NEW b \in Nat, NEW c \in Nat, NEW d \in Nat, d = b - a, a = b + c PROVE d = 0
    BY <2>3
  <2>4. /\ Cardinality(R) \in Nat /\ RefsFrom(L, o) \in Nat /\ Cardinality(Counted(o)) \in Nat
        /\ CountIn(stack, HoldFrames(o)) \in Nat
    BY <1>5, <1>6, <1>8
  <2> QED BY ONLY <2>1, <2>2, <2>3, <2>4
<1>10. R = {}
  BY <1>8, <1>9, FS_EmptySet
<1> QED BY <1>4, <1>7, <1>10

\* The stack after the passes: the list L in a frame f, unless it is empty.
PassFrames(L, N, f, n) ==
    /\ n \in Nat /\ n >= 1 /\ Len(stack) = n + 1 /\ Fr(stack, n + 1) = Top
    /\ f \in Frames /\ f.at = "destructors" /\ f.n = 0 /\ f.z = 0 /\ f.todo = {} /\ f.list = L /\ ~ f.check
    /\ stack' \in Seq(Frames) /\ stack' # <<>>
    /\ Moves(stack, stack', n, N) /\ N \subseteq {f} /\ Shape'
    /\ \A h \in 1..n : h \in 1..Len(stack) /\ h \in 1..Len(stack') /\ Fr(stack', h) = Fr(stack, h)
    /\ \A h \in 1..Len(stack') : h \in 1..n \/ (h = n + 1 /\ Fr(stack', h) = f)
    /\ L # {} => n + 1 \in 1..Len(stack') /\ Fr(stack', n + 1) = f
    /\ Listed' = Listed \cup L /\ Dying' = Dying
    /\ Parts(stack', 3) = Parts(stack, 3) /\ Parts(stack', 4) = Parts(stack, 4) \cup L
    /\ \A y : CountIn(stack', RefFrames(y)) = CountIn(stack, RefFrames(y))
    /\ \A o \in Objs : CountIn(stack', HoldFrames(o)) = CountIn(stack, HoldFrames(o))

LEMMA PassStack ==
    ASSUME IInv, Sound, Top.at = "collect", NEW L \in SUBSET Zvals,
           IF L = {} THEN Return ELSE Replace([Frame("destructors", 0, 0) EXCEPT !.list = L])
    PROVE  \E N, f, n : PassFrames(L, N, f, n)
<1>1. /\ TypeOK /\ Inv /\ stack \in Seq(Frames) /\ stack # <<>> /\ FrTypes /\ Views /\ Top \in Frames /\ FieldsOK(Top)
      /\ 0 \notin Objs
  BY Context, Sizes
<1>2. PICK n \in Nat : Len(stack) = n + 1 /\ Fr(stack, n + 1) = Top /\ Len(stack) - 1 = n /\ n >= 1
  BY Context
<1>3. PICK f : f = [Frame("destructors", 0, 0) EXCEPT !.list = L]
  OBVIOUS
<1>4. f \in Frames /\ f.at = "destructors" /\ f.n = 0 /\ f.z = 0 /\ f.todo = {} /\ f.list = L /\ ~ f.check
  <2>1. "destructors" \in Labels /\ 0 \in Nodes \cup {0} /\ 0 \in Zvals \cup {0} /\ L \in SUBSET Zvals
    BY DEF Labels
  <2>2. LET y == [Frame("destructors", 0, 0) EXCEPT !.list = L] IN
        y \in Frames /\ y.at = "destructors" /\ y.n = 0 /\ y.z = 0 /\ y.todo = {} /\ y.list = L /\ ~ y.check
    BY ONLY <2>1 DEF Frame, Frames
  <2> QED BY <1>3, <2>2
<1>5. /\ L = {} => stack' = Tail(stack)
      /\ L # {} => stack' = <<f>> \o Tail(stack)
  BY <1>3 DEF Return, Replace
<1>6. stack' \in Seq(Frames) /\ (L = {} => Popped(stack, stack')) /\ (L # {} => Replaced(stack, stack', f))
  BY <1>1, <1>4, <1>5, FrTail, FrReplace
<1>7. /\ Len(stack') = IF L = {} THEN n ELSE n + 1
      /\ \A h \in 1..n : Fr(stack', h) = Fr(stack, h)
      /\ L # {} => Fr(stack', n + 1) = f
  BY <1>2, <1>6 DEF Popped, Replaced, Kept
<1>8. PICK N : N = IF L = {} THEN {} ELSE {f}
  OBVIOUS
<1>9. Moves(stack, stack', n, N) /\ N \subseteq {f} /\ stack' # <<>>
  <2>1. stack' # <<>>
    BY <1>2, <1>7
  <2>2. CASE L = {}
    <3>1. Popped(stack, stack') /\ N = {}
      BY <1>6, <1>8, <2>2
    <3>2. Moves(stack, stack', n, {})
      BY <1>1, <1>2, <1>6, <3>1, AllMoves
    <3> QED BY <2>1, <3>1, <3>2
  <2>3. CASE L # {}
    <3>1. Replaced(stack, stack', f) /\ N = {f}
      BY <1>6, <1>8, <2>3
    <3>2. Moves(stack, stack', n, {f})
      BY <1>1, <1>2, <1>6, <3>1, AllMoves
    <3> QED BY <2>1, <3>1, <3>2
  <2> QED BY <2>2, <2>3
<1>10. /\ \A h \in 1..n : h \in 1..Len(stack) /\ h \in 1..Len(stack') /\ Fr(stack', h) = Fr(stack, h)
       /\ \A h \in 1..Len(stack') : h \in 1..n \/ (h = n + 1 /\ Fr(stack', h) = f)
       /\ L # {} => n + 1 \in 1..Len(stack') /\ Fr(stack', n + 1) = f
  <2>1. CASE L = {}
    BY <1>2, <1>7, <2>1
  <2>2. CASE L # {}
    BY <1>2, <1>7, <2>2
  <2> QED BY <2>1, <2>2
<1>11. Shape'
  <2>1. FieldsOK(f)
    BY <1>4 DEF FieldsOK
  <2>2. Shape /\ Top.at # "main" /\ f.at # "main"
    BY <1>1, <1>4 DEF Inv
  <2> QED BY <1>2, <1>6, <2>1, <2>2, ShapeSteps
<1>12. ASSUME NEW i \in 1..4
       PROVE  /\ i \in {1, 4} => Parts(stack', i) = Parts(stack, i) \cup L
              /\ i \notin {1, 4} => Parts(stack', i) = Parts(stack, i)
  <2>1. /\ Parts(stack, i) = Below(stack, i) \cup Part(stack[1], i)
        /\ L = {} => Parts(stack', i) = Below(stack, i)
        /\ L # {} => Parts(stack', i) = Below(stack, i) \cup Part(f, i)
    BY <1>1, <1>6, PartChanges
  <2>2. Part(stack[1], i) = {}
    <3>1. Top.list = {}
      BY <1>1 DEF FieldsOK
    <3>2. Part(Top, i) = {}
      BY <3>1 DEF Part
    <3> QED BY <3>2, Context
  <2>3. Part(f, i) = IF i \in {1, 4} THEN L ELSE {}
    BY <1>4 DEF Part
  <2> QED BY <2>1, <2>2, <2>3
<1>13. /\ Listed' = Listed \cup L /\ Dying' = Dying
       /\ Parts(stack', 3) = Parts(stack, 3) /\ Parts(stack', 4) = Parts(stack, 4) \cup L
  <2>1. /\ Parts(stack', 1) = Parts(stack, 1) \cup L /\ Parts(stack', 2) = Parts(stack, 2)
        /\ Parts(stack', 3) = Parts(stack, 3) /\ Parts(stack', 4) = Parts(stack, 4) \cup L
    <3>1. /\ 1 \in 1..4 /\ 2 \in 1..4 /\ 3 \in 1..4 /\ 4 \in 1..4
          /\ 1 \in {1, 4} /\ 2 \notin {1, 4} /\ 3 \notin {1, 4} /\ 4 \in {1, 4}
      OBVIOUS
    <3> QED BY ONLY <1>12, <3>1, Zenon
  <2>2. Listed = Parts(stack, 1) /\ Dying = Parts(stack, 2)
    BY <1>1, StackViews
  <2>3. stack' \in Seq(Frames)
    BY <1>6
  <2>4. Listed' = Parts(stack', 1) /\ Dying' = Parts(stack', 2)
    BY <2>3, NextViews, Zenon
  <2>5. Listed' = Listed \cup L /\ Dying' = Dying
    BY ONLY <2>1, <2>2, <2>4, Zenon
  <2> QED BY <2>1, <2>5
<1>14. ASSUME NEW F, f \notin F, Top \notin F PROVE CountIn(stack', F) = CountIn(stack, F)
  <2>1. Bit(Top, F) = 0 /\ Bit(f, F) = 0
    BY <1>14 DEF Bit
  <2>2. /\ CountIn(stack, F) \in Nat
        /\ L = {} => CountIn(stack', F) = CountIn(stack, F) - Bit(Top, F)
        /\ L # {} => CountIn(stack', F) = CountIn(stack, F) - Bit(Top, F) + Bit(f, F)
    BY <1>1, <1>6, Counts
  <2> QED BY <2>1, <2>2
<1>15. /\ \A y : ~ Refers(f, y) /\ ~ Refers(Top, y)
       /\ \A y \in Objs : ~ Holds(f, y) /\ ~ Holds(Top, y)
  BY <1>1, <1>4 DEF Refers, Holds, HoldLabels, FieldsOK
<1>16. ASSUME NEW y PROVE CountIn(stack', RefFrames(y)) = CountIn(stack, RefFrames(y))
  <2>1. f \notin RefFrames(y) /\ Top \notin RefFrames(y)
    BY <1>15 DEF RefFrames
  <2> QED BY <1>14, <2>1
<1>17. ASSUME NEW o \in Objs PROVE CountIn(stack', HoldFrames(o)) = CountIn(stack, HoldFrames(o))
  <2>1. f \notin HoldFrames(o) /\ Top \notin HoldFrames(o)
    BY <1>15 DEF HoldFrames
  <2> QED BY <1>14, <2>1
<1> QED BY <1>2, <1>4, <1>6, <1>9, <1>10, <1>11, <1>13, <1>16, <1>17 DEF PassFrames

LEMMA PassesStep ==
    ASSUME IInv, Sound, Passes
    PROVE  TypeOK' /\ (Sound' => Inv')
<1>1. PICK L : L = White \cap Zvals
  OBVIOUS
<1>2. /\ Top.at = "collect"
      /\ rc' = [m \in Nodes |-> CASE m \in White \cap Zvals -> rc[m] + 1
                                  [] m \in Objs -> rc[m] - RefsFrom(White \cap Zvals, m)
                                  [] OTHER      -> rc[m]]
      /\ IF White \cap Zvals = {} THEN Return
         ELSE Replace([Frame("destructors", 0, 0) EXCEPT !.list = White \cap Zvals])
      /\ buf' = [e \in Entries |-> 0]
      /\ addr' = [m \in Nodes |-> IF \E e \in Entries : buf[e] = m THEN 0 ELSE addr[m]]
      /\ purple' = purple \ Suspected
      /\ kind' = kind /\ to' = to /\ elems' = elems /\ valid' = valid /\ called' = called /\ var' = var
      /\ steps' = steps /\ lost' = lost \cup Miscounted
  BY Zenon DEF Passes, At
<1>3. Sound' => ~ \E o \in Doomed \cap White : elems[o] \cap White # {}
  BY Zenon DEF Passes, Sound
<1>4. /\ TypeOK /\ Inv /\ stack \in Seq(Frames) /\ stack # <<>> /\ FrTypes /\ Views /\ Top \in Frames /\ FieldsOK(Top)
      /\ Objs \subseteq Nodes /\ Zvals \subseteq Nodes /\ Nodes = Zvals \cup Objs /\ Zvals \cap Objs = {}
      /\ 0 \notin Objs /\ 0 \notin Zvals
  BY Context, Sizes
<1>5. /\ kind \in [Zvals -> {"none", "array", "object", "null"}] /\ to \in [Zvals -> Objs \cup {0}]
      /\ elems \in [Nodes -> SUBSET Zvals] /\ rc \in [Nodes -> Nat] /\ valid \subseteq Objs
      /\ buf \in [Entries -> Nodes \cup {0}] /\ addr \in [Nodes -> Entries \cup {0}] /\ purple \in SUBSET Nodes
      /\ Shape /\ HeapInv /\ FrameInv /\ DyingInv /\ ListInv /\ SealInv /\ BufInv
  BY <1>4 DEF TypeOK, Inv
<1>6. L \in SUBSET Zvals
  BY <1>1
<1>7. \A z \in L : /\ z \in Zvals /\ z \in White /\ kind[z] # "none" /\ z \notin Dying /\ z \notin Listed
                   /\ \A v \in Vars : var[v] # z
                   /\ \A h \in 1..Len(stack) : ~ Refers(Fr(stack, h), z)
                   /\ \A m \in Nodes : z \in elems[m] => m \in White
  BY <1>1, WhiteZval
<1>8. \A o \in Objs : /\ Denoting(kind, to, o) \cap L \subseteq Counted(o)
                      /\ RefsFrom(L, o) \in Nat /\ RefsFrom(L, o) <= rc[o]
                      /\ Cardinality(Counted(o) \ L) = Cardinality(Counted(o)) - RefsFrom(L, o)
                      /\ RefsFrom(L, o) = 0 <=> Denoting(kind, to, o) \cap L = {}
  BY <1>1, ListObj
<1>9. /\ \A z \in L : rc'[z] = rc[z] + 1
      /\ \A z \in Zvals : z \notin L => rc'[z] = rc[z]
      /\ \A o \in Objs : rc'[o] = rc[o] - RefsFrom(L, o)
      /\ rc' \in [Nodes -> Nat]
  <2>1. rc' = [m \in Nodes |-> CASE m \in L -> rc[m] + 1 [] m \in Objs -> rc[m] - RefsFrom(L, m) [] OTHER -> rc[m]]
    <3>1. ASSUME NEW W, L = W, rc' = [m \in Nodes |-> CASE m \in W -> rc[m] + 1
                                                      [] m \in Objs -> rc[m] - RefsFrom(W, m)
                                                      [] OTHER      -> rc[m]]
          PROVE  rc' = [m \in Nodes |-> CASE m \in L -> rc[m] + 1
                                          [] m \in Objs -> rc[m] - RefsFrom(L, m)
                                          [] OTHER      -> rc[m]]
      BY ONLY <3>1
    <3> QED BY ONLY <1>1, <1>2, <3>1
  <2>2. \A z \in L : z \in Nodes /\ rc'[z] = rc[z] + 1
    BY <1>4, <1>6, <2>1
  <2>3. \A z \in Zvals : z \notin L => rc'[z] = rc[z]
    BY <1>4, <2>1
  <2>4. \A o \in Objs : o \notin L /\ rc'[o] = rc[o] - RefsFrom(L, o)
    BY <1>4, <1>6, <2>1
  <2>5. ASSUME NEW m \in Nodes PROVE rc'[m] \in Nat
    <3>1. CASE m \in Objs
      <4>1. RefsFrom(L, m) \in Nat /\ RefsFrom(L, m) <= rc[m] /\ rc[m] \in Nat /\ rc'[m] = rc[m] - RefsFrom(L, m)
        BY <1>5, <1>8, <2>4, <3>1
      <4> QED BY ONLY <4>1
    <3>2. CASE m \in Zvals
      BY <1>4, <1>5, <2>2, <2>3, <3>2
    <3> QED BY <1>4, <3>1, <3>2
  <2> QED BY <2>1, <2>2, <2>3, <2>4, <2>5
<1>10. PICK N, f, n : PassFrames(L, N, f, n)
  <2>1. IF L = {} THEN Return ELSE Replace([Frame("destructors", 0, 0) EXCEPT !.list = L])
    BY <1>1, <1>2, Zenon
  <2> QED BY <1>2, <1>6, <2>1, PassStack
<1>11. /\ n \in Nat /\ n >= 1 /\ Len(stack) = n + 1 /\ Fr(stack, n + 1) = Top
       /\ f \in Frames /\ f.at = "destructors" /\ f.n = 0 /\ f.z = 0 /\ f.todo = {} /\ f.list = L
       /\ stack' \in Seq(Frames) /\ stack' # <<>>
       /\ Moves(stack, stack', n, N) /\ N \subseteq {f} /\ Shape'
       /\ \A h \in 1..n : h \in 1..Len(stack) /\ h \in 1..Len(stack') /\ Fr(stack', h) = Fr(stack, h)
       /\ \A h \in 1..Len(stack') : h \in 1..n \/ (h = n + 1 /\ Fr(stack', h) = f)
       /\ L # {} => n + 1 \in 1..Len(stack') /\ Fr(stack', n + 1) = f
       /\ Listed' = Listed \cup L /\ Dying' = Dying
       /\ Parts(stack', 3) = Parts(stack, 3) /\ Parts(stack', 4) = Parts(stack, 4) \cup L
       /\ \A y : CountIn(stack', RefFrames(y)) = CountIn(stack, RefFrames(y))
       /\ \A o \in Objs : CountIn(stack', HoldFrames(o)) = CountIn(stack, HoldFrames(o))
  BY <1>10 DEF PassFrames
<1>12. n + 1 \in 1..Len(stack) /\ \A h \in 1..n : h # n + 1 /\ ~ (h > n)
  BY <1>11
<1>13. TypeOK'
  <2>1. UNCHANGED <<kind, to, elems, valid, called, var, steps>>
    BY <1>2
  <2>2. /\ buf' \in [Entries -> Nodes \cup {0}] /\ addr' \in [Nodes -> Entries \cup {0}]
        /\ purple' \in SUBSET Nodes /\ lost' \in SUBSET Nodes
    <3>1. lost \in SUBSET Nodes /\ Miscounted \subseteq Nodes
      BY <1>4 DEF TypeOK, Miscounted
    <3> QED BY <1>2, <1>5, <3>1
  <2>3. rc' \in [Nodes -> Nat]
    BY <1>9
  <2>4. stack' \in Seq(Frames) /\ stack' # <<>>
    BY <1>11
  <2> QED BY ONLY <1>4, <2>1, <2>2, <2>3, <2>4 DEF TypeOK
<1>14. /\ \A y : ~ Refers(f, y)
       /\ \A y \in Objs : ~ Holds(f, y)
  BY <1>4, <1>11 DEF Refers, Holds, HoldLabels
<1>15. \A y \in N : y = f
  BY <1>11
<1>16. HeapInv'
  <2>0. KindsOK /\ NullsOK /\ ZvalCounts /\ ObjCounts /\ VarsHold /\ ElemsHold /\ FramesHold /\ ZvalsHold
    BY <1>5 DEF HeapInv
  <2>1. KindsOK'
    <3>1. ASSUME NEW o \in Objs \ valid' PROVE rc'[o] = 0 /\ elems'[o] = {}
      <4>1. o \in Objs /\ rc[o] = 0 /\ elems[o] = {}
        BY <1>2, <2>0, <3>1 DEF KindsOK
      <4>2. RefsFrom(L, o) \in Nat /\ RefsFrom(L, o) <= 0 /\ rc'[o] = 0 - RefsFrom(L, o)
        BY <1>8, <1>9, <4>1
      <4> QED BY <1>2, <4>1, <4>2
    <3> QED BY <1>2, <2>0, <3>1 DEF KindsOK
  <2>2. VarsHold' /\ ElemsHold' /\ NullsOK' /\ ZvalsHold'
    BY <1>2, <1>11, <2>0 DEF VarsHold, ElemsHold, NullsOK, ZvalsHold
  <2>3. ZvalCounts'
    <3> SUFFICES ASSUME NEW z \in Zvals, kind'[z] # "none"
                 PROVE  rc'[z] = VarRefs(var', z) + ElemRefs(elems', z) + CountIn(stack', RefFrames(z))
                                 + IF z \in Listed' THEN 1 ELSE 0
      BY DEF ZvalCounts, ListRef
    <3>1. rc[z] = VarRefs(var, z) + ElemRefs(elems, z) + CountIn(stack, RefFrames(z)) + ListRef(z)
      BY <1>2, <2>0 DEF ZvalCounts
    <3>2. VarRefs(var', z) = VarRefs(var, z) /\ ElemRefs(elems', z) = ElemRefs(elems, z)
          /\ CountIn(stack', RefFrames(z)) = CountIn(stack, RefFrames(z))
      BY <1>2, <1>11
    <3>3. VarRefs(var, z) \in Nat /\ ElemRefs(elems, z) \in Nat /\ CountIn(stack, RefFrames(z)) \in Nat
      BY <1>11, NoneCounted
    <3>4. CASE z \in L
      <4>1. z \in Listed' /\ ListRef(z) = 0 /\ rc'[z] = rc[z] + 1
        BY <1>7, <1>9, <1>11, <3>4 DEF ListRef
      <4>2. rc[z] = VarRefs(var, z) + ElemRefs(elems, z) + CountIn(stack, RefFrames(z))
        BY ONLY <3>1, <3>3, <4>1
      <4> QED BY ONLY <3>2, <3>3, <4>1, <4>2
    <3>5. CASE z \notin L
      <4>1. rc'[z] = rc[z] /\ ListRef(z) = IF z \in Listed' THEN 1 ELSE 0
        BY <1>9, <1>11, <3>5 DEF ListRef
      <4> QED BY ONLY <3>1, <3>2, <4>1
    <3> QED BY <3>4, <3>5
  <2>4. ObjCounts'
    <3> SUFFICES ASSUME NEW o \in valid'
                 PROVE  rc'[o] = Cardinality(Counted(o)') + CountIn(stack', HoldFrames(o))
      BY DEF ObjCounts
    <3>1. o \in Objs
      BY <1>2, <1>5
    <3>2. /\ rc[o] = Cardinality(Counted(o)) + CountIn(stack, HoldFrames(o))
          /\ Cardinality(Counted(o)) \in Nat /\ CountIn(stack, HoldFrames(o)) \in Nat
      BY <3>1, ObjRefs
    <3>3. Counted(o)' = Counted(o) \ L
      BY <1>2, <1>11 DEF Counted
    <3>4. Cardinality(Counted(o) \ L) = Cardinality(Counted(o)) - RefsFrom(L, o) /\ RefsFrom(L, o) \in Nat
      BY <1>8, <3>1
    <3>5. rc'[o] = rc[o] - RefsFrom(L, o) /\ CountIn(stack', HoldFrames(o)) = CountIn(stack, HoldFrames(o))
      BY <1>9, <1>11, <3>1
    <3>6. Cardinality(Counted(o)') = Cardinality(Counted(o)) - RefsFrom(L, o)
      BY ONLY <3>3, <3>4
    <3> QED BY ONLY <3>2, <3>4, <3>5, <3>6
  <2>5. FramesHold'
    <3>1. \A y \in N : \A e \in y.todo \cup y.list : kind'[e] # "none"
      BY <1>2, <1>7, <1>11, <1>15
    <3> QED BY <1>2, <1>4, <1>11, <2>0, <3>1, FramesHoldMove
  <2> QED BY <2>1, <2>2, <2>3, <2>4, <2>5 DEF HeapInv
<1>17. FrameInv'
  <2>0. HeldValid /\ StorageOK /\ NamedZvals /\ RootArrays /\ OnFree /\ ReturnOK
    BY <1>5 DEF FrameInv
  <2>1. HeldValid'
    <3>1. \A y \in N : \A o \in Objs : Holds(y, o) => o \in valid'
      BY <1>14, <1>15
    <3> QED BY <1>2, <1>11, <2>0, <3>1, HeldValidMove
  <2>2. \A y \in N : y.at \notin {"destructed", "storage", "ptr_dtor", "root", "resume", "del_ref"} /\ y.n = 0
    BY <1>11, <1>15
  <2>3. StorageOK'
    <3>1. ASSUME NEW h \in 1..n, Fr(stack, h).at = "storage"
          PROVE  rc'[Fr(stack, h).n] = rc[Fr(stack, h).n]
      <4>1. PICK o : o = Fr(stack, h).n
        OBVIOUS
      <4>2. h \in 1..Len(stack) /\ o \in Objs
        BY <1>11, <3>1, <4>1, StorageObjs
      <4>3. rc[o] = 1 /\ Holds(Fr(stack, h), o)
        BY <2>0, <3>1, <4>1, <4>2 DEF StorageOK, Holds, HoldLabels
      <4>4. Counted(o) = {}
        BY <4>2, <4>3, TwoHolds
      <4>5. RefsFrom(L, o) = 0
        BY <1>8, <4>2, <4>4
      <4> QED BY <1>9, <4>1, <4>2, <4>3, <4>5
    <3> QED BY <1>2, <1>11, <2>0, <2>2, <3>1, StorageMove
  <2>4. NamedZvals'
    <3> SUFFICES ASSUME NEW h \in 1..Len(stack'), Fr(stack', h).at \in {"ptr_dtor", "root", "resume"},
                        Fr(stack', h).z # 0
                 PROVE  /\ kind'[Fr(stack', h).z] # "none"
                        /\ Fr(stack', h).at = "resume" => Fr(stack', h).z \notin Listed'
      BY DEF NamedZvals
    <3>1. h \in 1..Len(stack) /\ Fr(stack', h) = Fr(stack, h)
      BY <1>11
    <3>2. Fr(stack, h).at = "resume" => Refers(Fr(stack, h), Fr(stack, h).z)
      BY DEF Refers
    <3> QED BY <1>2, <1>7, <1>11, <2>0, <3>1, <3>2 DEF NamedZvals
  <2>5. RootArrays'
    BY <1>2, <1>11, <2>0, <2>2, RootArraysMove
  <2>6. OnFree'
    BY <1>11, <1>12, <2>0, OnFreeMove
  <2>7. ReturnOK'
    BY <1>2, <1>11, <2>0, <2>2, ReturnMove
  <2> QED BY <2>1, <2>3, <2>4, <2>5, <2>6, <2>7 DEF FrameInv
<1>18. DyingInv'
  <2>0. DyingHeap /\ DyingBuf /\ DyingFrames
    BY <1>5 DEF DyingInv
  <2>1. DyingHeap'
    BY <1>2, <1>7, <1>11, <2>0 DEF DyingHeap
  <2>2. DyingBuf'
    BY <1>2, <1>4, <1>11, <2>0 DEF DyingHeap, DyingBuf
  <2>3. \A y \in N : y.at # "free" /\ \A z \in Dying : Refers(y, z) => y.at = "resume"
    BY <1>11, <1>14, <1>15
  <2>4. DyingFrames'
    BY <1>4, <1>11, <2>0, <2>3, DyingFramesMove
  <2> QED BY <2>1, <2>2, <2>4 DEF DyingInv
<1>19. \A m \in Nodes : addr'[m] = 0
  BY <1>2, <1>5 DEF BufInv
<1>20. ListInv'
  <2>0. ListedBuf /\ Disjoint /\ Pending /\ CalledFirst
    BY <1>5 DEF ListInv
  <2>1. ListedBuf'
    BY <1>4, <1>6, <1>11, <1>19, ListTypes DEF ListedBuf
  <2>2. Disjoint'
    <3> SUFFICES ASSUME NEW h \in 1..Len(stack'), NEW j \in 1..Len(stack'), h # j,
                        NEW x \in Fr(stack', h).list, x \in Fr(stack', j).list
                 PROVE  FALSE
      BY DEF Disjoint
    <3>1. ASSUME NEW i \in 1..n PROVE Fr(stack', i).list \cap L = {} /\ Fr(stack', i) = Fr(stack, i) /\ i \in 1..Len(stack)
      BY <1>4, <1>7, <1>11 DEF Views
    <3> QED BY <1>11, <2>0, <3>1 DEF Disjoint
  <2>3. Pending'
    <3> SUFFICES ASSUME NEW o \in valid', rc'[o] = 0
                 PROVE  Denoting(kind', to', o) \cap Parts(stack', 4) # {}
      BY DEF Pending
    <3>1. o \in Objs /\ o \in valid
      BY <1>2, <1>5
    <3>2. CASE RefsFrom(L, o) = 0
      <4>1. rc[o] = 0
        BY <1>4, <1>5, <1>9, <3>1, <3>2
      <4> QED BY <1>2, <1>11, <2>0, <3>1, <4>1 DEF Pending
    <3>3. CASE RefsFrom(L, o) # 0
      <4>1. Denoting(kind, to, o) \cap L # {}
        BY <1>8, <3>1, <3>3
      <4> QED BY <1>2, <1>11, <4>1
    <3> QED BY <3>2, <3>3
  <2>4. CalledFirst'
    <3> SUFFICES ASSUME NEW h \in 1..Len(stack'), Fr(stack', h).at = "destroy", NEW z \in Fr(stack', h).todo,
                        kind'[z] = "object", to'[z] \in valid', rc'[to'[z]] = 0
                 PROVE  \/ to'[z] \in called'
                        \/ \E j \in h + 1..Len(stack') : /\ Fr(stack', j).at = "destructors"
                                                         /\ Denoting(kind', to', to'[z]) \cap Fr(stack', j).list # {}
      BY DEF CalledFirst, Garbage
    <3>1. h \in 1..n /\ h \in 1..Len(stack) /\ Fr(stack', h) = Fr(stack, h)
      BY <1>11
    <3>2. kind[z] = "object" /\ to'[z] = to[z] /\ to[z] \in Objs /\ to[z] \in valid
      BY <1>2, <1>5
    <3>3. CASE RefsFrom(L, to[z]) = 0
      <4>1. rc[to[z]] = 0
        BY <1>4, <1>5, <1>9, <3>2, <3>3
      <4>2. \/ to[z] \in called
            \/ \E j \in h + 1..Len(stack) : /\ Fr(stack, j).at = "destructors"
                                            /\ Denoting(kind, to, to[z]) \cap Fr(stack, j).list # {}
        BY <2>0, <3>1, <3>2, <4>1 DEF CalledFirst, Garbage
      <4>3. ASSUME NEW j \in h + 1..Len(stack), Fr(stack, j).at = "destructors"
            PROVE  j \in h + 1..Len(stack') /\ Fr(stack', j) = Fr(stack, j)
        <5>1. j # n + 1
          BY <1>2, <1>11, <4>3
        <5>2. j \in 1..n
          BY <1>11, <3>1, <5>1
        <5>3. j \in 1..Len(stack') /\ Fr(stack', j) = Fr(stack, j) /\ Len(stack') \in Nat
          BY <1>11, <5>2
        <5> QED BY <5>3, <3>1
      <4> QED BY <1>2, <3>2, <4>2, <4>3
    <3>4. CASE RefsFrom(L, to[z]) # 0
      <4>1. Denoting(kind, to, to[z]) \cap L # {}
        BY <1>8, <3>2, <3>4
      <4>2. n + 1 \in 1..Len(stack') /\ Fr(stack', n + 1) = f
        BY <1>11, <4>1
      <4>3. n + 1 \in h + 1..Len(stack')
        BY <1>11, <3>1, <4>2
      <4> QED BY <1>2, <1>11, <4>1, <4>2, <4>3
    <3> QED BY <3>3, <3>4
  <2> QED BY <2>1, <2>2, <2>3, <2>4 DEF ListInv
<1>21. ASSUME Sound' PROVE SealInv'
  <2>0. SealedVars /\ SealedElems /\ SealedFrames
    BY <1>5 DEF SealInv
  <2>1. SealedVars'
    <3>1. \A y \in N : Sealing(y) => \A z \in y.list : \A v \in Vars : var'[v] # z
      BY <1>2, <1>7, <1>11, <1>15
    <3> QED BY <1>2, <1>4, <1>11, <2>0, <3>1, SealedVarsMove
  <2>2. SealedFrames'
    <3>1. \A h \in 1..Len(stack') : h > n /\ Sealing(Fr(stack', h)) =>
               \A z \in Fr(stack', h).list, j \in 1..Len(stack') : Refers(Fr(stack', j), z) => j > h
      <4>1. \A j \in 1..Len(stack') : \A z \in L : ~ Refers(Fr(stack', j), z)
        BY <1>7, <1>11, <1>14
      <4> QED BY <1>11, <1>12, <4>1
    <3> QED BY <1>11, <2>0, <3>1, SealedFramesMove
  <2>3. SealedElems'
    <3> SUFFICES ASSUME NEW h \in 1..Len(stack'), Sealing(Fr(stack', h)), NEW z \in Fr(stack', h).list,
                        NEW m \in Nodes, z \in elems'[m], m \notin Fr(stack', h).list
                 PROVE  /\ m \in valid' /\ rc'[m] = 0
                        /\ Denoting(kind', to', m) \subseteq Part(Fr(stack', h), 4) \cup Dying'
                        /\ Denoting(kind', to', m) \cap Part(Fr(stack', h), 4) # {}
      BY DEF SealedElems, Condemned, Sealing
    <3>1. CASE h \in 1..n
      <4>1. h \in 1..Len(stack) /\ Fr(stack', h) = Fr(stack, h)
        BY <1>11, <3>1
      <4>2. m \in Condemned(Fr(stack, h)) \/ GivenBack(h, m)
        BY <1>2, <2>0, <4>1 DEF SealedElems
      <4>3. ~ GivenBack(h, m)
        BY <1>2 DEF GivenBack
      <4>4. /\ m \in valid /\ rc[m] = 0
            /\ Denoting(kind, to, m) \subseteq Part(Fr(stack, h), 4) \cup Dying
            /\ Denoting(kind, to, m) \cap Part(Fr(stack, h), 4) # {}
        BY <4>1, <4>2, <4>3 DEF Condemned
      <4>5. m \in Objs
        BY <1>5, <4>4
      <4>6. RefsFrom(L, m) \in Nat /\ RefsFrom(L, m) <= 0 /\ rc'[m] = 0 - RefsFrom(L, m)
        BY <1>8, <1>9, <4>4, <4>5
      <4>7. rc'[m] = 0
        BY <4>6
      <4> QED BY <1>2, <1>11, <4>1, <4>4, <4>7
    <3>2. CASE h = n + 1 /\ Fr(stack', h) = f
      <4>1. z \in L /\ m \in White /\ m \in Objs /\ Part(f, 4) = L
        BY <1>1, <1>2, <1>4, <1>7, <1>11, <3>2 DEF Part
      <4>2. rc[m] = RefsFrom(L, m) /\ Counted(m) \subseteq L
        BY <1>1, <4>1, WhiteObj
      <4>3. rc'[m] = 0
        <5>1. RefsFrom(L, m) \in Nat /\ rc'[m] = rc[m] - RefsFrom(L, m)
          BY <1>8, <1>9, <4>1
        <5> QED BY ONLY <4>2, <5>1
      <4>4. m \in valid
        BY <1>2, <4>1, ObjRefs
      <4>5. Denoting(kind, to, m) \cap Listed = {}
        <5>1. m \notin Doomed
          <6>1. z \in elems[m] \cap White
            BY <1>2, <1>7, <4>1
          <6> QED BY <1>3, <1>21, <4>1, <6>1
        <5>2. ZvalsOf(m) \cap Listed = {}
          BY <4>1, <5>1 DEF Doomed
        <5> QED BY <5>2 DEF ZvalsOf, Denoting
      <4>6. Denoting(kind, to, m) \subseteq L \cup Dying
        BY <4>2, <4>5 DEF Counted
      <4>7. Denoting(kind, to, m) \cap L # {}
        <5>1. CASE RefsFrom(L, m) = 0
          <6>1. Denoting(kind, to, m) \cap Parts(stack, 4) # {}
            BY <1>5, <4>2, <4>4, <5>1 DEF ListInv, Pending
          <6> QED BY <4>5, <6>1, PartsListed
        <5>2. CASE RefsFrom(L, m) # 0
          BY <1>8, <4>1, <5>2
        <5> QED BY <5>1, <5>2
      <4> QED BY <1>2, <1>11, <3>2, <4>1, <4>3, <4>4, <4>6, <4>7
    <3> QED BY <1>11, <3>1, <3>2
  <2> QED BY <2>1, <2>2, <2>3 DEF SealInv
<1>22. BufInv'
  BY <1>2, <1>4, <1>19 DEF BufInv
<1> QED BY <1>11, <1>13, <1>16, <1>17, <1>18, <1>20, <1>21, <1>22 DEF Inv
-----------------------------------------------------------------------------
\* Initially one frame runs and nothing is allocated.
LEMMA Initially ==
    ASSUME Init
    PROVE  IInv
<1>1. /\ kind = [z \in Zvals |-> "none"] /\ to = [z \in Zvals |-> 0] /\ elems = [m \in Nodes |-> {}]
      /\ rc = [m \in Nodes |-> 0] /\ valid = {} /\ called = {} /\ var = [v \in Vars |-> 0]
      /\ buf = [e \in Entries |-> 0] /\ addr = [m \in Nodes |-> 0] /\ purple = {} /\ steps = 0 /\ lost = {}
  BY DEF Init
<1>2. PICK f : f = Frame("main", 0, 0)
  OBVIOUS
<1>3. /\ f \in Frames /\ f.at = "main" /\ f.n = 0 /\ f.z = 0 /\ f.todo = {} /\ f.list = {}
  <2>1. "main" \in Labels /\ 0 \in Nodes \cup {0} /\ 0 \in Zvals \cup {0}
    BY DEF Labels
  <2> QED BY <1>2, <2>1, FrameFields
<1>4. stack = <<f>>
  BY <1>2 DEF Init
<1>5. stack \in Seq(Frames) /\ stack # <<>> /\ Len(stack) = 1 /\ stack[1] = f
  BY <1>3, <1>4
<1>6. \A h \in 1..Len(stack) : h = 1 /\ Fr(stack, h) = f
  BY <1>5 DEF Fr
<1>7. /\ 0 \notin Zvals /\ 0 \notin Objs /\ 0 \notin Entries /\ MaxSteps \in Nat
      /\ Zvals \subseteq Nodes /\ Objs \subseteq Nodes
  BY Sizes
<1>8. TypeOK
  <2>1. /\ kind \in [Zvals -> {"none", "array", "object", "null"}] /\ to \in [Zvals -> Objs \cup {0}]
        /\ elems \in [Nodes -> SUBSET Zvals] /\ rc \in [Nodes -> Nat]
        /\ valid \in SUBSET Objs /\ called \in SUBSET Objs
        /\ var \in [Vars -> Zvals \cup {0}] /\ buf \in [Entries -> Nodes \cup {0}]
        /\ addr \in [Nodes -> Entries \cup {0}] /\ purple \in SUBSET Nodes /\ lost \in SUBSET Nodes
        /\ steps \in 0..MaxSteps
    BY <1>1, <1>7
  <2> QED BY ONLY <1>5, <2>1 DEF TypeOK
<1>9. ASSUME NEW i \in {1, 2, 3, 4} PROVE Parts(stack, i) = {}
  <2>1. Part(f, i) = {}
    BY <1>3 DEF Part
  <2>2. \A x : x \notin Parts(stack, i)
    BY <1>6, <2>1, PartMember
  <2> QED BY <2>2
<1>10. Listed = {} /\ Dying = {} /\ Parts(stack, 3) = {} /\ Parts(stack, 4) = {}
  BY <1>5, <1>9, StackViews
<1>11. Shape
  <2>1. FieldsOK(f)
    BY <1>3 DEF FieldsOK
  <2>2. 1..Len(stack) - 1 = {}
    BY <1>5
  <2> QED BY <1>3, <1>6, <2>1, <2>2 DEF Shape
<1>12. /\ \A z \in Zvals : kind[z] = "none"
       /\ \A m \in Nodes : elems[m] = {} /\ rc[m] = 0 /\ addr[m] = 0
       /\ \A v \in Vars : var[v] = 0
       /\ \A e \in Entries : buf[e] = 0
  BY <1>1
<1>13. HeapInv
  <2>1. KindsOK
    BY <1>7, <1>12 DEF KindsOK
  <2>2. NullsOK /\ VarsHold /\ ElemsHold /\ ZvalsHold
    BY <1>10, <1>12 DEF NullsOK, VarsHold, ElemsHold, ZvalsHold
  <2>3. ZvalCounts /\ ObjCounts
    BY <1>1, <1>12 DEF ZvalCounts, ObjCounts
  <2>4. FramesHold
    BY <1>3, <1>6 DEF FramesHold
  <2> QED BY <2>1, <2>2, <2>3, <2>4 DEF HeapInv
<1>14. FrameInv
  BY <1>3, <1>6 DEF FrameInv, HeldValid, Holds, HoldLabels, StorageOK, NamedZvals, RootArrays, OnFree, ReturnOK
<1>15. DyingInv
  BY <1>3, <1>6, <1>10 DEF DyingInv, DyingHeap, DyingBuf, DyingFrames
<1>16. ListInv
  BY <1>1, <1>3, <1>6, <1>10 DEF ListInv, ListedBuf, Disjoint, Pending, CalledFirst
<1>17. SealInv
  BY <1>3, <1>6 DEF SealInv, SealedVars, SealedElems, SealedFrames, Sealing
<1>18. BufInv
  BY <1>7, <1>12 DEF BufInv
<1> QED BY <1>8, <1>11, <1>13, <1>14, <1>15, <1>16, <1>17, <1>18 DEF IInv, Inv

\* Whoever takes a step believes that the run says something about the program,
\* and only the end of free_object_storage gives a bucket up.
LEMMA ScriptActs ==
    ASSUME Script
    PROVE  Sound /\ valid \subseteq valid'
<1>1. ASSUME NEW v \in Vars, NewArray(v) \/ NewObject(v) \/ KeepThis(v) \/ Unset(v)
      PROVE  Sound /\ valid \subseteq valid'
  BY <1>1, Zenon DEF NewArray, NewObject, KeepThis, Unset, Statement, InScript, At, Sound, heap
<1>2. ASSUME NEW v \in Vars, NEW w \in Vars, Alias(v, w)
      PROVE  Sound /\ valid \subseteq valid'
  BY <1>2, Zenon DEF Alias, Statement, InScript, At, Sound
<1>3. ASSUME NEW c \in Nodes, Remove(c)
      PROVE  Sound /\ valid \subseteq valid'
  BY <1>3, Zenon DEF Remove, Statement, InScript, At, Sound
<1>4. ASSUME NEW c \in Nodes, NEW v \in Vars, Store(c, v) \/ Fetch(v, c)
      PROVE  Sound /\ valid \subseteq valid'
  BY <1>4, Zenon DEF Store, Fetch, Statement, InScript, At, Sound
<1>5. ASSUME CollectNow \/ EndBody
      PROVE  Sound /\ valid \subseteq valid'
  BY <1>5, Zenon DEF CollectNow, EndBody, Statement, InScript, At, Sound, heap
<1> QED BY <1>1, <1>2, <1>3, <1>4, <1>5, Zenon DEF Script

LEMMA OtherActs ==
    ASSUME Release \/ DelRef \/ PossibleRoot \/ Collect
    PROVE  Sound /\ (valid \subseteq valid' \/ StorageFreed)
<1>1. ASSUME Release PROVE Sound /\ valid \subseteq valid'
  BY <1>1, Zenon DEF Release, DropReference, DropLast, ReleaseElement, FreeZval, Released, At, Sound, heap
<1>2. ASSUME DelRef PROVE Sound /\ (valid \subseteq valid' \/ StorageFreed)
  BY <1>2, Zenon DEF DelRef, DelRefDestruct, DelRefFree, DelRefKeep, StorageFreed, At, Sound, heap
<1>3. ASSUME PossibleRoot PROVE Sound /\ valid \subseteq valid'
  BY <1>3, Zenon DEF PossibleRoot, NotARoot, RecordRoot, BufferFull, ResumeRoot, At, Sound, heap
<1>4. ASSUME Collect PROVE Sound /\ valid \subseteq valid'
  BY <1>4, Zenon DEF Collect, Passes, CallDestructor, DestructorReturned, DestructorsDone, Destroy, FreeList,
                     At, Sound, heap
<1> QED BY <1>1, <1>2, <1>3, <1>4

LEMMA ScriptStep ==
    ASSUME IInv, Script
    PROVE  TypeOK' /\ (Sound' => Inv')
<1>1. Sound
  BY ScriptActs
<1>2. ASSUME NEW v \in Vars, NewArray(v) \/ NewObject(v) \/ KeepThis(v) \/ Unset(v)
      PROVE  TypeOK' /\ (Sound' => Inv')
  BY <1>1, <1>2, NewArrayStep, NewObjectStep, KeepThisStep, UnsetStep
<1>3. ASSUME NEW v \in Vars, NEW w \in Vars, Alias(v, w)
      PROVE  TypeOK' /\ (Sound' => Inv')
  BY <1>1, <1>3, AliasStep
<1>4. ASSUME NEW c \in Nodes, Remove(c)
      PROVE  TypeOK' /\ (Sound' => Inv')
  BY <1>1, <1>4, RemoveStep
<1>5. ASSUME NEW c \in Nodes, NEW v \in Vars, Store(c, v) \/ Fetch(v, c)
      PROVE  TypeOK' /\ (Sound' => Inv')
  BY <1>1, <1>5, StoreStep, FetchStep
<1>6. ASSUME CollectNow \/ EndBody
      PROVE  TypeOK' /\ (Sound' => Inv')
  BY <1>1, <1>6, CollectNowStep, EndBodyStep
<1> QED BY <1>2, <1>3, <1>4, <1>5, <1>6, Zenon DEF Script

LEMMA OtherStep ==
    ASSUME IInv, Release \/ DelRef \/ PossibleRoot \/ Collect
    PROVE  TypeOK' /\ (Sound' => Inv')
<1>1. Sound
  BY OtherActs
<1>2. ASSUME Release PROVE TypeOK' /\ (Sound' => Inv')
  BY <1>1, <1>2, DropReferenceStep, DropLastStep, ReleaseElementStep, FreeZvalStep, ReleasedStep, Zenon DEF Release
<1>3. ASSUME DelRef PROVE TypeOK' /\ (Sound' => Inv')
  BY <1>1, <1>3, DelRefDestructStep, DelRefFreeStep, DelRefKeepStep, StorageFreedStep, Zenon DEF DelRef
<1>4. ASSUME PossibleRoot PROVE TypeOK' /\ (Sound' => Inv')
  BY <1>1, <1>4, NotARootStep, RecordRootStep, BufferFullStep, ResumeRootStep, Zenon DEF PossibleRoot
<1>5. ASSUME Collect PROVE TypeOK' /\ (Sound' => Inv')
  BY <1>1, <1>5, PassesStep, CallDestructorStep, DestructorReturnedStep, DestructorsDoneStep, DestroyStep,
     FreeListStep, Zenon DEF Collect
<1> QED BY <1>2, <1>3, <1>4, <1>5

LEMMA Inductive ==
    ASSUME IInv, [Next]_vars
    PROVE  IInv'
<1>1. CASE UNCHANGED vars
  <2>1. /\ kind' = kind /\ to' = to /\ elems' = elems /\ rc' = rc /\ valid' = valid /\ called' = called
        /\ var' = var /\ buf' = buf /\ addr' = addr /\ purple' = purple /\ stack' = stack /\ steps' = steps
        /\ lost' = lost /\ beyond' = beyond
    BY <1>1 DEF vars
  <2>2. TypeOK'
    BY <2>1 DEF IInv, TypeOK
  <2>3. Sound' <=> Sound
    BY <2>1, Zenon DEF Sound
  <2>4. Listed' = Listed /\ Dying' = Dying
    BY <2>1, Zenon DEF Listed, Dying
  <2>5. ASSUME Inv PROVE Inv'
    <3>1. /\ Shape /\ HeapInv /\ FrameInv /\ DyingInv /\ ListInv /\ SealInv /\ BufInv
      BY <2>5 DEF Inv
    <3>2. HeapInv' /\ FrameInv'
      BY <2>1, <2>4, <3>1 DEF HeapInv, KindsOK, NullsOK, ZvalCounts, ObjCounts, VarsHold, ElemsHold, FramesHold,
         ZvalsHold, ListRef, Counted, FrameInv, HeldValid, StorageOK, NamedZvals, RootArrays, OnFree, ReturnOK
    <3>3. DyingInv' /\ ListInv'
      BY <2>1, <2>4, <3>1 DEF DyingInv, DyingHeap, DyingBuf, DyingFrames, ListInv, ListedBuf, Disjoint, Pending,
         CalledFirst, Garbage
    <3>4. SealInv'
      <4>1. SealedVars' /\ SealedFrames'
        BY <2>1, <3>1 DEF SealInv, SealedVars, SealedFrames
      <4>2. SealedElems'
        BY <2>1, <2>4, <3>1 DEF SealInv, SealedElems, Condemned, GivenBack, Top
      <4> QED BY <4>1, <4>2 DEF SealInv
    <3>5. Shape' /\ BufInv'
      BY <2>1, <3>1 DEF Shape, BufInv
    <3> QED BY <3>1, <3>2, <3>3, <3>4, <3>5 DEF Inv
  <2> QED BY <2>2, <2>3, <2>5 DEF IInv
<1>2. CASE Next
  <2>1. CASE Script
    BY <2>1, ScriptStep DEF IInv
  <2>2. CASE Release \/ DelRef \/ PossibleRoot \/ Collect
    BY <2>2, OtherStep DEF IInv
  <2>3. CASE Stopped
    BY <1>1, <2>3 DEF Stopped
  <2> QED BY <1>2, <2>1, <2>2, <2>3 DEF Next
<1> QED BY <1>1, <1>2

\* The invariant holds in every state of the specification.
THEOREM Invariance == Spec => []IInv
<1>1. Init => IInv
  BY Initially
<1>2. IInv /\ [Next]_vars => IInv'
  BY Inductive
<1>3. QED
  BY <1>1, <1>2, PTL DEF Spec

\* The heap, the store, the root buffer and the C stack keep their types: refcounts
\* do not go below zero, an address is that of an entry, and the stack is never empty.
THEOREM TypeCorrect == Spec => []TypeOK
<1>1. IInv => TypeOK
  BY DEF IInv
<1>2. QED
  BY <1>1, Invariance, PTL

\* What the counts of the invariant are counts of.
LEMMA Views0 ==
    ASSUME IInv, Sound
    PROVE  /\ \A z : FrameRefs(z) = CountIn(stack, RefFrames(z))
           /\ \A o : FrameHolds(o) = CountIn(stack, HoldFrames(o))
           /\ \A o : ZvalsOf(o) \ (Listed \cup Dying) = Counted(o)
<1>1. stack \in Seq(Frames)
  BY Context
<1>2. \A o : ZvalsOf(o) \ (Listed \cup Dying) = Counted(o)
  BY DEF ZvalsOf, Counted, Denoting
<1> QED BY <1>1, <1>2, StackViews

LEMMA Exact ==
    ASSUME IInv
    PROVE  CountsExact
<1> SUFFICES ASSUME Sound
             PROVE  /\ \A z \in Zvals : kind[z] # "none" =>
                          rc[z] = Cardinality({v \in Vars : var[v] = z})
                                  + Cardinality({n \in Nodes : z \in elems[n]})
                                  + FrameRefs(z) + (IF z \in Listed THEN 1 ELSE 0)
                    /\ \A o \in valid :
                          rc[o] = Cardinality(ZvalsOf(o) \ (Listed \cup Dying)) + FrameHolds(o)
  BY DEF CountsExact
<1>1. ZvalCounts /\ ObjCounts
  BY DEF IInv, Inv, HeapInv
<1>2. ASSUME NEW z \in Zvals, kind[z] # "none"
      PROVE  rc[z] = Cardinality({v \in Vars : var[v] = z}) + Cardinality({n \in Nodes : z \in elems[n]})
                     + FrameRefs(z) + (IF z \in Listed THEN 1 ELSE 0)
  <2>1. rc[z] = VarRefs(var, z) + ElemRefs(elems, z) + CountIn(stack, RefFrames(z)) + ListRef(z)
    BY <1>1, <1>2 DEF ZvalCounts
  <2>2. FrameRefs(z) = CountIn(stack, RefFrames(z))
    BY Views0
  <2> QED BY <2>1, <2>2 DEF VarRefs, ElemRefs, ListRef
<1>3. ASSUME NEW o \in valid
      PROVE  rc[o] = Cardinality(ZvalsOf(o) \ (Listed \cup Dying)) + FrameHolds(o)
  <2>1. rc[o] = Cardinality(Counted(o)) + CountIn(stack, HoldFrames(o))
    BY <1>1 DEF ObjCounts
  <2> QED BY <2>1, Views0
<1> QED BY <1>2, <1>3

\* Between the phases of nested collections too, a refcount is the number of the
\* references that variables, elements, properties and running C functions have.
THEOREM CountsHold == Spec => []CountsExact
<1>1. IInv => CountsExact
  BY Exact
<1>2. QED
  BY <1>1, Invariance, PTL

LEMMA Undangling ==
    ASSUME IInv
    PROVE  NoDangling
<1> SUFFICES ASSUME Sound
             PROVE  /\ \A v \in Vars : var[v] # 0 => kind[var[v]] \in {"array", "object"}
                    /\ \A n \in Nodes : \A e \in elems[n] : kind[e] # "none"
                    /\ \A k \in DOMAIN stack : \A e \in stack[k].todo \cup stack[k].list : kind[e] # "none"
                    /\ \A z \in Zvals \ (Listed \cup Dying) : kind[z] = "object" => to[z] \in valid
  BY DEF NoDangling
<1>1. VarsHold /\ ElemsHold /\ FramesHold /\ ZvalsHold
  BY DEF IInv, Inv, HeapInv
<1>2. ASSUME NEW k \in DOMAIN stack, NEW e \in stack[k].todo \cup stack[k].list
      PROVE  kind[e] # "none"
  <2>1. stack \in Seq(Frames)
    BY Context
  <2>2. \E h \in 1..Len(stack) : stack[k] = Fr(stack, h)
    BY <2>1, ByHeight
  <2> QED BY <1>1, <2>2 DEF FramesHold
<1> QED BY <1>1, <1>2 DEF VarsHold, ElemsHold, ZvalsHold

\* A collection frees nothing that a variable, an element, a property or a C
\* function still refers to, and no object of a zval that a script can get hold of,
\* whatever destructors did between condemning and freeing.
THEOREM NothingDangles == Spec => []NoDangling
<1>1. IInv => NoDangling
  BY Undangling
<1>2. QED
  BY <1>1, Invariance, PTL

\* An entry of the root buffer that denotes a zval denotes one that is allocated and
\* knows of the entry; an address in a node is that of the node's own entry.
THEOREM RootsHold == Spec => []RootsSound
<1>1. IInv => RootsSound
  BY DEF IInv, Inv, BufInv, RootsSound
<1>2. QED
  BY <1>1, Invariance, PTL
-----------------------------------------------------------------------------
\* An object whose storage a frame is freeing is held by that frame alone: nothing
\* that could run, least of all its own destructor, has it for $this.
LEMMA GivenUp ==
    ASSUME IInv, Sound, StorageFreed, NEW o \in valid \ valid'
    PROVE  o \in called /\ ~ \E k \in DOMAIN stack : stack[k].at = "body" /\ stack[k].n = o
<1>1. Top.at = "storage" /\ valid' = valid \ {Top.n}
  BY DEF StorageFreed, At, This
<1>2. /\ Inv /\ stack \in Seq(Frames) /\ Fr(stack, Len(stack)) = Top /\ Len(stack) \in 1..Len(stack)
  <2>1. PICK n \in Nat : Len(stack) = n + 1 /\ Fr(stack, n + 1) = Top
    BY Context
  <2> QED BY <2>1, Context
<1>3. o = Top.n /\ o \in Objs
  BY <1>1, StorageObjs, <1>2
<1>4. o \in called /\ rc[o] = 1
  BY <1>1, <1>2, <1>3 DEF Inv, FrameInv, StorageOK
<1>5. ASSUME NEW k \in DOMAIN stack, stack[k].at = "body", stack[k].n = o
      PROVE  FALSE
  <2>1. PICK h \in 1..Len(stack) : stack[k] = Fr(stack, h)
    BY <1>2, ByHeight
  <2>2. Holds(Fr(stack, h), o) /\ Holds(Fr(stack, Len(stack)), o)
    BY <1>1, <1>2, <1>3, <1>5, <2>1 DEF Holds, HoldLabels
  <2>3. h = Len(stack)
    BY <1>2, <1>3, <1>4, <2>2, TwoHolds
  <2> QED BY <1>1, <1>2, <1>5, <2>1, <2>3
<1> QED BY <1>4, <1>5

DestructedStep ==
    \A o \in valid \ valid' : o \in called /\ ~ \E k \in DOMAIN stack : stack[k].at = "body" /\ stack[k].n = o

LEMMA GivesUp ==
    ASSUME IInv, Next
    PROVE  DestructedStep
<1>1. CASE valid \subseteq valid'
  BY <1>1 DEF DestructedStep
<1>2. CASE Sound /\ StorageFreed
  BY <1>2, GivenUp DEF DestructedStep
<1>3. CASE Stopped
  BY <1>1, <1>3 DEF Stopped, vars
<1> QED BY <1>1, <1>2, <1>3, ScriptActs, OtherActs, Zenon DEF Next

\* An object's storage is given up only after its destructor was called and has
\* returned, whichever gets there first: zval_ptr_dtor, a collection, or a
\* collection started by that destructor.
THEOREM DestructedFirstHolds == Spec => DestructedFirst
<1>1. IInv /\ [Next]_vars => [DestructedStep]_vars
  BY GivesUp
<1>2. QED
  BY <1>1, Invariance, PTL DEF Spec, DestructedFirst, DestructedStep
-----------------------------------------------------------------------------
\* Garbage is not forgotten: the steps that are not a script's.

LEMMA ReleaseElementKnown ==
    ASSUME IInv, Sound, Known, IInv', ReleaseElement
    PROVE  Known'
<1>1. PICK e \in Top.todo :
         stack' = <<Frame("ptr_dtor", 0, e), [Top EXCEPT !.todo = @ \ {e}]>> \o Tail(stack)
  BY DEF ReleaseElement
<1>2. PICK f, g : f = Frame("ptr_dtor", 0, e) /\ g = [Top EXCEPT !.todo = @ \ {e}]
  OBVIOUS
<1>3. /\ stack \in Seq(Frames) /\ stack # <<>> /\ Top \in Frames /\ FieldsOK(Top)
      /\ TypeOK' /\ Cover /\ PurpleRoots /\ NamesFit /\ DropsFit /\ ReturnsFit
  BY Context DEF IInv, Known, FramesFit
<1>4. /\ Top.at \in {"free", "release", "storage"}
      /\ UNCHANGED <<kind, to, elems, rc, valid, var, buf, purple, lost>>
  BY DEF ReleaseElement, At, heap, buffer, ghosts
<1>5. e \in Zvals /\ e # 0
  BY <1>1, <1>3, Sizes DEF Frames
<1>6. f \in Frames /\ f.at = "ptr_dtor" /\ f.n = 0 /\ f.z = e /\ f.todo = {} /\ f.list = {}
  BY <1>2, <1>5, FrameFields DEF Labels
<1>7. /\ g \in Frames /\ g.at = Top.at /\ g.n = Top.n /\ g.z = Top.z /\ g.todo = Top.todo \ {e}
      /\ g.list = Top.list /\ Top.list = {}
  BY <1>2, <1>3, <1>4 DEF Frames, FieldsOK
<1>8. stack' \in Seq(Frames) /\ Doubled(stack, stack', f, g)
  BY <1>1, <1>2, <1>6, <1>7, StackSteps
<1>9. PICK n \in Nat : Len(stack) = n + 1 /\ Len(stack) - 1 = n
  BY Context
<1>10. Moves(stack, stack', Len(stack) - 1, {f, g}) /\ Shifts
  BY <1>3, <1>8, AllMoves DEF Shifts
<1>11. Quiet
  <2>1. \A i \in 1..4 : Part(g, i) \cup Part(f, i) = Part(Top, i)
    BY <1>4, <1>6, <1>7 DEF Part
  <2>2. \A z : (Refers(f, z) \/ Refers(g, z) <=> Refers(Top, z)) /\ ~ (Refers(f, z) /\ Refers(g, z))
    BY <1>1, <1>4, <1>6, <1>7 DEF Refers
  <2>3. \A o : (Holds(f, o) \/ Holds(g, o) <=> Holds(Top, o)) /\ ~ (Holds(f, o) /\ Holds(g, o))
    BY <1>4, <1>6, <1>7 DEF Holds, HoldLabels
  <2>4. Split(f, g, Top)
    BY <2>1, <2>2, <2>3 DEF Split
  <2>5. SameParts
    BY <1>3, <1>6, <1>7, <1>8, <2>4, SameSteps DEF Same
  <2> QED BY <1>4, <2>5 DEF Quiet, Placid
<1>12. Cover'
  <2>1. \A o \in Objs : rc[o] = 0 => rc'[o] = 0 \/ o \in Roots'
    BY <1>4
  <2>2. \A u : u \in Named(Top) => u \in Named(f) \/ u \in Named(g)
    BY <1>4, <1>6, <1>7 DEF Named
  <2>3. Handing = {}
    BY <1>4 DEF Handing
  <2>4. \A u \in Live : u \in Named(Top) \cup Handing => Based(u)'
    BY <1>3, <1>8, <2>2, <2>3, NameChanges, RootCases
  <2> QED BY <1>3, <1>10, <1>11, <2>1, <2>4, QuietCover
<1>13. PurpleRoots' /\ NamesFit' /\ DropsFit'
  <2>1. \A x \in {f, g} : Fits(x)'
    BY <1>4, <1>6, <1>7, Fitting
  <2>2. ASSUME NEW x \in Live, Top.at \in {"storage", "resume"}, x = Top.n PROVE Safe(x)'
    <3>1. n + 1 \in 1..Len(stack') /\ Fr(stack', n + 1) = g
      BY <1>8, <1>9 DEF Doubled
    <3> QED BY <1>7, <2>2, <3>1 DEF Safe, Awaiting
  <2>3. Len(stack) # Len(stack) - 1
    BY <1>9
  <2> QED BY <1>3, <1>8, <1>10, <1>11, <2>1, <2>2, <2>3, PlacidRest DEF Quiet
<1>14. ReturnsFit'
  <2>1. ~ Returning(f) /\ ~ Returning(g) /\ \A o : ~ Owed(o)
    BY <1>4, <1>6, <1>7, Owing DEF Returning
  <2> QED BY <1>3, <1>8, <2>1, ReturnsMove
<1> QED BY <1>12, <1>13, <1>14 DEF Known, FramesFit

LEMMA ReleasedKnown ==
    ASSUME IInv, Sound, Known, IInv', Released
    PROVE  Known'
<1>1. /\ stack \in Seq(Frames) /\ stack # <<>> /\ Top \in Frames /\ FieldsOK(Top)
      /\ TypeOK' /\ Cover /\ PurpleRoots /\ NamesFit /\ DropsFit /\ ReturnsFit
  BY Context DEF IInv, Known, FramesFit
<1>2. /\ Return /\ Top.at = "release" /\ Top.n = 0 /\ Top.z = 0 /\ Top.todo = {} /\ Top.list = {}
      /\ UNCHANGED <<kind, to, elems, rc, valid, var, buf, purple, lost>>
  BY <1>1 DEF Released, At, FieldsOK, heap, buffer, ghosts
<1>3. stack' \in Seq(Frames) /\ Popped(stack, stack')
  BY <1>2, StackSteps
<1>4. Moves(stack, stack', Len(stack) - 1, {}) /\ Shifts
  BY <1>1, <1>3, AllMoves DEF Shifts
<1>5. Quiet
  <2>1. Bare(Top)
    BY <1>2, BareFrames DEF BareLabel
  <2>2. SameParts
    BY <1>1, <1>3, <2>1, BareSteps
  <2> QED BY <1>2, <2>2 DEF Quiet, Placid
<1>6. Cover'
  <2>1. \A o \in Objs : rc[o] = 0 => rc'[o] = 0 \/ o \in Roots'
    BY <1>2
  <2>2. \A u \in Live : u # 0
    BY Context, LiveNodes
  <2>3. \A u \in Live : u \in Named(Top) \cup Handing => Based(u)'
    BY <1>2, <2>2 DEF Named, Handing
  <2> QED BY <1>1, <1>4, <1>5, <2>1, <2>3, QuietCover
<1>7. PurpleRoots' /\ NamesFit' /\ DropsFit'
  <2>1. Len(stack) # Len(stack) - 1 /\ Top.at \notin {"storage", "resume"}
    BY <1>1, <1>2, FrFacts
  <2> QED BY <1>1, <1>3, <1>4, <1>5, <2>1, PlacidRest DEF Quiet
<1>8. ReturnsFit'
  <2>1. \A o : ~ Owed(o)
    BY <1>2, Owing
  <2> QED BY <1>1, <1>3, <2>1, ReturnsMove
<1> QED BY <1>6, <1>7, <1>8 DEF Known, FramesFit

LEMMA DelRefDestructKnown ==
    ASSUME IInv, Sound, Known, IInv', DelRefDestruct
    PROVE  Known'
<1>1. /\ Top.at = "del_ref" /\ Top.n \in valid /\ rc[Top.n] = 1 /\ Top.n \notin called
      /\ rc' = [rc EXCEPT ![Top.n] = 1 + 1]
      /\ stack' = <<Frame("body", Top.n, 0), [Top EXCEPT !.at = "destructed"]>> \o Tail(stack)
      /\ UNCHANGED <<kind, to, elems, valid, var, buf, purple, lost>>
  BY DEF DelRefDestruct, At, LastReference, This, RunDestructor, buffer, ghosts
<1>2. /\ stack \in Seq(Frames) /\ stack # <<>> /\ Top \in Frames /\ FieldsOK(Top)
      /\ TypeOK' /\ Cover /\ PurpleRoots /\ NamesFit /\ DropsFit /\ ReturnsFit /\ rc \in [Nodes -> Nat]
  BY Context DEF IInv, Known, FramesFit, TypeOK
<1>3. Top.n \in Objs /\ Top.n \in Nodes /\ Top.todo = {} /\ Top.list = {}
  BY <1>1, DelRefFacts, Sizes
<1>4. PICK f, g : f = Frame("body", Top.n, 0) /\ g = [Top EXCEPT !.at = "destructed"]
  OBVIOUS
<1>5. f \in Frames /\ f.at = "body" /\ f.n = Top.n /\ f.z = 0 /\ f.todo = {} /\ f.list = {}
  <2>1. "body" \in Labels /\ Top.n \in Nodes \cup {0} /\ 0 \in Zvals \cup {0}
    BY <1>3 DEF Labels
  <2> QED BY <1>4, <2>1, FrameFields
<1>6. /\ g \in Frames /\ g.at = "destructed" /\ g.n = Top.n /\ g.z = Top.z /\ g.todo = {} /\ g.list = {}
      /\ g.check = Top.check
  <2>1. Top \in Frames /\ Top.todo = {} /\ Top.list = {} /\ "destructed" \in Labels
    BY <1>2, <1>3 DEF Labels
  <2>2. g = [Top EXCEPT !.at = "destructed"]
    BY <1>4
  <2> QED BY ONLY <2>1, <2>2 DEF Frames
<1>7. stack' \in Seq(Frames) /\ Doubled(stack, stack', f, g)
  BY <1>1, <1>4, <1>5, <1>6, StackSteps
<1>8. Moves(stack, stack', Len(stack) - 1, {f, g}) /\ Shifts
  BY <1>2, <1>7, AllMoves DEF Shifts
<1>9. Quiet
  <2>1. Bare(Top) /\ Bare(f) /\ Bare(g)
    BY <1>1, <1>3, <1>5, <1>6, BareFrames DEF BareLabel
  <2>2. SameParts
    BY <1>2, <1>7, <2>1, BareSteps
  <2> QED BY <1>1, <2>2 DEF Quiet, Placid
<1>10. Cover'
  <2>1. \A o \in Objs : rc[o] = 0 => rc'[o] = 0 \/ o \in Roots'
    BY <1>1, <1>2, <1>3
  <2>2. \A u : u \in Named(Top) => u \in Named(g)
    BY <1>1, <1>3, <1>6 DEF Named
  <2>3. Handing = {}
    BY <1>1 DEF Handing
  <2>4. \A u \in Live : u \in Named(Top) \cup Handing => Based(u)'
    BY <1>2, <1>7, <2>2, <2>3, NameChanges, RootCases
  <2> QED BY <1>2, <1>8, <1>9, <2>1, <2>4, QuietCover
<1>11. PurpleRoots' /\ NamesFit' /\ DropsFit'
  <2>1. Top.check
    <3>1. Len(stack) \in 1..Len(stack) /\ Fr(stack, Len(stack)) = Top
      BY <1>2, FrFacts DEF Top
    <3> QED BY <1>1, <1>2, <3>1 DEF DropsFit, DropFits
  <2>2. \A x \in {f, g} : Fits(x)'
    BY <1>5, <1>6, <2>1 DEF Fits, NameFits, DropFits
  <2>3. Len(stack) # Len(stack) - 1 /\ Top.at \notin {"storage", "resume"}
    BY <1>1, <1>2, FrFacts
  <2> QED BY <1>2, <1>7, <1>8, <1>9, <2>2, <2>3, PlacidRest DEF Quiet
<1>12. ReturnsFit'
  <2>1. ~ Returning(f) /\ ~ Returning(g) /\ \A o : ~ Owed(o)
    BY <1>1, <1>5, <1>6, Owing DEF Returning
  <2> QED BY <1>2, <1>7, <2>1, ReturnsMove
<1> QED BY <1>10, <1>11, <1>12 DEF Known, FramesFit

LEMMA TopNext ==
    ASSUME stack' \in Seq(Frames), IInv, Sound
    PROVE  /\ \A f : Replaced(stack, stack', f) => Top' = f
           /\ \A f : Pushed(stack, stack', f) => Top' = f
           /\ \A f, g : Doubled(stack, stack', f, g) => Top' = f
<1>1. PICK n \in Nat : Len(stack) = n + 1 /\ Len(stack) - 1 = n
  BY Context
<1>2. Top' = stack'[1] /\ Len(stack') \in Nat
  BY DEF Top
<1>3. ASSUME NEW f, Fr(stack', Len(stack')) = f, Len(stack') >= 1 PROVE Top' = f
  BY <1>2, <1>3 DEF Fr
<1> QED BY <1>1, <1>3 DEF Replaced, Pushed, Doubled

LEMMA DelRefKeepKnown ==
    ASSUME IInv, Sound, Known, IInv', DelRefKeep
    PROVE  Known'
<1>1. /\ Top.at \in {"del_ref", "destructed"} /\ ~ (Top.n \in valid /\ rc[Top.n] = 1)
      /\ rc' = [rc EXCEPT ![Top.n] = @ - 1]
      /\ UNCHANGED <<kind, to, elems, valid, var, buf, purple, lost>>
  BY DEF DelRefKeep, At, LastReference, This, buffer, ghosts
<1>2. /\ stack \in Seq(Frames) /\ stack # <<>> /\ Top \in Frames
      /\ TypeOK' /\ Cover /\ PurpleRoots /\ NamesFit /\ DropsFit /\ ReturnsFit /\ rc \in [Nodes -> Nat]
  BY Context DEF IInv, Known, FramesFit, TypeOK
<1>3. /\ Top.n \in Objs /\ Top.n \in Nodes /\ Top.n \in valid /\ Top.todo = {} /\ Top.list = {}
      /\ rc[Top.n] >= 1 /\ Top.z \in Zvals \cup {0}
      /\ Top.z # 0 => \E j \in 1..Len(stack) - 1 : Fr(stack, j).at = "free" /\ Fr(stack, j).z = Top.z
  BY <1>1, <1>2, DelRefFacts, Sizes DEF Frames
<1>4. PICK n \in Nat : Len(stack) = n + 1 /\ Fr(stack, n + 1) = Top /\ Len(stack) - 1 = n
  BY Context
<1>5. Top.z # 0 => Top.z \in Dying /\ Top.z \notin Listed
  <2>1. \A j \in 1..Len(stack) - 1 : j \in 1..Len(stack)
    BY <1>4
  <2>2. Top.z # 0 => Top.z \in Dying
    BY <1>3, <2>1, Context DEF Views
  <2> QED BY <2>2, Context DEF Inv, DyingInv, DyingHeap
<1>6. Top.check
  <2>1. n + 1 \in 1..Len(stack)
    BY <1>4
  <2>2. DropFits(Top)
    BY <1>2, <1>4, <2>1 DEF DropsFit
  <2> QED BY <1>1, <1>3, <2>2 DEF DropFits
<1>7. PICK f : f = Frame("root", Top.n, Top.z)
  OBVIOUS
<1>8. f \in Frames /\ f.at = "root" /\ f.n = Top.n /\ f.z = Top.z /\ f.todo = {} /\ f.list = {}
  <2>1. "root" \in Labels /\ Top.n \in Nodes \cup {0}
    BY <1>3 DEF Labels
  <2> QED BY <1>3, <1>7, <2>1, FrameFields
<1>9. Replace(f)
  BY <1>3, <1>6, <1>7 DEF DelRefKeep, This
<1>10. stack' \in Seq(Frames) /\ Replaced(stack, stack', f)
  BY <1>8, <1>9, StackSteps
<1>11. Moves(stack, stack', Len(stack) - 1, {f}) /\ Shifts
  BY <1>2, <1>10, AllMoves DEF Shifts
<1>12. SameParts
  <2>1. Bare(Top) /\ Bare(f)
    BY <1>1, <1>3, <1>8, BareFrames DEF BareLabel
  <2> QED BY <1>2, <1>10, <2>1, BareSteps
<1>13. Quiet
  BY <1>1, <1>12 DEF Quiet, Placid
<1>14. Listed' = Listed /\ Dying' = Dying /\ Top' = f
  BY Context, NextViews, TopNext, <1>10, <1>12 DEF SameParts
<1>15. Cover'
  <2>1. \A o \in Objs : rc[o] = 0 => rc'[o] = 0 \/ o \in Roots'
    BY <1>1, <1>2, <1>3
  <2>2. Handing' = IF f.at = "root" /\ f.z \notin Listed THEN {f.n, f.z} ELSE {}
    BY <1>14 DEF Handing
  <2>3. 0 \notin Live
    BY Context, LiveNodes
  <2>4. Top.z \notin Listed
    BY <1>5, ListTypes, Sizes
  <2>5. \A u \in Live : u \in Named(Top) \cup Handing => u \in Handing'
    BY <1>1, <1>3, <1>8, <2>2, <2>4 DEF Named, Handing
  <2>6. \A u \in Live : u \in Named(Top) \cup Handing => Based(u)'
    BY <2>5, RootCases
  <2> QED BY <1>2, <1>11, <1>13, <2>1, <2>6, QuietCover
<1>16. PurpleRoots' /\ NamesFit' /\ DropsFit'
  <2>1. Fits(f)'
    BY <1>5, <1>8, <1>14 DEF Fits, NameFits, DropFits
  <2>2. Len(stack) # Len(stack) - 1 /\ Top.at \notin {"storage", "resume"}
    BY <1>1, <1>4
  <2> QED BY <1>2, <1>10, <1>11, <1>13, <2>1, <2>2, PlacidRest DEF Quiet
<1>17. ReturnsFit'
  <2>1. ~ Returning(f) /\ \A o : Owed(o) => Returns(f, o)
    BY <1>8, Owing DEF Returning, Returns
  <2> QED BY <1>2, <1>10, <2>1, ReturnsMove
<1> QED BY <1>15, <1>16, <1>17 DEF Known, FramesFit

LEMMA DestructorReturnedKnown ==
    ASSUME IInv, Sound, Known, IInv', DestructorReturned
    PROVE  Known'
<1>1. /\ Top.at = "destructors" /\ Top.n # 0
      /\ rc' = [rc EXCEPT ![Top.n] = @ - 1]
      /\ stack' = <<[Top EXCEPT !.n = 0]>> \o Tail(stack)
      /\ UNCHANGED <<kind, to, elems, valid, var, buf, purple, lost>>
  BY DEF DestructorReturned, At, This, Replace, buffer, ghosts
<1>2. /\ stack \in Seq(Frames) /\ stack # <<>> /\ Top \in Frames /\ FieldsOK(Top)
      /\ TypeOK' /\ Cover /\ PurpleRoots /\ NamesFit /\ DropsFit /\ ReturnsFit /\ rc \in [Nodes -> Nat]
  BY Context DEF IInv, Known, FramesFit, TypeOK
<1>3. PICK n \in Nat : Len(stack) = n + 1 /\ Fr(stack, n + 1) = Top /\ Len(stack) - 1 = n
  BY Context
<1>4. n + 1 \in 1..Len(stack)
  BY <1>3
<1>5. Top.n \in Objs /\ Top.n \in Nodes /\ Top.z = 0 /\ Top.todo = {}
  BY <1>1, <1>2, Sizes DEF FieldsOK
<1>6. Top.n \in valid /\ rc[Top.n] # 0
  <2>1. Holds(Top, Top.n)
    BY <1>1 DEF Holds, HoldLabels
  <2>2. Top \in HoldFrames(Top.n) /\ Len(stack) \in Nat
    BY <1>2, <1>3, <2>1 DEF HoldFrames
  <2>3. CountIn(stack, HoldFrames(Top.n)) \in Nat /\ CountIn(stack, HoldFrames(Top.n)) # 0
    BY <1>3, <1>4, <2>2, NoneCounted
  <2>4. rc[Top.n] = Cardinality(Counted(Top.n)) + CountIn(stack, HoldFrames(Top.n)) /\ Cardinality(Counted(Top.n)) \in Nat
    BY <1>5, ObjRefs
  <2>5. rc[Top.n] # 0
    BY <2>3, <2>4
  <2> QED BY <1>5, <2>5, ObjRefs
<1>7. PICK f : f = [Top EXCEPT !.n = 0]
  OBVIOUS
<1>8. /\ f \in Frames /\ f.at = "destructors" /\ f.n = 0 /\ f.z = Top.z /\ f.todo = Top.todo /\ f.list = Top.list
  BY ONLY <1>1, <1>2, <1>7 DEF Frames
<1>9. stack' \in Seq(Frames) /\ Replaced(stack, stack', f)
  BY <1>1, <1>7, <1>8, StackSteps DEF Replace
<1>10. Moves(stack, stack', Len(stack) - 1, {f}) /\ Shifts
  BY <1>2, <1>9, AllMoves DEF Shifts
<1>11. SameParts
  <2>1. \A i \in 1..4 : Part(f, i) = Part(Top, i)
    BY <1>1, <1>8 DEF Part
  <2>2. ASSUME NEW i \in 1..4 PROVE Parts(stack', i) = Parts(stack, i)
    <3>1. /\ Parts(stack, i) = Below(stack, i) \cup Part(stack[1], i)
          /\ Parts(stack', i) = Below(stack, i) \cup Part(f, i)
      BY <1>2, <1>9, PartChanges
    <3> QED BY <2>1, <3>1, Context
  <2> QED BY <2>2 DEF SameParts
<1>12. Quiet
  BY <1>1, <1>11 DEF Quiet, Placid

\* The object is a possible root by now, or a possible root hands it over.
<1>13. \A h \in 1..Len(stack) : Fr(stack, h).at = "resume" => h \in 1..n
  BY <1>1, <1>3
<1>14. Top.n \in Roots'
  <2>1. Handed(Top.n)
    BY <1>1, <1>2, <1>3, <1>4 DEF ReturnsFit, Returning
  <2>2. CASE Top.n \in Buffered \cup lost
    <3>1. Buffered' = Buffered /\ lost' = lost
      BY <1>1 DEF Buffered
    <3> QED BY <2>2, <3>1, RootCases
  <2>3. ASSUME NEW h \in 1..Len(stack), Fr(stack, h).at = "resume", Fr(stack, h).n = Top.n
        PROVE  Top.n \in Roots'
    <3>1. h \in 1..n
      BY <1>13, <2>3
    <3>2. Fr(stack', h) = Fr(stack, h) /\ h \in 1..Len(stack')
      BY <1>3, <1>9, <3>1 DEF Replaced, Kept
    <3>3. Top.n \in Named(Fr(stack', h))
      BY <2>3, <3>2 DEF Named
    <3> QED BY <3>2, <3>3, NamesMember, RootCases
  <2> QED BY <2>1, <2>2, <2>3 DEF Handed
<1>15. Cover'
  <2>1. \A o \in Objs : rc[o] = 0 => rc'[o] = 0 \/ o \in Roots'
    BY <1>1, <1>2, <1>5, <1>6
  <2>2. \A u : u \in Named(Top) => u \in Named(f) \/ u = Top.n
    BY <1>1, <1>5, <1>8 DEF Named
  <2>3. Handing = {}
    BY <1>1 DEF Handing
  <2>4. \A u \in Live : u \in Named(Top) \cup Handing => Based(u)'
    BY <1>2, <1>9, <1>14, <2>2, <2>3, NameChanges, RootCases
  <2> QED BY <1>2, <1>10, <1>12, <2>1, <2>4, QuietCover
<1>16. PurpleRoots' /\ NamesFit' /\ DropsFit'
  <2>1. \A x \in {f} : Fits(x)'
    BY <1>8, Fitting
  <2>2. Len(stack) # Len(stack) - 1 /\ Top.at \notin {"storage", "resume"}
    BY <1>1, <1>3
  <2> QED BY <1>2, <1>9, <1>10, <1>12, <2>1, <2>2, PlacidRest DEF Quiet
<1>17. ReturnsFit'
  <2>1. ~ Returning(f) /\ \A o : ~ Owed(o)
    BY <1>1, <1>8, Owing DEF Returning
  <2> QED BY <1>2, <1>9, <2>1, ReturnsMove
<1> QED BY <1>15, <1>16, <1>17 DEF Known, FramesFit

LEMMA CallDestructorKnown ==
    ASSUME IInv, Sound, Known, IInv', CallDestructor
    PROVE  Known'
<1>1. /\ Top.at = "destructors" /\ Top.n = 0
      /\ UNCHANGED <<kind, to, elems, valid, var, buf, purple, lost>>
  BY DEF CallDestructor, At, This, buffer, ghosts
<1>2. /\ stack \in Seq(Frames) /\ stack # <<>> /\ Top \in Frames /\ FieldsOK(Top)
      /\ TypeOK' /\ Cover /\ PurpleRoots /\ NamesFit /\ DropsFit /\ ReturnsFit
      /\ rc \in [Nodes -> Nat] /\ valid \subseteq Objs
  BY Context DEF IInv, Known, FramesFit, TypeOK
<1>3. PICK n \in Nat : Len(stack) = n + 1 /\ Fr(stack, n + 1) = Top /\ Len(stack) - 1 = n
  BY Context
<1>4. PICK x \in Top.list : /\ kind[x] = "object" /\ Garbage(to[x])
                            /\ rc' = [rc EXCEPT ![to[x]] = 1 + 1]
                            /\ stack' = <<Frame("body", to[x], 0), [Top EXCEPT !.n = to[x], !.check = TRUE]>> \o Tail(stack)
  BY DEF CallDestructor, RunDestructor
<1>5. PICK o \in Objs : o = to[x] /\ o \in Nodes
  BY <1>2, <1>4, Sizes DEF Garbage
<1>6. PICK f, g : f = Frame("body", o, 0) /\ g = [Top EXCEPT !.n = o, !.check = TRUE]
  OBVIOUS
<1>7. f \in Frames /\ f.at = "body" /\ f.n = o /\ f.z = 0 /\ f.todo = {} /\ f.list = {}
  <2>1. "body" \in Labels /\ o \in Nodes \cup {0} /\ 0 \in Zvals \cup {0}
    BY <1>5 DEF Labels
  <2>2. LET y == Frame("body", o, 0) IN
        y \in Frames /\ y.at = "body" /\ y.n = o /\ y.z = 0 /\ y.todo = {} /\ y.list = {}
    BY ONLY <2>1 DEF Frame, Frames
  <2> QED BY <1>6, <2>2
<1>8. /\ g \in Frames /\ g.at = "destructors" /\ g.n = o /\ g.z = Top.z /\ g.todo = Top.todo /\ g.list = Top.list /\ g.check
  <2>1. Top \in Frames /\ Top.at = "destructors" /\ o \in Nodes \cup {0}
    BY <1>1, <1>2, <1>5
  <2>2. g = [Top EXCEPT !.n = o, !.check = TRUE]
    BY <1>6
  <2> QED BY ONLY <2>1, <2>2 DEF Frames
<1>9. stack' \in Seq(Frames) /\ Doubled(stack, stack', f, g)
  BY <1>4, <1>5, <1>6, <1>7, <1>8, StackSteps
<1>10. Moves(stack, stack', Len(stack) - 1, {f, g}) /\ Shifts
  BY <1>2, <1>9, AllMoves DEF Shifts
<1>11. SameParts
  <2>1. \A i \in 1..4 : Part(g, i) = Part(Top, i) /\ Part(f, i) = {}
    BY <1>1, <1>7, <1>8 DEF Part
  <2>2. ASSUME NEW i \in 1..4 PROVE Parts(stack', i) = Parts(stack, i)
    <3>1. /\ Parts(stack, i) = Below(stack, i) \cup Part(stack[1], i)
          /\ Parts(stack', i) = Below(stack, i) \cup Part(g, i) \cup Part(f, i)
      BY <1>2, <1>9, PartChanges
    <3> QED BY <2>1, <3>1, Context
  <2> QED BY <2>2 DEF SameParts
<1>12. Quiet
  BY <1>1, <1>11 DEF Quiet, Placid
<1>13. o \in Roots'
  <2>1. o \in Named(f)
    BY <1>7 DEF Named
  <2> QED BY <1>2, <1>9, <2>1, NameChanges, RootCases
<1>14. Cover'
  <2>1. \A m \in Objs : rc[m] = 0 => rc'[m] = 0 \/ m \in Roots'
    BY <1>2, <1>4, <1>5, <1>13
  <2>2. \A u : u \in Named(Top) => u \in Named(g) \/ u = 0
    BY <1>1, <1>8 DEF Named
  <2>3. Handing = {} /\ 0 \notin Live
    BY <1>1, Context, LiveNodes DEF Handing
  <2>4. \A u \in Live : u \in Named(Top) \cup Handing => Based(u)'
    BY <1>2, <1>9, <2>2, <2>3, NameChanges, RootCases
  <2> QED BY <1>2, <1>10, <1>12, <2>1, <2>4, QuietCover
<1>15. PurpleRoots' /\ NamesFit' /\ DropsFit'
  <2>1. \A y \in {f, g} : Fits(y)'
    BY <1>7, <1>8, Fitting
  <2>2. Len(stack) # Len(stack) - 1 /\ Top.at \notin {"storage", "resume"}
    BY <1>1, <1>3
  <2> QED BY <1>2, <1>9, <1>10, <1>12, <2>1, <2>2, PlacidRest DEF Quiet
<1>16. ReturnsFit'
  <2>1. ~ Returning(f) /\ (Returning(g) => Returns(f, g.n)) /\ \A y : ~ Owed(y)
    BY <1>1, <1>7, <1>8, Owing DEF Returning, Returns
  <2> QED BY <1>2, <1>9, <2>1, ReturnsMove
<1> QED BY <1>14, <1>15, <1>16 DEF Known, FramesFit

LEMMA DestructorsDoneKnown ==
    ASSUME IInv, Sound, Known, IInv', DestructorsDone
    PROVE  Known'
<1>1. /\ Top.at = "destructors" /\ Top.n = 0
      /\ stack' = <<[Top EXCEPT !.at = "destroy", !.todo = Top.list]>> \o Tail(stack)
      /\ rc' = rc /\ UNCHANGED <<kind, to, elems, valid, var, buf, purple, lost>>
  BY Zenon DEF DestructorsDone, At, This, Replace, buffer, heap
<1>2. /\ stack \in Seq(Frames) /\ stack # <<>> /\ Top \in Frames /\ FieldsOK(Top)
      /\ TypeOK' /\ Cover /\ PurpleRoots /\ NamesFit /\ DropsFit /\ ReturnsFit
  BY Context DEF IInv, Known, FramesFit
<1>3. PICK n \in Nat : Len(stack) = n + 1 /\ Fr(stack, n + 1) = Top /\ Len(stack) - 1 = n
  BY Context
<1>4. Top.z = 0 /\ Top.todo = {} /\ Top.list \subseteq Zvals
  BY <1>1, <1>2 DEF FieldsOK, Frames
<1>5. PICK f : f = [Top EXCEPT !.at = "destroy", !.todo = Top.list]
  OBVIOUS
<1>6. f \in Frames /\ f.at = "destroy" /\ f.n = 0 /\ f.z = 0 /\ f.todo = Top.list /\ f.list = Top.list
  <2>1. "destroy" \in Labels /\ Top.list \in SUBSET Zvals /\ Top.n = 0 /\ Top.z = 0
    BY <1>1, <1>4 DEF Labels
  <2> QED BY ONLY <1>2, <1>5, <2>1 DEF Frames
<1>7. stack' \in Seq(Frames) /\ Replaced(stack, stack', f)
  BY <1>1, <1>5, <1>6, StackSteps DEF Replace
<1>8. Moves(stack, stack', Len(stack) - 1, {f}) /\ Shifts
  BY <1>2, <1>7, AllMoves DEF Shifts
<1>9. SameParts
  <2>1. \A i \in 1..4 : Part(f, i) = Part(Top, i)
    BY <1>1, <1>6 DEF Part
  <2>2. ASSUME NEW i \in 1..4 PROVE Parts(stack', i) = Parts(stack, i)
    <3>1. /\ Parts(stack, i) = Below(stack, i) \cup Part(stack[1], i)
          /\ Parts(stack', i) = Below(stack, i) \cup Part(f, i)
      BY <1>2, <1>7, PartChanges
    <3> QED BY <2>1, <3>1, Context
  <2> QED BY <2>2 DEF SameParts
<1>10. Quiet
  BY <1>1, <1>9 DEF Quiet, Placid
<1>11. Cover'
  <2>1. \A o \in Objs : rc[o] = 0 => rc'[o] = 0 \/ o \in Roots'
    BY <1>1
  <2>2. \A u : u \in Named(Top) => u \in Named(f)
    BY <1>1, <1>4, <1>6 DEF Named
  <2>3. Handing = {}
    BY <1>1 DEF Handing
  <2>4. \A u \in Live : u \in Named(Top) \cup Handing => Based(u)'
    BY <1>2, <1>7, <2>2, <2>3, NameChanges, RootCases
  <2> QED BY <1>2, <1>8, <1>10, <2>1, <2>4, QuietCover
<1>12. PurpleRoots' /\ NamesFit' /\ DropsFit'
  <2>1. \A x \in {f} : Fits(x)'
    BY <1>6, Fitting
  <2>2. Len(stack) # Len(stack) - 1 /\ Top.at \notin {"storage", "resume"}
    BY <1>1, <1>3
  <2> QED BY <1>2, <1>7, <1>8, <1>10, <2>1, <2>2, PlacidRest DEF Quiet
<1>13. ReturnsFit'
  <2>1. ~ Returning(f) /\ \A o : ~ Owed(o)
    BY <1>1, <1>6, Owing DEF Returning
  <2> QED BY <1>2, <1>7, <2>1, ReturnsMove
<1> QED BY <1>11, <1>12, <1>13 DEF Known, FramesFit

LEMMA DropReferenceKnown ==
    ASSUME IInv, Sound, Known, IInv', DropReference
    PROVE  Known'
<1>1. /\ Top.at = "ptr_dtor" /\ rc[Top.z] > 1 /\ rc' = [rc EXCEPT ![Top.z] = @ - 1]
      /\ UNCHANGED <<kind, to, elems, valid, var, buf, purple, lost>>
  BY DEF DropReference, At, buffer, ghosts
<1>2. /\ kind[Top.z] = "array" => stack' = <<Frame("root", Top.z, Top.z)>> \o Tail(stack)
      /\ kind[Top.z] = "object" => stack' = <<Frame("root", to[Top.z], Top.z)>> \o Tail(stack)
      /\ kind[Top.z] \notin {"array", "object"} => stack' = Tail(stack)
  BY DEF DropReference, Replace, Return
<1>3. /\ stack \in Seq(Frames) /\ stack # <<>> /\ Top \in Frames /\ FieldsOK(Top) /\ Inv
      /\ TypeOK' /\ Cover /\ PurpleRoots /\ NamesFit /\ DropsFit /\ ReturnsFit
      /\ rc \in [Nodes -> Nat] /\ kind \in [Zvals -> {"none", "array", "object", "null"}]
  BY Context DEF IInv, Known, FramesFit, TypeOK
<1>4. Top.z \in Zvals /\ Top.z # 0 /\ Top.list = {} /\ Top.todo = {} /\ Top.n = 0
  BY <1>1, <1>3 DEF FieldsOK, Frames
<1>5. PICK n \in Nat : Len(stack) = n + 1 /\ Fr(stack, n + 1) = Top /\ Len(stack) - 1 = n
  BY Context
<1>6. kind[Top.z] # "none"
  <2>1. n + 1 \in 1..Len(stack)
    BY <1>5
  <2> QED BY <1>1, <1>3, <1>4, <1>5, <2>1 DEF Inv, FrameInv, NamedZvals
<1>7. /\ \A o \in Objs : rc'[o] = rc[o]
      /\ rc'[Top.z] >= 1
  <2>1. rc[Top.z] \in Nat /\ rc'[Top.z] = rc[Top.z] - 1
    BY <1>1, <1>3, <1>4, Sizes
  <2> QED BY <1>1, <1>3, <1>4, <2>1, Sizes
<1>8. Bare(Top) /\ Handing = {} /\ \A u : u \in Named(Top) <=> u \in {0, Top.z}
  BY <1>1, <1>4, BareFrames DEF BareLabel, Handing, Named
<1>9. 0 \notin Live
  BY Context, LiveNodes
<1>10. \A o : ~ Owed(o)
  BY <1>1, Owing
<1>11. Len(stack) # Len(stack) - 1 /\ Top.at \notin {"storage", "resume"}
  BY <1>1, <1>5
<1>12. ASSUME SameParts, stack' \in Seq(Frames), Top.z \in Listed PROVE Top.z \in Roots'
  <2>1. Listed' = Listed
    BY Context, NextViews, <1>12 DEF SameParts
  <2> QED BY <1>12, <2>1, NextInHand, RootCases
<1>13. ASSUME NEW m \in Nodes, stack' = <<Frame("root", m, Top.z)>> \o Tail(stack),
              m \in Objs => kind[Top.z] = "object" /\ to[Top.z] = m
       PROVE  Known'
  <2>1. PICK f : f = Frame("root", m, Top.z)
    OBVIOUS
  <2>2. f \in Frames /\ f.at = "root" /\ f.n = m /\ f.z = Top.z /\ f.todo = {} /\ f.list = {}
    <3>1. "root" \in Labels /\ m \in Nodes \cup {0} /\ Top.z \in Zvals \cup {0}
      BY <1>4 DEF Labels
    <3> QED BY <2>1, <3>1, FrameFields
  <2>3. stack' \in Seq(Frames) /\ Replaced(stack, stack', f)
    BY <1>13, <2>1, <2>2, StackSteps DEF Replace
  <2>4. Moves(stack, stack', Len(stack) - 1, {f}) /\ Shifts
    BY <1>3, <2>3, AllMoves DEF Shifts
  <2>5. SameParts
    <3>1. Bare(f)
      BY <2>2, BareFrames DEF BareLabel
    <3> QED BY <1>3, <1>8, <2>3, <3>1, BareSteps
  <2>6. Quiet
    BY <1>1, <2>5 DEF Quiet, Placid
  <2>7. Listed' = Listed /\ Top' = f
    BY Context, NextViews, TopNext, <2>3, <2>5 DEF SameParts
  <2>8. Top.z \in Roots'
    <3>1. Top.z \notin Listed => Top.z \in Handing'
      BY <2>2, <2>7 DEF Handing
    <3> QED BY <1>12, <2>3, <2>5, <3>1, RootCases
  <2>9. Cover'
    <3>1. \A o \in Objs : rc[o] = 0 => rc'[o] = 0 \/ o \in Roots'
      BY <1>7
    <3>2. \A u \in Live : u \in Named(Top) \cup Handing => Based(u)'
      BY <1>8, <1>9, <2>8, RootCases
    <3> QED BY <1>3, <2>4, <2>6, <3>1, <3>2, QuietCover
  <2>10. PurpleRoots' /\ NamesFit' /\ DropsFit'
    <3>1. Fits(f)'
      BY <1>1, <1>7, <1>13, <2>2 DEF Fits, NameFits, DropFits
    <3> QED BY <1>3, <1>11, <2>3, <2>4, <2>6, <3>1, PlacidRest DEF Quiet
  <2>11. ReturnsFit'
    <3>1. ~ Returning(f)
      BY <2>2 DEF Returning
    <3> QED BY <1>3, <1>10, <2>3, <3>1, ReturnsMove
  <2> QED BY <2>9, <2>10, <2>11 DEF Known, FramesFit
<1>14. ASSUME kind[Top.z] = "null", stack' = Tail(stack)
       PROVE  Known'
  <2>1. stack' \in Seq(Frames) /\ Popped(stack, stack')
    BY <1>14, StackSteps DEF Return
  <2>2. Moves(stack, stack', Len(stack) - 1, {}) /\ Shifts
    BY <1>3, <2>1, AllMoves DEF Shifts
  <2>3. SameParts
    BY <1>3, <1>8, <2>1, BareSteps
  <2>4. Quiet
    BY <1>1, <2>3 DEF Quiet, Placid
  <2>5. Top.z \in Listed
    <3>1. Top.z \in Parts(stack, 3)
      BY <1>3, <1>4, <1>14 DEF Inv, HeapInv, NullsOK
    <3>2. \E h \in 1..Len(stack) : Top.z \in Part(Fr(stack, h), 3)
      BY <3>1, PartMember
    <3>3. \A f : Part(f, 3) \subseteq f.list
      BY DEF Part
    <3> QED BY <3>2, <3>3, Context DEF Views
  <2>6. Cover'
    <3>1. \A o \in Objs : rc[o] = 0 => rc'[o] = 0 \/ o \in Roots'
      BY <1>7
    <3>2. \A u \in Live : u \in Named(Top) \cup Handing => Based(u)'
      BY <1>8, <1>9, <1>12, <2>1, <2>3, <2>5, RootCases
    <3> QED BY <1>3, <2>2, <2>4, <3>1, <3>2, QuietCover
  <2>7. PurpleRoots' /\ NamesFit' /\ DropsFit'
    BY <1>3, <1>11, <2>1, <2>2, <2>4, PlacidRest DEF Quiet
  <2>8. ReturnsFit'
    BY <1>3, <1>10, <2>1, ReturnsMove
  <2> QED BY <2>6, <2>7, <2>8 DEF Known, FramesFit
<1>15. CASE kind[Top.z] = "array"
  BY <1>2, <1>4, <1>13, <1>15, Sizes
<1>16. CASE kind[Top.z] = "object"
  <2>1. to[Top.z] \in Objs
    BY <1>3, <1>4, <1>16 DEF Inv, HeapInv, KindsOK
  <2> QED BY <1>2, <1>13, <1>16, <2>1, Sizes
<1>17. CASE kind[Top.z] = "null"
  BY <1>2, <1>14, <1>17
<1>18. kind[Top.z] \in {"array", "object", "null"}
  BY <1>3, <1>4, <1>6
<1> QED BY <1>15, <1>16, <1>17, <1>18
\* The end of a possible root: its zval has another reference, or has been found.
LEMMA RootDone ==
    ASSUME IInv, Sound, Known, IInv', Sound', Top.at \in {"root", "resume"}, Return,
           NEW n, n = Top.n, NEW z, z = Top.z,
           UNCHANGED <<kind, to, elems, valid, var>>, \A o \in Objs : rc'[o] = rc[o],
           \A u \in Live : u \in Buffered \cup lost => u \in Roots',
           n \in Live /\ (Top.at = "root" => z \notin Listed) => Based(n)',
           z \in Live /\ z \notin Listed \cup Dying /\ z # n => Based(z)' \/ rc'[z] >= 1
    PROVE  Cover' /\ SameParts
<1>1. /\ stack \in Seq(Frames) /\ stack # <<>> /\ Top \in Frames /\ FieldsOK(Top) /\ Inv /\ TypeOK
      /\ TypeOK' /\ Cover /\ NamesFit /\ Inv'
  BY Context DEF IInv, Known, FramesFit
<1>2. stack' \in Seq(Frames) /\ Popped(stack, stack')
  BY StackSteps
<1>3. SameParts
  <2>1. Top.list = {} /\ Bare(Top)
    BY <1>1, BareFrames DEF BareLabel, FieldsOK
  <2> QED BY <1>1, <1>2, <2>1, BareSteps
<1>4. Listed' = Listed /\ Dying' = Dying
  BY <1>2, <1>3, Context, NextViews DEF SameParts
<1>5. Gaining
  BY <1>3 DEF Gaining
<1>6. Live' = Live /\ Live \subseteq Nodes /\ 0 \notin Live
  BY <1>1, LiveNodes DEF Live
<1>7. n \in Nodes /\ z \in Zvals \cup {0} /\ (n \in Zvals => n = z)
  BY <1>1 DEF FieldsOK, Frames
<1>8. \A u : u \in Named(Top) \cup Handing => u = n \/ u = z \/ u = 0
  <2>1. Top.todo = {} /\ Top.list = {}
    BY <1>1 DEF FieldsOK
  <2> QED BY <1>7, <2>1 DEF Named, Handing
<1>9. Top.at = "root" /\ z \in Listed => Named(Top) \cup Handing = {}
  BY <1>1, <1>7 DEF Named, Handing, FieldsOK
<1>10. \A u \in Live : u \in Roots => u \in Roots' \/ u \in Named(Top) \cup Handing
  <2>1. Held' = Held /\ Shifts
    BY <1>2 DEF Held, Shifts
  <2> QED BY <1>2, <2>1, RootsKept, RootCases
<1>11. z \in Listed \cup Dying => z \in Roots'
  BY <1>2, <1>4, NextInHand, RootCases
<1>12. CASE Top.at = "root" /\ z \in Listed
  <2>1. \A u \in Live : u \in Roots => Based(u)'
    BY <1>9, <1>10, <1>12, RootCases
  <2> QED BY <1>1, <1>3, <1>5, <2>1, GainingCover
<1>13. CASE ~ (Top.at = "root" /\ z \in Listed)
  <2>1. n \in Live => Based(n)'
    BY <1>7, <1>13
  <2>2. CASE z \in Live => Based(z)'
    <3>1. \A u \in Live : u \in Roots => Based(u)'
      BY <1>6, <1>8, <1>10, <2>1, <2>2, RootCases
    <3> QED BY <1>1, <1>3, <1>5, <3>1, GainingCover
  <2>3. CASE z \in Live /\ ~ Based(z)'
    <3>1. z \in Zvals /\ z # 0 /\ z \notin Listed \cup Dying /\ z # n
      BY <1>6, <1>7, <1>11, <2>1, <2>3, RootCases
    <3>2. n \in Objs
      BY <1>7, <3>1 DEF Nodes
    <3>3. kind[z] = "object" /\ to[z] = n
      <4>1. NameFits(Top)
        <5>1. Len(stack) \in 1..Len(stack) /\ Fr(stack, Len(stack)) = Top
          BY <1>1, FrFacts DEF Top
        <5> QED BY <1>1, <5>1 DEF NamesFit
      <4> QED BY <1>7, <3>1, <3>2, <4>1 DEF NameFits
    <3>4. elems[z] = {}
      BY <1>1, <3>1, <3>3 DEF Inv, HeapInv, KindsOK
    <3>5. rc'[z] >= 1
      BY <1>7, <2>3, <3>1
    <3>6. PICK m \in Live' : z \in elems'[m]
      <4>1. kind'[z] # "none"
        BY <3>3
      <4>2. z \notin Roots'
        BY <2>3, RootCases
      <4> QED BY <1>1, <3>1, <3>5, <4>1, <4>2, Referred
    <3>7. m \in Live /\ m # z /\ z \in Leads(m)'
      BY <1>6, <3>4, <3>6 DEF Leads
    <3>8. \A u \in Live : u \in Leads(z) => Based(u)'
      BY <2>1, <3>3, <3>4 DEF Leads
    <3>9. \A u \in Live : u \in Roots /\ u # z => Based(u)'
      BY <1>6, <1>8, <1>10, <2>1, RootCases
    <3> QED BY <1>1, <1>3, <1>5, <3>7, <3>8, <3>9, LessCover
  <2> QED BY <2>2, <2>3
<1> QED BY <1>3, <1>12, <1>13

LEMMA NotARootKnown ==
    ASSUME IInv, Sound, Known, IInv', NotARoot
    PROVE  Known'
<1>1. /\ Top.at = "root" /\ NoRoot /\ Return
      /\ UNCHANGED <<kind, to, elems, rc, valid, var, buf, purple, lost, beyond>>
  BY DEF NotARoot, At, heap, buffer, ghosts
<1>2. /\ stack \in Seq(Frames) /\ stack # <<>> /\ Top \in Frames /\ FieldsOK(Top) /\ Inv /\ TypeOK
      /\ PurpleRoots /\ NamesFit /\ DropsFit /\ ReturnsFit /\ Sound'
  BY <1>1, Context DEF Known, FramesFit, Sound
<1>3. stack' \in Seq(Frames) /\ Popped(stack, stack')
  BY <1>1, StackSteps
<1>4. PICK n \in Nat : Len(stack) = n + 1 /\ Fr(stack, n + 1) = Top /\ Len(stack) - 1 = n
  BY Context
<1>0. PICK m, z : m = Top.n /\ z = Top.z
  OBVIOUS
<1>5. Buffered' = Buffered /\ lost' = lost
  BY <1>1 DEF Buffered
<1>6. SameParts
  <2>1. Top.list = {} /\ Bare(Top)
    BY <1>1, <1>2, BareFrames DEF BareLabel, FieldsOK
  <2> QED BY <1>2, <1>3, <2>1, BareSteps
<1>7. Listed' = Listed /\ Dying' = Dying
  BY <1>3, <1>6, Context, NextViews DEF SameParts
<1>8. ASSUME NEW x, Awaiting(x)
      PROVE  Awaiting(x)' /\ x \in Names(stack')
  <2>1. PICK h \in 1..Len(stack) : Fr(stack, h).at \in {"storage", "resume"} /\ Fr(stack, h).n = x
    BY <1>8 DEF Awaiting
  <2>2. h # n + 1
    BY <1>1, <1>4, <2>1
  <2>3. h \in 1..n
    BY <1>4, <2>2
  <2>4. h \in 1..Len(stack') /\ Fr(stack', h) = Fr(stack, h)
    BY <1>3, <1>4, <2>3 DEF Popped, Kept
  <2>5. x \in Named(Fr(stack', h))
    BY <2>1, <2>4 DEF Named
  <2> QED BY <2>1, <2>4, <2>5, NamesMember DEF Awaiting
<1>9. ASSUME Top.n \in Live, Top.z \notin Listed
      PROVE  /\ Top.n \in Buffered \cup lost \cup Dying \/ Awaiting(Top.n)
             /\ Top.n \in Buffered \cup lost \cup Dying => Top.n \in Roots'
  <2>1. Top.n \in purple
    <3>1. Top.n \notin Objs \ valid
      BY <1>2, <1>9, Sizes DEF Live
    <3> QED BY <1>1, <1>9, <3>1 DEF NoRoot, This
  <2>2. Safe(Top.n)
    BY <1>2, <1>9, <2>1 DEF PurpleRoots
  <2>3. Top.n \in Dying => Top.n \in Roots'
    BY <1>3, <1>7, NextInHand, RootCases
  <2> QED BY <1>5, <2>2, <2>3, RootCases DEF Safe
<1>10. m \in Live /\ z \notin Listed => m \in Roots'
  <2>1. Awaiting(m) => m \in Roots'
    BY <1>8, RootCases
  <2> QED BY <1>0, <1>9, <2>1
<1>11. NameFits(Top)
  <2>1. n + 1 \in 1..Len(stack)
    BY <1>4
  <2> QED BY <1>2, <1>4, <2>1 DEF NamesFit
<1>12. Cover'
  <2>1. \A u \in Live : u \in Buffered \cup lost => u \in Roots'
    BY <1>5, RootCases
  <2>2. m \in Live /\ (Top.at = "root" => z \notin Listed) => Based(m)'
    BY <1>1, <1>10, RootCases
  <2>3. z \in Live /\ z \notin Listed \cup Dying /\ z # m => Based(z)' \/ rc'[z] >= 1
    BY <1>0, <1>1, <1>2, <1>11, LiveNodes DEF NameFits
  <2>4. \A o \in Objs : rc'[o] = rc[o]
    BY <1>1
  <2> QED BY <1>0, <1>1, <1>2, <2>1, <2>2, <2>3, <2>4, RootDone
<1>13. PurpleRoots' /\ NamesFit' /\ DropsFit'
  <2>1. Moves(stack, stack', Len(stack) - 1, {})
    BY <1>2, <1>3, AllMoves
  <2>2. Len(stack) # Len(stack) - 1 /\ Top.at \notin {"storage", "resume"}
    BY <1>1, <1>4
  <2>3. Placid
    BY <1>1, <1>6 DEF Placid
  <2> QED BY <1>2, <1>3, <2>1, <2>2, <2>3, PlacidRest
<1>14. ReturnsFit'
  <2>1. ASSUME NEW o, Owed(o) PROVE Handed(o)'
    <3>1. /\ Top.n = o /\ Top.z = 0 /\ o \in valid /\ o \in Objs
          /\ \A h \in 1..Len(stack) : Fr(stack, h).at = "storage" => Fr(stack, h).n # o
      BY <2>1, Owing
    <3>2. o \in Live /\ o \notin Dying /\ Top.z \notin Listed
      BY <3>1, ListTypes, Sizes DEF Live
    <3>3. o \in Buffered \cup lost \/ Awaiting(o)
      BY <1>9, <3>1, <3>2
    <3>4. CASE o \in Buffered \cup lost
      BY <1>5, <3>4 DEF Handed
    <3>5. CASE Awaiting(o)
      <4>1. \A h \in 1..Len(stack') : h \in 1..Len(stack) /\ Fr(stack', h) = Fr(stack, h)
        BY <1>3, <1>4 DEF Popped, Kept
      <4>2. Awaiting(o)'
        BY <1>8, <3>5
      <4> QED BY <3>1, <4>1, <4>2 DEF Awaiting, Handed
    <3> QED BY <3>3, <3>4, <3>5
  <2> QED BY <1>2, <1>3, <2>1, ReturnsMove
<1> QED BY <1>12, <1>13, <1>14 DEF Known, FramesFit

LEMMA RootFiled ==
    ASSUME IInv, Sound, Known, IInv', Sound', Top.at \in {"root", "resume"}, Return,
           NEW m, m = Top.n, NEW z, z = Top.z,
           UNCHANGED <<kind, to, elems, valid, var>>, \A o \in Objs : rc'[o] = rc[o],
           Buffered \subseteq Buffered', lost \subseteq lost', purple' \subseteq purple \cup {m},
           m \in Buffered' \cup lost',
           z \in Live /\ z \notin Listed \cup Dying /\ z # m => z \in lost' \/ rc'[z] >= 1
    PROVE  Known'
<1>1. /\ stack \in Seq(Frames) /\ stack # <<>> /\ Top \in Frames /\ FieldsOK(Top) /\ Inv /\ TypeOK
      /\ PurpleRoots /\ NamesFit /\ DropsFit /\ ReturnsFit
  BY Context DEF Known, FramesFit
<1>2. stack' \in Seq(Frames) /\ Popped(stack, stack')
  BY StackSteps
<1>3. PICK n \in Nat : Len(stack) = n + 1 /\ Fr(stack, n + 1) = Top /\ Len(stack) - 1 = n
  BY Context
<1>4. Cover' /\ SameParts
  <2>1. \A u \in Live : u \in Buffered \cup lost => u \in Roots'
    BY RootCases
  <2>2. Based(m)'
    BY RootCases
  <2>3. z \in Live /\ z \notin Listed \cup Dying /\ z # m => Based(z)' \/ rc'[z] >= 1
    BY RootCases
  <2> QED BY <2>1, <2>2, <2>3, RootDone
<1>5. Listed' = Listed /\ Dying' = Dying /\ Live' = Live
  BY <1>2, <1>4, Context, NextViews DEF SameParts, Live
<1>6. Moves(stack, stack', n, {})
  <2>1. Moves(stack, stack', Len(stack) - 1, {})
    BY <1>1, <1>2, AllMoves
  <2> QED BY <1>3, <2>1
<1>7. PurpleRoots'
  <2>1. m \in Buffered' \cup lost' => Safe(m)'
    BY DEF Safe
  <2>2. \A x \in Live' : x \in purple' => (x \in purple /\ x \in Live) \/ Safe(x)'
    BY <1>5, <2>1
  <2>3. \A x \in Live' : x \in Buffered \cup lost \cup Dying => Safe(x)'
    BY <1>5 DEF Safe
  <2>4. \A x \in Live' : n = n /\ Top.at \in {"storage", "resume"} /\ x = Top.n => Safe(x)'
    BY <2>1
  <2> QED BY <1>1, <1>3, <1>6, <2>2, <2>3, <2>4, PurpleMove
<1>8. NamesFit' /\ DropsFit'
  <2>1. NamesStay
    BY <1>5 DEF NamesStay
  <2>2. Len(stack) \in Nat /\ n <= Len(stack) /\ n # Len(stack)
    BY <1>3
  <2> QED BY <1>1, <1>6, <2>1, <2>2, FramesFitMove
<1>9. ReturnsFit'
  <2>1. \A o : Owed(o) => Handed(o)'
    BY Owing DEF Handed
  <2> QED BY <1>1, <1>2, <2>1, ReturnsMove
<1> QED BY <1>4, <1>7, <1>8, <1>9 DEF Known, FramesFit

LEMMA EnterKeeps ==
    ASSUME TypeOK, NEW m \in Nodes, Unused # {}, Enter(m, Least(Unused)), purple' = purple \cup {m}
    PROVE  Buffered \subseteq Buffered' /\ m \in Buffered'
<1>1. PICK e \in Entries : e = Least(Unused) /\ buf[e] = 0
  <2>1. Unused \in SUBSET Nat
    BY DEF Unused, Entries
  <2> QED BY <2>1, LeastIn DEF Unused
<1>2. buf' = [buf EXCEPT ![e] = m] /\ buf \in [Entries -> Nodes \cup {0}]
  BY <1>1 DEF Enter, TypeOK
<1>3. buf'[e] = m /\ \A f \in Entries : f # e => buf'[f] = buf[f]
  BY <1>2
<1>4. \A x \in purple : x # 0
  BY Sizes DEF TypeOK
<1> QED BY <1>1, <1>3, <1>4 DEF Buffered

LEMMA RecordRootKnown ==
    ASSUME IInv, Sound, Known, IInv', RecordRoot
    PROVE  Known'
<1>1. /\ Top.at = "root" /\ Return /\ purple' = purple \cup {Top.n}
      /\ UNCHANGED <<kind, to, elems, rc, valid, var, lost, beyond>>
      /\ IF addr[Top.n] # 0 THEN UNCHANGED <<buf, addr>>
         ELSE Unused # {} /\ Enter(Top.n, Least(Unused))
  BY DEF RecordRoot, At, This, heap, ghosts
<1>2. TypeOK /\ Inv /\ NamesFit /\ Sound' /\ Top \in Frames /\ FieldsOK(Top) /\ stack \in Seq(Frames) /\ stack # <<>>
  BY <1>1, Context DEF Known, FramesFit, Sound
<1>3. PICK m, z : m = Top.n /\ z = Top.z
  OBVIOUS
<1>4. m \in Nodes
  BY <1>1, <1>2, <1>3 DEF FieldsOK, Frames
<1>5. Buffered \subseteq Buffered' /\ m \in Buffered'
  <2>1. CASE addr[m] # 0
    <3>1. buf' = buf /\ buf[addr[m]] = m /\ addr[m] \in Entries
      BY <1>1, <1>2, <1>3, <1>4, <2>1 DEF Inv, BufInv, TypeOK
    <3> QED BY <1>1, <1>3, <3>1 DEF Buffered
  <2>2. CASE addr[m] = 0
    BY <1>1, <1>2, <1>3, <1>4, <2>2, EnterKeeps
  <2> QED BY <2>1, <2>2
<1>6. NameFits(Top)
  <2>1. Len(stack) \in 1..Len(stack) /\ Fr(stack, Len(stack)) = Top
    BY <1>2, FrFacts DEF Top
  <2> QED BY <1>2, <2>1 DEF NamesFit
<1>7. z \in Live /\ z \notin Listed \cup Dying /\ z # m => z \in lost' \/ rc'[z] >= 1
  BY <1>1, <1>2, <1>3, <1>6, LiveNodes DEF NameFits
<1>8. lost \subseteq lost' /\ purple' \subseteq purple \cup {m} /\ \A o \in Objs : rc'[o] = rc[o]
  BY <1>1, <1>3
<1> QED BY <1>1, <1>2, <1>3, <1>5, <1>7, <1>8, RootFiled

LEMMA ResumeRootKnown ==
    ASSUME IInv, Sound, Known, IInv', Sound', ResumeRoot
    PROVE  Known'
<1>1. /\ Top.at = "resume" /\ Return
      /\ kind' = kind /\ to' = to /\ elems' = elems /\ valid' = valid /\ var' = var
      /\ rc' = IF Top.z = 0 THEN rc ELSE [rc EXCEPT ![Top.z] = @ - 1]
      /\ lost' = lost \cup (IF Unused = {} THEN {Top.n, Top.z} \ {0} ELSE {})
                      \cup {z \in {Top.z} \ {0, Top.n} : rc[z] = 1}
  BY Zenon DEF ResumeRoot, At, This
<1>2. /\ Unused = {} => buf' = buf /\ purple' = purple
      /\ Unused # {} => purple' = purple \cup {Top.n} /\ Enter(Top.n, Least(Unused))
  BY Zenon DEF ResumeRoot, This, buffer
<1>3. TypeOK /\ Inv /\ Top \in Frames /\ FieldsOK(Top) /\ stack \in Seq(Frames) /\ stack # <<>>
  BY Context
<1>4. PICK m, z : m = Top.n /\ z = Top.z
  OBVIOUS
<1>5. m \in Nodes /\ z \in Zvals \cup {0} /\ m # 0
  BY <1>1, <1>3, <1>4 DEF FieldsOK, Frames
<1>6. Buffered \subseteq Buffered' /\ m \in Buffered' \cup lost'
  <2>1. CASE Unused = {}
    BY <1>1, <1>2, <1>4, <1>5, <2>1 DEF Buffered
  <2>2. CASE Unused # {}
    BY <1>2, <1>3, <1>4, <1>5, <2>2, EnterKeeps
  <2> QED BY <2>1, <2>2
<1>7. ASSUME z \in Live, z # m, z \notin lost' PROVE rc'[z] >= 1
  <2>1. z # 0 /\ z \in Zvals /\ z \in Nodes
    BY <1>3, <1>5, <1>7, LiveNodes
  <2>2. rc[z] # 1
    BY <1>1, <1>4, <1>7, <2>1
  <2>3. rc[z] # 0
    <3>1. Len(stack) \in 1..Len(stack) /\ Fr(stack, Len(stack)) = Top /\ Len(stack) \in Nat
      BY <1>3, FrFacts DEF Top
    <3>2. Top \in RefFrames(z)
      BY <1>1, <1>3, <1>4 DEF RefFrames, Refers
    <3>3. CountIn(stack, RefFrames(z)) \in Nat /\ CountIn(stack, RefFrames(z)) # 0
      BY <3>1, <3>2, NoneCounted
    <3>4. kind[z] # "none"
      BY <1>3, <1>7, <2>1, LiveNodes
    <3>5. PICK V, E, F, Q : /\ V = VarRefs(var, z) /\ E = ElemRefs(elems, z)
                            /\ F = CountIn(stack, RefFrames(z)) /\ Q = ListRef(z)
      OBVIOUS
    <3>6. rc[z] = V + E + F + Q
      BY <1>3, <2>1, <3>4, <3>5 DEF Inv, HeapInv, ZvalCounts
    <3>7. V \in Nat /\ E \in Nat /\ Q \in Nat /\ F \in Nat /\ F # 0
      BY <3>3, <3>5, NoneCounted DEF ListRef
    <3> QED BY ONLY <3>6, <3>7
  <2>4. rc[z] \in Nat /\ rc'[z] = rc[z] - 1
    BY <1>1, <1>3, <1>4, <2>1 DEF TypeOK
  <2> QED BY <2>2, <2>3, <2>4
<1>8. \A o \in Objs : rc'[o] = rc[o]
  BY <1>1, <1>3, <1>4, <1>5, Sizes DEF TypeOK
<1>9. lost \subseteq lost' /\ purple' \subseteq purple \cup {m}
  BY <1>1, <1>2, <1>4
<1>10. UNCHANGED <<kind, to, elems, valid, var>>
  BY <1>1
<1>11. z \in Live /\ z \notin Listed \cup Dying /\ z # m => z \in lost' \/ rc'[z] >= 1
  BY <1>7
<1> QED BY <1>1, <1>4, <1>6, <1>8, <1>9, <1>10, <1>11, RootFiled

LEMMA BufferFullKnown ==
    ASSUME IInv, Sound, Known, IInv', BufferFull
    PROVE  Known'
<1>1. /\ Top.at = "root" /\ purple' = purple \cup {Top.n}
      /\ rc' = IF Top.z = 0 THEN rc ELSE [rc EXCEPT ![Top.z] = @ + 1]
      /\ stack' = <<Frame("collect", 0, 0), [Top EXCEPT !.at = "resume"]>> \o Tail(stack)
      /\ UNCHANGED <<kind, to, elems, valid, var, buf, lost>>
  BY DEF BufferFull, At, This, ghosts
<1>2. /\ stack \in Seq(Frames) /\ stack # <<>> /\ Top \in Frames /\ FieldsOK(Top) /\ Inv /\ TypeOK /\ TypeOK'
      /\ Cover /\ PurpleRoots /\ NamesFit /\ DropsFit /\ ReturnsFit
  BY Context DEF IInv, Known, FramesFit
<1>3. PICK n \in Nat : Len(stack) = n + 1 /\ Fr(stack, n + 1) = Top /\ Len(stack) - 1 = n
  BY Context
<1>4. PICK m, z : m = Top.n /\ z = Top.z
  OBVIOUS
<1>5. m \in Nodes /\ z \in Zvals \cup {0} /\ Top.todo = {} /\ Top.list = {}
  BY <1>1, <1>2, <1>4 DEF FieldsOK, Frames
<1>6. PICK f, g : f = Frame("collect", 0, 0) /\ g = [Top EXCEPT !.at = "resume"]
  OBVIOUS
<1>7. f \in Frames /\ f.at = "collect" /\ f.n = 0 /\ f.z = 0 /\ f.todo = {} /\ f.list = {}
  BY <1>6, FrameFields DEF Labels
<1>8. g \in Frames /\ g.at = "resume" /\ g.n = m /\ g.z = z /\ g.todo = {} /\ g.list = {}
  <2>1. "resume" \in Labels
    BY DEF Labels
  <2> QED BY ONLY <1>2, <1>4, <1>5, <1>6, <2>1 DEF Frames
<1>9. stack' \in Seq(Frames) /\ Doubled(stack, stack', f, g)
  BY <1>1, <1>6, <1>7, <1>8, StackSteps
<1>10. Moves(stack, stack', n, {f, g}) /\ Shifts
  BY <1>2, <1>3, <1>9, AllMoves DEF Shifts
<1>11. SameParts
  <2>1. Bare(Top) /\ Bare(f) /\ Bare(g)
    BY <1>1, <1>5, <1>7, <1>8, BareFrames DEF BareLabel
  <2> QED BY <1>2, <1>9, <2>1, BareSteps
<1>12. Listed' = Listed /\ Dying' = Dying /\ Live' = Live /\ Buffered \subseteq Buffered'
  BY <1>1, <1>9, <1>11, Context, NextViews DEF SameParts, Live, Buffered
<1>13. Cover'
  <2>1. \A o \in Objs : rc'[o] = rc[o]
    BY <1>1, <1>2, <1>4, <1>5, Sizes DEF TypeOK
  <2>2. Gaining
    BY <1>1, <1>11, <2>1 DEF Gaining
  <2>3. \A u \in Live : u \in Roots => u \in Roots' \/ u \in Named(Top) \cup Handing
    <3>1. Held' = Held /\ lost' = lost
      BY <1>1 DEF Held
    <3> QED BY <1>9, <1>10, <1>12, <3>1, RootsKept, RootCases
  <2>4. \A u : u \in Named(Top) \cup Handing => u \in Named(g)
    BY <1>1, <1>4, <1>5, <1>8 DEF Named, Handing
  <2>5. \A u : u \in Named(g) => u \in Roots'
    BY <1>2, <1>9, NameChanges, RootCases
  <2>6. \A u \in Live : u \in Roots => Based(u)'
    BY <2>3, <2>4, <2>5, RootCases
  <2> QED BY <1>2, <2>2, <2>6, GainingCover
<1>14. PurpleRoots'
  <2>1. Safe(m)'
    <3>1. n + 1 \in 1..Len(stack') /\ Fr(stack', n + 1) = g
      BY <1>3, <1>9 DEF Doubled
    <3> QED BY <1>8, <3>1 DEF Safe, Awaiting
  <2>2. \A x \in Live' : x \in purple' => (x \in purple /\ x \in Live) \/ Safe(x)'
    BY <1>1, <1>4, <1>12, <2>1
  <2>3. \A x \in Live' : x \in Buffered \cup lost \cup Dying => Safe(x)'
    BY <1>1, <1>12 DEF Safe
  <2>4. \A x \in Live' : n = n /\ Top.at \in {"storage", "resume"} /\ x = Top.n => Safe(x)'
    BY <1>1
  <2> QED BY <1>2, <1>3, <1>10, <2>2, <2>3, <2>4, PurpleMove
<1>15. NamesFit' /\ DropsFit'
  <2>1. NamesStay
    BY <1>1, <1>12 DEF NamesStay
  <2>2. Len(stack) \in Nat /\ n <= Len(stack) /\ n # Len(stack) /\ n + 1 \in 1..Len(stack)
    BY <1>3
  <2>3. NameFits(Top)
    BY <1>2, <1>3, <2>2 DEF NamesFit
  <2>4. Fits(g)'
    BY <1>1, <1>4, <1>8, <1>12, <2>3 DEF Fits, NameFits, DropFits
  <2>5. \A x \in {f, g} : Fits(x)'
    BY <1>7, <2>4, Fitting
  <2> QED BY <1>2, <1>10, <2>1, <2>2, <2>5, FramesFitMove
<1>16. ReturnsFit'
  <2>1. /\ ~ Returning(f) /\ ~ Returning(g)
        /\ \A o : Owed(o) => Returns(g, o)
    BY <1>4, <1>7, <1>8, Owing DEF Returning, Returns
  <2> QED BY <1>2, <1>9, <2>1, ReturnsMove
<1> QED BY <1>13, <1>14, <1>15, <1>16 DEF Known, FramesFit

LEMMA FreeZvalKnown ==
    ASSUME IInv, Sound, Known, IInv', FreeZval
    PROVE  Known'
<1>1. PICK z : /\ z = Top.z /\ Top.at = "free" /\ Top.todo = {} /\ Return
               /\ kind' = [kind EXCEPT ![z] = "none"] /\ to' = [to EXCEPT ![z] = 0]
               /\ UNCHANGED <<elems, rc, valid, var, buf, purple, lost>>
  BY DEF FreeZval, At, buffer, ghosts
<1>2. /\ stack \in Seq(Frames) /\ stack # <<>> /\ Top \in Frames /\ FieldsOK(Top) /\ Inv /\ TypeOK /\ TypeOK'
      /\ Cover /\ PurpleRoots /\ NamesFit /\ DropsFit /\ ReturnsFit /\ Top = stack[1]
  BY Context DEF IInv, Known, FramesFit
<1>3. PICK n \in Nat : Len(stack) = n + 1 /\ Fr(stack, n + 1) = Top /\ Len(stack) - 1 = n
  BY Context
<1>4. n + 1 \in 1..Len(stack)
  BY <1>3
<1>5. z \in Zvals /\ Top.n = 0 /\ Top.list = {}
  BY <1>1, <1>2 DEF FieldsOK, Frames
<1>6. z \in Dying
  BY <1>1, <1>3, <1>4, Context DEF Views
<1>7. z \notin Listed /\ elems[z] = {}
  BY <1>2, <1>6 DEF Inv, DyingInv, DyingHeap
<1>8. stack' \in Seq(Frames) /\ Popped(stack, stack')
  BY <1>1, StackSteps
<1>9. Moves(stack, stack', n, {})
  BY <1>2, <1>3, <1>8, AllMoves
<1>10. /\ Listed' = Listed /\ Parts(stack', 4) = Parts(stack, 4)
       /\ Dying' \subseteq Dying /\ Dying \subseteq Dying' \cup {z}
  <2>1. Part(Top, 1) = {} /\ Part(Top, 2) = {z} /\ Part(Top, 4) = {}
    BY <1>1, <1>5 DEF Part
  <2>2. \A i : Parts(stack, i) = Below(stack, i) \cup Part(Top, i) /\ Parts(stack', i) = Below(stack, i)
    BY <1>2, <1>8, PartChanges
  <2>3. Listed = Parts(stack, 1) /\ Dying = Parts(stack, 2) /\ Listed' = Parts(stack', 1) /\ Dying' = Parts(stack', 2)
    BY <1>8, Context, NextViews
  <2> QED BY <2>1, <2>2, <2>3
<1>11. /\ Live' = Live \ {z} /\ Live \subseteq Nodes /\ 0 \notin Live /\ Held' = Held /\ Buffered' = Buffered
       /\ \A y \in Zvals : y # z => kind'[y] = kind[y] /\ to'[y] = to[y]
  <2>1. kind'[z] = "none" /\ \A y \in Zvals : y # z => kind'[y] = kind[y] /\ to'[y] = to[y]
    BY <1>1, <1>2, <1>5 DEF TypeOK
  <2>2. z \notin valid
    BY <1>2, <1>5, Sizes DEF TypeOK
  <2> QED BY <1>1, <1>2, <2>1, <2>2, LiveNodes DEF Live, Held, Buffered
<1>12. Leads(z) = {}
  <2>1. z \notin Parts(stack, 4)
    BY <1>7, PartsListed
  <2> QED BY <1>6, <1>7, <2>1 DEF Leads
<1>13. ASSUME NEW k \in Live, NEW u \in Live, u \in Leads(k)
       PROVE  k \in Live' /\ u \in Leads(k)'
  <2>1. k # z
    BY <1>12, <1>13
  <2>2. \A o : Garbage(o)' <=> Garbage(o)
    BY <1>1 DEF Garbage
  <2> QED BY <1>1, <1>10, <1>11, <1>13, <2>1, <2>2 DEF Leads
<1>14. ASSUME NEW u \in Live', u \in Roots PROVE Based(u)'
  <2>1. \A y : y \in Named(Top) \cup Handing => y = z \/ y = 0
    BY <1>1, <1>5 DEF Named, Handing
  <2>2. Shifts /\ lost' = lost
    BY <1>1, <1>8 DEF Shifts
  <2> QED BY <1>8, <1>11, <1>14, <2>1, <2>2, RootsKept, RootCases
<1>15. Cover'
  BY <1>2, <1>11, <1>13, <1>14, CoverStep
<1>16. PurpleRoots'
  <2>1. \A x \in Live' : x \in purple' => (x \in purple /\ x \in Live) \/ Safe(x)'
    BY <1>1, <1>11
  <2>2. \A x \in Live' : x \in Buffered \cup lost \cup Dying => Safe(x)'
    BY <1>1, <1>10, <1>11 DEF Safe
  <2>3. \A x \in Live' : n = n /\ Top.at \in {"storage", "resume"} /\ x = Top.n => Safe(x)'
    BY <1>1
  <2> QED BY <1>2, <1>3, <1>9, <2>1, <2>2, <2>3, PurpleMove
<1>17. NamesFit' /\ DropsFit'
  <2>1. ASSUME NEW h \in 1..Len(stack), Fr(stack, h).at = "resume" PROVE Fr(stack, h).z # z
    <3>1. Refers(Fr(stack, h), Fr(stack, h).z)
      BY <2>1 DEF Refers
    <3>2. Refers(Fr(stack, h), z) => h > n + 1
      BY <1>1, <1>2, <1>3, <1>4 DEF Inv, DyingInv, DyingFrames
    <3>3. ~ (h > n + 1)
      BY <1>3
    <3> QED BY <3>1, <3>2, <3>3
  <2>2. NamesStay
    <3>1. FrTypes
      BY Context
    <3> QED BY <1>10, <1>11, <2>1, <3>1 DEF NamesStay, FrTypes, Frames
  <2>3. Len(stack) \in Nat /\ n <= Len(stack) /\ n # Len(stack)
    BY <1>3
  <2> QED BY <1>2, <1>9, <2>2, <2>3, FramesFitMove
<1>18. ReturnsFit'
  <2>1. \A o : ~ Owed(o)
    BY <1>1, Owing
  <2> QED BY <1>2, <1>8, <2>1, ReturnsMove
<1> QED BY <1>15, <1>16, <1>17, <1>18 DEF Known, FramesFit

LEMMA UnbufferKeeps ==
    ASSUME TypeOK, NEW m \in Nodes, Unbuffer(m), addr[m] # 0 => buf[addr[m]] = m, purple' = purple
    PROVE  Buffered \ {m} \subseteq Buffered'
<1>1. CASE addr[m] = 0
  BY <1>1 DEF Unbuffer, Buffered
<1>2. CASE addr[m] # 0
  <2>1. PICK e \in Entries : e = addr[m] /\ buf[e] = m
    BY <1>2 DEF TypeOK
  <2>2. buf' = [buf EXCEPT ![e] = 0] /\ buf \in [Entries -> Nodes \cup {0}]
    BY <1>2, <2>1 DEF Unbuffer, TypeOK
  <2>3. \A d \in Entries : d # e => buf'[d] = buf[d]
    BY <2>2
  <2> QED BY <2>1, <2>3 DEF Buffered
<1> QED BY <1>1, <1>2

LEMMA DropLastKnown ==
    ASSUME IInv, Sound, Known, IInv', DropLast
    PROVE  Known'
<1>1. PICK z, f, g : z = Top.z /\ Freeing(f, g)
  BY DropLastFrames
<1>2. /\ Top.at = "ptr_dtor" /\ rc[z] = 1 /\ z \notin Listed
      /\ rc' = [rc EXCEPT ![z] = 0] /\ Unbuffer(z) /\ elems' = [elems EXCEPT ![z] = {}]
      /\ UNCHANGED <<kind, to, valid, var, purple, lost>> /\ stack' \in Seq(Frames)
  BY <1>1, DropLastFrames
<1>3. /\ stack \in Seq(Frames) /\ stack # <<>> /\ Top \in Frames /\ FieldsOK(Top) /\ Inv /\ TypeOK /\ TypeOK'
      /\ Cover /\ PurpleRoots /\ NamesFit /\ DropsFit /\ ReturnsFit
  BY Context DEF IInv, Known, FramesFit
<1>4. PICK n \in Nat : Len(stack) = n + 1 /\ Fr(stack, n + 1) = Top /\ Len(stack) - 1 = n
  BY Context
<1>5. /\ z \in Zvals /\ z \notin Dying /\ kind[z] \in {"array", "object"} /\ z \in Nodes
      /\ Top.n = 0 /\ Top.todo = {} /\ Top.list = {}
      /\ kind[z] = "object" => elems[z] = {}
  BY <1>1, <1>2, <1>3, DropLastFacts, Sizes DEF FieldsOK
<1>6. /\ g.at = "free" /\ g.n = 0 /\ g.z = z /\ g.todo = elems[z] /\ g.list = {}
      /\ kind[z] = "object" => /\ f.at = "del_ref" /\ f.n = to[z] /\ f.z = z /\ f.todo = {} /\ f.list = {}
                               /\ Doubled(stack, stack', f, g)
      /\ kind[z] # "object" => f = g /\ Replaced(stack, stack', g)
  BY <1>1 DEF Freeing
<1>7. kind[z] = "object" => f.check
  <2>1. ASSUME kind[z] = "object" PROVE f.check
    <3>1. PICK d : d = [Frame("free", 0, z) EXCEPT !.todo = elems[z]]
      OBVIOUS
    <3>2. PICK c : c = [Frame("del_ref", to[z], z) EXCEPT !.check = TRUE]
      OBVIOUS
    <3>3. stack' = <<c, d>> \o Tail(stack)
      BY <1>1, <2>1, <3>1, <3>2 DEF DropLast
    <3>4. c.check = TRUE
      BY <3>2 DEF Frame
    <3>5. Top' = c
      <4>1. Tail(stack) \in Seq(Frames)
        BY <1>3, FrTail
      <4>2. (<<c, d>> \o Tail(stack))[1] = c
        <5>1. PICK r : r = Tail(stack)
          OBVIOUS
        <5>2. r \in Seq(Frames)
          BY <4>1, <5>1
        <5>3. Len(r) \in Nat
          BY <5>2
        <5>4. (<<c, d>> \o r)[1] = c
          BY ONLY <5>3
        <5> QED BY <5>1, <5>4
      <4> QED BY <3>3, <4>2 DEF Top
    <3>6. Top' = f
      BY <1>2, <1>6, <2>1, TopNext
    <3> QED BY <3>4, <3>5, <3>6
  <2> QED BY <2>1
<1>8. Moves(stack, stack', n, {f, g}) /\ Shifts
  <2>1. CASE kind[z] = "object"
    BY <1>2, <1>3, <1>4, <1>6, <2>1, AllMoves DEF Shifts
  <2>2. CASE kind[z] # "object"
    <3>1. Moves(stack, stack', n, {g})
      BY <1>2, <1>3, <1>4, <1>6, <2>2, AllMoves
    <3> QED BY <1>6, <2>2, <3>1 DEF Shifts, Moves
  <2> QED BY <2>1, <2>2
<1>9. \A u : (u \in Named(g) \/ (kind[z] = "object" /\ u \in Named(f))) => u \in Roots'
  BY <1>2, <1>3, <1>6, NameChanges, RootCases
<1>10. Listed' = Listed /\ Dying' = Dying \cup {z} /\ Parts(stack', 4) = Parts(stack, 4)
  <2>1. Part(Top, 1) = {} /\ Part(Top, 2) = {} /\ Part(Top, 4) = {}
    BY <1>2, <1>5 DEF Part
  <2>2. Part(g, 1) = {} /\ Part(g, 2) = {z} /\ Part(g, 4) = {}
    BY <1>6 DEF Part
  <2>3. kind[z] = "object" => Part(f, 1) = {} /\ Part(f, 2) = {} /\ Part(f, 4) = {}
    BY <1>6 DEF Part
  <2>4. \A i : /\ Parts(stack, i) = Below(stack, i) \cup Part(Top, i)
               /\ kind[z] = "object" => Parts(stack', i) = Below(stack, i) \cup Part(g, i) \cup Part(f, i)
               /\ kind[z] # "object" => Parts(stack', i) = Below(stack, i) \cup Part(g, i)
    BY <1>3, <1>6, Context, PartChanges
  <2>5. Listed = Parts(stack, 1) /\ Dying = Parts(stack, 2) /\ Listed' = Parts(stack', 1) /\ Dying' = Parts(stack', 2)
    BY <1>2, Context, NextViews
  <2> QED BY <2>1, <2>2, <2>3, <2>4, <2>5
<1>11. Live' = Live /\ Live \subseteq Nodes /\ 0 \notin Live /\ Held' = Held
  BY <1>2, <1>3, LiveNodes DEF Live, Held
<1>12. Buffered \ {z} \subseteq Buffered'
  BY <1>2, <1>3, <1>5, UnbufferKeeps DEF Inv, BufInv
<1>13. z \in Roots'
  <2>1. z \in Named(g)
    BY <1>6 DEF Named
  <2> QED BY <1>9, <2>1
<1>14. ASSUME NEW u \in Live, u \in Roots PROVE Based(u)'
  <2>1. \A y : y \in Named(Top) \cup Handing => y = z \/ y = 0
    BY <1>1, <1>2, <1>5 DEF Named, Handing
  <2>2. \A y \in Live : y \in Buffered \cup lost => y \in Roots'
    BY <1>2, <1>12, <1>13, RootCases
  <2>3. \A y \in Live : y \in Held => y \in Roots'
    BY <1>11, RootCases
  <2>4. u \in Roots' \/ u \in Named(Top) \cup Handing
    BY <1>2, <1>8, <1>14, <2>2, <2>3, RootsKept
  <2> QED BY <1>11, <1>13, <2>1, <2>4, RootCases
<1>15. ASSUME NEW k \in Live, NEW u \in Live, u \in Leads(k)
       PROVE  Based(u)' \/ u \in Leads(k)'
  <2>1. CASE u \in elems[k]
    <3>1. k # z => u \in Leads(k)'
      BY <1>2, <1>3, <1>5, <1>11, <2>1 DEF Leads, TypeOK
    <3>2. k = z => u \in Named(g)
      BY <1>6, <2>1 DEF Named
    <3> QED BY <1>9, <3>1, <3>2, RootCases
  <2>2. CASE /\ u \in Objs /\ k \in Zvals /\ kind[k] = "object" /\ to[k] = u
             /\ \/ k \notin Listed \cup Dying
                \/ k \in Parts(stack, 4) /\ Garbage(u)
    <3>1. k = z => u \in Roots'
      <4>1. k = z => kind[z] = "object" /\ u \in Named(f)
        BY <1>6, <2>2 DEF Named
      <4> QED BY <1>9, <4>1
    <3>2. Garbage(u)' <=> Garbage(u)
      BY <1>2, <1>3, <1>5, <2>2, Sizes DEF Garbage, TypeOK
    <3>3. k # z => u \in Leads(k)'
      BY <1>2, <1>10, <2>2, <3>2 DEF Leads
    <3> QED BY <3>1, <3>3, RootCases
  <2> QED BY <1>15, <2>1, <2>2 DEF Leads
<1>16. Cover'
  BY <1>3, <1>11, <1>14, <1>15, CoverStep
<1>17. PurpleRoots'
  <2>1. \A x \in Live' : x \in purple' => (x \in purple /\ x \in Live) \/ Safe(x)'
    BY <1>2, <1>11
  <2>2. \A x \in Live' : x \in Buffered \cup lost \cup Dying => Safe(x)'
    BY <1>2, <1>10, <1>12 DEF Safe
  <2>3. \A x \in Live' : n = n /\ Top.at \in {"storage", "resume"} /\ x = Top.n => Safe(x)'
    BY <1>2
  <2> QED BY <1>3, <1>4, <1>8, <2>1, <2>2, <2>3, PurpleMove
<1>18. NamesFit' /\ DropsFit'
  <2>1. NamesStay
    BY <1>2, <1>10 DEF NamesStay
  <2>2. Len(stack) \in Nat /\ n <= Len(stack) /\ n # Len(stack)
    BY <1>4
  <2>3. Fits(g)'
    BY <1>6, Fitting
  <2>4. kind[z] = "object" => Fits(f)'
    BY <1>6, <1>7 DEF Fits, NameFits, DropFits
  <2>5. \A x \in {f, g} : Fits(x)'
    BY <1>6, <2>3, <2>4
  <2> QED BY <1>3, <1>8, <2>1, <2>2, <2>5, FramesFitMove
<1>19. ReturnsFit'
  <2>1. ~ Returning(g) /\ (kind[z] = "object" => ~ Returning(f)) /\ \A o : ~ Owed(o)
    BY <1>2, <1>6, Owing DEF Returning
  <2> QED BY <1>2, <1>3, <1>6, <2>1, ReturnsMove
<1> QED BY <1>16, <1>17, <1>18, <1>19 DEF Known, FramesFit

LEMMA DelRefFreeKnown ==
    ASSUME IInv, Sound, Known, IInv', DelRefFree
    PROVE  Known'
<1>1. PICK o : /\ o = Top.n /\ Top.at \in {"del_ref", "destructed"} /\ rc[o] = 1
               /\ Unbuffer(o) /\ elems' = [elems EXCEPT ![o] = {}]
               /\ Replace([Top EXCEPT !.at = "storage", !.todo = elems[o]])
               /\ UNCHANGED <<kind, to, rc, valid, var, purple, lost>>
  BY DEF DelRefFree, At, LastReference, This, ghosts
<1>2. /\ stack \in Seq(Frames) /\ stack # <<>> /\ Top \in Frames /\ Inv /\ TypeOK /\ TypeOK'
      /\ Cover /\ PurpleRoots /\ NamesFit /\ DropsFit /\ ReturnsFit
  BY Context DEF IInv, Known, FramesFit
<1>3. PICK n \in Nat : Len(stack) = n + 1 /\ Fr(stack, n + 1) = Top /\ Len(stack) - 1 = n
  BY Context
<1>4. o \in Objs /\ o \in Nodes /\ Top.todo = {} /\ Top.list = {} /\ elems[o] \in SUBSET Zvals
  BY <1>1, <1>2, DelRefFacts, Sizes DEF TypeOK
<1>5. PICK f : f = [Top EXCEPT !.at = "storage", !.todo = elems[o]]
  OBVIOUS
<1>6. f \in Frames /\ f.at = "storage" /\ f.n = o /\ f.z = Top.z /\ f.todo = elems[o] /\ f.list = {}
  <2>1. "storage" \in Labels
    BY DEF Labels
  <2>2. Top \in Frames /\ Top.n = o /\ Top.list = {} /\ elems[o] \in SUBSET Zvals
    BY <1>1, <1>2, <1>4
  <2> QED BY ONLY <1>5, <2>1, <2>2 DEF Frames
<1>7. stack' \in Seq(Frames) /\ Replaced(stack, stack', f)
  BY <1>1, <1>5, <1>6, StackSteps
<1>8. Moves(stack, stack', n, {f}) /\ Shifts
  BY <1>2, <1>3, <1>7, AllMoves DEF Shifts
<1>9. SameParts
  <2>1. Bare(Top) /\ Bare(f)
    BY <1>1, <1>4, <1>6, BareFrames DEF BareLabel
  <2> QED BY <1>2, <1>7, <2>1, BareSteps
<1>10. Listed' = Listed /\ Dying' = Dying /\ Parts(stack', 4) = Parts(stack, 4)
  BY <1>7, <1>9, Context, NextViews DEF SameParts
<1>11. Live' = Live /\ Live \subseteq Nodes /\ 0 \notin Live /\ Held' = Held
  BY <1>1, <1>2, LiveNodes DEF Live, Held
<1>12. Buffered \ {o} \subseteq Buffered'
  BY <1>1, <1>2, <1>4, UnbufferKeeps DEF Inv, BufInv
<1>13. \A u : u \in Named(f) => u \in Roots'
  BY <1>2, <1>7, NameChanges, RootCases
<1>14. o \in Roots'
  <2>1. o \in Named(f)
    BY <1>6 DEF Named
  <2> QED BY <1>13, <2>1
<1>15. ASSUME NEW u \in Live, u \in Roots PROVE Based(u)'
  <2>1. \A y : y \in Named(Top) \cup Handing => y \in Named(f)
    BY <1>1, <1>4, <1>6 DEF Named, Handing
  <2>2. \A y \in Live : y \in Buffered \cup lost => y \in Roots'
    BY <1>1, <1>12, <1>14, RootCases
  <2>3. \A y \in Live : y \in Held => y \in Roots'
    BY <1>11, RootCases
  <2>4. u \in Roots' \/ u \in Named(Top) \cup Handing
    BY <1>7, <1>8, <1>15, <2>2, <2>3, RootsKept
  <2> QED BY <1>13, <2>1, <2>4, RootCases
<1>16. ASSUME NEW k \in Live, NEW u \in Live, u \in Leads(k)
       PROVE  Based(u)' \/ u \in Leads(k)'
  <2>1. CASE u \in elems[k]
    <3>1. k # o => u \in Leads(k)'
      BY <1>1, <1>2, <1>4, <1>11, <2>1 DEF Leads, TypeOK
    <3>2. k = o => u \in Named(f)
      BY <1>6, <2>1 DEF Named
    <3> QED BY <1>13, <3>1, <3>2, RootCases
  <2>2. CASE /\ u \in Objs /\ k \in Zvals /\ kind[k] = "object" /\ to[k] = u
             /\ \/ k \notin Listed \cup Dying
                \/ k \in Parts(stack, 4) /\ Garbage(u)
    <3>1. Garbage(u)' <=> Garbage(u)
      BY <1>1 DEF Garbage
    <3> QED BY <1>1, <1>10, <2>2, <3>1 DEF Leads
  <2> QED BY <1>16, <2>1, <2>2 DEF Leads
<1>17. Cover'
  BY <1>2, <1>11, <1>15, <1>16, CoverStep
<1>18. PurpleRoots'
  <2>1. Safe(o)'
    <3>1. n + 1 \in 1..Len(stack') /\ Fr(stack', n + 1) = f
      BY <1>3, <1>7 DEF Replaced
    <3> QED BY <1>6, <3>1 DEF Safe, Awaiting
  <2>2. \A x \in Live' : x \in purple' => (x \in purple /\ x \in Live) \/ Safe(x)'
    BY <1>1, <1>11
  <2>3. \A x \in Live' : x \in Buffered \cup lost \cup Dying => Safe(x)'
    BY <1>1, <1>10, <1>12, <2>1 DEF Safe
  <2>4. \A x \in Live' : n = n /\ Top.at \in {"storage", "resume"} /\ x = Top.n => Safe(x)'
    BY <1>1
  <2> QED BY <1>2, <1>3, <1>8, <2>2, <2>3, <2>4, PurpleMove
<1>19. NamesFit' /\ DropsFit'
  <2>1. NamesStay
    BY <1>1, <1>10 DEF NamesStay
  <2>2. Len(stack) \in Nat /\ n <= Len(stack) /\ n # Len(stack)
    BY <1>3
  <2>3. \A x \in {f} : Fits(x)'
    BY <1>6, Fitting
  <2> QED BY <1>2, <1>8, <2>1, <2>2, <2>3, FramesFitMove
<1>20. ReturnsFit'
  <2>1. ASSUME NEW x, Owed(x) PROVE FALSE
    <3>1. Top.n = x /\ (rc[x] <= 1 => Top.at \in {"root", "resume"})
      BY <2>1, Owing
    <3> QED BY <1>1, <3>1
  <2>2. ~ Returning(f)
    BY <1>6 DEF Returning
  <2> QED BY <1>2, <1>7, <2>1, <2>2, ReturnsMove
<1> QED BY <1>17, <1>18, <1>19, <1>20 DEF Known, FramesFit

LEMMA StorageFreedKnown ==
    ASSUME IInv, Sound, Known, IInv', StorageFreed
    PROVE  Known'
<1>1. PICK o : /\ o = Top.n /\ Top.at = "storage" /\ Top.todo = {} /\ valid' = valid \ {o}
               /\ rc' = [rc EXCEPT ![o] = @ - 1] /\ Return
               /\ UNCHANGED <<kind, to, elems, var, buf, purple, lost>>
  BY DEF StorageFreed, At, This, buffer, ghosts
<1>2. /\ stack \in Seq(Frames) /\ stack # <<>> /\ Top \in Frames /\ FieldsOK(Top) /\ Inv /\ TypeOK /\ TypeOK'
      /\ Cover /\ PurpleRoots /\ NamesFit /\ DropsFit /\ ReturnsFit
  BY Context DEF IInv, Known, FramesFit
<1>3. PICK n \in Nat : Len(stack) = n + 1 /\ Fr(stack, n + 1) = Top /\ Len(stack) - 1 = n
  BY Context
<1>4. n + 1 \in 1..Len(stack)
  BY <1>3
<1>5. o \in Objs /\ o \in Nodes /\ o \notin Zvals /\ Top.list = {} /\ elems[o] = {}
  <2>1. o \in Objs /\ Top.list = {}
    BY <1>1, <1>2 DEF FieldsOK
  <2>2. elems[o] = {}
    BY <1>1, <1>2, <1>3, <1>4 DEF Inv, FrameInv, StorageOK
  <2> QED BY <2>1, <2>2, Sizes
<1>6. PICK z : z = Top.z
  OBVIOUS
<1>7. z # 0 => z \in Dying
  <2>1. z # 0 => \E j \in 1..n + 1 - 1 : Fr(stack, j).at = "free" /\ Fr(stack, j).z = z
    BY <1>1, <1>2, <1>3, <1>4, <1>6 DEF Inv, FrameInv, OnFree
  <2>2. \A j \in 1..n + 1 - 1 : j \in 1..Len(stack)
    BY <1>3
  <2> QED BY <2>1, <2>2, Context DEF Views
<1>8. stack' \in Seq(Frames) /\ Popped(stack, stack')
  BY <1>1, StackSteps
<1>9. Moves(stack, stack', n, {}) /\ Shifts
  BY <1>2, <1>3, <1>8, AllMoves DEF Shifts
<1>10. Listed' = Listed /\ Dying' = Dying /\ Parts(stack', 4) = Parts(stack, 4)
  <2>1. Bare(Top)
    BY <1>1, <1>5, BareFrames DEF BareLabel
  <2>2. SameParts
    BY <1>2, <1>8, <2>1, BareSteps
  <2> QED BY <1>8, <2>2, Context, NextViews DEF SameParts
<1>11. Live' = Live \ {o} /\ Live \subseteq Nodes /\ 0 \notin Live /\ Held' = Held /\ Buffered' = Buffered
  BY <1>1, <1>2, <1>5, LiveNodes DEF Live, Held, Buffered
<1>12. ASSUME NEW u \in Live', u \in Roots PROVE Based(u)'
  <2>1. \A y : y \in Named(Top) \cup Handing => y = z \/ y = o
    BY <1>1, <1>5, <1>6 DEF Named, Handing
  <2>2. z # 0 => z \in Roots'
    BY <1>7, <1>8, <1>10, NextInHand, RootCases
  <2>3. u \in Roots' \/ u \in Named(Top) \cup Handing
    BY <1>1, <1>8, <1>9, <1>11, <1>12, RootsKept, RootCases
  <2> QED BY <1>11, <2>1, <2>2, <2>3, RootCases
<1>13. ASSUME NEW k \in Live, NEW u \in Live', u \in Leads(k)
       PROVE  k \in Live' /\ u \in Leads(k)'
  <2>1. k # o
    BY <1>5, <1>13 DEF Leads
  <2>2. u \in Objs => (Garbage(u)' <=> Garbage(u))
    BY <1>1, <1>2, <1>11, <1>13, Sizes DEF Garbage, TypeOK
  <2> QED BY <1>1, <1>10, <1>11, <1>13, <2>1, <2>2 DEF Leads
<1>14. Cover'
  BY <1>2, <1>11, <1>12, <1>13, CoverStep
<1>15. PurpleRoots'
  <2>1. \A x \in Live' : x \in purple' => (x \in purple /\ x \in Live) \/ Safe(x)'
    BY <1>1, <1>11
  <2>2. \A x \in Live' : x \in Buffered \cup lost \cup Dying => Safe(x)'
    BY <1>1, <1>10, <1>11 DEF Safe
  <2>3. \A x \in Live' : n = n /\ Top.at \in {"storage", "resume"} /\ x = Top.n => Safe(x)'
    BY <1>1, <1>11
  <2> QED BY <1>2, <1>3, <1>9, <2>1, <2>2, <2>3, PurpleMove
<1>16. NamesFit' /\ DropsFit'
  <2>1. NamesStay
    BY <1>1, <1>10 DEF NamesStay
  <2>2. Len(stack) \in Nat /\ n <= Len(stack) /\ n # Len(stack)
    BY <1>3
  <2> QED BY <1>2, <1>9, <2>1, <2>2, FramesFitMove
<1>17. ReturnsFit'
  <2>1. \A x : ~ Owed(x)
    BY <1>1, Owing
  <2> QED BY <1>2, <1>8, <2>1, ReturnsMove
<1> QED BY <1>14, <1>15, <1>16, <1>17 DEF Known, FramesFit

LEMMA DestroyingKnown ==
    ASSUME IInv, Sound, Known, IInv', NEW z, NEW N, NEW rest, DestroyStack(z, N, rest),
           UNCHANGED <<to, valid, var, buf, purple, lost>>,
           \A y \in Zvals : y # z => kind'[y] = kind[y], kind'[z] # "none",
           \A k \in Nodes : k # z => elems'[k] = elems[k], \A u \in elems[z] : u \in Roots',
           \A o \in Objs : Garbage(o) => Garbage(o)' \/ o \in Roots',
           \A o \in Objs : kind[z] = "object" /\ to[z] = o /\ Garbage(o) => o \in Roots',
           \A f \in N : Fits(f)'
    PROVE  Known'
<1>1. /\ stack \in Seq(Frames) /\ stack # <<>> /\ Top \in Frames /\ FieldsOK(Top) /\ Inv /\ TypeOK /\ TypeOK'
      /\ Cover /\ PurpleRoots /\ NamesFit /\ DropsFit /\ ReturnsFit
  BY Context DEF IInv, Known, FramesFit
<1>2. /\ Top.at = "destroy" /\ z \in Top.todo /\ stack' \in Seq(Frames)
      /\ rest.at = "destroy" /\ rest.n = 0 /\ rest.z = 0 /\ rest.list = Top.list
      /\ \/ N = {} /\ Replaced(stack, stack', rest)
         \/ \E f : N = {f} /\ Doubled(stack, stack', f, rest) /\ f.at \in {"release", "del_ref"}
  BY DEF DestroyStack
<1>3. PICK n \in Nat : /\ Len(stack) = n + 1 /\ Fr(stack, n + 1) = Top /\ Moves(stack, stack', n, {rest} \cup N)
  BY DestroyShape
<1>4. /\ Listed' = Listed /\ Dying' = Dying /\ Parts(stack', 4) = Parts(stack, 4) \ {z}
  BY DestroyShape
<1>5. /\ z \in Zvals /\ z \in Listed /\ z \notin Dying /\ kind[z] # "none" /\ Top.n = 0 /\ Top.z = 0 /\ Top.todo \subseteq Top.list
  BY <1>1, <1>2, DestroyedApart DEF FieldsOK
<1>6. Live' = Live /\ Live \subseteq Nodes /\ 0 \notin Live /\ Held' = Held /\ Buffered' = Buffered
  <2>1. \A y \in Zvals : kind'[y] # "none" <=> kind[y] # "none"
    BY <1>5
  <2> QED BY <1>1, <2>1, LiveNodes DEF Live, Held, Buffered
<1>7. \A u : u \in Named(rest) => u \in Roots'
  BY <1>1, <1>2, NameChanges, RootCases
<1>8. ASSUME NEW u \in Live, u \in Roots PROVE Based(u)'
  <2>1. \A y : y \in Named(Top) \cup Handing => y \in Named(rest)
    BY <1>2, <1>5 DEF Named, Handing
  <2>2. Shifts
    BY <1>2 DEF Shifts
  <2>3. u \in Roots' \/ u \in Named(Top) \cup Handing
    BY <1>2, <1>6, <1>8, <2>2, RootsKept, RootCases
  <2> QED BY <1>7, <2>1, <2>3, RootCases
<1>9. ASSUME NEW k \in Live, NEW u \in Live, u \in Leads(k)
      PROVE  Based(u)' \/ u \in Leads(k)'
  <2>1. CASE u \in elems[k]
    <3>1. k # z => u \in Leads(k)'
      BY <1>6, <2>1 DEF Leads
    <3> QED BY <2>1, <3>1, RootCases
  <2>2. CASE /\ u \in Objs /\ k \in Zvals /\ kind[k] = "object" /\ to[k] = u
             /\ \/ k \notin Listed \cup Dying
                \/ k \in Parts(stack, 4) /\ Garbage(u)
    <3>1. k = z => u \in Roots'
      BY <1>5, <2>2
    <3>2. k # z => u \in Leads(k)' \/ u \in Roots'
      BY <1>4, <2>2 DEF Leads
    <3> QED BY <3>1, <3>2, RootCases
  <2> QED BY <1>9, <2>1, <2>2 DEF Leads
<1>10. Cover'
  BY <1>1, <1>6, <1>8, <1>9, CoverStep
<1>11. PurpleRoots'
  <2>1. \A x \in Live' : x \in purple' => (x \in purple /\ x \in Live) \/ Safe(x)'
    BY <1>6
  <2>2. \A x \in Live' : x \in Buffered \cup lost \cup Dying => Safe(x)'
    BY <1>4, <1>6 DEF Safe
  <2>3. \A x \in Live' : n = n /\ Top.at \in {"storage", "resume"} /\ x = Top.n => Safe(x)'
    BY <1>2
  <2> QED BY <1>1, <1>3, <2>1, <2>2, <2>3, PurpleMove
<1>12. NamesFit' /\ DropsFit'
  <2>1. ASSUME NEW h \in 1..Len(stack), Fr(stack, h).at = "resume" PROVE Fr(stack, h).z # z
    <3>1. z # 0
      BY <1>5, Sizes
    <3> QED BY <1>1, <1>5, <2>1, <3>1 DEF Inv, FrameInv, NamedZvals
  <2>2. NamesStay
    <3>1. FrTypes
      BY Context
    <3> QED BY <1>4, <2>1, <3>1 DEF NamesStay, FrTypes, Frames
  <2>3. Len(stack) \in Nat /\ n <= Len(stack) /\ n # Len(stack)
    BY <1>3
  <2>4. \A x \in {rest} \cup N : Fits(x)'
    BY <1>2, Fitting
  <2> QED BY <1>1, <1>3, <2>2, <2>3, <2>4, FramesFitMove
<1>13. ReturnsFit'
  <2>1. (\A o : ~ Owed(o)) /\ ~ Returning(rest)
    BY <1>2, Owing DEF Returning
  <2>2. CASE Replaced(stack, stack', rest)
    BY <1>1, <1>2, <2>1, <2>2, ReturnsMove
  <2>3. ASSUME NEW f, Doubled(stack, stack', f, rest), f.at \in {"release", "del_ref"} PROVE ReturnsFit'
    <3>1. ~ Returning(f)
      BY <2>3 DEF Returning
    <3> QED BY <1>1, <1>2, <2>1, <2>3, <3>1, ReturnsMove
  <2> QED BY <1>2, <2>2, <2>3
<1> QED BY <1>10, <1>11, <1>12, <1>13 DEF Known, FramesFit

LEMMA DestroyKnown ==
    ASSUME IInv, Sound, Known, IInv', Destroy
    PROVE  Known'
<1>1. Top.at = "destroy" /\ UNCHANGED <<to, valid, called, var, buf, purple, lost>>
  BY DEF Destroy, At, buffer, ghosts
<1>2. PICK z \in Top.todo :
        LET rest == [Top EXCEPT !.todo = @ \ {z}] IN
        CASE kind[z] = "array" ->
                /\ kind' = [kind EXCEPT ![z] = "null"]
                /\ elems' = [elems EXCEPT ![z] = {}]
                /\ stack' = <<[Frame("release", 0, 0) EXCEPT !.todo = elems[z]], rest>> \o Tail(stack)
                /\ UNCHANGED rc
          [] kind[z] = "object" /\ Garbage(to[z]) ->
                /\ kind' = [kind EXCEPT ![z] = "null"]
                /\ rc' = [rc EXCEPT ![to[z]] = 1]
                /\ stack' = <<Frame("del_ref", to[z], 0), rest>> \o Tail(stack)
                /\ UNCHANGED elems
          [] OTHER ->
                /\ stack' = <<rest>> \o Tail(stack)
                /\ UNCHANGED <<kind, elems, rc>>
  BY DEF Destroy, Replace
<1>3. PICK rest : rest = [Top EXCEPT !.todo = @ \ {z}]
  OBVIOUS
<1>4. /\ kind[z] = "array" =>
            /\ kind' = [kind EXCEPT ![z] = "null"]
            /\ elems' = [elems EXCEPT ![z] = {}]
            /\ stack' = <<[Frame("release", 0, 0) EXCEPT !.todo = elems[z]], rest>> \o Tail(stack)
            /\ rc' = rc
      /\ kind[z] = "object" /\ Garbage(to[z]) =>
            /\ kind' = [kind EXCEPT ![z] = "null"]
            /\ rc' = [rc EXCEPT ![to[z]] = 1]
            /\ stack' = <<Frame("del_ref", to[z], 0), rest>> \o Tail(stack)
            /\ elems' = elems
      /\ kind[z] # "array" /\ ~ (kind[z] = "object" /\ Garbage(to[z])) =>
            stack' = <<rest>> \o Tail(stack) /\ kind' = kind /\ elems' = elems /\ rc' = rc
  <2> HIDE DEF Garbage
  <2> QED BY <1>2, <1>3
<1>5. /\ TypeOK /\ TypeOK' /\ Inv /\ Top \in Frames /\ stack \in Seq(Frames) /\ stack # <<>>
      /\ Objs \subseteq Nodes /\ Zvals \subseteq Nodes /\ Zvals \cap Objs = {} /\ 0 \notin Objs /\ 0 \notin Zvals
  BY Context, Sizes DEF IInv
<1>6. /\ rc \in [Nodes -> Nat] /\ valid \subseteq Objs /\ elems \in [Nodes -> SUBSET Zvals]
      /\ to \in [Zvals -> Objs \cup {0}] /\ kind \in [Zvals -> {"none", "array", "object", "null"}]
      /\ stack' \in Seq(Frames)
  BY <1>5 DEF TypeOK
<1>7. /\ z \in Zvals /\ z \in Nodes /\ kind[z] # "none"
      /\ kind[z] = "object" /\ Garbage(to[z]) => to[z] \in called
      /\ kind[z] # "array" => elems[z] = {}
  BY <1>1, <1>5, DestroyedApart DEF Inv, HeapInv, KindsOK
<1>8. ASSUME NEW f, DestroyStack(z, {f}, rest) PROVE \A u \in Named(f) : u \in Roots'
  <2>1. PICK g : g = f /\ Doubled(stack, stack', g, rest)
    BY <1>8 DEF DestroyStack
  <2> QED BY <1>5, <1>6, <2>1, NameChanges, RootCases
<1>9. CASE kind[z] = "array"
  <2>1. PICK f : f = [Frame("release", 0, 0) EXCEPT !.todo = elems[z]]
    OBVIOUS
  <2>2. f \in Frames /\ f.at = "release" /\ f.n = 0 /\ f.z = 0 /\ f.todo = elems[z] /\ f.list = {}
    <3>1. "release" \in Labels /\ 0 \in Nodes \cup {0} /\ 0 \in Zvals \cup {0} /\ elems[z] \in SUBSET Zvals
      BY <1>6, <1>7 DEF Labels
    <3>2. LET y == [Frame("release", 0, 0) EXCEPT !.todo = elems[z]] IN
          y \in Frames /\ y.at = "release" /\ y.n = 0 /\ y.z = 0 /\ y.todo = elems[z] /\ y.list = {}
      BY ONLY <3>1 DEF Frame, Frames
    <3> QED BY <2>1, <3>2
  <2>3. DestroyStack(z, {f}, rest)
    <3>1. FieldsOK(f) /\ stack' = <<f, rest>> \o Tail(stack)
      BY <1>4, <1>9, <2>1, <2>2 DEF FieldsOK
    <3> QED BY <1>1, <1>3, <2>2, <3>1, DestroyFrom
  <2>4. \A u \in elems[z] : u \in Roots'
    <3>1. \A u \in elems[z] : u \in Named(f)
      BY <2>2 DEF Named
    <3> QED BY <1>8, <2>3, <3>1
  <2>5. /\ \A y \in Zvals : y # z => kind'[y] = kind[y]
        /\ kind'[z] # "none"
        /\ \A k \in Nodes : k # z => elems'[k] = elems[k]
    BY <1>4, <1>6, <1>7, <1>9
  <2>6. \A o \in Objs : Garbage(o) => Garbage(o)' \/ o \in Roots'
    BY <1>1, <1>4, <1>9 DEF Garbage
  <2>7. \A x \in {f} : Fits(x)'
    BY <2>2, Fitting
  <2>8. UNCHANGED <<to, valid, var, buf, purple, lost>>
    BY <1>1
  <2> QED BY <1>9, <2>3, <2>4, <2>5, <2>6, <2>7, <2>8, DestroyingKnown
<1>10. CASE kind[z] = "object" /\ Garbage(to[z])
  <2>1. PICK o, f : o = to[z] /\ f = Frame("del_ref", o, 0)
    OBVIOUS
  <2>2. o \in Objs /\ o \in Nodes /\ o \in called /\ o \in valid
    BY <1>5, <1>6, <1>7, <1>10, <2>1 DEF Garbage
  <2>3. f \in Frames /\ f.at = "del_ref" /\ f.n = o /\ f.z = 0 /\ f.todo = {} /\ f.list = {} /\ ~ f.check
    <3>1. "del_ref" \in Labels /\ o \in Nodes \cup {0} /\ 0 \in Zvals \cup {0}
      BY <2>2 DEF Labels
    <3>2. LET y == Frame("del_ref", o, 0) IN
          y \in Frames /\ y.at = "del_ref" /\ y.n = o /\ y.z = 0 /\ y.todo = {} /\ y.list = {} /\ ~ y.check
      BY ONLY <3>1 DEF Frame, Frames
    <3> QED BY <2>1, <3>2
  <2>4. DestroyStack(z, {f}, rest)
    <3>1. FieldsOK(f) /\ stack' = <<f, rest>> \o Tail(stack)
      BY <1>4, <1>10, <2>1, <2>2, <2>3 DEF FieldsOK
    <3> QED BY <1>1, <1>3, <2>3, <3>1, DestroyFrom
  <2>5. o \in Roots'
    <3>1. o \in Named(f)
      BY <2>3 DEF Named
    <3> QED BY <1>8, <2>4, <3>1
  <2>6. rc'[o] = 1 /\ \A m \in Objs : m # o => rc'[m] = rc[m]
    BY <1>4, <1>5, <1>6, <1>10, <2>1, <2>2
  <2>7. /\ \A y \in Zvals : y # z => kind'[y] = kind[y]
        /\ kind'[z] # "none"
        /\ \A k \in Nodes : k # z => elems'[k] = elems[k]
    BY <1>4, <1>6, <1>7, <1>10
  <2>8. \A m \in Objs : Garbage(m) => Garbage(m)' \/ m \in Roots'
    BY <1>1, <2>5, <2>6 DEF Garbage
  <2>9. Fits(f)'
    <3>1. called' = called /\ f.at = "del_ref" /\ f.n = o /\ o \in called /\ rc'[o] = 1
      BY <1>1, <2>2, <2>3, <2>6
    <3> QED BY ONLY <3>1 DEF Fits, NameFits, DropFits
  <2>10. UNCHANGED <<to, valid, var, buf, purple, lost>>
    BY <1>1
  <2>11. \A m \in Objs : kind[z] = "object" /\ to[z] = m /\ Garbage(m) => m \in Roots'
    BY <2>1, <2>5
  <2>12. \A u \in elems[z] : u \in Roots'
    BY <1>7, <1>10
  <2>13. \A x \in {f} : Fits(x)'
    BY <2>9
  <2> QED BY <2>4, <2>7, <2>8, <2>10, <2>11, <2>12, <2>13, DestroyingKnown
<1>11. CASE kind[z] # "array" /\ ~ (kind[z] = "object" /\ Garbage(to[z]))
  <2>1. stack' = <<rest>> \o Tail(stack) /\ kind' = kind /\ elems' = elems /\ rc' = rc
    BY <1>4, <1>11
  <2>2. DestroyStack(z, {}, rest)
    BY <1>1, <1>3, <2>1, DestroyFrom
  <2>3. \A o \in Objs : Garbage(o) => Garbage(o)' \/ o \in Roots'
    BY <1>1, <2>1 DEF Garbage
  <2>4. \A u \in elems[z] : u \in Roots'
    BY <1>7, <1>11
  <2>5. UNCHANGED <<to, valid, var, buf, purple, lost>>
    BY <1>1
  <2>6. \A o \in Objs : kind[z] = "object" /\ to[z] = o /\ Garbage(o) => o \in Roots'
    BY <1>11
  <2>7. \A f \in {} : Fits(f)'
    OBVIOUS
  <2>8. /\ \A y \in Zvals : y # z => kind'[y] = kind[y]
        /\ kind'[z] # "none"
        /\ \A k \in Nodes : k # z => elems'[k] = elems[k]
    BY <1>7, <2>1
  <2> QED BY <2>2, <2>3, <2>4, <2>5, <2>6, <2>7, <2>8, DestroyingKnown
<1> QED BY <1>9, <1>10, <1>11

LEMMA FreeListKnown ==
    ASSUME IInv, Sound, Known, IInv', FreeList
    PROVE  Known'
<1>1. PICK L : /\ L = Top.list /\ Top.at = "destroy" /\ Top.todo = {} /\ Return
               /\ kind' = [z \in Zvals |-> IF z \in L THEN "none" ELSE kind[z]]
               /\ to' = [z \in Zvals |-> IF z \in L THEN 0 ELSE to[z]]
               /\ rc' = [m \in Nodes |-> IF m \in L THEN 0 ELSE rc[m]]
               /\ UNCHANGED <<elems, valid, var, buf, purple, lost>>
  BY DEF FreeList, At, buffer, ghosts
<1>2. /\ stack \in Seq(Frames) /\ stack # <<>> /\ Top \in Frames /\ FieldsOK(Top) /\ Inv /\ TypeOK /\ TypeOK'
      /\ Cover /\ PurpleRoots /\ NamesFit /\ DropsFit /\ ReturnsFit
  BY Context DEF IInv, Known, FramesFit
<1>3. PICK n \in Nat : Len(stack) = n + 1 /\ Fr(stack, n + 1) = Top /\ Len(stack) - 1 = n
  BY Context
<1>4. n + 1 \in 1..Len(stack) /\ \A h \in 1..n : h \in 1..Len(stack) /\ h # n + 1
  BY <1>3
<1>5. \A z \in L : z \in Zvals /\ z \in Listed /\ elems[z] = {}
  BY <1>1, ListSealed
<1>6. Top.n = 0 /\ Top.z = 0
  BY <1>1, <1>2 DEF FieldsOK
<1>7. stack' \in Seq(Frames) /\ Popped(stack, stack')
  BY <1>1, StackSteps
<1>8. Moves(stack, stack', n, {}) /\ Shifts
  BY <1>2, <1>3, <1>7, AllMoves DEF Shifts
<1>9. Listed' \subseteq Listed /\ Dying' = Dying /\ Parts(stack', 4) = Parts(stack, 4)
  <2>1. Part(Top, 2) = {} /\ Part(Top, 4) = {}
    BY <1>1 DEF Part
  <2>2. \A i : Parts(stack, i) = Below(stack, i) \cup Part(Top, i) /\ Parts(stack', i) = Below(stack, i)
    BY <1>2, <1>7, Context, PartChanges
  <2>3. Listed = Parts(stack, 1) /\ Dying = Parts(stack, 2) /\ Listed' = Parts(stack', 1) /\ Dying' = Parts(stack', 2)
    BY <1>7, Context, NextViews
  <2> QED BY <2>1, <2>2, <2>3
<1>10. \A z \in L : z \notin Parts(stack, 4)
  <2> SUFFICES ASSUME NEW z \in L, z \in Parts(stack, 4) PROVE FALSE
    OBVIOUS
  <2>1. PICK h \in 1..Len(stack) : z \in Part(Fr(stack, h), 4)
    BY PartMember
  <2>2. z \in Fr(stack, h).list
    BY <2>1, PartsListed
  <2>3. h = n + 1
    BY <1>1, <1>2, <1>3, <1>4, <2>2 DEF Inv, ListInv, Disjoint
  <2> QED BY <1>1, <1>3, <2>1, <2>3 DEF Part
<1>11. /\ \A z \in Zvals : z \notin L => kind'[z] = kind[z] /\ to'[z] = to[z]
       /\ \A z \in L : kind'[z] = "none"
       /\ \A o \in Objs : rc'[o] = rc[o]
  BY <1>1, <1>5, Sizes
<1>12. Live' \subseteq Live /\ Live' \cap L = {} /\ Live \subseteq Live' \cup L /\ Live \subseteq Nodes /\ 0 \notin Live
  <2>1. L \cap valid = {}
    BY <1>2, <1>5, Sizes DEF TypeOK
  <2> QED BY <1>1, <1>2, <1>5, <1>11, <2>1, LiveNodes DEF Live
<1>13. Held' = Held /\ Buffered' = Buffered
  BY <1>1 DEF Held, Buffered
<1>14. ASSUME NEW u \in Live', u \in Roots PROVE Based(u)'
  <2>1. \A y : y \in Named(Top) \cup Handing => y \in L \/ y = 0
    BY <1>1, <1>6 DEF Named, Handing
  <2>2. u \in Roots' \/ u \in Named(Top) \cup Handing
    BY <1>1, <1>7, <1>8, <1>12, <1>13, <1>14, RootsKept, RootCases
  <2> QED BY <1>12, <2>1, <2>2, RootCases
<1>15. ASSUME NEW k \in Live, NEW u \in Live', u \in Leads(k)
       PROVE  k \in Live' /\ u \in Leads(k)'
  <2>1. k \notin L
    BY <1>5, <1>10, <1>15 DEF Leads
  <2>2. \A o \in Objs : Garbage(o)' <=> Garbage(o)
    BY <1>1, <1>11 DEF Garbage
  <2> QED BY <1>1, <1>9, <1>11, <1>12, <1>15, <2>1, <2>2 DEF Leads
<1>16. Cover'
  BY <1>2, <1>12, <1>14, <1>15, CoverStep
<1>17. PurpleRoots'
  <2>1. \A x \in Live' : x \in purple' => (x \in purple /\ x \in Live) \/ Safe(x)'
    BY <1>1, <1>12
  <2>2. \A x \in Live' : x \in Buffered \cup lost \cup Dying => Safe(x)'
    BY <1>1, <1>9, <1>13 DEF Safe
  <2>3. \A x \in Live' : n = n /\ Top.at \in {"storage", "resume"} /\ x = Top.n => Safe(x)'
    BY <1>1
  <2> QED BY <1>2, <1>3, <1>8, <2>1, <2>2, <2>3, PurpleMove
<1>18. NamesFit' /\ DropsFit'
  <2>1. NamesStay
    <3>1. FrTypes
      BY Context
    <3>2. \A h \in 1..Len(stack) : Fr(stack, h).at = "resume" /\ Fr(stack, h).z # 0 => Fr(stack, h).z \notin Listed
      BY <1>2 DEF Inv, FrameInv, NamedZvals
    <3> QED BY <1>5, <1>9, <1>11, <3>1, <3>2 DEF NamesStay, FrTypes, Frames
  <2>2. Len(stack) \in Nat /\ n <= Len(stack) /\ n # Len(stack)
    BY <1>3
  <2> QED BY <1>2, <1>8, <2>1, <2>2, FramesFitMove
<1>19. ReturnsFit'
  <2>1. \A x : ~ Owed(x)
    BY <1>1, Owing
  <2> QED BY <1>2, <1>7, <2>1, ReturnsMove
<1> QED BY <1>16, <1>17, <1>18, <1>19 DEF Known, FramesFit
-----------------------------------------------------------------------------
\* A suspected zval whose count differs has a reference from elsewhere.
LEMMA AnchoredZval ==
    ASSUME IInv, Sound, NEW z \in Anchored, z \in Zvals
    PROVE  \/ z \in Held \cup Listed
           \/ \E h \in 1..Len(stack) : Refers(Fr(stack, h), z)
           \/ \E m \in Nodes \ Suspected : z \in elems[m]
<1>1. /\ TypeOK /\ Inv /\ FrTypes /\ Suspected \subseteq Nodes /\ z \in Suspected /\ kind[z] # "none"
      /\ Len(stack) \in Nat
  BY Context, SuspectedFacts
<1>2. rc[z] # RefsFrom(Suspected, z)
  BY Zenon DEF Anchored
<1> DEFINE K == {m \in Suspected : z \in Kids(m)}
           E == {m \in Nodes : z \in elems[m]}
<1>3. RefsFrom(Suspected, z) = Cardinality(K) /\ ElemRefs(elems, z) = Cardinality(E)
  BY Zenon DEF RefsFrom, ElemRefs
<1>4. rc[z] = VarRefs(var, z) + ElemRefs(elems, z) + CountIn(stack, RefFrames(z)) + ListRef(z)
  BY <1>1 DEF Inv, HeapInv, ZvalCounts
<1>5. ASSUME z \notin Held \cup Listed,
             \A h \in 1..Len(stack) : ~ Refers(Fr(stack, h), z),
             \A m \in Nodes \ Suspected : z \notin elems[m]
      PROVE  FALSE
  <2>1. \A m \in Nodes : m \in K <=> m \in E
    BY <1>1, <1>5, KidsFacts
  <2>2. K = E
    BY <1>1, <2>1
  <2>3. \A h \in 1..Len(stack) : Fr(stack, h) \notin RefFrames(z)
    BY <1>5 DEF RefFrames
  <2>4. \A v \in Vars : var[v] # z
    BY <1>5 DEF Held
  <2>5. VarRefs(var, z) = 0 /\ CountIn(stack, RefFrames(z)) = 0 /\ ElemRefs(elems, z) \in Nat
    BY <1>1, <2>3, <2>4, NoneCounted
  <2>6. ListRef(z) = 0
    BY <1>5 DEF ListRef
  <2>7. rc[z] = ElemRefs(elems, z)
    BY ONLY <1>4, <2>5, <2>6
  <2> QED BY <1>2, <1>3, <2>2, <2>7
<1> QED BY <1>5

\* So has an object that some of the references to it do not count for.
LEMMA AnchoredObj ==
    ASSUME IInv, Sound, NEW o \in Suspected, o \in valid,
           o \in Anchored \/ \E n \in Suspected : o \in Kids(n) /\ n \notin Counted(o)
    PROVE  \/ rc[o] = 0 \/ o \in Miscounted
           \/ \E h \in 1..Len(stack) : Holds(Fr(stack, h), o)
           \/ \E z \in Counted(o) : z \notin Suspected
<1>1. /\ TypeOK /\ Inv /\ Suspected \subseteq Nodes /\ Len(stack) \in Nat /\ o \in Objs /\ o \in Nodes
      /\ Zvals \subseteq Nodes /\ IsFiniteSet(Nodes)
  BY Context, SuspectedFacts, Sizes DEF TypeOK
<1> DEFINE K == {m \in Suspected : o \in Kids(m)}
<1>2. RefsFrom(Suspected, o) = Cardinality(K)
  BY Zenon DEF RefsFrom
<1>3. /\ IsFiniteSet(Counted(o)) /\ Cardinality(Counted(o)) \in Nat
      /\ rc[o] = Cardinality(Counted(o)) + CountIn(stack, HoldFrames(o))
  BY <1>1, ObjRefs
<1>4. IsFiniteSet(K) /\ Cardinality(K) \in Nat
  <2>1. K \subseteq Nodes
    BY <1>1
  <2> HIDE DEF K
  <2> QED BY <1>1, <2>1, FS_Subset, FS_CardinalityType
<1>5. ASSUME rc[o] # 0, o \notin Miscounted,
             \A h \in 1..Len(stack) : ~ Holds(Fr(stack, h), o),
             Counted(o) \subseteq Suspected
      PROVE  FALSE
  <2>1. Counted(o) \subseteq K
    <3>1. \A z \in Counted(o) : z \in Nodes /\ z \in Denoting(kind, to, o)
      BY <1>1 DEF Counted, Denoting
    <3> QED BY <1>1, <1>5, <3>1, KidsFacts
  <2>2. CountIn(stack, HoldFrames(o)) = 0
    <3>1. \A h \in 1..Len(stack) : Fr(stack, h) \notin HoldFrames(o)
      BY <1>5 DEF HoldFrames
    <3> QED BY <1>1, <3>1, NoneCounted
  <2>3. rc[o] = Cardinality(Counted(o))
    BY ONLY <1>3, <2>2
  <2>4. ~ (rc[o] \in 1..(Cardinality(K) - 1))
    BY <1>1, <1>2, <1>5, Zenon DEF Miscounted
  <2>5. PICK C : C = Counted(o)
    OBVIOUS
  <2> HIDE DEF K
  <2>6. Cardinality(C) <= Cardinality(K) /\ (Cardinality(C) = Cardinality(K) => C = K)
    BY <1>4, <2>1, <2>5, FS_Subset
  <2>7. Cardinality(C) \in Nat /\ Cardinality(C) # 0 /\ ~ (Cardinality(C) \in 1..(Cardinality(K) - 1))
    BY <1>3, <1>5, <2>3, <2>4, <2>5
  <2>8. C = K
    BY ONLY <1>4, <2>6, <2>7
  <2>9. rc[o] = RefsFrom(Suspected, o)
    BY <1>2, <2>3, <2>5, <2>8
  <2>10. o \notin Anchored
    BY <2>9, Zenon DEF Anchored
  <2>11. \A n \in Suspected : o \in Kids(n) => n \in Counted(o)
    BY <2>5, <2>8 DEF K
  <2> QED BY <2>10, <2>11
<1> QED BY <1>5

\* What the passes do, in brief.
LEMMA PassFacts ==
    ASSUME IInv, Sound, Passes
    PROVE  /\ Top.at = "collect" /\ UNCHANGED <<kind, to, elems, valid, var>>
           /\ buf' = [e \in Entries |-> 0] /\ purple' = purple \ Suspected /\ lost' = lost \cup Miscounted
           /\ \A o \in Objs : rc'[o] = rc[o] - RefsFrom(White \cap Zvals, o)
           /\ \E N, f, n : PassFrames(White \cap Zvals, N, f, n)
           /\ IF White \cap Zvals = {} THEN Return
              ELSE Replace([Frame("destructors", 0, 0) EXCEPT !.list = White \cap Zvals])
<1>1. /\ Top.at = "collect"
      /\ rc' = [m \in Nodes |-> CASE m \in White \cap Zvals -> rc[m] + 1
                                  [] m \in Objs -> rc[m] - RefsFrom(White \cap Zvals, m)
                                  [] OTHER      -> rc[m]]
      /\ IF White \cap Zvals = {} THEN Return
         ELSE Replace([Frame("destructors", 0, 0) EXCEPT !.list = White \cap Zvals])
      /\ buf' = [e \in Entries |-> 0]
      /\ purple' = purple \ Suspected
      /\ kind' = kind /\ to' = to /\ elems' = elems /\ valid' = valid /\ var' = var
      /\ lost' = lost \cup Miscounted
  BY Zenon DEF Passes, At
<1>2. PICK L : L = White \cap Zvals
  OBVIOUS
<1>3. /\ rc' = [m \in Nodes |-> CASE m \in L -> rc[m] + 1 [] m \in Objs -> rc[m] - RefsFrom(L, m) [] OTHER -> rc[m]]
      /\ IF L = {} THEN Return ELSE Replace([Frame("destructors", 0, 0) EXCEPT !.list = L])
      /\ L \in SUBSET Zvals
  <2>1. ASSUME NEW W, L = W, rc' = [m \in Nodes |-> CASE m \in W -> rc[m] + 1
                                                    [] m \in Objs -> rc[m] - RefsFrom(W, m)
                                                    [] OTHER      -> rc[m]]
        PROVE  rc' = [m \in Nodes |-> CASE m \in L -> rc[m] + 1
                                        [] m \in Objs -> rc[m] - RefsFrom(L, m)
                                        [] OTHER      -> rc[m]]
    BY ONLY <2>1
  <2>2. rc' = [m \in Nodes |-> CASE m \in L -> rc[m] + 1 [] m \in Objs -> rc[m] - RefsFrom(L, m) [] OTHER -> rc[m]]
    BY ONLY <1>1, <1>2, <2>1
  <2>3. IF L = {} THEN Return ELSE Replace([Frame("destructors", 0, 0) EXCEPT !.list = L])
    BY <1>1, <1>2, Zenon
  <2>4. L \in SUBSET Zvals
    BY <1>2
  <2> QED BY ONLY <2>2, <2>3, <2>4
<1>4. \A o \in Objs : rc'[o] = rc[o] - RefsFrom(L, o)
  <2>1. Objs \subseteq Nodes /\ \A o \in Objs : o \notin L
    BY <1>3, Sizes
  <2> QED BY ONLY <1>3, <2>1
<1>5. \E N, f, n : PassFrames(L, N, f, n)
  BY <1>1, <1>3, PassStack
<1> QED BY <1>1, <1>2, <1>4, <1>5, Zenon

LEMMA PassesCover ==
    ASSUME IInv, Sound, Cover, Passes, TypeOK'
    PROVE  Cover'
<1>1. PICK L : L = White \cap Zvals
  OBVIOUS
<1>2. /\ Top.at = "collect" /\ kind' = kind /\ to' = to /\ elems' = elems /\ valid' = valid /\ var' = var
      /\ lost' = lost \cup Miscounted
      /\ \A o \in Objs : rc'[o] = rc[o] - RefsFrom(L, o)
  BY <1>1, PassFacts, Zenon
<1>3. PICK N, f, n : PassFrames(L, N, f, n)
  BY <1>1, PassFacts, Zenon
<1>4. /\ n \in Nat /\ Len(stack) = n + 1 /\ Fr(stack, n + 1) = Top
      /\ \A h \in 1..n : h \in 1..Len(stack') /\ Fr(stack', h) = Fr(stack, h)
      /\ Listed' = Listed \cup L /\ Dying' = Dying
      /\ Parts(stack', 4) = Parts(stack, 4) \cup L
      /\ stack' \in Seq(Frames)
  BY <1>3 DEF PassFrames
<1>5. /\ TypeOK /\ Inv /\ Top \in Frames /\ FieldsOK(Top) /\ Objs \subseteq Nodes /\ Zvals \subseteq Nodes
      /\ Nodes = Zvals \cup Objs /\ Zvals \cap Objs = {} /\ 0 \notin Nodes
  BY Context, Sizes
<1>6. /\ KindsOK /\ Pending /\ elems \in [Nodes -> SUBSET Zvals] /\ rc \in [Nodes -> Nat] /\ valid \subseteq Objs
  BY <1>5 DEF TypeOK, Inv, HeapInv, ListInv
<1>7. Live' = Live /\ Live \subseteq Nodes /\ 0 \notin Live
  BY <1>2, <1>5, LiveNodes DEF Live
<1>8. \A o \in Objs : RefsFrom(L, o) \in Nat /\ RefsFrom(L, o) <= rc[o]
                      /\ (RefsFrom(L, o) = 0 <=> Denoting(kind, to, o) \cap L = {})
  BY <1>1, ListObj
<1>9. \A o : Garbage(o) => Garbage(o)'
  <2>1. ASSUME NEW o \in Objs, rc[o] = 0 PROVE rc'[o] = 0
    <3>1. RefsFrom(L, o) \in Nat /\ RefsFrom(L, o) <= 0 /\ rc'[o] = 0 - RefsFrom(L, o)
      BY <1>2, <1>8, <2>1
    <3> QED BY ONLY <3>1
  <2> QED BY <1>2, <1>6, <2>1 DEF Garbage
<1>10. Suspected \subseteq Nodes /\ White \subseteq Suspected /\ Anchored \subseteq Suspected /\ L \subseteq Suspected
       /\ \A z \in Suspected : z \in Zvals => kind[z] # "none" /\ z \notin Dying
  BY <1>1, SuspectedFacts
<1>11. Closed(Suspected) /\ Buffered \subseteq Suspected
  <2>1. PICK S : S = {m \in purple : \E e \in Entries : buf[e] = m}
    OBVIOUS
  <2>2. S \in SUBSET Nodes /\ Suspected = Reach(S)
    BY <1>5, <2>1 DEF Suspected, TypeOK
  <2>3. Closed(Suspected) /\ S \subseteq Suspected
    BY <2>2, KidsFacts, ReachFacts
  <2> QED BY <2>1, <2>3 DEF Buffered
<1>12. Closed(Reach(Anchored)) /\ Anchored \subseteq Reach(Anchored) /\ Reach(Anchored) \subseteq Suspected
  <2>1. Anchored \in SUBSET Nodes /\ Suspected \in SUBSET Nodes
    BY <1>10
  <2> QED BY <1>10, <1>11, <2>1, KidsFacts, ReachFacts
\* The roots and edges that stay.
<1>13. \A u : u \in Held \/ u \in Names(stack') \/ u \in lost \cup Miscounted => u \in Roots'
  BY <1>2, RootCases DEF Held
<1>14. \A u : u \in Names(stack) /\ u # 0 => u \in Names(stack')
  <2>1. \A u \in Named(Top) : u = 0
    BY <1>2, <1>5 DEF Named, FieldsOK
  <2>2. \A h \in 1..n + 1 : h \in 1..n \/ h = n + 1
    BY <1>4
  <2> SUFFICES ASSUME NEW u, u \in Names(stack), u # 0 PROVE u \in Names(stack')
    OBVIOUS
  <2>3. PICK h \in 1..n + 1 : u \in Named(Fr(stack, h))
    BY <1>4, NamesMember
  <2>4. h \in 1..n
    BY <1>4, <2>1, <2>2, <2>3
  <2> QED BY <1>4, <2>3, <2>4, NamesMember
<1>15. \A m \in Nodes : \A u \in elems[m] : m \in Live /\ u \in Leads(m)'
  <2>1. ASSUME NEW m \in Nodes, NEW u \in elems[m] PROVE m \in Live
    BY <1>5, <1>6, <2>1 DEF KindsOK, Live
  <2> QED BY <1>2, <2>1 DEF Leads
<1>16. \A o \in Objs : \A z \in Denoting(kind, to, o) :
          /\ z \in Live /\ z \in Zvals
          /\ z \notin Listed' \cup Dying' => o \in Leads(z)'
          /\ z \in Parts(stack', 4) /\ Garbage(o)' => o \in Leads(z)'
  BY <1>2, <1>5, LiveNodes DEF Denoting, Leads
<1>17. /\ \A u \in Listed' : u \in Roots'
       /\ Parts(stack, 4) \subseteq Listed
  BY <1>4, <1>13, NextInHand, InHand
<1>18. ASSUME NEW U \in SUBSET Live, U # {},
              \A u \in U : u \notin Roots' /\ \A m \in Live \ U : u \notin Leads(m)'
       PROVE  FALSE
  <2>1. U \cap Listed' = {} /\ U \subseteq Nodes /\ 0 \notin U
    BY <1>7, <1>17, <1>18
  <2>2. ASSUME NEW o \in U, o \in Objs, rc[o] = 0 PROVE FALSE
    <3>1. o \in valid
      BY <1>5, <2>2, LiveNodes DEF Live
    <3>2. PICK z \in Denoting(kind, to, o) : z \in Parts(stack, 4)
      BY <1>6, <2>2, <3>1 DEF Pending
    <3>3. Garbage(o)' /\ z \in Parts(stack', 4) /\ z \in Listed'
      BY <1>4, <1>9, <1>17, <2>2, <3>1, <3>2 DEF Garbage
    <3> QED BY <1>16, <1>18, <2>1, <2>2, <3>3
  <2>3. U \subseteq Suspected
    <3>1. SUFFICES ASSUME U \ Suspected # {} PROVE FALSE
      OBVIOUS
    <3>2. PICK v \in U \ Suspected : v \in Roots \/ \E m \in Live \ (U \ Suspected) : v \in Edges[m]
      <4>1. U \ Suspected \in SUBSET Live
        BY <1>18
      <4> QED BY <3>1, <4>1 DEF Cover, Entered
    <3>3. CASE v \in Roots
      <4>1. Handing = {}
        BY <1>2 DEF Handing
      <4> QED BY <1>11, <1>13, <1>14, <1>18, <2>1, <3>3, <4>1, RootCases
    <3>4. ASSUME NEW m \in Live \ (U \ Suspected), v \in Leads(m) PROVE FALSE
      <4>1. m \in Nodes /\ v \in Nodes
        BY <1>7, <2>1
      <4>2. v \in Kids(m)
        <5>1. v \in elems[m] => v \in Zvals
          BY <1>6, <4>1
        <5>2. v \in elems[m] \/ (v \in Objs /\ m \in Denoting(kind, to, v))
          BY <3>4 DEF Leads, Denoting
        <5> QED BY <4>1, <5>1, <5>2, KidsFacts
      <4>3. m \notin Suspected /\ m \in Live \ U
        BY <1>11, <3>4, <4>2 DEF Closed
      <4>4. v \notin elems[m]
        BY <1>15, <1>18, <4>1, <4>3
      <4>5. /\ v \in Objs /\ m \in Denoting(kind, to, v)
            /\ m \notin Listed \cup Dying \/ (m \in Parts(stack, 4) /\ Garbage(v))
        BY <3>4, <4>4 DEF Leads, Denoting
      <4>6. m \notin Listed \cup Dying => m \notin Listed' \cup Dying'
        BY <1>4, <1>10, <4>3
      <4>7. v \in Leads(m)'
        BY <1>4, <1>9, <1>16, <4>5, <4>6
      <4> QED BY <1>18, <4>3, <4>7
    <3> QED BY <1>7, <3>2, <3>3, <3>4 DEF Edges
  <2>4. ASSUME NEW o \in U, o \in Objs,
               o \in Anchored \/ \E m \in Suspected : o \in Kids(m) /\ m \notin Counted(o)
        PROVE  FALSE
    <3>1. o \in valid
      BY <1>5, <2>4, LiveNodes DEF Live
    <3>2. \/ rc[o] = 0 \/ o \in Miscounted
          \/ \E h \in 1..Len(stack) : Holds(Fr(stack, h), o)
          \/ \E z \in Counted(o) : z \notin Suspected
      BY <2>3, <2>4, <3>1, AnchoredObj
    <3>3. o \notin Miscounted
      BY <1>13, <1>18, <2>4
    <3>4. \A h \in 1..Len(stack) : ~ Holds(Fr(stack, h), o)
      BY <1>13, <1>14, <1>18, <2>1, <2>4, InHand
    <3>5. ASSUME NEW z \in Counted(o), z \notin Suspected PROVE FALSE
      <4>1. z \in Denoting(kind, to, o) /\ z \notin Listed' \cup Dying' /\ z \notin U
        BY <1>4, <1>10, <2>3, <3>5 DEF Counted
      <4> QED BY <1>16, <1>18, <2>4, <4>1
    <3> QED BY <2>2, <2>4, <3>2, <3>3, <3>4, <3>5
  <2>5. ASSUME NEW a \in U, a \in Anchored PROVE FALSE
    <3>1. CASE a \in Objs
      BY <2>4, <2>5, <3>1
    <3>2. CASE a \in Zvals
      <4>1. \/ a \in Held \cup Listed
            \/ \E h \in 1..Len(stack) : Refers(Fr(stack, h), a)
            \/ \E m \in Nodes \ Suspected : a \in elems[m]
        BY <2>5, <3>2, AnchoredZval
      <4>2. a \notin Held \cup Listed
        BY <1>4, <1>13, <1>18, <2>1, <2>5
      <4>3. \A h \in 1..Len(stack) : ~ Refers(Fr(stack, h), a)
        BY <1>13, <1>14, <1>18, <2>1, <2>5, <3>2, InHand
      <4>4. \A m \in Nodes \ Suspected : a \notin elems[m]
        BY <1>15, <1>18, <2>3, <2>5
      <4> QED BY <4>1, <4>2, <4>3, <4>4
    <3> QED BY <1>5, <2>1, <2>5, <3>1, <3>2
  <2>6. U \cap Reach(Anchored) = {}
    <3>1. PICK T : T = Reach(Anchored) \ U
      OBVIOUS
    <3>2. Anchored \subseteq T
      BY <1>12, <2>5, <3>1
    <3>3. Closed(T)
      <4> SUFFICES ASSUME NEW m \in T, NEW k \in Kids(m) PROVE k \in T
        BY DEF Closed
      <4>1. m \in Reach(Anchored) /\ k \in Reach(Anchored) /\ m \notin U /\ m \in Suspected
            /\ m \in Nodes /\ k \in Nodes
        BY <1>10, <1>12, <3>1 DEF Closed
      <4>2. ASSUME k \in U PROVE FALSE
        <5>1. CASE k \in Zvals
          <6>1. k \in elems[m]
            BY <4>1, <5>1, KidsFacts
          <6> QED BY <1>15, <1>18, <4>1, <4>2, <6>1
        <5>2. CASE k \in Objs
          <6>1. m \in Denoting(kind, to, k)
            BY <4>1, <5>2, KidsFacts
          <6>2. m \in Zvals /\ m \in Live /\ m \notin Dying /\ m \notin L
            BY <1>1, <1>10, <1>16, <4>1, <5>2, <6>1 DEF White
          <6>3. CASE m \in Listed
            <7>1. m \notin Counted(k)
              BY <6>3 DEF Counted
            <7> QED BY <2>4, <4>1, <4>2, <5>2, <7>1
          <6>4. CASE m \notin Listed
            <7>1. m \notin Listed' \cup Dying'
              BY <1>4, <6>2, <6>4
            <7> QED BY <1>16, <1>18, <4>1, <4>2, <5>2, <6>1, <6>2, <7>1
          <6> QED BY <6>3, <6>4
        <5> QED BY <1>5, <4>1, <5>1, <5>2
      <4> QED BY <3>1, <4>1, <4>2
    <3>4. T \in SUBSET Nodes /\ Anchored \in SUBSET Nodes
      BY <1>10, <1>12, <3>1
    <3>5. Reach(Anchored) \subseteq T
      BY <3>2, <3>3, <3>4, ReachFacts
    <3> QED BY <3>1, <3>5
  <2>7. PICK u \in U : u \in White /\ u \in Objs
    <3>1. \A x \in U : x \in White
      BY <2>3, <2>6 DEF White
    <3>2. \A x \in U : x \notin Zvals
      BY <1>1, <1>4, <2>1, <3>1
    <3> QED BY <1>5, <1>18, <2>1, <3>1, <3>2
  <2>8. rc[u] = RefsFrom(L, u) /\ RefsFrom(L, u) \in Nat /\ rc'[u] = rc[u] - RefsFrom(L, u)
    BY <1>1, <1>2, <1>8, <2>7, WhiteObj
  <2>9. rc'[u] = 0
    BY ONLY <2>8
  <2>10. rc[u] # 0
    BY <2>2, <2>7
  <2>11. PICK z \in Denoting(kind, to, u) : z \in L
    BY <1>8, <2>7, <2>8, <2>10
  <2>12. u \in valid
    BY <1>5, <1>18, <2>7, LiveNodes DEF Live
  <2>13. Garbage(u)' /\ z \in Parts(stack', 4) /\ z \in Listed'
    BY <1>2, <1>4, <2>9, <2>11, <2>12 DEF Garbage
  <2> QED BY <1>16, <1>18, <2>1, <2>7, <2>13
<1>19. Entered(Live', Roots', Edges')
  <2>1. \A m \in Live : Edges'[m] = Leads(m)'
    BY <1>7 DEF Edges
  <2> SUFFICES ASSUME NEW U \in SUBSET Live, U # {}
               PROVE  \E u \in U : u \in Roots' \/ \E m \in Live \ U : u \in Edges'[m]
    BY <1>7 DEF Entered
  <2> QED BY <1>18, <2>1
<1> QED BY <1>19 DEF Cover, Entered

LEMMA PassesKnown ==
    ASSUME IInv, Sound, Known, IInv', Passes
    PROVE  Known'
<1>1. PICK L : L = White \cap Zvals
  OBVIOUS
<1>2. /\ Top.at = "collect" /\ kind' = kind /\ to' = to
      /\ purple' = purple \ Suspected /\ lost' = lost \cup Miscounted
      /\ IF L = {} THEN Return ELSE Replace([Frame("destructors", 0, 0) EXCEPT !.list = L])
  BY <1>1, PassFacts, Zenon
<1>3. PICK N, f, n : PassFrames(L, N, f, n)
  BY <1>1, PassFacts, Zenon
<1>4. /\ n \in Nat /\ Len(stack) = n + 1 /\ Fr(stack, n + 1) = Top
      /\ \A h \in 1..n : h \in 1..Len(stack') /\ Fr(stack', h) = Fr(stack, h)
      /\ Listed' = Listed \cup L /\ Dying' = Dying
      /\ Moves(stack, stack', n, N) /\ N \subseteq {f} /\ f.at = "destructors" /\ f.n = 0
      /\ f \in Frames /\ stack' \in Seq(Frames) /\ L \in SUBSET Zvals
  BY <1>1, <1>3 DEF PassFrames
<1>5. /\ TypeOK' /\ Cover /\ PurpleRoots /\ NamesFit /\ DropsFit /\ ReturnsFit
  BY DEF IInv, Known, FramesFit
<1>6. Cover'
  BY <1>5, PassesCover
<1>7. PurpleRoots'
  <2>1. Live' = Live
    BY PassFacts, Zenon DEF Live
  <2>2. Buffered \subseteq Suspected
    <3>1. PICK S : S = {m \in purple : \E e \in Entries : buf[e] = m}
      OBVIOUS
    <3>2. S \in SUBSET Nodes /\ Suspected = Reach(S)
      BY <3>1, Context DEF Suspected, TypeOK
    <3> QED BY <3>1, <3>2, ReachFacts DEF Buffered
  <2>3. ASSUME NEW x, Awaiting(x) PROVE Awaiting(x)'
    <3>1. PICK h \in 1..n + 1 : Fr(stack, h).at \in {"storage", "resume"} /\ Fr(stack, h).n = x
      BY <1>4, <2>3 DEF Awaiting
    <3>2. h \in 1..n
      <4>1. h # n + 1
        BY <1>2, <1>4, <3>1
      <4> QED BY ONLY <4>1, <3>1, <1>4
    <3> QED BY <1>4, <3>1, <3>2 DEF Awaiting
  <2> SUFFICES ASSUME NEW x \in Live, x \in purple, x \notin Suspected PROVE Safe(x)'
    BY <1>2, <2>1 DEF PurpleRoots
  <2>4. Safe(x) /\ x \notin Buffered
    BY <1>5, <2>2 DEF PurpleRoots
  <2> QED BY <1>2, <1>4, <2>3, <2>4 DEF Safe
<1>8. NamesFit' /\ DropsFit'
  <2>1. NamesStay
    BY <1>2, <1>4 DEF NamesStay
  <2>2. Len(stack) \in Nat /\ n <= Len(stack) /\ n # Len(stack)
    BY <1>4
  <2>3. \A g \in N : Fits(g)'
    BY <1>4, Fitting
  <2> QED BY <1>4, <1>5, <2>1, <2>2, <2>3, FramesFitMove
<1>9. ReturnsFit'
  <2>1. \A x : ~ Owed(x)
    BY <1>2, Owing
  <2>2. L = {} => Popped(stack, stack')
    BY <1>2, StackSteps
  <2>3. L # {} => \E g : Replaced(stack, stack', g) /\ ~ Returning(g)
    <3>1. PICK g : g = [Frame("destructors", 0, 0) EXCEPT !.list = L]
      OBVIOUS
    <3>2. g \in Frames /\ g.n = 0
      <4>1. "destructors" \in Labels /\ 0 \in Nodes \cup {0} /\ 0 \in Zvals \cup {0} /\ L \in SUBSET Zvals
        BY <1>4 DEF Labels
      <4> QED BY ONLY <3>1, <4>1 DEF Frame, Frames
    <3>3. L # {} => Replace(g)
      BY <1>2, <3>1
    <3> QED BY <3>2, <3>3, StackSteps DEF Returning
  <2> QED BY <1>4, <1>5, <2>1, <2>2, <2>3, ReturnsMove
<1> QED BY <1>6, <1>7, <1>8, <1>9 DEF Known, FramesFit
-----------------------------------------------------------------------------
LEMMA InitiallyKnown ==
    ASSUME Init
    PROVE  KInv
<1>1. IInv
  BY Initially
<1>2. kind = [z \in Zvals |-> "none"] /\ valid = {} /\ stack = <<Frame("main", 0, 0)>> /\ purple = {}
  BY DEF Init
<1>3. Live = {}
  BY <1>2 DEF Live
<1>4. Cover /\ PurpleRoots
  BY <1>2, <1>3 DEF Cover, Entered, PurpleRoots
<1>5. \A h \in 1..Len(stack) : Fr(stack, h).at = "main"
  <2>1. PICK f : f = Frame("main", 0, 0)
    OBVIOUS
  <2>2. f \in Frames /\ f.at = "main"
    <3>1. "main" \in Labels /\ 0 \in Nodes \cup {0} /\ 0 \in Zvals \cup {0}
      BY DEF Labels
    <3> QED BY <2>1, <3>1, FrameFields
  <2>3. stack = <<f>> /\ Len(stack) = 1 /\ stack[1] = f
    BY <1>2, <2>1
  <2>4. \A h \in 1..Len(stack) : Fr(stack, h) = f
    BY <2>3 DEF Fr
  <2> QED BY <2>2, <2>4
<1>6. FramesFit
  BY <1>5 DEF FramesFit, NamesFit, NameFits, DropsFit, DropFits, ReturnsFit, Returning
<1> QED BY <1>1, <1>4, <1>6 DEF KInv, Known

LEMMA ScriptKnown ==
    ASSUME IInv, Known, Script, IInv'
    PROVE  Known'
<1>1. Sound
  BY ScriptActs
<1>2. ASSUME NEW v \in Vars, NewArray(v) \/ NewObject(v) \/ KeepThis(v) \/ Unset(v)
      PROVE  Known'
  BY <1>1, <1>2, NewArrayKnown, NewObjectKnown, KeepThisKnown, UnsetKnown
<1>3. ASSUME NEW v \in Vars, NEW w \in Vars, Alias(v, w)
      PROVE  Known'
  BY <1>1, <1>3, AliasKnown
<1>4. ASSUME NEW c \in Nodes, Remove(c)
      PROVE  Known'
  BY <1>1, <1>4, RemoveKnown
<1>5. ASSUME NEW c \in Nodes, NEW v \in Vars, Store(c, v) \/ Fetch(v, c)
      PROVE  Known'
  BY <1>1, <1>5, StoreKnown, FetchKnown
<1>6. ASSUME CollectNow \/ EndBody
      PROVE  Known'
  BY <1>1, <1>6, CollectNowKnown, EndBodyKnown
<1> QED BY <1>2, <1>3, <1>4, <1>5, <1>6, Zenon DEF Script

LEMMA OtherKnown ==
    ASSUME IInv, Known, Release \/ DelRef \/ PossibleRoot \/ Collect, IInv', Sound'
    PROVE  Known'
<1>1. Sound
  BY OtherActs
<1>2. ASSUME Release PROVE Known'
  BY <1>1, <1>2, DropReferenceKnown, DropLastKnown, ReleaseElementKnown, FreeZvalKnown, ReleasedKnown, Zenon DEF Release
<1>3. ASSUME DelRef PROVE Known'
  BY <1>1, <1>3, DelRefDestructKnown, DelRefFreeKnown, DelRefKeepKnown, StorageFreedKnown, Zenon DEF DelRef
<1>4. ASSUME PossibleRoot PROVE Known'
  BY <1>1, <1>4, NotARootKnown, RecordRootKnown, BufferFullKnown, ResumeRootKnown, Zenon DEF PossibleRoot
<1>5. ASSUME Collect PROVE Known'
  BY <1>1, <1>5, PassesKnown, CallDestructorKnown, DestructorReturnedKnown, DestructorsDoneKnown, DestroyKnown,
     FreeListKnown, Zenon DEF Collect
<1> QED BY <1>2, <1>3, <1>4, <1>5

LEMMA KnownStays ==
    ASSUME KInv, [Next]_vars
    PROVE  KInv'
<1>1. IInv /\ IInv' /\ (Sound => Known)
  BY Inductive DEF KInv
<1>2. CASE UNCHANGED vars
  <2>1. /\ kind' = kind /\ to' = to /\ elems' = elems /\ rc' = rc /\ valid' = valid /\ called' = called
        /\ var' = var /\ buf' = buf /\ purple' = purple /\ stack' = stack /\ lost' = lost /\ beyond' = beyond
    BY <1>2 DEF vars
  <2>2. Sound' <=> Sound
    BY <2>1, Zenon DEF Sound
  <2>3. /\ Listed' = Listed /\ Dying' = Dying /\ Top' = Top /\ Live' = Live /\ Buffered' = Buffered
    BY <2>1, Zenon DEF Listed, Dying, Top, Live, Buffered
  <2>4. ASSUME Known PROVE Known'
    <3>1. Cover /\ PurpleRoots /\ NamesFit /\ DropsFit /\ ReturnsFit
      BY <2>4 DEF Known, FramesFit
    <3>2. Cover'
      <4>1. Roots' = Roots
        BY <2>1, <2>3 DEF Roots, Held, Handing
      <4>2. Edges' = Edges
        BY <2>1, <2>3 DEF Edges, Leads, Garbage
      <4> QED BY <2>3, <3>1, <4>1, <4>2 DEF Cover
    <3>3. PurpleRoots'
      BY <2>1, <2>3, <3>1 DEF PurpleRoots, Safe, Awaiting
    <3>4. NamesFit' /\ DropsFit'
      BY <2>1, <2>3, <3>1 DEF NamesFit, NameFits, DropsFit, DropFits
    <3>5. ReturnsFit'
      BY <2>1, <2>3, <3>1 DEF ReturnsFit, Handed
    <3> QED BY <3>2, <3>3, <3>4, <3>5 DEF Known, FramesFit
  <2> QED BY <1>1, <2>2, <2>4 DEF KInv
<1>3. CASE Next
  <2>1. CASE Script
    BY <1>1, <2>1, ScriptKnown, ScriptActs DEF KInv
  <2>2. CASE Release \/ DelRef \/ PossibleRoot \/ Collect
    BY <1>1, <2>2, OtherKnown, OtherActs DEF KInv
  <2>3. CASE Stopped
    BY <1>2, <2>3 DEF Stopped
  <2> QED BY <1>3, <2>1, <2>2, <2>3 DEF Next
<1> QED BY <1>2, <1>3

\* While the main program runs there is nothing in hand, on a list, or dying.
LEMMA AllKnown ==
    ASSUME IInv, Sound, Cover
    PROVE  GarbageKnown
<1> SUFFICES ASSUME Top.at = "main"
             PROVE  {z \in Zvals : kind[z] # "none"} \cup valid \subseteq
                        Reach({var[v] : v \in Vars} \ {0})
                        \cup Reach({n \in purple : \E e \in Entries : buf[e] = n} \cup lost)
  BY Zenon DEF GarbageKnown, At
<1>1. PICK A : A = {var[v] : v \in Vars} \ {0}
  OBVIOUS
<1>2. PICK B : B = {n \in purple : \E e \in Entries : buf[e] = n} \cup lost
  OBVIOUS
<1>3. TypeOK /\ Inv /\ Objs \subseteq Nodes /\ Zvals \subseteq Nodes
  BY Context, Sizes
<1>4. A \in SUBSET Nodes /\ B \in SUBSET Nodes /\ Live \subseteq Nodes /\ 0 \notin Live
  BY <1>1, <1>2, <1>3, LiveNodes DEF TypeOK
<1>5. /\ A \subseteq Reach(A) /\ B \subseteq Reach(B) /\ Closed(Reach(A)) /\ Closed(Reach(B))
  BY <1>4, KidsFacts, ReachFacts
<1>6. PICK n \in Nat : Len(stack) = n + 1 /\ Fr(stack, n + 1) = Top
  BY Context
<1>7. Len(stack) = 1 /\ Fr(stack, 1) = Top
  <2>1. n + 1 \in 1..Len(stack)
    BY <1>6
  <2>2. n + 1 = 1
    BY <1>3, <1>6, <2>1 DEF Inv, Shape
  <2> QED BY <1>6, <2>2
<1>8. Top.n = 0 /\ Top.z = 0 /\ Top.todo = {} /\ Top.list = {}
  BY Context DEF FieldsOK
<1>9. Names(stack) = {0} /\ Handing = {}
  <2>1. Named(Top) = {0}
    BY <1>8 DEF Named
  <2>2. \A h \in 1..Len(stack) : h = 1
    BY <1>7
  <2> QED BY <1>7, <2>1, <2>2 DEF Names, Handing
<1>10. PICK U : U = Live \ (Reach(A) \cup Reach(B))
  OBVIOUS
<1>11. \A u \in U : u \notin Roots
  BY <1>1, <1>2, <1>4, <1>5, <1>9, <1>10 DEF Roots, Held, Buffered
<1>12. ASSUME NEW u \in U, NEW m \in Live \ U, u \in Edges[m] PROVE FALSE
  <2>1. m \in Nodes /\ u \in Nodes /\ u \in Leads(m)
    BY <1>4, <1>10, <1>12 DEF Edges
  <2>2. u \in Kids(m)
    <3>1. u \in elems[m] => u \in Zvals
      BY <1>3, <2>1 DEF TypeOK
    <3>2. u \in elems[m] \/ (u \in Objs /\ m \in Denoting(kind, to, u))
      BY <2>1 DEF Leads, Denoting
    <3> QED BY <2>1, <3>1, <3>2, KidsFacts
  <2>3. m \in Reach(A) \cup Reach(B)
    BY <1>10, <1>12
  <2> QED BY <1>5, <1>10, <1>12, <2>2, <2>3 DEF Closed
<1>13. U = {}
  BY <1>10, <1>11, <1>12 DEF Cover, Entered
<1>14. Live \subseteq Reach(A) \cup Reach(B)
  BY <1>10, <1>13
<1> QED BY <1>1, <1>2, <1>14 DEF Live

\* The invariant that includes what is known of the garbage holds in every state.
THEOREM KnownInvariance == Spec => []KInv
<1>1. Init => KInv
  BY InitiallyKnown
<1>2. KInv /\ [Next]_vars => KInv'
  BY KnownStays
<1>3. QED
  BY <1>1, <1>2, PTL DEF Spec

\* Whatever a script does, and however often destructors, a full buffer and
\* collections interrupt one another: while the main program runs, a zval or an
\* object that no variable leads to hangs on a buffered root or on a node that the
\* code is known to give up.
THEOREM GarbageStaysKnown == Spec => []GarbageKnown
<1>1. KInv => GarbageKnown
  <2>1. CASE Sound
    BY <2>1, AllKnown DEF KInv, Known
  <2>2. CASE ~ Sound
    BY <2>2, Zenon DEF GarbageKnown
  <2> QED BY <2>1, <2>2
<1>2. QED
  BY <1>1, KnownInvariance, PTL
=============================================================================
