------------------------- MODULE ObjectsStoreProofs -------------------------
(***************************************************************************)
(* Proof that the objects store keeps its books: refcounts are exact, no    *)
(* handle in use denotes another object, the free list has the unused       *)
(* handles once each, no object is destructed or freed twice, and none made *)
(* before the shutdown is left out by it - for any number of objects,       *)
(* statements and nested destructors, with a bailout possible at every one  *)
(* of them, up to the write through a stale pointer that NoStaleWrite is    *)
(* about.                                                                   *)
(*                                                                         *)
(* Everything turns on one number, Refs(o): the zvals of an object that     *)
(* anything holds, frames of the C stack and what bailouts lost included.   *)
(* While the storage of an object is being freed it is exactly one - the    *)
(* frame that frees it - so that no destructor can get hold of the object.  *)
(***************************************************************************)
EXTENDS ObjectsStore, FiniteSetTheorems, SequenceTheorems, WellFoundedInduction, TLAPS

Stored(o) == {p \in Objs : o \in props[p]}
Refs(o) == Owners(o) + lost[o]

\* The bucket of an object's handle is still the object's.
Keeps(o) == store[handle[o]].obj = o

IsFreeing(s, o) == \E k \in DOMAIN s : s[k].at = "freeing" /\ s[k].o = o
Freeing(o) == IsFreeing(stack, o)

Types ==
    /\ store \in [Handles -> Bucket]
    /\ top \in 1..(MaxObjs + 1) /\ size \in Nat /\ top <= size
    /\ freeList \in Seq(Handles)
    /\ gen \in Nat
    /\ buffered \in SUBSET Handles
    /\ handle \in [Objs -> Handles \cup {0}]
    /\ vars \in [Objs -> 0..MaxVars]
    /\ props \in [Objs -> SUBSET Objs]
    /\ stack \in Seq(Frames) \ {<<>>}
    /\ steps \in 0..MaxSteps
    /\ lost \in [Objs -> Nat]
    /\ destructed \in [Objs -> Nat]
    /\ freed \in [Objs -> Nat]
    /\ early \in SUBSET Objs
    /\ bailed \in BOOLEAN

\* The C stack: a step of the request at the bottom, above it calls of del_ref.
Inner == {"del_ref", "dtor", "dtor_done", "freeing"}
Bottom == Labels \ Inner
FrameOK(f) == /\ f.at \in Inner => f.o \in Objs
              /\ f.at \notin {"freeing", "free_one"} => f.todo = {}
              /\ f.at \in {"called", "free", "free_one"} => f.i >= 1
Base(s) == s[Len(s)].at
Shape(s) == /\ s \in Seq(Frames) /\ s # <<>>
            /\ \A k \in 1..Len(s) : FrameOK(s[k])
            /\ \A k \in 1..(Len(s) - 1) : s[k].at \in Inner
            /\ Base(s) \in Bottom
            /\ Base(s) \in {"free", "end"} => Len(s) = 1

FreeingBases == {"free", "free_one", "end"}
SameRole(f, g) == f.at = g.at /\ f.o = g.o /\ f.i = g.i

\* What a frame relies on while the ones above it run.
Relies(f) ==
    /\ f.at = "dtor_done" => /\ f.o \in Created /\ Keeps(f.o)
                             /\ store[handle[f.o]].valid /\ store[handle[f.o]].called
    /\ f.at = "called" /\ f.o # 0 => f.i = handle[f.o]
    /\ f.at = "free_one" => f.i < top
Relying == {"dtor_done", "called", "free_one"}
CallsInv == \A k \in DOMAIN stack : Relies(stack[k])

\* Objects are numbered as they are created, and there are no more buckets than objects.
CreatedInv == /\ \E n \in 0..MaxObjs : Created = 1..n /\ top <= n + 1
              /\ \A o \in Objs \ Created : Refs(o) = 0 /\ freed[o] = 0 /\ destructed[o] = 0
BucketInv == \A h \in Handles : IF h < top THEN /\ store[h].obj \in Created
                                                /\ handle[store[h].obj] = h
                                ELSE store[h] = NoBucket

\* An object that has lost its bucket is freed and forgotten.
CountInv == \A o \in Created :
    /\ handle[o] < top
    /\ Keeps(o) => store[handle[o]].refcount = Refs(o)
    /\ ~ Keeps(o) => Refs(o) = 0 /\ freed[o] # 0
ValidInv == \A o \in Created : Keeps(o) =>
    IF store[handle[o]].valid
    THEN /\ freed[o] # 0 => Freeing(o)
         /\ ~ store[handle[o]].called => destructed[o] = 0
    ELSE freed[o] # 0 /\ (~ FreeingAll => Refs(o) = 0)
FreeingInv == \A o \in Created : Freeing(o) =>
    /\ Keeps(o) /\ store[handle[o]].valid /\ store[handle[o]].called
    /\ Refs(o) = 1 /\ freed[o] # 0
    /\ handle[o] \notin buffered
FreeInv == FreeListSound /\ \A k \in DOMAIN freeList : store[freeList[k]].refcount = 0

Sound == /\ Types /\ Shape(stack) /\ CallsInv /\ CreatedInv /\ BucketInv
         /\ CountInv /\ ValidInv /\ FreeingInv /\ FreeInv /\ NoDanglingRoot

\* After a write through a stale pointer the behaviour stops.
Safe == TypeOK /\ CountsExact /\ NoDangling /\ FreeListSound /\ NoDanglingRoot
IInv == /\ stale \in BOOLEAN
        /\ IF stale THEN Safe ELSE Sound
-----------------------------------------------------------------------------
\* What the assumptions say of the constants, and finiteness of the objects.
LEMMA Constants == /\ MaxObjs \in Nat /\ MaxSteps \in Nat /\ MaxVars \in Nat \ {0}
                   /\ InitSize \in Nat \ {0, 1}
                   /\ Objs = 1..MaxObjs /\ Handles = 1..MaxObjs /\ 0 \notin Objs
                   /\ IsFiniteSet(Objs)
<1>1. IsFiniteSet(1..MaxObjs)
  BY ConstantsAssumption, FS_Interval
<1>2. QED
  BY <1>1, ConstantsAssumption DEF Objs, Handles

\* A non-empty set of positions has a first one.
LEMMA First ==
    ASSUME NEW S \in SUBSET Nat, S # {}
    PROVE  \E x \in S : \A y \in S : x <= y
<1>1. PICK x \in S : \A y \in S : <<y, x>> \notin OpToRel(<, Nat)
  BY NatLessThanWellFounded, WFMin
<1>2. \A y \in S : ~ (y < x)
  BY <1>1 DEF OpToRel
<1>3. QED
  BY <1>2

\* How many members of a sequence are of some kind is additive.
OfKind(s, F) == {k \in DOMAIN s : s[k] \in F}
LEMMA FilterConcat ==
    ASSUME NEW S, NEW F, NEW s \in Seq(S), NEW t \in Seq(S)
    PROVE  /\ Cardinality(OfKind(s, F)) \in Nat /\ Cardinality(OfKind(t, F)) \in Nat
           /\ Cardinality(OfKind(s \o t, F)) = Cardinality(OfKind(s, F)) + Cardinality(OfKind(t, F))
<1> DEFINE A == OfKind(s, F)
           B == OfKind(t, F)
           C == {k + Len(s) : k \in B}
<1>1. /\ Len(s) \in Nat /\ Len(t) \in Nat
      /\ DOMAIN s = 1..Len(s) /\ DOMAIN t = 1..Len(t)
      /\ DOMAIN (s \o t) = 1..(Len(s) + Len(t))
      /\ \A i \in 1 .. Len(s) + Len(t) :
             (s \o t)[i] = IF i <= Len(s) THEN s[i] ELSE t[i - Len(s)]
  BY ConcatProperties, LenProperties
<1>a. /\ A = {k \in 1..Len(s) : s[k] \in F} /\ B = {k \in 1..Len(t) : t[k] \in F}
      /\ OfKind(s \o t, F) = {k \in 1..(Len(s) + Len(t)) : (s \o t)[k] \in F}
  BY <1>1 DEF OfKind
<1> HIDE DEF A, B
<1>2. IsFiniteSet(A) /\ IsFiniteSet(B)
  <2>1. IsFiniteSet(1..Len(s)) /\ IsFiniteSet(1..Len(t))
    BY <1>1, FS_Interval
  <2>2. A \in SUBSET (1..Len(s)) /\ B \in SUBSET (1..Len(t))
    BY <1>a
  <2>3. QED
    BY <2>1, <2>2, FS_Subset
<1>3. IsFiniteSet(C) /\ Cardinality(C) = Cardinality(B)
  <2> DEFINE f == [k \in B |-> k + Len(s)]
  <2>0. B \subseteq Nat
    BY <1>1, <1>a
  <2>1. f \in Bijection(B, C)
    <3>1. f \in [B -> C]
      OBVIOUS
    <3>2. \A j, k \in B : f[j] = f[k] => j = k
      BY <1>1, <2>0
    <3>3. \A c \in C : \E k \in B : f[k] = c
      OBVIOUS
    <3>4. QED
      BY <3>1, <3>2, <3>3 DEF Bijection, Injection, Surjection, IsInjective
  <2>2. ExistsBijection(B, C)
    BY <2>1 DEF ExistsBijection
  <2>3. QED
    BY <1>2, <2>2, FS_Bijection
<1>4. OfKind(s \o t, F) = A \cup C
  <2>0. B \subseteq Nat
    BY <1>1, <1>a
  <2>1. ASSUME NEW k \in 1..(Len(s) + Len(t))
        PROVE  k \in OfKind(s \o t, F) <=> k \in A \cup C
    <3>1. CASE k <= Len(s)
      <4>1. k \notin C
        BY <3>1, <1>1, <1>a
      <4>2. QED
        BY <3>1, <4>1, <1>1, <1>a
    <3>2. CASE k > Len(s)
      <4>1. k \notin A /\ k - Len(s) \in 1..Len(t)
        BY <3>2, <1>1, <1>a
      <4>2. k \in C <=> k - Len(s) \in B
        <5>1. \A j \in B : k = j + Len(s) <=> j = k - Len(s)
          BY <1>1, <2>0
        <5>2. QED
          BY <5>1
      <4>3. QED
        BY <3>2, <4>1, <4>2, <1>1, <1>a
    <3>3. QED
      BY <3>1, <3>2, <1>1
  <2>2. A \cup C \subseteq 1..(Len(s) + Len(t))
    <3>1. \A j \in B : j + Len(s) \in 1..(Len(s) + Len(t))
      BY <1>1, <1>a
    <3>2. A \subseteq 1..(Len(s) + Len(t))
      BY <1>1, <1>a
    <3>3. QED
      BY <3>1, <3>2
  <2>3. OfKind(s \o t, F) \subseteq 1..(Len(s) + Len(t))
    BY <1>a
  <2>4. QED
    BY <2>1, <2>2, <2>3
<1>5. A \cap C = {}
  BY <1>1, <1>a
<1>6. Cardinality(A \cup C) = Cardinality(A) + Cardinality(C) - Cardinality(A \cap C)
  BY <1>2, <1>3, FS_Union
<1>7. Cardinality(A) \in Nat /\ Cardinality(B) \in Nat /\ Cardinality(A \cap C) = 0
  BY <1>2, <1>5, FS_CardinalityType, FS_EmptySet
<1>8. Cardinality(OfKind(s \o t, F)) = Cardinality(A) + Cardinality(B)
  BY <1>3, <1>4, <1>6, <1>7
<1>9. QED
  BY <1>7, <1>8 DEF A, B

LEMMA HoldsType == \A f \in Frames, o \in Objs : Holds(f, o) \in {0, 1, 2}
BY DEF Holds

\* The zvals in the hands of two parts of a stack add up.
LEMMA HeldConcat ==
    ASSUME NEW o \in Objs, NEW s \in Seq(Frames), NEW t \in Seq(Frames)
    PROVE  /\ HeldBy(s, o) \in Nat
           /\ HeldBy(s \o t, o) = HeldBy(s, o) + HeldBy(t, o)
<1> DEFINE One == {f \in Frames : Holds(f, o) = 1}
           Two == {f \in Frames : Holds(f, o) = 2}
<1>1. ASSUME NEW u \in Seq(Frames)
      PROVE  HeldBy(u, o) = Cardinality(OfKind(u, One)) + 2 * Cardinality(OfKind(u, Two))
  <2>1. \A k \in DOMAIN u : u[k] \in Frames
    BY LenProperties
  <2>2. OfKind(u, One) = {k \in DOMAIN u : Holds(u[k], o) = 1}
    BY <2>1 DEF OfKind
  <2>3. OfKind(u, Two) = {k \in DOMAIN u : Holds(u[k], o) = 2}
    BY <2>1 DEF OfKind
  <2>4. QED
    BY <2>2, <2>3 DEF HeldBy
<1>2. s \o t \in Seq(Frames)
  BY ConcatProperties
<1>3. /\ Cardinality(OfKind(s, One)) \in Nat /\ Cardinality(OfKind(t, One)) \in Nat
      /\ Cardinality(OfKind(s \o t, One)) = Cardinality(OfKind(s, One)) + Cardinality(OfKind(t, One))
  BY FilterConcat
<1>4. /\ Cardinality(OfKind(s, Two)) \in Nat /\ Cardinality(OfKind(t, Two)) \in Nat
      /\ Cardinality(OfKind(s \o t, Two)) = Cardinality(OfKind(s, Two)) + Cardinality(OfKind(t, Two))
  BY FilterConcat
<1>5. /\ HeldBy(s, o) = Cardinality(OfKind(s, One)) + 2 * Cardinality(OfKind(s, Two))
      /\ HeldBy(t, o) = Cardinality(OfKind(t, One)) + 2 * Cardinality(OfKind(t, Two))
      /\ HeldBy(s \o t, o) = Cardinality(OfKind(s \o t, One)) + 2 * Cardinality(OfKind(s \o t, Two))
  BY <1>1, <1>2
<1> HIDE DEF One, Two
<1>6. QED
  BY <1>3, <1>4, <1>5, SMTT(60)

\* The zvals in the hands of one frame.
LEMMA HeldOne ==
    ASSUME NEW o \in Objs, NEW f \in Frames
    PROVE  /\ HeldBy(<<f>>, o) = Holds(f, o) /\ HeldBy(<<>>, o) = 0
           /\ Holds(f, o) \in {0, 1, 2}
<1>1. Holds(f, o) \in {0, 1, 2}
  BY HoldsType
<1> DEFINE K(n) == {k \in DOMAIN <<f>> : Holds(<<f>>[k], o) = n}
<1>2. \A n \in {1, 2} : Cardinality(K(n)) = IF Holds(f, o) = n THEN 1 ELSE 0
  <2>1. ASSUME NEW n \in {1, 2}
        PROVE  Cardinality(K(n)) = IF Holds(f, o) = n THEN 1 ELSE 0
    <3>1. DOMAIN <<f>> = {1} /\ <<f>>[1] = f
      OBVIOUS
    <3>2. CASE Holds(f, o) = n
      <4>1. K(n) = {1}
        BY <3>1, <3>2
      <4>2. QED
        BY <3>2, <4>1, FS_Singleton
    <3>3. CASE Holds(f, o) # n
      <4>1. K(n) = {}
        BY <3>1, <3>3
      <4>2. QED
        BY <3>3, <4>1, FS_EmptySet
    <3>4. QED
      BY <3>2, <3>3
  <2>2. QED
    BY <2>1
<1>3. HeldBy(<<f>>, o) = Holds(f, o)
  <2>1. HeldBy(<<f>>, o) = Cardinality(K(1)) + 2 * Cardinality(K(2))
    BY DEF HeldBy
  <2> HIDE DEF K
  <2>2. QED
    BY <1>1, <1>2, <2>1
<1>4. HeldBy(<<>>, o) = 0
  <2>1. {k \in DOMAIN <<>> : Holds(<<>>[k], o) = 1} = {} /\ {k \in DOMAIN <<>> : Holds(<<>>[k], o) = 2} = {}
    OBVIOUS
  <2>2. QED
    BY <2>1, FS_EmptySet DEF HeldBy
<1>5. QED
  BY <1>1, <1>3, <1>4

\* The C stack is a frame and what it returns to.
LEMMA StackTop ==
    ASSUME NEW s \in Seq(Frames), s # <<>>
    PROVE  /\ s[1] \in Frames /\ Tail(s) \in Seq(Frames) /\ s = <<s[1]>> \o Tail(s)
           /\ Len(s) \in Nat /\ Len(s) >= 1 /\ Len(Tail(s)) = Len(s) - 1
           /\ DOMAIN s = 1..Len(s) /\ DOMAIN Tail(s) = 1..(Len(s) - 1)
           /\ \A k \in 1..(Len(s) - 1) : Tail(s)[k] = s[k + 1]
<1>1. /\ Len(s) \in Nat /\ Len(s) >= 1
      /\ Tail(s) \in Seq(Frames) /\ Len(Tail(s)) = Len(s) - 1
      /\ \A k \in 1..(Len(s) - 1) : Tail(s)[k] = s[k + 1]
  BY HeadTailProperties, EmptySeq
<1>2. s[1] \in Frames
  BY <1>1, ElementOfSeq
<1>3. s = <<s[1]>> \o Tail(s)
  <2>1. /\ <<s[1]>> \o Tail(s) \in Seq(Frames) /\ Len(<<s[1]>> \o Tail(s)) = Len(s)
        /\ \A i \in 1..Len(s) : (<<s[1]>> \o Tail(s))[i] = IF i <= 1 THEN s[1] ELSE Tail(s)[i - 1]
    <3>1. <<s[1]>> \in Seq(Frames) /\ Len(<<s[1]>>) = 1 /\ <<s[1]>>[1] = s[1]
      BY <1>2
    <3>2. QED
      BY <1>1, <3>1, ConcatProperties
  <2>2. \A i \in 1..Len(s) : (<<s[1]>> \o Tail(s))[i] = s[i]
    BY <1>1, <2>1
  <2>3. QED
    BY <2>1, <2>2, SeqEqual
<1>4. QED
  BY <1>1, <1>2, <1>3, LenProperties

\* The same for a stack under construction.
LEMMA StackPush ==
    ASSUME NEW f \in Frames, NEW s \in Seq(Frames)
    PROVE  /\ <<f>> \o s \in Seq(Frames) /\ <<f>> \o s # <<>>
           /\ Len(s) \in Nat /\ Len(<<f>> \o s) = Len(s) + 1
           /\ DOMAIN s = 1..Len(s) /\ DOMAIN (<<f>> \o s) = 1..(Len(s) + 1)
           /\ (<<f>> \o s)[1] = f
           /\ \A k \in 1..Len(s) : (<<f>> \o s)[k + 1] = s[k]
<1>1. <<f>> \in Seq(Frames) /\ Len(<<f>>) = 1 /\ <<f>>[1] = f
  OBVIOUS
<1>2. /\ <<f>> \o s \in Seq(Frames) /\ Len(<<f>> \o s) = 1 + Len(s) /\ Len(s) \in Nat
      /\ \A i \in 1 .. 1 + Len(s) : (<<f>> \o s)[i] = IF i <= 1 THEN f ELSE s[i - 1]
  BY <1>1, ConcatProperties, LenProperties
<1>3. <<f>> \o s # <<>>
  BY <1>2, EmptySeq
<1>4. \A k \in 1..Len(s) : (<<f>> \o s)[k + 1] = s[k]
  <2>1. ASSUME NEW k \in 1..Len(s)
        PROVE  (<<f>> \o s)[k + 1] = s[k]
    <3>1. k + 1 \in 1..1 + Len(s) /\ ~ (k + 1 <= 1) /\ (k + 1) - 1 = k
      BY <1>2
    <3>2. QED
      BY <1>2, <3>1
  <2>2. QED
    BY <2>1
<1>5. QED
  BY <1>2, <1>3, <1>4, LenProperties

\* A call adds the zvals of its frame.
LEMMA HeldPush ==
    ASSUME NEW o \in Objs, NEW f \in Frames, NEW s \in Seq(Frames)
    PROVE  /\ HeldBy(<<f>> \o s, o) = Holds(f, o) + HeldBy(s, o)
           /\ Holds(f, o) \in {0, 1, 2} /\ HeldBy(s, o) \in Nat
<1>1. <<f>> \in Seq(Frames)
  OBVIOUS
<1>2. QED
  BY <1>1, HeldConcat, HeldOne

\* A frame's zvals are among those of the stack.
LEMMA HeldElement ==
    ASSUME NEW o \in Objs, NEW s \in Seq(Frames), NEW k \in 1..Len(s)
    PROVE  HeldBy(s, o) >= Holds(s[k], o) /\ HeldBy(s, o) \in Nat /\ Holds(s[k], o) \in {0, 1, 2}
<1>1. Len(s) \in Nat /\ s[k] \in Frames /\ DOMAIN s = 1..Len(s)
  BY LenProperties, ElementOfSeq
<1> DEFINE u == SubSeq(s, 1, k - 1)
           v == SubSeq(s, k + 1, Len(s))
<1>2. u \in Seq(Frames) /\ v \in Seq(Frames) /\ <<s[k]>> \in Seq(Frames)
  <2>1. \A i \in 1..(k - 1) : s[i] \in Frames
    BY <1>1, ElementOfSeq
  <2>2. \A i \in (k + 1)..Len(s) : s[i] \in Frames
    BY <1>1, ElementOfSeq
  <2>3. QED
    BY <1>1, <2>1, <2>2, SubSeqProperties
<1>3. s = u \o (<<s[k]>> \o v)
  <2>1. SubSeq(s, k, Len(s)) = <<s[k]>> \o v
    BY <1>1, SubSeqRecursiveFirst
  <2>2. SubSeq(s, 1, k - 1) \o SubSeq(s, (k - 1) + 1, Len(s)) = SubSeq(s, 1, Len(s))
    <3>1. /\ 1 \in 1..Len(s) + 1 /\ k - 1 \in 1 - 1..Len(s) /\ Len(s) \in k - 1..Len(s)
      BY <1>1
    <3>2. QED
      BY <3>1, ConcatAdjacentSubSeq
  <2>3. (k - 1) + 1 = k
    BY <1>1
  <2>4. QED
    BY <2>1, <2>2, <2>3, SubSeqFull
<1>4. HeldBy(s, o) = HeldBy(u, o) + HeldBy(<<s[k]>> \o v, o) /\ HeldBy(u, o) \in Nat
  <2>1. <<s[k]>> \o v \in Seq(Frames)
    BY <1>2, ConcatProperties
  <2>2. QED
    BY <1>2, <1>3, <2>1, HeldConcat, ZenonT(60)
<1>5. /\ HeldBy(<<s[k]>> \o v, o) = Holds(s[k], o) + HeldBy(v, o) /\ HeldBy(v, o) \in Nat
      /\ Holds(s[k], o) \in {0, 1, 2}
  BY <1>1, <1>2, HeldPush
<1> HIDE DEF u, v
<1>6. QED
  BY <1>4, <1>5
-----------------------------------------------------------------------------
LEMMA EmptyStack == \A s \in Seq(Frames) : Len(s) \in Nat /\ (s = <<>> <=> Len(s) = 0)
<1>1. ASSUME NEW s \in Seq(Frames)
      PROVE  Len(s) \in Nat /\ (s = <<>> <=> Len(s) = 0)
  <2>1. Len(s) \in Nat
    BY LenProperties
  <2>2. Len(<<>>) = 0 /\ (s # <<>> => Len(s) \in Nat \ {0})
    BY EmptySeq, Zenon
  <2>3. QED
    BY <2>1, <2>2
<1>2. QED
  BY <1>1

\* The shape of the C stack.
LEMMA ShapeTop ==
    ASSUME NEW s, Shape(s)
    PROVE  /\ s \in Seq(Frames) /\ s # <<>> /\ s[1] \in Frames /\ FrameOK(s[1])
           /\ s[1].at \in Bottom => Len(s) = 1 /\ Tail(s) = <<>> /\ Base(s) = s[1].at
           /\ s[1].at \in Inner => /\ Len(s) > 1 /\ Shape(Tail(s)) /\ Base(Tail(s)) = Base(s)
                                   /\ Base(s) \notin {"free", "end"}
<1>0. s \in Seq(Frames) /\ s # <<>>
  BY DEF Shape
<1>1. /\ s[1] \in Frames /\ Tail(s) \in Seq(Frames)
      /\ Len(s) \in Nat /\ Len(s) >= 1 /\ Len(Tail(s)) = Len(s) - 1
      /\ \A k \in 1..(Len(s) - 1) : Tail(s)[k] = s[k + 1]
  BY <1>0, StackTop
<1>2. FrameOK(s[1])
  BY <1>1 DEF Shape
<1>3. CASE Len(s) = 1
  <2>0. Len(Tail(s)) = 0
    BY <1>1, <1>3
  <2>1. Tail(s) = <<>>
    BY <1>1, <2>0, EmptyStack, Zenon
  <2>2. s[1].at \notin Inner
    BY <1>3 DEF Shape, Base, Bottom
  <2>3. QED
    BY <1>0, <1>1, <1>2, <1>3, <2>1, <2>2 DEF Base
<1>4. CASE Len(s) > 1
  <2>1. s[1].at \notin Bottom
    BY <1>1, <1>4 DEF Shape, Bottom
  <2>0. Len(Tail(s)) # 0
    BY <1>1, <1>4
  <2>2. Tail(s) # <<>>
    BY <1>1, <2>0, EmptyStack, Zenon
  <2>3. Base(Tail(s)) = Base(s)
    <3>1. Len(s) - 1 \in 1..(Len(s) - 1) /\ (Len(s) - 1) + 1 = Len(s)
      BY <1>1, <1>4
    <3>2. Tail(s)[Len(s) - 1] = s[Len(s)]
      BY <1>1, <3>1
    <3>3. QED
      BY <1>1, <3>2 DEF Base
  <2>4. Base(s) \notin {"free", "end"}
    BY <1>1, <1>4 DEF Shape
  <2>a. /\ \A k \in 1..Len(s) : FrameOK(s[k])
        /\ \A k \in 1..(Len(s) - 1) : s[k].at \in Inner
    BY DEF Shape
  <2>5. ASSUME NEW k \in 1..Len(Tail(s))
        PROVE  FrameOK(Tail(s)[k])
    <3>1. k + 1 \in 1..Len(s) /\ Tail(s)[k] = s[k + 1]
      BY <1>1
    <3>2. QED
      BY <3>1, <2>a
  <2>6. ASSUME NEW k \in 1..(Len(Tail(s)) - 1)
        PROVE  Tail(s)[k].at \in Inner
    <3>1. k + 1 \in 1..(Len(s) - 1) /\ Tail(s)[k] = s[k + 1]
      BY <1>1
    <3>2. QED
      BY <3>1, <2>a
  <2>7. Shape(Tail(s))
    BY <1>1, <2>2, <2>3, <2>4, <2>5, <2>6 DEF Shape
  <2>8. QED
    BY <1>0, <1>1, <1>2, <1>4, <2>1, <2>3, <2>4, <2>7
<1>5. QED
  BY <1>1, <1>3, <1>4

\* A frame of del_ref may be pushed unless the request is at "free" or at its end.
LEMMA ShapePush ==
    ASSUME NEW s, Shape(s), Base(s) \notin {"free", "end"},
           NEW f \in Frames, FrameOK(f), f.at \in Inner
    PROVE  Shape(<<f>> \o s) /\ Base(<<f>> \o s) = Base(s)
<1> DEFINE t == <<f>> \o s
<1>0. s \in Seq(Frames) /\ s # <<>>
  BY DEF Shape
<1>1. /\ t \in Seq(Frames) /\ t # <<>>
      /\ Len(s) \in Nat /\ Len(s) >= 1 /\ Len(t) = Len(s) + 1
      /\ t[1] = f
      /\ \A k \in 1..Len(s) : t[k + 1] = s[k]
  BY <1>0, StackPush, StackTop
<1> HIDE DEF t
<1>2. \A k \in 1..Len(t) : k = 1 \/ (k - 1 \in 1..Len(s) /\ t[k] = s[k - 1])
  <2>1. ASSUME NEW k \in 1..Len(t), k # 1
        PROVE  k - 1 \in 1..Len(s) /\ t[k] = s[k - 1]
    <3>1. k - 1 \in 1..Len(s) /\ (k - 1) + 1 = k
      BY <1>1, <2>1
    <3>2. QED
      BY <1>1, <3>1
  <2>2. QED
    BY <2>1
<1>3. Base(t) = Base(s)
  BY <1>1 DEF Base
<1>4. \A k \in 1..Len(t) : FrameOK(t[k])
  BY <1>1, <1>2 DEF Shape
<1>5. \A k \in 1..(Len(t) - 1) : t[k].at \in Inner
  <2>1. ASSUME NEW k \in 1..(Len(t) - 1)
        PROVE  t[k].at \in Inner
    <3>1. CASE k = 1
      BY <3>1, <1>1
    <3>2. CASE k # 1
      <4>1. k \in 1..Len(t) /\ k - 1 \in 1..(Len(s) - 1)
        BY <3>2, <1>1
      <4>2. QED
        BY <3>2, <4>1, <1>2 DEF Shape
    <3>3. QED
      BY <3>1, <3>2
  <2>2. QED
    BY <2>1
<1>6. Shape(t)
  BY <1>1, <1>3, <1>4, <1>5 DEF Shape
<1>7. QED
  BY <1>3, <1>6 DEF t

\* Nothing is above a step of the request but what the step called.
LEMMA ShapeBottom ==
    ASSUME NEW f \in Frames, FrameOK(f), f.at \in Bottom
    PROVE  /\ Shape(<<f>>) /\ Base(<<f>>) = f.at /\ <<f>> \o <<>> = <<f>>
<1>1. <<f>> \in Seq(Frames) /\ Len(<<f>>) = 1 /\ <<f>>[1] = f /\ <<f>> # <<>>
  OBVIOUS
<1>2. <<f>> \o <<>> = <<f>>
  BY <1>1, ConcatEmptySeq
<1>3. QED
  BY <1>1, <1>2 DEF Shape, Base

\* What is being freed by a stack with one more frame.
LEMMA FreeingPush ==
    ASSUME NEW o, NEW f \in Frames, NEW s \in Seq(Frames)
    PROVE  IsFreeing(<<f>> \o s, o) <=> (f.at = "freeing" /\ f.o = o) \/ IsFreeing(s, o)
<1> DEFINE t == <<f>> \o s
<1>1. /\ DOMAIN s = 1..Len(s) /\ DOMAIN t = 1..(Len(s) + 1) /\ t[1] = f /\ Len(s) \in Nat
      /\ \A k \in 1..Len(s) : t[k + 1] = s[k]
  BY StackPush
<1> HIDE DEF t
<1>2. IsFreeing(s, o) => IsFreeing(t, o)
  <2>1. \A k \in DOMAIN s : k + 1 \in DOMAIN t /\ t[k + 1] = s[k]
    BY <1>1
  <2>2. QED
    BY <2>1 DEF IsFreeing
<1>3. f.at = "freeing" /\ f.o = o => IsFreeing(t, o)
  BY <1>1 DEF IsFreeing
<1>4. ASSUME NEW k \in DOMAIN t, t[k].at = "freeing", t[k].o = o, k # 1
      PROVE  IsFreeing(s, o)
  <2>1. k - 1 \in 1..Len(s) /\ (k - 1) + 1 = k
    BY <1>1, <1>4
  <2>2. t[k] = s[k - 1]
    BY <1>1, <2>1
  <2>3. QED
    BY <1>1, <1>4, <2>1, <2>2 DEF IsFreeing
<1>5. QED
  BY <1>1, <1>2, <1>3, <1>4 DEF t, IsFreeing

\* A frame that frees an object holds one zval of it at least.
LEMMA FreeingHolds ==
    ASSUME NEW o \in Objs, NEW s \in Seq(Frames), IsFreeing(s, o)
    PROVE  HeldBy(s, o) >= 1
<1>1. PICK k \in DOMAIN s : s[k].at = "freeing" /\ s[k].o = o
  BY DEF IsFreeing
<1>2. k \in 1..Len(s) /\ s[k] \in Frames
  BY LenProperties, ElementOfSeq
<1>3. Holds(s[k], o) >= 1
  BY <1>1 DEF Holds
<1>4. QED
  BY <1>2, <1>3, HeldElement

\* Before the end every stack has a frame with a zend_try; the innermost one catches.
LEMMA Catching ==
    ASSUME NEW s, Shape(s), Base(s) # "end"
    PROVE  LET k == Catcher(s) IN /\ k \in 1..Len(s) /\ s[k].at \in Catches
                                  /\ \A j \in 1..(k - 1) : s[j].at \notin Catches
<1> DEFINE S == {k \in 1..Len(s) : s[k].at \in Catches}
           Good(k) == s[k].at \in Catches /\ \A j \in 1..(k - 1) : s[j].at \notin Catches
<1>0. s \in Seq(Frames) /\ s # <<>>
  BY DEF Shape
<1>1. Len(s) \in Nat /\ Len(s) >= 1 /\ DOMAIN s = 1..Len(s)
  BY <1>0, StackTop
<1>2. Len(s) \in S
  <2>1. Bottom \ {"end"} \subseteq Catches
    BY DEF Bottom, Labels, Inner, Catches
  <2>2. QED
    BY <1>1, <2>1 DEF Shape, Base
<1>3. PICK k \in S : \A j \in S : k <= j
  <2>1. S \in SUBSET Nat /\ S # {}
    BY <1>1, <1>2
  <2> HIDE DEF S
  <2>2. QED
    BY <2>1, First
<1>4. k \in DOMAIN s /\ Good(k)
  <2>1. \A j \in 1..(k - 1) : j \in 1..Len(s) /\ ~ (k <= j)
    BY <1>1
  <2>2. QED
    BY <1>1, <1>3, <2>1
<1>5. Catcher(s) \in DOMAIN s /\ Good(Catcher(s))
  BY <1>4 DEF Catcher
<1>6. QED
  BY <1>1, <1>5

\* The frame that goes on after the longjmp holds no more than it did before.
LEMMA CaughtFrame ==
    ASSUME NEW f \in Frames, FrameOK(f), f.at \in Catches
    PROVE  /\ Caught(f) \in Frames /\ FrameOK(Caught(f))
           /\ \A o \in Objs : Holds(Caught(f), o) <= Holds(f, o)
           /\ f.at \in Inner => /\ Caught(f).at = f.at /\ Caught(f).o = f.o /\ Caught(f).i = f.i
           /\ f.at \in Bottom => /\ Caught(f).at \in Bottom \ {"main", "called", "free_one"}
           /\ f.at \in {"free", "free_one"} => Caught(f).at = "end"
<1>1. /\ f = [at |-> f.at, o |-> f.o, i |-> f.i, gen |-> f.gen, fail |-> f.fail, todo |-> f.todo]
      /\ f.at \in Labels /\ f.o \in Objs \cup {0} /\ f.i \in 0..(MaxObjs + 1) /\ f.gen \in Nat
      /\ f.fail \in BOOLEAN /\ f.todo \in SUBSET Objs
  BY DEF Frames
<1>2. 0 \in 0..(MaxObjs + 1) /\ 1 \in 0..(MaxObjs + 1) /\ 0 \notin Objs
  BY Constants
<1>3. CASE f.at = "dtor_done"
  <2>1. Caught(f) = [f EXCEPT !.fail = TRUE]
    BY <1>3 DEF Caught
  <2>2. Caught(f) = [at |-> f.at, o |-> f.o, i |-> f.i, gen |-> f.gen, fail |-> TRUE, todo |-> f.todo]
    BY <1>1, <2>1
  <2>3. /\ Caught(f).o = f.o /\ Caught(f).at = f.at /\ Caught(f).i = f.i
        /\ Caught(f).todo = f.todo
    BY <2>2
  <2>4. Caught(f) \in Frames /\ FrameOK(Caught(f))
    BY <1>1, <1>3, <2>2 DEF Frames, FrameOK, Inner
  <2>5. \A o \in Objs : Holds(Caught(f), o) = Holds(f, o)
    BY <2>3 DEF Holds
  <2>6. QED
    BY <1>3, <2>3, <2>4, <2>5, HoldsType DEF Inner, Bottom
<1>4. CASE f.at = "freeing"
  <2>1. Caught(f) = [f EXCEPT !.fail = TRUE, !.todo = {}]
    BY <1>4 DEF Caught
  <2>2. Caught(f) = [at |-> f.at, o |-> f.o, i |-> f.i, gen |-> f.gen, fail |-> TRUE, todo |-> {}]
    BY <1>1, <2>1
  <2>3. Caught(f) \in Frames /\ FrameOK(Caught(f))
    BY <1>1, <1>4, <2>2 DEF Frames, FrameOK, Inner
  <2>4. \A o \in Objs : Holds(Caught(f), o) <= Holds(f, o)
    <3>1. Caught(f).o = f.o /\ Caught(f).at = f.at /\ Caught(f).todo = {}
      BY <2>2
    <3>2. QED
      BY <3>1 DEF Holds
  <2>5. Caught(f).o = f.o /\ Caught(f).at = f.at /\ Caught(f).i = f.i
    BY <2>2
  <2>6. QED
    BY <1>4, <2>3, <2>4, <2>5 DEF Inner, Bottom
<1>5. CASE f.at = "main"
  <2>1. Caught(f) = Frame("symbols", 0, 0)
    BY <1>5 DEF Caught
  <2>2. QED
    BY <1>1, <1>2, <1>5, <2>1 DEF Frames, Frame, FrameOK, Holds, Inner, Bottom, Labels
<1>6. CASE f.at \in {"symbols", "called"}
  <2>1. Caught(f) = Frame("tables", 0, 0)
    BY <1>6 DEF Caught
  <2>2. QED
    BY <1>1, <1>2, <1>6, <2>1 DEF Frames, Frame, FrameOK, Holds, Inner, Bottom, Labels
<1>7. CASE f.at = "tables"
  <2>1. Caught(f) = Frame("free", 0, 1)
    BY <1>7 DEF Caught
  <2>2. QED
    BY <1>1, <1>2, <1>7, <2>1 DEF Frames, Frame, FrameOK, Holds, Inner, Bottom, Labels
<1>8. CASE f.at \in {"free", "free_one"}
  <2>1. Caught(f) = Frame("end", 0, 0)
    BY <1>8 DEF Caught
  <2>2. QED
    BY <1>1, <1>2, <1>8, <2>1 DEF Frames, Frame, FrameOK, Holds, Inner, Bottom, Labels
<1>9. QED
  BY <1>3, <1>4, <1>5, <1>6, <1>7, <1>8 DEF Catches

\* What a stack returns to, some frames down.
LEMMA Below ==
    ASSUME NEW s \in Seq(Frames), NEW k \in 1..Len(s)
    PROVE  /\ SubSeq(s, k + 1, Len(s)) \in Seq(Frames)
           /\ Len(SubSeq(s, k + 1, Len(s))) = Len(s) - k
           /\ DOMAIN SubSeq(s, k + 1, Len(s)) = 1..(Len(s) - k)
           /\ \A j \in 1..(Len(s) - k) : SubSeq(s, k + 1, Len(s))[j] = s[k + j]
<1>1. Len(s) \in Nat /\ \A j \in 1..Len(s) : s[j] \in Frames
  BY LenProperties, ElementOfSeq
<1>2. k + 1 \in Int /\ Len(s) \in Int /\ \A j \in (k + 1)..Len(s) : s[j] \in Frames
  BY <1>1
<1>3. /\ SubSeq(s, k + 1, Len(s)) \in Seq(Frames)
      /\ Len(SubSeq(s, k + 1, Len(s))) = IF k + 1 <= Len(s) THEN Len(s) - (k + 1) + 1 ELSE 0
      /\ \A i \in 1..Len(s) - (k + 1) + 1 : SubSeq(s, k + 1, Len(s))[i] = s[k + 1 + i - 1]
  BY <1>2, SubSeqProperties
<1>4. /\ Len(s) - (k + 1) + 1 = Len(s) - k
      /\ (IF k + 1 <= Len(s) THEN Len(s) - k ELSE 0) = Len(s) - k
      /\ \A i \in 1..(Len(s) - k) : k + 1 + i - 1 = k + i
  BY <1>1
<1>5. DOMAIN SubSeq(s, k + 1, Len(s)) = 1..Len(SubSeq(s, k + 1, Len(s)))
  BY <1>3, LenProperties
<1>6. QED
  BY <1>3, <1>4, <1>5

\* zend_bailout: the frames above the catching one are gone, and what they held is lost.
\* None of them was freeing an object.
LEMMA Unwinding ==
    ASSUME NEW s, Shape(s), Base(s) # "end", NEW o \in Objs
    PROVE  LET k == Catcher(s)
               u == SubSeq(s, 1, k)
               r == SubSeq(s, k + 1, Len(s)) IN
           /\ u \in Seq(Frames) /\ r \in Seq(Frames)
           /\ HeldBy(s, o) = HeldBy(u, o) + HeldBy(r, o)
           /\ HeldBy(u, o) \in Nat /\ HeldBy(r, o) \in Nat
           /\ HeldBy(u, o) >= Holds(s[k], o)
           /\ IsFreeing(s, o) <=> (s[k].at = "freeing" /\ s[k].o = o) \/ IsFreeing(r, o)
<1>0. s \in Seq(Frames) /\ s # <<>>
  BY DEF Shape
<1>1. Len(s) \in Nat /\ Len(s) >= 1 /\ DOMAIN s = 1..Len(s) /\ \A j \in 1..Len(s) : s[j] \in Frames
  BY <1>0, StackTop, ElementOfSeq
<1>2. PICK k \in 1..Len(s) : k = Catcher(s) /\ \A j \in 1..(k - 1) : s[j].at \notin Catches
  BY Catching
<1> DEFINE u == SubSeq(s, 1, k)
           r == SubSeq(s, k + 1, Len(s))
<1>3. /\ u \in Seq(Frames) /\ Len(u) = k /\ \A j \in 1..k : u[j] = s[j]
  <2>1. 1 \in Int /\ k \in Int /\ \A j \in 1..k : s[j] \in Frames
    BY <1>1, <1>2
  <2>2. /\ SubSeq(s, 1, k) \in Seq(Frames)
        /\ Len(SubSeq(s, 1, k)) = IF 1 <= k THEN k - 1 + 1 ELSE 0
        /\ \A i \in 1..k - 1 + 1 : SubSeq(s, 1, k)[i] = s[1 + i - 1]
    BY <2>1, SubSeqProperties
  <2>3. 1 <= k /\ k - 1 + 1 = k /\ \A i \in 1..k : 1 + i - 1 = i
    BY <1>2
  <2>4. QED
    BY <2>2, <2>3
<1>4. /\ r \in Seq(Frames) /\ Len(r) = Len(s) - k /\ DOMAIN r = 1..(Len(s) - k)
      /\ \A j \in 1..(Len(s) - k) : r[j] = s[k + j]
  BY <1>0, Below
<1>5. s = u \o r
  <2>1. 1 \in 1..Len(s) + 1 /\ k \in 1 - 1..Len(s) /\ Len(s) \in k..Len(s)
    BY <1>1, <1>2
  <2>2. SubSeq(s, 1, k) \o SubSeq(s, k + 1, Len(s)) = SubSeq(s, 1, Len(s))
    BY <1>0, <2>1, ConcatAdjacentSubSeq
  <2>3. SubSeq(s, 1, Len(s)) = s
    BY <1>0, SubSeqFull
  <2>4. QED
    BY <2>2, <2>3
<1>6. k \in 1..Len(u) /\ u[k] = s[k]
  BY <1>2, <1>3
<1> HIDE DEF u, r
<1>7. /\ HeldBy(s, o) = HeldBy(u, o) + HeldBy(r, o)
      /\ HeldBy(u, o) \in Nat /\ HeldBy(r, o) \in Nat
      /\ HeldBy(u, o) >= Holds(s[k], o)
  BY <1>3, <1>4, <1>5, <1>6, HeldConcat, HeldElement
<1>8. IsFreeing(r, o) => IsFreeing(s, o)
  <2>1. \A j \in DOMAIN r : k + j \in DOMAIN s /\ r[j] = s[k + j]
    BY <1>1, <1>2, <1>4, <1>6
  <2>2. QED
    BY <2>1 DEF IsFreeing
<1>9. ASSUME NEW j \in DOMAIN s, s[j].at = "freeing", s[j].o = o, j # k
      PROVE  IsFreeing(r, o)
  <2>1. j > k
    BY <1>1, <1>2, <1>9 DEF Catches
  <2>2. j - k \in 1..(Len(s) - k) /\ k + (j - k) = j
    BY <2>1, <1>1, <1>2
  <2>3. r[j - k] = s[j]
    BY <2>2, <1>4
  <2>4. QED
    BY <1>4, <1>9, <2>2, <2>3 DEF IsFreeing
<1>10. IsFreeing(s, o) <=> (s[k].at = "freeing" /\ s[k].o = o) \/ IsFreeing(r, o)
  BY <1>1, <1>2, <1>8, <1>9 DEF IsFreeing
<1>11. QED
  BY <1>2, <1>3, <1>4, <1>7, <1>10 DEF u, r

LEMMA Bailing ==
    ASSUME NEW s, Shape(s), Base(s) # "end", NEW st, NEW fatal \in BOOLEAN,
           lost \in [Objs -> Nat], bailed \in BOOLEAN, Bailout(s, st, fatal)
    PROVE  /\ \E t : /\ stack' = t /\ Shape(t)
                     /\ Base(s) \in FreeingBases => Base(t) \in FreeingBases
                     /\ \A o \in Objs : /\ IsFreeing(t, o) <=> IsFreeing(s, o)
                                        /\ HeldBy(t, o) + lost'[o] = HeldBy(s, o) + lost[o]
                     /\ \A j \in DOMAIN t : t[j].at \in Relying =>
                                                \E i \in DOMAIN s : SameRole(t[j], s[i])
           /\ lost' \in [Objs -> Nat] /\ bailed' \in BOOLEAN
           /\ store' = st \/ store' = MarkDestructed(st)
<1>0. s \in Seq(Frames) /\ s # <<>>
  BY DEF Shape
<1>1. Len(s) \in Nat /\ Len(s) >= 1 /\ DOMAIN s = 1..Len(s) /\ \A j \in 1..Len(s) : s[j] \in Frames
  BY <1>0, StackTop, ElementOfSeq
<1>2. PICK k \in 1..Len(s) : k = Catcher(s) /\ s[k].at \in Catches
  BY Catching
<1> DEFINE c == Caught(s[k])
           u == SubSeq(s, 1, k)
           r == SubSeq(s, k + 1, Len(s))
           t == <<c>> \o r
<1>a. /\ stack' = t
      /\ lost' = [o \in Objs |-> lost[o] + HeldBy(u, o) - HeldBy(<<c>>, o)]
      /\ store' = st \/ store' = MarkDestructed(st)
      /\ bailed' = (bailed \/ fatal \/ s[k].at # "main")
  BY <1>2 DEF Bailout
<1>3. \A o \in Objs :
      /\ HeldBy(s, o) = HeldBy(u, o) + HeldBy(r, o)
      /\ HeldBy(u, o) \in Nat /\ HeldBy(r, o) \in Nat
      /\ HeldBy(u, o) >= Holds(s[k], o)
      /\ IsFreeing(s, o) <=> (s[k].at = "freeing" /\ s[k].o = o) \/ IsFreeing(r, o)
  BY <1>2, Unwinding
<1>4. /\ s[k] \in Frames /\ FrameOK(s[k])
      /\ k < Len(s) => s[k].at \in Inner
      /\ k = Len(s) => s[k].at \in Bottom /\ s[k].at = Base(s)
  <2>1. k < Len(s) => k \in 1..(Len(s) - 1)
    BY <1>1, <1>2
  <2>2. QED
    BY <1>1, <1>2, <2>1 DEF Shape, Base
<1>5. /\ c \in Frames /\ FrameOK(c)
      /\ \A o \in Objs : Holds(c, o) <= Holds(s[k], o)
      /\ s[k].at \in Inner => c.at = s[k].at /\ c.o = s[k].o /\ c.i = s[k].i
      /\ s[k].at \in Bottom => c.at \in Bottom \ {"main", "called", "free_one"}
      /\ s[k].at \in {"free", "free_one"} => c.at = "end"
  BY <1>2, <1>4, CaughtFrame
<1>6. /\ r \in Seq(Frames) /\ Len(r) = Len(s) - k
      /\ \A j \in 1..(Len(s) - k) : r[j] = s[k + j]
  BY <1>0, Below
<1> HIDE DEF c, u, r
\* What is left has the shape of a stack.
<1>7. Shape(t) /\ (Base(s) \in FreeingBases => Base(t) \in FreeingBases)
  <2>1. CASE k = Len(s)
    <3>0. Len(r) = 0
      BY <2>1, <1>1, <1>6
    <3>1. r = <<>>
      BY <1>6, <3>0, EmptyStack, Zenon
    <3>2. c.at \in Bottom \ {"main", "called", "free_one"} /\ s[k].at = Base(s)
      BY <2>1, <1>4, <1>5
    <3>3. Shape(<<c>>) /\ Base(<<c>>) = c.at /\ <<c>> \o <<>> = <<c>>
      BY <1>5, <3>2, ShapeBottom
    <3>4. Base(s) \in FreeingBases => c.at = "end"
      BY <1>5, <3>2, <1>2 DEF FreeingBases, Catches
    <3>5. QED
      BY <3>1, <3>3, <3>4 DEF FreeingBases
  <2>2. CASE k # Len(s)
    <3>1. Len(r) # 0 /\ Len(r) \in Nat /\ Len(s) > 1 /\ k < Len(s)
      BY <2>2, <1>1, <1>2, <1>6
    <3>2. r # <<>>
      BY <1>6, <3>1, EmptyStack, Zenon
    <3>a. /\ \A j \in 1..Len(s) : FrameOK(s[j])
          /\ \A j \in 1..(Len(s) - 1) : s[j].at \in Inner
          /\ Base(s) \in Bottom /\ Base(s) \notin {"free", "end"}
      BY <3>1 DEF Shape
    <3>3. Base(r) = Base(s)
      <4>1. Len(s) - k \in 1..(Len(s) - k) /\ k + (Len(s) - k) = Len(s)
        BY <2>2, <1>1, <1>2
      <4>2. QED
        BY <4>1, <1>6 DEF Base
    <3>4. ASSUME NEW j \in 1..Len(r)
          PROVE  FrameOK(r[j])
      <4>1. k + j \in 1..Len(s) /\ r[j] = s[k + j]
        BY <1>1, <1>2, <1>6
      <4>2. QED
        BY <4>1, <3>a
    <3>5. ASSUME NEW j \in 1..(Len(r) - 1)
          PROVE  r[j].at \in Inner
      <4>1. k + j \in 1..(Len(s) - 1) /\ r[j] = s[k + j]
        BY <1>1, <1>2, <1>6
      <4>2. QED
        BY <4>1, <3>a
    <3>6. Shape(r)
      BY <1>6, <3>2, <3>3, <3>a, <3>4, <3>5 DEF Shape
    <3>7. c.at \in Inner
      BY <3>1, <1>4, <1>5
    <3>8. Shape(t) /\ Base(t) = Base(s)
      BY <1>5, <3>3, <3>a, <3>6, <3>7, ShapePush
    <3>9. QED
      BY <3>8
  <2>3. QED
    BY <2>1, <2>2
<1>8. ASSUME NEW o \in Objs
      PROVE  /\ IsFreeing(t, o) <=> IsFreeing(s, o)
             /\ HeldBy(t, o) + lost'[o] = HeldBy(s, o) + lost[o]
             /\ lost[o] + HeldBy(u, o) - HeldBy(<<c>>, o) \in Nat
  <2>1. IsFreeing(t, o) <=> (c.at = "freeing" /\ c.o = o) \/ IsFreeing(r, o)
    BY <1>5, <1>6, FreeingPush
  <2>2. c.at = "freeing" <=> s[k].at = "freeing"
    BY <1>1, <1>2, <1>4, <1>5 DEF Inner, Bottom
  <2>3. s[k].at = "freeing" => c.o = s[k].o
    BY <1>5 DEF Inner
  <2>4. /\ HeldBy(t, o) = Holds(c, o) + HeldBy(r, o) /\ Holds(c, o) \in {0, 1, 2}
        /\ HeldBy(<<c>>, o) = Holds(c, o)
    BY <1>5, <1>6, HeldPush, HeldOne
  <2>5. lost'[o] = lost[o] + HeldBy(u, o) - HeldBy(<<c>>, o) /\ lost[o] \in Nat
    BY <1>a
  <2>6. Holds(c, o) <= Holds(s[k], o) /\ Holds(s[k], o) \in {0, 1, 2}
    BY <1>4, <1>5, HoldsType
  <2>7. /\ HeldBy(t, o) + lost'[o] = HeldBy(s, o) + lost[o]
        /\ lost[o] + HeldBy(u, o) - HeldBy(<<c>>, o) \in Nat
    <3>1. /\ HeldBy(s, o) = HeldBy(u, o) + HeldBy(r, o)
          /\ HeldBy(u, o) \in Nat /\ HeldBy(r, o) \in Nat /\ HeldBy(u, o) >= Holds(s[k], o)
      BY <1>3
    <3>2. lost[o] + HeldBy(u, o) - HeldBy(<<c>>, o) \in Nat
      BY <2>4, <2>5, <2>6, <3>1
    <3>3. HeldBy(t, o) + (lost[o] + HeldBy(u, o) - HeldBy(<<c>>, o)) = HeldBy(s, o) + lost[o]
      BY <2>4, <2>5, <3>1
    <3>4. QED
      BY <2>5, <3>2, <3>3
  <2>8. IsFreeing(s, o) <=> (s[k].at = "freeing" /\ s[k].o = o) \/ IsFreeing(r, o)
    BY <1>3
  <2>9. IsFreeing(t, o) <=> IsFreeing(s, o)
    BY <2>1, <2>2, <2>3, <2>8
  <2>10. QED
    BY <2>7, <2>9
<1>9. ASSUME NEW j \in DOMAIN t, t[j].at \in Relying
      PROVE  \E i \in DOMAIN s : SameRole(t[j], s[i])
  <2>1. /\ DOMAIN t = 1..(Len(r) + 1) /\ t[1] = c
        /\ \A i \in 1..Len(r) : t[i + 1] = r[i]
    BY <1>5, <1>6, StackPush
  <2>2. CASE j = 1
    <3>1. s[k].at \in Inner
      BY <2>1, <2>2, <1>1, <1>2, <1>4, <1>5, <1>9 DEF Bottom, Inner, Relying
    <3>2. SameRole(c, s[k])
      BY <3>1, <1>5 DEF SameRole
    <3>3. QED
      BY <3>2, <2>1, <2>2, <1>1, <1>2
  <2>3. CASE j # 1
    <3>1. j - 1 \in 1..Len(r) /\ (j - 1) + 1 = j /\ k + (j - 1) \in DOMAIN s
      BY <2>1, <2>3, <1>1, <1>2, <1>6
    <3>2. t[j] = s[k + (j - 1)]
      BY <3>1, <2>1, <1>6
    <3>3. QED
      BY <3>1, <3>2 DEF SameRole
  <2>4. QED
    BY <2>2, <2>3
<1>10. lost' \in [Objs -> Nat]
  BY <1>a, <1>8
<1>11. QED
  BY <1>a, <1>7, <1>8, <1>9, <1>10
-----------------------------------------------------------------------------
\* The zvals of an object.
LEMMA RefsParts ==
    ASSUME Types, NEW o \in Objs
    PROVE  /\ IsFiniteSet(Stored(o)) /\ Cardinality(Stored(o)) \in Nat
           /\ vars[o] \in Nat /\ HeldBy(stack, o) \in Nat /\ lost[o] \in Nat
           /\ Refs(o) = vars[o] + Cardinality(Stored(o)) + HeldBy(stack, o) + lost[o]
           /\ Refs(o) \in Nat
<1>1. IsFiniteSet(Stored(o)) /\ Cardinality(Stored(o)) \in Nat
  <2>1. Stored(o) \in SUBSET Objs
    BY DEF Stored
  <2>2. QED
    BY <2>1, Constants, FS_Subset, FS_CardinalityType
<1>2. vars[o] \in Nat /\ lost[o] \in Nat
  BY Constants DEF Types
<1>3. HeldBy(stack, o) \in Nat
  <2>1. stack \in Seq(Frames)
    BY DEF Types
  <2>2. QED
    BY <2>1, HeldConcat
<1>4. Refs(o) = vars[o] + Cardinality(Stored(o)) + HeldBy(stack, o) + lost[o]
  BY DEF Refs, Owners, Stored
<1>5. QED
  BY <1>1, <1>2, <1>3, <1>4

\* The same after a step.
LEMMA RefsPartsNext ==
    ASSUME Types', NEW o \in Objs
    PROVE  /\ IsFiniteSet(Stored(o)') /\ Cardinality(Stored(o)') \in Nat
           /\ vars'[o] \in Nat /\ HeldBy(stack', o) \in Nat /\ lost'[o] \in Nat
           /\ Refs(o)' = vars'[o] + Cardinality(Stored(o)') + HeldBy(stack', o) + lost'[o]
           /\ Refs(o)' \in Nat
<1>1. IsFiniteSet(Stored(o)') /\ Cardinality(Stored(o)') \in Nat
  <2>1. Stored(o)' \in SUBSET Objs
    BY DEF Stored
  <2>2. QED
    BY <2>1, Constants, FS_Subset, FS_CardinalityType
<1>2. vars'[o] \in Nat /\ lost'[o] \in Nat
  BY Constants DEF Types
<1>3. HeldBy(stack', o) \in Nat
  <2>1. stack' \in Seq(Frames)
    BY DEF Types
  <2>2. QED
    BY <2>1, HeldConcat
<1>4. Refs(o)' = vars'[o] + Cardinality(Stored(o)') + HeldBy(stack', o) + lost'[o]
  BY DEF Refs, Owners, Stored
<1>5. QED
  BY <1>1, <1>2, <1>3, <1>4

\* What the invariants say of an object that somebody has a zval of.
LEMMA Referred ==
    ASSUME Sound, NEW o \in Objs, Refs(o) > 0
    PROVE  /\ o \in Created /\ Keeps(o)
           /\ handle[o] \in Handles /\ handle[o] < top
           /\ store[handle[o]].refcount = Refs(o)
           /\ ~ FreeingAll => store[handle[o]].valid
<1>1. o \in Created
  BY DEF Sound, CreatedInv
<1>2. Keeps(o) /\ handle[o] < top /\ store[handle[o]].refcount = Refs(o)
  BY <1>1 DEF Sound, CountInv
<1>3. handle[o] \in Handles
  BY <1>1 DEF Sound, Types, Created
<1>4. ~ FreeingAll => store[handle[o]].valid
  BY <1>1, <1>2 DEF Sound, ValidInv
<1>5. QED
  BY <1>1, <1>2, <1>3, <1>4

\* Two objects that keep their buckets have different ones.
LEMMA OwnBuckets ==
    \A o, p \in Objs : Keeps(o) /\ Keeps(p) /\ handle[o] = handle[p] => o = p
BY DEF Keeps

\* Most steps change neither the buckets' objects nor what is being freed: they
\* preserve the invariant if they count what they do to the references.
LEMMA SoundStep ==
    ASSUME Sound, Types', NEW t, stack' = t, Shape(t),
           Base(stack) \in FreeingBases => Base(t) \in FreeingBases,
           \A k \in DOMAIN t : \/ Relies(t[k])'
                               \/ \E j \in DOMAIN stack : SameRole(t[k], stack[j]),
           UNCHANGED <<top, freeList, handle, freed>>,
           \A h \in Handles : /\ store'[h].valid = store[h].valid /\ store'[h].obj = store[h].obj
                              /\ store[h].called => store'[h].called
                              /\ h >= top => store'[h] = store[h],
           \A o \in Objs : /\ Refs(o) = 0 =>
                                  Refs(o)' = 0 \/ (o \in Created /\ Keeps(o) /\ store[handle[o]].valid)
                           /\ IsFreeing(t, o) <=> Freeing(o)
                           /\ Freeing(o) => Refs(o)' = Refs(o)
                           /\ destructed'[o] # destructed[o] =>
                                  o \in Created /\ store'[handle[o]].called,
           \A o \in Created : Keeps(o) => store'[handle[o]].refcount =
                                              store[handle[o]].refcount + Refs(o)' - Refs(o),
           \A h \in buffered' : h \in buffered \/ /\ store[h].valid
                                                  /\ \A o \in Created : Freeing(o) => handle[o] # h
    PROVE  Sound'
<1>0. /\ Types /\ Shape(stack) /\ CallsInv /\ CreatedInv /\ BucketInv
      /\ CountInv /\ ValidInv /\ FreeingInv /\ FreeInv /\ NoDanglingRoot
  BY DEF Sound
<1>1. /\ Created' = Created /\ Created \subseteq Objs
      /\ \A o \in Created : handle[o] \in Handles
  BY <1>0 DEF Created, Types
<1>2. \A o \in Created : Keeps(o)' <=> Keeps(o)
  BY <1>1 DEF Keeps
<1>3. \A o \in Objs : Freeing(o)' <=> Freeing(o)
  BY DEF Freeing
<1>4. FreeingAll => FreeingAll'
  BY DEF FreeingAll, Base, FreeingBases
<1>5. \A o \in Objs : Refs(o) \in Nat /\ Refs(o)' \in Nat
  BY <1>0, RefsParts, RefsPartsNext
<1>6. CallsInv'
  <2>1. ASSUME NEW f, NEW g, SameRole(f, g), Relies(g)
        PROVE  Relies(f)'
    BY <2>1, <1>1, <1>2 DEF Relies, SameRole
  <2>2. QED
    BY <1>0, <2>1 DEF CallsInv
<1>7. CreatedInv'
  <2>1. \A o \in Objs \ Created : Refs(o)' = 0 /\ freed'[o] = 0 /\ destructed'[o] = 0
    BY <1>0 DEF CreatedInv
  <2>2. QED
    BY <1>0, <1>1, <2>1 DEF CreatedInv
<1>8. BucketInv'
  <2>1. \A h \in Handles : h < top \/ h >= top
    BY <1>0, Constants DEF Types
  <2>2. QED
    BY <1>0, <1>1, <2>1 DEF BucketInv
<1>9. CountInv'
  BY <1>0, <1>1, <1>2, <1>5 DEF CountInv
<1>10. ValidInv'
  BY <1>0, <1>1, <1>2, <1>3, <1>4 DEF ValidInv
<1>11. FreeingInv'
  <2>1. ASSUME NEW o \in Created, Freeing(o)
        PROVE  handle[o] \notin buffered'
    BY <2>1, <1>0 DEF FreeingInv
  <2>2. QED
    BY <1>0, <1>1, <1>2, <1>3, <2>1 DEF FreeingInv
<1>12. FreeInv'
  <2>1. \A k \in DOMAIN freeList : freeList[k] \in Handles
    BY <1>0, LenProperties, ElementOfSeq DEF Types
  <2>2. FreeListSound'
    <3>1. \A k \in DOMAIN freeList : freeList[k] < top /\ ~ store'[freeList[k]].valid
      BY <1>0, <2>1 DEF FreeInv, FreeListSound
    <3>2. ~ FreeingAll' => \A h \in 1..(top - 1) : store'[h].valid \/ \E i \in DOMAIN freeList : freeList[i] = h
      <4>1. \A h \in 1..(top - 1) : h \in Handles
        BY <1>0, Constants DEF Types
      <4>2. QED
        BY <1>0, <1>4, <4>1 DEF FreeInv, FreeListSound
    <3>3. QED
      BY <1>0, <3>1, <3>2 DEF FreeInv, FreeListSound
  <2>3. ASSUME NEW k \in DOMAIN freeList
        PROVE  store'[freeList[k]].refcount = 0
    <3>1. PICK h \in Handles : /\ h = freeList[k] /\ h < top
                               /\ store[h].refcount = 0 /\ ~ store[h].valid
      BY <1>0, <2>1 DEF FreeInv, FreeListSound
    <3>2. PICK o \in Created : o = store[h].obj /\ handle[o] = h
      BY <1>0, <3>1 DEF BucketInv
    <3>3. Keeps(o)
      BY <3>2 DEF Keeps
    <3>4. Refs(o) = 0 /\ Refs(o)' = 0
      BY <1>0, <1>1, <3>1, <3>2, <3>3 DEF CountInv
    <3>5. QED
      BY <3>1, <3>2, <3>3, <3>4
  <2>4. QED
    BY <2>2, <2>3 DEF FreeInv
<1>13. NoDanglingRoot'
  BY <1>0 DEF NoDanglingRoot, Types
<1>14. QED
  BY <1>6, <1>7, <1>8, <1>9, <1>10, <1>11, <1>12, <1>13 DEF Sound
-----------------------------------------------------------------------------
\* The three ways a step changes the C stack: a call, a return, a jump of the request.
LEMMA Pushed ==
    ASSUME NEW s, Shape(s), Base(s) \notin {"free", "end"},
           NEW f \in Frames, FrameOK(f), f.at \in Inner
    PROVE  LET t == <<f>> \o s IN
           /\ Shape(t) /\ Base(t) = Base(s)
           /\ \A o \in Objs : /\ HeldBy(t, o) = Holds(f, o) + HeldBy(s, o)
                              /\ Holds(f, o) \in {0, 1, 2} /\ HeldBy(s, o) \in Nat
                              /\ IsFreeing(t, o) <=> (f.at = "freeing" /\ f.o = o) \/ IsFreeing(s, o)
           /\ \A k \in DOMAIN t : t[k] = f \/ \E j \in DOMAIN s : t[k] = s[j]
<1> DEFINE t == <<f>> \o s
<1>0. s \in Seq(Frames)
  BY DEF Shape
<1>1. Shape(t) /\ Base(t) = Base(s)
  BY ShapePush
<1>2. \A o \in Objs : /\ HeldBy(t, o) = Holds(f, o) + HeldBy(s, o)
                      /\ Holds(f, o) \in {0, 1, 2} /\ HeldBy(s, o) \in Nat
                      /\ IsFreeing(t, o) <=> (f.at = "freeing" /\ f.o = o) \/ IsFreeing(s, o)
  BY <1>0, HeldPush, FreeingPush
<1>3. /\ DOMAIN s = 1..Len(s) /\ DOMAIN t = 1..(Len(s) + 1) /\ t[1] = f /\ Len(s) \in Nat
      /\ \A k \in 1..Len(s) : t[k + 1] = s[k]
  BY <1>0, StackPush
<1> HIDE DEF t
<1>4. ASSUME NEW k \in DOMAIN t, t[k] # f
      PROVE  \E j \in DOMAIN s : t[k] = s[j]
  <2>1. k - 1 \in 1..Len(s) /\ (k - 1) + 1 = k
    BY <1>3, <1>4
  <2>2. t[k] = s[k - 1]
    BY <1>3, <2>1
  <2>3. QED
    BY <1>3, <2>1, <2>2
<1>5. QED
  BY <1>1, <1>2, <1>4 DEF t

\* A return.
LEMMA Popped ==
    ASSUME NEW s, Shape(s), s[1].at \in Inner
    PROVE  LET t == Tail(s) IN
           /\ s[1] \in Frames /\ FrameOK(s[1]) /\ s[1].o \in Objs
           /\ Shape(t) /\ Base(t) = Base(s) /\ Base(s) \notin {"free", "end"}
           /\ \A o \in Objs : /\ HeldBy(s, o) = Holds(s[1], o) + HeldBy(t, o)
                              /\ Holds(s[1], o) \in {0, 1, 2} /\ HeldBy(t, o) \in Nat
                              /\ IsFreeing(s, o) <=> (s[1].at = "freeing" /\ s[1].o = o) \/ IsFreeing(t, o)
           /\ \A k \in DOMAIN t : \E j \in DOMAIN s : t[k] = s[j]
<1> DEFINE t == Tail(s)
<1>0. s \in Seq(Frames) /\ s # <<>>
  BY DEF Shape
<1>1. /\ s[1] \in Frames /\ FrameOK(s[1])
      /\ Shape(t) /\ Base(t) = Base(s) /\ Base(s) \notin {"free", "end"}
  BY ShapeTop
<1>2. /\ t \in Seq(Frames) /\ s = <<s[1]>> \o t /\ Len(s) \in Nat
      /\ DOMAIN s = 1..Len(s) /\ DOMAIN t = 1..(Len(s) - 1)
      /\ \A k \in 1..(Len(s) - 1) : t[k] = s[k + 1]
  BY <1>0, StackTop
<1>3. \A o \in Objs : /\ HeldBy(<<s[1]>> \o t, o) = Holds(s[1], o) + HeldBy(t, o)
                      /\ Holds(s[1], o) \in {0, 1, 2} /\ HeldBy(t, o) \in Nat
                      /\ IsFreeing(<<s[1]>> \o t, o) <=> (s[1].at = "freeing" /\ s[1].o = o) \/ IsFreeing(t, o)
  BY <1>1, <1>2, HeldPush, FreeingPush
<1>4. \A k \in DOMAIN t : k + 1 \in DOMAIN s /\ t[k] = s[k + 1]
  BY <1>2
<1>5. \A k \in DOMAIN t : \E j \in DOMAIN s : t[k] = s[j]
  BY <1>4
<1>6. s[1].o \in Objs
  BY <1>1 DEF FrameOK
<1> HIDE DEF t
<1>7. QED
  BY <1>1, <1>2, <1>3, <1>5, <1>6 DEF t

\* The request goes on to its next step.
LEMMA Jumped ==
    ASSUME NEW s, Shape(s), s[1].at \in Bottom,
           NEW f \in Frames, FrameOK(f), f.at \in Bottom
    PROVE  LET t == <<f>> \o Tail(s) IN
           /\ t = <<f>> /\ Shape(t) /\ Base(t) = f.at
           /\ s[1] \in Frames /\ FrameOK(s[1]) /\ Base(s) = s[1].at
           /\ \A o \in Objs : /\ HeldBy(t, o) = Holds(f, o) /\ HeldBy(s, o) = Holds(s[1], o)
                              /\ Holds(f, o) \in {0, 1, 2} /\ Holds(s[1], o) \in {0, 1, 2}
                              /\ ~ IsFreeing(t, o) /\ ~ IsFreeing(s, o)
           /\ \A k \in DOMAIN t : t[k] = f
<1>1. /\ s \in Seq(Frames) /\ s # <<>> /\ s[1] \in Frames /\ FrameOK(s[1])
      /\ Tail(s) = <<>> /\ Base(s) = s[1].at
  BY ShapeTop
<1>2. Shape(<<f>>) /\ Base(<<f>>) = f.at /\ <<f>> \o <<>> = <<f>>
  BY ShapeBottom
<1>3. s = <<s[1]>>
  <2>1. s = <<s[1]>> \o Tail(s)
    BY <1>1, StackTop
  <2>2. <<s[1]>> \in Seq(Frames)
    BY <1>1
  <2>3. <<s[1]>> \o <<>> = <<s[1]>>
    BY <2>2, ConcatEmptySeq
  <2>4. QED
    BY <1>1, <2>1, <2>3
<1>4. \A g \in Frames : g.at \in Bottom => \A o \in Objs :
          HeldBy(<<g>>, o) = Holds(g, o) /\ Holds(g, o) \in {0, 1, 2} /\ ~ IsFreeing(<<g>>, o)
  <2>1. ASSUME NEW g \in Frames, g.at \in Bottom, NEW o \in Objs
        PROVE  HeldBy(<<g>>, o) = Holds(g, o) /\ Holds(g, o) \in {0, 1, 2} /\ ~ IsFreeing(<<g>>, o)
    <3>1. ~ IsFreeing(<<g>>, o)
      BY <2>1 DEF IsFreeing, Bottom, Inner
    <3>2. QED
      BY <3>1, HeldOne
  <2>2. QED
    BY <2>1
<1>5. \A o \in Objs : /\ HeldBy(<<f>>, o) = Holds(f, o) /\ Holds(f, o) \in {0, 1, 2}
                      /\ ~ IsFreeing(<<f>>, o)
  BY <1>4
<1>6. \A o \in Objs : /\ HeldBy(s, o) = Holds(s[1], o) /\ Holds(s[1], o) \in {0, 1, 2}
                      /\ ~ IsFreeing(s, o)
  BY <1>1, <1>3, <1>4
<1>7. \A k \in DOMAIN <<f>> : <<f>>[k] = f
  OBVIOUS
<1>8. QED
  BY <1>1, <1>2, <1>5, <1>6, <1>7

\* Two frames at once.
LEMMA TwoFrames ==
    ASSUME NEW f \in Frames, NEW g \in Frames, NEW s \in Seq(Frames)
    PROVE  <<f, g>> \o s = <<f>> \o (<<g>> \o s)
<1>1. <<f>> \in Seq(Frames) /\ <<g>> \in Seq(Frames)
  OBVIOUS
<1>2. Append(<<f>>, g) = <<f, g>>
  <2>1. /\ <<f, g>> \in Seq(Frames) /\ Len(<<f, g>>) = 2
        /\ <<f, g>>[1] = f /\ <<f, g>>[2] = g
    OBVIOUS
  <2>2. /\ Append(<<f>>, g) \in Seq(Frames) /\ Len(Append(<<f>>, g)) = 2
        /\ Append(<<f>>, g)[1] = f /\ Append(<<f>>, g)[2] = g
    <3>1. Len(<<f>>) = 1 /\ <<f>>[1] = f
      OBVIOUS
    <3>2. QED
      BY <1>1, <3>1, AppendProperties
  <2>3. \A i \in 1..2 : Append(<<f>>, g)[i] = <<f, g>>[i]
    BY <2>1, <2>2
  <2>4. QED
    BY <2>1, <2>2, <2>3, SeqEqual
<1>3. Append(<<f>>, g) = <<f>> \o <<g>>
  BY <1>1, AppendIsConcat
<1>4. (<<f>> \o <<g>>) \o s = <<f>> \o (<<g>> \o s)
  BY <1>1, ConcatAssociative
<1>5. QED
  BY <1>2, <1>3, <1>4

\* What a step does to the references of an object, when no property changes.
LEMMA RefsChange ==
    ASSUME Types, Types', UNCHANGED props, NEW o \in Objs
    PROVE  /\ Refs(o)' = Refs(o) + (vars'[o] - vars[o]) + (HeldBy(stack', o) - HeldBy(stack, o))
                                 + (lost'[o] - lost[o])
           /\ Refs(o) \in Nat /\ Refs(o)' \in Nat
           /\ vars[o] \in Nat /\ vars'[o] \in Nat /\ lost[o] \in Nat /\ lost'[o] \in Nat
           /\ HeldBy(stack, o) \in Nat /\ HeldBy(stack', o) \in Nat
<1>1. Cardinality(Stored(o)') = Cardinality(Stored(o))
  BY DEF Stored
<1>2. /\ Cardinality(Stored(o)) \in Nat
      /\ vars[o] \in Nat /\ HeldBy(stack, o) \in Nat /\ lost[o] \in Nat
      /\ Refs(o) = vars[o] + Cardinality(Stored(o)) + HeldBy(stack, o) + lost[o]
      /\ Refs(o) \in Nat
  BY RefsParts
<1>3. /\ vars'[o] \in Nat /\ HeldBy(stack', o) \in Nat /\ lost'[o] \in Nat
      /\ Refs(o)' = vars'[o] + Cardinality(Stored(o)') + HeldBy(stack', o) + lost'[o]
      /\ Refs(o)' \in Nat
  BY RefsPartsNext
<1>4. QED
  BY <1>1, <1>2, <1>3

\* Steps that only move the control.
LEMMA Quiet ==
    ASSUME Sound, NEW t, stack' = t, Shape(t),
           UNCHANGED <<store, top, size, freeList, gen, buffered, script, lost, destructed, freed, bailed>>,
           steps' \in 0..MaxSteps,
           Base(stack) \in FreeingBases => Base(t) \in FreeingBases,
           \A k \in DOMAIN t : \/ Relies(t[k])'
                               \/ \E j \in DOMAIN stack : SameRole(t[k], stack[j]),
           \A o \in Objs : HeldBy(t, o) = HeldBy(stack, o) /\ (IsFreeing(t, o) <=> Freeing(o))
    PROVE  Sound'
<1>1. Types /\ NoDanglingRoot /\ FreeingInv
  BY DEF Sound
<1>2. Types'
  BY <1>1 DEF Types, Shape, script
<1>3. \A o \in Objs : Refs(o)' = Refs(o) /\ Refs(o) \in Nat
  <2>1. ASSUME NEW o \in Objs
        PROVE  Refs(o)' = Refs(o) /\ Refs(o) \in Nat
    <3>1. /\ Refs(o)' = Refs(o) + (vars'[o] - vars[o]) + (HeldBy(stack', o) - HeldBy(stack, o))
                                 + (lost'[o] - lost[o])
          /\ Refs(o) \in Nat
          /\ vars[o] \in Nat /\ lost[o] \in Nat /\ HeldBy(stack, o) \in Nat
      BY <1>1, <1>2, RefsChange DEF script
    <3>2. vars'[o] = vars[o] /\ lost'[o] = lost[o] /\ HeldBy(stack', o) = HeldBy(stack, o)
      BY DEF script
    <3>3. QED
      BY <3>1, <3>2
  <2>2. QED
    BY <2>1
<1>4. \A o \in Created : store'[handle[o]].refcount = store[handle[o]].refcount + Refs(o)' - Refs(o)
  <2>1. ASSUME NEW o \in Created
        PROVE  store'[handle[o]].refcount = store[handle[o]].refcount + Refs(o)' - Refs(o)
    <3>1. o \in Objs /\ store[handle[o]].refcount \in Int
      BY <1>1 DEF Types, Created, Bucket
    <3>2. QED
      BY <3>1, <1>3
  <2>2. QED
    BY <2>1
<1>5. UNCHANGED <<top, freeList, handle, freed>>
  BY DEF script
<1>6. QED
  BY <1>2, <1>3, <1>4, <1>5, SoundStep
-----------------------------------------------------------------------------
\* A frame that a step makes, and the zvals it holds.
LEMMA FrameType ==
    ASSUME NEW label \in Labels, NEW o \in Objs \cup {0}, NEW i \in 0..(MaxObjs + 1),
           label \in Inner => o \in Objs,
           label \in {"called", "free", "free_one"} => i >= 1
    PROVE  /\ Frame(label, o, i) \in Frames /\ FrameOK(Frame(label, o, i))
           /\ Frame(label, o, i).at = label /\ Frame(label, o, i).o = o /\ Frame(label, o, i).i = i
           /\ \A p \in Objs : Holds(Frame(label, o, i), p) =
                  IF p = o /\ label \in {"del_ref", "dtor", "dtor_done", "freeing", "called"} THEN 1 ELSE 0
           /\ label \notin Relying => Relies(Frame(label, o, i))'
<1>1. Frame(label, o, i) = [at |-> label, o |-> o, i |-> i, gen |-> 0, fail |-> FALSE, todo |-> {}]
  BY DEF Frame
<1>2. PICK f : f = Frame(label, o, i)
  OBVIOUS
<1>3. /\ f.at = label /\ f.o = o /\ f.i = i /\ f.todo = {}
      /\ f \in Frames
  BY <1>1, <1>2 DEF Frames
<1>4. FrameOK(f)
  BY <1>3 DEF FrameOK
<1>5. \A p \in Objs : Holds(f, p) =
          IF p = o /\ label \in {"del_ref", "dtor", "dtor_done", "freeing", "called"} THEN 1 ELSE 0
  BY <1>3 DEF Holds
<1>6. label \notin Relying => Relies(f)'
  BY <1>3 DEF Relies, Relying
<1>7. QED
  BY <1>2, <1>3, <1>4, <1>5, <1>6

\* The steps of the request that only go on to the next one.
LEMMA JumpStep ==
    ASSUME Sound, stack[1].at \in Bottom,
           NEW f \in Frames, FrameOK(f), f.at \in Bottom, Replace(f), Relies(f)',
           stack[1].at \in FreeingBases => f.at \in FreeingBases,
           \A o \in Objs : Holds(f, o) = Holds(stack[1], o),
           UNCHANGED <<store, top, size, freeList, gen, buffered, script, steps, ghosts>>
    PROVE  Sound'
<1>0. Shape(stack) /\ steps \in 0..MaxSteps
  BY DEF Sound, Types
<1>1. PICK t : t = <<f>> \o Tail(stack)
  OBVIOUS
<1>2. /\ Shape(t) /\ Base(t) = f.at /\ Base(stack) = stack[1].at
      /\ \A o \in Objs : /\ HeldBy(t, o) = Holds(f, o) /\ HeldBy(stack, o) = Holds(stack[1], o)
                         /\ ~ IsFreeing(t, o) /\ ~ IsFreeing(stack, o)
      /\ \A k \in DOMAIN t : t[k] = f
  BY <1>0, <1>1, Jumped
<1>3. stack' = t
  BY <1>1 DEF Replace
<1>4. \A k \in DOMAIN t : Relies(t[k])'
  BY <1>2
<1>5. \A o \in Objs : HeldBy(t, o) = HeldBy(stack, o) /\ (IsFreeing(t, o) <=> Freeing(o))
  BY <1>2 DEF Freeing
<1>6. QED
  BY <1>0, <1>2, <1>3, <1>4, <1>5, Quiet DEF ghosts

\* A frame of the request that is not "free_one" and has no object holds nothing.
LEMMA HoldsNothing ==
    ASSUME NEW f \in Frames, FrameOK(f), f.at \in Bottom,
           f.at = "called" => f.o = 0, f.at = "free_one" => f.todo = {}
    PROVE  \A o \in Objs : Holds(f, o) = 0
<1>1. f.todo = {}
  BY DEF FrameOK, Bottom, Inner
<1>2. QED
  BY <1>1, Constants DEF Holds, Bottom, Inner

LEMMA StepEndScript ==
    ASSUME Sound, EndScript PROVE Sound'
<1>1. Shape(stack) /\ stack[1].at = "main"
  BY DEF Sound, EndScript, At
<1>2. stack[1] \in Frames /\ FrameOK(stack[1])
  BY <1>1, ShapeTop
<1>3. PICK f : f = Frame("symbols", 0, 0)
  OBVIOUS
<1>4. /\ f \in Frames /\ FrameOK(f) /\ f.at = "symbols" /\ f.o = 0 /\ Relies(f)'
  BY <1>3, FrameType, Constants DEF Labels, Inner, Relying
<1>5. stack[1].at \in Bottom /\ f.at \in Bottom
  BY <1>1, <1>4 DEF Bottom, Labels, Inner
<1>6. \A o \in Objs : Holds(f, o) = Holds(stack[1], o)
  BY <1>1, <1>2, <1>4, <1>5, HoldsNothing
<1>7. QED
  BY <1>1, <1>3, <1>4, <1>5, <1>6, JumpStep DEF EndScript, FreeingBases

LEMMA StepSymbolsDone ==
    ASSUME Sound, SymbolsDone PROVE Sound'
<1>1. Shape(stack) /\ stack[1].at = "symbols"
  BY DEF Sound, SymbolsDone, At
<1>2. stack[1] \in Frames /\ FrameOK(stack[1])
  BY <1>1, ShapeTop
<1>3. PICK f : f = Frame("called", 0, 1)
  OBVIOUS
<1>4. /\ f \in Frames /\ FrameOK(f) /\ f.at = "called" /\ f.o = 0
  BY <1>3, FrameType, Constants DEF Labels, Inner, Relying
<1>5. stack[1].at \in Bottom /\ f.at \in Bottom
  BY <1>1, <1>4 DEF Bottom, Labels, Inner
<1>6. \A o \in Objs : Holds(f, o) = Holds(stack[1], o)
  BY <1>1, <1>2, <1>4, <1>5, HoldsNothing
<1>7. Relies(f)'
  BY <1>4 DEF Relies
<1>8. QED
  BY <1>1, <1>3, <1>4, <1>5, <1>6, <1>7, JumpStep DEF SymbolsDone, FreeingBases

LEMMA StepAllCalled ==
    ASSUME Sound, AllCalled PROVE Sound'
<1>1. Shape(stack) /\ stack[1].at = "called" /\ stack[1].o = 0
  BY DEF Sound, AllCalled, At, This
<1>2. stack[1] \in Frames /\ FrameOK(stack[1])
  BY <1>1, ShapeTop
<1>3. PICK f : f = Frame("tables", 0, 0)
  OBVIOUS
<1>4. /\ f \in Frames /\ FrameOK(f) /\ f.at = "tables" /\ f.o = 0 /\ Relies(f)'
  BY <1>3, FrameType, Constants DEF Labels, Inner, Relying
<1>5. stack[1].at \in Bottom /\ f.at \in Bottom
  BY <1>1, <1>4 DEF Bottom, Labels, Inner
<1>6. \A o \in Objs : Holds(f, o) = Holds(stack[1], o)
  BY <1>1, <1>2, <1>4, <1>5, HoldsNothing
<1>7. QED
  BY <1>1, <1>3, <1>4, <1>5, <1>6, JumpStep DEF AllCalled, FreeingBases

LEMMA StepTablesDone ==
    ASSUME Sound, TablesDone PROVE Sound'
<1>1. Shape(stack) /\ stack[1].at = "tables"
  BY DEF Sound, TablesDone, At
<1>2. stack[1] \in Frames /\ FrameOK(stack[1])
  BY <1>1, ShapeTop
<1>3. PICK f : f = Frame("free", 0, 1)
  OBVIOUS
<1>4. /\ f \in Frames /\ FrameOK(f) /\ f.at = "free" /\ f.o = 0 /\ Relies(f)'
  BY <1>3, FrameType, Constants DEF Labels, Inner, Relying
<1>5. stack[1].at \in Bottom /\ f.at \in Bottom
  BY <1>1, <1>4 DEF Bottom, Labels, Inner
<1>6. \A o \in Objs : Holds(f, o) = Holds(stack[1], o)
  BY <1>1, <1>2, <1>4, <1>5, HoldsNothing
<1>7. QED
  BY <1>1, <1>3, <1>4, <1>5, <1>6, JumpStep DEF TablesDone, FreeingBases

LEMMA StepStorageFreed ==
    ASSUME Sound, StorageFreed PROVE Sound'
<1>1. Shape(stack) /\ stack[1].at = "free_one" /\ stack[1].todo = {} /\ Types /\ stack # <<>>
  BY DEF Sound, StorageFreed, At
<1>2. stack[1] \in Frames /\ FrameOK(stack[1])
  BY <1>1, ShapeTop
<1>3. stack[1].i < top
  <2>1. 1 \in DOMAIN stack
    BY <1>1, StackTop DEF Types
  <2>2. Relies(stack[1])
    BY <2>1 DEF Sound, CallsInv
  <2>3. QED
    BY <1>1, <2>2 DEF Relies
<1>4. stack[1].i + 1 \in 0..(MaxObjs + 1)
  <2>1. stack[1].i \in 0..(MaxObjs + 1)
    BY <1>2 DEF Frames
  <2>2. top \in 1..(MaxObjs + 1)
    BY <1>1 DEF Types
  <2>3. QED
    BY <1>3, <2>1, <2>2, Constants
<1>a. stack[1].i + 1 >= 1
  BY <1>2, <1>4, Constants DEF Frames
<1>5. PICK f : f = Frame("free", 0, stack[1].i + 1)
  OBVIOUS
<1>6. /\ f \in Frames /\ FrameOK(f) /\ f.at = "free" /\ f.o = 0 /\ Relies(f)'
  BY <1>4, <1>5, <1>a, FrameType DEF Labels, Inner, Relying
<1>7. stack[1].at \in Bottom /\ f.at \in Bottom
  BY <1>1, <1>6 DEF Bottom, Labels, Inner
<1>8. \A o \in Objs : Holds(f, o) = Holds(stack[1], o)
  BY <1>1, <1>2, <1>6, <1>7, HoldsNothing
<1>9. QED
  BY <1>1, <1>5, <1>6, <1>7, <1>8, JumpStep DEF StorageFreed, FreeingBases

LEMMA StepEndRequest ==
    ASSUME Sound, EndRequest PROVE Sound'
<1>1. Shape(stack) /\ stack[1].at = "free"
  BY DEF Sound, EndRequest, At
<1>2. stack[1] \in Frames /\ FrameOK(stack[1])
  BY <1>1, ShapeTop
<1>3. PICK f : f = Frame("end", 0, 0)
  OBVIOUS
<1>4. /\ f \in Frames /\ FrameOK(f) /\ f.at = "end" /\ f.o = 0 /\ Relies(f)'
  BY <1>3, FrameType, Constants DEF Labels, Inner, Relying
<1>5. stack[1].at \in Bottom /\ f.at \in Bottom
  BY <1>1, <1>4 DEF Bottom, Labels, Inner
<1>6. \A o \in Objs : Holds(f, o) = Holds(stack[1], o)
  BY <1>1, <1>2, <1>4, <1>5, HoldsNothing
<1>7. QED
  BY <1>1, <1>3, <1>4, <1>5, <1>6, JumpStep DEF EndRequest, FreeingBases

\* The end of a destructor's body: its $this is deleted.
LEMMA StepEndDtor ==
    ASSUME Sound, EndDtor PROVE Sound'
<1>0. Shape(stack) /\ steps \in 0..MaxSteps /\ stack[1].at = "dtor"
  BY DEF Sound, Types, EndDtor, At
<1>1. PICK f : f = Frame("del_ref", This, 0)
  OBVIOUS
<1>2. PICK r : r = Tail(stack)
  OBVIOUS
<1>3. stack[1].at \in Inner
  BY <1>0 DEF Inner
<1>4. /\ stack[1] \in Frames /\ FrameOK(stack[1]) /\ stack[1].o \in Objs
      /\ Shape(r) /\ Base(r) = Base(stack) /\ Base(stack) \notin {"free", "end"}
      /\ \A o \in Objs : /\ HeldBy(stack, o) = Holds(stack[1], o) + HeldBy(r, o)
                         /\ IsFreeing(stack, o) <=> (stack[1].at = "freeing" /\ stack[1].o = o) \/ IsFreeing(r, o)
      /\ \A k \in DOMAIN r : \E j \in DOMAIN stack : r[k] = stack[j]
  BY <1>0, <1>2, <1>3, Popped
<1>5. /\ f \in Frames /\ FrameOK(f) /\ f.at = "del_ref" /\ f.o = This /\ Relies(f)'
  BY <1>1, <1>4, FrameType, Constants, SMTT(60) DEF Labels, Inner, Relying, This
<1>6. f.at \in Inner
  BY <1>5 DEF Inner
<1>7. PICK t : t = <<f>> \o r
  OBVIOUS
<1>8. /\ Shape(t) /\ Base(t) = Base(r)
      /\ \A o \in Objs : /\ HeldBy(t, o) = Holds(f, o) + HeldBy(r, o)
                         /\ IsFreeing(t, o) <=> (f.at = "freeing" /\ f.o = o) \/ IsFreeing(r, o)
      /\ \A k \in DOMAIN t : t[k] = f \/ \E j \in DOMAIN r : t[k] = r[j]
  BY <1>4, <1>5, <1>6, <1>7, Pushed
<1>9. stack' = t
  BY <1>1, <1>2, <1>7 DEF EndDtor, Replace
<1>10. \A o \in Objs : Holds(f, o) = Holds(stack[1], o)
  <2>1. stack[1].todo = {} /\ f.todo = {}
    BY <1>0, <1>4, <1>5 DEF FrameOK
  <2>2. QED
    BY <2>1, <1>0, <1>5 DEF Holds, This
<1>11. \A o \in Objs : HeldBy(t, o) = HeldBy(stack, o) /\ (IsFreeing(t, o) <=> Freeing(o))
  BY <1>0, <1>4, <1>5, <1>8, <1>10 DEF Freeing
<1>12. \A k \in DOMAIN t : \/ Relies(t[k])'
                           \/ \E j \in DOMAIN stack : SameRole(t[k], stack[j])
  BY <1>4, <1>5, <1>8 DEF SameRole
<1>13. QED
  BY <1>0, <1>4, <1>8, <1>9, <1>11, <1>12, Quiet DEF EndDtor, ghosts
-----------------------------------------------------------------------------
\* A write to a refcount leaves the rest of the buckets alone.
LEMMA Recount ==
    ASSUME NEW st \in [Handles -> Bucket], NEW h \in Handles, NEW n \in Int
    PROVE  LET new == [st EXCEPT ![h].refcount = n] IN
           /\ new \in [Handles -> Bucket]
           /\ new[h].refcount = n
           /\ \A g \in Handles : /\ new[g].valid = st[g].valid /\ new[g].obj = st[g].obj
                                 /\ new[g].called = st[g].called
                                 /\ g # h => new[g] = st[g]
<1> DEFINE new == [st EXCEPT ![h].refcount = n]
<1>1. st[h] \in Bucket
  OBVIOUS
<1>2. new = [st EXCEPT ![h] = [st[h] EXCEPT !.refcount = n]]
  OBVIOUS
<1>3. PICK v : v = [st[h] EXCEPT !.refcount = n]
  OBVIOUS
<1>4. /\ v \in Bucket /\ v.refcount = n /\ v.valid = st[h].valid /\ v.obj = st[h].obj
      /\ v.called = st[h].called
  BY <1>1, <1>3 DEF Bucket
<1>5. new = [st EXCEPT ![h] = v]
  BY <1>2, <1>3
<1> HIDE DEF new
<1>6. new \in [Handles -> Bucket] /\ new[h] = v /\ \A g \in Handles : g # h => new[g] = st[g]
  BY <1>4, <1>5
<1>7. \A g \in Handles : /\ new[g].valid = st[g].valid /\ new[g].obj = st[g].obj
                         /\ new[g].called = st[g].called
  BY <1>4, <1>6
<1>8. QED
  BY <1>4, <1>6, <1>7 DEF new

\* An object in a variable, in a property or in a del_ref frame on top of the
\* stack is not being freed: the frame that frees an object has its only zval.
LEMMA Live ==
    ASSUME Sound, NEW o \in Objs,
           \/ vars[o] > 0
           \/ \E p \in Objs : o \in props[p]
           \/ stack[1].o = o /\ stack[1].at \in {"del_ref", "dtor", "dtor_done", "called"}
    PROVE  Refs(o) > 0 /\ ~ Freeing(o)
<1>0. Types /\ Shape(stack) /\ stack \in Seq(Frames)
  BY DEF Sound, Types
<1>1. /\ IsFiniteSet(Stored(o)) /\ Cardinality(Stored(o)) \in Nat
      /\ vars[o] \in Nat /\ HeldBy(stack, o) \in Nat /\ lost[o] \in Nat
      /\ Refs(o) = vars[o] + Cardinality(Stored(o)) + HeldBy(stack, o) + lost[o]
  BY <1>0, RefsParts
<1>2. Freeing(o) => HeldBy(stack, o) >= 1
  BY <1>0, FreeingHolds DEF Freeing
<1>3. Freeing(o) => Refs(o) = 1
  <2>1. Freeing(o) => o \in Created
    <3>1. CASE HeldBy(stack, o) >= 1
      <4>1. Refs(o) # 0
        BY <3>1, <1>1
      <4>2. QED
        BY <4>1 DEF Sound, CreatedInv
    <3>2. QED
      BY <3>1, <1>2
  <2>2. QED
    BY <2>1 DEF Sound, FreeingInv
<1>4. CASE vars[o] > 0
  BY <1>1, <1>2, <1>3, <1>4
<1>5. CASE \E p \in Objs : o \in props[p]
  <2>1. Stored(o) # {}
    BY <1>5 DEF Stored
  <2>2. Cardinality(Stored(o)) # 0
    BY <1>1, <2>1, FS_EmptySet
  <2>3. QED
    BY <1>1, <1>2, <1>3, <2>2
<1>6. CASE stack[1].o = o /\ stack[1].at \in {"del_ref", "dtor", "dtor_done", "called"}
  <2>0. stack[1] \in Frames /\ FrameOK(stack[1])
    BY <1>0, ShapeTop
  <2>1. Holds(stack[1], o) = 1
    BY <1>6, <2>0 DEF Holds, FrameOK
  <2>2. CASE stack[1].at \in Inner
    <3>1. /\ HeldBy(stack, o) = Holds(stack[1], o) + HeldBy(Tail(stack), o)
          /\ HeldBy(Tail(stack), o) \in Nat
          /\ IsFreeing(stack, o) <=> (stack[1].at = "freeing" /\ stack[1].o = o) \/ IsFreeing(Tail(stack), o)
          /\ Shape(Tail(stack))
      BY <1>0, <2>2, Popped
    <3>2. Freeing(o) => HeldBy(Tail(stack), o) >= 1
      BY <1>6, <3>1, FreeingHolds DEF Freeing, Shape
    <3>3. QED
      BY <1>1, <1>3, <2>1, <3>1, <3>2
  <2>3. CASE stack[1].at \in Bottom
    <3>1. HeldBy(stack, o) = Holds(stack[1], o) /\ ~ IsFreeing(stack, o)
      BY <1>0, <2>0, <2>3, Jumped
    <3>2. QED
      BY <1>1, <2>1, <3>1 DEF Freeing
  <2>4. QED
    BY <2>2, <2>3, <2>0 DEF Bottom, Frames
<1>7. QED
  BY <1>4, <1>5, <1>6

\* A variable's zval is destroyed.
LEMMA Destroying ==
    ASSUME Sound, NEW o \in Objs, vars[o] > 0, vars' = [vars EXCEPT ![o] = @ - 1],
           Push(Frame("del_ref", o, 0)), Base(stack) \notin {"free", "end"},
           UNCHANGED <<store, top, size, freeList, gen, buffered, handle, props, early, ghosts>>,
           steps' \in 0..MaxSteps
    PROVE  Sound'
<1>0. Types /\ Shape(stack)
  BY DEF Sound
<1>1. PICK f : f = Frame("del_ref", o, 0)
  OBVIOUS
<1>2. /\ f \in Frames /\ FrameOK(f) /\ f.at = "del_ref" /\ f.o = o /\ Relies(f)'
      /\ \A p \in Objs : Holds(f, p) = IF p = o THEN 1 ELSE 0
  BY <1>1, FrameType, Constants DEF Labels, Inner, Relying
<1>3. f.at \in Inner
  BY <1>2 DEF Inner
<1>4. PICK t : t = <<f>> \o stack
  OBVIOUS
<1>5. /\ Shape(t) /\ Base(t) = Base(stack)
      /\ \A p \in Objs : /\ HeldBy(t, p) = Holds(f, p) + HeldBy(stack, p)
                         /\ IsFreeing(t, p) <=> (f.at = "freeing" /\ f.o = p) \/ IsFreeing(stack, p)
      /\ \A k \in DOMAIN t : t[k] = f \/ \E j \in DOMAIN stack : t[k] = stack[j]
  BY <1>0, <1>2, <1>3, <1>4, Pushed
<1>6. stack' = t
  BY <1>1, <1>4 DEF Push
<1>7. vars[o] \in 0..MaxVars /\ vars[o] - 1 \in 0..MaxVars
  <2>1. vars[o] \in 0..MaxVars
    BY <1>0 DEF Types
  <2>2. QED
    BY <2>1, Constants
<1>8. Types'
  BY <1>0, <1>5, <1>6, <1>7 DEF Types, Shape, ghosts
<1>9. \A p \in Objs : Refs(p)' = Refs(p) /\ Refs(p) \in Nat
  <2>1. ASSUME NEW p \in Objs
        PROVE  Refs(p)' = Refs(p) /\ Refs(p) \in Nat
    <3>1. /\ Refs(p)' = Refs(p) + (vars'[p] - vars[p]) + (HeldBy(stack', p) - HeldBy(stack, p))
                                 + (lost'[p] - lost[p])
          /\ Refs(p) \in Nat
          /\ vars[p] \in Nat /\ lost[p] \in Nat /\ HeldBy(stack, p) \in Nat
      BY <1>0, <1>8, RefsChange
    <3>2. lost'[p] = lost[p] /\ HeldBy(stack', p) = HeldBy(stack, p) + IF p = o THEN 1 ELSE 0
      BY <1>2, <1>5, <1>6, <3>1 DEF ghosts
    <3>3. vars'[p] = vars[p] - IF p = o THEN 1 ELSE 0
      BY <1>0, <3>1 DEF Types
    <3>4. QED
      BY <3>1, <3>2, <3>3
  <2>2. QED
    BY <2>1
<1>10. \A p \in Created : store'[handle[p]].refcount = store[handle[p]].refcount + Refs(p)' - Refs(p)
  <2>1. ASSUME NEW p \in Created
        PROVE  store'[handle[p]].refcount = store[handle[p]].refcount + Refs(p)' - Refs(p)
    <3>1. p \in Objs /\ store[handle[p]].refcount \in Int
      BY <1>0 DEF Types, Created, Bucket
    <3>2. QED
      BY <3>1, <1>9
  <2>2. QED
    BY <2>1
<1>11. \A k \in DOMAIN t : \/ Relies(t[k])'
                           \/ \E j \in DOMAIN stack : SameRole(t[k], stack[j])
  BY <1>2, <1>5 DEF SameRole
<1>12. \A p \in Objs : IsFreeing(t, p) <=> Freeing(p)
  BY <1>2, <1>5 DEF Freeing
<1>13. UNCHANGED <<top, freeList, handle, freed, store, buffered, destructed>>
  BY DEF ghosts
<1>14. QED
  BY <1>5, <1>6, <1>8, <1>9, <1>10, <1>11, <1>12, <1>13, SoundStep

\* A zval is made of an object that is not being freed: a variable gets it.
LEMMA Referring ==
    ASSUME Sound, NEW o \in Objs, Refs(o) > 0, ~ Freeing(o),
           vars[o] < MaxVars, vars' = [vars EXCEPT ![o] = @ + 1], AddRef(o),
           UNCHANGED <<top, size, freeList, gen, buffered, handle, props, stack, early, ghosts>>,
           steps' \in 0..MaxSteps
    PROVE  Sound'
<1>0. Types /\ Shape(stack)
  BY DEF Sound
<1>1. o \in Created /\ Keeps(o) /\ handle[o] \in Handles /\ handle[o] < top
  BY Referred
<1>2. PICK h \in Handles : h = handle[o]
  BY <1>1
<1>3. PICK n \in Int : n = store[h].refcount + 1
  BY <1>0 DEF Types, Bucket
<1>4. store' = [store EXCEPT ![h].refcount = n]
  BY <1>2, <1>3, <1>0 DEF AddRef, Types
<1>5. /\ store' \in [Handles -> Bucket] /\ store'[h].refcount = n
      /\ \A g \in Handles : /\ store'[g].valid = store[g].valid /\ store'[g].obj = store[g].obj
                            /\ store'[g].called = store[g].called
                            /\ g # h => store'[g] = store[g]
  <2>1. store \in [Handles -> Bucket]
    BY <1>0 DEF Types
  <2>2. QED
    BY <2>1, <1>4, Recount
<1>6. vars[o] \in 0..MaxVars /\ vars[o] + 1 \in 0..MaxVars
  <2>1. vars[o] \in 0..MaxVars
    BY <1>0 DEF Types
  <2>2. QED
    BY <2>1, Constants
<1>7. Types'
  BY <1>0, <1>5, <1>6 DEF Types, ghosts
<1>8. \A p \in Objs : Refs(p)' = Refs(p) + (IF p = o THEN 1 ELSE 0) /\ Refs(p) \in Nat
  <2>1. ASSUME NEW p \in Objs
        PROVE  Refs(p)' = Refs(p) + (IF p = o THEN 1 ELSE 0) /\ Refs(p) \in Nat
    <3>1. /\ Refs(p)' = Refs(p) + (vars'[p] - vars[p]) + (HeldBy(stack', p) - HeldBy(stack, p))
                                 + (lost'[p] - lost[p])
          /\ Refs(p) \in Nat
          /\ vars[p] \in Nat /\ lost[p] \in Nat /\ HeldBy(stack, p) \in Nat
      BY <1>0, <1>7, RefsChange
    <3>2. lost'[p] = lost[p] /\ HeldBy(stack', p) = HeldBy(stack, p)
      BY DEF ghosts
    <3>3. vars'[p] = vars[p] + IF p = o THEN 1 ELSE 0
      BY <1>0, <3>1 DEF Types
    <3>4. QED
      BY <3>1, <3>2, <3>3
  <2>2. QED
    BY <2>1
<1>9. \A p \in Created : Keeps(p) =>
          store'[handle[p]].refcount = store[handle[p]].refcount + Refs(p)' - Refs(p)
  <2>1. ASSUME NEW p \in Created, Keeps(p)
        PROVE  store'[handle[p]].refcount = store[handle[p]].refcount + Refs(p)' - Refs(p)
    <3>1. p \in Objs /\ handle[p] \in Handles /\ store[handle[p]].refcount \in Int
      BY <1>0 DEF Types, Created, Bucket
    <3>2. CASE p = o
      BY <3>1, <3>2, <1>2, <1>3, <1>5, <1>8
    <3>3. CASE p # o
      <4>1. handle[p] # h
        BY <3>1, <3>3, <2>1, <1>1, <1>2, OwnBuckets
      <4>2. QED
        BY <3>1, <3>3, <4>1, <1>5, <1>8
    <3>4. QED
      BY <3>2, <3>3
  <2>2. QED
    BY <2>1
<1>10. \A g \in Handles : g >= top => store'[g] = store[g]
  BY <1>0, <1>1, <1>2, <1>5, Constants DEF Types
<1>11. PICK t : t = stack
  OBVIOUS
<1>12. stack' = t /\ \A k \in DOMAIN t : \E j \in DOMAIN stack : SameRole(t[k], stack[j])
  BY <1>11 DEF SameRole
<1>13. \A p \in Objs : /\ Refs(p) = 0 => Refs(p)' = 0
                       /\ IsFreeing(t, p) <=> Freeing(p)
                       /\ Freeing(p) => Refs(p)' = Refs(p)
                       /\ destructed'[p] = destructed[p]
  BY <1>8, <1>11 DEF Freeing, ghosts
<1>14. UNCHANGED <<top, freeList, handle, freed, buffered>>
  BY DEF ghosts
<1>15. QED
  BY <1>0, <1>5, <1>7, <1>9, <1>10, <1>11, <1>12, <1>13, <1>14, SoundStep
-----------------------------------------------------------------------------
\* Script code runs at the bottom of the stack or in a destructor.
LEMMA InScriptBase ==
    ASSUME Sound, InScript
    PROVE  Base(stack) \notin FreeingBases \cup {"free", "end"} \/ stack[1].at = "dtor"
<1>1. Shape(stack)
  BY DEF Sound
<1>2. CASE stack[1].at = "main"
  <2>1. Base(stack) = "main"
    BY <1>1, <1>2, ShapeTop DEF Bottom, Labels, Inner
  <2>2. QED
    BY <2>1 DEF FreeingBases
<1>3. QED
  BY <1>2 DEF InScript, At

\* Script code runs only where calls of del_ref may be made.
LEMMA StatementBase ==
    ASSUME Sound, InScript
    PROVE  Base(stack) \notin {"free", "end"}
<1>1. Shape(stack)
  BY DEF Sound
<1>2. CASE stack[1].at = "dtor"
  <2>1. stack[1].at \in Inner
    BY <1>2 DEF Inner
  <2>2. QED
    BY <1>1, <2>1, Popped
<1>3. QED
  BY <1>2, InScriptBase

\* A statement of the script is counted.
LEMMA NextStatement ==
    ASSUME Sound, Statement
    PROVE  steps' \in 0..MaxSteps
<1>1. steps \in 0..MaxSteps
  BY DEF Sound, Types
<1>2. steps < MaxSteps /\ steps' = steps + 1
  BY DEF Statement
<1>3. QED
  BY <1>1, <1>2, Constants

\* The script destroys a variable.
LEMMA StepUnset ==
    ASSUME Sound, NEW o \in Objs, Unset(o) PROVE Sound'
<1>1. Statement /\ InScript
  BY DEF Unset, Statement
<1>2. QED
  BY <1>1, StatementBase, NextStatement, Destroying DEF Unset

LEMMA StepRemoveSymbol ==
    ASSUME Sound, RemoveSymbol PROVE Sound'
<1>1. Shape(stack) /\ stack[1].at = "symbols" /\ steps \in 0..MaxSteps
  BY DEF Sound, Types, RemoveSymbol, At
<1>2. Base(stack) = "symbols"
  BY <1>1, ShapeTop DEF Bottom, Labels, Inner
<1>3. PICK o \in Objs : /\ vars[o] > 0
                        /\ vars' = [vars EXCEPT ![o] = @ - 1]
                        /\ Push(Frame("del_ref", o, 0))
  BY DEF RemoveSymbol
<1>4. QED
  BY <1>1, <1>2, <1>3, Destroying DEF RemoveSymbol

LEMMA StepDestroySymbol ==
    ASSUME Sound, DestroySymbol PROVE Sound'
<1>1. Shape(stack) /\ stack[1].at = "tables" /\ steps \in 0..MaxSteps
  BY DEF Sound, Types, DestroySymbol, At
<1>2. Base(stack) = "tables"
  BY <1>1, ShapeTop DEF Bottom, Labels, Inner
<1>3. PICK o \in Objs : /\ vars[o] > 0
                        /\ vars' = [vars EXCEPT ![o] = @ - 1]
                        /\ Push(Frame("del_ref", o, 0))
  BY DEF DestroySymbol
<1>4. QED
  BY <1>1, <1>2, <1>3, Destroying DEF DestroySymbol

\* A variable is copied.
LEMMA StepCopy ==
    ASSUME Sound, NEW o \in Objs, Copy(o) PROVE Sound'
<1>1. Statement /\ steps' \in 0..MaxSteps
  BY NextStatement DEF Copy
<1>2. vars[o] > 0 \/ (stack[1].o = o /\ stack[1].at \in {"del_ref", "dtor", "dtor_done", "called"})
  BY DEF Copy, Access, At, This
<1>3. Refs(o) > 0 /\ ~ Freeing(o)
  BY <1>2, Live
<1>4. QED
  BY <1>1, <1>3, Referring DEF Copy

\* A property is copied to a variable; it is not being freed, since a property holds it.
LEMMA StepReadProp ==
    ASSUME Sound, NEW o \in Objs, NEW p \in Objs, ReadProp(o, p) PROVE Sound'
<1>1. Statement /\ steps' \in 0..MaxSteps
  BY NextStatement DEF ReadProp
<1>2. \E q \in Objs : p \in props[q]
  BY DEF ReadProp
<1>3. Refs(p) > 0 /\ ~ Freeing(p)
  BY <1>2, Live
<1>4. QED
  BY <1>1, <1>3, Referring DEF ReadProp

\* A variable's zval becomes a property: the object has as many as before.
LEMMA StepSetProp ==
    ASSUME Sound, NEW o \in Objs, NEW p \in Objs, SetProp(o, p) PROVE Sound'
<1>0. Types /\ Shape(stack)
  BY DEF Sound
<1>1. steps' \in 0..MaxSteps
  BY NextStatement DEF SetProp
<1>2. /\ vars[p] > 0 /\ p \notin props[o]
      /\ vars' = [vars EXCEPT ![p] = @ - 1]
      /\ props' = [props EXCEPT ![o] = @ \cup {p}]
      /\ UNCHANGED <<store, top, size, freeList, gen, buffered, handle, stack, early,
                     lost, destructed, freed, bailed, stale>>
  BY DEF SetProp, ghosts
<1>3. vars[p] \in 0..MaxVars /\ vars[p] - 1 \in 0..MaxVars
  <2>1. vars[p] \in 0..MaxVars
    BY <1>0 DEF Types
  <2>2. QED
    BY <1>2, <2>1, Constants
<1>4. Types'
  BY <1>0, <1>1, <1>2, <1>3 DEF Types
<1>5. Stored(p)' = Stored(p) \cup {o} /\ o \notin Stored(p) /\ \A q \in Objs : q # p => Stored(q)' = Stored(q)
  BY <1>0, <1>2 DEF Stored, Types
<1>6. \A q \in Objs : Refs(q)' = Refs(q) /\ Refs(q) \in Nat
  <2>1. ASSUME NEW q \in Objs
        PROVE  Refs(q)' = Refs(q) /\ Refs(q) \in Nat
    <3>1. /\ IsFiniteSet(Stored(q)) /\ Cardinality(Stored(q)) \in Nat
          /\ vars[q] \in Nat /\ HeldBy(stack, q) \in Nat /\ lost[q] \in Nat
          /\ Refs(q) = vars[q] + Cardinality(Stored(q)) + HeldBy(stack, q) + lost[q]
          /\ Refs(q) \in Nat
      BY <1>0, RefsParts
    <3>2. /\ Refs(q)' = vars'[q] + Cardinality(Stored(q)') + HeldBy(stack', q) + lost'[q]
          /\ vars'[q] \in Nat /\ Cardinality(Stored(q)') \in Nat
      BY <1>4, RefsPartsNext
    <3>3. lost'[q] = lost[q] /\ HeldBy(stack', q) = HeldBy(stack, q)
      BY <1>2
    <3>4. vars'[q] = vars[q] - IF q = p THEN 1 ELSE 0
      <4>1. vars \in [Objs -> 0..MaxVars]
        BY <1>0 DEF Types
      <4>2. vars' = [vars EXCEPT ![p] = @ - 1]
        BY <1>2
      <4>3. QED
        BY <4>1, <4>2, <3>1
    <3>5. Cardinality(Stored(q)') = Cardinality(Stored(q)) + IF q = p THEN 1 ELSE 0
      <4>1. CASE q = p
        <5>1. IsFiniteSet(Stored(p)) /\ o \notin Stored(p)
          BY <3>1, <4>1, <1>5
        <5>2. Cardinality(Stored(p) \cup {o}) = Cardinality(Stored(p)) + 1
          BY <5>1, FS_AddElement
        <5>3. QED
          BY <4>1, <5>2, <1>5
      <4>2. CASE q # p
        BY <4>2, <3>1, <1>5
      <4>3. QED
        BY <4>1, <4>2
    <3>6. QED
      BY <3>1, <3>2, <3>3, <3>4, <3>5
  <2>2. QED
    BY <2>1
<1>7. \A q \in Created : store'[handle[q]].refcount = store[handle[q]].refcount + Refs(q)' - Refs(q)
  <2>1. ASSUME NEW q \in Created
        PROVE  store'[handle[q]].refcount = store[handle[q]].refcount + Refs(q)' - Refs(q)
    <3>1. q \in Objs /\ store[handle[q]].refcount \in Int
      BY <1>0 DEF Types, Created, Bucket
    <3>2. QED
      BY <3>1, <1>2, <1>6
  <2>2. QED
    BY <2>1
<1>8. PICK t : t = stack
  OBVIOUS
<1>9. stack' = t /\ \A k \in DOMAIN t : \E j \in DOMAIN stack : SameRole(t[k], stack[j])
  BY <1>2, <1>8 DEF SameRole
<1>10. \A q \in Objs : IsFreeing(t, q) <=> Freeing(q)
  BY <1>8 DEF Freeing
<1>11. QED
  BY <1>0, <1>2, <1>4, <1>6, <1>7, <1>8, <1>9, <1>10, SoundStep

\* free_storage takes the properties one after the other: each zval goes from the
\* frame's table to the call that deletes it.
LEMMA StepFreeProperty ==
    ASSUME Sound, FreeProperty PROVE Sound'
<1>0. Types /\ Shape(stack) /\ steps \in 0..MaxSteps
  BY DEF Sound, Types
<1>1. stack[1] \in Frames /\ FrameOK(stack[1])
  BY <1>0, ShapeTop
<1>2. PICK p \in stack[1].todo :
          stack' = <<Frame("del_ref", p, 0), [stack[1] EXCEPT !.todo = @ \ {p}]>> \o Tail(stack)
  BY DEF FreeProperty
<1>3. p \in Objs
  BY <1>1 DEF Frames
<1>4. PICK f : f = Frame("del_ref", p, 0)
  OBVIOUS
<1>5. PICK g : g = [stack[1] EXCEPT !.todo = @ \ {p}]
  OBVIOUS
<1>6. /\ f \in Frames /\ FrameOK(f) /\ f.at = "del_ref" /\ f.o = p /\ Relies(f)'
      /\ \A o \in Objs : Holds(f, o) = IF o = p THEN 1 ELSE 0
  <2>1. /\ "del_ref" \in Labels /\ p \in Objs \cup {0} /\ 0 \in 0..(MaxObjs + 1)
        /\ "del_ref" \notin Relying /\ "del_ref" \notin {"called", "free", "free_one"}
    BY <1>3, Constants DEF Labels, Relying
  <2>2. QED
    BY <2>1, <1>3, <1>4, FrameType
<1>7. /\ g \in Frames /\ g.at = stack[1].at /\ g.o = stack[1].o /\ g.i = stack[1].i
      /\ g.todo = stack[1].todo \ {p}
  BY <1>1, <1>5 DEF Frames
<1>8. FrameOK(g) /\ SameRole(g, stack[1])
  BY <1>1, <1>7 DEF FrameOK, SameRole
<1>9. \A o \in Objs : /\ Holds(g, o) + Holds(f, o) = Holds(stack[1], o)
                      /\ Holds(g, o) \in {0, 1, 2} /\ Holds(f, o) \in {0, 1, 2}
  <2>1. ASSUME NEW o \in Objs
        PROVE  /\ Holds(g, o) + Holds(f, o) = Holds(stack[1], o)
               /\ Holds(g, o) \in {0, 1, 2} /\ Holds(f, o) \in {0, 1, 2}
    <3>1. o \in g.todo <=> o \in stack[1].todo /\ o # p
      BY <1>7
    <3>2. Holds(g, o) = Holds(stack[1], o) - IF o = p THEN 1 ELSE 0
      BY <3>1, <1>7 DEF Holds
    <3>3. QED
      BY <3>2, <1>1, <1>6, <1>7, HoldsType
  <2>2. QED
    BY <2>1
<1>10. PICK s : s = <<g>> \o Tail(stack)
  OBVIOUS
<1>11. /\ Shape(s) /\ Base(s) = Base(stack) /\ Base(s) \notin {"free", "end"} /\ Tail(stack) \in Seq(Frames)
       /\ \A o \in Objs : /\ HeldBy(s, o) - Holds(g, o) = HeldBy(stack, o) - Holds(stack[1], o)
                          /\ HeldBy(s, o) \in Nat /\ HeldBy(stack, o) \in Nat
                          /\ IsFreeing(s, o) <=> IsFreeing(stack, o)
       /\ \A k \in DOMAIN s : \E j \in DOMAIN stack : SameRole(s[k], stack[j])
  <2>0. 1 \in DOMAIN stack /\ Tail(stack) \in Seq(Frames)
    BY <1>0, StackTop DEF Types
  <2>1. CASE stack[1].at = "freeing"
    <3>1. stack[1].at \in Inner
      BY <2>1 DEF Inner
    <3>2. PICK r : r = Tail(stack)
      OBVIOUS
    <3>3. /\ Shape(r) /\ Base(r) = Base(stack) /\ Base(stack) \notin {"free", "end"}
          /\ \A o \in Objs : /\ HeldBy(stack, o) = Holds(stack[1], o) + HeldBy(r, o)
                             /\ Holds(stack[1], o) \in {0, 1, 2} /\ HeldBy(r, o) \in Nat
                             /\ IsFreeing(stack, o) <=> (stack[1].at = "freeing" /\ stack[1].o = o) \/ IsFreeing(r, o)
          /\ \A k \in DOMAIN r : \E j \in DOMAIN stack : r[k] = stack[j]
      BY <1>0, <3>1, <3>2, Popped
    <3>4. /\ Shape(s) /\ Base(s) = Base(r)
          /\ \A o \in Objs : /\ HeldBy(s, o) = Holds(g, o) + HeldBy(r, o)
                             /\ Holds(g, o) \in {0, 1, 2}
                             /\ IsFreeing(s, o) <=> (g.at = "freeing" /\ g.o = o) \/ IsFreeing(r, o)
          /\ \A k \in DOMAIN s : s[k] = g \/ \E j \in DOMAIN r : s[k] = r[j]
      <4>1. g \in Frames /\ FrameOK(g) /\ g.at \in Inner
        BY <3>1, <1>7, <1>8
      <4>2. Shape(r) /\ Base(r) \notin {"free", "end"} /\ s = <<g>> \o r
        BY <3>2, <3>3, <1>10
      <4>3. QED
        BY <4>1, <4>2, Pushed
    <3>5. \A k \in DOMAIN s : \E j \in DOMAIN stack : SameRole(s[k], stack[j])
      BY <2>0, <3>3, <3>4, <1>8 DEF SameRole
    <3>6. \A o \in Objs : /\ HeldBy(s, o) - Holds(g, o) = HeldBy(stack, o) - Holds(stack[1], o)
                          /\ HeldBy(s, o) \in Nat /\ HeldBy(stack, o) \in Nat
      BY <3>3, <3>4
    <3>7. QED
      BY <2>0, <3>3, <3>4, <3>5, <3>6, <1>7
  <2>2. CASE stack[1].at = "free_one"
    <3>1. stack[1].at \in Bottom /\ g.at \in Bottom
      BY <2>2, <1>7 DEF Bottom, Labels, Inner
    <3>2. /\ Shape(s) /\ Base(s) = g.at /\ Base(stack) = stack[1].at
          /\ \A o \in Objs : /\ HeldBy(s, o) = Holds(g, o) /\ HeldBy(stack, o) = Holds(stack[1], o)
                             /\ Holds(g, o) \in {0, 1, 2} /\ Holds(stack[1], o) \in {0, 1, 2}
                             /\ ~ IsFreeing(s, o) /\ ~ IsFreeing(stack, o)
          /\ \A k \in DOMAIN s : s[k] = g
      BY <3>1, <1>0, <1>7, <1>8, <1>10, Jumped
    <3>3. \A k \in DOMAIN s : \E j \in DOMAIN stack : SameRole(s[k], stack[j])
      BY <2>0, <3>2, <1>8
    <3>4. \A o \in Objs : /\ HeldBy(s, o) - Holds(g, o) = HeldBy(stack, o) - Holds(stack[1], o)
                          /\ HeldBy(s, o) \in Nat /\ HeldBy(stack, o) \in Nat
      BY <3>2
    <3>5. QED
      BY <2>0, <2>2, <3>2, <3>3, <3>4, <1>7
  <2>3. QED
    BY <2>1, <2>2 DEF FreeProperty, At
<1>12. f.at \in Inner
  BY <1>6 DEF Inner
<1>13. PICK t : t = <<f>> \o s
  OBVIOUS
<1>14. /\ Shape(t) /\ Base(t) = Base(s)
       /\ \A o \in Objs : /\ HeldBy(t, o) = Holds(f, o) + HeldBy(s, o)
                          /\ IsFreeing(t, o) <=> (f.at = "freeing" /\ f.o = o) \/ IsFreeing(s, o)
       /\ \A k \in DOMAIN t : t[k] = f \/ \E j \in DOMAIN s : t[k] = s[j]
  <2>1. f \in Frames /\ FrameOK(f) /\ f.at \in Inner
    BY <1>6, <1>12
  <2>2. Shape(s) /\ Base(s) \notin {"free", "end"}
    BY <1>11
  <2>3. QED
    BY <2>1, <2>2, <1>13, Pushed
<1>15. stack' = t
  <2>1. <<f, g>> \o Tail(stack) = <<f>> \o (<<g>> \o Tail(stack))
    BY <1>6, <1>7, <1>11, TwoFrames
  <2>2. QED
    BY <2>1, <1>2, <1>4, <1>5, <1>10, <1>13
<1>16. \A o \in Objs : HeldBy(t, o) = HeldBy(stack, o) /\ (IsFreeing(t, o) <=> Freeing(o))
  <2>1. \A o \in Objs : HeldBy(t, o) = HeldBy(stack, o)
    BY <1>9, <1>11, <1>14
  <2>2. QED
    BY <2>1, <1>6, <1>11, <1>14 DEF Freeing
<1>17. \A k \in DOMAIN t : \/ Relies(t[k])'
                           \/ \E j \in DOMAIN stack : SameRole(t[k], stack[j])
  BY <1>6, <1>11, <1>14
<1>18. QED
  BY <1>0, <1>11, <1>14, <1>15, <1>16, <1>17, Quiet DEF FreeProperty, ghosts
-----------------------------------------------------------------------------
\* The steps that write the refcount of one object.
LEMMA Counting ==
    ASSUME Sound, Types', NEW o \in Created, Keeps(o), ~ Freeing(o), NEW d \in Int,
           d < 0 \/ store[handle[o]].valid,
           NEW t, stack' = t, Shape(t),
           Base(stack) \in FreeingBases => Base(t) \in FreeingBases,
           \A k \in DOMAIN t : \/ Relies(t[k])'
                               \/ \E j \in DOMAIN stack : SameRole(t[k], stack[j]),
           UNCHANGED <<top, freeList, handle, freed, vars, props>>,
           \A h \in Handles : /\ store'[h].valid = store[h].valid /\ store'[h].obj = store[h].obj
                              /\ store[h].called => store'[h].called
                              /\ store'[h].refcount = store[h].refcount + IF h = handle[o] THEN d ELSE 0
                              /\ h >= top => store'[h] = store[h],
           \A p \in Objs : /\ HeldBy(t, p) + lost'[p] =
                                  HeldBy(stack, p) + lost[p] + IF p = o THEN d ELSE 0
                           /\ IsFreeing(t, p) <=> Freeing(p)
                           /\ destructed'[p] # destructed[p] =>
                                  p \in Created /\ store'[handle[p]].called,
           \A h \in buffered' : h \in buffered \/ (h = handle[o] /\ store[h].valid)
    PROVE  Sound'
<1>0. Types /\ FreeingInv
  BY DEF Sound
<1>1. \A p \in Objs : Refs(p)' = Refs(p) + (IF p = o THEN d ELSE 0) /\ Refs(p) \in Nat /\ Refs(p)' \in Nat
  <2>1. ASSUME NEW p \in Objs
        PROVE  Refs(p)' = Refs(p) + (IF p = o THEN d ELSE 0) /\ Refs(p) \in Nat /\ Refs(p)' \in Nat
    <3>1. /\ Refs(p)' = Refs(p) + (vars'[p] - vars[p]) + (HeldBy(stack', p) - HeldBy(stack, p))
                                 + (lost'[p] - lost[p])
          /\ Refs(p) \in Nat /\ Refs(p)' \in Nat
          /\ vars[p] \in Nat /\ lost[p] \in Nat /\ lost'[p] \in Nat
          /\ HeldBy(stack, p) \in Nat /\ HeldBy(stack', p) \in Nat
      BY <1>0, RefsChange
    <3>2. vars'[p] = vars[p]
      OBVIOUS
    <3>3. HeldBy(stack', p) + lost'[p] = HeldBy(stack, p) + lost[p] + IF p = o THEN d ELSE 0
      OBVIOUS
    <3>4. QED
      BY <3>1, <3>2, <3>3
  <2>2. QED
    BY <2>1
<1>2. o \in Objs /\ \A p \in Created : p \in Objs /\ handle[p] \in Handles /\ store[handle[p]].refcount \in Int
  BY <1>0 DEF Types, Created, Bucket
<1>3. \A p \in Created : Keeps(p) =>
          store'[handle[p]].refcount = store[handle[p]].refcount + Refs(p)' - Refs(p)
  <2>1. ASSUME NEW p \in Created, Keeps(p)
        PROVE  store'[handle[p]].refcount = store[handle[p]].refcount + Refs(p)' - Refs(p)
    <3>1. p \in Objs /\ handle[p] \in Handles /\ store[handle[p]].refcount \in Int
      BY <1>2
    <3>2. handle[p] = handle[o] <=> p = o
      BY <2>1, <1>2, OwnBuckets
    <3>3. store'[handle[p]].refcount = store[handle[p]].refcount + IF p = o THEN d ELSE 0
      BY <3>1, <3>2
    <3>4. QED
      BY <3>1, <3>3, <1>1
  <2>2. QED
    BY <2>1
<1>4. \A p \in Objs : /\ Refs(p) = 0 =>
                             Refs(p)' = 0 \/ (p \in Created /\ Keeps(p) /\ store[handle[p]].valid)
                      /\ Freeing(p) => Refs(p)' = Refs(p)
  <2>1. ASSUME NEW p \in Objs
        PROVE  /\ Refs(p) = 0 =>
                      Refs(p)' = 0 \/ (p \in Created /\ Keeps(p) /\ store[handle[p]].valid)
               /\ Freeing(p) => Refs(p)' = Refs(p)
    <3>1. CASE p = o
      <4>1. d < 0 => Refs(p) # 0
        BY <3>1, <1>1
      <4>2. QED
        BY <3>1, <4>1
    <3>2. CASE p # o
      BY <3>2, <1>1
    <3>3. QED
      BY <3>1, <3>2
  <2>2. QED
    BY <2>1
<1>5. \A h \in buffered' : h \in buffered \/ /\ store[h].valid
                                              /\ \A p \in Created : Freeing(p) => handle[p] # h
  <2>1. ASSUME NEW p \in Created, Freeing(p)
        PROVE  handle[p] # handle[o]
    <3>1. Keeps(p)
      BY <2>1, <1>0 DEF FreeingInv
    <3>2. QED
      BY <3>1, <2>1, <1>2, OwnBuckets
  <2>2. QED
    BY <2>1
<1>6. QED
  BY <1>1, <1>3, <1>4, <1>5, SoundStep

\* A fatal error marks the objects that are still there; it counts nothing.
LEMMA Marking ==
    ASSUME NEW st \in [Handles -> Bucket]
    PROVE  /\ MarkDestructed(st) \in [Handles -> Bucket]
           /\ \A h \in Handles : LET new == MarkDestructed(st)[h] IN
                  /\ new.valid = st[h].valid /\ new.obj = st[h].obj /\ new.refcount = st[h].refcount
                  /\ st[h].called => new.called
                  /\ ~ st[h].valid => new = st[h]
<1>1. ASSUME NEW v \in Bucket
      PROVE  LET w == [v EXCEPT !.called = TRUE] IN
             /\ w \in Bucket /\ w.valid = v.valid /\ w.obj = v.obj /\ w.refcount = v.refcount /\ w.called
  BY DEF Bucket
<1>2. ASSUME NEW h \in Handles
      PROVE  LET new == MarkDestructed(st)[h] IN
             /\ new \in Bucket
             /\ new.valid = st[h].valid /\ new.obj = st[h].obj /\ new.refcount = st[h].refcount
             /\ st[h].called => new.called
             /\ ~ st[h].valid => new = st[h]
  <2>1. MarkDestructed(st)[h] = IF st[h].valid THEN [st[h] EXCEPT !.called = TRUE] ELSE st[h]
    BY DEF MarkDestructed
  <2>2. st[h] \in Bucket
    OBVIOUS
  <2>3. QED
    BY <2>1, <2>2, <1>1
<1>3. MarkDestructed(st) \in [Handles -> Bucket]
  BY <1>2 DEF MarkDestructed
<1>4. QED
  BY <1>2, <1>3

\* The return of a call, or a bailout in its place.
LEMMA Leaving ==
    ASSUME Types, NEW r, Shape(r), Base(r) # "end", NEW st \in [Handles -> Bucket],
           \/ \E fatal \in BOOLEAN : Bailout(r, st, fatal)
           \/ store' = st /\ stack' = r /\ UNCHANGED <<lost, bailed>>
    PROVE  /\ \E t : /\ stack' = t /\ Shape(t)
                     /\ Base(r) \in FreeingBases => Base(t) \in FreeingBases
                     /\ \A o \in Objs : /\ IsFreeing(t, o) <=> IsFreeing(r, o)
                                        /\ HeldBy(t, o) + lost'[o] = HeldBy(r, o) + lost[o]
                     /\ \A j \in DOMAIN t : t[j].at \in Relying =>
                                                \E i \in DOMAIN r : SameRole(t[j], r[i])
           /\ lost' \in [Objs -> Nat] /\ bailed' \in BOOLEAN
           /\ store' \in [Handles -> Bucket]
           /\ \A h \in Handles :
                  /\ store'[h].valid = st[h].valid /\ store'[h].obj = st[h].obj
                  /\ store'[h].refcount = st[h].refcount
                  /\ st[h].called => store'[h].called
                  /\ ~ st[h].valid => store'[h] = st[h]
<1>0. lost \in [Objs -> Nat] /\ bailed \in BOOLEAN
  BY DEF Types
<1>1. CASE \E fatal \in BOOLEAN : Bailout(r, st, fatal)
  <2>1. PICK fatal \in BOOLEAN : Bailout(r, st, fatal)
    BY <1>1
  <2>2. /\ \E t : /\ stack' = t /\ Shape(t)
                  /\ Base(r) \in FreeingBases => Base(t) \in FreeingBases
                  /\ \A o \in Objs : /\ IsFreeing(t, o) <=> IsFreeing(r, o)
                                     /\ HeldBy(t, o) + lost'[o] = HeldBy(r, o) + lost[o]
                  /\ \A j \in DOMAIN t : t[j].at \in Relying =>
                                             \E i \in DOMAIN r : SameRole(t[j], r[i])
        /\ lost' \in [Objs -> Nat] /\ bailed' \in BOOLEAN
        /\ store' = st \/ store' = MarkDestructed(st)
    BY <1>0, <2>1, Bailing
  <2>3. /\ store' \in [Handles -> Bucket]
        /\ \A h \in Handles :
               /\ store'[h].valid = st[h].valid /\ store'[h].obj = st[h].obj
               /\ store'[h].refcount = st[h].refcount
               /\ st[h].called => store'[h].called
               /\ ~ st[h].valid => store'[h] = st[h]
    BY <2>2, Marking
  <2>4. QED
    BY <2>2, <2>3
<1>2. CASE store' = st /\ stack' = r /\ UNCHANGED <<lost, bailed>>
  <2>1. \A j \in DOMAIN r : \E i \in DOMAIN r : SameRole(r[j], r[i])
    BY DEF SameRole
  <2>2. QED
    BY <1>0, <1>2, <2>1
<1>3. QED
  BY <1>1, <1>2
-----------------------------------------------------------------------------
\* del_ref gives its zval back and returns, or goes on with the bailout.
LEMMA LeaveStep ==
    ASSUME Sound, stack[1].at \in {"del_ref", "dtor_done"}, Leave(store, buffered),
           UNCHANGED <<top, size, freeList, gen, script, steps, destructed, freed>>
    PROVE  Sound'
<1>0. Types /\ Shape(stack) /\ stack # <<>> /\ BucketInv
  BY DEF Sound, Shape
<1>1. stack[1].at \in Inner
  BY DEF Inner
<1>2. PICK r : r = Tail(stack)
  OBVIOUS
<1>3. /\ stack[1] \in Frames /\ FrameOK(stack[1]) /\ stack[1].o \in Objs
      /\ Shape(r) /\ Base(r) = Base(stack) /\ Base(stack) \notin {"free", "end"}
      /\ \A p \in Objs : /\ HeldBy(stack, p) = Holds(stack[1], p) + HeldBy(r, p)
                         /\ Holds(stack[1], p) \in {0, 1, 2} /\ HeldBy(r, p) \in Nat
                         /\ IsFreeing(stack, p) <=> (stack[1].at = "freeing" /\ stack[1].o = p) \/ IsFreeing(r, p)
      /\ \A k \in DOMAIN r : \E j \in DOMAIN stack : r[k] = stack[j]
  BY <1>0, <1>1, <1>2, Popped
<1>4. PICK o \in Objs : o = stack[1].o
  BY <1>3
<1>5. Refs(o) > 0 /\ ~ Freeing(o)
  BY <1>4, Live
<1>6. o \in Created /\ Keeps(o) /\ handle[o] \in Handles /\ handle[o] < top
  BY <1>5, Referred
<1>7. PICK h \in Handles : h = handle[o]
  BY <1>6
<1>8. PICK n \in Int : n = store[h].refcount - 1
  BY <1>0 DEF Types, Bucket
<1>9. PICK st : st = [store EXCEPT ![h].refcount = n]
  OBVIOUS
<1>10. /\ st \in [Handles -> Bucket] /\ st[h].refcount = n
       /\ \A g \in Handles : /\ st[g].valid = store[g].valid /\ st[g].obj = store[g].obj
                             /\ st[g].called = store[g].called
                             /\ g # h => st[g] = store[g]
  <2>1. store \in [Handles -> Bucket]
    BY <1>0 DEF Types
  <2>2. QED
    BY <2>1, <1>9, Recount
<1>11. st = [store EXCEPT ![handle[This]].refcount = @ - 1]
  BY <1>0, <1>4, <1>7, <1>8, <1>9 DEF This, Types
<1>12. /\ buffered' = IF st[h].valid /\ ~ stack[1].fail THEN buffered \cup {h} ELSE buffered
       /\ \/ \E fatal \in BOOLEAN : Bailout(r, st, fatal)
          \/ store' = st /\ stack' = r /\ UNCHANGED <<lost, bailed>>
  <2>1. handle[This] = h
    BY <1>4, <1>7 DEF This
  <2>2. /\ buffered' = IF st[h].valid /\ ~ stack[1].fail THEN buffered \cup {h} ELSE buffered
        /\ IF stack[1].fail THEN Bailout(r, st, FALSE)
           ELSE store' = st /\ stack' = r /\ UNCHANGED <<lost, bailed>>
    BY <1>2, <1>11, <2>1 DEF Leave, Pop
  <2>3. QED
    BY <2>2
<1>13. Base(r) # "end"
  BY <1>3
<1>14. /\ \E t : /\ stack' = t /\ Shape(t)
                 /\ Base(r) \in FreeingBases => Base(t) \in FreeingBases
                 /\ \A p \in Objs : /\ IsFreeing(t, p) <=> IsFreeing(r, p)
                                    /\ HeldBy(t, p) + lost'[p] = HeldBy(r, p) + lost[p]
                 /\ \A j \in DOMAIN t : t[j].at \in Relying =>
                                            \E i \in DOMAIN r : SameRole(t[j], r[i])
       /\ lost' \in [Objs -> Nat] /\ bailed' \in BOOLEAN
       /\ store' \in [Handles -> Bucket]
       /\ \A g \in Handles :
              /\ store'[g].valid = st[g].valid /\ store'[g].obj = st[g].obj
              /\ store'[g].refcount = st[g].refcount
              /\ st[g].called => store'[g].called
              /\ ~ st[g].valid => store'[g] = st[g]
  BY <1>0, <1>3, <1>10, <1>12, <1>13, Leaving
<1>15. PICK t : /\ stack' = t /\ Shape(t)
                /\ Base(r) \in FreeingBases => Base(t) \in FreeingBases
                /\ \A p \in Objs : /\ IsFreeing(t, p) <=> IsFreeing(r, p)
                                   /\ HeldBy(t, p) + lost'[p] = HeldBy(r, p) + lost[p]
                /\ \A j \in DOMAIN t : t[j].at \in Relying =>
                                           \E i \in DOMAIN r : SameRole(t[j], r[i])
  BY <1>14
<1>16. Types'
  <2>1. stack' \in Seq(Frames) \ {<<>>}
    BY <1>15 DEF Shape
  <2>2. buffered' \in SUBSET Handles
    BY <1>0, <1>12 DEF Types
  <2>3. QED
    BY <1>0, <1>14, <2>1, <2>2 DEF Types, script
<1>17. \A p \in Objs : /\ HeldBy(t, p) + lost'[p] = HeldBy(stack, p) + lost[p] + IF p = o THEN -1 ELSE 0
                       /\ IsFreeing(t, p) <=> Freeing(p)
  <2>1. ASSUME NEW p \in Objs
        PROVE  HeldBy(t, p) + lost'[p] = HeldBy(stack, p) + lost[p] + IF p = o THEN -1 ELSE 0
    <3>1. Holds(stack[1], p) = IF p = o THEN 1 ELSE 0
      BY <1>3, <1>4 DEF Holds, FrameOK
    <3>2. lost[p] \in Nat
      BY <1>0 DEF Types
    <3>3. HeldBy(stack, p) = Holds(stack[1], p) + HeldBy(r, p) /\ HeldBy(r, p) \in Nat
      BY <1>3
    <3>4. HeldBy(t, p) + lost'[p] = HeldBy(r, p) + lost[p]
      BY <1>15
    <3>5. QED
      BY <3>1, <3>2, <3>3, <3>4
  <2>2. \A p \in Objs : IsFreeing(t, p) <=> Freeing(p)
    BY <1>3, <1>15 DEF Freeing
  <2>3. QED
    BY <2>1, <2>2
<1>18. \A k \in DOMAIN t : \/ Relies(t[k])'
                           \/ \E j \in DOMAIN stack : SameRole(t[k], stack[j])
  <2>1. ASSUME NEW k \in DOMAIN t, t[k].at \notin Relying
        PROVE  Relies(t[k])'
    BY <2>1 DEF Relies, Relying
  <2>2. ASSUME NEW k \in DOMAIN t, t[k].at \in Relying
        PROVE  \E j \in DOMAIN stack : SameRole(t[k], stack[j])
    <3>1. PICK i \in DOMAIN r : SameRole(t[k], r[i])
      BY <2>2, <1>15
    <3>2. QED
      BY <3>1, <1>3
  <2>3. QED
    BY <2>1, <2>2
<1>19. \A g \in Handles : /\ store'[g].valid = store[g].valid /\ store'[g].obj = store[g].obj
                          /\ store[g].called => store'[g].called
                          /\ store'[g].refcount = store[g].refcount + IF g = handle[o] THEN -1 ELSE 0
                          /\ g >= top => store'[g] = store[g]
  <2>1. ASSUME NEW g \in Handles
        PROVE  /\ store'[g].valid = store[g].valid /\ store'[g].obj = store[g].obj
               /\ store[g].called => store'[g].called
               /\ store'[g].refcount = store[g].refcount + IF g = handle[o] THEN -1 ELSE 0
               /\ g >= top => store'[g] = store[g]
    <3>1. store[g].refcount \in Int
      BY <1>0 DEF Types, Bucket
    <3>2. store'[g].refcount = store[g].refcount + IF g = h THEN -1 ELSE 0
      BY <3>1, <1>8, <1>10, <1>14
    <3>3. g >= top => store'[g] = store[g]
      <4>1. g >= top => g # h
        BY <1>0, <1>6, <1>7, Constants DEF Types
      <4>2. g >= top => ~ store[g].valid
        <5>1. g >= top => ~ (g < top)
          BY <1>0, Constants DEF Types
        <5>2. QED
          BY <5>1, <1>0 DEF BucketInv, NoBucket
      <4>3. QED
        BY <4>1, <4>2, <1>10, <1>14
    <3>4. QED
      BY <3>2, <3>3, <1>7, <1>10, <1>14
  <2>2. QED
    BY <2>1
<1>20. \A g \in buffered' : g \in buffered \/ (g = handle[o] /\ store[g].valid)
  <2>1. buffered' = IF st[h].valid /\ ~ stack[1].fail THEN buffered \cup {h} ELSE buffered
    BY <1>12
  <2>2. st[h].valid = store[h].valid
    BY <1>10
  <2>3. QED
    BY <2>1, <2>2, <1>7
<1>21. UNCHANGED <<top, freeList, handle, freed, vars, props, destructed>>
  BY DEF script
<1>22. -1 \in Int /\ -1 < 0
  OBVIOUS
<1>23. Base(stack) \in FreeingBases => Base(t) \in FreeingBases
  BY <1>3, <1>15
<1>24. QED
  BY <1>5, <1>6, <1>15, <1>16, <1>17, <1>18, <1>19, <1>20, <1>21, <1>22, <1>23, Counting

LEMMA StepDelRefKeep ==
    ASSUME Sound, DelRefKeep PROVE Sound'
BY LeaveStep DEF DelRefKeep, At

LEMMA StepDelRefResurrected ==
    ASSUME Sound, DelRefResurrected PROVE Sound'
BY LeaveStep DEF DelRefResurrected, At

\* exit() and fatal errors: what the frames held is lost, not given back.
LEMMA BailStep ==
    ASSUME Sound, Base(stack) # "end", NEW st \in [Handles -> Bucket],
           \E fatal \in BOOLEAN : Bailout(stack, st, fatal),
           \A h \in Handles : /\ st[h].valid = store[h].valid /\ st[h].obj = store[h].obj
                              /\ st[h].refcount = store[h].refcount
                              /\ store[h].called => st[h].called
                              /\ ~ store[h].valid => st[h] = store[h],
           UNCHANGED <<top, size, freeList, gen, buffered, script, steps, destructed, freed>>
    PROVE  Sound'
<1>0. Types /\ Shape(stack) /\ BucketInv
  BY DEF Sound
<1>1. PICK s : s = stack
  OBVIOUS
<1>2. Shape(s) /\ Base(s) # "end" /\ \E fatal \in BOOLEAN : Bailout(s, st, fatal)
  BY <1>0, <1>1
<1>3. /\ \E t : /\ stack' = t /\ Shape(t)
                /\ Base(s) \in FreeingBases => Base(t) \in FreeingBases
                /\ \A p \in Objs : /\ IsFreeing(t, p) <=> IsFreeing(s, p)
                                   /\ HeldBy(t, p) + lost'[p] = HeldBy(s, p) + lost[p]
                /\ \A j \in DOMAIN t : t[j].at \in Relying =>
                                           \E i \in DOMAIN s : SameRole(t[j], s[i])
      /\ lost' \in [Objs -> Nat] /\ bailed' \in BOOLEAN
      /\ store' \in [Handles -> Bucket]
      /\ \A g \in Handles :
             /\ store'[g].valid = st[g].valid /\ store'[g].obj = st[g].obj
             /\ store'[g].refcount = st[g].refcount
             /\ st[g].called => store'[g].called
             /\ ~ st[g].valid => store'[g] = st[g]
  BY <1>0, <1>2, Leaving
<1>4. PICK t : /\ stack' = t /\ Shape(t)
               /\ Base(s) \in FreeingBases => Base(t) \in FreeingBases
               /\ \A p \in Objs : /\ IsFreeing(t, p) <=> IsFreeing(s, p)
                                  /\ HeldBy(t, p) + lost'[p] = HeldBy(s, p) + lost[p]
               /\ \A j \in DOMAIN t : t[j].at \in Relying =>
                                          \E i \in DOMAIN s : SameRole(t[j], s[i])
  BY <1>3
<1>5. Types'
  <2>1. stack' \in Seq(Frames) \ {<<>>}
    BY <1>4 DEF Shape
  <2>2. QED
    BY <1>0, <1>3, <2>1 DEF Types, script
<1>6. \A p \in Objs : Refs(p)' = Refs(p) /\ Refs(p) \in Nat
  <2>1. ASSUME NEW p \in Objs
        PROVE  Refs(p)' = Refs(p) /\ Refs(p) \in Nat
    <3>1. /\ Refs(p)' = Refs(p) + (vars'[p] - vars[p]) + (HeldBy(stack', p) - HeldBy(stack, p))
                                 + (lost'[p] - lost[p])
          /\ Refs(p) \in Nat
          /\ vars[p] \in Nat /\ lost[p] \in Nat /\ lost'[p] \in Nat
          /\ HeldBy(stack, p) \in Nat /\ HeldBy(stack', p) \in Nat
      BY <1>0, <1>5, RefsChange DEF script
    <3>2. vars'[p] = vars[p]
      BY DEF script
    <3>3. HeldBy(stack', p) + lost'[p] = HeldBy(stack, p) + lost[p]
      BY <1>1, <1>4
    <3>4. QED
      BY <3>1, <3>2, <3>3
  <2>2. QED
    BY <2>1
<1>7. \A p \in Created : store'[handle[p]].refcount = store[handle[p]].refcount + Refs(p)' - Refs(p)
  <2>1. ASSUME NEW p \in Created
        PROVE  store'[handle[p]].refcount = store[handle[p]].refcount + Refs(p)' - Refs(p)
    <3>1. p \in Objs /\ handle[p] \in Handles /\ store[handle[p]].refcount \in Int
      BY <1>0 DEF Types, Created, Bucket
    <3>2. store'[handle[p]].refcount = store[handle[p]].refcount
      BY <3>1, <1>3
    <3>3. QED
      BY <3>1, <3>2, <1>6
  <2>2. QED
    BY <2>1
<1>8. \A g \in Handles : /\ store'[g].valid = store[g].valid /\ store'[g].obj = store[g].obj
                         /\ store[g].called => store'[g].called
                         /\ g >= top => store'[g] = store[g]
  <2>1. \A g \in Handles : g >= top => ~ store[g].valid
    <3>1. \A g \in Handles : g >= top => ~ (g < top)
      BY <1>0, Constants DEF Types
    <3>2. QED
      BY <3>1, <1>0 DEF BucketInv, NoBucket
  <2>2. QED
    BY <2>1, <1>3
<1>9. \A k \in DOMAIN t : \/ Relies(t[k])'
                          \/ \E j \in DOMAIN stack : SameRole(t[k], stack[j])
  <2>1. ASSUME NEW k \in DOMAIN t, t[k].at \notin Relying
        PROVE  Relies(t[k])'
    BY <2>1 DEF Relies, Relying
  <2>2. QED
    BY <2>1, <1>1, <1>4
<1>10. \A p \in Objs : IsFreeing(t, p) <=> Freeing(p)
  BY <1>1, <1>4 DEF Freeing
<1>11. UNCHANGED <<top, freeList, handle, freed, buffered, destructed>>
  BY DEF script
<1>12. Base(stack) \in FreeingBases => Base(t) \in FreeingBases
  BY <1>1, <1>4
<1>13. QED
  BY <1>4, <1>5, <1>6, <1>7, <1>8, <1>9, <1>10, <1>11, <1>12, SoundStep

\* exit() abandons what the frames up to the zend_try hold.
LEMMA StepExit ==
    ASSUME Sound, Exit PROVE Sound'
<1>1. InScript /\ store \in [Handles -> Bucket] /\ \E fatal \in BOOLEAN : Bailout(stack, store, fatal)
  BY DEF Exit, Sound, Types
<1>2. Base(stack) # "end"
  BY <1>1, StatementBase
<1>3. PICK st : st = store
  OBVIOUS
<1>4. QED
  BY <1>1, <1>2, <1>3, BailStep DEF Exit

\* So does a fatal error, which also marks every object as destructed.
LEMMA StepFatal ==
    ASSUME Sound, Fatal PROVE Sound'
<1>1. InScript /\ store \in [Handles -> Bucket]
  BY DEF Fatal, Sound, Types
<1>2. Base(stack) # "end"
  BY <1>1, StatementBase
<1>3. PICK st : st = MarkDestructed(store)
  OBVIOUS
<1>4. \E fatal \in BOOLEAN : Bailout(stack, st, fatal)
  BY <1>3 DEF Fatal
<1>5. /\ st \in [Handles -> Bucket]
      /\ \A h \in Handles : /\ st[h].valid = store[h].valid /\ st[h].obj = store[h].obj
                            /\ st[h].refcount = store[h].refcount
                            /\ store[h].called => st[h].called
                            /\ ~ store[h].valid => st[h] = store[h]
  BY <1>1, <1>3, Marking
<1>6. QED
  BY <1>2, <1>4, <1>5, BailStep DEF Fatal
-----------------------------------------------------------------------------
\* The write of a bucket whose destructor is called.
Recall(st, h, d) == [st EXCEPT ![h].called = TRUE, ![h].refcount = @ + d]
LEMMA Recalled ==
    ASSUME NEW st \in [Handles -> Bucket], NEW h \in Handles, NEW d \in Int
    PROVE  LET new == Recall(st, h, d) IN
           /\ new \in [Handles -> Bucket]
           /\ new[h].refcount = st[h].refcount + d /\ new[h].called
           /\ \A g \in Handles : /\ new[g].valid = st[g].valid /\ new[g].obj = st[g].obj
                                 /\ st[g].called => new[g].called
                                 /\ g # h => new[g] = st[g]
<1>0. PICK new : new = [st EXCEPT ![h].called = TRUE, ![h].refcount = @ + d]
  OBVIOUS
<1>1. PICK u \in Bucket : u = st[h]
  OBVIOUS
<1>2. PICK w : w = [u EXCEPT !.called = TRUE]
  OBVIOUS
<1>3. /\ w \in Bucket /\ w.refcount = u.refcount /\ w.called /\ w.valid = u.valid /\ w.obj = u.obj
  BY <1>2 DEF Bucket
<1>a. PICK v : v = [w EXCEPT !.refcount = u.refcount + d]
  OBVIOUS
<1>4. /\ v \in Bucket /\ v.refcount = st[h].refcount + d /\ v.called /\ v.valid = st[h].valid
      /\ v.obj = st[h].obj
  BY <1>1, <1>3, <1>a DEF Bucket
<1>5. v = [u EXCEPT !.called = TRUE, !.refcount = @ + d]
  BY <1>2, <1>a DEF Bucket
<1>6. new = [st EXCEPT ![h] = v]
  BY <1>0, <1>1, <1>5
<1>7. new \in [Handles -> Bucket] /\ new[h] = v /\ \A g \in Handles : g # h => new[g] = st[g]
  BY <1>4, <1>6
<1>8. \A g \in Handles : /\ new[g].valid = st[g].valid /\ new[g].obj = st[g].obj
                         /\ st[g].called => new[g].called
  BY <1>4, <1>7
<1>9. QED
  BY <1>0, <1>4, <1>7, <1>8 DEF Recall

\* An object's destructor is called, with d zvals of its own in the frames of t.
Marked(o, h, d) ==
    /\ store' \in [Handles -> Bucket]
    /\ store'[h].refcount = store[h].refcount + d /\ store'[h].called
    /\ \A g \in Handles : /\ store'[g].valid = store[g].valid /\ store'[g].obj = store[g].obj
                          /\ store[g].called => store'[g].called
                          /\ g # h => store'[g] = store[g]
    /\ destructed' = [destructed EXCEPT ![o] = @ + 1]
Entered(o, h, d, t) ==
    /\ stack' = t /\ Shape(t)
    /\ Base(stack) \in FreeingBases => Base(t) \in FreeingBases
    /\ \A k \in DOMAIN t : t[k].at \in Relying =>
           \/ t[k].at = "dtor_done" /\ t[k].o = o
           \/ t[k].at = "called" /\ t[k].o = o /\ t[k].i = h
           \/ \E j \in DOMAIN stack : SameRole(t[k], stack[j])
    /\ \A p \in Objs : /\ HeldBy(t, p) = HeldBy(stack, p) + IF p = o THEN d ELSE 0
                       /\ IsFreeing(t, p) <=> Freeing(p)
LEMMA Destructing ==
    ASSUME Sound, NEW o \in Created, Keeps(o), ~ Freeing(o), NEW d \in {1, 2},
           NEW h \in Handles, h = handle[o], store[h].valid, h < top,
           Marked(o, h, d), NEW t, Entered(o, h, d, t),
           UNCHANGED <<top, size, freeList, gen, buffered, script, steps, lost, freed, bailed>>
    PROVE  Sound'
<1>m. /\ store' \in [Handles -> Bucket]
      /\ store'[h].refcount = store[h].refcount + d /\ store'[h].called
      /\ \A g \in Handles : /\ store'[g].valid = store[g].valid /\ store'[g].obj = store[g].obj
                            /\ store[g].called => store'[g].called
                            /\ g # h => store'[g] = store[g]
      /\ destructed' = [destructed EXCEPT ![o] = @ + 1]
  BY DEF Marked
<1>e. /\ stack' = t /\ Shape(t)
      /\ Base(stack) \in FreeingBases => Base(t) \in FreeingBases
      /\ \A k \in DOMAIN t : t[k].at \in Relying =>
             \/ t[k].at = "dtor_done" /\ t[k].o = o
             \/ t[k].at = "called" /\ t[k].o = o /\ t[k].i = h
             \/ \E j \in DOMAIN stack : SameRole(t[k], stack[j])
      /\ \A p \in Objs : /\ HeldBy(t, p) = HeldBy(stack, p) + IF p = o THEN d ELSE 0
                         /\ IsFreeing(t, p) <=> Freeing(p)
  BY DEF Entered
<1> USE <1>m, <1>e
<1>0. Types /\ BucketInv
  BY DEF Sound
<1>1. o \in Objs
  BY DEF Created
<1>5. destructed' \in [Objs -> Nat] /\ \A p \in Objs : p # o => destructed'[p] = destructed[p]
  <2>1. destructed \in [Objs -> Nat]
    BY <1>0 DEF Types
  <2>2. QED
    BY <2>1, <1>1
<1>6. Types'
  <2>1. stack' \in Seq(Frames) \ {<<>>}
    BY DEF Shape
  <2>2. QED
    BY <1>0, <1>5, <2>1 DEF Types, script
<1>7. \A k \in DOMAIN t : \/ Relies(t[k])'
                          \/ \E j \in DOMAIN stack : SameRole(t[k], stack[j])
  <2>1. ASSUME NEW f, f.at \notin Relying PROVE Relies(f)'
    BY <2>1 DEF Relies, Relying
  <2>2. ASSUME NEW f, f.at = "dtor_done", f.o = o PROVE Relies(f)'
    <3>1. o \in Created' /\ Keeps(o)' /\ store'[handle'[o]].valid /\ store'[handle'[o]].called
      BY <1>1 DEF Created, Keeps, script
    <3>2. QED
      BY <2>2, <3>1 DEF Relies
  <2>3. ASSUME NEW f, f.at = "called", f.o = o, f.i = h PROVE Relies(f)'
    BY <2>3 DEF Relies, script
  <2>4. QED
    BY <2>1, <2>2, <2>3
<1>8. \A g \in Handles : /\ store'[g].valid = store[g].valid /\ store'[g].obj = store[g].obj
                         /\ store[g].called => store'[g].called
                         /\ store'[g].refcount = store[g].refcount + IF g = handle[o] THEN d ELSE 0
                         /\ g >= top => store'[g] = store[g]
  <2>1. ASSUME NEW g \in Handles
        PROVE  store'[g].refcount = store[g].refcount + IF g = handle[o] THEN d ELSE 0
    <3>1. store[g].refcount \in Int
      BY <1>0 DEF Types, Bucket
    <3>2. QED
      BY <3>1
  <2>2. \A g \in Handles : g >= top => g # h
    BY <1>0, Constants DEF Types
  <2>3. QED
    BY <2>1, <2>2
<1>9. \A p \in Objs : /\ HeldBy(t, p) + lost'[p] = HeldBy(stack, p) + lost[p] + IF p = o THEN d ELSE 0
                      /\ IsFreeing(t, p) <=> Freeing(p)
                      /\ destructed'[p] # destructed[p] => p \in Created /\ store'[handle[p]].called
  <2>1. ASSUME NEW p \in Objs
        PROVE  HeldBy(t, p) + lost'[p] = HeldBy(stack, p) + lost[p] + IF p = o THEN d ELSE 0
    <3>1. HeldBy(stack, p) \in Nat /\ lost[p] \in Nat
      BY <1>0, RefsParts
    <3>2. lost'[p] = lost[p] /\ HeldBy(t, p) = HeldBy(stack, p) + IF p = o THEN d ELSE 0
      OBVIOUS
    <3>3. QED
      BY <3>1, <3>2
  <2>2. QED
    BY <2>1, <1>5
<1>10. /\ UNCHANGED <<top, freeList, handle, freed, vars, props>>
       /\ \A g \in buffered' : g \in buffered \/ (g = handle[o] /\ store[g].valid)
  BY DEF script
<1>11. d \in Int /\ (d < 0 \/ store[handle[o]].valid)
  OBVIOUS
<1>12. QED
  BY <1>6, <1>7, <1>8, <1>9, <1>10, <1>11, Counting

\* del_ref starts a destructor: its frame and the one it returns to have a zval each.
LEMMA StepDelRefDestruct ==
    ASSUME Sound, DelRefDestruct PROVE Sound'
<1>0. Types /\ Shape(stack) /\ stack[1].at = "del_ref"
  BY DEF Sound, DelRefDestruct, At
<1>1. stack[1].at \in Inner
  BY <1>0 DEF Inner
<1>2. PICK r : r = Tail(stack)
  OBVIOUS
<1>3. /\ stack[1] \in Frames /\ FrameOK(stack[1]) /\ stack[1].o \in Objs
      /\ Shape(r) /\ Base(r) = Base(stack) /\ Base(stack) \notin {"free", "end"}
      /\ \A p \in Objs : /\ HeldBy(stack, p) = Holds(stack[1], p) + HeldBy(r, p)
                         /\ Holds(stack[1], p) \in {0, 1, 2} /\ HeldBy(r, p) \in Nat
                         /\ IsFreeing(stack, p) <=> (stack[1].at = "freeing" /\ stack[1].o = p) \/ IsFreeing(r, p)
      /\ \A k \in DOMAIN r : \E j \in DOMAIN stack : r[k] = stack[j]
  BY <1>0, <1>1, <1>2, Popped
<1>4. PICK o \in Objs : o = stack[1].o
  BY <1>3
<1>5. Refs(o) > 0 /\ ~ Freeing(o)
  BY <1>0, <1>4, Live
<1>6. o \in Created /\ Keeps(o) /\ handle[o] \in Handles /\ handle[o] < top
  BY <1>5, Referred
<1>7. PICK h \in Handles : h = handle[o]
  BY <1>6
<1>8. /\ store[h].valid
      /\ store' = [store EXCEPT ![h].called = TRUE, ![h].refcount = @ + 1]
      /\ destructed' = [destructed EXCEPT ![o] = @ + 1]
      /\ stack' = <<Frame("dtor", o, 0), Frame("dtor_done", o, 0)>> \o r
  BY <1>2, <1>4, <1>6, <1>7 DEF DelRefDestruct, b, This, Keeps
<1>9. PICK f : f = Frame("dtor", o, 0)
  OBVIOUS
<1>10. PICK g : g = Frame("dtor_done", o, 0)
  OBVIOUS
<1>11. /\ f \in Frames /\ FrameOK(f) /\ f.at = "dtor" /\ f.o = o
       /\ \A p \in Objs : Holds(f, p) = IF p = o THEN 1 ELSE 0
  BY <1>9, FrameType, Constants DEF Labels, Inner
<1>12. /\ g \in Frames /\ FrameOK(g) /\ g.at = "dtor_done" /\ g.o = o
       /\ \A p \in Objs : Holds(g, p) = IF p = o THEN 1 ELSE 0
  BY <1>10, FrameType, Constants DEF Labels, Inner
<1>13. f.at \in Inner /\ g.at \in Inner
  BY <1>11, <1>12 DEF Inner
<1>14. PICK s : s = <<g>> \o r
  OBVIOUS
<1>15. PICK t : t = <<f>> \o s
  OBVIOUS
<1>16. /\ Shape(s) /\ Base(s) = Base(r)
       /\ \A p \in Objs : /\ HeldBy(s, p) = Holds(g, p) + HeldBy(r, p)
                          /\ IsFreeing(s, p) <=> (g.at = "freeing" /\ g.o = p) \/ IsFreeing(r, p)
       /\ \A k \in DOMAIN s : s[k] = g \/ \E j \in DOMAIN r : s[k] = r[j]
  <2>1. Shape(r) /\ Base(r) \notin {"free", "end"} /\ g \in Frames /\ FrameOK(g) /\ g.at \in Inner
    BY <1>3, <1>12, <1>13
  <2>2. QED
    BY <2>1, <1>14, Pushed
<1>17. /\ Shape(t) /\ Base(t) = Base(s)
       /\ \A p \in Objs : /\ HeldBy(t, p) = Holds(f, p) + HeldBy(s, p)
                          /\ IsFreeing(t, p) <=> (f.at = "freeing" /\ f.o = p) \/ IsFreeing(s, p)
       /\ \A k \in DOMAIN t : t[k] = f \/ \E j \in DOMAIN s : t[k] = s[j]
  <2>1. Shape(s) /\ Base(s) \notin {"free", "end"} /\ f \in Frames /\ FrameOK(f) /\ f.at \in Inner
    BY <1>3, <1>11, <1>13, <1>16
  <2>2. QED
    BY <2>1, <1>15, Pushed
<1>18. stack' = t
  <2>1. <<f, g>> \o r = <<f>> \o (<<g>> \o r)
    BY <1>3, <1>11, <1>12, TwoFrames DEF Shape
  <2>2. QED
    BY <2>1, <1>8, <1>9, <1>10, <1>14, <1>15
<1>19. \A k \in DOMAIN t : t[k].at \in Relying =>
           \/ t[k].at = "dtor_done" /\ t[k].o = o
           \/ t[k].at = "called" /\ t[k].o = o /\ t[k].i = h
           \/ \E j \in DOMAIN stack : SameRole(t[k], stack[j])
  BY <1>3, <1>11, <1>12, <1>16, <1>17 DEF SameRole, Relying
<1>20. \A p \in Objs : /\ HeldBy(t, p) = HeldBy(stack, p) + IF p = o THEN 1 ELSE 0
                       /\ IsFreeing(t, p) <=> Freeing(p)
  <2>1. ASSUME NEW p \in Objs
        PROVE  HeldBy(t, p) = HeldBy(stack, p) + IF p = o THEN 1 ELSE 0
    <3>1. Holds(stack[1], p) = IF p = o THEN 1 ELSE 0
      BY <1>0, <1>3, <1>4 DEF Holds, FrameOK
    <3>2. HeldBy(stack, p) = Holds(stack[1], p) + HeldBy(r, p) /\ HeldBy(r, p) \in Nat
      BY <1>3
    <3>3. HeldBy(t, p) = Holds(f, p) + (Holds(g, p) + HeldBy(r, p))
      BY <1>16, <1>17
    <3>4. QED
      BY <3>1, <3>2, <3>3, <1>11, <1>12
  <2>2. \A p \in Objs : IsFreeing(t, p) <=> Freeing(p)
    BY <1>0, <1>3, <1>11, <1>12, <1>16, <1>17 DEF Freeing
  <2>3. QED
    BY <2>1, <2>2
<1>21. UNCHANGED <<top, size, freeList, gen, buffered, script, steps, lost, freed, bailed>>
  BY DEF DelRefDestruct
<1>22. Base(stack) \in FreeingBases => Base(t) \in FreeingBases
  BY <1>3, <1>16, <1>17
<1>23. PICK d \in {1, 2} : d = 1
  OBVIOUS
<1>24. Entered(o, h, d, t)
  <2>1. \A p \in Objs : /\ HeldBy(t, p) = HeldBy(stack, p) + IF p = o THEN d ELSE 0
                        /\ IsFreeing(t, p) <=> Freeing(p)
    BY <1>20, <1>23
  <2>2. QED
    BY <2>1, <1>17, <1>18, <1>19, <1>22 DEF Entered
<1>25. Marked(o, h, d)
  <2>1. store \in [Handles -> Bucket] /\ d \in Int
    BY <1>0 DEF Types
  <2>2. PICK new : new = Recall(store, h, d)
    OBVIOUS
  <2>3. store' = new
    BY <1>8, <1>23, <2>2 DEF Recall
  <2>4. /\ new \in [Handles -> Bucket]
        /\ new[h].refcount = store[h].refcount + d /\ new[h].called
        /\ \A e \in Handles : /\ new[e].valid = store[e].valid /\ new[e].obj = store[e].obj
                              /\ store[e].called => new[e].called
                              /\ e # h => new[e] = store[e]
    BY <2>1, <2>2, Recalled
  <2>5. QED
    BY <2>3, <2>4, <1>8 DEF Marked
<1>26. /\ o \in Created /\ Keeps(o) /\ ~ Freeing(o)
       /\ h = handle[o] /\ store[h].valid /\ h < top
  BY <1>5, <1>6, <1>7, <1>8
<1>27. QED
  BY <1>21, <1>24, <1>25, <1>26, Destructing

\* The loop over the store at the end of the request.
LEMMA CalledTop ==
    ASSUME Sound, At("called")
    PROVE  /\ Types /\ Shape(stack) /\ stack[1] \in Frames /\ FrameOK(stack[1])
           /\ stack[1].at = "called" /\ stack[1].at \in Bottom /\ Base(stack) = "called"
           /\ stack[1].i \in 1..(MaxObjs + 1) /\ stack[1].todo = {}
           /\ Relies(stack[1])
<1>1. Types /\ Shape(stack) /\ stack[1].at = "called"
  BY DEF Sound, At
<1>2. stack[1].at \in Bottom
  BY <1>1 DEF Bottom, Labels, Inner
<1>3. stack[1] \in Frames /\ FrameOK(stack[1]) /\ Base(stack) = "called"
  BY <1>1, <1>2, ShapeTop
<1>4. stack[1].i \in 1..(MaxObjs + 1) /\ stack[1].todo = {}
  BY <1>1, <1>3 DEF Frames, FrameOK
<1>5. 1 \in DOMAIN stack
  BY <1>1, StackTop DEF Shape
<1>6. Relies(stack[1])
  BY <1>5 DEF Sound, CallsInv
<1>7. QED
  BY <1>1, <1>2, <1>3, <1>4, <1>6

\* call_destructors holds a reference while the destructor runs.
LEMMA StepCallDestructor ==
    ASSUME Sound, CallDestructor PROVE Sound'
<1>0. /\ Types /\ Shape(stack) /\ stack[1] \in Frames /\ FrameOK(stack[1])
      /\ stack[1].at = "called" /\ stack[1].at \in Bottom /\ Base(stack) = "called"
      /\ stack[1].i \in 1..(MaxObjs + 1) /\ stack[1].todo = {}
  BY CalledTop DEF CallDestructor
<1>1. stack[1].o = 0 /\ stack[1].i < top
  BY DEF CallDestructor, This
<1>2. \A p \in Objs : Holds(stack[1], p) = 0
  BY <1>0, <1>1, HoldsNothing
<1>3. PICK i \in 1..(MaxObjs + 1) : i = stack[1].i /\ i < top
  BY <1>0, <1>1
<1>4. CASE ~ (store[i].valid /\ ~ store[i].called)
  <2>1. /\ Replace(Frame("called", 0, i + 1))
        /\ UNCHANGED <<store, top, size, freeList, gen, buffered, script, steps, ghosts>>
    BY <1>3, <1>4 DEF CallDestructor, ghosts
  <2>2. i + 1 \in 0..(MaxObjs + 1)
    <3>1. top \in 1..(MaxObjs + 1)
      BY <1>0 DEF Types
    <3>2. QED
      BY <3>1, <1>3, Constants
  <2>3. PICK f : f = Frame("called", 0, i + 1)
    OBVIOUS
  <2>4. f \in Frames /\ FrameOK(f) /\ f.at = "called" /\ f.o = 0
    BY <2>2, <2>3, FrameType DEF Labels, Inner
  <2>5. Relies(f)' /\ f.at \in Bottom
    BY <2>4 DEF Relies, Bottom, Labels, Inner
  <2>6. \A p \in Objs : Holds(f, p) = Holds(stack[1], p)
    BY <1>2, <2>4, <2>5, HoldsNothing
  <2>7. QED
    BY <1>0, <2>1, <2>3, <2>4, <2>5, <2>6, JumpStep DEF FreeingBases
<1>5. CASE store[i].valid /\ ~ store[i].called
  <2>1. PICK o : o = store[i].obj
    OBVIOUS
  <2>2. /\ store' = [store EXCEPT ![i].called = TRUE, ![i].refcount = @ + 2]
        /\ destructed' = [destructed EXCEPT ![o] = @ + 1]
        /\ stack' = <<Frame("dtor", o, 0), Frame("called", o, i)>>
        /\ UNCHANGED <<top, size, freeList, gen, buffered, script, steps, lost, freed, bailed>>
    BY <1>3, <1>5, <2>1 DEF CallDestructor
  <2>3. i \in Handles /\ 0 \in Objs \cup {0} /\ i \in 0..(MaxObjs + 1)
    <3>1. top \in 1..(MaxObjs + 1)
      BY <1>0 DEF Types
    <3>2. QED
      BY <3>1, <1>3, Constants
  <2>4. o \in Created /\ handle[o] = i /\ o \in Objs
    <3>1. BucketInv
      BY DEF Sound
    <3>2. QED
      BY <3>1, <1>3, <2>1, <2>3 DEF BucketInv, Created
  <2>5. Keeps(o)
    BY <2>1, <2>4 DEF Keeps
  <2>6. PICK f : f = Frame("dtor", o, 0)
    OBVIOUS
  <2>7. PICK g : g = Frame("called", o, i)
    OBVIOUS
  <2>8. /\ f \in Frames /\ FrameOK(f) /\ f.at = "dtor" /\ f.o = o
        /\ \A p \in Objs : Holds(f, p) = IF p = o THEN 1 ELSE 0
    BY <2>4, <2>6, FrameType, Constants DEF Labels, Inner
  <2>9. /\ g \in Frames /\ FrameOK(g) /\ g.at = "called" /\ g.o = o /\ g.i = i
        /\ \A p \in Objs : Holds(g, p) = IF p = o THEN 1 ELSE 0
    BY <1>3, <2>3, <2>4, <2>7, FrameType DEF Labels, Inner
  <2>10. f.at \in Inner /\ g.at \in Bottom
    BY <2>8, <2>9 DEF Inner, Bottom, Labels
  <2>11. PICK s : s = <<g>> \o Tail(stack)
    OBVIOUS
  <2>12. /\ s = <<g>> /\ Shape(s) /\ Base(s) = "called"
         /\ \A p \in Objs : /\ HeldBy(s, p) = Holds(g, p) /\ HeldBy(stack, p) = Holds(stack[1], p)
                            /\ ~ IsFreeing(s, p) /\ ~ IsFreeing(stack, p)
         /\ \A k \in DOMAIN s : s[k] = g
    BY <1>0, <2>9, <2>10, <2>11, Jumped
  <2>13. PICK t : t = <<f>> \o s
    OBVIOUS
  <2>14. /\ Shape(t) /\ Base(t) = Base(s)
         /\ \A p \in Objs : /\ HeldBy(t, p) = Holds(f, p) + HeldBy(s, p)
                            /\ IsFreeing(t, p) <=> (f.at = "freeing" /\ f.o = p) \/ IsFreeing(s, p)
         /\ \A k \in DOMAIN t : t[k] = f \/ \E j \in DOMAIN s : t[k] = s[j]
    <3>1. Shape(s) /\ Base(s) \notin {"free", "end"} /\ f \in Frames /\ FrameOK(f) /\ f.at \in Inner
      BY <2>8, <2>10, <2>12
    <3>2. QED
      BY <3>1, <2>13, Pushed
  <2>15. stack' = t
    <3>1. /\ <<f, g>> \o <<>> = <<f>> \o (<<g>> \o <<>>)
          /\ <<g>> \o <<>> = <<g>>
      <4>1. <<>> \in Seq(Frames) /\ <<g>> \in Seq(Frames)
        BY <2>9
      <4>2. QED
        BY <4>1, <2>8, <2>9, TwoFrames, ConcatEmptySeq
    <3>2. <<f, g>> \o <<>> = <<f, g>>
      <4>1. <<f, g>> \in Seq(Frames)
        BY <2>8, <2>9
      <4>2. QED
        BY <4>1, ConcatEmptySeq
    <3>3. QED
      BY <3>1, <3>2, <2>2, <2>6, <2>7, <2>12, <2>13
  <2>16. Entered(o, i, 2, t)
    <3>1. \A k \in DOMAIN t : t[k].at \in Relying =>
              \/ t[k].at = "dtor_done" /\ t[k].o = o
              \/ t[k].at = "called" /\ t[k].o = o /\ t[k].i = i
              \/ \E j \in DOMAIN stack : SameRole(t[k], stack[j])
      BY <2>8, <2>9, <2>12, <2>14 DEF Relying
    <3>2. \A p \in Objs : HeldBy(t, p) = HeldBy(stack, p) + IF p = o THEN 2 ELSE 0
      BY <1>2, <2>8, <2>9, <2>12, <2>14
    <3>3. \A p \in Objs : IsFreeing(t, p) <=> Freeing(p)
      BY <2>8, <2>12, <2>14 DEF Freeing
    <3>4. Base(stack) \notin FreeingBases
      BY <1>0 DEF FreeingBases
    <3>5. QED
      BY <2>14, <2>15, <3>1, <3>2, <3>3, <3>4 DEF Entered
  <2>17. Marked(o, i, 2)
    <3>1. store \in [Handles -> Bucket] /\ 2 \in Int
      BY <1>0 DEF Types
    <3>2. PICK new : new = Recall(store, i, 2)
      OBVIOUS
    <3>3. store' = new
      BY <2>2, <3>2 DEF Recall
    <3>4. /\ new \in [Handles -> Bucket]
          /\ new[i].refcount = store[i].refcount + 2 /\ new[i].called
          /\ \A e \in Handles : /\ new[e].valid = store[e].valid /\ new[e].obj = store[e].obj
                                /\ store[e].called => new[e].called
                                /\ e # i => new[e] = store[e]
      BY <2>3, <3>1, <3>2, Recalled
    <3>5. QED
      BY <3>3, <3>4, <2>2 DEF Marked
  <2>18. ~ Freeing(o)
    BY <2>4, <2>12 DEF Freeing
  <2>19. QED
    BY <1>3, <1>5, <2>2, <2>3, <2>4, <2>5, <2>16, <2>17, <2>18, Destructing
<1>6. QED
  BY <1>4, <1>5

\* ... and gives it back.
LEMMA StepDestructorCalled ==
    ASSUME Sound, DestructorCalled PROVE Sound'
<1>0. /\ Types /\ Shape(stack) /\ stack[1] \in Frames /\ FrameOK(stack[1])
      /\ stack[1].at = "called" /\ stack[1].at \in Bottom /\ Base(stack) = "called"
      /\ stack[1].i \in 1..(MaxObjs + 1) /\ stack[1].todo = {}
      /\ Relies(stack[1])
  BY CalledTop DEF DestructorCalled
<1>1. PICK o \in Objs : o = stack[1].o
  BY <1>0 DEF DestructorCalled, This, Frames
<1>2. Refs(o) > 0 /\ ~ Freeing(o)
  BY <1>0, <1>1, Live
<1>3. o \in Created /\ Keeps(o) /\ handle[o] \in Handles /\ handle[o] < top
  BY <1>2, Referred
<1>4. PICK h \in Handles : h = handle[o] /\ h = stack[1].i
  BY <1>0, <1>1, <1>3 DEF Relies, DestructorCalled, This
<1>5. PICK n \in Int : n = store[h].refcount - 1
  BY <1>0 DEF Types, Bucket
<1>6. store' = [store EXCEPT ![h].refcount = n]
  BY <1>0, <1>4, <1>5 DEF Types, DestructorCalled
<1>7. /\ store' \in [Handles -> Bucket] /\ store'[h].refcount = n
      /\ \A g \in Handles : /\ store'[g].valid = store[g].valid /\ store'[g].obj = store[g].obj
                            /\ store'[g].called = store[g].called
                            /\ g # h => store'[g] = store[g]
  <2>1. store \in [Handles -> Bucket]
    BY <1>0 DEF Types
  <2>2. QED
    BY <2>1, <1>6, Recount
<1>8. PICK f : f = Frame("called", 0, h + 1)
  OBVIOUS
<1>9. f \in Frames /\ FrameOK(f) /\ f.at = "called" /\ f.o = 0
  <2>1. h + 1 \in 0..(MaxObjs + 1) /\ h + 1 >= 1
    BY Constants
  <2>2. QED
    BY <2>1, <1>8, FrameType DEF Labels, Inner
<1>10. Relies(f)' /\ f.at \in Bottom
  BY <1>9 DEF Relies, Bottom, Labels, Inner
<1>11. PICK t : t = <<f>> \o Tail(stack)
  OBVIOUS
<1>12. /\ t = <<f>> /\ Shape(t) /\ Base(t) = "called"
       /\ \A p \in Objs : /\ HeldBy(t, p) = Holds(f, p) /\ HeldBy(stack, p) = Holds(stack[1], p)
                          /\ ~ IsFreeing(t, p) /\ ~ IsFreeing(stack, p)
       /\ \A k \in DOMAIN t : t[k] = f
  BY <1>0, <1>9, <1>10, <1>11, Jumped
<1>13. stack' = t
  BY <1>4, <1>8, <1>11 DEF DestructorCalled, Replace
<1>14. Types'
  <2>1. stack' \in Seq(Frames) \ {<<>>}
    BY <1>12, <1>13 DEF Shape
  <2>2. QED
    BY <1>0, <1>7, <2>1 DEF Types, script, ghosts, DestructorCalled
<1>15. \A p \in Objs : /\ HeldBy(t, p) + lost'[p] = HeldBy(stack, p) + lost[p] + IF p = o THEN -1 ELSE 0
                       /\ IsFreeing(t, p) <=> Freeing(p)
                       /\ destructed'[p] = destructed[p]
  <2>1. ASSUME NEW p \in Objs
        PROVE  HeldBy(t, p) + lost'[p] = HeldBy(stack, p) + lost[p] + IF p = o THEN -1 ELSE 0
    <3>1. Holds(stack[1], p) = IF p = o THEN 1 ELSE 0
      BY <1>0, <1>1 DEF Holds
    <3>2. Holds(f, p) = 0
      BY <1>9, <1>10, HoldsNothing
    <3>3. lost[p] \in Nat /\ lost'[p] = lost[p]
      BY <1>0 DEF Types, DestructorCalled, ghosts
    <3>4. HeldBy(t, p) = 0 /\ HeldBy(stack, p) = IF p = o THEN 1 ELSE 0
      BY <1>12, <3>1, <3>2
    <3>5. QED
      BY <3>3, <3>4
  <2>2. QED
    BY <2>1, <1>12 DEF Freeing, DestructorCalled, ghosts
<1>16. \A g \in Handles : /\ store'[g].valid = store[g].valid /\ store'[g].obj = store[g].obj
                          /\ store[g].called => store'[g].called
                          /\ store'[g].refcount = store[g].refcount + IF g = handle[o] THEN -1 ELSE 0
                          /\ g >= top => store'[g] = store[g]
  <2>1. ASSUME NEW g \in Handles
        PROVE  store'[g].refcount = store[g].refcount + IF g = handle[o] THEN -1 ELSE 0
    <3>1. store[g].refcount \in Int
      BY <1>0 DEF Types, Bucket
    <3>2. QED
      BY <3>1, <1>4, <1>5, <1>7
  <2>2. \A g \in Handles : g >= top => g # h
    <3>1. top \in 1..(MaxObjs + 1) /\ h < top
      BY <1>0, <1>3, <1>4 DEF Types
    <3>2. QED
      BY <3>1, Constants
  <2>3. QED
    BY <2>1, <2>2, <1>7
<1>17. /\ UNCHANGED <<top, freeList, handle, freed, vars, props>>
       /\ \A g \in buffered' : g \in buffered \/ (g = handle[o] /\ store[g].valid)
  BY DEF DestructorCalled, script, ghosts
<1>18. -1 \in Int /\ -1 < 0
  OBVIOUS
<1>19. Base(stack) \notin FreeingBases
  BY <1>0 DEF FreeingBases
<1>20. \A k \in DOMAIN t : Relies(t[k])'
  BY <1>10, <1>12
<1>21. QED
  BY <1>2, <1>3, <1>12, <1>13, <1>14, <1>15, <1>16, <1>17, <1>18, <1>19, <1>20, Counting
-----------------------------------------------------------------------------
\* The properties of an object go from its table to the frame that destroys them.
LEMMA Discarding ==
    ASSUME Types, Types', NEW o \in Objs, props' = [props EXCEPT ![o] = {}], UNCHANGED <<vars, lost>>,
           \A p \in Objs : HeldBy(stack', p) = HeldBy(stack, p) + IF p \in props[o] THEN 1 ELSE 0
    PROVE  \A p \in Objs : Refs(p)' = Refs(p) /\ Refs(p) \in Nat
<1>1. ASSUME NEW p \in Objs
      PROVE  Refs(p)' = Refs(p) /\ Refs(p) \in Nat
  <2>1. /\ IsFiniteSet(Stored(p)) /\ Cardinality(Stored(p)) \in Nat
        /\ vars[p] \in Nat /\ HeldBy(stack, p) \in Nat /\ lost[p] \in Nat
        /\ Refs(p) = vars[p] + Cardinality(Stored(p)) + HeldBy(stack, p) + lost[p]
        /\ Refs(p) \in Nat
    BY RefsParts
  <2>2. /\ Refs(p)' = vars'[p] + Cardinality(Stored(p)') + HeldBy(stack', p) + lost'[p]
        /\ Cardinality(Stored(p)') \in Nat
    BY RefsPartsNext
  <2>3. Stored(p)' = Stored(p) \ {o} /\ (o \in Stored(p) <=> p \in props[o])
    <3>1. props \in [Objs -> SUBSET Objs]
      BY DEF Types
    <3>2. \A q \in Objs : props'[q] = IF q = o THEN {} ELSE props[q]
      BY <3>1
    <3>3. QED
      BY <3>2 DEF Stored
  <2>4. Cardinality(Stored(p) \ {o}) = Cardinality(Stored(p)) - IF o \in Stored(p) THEN 1 ELSE 0
    <3>1. Cardinality(Stored(p) \ {o}) =
              IF o \in Stored(p) THEN Cardinality(Stored(p)) - 1 ELSE Cardinality(Stored(p))
      BY <2>1, FS_RemoveElement
    <3>2. Cardinality(Stored(p)) \in Nat
      BY <2>1
    <3>3. QED
      BY <3>1, <3>2
  <2>5. Cardinality(Stored(p)') = Cardinality(Stored(p)) - IF p \in props[o] THEN 1 ELSE 0
    BY <2>3, <2>4
  <2>6. vars'[p] = vars[p] /\ lost'[p] = lost[p]
    OBVIOUS
  <2>7. HeldBy(stack', p) = HeldBy(stack, p) + IF p \in props[o] THEN 1 ELSE 0
    OBVIOUS
  <2>8. QED
    BY <2>1, <2>2, <2>5, <2>6, <2>7
<1>2. QED
  BY <1>1

\* The last zval is in the hands of del_ref, which starts to free the object.
LEMMA StepDelRefFree ==
    ASSUME Sound, DelRefFree
    PROVE  Sound' /\ This \in Objs /\ freed[This] = 0 /\ freed' = [freed EXCEPT ![This] = @ + 1]
<1>0. /\ Types /\ Shape(stack) /\ CallsInv /\ CreatedInv /\ BucketInv
      /\ CountInv /\ ValidInv /\ FreeingInv /\ FreeInv /\ NoDanglingRoot
      /\ stack[1].at \in {"del_ref", "dtor_done"}
  BY DEF Sound, DelRefFree, At
<1>1. stack[1].at \in Inner /\ stack[1].at \notin {"freeing", "free_one"}
  BY <1>0 DEF Inner
<1>2. PICK r : r = Tail(stack)
  OBVIOUS
<1>3. /\ stack[1] \in Frames /\ FrameOK(stack[1]) /\ stack[1].o \in Objs
      /\ Shape(r) /\ Base(r) = Base(stack) /\ Base(stack) \notin {"free", "end"}
      /\ \A p \in Objs : /\ HeldBy(stack, p) = Holds(stack[1], p) + HeldBy(r, p)
                         /\ Holds(stack[1], p) \in {0, 1, 2} /\ HeldBy(r, p) \in Nat
                         /\ IsFreeing(stack, p) <=> (stack[1].at = "freeing" /\ stack[1].o = p) \/ IsFreeing(r, p)
      /\ \A k \in DOMAIN r : \E j \in DOMAIN stack : r[k] = stack[j]
  BY <1>0, <1>1, <1>2, Popped
<1>4. PICK o \in Objs : o = stack[1].o
  BY <1>3
<1>5. Refs(o) > 0 /\ ~ Freeing(o)
  BY <1>0, <1>4, Live
<1>6. o \in Created /\ Keeps(o) /\ handle[o] \in Handles /\ handle[o] < top
      /\ store[handle[o]].refcount = Refs(o)
  BY <1>5, Referred
<1>7. PICK h \in Handles : h = handle[o]
  BY <1>6
<1>8. /\ buffered' = buffered \ {h}
      /\ freed' = [freed EXCEPT ![o] = @ + 1]
      /\ props' = [props EXCEPT ![o] = {}]
      /\ stack' = <<[stack[1] EXCEPT !.at = "freeing", !.gen = gen, !.todo = props[o]]>> \o r
      /\ store[h].refcount = 1
      /\ UNCHANGED <<store, top, size, freeList, gen, handle, vars, early, steps, lost, destructed, bailed, stale>>
  BY <1>2, <1>4, <1>6, <1>7 DEF DelRefFree, b, This, Keeps, Replace
<1>9. store[h].valid /\ store[h].called
  <2>1. CASE stack[1].at = "del_ref"
    BY <2>1, <1>4, <1>7 DEF DelRefFree, At, b, This
  <2>2. CASE stack[1].at = "dtor_done"
    <3>1. 1 \in DOMAIN stack
      BY <1>0, StackTop DEF Shape
    <3>2. Relies(stack[1])
      BY <1>0, <3>1 DEF CallsInv
    <3>3. QED
      BY <2>2, <3>2, <1>4, <1>7 DEF Relies
  <2>3. QED
    BY <1>0, <2>1, <2>2
<1>10. freed[o] = 0 /\ Refs(o) = 1
  BY <1>0, <1>5, <1>6, <1>7, <1>8, <1>9 DEF ValidInv
<1>11. PICK g : g = [stack[1] EXCEPT !.at = "freeing", !.gen = gen, !.todo = props[o]]
  OBVIOUS
<1>12. g = [at |-> "freeing", o |-> o, i |-> stack[1].i, gen |-> gen, fail |-> stack[1].fail, todo |-> props[o]]
  BY <1>3, <1>4, <1>11 DEF Frames
<1>13. /\ g \in Frames /\ g.at = "freeing" /\ g.o = o /\ g.todo = props[o]
  <2>1. stack[1].i \in 0..(MaxObjs + 1) /\ stack[1].fail \in BOOLEAN
    BY <1>3 DEF Frames
  <2>2. gen \in Nat /\ props[o] \in SUBSET Objs
    BY <1>0 DEF Types
  <2>3. QED
    BY <2>1, <2>2, <1>12 DEF Frames, Labels
<1>14. FrameOK(g) /\ g.at \in Inner /\ g.at \notin Relying
  BY <1>13 DEF FrameOK, Inner, Relying
<1>15. PICK t : t = <<g>> \o r
  OBVIOUS
<1>16. /\ Shape(t) /\ Base(t) = Base(r)
       /\ \A p \in Objs : /\ HeldBy(t, p) = Holds(g, p) + HeldBy(r, p)
                          /\ IsFreeing(t, p) <=> (g.at = "freeing" /\ g.o = p) \/ IsFreeing(r, p)
       /\ \A k \in DOMAIN t : t[k] = g \/ \E j \in DOMAIN r : t[k] = r[j]
  <2>1. Shape(r) /\ Base(r) \notin {"free", "end"}
    BY <1>3
  <2>2. QED
    BY <2>1, <1>13, <1>14, <1>15, Pushed
<1>17. stack' = t
  BY <1>8, <1>11, <1>15
<1>18. freed' \in [Objs -> Nat] /\ freed'[o] = 1 /\ \A p \in Objs : p # o => freed'[p] = freed[p]
  <2>1. freed \in [Objs -> Nat]
    BY <1>0 DEF Types
  <2>2. QED
    BY <2>1, <1>8, <1>10
<1>19. Types'
  <2>1. stack' \in Seq(Frames) \ {<<>>}
    BY <1>16, <1>17 DEF Shape
  <2>2. props' \in [Objs -> SUBSET Objs] /\ buffered' \in SUBSET Handles
    BY <1>0, <1>8 DEF Types
  <2>3. QED
    BY <1>0, <1>8, <1>18, <2>1, <2>2 DEF Types
<1>20. \A p \in Objs : Refs(p)' = Refs(p) /\ Refs(p) \in Nat
  <2>1. ASSUME NEW p \in Objs
        PROVE  HeldBy(stack', p) = HeldBy(stack, p) + IF p \in props[o] THEN 1 ELSE 0
    <3>1. Holds(stack[1], p) = IF p = o THEN 1 ELSE 0
      BY <1>0, <1>1, <1>3, <1>4 DEF Holds, FrameOK
    <3>2. Holds(g, p) = (IF p = o THEN 1 ELSE 0) + (IF p \in props[o] THEN 1 ELSE 0)
      BY <1>13 DEF Holds
    <3>3. HeldBy(t, p) = Holds(g, p) + HeldBy(r, p) /\ HeldBy(r, p) \in Nat
      BY <1>3, <1>16
    <3>4. HeldBy(stack, p) = Holds(stack[1], p) + HeldBy(r, p)
      BY <1>3
    <3>5. QED
      BY <3>1, <3>2, <3>3, <3>4, <1>17
  <2>2. QED
    BY <2>1, <1>0, <1>8, <1>19, Discarding
<1>21. \A p \in Objs : Freeing(p)' <=> p = o \/ Freeing(p)
  BY <1>1, <1>3, <1>13, <1>16, <1>17 DEF Freeing
<1>22. Created' = Created /\ Created \subseteq Objs /\ \A p \in Objs : Keeps(p)' <=> Keeps(p)
  BY <1>8 DEF Created, Keeps
<1>23. FreeingAll' <=> FreeingAll
  BY <1>3, <1>16, <1>17 DEF FreeingAll, Base
<1>24. CallsInv'
  <2>1. ASSUME NEW f, Relies(f) PROVE Relies(f)'
    BY <2>1, <1>8, <1>22 DEF Relies, Created
  <2>2. \A k \in DOMAIN r : Relies(r[k])
    BY <1>0, <1>3 DEF CallsInv
  <2>3. Relies(g)'
    BY <1>14 DEF Relies, Relying
  <2>4. QED
    BY <2>1, <2>2, <2>3, <1>16, <1>17 DEF CallsInv
<1>25. CreatedInv'
  BY <1>0, <1>6, <1>8, <1>18, <1>20, <1>22 DEF CreatedInv
<1>26. BucketInv'
  BY <1>0, <1>8, <1>22 DEF BucketInv
<1>27. CountInv'
  <2>1. \A p \in Objs : freed[p] # 0 => freed'[p] # 0
    BY <1>18
  <2>2. QED
    BY <2>1, <1>0, <1>8, <1>20, <1>22 DEF CountInv
<1>28. ValidInv'
  <2>1. \A p \in Objs : freed[p] # 0 => freed'[p] # 0
    BY <1>18
  <2>2. \A p \in Objs : freed'[p] # 0 => p = o \/ freed[p] # 0
    BY <1>18
  <2>3. QED
    BY <2>1, <2>2, <1>0, <1>7, <1>8, <1>9, <1>20, <1>21, <1>22, <1>23 DEF ValidInv
<1>29. FreeingInv'
  <2>1. ASSUME NEW p \in Created, Freeing(p)'
        PROVE  /\ Keeps(p) /\ store[handle[p]].valid /\ store[handle[p]].called
               /\ Refs(p) = 1 /\ freed'[p] # 0 /\ handle[p] \notin buffered'
    <3>1. CASE p = o
      BY <3>1, <1>6, <1>7, <1>8, <1>9, <1>10, <1>18
    <3>2. CASE p # o
      <4>1. Freeing(p) /\ p \in Objs
        BY <3>2, <2>1, <1>21, <1>22
      <4>2. QED
        BY <4>1, <3>2, <1>0, <1>8, <1>18 DEF FreeingInv
    <3>3. QED
      BY <3>1, <3>2
  <2>2. QED
    BY <2>1, <1>8, <1>20, <1>22 DEF FreeingInv
<1>30. FreeInv'
  BY <1>0, <1>8, <1>23 DEF FreeInv, FreeListSound
<1>31. NoDanglingRoot'
  BY <1>0, <1>8 DEF NoDanglingRoot
<1>32. Shape(stack)'
  BY <1>16, <1>17
<1>33. Sound'
  BY <1>19, <1>24, <1>25, <1>26, <1>27, <1>28, <1>29, <1>30, <1>31, <1>32 DEF Sound
<1>34. QED
  BY <1>4, <1>8, <1>10, <1>33 DEF This

\* The storage is free: the handle goes on the free list, the frame's zval is the
\* last one.
LEMMA Unlinked ==
    ASSUME Sound, At("freeing"), stack[1].todo = {}
    PROVE  /\ This \in Created /\ This \in Objs /\ Keeps(This)
           /\ handle[This] \in Handles /\ handle[This] < top
           /\ store[handle[This]].valid /\ store[handle[This]].refcount = 1 /\ Refs(This) = 1
           /\ freed[This] # 0 /\ handle[This] \notin buffered
           /\ HeldBy(Tail(stack), This) = 0
<1>0. Types /\ Shape(stack) /\ stack[1].at = "freeing"
  BY DEF Sound, At
<1>1. stack[1].at \in Inner
  BY <1>0 DEF Inner
<1>2. PICK o : o = stack[1].o
  OBVIOUS
<1>3. /\ stack[1] \in Frames /\ o \in Objs
      /\ HeldBy(stack, o) = Holds(stack[1], o) + HeldBy(Tail(stack), o)
      /\ Holds(stack[1], o) \in {0, 1, 2} /\ HeldBy(Tail(stack), o) \in Nat
      /\ IsFreeing(stack, o)
  BY <1>0, <1>1, <1>2, Popped
<1>4. Holds(stack[1], o) = 1
  BY <1>0, <1>2 DEF Holds
<1>5. /\ Cardinality(Stored(o)) \in Nat
      /\ vars[o] \in Nat /\ HeldBy(stack, o) \in Nat /\ lost[o] \in Nat
      /\ Refs(o) = vars[o] + Cardinality(Stored(o)) + HeldBy(stack, o) + lost[o]
  BY <1>0, <1>3, RefsParts
<1>6. Refs(o) > 0
  BY <1>3, <1>4, <1>5
<1>7. o \in Created /\ Keeps(o) /\ handle[o] \in Handles /\ handle[o] < top /\ store[handle[o]].refcount = Refs(o)
  BY <1>3, <1>6, Referred
<1>8. store[handle[o]].valid /\ Refs(o) = 1 /\ freed[o] # 0 /\ handle[o] \notin buffered
  BY <1>3, <1>7 DEF Sound, FreeingInv, Freeing
<1>9. HeldBy(Tail(stack), o) = 0
  BY <1>3, <1>4, <1>5, <1>8
<1>10. QED
  BY <1>2, <1>3, <1>7, <1>8, <1>9 DEF This

\* A bucket loses its object.
LEMMA Invalidated ==
    ASSUME NEW st \in [Handles -> Bucket], NEW h \in Handles
    PROVE  LET new == [st EXCEPT ![h].valid = FALSE] IN
           /\ new \in [Handles -> Bucket]
           /\ new[h].refcount = st[h].refcount /\ ~ new[h].valid /\ new[h].obj = st[h].obj
           /\ \A g \in Handles : new[g].obj = st[g].obj /\ (g # h => new[g] = st[g])
<1>1. PICK v : v = [st[h] EXCEPT !.valid = FALSE]
  OBVIOUS
<1>2. v \in Bucket /\ v.refcount = st[h].refcount /\ ~ v.valid /\ v.obj = st[h].obj
  BY <1>1 DEF Bucket
<1>3. PICK new : new = [st EXCEPT ![h].valid = FALSE]
  OBVIOUS
<1>4. new = [st EXCEPT ![h] = v]
  BY <1>1, <1>3
<1>5. /\ new \in [Handles -> Bucket] /\ new[h] = v
      /\ \A g \in Handles : g # h => new[g] = st[g]
  BY <1>2, <1>4
<1>6. \A g \in Handles : new[g].obj = st[g].obj
  BY <1>2, <1>5
<1>7. QED
  BY <1>2, <1>3, <1>5, <1>6

\* A handle that is in use is put in front of the free list.
WithHead(h) == <<h>> \o freeList
LEMMA Prepended ==
    ASSUME FreeListSound, Types, NEW h \in Handles, store[h].valid
    PROVE  LET fl == WithHead(h) IN
           /\ fl \in Seq(Handles)
           /\ \A i, j \in DOMAIN fl : fl[i] = fl[j] => i = j
           /\ \A i \in DOMAIN fl : fl[i] = h \/ \E j \in DOMAIN freeList : fl[i] = freeList[j]
           /\ \A j \in DOMAIN freeList : freeList[j] # h /\ \E i \in DOMAIN fl : fl[i] = freeList[j]
           /\ \E i \in DOMAIN fl : fl[i] = h
<1> DEFINE fl == <<h>> \o freeList
<1>0. freeList \in Seq(Handles)
  BY DEF Types
<1>1. <<h>> \in Seq(Handles) /\ Len(<<h>>) = 1 /\ <<h>>[1] = h
  OBVIOUS
<1>2. /\ fl \in Seq(Handles) /\ Len(fl) = 1 + Len(freeList) /\ Len(freeList) \in Nat
      /\ \A i \in 1 .. 1 + Len(freeList) : fl[i] = IF i <= 1 THEN h ELSE freeList[i - 1]
  BY <1>0, <1>1, ConcatProperties, LenProperties
<1>3. DOMAIN fl = 1..(1 + Len(freeList)) /\ DOMAIN freeList = 1..Len(freeList)
  BY <1>0, <1>2, LenProperties
<1> HIDE DEF fl
<1>4. \A j \in DOMAIN freeList : freeList[j] # h
  BY DEF FreeListSound
<1>5. fl[1] = h /\ 1 \in DOMAIN fl
  BY <1>2, <1>3
<1>6. \A i \in DOMAIN fl : i = 1 \/ (i - 1 \in DOMAIN freeList /\ fl[i] = freeList[i - 1])
  <2>1. ASSUME NEW i \in DOMAIN fl, i # 1
        PROVE  i - 1 \in DOMAIN freeList /\ fl[i] = freeList[i - 1]
    <3>1. i \in 1..(1 + Len(freeList)) /\ ~ (i <= 1) /\ i - 1 \in 1..Len(freeList)
      BY <2>1, <1>2, <1>3
    <3>2. QED
      BY <3>1, <1>2, <1>3
  <2>2. QED
    BY <2>1
<1>7. \A j \in DOMAIN freeList : j + 1 \in DOMAIN fl /\ fl[j + 1] = freeList[j]
  <2>1. ASSUME NEW j \in DOMAIN freeList
        PROVE  j + 1 \in DOMAIN fl /\ fl[j + 1] = freeList[j]
    <3>1. j + 1 \in 1..(1 + Len(freeList)) /\ ~ (j + 1 <= 1) /\ (j + 1) - 1 = j
      BY <1>2, <1>3
    <3>2. QED
      BY <3>1, <1>2, <1>3
  <2>2. QED
    BY <2>1
<1>8. \A i, j \in DOMAIN fl : fl[i] = fl[j] => i = j
  <2>1. ASSUME NEW i \in DOMAIN fl, NEW j \in DOMAIN fl, fl[i] = fl[j]
        PROVE  i = j
    <3>1. CASE i = 1 \/ j = 1
      BY <2>1, <3>1, <1>4, <1>5, <1>6
    <3>2. CASE i # 1 /\ j # 1
      <4>1. /\ i - 1 \in DOMAIN freeList /\ j - 1 \in DOMAIN freeList
            /\ freeList[i - 1] = freeList[j - 1]
        BY <2>1, <3>2, <1>6
      <4>2. i - 1 = j - 1
        BY <4>1 DEF FreeListSound
      <4>3. i \in Int /\ j \in Int
        BY <1>2, <1>3
      <4>4. QED
        BY <4>2, <4>3
    <3>3. QED
      BY <3>1, <3>2
  <2>2. QED
    BY <2>1
<1>9. \A j \in DOMAIN freeList : \E i \in DOMAIN fl : fl[i] = freeList[j]
  BY <1>7
<1>10. \A i \in DOMAIN fl : fl[i] = h \/ \E j \in DOMAIN freeList : fl[i] = freeList[j]
  BY <1>5, <1>6
<1>11. QED
  BY <1>2, <1>4, <1>5, <1>8, <1>9, <1>10 DEF fl, WithHead

\* The store did not move while the storage was freed: del_ref returns.
LEMMA UnlinkReturns ==
    ASSUME Sound, DelRefUnlink, stack[1].gen = gen PROVE Sound' /\ stale' = stale
<1>0. /\ Types /\ Shape(stack) /\ CallsInv /\ CreatedInv /\ BucketInv
      /\ CountInv /\ ValidInv /\ FreeingInv /\ FreeInv /\ NoDanglingRoot
      /\ stack[1].at = "freeing"
  BY DEF Sound, DelRefUnlink, At
<1>1. stack[1].at \in Inner
  BY <1>0 DEF Inner
<1>2. PICK r : r = Tail(stack)
  OBVIOUS
<1>3. /\ stack[1] \in Frames /\ FrameOK(stack[1]) /\ stack[1].o \in Objs
      /\ Shape(r) /\ Base(r) = Base(stack) /\ Base(stack) \notin {"free", "end"}
      /\ \A p \in Objs : /\ HeldBy(stack, p) = Holds(stack[1], p) + HeldBy(r, p)
                         /\ Holds(stack[1], p) \in {0, 1, 2} /\ HeldBy(r, p) \in Nat
                         /\ IsFreeing(stack, p) <=> (stack[1].at = "freeing" /\ stack[1].o = p) \/ IsFreeing(r, p)
      /\ \A k \in DOMAIN r : \E j \in DOMAIN stack : r[k] = stack[j]
  BY <1>0, <1>1, <1>2, Popped
<1>4. PICK o \in Objs : o = This
  BY <1>3 DEF This
<1>5. /\ o \in Created /\ Keeps(o) /\ handle[o] \in Handles /\ handle[o] < top
      /\ store[handle[o]].valid /\ store[handle[o]].refcount = 1 /\ Refs(o) = 1
      /\ freed[o] # 0 /\ handle[o] \notin buffered
      /\ HeldBy(r, o) = 0
  BY <1>2, <1>4, Unlinked DEF DelRefUnlink
<1>6. PICK h \in Handles : h = handle[o]
  BY <1>5
<1>7. PICK st1 : st1 = [store EXCEPT ![h].valid = FALSE]
  OBVIOUS
<1>8. /\ st1 \in [Handles -> Bucket]
      /\ st1[h].refcount = 1 /\ ~ st1[h].valid /\ st1[h].obj = store[h].obj
      /\ \A g \in Handles : st1[g].obj = store[g].obj /\ (g # h => st1[g] = store[g])
  <2>1. store \in [Handles -> Bucket]
    BY <1>0 DEF Types
  <2>2. QED
    BY <2>1, <1>5, <1>6, <1>7, Invalidated
<1>b. PICK n \in Int : n = 0
  OBVIOUS
<1>9. PICK st : st = [st1 EXCEPT ![h].refcount = n]
  OBVIOUS
<1>10. /\ st \in [Handles -> Bucket] /\ st[h].refcount = 0
       /\ \A g \in Handles : /\ st[g].valid = st1[g].valid /\ st[g].obj = st1[g].obj
                             /\ st[g].called = st1[g].called
                             /\ g # h => st[g] = st1[g]
  <2>1. st1 \in [Handles -> Bucket]
    BY <1>8
  <2>2. /\ st \in [Handles -> Bucket] /\ st[h].refcount = n
        /\ \A g \in Handles : /\ st[g].valid = st1[g].valid /\ st[g].obj = st1[g].obj
                              /\ st[g].called = st1[g].called
                              /\ g # h => st[g] = st1[g]
    BY <2>1, <1>9, Recount
  <2>3. QED
    BY <2>2, <1>b
<1>11. st = [st1 EXCEPT ![handle[This]].refcount = @ - 1]
  BY <1>b, <1>4, <1>6, <1>8, <1>9
<1>12. /\ freeList' = <<h>> \o freeList
       /\ Leave(st1, buffered)
       /\ UNCHANGED <<top, size, gen, script, steps, destructed, freed, stale>>
  BY <1>4, <1>6, <1>7 DEF DelRefUnlink
<1>13. /\ buffered' = buffered
       /\ \/ \E fatal \in BOOLEAN : Bailout(r, st, fatal)
          \/ store' = st /\ stack' = r /\ UNCHANGED <<lost, bailed>>
  <2>1. handle[This] = h
    BY <1>4, <1>6
  <2>2. /\ buffered' = IF st[h].valid /\ ~ stack[1].fail THEN buffered \cup {h} ELSE buffered
        /\ IF stack[1].fail THEN Bailout(r, st, FALSE)
           ELSE store' = st /\ stack' = r /\ UNCHANGED <<lost, bailed>>
    BY <1>2, <1>11, <1>12, <2>1 DEF Leave, Pop
  <2>3. QED
    BY <2>2, <1>8, <1>10
<1>14. /\ \E t : /\ stack' = t /\ Shape(t)
                 /\ Base(r) \in FreeingBases => Base(t) \in FreeingBases
                 /\ \A p \in Objs : /\ IsFreeing(t, p) <=> IsFreeing(r, p)
                                    /\ HeldBy(t, p) + lost'[p] = HeldBy(r, p) + lost[p]
                 /\ \A j \in DOMAIN t : t[j].at \in Relying =>
                                            \E i \in DOMAIN r : SameRole(t[j], r[i])
       /\ lost' \in [Objs -> Nat] /\ bailed' \in BOOLEAN
       /\ store' \in [Handles -> Bucket]
       /\ \A g \in Handles :
              /\ store'[g].valid = st[g].valid /\ store'[g].obj = st[g].obj
              /\ store'[g].refcount = st[g].refcount
              /\ st[g].called => store'[g].called
              /\ ~ st[g].valid => store'[g] = st[g]
  <2>1. Shape(r) /\ Base(r) # "end"
    BY <1>3
  <2>2. QED
    BY <2>1, <1>0, <1>10, <1>13, Leaving
<1>15. PICK t : /\ stack' = t /\ Shape(t)
                /\ Base(r) \in FreeingBases => Base(t) \in FreeingBases
                /\ \A p \in Objs : /\ IsFreeing(t, p) <=> IsFreeing(r, p)
                                   /\ HeldBy(t, p) + lost'[p] = HeldBy(r, p) + lost[p]
                /\ \A j \in DOMAIN t : t[j].at \in Relying =>
                                           \E i \in DOMAIN r : SameRole(t[j], r[i])
  BY <1>14
\* The store after the step: nothing but h has lost its object.
<1>16. /\ store'[h].obj = o /\ ~ store'[h].valid /\ store'[h].refcount = 0
       /\ \A g \in Handles : /\ store'[g].obj = store[g].obj
                             /\ g # h => /\ store'[g].valid = store[g].valid
                                         /\ store'[g].refcount = store[g].refcount
                                         /\ store[g].called => store'[g].called
                                         /\ ~ store[g].valid => store'[g] = store[g]
  <2>1. store[h].obj = o
    BY <1>5, <1>6 DEF Keeps
  <2>2. QED
    BY <2>1, <1>8, <1>10, <1>14
<1>17. /\ freeList' \in Seq(Handles)
       /\ \A i, j \in DOMAIN freeList' : freeList'[i] = freeList'[j] => i = j
       /\ \A i \in DOMAIN freeList' : freeList'[i] = h \/ \E j \in DOMAIN freeList : freeList'[i] = freeList[j]
       /\ \A j \in DOMAIN freeList : freeList[j] # h /\ \E i \in DOMAIN freeList' : freeList'[i] = freeList[j]
       /\ \E i \in DOMAIN freeList' : freeList'[i] = h
  <2>1. FreeListSound /\ Types /\ store[h].valid
    BY <1>0, <1>5, <1>6 DEF FreeInv
  <2>2. PICK fl : fl = WithHead(h)
    OBVIOUS
  <2>3. /\ fl \in Seq(Handles)
        /\ \A i, j \in DOMAIN fl : fl[i] = fl[j] => i = j
        /\ \A i \in DOMAIN fl : fl[i] = h \/ \E j \in DOMAIN freeList : fl[i] = freeList[j]
        /\ \A j \in DOMAIN freeList : freeList[j] # h /\ \E i \in DOMAIN fl : fl[i] = freeList[j]
        /\ \E i \in DOMAIN fl : fl[i] = h
    BY <2>1, <2>2, Prepended
  <2>4. freeList' = fl
    BY <2>2, <1>12 DEF WithHead
  <2>5. QED
    BY <2>3, <2>4
<1>18. Types'
  <2>1. stack' \in Seq(Frames) \ {<<>>}
    BY <1>15 DEF Shape
  <2>2. QED
    BY <1>0, <1>12, <1>13, <1>14, <1>17, <2>1 DEF Types, script
<1>19. \A p \in Objs : Refs(p)' = Refs(p) - (IF p = o THEN 1 ELSE 0) /\ Refs(p) \in Nat
  <2>1. ASSUME NEW p \in Objs
        PROVE  Refs(p)' = Refs(p) - (IF p = o THEN 1 ELSE 0) /\ Refs(p) \in Nat
    <3>0. UNCHANGED props /\ vars'[p] = vars[p]
      BY <1>12 DEF script
    <3>1. /\ Refs(p)' = Refs(p) + (vars'[p] - vars[p]) + (HeldBy(stack', p) - HeldBy(stack, p))
                                 + (lost'[p] - lost[p])
          /\ Refs(p) \in Nat
          /\ vars[p] \in Nat /\ lost[p] \in Nat /\ lost'[p] \in Nat
          /\ HeldBy(stack, p) \in Nat /\ HeldBy(stack', p) \in Nat
      BY <1>0, <1>18, <3>0, RefsChange
    <3>2. Holds(stack[1], p) = IF p = o THEN 1 ELSE 0
      BY <1>0, <1>4 DEF Holds, This, DelRefUnlink
    <3>3. HeldBy(stack, p) = Holds(stack[1], p) + HeldBy(r, p) /\ HeldBy(r, p) \in Nat
      BY <1>3
    <3>4. HeldBy(stack', p) + lost'[p] = HeldBy(r, p) + lost[p]
      BY <1>15
    <3>5. QED
      BY <3>0, <3>1, <3>2, <3>3, <3>4
  <2>2. QED
    BY <2>1
<1>20. /\ ~ IsFreeing(r, o)
       /\ \A p \in Objs : Freeing(p)' <=> p # o /\ Freeing(p)
  <2>1. ~ IsFreeing(r, o)
    <3>1. r \in Seq(Frames)
      BY <1>3 DEF Shape
    <3>2. ~ (HeldBy(r, o) >= 1)
      BY <1>5
    <3>3. QED
      BY <3>1, <3>2, FreeingHolds
  <2>2. QED
    BY <2>1, <1>0, <1>3, <1>4, <1>15 DEF Freeing, This
<1>21. Created' = Created /\ Created \subseteq Objs /\ \A p \in Created : Keeps(p)' <=> Keeps(p)
  <2>1. Created' = Created /\ Created \subseteq Objs
    BY <1>12 DEF Created, script
  <2>2. \A p \in Created : handle[p] \in Handles /\ handle'[p] = handle[p]
    BY <1>0, <1>12 DEF Types, Created, script
  <2>3. QED
    BY <2>1, <2>2, <1>16 DEF Keeps
<1>22. FreeingAll => FreeingAll'
  BY <1>3, <1>15 DEF FreeingAll, Base, FreeingBases
<1>23. \A p \in Created : p # o /\ Keeps(p) => handle[p] # h
  BY <1>5, <1>6, <1>21, OwnBuckets
<1>24. UNCHANGED <<handle, top, freed, destructed, vars, props>>
  BY <1>12 DEF script
<1>a. \A p \in Created : handle[p] \in Handles
  BY <1>0 DEF Types, Created
<1>25. CallsInv'
  <2>1. ASSUME NEW f, NEW g, SameRole(f, g), Relies(g), g.at = "dtor_done" => g.o # o
        PROVE  Relies(f)'
    <3>1. CASE g.at = "dtor_done"
      <4>1. /\ g.o \in Created /\ Keeps(g.o) /\ handle[g.o] \in Handles /\ handle[g.o] # h
            /\ store[handle[g.o]].valid /\ store[handle[g.o]].called
        BY <2>1, <3>1, <1>23, <1>a DEF Relies
      <4>2. store'[handle[g.o]].valid /\ store'[handle[g.o]].called
        BY <4>1, <1>16
      <4>3. QED
        BY <2>1, <3>1, <4>1, <4>2, <1>21, <1>24 DEF Relies, SameRole
    <3>2. CASE g.at # "dtor_done"
      BY <2>1, <3>2, <1>24 DEF Relies, SameRole
    <3>3. QED
      BY <3>1, <3>2
  <2>2. \A k \in DOMAIN r : Relies(r[k])
    BY <1>0, <1>3 DEF CallsInv
  <2>3. \A k \in DOMAIN r : r[k].at = "dtor_done" => r[k].o # o
    <3>1. ASSUME NEW k \in DOMAIN r, r[k].at = "dtor_done", r[k].o = o
          PROVE  FALSE
      <4>1. r \in Seq(Frames) /\ k \in 1..Len(r) /\ FrameOK(r[k])
        BY <1>3, LenProperties DEF Shape
      <4>2. HeldBy(r, o) >= Holds(r[k], o) /\ Holds(r[k], o) \in {0, 1, 2}
        BY <4>1, HeldElement
      <4>3. Holds(r[k], o) = 1
        BY <3>1, <4>1 DEF Holds, FrameOK
      <4>4. QED
        BY <4>2, <4>3, <1>5
    <3>2. QED
      BY <3>1
  <2>4. ASSUME NEW f, f.at \notin Relying PROVE Relies(f)'
    BY <2>4 DEF Relies, Relying
  <2>5. QED
    BY <2>1, <2>2, <2>3, <2>4, <1>15 DEF CallsInv
<1>26. CreatedInv'
  BY <1>0, <1>5, <1>19, <1>21, <1>24 DEF CreatedInv
<1>27. BucketInv'
  <2>1. \A g \in Handles : ~ (g < top) => ~ store[g].valid /\ g # h
    BY <1>0, <1>5, <1>6 DEF BucketInv, NoBucket
  <2>2. QED
    BY <2>1, <1>0, <1>16, <1>21, <1>24 DEF BucketInv
<1>28. CountInv'
  <2>1. ASSUME NEW p \in Created
        PROVE  /\ handle[p] < top
               /\ Keeps(p) => store'[handle[p]].refcount = Refs(p)'
               /\ ~ Keeps(p) => Refs(p)' = 0 /\ freed[p] # 0
    <3>1. CASE p = o
      BY <3>1, <1>5, <1>6, <1>16, <1>19
    <3>2. CASE p # o
      <4>1. Refs(p)' = Refs(p)
        BY <3>2, <1>19, <1>21
      <4>2. Keeps(p) => store'[handle[p]].refcount = store[handle[p]].refcount
        BY <3>2, <1>16, <1>23, <1>a
      <4>3. QED
        BY <4>1, <4>2, <1>0 DEF CountInv
    <3>3. QED
      BY <3>1, <3>2
  <2>2. QED
    BY <2>1, <1>21, <1>24 DEF CountInv
<1>29. ValidInv'
  <2>1. ASSUME NEW p \in Created, Keeps(p)
        PROVE  IF store'[handle[p]].valid
               THEN /\ freed[p] # 0 => Freeing(p)'
                    /\ ~ store'[handle[p]].called => destructed[p] = 0
               ELSE freed[p] # 0 /\ (~ FreeingAll' => Refs(p)' = 0)
    <3>1. CASE p = o
      BY <3>1, <1>5, <1>6, <1>16, <1>19
    <3>2. CASE p # o
      <4>1. Refs(p)' = Refs(p) /\ (Freeing(p)' <=> Freeing(p))
        BY <3>2, <1>19, <1>20, <1>21
      <4>2. /\ store'[handle[p]].valid = store[handle[p]].valid
            /\ store[handle[p]].called => store'[handle[p]].called
        BY <2>1, <3>2, <1>16, <1>23, <1>a
      <4>3. QED
        BY <2>1, <4>1, <4>2, <1>0, <1>22 DEF ValidInv
    <3>3. QED
      BY <3>1, <3>2
  <2>2. QED
    BY <2>1, <1>21, <1>24 DEF ValidInv
<1>30. FreeingInv'
  <2>1. ASSUME NEW p \in Created, Freeing(p)'
        PROVE  /\ Keeps(p) /\ store'[handle[p]].valid /\ store'[handle[p]].called
               /\ Refs(p)' = 1 /\ freed[p] # 0
               /\ handle[p] \notin buffered'
    <3>1. p # o /\ Freeing(p)
      BY <2>1, <1>20, <1>21
    <3>2. /\ Keeps(p) /\ store[handle[p]].valid /\ store[handle[p]].called
          /\ Refs(p) = 1 /\ freed[p] # 0
          /\ handle[p] \notin buffered
      BY <3>1, <1>0 DEF FreeingInv
    <3>3. /\ store'[handle[p]].valid = store[handle[p]].valid
          /\ store[handle[p]].called => store'[handle[p]].called
      BY <3>1, <3>2, <1>16, <1>23, <1>a
    <3>4. QED
      BY <3>1, <3>2, <3>3, <1>13, <1>19, <1>21
  <2>2. QED
    BY <2>1, <1>21, <1>24 DEF FreeingInv
<1>31. FreeInv'
  <2>0. FreeListSound /\ \A k \in DOMAIN freeList : store[freeList[k]].refcount = 0 /\ freeList[k] \in Handles
    BY <1>0, LenProperties, ElementOfSeq DEF FreeInv, Types
  <2>1. \A k \in DOMAIN freeList' : /\ freeList'[k] < top /\ ~ store'[freeList'[k]].valid
                                    /\ store'[freeList'[k]].refcount = 0
    <3>1. ASSUME NEW j \in DOMAIN freeList
          PROVE  /\ freeList[j] < top /\ ~ store'[freeList[j]].valid
                 /\ store'[freeList[j]].refcount = 0
      BY <2>0, <1>16, <1>17 DEF FreeListSound
    <3>2. QED
      BY <3>1, <1>5, <1>6, <1>16, <1>17
  <2>2. ~ FreeingAll' => \A g \in 1..(top - 1) : store'[g].valid \/ \E i \in DOMAIN freeList' : freeList'[i] = g
    <3>1. \A g \in 1..(top - 1) : g \in Handles
      BY <1>0, Constants DEF Types
    <3>2. ASSUME ~ FreeingAll, NEW g \in 1..(top - 1), g # h
          PROVE  store'[g].valid \/ \E i \in DOMAIN freeList' : freeList'[i] = g
      BY <3>1, <3>2, <2>0, <1>16, <1>17 DEF FreeListSound
    <3>3. QED
      BY <3>2, <1>17, <1>22
  <2>3. FreeListSound'
    BY <2>1, <2>2, <1>17, <1>24 DEF FreeListSound
  <2>4. QED
    BY <2>1, <2>3 DEF FreeInv
<1>32. NoDanglingRoot'
  BY <1>0, <1>5, <1>6, <1>13, <1>16, ZenonT(60) DEF NoDanglingRoot, Types
<1>33. Shape(stack)'
  BY <1>15
<1>34. QED
  BY <1>12, <1>18, <1>25, <1>26, <1>27, <1>28, <1>29, <1>30, <1>31, <1>32, <1>33 DEF Sound
-----------------------------------------------------------------------------
\* What the invariant says of the properties that are checked.
LEMMA Implied == ASSUME Sound PROVE Safe
<1>0. /\ Types /\ CreatedInv /\ BucketInv /\ CountInv /\ ValidInv /\ FreeInv /\ NoDanglingRoot
  BY DEF Sound
<1>1. \A o \in Objs : Refs(o) \in Nat
  BY <1>0, RefsParts
<1>2. Created \subseteq Objs /\ \A o \in Created : handle[o] \in Handles
  BY <1>0 DEF Created, Types
<1>3. \A h \in Handles : store[h].refcount >= 0
  <2>1. ASSUME NEW h \in Handles
        PROVE  store[h].refcount >= 0
    <3>1. CASE h < top
      <4>1. PICK o \in Created : o = store[h].obj /\ handle[o] = h
        BY <1>0, <3>1 DEF BucketInv
      <4>2. store[h].refcount = Refs(o)
        BY <1>0, <4>1 DEF CountInv, Keeps
      <4>3. QED
        BY <1>1, <1>2, <4>1, <4>2
    <3>2. CASE ~ (h < top)
      BY <1>0, <3>2 DEF BucketInv, NoBucket
    <3>3. QED
      BY <3>1, <3>2
  <2>2. QED
    BY <2>1
<1>4. TypeOK
  BY <1>0, <1>3 DEF Types, TypeOK
<1>5. CountsExact
  BY <1>0, <1>2 DEF CountsExact, CountInv, Keeps, Refs
<1>6. NoDangling
  <2>1. ASSUME ~ FreeingAll, NEW o \in Created, Owners(o) > 0
        PROVE  /\ store[handle[o]].valid /\ store[handle[o]].obj = o
               /\ freed[o] = 0 \/ \E k \in DOMAIN stack : stack[k].at = "freeing" /\ stack[k].o = o
    <3>1. Refs(o) > 0
      <4>1. Owners(o) = Refs(o) - lost[o] /\ lost[o] \in Nat /\ Refs(o) \in Nat
        <5>1. /\ Cardinality(Stored(o)) \in Nat
              /\ vars[o] \in Nat /\ HeldBy(stack, o) \in Nat /\ lost[o] \in Nat
              /\ Refs(o) = vars[o] + Cardinality(Stored(o)) + HeldBy(stack, o) + lost[o]
              /\ Refs(o) \in Nat
          BY <1>0, <1>2, RefsParts
        <5>2. Owners(o) = vars[o] + Cardinality(Stored(o)) + HeldBy(stack, o)
          BY DEF Owners, Stored
        <5>3. QED
          BY <5>1, <5>2
      <4>2. QED
        BY <2>1, <4>1
    <3>2. Keeps(o) /\ store[handle[o]].valid
      BY <2>1, <3>1, <1>2, Referred
    <3>3. freed[o] # 0 => Freeing(o)
      BY <3>2, <1>0 DEF ValidInv
    <3>4. QED
      BY <3>2, <3>3 DEF Keeps, Freeing, IsFreeing
  <2>2. QED
    BY <2>1 DEF NoDangling
<1>7. QED
  BY <1>0, <1>4, <1>5, <1>6 DEF Safe, FreeInv

\* The store did move: the bucket is written in its old place.
LEMMA UnlinkStale ==
    ASSUME Sound, DelRefUnlink, stack[1].gen # gen PROVE stale' = TRUE /\ Safe'
<1>0. /\ Types /\ Shape(stack) /\ FreeInv /\ NoDanglingRoot /\ Safe
      /\ stack[1].at = "freeing"
  BY Implied DEF Sound, DelRefUnlink, At
<1>1. PICK o : o = This
  OBVIOUS
<1>2. /\ o \in Created /\ Keeps(o) /\ handle[o] \in Handles /\ handle[o] < top
      /\ store[handle[o]].valid /\ handle[o] \notin buffered
  BY <1>1, Unlinked DEF DelRefUnlink
<1>3. PICK h \in Handles : h = handle[o]
  BY <1>2
<1>4. /\ freeList' = <<h>> \o freeList
      /\ store' = [store EXCEPT ![h].valid = FALSE]
      /\ stale' = TRUE
      /\ UNCHANGED <<stack, buffered, lost, bailed, top, size, gen, script, steps, destructed, freed>>
  BY <1>1, <1>3 DEF DelRefUnlink
<1>5. /\ store' \in [Handles -> Bucket]
      /\ ~ store'[h].valid /\ store'[h].refcount = store[h].refcount
      /\ \A g \in Handles : g # h => store'[g] = store[g]
  <2>1. store \in [Handles -> Bucket]
    BY <1>0 DEF Types
  <2>2. PICK new : new = [store EXCEPT ![h].valid = FALSE]
    OBVIOUS
  <2>3. /\ new \in [Handles -> Bucket]
        /\ new[h].refcount = store[h].refcount /\ ~ new[h].valid /\ new[h].obj = store[h].obj
        /\ \A g \in Handles : new[g].obj = store[g].obj /\ (g # h => new[g] = store[g])
    BY <2>1, <2>2, Invalidated
  <2>4. store' = new
    BY <1>4, <2>2
  <2>5. QED
    BY <2>3, <2>4
<1>6. /\ freeList' \in Seq(Handles)
      /\ \A i, j \in DOMAIN freeList' : freeList'[i] = freeList'[j] => i = j
      /\ \A i \in DOMAIN freeList' : freeList'[i] = h \/ \E j \in DOMAIN freeList : freeList'[i] = freeList[j]
      /\ \A j \in DOMAIN freeList : freeList[j] # h /\ \E i \in DOMAIN freeList' : freeList'[i] = freeList[j]
      /\ \E i \in DOMAIN freeList' : freeList'[i] = h
  <2>1. FreeListSound /\ Types /\ store[h].valid
    BY <1>0, <1>2, <1>3 DEF FreeInv
  <2>2. PICK fl : fl = WithHead(h)
    OBVIOUS
  <2>3. /\ fl \in Seq(Handles)
        /\ \A i, j \in DOMAIN fl : fl[i] = fl[j] => i = j
        /\ \A i \in DOMAIN fl : fl[i] = h \/ \E j \in DOMAIN freeList : fl[i] = freeList[j]
        /\ \A j \in DOMAIN freeList : freeList[j] # h /\ \E i \in DOMAIN fl : fl[i] = freeList[j]
        /\ \E i \in DOMAIN fl : fl[i] = h
    BY <2>1, <2>2, Prepended
  <2>4. freeList' = fl
    BY <2>2, <1>4 DEF WithHead
  <2>5. QED
    BY <2>3, <2>4
<1>7. TypeOK'
  <2>1. \A g \in Handles : store'[g].refcount >= 0
    BY <1>0, <1>5 DEF Safe, TypeOK
  <2>2. QED
    BY <1>0, <1>4, <1>5, <1>6, <2>1 DEF Types, TypeOK, script
<1>8. CountsExact'
  <2>1. Created' = Created /\ \A p \in Created : handle[p] \in Handles
    BY <1>0, <1>4 DEF Created, Types, script
  <2>2. \A p \in Objs : Owners(p)' = Owners(p)
    BY <1>4 DEF Owners, script
  <2>3. ASSUME NEW p \in Created, store'[handle[p]].valid, store'[handle[p]].obj = p
        PROVE  store'[handle[p]].refcount = Owners(p) + lost[p]
    <3>1. store'[handle[p]] = store[handle[p]]
      BY <2>1, <2>3, <1>5
    <3>2. QED
      BY <2>3, <3>1, <1>0 DEF Safe, CountsExact
  <2>4. QED
    BY <2>1, <2>2, <2>3, <1>4 DEF CountsExact, script, Created
<1>9. NoDangling'
  BY <1>4 DEF NoDangling
<1>10. FreeListSound'
  <2>0. FreeListSound /\ \A k \in DOMAIN freeList : freeList[k] \in Handles
    BY <1>0, LenProperties, ElementOfSeq DEF FreeInv, Types
  <2>1. \A k \in DOMAIN freeList' : freeList'[k] < top /\ ~ store'[freeList'[k]].valid
    <3>1. ASSUME NEW j \in DOMAIN freeList
          PROVE  freeList[j] < top /\ ~ store'[freeList[j]].valid
      BY <2>0, <1>5, <1>6 DEF FreeListSound
    <3>2. QED
      BY <3>1, <1>2, <1>3, <1>5, <1>6
  <2>2. ~ FreeingAll => \A g \in 1..(top - 1) : store'[g].valid \/ \E i \in DOMAIN freeList' : freeList'[i] = g
    <3>1. \A g \in 1..(top - 1) : g \in Handles
      BY <1>0, Constants DEF Types
    <3>2. ASSUME ~ FreeingAll, NEW g \in 1..(top - 1), g # h
          PROVE  store'[g].valid \/ \E i \in DOMAIN freeList' : freeList'[i] = g
      BY <3>1, <3>2, <2>0, <1>5, <1>6 DEF FreeListSound
    <3>3. QED
      BY <3>2, <1>6
  <2>3. FreeingAll' <=> FreeingAll
    BY <1>4 DEF FreeingAll
  <2>4. QED
    BY <2>1, <2>2, <2>3, <1>4, <1>6 DEF FreeListSound
<1>11. NoDanglingRoot'
  BY <1>0, <1>2, <1>3, <1>4, <1>5 DEF NoDanglingRoot, Types
<1>12. QED
  BY <1>4, <1>7, <1>8, <1>9, <1>10, <1>11 DEF Safe
-----------------------------------------------------------------------------
\* free_object_storage passes over a bucket that is no longer valid.
LEMMA StorageSkipped ==
    ASSUME Sound, FreeStorage, ~ store[stack[1].i].valid PROVE Sound' /\ UNCHANGED freed
<1>1. Shape(stack) /\ stack[1].at = "free" /\ Types /\ stack[1].i < top
  BY DEF Sound, FreeStorage, At
<1>2. stack[1] \in Frames /\ FrameOK(stack[1])
  BY <1>1, ShapeTop
<1>3. stack[1].i + 1 \in 0..(MaxObjs + 1) /\ stack[1].i + 1 >= 1
  <2>1. stack[1].i \in 0..(MaxObjs + 1)
    BY <1>2 DEF Frames
  <2>2. top \in 1..(MaxObjs + 1)
    BY <1>1 DEF Types
  <2>3. QED
    BY <1>1, <2>1, <2>2, Constants
<1>4. PICK f : f = Frame("free", 0, stack[1].i + 1)
  OBVIOUS
<1>5. /\ f \in Frames /\ FrameOK(f) /\ f.at = "free" /\ f.o = 0 /\ Relies(f)'
  BY <1>3, <1>4, FrameType DEF Labels, Inner, Relying
<1>6. stack[1].at \in Bottom /\ f.at \in Bottom
  BY <1>1, <1>5 DEF Bottom, Labels, Inner
<1>7. \A o \in Objs : Holds(f, o) = Holds(stack[1], o)
  BY <1>1, <1>2, <1>5, <1>6, HoldsNothing
<1>8. /\ Replace(f)
      /\ UNCHANGED <<store, top, size, freeList, gen, buffered, script, steps, ghosts>>
  BY <1>4 DEF FreeStorage, script, ghosts
<1>9. QED
  BY <1>1, <1>5, <1>6, <1>7, <1>8, JumpStep DEF FreeingBases, ghosts

\* It frees the storage of an object that is still there, whatever refers to it.
LEMMA StorageFreedNow ==
    ASSUME Sound, FreeStorage, store[stack[1].i].valid
    PROVE  Sound' /\ \E o \in Objs : freed[o] = 0 /\ freed' = [freed EXCEPT ![o] = @ + 1]
<1>0. /\ Types /\ Shape(stack) /\ CallsInv /\ CreatedInv /\ BucketInv
      /\ CountInv /\ ValidInv /\ FreeingInv /\ FreeInv /\ NoDanglingRoot
      /\ stack[1].at = "free" /\ stack[1].i < top
  BY DEF Sound, FreeStorage, At
<1>1. stack[1] \in Frames /\ FrameOK(stack[1])
  BY <1>0, ShapeTop
<1>2. stack[1].i \in Handles /\ stack[1].i \in 0..(MaxObjs + 1)
  <2>1. stack[1].i \in 0..(MaxObjs + 1) /\ stack[1].i >= 1
    BY <1>0, <1>1 DEF Frames, FrameOK
  <2>2. top \in 1..(MaxObjs + 1)
    BY <1>0 DEF Types
  <2>3. QED
    BY <1>0, <2>1, <2>2, Constants
<1>3. PICK h \in Handles : h = stack[1].i
  BY <1>2
<1>4. PICK o \in Created : o = store[h].obj /\ handle[o] = h
  BY <1>0, <1>3 DEF BucketInv
<1>5. o \in Objs /\ Keeps(o) /\ Created \subseteq Objs
  BY <1>4 DEF Keeps, Created
<1>6. PICK f : f = [Frame("free_one", 0, h) EXCEPT !.todo = props[o]]
  OBVIOUS
<1>7. /\ f \in Frames /\ FrameOK(f) /\ f.at = "free_one" /\ f.i = h
      /\ \A p \in Objs : Holds(f, p) = IF p \in props[o] THEN 1 ELSE 0
  <2>1. props[o] \in SUBSET Objs
    BY <1>0, <1>5 DEF Types
  <2>2. f = [at |-> "free_one", o |-> 0, i |-> h, gen |-> 0, fail |-> FALSE, todo |-> props[o]]
    BY <1>6 DEF Frame
  <2>3. h \in 0..(MaxObjs + 1) /\ h >= 1
    BY <1>0, <1>1, <1>2, <1>3 DEF FrameOK
  <2>4. f \in Frames
    BY <2>1, <2>2, <2>3 DEF Frames, Labels
  <2>5. QED
    BY <2>2, <2>3, <2>4 DEF FrameOK, Inner, Holds
<1>8. stack[1].at \in Bottom /\ f.at \in Bottom
  BY <1>0, <1>7 DEF Bottom, Labels, Inner
<1>9. PICK t : t = <<f>> \o Tail(stack)
  OBVIOUS
<1>10. /\ Shape(t) /\ Base(t) = "free_one"
       /\ \A p \in Objs : /\ HeldBy(t, p) = Holds(f, p) /\ HeldBy(stack, p) = Holds(stack[1], p)
                          /\ ~ IsFreeing(t, p) /\ ~ IsFreeing(stack, p)
       /\ \A k \in DOMAIN t : t[k] = f
  BY <1>0, <1>7, <1>8, <1>9, Jumped
<1>11. /\ stack' = t
       /\ store' = [store EXCEPT ![h].valid = FALSE]
       /\ buffered' = buffered \ {h}
       /\ freed' = [freed EXCEPT ![o] = @ + 1]
       /\ props' = [props EXCEPT ![o] = {}]
       /\ UNCHANGED <<top, size, freeList, gen, handle, vars, early, steps, lost, destructed, bailed>>
  BY <1>3, <1>4, <1>6, <1>9 DEF FreeStorage, Replace
<1>12. freed[o] = 0
  BY <1>0, <1>3, <1>4, <1>5, <1>10 DEF ValidInv, Freeing
<1>13. /\ store' \in [Handles -> Bucket]
       /\ ~ store'[h].valid /\ store'[h].refcount = store[h].refcount
       /\ \A g \in Handles : store'[g].obj = store[g].obj /\ (g # h => store'[g] = store[g])
  <2>1. store \in [Handles -> Bucket]
    BY <1>0 DEF Types
  <2>2. PICK new : new = [store EXCEPT ![h].valid = FALSE]
    OBVIOUS
  <2>3. /\ new \in [Handles -> Bucket]
        /\ new[h].refcount = store[h].refcount /\ ~ new[h].valid /\ new[h].obj = store[h].obj
        /\ \A g \in Handles : new[g].obj = store[g].obj /\ (g # h => new[g] = store[g])
    BY <2>1, <2>2, Invalidated
  <2>4. store' = new
    BY <1>11, <2>2
  <2>5. QED
    BY <2>3, <2>4
<1>14. /\ freed' \in [Objs -> Nat] /\ freed'[o] # 0
       /\ \A p \in Objs : p # o => freed'[p] = freed[p]
  BY <1>0, <1>5, <1>11, <1>12 DEF Types
<1>15. Types'
  <2>1. props' \in [Objs -> SUBSET Objs]
    BY <1>0, <1>11 DEF Types
  <2>2. stack' \in Seq(Frames) \ {<<>>}
    BY <1>10, <1>11 DEF Shape
  <2>3. buffered' \in SUBSET Handles
    BY <1>0, <1>11 DEF Types
  <2>4. QED
    BY <1>0, <1>11, <1>13, <1>14, <2>1, <2>2, <2>3 DEF Types
<1>16. \A p \in Objs : Refs(p)' = Refs(p)
  <2>1. \A p \in Objs : Holds(stack[1], p) = 0
    BY <1>0, <1>1, <1>8, HoldsNothing
  <2>2. \A p \in Objs : HeldBy(stack', p) = HeldBy(stack, p) + IF p \in props[o] THEN 1 ELSE 0
    BY <2>1, <1>7, <1>10, <1>11
  <2>3. UNCHANGED <<vars, lost>> /\ props' = [props EXCEPT ![o] = {}]
    BY <1>11
  <2>4. QED
    BY <1>0, <1>5, <1>15, <2>2, <2>3, Discarding
<1>17. Created' = Created /\ \A p \in Created : handle[p] \in Handles
  BY <1>0, <1>11 DEF Created, Types
<1>18. \A p \in Created : Keeps(p)' <=> Keeps(p)
  BY <1>11, <1>13, <1>17 DEF Keeps
<1>19. FreeingAll' /\ FreeingAll
  <2>1. FreeingAll'
    BY <1>10, <1>11 DEF FreeingAll, Base
  <2>2. Base(stack) = stack[1].at
    BY <1>0, <1>7, <1>8, Jumped
  <2>3. QED
    BY <2>1, <2>2, <1>0 DEF FreeingAll, Base
<1>20. \A p \in Objs : ~ Freeing(p)' /\ ~ Freeing(p)
  BY <1>10, <1>11 DEF Freeing
<1>21. CallsInv'
  <2>1. Relies(f)'
    BY <1>0, <1>3, <1>7, <1>11 DEF Relies
  <2>2. QED
    BY <2>1, <1>10, <1>11 DEF CallsInv
<1>22. CreatedInv'
  <2>1. \A p \in Objs \ Created : p # o /\ Refs(p)' = 0 /\ freed'[p] = 0 /\ destructed'[p] = 0
    BY <1>0, <1>4, <1>11, <1>14, <1>16 DEF CreatedInv
  <2>2. QED
    BY <2>1, <1>0, <1>11, <1>17 DEF CreatedInv
<1>23. BucketInv'
  <2>1. \A g \in Handles : ~ (g < top) => g # h
    BY <1>0, <1>3
  <2>2. QED
    BY <2>1, <1>0, <1>11, <1>13, <1>17 DEF BucketInv
<1>24. CountInv'
  <2>1. \A g \in Handles : store'[g].refcount = store[g].refcount
    BY <1>13
  <2>2. \A p \in Created : freed[p] # 0 => freed'[p] # 0
    BY <1>5, <1>14
  <2>3. QED
    BY <2>1, <2>2, <1>0, <1>5, <1>11, <1>16, <1>17, <1>18 DEF CountInv
<1>25. ValidInv'
  <2>1. ASSUME NEW p \in Created, Keeps(p)
        PROVE  IF store'[handle[p]].valid
               THEN freed'[p] = 0 /\ (~ store'[handle[p]].called => destructed[p] = 0)
               ELSE freed'[p] # 0
    <3>1. CASE p = o
      BY <3>1, <1>4, <1>13, <1>14
    <3>2. CASE p # o
      <4>1. handle[p] # h
        BY <2>1, <3>2, <1>4, <1>5, OwnBuckets
      <4>2. store'[handle[p]] = store[handle[p]] /\ freed'[p] = freed[p]
        BY <3>2, <4>1, <1>5, <1>13, <1>14, <1>17
      <4>3. QED
        BY <2>1, <4>2, <1>0, <1>5, <1>20 DEF ValidInv
    <3>3. QED
      BY <3>1, <3>2
  <2>2. QED
    BY <2>1, <1>11, <1>17, <1>18, <1>19 DEF ValidInv
<1>26. FreeingInv'
  BY <1>5, <1>17, <1>20 DEF FreeingInv
<1>27. FreeInv'
  <2>1. \A k \in DOMAIN freeList : freeList[k] \in Handles
    BY <1>0, LenProperties, ElementOfSeq DEF Types
  <2>2. \A g \in Handles : /\ store'[g].valid => store[g].valid
                           /\ store'[g].refcount = store[g].refcount
    BY <1>13
  <2>3. QED
    BY <2>1, <2>2, <1>0, <1>11, <1>19 DEF FreeInv, FreeListSound
<1>28. NoDanglingRoot'
  BY <1>0, <1>11, <1>13 DEF NoDanglingRoot, Types
<1>29. Shape(stack)'
  BY <1>10, <1>11
<1>30. Sound'
  BY <1>15, <1>21, <1>22, <1>23, <1>24, <1>25, <1>26, <1>27, <1>28, <1>29 DEF Sound
<1>31. QED
  BY <1>5, <1>11, <1>12, <1>30
-----------------------------------------------------------------------------
\* The first handle of the free list is taken off it.
LEMMA Taken ==
    ASSUME Types, FreeListSound, freeList # <<>>
    PROVE  LET fl == Tail(freeList) IN
           /\ 1 \in DOMAIN freeList /\ Head(freeList) = freeList[1]
           /\ fl \in Seq(Handles)
           /\ \A i, j \in DOMAIN fl : fl[i] = fl[j] => i = j
           /\ \A i \in DOMAIN fl : \E j \in DOMAIN freeList : fl[i] = freeList[j] /\ freeList[j] # freeList[1]
           /\ \A j \in DOMAIN freeList : \/ freeList[j] = freeList[1]
                                         \/ \E i \in DOMAIN fl : fl[i] = freeList[j]
<1> DEFINE fl == Tail(freeList)
<1>0. freeList \in Seq(Handles)
  BY DEF Types
<1>1. /\ Len(freeList) \in Nat /\ Len(freeList) >= 1
      /\ Head(freeList) = freeList[1]
      /\ fl \in Seq(Handles) /\ Len(fl) = Len(freeList) - 1
      /\ \A k \in 1..(Len(freeList) - 1) : fl[k] = freeList[k + 1]
  BY <1>0, HeadTailProperties, EmptySeq
<1>2. DOMAIN freeList = 1..Len(freeList) /\ DOMAIN fl = 1..(Len(freeList) - 1)
  BY <1>0, <1>1, LenProperties
<1>3. 1 \in DOMAIN freeList
  BY <1>1, <1>2
<1> HIDE DEF fl
<1>4. \A i \in DOMAIN fl : i \in Nat /\ i + 1 \in DOMAIN freeList /\ i + 1 # 1 /\ fl[i] = freeList[i + 1]
  BY <1>1, <1>2
<1>5. \A j \in DOMAIN freeList : j = 1 \/ (j - 1 \in DOMAIN fl /\ fl[j - 1] = freeList[j])
  <2>1. ASSUME NEW j \in DOMAIN freeList, j # 1
        PROVE  j - 1 \in DOMAIN fl /\ fl[j - 1] = freeList[j]
    <3>1. j - 1 \in 1..(Len(freeList) - 1) /\ (j - 1) + 1 = j
      BY <2>1, <1>1, <1>2
    <3>2. fl[j - 1] = freeList[(j - 1) + 1]
      BY <1>1, <3>1
    <3>3. QED
      BY <1>2, <3>1, <3>2
  <2>2. QED
    BY <2>1
<1>6. \A i, j \in DOMAIN fl : fl[i] = fl[j] => i = j
  <2>1. ASSUME NEW i \in DOMAIN fl, NEW j \in DOMAIN fl, fl[i] = fl[j]
        PROVE  i = j
    <3>1. i + 1 = j + 1
      BY <2>1, <1>4 DEF FreeListSound
    <3>2. QED
      BY <3>1, <1>4
  <2>2. QED
    BY <2>1
<1>7. \A i \in DOMAIN fl : \E j \in DOMAIN freeList : fl[i] = freeList[j] /\ freeList[j] # freeList[1]
  <2>1. ASSUME NEW i \in DOMAIN fl
        PROVE  fl[i] = freeList[i + 1] /\ i + 1 \in DOMAIN freeList /\ freeList[i + 1] # freeList[1]
    BY <1>3, <1>4 DEF FreeListSound
  <2>2. QED
    BY <2>1
<1>8. \A j \in DOMAIN freeList : freeList[j] = freeList[1] \/ \E i \in DOMAIN fl : fl[i] = freeList[j]
  BY <1>5
<1>9. QED
  BY <1>1, <1>3, <1>6, <1>7, <1>8 DEF fl

\* What zend_objects_store_put finds: a handle nobody's object is under any more.
LEMMA Vacant ==
    ASSUME Sound, NEW h, h = IF freeList # <<>> THEN Head(freeList) ELSE top,
           NEW n \in 0..MaxObjs, n + 1 \in Objs, top <= n + 1
    PROVE  /\ h \in Handles /\ ~ store[h].valid
           /\ freeList # <<>> => h < top
           /\ \A p \in Created : handle[p] = h => Refs(p) = 0 /\ freed[p] # 0
<1>0. Types /\ BucketInv /\ CountInv /\ ValidInv /\ FreeInv /\ FreeListSound
  BY DEF Sound, FreeInv
<1>1. CASE freeList # <<>>
  <2>1. 1 \in DOMAIN freeList /\ Head(freeList) = freeList[1]
    BY <1>0, <1>1, Taken
  <2>2. h \in Handles
    BY <1>0, <1>1, <2>1, LenProperties, ElementOfSeq DEF Types
  <2>3. h < top /\ ~ store[h].valid /\ store[h].refcount = 0
    BY <1>0, <1>1, <2>1 DEF FreeInv, FreeListSound
  <2>4. ASSUME NEW p \in Created, handle[p] = h
        PROVE  Refs(p) = 0 /\ freed[p] # 0
    <3>1. CASE Keeps(p)
      BY <2>3, <2>4, <3>1, <1>0 DEF CountInv, ValidInv
    <3>2. CASE ~ Keeps(p)
      BY <2>4, <3>2, <1>0 DEF CountInv
    <3>3. QED
      BY <3>1, <3>2
  <2>5. QED
    BY <1>1, <2>2, <2>3, <2>4
<1>2. CASE freeList = <<>>
  <2>1. h = top
    BY <1>2
  <2>2. h \in Handles
    <3>1. top \in 1..(MaxObjs + 1) /\ n + 1 \in 1..MaxObjs
      BY <1>0, Constants DEF Types
    <3>2. QED
      BY <2>1, <3>1, Constants
  <2>3. top \in Int /\ ~ (h < top)
    BY <1>0, <2>1, Constants DEF Types
  <2>4. ~ store[h].valid
    BY <1>0, <2>2, <2>3 DEF BucketInv, NoBucket
  <2>5. \A p \in Created : handle[p] # h
    BY <1>0, <2>3 DEF CountInv
  <2>6. QED
    BY <1>2, <2>2, <2>4, <2>5
<1>3. QED
  BY <1>1, <1>2

\* The room that is left: the store grows before it is full.
LEMMA Grown ==
    ASSUME Types, NEW n \in 0..MaxObjs, n + 1 \in Objs, top <= n + 1,
           NEW empty \in BOOLEAN,
           size' = IF empty /\ top = size THEN 2 * size ELSE size,
           gen' = IF empty /\ top = size THEN gen + 1 ELSE gen,
           top' = IF empty THEN top + 1 ELSE top
    PROVE  /\ top' \in 1..(MaxObjs + 1) /\ size' \in Nat /\ top' <= size' /\ gen' \in Nat
           /\ top' <= (n + 1) + 1 /\ top <= top' /\ n + 1 \in 0..MaxObjs
<1>1. top \in 1..(MaxObjs + 1) /\ size \in Nat /\ top <= size /\ gen \in Nat
  BY DEF Types
<1>2. n + 1 \in 1..MaxObjs
  BY Constants
<1>3. CASE empty
  <2>1. top' = top + 1
    BY <1>3
  <2>2. top' <= size' /\ size' \in Nat
    BY <2>1, <1>1, <1>3, Constants
  <2>3. gen' \in Nat
    BY <1>1
  <2>4. QED
    BY <2>1, <2>2, <2>3, <1>1, <1>2, Constants
<1>4. CASE ~ empty
  BY <1>1, <1>2, <1>4, Constants
<1>5. QED
  BY <1>3, <1>4
-----------------------------------------------------------------------------
\* zend_objects_store_put: the new object has one zval, in a variable.
LEMMA StepNew ==
    ASSUME Sound, New PROVE Sound'
<1>0. /\ Types /\ Shape(stack) /\ CallsInv /\ CreatedInv /\ BucketInv
      /\ CountInv /\ ValidInv /\ FreeingInv /\ FreeInv /\ NoDanglingRoot /\ FreeListSound
  BY DEF Sound, FreeInv
<1>1. PICK n \in 0..MaxObjs : Created = 1..n /\ top <= n + 1
  BY <1>0 DEF CreatedInv
<1>2. n \in Nat /\ Cardinality(Created) = n
  <2>1. n \in Nat /\ 1 \in Int /\ n \in Int
    BY <1>1, Constants
  <2>2. Cardinality(1..n) = IF 1 > n THEN 0 ELSE n - 1 + 1
    BY <2>1, FS_Interval
  <2>3. QED
    BY <1>1, <2>1, <2>2
<1>3. PICK o : o = n + 1
  OBVIOUS
<1>4. PICK h : h = IF freeList # <<>> THEN Head(freeList) ELSE top
  OBVIOUS
<1>5. PICK nb : nb = [valid |-> TRUE, called |-> FALSE, refcount |-> 1, obj |-> o]
  OBVIOUS
<1>6. PICK empty \in BOOLEAN : empty <=> freeList = <<>>
  OBVIOUS
<1>7. /\ Statement
      /\ o \in Objs
      /\ freeList' = IF freeList # <<>> THEN Tail(freeList) ELSE freeList
      /\ size' = IF empty /\ top = size THEN 2 * size ELSE size
      /\ gen' = IF empty /\ top = size THEN gen + 1 ELSE gen
      /\ top' = IF empty THEN top + 1 ELSE top
      /\ store' = [store EXCEPT ![h] = nb]
      /\ buffered' = buffered \ {h}
      /\ handle' = [handle EXCEPT ![o] = h]
      /\ vars' = [vars EXCEPT ![o] = 1]
      /\ early' \in {early, early \cup {o}}
      /\ UNCHANGED <<props, stack, lost, destructed, freed, bailed>>
  BY <1>2, <1>3, <1>4, <1>5, <1>6 DEF New, ghosts
<1>8. /\ h \in Handles /\ ~ store[h].valid
      /\ freeList # <<>> => h < top
      /\ \A p \in Created : handle[p] = h => Refs(p) = 0 /\ freed[p] # 0
  BY <1>1, <1>3, <1>4, <1>7, Vacant
<1>9. /\ top' \in 1..(MaxObjs + 1) /\ size' \in Nat /\ top' <= size' /\ gen' \in Nat
      /\ top' <= (n + 1) + 1 /\ top <= top' /\ n + 1 \in 0..MaxObjs
  BY <1>0, <1>1, <1>3, <1>6, <1>7, Grown
<1>10. /\ top \in Int /\ top' \in Int /\ h \in Int /\ Handles \subseteq Int
       /\ h < top' /\ \A g \in Handles : g # h /\ g < top' => g < top
       /\ \A g \in Handles : g < top => g < top'
  <2>1. top \in Int /\ top' \in Int /\ h \in Int /\ Handles \subseteq Int
    BY <1>0, <1>8, <1>9, Constants DEF Types
  <2>2. CASE freeList # <<>>
    BY <2>1, <2>2, <1>6, <1>7, <1>8
  <2>3. CASE freeList = <<>>
    <3>1. h = top /\ top' = top + 1
      BY <2>3, <1>4, <1>6, <1>7
    <3>2. QED
      BY <2>1, <3>1
  <2>4. \A g \in Handles : g < top => g < top'
    BY <2>1, <1>9
  <2>5. QED
    BY <2>1, <2>2, <2>3, <2>4
<1>11. /\ freeList' \in Seq(Handles)
       /\ \A i, j \in DOMAIN freeList' : freeList'[i] = freeList'[j] => i = j
       /\ \A i \in DOMAIN freeList' : \E j \in DOMAIN freeList : freeList'[i] = freeList[j] /\ freeList[j] # h
       /\ \A j \in DOMAIN freeList : freeList[j] = h \/ \E i \in DOMAIN freeList' : freeList'[i] = freeList[j]
  <2>1. CASE freeList # <<>>
    <3>1. PICK fl : fl = Tail(freeList)
      OBVIOUS
    <3>2. /\ 1 \in DOMAIN freeList /\ Head(freeList) = freeList[1]
          /\ fl \in Seq(Handles)
          /\ \A i, j \in DOMAIN fl : fl[i] = fl[j] => i = j
          /\ \A i \in DOMAIN fl : \E j \in DOMAIN freeList : fl[i] = freeList[j] /\ freeList[j] # freeList[1]
          /\ \A j \in DOMAIN freeList : \/ freeList[j] = freeList[1]
                                        \/ \E i \in DOMAIN fl : fl[i] = freeList[j]
      BY <1>0, <2>1, <3>1, Taken
    <3>3. freeList' = fl /\ h = freeList[1]
      BY <2>1, <3>1, <3>2, <1>4, <1>7
    <3>4. QED
      BY <3>2, <3>3
  <2>2. CASE freeList = <<>>
    <3>1. freeList' = freeList /\ freeList \in Seq(Handles) /\ DOMAIN freeList = {}
      BY <2>2, <1>0, <1>7 DEF Types
    <3>2. QED
      BY <3>1
  <2>3. QED
    BY <2>1, <2>2
<1>12. /\ store' \in [Handles -> Bucket] /\ store'[h] = nb
       /\ \A g \in Handles : g # h => store'[g] = store[g]
  <2>1. nb \in Bucket
    BY <1>5, <1>7 DEF Bucket
  <2>2. QED
    BY <2>1, <1>0, <1>7, <1>8 DEF Types
<1>13. nb.valid /\ ~ nb.called /\ nb.refcount = 1 /\ nb.obj = o
  BY <1>5
<1>14. o \notin Created /\ handle[o] = 0 /\ Created \subseteq Objs
  <2>1. o \notin Created
    BY <1>1, <1>2, <1>3
  <2>2. QED
    BY <2>1, <1>7 DEF Created
<1>15. /\ handle' \in [Objs -> Handles \cup {0}] /\ handle'[o] = h
       /\ \A p \in Objs : p # o => handle'[p] = handle[p]
  BY <1>0, <1>7, <1>8 DEF Types
<1>16. Created' = Created \cup {o} /\ Created' = 1..(n + 1)
  <2>1. h # 0
    BY <1>8, Constants
  <2>2. Created' = Created \cup {o}
    BY <2>1, <1>7, <1>15 DEF Created
  <2>3. 1..(n + 1) = (1..n) \cup {n + 1}
    BY <1>2
  <2>4. QED
    BY <2>2, <2>3, <1>1, <1>3
<1>17. Refs(o) = 0 /\ freed[o] = 0 /\ destructed[o] = 0 /\ ~ Freeing(o)
  <2>1. Refs(o) = 0 /\ freed[o] = 0 /\ destructed[o] = 0
    BY <1>0, <1>7, <1>14 DEF CreatedInv
  <2>2. /\ Cardinality(Stored(o)) \in Nat
        /\ vars[o] \in Nat /\ HeldBy(stack, o) \in Nat /\ lost[o] \in Nat
        /\ Refs(o) = vars[o] + Cardinality(Stored(o)) + HeldBy(stack, o) + lost[o]
    BY <1>0, <1>7, RefsParts
  <2>3. ~ (HeldBy(stack, o) >= 1)
    BY <2>1, <2>2
  <2>4. stack \in Seq(Frames)
    BY <1>0 DEF Types
  <2>5. QED
    BY <2>1, <2>3, <2>4, <1>7, FreeingHolds DEF Freeing
<1>18. Types'
  <2>1. steps' \in 0..MaxSteps
    BY <1>7, NextStatement
  <2>2. vars' \in [Objs -> 0..MaxVars]
    <3>1. 1 \in 0..MaxVars
      BY Constants
    <3>2. QED
      BY <3>1, <1>0, <1>7 DEF Types
  <2>3. early' \in SUBSET Objs /\ buffered' \in SUBSET Handles
    BY <1>0, <1>7 DEF Types
  <2>4. QED
    BY <1>0, <1>7, <1>9, <1>11, <1>12, <1>15, <2>1, <2>2, <2>3 DEF Types
<1>19. \A p \in Objs : Refs(p)' = IF p = o THEN 1 ELSE Refs(p)
  <2>1. ASSUME NEW p \in Objs
        PROVE  Refs(p)' = IF p = o THEN 1 ELSE Refs(p)
    <3>1. UNCHANGED props
      BY <1>7
    <3>2. /\ Refs(p)' = Refs(p) + (vars'[p] - vars[p]) + (HeldBy(stack', p) - HeldBy(stack, p))
                                 + (lost'[p] - lost[p])
          /\ Refs(p) \in Nat
          /\ vars[p] \in Nat /\ lost[p] \in Nat
          /\ HeldBy(stack, p) \in Nat
      BY <1>0, <1>18, <3>1, RefsChange
    <3>3. HeldBy(stack', p) = HeldBy(stack, p) /\ lost'[p] = lost[p]
      BY <1>7
    <3>4. CASE p = o
      <4>1. vars'[p] = 1
        BY <3>4, <1>0, <1>7 DEF Types
      <4>2. vars[p] = 0
        <5>1. /\ Cardinality(Stored(p)) \in Nat
              /\ vars[p] \in Nat /\ HeldBy(stack, p) \in Nat /\ lost[p] \in Nat
              /\ Refs(p) = vars[p] + Cardinality(Stored(p)) + HeldBy(stack, p) + lost[p]
          BY <1>0, RefsParts
        <5>2. Refs(p) = 0
          BY <3>4, <1>17
        <5>3. QED
          BY <5>1, <5>2
      <4>3. Refs(p) = 0
        BY <3>4, <1>17
      <4>4. QED
        BY <3>2, <3>3, <3>4, <4>1, <4>2, <4>3
    <3>5. CASE p # o
      <4>1. vars'[p] = vars[p]
        BY <3>5, <1>0, <1>7 DEF Types
      <4>2. QED
        BY <3>2, <3>3, <3>5, <4>1
    <3>6. QED
      BY <3>4, <3>5
  <2>2. QED
    BY <2>1
\* The objects of old: each has its handle still, and its bucket unless that was h.
<1>20. \A p \in Created : /\ p # o /\ p \in Objs /\ handle'[p] = handle[p] /\ Refs(p)' = Refs(p)
                          /\ handle[p] \in Handles
                          /\ handle[p] # h => store'[handle[p]] = store[handle[p]]
                          /\ handle[p] = h => store'[handle[p]].obj # p
  BY <1>0, <1>12, <1>13, <1>14, <1>15, <1>19 DEF Types, Created
<1>21. \A p \in Objs : Freeing(p)' <=> Freeing(p)
  BY <1>7 DEF Freeing
<1>22. CallsInv'
  <2>1. ASSUME NEW f \in Frames, FrameOK(f), Relies(f)
        PROVE  Relies(f)'
    <3>1. f.at = "dtor_done" => /\ f.o \in Created' /\ Keeps(f.o)'
                                /\ store'[handle'[f.o]].valid /\ store'[handle'[f.o]].called
      BY <2>1, <1>8, <1>16, <1>20 DEF Relies, Keeps
    <3>2. f.at = "called" /\ f.o # 0 => f.i = handle'[f.o]
      <4>1. ASSUME f.at = "called", f.o # 0
            PROVE  f.i = handle'[f.o]
        <5>1. f.i >= 1 /\ f.i = handle[f.o]
          BY <2>1, <4>1 DEF Relies, FrameOK
        <5>2. f.o # o
          BY <5>1, <1>14
        <5>3. f.o \in Objs
          BY <2>1, <4>1 DEF Frames
        <5>4. QED
          BY <5>1, <5>2, <5>3, <1>15
      <4>2. QED
        BY <4>1
    <3>3. f.at = "free_one" => f.i < top'
      <4>1. f.i \in Int
        BY <2>1, Constants DEF Frames
      <4>2. QED
        BY <2>1, <4>1, <1>9, <1>10 DEF Relies
    <3>4. QED
      BY <3>1, <3>2, <3>3 DEF Relies
  <2>2. \A k \in DOMAIN stack : stack[k] \in Frames /\ FrameOK(stack[k]) /\ Relies(stack[k])
    BY <1>0, LenProperties, ElementOfSeq DEF Types, CallsInv, Shape
  <2>3. QED
    BY <2>1, <2>2, <1>7 DEF CallsInv
<1>23. CreatedInv'
  <2>1. \A p \in Objs \ Created' : Refs(p)' = 0 /\ freed'[p] = 0 /\ destructed'[p] = 0
    BY <1>0, <1>7, <1>16, <1>19 DEF CreatedInv
  <2>2. QED
    BY <2>1, <1>9, <1>16 DEF CreatedInv
<1>24. BucketInv'
  <2>1. ASSUME NEW g \in Handles
        PROVE  IF g < top' THEN store'[g].obj \in Created' /\ handle'[store'[g].obj] = g
               ELSE store'[g] = NoBucket
    <3>1. CASE g = h
      BY <3>1, <1>10, <1>12, <1>13, <1>15, <1>16
    <3>2. CASE g # h /\ g < top'
      <4>1. g < top /\ store'[g] = store[g]
        BY <3>2, <1>10, <1>12
      <4>2. store[g].obj \in Created /\ handle[store[g].obj] = g
        BY <4>1, <1>0 DEF BucketInv
      <4>3. QED
        BY <3>2, <4>1, <4>2, <1>16, <1>20
    <3>3. CASE g # h /\ ~ (g < top')
      <4>1. ~ (g < top) /\ store'[g] = store[g]
        BY <3>3, <1>9, <1>10, <1>12
      <4>2. QED
        BY <3>3, <4>1, <1>0 DEF BucketInv
    <3>4. QED
      BY <3>1, <3>2, <3>3
  <2>2. QED
    BY <2>1 DEF BucketInv
<1>25. CountInv'
  <2>1. ASSUME NEW p \in Created'
        PROVE  /\ handle'[p] < top'
               /\ store'[handle'[p]].obj = p => store'[handle'[p]].refcount = Refs(p)'
               /\ store'[handle'[p]].obj # p => Refs(p)' = 0 /\ freed'[p] # 0
    <3>1. CASE p = o
      BY <3>1, <1>7, <1>10, <1>12, <1>13, <1>15, <1>19
    <3>2. CASE p \in Created
      <4>1. handle[p] < top /\ handle[p] \in Handles
        BY <3>2, <1>0, <1>20 DEF CountInv
      <4>2. handle'[p] < top'
        BY <3>2, <4>1, <1>10, <1>20
      <4>3. CASE handle[p] = h
        BY <3>2, <4>2, <4>3, <1>7, <1>8, <1>20
      <4>4. CASE handle[p] # h
        BY <3>2, <4>2, <4>4, <1>0, <1>7, <1>20 DEF CountInv, Keeps
      <4>5. QED
        BY <4>3, <4>4
    <3>3. QED
      BY <2>1, <3>1, <3>2, <1>16
  <2>2. QED
    BY <2>1 DEF CountInv, Keeps
<1>26. ValidInv'
  <2>1. ASSUME NEW p \in Created', store'[handle'[p]].obj = p
        PROVE  IF store'[handle'[p]].valid
               THEN /\ freed'[p] # 0 => Freeing(p)'
                    /\ ~ store'[handle'[p]].called => destructed'[p] = 0
               ELSE freed'[p] # 0 /\ (~ FreeingAll' => Refs(p)' = 0)
    <3>1. CASE p = o
      BY <3>1, <1>7, <1>12, <1>13, <1>15, <1>17
    <3>2. CASE p \in Created
      <4>1. handle[p] # h
        BY <2>1, <3>2, <1>20
      <4>2. store'[handle'[p]] = store[handle[p]] /\ Keeps(p) /\ Refs(p)' = Refs(p)
        BY <2>1, <3>2, <4>1, <1>20 DEF Keeps
      <4>3. FreeingAll' <=> FreeingAll
        BY <1>7 DEF FreeingAll
      <4>4. Freeing(p)' <=> Freeing(p)
        BY <3>2, <1>14, <1>21
      <4>5. QED
        BY <3>2, <4>2, <4>3, <4>4, <1>0, <1>7 DEF ValidInv
    <3>3. QED
      BY <2>1, <3>1, <3>2, <1>16
  <2>2. QED
    BY <2>1 DEF ValidInv, Keeps
<1>27. FreeingInv'
  <2>1. ASSUME NEW p \in Created', Freeing(p)'
        PROVE  /\ store'[handle'[p]].obj = p /\ store'[handle'[p]].valid /\ store'[handle'[p]].called
               /\ Refs(p)' = 1 /\ freed'[p] # 0
               /\ handle'[p] \notin buffered'
    <3>1. Freeing(p) /\ p # o
      BY <2>1, <1>14, <1>7, <1>16, <1>17, <1>21
    <3>2. p \in Created
      BY <2>1, <3>1, <1>16
    <3>3. /\ Keeps(p) /\ store[handle[p]].valid /\ store[handle[p]].called
          /\ Refs(p) = 1 /\ freed[p] # 0
          /\ handle[p] \notin buffered
      BY <3>1, <3>2, <1>0 DEF FreeingInv
    <3>4. handle[p] # h
      BY <3>3, <1>8
    <3>5. QED
      BY <3>2, <3>3, <3>4, <1>7, <1>20 DEF Keeps
  <2>2. QED
    BY <2>1 DEF FreeingInv, Keeps
<1>28. FreeInv'
  <2>0. \A k \in DOMAIN freeList : freeList[k] \in Handles
    BY <1>0, LenProperties, ElementOfSeq DEF Types
  <2>1. \A i \in DOMAIN freeList' : /\ freeList'[i] < top' /\ ~ store'[freeList'[i]].valid
                                    /\ store'[freeList'[i]].refcount = 0
    <3>1. ASSUME NEW j \in DOMAIN freeList, freeList[j] # h
          PROVE  /\ freeList[j] < top' /\ ~ store'[freeList[j]].valid
                 /\ store'[freeList[j]].refcount = 0
      <4>1. freeList[j] \in Handles /\ freeList[j] < top /\ ~ store[freeList[j]].valid
            /\ store[freeList[j]].refcount = 0
        BY <2>0, <1>0 DEF FreeInv, FreeListSound
      <4>2. QED
        BY <3>1, <4>1, <1>10, <1>12
    <3>2. QED
      BY <3>1, <1>11
  <2>2. ~ FreeingAll => \A g \in 1..(top' - 1) : store'[g].valid \/ \E i \in DOMAIN freeList' : freeList'[i] = g
    <3>1. \A g \in 1..(top' - 1) : g \in Handles /\ g < top'
      <4>1. PICK m \in 1..(MaxObjs + 1) : m = top'
        BY <1>9
      <4>2. \A g \in 1..(m - 1) : g \in 1..MaxObjs /\ g < m
        BY Constants
      <4>3. QED
        BY <4>1, <4>2, Constants
    <3>2. ASSUME ~ FreeingAll, NEW g \in 1..(top' - 1), g # h
          PROVE  store'[g].valid \/ \E i \in DOMAIN freeList' : freeList'[i] = g
      <4>1. g \in Handles /\ g < top
        BY <3>1, <3>2, <1>10
      <4>2. g \in 1..(top - 1)
        BY <4>1, <1>10, <3>2
      <4>3. store[g].valid \/ \E j \in DOMAIN freeList : freeList[j] = g
        BY <3>2, <4>2, <1>0 DEF FreeListSound
      <4>4. QED
        BY <3>2, <4>1, <4>3, <1>11, <1>12
    <3>3. QED
      BY <3>2, <1>12, <1>13
  <2>3. FreeingAll' <=> FreeingAll
    BY <1>7 DEF FreeingAll
  <2>4. FreeListSound'
    BY <2>1, <2>2, <2>3, <1>11 DEF FreeListSound
  <2>5. QED
    BY <2>1, <2>4 DEF FreeInv
<1>29. NoDanglingRoot'
  BY <1>0, <1>7, <1>12 DEF NoDanglingRoot, Types
<1>30. Shape(stack)'
  BY <1>0, <1>7
<1>31. QED
  BY <1>18, <1>22, <1>23, <1>24, <1>25, <1>26, <1>27, <1>28, <1>29, <1>30 DEF Sound
-----------------------------------------------------------------------------
\* The store is empty when a request starts.
LEMMA Initially == Init => IInv
<1> SUFFICES ASSUME Init PROVE IInv
  OBVIOUS
<1>1. PICK f : f = Frame("main", 0, 0)
  OBVIOUS
<1>2. /\ f = [at |-> "main", o |-> 0, i |-> 0, gen |-> 0, fail |-> FALSE, todo |-> {}]
      /\ stack = <<f>>
  BY <1>1 DEF Init, Frame
<1>3. f \in Frames /\ FrameOK(f) /\ f.at \in Bottom /\ f.at = "main" /\ f.todo = {}
  <2>1. 0 \in 0..(MaxObjs + 1)
    BY Constants
  <2>2. f \in Frames
    BY <1>2, <2>1 DEF Frames, Labels
  <2>3. QED
    BY <1>2, <2>2 DEF FrameOK, Inner, Bottom, Labels
<1>4. Shape(stack) /\ \A o \in Objs : HeldBy(stack, o) = 0
  <2>1. \A o \in Objs : Holds(f, o) = 0
    BY <1>3, HoldsNothing
  <2>2. QED
    BY <2>1, <1>2, <1>3, ShapeBottom, HeldOne
<1>5. Types
  <2>1. top \in 1..(MaxObjs + 1) /\ size \in Nat /\ top <= size
    BY Constants DEF Init
  <2>2. store \in [Handles -> Bucket]
    <3>1. NoBucket \in Bucket
      BY DEF NoBucket, Bucket
    <3>2. store = [h \in Handles |-> NoBucket]
      BY DEF Init
    <3>3. QED
      BY <3>1, <3>2
  <2>3. 0 \in 0..MaxVars /\ 0 \in 0..MaxSteps
    BY Constants
  <2>4. stack \in Seq(Frames) \ {<<>>}
    BY <1>4 DEF Shape
  <2>5. freeList \in Seq(Handles)
    BY DEF Init
  <2>6. QED
    BY <2>1, <2>2, <2>3, <2>4, <2>5 DEF Init, Types
<1>6. Created = {} /\ \A o \in Objs : Refs(o) = 0 /\ freed[o] = 0 /\ destructed[o] = 0
  <2>1. Created = {} /\ \A o \in Objs : freed[o] = 0 /\ destructed[o] = 0
    BY DEF Created, Init
  <2>2. ASSUME NEW o \in Objs PROVE Refs(o) = 0
    <3>1. Refs(o) = vars[o] + Cardinality(Stored(o)) + HeldBy(stack, o) + lost[o]
      BY <1>5, RefsParts
    <3>2. Stored(o) = {} /\ vars[o] = 0 /\ lost[o] = 0
      BY DEF Stored, Init
    <3>3. QED
      BY <3>1, <3>2, <1>4, FS_EmptySet
  <2>3. QED
    BY <2>1, <2>2
<1>7. CallsInv
  <2>1. Relies(f)
    BY <1>3 DEF Relies
  <2>2. DOMAIN <<f>> = {1} /\ <<f>>[1] = f
    OBVIOUS
  <2>3. \A k \in DOMAIN <<f>> : Relies(<<f>>[k])
    BY <2>1, <2>2
  <2>4. QED
    BY <2>3, <1>2 DEF CallsInv
<1>8. CreatedInv
  <2>1. 0 \in 0..MaxObjs /\ 1..0 = {} /\ top <= 0 + 1
    BY Constants DEF Init
  <2>2. \E n \in 0..MaxObjs : Created = 1..n /\ top <= n + 1
    BY <2>1, <1>6
  <2>3. QED
    BY <2>2, <1>6 DEF CreatedInv
<1>9. BucketInv
  <2>1. \A h \in Handles : ~ (h < top)
    BY Constants DEF Init
  <2>2. QED
    BY <2>1 DEF BucketInv, Init
<1>10. CountInv /\ ValidInv /\ FreeingInv
  BY <1>6 DEF CountInv, ValidInv, FreeingInv
<1>11. FreeInv /\ NoDanglingRoot
  <2>1. freeList = <<>> /\ top = 1 /\ buffered = {}
    BY DEF Init
  <2>2. DOMAIN freeList = {} /\ 1..(top - 1) = {}
    BY <2>1
  <2>3. FreeInv
    BY <2>2 DEF FreeInv, FreeListSound
  <2>4. NoDanglingRoot
    BY <2>1 DEF NoDanglingRoot
  <2>5. QED
    BY <2>3, <2>4
<1>12. stale = FALSE
  BY DEF Init
<1>13. Sound
  BY <1>4, <1>5, <1>7, <1>8, <1>9, <1>10, <1>11 DEF Sound
<1>14. QED
  BY <1>12, <1>13 DEF IInv
-----------------------------------------------------------------------------
\* After the write through a stale pointer nothing happens any more.
LEMMA OnlyStopped == ASSUME Next, stale PROVE UNCHANGED allVars
<1>1. \A label : ~ At(label)
  BY DEF At
<1>2. ~ Script
  BY <1>1 DEF Script, New, EndDtor, Exit, Fatal, Copy, Unset, SetProp, ReadProp, Statement, InScript
<1>3. ~ DelRef
  BY <1>1 DEF DelRef, DelRefKeep, DelRefDestruct, DelRefFree, DelRefResurrected, FreeProperty,
     DelRefUnlink
<1>4. ~ Shutdown
  BY <1>1 DEF Shutdown, EndScript, RemoveSymbol, SymbolsDone, CallDestructor, DestructorCalled,
     AllCalled, DestroySymbol, TablesDone, FreeStorage, StorageFreed, EndRequest
<1>5. QED
  BY <1>2, <1>3, <1>4 DEF Next, Stopped

\* A step that leaves everything alone.
LEMMA Stutter == ASSUME IInv, UNCHANGED allVars PROVE IInv'
<1>1. /\ UNCHANGED <<store, top, size, freeList, gen, buffered, handle, vars, props, stack, steps>>
      /\ UNCHANGED <<lost, destructed, freed, early, bailed, stale>>
  BY DEF allVars
<1>2. /\ Created' = Created
      /\ \A o : Refs(o)' = Refs(o) /\ Owners(o)' = Owners(o)
      /\ \A o : (Keeps(o)' <=> Keeps(o)) /\ (Freeing(o)' <=> Freeing(o))
      /\ FreeingAll' <=> FreeingAll
  BY <1>1 DEF Created, Refs, Owners, Keeps, Freeing, FreeingAll
<1>3. Safe => Safe'
  <2>1. TypeOK => TypeOK'
    BY <1>1 DEF TypeOK
  <2>2. CountsExact => CountsExact'
    BY <1>1, <1>2 DEF CountsExact
  <2>3. NoDangling => NoDangling'
    BY <1>1, <1>2 DEF NoDangling
  <2>4. FreeListSound => FreeListSound'
    BY <1>1, <1>2 DEF FreeListSound
  <2>5. NoDanglingRoot => NoDanglingRoot'
    BY <1>1 DEF NoDanglingRoot
  <2>6. QED
    BY <2>1, <2>2, <2>3, <2>4, <2>5 DEF Safe
<1>4. Sound => Sound'
  <2>1. Types => Types'
    BY <1>1 DEF Types
  <2>2. Shape(stack) => Shape(stack)'
    BY <1>1
  <2>3. CallsInv => CallsInv'
    <3>1. \A f : Relies(f) => Relies(f)'
      BY <1>1, <1>2 DEF Relies
    <3>2. QED
      BY <1>1, <3>1 DEF CallsInv
  <2>4. CreatedInv => CreatedInv'
    BY <1>1, <1>2 DEF CreatedInv
  <2>5. BucketInv => BucketInv'
    BY <1>1, <1>2 DEF BucketInv
  <2>6. CountInv => CountInv'
    BY <1>1, <1>2 DEF CountInv
  <2>7. ValidInv => ValidInv'
    BY <1>1, <1>2 DEF ValidInv
  <2>8. FreeingInv => FreeingInv'
    BY <1>1, <1>2 DEF FreeingInv
  <2>9. FreeInv => FreeInv'
    BY <1>1, <1>2 DEF FreeInv, FreeListSound
  <2>10. NoDanglingRoot => NoDanglingRoot'
    BY <1>1 DEF NoDanglingRoot
  <2>11. QED
    BY <2>1, <2>2, <2>3, <2>4, <2>5, <2>6, <2>7, <2>8, <2>9, <2>10 DEF Sound
<1>5. QED
  BY <1>1, <1>3, <1>4 DEF IInv
-----------------------------------------------------------------------------
LEMMA ScriptInductive == ASSUME Sound, ~ stale, Script PROVE Sound' /\ stale' = stale
<1>1. CASE New
  BY <1>1, StepNew DEF New, ghosts
<1>2. CASE EndDtor
  BY <1>2, StepEndDtor DEF EndDtor, ghosts
<1>3. CASE Exit
  BY <1>3, StepExit DEF Exit
<1>4. CASE Fatal
  BY <1>4, StepFatal DEF Fatal
<1>5. ASSUME NEW o \in Objs, Copy(o) PROVE Sound' /\ stale' = stale
  BY <1>5, StepCopy DEF Copy, ghosts
<1>6. ASSUME NEW o \in Objs, Unset(o) PROVE Sound' /\ stale' = stale
  BY <1>6, StepUnset DEF Unset, ghosts
<1>7. ASSUME NEW o \in Objs, NEW p \in Objs, SetProp(o, p) PROVE Sound' /\ stale' = stale
  BY <1>7, StepSetProp DEF SetProp, ghosts
<1>8. ASSUME NEW o \in Objs, NEW p \in Objs, ReadProp(o, p) PROVE Sound' /\ stale' = stale
  BY <1>8, StepReadProp DEF ReadProp, ghosts
<1>9. QED
  BY <1>1, <1>2, <1>3, <1>4, <1>5, <1>6, <1>7, <1>8 DEF Script

LEMMA DelRefInductive ==
    ASSUME Sound, ~ stale, DelRef
    PROVE  (Sound' /\ stale' = stale) \/ (stale' = TRUE /\ Safe')
<1>1. CASE DelRefKeep
  BY <1>1, StepDelRefKeep DEF DelRefKeep
<1>2. CASE DelRefDestruct
  BY <1>2, StepDelRefDestruct DEF DelRefDestruct
<1>3. CASE DelRefFree
  BY <1>3, StepDelRefFree DEF DelRefFree
<1>4. CASE DelRefResurrected
  BY <1>4, StepDelRefResurrected DEF DelRefResurrected
<1>5. CASE FreeProperty
  BY <1>5, StepFreeProperty DEF FreeProperty, ghosts
<1>6. CASE DelRefUnlink
  BY <1>6, UnlinkReturns, UnlinkStale
<1>7. QED
  BY <1>1, <1>2, <1>3, <1>4, <1>5, <1>6 DEF DelRef

LEMMA ShutdownInductive == ASSUME Sound, ~ stale, Shutdown PROVE Sound' /\ stale' = stale
<1>1. CASE EndScript
  BY <1>1, StepEndScript DEF EndScript, ghosts
<1>2. CASE RemoveSymbol
  BY <1>2, StepRemoveSymbol DEF RemoveSymbol, ghosts
<1>3. CASE SymbolsDone
  BY <1>3, StepSymbolsDone DEF SymbolsDone, ghosts
<1>4. CASE CallDestructor
  BY <1>4, StepCallDestructor DEF CallDestructor
<1>5. CASE DestructorCalled
  BY <1>5, StepDestructorCalled DEF DestructorCalled, ghosts
<1>6. CASE AllCalled
  BY <1>6, StepAllCalled DEF AllCalled, ghosts
<1>7. CASE DestroySymbol
  BY <1>7, StepDestroySymbol DEF DestroySymbol, ghosts
<1>8. CASE TablesDone
  BY <1>8, StepTablesDone DEF TablesDone, ghosts
<1>9. CASE FreeStorage
  BY <1>9, StorageSkipped, StorageFreedNow DEF FreeStorage
<1>10. CASE StorageFreed
  BY <1>10, StepStorageFreed DEF StorageFreed, ghosts
<1>11. CASE EndRequest
  BY <1>11, StepEndRequest DEF EndRequest, ghosts
<1>12. QED
  BY <1>1, <1>2, <1>3, <1>4, <1>5, <1>6, <1>7, <1>8, <1>9, <1>10, <1>11 DEF Shutdown

\* Every step preserves the invariant.
LEMMA Inductive == IInv /\ [Next]_allVars => IInv'
<1> SUFFICES ASSUME IInv, [Next]_allVars PROVE IInv'
  OBVIOUS
<1>1. CASE UNCHANGED allVars
  BY <1>1, Stutter
<1>2. CASE Next /\ stale
  BY <1>2, OnlyStopped, Stutter
<1>3. CASE Next /\ ~ stale
  <2>1. Sound
    BY <1>3 DEF IInv
  <2>2. CASE Script
    <3>1. Sound' /\ stale' = stale
      BY <1>3, <2>1, <2>2, ScriptInductive
    <3>2. QED
      BY <3>1, <1>3 DEF IInv
  <2>3. CASE DelRef
    <3>1. (Sound' /\ stale' = stale) \/ (stale' = TRUE /\ Safe')
      BY <1>3, <2>1, <2>3, DelRefInductive
    <3>2. CASE Sound' /\ stale' = stale
      BY <3>2, <1>3 DEF IInv
    <3>3. CASE stale' = TRUE /\ Safe'
      BY <3>3 DEF IInv
    <3>4. QED
      BY <3>1, <3>2, <3>3
  <2>4. CASE Shutdown
    <3>1. Sound' /\ stale' = stale
      BY <1>3, <2>1, <2>4, ShutdownInductive
    <3>2. QED
      BY <3>1, <1>3 DEF IInv
  <2>5. CASE Stopped
    BY <2>5, Stutter DEF Stopped
  <2>6. QED
    BY <1>3, <2>2, <2>3, <2>4, <2>5 DEF Next
<1>4. QED
  BY <1>1, <1>2, <1>3

\* The invariant holds whatever the script does with its objects, in its destructors
\* and after a bailout out of any of them: until a bucket is written through a pointer
\* into memory that has moved, and what the run checks holds then still.
THEOREM Invariance == Spec => []IInv
<1>1. Init => IInv
  BY Initially
<1>2. IInv /\ [Next]_allVars => IInv'
  BY Inductive
<1>3. QED
  BY <1>1, <1>2, PTL DEF Spec

LEMMA AlwaysSafe == IInv => Safe
BY Implied DEF IInv
-----------------------------------------------------------------------------
\* The types of the variables; no refcount becomes negative.
THEOREM TypeCorrect == Spec => []TypeOK
<1>1. IInv => TypeOK
  BY AlwaysSafe DEF Safe
<1>2. QED
  BY <1>1, Invariance, PTL

\* However deeply destructors nest in del_ref, free_storage and the shutdown loops,
\* and whatever a bailout skips, a bucket's refcount is the number of zvals that
\* variables, properties, C frames and abandoned frames have of its object.
THEOREM ExactCounts == Spec => []CountsExact
<1>1. IInv => CountsExact
  BY AlwaysSafe DEF Safe
<1>2. QED
  BY <1>1, Invariance, PTL

\* Until free_object_storage, a zval's handle leads to its own object, whose storage
\* is there or is being freed by the frame that has the zval.
THEOREM NothingDangles == Spec => []NoDangling
<1>1. IInv => NoDangling
  BY AlwaysSafe DEF Safe
<1>2. QED
  BY <1>1, Invariance, PTL

\* The free list links every handle that is not in use, once, and no other.
THEOREM FreeListHolds == Spec => []FreeListSound
<1>1. IInv => FreeListSound
  BY AlwaysSafe DEF Safe
<1>2. QED
  BY <1>1, Invariance, PTL

\* No entry of the GC root buffer outlives the object it was made for.
THEOREM RootsHold == Spec => []NoDanglingRoot
<1>1. IInv => NoDanglingRoot
  BY AlwaysSafe DEF Safe
<1>2. QED
  BY <1>1, Invariance, PTL
-----------------------------------------------------------------------------
\* The bucket of an object whose destructor is about to be called.
LEMMA NotYet ==
    ASSUME Sound, NEW h \in Handles, h < top, store[h].valid, ~ store[h].called
    PROVE  store[h].obj \in Objs /\ destructed[store[h].obj] = 0 /\ freed[store[h].obj] = 0
<1>1. PICK o \in Created : o = store[h].obj /\ handle[o] = h
  BY DEF Sound, BucketInv
<1>2. o \in Objs /\ Keeps(o)
  BY <1>1 DEF Created, Keeps
<1>3. destructed[o] = 0 /\ (freed[o] # 0 => Freeing(o))
  BY <1>1, <1>2 DEF Sound, ValidInv
<1>4. ~ Freeing(o)
  BY <1>1, <1>2 DEF Sound, FreeingInv
<1>5. QED
  BY <1>1, <1>2, <1>3, <1>4

Once == \A o \in Objs : /\ destructed'[o] # destructed[o] => destructed[o] = 0 /\ freed[o] = 0
                        /\ freed'[o] # freed[o] => freed[o] = 0

\* A step that starts one destructor.
LEMMA DestructOnce ==
    ASSUME Sound, NEW h \in Handles, h < top, store[h].valid, ~ store[h].called,
           destructed' = [destructed EXCEPT ![store[h].obj] = @ + 1], freed' = freed
    PROVE  Once
<1>1. PICK o \in Objs : o = store[h].obj /\ destructed[o] = 0 /\ freed[o] = 0
  BY NotYet
<1>2. destructed \in [Objs -> Nat]
  BY DEF Sound, Types
<1>3. \A p \in Objs : p # o => destructed'[p] = destructed[p]
  BY <1>1, <1>2
<1>4. QED
  BY <1>1, <1>3 DEF Once

\* A step that frees the storage of one object.
LEMMA FreeOnce ==
    ASSUME Sound, NEW o \in Objs, freed[o] = 0, freed' = [freed EXCEPT ![o] = @ + 1],
           destructed' = destructed
    PROVE  Once
<1>1. freed \in [Objs -> Nat]
  BY DEF Sound, Types
<1>2. \A p \in Objs : p # o => freed'[p] = freed[p]
  BY <1>1
<1>3. QED
  BY <1>2 DEF Once

\* No step destructs or frees what was destructed or freed before.
LEMMA OnceStep == IInv /\ [Next]_allVars => Once
<1> SUFFICES ASSUME IInv, [Next]_allVars PROVE Once
  OBVIOUS
<1>1. CASE UNCHANGED <<destructed, freed>>
  BY <1>1 DEF Once
<1>2. CASE UNCHANGED allVars
  BY <1>2 DEF allVars, Once
<1>3. CASE Next /\ stale
  <2>1. UNCHANGED allVars
    BY <1>3, OnlyStopped
  <2>2. QED
    BY <2>1, <1>2
<1>4. CASE Next /\ ~ stale
  <2>0. Sound
    BY <1>4 DEF IInv
  <2>1. CASE DelRefDestruct
    <3>1. At("del_ref") /\ stack[1].at = "del_ref"
      BY <2>1 DEF DelRefDestruct, At
    <3>2. PICK h : h = handle[This]
      OBVIOUS
    <3>3. h \in Handles /\ h < top
      <4>1. This \in Objs
        <5>1. Shape(stack)
          BY <2>0 DEF Sound
        <5>2. stack[1].at \in Inner
          BY <3>1 DEF Inner
        <5>3. QED
          BY <5>1, <5>2, Popped DEF This
      <4>2. Refs(This) > 0
        BY <2>0, <3>1, <4>1, Live DEF This
      <4>3. QED
        BY <2>0, <3>2, <4>1, <4>2, Referred
    <3>4. /\ store[h].valid /\ ~ store[h].called
          /\ destructed' = [destructed EXCEPT ![store[h].obj] = @ + 1]
          /\ freed' = freed
      BY <2>1, <3>2 DEF DelRefDestruct, b
    <3>5. QED
      BY <2>0, <3>3, <3>4, DestructOnce
  <2>2. CASE CallDestructor
    <3>1. PICK h : h = stack[1].i
      OBVIOUS
    <3>2. h < top /\ freed' = freed
      BY <2>2, <3>1 DEF CallDestructor
    <3>3. CASE store[h].valid /\ ~ store[h].called
      <4>1. h \in Handles
        <5>1. h \in 1..(MaxObjs + 1)
          BY <2>0, <2>2, <3>1, CalledTop DEF CallDestructor
        <5>2. top \in 1..(MaxObjs + 1)
          BY <2>0 DEF Sound, Types
        <5>3. QED
          BY <3>2, <5>1, <5>2, Constants
      <4>2. destructed' = [destructed EXCEPT ![store[h].obj] = @ + 1]
        BY <2>2, <3>1, <3>3 DEF CallDestructor
      <4>3. QED
        BY <2>0, <3>2, <3>3, <4>1, <4>2, DestructOnce
    <3>4. CASE ~ (store[h].valid /\ ~ store[h].called)
      BY <2>2, <3>1, <3>2, <3>4, <1>1 DEF CallDestructor
    <3>5. QED
      BY <3>3, <3>4
  <2>3. CASE DelRefFree
    <3>1. This \in Objs /\ freed[This] = 0 /\ freed' = [freed EXCEPT ![This] = @ + 1]
      BY <2>0, <2>3, StepDelRefFree
    <3>2. destructed' = destructed
      BY <2>3 DEF DelRefFree
    <3>3. QED
      BY <2>0, <3>1, <3>2, FreeOnce
  <2>4. CASE FreeStorage
    <3>1. destructed' = destructed
      BY <2>4 DEF FreeStorage
    <3>2. CASE store[stack[1].i].valid
      <4>1. PICK o \in Objs : freed[o] = 0 /\ freed' = [freed EXCEPT ![o] = @ + 1]
        BY <2>0, <2>4, <3>2, StorageFreedNow
      <4>2. QED
        BY <2>0, <3>1, <4>1, FreeOnce
    <3>3. CASE ~ store[stack[1].i].valid
      BY <2>0, <2>4, <3>1, <3>3, <1>1, StorageSkipped
    <3>4. QED
      BY <3>2, <3>3
  <2>5. CASE Script
    BY <2>5, <1>1 DEF Script, New, EndDtor, Exit, Fatal, Copy, Unset, SetProp, ReadProp, ghosts
  <2>6. CASE DelRefKeep \/ DelRefResurrected \/ FreeProperty \/ DelRefUnlink
    BY <2>6, <1>1 DEF DelRefKeep, DelRefResurrected, FreeProperty, DelRefUnlink, ghosts
  <2>7. CASE \/ EndScript \/ RemoveSymbol \/ SymbolsDone \/ DestructorCalled \/ AllCalled
             \/ DestroySymbol \/ TablesDone \/ StorageFreed \/ EndRequest
    BY <2>7, <1>1 DEF EndScript, RemoveSymbol, SymbolsDone, DestructorCalled, AllCalled,
       DestroySymbol, TablesDone, StorageFreed, EndRequest, ghosts
  <2>8. CASE Stopped
    BY <2>8, <1>2 DEF Stopped
  <2>9. QED
    BY <1>4, <2>1, <2>2, <2>3, <2>4, <2>5, <2>6, <2>7, <2>8 DEF Next, DelRef, Shutdown
<1>5. QED
  BY <1>2, <1>3, <1>4

\* An object is destructed at most once and freed at most once, and not destructed
\* after it was freed, whichever of del_ref and the two loops of the shutdown gets to
\* it, and whatever destructors and bailouts do in between.
THEOREM DestructedAndFreedOnce == Spec => OnceOnly
<1>1. IInv /\ [Next]_allVars => [Once]_allVars
  BY OnceStep
<1>2. QED
  BY <1>1, Invariance, PTL DEF Spec, OnceOnly, Once
-----------------------------------------------------------------------------
\* Completeness.  As long as nothing has bailed out, destructor_called is set by the call
\* of the destructor only; what the two loops of the shutdown have passed is called, and
\* then freed.  An object made before the shutdown is above all later ones in neither loop.
Ground(s) == s[Len(s)]
LoopCalled(f, h) == \/ f.at \in FreeingBases \cup {"tables"}
                    \/ f.at = "called" /\ h < f.i
                    \/ f.at = "called" /\ h = f.i /\ f.o # 0
LoopFreed(f, h) == \/ f.at = "end"
                   \/ f.at = "free" /\ h < f.i
                   \/ f.at = "free_one" /\ h <= f.i

Looped(o, f) == Keeps(o) /\ store[handle[o]].valid =>
                    /\ LoopCalled(f, handle[o]) => store[handle[o]].called
                    /\ ~ LoopFreed(f, handle[o])
Tended(o) == /\ freed[o] # 0 => destructed[o] = 1
             /\ Keeps(o) /\ store[handle[o]].called => destructed[o] = 1
             /\ Looped(o, Ground(stack))
EarlyInv == /\ early \subseteq Created
            /\ \A o \in Objs : freed[o] \in {0, 1}
            /\ ~ bailed => \A o \in early : Tended(o)

\* Calls and returns leave the bottom of the stack alone.
LEMMA GroundPush ==
    ASSUME NEW f \in Frames, NEW s \in Seq(Frames), s # <<>>
    PROVE  Ground(<<f>> \o s) = Ground(s)
<1>1. PICK t : t = <<f>> \o s
  OBVIOUS
<1>2. Len(s) \in Nat /\ Len(t) = Len(s) + 1 /\ \A k \in 1..Len(s) : t[k + 1] = s[k]
  BY <1>1, StackPush
<1>3. Len(s) # 0
  BY EmptyStack
<1>4. Len(s) \in 1..Len(s)
  BY <1>2, <1>3
<1>5. t[Len(t)] = s[Len(s)]
  BY <1>2, <1>4
<1>6. QED
  BY <1>1, <1>5 DEF Ground

LEMMA GroundPop ==
    ASSUME NEW s, Shape(s), s[1].at \in Inner
    PROVE  Ground(Tail(s)) = Ground(s) /\ Tail(s) \in Seq(Frames) /\ Tail(s) # <<>>
<1>1. /\ s \in Seq(Frames) /\ s # <<>> /\ s[1] \in Frames /\ Shape(Tail(s))
  BY ShapeTop
<1>2. Tail(s) \in Seq(Frames) /\ Tail(s) # <<>>
  BY <1>1 DEF Shape
<1>3. s = <<s[1]>> \o Tail(s)
  BY <1>1, StackTop
<1>4. PICK f \in Frames : f = s[1]
  BY <1>1
<1>5. PICK t \in Seq(Frames) : t = Tail(s)
  BY <1>2
<1>6. Ground(<<f>> \o t) = Ground(t)
  BY <1>2, <1>5, GroundPush
<1>7. QED
  BY <1>2, <1>3, <1>4, <1>5, <1>6

LEMMA GroundOnly ==
    ASSUME NEW s, Shape(s), s[1].at \in Bottom, NEW f \in Frames
    PROVE  Ground(<<f>> \o Tail(s)) = f /\ Ground(s) = s[1] /\ Ground(<<f>>) = f
<1>1. Len(s) = 1 /\ Tail(s) = <<>>
  BY ShapeTop
<1>2. PICK t \in Seq(Frames) : t = <<f>> /\ Len(t) = 1 /\ t[1] = f
  <2>1. <<f>> \in Seq(Frames) /\ Len(<<f>>) = 1 /\ <<f>>[1] = f
    OBVIOUS
  <2>2. QED
    BY <2>1, Zenon
<1>3. t \o <<>> = t
  BY <1>2, ConcatEmptySeq
<1>4. QED
  BY <1>1, <1>2, <1>3 DEF Ground

\* A bailout that is none of the shutdown and not fatal is caught in the main script.
LEMMA GroundBail ==
    ASSUME NEW s, Shape(s), Base(s) # "end", NEW st, NEW fatal \in BOOLEAN,
           Bailout(s, st, fatal), ~ bailed'
    PROVE  /\ store' = st /\ ~ bailed /\ ~ fatal
           /\ Ground(stack').at = "symbols"
<1>0. s \in Seq(Frames) /\ s # <<>>
  BY DEF Shape
<1>1. Len(s) \in Nat /\ Len(s) >= 1 /\ DOMAIN s = 1..Len(s)
  BY <1>0, StackTop
<1>2. PICK k \in 1..Len(s) : k = Catcher(s) /\ s[k].at \in Catches
  BY Catching
<1>3. /\ bailed' = (bailed \/ fatal \/ s[k].at # "main")
      /\ stack' = <<Caught(s[k])>> \o SubSeq(s, k + 1, Len(s))
      /\ store' = IF s[k].at \in {"symbols", "called"} THEN MarkDestructed(st) ELSE st
  BY <1>2 DEF Bailout
<1>4. s[k].at = "main" /\ ~ bailed /\ ~ fatal
  BY <1>3
<1>5. k = Len(s)
  <2>1. s[k].at \notin Inner
    BY <1>4 DEF Inner
  <2>2. ~ (k \in 1..(Len(s) - 1))
    BY <2>1 DEF Shape
  <2>3. QED
    BY <1>1, <1>2, <2>2
<1>6. PICK r : r = SubSeq(s, k + 1, Len(s))
  OBVIOUS
<1>7. r = <<>>
  <2>1. r \in Seq(Frames) /\ Len(r) = Len(s) - k
    BY <1>0, <1>2, <1>6, Below
  <2>2. Len(r) = 0
    BY <1>1, <1>5, <2>1
  <2>3. QED
    BY <2>1, <2>2, EmptyStack
<1>8. PICK f : f = Frame("symbols", 0, 0)
  OBVIOUS
<1>9. Caught(s[k]) = f
  BY <1>4, <1>8 DEF Caught
<1>10. f \in Frames /\ f.at = "symbols"
  <2>1. 0 \in 0..(MaxObjs + 1)
    BY Constants
  <2>2. QED
    BY <1>8, <2>1 DEF Frame, Frames, Labels
<1>11. PICK t \in Seq(Frames) : t = <<f>> /\ Len(t) = 1 /\ t[1] = f
  <2>1. <<f>> \in Seq(Frames) /\ Len(<<f>>) = 1 /\ <<f>>[1] = f
    BY <1>10
  <2>2. QED
    BY <2>1, Zenon
<1>12. t \o r = t
  BY <1>7, <1>11, ConcatEmptySeq
<1>13. stack' = t
  BY <1>3, <1>6, <1>9, <1>11, <1>12
<1>14. QED
  BY <1>3, <1>4, <1>10, <1>11, <1>13 DEF Ground

\* A step that frees and destructs nothing: it has to show that the loops have left out
\* nothing.
LEMMA Tending ==
    ASSUME Types, EarlyInv, bailed' \in BOOLEAN, bailed => bailed',
           UNCHANGED <<early, handle, destructed, freed>>,
           ~ bailed' =>
               \A h \in Handles : /\ store'[h].obj = store[h].obj
                                  /\ store'[h].called = store[h].called
                                  /\ store'[h].valid => store[h].valid,
           ~ bailed' => \A o \in early : Looped(o, Ground(stack'))
    PROVE  EarlyInv'
<1>1. early \subseteq Created /\ \A o \in Objs : freed[o] \in {0, 1}
  BY DEF EarlyInv
<1>2. Created' = Created
  BY DEF Created
<1>3. ASSUME NEW o \in early, ~ bailed'
      PROVE  Tended(o)'
  <2>1. PICK h \in Handles : h = handle[o]
    BY <1>1, <1>3 DEF Created, Types
  <2>2. Tended(o)
    BY <1>3 DEF EarlyInv
  <2>3. /\ store'[h].obj = store[h].obj /\ store'[h].called = store[h].called
        /\ store'[h].valid => store[h].valid
    BY <1>3
  <2>4. Keeps(o)' <=> Keeps(o)
    BY <2>1, <2>3 DEF Keeps
  <2>5. Looped(o, Ground(stack'))
    BY <1>3
  <2>6. Looped(o, Ground(stack))'
    BY <2>1, <2>3, <2>4, <2>5 DEF Looped
  <2>7. QED
    BY <2>1, <2>2, <2>3, <2>4, <2>6 DEF Tended
<1>4. QED
  BY <1>1, <1>2, <1>3 DEF EarlyInv

\* When nothing of the store changes and the loops are where they were.
Ahead(f, g) == \A h \in Handles : /\ LoopCalled(g, h) => LoopCalled(f, h)
                                  /\ LoopFreed(g, h) => LoopFreed(f, h)
LEMMA TendingStill ==
    ASSUME Types, EarlyInv, UNCHANGED <<early, handle, destructed, freed, bailed>>,
           \A h \in Handles : /\ store'[h].obj = store[h].obj
                              /\ store'[h].called = store[h].called
                              /\ store'[h].valid => store[h].valid,
           Ahead(Ground(stack), Ground(stack'))
    PROVE  EarlyInv'
<1>1. ASSUME NEW o \in early, ~ bailed'
      PROVE  Looped(o, Ground(stack'))
  <2>1. Looped(o, Ground(stack)) /\ handle[o] \in Handles
    BY <1>1 DEF EarlyInv, Tended, Created, Types
  <2>2. QED
    BY <2>1 DEF Looped, Ahead
<1>2. bailed' \in BOOLEAN
  BY DEF Types
<1>3. QED
  BY <1>1, <1>2, Tending

LEMMA AheadRole == \A f, g : SameRole(f, g) => Ahead(f, g)
BY DEF SameRole, Ahead, LoopCalled, LoopFreed

\* A step of a store whose buckets only get other refcounts.
OnlyCounts(st) == \A h \in Handles : /\ st[h].obj = store[h].obj
                                     /\ st[h].called = store[h].called
                                     /\ st[h].valid = store[h].valid
LEMMA OnlyCountsOne ==
    ASSUME store \in [Handles -> Bucket], NEW h, NEW n
    PROVE  OnlyCounts([store EXCEPT ![h].refcount = n]) /\ OnlyCounts(store)
<1>1. PICK st : st = [store EXCEPT ![h].refcount = n]
  OBVIOUS
<1>2. ASSUME NEW g \in Handles
      PROVE  st[g].obj = store[g].obj /\ st[g].called = store[g].called /\ st[g].valid = store[g].valid
  <2>1. PICK u \in Bucket : u = store[g]
    BY <1>2
  <2>2. PICK v : v = [u EXCEPT !.refcount = n]
    OBVIOUS
  <2>3. v.obj = u.obj /\ v.called = u.called /\ v.valid = u.valid
    BY <2>1, <2>2 DEF Bucket
  <2>4. st[g] = IF g = h THEN v ELSE u
    BY <1>1, <1>2, <2>1, <2>2
  <2>5. QED
    BY <2>1, <2>3, <2>4
<1>3. QED
  BY <1>1, <1>2 DEF OnlyCounts

\* A step that leaves the bottom of the stack alone, and of the store all but refcounts.
LEMMA EarlyQuiet ==
    ASSUME Sound, EarlyInv, UNCHANGED <<early, handle, ghosts>>, OnlyCounts(store'),
           Ground(stack') = Ground(stack)
    PROVE  EarlyInv'
<1>1. Ahead(Ground(stack), Ground(stack'))
  BY DEF Ahead
<1>2. Types /\ UNCHANGED <<early, handle, destructed, freed, bailed>>
  BY DEF Sound, ghosts
<1>3. QED
  BY <1>1, <1>2, TendingStill DEF OnlyCounts

LEMMA EarlyReferring ==
    ASSUME Sound, EarlyInv,
           \/ \E o \in Objs : Copy(o)
           \/ \E o, p \in Objs : SetProp(o, p) \/ ReadProp(o, p)
    PROVE  EarlyInv'
<1>1. store \in [Handles -> Bucket]
  BY DEF Sound, Types
<1>2. /\ UNCHANGED <<early, handle, ghosts, stack>>
      /\ store' = store \/ \E o \in Objs : AddRef(o)
  BY DEF Copy, SetProp, ReadProp
<1>3. CASE store' = store
  BY <1>2, <1>3, EarlyQuiet DEF Ground, OnlyCounts
<1>4. CASE \E o \in Objs : AddRef(o)
  <2>1. PICK o \in Objs : store' = [store EXCEPT ![handle[o]].refcount = @ + 1]
    BY <1>4 DEF AddRef
  <2>2. PICK h, n : h = handle[o] /\ n = store[h].refcount + 1
    OBVIOUS
  <2>3. store' = [store EXCEPT ![h].refcount = n]
    BY <2>1, <2>2
  <2>4. OnlyCounts(store')
    BY <1>1, <2>3, OnlyCountsOne
  <2>5. QED
    BY <1>2, <2>4, EarlyQuiet DEF Ground
<1>5. QED
  BY <1>2, <1>3, <1>4

\* The frame of a call of del_ref.
LEMMA DelRefFrame ==
    ASSUME NEW o \in Objs
    PROVE  LET f == Frame("del_ref", o, 0) IN f \in Frames /\ f.at = "del_ref" /\ f.o = o
<1>1. 0 \in 0..(MaxObjs + 1)
  BY Constants
<1>2. QED
  BY <1>1 DEF Frame, Frames, Labels

LEMMA EarlyUnsetting ==
    ASSUME Sound, EarlyInv, (\E o \in Objs : Unset(o)) \/ RemoveSymbol \/ DestroySymbol
    PROVE  EarlyInv'
<1>1. /\ UNCHANGED <<early, handle, ghosts, store>>
      /\ \E o \in Objs : Push(Frame("del_ref", o, 0))
  BY DEF Unset, RemoveSymbol, DestroySymbol
<1>2. PICK f \in Frames : stack' = <<f>> \o stack
  BY <1>1, DelRefFrame DEF Push
<1>3. stack \in Seq(Frames) /\ stack # <<>>
  BY DEF Sound, Shape
<1>4. Ground(stack') = Ground(stack)
  BY <1>2, <1>3, GroundPush
<1>5. OnlyCounts(store')
  BY <1>1 DEF OnlyCounts
<1>6. QED
  BY <1>1, <1>4, <1>5, EarlyQuiet

LEMMA EarlyEndDtor ==
    ASSUME Sound, EarlyInv, EndDtor
    PROVE  EarlyInv'
<1>1. Shape(stack) /\ stack[1].at \in Inner
  BY DEF Sound, EndDtor, At, Inner
<1>2. This \in Objs
  BY <1>1, Popped DEF This
<1>3. PICK f \in Frames : stack' = <<f>> \o Tail(stack)
  BY <1>2, DelRefFrame DEF EndDtor, Replace
<1>4. Ground(stack') = Ground(stack)
  BY <1>1, <1>3, GroundPop, GroundPush
<1>5. UNCHANGED <<early, handle, ghosts, store>>
  BY DEF EndDtor, script
<1>6. OnlyCounts(store')
  BY <1>5 DEF OnlyCounts
<1>7. QED
  BY <1>4, <1>5, <1>6, EarlyQuiet

LEMMA EarlyFreeProperty ==
    ASSUME Sound, EarlyInv, FreeProperty
    PROVE  EarlyInv'
<1>1. Shape(stack) /\ stack[1] \in Frames /\ stack \in Seq(Frames) /\ stack # <<>>
      /\ stack[1].at \in {"freeing", "free_one"} /\ Types
  BY ShapeTop DEF Sound, FreeProperty, At
<1>2. PICK p \in stack[1].todo :
          stack' = <<Frame("del_ref", p, 0), [stack[1] EXCEPT !.todo = @ \ {p}]>> \o Tail(stack)
  BY DEF FreeProperty
<1>3. p \in Objs
  BY <1>1, <1>2 DEF Frames
<1>4. PICK f \in Frames : f = Frame("del_ref", p, 0)
  BY <1>3, DelRefFrame
<1>5. PICK g \in Frames : g = [stack[1] EXCEPT !.todo = @ \ {p}] /\ SameRole(stack[1], g)
  <2>1. PICK u \in Frames : u = stack[1]
    BY <1>1
  <2>2. PICK v : v = [u EXCEPT !.todo = @ \ {p}]
    OBVIOUS
  <2>3. v \in Frames /\ v.at = u.at /\ v.o = u.o /\ v.i = u.i
    BY <2>1, <2>2 DEF Frames
  <2>4. QED
    BY <2>1, <2>2, <2>3 DEF SameRole
<1>6. PICK r \in Seq(Frames) : r = Tail(stack)
  BY <1>1, StackTop
<1>7. PICK t \in Seq(Frames) : t = <<g>> \o r /\ t # <<>>
  BY StackPush
<1>8. stack' = <<f>> \o t
  <2>1. <<f, g>> = <<f>> \o <<g>>
    OBVIOUS
  <2>2. <<f>> \in Seq(Frames) /\ <<g>> \in Seq(Frames)
    OBVIOUS
  <2>3. (<<f>> \o <<g>>) \o r = <<f>> \o (<<g>> \o r)
    BY <2>2, ConcatAssociative
  <2>4. stack' = <<f, g>> \o r
    BY <1>2, <1>4, <1>5, <1>6
  <2>5. QED
    BY <1>7, <2>1, <2>3, <2>4
<1>9. Ground(stack') = Ground(t)
  BY <1>7, <1>8, GroundPush
<1>10. Ahead(Ground(stack), Ground(t))
  <2>1. CASE stack[1].at = "freeing"
    <3>1. stack[1].at \in Inner
      BY <2>1 DEF Inner
    <3>2. Ground(t) = Ground(stack)
      BY <1>1, <1>6, <1>7, <3>1, GroundPop, GroundPush
    <3>3. QED
      BY <3>2 DEF Ahead
  <2>2. CASE stack[1].at = "free_one"
    <3>1. stack[1].at \in Bottom
      BY <2>2 DEF Bottom, Labels, Inner
    <3>2. Ground(t) = g /\ Ground(stack) = stack[1]
      BY <1>1, <1>6, <1>7, <3>1, GroundOnly
    <3>3. QED
      BY <1>5, <3>2, AheadRole
  <2>3. QED
    BY <1>1, <2>1, <2>2
<1>11. UNCHANGED <<early, handle, destructed, freed, bailed, store>>
  BY DEF FreeProperty, script, ghosts
<1>12. QED
  BY <1>1, <1>9, <1>10, <1>11, TendingStill

\* The shutdown goes on: what its loops leave behind with the next frame is what they had
\* passed before, and the bucket at the cursor.
Passes(f, g) == \A h \in Handles :
    /\ h < top
    /\ store[h].valid
    /\ LoopCalled(f, h) => store[h].called
    /\ ~ LoopFreed(f, h)
    => /\ LoopCalled(g, h) => store[h].called
       /\ ~ LoopFreed(g, h)

LEMMA EarlyJump ==
    ASSUME Sound, EarlyInv, UNCHANGED <<early, handle, ghosts>>, OnlyCounts(store'),
           stack[1].at \in Bottom, NEW f \in Frames, Replace(f), Passes(stack[1], f)
    PROVE  EarlyInv'
<1>1. /\ Types /\ Shape(stack) /\ CountInv /\ bailed' \in BOOLEAN
      /\ UNCHANGED <<early, handle, destructed, freed, bailed>>
  BY DEF Sound, Types, ghosts
<1>2. Ground(stack') = f /\ Ground(stack) = stack[1]
  BY <1>1, GroundOnly DEF Replace
<1>3. ASSUME NEW o \in early, ~ bailed'
      PROVE  Looped(o, f)
  <2>1. Looped(o, stack[1]) /\ o \in Created
    BY <1>1, <1>2, <1>3 DEF EarlyInv, Tended
  <2>2. PICK h \in Handles : h = handle[o] /\ h < top
    BY <1>1, <2>1 DEF Created, Types, CountInv
  <2>3. QED
    BY <2>1, <2>2 DEF Looped, Passes
<1>4. QED
  BY <1>1, <1>2, <1>3, Tending DEF OnlyCounts

\* The frames of the bottom.
LEMMA BottomFrame ==
    ASSUME NEW l \in Bottom, NEW i \in 0..(MaxObjs + 1)
    PROVE  LET f == Frame(l, 0, i) IN f \in Frames /\ f.at = l /\ f.o = 0 /\ f.i = i
BY DEF Frame, Frames, Bottom

\* What the cursor of a loop can be.
LEMMA Cursor ==
    ASSUME Sound, stack[1].at \in Bottom
    PROVE  /\ stack[1] \in Frames /\ stack[1].i \in 0..(MaxObjs + 1) /\ stack[1].i \in Nat
           /\ top \in Nat /\ MaxObjs \in Nat /\ Handles \subseteq Nat
           /\ stack[1].i < top => stack[1].i + 1 \in 0..(MaxObjs + 1)
           /\ \A h \in Handles : h >= 1
<1>1. stack[1] \in Frames /\ top \in 1..(MaxObjs + 1)
  BY ShapeTop DEF Sound, Types
<1>2. stack[1].i \in 0..(MaxObjs + 1)
  BY <1>1 DEF Frames
<1>3. QED
  BY <1>1, <1>2, Constants

LEMMA EarlyTurning ==
    ASSUME Sound, EarlyInv, EndScript \/ SymbolsDone \/ AllCalled \/ TablesDone \/ EndRequest
    PROVE  EarlyInv'
<1>1. UNCHANGED <<early, handle, ghosts, store>> /\ OnlyCounts(store')
  BY DEF EndScript, SymbolsDone, AllCalled, TablesDone, EndRequest, script, OnlyCounts
<1>2. \/ stack[1].at = "main" /\ Replace(Frame("symbols", 0, 0))
      \/ stack[1].at = "symbols" /\ Replace(Frame("called", 0, 1))
      \/ stack[1].at = "called" /\ stack[1].i >= top /\ Replace(Frame("tables", 0, 0))
      \/ stack[1].at = "tables" /\ Replace(Frame("free", 0, 1))
      \/ stack[1].at = "free" /\ stack[1].i >= top /\ Replace(Frame("end", 0, 0))
  BY DEF EndScript, SymbolsDone, AllCalled, TablesDone, EndRequest, At
<1>3. stack[1].at \in Bottom /\ {"symbols", "called", "tables", "free", "end"} \subseteq Bottom
  BY <1>2 DEF Bottom, Labels, Inner
<1>4. /\ stack[1].i \in Nat /\ top \in Nat /\ Handles \subseteq Nat /\ \A h \in Handles : h >= 1
      /\ 0 \in 0..(MaxObjs + 1) /\ 1 \in 0..(MaxObjs + 1)
  BY <1>3, Cursor
<1>5. CASE stack[1].at = "main" /\ Replace(Frame("symbols", 0, 0))
  <2>1. PICK f \in Frames : f = Frame("symbols", 0, 0) /\ f.at = "symbols"
    BY <1>3, <1>4, BottomFrame
  <2>2. Passes(stack[1], f)
    BY <1>5, <2>1 DEF Passes, LoopCalled, LoopFreed, FreeingBases
  <2>3. QED
    BY <1>1, <1>3, <1>5, <2>1, <2>2, EarlyJump
<1>6. CASE stack[1].at = "symbols" /\ Replace(Frame("called", 0, 1))
  <2>1. PICK f \in Frames : f = Frame("called", 0, 1) /\ f.at = "called" /\ f.o = 0 /\ f.i = 1
    BY <1>3, <1>4, BottomFrame
  <2>2. Passes(stack[1], f)
    BY <1>4, <1>6, <2>1 DEF Passes, LoopCalled, LoopFreed, FreeingBases
  <2>3. QED
    BY <1>1, <1>3, <1>6, <2>1, <2>2, EarlyJump
<1>7. CASE stack[1].at = "called" /\ stack[1].i >= top /\ Replace(Frame("tables", 0, 0))
  <2>1. PICK f \in Frames : f = Frame("tables", 0, 0) /\ f.at = "tables"
    BY <1>3, <1>4, BottomFrame
  <2>2. Passes(stack[1], f)
    BY <1>4, <1>7, <2>1 DEF Passes, LoopCalled, LoopFreed, FreeingBases
  <2>3. QED
    BY <1>1, <1>3, <1>7, <2>1, <2>2, EarlyJump
<1>8. CASE stack[1].at = "tables" /\ Replace(Frame("free", 0, 1))
  <2>1. PICK f \in Frames : f = Frame("free", 0, 1) /\ f.at = "free" /\ f.i = 1
    BY <1>3, <1>4, BottomFrame
  <2>2. Passes(stack[1], f)
    BY <1>4, <1>8, <2>1 DEF Passes, LoopCalled, LoopFreed, FreeingBases
  <2>3. QED
    BY <1>1, <1>3, <1>8, <2>1, <2>2, EarlyJump
<1>9. CASE stack[1].at = "free" /\ stack[1].i >= top /\ Replace(Frame("end", 0, 0))
  <2>1. PICK f \in Frames : f = Frame("end", 0, 0) /\ f.at = "end"
    BY <1>3, <1>4, BottomFrame
  <2>2. Passes(stack[1], f)
    BY <1>4, <1>9, <2>1 DEF Passes, LoopCalled, LoopFreed, FreeingBases
  <2>3. QED
    BY <1>1, <1>3, <1>9, <2>1, <2>2, EarlyJump
<1>10. QED
  BY <1>2, <1>5, <1>6, <1>7, <1>8, <1>9

\* The loops go on to the next bucket.
LEMMA EarlyDestructorCalled ==
    ASSUME Sound, EarlyInv, DestructorCalled
    PROVE  EarlyInv'
<1>1. /\ stack[1].at = "called" /\ stack[1].o # 0 /\ UNCHANGED <<early, handle, ghosts>>
      /\ store \in [Handles -> Bucket] /\ Types /\ Shape(stack) /\ Relies(stack[1])
  BY CalledTop DEF DestructorCalled, At, This, script, Sound, Types
<1>2. PICK i : i = stack[1].i
  OBVIOUS
<1>3. store' = [store EXCEPT ![i].refcount = @ - 1] /\ Replace(Frame("called", 0, i + 1))
  BY <1>2 DEF DestructorCalled
<1>4. OnlyCounts(store')
  <2>1. PICK n : n = store[i].refcount - 1
    OBVIOUS
  <2>2. store' = [store EXCEPT ![i].refcount = n]
    BY <1>3, <2>1
  <2>3. QED
    BY <1>1, <2>2, OnlyCountsOne
<1>5. stack[1].at \in Bottom /\ "called" \in Bottom
  BY <1>1 DEF Bottom, Labels, Inner
<1>6. i \in Nat /\ Handles \subseteq Nat /\ i + 1 \in 0..(MaxObjs + 1)
  <2>1. PICK o \in Objs : o = stack[1].o
    BY <1>1, <1>5, Cursor DEF Frames
  <2>2. Refs(o) > 0
    BY <1>1, <2>1, Live
  <2>3. i = handle[o] /\ handle[o] < top
    BY <1>1, <1>2, <2>1, <2>2, Referred DEF Relies
  <2>4. QED
    BY <1>2, <1>5, <2>3, Cursor
<1>7. PICK f \in Frames : f = Frame("called", 0, i + 1) /\ f.at = "called" /\ f.o = 0 /\ f.i = i + 1
  BY <1>5, <1>6, BottomFrame
<1>8. Passes(stack[1], f)
  BY <1>1, <1>2, <1>6, <1>7 DEF Passes, LoopCalled, LoopFreed, FreeingBases
<1>9. QED
  BY <1>1, <1>3, <1>4, <1>5, <1>7, <1>8, EarlyJump

LEMMA EarlySkipping ==
    ASSUME Sound, EarlyInv,
           \/ CallDestructor /\ ~ (store[stack[1].i].valid /\ ~ store[stack[1].i].called)
           \/ FreeStorage /\ ~ store[stack[1].i].valid
           \/ StorageFreed
    PROVE  EarlyInv'
<1>0. PICK i : i = stack[1].i
  OBVIOUS
<1>1. \/ /\ stack[1].at = "called" /\ stack[1].o = 0 /\ ~ (store[i].valid /\ ~ store[i].called)
         /\ i < top /\ Replace(Frame("called", 0, i + 1))
      \/ /\ stack[1].at = "free" /\ ~ store[i].valid
         /\ i < top /\ Replace(Frame("free", 0, i + 1))
      \/ /\ stack[1].at = "free_one"
         /\ Replace(Frame("free", 0, i + 1))
  BY <1>0 DEF CallDestructor, FreeStorage, StorageFreed, At, This
<1>2. UNCHANGED <<early, handle, ghosts, store>> /\ OnlyCounts(store')
  BY DEF CallDestructor, FreeStorage, StorageFreed, script, ghosts, OnlyCounts
<1>3. stack[1].at \in Bottom /\ {"called", "free"} \subseteq Bottom
  BY <1>1 DEF Bottom, Labels, Inner
<1>4. i \in Nat /\ Handles \subseteq Nat /\ top \in Nat /\ (i < top => i + 1 \in 0..(MaxObjs + 1))
  BY <1>0, <1>3, Cursor
<1>5. stack[1].at = "free_one" => i < top
  <2>1. Shape(stack) /\ CallsInv
    BY DEF Sound
  <2>2. 1 \in DOMAIN stack
    BY <2>1, StackTop DEF Shape
  <2>3. QED
    BY <1>0, <2>1, <2>2 DEF CallsInv, Relies
<1>6. PICK l \in Bottom : l = IF stack[1].at = "called" THEN "called" ELSE "free"
  BY <1>3
<1>7. PICK f \in Frames : f = Frame(l, 0, i + 1) /\ f.at = l /\ f.o = 0 /\ f.i = i + 1
  BY <1>1, <1>4, <1>5, BottomFrame
<1>8. Passes(stack[1], f)
  BY <1>0, <1>1, <1>4, <1>6, <1>7 DEF Passes, LoopCalled, LoopFreed, FreeingBases
<1>9. Replace(f)
  BY <1>1, <1>6, <1>7
<1>10. QED
  BY <1>2, <1>3, <1>7, <1>8, <1>9, EarlyJump

\* Bailouts and returns, with a store whose buckets may have got other refcounts, and may
\* have become invalid.
OnlyLess(st) == \A h \in Handles : /\ st[h].obj = store[h].obj
                                   /\ st[h].called = store[h].called
                                   /\ st[h].valid => store[h].valid
LEMMA EarlyBail ==
    ASSUME Types, EarlyInv, UNCHANGED <<early, handle, destructed, freed>>,
           NEW s, Shape(s), Base(s) # "end", NEW st, NEW fatal \in BOOLEAN,
           Bailout(s, st, fatal), fatal \/ OnlyLess(st)
    PROVE  EarlyInv'
<1>1. bailed' \in BOOLEAN /\ (bailed => bailed')
  BY DEF Bailout, Types
<1>2. CASE bailed'
  BY <1>1, <1>2, Tending
<1>3. CASE ~ bailed'
  <2>1. store' = st /\ ~ fatal /\ Ground(stack').at = "symbols"
    BY <1>3, GroundBail
  <2>2. \A o \in early : Looped(o, Ground(stack'))
    BY <2>1 DEF Looped, LoopCalled, LoopFreed, FreeingBases
  <2>3. \A h \in Handles : /\ store'[h].obj = store[h].obj
                           /\ store'[h].called = store[h].called
                           /\ store'[h].valid => store[h].valid
    BY <2>1 DEF OnlyLess
  <2>4. QED
    BY <1>1, <2>2, <2>3, Tending
<1>4. QED
  BY <1>1, <1>2, <1>3

LEMMA EarlyLeave ==
    ASSUME Sound, EarlyInv, UNCHANGED <<early, handle, destructed, freed>>,
           stack[1].at \in Inner, NEW st \in [Handles -> Bucket], OnlyLess(st),
           NEW buf, Leave(st, buf)
    PROVE  EarlyInv'
<1>1. Types /\ Shape(stack)
  BY DEF Sound
<1>2. PICK st2 : st2 = [st EXCEPT ![handle[This]].refcount = @ - 1]
  OBVIOUS
<1>3. OnlyLess(st2)
  <2>1. ASSUME NEW g \in Handles
        PROVE  st2[g].obj = st[g].obj /\ st2[g].called = st[g].called /\ st2[g].valid = st[g].valid
    <3>1. PICK u \in Bucket : u = st[g]
      BY <2>1
    <3>2. PICK v : v = [u EXCEPT !.refcount = @ - 1]
      OBVIOUS
    <3>3. v.obj = u.obj /\ v.called = u.called /\ v.valid = u.valid
      BY <3>1, <3>2 DEF Bucket
    <3>4. st2[g] = IF g = handle[This] THEN v ELSE u
      BY <1>2, <2>1, <3>1, <3>2
    <3>5. QED
      BY <3>1, <3>3, <3>4
  <2>2. QED
    BY <2>1 DEF OnlyLess
<1>4. PICK r : r = Tail(stack)
  OBVIOUS
<1>5. Shape(r) /\ Base(r) # "end" /\ Ground(r) = Ground(stack)
  BY <1>1, <1>4, Popped, GroundPop
<1>6. CASE stack[1].fail
  <2>1. Bailout(r, st2, FALSE)
    BY <1>2, <1>4, <1>6 DEF Leave
  <2>2. QED
    BY <1>1, <1>3, <1>5, <2>1, EarlyBail
<1>7. CASE ~ stack[1].fail
  <2>1. store' = st2 /\ stack' = r /\ UNCHANGED <<lost, bailed>>
    BY <1>2, <1>4, <1>7 DEF Leave, Pop
  <2>2. Ahead(Ground(stack), Ground(stack'))
    BY <1>5, <2>1 DEF Ahead
  <2>3. QED
    BY <1>1, <1>3, <2>1, <2>2, TendingStill DEF OnlyLess
<1>8. QED
  BY <1>6, <1>7

LEMMA EarlyReturning ==
    ASSUME Sound, EarlyInv, DelRefKeep \/ DelRefResurrected
    PROVE  EarlyInv'
<1>1. /\ stack[1].at \in {"del_ref", "dtor_done"} /\ Leave(store, buffered)
      /\ UNCHANGED <<early, handle, destructed, freed>>
  BY DEF DelRefKeep, DelRefResurrected, At, script
<1>2. stack[1].at \in Inner
  BY <1>1 DEF Inner
<1>3. PICK st \in [Handles -> Bucket] : st = store
  BY DEF Sound, Types
<1>4. OnlyLess(st) /\ Leave(st, buffered)
  BY <1>1, <1>3 DEF OnlyLess
<1>5. QED
  BY <1>1, <1>2, <1>4, EarlyLeave

LEMMA EarlyDying ==
    ASSUME Sound, EarlyInv, Exit \/ Fatal
    PROVE  EarlyInv'
<1>1. InScript /\ UNCHANGED <<early, handle, destructed, freed>>
      /\ \/ Bailout(stack, store, FALSE)
         \/ Bailout(stack, MarkDestructed(store), TRUE)
  BY DEF Exit, Fatal, script
<1>2. Types /\ Shape(stack) /\ Base(stack) # "end"
  BY <1>1, StatementBase DEF Sound
<1>3. PICK s : s = stack
  OBVIOUS
<1>4. PICK st : st = store
  OBVIOUS
<1>5. PICK st2 : st2 = MarkDestructed(store)
  OBVIOUS
<1>6. CASE Bailout(stack, store, FALSE)
  <2>1. OnlyLess(st)
    BY <1>4 DEF OnlyLess
  <2>2. Bailout(s, st, FALSE)
    BY <1>3, <1>4, <1>6
  <2>3. QED
    BY <1>1, <1>2, <1>3, <2>1, <2>2, EarlyBail
<1>7. CASE Bailout(stack, MarkDestructed(store), TRUE)
  <2>1. Bailout(s, st2, TRUE)
    BY <1>3, <1>5, <1>7
  <2>2. QED
    BY <1>1, <1>2, <1>3, <2>1, EarlyBail
<1>8. QED
  BY <1>1, <1>6, <1>7

LEMMA EarlyUnlink ==
    ASSUME Sound, EarlyInv, DelRefUnlink
    PROVE  EarlyInv'
<1>1. /\ Types /\ Shape(stack) /\ stack[1].at \in Inner
      /\ UNCHANGED <<early, handle, destructed, freed>>
  BY DEF Sound, DelRefUnlink, At, script, Inner
<1>2. PICK h \in Handles : h = handle[This] /\ store[h].valid
  BY Unlinked DEF DelRefUnlink
<1>3. PICK st : st = [store EXCEPT ![h].valid = FALSE]
  OBVIOUS
<1>4. st \in [Handles -> Bucket] /\ OnlyLess(st)
  <2>1. store \in [Handles -> Bucket]
    BY <1>1 DEF Types
  <2>2. PICK v : v = [store[h] EXCEPT !.valid = FALSE]
    OBVIOUS
  <2>3. v \in Bucket /\ v.obj = store[h].obj /\ v.called = store[h].called /\ ~ v.valid
    BY <2>1, <2>2 DEF Bucket
  <2>4. st = [store EXCEPT ![h] = v]
    BY <1>3, <2>2
  <2>5. QED
    BY <2>1, <2>3, <2>4 DEF OnlyLess
<1>5. CASE stack[1].gen = gen
  <2>1. Leave(st, buffered)
    BY <1>2, <1>3, <1>5 DEF DelRefUnlink
  <2>2. QED
    BY <1>1, <1>4, <2>1, EarlyLeave
<1>6. CASE stack[1].gen # gen
  <2>1. store' = st /\ UNCHANGED <<stack, bailed>>
    BY <1>2, <1>3, <1>6 DEF DelRefUnlink
  <2>2. Ahead(Ground(stack), Ground(stack'))
    BY <2>1 DEF Ahead
  <2>3. QED
    BY <1>1, <1>4, <2>1, <2>2, TendingStill DEF OnlyLess
<1>7. QED
  BY <1>5, <1>6

\* The write of a bucket whose destructor is called, seen from the object.
LEMMA Marks ==
    ASSUME Types, NEW o, NEW h \in Handles, NEW d \in Int,
           store' = [store EXCEPT ![h].called = TRUE, ![h].refcount = @ + d],
           destructed' = [destructed EXCEPT ![o] = @ + 1]
    PROVE  Marked(o, h, d)
<1>1. store \in [Handles -> Bucket]
  BY DEF Types
<1>2. PICK new : new = Recall(store, h, d)
  OBVIOUS
<1>3. store' = new
  BY <1>2 DEF Recall
<1>4. /\ new \in [Handles -> Bucket]
      /\ new[h].refcount = store[h].refcount + d /\ new[h].called
      /\ \A e \in Handles : /\ new[e].valid = store[e].valid /\ new[e].obj = store[e].obj
                            /\ store[e].called => new[e].called
                            /\ e # h => new[e] = store[e]
  BY <1>1, <1>2, Recalled
<1>5. QED
  BY <1>3, <1>4 DEF Marked

\* A destructor is called, by del_ref or by the loop that has just reached the bucket.
Reaches(f, g, h) == \A e \in Handles : /\ LoopCalled(g, e) => LoopCalled(f, e) \/ e = h
                                       /\ LoopFreed(g, e) => LoopFreed(f, e)
LEMMA EarlyDestructing ==
    ASSUME Sound, EarlyInv, NEW o \in Created, Keeps(o),
           NEW h \in Handles, h = handle[o], h < top, store[h].valid, ~ store[h].called,
           NEW d, Marked(o, h, d), UNCHANGED <<early, handle, freed, bailed>>,
           Reaches(Ground(stack), Ground(stack'), h)
    PROVE  EarlyInv'
<1>1. /\ store[h].obj = o /\ o \in Objs /\ destructed[o] = 0 /\ freed[o] = 0
      /\ destructed \in [Objs -> Nat] /\ Types
  BY NotYet DEF Keeps, Created, Sound, Types
<1>2. /\ store'[h].called
      /\ \A g \in Handles : /\ store'[g].valid = store[g].valid /\ store'[g].obj = store[g].obj
                            /\ g # h => store'[g] = store[g]
      /\ destructed' = [destructed EXCEPT ![o] = @ + 1]
  BY DEF Marked
<1>3. destructed'[o] = 1 /\ \A p \in Objs : p # o => destructed'[p] = destructed[p]
  BY <1>1, <1>2
<1>4. Created' = Created
  BY DEF Created
<1>5. ASSUME NEW p \in early, ~ bailed'
      PROVE  Tended(p)'
  <2>1. p \in Objs /\ Tended(p) /\ handle[p] \in Handles /\ freed'[p] = freed[p]
    BY <1>1, <1>5 DEF EarlyInv, Created, Types
  <2>2. PICK e \in Handles : e = handle[p] /\ e = handle'[p]
    BY <2>1
  <2>3. Keeps(p)' <=> Keeps(p)
    BY <1>2, <2>2 DEF Keeps
  <2>4. CASE p = o
    <3>1. e = h /\ store'[e].called /\ store[e].valid
      BY <1>2, <2>2, <2>4
    <3>2. ~ LoopFreed(Ground(stack'), e)
      BY <2>1, <2>2, <2>4, <3>1 DEF Tended, Looped, Reaches
    <3>3. Looped(p, Ground(stack))'
      BY <2>2, <3>1, <3>2 DEF Looped
    <3>4. QED
      BY <1>3, <2>4, <3>3 DEF Tended
  <2>5. CASE p # o
    <3>1. destructed'[p] = destructed[p]
      BY <1>3, <2>1, <2>5
    <3>2. ASSUME Keeps(p)
          PROVE  e # h /\ store'[e] = store[e]
      BY <1>1, <1>2, <2>2, <2>5, <3>2 DEF Keeps
    <3>3. Looped(p, Ground(stack))'
      BY <2>1, <2>2, <2>3, <3>2 DEF Tended, Looped, Reaches
    <3>4. QED
      BY <2>1, <2>2, <2>3, <3>1, <3>2, <3>3 DEF Tended
  <2>6. QED
    BY <2>4, <2>5
<1>6. QED
  BY <1>1, <1>4, <1>5 DEF EarlyInv

LEMMA EarlyDelRefDestruct ==
    ASSUME Sound, EarlyInv, DelRefDestruct PROVE EarlyInv'
<1>0. Types /\ Shape(stack) /\ stack[1].at = "del_ref"
  BY DEF Sound, DelRefDestruct, At
<1>1. stack[1].at \in Inner
  BY <1>0 DEF Inner
<1>2. stack[1].o \in Objs
  BY <1>0, <1>1, Popped
<1>3. PICK o \in Objs : o = stack[1].o
  BY <1>2
<1>4. o \in Created /\ Keeps(o) /\ handle[o] \in Handles /\ handle[o] < top
  <2>1. Refs(o) > 0
    BY <1>0, <1>3, Live
  <2>2. QED
    BY <2>1, Referred
<1>5. PICK h \in Handles : h = handle[o]
  BY <1>4
<1>6. PICK r : r = Tail(stack)
  OBVIOUS
<1>7. /\ store[h].valid /\ ~ store[h].called
      /\ store' = [store EXCEPT ![h].called = TRUE, ![h].refcount = @ + 1]
      /\ destructed' = [destructed EXCEPT ![o] = @ + 1]
      /\ stack' = <<Frame("dtor", o, 0), Frame("dtor_done", o, 0)>> \o r
      /\ UNCHANGED <<early, handle, freed, bailed>>
  BY <1>3, <1>4, <1>5, <1>6 DEF DelRefDestruct, b, This, Keeps, script
<1>8. PICK f \in Frames : f = Frame("dtor", o, 0)
  <2>1. 0 \in 0..(MaxObjs + 1)
    BY Constants
  <2>2. QED
    BY <2>1 DEF Frame, Frames, Labels
<1>9. PICK g \in Frames : g = Frame("dtor_done", o, 0)
  <2>1. 0 \in 0..(MaxObjs + 1)
    BY Constants
  <2>2. QED
    BY <2>1 DEF Frame, Frames, Labels
<1>10. r \in Seq(Frames) /\ r # <<>> /\ Ground(r) = Ground(stack)
  BY <1>0, <1>1, <1>6, GroundPop
<1>11. PICK s \in Seq(Frames) : s = <<g>> \o r /\ s # <<>>
  BY <1>10, StackPush
<1>12. stack' = <<f>> \o s
  <2>1. <<f, g>> \o r = <<f>> \o (<<g>> \o r)
    BY <1>10, TwoFrames
  <2>2. QED
    BY <2>1, <1>7, <1>8, <1>9, <1>11
<1>13. Ground(stack') = Ground(stack)
  <2>1. Ground(<<f>> \o s) = Ground(s)
    BY <1>11, GroundPush
  <2>2. Ground(<<g>> \o r) = Ground(r)
    BY <1>10, GroundPush
  <2>3. QED
    BY <1>10, <1>11, <1>12, <2>1, <2>2
<1>14. Reaches(Ground(stack), Ground(stack'), h)
  BY <1>13 DEF Reaches
<1>15. PICK d : d = 1
  OBVIOUS
<1>16. Marked(o, h, d)
  <2>1. d \in Int /\ store' = [store EXCEPT ![h].called = TRUE, ![h].refcount = @ + d]
    BY <1>7, <1>15
  <2>2. QED
    BY <1>0, <1>7, <2>1, Marks
<1>17. QED
  BY <1>4, <1>5, <1>7, <1>14, <1>16, EarlyDestructing

LEMMA EarlyCallDestructor ==
    ASSUME Sound, EarlyInv, CallDestructor PROVE EarlyInv'
<1>0. /\ Types /\ Shape(stack) /\ stack[1] \in Frames
      /\ stack[1].at = "called" /\ stack[1].at \in Bottom /\ stack[1].i \in 1..(MaxObjs + 1)
  BY CalledTop DEF CallDestructor
<1>1. stack[1].o = 0 /\ stack[1].i < top
  BY DEF CallDestructor, This
<1>2. PICK h : h = stack[1].i
  OBVIOUS
<1>3. CASE ~ (store[h].valid /\ ~ store[h].called)
  BY <1>2, <1>3, EarlySkipping
<1>4. CASE store[h].valid /\ ~ store[h].called
  <2>1. h \in Handles
    <3>1. top \in 1..(MaxObjs + 1)
      BY <1>0 DEF Types
    <3>2. QED
      BY <1>0, <1>1, <1>2, <3>1, Constants
  <2>2. PICK o \in Created : o = store[h].obj /\ handle[o] = h
    BY <1>1, <1>2, <2>1 DEF Sound, BucketInv
  <2>3. Keeps(o) /\ o \in Objs
    BY <2>2 DEF Keeps, Created
  <2>4. /\ store' = [store EXCEPT ![h].called = TRUE, ![h].refcount = @ + 2]
        /\ destructed' = [destructed EXCEPT ![o] = @ + 1]
        /\ stack' = <<Frame("dtor", o, 0), Frame("called", o, h)>>
        /\ UNCHANGED <<early, handle, freed, bailed>>
    BY <1>2, <1>4, <2>2 DEF CallDestructor, script
  <2>5. 0 \in 0..(MaxObjs + 1) /\ h \in 0..(MaxObjs + 1)
    BY <1>0, <1>2, Constants
  <2>6. PICK f \in Frames : f = Frame("dtor", o, 0)
    BY <2>3, <2>5 DEF Frame, Frames, Labels
  <2>7. PICK g \in Frames : g = Frame("called", o, h) /\ g.at = "called" /\ g.o = o /\ g.i = h
    <3>1. PICK g : g = Frame("called", o, h)
      OBVIOUS
    <3>2. g.at = "called" /\ g.o = o /\ g.i = h
      BY <3>1 DEF Frame
    <3>3. g \in Frames
      BY <2>3, <2>5, <3>1 DEF Frame, Frames, Labels
    <3>4. QED
      BY <3>1, <3>2, <3>3
  <2>8. Ground(stack') = g
    <3>1. <<f, g>> = <<f>> \o <<g>> /\ <<g>> \in Seq(Frames) /\ <<g>> # <<>>
      OBVIOUS
    <3>2. PICK t \in Seq(Frames) : t = <<g>> /\ t # <<>>
      BY <3>1, Zenon
    <3>3. Ground(<<f>> \o t) = Ground(t)
      BY <3>2, GroundPush
    <3>4. Ground(<<g>>) = g
      BY <1>0, GroundOnly
    <3>5. QED
      BY <2>4, <2>6, <2>7, <3>1, <3>2, <3>3, <3>4
  <2>9. Ground(stack) = stack[1]
    BY <1>0, <2>7, GroundOnly
  <2>10. Reaches(Ground(stack), Ground(stack'), h)
    BY <1>0, <1>1, <1>2, <2>7, <2>8, <2>9 DEF Reaches, LoopCalled, LoopFreed, FreeingBases
  <2>11. PICK d : d = 2
    OBVIOUS
  <2>12. Marked(o, h, d)
    <3>1. d \in Int /\ store' = [store EXCEPT ![h].called = TRUE, ![h].refcount = @ + d]
      BY <2>4, <2>11
    <3>2. QED
      BY <1>0, <2>1, <2>4, <3>1, Marks
  <2>13. QED
    BY <1>1, <1>2, <1>4, <2>1, <2>2, <2>3, <2>4, <2>10, <2>12, EarlyDestructing
<1>5. QED
  BY <1>3, <1>4

\* The storage of an object is freed, whose destructor was called before.
LEMMA EarlyFreeing ==
    ASSUME Sound, EarlyInv, NEW o \in Objs, freed[o] = 0, freed' = [freed EXCEPT ![o] = @ + 1],
           UNCHANGED <<early, handle, destructed, bailed>>,
           Keeps(o), ~ bailed /\ o \in early => store[handle[o]].called,
           OnlyLess(store'),
           \A h \in Handles : store'[h].valid =>
               /\ LoopCalled(Ground(stack'), h) => LoopCalled(Ground(stack), h)
               /\ LoopFreed(Ground(stack'), h) => LoopFreed(Ground(stack), h)
    PROVE  EarlyInv'
<1>1. /\ Types /\ freed \in [Objs -> Nat] /\ early \subseteq Created
      /\ \A p \in Objs : freed[p] \in {0, 1}
  BY DEF Sound, Types, EarlyInv
<1>2. freed'[o] = 1 /\ \A p \in Objs : p # o => freed'[p] = freed[p]
  BY <1>1
<1>3. Created' = Created
  BY DEF Created
<1>4. ASSUME NEW p \in early, ~ bailed'
      PROVE  Tended(p)'
  <2>1. Tended(p) /\ p \in Objs
    BY <1>1, <1>4 DEF EarlyInv, Created
  <2>2. PICK h \in Handles : h = handle[p]
    BY <1>1, <1>4 DEF Created, Types
  <2>3. /\ store'[h].obj = store[h].obj /\ store'[h].called = store[h].called
        /\ store'[h].valid => store[h].valid
    BY DEF OnlyLess
  <2>4. Keeps(p)' <=> Keeps(p)
    BY <2>2, <2>3 DEF Keeps
  <2>5. Looped(p, Ground(stack))'
    BY <2>1, <2>2, <2>3, <2>4 DEF Looped, Tended
  <2>6. freed'[p] # 0 => destructed[p] = 1
    BY <1>2, <1>4, <2>1 DEF Tended
  <2>7. QED
    BY <2>1, <2>2, <2>3, <2>4, <2>5, <2>6 DEF Tended
<1>5. \A p \in Objs : freed'[p] \in {0, 1}
  BY <1>1, <1>2
<1>6. QED
  BY <1>1, <1>3, <1>4, <1>5 DEF EarlyInv

LEMMA EarlyDelRefFree ==
    ASSUME Sound, EarlyInv, DelRefFree PROVE EarlyInv'
<1>0. Types /\ Shape(stack) /\ CallsInv /\ stack[1].at \in {"del_ref", "dtor_done"}
  BY DEF Sound, DelRefFree, At
<1>1. stack[1].at \in Inner /\ stack \in Seq(Frames) /\ stack # <<>> /\ stack[1] \in Frames
  BY <1>0, StackTop DEF Inner, Shape
<1>2. PICK o \in Objs : o = stack[1].o
  BY <1>0, <1>1, Popped
<1>3. Refs(o) > 0
  BY <1>0, <1>2, Live
<1>4. o \in Created /\ Keeps(o) /\ handle[o] \in Handles
  BY <1>3, Referred
<1>5. freed[o] = 0 /\ freed' = [freed EXCEPT ![o] = @ + 1]
  BY <1>2, StepDelRefFree DEF This
<1>6. store[handle[o]].called
  <2>1. CASE stack[1].at = "del_ref"
    BY <1>2, <2>1 DEF DelRefFree, At, b, This
  <2>2. CASE stack[1].at = "dtor_done"
    <3>1. 1 \in DOMAIN stack
      BY <1>1, StackTop
    <3>2. Relies(stack[1])
      BY <1>0, <3>1 DEF CallsInv
    <3>3. QED
      BY <1>2, <2>2, <3>2 DEF Relies
  <2>3. QED
    BY <1>0, <2>1, <2>2
<1>7. UNCHANGED <<store, early, handle, destructed, bailed>> /\ OnlyLess(store')
  BY DEF DelRefFree, OnlyLess
<1>8. Ground(stack') = Ground(stack)
  <2>1. PICK todo \in SUBSET Objs : todo = props[b.obj]
    <3>1. b.obj = o
      BY <1>2, <1>4 DEF b, This, Keeps
    <3>2. QED
      BY <1>0, <3>1 DEF Types
  <2>2. PICK f : f = [stack[1] EXCEPT !.at = "freeing", !.gen = gen, !.todo = todo]
    OBVIOUS
  <2>3. f \in Frames
    BY <1>0, <1>1, <2>2 DEF Frames, Labels, Types
  <2>4. stack' = <<f>> \o Tail(stack)
    BY <2>1, <2>2 DEF DelRefFree, Replace
  <2>5. QED
    BY <1>0, <1>1, <2>3, <2>4, GroundPop, GroundPush
<1>9. \A h \in Handles : store'[h].valid =>
          /\ LoopCalled(Ground(stack'), h) => LoopCalled(Ground(stack), h)
          /\ LoopFreed(Ground(stack'), h) => LoopFreed(Ground(stack), h)
  BY <1>8
<1>10. ~ bailed /\ o \in early => store[handle[o]].called
  BY <1>6
<1>11. QED
  BY <1>4, <1>5, <1>7, <1>9, <1>10, EarlyFreeing

LEMMA EarlyFreeStorage ==
    ASSUME Sound, EarlyInv, FreeStorage PROVE EarlyInv'
<1>0. /\ Types /\ Shape(stack) /\ BucketInv /\ stack[1].at = "free" /\ stack[1].i < top
  BY DEF Sound, FreeStorage, At
<1>1. stack[1] \in Frames /\ FrameOK(stack[1]) /\ stack[1].at \in Bottom /\ "free_one" \in Bottom
  BY <1>0, ShapeTop DEF Bottom, Labels, Inner
<1>2. PICK h : h = stack[1].i
  OBVIOUS
<1>3. CASE ~ store[h].valid
  BY <1>2, <1>3, EarlySkipping
<1>4. CASE store[h].valid
  <2>1. h \in Handles /\ h \in 0..(MaxObjs + 1) /\ h \in Nat /\ Handles \subseteq Nat
    <3>1. stack[1].i \in 0..(MaxObjs + 1) /\ stack[1].i >= 1
      BY <1>0, <1>1 DEF Frames, FrameOK
    <3>2. top \in 1..(MaxObjs + 1)
      BY <1>0 DEF Types
    <3>3. QED
      BY <1>0, <1>2, <3>1, <3>2, Constants
  <2>2. PICK o \in Created : o = store[h].obj /\ handle[o] = h
    BY <1>0, <1>2, <2>1 DEF BucketInv
  <2>3. Keeps(o) /\ o \in Objs
    BY <2>2 DEF Keeps, Created
  <2>4. freed' = [freed EXCEPT ![o] = @ + 1]
    BY <1>2, <1>4, <2>2 DEF FreeStorage
  <2>5. freed[o] = 0
    <3>1. freed[o] # 0 => Freeing(o)
      BY <1>4, <2>2, <2>3 DEF Sound, ValidInv
    <3>2. ~ Freeing(o)
      <4>1. Len(stack) = 1
        BY <1>0, <1>1, ShapeTop
      <4>2. DOMAIN stack = 1..Len(stack)
        BY <1>0, StackTop DEF Shape
      <4>3. \A k \in DOMAIN stack : k = 1
        BY <4>1, <4>2
      <4>4. QED
        BY <1>0, <4>3 DEF Freeing, IsFreeing
    <3>3. QED
      BY <3>1, <3>2
  <2>6. store' = [store EXCEPT ![h].valid = FALSE] /\ UNCHANGED <<early, handle, destructed, bailed>>
    BY <1>2, <1>4 DEF FreeStorage
  <2>7. OnlyLess(store') /\ ~ store'[h].valid
    <3>1. store \in [Handles -> Bucket]
      BY <1>0 DEF Types
    <3>2. PICK v : v = [store[h] EXCEPT !.valid = FALSE]
      OBVIOUS
    <3>3. v.obj = store[h].obj /\ v.called = store[h].called /\ ~ v.valid
      BY <2>1, <3>1, <3>2 DEF Bucket
    <3>4. store' = [store EXCEPT ![h] = v]
      BY <2>6, <3>2
    <3>5. QED
      BY <2>1, <3>1, <3>3, <3>4 DEF OnlyLess
  <2>8. PICK f \in Frames : /\ f = [Frame("free_one", 0, h) EXCEPT !.todo = props[o]]
                            /\ f.at = "free_one" /\ f.i = h
    <3>1. PICK f : f = [Frame("free_one", 0, h) EXCEPT !.todo = props[o]]
      OBVIOUS
    <3>2. props[o] \in SUBSET Objs
      BY <1>0, <2>3 DEF Types
    <3>3. f = [at |-> "free_one", o |-> 0, i |-> h, gen |-> 0, fail |-> FALSE, todo |-> props[o]]
      BY <3>1 DEF Frame
    <3>4. f \in Frames
      BY <2>1, <3>2, <3>3 DEF Frames, Labels
    <3>5. QED
      BY <3>1, <3>3, <3>4
  <2>9. Ground(stack') = f /\ Ground(stack) = stack[1]
    <3>1. stack' = <<f>> \o Tail(stack)
      BY <1>2, <1>4, <2>2, <2>8 DEF FreeStorage, Replace
    <3>2. QED
      BY <1>0, <1>1, <3>1, GroundOnly
  <2>10. ASSUME NEW e \in Handles, store'[e].valid
         PROVE  /\ LoopCalled(Ground(stack'), e) => LoopCalled(Ground(stack), e)
                /\ LoopFreed(Ground(stack'), e) => LoopFreed(Ground(stack), e)
    <3>1. e # h /\ e \in Nat
      BY <2>1, <2>7, <2>10
    <3>2. QED
      BY <1>0, <1>2, <2>1, <2>8, <2>9, <3>1 DEF LoopCalled, LoopFreed, FreeingBases
  <2>11. ~ bailed /\ o \in early => store[handle[o]].called
    <3>1. LoopCalled(Ground(stack), h)
      BY <1>0, <2>9 DEF LoopCalled, FreeingBases
    <3>2. QED
      BY <1>4, <2>2, <2>3, <3>1 DEF EarlyInv, Tended, Looped
  <2>12. QED
    BY <2>3, <2>4, <2>5, <2>6, <2>7, <2>10, <2>11, EarlyFreeing
<1>5. QED
  BY <1>3, <1>4

\* A new object: only those made by the main script are to be tended, and there the loops
\* have not begun.  Whoever had its handle before is freed.
LEMMA EarlyNew ==
    ASSUME Sound, EarlyInv, New PROVE EarlyInv'
<1>0. Types /\ CreatedInv /\ early \subseteq Created /\ Created \subseteq Objs
  BY DEF Sound, EarlyInv, Created
<1>1. PICK n \in 0..MaxObjs : Created = 1..n /\ top <= n + 1
  BY <1>0 DEF CreatedInv
<1>2. n \in Nat /\ Cardinality(Created) = n
  <2>1. n \in Nat /\ 1 \in Int /\ n \in Int
    BY <1>1, Constants
  <2>2. Cardinality(1..n) = IF 1 > n THEN 0 ELSE n - 1 + 1
    BY <2>1, FS_Interval
  <2>3. QED
    BY <1>1, <2>1, <2>2
<1>3. PICK o : o = n + 1
  OBVIOUS
<1>4. PICK h : h = IF freeList # <<>> THEN Head(freeList) ELSE top
  OBVIOUS
<1>5. PICK nb : nb = [valid |-> TRUE, called |-> FALSE, refcount |-> 1, obj |-> o]
  OBVIOUS
<1>6. /\ o \in Objs
      /\ store' = [store EXCEPT ![h] = nb]
      /\ handle' = [handle EXCEPT ![o] = h]
      /\ early' = IF Ground(stack).at = "main" THEN early \cup {o} ELSE early
      /\ UNCHANGED <<stack, destructed, freed, bailed>>
  BY <1>2, <1>3, <1>4, <1>5 DEF New, ghosts, Ground
<1>7. /\ h \in Handles /\ ~ store[h].valid
      /\ \A p \in Created : handle[p] = h => Refs(p) = 0 /\ freed[p] # 0
  BY <1>1, <1>3, <1>4, <1>6, Vacant
<1>8. /\ store'[h] = nb /\ nb.obj = o /\ ~ nb.called
      /\ \A g \in Handles : g # h => store'[g] = store[g]
  BY <1>0, <1>5, <1>6, <1>7 DEF Types
<1>9. /\ handle'[o] = h /\ \A p \in Objs : p # o => handle'[p] = handle[p]
      /\ o \notin Created /\ h # 0
  BY <1>0, <1>1, <1>2, <1>3, <1>6, <1>7, Constants DEF Types
<1>10. Created' = Created \cup {o} /\ early' \subseteq Created'
  <2>1. \A p \in Objs : handle'[p] # 0 <=> handle[p] # 0 \/ p = o
    BY <1>9
  <2>2. Created' = Created \cup {o}
    BY <1>6, <2>1 DEF Created
  <2>3. QED
    BY <1>0, <1>6, <2>2
<1>11. freed[o] = 0 /\ destructed[o] = 0
  BY <1>0, <1>6, <1>9 DEF CreatedInv
<1>12. ASSUME NEW p \in early', ~ bailed'
       PROVE  Tended(p)'
  <2>1. CASE p = o
    <3>1. Ground(stack).at = "main"
      BY <1>0, <1>6, <1>9, <1>12, <2>1
    <3>2. /\ ~ LoopCalled(Ground(stack'), h) /\ ~ LoopFreed(Ground(stack'), h)
      BY <1>6, <3>1 DEF LoopCalled, LoopFreed, FreeingBases
    <3>3. ~ store'[h].called
      BY <1>8
    <3>4. QED
      BY <1>6, <1>9, <1>11, <2>1, <3>2, <3>3 DEF Tended, Looped
  <2>2. CASE p # o
    <3>1. p \in early /\ p \in Created /\ p \in Objs
      BY <1>0, <1>6, <1>12, <2>2
    <3>2. Tended(p) /\ handle'[p] = handle[p] /\ handle[p] \in Handles
      BY <1>0, <1>6, <1>9, <1>12, <2>2, <3>1 DEF EarlyInv, Created, Types
    <3>3. ASSUME Keeps(p)'
          PROVE  store'[handle[p]] = store[handle[p]] /\ Keeps(p)
      <4>1. store'[handle[p]].obj = p
        BY <3>2, <3>3 DEF Keeps
      <4>2. handle[p] # h
        BY <1>8, <2>2, <4>1
      <4>3. QED
        BY <1>8, <3>2, <4>1, <4>2 DEF Keeps
    <3>4. QED
      BY <1>6, <3>2, <3>3 DEF Tended, Looped
  <2>3. QED
    BY <2>1, <2>2
<1>13. \A p \in Objs : freed'[p] \in {0, 1}
  BY <1>6 DEF EarlyInv
<1>14. QED
  BY <1>10, <1>12, <1>13 DEF EarlyInv

LEMMA EarlyInitially == Init => EarlyInv
<1> SUFFICES ASSUME Init PROVE EarlyInv
  OBVIOUS
<1>1. early = {} /\ \A o \in Objs : freed[o] = 0
  BY DEF Init
<1>2. QED
  BY <1>1 DEF EarlyInv

LEMMA EarlyInductive == Sound /\ EarlyInv /\ [Next]_allVars /\ ~ stale => EarlyInv'
<1> SUFFICES ASSUME Sound, EarlyInv, [Next]_allVars, ~ stale PROVE EarlyInv'
  OBVIOUS
<1>1. CASE UNCHANGED allVars
  <2>1. UNCHANGED <<store, handle, stack, destructed, freed, early, bailed>>
    BY <1>1 DEF allVars
  <2>2. Created' = Created /\ \A o \in early : Tended(o) => Tended(o)'
    BY <2>1 DEF Created, Tended, Looped, Keeps
  <2>3. QED
    BY <2>1, <2>2 DEF EarlyInv
<1>2. CASE Script
  BY <1>2, EarlyNew, EarlyEndDtor, EarlyDying, EarlyReferring, EarlyUnsetting DEF Script
<1>3. CASE DelRef
  BY <1>3, EarlyReturning, EarlyDelRefDestruct, EarlyDelRefFree, EarlyFreeProperty, EarlyUnlink
     DEF DelRef
<1>4. CASE Shutdown
  BY <1>4, EarlyTurning, EarlyUnsetting, EarlyCallDestructor, EarlyDestructorCalled,
     EarlyFreeStorage, EarlySkipping DEF Shutdown
<1>5. CASE Stopped
  BY <1>1, <1>5 DEF Stopped
<1>6. QED
  BY <1>1, <1>2, <1>3, <1>4, <1>5 DEF Next

\* What the invariant says when the request is over.
LEMMA EarlyEnd == Sound /\ EarlyInv => Complete
<1> SUFFICES ASSUME Sound, EarlyInv, At("end"), ~ bailed, NEW o \in early
             PROVE  destructed[o] = 1 /\ freed[o] = 1
  BY DEF Complete
<1>1. Types /\ Shape(stack) /\ stack[1].at = "end" /\ o \in Created /\ o \in Objs /\ Tended(o)
  BY DEF Sound, At, EarlyInv, Created
<1>2. LoopFreed(Ground(stack), handle[o])
  <2>1. stack[1].at \in Bottom
    BY <1>1 DEF Bottom, Labels, Inner
  <2>2. PICK f \in Frames : f = stack[1]
    BY <1>1, ShapeTop
  <2>3. Ground(stack) = stack[1]
    BY <1>1, <2>1, <2>2, GroundOnly
  <2>4. QED
    BY <1>1, <2>3 DEF LoopFreed
<1>3. freed[o] # 0
  BY <1>1, <1>2 DEF Sound, Tended, Looped, CountInv, ValidInv
<1>4. QED
  BY <1>1, <1>3 DEF EarlyInv, Tended

\* A request whose shutdown nothing bails out of has destructed and freed every object that
\* was made before it, those of cycles included.
THEOREM ShutdownCompletes == Spec => []Complete
<1> DEFINE Inv == IInv /\ (stale \/ EarlyInv)
<1>1. Init => Inv
  BY Initially, EarlyInitially
<1>2. Inv /\ [Next]_allVars => Inv'
  <2> SUFFICES ASSUME Inv, [Next]_allVars PROVE stale' \/ EarlyInv'
    BY Inductive
  <2>1. CASE stale
    <3>1. UNCHANGED allVars
      BY <2>1, OnlyStopped
    <3>2. QED
      BY <2>1, <3>1 DEF allVars
  <2>2. CASE ~ stale
    BY <2>2, EarlyInductive DEF IInv
  <2>3. QED
    BY <2>1, <2>2
<1>3. Inv => Complete
  <2>1. CASE stale
    BY <2>1 DEF Complete, At
  <2>2. CASE ~ stale
    BY <2>2, EarlyEnd DEF IInv
  <2>3. QED
    BY <2>1, <2>2
<1>4. QED
  BY <1>1, <1>2, <1>3, PTL DEF Spec
=============================================================================
