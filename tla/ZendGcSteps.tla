----------------------------- MODULE ZendGcSteps -----------------------------
(***************************************************************************)
(* The inductive invariant of the collector at work, and that the steps of  *)
(* a script, of zval_ptr_dtor, of the objects store and of the search for   *)
(* possible roots keep it; then what is known of garbage, and that the      *)
(* steps of a script keep that.  ZendGcProofs has the steps of              *)
(* gc_collect_cycles, what the other steps do to garbage, and the theorems. *)
(***************************************************************************)
EXTENDS ZendGc, FiniteSetTheorems, FunctionTheorems, SequenceTheorems, WellFoundedInduction, TLAPS

(* Frames by their height on the stack: what is below a frame keeps its height. *)
Fr(s, h) == s[Len(s) + 1 - h]

Kept(s, t, b) == /\ b \in Nat /\ b <= Len(s) /\ b <= Len(t)
                 /\ \A h \in 1..b : Fr(t, h) = Fr(s, h)

Popped(s, t) == Len(t) = Len(s) - 1 /\ Kept(s, t, Len(t))
Replaced(s, t, f) == Len(t) = Len(s) /\ Kept(s, t, Len(s) - 1) /\ Fr(t, Len(t)) = f
Pushed(s, t, f) == Len(t) = Len(s) + 1 /\ Kept(s, t, Len(s)) /\ Fr(t, Len(t)) = f
Doubled(s, t, f, g) == /\ Len(t) = Len(s) + 1 /\ Kept(s, t, Len(s) - 1)
                       /\ Fr(t, Len(t)) = f /\ Fr(t, Len(s)) = g

\* The frames of F up to height b.
CountTo(s, b, F) == Cardinality({h \in 1..b : Fr(s, h) \in F})
CountIn(s, F) == CountTo(s, Len(s), F)
Bit(f, F) == IF f \in F THEN 1 ELSE 0
-----------------------------------------------------------------------------
\* What the frames of a stack contribute: the zvals they list, free, have made
\* null, and have still to destroy.
Part(f, i) ==
    IF i = 1 THEN f.list ELSE
    IF i = 2 THEN IF f.at = "free" THEN {f.z} ELSE {} ELSE
    IF i = 3 THEN IF f.at = "destroy" THEN f.list \ f.todo ELSE {} ELSE
    IF f.at = "destructors" THEN f.list ELSE IF f.at = "destroy" THEN f.todo ELSE {}
PartTo(s, b, i) == UNION {Part(Fr(s, h), i) : h \in 1..b}
Parts(s, i) == PartTo(s, Len(s), i)

\* The references a frame has: to zvals, and to an object.
HoldLabels == {"body", "del_ref", "destructed", "storage", "destructors"}
Refers(f, z) == \/ z \in f.todo /\ f.at # "destroy"
                \/ z = f.z /\ f.at \in {"ptr_dtor", "resume"}
Holds(f, o) == f.n = o /\ f.at \in HoldLabels
RefFrames(z) == {f \in Frames : Refers(f, z)}
HoldFrames(o) == {f \in Frames : Holds(f, o)}

VarRefs(f, z) == Cardinality({v \in Vars : f[v] = z})
ElemRefs(f, z) == Cardinality({n \in Nodes : z \in f[n]})
ListRef(z) == IF z \in Listed THEN 1 ELSE 0
Denoting(k, t, o) == {z \in Zvals : k[z] = "object" /\ t[z] = o}
Counted(o) == Denoting(kind, to, o) \ (Listed \cup Dying)

ZvalCounts == \A z \in Zvals : kind[z] # "none" =>
    rc[z] = VarRefs(var, z) + ElemRefs(elems, z) + CountIn(stack, RefFrames(z)) + ListRef(z)
ObjCounts == \A o \in valid :
    rc[o] = Cardinality(Counted(o)) + CountIn(stack, HoldFrames(o))

\* The fields that a frame uses, by its label.
FieldsOK(f) ==
    /\ f.at \in {"main", "collect", "release", "free", "ptr_dtor", "destroy"} => f.n = 0
    /\ f.at \in {"main", "collect", "release", "body", "destructors", "destroy"} => f.z = 0
    /\ f.at \in {"ptr_dtor", "free"} => f.z # 0
    /\ f.at \in {"body", "del_ref", "destructed", "storage"} => f.n \in Objs
    /\ f.at = "destructors" => f.n \in Objs \cup {0} /\ (f.n # 0 => f.check)
    /\ f.at \in {"root", "resume"} => f.n # 0 /\ (f.n \in Zvals => f.n = f.z)
    /\ f.at \notin {"free", "release", "storage", "destroy"} => f.todo = {}
    /\ f.at \notin {"destructors", "destroy"} => f.list = {}
    /\ f.at = "destroy" => f.todo \subseteq f.list

\* Frames that call nothing before they are gone, and those others lie on.
TopLabels == {"ptr_dtor", "root", "collect", "del_ref"}
Calls(f) == f.at \notin TopLabels /\ (f.at = "destructors" => f.n # 0)

Shape ==
    /\ \A h \in 1..Len(stack) : FieldsOK(Fr(stack, h)) /\ (Fr(stack, h).at = "main" <=> h = 1)
    /\ \A h \in 1..Len(stack) - 1 : Calls(Fr(stack, h))

\* Only arrays have elements, object zvals denote objects, and a bucket that is
\* not in use is empty.
KindsOK ==
    /\ \A z \in Zvals : kind[z] # "array" => elems[z] = {}
    /\ \A z \in Zvals : kind[z] = "object" => to[z] \in Objs
    /\ \A o \in Objs \ valid : rc[o] = 0 /\ elems[o] = {}

\* A destroyed null is on a free list, past the loop that destroys.
NullsOK == /\ \A z \in Zvals : kind[z] = "null" => z \in Parts(stack, 3)
           /\ \A z \in Parts(stack, 3) : kind[z] # "array"

VarsHold == \A v \in Vars : var[v] # 0 => kind[var[v]] \in {"array", "object"}
ElemsHold == \A n \in Nodes : \A e \in elems[n] : kind[e] # "none"
FramesHold == \A h \in 1..Len(stack) : \A e \in Fr(stack, h).todo \cup Fr(stack, h).list : kind[e] # "none"
ZvalsHold == \A z \in Zvals \ (Listed \cup Dying) : kind[z] = "object" => to[z] \in valid

\* What a frame relies on while the frames above it run.
HeldValid == \A h \in 1..Len(stack) : \A o \in Objs : Holds(Fr(stack, h), o) => o \in valid
StorageOK == \A h \in 1..Len(stack) : Fr(stack, h).at \in {"destructed", "storage"} =>
    /\ Fr(stack, h).n \in called
    /\ Fr(stack, h).at = "storage" => rc[Fr(stack, h).n] = 1 /\ elems[Fr(stack, h).n] = {}
NamedZvals == \A h \in 1..Len(stack) :
    Fr(stack, h).at \in {"ptr_dtor", "root", "resume"} /\ Fr(stack, h).z # 0 =>
        /\ kind[Fr(stack, h).z] # "none"
        /\ Fr(stack, h).at = "resume" => Fr(stack, h).z \notin Listed
RootArrays == \A h \in 1..Len(stack) :
    Fr(stack, h).at \in {"root", "resume"} /\ Fr(stack, h).n \in Zvals =>
        kind[Fr(stack, h).n] = "array" /\ Fr(stack, h).n \notin Dying
OnFree == \A h \in 1..Len(stack) :
    Fr(stack, h).at \in {"del_ref", "destructed", "storage"} /\ Fr(stack, h).z # 0 =>
        \E j \in 1..h - 1 : Fr(stack, j).at = "free" /\ Fr(stack, j).z = Fr(stack, h).z
ReturnOK == \A h \in 1..Len(stack) :
    Fr(stack, h).at = "destructors" /\ Fr(stack, h).n # 0 =>
        /\ Fr(stack, h).n \in called
        /\ Denoting(kind, to, Fr(stack, h).n) \cap Fr(stack, h).list # {}

\* A zval that is being freed: nothing leads to it any more, but for the
\* collections that were started while it was.
DyingHeap == \A z \in Dying :
    /\ z \in Zvals \ Listed /\ kind[z] \in {"array", "object"} /\ elems[z] = {}
    /\ \A v \in Vars : var[v] # z
    /\ \A n \in Nodes : z \notin elems[n]
DyingBuf == \A z \in Dying : addr[z] = 0 /\ \A e \in Entries : buf[e] # z
DyingFrames == \A h \in 1..Len(stack) : Fr(stack, h).at = "free" =>
    /\ \A j \in 1..Len(stack) : Refers(Fr(stack, j), Fr(stack, h).z) => j > h /\ Fr(stack, j).at = "resume"
    /\ \A j \in 1..Len(stack) : Fr(stack, j).at = "free" /\ Fr(stack, j).z = Fr(stack, h).z => j = h

ListedBuf == \A z \in Listed : addr[z] = 0
Disjoint == \A h, j \in 1..Len(stack) : h # j => Fr(stack, h).list \cap Fr(stack, j).list = {}

\* An object without references is one that a collection has condemned, and its
\* destructor is called before its zval is destroyed.
Pending == \A o \in valid : rc[o] = 0 => Denoting(kind, to, o) \cap Parts(stack, 4) # {}
CalledFirst == \A h \in 1..Len(stack) : Fr(stack, h).at = "destroy" =>
    \A z \in Fr(stack, h).todo : kind[z] = "object" /\ Garbage(to[z]) =>
        \/ to[z] \in called
        \/ \E j \in h + 1..Len(stack) : /\ Fr(stack, j).at = "destructors"
                                        /\ Denoting(kind, to, to[z]) \cap Fr(stack, j).list # {}

\* The zvals of a list that is about to be freed are out of reach: what refers to
\* them is condemned with them, or is a frame of the loop that frees them.
Sealing(f) == f.at = "destroy" \/ (f.at = "destructors" /\ ~ f.check)
Condemned(f) ==
    f.list \cup {o \in valid : /\ rc[o] = 0
                               /\ Denoting(kind, to, o) \subseteq Part(f, 4) \cup Dying
                               /\ Denoting(kind, to, o) \cap Part(f, 4) # {}}
GivenBack(h, n) == Top.at = "del_ref" /\ h < Len(stack) /\ n = Top.n /\ rc[n] = 1 /\ n \in called
SealedVars == \A h \in 1..Len(stack) : Sealing(Fr(stack, h)) =>
    \A z \in Fr(stack, h).list : \A v \in Vars : var[v] # z
SealedElems == \A h \in 1..Len(stack) : Sealing(Fr(stack, h)) =>
    \A z \in Fr(stack, h).list : \A n \in Nodes :
        z \in elems[n] => n \in Condemned(Fr(stack, h)) \/ GivenBack(h, n)
SealedFrames == \A h \in 1..Len(stack) : Sealing(Fr(stack, h)) =>
    \A z \in Fr(stack, h).list : \A j \in 1..Len(stack) : Refers(Fr(stack, j), z) => j > h

HeapInv == KindsOK /\ NullsOK /\ ZvalCounts /\ ObjCounts /\ VarsHold /\ ElemsHold /\ FramesHold /\ ZvalsHold
FrameInv == HeldValid /\ StorageOK /\ NamedZvals /\ RootArrays /\ OnFree /\ ReturnOK
DyingInv == DyingHeap /\ DyingBuf /\ DyingFrames
ListInv == ListedBuf /\ Disjoint /\ Pending /\ CalledFirst
SealInv == SealedVars /\ SealedElems /\ SealedFrames
BufInv == /\ \A e \in Entries : buf[e] \in Zvals => kind[buf[e]] # "none" /\ addr[buf[e]] = e
          /\ \A n \in Nodes : addr[n] # 0 => buf[addr[n]] = n
Inv == Shape /\ HeapInv /\ FrameInv /\ DyingInv /\ ListInv /\ SealInv /\ BufInv
IInv == TypeOK /\ (Sound => Inv)
-----------------------------------------------------------------------------
\* Constants, as the assumption has them.
LEMMA Sizes ==
    /\ MaxZvals \in Nat /\ MaxObjs \in Nat /\ MaxSteps \in Nat
    /\ BufSize \in Nat /\ BufSize >= 1
    /\ IsFiniteSet(Vars) /\ IsFiniteSet(Nodes) /\ IsFiniteSet(Zvals) /\ IsFiniteSet(Objs)
    /\ Nodes \subseteq Nat \ {0} /\ Zvals \cap Objs = {} /\ Nodes = Zvals \cup Objs
    /\ 0 \notin Zvals /\ 0 \notin Objs /\ 0 \notin Entries
<1>1. /\ MaxZvals \in Nat /\ MaxObjs \in Nat /\ MaxSteps \in Nat
      /\ BufSize \in Nat /\ BufSize >= 1 /\ IsFiniteSet(Vars)
  BY SizesAssumption
<1>2. IsFiniteSet(Zvals) /\ IsFiniteSet(Objs)
  BY <1>1, FS_Interval DEF Zvals, Objs
<1>3. IsFiniteSet(Nodes)
  BY <1>2, FS_Union DEF Nodes
<1>4. /\ Nodes \subseteq Nat \ {0} /\ Zvals \cap Objs = {} /\ Nodes = Zvals \cup Objs
      /\ 0 \notin Zvals /\ 0 \notin Objs /\ 0 \notin Entries
  BY <1>1 DEF Zvals, Objs, Nodes, Entries
<1> QED BY <1>1, <1>2, <1>3, <1>4

\* The frames of a stack are frames; the innermost one is the highest.
LEMMA FrFacts ==
    ASSUME NEW s \in Seq(Frames)
    PROVE  /\ Len(s) \in Nat
           /\ \A h \in 1..Len(s) : Fr(s, h) \in Frames
           /\ s # <<>> => Len(s) >= 1 /\ Fr(s, Len(s)) = s[1] /\ s[1] \in Frames
<1>1. Len(s) \in Nat
  OBVIOUS
<1>2. ASSUME NEW h \in 1..Len(s) PROVE Fr(s, h) \in Frames
  <2>1. Len(s) + 1 - h \in 1..Len(s)
    BY <1>1
  <2> QED BY <2>1 DEF Fr
<1>3. ASSUME s # <<>> PROVE Len(s) >= 1 /\ Fr(s, Len(s)) = s[1] /\ s[1] \in Frames
  <2>1. Len(s) >= 1
    BY <1>1, <1>3
  <2>2. Len(s) + 1 - Len(s) = 1
    BY <1>1
  <2> QED BY <2>1, <2>2, <1>1 DEF Fr
<1> QED BY <1>1, <1>2, <1>3

LEMMA FrPush ==
    ASSUME NEW s \in Seq(Frames), NEW f \in Frames, NEW t, t = <<f>> \o s
    PROVE  t \in Seq(Frames) /\ t # <<>> /\ Pushed(s, t, f)
<1>1. t \in Seq(Frames) /\ Len(t) = Len(s) + 1 /\ Len(s) \in Nat
  OBVIOUS
<1>2. t[1] = f
  OBVIOUS
<1>3. ASSUME NEW k \in 1..Len(s) PROVE t[k + 1] = s[k]
  OBVIOUS
<1>4. Fr(t, Len(t)) = f /\ t # <<>>
  BY <1>1, <1>2 DEF Fr
<1>5. ASSUME NEW h \in 1..Len(s) PROVE Fr(t, h) = Fr(s, h)
  <2>1. Len(s) + 1 - h \in 1..Len(s) /\ Len(t) + 1 - h = (Len(s) + 1 - h) + 1
    BY <1>1
  <2> QED BY <2>1, <1>3 DEF Fr
<1> QED BY <1>1, <1>4, <1>5 DEF Pushed, Kept

LEMMA FrTail ==
    ASSUME NEW s \in Seq(Frames), s # <<>>
    PROVE  Tail(s) \in Seq(Frames) /\ Popped(s, Tail(s))
<1> DEFINE t == Tail(s)
<1>1. t \in Seq(Frames) /\ Len(t) = Len(s) - 1 /\ Len(s) \in Nat /\ Len(s) >= 1 /\ Len(t) \in Nat
  BY EmptySeq
<1>2. ASSUME NEW k \in 1..Len(t) PROVE t[k] = s[k + 1]
  BY <1>1
<1>3. ASSUME NEW h \in 1..Len(t) PROVE Fr(t, h) = Fr(s, h)
  <2>1. Len(t) + 1 - h \in 1..Len(t) /\ Len(s) + 1 - h = (Len(t) + 1 - h) + 1
    BY <1>1
  <2> QED BY <2>1, <1>2 DEF Fr
<1> QED BY <1>1, <1>3 DEF Popped, Kept

LEMMA FrReplace ==
    ASSUME NEW s \in Seq(Frames), s # <<>>, NEW f \in Frames, NEW t, t = <<f>> \o Tail(s)
    PROVE  t \in Seq(Frames) /\ t # <<>> /\ Replaced(s, t, f)
<1>1. PICK r : r = Tail(s)
  OBVIOUS
<1>2. r \in Seq(Frames) /\ Popped(s, r)
  BY <1>1, FrTail
<1>3. t \in Seq(Frames) /\ t # <<>> /\ Pushed(r, t, f)
  <2>1. t = <<f>> \o r
    BY <1>1, Zenon
  <2> QED BY <1>2, <2>1, FrPush
<1>4. Len(s) \in Nat /\ Len(r) \in Nat
  BY <1>2
<1> QED BY <1>2, <1>3, <1>4 DEF Popped, Pushed, Kept, Replaced

LEMMA TwoFrames ==
    ASSUME NEW f \in Frames, NEW g \in Frames, NEW s \in Seq(Frames)
    PROVE  <<f, g>> \o s = <<f>> \o (<<g>> \o s)
<1>1. <<f>> \in Seq(Frames) /\ <<g>> \in Seq(Frames)
  OBVIOUS
<1>2. Append(<<f>>, g) = <<f, g>>
  <2>1. /\ <<f, g>> \in Seq(Frames) /\ Len(<<f, g>>) = 2
        /\ <<f, g>>[1] = f /\ <<f, g>>[2] = g
    OBVIOUS
  <2>2. /\ Append(<<f>>, g) \in Seq(Frames) /\ Len(Append(<<f>>, g)) = 2
        /\ Append(<<f>>, g)[1] = f /\ Append(<<f>>, g)[2] = g
    <3>1. Len(<<f>>) = 1 /\ <<f>>[1] = f
      OBVIOUS
    <3> QED BY <1>1, <3>1, AppendProperties
  <2>3. \A i \in 1..2 : Append(<<f>>, g)[i] = <<f, g>>[i]
    BY <2>1, <2>2
  <2> QED BY <2>1, <2>2, <2>3, SeqEqual
<1>3. Append(<<f>>, g) = <<f>> \o <<g>>
  BY <1>1, AppendIsConcat
<1>4. (<<f>> \o <<g>>) \o s = <<f>> \o (<<g>> \o s)
  BY <1>1, ConcatAssociative
<1> QED BY <1>2, <1>3, <1>4

LEMMA FrCompose ==
    ASSUME NEW s, NEW r, NEW t, NEW f, NEW g, Len(s) \in Nat, Len(s) >= 1,
           Replaced(s, r, g), Pushed(r, t, f)
    PROVE  Doubled(s, t, f, g)
<1>1. /\ Len(r) = Len(s) /\ Fr(r, Len(s)) = g
      /\ \A h \in 1..Len(s) - 1 : Fr(r, h) = Fr(s, h)
  BY DEF Replaced, Kept
<1>2. /\ Len(t) = Len(s) + 1 /\ Fr(t, Len(t)) = f
      /\ \A h \in 1..Len(s) : Fr(t, h) = Fr(r, h)
  BY <1>1 DEF Pushed, Kept
<1>3. Fr(t, Len(s)) = g /\ \A h \in 1..Len(s) - 1 : Fr(t, h) = Fr(s, h)
  BY <1>1, <1>2
<1> QED BY <1>2, <1>3 DEF Kept, Doubled

LEMMA FrDouble ==
    ASSUME NEW s \in Seq(Frames), s # <<>>, NEW f \in Frames, NEW g \in Frames,
           NEW t, t = <<f, g>> \o Tail(s)
    PROVE  t \in Seq(Frames) /\ t # <<>> /\ Doubled(s, t, f, g)
<1>1. Tail(s) \in Seq(Frames)
  BY FrTail
<1>2. t = <<f>> \o (<<g>> \o Tail(s))
  BY <1>1, TwoFrames, Zenon
<1>3. PICK r : r = <<g>> \o Tail(s)
  OBVIOUS
<1>4. r \in Seq(Frames) /\ Replaced(s, r, g)
  BY <1>3, FrReplace
<1>5. t = <<f>> \o r
  BY <1>2, <1>3, Zenon
<1>6. t \in Seq(Frames) /\ t # <<>> /\ Pushed(r, t, f)
  BY <1>4, <1>5, FrPush
<1>7. Len(s) \in Nat /\ Len(r) \in Nat /\ Len(s) >= 1
  BY <1>4, FrFacts
<1> QED BY <1>4, <1>6, <1>7, FrCompose, Zenon
-----------------------------------------------------------------------------
\* Counting frames: the frame on top of a part of the stack counts for one if it
\* is in F, and what both stacks share counts the same.
LEMMA CountUp ==
    ASSUME NEW s, NEW F, NEW b \in Nat
    PROVE  /\ CountTo(s, b, F) \in Nat
           /\ CountTo(s, 0, F) = 0
           /\ CountTo(s, b + 1, F) = CountTo(s, b, F) + Bit(Fr(s, b + 1), F)
<1> DEFINE S == {h \in 1..b : Fr(s, h) \in F}
           S1 == {h \in 1..b + 1 : Fr(s, h) \in F}
<1>1. IsFiniteSet(S)
  <2>1. IsFiniteSet(1..b)
    BY FS_Interval
  <2> QED BY <2>1, FS_Subset
<1>2. Cardinality(S) \in Nat
  BY <1>1, FS_CardinalityType
<1>3. {h \in 1..0 : Fr(s, h) \in F} = {}
  OBVIOUS
<1>4. CountTo(s, 0, F) = 0
  BY <1>3, FS_EmptySet DEF CountTo
<1>5. b + 1 \notin S
  OBVIOUS
<1>6. CASE Fr(s, b + 1) \in F
  <2>1. S1 = S \cup {b + 1}
    BY <1>6
  <2>2. Cardinality(S \cup {b + 1}) = Cardinality(S) + 1
    BY <1>1, <1>5, FS_AddElement
  <2> QED BY <2>1, <2>2, <1>2, <1>4, <1>6 DEF CountTo, Bit
<1>7. CASE Fr(s, b + 1) \notin F
  <2>1. S1 = S
    BY <1>7
  <2> QED BY <2>1, <1>2, <1>4, <1>7 DEF CountTo, Bit
<1> QED BY <1>6, <1>7

LEMMA CountKept ==
    ASSUME NEW s, NEW t, NEW b, Kept(s, t, b), NEW F
    PROVE  CountTo(t, b, F) = CountTo(s, b, F) /\ CountTo(s, b, F) \in Nat
<1>1. {h \in 1..b : Fr(t, h) \in F} = {h \in 1..b : Fr(s, h) \in F}
  BY DEF Kept
<1>2. b \in Nat
  BY DEF Kept
<1> QED BY <1>1, <1>2, CountUp DEF CountTo

\* What the changes of a stack mean for a count.
LEMMA CountChanges ==
    ASSUME NEW s \in Seq(Frames), s # <<>>, NEW t, Len(t) \in Nat, NEW F
    PROVE  /\ CountIn(s, F) \in Nat
           /\ Bit(s[1], F) \in {0, 1}
           /\ Popped(s, t) => CountIn(t, F) = CountIn(s, F) - Bit(s[1], F)
           /\ \A f : Replaced(s, t, f) => CountIn(t, F) = CountIn(s, F) - Bit(s[1], F) + Bit(f, F)
           /\ \A f : Pushed(s, t, f) => CountIn(t, F) = CountIn(s, F) + Bit(f, F)
           /\ \A f, g : Doubled(s, t, f, g) =>
                 CountIn(t, F) = CountIn(s, F) - Bit(s[1], F) + Bit(g, F) + Bit(f, F)
<1>1. PICK n \in Nat : n + 1 = Len(s)
  <2>1. Len(s) \in Nat /\ Len(s) >= 1
    BY FrFacts
  <2>2. Len(s) - 1 \in Nat /\ (Len(s) - 1) + 1 = Len(s)
    BY <2>1
  <2> QED BY <2>2
<1>2. Fr(s, Len(s)) = s[1]
  BY FrFacts
<1>3. \A f : Bit(f, F) \in {0, 1}
  BY DEF Bit
<1>4. PICK c \in Nat : c = CountTo(s, n, F)
  BY CountUp
<1>5. CountIn(s, F) = c + Bit(s[1], F)
  <2>1. CountTo(s, n + 1, F) = CountTo(s, n, F) + Bit(Fr(s, n + 1), F)
    BY CountUp
  <2> QED BY <2>1, <1>1, <1>2, <1>4 DEF CountIn
<1>6. ASSUME Popped(s, t) PROVE CountIn(t, F) = c
  <2>1. Len(t) = n /\ Kept(s, t, n)
    BY <1>1, <1>6 DEF Popped
  <2> QED BY <2>1, <1>4, CountKept DEF CountIn
<1>7. ASSUME NEW f, Replaced(s, t, f) PROVE CountIn(t, F) = c + Bit(f, F)
  <2>1. Len(t) = n + 1 /\ Kept(s, t, n) /\ Fr(t, n + 1) = f
    BY <1>1, <1>7 DEF Replaced
  <2>2. CountTo(t, n, F) = c
    BY <2>1, <1>4, CountKept
  <2> QED BY <2>1, <2>2, CountUp DEF CountIn
<1>8. ASSUME NEW f, Pushed(s, t, f) PROVE CountIn(t, F) = CountIn(s, F) + Bit(f, F)
  <2>1. Len(t) = Len(s) + 1 /\ Kept(s, t, Len(s)) /\ Fr(t, Len(s) + 1) = f /\ Len(s) \in Nat
    BY <1>1, <1>8 DEF Pushed
  <2>2. CountTo(t, Len(s), F) = CountTo(s, Len(s), F)
    BY <2>1, CountKept
  <2> QED BY <2>1, <2>2, CountUp DEF CountIn
<1>9. ASSUME NEW f, NEW g, Doubled(s, t, f, g) PROVE CountIn(t, F) = c + Bit(g, F) + Bit(f, F)
  <2>1. Len(t) = n + 2 /\ Kept(s, t, n) /\ Fr(t, n + 1) = g /\ Fr(t, (n + 1) + 1) = f /\ n + 1 \in Nat
    BY <1>1, <1>9 DEF Doubled
  <2>2. CountTo(t, n, F) = c
    BY <2>1, <1>4, CountKept
  <2>3. CountTo(t, n + 1, F) = c + Bit(g, F)
    BY <2>1, <2>2, CountUp
  <2>4. CountTo(t, (n + 1) + 1, F) = CountTo(t, n + 1, F) + Bit(f, F)
    BY <2>1, CountUp
  <2>5. Len(t) = (n + 1) + 1
    BY <2>1
  <2> QED BY <2>3, <2>4, <2>5 DEF CountIn
<1> QED BY <1>3, <1>4, <1>5, <1>6, <1>7, <1>8, <1>9
-----------------------------------------------------------------------------
\* What frames contribute: the innermost frame and the rest of the stack.
LEMMA PartUp ==
    ASSUME NEW s, NEW i, NEW b \in Nat
    PROVE  PartTo(s, b + 1, i) = PartTo(s, b, i) \cup Part(Fr(s, b + 1), i)
<1>1. \A h : h \in 1..b + 1 <=> h \in 1..b \/ h = b + 1
  OBVIOUS
<1> QED BY <1>1 DEF PartTo

LEMMA PartKept ==
    ASSUME NEW s, NEW t, NEW b, Kept(s, t, b), NEW i
    PROVE  PartTo(t, b, i) = PartTo(s, b, i)
BY DEF Kept, PartTo

Below(s, i) == PartTo(s, Len(s) - 1, i)

LEMMA PartChanges ==
    ASSUME NEW s \in Seq(Frames), s # <<>>, NEW t, NEW i
    PROVE  /\ Parts(s, i) = Below(s, i) \cup Part(s[1], i)
           /\ Popped(s, t) => Parts(t, i) = Below(s, i)
           /\ \A f : Replaced(s, t, f) => Parts(t, i) = Below(s, i) \cup Part(f, i)
           /\ \A f : Pushed(s, t, f) => Parts(t, i) = Parts(s, i) \cup Part(f, i)
           /\ \A f, g : Doubled(s, t, f, g) =>
                 Parts(t, i) = Below(s, i) \cup Part(g, i) \cup Part(f, i)
<1>1. PICK n \in Nat : n + 1 = Len(s) /\ n = Len(s) - 1
  <2>1. Len(s) \in Nat /\ Len(s) >= 1
    BY FrFacts
  <2>2. Len(s) - 1 \in Nat /\ (Len(s) - 1) + 1 = Len(s)
    BY <2>1
  <2> QED BY <2>2
<1>2. Fr(s, n + 1) = s[1]
  BY <1>1, FrFacts
<1>3. PICK B : B = PartTo(s, n, i)
  OBVIOUS
<1>4. Below(s, i) = B
  BY <1>1, <1>3 DEF Below
<1>5. Parts(s, i) = B \cup Part(s[1], i)
  <2>1. PartTo(s, n + 1, i) = PartTo(s, n, i) \cup Part(Fr(s, n + 1), i)
    BY PartUp
  <2> QED BY <2>1, <1>1, <1>2, <1>3 DEF Parts
<1>6. ASSUME Popped(s, t) PROVE Parts(t, i) = B
  <2>1. Len(t) = n /\ Kept(s, t, n)
    BY <1>1, <1>6 DEF Popped
  <2> QED BY <2>1, <1>3, PartKept DEF Parts
<1>7. ASSUME NEW f, Replaced(s, t, f) PROVE Parts(t, i) = B \cup Part(f, i)
  <2>1. Len(t) = n + 1 /\ Kept(s, t, n) /\ Fr(t, n + 1) = f
    BY <1>1, <1>7 DEF Replaced
  <2>2. PartTo(t, n, i) = B
    BY <2>1, <1>3, PartKept
  <2>3. PartTo(t, n + 1, i) = PartTo(t, n, i) \cup Part(Fr(t, n + 1), i)
    BY PartUp
  <2> QED BY <2>1, <2>2, <2>3 DEF Parts
<1>8. ASSUME NEW f, Pushed(s, t, f) PROVE Parts(t, i) = Parts(s, i) \cup Part(f, i)
  <2>1. Len(t) = Len(s) + 1 /\ Kept(s, t, Len(s)) /\ Fr(t, Len(s) + 1) = f /\ Len(s) \in Nat
    BY <1>1, <1>8 DEF Pushed
  <2>2. PartTo(t, Len(s), i) = PartTo(s, Len(s), i)
    BY <2>1, PartKept
  <2>3. PartTo(t, Len(s) + 1, i) = PartTo(t, Len(s), i) \cup Part(Fr(t, Len(s) + 1), i)
    BY <2>1, PartUp
  <2> QED BY <2>1, <2>2, <2>3 DEF Parts
<1>9. ASSUME NEW f, NEW g, Doubled(s, t, f, g) PROVE Parts(t, i) = B \cup Part(g, i) \cup Part(f, i)
  <2>1. Len(t) = (n + 1) + 1 /\ Kept(s, t, n) /\ Fr(t, n + 1) = g /\ Fr(t, (n + 1) + 1) = f /\ n + 1 \in Nat
    BY <1>1, <1>9 DEF Doubled
  <2>2. PartTo(t, n, i) = B
    BY <2>1, <1>3, PartKept
  <2>3. PartTo(t, n + 1, i) = B \cup Part(g, i)
    BY <2>1, <2>2, PartUp
  <2>4. PartTo(t, (n + 1) + 1, i) = PartTo(t, n + 1, i) \cup Part(Fr(t, (n + 1) + 1), i)
    BY <2>1, PartUp
  <2> QED BY <2>1, <2>3, <2>4 DEF Parts
<1> QED BY <1>4, <1>5, <1>6, <1>7, <1>8, <1>9

LEMMA PartMember ==
    ASSUME NEW s, NEW i, NEW x
    PROVE  x \in Parts(s, i) <=> \E h \in 1..Len(s) : x \in Part(Fr(s, h), i)
BY DEF Parts, PartTo

\* The sets and counts of the model, by height.
LEMMA ByHeight ==
    ASSUME NEW s \in Seq(Frames)
    PROVE  /\ \A x : (\E k \in DOMAIN s : x = s[k]) <=> (\E h \in 1..Len(s) : x = Fr(s, h))
           /\ \A F : Cardinality({k \in DOMAIN s : s[k] \in F}) = CountIn(s, F)
<1>1. DOMAIN s = 1..Len(s) /\ Len(s) \in Nat
  OBVIOUS
<1>2. ASSUME NEW x PROVE (\E k \in DOMAIN s : x = s[k]) <=> (\E h \in 1..Len(s) : x = Fr(s, h))
  <2>1. ASSUME NEW k \in DOMAIN s PROVE \E h \in 1..Len(s) : s[k] = Fr(s, h)
    <3>1. Len(s) + 1 - k \in 1..Len(s) /\ Len(s) + 1 - (Len(s) + 1 - k) = k
      BY <1>1
    <3> QED BY <3>1 DEF Fr
  <2>2. ASSUME NEW h \in 1..Len(s) PROVE \E k \in DOMAIN s : Fr(s, h) = s[k]
    <3>1. Len(s) + 1 - h \in DOMAIN s
      BY <1>1
    <3> QED BY <3>1 DEF Fr
  <2> QED BY <2>1, <2>2
<1>3. ASSUME NEW F PROVE Cardinality({k \in DOMAIN s : s[k] \in F}) = CountIn(s, F)
  <2> DEFINE S == {k \in DOMAIN s : s[k] \in F}
             T == {h \in 1..Len(s) : Fr(s, h) \in F}
             f == [k \in S |-> Len(s) + 1 - k]
  <2>1. IsFiniteSet(S)
    <3>1. IsFiniteSet(1..Len(s))
      BY <1>1, FS_Interval
    <3> QED BY <3>1, <1>1, FS_Subset
  <2>2. ASSUME NEW k \in S PROVE Len(s) + 1 - k \in T
    <3>1. Len(s) + 1 - k \in 1..Len(s) /\ Len(s) + 1 - (Len(s) + 1 - k) = k
      BY <1>1
    <3> QED BY <3>1 DEF Fr
  <2>3. ASSUME NEW h \in T PROVE Len(s) + 1 - h \in S /\ Len(s) + 1 - (Len(s) + 1 - h) = h
    <3>1. Len(s) + 1 - h \in 1..Len(s) /\ Len(s) + 1 - (Len(s) + 1 - h) = h
      BY <1>1
    <3> QED BY <3>1, <1>1 DEF Fr
  <2>4. \A k \in S : f[k] \in T
    BY <2>2
  <2>5. \A h \in T : \E k \in S : f[k] = h
    BY <2>3
  <2>6. \A j, k \in S : f[j] = f[k] => j = k
    BY <1>1
  <2>7. f \in [S -> T]
    BY <2>4
  <2>8. f \in Bijection(S, T)
    <3> HIDE DEF S, T, f
    <3> QED BY <2>5, <2>6, <2>7 DEF Bijection, Injection, Surjection, IsInjective
  <2>9. ExistsBijection(S, T)
    BY <2>8 DEF ExistsBijection
  <2> QED BY <2>1, <2>9, FS_Bijection DEF CountIn, CountTo
<1> QED BY <1>2, <1>3
-----------------------------------------------------------------------------
\* The other counts: what one assignment changes.
LEMMA VarSet ==
    ASSUME NEW f \in [Vars -> Zvals \cup {0}], NEW v \in Vars, NEW x \in Zvals \cup {0}, NEW z
    PROVE  /\ VarRefs(f, z) \in Nat
           /\ z # f[v] /\ z = x => VarRefs([f EXCEPT ![v] = x], z) = VarRefs(f, z) + 1
           /\ z = f[v] /\ z # x => VarRefs([f EXCEPT ![v] = x], z) = VarRefs(f, z) - 1
           /\ z # f[v] /\ z # x => VarRefs([f EXCEPT ![v] = x], z) = VarRefs(f, z)
<1>1. PICK g : g = [f EXCEPT ![v] = x]
  OBVIOUS
<1>2. g[v] = x /\ \A u \in Vars \ {v} : g[u] = f[u]
  BY <1>1
<1> DEFINE A == {u \in Vars : f[u] = z}
           B == {u \in Vars : g[u] = z}
<1>3. IsFiniteSet(A) /\ IsFiniteSet(B) /\ Cardinality(A) \in Nat
  BY Sizes, FS_Subset, FS_CardinalityType
<1>4. ASSUME f[v] = z, z # x PROVE Cardinality(B) = Cardinality(A) - 1
  <2>1. B = A \ {v} /\ v \in A
    BY <1>2, <1>4
  <2> HIDE DEF A, B
  <2> QED BY <2>1, <1>3, FS_RemoveElement
<1>5. ASSUME f[v] # z, z = x PROVE Cardinality(B) = Cardinality(A) + 1
  <2>1. B = A \cup {v} /\ v \notin A
    BY <1>2, <1>5
  <2> HIDE DEF A, B
  <2> QED BY <2>1, <1>3, FS_AddElement
<1>6. ASSUME f[v] # z, z # x PROVE B = A
  BY <1>2, <1>6
<1>7. VarRefs(f, z) = Cardinality(A) /\ VarRefs(g, z) = Cardinality(B)
  BY DEF VarRefs
<1> HIDE DEF A, B
<1> QED BY <1>1, <1>3, <1>4, <1>5, <1>6, <1>7

LEMMA ElemSet ==
    ASSUME NEW f \in [Nodes -> SUBSET Zvals], NEW c \in Nodes, NEW T \in SUBSET Zvals, NEW z
    PROVE  /\ ElemRefs(f, z) \in Nat
           /\ z \notin f[c] /\ z \in T => ElemRefs([f EXCEPT ![c] = T], z) = ElemRefs(f, z) + 1
           /\ z \in f[c] /\ z \notin T => ElemRefs([f EXCEPT ![c] = T], z) = ElemRefs(f, z) - 1
           /\ (z \in f[c] <=> z \in T) => ElemRefs([f EXCEPT ![c] = T], z) = ElemRefs(f, z)
<1>1. PICK g : g = [f EXCEPT ![c] = T]
  OBVIOUS
<1>2. g[c] = T /\ \A n \in Nodes \ {c} : g[n] = f[n]
  BY <1>1
<1> DEFINE A == {n \in Nodes : z \in f[n]}
           B == {n \in Nodes : z \in g[n]}
<1>3. IsFiniteSet(A) /\ IsFiniteSet(B) /\ Cardinality(A) \in Nat
  BY Sizes, FS_Subset, FS_CardinalityType
<1>4. ASSUME z \in f[c], z \notin T PROVE Cardinality(B) = Cardinality(A) - 1
  <2>1. B = A \ {c} /\ c \in A
    BY <1>2, <1>4
  <2> HIDE DEF A, B
  <2> QED BY <2>1, <1>3, FS_RemoveElement
<1>5. ASSUME z \notin f[c], z \in T PROVE Cardinality(B) = Cardinality(A) + 1
  <2>1. B = A \cup {c} /\ c \notin A
    BY <1>2, <1>5
  <2> HIDE DEF A, B
  <2> QED BY <2>1, <1>3, FS_AddElement
<1>6. ASSUME z \in f[c] <=> z \in T PROVE B = A
  BY <1>2, <1>6
<1>7. ElemRefs(f, z) = Cardinality(A) /\ ElemRefs(g, z) = Cardinality(B)
  BY DEF ElemRefs
<1> HIDE DEF A, B
<1> QED BY <1>1, <1>3, <1>4, <1>5, <1>6, <1>7

\* A count is zero exactly where there is nothing to count.
LEMMA NoneCounted ==
    /\ \A f, z : VarRefs(f, z) \in Nat /\ (VarRefs(f, z) = 0 <=> \A v \in Vars : f[v] # z)
    /\ \A f, z : ElemRefs(f, z) \in Nat /\ (ElemRefs(f, z) = 0 <=> \A n \in Nodes : z \notin f[n])
    /\ \A s, F : Len(s) \in Nat =>
          CountIn(s, F) \in Nat /\ (CountIn(s, F) = 0 <=> \A h \in 1..Len(s) : Fr(s, h) \notin F)
<1>1. ASSUME NEW f, NEW z
      PROVE  VarRefs(f, z) \in Nat /\ (VarRefs(f, z) = 0 <=> \A v \in Vars : f[v] # z)
  <2>1. IsFiniteSet({v \in Vars : f[v] = z})
    BY Sizes, FS_Subset
  <2> QED BY <2>1, FS_EmptySet, FS_CardinalityType DEF VarRefs
<1>2. ASSUME NEW f, NEW z
      PROVE  ElemRefs(f, z) \in Nat /\ (ElemRefs(f, z) = 0 <=> \A n \in Nodes : z \notin f[n])
  <2>1. IsFiniteSet({n \in Nodes : z \in f[n]})
    BY Sizes, FS_Subset
  <2> QED BY <2>1, FS_EmptySet, FS_CardinalityType DEF ElemRefs
<1>3. ASSUME NEW s, NEW F, Len(s) \in Nat
      PROVE  CountIn(s, F) \in Nat /\ (CountIn(s, F) = 0 <=> \A h \in 1..Len(s) : Fr(s, h) \notin F)
  <2>1. IsFiniteSet(1..Len(s))
    BY <1>3, FS_Interval
  <2>2. IsFiniteSet({h \in 1..Len(s) : Fr(s, h) \in F})
    BY <2>1, FS_Subset
  <2> QED BY <2>2, FS_EmptySet, FS_CardinalityType DEF CountIn, CountTo
<1> QED BY <1>1, <1>2, <1>3

\* Where a count is one, what it counts is unique.
LEMMA OneCounted ==
    ASSUME NEW s, Len(s) \in Nat, NEW F, CountIn(s, F) <= 1,
           NEW h \in 1..Len(s), NEW j \in 1..Len(s), Fr(s, h) \in F, Fr(s, j) \in F
    PROVE  h = j
<1> DEFINE S == {k \in 1..Len(s) : Fr(s, k) \in F}
<1>1. IsFiniteSet(1..Len(s))
  BY FS_Interval
<1>2. IsFiniteSet(S)
  BY <1>1, FS_Subset
<1>3. Cardinality(S \ {j}) = Cardinality(S) - 1 /\ IsFiniteSet(S \ {j}) /\ Cardinality(S) \in Nat
  BY <1>2, FS_RemoveElement, FS_CardinalityType
<1>4. Cardinality(S) <= 1
  BY DEF CountIn, CountTo
<1>5. Cardinality(S \ {j}) \in Nat
  BY <1>3, FS_CardinalityType
<1>6. S \ {j} = {}
  <2>1. Cardinality(S \ {j}) = 0
    <3> HIDE DEF S
    <3> QED BY <1>3, <1>4, <1>5
  <2> QED BY <2>1, <1>3, FS_EmptySet
<1> QED BY <1>6
-----------------------------------------------------------------------------
\* A frame as it is made.
LEMMA FrameFields ==
    ASSUME NEW l \in Labels, NEW n \in Nodes \cup {0}, NEW z \in Zvals \cup {0}
    PROVE  /\ Frame(l, n, z) \in Frames
           /\ Frame(l, n, z).at = l /\ Frame(l, n, z).n = n /\ Frame(l, n, z).z = z
           /\ Frame(l, n, z).todo = {} /\ Frame(l, n, z).list = {} /\ ~ Frame(l, n, z).check
BY DEF Frame, Frames

\* What the model defines about the stack, in terms of Parts and CountIn.
LEMMA SetViews ==
    ASSUME NEW s \in Seq(Frames)
    PROVE  /\ UNION {s[k].list : k \in DOMAIN s} = Parts(s, 1)
           /\ {s[k].z : k \in {j \in DOMAIN s : s[j].at = "free"}} = Parts(s, 2)
           /\ \A o : (\E k \in DOMAIN s : s[k].at = "storage" /\ s[k].n = o)
                  <=> (\E h \in 1..Len(s) : Fr(s, h).at = "storage" /\ Fr(s, h).n = o)
<1>1. \A x : (\E k \in DOMAIN s : x = s[k]) <=> (\E h \in 1..Len(s) : x = Fr(s, h))
  BY ByHeight
<1>2. DOMAIN s = 1..Len(s) /\ \A k \in DOMAIN s : s[k] \in Frames
  OBVIOUS
<1>3. ASSUME NEW z PROVE z \in UNION {s[k].list : k \in DOMAIN s} <=> z \in Parts(s, 1)
  <2>1. z \in UNION {s[k].list : k \in DOMAIN s} <=> \E k \in DOMAIN s : z \in s[k].list
    OBVIOUS
  <2>2. z \in Parts(s, 1) <=> \E h \in 1..Len(s) : z \in Fr(s, h).list
    BY PartMember DEF Part
  <2> QED BY <2>1, <2>2, <1>1, Zenon
<1>4. ASSUME NEW z
      PROVE  z \in {s[k].z : k \in {j \in DOMAIN s : s[j].at = "free"}} <=> z \in Parts(s, 2)
  <2>1. z \in {s[k].z : k \in {j \in DOMAIN s : s[j].at = "free"}}
            <=> \E k \in DOMAIN s : s[k].at = "free" /\ z = s[k].z
    OBVIOUS
  <2>2. z \in Parts(s, 2) <=> \E h \in 1..Len(s) : Fr(s, h).at = "free" /\ z = Fr(s, h).z
    <3>1. \A f : z \in Part(f, 2) <=> f.at = "free" /\ z = f.z
      BY DEF Part
    <3>2. z \in Parts(s, 2) <=> \E h \in 1..Len(s) : z \in Part(Fr(s, h), 2)
      BY PartMember
    <3> QED BY <3>1, <3>2
  <2>3. ASSUME NEW k \in DOMAIN s, s[k].at = "free", z = s[k].z
        PROVE  \E h \in 1..Len(s) : Fr(s, h).at = "free" /\ z = Fr(s, h).z
    BY <1>1, <2>3
  <2>4. ASSUME NEW h \in 1..Len(s), Fr(s, h).at = "free", z = Fr(s, h).z
        PROVE  \E k \in DOMAIN s : s[k].at = "free" /\ z = s[k].z
    BY <1>1, <2>4
  <2> QED BY <2>1, <2>2, <2>3, <2>4, Zenon
<1>5. ASSUME NEW o
      PROVE  (\E k \in DOMAIN s : s[k].at = "storage" /\ s[k].n = o)
                  <=> (\E h \in 1..Len(s) : Fr(s, h).at = "storage" /\ Fr(s, h).n = o)
  BY <1>1, Zenon
<1> QED BY <1>3, <1>4, <1>5

LEMMA StackViews ==
    ASSUME stack \in Seq(Frames)
    PROVE  /\ Listed = Parts(stack, 1) /\ Dying = Parts(stack, 2)
           /\ \A z : FrameRefs(z) = CountIn(stack, RefFrames(z))
           /\ \A o : FrameHolds(o) = CountIn(stack, HoldFrames(o))
<1>1. DOMAIN stack = 1..Len(stack) /\ \A k \in DOMAIN stack : stack[k] \in Frames
  OBVIOUS
<1>2. Listed = Parts(stack, 1) /\ Dying = Parts(stack, 2)
  BY SetViews, Zenon DEF Listed, Dying
<1>3. ASSUME NEW z PROVE FrameRefs(z) = CountIn(stack, RefFrames(z))
  <2>1. {k \in DOMAIN stack : \/ z \in stack[k].todo /\ stack[k].at # "destroy"
                              \/ z = stack[k].z /\ stack[k].at \in {"ptr_dtor", "resume"}}
        = {k \in DOMAIN stack : stack[k] \in RefFrames(z)}
    BY <1>1 DEF RefFrames, Refers
  <2> QED BY <2>1, ByHeight, Zenon DEF FrameRefs
<1>4. ASSUME NEW o PROVE FrameHolds(o) = CountIn(stack, HoldFrames(o))
  <2>1. {k \in DOMAIN stack : /\ stack[k].n = o
                              /\ stack[k].at \in {"body", "del_ref", "destructed", "storage", "destructors"}}
        = {k \in DOMAIN stack : stack[k] \in HoldFrames(o)}
    BY <1>1 DEF HoldFrames, Holds, HoldLabels
  <2> QED BY <2>1, ByHeight, Zenon DEF FrameHolds
<1> QED BY <1>2, <1>3, <1>4

\* ... and after a step.
LEMMA NextViews ==
    stack' \in Seq(Frames) => Listed' = Parts(stack', 1) /\ Dying' = Parts(stack', 2)
BY SetViews, Zenon DEF Listed, Dying
-----------------------------------------------------------------------------
\* A step keeps the frames up to height b and puts frames of N above them.
Moves(s, t, b, N) ==
    /\ Kept(s, t, b) /\ Len(s) \in Nat /\ Len(t) \in Nat /\ Len(s) <= b + 1
    /\ \A h \in 1..Len(t) : h <= b \/ Fr(t, h) \in N

LEMMA AllMoves ==
    ASSUME NEW s \in Seq(Frames), s # <<>>, NEW t \in Seq(Frames)
    PROVE  /\ Popped(s, t) => Moves(s, t, Len(s) - 1, {})
           /\ \A f : Replaced(s, t, f) => Moves(s, t, Len(s) - 1, {f})
           /\ \A f : Pushed(s, t, f) => Moves(s, t, Len(s), {f})
           /\ \A f, g : Doubled(s, t, f, g) => Moves(s, t, Len(s) - 1, {f, g})
           /\ t = s => Moves(s, t, Len(s), {})
<1>1. Len(s) \in Nat /\ Len(s) >= 1 /\ Len(t) \in Nat
  BY FrFacts
<1>2. Popped(s, t) => Moves(s, t, Len(s) - 1, {})
  BY <1>1 DEF Popped, Moves, Kept
<1>3. ASSUME NEW f, Replaced(s, t, f) PROVE Moves(s, t, Len(s) - 1, {f})
  <2>1. \A h \in 1..Len(t) : h <= Len(s) - 1 \/ h = Len(t)
    BY <1>1, <1>3 DEF Replaced
  <2> QED BY <1>1, <1>3, <2>1 DEF Replaced, Moves, Kept
<1>4. ASSUME NEW f, Pushed(s, t, f) PROVE Moves(s, t, Len(s), {f})
  <2>1. \A h \in 1..Len(t) : h <= Len(s) \/ h = Len(t)
    BY <1>1, <1>4 DEF Pushed
  <2> QED BY <1>1, <1>4, <2>1 DEF Pushed, Moves, Kept
<1>5. ASSUME NEW f, NEW g, Doubled(s, t, f, g) PROVE Moves(s, t, Len(s) - 1, {f, g})
  <2>1. \A h \in 1..Len(t) : h <= Len(s) - 1 \/ h = Len(t) \/ h = Len(s)
    BY <1>1, <1>5 DEF Doubled
  <2> QED BY <1>1, <1>5, <2>1 DEF Doubled, Moves, Kept
<1>6. t = s => Moves(s, t, Len(s), {})
  BY <1>1 DEF Moves, Kept
<1> QED BY <1>2, <1>3, <1>4, <1>5, <1>6

\* Membership, by height.
Views == /\ \A z : z \in Listed <=> \E h \in 1..Len(stack) : z \in Fr(stack, h).list
         /\ \A z : z \in Dying <=> \E h \in 1..Len(stack) : Fr(stack, h).at = "free" /\ z = Fr(stack, h).z

LEMMA ViewsOK == stack \in Seq(Frames) => Views
<1> SUFFICES ASSUME stack \in Seq(Frames) PROVE Views
  OBVIOUS
<1>1. Listed = Parts(stack, 1) /\ Dying = Parts(stack, 2)
  BY StackViews
<1>2. \A z : z \in Parts(stack, 1) <=> \E h \in 1..Len(stack) : z \in Part(Fr(stack, h), 1)
  BY PartMember
<1>3. \A z : z \in Parts(stack, 2) <=> \E h \in 1..Len(stack) : z \in Part(Fr(stack, h), 2)
  BY PartMember
<1>4. \A f, z : /\ z \in Part(f, 1) <=> z \in f.list
                /\ z \in Part(f, 2) <=> f.at = "free" /\ z = f.z
  BY DEF Part
<1> QED BY <1>1, <1>2, <1>3, <1>4, Zenon DEF Views

\* What every step may take for granted.
FrTypes == \A h \in 1..Len(stack) : Fr(stack, h) \in Frames

LEMMA Context ==
    ASSUME IInv, Sound
    PROVE  /\ TypeOK /\ Inv /\ FrTypes
           /\ stack \in Seq(Frames) /\ stack # <<>>
           /\ \E n \in Nat : Len(stack) = n + 1 /\ Fr(stack, n + 1) = Top /\ Len(stack) - 1 = n
                             /\ (Top.at # "main" => n >= 1)
           /\ Top = stack[1] /\ Top \in Frames /\ FieldsOK(Top)
           /\ Listed = Parts(stack, 1) /\ Dying = Parts(stack, 2) /\ Views
<1>1. TypeOK /\ Inv
  BY DEF IInv
<1>2. stack \in Seq(Frames) /\ stack # <<>>
  BY <1>1 DEF TypeOK
<1>3. /\ Len(stack) \in Nat /\ Len(stack) >= 1 /\ Top = stack[1] /\ Top = Fr(stack, Len(stack))
      /\ Top \in Frames /\ FrTypes
  BY <1>2, FrFacts DEF Top, FrTypes
<1>4. PICK n \in Nat : Len(stack) = n + 1
  <2>1. Len(stack) - 1 \in Nat /\ Len(stack) = (Len(stack) - 1) + 1
    BY <1>3
  <2> QED BY <2>1
<1>5. Fr(stack, n + 1) = Top /\ Len(stack) - 1 = n
  BY <1>3, <1>4
<1>6. FieldsOK(Top) /\ (Top.at = "main" <=> n + 1 = 1)
  <2>1. n + 1 \in 1..Len(stack)
    BY <1>4
  <2> QED BY <2>1, <1>1, <1>5 DEF Inv, Shape
<1>7. Top.at # "main" => n >= 1
  BY <1>6
<1>8. Views
  BY <1>2, ViewsOK
<1> QED BY <1>1, <1>2, <1>3, <1>4, <1>5, <1>6, <1>7, <1>8, StackViews, Zenon

\* The shape of the stack, by the form of the step.
LEMMA ShapeSteps ==
    ASSUME NEW n \in Nat, Len(stack) = n + 1, Shape, NEW top, Fr(stack, n + 1) = top
    PROVE  /\ Popped(stack, stack') /\ top.at # "main" => Shape' /\ Len(stack') >= 1
           /\ \A f : Replaced(stack, stack', f) /\ top.at # "main"
                        /\ FieldsOK(f) /\ f.at # "main" => Shape'
           /\ \A f : Pushed(stack, stack', f) /\ Calls(top)
                        /\ FieldsOK(f) /\ f.at # "main" => Shape'
           /\ \A f, g : Doubled(stack, stack', f, g) /\ top.at # "main"
                        /\ FieldsOK(f) /\ f.at # "main"
                        /\ FieldsOK(g) /\ g.at # "main" /\ Calls(g) => Shape'
<1>1. /\ \A h \in 1..n + 1 : FieldsOK(Fr(stack, h)) /\ (Fr(stack, h).at = "main" <=> h = 1)
      /\ \A h \in 1..n : Calls(Fr(stack, h))
  BY DEF Shape
<1>2. top.at # "main" => n >= 1
  BY <1>1
<1>3. \A h \in 1..n : h \in 1..n + 1
  OBVIOUS
<1>4. ASSUME Popped(stack, stack'), top.at # "main" PROVE Shape' /\ Len(stack') >= 1
  <2>1. Len(stack') = n /\ \A h \in 1..n : Fr(stack', h) = Fr(stack, h)
    BY <1>4 DEF Popped, Kept
  <2>2. /\ \A h \in 1..n : FieldsOK(Fr(stack', h)) /\ (Fr(stack', h).at = "main" <=> h = 1)
        /\ \A h \in 1..n - 1 : Calls(Fr(stack', h))
    BY <1>1, <2>1
  <2> QED BY <2>1, <2>2, <1>2, <1>4 DEF Shape
<1>5. ASSUME NEW f, Replaced(stack, stack', f), top.at # "main", FieldsOK(f), f.at # "main"
      PROVE  Shape'
  <2>1. Len(stack') = n + 1 /\ Fr(stack', n + 1) = f /\ \A h \in 1..n : Fr(stack', h) = Fr(stack, h)
    BY <1>5 DEF Replaced, Kept
  <2>2. /\ \A h \in 1..n + 1 : FieldsOK(Fr(stack', h)) /\ (Fr(stack', h).at = "main" <=> h = 1)
        /\ \A h \in 1..n : Calls(Fr(stack', h))
    BY <1>1, <1>2, <1>5, <2>1
  <2> QED BY <2>1, <2>2 DEF Shape
<1>6. ASSUME NEW f, Pushed(stack, stack', f), Calls(top), FieldsOK(f), f.at # "main"
      PROVE  Shape'
  <2>1. /\ Len(stack') = n + 2 /\ Fr(stack', n + 2) = f
        /\ \A h \in 1..n + 1 : Fr(stack', h) = Fr(stack, h)
    BY <1>6 DEF Pushed, Kept
  <2>2. /\ \A h \in 1..n + 2 : FieldsOK(Fr(stack', h)) /\ (Fr(stack', h).at = "main" <=> h = 1)
        /\ \A h \in 1..n + 1 : Calls(Fr(stack', h))
    BY <1>1, <1>6, <2>1
  <2> QED BY <2>1, <2>2 DEF Shape
<1>7. ASSUME NEW f, NEW g, Doubled(stack, stack', f, g), top.at # "main",
             FieldsOK(f), f.at # "main", FieldsOK(g), g.at # "main", Calls(g)
      PROVE  Shape'
  <2>1. /\ Len(stack') = n + 2 /\ Fr(stack', n + 2) = f /\ Fr(stack', n + 1) = g
        /\ \A h \in 1..n : Fr(stack', h) = Fr(stack, h)
    BY <1>7 DEF Doubled, Kept
  <2>2. n >= 1
    BY <1>2, <1>7
  <2>3. \A h \in 1..n + 2 : h \in 1..n \/ h = n + 1 \/ h = n + 2
    OBVIOUS
  <2>4. \A h \in 1..n + 2 : FieldsOK(Fr(stack', h)) /\ (Fr(stack', h).at = "main" <=> h = 1)
    BY <1>1, <1>3, <1>7, <2>1, <2>2, <2>3
  <2>5. \A h \in 1..n + 1 : Calls(Fr(stack', h))
    BY <1>1, <1>7, <2>1
  <2> QED BY <2>1, <2>4, <2>5 DEF Shape
<1> QED BY <1>4, <1>5, <1>6, <1>7
-----------------------------------------------------------------------------
\* The parts of the invariant that speak of frames: a step keeps them if it keeps
\* what the remaining frames rely on and the new frames are in order.

LEMMA MovesFacts ==
    ASSUME NEW s, NEW t, NEW b, NEW N, Moves(s, t, b, N)
    PROVE  \A h \in 1..Len(t) : \/ h \in 1..b /\ h \in 1..Len(s) /\ Fr(t, h) = Fr(s, h)
                                \/ h > b /\ Fr(t, h) \in N
BY DEF Moves, Kept

LEMMA FramesHoldMove ==
    ASSUME NEW b, NEW N, Moves(stack, stack', b, N), FrTypes, FramesHold,
           \A z \in Zvals : kind[z] # "none" => kind'[z] # "none",
           \A f \in N : \A e \in f.todo \cup f.list : kind'[e] # "none"
    PROVE  FramesHold'
<1>1. \A h \in 1..Len(stack) : Fr(stack, h).todo \cup Fr(stack, h).list \subseteq Zvals
  BY DEF FrTypes, Frames
<1> QED BY <1>1, MovesFacts DEF FramesHold

LEMMA HeldValidMove ==
    ASSUME NEW b, NEW N, Moves(stack, stack', b, N), HeldValid, valid \subseteq valid',
           \A f \in N : \A o \in Objs : Holds(f, o) => o \in valid'
    PROVE  HeldValid'
BY MovesFacts DEF HeldValid

LEMMA StorageMove ==
    ASSUME NEW b, NEW N, Moves(stack, stack', b, N), StorageOK,
           \A h \in 1..b : Fr(stack, h).at \in {"destructed", "storage"} =>
               /\ Fr(stack, h).n \in called => Fr(stack, h).n \in called'
               /\ Fr(stack, h).at = "storage" => /\ rc'[Fr(stack, h).n] = rc[Fr(stack, h).n]
                                                 /\ elems'[Fr(stack, h).n] \subseteq elems[Fr(stack, h).n],
           \A f \in N : f.at \in {"destructed", "storage"} =>
               /\ f.n \in called'
               /\ f.at = "storage" => rc'[f.n] = 1 /\ elems'[f.n] = {}
    PROVE  StorageOK'
BY MovesFacts DEF StorageOK

LEMMA NamedMove ==
    ASSUME NEW b, NEW N, Moves(stack, stack', b, N), FrTypes, NamedZvals,
           \A z \in Zvals : kind[z] # "none" => kind'[z] # "none",
           Listed' \subseteq Listed,
           \A f \in N : f.at \in {"ptr_dtor", "root", "resume"} /\ f.z # 0 =>
                /\ kind'[f.z] # "none"
                /\ f.at = "resume" => f.z \notin Listed'
    PROVE  NamedZvals'
<1>1. \A h \in 1..Len(stack) : Fr(stack, h).z # 0 => Fr(stack, h).z \in Zvals
  BY DEF FrTypes, Frames
<1> QED BY <1>1, MovesFacts DEF NamedZvals

LEMMA RootArraysMove ==
    ASSUME NEW b, NEW N, Moves(stack, stack', b, N), RootArrays,
           \A z \in Zvals : kind[z] = "array" => kind'[z] = "array",
           Dying' \subseteq Dying,
           \A f \in N : f.at \in {"root", "resume"} /\ f.n \in Zvals =>
                kind'[f.n] = "array" /\ f.n \notin Dying'
    PROVE  RootArrays'
BY MovesFacts DEF RootArrays

LEMMA OnFreeMove ==
    ASSUME NEW b, NEW N, Moves(stack, stack', b, N), OnFree,
           \A h \in 1..Len(stack') : h > b /\ Fr(stack', h).z # 0
                    /\ Fr(stack', h).at \in {"del_ref", "destructed", "storage"} =>
              \E j \in 1..h - 1 : Fr(stack', j).at = "free" /\ Fr(stack', j).z = Fr(stack', h).z
    PROVE  OnFree'
<1> SUFFICES ASSUME NEW h \in 1..Len(stack'), Fr(stack', h).z # 0,
                    Fr(stack', h).at \in {"del_ref", "destructed", "storage"}
             PROVE  \E j \in 1..h - 1 : Fr(stack', j).at = "free" /\ Fr(stack', j).z = Fr(stack', h).z
  BY DEF OnFree
<1>1. CASE h > b
  BY <1>1
<1>2. CASE ~ h > b
  <2>1. h \in 1..b /\ h \in 1..Len(stack) /\ Fr(stack', h) = Fr(stack, h)
    BY <1>2, MovesFacts
  <2>2. PICK j \in 1..h - 1 : Fr(stack, j).at = "free" /\ Fr(stack, j).z = Fr(stack, h).z
    BY <2>1 DEF OnFree
  <2>3. Fr(stack', j) = Fr(stack, j)
    BY <2>1 DEF Moves, Kept
  <2> QED BY <2>1, <2>2, <2>3
<1> QED BY <1>1, <1>2

LEMMA ReturnMove ==
    ASSUME NEW b, NEW N, Moves(stack, stack', b, N), ReturnOK,
           \A h \in 1..b : Fr(stack, h).at = "destructors" /\ Fr(stack, h).n # 0 =>
               /\ Fr(stack, h).n \in called => Fr(stack, h).n \in called'
               /\ Denoting(kind, to, Fr(stack, h).n) \cap Fr(stack, h).list
                     \subseteq Denoting(kind', to', Fr(stack, h).n),
           \A f \in N : f.at = "destructors" /\ f.n # 0 =>
                f.n \in called' /\ Denoting(kind', to', f.n) \cap f.list # {}
    PROVE  ReturnOK'
<1> SUFFICES ASSUME NEW h \in 1..Len(stack'), Fr(stack', h).at = "destructors", Fr(stack', h).n # 0
             PROVE  /\ Fr(stack', h).n \in called'
                    /\ Denoting(kind', to', Fr(stack', h).n) \cap Fr(stack', h).list # {}
  BY DEF ReturnOK
<1> QED BY MovesFacts DEF ReturnOK

LEMMA DyingFramesMove ==
    ASSUME NEW b, NEW N, Moves(stack, stack', b, N), DyingFrames, Views,
           \A f \in N : f.at # "free" /\ \A z \in Dying : Refers(f, z) => f.at = "resume"
    PROVE  DyingFrames'
<1> SUFFICES ASSUME NEW h \in 1..Len(stack'), Fr(stack', h).at = "free", NEW j \in 1..Len(stack')
             PROVE  /\ Refers(Fr(stack', j), Fr(stack', h).z) => j > h /\ Fr(stack', j).at = "resume"
                    /\ Fr(stack', j).at = "free" /\ Fr(stack', j).z = Fr(stack', h).z => j = h
  BY DEF DyingFrames
<1>1. h \in 1..b /\ h \in 1..Len(stack) /\ Fr(stack', h) = Fr(stack, h)
  BY MovesFacts
<1>2. Fr(stack, h).z \in Dying
  BY <1>1 DEF Views
<1>3. CASE j \in 1..b /\ j \in 1..Len(stack) /\ Fr(stack', j) = Fr(stack, j)
  BY <1>1, <1>3 DEF DyingFrames
<1>4. CASE j > b /\ Fr(stack', j) \in N
  <2>1. Fr(stack', j).at # "free"
    BY <1>4
  <2>2. Refers(Fr(stack', j), Fr(stack, h).z) => Fr(stack', j).at = "resume"
    BY <1>2, <1>4
  <2>3. j > h
    BY <1>1, <1>4 DEF Moves, Kept
  <2> QED BY <1>1, <2>1, <2>2, <2>3
<1> QED BY <1>3, <1>4, MovesFacts

LEMMA DisjointMove ==
    ASSUME NEW b, NEW N, Moves(stack, stack', b, N), Disjoint,
           \A h \in 1..Len(stack') : h > b /\ Fr(stack', h).list # {} =>
               h = b + 1 /\ h \in 1..Len(stack) /\ Fr(stack', h).list \subseteq Fr(stack, h).list
    PROVE  Disjoint'
<1>1. \A h \in 1..Len(stack') : Fr(stack', h).list # {} =>
          h \in 1..Len(stack) /\ Fr(stack', h).list \subseteq Fr(stack, h).list
  BY MovesFacts
<1> QED BY <1>1 DEF Disjoint

LEMMA CalledFirstMove ==
    ASSUME NEW b, NEW N, Moves(stack, stack', b, N), CalledFirst, Views, Shape,
           \A f \in N : f.at # "destroy",
           \A h \in 1..Len(stack) : Fr(stack, h).at = "destructors" =>
               /\ h \in 1..Len(stack') /\ Fr(stack', h).at = "destructors"
               /\ Fr(stack', h).list = Fr(stack, h).list,
           \A z \in Listed : kind'[z] = "object" /\ to'[z] \in valid' /\ rc'[to'[z]] = 0 =>
               /\ kind[z] = "object" /\ to'[z] = to[z] /\ to[z] \in valid /\ rc[to[z]] = 0
               /\ to[z] \in called => to[z] \in called',
           \A z \in Listed : kind[z] = "object" => kind'[z] = "object" /\ to'[z] = to[z]
    PROVE  CalledFirst'
<1> SUFFICES ASSUME NEW h \in 1..Len(stack'), Fr(stack', h).at = "destroy",
                    NEW z \in Fr(stack', h).todo,
                    kind'[z] = "object", to'[z] \in valid', rc'[to'[z]] = 0
             PROVE  \/ to'[z] \in called'
                    \/ \E j \in h + 1..Len(stack') : /\ Fr(stack', j).at = "destructors"
                                                     /\ Denoting(kind', to', to'[z]) \cap Fr(stack', j).list # {}
  BY DEF CalledFirst, Garbage
<1>1. h \in 1..b /\ h \in 1..Len(stack) /\ Fr(stack', h) = Fr(stack, h)
  BY MovesFacts
<1>2. z \in Fr(stack, h).list
  BY <1>1 DEF Shape, FieldsOK
<1>3. z \in Listed
  BY <1>1, <1>2 DEF Views
<1>4. kind[z] = "object" /\ to'[z] = to[z] /\ to[z] \in valid /\ rc[to[z]] = 0
      /\ (to[z] \in called => to[z] \in called')
  BY <1>3
<1>5. \/ to[z] \in called
      \/ \E j \in h + 1..Len(stack) : /\ Fr(stack, j).at = "destructors"
                                      /\ Denoting(kind, to, to[z]) \cap Fr(stack, j).list # {}
  BY <1>1, <1>4 DEF CalledFirst, Garbage
<1>6. ASSUME NEW j \in h + 1..Len(stack), Fr(stack, j).at = "destructors",
             Denoting(kind, to, to[z]) \cap Fr(stack, j).list # {}
      PROVE  /\ j \in h + 1..Len(stack') /\ Fr(stack', j).at = "destructors"
             /\ Denoting(kind', to', to[z]) \cap Fr(stack', j).list # {}
  <2>1. j \in 1..Len(stack)
    BY <1>1, <1>6
  <2>2. PICK y \in Fr(stack, j).list : y \in Zvals /\ kind[y] = "object" /\ to[y] = to[z]
    BY <1>6 DEF Denoting
  <2>3. y \in Listed
    BY <2>1 DEF Views
  <2>4. kind'[y] = "object" /\ to'[y] = to[z]
    BY <2>2, <2>3
  <2>5. j \in 1..Len(stack') /\ Fr(stack', j).at = "destructors" /\ Fr(stack', j).list = Fr(stack, j).list
    BY <2>1, <1>6
  <2> QED BY <2>2, <2>4, <2>5, <1>6 DEF Denoting
<1> QED BY <1>4, <1>5, <1>6

LEMMA SealedVarsMove ==
    ASSUME NEW b, NEW N, Moves(stack, stack', b, N), SealedVars, Views,
           \A v \in Vars : var'[v] \in Listed => var'[v] = var[v],
           \A f \in N : Sealing(f) => \A z \in f.list : \A v \in Vars : var'[v] # z
    PROVE  SealedVars'
<1> SUFFICES ASSUME NEW h \in 1..Len(stack'), Sealing(Fr(stack', h)),
                    NEW z \in Fr(stack', h).list, NEW v \in Vars, var'[v] = z
             PROVE  FALSE
  BY DEF SealedVars, Sealing
<1>1. h \in 1..b /\ h \in 1..Len(stack) /\ Fr(stack', h) = Fr(stack, h)
  BY MovesFacts
<1>2. z \in Listed
  BY <1>1 DEF Views
<1> QED BY <1>1, <1>2 DEF SealedVars

LEMMA SealedFramesMove ==
    ASSUME NEW b, NEW N, Moves(stack, stack', b, N), SealedFrames,
           \A h \in 1..Len(stack') : h > b /\ Sealing(Fr(stack', h)) =>
               \A z \in Fr(stack', h).list, j \in 1..Len(stack') : Refers(Fr(stack', j), z) => j > h
    PROVE  SealedFrames'
<1> SUFFICES ASSUME NEW h \in 1..Len(stack'), Sealing(Fr(stack', h)),
                    NEW z \in Fr(stack', h).list, NEW j \in 1..Len(stack'), Refers(Fr(stack', j), z)
             PROVE  j > h
  BY DEF SealedFrames, Sealing, Refers
<1>1. CASE h > b
  BY <1>1
<1>2. CASE h \in 1..b /\ h \in 1..Len(stack) /\ Fr(stack', h) = Fr(stack, h)
  <2>1. CASE j > b
    BY <1>2, <2>1 DEF Moves, Kept
  <2>2. CASE j \in 1..Len(stack) /\ Fr(stack', j) = Fr(stack, j)
    BY <1>2, <2>2 DEF SealedFrames
  <2> QED BY <2>1, <2>2, MovesFacts
<1> QED BY <1>1, <1>2, MovesFacts

LEMMA SealedElemsMove ==
    ASSUME NEW b, NEW N, Moves(stack, stack', b, N), SealedElems, Views, Shape,
           \A n \in Nodes : elems'[n] \cap Listed \subseteq elems[n],
           \A h \in 1..b : \A n \in Nodes : GivenBack(h, n) => elems'[n] = {},
           \A o \in valid : rc[o] = 0 =>
               /\ o \in valid' /\ rc'[o] = 0
               /\ Denoting(kind', to', o) \subseteq Denoting(kind, to, o)
               /\ Denoting(kind', to', o) \cap Dying \subseteq Dying'
               /\ Denoting(kind, to, o) \cap Listed \subseteq Denoting(kind', to', o),
           \A h \in 1..Len(stack') : h > b => ~ Sealing(Fr(stack', h))
    PROVE  SealedElems'
<1> SUFFICES ASSUME NEW h \in 1..Len(stack'), Sealing(Fr(stack', h)),
                    NEW z \in Fr(stack', h).list, NEW n \in Nodes, z \in elems'[n],
                    n \notin Fr(stack', h).list
             PROVE  /\ n \in valid' /\ rc'[n] = 0
                    /\ Denoting(kind', to', n) \subseteq Part(Fr(stack', h), 4) \cup Dying'
                    /\ Denoting(kind', to', n) \cap Part(Fr(stack', h), 4) # {}
  BY DEF SealedElems, Condemned, Sealing
<1>1. h \in 1..b /\ h \in 1..Len(stack) /\ Fr(stack', h) = Fr(stack, h)
  BY MovesFacts
<1>2. z \in Listed /\ z \in elems[n]
  BY <1>1 DEF Views
<1>3. n \in Condemned(Fr(stack, h)) \/ GivenBack(h, n)
  BY <1>1, <1>2 DEF SealedElems
<1>4. ~ GivenBack(h, n)
  BY <1>1
<1>5. /\ n \in valid /\ rc[n] = 0
      /\ Denoting(kind, to, n) \subseteq Part(Fr(stack, h), 4) \cup Dying
      /\ Denoting(kind, to, n) \cap Part(Fr(stack, h), 4) # {}
  BY <1>1, <1>3, <1>4 DEF Condemned
<1>6. Part(Fr(stack, h), 4) \subseteq Listed
  <2>1. FieldsOK(Fr(stack, h))
    BY <1>1 DEF Shape
  <2>2. Part(Fr(stack, h), 4) \subseteq Fr(stack, h).list
    BY <2>1 DEF FieldsOK, Part
  <2> QED BY <1>1, <2>2 DEF Views
<1> QED BY <1>1, <1>5, <1>6
-----------------------------------------------------------------------------
\* Steps that change the stack and perhaps the root buffer, and nothing else.
Still == UNCHANGED <<kind, to, elems, rc, valid, called, var>>

\* The new stack has the same lists, dying zvals and references.
SameParts == /\ Parts(stack', 1) = Parts(stack, 1) /\ Parts(stack', 2) = Parts(stack, 2)
             /\ Parts(stack', 3) = Parts(stack, 3) /\ Parts(stack', 4) = Parts(stack, 4)
SameRefs == \A z : CountIn(stack', RefFrames(z)) = CountIn(stack, RefFrames(z))
SameHolds == \A o : CountIn(stack', HoldFrames(o)) = CountIn(stack, HoldFrames(o))

\* A new frame of such a step.
Fresh(f) ==
    /\ f.at \notin {"destructed", "root", "resume", "destructors", "destroy"}
    /\ f.list = {} /\ \A e \in f.todo : kind[e] # "none"
    /\ \A o \in Objs : Holds(f, o) => o \in valid
    /\ f.at = "storage" => f.n \in called /\ rc[f.n] = 1 /\ elems[f.n] = {}
    /\ f.at = "ptr_dtor" => kind[f.z] # "none"

LEMMA StillStep ==
    ASSUME Inv, FrTypes, Views, stack \in Seq(Frames), stack' \in Seq(Frames),
           NEW b, NEW N, Moves(stack, stack', b, N), Shape', DyingFrames',
           Still, SameParts, SameRefs, SameHolds,
           \A f \in N : Fresh(f),
           \A h \in 1..Len(stack') : h > b /\ Fr(stack', h).z # 0
                    /\ Fr(stack', h).at \in {"del_ref", "destructed", "storage"} =>
              \E j \in 1..h - 1 : Fr(stack', j).at = "free" /\ Fr(stack', j).z = Fr(stack', h).z,
           \A h \in 1..Len(stack) : Fr(stack, h).at = "destructors" => h <= b,
           Top.at # "del_ref"
    PROVE  /\ HeapInv' /\ FrameInv' /\ DyingHeap' /\ DyingFrames'
           /\ Disjoint' /\ Pending' /\ CalledFirst' /\ SealInv'
<1>1. Listed' = Listed /\ Dying' = Dying
  BY StackViews, NextViews DEF SameParts
<1>2. /\ kind' = kind /\ to' = to /\ elems' = elems /\ rc' = rc /\ valid' = valid
      /\ called' = called /\ var' = var
  BY DEF Still
<1>3. Shape /\ HeapInv /\ FrameInv /\ DyingInv /\ ListInv /\ SealInv
  BY DEF Inv
<1>4. \A f \in N : /\ f.at \notin {"destructed", "root", "resume", "destructors", "destroy"}
                   /\ f.list = {} /\ ~ Sealing(f)
  BY DEF Fresh, Sealing
<1>5. HeapInv'
  <2>1. KindsOK' /\ NullsOK' /\ VarsHold' /\ ElemsHold' /\ ZvalsHold'
    BY <1>1, <1>2, <1>3 DEF HeapInv, KindsOK, NullsOK, VarsHold, ElemsHold, ZvalsHold, SameParts
  <2>2. ZvalCounts'
    BY <1>1, <1>2, <1>3 DEF HeapInv, ZvalCounts, SameRefs, ListRef
  <2>3. ObjCounts'
    <3>1. \A o \in valid : rc[o] = Cardinality(Counted(o)) + CountIn(stack, HoldFrames(o))
      BY <1>3 DEF HeapInv, ObjCounts
    <3> QED BY <1>1, <1>2, <3>1 DEF ObjCounts, SameHolds, Counted
  <2>4. FramesHold'
    <3>1. \A f \in N : \A e \in f.todo \cup f.list : kind'[e] # "none"
      BY <1>2 DEF Fresh
    <3>2. \A z \in Zvals : kind[z] # "none" => kind'[z] # "none"
      BY <1>2
    <3>3. FramesHold
      BY <1>3 DEF HeapInv
    <3> QED BY <3>1, <3>2, <3>3, FramesHoldMove
  <2> QED BY <2>1, <2>2, <2>3, <2>4 DEF HeapInv
<1>6. FrameInv'
  <2>1. HeldValid /\ StorageOK /\ NamedZvals /\ RootArrays /\ OnFree /\ ReturnOK
    BY <1>3 DEF FrameInv
  <2>2. HeldValid'
    <3>1. \A f \in N : \A o \in Objs : Holds(f, o) => o \in valid'
      BY <1>2 DEF Fresh
    <3>2. valid \subseteq valid'
      BY <1>2
    <3> QED BY <2>1, <3>1, <3>2, HeldValidMove
  <2>3. StorageOK'
    <3>1. \A f \in N : f.at \in {"destructed", "storage"} =>
               /\ f.n \in called'
               /\ f.at = "storage" => rc'[f.n] = 1 /\ elems'[f.n] = {}
      BY <1>2 DEF Fresh
    <3>2. \A h \in 1..b : Fr(stack, h).at \in {"destructed", "storage"} =>
               /\ Fr(stack, h).n \in called => Fr(stack, h).n \in called'
               /\ Fr(stack, h).at = "storage" => /\ rc'[Fr(stack, h).n] = rc[Fr(stack, h).n]
                                                 /\ elems'[Fr(stack, h).n] \subseteq elems[Fr(stack, h).n]
      BY <1>2
    <3> QED BY <2>1, <3>1, <3>2, StorageMove
  <2>4. NamedZvals'
    <3>1. \A f \in N : f.at \in {"ptr_dtor", "root", "resume"} /\ f.z # 0 =>
                /\ kind'[f.z] # "none"
                /\ f.at = "resume" => f.z \notin Listed'
      BY <1>2 DEF Fresh
    <3>2. /\ \A z \in Zvals : kind[z] # "none" => kind'[z] # "none"
          /\ Listed' \subseteq Listed
      BY <1>1, <1>2
    <3> QED BY <2>1, <3>1, <3>2, NamedMove
  <2>5. RootArrays'
    <3>1. \A f \in N : f.at \in {"root", "resume"} /\ f.n \in Zvals =>
                kind'[f.n] = "array" /\ f.n \notin Dying'
      BY <1>4
    <3>2. /\ \A z \in Zvals : kind[z] = "array" => kind'[z] = "array"
          /\ Dying' \subseteq Dying
      BY <1>1, <1>2
    <3> QED BY <2>1, <3>1, <3>2, RootArraysMove
  <2>6. OnFree'
    BY <2>1, OnFreeMove
  <2>7. ReturnOK'
    <3>1. \A f \in N : f.at # "destructors"
      BY <1>4
    <3> SUFFICES ASSUME NEW h \in 1..Len(stack'), Fr(stack', h).at = "destructors", Fr(stack', h).n # 0
                 PROVE  /\ Fr(stack', h).n \in called'
                        /\ Denoting(kind', to', Fr(stack', h).n) \cap Fr(stack', h).list # {}
      BY DEF ReturnOK
    <3>2. h \in 1..Len(stack) /\ Fr(stack', h) = Fr(stack, h)
      BY <3>1, MovesFacts
    <3> QED BY <1>2, <2>1, <3>2 DEF ReturnOK
  <2> QED BY <2>2, <2>3, <2>4, <2>5, <2>6, <2>7 DEF FrameInv
<1>7. DyingHeap'
  BY <1>1, <1>2, <1>3 DEF DyingInv, DyingHeap
<1>8. Disjoint' /\ Pending' /\ CalledFirst'
  <2>1. Disjoint /\ Pending /\ CalledFirst
    BY <1>3 DEF ListInv
  <2>2. Disjoint'
    <3>1. \A h \in 1..Len(stack') : h > b /\ Fr(stack', h).list # {} =>
               h = b + 1 /\ h \in 1..Len(stack) /\ Fr(stack', h).list \subseteq Fr(stack, h).list
      BY <1>4, MovesFacts DEF Moves, Kept
    <3> QED BY <2>1, <3>1, DisjointMove
  <2>3. Pending'
    BY <1>2, <2>1 DEF Pending, SameParts
  <2>4. CalledFirst'
    <3>1. \A h \in 1..Len(stack) : Fr(stack, h).at = "destructors" =>
               /\ h \in 1..Len(stack') /\ Fr(stack', h).at = "destructors"
               /\ Fr(stack', h).list = Fr(stack, h).list
      BY DEF Moves, Kept
    <3>2. \A z \in Listed : kind'[z] = "object" /\ to'[z] \in valid' /\ rc'[to'[z]] = 0 =>
               /\ kind[z] = "object" /\ to'[z] = to[z] /\ to[z] \in valid /\ rc[to[z]] = 0
               /\ to[z] \in called => to[z] \in called'
      BY <1>2
    <3>3. \A z \in Listed : kind[z] = "object" => kind'[z] = "object" /\ to'[z] = to[z]
      BY <1>2
    <3>4. \A f \in N : f.at # "destroy"
      BY <1>4
    <3> QED BY <1>3, <2>1, <3>1, <3>2, <3>3, <3>4, CalledFirstMove
  <2> QED BY <2>2, <2>3, <2>4
<1>9. SealInv'
  <2>1. SealedVars /\ SealedElems /\ SealedFrames
    BY <1>3 DEF SealInv
  <2>2. SealedVars'
    <3>1. \A f \in N : ~ Sealing(f)
      BY <1>4
    <3> SUFFICES ASSUME NEW h \in 1..Len(stack'), Sealing(Fr(stack', h)),
                        NEW z \in Fr(stack', h).list, NEW v \in Vars
                 PROVE  var'[v] # z
      BY DEF SealedVars, Sealing
    <3>2. h \in 1..Len(stack) /\ Fr(stack', h) = Fr(stack, h)
      BY <3>1, MovesFacts
    <3> QED BY <1>2, <2>1, <3>2 DEF SealedVars
  <2>3. \A h \in 1..Len(stack') : h > b => ~ Sealing(Fr(stack', h))
    <3>1. \A f \in N : ~ Sealing(f)
      BY <1>4
    <3>2. b \in Nat /\ \A h \in 1..Len(stack') : h <= b \/ Fr(stack', h) \in N
      BY DEF Moves, Kept
    <3>3. \A h \in 1..Len(stack') : h > b => Fr(stack', h) \in N
      BY <3>2
    <3> QED BY <3>1, <3>3
  <2>4. SealedFrames'
    <3>1. \A h \in 1..Len(stack') : h > b /\ Sealing(Fr(stack', h)) =>
               \A z \in Fr(stack', h).list, j \in 1..Len(stack') : Refers(Fr(stack', j), z) => j > h
      BY <2>3
    <3> QED BY <2>1, <3>1, SealedFramesMove
  <2>5. SealedElems'
    <3>1. \A n \in Nodes : elems'[n] \cap Listed \subseteq elems[n]
      BY <1>2
    <3>2. \A h \in 1..b : \A n \in Nodes : GivenBack(h, n) => elems'[n] = {}
      BY DEF GivenBack
    <3>3. \A o \in valid : rc[o] = 0 =>
               /\ o \in valid' /\ rc'[o] = 0
               /\ Denoting(kind', to', o) \subseteq Denoting(kind, to, o)
               /\ Denoting(kind', to', o) \cap Dying \subseteq Dying'
               /\ Denoting(kind, to, o) \cap Listed \subseteq Denoting(kind', to', o)
      BY <1>1, <1>2
    <3> QED BY <1>3, <2>1, <2>3, <3>1, <3>2, <3>3, SealedElemsMove
  <2> QED BY <2>2, <2>4, <2>5 DEF SealInv
<1> QED BY <1>5, <1>6, <1>7, <1>8, <1>9
-----------------------------------------------------------------------------
\* What a step adds to the references of the stack, by its form.
Idle(f) == /\ \A i \in 1..4 : Part(f, i) = {}
           /\ \A z : ~ Refers(f, z)
           /\ \A o : ~ Holds(f, o)
Equal(f, g) == /\ \A i \in 1..4 : Part(f, i) = Part(g, i)
               /\ \A z : Refers(f, z) <=> Refers(g, z)
               /\ \A o : Holds(f, o) <=> Holds(g, o)
Split(f, g, h) == /\ \A i \in 1..4 : Part(g, i) \cup Part(f, i) = Part(h, i)
                  /\ \A z : (Refers(f, z) \/ Refers(g, z) <=> Refers(h, z)) /\ ~ (Refers(f, z) /\ Refers(g, z))
                  /\ \A o : (Holds(f, o) \/ Holds(g, o) <=> Holds(h, o)) /\ ~ (Holds(f, o) /\ Holds(g, o))
Same == SameParts /\ SameRefs /\ SameHolds

LEMMA Bits ==
    ASSUME NEW f \in Frames, NEW x
    PROVE  /\ Bit(f, RefFrames(x)) = IF Refers(f, x) THEN 1 ELSE 0
           /\ Bit(f, HoldFrames(x)) = IF Holds(f, x) THEN 1 ELSE 0
BY DEF Bit, RefFrames, HoldFrames

LEMMA SameSteps ==
    ASSUME stack \in Seq(Frames), stack # <<>>, stack' \in Seq(Frames), Top \in Frames
    PROVE  /\ Popped(stack, stack') /\ Idle(Top) => Same
           /\ \A f \in Frames : Replaced(stack, stack', f) /\ Equal(f, Top) => Same
           /\ \A f \in Frames : Pushed(stack, stack', f) /\ Idle(f) => Same
           /\ \A f, g \in Frames : Doubled(stack, stack', f, g) /\ Split(f, g, Top) => Same
<1>1. Top = stack[1]
  BY DEF Top
<1>2. Len(stack') \in Nat
  OBVIOUS
<1>3. \A i : /\ Parts(stack, i) = Below(stack, i) \cup Part(Top, i)
             /\ Popped(stack, stack') => Parts(stack', i) = Below(stack, i)
             /\ \A f : Replaced(stack, stack', f) => Parts(stack', i) = Below(stack, i) \cup Part(f, i)
             /\ \A f : Pushed(stack, stack', f) => Parts(stack', i) = Parts(stack, i) \cup Part(f, i)
             /\ \A f, g : Doubled(stack, stack', f, g) =>
                   Parts(stack', i) = Below(stack, i) \cup Part(g, i) \cup Part(f, i)
  BY <1>1, PartChanges
<1>4. \A F : /\ CountIn(stack, F) \in Nat
             /\ Popped(stack, stack') => CountIn(stack', F) = CountIn(stack, F) - Bit(Top, F)
             /\ \A f : Replaced(stack, stack', f) => CountIn(stack', F) = CountIn(stack, F) - Bit(Top, F) + Bit(f, F)
             /\ \A f : Pushed(stack, stack', f) => CountIn(stack', F) = CountIn(stack, F) + Bit(f, F)
             /\ \A f, g : Doubled(stack, stack', f, g) =>
                   CountIn(stack', F) = CountIn(stack, F) - Bit(Top, F) + Bit(g, F) + Bit(f, F)
  BY <1>1, <1>2, CountChanges
<1>5. ASSUME \A i \in 1..4 : Parts(stack', i) = Parts(stack, i),
             \A x : /\ CountIn(stack', RefFrames(x)) = CountIn(stack, RefFrames(x))
                    /\ CountIn(stack', HoldFrames(x)) = CountIn(stack, HoldFrames(x))
      PROVE  Same
  BY <1>5 DEF Same, SameParts, SameRefs, SameHolds
<1>6. ASSUME Popped(stack, stack'), Idle(Top) PROVE Same
  <2>1. ASSUME NEW i \in 1..4 PROVE Parts(stack', i) = Parts(stack, i)
    <3>1. Parts(stack', i) = Below(stack, i)
      BY <1>3, <1>6
    <3>2. Parts(stack, i) = Below(stack, i) \cup Part(Top, i)
      BY <1>3
    <3>3. Part(Top, i) = {}
      BY <1>6 DEF Idle
    <3> QED BY <3>1, <3>2, <3>3
  <2>2. \A x : Bit(Top, RefFrames(x)) = 0 /\ Bit(Top, HoldFrames(x)) = 0
    BY <1>6, Bits DEF Idle
  <2>3. \A F : CountIn(stack, F) \in Nat /\ CountIn(stack', F) = CountIn(stack, F) - Bit(Top, F)
    BY <1>4, <1>6
  <2>4. ASSUME NEW x
        PROVE  /\ CountIn(stack', RefFrames(x)) = CountIn(stack, RefFrames(x))
               /\ CountIn(stack', HoldFrames(x)) = CountIn(stack, HoldFrames(x))
    <3>1. CountIn(stack, RefFrames(x)) \in Nat /\ CountIn(stack', RefFrames(x)) = CountIn(stack, RefFrames(x)) - Bit(Top, RefFrames(x))
      BY <2>3
    <3>2. CountIn(stack, HoldFrames(x)) \in Nat /\ CountIn(stack', HoldFrames(x)) = CountIn(stack, HoldFrames(x)) - Bit(Top, HoldFrames(x))
      BY <2>3
    <3> QED BY <2>2, <3>1, <3>2
  <2> QED BY <1>5, <2>1, <2>4
<1>7. ASSUME NEW f \in Frames, Replaced(stack, stack', f), Equal(f, Top) PROVE Same
  <2>1. ASSUME NEW i \in 1..4 PROVE Parts(stack', i) = Parts(stack, i)
    <3>1. Parts(stack', i) = Below(stack, i) \cup Part(f, i)
      BY <1>3, <1>7
    <3>2. Parts(stack, i) = Below(stack, i) \cup Part(Top, i)
      BY <1>3
    <3>3. Part(f, i) = Part(Top, i)
      BY <1>7 DEF Equal
    <3> QED BY <3>1, <3>2, <3>3
  <2>2. \A x : /\ Bit(Top, RefFrames(x)) = Bit(f, RefFrames(x)) /\ Bit(f, RefFrames(x)) \in {0, 1}
               /\ Bit(Top, HoldFrames(x)) = Bit(f, HoldFrames(x)) /\ Bit(f, HoldFrames(x)) \in {0, 1}
    BY <1>7, Bits DEF Equal
  <2>3. \A F : CountIn(stack, F) \in Nat /\ CountIn(stack', F) = CountIn(stack, F) - Bit(Top, F) + Bit(f, F)
    BY <1>4, <1>7
  <2>4. ASSUME NEW x
        PROVE  /\ CountIn(stack', RefFrames(x)) = CountIn(stack, RefFrames(x))
               /\ CountIn(stack', HoldFrames(x)) = CountIn(stack, HoldFrames(x))
    <3>1. CountIn(stack, RefFrames(x)) \in Nat /\ CountIn(stack', RefFrames(x)) = CountIn(stack, RefFrames(x)) - Bit(Top, RefFrames(x)) + Bit(f, RefFrames(x))
      BY <2>3
    <3>2. CountIn(stack, HoldFrames(x)) \in Nat /\ CountIn(stack', HoldFrames(x)) = CountIn(stack, HoldFrames(x)) - Bit(Top, HoldFrames(x)) + Bit(f, HoldFrames(x))
      BY <2>3
    <3> QED BY <2>2, <3>1, <3>2
  <2> QED BY <1>5, <2>1, <2>4
<1>8. ASSUME NEW f \in Frames, Pushed(stack, stack', f), Idle(f) PROVE Same
  <2>1. ASSUME NEW i \in 1..4 PROVE Parts(stack', i) = Parts(stack, i)
    <3>1. Parts(stack', i) = Parts(stack, i) \cup Part(f, i)
      BY <1>3, <1>8
    <3>2. Part(f, i) = {}
      BY <1>8 DEF Idle
    <3> QED BY <3>1, <3>2
  <2>2. \A x : Bit(f, RefFrames(x)) = 0 /\ Bit(f, HoldFrames(x)) = 0
    BY <1>8, Bits DEF Idle
  <2>3. \A F : CountIn(stack, F) \in Nat /\ CountIn(stack', F) = CountIn(stack, F) + Bit(f, F)
    BY <1>4, <1>8
  <2>4. ASSUME NEW x
        PROVE  /\ CountIn(stack', RefFrames(x)) = CountIn(stack, RefFrames(x))
               /\ CountIn(stack', HoldFrames(x)) = CountIn(stack, HoldFrames(x))
    <3>1. CountIn(stack, RefFrames(x)) \in Nat /\ CountIn(stack', RefFrames(x)) = CountIn(stack, RefFrames(x)) + Bit(f, RefFrames(x))
      BY <2>3
    <3>2. CountIn(stack, HoldFrames(x)) \in Nat /\ CountIn(stack', HoldFrames(x)) = CountIn(stack, HoldFrames(x)) + Bit(f, HoldFrames(x))
      BY <2>3
    <3> QED BY <2>2, <3>1, <3>2
  <2> QED BY <1>5, <2>1, <2>4
<1>9. ASSUME NEW f \in Frames, NEW g \in Frames, Doubled(stack, stack', f, g), Split(f, g, Top) PROVE Same
  <2>1. \A i \in 1..4 : Parts(stack', i) = Parts(stack, i)
    <3>1. ASSUME NEW i \in 1..4 PROVE Parts(stack', i) = Parts(stack, i)
      <4>1. Parts(stack', i) = Below(stack, i) \cup Part(g, i) \cup Part(f, i)
        BY <1>3, <1>9
      <4>2. Parts(stack, i) = Below(stack, i) \cup Part(Top, i)
        BY <1>3
      <4>3. Part(g, i) \cup Part(f, i) = Part(Top, i)
        BY <1>9 DEF Split
      <4> QED BY <4>1, <4>2, <4>3
    <3> QED BY <3>1
  <2>2. ASSUME NEW x
        PROVE /\ CountIn(stack', RefFrames(x)) = CountIn(stack, RefFrames(x))
              /\ CountIn(stack', HoldFrames(x)) = CountIn(stack, HoldFrames(x))
    <3>1. /\ Bit(Top, RefFrames(x)) = Bit(f, RefFrames(x)) + Bit(g, RefFrames(x))
          /\ Bit(Top, HoldFrames(x)) = Bit(f, HoldFrames(x)) + Bit(g, HoldFrames(x))
          /\ Bit(f, RefFrames(x)) \in {0, 1} /\ Bit(g, RefFrames(x)) \in {0, 1}
          /\ Bit(f, HoldFrames(x)) \in {0, 1} /\ Bit(g, HoldFrames(x)) \in {0, 1}
      BY <1>9, Bits DEF Split
    <3>2. /\ CountIn(stack, RefFrames(x)) \in Nat /\ CountIn(stack, HoldFrames(x)) \in Nat
          /\ CountIn(stack', RefFrames(x)) = CountIn(stack, RefFrames(x)) - Bit(Top, RefFrames(x)) + Bit(g, RefFrames(x)) + Bit(f, RefFrames(x))
          /\ CountIn(stack', HoldFrames(x)) = CountIn(stack, HoldFrames(x)) - Bit(Top, HoldFrames(x)) + Bit(g, HoldFrames(x)) + Bit(f, HoldFrames(x))
      BY <1>4, <1>9
    <3> QED BY <3>1, <3>2
  <2> QED BY <1>5, <2>1, <2>2
<1> QED BY <1>6, <1>7, <1>8, <1>9

\* Frames that free: what a step leaves of them goes on freeing the same zval.
LEMMA DyingFramesStep ==
    ASSUME DyingFrames, Views,
           \A h \in 1..Len(stack') :
              \/ /\ h \in 1..Len(stack)
                 /\ Fr(stack', h).at = Fr(stack, h).at /\ Fr(stack', h).z = Fr(stack, h).z
                 /\ \A z : Refers(Fr(stack', h), z) => Refers(Fr(stack, h), z)
              \/ Fr(stack', h).at # "free" /\ \A z \in Dying : ~ Refers(Fr(stack', h), z)
    PROVE  DyingFrames'
<1> SUFFICES ASSUME NEW h \in 1..Len(stack'), Fr(stack', h).at = "free", NEW j \in 1..Len(stack')
             PROVE  /\ Refers(Fr(stack', j), Fr(stack', h).z) => j > h /\ Fr(stack', j).at = "resume"
                    /\ Fr(stack', j).at = "free" /\ Fr(stack', j).z = Fr(stack', h).z => j = h
  BY DEF DyingFrames
<1>1. h \in 1..Len(stack) /\ Fr(stack, h).at = "free" /\ Fr(stack', h).z = Fr(stack, h).z
  OBVIOUS
<1>2. Fr(stack, h).z \in Dying
  BY <1>1 DEF Views
<1>3. CASE /\ j \in 1..Len(stack)
           /\ Fr(stack', j).at = Fr(stack, j).at /\ Fr(stack', j).z = Fr(stack, j).z
           /\ \A z : Refers(Fr(stack', j), z) => Refers(Fr(stack, j), z)
  BY <1>1, <1>3 DEF DyingFrames
<1>4. CASE Fr(stack', j).at # "free" /\ \A z \in Dying : ~ Refers(Fr(stack', j), z)
  BY <1>1, <1>2, <1>4
<1> QED BY <1>3, <1>4

\* The parts of the invariant that speak of the root buffer, when it is left alone.
LEMMA BufferStill ==
    ASSUME Inv, stack \in Seq(Frames), stack' \in Seq(Frames), Still, SameParts, UNCHANGED <<buf, addr>>
    PROVE  BufInv' /\ DyingBuf' /\ ListedBuf'
<1>1. Listed' = Listed /\ Dying' = Dying
  BY StackViews, NextViews DEF SameParts
<1>2. kind' = kind /\ buf' = buf /\ addr' = addr
  BY DEF Still
<1>3. BufInv /\ DyingBuf /\ ListedBuf
  BY DEF Inv, DyingInv, ListInv
<1> QED BY <1>1, <1>2, <1>3 DEF BufInv, DyingBuf, ListedBuf
-----------------------------------------------------------------------------
\* Such a step keeps the invariant.
LEMMA StillInv ==
    ASSUME IInv, Sound, stack' \in Seq(Frames), stack' # <<>>, Still, BufInv', DyingBuf', ListedBuf',
           buf' \in [Entries -> Nodes \cup {0}], addr' \in [Nodes -> Entries \cup {0}],
           purple' \in SUBSET Nodes, lost' \in SUBSET Nodes, steps' \in 0..MaxSteps, Same,
           NEW b, NEW N, Moves(stack, stack', b, N), Shape', DyingFrames',
           \A f \in N : Fresh(f),
           \A h \in 1..Len(stack') : h > b /\ Fr(stack', h).z # 0
                    /\ Fr(stack', h).at \in {"del_ref", "destructed", "storage"} =>
              \E j \in 1..h - 1 : Fr(stack', j).at = "free" /\ Fr(stack', j).z = Fr(stack', h).z,
           \A h \in 1..Len(stack) : Fr(stack, h).at = "destructors" => h <= b,
           Top.at # "del_ref"
    PROVE  TypeOK' /\ Inv'
<1>1. Inv /\ FrTypes /\ Views /\ stack \in Seq(Frames) /\ TypeOK
  BY Context
<1>2. SameParts /\ SameRefs /\ SameHolds
  BY DEF Same
<1>3. TypeOK'
  BY <1>1 DEF TypeOK, Still
<1>4. /\ HeapInv' /\ FrameInv' /\ DyingHeap' /\ DyingFrames'
      /\ Disjoint' /\ Pending' /\ CalledFirst' /\ SealInv'
  BY <1>1, <1>2, StillStep
<1> QED BY <1>3, <1>4 DEF Inv, DyingInv, ListInv

\* gc_collect_cycles() called by the script.
LEMMA CollectNowStep ==
    ASSUME IInv, Sound, CollectNow
    PROVE  TypeOK' /\ (Sound' => Inv')
<1>1. PICK f : f = Frame("collect", 0, 0)
  OBVIOUS
<1>2. f \in Frames /\ f.at = "collect" /\ f.n = 0 /\ f.z = 0 /\ f.todo = {} /\ f.list = {}
  BY <1>1, FrameFields DEF Labels
<1>3. /\ stack' = <<f>> \o stack /\ Still /\ UNCHANGED <<buf, addr, purple, lost>>
      /\ steps < MaxSteps /\ steps' = steps + 1 /\ Top.at \in {"main", "body"}
  BY <1>1 DEF CollectNow, Statement, InScript, At, Push, Still, heap, buffer, ghosts
<1>4. TypeOK /\ Inv /\ stack \in Seq(Frames) /\ stack # <<>> /\ FrTypes /\ Views
  BY Context
<1>5. PICK n \in Nat : Len(stack) = n + 1 /\ Fr(stack, n + 1) = Top
  BY Context
<1>6. stack' \in Seq(Frames) /\ stack' # <<>> /\ Pushed(stack, stack', f)
  BY <1>2, <1>3, <1>4, FrPush
<1>7. Moves(stack, stack', n + 1, {f})
  BY <1>4, <1>5, <1>6, AllMoves
<1>8. Idle(f)
  BY <1>2 DEF Idle, Part, Refers, Holds, HoldLabels
<1>9. Same
  BY <1>2, <1>4, <1>6, <1>8, SameSteps, Context
<1>10. Shape'
  <2>1. FieldsOK(f)
    BY <1>2 DEF FieldsOK
  <2>2. Calls(Top)
    BY <1>3 DEF Calls, TopLabels
  <2>3. Shape
    BY <1>4 DEF Inv
  <2> QED BY <1>2, <1>5, <1>6, <2>1, <2>2, <2>3, ShapeSteps
<1>11. DyingFrames'
  <2>1. DyingFrames
    BY <1>4 DEF Inv, DyingInv
  <2>2. \A h \in {f} : h.at # "free" /\ \A z \in Dying : Refers(h, z) => h.at = "resume"
    BY <1>2, <1>8 DEF Idle
  <2> QED BY <1>4, <1>7, <2>1, <2>2, DyingFramesMove
<1>12. \A g \in {f} : Fresh(g)
  BY <1>2 DEF Fresh, Holds, HoldLabels
<1>13. \A h \in 1..Len(stack') : h > n + 1 => Fr(stack', h) = f
  BY <1>7 DEF Moves
<1>14. \A h \in 1..Len(stack) : Fr(stack, h).at = "destructors" => h <= n + 1
  BY <1>5
<1>15. purple' \in SUBSET Nodes /\ lost' \in SUBSET Nodes /\ steps' \in 0..MaxSteps
  BY <1>3, <1>4, Sizes DEF TypeOK
<1>16. \A h \in 1..Len(stack') : h > n + 1 /\ Fr(stack', h).z # 0
                    /\ Fr(stack', h).at \in {"del_ref", "destructed", "storage"} =>
              \E j \in 1..h - 1 : Fr(stack', j).at = "free" /\ Fr(stack', j).z = Fr(stack', h).z
  BY <1>2, <1>13
<1>17. BufInv' /\ DyingBuf' /\ ListedBuf'
  BY <1>3, <1>4, <1>6, <1>9, BufferStill DEF Same
<1>18. buf' \in [Entries -> Nodes \cup {0}] /\ addr' \in [Nodes -> Entries \cup {0}]
  BY <1>3, <1>4 DEF TypeOK
<1>19. Top.at # "del_ref"
  BY <1>3
<1> QED BY <1>3, <1>6, <1>7, <1>9, <1>10, <1>11, <1>12, <1>14, <1>15, <1>16, <1>17, <1>18, <1>19, StillInv, Zenon
\* The end of a destructor: the reference of $this is del_ref's to give back.
LEMMA EndBodyStep ==
    ASSUME IInv, Sound, EndBody
    PROVE  TypeOK' /\ (Sound' => Inv')
<1>1. PICK f : f = [Frame("del_ref", This, 0) EXCEPT !.check = TRUE]
  OBVIOUS
<1>2. TypeOK /\ Inv /\ stack \in Seq(Frames) /\ stack # <<>> /\ FrTypes /\ Views /\ Top \in Frames /\ FieldsOK(Top)
  BY Context
<1>3. Top.at = "body" /\ Top.n \in Objs /\ Top.z = 0 /\ Top.todo = {} /\ Top.list = {}
  BY <1>2 DEF EndBody, At, FieldsOK
<1>4. f \in Frames /\ f.at = "del_ref" /\ f.n = Top.n /\ f.z = 0 /\ f.todo = {} /\ f.list = {}
  <2>1. PICK g : g = Frame("del_ref", This, 0)
    OBVIOUS
  <2>2. g \in Frames /\ g.at = "del_ref" /\ g.n = Top.n /\ g.z = 0 /\ g.todo = {} /\ g.list = {}
    BY <2>1, <1>3, Sizes, FrameFields DEF Labels, This
  <2>3. f = [g EXCEPT !.check = TRUE]
    BY <1>1, <2>1
  <2> QED BY <2>2, <2>3 DEF Frames
<1>5. stack' = <<f>> \o Tail(stack) /\ Still /\ UNCHANGED <<buf, addr, purple, lost, steps>>
  BY <1>1 DEF EndBody, Replace, Still, heap, buffer, ghosts
<1>6. PICK n \in Nat : Len(stack) = n + 1 /\ Fr(stack, n + 1) = Top /\ Len(stack) - 1 = n
  BY Context
<1>7. stack' \in Seq(Frames) /\ stack' # <<>> /\ Replaced(stack, stack', f)
  BY <1>2, <1>4, <1>5, FrReplace
<1>8. Moves(stack, stack', n, {f})
  BY <1>2, <1>6, <1>7, AllMoves
<1>9. Equal(f, Top)
  BY <1>3, <1>4 DEF Equal, Part, Refers, Holds, HoldLabels
<1>10. Same
  BY <1>2, <1>4, <1>7, <1>9, SameSteps
<1>11. Shape'
  <2>1. FieldsOK(f)
    BY <1>3, <1>4 DEF FieldsOK
  <2>2. Shape
    BY <1>2 DEF Inv
  <2> QED BY <1>3, <1>4, <1>6, <1>7, <2>1, <2>2, ShapeSteps
<1>12. DyingFrames'
  <2>1. DyingFrames
    BY <1>2 DEF Inv, DyingInv
  <2>2. \A g \in {f} : g.at # "free" /\ \A z \in Dying : Refers(g, z) => g.at = "resume"
    BY <1>4 DEF Refers
  <2> QED BY <1>2, <1>8, <2>1, <2>2, DyingFramesMove
<1>13. \A g \in {f} : Fresh(g)
  <2>1. HeldValid
    BY <1>2 DEF Inv, FrameInv
  <2>2. n + 1 \in 1..Len(stack)
    BY <1>6
  <2>3. Top.n \in valid
    BY <1>3, <1>6, <2>1, <2>2 DEF HeldValid, Holds, HoldLabels
  <2> QED BY <1>4, <2>3 DEF Fresh, Holds
<1>14. \A h \in 1..Len(stack') : h > n => Fr(stack', h) = f
  BY <1>8 DEF Moves
<1>15. \A h \in 1..Len(stack') : h > n /\ Fr(stack', h).z # 0
                    /\ Fr(stack', h).at \in {"del_ref", "destructed", "storage"} =>
              \E j \in 1..h - 1 : Fr(stack', j).at = "free" /\ Fr(stack', j).z = Fr(stack', h).z
  BY <1>4, <1>14
<1>16. \A h \in 1..Len(stack) : Fr(stack, h).at = "destructors" => h <= n
  BY <1>3, <1>6
<1>17. purple' \in SUBSET Nodes /\ lost' \in SUBSET Nodes /\ steps' \in 0..MaxSteps
  BY <1>2, <1>5 DEF TypeOK
<1>18. BufInv' /\ DyingBuf' /\ ListedBuf'
  BY <1>2, <1>5, <1>7, <1>10, BufferStill DEF Same
<1>19. buf' \in [Entries -> Nodes \cup {0}] /\ addr' \in [Nodes -> Entries \cup {0}]
  BY <1>2, <1>5 DEF TypeOK
<1> QED BY <1>3, <1>5, <1>7, <1>8, <1>10, <1>11, <1>12, <1>13, <1>15, <1>16, <1>17, <1>18, <1>19, StillInv

\* Calls that return without having changed the heap.
LEMMA StillReturn ==
    ASSUME IInv, Sound, Return, Still, Idle(Top), Top.at \notin {"main", "destructors", "del_ref"},
           SameParts => BufInv' /\ DyingBuf' /\ ListedBuf',
           buf' \in [Entries -> Nodes \cup {0}], addr' \in [Nodes -> Entries \cup {0}],
           purple' \in SUBSET Nodes, UNCHANGED <<lost, steps>>
    PROVE  TypeOK' /\ Inv'
<1>1. TypeOK /\ Inv /\ stack \in Seq(Frames) /\ stack # <<>> /\ FrTypes /\ Views /\ Top \in Frames
  BY Context
<1>2. PICK n \in Nat : Len(stack) = n + 1 /\ Fr(stack, n + 1) = Top /\ Len(stack) - 1 = n
  BY Context
<1>3. stack' \in Seq(Frames) /\ Popped(stack, stack')
  BY <1>1, FrTail DEF Return
<1>4. Moves(stack, stack', n, {})
  BY <1>1, <1>2, <1>3, AllMoves
<1>5. Same
  BY <1>1, <1>3, SameSteps
<1>6. Shape' /\ stack' # <<>>
  <2>1. Shape
    BY <1>1 DEF Inv
  <2>2. Shape' /\ Len(stack') >= 1
    BY <1>2, <1>3, <2>1, ShapeSteps
  <2>3. Len(<<>>) = 0
    OBVIOUS
  <2> QED BY <2>2, <2>3
<1>7. DyingFrames'
  <2>1. DyingFrames
    BY <1>1 DEF Inv, DyingInv
  <2> QED BY <1>1, <1>4, <2>1, DyingFramesMove
<1>8. \A h \in 1..Len(stack') : ~ h > n
  BY <1>2, <1>3 DEF Popped
<1>9. \A h \in 1..Len(stack) : Fr(stack, h).at = "destructors" => h <= n
  BY <1>2
<1>10. lost' \in SUBSET Nodes /\ steps' \in 0..MaxSteps
  BY <1>1 DEF TypeOK
<1>11. BufInv' /\ DyingBuf' /\ ListedBuf'
  BY <1>5 DEF Same
<1>12. \A h \in 1..Len(stack') : h > n /\ Fr(stack', h).z # 0
                    /\ Fr(stack', h).at \in {"del_ref", "destructed", "storage"} =>
              \E j \in 1..h - 1 : Fr(stack', j).at = "free" /\ Fr(stack', j).z = Fr(stack', h).z
  BY <1>8
<1>13. \A f \in {} : Fresh(f)
  OBVIOUS
<1> QED BY <1>3, <1>4, <1>5, <1>6, <1>7, <1>9, <1>10, <1>11, <1>12, <1>13, StillInv

LEMMA ReleasedStep ==
    ASSUME IInv, Sound, Released
    PROVE  TypeOK' /\ (Sound' => Inv')
<1>1. TypeOK /\ Inv /\ stack \in Seq(Frames) /\ stack # <<>> /\ FieldsOK(Top)
  BY Context
<1>2. Top.at = "release" /\ Top.todo = {} /\ Top.list = {}
  BY <1>1 DEF Released, At, FieldsOK
<1>3. Return /\ Still /\ UNCHANGED <<buf, addr, purple, lost, steps>>
  BY DEF Released, Still, heap, buffer, ghosts
<1>4. Idle(Top)
  BY <1>2 DEF Idle, Part, Refers, Holds, HoldLabels
<1>5. stack' \in Seq(Frames)
  BY <1>1, <1>3, FrTail DEF Return
<1>6. SameParts => BufInv' /\ DyingBuf' /\ ListedBuf'
  BY <1>1, <1>3, <1>5, BufferStill
<1>7. /\ buf' \in [Entries -> Nodes \cup {0}] /\ addr' \in [Nodes -> Entries \cup {0}]
      /\ purple' \in SUBSET Nodes
  BY <1>1, <1>3 DEF TypeOK
<1> QED BY <1>2, <1>3, <1>4, <1>6, <1>7, StillReturn

LEMMA NotARootStep ==
    ASSUME IInv, Sound, NotARoot
    PROVE  TypeOK' /\ (Sound' => Inv')
<1>1. TypeOK /\ Inv /\ stack \in Seq(Frames) /\ stack # <<>> /\ FieldsOK(Top)
  BY Context
<1>2. Top.at = "root" /\ Top.todo = {} /\ Top.list = {}
  BY <1>1 DEF NotARoot, At, FieldsOK
<1>3. Return /\ Still /\ UNCHANGED <<buf, addr, purple, lost, steps>>
  BY DEF NotARoot, Still, heap, buffer, ghosts
<1>4. Idle(Top)
  BY <1>2 DEF Idle, Part, Refers, Holds, HoldLabels
<1>5. stack' \in Seq(Frames)
  BY <1>1, <1>3, FrTail DEF Return
<1>6. SameParts => BufInv' /\ DyingBuf' /\ ListedBuf'
  BY <1>1, <1>3, <1>5, BufferStill
<1>7. /\ buf' \in [Entries -> Nodes \cup {0}] /\ addr' \in [Nodes -> Entries \cup {0}]
      /\ purple' \in SUBSET Nodes
  BY <1>1, <1>3 DEF TypeOK
<1> QED BY <1>2, <1>3, <1>4, <1>6, <1>7, StillReturn
-----------------------------------------------------------------------------
\* The node, or the entry, that the code would come to first.
LEMMA LeastIn ==
    ASSUME NEW S \in SUBSET Nat, S # {}
    PROVE  Least(S) \in S
<1>1. PICK x \in S : \A y \in S : ~ (<<y, x>> \in OpToRel(<, Nat))
  BY NatLessThanWellFounded, WFMin, Zenon
<1>2. \A y \in S : ~ (y < x)
  BY <1>1 DEF OpToRel
<1>3. \A y \in S : x <= y
  BY <1>2
<1> QED BY <1>3 DEF Least

\* An unused entry takes a node.
LEMMA EnterOK ==
    ASSUME TypeOK, BufInv, DyingBuf, ListedBuf, NEW m \in Nodes, NEW e \in Entries, buf[e] = 0,
           Enter(m, e),
           m \in Zvals => kind[m] # "none" /\ addr[m] = 0, m \notin Dying, m \notin Listed,
           \A z \in Zvals : kind[z] # "none" => kind'[z] # "none",
           Listed' = Listed, Dying' \subseteq Dying
    PROVE  /\ BufInv' /\ DyingBuf' /\ ListedBuf'
           /\ buf' \in [Entries -> Nodes \cup {0}] /\ addr' \in [Nodes -> Entries \cup {0}]
<1>1. /\ buf \in [Entries -> Nodes \cup {0}] /\ addr \in [Nodes -> Entries \cup {0}]
      /\ buf' = [buf EXCEPT ![e] = m] /\ addr' = [addr EXCEPT ![m] = e]
  BY DEF TypeOK, Enter
<1>2. 0 \notin Entries /\ 0 \notin Zvals /\ Zvals \subseteq Nodes
  BY Sizes
<1>3. \A x \in Nodes \ {m} : addr'[x] = addr[x]
  BY <1>1
<1>4. addr'[m] = e /\ buf'[e] = m /\ \A d \in Entries \ {e} : buf'[d] = buf[d]
  BY <1>1
<1>5. ASSUME NEW d \in Entries, buf'[d] \in Zvals
      PROVE  kind'[buf'[d]] # "none" /\ addr'[buf'[d]] = d
  <2>1. CASE d = e
    BY <1>4, <1>5, <2>1
  <2>2. CASE d # e
    <3>1. buf'[d] = buf[d] /\ kind[buf[d]] # "none" /\ addr[buf[d]] = d
      BY <1>4, <1>5, <2>2 DEF BufInv
    <3>2. buf[d] # m
      BY <1>2, <1>5, <3>1
    <3> QED BY <1>2, <1>3, <1>5, <3>1, <3>2
  <2> QED BY <2>1, <2>2
<1>6. ASSUME NEW x \in Nodes, addr'[x] # 0 PROVE buf'[addr'[x]] = x
  <2>1. CASE x = m
    BY <1>4, <2>1
  <2>2. CASE x # m
    <3>1. addr'[x] = addr[x] /\ addr[x] \in Entries /\ buf[addr[x]] = x
      BY <1>1, <1>3, <1>6, <2>2 DEF BufInv
    <3>2. addr[x] # e
      BY <3>1, Sizes
    <3> QED BY <1>4, <3>1, <3>2
  <2> QED BY <2>1, <2>2
<1>7. ASSUME NEW z \in Dying' PROVE addr'[z] = 0 /\ \A d \in Entries : buf'[d] # z
  <2>1. z \in Dying /\ addr[z] = 0 /\ \A d \in Entries : buf[d] # z
    BY <1>7 DEF DyingBuf
  <2>2. z # m
    BY <2>1
  <2>3. addr'[z] = addr[z]
    BY <1>1, <2>2
  <2> QED BY <1>4, <2>1, <2>2, <2>3
<1>8. ASSUME NEW z \in Listed' PROVE addr'[z] = 0
  BY <1>1, <1>8 DEF ListedBuf
<1>9. buf' \in [Entries -> Nodes \cup {0}] /\ addr' \in [Nodes -> Entries \cup {0}]
  BY <1>1
<1> QED BY <1>5, <1>6, <1>7, <1>8, <1>9 DEF BufInv, DyingBuf, ListedBuf
LEMMA ListTypes ==
    ASSUME IInv, Sound
    PROVE  Listed \subseteq Zvals /\ Dying \subseteq Zvals
<1>1. Inv /\ FrTypes /\ Views
  BY Context
<1>2. Listed \subseteq Zvals
  BY <1>1 DEF FrTypes, Views, Frames
<1>3. Dying \subseteq Zvals
  BY <1>1 DEF Inv, DyingInv, DyingHeap
<1> QED BY <1>2, <1>3

\* gc_zval_possible_root finds an entry for its node.
LEMMA RecordRootStep ==
    ASSUME IInv, Sound, RecordRoot
    PROVE  TypeOK' /\ (Sound' => Inv')
<1>1. TypeOK /\ Inv /\ stack \in Seq(Frames) /\ stack # <<>> /\ FieldsOK(Top) /\ Top \in Frames
  BY Context
<1>2. Top.at = "root" /\ Top.todo = {} /\ Top.list = {} /\ Top.n # 0 /\ (Top.n \in Zvals => Top.n = Top.z)
  BY <1>1 DEF RecordRoot, At, FieldsOK
<1>3. /\ Return /\ Still /\ UNCHANGED <<lost, steps>> /\ purple' = purple \cup {Top.n}
      /\ Top.z \notin Listed
      /\ IF addr[Top.n] # 0 THEN UNCHANGED <<buf, addr>>
         ELSE Unused # {} /\ Enter(Top.n, Least(Unused))
  BY DEF RecordRoot, Still, heap, ghosts, This, NoRoot
<1>4. Idle(Top)
  BY <1>2 DEF Idle, Part, Refers, Holds, HoldLabels
<1>5. stack' \in Seq(Frames)
  BY <1>1, <1>3, FrTail DEF Return
<1>6. Top.n \in Nodes /\ purple' \in SUBSET Nodes
  BY <1>1, <1>2, <1>3 DEF TypeOK, Frames
<1>7. SameParts
  <2>1. Popped(stack, stack')
    BY <1>1, <1>3, FrTail DEF Return
  <2> QED BY <1>1, <1>4, <1>5, <2>1, SameSteps DEF Same
<1>8. /\ BufInv' /\ DyingBuf' /\ ListedBuf'
      /\ buf' \in [Entries -> Nodes \cup {0}] /\ addr' \in [Nodes -> Entries \cup {0}]
  <2>1. CASE addr[Top.n] # 0
    <3>1. UNCHANGED <<buf, addr>>
      BY <1>3, <2>1
    <3>2. BufInv' /\ DyingBuf' /\ ListedBuf'
      BY <1>1, <1>3, <1>5, <1>7, <3>1, BufferStill
    <3> QED BY <1>1, <3>1, <3>2 DEF TypeOK
  <2>2. CASE ~ addr[Top.n] # 0
    <3>1. PICK e \in Entries : buf[e] = 0 /\ Enter(Top.n, e)
      <4>1. Unused \in SUBSET Nat /\ Unused # {} /\ Enter(Top.n, Least(Unused))
        BY <1>3, <2>2 DEF Unused, Entries
      <4>2. Least(Unused) \in Unused
        BY <4>1, LeastIn
      <4> QED BY <4>1, <4>2 DEF Unused
    <3>2. BufInv /\ DyingBuf /\ ListedBuf /\ RootArrays
      BY <1>1 DEF Inv, DyingInv, ListInv, FrameInv
    <3>3. Listed' = Listed /\ Dying' = Dying
      BY <1>1, <1>5, <1>7, StackViews, NextViews DEF SameParts
    <3>4. Top.n \in Zvals => kind[Top.n] = "array" /\ Top.n \notin Dying
      <4>1. PICK k \in Nat : Len(stack) = k + 1 /\ Fr(stack, k + 1) = Top
        BY Context
      <4>2. k + 1 \in 1..Len(stack)
        BY <4>1
      <4> QED BY <1>2, <3>2, <4>1, <4>2 DEF RootArrays
    <3>5. Top.n \in Zvals => kind[Top.n] # "none" /\ addr[Top.n] = 0 /\ Top.n \notin Dying /\ Top.n \notin Listed
      BY <1>2, <1>3, <2>2, <3>4
    <3>6. \A z \in Zvals : kind[z] # "none" => kind'[z] # "none"
      BY <1>3 DEF Still
    <3>7. Top.n \notin Dying /\ Top.n \notin Listed
      BY <1>6, <3>5, ListTypes
    <3> QED BY <1>1, <1>6, <3>1, <3>2, <3>3, <3>5, <3>6, <3>7, EnterOK
  <2> QED BY <2>1, <2>2
<1> QED BY <1>2, <1>3, <1>4, <1>6, <1>8, StillReturn
\* No frame but that of a full buffer's root refers to a zval that is being freed.
LEMMA DyingApart ==
    ASSUME DyingFrames, Views, NEW h \in 1..Len(stack), Fr(stack, h).at # "resume"
    PROVE  \A z \in Dying : ~ Refers(Fr(stack, h), z)
BY DEF DyingFrames, Views

\* The loop that releases elements, one of them.
LEMMA ReleaseElementStep ==
    ASSUME IInv, Sound, ReleaseElement
    PROVE  TypeOK' /\ (Sound' => Inv')
<1>1. PICK e \in Top.todo :
         stack' = <<Frame("ptr_dtor", 0, e), [Top EXCEPT !.todo = @ \ {e}]>> \o Tail(stack)
  BY DEF ReleaseElement
<1>2. PICK f, g : f = Frame("ptr_dtor", 0, e) /\ g = [Top EXCEPT !.todo = @ \ {e}]
  OBVIOUS
<1>3. TypeOK /\ Inv /\ stack \in Seq(Frames) /\ stack # <<>> /\ FrTypes /\ Views /\ Top \in Frames /\ FieldsOK(Top)
  BY Context
<1>4. /\ Top.at \in {"free", "release", "storage"} /\ Still
      /\ UNCHANGED <<buf, addr, purple, lost, steps>>
  BY DEF ReleaseElement, At, Still, heap, buffer, ghosts
<1>5. e \in Zvals /\ e # 0
  BY <1>1, <1>3, Sizes DEF Frames
<1>6. f \in Frames /\ f.at = "ptr_dtor" /\ f.n = 0 /\ f.z = e /\ f.todo = {} /\ f.list = {}
  BY <1>2, <1>5, FrameFields DEF Labels
<1>7. /\ g \in Frames /\ g.at = Top.at /\ g.n = Top.n /\ g.z = Top.z /\ g.todo = Top.todo \ {e}
      /\ g.list = Top.list /\ Top.list = {}
  BY <1>2, <1>3, <1>4 DEF Frames, FieldsOK
<1>8. stack' = <<f, g>> \o Tail(stack)
  BY <1>1, <1>2
<1>9. PICK n \in Nat : Len(stack) = n + 1 /\ Fr(stack, n + 1) = Top /\ Len(stack) - 1 = n
  BY Context
<1>10. n + 1 \in 1..Len(stack)
  BY <1>9
<1>11. stack' \in Seq(Frames) /\ stack' # <<>> /\ Doubled(stack, stack', f, g)
  BY <1>3, <1>6, <1>7, <1>8, FrDouble
<1>12. Moves(stack, stack', n, {f, g})
  BY <1>3, <1>9, <1>11, AllMoves
<1>13. Split(f, g, Top)
  <2>1. \A i \in 1..4 : Part(g, i) \cup Part(f, i) = Part(Top, i)
    BY <1>4, <1>6, <1>7 DEF Part
  <2>2. \A z : (Refers(f, z) \/ Refers(g, z) <=> Refers(Top, z)) /\ ~ (Refers(f, z) /\ Refers(g, z))
    BY <1>1, <1>4, <1>6, <1>7 DEF Refers
  <2>3. \A o : (Holds(f, o) \/ Holds(g, o) <=> Holds(Top, o)) /\ ~ (Holds(f, o) /\ Holds(g, o))
    BY <1>4, <1>6, <1>7 DEF Holds, HoldLabels
  <2> QED BY <2>1, <2>2, <2>3 DEF Split
<1>14. Same
  BY <1>3, <1>6, <1>7, <1>11, <1>13, SameSteps
<1>15. Shape'
  <2>1. FieldsOK(f) /\ f.at # "main"
    BY <1>5, <1>6 DEF FieldsOK
  <2>2. FieldsOK(g) /\ g.at # "main" /\ Calls(g)
    BY <1>3, <1>4, <1>7 DEF FieldsOK, Calls, TopLabels
  <2>3. Shape /\ Top.at # "main"
    BY <1>3, <1>4 DEF Inv
  <2> QED BY <1>9, <1>11, <2>1, <2>2, <2>3, ShapeSteps
<1>16. /\ Len(stack') = n + 2 /\ Fr(stack', n + 2) = f /\ Fr(stack', n + 1) = g
       /\ \A h \in 1..n : Fr(stack', h) = Fr(stack, h)
  BY <1>9, <1>11 DEF Doubled, Kept
<1>17. \A h \in 1..Len(stack') : h \in 1..n \/ h = n + 1 \/ h = n + 2
  BY <1>16
<1>18. \A x : Refers(f, x) \/ Refers(g, x) => Refers(Top, x)
  BY <1>13 DEF Split
<1>19. DyingFrames'
  <2>1. DyingFrames
    BY <1>3 DEF Inv, DyingInv
  <2>2. \A z \in Dying : ~ Refers(Top, z)
    BY <1>3, <1>4, <1>9, <1>10, <2>1, DyingApart
  <2>3. ASSUME NEW h \in 1..Len(stack')
        PROVE \/ /\ h \in 1..Len(stack)
                 /\ Fr(stack', h).at = Fr(stack, h).at /\ Fr(stack', h).z = Fr(stack, h).z
                 /\ \A z : Refers(Fr(stack', h), z) => Refers(Fr(stack, h), z)
              \/ Fr(stack', h).at # "free" /\ \A z \in Dying : ~ Refers(Fr(stack', h), z)
    <3>1. CASE h \in 1..n
      BY <1>9, <1>16, <3>1
    <3>2. CASE h = n + 1
      BY <1>7, <1>9, <1>10, <1>16, <1>18, <3>2
    <3>3. CASE h = n + 2
      BY <1>6, <1>16, <1>18, <2>2, <3>3
    <3> QED BY <1>17, <3>1, <3>2, <3>3
  <2> QED BY <1>3, <2>1, <2>3, DyingFramesStep
<1>20. \A x \in {f, g} : Fresh(x)
  <2>1. /\ HeldValid /\ StorageOK /\ FramesHold
    BY <1>3 DEF Inv, FrameInv, HeapInv
  <2>2. \A x \in Top.todo : kind[x] # "none"
    BY <1>9, <1>10, <2>1 DEF FramesHold
  <2>3. \A o \in Objs : Holds(Top, o) => o \in valid
    BY <1>9, <1>10, <2>1 DEF HeldValid
  <2>4. Top.at = "storage" => Top.n \in called /\ rc[Top.n] = 1 /\ elems[Top.n] = {}
    BY <1>9, <1>10, <2>1 DEF StorageOK
  <2>5. Fresh(f)
    BY <1>1, <1>6, <2>2 DEF Fresh, Holds, HoldLabels
  <2>6. Fresh(g)
    BY <1>4, <1>7, <2>2, <2>3, <2>4 DEF Fresh, Holds
  <2> QED BY <2>5, <2>6
<1>21. ASSUME NEW h \in 1..Len(stack'), h > n, Fr(stack', h).z # 0,
              Fr(stack', h).at \in {"del_ref", "destructed", "storage"}
       PROVE  \E j \in 1..h - 1 : Fr(stack', j).at = "free" /\ Fr(stack', j).z = Fr(stack', h).z
  <2>1. h = n + 1
    BY <1>6, <1>16, <1>17, <1>21
  <2>2. PICK j \in 1..n : Fr(stack, j).at = "free" /\ Fr(stack, j).z = Top.z
    <3>1. Top.z # 0 /\ Top.at \in {"del_ref", "destructed", "storage"}
      BY <1>7, <1>16, <1>21, <2>1
    <3>2. OnFree
      BY <1>3 DEF Inv, FrameInv
    <3>3. \E j \in 1..(n + 1) - 1 : Fr(stack, j).at = "free" /\ Fr(stack, j).z = Fr(stack, n + 1).z
      BY <1>9, <1>10, <3>1, <3>2 DEF OnFree
    <3> QED BY <1>9, <3>3
  <2>3. j \in 1..h - 1 /\ Fr(stack', j) = Fr(stack, j) /\ Fr(stack', h).z = Top.z
    BY <1>7, <1>16, <2>1
  <2> QED BY <2>2, <2>3
<1>22. \A h \in 1..Len(stack) : Fr(stack, h).at = "destructors" => h <= n
  BY <1>4, <1>9
<1>23. purple' \in SUBSET Nodes /\ lost' \in SUBSET Nodes /\ steps' \in 0..MaxSteps
  BY <1>3, <1>4 DEF TypeOK
<1>24. BufInv' /\ DyingBuf' /\ ListedBuf'
  BY <1>3, <1>4, <1>11, <1>14, BufferStill DEF Same
<1>25. buf' \in [Entries -> Nodes \cup {0}] /\ addr' \in [Nodes -> Entries \cup {0}]
  BY <1>3, <1>4 DEF TypeOK
<1>26. Top.at # "del_ref"
  BY <1>4
<1>27. \A h \in 1..Len(stack') : h > n /\ Fr(stack', h).z # 0
                    /\ Fr(stack', h).at \in {"del_ref", "destructed", "storage"} =>
              \E j \in 1..h - 1 : Fr(stack', j).at = "free" /\ Fr(stack', j).z = Fr(stack', h).z
  BY <1>21
<1> QED BY <1>4, <1>11, <1>12, <1>14, <1>15, <1>19, <1>20, <1>22, <1>23, <1>24, <1>25, <1>26, <1>27, StillInv
-----------------------------------------------------------------------------
\* Statements that leave the stack alone.

\* The zvals on a list that is about to be freed.
Locked == {z \in Zvals : \E h \in 1..Len(stack) : Sealing(Fr(stack, h)) /\ z \in Fr(stack, h).list}

Steady ==
    /\ UNCHANGED stack
    /\ \A z \in Zvals : kind[z] # "none" => kind'[z] = kind[z] /\ to'[z] = to[z]
    /\ \A z \in Zvals : kind'[z] = "null" => kind[z] = "null"
    /\ valid \subseteq valid' /\ called \cap valid \subseteq called'
    /\ \A o \in valid : rc[o] = 0 => rc'[o] = 0 /\ Denoting(kind', to', o) = Denoting(kind, to, o)
    /\ \A o \in valid' : rc'[o] = 0 => o \in valid /\ rc[o] = 0
    /\ \A h \in 1..Len(stack) : Fr(stack, h).at = "storage" =>
          rc'[Fr(stack, h).n] = rc[Fr(stack, h).n] /\ elems'[Fr(stack, h).n] = elems[Fr(stack, h).n]
    /\ \A z \in Locked \cup Dying : /\ \A v \in Vars : var'[v] # z
                                   /\ \A m \in Nodes : z \in elems'[m] => z \in elems[m]
    /\ \A z \in Dying : elems'[z] = elems[z]

LEMMA SteadyStep ==
    ASSUME IInv, Sound, InScript, Steady, BufInv', DyingBuf', ListedBuf',
           KindsOK', VarsHold', ElemsHold', ZvalsHold', ZvalCounts', ObjCounts'
    PROVE  Inv'
<1>1. Inv /\ FrTypes /\ Views /\ stack \in Seq(Frames) /\ Listed \subseteq Zvals /\ Dying \subseteq Zvals
  BY Context, ListTypes
<1>2. stack' = stack /\ Listed' = Listed /\ Dying' = Dying
  <2>1. stack' = stack
    BY DEF Steady
  <2> QED BY <2>1 DEF Listed, Dying
<1>3. Shape' /\ DyingFrames' /\ Disjoint' /\ OnFree'
  BY <1>1, <1>2 DEF Inv, DyingInv, ListInv, FrameInv, Shape, DyingFrames, Disjoint, OnFree
<1>4. \A h \in 1..Len(stack) : Fr(stack, h).list \subseteq Zvals /\ Fr(stack, h).todo \subseteq Zvals
                               /\ Fr(stack, h).n \in Nodes \cup {0} /\ Fr(stack, h).z \in Zvals \cup {0}
  BY <1>1 DEF FrTypes, Frames
<1>5. /\ FramesHold /\ NullsOK /\ HeldValid /\ StorageOK /\ NamedZvals /\ RootArrays /\ ReturnOK
      /\ DyingHeap /\ Pending /\ CalledFirst /\ SealedVars /\ SealedElems /\ SealedFrames /\ Shape
  BY <1>1 DEF Inv, HeapInv, FrameInv, DyingInv, ListInv, SealInv
<1>6. FramesHold'
  BY <1>2, <1>4, <1>5 DEF Steady, FramesHold
<1>7. NullsOK'
  <2>1. Parts(stack, 3) \subseteq Listed
    <3>1. \A f : Part(f, 3) \subseteq f.list
      BY DEF Part
    <3> QED BY <1>1, <3>1, PartMember DEF Views
  <2>2. \A z \in Listed : kind[z] # "none"
    BY <1>1, <1>5 DEF FramesHold, Views
  <2>3. \A z \in Parts(stack, 3) : kind'[z] = kind[z]
    BY <1>1, <2>1, <2>2 DEF Steady
  <2>4. \A z \in Zvals : kind'[z] = "null" => z \in Parts(stack', 3)
    BY <1>2, <1>5 DEF Steady, NullsOK
  <2>5. \A z \in Parts(stack', 3) : kind'[z] # "array"
    BY <1>2, <1>5, <2>3 DEF NullsOK
  <2> QED BY <2>4, <2>5 DEF NullsOK
<1>8. HeldValid'
  BY <1>2, <1>5 DEF Steady, HeldValid
<1>9. StorageOK'
  <2> SUFFICES ASSUME NEW h \in 1..Len(stack), Fr(stack, h).at \in {"destructed", "storage"}
               PROVE  /\ Fr(stack, h).n \in called'
                      /\ Fr(stack, h).at = "storage" => rc'[Fr(stack, h).n] = 1 /\ elems'[Fr(stack, h).n] = {}
    BY <1>2 DEF StorageOK
  <2>1. Fr(stack, h).n \in Objs
    BY <1>5 DEF Shape, FieldsOK
  <2>2. Fr(stack, h).n \in valid
    BY <1>5, <2>1 DEF HeldValid, Holds, HoldLabels
  <2> QED BY <1>5, <2>2 DEF Steady, StorageOK
<1>10. NamedZvals'
  BY <1>2, <1>4, <1>5 DEF Steady, NamedZvals
<1>11. RootArrays'
  BY <1>2, <1>5 DEF Steady, RootArrays
<1>12. ReturnOK'
  <2> SUFFICES ASSUME NEW h \in 1..Len(stack), Fr(stack, h).at = "destructors", Fr(stack, h).n # 0
               PROVE  /\ Fr(stack, h).n \in called'
                      /\ Denoting(kind', to', Fr(stack, h).n) \cap Fr(stack, h).list # {}
    BY <1>2 DEF ReturnOK
  <2>1. Fr(stack, h).n \in Objs
    BY <1>5 DEF Shape, FieldsOK
  <2>2. Fr(stack, h).n \in valid /\ Fr(stack, h).n \in called
    BY <1>5, <2>1 DEF HeldValid, Holds, HoldLabels, ReturnOK
  <2>3. PICK y \in Fr(stack, h).list : kind[y] = "object" /\ to[y] = Fr(stack, h).n
    BY <1>5 DEF ReturnOK, Denoting
  <2>4. y \in Zvals /\ kind'[y] = "object" /\ to'[y] = Fr(stack, h).n
    BY <1>4, <2>3 DEF Steady
  <2> QED BY <2>2, <2>3, <2>4 DEF Steady, Denoting
<1>13. DyingHeap'
  <2> SUFFICES ASSUME NEW z \in Dying
               PROVE  /\ z \in Zvals \ Listed /\ kind'[z] \in {"array", "object"} /\ elems'[z] = {}
                      /\ \A v \in Vars : var'[v] # z
                      /\ \A m \in Nodes : z \notin elems'[m]
    BY <1>2 DEF DyingHeap
  <2> QED BY <1>5 DEF DyingHeap, Steady
<1>14. \A z \in Listed : kind'[z] = kind[z] /\ to'[z] = to[z]
  <2>1. \A z \in Listed : kind[z] # "none"
    BY <1>1, <1>5 DEF FramesHold, Views
  <2> QED BY <1>1, <2>1 DEF Steady
<1>15. Pending'
  <2> SUFFICES ASSUME NEW o \in valid', rc'[o] = 0
               PROVE  Denoting(kind', to', o) \cap Parts(stack, 4) # {}
    BY <1>2 DEF Pending
  <2>1. o \in valid /\ rc[o] = 0
    BY DEF Steady
  <2>2. Denoting(kind', to', o) = Denoting(kind, to, o)
    BY <2>1 DEF Steady
  <2> QED BY <1>5, <2>1, <2>2 DEF Pending
<1>16. CalledFirst'
  <2> SUFFICES ASSUME NEW h \in 1..Len(stack), Fr(stack, h).at = "destroy", NEW z \in Fr(stack, h).todo,
                      kind'[z] = "object", to'[z] \in valid', rc'[to'[z]] = 0
               PROVE  \/ to'[z] \in called'
                      \/ \E j \in h + 1..Len(stack) : /\ Fr(stack, j).at = "destructors"
                                                      /\ Denoting(kind', to', to'[z]) \cap Fr(stack, j).list # {}
    BY <1>2 DEF CalledFirst, Garbage
  <2>1. z \in Listed
    BY <1>1, <1>5 DEF Shape, FieldsOK, Views
  <2>2. kind[z] = "object" /\ to'[z] = to[z]
    BY <1>14, <2>1
  <2>3. to[z] \in valid /\ rc[to[z]] = 0
    BY <2>2 DEF Steady
  <2>4. Denoting(kind', to', to[z]) = Denoting(kind, to, to[z]) /\ (to[z] \in called => to[z] \in called')
    BY <2>3 DEF Steady
  <2>5. \/ to[z] \in called
        \/ \E j \in h + 1..Len(stack) : /\ Fr(stack, j).at = "destructors"
                                        /\ Denoting(kind, to, to[z]) \cap Fr(stack, j).list # {}
    BY <1>5, <2>2, <2>3 DEF CalledFirst, Garbage
  <2> QED BY <2>2, <2>4, <2>5
<1>17. SealedVars' /\ SealedFrames'
  <2>1. \A h \in 1..Len(stack) : Sealing(Fr(stack, h)) => \A z \in Fr(stack, h).list : z \in Locked
    BY <1>4 DEF Locked
  <2>2. SealedVars'
    BY <1>2, <2>1 DEF Steady, SealedVars
  <2>3. SealedFrames'
    BY <1>2, <1>5 DEF SealedFrames
  <2> QED BY <2>2, <2>3
<1>18. SealedElems'
  <2> SUFFICES ASSUME NEW h \in 1..Len(stack), Sealing(Fr(stack, h)),
                      NEW z \in Fr(stack, h).list, NEW m \in Nodes, z \in elems'[m], m \notin Fr(stack, h).list
               PROVE  /\ m \in valid' /\ rc'[m] = 0
                      /\ Denoting(kind', to', m) \subseteq Part(Fr(stack, h), 4) \cup Dying
                      /\ Denoting(kind', to', m) \cap Part(Fr(stack, h), 4) # {}
    BY <1>2 DEF SealedElems, Condemned
  <2>1. z \in Locked
    BY <1>4 DEF Locked
  <2>2. z \in elems[m]
    BY <2>1 DEF Steady
  <2>3. ~ GivenBack(h, m)
    BY DEF GivenBack, InScript, At
  <2>4. /\ m \in valid /\ rc[m] = 0
        /\ Denoting(kind, to, m) \subseteq Part(Fr(stack, h), 4) \cup Dying
        /\ Denoting(kind, to, m) \cap Part(Fr(stack, h), 4) # {}
    BY <1>5, <2>2, <2>3 DEF SealedElems, Condemned
  <2>5. rc'[m] = 0 /\ Denoting(kind', to', m) = Denoting(kind, to, m) /\ m \in valid'
    BY <2>4 DEF Steady
  <2> QED BY <2>4, <2>5
<1> QED BY <1>3, <1>6, <1>7, <1>8, <1>9, <1>10, <1>11, <1>12, <1>13, <1>15, <1>16, <1>17, <1>18
        DEF Inv, HeapInv, FrameInv, DyingInv, ListInv, SealInv
\* What a statement can get hold of: a variable's zval is allocated and is not
\* being freed; an element of what it can index is neither, nor is it about to be
\* freed with a list.
LEMMA ScriptReach ==
    ASSUME IInv, Sound, InScript
    PROVE  /\ \A v \in Vars : var[v] # 0 => /\ var[v] \in Zvals /\ kind[var[v]] \in {"array", "object"}
                                            /\ var[v] \notin Locked \cup Dying
           /\ This # 0 => This \in valid /\ rc[This] >= 1
           /\ \A c \in Containers : \A e \in elems[c] :
                 /\ e \in Zvals /\ kind[e] \in {"array", "object"} /\ e \notin Locked \cup Dying
           /\ \A c \in Containers : c \in Zvals => kind[c] = "array" /\ c \notin Locked \cup Dying
<1>1. /\ TypeOK /\ Inv /\ FrTypes /\ Views /\ stack \in Seq(Frames) /\ Listed \subseteq Zvals /\ Dying \subseteq Zvals
      /\ Top \in Frames /\ FieldsOK(Top) /\ Listed = Parts(stack, 1)
  BY Context, ListTypes
<1>2. PICK n \in Nat : Len(stack) = n + 1 /\ Fr(stack, n + 1) = Top
  BY Context
<1>3. n + 1 \in 1..Len(stack) /\ Len(stack) \in Nat
  BY <1>2
<1>4. /\ NullsOK /\ ObjCounts /\ VarsHold /\ ElemsHold /\ HeldValid /\ DyingHeap /\ SealedVars /\ SealedElems /\ Shape
  BY <1>1 DEF Inv, HeapInv, FrameInv, DyingInv, ListInv, SealInv
<1>5. ASSUME NEW v \in Vars, var[v] # 0
      PROVE  var[v] \in Zvals /\ kind[var[v]] \in {"array", "object"} /\ var[v] \notin Locked \cup Dying
  <2>1. var[v] \in Zvals
    BY <1>1, <1>5 DEF TypeOK
  <2>2. var[v] \notin Locked
    BY <1>4 DEF Locked, SealedVars
  <2>3. var[v] \notin Dying
    BY <1>4 DEF DyingHeap
  <2> QED BY <1>4, <1>5, <2>1, <2>2, <2>3 DEF VarsHold
<1>6. ASSUME This # 0 PROVE This \in valid /\ rc[This] >= 1
  <2>1. Top.at = "body" /\ This = Top.n
    BY <1>1, <1>6 DEF InScript, At, FieldsOK, This
  <2>2. Top.n \in Objs
    BY <1>1, <2>1 DEF FieldsOK
  <2>3. Holds(Top, This)
    BY <2>1 DEF Holds, HoldLabels
  <2>4. This \in valid
    BY <1>2, <1>3, <1>4, <2>1, <2>2, <2>3 DEF HeldValid
  <2>5. Top \in HoldFrames(This)
    BY <1>1, <2>3 DEF HoldFrames
  <2>6. CountIn(stack, HoldFrames(This)) \in Nat /\ CountIn(stack, HoldFrames(This)) # 0
    BY <1>2, <1>3, <2>5, NoneCounted
  <2>7. Cardinality(Counted(This)) \in Nat
    <3>1. IsFiniteSet(Counted(This))
      BY Sizes, FS_Subset DEF Counted, Denoting
    <3> QED BY <3>1, FS_CardinalityType
  <2>8. rc[This] = Cardinality(Counted(This)) + CountIn(stack, HoldFrames(This))
    BY <1>4, <2>4 DEF ObjCounts
  <2> QED BY <2>4, <2>6, <2>7, <2>8
<1>7. ASSUME NEW c \in Containers
      PROVE  \/ c = This /\ c # 0
             \/ \E v \in Vars : var[v] # 0 /\ ((kind[var[v]] = "array" /\ c = var[v]) \/ (kind[var[v]] = "object" /\ c = to[var[v]]))
  <2>1. c # 0
    BY Sizes DEF Containers
  <2> QED BY <2>1, Zenon DEF Containers
<1>8. ASSUME NEW c \in Containers, c \in Zvals
      PROVE  kind[c] = "array" /\ c \notin Locked \cup Dying
  <2>1. This # c
    BY <1>1, <1>8, Sizes DEF InScript, At, FieldsOK, This
  <2>2. PICK v \in Vars : var[v] # 0 /\ ((kind[var[v]] = "array" /\ c = var[v]) \/ (kind[var[v]] = "object" /\ c = to[var[v]]))
    BY <1>7, <2>1
  <2>3. kind[var[v]] = "object" => to[var[v]] \in Objs
    BY <1>1, <1>5, <2>2 DEF Inv, HeapInv, KindsOK
  <2>4. kind[var[v]] = "array" /\ c = var[v]
    BY <1>8, <2>2, <2>3, Sizes
  <2> QED BY <1>5, <2>2, <2>4
<1>9. ASSUME NEW c \in Containers, NEW h \in 1..Len(stack), Sealing(Fr(stack, h))
      PROVE  c \notin Condemned(Fr(stack, h))
  <2> SUFFICES ASSUME c \in Condemned(Fr(stack, h)) PROVE FALSE
    OBVIOUS
  <2>1. Fr(stack, h).list \subseteq Zvals /\ Part(Fr(stack, h), 4) \subseteq Fr(stack, h).list
    <3>1. FieldsOK(Fr(stack, h)) /\ Fr(stack, h) \in Frames
      BY <1>1, <1>4 DEF Shape, FrTypes
    <3> QED BY <3>1 DEF FieldsOK, Part, Frames
  <2>2. CASE c \in Fr(stack, h).list
    <3>1. c \in Zvals /\ c \in Locked
      BY <1>9, <2>1, <2>2 DEF Locked
    <3> QED BY <1>8, <3>1
  <2>3. CASE /\ c \in valid /\ rc[c] = 0
             /\ Denoting(kind, to, c) \subseteq Part(Fr(stack, h), 4) \cup Dying
    <3>0. c # 0
      BY <1>1, <2>3, Sizes DEF TypeOK
    <3>1. c # This
      BY <1>6, <2>3, <3>0
    <3>2. c \notin Zvals
      BY <1>1, <2>3, Sizes DEF TypeOK
    <3>3. PICK v \in Vars : var[v] # 0 /\ ((kind[var[v]] = "array" /\ c = var[v]) \/ (kind[var[v]] = "object" /\ c = to[var[v]]))
      BY <1>7, <3>1
    <3>4. var[v] \in Denoting(kind, to, c)
      BY <1>5, <3>2, <3>3 DEF Denoting
    <3>5. var[v] \in Fr(stack, h).list
      BY <1>5, <2>1, <2>3, <3>3, <3>4
    <3> QED BY <1>9, <3>5, <1>4 DEF SealedVars
  <2> QED BY <2>2, <2>3 DEF Condemned
<1>10. ASSUME NEW c \in Containers, NEW e \in elems[c]
       PROVE  e \in Zvals /\ kind[e] \in {"array", "object"} /\ e \notin Locked \cup Dying
  <2>1. c \in Nodes /\ e \in Zvals
    BY <1>1 DEF Containers, TypeOK
  <2>2. e \notin Dying
    BY <1>4, <2>1 DEF DyingHeap
  <2>3. e \notin Locked
    <3> SUFFICES ASSUME NEW h \in 1..Len(stack), Sealing(Fr(stack, h)), e \in Fr(stack, h).list
                 PROVE  FALSE
      BY DEF Locked
    <3>1. c \in Condemned(Fr(stack, h)) \/ GivenBack(h, c)
      BY <1>4, <2>1 DEF SealedElems
    <3>2. ~ GivenBack(h, c)
      BY DEF GivenBack, InScript, At
    <3> QED BY <1>9, <3>1, <3>2
  <2>4. kind[e] # "none"
    BY <1>4, <2>1 DEF ElemsHold
  <2>5. kind[e] # "null"
    <3> SUFFICES ASSUME kind[e] = "null" PROVE FALSE
      OBVIOUS
    <3>1. e \in Parts(stack, 3)
      BY <1>4, <2>1 DEF NullsOK
    <3>2. PICK h \in 1..Len(stack) : e \in Part(Fr(stack, h), 3)
      BY <3>1, PartMember
    <3>3. Sealing(Fr(stack, h)) /\ e \in Fr(stack, h).list
      BY <3>2 DEF Part, Sealing
    <3> QED BY <2>1, <2>3, <3>3 DEF Locked
  <2>6. kind[e] \in {"none", "array", "object", "null"}
    BY <1>1, <2>1 DEF TypeOK
  <2> QED BY <2>1, <2>2, <2>3, <2>4, <2>5, <2>6
<1> QED BY <1>5, <1>6, <1>8, <1>10
\* The root buffer, where no zval is given up and the stack stays.
LEMMA BufferKept ==
    ASSUME Inv, UNCHANGED <<stack, buf, addr>>, \A z \in Zvals : kind[z] # "none" => kind'[z] # "none"
    PROVE  BufInv' /\ DyingBuf' /\ ListedBuf'
<1>1. Listed' = Listed /\ Dying' = Dying /\ buf' = buf /\ addr' = addr
  BY DEF Listed, Dying
<1>2. BufInv /\ DyingBuf /\ ListedBuf
  BY DEF Inv, DyingInv, ListInv
<1> QED BY <1>1, <1>2 DEF BufInv, DyingBuf, ListedBuf

\* Storage is freed of objects.
LEMMA StorageObjs ==
    ASSUME IInv, Sound
    PROVE  \A h \in 1..Len(stack) : Fr(stack, h).at = "storage" => Fr(stack, h).n \in Objs
<1>1. Shape
  BY Context DEF Inv
<1> QED BY <1>1 DEF Shape, FieldsOK

\* A variable that held nothing gets a reference to x.
Binding(v, x) ==
    /\ var[v] = 0 /\ kind[x] \in {"array", "object"} /\ x \notin Locked \cup Dying
    /\ var' = [var EXCEPT ![v] = x] /\ rc' = [rc EXCEPT ![x] = @ + 1]
    /\ UNCHANGED <<kind, to, elems, valid, called, buffer, stack, ghosts>> /\ steps' \in 0..MaxSteps

LEMMA BindStep ==
    ASSUME IInv, Sound, InScript, NEW v \in Vars, NEW x \in Zvals, Binding(v, x)
    PROVE  TypeOK' /\ Inv'
<1>1. TypeOK /\ Inv /\ stack \in Seq(Frames) /\ stack # <<>> /\ 0 \notin Zvals /\ Zvals \subseteq Nodes
      /\ Zvals \cap Objs = {}
  BY Context, Sizes
<1>0. /\ var[v] = 0 /\ kind[x] \in {"array", "object"} /\ x \notin Locked \cup Dying /\ steps' \in 0..MaxSteps
      /\ var' = [var EXCEPT ![v] = x] /\ rc' = [rc EXCEPT ![x] = rc[x] + 1]
  BY DEF Binding
<1>2. /\ kind' = kind /\ to' = to /\ elems' = elems /\ valid' = valid /\ called' = called
      /\ buf' = buf /\ addr' = addr /\ purple' = purple /\ stack' = stack /\ lost' = lost
  BY DEF Binding, buffer, ghosts
<1>3. Listed' = Listed /\ Dying' = Dying
  BY <1>2 DEF Listed, Dying
<1>4. rc \in [Nodes -> Nat] /\ var \in [Vars -> Zvals \cup {0}] /\ valid \subseteq Objs
  BY <1>1 DEF TypeOK
<1>5. rc'[x] = rc[x] + 1 /\ \A m \in Nodes \ {x} : rc'[m] = rc[m]
  BY <1>0, <1>1, <1>4
<1>6. \A u \in Vars \ {v} : var'[u] = var[u]
  BY <1>0, <1>4
<1>7. var'[v] = x
  BY <1>0, <1>4
<1>8. TypeOK'
  <2>1. rc' \in [Nodes -> Nat]
    <3>1. x \in Nodes /\ rc[x] + 1 \in Nat
      BY <1>1, <1>4
    <3> QED BY <1>0, <1>4, <3>1
  <2>2. var' \in [Vars -> Zvals \cup {0}]
    BY <1>0, <1>4
  <2> QED BY <1>0, <1>1, <1>2, <2>1, <2>2 DEF TypeOK
<1>9. Steady
  <2>1. \A h \in 1..Len(stack) : Fr(stack, h).at = "storage" =>
          rc'[Fr(stack, h).n] = rc[Fr(stack, h).n] /\ elems'[Fr(stack, h).n] = elems[Fr(stack, h).n]
    <3>1. \A o \in Objs : o \in Nodes \ {x}
      BY <1>1 DEF Nodes
    <3> QED BY <1>2, <1>5, <3>1, StorageObjs
  <2>2. \A o \in valid : rc'[o] = rc[o]
    BY <1>1, <1>4, <1>5 DEF Nodes
  <2>3. \A z \in Locked \cup Dying : \A u \in Vars : var'[u] # z
    <3>1. \A z \in Locked \cup Dying : \A u \in Vars : var[u] # z
      <4>1. \A z \in Locked \cup Dying : z # 0
        BY <1>1, ListTypes DEF Locked
      <4> QED BY <4>1, ScriptReach
    <3> QED BY <1>0, <1>6, <1>7, <3>1
  <2> QED BY <1>2, <2>1, <2>2, <2>3 DEF Steady
<1>10. BufInv' /\ DyingBuf' /\ ListedBuf'
  BY <1>1, <1>2, BufferKept
<1>11. KindsOK' /\ ElemsHold' /\ ZvalsHold'
  <2>1. KindsOK /\ ElemsHold /\ ZvalsHold
    BY <1>1 DEF Inv, HeapInv
  <2>2. \A o \in Objs : rc'[o] = rc[o]
    BY <1>1, <1>5 DEF Nodes
  <2> QED BY <1>2, <1>3, <2>1, <2>2 DEF KindsOK, ElemsHold, ZvalsHold
<1>12. VarsHold'
  <2>1. VarsHold
    BY <1>1 DEF Inv, HeapInv
  <2> QED BY <1>0, <1>2, <1>6, <1>7, <2>1 DEF VarsHold
<1>13. ZvalCounts'
  <2> SUFFICES ASSUME NEW z \in Zvals, kind[z] # "none"
               PROVE  rc'[z] = VarRefs(var', z) + ElemRefs(elems, z) + CountIn(stack, RefFrames(z)) + ListRef(z)
    BY <1>2, <1>3 DEF ZvalCounts, ListRef
  <2>1. rc[z] = VarRefs(var, z) + ElemRefs(elems, z) + CountIn(stack, RefFrames(z)) + ListRef(z)
    BY <1>1 DEF Inv, HeapInv, ZvalCounts
  <2>2. /\ VarRefs(var, z) \in Nat
        /\ z # var[v] /\ z = x => VarRefs(var', z) = VarRefs(var, z) + 1
        /\ z # var[v] /\ z # x => VarRefs(var', z) = VarRefs(var, z)
    <3>1. x \in Zvals \cup {0}
      OBVIOUS
    <3>2. PICK f \in [Vars -> Zvals \cup {0}] : f = var
      BY <1>4
    <3>3. /\ VarRefs(f, z) \in Nat
          /\ z # f[v] /\ z = x => VarRefs([f EXCEPT ![v] = x], z) = VarRefs(f, z) + 1
          /\ z # f[v] /\ z # x => VarRefs([f EXCEPT ![v] = x], z) = VarRefs(f, z)
      BY <3>1, VarSet
    <3> QED BY <1>0, <3>2, <3>3
  <2>3. ElemRefs(elems, z) \in Nat /\ CountIn(stack, RefFrames(z)) \in Nat /\ ListRef(z) \in Nat
    BY <1>1, NoneCounted, FrFacts DEF ListRef
  <2>4. var[v] # z
    BY <1>0, <1>1
  <2>5. CASE z = x
    <3>1. VarRefs(var', z) = VarRefs(var, z) + 1 /\ rc'[z] = rc[z] + 1
      BY <1>5, <1>7, <2>2, <2>4, <2>5
    <3> HIDE DEF VarRefs, ElemRefs, CountIn, ListRef
    <3> QED BY <2>1, <2>2, <2>3, <3>1
  <2>6. CASE z # x
    <3>1. VarRefs(var', z) = VarRefs(var, z) /\ rc'[z] = rc[z]
      BY <1>1, <1>5, <1>7, <2>2, <2>4, <2>6
    <3> QED BY <2>1, <3>1
  <2> QED BY <2>5, <2>6
<1>14. ObjCounts'
  <2>1. ObjCounts
    BY <1>1 DEF Inv, HeapInv
  <2>2. \A o \in valid : rc'[o] = rc[o]
    BY <1>1, <1>4, <1>5 DEF Nodes
  <2> QED BY <1>2, <1>3, <2>1, <2>2 DEF ObjCounts, Counted
<1> QED BY <1>8, <1>9, <1>10, <1>11, <1>12, <1>13, <1>14, SteadyStep

LEMMA AliasStep ==
    ASSUME IInv, Sound, NEW v \in Vars, NEW w \in Vars, Alias(v, w)
    PROVE  TypeOK' /\ (Sound' => Inv')
<1>1. InScript /\ var[v] = 0 /\ var[w] # 0 /\ steps < MaxSteps /\ steps' = steps + 1
  BY DEF Alias, Statement
<1>2. steps' \in 0..MaxSteps
  BY <1>1, Context, Sizes DEF TypeOK
<1>3. var[w] \in Zvals /\ kind[var[w]] \in {"array", "object"} /\ var[w] \notin Locked \cup Dying
  BY <1>1, ScriptReach
<1>4. Binding(v, var[w])
  BY <1>1, <1>2, <1>3 DEF Alias, Binding
<1> QED BY <1>1, <1>3, <1>4, BindStep

LEMMA FetchStep ==
    ASSUME IInv, Sound, NEW v \in Vars, NEW c \in Nodes, Fetch(v, c)
    PROVE  TypeOK' /\ (Sound' => Inv')
<1>1. /\ InScript /\ var[v] = 0 /\ c \in Containers /\ steps < MaxSteps /\ steps' = steps + 1
      /\ UNCHANGED <<kind, to, elems, valid, called, buffer, stack, ghosts>>
  BY DEF Fetch, Statement
<1>2. steps' \in 0..MaxSteps
  BY <1>1, Context, Sizes DEF TypeOK
<1>3. PICK e \in elems[c] : var' = [var EXCEPT ![v] = e] /\ rc' = [rc EXCEPT ![e] = @ + 1]
  BY DEF Fetch
<1>4. e \in Zvals /\ kind[e] \in {"array", "object"} /\ e \notin Locked \cup Dying
  BY <1>1, <1>3, ScriptReach
<1>5. Binding(v, e)
  BY <1>1, <1>2, <1>3, <1>4 DEF Binding
<1> QED BY <1>1, <1>4, <1>5, BindStep
\* An element or a property gets a reference, in a container that is not gone.
LEMMA NotGone ==
    ASSUME IInv, Sound, NEW c \in Objs, ~ Gone(c)
    PROVE  /\ c \in valid
           /\ \A h \in 1..Len(stack) : Fr(stack, h).at = "storage" => Fr(stack, h).n # c
<1>1. (\E k \in DOMAIN stack : stack[k].at = "storage" /\ stack[k].n = c)
          <=> (\E h \in 1..Len(stack) : Fr(stack, h).at = "storage" /\ Fr(stack, h).n = c)
  <2>1. stack \in Seq(Frames)
    BY Context
  <2>2. \A o : (\E k \in DOMAIN stack : stack[k].at = "storage" /\ stack[k].n = o)
          <=> (\E h \in 1..Len(stack) : Fr(stack, h).at = "storage" /\ Fr(stack, h).n = o)
    BY <2>1, SetViews
  <2> QED BY <2>2, Zenon
<1> QED BY <1>1 DEF Gone

LEMMA StoreStep ==
    ASSUME IInv, Sound, NEW w \in Vars, NEW c \in Nodes, Store(c, w)
    PROVE  TypeOK' /\ (Sound' => Inv')
<1>1. /\ TypeOK /\ Inv /\ stack \in Seq(Frames) /\ stack # <<>> /\ 0 \notin Zvals /\ Zvals \subseteq Nodes
      /\ Zvals \cap Objs = {} /\ Objs \subseteq Nodes
  BY Context, Sizes
<1>2. /\ InScript /\ c \in Containers /\ var[w] # 0 /\ var[w] \notin elems[c]
      /\ steps < MaxSteps /\ steps' = steps + 1
      /\ UNCHANGED <<kind, to, valid, called, var, buffer, stack, lost>>
  BY DEF Store, Statement
<1>3. steps' \in 0..MaxSteps
  BY <1>1, <1>2, Sizes DEF TypeOK
<1>4. PICK x \in Zvals : x = var[w] /\ kind[x] \in {"array", "object"} /\ x \notin Locked \cup Dying
  BY <1>2, ScriptReach
<1>5. elems' = [elems EXCEPT ![c] = elems[c] \cup {x}] /\ rc' = [rc EXCEPT ![x] = rc[x] + 1]
  BY <1>4 DEF Store
<1>6. Sound' => ~ Gone(c)
  BY Zenon DEF Store, Sound
<1>7. /\ kind' = kind /\ to' = to /\ valid' = valid /\ called' = called /\ var' = var
      /\ buf' = buf /\ addr' = addr /\ purple' = purple /\ stack' = stack /\ lost' = lost
  BY <1>2 DEF buffer
<1>8. Listed' = Listed /\ Dying' = Dying
  BY <1>7 DEF Listed, Dying
<1>9. rc \in [Nodes -> Nat] /\ elems \in [Nodes -> SUBSET Zvals] /\ valid \subseteq Objs
  BY <1>1 DEF TypeOK
<1>10. rc'[x] = rc[x] + 1 /\ \A m \in Nodes \ {x} : rc'[m] = rc[m]
  BY <1>1, <1>5, <1>9
<1>11. elems'[c] = elems[c] \cup {x} /\ \A m \in Nodes \ {c} : elems'[m] = elems[m]
  BY <1>5, <1>9
<1>12. TypeOK'
  <2>1. rc' \in [Nodes -> Nat]
    <3>1. x \in Nodes /\ rc[x] + 1 \in Nat
      BY <1>1, <1>9
    <3> QED BY <1>5, <1>9, <3>1
  <2>2. elems' \in [Nodes -> SUBSET Zvals]
    BY <1>5, <1>9
  <2> QED BY <1>1, <1>3, <1>7, <2>1, <2>2 DEF TypeOK
<1>13. \A o \in Objs : rc'[o] = rc[o]
  BY <1>1, <1>10
<1> SUFFICES ASSUME Sound' PROVE Inv'
  BY <1>12
<1>14. c \in Objs => c \in valid /\ \A h \in 1..Len(stack) : Fr(stack, h).at = "storage" => Fr(stack, h).n # c
  BY <1>6, NotGone
<1>15. c \in Zvals => kind[c] = "array" /\ c \notin Locked \cup Dying
  BY <1>2, ScriptReach
<1>16. Steady
  <2>1. \A h \in 1..Len(stack) : Fr(stack, h).at = "storage" =>
          rc'[Fr(stack, h).n] = rc[Fr(stack, h).n] /\ elems'[Fr(stack, h).n] = elems[Fr(stack, h).n]
    <3> SUFFICES ASSUME NEW h \in 1..Len(stack), Fr(stack, h).at = "storage"
                 PROVE  rc'[Fr(stack, h).n] = rc[Fr(stack, h).n] /\ elems'[Fr(stack, h).n] = elems[Fr(stack, h).n]
      OBVIOUS
    <3>1. Fr(stack, h).n \in Objs
      BY StorageObjs
    <3>2. Fr(stack, h).n # c
      BY <1>14, <3>1
    <3> QED BY <1>1, <1>11, <1>13, <3>1, <3>2
  <2>2. \A z \in Locked \cup Dying : \A v \in Vars : var'[v] # z
    <3>1. \A z \in Locked \cup Dying : z # 0
      BY <1>1, ListTypes DEF Locked
    <3> QED BY <1>2, <1>7, <3>1, ScriptReach
  <2>3. \A z \in Locked \cup Dying : \A m \in Nodes : z \in elems'[m] => z \in elems[m]
    BY <1>4, <1>11
  <2>4. \A z \in Dying : elems'[z] = elems[z]
    BY <1>1, <1>11, <1>15, ListTypes
  <2> QED BY <1>7, <1>9, <1>13, <2>1, <2>2, <2>3, <2>4 DEF Steady
<1>17. BufInv' /\ DyingBuf' /\ ListedBuf'
  BY <1>1, <1>7, BufferKept
<1>18. VarsHold' /\ ZvalsHold'
  <2>1. VarsHold /\ ZvalsHold
    BY <1>1 DEF Inv, HeapInv
  <2> QED BY <1>7, <1>8, <2>1 DEF VarsHold, ZvalsHold
<1>19. ElemsHold'
  <2>1. ElemsHold
    BY <1>1 DEF Inv, HeapInv
  <2> QED BY <1>4, <1>7, <1>11, <2>1 DEF ElemsHold
<1>20. KindsOK'
  <2>1. KindsOK
    BY <1>1 DEF Inv, HeapInv
  <2>2. \A z \in Zvals : kind[z] # "array" => elems'[z] = {}
    BY <1>1, <1>11, <1>15, <2>1 DEF KindsOK
  <2>3. \A o \in Objs \ valid : rc'[o] = 0 /\ elems'[o] = {}
    BY <1>1, <1>11, <1>13, <1>14, <2>1 DEF KindsOK
  <2> QED BY <1>7, <2>1, <2>2, <2>3 DEF KindsOK
<1>21. ZvalCounts'
  <2> SUFFICES ASSUME NEW z \in Zvals, kind[z] # "none"
               PROVE  rc'[z] = VarRefs(var, z) + ElemRefs(elems', z) + CountIn(stack, RefFrames(z)) + ListRef(z)
    BY <1>7, <1>8 DEF ZvalCounts, ListRef
  <2>1. rc[z] = VarRefs(var, z) + ElemRefs(elems, z) + CountIn(stack, RefFrames(z)) + ListRef(z)
    BY <1>1 DEF Inv, HeapInv, ZvalCounts
  <2>2. /\ ElemRefs(elems, z) \in Nat
        /\ z = x => ElemRefs(elems', z) = ElemRefs(elems, z) + 1
        /\ z # x => ElemRefs(elems', z) = ElemRefs(elems, z)
    <3>1. PICK T \in SUBSET Zvals : T = elems[c] \cup {x}
      BY <1>9
    <3>2. PICK f \in [Nodes -> SUBSET Zvals] : f = elems
      BY <1>9
    <3>3. /\ ElemRefs(f, z) \in Nat
          /\ z \notin f[c] /\ z \in T => ElemRefs([f EXCEPT ![c] = T], z) = ElemRefs(f, z) + 1
          /\ (z \in f[c] <=> z \in T) => ElemRefs([f EXCEPT ![c] = T], z) = ElemRefs(f, z)
      BY ElemSet
    <3>4. z = x => z \notin f[c] /\ z \in T
      BY <1>2, <1>4, <3>1, <3>2
    <3>5. z # x => (z \in f[c] <=> z \in T)
      BY <3>1, <3>2
    <3>6. elems' = [f EXCEPT ![c] = T]
      BY <1>5, <3>1, <3>2
    <3> QED BY <3>2, <3>3, <3>4, <3>5, <3>6
  <2>3. VarRefs(var, z) \in Nat /\ CountIn(stack, RefFrames(z)) \in Nat /\ ListRef(z) \in Nat
    BY <1>1, NoneCounted, FrFacts DEF ListRef
  <2>4. CASE z = x
    <3>1. rc'[z] = rc[z] + 1 /\ ElemRefs(elems', z) = ElemRefs(elems, z) + 1
      BY <1>10, <2>2, <2>4
    <3> QED BY <2>1, <2>2, <2>3, <3>1
  <2>5. CASE z # x
    BY <1>1, <1>10, <2>1, <2>2, <2>5
  <2> QED BY <2>4, <2>5
<1>22. ObjCounts'
  <2>1. ObjCounts
    BY <1>1 DEF Inv, HeapInv
  <2> QED BY <1>7, <1>8, <1>9, <1>13, <2>1 DEF ObjCounts, Counted
<1> QED BY <1>2, <1>16, <1>17, <1>18, <1>19, <1>20, <1>21, <1>22, SteadyStep
\* Nothing refers to a zval that is not allocated.
LEMMA NoneZval ==
    ASSUME IInv, Sound, NEW z \in Zvals, kind[z] = "none"
    PROVE  /\ VarRefs(var, z) = 0 /\ ElemRefs(elems, z) = 0 /\ CountIn(stack, RefFrames(z)) = 0
           /\ z \notin Listed /\ z \notin Dying /\ z \notin Locked
           /\ \A v \in Vars : var[v] # z
           /\ \A m \in Nodes : z \notin elems[m]
<1>1. TypeOK /\ Inv /\ stack \in Seq(Frames) /\ FrTypes /\ Views /\ 0 \notin Zvals
  BY Context, Sizes
<1>2. VarsHold /\ ElemsHold /\ FramesHold /\ NamedZvals /\ DyingHeap
  BY <1>1 DEF Inv, HeapInv, FrameInv, DyingInv
<1>3. \A v \in Vars : var[v] # z
  BY <1>1, <1>2 DEF VarsHold
<1>4. \A m \in Nodes : z \notin elems[m]
  BY <1>2 DEF ElemsHold
<1>5. \A h \in 1..Len(stack) : z \notin Fr(stack, h).todo \cup Fr(stack, h).list
  BY <1>2 DEF FramesHold
<1>6. \A h \in 1..Len(stack) : Fr(stack, h).at \in {"ptr_dtor", "resume"} => z # Fr(stack, h).z
  BY <1>1, <1>2 DEF NamedZvals
<1>7. \A h \in 1..Len(stack) : Fr(stack, h) \notin RefFrames(z)
  BY <1>5, <1>6 DEF RefFrames, Refers
<1>8. z \notin Listed /\ z \notin Locked
  BY <1>1, <1>5 DEF Views, Locked
<1>9. z \notin Dying
  BY <1>2 DEF DyingHeap
<1>10. Len(stack) \in Nat
  BY <1>1, FrFacts
<1> QED BY <1>3, <1>4, <1>7, <1>8, <1>9, <1>10, NoneCounted

\* A new zval, in a variable: its count, and that of the others.
LEMMA VarNew ==
    ASSUME NEW f \in [Vars -> Zvals \cup {0}], NEW v \in Vars, NEW z \in Zvals, f[v] = 0, VarRefs(f, z) = 0
    PROVE  /\ VarRefs([f EXCEPT ![v] = z], z) = 1
           /\ \A y \in Zvals : y # z => VarRefs([f EXCEPT ![v] = z], y) = VarRefs(f, y)
<1>1. z # 0 /\ z \in Zvals \cup {0}
  BY Sizes
<1>2. VarRefs([f EXCEPT ![v] = z], z) = 1
  <2>1. z # f[v] /\ z = z => VarRefs([f EXCEPT ![v] = z], z) = VarRefs(f, z) + 1
    BY <1>1, VarSet
  <2> QED BY <1>1, <2>1
<1>3. ASSUME NEW y \in Zvals, y # z PROVE VarRefs([f EXCEPT ![v] = z], y) = VarRefs(f, y)
  <2>1. y # 0
    BY Sizes
  <2>2. y # f[v] /\ y # z => VarRefs([f EXCEPT ![v] = z], y) = VarRefs(f, y)
    BY <1>1, VarSet
  <2> QED BY <1>3, <2>1, <2>2
<1> QED BY <1>2, <1>3

LEMMA NewCounts ==
    ASSUME IInv, Sound, NEW v \in Vars, NEW z \in Zvals, kind[z] = "none", var[v] = 0
    PROVE  /\ VarRefs([var EXCEPT ![v] = z], z) = 1
           /\ \A y \in Zvals : y # z => VarRefs([var EXCEPT ![v] = z], y) = VarRefs(var, y)
<1>1. VarRefs(var, z) = 0 /\ var \in [Vars -> Zvals \cup {0}]
  BY Context, NoneZval DEF TypeOK
<1> QED BY <1>1, VarNew

LEMMA NewArrayStep ==
    ASSUME IInv, Sound, NEW v \in Vars, NewArray(v)
    PROVE  TypeOK' /\ (Sound' => Inv')
<1>1. /\ TypeOK /\ Inv /\ stack \in Seq(Frames) /\ stack # <<>> /\ 0 \notin Zvals /\ Zvals \subseteq Nodes
      /\ Zvals \cap Objs = {} /\ Objs \subseteq Nodes
  BY Context, Sizes
<1>2. PICK z \in Zvals : z = Least(NewZvals) /\ kind[z] = "none"
  <2>1. NewZvals \in SUBSET Nat /\ NewZvals # {}
    BY DEF NewArray, NewZvals, Zvals
  <2> QED BY <2>1, LeastIn DEF NewZvals
<1>3. /\ InScript /\ var[v] = 0 /\ steps < MaxSteps /\ steps' = steps + 1
      /\ kind' = [kind EXCEPT ![z] = "array"] /\ rc' = [rc EXCEPT ![z] = 1] /\ var' = [var EXCEPT ![v] = z]
      /\ purple' = purple \ {z} /\ lost' = lost \ {z}
      /\ to' = to /\ elems' = elems /\ valid' = valid /\ called' = called
      /\ buf' = buf /\ addr' = addr /\ stack' = stack
  BY <1>2 DEF NewArray, Statement
<1>4. Listed' = Listed /\ Dying' = Dying
  BY <1>3 DEF Listed, Dying
<1>5. /\ rc \in [Nodes -> Nat] /\ kind \in [Zvals -> {"none", "array", "object", "null"}]
      /\ var \in [Vars -> Zvals \cup {0}] /\ valid \subseteq Objs
  BY <1>1 DEF TypeOK
<1>6. /\ kind'[z] = "array" /\ \A y \in Zvals \ {z} : kind'[y] = kind[y]
      /\ rc'[z] = 1 /\ \A m \in Nodes \ {z} : rc'[m] = rc[m]
      /\ var'[v] = z /\ \A u \in Vars \ {v} : var'[u] = var[u]
  BY <1>1, <1>3, <1>5
<1>7. TypeOK'
  <2>1. steps' \in 0..MaxSteps
    BY <1>1, <1>3, Sizes DEF TypeOK
  <2>2. rc' \in [Nodes -> Nat]
    BY <1>1, <1>3, <1>5
  <2>3. kind' \in [Zvals -> {"none", "array", "object", "null"}]
    BY <1>3, <1>5
  <2>4. var' \in [Vars -> Zvals \cup {0}]
    BY <1>3, <1>5
  <2> QED BY <1>1, <1>3, <2>1, <2>2, <2>3, <2>4 DEF TypeOK
<1>8. \A o \in Objs : rc'[o] = rc[o]
  BY <1>1, <1>6
<1>9. /\ VarRefs(var, z) = 0 /\ ElemRefs(elems, z) = 0 /\ CountIn(stack, RefFrames(z)) = 0
      /\ z \notin Listed /\ z \notin Dying /\ z \notin Locked
  BY <1>2, NoneZval
<1>10. \A o : Denoting(kind', to', o) = Denoting(kind, to, o)
  BY <1>2, <1>3, <1>6 DEF Denoting
<1>11. Steady
  <2>1. \A h \in 1..Len(stack) : Fr(stack, h).at = "storage" =>
          rc'[Fr(stack, h).n] = rc[Fr(stack, h).n] /\ elems'[Fr(stack, h).n] = elems[Fr(stack, h).n]
    BY <1>3, <1>8, StorageObjs
  <2>2. \A y \in Locked \cup Dying : \A u \in Vars : var'[u] # y
    <3>1. \A y \in Locked \cup Dying : y # 0
      BY <1>1, ListTypes DEF Locked
    <3>2. \A y \in Locked \cup Dying : \A u \in Vars : var[u] # y
      BY <1>3, <3>1, ScriptReach
    <3> QED BY <1>6, <1>9, <3>2
  <2>3. \A y \in Zvals : kind[y] # "none" => kind'[y] = kind[y] /\ to'[y] = to[y]
    BY <1>2, <1>3, <1>6
  <2>4. \A y \in Zvals : kind'[y] = "null" => kind[y] = "null"
    BY <1>6
  <2>5. \A o \in valid : rc'[o] = rc[o]
    BY <1>5, <1>8
  <2> QED BY <1>3, <1>10, <2>1, <2>2, <2>3, <2>4, <2>5 DEF Steady
<1>12. BufInv' /\ DyingBuf' /\ ListedBuf'
  <2>1. \A y \in Zvals : kind[y] # "none" => kind'[y] # "none"
    BY <1>2, <1>6
  <2> QED BY <1>1, <1>3, <2>1, BufferKept
<1>13. VarsHold' /\ ElemsHold' /\ ZvalsHold' /\ KindsOK'
  <2>1. VarsHold /\ ElemsHold /\ ZvalsHold /\ KindsOK
    BY <1>1 DEF Inv, HeapInv
  <2>2. VarsHold'
    BY <1>1, <1>2, <1>5, <1>6, <2>1 DEF VarsHold
  <2>3. ElemsHold'
    <3>1. \A m \in Nodes : \A e \in elems[m] : e \in Zvals
      BY <1>1 DEF TypeOK
    <3> QED BY <1>2, <1>3, <1>6, <2>1, <3>1 DEF ElemsHold
  <2>4. ZvalsHold'
    BY <1>3, <1>4, <1>6, <2>1 DEF ZvalsHold
  <2>5. KindsOK'
    BY <1>2, <1>3, <1>6, <1>8, <2>1 DEF KindsOK
  <2> QED BY <2>2, <2>3, <2>4, <2>5
<1>14. ZvalCounts'
  <2>1. /\ VarRefs(var', z) = 1 /\ \A y \in Zvals : y # z => VarRefs(var', y) = VarRefs(var, y)
    <3>1. /\ VarRefs([var EXCEPT ![v] = z], z) = 1
          /\ \A y \in Zvals : y # z => VarRefs([var EXCEPT ![v] = z], y) = VarRefs(var, y)
      BY <1>2, <1>3, NewCounts
    <3> QED BY <1>3, <3>1
  <2> SUFFICES ASSUME NEW y \in Zvals, kind'[y] # "none"
               PROVE  rc'[y] = VarRefs(var', y) + ElemRefs(elems, y) + CountIn(stack, RefFrames(y)) + ListRef(y)
    BY <1>3, <1>4 DEF ZvalCounts, ListRef
  <2>2. CASE y = z
    <3>1. rc'[y] = 1 /\ VarRefs(var', y) = 1
      BY <1>6, <2>1, <2>2
    <3> QED BY <1>9, <2>2, <3>1 DEF ListRef
  <2>3. CASE y # z
    <3>1. rc[y] = VarRefs(var, y) + ElemRefs(elems, y) + CountIn(stack, RefFrames(y)) + ListRef(y)
      BY <1>1, <1>6, <2>3 DEF Inv, HeapInv, ZvalCounts
    <3> QED BY <1>1, <1>6, <2>1, <2>3, <3>1
  <2> QED BY <2>2, <2>3
<1>15. ObjCounts'
  <2>1. ObjCounts
    BY <1>1 DEF Inv, HeapInv
  <2>2. \A o : Counted(o)' = Counted(o)
    BY <1>4, <1>10 DEF Counted
  <2> QED BY <1>3, <1>5, <1>8, <2>1, <2>2 DEF ObjCounts
<1> QED BY <1>3, <1>7, <1>11, <1>12, <1>13, <1>14, <1>15, SteadyStep
\* The references there are to an object, whether its bucket is in use or not.
LEMMA ObjRefs ==
    ASSUME IInv, Sound, NEW o \in Objs
    PROVE  /\ rc[o] = Cardinality(Counted(o)) + CountIn(stack, HoldFrames(o))
           /\ Cardinality(Counted(o)) \in Nat /\ CountIn(stack, HoldFrames(o)) \in Nat
           /\ IsFiniteSet(Counted(o))
           /\ o \notin valid => rc[o] = 0 /\ elems[o] = {} /\ Counted(o) = {}
                                /\ \A h \in 1..Len(stack) : Fr(stack, h).at = "storage" => Fr(stack, h).n # o
<1>1. TypeOK /\ Inv /\ FrTypes /\ stack \in Seq(Frames)
  BY Context
<1>2. KindsOK /\ ObjCounts /\ ZvalsHold /\ HeldValid
  BY <1>1 DEF Inv, HeapInv, FrameInv
<1>3. Len(stack) \in Nat
  BY <1>1, FrFacts
<1>4. IsFiniteSet(Counted(o))
  BY Sizes, FS_Subset DEF Counted, Denoting
<1>5. Cardinality(Counted(o)) \in Nat /\ CountIn(stack, HoldFrames(o)) \in Nat
  BY <1>3, <1>4, FS_CardinalityType, NoneCounted
<1>6. ASSUME o \notin valid
      PROVE  /\ rc[o] = 0 /\ elems[o] = {} /\ Counted(o) = {} /\ CountIn(stack, HoldFrames(o)) = 0
             /\ \A h \in 1..Len(stack) : Fr(stack, h).at = "storage" => Fr(stack, h).n # o
  <2>1. rc[o] = 0 /\ elems[o] = {}
    BY <1>2, <1>6 DEF KindsOK
  <2>2. Counted(o) = {}
    BY <1>2, <1>6 DEF ZvalsHold, Counted, Denoting
  <2>3. \A h \in 1..Len(stack) : ~ Holds(Fr(stack, h), o)
    BY <1>2, <1>6 DEF HeldValid
  <2>4. CountIn(stack, HoldFrames(o)) = 0
    <3>1. \A h \in 1..Len(stack) : Fr(stack, h) \notin HoldFrames(o)
      BY <2>3 DEF HoldFrames
    <3> QED BY <1>3, <3>1, NoneCounted
  <2>5. \A h \in 1..Len(stack) : Fr(stack, h).at = "storage" => Fr(stack, h).n # o
    BY <2>3 DEF Holds, HoldLabels
  <2> QED BY <2>1, <2>2, <2>4, <2>5
<1>7. rc[o] = Cardinality(Counted(o)) + CountIn(stack, HoldFrames(o))
  <2>1. CASE o \in valid
    BY <1>2, <2>1 DEF ObjCounts
  <2>2. CASE o \notin valid
    <3>1. rc[o] = 0 /\ Counted(o) = {} /\ CountIn(stack, HoldFrames(o)) = 0
      BY <1>6, <2>2
    <3>2. Cardinality(Counted(o)) = 0
      BY <3>1, FS_EmptySet
    <3> QED BY <3>1, <3>2
  <2> QED BY <2>1, <2>2
<1> QED BY <1>4, <1>5, <1>6, <1>7

\* A new object zval z of object o, in a variable that held nothing.
Denotes(v, z, o) ==
    /\ var[v] = 0 /\ kind[z] = "none" /\ Bind(v, z, o)
    /\ UNCHANGED <<elems, buf, stack>> /\ steps' \in 0..MaxSteps
    /\ valid' = valid \cup {o} /\ called \cap valid \subseteq called' /\ called' \in SUBSET Objs
    /\ addr' = addr \/ addr' = [addr EXCEPT ![o] = 0]
    /\ purple' \in SUBSET Nodes /\ lost' \in SUBSET Nodes

LEMMA DenotesStep ==
    ASSUME IInv, Sound, InScript, NEW v \in Vars, NEW z \in Zvals, NEW o \in Objs, Denotes(v, z, o),
           o \in valid => rc[o] >= 1 /\ \A h \in 1..Len(stack) : Fr(stack, h).at = "storage" => Fr(stack, h).n # o
    PROVE  TypeOK' /\ Inv'
<1>1. /\ TypeOK /\ Inv /\ stack \in Seq(Frames) /\ stack # <<>> /\ 0 \notin Zvals /\ Zvals \subseteq Nodes
      /\ Zvals \cap Objs = {} /\ Objs \subseteq Nodes /\ Nodes = Zvals \cup Objs
  BY Context, Sizes
<1>2. /\ var[v] = 0 /\ kind[z] = "none"
      /\ kind' = [kind EXCEPT ![z] = "object"] /\ to' = [to EXCEPT ![z] = o]
      /\ rc' = [rc EXCEPT ![z] = 1, ![o] = @ + 1] /\ var' = [var EXCEPT ![v] = z]
  BY DEF Denotes, Bind
<1>3. /\ elems' = elems /\ buf' = buf /\ stack' = stack /\ steps' \in 0..MaxSteps
      /\ valid' = valid \cup {o} /\ called \cap valid \subseteq called' /\ called' \in SUBSET Objs
      /\ addr' = addr \/ addr' = [addr EXCEPT ![o] = 0]
      /\ purple' \in SUBSET Nodes /\ lost' \in SUBSET Nodes
  BY DEF Denotes
<1>4. Listed' = Listed /\ Dying' = Dying
  BY <1>3 DEF Listed, Dying
<1>5. /\ rc \in [Nodes -> Nat] /\ kind \in [Zvals -> {"none", "array", "object", "null"}]
      /\ to \in [Zvals -> Objs \cup {0}] /\ addr \in [Nodes -> Entries \cup {0}]
      /\ var \in [Vars -> Zvals \cup {0}] /\ valid \subseteq Objs
  BY <1>1 DEF TypeOK
<1>6. z \in Nodes /\ o \in Nodes /\ z # o
  BY <1>1
<1>7. /\ kind'[z] = "object" /\ \A y \in Zvals \ {z} : kind'[y] = kind[y]
      /\ to'[z] = o /\ \A y \in Zvals \ {z} : to'[y] = to[y]
      /\ var'[v] = z /\ \A u \in Vars \ {v} : var'[u] = var[u]
  BY <1>2, <1>5
<1>8. rc'[z] = 1 /\ rc'[o] = rc[o] + 1 /\ \A m \in Nodes \ {z, o} : rc'[m] = rc[m]
  BY <1>2, <1>5, <1>6
<1>9. rc[o] \in Nat /\ rc'[o] # 0
  BY <1>5, <1>6, <1>8
<1>10. \A n \in Nodes : n # o => addr'[n] = addr[n]
  BY <1>3, <1>5
<1>11. addr'[o] = addr[o] \/ addr'[o] = 0
  BY <1>3, <1>5, <1>6
<1>12. TypeOK'
  <2>1. rc' \in [Nodes -> Nat]
    BY <1>2, <1>5, <1>6
  <2>2. kind' \in [Zvals -> {"none", "array", "object", "null"}] /\ to' \in [Zvals -> Objs \cup {0}]
    BY <1>2, <1>5
  <2>3. var' \in [Vars -> Zvals \cup {0}]
    BY <1>2, <1>5
  <2>4. addr' \in [Nodes -> Entries \cup {0}]
    BY <1>3, <1>5
  <2> QED BY <1>1, <1>3, <2>1, <2>2, <2>3, <2>4 DEF TypeOK
<1>13. /\ VarRefs(var, z) = 0 /\ ElemRefs(elems, z) = 0 /\ CountIn(stack, RefFrames(z)) = 0
       /\ z \notin Listed /\ z \notin Dying /\ z \notin Locked
  BY <1>2, NoneZval
<1>14. \A x : x # o => Denoting(kind', to', x) = Denoting(kind, to, x)
  BY <1>2, <1>7 DEF Denoting
<1>15. Denoting(kind', to', o) = Denoting(kind, to, o) \cup {z} /\ z \notin Denoting(kind, to, o)
  BY <1>2, <1>7 DEF Denoting
<1>16. \A h \in 1..Len(stack) : Fr(stack, h).at = "storage" => Fr(stack, h).n # o
  BY ObjRefs
<1>17. Steady
  <2>1. \A h \in 1..Len(stack) : Fr(stack, h).at = "storage" =>
          rc'[Fr(stack, h).n] = rc[Fr(stack, h).n] /\ elems'[Fr(stack, h).n] = elems[Fr(stack, h).n]
    <3> SUFFICES ASSUME NEW h \in 1..Len(stack), Fr(stack, h).at = "storage"
                 PROVE  rc'[Fr(stack, h).n] = rc[Fr(stack, h).n]
      BY <1>3
    <3>1. Fr(stack, h).n \in Objs /\ Fr(stack, h).n # o
      BY <1>16, StorageObjs
    <3> QED BY <1>1, <1>8, <3>1
  <2>2. \A y \in Locked \cup Dying : \A u \in Vars : var'[u] # y
    <3>1. \A y \in Locked \cup Dying : y # 0
      BY <1>1, ListTypes DEF Locked
    <3>2. \A y \in Locked \cup Dying : \A u \in Vars : var[u] # y
      BY <3>1, ScriptReach
    <3> QED BY <1>7, <1>13, <3>2
  <2>3. \A y \in Zvals : kind[y] # "none" => kind'[y] = kind[y] /\ to'[y] = to[y]
    BY <1>2, <1>7
  <2>4. \A y \in Zvals : kind'[y] = "null" => kind[y] = "null"
    BY <1>7
  <2>5. \A x \in valid : rc[x] = 0 => rc'[x] = 0 /\ Denoting(kind', to', x) = Denoting(kind, to, x)
    <3> SUFFICES ASSUME NEW x \in valid, rc[x] = 0
                 PROVE  rc'[x] = 0 /\ Denoting(kind', to', x) = Denoting(kind, to, x)
      OBVIOUS
    <3>1. x # o
      OBVIOUS
    <3>2. x \in Nodes \ {z, o}
      BY <1>1, <1>5, <3>1
    <3> QED BY <1>8, <1>14, <3>1, <3>2
  <2>6. \A x \in valid' : rc'[x] = 0 => x \in valid /\ rc[x] = 0
    <3> SUFFICES ASSUME NEW x \in valid', rc'[x] = 0 PROVE x \in valid /\ rc[x] = 0
      OBVIOUS
    <3>1. x # o
      BY <1>9
    <3>2. x \in valid /\ x \in Nodes \ {z, o}
      BY <1>1, <1>3, <1>5, <3>1
    <3> QED BY <1>8, <3>2
  <2> QED BY <1>3, <2>1, <2>2, <2>3, <2>4, <2>5, <2>6 DEF Steady
<1>18. BufInv' /\ DyingBuf' /\ ListedBuf'
  <2>1. BufInv /\ DyingBuf /\ ListedBuf
    BY <1>1 DEF Inv, DyingInv, ListInv
  <2>2. \A y \in Zvals : kind[y] # "none" => kind'[y] # "none"
    BY <1>2, <1>7
  <2>3. \A y \in Zvals : addr'[y] = addr[y]
    BY <1>1, <1>10
  <2>4. BufInv'
    BY <1>1, <1>3, <1>10, <1>11, <2>1, <2>2, <2>3 DEF BufInv
  <2>5. DyingBuf' /\ ListedBuf'
    BY <1>3, <1>4, <2>1, <2>3, ListTypes DEF DyingBuf, ListedBuf
  <2> QED BY <2>4, <2>5
<1>19. VarsHold' /\ ElemsHold' /\ ZvalsHold' /\ KindsOK'
  <2>1. VarsHold /\ ElemsHold /\ ZvalsHold /\ KindsOK
    BY <1>1 DEF Inv, HeapInv
  <2>2. VarsHold'
    BY <1>1, <1>2, <1>5, <1>7, <2>1 DEF VarsHold
  <2>3. ElemsHold'
    <3>1. \A m \in Nodes : \A e \in elems[m] : e \in Zvals
      BY <1>1 DEF TypeOK
    <3> QED BY <1>2, <1>3, <1>7, <2>1, <3>1 DEF ElemsHold
  <2>4. ZvalsHold'
    BY <1>3, <1>4, <1>7, <2>1 DEF ZvalsHold
  <2>5. KindsOK'
    <3>1. \A y \in Zvals : kind'[y] # "array" => elems[y] = {}
      BY <1>2, <1>7, <2>1 DEF KindsOK
    <3>2. \A y \in Zvals : kind'[y] = "object" => to'[y] \in Objs
      BY <1>7, <2>1 DEF KindsOK
    <3>3. \A x \in Objs \ valid' : rc'[x] = 0 /\ elems[x] = {}
      BY <1>1, <1>3, <1>8, <2>1 DEF KindsOK
    <3> QED BY <1>3, <3>1, <3>2, <3>3 DEF KindsOK
  <2> QED BY <2>2, <2>3, <2>4, <2>5
<1>20. ZvalCounts'
  <2>1. /\ VarRefs(var', z) = 1 /\ \A y \in Zvals : y # z => VarRefs(var', y) = VarRefs(var, y)
    <3>1. /\ VarRefs([var EXCEPT ![v] = z], z) = 1
          /\ \A y \in Zvals : y # z => VarRefs([var EXCEPT ![v] = z], y) = VarRefs(var, y)
      BY <1>2, NewCounts
    <3> QED BY <1>2, <3>1
  <2> SUFFICES ASSUME NEW y \in Zvals, kind'[y] # "none"
               PROVE  rc'[y] = VarRefs(var', y) + ElemRefs(elems, y) + CountIn(stack, RefFrames(y)) + ListRef(y)
    BY <1>3, <1>4 DEF ZvalCounts, ListRef
  <2>2. CASE y = z
    <3>1. rc'[y] = 1 /\ VarRefs(var', y) = 1
      BY <1>8, <2>1, <2>2
    <3> QED BY <1>13, <2>2, <3>1 DEF ListRef
  <2>3. CASE y # z
    <3>1. rc[y] = VarRefs(var, y) + ElemRefs(elems, y) + CountIn(stack, RefFrames(y)) + ListRef(y)
      BY <1>1, <1>7, <2>3 DEF Inv, HeapInv, ZvalCounts
    <3>2. rc'[y] = rc[y]
      BY <1>1, <1>8, <2>3
    <3> QED BY <2>1, <2>3, <3>1, <3>2
  <2> QED BY <2>2, <2>3
<1>21. ObjCounts'
  <2> SUFFICES ASSUME NEW x \in valid'
               PROVE  rc'[x] = Cardinality(Denoting(kind', to', x) \ (Listed \cup Dying)) + CountIn(stack, HoldFrames(x))
    BY <1>3, <1>4 DEF ObjCounts, Counted
  <2>1. CASE x # o
    <3>1. x \in valid /\ x \in Objs /\ x \in Nodes \ {z, o}
      BY <1>1, <1>3, <1>5, <2>1
    <3>2. rc[x] = Cardinality(Counted(x)) + CountIn(stack, HoldFrames(x))
      BY <3>1, ObjRefs
    <3>3. rc'[x] = rc[x] /\ Denoting(kind', to', x) = Denoting(kind, to, x)
      BY <1>8, <1>14, <2>1, <3>1
    <3> QED BY <3>2, <3>3 DEF Counted
  <2>2. CASE x = o
    <3>1. Denoting(kind', to', o) \ (Listed \cup Dying) = Counted(o) \cup {z} /\ z \notin Counted(o)
      BY <1>13, <1>15 DEF Counted
    <3>2. /\ rc[o] = Cardinality(Counted(o)) + CountIn(stack, HoldFrames(o)) /\ IsFiniteSet(Counted(o))
          /\ Cardinality(Counted(o)) \in Nat /\ CountIn(stack, HoldFrames(o)) \in Nat
      BY ObjRefs
    <3>3. Cardinality(Counted(o) \cup {z}) = Cardinality(Counted(o)) + 1
      BY <3>1, <3>2, FS_AddElement
    <3>4. rc'[o] = rc[o] + 1
      BY <1>8
    <3>5. Cardinality(Denoting(kind', to', o) \ (Listed \cup Dying)) = Cardinality(Counted(o)) + 1
      BY <3>1, <3>3
    <3> QED BY <2>2, <3>2, <3>4, <3>5
  <2> QED BY <2>1, <2>2
<1> QED BY <1>3, <1>12, <1>17, <1>18, <1>19, <1>20, <1>21, SteadyStep

\* Two frames hold an object only if it has two references.
LEMMA TwoHolds ==
    ASSUME IInv, Sound, NEW o \in Objs, rc[o] <= 1,
           NEW h \in 1..Len(stack), NEW j \in 1..Len(stack), Holds(Fr(stack, h), o), Holds(Fr(stack, j), o)
    PROVE  h = j /\ Counted(o) = {}
<1>1. FrTypes /\ stack \in Seq(Frames)
  BY Context
<1>2. Len(stack) \in Nat
  BY <1>1, FrFacts
<1>3. /\ rc[o] = Cardinality(Counted(o)) + CountIn(stack, HoldFrames(o)) /\ IsFiniteSet(Counted(o))
      /\ Cardinality(Counted(o)) \in Nat /\ CountIn(stack, HoldFrames(o)) \in Nat
  BY ObjRefs
<1>4. Fr(stack, h) \in HoldFrames(o) /\ Fr(stack, j) \in HoldFrames(o)
  BY <1>1 DEF FrTypes, HoldFrames
<1>5. CountIn(stack, HoldFrames(o)) # 0
  BY <1>2, <1>4, NoneCounted
<1>6. CountIn(stack, HoldFrames(o)) <= 1 /\ Cardinality(Counted(o)) = 0
  BY <1>3, <1>5
<1>7. h = j
  BY <1>2, <1>4, <1>6, OneCounted
<1> QED BY <1>3, <1>6, <1>7, FS_EmptySet

LEMMA KeepThisStep ==
    ASSUME IInv, Sound, NEW v \in Vars, KeepThis(v)
    PROVE  TypeOK' /\ (Sound' => Inv')
<1>1. /\ InScript /\ This # 0 /\ var[v] = 0 /\ steps < MaxSteps /\ steps' = steps + 1
      /\ purple' = purple \ {Least(NewZvals)} /\ lost' = lost \ {Least(NewZvals)}
      /\ UNCHANGED <<elems, valid, called, buf, addr, stack>>
      /\ Bind(v, Least(NewZvals), This)
  BY DEF KeepThis, Statement
<1>2. PICK z \in Zvals : z = Least(NewZvals) /\ kind[z] = "none"
  <2>1. NewZvals \in SUBSET Nat /\ NewZvals # {}
    BY DEF KeepThis, NewZvals, Zvals
  <2> QED BY <2>1, LeastIn DEF NewZvals
<1>3. This \in valid /\ rc[This] >= 1
  BY <1>1, ScriptReach
<1>4. TypeOK /\ Inv /\ stack \in Seq(Frames) /\ FieldsOK(Top)
  BY Context
<1>5. PICK n \in Nat : Len(stack) = n + 1 /\ Fr(stack, n + 1) = Top
  BY Context
<1>6. n + 1 \in 1..Len(stack)
  BY <1>5
<1>7. Top.at = "body" /\ This = Top.n /\ This \in Objs
  BY <1>1, <1>4 DEF InScript, At, FieldsOK, This
<1>8. ASSUME NEW h \in 1..Len(stack), Fr(stack, h).at = "storage", Fr(stack, h).n = This PROVE FALSE
  <2>1. rc[This] <= 1
    BY <1>4, <1>8 DEF Inv, FrameInv, StorageOK
  <2>2. Holds(Fr(stack, h), This) /\ Holds(Fr(stack, n + 1), This)
    BY <1>5, <1>7, <1>8 DEF Holds, HoldLabels
  <2>3. h = n + 1
    BY <1>6, <1>7, <2>1, <2>2, TwoHolds
  <2> QED BY <1>5, <1>7, <1>8, <2>3
<1>9. steps' \in 0..MaxSteps
  BY <1>1, <1>4, Sizes DEF TypeOK
<1>10. called' = called /\ valid' = valid \cup {This} /\ called' \in SUBSET Objs /\ purple' \in SUBSET Nodes /\ lost' \in SUBSET Nodes
  BY <1>1, <1>3, <1>4 DEF TypeOK
<1>11. Denotes(v, z, This)
  <2>1. Bind(v, z, This)
    BY <1>1, <1>2
  <2> QED BY <1>1, <1>2, <1>9, <1>10, <2>1 DEF Denotes
<1> QED BY <1>1, <1>3, <1>7, <1>8, <1>11, DenotesStep

LEMMA NewObjectStep ==
    ASSUME IInv, Sound, NEW v \in Vars, NewObject(v)
    PROVE  TypeOK' /\ (Sound' => Inv')
<1>1. PICK z \in Zvals : z = Least(NewZvals) /\ kind[z] = "none"
  <2>1. NewZvals \in SUBSET Nat /\ NewZvals # {}
    BY DEF NewObject, NewZvals, Zvals
  <2> QED BY <2>1, LeastIn DEF NewZvals
<1>2. PICK o \in Objs : o = Least(NewObjs) /\ o \notin valid
  <2>1. NewObjs \in SUBSET Nat /\ NewObjs # {}
    BY Sizes DEF NewObject, NewObjs
  <2> QED BY <2>1, LeastIn DEF NewObjs
<1>3. /\ InScript /\ var[v] = 0 /\ steps < MaxSteps /\ steps' = steps + 1
      /\ Bind(v, z, o)
      /\ purple' = purple \ {z, o} /\ lost' = lost \ {z, o}
      /\ addr' = [addr EXCEPT ![o] = 0]
      /\ valid' = valid \cup {o} /\ called' = called \ {o}
      /\ UNCHANGED <<elems, buf, stack>>
  BY <1>1, <1>2 DEF NewObject, Statement
<1>4. TypeOK
  BY Context
<1>5. steps' \in 0..MaxSteps
  BY <1>3, <1>4, Sizes DEF TypeOK
<1>6. called \cap valid \subseteq called' /\ called' \in SUBSET Objs /\ purple' \in SUBSET Nodes /\ lost' \in SUBSET Nodes
  BY <1>2, <1>3, <1>4 DEF TypeOK
<1>7. Denotes(v, z, o)
  BY <1>1, <1>3, <1>5, <1>6 DEF Denotes
<1> QED BY <1>2, <1>3, <1>7, DenotesStep
-----------------------------------------------------------------------------
\* Steps that change counts and references, and nothing of the lists.

\* A new frame of such a step.
Ready(f) ==
    /\ f.at \notin {"destructors", "destroy"} /\ f.list = {}
    /\ \A e \in f.todo : kind[e] # "none"
    /\ \A o \in Objs : Holds(f, o) => o \in valid
    /\ f.at \in {"destructed", "storage"} => f.n \in called'
    /\ f.at = "storage" => rc'[f.n] = 1 /\ elems'[f.n] = {}
    /\ f.at \in {"ptr_dtor", "root", "resume"} /\ f.z # 0 => kind[f.z] # "none"
    /\ f.at = "resume" => f.z \notin Listed
    /\ f.at \in {"root", "resume"} /\ f.n \in Zvals => kind[f.n] = "array" /\ f.n \notin Dying

Calm(b, N) ==
    /\ Moves(stack, stack', b, N) /\ SameParts
    /\ UNCHANGED <<kind, to, valid>> /\ called \subseteq called'
    /\ \A v \in Vars : var'[v] \in {var[v], 0}
    /\ \A n \in Nodes : elems'[n] \subseteq elems[n]
    /\ \A o \in Objs \ valid : rc'[o] = rc[o]
    /\ \A o \in valid : rc'[o] = 0 <=> rc[o] = 0
    /\ \A h \in 1..b : Fr(stack, h).at = "storage" => rc'[Fr(stack, h).n] = rc[Fr(stack, h).n]
    /\ \A h \in 1..b : \A n \in Nodes : GivenBack(h, n) => elems'[n] = {}
    /\ \A f \in N : Ready(f)
    /\ \A h \in 1..Len(stack') : h > b /\ Fr(stack', h).z # 0
              /\ Fr(stack', h).at \in {"del_ref", "destructed", "storage"} =>
          \E j \in 1..h - 1 : Fr(stack', j).at = "free" /\ Fr(stack', j).z = Fr(stack', h).z
    /\ \A h \in 1..Len(stack) : Fr(stack, h).at = "destructors" => h <= b

LEMMA CalmInv ==
    ASSUME IInv, Sound, stack' \in Seq(Frames), NEW b, NEW N, Calm(b, N),
           Shape', DyingFrames', ZvalCounts', ObjCounts', BufInv', DyingBuf', ListedBuf'
    PROVE  Inv'
<1>1. TypeOK /\ Inv /\ FrTypes /\ Views /\ stack \in Seq(Frames) /\ Listed \subseteq Zvals /\ Dying \subseteq Zvals
  BY Context, ListTypes
<1>2. /\ Moves(stack, stack', b, N) /\ SameParts
      /\ kind' = kind /\ to' = to /\ valid' = valid /\ called \subseteq called'
      /\ \A v \in Vars : var'[v] \in {var[v], 0}
      /\ \A n \in Nodes : elems'[n] \subseteq elems[n]
      /\ \A o \in Objs \ valid : rc'[o] = rc[o]
      /\ \A o \in valid : rc'[o] = 0 <=> rc[o] = 0
      /\ \A h \in 1..Len(stack) : Fr(stack, h).at = "destructors" => h <= b
  BY DEF Calm
<1>3. /\ \A h \in 1..b : Fr(stack, h).at = "storage" => rc'[Fr(stack, h).n] = rc[Fr(stack, h).n]
      /\ \A h \in 1..b : \A n \in Nodes : GivenBack(h, n) => elems'[n] = {}
      /\ \A f \in N : Ready(f)
  BY DEF Calm
<1>4. Listed' = Listed /\ Dying' = Dying
  BY <1>1, <1>2, StackViews, NextViews DEF SameParts
<1>5. Zvals \subseteq Nodes /\ Objs \subseteq Nodes /\ 0 \notin Zvals
  BY Sizes
<1>6. \A f \in N : f.at \notin {"destructors", "destroy"} /\ f.list = {} /\ ~ Sealing(f)
  BY <1>3 DEF Ready, Sealing
<1>7. HeapInv'
  <2>1. KindsOK /\ NullsOK /\ VarsHold /\ ElemsHold /\ FramesHold /\ ZvalsHold
    BY <1>1 DEF Inv, HeapInv
  <2>2. KindsOK'
    <3>1. \A z \in Zvals : kind[z] # "array" => elems'[z] = {}
      BY <1>2, <1>5, <2>1 DEF KindsOK
    <3>2. \A o \in Objs \ valid : rc'[o] = 0 /\ elems'[o] = {}
      BY <1>2, <1>5, <2>1 DEF KindsOK
    <3> QED BY <1>2, <2>1, <3>1, <3>2 DEF KindsOK
  <2>3. NullsOK' /\ ZvalsHold'
    BY <1>2, <1>4, <2>1 DEF NullsOK, ZvalsHold, SameParts
  <2>4. VarsHold' /\ ElemsHold'
    BY <1>2, <2>1 DEF VarsHold, ElemsHold
  <2>5. FramesHold'
    <3>1. \A f \in N : \A e \in f.todo \cup f.list : kind'[e] # "none"
      BY <1>2, <1>3 DEF Ready
    <3>2. \A z \in Zvals : kind[z] # "none" => kind'[z] # "none"
      BY <1>2
    <3> QED BY <1>1, <1>2, <2>1, <3>1, <3>2, FramesHoldMove
  <2> QED BY <2>2, <2>3, <2>4, <2>5 DEF HeapInv
<1>8. FrameInv'
  <2>1. HeldValid /\ StorageOK /\ NamedZvals /\ RootArrays /\ OnFree /\ ReturnOK
    BY <1>1 DEF Inv, FrameInv
  <2>2. HeldValid'
    <3>1. \A f \in N : \A o \in Objs : Holds(f, o) => o \in valid'
      BY <1>2, <1>3 DEF Ready
    <3>2. valid \subseteq valid'
      BY <1>2
    <3> QED BY <1>2, <2>1, <3>1, <3>2, HeldValidMove
  <2>3. StorageOK'
    <3>1. \A f \in N : f.at \in {"destructed", "storage"} =>
               /\ f.n \in called'
               /\ f.at = "storage" => rc'[f.n] = 1 /\ elems'[f.n] = {}
      BY <1>3 DEF Ready
    <3>2. \A h \in 1..b : Fr(stack, h).at \in {"destructed", "storage"} =>
               /\ Fr(stack, h).n \in called => Fr(stack, h).n \in called'
               /\ Fr(stack, h).at = "storage" => /\ rc'[Fr(stack, h).n] = rc[Fr(stack, h).n]
                                                 /\ elems'[Fr(stack, h).n] \subseteq elems[Fr(stack, h).n]
      <4> SUFFICES ASSUME NEW h \in 1..b, Fr(stack, h).at \in {"destructed", "storage"}
                   PROVE  /\ Fr(stack, h).n \in called => Fr(stack, h).n \in called'
                          /\ Fr(stack, h).at = "storage" => /\ rc'[Fr(stack, h).n] = rc[Fr(stack, h).n]
                                                            /\ elems'[Fr(stack, h).n] \subseteq elems[Fr(stack, h).n]
        OBVIOUS
      <4>1. h \in 1..Len(stack)
        BY <1>2 DEF Moves, Kept
      <4>2. Fr(stack, h).at = "storage" => Fr(stack, h).n \in Nodes
        BY <1>5, <4>1, StorageObjs
      <4> QED BY <1>2, <1>3, <4>2
    <3> QED BY <1>2, <2>1, <3>1, <3>2, StorageMove
  <2>4. NamedZvals'
    <3>1. \A f \in N : f.at \in {"ptr_dtor", "root", "resume"} /\ f.z # 0 =>
                /\ kind'[f.z] # "none"
                /\ f.at = "resume" => f.z \notin Listed'
      BY <1>2, <1>3, <1>4 DEF Ready
    <3>2. /\ \A z \in Zvals : kind[z] # "none" => kind'[z] # "none"
          /\ Listed' \subseteq Listed
      BY <1>2, <1>4
    <3> QED BY <1>1, <1>2, <2>1, <3>1, <3>2, NamedMove
  <2>5. RootArrays'
    <3>1. \A f \in N : f.at \in {"root", "resume"} /\ f.n \in Zvals =>
                kind'[f.n] = "array" /\ f.n \notin Dying'
      BY <1>2, <1>3, <1>4 DEF Ready
    <3>2. /\ \A z \in Zvals : kind[z] = "array" => kind'[z] = "array"
          /\ Dying' \subseteq Dying
      BY <1>2, <1>4
    <3> QED BY <1>2, <2>1, <3>1, <3>2, RootArraysMove
  <2>6. OnFree'
    <3>1. \A h \in 1..Len(stack') : h > b /\ Fr(stack', h).z # 0
                    /\ Fr(stack', h).at \in {"del_ref", "destructed", "storage"} =>
              \E j \in 1..h - 1 : Fr(stack', j).at = "free" /\ Fr(stack', j).z = Fr(stack', h).z
      BY DEF Calm
    <3> QED BY <1>2, <2>1, <3>1, OnFreeMove
  <2>7. ReturnOK'
    <3> SUFFICES ASSUME NEW h \in 1..Len(stack'), Fr(stack', h).at = "destructors", Fr(stack', h).n # 0
                 PROVE  /\ Fr(stack', h).n \in called'
                        /\ Denoting(kind', to', Fr(stack', h).n) \cap Fr(stack', h).list # {}
      BY DEF ReturnOK
    <3>1. h \in 1..Len(stack) /\ Fr(stack', h) = Fr(stack, h)
      BY <1>2, <1>6, MovesFacts
    <3> QED BY <1>2, <2>1, <3>1 DEF ReturnOK
  <2> QED BY <2>2, <2>3, <2>4, <2>5, <2>6, <2>7 DEF FrameInv
<1>9. DyingHeap'
  <2>1. DyingHeap
    BY <1>1 DEF Inv, DyingInv
  <2> SUFFICES ASSUME NEW z \in Dying
               PROVE  /\ z \in Zvals \ Listed /\ kind[z] \in {"array", "object"} /\ elems'[z] = {}
                      /\ \A v \in Vars : var'[v] # z
                      /\ \A m \in Nodes : z \notin elems'[m]
    BY <1>2, <1>4 DEF DyingHeap
  <2>2. /\ z \in Zvals \ Listed /\ kind[z] \in {"array", "object"} /\ elems[z] = {}
        /\ \A v \in Vars : var[v] # z
        /\ \A m \in Nodes : z \notin elems[m]
    BY <2>1 DEF DyingHeap
  <2> QED BY <1>2, <1>5, <2>2
<1>10. Disjoint' /\ Pending' /\ CalledFirst'
  <2>1. Disjoint /\ Pending /\ CalledFirst /\ Shape
    BY <1>1 DEF Inv, ListInv
  <2>2. Disjoint'
    <3>1. \A h \in 1..Len(stack') : h > b /\ Fr(stack', h).list # {} =>
               h = b + 1 /\ h \in 1..Len(stack) /\ Fr(stack', h).list \subseteq Fr(stack, h).list
      BY <1>2, <1>6 DEF Moves, Kept
    <3> QED BY <1>2, <2>1, <3>1, DisjointMove
  <2>3. Pending'
    BY <1>2, <2>1 DEF Pending, SameParts
  <2>4. CalledFirst'
    <3>1. \A h \in 1..Len(stack) : Fr(stack, h).at = "destructors" =>
               /\ h \in 1..Len(stack') /\ Fr(stack', h).at = "destructors"
               /\ Fr(stack', h).list = Fr(stack, h).list
      BY <1>2 DEF Moves, Kept
    <3>2. \A z \in Listed : kind'[z] = "object" /\ to'[z] \in valid' /\ rc'[to'[z]] = 0 =>
               /\ kind[z] = "object" /\ to'[z] = to[z] /\ to[z] \in valid /\ rc[to[z]] = 0
               /\ to[z] \in called => to[z] \in called'
      BY <1>2
    <3>3. \A z \in Listed : kind[z] = "object" => kind'[z] = "object" /\ to'[z] = to[z]
      BY <1>2
    <3>4. \A f \in N : f.at # "destroy"
      BY <1>6
    <3> QED BY <1>1, <1>2, <2>1, <3>1, <3>2, <3>3, <3>4, CalledFirstMove
  <2> QED BY <2>2, <2>3, <2>4
<1>11. SealInv'
  <2>1. SealedVars /\ SealedElems /\ SealedFrames /\ Shape
    BY <1>1 DEF Inv, SealInv
  <2>2. SealedVars'
    <3>1. \A f \in N : Sealing(f) => \A z \in f.list : \A v \in Vars : var'[v] # z
      BY <1>6
    <3>2. \A v \in Vars : var'[v] \in Listed => var'[v] = var[v]
      BY <1>1, <1>2, <1>5
    <3> QED BY <1>1, <1>2, <2>1, <3>1, <3>2, SealedVarsMove
  <2>3. \A h \in 1..Len(stack') : h > b => ~ Sealing(Fr(stack', h))
    <3>1. b \in Nat /\ \A h \in 1..Len(stack') : h <= b \/ Fr(stack', h) \in N
      BY <1>2 DEF Moves, Kept
    <3>2. \A h \in 1..Len(stack') : h > b => Fr(stack', h) \in N
      BY <3>1
    <3> QED BY <1>6, <3>2
  <2>4. SealedFrames'
    <3>1. \A h \in 1..Len(stack') : h > b /\ Sealing(Fr(stack', h)) =>
               \A z \in Fr(stack', h).list, j \in 1..Len(stack') : Refers(Fr(stack', j), z) => j > h
      BY <2>3
    <3> QED BY <1>2, <2>1, <3>1, SealedFramesMove
  <2>5. SealedElems'
    <3>1. \A n \in Nodes : elems'[n] \cap Listed \subseteq elems[n]
      BY <1>2
    <3>2. \A o \in valid : rc[o] = 0 =>
               /\ o \in valid' /\ rc'[o] = 0
               /\ Denoting(kind', to', o) \subseteq Denoting(kind, to, o)
               /\ Denoting(kind', to', o) \cap Dying \subseteq Dying'
               /\ Denoting(kind, to, o) \cap Listed \subseteq Denoting(kind', to', o)
      BY <1>2, <1>4
    <3> QED BY <1>1, <1>2, <1>3, <2>1, <2>3, <3>1, <3>2, SealedElemsMove
  <2> QED BY <2>2, <2>4, <2>5 DEF SealInv
<1> QED BY <1>7, <1>8, <1>9, <1>10, <1>11 DEF Inv, DyingInv, ListInv
\* The references that a step adds to the stack and takes from it, by its form.
LEMMA Counts ==
    ASSUME stack \in Seq(Frames), stack # <<>>, stack' \in Seq(Frames), NEW F
    PROVE  /\ CountIn(stack, F) \in Nat /\ Bit(Top, F) \in {0, 1}
           /\ Popped(stack, stack') => CountIn(stack', F) = CountIn(stack, F) - Bit(Top, F)
           /\ \A f : Replaced(stack, stack', f) => CountIn(stack', F) = CountIn(stack, F) - Bit(Top, F) + Bit(f, F)
           /\ \A f : Pushed(stack, stack', f) => CountIn(stack', F) = CountIn(stack, F) + Bit(f, F)
           /\ \A f, g : Doubled(stack, stack', f, g) =>
                 CountIn(stack', F) = CountIn(stack, F) - Bit(Top, F) + Bit(g, F) + Bit(f, F)
<1>1. Top = stack[1] /\ Len(stack') \in Nat
  BY DEF Top
<1> QED BY <1>1, CountChanges

\* Where the frames that come and go list nothing, the lists stay.
Bare(f) == \A i \in 1..4 : Part(f, i) = {}

LEMMA BareSteps ==
    ASSUME stack \in Seq(Frames), stack # <<>>, stack' \in Seq(Frames)
    PROVE  /\ \A f : Pushed(stack, stack', f) /\ Bare(f) => SameParts
           /\ Popped(stack, stack') /\ Bare(Top) => SameParts
           /\ \A f : Replaced(stack, stack', f) /\ Bare(Top) /\ Bare(f) => SameParts
           /\ \A f, g : Doubled(stack, stack', f, g) /\ Bare(Top) /\ Bare(f) /\ Bare(g) => SameParts
<1>1. Top = stack[1]
  BY DEF Top
<1>2. \A i : /\ Parts(stack, i) = Below(stack, i) \cup Part(Top, i)
             /\ Popped(stack, stack') => Parts(stack', i) = Below(stack, i)
             /\ \A f : Replaced(stack, stack', f) => Parts(stack', i) = Below(stack, i) \cup Part(f, i)
             /\ \A f : Pushed(stack, stack', f) => Parts(stack', i) = Parts(stack, i) \cup Part(f, i)
             /\ \A f, g : Doubled(stack, stack', f, g) =>
                   Parts(stack', i) = Below(stack, i) \cup Part(g, i) \cup Part(f, i)
  BY <1>1, PartChanges
<1>3. ASSUME \A i \in 1..4 : Parts(stack', i) = Parts(stack, i) PROVE SameParts
  BY <1>3 DEF SameParts
<1>4. ASSUME NEW f, Pushed(stack, stack', f), Bare(f) PROVE SameParts
  <2>1. ASSUME NEW i \in 1..4 PROVE Parts(stack', i) = Parts(stack, i)
    <3>1. Parts(stack', i) = Parts(stack, i) \cup Part(f, i)
      BY <1>2, <1>4
    <3> QED BY <1>4, <3>1 DEF Bare
  <2> QED BY <1>3, <2>1
<1>5. ASSUME Popped(stack, stack'), Bare(Top) PROVE SameParts
  <2>1. ASSUME NEW i \in 1..4 PROVE Parts(stack', i) = Parts(stack, i)
    <3>1. Parts(stack', i) = Below(stack, i) /\ Parts(stack, i) = Below(stack, i) \cup Part(Top, i)
      BY <1>2, <1>5
    <3> QED BY <1>5, <3>1 DEF Bare
  <2> QED BY <1>3, <2>1
<1>6. ASSUME NEW f, Replaced(stack, stack', f), Bare(Top), Bare(f) PROVE SameParts
  <2>1. ASSUME NEW i \in 1..4 PROVE Parts(stack', i) = Parts(stack, i)
    <3>1. /\ Parts(stack', i) = Below(stack, i) \cup Part(f, i)
          /\ Parts(stack, i) = Below(stack, i) \cup Part(Top, i)
      BY <1>2, <1>6
    <3> QED BY <1>6, <3>1 DEF Bare
  <2> QED BY <1>3, <2>1
<1>7. ASSUME NEW f, NEW g, Doubled(stack, stack', f, g), Bare(Top), Bare(f), Bare(g) PROVE SameParts
  <2>1. ASSUME NEW i \in 1..4 PROVE Parts(stack', i) = Parts(stack, i)
    <3>1. /\ Parts(stack', i) = Below(stack, i) \cup Part(g, i) \cup Part(f, i)
          /\ Parts(stack, i) = Below(stack, i) \cup Part(Top, i)
      BY <1>2, <1>7
    <3> QED BY <1>7, <3>1 DEF Bare
  <2> QED BY <1>3, <2>1
<1> QED BY <1>4, <1>5, <1>6, <1>7

\* A statement takes a reference to x away, and zval_ptr_dtor is to drop it.
Dropping(x) ==
    /\ stack' = <<Frame("ptr_dtor", 0, x)>> \o stack
    /\ UNCHANGED <<kind, to, rc, valid, called, buf, addr, purple, lost>> /\ steps' \in 0..MaxSteps
    /\ kind[x] # "none" /\ x \notin Dying
    /\ var' \in [Vars -> Zvals \cup {0}] /\ \A v \in Vars : var'[v] \in {var[v], 0}
    /\ elems' \in [Nodes -> SUBSET Zvals] /\ \A n \in Nodes : elems'[n] \subseteq elems[n]
    /\ \A z \in Zvals : VarRefs(var', z) + ElemRefs(elems', z) + (IF z = x THEN 1 ELSE 0)
                            = VarRefs(var, z) + ElemRefs(elems, z)

LEMMA DropStep ==
    ASSUME IInv, Sound, InScript, NEW x \in Zvals, Dropping(x)
    PROVE  TypeOK' /\ Inv'
<1>1. PICK f : f = Frame("ptr_dtor", 0, x)
  OBVIOUS
<1>2. TypeOK /\ Inv /\ stack \in Seq(Frames) /\ stack # <<>> /\ FrTypes /\ Views /\ Top \in Frames /\ 0 \notin Zvals
  BY Context, Sizes
<1>3. /\ f \in Frames /\ f.at = "ptr_dtor" /\ f.n = 0 /\ f.z = x /\ f.todo = {} /\ f.list = {}
      /\ x # 0
  BY <1>1, <1>2, FrameFields DEF Labels
<1>4. /\ stack' = <<f>> \o stack
      /\ kind' = kind /\ to' = to /\ rc' = rc /\ valid' = valid /\ called' = called
      /\ buf' = buf /\ addr' = addr /\ purple' = purple /\ lost' = lost /\ steps' \in 0..MaxSteps
      /\ kind[x] # "none" /\ x \notin Dying
  BY <1>1 DEF Dropping
<1>5. /\ var' \in [Vars -> Zvals \cup {0}] /\ \A v \in Vars : var'[v] \in {var[v], 0}
      /\ elems' \in [Nodes -> SUBSET Zvals] /\ \A n \in Nodes : elems'[n] \subseteq elems[n]
      /\ \A z \in Zvals : VarRefs(var', z) + ElemRefs(elems', z) + (IF z = x THEN 1 ELSE 0)
                              = VarRefs(var, z) + ElemRefs(elems, z)
  BY DEF Dropping
<1>6. PICK n \in Nat : Len(stack) = n + 1 /\ Fr(stack, n + 1) = Top
  BY Context
<1>7. stack' \in Seq(Frames) /\ stack' # <<>> /\ Pushed(stack, stack', f)
  BY <1>2, <1>3, <1>4, FrPush
<1>8. Moves(stack, stack', n + 1, {f})
  BY <1>2, <1>6, <1>7, AllMoves
<1>9. SameParts
  <2>1. Bare(f)
    BY <1>3 DEF Bare, Part
  <2> QED BY <1>2, <1>7, <2>1, BareSteps
<1>10. Listed' = Listed /\ Dying' = Dying
  BY <1>2, <1>7, <1>9, StackViews, NextViews DEF SameParts
<1>11. TypeOK'
  BY <1>2, <1>4, <1>5, <1>7 DEF TypeOK
<1>12. Shape'
  <2>1. FieldsOK(f)
    BY <1>3 DEF FieldsOK
  <2>2. Calls(Top)
    BY DEF InScript, At, Calls, TopLabels
  <2>3. Shape
    BY <1>2 DEF Inv
  <2> QED BY <1>3, <1>6, <1>7, <2>1, <2>2, <2>3, ShapeSteps
<1>13. DyingFrames'
  <2>1. DyingFrames
    BY <1>2 DEF Inv, DyingInv
  <2>2. \A h \in {f} : h.at # "free" /\ \A z \in Dying : Refers(h, z) => h.at = "resume"
    BY <1>3, <1>4 DEF Refers
  <2> QED BY <1>2, <1>8, <2>1, <2>2, DyingFramesMove
<1>14. BufInv' /\ DyingBuf' /\ ListedBuf'
  <2>1. BufInv /\ DyingBuf /\ ListedBuf
    BY <1>2 DEF Inv, DyingInv, ListInv
  <2> QED BY <1>4, <1>10, <2>1 DEF BufInv, DyingBuf, ListedBuf
<1>15. ZvalCounts'
  <2> SUFFICES ASSUME NEW z \in Zvals, kind[z] # "none"
               PROVE  rc[z] = VarRefs(var', z) + ElemRefs(elems', z) + CountIn(stack', RefFrames(z)) + ListRef(z)
    BY <1>4, <1>10 DEF ZvalCounts, ListRef
  <2>1. rc[z] = VarRefs(var, z) + ElemRefs(elems, z) + CountIn(stack, RefFrames(z)) + ListRef(z)
    BY <1>2 DEF Inv, HeapInv, ZvalCounts
  <2>2. /\ CountIn(stack, RefFrames(z)) \in Nat
        /\ CountIn(stack', RefFrames(z)) = CountIn(stack, RefFrames(z)) + Bit(f, RefFrames(z))
    BY <1>2, <1>7, Counts
  <2>3. Bit(f, RefFrames(z)) = IF z = x THEN 1 ELSE 0
    <3>1. Refers(f, z) <=> z = x
      BY <1>3 DEF Refers
    <3> QED BY <1>3, <3>1, Bits
  <2>4. VarRefs(var, z) \in Nat /\ ElemRefs(elems, z) \in Nat /\ VarRefs(var', z) \in Nat /\ ElemRefs(elems', z) \in Nat
        /\ ListRef(z) \in Nat
    BY NoneCounted DEF ListRef
  <2>5. VarRefs(var', z) + ElemRefs(elems', z) + (IF z = x THEN 1 ELSE 0) = VarRefs(var, z) + ElemRefs(elems, z)
    BY <1>5
  <2> QED BY <2>1, <2>2, <2>3, <2>4, <2>5
<1>16. ObjCounts'
  <2> SUFFICES ASSUME NEW o \in valid
               PROVE  rc[o] = Cardinality(Counted(o)) + CountIn(stack', HoldFrames(o))
    BY <1>4, <1>10 DEF ObjCounts, Counted
  <2>1. rc[o] = Cardinality(Counted(o)) + CountIn(stack, HoldFrames(o))
    BY <1>2 DEF Inv, HeapInv, ObjCounts
  <2>2. /\ CountIn(stack, HoldFrames(o)) \in Nat
        /\ CountIn(stack', HoldFrames(o)) = CountIn(stack, HoldFrames(o)) + Bit(f, HoldFrames(o))
    BY <1>2, <1>7, Counts
  <2>3. Bit(f, HoldFrames(o)) = 0
    <3>1. ~ Holds(f, o)
      BY <1>3 DEF Holds, HoldLabels
    <3> QED BY <1>3, <3>1, Bits
  <2> QED BY <2>1, <2>2, <2>3
<1>17. Calm(n + 1, {f})
  <2>1. \A h \in 1..n + 1 : \A m \in Nodes : GivenBack(h, m) => elems'[m] = {}
    BY DEF GivenBack, InScript, At
  <2>2. Ready(f)
    BY <1>3, <1>4 DEF Ready, Holds, HoldLabels
  <2>3. \A h \in 1..Len(stack') : h > n + 1 => Fr(stack', h) = f
    BY <1>8 DEF Moves
  <2>4. \A h \in 1..Len(stack) : Fr(stack, h).at = "destructors" => h <= n + 1
    BY <1>6
  <2>5. \A h \in 1..Len(stack') : h > n + 1 /\ Fr(stack', h).z # 0
              /\ Fr(stack', h).at \in {"del_ref", "destructed", "storage"} =>
          \E j \in 1..h - 1 : Fr(stack', j).at = "free" /\ Fr(stack', j).z = Fr(stack', h).z
    BY <1>3, <2>3
  <2> QED BY <1>4, <1>5, <1>8, <1>9, <2>1, <2>2, <2>4, <2>5 DEF Calm
<1> QED BY <1>7, <1>11, <1>12, <1>13, <1>14, <1>15, <1>16, <1>17, CalmInv

LEMMA UnsetStep ==
    ASSUME IInv, Sound, NEW v \in Vars, Unset(v)
    PROVE  TypeOK' /\ (Sound' => Inv')
<1>1. TypeOK /\ var \in [Vars -> Zvals \cup {0}]
  BY Context DEF TypeOK
<1>2. /\ InScript /\ var[v] # 0 /\ steps < MaxSteps /\ steps' = steps + 1
      /\ var' = [var EXCEPT ![v] = 0]
      /\ stack' = <<Frame("ptr_dtor", 0, var[v])>> \o stack
      /\ UNCHANGED <<kind, to, elems, rc, valid, called, buf, addr, purple, lost>>
  BY DEF Unset, Statement, Push, heap, buffer, ghosts
<1>3. PICK x \in Zvals : x = var[v] /\ kind[x] # "none" /\ x \notin Dying
  BY <1>2, ScriptReach
<1>4. ASSUME NEW z \in Zvals
      PROVE  VarRefs(var', z) + ElemRefs(elems', z) + (IF z = x THEN 1 ELSE 0) = VarRefs(var, z) + ElemRefs(elems, z)
  <2>1. PICK f \in [Vars -> Zvals \cup {0}] : f = var
    BY <1>1
  <2>2. 0 \in Zvals \cup {0} /\ z # 0
    BY Sizes
  <2>3. /\ VarRefs(f, z) \in Nat
        /\ z = f[v] /\ z # 0 => VarRefs([f EXCEPT ![v] = 0], z) = VarRefs(f, z) - 1
        /\ z # f[v] /\ z # 0 => VarRefs([f EXCEPT ![v] = 0], z) = VarRefs(f, z)
    BY <2>2, VarSet
  <2>4. ElemRefs(elems, z) \in Nat /\ elems' = elems
    BY <1>2, NoneCounted
  <2>5. /\ VarRefs(var, z) \in Nat
        /\ VarRefs(var', z) = IF z = x THEN VarRefs(var, z) - 1 ELSE VarRefs(var, z)
    BY <1>2, <1>3, <2>1, <2>2, <2>3
  <2> QED BY <2>4, <2>5
<1>5. steps' \in 0..MaxSteps
  BY <1>1, <1>2, Sizes DEF TypeOK
<1>6. var' \in [Vars -> Zvals \cup {0}] /\ \A u \in Vars : var'[u] \in {var[u], 0}
  BY <1>1, <1>2
<1>7. elems' \in [Nodes -> SUBSET Zvals] /\ \A n \in Nodes : elems'[n] \subseteq elems[n]
  BY <1>1, <1>2 DEF TypeOK
<1>8. Dropping(x)
  BY <1>2, <1>3, <1>4, <1>5, <1>6, <1>7 DEF Dropping
<1> QED BY <1>2, <1>8, DropStep

LEMMA RemoveStep ==
    ASSUME IInv, Sound, NEW c \in Nodes, Remove(c)
    PROVE  TypeOK' /\ (Sound' => Inv')
<1>1. TypeOK /\ elems \in [Nodes -> SUBSET Zvals]
  BY Context DEF TypeOK
<1>2. /\ InScript /\ c \in Containers /\ steps < MaxSteps /\ steps' = steps + 1
      /\ UNCHANGED <<kind, to, rc, valid, called, var, buf, addr, purple, lost>>
  BY DEF Remove, Statement, buffer, ghosts
<1>3. PICK x \in elems[c] : /\ elems' = [elems EXCEPT ![c] = elems[c] \ {x}]
                            /\ stack' = <<Frame("ptr_dtor", 0, x)>> \o stack
  BY DEF Remove, Push
<1>4. x \in Zvals /\ kind[x] # "none" /\ x \notin Dying
  BY <1>2, <1>3, ScriptReach
<1>5. ASSUME NEW z \in Zvals
      PROVE  VarRefs(var', z) + ElemRefs(elems', z) + (IF z = x THEN 1 ELSE 0) = VarRefs(var, z) + ElemRefs(elems, z)
  <2>1. PICK f \in [Nodes -> SUBSET Zvals] : f = elems
    BY <1>1
  <2>2. PICK T \in SUBSET Zvals : T = elems[c] \ {x}
    BY <1>1
  <2>3. /\ ElemRefs(f, z) \in Nat
        /\ z \in f[c] /\ z \notin T => ElemRefs([f EXCEPT ![c] = T], z) = ElemRefs(f, z) - 1
        /\ (z \in f[c] <=> z \in T) => ElemRefs([f EXCEPT ![c] = T], z) = ElemRefs(f, z)
    BY ElemSet
  <2>4. VarRefs(var, z) \in Nat /\ var' = var
    BY <1>2, NoneCounted
  <2>5. /\ z = x => z \in f[c] /\ z \notin T
        /\ z # x => (z \in f[c] <=> z \in T)
    BY <2>1, <2>2
  <2>6. elems' = [f EXCEPT ![c] = T]
    BY <1>3, <2>1, <2>2
  <2>7. /\ ElemRefs(elems, z) \in Nat
        /\ ElemRefs(elems', z) = IF z = x THEN ElemRefs(elems, z) - 1 ELSE ElemRefs(elems, z)
    BY <2>1, <2>3, <2>5, <2>6
  <2> QED BY <2>4, <2>7
<1>6. steps' \in 0..MaxSteps
  BY <1>1, <1>2, Sizes DEF TypeOK
<1>7. var' \in [Vars -> Zvals \cup {0}] /\ \A u \in Vars : var'[u] \in {var[u], 0}
  BY <1>1, <1>2 DEF TypeOK
<1>8. elems' \in [Nodes -> SUBSET Zvals] /\ \A n \in Nodes : elems'[n] \subseteq elems[n]
  BY <1>1, <1>3
<1>9. Dropping(x)
  BY <1>2, <1>3, <1>4, <1>5, <1>6, <1>7, <1>8 DEF Dropping
<1> QED BY <1>2, <1>4, <1>9, DropStep
\* A function that holds a reference to its zval gives it up: it is done, or goes
\* on to look for a possible root.
Lessening(N) ==
    /\ Top.at \in {"ptr_dtor", "resume"} /\ stack' \in Seq(Frames) /\ stack' # <<>>
    /\ \/ N = {} /\ Popped(stack, stack')
       \/ \E f \in Frames : N = {f} /\ Replaced(stack, stack', f) /\ f.at = "root" /\ FieldsOK(f) /\ Ready(f)
    /\ rc' = IF Top.z = 0 THEN rc ELSE [rc EXCEPT ![Top.z] = @ - 1]
    /\ UNCHANGED <<kind, to, elems, valid, called, var, steps>>
    /\ purple' \in SUBSET Nodes /\ lost' \in SUBSET Nodes
    /\ buf' \in [Entries -> Nodes \cup {0}] /\ addr' \in [Nodes -> Entries \cup {0}]

LEMMA LessenStep ==
    ASSUME IInv, Sound, NEW N, Lessening(N)
    PROVE  TypeOK' /\ (BufInv' /\ DyingBuf' /\ ListedBuf' => Inv')
<1>1. /\ TypeOK /\ Inv /\ stack \in Seq(Frames) /\ stack # <<>> /\ FrTypes /\ Views /\ Top \in Frames /\ FieldsOK(Top)
      /\ Zvals \subseteq Nodes /\ Objs \subseteq Nodes /\ Zvals \cap Objs = {} /\ 0 \notin Zvals
  BY Context, Sizes
<1>2. /\ Top.at \in {"ptr_dtor", "resume"} /\ stack' \in Seq(Frames) /\ stack' # <<>>
      /\ kind' = kind /\ to' = to /\ elems' = elems /\ valid' = valid /\ called' = called /\ var' = var /\ steps' = steps
      /\ purple' \in SUBSET Nodes /\ lost' \in SUBSET Nodes
      /\ buf' \in [Entries -> Nodes \cup {0}] /\ addr' \in [Nodes -> Entries \cup {0}]
  BY DEF Lessening
<1>3. /\ N = {} /\ Popped(stack, stack')
      \/ \E f \in Frames : N = {f} /\ Replaced(stack, stack', f) /\ f.at = "root" /\ FieldsOK(f) /\ Ready(f)
  BY Zenon DEF Lessening
<1>4. PICK n \in Nat : Len(stack) = n + 1 /\ Fr(stack, n + 1) = Top /\ Len(stack) - 1 = n
  BY Context
<1>5. n + 1 \in 1..Len(stack)
  BY <1>4
<1>6. Top.todo = {} /\ Top.list = {} /\ Top.at # "main"
  BY <1>1, <1>2 DEF FieldsOK
<1>7. \A f : f.at = "root" /\ FieldsOK(f) => /\ f.todo = {} /\ f.list = {} /\ Bare(f)
                                             /\ \A z : ~ Refers(f, z)
                                             /\ \A o : ~ Holds(f, o)
  BY DEF FieldsOK, Bare, Part, Refers, Holds, HoldLabels
<1>8. /\ Bare(Top)
      /\ \A z : Refers(Top, z) <=> z = Top.z
      /\ \A o : ~ Holds(Top, o)
  BY <1>2, <1>6 DEF Bare, Part, Refers, Holds, HoldLabels
<1>9. /\ Moves(stack, stack', n, N) /\ SameParts /\ Shape'
      /\ \A f \in N : f.at = "root" /\ FieldsOK(f) /\ Ready(f)
      /\ \A x : /\ CountIn(stack, RefFrames(x)) \in Nat /\ CountIn(stack, HoldFrames(x)) \in Nat
                /\ CountIn(stack', RefFrames(x)) = CountIn(stack, RefFrames(x)) - (IF x = Top.z THEN 1 ELSE 0)
                /\ CountIn(stack', HoldFrames(x)) = CountIn(stack, HoldFrames(x))
  <2>1. Shape
    BY <1>1 DEF Inv
  <2>2. \A x : Bit(Top, RefFrames(x)) = (IF x = Top.z THEN 1 ELSE 0) /\ Bit(Top, HoldFrames(x)) = 0
    BY <1>1, <1>8, Bits
  <2>3. \A x : CountIn(stack, RefFrames(x)) \in Nat /\ CountIn(stack, HoldFrames(x)) \in Nat
    BY <1>1, <1>2, Counts
  <2>4. CASE N = {} /\ Popped(stack, stack')
    <3>1. Moves(stack, stack', n, N) /\ SameParts
      BY <1>1, <1>2, <1>4, <1>8, <2>4, AllMoves, BareSteps
    <3>2. Shape'
      BY <1>4, <1>6, <2>1, <2>4, ShapeSteps
    <3>3. \A F : CountIn(stack', F) = CountIn(stack, F) - Bit(Top, F)
      BY <1>1, <1>2, <2>4, Counts
    <3>4. ASSUME NEW x
          PROVE  /\ CountIn(stack', RefFrames(x)) = CountIn(stack, RefFrames(x)) - (IF x = Top.z THEN 1 ELSE 0)
                 /\ CountIn(stack', HoldFrames(x)) = CountIn(stack, HoldFrames(x))
      <4>1. CountIn(stack', RefFrames(x)) = CountIn(stack, RefFrames(x)) - Bit(Top, RefFrames(x))
        BY <3>3
      <4>2. CountIn(stack', HoldFrames(x)) = CountIn(stack, HoldFrames(x)) - Bit(Top, HoldFrames(x))
        BY <3>3
      <4>3. CountIn(stack, HoldFrames(x)) \in Nat /\ Bit(Top, HoldFrames(x)) = 0
            /\ Bit(Top, RefFrames(x)) = (IF x = Top.z THEN 1 ELSE 0)
        BY <2>2, <2>3
      <4> QED BY <4>1, <4>2, <4>3
    <3> QED BY <2>3, <2>4, <3>1, <3>2, <3>4
  <2>5. CASE \E f \in Frames : N = {f} /\ Replaced(stack, stack', f) /\ f.at = "root" /\ FieldsOK(f) /\ Ready(f)
    <3>0. PICK f \in Frames : N = {f} /\ Replaced(stack, stack', f) /\ f.at = "root" /\ FieldsOK(f) /\ Ready(f)
      BY <2>5
    <3>1. Moves(stack, stack', n, N) /\ SameParts
      BY <1>1, <1>2, <1>4, <1>7, <1>8, <3>0, AllMoves, BareSteps
    <3>2. Shape'
      BY <1>4, <1>6, <2>1, <3>0, ShapeSteps
    <3>3. \A F : CountIn(stack', F) = CountIn(stack, F) - Bit(Top, F) + Bit(f, F)
      BY <1>1, <1>2, <3>0, Counts
    <3>4. \A x : Bit(f, RefFrames(x)) = 0 /\ Bit(f, HoldFrames(x)) = 0
      BY <1>7, <3>0, Bits
    <3>5. ASSUME NEW x
          PROVE  /\ CountIn(stack', RefFrames(x)) = CountIn(stack, RefFrames(x)) - (IF x = Top.z THEN 1 ELSE 0)
                 /\ CountIn(stack', HoldFrames(x)) = CountIn(stack, HoldFrames(x))
      <4>1. CountIn(stack', RefFrames(x)) = CountIn(stack, RefFrames(x)) - Bit(Top, RefFrames(x)) + Bit(f, RefFrames(x))
        BY <3>3
      <4>2. CountIn(stack', HoldFrames(x)) = CountIn(stack, HoldFrames(x)) - Bit(Top, HoldFrames(x)) + Bit(f, HoldFrames(x))
        BY <3>3
      <4>3. CountIn(stack, HoldFrames(x)) \in Nat /\ Bit(Top, HoldFrames(x)) = 0 /\ CountIn(stack, RefFrames(x)) \in Nat
            /\ Bit(Top, RefFrames(x)) = (IF x = Top.z THEN 1 ELSE 0)
        BY <2>2, <2>3
      <4> QED BY <3>4, <4>1, <4>2, <4>3
    <3> QED BY <2>3, <3>0, <3>1, <3>2, <3>5
  <2> QED BY <1>3, <2>4, <2>5
<1>10. Listed' = Listed /\ Dying' = Dying
  BY <1>1, <1>2, <1>9, StackViews, NextViews DEF SameParts
<1>11. rc \in [Nodes -> Nat] /\ valid \subseteq Objs
  BY <1>1 DEF TypeOK
<1>12. Top.z # 0 => Top.z \in Zvals /\ rc[Top.z] - 1 \in Nat
  <2>1. SUFFICES ASSUME Top.z # 0 PROVE Top.z \in Zvals /\ rc[Top.z] - 1 \in Nat
    OBVIOUS
  <2>2. Top.z \in Zvals
    BY <1>1, <2>1 DEF Frames
  <2>3. kind[Top.z] # "none"
    BY <1>1, <1>2, <1>4, <1>5, <2>1 DEF Inv, FrameInv, NamedZvals
  <2>4. rc[Top.z] = VarRefs(var, Top.z) + ElemRefs(elems, Top.z) + CountIn(stack, RefFrames(Top.z)) + ListRef(Top.z)
    BY <1>1, <2>2, <2>3 DEF Inv, HeapInv, ZvalCounts
  <2>5. CountIn(stack, RefFrames(Top.z)) \in Nat /\ CountIn(stack, RefFrames(Top.z)) # 0
    <3>1. Top \in RefFrames(Top.z)
      BY <1>1, <1>8 DEF RefFrames
    <3> QED BY <1>4, <1>5, <1>9, <3>1, NoneCounted
  <2>6. VarRefs(var, Top.z) \in Nat /\ ElemRefs(elems, Top.z) \in Nat /\ ListRef(Top.z) \in Nat
    BY NoneCounted DEF ListRef
  <2> QED BY <2>2, <2>4, <2>5, <2>6
<1>13. /\ Top.z # 0 => rc'[Top.z] = rc[Top.z] - 1
       /\ \A m \in Nodes : m # Top.z => rc'[m] = rc[m]
       /\ rc' \in [Nodes -> Nat]
  <2>1. CASE Top.z = 0
    <3>1. rc' = rc
      BY <2>1 DEF Lessening
    <3> QED BY <1>1, <1>11, <2>1, <3>1
  <2>2. CASE Top.z # 0
    <3>1. rc' = [rc EXCEPT ![Top.z] = rc[Top.z] - 1]
      BY <2>2 DEF Lessening
    <3>2. Top.z \in Nodes
      BY <1>1, <1>12, <2>2
    <3> QED BY <1>11, <1>12, <2>2, <3>1, <3>2
  <2> QED BY <2>1, <2>2
<1>14. TypeOK'
  BY <1>1, <1>2, <1>13 DEF TypeOK
<1>15. \A o \in Objs : rc'[o] = rc[o]
  BY <1>1, <1>12, <1>13
<1>16. DyingFrames'
  <2>1. DyingFrames
    BY <1>1 DEF Inv, DyingInv
  <2>2. \A f \in N : f.at # "free" /\ \A z \in Dying : Refers(f, z) => f.at = "resume"
    BY <1>7, <1>9
  <2> QED BY <1>1, <1>9, <2>1, <2>2, DyingFramesMove
<1>17. ZvalCounts'
  <2> SUFFICES ASSUME NEW z \in Zvals, kind[z] # "none"
               PROVE  rc'[z] = VarRefs(var, z) + ElemRefs(elems, z) + CountIn(stack', RefFrames(z)) + ListRef(z)
    BY <1>2, <1>10 DEF ZvalCounts, ListRef
  <2>1. rc[z] = VarRefs(var, z) + ElemRefs(elems, z) + CountIn(stack, RefFrames(z)) + ListRef(z)
    BY <1>1 DEF Inv, HeapInv, ZvalCounts
  <2>2. VarRefs(var, z) \in Nat /\ ElemRefs(elems, z) \in Nat /\ ListRef(z) \in Nat
    BY NoneCounted DEF ListRef
  <2>3. /\ CountIn(stack, RefFrames(z)) \in Nat
        /\ CountIn(stack', RefFrames(z)) = CountIn(stack, RefFrames(z)) - (IF z = Top.z THEN 1 ELSE 0)
    BY <1>9
  <2>4. rc'[z] = rc[z] - (IF z = Top.z THEN 1 ELSE 0)
    <3>1. rc[z] \in Nat
      BY <1>1, <1>11
    <3> QED BY <1>1, <1>13, <3>1
  <2> QED BY <2>1, <2>2, <2>3, <2>4
<1>18. ObjCounts'
  <2>1. ObjCounts
    BY <1>1 DEF Inv, HeapInv
  <2> QED BY <1>2, <1>9, <1>10, <1>11, <1>15, <2>1 DEF ObjCounts, Counted
<1>19. Calm(n, N)
  <2>1. \A h \in 1..n : \A m \in Nodes : GivenBack(h, m) => elems'[m] = {}
    BY <1>2 DEF GivenBack
  <2>2. \A h \in 1..Len(stack') : h > n => Fr(stack', h) \in N
    BY <1>4, <1>9 DEF Moves
  <2>3. \A h \in 1..Len(stack) : Fr(stack, h).at = "destructors" => h <= n
    BY <1>2, <1>4
  <2>4. \A h \in 1..n : Fr(stack, h).at = "storage" => rc'[Fr(stack, h).n] = rc[Fr(stack, h).n]
    <3>1. \A h \in 1..n : h \in 1..Len(stack)
      BY <1>4
    <3> QED BY <1>15, <3>1, StorageObjs
  <2>5. \A h \in 1..Len(stack') : h > n /\ Fr(stack', h).z # 0
              /\ Fr(stack', h).at \in {"del_ref", "destructed", "storage"} =>
          \E j \in 1..h - 1 : Fr(stack', j).at = "free" /\ Fr(stack', j).z = Fr(stack', h).z
    BY <1>9, <2>2
  <2> QED BY <1>2, <1>9, <1>11, <1>15, <2>1, <2>3, <2>4, <2>5 DEF Calm
<1> QED BY <1>2, <1>9, <1>14, <1>16, <1>17, <1>18, <1>19, CalmInv

\* zval_ptr_dtor where other references are left.
LEMMA DropReferenceStep ==
    ASSUME IInv, Sound, DropReference
    PROVE  TypeOK' /\ (Sound' => Inv')
<1>1. /\ TypeOK /\ Inv /\ stack \in Seq(Frames) /\ stack # <<>> /\ FrTypes /\ Views /\ Top \in Frames /\ FieldsOK(Top)
      /\ Zvals \subseteq Nodes /\ Objs \subseteq Nodes /\ Zvals \cap Objs = {} /\ 0 \notin Zvals /\ 0 \notin Objs
  BY Context, Sizes
<1>2. /\ Top.at = "ptr_dtor" /\ rc[Top.z] > 1 /\ rc' = [rc EXCEPT ![Top.z] = @ - 1]
      /\ UNCHANGED <<kind, to, elems, valid, called, var, buf, addr, purple, lost, steps>>
  BY DEF DropReference, At, buffer, ghosts
<1>3. /\ kind[Top.z] = "array" => stack' = <<Frame("root", Top.z, Top.z)>> \o Tail(stack)
      /\ kind[Top.z] = "object" => stack' = <<Frame("root", to[Top.z], Top.z)>> \o Tail(stack)
      /\ kind[Top.z] \notin {"array", "object"} => stack' = Tail(stack)
  BY DEF DropReference, Replace, Return
<1>4. PICK n \in Nat : Len(stack) = n + 1 /\ Fr(stack, n + 1) = Top /\ Len(stack) - 1 = n
  BY Context
<1>5. n + 1 \in 1..Len(stack)
  BY <1>4
<1>6. Top.z \in Zvals /\ Top.z # 0 /\ Top.list = {} /\ Top.todo = {}
  BY <1>1, <1>2 DEF FieldsOK, Frames
<1>7. kind[Top.z] # "none"
  BY <1>1, <1>2, <1>4, <1>5, <1>6 DEF Inv, FrameInv, NamedZvals
<1>8. Top.z \notin Dying
  <2>1. Refers(Top, Top.z)
    BY <1>2 DEF Refers
  <2>2. DyingFrames
    BY <1>1 DEF Inv, DyingInv
  <2> QED BY <1>1, <1>2, <1>4, <1>5, <2>1, <2>2, DyingApart
<1>9. Bare(Top)
  BY <1>2, <1>6 DEF Bare, Part
<1>10. ASSUME NEW m \in Nodes, m \in Zvals => m = Top.z /\ kind[Top.z] = "array",
              stack' = <<Frame("root", m, Top.z)>> \o Tail(stack)
       PROVE  /\ \E N : Lessening(N)
              /\ SameParts /\ stack' \in Seq(Frames)
  <2>1. PICK f : f = Frame("root", m, Top.z)
    OBVIOUS
  <2>2. /\ f \in Frames /\ f.at = "root" /\ f.n = m /\ f.z = Top.z /\ f.todo = {} /\ f.list = {}
        /\ m # 0
    <3>1. "root" \in Labels /\ m \in Nodes \cup {0} /\ Top.z \in Zvals \cup {0}
      BY <1>6 DEF Labels
    <3>2. m # 0
      BY Sizes
    <3>3. LET g == Frame("root", m, Top.z) IN
          g \in Frames /\ g.at = "root" /\ g.n = m /\ g.z = Top.z /\ g.todo = {} /\ g.list = {}
      BY ONLY <3>1, FrameFields
    <3> QED BY <2>1, <3>2, <3>3
  <2>3. stack' \in Seq(Frames) /\ stack' # <<>> /\ Replaced(stack, stack', f)
    <3>1. stack' = <<f>> \o Tail(stack)
      BY <1>10, <2>1
    <3> QED BY <1>1, <2>2, <3>1, FrReplace
  <2>4. FieldsOK(f)
    BY <1>10, <2>2 DEF FieldsOK
  <2>5. Ready(f)
    BY <1>7, <1>8, <1>10, <2>2 DEF Ready, Holds, HoldLabels
  <2>6. Bare(f)
    BY <2>2 DEF Bare, Part
  <2>7. SameParts
    BY <1>1, <1>9, <2>3, <2>6, BareSteps
  <2>8. Lessening({f})
    BY <1>1, <1>2, <1>6, <2>2, <2>3, <2>4, <2>5 DEF Lessening, TypeOK
  <2> QED BY <2>3, <2>7, <2>8
<1>11. /\ \E N : Lessening(N)
       /\ SameParts /\ stack' \in Seq(Frames)
  <2>1. CASE kind[Top.z] = "array"
    <3>1. stack' = <<Frame("root", Top.z, Top.z)>> \o Tail(stack)
      BY <1>3, <2>1
    <3> QED BY <1>1, <1>6, <1>10, <2>1, <3>1
  <2>2. CASE kind[Top.z] = "object"
    <3>1. stack' = <<Frame("root", to[Top.z], Top.z)>> \o Tail(stack)
      BY <1>3, <2>2
    <3>2. to[Top.z] \in Objs
      BY <1>1, <1>6, <2>2 DEF Inv, HeapInv, KindsOK
    <3>3. to[Top.z] \in Nodes /\ to[Top.z] \notin Zvals
      BY <1>1, <3>2
    <3> QED BY <1>10, <3>1, <3>3
  <2>3. CASE kind[Top.z] \notin {"array", "object"}
    <3>1. stack' = Tail(stack)
      BY <1>3, <2>3
    <3>2. stack' \in Seq(Frames) /\ Popped(stack, stack')
      BY <1>1, <3>1, FrTail
    <3>3. SameParts
      BY <1>1, <1>9, <3>2, BareSteps
    <3>4. stack' # <<>>
      <4>1. Shape /\ Top.at # "main"
        BY <1>1, <1>2 DEF Inv
      <4>2. Len(stack') >= 1
        BY <1>4, <3>2, <4>1, ShapeSteps
      <4>3. Len(<<>>) = 0
        OBVIOUS
      <4> QED BY <4>2, <4>3
    <3>5. Lessening({})
      BY <1>1, <1>2, <1>6, <3>2, <3>4 DEF Lessening, TypeOK
    <3> QED BY <3>2, <3>3, <3>5
  <2> QED BY <2>1, <2>2, <2>3
<1>12. BufInv' /\ DyingBuf' /\ ListedBuf'
  <2>1. Listed' = Listed /\ Dying' = Dying
    BY <1>1, <1>11, StackViews, NextViews DEF SameParts
  <2>2. BufInv /\ DyingBuf /\ ListedBuf
    BY <1>1 DEF Inv, DyingInv, ListInv
  <2> QED BY <1>2, <2>1, <2>2 DEF BufInv, DyingBuf, ListedBuf
<1> QED BY <1>11, <1>12, LessenStep
\* After the collection that a full buffer has started.
LEMMA ResumeRootStep ==
    ASSUME IInv, Sound, ResumeRoot
    PROVE  TypeOK' /\ (Sound' => Inv')
<1>1. /\ TypeOK /\ Inv /\ stack \in Seq(Frames) /\ stack # <<>> /\ FrTypes /\ Views /\ Top \in Frames /\ FieldsOK(Top)
      /\ Zvals \subseteq Nodes /\ 0 \notin Zvals
  BY Context, Sizes
<1>2. /\ Top.at = "resume" /\ rc' = IF Top.z = 0 THEN rc ELSE [rc EXCEPT ![Top.z] = @ - 1]
      /\ stack' = Tail(stack)
      /\ UNCHANGED <<kind, to, elems, valid, called, var, steps>>
  BY Zenon DEF ResumeRoot, At, Return
<1>3. /\ Unused = {} => UNCHANGED <<buf, addr, purple>>
      /\ Unused # {} => /\ purple' = purple \cup {Top.n}
                        /\ Enter(Top.n, Least(Unused))
  BY Zenon DEF ResumeRoot, This, buffer
<1>4. lost' = lost \cup (IF Unused = {} THEN {This, Top.z} \ {0} ELSE {}) \cup {z \in {Top.z} \ {0, This} : rc[z] = 1}
  BY Zenon DEF ResumeRoot
<1>5. Sound' => (Unused # {} /\ Top.n \in Zvals => addr[Top.n] = 0)
  <2>1. SUFFICES ASSUME Sound', Unused # {}, Top.n \in Zvals, addr[Top.n] # 0 PROVE FALSE
    OBVIOUS
  <2>2. beyond' = "buffered twice"
    BY <2>1, Zenon DEF ResumeRoot, This
  <2>3. beyond' = "no"
    BY <2>1, Zenon DEF Sound
  <2>4. "no" # "buffered twice"
    OBVIOUS
  <2> QED BY <2>2, <2>3, <2>4, Zenon
<1>6. PICK n \in Nat : Len(stack) = n + 1 /\ Fr(stack, n + 1) = Top /\ Len(stack) - 1 = n
  BY Context
<1>7. n + 1 \in 1..Len(stack)
  BY <1>6
<1>8. /\ Top.list = {} /\ Top.todo = {} /\ Top.n \in Nodes /\ Top.z \in Zvals \cup {0}
      /\ Top.n \in Zvals => Top.n = Top.z
  BY <1>1, <1>2 DEF FieldsOK, Frames
<1>9. stack' \in Seq(Frames) /\ Popped(stack, stack')
  BY <1>1, <1>2, FrTail
<1>10. SameParts
  <2>1. Bare(Top)
    BY <1>2, <1>8 DEF Bare, Part
  <2> QED BY <1>1, <1>9, <2>1, BareSteps
<1>11. Listed' = Listed /\ Dying' = Dying
  BY <1>1, <1>9, <1>10, StackViews, NextViews DEF SameParts
<1>12. stack' # <<>>
  <2>1. Shape /\ Top.at # "main"
    BY <1>1, <1>2 DEF Inv
  <2>2. Len(stack') >= 1
    BY <1>6, <1>9, <2>1, ShapeSteps
  <2>3. Len(<<>>) = 0
    OBVIOUS
  <2> QED BY <2>2, <2>3
<1>13. purple' \in SUBSET Nodes /\ lost' \in SUBSET Nodes
  <2>1. purple \subseteq Nodes /\ lost \subseteq Nodes
    BY <1>1 DEF TypeOK
  <2>2. purple' \in SUBSET Nodes
    BY <1>3, <1>8, <2>1
  <2>3. lost' \in SUBSET Nodes
    BY <1>1, <1>4, <1>8, <2>1 DEF This
  <2> QED BY <2>2, <2>3
<1>14. ASSUME Unused # {} PROVE \E e \in Entries : buf[e] = 0 /\ Enter(Top.n, e)
  <2>1. Unused \in SUBSET Nat
    BY DEF Unused, Entries
  <2>2. Least(Unused) \in Unused
    BY <1>14, <2>1, LeastIn
  <2> QED BY <1>3, <1>14, <2>2 DEF Unused
<1>15. buf' \in [Entries -> Nodes \cup {0}] /\ addr' \in [Nodes -> Entries \cup {0}]
  <2>1. buf \in [Entries -> Nodes \cup {0}] /\ addr \in [Nodes -> Entries \cup {0}]
    BY <1>1 DEF TypeOK
  <2>2. CASE Unused = {}
    BY <1>3, <2>1, <2>2
  <2>3. CASE Unused # {}
    <3>1. PICK e \in Entries : Enter(Top.n, e)
      BY <1>14, <2>3
    <3>2. buf' = [buf EXCEPT ![e] = Top.n] /\ addr' = [addr EXCEPT ![Top.n] = e]
      BY <3>1 DEF Enter
    <3> QED BY <1>8, <2>1, <3>2
  <2> QED BY <2>2, <2>3
<1>16. Lessening({})
  BY <1>2, <1>9, <1>12, <1>13, <1>15 DEF Lessening
<1>17. ASSUME Sound' PROVE BufInv' /\ DyingBuf' /\ ListedBuf'
  <2>1. BufInv /\ DyingBuf /\ ListedBuf
    BY <1>1 DEF Inv, DyingInv, ListInv
  <2>2. CASE Unused = {}
    BY <1>2, <1>3, <1>11, <2>1, <2>2 DEF BufInv, DyingBuf, ListedBuf
  <2>3. CASE Unused # {}
    <3>1. PICK e \in Entries : buf[e] = 0 /\ Enter(Top.n, e)
      BY <1>14, <2>3
    <3>2. Top.n \in Zvals => kind[Top.n] = "array" /\ Top.n \notin Dying
      BY <1>1, <1>2, <1>6, <1>7 DEF Inv, FrameInv, RootArrays
    <3>3. Top.z # 0 => Top.z \notin Listed
      BY <1>1, <1>2, <1>6, <1>7 DEF Inv, FrameInv, NamedZvals
    <3>4. Top.n \in Zvals => kind[Top.n] # "none" /\ addr[Top.n] = 0 /\ Top.n \notin Listed
      BY <1>1, <1>5, <1>8, <1>17, <2>3, <3>2, <3>3
    <3>5. Top.n \notin Dying /\ Top.n \notin Listed
      BY <1>8, <3>2, <3>4, ListTypes
    <3>6. \A z \in Zvals : kind[z] # "none" => kind'[z] # "none"
      BY <1>2
    <3>7. Listed' = Listed /\ Dying' \subseteq Dying
      BY <1>11
    <3> QED BY <1>1, <1>8, <2>1, <3>1, <3>4, <3>5, <3>6, <3>7, EnterOK
  <2> QED BY <2>2, <2>3
<1> QED BY <1>16, <1>17, LessenStep
\* A full buffer starts a collection, and the zval holds a reference to itself.
LEMMA BufferFullStep ==
    ASSUME IInv, Sound, BufferFull
    PROVE  TypeOK' /\ (Sound' => Inv')
<1>1. /\ TypeOK /\ Inv /\ stack \in Seq(Frames) /\ stack # <<>> /\ FrTypes /\ Views /\ Top \in Frames /\ FieldsOK(Top)
      /\ Zvals \subseteq Nodes /\ Objs \subseteq Nodes /\ Zvals \cap Objs = {} /\ 0 \notin Zvals
  BY Context, Sizes
<1>2. /\ Top.at = "root" /\ Top.z \notin Listed
      /\ purple' = purple \cup {Top.n}
      /\ rc' = IF Top.z = 0 THEN rc ELSE [rc EXCEPT ![Top.z] = @ + 1]
      /\ stack' = <<Frame("collect", 0, 0), [Top EXCEPT !.at = "resume"]>> \o Tail(stack)
      /\ kind' = kind /\ to' = to /\ elems' = elems /\ valid' = valid /\ called' = called /\ var' = var
      /\ buf' = buf /\ addr' = addr /\ steps' = steps /\ lost' = lost
  BY DEF BufferFull, At, NoRoot, This, ghosts
<1>3. PICK n \in Nat : Len(stack) = n + 1 /\ Fr(stack, n + 1) = Top /\ Len(stack) - 1 = n
  BY Context
<1>4. n + 1 \in 1..Len(stack)
  BY <1>3
<1>5. /\ Top.list = {} /\ Top.todo = {} /\ Top.n \in Nodes /\ Top.z \in Zvals \cup {0} /\ Top.n # 0
      /\ Top.n \in Zvals => Top.n = Top.z
  BY <1>1, <1>2 DEF FieldsOK, Frames
<1>6. PICK f, g : f = Frame("collect", 0, 0) /\ g = [Top EXCEPT !.at = "resume"]
  OBVIOUS
<1>7. f \in Frames /\ f.at = "collect" /\ f.n = 0 /\ f.z = 0 /\ f.todo = {} /\ f.list = {}
  BY <1>6, FrameFields DEF Labels
<1>8. /\ g \in Frames /\ g.at = "resume" /\ g.n = Top.n /\ g.z = Top.z /\ g.todo = {} /\ g.list = {}
  <2>1. Top \in Frames /\ Top.todo = {} /\ Top.list = {} /\ "resume" \in Labels
    BY <1>1, <1>5 DEF Labels
  <2>2. g = [Top EXCEPT !.at = "resume"]
    BY <1>6
  <2> QED BY ONLY <2>1, <2>2 DEF Frames
<1>9. stack' \in Seq(Frames) /\ stack' # <<>> /\ Doubled(stack, stack', f, g)
  <2>1. stack' = <<f, g>> \o Tail(stack)
    BY <1>2, <1>6
  <2> QED BY <1>1, <1>7, <1>8, <2>1, FrDouble
<1>10. Moves(stack, stack', n, {f, g})
  BY <1>1, <1>3, <1>9, AllMoves
<1>11. SameParts
  <2>1. Bare(Top) /\ Bare(f) /\ Bare(g)
    BY <1>2, <1>5, <1>7, <1>8 DEF Bare, Part
  <2> QED BY <1>1, <1>9, <2>1, BareSteps
<1>12. Listed' = Listed /\ Dying' = Dying
  BY <1>1, <1>9, <1>11, StackViews, NextViews DEF SameParts
<1>13. rc \in [Nodes -> Nat] /\ valid \subseteq Objs
  BY <1>1 DEF TypeOK
<1>14. /\ Top.z # 0 => rc'[Top.z] = rc[Top.z] + 1
       /\ \A m \in Nodes : m # Top.z => rc'[m] = rc[m]
       /\ rc' \in [Nodes -> Nat]
  <2>1. CASE Top.z = 0
    <3>1. rc' = rc
      BY <1>2, <2>1
    <3> QED BY <1>1, <1>13, <2>1, <3>1
  <2>2. CASE Top.z # 0
    <3>1. rc' = [rc EXCEPT ![Top.z] = rc[Top.z] + 1]
      BY <1>2, <2>2
    <3>2. Top.z \in Nodes
      BY <1>1, <1>5, <2>2
    <3> QED BY <1>13, <2>2, <3>1, <3>2
  <2> QED BY <2>1, <2>2
<1>15. TypeOK'
  <2>1. purple' \in SUBSET Nodes
    BY <1>1, <1>2, <1>5 DEF TypeOK
  <2>2. /\ TypeOK /\ UNCHANGED <<kind, to, elems, valid, called, var, buf, addr, steps, lost>>
        /\ stack' \in Seq(Frames) /\ stack' # <<>> /\ rc' \in [Nodes -> Nat]
    BY <1>1, <1>2, <1>9, <1>14
  <2> QED BY ONLY <2>1, <2>2 DEF TypeOK
<1>16. \A o \in Objs : rc'[o] = rc[o]
  <2>1. 0 \notin Objs
    BY Sizes
  <2>2. \A o \in Objs : o \in Nodes /\ o # Top.z
    BY <1>1, <1>5, <2>1
  <2> QED BY <1>14, <2>2
<1>17. Shape'
  <2>1. FieldsOK(f)
    BY <1>7 DEF FieldsOK
  <2>2. FieldsOK(g) /\ Calls(g)
    BY <1>5, <1>8 DEF FieldsOK, Calls, TopLabels
  <2>3. Shape
    BY <1>1 DEF Inv
  <2> QED BY <1>2, <1>3, <1>7, <1>8, <1>9, <2>1, <2>2, <2>3, ShapeSteps
<1>18. DyingFrames'
  <2>1. DyingFrames
    BY <1>1 DEF Inv, DyingInv
  <2>2. \A h \in {f, g} : h.at # "free" /\ \A z \in Dying : Refers(h, z) => h.at = "resume"
    BY <1>7, <1>8 DEF Refers
  <2> QED BY <1>1, <1>10, <2>1, <2>2, DyingFramesMove
<1>19. \A x : /\ CountIn(stack, RefFrames(x)) \in Nat /\ CountIn(stack, HoldFrames(x)) \in Nat
              /\ CountIn(stack', RefFrames(x)) = CountIn(stack, RefFrames(x)) + (IF x = Top.z THEN 1 ELSE 0)
              /\ CountIn(stack', HoldFrames(x)) = CountIn(stack, HoldFrames(x))
  <2> SUFFICES ASSUME NEW x
               PROVE  /\ CountIn(stack, RefFrames(x)) \in Nat /\ CountIn(stack, HoldFrames(x)) \in Nat
                      /\ CountIn(stack', RefFrames(x)) = CountIn(stack, RefFrames(x)) + (IF x = Top.z THEN 1 ELSE 0)
                      /\ CountIn(stack', HoldFrames(x)) = CountIn(stack, HoldFrames(x))
    OBVIOUS
  <2>1. /\ ~ Refers(Top, x) /\ ~ Refers(f, x) /\ (Refers(g, x) <=> x = Top.z)
        /\ ~ Holds(Top, x) /\ ~ Holds(f, x) /\ ~ Holds(g, x)
    BY <1>2, <1>5, <1>7, <1>8 DEF Refers, Holds, HoldLabels
  <2>2. /\ Bit(Top, RefFrames(x)) = 0 /\ Bit(f, RefFrames(x)) = 0
        /\ Bit(g, RefFrames(x)) = (IF x = Top.z THEN 1 ELSE 0)
        /\ Bit(Top, HoldFrames(x)) = 0 /\ Bit(f, HoldFrames(x)) = 0 /\ Bit(g, HoldFrames(x)) = 0
    BY <1>1, <1>7, <1>8, <2>1, Bits
  <2>3. /\ CountIn(stack, RefFrames(x)) \in Nat
        /\ CountIn(stack', RefFrames(x)) = CountIn(stack, RefFrames(x)) - Bit(Top, RefFrames(x)) + Bit(g, RefFrames(x)) + Bit(f, RefFrames(x))
    BY <1>1, <1>9, Counts
  <2>4. /\ CountIn(stack, HoldFrames(x)) \in Nat
        /\ CountIn(stack', HoldFrames(x)) = CountIn(stack, HoldFrames(x)) - Bit(Top, HoldFrames(x)) + Bit(g, HoldFrames(x)) + Bit(f, HoldFrames(x))
    BY <1>1, <1>9, Counts
  <2> QED BY <2>2, <2>3, <2>4
<1>20. ZvalCounts'
  <2> SUFFICES ASSUME NEW z \in Zvals, kind[z] # "none"
               PROVE  rc'[z] = VarRefs(var, z) + ElemRefs(elems, z) + CountIn(stack', RefFrames(z)) + ListRef(z)
    BY <1>2, <1>12 DEF ZvalCounts, ListRef
  <2>1. rc[z] = VarRefs(var, z) + ElemRefs(elems, z) + CountIn(stack, RefFrames(z)) + ListRef(z)
    BY <1>1 DEF Inv, HeapInv, ZvalCounts
  <2>2. VarRefs(var, z) \in Nat /\ ElemRefs(elems, z) \in Nat /\ ListRef(z) \in Nat
    BY NoneCounted DEF ListRef
  <2>3. /\ CountIn(stack, RefFrames(z)) \in Nat
        /\ CountIn(stack', RefFrames(z)) = CountIn(stack, RefFrames(z)) + (IF z = Top.z THEN 1 ELSE 0)
    BY <1>19
  <2>4. rc'[z] = rc[z] + (IF z = Top.z THEN 1 ELSE 0)
    <3>1. rc[z] \in Nat
      BY <1>1, <1>13
    <3> QED BY <1>1, <1>14, <3>1
  <2> QED BY <2>1, <2>2, <2>3, <2>4
<1>21. ObjCounts'
  <2>1. ObjCounts
    BY <1>1 DEF Inv, HeapInv
  <2> QED BY <1>2, <1>12, <1>13, <1>16, <1>19, <2>1 DEF ObjCounts, Counted
<1>22. BufInv' /\ DyingBuf' /\ ListedBuf'
  <2>1. BufInv /\ DyingBuf /\ ListedBuf
    BY <1>1 DEF Inv, DyingInv, ListInv
  <2> QED BY <1>2, <1>12, <2>1 DEF BufInv, DyingBuf, ListedBuf
<1>23. Calm(n, {f, g})
  <2>1. \A h \in 1..n : \A m \in Nodes : GivenBack(h, m) => elems'[m] = {}
    BY <1>2 DEF GivenBack
  <2>2. Ready(f)
    BY <1>7 DEF Ready, Holds, HoldLabels
  <2>3. Ready(g)
    <3>1. RootArrays /\ NamedZvals
      BY <1>1 DEF Inv, FrameInv
    <3>2. Top.n \in Zvals => kind[Top.n] = "array" /\ Top.n \notin Dying
      BY <1>2, <1>3, <1>4, <3>1 DEF RootArrays
    <3>3. Top.z # 0 => kind[Top.z] # "none"
      BY <1>2, <1>3, <1>4, <3>1 DEF NamedZvals
    <3> QED BY <1>2, <1>8, <3>2, <3>3 DEF Ready, Holds, HoldLabels
  <2>4. \A h \in 1..Len(stack') : h > n => Fr(stack', h) \in {f, g}
    BY <1>3, <1>10 DEF Moves
  <2>5. \A h \in 1..Len(stack) : Fr(stack, h).at = "destructors" => h <= n
    BY <1>2, <1>3
  <2>6. \A h \in 1..n : Fr(stack, h).at = "storage" => rc'[Fr(stack, h).n] = rc[Fr(stack, h).n]
    <3>1. \A h \in 1..n : h \in 1..Len(stack)
      BY <1>3
    <3> QED BY <1>16, <3>1, StorageObjs
  <2>7. \A h \in 1..Len(stack') : h > n /\ Fr(stack', h).z # 0
              /\ Fr(stack', h).at \in {"del_ref", "destructed", "storage"} =>
          \E j \in 1..h - 1 : Fr(stack', j).at = "free" /\ Fr(stack', j).z = Fr(stack', h).z
    BY <1>7, <1>8, <2>4
  <2> QED BY <1>2, <1>10, <1>11, <1>13, <1>16, <2>1, <2>2, <2>3, <2>5, <2>6, <2>7 DEF Calm
<1> QED BY <1>9, <1>15, <1>17, <1>18, <1>20, <1>21, <1>22, <1>23, CalmInv
\* What holds where del_ref is at work: its frame has a reference, to an object
\* whose bucket is in use, and no frame below frees that object's storage.
LEMMA DelRefFacts ==
    ASSUME IInv, Sound, Top.at \in {"del_ref", "destructed"}
    PROVE  /\ Top.n \in Objs /\ Top.n \in valid /\ Top.todo = {} /\ Top.list = {} /\ Bare(Top)
           /\ rc[Top.n] \in Nat /\ rc[Top.n] >= 1
           /\ \A x : ~ Refers(Top, x)
           /\ \A x : Holds(Top, x) <=> x = Top.n
           /\ Top.at = "destructed" => Top.n \in called
           /\ Top.z # 0 => \E j \in 1..Len(stack) - 1 : Fr(stack, j).at = "free" /\ Fr(stack, j).z = Top.z
           /\ \A h \in 1..Len(stack) : Fr(stack, h).at = "storage" => Fr(stack, h).n # Top.n
           /\ rc[Top.n] = 1 => \A h \in 1..Len(stack) - 1 : ~ Holds(Fr(stack, h), Top.n)
<1>1. Inv /\ TypeOK /\ stack \in Seq(Frames) /\ FieldsOK(Top) /\ FrTypes /\ Objs \subseteq Nodes
  BY Context, Sizes
<1>2. PICK n \in Nat : Len(stack) = n + 1 /\ Fr(stack, n + 1) = Top /\ Len(stack) - 1 = n
  BY Context
<1>3. n + 1 \in 1..Len(stack) /\ \A h \in 1..n : h \in 1..Len(stack) /\ h # n + 1
  BY <1>2
<1>4. /\ Top.n \in Objs /\ Top.todo = {} /\ Top.list = {} /\ Bare(Top)
      /\ \A x : ~ Refers(Top, x)
      /\ \A x : Holds(Top, x) <=> x = Top.n
  BY <1>1 DEF FieldsOK, Bare, Part, Refers, Holds, HoldLabels
<1>5. Top.n \in valid
  BY <1>1, <1>2, <1>3, <1>4 DEF Inv, FrameInv, HeldValid
<1>6. Top.at = "destructed" => Top.n \in called
  BY <1>1, <1>2, <1>3 DEF Inv, FrameInv, StorageOK
<1>7. Top.z # 0 => \E j \in 1..Len(stack) - 1 : Fr(stack, j).at = "free" /\ Fr(stack, j).z = Top.z
  <2>1. OnFree
    BY <1>1 DEF Inv, FrameInv
  <2>2. (n + 1) - 1 = Len(stack) - 1
    BY <1>2
  <2> QED BY <1>2, <1>3, <2>1, <2>2 DEF OnFree
<1>8. rc[Top.n] \in Nat
  BY <1>1, <1>4 DEF TypeOK
<1>9. rc[Top.n] >= 1
  <2>1. Fr(stack, n + 1) \in HoldFrames(Top.n)
    BY <1>1, <1>2, <1>3, <1>4 DEF FrTypes, HoldFrames
  <2>2. Len(stack) \in Nat
    BY <1>2
  <2>3. CountIn(stack, HoldFrames(Top.n)) \in Nat /\ CountIn(stack, HoldFrames(Top.n)) # 0
    BY <1>3, <2>1, <2>2, NoneCounted
  <2>4. /\ rc[Top.n] = Cardinality(Counted(Top.n)) + CountIn(stack, HoldFrames(Top.n))
        /\ Cardinality(Counted(Top.n)) \in Nat
    BY <1>4, ObjRefs
  <2> QED BY <1>8, <2>3, <2>4
<1>10. ASSUME NEW h \in 1..Len(stack), h # n + 1, Holds(Fr(stack, h), Top.n), rc[Top.n] <= 1 PROVE FALSE
  <2>1. Holds(Fr(stack, n + 1), Top.n)
    BY <1>2, <1>4
  <2> QED BY <1>3, <1>4, <1>10, <2>1, TwoHolds
<1>11. ASSUME NEW h \in 1..Len(stack), Fr(stack, h).at = "storage", Fr(stack, h).n = Top.n PROVE FALSE
  <2>1. rc[Top.n] = 1
    BY <1>1, <1>11 DEF Inv, FrameInv, StorageOK
  <2>2. h # n + 1 /\ Holds(Fr(stack, h), Top.n)
    BY <1>2, <1>11 DEF Holds, HoldLabels
  <2> QED BY <1>8, <1>10, <2>1, <2>2
<1>12. rc[Top.n] = 1 => \A h \in 1..Len(stack) - 1 : ~ Holds(Fr(stack, h), Top.n)
  BY <1>2, <1>3, <1>10
<1> QED BY <1>4, <1>5, <1>6, <1>7, <1>8, <1>9, <1>11, <1>12

\* Such a function goes on, or returns: what its new frames hold of the object is
\* counted, and the properties T are theirs to release.
Tally(N, T) ==
    /\ Top.at \in {"del_ref", "destructed"} /\ stack' \in Seq(Frames) /\ stack' # <<>>
    /\ \/ N = {} /\ T = {} /\ Popped(stack, stack') /\ rc'[Top.n] = rc[Top.n] - 1
       \/ \E f \in Frames : /\ N = {f} /\ Replaced(stack, stack', f) /\ f.todo = T
                            /\ \/ f.at = "storage" /\ rc'[Top.n] = rc[Top.n]
                               \/ f.at = "root" /\ rc'[Top.n] = rc[Top.n] - 1
       \/ \E f, g \in Frames : /\ N = {f, g} /\ Doubled(stack, stack', f, g) /\ T = {}
                               /\ f.at = "body" /\ g.at = "destructed" /\ f.todo = {} /\ g.todo = {}
                               /\ rc'[Top.n] = rc[Top.n] + 1
    /\ \A f \in N : f.n = Top.n /\ f.z \in {0, Top.z} /\ FieldsOK(f) /\ Ready(f)
    /\ T = {} \/ T = elems[Top.n]
    /\ elems' = [elems EXCEPT ![Top.n] = @ \ T]
    /\ \A m \in Nodes : m # Top.n => rc'[m] = rc[m]
    /\ rc' \in [Nodes -> Nat] /\ rc'[Top.n] # 0
    /\ Top.at = "del_ref" /\ rc[Top.n] = 1 /\ Top.n \in called => elems'[Top.n] = {}
    /\ UNCHANGED <<kind, to, valid, var, purple, steps, lost>> /\ called \subseteq called' /\ called' \in SUBSET Objs
    /\ buf' \in [Entries -> Nodes \cup {0}] /\ addr' \in [Nodes -> Entries \cup {0}]

LEMMA TallyStep ==
    ASSUME IInv, Sound, NEW N, NEW T, Tally(N, T)
    PROVE  TypeOK' /\ (BufInv' /\ DyingBuf' /\ ListedBuf' => Inv') /\ Listed' = Listed /\ Dying' = Dying
<1>1. /\ TypeOK /\ Inv /\ stack \in Seq(Frames) /\ stack # <<>> /\ FrTypes /\ Views /\ Top \in Frames
      /\ Objs \subseteq Nodes /\ Zvals \subseteq Nodes /\ Zvals \cap Objs = {} /\ 0 \notin Zvals
  BY Context, Sizes
<1>2. /\ Top.at \in {"del_ref", "destructed"} /\ stack' \in Seq(Frames) /\ stack' # <<>>
      /\ \A f \in N : f.n = Top.n /\ f.z \in {0, Top.z} /\ FieldsOK(f) /\ Ready(f)
      /\ T = {} \/ T = elems[Top.n]
      /\ elems' = [elems EXCEPT ![Top.n] = @ \ T]
      /\ \A m \in Nodes : m # Top.n => rc'[m] = rc[m]
      /\ rc' \in [Nodes -> Nat] /\ rc'[Top.n] # 0
  BY DEF Tally
<1>3. /\ Top.at = "del_ref" /\ rc[Top.n] = 1 /\ Top.n \in called => elems'[Top.n] = {}
      /\ UNCHANGED <<kind, to, valid, var, purple, steps, lost>> /\ called \subseteq called' /\ called' \in SUBSET Objs
      /\ buf' \in [Entries -> Nodes \cup {0}] /\ addr' \in [Nodes -> Entries \cup {0}]
  BY DEF Tally
<1>4. \/ N = {} /\ T = {} /\ Popped(stack, stack') /\ rc'[Top.n] = rc[Top.n] - 1
      \/ \E f \in Frames : /\ N = {f} /\ Replaced(stack, stack', f) /\ f.todo = T
                           /\ \/ f.at = "storage" /\ rc'[Top.n] = rc[Top.n]
                              \/ f.at = "root" /\ rc'[Top.n] = rc[Top.n] - 1
      \/ \E f, g \in Frames : /\ N = {f, g} /\ Doubled(stack, stack', f, g) /\ T = {}
                              /\ f.at = "body" /\ g.at = "destructed" /\ f.todo = {} /\ g.todo = {}
                              /\ rc'[Top.n] = rc[Top.n] + 1
  BY DEF Tally
<1>5. /\ Top.n \in Objs /\ Top.n \in valid /\ Top.n \in Nodes /\ Bare(Top)
      /\ rc[Top.n] \in Nat /\ rc[Top.n] >= 1
      /\ \A x : ~ Refers(Top, x)
      /\ \A x : Holds(Top, x) <=> x = Top.n
      /\ Top.z # 0 => \E j \in 1..Len(stack) - 1 : Fr(stack, j).at = "free" /\ Fr(stack, j).z = Top.z
      /\ \A h \in 1..Len(stack) : Fr(stack, h).at = "storage" => Fr(stack, h).n # Top.n
  BY <1>1, <1>2, DelRefFacts
<1>6. PICK n \in Nat : Len(stack) = n + 1 /\ Fr(stack, n + 1) = Top /\ Len(stack) - 1 = n
  BY Context
<1>7. /\ rc \in [Nodes -> Nat] /\ valid \subseteq Objs /\ elems \in [Nodes -> SUBSET Zvals]
  BY <1>1 DEF TypeOK
<1>8. \A f \in N : /\ f.at \in {"storage", "root", "body", "destructed"} /\ f.list = {} /\ Bare(f) /\ f \in Frames
                   /\ (f.at # "storage" => f.todo = {}) /\ f.todo \subseteq T
  <2>1. \A f \in N : f.at \in {"storage", "root", "body", "destructed"} /\ f \in Frames /\ f.todo \subseteq T
    BY <1>4
  <2> QED BY <1>2, <2>1 DEF FieldsOK, Bare, Part
<1>9. Moves(stack, stack', n, N)
  <2>1. /\ Popped(stack, stack') => Moves(stack, stack', n, {})
        /\ \A f : Replaced(stack, stack', f) => Moves(stack, stack', n, {f})
        /\ \A f, g : Doubled(stack, stack', f, g) => Moves(stack, stack', n, {f, g})
    BY <1>1, <1>2, <1>6, AllMoves
  <2> QED BY <1>4, <2>1
<1>10. Shape'
  <2>1. Shape
    BY <1>1 DEF Inv
  <2>2. \A f \in N : f.at = "destructed" => Calls(f)
    BY DEF Calls, TopLabels
  <2>3. \A f \in N : FieldsOK(f) /\ f.at # "main"
    BY <1>2, <1>8
  <2>4. Top.at # "main"
    BY <1>2
  <2> QED BY <1>4, <1>6, <2>1, <2>2, <2>3, <2>4, ShapeSteps
<1>11. SameParts
  BY <1>1, <1>2, <1>4, <1>5, <1>8, BareSteps
<1>12. Listed' = Listed /\ Dying' = Dying
  BY <1>1, <1>2, <1>11, StackViews, NextViews DEF SameParts
<1>13. \A m \in Nodes : elems'[m] = IF m = Top.n THEN elems[m] \ T ELSE elems[m]
  BY <1>2, <1>5, <1>7
<1>14. TypeOK'
  <2>1. elems' \in [Nodes -> SUBSET Zvals]
    BY <1>2, <1>5, <1>7
  <2> QED BY <1>1, <1>2, <1>3, <2>1 DEF TypeOK
<1>15. \A z \in Dying : z \notin T
  <2>1. DyingHeap
    BY <1>1 DEF Inv, DyingInv
  <2> QED BY <1>2, <1>5, <2>1 DEF DyingHeap
<1>16. DyingFrames'
  <2>1. DyingFrames
    BY <1>1 DEF Inv, DyingInv
  <2>2. \A f \in N : f.at # "free" /\ \A z \in Dying : Refers(f, z) => f.at = "resume"
    BY <1>8, <1>15 DEF Refers
  <2> QED BY <1>1, <1>9, <2>1, <2>2, DyingFramesMove
<1>17. ASSUME NEW x
       PROVE  /\ CountIn(stack, RefFrames(x)) \in Nat /\ CountIn(stack, HoldFrames(x)) \in Nat
              /\ CountIn(stack', RefFrames(x)) = CountIn(stack, RefFrames(x)) + (IF x \in T THEN 1 ELSE 0)
              /\ x # Top.n => CountIn(stack', HoldFrames(x)) = CountIn(stack, HoldFrames(x))
              /\ x = Top.n => rc'[x] + CountIn(stack, HoldFrames(x)) = rc[x] + CountIn(stack', HoldFrames(x))
  <2>1. /\ CountIn(stack, RefFrames(x)) \in Nat /\ CountIn(stack, HoldFrames(x)) \in Nat
        /\ Bit(Top, RefFrames(x)) = 0 /\ Bit(Top, HoldFrames(x)) = (IF x = Top.n THEN 1 ELSE 0)
    BY <1>1, <1>2, <1>5, Bits, Counts
  <2>2. \A f \in N : /\ Bit(f, RefFrames(x)) = (IF x \in f.todo THEN 1 ELSE 0)
                     /\ Bit(f, HoldFrames(x)) = (IF f.at # "root" /\ x = Top.n THEN 1 ELSE 0)
    <3>1. \A f \in N : f \in Frames /\ (Refers(f, x) <=> x \in f.todo) /\ (Holds(f, x) <=> f.at # "root" /\ x = Top.n)
      BY <1>2, <1>8 DEF Refers, Holds, HoldLabels
    <3> QED BY <3>1, Bits
  <2>3. rc'[Top.n] \in Nat
    BY <1>2, <1>5
  <2>4. CASE N = {} /\ T = {} /\ Popped(stack, stack') /\ rc'[Top.n] = rc[Top.n] - 1
    <3>1. /\ CountIn(stack', RefFrames(x)) = CountIn(stack, RefFrames(x)) - Bit(Top, RefFrames(x))
          /\ CountIn(stack', HoldFrames(x)) = CountIn(stack, HoldFrames(x)) - Bit(Top, HoldFrames(x))
      BY <1>1, <1>2, <2>4, Counts
    <3> QED BY <1>5, <2>1, <2>4, <3>1
  <2>5. ASSUME NEW f \in Frames, N = {f}, Replaced(stack, stack', f), f.todo = T,
               \/ f.at = "storage" /\ rc'[Top.n] = rc[Top.n]
               \/ f.at = "root" /\ rc'[Top.n] = rc[Top.n] - 1
        PROVE  /\ CountIn(stack', RefFrames(x)) = CountIn(stack, RefFrames(x)) + (IF x \in T THEN 1 ELSE 0)
               /\ x # Top.n => CountIn(stack', HoldFrames(x)) = CountIn(stack, HoldFrames(x))
               /\ x = Top.n => rc'[x] + CountIn(stack, HoldFrames(x)) = rc[x] + CountIn(stack', HoldFrames(x))
    <3>1. /\ CountIn(stack', RefFrames(x)) = CountIn(stack, RefFrames(x)) - Bit(Top, RefFrames(x)) + Bit(f, RefFrames(x))
          /\ CountIn(stack', HoldFrames(x)) = CountIn(stack, HoldFrames(x)) - Bit(Top, HoldFrames(x)) + Bit(f, HoldFrames(x))
      BY <1>1, <1>2, <2>5, Counts
    <3>2. /\ Bit(f, RefFrames(x)) = (IF x \in T THEN 1 ELSE 0)
          /\ Bit(f, HoldFrames(x)) = (IF f.at # "root" /\ x = Top.n THEN 1 ELSE 0)
      BY <2>2, <2>5
    <3> QED BY <1>5, <2>1, <2>5, <3>1, <3>2
  <2>6. ASSUME NEW f \in Frames, NEW g \in Frames, N = {f, g}, Doubled(stack, stack', f, g), T = {},
               f.at = "body", g.at = "destructed", f.todo = {}, g.todo = {}, rc'[Top.n] = rc[Top.n] + 1
        PROVE  /\ CountIn(stack', RefFrames(x)) = CountIn(stack, RefFrames(x)) + (IF x \in T THEN 1 ELSE 0)
               /\ x # Top.n => CountIn(stack', HoldFrames(x)) = CountIn(stack, HoldFrames(x))
               /\ x = Top.n => rc'[x] + CountIn(stack, HoldFrames(x)) = rc[x] + CountIn(stack', HoldFrames(x))
    <3>1. /\ CountIn(stack', RefFrames(x)) = CountIn(stack, RefFrames(x)) - Bit(Top, RefFrames(x)) + Bit(g, RefFrames(x)) + Bit(f, RefFrames(x))
          /\ CountIn(stack', HoldFrames(x)) = CountIn(stack, HoldFrames(x)) - Bit(Top, HoldFrames(x)) + Bit(g, HoldFrames(x)) + Bit(f, HoldFrames(x))
      BY <1>1, <1>2, <2>6, Counts
    <3>2. /\ Bit(f, RefFrames(x)) = 0 /\ Bit(g, RefFrames(x)) = 0
          /\ Bit(f, HoldFrames(x)) = (IF x = Top.n THEN 1 ELSE 0)
          /\ Bit(g, HoldFrames(x)) = (IF x = Top.n THEN 1 ELSE 0)
      BY <2>2, <2>6
    <3>3. CountIn(stack, RefFrames(x)) \in Nat /\ CountIn(stack, HoldFrames(x)) \in Nat
      BY <2>1
    <3>4. /\ CountIn(stack', RefFrames(x)) = CountIn(stack, RefFrames(x))
          /\ CountIn(stack', HoldFrames(x)) = CountIn(stack, HoldFrames(x)) + (IF x = Top.n THEN 1 ELSE 0)
      BY ONLY <2>1, <3>1, <3>2, <3>3
    <3>5. x \notin T /\ rc[Top.n] \in Nat /\ rc'[Top.n] = rc[Top.n] + 1
      BY <1>5, <2>6
    <3> QED BY ONLY <3>3, <3>4, <3>5
  <2> QED BY <1>4, <2>1, <2>4, <2>5, <2>6
<1>18. ZvalCounts'
  <2> SUFFICES ASSUME NEW z \in Zvals, kind[z] # "none"
               PROVE  rc'[z] = VarRefs(var, z) + ElemRefs(elems', z) + CountIn(stack', RefFrames(z)) + ListRef(z)
    BY <1>3, <1>12 DEF ZvalCounts, ListRef
  <2>1. rc[z] = VarRefs(var, z) + ElemRefs(elems, z) + CountIn(stack, RefFrames(z)) + ListRef(z)
    BY <1>1 DEF Inv, HeapInv, ZvalCounts
  <2>2. VarRefs(var, z) \in Nat /\ ListRef(z) \in Nat
    BY NoneCounted DEF ListRef
  <2>3. /\ CountIn(stack, RefFrames(z)) \in Nat
        /\ CountIn(stack', RefFrames(z)) = CountIn(stack, RefFrames(z)) + (IF z \in T THEN 1 ELSE 0)
    BY <1>17
  <2>4. rc'[z] = rc[z]
    BY <1>1, <1>2, <1>5
  <2>5. ElemRefs(elems', z) + (IF z \in T THEN 1 ELSE 0) = ElemRefs(elems, z) /\ ElemRefs(elems', z) \in Nat
    <3>1. PICK f \in [Nodes -> SUBSET Zvals] : f = elems
      BY <1>7
    <3>2. f[Top.n] \ T \in SUBSET Zvals /\ elems' = [f EXCEPT ![Top.n] = f[Top.n] \ T]
      BY <1>2, <1>5, <3>1
    <3>3. /\ ElemRefs(f, z) \in Nat
          /\ z \in f[Top.n] /\ z \notin f[Top.n] \ T => ElemRefs(elems', z) = ElemRefs(f, z) - 1
          /\ (z \in f[Top.n] <=> z \in f[Top.n] \ T) => ElemRefs(elems', z) = ElemRefs(f, z)
      BY <1>5, <3>2, ElemSet
    <3>4. ElemRefs(elems', z) \in Nat
      BY NoneCounted
    <3>5. z \in T => z \in f[Top.n]
      BY <1>2, <3>1
    <3> QED BY <3>1, <3>3, <3>4, <3>5
  <2> QED BY <2>1, <2>2, <2>3, <2>4, <2>5
<1>19. ObjCounts'
  <2> SUFFICES ASSUME NEW o \in valid
               PROVE  rc'[o] = Cardinality(Counted(o)) + CountIn(stack', HoldFrames(o))
    BY <1>3, <1>12 DEF ObjCounts, Counted
  <2>1. /\ rc[o] = Cardinality(Counted(o)) + CountIn(stack, HoldFrames(o))
        /\ Cardinality(Counted(o)) \in Nat
    BY <1>7, ObjRefs
  <2>2. o \in Nodes /\ rc[o] \in Nat /\ rc'[o] \in Nat
    BY <1>1, <1>2, <1>7
  <2>3. CountIn(stack', HoldFrames(o)) \in Nat
    BY <1>1, <1>2, FrFacts, NoneCounted
  <2>4. /\ CountIn(stack, HoldFrames(o)) \in Nat
        /\ o # Top.n => CountIn(stack', HoldFrames(o)) = CountIn(stack, HoldFrames(o))
        /\ o = Top.n => rc'[o] + CountIn(stack, HoldFrames(o)) = rc[o] + CountIn(stack', HoldFrames(o))
    BY <1>17
  <2>5. o # Top.n => rc'[o] = rc[o]
    BY <1>2, <2>2
  <2> QED BY <2>1, <2>2, <2>3, <2>4, <2>5
<1>20. Calm(n, N)
  <2>1. \A h \in 1..n : \A m \in Nodes : GivenBack(h, m) => elems'[m] = {}
    BY <1>3 DEF GivenBack
  <2>2. \A f \in N : Ready(f)
    BY <1>2
  <2>3. \A h \in 1..Len(stack') : h > n => Fr(stack', h) \in N
    BY <1>6, <1>9 DEF Moves
  <2>4. \A h \in 1..Len(stack) : Fr(stack, h).at = "destructors" => h <= n
    BY <1>2, <1>6
  <2>5. \A h \in 1..n : Fr(stack, h).at = "storage" => rc'[Fr(stack, h).n] = rc[Fr(stack, h).n]
    <3>1. \A h \in 1..n : h \in 1..Len(stack)
      BY <1>6
    <3> QED BY <1>1, <1>2, <1>5, <3>1, StorageObjs
  <2>6. \A h \in 1..Len(stack') : h > n /\ Fr(stack', h).z # 0
              /\ Fr(stack', h).at \in {"del_ref", "destructed", "storage"} =>
          \E j \in 1..h - 1 : Fr(stack', j).at = "free" /\ Fr(stack', j).z = Fr(stack', h).z
    <3> SUFFICES ASSUME NEW h \in 1..Len(stack'), h > n, Fr(stack', h).z # 0
                 PROVE  \E j \in 1..h - 1 : Fr(stack', j).at = "free" /\ Fr(stack', j).z = Fr(stack', h).z
      OBVIOUS
    <3>1. Fr(stack', h).z = Top.z
      BY <1>2, <2>3
    <3>2. PICK j \in 1..n : Fr(stack, j).at = "free" /\ Fr(stack, j).z = Top.z
      BY <1>5, <1>6, <3>1
    <3>3. Fr(stack', j) = Fr(stack, j) /\ j \in 1..h - 1
      BY <1>9, <3>2 DEF Moves, Kept
    <3> QED BY <3>1, <3>2, <3>3
  <2>7. \A o \in Objs \ valid : rc'[o] = rc[o]
    BY <1>1, <1>2, <1>5
  <2>8. \A o \in valid : rc'[o] = 0 <=> rc[o] = 0
    BY <1>1, <1>2, <1>5, <1>7
  <2>9. \A m \in Nodes : elems'[m] \subseteq elems[m]
    BY <1>13
  <2> QED BY <1>3, <1>9, <1>11, <2>1, <2>2, <2>4, <2>5, <2>6, <2>7, <2>8, <2>9 DEF Calm
<1>21. BufInv' /\ DyingBuf' /\ ListedBuf' => Inv'
  BY <1>2, <1>10, <1>16, <1>18, <1>19, <1>20, CalmInv
<1> QED BY <1>12, <1>14, <1>21
\* A node leaves the root buffer.
LEMMA UnbufferOK ==
    ASSUME TypeOK, BufInv, DyingBuf, ListedBuf, NEW m \in Nodes, Unbuffer(m), kind' = kind
    PROVE  /\ BufInv' /\ buf' \in [Entries -> Nodes \cup {0}] /\ addr' \in [Nodes -> Entries \cup {0}]
           /\ Listed' = Listed => ListedBuf'
           /\ \A z \in Dying' : z \in Zvals /\ (z \in Dying \/ z = m) => addr'[z] = 0 /\ \A e \in Entries : buf'[e] # z
<1>1. /\ buf \in [Entries -> Nodes \cup {0}] /\ addr \in [Nodes -> Entries \cup {0}] /\ 0 \notin Nodes /\ 0 \notin Entries
      /\ Zvals \subseteq Nodes
  BY Sizes DEF TypeOK
<1>2. /\ buf' = IF addr[m] = 0 THEN buf ELSE [buf EXCEPT ![addr[m]] = 0]
      /\ addr' = [addr EXCEPT ![m] = 0]
  BY DEF Unbuffer
<1>3. buf' \in [Entries -> Nodes \cup {0}] /\ addr' \in [Nodes -> Entries \cup {0}]
  BY <1>1, <1>2
<1>4. \A e \in Entries : buf'[e] = IF e = addr[m] THEN 0 ELSE buf[e]
  BY <1>1, <1>2
<1>5. \A n \in Nodes : addr'[n] = IF n = m THEN 0 ELSE addr[n]
  BY <1>1, <1>2
<1>6. BufInv'
  <2>1. ASSUME NEW e \in Entries, buf'[e] \in Zvals PROVE kind[buf'[e]] # "none" /\ addr'[buf'[e]] = e
    <3>1. e # addr[m] /\ buf'[e] = buf[e] /\ buf[e] \in Zvals
      BY <1>1, <1>4, <2>1
    <3>2. kind[buf[e]] # "none" /\ addr[buf[e]] = e
      BY <3>1 DEF BufInv
    <3> QED BY <1>1, <1>5, <3>1, <3>2
  <2>2. ASSUME NEW n \in Nodes, addr'[n] # 0 PROVE buf'[addr'[n]] = n
    <3>1. n # m /\ addr'[n] = addr[n] /\ addr[n] \in Entries
      BY <1>1, <1>5, <2>2
    <3>2. buf[addr[n]] = n
      BY <2>2, <3>1 DEF BufInv
    <3>3. addr[m] # 0 => buf[addr[m]] = m
      BY DEF BufInv
    <3> QED BY <1>1, <1>4, <3>1, <3>2, <3>3
  <2> QED BY <2>1, <2>2 DEF BufInv
<1>7. Listed' = Listed => ListedBuf'
  <2>1. ASSUME Listed' = Listed, NEW z \in Listed PROVE addr'[z] = 0
    <3>1. addr[z] = 0
      BY DEF ListedBuf
    <3>2. CASE z \in Nodes
      BY <1>5, <3>1, <3>2
    <3>3. CASE z \notin Nodes
      BY <1>1, <1>2, <3>1, <3>3
    <3> QED BY <3>2, <3>3
  <2> QED BY <2>1 DEF ListedBuf
<1>8. ASSUME NEW z \in Zvals, z \in Dying \/ z = m PROVE addr'[z] = 0 /\ \A e \in Entries : buf'[e] # z
  <2>1. CASE z = m
    <3>1. \A e \in Entries : buf[e] = z => addr[m] = e
      BY <2>1 DEF BufInv
    <3> QED BY <1>1, <1>4, <1>5, <2>1, <3>1
  <2>2. CASE z \in Dying
    <3>1. addr[z] = 0 /\ \A e \in Entries : buf[e] # z
      BY <2>2 DEF DyingBuf
    <3> QED BY <1>1, <1>4, <1>5, <3>1
  <2> QED BY <1>8, <2>1, <2>2
<1> QED BY <1>3, <1>6, <1>7, <1>8

\* The last reference to an object: its destructor is called first.
LEMMA DelRefDestructStep ==
    ASSUME IInv, Sound, DelRefDestruct
    PROVE  TypeOK' /\ (Sound' => Inv')
<1>1. /\ Top.at = "del_ref" /\ Top.n \in valid /\ rc[Top.n] = 1 /\ Top.n \notin called
      /\ called' = called \cup {Top.n} /\ rc' = [rc EXCEPT ![Top.n] = 1 + 1]
      /\ stack' = <<Frame("body", Top.n, 0), [Top EXCEPT !.at = "destructed"]>> \o Tail(stack)
      /\ UNCHANGED <<kind, to, elems, valid, var, buf, addr, purple, steps, lost>>
  BY DEF DelRefDestruct, At, LastReference, This, RunDestructor, buffer, ghosts
<1>2. /\ TypeOK /\ Inv /\ stack \in Seq(Frames) /\ stack # <<>> /\ Top \in Frames /\ FieldsOK(Top)
      /\ Objs \subseteq Nodes
  BY Context, Sizes
<1>3. /\ Top.n \in Objs /\ Top.n \in Nodes /\ Top.todo = {} /\ Top.list = {}
      /\ Top.z # 0 => \E j \in 1..Len(stack) - 1 : Fr(stack, j).at = "free" /\ Fr(stack, j).z = Top.z
  BY <1>1, <1>2, DelRefFacts
<1>4. /\ rc \in [Nodes -> Nat] /\ elems \in [Nodes -> SUBSET Zvals] /\ called \in SUBSET Objs
      /\ buf \in [Entries -> Nodes \cup {0}] /\ addr \in [Nodes -> Entries \cup {0}]
  BY <1>2 DEF TypeOK
<1>5. PICK f, g : f = Frame("body", Top.n, 0) /\ g = [Top EXCEPT !.at = "destructed"]
  OBVIOUS
<1>6. f \in Frames /\ f.at = "body" /\ f.n = Top.n /\ f.z = 0 /\ f.todo = {} /\ f.list = {}
  <2>1. "body" \in Labels /\ Top.n \in Nodes \cup {0} /\ 0 \in Zvals \cup {0}
    BY <1>3 DEF Labels
  <2> QED BY <1>5, <2>1, FrameFields
<1>7. g \in Frames /\ g.at = "destructed" /\ g.n = Top.n /\ g.z = Top.z /\ g.todo = {} /\ g.list = {}
  <2>1. Top \in Frames /\ Top.todo = {} /\ Top.list = {} /\ "destructed" \in Labels
    BY <1>2, <1>3 DEF Labels
  <2>2. g = [Top EXCEPT !.at = "destructed"]
    BY <1>5
  <2> QED BY ONLY <2>1, <2>2 DEF Frames
<1>8. stack' \in Seq(Frames) /\ stack' # <<>> /\ Doubled(stack, stack', f, g)
  <2>1. stack' = <<f, g>> \o Tail(stack)
    BY <1>1, <1>5
  <2> QED BY <1>2, <1>6, <1>7, <2>1, FrDouble
<1>9. \A m \in Nodes : m # Top.n => rc'[m] = rc[m]
  BY <1>1, <1>3, <1>4
<1>10. rc' \in [Nodes -> Nat] /\ rc'[Top.n] = 2
  BY <1>1, <1>3, <1>4
<1>11. Ready(f) /\ Ready(g) /\ FieldsOK(f) /\ FieldsOK(g)
  BY <1>1, <1>3, <1>6, <1>7 DEF Ready, FieldsOK, Holds, HoldLabels
<1>12. elems' = [elems EXCEPT ![Top.n] = @ \ {}]
  <2>1. elems[Top.n] \ {} = elems[Top.n]
    OBVIOUS
  <2> QED BY <1>1, <1>3, <1>4, <2>1
<1>13. Tally({f, g}, {})
  <2>1. \E x, y \in Frames : /\ {f, g} = {x, y} /\ Doubled(stack, stack', x, y)
                             /\ x.at = "body" /\ y.at = "destructed" /\ x.todo = {} /\ y.todo = {}
                             /\ rc'[Top.n] = rc[Top.n] + 1
    BY <1>1, <1>6, <1>7, <1>8, <1>10
  <2>2. \A x \in {f, g} : x.n = Top.n /\ x.z \in {0, Top.z} /\ FieldsOK(x) /\ Ready(x)
    BY <1>6, <1>7, <1>11
  <2>3. called \subseteq called' /\ called' \in SUBSET Objs
    BY <1>1, <1>3, <1>4
  <2>4. /\ Top.at \in {"del_ref", "destructed"} /\ Top.n \notin called /\ rc' \in [Nodes -> Nat] /\ rc'[Top.n] # 0
        /\ UNCHANGED <<kind, to, valid, var, purple, steps, lost>>
        /\ buf' \in [Entries -> Nodes \cup {0}] /\ addr' \in [Nodes -> Entries \cup {0}]
    BY <1>1, <1>4, <1>10
  <2> QED BY ONLY <1>8, <1>9, <1>12, <2>1, <2>2, <2>3, <2>4 DEF Tally
<1>14. TypeOK' /\ (BufInv' /\ DyingBuf' /\ ListedBuf' => Inv') /\ Listed' = Listed /\ Dying' = Dying
  BY <1>13, TallyStep
<1>15. BufInv' /\ DyingBuf' /\ ListedBuf'
  <2>1. BufInv /\ DyingBuf /\ ListedBuf
    BY <1>2 DEF Inv, DyingInv, ListInv
  <2> QED BY <1>1, <1>14, <2>1 DEF BufInv, DyingBuf, ListedBuf
<1> QED BY <1>14, <1>15

\* A reference that is not the last one: it is given back, and where the object's
\* zval is being freed, the object may be the root of a cycle.
LEMMA DelRefKeepStep ==
    ASSUME IInv, Sound, DelRefKeep
    PROVE  TypeOK' /\ (Sound' => Inv')
<1>1. /\ Top.at \in {"del_ref", "destructed"} /\ ~ (Top.n \in valid /\ rc[Top.n] = 1)
      /\ rc' = [rc EXCEPT ![Top.n] = @ - 1]
      /\ UNCHANGED <<kind, to, elems, valid, called, var, buf, addr, purple, steps, lost>>
  BY DEF DelRefKeep, At, LastReference, This, buffer, ghosts
<1>2. /\ TypeOK /\ Inv /\ stack \in Seq(Frames) /\ stack # <<>> /\ Top \in Frames /\ FieldsOK(Top)
      /\ Objs \subseteq Nodes /\ FrTypes
  BY Context, Sizes
<1>3. /\ Top.n \in Objs /\ Top.n \in Nodes /\ Top.n \in valid /\ rc[Top.n] \in Nat /\ rc[Top.n] >= 1
      /\ Top.z # 0 => \E j \in 1..Len(stack) - 1 : Fr(stack, j).at = "free" /\ Fr(stack, j).z = Top.z
  BY <1>1, <1>2, DelRefFacts
<1>4. /\ rc \in [Nodes -> Nat] /\ elems \in [Nodes -> SUBSET Zvals] /\ called \in SUBSET Objs
      /\ buf \in [Entries -> Nodes \cup {0}] /\ addr \in [Nodes -> Entries \cup {0}]
  BY <1>2 DEF TypeOK
<1>5. \A m \in Nodes : m # Top.n => rc'[m] = rc[m]
  BY <1>1, <1>3, <1>4
<1>6. rc' \in [Nodes -> Nat] /\ rc'[Top.n] = rc[Top.n] - 1 /\ rc'[Top.n] # 0
  BY <1>1, <1>3, <1>4
<1>7. elems' = [elems EXCEPT ![Top.n] = @ \ {}]
  <2>1. elems[Top.n] \ {} = elems[Top.n]
    OBVIOUS
  <2> QED BY <1>1, <1>3, <1>4, <2>1
<1>8. Top.z # 0 => Top.z \in Zvals /\ kind[Top.z] # "none"
  <2>1. Top.z # 0 => Top.z \in Zvals
    BY <1>2 DEF Frames
  <2>2. ASSUME Top.z # 0 PROVE kind[Top.z] # "none"
    <3>1. PICK j \in 1..Len(stack) - 1 : Fr(stack, j).at = "free" /\ Fr(stack, j).z = Top.z
      BY <1>3, <2>2
    <3>2. j \in 1..Len(stack)
      BY <1>2, FrFacts
    <3>3. Top.z \in Dying
      BY <3>1, <3>2, Context DEF Views
    <3>4. DyingHeap
      BY <1>2 DEF Inv, DyingInv
    <3> QED BY <3>3, <3>4 DEF DyingHeap
  <2> QED BY <2>1, <2>2
<1>9. \E N : Tally(N, {})
  <2>1. CASE stack' = <<Frame("root", Top.n, Top.z)>> \o Tail(stack)
    <3>1. PICK f : f = Frame("root", Top.n, Top.z)
      OBVIOUS
    <3>2. f \in Frames /\ f.at = "root" /\ f.n = Top.n /\ f.z = Top.z /\ f.todo = {} /\ f.list = {}
      <4>1. "root" \in Labels /\ Top.n \in Nodes \cup {0} /\ Top.z \in Zvals \cup {0}
        BY <1>2, <1>3 DEF Labels, Frames
      <4> QED BY <3>1, <4>1, FrameFields
    <3>3. stack' \in Seq(Frames) /\ stack' # <<>> /\ Replaced(stack, stack', f)
      <4>1. stack' = <<f>> \o Tail(stack)
        BY <2>1, <3>1
      <4> QED BY <1>2, <3>2, <4>1, FrReplace
    <3>4. Ready(f) /\ FieldsOK(f)
      <4>1. Top.n \notin Zvals /\ Top.n # 0
        BY <1>3, Sizes
      <4> QED BY <1>3, <1>8, <3>2, <4>1 DEF Ready, FieldsOK, Holds, HoldLabels
    <3>5. \E x \in Frames : /\ {f} = {x} /\ Replaced(stack, stack', x) /\ x.todo = {}
                            /\ \/ x.at = "storage" /\ rc'[Top.n] = rc[Top.n]
                               \/ x.at = "root" /\ rc'[Top.n] = rc[Top.n] - 1
      BY <1>6, <3>2, <3>3
    <3>6. \A x \in {f} : x.n = Top.n /\ x.z \in {0, Top.z} /\ FieldsOK(x) /\ Ready(x)
      BY <3>2, <3>4
    <3>7. Top.at = "del_ref" /\ rc[Top.n] = 1 /\ Top.n \in called => elems'[Top.n] = {}
      BY <1>1, <1>3
    <3>8. called \subseteq called' /\ called' \in SUBSET Objs
      BY <1>1, <1>4
    <3>9. Tally({f}, {})
      BY <1>1, <1>4, <1>5, <1>6, <1>7, <3>3, <3>5, <3>6, <3>7, <3>8 DEF Tally
    <3> QED BY <3>9
  <2>2. CASE stack' = Tail(stack)
    <3>1. stack' \in Seq(Frames) /\ Popped(stack, stack')
      BY <1>2, <2>2, FrTail
    <3>2. stack' # <<>>
      <4>1. PICK n \in Nat : Len(stack) = n + 1 /\ n >= 1
        BY <1>1, Context
      <4>2. Len(stack') = n
        BY <3>1, <4>1 DEF Popped
      <4> QED BY <4>1, <4>2
    <3>3. Top.at = "del_ref" /\ rc[Top.n] = 1 /\ Top.n \in called => elems'[Top.n] = {}
      BY <1>1, <1>3
    <3>4. called \subseteq called' /\ called' \in SUBSET Objs
      BY <1>1, <1>4
    <3>5. Tally({}, {})
      BY <1>1, <1>4, <1>5, <1>6, <1>7, <3>1, <3>2, <3>3, <3>4 DEF Tally
    <3> QED BY <3>5
  <2>3. stack' = <<Frame("root", Top.n, Top.z)>> \o Tail(stack) \/ stack' = Tail(stack)
    BY DEF DelRefKeep, Replace, Return, This
  <2> QED BY <2>1, <2>2, <2>3
<1>10. TypeOK' /\ (BufInv' /\ DyingBuf' /\ ListedBuf' => Inv') /\ Listed' = Listed /\ Dying' = Dying
  BY <1>9, TallyStep
<1>11. BufInv' /\ DyingBuf' /\ ListedBuf'
  <2>1. BufInv /\ DyingBuf /\ ListedBuf
    BY <1>2 DEF Inv, DyingInv, ListInv
  <2> QED BY <1>1, <1>10, <2>1 DEF BufInv, DyingBuf, ListedBuf
<1> QED BY <1>10, <1>11

\* The last reference, and the destructor was called: the storage is freed.
LEMMA DelRefFreeStep ==
    ASSUME IInv, Sound, DelRefFree
    PROVE  TypeOK' /\ (Sound' => Inv')
<1>1. /\ Top.at \in {"del_ref", "destructed"} /\ (Top.at = "del_ref" => Top.n \in called)
      /\ Top.n \in valid /\ rc[Top.n] = 1 /\ Unbuffer(Top.n)
      /\ elems' = [elems EXCEPT ![Top.n] = {}]
      /\ stack' = <<[Top EXCEPT !.at = "storage", !.todo = elems[Top.n]]>> \o Tail(stack)
      /\ UNCHANGED <<kind, to, rc, valid, called, var, purple, steps, lost>>
  BY DEF DelRefFree, At, LastReference, This, ghosts, Replace
<1>2. /\ TypeOK /\ Inv /\ stack \in Seq(Frames) /\ stack # <<>> /\ Top \in Frames /\ FieldsOK(Top)
      /\ Objs \subseteq Nodes
  BY Context, Sizes
<1>3. /\ Top.n \in Objs /\ Top.n \in Nodes /\ Top.todo = {} /\ Top.list = {}
      /\ Top.at = "destructed" => Top.n \in called
  BY <1>1, <1>2, DelRefFacts
<1>4. /\ rc \in [Nodes -> Nat] /\ elems \in [Nodes -> SUBSET Zvals] /\ called \in SUBSET Objs
  BY <1>2 DEF TypeOK
<1>5. PICK f : f = [Top EXCEPT !.at = "storage", !.todo = elems[Top.n]]
  OBVIOUS
<1>6. f \in Frames /\ f.at = "storage" /\ f.n = Top.n /\ f.z = Top.z /\ f.todo = elems[Top.n] /\ f.list = {}
  <2>1. Top \in Frames /\ Top.list = {} /\ "storage" \in Labels /\ elems[Top.n] \in SUBSET Zvals
    BY <1>2, <1>3, <1>4 DEF Labels
  <2>2. f = [Top EXCEPT !.at = "storage", !.todo = elems[Top.n]]
    BY <1>5
  <2> QED BY ONLY <2>1, <2>2 DEF Frames
<1>7. stack' \in Seq(Frames) /\ stack' # <<>> /\ Replaced(stack, stack', f)
  <2>1. stack' = <<f>> \o Tail(stack)
    BY <1>1, <1>5
  <2> QED BY <1>2, <1>6, <2>1, FrReplace
<1>8. elems'[Top.n] = {} /\ elems' = [elems EXCEPT ![Top.n] = @ \ elems[Top.n]]
  <2>1. elems[Top.n] \ elems[Top.n] = {}
    OBVIOUS
  <2> QED BY <1>1, <1>3, <1>4, <2>1
<1>9. Ready(f) /\ FieldsOK(f)
  <2>1. \A e \in elems[Top.n] : kind[e] # "none"
    BY <1>2, <1>3 DEF Inv, HeapInv, ElemsHold
  <2> QED BY <1>1, <1>3, <1>6, <1>8, <2>1 DEF Ready, FieldsOK, Holds, HoldLabels
<1>10. BufInv /\ DyingBuf /\ ListedBuf
  BY <1>2 DEF Inv, DyingInv, ListInv
<1>11. /\ BufInv' /\ buf' \in [Entries -> Nodes \cup {0}] /\ addr' \in [Nodes -> Entries \cup {0}]
       /\ Listed' = Listed => ListedBuf'
       /\ \A z \in Dying' : z \in Zvals /\ (z \in Dying \/ z = Top.n) => addr'[z] = 0 /\ \A e \in Entries : buf'[e] # z
  <2>1. kind' = kind /\ Unbuffer(Top.n)
    BY <1>1
  <2> QED BY <1>2, <1>3, <1>10, <2>1, UnbufferOK
<1>12. Tally({f}, elems[Top.n])
  <2>1. \E x \in Frames : /\ {f} = {x} /\ Replaced(stack, stack', x) /\ x.todo = elems[Top.n]
                          /\ \/ x.at = "storage" /\ rc'[Top.n] = rc[Top.n]
                             \/ x.at = "root" /\ rc'[Top.n] = rc[Top.n] - 1
    BY <1>1, <1>6, <1>7
  <2>2. \A x \in {f} : x.n = Top.n /\ x.z \in {0, Top.z} /\ FieldsOK(x) /\ Ready(x)
    BY <1>6, <1>9
  <2>3. called \subseteq called' /\ called' \in SUBSET Objs
    BY <1>1, <1>4
  <2>4. rc' \in [Nodes -> Nat] /\ rc'[Top.n] # 0 /\ \A m \in Nodes : m # Top.n => rc'[m] = rc[m]
    BY <1>1, <1>4
  <2> QED BY <1>1, <1>7, <1>8, <1>11, <2>1, <2>2, <2>3, <2>4 DEF Tally
<1>13. TypeOK' /\ (BufInv' /\ DyingBuf' /\ ListedBuf' => Inv') /\ Listed' = Listed /\ Dying' = Dying
  BY <1>12, TallyStep
<1>14. DyingBuf'
  <2>1. Dying \subseteq Zvals
    BY ListTypes
  <2> QED BY <1>11, <1>13, <2>1 DEF DyingBuf
<1> QED BY <1>11, <1>13, <1>14
-----------------------------------------------------------------------------
\* Steps that change what is allocated.

\* What the collections have still to destroy, and what they have, is on lists.
LEMMA PartsListed ==
    ASSUME IInv, Sound
    PROVE  /\ Parts(stack, 3) \subseteq Listed /\ Parts(stack, 4) \subseteq Listed
           /\ \A h \in 1..Len(stack) : \A i \in {3, 4} : Part(Fr(stack, h), i) \subseteq Fr(stack, h).list
<1>1. Shape /\ Views
  BY Context DEF Inv
<1>2. \A h \in 1..Len(stack) : FieldsOK(Fr(stack, h))
  BY <1>1 DEF Shape
<1>3. \A h \in 1..Len(stack) : \A i \in {3, 4} : Part(Fr(stack, h), i) \subseteq Fr(stack, h).list
  BY <1>2 DEF Part, FieldsOK
<1>4. ASSUME NEW i \in {3, 4}, NEW x \in Parts(stack, i) PROVE x \in Listed
  <2>1. PICK h \in 1..Len(stack) : x \in Part(Fr(stack, h), i)
    BY <1>4, PartMember
  <2> QED BY <1>1, <1>3, <2>1 DEF Views
<1> QED BY <1>3, <1>4

\* The storage of an object is freed, and its bucket.
LEMMA StorageFreedStep ==
    ASSUME IInv, Sound, StorageFreed
    PROVE  TypeOK' /\ (Sound' => Inv')
<1>1. /\ Top.at = "storage" /\ Top.todo = {} /\ valid' = valid \ {Top.n}
      /\ rc' = [rc EXCEPT ![Top.n] = @ - 1] /\ stack' = Tail(stack)
      /\ kind' = kind /\ to' = to /\ elems' = elems /\ called' = called /\ var' = var
      /\ buf' = buf /\ addr' = addr /\ purple' = purple /\ steps' = steps /\ lost' = lost
  BY DEF StorageFreed, At, This, Return, buffer, ghosts
<1>2. /\ TypeOK /\ Inv /\ stack \in Seq(Frames) /\ stack # <<>> /\ FrTypes /\ Views /\ Top \in Frames /\ FieldsOK(Top)
      /\ Objs \subseteq Nodes /\ Zvals \cap Objs = {}
  BY Context, Sizes
<1>3. PICK n \in Nat : Len(stack) = n + 1 /\ Fr(stack, n + 1) = Top /\ Len(stack) - 1 = n /\ n >= 1
  BY <1>1, Context
<1>4. n + 1 \in 1..Len(stack) /\ \A h \in 1..n : h \in 1..Len(stack) /\ h # n + 1
  BY <1>3
<1>5. /\ rc \in [Nodes -> Nat] /\ valid \subseteq Objs
      /\ Shape /\ HeapInv /\ FrameInv /\ DyingInv /\ ListInv /\ SealInv /\ BufInv
  BY <1>2 DEF TypeOK, Inv
<1>6. Top.n \in Objs /\ Top.n \in Nodes /\ Top.n \in called /\ rc[Top.n] = 1 /\ elems[Top.n] = {}
  BY <1>1, <1>2, <1>3, <1>4, <1>5 DEF FieldsOK, FrameInv, StorageOK
<1>7. /\ Counted(Top.n) = {}
      /\ \A h \in 1..n : ~ Holds(Fr(stack, h), Top.n)
  <2>1. Holds(Fr(stack, n + 1), Top.n)
    BY <1>1, <1>3 DEF Holds, HoldLabels
  <2>2. rc[Top.n] <= 1
    BY <1>6
  <2>3. ASSUME NEW h \in 1..n, Holds(Fr(stack, h), Top.n) PROVE FALSE
    BY <1>4, <1>6, <2>1, <2>2, <2>3, TwoHolds
  <2>4. Counted(Top.n) = {}
    BY <1>4, <1>6, <2>1, <2>2, TwoHolds
  <2> QED BY <2>3, <2>4
<1>8. rc' \in [Nodes -> Nat] /\ rc'[Top.n] = 0 /\ \A m \in Nodes : m # Top.n => rc'[m] = rc[m]
  BY <1>1, <1>5, <1>6
<1>9. stack' \in Seq(Frames) /\ Popped(stack, stack') /\ stack' # <<>> /\ Moves(stack, stack', n, {})
  <2>1. stack' \in Seq(Frames) /\ Popped(stack, stack')
    BY <1>1, <1>2, FrTail
  <2>2. Len(stack') = n
    BY <1>3, <2>1 DEF Popped
  <2>3. stack' # <<>>
    BY <1>3, <2>2
  <2> QED BY <1>2, <1>3, <2>1, <2>3, AllMoves
<1>10. SameParts
  <2>1. Bare(Top)
    BY <1>1, <1>2 DEF Bare, Part, FieldsOK
  <2> QED BY <1>2, <1>9, <2>1, BareSteps
<1>11. Listed' = Listed /\ Dying' = Dying
  BY <1>2, <1>9, <1>10, StackViews, NextViews DEF SameParts
<1>12. TypeOK'
  <2>1. valid' \in SUBSET Objs
    BY <1>1, <1>5
  <2>2. UNCHANGED <<kind, to, elems, called, var, buf, addr, purple, steps, lost>>
    BY <1>1
  <2>3. TypeOK
    BY <1>2
  <2> QED BY ONLY <1>8, <1>9, <2>1, <2>2, <2>3 DEF TypeOK
<1>13. Shape'
  BY <1>1, <1>3, <1>5, <1>9, ShapeSteps
<1>14. \A x : /\ CountIn(stack', RefFrames(x)) = CountIn(stack, RefFrames(x))
              /\ x # Top.n => CountIn(stack', HoldFrames(x)) = CountIn(stack, HoldFrames(x))
  <2> SUFFICES ASSUME NEW x
               PROVE  /\ CountIn(stack', RefFrames(x)) = CountIn(stack, RefFrames(x))
                      /\ x # Top.n => CountIn(stack', HoldFrames(x)) = CountIn(stack, HoldFrames(x))
    OBVIOUS
  <2>1. ~ Refers(Top, x) /\ (x # Top.n => ~ Holds(Top, x))
    BY <1>1 DEF Refers, Holds
  <2>2. Bit(Top, RefFrames(x)) = 0 /\ (x # Top.n => Bit(Top, HoldFrames(x)) = 0)
    BY <1>2, <2>1, Bits
  <2>3. /\ CountIn(stack, RefFrames(x)) \in Nat /\ CountIn(stack, HoldFrames(x)) \in Nat
        /\ CountIn(stack', RefFrames(x)) = CountIn(stack, RefFrames(x)) - Bit(Top, RefFrames(x))
        /\ CountIn(stack', HoldFrames(x)) = CountIn(stack, HoldFrames(x)) - Bit(Top, HoldFrames(x))
    BY <1>2, <1>9, Counts
  <2> QED BY <2>2, <2>3
<1>15. \A z \in Zvals : rc'[z] = rc[z]
  BY <1>2, <1>6, <1>8, Sizes
<1>16. HeapInv'
  <2>1. KindsOK'
    <3>1. KindsOK
      BY <1>5 DEF HeapInv
    <3>2. \A o \in Objs \ valid' : rc'[o] = 0 /\ elems[o] = {}
      BY <1>1, <1>2, <1>6, <1>8, <3>1 DEF KindsOK
    <3> QED BY <1>1, <3>1, <3>2 DEF KindsOK
  <2>2. NullsOK'
    <3>1. NullsOK
      BY <1>5 DEF HeapInv
    <3> QED BY <1>1, <1>10, <3>1 DEF NullsOK, SameParts
  <2>3. ZvalCounts'
    <3>1. ZvalCounts
      BY <1>5 DEF HeapInv
    <3> QED BY <1>1, <1>11, <1>14, <1>15, <3>1 DEF ZvalCounts, ListRef
  <2>4. ObjCounts'
    <3>1. ObjCounts
      BY <1>5 DEF HeapInv
    <3>2. \A o \in valid' : o \in valid /\ o # Top.n /\ o \in Nodes
      BY <1>1, <1>2, <1>5
    <3> QED BY <1>1, <1>8, <1>11, <1>14, <3>1, <3>2 DEF ObjCounts, Counted
  <2>5. VarsHold' /\ ElemsHold'
    BY <1>1, <1>5 DEF HeapInv, VarsHold, ElemsHold
  <2>6. FramesHold'
    <3>1. FramesHold
      BY <1>5 DEF HeapInv
    <3> QED BY <1>1, <1>2, <1>9, <3>1, FramesHoldMove
  <2>7. ZvalsHold'
    <3>1. ZvalsHold
      BY <1>5 DEF HeapInv
    <3>2. \A z \in Zvals \ (Listed \cup Dying) : kind[z] = "object" => to[z] # Top.n
      BY <1>7 DEF Counted, Denoting
    <3> QED BY <1>1, <1>11, <3>1, <3>2 DEF ZvalsHold
  <2> QED BY <2>1, <2>2, <2>3, <2>4, <2>5, <2>6, <2>7 DEF HeapInv
<1>17. FrameInv'
  <2>0. HeldValid /\ StorageOK /\ NamedZvals /\ RootArrays /\ OnFree /\ ReturnOK
    BY <1>5 DEF FrameInv
  <2>1. HeldValid'
    <3>1. ASSUME NEW h \in 1..Len(stack'), NEW o \in Objs, Holds(Fr(stack', h), o) PROVE o \in valid'
      <4>1. h \in 1..n /\ Fr(stack', h) = Fr(stack, h)
        BY <1>3, <1>9 DEF Popped, Kept
      <4>2. o # Top.n
        BY <1>7, <3>1, <4>1
      <4> QED BY <1>1, <1>4, <2>0, <3>1, <4>1, <4>2 DEF HeldValid
    <3> QED BY <3>1 DEF HeldValid
  <2>2. StorageOK'
    <3>1. \A h \in 1..n : Fr(stack, h).at = "storage" => rc'[Fr(stack, h).n] = rc[Fr(stack, h).n]
      <4>1. \A h \in 1..n : Fr(stack, h).at = "storage" => Fr(stack, h).n \in Objs /\ Fr(stack, h).n # Top.n
        BY <1>4, <1>7, StorageObjs DEF Holds, HoldLabels
      <4> QED BY <1>2, <1>8, <4>1
    <3> QED BY <1>1, <1>9, <2>0, <3>1, StorageMove
  <2>3. NamedZvals'
    BY <1>1, <1>2, <1>9, <1>11, <2>0, NamedMove
  <2>4. RootArrays'
    BY <1>1, <1>9, <1>11, <2>0, RootArraysMove
  <2>5. OnFree'
    <3>1. \A h \in 1..Len(stack') : ~ (h > n)
      BY <1>9 DEF Moves
    <3> QED BY <1>9, <2>0, <3>1, OnFreeMove
  <2>6. ReturnOK'
    BY <1>1, <1>9, <2>0, ReturnMove
  <2> QED BY <2>1, <2>2, <2>3, <2>4, <2>5, <2>6 DEF FrameInv
<1>18. DyingInv'
  <2>0. DyingHeap /\ DyingBuf /\ DyingFrames
    BY <1>5 DEF DyingInv
  <2>1. DyingHeap' /\ DyingBuf'
    BY <1>1, <1>11, <2>0 DEF DyingHeap, DyingBuf
  <2>2. DyingFrames'
    BY <1>2, <1>9, <2>0, DyingFramesMove
  <2> QED BY <2>1, <2>2 DEF DyingInv
<1>19. \A h \in 1..Len(stack') : ~ (h > n)
  BY <1>9 DEF Moves
<1>20. ListInv'
  <2>0. ListedBuf /\ Disjoint /\ Pending /\ CalledFirst
    BY <1>5 DEF ListInv
  <2>1. ListedBuf'
    BY <1>1, <1>11, <2>0 DEF ListedBuf
  <2>2. Disjoint'
    BY <1>9, <1>19, <2>0, DisjointMove
  <2>3. Pending'
    <3>1. \A o \in valid' : o \in valid /\ rc'[o] = rc[o]
      BY <1>1, <1>2, <1>5, <1>8
    <3> QED BY <1>1, <1>10, <2>0, <3>1 DEF Pending, SameParts
  <2>4. CalledFirst'
    <3>1. \A h \in 1..Len(stack) : Fr(stack, h).at = "destructors" =>
               /\ h \in 1..Len(stack') /\ Fr(stack', h).at = "destructors"
               /\ Fr(stack', h).list = Fr(stack, h).list
      <4>1. \A h \in 1..Len(stack) : h = n + 1 \/ (h \in 1..n /\ h \in 1..Len(stack') /\ Fr(stack', h) = Fr(stack, h))
        BY <1>3, <1>9 DEF Popped, Kept
      <4> QED BY <1>1, <1>3, <4>1
    <3>2. \A z \in Listed : kind'[z] = "object" /\ to'[z] \in valid' /\ rc'[to'[z]] = 0 =>
               /\ kind[z] = "object" /\ to'[z] = to[z] /\ to[z] \in valid /\ rc[to[z]] = 0
               /\ to[z] \in called => to[z] \in called'
      <4>1. \A o \in valid' : o \in valid /\ rc'[o] = rc[o]
        BY <1>1, <1>2, <1>5, <1>8
      <4> QED BY <1>1, <4>1
    <3> QED BY <1>1, <1>2, <1>5, <1>9, <2>0, <3>1, <3>2, CalledFirstMove
  <2> QED BY <2>1, <2>2, <2>3, <2>4 DEF ListInv
<1>21. SealInv'
  <2>0. SealedVars /\ SealedElems /\ SealedFrames
    BY <1>5 DEF SealInv
  <2>1. SealedVars'
    BY <1>1, <1>2, <1>9, <2>0, SealedVarsMove
  <2>2. SealedFrames'
    BY <1>9, <1>19, <2>0, SealedFramesMove
  <2>3. SealedElems'
    <3>1. \A h \in 1..n : \A m \in Nodes : GivenBack(h, m) => elems'[m] = {}
      BY <1>1 DEF GivenBack
    <3>2. \A o \in valid : rc[o] = 0 => o \in valid' /\ rc'[o] = 0
      BY <1>1, <1>2, <1>5, <1>6, <1>8
    <3> QED BY <1>1, <1>2, <1>5, <1>9, <1>11, <1>19, <2>0, <3>1, <3>2, SealedElemsMove
  <2> QED BY <2>1, <2>2, <2>3 DEF SealInv
<1>22. BufInv'
  BY <1>1, <1>5 DEF BufInv
<1> QED BY <1>12, <1>13, <1>16, <1>17, <1>18, <1>20, <1>21, <1>22 DEF Inv
\* A zval that is being freed is freed.
LEMMA FreeZvalStep ==
    ASSUME IInv, Sound, FreeZval
    PROVE  TypeOK' /\ (Sound' => Inv')
<1>1. /\ Top.at = "free" /\ Top.todo = {} /\ kind' = [kind EXCEPT ![Top.z] = "none"]
      /\ to' = [to EXCEPT ![Top.z] = 0] /\ stack' = Tail(stack)
      /\ elems' = elems /\ rc' = rc /\ valid' = valid /\ called' = called /\ var' = var
      /\ buf' = buf /\ addr' = addr /\ purple' = purple /\ steps' = steps /\ lost' = lost
  BY DEF FreeZval, At, Return, buffer, ghosts, This
<1>2. /\ TypeOK /\ Inv /\ stack \in Seq(Frames) /\ stack # <<>> /\ FrTypes /\ Views /\ Top \in Frames /\ FieldsOK(Top)
      /\ Objs \subseteq Nodes /\ Zvals \cap Objs = {} /\ Zvals \subseteq Nodes
  BY Context, Sizes
<1>3. PICK n \in Nat : Len(stack) = n + 1 /\ Fr(stack, n + 1) = Top /\ Len(stack) - 1 = n /\ n >= 1
  BY <1>1, Context
<1>4. n + 1 \in 1..Len(stack) /\ \A h \in 1..n : h \in 1..Len(stack) /\ h # n + 1 /\ ~ (h > n + 1)
  BY <1>3
<1>5. /\ kind \in [Zvals -> {"none", "array", "object", "null"}] /\ to \in [Zvals -> Objs \cup {0}]
      /\ Shape /\ HeapInv /\ FrameInv /\ DyingInv /\ ListInv /\ SealInv /\ BufInv
  BY <1>2 DEF TypeOK, Inv
<1>6. PICK z \in Zvals : z = Top.z /\ z \in Dying
  <2>1. Top.z # 0 /\ Top.z \in Zvals
    BY <1>1, <1>2 DEF FieldsOK, Frames
  <2>2. Top.z \in Dying
    BY <1>1, <1>2, <1>3, <1>4 DEF Views
  <2> QED BY <2>1, <2>2
<1>7. /\ z \notin Listed /\ kind[z] \in {"array", "object"} /\ elems[z] = {}
      /\ \A v \in Vars : var[v] # z
      /\ \A m \in Nodes : z \notin elems[m]
      /\ addr[z] = 0 /\ \A e \in Entries : buf[e] # z
  BY <1>5, <1>6 DEF DyingInv, DyingHeap, DyingBuf
<1>8. \A h \in 1..n : /\ ~ Refers(Fr(stack, h), z)
                      /\ Fr(stack, h).at = "free" => Fr(stack, h).z # z
  <2>1. DyingFrames
    BY <1>5 DEF DyingInv
  <2> QED BY <1>1, <1>3, <1>4, <1>6, <2>1 DEF DyingFrames
<1>9. /\ kind'[z] = "none" /\ \A y \in Zvals : y # z => kind'[y] = kind[y] /\ to'[y] = to[y]
      /\ \A y \in Zvals : kind'[y] # "none" => y # z
  BY <1>1, <1>5, <1>6
<1>10. stack' \in Seq(Frames) /\ Popped(stack, stack') /\ stack' # <<>> /\ Moves(stack, stack', n, {})
  <2>1. stack' \in Seq(Frames) /\ Popped(stack, stack')
    BY <1>1, <1>2, FrTail
  <2>2. Len(stack') = n
    BY <1>3, <2>1 DEF Popped
  <2>3. stack' # <<>>
    BY <1>3, <2>2
  <2> QED BY <1>2, <1>3, <2>1, <2>3, AllMoves
<1>11. \A h \in 1..Len(stack') : h \in 1..n /\ h \in 1..Len(stack) /\ Fr(stack', h) = Fr(stack, h) /\ ~ (h > n)
  BY <1>3, <1>10 DEF Popped, Kept
<1>12. /\ Parts(stack', 1) = Parts(stack, 1) /\ Parts(stack', 3) = Parts(stack, 3) /\ Parts(stack', 4) = Parts(stack, 4)
  <2>1. Part(Top, 1) = {} /\ Part(Top, 3) = {} /\ Part(Top, 4) = {}
    BY <1>1, <1>2 DEF Part, FieldsOK
  <2>2. \A i : Parts(stack, i) = Below(stack, i) \cup Part(Top, i) /\ Parts(stack', i) = Below(stack, i)
    BY <1>2, <1>10, PartChanges, Context
  <2> QED BY <2>1, <2>2
<1>13. Listed' = Listed
  BY <1>2, <1>10, <1>12, StackViews, NextViews
<1>14. Dying' = Dying \ {z}
  <2>1. Dying' = Parts(stack', 2)
    BY <1>10, NextViews
  <2>2. \A x : x \in Dying' <=> \E h \in 1..n : Fr(stack, h).at = "free" /\ x = Fr(stack, h).z
    <3>1. \A x : x \in Dying' <=> \E h \in 1..Len(stack') : x \in Part(Fr(stack', h), 2)
      BY <2>1, PartMember
    <3>2. \A h, x : x \in Part(Fr(stack', h), 2) <=> Fr(stack', h).at = "free" /\ x = Fr(stack', h).z
      BY DEF Part
    <3>3. Len(stack') = n
      BY <1>3, <1>10 DEF Popped
    <3> QED BY <1>11, <3>1, <3>2, <3>3
  <2>3. \A x : x \in Dying <=> (x = z \/ x \in Dying')
    <3>1. \A h \in 1..Len(stack) : h \in 1..n \/ h = n + 1
      BY <1>3
    <3> QED BY <1>1, <1>2, <1>3, <1>4, <1>6, <2>2, <3>1 DEF Views
  <2>4. z \notin Dying'
    BY <1>8, <2>2
  <2> QED BY <2>3, <2>4
<1>15. TypeOK'
  <2>1. kind' \in [Zvals -> {"none", "array", "object", "null"}] /\ to' \in [Zvals -> Objs \cup {0}]
    BY <1>1, <1>5, <1>6
  <2>2. UNCHANGED <<elems, rc, valid, called, var, buf, addr, purple, steps, lost>>
    BY <1>1
  <2>3. TypeOK
    BY <1>2
  <2> QED BY ONLY <1>10, <2>1, <2>2, <2>3 DEF TypeOK
<1>16. Shape'
  BY <1>1, <1>3, <1>5, <1>10, ShapeSteps
<1>17. \A x : /\ CountIn(stack', RefFrames(x)) = CountIn(stack, RefFrames(x))
              /\ CountIn(stack', HoldFrames(x)) = CountIn(stack, HoldFrames(x))
  <2> SUFFICES ASSUME NEW x
               PROVE  /\ CountIn(stack', RefFrames(x)) = CountIn(stack, RefFrames(x))
                      /\ CountIn(stack', HoldFrames(x)) = CountIn(stack, HoldFrames(x))
    OBVIOUS
  <2>1. ~ Refers(Top, x) /\ ~ Holds(Top, x)
    BY <1>1 DEF Refers, Holds, HoldLabels
  <2>2. Bit(Top, RefFrames(x)) = 0 /\ Bit(Top, HoldFrames(x)) = 0
    BY <1>2, <2>1, Bits
  <2>3. /\ CountIn(stack, RefFrames(x)) \in Nat /\ CountIn(stack, HoldFrames(x)) \in Nat
        /\ CountIn(stack', RefFrames(x)) = CountIn(stack, RefFrames(x)) - Bit(Top, RefFrames(x))
        /\ CountIn(stack', HoldFrames(x)) = CountIn(stack, HoldFrames(x)) - Bit(Top, HoldFrames(x))
    BY <1>2, <1>10, Counts
  <2> QED BY <2>2, <2>3
<1>18. \A o : Denoting(kind', to', o) = Denoting(kind, to, o) \ {z}
  BY <1>9 DEF Denoting
<1>19. HeapInv'
  <2>1. KindsOK'
    <3>1. KindsOK
      BY <1>5 DEF HeapInv
    <3>2. \A y \in Zvals : kind'[y] # "array" => elems[y] = {}
      BY <1>7, <1>9, <3>1 DEF KindsOK
    <3>3. \A y \in Zvals : kind'[y] = "object" => to'[y] \in Objs
      BY <1>9, <3>1 DEF KindsOK
    <3> QED BY <1>1, <3>1, <3>2, <3>3 DEF KindsOK
  <2>2. NullsOK'
    <3>1. NullsOK
      BY <1>5 DEF HeapInv
    <3>2. \A y \in Zvals : kind'[y] = "null" => y \in Parts(stack, 3)
      BY <1>9, <3>1 DEF NullsOK
    <3>3. \A y \in Parts(stack, 3) : kind'[y] # "array"
      <4>1. \A y \in Parts(stack, 3) : y \in Zvals /\ y # z
        BY <1>7, PartsListed, ListTypes
      <4> QED BY <1>9, <3>1, <4>1 DEF NullsOK
    <3> QED BY <1>12, <3>2, <3>3 DEF NullsOK
  <2>3. ZvalCounts'
    <3>1. ZvalCounts
      BY <1>5 DEF HeapInv
    <3> QED BY <1>1, <1>9, <1>13, <1>17, <3>1 DEF ZvalCounts, ListRef
  <2>4. ObjCounts'
    <3>1. ObjCounts
      BY <1>5 DEF HeapInv
    <3>2. \A o : Denoting(kind', to', o) \ (Listed \cup (Dying \ {z})) = Denoting(kind, to, o) \ (Listed \cup Dying)
      BY <1>6, <1>18
    <3> QED BY <1>1, <1>13, <1>14, <1>17, <3>1, <3>2 DEF ObjCounts, Counted
  <2>5. VarsHold'
    <3>1. \A v \in Vars : var[v] # 0 => var[v] \in Zvals
      BY <1>2 DEF TypeOK
    <3> QED BY <1>1, <1>5, <1>7, <1>9, <3>1 DEF HeapInv, VarsHold
  <2>6. ElemsHold'
    <3>1. \A m \in Nodes : elems[m] \subseteq Zvals
      BY <1>2 DEF TypeOK
    <3> QED BY <1>1, <1>5, <1>7, <1>9, <3>1 DEF HeapInv, ElemsHold
  <2>7. FramesHold'
    <3>1. FramesHold
      BY <1>5 DEF HeapInv
    <3>2. \A h \in 1..n : z \notin Fr(stack, h).todo /\ z \notin Fr(stack, h).list
      <4>1. \A h \in 1..n : z \notin Fr(stack, h).list
        BY <1>2, <1>4, <1>7 DEF Views
      <4>2. \A h \in 1..n : FieldsOK(Fr(stack, h))
        BY <1>4, <1>5 DEF Shape
      <4>3. \A h \in 1..n : z \in Fr(stack, h).todo => Fr(stack, h).at = "destroy"
        BY <1>8 DEF Refers
      <4> QED BY <4>1, <4>2, <4>3 DEF FieldsOK
    <3>3. \A h \in 1..n : Fr(stack, h).todo \subseteq Zvals /\ Fr(stack, h).list \subseteq Zvals
      BY <1>2, <1>4 DEF FrTypes, Frames
    <3> QED BY <1>9, <1>11, <3>1, <3>2, <3>3 DEF FramesHold
  <2>8. ZvalsHold'
    <3>1. ZvalsHold
      BY <1>5 DEF HeapInv
    <3> QED BY <1>1, <1>9, <1>13, <1>14, <3>1 DEF ZvalsHold
  <2> QED BY <2>1, <2>2, <2>3, <2>4, <2>5, <2>6, <2>7, <2>8 DEF HeapInv
<1>20. FrameInv'
  <2>0. HeldValid /\ StorageOK /\ NamedZvals /\ RootArrays /\ OnFree /\ ReturnOK
    BY <1>5 DEF FrameInv
  <2>1. HeldValid'
    BY <1>1, <1>10, <2>0, HeldValidMove
  <2>2. StorageOK'
    BY <1>1, <1>10, <2>0, StorageMove
  <2>3. NamedZvals'
    <3>1. ASSUME NEW h \in 1..n, Fr(stack, h).at \in {"ptr_dtor", "root", "resume"} PROVE Fr(stack, h).z # z
      <4>1. Fr(stack, h).at = "resume"
        BY <1>3, <1>5, <3>1 DEF Shape, Calls, TopLabels
      <4> QED BY <1>8, <4>1 DEF Refers
    <3>2. \A h \in 1..n : Fr(stack, h).z # 0 => Fr(stack, h).z \in Zvals
      BY <1>2, <1>4 DEF FrTypes, Frames
    <3> QED BY <1>9, <1>11, <1>13, <2>0, <3>1, <3>2 DEF NamedZvals
  <2>4. RootArrays'
    <3>1. \A h \in 1..n : Fr(stack, h).at \in {"root", "resume"} /\ Fr(stack, h).n \in Zvals => Fr(stack, h).n # z
      BY <1>4, <1>6, <2>0 DEF RootArrays
    <3> QED BY <1>9, <1>11, <1>14, <2>0, <3>1 DEF RootArrays
  <2>5. OnFree'
    BY <1>10, <1>11, <2>0, OnFreeMove
  <2>6. ReturnOK'
    <3>1. \A h \in 1..n : Denoting(kind, to, Fr(stack, h).n) \cap Fr(stack, h).list \subseteq Denoting(kind', to', Fr(stack, h).n)
      <4>1. \A h \in 1..n : z \notin Fr(stack, h).list
        BY <1>2, <1>4, <1>7 DEF Views
      <4> QED BY <1>18, <4>1
    <3> QED BY <1>1, <1>10, <2>0, <3>1, ReturnMove
  <2> QED BY <2>1, <2>2, <2>3, <2>4, <2>5, <2>6 DEF FrameInv
<1>21. DyingInv'
  <2>0. DyingHeap /\ DyingBuf /\ DyingFrames
    BY <1>5 DEF DyingInv
  <2>1. DyingHeap' /\ DyingBuf'
    BY <1>1, <1>9, <1>13, <1>14, <2>0 DEF DyingHeap, DyingBuf
  <2>2. DyingFrames'
    BY <1>2, <1>10, <2>0, DyingFramesMove
  <2> QED BY <2>1, <2>2 DEF DyingInv
<1>22. Listed \subseteq Zvals /\ z \notin Listed
  BY <1>7, ListTypes
<1>23. ListInv'
  <2>0. ListedBuf /\ Disjoint /\ Pending /\ CalledFirst
    BY <1>5 DEF ListInv
  <2>1. ListedBuf'
    BY <1>1, <1>13, <2>0 DEF ListedBuf
  <2>2. Disjoint'
    BY <1>10, <1>11, <2>0, DisjointMove
  <2>3. Pending'
    <3>1. \A o : Denoting(kind, to, o) \cap Parts(stack, 4) = Denoting(kind', to', o) \cap Parts(stack, 4)
      BY <1>18, <1>22, PartsListed
    <3> QED BY <1>1, <1>12, <2>0, <3>1 DEF Pending
  <2>4. CalledFirst'
    <3>1. \A h \in 1..Len(stack) : Fr(stack, h).at = "destructors" =>
               /\ h \in 1..Len(stack') /\ Fr(stack', h).at = "destructors"
               /\ Fr(stack', h).list = Fr(stack, h).list
      <4>1. \A h \in 1..Len(stack) : h = n + 1 \/ (h \in 1..n /\ h \in 1..Len(stack') /\ Fr(stack', h) = Fr(stack, h))
        BY <1>3, <1>10 DEF Popped, Kept
      <4> QED BY <1>1, <1>3, <4>1
    <3>2. \A y \in Listed : kind'[y] = kind[y] /\ to'[y] = to[y]
      BY <1>9, <1>22
    <3> QED BY <1>1, <1>2, <1>5, <1>10, <2>0, <3>1, <3>2, CalledFirstMove
  <2> QED BY <2>1, <2>2, <2>3, <2>4 DEF ListInv
<1>24. SealInv'
  <2>0. SealedVars /\ SealedElems /\ SealedFrames
    BY <1>5 DEF SealInv
  <2>1. SealedVars'
    BY <1>1, <1>2, <1>10, <2>0, SealedVarsMove
  <2>2. SealedFrames'
    BY <1>10, <1>11, <2>0, SealedFramesMove
  <2>3. SealedElems'
    <3>1. \A h \in 1..n : \A m \in Nodes : GivenBack(h, m) => elems'[m] = {}
      BY <1>1 DEF GivenBack
    <3>2. \A o \in valid : rc[o] = 0 =>
               /\ o \in valid' /\ rc'[o] = 0
               /\ Denoting(kind', to', o) \subseteq Denoting(kind, to, o)
               /\ Denoting(kind', to', o) \cap Dying \subseteq Dying'
               /\ Denoting(kind, to, o) \cap Listed \subseteq Denoting(kind', to', o)
      BY <1>1, <1>14, <1>18, <1>22
    <3>3. \A h \in 1..Len(stack') : h > n => ~ Sealing(Fr(stack', h))
      BY <1>11
    <3> QED BY <1>1, <1>2, <1>5, <1>10, <2>0, <3>1, <3>2, <3>3, SealedElemsMove
  <2> QED BY <2>1, <2>2, <2>3 DEF SealInv
<1>25. BufInv'
  BY <1>1, <1>5, <1>7, <1>9 DEF BufInv
<1> QED BY <1>15, <1>16, <1>19, <1>20, <1>21, <1>23, <1>24, <1>25 DEF Inv
\* zval_ptr_dtor drops the last reference: only its own frame refers to the zval.
LEMMA DropLastFacts ==
    ASSUME IInv, Sound, Top.at = "ptr_dtor", rc[Top.z] = 1, Top.z \notin Listed
    PROVE  /\ Top.z \in Zvals /\ Top.z \notin Dying /\ kind[Top.z] \in {"array", "object"}
           /\ \A v \in Vars : var[v] # Top.z
           /\ \A m \in Nodes : Top.z \notin elems[m]
           /\ \A h \in 1..Len(stack) - 1 : ~ Refers(Fr(stack, h), Top.z)
           /\ VarRefs(var, Top.z) = 0 /\ ElemRefs(elems, Top.z) = 0 /\ CountIn(stack, RefFrames(Top.z)) = 1
           /\ kind[Top.z] = "object" => /\ to[Top.z] \in valid /\ Top.z \in Counted(to[Top.z])
                                        /\ elems[Top.z] = {}
<1>1. TypeOK /\ Inv /\ stack \in Seq(Frames) /\ FieldsOK(Top) /\ FrTypes /\ Views /\ Top \in Frames /\ Zvals \subseteq Nodes
  BY Context, Sizes
<1>2. PICK n \in Nat : Len(stack) = n + 1 /\ Fr(stack, n + 1) = Top /\ Len(stack) - 1 = n
  BY Context
<1>3. n + 1 \in 1..Len(stack) /\ \A h \in 1..n : h \in 1..Len(stack) /\ h # n + 1
  BY <1>2
<1>4. /\ NullsOK /\ ZvalCounts /\ NamedZvals /\ ZvalsHold /\ KindsOK /\ DyingFrames
  BY <1>1 DEF Inv, HeapInv, FrameInv, DyingInv
<1>5. PICK z \in Zvals : z = Top.z /\ z # 0
  BY <1>1 DEF FieldsOK, Frames
<1>6. Refers(Fr(stack, n + 1), z)
  BY <1>2, <1>5 DEF Refers
<1>7. z \notin Dying
  BY <1>1, <1>2, <1>3, <1>4, <1>6, DyingApart
<1>8. kind[z] \in {"array", "object"}
  <2>1. kind[z] # "none"
    BY <1>2, <1>3, <1>4, <1>5 DEF NamedZvals
  <2>2. kind[z] # "null"
    BY <1>4, <1>5, PartsListed DEF NullsOK
  <2>3. kind \in [Zvals -> {"none", "array", "object", "null"}]
    BY <1>1 DEF TypeOK
  <2> QED BY <2>1, <2>2, <2>3
<1>9. VarRefs(var, z) = 0 /\ ElemRefs(elems, z) = 0 /\ CountIn(stack, RefFrames(z)) = 1
  <2>1. 1 = VarRefs(var, z) + ElemRefs(elems, z) + CountIn(stack, RefFrames(z)) + ListRef(z)
    BY <1>4, <1>5, <1>8 DEF ZvalCounts
  <2>2. VarRefs(var, z) \in Nat /\ ElemRefs(elems, z) \in Nat /\ ListRef(z) = 0
    BY <1>5, NoneCounted DEF ListRef
  <2>3. CountIn(stack, RefFrames(z)) \in Nat /\ CountIn(stack, RefFrames(z)) # 0
    <3>1. Fr(stack, n + 1) \in RefFrames(z)
      BY <1>1, <1>3, <1>6 DEF FrTypes, RefFrames
    <3>2. Len(stack) \in Nat
      BY <1>2
    <3> QED BY <1>3, <3>1, <3>2, NoneCounted
  <2> QED BY <2>1, <2>2, <2>3
<1>10. (\A v \in Vars : var[v] # z) /\ \A m \in Nodes : z \notin elems[m]
  BY <1>9, NoneCounted
<1>11. ASSUME NEW h \in 1..n, Refers(Fr(stack, h), z) PROVE FALSE
  <2>1. Fr(stack, n + 1) \in RefFrames(z) /\ Fr(stack, h) \in RefFrames(z)
    BY <1>1, <1>3, <1>6, <1>11 DEF FrTypes, RefFrames
  <2>2. CountIn(stack, RefFrames(z)) <= 1
    BY <1>9
  <2>3. Len(stack) \in Nat
    BY <1>2
  <2> QED BY <1>3, <2>1, <2>2, <2>3, OneCounted
<1>12. kind[z] = "object" => to[z] \in valid /\ z \in Counted(to[z]) /\ elems[z] = {}
  BY <1>4, <1>5, <1>7 DEF ZvalsHold, Counted, Denoting, KindsOK
<1> QED BY <1>2, <1>5, <1>7, <1>8, <1>9, <1>10, <1>11, <1>12

\* The frames that zval_ptr_dtor leaves: g frees the zval, and releases what it
\* held; above it f gives the object's reference back.
Freeing(f, g) ==
    /\ g \in Frames /\ g.at = "free" /\ g.n = 0 /\ g.z = Top.z /\ g.todo = elems[Top.z] /\ g.list = {}
    /\ kind[Top.z] = "object" =>
          /\ f \in Frames /\ f.at = "del_ref" /\ f.n = to[Top.z] /\ f.z = Top.z /\ f.todo = {} /\ f.list = {}
          /\ Doubled(stack, stack', f, g)
    /\ kind[Top.z] # "object" => f = g /\ Replaced(stack, stack', g)

LEMMA DropLastFrames ==
    ASSUME IInv, Sound, DropLast
    PROVE  /\ Top.at = "ptr_dtor" /\ rc[Top.z] = 1 /\ Top.z \notin Listed
           /\ rc' = [rc EXCEPT ![Top.z] = 0] /\ Unbuffer(Top.z)
           /\ elems' = [elems EXCEPT ![Top.z] = {}]
           /\ kind' = kind /\ to' = to /\ valid' = valid /\ called' = called /\ var' = var
           /\ purple' = purple /\ steps' = steps /\ lost' = lost
           /\ stack' \in Seq(Frames) /\ stack' # <<>>
           /\ \E f, g : Freeing(f, g)
<1>1. /\ Top.at = "ptr_dtor" /\ rc[Top.z] = 1 /\ Top.z \notin Listed
      /\ rc' = [rc EXCEPT ![Top.z] = 0] /\ Unbuffer(Top.z)
      /\ elems' = [elems EXCEPT ![Top.z] = {}]
      /\ kind' = kind /\ to' = to /\ valid' = valid /\ called' = called /\ var' = var
      /\ purple' = purple /\ steps' = steps /\ lost' = lost
  BY DEF DropLast, At, ghosts
<1>2. IF kind[Top.z] = "object"
      THEN stack' = <<[Frame("del_ref", to[Top.z], Top.z) EXCEPT !.check = TRUE],
                      [Frame("free", 0, Top.z) EXCEPT !.todo = elems[Top.z]]>> \o Tail(stack)
      ELSE stack' = <<[Frame("free", 0, Top.z) EXCEPT !.todo = elems[Top.z]]>> \o Tail(stack)
  BY DEF DropLast, Replace
<1>3. Top.z \in Zvals /\ (kind[Top.z] = "object" => to[Top.z] \in valid)
  BY <1>1, DropLastFacts
<1>4. /\ stack \in Seq(Frames) /\ stack # <<>> /\ valid \subseteq Objs /\ elems \in [Nodes -> SUBSET Zvals]
      /\ Zvals \subseteq Nodes /\ Objs \subseteq Nodes
  BY Context, Sizes DEF TypeOK
<1>5. PICK g : g = [Frame("free", 0, Top.z) EXCEPT !.todo = elems[Top.z]]
  OBVIOUS
<1>6. /\ g \in Frames /\ g.at = "free" /\ g.n = 0 /\ g.z = Top.z /\ g.todo = elems[Top.z] /\ g.list = {}
  <2>1. "free" \in Labels /\ 0 \in Nodes \cup {0} /\ Top.z \in Zvals \cup {0} /\ elems[Top.z] \in SUBSET Zvals
    BY <1>3, <1>4 DEF Labels
  <2>2. LET x == [Frame("free", 0, Top.z) EXCEPT !.todo = elems[Top.z]] IN
        x \in Frames /\ x.at = "free" /\ x.n = 0 /\ x.z = Top.z /\ x.todo = elems[Top.z] /\ x.list = {}
    BY ONLY <2>1 DEF Frame, Frames
  <2> QED BY <1>5, <2>2
<1>7. CASE kind[Top.z] = "object"
  <2>1. PICK f : f = [Frame("del_ref", to[Top.z], Top.z) EXCEPT !.check = TRUE]
    OBVIOUS
  <2>2. f \in Frames /\ f.at = "del_ref" /\ f.n = to[Top.z] /\ f.z = Top.z /\ f.todo = {} /\ f.list = {}
    <3>1. "del_ref" \in Labels /\ to[Top.z] \in Nodes \cup {0} /\ Top.z \in Zvals \cup {0} /\ {} \in SUBSET Zvals
      BY <1>3, <1>4, <1>7 DEF Labels
    <3>2. LET x == [Frame("del_ref", to[Top.z], Top.z) EXCEPT !.check = TRUE] IN
          x \in Frames /\ x.at = "del_ref" /\ x.n = to[Top.z] /\ x.z = Top.z /\ x.todo = {} /\ x.list = {}
      BY ONLY <3>1 DEF Frame, Frames
    <3> QED BY <2>1, <3>2
  <2>3. stack' = <<f, g>> \o Tail(stack)
    BY <1>2, <1>5, <1>7, <2>1
  <2>4. stack' \in Seq(Frames) /\ stack' # <<>> /\ Doubled(stack, stack', f, g)
    BY <1>4, <1>6, <2>2, <2>3, FrDouble
  <2> QED BY <1>1, <1>6, <1>7, <2>2, <2>4 DEF Freeing
<1>8. CASE kind[Top.z] # "object"
  <2>1. stack' = <<g>> \o Tail(stack)
    BY <1>2, <1>5, <1>8
  <2>2. stack' \in Seq(Frames) /\ stack' # <<>> /\ Replaced(stack, stack', g)
    BY <1>4, <1>6, <2>1, FrReplace
  <2> QED BY <1>1, <1>6, <1>8, <2>2 DEF Freeing
<1> QED BY <1>7, <1>8
LEMMA DropLastStep ==
    ASSUME IInv, Sound, DropLast
    PROVE  TypeOK' /\ (Sound' => Inv')
<1>1. /\ Top.at = "ptr_dtor" /\ rc[Top.z] = 1 /\ Top.z \notin Listed
      /\ rc' = [rc EXCEPT ![Top.z] = 0] /\ Unbuffer(Top.z)
      /\ elems' = [elems EXCEPT ![Top.z] = {}]
      /\ kind' = kind /\ to' = to /\ valid' = valid /\ called' = called /\ var' = var
      /\ purple' = purple /\ steps' = steps /\ lost' = lost
      /\ stack' \in Seq(Frames) /\ stack' # <<>>
  BY DropLastFrames
<1>2. /\ TypeOK /\ Inv /\ stack \in Seq(Frames) /\ stack # <<>> /\ FrTypes /\ Views /\ Top \in Frames /\ FieldsOK(Top)
      /\ Objs \subseteq Nodes /\ Zvals \cap Objs = {} /\ Zvals \subseteq Nodes /\ 0 \notin Zvals
  BY Context, Sizes
<1>3. PICK n \in Nat : Len(stack) = n + 1 /\ Fr(stack, n + 1) = Top /\ Len(stack) - 1 = n
  BY Context
<1>4. n + 1 \in 1..Len(stack) /\ \A h \in 1..n : h \in 1..Len(stack) /\ h # n + 1 /\ ~ (h > n + 1)
  BY <1>3
<1>5. /\ kind \in [Zvals -> {"none", "array", "object", "null"}] /\ rc \in [Nodes -> Nat] /\ elems \in [Nodes -> SUBSET Zvals]
      /\ valid \subseteq Objs
      /\ Shape /\ HeapInv /\ FrameInv /\ DyingInv /\ ListInv /\ SealInv /\ BufInv
  BY <1>2 DEF TypeOK, Inv
<1>6. PICK z \in Zvals :
         /\ z = Top.z /\ z \notin Dying /\ kind[z] \in {"array", "object"}
         /\ \A v \in Vars : var[v] # z
         /\ \A m \in Nodes : z \notin elems[m]
         /\ \A h \in 1..n : ~ Refers(Fr(stack, h), z)
         /\ VarRefs(var, z) = 0 /\ ElemRefs(elems, z) = 0 /\ CountIn(stack, RefFrames(z)) = 1
         /\ kind[z] = "object" => to[z] \in valid /\ z \in Counted(to[z]) /\ elems[z] = {}
  BY <1>1, <1>3, DropLastFacts
<1>7. PICK f, g : Freeing(f, g)
  BY DropLastFrames
<1>8. /\ g \in Frames /\ g.at = "free" /\ g.n = 0 /\ g.z = z /\ g.todo = elems[z] /\ g.list = {}
      /\ kind[z] = "object" => f.at = "del_ref" /\ f.n = to[z] /\ f.z = z /\ f.todo = {} /\ f.list = {}
      /\ kind[z] = "object" => f \in Frames /\ Doubled(stack, stack', f, g)
      /\ kind[z] # "object" => f = g /\ Replaced(stack, stack', g)
  BY <1>6, <1>7 DEF Freeing
<1>9. /\ Moves(stack, stack', n, {f, g}) /\ n + 1 \in 1..Len(stack') /\ Fr(stack', n + 1) = g
      /\ \A h \in 1..n : h \in 1..Len(stack') /\ Fr(stack', h) = Fr(stack, h)
  <2>1. CASE kind[z] = "object"
    <3>1. Moves(stack, stack', n, {f, g})
      BY <1>1, <1>2, <1>3, <1>8, <2>1, AllMoves
    <3> QED BY <1>3, <1>8, <2>1, <3>1 DEF Doubled, Kept
  <2>2. CASE kind[z] # "object"
    <3>1. Moves(stack, stack', n, {g})
      BY <1>1, <1>2, <1>3, <1>8, <2>2, AllMoves
    <3>2. {f, g} = {g}
      BY <1>8, <2>2
    <3>3. Moves(stack, stack', n, {f, g})
      BY <3>1, <3>2
    <3>4. Replaced(stack, stack', g)
      BY <1>8, <2>2
    <3>5. /\ n + 1 \in 1..Len(stack') /\ Fr(stack', n + 1) = g
          /\ \A h \in 1..n : h \in 1..Len(stack') /\ Fr(stack', h) = Fr(stack, h)
      BY <1>3, <3>4 DEF Replaced, Kept
    <3> QED BY <3>3, <3>5
  <2> QED BY <2>1, <2>2
<1>10. \A h \in 1..Len(stack') :
          \/ h \in 1..n /\ h \in 1..Len(stack) /\ Fr(stack', h) = Fr(stack, h)
          \/ h = n + 1 /\ Fr(stack', h) = g
          \/ h = n + 2 /\ Fr(stack', h) = f /\ kind[z] = "object"
  <2>1. CASE kind[z] = "object"
    <3>1. Len(stack') = n + 2 /\ Fr(stack', n + 2) = f
      BY <1>3, <1>8, <2>1 DEF Doubled
    <3> QED BY <1>4, <1>9, <2>1, <3>1
  <2>2. CASE kind[z] # "object"
    <3>1. Len(stack') = n + 1
      BY <1>3, <1>8, <2>2 DEF Replaced
    <3> QED BY <1>4, <1>9, <2>2, <3>1
  <2> QED BY <2>1, <2>2
<1>11. FieldsOK(g) /\ (kind[z] = "object" => FieldsOK(f) /\ f.n \in Objs)
  BY <1>2, <1>5, <1>6, <1>8 DEF FieldsOK
<1>12. Shape'
  <2>1. Calls(g) /\ Top.at # "main"
    BY <1>1, <1>8 DEF Calls, TopLabels
  <2>2. CASE kind[z] = "object"
    BY <1>3, <1>5, <1>8, <1>11, <2>1, <2>2, ShapeSteps
  <2>3. CASE kind[z] # "object"
    BY <1>3, <1>5, <1>8, <1>11, <2>1, <2>3, ShapeSteps
  <2> QED BY <2>2, <2>3
<1>13. /\ Parts(stack', 1) = Parts(stack, 1) /\ Parts(stack', 3) = Parts(stack, 3) /\ Parts(stack', 4) = Parts(stack, 4)
       /\ Parts(stack', 2) = Parts(stack, 2) \cup {z}
  <2>1. \A i \in 1..4 : Part(Top, i) = {}
    BY <1>1, <1>2 DEF Part, FieldsOK
  <2>2. /\ Part(g, 1) = {} /\ Part(g, 3) = {} /\ Part(g, 4) = {} /\ Part(g, 2) = {z}
        /\ kind[z] = "object" => \A i \in 1..4 : Part(f, i) = {}
    <3>1. Part(g, 1) = {} /\ Part(g, 3) = {} /\ Part(g, 4) = {} /\ Part(g, 2) = {z}
      BY <1>8 DEF Part
    <3>2. ASSUME kind[z] = "object", NEW i \in 1..4 PROVE Part(f, i) = {}
      <4>1. f.at = "del_ref" /\ f.list = {}
        BY <1>8, <3>2
      <4> QED BY <4>1 DEF Part
    <3> QED BY <3>1, <3>2
  <2>3. \A i \in 1..4 : Parts(stack', i) = Parts(stack, i) \cup Part(g, i)
    <3> SUFFICES ASSUME NEW i \in 1..4 PROVE Parts(stack', i) = Parts(stack, i) \cup Part(g, i)
      OBVIOUS
    <3>1. Top = stack[1]
      BY Context
    <3>2. Parts(stack, i) = Below(stack, i)
      <4>1. Parts(stack, i) = Below(stack, i) \cup Part(stack[1], i)
        BY <1>2, PartChanges
      <4> QED BY <2>1, <3>1, <4>1
    <3>3. CASE kind[z] = "object"
      <4>1. Parts(stack', i) = Below(stack, i) \cup Part(g, i) \cup Part(f, i)
        BY <1>2, <1>8, <3>3, PartChanges
      <4> QED BY <2>2, <3>2, <3>3, <4>1
    <3>4. CASE kind[z] # "object"
      <4>1. Parts(stack', i) = Below(stack, i) \cup Part(g, i)
        BY <1>2, <1>8, <3>4, PartChanges
      <4> QED BY <3>2, <4>1
    <3> QED BY <3>3, <3>4
  <2> QED BY <2>2, <2>3
<1>14. Listed' = Listed /\ Dying' = Dying \cup {z}
  BY <1>1, <1>2, <1>13, StackViews, NextViews
<1>15. /\ rc'[z] = 0 /\ rc' \in [Nodes -> Nat] /\ \A m \in Nodes : m # z => rc'[m] = rc[m]
       /\ elems'[z] = {} /\ elems' \in [Nodes -> SUBSET Zvals] /\ \A m \in Nodes : m # z => elems'[m] = elems[m]
  BY <1>1, <1>2, <1>5, <1>6
<1>16. \A m \in Nodes : elems'[m] \subseteq elems[m]
  BY <1>15
<1>17. /\ BufInv' /\ buf' \in [Entries -> Nodes \cup {0}] /\ addr' \in [Nodes -> Entries \cup {0}] /\ ListedBuf' /\ DyingBuf'
  <2>1. BufInv /\ DyingBuf /\ ListedBuf
    BY <1>5 DEF DyingInv, ListInv
  <2>2. Unbuffer(z) /\ z \in Nodes
    BY <1>1, <1>2, <1>6
  <2>3. /\ BufInv' /\ buf' \in [Entries -> Nodes \cup {0}] /\ addr' \in [Nodes -> Entries \cup {0}]
        /\ Listed' = Listed => ListedBuf'
        /\ \A y \in Dying' : y \in Zvals /\ (y \in Dying \/ y = z) => addr'[y] = 0 /\ \A e \in Entries : buf'[e] # y
    BY <1>1, <1>2, <2>1, <2>2, UnbufferOK
  <2>4. Dying \subseteq Zvals
    BY ListTypes
  <2> QED BY <1>14, <2>3, <2>4 DEF DyingBuf
<1>18. TypeOK'
  <2>1. UNCHANGED <<kind, to, valid, called, var, purple, steps, lost>>
    BY <1>1
  <2>2. TypeOK /\ stack' \in Seq(Frames) /\ stack' # <<>>
    BY <1>1, <1>2
  <2> QED BY ONLY <1>15, <1>17, <2>1, <2>2 DEF TypeOK
<1>19. DyingInv'
  <2>0. DyingHeap /\ DyingFrames
    BY <1>5 DEF DyingInv
  <2>1. DyingHeap'
    BY <1>1, <1>6, <1>14, <1>15, <1>16, <2>0 DEF DyingHeap
  <2>2. DyingFrames'
    <3>1. \A y \in Dying \cup {z} : /\ ~ Refers(g, y)
                                    /\ kind[z] = "object" => ~ Refers(f, y)
      BY <1>2, <1>6, <1>8, <2>0 DEF DyingHeap, Refers
    <3>2. \A h \in 1..n : Fr(stack, h).at = "free" => Fr(stack, h).z # z /\ Fr(stack, h).z \in Dying
      BY <1>2, <1>4, <1>6 DEF Views
    <3> SUFFICES ASSUME NEW h \in 1..Len(stack'), Fr(stack', h).at = "free", NEW j \in 1..Len(stack')
                 PROVE  /\ Refers(Fr(stack', j), Fr(stack', h).z) => j > h /\ Fr(stack', j).at = "resume"
                        /\ Fr(stack', j).at = "free" /\ Fr(stack', j).z = Fr(stack', h).z => j = h
      BY DEF DyingFrames
    <3>3. h \in 1..n \/ (h = n + 1 /\ Fr(stack', h) = g)
      BY <1>8, <1>10
    <3>4. CASE h \in 1..n
      <4>1. Fr(stack', h) = Fr(stack, h) /\ h \in 1..Len(stack) /\ Fr(stack, h).z \in Dying /\ Fr(stack, h).z # z
        BY <1>4, <1>9, <3>2, <3>4
      <4>2. CASE j \in 1..n
        BY <1>4, <1>9, <2>0, <4>1, <4>2 DEF DyingFrames
      <4>3. CASE j = n + 1 /\ Fr(stack', j) = g
        BY <1>8, <3>1, <4>1, <4>3
      <4>4. CASE j = n + 2 /\ Fr(stack', j) = f /\ kind[z] = "object"
        BY <1>8, <3>1, <4>1, <4>4
      <4> QED BY <1>10, <4>2, <4>3, <4>4
    <3>5. CASE h = n + 1 /\ Fr(stack', h) = g
      <4>1. Fr(stack', h).z = z
        BY <1>8, <3>5
      <4>2. CASE j \in 1..n
        BY <1>6, <1>9, <3>2, <4>1, <4>2
      <4>3. CASE j = n + 1 /\ Fr(stack', j) = g
        BY <3>1, <3>5, <4>1, <4>3
      <4>4. CASE j = n + 2 /\ Fr(stack', j) = f /\ kind[z] = "object"
        BY <1>8, <3>1, <4>1, <4>4
      <4> QED BY <1>10, <4>2, <4>3, <4>4
    <3> QED BY <3>3, <3>4, <3>5
  <2> QED BY <1>17, <2>1, <2>2 DEF DyingInv
<1>20. ASSUME NEW x
       PROVE  /\ CountIn(stack, RefFrames(x)) \in Nat /\ CountIn(stack, HoldFrames(x)) \in Nat
              /\ CountIn(stack', RefFrames(x)) + (IF x = z THEN 1 ELSE 0)
                    = CountIn(stack, RefFrames(x)) + (IF x \in elems[z] THEN 1 ELSE 0)
              /\ CountIn(stack', HoldFrames(x))
                    = CountIn(stack, HoldFrames(x)) + (IF kind[z] = "object" /\ x = to[z] THEN 1 ELSE 0)
  <2>1. /\ CountIn(stack, RefFrames(x)) \in Nat /\ CountIn(stack, HoldFrames(x)) \in Nat
    BY <1>1, <1>2, Counts
  <2>2. /\ Bit(Top, RefFrames(x)) = (IF x = z THEN 1 ELSE 0) /\ Bit(Top, HoldFrames(x)) = 0
    <3>1. (Refers(Top, x) <=> x = z) /\ ~ Holds(Top, x)
      BY <1>1, <1>2, <1>6 DEF Refers, Holds, HoldLabels, FieldsOK
    <3> QED BY <1>2, <3>1, Bits
  <2>3. /\ Bit(g, RefFrames(x)) = (IF x \in elems[z] THEN 1 ELSE 0) /\ Bit(g, HoldFrames(x)) = 0
    <3>1. (Refers(g, x) <=> x \in elems[z]) /\ ~ Holds(g, x)
      BY <1>8 DEF Refers, Holds, HoldLabels
    <3> QED BY <1>8, <3>1, Bits
  <2>4. CASE kind[z] = "object"
    <3>1. Bit(f, RefFrames(x)) = 0 /\ Bit(f, HoldFrames(x)) = (IF x = to[z] THEN 1 ELSE 0)
      <4>1. ~ Refers(f, x) /\ (Holds(f, x) <=> x = to[z])
        BY <1>8, <2>4 DEF Refers, Holds, HoldLabels
      <4> QED BY <1>8, <2>4, <4>1, Bits
    <3>2. /\ CountIn(stack', RefFrames(x)) = CountIn(stack, RefFrames(x)) - Bit(Top, RefFrames(x)) + Bit(g, RefFrames(x)) + Bit(f, RefFrames(x))
          /\ CountIn(stack', HoldFrames(x)) = CountIn(stack, HoldFrames(x)) - Bit(Top, HoldFrames(x)) + Bit(g, HoldFrames(x)) + Bit(f, HoldFrames(x))
      BY <1>1, <1>2, <1>8, <2>4, Counts
    <3> QED BY <2>1, <2>2, <2>3, <2>4, <3>1, <3>2
  <2>5. CASE kind[z] # "object"
    <3>1. /\ CountIn(stack', RefFrames(x)) = CountIn(stack, RefFrames(x)) - Bit(Top, RefFrames(x)) + Bit(g, RefFrames(x))
          /\ CountIn(stack', HoldFrames(x)) = CountIn(stack, HoldFrames(x)) - Bit(Top, HoldFrames(x)) + Bit(g, HoldFrames(x))
      BY <1>1, <1>2, <1>8, <2>5, Counts
    <3> QED BY <2>1, <2>2, <2>3, <2>5, <3>1
  <2> QED BY <2>4, <2>5
<1>21. HeapInv'
  <2>0. KindsOK /\ NullsOK /\ ZvalCounts /\ ObjCounts /\ VarsHold /\ ElemsHold /\ FramesHold /\ ZvalsHold
    BY <1>5 DEF HeapInv
  <2>1. KindsOK'
    <3>1. \A o \in Objs : rc'[o] = rc[o] /\ elems'[o] = elems[o]
      BY <1>2, <1>15
    <3>2. \A y \in Zvals : kind[y] # "array" => elems'[y] = {}
      BY <1>2, <1>16, <2>0 DEF KindsOK
    <3> QED BY <1>1, <2>0, <3>1, <3>2 DEF KindsOK
  <2>2. NullsOK'
    BY <1>1, <1>13, <2>0 DEF NullsOK
  <2>3. ZvalCounts'
    <3> SUFFICES ASSUME NEW y \in Zvals, kind[y] # "none"
                 PROVE  rc'[y] = VarRefs(var, y) + ElemRefs(elems', y) + CountIn(stack', RefFrames(y)) + ListRef(y)
      BY <1>1, <1>14 DEF ZvalCounts, ListRef
    <3>1. rc[y] = VarRefs(var, y) + ElemRefs(elems, y) + CountIn(stack, RefFrames(y)) + ListRef(y)
      BY <2>0 DEF ZvalCounts
    <3>2. VarRefs(var, y) \in Nat /\ ListRef(y) \in Nat
      BY NoneCounted DEF ListRef
    <3>3. ElemRefs(elems', y) + (IF y \in elems[z] THEN 1 ELSE 0) = ElemRefs(elems, y) /\ ElemRefs(elems', y) \in Nat
      <4>1. PICK e \in [Nodes -> SUBSET Zvals] : e = elems
        BY <1>5
      <4>2. {} \in SUBSET Zvals /\ elems' = [e EXCEPT ![z] = {}] /\ z \in Nodes
        BY <1>1, <1>2, <1>6, <4>1
      <4>3. /\ ElemRefs(e, y) \in Nat
            /\ y \in e[z] /\ y \notin {} => ElemRefs(elems', y) = ElemRefs(e, y) - 1
            /\ (y \in e[z] <=> y \in {}) => ElemRefs(elems', y) = ElemRefs(e, y)
        BY <4>2, ElemSet
      <4>4. ElemRefs(elems', y) \in Nat
        BY NoneCounted
      <4> QED BY <4>1, <4>3, <4>4
    <3>4. /\ CountIn(stack, RefFrames(y)) \in Nat
          /\ CountIn(stack', RefFrames(y)) + (IF y = z THEN 1 ELSE 0)
                    = CountIn(stack, RefFrames(y)) + (IF y \in elems[z] THEN 1 ELSE 0)
      BY <1>20
    <3>5. rc'[y] = rc[y] - (IF y = z THEN 1 ELSE 0) /\ rc[y] \in Nat
      <4>1. y \in Nodes /\ rc[y] \in Nat
        BY <1>2, <1>5
      <4> QED BY <1>1, <1>6, <1>15, <4>1
    <3>6. CountIn(stack', RefFrames(y)) \in Nat
      BY <1>1, FrFacts, NoneCounted
    <3> QED BY <3>1, <3>2, <3>3, <3>4, <3>5, <3>6
  <2>4. ObjCounts'
    <3> SUFFICES ASSUME NEW o \in valid
                 PROVE  rc'[o] = Cardinality(Counted(o) \ {z}) + CountIn(stack', HoldFrames(o))
      <4>1. \A o : Denoting(kind, to, o) \ (Listed \cup (Dying \cup {z})) = (Denoting(kind, to, o) \ (Listed \cup Dying)) \ {z}
        OBVIOUS
      <4> QED BY <1>1, <1>14, <4>1 DEF ObjCounts, Counted
    <3>1. /\ rc[o] = Cardinality(Counted(o)) + CountIn(stack, HoldFrames(o))
          /\ Cardinality(Counted(o)) \in Nat /\ IsFiniteSet(Counted(o))
      BY <1>5, ObjRefs
    <3>2. /\ CountIn(stack, HoldFrames(o)) \in Nat
          /\ CountIn(stack', HoldFrames(o))
                    = CountIn(stack, HoldFrames(o)) + (IF kind[z] = "object" /\ o = to[z] THEN 1 ELSE 0)
      BY <1>20
    <3>3. rc'[o] = rc[o]
      BY <1>2, <1>5, <1>15
    <3>4. CASE kind[z] = "object" /\ o = to[z]
      <4>1. z \in Counted(o)
        BY <1>6, <3>4
      <4>2. Cardinality(Counted(o) \ {z}) = Cardinality(Counted(o)) - 1
        BY <3>1, <4>1, FS_RemoveElement
      <4> QED BY <3>1, <3>2, <3>3, <3>4, <4>2
    <3>5. CASE ~ (kind[z] = "object" /\ o = to[z])
      <4>1. z \notin Counted(o)
        BY <3>5 DEF Counted, Denoting
      <4>2. Counted(o) \ {z} = Counted(o)
        BY <4>1
      <4>3. Cardinality(Counted(o) \ {z}) = Cardinality(Counted(o))
        BY <4>2
      <4>4. CountIn(stack', HoldFrames(o)) = CountIn(stack, HoldFrames(o))
        BY <3>2, <3>5
      <4> QED BY <3>1, <3>3, <4>3, <4>4
    <3> QED BY <3>4, <3>5
  <2>5. VarsHold' /\ ElemsHold'
    BY <1>1, <1>16, <2>0 DEF VarsHold, ElemsHold
  <2>6. FramesHold'
    <3>1. \A x \in {f, g} : \A e \in x.todo \cup x.list : kind[e] # "none"
      BY <1>2, <1>6, <1>8, <2>0 DEF ElemsHold
    <3> QED BY <1>1, <1>2, <1>9, <2>0, <3>1, FramesHoldMove
  <2>7. ZvalsHold'
    BY <1>1, <1>14, <2>0 DEF ZvalsHold
  <2> QED BY <2>1, <2>2, <2>3, <2>4, <2>5, <2>6, <2>7 DEF HeapInv
<1>22. f.at = "free" \/ f.at = "del_ref"
  BY <1>8
<1>23. FrameInv'
  <2>0. HeldValid /\ StorageOK /\ NamedZvals /\ RootArrays /\ OnFree /\ ReturnOK
    BY <1>5 DEF FrameInv
  <2>1. HeldValid'
    <3>1. \A x \in {f, g} : \A o \in Objs : Holds(x, o) => o \in valid'
      BY <1>1, <1>6, <1>8 DEF Holds, HoldLabels
    <3>2. valid \subseteq valid'
      BY <1>1
    <3> QED BY <1>9, <2>0, <3>1, <3>2, HeldValidMove
  <2>2. StorageOK'
    <3>1. \A h \in 1..n : Fr(stack, h).at = "storage" =>
             rc'[Fr(stack, h).n] = rc[Fr(stack, h).n] /\ elems'[Fr(stack, h).n] \subseteq elems[Fr(stack, h).n]
      <4>1. \A h \in 1..n : Fr(stack, h).at = "storage" => Fr(stack, h).n \in Objs
        BY <1>4, StorageObjs
      <4> QED BY <1>2, <1>15, <4>1
    <3> QED BY <1>1, <1>8, <1>9, <1>22, <2>0, <3>1, StorageMove
  <2>3. NamedZvals'
    <3>1. \A x \in {f, g} : x.at \notin {"ptr_dtor", "root", "resume"}
      BY <1>8, <1>22
    <3> QED BY <1>1, <1>2, <1>9, <1>14, <2>0, <3>1, NamedMove
  <2>4. RootArrays'
    <3>1. ASSUME NEW h \in 1..n, Fr(stack, h).at \in {"root", "resume"}, Fr(stack, h).n = z PROVE FALSE
      <4>1. FieldsOK(Fr(stack, h))
        BY <1>4, <1>5 DEF Shape
      <4>2. Fr(stack, h).at = "resume" /\ Fr(stack, h).z = z
        BY <1>3, <1>5, <3>1, <4>1 DEF Shape, Calls, TopLabels, FieldsOK
      <4> QED BY <1>6, <4>2 DEF Refers
    <3>2. ASSUME NEW h \in 1..Len(stack'), Fr(stack', h).at \in {"root", "resume"}
          PROVE  h \in 1..n /\ h \in 1..Len(stack) /\ Fr(stack', h) = Fr(stack, h)
      BY <1>8, <1>10, <1>22, <3>2
    <3>3. ASSUME NEW h \in 1..Len(stack'), Fr(stack', h).at \in {"root", "resume"}, Fr(stack', h).n \in Zvals
          PROVE  kind[Fr(stack', h).n] = "array" /\ Fr(stack', h).n \notin Dying \cup {z}
      BY <2>0, <3>1, <3>2, <3>3 DEF RootArrays
    <3> QED BY <1>1, <1>14, <3>3 DEF RootArrays
  <2>5. OnFree'
    <3>1. ASSUME NEW h \in 1..Len(stack'), h > n, Fr(stack', h).at \in {"del_ref", "destructed", "storage"}
          PROVE  \E j \in 1..h - 1 : Fr(stack', j).at = "free" /\ Fr(stack', j).z = Fr(stack', h).z
      <4>1. h = n + 2 /\ Fr(stack', h) = f /\ kind[z] = "object"
        BY <1>8, <1>10, <3>1
      <4>2. n + 1 \in 1..h - 1
        BY <4>1
      <4> QED BY <1>8, <1>9, <4>1, <4>2
    <3> QED BY <1>9, <2>0, <3>1, OnFreeMove
  <2>6. ReturnOK'
    <3>1. \A x \in {f, g} : x.at # "destructors"
      BY <1>8, <1>22
    <3> QED BY <1>1, <1>9, <2>0, <3>1, ReturnMove
  <2> QED BY <2>1, <2>2, <2>3, <2>4, <2>5, <2>6 DEF FrameInv
<1>24. \A h \in 1..Len(stack') : h > n => Fr(stack', h).list = {} /\ ~ Sealing(Fr(stack', h))
  BY <1>8, <1>10 DEF Sealing
<1>25. ListInv'
  <2>0. ListedBuf /\ Disjoint /\ Pending /\ CalledFirst
    BY <1>5 DEF ListInv
  <2>2. Disjoint'
    BY <1>9, <1>24, <2>0, DisjointMove
  <2>3. \A o \in valid : rc'[o] = rc[o]
    BY <1>2, <1>5, <1>15
  <2>4. Pending'
    BY <1>1, <1>13, <2>0, <2>3 DEF Pending
  <2>5. CalledFirst'
    <3>1. \A h \in 1..Len(stack) : Fr(stack, h).at = "destructors" =>
               /\ h \in 1..Len(stack') /\ Fr(stack', h).at = "destructors"
               /\ Fr(stack', h).list = Fr(stack, h).list
      <4>1. \A h \in 1..Len(stack) : h = n + 1 \/ (h \in 1..n /\ h \in 1..Len(stack') /\ Fr(stack', h) = Fr(stack, h))
        BY <1>3, <1>9
      <4> QED BY <1>1, <1>3, <4>1
    <3>2. \A x \in {f, g} : x.at # "destroy"
      BY <1>8, <1>22
    <3>3. \A y \in Listed : kind'[y] = "object" /\ to'[y] \in valid' /\ rc'[to'[y]] = 0 =>
               /\ kind[y] = "object" /\ to'[y] = to[y] /\ to[y] \in valid /\ rc[to[y]] = 0
               /\ to[y] \in called => to[y] \in called'
      BY <1>1, <2>3
    <3>4. \A y \in Listed : kind[y] = "object" => kind'[y] = "object" /\ to'[y] = to[y]
      BY <1>1
    <3> QED BY <1>2, <1>5, <1>9, <2>0, <3>1, <3>2, <3>3, <3>4, CalledFirstMove
  <2> QED BY <1>17, <2>2, <2>4, <2>5 DEF ListInv
<1>26. SealInv'
  <2>0. SealedVars /\ SealedElems /\ SealedFrames
    BY <1>5 DEF SealInv
  <2>1. SealedVars'
    <3>1. \A x \in {f, g} : ~ Sealing(x)
      BY <1>8, <1>22 DEF Sealing
    <3> QED BY <1>1, <1>2, <1>9, <2>0, <3>1, SealedVarsMove
  <2>2. SealedFrames'
    BY <1>9, <1>24, <2>0, SealedFramesMove
  <2>3. SealedElems'
    <3>1. \A h \in 1..n : \A m \in Nodes : GivenBack(h, m) => elems'[m] = {}
      BY <1>1 DEF GivenBack
    <3>2. \A o \in valid : rc[o] = 0 =>
               /\ o \in valid' /\ rc'[o] = 0
               /\ Denoting(kind', to', o) \subseteq Denoting(kind, to, o)
               /\ Denoting(kind', to', o) \cap Dying \subseteq Dying'
               /\ Denoting(kind, to, o) \cap Listed \subseteq Denoting(kind', to', o)
      <4>1. \A o \in valid : rc'[o] = rc[o]
        BY <1>2, <1>5, <1>15
      <4> QED BY <1>1, <1>14, <4>1
    <3>3. \A m \in Nodes : elems'[m] \cap Listed \subseteq elems[m]
      BY <1>16
    <3> QED BY <1>2, <1>5, <1>9, <1>24, <2>0, <3>1, <3>2, <3>3, SealedElemsMove
  <2> QED BY <2>1, <2>2, <2>3 DEF SealInv
<1> QED BY <1>12, <1>17, <1>18, <1>19, <1>21, <1>23, <1>25, <1>26 DEF Inv
-----------------------------------------------------------------------------
\* Garbage is not forgotten.

\* What is allocated, and what of it is recorded.
Live == {z \in Zvals : kind[z] # "none"} \cup valid
Buffered == {n \in purple : \E e \in Entries : buf[e] = n}

\* What the references of a node are worth: those of an object zval count until
\* it is listed or dying, and again when its object is to be destroyed with it.
Leads(n) == elems[n] \cup {o \in Objs : /\ n \in Zvals /\ kind[n] = "object" /\ to[n] = o
                                        /\ \/ n \notin Listed \cup Dying
                                           \/ n \in Parts(stack, 4) /\ Garbage(o)}
Edges == [n \in Nodes |-> Leads(n)]

\* What frames have in hand.  A possible root is in hand but for a listed zval.
Named(f) == f.todo \cup f.list \cup (IF f.at = "root" THEN {} ELSE {f.n, f.z})
Names(s) == UNION {Named(Fr(s, h)) : h \in 1..Len(s)}
Handing == IF Top.at = "root" /\ Top.z \notin Listed THEN {Top.n, Top.z} ELSE {}
Held == {var[v] : v \in Vars}
Roots == Held \cup Names(stack) \cup Handing \cup Buffered \cup lost

\* Every set of live nodes has a root in it or is entered from another live node.
Entered(L, R, E) == \A U \in SUBSET L :
    U # {} => \E u \in U : u \in R \/ \E n \in L \ U : u \in E[n]
Cover == Entered(Live, Roots, Edges)
-----------------------------------------------------------------------------
Anchor(u, L, R, E) == u \in R \/ \E n \in R \cap L : u \in E[n]

LEMMA Covering ==
    ASSUME NEW L, NEW R, NEW E, Entered(L, R, E), NEW M, NEW S, NEW F,
           \A u \in M \ L : Anchor(u, M, S, F),
           \A u \in M \cap L \cap R : Anchor(u, M, S, F),
           \A n \in L : \A u \in M \cap L : u \in E[n] =>
                Anchor(u, M, S, F) \/ (n \in M /\ u \in F[n])
    PROVE  Entered(M, S, F)
<1> SUFFICES ASSUME NEW U \in SUBSET M, U # {}
             PROVE  \E u \in U : u \in S \/ \E n \in M \ U : u \in F[n]
  BY DEF Entered
<1>1. CASE \E u \in U : Anchor(u, M, S, F)
  BY <1>1 DEF Anchor
<1>2. CASE \A u \in U : ~ Anchor(u, M, S, F)
  <2>1. U \in SUBSET L
    BY <1>2
  <2>2. PICK u \in U : u \in R \/ \E n \in L \ U : u \in E[n]
    BY <2>1 DEF Entered
  <2>3. u \in M \cap L /\ u \notin R
    BY <1>2, <2>1
  <2> QED BY <1>2, <2>2, <2>3
<1> QED BY <1>1, <1>2

\* The names of a stack after the changes that steps make.
LEMMA NamesMember == \A s, x : x \in Names(s) <=> \E h \in 1..Len(s) : x \in Named(Fr(s, h))
BY DEF Names

LEMMA NameChanges ==
    ASSUME stack \in Seq(Frames), stack # <<>>, stack' \in Seq(Frames), NEW x
    PROVE  /\ x \in Names(stack) /\ x \notin Named(Top) =>
                /\ Popped(stack, stack') => x \in Names(stack')
                /\ \A f : Replaced(stack, stack', f) => x \in Names(stack')
                /\ \A f, g : Doubled(stack, stack', f, g) => x \in Names(stack')
           /\ \A f : Pushed(stack, stack', f) /\ (x \in Names(stack) \/ x \in Named(f)) => x \in Names(stack')
           /\ \A f : Replaced(stack, stack', f) /\ x \in Named(f) => x \in Names(stack')
           /\ \A f, g : Doubled(stack, stack', f, g) /\ (x \in Named(f) \/ x \in Named(g)) => x \in Names(stack')
<1>1. PICK n \in Nat : Len(stack) = n + 1 /\ Fr(stack, n + 1) = Top
  <2>1. Len(stack) \in Nat /\ Len(stack) >= 1 /\ Fr(stack, Len(stack)) = Top
    BY FrFacts DEF Top
  <2>2. Len(stack) - 1 \in Nat /\ Len(stack) = (Len(stack) - 1) + 1
    BY <2>1
  <2> QED BY <2>1, <2>2
<1>2. Len(stack') \in Nat
  OBVIOUS
<1>3. ASSUME x \in Names(stack), x \notin Named(Top)
      PROVE  \E h \in 1..n : x \in Named(Fr(stack, h))
  <2>1. PICK h \in 1..Len(stack) : x \in Named(Fr(stack, h))
    BY <1>3, NamesMember
  <2>2. h # n + 1
    BY <1>1, <1>3, <2>1
  <2> QED BY ONLY <1>1, <2>1, <2>2
<1>4. ASSUME Len(stack') >= n, Kept(stack, stack', n), x \in Names(stack), x \notin Named(Top)
      PROVE  x \in Names(stack')
  <2>1. PICK h \in 1..n : x \in Named(Fr(stack, h))
    BY <1>3, <1>4
  <2>2. h \in 1..Len(stack') /\ Fr(stack', h) = Fr(stack, h)
    BY ONLY <1>2, <1>4, <2>1, n \in Nat DEF Kept
  <2> QED BY <2>1, <2>2, NamesMember
<1>5. Popped(stack, stack') => Len(stack') = n /\ Kept(stack, stack', n)
  BY <1>1 DEF Popped
<1>6. \A f : Replaced(stack, stack', f) => Len(stack') = n + 1 /\ Kept(stack, stack', n) /\ Fr(stack', n + 1) = f
  BY <1>1 DEF Replaced
<1>7. \A f : Pushed(stack, stack', f) => Len(stack') = n + 2 /\ Kept(stack, stack', n + 1) /\ Fr(stack', n + 2) = f
  BY <1>1 DEF Pushed
<1>8. \A f, g : Doubled(stack, stack', f, g) => /\ Len(stack') = n + 2 /\ Kept(stack, stack', n)
                                                 /\ Fr(stack', n + 2) = f /\ Fr(stack', n + 1) = g
  BY <1>1 DEF Doubled
<1>9. ASSUME x \in Names(stack), x \notin Named(Top)
      PROVE  /\ Popped(stack, stack') => x \in Names(stack')
             /\ \A f : Replaced(stack, stack', f) => x \in Names(stack')
             /\ \A f, g : Doubled(stack, stack', f, g) => x \in Names(stack')
  <2>1. n <= n /\ n + 1 >= n /\ n + 2 >= n
    OBVIOUS
  <2> QED BY <1>4, <1>5, <1>6, <1>8, <1>9, <2>1
<1>10. ASSUME NEW f, Pushed(stack, stack', f), x \in Names(stack) \/ x \in Named(f)
       PROVE  x \in Names(stack')
  <2>1. CASE x \in Named(f)
    <3>1. n + 2 \in 1..Len(stack') /\ Fr(stack', n + 2) = f
      BY <1>7, <1>10
    <3> QED BY <2>1, <3>1, NamesMember
  <2>2. CASE x \in Names(stack)
    <3>1. PICK h \in 1..Len(stack) : x \in Named(Fr(stack, h))
      BY <2>2, NamesMember
    <3>2. Len(stack') = n + 2 /\ Kept(stack, stack', n + 1)
      BY <1>7, <1>10
    <3>3. h \in 1..Len(stack') /\ Fr(stack', h) = Fr(stack, h)
      BY ONLY <1>1, <3>1, <3>2 DEF Kept
    <3> QED BY <3>1, <3>3, NamesMember
  <2> QED BY <1>10, <2>1, <2>2
<1>11. ASSUME NEW f, Replaced(stack, stack', f), x \in Named(f)
       PROVE  x \in Names(stack')
  <2>1. n + 1 \in 1..Len(stack') /\ Fr(stack', n + 1) = f
    BY <1>6, <1>11
  <2> QED BY <1>11, <2>1, NamesMember
<1>12. ASSUME NEW f, NEW g, Doubled(stack, stack', f, g), x \in Named(f) \/ x \in Named(g)
       PROVE  x \in Names(stack')
  <2>1. n + 1 \in 1..Len(stack') /\ n + 2 \in 1..Len(stack') /\ Fr(stack', n + 2) = f /\ Fr(stack', n + 1) = g
    BY <1>8, <1>12
  <2> QED BY <1>12, <2>1, NamesMember
<1> QED BY <1>9, <1>10, <1>11, <1>12

\* A node that is a root, or that a root leads to.
Based(u) == Anchor(u, Live, Roots, Edges)

LEMMA LiveNodes ==
    ASSUME TypeOK
    PROVE  Live \subseteq Nodes /\ 0 \notin Live /\ valid \subseteq Live /\ \A z \in Zvals : z \in Live <=> kind[z] # "none"
BY Sizes DEF TypeOK, Live

LEMMA CoverStep ==
    ASSUME TypeOK, TypeOK', Cover,
           \A u \in Live' \ Live : Based(u)',
           \A u \in Live' \cap Live : u \in Roots => Based(u)',
           \A n \in Live : \A u \in Live' \cap Live :
               u \in Leads(n) => Based(u)' \/ (n \in Live' /\ u \in Leads(n)')
    PROVE  Cover'
<1>1. Entered(Live, Roots, Edges)
  BY DEF Cover
<1>2. Live \subseteq Nodes /\ Live' \subseteq Nodes
  BY Sizes DEF TypeOK, Live
<1>3. /\ \A n \in Nodes : Edges[n] = Leads(n)
      /\ \A n \in Nodes : Edges'[n] = Leads(n)'
  BY DEF Edges
<1>4. \A u : Based(u)' <=> Anchor(u, Live', Roots', Edges')
  BY DEF Based, Anchor
<1>5. \A u \in Live' \ Live : Anchor(u, Live', Roots', Edges')
  BY <1>4
<1>6. \A u \in Live' \cap Live \cap Roots : Anchor(u, Live', Roots', Edges')
  BY <1>4
<1>7. \A n \in Live : \A u \in Live' \cap Live : u \in Edges[n] =>
           Anchor(u, Live', Roots', Edges') \/ (n \in Live' /\ u \in Edges'[n])
  BY <1>2, <1>3, <1>4
<1>8. Entered(Live', Roots', Edges')
  BY ONLY <1>1, <1>5, <1>6, <1>7, Covering
<1> QED BY <1>8 DEF Cover, Entered

\* What makes a node a root.
LEMMA RootCases ==
    /\ \A u : u \in Roots <=> u \in Held \/ u \in Names(stack) \/ u \in Handing \/ u \in Buffered \/ u \in lost
    /\ \A u : (u \in Roots)' <=> u \in Held' \/ u \in Names(stack') \/ u \in Handing' \/ u \in Buffered' \/ u \in lost'
    /\ \A u : (u \in Roots)' => Based(u)'
    /\ \A n, u : n \in Roots' /\ n \in Live' /\ n \in Nodes /\ u \in Leads(n)' => Based(u)'
BY DEF Roots, Based, Anchor, Edges

\* Zvals on a list or dying are in hand, and so is what frames refer to and hold.
LEMMA InHand ==
    ASSUME IInv, Sound
    PROVE  /\ Listed \subseteq Names(stack) /\ Dying \subseteq Names(stack)
           /\ \A h \in 1..Len(stack) : \A z \in Zvals : Refers(Fr(stack, h), z) => z \in Names(stack)
           /\ \A h \in 1..Len(stack) : \A o \in Objs : Holds(Fr(stack, h), o) => o \in Names(stack)
           /\ Parts(stack, 4) \subseteq Listed
<1>1. Views /\ FrTypes /\ Inv
  BY Context
<1>2. /\ \A h \in 1..Len(stack) : \A z : Refers(Fr(stack, h), z) => z \in Named(Fr(stack, h))
      /\ \A h \in 1..Len(stack) : \A o : Holds(Fr(stack, h), o) => o \in Named(Fr(stack, h))
      /\ \A h \in 1..Len(stack) : Fr(stack, h).list \subseteq Named(Fr(stack, h))
      /\ \A h \in 1..Len(stack) : Fr(stack, h).at = "free" => Fr(stack, h).z \in Named(Fr(stack, h))
  BY DEF Refers, Holds, HoldLabels, Named
<1>3. \A h \in 1..Len(stack) : FieldsOK(Fr(stack, h))
  BY <1>1 DEF Inv, Shape
<1>4. \A h \in 1..Len(stack) : Part(Fr(stack, h), 4) \subseteq Fr(stack, h).list
  BY <1>3 DEF FieldsOK, Part
<1>5. Parts(stack, 4) \subseteq Listed
  BY <1>1, <1>4, PartMember DEF Views
<1> QED BY <1>1, <1>2, <1>5, NamesMember DEF Views

\* The stack after a step, by the step's form.
LEMMA StackSteps ==
    ASSUME IInv, Sound
    PROVE  /\ Return => stack' \in Seq(Frames) /\ Popped(stack, stack')
           /\ \A f \in Frames : Replace(f) => stack' \in Seq(Frames) /\ Replaced(stack, stack', f)
           /\ \A f \in Frames : Push(f) => stack' \in Seq(Frames) /\ Pushed(stack, stack', f)
           /\ \A f, g \in Frames : stack' = <<f, g>> \o Tail(stack) =>
                 stack' \in Seq(Frames) /\ Doubled(stack, stack', f, g)
<1>1. stack \in Seq(Frames) /\ stack # <<>>
  BY Context
<1> QED BY <1>1, FrTail, FrReplace, FrPush, FrDouble DEF Return, Replace, Push

LEMMA NextInHand ==
    ASSUME stack' \in Seq(Frames)
    PROVE  /\ Listed' \subseteq Names(stack') /\ Dying' \subseteq Names(stack')
           /\ \A h \in 1..Len(stack') : \A z : Refers(Fr(stack', h), z) => z \in Names(stack')
           /\ \A h \in 1..Len(stack') : \A o : Holds(Fr(stack', h), o) => o \in Names(stack')
<1>1. Listed' = Parts(stack', 1) /\ Dying' = Parts(stack', 2)
  BY NextViews
<1>2. \A f : /\ Part(f, 1) \subseteq Named(f) /\ Part(f, 2) \subseteq Named(f)
             /\ \A z : Refers(f, z) => z \in Named(f)
             /\ \A o : Holds(f, o) => o \in Named(f)
  BY DEF Part, Refers, Holds, HoldLabels, Named
<1>3. ASSUME NEW x, x \in Parts(stack', 1) \/ x \in Parts(stack', 2)
      PROVE  x \in Names(stack')
  <2>1. \E h \in 1..Len(stack') : x \in Part(Fr(stack', h), 1) \/ x \in Part(Fr(stack', h), 2)
    BY <1>3, PartMember
  <2> QED BY <1>2, <2>1, NamesMember
<1> QED BY <1>1, <1>2, <1>3, NamesMember
-----------------------------------------------------------------------------
\* A purple node has an entry, or was given up, or is on its way out, or is the
\* possible root that a collection was started for.
Awaiting(x) == \E h \in 1..Len(stack) : Fr(stack, h).at \in {"storage", "resume"} /\ Fr(stack, h).n = x
Safe(x) == x \in Buffered \cup lost \cup Dying \/ Awaiting(x)
PurpleRoots == \A x \in purple \cap Live : Safe(x)

\* The zval of a possible root denotes the root, and something refers to it.
NameFits(f) ==
    f.at \in {"root", "resume"} /\ f.z \notin Listed \cup Dying \cup {0} =>
        /\ f.at = "root" => rc[f.z] >= 1
        /\ f.n \in Objs => kind[f.z] = "object" /\ to[f.z] = f.n

\* del_ref leaves an object without a look at it only if it will free it.
DropFits(f) == f.at \in {"del_ref", "destructed"} /\ ~ f.check => f.at = "del_ref" /\ f.n \in called /\ rc[f.n] = 1

\* While a collection holds an object for its destructor, the destructor gives its
\* own reference back and makes the object a possible root.
Returning(f) == f.at = "destructors" /\ f.n # 0
Returns(f, o) == /\ f.n = o /\ f.z = 0 /\ f.at \in {"body", "del_ref", "root", "resume"}
                 /\ f.at = "del_ref" => f.check
Handed(o) == \/ o \in Buffered \cup lost
             \/ \E h \in 1..Len(stack) : Fr(stack, h).at = "resume" /\ Fr(stack, h).n = o

NamesFit == \A h \in 1..Len(stack) : NameFits(Fr(stack, h))
DropsFit == \A h \in 1..Len(stack) : DropFits(Fr(stack, h))
ReturnsFit == \A h \in 1..Len(stack) : Returning(Fr(stack, h)) =>
    IF h = Len(stack) THEN Handed(Fr(stack, h).n) ELSE Returns(Fr(stack, h + 1), Fr(stack, h).n)

FramesFit == NamesFit /\ DropsFit /\ ReturnsFit
Known == Cover /\ PurpleRoots /\ FramesFit
KInv == IInv /\ (Sound => Known)

LEMMA TopsOnly ==
    ASSUME IInv, Sound
    PROVE  \A h \in 1..Len(stack) - 1 : Fr(stack, h).at \notin TopLabels
BY Context DEF Inv, Shape, Calls

\* What is below the top of the stack stays as it is, unless the zval of a waiting
\* root changes.
NamesStay == \A h \in 1..Len(stack) : 
    Fr(stack, h).at = "resume" /\ Fr(stack, h).z \notin Listed' \cup Dying' \cup {0} =>
        /\ Fr(stack, h).z \notin Listed \cup Dying
        /\ kind[Fr(stack, h).z] = "object" => /\ kind'[Fr(stack, h).z] = "object"
                                              /\ to'[Fr(stack, h).z] = to[Fr(stack, h).z]
Fits(f) == NameFits(f) /\ DropFits(f)

LEMMA FramesFitMove ==
    ASSUME IInv, Sound, NamesFit, DropsFit, NamesStay, NEW b, NEW N, Moves(stack, stack', b, N),
           Len(stack) \in Nat, b <= Len(stack),
           b = Len(stack) => Top.at \notin TopLabels,
           \A f \in N : Fits(f)'
    PROVE  NamesFit' /\ DropsFit'
<1>1. \A h \in 1..Len(stack') : \/ h \in 1..b /\ h \in 1..Len(stack) /\ Fr(stack', h) = Fr(stack, h)
                                \/ Fr(stack', h) \in N
  BY MovesFacts
<1>2. PICK n \in Nat : Len(stack) = n + 1 /\ Fr(stack, n + 1) = Top /\ Len(stack) - 1 = n
  BY Context
<1>3. \A h \in 1..b : Fr(stack, h).at \notin TopLabels
  <2>1. b \in Nat /\ (b = n + 1 \/ b <= n)
    BY <1>2 DEF Moves, Kept
  <2>2. \A h \in 1..n : Fr(stack, h).at \notin TopLabels
    BY <1>2, TopsOnly
  <2>3. \A h \in 1..b : h \in 1..n \/ (h = n + 1 /\ b = n + 1)
    BY ONLY <2>1, n \in Nat
  <2> QED BY <1>2, <2>2, <2>3
<1>4. ASSUME NEW h \in 1..b, h \in 1..Len(stack), NEW g, g = Fr(stack, h)
      PROVE  NameFits(g)' /\ DropFits(g)'
  <2>1. NameFits(g) /\ DropFits(g)
    BY <1>4 DEF NamesFit, DropsFit
  <2>2. g.at # "root" /\ g.at # "del_ref"
    BY <1>3, <1>4 DEF TopLabels
  <2>3. DropFits(g)'
    BY <2>1, <2>2 DEF DropFits
  <2>4. g.at = "resume" /\ g.z \notin Listed' \cup Dying' \cup {0} =>
             /\ g.z \notin Listed \cup Dying
             /\ kind[g.z] = "object" => kind'[g.z] = "object" /\ to'[g.z] = to[g.z]
    BY <1>4 DEF NamesStay
  <2>5. NameFits(g)'
    BY <2>1, <2>2, <2>4 DEF NameFits
  <2> QED BY <2>3, <2>5
<1>5. ASSUME NEW h \in 1..Len(stack'), NEW g, g = Fr(stack', h)
      PROVE  NameFits(g)' /\ DropFits(g)'
  BY <1>1, <1>4, <1>5 DEF Fits
<1> QED BY <1>5 DEF NamesFit, DropsFit, NameFits, DropFits

\* What the frame on top is to give back to a collection.
Owed(o) == /\ Returns(Top, o) /\ Len(stack) - 1 \in 1..Len(stack)
           /\ Returning(Fr(stack, Len(stack) - 1)) /\ Fr(stack, Len(stack) - 1).n = o

LEMMA ReturnsMove ==
    ASSUME IInv, Sound, ReturnsFit, stack' \in Seq(Frames)
    PROVE  /\ Popped(stack, stack') /\ (\A o : Owed(o) => Handed(o)') => ReturnsFit'
           /\ \A f : Replaced(stack, stack', f) /\ ~ Returning(f)
                     /\ (\A o : Owed(o) => Returns(f, o)) => ReturnsFit'
           /\ \A f : Pushed(stack, stack', f) /\ ~ Returning(f) /\ ~ Returning(Top) => ReturnsFit'
           /\ \A f, g : Doubled(stack, stack', f, g) /\ ~ Returning(f)
                        /\ (Returning(g) => Returns(f, g.n))
                        /\ (\A o : Owed(o) => Returns(g, o)) => ReturnsFit'
           /\ stack' = stack /\ ~ Returning(Top) => ReturnsFit'
<1>1. PICK n \in Nat : Len(stack) = n + 1 /\ Fr(stack, n + 1) = Top /\ Len(stack) - 1 = n
  BY Context
<1>2. \A h \in 1..n : Returning(Fr(stack, h)) => Returns(Fr(stack, h + 1), Fr(stack, h).n)
  BY <1>1 DEF ReturnsFit
<1>0. \A h \in 1..n : h = n /\ Returning(Fr(stack, h)) => Owed(Fr(stack, h).n)
  BY <1>1, <1>2 DEF Owed
<1>3. ASSUME NEW m \in Nat, Len(stack') = m + 1,
             \A h \in 1..m : Returning(Fr(stack', h)) => Returns(Fr(stack', h + 1), Fr(stack', h).n),
             \A o : Returning(Fr(stack', m + 1)) /\ o = Fr(stack', m + 1).n => Handed(o)'
      PROVE  ReturnsFit'
  <2>1. ASSUME NEW h \in 1..Len(stack'), Returning(Fr(stack', h)), NEW o, o = Fr(stack', h).n
        PROVE  IF h = Len(stack') THEN Handed(o)' ELSE Returns(Fr(stack', h + 1), o)
    <3>1. h \in 1..m \/ h = m + 1
      BY <1>3, <2>1
    <3> QED BY <1>3, <2>1, <3>1
  <2> QED BY <2>1 DEF ReturnsFit, Handed
<1>4. ASSUME Len(stack') = 0 PROVE ReturnsFit'
  BY <1>4 DEF ReturnsFit
<1>5. ASSUME Popped(stack, stack'), \A o : Owed(o) => Handed(o)' PROVE ReturnsFit'
  <2>1. Len(stack') = n /\ \A h \in 1..n : Fr(stack', h) = Fr(stack, h)
    BY <1>1, <1>5 DEF Popped, Kept
  <2>2. CASE n = 0
    BY <1>4, <2>1, <2>2
  <2>3. ASSUME NEW m \in Nat, n = m + 1 PROVE ReturnsFit'
    <3>1. ASSUME NEW h \in 1..m, Returning(Fr(stack', h))
          PROVE  Returns(Fr(stack', h + 1), Fr(stack', h).n)
      <4>1. h \in 1..n /\ h + 1 \in 1..n
        BY <2>3
      <4> QED BY <1>2, <2>1, <3>1, <4>1
    <3>2. ASSUME NEW o, Returning(Fr(stack', n)), o = Fr(stack', n).n PROVE Handed(o)'
      <4>1. n \in 1..n
        BY <2>3
      <4> QED BY <1>0, <1>5, <2>1, <3>2, <4>1
    <3> QED BY <1>3, <2>1, <2>3, <3>1, <3>2
  <2>4. n = 0 \/ \E m \in Nat : n = m + 1
    <3>1. n = 0 \/ (n - 1 \in Nat /\ n = (n - 1) + 1)
      OBVIOUS
    <3> QED BY <3>1
  <2> QED BY <2>2, <2>3, <2>4
<1>6. ASSUME NEW f, Replaced(stack, stack', f), ~ Returning(f), \A o : Owed(o) => Returns(f, o)
      PROVE  ReturnsFit'
  <2>1. Len(stack') = n + 1 /\ Fr(stack', n + 1) = f /\ \A h \in 1..n : Fr(stack', h) = Fr(stack, h)
    BY <1>1, <1>6 DEF Replaced, Kept
  <2>2. ASSUME NEW h \in 1..n, Returning(Fr(stack', h))
        PROVE  Returns(Fr(stack', h + 1), Fr(stack', h).n)
    <3>1. h + 1 \in 1..n \/ h + 1 = n + 1
      OBVIOUS
    <3> QED BY <1>0, <1>1, <1>2, <1>6, <2>1, <2>2, <3>1
  <2> QED BY <1>3, <1>6, <2>1, <2>2
<1>7. ASSUME Len(stack') = n + 2, \A h \in 1..n + 1 : Fr(stack', h) = Fr(stack, h),
             ~ Returning(Fr(stack', n + 2)), ~ Returning(Top)
      PROVE  ReturnsFit'
  <2>1. ASSUME NEW h \in 1..n + 1, Returning(Fr(stack', h))
        PROVE  Returns(Fr(stack', h + 1), Fr(stack', h).n)
    <3>1. h \in 1..n \/ h = n + 1
      OBVIOUS
    <3>2. h \in 1..n => h \in 1..n + 1 /\ h + 1 \in 1..n + 1
      OBVIOUS
    <3> QED BY <1>1, <1>2, <1>7, <2>1, <3>1, <3>2
  <2>2. n + 1 \in Nat /\ Len(stack') = (n + 1) + 1 /\ (n + 1) + 1 = n + 2
    BY <1>7
  <2> QED BY <1>3, <1>7, <2>1, <2>2
<1>8. ASSUME NEW f, Pushed(stack, stack', f), ~ Returning(f), ~ Returning(Top) PROVE ReturnsFit'
  <2>1. Len(stack') = n + 2 /\ Fr(stack', n + 2) = f /\ \A h \in 1..n + 1 : Fr(stack', h) = Fr(stack, h)
    BY <1>1, <1>8 DEF Pushed, Kept
  <2> QED BY <1>7, <1>8, <2>1
<1>9. ASSUME NEW f, NEW g, Doubled(stack, stack', f, g), ~ Returning(f), Returning(g) => Returns(f, g.n),
             \A o : Owed(o) => Returns(g, o)
      PROVE  ReturnsFit'
  <2>1. /\ Len(stack') = n + 2 /\ Fr(stack', n + 2) = f /\ Fr(stack', n + 1) = g
        /\ \A h \in 1..n : Fr(stack', h) = Fr(stack, h)
    BY <1>1, <1>9 DEF Doubled, Kept
  <2>2. ASSUME NEW h \in 1..n + 1, Returning(Fr(stack', h))
        PROVE  Returns(Fr(stack', h + 1), Fr(stack', h).n)
    <3>1. \/ h = n + 1 /\ h + 1 = n + 2
          \/ h \in 1..n /\ h + 1 \in 1..n
          \/ h \in 1..n /\ h + 1 = n + 1
      OBVIOUS
    <3> QED BY <1>0, <1>1, <1>2, <1>9, <2>1, <2>2, <3>1
  <2>3. n + 1 \in Nat /\ Len(stack') = (n + 1) + 1 /\ (n + 1) + 1 = n + 2
    BY <2>1
  <2> QED BY <1>3, <1>9, <2>1, <2>2, <2>3
<1>10. ASSUME stack' = stack, ~ Returning(Top) PROVE ReturnsFit'
  <2>1. Len(stack') = n + 1 /\ \A h : Fr(stack', h) = Fr(stack, h)
    BY <1>1, <1>10
  <2> QED BY <1>1, <1>2, <1>3, <1>10, <2>1
<1>11. Popped(stack, stack') /\ (\A o : Owed(o) => Handed(o)') => ReturnsFit'
  BY ONLY <1>5
<1>12. \A f : Replaced(stack, stack', f) /\ ~ Returning(f)
              /\ (\A o : Owed(o) => Returns(f, o)) => ReturnsFit'
  BY ONLY <1>6
<1>13. \A f : Pushed(stack, stack', f) /\ ~ Returning(f) /\ ~ Returning(Top) => ReturnsFit'
  BY ONLY <1>8
<1>14. \A f, g : Doubled(stack, stack', f, g) /\ ~ Returning(f)
                 /\ (Returning(g) => Returns(f, g.n))
                 /\ (\A o : Owed(o) => Returns(g, o)) => ReturnsFit'
  BY ONLY <1>9
<1>15. stack' = stack /\ ~ Returning(Top) => ReturnsFit'
  BY ONLY <1>10
<1> QED BY ONLY <1>11, <1>12, <1>13, <1>14, <1>15

LEMMA PurpleMove ==
    ASSUME PurpleRoots, NEW b, NEW N, Moves(stack, stack', b, N), NEW n \in Nat, Len(stack) = n + 1,
           Fr(stack, n + 1) = Top, b = n + 1 \/ b = n,
           \A x \in Live' : x \in purple' => (x \in purple /\ x \in Live) \/ Safe(x)',
           \A x \in Live' : x \in Buffered \cup lost \cup Dying => Safe(x)',
           \A x \in Live' : b = n /\ Top.at \in {"storage", "resume"} /\ x = Top.n => Safe(x)'
    PROVE  PurpleRoots'
<1>1. ASSUME NEW x \in Live', x \in purple', x \in purple, x \in Live, Awaiting(x)
      PROVE  Safe(x)'
  <2>1. PICK h \in 1..n + 1 : Fr(stack, h).at \in {"storage", "resume"} /\ Fr(stack, h).n = x
    BY <1>1 DEF Awaiting
  <2>2. CASE h \in 1..b
    <3>1. h \in 1..Len(stack') /\ Fr(stack', h) = Fr(stack, h)
      BY <2>2 DEF Moves, Kept
    <3>2. Awaiting(x)'
      BY <2>1, <3>1 DEF Awaiting
    <3> QED BY <3>2 DEF Safe
  <2>3. CASE h \notin 1..b
    <3>1. b = n /\ h = n + 1
      BY <2>1, <2>3
    <3> QED BY <2>1, <3>1
  <2> QED BY <2>2, <2>3
<1>2. ASSUME NEW x \in Live', x \in purple'
      PROVE  Safe(x)'
  BY <1>1, <1>2 DEF PurpleRoots, Safe
<1> QED BY <1>2 DEF PurpleRoots
-----------------------------------------------------------------------------
\* Steps that keep what is allocated, listed and dying, and add references at most.
Gaining == /\ SameParts /\ UNCHANGED <<kind, to, valid>>
           /\ \A n \in Nodes : elems[n] \subseteq elems'[n]
           /\ \A o \in Objs : rc[o] = 0 => rc'[o] = 0 \/ o \in Roots'

LEMMA GainingLeads ==
    ASSUME IInv, Sound, stack' \in Seq(Frames), Gaining
    PROVE  /\ Live' = Live /\ Listed' = Listed /\ Dying' = Dying
           /\ \A n \in Live : \A u \in Live : u \in Leads(n) => Based(u)' \/ u \in Leads(n)'
<1>1. TypeOK /\ Listed = Parts(stack, 1) /\ Dying = Parts(stack, 2)
  BY Context
<1>2. /\ Listed' = Parts(stack', 1) /\ Dying' = Parts(stack', 2)
      /\ kind' = kind /\ to' = to /\ valid' = valid
  BY NextViews DEF Gaining
<1>3. Live' = Live /\ Listed' = Listed /\ Dying' = Dying /\ Parts(stack', 4) = Parts(stack, 4)
  BY <1>1, <1>2 DEF Gaining, SameParts, Live
<1>4. ASSUME NEW n \in Live, NEW u \in Live, u \in Leads(n)
      PROVE  Based(u)' \/ u \in Leads(n)'
  <2>1. n \in Nodes
    BY <1>1, LiveNodes
  <2>2. CASE u \in elems[n]
    BY <2>1, <2>2 DEF Gaining, Leads
  <2>3. CASE /\ u \in Objs /\ n \in Zvals /\ kind[n] = "object" /\ to[n] = u
             /\ \/ n \notin Listed \cup Dying
                \/ n \in Parts(stack, 4) /\ Garbage(u)
    <3>1. Garbage(u) => Garbage(u)' \/ u \in Roots'
      BY <1>2, <2>3 DEF Garbage, Gaining
    <3>2. u \in Roots' => Based(u)'
      BY RootCases
    <3>3. Garbage(u)' \/ n \notin Listed \cup Dying => u \in Leads(n)'
      BY <1>2, <1>3, <2>3 DEF Leads
    <3> QED BY <2>3, <3>1, <3>2, <3>3
  <2> QED BY <1>4, <2>2, <2>3 DEF Leads
<1> QED BY <1>3, <1>4

LEMMA GainingCover ==
    ASSUME IInv, Sound, TypeOK', Cover, Gaining, \A u \in Live : u \in Roots => Based(u)'
    PROVE  Cover'
<1>1. TypeOK /\ stack' \in Seq(Frames)
  BY DEF IInv, TypeOK
<1>2. /\ Live' = Live
      /\ \A n \in Live : \A u \in Live : u \in Leads(n) => Based(u)' \/ u \in Leads(n)'
  BY <1>1, GainingLeads
<1> QED BY <1>1, <1>2, CoverStep

\* Where a possible root is done with, its zval is no longer in hand.  Something
\* refers to it all the same: something that is found some other way.
LEMMA LessCover ==
    ASSUME IInv, Sound, TypeOK', Cover, Gaining, NEW z,
           \A u \in Live : u \in Roots /\ u # z => Based(u)',
           z \in Live => Based(z)' \/ \E m \in Live : m # z /\ z \in Leads(m)',
           \A u \in Live : u \in Leads(z) => Based(u)'
    PROVE  Cover'
<1>1. TypeOK /\ stack' \in Seq(Frames)
  BY DEF IInv, TypeOK
<1>2. /\ Live' = Live
      /\ \A n \in Live : \A u \in Live : u \in Leads(n) => Based(u)' \/ u \in Leads(n)'
  BY <1>1, GainingLeads
<1>3. Live \subseteq Nodes
  BY <1>1, LiveNodes
<1>4. /\ \A n \in Live : Edges[n] = Leads(n) /\ Edges'[n] = Leads(n)'
      /\ \A u : Based(u)' <=> Anchor(u, Live', Roots', Edges')
  BY <1>3 DEF Edges, Based, Anchor
<1>5. ASSUME NEW U \in SUBSET Live, U # {},
             \A u \in U : u \notin Roots' /\ \A n \in Live \ U : u \notin Leads(n)'
      PROVE  FALSE
  <2>1. \A u \in U : ~ Based(u)'
    BY <1>2, <1>4, <1>5 DEF Anchor
  <2>2. \A u \in U : u \in Roots => u = z
    BY <2>1
  <2>3. z \in U => U \ {z} # {}
    BY <1>5, <2>1
  <2>4. U \ {z} # {} /\ U \ {z} \in SUBSET Live
    BY <1>5, <2>3
  <2>5. PICK u \in U \ {z} : u \in Roots \/ \E n \in Live \ (U \ {z}) : u \in Edges[n]
    BY <2>4 DEF Cover, Entered
  <2>6. PICK n \in Live \ (U \ {z}) : u \in Leads(n)
    BY <1>4, <2>2, <2>5
  <2>7. CASE n = z
    BY <2>1, <2>6, <2>7
  <2>8. CASE n # z
    <3>1. n \in Live \ U
      BY <2>6, <2>8
    <3>2. u \in Leads(n)'
      BY <1>2, <2>1, <2>6
    <3> QED BY <1>5, <3>1, <3>2
  <2> QED BY <2>7, <2>8
<1>6. Entered(Live', Roots', Edges')
  <2>1. SUFFICES ASSUME NEW U \in SUBSET Live, U # {}
                 PROVE  \E u \in U : u \in Roots' \/ \E n \in Live \ U : u \in Edges'[n]
    BY <1>2 DEF Entered
  <2> QED BY <1>4, <1>5, <2>1
<1> QED BY <1>6 DEF Cover, Entered

\* A zval that is counted is found: in a variable, in a node, or by a frame.
LEMMA Referred ==
    ASSUME TypeOK', Inv', NEW z \in Zvals, kind'[z] # "none", rc'[z] >= 1
    PROVE  z \in Roots' \/ \E m \in Live' : z \in elems'[m]
<1>1. PICK V, E, F, Q : /\ V = VarRefs(var', z) /\ E = ElemRefs(elems', z)
                        /\ F = CountIn(stack', RefFrames(z)) /\ Q = (IF z \in Listed' THEN 1 ELSE 0)
  OBVIOUS
<1>2. rc'[z] = V + E + F + Q
  BY <1>1 DEF Inv, HeapInv, ZvalCounts, ListRef
<1>3. stack' \in Seq(Frames) /\ Len(stack') \in Nat
  BY DEF TypeOK
<1>4. ASSUME z \notin Roots', \A m \in Live' : z \notin elems'[m] PROVE FALSE
  <2>1. \A v \in Vars : var'[v] # z
    BY <1>4 DEF Roots, Held
  <2>2. z \notin Names(stack')
    BY <1>4 DEF Roots
  <2>3. z \notin Listed'
    BY <1>3, <2>2, NextInHand
  <2>4. \A h \in 1..Len(stack') : Fr(stack', h) \notin RefFrames(z)
    BY <1>3, <2>2, NextInHand DEF RefFrames
  <2>5. \A m \in Nodes : z \notin elems'[m]
    <3>1. ASSUME NEW m \in Nodes, z \in elems'[m] PROVE m \in Live'
      <4>1. CASE m \in Zvals
        BY <3>1, <4>1 DEF Inv, HeapInv, KindsOK, Live
      <4>2. CASE m \in Objs
        BY <3>1, <4>2 DEF Inv, HeapInv, KindsOK, Live
      <4> QED BY <4>1, <4>2 DEF Nodes
    <3> QED BY <1>4, <3>1
  <2>6. V = 0 /\ E = 0 /\ F = 0
    BY <1>1, <1>3, <2>1, <2>4, <2>5, NoneCounted
  <2>7. Q = 0
    BY <1>1, <2>3
  <2> QED BY <1>2, <2>6, <2>7
<1> QED BY <1>4
-----------------------------------------------------------------------------
Shifts == \/ Popped(stack, stack') \/ stack' = stack
          \/ \E f : Replaced(stack, stack', f) \/ Pushed(stack, stack', f)
          \/ \E f, g : Doubled(stack, stack', f, g)

LEMMA RootsKept ==
    ASSUME IInv, Sound, stack' \in Seq(Frames), Shifts,
           \A u \in Live : u \in Held => u \in Roots',
           \A u \in Live : u \in Buffered \cup lost => u \in Roots'
    PROVE  \A u \in Live : u \in Roots => u \in Roots' \/ u \in Named(Top) \cup Handing
<1>1. stack \in Seq(Frames) /\ stack # <<>>
  BY Context
<1>2. ASSUME NEW u \in Live, u \in Names(stack), u \notin Named(Top) PROVE u \in Names(stack')
  BY <1>1, <1>2, NameChanges DEF Shifts
<1>3. \A u : u \in Names(stack') => u \in Roots'
  BY RootCases
<1> QED BY <1>2, <1>3, RootCases

\* Steps that keep what is allocated and buffered, and those that change the stack
\* and counts and nothing else that matters here.
Placid == UNCHANGED <<kind, to, valid, buf, purple, lost>> /\ SameParts
Quiet == Placid /\ UNCHANGED <<elems, var>>

LEMMA QuietCover ==
    ASSUME IInv, Sound, Cover, TypeOK', Quiet, Shifts,
           \A o \in Objs : rc[o] = 0 => rc'[o] = 0 \/ o \in Roots',
           \A u \in Live : u \in Named(Top) \cup Handing => Based(u)'
    PROVE  Cover'
<1>1. stack' \in Seq(Frames)
  BY DEF TypeOK
<1>2. Held' = Held /\ Buffered' = Buffered /\ lost' = lost
  BY DEF Quiet, Placid, Held, Buffered
<1>3. \A u \in Live : u \in Roots => u \in Roots' \/ u \in Named(Top) \cup Handing
  BY <1>1, <1>2, RootCases, RootsKept
<1>4. \A u \in Live : u \in Roots => Based(u)'
  BY <1>3, RootCases
<1>5. Gaining
  BY DEF Gaining, Quiet, Placid
<1> QED BY <1>4, <1>5, GainingCover

LEMMA PlacidRest ==
    ASSUME IInv, Sound, PurpleRoots, NamesFit, DropsFit, stack' \in Seq(Frames), Placid,
           NEW b, NEW N, Moves(stack, stack', b, N), b = Len(stack) \/ b = Len(stack) - 1,
           b = Len(stack) => Top.at \notin TopLabels,
           \A x \in Live : b = Len(stack) - 1 /\ Top.at \in {"storage", "resume"} /\ x = Top.n => Safe(x)',
           \A f \in N : Fits(f)'
    PROVE  PurpleRoots' /\ NamesFit' /\ DropsFit'
<1>1. PICK n \in Nat : Len(stack) = n + 1 /\ Fr(stack, n + 1) = Top /\ Len(stack) - 1 = n
  BY Context
<1>2. Live' = Live /\ Buffered' = Buffered /\ lost' = lost /\ purple' = purple
  BY DEF Placid, Live, Buffered
<1>3. Listed' = Listed /\ Dying' = Dying
  BY Context, NextViews DEF Placid, SameParts
<1>4. \A x \in Live : x \in Buffered \cup lost \cup Dying => Safe(x)'
  BY <1>2, <1>3 DEF Safe
<1>5. PurpleRoots'
  <2>1. b = n + 1 \/ b = n
    BY <1>1
  <2>2. \A x \in Live' : x \in purple' => (x \in purple /\ x \in Live) \/ Safe(x)'
    BY <1>2
  <2>3. \A x \in Live' : x \in Buffered \cup lost \cup Dying => Safe(x)'
    BY <1>2, <1>4
  <2>4. \A x \in Live' : b = n /\ Top.at \in {"storage", "resume"} /\ x = Top.n => Safe(x)'
    BY <1>1, <1>2
  <2> QED BY <1>1, <2>1, <2>2, <2>3, <2>4, PurpleMove
<1>6. NamesStay
  BY <1>3 DEF NamesStay, Placid
<1>7. Len(stack) \in Nat /\ b <= Len(stack)
  BY <1>1
<1> QED BY <1>5, <1>6, <1>7, FramesFitMove

\* Frames that make no claim.
LEMMA Fitting == \A f : f.at \notin {"root", "resume", "del_ref", "destructed"} => Fits(f)'
BY DEF Fits, NameFits, DropFits

LEMMA Owing ==
    ASSUME IInv, Sound, NEW o, Owed(o)
    PROVE  /\ Top.n = o /\ Top.z = 0 /\ o \in valid /\ o \in Objs
           /\ Top.at \in {"body", "del_ref", "root", "resume"} /\ (Top.at = "del_ref" => Top.check)
           /\ rc[o] <= 1 => Top.at \in {"root", "resume"}
           /\ \A h \in 1..Len(stack) : Fr(stack, h).at = "storage" => Fr(stack, h).n # o
<1>1. /\ Returns(Top, o) /\ Len(stack) - 1 \in 1..Len(stack)
      /\ Returning(Fr(stack, Len(stack) - 1)) /\ Fr(stack, Len(stack) - 1).n = o
  BY DEF Owed
<1>2. PICK n \in Nat : Len(stack) = n + 1 /\ Fr(stack, n + 1) = Top /\ Len(stack) - 1 = n
  BY Context
<1>3. n \in 1..Len(stack) /\ n + 1 \in 1..Len(stack) /\ Returning(Fr(stack, n)) /\ Fr(stack, n).n = o
  BY <1>1, <1>2
<1>4. Shape /\ HeldValid /\ StorageOK
  BY Context DEF Inv, FrameInv
<1>5. o \in Objs /\ Holds(Fr(stack, n), o)
  BY <1>3, <1>4 DEF Shape, FieldsOK, Returning, Holds, HoldLabels
<1>6. o \in valid
  BY <1>3, <1>4, <1>5 DEF HeldValid
<1>7. Top.n = o /\ Top.z = 0 /\ Top.at \in {"body", "del_ref", "root", "resume"} /\ (Top.at = "del_ref" => Top.check)
  BY <1>1 DEF Returns
<1>8. ASSUME rc[o] <= 1, NEW h \in 1..Len(stack), Holds(Fr(stack, h), o) PROVE h = n
  BY <1>3, <1>5, <1>8, TwoHolds
<1>9. rc[o] <= 1 => Top.at \in {"root", "resume"}
  <2>1. Top.at \in {"body", "del_ref"} => Holds(Fr(stack, n + 1), o)
    BY <1>2, <1>7 DEF Holds, HoldLabels
  <2> QED BY <1>3, <1>7, <1>8, <2>1
<1>10. ASSUME NEW h \in 1..Len(stack), Fr(stack, h).at = "storage", Fr(stack, h).n = o PROVE FALSE
  <2>1. Holds(Fr(stack, h), o)
    BY <1>10 DEF Holds, HoldLabels
  <2>2. rc[o] <= 1
    BY <1>4, <1>10 DEF StorageOK
  <2>3. h = n
    BY <1>8, <2>1, <2>2
  <2> QED BY <1>3, <1>10, <2>3 DEF Returning
<1> QED BY <1>5, <1>6, <1>7, <1>9, <1>10
-----------------------------------------------------------------------------
\* The steps, one by one.
BareLabel(f) == f.list = {} /\ f.at # "free"

LEMMA BareFrames == \A f : BareLabel(f) /\ f.at # "destroy" /\ f.at # "destructors" => Bare(f)
BY DEF BareLabel, Bare, Part

LEMMA CollectNowKnown ==
    ASSUME IInv, Sound, Known, IInv', CollectNow
    PROVE  Known'
<1>1. PICK f : f = Frame("collect", 0, 0)
  OBVIOUS
<1>2. f \in Frames /\ f.at = "collect" /\ f.n = 0 /\ f.z = 0 /\ f.todo = {} /\ f.list = {}
  BY <1>1, FrameFields DEF Labels
<1>3. /\ Push(f) /\ Top.at \in {"main", "body"}
      /\ UNCHANGED <<kind, to, elems, rc, valid, var, buf, purple, lost>>
  BY <1>1 DEF CollectNow, Statement, InScript, At, heap, buffer, ghosts
<1>4. stack \in Seq(Frames) /\ stack # <<>> /\ TypeOK' /\ Cover /\ PurpleRoots /\ NamesFit /\ DropsFit /\ ReturnsFit
  BY Context DEF IInv, Known, FramesFit
<1>5. stack' \in Seq(Frames) /\ Pushed(stack, stack', f)
  BY <1>2, <1>3, StackSteps
<1>6. Moves(stack, stack', Len(stack), {f}) /\ Shifts
  BY <1>4, <1>5, AllMoves DEF Shifts
<1>7. Quiet
  <2>1. SameParts
    BY <1>2, <1>4, <1>5, BareFrames, BareSteps DEF BareLabel
  <2> QED BY <1>3, <2>1 DEF Quiet, Placid
<1>8. \A u : u \in Named(Top) \cup Handing => u \in Roots'
  <2>1. \A u : u \in Named(Top) => u \in Names(stack)
    <3>1. Len(stack) \in 1..Len(stack) /\ Fr(stack, Len(stack)) = Top
      BY <1>4, FrFacts DEF Top
    <3> QED BY <3>1, NamesMember
  <2>2. Handing = {}
    BY <1>3 DEF Handing
  <2> QED BY <1>4, <1>5, <2>1, <2>2, NameChanges, RootCases
<1>9. Cover'
  <2>1. \A o \in Objs : rc[o] = 0 => rc'[o] = 0 \/ o \in Roots'
    BY <1>3
  <2>2. \A u \in Live : u \in Named(Top) \cup Handing => Based(u)'
    BY <1>8, RootCases
  <2> QED BY <1>4, <1>6, <1>7, <2>1, <2>2, QuietCover
<1>10. PurpleRoots' /\ NamesFit' /\ DropsFit'
  <2>1. \A x \in {f} : Fits(x)'
    BY <1>2, Fitting
  <2>2. Len(stack) # Len(stack) - 1 /\ Top.at \notin TopLabels
    BY <1>3, <1>4, FrFacts DEF TopLabels
  <2> QED BY <1>4, <1>5, <1>6, <1>7, <2>1, <2>2, PlacidRest DEF Quiet
<1>11. ReturnsFit'
  BY <1>2, <1>3, <1>4, <1>5, ReturnsMove DEF Returning
<1> QED BY <1>9, <1>10, <1>11 DEF Known, FramesFit

LEMMA EndBodyKnown ==
    ASSUME IInv, Sound, Known, IInv', EndBody
    PROVE  Known'
<1>1. PICK f : f = [Frame("del_ref", This, 0) EXCEPT !.check = TRUE]
  OBVIOUS
<1>2. /\ stack \in Seq(Frames) /\ stack # <<>> /\ Top \in Frames /\ FieldsOK(Top)
      /\ TypeOK' /\ Cover /\ PurpleRoots /\ NamesFit /\ DropsFit /\ ReturnsFit
  BY Context DEF IInv, Known, FramesFit
<1>3. /\ Replace(f) /\ Top.at = "body" /\ Top.n \in Objs /\ Top.z = 0 /\ Top.todo = {} /\ Top.list = {}
      /\ UNCHANGED <<kind, to, elems, rc, valid, var, buf, purple, lost>>
  BY <1>1, <1>2 DEF EndBody, At, FieldsOK, heap, buffer, ghosts
<1>4. /\ f \in Frames /\ f.at = "del_ref" /\ f.n = Top.n /\ f.z = 0 /\ f.todo = {} /\ f.list = {} /\ f.check
  <2>1. "del_ref" \in Labels /\ Top.n \in Nodes \cup {0} /\ 0 \in Zvals \cup {0}
    BY <1>3, Sizes DEF Labels
  <2>2. f = [Frame("del_ref", Top.n, 0) EXCEPT !.check = TRUE]
    BY <1>1 DEF This
  <2> QED BY ONLY <2>1, <2>2 DEF Frame, Frames
<1>5. stack' \in Seq(Frames) /\ Replaced(stack, stack', f)
  BY <1>3, <1>4, StackSteps
<1>6. Moves(stack, stack', Len(stack) - 1, {f}) /\ Shifts
  BY <1>2, <1>5, AllMoves DEF Shifts
<1>7. Quiet
  <2>1. Bare(Top) /\ Bare(f)
    BY <1>3, <1>4, BareFrames DEF BareLabel
  <2>2. SameParts
    BY <1>2, <1>5, <2>1, BareSteps
  <2> QED BY <1>3, <2>2 DEF Quiet, Placid
<1>8. \A u : u \in Named(Top) \cup Handing => u \in Roots'
  <2>1. \A u : u \in Named(Top) => u \in Named(f)
    BY <1>3, <1>4 DEF Named
  <2>2. Handing = {}
    BY <1>3 DEF Handing
  <2> QED BY <1>2, <1>5, <2>1, <2>2, NameChanges, RootCases
<1>9. Cover'
  <2>1. \A o \in Objs : rc[o] = 0 => rc'[o] = 0 \/ o \in Roots'
    BY <1>3
  <2>2. \A u \in Live : u \in Named(Top) \cup Handing => Based(u)'
    BY <1>8, RootCases
  <2> QED BY <1>2, <1>6, <1>7, <2>1, <2>2, QuietCover
<1>10. PurpleRoots' /\ NamesFit' /\ DropsFit'
  <2>1. \A x \in {f} : Fits(x)'
    BY <1>4 DEF Fits, NameFits, DropFits
  <2>2. Len(stack) # Len(stack) - 1 /\ Top.at \notin {"storage", "resume"}
    BY <1>2, <1>3, FrFacts
  <2> QED BY <1>2, <1>5, <1>6, <1>7, <2>1, <2>2, PlacidRest DEF Quiet
<1>11. ReturnsFit'
  <2>1. \A o : Owed(o) => Returns(f, o)
    BY <1>4, Owing DEF Returns
  <2>2. ~ Returning(f)
    BY <1>4 DEF Returning
  <2> QED BY <1>2, <1>5, <2>1, <2>2, ReturnsMove
<1> QED BY <1>9, <1>10, <1>11 DEF Known, FramesFit

-----------------------------------------------------------------------------
\* Statements that leave the stack alone.
Adding ==
    /\ stack' = stack /\ buf' = buf
    /\ \A z \in Zvals : kind[z] # "none" => kind'[z] = kind[z] /\ to'[z] = to[z]
    /\ valid \subseteq valid' /\ \A o \in valid : rc[o] = 0 => rc'[o] = 0
    /\ \A n \in Nodes : elems[n] \subseteq elems'[n]
    /\ Held \subseteq Held' \cup {0}
    /\ \A x \in Live' : x \in purple' => x \in purple /\ x \in Live
    /\ \A x \in Live : /\ x \in purple => x \in purple'
                       /\ x \in lost => x \in lost'

LEMMA AddingKnown ==
    ASSUME IInv, Sound, Known, IInv', InScript, Adding, \A u \in Live' \ Live : Based(u)'
    PROVE  Known'
<1>1. /\ stack \in Seq(Frames) /\ stack # <<>> /\ Inv /\ TypeOK
      /\ TypeOK' /\ Cover /\ PurpleRoots /\ NamesFit /\ DropsFit /\ ReturnsFit
  BY Context DEF IInv, Known, FramesFit
<1>2. stack' = stack /\ Top.at \in {"main", "body"}
  BY DEF Adding, InScript, At
<1>3. Listed' = Listed /\ Dying' = Dying /\ stack' \in Seq(Frames)
  BY <1>1, <1>2 DEF Listed, Dying
<1>4. Live \subseteq Live' /\ Live \subseteq Nodes /\ 0 \notin Live
  <2>1. \A z \in Zvals : kind[z] # "none" => kind'[z] # "none"
    BY DEF Adding
  <2>2. valid \subseteq valid'
    BY DEF Adding
  <2> QED BY <1>1, <2>1, <2>2, LiveNodes DEF Live
<1>5. ASSUME NEW u \in Live, u \in Roots PROVE Based(u)'
  <2>1. u \in Held => u \in Held'
    BY <1>4 DEF Adding
  <2>2. u \in Buffered => u \in Buffered'
    BY DEF Adding, Buffered
  <2>3. u \in lost => u \in lost'
    BY DEF Adding
  <2>4. Names(stack') = Names(stack) /\ Handing = {}
    BY <1>2 DEF Handing
  <2> QED BY <1>5, <2>1, <2>2, <2>3, <2>4, RootCases
<1>6. ASSUME NEW n \in Live, NEW u \in Live, u \in Leads(n) PROVE u \in Leads(n)'
  <2>1. CASE u \in elems[n]
    BY <1>4, <2>1 DEF Leads, Adding
  <2>2. CASE /\ u \in Objs /\ n \in Zvals /\ kind[n] = "object" /\ to[n] = u
             /\ \/ n \notin Listed \cup Dying
                \/ n \in Parts(stack, 4) /\ Garbage(u)
    <3>1. kind'[n] = "object" /\ to'[n] = u
      BY <2>2 DEF Adding
    <3>2. Garbage(u) => Garbage(u)'
      BY DEF Garbage, Adding
    <3> QED BY <1>2, <1>3, <2>2, <3>1, <3>2 DEF Leads
  <2> QED BY <1>6, <2>1, <2>2 DEF Leads
<1>7. Cover'
  <2>1. \A u \in Live' \cap Live : u \in Roots => Based(u)'
    BY <1>5
  <2>2. \A n \in Live : \A u \in Live' \cap Live : u \in Leads(n) => Based(u)' \/ (n \in Live' /\ u \in Leads(n)')
    BY <1>4, <1>6
  <2> QED BY <1>1, <2>1, <2>2, CoverStep
<1>8. PICK n \in Nat : Len(stack) = n + 1 /\ Fr(stack, n + 1) = Top /\ Len(stack) - 1 = n
  BY Context
<1>9. Moves(stack, stack', n + 1, {})
  BY <1>1, <1>2, <1>8, AllMoves
<1>10. PurpleRoots'
  <2>1. \A x \in Live' : x \in purple' => (x \in purple /\ x \in Live) \/ Safe(x)'
    BY DEF Adding
  <2>2. ASSUME NEW x \in Live, x \in purple', x \in Buffered \cup lost \cup Dying PROVE Safe(x)'
    <3>1. x \in Buffered => x \in Buffered'
      BY DEF Adding, Buffered
    <3>2. x \in lost => x \in lost'
      BY DEF Adding
    <3> QED BY <1>3, <2>2, <3>1, <3>2 DEF Safe
  <2>3. ASSUME NEW x \in Live, Awaiting(x) PROVE Awaiting(x)'
    BY <1>2, <2>3 DEF Awaiting
  <2>4. ASSUME NEW x \in Live', x \in purple' PROVE Safe(x)'
    <3>1. x \in purple /\ x \in Live
      BY <2>4 DEF Adding
    <3>2. Safe(x)
      BY <1>1, <3>1 DEF PurpleRoots
    <3> QED BY <2>2, <2>3, <2>4, <3>1, <3>2 DEF Safe
  <2> QED BY <2>4 DEF PurpleRoots
<1>11. NamesFit' /\ DropsFit'
  <2>1. NamesStay
    <3>1. FrTypes /\ NamedZvals
      BY <1>1, Context DEF Inv, FrameInv
    <3>2. ASSUME NEW h \in 1..Len(stack), Fr(stack, h).at = "resume", NEW z, z = Fr(stack, h).z, z # 0
          PROVE  z \in Zvals /\ kind[z] # "none"
      BY <3>1, <3>2 DEF FrTypes, Frames, NamedZvals
    <3>3. \A z \in Zvals : kind[z] # "none" => kind'[z] = kind[z] /\ to'[z] = to[z]
      BY DEF Adding
    <3> QED BY <1>3, <3>2, <3>3 DEF NamesStay
  <2>2. Len(stack) \in Nat /\ n + 1 <= Len(stack) /\ Top.at \notin TopLabels
    BY <1>2, <1>8 DEF TopLabels
  <2>3. \A f \in {} : Fits(f)'
    OBVIOUS
  <2> QED BY <1>1, <1>9, <2>1, <2>2, <2>3, FramesFitMove
<1>12. ReturnsFit'
  BY <1>1, <1>2, <1>3, ReturnsMove DEF Returning
<1> QED BY <1>7, <1>10, <1>11, <1>12 DEF Known, FramesFit

LEMMA BindingKnown ==
    ASSUME IInv, Sound, Known, IInv', InScript, NEW v \in Vars, NEW x \in Zvals, var[v] = 0,
           var' = [var EXCEPT ![v] = x], rc' = [rc EXCEPT ![x] = @ + 1],
           UNCHANGED <<kind, to, elems, valid, called, buffer, stack, ghosts>>
    PROVE  Known'
<1>1. /\ var \in [Vars -> Zvals \cup {0}] /\ rc \in [Nodes -> Nat] /\ valid \subseteq Objs
      /\ Zvals \cap Objs = {} /\ Objs \subseteq Nodes /\ Zvals \subseteq Nodes
  BY Context, Sizes DEF TypeOK
<1>2. /\ stack' = stack /\ buf' = buf /\ purple' = purple /\ lost' = lost
      /\ kind' = kind /\ to' = to /\ elems' = elems /\ valid' = valid
  BY DEF buffer, ghosts
<1>3. Held \subseteq Held' \cup {0}
  BY <1>1 DEF Held
<1>4. \A o \in valid : rc'[o] = rc[o]
  BY <1>1
<1>5. Live' = Live
  BY <1>2 DEF Live
<1>6. Adding
  BY <1>2, <1>3, <1>4, <1>5 DEF Adding
<1> QED BY <1>5, <1>6, AddingKnown

LEMMA AliasKnown ==
    ASSUME IInv, Sound, Known, IInv', NEW v \in Vars, NEW w \in Vars, Alias(v, w)
    PROVE  Known'
<1>1. InScript /\ var[v] = 0 /\ var[w] # 0
  BY DEF Alias, Statement
<1>2. var[w] \in Zvals
  BY <1>1, ScriptReach
<1> QED BY <1>1, <1>2, BindingKnown DEF Alias

LEMMA FetchKnown ==
    ASSUME IInv, Sound, Known, IInv', NEW v \in Vars, NEW c \in Nodes, Fetch(v, c)
    PROVE  Known'
<1>1. /\ InScript /\ var[v] = 0 /\ c \in Containers
      /\ UNCHANGED <<kind, to, elems, valid, called, buffer, stack, ghosts>>
  BY DEF Fetch, Statement
<1>2. PICK e \in elems[c] : var' = [var EXCEPT ![v] = e] /\ rc' = [rc EXCEPT ![e] = @ + 1]
  BY DEF Fetch
<1>3. e \in Zvals
  BY <1>1, <1>2, ScriptReach
<1> QED BY <1>1, <1>2, <1>3, BindingKnown

LEMMA StoreKnown ==
    ASSUME IInv, Sound, Known, IInv', NEW w \in Vars, NEW c \in Nodes, Store(c, w)
    PROVE  Known'
<1>1. /\ InScript /\ var[w] # 0
      /\ elems' = [elems EXCEPT ![c] = @ \cup {var[w]}] /\ rc' = [rc EXCEPT ![var[w]] = @ + 1]
      /\ kind' = kind /\ to' = to /\ valid' = valid /\ var' = var /\ buf' = buf /\ purple' = purple
      /\ stack' = stack /\ lost' = lost
  BY Zenon DEF Store, Statement, buffer
<1>2. /\ var \in [Vars -> Zvals \cup {0}] /\ rc \in [Nodes -> Nat] /\ valid \subseteq Objs
      /\ elems \in [Nodes -> SUBSET Zvals]
      /\ Zvals \cap Objs = {} /\ Objs \subseteq Nodes /\ Zvals \subseteq Nodes
  BY Context, Sizes DEF TypeOK
<1>3. Held' = Held /\ Live' = Live
  BY <1>1 DEF Held, Live
<1>4. \A n \in Nodes : elems[n] \subseteq elems'[n]
  BY <1>1, <1>2
<1>5. var[w] \in Zvals
  BY <1>1, <1>2
<1>6. \A o \in valid : rc'[o] = rc[o]
  BY <1>1, <1>2, <1>5
<1>7. Adding
  BY <1>1, <1>3, <1>4, <1>6 DEF Adding
<1> QED BY <1>1, <1>3, <1>7, AddingKnown

\* What is new is in a variable, or what the new zval denotes.
LEMMA NewNodes ==
    ASSUME IInv, Sound, TypeOK', stack' = stack, NEW z \in Zvals, kind[z] = "none", kind'[z] # "none",
           NEW v \in Vars, var'[v] = z
    PROVE  /\ Based(z)'
           /\ \A o \in Objs : kind'[z] = "object" /\ to'[z] = o => Based(o)'
<1>1. Listed' = Listed /\ Dying' = Dying
  BY DEF Listed, Dying
<1>2. z \notin Listed /\ z \notin Dying
  BY NoneZval
<1>3. z \in Roots'
  BY RootCases DEF Held
<1>4. z \in Live' /\ z \in Nodes
  BY Sizes DEF Live
<1>5. \A o \in Objs : kind'[z] = "object" /\ to'[z] = o => o \in Leads(z)'
  BY <1>1, <1>2 DEF Leads
<1> QED BY <1>3, <1>4, <1>5, RootCases

LEMMA NewArrayKnown ==
    ASSUME IInv, Sound, Known, IInv', NEW v \in Vars, NewArray(v)
    PROVE  Known'
<1>1. PICK z \in Zvals : z = Least(NewZvals) /\ kind[z] = "none"
  <2>1. NewZvals \in SUBSET Nat /\ NewZvals # {}
    BY DEF NewArray, NewZvals, Zvals
  <2> QED BY <2>1, LeastIn DEF NewZvals
<1>2. /\ InScript /\ var[v] = 0
      /\ kind' = [kind EXCEPT ![z] = "array"] /\ rc' = [rc EXCEPT ![z] = 1] /\ var' = [var EXCEPT ![v] = z]
      /\ purple' = purple \ {z} /\ lost' = lost \ {z}
      /\ to' = to /\ elems' = elems /\ valid' = valid /\ buf' = buf /\ stack' = stack
  BY <1>1 DEF NewArray, Statement
<1>3. /\ var \in [Vars -> Zvals \cup {0}] /\ rc \in [Nodes -> Nat] /\ valid \subseteq Objs
      /\ kind \in [Zvals -> {"none", "array", "object", "null"}]
      /\ Zvals \cap Objs = {} /\ Objs \subseteq Nodes /\ Zvals \subseteq Nodes /\ TypeOK'
  BY Context, Sizes DEF IInv, TypeOK
<1>4. Held \subseteq Held' \cup {0} /\ var'[v] = z
  BY <1>2, <1>3 DEF Held
<1>5. \A y \in Zvals : y # z => kind'[y] = kind[y]
  BY <1>2, <1>3
<1>6. kind'[z] = "array"
  BY <1>2, <1>3
<1>7. z \notin Live /\ Live' = Live \cup {z}
  BY <1>1, <1>2, <1>3, <1>5, <1>6 DEF Live
<1>8. \A o \in valid : rc'[o] = rc[o]
  BY <1>2, <1>3
<1>9. Adding
  <2>1. \A y \in Zvals : kind[y] # "none" => kind'[y] = kind[y] /\ to'[y] = to[y]
    BY <1>1, <1>2, <1>5
  <2>2. /\ \A x \in Live' : x \in purple' => x \in purple /\ x \in Live
        /\ \A x \in Live : (x \in purple => x \in purple') /\ (x \in lost => x \in lost')
    BY <1>2, <1>7
  <2> QED BY <1>2, <1>4, <1>8, <2>1, <2>2 DEF Adding
<1>10. \A u \in Live' \ Live : Based(u)'
  BY <1>1, <1>2, <1>3, <1>4, <1>6, <1>7, NewNodes
<1> QED BY <1>2, <1>9, <1>10, AddingKnown

LEMMA BindKnown ==
    ASSUME IInv, Sound, Known, IInv', InScript, NEW v \in Vars, var[v] = 0, NEW z \in Zvals, kind[z] = "none",
           NEW o \in Objs, Bind(v, z, o), o \in valid => rc[o] # 0,
           UNCHANGED <<elems, buf, stack>>, valid' = valid \cup {o},
           purple' \subseteq purple \ {z}, purple \subseteq purple' \cup {z, o}, o \notin valid => o \notin purple',
           o \in valid /\ o \in purple => o \in purple',
           lost \subseteq lost' \cup {z, o}, o \in valid /\ o \in lost => o \in lost'
    PROVE  Known'
<1>1. /\ kind' = [kind EXCEPT ![z] = "object"] /\ to' = [to EXCEPT ![z] = o]
      /\ rc' = [rc EXCEPT ![z] = 1, ![o] = @ + 1] /\ var' = [var EXCEPT ![v] = z]
      /\ elems' = elems /\ buf' = buf /\ stack' = stack
  BY DEF Bind
<1>2. /\ var \in [Vars -> Zvals \cup {0}] /\ rc \in [Nodes -> Nat] /\ valid \subseteq Objs
      /\ kind \in [Zvals -> {"none", "array", "object", "null"}] /\ to \in [Zvals -> Objs \cup {0}]
      /\ Zvals \cap Objs = {} /\ Objs \subseteq Nodes /\ Zvals \subseteq Nodes /\ TypeOK'
  BY Context, Sizes DEF IInv, TypeOK
<1>3. Held \subseteq Held' \cup {0} /\ var'[v] = z
  BY <1>1, <1>2 DEF Held
<1>4. \A y \in Zvals : y # z => kind'[y] = kind[y] /\ to'[y] = to[y]
  BY <1>1, <1>2
<1>5. kind'[z] = "object" /\ to'[z] = o
  BY <1>1, <1>2
<1>6. z \notin Live /\ Live' = Live \cup {z, o} /\ (o \in Live => o \in valid)
  BY <1>2, <1>4, <1>5 DEF Live
<1>7. \A m \in valid : rc[m] = 0 => rc'[m] = 0
  BY <1>1, <1>2
<1>8. Adding
  <2>1. \A y \in Zvals : kind[y] # "none" => kind'[y] = kind[y] /\ to'[y] = to[y]
    BY <1>4
  <2>2. \A x \in Live' : x \in purple' => x \in purple /\ x \in Live
    BY <1>6 DEF Live
  <2>3. \A x \in Live : (x \in purple => x \in purple') /\ (x \in lost => x \in lost')
    BY <1>6
  <2>4. valid \subseteq valid' /\ \A n \in Nodes : elems[n] \subseteq elems'[n]
    BY <1>1
  <2> QED BY <1>1, <1>3, <1>7, <2>1, <2>2, <2>3, <2>4 DEF Adding
<1>9. \A u \in Live' \ Live : Based(u)'
  BY <1>1, <1>2, <1>3, <1>5, <1>6, NewNodes
<1> QED BY <1>8, <1>9, AddingKnown

LEMMA KeepThisKnown ==
    ASSUME IInv, Sound, Known, IInv', NEW v \in Vars, KeepThis(v)
    PROVE  Known'
<1>1. /\ InScript /\ This # 0 /\ var[v] = 0
      /\ purple' = purple \ {Least(NewZvals)} /\ lost' = lost \ {Least(NewZvals)}
      /\ UNCHANGED <<elems, valid, buf, stack>>
      /\ Bind(v, Least(NewZvals), This)
  BY DEF KeepThis, Statement
<1>2. PICK z \in Zvals : z = Least(NewZvals) /\ kind[z] = "none"
  <2>1. NewZvals \in SUBSET Nat /\ NewZvals # {}
    BY DEF KeepThis, NewZvals, Zvals
  <2> QED BY <2>1, LeastIn DEF NewZvals
<1>3. This \in valid /\ rc[This] >= 1
  BY <1>1, ScriptReach
<1>4. This \in Objs /\ rc[This] # 0 /\ This \notin Zvals
  BY <1>3, Context, Sizes DEF TypeOK
<1>5. /\ Bind(v, z, This) /\ purple' = purple \ {z} /\ lost' = lost \ {z} /\ valid' = valid \cup {This}
  BY <1>1, <1>2, <1>3
<1>6. /\ purple' \subseteq purple \ {z} /\ purple \subseteq purple' \cup {z, This}
      /\ This \in purple => This \in purple'
      /\ lost \subseteq lost' \cup {z, This} /\ (This \in lost => This \in lost')
  BY <1>4, <1>5
<1> QED BY <1>1, <1>2, <1>3, <1>4, <1>5, <1>6, BindKnown

LEMMA NewObjectKnown ==
    ASSUME IInv, Sound, Known, IInv', NEW v \in Vars, NewObject(v)
    PROVE  Known'
<1>1. PICK z \in Zvals : z = Least(NewZvals) /\ kind[z] = "none"
  <2>1. NewZvals \in SUBSET Nat /\ NewZvals # {}
    BY DEF NewObject, NewZvals, Zvals
  <2> QED BY <2>1, LeastIn DEF NewZvals
<1>2. PICK o \in Objs : o = Least(NewObjs) /\ o \notin valid
  <2>1. NewObjs \in SUBSET Nat /\ NewObjs # {}
    BY Sizes DEF NewObject, NewObjs, Objs
  <2> QED BY <2>1, LeastIn DEF NewObjs
<1>3. /\ InScript /\ var[v] = 0 /\ Bind(v, z, o)
      /\ purple' = purple \ {z, o} /\ lost' = lost \ {z, o} /\ valid' = valid \cup {o}
      /\ UNCHANGED <<elems, buf, stack>>
  BY <1>1, <1>2 DEF NewObject, Statement
<1>4. /\ purple' \subseteq purple \ {z} /\ purple \subseteq purple' \cup {z, o} /\ o \notin purple'
      /\ lost \subseteq lost' \cup {z, o}
  BY <1>3
<1> QED BY <1>1, <1>2, <1>3, <1>4, BindKnown

LEMMA DropKnown ==
    ASSUME IInv, Sound, Known, IInv', InScript, NEW x \in Zvals, Push(Frame("ptr_dtor", 0, x)),
           UNCHANGED <<kind, to, rc, valid, buf, purple, lost>>,
           Held \ {x} \subseteq Held' \cup {0}, \A n \in Nodes : elems[n] \ {x} \subseteq elems'[n]
    PROVE  Known'
<1>1. PICK f : f = Frame("ptr_dtor", 0, x)
  OBVIOUS
<1>2. f \in Frames /\ f.at = "ptr_dtor" /\ f.n = 0 /\ f.z = x /\ f.todo = {} /\ f.list = {}
  BY <1>1, FrameFields DEF Labels
<1>3. Push(f) /\ Top.at \in {"main", "body"}
  BY <1>1 DEF InScript, At
<1>4. stack \in Seq(Frames) /\ stack # <<>> /\ TypeOK /\ TypeOK' /\ Cover /\ PurpleRoots /\ NamesFit /\ DropsFit /\ ReturnsFit
  BY Context DEF IInv, Known, FramesFit
<1>5. stack' \in Seq(Frames) /\ Pushed(stack, stack', f)
  BY <1>2, <1>3, StackSteps
<1>6. Moves(stack, stack', Len(stack), {f})
  BY <1>4, <1>5, AllMoves
<1>7. Placid
  <2>1. SameParts
    BY <1>2, <1>4, <1>5, BareFrames, BareSteps DEF BareLabel
  <2> QED BY <2>1 DEF Placid
<1>8. x \in Roots'
  <2>1. x \in Named(f)
    BY <1>2 DEF Named
  <2> QED BY <1>4, <1>5, <2>1, NameChanges, RootCases
<1>9. Live' = Live /\ Buffered' = Buffered /\ Live \subseteq Nodes /\ 0 \notin Live
  BY <1>4, LiveNodes DEF Live, Buffered
<1>10. Listed' = Listed /\ Dying' = Dying /\ Parts(stack', 4) = Parts(stack, 4)
  BY <1>5, <1>7, Context, NextViews DEF Placid, SameParts
<1>11. ASSUME NEW u \in Live, u \in Roots PROVE Based(u)'
  <2>1. Handing = {}
    BY <1>3 DEF Handing
  <2>2. u \in Held => u = x \/ u \in Held'
    BY <1>9
  <2>3. u \in Names(stack) => u \in Names(stack')
    BY <1>4, <1>5, NameChanges
  <2> QED BY <1>8, <1>9, <1>11, <2>1, <2>2, <2>3, RootCases
<1>12. ASSUME NEW n \in Live, NEW u \in Live, u \in Leads(n)
       PROVE  Based(u)' \/ u \in Leads(n)'
  <2>1. CASE u \in elems[n]
    <3>1. u = x \/ u \in elems'[n]
      BY <1>9, <2>1
    <3>2. u \in elems'[n] => u \in Leads(n)'
      BY DEF Leads
    <3> QED BY <1>8, <3>1, <3>2, RootCases
  <2>2. CASE /\ u \in Objs /\ n \in Zvals /\ kind[n] = "object" /\ to[n] = u
             /\ \/ n \notin Listed \cup Dying
                \/ n \in Parts(stack, 4) /\ Garbage(u)
    <3>1. Garbage(u)' <=> Garbage(u)
      BY DEF Garbage
    <3> QED BY <1>10, <2>2, <3>1 DEF Leads
  <2> QED BY <1>12, <2>1, <2>2 DEF Leads
<1>13. Cover'
  BY <1>4, <1>9, <1>11, <1>12, CoverStep
<1>14. PurpleRoots' /\ NamesFit' /\ DropsFit'
  <2>1. \A y \in {f} : Fits(y)'
    BY <1>2, Fitting
  <2>2. Len(stack) # Len(stack) - 1 /\ Top.at \notin TopLabels
    BY <1>3, <1>4, FrFacts DEF TopLabels
  <2> QED BY <1>4, <1>5, <1>6, <1>7, <2>1, <2>2, PlacidRest
<1>15. ReturnsFit'
  BY <1>2, <1>3, <1>4, <1>5, ReturnsMove DEF Returning
<1> QED BY <1>13, <1>14, <1>15 DEF Known, FramesFit

LEMMA UnsetKnown ==
    ASSUME IInv, Sound, Known, IInv', NEW v \in Vars, Unset(v)
    PROVE  Known'
<1>1. /\ InScript /\ var[v] # 0 /\ var' = [var EXCEPT ![v] = 0] /\ Push(Frame("ptr_dtor", 0, var[v]))
      /\ UNCHANGED <<kind, to, elems, rc, valid, buf, purple, lost>>
  BY DEF Unset, Statement, heap, buffer, ghosts
<1>2. var[v] \in Zvals /\ var \in [Vars -> Zvals \cup {0}]
  BY <1>1, Context DEF TypeOK
<1>3. Held \ {var[v]} \subseteq Held' \cup {0}
  BY <1>1, <1>2 DEF Held
<1>4. \A n \in Nodes : elems[n] \ {var[v]} \subseteq elems'[n]
  BY <1>1
<1> QED BY <1>1, <1>2, <1>3, <1>4, DropKnown

LEMMA RemoveKnown ==
    ASSUME IInv, Sound, Known, IInv', NEW c \in Nodes, Remove(c)
    PROVE  Known'
<1>1. /\ InScript /\ UNCHANGED <<kind, to, rc, valid, var, buf, purple, lost>>
  BY DEF Remove, Statement, buffer, ghosts
<1>2. PICK e \in elems[c] : elems' = [elems EXCEPT ![c] = @ \ {e}] /\ Push(Frame("ptr_dtor", 0, e))
  BY DEF Remove
<1>3. elems \in [Nodes -> SUBSET Zvals] /\ e \in Zvals
  BY <1>2, Context DEF TypeOK
<1>4. Held \ {e} \subseteq Held' \cup {0}
  BY <1>1 DEF Held
<1>5. \A n \in Nodes : elems[n] \ {e} \subseteq elems'[n]
  BY <1>2, <1>3
<1> QED BY <1>1, <1>2, <1>3, <1>4, <1>5, DropKnown
=============================================================================
