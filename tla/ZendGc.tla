------------------------------- MODULE ZendGc -------------------------------
(***************************************************************************)
(* The cycle collector at work in a running request: the root buffer of     *)
(* Zend/zend_gc.c, and the destructor, destroy and free loops of            *)
(* gc_collect_cycles, between the reference counting of zval_ptr_dtor       *)
(* (zend_execute_API.c) and of the objects store (zend_objects_API.c).      *)
(*                                                                         *)
(* The marking passes are one step here: what they do to a heap is the      *)
(* subject of GcTraversal.  What this module adds is when they run.  A full *)
(* buffer starts a collection in the middle of a decrement; a collection    *)
(* runs destructors, which are script code: they change the heap between    *)
(* the moment garbage is condemned and the moment it is freed, fill the     *)
(* buffer, and start collections inside the collection.                     *)
(*                                                                         *)
(* Every variable, element and property is a PHP reference, so that arrays  *)
(* can be cyclic and nothing is separated on write.                         *)
(***************************************************************************)
EXTENDS Integers, Sequences, FiniteSets

CONSTANTS
    Vars,       \* the script's global variables
    MaxZvals,   \* bound: zvals alive at a time
    MaxObjs,    \* bound: store objects alive at a time
    BufSize,    \* GC_ROOT_BUFFER_MAX_ENTRIES
    MaxSteps    \* bound: statements, those of destructors included

ASSUME SizesAssumption == /\ IsFiniteSet(Vars)
                          /\ {MaxZvals, MaxObjs, MaxSteps} \subseteq Nat
                          /\ BufSize \in Nat \ {0}

Zvals == 1..MaxZvals
Objs == (MaxZvals + 1)..(MaxZvals + MaxObjs)
Nodes == Zvals \cup Objs
Entries == 1..BufSize

VARIABLES
    kind,       \* of a zval: not allocated, array, object, or a destroyed null
    to,         \* the store object of an object zval
    elems,      \* the elements of an array, the properties of an object
    rc,         \* refcount__gc of a zval, refcount of a store object
    valid,      \* the store objects whose bucket is in use
    called,     \* those with destructor_called
    var,        \* the zval a variable holds, or 0
    buf,        \* what an entry of the root buffer denotes; 0 when it is unused
    addr,       \* the entry whose address is in a node's `buffered', or 0
    purple,     \* the nodes whose colour is GC_PURPLE; the others are black
    stack,      \* the C stack, innermost frame first
    steps,
    lost,       \* history: nodes whose possible_root found no entry in the end,
                \* and objects that a pass took for referenced
    beyond      \* history: why nothing is said about the program from here on

heap == <<kind, to, elems, rc, valid, called>>
buffer == <<buf, addr, purple>>
ghosts == <<lost, beyond>>
vars == <<kind, to, elems, rc, valid, called, var, buf, addr, purple, stack, steps, lost, beyond>>

\* A frame: where it continues, the node and the zval it works on, the elements
\* it still has to release, the list of zvals it will free, and a flag: the
\* objects store is to look for a possible root once the reference is gone; the
\* collection has run a destructor.
Frame(label, n, z) ==
    [at |-> label, n |-> n, z |-> z, todo |-> {}, list |-> {}, check |-> FALSE]

Init ==
    /\ kind = [z \in Zvals |-> "none"]
    /\ to = [z \in Zvals |-> 0]
    /\ elems = [n \in Nodes |-> {}]
    /\ rc = [n \in Nodes |-> 0]
    /\ valid = {}
    /\ called = {}
    /\ var = [v \in Vars |-> 0]
    /\ buf = [e \in Entries |-> 0]
    /\ addr = [n \in Nodes |-> 0]
    /\ purple = {}
    /\ stack = <<Frame("main", 0, 0)>>
    /\ steps = 0
    /\ lost = {}
    /\ beyond = "no"
-----------------------------------------------------------------------------
Top == stack[1]
At(label) == beyond = "no" /\ Top.at = label
Return == stack' = Tail(stack)
Replace(f) == stack' = <<f>> \o Tail(stack)
Push(f) == stack' = <<f>> \o stack

Least(S) == CHOOSE x \in S : \A y \in S : x <= y
NewZvals == {z \in Zvals : kind[z] = "none"}
NewObjs == Objs \ valid
Unused == {e \in Entries : buf[e] = 0}

\* The zvals on a free list: their `buffered' is the link to the next one, which
\* reads as black and as an address outside the root buffer.
Listed == UNION {stack[k].list : k \in DOMAIN stack}

\* The zvals that have lost their last reference and are being freed.
Dying == {stack[k].z : k \in {j \in DOMAIN stack : stack[j].at = "free"}}

Kids(n) == IF n \in Zvals /\ kind[n] = "object" THEN {to[n]} ELSE elems[n]

Closed(T) == \A n \in T : Kids(n) \subseteq T

\* The nodes that references lead to from S, S included: those in every closed
\* set around S.
Reach(S) ==
    LET closed == {T \in {S \cup U : U \in SUBSET (Nodes \ S)} : Closed(T)} IN
    {n \in Nodes : \A T \in closed : n \in T}

\* How many references to n the nodes of S hold.
RefsFrom(S, n) == Cardinality({m \in S : n \in Kids(m)})

\* The zvals that denote an object.
ZvalsOf(o) == {z \in Zvals : kind[z] = "object" /\ to[z] = o}

\* GC_REMOVE_ZVAL_FROM_BUFFER and GC_REMOVE_ZOBJ_FROM_BUFFER.
Unbuffer(n) ==
    /\ buf' = IF addr[n] = 0 THEN buf ELSE [buf EXCEPT ![addr[n]] = 0]
    /\ addr' = [addr EXCEPT ![n] = 0]
-----------------------------------------------------------------------------
\* The statements of a script: of the main program, or of a destructor's body,
\* whose frame has $this in `n'.

This == Top.n
InScript == At("main") \/ At("body")
Statement == InScript /\ steps < MaxSteps /\ steps' = steps + 1

\* What can be indexed: arrays and objects in variables, and $this.
Containers == {n \in Nodes : \/ n = This
                             \/ \E v \in Vars : /\ var[v] # 0
                                                /\ \/ kind[var[v]] = "array" /\ n = var[v]
                                                   \/ kind[var[v]] = "object" /\ n = to[var[v]]}

NewArray(v) ==
    /\ Statement
    /\ var[v] = 0 /\ NewZvals # {}
    /\ LET z == Least(NewZvals) IN
       /\ kind' = [kind EXCEPT ![z] = "array"]
       /\ rc' = [rc EXCEPT ![z] = 1]
       /\ purple' = purple \ {z}
       /\ lost' = lost \ {z}
       /\ var' = [var EXCEPT ![v] = z]
    /\ UNCHANGED <<to, elems, valid, called, buf, addr, stack, beyond>>

\* A new object zval of object o, in variable v.
Bind(v, z, o) ==
    /\ kind' = [kind EXCEPT ![z] = "object"]
    /\ to' = [to EXCEPT ![z] = o]
    /\ rc' = [rc EXCEPT ![z] = 1, ![o] = @ + 1]
    /\ var' = [var EXCEPT ![v] = z]

\* zend_objects_store_put; GC_OBJ_INIT forgets what the bucket's previous
\* owner may have had in the buffer.
NewObject(v) ==
    /\ Statement
    /\ var[v] = 0 /\ NewZvals # {} /\ NewObjs # {}
    /\ LET z == Least(NewZvals)
           o == Least(NewObjs) IN
       /\ Bind(v, z, o)
       /\ purple' = purple \ {z, o}
       /\ lost' = lost \ {z, o}
       /\ addr' = [addr EXCEPT ![o] = 0]
       /\ valid' = valid \cup {o}
       /\ called' = called \ {o}
    /\ UNCHANGED <<elems, buf, stack, beyond>>

\* $v = $this: the object gets a zval that outlives the destructor.
KeepThis(v) ==
    /\ Statement
    /\ This # 0 /\ var[v] = 0 /\ NewZvals # {}
    /\ Bind(v, Least(NewZvals), This)
    /\ purple' = purple \ {Least(NewZvals)}
    /\ lost' = lost \ {Least(NewZvals)}
    /\ UNCHANGED <<elems, valid, called, buf, addr, stack, beyond>>

\* $v = &$w, $c[] = &$w and $v = &$c[..].
Alias(v, w) ==
    /\ Statement
    /\ var[v] = 0 /\ var[w] # 0
    /\ var' = [var EXCEPT ![v] = var[w]]
    /\ rc' = [rc EXCEPT ![var[w]] = @ + 1]
    /\ UNCHANGED <<kind, to, elems, valid, called, buffer, stack, ghosts>>

\* An object whose storage is freed, or being freed: an object zval that a
\* collection has listed may still lead a script there.
Gone(o) == o \in Objs /\ (o \notin valid \/ \E k \in DOMAIN stack :
                                              stack[k].at = "storage" /\ stack[k].n = o)

Store(c, w) ==
    /\ Statement
    /\ c \in Containers /\ var[w] # 0 /\ var[w] \notin elems[c]
    /\ elems' = [elems EXCEPT ![c] = @ \cup {var[w]}]
    /\ rc' = [rc EXCEPT ![var[w]] = @ + 1]
    /\ beyond' = IF Gone(c) THEN "used a freed object" ELSE beyond
    /\ UNCHANGED <<kind, to, valid, called, var, buffer, stack, lost>>

Fetch(v, c) ==
    /\ Statement
    /\ var[v] = 0 /\ c \in Containers
    /\ \E e \in elems[c] : /\ var' = [var EXCEPT ![v] = e]
                           /\ rc' = [rc EXCEPT ![e] = @ + 1]
    /\ UNCHANGED <<kind, to, elems, valid, called, buffer, stack, ghosts>>

\* unset($v) and unset($c[..]): the reference is gone before zval_ptr_dtor runs.
Unset(v) ==
    /\ Statement
    /\ var[v] # 0
    /\ var' = [var EXCEPT ![v] = 0]
    /\ Push(Frame("ptr_dtor", 0, var[v]))
    /\ UNCHANGED <<heap, buffer, ghosts>>

Remove(c) ==
    /\ Statement
    /\ c \in Containers
    /\ \E e \in elems[c] : /\ elems' = [elems EXCEPT ![c] = @ \ {e}]
                           /\ Push(Frame("ptr_dtor", 0, e))
    /\ UNCHANGED <<kind, to, rc, valid, called, var, buffer, ghosts>>

\* gc_collect_cycles() called by the script; it returns where nothing is buffered.
CollectNow ==
    /\ Statement
    /\ Unused # Entries
    /\ Push(Frame("collect", 0, 0))
    /\ UNCHANGED <<heap, var, buffer, ghosts>>

\* The end of a destructor: the zval made for $this is destroyed.
EndBody ==
    /\ At("body")
    /\ Replace([Frame("del_ref", This, 0) EXCEPT !.check = TRUE])
    /\ UNCHANGED <<heap, var, buffer, steps, ghosts>>
-----------------------------------------------------------------------------
\* zval_ptr_dtor.  A zval with other references may be the root of a cycle.
DropReference ==
    /\ At("ptr_dtor") /\ rc[Top.z] > 1
    /\ rc' = [rc EXCEPT ![Top.z] = @ - 1]
    /\ CASE kind[Top.z] = "array"  -> Replace(Frame("root", Top.z, Top.z))
         [] kind[Top.z] = "object" -> Replace(Frame("root", to[Top.z], Top.z))
         [] OTHER                  -> Return
    /\ UNCHANGED <<kind, to, elems, valid, called, var, buffer, steps, ghosts>>

\* The last reference: out of the buffer, zval_dtor, efree.
DropLast ==
    /\ At("ptr_dtor") /\ rc[Top.z] = 1 /\ Top.z \notin Listed
    /\ rc' = [rc EXCEPT ![Top.z] = 0]
    /\ Unbuffer(Top.z)
    /\ LET z == Top.z
           free == [Frame("free", 0, z) EXCEPT !.todo = elems[z]] IN
       IF kind[z] = "object"
       THEN stack' = <<[Frame("del_ref", to[z], z) EXCEPT !.check = TRUE], free>> \o Tail(stack)
       ELSE Replace(free)
    /\ elems' = [elems EXCEPT ![Top.z] = {}]
    /\ UNCHANGED <<kind, to, valid, called, var, purple, steps, ghosts>>

\* The loop of zend_hash_destroy, for an array, a zval of the free list and the
\* properties of an object alike.
ReleaseElement ==
    /\ At("free") \/ At("release") \/ At("storage")
    /\ \E e \in Top.todo :
        stack' = <<Frame("ptr_dtor", 0, e), [Top EXCEPT !.todo = @ \ {e}]>> \o Tail(stack)
    /\ UNCHANGED <<heap, var, buffer, steps, ghosts>>

FreeZval ==
    /\ At("free") /\ Top.todo = {}
    /\ kind' = [kind EXCEPT ![Top.z] = "none"]
    /\ to' = [to EXCEPT ![Top.z] = 0]
    /\ Return
    /\ UNCHANGED <<elems, rc, valid, called, var, buffer, steps, ghosts>>

Released ==
    /\ At("release") /\ Top.todo = {}
    /\ Return
    /\ UNCHANGED <<heap, var, buffer, steps, ghosts>>
-----------------------------------------------------------------------------
\* zend_objects_store_del_ref and zend_objects_store_del_ref_by_handle_ex.

\* Mutant: the zval for $this does not add its reference to the object.
MutRunDestructorNoThis(o, held) ==
    /\ called' = called \cup {o}
    /\ rc' = [rc EXCEPT ![o] = held]

\* The object's destructor is called with a zval of its own for $this.
RunDestructor(o, held) ==
    /\ called' = called \cup {o}
    /\ rc' = [rc EXCEPT ![o] = held + 1]

LastReference(o) == o \in valid /\ rc[o] = 1

DelRefDestruct ==
    /\ At("del_ref") /\ LastReference(This) /\ This \notin called
    /\ RunDestructor(This, 1)
    /\ stack' = <<Frame("body", This, 0), [Top EXCEPT !.at = "destructed"]>> \o Tail(stack)
    /\ UNCHANGED <<kind, to, elems, valid, var, buffer, steps, ghosts>>

DelRefFree ==
    /\ At("destructed") \/ (At("del_ref") /\ This \in called)
    /\ LastReference(This)
    /\ Unbuffer(This)
    /\ elems' = [elems EXCEPT ![This] = {}]
    /\ Replace([Top EXCEPT !.at = "storage", !.todo = elems[This]])
    /\ UNCHANGED <<kind, to, rc, valid, called, var, purple, steps, ghosts>>

DelRefKeep ==
    /\ At("destructed") \/ At("del_ref")
    /\ ~ LastReference(This)
    /\ rc' = [rc EXCEPT ![This] = @ - 1]
    /\ IF Top.check /\ This \in valid THEN Replace(Frame("root", This, Top.z)) ELSE Return
    /\ UNCHANGED <<kind, to, elems, valid, called, var, buffer, steps, ghosts>>

StorageFreed ==
    /\ At("storage") /\ Top.todo = {}
    /\ valid' = valid \ {This}
    /\ rc' = [rc EXCEPT ![This] = @ - 1]
    /\ Return
    /\ UNCHANGED <<kind, to, elems, called, var, buffer, steps, ghosts>>
-----------------------------------------------------------------------------
\* gc_zval_possible_root and gc_zobj_possible_root, for the node `n' that the
\* zval `z' is or denotes.

\* Mutant: a zval of the free list is not recognised.
MutNoRootListed == \/ This \in Objs \ valid
                   \/ This \in purple

NoRoot == \/ Top.z \in Listed
          \/ This \in Objs \ valid
          \/ This \in purple

NotARoot ==
    /\ At("root") /\ NoRoot
    /\ Return
    /\ UNCHANGED <<heap, var, buffer, steps, ghosts>>

Enter(n, e) ==
    /\ buf' = [buf EXCEPT ![e] = n]
    /\ addr' = [addr EXCEPT ![n] = e]

\* The node turns purple; it keeps the entry it has, or takes an unused one.
RecordRoot ==
    /\ At("root") /\ ~ NoRoot
    /\ purple' = purple \cup {This}
    /\ IF addr[This] # 0 THEN UNCHANGED <<buf, addr>>
       ELSE Unused # {} /\ Enter(This, Least(Unused))
    /\ Return
    /\ UNCHANGED <<heap, var, steps, ghosts>>

\* Mutant: refcount__gc++ is missing.
MutBufferFullNotHeld ==
    /\ At("root") /\ ~ NoRoot
    /\ addr[This] = 0 /\ Unused = {}
    /\ purple' = purple \cup {This}
    /\ stack' = <<Frame("collect", 0, 0), [Top EXCEPT !.at = "resume"]>> \o Tail(stack)
    /\ UNCHANGED <<kind, to, elems, rc, valid, called, var, buf, addr, steps, ghosts>>

\* The buffer is full: the zval holds a reference to itself during a collection.
BufferFull ==
    /\ At("root") /\ ~ NoRoot
    /\ addr[This] = 0 /\ Unused = {}
    /\ purple' = purple \cup {This}
    /\ rc' = IF Top.z = 0 THEN rc ELSE [rc EXCEPT ![Top.z] = @ + 1]
    /\ stack' = <<Frame("collect", 0, 0), [Top EXCEPT !.at = "resume"]>> \o Tail(stack)
    /\ UNCHANGED <<kind, to, elems, valid, called, var, buf, addr, steps, ghosts>>

\* Mutant: the entry is not looked for again after the collection.
MutResumeRootGivesUp ==
    /\ At("resume")
    /\ rc' = IF Top.z = 0 THEN rc ELSE [rc EXCEPT ![Top.z] = @ - 1]
    /\ lost' = lost \cup {z \in {Top.z} \ {0, This} : rc[z] = 1}
    /\ Return
    /\ UNCHANGED <<kind, to, elems, valid, called, var, buffer, steps, beyond>>

\* After that collection.  The entry is filled without another look at what the
\* destructors did: an array they have buffered gets a second entry.
ResumeRoot ==
    /\ At("resume")
    /\ rc' = IF Top.z = 0 THEN rc ELSE [rc EXCEPT ![Top.z] = @ - 1]
    /\ IF Unused = {} THEN UNCHANGED <<buffer, beyond>>
       ELSE /\ purple' = purple \cup {This}
            /\ Enter(This, Least(Unused))
            /\ beyond' = IF This \in Zvals /\ addr[This] # 0 THEN "buffered twice" ELSE beyond
    /\ lost' = lost \cup (IF Unused = {} THEN {This, Top.z} \ {0} ELSE {})
                    \cup {z \in {Top.z} \ {0, This} : rc[z] = 1}
    /\ Return
    /\ UNCHANGED <<kind, to, elems, valid, called, var, steps>>
-----------------------------------------------------------------------------
\* gc_collect_cycles.

\* The part of the heap that the purple entries of the buffer lead to; what of it
\* has references from elsewhere; what is left.  The counts of condemned objects
\* are off by the references of condemned zvals, and zvals of a free list
\* have one that nobody holds: both count as references from elsewhere.
Suspected == Reach({n \in purple : \E e \in Entries : buf[e] = n})
Anchored == {n \in Suspected : rc[n] # RefsFrom(Suspected, n)}
\* Mutant: what only a referenced node leads to is condemned as well.
MutWhiteShallow == Suspected \ Anchored
White == Suspected \ Reach(Anchored)

\* The objects that an enclosing collection has condemned.
Doomed == {o \in Objs : ZvalsOf(o) \cap Listed # {}}

\* The objects that are taken for referenced because of condemned zvals: a pass
\* subtracts references that have been subtracted before.
Miscounted == {o \in Objs : rc[o] \in 1..(RefsFrom(Suspected, o) - 1)}

\* The passes: zvals are listed with one more reference, the references of listed
\* object zvals are gone for good, the buffer is empty.
Passes ==
    /\ At("collect")
    /\ LET list == White \cap Zvals IN
       /\ rc' = [n \in Nodes |-> CASE n \in list -> rc[n] + 1
                                   [] n \in Objs -> rc[n] - RefsFrom(list, n)
                                   [] OTHER      -> rc[n]]
       /\ IF list = {} THEN Return
          ELSE Replace([Frame("destructors", 0, 0) EXCEPT !.list = list])
    /\ buf' = [e \in Entries |-> 0]
    /\ addr' = [n \in Nodes |-> IF \E e \in Entries : buf[e] = n THEN 0 ELSE addr[n]]
    /\ purple' = purple \ Suspected
    /\ beyond' = CASE \E k \in DOMAIN stack : stack[k].at = "storage" /\ stack[k].n \in Suspected
                        -> "walked a table under destruction"
                   [] \E o \in Doomed \cap White : elems[o] \cap White # {}
                        -> "condemned twice"
                   [] OTHER -> beyond
    /\ lost' = lost \cup Miscounted
    /\ UNCHANGED <<kind, to, elems, valid, called, var, steps>>

Garbage(o) == o \in valid /\ rc[o] = 0

CallDestructor ==
    /\ At("destructors") /\ This = 0
    /\ \E z \in Top.list :
        /\ kind[z] = "object" /\ Garbage(to[z]) /\ to[z] \notin called
        /\ RunDestructor(to[z], 1)
        /\ stack' = <<Frame("body", to[z], 0), [Top EXCEPT !.n = to[z], !.check = TRUE]>> \o Tail(stack)
    /\ UNCHANGED <<kind, to, elems, valid, var, buffer, steps, ghosts>>

\* Mutant: the reference held during the destructor is not given back.
MutDestructorReturnedKeepsRef ==
    /\ At("destructors") /\ This # 0
    /\ Replace([Top EXCEPT !.n = 0])
    /\ UNCHANGED <<heap, var, buffer, steps, ghosts>>

DestructorReturned ==
    /\ At("destructors") /\ This # 0
    /\ rc' = [rc EXCEPT ![This] = @ - 1]
    /\ Replace([Top EXCEPT !.n = 0])
    /\ UNCHANGED <<kind, to, elems, valid, called, var, buffer, steps, ghosts>>

\* Has a destructor made something refer to a zval of the list, or does an object
\* that another collection lists too hold one?  Nothing in the code asks: the
\* zval is freed all the same.
Revived(list) ==
    LET condemned == list \cup {o \in Objs : /\ Garbage(o)
                                            /\ RefsFrom(list, o) > 0
                                            /\ ZvalsOf(o) \subseteq list \cup Dying} IN
    \E z \in list : rc[z] > 1 + RefsFrom(condemned, z)

DestructorsDone ==
    /\ At("destructors") /\ This = 0
    /\ \A z \in Top.list : ~ (kind[z] = "object" /\ Garbage(to[z]) /\ to[z] \notin called)
    /\ beyond' = IF Top.check /\ Revived(Top.list) THEN "revived" ELSE beyond
    /\ Replace([Top EXCEPT !.at = "destroy", !.todo = Top.list])
    /\ UNCHANGED <<heap, var, buffer, steps, lost>>

\* One zval of the list is destroyed: an array loses its elements, an object
\* zval takes its object with it, unless a destructor gave the object away.
Destroy ==
    /\ At("destroy")
    /\ \E z \in Top.todo :
        LET rest == [Top EXCEPT !.todo = @ \ {z}] IN
        CASE kind[z] = "array" ->
                /\ kind' = [kind EXCEPT ![z] = "null"]
                /\ elems' = [elems EXCEPT ![z] = {}]
                /\ stack' = <<[Frame("release", 0, 0) EXCEPT !.todo = elems[z]], rest>> \o Tail(stack)
                /\ UNCHANGED rc
          [] kind[z] = "object" /\ Garbage(to[z]) ->
                /\ kind' = [kind EXCEPT ![z] = "null"]
                /\ rc' = [rc EXCEPT ![to[z]] = 1]
                /\ stack' = <<Frame("del_ref", to[z], 0), rest>> \o Tail(stack)
                /\ UNCHANGED elems
          [] OTHER ->
                /\ Replace(rest)
                /\ UNCHANGED <<kind, elems, rc>>
    /\ UNCHANGED <<to, valid, called, var, buffer, steps, ghosts>>

\* The free loop, and the return to an enclosing collection's free list.
FreeList ==
    /\ At("destroy") /\ Top.todo = {}
    /\ kind' = [z \in Zvals |-> IF z \in Top.list THEN "none" ELSE kind[z]]
    /\ to' = [z \in Zvals |-> IF z \in Top.list THEN 0 ELSE to[z]]
    /\ rc' = [n \in Nodes |-> IF n \in Top.list THEN 0 ELSE rc[n]]
    /\ Return
    /\ UNCHANGED <<elems, valid, called, var, buffer, steps, ghosts>>
-----------------------------------------------------------------------------
Stopped == /\ beyond # "no" \/ (At("main") /\ steps = MaxSteps)
           /\ UNCHANGED vars

Script == \/ \E v \in Vars : NewArray(v) \/ NewObject(v) \/ KeepThis(v) \/ Unset(v)
          \/ \E v, w \in Vars : Alias(v, w)
          \/ \E c \in Nodes : Remove(c)
          \/ \E c \in Nodes, v \in Vars : Store(c, v) \/ Fetch(v, c)
          \/ CollectNow \/ EndBody

Release == DropReference \/ DropLast \/ ReleaseElement \/ FreeZval \/ Released

DelRef == DelRefDestruct \/ DelRefFree \/ DelRefKeep \/ StorageFreed

PossibleRoot == NotARoot \/ RecordRoot \/ BufferFull \/ ResumeRoot

Collect == \/ Passes \/ CallDestructor \/ DestructorReturned \/ DestructorsDone
           \/ Destroy \/ FreeList

Next == Script \/ Release \/ DelRef \/ PossibleRoot \/ Collect \/ Stopped

Spec == Init /\ [][Next]_vars
-----------------------------------------------------------------------------
Labels == {"main", "body", "ptr_dtor", "free", "release", "del_ref", "destructed", "storage",
           "root", "resume", "collect", "destructors", "destroy"}
Frames == [at : Labels, n : Nodes \cup {0}, z : Zvals \cup {0}, todo : SUBSET Zvals,
           list : SUBSET Zvals, check : BOOLEAN]

TypeOK ==
    /\ kind \in [Zvals -> {"none", "array", "object", "null"}]
    /\ to \in [Zvals -> Objs \cup {0}]
    /\ elems \in [Nodes -> SUBSET Zvals]
    /\ rc \in [Nodes -> Nat]
    /\ valid \in SUBSET Objs /\ called \in SUBSET Objs
    /\ var \in [Vars -> Zvals \cup {0}]
    /\ buf \in [Entries -> Nodes \cup {0}]
    /\ addr \in [Nodes -> Entries \cup {0}]
    /\ purple \in SUBSET Nodes /\ lost \in SUBSET Nodes
    /\ stack \in Seq(Frames) \ {<<>>}
    /\ steps \in 0..MaxSteps

Sound == beyond = "no"

\* References to a zval from the frames of running C functions.
FrameRefs(z) ==
    Cardinality({k \in DOMAIN stack : \/ z \in stack[k].todo /\ stack[k].at # "destroy"
                                      \/ z = stack[k].z /\ stack[k].at \in {"ptr_dtor", "resume"}})

\* ... and to an object: $this, and the reference a running del_ref gives back.
FrameHolds(o) ==
    Cardinality({k \in DOMAIN stack : /\ stack[k].n = o
                                      /\ stack[k].at \in {"body", "del_ref", "destructed", "storage", "destructors"}})

\* Every refcount is the number of references there are - of variables, elements,
\* properties and running functions - also between the phases of nested
\* collections: a listed zval has one more, and the references of listed
\* object zvals are not counted.
CountsExact ==
    Sound =>
        /\ \A z \in Zvals : kind[z] # "none" =>
            rc[z] = Cardinality({v \in Vars : var[v] = z})
                    + Cardinality({n \in Nodes : z \in elems[n]})
                    + FrameRefs(z) + (IF z \in Listed THEN 1 ELSE 0)
        /\ \A o \in valid :
            rc[o] = Cardinality(ZvalsOf(o) \ (Listed \cup Dying)) + FrameHolds(o)

\* Nothing refers to a zval that is freed, and no object zval that the script can
\* get hold of to an object that is: not in a destructor that runs
\* between condemning and freeing, nor in a collection inside a collection.
NoDangling ==
    Sound =>
        /\ \A v \in Vars : var[v] # 0 => kind[var[v]] \in {"array", "object"}
        /\ \A n \in Nodes : \A e \in elems[n] : kind[e] # "none"
        /\ \A k \in DOMAIN stack : \A e \in stack[k].todo \cup stack[k].list : kind[e] # "none"
        /\ \A z \in Zvals \ (Listed \cup Dying) : kind[z] = "object" => to[z] \in valid

\* An entry of the root buffer that denotes a zval denotes one that is allocated
\* and knows of the entry; and an address is that of the node's own entry.  (An
\* entry may denote a bucket that is no object any more: see ResumeRoot.)
RootsSound ==
    Sound =>
        /\ \A e \in Entries : buf[e] \in Zvals => kind[buf[e]] # "none" /\ addr[buf[e]] = e
        /\ \A n \in Nodes : addr[n] # 0 => buf[addr[n]] = n

\* Garbage is not forgotten: while the main program runs, everything it cannot
\* reach any more hangs on a node that the next collection starts from, or on
\* one of `lost': where a full buffer was still full after its collection, or an
\* object zval lost its other references to that collection, or a pass subtracted
\* references twice, the code gives up.
GarbageKnown ==
    Sound /\ At("main") =>
        LET live == Reach({var[v] : v \in Vars} \ {0})
            known == Reach({n \in purple : \E e \in Entries : buf[e] = n} \cup lost) IN
        {z \in Zvals : kind[z] # "none"} \cup valid \subseteq live \cup known

\* An object's storage is given up only after its destructor was called and has
\* returned, whoever gets there first: zval_ptr_dtor, a collection, or a
\* collection started by that destructor.
DestructedFirst ==
    [][\A o \in valid \ valid' :
        o \in called /\ ~ \E k \in DOMAIN stack : stack[k].at = "body" /\ stack[k].n = o]_vars
=============================================================================
