---------------------------- MODULE ObjectsStore ----------------------------
(***************************************************************************)
(* The objects store of one request: Zend/zend_objects_API.c, the standard  *)
(* destructor and storage handlers of Zend/zend_objects.c, and the order in *)
(* which shutdown_destructors and shutdown_executor take the store down.    *)
(*                                                                         *)
(* Deleting a reference may run a destructor, which is script code: it may  *)
(* create objects, keep $this alive, delete other references, or leave by   *)
(* a bailout.  The C stack is therefore explicit.  A reference is an object *)
(* zval; a zval shared by several variables counts as one of them.          *)
(***************************************************************************)
EXTENDS Integers, Sequences, FiniteSets

CONSTANTS
    InitSize,   \* the size the store starts with (1024 in init_executor)
    MaxObjs,    \* bound: objects a request creates
    MaxSteps,   \* bound: statements that change references, destructors included
    MaxVars     \* bound: variables that hold zvals of one object

ASSUME ConstantsAssumption == /\ InitSize \in Nat \ {0, 1}
                              /\ MaxObjs \in Nat /\ MaxSteps \in Nat
                              /\ MaxVars \in Nat \ {0}

Objs == 1..MaxObjs      \* the zend_objects, numbered as they are created
Handles == 1..MaxObjs

VARIABLES
    store,      \* EG(objects_store).object_buckets, without bucket 0
    top, size,
    freeList,   \* the handles linked from free_list_head on
    gen,        \* which block of memory object_buckets is: erealloc moves it
    buffered,   \* the handles whose bucket has an entry in the GC root buffer
    handle,     \* the handle in the zvals of an object
    vars,       \* how many variables hold a zval of the object
    props,      \* the objects that an object's properties hold zvals of
    stack,      \* the C stack, innermost frame first
    steps,
    lost,       \* history: references of frames that a bailout jumped over
    destructed, \* history: how often an object's destructor was started
    freed,      \* history: how often its storage was freed
    early,      \* history: the objects created before the request's shutdown
    bailed,     \* history: did anything bail out during the shutdown, or fatally
    stale       \* history: was a bucket written through a pointer into old memory

script == <<handle, vars, props, early>>
ghosts == <<lost, destructed, freed, bailed, stale>>
allVars == <<store, top, size, freeList, gen, buffered, handle, vars, props, stack, steps,
             lost, destructed, freed, early, bailed, stale>>

Bucket == [valid : BOOLEAN, called : BOOLEAN, refcount : Int, obj : Objs \cup {0}]
NoBucket == [valid |-> FALSE, called |-> FALSE, refcount |-> 0, obj |-> 0]

\* A frame: where it continues, the object it is about, the local copies it
\* works with.  `i' is the cursor of a shutdown loop, `fail' is `failure'.
Frame(label, o, i) == [at |-> label, o |-> o, i |-> i, gen |-> 0, fail |-> FALSE, todo |-> {}]

Init ==
    /\ store = [h \in Handles |-> NoBucket]
    /\ top = 1
    /\ size = InitSize
    /\ freeList = <<>>
    /\ gen = 0
    /\ buffered = {}
    /\ handle = [o \in Objs |-> 0]
    /\ vars = [o \in Objs |-> 0]
    /\ props = [o \in Objs |-> {}]
    /\ stack = <<Frame("main", 0, 0)>>
    /\ steps = 0
    /\ lost = [o \in Objs |-> 0]
    /\ destructed = [o \in Objs |-> 0]
    /\ freed = [o \in Objs |-> 0]
    /\ early = {}
    /\ bailed = FALSE
    /\ stale = FALSE
-----------------------------------------------------------------------------
At(label) == stack # <<>> /\ ~ stale /\ stack[1].at = label
Replace(f) == stack' = <<f>> \o Tail(stack)
Push(f) == stack' = <<f>> \o stack
Pop == stack' = Tail(stack)

This == stack[1].o
Created == {o \in Objs : handle[o] # 0}
InScript == At("main") \/ At("dtor")

\* What the running script code can name: its variables, and $this.
Access(o) == vars[o] > 0 \/ (At("dtor") /\ This = o)

Statement == InScript /\ steps < MaxSteps /\ steps' = steps + 1

\* Mutant: the handle stays at the head of the free list.
MutNewKeepsHead ==
    LET o == Cardinality(Created) + 1
        h == IF freeList # <<>> THEN Head(freeList) ELSE top
        grow == freeList = <<>> /\ top = size IN
    /\ Statement
    /\ o \in Objs
    /\ freeList' = freeList
    /\ size' = IF grow THEN 2 * size ELSE size
    /\ gen' = IF grow THEN gen + 1 ELSE gen
    /\ top' = IF freeList = <<>> THEN top + 1 ELSE top
    /\ store' = [store EXCEPT ![h] =
                    [valid |-> TRUE, called |-> FALSE, refcount |-> 1, obj |-> o]]
    /\ buffered' = buffered \ {h}
    /\ handle' = [handle EXCEPT ![o] = h]
    /\ vars' = [vars EXCEPT ![o] = 1]
    /\ early' = IF stack[Len(stack)].at = "main" THEN early \cup {o} ELSE early
    /\ UNCHANGED <<props, stack, ghosts>>

\* zend_objects_store_put, for a new object in a new variable.
New ==
    LET o == Cardinality(Created) + 1
        h == IF freeList # <<>> THEN Head(freeList) ELSE top
        grow == freeList = <<>> /\ top = size IN
    /\ Statement
    /\ o \in Objs
    /\ freeList' = IF freeList # <<>> THEN Tail(freeList) ELSE freeList
    /\ size' = IF grow THEN 2 * size ELSE size
    /\ gen' = IF grow THEN gen + 1 ELSE gen
    /\ top' = IF freeList = <<>> THEN top + 1 ELSE top
    /\ store' = [store EXCEPT ![h] =
                    [valid |-> TRUE, called |-> FALSE, refcount |-> 1, obj |-> o]]
    /\ buffered' = buffered \ {h}
    /\ handle' = [handle EXCEPT ![o] = h]
    /\ vars' = [vars EXCEPT ![o] = 1]
    /\ early' = IF stack[Len(stack)].at = "main" THEN early \cup {o} ELSE early
    /\ UNCHANGED <<props, stack, ghosts>>

\* zend_objects_store_add_ref: a variable gets a zval of its own of an object.
AddRef(o) == store' = [store EXCEPT ![handle[o]].refcount = @ + 1]

\* Mutant: zval_copy_ctor does not call add_ref.
MutCopyNoAddRef(o) ==
    /\ Statement
    /\ Access(o) /\ vars[o] < MaxVars
    /\ vars' = [vars EXCEPT ![o] = @ + 1]
    /\ UNCHANGED store
    /\ UNCHANGED <<top, size, freeList, gen, buffered, handle, props, stack, early, ghosts>>

Copy(o) ==
    /\ Statement
    /\ Access(o) /\ vars[o] < MaxVars
    /\ vars' = [vars EXCEPT ![o] = @ + 1]
    /\ AddRef(o)
    /\ UNCHANGED <<top, size, freeList, gen, buffered, handle, props, stack, early, ghosts>>

\* $o->p = $p: the variable's zval becomes a property.
SetProp(o, p) ==
    /\ Statement
    /\ Access(o) /\ vars[p] > 0 /\ p \notin props[o]
    /\ vars' = [vars EXCEPT ![p] = @ - 1]
    /\ props' = [props EXCEPT ![o] = @ \cup {p}]
    /\ UNCHANGED <<store, top, size, freeList, gen, buffered, handle, stack, early, ghosts>>

ReadProp(o, p) ==
    /\ Statement
    /\ Access(o) /\ p \in props[o] /\ vars[p] < MaxVars
    /\ vars' = [vars EXCEPT ![p] = @ + 1]
    /\ AddRef(p)
    /\ UNCHANGED <<top, size, freeList, gen, buffered, handle, props, stack, early, ghosts>>

\* A variable's zval is destroyed: zval_dtor calls the del_ref handler.
Unset(o) ==
    /\ Statement
    /\ vars[o] > 0
    /\ vars' = [vars EXCEPT ![o] = @ - 1]
    /\ Push(Frame("del_ref", o, 0))
    /\ UNCHANGED <<store, top, size, freeList, gen, buffered, handle, props, early, ghosts>>

\* The end of a destructor's body; zend_objects_destroy_object destroys the zval
\* it made for $this.
EndDtor ==
    /\ At("dtor")
    /\ Replace(Frame("del_ref", This, 0))
    /\ UNCHANGED <<store, top, size, freeList, gen, buffered, script, steps, ghosts>>
-----------------------------------------------------------------------------
\* zend_objects_store_del_ref and zend_objects_store_del_ref_by_handle_ex.

b == store[handle[This]]

\* zend_bailout: longjmp to the innermost zend_try of the frames s.  The frames
\* above it are gone, and the references they were about to release with them.
Catches == {"dtor_done", "freeing", "main", "symbols", "called", "tables", "free", "free_one"}
Catcher(s) == CHOOSE k \in DOMAIN s : /\ s[k].at \in Catches
                                      /\ \A j \in 1..(k - 1) : s[j].at \notin Catches
Holds(f, o) == (IF f.o = o /\ f.at \in {"del_ref", "dtor", "dtor_done", "freeing", "called"} THEN 1 ELSE 0)
               + (IF o \in f.todo THEN 1 ELSE 0)
HeldBy(s, o) == Cardinality({k \in DOMAIN s : Holds(s[k], o) = 1})
                + 2 * Cardinality({k \in DOMAIN s : Holds(s[k], o) = 2})

\* What the function with the zend_try does next.
Caught(f) ==
    CASE f.at = "dtor_done" -> [f EXCEPT !.fail = TRUE]
      [] f.at = "freeing"   -> [f EXCEPT !.fail = TRUE, !.todo = {}]
      [] f.at = "main"      -> Frame("symbols", 0, 0)
      [] f.at \in {"symbols", "called"} -> Frame("tables", 0, 0)
      [] f.at = "tables"    -> Frame("free", 0, 1)
      [] f.at \in {"free", "free_one"} -> Frame("end", 0, 0)

MarkDestructed(st) == [h \in Handles |-> IF st[h].valid THEN [st[h] EXCEPT !.called = TRUE] ELSE st[h]]

Bailout(s, st, fatal) ==
    LET k == Catcher(s)
        f == s[k] IN
    /\ stack' = <<Caught(f)>> \o SubSeq(s, k + 1, Len(s))
    /\ lost' = [o \in Objs |-> lost[o] + HeldBy(SubSeq(s, 1, k), o) - HeldBy(<<Caught(f)>>, o)]
    /\ store' = IF f.at \in {"symbols", "called"} THEN MarkDestructed(st) ELSE st
    /\ bailed' = (bailed \/ fatal \/ f.at # "main")

\* exit() in script code, and a fatal error, which marks all objects destructed.
Exit ==
    /\ InScript
    /\ Bailout(stack, store, FALSE)
    /\ UNCHANGED <<top, size, freeList, gen, buffered, script, steps, destructed, freed, stale>>

Fatal ==
    /\ InScript
    /\ Bailout(stack, MarkDestructed(store), TRUE)
    /\ UNCHANGED <<top, size, freeList, gen, buffered, script, steps, destructed, freed, stale>>

\* `obj->refcount--' and the return to the caller, or on to the next bailout.
\* The del_ref handler then looks at the zval as a possible root of a cycle.
Leave(st, buf) ==
    LET st2 == [st EXCEPT ![handle[This]].refcount = @ - 1] IN
    /\ buffered' = IF st2[handle[This]].valid /\ ~ stack[1].fail THEN buf \cup {handle[This]} ELSE buf
    /\ IF stack[1].fail THEN Bailout(Tail(stack), st2, FALSE)
       ELSE store' = st2 /\ Pop /\ UNCHANGED <<lost, bailed>>

DelRefKeep ==
    /\ At("del_ref")
    /\ ~ (b.valid /\ b.refcount = 1)
    /\ Leave(store, buffered)
    /\ UNCHANGED <<top, size, freeList, gen, script, steps, destructed, freed, stale>>

\* Mutant: destructor_called is not set.
MutDelRefDestructAgain ==
    /\ At("del_ref")
    /\ b.valid /\ b.refcount = 1 /\ ~ b.called
    /\ store' = [store EXCEPT ![handle[This]].refcount = @ + 1]
    /\ destructed' = [destructed EXCEPT ![b.obj] = @ + 1]
    /\ stack' = <<Frame("dtor", This, 0), Frame("dtor_done", This, 0)>> \o Tail(stack)
    /\ UNCHANGED <<top, size, freeList, gen, buffered, script, steps, lost, freed, bailed, stale>>

\* The last reference: the destructor runs once, and gets a reference of its own.
DelRefDestruct ==
    /\ At("del_ref")
    /\ b.valid /\ b.refcount = 1 /\ ~ b.called
    /\ store' = [store EXCEPT ![handle[This]].called = TRUE, ![handle[This]].refcount = @ + 1]
    /\ destructed' = [destructed EXCEPT ![b.obj] = @ + 1]
    /\ stack' = <<Frame("dtor", This, 0), Frame("dtor_done", This, 0)>> \o Tail(stack)
    /\ UNCHANGED <<top, size, freeList, gen, buffered, script, steps, lost, freed, bailed, stale>>

\* Mutant: the refcount is not looked at again after the destructor.
MutDelRefFreeResurrected ==
    /\ At("dtor_done") \/ (At("del_ref") /\ b.valid /\ b.called)
    /\ buffered' = buffered \ {handle[This]}
    /\ freed' = [freed EXCEPT ![b.obj] = @ + 1]
    /\ props' = [props EXCEPT ![b.obj] = {}]
    /\ Replace([stack[1] EXCEPT !.at = "freeing", !.gen = gen, !.todo = props[b.obj]])
    /\ UNCHANGED <<store, top, size, freeList, gen, handle, vars, early, steps, lost, destructed, bailed, stale>>

\* Mutant: GC_REMOVE_ZOBJ_FROM_BUFFER is missing.
MutDelRefFreeKeepsRoot ==
    /\ At("dtor_done") \/ (At("del_ref") /\ b.valid /\ b.called)
    /\ b.refcount = 1
    /\ buffered' = buffered
    /\ freed' = [freed EXCEPT ![b.obj] = @ + 1]
    /\ props' = [props EXCEPT ![b.obj] = {}]
    /\ Replace([stack[1] EXCEPT !.at = "freeing", !.gen = gen, !.todo = props[b.obj]])
    /\ UNCHANGED <<store, top, size, freeList, gen, handle, vars, early, steps, lost, destructed, bailed, stale>>

\* The bucket is read again.  If the destructor did not make another reference
\* free_storage destroys the properties, one after the other.
DelRefFree ==
    /\ At("dtor_done") \/ (At("del_ref") /\ b.valid /\ b.called)
    /\ b.refcount = 1
    /\ buffered' = buffered \ {handle[This]}
    /\ freed' = [freed EXCEPT ![b.obj] = @ + 1]
    /\ props' = [props EXCEPT ![b.obj] = {}]
    /\ Replace([stack[1] EXCEPT !.at = "freeing", !.gen = gen, !.todo = props[b.obj]])
    /\ UNCHANGED <<store, top, size, freeList, gen, handle, vars, early, steps, lost, destructed, bailed, stale>>

DelRefResurrected ==
    /\ At("dtor_done")
    /\ b.refcount # 1
    /\ Leave(store, buffered)
    /\ UNCHANGED <<top, size, freeList, gen, script, steps, destructed, freed, stale>>

FreeProperty ==
    /\ At("freeing") \/ At("free_one")
    /\ \E p \in stack[1].todo :
        stack' = <<Frame("del_ref", p, 0), [stack[1] EXCEPT !.todo = @ \ {p}]>> \o Tail(stack)
    /\ UNCHANGED <<store, top, size, freeList, gen, buffered, script, steps, ghosts>>

\* ZEND_OBJECTS_STORE_ADD_TO_FREE_LIST finds the bucket by its handle, but
\* `obj->refcount--' goes through the pointer taken before free_storage.  Where
\* the store has moved since then, nothing more is said about the program.
DelRefUnlink ==
    /\ At("freeing") /\ stack[1].todo = {}
    /\ freeList' = <<handle[This]>> \o freeList
    /\ LET st == [store EXCEPT ![handle[This]].valid = FALSE] IN
       IF stack[1].gen = gen
       THEN Leave(st, buffered) /\ UNCHANGED stale
       ELSE /\ stale' = TRUE
            /\ store' = st
            /\ UNCHANGED <<stack, buffered, lost, bailed>>
    /\ UNCHANGED <<top, size, gen, script, steps, destructed, freed>>
-----------------------------------------------------------------------------
\* The end of the request, as php_request_shutdown orders it.

EndScript ==
    /\ At("main")
    /\ Replace(Frame("symbols", 0, 0))
    /\ UNCHANGED <<store, top, size, freeList, gen, buffered, script, steps, ghosts>>

\* shutdown_destructors removes global variables that hold the only reference to
\* an object's zval; which ones those are depends on the sharing of zvals.
RemoveSymbol ==
    /\ At("symbols")
    /\ \E o \in Objs : /\ vars[o] > 0
                       /\ vars' = [vars EXCEPT ![o] = @ - 1]
                       /\ Push(Frame("del_ref", o, 0))
    /\ UNCHANGED <<store, top, size, freeList, gen, buffered, handle, props, early, steps, ghosts>>

\* Mutant: the loop over the store starts one bucket late.
MutSymbolsDoneSkipsFirst ==
    /\ At("symbols")
    /\ Replace(Frame("called", 0, 2))
    /\ UNCHANGED <<store, top, size, freeList, gen, buffered, script, steps, ghosts>>

SymbolsDone ==
    /\ At("symbols")
    /\ Replace(Frame("called", 0, 1))
    /\ UNCHANGED <<store, top, size, freeList, gen, buffered, script, steps, ghosts>>

\* zend_objects_store_call_destructors: `i' runs up to the current top.  The
\* loop holds a reference while a destructor runs.
CallDestructor ==
    LET i == stack[1].i IN
    /\ At("called") /\ This = 0 /\ i < top
    /\ IF store[i].valid /\ ~ store[i].called
       THEN /\ store' = [store EXCEPT ![i].called = TRUE, ![i].refcount = @ + 2]
            /\ destructed' = [destructed EXCEPT ![store[i].obj] = @ + 1]
            /\ stack' = <<Frame("dtor", store[i].obj, 0), Frame("called", store[i].obj, i)>>
       ELSE /\ Replace(Frame("called", 0, i + 1))
            /\ UNCHANGED <<store, destructed>>
    /\ UNCHANGED <<top, size, freeList, gen, buffered, script, steps, lost, freed, bailed, stale>>

\* Mutant: the loop's own reference is not given back.
MutDestructorCalledKeepsRef ==
    LET i == stack[1].i IN
    /\ At("called") /\ This # 0
    /\ UNCHANGED store
    /\ Replace(Frame("called", 0, i + 1))
    /\ UNCHANGED <<top, size, freeList, gen, buffered, script, steps, ghosts>>

DestructorCalled ==
    LET i == stack[1].i IN
    /\ At("called") /\ This # 0
    /\ store' = [store EXCEPT ![i].refcount = @ - 1]
    /\ Replace(Frame("called", 0, i + 1))
    /\ UNCHANGED <<top, size, freeList, gen, buffered, script, steps, ghosts>>

AllCalled ==
    /\ At("called") /\ This = 0 /\ stack[1].i >= top
    /\ Replace(Frame("tables", 0, 0))
    /\ UNCHANGED <<store, top, size, freeList, gen, buffered, script, steps, ghosts>>

\* shutdown_executor: the symbol table goes ...
DestroySymbol ==
    /\ At("tables")
    /\ \E o \in Objs : /\ vars[o] > 0
                       /\ vars' = [vars EXCEPT ![o] = @ - 1]
                       /\ Push(Frame("del_ref", o, 0))
    /\ UNCHANGED <<store, top, size, freeList, gen, buffered, handle, props, early, steps, ghosts>>

TablesDone ==
    /\ At("tables") /\ \A o \in Objs : vars[o] = 0
    /\ Replace(Frame("free", 0, 1))
    /\ UNCHANGED <<store, top, size, freeList, gen, buffered, script, steps, ghosts>>

\* ... and zend_objects_store_free_object_storage frees what is left, whatever
\* its reference count; such handles do not go on the free list.
FreeStorage ==
    LET i == stack[1].i IN
    /\ At("free") /\ i < top
    /\ IF store[i].valid
       THEN /\ store' = [store EXCEPT ![i].valid = FALSE]
            /\ buffered' = buffered \ {i}
            /\ freed' = [freed EXCEPT ![store[i].obj] = @ + 1]
            /\ props' = [props EXCEPT ![store[i].obj] = {}]
            /\ Replace([Frame("free_one", 0, i) EXCEPT !.todo = props[store[i].obj]])
       ELSE /\ Replace(Frame("free", 0, i + 1))
            /\ UNCHANGED <<store, buffered, freed, props>>
    /\ UNCHANGED <<top, size, freeList, gen, handle, vars, early, steps, lost, destructed, bailed, stale>>

StorageFreed ==
    /\ At("free_one") /\ stack[1].todo = {}
    /\ Replace(Frame("free", 0, stack[1].i + 1))
    /\ UNCHANGED <<store, top, size, freeList, gen, buffered, script, steps, ghosts>>

EndRequest ==
    /\ At("free") /\ stack[1].i >= top
    /\ Replace(Frame("end", 0, 0))
    /\ UNCHANGED <<store, top, size, freeList, gen, buffered, script, steps, ghosts>>

Stopped == (At("end") \/ stale) /\ UNCHANGED allVars

Shutdown == \/ EndScript \/ RemoveSymbol \/ SymbolsDone
            \/ CallDestructor \/ DestructorCalled \/ AllCalled
            \/ DestroySymbol \/ TablesDone
            \/ FreeStorage \/ StorageFreed \/ EndRequest

DelRef == \/ DelRefKeep \/ DelRefDestruct \/ DelRefFree \/ DelRefResurrected
          \/ FreeProperty \/ DelRefUnlink

Script == \/ New \/ EndDtor \/ Exit \/ Fatal
          \/ \E o \in Objs : Copy(o) \/ Unset(o)
          \/ \E o, p \in Objs : SetProp(o, p) \/ ReadProp(o, p)

Next == Script \/ DelRef \/ Shutdown \/ Stopped

Spec == Init /\ [][Next]_allVars
-----------------------------------------------------------------------------
Labels == {"main", "dtor", "del_ref", "dtor_done", "freeing", "symbols", "called", "tables",
           "free", "free_one", "end"}
Frames == [at : Labels, o : Objs \cup {0}, i : 0..(MaxObjs + 1), gen : Nat, fail : BOOLEAN,
           todo : SUBSET Objs]

TypeOK ==
    /\ store \in [Handles -> Bucket]
    /\ \A h \in Handles : store[h].refcount >= 0
    /\ top \in 1..(MaxObjs + 1) /\ top <= size
    /\ freeList \in Seq(Handles)
    /\ gen \in Nat
    /\ buffered \in SUBSET Handles
    /\ handle \in [Objs -> Handles \cup {0}]
    /\ vars \in [Objs -> 0..MaxVars]
    /\ props \in [Objs -> SUBSET Objs]
    /\ stack \in Seq(Frames) \ {<<>>}
    /\ steps \in 0..MaxSteps

Owners(o) == vars[o] + Cardinality({p \in Objs : o \in props[p]}) + HeldBy(stack, o)
FreeingAll == stack[Len(stack)].at \in {"free", "free_one", "end"}

\* The refcount of a bucket is the number of zvals of its object, those in the
\* hands of running C functions and those lost to a bailout included.
CountsExact ==
    \A o \in Created : LET bucket == store[handle[o]] IN
        bucket.valid /\ bucket.obj = o => bucket.refcount = Owners(o) + lost[o]

\* While the script runs, and until free_object_storage, every zval of an object
\* finds its own object in the store: a handle is not given to another object
\* and its storage is not freed while somebody has it.
NoDangling ==
    ~ FreeingAll /\ ~ stale =>
        \A o \in Created : Owners(o) > 0 => /\ store[handle[o]].valid
                                            /\ store[handle[o]].obj = o
                                            /\ freed[o] = 0 \/ \E k \in DOMAIN stack : stack[k].at = "freeing" /\ stack[k].o = o

\* The free list has every handle that is not in use, once, and no other.
FreeListSound ==
    /\ \A i, j \in DOMAIN freeList : freeList[i] = freeList[j] => i = j
    /\ \A i \in DOMAIN freeList : freeList[i] < top /\ ~ store[freeList[i]].valid
    /\ ~ FreeingAll => \A h \in 1..(top - 1) : store[h].valid \/ \E i \in DOMAIN freeList : freeList[i] = h

\* No entry of the GC root buffer denotes a bucket that is no longer an object.
NoDanglingRoot == \A h \in buffered : store[h].valid

\* An object is destructed at most once, freed at most once, and never
\* destructed once it is being freed - resurrection, exit() in destructors and
\* the two shutdown loops notwithstanding.
OnceOnly ==
    [][\A o \in Objs : /\ destructed'[o] # destructed[o] => destructed[o] = 0 /\ freed[o] = 0
                       /\ freed'[o] # freed[o] => freed[o] = 0]_allVars

\* A request that ends without a bailout has destructed and freed every object
\* that was made before the shutdown began, cycles included.
Complete ==
    At("end") /\ ~ bailed => \A o \in early : destructed[o] = 1 /\ freed[o] = 1

\* zend_objects_API.c says that `the store might have been reallocated in the
\* dtor' and reads the bucket again; free_storage runs destructors as well.
NoStaleWrite == ~ stale
=============================================================================
