-------------------------------- MODULE Tsrm --------------------------------
(***************************************************************************)
(* The thread-safe resource manager of TSRM/TSRM.c (ZTS builds): what a     *)
(* build without threads keeps in global structures is an id here, and      *)
(* every thread has an instance of its own of every id, in the storage of   *)
(* its entry of a chained hash table.  One mutex guards the table; a thread *)
(* reads its own storage without it.                                        *)
(*                                                                         *)
(* A step is what a function does under the mutex up to a point where the   *)
(* unlocked reads of the other threads can tell the difference: each array  *)
(* that ts_allocate_id reallocates, each entry that is linked before its    *)
(* instances are constructed, and the two halves of a read.                 *)
(***************************************************************************)
EXTENDS Naturals, FiniteSets

CONSTANTS
    Threads,
    Main,        \* the thread of tsrm_startup and tsrm_shutdown
    Buckets,     \* the slots of tsrm_tls_table
    Hash,        \* THREAD_HASH_OF, of each thread
    StartIds,    \* how many ids the modules of the server allocate at start, at least one
    MaxIds,      \* bound: ids
    MaxEntries,  \* bound: tsrm_tls_entry structures
    MaxCalls     \* bound: calls, of all threads together

Nobody == "nobody"

ASSUME TsrmAssumption ==
    /\ Main \in Threads
    /\ Nobody \notin Threads
    /\ IsFiniteSet(Threads)
    /\ Hash \in [Threads -> Buckets]
    /\ {StartIds, MaxIds, MaxEntries, MaxCalls} \subseteq Nat
    /\ 1 <= StartIds /\ StartIds <= MaxIds

Ids == 1..MaxIds
Entries == 1..MaxEntries

VARIABLES
    id_count,
    types,      \* resource_types_table_size: the ids that have a type, the others got none
    done,       \* the ids whose resource_types_table entry is done
    loader,     \* the thread that loaded the module of an id; Main for those of the server
    chain,      \* tsrm_tls_table: the entries of each bucket, which every search goes through
    owner,      \* thread_id of an entry
    count,      \* count of an entry
    block,      \* which memory block is the storage of an entry: realloc may move it
    slot,       \* storage[j] of an entry: beyond the array, an instance, or NULL
    tls,        \* the entry in a thread's thread-local storage, or 0
    mutex,      \* the holder of tsmm_mutex
    pc, arg,    \* where a thread is, and the id it works on
    entry,      \* the entry it works on
    ptr,        \* the storage pointer it has loaded
    todo,       \* the entries it has still to enlarge, the ids it has still to construct
    calls,
    phase,      \* of the process: running, shutdown of the modules, down, or lost
    used,       \* history: how many entries were ever allocated
    dead,       \* history: the instances that were destructed
    again,      \* history: the instances that were destructed once more
    got         \* history: what reads have returned

ids == <<id_count, types, done, loader>>
table == <<chain, owner, count, block, slot, used>>
local == <<entry, ptr, todo>>
history == <<dead, again, got>>
vars == <<id_count, types, done, loader, chain, owner, count, block, slot, tls, mutex, pc, arg, entry,
          ptr, todo, calls, phase, used, dead, again, got>>

Init ==
    /\ id_count = StartIds
    /\ types = StartIds
    /\ done = {}
    /\ loader = [id \in Ids |-> Main]
    /\ chain = [b \in Buckets |-> {}]
    /\ owner = [e \in Entries |-> Nobody]
    /\ count = [e \in Entries |-> 0]
    /\ block = [e \in Entries |-> 0]
    /\ slot = [e \in Entries |-> [id \in Ids |-> "beyond"]]
    /\ tls = [th \in Threads |-> 0]
    /\ mutex = Nobody
    /\ pc = [th \in Threads |-> "idle"]
    /\ arg = [th \in Threads |-> 0]
    /\ entry = [th \in Threads |-> 0]
    /\ ptr = [th \in Threads |-> 0]
    /\ todo = [th \in Threads |-> {}]
    /\ calls = 0
    /\ phase = "running"
    /\ used = 0
    /\ dead = {}
    /\ again = {}
    /\ got = {}
-----------------------------------------------------------------------------
Linked == UNION {chain[b] : b \in Buckets}

Goto(th, label) == pc' = [pc EXCEPT ![th] = label]
Free == mutex = Nobody
Unlock(th) == mutex' = Nobody

Call(th) == /\ pc[th] = "idle"
            /\ calls < MaxCalls
            /\ phase = "running"
            /\ calls' = calls + 1

\* The instances of the entries in S: what their storage holds apart from NULL.
Instances(S) == {x \in S \X Ids : slot[x[1]][x[2]] \notin {"null", "beyond"}}

\* The destructors of the given instances run.
Destruct(I) == /\ dead' = dead \cup I
               /\ again' = again \cup (I \cap dead)

\* resource_types_table is NULL once a realloc of it has failed, from the first id on
\* that got no type.
HasTypes == types = id_count

\* The ids of the server's modules are used by every thread, those of a module that
\* a thread has loaded with dl() by that thread; none before ts_allocate_id returned
\* it, and never one for which it returned 0.
Usable(th) == {id \in 1..types : /\ id \notin done
                                 /\ loader[id] \in {Main, th}
                                 /\ id = types => pc[loader[id]] # "enlarge"}

\* MaxEntries bounds the calls that may have to allocate an entry.
Searching == {t \in Threads : pc[t] = "search"}
RoomForEntry(th) == tls[th] # 0 \/ used + Cardinality(Searching) < MaxEntries
-----------------------------------------------------------------------------
\* ts_resource_ex: the current thread's entry is in its thread-local storage, or it
\* is searched for under the mutex.
Fetch(th) ==
    /\ Call(th) /\ RoomForEntry(th)
    /\ \E id \in Usable(th) : arg' = [arg EXCEPT ![th] = id]
    /\ IF tls[th] # 0
       THEN /\ entry' = [entry EXCEPT ![th] = tls[th]]
            /\ Goto(th, "load")
       ELSE /\ Goto(th, "search")
            /\ UNCHANGED entry
    /\ UNCHANGED <<ids, table, tls, mutex, ptr, todo, phase, history>>

MutMineAny(th) == chain[Hash[th]]

\* The entries among which the search finds the thread's.
Mine(th) == {e \in chain[Hash[th]] : owner[e] = th}

MutFoundKeepsMutex(th) ==
    /\ pc[th] = "search" /\ Free
    /\ Mine(th) # {}
    /\ mutex' = th
    /\ \E e \in Mine(th) : entry' = [entry EXCEPT ![th] = e]
    /\ Goto(th, "load")
    /\ UNCHANGED <<ids, table, tls, arg, ptr, todo, calls, phase, history>>

\* The entry is found: the mutex is unlocked and storage[id] is read without it.
Found(th) ==
    /\ pc[th] = "search" /\ Free
    /\ Mine(th) # {}
    /\ \E e \in Mine(th) : entry' = [entry EXCEPT ![th] = e]
    /\ Goto(th, "load")
    /\ UNCHANGED <<ids, table, tls, mutex, arg, ptr, todo, calls, phase, history>>

\* allocate_new_resource at the end of the chain: the entry is linked and in the
\* thread-local storage before its instances are constructed.
AllocateNew(th) ==
    /\ pc[th] = "search" /\ Free
    /\ Mine(th) = {} /\ HasTypes
    /\ used' = used + 1
    /\ LET e == used + 1 IN
       /\ chain' = [chain EXCEPT ![Hash[th]] = @ \cup {e}]
       /\ owner' = [owner EXCEPT ![e] = th]
       /\ count' = [count EXCEPT ![e] = id_count]
       /\ slot' = [slot EXCEPT ![e] = [id \in Ids |-> IF id <= id_count THEN "junk" ELSE "beyond"]]
       /\ tls' = [tls EXCEPT ![th] = e]
       /\ entry' = [entry EXCEPT ![th] = e]
    /\ mutex' = th
    /\ todo' = [todo EXCEPT ![th] = 1..id_count]
    /\ Goto(th, "construct")
    /\ UNCHANGED <<ids, block, arg, ptr, calls, phase, history>>

\* Its loop over the ids; then ts_resource_ex calls itself and searches again.
Construct(th) ==
    /\ pc[th] = "construct"
    /\ \E id \in todo[th] :
       /\ \A j \in todo[th] : id <= j
       /\ slot' = [slot EXCEPT ![entry[th]][id] = IF id \in done THEN "null" ELSE "made"]
       /\ todo' = [todo EXCEPT ![th] = @ \ {id}]
    /\ UNCHANGED <<ids, chain, owner, count, block, used, tls, mutex, pc, arg, entry, ptr, calls,
                   phase, history>>

Constructed(th) ==
    /\ pc[th] = "construct"
    /\ todo[th] = {}
    /\ Unlock(th)
    /\ Goto(th, "search")
    /\ UNCHANGED <<ids, table, tls, arg, local, calls, phase, history>>

\* TSRM_SAFE_RETURN_RSRC: load thread_resources->storage ...
Load(th) ==
    /\ pc[th] = "load"
    /\ ptr' = [ptr EXCEPT ![th] = block[entry[th]]]
    /\ Goto(th, "deref")
    /\ UNCHANGED <<ids, table, tls, mutex, arg, entry, todo, calls, phase, history>>

\* ... and its element: garbage if realloc has moved the array in between.
Deref(th) ==
    /\ pc[th] = "deref"
    /\ got' = got \cup {IF ptr[th] # block[entry[th]] THEN "moved"
                        ELSE IF <<entry[th], arg[th]>> \in dead THEN "dead"
                        ELSE IF owner[entry[th]] # th THEN "foreign"
                        ELSE slot[entry[th]][arg[th]]}
    /\ Goto(th, "idle")
    /\ arg' = [arg EXCEPT ![th] = 0]
    /\ entry' = [entry EXCEPT ![th] = 0]
    /\ ptr' = [ptr EXCEPT ![th] = 0]
    /\ UNCHANGED <<ids, table, tls, mutex, todo, calls, phase, dead, again>>
-----------------------------------------------------------------------------
\* Only one entry of each bucket is enlarged.
MutAllocateIdHeads(th) ==
    /\ Call(th)
    /\ Free
    /\ id_count < MaxIds /\ HasTypes
    /\ id_count' = id_count + 1
    /\ types' = id_count + 1
    /\ loader' = [loader EXCEPT ![id_count + 1] = th]
    /\ mutex' = th
    /\ todo' = [todo EXCEPT ![th] = {CHOOSE e \in chain[b] : TRUE : b \in {c \in Buckets : chain[c] # {}}}]
    /\ Goto(th, "enlarge")
    /\ UNCHANGED <<done, table, tls, arg, entry, ptr, phase, history>>

\* ts_allocate_id, when a module is loaded: the id, its type, and then room and an
\* instance of it in every entry.
AllocateId(th) ==
    /\ Call(th)
    /\ Free
    /\ id_count < MaxIds /\ HasTypes
    /\ id_count' = id_count + 1
    /\ types' = id_count + 1
    /\ loader' = [loader EXCEPT ![id_count + 1] = th]
    /\ mutex' = th
    /\ todo' = [todo EXCEPT ![th] = Linked]
    /\ Goto(th, "enlarge")
    /\ UNCHANGED <<done, table, tls, arg, entry, ptr, phase, history>>

\* The realloc of resource_types_table fails: the mutex is unlocked and 0 returned, but
\* the id is counted and the table is NULL from now on.
AllocateIdFails(th) ==
    /\ Call(th)
    /\ Free
    /\ id_count < MaxIds
    /\ id_count' = id_count + 1
    /\ UNCHANGED <<types, done, loader, table, tls, mutex, pc, arg, local, phase, history>>

\* realloc leaves the array where it is or moves it.
Enlarge(th) ==
    /\ pc[th] = "enlarge"
    /\ \E e \in todo[th] :
       /\ \E moved \in {0, 1} : block' = [block EXCEPT ![e] = @ + moved]
       /\ slot' = [slot EXCEPT ![e] = [id \in Ids |->
                       IF id \in (count[e] + 1)..id_count THEN "made" ELSE @[id]]]
       /\ count' = [count EXCEPT ![e] = id_count]
       /\ todo' = [todo EXCEPT ![th] = @ \ {e}]
    /\ UNCHANGED <<ids, chain, owner, used, tls, mutex, pc, arg, entry, ptr, calls, phase, history>>

Enlarged(th) ==
    /\ pc[th] = "enlarge"
    /\ todo[th] = {}
    /\ Unlock(th)
    /\ Goto(th, "idle")
    /\ UNCHANGED <<ids, table, tls, arg, local, calls, phase, history>>

\* The index of resource_types_table is not unshuffled: the next type is done.
MutFreeIdShuffled(th, id) ==
    /\ Free /\ HasTypes
    /\ Destruct(Instances(Linked) \cap (Linked \X {id}))
    /\ slot' = [e \in Entries |-> IF e \in Linked /\ slot[e][id] # "beyond"
                                  THEN [slot[e] EXCEPT ![id] = "null"] ELSE slot[e]]
    /\ done' = done \cup {id + 1}
    /\ UNCHANGED <<id_count, types, loader, chain, owner, count, block, used, tls, mutex, pc, arg,
                   local, got>>

\* ts_free_id, when such a module is unloaded: its instances are destructed in every
\* entry, and no new entry gets one.
FreeId(th, id) ==
    /\ Free /\ HasTypes
    /\ Destruct(Instances(Linked) \cap (Linked \X {id}))
    /\ slot' = [e \in Entries |-> IF e \in Linked /\ slot[e][id] # "beyond"
                                  THEN [slot[e] EXCEPT ![id] = "null"] ELSE slot[e]]
    /\ done' = done \cup {id}
    /\ UNCHANGED <<id_count, types, loader, chain, owner, count, block, used, tls, mutex, pc, arg,
                   local, got>>

Unload(th) ==
    /\ Call(th)
    /\ th # Main
    /\ \E id \in Usable(th) : loader[id] = th /\ FreeId(th, id)
    /\ UNCHANGED phase

MutUnlinkNothing(b, S) == UNCHANGED chain

\* The entries in S are destroyed: their instances, their storage, themselves.
Unlink(b, S) == chain' = [chain EXCEPT ![b] = @ \ S]

\* ts_free_thread.  It calls the destructor of a done id too, with NULL.
FreeThread(th) ==
    /\ Call(th)
    /\ th # Main
    /\ Free
    /\ Mine(th) # {} => HasTypes
    /\ Destruct(Instances(Mine(th)))
    /\ Unlink(Hash[th], Mine(th))
    /\ tls' = [tls EXCEPT ![th] = IF Mine(th) = {} THEN @ ELSE 0]
    /\ UNCHANGED <<ids, owner, count, block, slot, used, mutex, pc, arg, local, phase, got>>

\* What needs a type reads through NULL once the table is; what happens then is
\* undefined.
Lost ==
    /\ ~ HasTypes /\ Free
    /\ phase' = "lost"
    /\ UNCHANGED <<ids, table, tls, mutex, pc, arg, local, calls, history>>

\* allocate_new_resource.
AllocateNewLost(th) == pc[th] = "search" /\ Mine(th) = {} /\ Lost

\* ts_free_thread and ts_free_id; and ts_allocate_id, which reads types that nobody
\* has set if its realloc makes a new table.
CallLost(th) ==
    /\ pc[th] = "idle" /\ calls < MaxCalls /\ phase = "running"
    /\ \/ id_count < MaxIds
       \/ th # Main /\ Mine(th) # {}
       \/ th # Main /\ \E id \in Usable(th) : loader[id] = th
    /\ Lost

\* A thread ends without ts_free_thread; a later one has the same thread_id.
EndThread(th) ==
    /\ pc[th] = "idle"
    /\ th # Main
    /\ tls[th] # 0
    /\ tls' = [tls EXCEPT ![th] = 0]
    /\ UNCHANGED <<ids, table, mutex, pc, arg, local, calls, phase, history>>
-----------------------------------------------------------------------------
\* php_module_shutdown, in Main, once the other threads have ended.
Workers == {e \in chain[Hash[Main]] : owner[e] # Main}
OthersEnded == /\ pc[Main] = "idle"
               /\ \A th \in Threads \ {Main} : pc[th] = "idle" /\ tls[th] = 0

\* ts_free_worker_threads looks at the caller's bucket only.
FreeWorkerThreads ==
    /\ phase = "running"
    /\ Free
    /\ OthersEnded
    /\ Workers # {} => HasTypes
    /\ phase' = "shutdown"
    /\ Destruct(Instances(Workers))
    /\ Unlink(Hash[Main], Workers)
    /\ UNCHANGED <<ids, owner, count, block, slot, used, tls, mutex, pc, arg, local, calls, got>>

\* The modules of the server free some of their ids, with ts_free_id.
ModuleShutdown ==
    /\ phase = "shutdown"
    /\ \E id \in (1..types) \ done : FreeId(Main, id)
    /\ UNCHANGED <<calls, phase>>

\* Both need the types too.
ShutdownLost ==
    /\ \/ phase = "running" /\ OthersEnded /\ Workers # {}
       \/ phase = "shutdown" /\ (1..types) \ done # {}
    /\ Lost

\* tsrm_shutdown, under no lock: everything that is left, in every bucket, without
\* destructors if there are no types.
Shutdown ==
    /\ phase = "shutdown"
    /\ phase' = "down"
    /\ Destruct({x \in Instances(Linked) : HasTypes /\ x[2] \notin done})
    /\ chain' = [b \in Buckets |-> {}]
    /\ tls' = [tls EXCEPT ![Main] = 0]
    /\ UNCHANGED <<ids, owner, count, block, slot, used, mutex, pc, arg, local, calls, got>>

Thread(th) ==
    \/ Fetch(th) \/ Found(th) \/ AllocateNew(th) \/ Construct(th) \/ Constructed(th)
    \/ Load(th) \/ Deref(th)
    \/ AllocateId(th) \/ AllocateIdFails(th) \/ Enlarge(th) \/ Enlarged(th)
    \/ Unload(th) \/ FreeThread(th) \/ AllocateNewLost(th) \/ CallLost(th)

Terminated == phase \in {"down", "lost"} /\ UNCHANGED vars

Next == \/ phase # "lost" /\ \E th \in Threads : Thread(th) \/ EndThread(th)
        \/ FreeWorkerThreads \/ ModuleShutdown \/ ShutdownLost \/ Shutdown
        \/ Terminated

\* A call that has begun is not left in the middle.
Proceed(th) == /\ phase # "lost"
               /\ \/ Found(th) \/ AllocateNew(th) \/ Construct(th) \/ Constructed(th)
                  \/ Load(th) \/ Deref(th) \/ Enlarge(th) \/ Enlarged(th)
                  \/ AllocateNewLost(th)
Fairness == \A th \in Threads : WF_vars(Proceed(th))
Spec == Init /\ [][Next]_vars /\ Fairness
-----------------------------------------------------------------------------
Slots == {"beyond", "junk", "made", "null"}
Labels == {"idle", "search", "construct", "load", "deref", "enlarge"}

\* The types of the variables.
TypeOK ==
    /\ id_count \in 0..MaxIds
    /\ types \in 0..MaxIds /\ types <= id_count
    /\ done \subseteq 1..types
    /\ loader \in [Ids -> Threads]
    /\ chain \in [Buckets -> SUBSET (1..used)]
    /\ owner \in [Entries -> Threads \cup {Nobody}]
    /\ count \in [Entries -> 0..MaxIds]
    /\ block \in [Entries -> 0..MaxIds]
    /\ slot \in [Entries -> [Ids -> Slots]]
    /\ tls \in [Threads -> 0..used]
    /\ mutex \in Threads \cup {Nobody}
    /\ pc \in [Threads -> Labels]
    /\ arg \in [Threads -> 0..types]
    /\ entry \in [Threads -> 0..used]
    /\ ptr \in [Threads -> 0..MaxIds]
    /\ todo \in [Threads -> SUBSET (Ids \cup Entries)]
    /\ calls \in 0..MaxCalls
    /\ phase \in {"running", "shutdown", "down", "lost"}
    /\ used \in 0..MaxEntries
    /\ dead \subseteq Entries \X Ids
    /\ again \subseteq dead
    /\ got \subseteq Slots \cup {"moved", "dead", "foreign"}

\* What ts_resource_ex returns is an instance of the thread's own, constructed and
\* not destructed, although it reads its entry without the mutex while other threads
\* enlarge it, free ids and come and go in the same bucket.  The exception is the one
\* the code accepts: the array is reallocated between the two loads of a read.
Own == got \subseteq {"made", "moved"}

\* Between two holders of the mutex, an entry is in the bucket of its thread, which
\* has no other; it has a slot for every id that ts_allocate_id has not failed to give
\* a type, constructed unless the id is done, and for no other id: an id that is
\* counted without a type leaves the entries as they were, and no entry is made after
\* it.  Thread-local storage is nothing or the thread's linked entry.
TableSound ==
    /\ \A b \in Buckets : \A e \in chain[b] : owner[e] \in Threads /\ Hash[owner[e]] = b
    /\ \A e, f \in Linked : owner[e] = owner[f] => e = f
    /\ \A th \in Threads : tls[th] # 0 => tls[th] \in Mine(th)
    /\ Free => \A e \in Linked :
         /\ count[e] = types
         /\ \A id \in Ids : slot[e][id] = IF id > types THEN "beyond"
                                         ELSE IF id \in done THEN "null" ELSE "made"

\* No instance is destructed twice, by whatever way its entry or its id goes, and
\* none is left when tsrm_shutdown has returned - but where an allocation had failed:
\* tsrm_shutdown then frees them without their destructors.
DestructedOnce ==
    /\ again = {}
    /\ phase = "down" /\ HasTypes => Instances(Entries) \subseteq dead

\* Every call returns, the one whose allocation fails too: no path leaves the mutex
\* locked.  The exception is what is undefined after that.
Served == \A th \in Threads : pc[th] # "idle" ~> pc[th] = "idle" \/ phase = "lost"
=============================================================================
