# Verification of the PHP 5.3.3 / PVM engine

The repository is PHP 5.3.3 turned into "PVM": a PHP engine that runs a script
a second time, with taint marks on the request data, to see whether external
data reaches watched functions (`ext/pwatch`, `sapi/pvm`).  Everything else is
the PHP 5.3.3 source.  This directory holds TLA+ models of parts of it, TLC
configurations that check them on small instances, and TLAPS proofs.

Run from this directory: `tlc -config X.cfg M` for the runs below, and
`tlapm M.tla` for the modules `GcTraversalProofs`, `ZendGcSteps`,
`ZendGcProofs`, `TsHashProofs`, `ObjectsStoreProofs`, `SessionFilesProofs`,
`TsrmProofs` and `RequestShutdownProofs`.

## 1. Inventory

For each component: the state it keeps, its operations, whom it talks to, what
is hard about it, and what makes it correct.  `PROJECT.json` lists the same
components with their status, and under "hazards" the places in the code where
something can go wrong that a test would hardly reach.

| Component | State | Operations | Interacts with | Hard behaviour | Correct if | Model |
|---|---|---|---|---|---|---|
| Cycle collector, marking passes (`Zend/zend_gc.c`) | refcounts, two colour bits and a root-buffer address per zval and store object, list of roots, free list | `gc_mark_roots`, `gc_scan_roots`, `gc_collect_roots` and their recursive visits | refcounts of everything, objects store, symbol table | shared and cyclic graphs, roots that reach each other, the recursion's order | never condemns what is reachable, condemns all garbage once, restores counts | GcTraversal |
| Cycle collector, root buffer and freeing | the buffer, its free list, `gc_active` | `gc_zval_possible_root`, `gc_remove_*_from_buffer`, destructor, destroy and free loops | every refcount decrement of the engine | a full buffer collects in the middle of a decrement; destructors run script code between condemning and freeing | nothing freed is used, buffered twice or left in the buffer; no garbage is forgotten | ZendGc |
| Objects store (`zend_objects_API.c`, `zend_objects.c`) | buckets with refcount, valid and destructor_called, free list of handles | put, add_ref, del_ref, call_destructors, mark_destructed, free_object_storage | destructors (script code), bailout, collector, request shutdown | destructors that resurrect, create, exit; nested del_ref; shutdown in two loops | one destructor and one free per object, exact counts, no handle of one object denotes another | ObjectsStore |
| Thread-safe hash tables (`zend_ts_hash.c`) | two mutexes, reader count, the table | find, add/update, apply, copy, merge, compare, clean, destroy | TSRM mutexes, all threads of a ZTS build | lock released by another thread than the one that took it; two tables per call; clean resets the count | calls atomic, no deadlock when used in order | TsHash |
| Session files (`ext/session`, `mod_files.c`) | the directory, file contents and locks, per request id, descriptor and size | session_start, id, regenerate_id, destroy, write_close, files collector | other processes on the same directory, the client's cookies | processes race on names and on locks; files are unlinked while open; kills and failing calls | no lost update, no mixed data, no data that comes back, nobody waits for ever | SessionFiles |
| Session handlers mm, user | shared memory hash; script callbacks | same interface | session.c | mm holds one lock over each operation; user is a layer of callbacks | as above | not modelled |
| Taint tracking (`sapi/pvm/pvm.c`) | a taint mark per zval, the watch list | opcode handlers for assignment, concatenation, casts, calls | the virtual machine, `zend.h` zvals, `main.c` registration of request variables | each opcode must pass the mark on, references and arrays included | the mark follows the data flow | not modelled |
| pwatch | hook table | copies a request to the pvm process | web server, pvm | little state | - | not modelled |
| TSRM (`TSRM/TSRM.c`) | per-thread storage table, id table, thread-local pointers | allocate_id, ts_resource_ex, free_id, free_thread, free_worker_threads, shutdown | all threads; module loading and unloading | storage is read without the mutex while others enlarge, construct and unlink | a thread finds its own, complete storage; one destruction per instance | Tsrm |
| Hash tables (`zend_hash.c`) | bucket chains, global list, internal pointer, nApplyCount | add, delete, apply, copy, sort | all of the engine; callbacks that change the table | deletion while the table is walked | chains and list agree | the walks of the request end, in RequestShutdown |
| Memory manager (`zend_alloc.c`) | segments, free blocks, limit, reserve | alloc, free, realloc, shutdown | all of the engine, bailout on overflow | size arithmetic, memory limit reached inside the error path | blocks disjoint, sizes add up | not modelled |
| Output buffers (`main/output.c`) | stack of buffers, ob_lock | start, end, flush, clean, handlers | script callbacks, request shutdown | handlers that print, or do not return | output in order, nothing lost | OutputBuffers |
| Request life cycle (`main.c`, `SAPI.c`, `zend_execute_API.c`) | phase, bailout address, shutdown functions | startup, execute, shutdown steps | all of the above | a bailout in any step, each step in its own `zend_try` | every step runs, and ends | the shutdown: RequestShutdown, ObjectsStore |
| Resource lists, INI entries | refcounted handles; modified entries | insert, delete, destroy; alter, restore | destructors, request end | destructors that delete others | restored and freed once | RequestShutdown |
| Streams and filters | read buffer, filter chain | read, write, seek, append/remove filter | wrappers | mostly I/O | - | not modelled |
| Parser, scanner, virtual machine, bundled libraries, other SAPIs, build files | | | | generated or vendored code, glue | - | not modelled |

How they interact: every refcount decrement of the engine may reach the
collector (a possible root) and, for object zvals, the objects store; the store
calls script code, which can call anything, and any of it can leave by
`zend_bailout`, a `longjmp` to the innermost `zend_try`.  Request shutdown calls
the components in a fixed order, each under its own `zend_try`.  Sessions add
other processes, TSRM and the ts tables add other threads.

## 2. Plan

Written so far, the most central behaviour first:

1. `GcTraversal` with `GcCycle` and `GcTraversalProofs`: the collector's passes;
   refinement of a one-step collection, safety and refinement proved.
2. `TsHash` with `TsHashAtomic` and `TsHashProofs`: the readers-writer lock;
   exclusion and the refinement of an atomic table proved.
3. `ObjectsStore` with `ObjectsStoreProofs`: the store, destructors and its part of
   the shutdown; safety proved.
4. `SessionFiles` with `SessionFilesProofs`: processes on one session directory;
   safety proved.
5. `ZendGc` with `ZendGcSteps` and `ZendGcProofs`: the collector at work.  One step of it is a whole
   run of the passes, so that what is proved of them in 1 is used and not repeated;
   safety proved.
6. `Tsrm` with `TsrmProofs`: per-thread storage; safety proved.
7. `OutputBuffers` and `RequestShutdown`, which composes the buffers with the
   script, the symbol table, the resource list and the steps of the shutdown;
   with `RequestShutdownProofs`: safety proved.

Open, in the order of their worth:

1. `ZendGc` with the end of the request, as in `ObjectsStore`, and with `gc_enabled`
   switched by the script.
2. `ZendHash`: the callbacks that change a table under `zend_hash_apply`, the
   internal pointer, and `nApplyCount`.

Abstract specifications: `GcCycle` and `TsHashAtomic`.  Liveness stays with TLC
throughout.

## 3. What is modelled

### GcTraversal: `zend_gc.c` 269-643 and the first half of `gc_collect_cycles`

The heap is a graph: `kids[n]` lists what a zval or a store object refers to.
With that reading a pair of functions `zval_X` / `zobj_X` is one visit of a node
(`VisitGrey`, `VisitBlack`, `VisitScan`, `VisitWhite`), and the C recursion,
`goto tail_call` included, is a stack of frames; a step is one iteration of a
loop over elements (`MarkElement`, ...), over roots (`MarkRoot`, ...), or a
return.  `rc` is the refcount, `color` and `addr` are the two halves of the word
`u.buffered`; keeping them apart shows where the code compares the whole word
(zend_gc.c:546) and where only the colour.  `ext` counts references the passes
cannot follow.  `suspects` and `cut` are history variables.

Init is any heap of `Heaps` with exact refcounts, and any set of purple nodes
in any order as the roots; nodes that are purple without an address are what a
full buffer leaves behind.  Details worth knowing: `$GLOBALS` is never counted
down and its elements are not followed, except by `zval_collect_white`, which
does not test for it (`Weight`, `Last`); store objects do not get their
references back in the last pass (`RestoredWeight`), which is what the destroy
loop relies on.

Left out: objects without `get_properties` and invalid handles are counted in
`ext`; the destructors and the freeing loops come after the modelled part.

`GcCycle` states what a collection is for: one step that frees exactly the
zvals among the suspects that nothing outside reaches.

### TsHash: `zend_ts_hash.c`

A thread runs an operation: the tables it read-locks, the one it write-locks and
whether it is a clean.  `Find`, `Update`, `Copy`, `Compare` and `Clean` build the
shapes that the functions of the file have; a step is a mutex call, a change of
the counter, or an access to half of a table's contents (the plain `zend_hash`
calls are not atomic).  Mutexes have no owner, as the last reader unlocks what
the first one locked.  `Reset` is `ht->reader = 0` of zend_ts_hash_clean under no
lock; when it meets `++` or `--` of another thread the write may be lost, so the
outcome is a choice.  `reader` wraps at `ReaderMod` in place of 2^32.

Left out: init, destroy and graceful_destroy (no locking against users; see the
hazards).

### ObjectsStore: `zend_objects_API.c`, `zend_objects.c`, request shutdown

The C stack is explicit (`stack`, innermost frame first), because del_ref runs
script code in the middle: a destructor may create objects, copy and drop
references, store `$this`, `exit`, or fail.  `Bailout` cuts the stack down to the
innermost frame with a `zend_try`; what the frames in between were going to
release is counted in `lost`.  Shutdown follows php_request_shutdown:
shutdown_destructors (`RemoveSymbol`, then `CallDestructor` over the store, or
mark_destructed after a bailout), the symbol tables, free_object_storage.
`gen` numbers the memory blocks of the store: a frame remembers the one its
pointer is into.  A step that would write through a pointer into an older block
sets `stale` and ends the behaviour: nothing is claimed about what follows.

Abstractions: every reference is a zval of its own (no sharing between
variables); variables are global ones, so that they survive a bailout until the
symbol table goes; each class has a destructor, which may do nothing; an exception
is a return from the destructor.  Left out: clone_obj, proxies, classes
with their own storage handlers.  The bounds are `MaxSteps` statements, `MaxObjs`
objects and `MaxVars` variables per object.

### SessionFiles: `session.c` and `mod_files.c`

Each request is a process; `req[p]` holds its `PS(...)` and `ps_files`, and `at` is
where it is.  A step is a system call (`Open`, `Lock`, `Read`, `Unlink`, `Access`,
`Truncate`, `Pwrite`, `Close`, and the collector's stat and unlink), or a call of
the script that makes none.  Inodes are kept apart from the names of the
directory, as in the file system: an unlinked file lives while it is open, locks
belong to inodes, and a freed inode is used again.  Any process can be killed at
any step (`Crash`: its descriptors are closed).

Each of the system calls in `Faulty` may fail at any time, and what the code does
then is modelled:

* open (`OpenFails`): the session starts empty, or is not saved.
* fstat and pread, the short pread included (`ReadFails`): s_read returns FAILURE with the
  file open and locked, and the session starts empty; where fstat failed, `st_size`
  is still what it was.
* unlink (`Unlink`): the file is still there, and `Access` finds it.
* ftruncate (`TruncateFails`): nobody looks at the result, and pwrite goes on over the
  longer data.
* pwrite: it writes nothing (`PwriteFails`), or less than it was asked to
  (`PwriteShort`), and what it wrote stays, in front of the end of what was there.

Session data is a sequence of entries named after the request that added them:
length, origin and what is left of an overwritten file all show.  What a script
does to `$_SESSION` is local to the process and is a choice made when it is
saved (`Edited`: one entry more, or nothing, which is also what a failing encoder
makes s_write write).  Clients present any id ever issued, or none.  The stored
session is older than gc_maxlifetime, and whether the collector runs is a choice; a
request does not last long enough for another to become so old.

History: `whole` is what the last s_write that wrote at all meant to write (nothing,
once the file is truncated); `torn` says whether that s_write may have left the end of
older data in the file; `blind` whether a request that had not read the file ever
wrote it; `owners` has the entries added to the session while it was in this file.
Of a request, `src` is the inode whose size s_read knows, `saw` what was in it, and
`kept` whether the ftruncate of the s_write in progress failed.

`Whole` says that a file holds what one s_write has written or the beginning of it.
It excepts the s_writes that do leave a mixture (`torn`): of a request that had not
learnt the size of the file, because its fstat or its open had failed or because it
writes another file than it has read; one whose ftruncate failed; and one whose
pwrite stopped before the end of what was there.  None of these can be left out, and a
mixture does not last: `torn` is about the last s_write only, so `Whole` also says that
the next save that is none of these removes what an earlier one left.

Left out: a failing flock (its result is not looked at either; such a request goes on
without a lock, and nothing of what is checked here would hold), failing stat,
access and close, interrupted calls, ids with illegal characters, session_decode,
cookies and URLs, the other save handlers, and what happens when `exit()` inside an
explicit session_write_close() is swallowed and the script goes on.

### ZendGc: the root buffer and the freeing loops, with a script around them

A script, and the destructors it defines, make arrays and objects, alias, store,
fetch, unset and remove them, and call `gc_collect_cycles()`.  Every decrement goes
through `DropReference` (zval_ptr_dtor), object zvals on to `DelRef...`
(zend_objects_store_del_ref_by_handle_ex), and what keeps references to
`...PossibleRoot`: `NotARoot`, `RecordRoot`, or `BufferFull`, which collects and
continues in `ResumeRoot` - with a zval and a handle it held across the
collection.  A collection is `Passes` (one step: condemn what the roots reach and
only the roots reach), then one step for each destructor called, for the element
tables given up, and for the list freed.  The C stack is explicit, so a
destructor's script can collect inside the collection: gc_active is cleared
before the destructors run.

The node's word `u.buffered` is the pair of `addr` and membership in `purple`,
as in `GcTraversal`.  `lost` collects the nodes for which `gc_*_possible_root` found no
entry in the end; they stay purple, are not recorded again until a pass paints
them black, and leak until the request's end.  It also has the objects that a pass
takes for referenced because it subtracts references a second time
(`Miscounted`): the references of a listed object zval are gone for good, but while a
destructor runs, the zval can still be reached, and a collection that reaches it
counts its object down again (`obj->refcount--`, zend_gc.c:351).  That takes fourteen
statements, more than the run has; the proof of `GarbageKnown` found it.  `beyond` ends a behaviour where
the program's is undefined or was not followed further:

* "revived": a destructor made garbage reachable that is no object; the free loop
  frees it in use.  Reachable.
* "condemned twice": a collection inside a collection condemns elements that the
  outer one has condemned already.  Reachable.
* "buffered twice": one zval in two entries.  Needs a buffer of two and more steps
  than the run has.
* "walked a table under destruction".  Not reached within the bounds.
* "used a freed object": a listed object zval, read by a destructor, leads to an
  object that is already freed, and the script stores into it.  Needs a longer
  script than the run has.

`Reach` is stated by closed sets, without recursion, so that it can be reasoned
about.  `Revived` asks whether a listed zval has references that come neither from
the list nor from an object that goes with the list.

Abstractions: every variable, element and property is a PHP reference, so that
arrays can be cyclic and nothing is separated on write; loops over a list or a
table take their elements in any order; bailouts are left to `ObjectsStore`, and
`gc_enabled` is on.  Left out: `$GLOBALS`, value copies, the store's reallocation
(`ObjectsStore`), the request's end.

### Tsrm: `TSRM/TSRM.c`

Threads run `ts_resource` (`Fetch`, then `Found` or `AllocateNew` with `Construct`, then
the two loads of TSRM_SAFE_RETURN_RSRC), load a module (`AllocateId`, or `AllocateIdFails`; `Enlarge` for
each entry), unload it (`ts_free_id`), leave (`FreeThread`) or end without a word
(`EndThread`; a later thread has the same id).  Main shuts the modules and TSRM down
(`FreeWorkerThreads`, `ModuleShutdown`, `Shutdown`) once the others have ended.  A step
is what a function does under the mutex up to where a reader without the mutex
can tell the difference.

A bucket is a set of entries: the order of a chain only decides how long a search
takes.  `slot[e][id]` is "beyond" the array, "junk" (allocated, not constructed),
"made" or "null".  `block[e]` counts how often realloc moved the array; `Own` excepts a
read whose array moves between its two loads, which the comment at TSRM.c:333-336
leaves to the caller.  ts_free_thread and ts_free_worker_threads call the
destructor of a freed id, with NULL; that is not counted as a destruction.
ts_free_worker_threads looks at the caller's bucket only, where its comment
(TSRM.c:483) speaks of all threads; tsrm_shutdown frees what is left.

The realloc of the table of types may fail (`AllocateIdFails`, TSRM.c:228-235).  The
mutex is unlocked and 0 returned, but the id has been counted already and the
table is NULL: `id_count` then runs ahead of `types`, the number of ids that got a type.
Threads go on reading the instances they have; that these stay right, and that no
entry is made or changed any more, is part of `Own`, `TableSound` and `Served`.
Whatever looks into the table next reads through NULL: constructing an entry, freeing a
thread's or an id's instances (`Lost` and the actions made of it).  So does a
ts_allocate_id whose realloc succeeds after all, with types that nobody has set.  What
happens then is undefined, and the model ends there (phase "lost").  tsrm_shutdown
frees entries without the table's destructors then, which `DestructedOnce` allows
for.

In this tree the pvm SAPI has one thread; the threads of the model are those of a
host with a thread per request, for which TSRM is written.  Left out: what a module does
with the id 0 it gets for a failed allocation; the allocations of entries and of their
storage, whose results the code does not look at; interpreter contexts; utility
functions.  Constructors and destructors make no calls of TSRM.
A constructor that calls ts_resource from allocate_new_resource finds its entry in
thread-local storage, which is set before the loop (TSRM.c:282), and takes no mutex;
one that ts_allocate_id runs for all entries, in a thread that has none yet, would
wait for the mutex its caller holds.

### OutputBuffers and RequestShutdown: `output.c`, `php_request_shutdown`, `zend_list.c`

Text is a sequence of numbered pieces, so that one that is lost, repeated or
overtaken shows.  `OutputBuffers` has the stack of buffers; a write runs through the
chunked ones (`Arriving`), and what php_end_ob_buffer does before and after the
handler's call is two operators.  `RequestShutdown` puts the script between them.
Script code runs in the main script, shutdown functions, destructors, output
handlers and RSHUTDOWN; it prints, starts, flushes, cleans and ends buffers, sets
and unsets variables, opens resources that use one another, changes an INI
entry, registers shutdown functions, exits.  `After` is the order of the steps of
php_request_shutdown, and a bailout goes on with the step after the one it left.

What the code does and the model keeps:

* After a bailout inside a handler `ob_lock` stays set, and a later ob_start forgets
  all buffers with its E_ERROR (`gone`).
* A bailout in step 3 leaves the other buffers unflushed (`flushCut`); buffers
  started from step 5 on are never flushed (`late`); `CleanEnd` allows both.
* A bailing RSHUTDOWN skips those of the other modules; shutdown functions
  registered by destructors are never called.
* `zend_destroy_rsrc_list` runs outside any zend_try with the timer on: a fatal error
  there leaves the shutdown altogether (phase "aborted", reachable).
* In shutdown_destructors a destructor may unset the variable whose bucket
  zend_hash_reverse_apply goes to next: it walks a freed bucket.  The behaviour
  ends there (`beyond`, reachable).
* The pvm SAPI calls php_request_shutdown at pvm.c:4519 only; after
  php_execute_script it goes on to php_module_shutdown.

Abstractions: display_errors is on, so that a fatal error prints; a handler
returns the text it was given, or FALSE, and what it prints itself while it returns a
string is lost with its buffer.  Left out: handlers that end or flush buffers
(nothing stops their recursion), handlers of chunked buffers (`KindsAssumption`),
HEAD requests, headers, the drop at the memory limit, disable_output, the persistent
list.

### Not modelled

* Taint tracking: the opcode handlers of pvm.c are sequential and keep no state
  but the mark; a model would repeat them one by one, against a reference that the
  repository does not state.
* The memory manager: its properties are about exact sizes at machine width.
* Session handlers mm and user: mm locks its table for the whole of each operation,
  so requests do not interleave inside one; user is a layer of callbacks.
* Streams, pwatch: I/O with little state.  Exceptions are a return in
  `ObjectsStore`.  Parser, scanner, virtual machine, bundled libraries, build
  files: generated or vendored code, or glue.

### What the properties do not catch

Some hazards of the list are only named.  Where the program's behaviour is
undefined or a model was not followed further it stops: `beyond` in `ZendGc` (a zval
that a destructor revived, a zval buffered twice, objects condemned twice) and in
`RequestShutdown` (a walk into a freed bucket), phase "lost" in `Tsrm`.  That these
are reachable is known from TLC or argued above; that they do no harm is not
claimed.  Some properties except what the code accepts or does not promise:
`GarbageKnown` what is in `lost`, `Own` an array that moves between the two loads of a
read, `StuckOnlyByMisuse` tables cleaned in use, `InOrder` the text in `gone`, `CleanEnd` a
shutdown that was left ("aborted") and what `flushCut` and `late` name, `Whole` the
saves in `torn`.  Nothing is said of the data lost with a session file that was
collected or destroyed while in use, of readers that never stop coming, or of wording
such as the warning at session.c:286.  The "hazards" of `PROJECT.json` say so entry by
entry.

## 4. Runs

| Run | Instance | Shows | States |
|---|---|---|---|
| `gc_heaps` | 2 interchangeable zvals, `$GLOBALS`, 1 store object, at most 3 references, outside counts 0 and 1 | `TypeOK`; `OnlyGarbage`: nothing reachable is condemned; `NoDoubleFree`; `CountsRestored`: refcounts are what the destroy loop needs; `HeapCleaned`: no colour or address left | 3.3 M |
| `gc_cycle` | 2 zvals, 1 store object | `Terminates` under weak fairness of the one sequential process; `CycleSpec`: refinement of GcCycle, so all garbage of the suspects is found | 0.2 M |
| `ts_hash` | 3 threads, 2 tables, finds, updates, compares both ways, copies one way, one call each | `AtomicSpec`: refinement of TsHashAtomic; `AllServed` | 0.3 M |
| `ts_hash_misuse` | 4 threads, also clean in use, copies both ways and onto itself | `Exclusion` holds even so; `StuckOnlyByMisuse`: a deadlock has one of two causes | 0.5 M |
| `objects_store` | 3 objects, 7 statements, 2 variables per object, a store that starts with 2 usable buckets and must grow | `CountsExact`, `NoDangling`, `FreeListSound`, `NoDanglingRoot`, `Complete`, `OnceOnly` | 0.8 M |
| `objects_stale` | the same | violation, see below | |
| `zend_gc` | 2 interchangeable variables, 4 zvals, 2 objects, a buffer of 1 entry, 9 statements | `CountsExact` and `NoDangling`, also inside nested collections; `RootsSound`: buffer and nodes agree; `GarbageKnown`: what is unreachable hangs on a root or is in `lost`; `DestructedFirst` | 0.7 M |
| `tsrm` | 3 threads, 2 of them in one bucket, 1 id at start, 3 ids, 4 entries, 4 calls, realloc of the types failing | `Own`: a read returns the thread's own live instance; `TableSound`: entries are in their buckets, with a right slot for each id that has a type; `DestructedOnce`; `Served`: every call returns | 0.2 M |
| `request` | plain, chunked and handled buffers, 2 levels, 2 variables, 2 resources, 6 statements | `InOrder`: no output lost, repeated or overtaken; `ResourcesSound`; `CleanEnd`: the shutdown completes; `Ends` | 0.5 M |
| `session` | 2 requests, 3 and 1 session calls, 2 ids; fstat, pread, unlink, ftruncate and pwrite failing | `Serial`: no lost update on a file; `Whole`: no mixture but after the three kinds of save named above; `OwnData`: nothing moves between sessions or comes back | 2.2 M |
| `session_served` | 2 and 1 session calls; open, fstat and unlink failing | `Served`: every request ends | 0.6 M |
| `session_mixed` | as `session`, with open failing and nothing else | violation, see below | |

Each passing property has a mutant in `PROJECT.json`: a changed definition, kept
in the module next to the original (`Mut...`), under which TLC refutes it.

Why the bounds are enough: three nodes and three references give self-loops,
two-cycles, shared children, a root that reaches a root, a cycle through a store
object and through `$GLOBALS`; what goes beyond is covered by the proofs, for every
property of these runs but `Terminates`.  For the reader count, two
readers and a writer are the least that separate first and last; the fourth
thread lets two copies cross while a clean runs; `Exclusion` and `AtomicSpec` are
proved beyond that.  Three objects allow an object,
its property and a third one that takes the freed handle or makes the store
move.  Two requests are the least that race on a file; the second one's unlinked
file, reused names and reused inodes all occur with them.  Races in which three
requests take part at once are not explored by TLC; the proofs cover them.  Which
calls fail is split between the runs to keep each short: `session` has those that
decide what is in a file, `session_served` those that decide which file is waited for
and where a request goes on.  All failing together pass in the instance of `session` too
(5.6 M states), and the proofs are about any set of failing calls.

A root buffer of one entry makes nearly every decrement collect, so that
collections in the middle of a decrement and inside a collection happen within
nine statements; two objects and two more zvals give a cycle that a destructor
gives away and a second one to collect meanwhile.  With a 10th statement the run
(2.3 M states) passes too, and what goes beyond is proved.  In `tsrm`, four calls let two threads fetch while a
third loads and unloads; with five and without `Served` (1.9 M) it passes too, and
what goes beyond is proved.  In `request`, two buffers are the least that pass
text on, two resources the least where one uses another; a 7th statement, without
`Ends` (1.9 M), passes too, and what goes beyond is proved.

Fairness: the collector is one sequential process (`WF_vars(Next)`).  Threads and
processes that can run do run (`WF` per thread or process); nothing is assumed
about which of several waiting ones gets a mutex or a file lock, and the bounded
number of calls is what makes that enough.  In `tsrm` a call that has begun goes on
(no thread is stopped in the middle of one), and nobody has to begin one.  Scripts
are assumed to end; in `request`, script code need not take any of its steps but
returns in the end (`WF_vars(SystemStep)`), which max_execution_time sees to.

### Disagreements found

* `objects_stale`: `obj->refcount--` (zend_objects_API.c:230) uses the pointer that
  was read again before `free_storage` ran.  free_storage destroys the
  properties; a destructor run by that may create objects and move the store.
  The comment at line 213 gives this very reason for reading the bucket again
  after the first destructor.
* `session_mixed`: `ftruncate` depends on `st_size` of the file that was read
  (mod_files.c:401), but the file written may be another one, or the first open
  may have failed.  Old data then stays behind shorter new data.  The run lets no
  other call fail, so that this is not about a failing ftruncate or a short pwrite.
  `Whole` and `OwnData` say what does hold: `Whole` excepts the save that leaves the
  mixture (`torn`), `OwnData` files that were ever written unread (`blind`).

## 5. Proofs

### GcTraversalProofs

It proves, for every set of nodes, every heap of finite graphs,
any outside counts, any roots:

* `TypeCorrect`: `Spec => []TypeOK` - among others, no refcount becomes negative.
* `Safety`: `Spec => []OnlyGarbage`.
* `NoDoubleFreeHolds`: `Spec => []NoDoubleFree`.
* `Cleanup`: `Spec => []HeapCleaned`.
* `CountsHold`: `Spec => []CountsRestored`.
* `Refinement`: `Spec => CycleSpec` - the three passes implement the one-step
  collection of GcCycle, so all garbage of the suspects is found.

The first four follow from `Invariance`: `Spec => []IInv`.  `OnlyGarbage` speaks only of the
end, so it is not inductive; the invariant says, pass by pass, which slots (places
that hold a reference) are counted down - the history variable `cut`.

* `TypeInv`, `FrameInv`: types, and which frames and lists each pass can have.
* `RefInv`: a refcount is the outside count plus the number of slots that are not
  cut.  It ties numbers to a set, so that arithmetic is confined to one lemma about
  cardinalities (`CutCounts`) and everything else is about sets.
* `MarkInv`: exactly the slots of grey nodes are cut, or still ahead of a frame;
  a node that is not grey still has references.
* `ScanInv`: a slot is cut only under a grey or white node, or under a black one
  whose frame is about to count it again; so a white node has no reference from
  outside the graph or from a black node.
* `CollectInv`: white nodes and condemned ones are referred to only by such nodes;
  what is on the list is black and is there once.

That a pass leaves nothing unvisited is said without paths: every non-empty set
of unvisited nodes has a member that a root, a frame or a node outside the set
still leads to.  Each part has one lemma per action, and `Inductive` combines
them; `LiveNotDoomed` then turns the closed set of condemned nodes into
`OnlyGarbage`.

`CountsHold` needs more about the collect pass, where a condemned zval holds one
reference of the collector's and the slots of visited nodes are counted again one by
one.  `CutInv` says what is still cut: every slot of a white node, every slot a frame
has ahead of it, and every slot of a condemned node that refers to a store object,
unless it leads to `$GLOBALS` - and nothing else.  With every count exact for the
slots that are not cut (`Counted`), what is cut in the end are the references that
die with their holder.  `CutVisit` does this for one visit.

`Refinement` has a sound and a complete half.  `SuspectInv`: the passes paint
nothing outside the part of the heap that the suspects lead to.  `TrapInv`: take any
set of suspected nodes, without `$GLOBALS`, that has no reference from outside the
set; it is all grey or white when the mark pass is over, the scan pass finds no
reference in it that is not cut, so none of it turns black, and the collect pass
condemns all of it.  The garbage of GcCycle is defined by closed sets; the
complement of such a set is a set of this kind (`CondemnedIsGarbage`).  All other steps
stutter.

The proofs use the module's assumptions only: zvals and objects are different,
`$GLOBALS` is a zval, there are finitely many nodes and slots, outside counts are
natural numbers.

### ZendGcSteps and ZendGcProofs

They prove, for any number of variables, zvals, objects, buffer entries and
statements:

* `TypeCorrect`: `Spec => []TypeOK`.
* `CountsHold`: `Spec => []CountsExact`.
* `NothingDangles`: `Spec => []NoDangling`.
* `RootsHold`: `Spec => []RootsSound`.
* `DestructedFirstHolds`: `Spec => DestructedFirst`.
* `GarbageStaysKnown`: `Spec => []GarbageKnown`.

All but the last follow from `Invariance`: `Spec => []IInv`, where `IInv` is `TypeOK` and, as
long as the behaviour says something about the program, `Inv`:

* `Shape`: which frames can be where on the C stack.  A frame is addressed by its
  height (`Fr`), so that what is below a call keeps its name while the call runs.
* `HeapInv`: the counts of `CountsExact` and the facts of `NoDangling`, with the
  references of frames counted by height, and what may be null: only what a
  destroy loop has passed (`NullsOK`).
* `FrameInv`: what frames work on is still there: a held object is valid, an object
  under destruction has one reference left and was destructed, a possible root that is
  a zval is an array.
* `DyingInv`: a zval being freed has no reference, no elements and no entry in the
  buffer, and its object is released before it.
* `ListInv`: free lists are disjoint and their zvals not buffered; an object without
  references is one that an unfinished list will destroy (`Pending`); before
  the destroy loop every object of the list was destructed (`CalledFirst`).
* `SealInv`: the heart of the matter.  Once the passes have condemned a list
  (`Sealing`: before the first destructor, and again from the destroy loop on),
  only the list itself and the objects that go with it refer to it: no variable, no
  other element, no other frame.  Between those two moments destructors may break
  this; `Revived` is the question the code does not ask there.
* `BufInv`: `RootsSound`.

`CountsExact` is not inductive without `SealInv`: the free loop frees zvals without
looking at their counts.  And `SealInv` rests on `CountsExact`: the passes conclude
from counts that nobody else refers to the list (`PassesStep`).  `Sealing` stops at
the first destructor; a nested collection must leave the lists of the outer ones
alone, which it does because their zvals have one reference more than there are.

Each step is proved through a few general lemmas on what a stack with one frame
pushed, popped, replaced or doubled contributes (`Parts`) and counts (`CountIn`).
The only assumption is the module's: finitely many variables, natural bounds, a
buffer of one entry at least.

`GarbageKnown` is a statement about every path in the heap, and each step changes
paths.  It follows from `KnownInvariance`: `Spec => []KInv`, which adds to `IInv`,
again as long as the behaviour says something about the program:

* `Cover`: every non-empty set of live nodes has a root in it, or an edge into it
  from a live node outside.  Applied to what neither the variables nor the known
  nodes reach, it says that there is no such node (`AllKnown`); applied to what a
  step cuts off, it leads back to an edge or a root that the step took away, so
  that no proof has to follow a path.  The roots (`Roots`) are the variables, what the
  frames have in hand (`Names`, `Handing`), the buffered nodes and `lost`.  The edges
  (`Leads`) are the elements and, for an object zval, its object; the edge of a
  listed or dying one is worth nothing, because its count has been taken off the
  object, until the destroy loop finds the object without references (`Garbage`).
* `PurpleRoots`: a purple node is in the buffer, was given up, is dying, is about to
  be put in the buffer or has its storage freed.  gc_*_possible_root returns early for
  a purple node, and rightly so only because of this.
* `FramesFit`: a root on its way into the buffer is still referred to by the zval it
  came with (`NamesFit`); del_ref skips the search for a root only where it frees the
  object (`DropsFit`); and a destructor that a collection has called makes its object
  a possible root when it returns, so that the collection may drop its own
  reference without a look (`ReturnsFit`).

The hardest step is `Passes`: the buffer is emptied, so that every suspected node
loses its root, and the references of listed object zvals are gone.  `PassesCover`
takes a set that would then be uncovered.  It lies within the suspected nodes.  No
node of it can be one whose count differs from what the pass found (`AnchoredZval`,
`AnchoredObj`): such a node has a reference from elsewhere, which is a root or an
edge that stays, or it was counted down twice (`Miscounted`, hence in `lost`).  What
is left is white: its zvals are on the list and so in hand, and its objects hang on
listed zvals, which will take them along.

### TsHashProofs

It proves `ExclusionHolds`: `Spec => []Exclusion`, for any number of threads, tables
and calls, and any operations of the shapes that `OpsAssumption` allows, among them
cleans in use, crossing copies and nested read locks of one table.

Exclusion is the work of `mx_writer`, and the counter only decides who locks and
unlocks it.  `IInv`, which `Invariance` proves, says so:

* `PlaceInv`: how many read locks a thread has at each place of the code.
* `InsideInv`: one thread at a time is between the lock and the unlock of a table's
  `mx_reader`.
* `WriterInv`, `SettledInv`: a writer has `mx_writer` alone; where a read lock is
  complete, `mx_writer` is locked and nobody writes (`Kept`).
* `LastInv`: a reader about to unlock `mx_writer` is the only one.
* `CountInv`: `reader` is the number of read locks (`Exact`), or zend_ts_hash_clean
  reset it in use (`LostCount`).  In that case it is too low from then on, counted
  modulo its width: it comes to 0 only by a reset, never by a decrement, so that no
  reader unlocks `mx_writer` any more; a reader that brings it up to 1 waits for
  ever.  The reset costs liveness (`StuckOnlyByMisuse`), not safety.

`Steady` collects what most steps leave alone, so that only the four steps that
change the counter or complete a read lock have to be followed through the sets.
The proof needs `ReaderMod > 2 * Cardinality(Threads) + 1`: a 32-bit counter is
enough for two billion threads, each of which has two read locks at most.

The second half of the module proves, under the same assumptions:

* `Refinement`: `Spec => AtomicSpec`, the detailed specification implements
  TsHashAtomic: a call takes effect in one step between its begin and its return.
* `TypeCorrect`: `Spec => []TypeOK`.

The step is the last half of a table that the call reads, or the last one that it
writes; every other step of TsHash is a stutter of TsHashAtomic.  That this is so
needs, next to `ExclusionHolds`, what the threads know of the contents (`WorkInv`,
proved by `WorkInvariance`): what a thread has read is still what its tables contain
(`SeenInv`), and only a writer that is half-way through leaves the halves of a
table different (`HalfInv`, `WholeInv`).  `Locking` covers all steps that touch no
contents at once.

### ObjectsStoreProofs

It proves, for any number of objects and statements, any nesting of destructors and
a bailout out of any of them:

* `TypeCorrect`: `Spec => []TypeOK` - no refcount becomes negative, and the store
  grows before it is full.
* `ExactCounts`: `Spec => []CountsExact`.
* `NothingDangles`: `Spec => []NoDangling`.
* `FreeListHolds`: `Spec => []FreeListSound`.
* `RootsHold`: `Spec => []NoDanglingRoot`.
* `DestructedAndFreedOnce`: `Spec => OnceOnly`.
* `ShutdownCompletes`: `Spec => []Complete` - a request whose shutdown nothing bails
  out of has destructed and freed every object made before it, cycles included.

None of them is inductive, and they need each other.  A handle may be given to a
new object only if no zval of the old one is left; that is known of a handle on the
free list because its refcount was 0 and exact; it stays exact because the handle
of a zval still leads to its own object.  `Refs(o)` - the zvals of `o` in variables,
properties and C frames, and those a bailout abandoned - is what the invariant
`Sound` speaks of:

* `Shape`: the C stack is one step of the request and above it frames of del_ref.
  Where a frame of the bottom is about freeing there is nothing above it, except
  above the one that destroys an object's properties.
* `CallsInv`: what a suspended frame relies on: the destructor's caller finds the
  bucket still its object's, the loop of call_destructors has its cursor on the
  object it called, the loop of free_object_storage is inside the store.
* `CreatedInv`, `BucketInv`: there are no more buckets than objects, and a bucket
  leads to its last object, whose handle leads back.
* `CountInv`: a bucket that is its object's has `Refs` as its refcount; an object
  that lost its bucket is freed and has no zval.
* `ValidInv`: storage that was freed is that of an invalid bucket, or of one being
  freed; where destructor_called is not set, the object was not destructed.
* `FreeingInv`: while an object's storage is freed, `Refs` is exactly 1, the zval in
  the hands of the frame that frees it.  So no destructor run by its properties can
  get hold of it, count it or buffer it, and del_ref cannot get there twice.
* `FreeInv`: the free list, with refcount 0 in its buckets.

`SoundStep` covers every step that keeps the buckets' objects and what is being
freed: it has only to count what it does to `Refs`.  `Leaving` does the same for
returns and bailouts, which move references from frames to `lost`.  The four steps
left - put, the start and the end of freeing by del_ref, free_object_storage - have
a proof of each conjunct.  After a write through a stale pointer (`stale`) the
behaviour stops, and the invariant claims only the five properties.

`ShutdownCompletes` is the other direction: not that nothing happens twice, but that
it happens at all.  Its invariant `EarlyInv` reads the frame at the bottom of the C
stack (`Ground`), whose cursor says how far the two loops of the shutdown have come:
a bucket of an early object that call_destructors has passed has destructor_called
set (`LoopCalled`), one that free_object_storage has passed is not valid any more
(`LoopFreed`), and as long as nothing has bailed out destructor_called is set by the
call of the destructor only (`Tended`).  An object made later may get a handle behind
the cursor; an early one cannot, and its handle is not reused before it is freed.
Calls and returns leave the bottom alone, a bailout during the shutdown voids the
promise, and one of the main script only starts the shutdown (`GroundBail`).
At the end every early bucket has been passed by both loops.  Assumptions:
the store starts with at least two buckets, the bounds are natural numbers, and a
variable can hold something.

### SessionFilesProofs

It proves, for any number of requests, ids and calls, any failing system calls
and any processes killed on the way:

* `TypeCorrect`: `Spec => []TypeOK`.
* `SerialHolds`: `Spec => []Serial`.
* `WholeHolds`: `Spec => []Whole`.
* `OwnDataHolds`: `Spec => []OwnData`.

The argument is the lock: `Touches` says that a request changes only a file it has
locked, or one that nobody has open (a freed inode).  What a request knows of its own file is
then nobody else's to disturb, and `Invariance` has:

* `DirInv`, `LockInv`: a file has one name at most, and is locked by exactly the
  request that has it open and does not wait for it.
* `IdsInv`: the ids that requests in the middle of session_regenerate_id will
  make are left, so that the bound on ids never cuts a call short.
* `RequestInv`: a request that knows the size of its file still finds in it what was
  there when it learnt it; once the file is truncated, unless that failed, what is left
  is no longer than what will be written; and what it will write belongs to this session.
* `FileInv`: `Whole` and `OwnData`, of each file.

`Whole` and `OwnData` are not inductive without `RequestInv`: that a save that is not
`torn` leaves no more than it has written depends on what was compared when the file was
truncated, and that on what was read while the lock was held.  `WriteInductive`
covers the whole and the short pwrite: `OverwriteShape` says what part of the data
written over a file leaves there.  `Faulty` is any set of the six calls.

`FreeInode` shows by counting that open() always finds an inode: there are as many as
names and processes together.

### TsrmProofs

It proves, for any number of threads and buckets, any hash function and any
number of ids, entries and calls:

* `TypeCorrect`: `Spec => []TypeOK`.
* `OwnInstances`: `Spec => []Own`.
* `TableSoundness`: `Spec => []TableSound`.
* `DestructedAtMostOnce`: `Spec => []DestructedOnce`.

`Own` records what reads returned, so it says nothing of a read that is about to
happen; `TableSound` speaks of the moments when the mutex is free, and most reads
happen in others.  The invariant `IInv` says, of every state, what each slot holds
and what each thread has in hand:

* `RoomInv`: the threads that may still allocate an entry fit into the bound.
* `MutexInv`: the mutex is held exactly where an entry is constructed or enlarged.
* `ChainInv`: the chains as in `TableSound`, which hold at any time.
* `CountInv`, `SlotInv`: an entry has room for all ids that have a type but the one
  being allocated (`Small`), and each slot is right but for those still being constructed (`Raw`).
* `WorkInv`: the id a thread is asked for is in use, is not the one being allocated,
  and belongs to it or to the server, so nobody else frees it; the entry it reads
  is its own, so nobody else unlinks it.  This is what protects the readers in
  place of the mutex.
* `PhaseInv`: the shutdown is Main's alone.
* `DeadInv`: a linked entry has lost instances of freed ids only, an unlinked one all.

There is one lemma per action; `FreeIdInductive` serves both callers of ts_free_id,
`Unlinking` both ways to free an entry, and `LosingInductive` all that reads the lost
table.  An id counted without a type (`AllocateIdFailsInductive`) leaves everything
as it was, because nothing is stated of `id_count` but that no entry is made or
enlarged unless it equals `types`.  The assumptions are the module's:
Main is a thread, the hash gives each thread a bucket, there are finitely many
threads, the bounds are natural numbers.

### RequestShutdownProofs

The first part of the module is about the operators that `RequestShutdown` takes from
`OutputBuffers`.  `Flow` is about
php_body_write through any stack of plain and chunked buffers: what comes out at the
bottom, with what stays behind in the buffers, is what they held with the new text
behind it.  `Arriving` is a recursive function on the levels; where a fact about it
needs induction, the proof takes the least level at which it fails (`Least`).  Around
it stand the lemmas on ending, flushing and cleaning a buffer, as steps that keep
`OutputInv`: every buffer with a chunk size holds less than a chunk, and the client's
text followed by that of the buffers is in the order of printing and has every piece
that is not in `gone`.

The second part proves, for any number of buffers, resources, variables and statements, and a
bailout out of any script code:

* `TypeCorrect`: `Spec => []TypeOK`.
* `OutputInOrder`: `Spec => []InOrder`.
* `ResourcesStaySound`: `Spec => []ResourcesSound`.
* `EndsClean`: `Spec => []CleanEnd`.

They follow from `Invariance`: `Spec => []IInv`, with

* `ControlInv`: which frames each step of the shutdown can have: a resource's
  destructor has nothing on top of it, what RSHUTDOWN calls has nothing below it, and
  no script runs any more when the list of resources goes.
* `OutputInv`: as above.
* `HandlerInv`: at most one handler runs; its buffer is then the active one, and holds
  what the handler was given followed by what it has printed.  This is needed for
  the end of the handler, which replaces the buffer's text: it loses only what it
  notes in `gone`.  It holds because `ob_lock` refuses every operation that would
  change the stack of buffers; after a bailout the lock stays, and no handler runs.
* `ListInv`: the lists are sorted by id, an entry is destructed when it leaves the
  list and only then, and `CountsOK`: users, variables and the destructor that is about
  to release a resource together are at most what its entry counts.  `ResourcesSound` lacks the
  last of these and is not inductive without it.
* `CleanInv`: what each of the last steps leaves behind, from that step on.

The cardinalities in `CountsOK` are handled by lemmas on sets of entries
(`CountsDrop`, `Swapped`) and are carried over to the lists by the facts that ids
are unique and the order does not matter.  The assumptions are the modules': no
chunked buffer has a handler, and the bounds are natural numbers.

### Model-checked only

* `StuckOnlyByMisuse` of TsHash, which speaks of `ENABLED`.
* Every liveness property (`Terminates`, `AllServed`, `Served`, `Ends`): liveness under
  fairness is out of the prover's reach.

Induction over data is too, as a theorem with an operator for a parameter; where a
recursive function on numbers or the length of a list asks for it, the proofs argue
by the least counterexample instead, which is first-order.
