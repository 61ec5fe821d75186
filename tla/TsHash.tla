------------------------------- MODULE TsHash -------------------------------
(***************************************************************************)
(* The thread-safe hash tables of Zend/zend_ts_hash.c (ZTS builds): every   *)
(* function brackets a plain zend_hash call with a readers-writer lock made *)
(* of two mutexes and the counter `reader'.  A step is one mutex operation, *)
(* one change of the counter, or one access to half of a table's contents - *)
(* the plain zend_hash functions are not atomic for another thread.         *)
(*                                                                         *)
(* An operation is a record: the tables it read-locks, in that order, the   *)
(* one it then write-locks, and the value it writes when it copies nothing. *)
(***************************************************************************)
EXTENDS Integers, Sequences, FiniteSets

CONSTANTS
    Threads, Tables, Values,
    Ops,        \* the operations that the threads may call
    NoTable,
    Empty,      \* what zend_hash_clean leaves, one of Values
    ReaderMod,  \* `reader' is a zend_uint: it wraps at 2^32
    MaxCalls    \* bound: how many operations a thread performs

AllOps == [reads : {<<>>} \cup {<<t>> : t \in Tables} \cup {<<s, t>> : s, t \in Tables},
           write : Tables \cup {NoTable}, value : Values, clean : BOOLEAN]

ASSUME OpsAssumption ==
    /\ Ops \subseteq AllOps
    /\ NoTable \notin Tables
    /\ Empty \in Values
    /\ \A o \in Ops : /\ o.reads # <<>> \/ o.write # NoTable
                      /\ Len(o.reads) = 2 => o.write = NoTable
                      /\ o.clean => o.reads = <<>> /\ o.write # NoTable
ASSUME SizesAssumption == /\ IsFiniteSet(Threads)
                          /\ ReaderMod \in Nat
                          /\ ReaderMod > 2 * Cardinality(Threads) + 1
                          /\ MaxCalls \in Nat

\* zend_ts_hash_find and the other functions between begin_read and end_read.
Find(t) == [reads |-> <<t>>, write |-> NoTable, value |-> Empty, clean |-> FALSE]
\* _zend_ts_hash_add_or_update and the others between begin_write and end_write.
Update(t, v) == [reads |-> <<>>, write |-> t, value |-> v, clean |-> FALSE]
\* zend_ts_hash_copy, _merge and _merge_ex.
Copy(target, source) ==
    [reads |-> <<source>>, write |-> target, value |-> Empty, clean |-> FALSE]
\* zend_ts_hash_compare.
Compare(ht1, ht2) ==
    [reads |-> <<ht1, ht2>>, write |-> NoTable, value |-> Empty, clean |-> FALSE]
\* zend_ts_hash_clean.
Clean(t) == [reads |-> <<>>, write |-> t, value |-> Empty, clean |-> TRUE]

VARIABLES
    reader,     \* ht->reader
    mx_reader,  \* is ht->mx_reader locked?  A POSIX mutex records no owner:
    mx_writer,  \* the last reader unlocks what the first one locked
    data,       \* the two halves of a table's contents
    op, pc,     \* what each thread is calling, and where it is
    held,       \* how many of op.reads it has read-locked
    seen,       \* the halves it has read so far
    puts,       \* how many halves it has written
    calls,
    last,       \* history: the last operation of each thread and what it read
    dirty       \* history: tables cleaned while `reader' was in use

locks == <<reader, mx_reader, mx_writer>>
work == <<data, seen, puts, last>>
vars == <<reader, mx_reader, mx_writer, data, op, pc, held, seen, puts, calls, last, dirty>>

Idle == [reads |-> <<>>, write |-> NoTable, value |-> Empty, clean |-> FALSE]
PCs == {"idle", "reset", "beginRead", "countIn", "firstIn", "unlockIn", "beginWrite", "work",
        "endWrite", "endRead", "countOut", "lastOut", "unlockOut"}

Init ==
    /\ reader = [t \in Tables |-> 0]
    /\ mx_reader = [t \in Tables |-> FALSE]
    /\ mx_writer = [t \in Tables |-> FALSE]
    /\ data = [t \in Tables |-> <<Empty, Empty>>]
    /\ op = [th \in Threads |-> Idle]
    /\ pc = [th \in Threads |-> "idle"]
    /\ held = [th \in Threads |-> 0]
    /\ seen = [th \in Threads |-> <<>>]
    /\ puts = [th \in Threads |-> 0]
    /\ calls = [th \in Threads |-> 0]
    /\ last = [th \in Threads |-> <<>>]
    /\ dirty = {}
-----------------------------------------------------------------------------
\* Locks are taken in the order the operation names them ...
Acquire(o, k) == IF k < Len(o.reads) THEN "beginRead"
                 ELSE IF o.write # NoTable THEN "beginWrite"
                 ELSE "work"
\* ... and released in the reverse order.
Release(k) == IF k > 0 THEN "endRead" ELSE "idle"
AfterWork(o) == IF o.write # NoTable THEN "endWrite" ELSE Release(Len(o.reads))

Goto(th, label) == pc' = [pc EXCEPT ![th] = label]
Entering(th) == op[th].reads[held[th] + 1]
Leaving(th) == op[th].reads[held[th]]

\* Is a thread inside ++ht->reader or --ht->reader?
Counting(t) == \E th \in Threads : \/ pc[th] = "countIn" /\ Entering(th) = t
                                   \/ pc[th] = "countOut" /\ Leaving(th) = t

Start(th) ==
    /\ pc[th] = "idle"
    /\ calls[th] < MaxCalls
    /\ \E o \in Ops : /\ op' = [op EXCEPT ![th] = o]
                      /\ Goto(th, IF o.clean THEN "reset" ELSE Acquire(o, 0))
    /\ calls' = [calls EXCEPT ![th] = @ + 1]
    /\ seen' = [seen EXCEPT ![th] = <<>>]
    /\ puts' = [puts EXCEPT ![th] = 0]
    /\ UNCHANGED <<locks, data, held, last, dirty>>

\* zend_ts_hash_clean: `ht->reader = 0' under no lock.  A thread in the middle of
\* its own read-modify-write of the counter may overwrite it.
Reset(th) ==
    LET t == op[th].write IN
    /\ pc[th] = "reset"
    /\ \/ reader' = [reader EXCEPT ![t] = 0]
       \/ Counting(t) /\ UNCHANGED reader
    /\ dirty' = IF reader[t] # 0 \/ Counting(t) THEN dirty \cup {t} ELSE dirty
    /\ Goto(th, "beginWrite")
    /\ UNCHANGED <<mx_reader, mx_writer, op, held, calls, work>>

\* begin_read: count in under mx_reader; the first reader locks mx_writer.
BeginRead(th) ==
    /\ pc[th] = "beginRead"
    /\ ~ mx_reader[Entering(th)]
    /\ mx_reader' = [mx_reader EXCEPT ![Entering(th)] = TRUE]
    /\ Goto(th, "countIn")
    /\ UNCHANGED <<reader, mx_writer, op, held, calls, dirty, work>>

\* Mutant: the counter is tested before it is incremented.
MutCountInPostIncrement(th) ==
    LET t == Entering(th) IN
    /\ pc[th] = "countIn"
    /\ reader' = [reader EXCEPT ![t] = (@ + 1) % ReaderMod]
    /\ Goto(th, IF reader[t] = 1 THEN "firstIn" ELSE "unlockIn")
    /\ UNCHANGED <<mx_reader, mx_writer, op, held, calls, dirty, work>>

\* Mutant: every reader locks mx_writer, not only the first one.
MutCountInEveryReader(th) ==
    /\ pc[th] = "countIn"
    /\ reader' = [reader EXCEPT ![Entering(th)] = (@ + 1) % ReaderMod]
    /\ Goto(th, "firstIn")
    /\ UNCHANGED <<mx_reader, mx_writer, op, held, calls, dirty, work>>

CountIn(th) ==
    LET t == Entering(th) IN
    /\ pc[th] = "countIn"
    /\ reader' = [reader EXCEPT ![t] = (@ + 1) % ReaderMod]
    /\ Goto(th, IF reader'[t] = 1 THEN "firstIn" ELSE "unlockIn")
    /\ UNCHANGED <<mx_reader, mx_writer, op, held, calls, dirty, work>>

FirstIn(th) ==
    /\ pc[th] = "firstIn"
    /\ ~ mx_writer[Entering(th)]
    /\ mx_writer' = [mx_writer EXCEPT ![Entering(th)] = TRUE]
    /\ Goto(th, "unlockIn")
    /\ UNCHANGED <<reader, mx_reader, op, held, calls, dirty, work>>

UnlockIn(th) ==
    /\ pc[th] = "unlockIn"
    /\ mx_reader' = [mx_reader EXCEPT ![Entering(th)] = FALSE]
    /\ held' = [held EXCEPT ![th] = @ + 1]
    /\ Goto(th, Acquire(op[th], held[th] + 1))
    /\ UNCHANGED <<reader, mx_writer, op, calls, dirty, work>>

\* end_read: count out under mx_reader; the last reader unlocks mx_writer.
EndRead(th) ==
    /\ pc[th] = "endRead"
    /\ ~ mx_reader[Leaving(th)]
    /\ mx_reader' = [mx_reader EXCEPT ![Leaving(th)] = TRUE]
    /\ Goto(th, "countOut")
    /\ UNCHANGED <<reader, mx_writer, op, held, calls, dirty, work>>

\* Mutant: the counter is tested before it is decremented.
MutCountOutPostDecrement(th) ==
    LET t == Leaving(th) IN
    /\ pc[th] = "countOut"
    /\ reader' = [reader EXCEPT ![t] = (@ - 1) % ReaderMod]
    /\ Goto(th, IF reader[t] = 0 THEN "lastOut" ELSE "unlockOut")
    /\ UNCHANGED <<mx_reader, mx_writer, op, held, calls, dirty, work>>

\* Mutant: every reader unlocks mx_writer, not only the last one.
MutCountOutEveryReader(th) ==
    /\ pc[th] = "countOut"
    /\ reader' = [reader EXCEPT ![Leaving(th)] = (@ - 1) % ReaderMod]
    /\ Goto(th, "lastOut")
    /\ UNCHANGED <<mx_reader, mx_writer, op, held, calls, dirty, work>>

CountOut(th) ==
    LET t == Leaving(th) IN
    /\ pc[th] = "countOut"
    /\ reader' = [reader EXCEPT ![t] = (@ - 1) % ReaderMod]
    /\ Goto(th, IF reader'[t] = 0 THEN "lastOut" ELSE "unlockOut")
    /\ UNCHANGED <<mx_reader, mx_writer, op, held, calls, dirty, work>>

LastOut(th) ==
    /\ pc[th] = "lastOut"
    /\ mx_writer' = [mx_writer EXCEPT ![Leaving(th)] = FALSE]
    /\ Goto(th, "unlockOut")
    /\ UNCHANGED <<reader, mx_reader, op, held, calls, dirty, work>>

UnlockOut(th) ==
    /\ pc[th] = "unlockOut"
    /\ mx_reader' = [mx_reader EXCEPT ![Leaving(th)] = FALSE]
    /\ held' = [held EXCEPT ![th] = @ - 1]
    /\ Goto(th, Release(held[th] - 1))
    /\ UNCHANGED <<reader, mx_writer, op, calls, dirty, work>>

\* begin_write and end_write.
BeginWrite(th) ==
    /\ pc[th] = "beginWrite"
    /\ ~ mx_writer[op[th].write]
    /\ mx_writer' = [mx_writer EXCEPT ![op[th].write] = TRUE]
    /\ Goto(th, "work")
    /\ UNCHANGED <<reader, mx_reader, op, held, calls, dirty, work>>

EndWrite(th) ==
    /\ pc[th] = "endWrite"
    /\ mx_writer' = [mx_writer EXCEPT ![op[th].write] = FALSE]
    /\ Goto(th, Release(held[th]))
    /\ UNCHANGED <<reader, mx_reader, op, held, calls, dirty, work>>

\* The zend_hash call between the locks: it looks at both halves of the tables
\* it reads, one table after the other, then writes both halves of its target.
Looks(th) == Len(seen[th]) < 2 * Len(op[th].reads)
Saw(s) == [k \in 1..(Len(s) \div 2) |-> <<s[2 * k - 1], s[2 * k]>>]

Look(th) ==
    LET n == Len(seen[th])
        half == data[op[th].reads[(n \div 2) + 1]][(n % 2) + 1]
        finished == n + 1 = 2 * Len(op[th].reads) /\ op[th].write = NoTable IN
    /\ pc[th] = "work" /\ Looks(th)
    /\ seen' = [seen EXCEPT ![th] = Append(@, half)]
    /\ last' = IF finished THEN [last EXCEPT ![th] = <<op[th], Saw(seen'[th])>>] ELSE last
    /\ IF finished THEN Goto(th, AfterWork(op[th])) ELSE UNCHANGED pc
    /\ UNCHANGED <<locks, data, op, held, puts, calls, dirty>>

\* Mutant: one half too many is written.
MutPutOneMore(th) ==
    LET h == puts[th] + 1
        half == IF op[th].reads = <<>> THEN op[th].value ELSE seen[th][h] IN
    /\ pc[th] = "work" /\ ~ Looks(th)
    /\ data' = [data EXCEPT ![op[th].write][h] = half]
    /\ puts' = [puts EXCEPT ![th] = h]
    /\ last' = IF h = 3 THEN [last EXCEPT ![th] = <<op[th], Saw(seen[th])>>] ELSE last
    /\ IF h = 3 THEN Goto(th, AfterWork(op[th])) ELSE UNCHANGED pc
    /\ UNCHANGED <<locks, op, held, seen, calls, dirty>>

Put(th) ==
    LET h == puts[th] + 1
        half == IF op[th].reads = <<>> THEN op[th].value ELSE seen[th][h] IN
    /\ pc[th] = "work" /\ ~ Looks(th)
    /\ data' = [data EXCEPT ![op[th].write][h] = half]
    /\ puts' = [puts EXCEPT ![th] = h]
    /\ last' = IF h = 2 THEN [last EXCEPT ![th] = <<op[th], Saw(seen[th])>>] ELSE last
    /\ IF h = 2 THEN Goto(th, AfterWork(op[th])) ELSE UNCHANGED pc
    /\ UNCHANGED <<locks, op, held, seen, calls, dirty>>

Step(th) == \/ Reset(th)
            \/ BeginRead(th) \/ CountIn(th) \/ FirstIn(th) \/ UnlockIn(th)
            \/ EndRead(th) \/ CountOut(th) \/ LastOut(th) \/ UnlockOut(th)
            \/ BeginWrite(th) \/ EndWrite(th)
            \/ Look(th) \/ Put(th)

Next == \E th \in Threads : Start(th) \/ Step(th)

\* A thread that can run does run; which of the threads waiting for a mutex gets
\* it is left open.
Spec == Init /\ [][Next]_vars
FairSpec == Spec /\ \A th \in Threads : WF_vars(Step(th))
-----------------------------------------------------------------------------
TypeOK ==
    /\ reader \in [Tables -> 0..(ReaderMod - 1)]
    /\ mx_reader \in [Tables -> BOOLEAN]
    /\ mx_writer \in [Tables -> BOOLEAN]
    /\ data \in [Tables -> Values \X Values]
    /\ op \in [Threads -> Ops \cup {Idle}]
    /\ pc \in [Threads -> PCs]
    /\ held \in [Threads -> 0..2]
    /\ seen \in [Threads -> Seq(Values)]
    /\ puts \in [Threads -> 0..2]
    /\ calls \in [Threads -> 0..MaxCalls]
    /\ dirty \in SUBSET Tables

\* The read locks a thread has and is not giving up just now.
ReadLocks(th) == IF pc[th] \in {"lastOut", "unlockOut"} THEN held[th] - 1 ELSE held[th]
Reading(th, t) == \E k \in 1..ReadLocks(th) : op[th].reads[k] = t
Writing(th, t) == pc[th] \in {"work", "endWrite"} /\ op[th].write = t

\* While one thread writes a table no other thread writes it or reads it, even
\* though the lock is released by another thread than the one that took it.
\* It holds although zend_ts_hash_clean resets the counter under no lock.
Exclusion ==
    \A t \in Tables, th1, th2 \in Threads :
        th1 # th2 /\ Writing(th1, t) => ~ Writing(th2, t) /\ ~ Reading(th2, t)

\* Nobody who is in the middle of a call can make a step: for ever, then.
Stuck == /\ \E th \in Threads : pc[th] # "idle"
         /\ \A th \in Threads : pc[th] # "idle" => ~ ENABLED Step(th)

\* The two ways callers can bring that about: zend_ts_hash_clean on a table in
\* use, which loses count of its readers, and copies that wait for each other -
\* each for a table that the other one, or itself, is reading.
CopiesCross ==
    \E ths \in (SUBSET Threads) \ {{}} : \A th \in ths :
        /\ pc[th] = "beginWrite" /\ op[th].reads # <<>>
        /\ \E other \in ths : Reading(other, op[th].write)

\* There is no third way: compares, nested read locks and readers that arrive
\* while a writer waits never block each other for good.
StuckOnlyByMisuse == Stuck => dirty # {} \/ CopiesCross

\* Once the callers make no more calls every call returns.
AllServed == <>[](\A th \in Threads : pc[th] = "idle")

\* What the abstract tables see: a table's contents are those of its half that is
\* written last, a value written is the pair of its halves.
Doubled(o) == [o EXCEPT !.value = <<@, @>>]
Contents == [t \in Tables |-> <<data[t][2], data[t][2]>>]
Reports == [th \in Threads |-> IF last[th] = <<>> THEN <<>>
                               ELSE <<Doubled(last[th][1]), last[th][2]>>]

\* Every call takes effect at one instant; a copy or a compare, which names two
\* tables, sees and changes both of them at the same one.
Atomic == INSTANCE TsHashAtomic WITH
    table <- Contents,
    last <- Reports,
    Ops <- {Doubled(o) : o \in Ops},
    Empty <- <<Empty, Empty>>
AtomicSpec == Atomic!Spec
=============================================================================
