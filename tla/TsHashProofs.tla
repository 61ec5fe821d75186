----------------------------- MODULE TsHashProofs -----------------------------
(***************************************************************************)
(* Proof that the readers-writer lock of TsHash excludes, for any number of *)
(* threads and tables, in whatever order the operations name the tables,    *)
(* and although zend_ts_hash_clean sets the reader count to zero under no   *)
(* lock.                                                                    *)
(*                                                                         *)
(* What the counter is good for is not what excludes: mx_writer does.  The  *)
(* invariant says who can have it locked (WriterInv, SettledInv), and that  *)
(* a reader unlocks it only when it is the last one (LastInv).  The last    *)
(* one is found by counting, so CountInv has to say what the counter is     *)
(* worth after it was reset in use: it is too low from then on, and being   *)
(* too low keeps mx_writer locked.  The reset costs liveness, not safety.   *)
(***************************************************************************)
EXTENDS TsHash, FiniteSetTheorems, TLAPS

\* The places a thread can have a read lock in, and how many it has: those it is not
\* giving up, and the one that it is about to get when the first reader is let in.
Places == Threads \X (1..2)
LocksOf(th) == IF pc[th] = "unlockIn" THEN held[th] + 1 ELSE ReadLocks(th)

\* The read locks of a table that are complete, the one that waits for mx_writer,
\* and the number that `reader' should be.
Settled(t) == {x \in Places : x[2] <= LocksOf(x[1]) /\ op[x[1]].reads[x[2]] = t}
Waiting(t) == {x \in Places : /\ pc[x[1]] = "firstIn" /\ x[2] = held[x[1]] + 1
                              /\ op[x[1]].reads[x[2]] = t}
Readers(t) == Settled(t) \cup Waiting(t)
Number(t) == Cardinality(Readers(t))

\* mx_writer is locked, and not by a writer.
Kept(t) == mx_writer[t] /\ \A th \in Threads : ~ Writing(th, t)

\* The types of what the locks depend on.
LockTypes ==
    /\ reader \in [Tables -> 0..(ReaderMod - 1)]
    /\ mx_reader \in [Tables -> BOOLEAN]
    /\ mx_writer \in [Tables -> BOOLEAN]
    /\ op \in [Threads -> Ops \cup {Idle}]
    /\ pc \in [Threads -> PCs]
    /\ held \in [Threads -> 0..2]

\* How many read locks a thread has where it is.
PlaceInv == \A th \in Threads :
    LET n == Len(op[th].reads) IN
    /\ pc[th] \in {"idle", "reset"} => held[th] = 0
    /\ pc[th] \in {"reset", "beginWrite", "endWrite"} => op[th].write # NoTable
    /\ pc[th] \in {"reset", "beginWrite", "work", "endWrite"} => held[th] = n
    /\ pc[th] \in {"beginRead", "countIn", "firstIn", "unlockIn"} => held[th] < n
    /\ pc[th] \in {"endRead", "countOut", "lastOut", "unlockOut"} => 0 < held[th] /\ held[th] <= n

\* One thread at a time is between mx_reader's lock and unlock.
Inside(th, t) ==
    \/ pc[th] \in {"countIn", "firstIn", "unlockIn"} /\ Entering(th) = t
    \/ pc[th] \in {"countOut", "lastOut", "unlockOut"} /\ Leaving(th) = t
InsideInv == \A t \in Tables : \A th \in Threads :
    Inside(th, t) => mx_reader[t] /\ \A other \in Threads : Inside(other, t) => other = th

\* A writer has mx_writer, alone; where read locks are complete nobody writes.
WriterInv == \A t \in Tables : \A th \in Threads :
    Writing(th, t) => mx_writer[t] /\ \A other \in Threads : Writing(other, t) => other = th
SettledInv == \A t \in Tables : Settled(t) # {} => Kept(t)

\* The last reader that is about to unlock mx_writer is the last.
LastInv == \A t \in Tables : \A th \in Threads :
    pc[th] = "lastOut" /\ Leaving(th) = t => Kept(t) /\ Readers(t) = {} /\ reader[t] = 0

\* The counter is right, or zend_ts_hash_clean has lost count: then it stays below the
\* number of readers, so that it never comes down to 0 again, and mx_writer is never
\* unlocked by a reader; a reader that brings it up to 1 waits for ever.
Exact(t) == reader[t] = Number(t)
LostCount(t) ==
    /\ Waiting(t) = {} => Kept(t)
    /\ \/ reader[t] = 0 /\ Readers(t) # {}
       \/ reader[t] = 1 /\ Waiting(t) # {} /\ Settled(t) # {}
       \/ reader[t] + 2 * Cardinality(Threads) >= ReaderMod + Number(t)
CountInv == \A t \in Tables : Exact(t) \/ LostCount(t)

IInv == /\ LockTypes /\ PlaceInv /\ InsideInv /\ WriterInv /\ SettledInv /\ LastInv /\ CountInv
-----------------------------------------------------------------------------
\* The constants.
LEMMA Sizes ==
    /\ ReaderMod \in Nat /\ Cardinality(Threads) \in Nat
    /\ ReaderMod > 2 * Cardinality(Threads) + 1
    /\ NoTable \notin Tables
BY SizesAssumption, OpsAssumption, FS_CardinalityType

\* What the locking depends on in an operation.
LEMMA OpShape ==
    \A o \in Ops \cup {Idle} :
        /\ Len(o.reads) \in 0..2
        /\ \A k \in 1..Len(o.reads) : o.reads[k] \in Tables
        /\ o.write \in Tables \cup {NoTable}
        /\ o.clean => Len(o.reads) = 0 /\ o.write # NoTable
BY OpsAssumption DEF AllOps, Idle

\* `reader' is incremented and decremented modulo its width.
LEMMA Increment == \A r \in 0..(ReaderMod - 1) :
                       (r + 1) % ReaderMod = IF r = ReaderMod - 1 THEN 0 ELSE r + 1
BY Sizes

LEMMA Decrement == \A r \in 0..(ReaderMod - 1) :
                       (r - 1) % ReaderMod = IF r = 0 THEN ReaderMod - 1 ELSE r - 1
BY Sizes

\* There are at most two read locks for each thread.
LEMMA PlacesCount ==
    \A S \in SUBSET Places : /\ IsFiniteSet(S) /\ Cardinality(S) \in Nat
                             /\ Cardinality(S) <= 2 * Cardinality(Threads)
<1>1. IsFiniteSet(1..2) /\ Cardinality(1..2) = 2
  <2>1. \A m, n \in Int : m <= n => IsFiniteSet(m..n) /\ Cardinality(m..n) = n - m + 1
    <3>1. ASSUME NEW m \in Int, NEW n \in Int, m <= n
          PROVE  IsFiniteSet(m..n) /\ Cardinality(m..n) = n - m + 1
      <4>1. ~ (m > n)
        BY <3>1
      <4>2. QED
        BY <4>1, FS_Interval, Zenon
    <3>2. QED
      BY <3>1
  <2>2. 1 \in Int /\ 2 \in Int /\ 1 <= 2
    OBVIOUS
  <2>3. IsFiniteSet(1..2) /\ Cardinality(1..2) = 2 - 1 + 1
    BY <2>1, <2>2, Zenon
  <2>4. QED
    BY <2>3
<1>2. IsFiniteSet(Places) /\ Cardinality(Places) = Cardinality(Threads) * 2
  BY <1>1, SizesAssumption, FS_Product DEF Places
<1>3. \A S \in SUBSET Places : IsFiniteSet(S) /\ Cardinality(S) <= Cardinality(Places)
  BY <1>2, FS_Subset
<1>4. QED
  BY <1>2, <1>3, Sizes, FS_CardinalityType

LEMMA ReadersCount ==
    \A t \in Tables : /\ Readers(t) \subseteq Places /\ Readers(t)' \subseteq Places
                      /\ IsFiniteSet(Readers(t)) /\ IsFiniteSet(Readers(t)')
                      /\ Number(t) \in Nat /\ Number(t) <= 2 * Cardinality(Threads)
                      /\ Number(t)' \in Nat /\ Number(t)' <= 2 * Cardinality(Threads)
                      /\ Number(t) = 0 <=> Readers(t) = {}
                      /\ Number(t)' = 0 <=> Readers(t)' = {}
<1>1. \A t \in Tables : Readers(t) \subseteq Places /\ Readers(t)' \subseteq Places
  BY DEF Readers, Settled, Waiting
<1>2. QED
  BY <1>1, PlacesCount, FS_EmptySet DEF Number

\* The table a thread enters or leaves is a table.
LEMMA NamedTables ==
    ASSUME LockTypes, PlaceInv, NEW th \in Threads
    PROVE  /\ pc[th] \in {"beginRead", "countIn", "firstIn", "unlockIn"} =>
                 held[th] + 1 \in 1..2 /\ Entering(th) \in Tables
           /\ pc[th] \in {"endRead", "countOut", "lastOut", "unlockOut"} =>
                 held[th] \in 1..2 /\ Leaving(th) \in Tables
           /\ pc[th] \in {"reset", "beginWrite", "endWrite"} => op[th].write \in Tables
<1> DEFINE n == Len(op[th].reads)
<1>1. op[th] \in Ops \cup {Idle} /\ held[th] \in 0..2 /\ n \in 0..2
  BY OpShape DEF LockTypes
<1>2. CASE pc[th] \in {"beginRead", "countIn", "firstIn", "unlockIn"}
  <2>1. held[th] + 1 \in 1..n
    BY <1>1, <1>2 DEF PlaceInv
  <2>2. QED
    BY <1>1, <1>2, <2>1, OpShape DEF Entering
<1>3. CASE pc[th] \in {"endRead", "countOut", "lastOut", "unlockOut"}
  <2>1. held[th] \in 1..n
    BY <1>1, <1>3 DEF PlaceInv
  <2>2. QED
    BY <1>1, <1>3, <2>1, OpShape DEF Leaving
<1>4. CASE pc[th] \in {"reset", "beginWrite", "endWrite"}
  BY <1>1, <1>4, OpShape DEF PlaceInv
<1>5. QED
  BY <1>2, <1>3, <1>4
-----------------------------------------------------------------------------
\* Most steps neither change a read lock nor the counter, nor take mx_writer away.
OthersStay(th) == \A o \in Threads \ {th} : pc'[o] = pc[o] /\ held'[o] = held[o] /\ op'[o] = op[o]
Steady == \A th \in Threads :
    /\ LocksOf(th)' = LocksOf(th)
    /\ pc'[th] = "firstIn" <=> pc[th] = "firstIn"
    /\ pc'[th] = "lastOut" => pc[th] = "lastOut"
    /\ pc[th] \in {"firstIn", "lastOut"} => held'[th] = held[th]
    /\ op'[th] = op[th] \/ (LocksOf(th) = 0 /\ pc[th] \notin {"firstIn", "lastOut"})

LEMMA SteadyReaders ==
    ASSUME Steady
    PROVE  \A t \in Tables : /\ Settled(t)' = Settled(t) /\ Waiting(t)' = Waiting(t)
                             /\ Readers(t)' = Readers(t) /\ Number(t)' = Number(t)
<1>1. ASSUME NEW t \in Tables
      PROVE  Settled(t)' = Settled(t)
  <2>1. ASSUME NEW x \in Places
        PROVE  /\ x[2] <= LocksOf(x[1])' /\ op'[x[1]].reads[x[2]] = t
               <=> x[2] <= LocksOf(x[1]) /\ op[x[1]].reads[x[2]] = t
    BY DEF Steady, Places
  <2>2. QED
    BY <2>1 DEF Settled
<1>2. ASSUME NEW t \in Tables
      PROVE  Waiting(t)' = Waiting(t)
  BY DEF Steady, Waiting, Places
<1>3. QED
  BY <1>1, <1>2 DEF Readers, Number

LEMMA SteadyStep ==
    ASSUME IInv, Steady, reader' = reader, \A t \in Tables : Kept(t) => Kept(t)'
    PROVE  SettledInv' /\ LastInv' /\ CountInv'
<1>0. SettledInv /\ LastInv /\ CountInv
  BY DEF IInv
<1>1. SettledInv'
  BY <1>0, SteadyReaders DEF SettledInv
<1>2. LastInv'
  BY <1>0, SteadyReaders DEF LastInv, Steady, Leaving
<1>3. CountInv'
  BY <1>0, SteadyReaders DEF CountInv, Exact, LostCount
<1>4. QED
  BY <1>1, <1>2, <1>3

LEMMA StartInductive ==
    ASSUME IInv, NEW th \in Threads, Start(th)
    PROVE  IInv'
<1> USE DEF Goto, locks
<1>0. LockTypes /\ PlaceInv /\ InsideInv /\ WriterInv
  BY DEF IInv
<1>a. PICK o \in Ops : /\ op' = [op EXCEPT ![th] = o]
                      /\ pc' = [pc EXCEPT ![th] = IF o.clean THEN "reset" ELSE Acquire(o, 0)]
  BY DEF Start
<1>b. /\ pc[th] = "idle" /\ op'[th] = o
      /\ pc'[th] = IF o.clean THEN "reset" ELSE Acquire(o, 0)
      /\ held' = held /\ held[th] = 0
      /\ OthersStay(th)
      /\ UNCHANGED <<reader, mx_reader, mx_writer>>
  BY <1>0, <1>a DEF Start, LockTypes, PlaceInv, OthersStay
<1>c. /\ Len(o.reads) \in 0..2 /\ (o.clean => Len(o.reads) = 0 /\ o.write # NoTable)
      /\ pc'[th] = "reset" => o.clean
      /\ pc'[th] = "beginRead" => 0 < Len(o.reads)
      /\ pc'[th] = "beginWrite" => Len(o.reads) = 0 /\ o.write # NoTable
      /\ pc'[th] = "work" => Len(o.reads) = 0 /\ o.write = NoTable
      /\ pc'[th] \in {"reset", "beginRead", "beginWrite", "work"}
  BY <1>b, OpShape DEF Acquire
<1>1. LockTypes'
  BY <1>0, <1>a, <1>b, <1>c DEF LockTypes, PCs
<1>2. PlaceInv'
  BY <1>0, <1>b, <1>c DEF PlaceInv, OthersStay
<1>3. InsideInv'
  BY <1>0, <1>b, <1>c DEF InsideInv, Inside, Entering, Leaving, OthersStay
<1>4. \A t \in Tables, u \in Threads : Writing(u, t)' <=> Writing(u, t)
  BY <1>b, <1>c, Sizes DEF Writing, OthersStay
<1>5. WriterInv'
  BY <1>0, <1>b, <1>4 DEF WriterInv
<1>6. Steady
  BY <1>b, <1>c DEF Steady, LocksOf, ReadLocks, OthersStay
<1>7. \A t \in Tables : Kept(t) => Kept(t)'
  BY <1>b, <1>4 DEF Kept
<1>8. QED
  BY <1>1, <1>2, <1>3, <1>5, <1>6, <1>7, <1>b, SteadyStep DEF IInv

\* The rest of the operation is decided by what it names.
LEMMA AcquireShape ==
    ASSUME NEW o, NEW k \in Nat, Len(o.reads) \in Nat, k <= Len(o.reads)
    PROVE  /\ Acquire(o, k) \in {"beginRead", "beginWrite", "work"}
           /\ Acquire(o, k) = "beginRead" => k < Len(o.reads)
           /\ Acquire(o, k) = "beginWrite" => k = Len(o.reads) /\ o.write # NoTable
           /\ Acquire(o, k) = "work" => k = Len(o.reads) /\ o.write = NoTable
BY DEF Acquire

LEMMA ResetInductive ==
    ASSUME IInv, NEW th \in Threads, Reset(th)
    PROVE  IInv'
<1> USE DEF Goto
<1>0. LockTypes /\ PlaceInv /\ InsideInv /\ WriterInv /\ SettledInv /\ LastInv /\ CountInv
  BY DEF IInv
<1>p. PICK t0 \in Tables : t0 = op[th].write
  BY <1>0, NamedTables DEF Reset
<1>a. /\ pc[th] = "reset" /\ pc'[th] = "beginWrite" /\ pc' = [pc EXCEPT ![th] = "beginWrite"]
      /\ held[th] = 0
      /\ OthersStay(th)
      /\ reader' = [reader EXCEPT ![t0] = 0] \/ reader' = reader
      /\ UNCHANGED <<mx_reader, mx_writer, op, held>>
  BY <1>0, <1>p DEF Reset, LockTypes, PlaceInv, OthersStay
<1>1. LockTypes'
  <2>1. 0 \in 0..(ReaderMod - 1)
    BY Sizes
  <2>2. QED
    BY <1>0, <1>a, <2>1 DEF LockTypes, PCs
<1>2. PlaceInv'
  BY <1>0, <1>a DEF PlaceInv, OthersStay
<1>3. InsideInv'
  BY <1>0, <1>a DEF InsideInv, Inside, Entering, Leaving, OthersStay
<1>4. \A t \in Tables, u \in Threads : Writing(u, t)' <=> Writing(u, t)
  BY <1>a DEF Writing, OthersStay
<1>5. WriterInv'
  BY <1>0, <1>a, <1>4 DEF WriterInv
<1>6. Steady
  BY <1>a DEF Steady, LocksOf, ReadLocks, OthersStay
<1>7. \A t \in Tables : Kept(t)' <=> Kept(t)
  BY <1>a, <1>4 DEF Kept
<1>8. CASE reader' = reader
  BY <1>1, <1>2, <1>3, <1>5, <1>6, <1>7, <1>8, SteadyStep DEF IInv
<1>9. CASE reader' = [reader EXCEPT ![t0] = 0]
  <2>1. reader'[t0] = 0 /\ \A t \in Tables \ {t0} : reader'[t] = reader[t]
    BY <1>0, <1>a, <1>9 DEF LockTypes
  <2>2. SettledInv'
    BY <1>0, <1>6, <1>7, SteadyReaders DEF SettledInv
  <2>3. LastInv'
    BY <1>0, <1>6, <1>7, <2>1, SteadyReaders DEF LastInv, Steady, Leaving
  <2>4. Exact(t0)' \/ LostCount(t0)'
    <3>1. CASE Readers(t0) = {}
      <4>1. Number(t0)' = 0
        BY <3>1, <1>6, <1>a, SteadyReaders, ReadersCount
      <4>2. QED
        BY <4>1, <2>1 DEF Exact
    <3>2. CASE Readers(t0) # {}
      <4>1. Waiting(t0) = {} => Kept(t0)
        BY <3>2, <1>0, <1>a DEF Readers, SettledInv
      <4>2. QED
        BY <3>2, <4>1, <2>1, <1>6, <1>7, <1>a, SteadyReaders DEF LostCount
    <3>3. QED
      BY <3>1, <3>2
  <2>5. \A t \in Tables \ {t0} : Exact(t)' \/ LostCount(t)'
    BY <1>0, <1>6, <1>7, <2>1, SteadyReaders DEF CountInv, Exact, LostCount
  <2>6. QED
    BY <1>1, <1>2, <1>3, <1>5, <2>2, <2>3, <2>4, <2>5 DEF IInv, CountInv
<1>10. QED
  BY <1>a, <1>8, <1>9

LEMMA BeginReadInductive ==
    ASSUME IInv, NEW th \in Threads, BeginRead(th)
    PROVE  IInv'
<1> USE DEF Goto
<1> DEFINE t0 == Entering(th)
<1>0. LockTypes /\ PlaceInv /\ InsideInv /\ WriterInv
  BY DEF IInv
<1>a. /\ pc[th] = "beginRead" /\ pc'[th] = "countIn" /\ pc' = [pc EXCEPT ![th] = "countIn"]
      /\ t0 \in Tables /\ ~ mx_reader[t0]
      /\ mx_reader' = [mx_reader EXCEPT ![t0] = TRUE]
      /\ OthersStay(th)
      /\ UNCHANGED <<reader, mx_writer, op, held>>
  BY <1>0, NamedTables DEF BeginRead, LockTypes, OthersStay
<1>1. LockTypes'
  BY <1>0, <1>a DEF LockTypes, PCs
<1>2. PlaceInv'
  BY <1>0, <1>a DEF PlaceInv, OthersStay
<1>3. InsideInv'
  <2>1. mx_reader'[t0] /\ \A t \in Tables \ {t0} : mx_reader'[t] <=> mx_reader[t]
    BY <1>0, <1>a DEF LockTypes
  <2>2. \A u \in Threads \ {th} : \A t \in Tables : Inside(u, t)' <=> Inside(u, t)
    BY <1>a DEF Inside, Entering, Leaving, OthersStay
  <2>3. \A t \in Tables : Inside(th, t)' <=> t = t0
    BY <1>a DEF Inside, Entering, Leaving
  <2>4. \A u \in Threads : ~ Inside(u, t0)
    BY <1>0, <1>a DEF InsideInv
  <2>5. QED
    BY <1>0, <1>a, <2>1, <2>2, <2>3, <2>4 DEF InsideInv
<1>4. \A t \in Tables, u \in Threads : Writing(u, t)' <=> Writing(u, t)
  BY <1>a DEF Writing, OthersStay
<1>5. WriterInv'
  BY <1>0, <1>a, <1>4 DEF WriterInv
<1>6. Steady
  BY <1>a DEF Steady, LocksOf, ReadLocks, OthersStay
<1>7. \A t \in Tables : Kept(t) => Kept(t)'
  BY <1>a, <1>4 DEF Kept
<1>8. QED
  BY <1>1, <1>2, <1>3, <1>5, <1>6, <1>7, <1>a, SteadyStep DEF IInv

LEMMA UnlockInInductive ==
    ASSUME IInv, NEW th \in Threads, UnlockIn(th)
    PROVE  IInv'
<1> USE DEF Goto
<1> DEFINE t0 == Entering(th)
           next == Acquire(op[th], held[th] + 1)
<1>0. LockTypes /\ PlaceInv /\ InsideInv /\ WriterInv
  BY DEF IInv
<1>a. /\ pc[th] = "unlockIn" /\ pc'[th] = next /\ pc' = [pc EXCEPT ![th] = next]
      /\ t0 \in Tables
      /\ mx_reader' = [mx_reader EXCEPT ![t0] = FALSE]
      /\ held' = [held EXCEPT ![th] = @ + 1] /\ held'[th] = held[th] + 1
      /\ held[th] + 1 \in 1..2 /\ held[th] + 1 <= Len(op[th].reads) /\ Len(op[th].reads) \in 0..2
      /\ OthersStay(th)
      /\ UNCHANGED <<reader, mx_writer, op>>
  <2>1. held[th] < Len(op[th].reads) /\ Len(op[th].reads) \in 0..2 /\ held[th] \in 0..2
    BY <1>0, OpShape DEF UnlockIn, PlaceInv, LockTypes
  <2>2. QED
    BY <1>0, <2>1, NamedTables DEF UnlockIn, LockTypes, OthersStay
<1>b. /\ next \in {"beginRead", "beginWrite", "work"}
      /\ next = "beginRead" => held[th] + 1 < Len(op[th].reads)
      /\ next = "beginWrite" => held[th] + 1 = Len(op[th].reads) /\ op[th].write # NoTable
      /\ next = "work" => held[th] + 1 = Len(op[th].reads) /\ op[th].write = NoTable
  BY <1>a, AcquireShape
<1>1. LockTypes'
  BY <1>0, <1>a, <1>b DEF LockTypes, PCs
<1>2. PlaceInv'
  BY <1>0, <1>a, <1>b DEF PlaceInv, OthersStay
<1>3. InsideInv'
  <2>1. \A t \in Tables \ {t0} : mx_reader'[t] <=> mx_reader[t]
    BY <1>0, <1>a DEF LockTypes
  <2>2. \A u \in Threads \ {th} : \A t \in Tables : Inside(u, t)' <=> Inside(u, t)
    BY <1>a DEF Inside, Entering, Leaving, OthersStay
  <2>3. \A t \in Tables : ~ Inside(th, t)'
    BY <1>a, <1>b DEF Inside
  <2>4. Inside(th, t0)
    BY <1>a DEF Inside
  <2>5. QED
    BY <1>0, <1>a, <2>1, <2>2, <2>3, <2>4 DEF InsideInv
<1>4. \A t \in Tables, u \in Threads : Writing(u, t)' <=> Writing(u, t)
  BY <1>a, <1>b, Sizes DEF Writing, OthersStay
<1>5. WriterInv'
  BY <1>0, <1>a, <1>4 DEF WriterInv
<1>6. Steady
  BY <1>a, <1>b DEF Steady, LocksOf, ReadLocks, OthersStay
<1>7. \A t \in Tables : Kept(t) => Kept(t)'
  BY <1>a, <1>4 DEF Kept
<1>8. QED
  BY <1>1, <1>2, <1>3, <1>5, <1>6, <1>7, <1>a, SteadyStep DEF IInv

LEMMA EndReadInductive ==
    ASSUME IInv, NEW th \in Threads, EndRead(th)
    PROVE  IInv'
<1> USE DEF Goto
<1> DEFINE t0 == Leaving(th)
<1>0. LockTypes /\ PlaceInv /\ InsideInv /\ WriterInv
  BY DEF IInv
<1>a. /\ pc[th] = "endRead" /\ pc'[th] = "countOut" /\ pc' = [pc EXCEPT ![th] = "countOut"]
      /\ t0 \in Tables /\ ~ mx_reader[t0]
      /\ mx_reader' = [mx_reader EXCEPT ![t0] = TRUE]
      /\ OthersStay(th)
      /\ UNCHANGED <<reader, mx_writer, op, held>>
  BY <1>0, NamedTables DEF EndRead, LockTypes, OthersStay
<1>1. LockTypes'
  BY <1>0, <1>a DEF LockTypes, PCs
<1>2. PlaceInv'
  BY <1>0, <1>a DEF PlaceInv, OthersStay
<1>3. InsideInv'
  <2>1. mx_reader'[t0] /\ \A t \in Tables \ {t0} : mx_reader'[t] <=> mx_reader[t]
    BY <1>0, <1>a DEF LockTypes
  <2>2. \A u \in Threads \ {th} : \A t \in Tables : Inside(u, t)' <=> Inside(u, t)
    BY <1>a DEF Inside, Entering, Leaving, OthersStay
  <2>3. \A t \in Tables : Inside(th, t)' <=> t = t0
    BY <1>a DEF Inside, Entering, Leaving
  <2>4. \A u \in Threads : ~ Inside(u, t0)
    BY <1>0, <1>a DEF InsideInv
  <2>5. QED
    BY <1>0, <1>a, <2>1, <2>2, <2>3, <2>4 DEF InsideInv
<1>4. \A t \in Tables, u \in Threads : Writing(u, t)' <=> Writing(u, t)
  BY <1>a DEF Writing, OthersStay
<1>5. WriterInv'
  BY <1>0, <1>a, <1>4 DEF WriterInv
<1>6. Steady
  BY <1>a DEF Steady, LocksOf, ReadLocks, OthersStay
<1>7. \A t \in Tables : Kept(t) => Kept(t)'
  BY <1>a, <1>4 DEF Kept
<1>8. QED
  BY <1>1, <1>2, <1>3, <1>5, <1>6, <1>7, <1>a, SteadyStep DEF IInv

LEMMA UnlockOutInductive ==
    ASSUME IInv, NEW th \in Threads, UnlockOut(th)
    PROVE  IInv'
<1> USE DEF Goto
<1> DEFINE t0 == Leaving(th)
           next == Release(held[th] - 1)
<1>0. LockTypes /\ PlaceInv /\ InsideInv /\ WriterInv
  BY DEF IInv
<1>a. /\ pc[th] = "unlockOut" /\ pc'[th] = next /\ pc' = [pc EXCEPT ![th] = next]
      /\ t0 \in Tables
      /\ mx_reader' = [mx_reader EXCEPT ![t0] = FALSE]
      /\ held' = [held EXCEPT ![th] = @ - 1] /\ held'[th] = held[th] - 1
      /\ held[th] \in 1..2 /\ held[th] <= Len(op[th].reads) /\ Len(op[th].reads) \in 0..2
      /\ OthersStay(th)
      /\ UNCHANGED <<reader, mx_writer, op>>
  <2>1. held[th] <= Len(op[th].reads) /\ Len(op[th].reads) \in 0..2
    BY <1>0, OpShape DEF UnlockOut, PlaceInv, LockTypes
  <2>2. QED
    BY <1>0, <2>1, NamedTables DEF UnlockOut, LockTypes, OthersStay
<1>b. next = IF held[th] - 1 > 0 THEN "endRead" ELSE "idle"
  BY DEF Release
<1>1. LockTypes'
  BY <1>0, <1>a, <1>b DEF LockTypes, PCs
<1>2. PlaceInv'
  BY <1>0, <1>a, <1>b DEF PlaceInv, OthersStay
<1>3. InsideInv'
  <2>1. \A t \in Tables \ {t0} : mx_reader'[t] <=> mx_reader[t]
    BY <1>0, <1>a DEF LockTypes
  <2>2. \A u \in Threads \ {th} : \A t \in Tables : Inside(u, t)' <=> Inside(u, t)
    BY <1>a DEF Inside, Entering, Leaving, OthersStay
  <2>3. \A t \in Tables : ~ Inside(th, t)'
    BY <1>a, <1>b DEF Inside
  <2>4. Inside(th, t0)
    BY <1>a DEF Inside
  <2>5. QED
    BY <1>0, <1>a, <2>1, <2>2, <2>3, <2>4 DEF InsideInv
<1>4. \A t \in Tables, u \in Threads : Writing(u, t)' <=> Writing(u, t)
  BY <1>a, <1>b DEF Writing, OthersStay
<1>5. WriterInv'
  BY <1>0, <1>a, <1>4 DEF WriterInv
<1>6. Steady
  BY <1>a, <1>b DEF Steady, LocksOf, ReadLocks, OthersStay
<1>7. \A t \in Tables : Kept(t) => Kept(t)'
  BY <1>a, <1>4 DEF Kept
<1>8. QED
  BY <1>1, <1>2, <1>3, <1>5, <1>6, <1>7, <1>a, SteadyStep DEF IInv
-----------------------------------------------------------------------------
\* Who is between mx_reader's lock and unlock is alone with the counter: nobody
\* else waits for mx_writer, or is about to unlock it.
LEMMA AloneInside ==
    ASSUME IInv, NEW th \in Threads, NEW t0 \in Tables, Inside(th, t0)
    PROVE  /\ \A x \in Waiting(t0) : x[1] = th /\ pc[th] = "firstIn"
           /\ \A o \in Threads : pc[o] = "lastOut" /\ Leaving(o) = t0 => o = th
<1>1. \A o \in Threads : Inside(o, t0) => o = th
  BY DEF IInv, InsideInv
<1>2. \A x \in Waiting(t0) : x[1] \in Threads /\ pc[x[1]] = "firstIn" /\ Inside(x[1], t0)
  BY DEF Waiting, Places, Inside, Entering
<1>3. \A o \in Threads : pc[o] = "lastOut" /\ Leaving(o) = t0 => Inside(o, t0)
  BY DEF Inside
<1>4. QED
  BY <1>1, <1>2, <1>3

LEMMA CountInInductive ==
    ASSUME IInv, NEW th \in Threads, CountIn(th)
    PROVE  IInv'
<1> USE DEF Goto
<1>0. LockTypes /\ PlaceInv /\ InsideInv /\ WriterInv /\ SettledInv /\ LastInv /\ CountInv
  BY DEF IInv
<1>p. PICK t0 \in Tables : t0 = Entering(th)
  BY <1>0, NamedTables DEF CountIn
<1> DEFINE k == held[th] + 1
           x0 == <<th, k>>
           first == reader'[t0] = 1
<1>a. /\ pc[th] = "countIn" /\ pc'[th] = IF first THEN "firstIn" ELSE "unlockIn"
      /\ reader'[t0] = (reader[t0] + 1) % ReaderMod
      /\ \A t \in Tables \ {t0} : reader'[t] = reader[t]
      /\ reader' = [reader EXCEPT ![t0] = (@ + 1) % ReaderMod]
      /\ pc' = [pc EXCEPT ![th] = IF first THEN "firstIn" ELSE "unlockIn"]
      /\ OthersStay(th)
      /\ UNCHANGED <<mx_reader, mx_writer, op, held>>
  BY <1>0, <1>p DEF CountIn, LockTypes, OthersStay
<1>b. /\ k \in 1..2 /\ k <= Len(op[th].reads) /\ op[th].reads[k] = t0
      /\ held[th] \in 0..2 /\ reader[t0] \in 0..(ReaderMod - 1)
  <2>1. held[th] \in 0..2 /\ held[th] < Len(op[th].reads) /\ Len(op[th].reads) \in 0..2
    BY <1>0, <1>a, OpShape DEF PlaceInv, LockTypes
  <2>2. QED
    BY <2>1, <1>0, <1>a, <1>p, NamedTables, SMTT(60) DEF Entering, LockTypes
<1>c. reader'[t0] = IF reader[t0] = ReaderMod - 1 THEN 0 ELSE reader[t0] + 1
  BY <1>a, <1>b, Increment
<1>d. /\ Waiting(t0) = {}
      /\ \A o \in Threads : ~ (pc[o] = "lastOut" /\ Leaving(o) = t0)
  BY <1>a, <1>p, AloneInside DEF Inside
\* The read locks: one more.
<1>e. /\ LocksOf(th) = held[th] /\ LocksOf(th)' = IF first THEN held[th] ELSE k
      /\ \A o \in Threads \ {th} : LocksOf(o)' = LocksOf(o)
  BY <1>a DEF LocksOf, ReadLocks, OthersStay
<1>f. /\ Settled(t0)' = IF first THEN Settled(t0) ELSE Settled(t0) \cup {x0}
      /\ Waiting(t0)' = IF first THEN {x0} ELSE {}
      /\ x0 \in Places /\ x0 \notin Settled(t0)
  <2>1. x0 \in Places /\ x0 \notin Settled(t0)
    BY <1>b, <1>e DEF Places, Settled
  <2>2. ASSUME NEW x \in Places
        PROVE  x \in Settled(t0)' <=> x \in Settled(t0) \/ (~ first /\ x = x0)
    <3>1. CASE x[1] # th
      BY <3>1, <1>a, <1>e DEF Settled, Places
    <3>2. CASE x[1] = th
      <4>1. x[2] \in 1..2 /\ x = <<th, x[2]>>
        BY <3>2 DEF Places
      <4>2. x[2] <= k <=> x[2] <= held[th] \/ x[2] = k
        BY <4>1, <1>b
      <4>3. QED
        BY <3>2, <4>1, <4>2, <1>a, <1>b, <1>e DEF Settled
    <3>3. QED
      BY <3>1, <3>2
  <2>3. ASSUME NEW x \in Places
        PROVE  x \in Waiting(t0)' <=> first /\ x = x0
    <3>1. CASE x[1] # th
      <4>1. x \in Waiting(t0)' => x \in Waiting(t0)
        BY <3>1, <1>a DEF Waiting, Places, OthersStay
      <4>2. QED
        BY <3>1, <4>1, <1>d
    <3>2. CASE x[1] = th
      <4>1. x = <<th, x[2]>>
        BY <3>2 DEF Places
      <4>2. QED
        BY <3>2, <4>1, <1>a, <1>b DEF Waiting
    <3>3. QED
      BY <3>1, <3>2
  <2>4. Settled(t0)' \subseteq Places /\ Settled(t0) \subseteq Places /\ Waiting(t0)' \subseteq Places
    BY DEF Settled, Waiting
  <2>5. QED
    BY <2>1, <2>2, <2>3, <2>4
<1>g. ASSUME NEW t \in Tables \ {t0}
      PROVE  Settled(t)' = Settled(t) /\ Waiting(t)' = Waiting(t)
  <2>1. ASSUME NEW x \in Places
        PROVE  /\ x \in Settled(t)' <=> x \in Settled(t)
               /\ x \in Waiting(t)' <=> x \in Waiting(t)
    <3>1. CASE x[1] # th
      BY <3>1, <1>a, <1>e DEF Settled, Waiting, Places, OthersStay
    <3>2. CASE x[1] = th
      <4>1. x[2] \in 1..2
        BY DEF Places
      <4>2. x[2] <= k <=> x[2] <= held[th] \/ x[2] = k
        BY <4>1, <1>b
      <4>3. QED
        BY <3>2, <4>2, <1>a, <1>b, <1>e DEF Settled, Waiting
    <3>3. QED
      BY <3>1, <3>2
  <2>2. Settled(t)' \subseteq Places /\ Settled(t) \subseteq Places
    BY DEF Settled
  <2>3. Waiting(t)' \subseteq Places /\ Waiting(t) \subseteq Places
    BY DEF Waiting
  <2>4. QED
    BY <2>1, <2>2, <2>3
<1>h. /\ Readers(t0) = Settled(t0) /\ Readers(t0)' = Settled(t0) \cup {x0}
      /\ Number(t0)' = Number(t0) + 1
      /\ Number(t0) \in Nat /\ Number(t0) + 1 <= 2 * Cardinality(Threads)
  <2>1. Readers(t0) = Settled(t0) /\ Readers(t0)' = Readers(t0) \cup {x0} /\ x0 \notin Readers(t0)
    BY <1>d, <1>f DEF Readers
  <2>2. Number(t0)' = Number(t0) + 1
    <3>1. IsFiniteSet(Readers(t0))
      BY ReadersCount
    <3>2. Cardinality(Readers(t0) \cup {x0}) = Cardinality(Readers(t0)) + 1
      BY <2>1, <3>1, FS_AddElement
    <3>3. QED
      BY <2>1, <3>2 DEF Number
  <2>3. QED
    BY <2>1, <2>2, ReadersCount
<1>1. LockTypes'
  <2>1. reader'[t0] \in 0..(ReaderMod - 1)
    BY <1>b, <1>c, Sizes
  <2>2. reader' \in [Tables -> 0..(ReaderMod - 1)]
    BY <2>1, <1>0, <1>a DEF LockTypes
  <2>3. QED
    BY <1>0, <1>a, <2>2 DEF LockTypes, PCs
<1>2. PlaceInv'
  BY <1>0, <1>a DEF PlaceInv, OthersStay
<1>3. InsideInv'
  <2>1. \A u \in Threads, t \in Tables : Inside(u, t)' <=> Inside(u, t)
    BY <1>a DEF Inside, Entering, Leaving, OthersStay
  <2>2. QED
    BY <1>0, <1>a, <2>1 DEF InsideInv
<1>4. \A t \in Tables, u \in Threads : Writing(u, t)' <=> Writing(u, t)
  BY <1>a DEF Writing, OthersStay
<1>5. WriterInv'
  BY <1>0, <1>a, <1>4 DEF WriterInv
<1>6. \A t \in Tables : Kept(t)' <=> Kept(t)
  BY <1>a, <1>4 DEF Kept
\* A reader that is not the first one in finds mx_writer locked.
<1>7. ~ first => Kept(t0)
  <2>1. CASE Exact(t0)
    <3>1. ~ first => Number(t0) # 0
      BY <2>1, <1>c, <1>h, Sizes DEF Exact
    <3>2. QED
      BY <3>1, <1>0, <1>h, ReadersCount DEF SettledInv
  <2>2. CASE LostCount(t0)
    BY <2>2, <1>d DEF LostCount
  <2>3. QED
    BY <1>0, <2>1, <2>2 DEF CountInv
<1>8. SettledInv'
  <2>1. Settled(t0)' # {} => Kept(t0)
    BY <1>0, <1>7, <1>f DEF SettledInv
  <2>2. QED
    BY <1>0, <1>6, <1>g, <2>1 DEF SettledInv
<1>9. LastInv'
  <2>1. ASSUME NEW o \in Threads, NEW t \in Tables, pc'[o] = "lastOut", Leaving(o)' = t
        PROVE  Kept(t)' /\ Readers(t)' = {} /\ reader'[t] = 0
    <3>1. o # th /\ pc[o] = "lastOut" /\ Leaving(o) = t
      BY <2>1, <1>a DEF Leaving, OthersStay
    <3>2. t # t0
      BY <3>1, <1>d
    <3>3. QED
      BY <3>1, <3>2, <1>0, <1>a, <1>6, <1>g DEF LastInv, Readers
  <2>2. QED
    BY <2>1 DEF LastInv
<1>10. CountInv'
  <2>1. Exact(t0)' \/ LostCount(t0)'
    <3>1. CASE Exact(t0)
      <4>1. reader'[t0] = Number(t0)'
        BY <3>1, <1>b, <1>c, <1>h, Sizes DEF Exact
      <4>2. QED
        BY <4>1 DEF Exact
    <3>2. CASE LostCount(t0)
      <4>1. Waiting(t0)' = {} => Kept(t0)'
        BY <1>6, <1>7, <1>f
      <4>2. CASE reader[t0] = 0 /\ Readers(t0) # {}
        <5>1. reader'[t0] = 1
          BY <4>2, <1>c, Sizes
        <5>2. Waiting(t0)' # {} /\ Settled(t0)' # {}
          BY <4>2, <5>1, <1>f, <1>h
        <5>3. QED
          BY <4>1, <5>1, <5>2 DEF LostCount
      <4>3. CASE reader[t0] + 2 * Cardinality(Threads) >= ReaderMod + Number(t0)
        <5>1. CASE reader[t0] = ReaderMod - 1
          <6>1. reader'[t0] = 0 /\ Readers(t0)' # {}
            BY <5>1, <1>c, <1>h
          <6>2. QED
            BY <4>1, <6>1 DEF LostCount
        <5>2. CASE reader[t0] # ReaderMod - 1
          <6>1. reader'[t0] + 2 * Cardinality(Threads) >= ReaderMod + Number(t0)'
            BY <5>2, <4>3, <1>b, <1>c, <1>h, Sizes
          <6>2. QED
            BY <4>1, <6>1 DEF LostCount
        <5>3. QED
          BY <5>1, <5>2
      <4>4. QED
        BY <3>2, <4>2, <4>3, <1>d DEF LostCount
    <3>3. QED
      BY <1>0, <3>1, <3>2 DEF CountInv
  <2>2. ASSUME NEW t \in Tables \ {t0}
        PROVE  Exact(t)' \/ LostCount(t)'
    <3>1. Readers(t)' = Readers(t) /\ Number(t)' = Number(t)
      BY <1>g DEF Readers, Number
    <3>2. QED
      BY <3>1, <1>0, <1>a, <1>6, <1>g DEF CountInv, Exact, LostCount
  <2>3. QED
    BY <2>1, <2>2 DEF CountInv
<1>11. QED
  BY <1>1, <1>2, <1>3, <1>5, <1>8, <1>9, <1>10 DEF IInv

LEMMA FirstInInductive ==
    ASSUME IInv, NEW th \in Threads, FirstIn(th)
    PROVE  IInv'
<1> USE DEF Goto
<1>0. LockTypes /\ PlaceInv /\ InsideInv /\ WriterInv /\ SettledInv /\ LastInv /\ CountInv
  BY DEF IInv
<1>p. PICK t0 \in Tables : t0 = Entering(th)
  BY <1>0, NamedTables DEF FirstIn
<1> DEFINE k == held[th] + 1
           x0 == <<th, k>>
<1>a. /\ pc[th] = "firstIn" /\ pc'[th] = "unlockIn" /\ pc' = [pc EXCEPT ![th] = "unlockIn"]
      /\ ~ mx_writer[t0] /\ mx_writer'[t0]
      /\ \A t \in Tables \ {t0} : mx_writer'[t] = mx_writer[t]
      /\ mx_writer' = [mx_writer EXCEPT ![t0] = TRUE]
      /\ OthersStay(th)
      /\ UNCHANGED <<reader, mx_reader, op, held>>
  BY <1>0, <1>p DEF FirstIn, LockTypes, OthersStay
<1>b. k \in 1..2 /\ k <= Len(op[th].reads) /\ op[th].reads[k] = t0 /\ held[th] \in 0..2
  <2>1. held[th] \in 0..2 /\ held[th] < Len(op[th].reads) /\ Len(op[th].reads) \in 0..2
    BY <1>0, <1>a, OpShape DEF PlaceInv, LockTypes
  <2>2. QED
    BY <2>1, <1>0, <1>a, <1>p, NamedTables DEF Entering, LockTypes
<1>d. /\ \A x \in Waiting(t0) : x[1] = th
      /\ \A o \in Threads : ~ (pc[o] = "lastOut" /\ Leaving(o) = t0)
  BY <1>a, <1>p, AloneInside DEF Inside
\* The read lock that waited for mx_writer is complete.
<1>e. /\ LocksOf(th) = held[th] /\ LocksOf(th)' = k
      /\ \A o \in Threads \ {th} : LocksOf(o)' = LocksOf(o)
  BY <1>a DEF LocksOf, ReadLocks, OthersStay
<1>f. /\ Settled(t0)' = Settled(t0) \cup {x0}
      /\ Waiting(t0) = {x0} /\ Waiting(t0)' = {}
  <2>1. ASSUME NEW x \in Places
        PROVE  x \in Settled(t0)' <=> x \in Settled(t0) \/ x = x0
    <3>1. CASE x[1] # th
      BY <3>1, <1>a, <1>e DEF Settled, Places
    <3>2. CASE x[1] = th
      <4>1. x[2] \in 1..2 /\ x = <<th, x[2]>>
        BY <3>2 DEF Places
      <4>2. x[2] <= k <=> x[2] <= held[th] \/ x[2] = k
        BY <4>1, <1>b
      <4>3. QED
        BY <3>2, <4>1, <4>2, <1>a, <1>b, <1>e DEF Settled
    <3>3. QED
      BY <3>1, <3>2
  <2>2. ASSUME NEW x \in Places
        PROVE  x \in Waiting(t0) <=> x = x0
    <3>1. CASE x[1] # th
      BY <3>1, <1>d
    <3>2. CASE x[1] = th
      <4>1. x = <<th, x[2]>>
        BY <3>2 DEF Places
      <4>2. QED
        BY <3>2, <4>1, <1>a, <1>b DEF Waiting
    <3>3. QED
      BY <3>1, <3>2
  <2>3. ASSUME NEW x \in Waiting(t0)'
        PROVE  FALSE
    <3>1. CASE x[1] # th
      <4>1. x \in Waiting(t0)
        BY <3>1, <2>3, <1>a DEF Waiting, Places, OthersStay
      <4>2. QED
        BY <3>1, <4>1, <1>d
    <3>2. CASE x[1] = th
      BY <3>2, <2>3, <1>a DEF Waiting
    <3>3. QED
      BY <3>1, <3>2
  <2>4. Settled(t0)' \subseteq Places /\ Settled(t0) \subseteq Places /\ Waiting(t0) \subseteq Places
    BY DEF Settled, Waiting
  <2>5. x0 \in Places
    BY <1>b DEF Places
  <2>6. Settled(t0)' = Settled(t0) \cup {x0}
    BY <2>1, <2>4, <2>5
  <2>7. Waiting(t0) = {x0}
    BY <2>2, <2>4, <2>5
  <2>8. QED
    BY <2>3, <2>6, <2>7
<1>g. ASSUME NEW t \in Tables \ {t0}
      PROVE  Settled(t)' = Settled(t) /\ Waiting(t)' = Waiting(t)
  <2>1. ASSUME NEW x \in Places
        PROVE  /\ x \in Settled(t)' <=> x \in Settled(t)
               /\ x \in Waiting(t)' <=> x \in Waiting(t)
    <3>1. CASE x[1] # th
      BY <3>1, <1>a, <1>e DEF Settled, Waiting, Places, OthersStay
    <3>2. CASE x[1] = th
      <4>1. x[2] \in 1..2
        BY DEF Places
      <4>2. x[2] <= k <=> x[2] <= held[th] \/ x[2] = k
        BY <4>1, <1>b
      <4>3. QED
        BY <3>2, <4>2, <1>a, <1>b, <1>e DEF Settled, Waiting
    <3>3. QED
      BY <3>1, <3>2
  <2>2. Settled(t)' \subseteq Places /\ Settled(t) \subseteq Places
    BY DEF Settled
  <2>3. Waiting(t)' \subseteq Places /\ Waiting(t) \subseteq Places
    BY DEF Waiting
  <2>4. QED
    BY <2>1, <2>2, <2>3
<1>h. \A t \in Tables : Readers(t)' = Readers(t) /\ Number(t)' = Number(t)
  <2>1. \A t \in Tables : Readers(t)' = Readers(t)
    BY <1>f, <1>g DEF Readers
  <2>2. QED
    BY <2>1 DEF Number
<1>1. LockTypes'
  BY <1>0, <1>a DEF LockTypes, PCs
<1>2. PlaceInv'
  BY <1>0, <1>a DEF PlaceInv, OthersStay
<1>3. InsideInv'
  <2>1. \A u \in Threads, t \in Tables : Inside(u, t)' <=> Inside(u, t)
    BY <1>a DEF Inside, Entering, Leaving, OthersStay
  <2>2. QED
    BY <1>0, <1>a, <2>1 DEF InsideInv
<1>4. \A t \in Tables, u \in Threads : Writing(u, t)' <=> Writing(u, t)
  BY <1>a DEF Writing, OthersStay
<1>5. WriterInv'
  <2>1. \A t \in Tables : mx_writer[t] => mx_writer'[t]
    BY <1>a
  <2>2. QED
    BY <1>0, <1>4, <2>1 DEF WriterInv
\* The first reader in finds no reader and no writer.
<1>6. Settled(t0) = {} /\ Kept(t0)'
  <2>1. Settled(t0) = {}
    BY <1>0, <1>a DEF SettledInv, Kept
  <2>2. \A u \in Threads : ~ Writing(u, t0)
    BY <1>0, <1>a DEF WriterInv
  <2>3. QED
    BY <2>1, <2>2, <1>4, <1>a DEF Kept
<1>7. \A t \in Tables \ {t0} : Kept(t)' <=> Kept(t)
  BY <1>a, <1>4 DEF Kept
<1>8. SettledInv'
  BY <1>0, <1>6, <1>7, <1>g DEF SettledInv
<1>9. LastInv'
  <2>1. ASSUME NEW o \in Threads, NEW t \in Tables, pc'[o] = "lastOut", Leaving(o)' = t
        PROVE  Kept(t)' /\ Readers(t)' = {} /\ reader'[t] = 0
    <3>1. o # th /\ pc[o] = "lastOut" /\ Leaving(o) = t
      BY <2>1, <1>a DEF Leaving, OthersStay
    <3>2. t # t0
      BY <3>1, <1>d
    <3>3. QED
      BY <3>1, <3>2, <1>0, <1>a, <1>7, <1>h DEF LastInv
  <2>2. QED
    BY <2>1 DEF LastInv
<1>10. CountInv'
  <2>1. Exact(t0)' \/ LostCount(t0)'
    <3>1. CASE Exact(t0)
      BY <3>1, <1>a, <1>h DEF Exact
    <3>2. CASE LostCount(t0)
      BY <3>2, <1>6, <1>a, <1>h DEF LostCount
    <3>3. QED
      BY <1>0, <3>1, <3>2 DEF CountInv
  <2>2. \A t \in Tables \ {t0} : Exact(t)' \/ LostCount(t)'
    BY <1>0, <1>a, <1>7, <1>g, <1>h DEF CountInv, Exact, LostCount
  <2>3. QED
    BY <2>1, <2>2 DEF CountInv
<1>11. QED
  BY <1>1, <1>2, <1>3, <1>5, <1>8, <1>9, <1>10 DEF IInv

LEMMA LastOutInductive ==
    ASSUME IInv, NEW th \in Threads, LastOut(th)
    PROVE  IInv'
<1> USE DEF Goto
<1>0. LockTypes /\ PlaceInv /\ InsideInv /\ WriterInv /\ SettledInv /\ LastInv /\ CountInv
  BY DEF IInv
<1>p. PICK t0 \in Tables : t0 = Leaving(th)
  BY <1>0, NamedTables DEF LastOut
<1>a. /\ pc[th] = "lastOut" /\ pc'[th] = "unlockOut" /\ pc' = [pc EXCEPT ![th] = "unlockOut"]
      /\ \A t \in Tables \ {t0} : mx_writer'[t] = mx_writer[t]
      /\ mx_writer' = [mx_writer EXCEPT ![t0] = FALSE]
      /\ OthersStay(th)
      /\ UNCHANGED <<reader, mx_reader, op, held>>
  BY <1>0, <1>p DEF LastOut, LockTypes, OthersStay
\* It is the last one: nobody writes the table and nobody reads it.
<1>b. Kept(t0) /\ Readers(t0) = {} /\ reader[t0] = 0
  BY <1>0, <1>a, <1>p DEF LastInv
<1>1. LockTypes'
  BY <1>0, <1>a DEF LockTypes, PCs
<1>2. PlaceInv'
  BY <1>0, <1>a DEF PlaceInv, OthersStay
<1>3. InsideInv'
  <2>1. \A u \in Threads, t \in Tables : Inside(u, t)' <=> Inside(u, t)
    BY <1>a DEF Inside, Entering, Leaving, OthersStay
  <2>2. QED
    BY <1>0, <1>a, <2>1 DEF InsideInv
<1>4. \A t \in Tables, u \in Threads : Writing(u, t)' <=> Writing(u, t)
  BY <1>a DEF Writing, OthersStay
<1>5. WriterInv'
  BY <1>0, <1>a, <1>b, <1>4 DEF WriterInv, Kept
<1>6. Steady
  BY <1>a DEF Steady, LocksOf, ReadLocks, OthersStay
<1>7. \A t \in Tables \ {t0} : Kept(t)' <=> Kept(t)
  BY <1>a, <1>4 DEF Kept
<1>8. SettledInv'
  BY <1>0, <1>b, <1>6, <1>7, SteadyReaders DEF SettledInv, Readers
<1>9. LastInv'
  <2>1. \A o \in Threads : pc[o] = "lastOut" /\ Leaving(o) = t0 => o = th
    BY <1>a, <1>p, AloneInside DEF Inside
  <2>2. ASSUME NEW o \in Threads, NEW t \in Tables, pc'[o] = "lastOut", Leaving(o)' = t
        PROVE  Kept(t)' /\ Readers(t)' = {} /\ reader'[t] = 0
    <3>1. o # th /\ pc[o] = "lastOut" /\ Leaving(o) = t
      BY <2>2, <1>a DEF Leaving, OthersStay
    <3>2. QED
      BY <3>1, <2>1, <1>0, <1>a, <1>6, <1>7, SteadyReaders DEF LastInv
  <2>3. QED
    BY <2>2 DEF LastInv
<1>10. CountInv'
  <2>1. Exact(t0)'
    BY <1>a, <1>b, <1>6, SteadyReaders, ReadersCount DEF Exact
  <2>2. \A t \in Tables \ {t0} : Exact(t)' \/ LostCount(t)'
    BY <1>0, <1>a, <1>6, <1>7, SteadyReaders DEF CountInv, Exact, LostCount
  <2>3. QED
    BY <2>1, <2>2 DEF CountInv
<1>11. QED
  BY <1>1, <1>2, <1>3, <1>5, <1>8, <1>9, <1>10 DEF IInv

LEMMA BeginWriteInductive ==
    ASSUME IInv, NEW th \in Threads, BeginWrite(th)
    PROVE  IInv'
<1> USE DEF Goto
<1>0. LockTypes /\ PlaceInv /\ InsideInv /\ WriterInv
  BY DEF IInv
<1>p. PICK t0 \in Tables : t0 = op[th].write
  BY <1>0, NamedTables DEF BeginWrite
<1>a. /\ pc[th] = "beginWrite" /\ pc'[th] = "work" /\ pc' = [pc EXCEPT ![th] = "work"]
      /\ ~ mx_writer[t0] /\ mx_writer'[t0]
      /\ \A t \in Tables \ {t0} : mx_writer'[t] = mx_writer[t]
      /\ mx_writer' = [mx_writer EXCEPT ![t0] = TRUE]
      /\ OthersStay(th)
      /\ UNCHANGED <<reader, mx_reader, op, held>>
  BY <1>0, <1>p DEF BeginWrite, LockTypes, OthersStay
<1>1. LockTypes'
  BY <1>0, <1>a DEF LockTypes, PCs
<1>2. PlaceInv'
  BY <1>0, <1>a DEF PlaceInv, OthersStay
<1>3. InsideInv'
  <2>1. \A u \in Threads, t \in Tables : Inside(u, t)' <=> Inside(u, t)
    BY <1>a DEF Inside, Entering, Leaving, OthersStay
  <2>2. QED
    BY <1>0, <1>a, <2>1 DEF InsideInv
<1>4. \A t \in Tables, u \in Threads : Writing(u, t)' <=> Writing(u, t) \/ (u = th /\ t = t0)
  BY <1>a, <1>p DEF Writing, OthersStay
<1>5. WriterInv'
  <2>1. \A u \in Threads : ~ Writing(u, t0)
    BY <1>0, <1>a DEF WriterInv
  <2>2. QED
    BY <1>0, <1>a, <1>4, <2>1 DEF WriterInv
<1>6. Steady
  BY <1>a DEF Steady, LocksOf, ReadLocks, OthersStay
<1>7. \A t \in Tables : Kept(t) => Kept(t)'
  BY <1>a, <1>4 DEF Kept
<1>8. QED
  BY <1>1, <1>2, <1>3, <1>5, <1>6, <1>7, <1>a, SteadyStep DEF IInv

LEMMA EndWriteInductive ==
    ASSUME IInv, NEW th \in Threads, EndWrite(th)
    PROVE  IInv'
<1> USE DEF Goto
<1>0. LockTypes /\ PlaceInv /\ InsideInv /\ WriterInv
  BY DEF IInv
<1>p. PICK t0 \in Tables : t0 = op[th].write
  BY <1>0, NamedTables DEF EndWrite
<1> DEFINE next == Release(held[th])
<1>a. /\ pc[th] = "endWrite" /\ pc'[th] = next /\ pc' = [pc EXCEPT ![th] = next]
      /\ held[th] = Len(op[th].reads) /\ held[th] \in 0..2
      /\ \A t \in Tables \ {t0} : mx_writer'[t] = mx_writer[t]
      /\ mx_writer' = [mx_writer EXCEPT ![t0] = FALSE]
      /\ OthersStay(th)
      /\ UNCHANGED <<reader, mx_reader, op, held>>
  BY <1>0, <1>p DEF EndWrite, LockTypes, PlaceInv, OthersStay
<1>b. next = IF held[th] > 0 THEN "endRead" ELSE "idle"
  BY DEF Release
<1>c. Writing(th, t0)
  BY <1>a, <1>p DEF Writing
<1>1. LockTypes'
  BY <1>0, <1>a, <1>b DEF LockTypes, PCs
<1>2. PlaceInv'
  BY <1>0, <1>a, <1>b DEF PlaceInv, OthersStay
<1>3. InsideInv'
  <2>1. \A u \in Threads, t \in Tables : Inside(u, t)' <=> Inside(u, t)
    BY <1>a, <1>b DEF Inside, Entering, Leaving, OthersStay
  <2>2. QED
    BY <1>0, <1>a, <2>1 DEF InsideInv
<1>4. \A t \in Tables, u \in Threads : Writing(u, t)' <=> Writing(u, t) /\ u # th
  BY <1>a, <1>b DEF Writing, OthersStay
<1>5. WriterInv'
  BY <1>0, <1>a, <1>c, <1>4 DEF WriterInv
<1>6. Steady
  BY <1>a, <1>b DEF Steady, LocksOf, ReadLocks, OthersStay
<1>7. \A t \in Tables : Kept(t) => Kept(t)'
  BY <1>a, <1>c, <1>4 DEF Kept
<1>8. QED
  BY <1>1, <1>2, <1>3, <1>5, <1>6, <1>7, <1>a, SteadyStep DEF IInv

LEMMA WorkInductive ==
    ASSUME IInv, NEW th \in Threads, Look(th) \/ Put(th)
    PROVE  IInv'
<1> USE DEF Goto
<1> DEFINE after == AfterWork(op[th])
<1>0. LockTypes /\ PlaceInv /\ InsideInv /\ WriterInv
  BY DEF IInv
<1>a. /\ pc[th] = "work"
      /\ pc' = pc \/ pc' = [pc EXCEPT ![th] = after]
      /\ UNCHANGED <<reader, mx_reader, mx_writer, op, held>>
  BY DEF Look, Put, locks
<1>b. /\ pc'[th] = "work" \/ pc'[th] = after
      /\ held[th] = Len(op[th].reads) /\ held[th] \in 0..2
      /\ OthersStay(th)
  BY <1>0, <1>a DEF LockTypes, PlaceInv, OthersStay
<1>c. after = IF op[th].write # NoTable THEN "endWrite"
              ELSE IF Len(op[th].reads) > 0 THEN "endRead" ELSE "idle"
  BY DEF AfterWork, Release
<1>1. LockTypes'
  BY <1>0, <1>a, <1>c DEF LockTypes, PCs
<1>2. PlaceInv'
  BY <1>0, <1>a, <1>b, <1>c DEF PlaceInv, OthersStay
<1>3. InsideInv'
  <2>1. \A u \in Threads, t \in Tables : Inside(u, t)' <=> Inside(u, t)
    BY <1>a, <1>b, <1>c DEF Inside, Entering, Leaving, OthersStay
  <2>2. QED
    BY <1>0, <1>a, <2>1 DEF InsideInv
<1>4. \A t \in Tables, u \in Threads : Writing(u, t)' <=> Writing(u, t)
  BY <1>a, <1>b, <1>c, Sizes DEF Writing, OthersStay
<1>5. WriterInv'
  BY <1>0, <1>a, <1>4 DEF WriterInv
<1>6. Steady
  BY <1>a, <1>b, <1>c DEF Steady, LocksOf, ReadLocks, OthersStay
<1>7. \A t \in Tables : Kept(t) => Kept(t)'
  BY <1>a, <1>4 DEF Kept
<1>8. QED
  BY <1>1, <1>2, <1>3, <1>5, <1>6, <1>7, <1>a, SteadyStep DEF IInv

LEMMA CountOutInductive ==
    ASSUME IInv, NEW th \in Threads, CountOut(th)
    PROVE  IInv'
<1> USE DEF Goto
<1>0. LockTypes /\ PlaceInv /\ InsideInv /\ WriterInv /\ SettledInv /\ LastInv /\ CountInv
  BY DEF IInv
<1>p. PICK t0 \in Tables : t0 = Leaving(th)
  BY <1>0, NamedTables DEF CountOut
<1> DEFINE k == held[th]
           x0 == <<th, k>>
           final == reader'[t0] = 0
<1>a. /\ pc[th] = "countOut" /\ pc'[th] = IF final THEN "lastOut" ELSE "unlockOut"
      /\ reader'[t0] = (reader[t0] - 1) % ReaderMod
      /\ \A t \in Tables \ {t0} : reader'[t] = reader[t]
      /\ reader' = [reader EXCEPT ![t0] = (@ - 1) % ReaderMod]
      /\ pc' = [pc EXCEPT ![th] = IF final THEN "lastOut" ELSE "unlockOut"]
      /\ OthersStay(th)
      /\ UNCHANGED <<mx_reader, mx_writer, op, held>>
  BY <1>0, <1>p DEF CountOut, LockTypes, OthersStay
<1>b. k \in 1..2 /\ op[th].reads[k] = t0 /\ reader[t0] \in 0..(ReaderMod - 1)
  BY <1>0, <1>a, <1>p, NamedTables DEF Leaving, LockTypes
<1>c. reader'[t0] = IF reader[t0] = 0 THEN ReaderMod - 1 ELSE reader[t0] - 1
  BY <1>a, <1>b, Decrement
<1>d. /\ Waiting(t0) = {}
      /\ \A o \in Threads : ~ (pc[o] = "lastOut" /\ Leaving(o) = t0)
  BY <1>a, <1>p, AloneInside DEF Inside
\* The read locks: one less.
<1>e. /\ LocksOf(th) = k /\ LocksOf(th)' = k - 1
      /\ \A o \in Threads \ {th} : LocksOf(o)' = LocksOf(o)
  BY <1>a DEF LocksOf, ReadLocks, OthersStay
<1>f. /\ Settled(t0)' = Settled(t0) \ {x0}
      /\ Waiting(t0)' = {}
      /\ x0 \in Settled(t0)
  <2>1. x0 \in Settled(t0)
    BY <1>b, <1>e DEF Places, Settled
  <2>2. ASSUME NEW x \in Places
        PROVE  x \in Settled(t0)' <=> x \in Settled(t0) /\ x # x0
    <3>1. CASE x[1] # th
      BY <3>1, <1>a, <1>e DEF Settled, Places
    <3>2. CASE x[1] = th
      <4>1. x[2] \in 1..2 /\ x = <<th, x[2]>>
        BY <3>2 DEF Places
      <4>2. x[2] <= k - 1 <=> x[2] <= k /\ x[2] # k
        BY <4>1, <1>b
      <4>3. QED
        BY <3>2, <4>1, <4>2, <1>a, <1>b, <1>e DEF Settled
    <3>3. QED
      BY <3>1, <3>2
  <2>3. ASSUME NEW x \in Waiting(t0)'
        PROVE  FALSE
    <3>1. x[1] # th
      BY <2>3, <1>a DEF Waiting
    <3>2. x \in Waiting(t0)
      BY <2>3, <3>1, <1>a DEF Waiting, Places, OthersStay
    <3>3. QED
      BY <3>2, <1>d
  <2>4. Settled(t0)' \subseteq Places /\ Settled(t0) \subseteq Places
    BY DEF Settled
  <2>5. Settled(t0)' = Settled(t0) \ {x0}
    BY <2>2, <2>4
  <2>6. QED
    BY <2>1, <2>3, <2>5
<1>g. ASSUME NEW t \in Tables \ {t0}
      PROVE  Settled(t)' = Settled(t) /\ Waiting(t)' = Waiting(t)
  <2>1. ASSUME NEW x \in Places
        PROVE  /\ x \in Settled(t)' <=> x \in Settled(t)
               /\ x \in Waiting(t)' <=> x \in Waiting(t)
    <3>1. CASE x[1] # th
      BY <3>1, <1>a, <1>e DEF Settled, Waiting, Places, OthersStay
    <3>2. CASE x[1] = th
      <4>1. x[2] \in 1..2
        BY DEF Places
      <4>2. x[2] <= k <=> x[2] <= k - 1 \/ x[2] = k
        BY <4>1, <1>b
      <4>3. QED
        BY <3>2, <4>2, <1>a, <1>b, <1>e DEF Settled, Waiting
    <3>3. QED
      BY <3>1, <3>2
  <2>2. Settled(t)' \subseteq Places /\ Settled(t) \subseteq Places
    BY DEF Settled
  <2>3. Waiting(t)' \subseteq Places /\ Waiting(t) \subseteq Places
    BY DEF Waiting
  <2>4. QED
    BY <2>1, <2>2, <2>3
<1>h. /\ Readers(t0) # {}
      /\ Number(t0)' = Number(t0) - 1
      /\ Number(t0) \in Nat /\ 1 <= Number(t0) /\ Number(t0) <= 2 * Cardinality(Threads)
      /\ Number(t0)' = 0 => Readers(t0)' = {}
  <2>1. x0 \in Readers(t0) /\ Readers(t0)' = Readers(t0) \ {x0}
    BY <1>d, <1>f DEF Readers
  <2>2. Number(t0)' = Number(t0) - 1
    <3>1. IsFiniteSet(Readers(t0))
      BY ReadersCount
    <3>2. Cardinality(Readers(t0) \ {x0}) = Cardinality(Readers(t0)) - 1
      BY <2>1, <3>1, FS_RemoveElement
    <3>3. QED
      BY <2>1, <3>2 DEF Number
  <2>3. QED
    BY <2>1, <2>2, ReadersCount
<1>1. LockTypes'
  <2>1. reader'[t0] \in 0..(ReaderMod - 1)
    BY <1>b, <1>c, Sizes
  <2>2. reader' \in [Tables -> 0..(ReaderMod - 1)]
    BY <2>1, <1>0, <1>a DEF LockTypes
  <2>3. QED
    BY <1>0, <1>a, <2>2 DEF LockTypes, PCs
<1>2. PlaceInv'
  BY <1>0, <1>a DEF PlaceInv, OthersStay
<1>3. InsideInv'
  <2>1. \A u \in Threads, t \in Tables : Inside(u, t)' <=> Inside(u, t)
    BY <1>a DEF Inside, Entering, Leaving, OthersStay
  <2>2. QED
    BY <1>0, <1>a, <2>1 DEF InsideInv
<1>4. \A t \in Tables, u \in Threads : Writing(u, t)' <=> Writing(u, t)
  BY <1>a DEF Writing, OthersStay
<1>5. WriterInv'
  BY <1>0, <1>a, <1>4 DEF WriterInv
<1>6. (\A t \in Tables : Kept(t)' <=> Kept(t)) /\ Kept(t0)
  BY <1>0, <1>a, <1>f, <1>4 DEF Kept, SettledInv
<1>8. SettledInv'
  BY <1>0, <1>6, <1>f, <1>g DEF SettledInv
\* A lost count does not come down to zero.
<1>7. \/ Exact(t0)' /\ Number(t0)' = reader'[t0]
      \/ LostCount(t0)' /\ reader'[t0] # 0
  <2>1. CASE Exact(t0)
    <3>1. reader'[t0] = Number(t0)'
      BY <2>1, <1>b, <1>c, <1>h DEF Exact
    <3>2. QED
      BY <3>1 DEF Exact
  <2>2. CASE LostCount(t0)
    <3>1. CASE reader[t0] = 0
      <4>1. reader'[t0] = ReaderMod - 1
        BY <3>1, <1>c
      <4>2. reader'[t0] + 2 * Cardinality(Threads) >= ReaderMod + Number(t0)' /\ reader'[t0] # 0
        BY <4>1, <1>h, Sizes
      <4>3. QED
        BY <4>2, <1>6 DEF LostCount
    <3>2. CASE reader[t0] + 2 * Cardinality(Threads) >= ReaderMod + Number(t0)
      <4>1. reader[t0] > 2
        BY <3>2, <1>b, <1>h, Sizes
      <4>2. reader'[t0] + 2 * Cardinality(Threads) >= ReaderMod + Number(t0)' /\ reader'[t0] # 0
        BY <3>2, <4>1, <1>b, <1>c, <1>h, Sizes
      <4>3. QED
        BY <4>2, <1>6 DEF LostCount
    <3>3. QED
      BY <2>2, <3>1, <3>2, <1>d DEF LostCount
  <2>3. QED
    BY <1>0, <2>1, <2>2 DEF CountInv
<1>9. LastInv'
  <2>1. ASSUME NEW o \in Threads, NEW t \in Tables, pc'[o] = "lastOut", Leaving(o)' = t
        PROVE  Kept(t)' /\ Readers(t)' = {} /\ reader'[t] = 0
    <3>1. CASE o = th
      <4>1. t = t0 /\ final
        BY <2>1, <3>1, <1>a, <1>p, SMTT(60) DEF Leaving
      <4>2. QED
        BY <4>1, <1>6, <1>7, <1>h
    <3>2. CASE o # th
      <4>1. pc[o] = "lastOut" /\ Leaving(o) = t
        BY <2>1, <3>2, <1>a DEF Leaving, OthersStay
      <4>2. t # t0
        BY <4>1, <1>d
      <4>3. QED
        BY <4>1, <4>2, <1>0, <1>a, <1>6, <1>g DEF LastInv, Readers
    <3>3. QED
      BY <3>1, <3>2
  <2>2. QED
    BY <2>1 DEF LastInv
<1>10. CountInv'
  <2>1. ASSUME NEW t \in Tables \ {t0}
        PROVE  Exact(t)' \/ LostCount(t)'
    <3>1. Readers(t)' = Readers(t) /\ Number(t)' = Number(t)
      BY <1>g DEF Readers, Number
    <3>2. QED
      BY <3>1, <1>0, <1>a, <1>6, <1>g DEF CountInv, Exact, LostCount
  <2>2. QED
    BY <2>1, <1>7 DEF CountInv
<1>11. QED
  BY <1>1, <1>2, <1>3, <1>5, <1>8, <1>9, <1>10 DEF IInv
-----------------------------------------------------------------------------
LEMMA InitInductive == Init => IInv
<1> SUFFICES ASSUME Init
             PROVE  IInv
  OBVIOUS
<1>1. LockTypes
  <2>1. 0 \in 0..(ReaderMod - 1)
    BY Sizes
  <2>2. QED
    BY <2>1 DEF Init, LockTypes, PCs
<1>2. PlaceInv
  BY DEF Init, PlaceInv
<1>3. InsideInv /\ WriterInv /\ LastInv
  BY DEF Init, InsideInv, Inside, WriterInv, Writing, LastInv
<1>4. \A t \in Tables : Settled(t) = {} /\ Readers(t) = {}
  <2>1. \A x \in Places : LocksOf(x[1]) = 0 /\ x[2] \in 1..2 /\ pc[x[1]] = "idle"
    BY DEF Init, Places, LocksOf, ReadLocks
  <2>2. \A t \in Tables : Settled(t) = {}
    BY <2>1 DEF Settled
  <2>3. \A t \in Tables : Waiting(t) = {}
    BY <2>1 DEF Waiting
  <2>4. QED
    BY <2>2, <2>3 DEF Readers
<1>5. SettledInv
  BY <1>4 DEF SettledInv
<1>6. CountInv
  <2>1. \A t \in Tables : reader[t] = 0 /\ Number(t) = 0
    BY <1>4, FS_EmptySet DEF Init, Number
  <2>2. QED
    BY <2>1 DEF CountInv, Exact
<1>7. QED
  BY <1>1, <1>2, <1>3, <1>5, <1>6 DEF IInv

LEMMA StutterInductive == ASSUME IInv, UNCHANGED vars PROVE IInv'
<1>1. UNCHANGED <<reader, mx_reader, mx_writer, op, pc, held>>
  BY DEF vars
<1>2. LockTypes' /\ PlaceInv' /\ InsideInv' /\ WriterInv'
  BY <1>1 DEF IInv, LockTypes, PlaceInv, InsideInv, Inside, Entering, Leaving, WriterInv, Writing
<1>3. Steady
  BY <1>1 DEF Steady, LocksOf, ReadLocks
<1>4. \A t \in Tables : Kept(t) => Kept(t)'
  BY <1>1 DEF Kept, Writing
<1>5. QED
  BY <1>1, <1>2, <1>3, <1>4, SteadyStep DEF IInv

\* Every step of every thread preserves the invariant.
LEMMA NextInductive == IInv /\ [Next]_vars => IInv'
<1>1. ASSUME IInv, NEW th \in Threads, Start(th) \/ Step(th)
      PROVE  IInv'
  BY <1>1, StartInductive, ResetInductive, BeginReadInductive, CountInInductive,
     FirstInInductive, UnlockInInductive, EndReadInductive, CountOutInductive,
     LastOutInductive, UnlockOutInductive, BeginWriteInductive, EndWriteInductive,
     WorkInductive DEF Step
<1>2. QED
  BY <1>1, StutterInductive DEF Next

\* Whatever the operations and however many threads call them, the places, the two
\* mutexes and the counter of zend_ts_hash.c are related as IInv says.
THEOREM Invariance == Spec => []IInv
BY InitInductive, NextInductive, PTL DEF Spec

\* begin_read/begin_write exclude: no thread writes a table that another one writes or
\* reads, for any number of threads and tables, nested read locks and resets included.
THEOREM ExclusionHolds == Spec => []Exclusion
<1>1. IInv => Exclusion
  <2> SUFFICES ASSUME IInv,
                      NEW t \in Tables, NEW th1 \in Threads, NEW th2 \in Threads,
                      th1 # th2, Writing(th1, t)
               PROVE  ~ Writing(th2, t) /\ ~ Reading(th2, t)
    BY DEF Exclusion
  <2>1. ~ Writing(th2, t)
    BY DEF IInv, WriterInv
  <2>2. ASSUME NEW k \in 1..ReadLocks(th2), op[th2].reads[k] = t
        PROVE  FALSE
    <3>1. ReadLocks(th2) \in -1..2 /\ held[th2] \in 0..2
      BY DEF IInv, LockTypes, ReadLocks
    <3>2. k \in 1..2 /\ k <= LocksOf(th2)
      BY <3>1 DEF LocksOf, ReadLocks
    <3>3. <<th2, k>> \in Settled(t)
      BY <2>2, <3>2 DEF Settled, Places
    <3>4. QED
      BY <3>3 DEF IInv, SettledInv, Kept
  <2>3. QED
    BY <2>1, <2>2 DEF Reading
<1>2. QED
  BY <1>1, Invariance, PTL
-----------------------------------------------------------------------------
(***************************************************************************)
(* That TsHash implements TsHashAtomic: every zend_ts_hash call takes       *)
(* effect at one instant, on all the tables it names, although the          *)
(* zend_hash functions between the locks look at and change a table's       *)
(* contents piece by piece.  The instant is the last piece that the call    *)
(* reads, or the last one that it writes.                                   *)
(*                                                                         *)
(* This adds to the exclusion what the threads do with the contents: what   *)
(* a thread has seen is still what the tables contain (SeenInv), and only   *)
(* the thread that is half-way through writing a table leaves its halves    *)
(* different (HalfInv, WholeInv).                                           *)
(***************************************************************************)
\* Where a call waits for its locks: it has done nothing yet.
Before == {"reset", "beginRead", "countIn", "firstIn", "unlockIn", "beginWrite"}

\* The half that a thread writes, and the table it is half-way through.
Half(th, h) == IF op[th].reads = <<>> THEN op[th].value ELSE seen[th][h]
HalfWay(th, t) == pc[th] = "work" /\ op[th].write = t /\ puts[th] = 1

WorkTypes ==
    /\ data \in [Tables -> Values \X Values]
    /\ seen \in [Threads -> Seq(Values)]
    /\ puts \in [Threads -> 0..2]
    /\ calls \in [Threads -> 0..MaxCalls]
    /\ dirty \in SUBSET Tables
    /\ last = [th \in Threads |-> last[th]]

\* A thread that is not idle is inside one of the operations that may be called.
CalledInv == \A th \in Threads : pc[th] # "idle" => op[th] \in Ops

\* What a call has read and written where it is.
ProgressInv == \A th \in Threads :
    /\ pc[th] \in Before => seen[th] = <<>> /\ puts[th] = 0
    /\ pc[th] = "work" => /\ Len(seen[th]) <= 2 * Len(op[th].reads)
                          /\ puts[th] \in {0, 1}
                          /\ op[th].write = NoTable => Looks(th)
                          /\ puts[th] = 1 => ~ Looks(th)

\* What it has read is what its tables still contain, both halves of one write.
Intact(th, k) ==
    /\ 2 * k - 1 <= Len(seen[th]) => seen[th][2 * k - 1] = data[op[th].reads[k]][1]
    /\ 2 * k <= Len(seen[th]) => /\ seen[th][2 * k] = data[op[th].reads[k]][2]
                                 /\ seen[th][2 * k - 1] = seen[th][2 * k]
SeenInv == \A th \in Threads : pc[th] = "work" => \A k \in 1..Len(op[th].reads) : Intact(th, k)

\* A table's halves are those of one write, unless a writer is half-way through.
HalfInv == \A t \in Tables : \A th \in Threads : HalfWay(th, t) => data[t][1] = Half(th, 1)
WholeInv == \A t \in Tables : (\A th \in Threads : ~ HalfWay(th, t)) => data[t][1] = data[t][2]

WorkInv == WorkTypes /\ CalledInv /\ ProgressInv /\ SeenInv /\ HalfInv /\ WholeInv
-----------------------------------------------------------------------------
\* What the contents depend on in an operation.
LEMMA WorkShape ==
    \A o \in Ops : /\ Len(o.reads) \in 0..2
                   /\ o.reads = <<>> <=> Len(o.reads) = 0
                   /\ \A k \in 1..Len(o.reads) : o.reads[k] \in Tables
                   /\ o.write \in Tables \cup {NoTable}
                   /\ o.value \in Values
                   /\ Len(o.reads) = 0 => o.write \in Tables
                   /\ Len(o.reads) = 2 => o.write = NoTable
BY OpsAssumption DEF AllOps

\* The operation of a thread that is at work.
LEMMA AtWork ==
    ASSUME LockTypes, PlaceInv, CalledInv, NEW th \in Threads, pc[th] = "work"
    PROVE  op[th] \in Ops /\ held[th] = Len(op[th].reads)
BY DEF PlaceInv, CalledInv

\* Two threads at work: neither writes what the other one reads or writes.
LEMMA WorkExcluded ==
    ASSUME LockTypes, PlaceInv, CalledInv, Exclusion,
           NEW th \in Threads, NEW other \in Threads, th # other,
           pc[th] = "work", pc[other] = "work"
    PROVE  /\ op[th].write = op[other].write => op[th].write = NoTable
           /\ \A k \in 1..Len(op[other].reads) : op[other].reads[k] # op[th].write
<1>1. /\ op[th] \in Ops /\ op[th].write \in Tables \cup {NoTable}
      /\ op[other] \in Ops /\ held[other] = Len(op[other].reads)
  BY AtWork, WorkShape
<1>2. ReadLocks(other) = Len(op[other].reads)
  BY <1>1 DEF ReadLocks
<1>3. CASE op[th].write = NoTable
  BY <1>1, <1>3, WorkShape, Sizes
<1>4. CASE op[th].write \in Tables
  <2>1. Writing(th, op[th].write)
    BY DEF Writing
  <2>2. ~ Writing(other, op[th].write) /\ ~ Reading(other, op[th].write)
    BY <1>4, <2>1 DEF Exclusion
  <2>3. QED
    BY <1>2, <2>2 DEF Writing, Reading
<1>5. QED
  BY <1>1, <1>3, <1>4

\* The half that a thread looks at next: half h of the table that it reads k-th.
LEMMA NextHalf ==
    ASSUME NEW n \in Nat, NEW m \in 0..2, n < 2 * m
    PROVE  \E k \in 1..m, h \in 1..2 :
               n = 2 * k - 2 + (h - 1) /\ n \div 2 = k - 1 /\ n % 2 = h - 1
<1>1. n \in 0..3
  OBVIOUS
<1>2. /\ 0 \div 2 = 0 /\ 1 \div 2 = 0 /\ 2 \div 2 = 1 /\ 3 \div 2 = 1
      /\ 0 % 2 = 0 /\ 1 % 2 = 1 /\ 2 % 2 = 0 /\ 3 % 2 = 1
  OBVIOUS
<1>3. CASE n = 0
  <2>1. 1 \in 1..m /\ 1 \in 1..2
    BY <1>3
  <2>2. QED
    BY <1>2, <1>3, <2>1
<1>4. CASE n = 1
  <2>1. 1 \in 1..m /\ 2 \in 1..2
    BY <1>4
  <2>2. QED
    BY <1>2, <1>4, <2>1
<1>5. CASE n = 2
  <2>1. 2 \in 1..m /\ 1 \in 1..2
    BY <1>5
  <2>2. QED
    BY <1>2, <1>5, <2>1
<1>6. CASE n = 3
  <2>1. 2 \in 1..m /\ 2 \in 1..2
    BY <1>6
  <2>2. QED
    BY <1>2, <1>6, <2>1
<1>7. QED
  BY <1>1, <1>3, <1>4, <1>5, <1>6
-----------------------------------------------------------------------------
\* A step that takes or releases a lock leaves the contents alone, and a thread that
\* gets to work has seen and written nothing.
Locking == /\ UNCHANGED <<data, seen, puts, last, op, calls>>
           /\ dirty' \in SUBSET Tables
           /\ \A th \in Threads : \/ pc'[th] = pc[th]
                                  \/ pc[th] \in Before /\ pc'[th] \in Before \cup {"work"}
                                  \/ /\ pc[th] # "idle"
                                     /\ pc[th] # "work"
                                     /\ pc'[th] \notin Before \cup {"work"}

LEMMA LockingInductive ==
    ASSUME LockTypes, WorkInv, Locking
    PROVE  WorkInv'
<1>0. WorkTypes /\ CalledInv /\ ProgressInv /\ SeenInv /\ HalfInv /\ WholeInv
  BY DEF WorkInv
<1>a. UNCHANGED <<data, seen, puts, last, op, calls>> /\ dirty' \in SUBSET Tables
  BY DEF Locking
<1>b. \A th \in Threads : \/ pc'[th] = pc[th]
                          \/ pc[th] \in Before /\ pc'[th] = "work"
                          \/ pc[th] \in Before /\ pc'[th] \in Before
                          \/ /\ pc[th] \notin {"idle", "work"}
                             /\ pc'[th] \notin Before \cup {"work"}
  BY DEF Locking
<1>1. WorkTypes'
  BY <1>0, <1>a DEF WorkTypes
<1>2. CalledInv'
  BY <1>0, <1>a, <1>b DEF CalledInv, Before
<1>3. \A th \in Threads : pc'[th] = "work" =>
          pc[th] = "work" \/ (op[th] \in Ops /\ seen[th] = <<>> /\ puts[th] = 0)
  BY <1>0, <1>b DEF ProgressInv, CalledInv, Before
<1>4. ProgressInv'
  <2> SUFFICES ASSUME NEW th \in Threads
               PROVE  /\ pc'[th] \in Before => seen[th] = <<>> /\ puts[th] = 0
                      /\ pc'[th] = "work" =>
                            /\ Len(seen[th]) <= 2 * Len(op[th].reads)
                            /\ puts[th] \in {0, 1}
                            /\ op[th].write = NoTable => Looks(th)
                            /\ puts[th] = 1 => ~ Looks(th)
    BY <1>a DEF ProgressInv, Looks
  <2>1. ASSUME pc'[th] \in Before
        PROVE  seen[th] = <<>> /\ puts[th] = 0
    BY <1>0, <1>b, <2>1 DEF ProgressInv, Before
  <2>2. CASE pc[th] = "work"
    BY <1>0, <2>1, <2>2 DEF ProgressInv
  <2>3. CASE pc'[th] = "work" /\ pc[th] # "work"
    <3>1. op[th] \in Ops /\ Len(seen[th]) = 0 /\ puts[th] = 0
      BY <1>3, <2>3
    <3>2. QED
      BY <2>1, <2>3, <3>1, WorkShape, Sizes DEF Looks
  <2>4. QED
    BY <2>1, <2>2, <2>3
<1>5. SeenInv'
  <2> SUFFICES ASSUME NEW th \in Threads, pc'[th] = "work", NEW k \in 1..Len(op[th].reads)
               PROVE  Intact(th, k)
    BY <1>a DEF SeenInv, Intact
  <2>1. CASE pc[th] = "work"
    BY <1>0, <2>1 DEF SeenInv
  <2>2. CASE pc[th] # "work"
    <3>1. Len(seen[th]) = 0 /\ op[th] \in Ops
      BY <1>3, <2>2
    <3>2. Len(op[th].reads) \in Nat
      BY <3>1, WorkShape
    <3>3. ~ (2 * k - 1 <= Len(seen[th])) /\ ~ (2 * k <= Len(seen[th]))
      BY <3>1, <3>2
    <3>4. QED
      BY <3>3 DEF Intact
  <2>3. QED
    BY <2>1, <2>2
<1>6. \A th \in Threads, t \in Tables : HalfWay(th, t)' <=> HalfWay(th, t)
  BY <1>3, <1>a, <1>b DEF HalfWay, Before
<1>7. HalfInv' /\ WholeInv'
  BY <1>0, <1>6, <1>a DEF HalfInv, WholeInv, Half
<1>8. QED
  BY <1>1, <1>2, <1>4, <1>5, <1>7 DEF WorkInv

LEMMA LockStepsLock ==
    ASSUME LockTypes, PlaceInv, WorkInv, NEW th \in Threads,
           \/ Reset(th) \/ BeginRead(th) \/ CountIn(th) \/ FirstIn(th) \/ UnlockIn(th)
           \/ EndRead(th) \/ CountOut(th) \/ LastOut(th) \/ UnlockOut(th)
           \/ BeginWrite(th) \/ EndWrite(th)
    PROVE  Locking
<1> USE DEF Goto, work
<1>0. /\ dirty \in SUBSET Tables
      /\ pc \in [Threads -> PCs]
      /\ held \in [Threads -> 0..2]
  BY DEF WorkInv, WorkTypes, LockTypes
<1>1. /\ pc[th] = "reset" => op[th].write \in Tables
      /\ Len(op[th].reads) \in 0..2
      /\ pc[th] = "unlockIn" => held[th] + 1 <= Len(op[th].reads)
  BY NamedTables, OpShape DEF LockTypes, PlaceInv
<1>2. UNCHANGED <<data, seen, puts, last, op, calls>>
  BY DEF Reset, BeginRead, CountIn, FirstIn, UnlockIn, EndRead, CountOut, LastOut, UnlockOut,
         BeginWrite, EndWrite
<1>3. dirty' \in SUBSET Tables
  BY <1>0, <1>1 DEF Reset, BeginRead, CountIn, FirstIn, UnlockIn, EndRead, CountOut, LastOut,
                    UnlockOut, BeginWrite, EndWrite
<1>4. \A other \in Threads : other # th => pc'[other] = pc[other]
  BY <1>0 DEF Reset, BeginRead, CountIn, FirstIn, UnlockIn, EndRead, CountOut, LastOut, UnlockOut,
              BeginWrite, EndWrite
<1>5. \/ pc[th] \in Before /\ pc'[th] \in Before \cup {"work"}
      \/ /\ pc[th] # "idle"
         /\ pc[th] # "work"
         /\ pc'[th] \notin Before \cup {"work"}
  <2>1. CASE UnlockIn(th)
    <3>1. pc'[th] = Acquire(op[th], held[th] + 1) /\ pc[th] = "unlockIn"
      BY <2>1, <1>0 DEF UnlockIn
    <3>2. QED
      BY <3>1 DEF Acquire, Before
  <2>2. CASE UnlockOut(th) \/ EndWrite(th)
    BY <2>2, <1>0 DEF UnlockOut, EndWrite, Release, Before
  <2>3. CASE \/ Reset(th) \/ BeginRead(th) \/ CountIn(th) \/ FirstIn(th) \/ BeginWrite(th)
    BY <2>3, <1>0 DEF Reset, BeginRead, CountIn, FirstIn, BeginWrite, Before
  <2>4. CASE EndRead(th) \/ CountOut(th) \/ LastOut(th)
    BY <2>4, <1>0 DEF EndRead, CountOut, LastOut, Before
  <2>5. QED
    BY <2>1, <2>2, <2>3, <2>4
<1>6. QED
  BY <1>2, <1>3, <1>4, <1>5 DEF Locking

LEMMA StartWork ==
    ASSUME LockTypes, WorkInv, NEW th \in Threads, Start(th)
    PROVE  WorkInv'
<1> USE DEF Goto, locks
<1>0. WorkTypes /\ CalledInv /\ ProgressInv /\ SeenInv /\ HalfInv /\ WholeInv
  BY DEF WorkInv
<1>p. PICK o \in Ops : /\ op' = [op EXCEPT ![th] = o]
                      /\ pc' = [pc EXCEPT ![th] = IF o.clean THEN "reset" ELSE Acquire(o, 0)]
  BY DEF Start
<1>a. /\ pc[th] = "idle" /\ calls[th] < MaxCalls
      /\ op'[th] = o /\ pc'[th] \in Before \cup {"work"}
      /\ \A u \in Threads \ {th} : op'[u] = op[u] /\ pc'[u] = pc[u]
      /\ seen' = [seen EXCEPT ![th] = <<>>] /\ puts' = [puts EXCEPT ![th] = 0]
      /\ calls' = [calls EXCEPT ![th] = @ + 1]
      /\ UNCHANGED <<data, last, dirty>>
  <2>1. (IF o.clean THEN "reset" ELSE Acquire(o, 0)) \in Before \cup {"work"}
    BY DEF Acquire, Before
  <2>2. pc \in [Threads -> PCs] /\ op \in [Threads -> Ops \cup {Idle}]
    BY DEF LockTypes
  <2>3. pc'[th] \in Before \cup {"work"} /\ op'[th] = o
    BY <1>p, <2>1, <2>2
  <2>4. \A u \in Threads \ {th} : op'[u] = op[u] /\ pc'[u] = pc[u]
    BY <1>p, <2>2
  <2>5. QED
    BY <2>3, <2>4 DEF Start
<1>b. /\ seen'[th] = <<>> /\ puts'[th] = 0
      /\ \A u \in Threads \ {th} : seen'[u] = seen[u] /\ puts'[u] = puts[u]
  BY <1>0, <1>a DEF WorkTypes
<1>1. WorkTypes'
  <2>1. calls[th] + 1 \in 0..MaxCalls
    BY <1>0, <1>a, SizesAssumption DEF WorkTypes
  <2>2. 0 \in 0..2 /\ <<>> \in Seq(Values)
    OBVIOUS
  <2>3. QED
    BY <1>0, <1>a, <2>1, <2>2 DEF WorkTypes
<1>2. CalledInv'
  BY <1>0, <1>a DEF CalledInv
<1>3. ProgressInv'
  <2>1. Len(o.reads) \in Nat /\ (o.write = NoTable => 0 < 2 * Len(o.reads))
    BY WorkShape, Sizes
  <2>2. QED
    BY <1>0, <1>a, <1>b, <2>1 DEF ProgressInv, Looks
<1>4. SeenInv'
  <2>1. Len(o.reads) \in Nat
    BY WorkShape
  <2>2. \A k \in 1..Len(o.reads) : ~ (2 * k - 1 <= 0) /\ ~ (2 * k <= 0)
    BY <2>1
  <2>3. Len(seen'[th]) = 0
    BY <1>b
  <2>4. ASSUME NEW u \in Threads, pc'[u] = "work", NEW k \in 1..Len(op'[u].reads)
        PROVE  Intact(u, k)'
    <3>1. CASE u = th
      BY <3>1, <1>a, <2>2, <2>3, <2>4 DEF Intact
    <3>2. CASE u # th
      <4>1. op'[u] = op[u] /\ pc'[u] = pc[u] /\ seen'[u] = seen[u] /\ data' = data
        BY <3>2, <1>a, <1>b
      <4>2. Intact(u, k)
        BY <4>1, <2>4, <1>0 DEF SeenInv
      <4>3. QED
        BY <4>1, <4>2 DEF Intact
    <3>3. QED
      BY <3>1, <3>2
  <2>5. QED
    BY <2>4 DEF SeenInv
<1>5. \A u \in Threads, t \in Tables : HalfWay(u, t)' <=> HalfWay(u, t)
  BY <1>a, <1>b DEF HalfWay
<1>6. HalfInv'
  <2>1. \A u \in Threads, t \in Tables : HalfWay(u, t) => Half(u, 1)' = Half(u, 1)
    BY <1>a, <1>b DEF HalfWay, Half
  <2>2. QED
    BY <1>0, <1>a, <1>5, <2>1 DEF HalfInv
<1>7. WholeInv'
  BY <1>0, <1>a, <1>5 DEF WholeInv
<1>8. QED
  BY <1>1, <1>2, <1>3, <1>4, <1>6, <1>7 DEF WorkInv
-----------------------------------------------------------------------------
\* The tables that a thread is still reading are whole.
LEMMA SourcesWhole ==
    ASSUME LockTypes, PlaceInv, WorkInv, Exclusion,
           NEW th \in Threads, pc[th] = "work", Looks(th), NEW k \in 1..Len(op[th].reads)
    PROVE  op[th].reads[k] \in Tables /\ data[op[th].reads[k]][1] = data[op[th].reads[k]][2]
<1>0. CalledInv /\ ProgressInv /\ WholeInv
  BY DEF WorkInv
<1>1. PICK t \in Tables : t = op[th].reads[k]
  BY <1>0, AtWork, WorkShape
<1>2. ASSUME NEW u \in Threads
      PROVE  ~ HalfWay(u, t)
  <2>1. CASE u = th
    BY <2>1, <1>0 DEF HalfWay, ProgressInv
  <2>2. CASE u # th
    BY <2>2, <1>0, <1>1, WorkExcluded DEF HalfWay
  <2>3. QED
    BY <2>1, <2>2
<1>3. QED
  BY <1>0, <1>1, <1>2 DEF WholeInv

\* A look adds half h of the table that the operation reads k-th.
Finishes(th, k, h) == k = Len(op[th].reads) /\ h = 2 /\ op[th].write = NoTable
LooksAt(th, k, h) ==
    /\ Len(seen[th]) = 2 * k - 2 + (h - 1)
    /\ seen' = [seen EXCEPT ![th] = Append(@, data[op[th].reads[k]][h])]
    /\ last' = IF Finishes(th, k, h)
               THEN [last EXCEPT ![th] = <<op[th], Saw(seen'[th])>>] ELSE last
    /\ pc' = IF Finishes(th, k, h) THEN [pc EXCEPT ![th] = AfterWork(op[th])] ELSE pc

LEMMA LookShape ==
    ASSUME LockTypes, PlaceInv, WorkInv, NEW th \in Threads, Look(th)
    PROVE  \E k \in 1..Len(op[th].reads), h \in 1..2 : LooksAt(th, k, h)
<1>0. CalledInv /\ WorkTypes
  BY DEF WorkInv
<1>1. pc[th] = "work" /\ Looks(th)
  BY DEF Look
<1>2. op[th] \in Ops /\ Len(op[th].reads) \in 0..2 /\ Len(seen[th]) \in Nat
  BY <1>0, <1>1, AtWork, WorkShape DEF WorkTypes
<1>3. Len(seen[th]) < 2 * Len(op[th].reads)
  BY <1>1 DEF Looks
<1>4. PICK k \in 1..Len(op[th].reads), h \in 1..2 :
          /\ Len(seen[th]) = 2 * k - 2 + (h - 1)
          /\ Len(seen[th]) \div 2 = k - 1 /\ Len(seen[th]) % 2 = h - 1
  BY <1>2, <1>3, NextHalf
<1>5. /\ (Len(seen[th]) \div 2) + 1 = k /\ (Len(seen[th]) % 2) + 1 = h
      /\ Len(seen[th]) + 1 = 2 * Len(op[th].reads) <=> k = Len(op[th].reads) /\ h = 2
  BY <1>2, <1>4
<1>6. seen' = [seen EXCEPT ![th] = Append(@, data[op[th].reads[k]][h])]
  BY <1>5 DEF Look
<1>7. /\ Finishes(th, k, h) =>
              /\ last' = [last EXCEPT ![th] = <<op[th], Saw(seen'[th])>>]
              /\ pc' = [pc EXCEPT ![th] = AfterWork(op[th])]
      /\ ~ Finishes(th, k, h) => last' = last /\ pc' = pc
  BY <1>5 DEF Look, Goto, Finishes
<1>8. LooksAt(th, k, h)
  BY <1>4, <1>6, <1>7 DEF LooksAt
<1>9. QED
  BY <1>8

\* After the work is done a thread has nothing to say about the contents.
LEMMA AfterShape ==
    ASSUME NEW o
    PROVE  AfterWork(o) \notin Before \cup {"work"}
BY DEF AfterWork, Release, Before

\* What a thread has seen, the half it has just looked at included, is what the tables
\* contain.
LEMMA LookIntact ==
    ASSUME LockTypes, PlaceInv, WorkInv, Exclusion, NEW th \in Threads, Look(th),
           NEW i \in 1..Len(op[th].reads)
    PROVE  Intact(th, i)'
<1>0. WorkTypes /\ CalledInv /\ ProgressInv /\ SeenInv /\ HalfInv /\ WholeInv
  BY DEF WorkInv
<1>a. /\ pc[th] = "work" /\ Looks(th) /\ pc \in [Threads -> PCs]
      /\ UNCHANGED <<data, op, puts, calls, dirty>>
  BY DEF Look, LockTypes
<1>b. op[th] \in Ops /\ Len(op[th].reads) \in 0..2 /\ seen[th] \in Seq(Values)
  BY <1>0, <1>a, AtWork, WorkShape DEF WorkTypes
<1>p. PICK k \in 1..Len(op[th].reads), h \in 1..2 : LooksAt(th, k, h)
  BY LookShape
<1>c. /\ Len(seen[th]) = 2 * k - 2 + (h - 1)
      /\ seen' = [seen EXCEPT ![th] = Append(@, data[op[th].reads[k]][h])]
      /\ \/ last' = last
         \/ last' = [last EXCEPT ![th] = <<op[th], Saw(seen'[th])>>]
      /\ \/ pc' = pc
         \/ pc' = [pc EXCEPT ![th] = AfterWork(op[th])]
      /\ k = Len(op[th].reads) /\ h = 2 /\ op[th].write = NoTable =>
              pc' = [pc EXCEPT ![th] = AfterWork(op[th])]
  BY <1>p DEF LooksAt, Finishes
<1>d. PICK half \in Values : half = data[op[th].reads[k]][h]
  BY <1>0, <1>b, WorkShape DEF WorkTypes
<1>e. /\ seen'[th] = Append(seen[th], half)
      /\ Len(seen'[th]) = 2 * k - 2 + h
      /\ seen'[th][2 * k - 2 + h] = half
      /\ \A n \in 1..(2 * k - 3 + h) : seen'[th][n] = seen[th][n]
      /\ \A u \in Threads \ {th} : seen'[u] = seen[u] /\ pc'[u] = pc[u]
  <2>1. seen'[th] = Append(seen[th], half)
    BY <1>0, <1>c, <1>d DEF WorkTypes
  <2>2. Len(seen[th]) + 1 = 2 * k - 2 + h /\ Len(seen[th]) = 2 * k - 3 + h
    BY <1>b, <1>c
  <2>3. Len(seen'[th]) = Len(seen[th]) + 1
    BY <2>1, <1>b
  <2>4. seen'[th][Len(seen[th]) + 1] = half
    BY <2>1, <1>b
  <2>5. \A n \in 1..Len(seen[th]) : seen'[th][n] = seen[th][n]
    BY <2>1, <1>b
  <2>6. \A u \in Threads \ {th} : seen'[u] = seen[u] /\ pc'[u] = pc[u]
    BY <1>0, <1>a, <1>c DEF WorkTypes
  <2>7. QED
    BY <2>1, <2>2, <2>3, <2>4, <2>5, <2>6
<1>f. /\ data[op[th].reads[k]][1] = half
      /\ data[op[th].reads[k]][2] = half
  BY <1>a, <1>d, SourcesWhole
<1>1. Intact(th, i)
  BY <1>0, <1>a DEF SeenInv
<1>2. CASE i < k
  <2>1. 2 * i - 1 \in 1..(2 * k - 3 + h) /\ 2 * i \in 1..(2 * k - 3 + h)
    BY <1>2, <1>b
  <2>2. 2 * i - 1 <= Len(seen[th]) /\ 2 * i <= Len(seen[th])
    BY <1>2, <1>b, <1>c
  <2>3. QED
    BY <1>1, <2>1, <2>2, <1>a, <1>e DEF Intact
<1>3. CASE i = k /\ h = 1
  <2>1. ~ (2 * i <= Len(seen'[th])) /\ 2 * i - 1 = 2 * k - 2 + h
    BY <1>3, <1>b, <1>e
  <2>2. QED
    BY <1>3, <2>1, <1>a, <1>e, <1>f DEF Intact
<1>4. CASE i = k /\ h = 2
  <2>1. 2 * i = 2 * k - 2 + h /\ 2 * i - 1 \in 1..(2 * k - 3 + h) /\ 2 * i - 1 <= Len(seen[th])
    BY <1>4, <1>b, <1>c
  <2>2. seen'[th][2 * i] = half /\ seen'[th][2 * i - 1] = half
    BY <1>1, <1>4, <2>1, <1>e, <1>f DEF Intact
  <2>3. QED
    BY <1>4, <2>2, <1>a, <1>f DEF Intact
<1>5. CASE i > k
  <2>1. ~ (2 * i - 1 <= Len(seen'[th])) /\ ~ (2 * i <= Len(seen'[th]))
    BY <1>5, <1>b, <1>e
  <2>2. QED
    BY <1>5, <2>1 DEF Intact
<1>6. QED
  BY <1>2, <1>3, <1>4, <1>5, <1>b

LEMMA LookWork ==
    ASSUME LockTypes, PlaceInv, WorkInv, Exclusion, NEW th \in Threads, Look(th)
    PROVE  WorkInv'
<1>0. WorkTypes /\ CalledInv /\ ProgressInv /\ SeenInv /\ HalfInv /\ WholeInv
  BY DEF WorkInv
<1>a. /\ pc[th] = "work" /\ Looks(th) /\ pc \in [Threads -> PCs]
      /\ UNCHANGED <<data, op, puts, calls, dirty>>
  BY DEF Look, LockTypes
<1>b. op[th] \in Ops /\ Len(op[th].reads) \in 0..2 /\ seen[th] \in Seq(Values)
  BY <1>0, <1>a, AtWork, WorkShape DEF WorkTypes
<1>p. PICK k \in 1..Len(op[th].reads), h \in 1..2 : LooksAt(th, k, h)
  BY LookShape
<1>c. /\ Len(seen[th]) = 2 * k - 2 + (h - 1)
      /\ seen' = [seen EXCEPT ![th] = Append(@, data[op[th].reads[k]][h])]
      /\ \/ last' = last
         \/ last' = [last EXCEPT ![th] = <<op[th], Saw(seen'[th])>>]
      /\ \/ pc' = pc
         \/ pc' = [pc EXCEPT ![th] = AfterWork(op[th])]
      /\ k = Len(op[th].reads) /\ h = 2 /\ op[th].write = NoTable =>
              pc' = [pc EXCEPT ![th] = AfterWork(op[th])]
  BY <1>p DEF LooksAt, Finishes
<1>d. PICK half \in Values : half = data[op[th].reads[k]][h]
  BY <1>0, <1>b, WorkShape DEF WorkTypes
<1>e. /\ seen'[th] = Append(seen[th], half)
      /\ Len(seen'[th]) = 2 * k - 2 + h
      /\ seen'[th][2 * k - 2 + h] = half
      /\ \A i \in 1..(2 * k - 3 + h) : seen'[th][i] = seen[th][i]
      /\ \A u \in Threads \ {th} : seen'[u] = seen[u] /\ pc'[u] = pc[u]
  <2>1. seen'[th] = Append(seen[th], half)
    BY <1>0, <1>c, <1>d DEF WorkTypes
  <2>2. Len(seen[th]) + 1 = 2 * k - 2 + h /\ Len(seen[th]) = 2 * k - 3 + h
    BY <1>b, <1>c
  <2>3. Len(seen'[th]) = Len(seen[th]) + 1
    BY <2>1, <1>b
  <2>4. seen'[th][Len(seen[th]) + 1] = half
    BY <2>1, <1>b
  <2>5. \A i \in 1..Len(seen[th]) : seen'[th][i] = seen[th][i]
    BY <2>1, <1>b
  <2>6. \A u \in Threads \ {th} : seen'[u] = seen[u] /\ pc'[u] = pc[u]
    BY <1>0, <1>a, <1>c DEF WorkTypes
  <2>7. QED
    BY <2>1, <2>2, <2>3, <2>4, <2>5, <2>6
<1>f. pc'[th] = "work" \/ pc'[th] \notin Before \cup {"work"}
  BY <1>a, <1>c, AfterShape
<1>1. WorkTypes'
  <2>1. seen' \in [Threads -> Seq(Values)]
    BY <1>0, <1>b, <1>c, <1>d DEF WorkTypes
  <2>2. last' = [u \in Threads |-> last'[u]]
    <3>1. CASE last' = last
      BY <3>1, <1>0 DEF WorkTypes
    <3>2. CASE last' = [last EXCEPT ![th] = <<op[th], Saw(seen'[th])>>]
      BY <3>2, <1>0 DEF WorkTypes
    <3>3. QED
      BY <3>1, <3>2, <1>c
  <2>3. QED
    BY <2>1, <2>2, <1>0, <1>a DEF WorkTypes
<1>2. CalledInv'
  BY <1>0, <1>a, <1>b, <1>e DEF CalledInv
<1>3. ProgressInv'
  <2>1. ASSUME NEW u \in Threads \ {th}
        PROVE  Looks(u)' <=> Looks(u)
    BY <2>1, <1>a, <1>e DEF Looks
  <2>2. puts[th] = 0
    BY <1>0, <1>a DEF ProgressInv
  <2>3. Len(seen'[th]) <= 2 * Len(op[th].reads)
    BY <1>b, <1>e
  <2>4. pc'[th] = "work" /\ op[th].write = NoTable => Len(seen'[th]) < 2 * Len(op[th].reads)
    <3>1. SUFFICES ASSUME pc'[th] = "work", op[th].write = NoTable
                   PROVE  Len(seen'[th]) < 2 * Len(op[th].reads)
      OBVIOUS
    <3>2. ~ (k = Len(op[th].reads) /\ h = 2)
      BY <3>1, <1>a, <1>c, AfterShape
    <3>3. QED
      BY <3>2, <1>b, <1>e
  <2>5. puts'[th] = 0 /\ op'[th] = op[th] /\ pc'[th] \notin Before
    BY <2>2, <1>a, <1>f DEF Before
  <2>6. \A u \in Threads \ {th} : /\ pc'[u] = pc[u] /\ seen'[u] = seen[u]
                                  /\ puts'[u] = puts[u] /\ op'[u] = op[u]
    BY <1>a, <1>e
  <2>7. ASSUME NEW u \in Threads, u # th
        PROVE  /\ pc'[u] \in Before => seen'[u] = <<>> /\ puts'[u] = 0
               /\ pc'[u] = "work" => /\ Len(seen'[u]) <= 2 * Len(op'[u].reads)
                                     /\ puts'[u] \in {0, 1}
                                     /\ op'[u].write = NoTable => Looks(u)'
                                     /\ puts'[u] = 1 => ~ Looks(u)'
    BY <2>1, <2>6, <2>7, <1>0 DEF ProgressInv
  <2>8. /\ pc'[th] \in Before => seen'[th] = <<>> /\ puts'[th] = 0
        /\ pc'[th] = "work" => /\ Len(seen'[th]) <= 2 * Len(op'[th].reads)
                               /\ puts'[th] \in {0, 1}
                               /\ op'[th].write = NoTable => Looks(th)'
                               /\ puts'[th] = 1 => ~ Looks(th)'
    BY <2>3, <2>4, <2>5 DEF Looks
  <2>9. QED
    BY <2>7, <2>8 DEF ProgressInv
<1>4. SeenInv'
  <2> SUFFICES ASSUME NEW u \in Threads, pc'[u] = "work", NEW i \in 1..Len(op[u].reads)
               PROVE  Intact(u, i)'
    BY <1>a DEF SeenInv
  <2>1. CASE u # th
    <3>1. Intact(u, i)
      BY <2>1, <1>0, <1>e DEF SeenInv
    <3>2. QED
      BY <2>1, <3>1, <1>a, <1>e DEF Intact
  <2>2. CASE u = th
    BY <2>2, LookIntact
  <2>3. QED
    BY <2>1, <2>2
<1>5. \A u \in Threads, t \in Tables : HalfWay(u, t)' <=> HalfWay(u, t)
  <2>1. ~ (puts[th] = 1)
    BY <1>0, <1>a DEF ProgressInv
  <2>2. QED
    BY <2>1, <1>a, <1>e DEF HalfWay
<1>6. HalfInv'
  <2>1. \A u \in Threads, t \in Tables : HalfWay(u, t) => Half(u, 1)' = Half(u, 1)
    <3>1. \A t \in Tables : ~ HalfWay(th, t)
      BY <1>0, <1>a DEF ProgressInv, HalfWay
    <3>2. QED
      BY <3>1, <1>a, <1>e DEF Half
  <2>2. QED
    BY <1>0, <1>a, <1>5, <2>1 DEF HalfInv
<1>7. WholeInv'
  BY <1>0, <1>a, <1>5 DEF WholeInv
<1>8. QED
  BY <1>1, <1>2, <1>3, <1>4, <1>6, <1>7 DEF WorkInv

\* A put writes the next half of the one table that the operation writes.
LEMMA PutShape ==
    ASSUME LockTypes, PlaceInv, WorkInv, NEW th \in Threads, Put(th)
    PROVE  LET t == op[th].write
               h == puts[th] + 1 IN
           /\ op[th] \in Ops /\ t \in Tables /\ h \in 1..2
           /\ Len(op[th].reads) \in 0..1
           /\ Len(seen[th]) = 2 * Len(op[th].reads)
           /\ Half(th, h) \in Values
           /\ data' = [data EXCEPT ![t][h] = Half(th, h)]
           /\ puts' = [puts EXCEPT ![th] = h]
           /\ h = 1 => last' = last /\ pc' = pc
           /\ h = 2 => /\ last' = [last EXCEPT ![th] = <<op[th], Saw(seen[th])>>]
                       /\ pc' = [pc EXCEPT ![th] = AfterWork(op[th])]
<1>0. CalledInv /\ WorkTypes /\ ProgressInv
  BY DEF WorkInv
<1>1. pc[th] = "work" /\ ~ Looks(th)
  BY DEF Put
<1>2. op[th] \in Ops /\ Len(op[th].reads) \in 0..2 /\ Len(seen[th]) \in Nat
  BY <1>0, <1>1, AtWork, WorkShape DEF WorkTypes
<1>3. Len(seen[th]) = 2 * Len(op[th].reads)
  BY <1>0, <1>1, <1>2 DEF ProgressInv, Looks
<1>4. op[th].write \in Tables /\ Len(op[th].reads) \in 0..1
  BY <1>0, <1>1, <1>2, WorkShape DEF ProgressInv
<1>5. puts[th] \in {0, 1} /\ puts[th] + 1 \in 1..2
  BY <1>0, <1>1 DEF ProgressInv
<1>6. Half(th, puts[th] + 1) \in Values
  <2>1. CASE op[th].reads = <<>>
    BY <2>1, <1>2, WorkShape DEF Half
  <2>2. CASE op[th].reads # <<>>
    <3>1. Len(seen[th]) = 2
      BY <2>2, <1>2, <1>3, <1>4, WorkShape, SMTT(60)
    <3>2. seen[th] \in Seq(Values)
      BY <1>0 DEF WorkTypes
    <3>3. QED
      BY <2>2, <3>1, <3>2, <1>5 DEF Half
  <2>3. QED
    BY <2>1, <2>2
<1>7. /\ data' = [data EXCEPT ![op[th].write][puts[th] + 1] = Half(th, puts[th] + 1)]
      /\ puts' = [puts EXCEPT ![th] = puts[th] + 1]
  BY DEF Put, Half
<1>8. /\ puts[th] + 1 = 1 => last' = last /\ pc' = pc
      /\ puts[th] + 1 = 2 => /\ last' = [last EXCEPT ![th] = <<op[th], Saw(seen[th])>>]
                             /\ pc' = [pc EXCEPT ![th] = AfterWork(op[th])]
  BY <1>5 DEF Put, Goto
<1>9. QED
  BY <1>2, <1>3, <1>4, <1>5, <1>6, <1>7, <1>8

\* What a thread writes is one value, twice; for a copy, the whole table it has seen.
LEMMA HalvesAlike ==
    ASSUME LockTypes, PlaceInv, WorkInv, NEW th \in Threads, Put(th)
    PROVE  /\ Half(th, 1) = Half(th, 2)
           /\ op[th].reads # <<>> =>
                  /\ Len(op[th].reads) = 1
                  /\ seen[th][1] = data[op[th].reads[1]][1]
                  /\ seen[th][2] = data[op[th].reads[1]][2]
<1>1. /\ op[th] \in Ops /\ Len(op[th].reads) \in 0..1 /\ pc[th] = "work"
      /\ Len(seen[th]) = 2 * Len(op[th].reads)
  BY PutShape DEF Put
<1>2. CASE op[th].reads = <<>>
  BY <1>2 DEF Half
<1>3. CASE op[th].reads # <<>>
  <2>1. Len(op[th].reads) = 1 /\ Len(seen[th]) = 2
    BY <1>1, <1>3, WorkShape
  <2>2. Intact(th, 1)
    <3>1. 1 \in 1..Len(op[th].reads)
      BY <2>1
    <3>2. SeenInv
      BY DEF WorkInv
    <3>3. QED
      BY <3>1, <3>2, <1>1 DEF SeenInv
  <2>3. 2 * 1 - 1 = 1 /\ 2 * 1 = 2 /\ 1 <= Len(seen[th]) /\ 2 <= Len(seen[th])
    BY <2>1
  <2>4. /\ seen[th][1] = data[op[th].reads[1]][1]
        /\ seen[th][2] = data[op[th].reads[1]][2]
        /\ seen[th][1] = seen[th][2]
    BY <2>2, <2>3 DEF Intact
  <2>5. QED
    BY <2>1, <2>4, <1>3 DEF Half
<1>4. QED
  BY <1>2, <1>3

LEMMA PutWork ==
    ASSUME LockTypes, PlaceInv, WorkInv, Exclusion, NEW th \in Threads, Put(th)
    PROVE  WorkInv'
<1>0. WorkTypes /\ CalledInv /\ ProgressInv /\ SeenInv /\ HalfInv /\ WholeInv
  BY DEF WorkInv
<1>p. PICK t0 \in Tables, h \in 1..2 : t0 = op[th].write /\ h = puts[th] + 1
  BY PutShape
<1>v. PICK v \in Values : v = Half(th, 1) /\ v = Half(th, 2)
  <2>1. Half(th, h) \in Values
    BY PutShape, <1>p
  <2>2. Half(th, 1) = Half(th, 2)
    BY HalvesAlike
  <2>3. h = 1 \/ h = 2
    OBVIOUS
  <2>4. QED
    BY <2>1, <2>2, <2>3
<1>a. /\ pc[th] = "work" /\ ~ Looks(th) /\ pc \in [Threads -> PCs]
      /\ UNCHANGED <<seen, op, calls, dirty>>
  BY DEF Put, LockTypes
<1>b. /\ op[th] \in Ops /\ Len(op[th].reads) \in 0..1
      /\ Len(seen[th]) = 2 * Len(op[th].reads)
  BY PutShape
<1>c. /\ data' = [data EXCEPT ![t0][h] = v]
      /\ puts' = [puts EXCEPT ![th] = h]
      /\ h = 1 => last' = last /\ pc' = pc
      /\ h = 2 => /\ last' = [last EXCEPT ![th] = <<op[th], Saw(seen[th])>>]
                  /\ pc' = [pc EXCEPT ![th] = AfterWork(op[th])]
  <2>1. Half(th, h) = v
    <3>1. h = 1 \/ h = 2
      OBVIOUS
    <3>2. QED
      BY <3>1, <1>v
  <2>2. QED
    BY PutShape, <1>p, <2>1
<1>d. /\ data'[t0][h] = v
      /\ \A g \in 1..2 : g # h => data'[t0][g] = data[t0][g]
      /\ \A t \in Tables : t # t0 => data'[t] = data[t]
      /\ data' \in [Tables -> Values \X Values]
  <2>1. data \in [Tables -> Values \X Values]
    BY <1>0 DEF WorkTypes
  <2>2. PICK pair \in Values \X Values : pair = data[t0]
    BY <2>1
  <2>3. [pair EXCEPT ![h] = v] \in Values \X Values
    BY <2>2
  <2>4. data' = [data EXCEPT ![t0] = [pair EXCEPT ![h] = v]]
    BY <1>c, <2>2
  <2>5. data'[t0] = [pair EXCEPT ![h] = v]
    BY <2>1, <2>4
  <2>6. data' \in [Tables -> Values \X Values]
    BY <2>1, <2>3, <2>4
  <2>7. \A t \in Tables : t # t0 => data'[t] = data[t]
    BY <2>1, <2>4
  <2>8. QED
    BY <2>2, <2>5, <2>6, <2>7
<1>e. /\ puts'[th] = h
      /\ \A u \in Threads \ {th} : puts'[u] = puts[u] /\ pc'[u] = pc[u]
      /\ h = 1 => pc'[th] = "work"
      /\ h = 2 => pc'[th] \notin Before \cup {"work"}
  BY <1>0, <1>a, <1>c, AfterShape DEF WorkTypes
<1>f. \A u \in Threads : pc'[u] = "work" => pc[u] = "work"
  BY <1>a, <1>e
<1>1. WorkTypes'
  <2>1. puts' \in [Threads -> 0..2]
    BY <1>0, <1>c DEF WorkTypes
  <2>2. last' = [u \in Threads |-> last'[u]]
    <3>1. CASE last' = last
      BY <3>1, <1>0 DEF WorkTypes
    <3>2. CASE last' = [last EXCEPT ![th] = <<op[th], Saw(seen[th])>>]
      BY <3>2, <1>0 DEF WorkTypes
    <3>3. QED
      BY <3>1, <3>2, <1>c
  <2>3. QED
    BY <2>1, <2>2, <1>0, <1>a, <1>d DEF WorkTypes
<1>2. CalledInv'
  BY <1>0, <1>a, <1>b, <1>e DEF CalledInv
<1>3. ProgressInv'
  <2>1. ASSUME NEW u \in Threads, u # th
        PROVE  /\ pc'[u] \in Before => seen'[u] = <<>> /\ puts'[u] = 0
               /\ pc'[u] = "work" => /\ Len(seen'[u]) <= 2 * Len(op'[u].reads)
                                     /\ puts'[u] \in {0, 1}
                                     /\ op'[u].write = NoTable => Looks(u)'
                                     /\ puts'[u] = 1 => ~ Looks(u)'
    <3>1. Looks(u)' <=> Looks(u)
      BY <1>a DEF Looks
    <3>2. QED
      BY <2>1, <3>1, <1>0, <1>a, <1>e DEF ProgressInv
  <2>2. /\ pc'[th] \in Before => seen'[th] = <<>> /\ puts'[th] = 0
        /\ pc'[th] = "work" => /\ Len(seen'[th]) <= 2 * Len(op'[th].reads)
                               /\ puts'[th] \in {0, 1}
                               /\ op'[th].write = NoTable => Looks(th)'
                               /\ puts'[th] = 1 => ~ Looks(th)'
    <3>1. ~ Looks(th)' /\ op'[th].write # NoTable
      BY <1>a, <1>p, Sizes DEF Looks
    <3>2. Len(seen'[th]) <= 2 * Len(op'[th].reads)
      BY <1>a, <1>b
    <3>3. pc'[th] \notin Before
      BY <1>e DEF Before
    <3>4. QED
      BY <3>1, <3>2, <3>3, <1>e
  <2>3. QED
    BY <2>1, <2>2 DEF ProgressInv
<1>4. SeenInv'
  <2> SUFFICES ASSUME NEW u \in Threads, pc'[u] = "work", NEW k \in 1..Len(op[u].reads)
               PROVE  Intact(u, k)'
    BY <1>a DEF SeenInv
  <2>0. pc[u] = "work" /\ Intact(u, k)
    BY <1>f, <1>0 DEF SeenInv
  <2>1. op[u].reads[k] \in Tables
    BY <2>0, <1>0, AtWork, WorkShape
  <2>2. CASE op[u].reads[k] # t0
    BY <2>0, <2>1, <2>2, <1>a, <1>d DEF Intact
  <2>3. CASE op[u].reads[k] = t0
    <3>1. u = th
      BY <2>0, <2>3, <1>0, <1>a, <1>p, WorkExcluded
    <3>2. k = 1 /\ op[th].reads # <<>> /\ op[th].reads[1] = t0
      BY <2>3, <3>1, <1>b, WorkShape
    <3>3. seen[th][1] = v /\ seen[th][2] = v /\ data[t0][1] = v /\ data[t0][2] = v
      BY <3>2, <1>v, HalvesAlike DEF Half
    <3>4. data'[t0][1] = v /\ data'[t0][2] = v
      BY <3>3, <1>d
    <3>5. QED
      BY <3>1, <3>2, <3>3, <3>4, <1>a DEF Intact
  <2>4. QED
    BY <2>2, <2>3
<1>5. \A u \in Threads : u # th => ~ HalfWay(u, t0)
  BY <1>0, <1>a, <1>p, WorkExcluded, Sizes DEF HalfWay
<1>6. \A u \in Threads, t \in Tables : t # t0 => (HalfWay(u, t)' <=> HalfWay(u, t))
  BY <1>a, <1>e, <1>p DEF HalfWay
<1>7. \A u \in Threads : u # th => ~ HalfWay(u, t0)'
  BY <1>5, <1>a, <1>e DEF HalfWay
<1>8. /\ h = 1 => HalfWay(th, t0)' /\ data'[t0][1] = v
      /\ h = 2 => ~ HalfWay(th, t0)' /\ data'[t0][1] = v /\ data'[t0][2] = v
  <2>1. CASE h = 1
    BY <2>1, <1>a, <1>d, <1>e, <1>p DEF HalfWay
  <2>2. CASE h = 2
    <3>1. HalfWay(th, t0)
      BY <2>2, <1>a, <1>p, <1>0 DEF HalfWay, ProgressInv
    <3>2. data[t0][1] = v
      BY <3>1, <1>0, <1>v DEF HalfInv
    <3>3. data'[t0][1] = v /\ data'[t0][2] = v
      BY <2>2, <3>2, <1>d
    <3>4. QED
      BY <2>2, <3>3, <1>e DEF HalfWay
  <2>3. QED
    BY <2>1, <2>2
<1>9. Half(th, 1)' = v /\ \A u \in Threads : Half(u, 1)' = Half(u, 1)
  BY <1>a, <1>v DEF Half
<1>10. HalfInv'
  <2>1. ASSUME NEW t \in Tables, NEW u \in Threads, HalfWay(u, t)'
        PROVE  data'[t][1] = Half(u, 1)'
    <3>1. CASE t = t0
      BY <2>1, <3>1, <1>7, <1>8, <1>9
    <3>2. CASE t # t0
      BY <2>1, <3>2, <1>0, <1>6, <1>9, <1>d DEF HalfInv
    <3>3. QED
      BY <3>1, <3>2
  <2>2. QED
    BY <2>1 DEF HalfInv
<1>11. WholeInv'
  <2>1. ASSUME NEW t \in Tables, \A u \in Threads : ~ HalfWay(u, t)'
        PROVE  data'[t][1] = data'[t][2]
    <3>1. CASE t = t0
      BY <2>1, <3>1, <1>8
    <3>2. CASE t # t0
      BY <2>1, <3>2, <1>0, <1>6, <1>d DEF WholeInv
    <3>3. QED
      BY <3>1, <3>2
  <2>2. QED
    BY <2>1 DEF WholeInv
<1>12. QED
  BY <1>1, <1>2, <1>3, <1>4, <1>10, <1>11 DEF WorkInv
-----------------------------------------------------------------------------
LEMMA InitWork == Init => WorkInv
<1> SUFFICES ASSUME Init
             PROVE  WorkInv
  OBVIOUS
<1>1. WorkTypes
  <2>1. 0 \in 0..2 /\ 0 \in 0..MaxCalls /\ <<>> \in Seq(Values) /\ Empty \in Values
    BY SizesAssumption, OpsAssumption
  <2>2. QED
    BY <2>1 DEF Init, WorkTypes
<1>2. CalledInv /\ ProgressInv /\ SeenInv
  BY DEF Init, CalledInv, ProgressInv, SeenInv, Before
<1>3. HalfInv /\ WholeInv
  BY DEF Init, HalfInv, WholeInv, HalfWay
<1>4. QED
  BY <1>1, <1>2, <1>3 DEF WorkInv

\* Every step of every thread preserves what is said about the contents.
LEMMA NextWork == IInv /\ Exclusion /\ WorkInv /\ [Next]_vars => WorkInv'
<1> SUFFICES ASSUME IInv, Exclusion, WorkInv, [Next]_vars
             PROVE  WorkInv'
  OBVIOUS
<1>0. LockTypes /\ PlaceInv
  BY DEF IInv
<1>1. ASSUME NEW th \in Threads, Start(th) \/ Step(th)
      PROVE  WorkInv'
  <2>1. CASE Start(th)
    BY <2>1, <1>0, StartWork
  <2>2. CASE Look(th)
    BY <2>2, <1>0, LookWork
  <2>3. CASE Put(th)
    BY <2>3, <1>0, PutWork
  <2>4. CASE \/ Reset(th) \/ BeginRead(th) \/ CountIn(th) \/ FirstIn(th) \/ UnlockIn(th)
             \/ EndRead(th) \/ CountOut(th) \/ LastOut(th) \/ UnlockOut(th)
             \/ BeginWrite(th) \/ EndWrite(th)
    BY <2>4, <1>0, LockStepsLock, LockingInductive
  <2>5. QED
    BY <1>1, <2>1, <2>2, <2>3, <2>4 DEF Step
<1>2. CASE UNCHANGED vars
  <2>1. dirty \in SUBSET Tables
    BY DEF WorkInv, WorkTypes
  <2>2. Locking
    BY <1>2, <2>1 DEF vars, Locking
  <2>3. QED
    BY <2>2, <1>0, LockingInductive
<1>3. QED
  BY <1>1, <1>2 DEF Next

\* Whatever the interleaving, the contents that the threads see and leave behind are
\* related to their progress as WorkInv says.
THEOREM WorkInvariance == Spec => []WorkInv
BY Invariance, ExclusionHolds, InitWork, NextWork, PTL DEF Spec

\* The variables of the thread-safe hash tables have their types; in particular the
\* counter `reader' of zend_ts_hash.c stays within its width, and no call writes more
\* than a table has room for.
THEOREM TypeCorrect == Spec => []TypeOK
<1>1. IInv /\ WorkInv => TypeOK
  BY DEF IInv, LockTypes, WorkInv, WorkTypes, TypeOK
<1>2. QED
  BY <1>1, Invariance, WorkInvariance, PTL
-----------------------------------------------------------------------------
LEMMA DoubledShape ==
    ASSUME NEW o \in Ops
    PROVE  /\ Doubled(o).reads = o.reads
           /\ Doubled(o).write = o.write
           /\ Doubled(o).value = <<o.value, o.value>>
           /\ DOMAIN o.reads = 1..Len(o.reads)
BY OpsAssumption DEF Doubled, AllOps

\* The halves of n tables, one after the other, are n pairs.
LEMMA SawShape ==
    ASSUME NEW s, NEW n \in 0..2, Len(s) = 2 * n
    PROVE  Saw(s) = [k \in 1..n |-> <<s[2 * k - 1], s[2 * k]>>]
<1>1. Len(s) \div 2 = n
  OBVIOUS
<1>2. QED
  BY <1>1 DEF Saw

\* A call takes effect as it finishes: then it reports what its tables contain, and the
\* table it writes contains what it says.
LEMMA PerformShape ==
    ASSUME WorkTypes, NEW th \in Threads, op[th] \in Ops, NEW saw,
           saw = [k \in 1..Len(op[th].reads) |-> Contents[op[th].reads[k]]],
           last' = [last EXCEPT ![th] = <<op[th], saw>>],
           Contents' = IF op[th].write = NoTable THEN Contents
                       ELSE [Contents EXCEPT ![op[th].write] =
                                 IF op[th].reads = <<>> THEN <<op[th].value, op[th].value>>
                                 ELSE saw[1]]
    PROVE  Atomic!Next
<1>p. PICK o \in {Doubled(p) : p \in Ops} : o = Doubled(op[th])
  OBVIOUS
<1>1. /\ o.reads = op[th].reads /\ o.write = op[th].write
      /\ o.value = <<op[th].value, op[th].value>>
      /\ DOMAIN o.reads = 1..Len(op[th].reads)
  BY <1>p, DoubledShape
<1>2. saw = [k \in DOMAIN o.reads |-> Contents[o.reads[k]]]
  BY <1>1
<1>3. Reports' = [Reports EXCEPT ![th] = <<o, saw>>]
  <2>1. DOMAIN last = Threads
    BY DEF WorkTypes
  <2>2. last'[th] = <<op[th], saw>> /\ \A u \in Threads \ {th} : last'[u] = last[u]
    BY <2>1
  <2>3. last'[th] # <<>> /\ last'[th][1] = op[th] /\ last'[th][2] = saw
    BY <2>2
  <2>4. /\ Reports'[th] = <<o, saw>>
        /\ \A u \in Threads \ {th} : Reports'[u] = Reports[u]
    <3>1. Doubled(op[th]) = Doubled(last[th][1])'
      BY <2>3 DEF Doubled
    <3>2. Reports'[th] = <<o, saw>>
      BY <1>p, <2>3, <3>1 DEF Reports
    <3>3. \A u \in Threads \ {th} : Reports'[u] = Reports[u]
      BY <2>2 DEF Reports, Doubled
    <3>4. QED
      BY <3>2, <3>3
  <2>5. Reports' = [u \in Threads |-> Reports'[u]] /\ Reports = [u \in Threads |-> Reports[u]]
    BY DEF Reports
  <2>6. QED
    BY <2>4, <2>5
<1>4. Contents' = IF o.write = NoTable THEN Contents
                  ELSE [Contents EXCEPT ![o.write] = Atomic!Written(o, saw)]
  BY <1>1 DEF Atomic!Written
<1>5. Atomic!Perform(th, o)
  BY <1>2, <1>3, <1>4 DEF Atomic!Perform
<1>6. QED
  BY <1>5 DEF Atomic!Next

\* The last look of a find or a compare is the instant at which it takes effect; the
\* looks before it, and those of a copy, change nothing.
LEMMA LookPerforms ==
    ASSUME LockTypes, PlaceInv, WorkInv, Exclusion, NEW th \in Threads, Look(th)
    PROVE  Atomic!Next \/ UNCHANGED Atomic!vars
<1>0. WorkTypes /\ CalledInv
  BY DEF WorkInv
<1>1. /\ pc[th] = "work" /\ Looks(th)
      /\ data' = data /\ op' = op
  BY DEF Look
<1>2. op[th] \in Ops /\ Len(op[th].reads) \in 0..2 /\ seen[th] \in Seq(Values)
  BY <1>0, <1>1, AtWork, WorkShape DEF WorkTypes
<1>3. PICK k \in 1..Len(op[th].reads), h \in 1..2 : LooksAt(th, k, h)
  BY LookShape
<1>4. Contents' = Contents
  BY <1>1 DEF Contents
<1>5. CASE Finishes(th, k, h)
  <2>1. PICK n \in 1..2 : n = Len(op[th].reads)
    BY <1>2, <1>3
  <2>2. /\ Len(seen[th]) = 2 * n - 1 /\ op[th].write = NoTable
        /\ seen' = [seen EXCEPT ![th] = Append(@, data[op[th].reads[k]][h])]
        /\ last' = [last EXCEPT ![th] = <<op[th], Saw(seen'[th])>>]
    BY <1>3, <1>5, <2>1 DEF LooksAt, Finishes
  <2>3. Len(seen'[th]) = 2 * n
    <3>1. seen'[th] = Append(seen[th], data[op[th].reads[k]][h])
      BY <1>0, <2>2 DEF WorkTypes
    <3>2. Len(seen'[th]) = Len(seen[th]) + 1
      BY <3>1, <1>2
    <3>3. QED
      BY <2>2, <3>2
  <2>4. Saw(seen'[th]) = [i \in 1..n |-> <<seen'[th][2 * i - 1], seen'[th][2 * i]>>]
    <3>1. n \in 0..2
      OBVIOUS
    <3>2. QED
      BY <2>3, <3>1, SawShape
  <2>5. ASSUME NEW i \in 1..n
        PROVE  <<seen'[th][2 * i - 1], seen'[th][2 * i]>> = Contents[op[th].reads[i]]
    <3>1. Intact(th, i)'
      BY <2>1, LookIntact
    <3>2. 2 * i - 1 <= Len(seen'[th]) /\ 2 * i <= Len(seen'[th])
      BY <2>3
    <3>3. /\ seen'[th][2 * i] = data[op[th].reads[i]][2]
          /\ seen'[th][2 * i - 1] = seen'[th][2 * i]
      BY <3>1, <3>2, <1>1 DEF Intact
    <3>4. op[th].reads[i] \in Tables
      BY <1>2, <2>1, WorkShape
    <3>5. QED
      BY <3>3, <3>4 DEF Contents
  <2>6. Saw(seen'[th]) = [i \in 1..Len(op[th].reads) |-> Contents[op[th].reads[i]]]
    BY <2>1, <2>4, <2>5
  <2>7. QED
    BY <1>0, <1>2, <1>4, <2>2, <2>6, PerformShape
<1>6. CASE ~ Finishes(th, k, h)
  <2>1. last' = last
    BY <1>3, <1>6 DEF LooksAt
  <2>2. QED
    BY <1>4, <2>1 DEF Atomic!vars, Reports
<1>7. QED
  BY <1>5, <1>6

\* The second put of an update, a copy or a clean is the instant at which it takes effect.
LEMMA PutPerforms ==
    ASSUME LockTypes, PlaceInv, WorkInv, Exclusion, NEW th \in Threads, Put(th)
    PROVE  Atomic!Next \/ UNCHANGED Atomic!vars
<1>0. WorkTypes
  BY DEF WorkInv
<1>1. /\ op[th] \in Ops /\ Len(op[th].reads) \in 0..1
      /\ Len(seen[th]) = 2 * Len(op[th].reads)
  BY PutShape
<1>2. PICK t0 \in Tables, h \in 1..2 : t0 = op[th].write /\ h = puts[th] + 1
  BY PutShape
<1>3. /\ data' = [data EXCEPT ![t0][h] = Half(th, h)]
      /\ h = 1 => last' = last
      /\ h = 2 => last' = [last EXCEPT ![th] = <<op[th], Saw(seen[th])>>]
  BY PutShape, <1>2
<1>4. PICK pair \in Values \X Values : pair = data[t0]
  BY <1>0 DEF WorkTypes
<1>5. data' = [data EXCEPT ![t0] = [pair EXCEPT ![h] = Half(th, h)]]
  BY <1>3, <1>4
<1>6. /\ data'[t0] = [pair EXCEPT ![h] = Half(th, h)]
      /\ \A t \in Tables : t # t0 => data'[t] = data[t]
  BY <1>0, <1>5 DEF WorkTypes
<1>7. CASE h = 1
  <2>1. data'[t0][2] = data[t0][2]
    BY <1>4, <1>6, <1>7
  <2>2. \A t \in Tables : data'[t][2] = data[t][2]
    BY <1>6, <2>1
  <2>3. Contents' = Contents
    BY <2>2 DEF Contents
  <2>4. QED
    BY <1>3, <1>7, <2>3 DEF Atomic!vars, Reports
<1>8. CASE h = 2
  <2>1. data'[t0][2] = Half(th, 2)
    BY <1>4, <1>6, <1>8
  <2>2. Contents' = [Contents EXCEPT ![t0] = <<Half(th, 2), Half(th, 2)>>]
    BY <1>6, <2>1 DEF Contents
  <2>3. Saw(seen[th]) = [k \in 1..Len(op[th].reads) |-> <<seen[th][2 * k - 1], seen[th][2 * k]>>]
    <3>1. PICK n \in 0..2 : n = Len(op[th].reads)
      BY <1>1
    <3>2. QED
      BY <1>1, <3>1, SawShape
  <2>4. CASE op[th].reads = <<>>
    <3>1. <<Half(th, 2), Half(th, 2)>> = <<op[th].value, op[th].value>>
      BY <2>4 DEF Half
    <3>2. 1..Len(op[th].reads) = {}
      BY <2>4
    <3>3. Saw(seen[th]) = [k \in 1..Len(op[th].reads) |-> Contents[op[th].reads[k]]]
      BY <2>3, <3>2
    <3>4. QED
      BY <1>0, <1>1, <1>2, <1>3, <1>8, <2>2, <2>4, <3>1, <3>3, Sizes, PerformShape
  <2>5. CASE op[th].reads # <<>>
    <3>1. /\ Len(op[th].reads) = 1 /\ Half(th, 1) = Half(th, 2)
          /\ seen[th][2] = data[op[th].reads[1]][2]
          /\ seen[th][1] = Half(th, 1) /\ seen[th][2] = Half(th, 2)
      BY <2>5, HalvesAlike DEF Half
    <3>2. op[th].reads[1] \in Tables
      BY <1>1, <3>1, WorkShape
    <3>3. <<seen[th][2 * 1 - 1], seen[th][2 * 1]>> = Contents[op[th].reads[1]]
      <4>1. 2 * 1 - 1 = 1 /\ 2 * 1 = 2
        OBVIOUS
      <4>2. <<seen[th][1], seen[th][2]>> = Contents[op[th].reads[1]]
        BY <3>1, <3>2 DEF Contents
      <4>3. QED
        BY <4>1, <4>2
    <3>4. Saw(seen[th]) = [k \in 1..Len(op[th].reads) |-> Contents[op[th].reads[k]]]
      BY <2>3, <3>1, <3>3
    <3>5. Saw(seen[th])[1] = <<Half(th, 2), Half(th, 2)>>
      BY <2>3, <3>1
    <3>6. QED
      BY <1>0, <1>1, <1>2, <1>3, <1>8, <2>2, <2>5, <3>4, <3>5, Sizes, PerformShape
  <2>6. QED
    BY <2>4, <2>5
<1>9. QED
  BY <1>7, <1>8

LEMMA NextPerforms == IInv /\ Exclusion /\ WorkInv /\ [Next]_vars => [Atomic!Next]_(Atomic!vars)
<1> SUFFICES ASSUME IInv, Exclusion, WorkInv, [Next]_vars
             PROVE  Atomic!Next \/ UNCHANGED Atomic!vars
  OBVIOUS
<1>0. LockTypes /\ PlaceInv
  BY DEF IInv
<1>1. data' = data /\ last' = last => UNCHANGED Atomic!vars
  BY DEF Atomic!vars, Contents, Reports
<1>2. ASSUME NEW th \in Threads, Start(th) \/ Step(th)
      PROVE  Atomic!Next \/ UNCHANGED Atomic!vars
  <2>1. CASE Start(th)
    BY <2>1, <1>1 DEF Start
  <2>2. CASE Look(th)
    BY <2>2, <1>0, LookPerforms
  <2>3. CASE Put(th)
    BY <2>3, <1>0, PutPerforms
  <2>4. CASE \/ Reset(th) \/ BeginRead(th) \/ CountIn(th) \/ FirstIn(th) \/ UnlockIn(th)
             \/ EndRead(th) \/ CountOut(th) \/ LastOut(th) \/ UnlockOut(th)
             \/ BeginWrite(th) \/ EndWrite(th)
    BY <2>4, <1>0, <1>1, LockStepsLock DEF Locking
  <2>5. QED
    BY <1>2, <2>1, <2>2, <2>3, <2>4 DEF Step
<1>3. CASE UNCHANGED vars
  BY <1>1, <1>3 DEF vars
<1>4. QED
  BY <1>2, <1>3 DEF Next

LEMMA InitPerforms == Init => Atomic!Init
<1> SUFFICES ASSUME Init
             PROVE  Contents = [t \in Tables |-> <<Empty, Empty>>]
                    /\ Reports = [th \in Threads |-> <<>>]
  BY DEF Atomic!Init
<1>1. QED
  BY DEF Init, Contents, Reports

\* The thread-safe hash tables implement atomic ones: a find, an update, a copy, a
\* compare or a clean takes effect at one instant, whatever the other threads do.
THEOREM Refinement == Spec => AtomicSpec
BY InitPerforms, NextPerforms, Invariance, ExclusionHolds, WorkInvariance, PTL
   DEF Spec, AtomicSpec, Atomic!Spec
=============================================================================
