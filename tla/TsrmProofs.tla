------------------------------ MODULE TsrmProofs ------------------------------
(***************************************************************************)
(* Proofs about Tsrm, for any number of threads, however they share the     *)
(* buckets, and any bounds: each thread gets its own instances, the table   *)
(* is sound between two holders of the mutex, and no instance is destructed *)
(* twice.                                                                   *)
(*                                                                         *)
(* The mutex does not protect the readers.  What does is that nothing they  *)
(* read is taken away from them: an entry is unlinked by its own thread     *)
(* only, an id is freed by the thread that uses it.  The invariant says so  *)
(* for every place in the code where a thread can be (WorkInv), and says of *)
(* the table what is true of it while the mutex is held (CountInv,          *)
(* SlotInv).                                                                *)
(***************************************************************************)
EXTENDS Tsrm, FiniteSetTheorems, TLAPS

\* MaxEntries is enough for the threads that may have to allocate an entry.
Newcomers == {t \in Threads : pc[t] = "search" /\ tls[t] = 0}
RoomInv == used + Cardinality(Newcomers) <= MaxEntries

\* The mutex is held where an entry is constructed or the entries are enlarged.
MutexInv == \A th \in Threads : pc[th] \in {"construct", "enlarge"} <=> mutex = th

\* The chains, as in TableSound.
ChainInv ==
    /\ \A b \in Buckets : \A e \in chain[b] : owner[e] \in Threads /\ Hash[owner[e]] = b
    /\ \A e, f \in Linked : owner[e] = owner[f] => e = f
    /\ \A th \in Threads : tls[th] # 0 => tls[th] \in Mine(th)

\* An entry has room for every id, but for those that ts_allocate_id has yet to
\* enlarge.  An array has moved at most once for each id.
Small(e) == \E th \in Threads : pc[th] = "enlarge" /\ e \in todo[th]
CountInv ==
    /\ \A e \in Entries : block[e] <= count[e] /\ count[e] <= types
    /\ \A e \in Linked : count[e] = IF Small(e) THEN types - 1 ELSE types

\* A slot holds what it should, unless its entry is still being constructed.
Raw(e, id) == \E th \in Threads : pc[th] = "construct" /\ entry[th] = e /\ id \in todo[th]
Right(id) == IF id \in done THEN "null" ELSE "made"
SlotInv ==
    /\ \A e \in Linked : \A id \in Ids :
         IF id <= count[e] THEN slot[e][id] = Right(id) \/ Raw(e, id)
                           ELSE slot[e][id] = "beyond"
    /\ \A e \in Entries : e > used => \A id \in Ids : slot[e][id] = "beyond"

\* What a thread has in hand: the id it was asked for is in use and not being
\* allocated; the entry it reads or constructs is its own.
InUse(th) == /\ arg[th] \in (1..types) \ done
             /\ loader[arg[th]] \in {Main, th}
             /\ arg[th] = types => \A t \in Threads : pc[t] # "enlarge"
WorkInv == \A th \in Threads :
    /\ pc[th] \in {"search", "construct", "load", "deref"} => InUse(th)
    /\ pc[th] \in {"construct", "load", "deref"} => entry[th] \in Mine(th)
    /\ pc[th] = "construct" => todo[th] \subseteq 1..types /\ tls[th] # 0
    /\ pc[th] = "enlarge" => /\ todo[th] \subseteq Linked
                             /\ types \in Ids \ done
                             /\ loader[types] = th
                             /\ HasTypes

\* The shutdown is Main's alone.
PhaseInv == phase \in {"shutdown", "down"} =>
    /\ \A th \in Threads : pc[th] = "idle" /\ (th # Main => tls[th] = 0)
    /\ phase = "down" => \A b \in Buckets : chain[b] = {}

\* A linked entry has lost only instances of ids that are done, an unlinked one all of
\* them, but for what tsrm_shutdown frees when there are no types.
DeadInv ==
    /\ again = {}
    /\ \A x \in dead : x[1] <= used /\ (x[1] \in Linked => x[2] \in done)
    /\ phase # "down" \/ HasTypes => Instances((1..used) \ Linked) \subseteq dead

IInv ==
    /\ TypeOK /\ RoomInv /\ MutexInv /\ ChainInv /\ CountInv /\ SlotInv
    /\ WorkInv /\ PhaseInv /\ DeadInv /\ Own

USE DEF HasTypes
-----------------------------------------------------------------------------
\* The other threads are where they were, with what they had.
OthersStay(th) == \A t \in Threads \ {th} :
    pc'[t] = pc[t] /\ arg'[t] = arg[t] /\ entry'[t] = entry[t] /\ todo'[t] = todo[t]

\* The constants.
LEMMA Bounds ==
    /\ MaxIds \in Nat /\ MaxEntries \in Nat /\ MaxCalls \in Nat /\ StartIds \in 0..MaxIds
    /\ Main \in Threads /\ Nobody \notin Threads
    /\ \A th \in Threads : Hash[th] \in Buckets
BY TsrmAssumption

\* The entries that can be found are structures that were allocated.
LEMMA LinkedEntries ==
    ASSUME TypeOK
    PROVE  /\ Linked \subseteq 1..used
           /\ 1..used \subseteq Entries
           /\ \A th \in Threads : Mine(th) \subseteq Linked
<1>1. Linked \subseteq 1..used
  BY DEF TypeOK, Linked
<1>2. 1..used \subseteq Entries
  BY Bounds DEF TypeOK, Entries
<1>3. \A th \in Threads : Mine(th) \subseteq Linked
  BY Bounds DEF Mine, Linked
<1>4. QED
  BY <1>1, <1>2, <1>3

\* What is true of the table when no thread is changing it.
LEMMA RightSlots ==
    ASSUME TypeOK, CountInv, SlotInv, \A th \in Threads : pc[th] \notin {"construct", "enlarge"}
    PROVE  \A e \in Linked : /\ count[e] = types
                             /\ \A id \in 1..types : slot[e][id] = Right(id)
<1>1. \A e, id : ~ Small(e) /\ ~ Raw(e, id)
  BY DEF Small, Raw
<1>2. \A e \in Linked : count[e] = types
  BY <1>1 DEF CountInv
<1>3. \A id \in 1..types : id \in Ids /\ id <= types
  BY Bounds DEF TypeOK, Ids
<1>4. QED
  BY <1>1, <1>2, <1>3 DEF SlotInv

\* The threads that may still have to allocate an entry are finitely many, and when
\* none joins them there is room for their entries as before.
LEMMA NewcomersFinite ==
    /\ IsFiniteSet(Newcomers) /\ Cardinality(Newcomers) \in Nat
    /\ IsFiniteSet(Newcomers') /\ Cardinality(Newcomers') \in Nat
<1>1. Newcomers \subseteq Threads /\ Newcomers' \subseteq Threads
  BY DEF Newcomers
<1>2. IsFiniteSet(Newcomers) /\ IsFiniteSet(Newcomers')
  BY <1>1, TsrmAssumption, FS_Subset
<1>3. QED
  BY <1>2, FS_CardinalityType

LEMMA RoomKept ==
    ASSUME RoomInv, used \in Nat, used' = used, Newcomers' \subseteq Newcomers
    PROVE  RoomInv'
<1>1. Cardinality(Newcomers') <= Cardinality(Newcomers)
  BY NewcomersFinite, FS_Subset
<1>2. QED
  BY <1>1, NewcomersFinite, Bounds DEF RoomInv

-----------------------------------------------------------------------------
\* Each action keeps the invariant, one part of it after the other.
LEMMA FetchInductive ==
    ASSUME IInv, NEW th \in Threads, Fetch(th)
    PROVE  IInv'
<1> USE DEF Goto, Call, ids, table, history
<1> DEFINE e == entry'[th]
<1>0. TypeOK /\ RoomInv /\ MutexInv /\ ChainInv /\ CountInv /\ SlotInv /\ WorkInv /\ PhaseInv
  BY DEF IInv
<1>a. PICK id \in Usable(th) : arg' = [arg EXCEPT ![th] = id]
  BY DEF Fetch
<1>b. /\ pc[th] = "idle"
      /\ pc'[th] = IF tls[th] # 0 THEN "load" ELSE "search"
      /\ pc'[th] = "load" => entry'[th] = tls[th]
      /\ arg'[th] = id
      /\ OthersStay(th)
  BY <1>0, <1>a DEF Fetch, TypeOK, OthersStay
<1>1. TypeOK'
  <2>0. id \in 0..types /\ tls[th] \in 0..used
    BY <1>0, Bounds DEF TypeOK, Usable
  <2>1. arg' \in [Threads -> 0..types]
    BY <1>0, <1>a, <2>0 DEF TypeOK
  <2>2. pc' \in [Threads -> Labels] /\ entry' \in [Threads -> 0..used]
    BY <1>0, <2>0 DEF TypeOK, Fetch, Labels
  <2>4. calls' \in 0..MaxCalls
    BY <1>0, Bounds DEF TypeOK, Fetch
  <2>3. QED
    BY <1>0, <2>1, <2>2, <2>4 DEF TypeOK, Fetch
<1>3. MutexInv'
  BY <1>0, <1>b DEF MutexInv, OthersStay, Fetch
<1>4. ChainInv'
  BY <1>0 DEF ChainInv, Linked, Mine, Fetch
<1>5. CountInv'
  BY <1>0, <1>b DEF CountInv, Small, Linked, Fetch, OthersStay
<1>6. SlotInv'
  BY <1>0, <1>b DEF SlotInv, Raw, Right, Linked, Fetch, OthersStay
<1>7. WorkInv'
  BY <1>0, <1>a, <1>b DEF ChainInv, WorkInv, InUse, Usable, Mine, Linked, Fetch, OthersStay
<1>8. PhaseInv'
  BY <1>0 DEF PhaseInv, Fetch
<1>9. DeadInv' /\ Own'
  BY DEF IInv, DeadInv, Own, Instances, Linked, Fetch
<1>2. RoomInv'
  <2>1. IsFiniteSet(Newcomers) /\ IsFiniteSet(Searching) /\ Newcomers \subseteq Searching
    BY TsrmAssumption, FS_Subset DEF Newcomers, Searching
  <2>2. Newcomers' \subseteq Newcomers \cup {th}
    BY <1>b DEF Newcomers, Fetch, OthersStay
  <2>3. CASE tls[th] # 0
    <3>1. Newcomers' = Newcomers
      BY <1>b, <2>3 DEF Newcomers, Fetch, OthersStay
    <3>2. QED
      BY <3>1, <1>0 DEF RoomInv, Fetch
  <2>4. CASE tls[th] = 0
    <3>1. used + Cardinality(Searching) < MaxEntries
      BY <2>4 DEF Fetch, RoomForEntry
    <3>2. Cardinality(Newcomers) <= Cardinality(Searching)
      BY <2>1, FS_Subset
    <3>3. /\ IsFiniteSet(Newcomers \cup {th})
          /\ Cardinality(Newcomers \cup {th}) <= Cardinality(Newcomers) + 1
      BY <2>1, FS_AddElement, FS_CardinalityType
    <3>4. Cardinality(Newcomers') <= Cardinality(Newcomers) + 1
      BY <2>2, <3>3, FS_Subset, FS_CardinalityType
    <3>5. Cardinality(Searching) \in Nat /\ used \in Nat /\ used' = used
      BY <1>0, <2>1, Bounds, FS_CardinalityType DEF TypeOK, Fetch
    <3>6. QED
      BY <3>1, <3>2, <3>4, <3>5, NewcomersFinite, Bounds DEF RoomInv
  <2>5. QED
    BY <2>3, <2>4
<1>10. QED
  BY <1>1, <1>2, <1>3, <1>4, <1>5, <1>6, <1>7, <1>8, <1>9 DEF IInv

LEMMA FoundInductive ==
    ASSUME IInv, NEW th \in Threads, Found(th)
    PROVE  IInv'
<1> USE DEF Goto, ids, table, history
<1>0. TypeOK /\ RoomInv /\ MutexInv /\ ChainInv /\ CountInv /\ SlotInv /\ WorkInv /\ PhaseInv
  BY DEF IInv
<1>a. PICK e \in Mine(th) : entry' = [entry EXCEPT ![th] = e]
  BY DEF Found
<1>b. /\ pc[th] = "search" /\ pc'[th] = "load"
      /\ entry'[th] = e
      /\ arg' = arg
      /\ OthersStay(th)
  BY <1>0, <1>a DEF Found, TypeOK, OthersStay
<1>1. TypeOK'
  <2>1. e \in 0..used
    BY <1>0, Bounds DEF TypeOK, Mine
  <2>2. pc' \in [Threads -> Labels] /\ entry' \in [Threads -> 0..used]
    BY <1>0, <1>a, <2>1 DEF TypeOK, Found, Labels
  <2>3. QED
    BY <1>0, <2>2 DEF TypeOK, Found
<1>2. RoomInv'
  <2>1. Newcomers' \subseteq Newcomers
    BY <1>b DEF Newcomers, Found, OthersStay
  <2>2. QED
    BY <2>1, <1>0, RoomKept DEF TypeOK, Found
<1>3. MutexInv'
  BY <1>0, <1>b DEF MutexInv, OthersStay, Found
<1>4. ChainInv'
  BY <1>0 DEF ChainInv, Linked, Mine, Found
<1>5. CountInv'
  BY <1>0, <1>b DEF CountInv, Small, Linked, Found, OthersStay
<1>6. SlotInv'
  BY <1>0, <1>b DEF SlotInv, Raw, Right, Linked, Found, OthersStay
<1>7. WorkInv'
  BY <1>0, <1>b DEF WorkInv, InUse, Mine, Linked, Found, OthersStay
<1>8. PhaseInv'
  BY <1>0, <1>b DEF PhaseInv, Found
<1>9. DeadInv' /\ Own'
  BY DEF IInv, DeadInv, Own, Instances, Linked, Found
<1>10. QED
  BY <1>1, <1>2, <1>3, <1>4, <1>5, <1>6, <1>7, <1>8, <1>9 DEF IInv

LEMMA LoadInductive ==
    ASSUME IInv, NEW th \in Threads, Load(th)
    PROVE  IInv'
<1> USE DEF Goto, ids, table, history
<1>0. TypeOK /\ RoomInv /\ MutexInv /\ ChainInv /\ CountInv /\ SlotInv /\ WorkInv /\ PhaseInv
  BY DEF IInv
<1>b. /\ pc[th] = "load" /\ pc'[th] = "deref"
      /\ OthersStay(th)
  BY <1>0 DEF Load, TypeOK, OthersStay
<1>1. TypeOK'
  <2>1. entry[th] \in Entries
    BY <1>0, <1>b, LinkedEntries DEF WorkInv
  <2>2. pc' \in [Threads -> Labels]
    BY <1>0 DEF TypeOK, Load, Labels
  <2>3. ptr' \in [Threads -> 0..MaxIds]
    BY <1>0, <2>1 DEF TypeOK, Load
  <2>4. QED
    BY <1>0, <2>2, <2>3 DEF TypeOK, Load
<1>2. RoomInv'
  <2>1. Newcomers' \subseteq Newcomers
    BY <1>b DEF Newcomers, Load, OthersStay
  <2>2. QED
    BY <2>1, <1>0, RoomKept DEF TypeOK, Load
<1>3. MutexInv'
  BY <1>0, <1>b DEF MutexInv, OthersStay, Load
<1>4. ChainInv'
  BY <1>0 DEF ChainInv, Linked, Mine, Load
<1>5. CountInv'
  BY <1>0, <1>b DEF CountInv, Small, Linked, Load, OthersStay
<1>6. SlotInv'
  BY <1>0, <1>b DEF SlotInv, Raw, Right, Linked, Load, OthersStay
<1>7. WorkInv'
  BY <1>0, <1>b DEF WorkInv, InUse, Mine, Linked, Load, OthersStay
<1>8. PhaseInv'
  BY <1>0, <1>b DEF PhaseInv, Load
<1>9. DeadInv' /\ Own'
  BY DEF IInv, DeadInv, Own, Instances, Linked, Load
<1>10. QED
  BY <1>1, <1>2, <1>3, <1>4, <1>5, <1>6, <1>7, <1>8, <1>9 DEF IInv

LEMMA DerefInductive ==
    ASSUME IInv, NEW th \in Threads, Deref(th)
    PROVE  IInv'
<1> USE DEF Goto, ids, table
<1>0. TypeOK /\ RoomInv /\ MutexInv /\ ChainInv /\ CountInv /\ SlotInv /\ WorkInv /\ PhaseInv
      /\ DeadInv /\ Own
  BY DEF IInv
<1>b. /\ pc[th] = "deref" /\ pc'[th] = "idle"
      /\ OthersStay(th)
  BY <1>0 DEF Deref, TypeOK, OthersStay
\* The slot that is read: the entry is linked, the id is in use, and nobody is
\* constructing the thread's entry but the thread itself.
<1>c. entry[th] \in Mine(th) /\ entry[th] \in Linked /\ InUse(th)
  BY <1>0, <1>b, LinkedEntries DEF WorkInv
<1>d. slot[entry[th]][arg[th]] = "made"
  <2>1. entry[th] \in Entries /\ arg[th] \in Ids /\ types \in Nat
    <3>1. entry[th] \in Entries
      BY <1>0, <1>c, LinkedEntries
    <3>2. arg[th] \in 1..types /\ types \in Nat /\ types <= MaxIds
      BY <1>0, <1>c, Bounds DEF TypeOK, InUse
    <3>3. QED
      BY <3>1, <3>2, Bounds DEF Ids
  <2>2. arg[th] <= count[entry[th]]
    BY <1>0, <1>c, <2>1, Bounds DEF CountInv, InUse, Small
  <2>3. ~ Raw(entry[th], arg[th])
    BY <1>0, <1>b, <1>c DEF Raw, WorkInv, Mine
  <2>4. QED
    BY <1>0, <1>c, <2>1, <2>2, <2>3 DEF SlotInv, Right, InUse
<1>e. <<entry[th], arg[th]>> \notin dead
  BY <1>0, <1>c DEF DeadInv, InUse
<1>f. got' \subseteq got \cup {"moved", "made"}
  BY <1>c, <1>d, <1>e DEF Deref, Mine
<1>1. TypeOK'
  <2>1. 0 \in 0..types /\ 0 \in 0..used /\ 0 \in 0..MaxIds
    BY <1>0, Bounds DEF TypeOK
  <2>2. pc' \in [Threads -> Labels] /\ arg' \in [Threads -> 0..types]
    BY <1>0, <2>1 DEF TypeOK, Deref, Labels
  <2>3. entry' \in [Threads -> 0..used] /\ ptr' \in [Threads -> 0..MaxIds]
    BY <1>0, <2>1 DEF TypeOK, Deref
  <2>4. got' \subseteq Slots \cup {"moved", "dead", "foreign"}
    BY <1>0, <1>f DEF TypeOK, Slots
  <2>5. QED
    BY <1>0, <2>2, <2>3, <2>4 DEF TypeOK, Deref
<1>2. RoomInv'
  <2>1. Newcomers' \subseteq Newcomers
    BY <1>b DEF Newcomers, Deref, OthersStay
  <2>2. QED
    BY <2>1, <1>0, RoomKept DEF TypeOK, Deref
<1>3. MutexInv'
  BY <1>0, <1>b DEF MutexInv, OthersStay, Deref
<1>4. ChainInv'
  BY <1>0 DEF ChainInv, Linked, Mine, Deref
<1>5. CountInv'
  BY <1>0, <1>b DEF CountInv, Small, Linked, Deref, OthersStay
<1>6. SlotInv'
  BY <1>0, <1>b DEF SlotInv, Raw, Right, Linked, Deref, OthersStay
<1>7. WorkInv'
  BY <1>0, <1>b DEF WorkInv, InUse, Mine, Linked, Deref, OthersStay
<1>8. PhaseInv'
  BY <1>0, <1>b DEF PhaseInv, Deref
<1>9. DeadInv'
  BY <1>0 DEF DeadInv, Instances, Linked, Deref
<1>10. Own'
  BY <1>0, <1>f DEF Own
<1>11. QED
  BY <1>1, <1>2, <1>3, <1>4, <1>5, <1>6, <1>7, <1>8, <1>9, <1>10 DEF IInv

LEMMA ConstructedInductive ==
    ASSUME IInv, NEW th \in Threads, Constructed(th)
    PROVE  IInv'
<1> USE DEF Goto, Unlock, ids, table, local, history
<1>0. TypeOK /\ RoomInv /\ MutexInv /\ ChainInv /\ CountInv /\ SlotInv /\ WorkInv /\ PhaseInv
  BY DEF IInv
<1>b. /\ pc[th] = "construct" /\ pc'[th] = "search" /\ todo[th] = {}
      /\ OthersStay(th)
      /\ mutex = th /\ mutex' = Nobody
  BY <1>0 DEF Constructed, TypeOK, OthersStay, MutexInv
<1>1. TypeOK'
  <2>1. pc' \in [Threads -> Labels]
    BY <1>0 DEF TypeOK, Constructed, Labels
  <2>2. QED
    BY <1>0, <1>b, <2>1 DEF TypeOK, Constructed
<1>2. RoomInv'
  <2>1. Newcomers' \subseteq Newcomers
    BY <1>0, <1>b DEF Newcomers, Constructed, OthersStay, WorkInv
  <2>2. QED
    BY <2>1, <1>0, RoomKept DEF TypeOK, Constructed
<1>3. MutexInv'
  BY <1>0, <1>b, Bounds DEF MutexInv, OthersStay, Constructed
<1>4. ChainInv'
  BY <1>0 DEF ChainInv, Linked, Mine, Constructed
<1>5. CountInv'
  BY <1>0, <1>b DEF CountInv, Small, Linked, Constructed, OthersStay
<1>6. SlotInv'
  <2>1. \A f, id : Raw(f, id) => Raw(f, id)'
    BY <1>b DEF Raw, Constructed, OthersStay
  <2>2. QED
    BY <1>0, <2>1 DEF SlotInv, Right, Linked, Constructed
<1>7. WorkInv'
  BY <1>0, <1>b DEF WorkInv, InUse, Mine, Linked, Constructed, OthersStay
<1>8. PhaseInv'
  BY <1>0, <1>b DEF PhaseInv, Constructed
<1>9. DeadInv' /\ Own'
  BY DEF IInv, DeadInv, Own, Instances, Linked, Constructed
<1>10. QED
  BY <1>1, <1>2, <1>3, <1>4, <1>5, <1>6, <1>7, <1>8, <1>9 DEF IInv

LEMMA EnlargedInductive ==
    ASSUME IInv, NEW th \in Threads, Enlarged(th)
    PROVE  IInv'
<1> USE DEF Goto, Unlock, ids, table, local, history
<1>0. TypeOK /\ RoomInv /\ MutexInv /\ ChainInv /\ CountInv /\ SlotInv /\ WorkInv /\ PhaseInv
  BY DEF IInv
<1>b. /\ pc[th] = "enlarge" /\ pc'[th] = "idle" /\ todo[th] = {}
      /\ OthersStay(th)
      /\ mutex = th /\ mutex' = Nobody
  BY <1>0 DEF Enlarged, TypeOK, OthersStay, MutexInv
<1>1. TypeOK'
  <2>1. pc' \in [Threads -> Labels]
    BY <1>0 DEF TypeOK, Enlarged, Labels
  <2>2. QED
    BY <1>0, <1>b, <2>1 DEF TypeOK, Enlarged
<1>2. RoomInv'
  <2>1. Newcomers' \subseteq Newcomers
    BY <1>b DEF Newcomers, Enlarged, OthersStay
  <2>2. QED
    BY <2>1, <1>0, RoomKept DEF TypeOK, Enlarged
<1>3. MutexInv'
  BY <1>0, <1>b, Bounds DEF MutexInv, OthersStay, Enlarged
<1>4. ChainInv'
  BY <1>0 DEF ChainInv, Linked, Mine, Enlarged
<1>5. CountInv'
  <2>1. \A f : Small(f)' <=> Small(f)
    BY <1>b DEF Small, OthersStay, Enlarged
  <2>2. QED
    BY <1>0, <2>1 DEF CountInv, Linked, Enlarged
<1>6. SlotInv'
  BY <1>0, <1>b DEF SlotInv, Raw, Right, Linked, Enlarged, OthersStay
<1>7. WorkInv'
  BY <1>0, <1>b DEF WorkInv, InUse, Mine, Linked, Enlarged, OthersStay
<1>8. PhaseInv'
  BY <1>0, <1>b DEF PhaseInv, Enlarged
<1>9. DeadInv' /\ Own'
  BY DEF IInv, DeadInv, Own, Instances, Linked, Enlarged
<1>10. QED
  BY <1>1, <1>2, <1>3, <1>4, <1>5, <1>6, <1>7, <1>8, <1>9 DEF IInv

LEMMA ConstructInductive ==
    ASSUME IInv, NEW th \in Threads, Construct(th)
    PROVE  IInv'
<1> USE DEF ids, history
<1>0. TypeOK /\ RoomInv /\ MutexInv /\ ChainInv /\ CountInv /\ SlotInv /\ WorkInv /\ PhaseInv
      /\ DeadInv
  BY DEF IInv
<1> DEFINE e == entry[th]
<1>a. PICK id \in todo[th] :
        /\ slot' = [slot EXCEPT ![e][id] = Right(id)]
        /\ todo' = [todo EXCEPT ![th] = @ \ {id}]
  BY DEF Construct, Right
<1>b. /\ pc[th] = "construct" /\ pc' = pc
      /\ todo'[th] = todo[th] \ {id}
      /\ OthersStay(th)
  BY <1>0, <1>a DEF Construct, TypeOK, OthersStay
<1>c. e \in Mine(th) /\ e \in Linked /\ e \in Entries
  BY <1>0, <1>b, LinkedEntries DEF WorkInv
<1>d. id \in 1..types /\ id \in Ids
  BY <1>0, <1>b, Bounds DEF WorkInv, TypeOK, Ids
<1>e. /\ slot'[e][id] = Right(id)
      /\ \A f \in Entries : \A j \in Ids : f # e \/ j # id => slot'[f][j] = slot[f][j]
  BY <1>0, <1>a, <1>c, <1>d DEF TypeOK
<1>f. \A t \in Threads : pc[t] # "enlarge"
  BY <1>0, <1>b DEF MutexInv
<1>1. TypeOK'
  <2>1. Right(id) \in Slots
    BY DEF Right, Slots
  <2>2. slot' \in [Entries -> [Ids -> Slots]]
    BY <1>0, <1>a, <2>1, <1>c, <1>d DEF TypeOK
  <2>3. todo' \in [Threads -> SUBSET (Ids \cup Entries)]
    BY <1>0, <1>a DEF TypeOK
  <2>4. QED
    BY <1>0, <2>2, <2>3 DEF TypeOK, Construct
<1>2. RoomInv'
  BY <1>0 DEF RoomInv, Newcomers, Construct
<1>3. MutexInv'
  BY <1>0 DEF MutexInv, Construct
<1>4. ChainInv'
  BY <1>0 DEF ChainInv, Linked, Mine, Construct
<1>5. CountInv'
  <2>1. \A f : ~ Small(f) /\ ~ Small(f)'
    BY <1>f, <1>b DEF Small
  <2>2. QED
    BY <1>0, <2>1 DEF CountInv, Linked, Construct
<1>6. SlotInv'
  <2>1. \A f \in Entries : \A j \in Ids : f # e \/ j # id => (Raw(f, j) => Raw(f, j)')
    BY <1>b DEF Raw, OthersStay, Construct
  <2>2. id <= count[e]
    BY <1>0, <1>c, <1>d, <1>f DEF CountInv, Small
  <2>3. Linked' = Linked /\ count' = count /\ used' = used /\ done' = done
    BY DEF Linked, Construct
  <2>4. \A f \in Linked : \A j \in Ids :
          IF j <= count[f] THEN slot'[f][j] = Right(j) \/ Raw(f, j)' ELSE slot'[f][j] = "beyond"
    <3> SUFFICES ASSUME NEW f \in Linked, NEW j \in Ids
                 PROVE  IF j <= count[f] THEN slot'[f][j] = Right(j) \/ Raw(f, j)'
                                         ELSE slot'[f][j] = "beyond"
      OBVIOUS
    <3>1. f \in Entries
      BY <1>0, LinkedEntries
    <3>2. CASE f = e /\ j = id
      BY <3>2, <1>e, <2>2
    <3>3. CASE f # e \/ j # id
      BY <3>1, <3>3, <1>0, <1>e, <2>1 DEF SlotInv
    <3>4. QED
      BY <3>2, <3>3
  <2>5. \A f \in Entries : f > used => \A j \in Ids : slot'[f][j] = "beyond"
    <3>1. e \in 1..used
      BY <1>0, <1>c, LinkedEntries
    <3>2. \A f \in Entries : f > used => f # e
      BY <3>1, <1>0, Bounds DEF TypeOK, Entries
    <3>3. QED
      BY <3>2, <1>0, <1>e DEF SlotInv
  <2>6. QED
    BY <2>3, <2>4, <2>5 DEF SlotInv, Right
<1>7. WorkInv'
  BY <1>0, <1>b DEF WorkInv, InUse, Mine, Linked, Construct, OthersStay
<1>8. PhaseInv'
  BY <1>0 DEF PhaseInv, Construct
<1>9. DeadInv'
  <2>1. Linked' = Linked /\ used' = used
    BY DEF Linked, Construct
  <2>2. \A f \in (1..used) \ Linked : \A j \in Ids : slot'[f][j] = slot[f][j]
    BY <1>0, <1>c, <1>e, LinkedEntries
  <2>3. Instances((1..used) \ Linked)' = Instances((1..used) \ Linked)
    BY <2>1, <2>2 DEF Instances
  <2>4. QED
    BY <1>0, <2>1, <2>3 DEF DeadInv, Construct
<1>10. Own'
  BY DEF IInv, Own, Construct
<1>11. QED
  BY <1>1, <1>2, <1>3, <1>4, <1>5, <1>6, <1>7, <1>8, <1>9, <1>10 DEF IInv

LEMMA AllocateNewInductive ==
    ASSUME IInv, NEW th \in Threads, AllocateNew(th)
    PROVE  IInv'
<1> USE DEF Goto, ids, history
<1>0. TypeOK /\ RoomInv /\ MutexInv /\ ChainInv /\ CountInv /\ SlotInv /\ WorkInv /\ PhaseInv
      /\ DeadInv
  BY DEF IInv
<1> DEFINE e == used + 1
<1>a. /\ pc[th] = "search" /\ mutex = Nobody /\ Mine(th) = {}
      /\ used' = e /\ mutex' = th
      /\ chain' = [chain EXCEPT ![Hash[th]] = @ \cup {e}]
      /\ owner' = [owner EXCEPT ![e] = th]
      /\ count' = [count EXCEPT ![e] = types]
      /\ slot' = [slot EXCEPT ![e] = [id \in Ids |-> IF id <= types THEN "junk" ELSE "beyond"]]
      /\ tls' = [tls EXCEPT ![th] = e]
      /\ types = id_count
      /\ UNCHANGED <<id_count, types, done, loader, block, arg, ptr, calls, phase, dead, again, got>>
  BY DEF AllocateNew, Free
<1>b. /\ pc'[th] = "construct" /\ entry'[th] = e /\ todo'[th] = 1..types
      /\ OthersStay(th)
      /\ arg' = arg
  BY <1>0 DEF AllocateNew, TypeOK, OthersStay
\* The thread is one of those RoomInv counts.
<1>c. tls[th] = 0
  BY <1>0, <1>a DEF ChainInv
<1>2. RoomInv' /\ e \in Entries /\ used \in Nat
  <2>1. th \in Newcomers /\ Newcomers' \subseteq Newcomers \ {th}
    BY <1>0, <1>a, <1>b, <1>c DEF Newcomers, OthersStay, TypeOK
  <2>2. /\ IsFiniteSet(Newcomers \ {th})
        /\ Cardinality(Newcomers \ {th}) = Cardinality(Newcomers) - 1
    BY <2>1, NewcomersFinite, FS_RemoveElement
  <2>3. Cardinality(Newcomers') <= Cardinality(Newcomers) - 1
    BY <2>1, <2>2, FS_Subset
  <2>4. used \in Nat
    BY <1>0, Bounds DEF TypeOK
  <2>5. QED
    BY <1>0, <1>a, <2>3, <2>4, NewcomersFinite, Bounds DEF RoomInv, Entries
<1>d. Linked' = Linked \cup {e} /\ e \notin Linked
  <2>1. Linked' = Linked \cup {e}
    BY <1>0, <1>a, Bounds DEF Linked, TypeOK
  <2>2. QED
    BY <2>1, <1>0, <1>2, LinkedEntries
<1>e. \A f \in Entries : f # e => /\ owner'[f] = owner[f]
                                  /\ count'[f] = count[f]
                                  /\ slot'[f] = slot[f]
  BY <1>0, <1>a DEF TypeOK
<1>f. /\ owner'[e] = th /\ count'[e] = types
      /\ \A id \in Ids : slot'[e][id] = IF id <= types THEN "junk" ELSE "beyond"
  BY <1>0, <1>a, <1>2 DEF TypeOK
<1>g. \A t \in Threads : pc[t] \notin {"construct", "enlarge"}
  BY <1>0, <1>a, Bounds DEF MutexInv
<1>h. \A t \in Threads : (chain'[Hash[t]] \ {e}) = chain[Hash[t]]
  BY <1>0, <1>a, <1>d, Bounds DEF TypeOK, Linked
<1>i. e \in Mine(th)'
  BY <1>0, <1>a, <1>f, Bounds DEF Mine, TypeOK
<1>j. \A t \in Threads : Mine(t) \subseteq Mine(t)'
  <2>1. \A t \in Threads : Mine(t) \subseteq Entries /\ e \notin Mine(t)
    BY <1>0, <1>d, LinkedEntries
  <2>2. QED
    BY <1>e, <1>h, <2>1 DEF Mine
<1>1. TypeOK'
  <2>1. used' \in 0..MaxEntries
    BY <1>0, <1>a, <1>2, Bounds DEF Entries
  <2>2. chain' \in [Buckets -> SUBSET (1..used')]
    <3>1. \A b \in Buckets : chain[b] \cup {e} \subseteq 1..e /\ chain[b] \subseteq 1..e
      BY <1>0, <1>2 DEF TypeOK
    <3>2. QED
      BY <1>0, <1>a, <3>1 DEF TypeOK
  <2>3. tls' \in [Threads -> 0..used'] /\ entry' \in [Threads -> 0..used']
    <3>1. \A t \in Threads : tls[t] \in 0..e /\ entry[t] \in 0..e
      BY <1>0, <1>2 DEF TypeOK
    <3>2. e \in 0..e
      BY <1>2
    <3>3. QED
      BY <1>0, <1>a, <3>1, <3>2 DEF TypeOK, AllocateNew
  <2>4. count' \in [Entries -> 0..MaxIds] /\ owner' \in [Entries -> Threads \cup {Nobody}]
    BY <1>0, <1>a, Bounds DEF TypeOK
  <2>5. slot' \in [Entries -> [Ids -> Slots]]
    BY <1>0, <1>a DEF TypeOK, Slots
  <2>6. todo' \in [Threads -> SUBSET (Ids \cup Entries)]
    <3>1. 1..types \subseteq Ids
      BY <1>0, Bounds DEF TypeOK, Ids
    <3>2. QED
      BY <1>0, <3>1 DEF TypeOK, AllocateNew
  <2>7. pc' \in [Threads -> Labels]
    BY <1>0 DEF TypeOK, AllocateNew, Labels
  <2>8. QED
    BY <1>0, <1>a, <2>1, <2>2, <2>3, <2>4, <2>5, <2>6, <2>7 DEF TypeOK
<1>3. MutexInv'
  BY <1>0, <1>a, <1>b, <1>g, Bounds DEF MutexInv, OthersStay
<1>4. ChainInv'
  <2>1. \A b \in Buckets : \A f \in chain'[b] : owner'[f] \in Threads /\ Hash[owner'[f]] = b
    <3> SUFFICES ASSUME NEW b \in Buckets, NEW f \in chain'[b]
                 PROVE  owner'[f] \in Threads /\ Hash[owner'[f]] = b
      OBVIOUS
    <3>1. CASE f \in chain[b]
      <4>1. f \in Linked /\ f \in Entries /\ f # e
        BY <3>1, <1>0, <1>d, LinkedEntries DEF Linked
      <4>2. QED
        BY <3>1, <4>1, <1>0, <1>e DEF ChainInv
    <3>2. CASE f \notin chain[b]
      <4>1. f = e /\ b = Hash[th]
        BY <3>2, <1>0, <1>a DEF TypeOK
      <4>2. QED
        BY <4>1, <1>f
    <3>3. QED
      BY <3>1, <3>2
  <2>2. \A f \in Linked : owner'[f] # th /\ owner'[f] = owner[f]
    <3> SUFFICES ASSUME NEW f \in Linked
                 PROVE  owner'[f] # th /\ owner'[f] = owner[f]
      OBVIOUS
    <3>1. owner'[f] = owner[f]
      BY <1>0, <1>d, <1>e, LinkedEntries
    <3>2. PICK b \in Buckets : f \in chain[b]
      BY DEF Linked
    <3>3. owner[f] # th
      BY <3>2, <1>0, <1>a DEF ChainInv, Mine
    <3>4. QED
      BY <3>1, <3>3
  <2>3. \A f, g \in Linked' : owner'[f] = owner'[g] => f = g
    BY <1>0, <1>d, <1>f, <2>2 DEF ChainInv
  <2>4. \A t \in Threads : tls'[t] # 0 => tls'[t] \in Mine(t)'
    BY <1>0, <1>a, <1>i, <1>j DEF ChainInv, TypeOK
  <2>5. QED
    BY <2>1, <2>3, <2>4 DEF ChainInv
<1>5. CountInv'
  <2>1. \A f : ~ Small(f) /\ ~ Small(f)'
    BY <1>b, <1>g DEF Small, OthersStay
  <2>2. \A f \in Entries : block'[f] <= count'[f] /\ count'[f] <= types'
    <3>1. \A f \in Entries : block[f] \in Nat /\ count[f] \in Nat /\ types \in Nat
      BY <1>0, Bounds DEF TypeOK
    <3>2. QED
      BY <1>0, <1>a, <1>e, <1>f, <3>1 DEF CountInv
  <2>3. \A f \in Linked' : count'[f] = types'
    BY <1>0, <1>a, <1>d, <1>e, <1>f, <2>1, LinkedEntries DEF CountInv
  <2>4. QED
    BY <2>1, <2>2, <2>3 DEF CountInv
<1>6. SlotInv'
  <2>1. \A f \in Linked' : \A id \in Ids :
          IF id <= count'[f] THEN slot'[f][id] = Right(id)' \/ Raw(f, id)'
                             ELSE slot'[f][id] = "beyond"
    <3> SUFFICES ASSUME NEW f \in Linked', NEW id \in Ids
                 PROVE  IF id <= count'[f] THEN slot'[f][id] = Right(id)' \/ Raw(f, id)'
                                           ELSE slot'[f][id] = "beyond"
      OBVIOUS
    <3>1. CASE f = e
      <4>1. id <= types => Raw(f, id)'
        <5>1. id <= types => id \in 1..types
          BY <1>0, Bounds DEF Ids, TypeOK
        <5>2. QED
          BY <3>1, <1>b, <5>1 DEF Raw
      <4>2. QED
        BY <3>1, <4>1, <1>f
    <3>2. CASE f # e
      <4>1. f \in Linked /\ f \in Entries
        BY <3>2, <1>0, <1>d, LinkedEntries
      <4>2. ~ Raw(f, id) /\ Right(id)' = Right(id)
        BY <1>a, <1>g DEF Raw, Right
      <4>3. QED
        BY <4>1, <4>2, <3>2, <1>0, <1>e DEF SlotInv
    <3>3. QED
      BY <3>1, <3>2
  <2>2. \A f \in Entries : f > used' => \A id \in Ids : slot'[f][id] = "beyond"
    <3>1. \A f \in Entries : f > used' => f # e /\ f > used
      BY <1>2, <1>a, Bounds DEF Entries
    <3>2. QED
      BY <1>0, <1>e, <3>1 DEF SlotInv
  <2>3. QED
    BY <2>1, <2>2 DEF SlotInv
<1>7. WorkInv'
  <2>1. \A t \in Threads : pc'[t] # "enlarge"
    BY <1>b, <1>g DEF OthersStay
  <2>2. \A t \in Threads : InUse(t) => InUse(t)'
    BY <1>a, <1>b, <2>1 DEF InUse
  <2>3. InUse(th)
    BY <1>0, <1>a DEF WorkInv
  <2>4. tls'[th] # 0
    BY <1>0, <1>a, <1>2 DEF TypeOK
  <2>5. QED
    <3>1. ASSUME NEW t \in Threads, t # th
          PROVE  /\ pc'[t] = pc[t] /\ entry'[t] = entry[t] /\ todo'[t] = todo[t]
                 /\ pc[t] \notin {"construct", "enlarge"}
                 /\ InUse(t) => InUse(t)' /\ Mine(t) \subseteq Mine(t)'
      BY <3>1, <1>b, <1>g, <1>j, <2>2 DEF OthersStay
    <3>2. QED
      BY <3>1, <1>0, <1>a, <1>b, <1>i, <2>2, <2>3, <2>4, ZenonT(60) DEF WorkInv
<1>8. PhaseInv'
  BY <1>0, <1>a DEF PhaseInv
<1>9. DeadInv'
  <2>1. (1..used') \ Linked' = (1..used) \ Linked
    BY <1>0, <1>a, <1>d, <1>2
  <2>2. \A f \in (1..used) \ Linked : slot'[f] = slot[f]
    BY <1>0, <1>e, <1>2, LinkedEntries
  <2>3. Instances((1..used) \ Linked)' = Instances((1..used) \ Linked)
    BY <2>1, <2>2 DEF Instances
  <2>4. \A x \in dead : x[1] \in Nat /\ x[1] <= used /\ x[1] # e
    <3>1. \A x \in dead : x[1] \in Entries /\ x[1] <= used
      BY <1>0 DEF DeadInv, TypeOK
    <3>2. QED
      BY <3>1, <1>2, Bounds DEF Entries
  <2>5. \A x \in dead' : x[1] <= used' /\ (x[1] \in Linked' => x[2] \in done')
    BY <1>0, <1>2, <1>a, <1>d, <2>4 DEF DeadInv
  <2>6. QED
    BY <1>0, <1>a, <2>3, <2>5 DEF DeadInv
<1>10. Own'
  BY <1>a DEF IInv, Own
<1>11. QED
  BY <1>1, <1>2, <1>3, <1>4, <1>5, <1>6, <1>7, <1>8, <1>9, <1>10 DEF IInv

LEMMA AllocateIdInductive ==
    ASSUME IInv, NEW th \in Threads, AllocateId(th)
    PROVE  IInv'
<1> USE DEF Goto, Call, table, history
<1>0. TypeOK /\ RoomInv /\ MutexInv /\ ChainInv /\ CountInv /\ SlotInv /\ WorkInv /\ PhaseInv
      /\ DeadInv
  BY DEF IInv
<1> DEFINE n == types + 1
<1>a. /\ pc[th] = "idle" /\ mutex = Nobody /\ types < MaxIds /\ phase = "running"
      /\ types = id_count /\ types' = n /\ id_count' = n /\ loader' = [loader EXCEPT ![n] = th]
      /\ mutex' = th
      /\ UNCHANGED <<done, chain, owner, count, block, slot, used, tls, arg, entry, ptr, phase,
                     dead, again, got>>
  BY DEF AllocateId, Free
<1>b. /\ pc'[th] = "enlarge" /\ todo'[th] = Linked
      /\ OthersStay(th)
  BY <1>0 DEF AllocateId, TypeOK, OthersStay
<1>c. \A t \in Threads : pc[t] \notin {"construct", "enlarge"}
  BY <1>0, <1>a, Bounds DEF MutexInv
<1>d. types \in Nat /\ n \in Ids /\ n \notin done
  BY <1>0, <1>a, Bounds DEF TypeOK, Ids
<1>e. Linked' = Linked
  BY <1>a DEF Linked
<1>f. \A t \in Threads : Mine(t)' = Mine(t)
  BY <1>a DEF Mine
<1>1. TypeOK'
  <2>1. types' \in 0..MaxIds /\ loader' \in [Ids -> Threads]
    BY <1>0, <1>a, <1>d, Bounds DEF TypeOK
  <2>2. done' \subseteq 1..types' /\ arg' \in [Threads -> 0..types']
    <3>1. done \subseteq 1..n
      BY <1>0, <1>d DEF TypeOK
    <3>2. \A t \in Threads : arg[t] \in 0..n
      BY <1>0, <1>d DEF TypeOK
    <3>3. arg \in [Threads -> 0..n]
      BY <1>0, <3>2 DEF TypeOK
    <3>4. QED
      BY <1>a, <3>1, <3>3
  <2>3. todo' \in [Threads -> SUBSET (Ids \cup Entries)]
    BY <1>0, LinkedEntries DEF TypeOK, AllocateId
  <2>4. pc' \in [Threads -> Labels]
    BY <1>0 DEF TypeOK, AllocateId, Labels
  <2>5. calls' \in 0..MaxCalls
    BY <1>0, Bounds DEF TypeOK, AllocateId
  <2>6. QED
    BY <1>0, <1>a, <2>1, <2>2, <2>3, <2>4, <2>5 DEF TypeOK
<1>2. RoomInv'
  <2>1. Newcomers' \subseteq Newcomers
    BY <1>a, <1>b DEF Newcomers, OthersStay
  <2>2. QED
    BY <2>1, <1>0, <1>a, RoomKept DEF TypeOK
<1>3. MutexInv'
  BY <1>a, <1>b, <1>c DEF MutexInv, OthersStay
<1>4. ChainInv'
  BY <1>0, <1>a, <1>e, <1>f DEF ChainInv
<1>5. CountInv'
  <2>1. \A e \in Linked : ~ Small(e) /\ Small(e)'
    BY <1>b, <1>c DEF Small
  <2>2. \A e \in Entries : count[e] \in Nat
    BY <1>0, Bounds DEF TypeOK
  <2>3. QED
    BY <1>0, <1>a, <1>d, <1>e, <2>1, <2>2 DEF CountInv
<1>6. SlotInv'
  <2>1. \A e, id : ~ Raw(e, id) /\ ~ Raw(e, id)'
    BY <1>b, <1>c DEF Raw, OthersStay
  <2>2. QED
    BY <1>0, <1>a, <1>e, <2>1 DEF SlotInv, Right
<1>7. WorkInv'
  <2>1. \A t \in Threads : InUse(t) => InUse(t)'
    <3> SUFFICES ASSUME NEW t \in Threads, InUse(t)
                 PROVE  InUse(t)'
      OBVIOUS
    <3>1. arg[t] \in 1..types /\ arg[t] \in 1..n /\ arg[t] # n /\ arg[t] \in Ids
      <4>1. arg[t] \in 1..types
        BY DEF InUse
      <4>2. types < MaxIds
        BY <1>a
      <4>3. QED
        BY <4>1, <4>2, <1>d, Bounds DEF Ids
    <3>2. loader'[arg[t]] = loader[arg[t]]
      BY <3>1, <1>0, <1>a DEF TypeOK
    <3>3. QED
      BY <3>1, <3>2, <1>a DEF InUse
  <2>2. loader'[n] = th
    BY <1>0, <1>a, <1>d DEF TypeOK
  <2>3. QED
    BY <1>0, <1>a, <1>b, <1>c, <1>d, <1>e, <1>f, <2>1, <2>2 DEF WorkInv, OthersStay
<1>8. PhaseInv'
  BY <1>0, <1>a DEF PhaseInv
<1>9. DeadInv' /\ Own'
  BY <1>a DEF IInv, DeadInv, Own, Instances, Linked
<1>10. QED
  BY <1>1, <1>2, <1>3, <1>4, <1>5, <1>6, <1>7, <1>8, <1>9 DEF IInv

\* An id that gets no type changes nothing that the invariant says of the table, but
\* nobody is enlarging then.
LEMMA AllocateIdFailsInductive ==
    ASSUME IInv, NEW th \in Threads, AllocateIdFails(th)
    PROVE  IInv'
<1>0. TypeOK /\ MutexInv /\ PhaseInv /\ DeadInv
  BY DEF IInv
<1>a. /\ mutex = Nobody /\ id_count < MaxIds /\ phase = "running"
      /\ id_count' = id_count + 1 /\ calls' \in 0..MaxCalls
      /\ UNCHANGED <<types, done, loader, chain, owner, count, block, slot, used, tls, mutex, pc,
                     arg, entry, ptr, todo, phase, dead, again, got>>
  BY <1>0, Bounds DEF AllocateIdFails, Call, Free, TypeOK, table, local, history
<1>b. \A t \in Threads : pc[t] # "enlarge"
  BY <1>0, <1>a, Bounds DEF MutexInv
<1>c. id_count \in Nat /\ types \in Nat
  BY <1>0, Bounds DEF TypeOK
<1>1. TypeOK'
  BY <1>0, <1>a, <1>c, Bounds DEF TypeOK
<1>2. RoomInv' /\ MutexInv' /\ ChainInv'
  BY <1>a DEF IInv, RoomInv, Newcomers, MutexInv, ChainInv, Linked, Mine
<1>3. CountInv' /\ SlotInv'
  BY <1>a DEF IInv, CountInv, Small, SlotInv, Raw, Right, Linked
<1>4. WorkInv'
  BY <1>a, <1>b DEF IInv, WorkInv, InUse, Linked, Mine
<1>5. PhaseInv' /\ Own'
  BY <1>a DEF IInv, PhaseInv, Own
<1>6. DeadInv'
  BY <1>0, <1>a DEF DeadInv, Instances, Linked
<1>7. QED
  BY <1>1, <1>2, <1>3, <1>4, <1>5, <1>6 DEF IInv

LEMMA EnlargeInductive ==
    ASSUME IInv, NEW th \in Threads, Enlarge(th)
    PROVE  IInv'
<1> USE DEF ids, history
<1>0. TypeOK /\ RoomInv /\ MutexInv /\ ChainInv /\ CountInv /\ SlotInv /\ WorkInv /\ PhaseInv
      /\ DeadInv
  BY DEF IInv
<1>a. PICK e \in todo[th], moved \in {0, 1} :
        /\ block' = [block EXCEPT ![e] = @ + moved]
        /\ slot' = [slot EXCEPT ![e] = [id \in Ids |->
                        IF id \in (count[e] + 1)..types THEN "made" ELSE @[id]]]
        /\ count' = [count EXCEPT ![e] = types]
        /\ todo' = [todo EXCEPT ![th] = @ \ {e}]
  BY <1>0 DEF Enlarge, WorkInv
<1>b. /\ pc[th] = "enlarge"
      /\ UNCHANGED <<id_count, types, done, loader, chain, owner, used, tls, mutex, pc, arg, entry,
                     ptr, calls, phase, dead, again, got>>
  BY DEF Enlarge
<1>c. /\ todo'[th] = todo[th] \ {e}
      /\ OthersStay(th)
  BY <1>0, <1>a, <1>b DEF TypeOK, OthersStay
<1>d. e \in Linked /\ e \in Entries /\ e \in 1..used /\ types \in Ids \ done
  BY <1>0, <1>b, LinkedEntries DEF WorkInv
<1>e. /\ count[e] = types - 1 /\ types \in Nat /\ count[e] \in Nat
      /\ block[e] \in Nat /\ block[e] <= count[e]
  <2>1. Small(e)
    BY <1>b DEF Small
  <2>2. QED
    BY <2>1, <1>0, <1>d, Bounds DEF CountInv, TypeOK
<1>f. \A t \in Threads : /\ pc[t] # "construct"
                         /\ pc[t] = "enlarge" => t = th
  BY <1>0, <1>b DEF MutexInv
<1>g. \A f \in Entries : f # e => /\ block'[f] = block[f]
                                  /\ count'[f] = count[f]
                                  /\ slot'[f] = slot[f]
  BY <1>0, <1>a DEF TypeOK
<1>h. /\ block'[e] \in 0..types /\ count'[e] = types
      /\ \A id \in Ids : slot'[e][id] = IF id \in (count[e] + 1)..types THEN "made"
                                        ELSE slot[e][id]
  BY <1>0, <1>a, <1>d, <1>e DEF TypeOK
<1>1. TypeOK'
  <2>1. block' \in [Entries -> 0..MaxIds]
    <3>1. block[e] + moved \in 0..MaxIds
      BY <1>0, <1>a, <1>d, <1>e, Bounds DEF Ids
    <3>2. QED
      BY <1>0, <1>a, <3>1 DEF TypeOK
  <2>2. count' \in [Entries -> 0..MaxIds]
    BY <1>0, <1>a DEF TypeOK
  <2>3. slot' \in [Entries -> [Ids -> Slots]]
    BY <1>0, <1>a, <1>d DEF TypeOK, Slots
  <2>4. todo' \in [Threads -> SUBSET (Ids \cup Entries)]
    BY <1>0, <1>a DEF TypeOK
  <2>5. QED
    BY <1>0, <1>b, <2>1, <2>2, <2>3, <2>4 DEF TypeOK
<1>2. RoomInv'
  BY <1>0, <1>b DEF RoomInv, Newcomers
<1>3. MutexInv'
  BY <1>0, <1>b DEF MutexInv
<1>4. ChainInv'
  BY <1>0, <1>b DEF ChainInv, Linked, Mine
<1>5. CountInv'
  <2>1. ~ Small(e)' /\ \A f : f # e => (Small(f)' <=> Small(f))
    BY <1>b, <1>c, <1>f DEF Small, OthersStay
  <2>2. Linked' = Linked
    BY <1>b DEF Linked
  <2>3. \A f \in Entries : block'[f] <= count'[f] /\ count'[f] <= types
    BY <1>0, <1>e, <1>g, <1>h DEF CountInv
  <2>4. \A f \in Linked : count'[f] = IF Small(f)' THEN types - 1 ELSE types
    BY <1>0, <1>g, <1>h, <2>1, LinkedEntries DEF CountInv
  <2>5. QED
    BY <1>b, <2>2, <2>3, <2>4 DEF CountInv
<1>6. SlotInv'
  <2>1. \A f, id : ~ Raw(f, id) /\ ~ Raw(f, id)'
    BY <1>b, <1>f DEF Raw
  <2>2. Linked' = Linked /\ used' = used /\ \A id : Right(id)' = Right(id)
    BY <1>b DEF Linked, Right
  <2>3. \A id \in Ids : IF id <= count'[e] THEN slot'[e][id] = Right(id)
                                           ELSE slot'[e][id] = "beyond"
    <3> SUFFICES ASSUME NEW id \in Ids
                 PROVE  IF id <= types THEN slot'[e][id] = Right(id)
                                          ELSE slot'[e][id] = "beyond"
      BY <1>h
    <3>1. id \in Nat
      BY Bounds DEF Ids
    <3>2. CASE id = types
      BY <3>2, <1>d, <1>e, <1>h DEF Right
    <3>3. CASE id < types
      BY <3>1, <3>3, <1>0, <1>d, <1>e, <1>h, <2>1 DEF SlotInv
    <3>4. CASE id > types
      BY <3>1, <3>4, <1>0, <1>d, <1>e, <1>h DEF SlotInv
    <3>5. QED
      BY <3>1, <3>2, <3>3, <3>4, <1>e
  <2>4. \A f \in Linked : \A id \in Ids :
          IF id <= count'[f] THEN slot'[f][id] = Right(id) ELSE slot'[f][id] = "beyond"
    BY <1>0, <1>g, <2>1, <2>3, LinkedEntries DEF SlotInv
  <2>5. \A f \in Entries : f > used => \A id \in Ids : slot'[f][id] = "beyond"
    <3>1. \A f \in Entries : f > used => f # e
      BY <1>0, <1>d, Bounds DEF Entries, TypeOK
    <3>2. QED
      BY <1>0, <1>g, <3>1 DEF SlotInv
  <2>6. QED
    BY <2>2, <2>4, <2>5 DEF SlotInv
<1>7. WorkInv'
  BY <1>0, <1>b, <1>c DEF WorkInv, InUse, Mine, Linked, OthersStay
<1>8. PhaseInv'
  BY <1>0, <1>b DEF PhaseInv
<1>9. DeadInv'
  <2>1. Linked' = Linked
    BY <1>b DEF Linked
  <2>2. \A f \in (1..used) \ Linked : slot'[f] = slot[f]
    BY <1>0, <1>d, <1>g, LinkedEntries
  <2>3. Instances((1..used) \ Linked)' = Instances((1..used) \ Linked)
    BY <1>b, <2>1, <2>2 DEF Instances
  <2>4. QED
    BY <1>0, <1>b, <2>1, <2>3 DEF DeadInv
<1>10. Own'
  BY <1>b DEF IInv, Own
<1>11. QED
  BY <1>1, <1>2, <1>3, <1>4, <1>5, <1>6, <1>7, <1>8, <1>9, <1>10 DEF IInv

\* What ts_free_id does is safe when no thread is about to read the id.
LEMMA FreeIdInductive ==
    ASSUME IInv, NEW th \in Threads, NEW id \in (1..types) \ done, FreeId(th, id),
           phase' = phase, calls' \in 0..MaxCalls,
           \A t \in Threads : pc[t] \in {"search", "construct", "load", "deref"} => arg[t] # id
    PROVE  IInv'
<1> USE DEF local
<1>0. TypeOK /\ RoomInv /\ MutexInv /\ ChainInv /\ CountInv /\ SlotInv /\ WorkInv /\ PhaseInv
      /\ DeadInv
  BY DEF IInv
<1> DEFINE I == Instances(Linked) \cap (Linked \X {id})
<1>a. /\ mutex = Nobody
      /\ dead' = dead \cup I /\ again' = again \cup (I \cap dead)
      /\ slot' = [e \in Entries |-> IF e \in Linked /\ slot[e][id] # "beyond"
                                    THEN [slot[e] EXCEPT ![id] = "null"] ELSE slot[e]]
      /\ done' = done \cup {id}
      /\ UNCHANGED <<id_count, types, loader, chain, owner, count, block, used, tls, mutex, pc, arg,
                     entry, ptr, todo, got>>
  BY DEF FreeId, Free, Destruct
<1>b. \A t \in Threads : pc[t] \notin {"construct", "enlarge"}
  BY <1>0, <1>a, Bounds DEF MutexInv
<1>c. id \in Ids /\ types \in Nat
  BY <1>0, Bounds DEF TypeOK, Ids
<1>d. Linked' = Linked /\ \A t \in Threads : Mine(t)' = Mine(t)
  BY <1>a DEF Linked, Mine
<1>e. /\ \A f \in Entries \ Linked : slot'[f] = slot[f]
      /\ \A f \in Linked : \A j \in Ids : j # id => slot'[f][j] = slot[f][j]
  BY <1>0, <1>a, LinkedEntries DEF TypeOK
<1>f. \A f, j : ~ Raw(f, j) /\ ~ Raw(f, j)'
  BY <1>a, <1>b DEF Raw
<1>g. \A f \in Linked : count[f] = types /\ slot[f][id] = "made" /\ slot'[f][id] = "null"
  <2>1. \A f \in Linked : count[f] = types
    BY <1>0, <1>b DEF CountInv, Small
  <2>2. \A f \in Linked : slot[f][id] = "made"
    BY <1>0, <1>c, <1>f, <2>1 DEF SlotInv, Right
  <2>3. QED
    BY <1>0, <1>a, <1>c, <2>1, <2>2, LinkedEntries DEF TypeOK
<1>1. TypeOK'
  <2>1. slot' \in [Entries -> [Ids -> Slots]]
    BY <1>0, <1>a DEF TypeOK, Slots
  <2>2. dead' \subseteq Entries \X Ids
    <3>1. I \subseteq Entries \X Ids
      BY <1>0, <1>c, LinkedEntries
    <3>2. QED
      BY <1>0, <1>a, <3>1 DEF TypeOK
  <2>3. again' \subseteq dead'
    BY <1>0, <1>a DEF TypeOK
  <2>4. QED
    BY <1>0, <1>a, <2>1, <2>2, <2>3 DEF TypeOK
<1>2. RoomInv'
  BY <1>0, <1>a DEF RoomInv, Newcomers
<1>3. MutexInv'
  BY <1>0, <1>a DEF MutexInv
<1>4. ChainInv'
  BY <1>0, <1>a, <1>d DEF ChainInv
<1>5. CountInv'
  BY <1>0, <1>a, <1>d DEF CountInv, Small
<1>6. SlotInv'
  <2>1. \A j \in Ids : j # id => Right(j)' = Right(j)
    BY <1>a DEF Right
  <2>2. Right(id)' = "null"
    BY <1>a DEF Right
  <2>3. \A f \in Linked : \A j \in Ids :
          IF j <= count[f] THEN slot'[f][j] = Right(j)' ELSE slot'[f][j] = "beyond"
    <3> SUFFICES ASSUME NEW f \in Linked, NEW j \in Ids
                 PROVE  IF j <= count[f] THEN slot'[f][j] = Right(j)' ELSE slot'[f][j] = "beyond"
      OBVIOUS
    <3>1. CASE j = id
      BY <3>1, <1>g, <2>2
    <3>2. CASE j # id
      BY <3>2, <1>0, <1>e, <1>f, <2>1 DEF SlotInv
    <3>3. QED
      BY <3>1, <3>2
  <2>4. \A f \in Entries : f > used => f \notin Linked
    <3>1. used \in Nat /\ Linked \subseteq 1..used
      BY <1>0, LinkedEntries, Bounds DEF TypeOK
    <3>2. QED
      BY <3>1, Bounds DEF Entries
  <2>5. QED
    BY <1>0, <1>a, <1>d, <1>e, <2>3, <2>4 DEF SlotInv
<1>7. WorkInv'
  <2>1. ASSUME NEW t \in Threads, InUse(t), arg[t] # id
        PROVE  InUse(t)'
    BY <2>1, <1>a DEF InUse
  <2>2. QED
    BY <1>0, <1>a, <1>b, <1>d, <2>1 DEF WorkInv
<1>8. PhaseInv'
  BY <1>0, <1>a DEF PhaseInv
<1>9. DeadInv'
  <2>1. I \cap dead = {}
    BY <1>0 DEF DeadInv
  <2>2. \A x \in I : x[1] \in Linked /\ x[1] <= used /\ x[2] = id
    BY <1>0, LinkedEntries, Bounds DEF TypeOK
  <2>3. Instances((1..used) \ Linked)' = Instances((1..used) \ Linked)
    BY <1>0, <1>a, <1>d, <1>e, LinkedEntries DEF Instances
  <2>4. QED
    BY <1>0, <1>a, <1>d, <2>1, <2>2, <2>3 DEF DeadInv
<1>10. Own'
  BY <1>a DEF IInv, Own
<1>11. QED
  BY <1>1, <1>2, <1>3, <1>4, <1>5, <1>6, <1>7, <1>8, <1>9, <1>10 DEF IInv

\* An id that a thread unloads is its own, so no other thread reads it, and it does
\* not read it itself while it unloads.
LEMMA UnloadInductive ==
    ASSUME IInv, NEW th \in Threads, Unload(th)
    PROVE  IInv'
<1>0. TypeOK /\ WorkInv
  BY DEF IInv
<1>1. PICK id \in Usable(th) : loader[id] = th /\ FreeId(th, id)
  BY DEF Unload
<1>2. pc[th] = "idle" /\ th # Main /\ phase' = phase
  BY DEF Unload, Call
<1>3. calls' \in 0..MaxCalls
  BY <1>0, Bounds DEF TypeOK, Unload, Call
<1>4. id \in (1..types) \ done
  BY DEF Usable
<1>5. \A t \in Threads : pc[t] \in {"search", "construct", "load", "deref"} => arg[t] # id
  BY <1>0, <1>1, <1>2 DEF WorkInv, InUse
<1>6. QED
  BY <1>1, <1>2, <1>3, <1>4, <1>5, FreeIdInductive

LEMMA ModuleShutdownInductive ==
    ASSUME IInv, ModuleShutdown
    PROVE  IInv'
<1>1. PICK id \in (1..types) \ done : FreeId(Main, id)
  BY DEF ModuleShutdown
<1>2. phase' = phase /\ calls' \in 0..MaxCalls
  BY DEF ModuleShutdown, IInv, TypeOK
<1>3. \A t \in Threads : pc[t] = "idle"
  BY DEF ModuleShutdown, IInv, PhaseInv
<1>4. QED
  BY <1>1, <1>2, <1>3, FreeIdInductive, Bounds

\* What both ways to free an entry do: it is unlinked from its bucket, and its
\* instances are destructed.  It is safe when the thread it belongs to is idle and
\* does not find it in its thread-local storage any more.
LEMMA Unlinking ==
    ASSUME IInv, Free, phase # "down", NEW b \in Buckets, NEW S \in SUBSET chain[b],
           Destruct(Instances(S)), Unlink(b, S),
           UNCHANGED <<ids, owner, count, block, slot, used, mutex, pc, arg, local, got>>,
           \A t \in Threads : tls'[t] = tls[t] \/ (tls'[t] = 0 /\ pc[t] = "idle"),
           \A e \in S : pc[owner[e]] = "idle" /\ tls'[owner[e]] = 0
    PROVE  /\ RoomInv' /\ MutexInv' /\ ChainInv' /\ CountInv' /\ SlotInv' /\ WorkInv'
           /\ DeadInv' /\ Own'
           /\ chain' \in [Buckets -> SUBSET (1..used')]
           /\ dead' \subseteq Entries \X Ids /\ again' \subseteq dead'
<1> USE DEF ids, local
<1>0. TypeOK /\ RoomInv /\ MutexInv /\ ChainInv /\ CountInv /\ SlotInv /\ WorkInv /\ PhaseInv
      /\ DeadInv
  BY DEF IInv
<1>a. /\ mutex = Nobody
      /\ dead' = dead \cup Instances(S) /\ again' = again \cup (Instances(S) \cap dead)
      /\ chain' = [chain EXCEPT ![b] = @ \ S]
      /\ UNCHANGED <<id_count, types, done, loader, owner, count, block, slot, used, mutex, pc, arg,
                     entry, ptr, todo, got>>
  BY DEF Free, Destruct, Unlink
<1>b. \A t \in Threads : pc[t] \notin {"construct", "enlarge"}
  BY <1>0, <1>a, Bounds DEF MutexInv
<1>c. /\ chain'[b] = chain[b] \ S
      /\ \A c \in Buckets \ {b} : chain'[c] = chain[c] /\ chain[c] \cap S = {}
  BY <1>0, <1>a, SMTT(60) DEF TypeOK, ChainInv
<1>d. S \subseteq Linked /\ Linked' = Linked \ S
  BY <1>c DEF Linked
<1>e. \A t \in Threads : \A e \in Mine(t) : e \notin S => e \in Mine(t)'
  BY <1>a, <1>c, Bounds DEF Mine
<1>f. \A e, id : ~ Raw(e, id) /\ ~ Raw(e, id)' /\ ~ Small(e) /\ ~ Small(e)'
  BY <1>a, <1>b DEF Raw, Small
<1>1. chain' \in [Buckets -> SUBSET (1..used')]
  BY <1>0, <1>a DEF TypeOK
<1>2. dead' \subseteq Entries \X Ids /\ again' \subseteq dead'
  <2>1. Instances(S) \subseteq Entries \X Ids
    BY <1>0, <1>d, LinkedEntries DEF Instances
  <2>2. QED
    BY <2>1, <1>0, <1>a DEF TypeOK
<1>3. RoomInv'
  <2>1. Newcomers' \subseteq Newcomers
    BY <1>a, <1>b DEF Newcomers
  <2>2. QED
    BY <2>1, <1>0, <1>a, RoomKept DEF TypeOK
<1>4. MutexInv' /\ Own'
  BY <1>0, <1>a DEF MutexInv, IInv, Own
<1>5. ChainInv'
  <2>1. \A c \in Buckets : chain'[c] \subseteq chain[c]
    BY <1>c
  <2>2. \A t \in Threads : tls'[t] # 0 => tls'[t] \in Mine(t) /\ tls'[t] \notin S
    BY <1>0 DEF ChainInv, Mine
  <2>3. QED
    BY <1>0, <1>a, <1>d, <1>e, <2>1, <2>2 DEF ChainInv
<1>6. CountInv'
  BY <1>0, <1>a, <1>d, <1>f DEF CountInv
<1>7. SlotInv'
  BY <1>0, <1>a, <1>d, <1>f DEF SlotInv, Right
<1>8. WorkInv'
  <2>1. \A t \in Threads : InUse(t) => InUse(t)'
    BY <1>a DEF InUse
  <2>2. \A t \in Threads : pc[t] # "idle" /\ entry[t] \in Mine(t) => entry[t] \in Mine(t)'
    BY <1>e DEF Mine
  <2>3. QED
    BY <1>0, <1>a, <1>b, <2>1, <2>2 DEF WorkInv
<1>9. DeadInv'
  <2>1. \A x \in Instances(S) : /\ x[1] \in S /\ x[2] \in Ids
                                /\ slot[x[1]][x[2]] \notin {"null", "beyond"}
    BY DEF Instances
  <2>2. Instances(S) \cap dead = {}
    <3> SUFFICES ASSUME NEW x \in Instances(S), x \in dead
                 PROVE  FALSE
      OBVIOUS
    <3>1. x[1] \in Linked /\ x[2] \in done /\ x[2] \in 1..types
      BY <1>0, <1>d, <2>1 DEF DeadInv, TypeOK
    <3>2. slot[x[1]][x[2]] = "null"
      BY <3>1, <1>0, <1>b, RightSlots DEF Right
    <3>3. QED
      BY <3>2, <2>1
  <2>3. \A x \in dead' : x[1] <= used' /\ (x[1] \in Linked' => x[2] \in done')
    <3>1. \A x \in Instances(S) : x[1] \in 1..used /\ x[1] \notin Linked'
      BY <1>0, <1>d, <2>1, LinkedEntries
    <3>2. used \in Nat
      BY <1>0, Bounds DEF TypeOK
    <3>3. QED
      BY <3>1, <3>2, <1>0, <1>a, <1>d DEF DeadInv
  <2>4. Instances((1..used) \ Linked)' \subseteq Instances((1..used) \ Linked) \cup Instances(S)
    BY <1>a, <1>d DEF Instances
  <2>5. QED
    BY <1>0, <1>a, <2>2, <2>3, <2>4 DEF DeadInv
<1>10. QED
  BY <1>1, <1>2, <1>3, <1>4, <1>5, <1>6, <1>7, <1>8, <1>9

LEMMA FreeThreadInductive ==
    ASSUME IInv, NEW th \in Threads, FreeThread(th)
    PROVE  IInv'
<1> USE DEF Call
<1>0. TypeOK /\ ChainInv /\ PhaseInv
  BY DEF IInv
<1>a. /\ pc[th] = "idle" /\ Free
      /\ Destruct(Instances(Mine(th))) /\ Unlink(Hash[th], Mine(th))
      /\ tls' = [tls EXCEPT ![th] = IF Mine(th) = {} THEN @ ELSE 0]
      /\ UNCHANGED <<ids, owner, count, block, slot, used, mutex, pc, arg, local, got>>
      /\ phase = "running" /\ phase' = phase
  BY DEF FreeThread
<1>b. Hash[th] \in Buckets /\ Mine(th) \in SUBSET chain[Hash[th]]
  BY Bounds DEF Mine
<1>c. tls'[th] = 0 /\ \A t \in Threads \ {th} : tls'[t] = tls[t]
  BY <1>0, <1>a DEF TypeOK, ChainInv
<1>d. \A e \in Mine(th) : pc[owner[e]] = "idle" /\ tls'[owner[e]] = 0
  BY <1>a, <1>c DEF Mine
<1>1. /\ RoomInv' /\ MutexInv' /\ ChainInv' /\ CountInv' /\ SlotInv' /\ WorkInv'
      /\ DeadInv' /\ Own'
      /\ chain' \in [Buckets -> SUBSET (1..used')]
      /\ dead' \subseteq Entries \X Ids /\ again' \subseteq dead'
  BY <1>a, <1>b, <1>c, <1>d, Unlinking
<1>2. TypeOK'
  <2>1. 0 \in 0..used
    BY <1>0, Bounds DEF TypeOK
  <2>2. tls' \in [Threads -> 0..used]
    BY <2>1, <1>0, <1>a DEF TypeOK
  <2>3. calls' \in 0..MaxCalls
    BY <1>0, Bounds DEF TypeOK, FreeThread
  <2>4. QED
    BY <1>0, <1>1, <1>a, <2>2, <2>3 DEF TypeOK, ids, local
<1>3. PhaseInv'
  BY <1>a DEF PhaseInv
<1>4. QED
  BY <1>1, <1>2, <1>3 DEF IInv

LEMMA EndThreadInductive ==
    ASSUME IInv, NEW th \in Threads, EndThread(th)
    PROVE  IInv'
<1> USE DEF ids, table, local, history
<1>0. TypeOK /\ RoomInv /\ MutexInv /\ ChainInv /\ CountInv /\ SlotInv /\ WorkInv /\ PhaseInv
  BY DEF IInv
<1>a. /\ pc[th] = "idle" /\ tls'[th] = 0
      /\ \A t \in Threads \ {th} : tls'[t] = tls[t]
  BY <1>0 DEF EndThread, TypeOK
<1>1. TypeOK'
  <2>1. 0 \in 0..used
    BY <1>0, Bounds DEF TypeOK
  <2>2. tls' \in [Threads -> 0..used]
    BY <2>1, <1>0 DEF TypeOK, EndThread
  <2>3. QED
    BY <2>2, <1>0 DEF TypeOK, EndThread
<1>2. RoomInv'
  <2>1. Newcomers' \subseteq Newcomers
    BY <1>a DEF Newcomers, EndThread
  <2>2. QED
    BY <2>1, <1>0, RoomKept DEF TypeOK, EndThread
<1>3. MutexInv' /\ CountInv' /\ SlotInv'
  BY <1>0 DEF MutexInv, CountInv, SlotInv, Small, Raw, Right, Linked, EndThread
<1>4. ChainInv'
  BY <1>0, <1>a DEF ChainInv, Linked, Mine, EndThread
<1>5. WorkInv'
  BY <1>0, <1>a DEF WorkInv, InUse, Mine, Linked, EndThread
<1>6. PhaseInv'
  BY <1>0, <1>a DEF PhaseInv, EndThread
<1>7. DeadInv' /\ Own'
  BY DEF IInv, DeadInv, Own, Instances, Linked, EndThread
<1>8. QED
  BY <1>1, <1>2, <1>3, <1>4, <1>5, <1>6, <1>7 DEF IInv

LEMMA FreeWorkerThreadsInductive ==
    ASSUME IInv, FreeWorkerThreads
    PROVE  IInv'
<1>0. TypeOK /\ ChainInv
  BY DEF IInv
<1>a. /\ Free /\ \A t \in Threads : pc[t] = "idle" /\ (t # Main => tls[t] = 0)
      /\ phase = "running" /\ phase' = "shutdown"
      /\ Destruct(Instances(Workers)) /\ Unlink(Hash[Main], Workers)
      /\ UNCHANGED <<ids, owner, count, block, slot, used, tls, mutex, pc, arg, local, calls, got>>
  BY DEF FreeWorkerThreads, OthersEnded
<1>b. Hash[Main] \in Buckets /\ Workers \in SUBSET chain[Hash[Main]]
  BY Bounds DEF Workers
<1>c. \A e \in Workers : pc[owner[e]] = "idle" /\ tls'[owner[e]] = 0
  BY <1>0, <1>a, <1>b DEF ChainInv, Workers
<1>1. /\ RoomInv' /\ MutexInv' /\ ChainInv' /\ CountInv' /\ SlotInv' /\ WorkInv'
      /\ DeadInv' /\ Own'
      /\ chain' \in [Buckets -> SUBSET (1..used')]
      /\ dead' \subseteq Entries \X Ids /\ again' \subseteq dead'
  BY <1>a, <1>b, <1>c, Unlinking
<1>2. TypeOK'
  BY <1>0, <1>1, <1>a DEF TypeOK, ids, local
<1>3. PhaseInv'
  BY <1>a DEF PhaseInv
<1>4. QED
  BY <1>1, <1>2, <1>3 DEF IInv

LEMMA ShutdownInductive ==
    ASSUME IInv, Shutdown
    PROVE  IInv'
<1> USE DEF ids, local
<1>0. TypeOK /\ RoomInv /\ MutexInv /\ ChainInv /\ CountInv /\ SlotInv /\ WorkInv /\ PhaseInv
      /\ DeadInv
  BY DEF IInv
<1> DEFINE I == {x \in Instances(Linked) : types = id_count /\ x[2] \notin done}
<1>a. /\ phase = "shutdown" /\ phase' = "down"
      /\ Destruct(I)
      /\ chain' = [b \in Buckets |-> {}]
      /\ tls' = [tls EXCEPT ![Main] = 0]
      /\ UNCHANGED <<id_count, types, done, loader, owner, count, block, slot, used, mutex, pc, arg,
                     entry, ptr, todo, calls, got>>
  BY DEF Shutdown
<1>b. /\ \A t \in Threads : pc[t] = "idle" /\ tls'[t] = 0
      /\ Linked' = {}
  BY <1>0, <1>a, Bounds DEF PhaseInv, TypeOK, Linked
<1>c. \A x \in Instances(Linked) : x[1] \in Linked /\ x \in Entries \X Ids
  BY <1>0, LinkedEntries DEF Instances
\* An instance that tsrm_shutdown leaves out is none: its slot was set to NULL.
<1>d. types = id_count => I = Instances(Linked)
  <2> SUFFICES ASSUME NEW x \in Instances(Linked), x[2] \in done
               PROVE  FALSE
    OBVIOUS
  <2>1. x[1] \in Linked /\ x[2] \in 1..types
    BY <1>0, <1>c DEF TypeOK
  <2>2. slot[x[1]][x[2]] = "null"
    BY <2>1, <1>0, <1>b, RightSlots DEF Right
  <2>3. QED
    BY <2>2 DEF Instances
<1>1. TypeOK'
  <2>1. 0 \in 0..used
    BY <1>0, Bounds DEF TypeOK
  <2>2. tls' \in [Threads -> 0..used]
    BY <2>1, <1>0, <1>a DEF TypeOK
  <2>3. dead' \subseteq Entries \X Ids /\ again' \subseteq dead'
    BY <1>0, <1>a, <1>c DEF TypeOK, Destruct
  <2>4. QED
    BY <1>0, <1>a, <2>2, <2>3 DEF TypeOK
<1>2. RoomInv'
  <2>1. Newcomers' \subseteq Newcomers
    BY <1>a, <1>b DEF Newcomers
  <2>2. QED
    BY <2>1, <1>0, <1>a, RoomKept DEF TypeOK
<1>3. MutexInv'
  BY <1>0, <1>a DEF MutexInv
<1>4. ChainInv'
  BY <1>a, <1>b DEF ChainInv
<1>5. CountInv' /\ SlotInv'
  BY <1>0, <1>a, <1>b DEF CountInv, SlotInv
<1>6. WorkInv'
  BY <1>a, <1>b DEF WorkInv
<1>7. PhaseInv'
  BY <1>a, <1>b DEF PhaseInv
<1>8. DeadInv'
  <2>1. dead' = dead \cup I /\ again' = {}
    BY <1>0, <1>a, <1>c DEF DeadInv, Destruct
  <2>2. used \in Nat /\ \A x \in I : x[1] \in 1..used
    BY <1>0, <1>c, LinkedEntries, Bounds DEF TypeOK
  <2>3. Instances((1..used) \ Linked)' \subseteq
             Instances((1..used) \ Linked) \cup Instances(Linked)
    BY <1>a, <1>b DEF Instances
  <2>4. QED
    <3>1. types = id_count => Instances((1..used) \ Linked)' \subseteq dead'
      BY <1>0, <1>d, <2>1, <2>3 DEF DeadInv
    <3>2. \A x \in dead' : x[1] <= used
      BY <1>0, <2>1, <2>2 DEF DeadInv
    <3>3. QED
      BY <1>a, <1>b, <2>1, <3>1, <3>2 DEF DeadInv
<1>9. Own'
  BY <1>a DEF IInv, Own
<1>10. QED
  BY <1>1, <1>2, <1>3, <1>4, <1>5, <1>6, <1>7, <1>8, <1>9 DEF IInv

\* A process that is lost leaves everything as it was.
LEMMA LostInductive ==
    ASSUME IInv, Lost, phase # "down"
    PROVE  IInv'
<1>a. /\ phase' = "lost"
      /\ UNCHANGED <<id_count, types, done, loader, chain, owner, count, block, slot, used, tls,
                     mutex, pc, arg, entry, ptr, todo, calls, dead, again, got>>
  BY DEF Lost, ids, table, local, history
<1>b. PhaseInv'
  BY <1>a DEF PhaseInv
<1>c. TypeOK' /\ RoomInv' /\ MutexInv' /\ ChainInv'
  BY <1>a DEF IInv, TypeOK, RoomInv, Newcomers, MutexInv, ChainInv, Linked, Mine
<1>d. CountInv' /\ SlotInv'
  BY <1>a DEF IInv, CountInv, Small, SlotInv, Raw, Right, Linked
<1>e. WorkInv' /\ Own'
  BY <1>a DEF IInv, WorkInv, InUse, Linked, Mine, Own
<1>f. DeadInv'
  BY <1>a DEF IInv, DeadInv, Instances, Linked
<1>g. QED
  BY <1>b, <1>c, <1>d, <1>e, <1>f DEF IInv

\* The places where that happens, none of them after tsrm_shutdown.
LEMMA LosingInductive ==
    ASSUME IInv, (\E th \in Threads : AllocateNewLost(th) \/ CallLost(th)) \/ ShutdownLost
    PROVE  IInv'
<1>1. Lost
  BY DEF AllocateNewLost, CallLost, ShutdownLost
<1>2. phase # "down"
  BY DEF IInv, PhaseInv, AllocateNewLost, CallLost, ShutdownLost
<1>3. QED
  BY <1>1, <1>2, LostInductive

LEMMA Initially ==
    ASSUME Init
    PROVE  IInv
<1> USE DEF Init
<1>1. Linked = {}
  BY DEF Linked
<1>2. TypeOK
  <2>1. /\ types \in 0..MaxIds /\ 0 \in 0..types /\ 0 \in 0..used /\ 0 \in 0..MaxIds
        /\ used \in 0..MaxEntries /\ calls \in 0..MaxCalls
    BY Bounds
  <2>2. QED
    BY <2>1, Bounds DEF TypeOK, Slots, Labels
<1>3. RoomInv
  <2>1. Newcomers = {}
    BY DEF Newcomers
  <2>2. QED
    BY <2>1, FS_EmptySet, Bounds DEF RoomInv
<1>4. MutexInv /\ ChainInv /\ WorkInv /\ PhaseInv
  BY <1>1, Bounds DEF MutexInv, ChainInv, WorkInv, PhaseInv
<1>5. CountInv /\ SlotInv
  BY <1>1, Bounds DEF CountInv, SlotInv
<1>6. DeadInv /\ Own
  BY Bounds DEF DeadInv, Own, Instances
<1>7. QED
  BY <1>2, <1>3, <1>4, <1>5, <1>6 DEF IInv

LEMMA Inductive ==
    ASSUME IInv, [Next]_vars
    PROVE  IInv'
<1>1. ASSUME NEW th \in Threads, Thread(th)
      PROVE  IInv'
  BY <1>1, FetchInductive, FoundInductive, AllocateNewInductive, ConstructInductive,
     ConstructedInductive, LoadInductive, DerefInductive, AllocateIdInductive,
     AllocateIdFailsInductive, EnlargeInductive, EnlargedInductive, UnloadInductive,
     FreeThreadInductive, LosingInductive DEF Thread
<1>2. CASE UNCHANGED vars
  <2> USE <1>2 DEF vars
  <2>1. TypeOK'
    BY DEF IInv, TypeOK
  <2>2. RoomInv' /\ MutexInv' /\ ChainInv'
    BY DEF IInv, RoomInv, Newcomers, MutexInv, ChainInv, Linked, Mine
  <2>3. CountInv' /\ SlotInv'
    BY DEF IInv, CountInv, Small, SlotInv, Raw, Right, Linked
  <2>4. WorkInv' /\ PhaseInv'
    BY DEF IInv, WorkInv, InUse, PhaseInv, Linked, Mine
  <2>5. DeadInv' /\ Own'
    BY DEF IInv, DeadInv, Own, Instances, Linked
  <2>6. QED
    BY <2>1, <2>2, <2>3, <2>4, <2>5 DEF IInv
<1>3. QED
  BY <1>1, <1>2, EndThreadInductive, FreeWorkerThreadsInductive, ModuleShutdownInductive,
     ShutdownInductive, LosingInductive DEF Next, Terminated

\* The invariant holds in every state: a thread reads no slot that another one is
\* still constructing, enlarging or taking away.
THEOREM Invariance == Spec => []IInv
<1>1. Init => IInv
  BY Initially
<1>2. IInv /\ [Next]_vars => IInv'
  BY Inductive
<1>3. QED
  BY <1>1, <1>2, PTL DEF Spec
-----------------------------------------------------------------------------
\* The types of the variables.
THEOREM TypeCorrect == Spec => []TypeOK
<1>1. IInv => TypeOK
  BY DEF IInv
<1>2. QED
  BY <1>1, Invariance, PTL

\* What ts_resource_ex returns is an instance of the thread's own, constructed and
\* not destructed, unless ts_allocate_id moved the array between the two loads: for
\* any number of threads and ids, whatever the threads load, unload, and free.
THEOREM OwnInstances == Spec => []Own
<1>1. IInv => Own
  BY DEF IInv
<1>2. QED
  BY <1>1, Invariance, PTL

\* When no thread holds the mutex, each entry is in its thread's bucket, alone of its
\* thread, with a right slot for every id that got a type and none for an id whose
\* allocation failed, and thread-local storage leads to it.
THEOREM TableSoundness == Spec => []TableSound
<1>1. ASSUME IInv PROVE TableSound
  <2>1. ChainInv /\ CountInv /\ SlotInv /\ MutexInv /\ TypeOK
    BY <1>1 DEF IInv
  <2>2. ASSUME Free, NEW e \in Linked
        PROVE  /\ count[e] = types
               /\ \A id \in Ids : slot[e][id] = IF id > types THEN "beyond"
                                               ELSE IF id \in done THEN "null" ELSE "made"
    <3>1. \A th \in Threads : pc[th] \notin {"construct", "enlarge"}
      BY <2>1, <2>2, Bounds DEF MutexInv, Free
    <3>2. count[e] = types /\ \A id : ~ Raw(e, id)
      BY <2>1, <2>2, <3>1 DEF CountInv, Small, Raw
    <3>3. types \in Nat /\ \A id \in Ids : id \in Nat
      BY <2>1, Bounds DEF TypeOK, Ids
    <3>4. QED
      BY <2>1, <2>2, <3>2, <3>3 DEF SlotInv, Right
  <2>3. QED
    BY <2>1, <2>2 DEF TableSound, ChainInv
<1>2. QED
  BY <1>1, Invariance, PTL

\* By whichever of ts_free_id, ts_free_thread, ts_free_worker_threads and
\* tsrm_shutdown an instance goes, its destructor runs once, and all are gone at the end
\* unless an allocation had failed.
THEOREM DestructedAtMostOnce == Spec => []DestructedOnce
<1>1. ASSUME IInv PROVE DestructedOnce
  <2>1. TypeOK /\ SlotInv /\ PhaseInv /\ DeadInv
    BY <1>1 DEF IInv
  <2>2. ASSUME phase = "down", types = id_count, NEW x \in Instances(Entries)
        PROVE  x \in dead
    <3>1. x[1] \in Entries /\ x[2] \in Ids /\ slot[x[1]][x[2]] \notin {"null", "beyond"}
      BY <2>2 DEF Instances
    <3>2. ~ (x[1] > used)
      BY <3>1, <2>1 DEF SlotInv
    <3>3. x[1] \in (1..used) \ Linked
      <4>1. Linked = {}
        <5>1. \A b \in Buckets : chain[b] = {}
          BY <2>1, <2>2 DEF PhaseInv
        <5>2. QED
          BY <5>1 DEF Linked
      <4>2. used \in Nat
        BY <2>1, Bounds DEF TypeOK
      <4>3. x[1] \in Nat \ {0}
        BY <3>1, Bounds DEF Entries
      <4>4. QED
        BY <3>2, <4>1, <4>2, <4>3
    <3>4. x \in Instances((1..used) \ Linked)
      BY <3>1, <3>3, <2>2 DEF Instances
    <3>5. QED
      BY <3>4, <2>1, <2>2 DEF DeadInv
  <2>3. QED
    BY <2>1, <2>2 DEF DestructedOnce, DeadInv
<1>2. QED
  BY <1>1, Invariance, PTL
=============================================================================
