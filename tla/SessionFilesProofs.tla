-------------------------- MODULE SessionFilesProofs --------------------------
(***************************************************************************)
(* Proof that sessions kept in files are serialised, for any number of      *)
(* requests, session ids and calls: whoever has read a session is the only  *)
(* one to change its file until he has saved it, a file holds one write or  *)
(* its beginning and not the rest of a longer one, save in three cases that  *)
(* are named (Whole), and only what was put into that session.              *)
(*                                                                         *)
(* The argument is the lock: a file changes only by the hand of the request *)
(* that has it locked, or when nobody has it open (Touches).  What each     *)
(* request knows of its own file (RequestInv) is then nobody else's to      *)
(* disturb, and the three properties follow from what it knows: that the    *)
(* file is as it was read, how long that was, and who had put what into it. *)
(***************************************************************************)
EXTENDS SessionFiles, FiniteSetTheorems, SequenceTheorems, WellFoundedInduction, TLAPS

Types ==
    /\ dir \in [Ids -> Inodes \cup {0}]
    /\ inode \in [Inodes -> Inode]
    /\ issued \in Ids
    /\ req \in [Procs -> Request]

\* A file has one name at most.
DirInv == \A i, j \in Ids : dir[i] = dir[j] /\ dir[i] # 0 => i = j

\* flock: a file is locked by the request that has it open and does not wait for it.
LockInv == \A n \in Inodes, p \in Procs : inode[n].lock = p <=> Holding(p) /\ req[p].fd = n

\* The ids that session_regenerate_id will still make are left.
Renaming == {p \in Procs : req[p].at \in {"unlink", "access"} /\ req[p].for = "regenerate"}
IdsInv == issued + Cardinality(Renaming) <= MaxIds

\* Where a request has a file open and an id, and what it has read by then.
Placed(r) ==
    /\ r.at \in {"absent", "idle", "open", "unlink", "access", "ended"} => r.fd = 0
    /\ r.at \in {"lock", "read", "truncate", "pwrite"} => r.fd # 0
    /\ r.at \notin {"absent", "idle", "ended"} => r.id # 0
    /\ r.at = "unlinkOld" => r.target # 0
    /\ r.at \in {"unlink", "access"} => r.for \in {"destroy", "regenerate"}
    /\ r.at \in {"lock", "read"} => r.src = 0
    /\ r.at \in {"open", "lock"} /\ r.for = "read" => r.vars = <<>>
    /\ r.at = "read" => r.vars = <<>>
    /\ r.src \in {0, r.fd}

\* What a request that has read its file f knows of it: that it is as it was read, until
\* the request truncates it, unless ftruncate fails, to write no less than there is,
\* and that what it is going to write belongs to this session.
Reader(r) == r.src # 0 /\ r.at \in {"gc", "unlinkOld", "script", "truncate"}
Writer(r) == r.src # 0 /\ r.at = "pwrite"
Informed(r, f) ==
    /\ Reader(r) => f.data = r.saw /\ r.size = Len(r.saw)
    /\ Writer(r) /\ ~ r.kept => Len(f.data) <= Len(r.vars)
    /\ Reader(r) \/ Writer(r) => f.blind \/ Elems(r.vars) \subseteq f.owners
RequestInv(p) == Placed(req[p]) /\ Informed(req[p], inode[req[p].fd])

\* What is said of a file: Whole and OwnData.
FileOK(f) == /\ ~ f.torn => f.data \in Prefixes(f.whole)
             /\ ~ f.blind => Elems(f.data) \subseteq f.owners
FileInv(n) == FileOK(inode[n])

IInv == /\ Types /\ DirInv /\ LockInv /\ IdsInv
        /\ \A p \in Procs : RequestInv(p)
        /\ \A n \in Inodes : FileInv(n)
-----------------------------------------------------------------------------
LEMMA Sizes ==
    /\ MaxIds \in Nat \ {0}
    /\ IsFiniteSet(Procs) /\ Cardinality(Procs) \in Nat
    /\ IsFiniteSet(Ids) /\ Cardinality(Ids) = MaxIds
    /\ IsFiniteSet(Inodes) /\ Cardinality(Inodes) = MaxIds + Cardinality(Procs)
    /\ 0 \notin Inodes /\ 0 \notin Ids /\ Ids \subseteq Nat /\ Inodes \subseteq Nat
    /\ 1 \in Ids /\ 1 \in Inodes
    /\ NoProc \notin Procs
<1>1. MaxIds \in Nat \ {0} /\ Cardinality(Procs) \in Nat /\ NoProc \notin Procs
  BY ConstantsAssumption, FS_CardinalityType
<1>2. \A m \in Nat \ {0} : IsFiniteSet(1..m) /\ Cardinality(1..m) = m
  <2>1. ASSUME NEW m \in Nat \ {0}
        PROVE  IsFiniteSet(1..m) /\ Cardinality(1..m) = m - 1 + 1
    <3>1. 1 \in Int /\ m \in Int /\ ~ (1 > m)
      OBVIOUS
    <3>2. QED
      BY <3>1, FS_Interval, Zenon
  <2>2. QED
    BY <2>1
<1>3. MaxIds + Cardinality(Procs) \in Nat \ {0}
  BY <1>1
<1>4. QED
  BY <1>1, <1>2, <1>3, ConstantsAssumption DEF Ids, Inodes

\* A set of natural numbers has a least element.
LEMMA Least ==
    ASSUME NEW S \in SUBSET Nat, S # {}
    PROVE  \E x \in S : \A y \in S : x <= y
<1>1. PICK x \in S : \A y \in S : ~ (<<y, x>> \in OpToRel(<, Nat))
  BY NatLessThanWellFounded, WFMin, Zenon
<1>2. \A y \in S : ~ (y < x)
  BY <1>1 DEF OpToRel
<1>3. QED
  BY <1>2

\* A request that has no file open can create one: there are more inodes than names
\* and other requests.
LEMMA FreeInode ==
    ASSUME Types, NEW p \in Procs, req[p].fd = 0, NEW i \in Ids, dir[i] = 0
    PROVE  (CHOOSE f \in Free : \A g \in Free : f <= g) \in Free
<1> DEFINE D == Ids \ {i}
           Q == Procs \ {p}
           A == {dir[j] : j \in D}
           B == {req[q].fd : q \in Q}
<1>1. IsFiniteSet(D) /\ Cardinality(D) = MaxIds - 1
  BY Sizes, FS_RemoveElement
<1>2. IsFiniteSet(Q) /\ Cardinality(Q) = Cardinality(Procs) - 1
  BY Sizes, FS_RemoveElement
<1>3. IsFiniteSet(A) /\ Cardinality(A) <= MaxIds - 1 /\ Cardinality(A) \in Nat
  <2>1. IsFiniteSet(A) /\ Cardinality(A) <= Cardinality(D)
    <3>1. [j \in D |-> dir[j]] \in Surjection(D, A)
      BY DEF Surjection
    <3> HIDE DEF D, A
    <3>2. QED
      BY <1>1, <3>1, FS_Surjection
  <2>2. QED
    BY <1>1, <2>1, FS_CardinalityType
<1>4. IsFiniteSet(B) /\ Cardinality(B) <= Cardinality(Procs) - 1 /\ Cardinality(B) \in Nat
  <2>1. IsFiniteSet(B) /\ Cardinality(B) <= Cardinality(Q)
    <3>1. [q \in Q |-> req[q].fd] \in Surjection(Q, B)
      BY DEF Surjection
    <3> HIDE DEF Q, B
    <3>2. QED
      BY <1>2, <3>1, FS_Surjection
  <2>2. QED
    BY <1>2, <2>1, FS_CardinalityType
<1>5. Free # {}
  <2> SUFFICES ASSUME Free = {}
               PROVE  FALSE
    OBVIOUS
  <2>1. Inodes \subseteq A \cup B
    <3> SUFFICES ASSUME NEW n \in Inodes
                 PROVE  n \in A \cup B
      OBVIOUS
    <3>1. Linked(n) \/ OpenBy(n) # {}
      BY DEF Free
    <3>2. n # 0
      BY Sizes
    <3>3. QED
      BY <3>1, <3>2 DEF Linked, OpenBy
  <2> HIDE DEF A, B
  <2>2. /\ IsFiniteSet(A \cup B)
        /\ Cardinality(A \cup B) = Cardinality(A) + Cardinality(B) - Cardinality(A \cap B)
    BY <1>3, <1>4, FS_Union
  <2>3. IsFiniteSet(A \cap B) /\ Cardinality(A \cap B) \in Nat
    BY <1>3, FS_Intersection, FS_CardinalityType
  <2>4. Cardinality(Inodes) <= Cardinality(A \cup B)
    BY <2>1, <2>2, FS_Subset
  <2>5. QED
    BY <1>3, <1>4, <2>2, <2>3, <2>4, Sizes
<1>6. Free \in SUBSET Nat
  BY Sizes DEF Free
<1>7. QED
  BY <1>5, <1>6, Least
-----------------------------------------------------------------------------
\* Steps of request p touch no file that another request has locked.
Touches(p) == \A n \in Inodes :
    \/ inode'[n] = inode[n]
    \/ inode[n].lock \in {p, NoProc} /\ inode'[n].lock \in {p, NoProc}

\* Request p goes on as r.
Goes(p, r) == req' = [req EXCEPT ![p] = r]

\* While request p goes on, the others know of their files what they knew.
LEMMA Undisturbed ==
    ASSUME IInv, NEW p \in Procs, NEW r \in Request, Goes(p, r), Touches(p),
           NEW q \in Procs, q # p
    PROVE  RequestInv(q)' /\ \A n \in Inodes : inode'[n].lock = q <=> (Holding(q) /\ req[q].fd = n)'
<1>0. Types /\ LockInv /\ RequestInv(q)
  BY DEF IInv
<1>1. req'[q] = req[q]
  BY <1>0 DEF Goes, Types
<1>2. q # NoProc
  BY Sizes
<1>3. \A n \in Inodes : inode'[n].lock = q <=> inode[n].lock = q
  BY <1>2 DEF Touches
<1>4. ASSUME Holding(q)
      PROVE  inode'[req[q].fd] = inode[req[q].fd]
  <2>1. req[q].fd \in Inodes
    BY <1>0, <1>4 DEF Types, Request, Holding
  <2>2. inode[req[q].fd].lock = q
    BY <1>0, <1>4, <2>1 DEF LockInv
  <2>3. QED
    BY <2>1, <2>2, <1>2 DEF Touches
<1>5. Reader(req[q]) \/ Writer(req[q]) => Holding(q)
  BY <1>0 DEF RequestInv, Placed, Reader, Writer, Holding, At
<1>6. RequestInv(q)'
  <2>1. Placed(req[q])'
    BY <1>0, <1>1 DEF RequestInv
  <2>2. Informed(req[q], inode[req[q].fd])
    BY <1>0 DEF RequestInv
  <2>3. CASE Holding(q)
    BY <2>1, <2>2, <2>3, <1>1, <1>4 DEF RequestInv
  <2>4. CASE ~ Holding(q)
    BY <2>1, <2>4, <1>1, <1>5 DEF RequestInv, Informed
  <2>5. QED
    BY <2>3, <2>4
<1>7. \A n \in Inodes : inode'[n].lock = q <=> (Holding(q) /\ req[q].fd = n)'
  BY <1>0, <1>1, <1>3 DEF LockInv, Holding, At
<1>8. QED
  BY <1>6, <1>7

\* So it is enough to look at the request that goes on, at its file, and at the ids.
LEMMA Goal ==
    ASSUME IInv, NEW p \in Procs, NEW r \in Request, Goes(p, r), Touches(p),
           dir' \in [Ids -> Inodes \cup {0}], inode' \in [Inodes -> Inode], DirInv',
           issued' \in Ids, IdsInv',
           \A n \in Inodes : inode'[n].lock = p <=> r.at # "lock" /\ r.fd = n,
           Placed(r), Informed(r, inode'[r.fd]), \A n \in Inodes : FileInv(n)'
    PROVE  IInv'
<1>0. Types
  BY DEF IInv
<1>1. req' \in [Procs -> Request] /\ req'[p] = r
  BY <1>0 DEF Types, Goes
<1>2. Types'
  BY <1>0, <1>1 DEF Types
<1>3. \A q \in Procs : RequestInv(q)'
  <2>1. RequestInv(p)'
    BY <1>1 DEF RequestInv
  <2>2. QED
    BY <2>1, Undisturbed
<1>4. \A n \in Inodes : inode'[n].lock = p <=> (Holding(p) /\ req[p].fd = n)'
  BY <1>1, Sizes DEF Holding, At
<1>5. LockInv'
  BY <1>4, Undisturbed DEF LockInv
<1>6. QED
  BY <1>2, <1>3, <1>5 DEF IInv

\* The ids that are left when request p goes on as r.
Renames(r) == r.at \in {"unlink", "access"} /\ r.for = "regenerate"

LEMMA IdsLeft ==
    ASSUME IInv, NEW p \in Procs, NEW r \in Request, Goes(p, r),
           \/ issued' = issued /\ ~ Renames(r)
           \/ issued' = issued /\ (MoreIds \/ p \in Renaming)
           \/ issued' = issued + 1 /\ ~ Renames(r) /\ (MoreIds \/ p \in Renaming)
    PROVE  IdsInv' /\ issued' \in Ids
<1>0. Types /\ IdsInv
  BY DEF IInv
<1>1. req'[p] = r /\ \A q \in Procs : q # p => req'[q] = req[q]
  BY <1>0 DEF Goes, Types
<1>2. /\ Renames(r) => Renaming' = Renaming \cup {p}
      /\ ~ Renames(r) => Renaming' = Renaming \ {p}
  <2>1. \A q \in Procs : q \in Renaming <=> Renames(req[q])
    BY DEF Renaming, Renames
  <2>2. \A q \in Procs : q \in Renaming' <=> Renames(req'[q])
    BY DEF Renaming, Renames
  <2>3. Renaming \subseteq Procs /\ Renaming' \subseteq Procs
    BY DEF Renaming
  <2>4. \A q \in Procs \ {p} : q \in Renaming' <=> q \in Renaming
    BY <2>1, <2>2, <1>1
  <2>5. p \in Renaming' <=> Renames(r)
    BY <2>2, <1>1
  <2>6. QED
    BY <2>3, <2>4, <2>5
<1>3. PICK S : S = Renaming
  OBVIOUS
<1>4. IsFiniteSet(S) /\ Cardinality(S) \in Nat
  <2>1. S \in SUBSET Procs
    BY <1>3 DEF Renaming
  <2>2. QED
    BY <2>1, Sizes, FS_Subset, FS_CardinalityType
<1>5. /\ IsFiniteSet(S \cup {p}) /\ Cardinality(S \cup {p}) \in Nat
      /\ Cardinality(S \cup {p}) = IF p \in S THEN Cardinality(S) ELSE Cardinality(S) + 1
  BY <1>4, FS_AddElement, FS_CardinalityType
<1>6. /\ IsFiniteSet(S \ {p}) /\ Cardinality(S \ {p}) \in Nat
      /\ Cardinality(S \ {p}) = IF p \in S THEN Cardinality(S) - 1 ELSE Cardinality(S)
  BY <1>4, FS_RemoveElement, FS_CardinalityType
<1>7. /\ issued \in Nat /\ 1 <= issued /\ issued <= MaxIds
      /\ issued + Cardinality(S) <= MaxIds
      /\ MoreIds => issued + Cardinality(S) < MaxIds
  BY <1>0, <1>3, Sizes DEF Types, IdsInv, MoreIds, Renaming, Ids
<1>8. issued' + Cardinality(Renaming') <= MaxIds /\ issued' \in Nat /\ 1 <= issued'
      /\ Cardinality(Renaming') \in Nat
  <2>1. CASE Renames(r)
    <3>1. Renaming' = S \cup {p} /\ issued' = issued /\ (MoreIds \/ p \in S)
      BY <2>1, <1>2, <1>3
    <3>2. QED
      BY <3>1, <1>4, <1>5, <1>7, Sizes
  <2>2. CASE ~ Renames(r)
    <3>1. Renaming' = S \ {p}
      BY <2>2, <1>2, <1>3
    <3>2. issued' = issued \/ (issued' = issued + 1 /\ (MoreIds \/ p \in S))
      BY <1>3
    <3>3. QED
      BY <3>1, <3>2, <1>4, <1>6, <1>7, Sizes
  <2>3. QED
    BY <2>1, <2>2
<1>9. QED
  BY <1>8, Sizes DEF IdsInv, Ids

\* Steps that change no file, create none and remove none.
LEMMA Quiet ==
    ASSUME IInv, NEW p \in Procs, NEW r \in Request, Goes(p, r),
           UNCHANGED <<dir, inode>>, IdsInv', issued' \in Ids,
           r.fd = req[p].fd, r.at # "lock" /\ req[p].at # "lock",
           Placed(r), Informed(r, inode[r.fd])
    PROVE  IInv'
<1>0. /\ Types /\ DirInv /\ LockInv
      /\ \A n \in Inodes : FileInv(n)
  BY DEF IInv
<1>1. Touches(p)
  BY DEF Touches
<1>2. \A n \in Inodes : inode'[n].lock = p <=> r.at # "lock" /\ r.fd = n
  BY <1>0, Sizes DEF LockInv, Holding, At
<1>3. DirInv' /\ \A n \in Inodes : FileInv(n)'
  BY <1>0 DEF DirInv, FileInv
<1>4. QED
  BY <1>0, <1>1, <1>2, <1>3, Goal DEF Types

\* All of a sequence is a beginning of it, and what holds of all its entries holds of
\* those of a beginning.
LEMMA PrefixShape ==
    ASSUME NEW s \in Seq(Entries)
    PROVE  /\ s \in Prefixes(s)
           /\ \A t \in Prefixes(s) : t \in Seq(Entries) /\ Elems(t) \subseteq Elems(s)
<1>1. SubSeq(s, 1, Len(s)) = s /\ Len(s) \in 0..Len(s)
  OBVIOUS
<1>2. s \in Prefixes(s)
  BY <1>1 DEF Prefixes
<1>3. ASSUME NEW t \in Prefixes(s)
      PROVE  t \in Seq(Entries) /\ Elems(t) \subseteq Elems(s)
  <2>1. PICK k \in 0..Len(s) : t = SubSeq(s, 1, k)
    BY DEF Prefixes
  <2>2. t \in Seq(Entries) /\ Len(t) = k /\ \A j \in 1..k : t[j] = s[j]
    BY <2>1
  <2>3. QED
    BY <2>2 DEF Elems
<1>4. QED
  BY <1>2, <1>3

LEMMA FreshInode ==
    /\ NoInode \in Inode /\ NoInode.lock = NoProc /\ Elems(NoInode.data) = {}
    /\ FileOK(NoInode)
<1>1. <<>> \in Seq(Entries)
  OBVIOUS
<1>2. <<>> \in Prefixes(<<>>)
  BY <1>1, PrefixShape
<1>3. QED
  BY <1>1, <1>2 DEF NoInode, Inode, Elems, FileOK

\* The files after request p has closed its own.
LEMMA ClosedShape ==
    ASSUME IInv, NEW p \in Procs, inode' = Closed(p)
    PROVE  /\ inode' \in [Inodes -> Inode]
           /\ Touches(p)
           /\ \A n \in Inodes : inode'[n].lock # p
           /\ \A n \in Inodes : FileInv(n)'
<1>0. /\ Types /\ LockInv
      /\ \A n \in Inodes : FileInv(n)
  BY DEF IInv
<1>1. \A n \in Inodes : inode[n] \in Inode
  BY <1>0 DEF Types
<1>2. ASSUME NEW n \in Inodes
      PROVE  \/ inode'[n] = inode[n] /\ req[p].fd # n
             \/ inode'[n] = NoInode /\ OpenBy(n) = {p}
             \/ inode'[n] = [inode[n] EXCEPT !.lock = IF @ = p THEN NoProc ELSE @]
                /\ req[p].fd = n
  BY DEF Closed
<1>3. inode' \in [Inodes -> Inode]
  <2>1. ASSUME NEW n \in Inodes
        PROVE  inode'[n] \in Inode
    <3>1. [inode[n] EXCEPT !.lock = IF @ = p THEN NoProc ELSE @] \in Inode
      BY <1>1 DEF Inode
    <3>2. QED
      BY <1>1, <1>2, <3>1, FreshInode
  <2>2. inode' = [n \in Inodes |-> inode'[n]]
    BY DEF Closed
  <2>3. QED
    BY <2>1, <2>2
<1>4. ASSUME NEW n \in Inodes, OpenBy(n) = {p}
      PROVE  inode[n].lock \in {p, NoProc}
  <2>1. inode[n].lock \in Procs \cup {NoProc}
    BY <1>1 DEF Inode
  <2>2. \A q \in Procs : inode[n].lock = q => q \in OpenBy(n)
    BY <1>0 DEF LockInv, OpenBy
  <2>3. QED
    BY <1>4, <2>1, <2>2
<1>5. ASSUME NEW n \in Inodes
      PROVE  /\ \/ inode'[n] = inode[n]
                \/ inode[n].lock \in {p, NoProc} /\ inode'[n].lock \in {p, NoProc}
             /\ inode'[n].lock # p
             /\ FileInv(n)'
  <2>1. CASE inode'[n] = inode[n] /\ req[p].fd # n
    BY <2>1, <1>0 DEF LockInv, FileInv
  <2>2. CASE inode'[n] = NoInode /\ OpenBy(n) = {p}
    BY <2>2, <1>4, Sizes, FreshInode DEF FileInv
  <2>3. CASE inode'[n] = [inode[n] EXCEPT !.lock = IF @ = p THEN NoProc ELSE @]
    <3>1. /\ inode'[n].lock = IF inode[n].lock = p THEN NoProc ELSE inode[n].lock
          /\ inode'[n].data = inode[n].data /\ inode'[n].whole = inode[n].whole
          /\ inode'[n].torn = inode[n].torn /\ inode'[n].blind = inode[n].blind
          /\ inode'[n].owners = inode[n].owners
      BY <2>3, <1>1 DEF Inode
    <3>2. FileInv(n)'
      BY <1>0, <3>1 DEF FileInv, FileOK
    <3>3. CASE inode[n].lock = p
      BY <3>1, <3>2, <3>3, Sizes
    <3>4. CASE inode[n].lock # p
      <4>1. inode'[n] = inode[n]
        BY <2>3, <3>4, <1>1 DEF Inode
      <4>2. QED
        BY <3>2, <3>4, <4>1
    <3>5. QED
      BY <3>3, <3>4
  <2>4. QED
    BY <2>1, <2>2, <2>3, <1>2
<1>6. QED
  BY <1>3, <1>5 DEF Touches

\* The files after a name was removed.
LEMMA UnlinkedShape ==
    ASSUME IInv, NEW p \in Procs, NEW i \in Ids, inode' = Unlinked(i)
    PROVE  /\ inode' \in [Inodes -> Inode]
           /\ Touches(p)
           /\ \A n \in Inodes : inode'[n].lock = p <=> inode[n].lock = p
           /\ \A n \in Inodes : FileInv(n)'
<1>0. /\ Types /\ LockInv
      /\ \A n \in Inodes : FileInv(n)
  BY DEF IInv
<1>1. \A n \in Inodes : inode[n] \in Inode
  BY <1>0 DEF Types
<1>2. ASSUME NEW n \in Inodes
      PROVE  \/ inode'[n] = inode[n]
             \/ inode'[n] = NoInode /\ OpenBy(n) = {}
  BY DEF Unlinked
<1>3. inode' \in [Inodes -> Inode]
  BY <1>1, <1>2, FreshInode DEF Unlinked
<1>4. ASSUME NEW n \in Inodes, OpenBy(n) = {}
      PROVE  inode[n].lock = NoProc
  <2>1. inode[n].lock \in Procs \cup {NoProc}
    BY <1>1 DEF Inode
  <2>2. \A q \in Procs : inode[n].lock = q => q \in OpenBy(n)
    BY <1>0 DEF LockInv, OpenBy
  <2>3. QED
    BY <1>4, <2>1, <2>2
<1>5. ASSUME NEW n \in Inodes
      PROVE  /\ inode'[n] = inode[n] \/ (inode[n].lock = NoProc /\ inode'[n].lock = NoProc)
             /\ FileInv(n)'
  <2>1. CASE inode'[n] = inode[n]
    BY <2>1, <1>0 DEF FileInv
  <2>2. CASE inode'[n] = NoInode /\ OpenBy(n) = {}
    BY <2>2, <1>4, FreshInode DEF FileInv
  <2>3. QED
    BY <2>1, <2>2, <1>2
<1>6. QED
  BY <1>3, <1>5, Sizes DEF Touches
-----------------------------------------------------------------------------
\* A request stays one when one of its fields is set.
LEMMA SetField ==
    \A r \in Request :
        /\ \A v \in Places : [r EXCEPT !.at = v] \in Request
        /\ \A v \in {"read", "write", "destroy", "regenerate"} : [r EXCEPT !.for = v] \in Request
        /\ \A v \in BOOLEAN : [r EXCEPT !.ending = v] \in Request
        /\ \A v \in Ids \cup {0} : [r EXCEPT !.cookie = v] \in Request
        /\ \A v \in Ids \cup {0} : [r EXCEPT !.id = v] \in Request
        /\ \A v \in Seq(Entries) : [r EXCEPT !.vars = v] \in Request
        /\ \A v \in Inodes \cup {0} : [r EXCEPT !.fd = v] \in Request
        /\ \A v \in Ids \cup {0} : [r EXCEPT !.key = v] \in Request
        /\ \A v \in Nat : [r EXCEPT !.size = v] \in Request
        /\ \A v \in Ids \cup {0} : [r EXCEPT !.target = v] \in Request
        /\ \A v \in Nat : [r EXCEPT !.calls = v] \in Request
        /\ \A v \in Inodes \cup {0} : [r EXCEPT !.src = v] \in Request
        /\ \A v \in Seq(Entries) : [r EXCEPT !.saw = v] \in Request
        /\ \A v \in BOOLEAN : [r EXCEPT !.kept = v] \in Request
<1>1. \A r \in Request : \A v \in Places : [r EXCEPT !.at = v] \in Request
  BY DEF Request
<1>2. \A r \in Request : \A v \in {"read", "write", "destroy", "regenerate"} : [r EXCEPT !.for = v] \in Request
  BY DEF Request
<1>3. \A r \in Request : \A v \in BOOLEAN : [r EXCEPT !.ending = v] \in Request
  BY DEF Request
<1>4. \A r \in Request : \A v \in Ids \cup {0} : [r EXCEPT !.cookie = v] \in Request
  BY DEF Request
<1>5. \A r \in Request : \A v \in Ids \cup {0} : [r EXCEPT !.id = v] \in Request
  BY DEF Request
<1>6. \A r \in Request : \A v \in Seq(Entries) : [r EXCEPT !.vars = v] \in Request
  BY DEF Request
<1>7. \A r \in Request : \A v \in Inodes \cup {0} : [r EXCEPT !.fd = v] \in Request
  BY DEF Request
<1>8. \A r \in Request : \A v \in Ids \cup {0} : [r EXCEPT !.key = v] \in Request
  BY DEF Request
<1>9. \A r \in Request : \A v \in Nat : [r EXCEPT !.size = v] \in Request
  BY DEF Request
<1>10. \A r \in Request : \A v \in Ids \cup {0} : [r EXCEPT !.target = v] \in Request
  BY DEF Request
<1>11. \A r \in Request : \A v \in Nat : [r EXCEPT !.calls = v] \in Request
  BY DEF Request
<1>12. \A r \in Request : \A v \in Inodes \cup {0} : [r EXCEPT !.src = v] \in Request
  BY DEF Request
<1>13. \A r \in Request : \A v \in Seq(Entries) : [r EXCEPT !.saw = v] \in Request
  BY DEF Request
<1>14. \A r \in Request : \A v \in BOOLEAN : [r EXCEPT !.kept = v] \in Request
  BY DEF Request
<1>15. QED
  BY <1>1, <1>2, <1>3, <1>4, <1>5, <1>6, <1>7, <1>8, <1>9, <1>10, <1>11, <1>12, <1>13, <1>14

\* Who has read nothing knows nothing.
LEMMA Uninformed == ASSUME NEW r, NEW f, r.src = 0 PROVE Informed(r, f)
BY DEF Informed, Reader, Writer

\* The typed fields of a request, and what it knows of a file that it holds.
LEMMA Known ==
    ASSUME IInv, NEW p \in Procs
    PROVE  /\ req[p] \in Request /\ issued \in Nat /\ issued <= MaxIds
           /\ Placed(req[p]) /\ Informed(req[p], inode[req[p].fd])
           /\ req[p].fd # 0 => req[p].fd \in Inodes /\ inode[req[p].fd] \in Inode
           /\ req[p].fd # 0 /\ req[p].at # "lock" => inode[req[p].fd].lock = p
<1>1. Types /\ LockInv /\ RequestInv(p)
  BY DEF IInv
<1>2. req[p] \in Request /\ issued \in Ids
  BY <1>1 DEF Types
<1>3. req[p].fd \in Inodes \cup {0}
  BY <1>2 DEF Request
<1>4. req[p].fd # 0 /\ req[p].at # "lock" => inode[req[p].fd].lock = p
  BY <1>1, <1>3 DEF LockInv, Holding, At
<1>5. issued \in Nat /\ issued <= MaxIds
  BY <1>2, Sizes DEF Ids
<1>6. req[p].fd # 0 => req[p].fd \in Inodes /\ inode[req[p].fd] \in Inode
  BY <1>1, <1>3 DEF Types
<1>7. QED
  BY <1>1, <1>2, <1>4, <1>5, <1>6 DEF RequestInv

\* The id that a request makes is one that is left for it.
LEMMA NewId ==
    ASSUME IInv, NEW p \in Procs, MoreIds \/ p \in Renaming
    PROVE  issued + 1 \in Ids
<1>1. issued \in Ids /\ IdsInv
  BY DEF IInv, Types
<1>2. PICK S \in SUBSET Procs : S = Renaming
  BY DEF Renaming
<1>3. IsFiniteSet(S) /\ Cardinality(S) \in Nat
  BY <1>2, Sizes, FS_Subset, FS_CardinalityType
<1>4. issued + Cardinality(S) <= MaxIds /\ (MoreIds => issued + Cardinality(S) < MaxIds)
  BY <1>1, <1>2 DEF IdsInv, MoreIds, Renaming
<1>5. p \in S => Cardinality(S) # 0
  BY <1>3, FS_EmptySet
<1>6. issued + 1 <= MaxIds
  BY <1>1, <1>2, <1>3, <1>4, <1>5, Sizes DEF Ids
<1>7. QED
  BY <1>1, <1>6, Sizes DEF Ids

LEMMA ArriveInductive ==
    ASSUME IInv, NEW p \in Procs, Arrive(p)
    PROVE  IInv'
<1>0. /\ req[p] \in Request /\ Placed(req[p]) /\ issued \in Nat /\ issued <= MaxIds
      /\ Informed(req[p], inode[req[p].fd])
  BY Known
<1>1. PICK c \in 0..issued : Becomes(p, [req[p] EXCEPT !.at = "idle", !.cookie = c])
  BY DEF Arrive
<1>2. c \in Ids \cup {0}
  BY <1>0, Sizes DEF Ids
<1>3. PICK r \in Request : r = [req[p] EXCEPT !.at = "idle", !.cookie = c]
  BY <1>0, <1>2, SetField DEF Places
<1>4. Goes(p, r) /\ UNCHANGED <<dir, inode, issued>> /\ req[p].at = "absent"
  BY <1>1, <1>3 DEF Arrive, Becomes, Goes, At
<1>5. /\ r.at = "idle" /\ r.fd = req[p].fd /\ r.fd = 0 /\ r.src = 0
  BY <1>0, <1>3, <1>4 DEF Request, Placed
<1>6. Placed(r)
  BY <1>5 DEF Placed
<1>7. IdsInv' /\ issued' \in Ids
  BY <1>4, <1>5, IdsLeft DEF Renames
<1>8. QED
  BY <1>4, <1>5, <1>6, <1>7, Uninformed, Quiet

LEMMA StartInductive ==
    ASSUME IInv, NEW p \in Procs, Start(p)
    PROVE  IInv'
<1>0. /\ req[p] \in Request /\ Placed(req[p]) /\ issued \in Nat /\ issued <= MaxIds
  BY Known
<1>1. PICK i : /\ Becomes(p, [Called(p) EXCEPT !.at = "open", !.for = "read", !.vars = <<>>, !.id = i])
               /\ i \in Ids
               /\ issued' = issued \/ (MoreIds /\ issued' = issued + 1)
  <2>1. PICK r : r = [Called(p) EXCEPT !.at = "open", !.for = "read", !.vars = <<>>]
    OBVIOUS
  <2>2. \/ req[p].id # 0 /\ Becomes(p, r) /\ UNCHANGED issued
        \/ /\ req[p].id = 0 /\ req[p].cookie # 0
           /\ Becomes(p, [r EXCEPT !.id = r.cookie]) /\ UNCHANGED issued
        \/ /\ req[p].id = 0 /\ req[p].cookie = 0 /\ MoreIds
           /\ Becomes(p, [r EXCEPT !.id = issued + 1]) /\ issued' = issued + 1
    BY <2>1 DEF Start
  <2>3. /\ r.id = req[p].id /\ r.cookie = req[p].cookie
        /\ r = [r EXCEPT !.id = r.id]
        /\ req[p].id \in Ids \cup {0} /\ req[p].cookie \in Ids \cup {0}
    BY <2>1, <1>0 DEF Called, Request
  <2>4. MoreIds => issued + 1 \in Ids
    BY NewId
  <2>5. QED
    BY <2>1, <2>2, <2>3, <2>4
<1>2. PICK r \in Request :
          r = [Called(p) EXCEPT !.at = "open", !.for = "read", !.vars = <<>>, !.id = i]
  <2>1. req[p].calls + 1 \in Nat /\ <<>> \in Seq(Entries)
    BY <1>0 DEF Request
  <2>2. QED
    BY <1>0, <1>1, <2>1, SetField DEF Places, Called
<1>3. Goes(p, r) /\ UNCHANGED <<dir, inode>> /\ req[p].at = "idle"
  BY <1>1, <1>2 DEF Start, Becomes, Goes, At
<1>4. /\ r.at = "open" /\ r.for = "read" /\ r.vars = <<>> /\ r.id = i
      /\ r.fd = req[p].fd /\ r.fd = 0 /\ r.src = 0
  BY <1>0, <1>2, <1>3 DEF Request, Placed, Called
<1>5. Placed(r)
  BY <1>1, <1>4, Sizes DEF Placed
<1>6. IdsInv' /\ issued' \in Ids
  BY <1>1, <1>3, <1>4, IdsLeft DEF Renames
<1>7. QED
  BY <1>3, <1>4, <1>5, <1>6, Uninformed, Quiet

LEMMA OpenFailsInductive ==
    ASSUME IInv, NEW p \in Procs, OpenFails(p)
    PROVE  IInv'
<1>0. /\ req[p] \in Request /\ Placed(req[p])
  BY Known
<1>1. PICK at \in {"script", "gc", "close"} :
          Becomes(p, [req[p] EXCEPT !.at = at, !.key = req[p].id])
  BY DEF OpenFails, Started
<1>2. PICK r \in Request : r = [req[p] EXCEPT !.at = at, !.key = req[p].id]
  <2>1. req[p].id \in Ids \cup {0} /\ at \in Places
    BY <1>0 DEF Request, Places
  <2>2. QED
    BY <1>0, <2>1, SetField
<1>3. Goes(p, r) /\ UNCHANGED <<dir, inode, issued>> /\ req[p].at = "open"
  BY <1>1, <1>2 DEF OpenFails, Becomes, Goes, At
<1>4. /\ r.at = at /\ r.id = req[p].id /\ r.id # 0 /\ r.fd = req[p].fd /\ r.fd = 0 /\ r.src = 0
  BY <1>0, <1>2, <1>3 DEF Request, Placed
<1>5. Placed(r)
  BY <1>4 DEF Placed
<1>6. IdsInv' /\ issued' \in Ids
  BY <1>3, <1>4, IdsLeft DEF Renames
<1>7. QED
  BY <1>3, <1>4, <1>5, <1>6, Uninformed, Quiet

\* A read leaves the request with the file's data, and with no entry of anything else.
LEMMA DecodingShape ==
    ASSUME NEW f \in Inode, NEW d \in Decodings(f)
    PROVE  d \in Seq(Entries) /\ Elems(<<>> \o d) \subseteq Elems(f.data)
<1>1. f.data \in Seq(Entries)
  BY DEF Inode
<1>2. d \in Prefixes(f.data)
  BY <1>1, PrefixShape DEF Decodings
<1>3. d \in Seq(Entries) /\ Elems(d) \subseteq Elems(f.data)
  BY <1>1, <1>2, PrefixShape
<1>4. <<>> \o d = d
  BY <1>3
<1>5. QED
  BY <1>3, <1>4

LEMMA ReadInductive ==
    ASSUME IInv, NEW p \in Procs, Read(p)
    PROVE  IInv'
<1>0. /\ req[p] \in Request /\ Placed(req[p])
      /\ req[p].at = "read" /\ req[p].fd \in Inodes /\ inode[req[p].fd] \in Inode
      /\ req[p].vars = <<>>
  BY Known DEF Placed, Read, At
<1>1. PICK f \in Inode : f = inode[req[p].fd]
  BY <1>0
<1>2. PICK d \in Decodings(f), at \in {"script", "gc"} :
          Becomes(p, [req[p] EXCEPT !.at = at, !.size = Len(f.data), !.vars = @ \o d,
                                    !.src = req[p].fd, !.saw = f.data])
  BY <1>1 DEF Read, Started
<1>3. PICK v \in Seq(Entries) : v = <<>> \o d /\ Elems(v) \subseteq Elems(f.data)
  <2>1. d \in Seq(Entries) /\ Elems(<<>> \o d) \subseteq Elems(f.data)
    BY DecodingShape
  <2>2. <<>> \o d \in Seq(Entries)
    BY <2>1
  <2>3. QED
    BY <2>1, <2>2
<1>4. PICK r \in Request : r = [req[p] EXCEPT !.at = at, !.size = Len(f.data), !.vars = v,
                                              !.src = req[p].fd, !.saw = f.data]
  <2>1. f.data \in Seq(Entries) /\ Len(f.data) \in Nat /\ at \in Places
    BY DEF Inode, Places
  <2>2. QED
    BY <1>0, <2>1, SetField
<1>5. Goes(p, r)
  BY <1>0, <1>2, <1>3, <1>4 DEF Becomes, Goes
<1>6. UNCHANGED <<dir, inode, issued>>
  BY DEF Read
<1>7. /\ r.at = at /\ r.id = req[p].id /\ r.fd = req[p].fd /\ r.src = req[p].fd
      /\ r.size = Len(f.data) /\ r.saw = f.data /\ r.vars = v
  BY <1>0, <1>4 DEF Request
<1>8. Placed(r)
  BY <1>0, <1>7, Sizes DEF Placed
<1>9. Informed(r, f)
  <2>1. FileInv(req[p].fd)
    BY <1>0 DEF IInv
  <2>2. f.blind \/ Elems(v) \subseteq f.owners
    BY <1>1, <1>3, <2>1 DEF FileInv, FileOK
  <2>3. QED
    BY <1>7, <2>2 DEF Informed, Reader, Writer
<1>10. IdsInv' /\ issued' \in Ids
  BY <1>5, <1>6, <1>7, IdsLeft DEF Renames
<1>11. QED
  BY <1>0, <1>1, <1>5, <1>6, <1>7, <1>8, <1>9, <1>10, Quiet

LEMMA ReadFailsInductive ==
    ASSUME IInv, NEW p \in Procs, ReadFails(p)
    PROVE  IInv'
<1>0. /\ req[p] \in Request /\ Placed(req[p])
      /\ req[p].at = "read" /\ req[p].fd \in Inodes /\ inode[req[p].fd] \in Inode
      /\ req[p].vars = <<>> /\ req[p].src = 0 /\ req[p].id # 0
      /\ UNCHANGED <<dir, inode, issued>>
  BY Known DEF Placed, ReadFails, At
<1>1. PICK f \in Inode : f = inode[req[p].fd]
  BY <1>0
<1>2. PICK at \in {"script", "gc"} :
          \/ Becomes(p, [req[p] EXCEPT !.at = at])
          \/ Becomes(p, [req[p] EXCEPT !.at = at, !.size = Len(f.data),
                                       !.src = req[p].fd, !.saw = f.data])
  BY <1>1 DEF ReadFails, Started
<1>3. f.data \in Seq(Entries) /\ Len(f.data) \in Nat /\ at \in Places
  BY DEF Inode, Places
<1>4. PICK r \in Request :
          /\ Goes(p, r)
          /\ r.at = at /\ r.id = req[p].id /\ r.fd = req[p].fd /\ r.vars = <<>>
          /\ r.src = 0 \/ (r.src = r.fd /\ r.size = Len(f.data) /\ r.saw = f.data)
  <2>1. CASE Becomes(p, [req[p] EXCEPT !.at = at])
    <3>1. PICK r \in Request : r = [req[p] EXCEPT !.at = at]
      BY <1>0, <1>3, SetField
    <3>2. Goes(p, r)
      BY <2>1, <3>1 DEF Becomes, Goes
    <3>3. r.at = at /\ r.id = req[p].id /\ r.fd = req[p].fd /\ r.vars = <<>> /\ r.src = 0
      BY <1>0, <3>1 DEF Request
    <3>4. QED
      BY <3>2, <3>3
  <2>2. CASE Becomes(p, [req[p] EXCEPT !.at = at, !.size = Len(f.data),
                                       !.src = req[p].fd, !.saw = f.data])
    <3>1. PICK r \in Request : r = [req[p] EXCEPT !.at = at, !.size = Len(f.data),
                                                  !.src = req[p].fd, !.saw = f.data]
      BY <1>0, <1>3, SetField
    <3>2. Goes(p, r)
      BY <2>2, <3>1 DEF Becomes, Goes
    <3>3. /\ r.at = at /\ r.id = req[p].id /\ r.fd = req[p].fd /\ r.vars = <<>>
          /\ r.src = req[p].fd /\ r.size = Len(f.data) /\ r.saw = f.data
      BY <1>0, <3>1 DEF Request
    <3>4. QED
      BY <3>2, <3>3
  <2>3. QED
    BY <1>2, <2>1, <2>2
<1>5. Placed(r)
  BY <1>0, <1>4, Sizes DEF Placed
<1>6. Informed(r, f)
  <2>1. Elems(r.vars) = {}
    BY <1>4 DEF Elems
  <2>2. QED
    BY <1>4, <2>1 DEF Informed, Reader, Writer
<1>7. IdsInv' /\ issued' \in Ids
  BY <1>0, <1>4, IdsLeft DEF Renames
<1>8. QED
  BY <1>0, <1>1, <1>4, <1>5, <1>6, <1>7, Quiet

\* A step of the collector that changes nothing yet, and a session_id.
LEMMA GcStatInductive ==
    ASSUME IInv, NEW p \in Procs, GcStat(p)
    PROVE  IInv'
<1>0. /\ req[p] \in Request /\ Placed(req[p]) /\ Informed(req[p], inode[req[p].fd])
      /\ req[p].at = "gc"
  BY Known DEF GcStat, At
<1>1. PICK i \in Ids : Becomes(p, [req[p] EXCEPT !.at = "unlinkOld", !.target = i])
  BY DEF GcStat
<1>2. PICK r \in Request : r = [req[p] EXCEPT !.at = "unlinkOld", !.target = i]
  BY <1>0, SetField DEF Places
<1>3. Goes(p, r) /\ UNCHANGED <<dir, inode, issued>>
  BY <1>1, <1>2 DEF GcStat, Becomes, Goes
<1>4. /\ r.at = "unlinkOld" /\ r.target = i /\ r.id = req[p].id /\ r.fd = req[p].fd
      /\ r.src = req[p].src /\ r.size = req[p].size /\ r.saw = req[p].saw /\ r.vars = req[p].vars
  BY <1>0, <1>2 DEF Request
<1>5. Placed(r)
  BY <1>0, <1>4, Sizes DEF Placed
<1>6. Informed(r, inode[r.fd])
  BY <1>0, <1>4 DEF Informed, Reader, Writer
<1>7. IdsInv' /\ issued' \in Ids
  BY <1>3, <1>4, IdsLeft DEF Renames
<1>8. QED
  BY <1>0, <1>3, <1>4, <1>5, <1>6, <1>7, Quiet

LEMMA GcDoneInductive ==
    ASSUME IInv, NEW p \in Procs, GcDone(p)
    PROVE  IInv'
<1>0. /\ req[p] \in Request /\ Placed(req[p]) /\ Informed(req[p], inode[req[p].fd])
      /\ req[p].at = "gc"
  BY Known DEF GcDone, At
<1>2. PICK r \in Request : r = [req[p] EXCEPT !.at = "script"]
  BY <1>0, SetField DEF Places
<1>3. Goes(p, r) /\ UNCHANGED <<dir, inode, issued>>
  BY <1>2 DEF GcDone, Becomes, Goes
<1>4. /\ r.at = "script" /\ r.id = req[p].id /\ r.fd = req[p].fd
      /\ r.src = req[p].src /\ r.size = req[p].size /\ r.saw = req[p].saw /\ r.vars = req[p].vars
  BY <1>0, <1>2 DEF Request
<1>5. Placed(r)
  BY <1>0, <1>4 DEF Placed
<1>6. Informed(r, inode[r.fd])
  BY <1>0, <1>4 DEF Informed, Reader, Writer
<1>7. IdsInv' /\ issued' \in Ids
  BY <1>3, <1>4, IdsLeft DEF Renames
<1>8. QED
  BY <1>0, <1>3, <1>4, <1>5, <1>6, <1>7, Quiet

LEMMA SetIdInductive ==
    ASSUME IInv, NEW p \in Procs, NEW i \in Ids, SetId(p, i)
    PROVE  IInv'
<1>0. /\ req[p] \in Request /\ Placed(req[p]) /\ Informed(req[p], inode[req[p].fd])
      /\ req[p].at \in {"script", "idle"}
  BY Known DEF SetId, At
<1>2. PICK r \in Request : r = [Called(p) EXCEPT !.id = i]
  <2>1. req[p].calls + 1 \in Nat
    BY <1>0 DEF Request
  <2>2. QED
    BY <1>0, <2>1, SetField DEF Called
<1>3. Goes(p, r) /\ UNCHANGED <<dir, inode, issued>>
  BY <1>2 DEF SetId, Becomes, Goes
<1>4. /\ r.at = req[p].at /\ r.id = i /\ r.fd = req[p].fd
      /\ r.src = req[p].src /\ r.size = req[p].size /\ r.saw = req[p].saw /\ r.vars = req[p].vars
  BY <1>0, <1>2 DEF Request, Called
<1>5. Placed(r)
  BY <1>0, <1>4, Sizes DEF Placed
<1>6. Informed(r, inode[r.fd])
  BY <1>0, <1>4 DEF Informed, Reader, Writer
<1>7. IdsInv' /\ issued' \in Ids
  BY <1>0, <1>3, <1>4, IdsLeft DEF Renames
<1>8. QED
  BY <1>0, <1>3, <1>4, <1>5, <1>6, <1>7, Quiet

LEMMA SaveNothingInductive ==
    ASSUME IInv, NEW p \in Procs, NEW ending \in BOOLEAN, SaveNothing(p, ending)
    PROVE  IInv'
<1>0. req[p] \in Request /\ Placed(req[p]) /\ req[p].at = "script"
  BY Known DEF SaveNothing, At
<1>2. PICK r \in Request : r = [req[p] EXCEPT !.at = "close", !.ending = ending]
  BY <1>0, SetField DEF Places
<1>3. Goes(p, r) /\ UNCHANGED <<dir, inode, issued>>
  BY <1>2 DEF SaveNothing, Becomes, Goes
<1>4. r.at = "close" /\ r.id = req[p].id /\ r.fd = req[p].fd /\ r.src = req[p].src
  BY <1>0, <1>2 DEF Request
<1>5. Placed(r) /\ Informed(r, inode[r.fd])
  BY <1>0, <1>4 DEF Placed, Informed, Reader, Writer
<1>7. IdsInv' /\ issued' \in Ids
  BY <1>3, <1>4, IdsLeft DEF Renames
<1>8. QED
  BY <1>0, <1>3, <1>4, <1>5, <1>7, Quiet

LEMMA PwriteFailsInductive ==
    ASSUME IInv, NEW p \in Procs, PwriteFails(p)
    PROVE  IInv'
<1>0. req[p] \in Request /\ Placed(req[p]) /\ req[p].at = "pwrite"
  BY Known DEF PwriteFails, At
<1>2. PICK r \in Request : r = [req[p] EXCEPT !.at = "close", !.kept = FALSE]
  BY <1>0, SetField DEF Places
<1>3. Goes(p, r) /\ UNCHANGED <<dir, inode, issued>>
  BY <1>2 DEF PwriteFails, Becomes, Goes
<1>4. r.at = "close" /\ r.id = req[p].id /\ r.fd = req[p].fd /\ r.src = req[p].src
  BY <1>0, <1>2 DEF Request
<1>5. Placed(r) /\ Informed(r, inode[r.fd])
  BY <1>0, <1>4 DEF Placed, Informed, Reader, Writer
<1>7. IdsInv' /\ issued' \in Ids
  BY <1>3, <1>4, IdsLeft DEF Renames
<1>8. QED
  BY <1>0, <1>3, <1>4, <1>5, <1>7, Quiet

\* A failed ftruncate changes nothing, and the request knows no longer that it writes no
\* less than there is.
LEMMA TruncateFailsInductive ==
    ASSUME IInv, NEW p \in Procs, TruncateFails(p)
    PROVE  IInv'
<1>0. /\ req[p] \in Request /\ Placed(req[p]) /\ Informed(req[p], inode[req[p].fd])
      /\ req[p].at = "truncate" /\ req[p].id # 0
  BY Known DEF TruncateFails, At, Placed
<1>2. PICK r \in Request : r = [req[p] EXCEPT !.at = "pwrite", !.saw = <<>>, !.kept = TRUE]
  <2>1. "pwrite" \in Places /\ <<>> \in Seq(Entries)
    BY DEF Places
  <2>2. QED
    BY <1>0, <2>1, SetField
<1>3. Goes(p, r) /\ UNCHANGED <<dir, inode, issued>>
  BY <1>2 DEF TruncateFails, Becomes, Goes
<1>4. /\ r.at = "pwrite" /\ r.id = req[p].id /\ r.fd = req[p].fd /\ r.src = req[p].src
      /\ r.vars = req[p].vars /\ r.kept
  BY <1>0, <1>2 DEF Request
<1>5. Placed(r)
  BY <1>0, <1>4 DEF Placed
<1>6. Informed(r, inode[r.fd])
  BY <1>0, <1>4 DEF Informed, Reader, Writer
<1>7. IdsInv' /\ issued' \in Ids
  BY <1>3, <1>4, IdsLeft DEF Renames
<1>8. QED
  BY <1>0, <1>3, <1>4, <1>5, <1>6, <1>7, Quiet
-----------------------------------------------------------------------------
\* Steps that change the file of the request, which it has locked now.
LEMMA OwnFile ==
    ASSUME IInv, NEW p \in Procs, NEW r \in Request, Goes(p, r), NEW n \in Inodes, NEW g \in Inode,
           req[p].fd = n, r.fd = n, r.at # "lock", inode[n].lock \in {p, NoProc}, g.lock = p,
           inode' = [inode EXCEPT ![n] = g], dir' = dir, IdsInv', issued' \in Ids,
           Placed(r), Informed(r, g), FileOK(g)
    PROVE  IInv'
<1>0. /\ Types /\ DirInv /\ LockInv
      /\ \A m \in Inodes : FileInv(m)
  BY DEF IInv
<1>1. inode'[n] = g /\ \A m \in Inodes : m # n => inode'[m] = inode[m]
  BY <1>0 DEF Types
<1>2. inode' \in [Inodes -> Inode] /\ dir' \in [Ids -> Inodes \cup {0}]
  BY <1>0 DEF Types
<1>3. Touches(p)
  BY <1>1 DEF Touches
<1>4. \A m \in Inodes : inode'[m].lock = p <=> r.at # "lock" /\ r.fd = m
  BY <1>0, <1>1 DEF LockInv
<1>5. DirInv'
  BY <1>0 DEF DirInv
<1>6. \A m \in Inodes : FileInv(m)'
  <2>1. FileInv(n)'
    BY <1>1 DEF FileInv
  <2>2. ASSUME NEW m \in Inodes, m # n
        PROVE  FileInv(m)'
    BY <1>0, <1>1, <2>2 DEF FileInv
  <2>3. QED
    BY <2>1, <2>2
<1>7. QED
  BY <1>1, <1>2, <1>3, <1>4, <1>5, <1>6, Goal

\* Steps that close the file of the request, if it has one.
LEMMA Closing ==
    ASSUME IInv, NEW p \in Procs, NEW r \in Request, Goes(p, r), inode' = Closed(p), dir' = dir,
           r.fd = 0, r.src = 0, IdsInv', issued' \in Ids, Placed(r)
    PROVE  IInv'
<1>0. Types /\ DirInv
  BY DEF IInv
<1>1. /\ inode' \in [Inodes -> Inode]
      /\ Touches(p)
      /\ \A n \in Inodes : inode'[n].lock # p
      /\ \A n \in Inodes : FileInv(n)'
  BY ClosedShape
<1>2. DirInv' /\ dir' \in [Ids -> Inodes \cup {0}]
  BY <1>0 DEF DirInv, Types
<1>3. \A n \in Inodes : inode'[n].lock = p <=> r.at # "lock" /\ r.fd = n
  BY <1>1, Sizes
<1>4. Informed(r, inode'[r.fd])
  BY Uninformed
<1>5. QED
  BY <1>1, <1>2, <1>3, <1>4, Goal

\* Steps that remove a name: a file that somebody has open stays as it is.
LEMMA Unlinking ==
    ASSUME IInv, NEW p \in Procs, NEW r \in Request, Goes(p, r), NEW i \in Ids,
           inode' = Unlinked(i), dir' = [dir EXCEPT ![i] = 0],
           r.fd = req[p].fd, r.at # "lock" /\ req[p].at # "lock", IdsInv', issued' \in Ids,
           Placed(r), Informed(r, inode[r.fd])
    PROVE  IInv'
<1>0. Types /\ DirInv /\ LockInv
  BY DEF IInv
<1>1. /\ inode' \in [Inodes -> Inode]
      /\ Touches(p)
      /\ \A n \in Inodes : inode'[n].lock = p <=> inode[n].lock = p
      /\ \A n \in Inodes : FileInv(n)'
  BY UnlinkedShape
<1>2. dir' \in [Ids -> Inodes \cup {0}]
  BY <1>0 DEF Types
<1>3. DirInv'
  <2>1. dir'[i] = 0 /\ \A j \in Ids : j # i => dir'[j] = dir[j]
    BY <1>0 DEF Types
  <2>2. QED
    BY <1>0, <2>1 DEF DirInv
<1>4. \A n \in Inodes : inode'[n].lock = p <=> r.at # "lock" /\ r.fd = n
  BY <1>0, <1>1, Sizes DEF LockInv, Holding, At
<1>5. Informed(r, inode'[r.fd])
  <2>1. CASE r.fd = 0
    <3>1. r.src = 0
      BY <2>1 DEF Placed
    <3>2. QED
      BY <3>1, Uninformed
  <2>2. CASE r.fd # 0
    <3>1. r.fd \in Inodes /\ p \in OpenBy(r.fd)
      BY <2>2 DEF Request, OpenBy
    <3>2. inode'[r.fd] = inode[r.fd]
      BY <3>1 DEF Unlinked
    <3>3. QED
      BY <3>2
  <2>3. QED
    BY <2>1, <2>2
<1>6. QED
  BY <1>1, <1>2, <1>3, <1>4, <1>5, Goal

LEMMA OpenInductive ==
    ASSUME IInv, NEW p \in Procs, Open(p)
    PROVE  IInv'
<1>0. /\ req[p] \in Request /\ Placed(req[p]) /\ req[p].at = "open" /\ req[p].fd = 0
      /\ req[p].src = 0 /\ req[p].id \in Ids
  BY Known DEF Open, At, Placed, Request
<1>1. /\ Types /\ DirInv /\ LockInv
      /\ \A m \in Inodes : FileInv(m)
  BY DEF IInv
<1>2. PICK i \in Ids : i = req[p].id
  BY <1>0
<1>3. PICK n : n = IF dir[i] # 0 THEN dir[i] ELSE CHOOSE f \in Free : \A g \in Free : f <= g
  OBVIOUS
<1>4. dir' = [dir EXCEPT ![i] = n] /\ Becomes(p, [req[p] EXCEPT !.at = "lock", !.fd = n, !.key = i])
      /\ UNCHANGED <<inode, issued>>
  BY <1>2, <1>3 DEF Open
<1>5. n \in Inodes /\ \A j \in Ids : dir[j] = n => j = i
  <2>1. CASE dir[i] # 0
    BY <1>1, <1>3, <2>1 DEF Types, DirInv
  <2>2. CASE dir[i] = 0
    <3>1. n \in Free
      BY <1>0, <1>1, <1>3, <2>2, FreeInode
    <3>2. QED
      BY <3>1 DEF Free, Linked
  <2>3. QED
    BY <2>1, <2>2
<1>6. PICK r \in Request : r = [req[p] EXCEPT !.at = "lock", !.fd = n, !.key = i]
  BY <1>0, <1>5, SetField DEF Places
<1>7. Goes(p, r)
  BY <1>4, <1>6 DEF Becomes, Goes
<1>8. /\ r.at = "lock" /\ r.fd = n /\ r.src = 0 /\ r.id = i
      /\ r.vars = req[p].vars /\ r.for = req[p].for
  BY <1>0, <1>2, <1>6 DEF Request
<1>9. Placed(r)
  BY <1>0, <1>5, <1>8, Sizes DEF Placed
<1>10. IdsInv' /\ issued' \in Ids
  BY <1>4, <1>7, <1>8, IdsLeft DEF Renames
<1>11. Touches(p)
  BY <1>4 DEF Touches
<1>12. dir' \in [Ids -> Inodes \cup {0}] /\ inode' \in [Inodes -> Inode]
  BY <1>1, <1>4, <1>5 DEF Types
<1>13. DirInv'
  <2>1. dir'[i] = n /\ \A j \in Ids : j # i => dir'[j] = dir[j]
    BY <1>1, <1>4 DEF Types
  <2>2. QED
    BY <1>1, <1>5, <2>1 DEF DirInv
<1>14. \A m \in Inodes : inode'[m].lock = p <=> r.at # "lock" /\ r.fd = m
  BY <1>0, <1>1, <1>4, <1>8, Sizes DEF LockInv, Holding
<1>15. \A m \in Inodes : FileInv(m)'
  BY <1>1, <1>4 DEF FileInv
<1>16. Informed(r, inode'[r.fd])
  BY <1>8, Uninformed
<1>17. QED
  BY <1>7, <1>9, <1>10, <1>11, <1>12, <1>13, <1>14, <1>15, <1>16, Goal

LEMMA LockInductive ==
    ASSUME IInv, NEW p \in Procs, Lock(p)
    PROVE  IInv'
<1>0. /\ req[p] \in Request /\ Placed(req[p]) /\ req[p].at = "lock"
      /\ req[p].fd \in Inodes /\ inode[req[p].fd] \in Inode
      /\ req[p].id # 0 /\ req[p].src = 0
  BY Known DEF Lock, At, Placed
<1>1. PICK n \in Inodes : n = req[p].fd
  BY <1>0
<1>2. PICK at \in {"read", "truncate"} :
          /\ Becomes(p, [req[p] EXCEPT !.at = at])
          /\ at = "read" => req[p].for = "read"
  BY DEF Lock
<1>3. PICK r \in Request : r = [req[p] EXCEPT !.at = at]
  BY <1>0, SetField DEF Places
<1>4. PICK g \in Inode : g = [inode[n] EXCEPT !.lock = p]
  BY <1>0, <1>1 DEF Inode
<1>5. Goes(p, r) /\ UNCHANGED <<dir, issued>> /\ inode[n].lock = NoProc
      /\ inode' = [inode EXCEPT ![n] = g]
  BY <1>1, <1>2, <1>3, <1>4 DEF Lock, Becomes, Goes
<1>6. /\ r.at = at /\ r.fd = n /\ r.src = 0 /\ r.id # 0
      /\ r.vars = req[p].vars /\ r.for = req[p].for
  BY <1>0, <1>1, <1>3 DEF Request
<1>7. Placed(r)
  BY <1>0, <1>2, <1>6, Sizes DEF Placed
<1>8. IdsInv' /\ issued' \in Ids
  BY <1>5, <1>6, IdsLeft DEF Renames
<1>9. /\ g.lock = p /\ g.data = inode[n].data /\ g.whole = inode[n].whole
      /\ g.torn = inode[n].torn /\ g.blind = inode[n].blind /\ g.owners = inode[n].owners
  BY <1>0, <1>1, <1>4 DEF Inode
<1>10. FileInv(n)
  BY DEF IInv
<1>11. Informed(r, g)
  BY <1>6, Uninformed
<1>12. FileOK(g)
  BY <1>9, <1>10 DEF FileInv, FileOK
<1>13. QED
  BY <1>1, <1>5, <1>6, <1>7, <1>8, <1>9, <1>11, <1>12, OwnFile

LEMMA GcUnlinkInductive ==
    ASSUME IInv, NEW p \in Procs, GcUnlink(p)
    PROVE  IInv'
<1>0. /\ req[p] \in Request /\ Placed(req[p]) /\ Informed(req[p], inode[req[p].fd])
      /\ req[p].at = "unlinkOld"
  BY Known DEF GcUnlink, At
<1>1. PICK i \in Ids : i = req[p].target
  BY <1>0 DEF Placed, Request
<1>2. PICK r \in Request : r = [req[p] EXCEPT !.at = "gc", !.target = 0]
  BY <1>0, SetField DEF Places
<1>3. /\ Goes(p, r) /\ inode' = Unlinked(i) /\ dir' = [dir EXCEPT ![i] = 0]
      /\ UNCHANGED issued
  BY <1>1, <1>2 DEF GcUnlink, Becomes, Goes
<1>4. /\ r.at = "gc" /\ r.id = req[p].id /\ r.fd = req[p].fd
      /\ r.src = req[p].src /\ r.size = req[p].size /\ r.saw = req[p].saw /\ r.vars = req[p].vars
  BY <1>0, <1>2 DEF Request
<1>5. Placed(r)
  BY <1>0, <1>4 DEF Placed
<1>6. Informed(r, inode[r.fd])
  BY <1>0, <1>4 DEF Informed, Reader, Writer
<1>7. IdsInv' /\ issued' \in Ids
  BY <1>3, <1>4, IdsLeft DEF Renames
<1>8. QED
  BY <1>0, <1>3, <1>4, <1>5, <1>6, <1>7, Unlinking

\* A request after its session is destroyed, or has a new id.
LEMMA DestroyedShape ==
    ASSUME NEW p \in Procs, NEW q \in Request, q.fd = 0, Destroyed(p, q)
    PROVE  \E r \in Request : Goes(p, r) /\ r.at = "idle" /\ r.fd = 0 /\ r.src = 0 /\ Placed(r)
<1>1. PICK r \in Request : r = [q EXCEPT !.at = "idle", !.id = 0, !.vars = <<>>, !.key = 0,
                                        !.size = 0, !.src = 0, !.saw = <<>>]
  <2>1. <<>> \in Seq(Entries) /\ "idle" \in Places /\ 0 \in Nat /\ 0 \in Ids \cup {0}
        /\ 0 \in Inodes \cup {0}
    BY DEF Places
  <2>2. PICK s \in Request : s = [q EXCEPT !.at = "idle", !.id = 0, !.vars = <<>>]
    BY <2>1, SetField
  <2>3. PICK t \in Request : t = [s EXCEPT !.key = 0, !.size = 0]
    BY <2>1, SetField
  <2>4. PICK r \in Request : r = [t EXCEPT !.src = 0, !.saw = <<>>]
    BY <2>1, SetField
  <2>5. QED
    BY <2>2, <2>3, <2>4
<1>2. Goes(p, r)
  BY <1>1 DEF Destroyed, Becomes, Goes
<1>3. r.at = "idle" /\ r.fd = 0 /\ r.src = 0
  BY <1>1 DEF Request
<1>4. Placed(r)
  BY <1>3 DEF Placed
<1>5. QED
  BY <1>2, <1>3, <1>4

LEMMA RenamedShape ==
    ASSUME NEW p \in Procs, NEW q \in Request, q.src \in {0, q.fd}, issued + 1 \in Ids, Renamed(p, q)
    PROVE  \E r \in Request :
              /\ Goes(p, r) /\ issued' = issued + 1
              /\ r.at = "script" /\ r.fd = q.fd /\ r.src = q.src /\ r.size = q.size
              /\ r.saw = q.saw /\ r.vars = q.vars /\ Placed(r)
<1>1. PICK i \in Ids : i = issued + 1
  OBVIOUS
<1>2. PICK r \in Request : r = [q EXCEPT !.at = "script", !.for = "read", !.id = i]
  BY SetField DEF Places
<1>3. Goes(p, r) /\ issued' = issued + 1
  BY <1>1, <1>2 DEF Renamed, Becomes, Goes
<1>4. /\ r.at = "script" /\ r.fd = q.fd /\ r.src = q.src /\ r.size = q.size
      /\ r.saw = q.saw /\ r.vars = q.vars /\ r.id = i
  BY <1>2 DEF Request
<1>5. Placed(r)
  BY <1>4, Sizes DEF Placed
<1>6. QED
  BY <1>3, <1>4, <1>5

LEMMA CalledShape ==
    ASSUME NEW p \in Procs, req[p] \in Request
    PROVE  /\ Called(p) \in Request
           /\ Called(p).fd = req[p].fd /\ Called(p).src = req[p].src /\ Called(p).size = req[p].size
           /\ Called(p).saw = req[p].saw /\ Called(p).vars = req[p].vars
           /\ Called(p).id = req[p].id
<1>1. req[p].calls + 1 \in Nat
  BY DEF Request
<1>2. Called(p) \in Request
  BY <1>1, SetField DEF Called
<1>3. QED
  BY <1>2 DEF Called, Request

\* s_destroy, its first step.
LEMMA BeginDestroyInductive ==
    ASSUME IInv, NEW p \in Procs, NEW for \in {"destroy", "regenerate"}, BeginDestroy(p, for),
           At(p, "script"), UNCHANGED <<dir, issued>>, for = "regenerate" => MoreIds
    PROVE  IInv'
<1>0. req[p] \in Request /\ Placed(req[p]) /\ req[p].at = "script"
  BY Known DEF At
<1>1. PICK r \in Request : r = [Called(p) EXCEPT !.at = "unlink", !.for = for, !.fd = 0,
                                                !.src = 0, !.saw = <<>>]
  <2>1. <<>> \in Seq(Entries)
    OBVIOUS
  <2>2. QED
    BY <1>0, <2>1, CalledShape, SetField DEF Places
<1>2. Goes(p, r) /\ inode' = Closed(p)
  BY <1>1 DEF BeginDestroy, Becomes, Goes
<1>3. r.at = "unlink" /\ r.for = for /\ r.fd = 0 /\ r.src = 0 /\ r.id = req[p].id
  BY <1>0, <1>1, CalledShape DEF Request
<1>4. Placed(r)
  BY <1>0, <1>3 DEF Placed
<1>5. IdsInv' /\ issued' \in Ids
  <2>1. ~ Renames(r) \/ MoreIds
    BY <1>3 DEF Renames
  <2>2. QED
    BY <1>2, <2>1, IdsLeft
<1>6. QED
  BY <1>2, <1>3, <1>4, <1>5, Closing

LEMMA DestroyInductive ==
    ASSUME IInv, NEW p \in Procs, Destroy(p)
    PROVE  IInv'
<1>0. req[p] \in Request /\ Placed(req[p]) /\ req[p].at = "script"
  BY Known DEF Destroy, At
<1>1. CASE req[p].fd # 0
  BY <1>1, BeginDestroyInductive DEF Destroy
<1>2. CASE req[p].fd = 0
  <2>1. Destroyed(p, Called(p)) /\ UNCHANGED <<dir, inode, issued>>
    BY <1>2 DEF Destroy
  <2>2. PICK r \in Request : Goes(p, r) /\ r.at = "idle" /\ r.fd = 0 /\ r.src = 0 /\ Placed(r)
    BY <1>0, <1>2, <2>1, CalledShape, DestroyedShape
  <2>3. IdsInv' /\ issued' \in Ids
    BY <2>1, <2>2, IdsLeft DEF Renames
  <2>4. QED
    BY <1>0, <1>2, <2>1, <2>2, <2>3, Uninformed, Quiet
<1>3. QED
  BY <1>1, <1>2

LEMMA RegenerateInductive ==
    ASSUME IInv, NEW p \in Procs, NEW delete \in BOOLEAN, Regenerate(p, delete)
    PROVE  IInv'
<1>0. /\ req[p] \in Request /\ Placed(req[p]) /\ Informed(req[p], inode[req[p].fd])
      /\ req[p].at = "script" /\ MoreIds
  BY Known DEF Regenerate, At
<1>1. CASE delete /\ req[p].fd # 0
  BY <1>0, <1>1, BeginDestroyInductive DEF Regenerate
<1>2. CASE ~ (delete /\ req[p].fd # 0)
  <2>1. Renamed(p, Called(p)) /\ UNCHANGED <<dir, inode>>
    BY <1>2 DEF Regenerate
  <2>2. PICK q \in Request : /\ q = Called(p) /\ q.fd = req[p].fd /\ q.src = req[p].src
                            /\ q.size = req[p].size /\ q.saw = req[p].saw /\ q.vars = req[p].vars
    BY <1>0, CalledShape
  <2>3. q.src \in {0, q.fd}
    BY <1>0, <2>2 DEF Placed
  <2>4. issued + 1 \in Ids
    BY <1>0, NewId
  <2>5. PICK r \in Request :
            /\ Goes(p, r) /\ issued' = issued + 1
            /\ r.at = "script" /\ r.fd = q.fd /\ r.src = q.src /\ r.size = q.size
            /\ r.saw = q.saw /\ r.vars = q.vars /\ Placed(r)
    BY <2>1, <2>2, <2>3, <2>4, RenamedShape
  <2>6. IdsInv' /\ issued' \in Ids
    BY <1>0, <2>5, IdsLeft DEF Renames
  <2>7. Informed(r, inode[r.fd])
    BY <1>0, <2>2, <2>5 DEF Informed, Reader, Writer
  <2>8. QED
    BY <1>0, <2>1, <2>2, <2>5, <2>6, <2>7, Quiet
<1>3. QED
  BY <1>1, <1>2

\* s_destroy, when it is over.
LEMMA RenamingPlace ==
    ASSUME NEW p \in Procs, req[p] \in Request, req[p].at \in {"unlink", "access"}
    PROVE  req[p].for = "regenerate" => p \in Renaming
BY DEF Renaming

LEMMA UnlinkInductive ==
    ASSUME IInv, NEW p \in Procs, Unlink(p)
    PROVE  IInv'
<1>0. /\ req[p] \in Request /\ Placed(req[p]) /\ req[p].at = "unlink"
      /\ req[p].fd = 0 /\ req[p].src = 0 /\ req[p].id \in Ids
      /\ req[p].for \in {"destroy", "regenerate"}
  BY Known DEF Unlink, At, Placed, Request
<1>1. CASE /\ inode' = Unlinked(req[p].id)
           /\ dir' = [dir EXCEPT ![req[p].id] = 0]
           /\ IF req[p].for = "destroy" THEN Destroyed(p, req[p]) /\ UNCHANGED issued
              ELSE Renamed(p, req[p]) /\ req[p].for = "regenerate"
  <2>1. CASE req[p].for = "destroy"
    <3>1. PICK r \in Request : Goes(p, r) /\ r.at = "idle" /\ r.fd = 0 /\ r.src = 0 /\ Placed(r)
      BY <1>0, <1>1, <2>1, DestroyedShape
    <3>2. IdsInv' /\ issued' \in Ids
      BY <1>1, <2>1, <3>1, IdsLeft DEF Renames
    <3>3. QED
      BY <1>0, <1>1, <3>1, <3>2, Uninformed, Unlinking
  <2>2. CASE req[p].for # "destroy"
    <3>1. p \in Renaming /\ issued + 1 \in Ids
      BY <1>0, <1>1, <2>2, RenamingPlace, NewId
    <3>2. PICK r \in Request :
            Goes(p, r) /\ issued' = issued + 1 /\ r.at = "script" /\ r.fd = 0 /\ r.src = 0 /\ Placed(r)
      BY <1>0, <1>1, <2>2, <3>1, RenamedShape
    <3>3. IdsInv' /\ issued' \in Ids
      BY <3>1, <3>2, IdsLeft DEF Renames
    <3>4. QED
      BY <1>0, <1>1, <3>2, <3>3, Uninformed, Unlinking
  <2>3. QED
    BY <2>1, <2>2
<1>2. CASE Becomes(p, [req[p] EXCEPT !.at = "access"]) /\ UNCHANGED <<dir, inode, issued>>
  <2>1. PICK r \in Request : r = [req[p] EXCEPT !.at = "access"]
    BY <1>0, SetField DEF Places
  <2>2. Goes(p, r)
    BY <1>2, <2>1 DEF Becomes, Goes
  <2>3. r.at = "access" /\ r.for = req[p].for /\ r.fd = 0 /\ r.src = 0 /\ r.id = req[p].id
    BY <1>0, <2>1 DEF Request
  <2>4. Placed(r)
    BY <1>0, <2>3, Sizes DEF Placed
  <2>5. IdsInv' /\ issued' \in Ids
    <3>1. ~ Renames(r) \/ p \in Renaming
      BY <1>0, <2>3, RenamingPlace DEF Renames
    <3>2. QED
      BY <1>2, <2>2, <3>1, IdsLeft
  <2>6. QED
    BY <1>0, <1>2, <2>2, <2>3, <2>4, <2>5, Uninformed, Quiet
<1>3. QED
  BY <1>0, <1>1, <1>2 DEF Unlink

LEMMA AccessInductive ==
    ASSUME IInv, NEW p \in Procs, Access(p)
    PROVE  IInv'
<1>0. /\ req[p] \in Request /\ Placed(req[p]) /\ req[p].at = "access"
      /\ req[p].fd = 0 /\ req[p].src = 0 /\ req[p].id # 0
      /\ req[p].for \in {"destroy", "regenerate"}
      /\ UNCHANGED <<dir, inode>>
  BY Known DEF Access, At, Placed
<1>1. CASE req[p].for = "destroy"
  <2>1. Destroyed(p, req[p]) /\ UNCHANGED issued
    BY <1>1 DEF Access
  <2>2. PICK r \in Request : Goes(p, r) /\ r.at = "idle" /\ r.fd = 0 /\ r.src = 0 /\ Placed(r)
    BY <1>0, <2>1, DestroyedShape
  <2>3. IdsInv' /\ issued' \in Ids
    BY <2>1, <2>2, IdsLeft DEF Renames
  <2>4. QED
    BY <1>0, <2>2, <2>3, Uninformed, Quiet
<1>2. CASE req[p].for # "destroy" /\ dir[req[p].id] # 0
  <2>1. PICK r \in Request : r = [req[p] EXCEPT !.at = "script"]
    BY <1>0, SetField DEF Places
  <2>2. Goes(p, r) /\ UNCHANGED issued
    BY <1>2, <2>1 DEF Access, Becomes, Goes
  <2>3. r.at = "script" /\ r.fd = 0 /\ r.src = 0 /\ r.id = req[p].id
    BY <1>0, <2>1 DEF Request
  <2>4. Placed(r)
    BY <1>0, <2>3 DEF Placed
  <2>5. IdsInv' /\ issued' \in Ids
    BY <2>2, <2>3, IdsLeft DEF Renames
  <2>6. QED
    BY <1>0, <2>2, <2>3, <2>4, <2>5, Uninformed, Quiet
<1>3. CASE req[p].for # "destroy" /\ dir[req[p].id] = 0
  <2>1. p \in Renaming /\ issued + 1 \in Ids /\ Renamed(p, req[p])
    BY <1>0, <1>3, RenamingPlace, NewId DEF Access
  <2>2. PICK r \in Request :
          Goes(p, r) /\ issued' = issued + 1 /\ r.at = "script" /\ r.fd = 0 /\ r.src = 0 /\ Placed(r)
    BY <1>0, <2>1, RenamedShape
  <2>3. IdsInv' /\ issued' \in Ids
    BY <2>1, <2>2, IdsLeft DEF Renames
  <2>4. QED
    BY <1>0, <2>2, <2>3, Uninformed, Quiet
<1>4. QED
  BY <1>1, <1>2, <1>3

\* What the script makes of the session is what it was, with its own entry.
LEMMA EditedShape ==
    ASSUME NEW p \in Procs, req[p] \in Request, NEW data \in Edited(p)
    PROVE  data \in Seq(Entries) /\ Elems(data) \subseteq Elems(req[p].vars) \cup {p}
<1>1. PICK v \in Seq(Entries) : v = req[p].vars
  BY DEF Request
<1>2. data \in {v, Append(v, p), <<>>}
  BY <1>1 DEF Edited
<1>3. CASE data = v
  BY <1>1, <1>3
<1>4. CASE data = Append(v, p)
  <2>1. p \in Entries
    BY DEF Entries
  <2>2. data \in Seq(Entries) /\ Len(data) = Len(v) + 1
        /\ \A k \in 1..Len(data) : data[k] = IF k <= Len(v) THEN v[k] ELSE p
    BY <1>4, <2>1
  <2>3. ASSUME NEW k \in 1..Len(data)
        PROVE  data[k] \in Elems(v) \cup {p}
    BY <2>2, <2>3 DEF Elems
  <2>4. QED
    BY <1>1, <2>2, <2>3 DEF Elems
<1>5. CASE data = <<>>
  BY <1>5 DEF Elems
<1>6. QED
  BY <1>2, <1>3, <1>4, <1>5

LEMMA SaveInductive ==
    ASSUME IInv, NEW p \in Procs, NEW ending \in BOOLEAN, Save(p, ending)
    PROVE  IInv'
<1>0. /\ req[p] \in Request /\ Placed(req[p]) /\ Informed(req[p], inode[req[p].fd])
      /\ req[p].at = "script" /\ req[p].id # 0 /\ req[p].src \in {0, req[p].fd}
      /\ UNCHANGED <<dir, issued>>
  BY Known DEF Save, At, Placed
<1>1. PICK w \in Request : w = [req[p] EXCEPT !.for = "write", !.ending = ending]
  BY <1>0, SetField
<1>2. PICK data \in Edited(p) :
        IF req[p].fd # 0 /\ req[p].key = req[p].id
        THEN /\ Becomes(p, [w EXCEPT !.at = "truncate", !.vars = data])
             /\ inode' = [inode EXCEPT ![req[p].fd].owners = @ \cup (Elems(data) \cap {p})]
        ELSE /\ Becomes(p, [w EXCEPT !.at = "open", !.vars = data, !.fd = 0, !.src = 0, !.saw = <<>>])
             /\ inode' = Closed(p)
  BY <1>1 DEF Save
<1>3. /\ w.id = req[p].id /\ w.fd = req[p].fd /\ w.for = "write" /\ w.src = req[p].src
      /\ w.size = req[p].size /\ w.saw = req[p].saw
  BY <1>0, <1>1 DEF Request
<1>4. data \in Seq(Entries) /\ Elems(data) \subseteq Elems(req[p].vars) \cup {p}
  BY <1>0, EditedShape
<1>5. CASE req[p].fd # 0 /\ req[p].key = req[p].id
  <2>1. PICK n \in Inodes : n = req[p].fd
    BY <1>0, <1>5, Known
  <2>2. inode[n] \in Inode /\ inode[n].lock = p
    BY <1>0, <1>5, <2>1, Known
  <2>3. PICK g \in Inode : g = [inode[n] EXCEPT !.owners = @ \cup (Elems(data) \cap {p})]
    <3>1. p \in Entries
      BY DEF Entries
    <3>2. inode[n].owners \cup (Elems(data) \cap {p}) \in SUBSET Entries
      BY <2>2, <3>1 DEF Inode
    <3>3. QED
      BY <2>2, <3>2 DEF Inode
  <2>4. PICK r \in Request : r = [w EXCEPT !.at = "truncate", !.vars = data]
    BY <1>4, SetField DEF Places
  <2>5. Goes(p, r) /\ inode' = [inode EXCEPT ![n] = g]
    BY <1>2, <1>5, <2>1, <2>3, <2>4 DEF Becomes, Goes
  <2>6. /\ r.at = "truncate" /\ r.fd = n /\ r.id = req[p].id /\ r.src = req[p].src
        /\ r.size = req[p].size /\ r.saw = req[p].saw /\ r.vars = data /\ r.for = "write"
    BY <1>3, <2>1, <2>4 DEF Request
  <2>7. /\ g.lock = p /\ g.data = inode[n].data /\ g.whole = inode[n].whole
        /\ g.torn = inode[n].torn /\ g.blind = inode[n].blind /\ g.owners = inode[n].owners \cup (Elems(data) \cap {p})
    BY <2>2, <2>3 DEF Inode
  <2>8. Placed(r)
    BY <1>0, <2>1, <2>6, Sizes DEF Placed
  <2>9. Informed(r, g)
    <3>1. CASE req[p].src = 0
      BY <3>1, <2>6, Uninformed
    <3>2. CASE req[p].src # 0
      <4>1. Reader(req[p])
        BY <1>0, <3>2 DEF Reader
      <4>2. /\ g.data = r.saw /\ r.size = Len(r.saw)
            /\ g.blind \/ Elems(req[p].vars) \subseteq inode[n].owners
        BY <1>0, <2>1, <2>6, <2>7, <4>1 DEF Informed
      <4>3. g.blind \/ Elems(data) \subseteq g.owners
        BY <1>4, <2>7, <4>2
      <4>4. QED
        BY <2>6, <4>2, <4>3 DEF Informed, Reader, Writer
    <3>3. QED
      BY <3>1, <3>2
  <2>10. IdsInv' /\ issued' \in Ids
    BY <1>0, <2>5, <2>6, IdsLeft DEF Renames
  <2>11. FileOK(g)
    <3>1. FileInv(n)
      BY DEF IInv
    <3>2. QED
      BY <2>7, <3>1 DEF FileInv, FileOK
  <2>12. QED
    BY <1>0, <2>1, <2>2, <2>5, <2>6, <2>7, <2>8, <2>9, <2>10, <2>11, OwnFile
<1>6. CASE ~ (req[p].fd # 0 /\ req[p].key = req[p].id)
  <2>1. PICK r \in Request :
            r = [w EXCEPT !.at = "open", !.vars = data, !.fd = 0, !.src = 0, !.saw = <<>>]
    <3>1. "open" \in Places /\ <<>> \in Seq(Entries)
      BY DEF Places
    <3>2. QED
      BY <1>4, <3>1, SetField
  <2>2. Goes(p, r) /\ inode' = Closed(p)
    BY <1>2, <1>6, <2>1 DEF Becomes, Goes
  <2>3. r.at = "open" /\ r.fd = 0 /\ r.src = 0 /\ r.for = "write" /\ r.id = req[p].id
    BY <1>3, <2>1 DEF Request
  <2>4. Placed(r)
    BY <1>0, <2>3 DEF Placed
  <2>5. IdsInv' /\ issued' \in Ids
    BY <1>0, <2>2, <2>3, IdsLeft DEF Renames
  <2>6. QED
    BY <1>0, <2>2, <2>3, <2>4, <2>5, Closing
<1>7. QED
  BY <1>5, <1>6

LEMMA TruncateInductive ==
    ASSUME IInv, NEW p \in Procs, Truncate(p)
    PROVE  IInv'
<1>0. /\ req[p] \in Request /\ Placed(req[p]) /\ Informed(req[p], inode[req[p].fd])
      /\ req[p].at = "truncate" /\ req[p].id # 0 /\ req[p].src \in {0, req[p].fd}
      /\ UNCHANGED <<dir, issued>>
  BY Known DEF Truncate, At, Placed
<1>1. PICK n \in Inodes : n = req[p].fd /\ inode[n] \in Inode /\ inode[n].lock = p
  BY <1>0, Known DEF Placed
<1>2. PICK v \in Seq(Entries) : v = req[p].vars
  BY <1>0 DEF Request
<1>3. req[p].size \in Nat /\ Len(v) \in Nat
  BY <1>0, <1>2 DEF Request
<1>4. PICK r \in Request : r = [req[p] EXCEPT !.at = "pwrite", !.saw = <<>>]
  <2>1. "pwrite" \in Places /\ <<>> \in Seq(Entries)
    BY DEF Places
  <2>2. QED
    BY <1>0, <2>1, SetField
<1>5. Goes(p, r)
  BY <1>4 DEF Truncate, Becomes, Goes
<1>6. r.at = "pwrite" /\ r.fd = n /\ r.id = req[p].id /\ r.src = req[p].src /\ r.vars = v
  BY <1>0, <1>1, <1>2, <1>4 DEF Request
<1>7. Placed(r)
  BY <1>0, <1>1, <1>6, Sizes DEF Placed
<1>8. IdsInv' /\ issued' \in Ids
  BY <1>0, <1>5, <1>6, IdsLeft DEF Renames
<1>9. Reader(req[p]) <=> Writer(r)
  BY <1>0, <1>6 DEF Reader, Writer
<1>10. /\ Writer(r) => inode[n].data = req[p].saw /\ req[p].size = Len(inode[n].data)
       /\ Writer(r) => inode[n].blind \/ Elems(v) \subseteq inode[n].owners
  BY <1>0, <1>1, <1>2, <1>9 DEF Informed
<1>11. FileInv(n)
  BY DEF IInv
<1>12. PICK g \in Inode :
          /\ inode' = [inode EXCEPT ![n] = g]
          /\ g.lock = p /\ g.blind = inode[n].blind /\ g.owners = inode[n].owners
          /\ \/ Len(v) < req[p].size /\ g.data = <<>> /\ g.whole = <<>>
             \/ ~ (Len(v) < req[p].size) /\ g = inode[n]
  <2>1. CASE Len(v) < req[p].size
    <3>1. PICK g \in Inode : g = [inode[n] EXCEPT !.data = <<>>, !.whole = <<>>, !.old = FALSE, !.torn = FALSE]
      <4>1. <<>> \in Seq(Entries)
        OBVIOUS
      <4>2. QED
        BY <1>1, <4>1 DEF Inode
    <3>2. inode' = [inode EXCEPT ![n] = g]
      BY <1>1, <1>2, <2>1, <3>1 DEF Truncate
    <3>3. /\ g.lock = p /\ g.blind = inode[n].blind /\ g.owners = inode[n].owners
          /\ g.data = <<>> /\ g.whole = <<>>
      BY <1>1, <3>1 DEF Inode
    <3>4. QED
      BY <2>1, <3>2, <3>3
  <2>2. CASE ~ (Len(v) < req[p].size)
    <3>1. inode' = inode
      BY <1>2, <2>2 DEF Truncate
    <3>2. inode \in [Inodes -> Inode]
      BY DEF IInv, Types
    <3>3. inode' = [inode EXCEPT ![n] = inode[n]]
      BY <3>1, <3>2
    <3>4. QED
      BY <1>1, <2>2, <3>3
  <2>3. QED
    BY <2>1, <2>2
<1>13. Informed(r, g)
  <2>1. Writer(r) => Len(g.data) <= Len(r.vars)
    <3>1. CASE Len(v) < req[p].size
      BY <1>3, <1>6, <1>12, <3>1
    <3>2. CASE ~ (Len(v) < req[p].size)
      BY <1>3, <1>6, <1>10, <1>12, <3>2
    <3>3. QED
      BY <3>1, <3>2
  <2>2. ~ Reader(r)
    BY <1>6 DEF Reader
  <2>3. QED
    BY <1>6, <1>10, <1>12, <2>1, <2>2 DEF Informed
<1>14. FileOK(g)
  <2>1. Elems(<<>>) = {}
    BY DEF Elems
  <2>2. <<>> \in Prefixes(<<>>)
    <3>1. <<>> \in Seq(Entries)
      OBVIOUS
    <3>2. QED
      BY <3>1, PrefixShape
  <2>3. QED
    BY <1>11, <1>12, <2>1, <2>2 DEF FileInv, FileOK
<1>15. QED
  BY <1>0, <1>1, <1>5, <1>6, <1>7, <1>8, <1>12, <1>13, <1>14, OwnFile

\* What pwrite leaves of a file: the data, where there is no more of it than the data,
\* and in any case no entry but those of the file and the data.
LEMMA OverwriteShape ==
    ASSUME NEW f \in Seq(Entries), NEW data \in Seq(Entries)
    PROVE  /\ Overwrite(f, data) \in Seq(Entries)
           /\ Len(f) <= Len(data) => Overwrite(f, data) = data
           /\ Elems(Overwrite(f, data)) \subseteq Elems(f) \cup Elems(data)
<1>1. Len(f) \in Nat /\ Len(data) \in Nat
  OBVIOUS
<1>2. PICK rest \in Seq(Entries) :
          /\ rest = SubSeq(f, Len(data) + 1, Len(f))
          /\ Len(f) <= Len(data) => Len(rest) = 0
          /\ Elems(rest) \subseteq Elems(f)
  <2>1. Len(data) + 1 \in Int /\ Len(f) \in Int
    BY <1>1
  <2>2. \A k \in (Len(data) + 1)..Len(f) : f[k] \in Entries
    BY <1>1
  <2>3. /\ SubSeq(f, Len(data) + 1, Len(f)) \in Seq(Entries)
        /\ Len(SubSeq(f, Len(data) + 1, Len(f)))
            = IF Len(data) + 1 <= Len(f) THEN Len(f) - (Len(data) + 1) + 1 ELSE 0
    BY <2>1, <2>2, SubSeqProperties, ZenonT(60)
  <2>4. Len(f) <= Len(data) => ~ (Len(data) + 1 <= Len(f))
    BY <1>1
  <2>5. PICK rest \in Seq(Entries) : rest = SubSeq(f, Len(data) + 1, Len(f))
    BY <2>3
  <2>6. \A k \in 1..Len(rest) : k + Len(data) \in 1..Len(f) /\ rest[k] = f[k + Len(data)]
    BY <1>1, <2>3, <2>5
  <2>7. Elems(rest) \subseteq Elems(f)
    BY <2>6 DEF Elems
  <2>8. QED
    BY <2>3, <2>4, <2>5, <2>7
<1>3. PICK all \in Seq(Entries) :
          /\ all = data \o rest
          /\ Len(rest) = 0 => all = data
          /\ Len(all) = Len(data) + Len(rest)
          /\ \A k \in 1..Len(all) : all[k] = IF k <= Len(data) THEN data[k] ELSE rest[k - Len(data)]
  <2>1. data \o rest \in Seq(Entries) /\ Len(rest) \in Nat
    OBVIOUS
  <2>2. Len(data \o rest) = Len(data) + Len(rest)
    OBVIOUS
  <2>3. \A k \in 1..(Len(data) + Len(rest)) :
            (data \o rest)[k] = IF k <= Len(data) THEN data[k] ELSE rest[k - Len(data)]
    OBVIOUS
  <2>4. Len(rest) = 0 => data \o rest = data
    OBVIOUS
  <2>5. QED
    BY <2>1, <2>2, <2>3, <2>4
<1>4. Elems(all) \subseteq Elems(data) \cup Elems(rest)
  <2>1. ASSUME NEW k \in 1..Len(all)
        PROVE  all[k] \in Elems(data) \cup Elems(rest)
    <3>1. CASE k <= Len(data)
      BY <1>1, <1>3, <3>1 DEF Elems
    <3>2. CASE ~ (k <= Len(data))
      <4>1. Len(rest) \in Nat
        OBVIOUS
      <4>2. k - Len(data) \in 1..Len(rest) /\ all[k] = rest[k - Len(data)]
        BY <1>1, <1>3, <3>2, <4>1
      <4>3. QED
        BY <4>2 DEF Elems
    <3>3. QED
      BY <3>1, <3>2
  <2>2. QED
    BY <2>1 DEF Elems
<1>5. QED
  BY <1>2, <1>3, <1>4 DEF Overwrite

\* A pwrite, of all the data or of the first of it.
LEMMA WriteInductive ==
    ASSUME IInv, NEW p \in Procs, At(p, "pwrite"), NEW part \in Prefixes(req[p].vars), Write(p, part)
    PROVE  IInv'
<1>0. /\ req[p] \in Request /\ Placed(req[p]) /\ Informed(req[p], inode[req[p].fd])
      /\ req[p].at = "pwrite" /\ req[p].id # 0 /\ req[p].src \in {0, req[p].fd}
      /\ UNCHANGED <<dir, issued>>
  BY Known DEF Write, At, Placed
<1>1. PICK n \in Inodes : n = req[p].fd /\ inode[n] \in Inode /\ inode[n].lock = p
  BY <1>0, Known DEF Placed
<1>2. PICK v \in Seq(Entries) : v = req[p].vars
  BY <1>0 DEF Request
<1>3. PICK f \in Seq(Entries) : f = inode[n].data
  BY <1>1 DEF Inode
<1>4. part \in Seq(Entries) /\ Elems(part) \subseteq Elems(v) /\ part \in Prefixes(v) /\ v \in Prefixes(v)
  BY <1>2, PrefixShape
<1>5. PICK over \in Seq(Entries) :
          /\ over = Overwrite(f, part)
          /\ Len(f) <= Len(part) => over = part
          /\ Elems(over) \subseteq Elems(f) \cup Elems(part)
  BY <1>4, OverwriteShape
<1>6. PICK torn \in BOOLEAN :
          torn = (\/ req[p].src # n \/ req[p].kept
                  \/ Len(part) < Len(f) /\ part # v)
  OBVIOUS
<1>7. PICK g \in Inode :
          g = [inode[n] EXCEPT !.data = over, !.whole = v, !.old = @ /\ part = <<>>,
                               !.torn = torn, !.blind = @ \/ req[p].src # n]
  <2>1. (inode[n].old /\ part = <<>>) \in BOOLEAN /\ (inode[n].blind \/ req[p].src # n) \in BOOLEAN
    OBVIOUS
  <2>2. QED
    BY <1>1, <2>1 DEF Inode
<1>8. inode' = [inode EXCEPT ![n] = g]
  <2>1. inode' = [inode EXCEPT ![n] =
                    [inode[n] EXCEPT !.data = Overwrite(@, part), !.whole = v,
                                     !.old = @ /\ part = <<>>,
                                     !.torn = \/ req[p].src # n \/ req[p].kept
                                              \/ Len(part) < Len(inode[n].data) /\ part # v,
                                     !.blind = @ \/ req[p].src # n]]
    BY <1>1, <1>2, Zenon DEF Write
  <2>2. Overwrite(inode[n].data, part) = over
    BY <1>3, <1>5, Zenon
  <2>3. (\/ req[p].src # n \/ req[p].kept
         \/ Len(part) < Len(inode[n].data) /\ part # v) = torn
    BY <1>3, <1>6, Zenon
  <2>4. QED
    BY <1>7, <2>1, <2>2, <2>3, Zenon
<1>9. /\ g.lock = p /\ g.data = over /\ g.whole = v /\ g.owners = inode[n].owners
      /\ g.torn = torn
      /\ ~ g.blind => ~ inode[n].blind /\ req[p].src = n
  BY <1>1, <1>7 DEF Inode
<1>10. PICK r \in Request : r = [req[p] EXCEPT !.at = "close", !.kept = FALSE]
  BY <1>0, SetField DEF Places
<1>11. Goes(p, r)
  BY <1>10 DEF Write, Becomes, Goes
<1>12. r.at = "close" /\ r.fd = n /\ r.id = req[p].id /\ r.src = req[p].src
  BY <1>0, <1>1, <1>10 DEF Request
<1>13. Placed(r) /\ Informed(r, g)
  BY <1>0, <1>1, <1>12 DEF Placed, Informed, Reader, Writer
<1>14. IdsInv' /\ issued' \in Ids
  BY <1>0, <1>11, <1>12, IdsLeft DEF Renames
<1>15. req[p].src = n => Writer(req[p])
  BY <1>0, Sizes DEF Writer
<1>16. ASSUME ~ g.torn
       PROVE  g.data \in Prefixes(g.whole)
  <2>1. req[p].src = n /\ ~ req[p].kept /\ ~ (Len(part) < Len(f) /\ part # v)
    BY <1>6, <1>9, <1>16
  <2>2. Len(f) <= Len(v)
    BY <1>0, <1>1, <1>2, <1>3, <1>15, <2>1 DEF Informed
  <2>3. Len(f) \in Nat /\ Len(part) \in Nat
    BY <1>4
  <2>4. over = part
    BY <1>5, <2>1, <2>2, <2>3
  <2>5. QED
    BY <1>4, <1>9, <2>4
<1>17. ASSUME ~ g.blind
       PROVE  Elems(g.data) \subseteq g.owners
  <2>1. Elems(v) \subseteq inode[n].owners
    BY <1>0, <1>1, <1>2, <1>9, <1>15, <1>17 DEF Informed
  <2>2. FileInv(n)
    BY DEF IInv
  <2>3. Elems(f) \subseteq inode[n].owners
    BY <1>3, <1>9, <1>17, <2>2 DEF FileInv, FileOK
  <2>4. QED
    BY <1>4, <1>5, <1>9, <2>1, <2>3
<1>18. FileOK(g)
  BY <1>16, <1>17 DEF FileOK
<1>19. QED
  BY <1>0, <1>1, <1>8, <1>9, <1>11, <1>12, <1>13, <1>14, <1>18, OwnFile

LEMMA PwriteInductive ==
    ASSUME IInv, NEW p \in Procs, Pwrite(p)
    PROVE  IInv'
<1>1. req[p].vars \in Seq(Entries)
  BY Known DEF Request
<1>2. req[p].vars \in Prefixes(req[p].vars)
  BY <1>1, PrefixShape
<1>3. QED
  BY <1>2, WriteInductive DEF Pwrite

LEMMA PwriteShortInductive ==
    ASSUME IInv, NEW p \in Procs, PwriteShort(p)
    PROVE  IInv'
BY WriteInductive DEF PwriteShort
-----------------------------------------------------------------------------
LEMMA OverShape == Over \in Request /\ Over.at = "ended" /\ Over.fd = 0 /\ Over.src = 0 /\ Placed(Over)
<1>1. NoRequest \in Request
  <2>1. <<>> \in Seq(Entries)
    OBVIOUS
  <2>2. QED
    BY <2>1 DEF NoRequest, Request, Places
<1>2. Over \in Request
  BY <1>1, SetField DEF Over, Places
<1>3. Over.at = "ended" /\ Over.fd = 0 /\ Over.src = 0
  BY DEF Over, NoRequest
<1>4. QED
  BY <1>2, <1>3 DEF Placed

LEMMA CloseInductive ==
    ASSUME IInv, NEW p \in Procs, Close(p)
    PROVE  IInv'
<1>0. req[p] \in Request /\ inode' = Closed(p) /\ UNCHANGED <<dir, issued>>
  BY Known DEF Close
<1>1. PICK r \in Request :
          Goes(p, r) /\ r.at \in {"idle", "ended"} /\ r.fd = 0 /\ r.src = 0
  <2>1. CASE req[p].ending
    BY <2>1, OverShape DEF Close, Becomes, Goes
  <2>2. CASE ~ req[p].ending
    <3>1. PICK r \in Request : r = [req[p] EXCEPT !.at = "idle", !.fd = 0, !.key = 0, !.size = 0,
                                                !.src = 0, !.saw = <<>>]
      <4>1. <<>> \in Seq(Entries) /\ "idle" \in Places /\ 0 \in Nat /\ 0 \in Ids \cup {0}
            /\ 0 \in Inodes \cup {0}
        BY DEF Places
      <4>2. PICK s \in Request : s = [req[p] EXCEPT !.at = "idle", !.fd = 0, !.key = 0]
        BY <1>0, <4>1, SetField
      <4>3. PICK r \in Request : r = [s EXCEPT !.size = 0, !.src = 0, !.saw = <<>>]
        BY <4>1, SetField
      <4>4. QED
        BY <4>2, <4>3
    <3>2. Goes(p, r)
      BY <2>2, <3>1 DEF Close, Becomes, Goes
    <3>3. r.at = "idle" /\ r.fd = 0 /\ r.src = 0
      BY <1>0, <3>1 DEF Request
    <3>4. QED
      BY <3>2, <3>3
  <2>3. QED
    BY <2>1, <2>2
<1>2. Placed(r)
  BY <1>1 DEF Placed
<1>3. IdsInv' /\ issued' \in Ids
  BY <1>0, <1>1, IdsLeft DEF Renames
<1>4. QED
  BY <1>0, <1>1, <1>2, <1>3, Closing

LEMMA EndInductive ==
    ASSUME IInv, NEW p \in Procs, End(p)
    PROVE  IInv'
<1>0. req[p] \in Request /\ req[p].fd = 0 /\ req[p].at = "idle"
  BY Known DEF End, At, Placed
<1>1. Goes(p, Over) /\ UNCHANGED <<dir, inode, issued>>
  BY DEF End, Becomes, Goes
<1>2. IdsInv' /\ issued' \in Ids
  BY <1>1, OverShape, IdsLeft DEF Renames
<1>3. QED
  BY <1>0, <1>1, <1>2, OverShape, Uninformed, Quiet

LEMMA CrashInductive ==
    ASSUME IInv, NEW p \in Procs, Crash(p)
    PROVE  IInv'
<1>1. Goes(p, Over) /\ inode' = Closed(p) /\ UNCHANGED <<dir, issued>>
  BY DEF Crash, Becomes, Goes
<1>2. IdsInv' /\ issued' \in Ids
  BY <1>1, OverShape, IdsLeft DEF Renames
<1>3. QED
  BY <1>1, <1>2, OverShape, Closing
-----------------------------------------------------------------------------
LEMMA InitInductive == Init => IInv
<1> SUFFICES ASSUME Init
             PROVE  IInv
  OBVIOUS
<1>1. /\ dir = [i \in Ids |-> IF i = 1 THEN 1 ELSE 0]
      /\ issued = 1
      /\ req = [p \in Procs |-> NoRequest]
  BY DEF Init
<1>2. inode = [n \in Inodes |->
                 IF n = 1 THEN [NoInode EXCEPT !.data = <<Old>>, !.whole = <<Old>>,
                                               !.old = TRUE, !.owners = {Old}]
                 ELSE NoInode]
  BY DEF Init
<1>3. PICK first \in Inode : first = [NoInode EXCEPT !.data = <<Old>>, !.whole = <<Old>>,
                                                   !.old = TRUE, !.owners = {Old}]
  <2>1. Old \in Entries
    BY DEF Entries
  <2>2. <<Old>> \in Seq(Entries) /\ {Old} \in SUBSET Entries
    BY <2>1
  <2>3. QED
    BY <2>2, FreshInode DEF Inode
<1>4. /\ first.lock = NoProc /\ first.data = <<Old>> /\ first.whole = <<Old>> /\ first.owners = {Old}
  BY <1>3 DEF NoInode
<1>5. /\ NoRequest \in Request /\ NoRequest.at = "absent" /\ NoRequest.fd = 0 /\ NoRequest.src = 0
      /\ Placed(NoRequest)
  <2>1. <<>> \in Seq(Entries)
    OBVIOUS
  <2>2. QED
    BY <2>1 DEF NoRequest, Request, Places, Placed
<1>6. \A n \in Inodes : inode[n] = first \/ inode[n] = NoInode
  BY <1>2, <1>3
<1>7. Types
  <2>1. inode \in [Inodes -> Inode]
    BY <1>2, <1>3, FreshInode
  <2>2. QED
    BY <1>1, <1>5, <2>1, Sizes DEF Types
<1>8. DirInv
  BY <1>1 DEF DirInv
<1>9. \A p \in Procs : req[p] = NoRequest
  BY <1>1
<1>10. LockInv
  BY <1>4, <1>5, <1>6, <1>9, FreshInode, Sizes DEF LockInv, Holding
<1>11. IdsInv
  <2>1. Renaming = {}
    BY <1>5, <1>9 DEF Renaming
  <2>2. QED
    BY <1>1, <2>1, FS_EmptySet, Sizes DEF IdsInv
<1>12. \A p \in Procs : RequestInv(p)
  BY <1>5, <1>9, Uninformed DEF RequestInv
<1>13. \A n \in Inodes : FileInv(n)
  <2>1. Elems(<<Old>>) \subseteq {Old}
    BY DEF Elems
  <2>2. <<Old>> \in Prefixes(<<Old>>)
    <3>1. <<Old>> \in Seq(Entries)
      BY DEF Entries
    <3>2. QED
      BY <3>1, PrefixShape
  <2>3. FileOK(first)
    BY <1>4, <2>1, <2>2 DEF FileOK
  <2>4. QED
    BY <1>6, <2>3, FreshInode DEF FileInv
<1>14. QED
  BY <1>7, <1>8, <1>10, <1>11, <1>12, <1>13 DEF IInv

LEMMA StutterInductive == IInv /\ UNCHANGED vars => IInv'
<1> SUFFICES ASSUME IInv, UNCHANGED vars
             PROVE  IInv'
  OBVIOUS
<1>1. dir' = dir /\ inode' = inode /\ issued' = issued /\ req' = req
  BY DEF vars
<1>2. Types' /\ DirInv'
  BY <1>1 DEF IInv, Types, DirInv
<1>3. LockInv' /\ IdsInv'
  BY <1>1 DEF IInv, LockInv, IdsInv, Holding, At, Renaming
<1>4. (\A p \in Procs : RequestInv(p)') /\ (\A n \in Inodes : FileInv(n)')
  BY <1>1 DEF IInv, RequestInv, FileInv
<1>5. QED
  BY <1>2, <1>3, <1>4 DEF IInv

LEMMA NextInductive == IInv /\ [Next]_vars => IInv'
<1> SUFFICES ASSUME IInv, [Next]_vars
             PROVE  IInv'
  OBVIOUS
<1>1. ASSUME NEW p \in Procs, Step(p)
      PROVE  IInv'
  <2>1. CASE Start(p) \/ Open(p) \/ OpenFails(p) \/ Lock(p) \/ Read(p) \/ ReadFails(p)
    BY <2>1, StartInductive, OpenInductive, OpenFailsInductive, LockInductive, ReadInductive,
       ReadFailsInductive
  <2>2. CASE GcStat(p) \/ GcUnlink(p) \/ GcDone(p)
    BY <2>2, GcStatInductive, GcUnlinkInductive, GcDoneInductive
  <2>3. CASE Destroy(p) \/ Unlink(p) \/ Access(p)
    BY <2>3, DestroyInductive, UnlinkInductive, AccessInductive
  <2>4. CASE \E i \in Ids : SetId(p, i)
    BY <2>4, SetIdInductive
  <2>5. CASE \E delete \in BOOLEAN : Regenerate(p, delete)
    BY <2>5, RegenerateInductive
  <2>6. CASE \E ending \in BOOLEAN : Save(p, ending) \/ SaveNothing(p, ending)
    BY <2>6, SaveInductive, SaveNothingInductive
  <2>7. CASE Truncate(p) \/ TruncateFails(p) \/ Close(p) \/ End(p)
    BY <2>7, TruncateInductive, TruncateFailsInductive, CloseInductive, EndInductive
  <2>8. CASE Pwrite(p) \/ PwriteShort(p) \/ PwriteFails(p)
    BY <2>8, PwriteInductive, PwriteShortInductive, PwriteFailsInductive
  <2>9. QED
    BY <1>1, <2>1, <2>2, <2>3, <2>4, <2>5, <2>6, <2>7, <2>8 DEF Step
<1>2. ASSUME NEW p \in Procs, Arrive(p) \/ Crash(p)
      PROVE  IInv'
  BY <1>2, ArriveInductive, CrashInductive
<1>3. CASE UNCHANGED vars
  BY <1>3, StutterInductive
<1>4. QED
  BY <1>1, <1>2, <1>3 DEF Next, Ended

\* Whatever the requests do, and whenever one is killed: what a request knows of its
\* file is so, and the files are what they are said to be.
THEOREM Invariance == Spec => []IInv
BY InitInductive, NextInductive, PTL DEF Spec
-----------------------------------------------------------------------------
\* A file has at most one name, and is locked by the request that has it open and
\* does not wait for it, and by nobody else.
THEOREM TypeCorrect == Spec => []TypeOK
<1>1. IInv => TypeOK
  BY DEF IInv, Types, DirInv, LockInv, TypeOK
<1>2. QED
  BY <1>1, Invariance, PTL

\* From the moment a request has read a session until it saves it nobody else
\* changes the file.
THEOREM SerialHolds == Spec => []Serial
<1>1. IInv => Serial
  BY DEF IInv, RequestInv, Informed, Reader, Serial
<1>2. QED
  BY <1>1, Invariance, PTL

\* A file holds what one s_write has written, or the beginning of it, and never the
\* end of something longer behind it, unless the last to write it had not learnt its
\* size, or his ftruncate failed, or his pwrite stopped before the end of what was there.
THEOREM WholeHolds == Spec => []Whole
<1>1. IInv => Whole
  BY DEF IInv, FileInv, FileOK, Whole
<1>2. QED
  BY <1>1, Invariance, PTL

\* A file that every request read before it wrote it contains nothing but what was put
\* into the session while it was in this file.
THEOREM OwnDataHolds == Spec => []OwnData
<1>1. IInv => OwnData
  BY DEF IInv, FileInv, FileOK, OwnData, Elems
<1>2. QED
  BY <1>1, Invariance, PTL
=============================================================================
