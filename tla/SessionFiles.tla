---------------------------- MODULE SessionFiles ----------------------------
(***************************************************************************)
(* Sessions kept in files: ext/session/session.c with the `files' handler,  *)
(* ext/session/mod_files.c.  Several requests, each a process of its own,   *)
(* start, save, destroy and rename sessions in one directory.  A step is a  *)
(* system call on the directory or on a file, or a call of the script that  *)
(* makes none; a process can be killed between any two of them.             *)
(*                                                                         *)
(* Session data is a sequence of entries, and an entry is named after the   *)
(* request that added it: how long the encoded data is, who has put what    *)
(* into it and what is left of an overwritten file all show in it.          *)
(***************************************************************************)
EXTENDS Integers, Sequences, FiniteSets

CONSTANTS
    Procs, NoProc,
    Old,        \* the entry of a session from before
    MaxIds,     \* bound: session ids, all of them ever made included
    MaxCalls,   \* bound: calls of session functions that each request makes
    Faulty      \* the system calls that may fail

SystemCalls == {"open", "fstat", "pread", "unlink", "ftruncate", "pwrite"}

ASSUME ConstantsAssumption ==
    /\ NoProc \notin Procs
    /\ Old \notin Procs
    /\ IsFiniteSet(Procs)
    /\ MaxIds \in Nat \ {0}
    /\ MaxCalls \in [Procs -> Nat]
    /\ Faulty \subseteq SystemCalls

Ids == 1..MaxIds
Inodes == 1..(MaxIds + Cardinality(Procs))
Entries == Procs \cup {Old}

VARIABLES
    dir,        \* the directory: the inode of an id's file, 0 if there is none
    inode,      \* the inodes
    issued,     \* how many ids s_create_sid has made
    req         \* PS(...) and the ps_files of each request, and where it is

vars == <<dir, inode, issued, req>>

\* `whole', `torn', `blind' and `owners' are history: what the last s_write that
\* wrote at all meant to write; whether it may have left the end of older data
\* behind; whether a request ever wrote the file that had not read it; and the
\* entries that were added to the session while it was in this file.
Inode == [data : Seq(Entries), old : BOOLEAN, lock : Procs \cup {NoProc},
          whole : Seq(Entries), torn : BOOLEAN, blind : BOOLEAN, owners : SUBSET Entries]
NoInode == [data |-> <<>>, old |-> FALSE, lock |-> NoProc,
            whole |-> <<>>, torn |-> FALSE, blind |-> FALSE, owners |-> {}]

\* `at' is where a request is, `for' what the system calls are part of, and
\* `ending' whether the script is over.  `src', `saw' and `kept' are history: the
\* inode whose size s_read knows, and what was in it; and whether the ftruncate of
\* this s_write failed.
Places == {"absent", "idle", "open", "lock", "read", "gc", "unlinkOld", "script", "unlink",
           "access", "truncate", "pwrite", "close", "ended"}
Request == [at : Places, for : {"read", "write", "destroy", "regenerate"}, ending : BOOLEAN,
            cookie : Ids \cup {0}, id : Ids \cup {0}, vars : Seq(Entries),
            fd : Inodes \cup {0}, key : Ids \cup {0}, size : Nat, target : Ids \cup {0},
            calls : Nat, src : Inodes \cup {0}, saw : Seq(Entries), kept : BOOLEAN]
NoRequest == [at |-> "absent", for |-> "read", ending |-> FALSE, cookie |-> 0, id |-> 0,
              vars |-> <<>>, fd |-> 0, key |-> 0, size |-> 0, target |-> 0, calls |-> 0,
              src |-> 0, saw |-> <<>>, kept |-> FALSE]
Over == [NoRequest EXCEPT !.at = "ended"]

\* There is one session from before, so old that the collector takes it if it ever
\* runs; no request lasts so long that a file becomes that old meanwhile.
Init ==
    /\ dir = [i \in Ids |-> IF i = 1 THEN 1 ELSE 0]
    /\ inode = [n \in Inodes |->
                  IF n = 1 THEN [NoInode EXCEPT !.data = <<Old>>, !.whole = <<Old>>,
                                                !.old = TRUE, !.owners = {Old}]
                  ELSE NoInode]
    /\ issued = 1
    /\ req = [p \in Procs |-> NoRequest]
-----------------------------------------------------------------------------
Elems(s) == {s[k] : k \in DOMAIN s}
Prefixes(s) == {SubSeq(s, 1, k) : k \in 0..Len(s)}
Linked(n) == \E i \in Ids : dir[i] = n
OpenBy(n) == {p \in Procs : req[p].fd = n}
Free == {n \in Inodes : ~ Linked(n) /\ OpenBy(n) = {}}

At(p, place) == req[p].at = place
Becomes(p, r) == req' = [req EXCEPT ![p] = r]

\* close(fd): flock gives way, and a file without a name is gone.
Closed(p) ==
    LET n == req[p].fd IN
    [m \in Inodes |->
        IF m # n THEN inode[m]
        ELSE IF ~ Linked(n) /\ OpenBy(n) = {p} THEN NoInode
        ELSE [inode[n] EXCEPT !.lock = IF @ = p THEN NoProc ELSE @]]

\* unlink(path of id i).
Unlinked(i) ==
    [m \in Inodes |-> IF m = dir[i] /\ OpenBy(m) = {} THEN NoInode ELSE inode[m]]

\* A script calls one of the session functions.
Call(p) == req[p].calls < MaxCalls[p]
Called(p) == [req[p] EXCEPT !.calls = @ + 1]

\* Bound: is there an id left, apart from those for sessions being renamed?
MoreIds == issued + Cardinality({p \in Procs : /\ req[p].at \in {"unlink", "access"}
                                               /\ req[p].for = "regenerate"}) < MaxIds

\* The client knows any id that was ever sent to it, or none.
Arrive(p) ==
    /\ At(p, "absent")
    /\ \E c \in 0..issued : Becomes(p, [req[p] EXCEPT !.at = "idle", !.cookie = c])
    /\ UNCHANGED <<dir, inode, issued>>

\* Mutant: php_session_track_init does not start with an empty array.
MutStartKeepsVars(p) ==
    LET r == [Called(p) EXCEPT !.at = "open", !.for = "read"] IN
    /\ At(p, "idle") /\ Call(p)
    /\ \/ req[p].id # 0 /\ Becomes(p, r) /\ UNCHANGED issued
       \/ req[p].id = 0 /\ req[p].cookie # 0
          /\ Becomes(p, [r EXCEPT !.id = r.cookie]) /\ UNCHANGED issued
       \/ req[p].id = 0 /\ req[p].cookie = 0 /\ MoreIds
          /\ Becomes(p, [r EXCEPT !.id = issued + 1]) /\ issued' = issued + 1
    /\ UNCHANGED <<dir, inode>>

\* session_start, until it opens the file.  The id of an earlier session of the
\* request goes before the cookie; without either a new id is made.
Start(p) ==
    LET r == [Called(p) EXCEPT !.at = "open", !.for = "read", !.vars = <<>>] IN
    /\ At(p, "idle") /\ Call(p)
    /\ \/ req[p].id # 0 /\ Becomes(p, r) /\ UNCHANGED issued
       \/ req[p].id = 0 /\ req[p].cookie # 0
          /\ Becomes(p, [r EXCEPT !.id = r.cookie]) /\ UNCHANGED issued
       \/ req[p].id = 0 /\ req[p].cookie = 0 /\ MoreIds
          /\ Becomes(p, [r EXCEPT !.id = issued + 1]) /\ issued' = issued + 1
    /\ UNCHANGED <<dir, inode>>

Expired(n) == Linked(n) /\ inode[n].old

\* session_start may run s_gc once it has read the session.  Where there is
\* nothing to collect s_gc changes nothing and is left out.
Started == IF \E n \in Inodes : Expired(n) THEN {"script", "gc"} ELSE {"script"}

\* ps_files_open: open(O_CREAT).  If it fails s_read or s_write returns FAILURE:
\* the session starts empty nevertheless, or its data is not saved.
Open(p) ==
    LET i == req[p].id
        n == IF dir[i] # 0 THEN dir[i] ELSE CHOOSE f \in Free : \A g \in Free : f <= g IN
    /\ At(p, "open")
    /\ dir' = [dir EXCEPT ![i] = n]
    /\ Becomes(p, [req[p] EXCEPT !.at = "lock", !.fd = n, !.key = i])
    /\ UNCHANGED <<inode, issued>>

OpenFails(p) ==
    /\ At(p, "open") /\ "open" \in Faulty
    /\ \E next \in IF req[p].for = "read" THEN Started ELSE {"close"} :
        Becomes(p, [req[p] EXCEPT !.at = next, !.key = req[p].id])
    /\ UNCHANGED <<dir, inode, issued>>

\* Mutant: the lock is shared.
MutLockShared(p) ==
    /\ At(p, "lock")
    /\ inode' = [inode EXCEPT ![req[p].fd].lock = p]
    /\ Becomes(p, [req[p] EXCEPT !.at = IF req[p].for = "read" THEN "read" ELSE "truncate"])
    /\ UNCHANGED <<dir, issued>>

\* flock(LOCK_EX).
Lock(p) ==
    /\ At(p, "lock")
    /\ inode[req[p].fd].lock = NoProc
    /\ inode' = [inode EXCEPT ![req[p].fd].lock = p]
    /\ Becomes(p, [req[p] EXCEPT !.at = IF req[p].for = "read" THEN "read" ELSE "truncate"])
    /\ UNCHANGED <<dir, issued>>

\* What decode makes of a file's data.  Only data of one write is known to be
\* decodable; of other data it may get no further than some entry.  The call of
\* php_session_destroy does nothing then: the session is not active yet.
Decodings(f) == IF f.data = f.whole THEN {f.data} ELSE Prefixes(f.data)

\* s_read: fstat and pread; then decode.
Read(p) ==
    LET f == inode[req[p].fd] IN
    /\ At(p, "read")
    /\ \E d \in Decodings(f), next \in Started :
        Becomes(p, [req[p] EXCEPT !.at = next, !.size = Len(f.data), !.vars = @ \o d,
                                  !.src = req[p].fd, !.saw = f.data])
    /\ UNCHANGED <<dir, inode, issued>>

\* s_read returns FAILURE: the session starts empty, with the file open and locked.
\* st_size is not known where fstat fails; it is where pread fails or reads less
\* than that, which is not tried on an empty file.
ReadFails(p) ==
    LET f == inode[req[p].fd] IN
    /\ At(p, "read")
    /\ \E next \in Started :
        \/ /\ "fstat" \in Faulty
           /\ Becomes(p, [req[p] EXCEPT !.at = next])
        \/ /\ "pread" \in Faulty /\ f.data # <<>>
           /\ Becomes(p, [req[p] EXCEPT !.at = next, !.size = Len(f.data),
                                         !.src = req[p].fd, !.saw = f.data])
    /\ UNCHANGED <<dir, inode, issued>>

\* ps_files_cleanup_dir: stat finds an old file, and unlink then removes
\* whatever has that name.
GcStat(p) ==
    /\ At(p, "gc")
    /\ \E i \in Ids : /\ dir[i] # 0 /\ Expired(dir[i])
                      /\ Becomes(p, [req[p] EXCEPT !.at = "unlinkOld", !.target = i])
    /\ UNCHANGED <<dir, inode, issued>>

GcUnlink(p) ==
    /\ At(p, "unlinkOld")
    /\ inode' = Unlinked(req[p].target)
    /\ dir' = [dir EXCEPT ![req[p].target] = 0]
    /\ Becomes(p, [req[p] EXCEPT !.at = "gc", !.target = 0])
    /\ UNCHANGED issued

GcDone(p) ==
    /\ At(p, "gc")
    /\ Becomes(p, [req[p] EXCEPT !.at = "script"])
    /\ UNCHANGED <<dir, inode, issued>>
-----------------------------------------------------------------------------
\* What the script does while the session is active.

\* session_id(i), which needs no active session.
SetId(p, i) ==
    /\ At(p, "script") \/ At(p, "idle")
    /\ Call(p) /\ i <= issued /\ i # req[p].id
    /\ Becomes(p, [Called(p) EXCEPT !.id = i])
    /\ UNCHANGED <<dir, inode, issued>>

\* s_destroy closes the file before it unlinks it.
BeginDestroy(p, for) ==
    /\ Becomes(p, [Called(p) EXCEPT !.at = "unlink", !.for = for, !.fd = 0, !.src = 0, !.saw = <<>>])
    /\ inode' = Closed(p)

\* After s_destroy: session_destroy starts over whatever s_destroy says;
\* session_regenerate_id makes a new id if it succeeded.
Destroyed(p, r) ==
    Becomes(p, [r EXCEPT !.at = "idle", !.id = 0, !.vars = <<>>, !.key = 0, !.size = 0,
                         !.src = 0, !.saw = <<>>])
Renamed(p, r) ==
    /\ issued' = issued + 1
    /\ Becomes(p, [r EXCEPT !.at = "script", !.for = "read", !.id = issued + 1])

Destroy(p) ==
    /\ At(p, "script") /\ Call(p)
    /\ IF req[p].fd # 0 THEN BeginDestroy(p, "destroy")
       ELSE Destroyed(p, Called(p)) /\ UNCHANGED inode
    /\ UNCHANGED <<dir, issued>>

Regenerate(p, delete) ==
    /\ At(p, "script") /\ Call(p) /\ MoreIds
    /\ IF delete /\ req[p].fd # 0 THEN BeginDestroy(p, "regenerate") /\ UNCHANGED issued
       ELSE Renamed(p, Called(p)) /\ UNCHANGED inode
    /\ UNCHANGED dir

Unlink(p) ==
    /\ At(p, "unlink")
    /\ \/ /\ dir[req[p].id] # 0
          /\ inode' = Unlinked(req[p].id)
          /\ dir' = [dir EXCEPT ![req[p].id] = 0]
          /\ IF req[p].for = "destroy" THEN Destroyed(p, req[p]) /\ UNCHANGED issued
             ELSE Renamed(p, req[p])
       \/ /\ dir[req[p].id] = 0 \/ "unlink" \in Faulty
          /\ Becomes(p, [req[p] EXCEPT !.at = "access"])
          /\ UNCHANGED <<dir, inode, issued>>

\* Was there no file, or could it not be removed?
Access(p) ==
    /\ At(p, "access")
    /\ IF req[p].for = "destroy" THEN Destroyed(p, req[p]) /\ UNCHANGED issued
       ELSE IF dir[req[p].id] # 0
            THEN Becomes(p, [req[p] EXCEPT !.at = "script"]) /\ UNCHANGED issued
            ELSE Renamed(p, req[p])
    /\ UNCHANGED <<dir, inode>>
-----------------------------------------------------------------------------
\* php_session_flush: session_write_close, or the end of the request.

\* What the script has made of $_SESSION by then, and <<>> where the encoder
\* gives up: s_write is called with "" in that case.
Edited(p) == {IF p \in Elems(req[p].vars) THEN req[p].vars ELSE Append(req[p].vars, p), <<>>}

\* Mutant: the file of the old id is not closed.
MutSaveKeepsFile(p, ending) ==
    LET r == [req[p] EXCEPT !.for = "write", !.ending = ending] IN
    /\ At(p, "script")
    /\ \E data \in Edited(p) :
        IF req[p].fd # 0 /\ req[p].key = req[p].id
        THEN /\ Becomes(p, [r EXCEPT !.at = "truncate", !.vars = data])
             /\ inode' = [inode EXCEPT ![req[p].fd].owners = @ \cup (Elems(data) \cap {p})]
        ELSE /\ Becomes(p, [r EXCEPT !.at = "open", !.vars = data, !.fd = 0, !.src = 0, !.saw = <<>>])
             /\ UNCHANGED inode
    /\ UNCHANGED <<dir, issued>>

\* s_write goes on with the open file if it is the id's file, and opens one
\* otherwise, having closed the other first.
Save(p, ending) ==
    LET r == [req[p] EXCEPT !.for = "write", !.ending = ending] IN
    /\ At(p, "script")
    /\ \E data \in Edited(p) :
        IF req[p].fd # 0 /\ req[p].key = req[p].id
        THEN /\ Becomes(p, [r EXCEPT !.at = "truncate", !.vars = data])
             /\ inode' = [inode EXCEPT ![req[p].fd].owners = @ \cup (Elems(data) \cap {p})]
        ELSE /\ Becomes(p, [r EXCEPT !.at = "open", !.vars = data, !.fd = 0, !.src = 0, !.saw = <<>>])
             /\ inode' = Closed(p)
    /\ UNCHANGED <<dir, issued>>

\* $_SESSION is no array any more, or a bailout leaves the encoder at the end of
\* the request: the file is closed as it is.
SaveNothing(p, ending) ==
    /\ At(p, "script")
    /\ Becomes(p, [req[p] EXCEPT !.at = "close", !.ending = ending])
    /\ UNCHANGED <<dir, inode, issued>>

\* Mutant: the comparison is the wrong way round.
MutTruncateGrowing(p) ==
    /\ At(p, "truncate")
    /\ Becomes(p, [req[p] EXCEPT !.at = "pwrite", !.saw = <<>>])
    /\ inode' = IF Len(req[p].vars) > req[p].size
                THEN [inode EXCEPT ![req[p].fd] = [@ EXCEPT !.data = <<>>, !.whole = <<>>, !.old = FALSE,
                                                        !.torn = FALSE]]
                ELSE inode
    /\ UNCHANGED <<dir, issued>>

\* `if (vallen < (int)data->st_size) ftruncate(data->fd, 0)'.
Truncate(p) ==
    /\ At(p, "truncate")
    /\ Becomes(p, [req[p] EXCEPT !.at = "pwrite", !.saw = <<>>])
    /\ inode' = IF Len(req[p].vars) < req[p].size
                THEN [inode EXCEPT ![req[p].fd] = [@ EXCEPT !.data = <<>>, !.whole = <<>>, !.old = FALSE,
                                                        !.torn = FALSE]]
                ELSE inode
    /\ UNCHANGED <<dir, issued>>

\* Nobody looks at what ftruncate returns.
TruncateFails(p) ==
    /\ At(p, "truncate") /\ "ftruncate" \in Faulty
    /\ Len(req[p].vars) < req[p].size
    /\ Becomes(p, [req[p] EXCEPT !.at = "pwrite", !.saw = <<>>, !.kept = TRUE])
    /\ UNCHANGED <<dir, inode, issued>>

\* pwrite at offset 0 replaces as much as it writes.
Overwrite(f, data) == data \o SubSeq(f, Len(data) + 1, Len(f))

\* s_write: `part' of the data is written, over whatever is in the file.
Write(p, part) ==
    LET n == req[p].fd
        over == Len(part) < Len(inode[n].data) IN
    /\ inode' = [inode EXCEPT ![n] =
                    [inode[n] EXCEPT !.data = Overwrite(@, part), !.whole = req[p].vars,
                                     !.old = @ /\ part = <<>>,
                                     !.torn = \/ req[p].src # n \/ req[p].kept
                                              \/ over /\ part # req[p].vars,
                                     !.blind = @ \/ req[p].src # n]]
    /\ Becomes(p, [req[p] EXCEPT !.at = "close", !.kept = FALSE])
    /\ UNCHANGED <<dir, issued>>

Pwrite(p) == At(p, "pwrite") /\ Write(p, req[p].vars)

\* pwrite `wrote less bytes than requested': those it wrote stay.
PwriteShort(p) ==
    /\ At(p, "pwrite") /\ "pwrite" \in Faulty
    /\ \E part \in Prefixes(req[p].vars) \ {<<>>, req[p].vars} : Write(p, part)

PwriteFails(p) ==
    /\ At(p, "pwrite") /\ "pwrite" \in Faulty
    /\ Becomes(p, [req[p] EXCEPT !.at = "close", !.kept = FALSE])
    /\ UNCHANGED <<dir, inode, issued>>

\* Mutant: the file is not closed.
MutCloseKeepsLock(p) ==
    /\ At(p, "close")
    /\ inode' = inode
    /\ Becomes(p, IF req[p].ending THEN Over
                  ELSE [req[p] EXCEPT !.at = "idle", !.fd = 0, !.key = 0, !.size = 0,
                                      !.src = 0, !.saw = <<>>])
    /\ UNCHANGED <<dir, issued>>

\* s_close.
Close(p) ==
    /\ At(p, "close")
    /\ inode' = Closed(p)
    /\ Becomes(p, IF req[p].ending THEN Over
                  ELSE [req[p] EXCEPT !.at = "idle", !.fd = 0, !.key = 0, !.size = 0,
                                      !.src = 0, !.saw = <<>>])
    /\ UNCHANGED <<dir, issued>>

\* The request ends without an active session.
End(p) ==
    /\ At(p, "idle")
    /\ Becomes(p, Over)
    /\ UNCHANGED <<dir, inode, issued>>

\* The process is killed.
Crash(p) ==
    /\ ~ At(p, "absent") /\ ~ At(p, "ended")
    /\ inode' = Closed(p)
    /\ Becomes(p, Over)
    /\ UNCHANGED <<dir, issued>>

Step(p) ==
    \/ Start(p) \/ Open(p) \/ OpenFails(p) \/ Lock(p) \/ Read(p) \/ ReadFails(p)
    \/ GcStat(p) \/ GcUnlink(p) \/ GcDone(p)
    \/ Destroy(p) \/ Unlink(p) \/ Access(p)
    \/ \E i \in Ids : SetId(p, i)
    \/ \E delete \in BOOLEAN : Regenerate(p, delete)
    \/ \E ending \in BOOLEAN : Save(p, ending) \/ SaveNothing(p, ending)
    \/ Truncate(p) \/ TruncateFails(p)
    \/ Pwrite(p) \/ PwriteShort(p) \/ PwriteFails(p) \/ Close(p) \/ End(p)

Ended == (\A p \in Procs : At(p, "ended")) /\ UNCHANGED vars

Next == (\E p \in Procs : Arrive(p) \/ Step(p) \/ Crash(p)) \/ Ended

\* Scripts end, and a process that can go on does.
Spec == Init /\ [][Next]_vars
FairSpec == Spec /\ \A p \in Procs : WF_vars(Step(p))
-----------------------------------------------------------------------------
Holding(p) == req[p].fd # 0 /\ ~ At(p, "lock")

TypeOK ==
    /\ dir \in [Ids -> Inodes \cup {0}]
    /\ inode \in [Inodes -> Inode]
    /\ issued \in Ids
    /\ req \in [Procs -> Request]
    /\ \A i, j \in Ids : dir[i] = dir[j] /\ dir[i] # 0 => i = j
    /\ \A n \in Inodes, p \in Procs : inode[n].lock = p <=> Holding(p) /\ req[p].fd = n

\* From the moment a request has read a session until it saves it nobody else
\* changes the file: no update is lost between two requests that share it.
Serial ==
    \A p \in Procs :
        req[p].src # 0 /\ req[p].src = req[p].fd
            /\ req[p].at \in {"gc", "unlinkOld", "script", "truncate"}
        => inode[req[p].fd].data = req[p].saw

\* A file holds what one s_write has written or, where that s_write was cut short,
\* the beginning of it, and never the end of something longer behind it.  Three
\* s_writes may leave such a mixture: of a request that had not learnt the size of
\* the file, one whose ftruncate failed, and one whose pwrite stopped before the end
\* of what was there.  The next s_write that is none of these makes the file whole.
Whole == \A n \in Inodes : ~ inode[n].torn => inode[n].data \in Prefixes(inode[n].whole)

\* A session contains nothing but what was put there while it was in this file:
\* nothing of the session that was destroyed under the same id, and nothing of
\* another session of the same request.
OwnData ==
    \A n \in Inodes : ~ inode[n].blind =>
        \A k \in DOMAIN inode[n].data : inode[n].data[k] \in inode[n].owners

\* No request waits for ever, whatever files the others lock, remove and create
\* while it waits: nobody waits for a lock while he has one.
Served == <>[](\A p \in Procs : At(p, "absent") \/ At(p, "ended"))

\* mod_files.c: `Truncate file if the amount of new data is smaller than the
\* existing data set.'
NeverMixed == \A n \in Inodes : inode[n].data = inode[n].whole
=============================================================================
