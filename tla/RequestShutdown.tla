-------------------------- MODULE RequestShutdown --------------------------
(***************************************************************************)
(* A request and its end: php_request_shutdown of main/main.c, whose steps  *)
(* each run under a zend_try of their own, because most of them call script *)
(* code - shutdown functions, destructors, output handlers, user session    *)
(* handlers - and script code may exit or hit a fatal error, which is a     *)
(* longjmp to the innermost zend_try.                                       *)
(*                                                                         *)
(* With it, what the steps work on: the output buffers (OutputBuffers), the *)
(* global symbol table with its objects, the list of resources              *)
(* (zend_list.c), the shutdown functions and an INI entry.                  *)
(***************************************************************************)
EXTENDS OutputBuffers, Integers, FiniteSets

CONSTANTS
    Vars,       \* global variables
    MaxRsrc,    \* bound: resources
    MaxLevels,  \* bound: nested output buffers
    MaxSteps    \* bound: statements, those of the callbacks included

ASSUME BoundsAssumption == {MaxRsrc, MaxLevels, MaxSteps} \subseteq Nat

Rsrcs == 1..MaxRsrc

VARIABLES
    phase,      \* the step of php_request_shutdown, or "script"
    stack,      \* the C stack above it, innermost frame first
    steps,
    table,      \* EG(symbol_table): a sequence of buckets
    walk,       \* shutdown_destructors: the next bucket, how many there were at first, and
                \* the `steps' at which its walk over the objects began
    regular,    \* EG(regular_list)
    opened,     \* nNextFreeElement - 1 of that list
    functions,  \* user_shutdown_function_names: how many are still to be called
    ini,        \* has an INI entry its original value?
    destroyed,  \* history: how often the destructor of a resource ran
    closed,     \* history: resources whose reference was given up while still in use
    flushCut,   \* history: did step 3 bail out?
    beyond      \* history: why nothing is said about the program from here on

resources == <<regular, opened, destroyed, closed>>
ghosts == <<flushCut, beyond>>
vars == <<obs, ob_lock, client, printed, gone, phase, stack, steps, table, walk, regular, opened,
          functions, ini, destroyed, closed, flushCut, beyond>>

\* A frame of script code, of a handler with the arguments of php_end_ob_buffer and
\* the text it was given, or of a resource's destructor with the resource it deletes.
Frame(label) == [at |-> label, send |-> FALSE, just |-> FALSE, given |-> <<>>, uses |-> 0]
HandlerFrame(send, just) ==
    [Frame("handler") EXCEPT !.send = send, !.just = just, !.given = Active.text]
DtorFrame(r) == [Frame("dtor") EXCEPT !.uses = r.uses]

Init ==
    /\ OutputInit
    /\ phase = "script"
    /\ stack = <<>>
    /\ steps = 0
    /\ table = <<>>
    /\ walk = [next |-> 0, symbols |-> 0, since |-> 0]
    /\ regular = <<>>
    /\ opened = 0
    /\ functions = 0
    /\ ini = "original"
    /\ destroyed = [id \in Rsrcs |-> 0]
    /\ closed = {}
    /\ flushCut = FALSE
    /\ beyond = "no"
-----------------------------------------------------------------------------
Bodies == {"function", "destructor", "handler", "rshutdown"}

Top == stack[1]
Quiet == stack = <<>> /\ beyond = "no"
At(label) == stack # <<>> /\ beyond = "no" /\ Top.at = label
Push(f) == stack' = <<f>> \o stack
Return == stack' = Tail(stack)
InHandler == \E k \in DOMAIN stack : stack[k].at = "handler"

Bucket(v) == CHOOSE b \in ToSet(table) : b.var = v
Defined == {b.var : b \in ToSet(table)}
Without(s, x) == RemoveAt(s, CHOOSE k \in DOMAIN s : s[k] = x)
Marked(s) == [k \in DOMAIN s |-> IF s[k].kind = "object" THEN [s[k] EXCEPT !.kind = "spent"] ELSE s[k]]
LastBucket(s) == IF s = <<>> THEN 0 ELSE Last(s).id

\* The buffers are flushed before the destructors run.
MutAfterFlushEarly(p) ==
            CASE p = "script"      -> "functions"
              [] p = "functions"   -> "flush"
              [] p = "flush"       -> "destructors"
              [] p = "destructors" -> "objects"
              [] p = "objects"     -> "modules"
              [] p = "modules"     -> "symbols"
              [] p = "symbols"     -> "resources"
              [] p = "resources"   -> "ini"
              [] p = "ini"         -> "over"

\* The steps, in the order of php_request_shutdown.
After(p) == CASE p = "script"      -> "functions"
              [] p = "functions"   -> "destructors"
              [] p = "destructors" -> "objects"
              [] p = "objects"     -> "flush"
              [] p = "flush"       -> "modules"
              [] p = "modules"     -> "symbols"
              [] p = "symbols"     -> "resources"
              [] p = "resources"   -> "ini"
              [] p = "ini"         -> "over"

\* What is done on the way into a step: shutdown_destructors starts at the tail of
\* the symbol table; php_free_shutdown_functions comes after steps 1 and 5.
Enter(p) ==
    /\ phase' = p
    /\ walk' = [next |-> IF p = "destructors" THEN LastBucket(table) ELSE 0,
                symbols |-> IF p = "destructors" THEN Len(table) ELSE 0,
                since |-> IF p = "objects" THEN LastBucket(table) ELSE 0]
    /\ functions' = IF p \in {"destructors", "symbols"} THEN 0 ELSE functions

Advance == /\ Enter(After(phase))
           /\ UNCHANGED <<output, stack, steps, table, resources, ini, ghosts>>

\* zend_bailout: to the zend_try of the step, and on to the next one.  The list of
\* resources is destroyed outside any zend_try: a bailout there leaves
\* php_request_shutdown for its caller.  A shutdown_destructors that does not get to
\* its end marks all objects as destructed.
Bail == /\ stack' = <<>>
        /\ Enter(IF phase = "resources" THEN "aborted"
                 ELSE IF phase = "destructors" THEN "flush"
                 ELSE After(phase))
        /\ flushCut' = (flushCut \/ phase = "flush")
        /\ UNCHANGED beyond
-----------------------------------------------------------------------------
\* The list of resources: what _zend_list_delete does with id, and with `rest' as
\* the stack below the destructor it may call.  The entry is unlinked before that.
Linked == {r.id : r \in ToSet(regular)}
Entry(id) == CHOOSE r \in ToSet(regular) : r.id = id

Destroy(r, rest) ==
    /\ regular' = Without(regular, r)
    /\ destroyed' = [destroyed EXCEPT ![r.id] = @ + 1]
    /\ stack' = <<DtorFrame(r)>> \o rest

Delete(id, rest) ==
    IF id \notin Linked
    THEN stack' = rest /\ UNCHANGED <<regular, destroyed>>
    ELSE LET r == Entry(id) IN
         IF r.ref > 1
         THEN /\ regular' = [k \in DOMAIN regular |->
                                IF regular[k] = r THEN [r EXCEPT !.ref = @ - 1] ELSE regular[k]]
              /\ stack' = rest
              /\ UNCHANGED destroyed
         ELSE Destroy(r, rest)

\* The value of a bucket that was unlinked from the symbol table is destroyed.
Kill(b, rest) ==
    CASE b.kind = "object"   -> /\ stack' = <<Frame("destructor")>> \o rest
                                /\ UNCHANGED <<regular, destroyed>>
      [] b.kind = "spent"    -> stack' = rest /\ UNCHANGED <<regular, destroyed>>
      [] b.kind = "resource" -> Delete(b.rsrc, rest)

\* A resource's destructor deletes the resource it uses, if any, and returns.
DtorReturns ==
    /\ At("dtor")
    /\ Delete(Top.uses, Tail(stack))
    /\ UNCHANGED <<output, phase, steps, table, walk, opened, functions, ini, closed, ghosts>>
-----------------------------------------------------------------------------
\* The statements of a script.
InScript == \/ Quiet /\ phase = "script"
            \/ \E label \in Bodies : At(label)
Statement == InScript /\ steps < MaxSteps /\ steps' = steps + 1

flow == <<phase, stack, walk>>

Echo ==
    /\ Statement
    /\ WriteText
    /\ UNCHANGED <<flow, table, resources, functions, ini, ghosts>>

\* Buffers that are started from step 5 on are never flushed.
AfterFlush == phase \in {"modules", "symbols", "resources", "ini", "over", "aborted"}

ObStart(k) ==
    /\ Statement
    /\ ~ob_lock /\ Len(obs) < MaxLevels
    /\ StartBuffer(k, AfterFlush)
    /\ UNCHANGED <<flow, table, resources, functions, ini, ghosts>>

\* php_error_cb marks all objects as destructed before it bails out.
ObStartLocked ==
    /\ Statement
    /\ ob_lock
    /\ StartLocked
    /\ table' = Marked(table)
    /\ Bail
    /\ UNCHANGED <<resources, ini>>

\* php_end_ob_buffer, up to its handler's call if there is one.
EndBuffer(send, just) ==
    \/ /\ EndPlain(send, just)
       /\ UNCHANGED stack
    \/ /\ CallHandler
       /\ Push(HandlerFrame(send, just))

\* ob_flush, ob_clean, ob_end_flush, ob_end_clean; not from inside a handler.
ObEnd(send, just) ==
    /\ Statement
    /\ ~InHandler
    /\ MayEnd
    /\ EndBuffer(send, just)
    /\ UNCHANGED <<phase, walk, table, resources, functions, ini, ghosts>>

\* A bucket that is neither in the table nor remembered by a walk over it.
NewBucket(v, kind, rsrc) ==
    [id |-> 1 + Max({b.id : b \in ToSet(table)} \cup {walk.next, walk.since}),
     var |-> v, kind |-> kind, rsrc |-> rsrc]

NewObject(v) ==
    /\ Statement
    /\ v \notin Defined
    /\ table' = Append(table, NewBucket(v, "object", 0))
    /\ UNCHANGED <<output, flow, resources, functions, ini, ghosts>>

\* zend_list_insert; a resource that uses another one holds a reference to it.
Open(v, uses) ==
    LET id == opened + 1 IN
    /\ Statement
    /\ v \notin Defined
    /\ opened < MaxRsrc
    /\ opened' = id
    /\ regular' = Append([k \in DOMAIN regular |-> IF regular[k].id = uses
                                                  THEN [regular[k] EXCEPT !.ref = @ + 1]
                                                  ELSE regular[k]],
                         [id |-> id, ref |-> 1, uses |-> uses])
    /\ table' = Append(table, NewBucket(v, "resource", id))
    /\ UNCHANGED <<output, flow, functions, ini, destroyed, closed, ghosts>>

\* A function like fclose deletes the resource, and the variable keeps its id.
Close(v) ==
    LET id == Bucket(v).rsrc IN
    /\ Statement
    /\ v \in Defined /\ Bucket(v).kind = "resource"
    /\ Delete(id, stack)
    /\ closed' = closed \cup {id}
    /\ UNCHANGED <<output, phase, walk, table, opened, functions, ini, ghosts>>

Unset(v) ==
    /\ Statement
    /\ v \in Defined
    /\ table' = Without(table, Bucket(v))
    /\ Kill(Bucket(v), stack)
    /\ UNCHANGED <<output, phase, walk, opened, functions, ini, closed, ghosts>>

RegisterShutdownFunction ==
    /\ Statement
    /\ functions' = functions + 1
    /\ UNCHANGED <<output, flow, table, resources, ini, ghosts>>

\* zend_alter_ini_entry_ex and zend_restore_ini_entry.
SetIni(value) ==
    /\ Statement
    /\ ini' = value
    /\ UNCHANGED <<output, flow, table, resources, functions, ghosts>>

Exit ==
    /\ Statement
    /\ table' = IF phase \in {"destructors", "objects"} THEN Marked(table) ELSE table
    /\ Bail
    /\ UNCHANGED <<output, resources, ini>>

\* An E_ERROR, such as the one of the execution time limit, whose timer runs until
\* the last step and which also interrupts a resource's destructor.
Fatal ==
    /\ Statement \/ (At("dtor") /\ steps < MaxSteps /\ steps' = steps + 1)
    /\ WriteText
    /\ table' = Marked(table)
    /\ Bail
    /\ UNCHANGED <<resources, ini>>

ScriptStep ==
    \/ Echo \/ ObStartLocked \/ RegisterShutdownFunction \/ Exit \/ Fatal
    \/ \E k \in Kinds : ObStart(k)
    \/ \E send, just \in BOOLEAN : ObEnd(send, just)
    \/ \E v \in Vars : NewObject(v) \/ Close(v) \/ Unset(v)
    \/ \E v \in Vars, uses \in Linked \cup {0} : Open(v, uses)
    \/ \E value \in {"original", "changed"} : SetIni(value)
-----------------------------------------------------------------------------
\* php_request_shutdown.

ScriptEnds == Quiet /\ phase = "script" /\ Advance

BodyReturns ==
    /\ At("function") \/ At("destructor")
    /\ Return
    /\ UNCHANGED <<output, phase, steps, table, walk, resources, functions, ini, ghosts>>

HandlerDone ==
    /\ At("handler")
    /\ HandlerReturns(Top.given, Top.send, Top.just)
    /\ Return
    /\ UNCHANGED <<phase, steps, table, walk, resources, functions, ini, ghosts>>

\* 1. The functions that are registered meanwhile are called too.
CallFunction ==
    /\ Quiet /\ phase = "functions"
    /\ functions > 0
    /\ functions' = functions - 1
    /\ Push(Frame("function"))
    /\ UNCHANGED <<output, phase, steps, table, walk, resources, ini, ghosts>>

FunctionsDone == Quiet /\ phase = "functions" /\ functions = 0 /\ Advance

\* 2. zend_hash_reverse_apply has gone on to the bucket before this one when it
\* deletes it; the destructor may delete that other bucket.
Position(id) == CHOOSE k \in DOMAIN table : table[k].id = id
WalkSymbols ==
    /\ Quiet /\ phase = "destructors"
    /\ walk.next # 0
    /\ IF walk.next \notin {b.id : b \in ToSet(table)}
       THEN /\ beyond' = "walked a freed bucket"
            /\ UNCHANGED <<table, walk, stack, regular, destroyed>>
       ELSE LET k == Position(walk.next)
                b == table[k] IN
            /\ walk' = [walk EXCEPT !.next = IF k = 1 THEN 0 ELSE table[k - 1].id]
            /\ IF b.kind = "resource"
               THEN UNCHANGED <<table, stack, regular, destroyed>>
               ELSE /\ table' = Without(table, b)
                    /\ Kill(b, stack)
            /\ UNCHANGED beyond
    /\ UNCHANGED <<output, phase, steps, opened, functions, ini, closed, flushCut>>

SymbolsWalked ==
    /\ Quiet /\ phase = "destructors"
    /\ walk.next = 0
    /\ IF Len(table) = walk.symbols THEN Advance
       ELSE /\ walk' = [walk EXCEPT !.next = LastBucket(table), !.symbols = Len(table)]
            /\ UNCHANGED <<output, phase, stack, steps, table, resources, functions, ini, ghosts>>

\* zend_objects_store_call_destructors; objects created meanwhile may be passed over.
CallDestructor ==
    /\ Quiet /\ phase = "objects"
    /\ \E k \in DOMAIN table : /\ table[k].kind = "object"
                              /\ table' = [table EXCEPT ![k].kind = "spent"]
    /\ Push(Frame("destructor"))
    /\ UNCHANGED <<output, phase, steps, walk, resources, functions, ini, ghosts>>

ObjectsDone ==
    /\ Quiet /\ phase = "objects"
    /\ \A b \in ToSet(table) : b.kind = "object" => b.id > walk.since
    /\ Advance

\* The mutant flushes without ending.
MutFlushBufferOnly ==
    /\ Quiet /\ phase = "flush"
    /\ obs # <<>>
    /\ EndBuffer(TRUE, TRUE)
    /\ UNCHANGED <<phase, steps, table, walk, resources, functions, ini, ghosts>>

\* 3. php_end_ob_buffers.
FlushBuffer ==
    /\ Quiet /\ phase = "flush"
    /\ obs # <<>>
    /\ EndBuffer(TRUE, FALSE)
    /\ UNCHANGED <<phase, steps, table, walk, resources, functions, ini, ghosts>>

FlushDone == Quiet /\ phase = "flush" /\ obs = <<>> /\ Advance

\* 5. zend_deactivate_modules: one of the modules calls script code.
CallRshutdown ==
    /\ Quiet /\ phase = "modules"
    /\ Push(Frame("rshutdown"))
    /\ UNCHANGED <<output, phase, steps, table, walk, resources, functions, ini, ghosts>>

RshutdownReturns ==
    /\ At("rshutdown")
    /\ Return
    /\ Enter("symbols")
    /\ UNCHANGED <<output, steps, table, resources, ini, ghosts>>

\* 7. shutdown_executor: zend_hash_graceful_reverse_destroy of the symbol table ...
DestroySymbol ==
    /\ Quiet /\ phase = "symbols"
    /\ table # <<>>
    /\ table' = Front(table)
    /\ Kill(Last(table), stack)
    /\ UNCHANGED <<output, phase, steps, walk, opened, functions, ini, closed, ghosts>>

SymbolsDone == Quiet /\ phase = "symbols" /\ table = <<>> /\ Advance

MutDestroyResourceForward ==
    /\ Quiet /\ phase = "resources"
    /\ regular # <<>>
    /\ Destroy(Head(regular), stack)
    /\ UNCHANGED <<output, phase, steps, table, walk, opened, functions, ini, closed, ghosts>>

\* ... zend_destroy_rsrc_list, from the tail too ...
DestroyResource ==
    /\ Quiet /\ phase = "resources"
    /\ regular # <<>>
    /\ Destroy(Last(regular), stack)
    /\ UNCHANGED <<output, phase, steps, table, walk, opened, functions, ini, closed, ghosts>>

ResourcesDone == Quiet /\ phase = "resources" /\ regular = <<>> /\ Advance

\* ... and zend_ini_deactivate.
RestoreIni ==
    /\ Quiet /\ phase = "ini"
    /\ ini' = "original"
    /\ Enter("over")
    /\ UNCHANGED <<output, stack, steps, table, resources, ghosts>>

SystemStep ==
    \/ ScriptEnds \/ BodyReturns \/ HandlerDone \/ DtorReturns
    \/ CallFunction \/ FunctionsDone
    \/ WalkSymbols \/ SymbolsWalked \/ CallDestructor \/ ObjectsDone
    \/ FlushBuffer \/ FlushDone
    \/ CallRshutdown \/ RshutdownReturns
    \/ DestroySymbol \/ SymbolsDone \/ DestroyResource \/ ResourcesDone \/ RestoreIni

Ended == phase \in {"over", "aborted"} \/ beyond # "no"

Next == ScriptStep \/ SystemStep \/ (Ended /\ UNCHANGED vars)

\* Script code returns in the end: the execution time limit sees to that.
Spec == Init /\ [][Next]_vars /\ WF_vars(SystemStep)
-----------------------------------------------------------------------------
Phases == {"script", "functions", "destructors", "objects", "flush", "modules", "symbols",
           "resources", "ini", "over", "aborted"}
Pieces == 1..printed
Labels == Bodies \cup {"dtor"}

\* The types of the variables; a resource's count is positive while it is listed, and
\* the ids of list and table grow.
TypeOK ==
    /\ \A b \in ToSet(obs) : /\ b.text \in Seq(Pieces)
                             /\ {b.status, b.handler, b.erase, b.late} \subseteq BOOLEAN
                             /\ b.chunk > 0 => Len(b.text) < b.chunk
    /\ ob_lock \in BOOLEAN
    /\ client \in Seq(Pieces)
    /\ printed \in 0..MaxSteps
    /\ gone \subseteq Pieces
    /\ phase \in Phases
    /\ \A f \in ToSet(stack) : f.at \in Labels /\ f.uses \in 0..opened
    /\ steps \in 0..MaxSteps
    /\ \A j, k \in DOMAIN table : j < k => /\ table[j].id < table[k].id
                                         /\ table[j].var # table[k].var
    /\ \A j, k \in DOMAIN regular : j < k => regular[j].id < regular[k].id
    /\ \A r \in ToSet(regular) : r.ref > 0 /\ r.uses < r.id /\ r.id <= opened
    /\ opened \in 0..MaxRsrc
    /\ functions \in 0..MaxSteps
    /\ ini \in {"original", "changed"}
    /\ destroyed \in [Rsrcs -> Nat]
    /\ closed \subseteq 1..opened
    /\ flushCut \in BOOLEAN
    /\ beyond \in {"no", "walked a freed bucket"}

\* What the client has, and behind it what the buffers hold from the bottom to the
\* active one, is in the order in which it was printed; and each piece of it is in
\* one place, or was cleaned, or kept by a handler.  Flushes, chunks, handlers that
\* print or do not return, and the end of the request do not change that.
Pending == FlattenSeq([k \in DOMAIN obs |-> obs[k].text])
InOrder == LET text == client \o Pending IN
    /\ \A j, k \in DOMAIN text : j < k => text[j] < text[k]
    /\ ToSet(text) \cup gone = Pieces
    /\ ToSet(text) \cap gone = {}

\* No resource is destructed twice or while another one or a variable has it, unless a
\* function has closed it, although the destructors delete entries of the list that
\* is being destroyed.  After a bailout some variables are left when the list goes.
Users(id) == {r \in ToSet(regular) : r.uses = id}
Holders(id) == IF phase \in {"resources", "ini", "over", "aborted"} THEN {}
               ELSE {b \in ToSet(table) : b.kind = "resource" /\ b.rsrc = id}
ResourcesSound ==
    /\ \A id \in Rsrcs : destroyed[id] = IF id <= opened /\ id \notin Linked THEN 1 ELSE 0
    /\ \A id \in (1..opened) \ closed :
         Cardinality(Users(id)) + Cardinality(Holders(id)) <= IF id \in Linked THEN Entry(id).ref ELSE 0

\* Whatever has bailed out on the way: when php_request_shutdown returns, all text is
\* out of the buffers except what was buffered after they were flushed, or when the
\* flush was cut short, no resource is left, and the INI entry is restored.
CleanEnd == phase = "over" =>
    /\ \A b \in ToSet(obs) : b.late \/ flushCut
    /\ regular = <<>>
    /\ ini = "original"

\* The request comes to its end: the loops of the shutdown, over tables and stacks
\* that script code changes meanwhile, terminate.
Ends == <>Ended
=============================================================================
