--------------------------- MODULE OutputBuffers ---------------------------
(***************************************************************************)
(* The stack of output buffers of main/output.c.  What a request prints is  *)
(* a sequence of pieces of text, numbered as they are printed, so that a    *)
(* piece that is lost, repeated or overtaken by a later one shows.          *)
(*                                                                         *)
(* A handler is script code that php_end_ob_buffer calls in its middle: the *)
(* operators below are what happens before and after that call, and         *)
(* RequestShutdown composes them with the script.                           *)
(***************************************************************************)
EXTENDS Naturals, Sequences, SequencesExt

CONSTANTS
    Kinds   \* the buffers a script may start: chunk_size in pieces, or 0; a handler; erase

ASSUME KindsAssumption ==
    Kinds \subseteq {k \in [chunk : 0..3, handler : BOOLEAN, erase : BOOLEAN] :
                        k.handler => k.chunk = 0}

VARIABLES
    obs,        \* the active buffer and, below it, OG(ob_buffers): the active one is last
    ob_lock,
    client,     \* what sapi_module.ub_write was given
    printed,    \* history: how many pieces were printed
    gone        \* history: the pieces that were cleaned, or that a handler did not return

output == <<obs, ob_lock, client, printed, gone>>

OutputInit ==
    /\ obs = <<>>
    /\ ob_lock = FALSE
    /\ client = <<>>
    /\ printed = 0
    /\ gone = {}

Active == Last(obs)
Below == Front(obs)
Emptied(b) == [b EXCEPT !.text = <<>>, !.status = TRUE]

\* A chunk is passed on one piece too late.
MutArrivingLate(s, text) ==
    LET arriving[d \in 0..Len(s)] ==
            IF d = 0 THEN text
            ELSE LET b == s[Len(s) - d + 1]
                     all == b.text \o arriving[d - 1]
                 IN IF b.chunk > 0 /\ Len(all) > b.chunk THEN all ELSE <<>>
    IN arriving

\* php_body_write to the stack s: php_ob_append to the active buffer, which passes
\* its contents on to the one below when it has a chunk of it, and so down to the
\* client.  Arriving[d] is the text that arrives d buffers below the active one.
Arriving(s, text) ==
    LET arriving[d \in 0..Len(s)] ==
            IF d = 0 THEN text
            ELSE LET b == s[Len(s) - d + 1]
                     all == b.text \o arriving[d - 1]
                 IN IF b.chunk > 0 /\ Len(all) >= b.chunk THEN all ELSE <<>>
    IN arriving

Appended(s, text) ==
    [k \in DOMAIN s |->
        LET d == Len(s) - k
            arriving == Arriving(s, text)
        IN IF arriving[d + 1] # <<>> THEN Emptied(s[k])
           ELSE [s[k] EXCEPT !.text = @ \o arriving[d]]]

Written(s, text) == client \o Arriving(s, text)[Len(s)]

\* php_body_write of one more piece of text.
WriteText ==
    LET text == <<printed + 1>> IN
    /\ obs' = Appended(obs, text)
    /\ client' = Written(obs, text)
    /\ printed' = printed + 1
    /\ UNCHANGED <<ob_lock, gone>>

\* php_ob_init_named.
StartBuffer(k, late) ==
    /\ obs' = Append(obs, [text |-> <<>>, status |-> FALSE, chunk |-> k.chunk,
                           handler |-> k.handler, erase |-> k.erase, late |-> late])
    /\ UNCHANGED <<ob_lock, client, printed, gone>>

\* php_start_ob_buffer while a handler runs, or after one did not return: all
\* buffers are forgotten, and the message of the E_ERROR goes to the client.
StartLocked ==
    /\ obs' = <<>>
    /\ gone' = gone \cup UNION {ToSet(obs[k].text) : k \in DOMAIN obs}
    /\ client' = Append(client, printed + 1)
    /\ printed' = printed + 1
    /\ UNCHANGED ob_lock

\* A flush leaves the text in the buffer.
MutFinishKeepsText(text, send, just) ==
    LET sent == IF send THEN text ELSE <<>>
        below == Appended(Below, sent) IN
    /\ obs' = IF just THEN Append(below, [Active EXCEPT !.status = TRUE]) ELSE below
    /\ client' = Written(Below, sent)
    /\ gone' = gone \cup (ToSet(Active.text) \ ToSet(sent))
    /\ UNCHANGED printed

\* The rest of php_end_ob_buffer once the final text is known: it is sent to the
\* buffer below or not, and the buffer is emptied if this is just a flush.
Finish(text, send, just) ==
    LET sent == IF send THEN text ELSE <<>>
        below == Appended(Below, sent) IN
    /\ obs' = IF just THEN Append(below, Emptied(Active)) ELSE below
    /\ client' = Written(Below, sent)
    /\ gone' = gone \cup (ToSet(Active.text) \ ToSet(sent))
    /\ UNCHANGED printed

EndPlain(send, just) ==
    /\ ~Active.handler
    /\ Finish(Active.text, send, just)
    /\ UNCHANGED ob_lock

CallHandler ==
    /\ Active.handler
    /\ ob_lock' = TRUE
    /\ UNCHANGED <<obs, client, printed, gone>>

\* The handler has returned the text it was given, or FALSE: then the text is what
\* the buffer holds by now, with what the handler itself has printed.
HandlerReturns(given, send, just) ==
    /\ \E text \in {given, Active.text} : Finish(text, send, just)
    /\ ob_lock' = FALSE

\* ob_flush, ob_clean, ob_end_flush and ob_end_clean refuse a buffer that a script
\* may not erase before it has been flushed once.
MayEnd == obs # <<>> /\ (Active.status \/ Active.erase)
=============================================================================
