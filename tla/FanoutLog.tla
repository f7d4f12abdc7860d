------------------------------ MODULE FanoutLog ------------------------------
(***************************************************************************)
(* What an EffectStream promises its readers, with retention, counters and *)
(* backpressure left out: one append-only log, and readers that join at    *)
(* its tail and are handed every later entry once, in order.               *)
(***************************************************************************)
EXTENDS Naturals, Sequences

CONSTANTS
    Readers,   \* identities of (dataflow, stage, port)
    Entries    \* what a producer may append

VARIABLES
    log,       \* every entry appended since the stream was created
    pos,       \* [joined readers -> sequence number of the next entry]
    got        \* [joined readers -> the entries handed over so far]

vars == <<log, pos, got>>

Joined == DOMAIN pos

Init ==
    /\ log = <<>>
    /\ DOMAIN pos \subseteq Readers
    /\ pos = [r \in Joined |-> 1]
    /\ got = [r \in Joined |-> <<>>]

\* The producer appends one entry.
Write(e) ==
    /\ log' = Append(log, e)
    /\ UNCHANGED <<pos, got>>

\* A reader joins at the tail: it is handed nothing appended before.
Join(r) ==
    /\ r \in Readers \ Joined
    /\ pos' = [q \in Joined \cup {r} |-> IF q = r THEN Len(log) + 1 ELSE pos[q]]
    /\ got' = [q \in Joined \cup {r} |-> IF q = r THEN <<>> ELSE got[q]]
    /\ UNCHANGED log

\* A reader is handed exactly the entry at its position.
Read(r) ==
    /\ r \in Joined
    /\ pos[r] \in 1 .. Len(log)
    /\ pos' = [pos EXCEPT ![r] = @ + 1]
    /\ got' = [got EXCEPT ![r] = Append(@, log[pos[r]])]
    /\ UNCHANGED log

\* A reader leaves; the log is discarded with its last reader.
Leave(r) ==
    /\ r \in Joined
    /\ pos' = [q \in Joined \ {r} |-> pos[q]]
    /\ got' = [q \in Joined \ {r} |-> got[q]]
    /\ log' = IF Joined = {r} THEN <<>> ELSE log

Next ==
    \/ \E e \in Entries : Write(e)
    \/ \E r \in Readers : Join(r) \/ Read(r) \/ Leave(r)

Spec == Init /\ [][Next]_vars
=============================================================================
