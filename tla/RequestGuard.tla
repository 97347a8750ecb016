---------------------------- MODULE RequestGuard ----------------------------
(***************************************************************************)
(* ProductionSecurityMiddleware: the body limit and the token buckets that *)
(* stand before every endpoint.  A request that carries a body is read     *)
(* chunk by chunk while other requests pass; all that follows the last     *)
(* chunk is one step of the event loop (the lock is never contended).      *)
(* Tokens are counted in parts of 1/Window, so that a second refills       *)
(* Capacity of them and a request costs Window; floats round, these do not.*)
(***************************************************************************)
EXTENDS Integers, Sequences, FiniteSets, FiniteSetsExt, Functions

CONSTANTS Client, Overflow,
          Capacity,    \* rate_limit_requests
          Window,      \* rate_limit_window_seconds
          MaxClients,  \* rate_limit_max_clients
          MaxBytes,    \* max_request_bytes
          MaxTime,     \* bound on the clock
          MaxServed,   \* bound on the requests served in all
          NoUpload

ASSUME GuardAssumption ==
    /\ Overflow \notin Client
    /\ {Capacity, Window, MaxClients} \subseteq Nat \ {0}
    /\ {MaxBytes, MaxTime, MaxServed} \subseteq Nat

Key == Client \cup {Overflow}
Full == Capacity * Window
Bucket == [tokens : 0..Full, updated : 0..MaxTime]
Upload == [phase : {"reading", "endpoint", "refused"}, client : Client, received : Nat]

ASSUME UploadAssumption == NoUpload \notin Upload

VARIABLES clock, buckets,
          served,  \* the times at which tokens of each bucket were taken
          answer,  \* the last answer of the limiter
          upload   \* a request with a body: who sends it, how much was read

vars == <<clock, buckets, served, answer, upload>>

TypeOK == /\ clock \in 0..MaxTime
          /\ DOMAIN buckets \subseteq Key
          /\ \A k \in DOMAIN buckets : buckets[k] \in Bucket
          /\ served \in [Key -> Seq(0..MaxTime)]
          /\ answer \in [admitted : BOOLEAN, remaining : 0..Capacity, retry : 0..Window]
          /\ upload \in Upload \cup {NoUpload}

\* The upload in progress is in this phase.
In(phase) == upload # NoUpload /\ upload.phase = phase

Init == /\ clock = 0
        /\ buckets = << >>
        /\ served = [k \in Key |-> << >>]
        /\ answer = [admitted |-> TRUE, remaining |-> Capacity, retry |-> 0]
        /\ upload = NoUpload

\* Mutant: a bucket is stale as soon as it may have refilled half.
PrunedEarly == Restrict(buckets, {k \in DOMAIN buckets : 2 * (clock - buckets[k].updated) <= Window})

Pruned == Restrict(buckets, {k \in DOMAIN buckets : clock - buckets[k].updated <= 2 * Window})

\* Mutant: the table may hold one client more.
BucketKeyOffByOne(client, table) ==
    IF client \notin DOMAIN table /\ Cardinality(DOMAIN table) > MaxClients
    THEN Overflow ELSE client

\* The bucket a client is served from, once the table was pruned.
BucketKey(client, table) ==
    IF client \notin DOMAIN table /\ Cardinality(DOMAIN table) >= MaxClients
    THEN Overflow ELSE client

\* Mutant: the refill is not capped.
RefilledUncapped(key, table) ==
    IF key \in DOMAIN table
    THEN table[key].tokens + (clock - table[key].updated) * Capacity
    ELSE Full

\* Tokens in the bucket of key, which is made full when it is not there.
Refilled(key, table) ==
    IF key \in DOMAIN table
    THEN Min({Full, table[key].tokens + (clock - table[key].updated) * Capacity})
    ELSE Full

ServedInAll == MapThenSumSet(LAMBDA k : Len(served[k]), Key)

CeilDiv(a, b) == (a + b - 1) \div b

(* One token of the client's bucket: pruning, overflow, refill, answer. *)
Consume(client) ==
    LET table == IF client \in DOMAIN buckets THEN buckets ELSE Pruned
        key == BucketKey(client, table)
        tokens == Refilled(key, table)
        Keep(left) == buckets' = [k \in DOMAIN table \cup {key} |->
                          IF k = key THEN [tokens |-> left, updated |-> clock] ELSE table[k]]
    IN  \/ /\ tokens < Window
           /\ Keep(tokens)
           /\ answer' = [admitted |-> FALSE, remaining |-> 0,
                         retry |-> Max({1, CeilDiv(Window - tokens, Capacity)})]
           /\ UNCHANGED served
        \/ /\ tokens >= Window
           /\ ServedInAll < MaxServed
           /\ Keep(tokens - Window)
           /\ answer' = [admitted |-> TRUE, retry |-> 0,
                         remaining |-> (tokens - Window) \div Window]
           /\ served' = [served EXCEPT ![key] = Append(@, clock)]

(* A request without a body. *)
Request(client) == Consume(client) /\ UNCHANGED <<clock, upload>>

(* A request with a body: a declared length may refuse it, or be absent. *)
Arrive(client) ==
    /\ upload = NoUpload
    /\ \E phase \in {"reading", "refused"} :
          upload' = [phase |-> phase, client |-> client, received |-> 0]
    /\ UNCHANGED <<clock, buckets, served, answer>>

ReadChunk(size) ==
    /\ In("reading")
    /\ upload' = [upload EXCEPT !.received = @ + size,
                      !.phase = IF upload.received + size > MaxBytes THEN "refused" ELSE @]
    /\ UNCHANGED <<clock, buckets, served, answer>>

(* The body is complete: a token is taken for it only now. *)
FinishBody ==
    /\ In("reading")
    /\ Consume(upload.client)
    /\ upload' = [upload EXCEPT !.phase = IF answer'.admitted THEN "endpoint" ELSE "refused"]
    /\ UNCHANGED clock

(* The client goes away while its body is read. *)
Disconnect == /\ In("reading")
              /\ upload' = NoUpload
              /\ UNCHANGED <<clock, buckets, served, answer>>

Respond == /\ In("endpoint") \/ In("refused")
           /\ upload' = NoUpload
           /\ UNCHANGED <<clock, buckets, served, answer>>

Tick == clock < MaxTime /\ clock' = clock + 1 /\ UNCHANGED <<buckets, served, answer, upload>>

Next == \/ \E client \in Client : Request(client) \/ Arrive(client)
        \/ \E size \in 1..MaxBytes + 1 : ReadChunk(size)
        \/ FinishBody \/ Disconnect \/ Respond \/ Tick

Spec == Init /\ [][Next]_vars
-----------------------------------------------------------------------------
(* Pruning, overflow, refilling and the interleaving with slow uploads     *)
(* never change what a bucket grants: it serves a request exactly when the *)
(* allowance of its key permits, in every span of time, and its headers    *)
(* are exact (_consume_token, _prune_buckets).                             *)
Limit == INSTANCE Allowance
ImplementsAllowance == Limit!Spec

(* The table of buckets and the body a request may bring are bounded,      *)
(* however many clients come and however a body is cut into chunks.        *)
MemoryIsBounded ==
    /\ Cardinality(DOMAIN buckets \ {Overflow}) <= MaxClients
    /\ In("reading") \/ In("endpoint") => upload.received <= MaxBytes
=============================================================================
