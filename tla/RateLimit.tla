----------------------------- MODULE RateLimit -----------------------------
(***************************************************************************)
(* The sliding window of one client (core/ratelimit.py): the bucket of one   *)
(* key in Redis, or in the dictionary of one worker, and the requests of that *)
(* client that check it at the same time.  Buckets share nothing, so one is   *)
(* the whole story.                                                          *)
(*                                                                           *)
(* check() reads the clock and hands the reading to the store.  The Redis     *)
(* pipeline runs some time later, but all at once.  Time is kept relative:    *)
(* how many ticks ago a hit read the clock, was let through, ...  A second is   *)
(* several ticks long: the clock is read in fractions of a second, but the     *)
(* client is told to wait for a whole number of them.                         *)
(* The histories of hits and 429s are those of one bucket: they start anew     *)
(* with the bucket when it is lost.                                          *)
(***************************************************************************)
EXTENDS Integers, FiniteSets

CONSTANTS
    Requests,  \* requests of the client that may be running at the same time
    Members,   \* bound: names for hits, as many as the bucket may hold
    Limit,     \* rate_limit_requests
    Second,    \* ticks in a second: how finely the clock is read
    Window,    \* rate_limit_window_seconds, in ticks
    MaxLag,    \* bound: ticks from reading the clock to running the pipeline
    Backend    \* "redis" or "memory", settings.rate_limit_backend

ASSUME NumbersAssumption == Limit \in Nat /\ Window \in Nat \ {0} /\ MaxLag \in Nat
ASSUME SecondAssumption == Second \in Nat \ {0}
ASSUME WholeSeconds == Window % Second = 0
ASSUME BackendAssumption == Backend \in {"redis", "memory"}
ASSUME LagAssumption == Backend = "memory" => MaxLag = 0

VARIABLES
    hits,     \* the bucket: members with the age of their score
    ttl,      \* ticks until EXPIRE removes the bucket, 0 when it is not set
    lag,      \* lag[r]: ticks since r read the clock, Idle when r is not checking
    wait,     \* ticks the client was told to wait by the last 429
    patient,  \* the client has sent nothing since that 429
    granted,  \* history: hits let through, with the ticks since then
    quiet     \* history: ticks since a hit was last recorded, up to Window

vars == <<hits, ttl, lag, wait, patient, granted, quiet>>

Idle == -1
\* No check tells apart two hits as old as this: it purges them both.
OldAge == Window + MaxLag

TypeOK ==
    /\ hits \subseteq [id : Members, age : 0 .. OldAge]
    /\ ttl \in 0 .. Window
    /\ lag \in [Requests -> {Idle} \cup 0 .. MaxLag]
    /\ wait \in 0 .. Window
    /\ patient \in BOOLEAN
    /\ granted \subseteq [id : Members, since : 0 .. Window - 1]
    /\ quiet \in 0 .. Window

Init ==
    /\ hits = {}
    /\ ttl = 0
    /\ lag = [r \in Requests |-> Idle]
    /\ wait = 0
    /\ patient = FALSE
    /\ granted = {}
    /\ quiet = Window

-----------------------------------------------------------------------------
\* Variant with a fault: a hit exactly one window old is still counted.
SurvivingLonger(d) == {h \in hits : h.age <= Window + d}

\* Variant with a fault: a hit is purged one tick too soon.
SurvivingShorter(d) == {h \in hits : h.age < Window + d - 1}

\* ZREMRANGEBYSCORE, or the popleft loop: what a check that read the clock d
\* ticks ago leaves in the bucket.
Surviving(d) == {h \in hits : h.age < Window + d}

\* The hits such a check counts, its own included.
Count(d) == Cardinality(Surviving(d)) + 1

Allowed(d) == Count(d) <= Limit

Older(a, b) == IF a < b THEN b ELSE a

\* math.ceil: the least number of ticks that makes whole seconds of t.
RoundedUp(t) == t + ((-t) % Second)

\* Variant with a fault: the client is told to wait for the newest hit.
RetryAfterNewest(d) ==
    LET ages == {h.age : h \in Surviving(d)} \cup {d}
        newest == CHOOSE a \in ages : \A b \in ages : a <= b
    IN  Older(Second, RoundedUp(Window + d - newest))

\* When the oldest hit will be a window old (reset_after), in whole seconds and
\* not less than one.
RetryAfter(d) ==
    LET ages == {h.age : h \in Surviving(d)} \cup {d}
        oldest == CHOOSE a \in ages : \A b \in ages : b <= a
    IN  Older(Second, RoundedUp(Window + d - oldest))

\* Variant with a fault: EXPIRE is set when the bucket is made, not renewed.
ExpireOnce == ttl' = IF Backend = "redis" THEN (IF ttl = 0 THEN Window ELSE ttl) ELSE 0

\* Variant with a fault: the pipeline has no EXPIRE.
ExpireNever == ttl' = 0

\* EXPIRE key window; a dictionary keeps its buckets for ever.
Expire == ttl' = IF Backend = "redis" THEN Window ELSE 0

\* The middleware asks for a decision: the clock is read.
Check(r) ==
    /\ lag[r] = Idle
    /\ lag' = [lag EXCEPT ![r] = 0]
    /\ patient' = FALSE
    /\ UNCHANGED <<hits, ttl, wait, granted, quiet>>

\* The request goes on to its handler.
LetThrough(id) ==
    /\ granted' = granted \cup {[id |-> id, since |-> 0]}
    /\ wait' = 0
    /\ patient' = FALSE

\* The client gets a 429 with Retry-After; until it sends again it is patient.
Deny(d) ==
    /\ wait' = RetryAfter(d)
    /\ patient' = TRUE
    /\ UNCHANGED granted

Unused == Members \ ({h.id : h \in hits} \cup {g.id : g \in granted})

\* The pipeline runs: the store records the hit, whatever the decision will be.
Recorded(r, id) ==
    /\ lag[r] # Idle
    /\ hits' = Surviving(lag[r]) \cup {[id |-> id, age |-> lag[r]]}
    /\ Expire
    /\ quiet' = 0
    /\ lag' = [lag EXCEPT ![r] = Idle]

\* The decision is made on what the pipeline counted.
Record(r) == \E id \in Unused :
    /\ Recorded(r, id)
    /\ IF Allowed(lag[r]) THEN LetThrough(id) ELSE Deny(lag[r])

\* The pipeline runs, but its answer is lost and the request fails without it.
LoseReply(r) ==
    /\ Backend = "redis"
    /\ \E id \in Unused : Recorded(r, id)
    /\ UNCHANGED <<wait, patient, granted>>

\* The pipeline never reaches Redis, and the request fails with it.
Fail(r) ==
    /\ Backend = "redis"
    /\ lag[r] # Idle
    /\ lag' = [lag EXCEPT ![r] = Idle]
    /\ UNCHANGED <<hits, ttl, wait, patient, granted, quiet>>

Aged(h) == [h EXCEPT !.age = IF @ < OldAge THEN @ + 1 ELSE @]

\* A tick passes for the scores, the EXPIRE, the requests on their way to
\* Redis and the client that waits.
Tick ==
    /\ \A r \in Requests : lag[r] < MaxLag
    /\ lag' = [r \in Requests |-> IF lag[r] = Idle THEN Idle ELSE lag[r] + 1]
    /\ hits' = IF ttl = 1 THEN {} ELSE {Aged(h) : h \in hits}
    /\ ttl' = IF ttl = 0 THEN 0 ELSE ttl - 1
    /\ wait' = IF wait = 0 THEN 0 ELSE wait - 1
    /\ granted' = {[g EXCEPT !.since = @ + 1] : g \in {x \in granted : x.since + 1 < Window}}
    /\ quiet' = IF quiet < Window THEN quiet + 1 ELSE Window
    /\ UNCHANGED patient

\* The bucket goes before its time: Redis is full and its policy is allkeys-lru,
\* or the worker whose memory holds the bucket starts again.
Lose ==
    /\ hits # {}
    /\ hits' = {}
    /\ ttl' = 0
    /\ granted' = {}
    /\ wait' = 0
    /\ patient' = FALSE
    /\ quiet' = Window
    /\ UNCHANGED lag

Next ==
    \/ \E r \in Requests : Check(r) \/ Record(r) \/ LoseReply(r) \/ Fail(r)
    \/ Tick
    \/ Lose

Spec == Init /\ [][Next]_vars

-----------------------------------------------------------------------------
\* However the client's requests overlap, no more than Limit of them are let
\* through in any window of a bucket's life; a late pipeline can shorten the
\* window by its delay.
LetThroughBound ==
    Cardinality({g \in granted : g.since < Window - MaxLag}) <= Limit

\* The 429 does not keep a client waiting in vain for a second or more: as long
\* as that much of Retry-After is left (and, if the pipeline was late, its delay)
\* a request would be denied as well.
WaitIsNeeded == wait >= MaxLag + Second => ~ Allowed(0)

\* A client that stays away for a window starts afresh, with its bucket lost
\* meanwhile or not.
Forgives ==
    quiet = Window /\ Limit > 0 =>
        \A r \in Requests : lag[r] # Idle => Allowed(lag[r])

\* tests/test_ratelimit.py, lines 65-72: denied with Retry-After 10, the client
\* is let through once that time is over.
RetryAfterIsEnough ==
    patient /\ wait = 0 /\ Limit > 0 /\ (\A r \in Requests : lag[r] = Idle) => Allowed(0)
=============================================================================
