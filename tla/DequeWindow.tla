---------------------------- MODULE DequeWindow ----------------------------
(***************************************************************************)
(* The sliding window of one client as one worker keeps it in memory:        *)
(* a deque of clock readings, expired ones popped from the left until the     *)
(* first that is not (core/ratelimit.py, InMemoryRateLimitStore.record, and   *)
(* the check around it).                                                     *)
(*                                                                           *)
(* The readings come from time.time, which the system may set.  Here the     *)
(* worker's clock is ahead of the true time by a number of ticks that may      *)
(* change, up or down, by as much as slack; a reading keeps the advance it had. *)
(* Where slack is 0 the deque implements the set of hits of RateLimit.        *)
(***************************************************************************)
EXTENDS Integers, Sequences, FiniteSets

CONSTANTS
    Members,   \* bound: names for hits, as many as the deque may hold
    Limit,     \* rate_limit_requests
    Second,    \* ticks in a second: how finely the clock is read
    Window,    \* rate_limit_window_seconds, in ticks
    MaxStep    \* bound: ticks a step of the clock may come to

ASSUME NumbersAssumption == Limit \in Nat /\ Window \in Nat \ {0} /\ MaxStep \in Nat
ASSUME SecondAssumption == Second \in Nat \ {0}
ASSUME WholeSeconds == Window % Second = 0

VARIABLES
    bucket,    \* the deque, oldest entry first: hits with the age their reading
               \* has on the clock, and (history) the ticks since they came
    checking,  \* a check has read the clock and not yet looked at the deque
    wait,      \* ticks the client was told to wait by the last 429
    patient,   \* the client has sent nothing since that 429
    granted,   \* history: hits let through, with the ticks since then
    ahead,     \* ticks the clock is ahead of the true time
    slack      \* how far it may be ahead: 0 where the clock is never stepped

vars == <<bucket, checking, wait, patient, granted, ahead, slack>>

\* No step of the clock makes a hit as old as this young again.
OldAge == Window + slack
Hits == [id : Members, age : -slack .. OldAge, came : 0 .. OldAge]
Elements(q) == {q[i] : i \in DOMAIN q}

TypeOK ==
    /\ bucket \in Seq(Hits)
    /\ checking \in BOOLEAN
    /\ wait \in 0 .. OldAge + Second - 1
    /\ patient \in BOOLEAN
    /\ granted \subseteq [id : Members, since : 0 .. Window - 1]
    /\ slack \in 0 .. MaxStep
    /\ ahead \in 0 .. slack

Init ==
    /\ bucket = <<>>
    /\ checking = FALSE
    /\ wait = 0
    /\ patient = FALSE
    /\ granted = {}
    /\ slack \in {0, MaxStep}
    /\ ahead \in 0 .. slack

-----------------------------------------------------------------------------
\* Variant with a fault: a reading is dropped a tick too soon.
LiveShorter == {i \in DOMAIN bucket : bucket[i].age < Window - 1}

\* Where the deque holds a reading of the last window.
Live == {i \in DOMAIN bucket : bucket[i].age < Window}

\* Variant with a fault: "if" where the code has "while".
RemainingButOne ==
    IF bucket # <<>> /\ 1 \notin Live THEN Tail(bucket) ELSE bucket

\* popleft until the leftmost reading is of the last window.
Remaining ==
    IF Live = {} THEN <<>>
    ELSE LET first == CHOOSE i \in Live : \A j \in Live : i <= j
         IN  SubSeq(bucket, first, Len(bucket))

\* Variant with a fault: the reading is put in front.
PushedLeft(hit) == <<hit>> \o Remaining

\* append: the reading goes to the right end, whatever its value.
Pushed(hit) == Append(Remaining, hit)

Hit(id) == [id |-> id, age |-> 0, came |-> 0]
Older(a, b) == IF a < b THEN b ELSE a

\* math.ceil: the least number of ticks that makes whole seconds of t.
RoundedUp(t) == t + ((-t) % Second)

\* Variant with a fault: oldest and now are swapped.
RetryAfterSwapped(oldest) == Older(Second, RoundedUp(Window + oldest.age))

\* When the leftmost reading will be a window old, in whole seconds and not less
\* than one.
RetryAfter(oldest) == Older(Second, RoundedUp(Window - oldest.age))

\* A check reads the clock.  Nothing is awaited from here to its decision, so
\* no time passes and no other check of this worker runs.
Check ==
    /\ ~ checking
    /\ checking' = TRUE
    /\ patient' = FALSE
    /\ UNCHANGED <<bucket, wait, granted, ahead, slack>>

\* The reading goes into the deque, whatever the decision, and the decision is
\* made on the length of the deque.
Record ==
    /\ checking
    /\ checking' = FALSE
    /\ \E id \in Members \ ({h.id : h \in Elements(bucket)} \cup {g.id : g \in granted}) :
         /\ bucket' = Pushed(Hit(id))
         /\ \/ /\ Len(Pushed(Hit(id))) <= Limit
               /\ granted' = granted \cup {[id |-> id, since |-> 0]}
               /\ wait' = 0
               /\ patient' = FALSE
            \/ /\ Len(Pushed(Hit(id))) > Limit
               /\ wait' = RetryAfter(Pushed(Hit(id))[1])
               /\ patient' = TRUE
               /\ UNCHANGED granted
    /\ UNCHANGED <<ahead, slack>>

AtMost(n, bound) == IF n < bound THEN n ELSE bound

\* A tick passes, on the clock as well.
Tick ==
    /\ ~ checking
    /\ bucket' = [i \in DOMAIN bucket |->
                    [bucket[i] EXCEPT !.age = AtMost(@ + 1, OldAge),
                                      !.came = AtMost(@ + 1, OldAge)]]
    /\ wait' = IF wait = 0 THEN 0 ELSE wait - 1
    /\ granted' = {[g EXCEPT !.since = @ + 1] : g \in {x \in granted : x.since + 1 < Window}}
    /\ UNCHANGED <<checking, patient, ahead, slack>>

\* The system sets the clock: every reading becomes older or younger by the step.
SetClock ==
    /\ ~ checking
    /\ ahead' \in 0 .. slack
    /\ bucket' = [i \in DOMAIN bucket |->
                    [bucket[i] EXCEPT !.age = AtMost(@ + ahead' - ahead, OldAge)]]
    /\ UNCHANGED <<checking, wait, patient, granted, slack>>

\* The worker starts again: its deques are gone, and their history with them.
Restart ==
    /\ ~ checking
    /\ bucket # <<>>
    /\ bucket' = <<>>
    /\ wait' = 0
    /\ patient' = FALSE
    /\ granted' = {}
    /\ UNCHANGED <<checking, ahead, slack>>

Next == Check \/ Record \/ Tick \/ SetClock \/ Restart

Spec == Init /\ [][Next]_vars

-----------------------------------------------------------------------------
\* Steps of the clock, and readings that are out of order after one, shorten the
\* window in which no more than Limit requests are let through by no more than
\* the largest step.
BoundDespiteSteps ==
    Cardinality({g \in granted : g.since < Window - slack}) <= Limit

\* The loop stops at the first young reading, so an expired one behind it is
\* still counted: but none that came as long ago as a window and a step.
NoneOverstays ==
    \A h \in Elements(Remaining) : h.came < Window + slack

\* On a clock that is never stepped the deque is the set of hits of RateLimit.
\* (On one that is, the abstract window is left in its initial state.)
Steady(x, otherwise) == IF slack = 0 THEN x ELSE otherwise
AsSet == {[id |-> h.id, age |-> h.age] : h \in Elements(bucket)}
Quiet == IF bucket = <<>> THEN Window ELSE AtMost(bucket[Len(bucket)].age, Window)
Worker == "the worker"

WindowOf == INSTANCE RateLimit WITH
    Requests <- {Worker},
    MaxLag <- 0,
    Backend <- "memory",
    hits <- Steady(AsSet, {}),
    ttl <- 0,
    lag <- [r \in {Worker} |-> Steady(IF checking THEN 0 ELSE -1, -1)],
    wait <- Steady(wait, 0),
    patient <- Steady(patient, FALSE),
    granted <- Steady(granted, {}),
    quiet <- Steady(Quiet, Window)

WindowSpec == WindowOf!Spec
=============================================================================
