------------------------------ MODULE Pipeline ------------------------------
(***************************************************************************)
(* The way of a request through a worker: the middlewares of create_app, from *)
(* the outside in, a handler of Accounts, and the middlewares from the inside  *)
(* out, with the headers they add and the counters they keep.                  *)
(***************************************************************************)
EXTENDS Accounts, Sequences

S == INSTANCE SequencesExt

CONSTANT MaxRequests   \* bound: requests of a trace

ASSUME SlotsAssumption == IsFiniteSet(Requests)
ASSUME MaxRequestsAssumption == MaxRequests \in Nat

VARIABLES
    wire,     \* where the request of each slot is
    arrived,  \* number of requests so far
    total,    \* http_requests_total of each worker process, by status
    refused,  \* rate_limited_total of each worker process
    sent      \* history: replies of each worker process, by status

counters == <<total, refused, sent>>
pipeVars == <<vars, wire, arrived, counters>>

-----------------------------------------------------------------------------
\* Middlewares in the order create_app adds them.
Added == <<"cors", "context", "limit">>

\* From the outside in: Starlette puts each in front of those added before it.
Stack == S!Reverse(Added)

\* The layers a reply of the limiter, or an exception of it, passes; the replies
\* and exceptions of handlers pass all of them.
Layers == {Stack[i] : i \in DOMAIN Stack}
BeyondLimit == {Stack[i] : i \in {j \in DOMAIN Stack :
                                    \A k \in 1 .. j : Stack[k] # "limit"}}

\* Variant with a fault: the limiter's own status is left out.
CodesOfHandlers == Status

\* Status codes of the replies, those of the exceptions and 429.
Codes == Status \cup {429}
Header == {"Access-Control-Allow-Origin", "X-Request-ID", "X-RateLimit-Limit"}
NoneSent == [s \in Codes |-> 0]

NoWire == [at |-> "idle"]
OpenWire == [at : {"in", "handled", "out"}, worker : Workers, task : Task,
             status : Codes \cup {0}, headers : SUBSET Header]
Wire == {NoWire} \cup OpenWire

WireTypeOK ==
    /\ wire \in [Requests -> Wire]
    /\ arrived \in 0 .. MaxRequests
    /\ total \in [Workers -> [Codes -> Nat]]
    /\ refused \in [Workers -> Nat]
    /\ sent \in [Workers -> [Codes -> Nat]]

PipeInit ==
    /\ Init
    /\ wire = [r \in Requests |-> NoWire]
    /\ arrived = 0
    /\ total = [w \in Workers |-> NoneSent]
    /\ refused = [w \in Workers |-> 0]
    /\ sent = [w \in Workers |-> NoneSent]

-----------------------------------------------------------------------------
\* rate_limit_paths has one path, which only GET /products asks for.
Limited(r) == wire[r].task.do = "page"

\* Variant with a fault: no X-Request-ID on a reply that reports an error.
DressIfWell(r, layers, s) ==
    (IF "cors" \in layers THEN {"Access-Control-Allow-Origin"} ELSE {})
    \cup (IF "context" \in layers /\ s < 400 THEN {"X-Request-ID"} ELSE {})
    \cup (IF "limit" \in layers /\ Limited(r) THEN {"X-RateLimit-Limit"} ELSE {})

\* What the layers add to a reply that passes them; the request comes from a page
\* of another origin.
Dress(r, layers, s) ==
    (IF "cors" \in layers THEN {"Access-Control-Allow-Origin"} ELSE {})
    \cup (IF "context" \in layers THEN {"X-Request-ID"} ELSE {})
    \cup (IF "limit" \in layers /\ Limited(r) THEN {"X-RateLimit-Limit"} ELSE {})

Count(r, counter, s) == [counter EXCEPT ![wire[r].worker][s] = @ + 1]

\* RequestContextMiddleware counts what passes it, an exception as a 500.
Record(r, layers, s) ==
    total' = IF "context" \in layers THEN Count(r, total, s) ELSE total

\* A reply, and an exception, on its way through the layers.  Outside of all of
\* them Starlette makes a bare 500 of the exception.
Replied(r, layers, s, headers) ==
    /\ wire' = [wire EXCEPT ![r].at = "out", ![r].status = s,
                            ![r].headers = headers \cup Dress(r, layers, s)]
    /\ Record(r, layers, s)

Raised(r, layers) ==
    /\ wire' = [wire EXCEPT ![r].at = "out", ![r].status = 500]
    /\ Record(r, layers, 500)

-----------------------------------------------------------------------------
\* A request comes in; RateLimitMiddleware awaits its store if the path is limited.
Arrive(r, w, task) ==
    /\ wire[r] = NoWire
    /\ job[r] = Idle
    /\ arrived < MaxRequests
    /\ arrived' = arrived + 1
    /\ wire' = [wire EXCEPT ![r] = [at |-> "in", worker |-> w, task |-> task,
                                    status |-> 0, headers |-> {}]]
    /\ UNCHANGED <<vars, counters>>

Deny(r) ==
    /\ wire[r].at = "in"
    /\ Limited(r)
    /\ Replied(r, BeyondLimit, 429, {"X-RateLimit-Limit"})
    /\ refused' = [refused EXCEPT ![wire[r].worker] = @ + 1]
    /\ UNCHANGED <<vars, arrived, sent>>

LimiterFails(r) ==
    /\ wire[r].at = "in"
    /\ Limited(r)
    /\ Raised(r, BeyondLimit)
    /\ UNCHANGED <<vars, arrived, refused, sent>>

\* Every layer calls the next one, and the router the handler.
Handle(r) ==
    /\ wire[r].at = "in"
    /\ Begin(r, wire[r].worker, wire[r].task)
    /\ wire' = [wire EXCEPT ![r].at = "handled"]
    /\ UNCHANGED <<arrived, counters>>

\* The handler's result, or what app_error_handler makes of an AppError, be its
\* status 500; any other exception goes on outwards.
Leave(r) ==
    /\ wire[r].at = "handled"
    /\ job[r].at = "done"
    /\ IF job[r].status = Unhandled
       THEN Raised(r, Layers)
       ELSE Replied(r, Layers, job[r].status, {})
    /\ UNCHANGED <<vars, arrived, refused, sent>>

\* The reply is sent; the session of the handler may still have to be closed.
Send(r) ==
    /\ wire[r].at = "out"
    /\ wire' = [wire EXCEPT ![r] = NoWire]
    /\ sent' = Count(r, sent, wire[r].status)
    /\ UNCHANGED <<vars, arrived, total, refused>>

\* A worker dies; the one that takes its place counts from zero.
Restart(w) ==
    /\ Die(w)
    /\ wire' = [r \in Requests |->
                  IF wire[r] # NoWire /\ wire[r].worker = w THEN NoWire ELSE wire[r]]
    /\ total' = [total EXCEPT ![w] = NoneSent]
    /\ refused' = [refused EXCEPT ![w] = 0]
    /\ sent' = [sent EXCEPT ![w] = NoneSent]
    /\ UNCHANGED arrived

\* Steps of the handlers that the middlewares do not take part in.
Inside == UNCHANGED <<wire, arrived, counters>>

-----------------------------------------------------------------------------
Progress(r) ==
    \/ Handle(r) \/ Leave(r) \/ Send(r)
    \/ Inside /\ (Work(r) \/ Close(r))
    \/ Inside /\ wire[r] = NoWire /\ Finish(r)

PipeNext ==
    \/ \E r \in Requests :
         \/ \E w \in Workers, task \in Offered : Arrive(r, w, task)
         \/ Progress(r) \/ Deny(r) \/ LimiterFails(r)
         \/ Inside /\ (Expired(r) \/ Break(r))
    \/ \E w \in Workers : Restart(w)
    \/ Inside /\ SeedDeletes

PipeSpec == PipeInit /\ [][PipeNext]_pipeVars

\* Coroutines go on, and waiters for a connection or for the INSERT of another
\* session are served in turn.  Nothing has to fail, time out or be asked for.
FairPipeSpec == PipeSpec /\ \A r \in Requests : SF_pipeVars(Progress(r))

-----------------------------------------------------------------------------
\* Replies of worker w that are made and not yet sent.
Made(w, s) == {r \in Requests : wire[r].at = "out" /\ wire[r].worker = w /\ wire[r].status = s}
OnTheWay(w, s) == Cardinality(Made(w, s))

\* The counters agree with what clients see: as long as its worker lives, a reply
\* of a handler is counted once, under the status the client gets, and a 429 in
\* rate_limited_total and nowhere else.  Only exceptions of the limiter leave a
\* 500 nobody counts.
CountersAgree ==
    \A w \in Workers :
        /\ \A s \in Status \ {500} : total[w][s] = sent[w][s] + OnTheWay(w, s)
        /\ refused[w] = sent[w][429] + OnTheWay(w, 429)
        /\ total[w][429] = 0
        /\ total[w][500] <= sent[w][500] + OnTheWay(w, 500)

\* The reply of a handler: what it returned, or an AppError it raised.
Answered(r) == job[r].at = "done" /\ job[r].status \in Status

\* X-Request-ID and the CORS headers are on every reply of a handler, those that
\* report errors included, an order that disappeared among them (a 500).  Where the
\* rate limiter cut the request short, or an exception nobody handles went all the
\* way out, neither is.
HeadersUnlessCutShort ==
    \A r \in Requests :
        wire[r].at = "out" =>
            LET due == {"X-Request-ID", "Access-Control-Allow-Origin"}
            IN  IF Answered(r) THEN due \subseteq wire[r].headers
                               ELSE due \cap wire[r].headers = {}

\* Every request ends, even if no pool ever times out: who waits for a connection
\* keeps none from the others, nor a name.
RequestsEnd ==
    \A r \in Requests : wire[r] # NoWire ~> wire[r] = NoWire /\ job[r] = Idle
=============================================================================
