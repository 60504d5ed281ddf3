------------------------------ MODULE Accounts ------------------------------
(***************************************************************************)
(* Handlers, their database sessions and the connection pools of the workers: *)
(* POST /auth/register and POST /products, which look before they insert into  *)
(* a table with a unique index, POST /auth/login, GET /auth/me, GET /products,  *)
(* POST /orders and PATCH /products/{id}.  A session takes a connection for its *)
(* first statement, gives it back when it commits, and takes another for the    *)
(* next statement.                                                             *)
(***************************************************************************)
EXTENDS Integers, FiniteSets

CONSTANTS
    Requests,  \* handlers that may be running at the same time
    Workers,   \* worker processes; each has an engine with a pool of its own
    Emails,    \* values of users.email
    Skus,      \* values of products.sku
    PoolSize,  \* connections of a pool
    Opening    \* rows of the start

Names == Emails \cup Skus

ASSUME NamesAssumption == Emails \cap Skus = {}
ASSUME PoolSizeAssumption == PoolSize \in Nat \ {0}

\* A row of users or of products.
Row == [id : Nat, name : Names]

ASSUME OpeningAssumption ==
    /\ Opening \subseteq Row /\ IsFiniteSet(Opening)
    /\ \A row \in Opening : row.id <= Cardinality(Opening)

\* Products that orders and PATCHes name: those of the start.
Listed == {row.id : row \in {o \in Opening : o.name \in Skus}}

VARIABLES
    rows,       \* committed rows of users and products
    given,      \* the last id a sequence has given
    tokens,     \* tokens handed out
    job,        \* what each handler is doing
    connected   \* handlers whose session holds a connection

vars == <<rows, given, tokens, job, connected>>

-----------------------------------------------------------------------------
\* A token carries a subject; the account it was given to is history.
Token == [sub : Nat, account : Nat]

Task == [do : {"create"}, name : Names] \cup [do : {"login"}, name : Emails]
        \cup [do : {"me"}, token : Token] \cup [do : {"page"}]
        \cup [do : {"order"}, token : Token, product : Listed]
        \cup [do : {"patch"}, product : Listed]

Running == {"asked", "free", "inserted", "known", "read", "locked", "committed", "stored"}

\* Statuses of replies and of AppErrors.  A handler that ends without one raised an
\* exception nobody handles.
Status == {200, 201, 401, 404, 409, 500}
Unhandled == 0
Outcome == Status \cup {Unhandled}

Idle == [at |-> "idle"]
ActiveJob == [at : Running \cup {"done"}, worker : Workers, task : Task,
              id : Nat, status : Outcome]
Job == {Idle} \cup ActiveJob

\* Variant with a fault: the token names its user by e-mail address.
SubjectEmail(row) == row.name

\* create_access_token(str(user.id))
Subject(row) == row.id

TokenOf(row) == [sub |-> Subject(row), account |-> row.id]

TypeOK ==
    /\ rows \in SUBSET Row
    /\ given \in Nat
    /\ tokens \in SUBSET Token
    /\ job \in [Requests -> Job]
    /\ connected \in SUBSET Requests

\* The users of the start have logged in.
Init ==
    /\ rows = Opening
    /\ given = Cardinality(Opening)
    /\ tokens = {TokenOf(row) : row \in {o \in Opening : o.name \in Emails}}
    /\ job = [r \in Requests |-> Idle]
    /\ connected = {}

-----------------------------------------------------------------------------
Do(r) == job[r].task.do
Name(r) == job[r].task.name
Served(w) == {r \in Requests : job[r].at # "idle" /\ job[r].worker = w}

\* Variant with a fault: the row is read again in a second session, and the first
\* one still has its connection.
KeepConnection(r) == connected

\* commit() gives the connection back.
Returned(r) == connected \ {r}

\* The pool of its worker has a connection left.
Reach(r) == Cardinality(connected \cap Served(job[r].worker)) < PoolSize

Taken(n) == \E row \in rows : row.name = n
Own(r) == [id |-> job[r].id, name |-> Name(r)]
Product(r) == job[r].task.product
Present(id) == \E row \in rows : row.id = id

Go(r, at) == job' = [job EXCEPT ![r].at = at]
End(r, status) == job' = [job EXCEPT ![r].at = "done", ![r].status = status]

\* The handler returns; its session is closed later, see Close.
Reply(r, status) == End(r, status) /\ connected' = connected \cup {r}

\* The handler raises: the session's block is left at once, and rolled back.
Raises(r, status) == End(r, status) /\ connected' = connected \ {r}

\* What may be asked for: a client has the tokens it was given.
Offered == [do : {"create"}, name : Names] \cup [do : {"login"}, name : Emails]
           \cup [do : {"me"}, token : tokens] \cup [do : {"page"}]
           \cup [do : {"order"}, token : tokens, product : Listed]
           \cup [do : {"patch"}, product : Listed]

Begin(r, w, task) ==
    /\ job[r] = Idle
    /\ job' = [job EXCEPT ![r] = [at |-> "asked", worker |-> w, task |-> task,
                                  id |-> 0, status |-> Unhandled]]
    /\ UNCHANGED <<rows, given, tokens, connected>>

-----------------------------------------------------------------------------
(* register_user, create_product                                             *)

LookUp(r) ==
    /\ job[r].at = "asked" /\ Do(r) = "create"
    /\ Reach(r)
    /\ IF Taken(Name(r))
       THEN Raises(r, 409)
       ELSE Go(r, "free") /\ connected' = connected \cup {r}
    /\ UNCHANGED <<rows, given, tokens>>

\* Variant with a fault: the column has an index that is not unique.
InsertAnyway(r) ==
    /\ job[r].at = "free"
    /\ given' = given + 1
    /\ job' = [job EXCEPT ![r].at = "inserted", ![r].id = given + 1]
    /\ UNCHANGED <<rows, tokens, connected>>

\* The unique index makes an INSERT wait for another one of its name, and fail
\* if that one was committed: an exception nobody handles.
Insert(r) ==
    /\ job[r].at = "free"
    /\ \A q \in Requests : job[q].at = "inserted" => Name(q) # Name(r)
    /\ given' = given + 1
    /\ IF Taken(Name(r))
       THEN Raises(r, Unhandled)
       ELSE /\ job' = [job EXCEPT ![r].at = "inserted", ![r].id = given + 1]
            /\ UNCHANGED connected
    /\ UNCHANGED <<rows, tokens>>

Commit(r) ==
    /\ job[r].at = "inserted"
    /\ rows' = rows \cup {Own(r)}
    /\ Go(r, "committed")
    /\ connected' = Returned(r)
    /\ UNCHANGED <<given, tokens>>

\* What the handler reads again after its commit is still there: its own row, the
\* product, or its order, which is deleted with its user and not otherwise.
Remains(r) ==
    CASE Do(r) = "create" -> Own(r) \in rows
      [] Do(r) = "patch"  -> Present(Product(r))
      [] Do(r) = "order"  -> Present(job[r].id)

\* refresh(), or the SELECT of the order, takes a connection again.  A row that is
\* gone is an exception nobody handles, a missing order an AppError with status 500.
\* The catalogue's cache is invalidated before the reply, unless a user registered.
Refresh(r) ==
    /\ job[r].at = "committed"
    /\ Reach(r)
    /\ IF ~ Remains(r) THEN Raises(r, IF Do(r) = "order" THEN 500 ELSE Unhandled)
       ELSE IF Do(r) = "create" /\ Name(r) \in Emails THEN Reply(r, 201)
       ELSE Go(r, "stored") /\ connected' = connected \cup {r}
    /\ UNCHANGED <<rows, given, tokens>>

-----------------------------------------------------------------------------
(* authenticate_user, get_current_user, list_products                        *)

\* An unknown address and a wrong password get the same reply.
Login(r) ==
    /\ job[r].at = "asked" /\ Do(r) = "login"
    /\ Reach(r)
    /\ \/ Raises(r, 401) /\ UNCHANGED tokens
       \/ \E row \in rows :
            /\ row.name = Name(r)
            /\ Reply(r, 200)
            /\ tokens' = tokens \cup {TokenOf(row)}
    /\ UNCHANGED <<rows, given>>

Bearers(token) == {row \in rows : row.name \in Emails /\ Subject(row) = token.sub}

\* get_current_user: the id in the reply is that of the row it found.
Me(r) ==
    /\ job[r].at = "asked" /\ Do(r) = "me"
    /\ Reach(r)
    /\ \/ Bearers(job[r].task.token) = {} /\ Raises(r, 401)
       \/ \E row \in Bearers(job[r].task.token) :
            /\ job' = [job EXCEPT ![r].at = "done", ![r].status = 200, ![r].id = row.id]
            /\ connected' = connected \cup {r}
    /\ UNCHANGED <<rows, given, tokens>>

\* A token that has expired is refused before any statement.
Expired(r) ==
    /\ job[r].at = "asked" /\ Do(r) \in {"me", "order"}
    /\ Raises(r, 401)
    /\ UNCHANGED <<rows, given, tokens>>

\* A page from the cache needs no connection; a miss keeps its own until the end.
PageHit(r) ==
    /\ job[r].at = "asked" /\ Do(r) = "page"
    /\ End(r, 200)
    /\ UNCHANGED <<rows, given, tokens, connected>>

PageMiss(r) ==
    /\ job[r].at = "asked" /\ Do(r) = "page"
    /\ Reach(r)
    /\ Go(r, "stored")
    /\ connected' = connected \cup {r}
    /\ UNCHANGED <<rows, given, tokens>>

\* cache.set after a miss, cache.invalidate after a write.
CacheCall(r) ==
    /\ job[r].at = "stored"
    /\ Reply(r, IF Do(r) \in {"create", "order"} THEN 201 ELSE 200)
    /\ UNCHANGED <<rows, given, tokens>>

-----------------------------------------------------------------------------
(* create_order and update_product, one row each: what several rows do to each *)
(* other, and to the stock, is in Orders.                                      *)

\* The user of an order, in the transaction that will write it.
Identify(r) ==
    /\ job[r].at = "asked" /\ Do(r) = "order"
    /\ Reach(r)
    /\ \/ Bearers(job[r].task.token) = {} /\ Raises(r, 401)
       \/ \E row \in Bearers(job[r].task.token) :
            /\ job' = [job EXCEPT ![r].at = "known", ![r].id = row.id]
            /\ connected' = connected \cup {r}
    /\ UNCHANGED <<rows, given, tokens>>

\* The SELECT of the product: the first statement of a PATCH.  An order may find
\* too little stock.
ReadRow(r) ==
    /\ \/ job[r].at = "known"
       \/ job[r].at = "asked" /\ Do(r) = "patch" /\ Reach(r)
    /\ \/ ~ Present(Product(r)) /\ Raises(r, 404)
       \/ Present(Product(r)) /\ Do(r) = "order" /\ Raises(r, 409)
       \/ Present(Product(r)) /\ Go(r, "read") /\ connected' = connected \cup {r}
    /\ UNCHANGED <<rows, given, tokens>>

\* The flush: the UPDATE waits for the row and keeps it.  It fails if the row is
\* gone, as does the INSERT of an order whose user is gone.
LockRow(r) ==
    /\ job[r].at = "read"
    /\ \A q \in Requests : job[q].at = "locked" => Product(q) # Product(r)
    /\ IF Present(Product(r)) /\ (Do(r) = "order" => Present(job[r].id))
       THEN Go(r, "locked") /\ UNCHANGED connected
       ELSE Raises(r, Unhandled)
    /\ UNCHANGED <<rows, given, tokens>>

\* COMMIT of the UPDATE, or of a PATCH that changes nothing and sends none.
CommitWrite(r) ==
    /\ job[r].at = "locked" \/ (job[r].at = "read" /\ Do(r) = "patch")
    /\ Go(r, "committed")
    /\ connected' = Returned(r)
    /\ UNCHANGED <<rows, given, tokens>>

-----------------------------------------------------------------------------
\* A lost connection, a pool that timed out, a Redis error.  If the connection is
\* lost during COMMIT, the row may be there.
Break(r) ==
    /\ job[r].at \in Running
    /\ Raises(r, Unhandled)
    /\ \/ UNCHANGED rows
       \/ job[r].at = "inserted" /\ rows' = rows \cup {Own(r)}
    /\ UNCHANGED <<given, tokens>>

\* get_session's block ends after the handler: before the reply is sent or after
\* it, depending on the version of FastAPI.
Close(r) ==
    /\ job[r].at = "done"
    /\ r \in connected
    /\ connected' = connected \ {r}
    /\ UNCHANGED <<rows, given, tokens, job>>

Finish(r) ==
    /\ job[r].at = "done"
    /\ r \notin connected
    /\ job' = [job EXCEPT ![r] = Idle]
    /\ UNCHANGED <<rows, given, tokens, connected>>

\* A worker dies; PostgreSQL rolls back what it had not committed.
Die(w) ==
    /\ job' = [r \in Requests |-> IF r \in Served(w) THEN Idle ELSE job[r]]
    /\ connected' = connected \ Served(w)
    /\ UNCHANGED <<rows, given, tokens>>

\* Rows that a transaction in progress has updated, or refers to with an INSERT.
InUse == {row \in rows : \E r \in Requests :
            job[r].at = "locked" /\ row.id \in {Product(r), job[r].id}}

\* seed_demo.py deletes, in one transaction, the products and users it finds; what
\* is committed between its DELETE and its COMMIT stays.  It waits for rows in use.
\* The foreign keys, which may spare more rows, are in OrderBook.
SeedDeletes ==
    /\ rows' \in SUBSET rows
    /\ InUse \subseteq rows'
    /\ UNCHANGED <<given, tokens, job, connected>>

-----------------------------------------------------------------------------
\* What a handler does unless something fails.
Work(r) ==
    \/ LookUp(r) \/ Insert(r) \/ Commit(r) \/ Refresh(r) \/ Login(r)
    \/ Me(r) \/ PageHit(r) \/ PageMiss(r) \/ CacheCall(r)
    \/ Identify(r) \/ ReadRow(r) \/ LockRow(r) \/ CommitWrite(r)

Next ==
    \/ \E r \in Requests :
         \/ \E w \in Workers, task \in Offered : Begin(r, w, task)
         \/ Work(r) \/ Expired(r) \/ Break(r) \/ Close(r) \/ Finish(r)
    \/ \E w \in Workers : Die(w)
    \/ SeedDeletes

Spec == Init /\ [][Next]_vars

-----------------------------------------------------------------------------
\* A token opens the account it was issued for and no other one, and orders are
\* placed on it, even when its user was deleted, before or meanwhile, and the same
\* e-mail address registered again.
TokensArePersonal ==
    \A r \in Requests :
        \/ job[r].at = "done" /\ Do(r) \in {"me", "order"} /\ job[r].status \in {200, 201}
        \/ job[r].at \in {"known", "read", "locked", "committed", "stored"} /\ Do(r) = "order"
        => job[r].id = job[r].task.token.account

\* Who waits for a connection has none, so pools of any size, even of one
\* connection, cannot be taken up by handlers that wait for each other.
WaitsEmptyHanded ==
    \A r \in Requests : job[r].at \in {"asked", "committed"} => r \notin connected

\* Who waits: for a connection (an expired token and a page in the cache need
\* none, and may go on all the same), for the end of another session's INSERT, or
\* for a row that another one has updated.
Waits(r) ==
    \/ job[r].at \in {"asked", "committed"} /\ ~ Reach(r)
    \/ job[r].at = "free"
       /\ \E q \in Requests : job[q].at = "inserted" /\ Name(q) = Name(r)
    \/ job[r].at = "read"
       /\ \E q \in Requests : job[q].at = "locked" /\ Product(q) = Product(r)

\* The pools, the unique index and the row locks together never leave everybody
\* waiting: as long as there are handlers, one of them has what it needs for its
\* next step, with any number of workers, pools of one connection and requests for
\* one name or one row.
SomebodyProceeds ==
    (\E r \in Requests : job[r] # Idle) =>
        \E r \in Requests : job[r] # Idle /\ ~ Waits(r)

\* How far a handler's claim to a name is.
ClaimOf(j) ==
    IF j.at = "idle" \/ j.task.do # "create" THEN [at |-> "none"]
    ELSE [name |-> j.task.name,
          at |-> CASE j.at \in {"asked", "free", "inserted"} -> "asking"
                   [] j.at \in {"committed", "stored"} -> "entered"
                   [] j.at = "done" /\ j.status = 201 -> "created"
                   [] j.at = "done" /\ j.status = 409 -> "refused"
                   [] OTHER -> "failed"]

InDirectory == INSTANCE Directory WITH
    members <- {row.name : row \in rows},
    claim <- [r \in Requests |-> ClaimOf(job[r])]

\* Looking first and inserting later is as good as one atomic step, thanks to the
\* index: of any number of requests with one name, one is told 201, a 409 is
\* never given for a name that is free, and who lost the race learns nothing
\* false (a 500, not a 201).
DirectorySpec == InDirectory!Spec
=============================================================================
