--------------------------- MODULE PipelineProofs ---------------------------
(***************************************************************************)
(* Proofs about Accounts and Pipeline, for any number of handlers, workers,  *)
(* names and connections.                                                    *)
(***************************************************************************)
EXTENDS Pipeline, FiniteSetTheorems, TLAPS

\* A token carries the id of the account it was given to.
HonestTokens ==
    /\ \A t \in tokens : t.sub = t.account
    /\ \A r \in Requests : job[r].at # "idle" /\ Do(r) \in {"me", "order"} =>
         job[r].task.token.sub = job[r].task.token.account

\* The statements a handler is at are those of its task.
SuitedTasks ==
    \A r \in Requests :
        /\ job[r].at \in {"free", "inserted"} => Do(r) = "create"
        /\ job[r].at = "known" => Do(r) = "order"
        /\ job[r].at \in {"read", "locked"} => Do(r) \in {"order", "patch"}
        /\ job[r].at = "committed" => Do(r) \in {"create", "order", "patch"}
        /\ job[r].at = "stored" => Do(r) \in {"create", "page", "order", "patch"}

\* A row that was inserted and not committed has its name to itself.
NamesHeld ==
    \A r \in Requests : job[r].at = "inserted" =>
        /\ ~ Taken(Name(r))
        /\ \A q \in Requests \ {r} : job[q].at = "inserted" => Name(q) # Name(r)

\* Nobody has a connection before the first statement, or after the commit.
EmptyHanded ==
    \A r \in Requests : job[r].at \in {"idle", "asked", "committed"} => r \notin connected

AccountsInv == TypeOK /\ HonestTokens /\ TokensArePersonal /\ SuitedTasks

\* A handler is one step further.
Moves(r, at, id, status) ==
    /\ job' \in [Requests -> Job]
    /\ \A q \in Requests \ {r} : job'[q] = job[q]
    /\ job'[r].at = at
    /\ job'[r].id = id
    /\ job'[r].status = status
    /\ job'[r].task = job[r].task
    /\ job'[r].worker = job[r].worker

-----------------------------------------------------------------------------
LEMMA Active ==
    ASSUME TypeOK, NEW r \in Requests, job[r].at # "idle"
    PROVE  job[r] \in ActiveJob
  BY DEF TypeOK, Job, Idle

LEMMA Busy ==
    ASSUME NEW j \in ActiveJob
    PROVE  /\ j.at \in Running \cup {"done"} /\ j.at # "idle"
           /\ j.worker \in Workers /\ j.task \in Task
           /\ j.id \in Nat /\ j.status \in Outcome
  BY DEF ActiveJob, Running

LEMMA GoMoves ==
    ASSUME TypeOK, NEW r \in Requests, job[r].at # "idle",
           NEW at \in Running \cup {"done"}, Go(r, at)
    PROVE  Moves(r, at, job[r].id, job[r].status)
<1> DEFINE j == [job[r] EXCEPT !.at = at]
<1>1. job[r] \in ActiveJob
  BY Active
<1>2. /\ j \in ActiveJob /\ j.task = job[r].task /\ j.worker = job[r].worker
      /\ j.at = at /\ j.id = job[r].id /\ j.status = job[r].status
  BY <1>1 DEF ActiveJob
<1>3. job' = [job EXCEPT ![r] = j]
  BY DEF Go, TypeOK
<1> HIDE DEF j
<1> QED
  BY <1>2, <1>3 DEF Moves, TypeOK, Job

LEMMA EndMoves ==
    ASSUME TypeOK, NEW r \in Requests, job[r].at # "idle",
           NEW status \in Outcome, End(r, status)
    PROVE  Moves(r, "done", job[r].id, status)
<1> DEFINE j == [[job[r] EXCEPT !.at = "done"] EXCEPT !.status = status]
<1>1. job[r] \in ActiveJob
  BY Active
<1>2. /\ j \in ActiveJob /\ j.task = job[r].task /\ j.worker = job[r].worker
      /\ j.at = "done" /\ j.id = job[r].id /\ j.status = status
  BY <1>1 DEF ActiveJob
<1>3. job' = [job EXCEPT ![r] = j]
  BY DEF End, TypeOK
<1> HIDE DEF j
<1> QED
  BY <1>2, <1>3 DEF Moves, TypeOK, Job

\* The steps that give a handler an id: those of an INSERT and of an order's user,
\* and that of a user who asks for himself.
Gets(r, at, id) == job' = [job EXCEPT ![r].at = at, ![r].id = id]
Finds(r, id) == job' = [job EXCEPT ![r].at = "done", ![r].status = 200, ![r].id = id]

LEMMA GetMoves ==
    ASSUME TypeOK, NEW r \in Requests, job[r].at # "idle",
           NEW at \in Running \cup {"done"}, NEW id \in Nat, Gets(r, at, id)
    PROVE  Moves(r, at, id, job[r].status)
<1> DEFINE j == [[job[r] EXCEPT !.at = at] EXCEPT !.id = id]
<1>1. job[r] \in ActiveJob
  BY Active
<1>2. /\ j \in ActiveJob /\ j.task = job[r].task /\ j.worker = job[r].worker
      /\ j.at = at /\ j.id = id /\ j.status = job[r].status
  BY <1>1 DEF ActiveJob
<1>3. job' = [job EXCEPT ![r] = j]
  BY DEF Gets, TypeOK
<1> HIDE DEF j
<1> QED
  BY <1>2, <1>3 DEF Moves, TypeOK, Job

LEMMA FindMoves ==
    ASSUME TypeOK, NEW r \in Requests, job[r].at # "idle", NEW id \in Nat, Finds(r, id)
    PROVE  Moves(r, "done", id, 200)
<1> DEFINE j == [[[job[r] EXCEPT !.at = "done"] EXCEPT !.status = 200] EXCEPT !.id = id]
<1>1. job[r] \in ActiveJob /\ 200 \in Outcome
  BY Active DEF Outcome, Status
<1>2. /\ j \in ActiveJob /\ j.task = job[r].task /\ j.worker = job[r].worker
      /\ j.at = "done" /\ j.id = id /\ j.status = 200
  BY <1>1 DEF ActiveJob
<1>3. job' = [job EXCEPT ![r] = j]
  BY DEF Finds, TypeOK
<1> HIDE DEF j
<1> QED
  BY <1>2, <1>3 DEF Moves, TypeOK, Job

-----------------------------------------------------------------------------
\* Where a step of a handler leads, and what it does to the pool.
LEMMA Steps ==
    ASSUME TypeOK, NEW r \in Requests
    PROVE  /\ LookUp(r) => \/ Moves(r, "done", job[r].id, 409) /\ connected' = connected \ {r}
                           \/ Moves(r, "free", job[r].id, job[r].status)
           /\ Insert(r) => \/ Moves(r, "done", job[r].id, Unhandled) /\ connected' = connected \ {r}
                           \/ Moves(r, "inserted", given + 1, job[r].status)
           /\ Commit(r) => Moves(r, "committed", job[r].id, job[r].status)
           /\ Refresh(r) => \/ \E status \in {Unhandled, 500, 201} :
                                 /\ Moves(r, "done", job[r].id, status)
                                 /\ status # Unhandled => status = IF Do(r) = "create" THEN 201 ELSE 500
                            \/ Moves(r, "stored", job[r].id, job[r].status)
           /\ Login(r) => Moves(r, "done", job[r].id, 401) \/ Moves(r, "done", job[r].id, 200)
           /\ Me(r) => \/ Moves(r, "done", job[r].id, 401)
                       \/ \E row \in Bearers(job[r].task.token) : Moves(r, "done", row.id, 200)
           /\ Expired(r) => Moves(r, "done", job[r].id, 401)
           /\ PageHit(r) => Moves(r, "done", job[r].id, 200)
           /\ PageMiss(r) => Moves(r, "stored", job[r].id, job[r].status)
           /\ CacheCall(r) =>
                Moves(r, "done", job[r].id, IF Do(r) \in {"create", "order"} THEN 201 ELSE 200)
           /\ Break(r) => Moves(r, "done", job[r].id, Unhandled)
           /\ Identify(r) => \/ Moves(r, "done", job[r].id, 401)
                             \/ \E row \in Bearers(job[r].task.token) :
                                  Moves(r, "known", row.id, job[r].status)
           /\ ReadRow(r) => \/ Moves(r, "done", job[r].id, 404) \/ Moves(r, "done", job[r].id, 409)
                            \/ Moves(r, "read", job[r].id, job[r].status)
           /\ LockRow(r) => \/ Moves(r, "done", job[r].id, Unhandled)
                            \/ Moves(r, "locked", job[r].id, job[r].status)
           /\ CommitWrite(r) => Moves(r, "committed", job[r].id, job[r].status)
<1>1. {200, 201, 401, 404, 409, 500, Unhandled} \subseteq Outcome
      /\ {"free", "inserted", "read", "locked", "committed", "stored", "done"}
           \subseteq Running \cup {"done"}
  BY DEF Outcome, Status, Running
<1>2. LookUp(r) => \/ Moves(r, "done", job[r].id, 409) /\ connected' = connected \ {r}
                   \/ Moves(r, "free", job[r].id, job[r].status)
  BY <1>1, GoMoves, EndMoves DEF LookUp, Raises
<1>3. Insert(r) => \/ Moves(r, "done", job[r].id, Unhandled) /\ connected' = connected \ {r}
                   \/ Moves(r, "inserted", given + 1, job[r].status)
  <2> SUFFICES ASSUME Insert(r)
               PROVE  \/ Moves(r, "done", job[r].id, Unhandled) /\ connected' = connected \ {r}
                      \/ Moves(r, "inserted", given + 1, job[r].status)
    OBVIOUS
  <2>1. given + 1 \in Nat /\ job[r].at # "idle"
    BY DEF TypeOK, Insert
  <2>2. CASE Taken(Name(r))
    BY <1>1, <2>1, <2>2, EndMoves DEF Insert, Raises
  <2>3. CASE ~ Taken(Name(r))
    <3>1. Gets(r, "inserted", given + 1) /\ "inserted" \in Running \cup {"done"}
      BY <2>3 DEF Insert, Gets, Running
    <3> QED
      BY <2>1, <3>1, GetMoves
  <2> QED
    BY <2>2, <2>3
<1>4. Commit(r) => Moves(r, "committed", job[r].id, job[r].status)
  BY <1>1, GoMoves DEF Commit
<1>5. Refresh(r) => \/ \E status \in {Unhandled, 500, 201} :
                         /\ Moves(r, "done", job[r].id, status)
                         /\ status # Unhandled => status = IF Do(r) = "create" THEN 201 ELSE 500
                    \/ Moves(r, "stored", job[r].id, job[r].status)
  <2> SUFFICES ASSUME Refresh(r)
               PROVE  \/ \E status \in {Unhandled, 500, 201} :
                           /\ Moves(r, "done", job[r].id, status)
                           /\ status # Unhandled => status = IF Do(r) = "create" THEN 201 ELSE 500
                      \/ Moves(r, "stored", job[r].id, job[r].status)
    OBVIOUS
  <2>1. job[r].at # "idle"
    BY DEF Refresh
  <2>2. \/ Do(r) = "order" /\ End(r, 500)
        \/ End(r, Unhandled)
        \/ Do(r) = "create" /\ End(r, 201)
        \/ Go(r, "stored")
    BY DEF Refresh, Raises, Reply
  <2>3. ASSUME NEW status \in {Unhandled, 500, 201}, End(r, status)
        PROVE  Moves(r, "done", job[r].id, status)
    BY <1>1, <2>1, <2>3, EndMoves
  <2>4. Go(r, "stored") => Moves(r, "stored", job[r].id, job[r].status)
    BY <1>1, <2>1, GoMoves
  <2> HIDE DEF Moves
  <2> QED
    BY <2>2, <2>3, <2>4
<1>6. Login(r) => Moves(r, "done", job[r].id, 401) \/ Moves(r, "done", job[r].id, 200)
  BY <1>1, EndMoves DEF Login, Raises, Reply
<1>7. Me(r) => \/ Moves(r, "done", job[r].id, 401)
               \/ \E row \in Bearers(job[r].task.token) : Moves(r, "done", row.id, 200)
  <2> SUFFICES ASSUME Me(r)
               PROVE  \/ Moves(r, "done", job[r].id, 401)
                      \/ \E row \in Bearers(job[r].task.token) : Moves(r, "done", row.id, 200)
    OBVIOUS
  <2>1. job[r].at # "idle" /\ \A row \in Bearers(job[r].task.token) : row.id \in Nat
    BY DEF Bearers, TypeOK, Row, Me
  <2>2. CASE End(r, 401)
    BY <1>1, <2>1, <2>2, EndMoves
  <2>3. ASSUME NEW row \in Bearers(job[r].task.token), Finds(r, row.id)
        PROVE  Moves(r, "done", row.id, 200)
    BY <2>1, <2>3, FindMoves
  <2>4. \/ End(r, 401)
        \/ \E row \in Bearers(job[r].task.token) : Finds(r, row.id)
    BY DEF Me, Raises, Finds
  <2> QED
    BY <2>2, <2>3, <2>4
<1>8. Expired(r) => Moves(r, "done", job[r].id, 401)
  BY <1>1, EndMoves DEF Expired, Raises
<1>9. PageHit(r) => Moves(r, "done", job[r].id, 200)
  BY <1>1, EndMoves DEF PageHit
<1>10. PageMiss(r) => Moves(r, "stored", job[r].id, job[r].status)
  BY <1>1, GoMoves DEF PageMiss
<1>11. CacheCall(r) =>
         Moves(r, "done", job[r].id, IF Do(r) \in {"create", "order"} THEN 201 ELSE 200)
  BY <1>1, EndMoves DEF CacheCall, Reply
<1>12. Break(r) => Moves(r, "done", job[r].id, Unhandled)
  BY <1>1, EndMoves DEF Break, Raises, Running
<1>13. Identify(r) => \/ Moves(r, "done", job[r].id, 401)
                      \/ \E row \in Bearers(job[r].task.token) :
                           Moves(r, "known", row.id, job[r].status)
  <2> SUFFICES ASSUME Identify(r)
               PROVE  \/ Moves(r, "done", job[r].id, 401)
                      \/ \E row \in Bearers(job[r].task.token) :
                           Moves(r, "known", row.id, job[r].status)
    OBVIOUS
  <2>1. job[r].at # "idle" /\ \A row \in Bearers(job[r].task.token) : row.id \in Nat
    BY DEF Bearers, TypeOK, Row, Identify
  <2>2. CASE End(r, 401)
    BY <1>1, <2>1, <2>2, EndMoves
  <2>3. ASSUME NEW row \in Bearers(job[r].task.token), Gets(r, "known", row.id)
        PROVE  Moves(r, "known", row.id, job[r].status)
    <3>1. "known" \in Running \cup {"done"}
      BY DEF Running
    <3> QED
      BY <2>1, <2>3, <3>1, GetMoves
  <2>4. \/ End(r, 401)
        \/ \E row \in Bearers(job[r].task.token) : Gets(r, "known", row.id)
    BY DEF Identify, Raises, Gets
  <2> QED
    BY <2>2, <2>3, <2>4
<1>14. ReadRow(r) => \/ Moves(r, "done", job[r].id, 404) \/ Moves(r, "done", job[r].id, 409)
                     \/ Moves(r, "read", job[r].id, job[r].status)
  BY <1>1, GoMoves, EndMoves DEF ReadRow, Raises
<1>15. LockRow(r) => \/ Moves(r, "done", job[r].id, Unhandled)
                     \/ Moves(r, "locked", job[r].id, job[r].status)
  BY <1>1, GoMoves, EndMoves DEF LockRow, Raises
<1>16. CommitWrite(r) => Moves(r, "committed", job[r].id, job[r].status)
  BY <1>1, GoMoves DEF CommitWrite
<1> QED
  BY <1>2, <1>3, <1>4, <1>5, <1>6, <1>7, <1>8, <1>9, <1>10, <1>11, <1>12, <1>13, <1>14, <1>15, <1>16

\* A step of a handler: who it is, and that it moved.
Step(r) ==
    \/ LookUp(r) \/ Insert(r) \/ Commit(r) \/ Refresh(r) \/ Login(r) \/ Me(r)
    \/ Expired(r) \/ PageHit(r) \/ PageMiss(r) \/ CacheCall(r) \/ Break(r)
    \/ Identify(r) \/ ReadRow(r) \/ LockRow(r) \/ CommitWrite(r)

LEMMA StepMoves ==
    ASSUME TypeOK, NEW r \in Requests, Step(r)
    PROVE  /\ job[r].at \in Running
           /\ \E at \in Running \cup {"done"}, id \in Nat, status \in Outcome :
                Moves(r, at, id, status)
<1>1. job[r].at \in Running
  BY DEF Step, LookUp, Insert, Commit, Refresh, Login, Me, Expired, PageHit, PageMiss,
         CacheCall, Break, Identify, ReadRow, LockRow, CommitWrite, Running
<1>2. job[r].id \in Nat /\ job[r].status \in Outcome /\ given + 1 \in Nat
  BY <1>1, Active, Busy DEF Running, TypeOK
<1>3. \A row \in Bearers(job[r].task.token) : row.id \in Nat
  BY DEF Bearers, TypeOK, Row
<1>4. \E at \in Running \cup {"done"}, id \in Nat, status \in Outcome :
        Moves(r, at, id, status)
  <2> DEFINE Labels == {"free", "inserted", "known", "read", "locked", "committed", "stored", "done"}
             Outcomes == {200, 201, 401, 404, 409, 500, Unhandled}
  <2>1. Labels \subseteq Running \cup {"done"} /\ Outcomes \subseteq Outcome
    BY DEF Running, Outcome, Status
  <2>2. ASSUME NEW at \in Labels, NEW id \in Nat,
               NEW status \in Outcome, Moves(r, at, id, status)
        PROVE  \E a \in Running \cup {"done"}, i \in Nat, s \in Outcome :
                  Moves(r, a, i, s)
    BY <2>1, <2>2
  <2>3. \/ \E at \in Labels : Moves(r, at, job[r].id, job[r].status)
        \/ \E status \in Outcomes : Moves(r, "done", job[r].id, status)
        \/ Moves(r, "inserted", given + 1, job[r].status)
        \/ \E row \in Bearers(job[r].task.token) : Moves(r, "done", row.id, 200)
        \/ \E row \in Bearers(job[r].task.token) : Moves(r, "known", row.id, job[r].status)
    BY Steps DEF Step
  <2>4. {"done", "inserted", "known"} \subseteq Labels /\ 200 \in Outcomes
    OBVIOUS
  <2> HIDE DEF Labels, Outcomes
  <2> QED
    BY <1>2, <1>3, <2>1, <2>2, <2>3, <2>4
<1> QED
  BY <1>1, <1>4

LEMMA BeginMoves ==
    ASSUME TypeOK, NEW r \in Requests, NEW w \in Workers, NEW task \in Offered, Begin(r, w, task)
    PROVE  /\ job[r].at = "idle" /\ job'[r].at = "asked" /\ job'[r].task = task
           /\ job' \in [Requests -> Job]
           /\ \A q \in Requests \ {r} : job'[q] = job[q]
           /\ UNCHANGED <<rows, given, tokens, connected>>
<1>1. task \in Task
  BY DEF Offered, Task, TypeOK
<1>2. [at |-> "asked", worker |-> w, task |-> task, id |-> 0, status |-> Unhandled]
        \in ActiveJob
  BY <1>1 DEF ActiveJob, Running, Outcome
<1> QED
  BY <1>2 DEF Begin, TypeOK, Job, Idle

LEMMA InitAccounts == Init => AccountsInv
<1> SUFFICES ASSUME Init PROVE AccountsInv
  OBVIOUS
<1>1. rows \in SUBSET Row /\ Cardinality(Opening) \in Nat
  BY OpeningAssumption, FS_CardinalityType DEF Init
<1>2. tokens \in SUBSET Token /\ \A t \in tokens : t.sub = t.account
  BY <1>1 DEF Init, TokenOf, Subject, Token, Row
<1>3. \A r \in Requests : job[r].at = "idle"
  BY DEF Init, Idle
<1>4. TypeOK
  BY <1>1, <1>2 DEF Init, TypeOK, Job
<1> QED
  BY <1>2, <1>3, <1>4 DEF AccountsInv, HonestTokens, TokensArePersonal, SuitedTasks

LEMMA OwnRow ==
    ASSUME TypeOK, SuitedTasks, NEW r \in Requests, job[r].at = "inserted"
    PROVE  Own(r) \in Row /\ Name(r) \in Names
<1>1. job[r].id \in Nat /\ job[r].task \in Task
  BY Active, Busy
<1>2. job[r].task.do = "create"
  BY DEF SuitedTasks, Do
<1>3. Name(r) \in Names
  BY <1>1, <1>2 DEF Task, Name
<1> QED
  BY <1>1, <1>3 DEF Own, Row

LEMMA StepRows ==
    ASSUME NEW r \in Requests, Step(r)
    PROVE  rows' = rows \/ (job[r].at = "inserted" /\ rows' = rows \cup {Own(r)})
<1>1. LookUp(r) \/ Insert(r) \/ Refresh(r) \/ Login(r) => rows' = rows
  BY DEF LookUp, Insert, Refresh, Login
<1>2. Me(r) \/ Expired(r) \/ PageHit(r) \/ PageMiss(r) \/ CacheCall(r) => rows' = rows
  BY DEF Me, Expired, PageHit, PageMiss, CacheCall
<1>3. Commit(r) => (job[r].at = "inserted" /\ rows' = rows \cup {Own(r)})
  BY DEF Commit
<1>4. Break(r) => rows' = rows \/ (job[r].at = "inserted" /\ rows' = rows \cup {Own(r)})
  BY DEF Break
<1>5. Identify(r) \/ ReadRow(r) \/ LockRow(r) \/ CommitWrite(r) => rows' = rows
  BY DEF Identify, ReadRow, LockRow, CommitWrite
<1> QED
  BY <1>1, <1>2, <1>3, <1>4, <1>5 DEF Step

\* What a step of a handler does to the tables.
LEMMA StepTables ==
    ASSUME TypeOK, SuitedTasks, NEW r \in Requests, Step(r)
    PROVE  /\ rows' \in SUBSET Row /\ given' \in Nat
           /\ tokens' \in SUBSET Token /\ tokens \subseteq tokens'
           /\ connected' \in SUBSET Requests
           /\ \A t \in tokens' \ tokens : t.sub = t.account
<1>1. rows' \in SUBSET Row
  BY StepRows, OwnRow DEF TypeOK
<1>2. given' \in Nat
  BY DEF TypeOK, Step, LookUp, Insert, Commit, Refresh, Login, Me, Expired, PageHit, PageMiss,
         CacheCall, Break, Identify, ReadRow, LockRow, CommitWrite
<1>3. tokens' = tokens \/ \E row \in rows : tokens' = tokens \cup {TokenOf(row)}
  BY DEF Step, LookUp, Insert, Commit, Refresh, Login, Me, Expired, PageHit, PageMiss,
         CacheCall, Break, Identify, ReadRow, LockRow, CommitWrite
<1>4. \A row \in rows : TokenOf(row) \in Token /\ TokenOf(row).sub = TokenOf(row).account
  BY DEF TypeOK, TokenOf, Subject, Token, Row
<1>5. connected' \in SUBSET Requests
  BY DEF TypeOK, Step, LookUp, Insert, Commit, Refresh, Login, Me, Expired, PageHit, PageMiss,
         CacheCall, Break, Identify, ReadRow, LockRow, CommitWrite, Raises, Reply, Returned
<1> QED
  BY <1>1, <1>2, <1>3, <1>4, <1>5 DEF TypeOK

LEMMA StepKeeps ==
    ASSUME AccountsInv, NEW r \in Requests, Step(r)
    PROVE  AccountsInv'
<1> USE DEF AccountsInv
<1>1. /\ job[r].at \in Running /\ job[r].at # "idle"
      /\ job' \in [Requests -> Job]
      /\ \A q \in Requests \ {r} : job'[q] = job[q]
      /\ job'[r].task = job[r].task
  BY StepMoves DEF Moves, Running
<1>2. TypeOK'
  BY <1>1, StepTables DEF TypeOK
<1>3. HonestTokens'
  BY <1>1, StepTables DEF HonestTokens, Do
<1>4. TokensArePersonal'
  <2> DEFINE Placing == {"known", "read", "locked", "committed", "stored"}
  <2>1. CASE /\ job'[r].at = "done" /\ job'[r].task.do = "me"
             /\ job'[r].status \in {200, 201}
    <3>1. Me(r)
      <4>1. Do(r) = "me"
        BY <1>1, <2>1 DEF Do
      <4>2. ~ Commit(r) /\ ~ Insert(r) /\ ~ Refresh(r) /\ ~ CacheCall(r)
        BY <4>1 DEF SuitedTasks, Commit, Insert, Refresh, CacheCall
      <4>3. ~ LookUp(r) /\ ~ Login(r) /\ ~ PageHit(r) /\ ~ PageMiss(r) /\ ~ Identify(r)
        BY <4>1 DEF LookUp, Login, PageHit, PageMiss, Identify
      <4>4. ~ ReadRow(r) /\ ~ LockRow(r) /\ ~ CommitWrite(r)
        BY <4>1 DEF SuitedTasks, ReadRow, LockRow, CommitWrite
      <4>5. ~ Expired(r) /\ ~ Break(r)
        BY <2>1, Steps DEF Moves, Unhandled
      <4> QED
        BY <4>2, <4>3, <4>4, <4>5 DEF Step
    <3>2. PICK row \in Bearers(job[r].task.token) : job'[r].id = row.id
      BY <2>1, <3>1, Steps DEF Moves
    <3>3. row.id = job[r].task.token.sub /\ job[r].task.token.sub = job[r].task.token.account
      BY <1>1, <2>1, <3>2 DEF Bearers, Subject, HonestTokens, Do
    <3> QED
      BY <1>1, <2>1, <3>2, <3>3 DEF TokensArePersonal, Do
  <2>2. CASE /\ job'[r].task.do = "order"
             /\ \/ job'[r].at = "done" /\ job'[r].status \in {200, 201}
                \/ job'[r].at \in Placing
    <3>1. Do(r) = "order"
      BY <1>1, <2>2 DEF Do
    <3>2. CASE Identify(r)
      <4>1. PICK row \in Bearers(job[r].task.token) : job'[r].id = row.id
        BY <2>2, <3>2, Steps DEF Moves
      <4>2. row.id = job[r].task.token.sub /\ job[r].task.token.sub = job[r].task.token.account
        BY <1>1, <3>1, <4>1 DEF Bearers, Subject, HonestTokens
      <4> QED
        BY <1>1, <2>2, <4>1, <4>2 DEF TokensArePersonal, Do
    <3>3. CASE job[r].at \in Placing /\ job'[r].id = job[r].id
      BY <1>1, <3>1, <3>3 DEF TokensArePersonal, Do
    <3>4. (job[r].at \in Placing /\ job'[r].id = job[r].id) \/ Identify(r)
      <4>1. ~ LookUp(r) /\ ~ Insert(r) /\ ~ Commit(r)
        BY <3>1 DEF LookUp, SuitedTasks, Insert, Commit
      <4>2. ~ Login(r) /\ ~ Me(r) /\ ~ PageHit(r) /\ ~ PageMiss(r)
        BY <3>1 DEF Login, Me, PageHit, PageMiss
      <4>3. ~ Expired(r) /\ ~ Break(r)
        BY <2>2, Steps DEF Moves, Unhandled
      <4>4. Refresh(r) \/ CacheCall(r) \/ ReadRow(r) \/ LockRow(r) \/ CommitWrite(r)
               => job'[r].id = job[r].id
        BY Steps DEF Moves
      <4>5. Refresh(r) \/ CacheCall(r) \/ ReadRow(r) \/ LockRow(r) \/ CommitWrite(r)
               => job[r].at \in Placing
        BY <3>1 DEF Refresh, CacheCall, ReadRow, LockRow, CommitWrite
      <4> QED
        BY <4>1, <4>2, <4>3, <4>4, <4>5 DEF Step
    <3> QED
      BY <3>2, <3>3, <3>4
  <2> QED
    BY <1>1, <2>1, <2>2 DEF TokensArePersonal, Do
<1>5. SuitedTasks'
  <2>1. job'[r].at \in {"free", "inserted"} => Do(r) = "create"
    <3>1. job'[r].at \in {"free", "inserted"} => LookUp(r) \/ Insert(r)
      BY Steps DEF Step, Moves
    <3> QED
      BY <3>1 DEF LookUp, Insert, SuitedTasks
  <2>2. job'[r].at = "known" => Do(r) = "order"
    <3>1. job'[r].at = "known" => Identify(r)
      BY Steps DEF Step, Moves
    <3> QED
      BY <3>1 DEF Identify
  <2>3. job'[r].at \in {"read", "locked"} => Do(r) \in {"order", "patch"}
    <3>1. job'[r].at \in {"read", "locked"} => ReadRow(r) \/ LockRow(r)
      BY Steps DEF Step, Moves
    <3> QED
      BY <3>1 DEF ReadRow, LockRow, SuitedTasks
  <2>4. job'[r].at = "committed" => Do(r) \in {"create", "order", "patch"}
    <3>1. job'[r].at = "committed" => Commit(r) \/ CommitWrite(r)
      BY Steps DEF Step, Moves
    <3> QED
      BY <3>1 DEF Commit, CommitWrite, SuitedTasks
  <2>5. job'[r].at = "stored" => Do(r) \in {"create", "page", "order", "patch"}
    <3>1. job'[r].at = "stored" => Refresh(r) \/ PageMiss(r)
      BY Steps DEF Step, Moves
    <3> QED
      BY <3>1 DEF Refresh, PageMiss, SuitedTasks
  <2>6. Do(r)' = Do(r) /\ \A q \in Requests \ {r} : Do(q)' = Do(q)
    BY <1>1 DEF Do
  <2> QED
    BY <1>1, <2>1, <2>2, <2>3, <2>4, <2>5, <2>6 DEF SuitedTasks
<1> QED
  BY <1>2, <1>3, <1>4, <1>5

\* Whatever else happens: requests come and go, sessions are closed, workers die,
\* rows are deleted.
LEMMA AroundKeeps ==
    ASSUME AccountsInv
    PROVE  /\ \A r \in Requests :
                /\ \A w \in Workers, task \in Offered : Begin(r, w, task) => AccountsInv'
                /\ Close(r) => AccountsInv'
                /\ Finish(r) => AccountsInv'
           /\ \A w \in Workers : Die(w) => AccountsInv'
           /\ SeedDeletes => AccountsInv'
<1> USE DEF AccountsInv
<1>1. ASSUME NEW r \in Requests, NEW w \in Workers, NEW task \in Offered, Begin(r, w, task)
      PROVE  AccountsInv'
  <2>1. /\ job[r].at = "idle" /\ job'[r].at = "asked" /\ job'[r].task = task
        /\ job' \in [Requests -> Job]
        /\ \A q \in Requests \ {r} : job'[q] = job[q]
        /\ UNCHANGED <<rows, given, tokens, connected>>
    BY <1>1, BeginMoves
  <2>2. TypeOK'
    BY <2>1 DEF TypeOK
  <2>3. task.do \in {"me", "order"} => task.token.sub = task.token.account
    BY DEF Offered, HonestTokens
  <2>4. HonestTokens'
    BY <2>1, <2>3 DEF HonestTokens, Do
  <2>5. TokensArePersonal' /\ SuitedTasks'
    BY <2>1 DEF TokensArePersonal, SuitedTasks, Do
  <2> QED
    BY <2>2, <2>4, <2>5
<1>2. ASSUME NEW r \in Requests, Close(r)
      PROVE  AccountsInv'
  BY <1>2 DEF Close, TypeOK, HonestTokens, TokensArePersonal, SuitedTasks, Do
<1>3. ASSUME job' \in [Requests -> Job], UNCHANGED tokens,
             rows' \in SUBSET Row, UNCHANGED given, connected' \subseteq connected,
             \A r \in Requests : job'[r] \in {Idle, job[r]}
      PROVE  AccountsInv'
  <2>1. TypeOK'
    BY <1>3 DEF TypeOK
  <2>2. HonestTokens' /\ TokensArePersonal' /\ SuitedTasks'
    BY <1>3 DEF HonestTokens, TokensArePersonal, SuitedTasks, Do, Idle
  <2> QED
    BY <2>1, <2>2
<1>4. ASSUME NEW r \in Requests, Finish(r)
      PROVE  AccountsInv'
  BY <1>3, <1>4 DEF Finish, TypeOK, Job
<1>5. ASSUME NEW w \in Workers, Die(w)
      PROVE  AccountsInv'
  BY <1>3, <1>5 DEF Die, TypeOK, Job
<1>6. ASSUME SeedDeletes
      PROVE  AccountsInv'
  BY <1>3, <1>6 DEF SeedDeletes, TypeOK
<1> QED
  BY <1>1, <1>2, <1>4, <1>5, <1>6

LEMMA NextAccounts == AccountsInv /\ [Next]_vars => AccountsInv'
<1> SUFFICES ASSUME AccountsInv, [Next]_vars PROVE AccountsInv'
  OBVIOUS
<1>1. CASE UNCHANGED vars
  BY <1>1 DEF vars, AccountsInv, TypeOK, HonestTokens, TokensArePersonal, SuitedTasks, Do
<1>2. CASE Next
  BY <1>2, StepKeeps, AroundKeeps DEF Next, Work, Step
<1> QED
  BY <1>1, <1>2

\* Types, honest tokens and suited tasks, whatever the handlers of Accounts do.
THEOREM AccountsInvariant == Spec => []AccountsInv
  BY InitAccounts, NextAccounts, PTL DEF Spec

-----------------------------------------------------------------------------
\* Nobody waits for a connection, or begins, with one in hand.
LEMMA NextEmptyHanded ==
    ASSUME AccountsInv, EmptyHanded, [Next]_vars
    PROVE  EmptyHanded'
<1> USE DEF AccountsInv
<1>1. ASSUME NEW r \in Requests, Step(r)
      PROVE  EmptyHanded'
  <2>1. job'[r].at \in {"idle", "asked", "committed"} => Commit(r) \/ CommitWrite(r)
    BY <1>1, Steps DEF Step, Moves
  <2>2. \A q \in Requests \ {r} : job'[q] = job[q]
    BY <1>1, StepMoves DEF Moves
  <2>3. connected' \subseteq connected \cup {r}
    BY <1>1 DEF Step, LookUp, Insert, Commit, Refresh, Login, Me, Expired, PageHit, PageMiss,
                CacheCall, Break, Identify, ReadRow, LockRow, CommitWrite, Raises, Reply, Returned
  <2>4. Commit(r) \/ CommitWrite(r) => r \notin connected'
    BY DEF Commit, CommitWrite, Returned
  <2> QED
    BY <2>1, <2>2, <2>3, <2>4 DEF EmptyHanded
<1>2. ASSUME connected' \subseteq connected,
             \A r \in Requests : job'[r].at \in {"idle", "asked", "committed"}
                                 => job'[r].at = job[r].at \/ r \notin connected'
      PROVE  EmptyHanded'
  BY <1>2 DEF EmptyHanded
<1>3. ASSUME NEW r \in Requests, NEW w \in Workers, NEW task \in Offered, Begin(r, w, task)
      PROVE  EmptyHanded'
  BY <1>3, BeginMoves DEF EmptyHanded
<1>4. ASSUME NEW r \in Requests, Close(r) \/ Finish(r)
      PROVE  EmptyHanded'
  BY <1>2, <1>4 DEF Close, Finish, TypeOK
<1>5. ASSUME NEW w \in Workers, Die(w)
      PROVE  EmptyHanded'
  BY <1>2, <1>5 DEF Die
<1>6. CASE SeedDeletes \/ UNCHANGED vars
  BY <1>2, <1>6 DEF SeedDeletes, vars
<1> QED
  BY <1>1, <1>3, <1>4, <1>5, <1>6 DEF Next, Work, Step

\* Nobody waits for a connection of the worker's pool with one in hand (AsyncSession).
THEOREM HandsEmpty == Spec => []WaitsEmptyHanded
<1>1. Init => EmptyHanded
  BY DEF Init, EmptyHanded
<1>2. EmptyHanded => WaitsEmptyHanded
  BY DEF EmptyHanded, WaitsEmptyHanded
<1> QED
  BY <1>1, <1>2, NextEmptyHanded, AccountsInvariant, PTL DEF Spec

\* Somebody has what the next step needs: who takes up a pool waits for nothing, or
\* for an INSERT or a row of somebody who waits for nothing.
THEOREM NeverAllWaiting == Spec => []SomebodyProceeds
<1>1. Init => EmptyHanded
  BY DEF Init, EmptyHanded
<1>2. ASSUME TypeOK, EmptyHanded
      PROVE  SomebodyProceeds
  <2> SUFFICES ASSUME NEW r \in Requests, job[r] # Idle
               PROVE  \E q \in Requests : job[q] # Idle /\ ~ Waits(q)
    BY DEF SomebodyProceeds
  <2>1. ASSUME NEW q \in Requests, job[q].at \in {"inserted", "locked"}
        PROVE  job[q] # Idle /\ ~ Waits(q)
    BY <2>1 DEF Waits, Idle
  <2>2. ASSUME NEW q \in Requests, job[q] # Idle, job[q].at \notin {"asked", "committed"}
        PROVE  \E s \in Requests : job[s] # Idle /\ ~ Waits(s)
    BY <2>1, <2>2 DEF Waits
  <2>3. CASE job[r].at \in {"asked", "committed"} /\ ~ Reach(r)
    <3> DEFINE users == connected \cap Served(job[r].worker)
    <3>1. users # {}
      <4>1. Cardinality({}) = 0
        BY FS_EmptySet
      <4>2. ~ Cardinality(users) < PoolSize
        BY <2>3 DEF Reach
      <4> HIDE DEF users
      <4> QED
        BY <4>1, <4>2, PoolSizeAssumption
    <3>2. PICK q \in users : TRUE
      BY <3>1
    <3>3. q \in Requests /\ q \in connected
      BY <3>2 DEF Served
    <3>4. job[q].at \notin {"idle", "asked", "committed"}
      BY <1>2, <3>3 DEF EmptyHanded
    <3>5. job[q] # Idle
      BY <3>4 DEF Idle
    <3> QED
      BY <2>2, <3>3, <3>4, <3>5
  <2>4. CASE ~ (job[r].at \in {"asked", "committed"} /\ ~ Reach(r))
    BY <2>1, <2>4 DEF Waits
  <2> QED
    BY <2>3, <2>4
<1>3. AccountsInv => TypeOK
  BY DEF AccountsInv
<1> QED
  BY <1>1, <1>2, <1>3, NextEmptyHanded, AccountsInvariant, PTL DEF Spec

-----------------------------------------------------------------------------
\* The unique index keeps the name of an uncommitted row free.
LEMMA NextNamesHeld ==
    ASSUME AccountsInv, NamesHeld, [Next]_vars
    PROVE  NamesHeld'
<1> USE DEF AccountsInv
<1>1. ASSUME rows' \subseteq rows,
             \A r \in Requests : job'[r].at = "inserted" => job'[r] = job[r]
      PROVE  NamesHeld'
  BY <1>1 DEF NamesHeld, Taken, Name
<1>2. ASSUME NEW r \in Requests, Step(r)
      PROVE  NamesHeld'
  <2>1. /\ \A q \in Requests \ {r} : job'[q] = job[q]
        /\ job'[r].task = job[r].task
    BY <1>2, StepMoves DEF Moves
  <2>2. CASE job'[r].at = "inserted"
    <3>1. Insert(r)
      BY <1>2, <2>2, Steps DEF Step, Moves
    <3>2. /\ UNCHANGED rows /\ job[r].at = "free"
          /\ \A q \in Requests : job[q].at = "inserted" => Name(q) # Name(r)
      BY <3>1 DEF Insert
    <3>3. ~ Taken(Name(r))
      <4>1. CASE Taken(Name(r))
        <5>1. job'[r].at = "done"
          BY <3>1, <4>1, EndMoves DEF Insert, Raises, Moves, Outcome
        <5> QED
          BY <2>2, <5>1
      <4> QED
        BY <4>1
    <3> QED
      BY <2>1, <3>2, <3>3 DEF NamesHeld, Taken, Name
  <2>3. CASE job'[r].at # "inserted" /\ UNCHANGED rows
    BY <1>1, <2>1, <2>3
  <2>4. CASE job'[r].at # "inserted" /\ rows' = rows \cup {Own(r)} /\ job[r].at = "inserted"
    BY <2>1, <2>4 DEF NamesHeld, Taken, Name, Own
  <2>5. rows' = rows \/ (job[r].at = "inserted" /\ rows' = rows \cup {Own(r)})
    BY <1>2, StepRows
  <2> QED
    BY <2>2, <2>3, <2>4, <2>5
<1>3. ASSUME NEW r \in Requests, NEW w \in Workers, NEW task \in Offered, Begin(r, w, task)
      PROVE  NamesHeld'
  BY <1>1, <1>3, BeginMoves
<1>4. ASSUME NEW r \in Requests, Close(r) \/ Finish(r)
      PROVE  NamesHeld'
  BY <1>1, <1>4 DEF Close, Finish, TypeOK, Idle
<1>5. ASSUME NEW w \in Workers, Die(w)
      PROVE  NamesHeld'
  BY <1>1, <1>5 DEF Die, Idle
<1>6. CASE SeedDeletes \/ UNCHANGED vars
  BY <1>1, <1>6 DEF SeedDeletes, vars
<1> QED
  BY <1>2, <1>3, <1>4, <1>5, <1>6 DEF Next, Work, Step

\* The unique index: a row that is inserted has its name to itself (create_user,
\* create_product).
THEOREM NamesInvariant == Spec => [](AccountsInv /\ NamesHeld)
<1>1. Init => NamesHeld
  BY DEF Init, NamesHeld, Idle
<1> QED
  BY <1>1, NextNamesHeld, AccountsInvariant, PTL DEF Spec

-----------------------------------------------------------------------------
(* Accounts implements Directory.                                            *)

Members == {row.name : row \in rows}
Claims == [r \in Requests |-> ClaimOf(job[r])]

LEMMA ClaimStates ==
    ASSUME NEW j \in ActiveJob, j.task.do = "create"
    PROVE  /\ ClaimOf(j) = [name |-> j.task.name, at |-> ClaimOf(j).at]
           /\ j.at \in {"asked", "free", "inserted"} => ClaimOf(j).at = "asking"
           /\ j.at \in {"committed", "stored"} => ClaimOf(j).at = "entered"
           /\ j.at = "done" /\ j.status = 201 => ClaimOf(j).at = "created"
           /\ j.at = "done" /\ j.status = 409 => ClaimOf(j).at = "refused"
           /\ j.at = "done" /\ j.status = Unhandled => ClaimOf(j).at = "failed"
<1>1. j.at # "idle"
  BY Busy
<1> QED
  BY <1>1 DEF ClaimOf, Unhandled

\* A step of a handler that creates something changes its own claim, if any.
LEMMA ClaimMoves ==
    ASSUME TypeOK, NEW r \in Requests, job[r].at # "idle", Do(r) = "create",
           NEW at \in Running \cup {"done"}, NEW id \in Nat, NEW status \in Outcome,
           Moves(r, at, id, status)
    PROVE  /\ Claims[r] = [name |-> Name(r), at |-> Claims[r].at]
           /\ Claims' = [Claims EXCEPT ![r].at = ClaimOf(job'[r]).at]
           /\ ClaimOf(job'[r]).at = Claims[r].at => Claims' = Claims
<1>1. job[r] \in ActiveJob /\ job'[r] \in ActiveJob
  BY Active DEF Moves, Job, Idle, Running
<1>2. /\ ClaimOf(job[r]) = [name |-> Name(r), at |-> ClaimOf(job[r]).at]
      /\ ClaimOf(job'[r]) = [name |-> Name(r), at |-> ClaimOf(job'[r]).at]
  BY <1>1, ClaimStates DEF Moves, Do, Name
<1>3. Claims[r] = ClaimOf(job[r]) /\ Claims'[r] = ClaimOf(job'[r])
  BY DEF Claims
<1>4. \A q \in Requests \ {r} : Claims'[q] = Claims[q]
  BY DEF Claims, Moves
<1>5. [Claims[r] EXCEPT !.at = ClaimOf(job'[r]).at] = Claims'[r]
  <2> DEFINE c == Claims[r].at
  <2> DEFINE d == ClaimOf(job'[r]).at
  <2>1. Claims[r] = [name |-> Name(r), at |-> c] /\ Claims'[r] = [name |-> Name(r), at |-> d]
    BY <1>2, <1>3
  <2> HIDE DEF c, d
  <2> QED
    BY <2>1 DEF d
<1>6. /\ Claims = [q \in Requests |-> Claims[q]] /\ Claims' = [q \in Requests |-> Claims'[q]]
  BY DEF Claims
<1>7. Claims' = [Claims EXCEPT ![r] = [Claims[r] EXCEPT !.at = ClaimOf(job'[r]).at]]
  BY <1>4, <1>5, <1>6
<1>8. ClaimOf(job'[r]).at = Claims[r].at => Claims'[r] = Claims[r]
  BY <1>2, <1>3
<1> QED
  BY <1>2, <1>3, <1>4, <1>6, <1>7, <1>8

\* The steps of Directory, in terms of Members and Claims.
LEMMA DirectorySteps ==
    ASSUME NEW r \in Requests
    PROVE  /\ Claims[r].at = "asking" /\ Claims[r].name \notin Members
              /\ Members' = Members \cup {Claims[r].name}
              /\ Claims' = [Claims EXCEPT ![r].at = "entered"] => InDirectory!Enter(r)
           /\ Claims[r].at = "asking" /\ Claims[r].name \in Members /\ Members' = Members
              /\ Claims' = [Claims EXCEPT ![r].at = "refused"] => InDirectory!Refuse(r)
           /\ Claims[r].at = "entered" /\ Members' = Members
              /\ Claims' = [Claims EXCEPT ![r].at = "created"] => InDirectory!Confirm(r)
           /\ Claims[r].at \in {"asking", "entered"}
              /\ Members' = Members
              /\ Claims' = [Claims EXCEPT ![r].at = "failed"] => InDirectory!Fail(r)
           /\ Claims[r].at = "asking" /\ Claims[r].name \notin Members
              /\ Members' = Members \cup {Claims[r].name}
              /\ Claims' = [Claims EXCEPT ![r].at = "failed"] => InDirectory!Fail(r)
  BY DEF Claims, Members, InDirectory!Enter, InDirectory!Refuse, InDirectory!Confirm,
         InDirectory!Fail, InDirectory!Becomes

LEMMA StepRefines ==
    ASSUME AccountsInv, NamesHeld, NEW r \in Requests, Step(r)
    PROVE  InDirectory!Next \/ (Members' = Members /\ Claims' = Claims)
<1> USE DEF AccountsInv
<1>1. /\ job[r].at # "idle" /\ job[r] \in ActiveJob
  BY StepMoves, Active DEF Running
<1>2. rows' = rows => Members' = Members
  BY DEF Members
<1>3. \A n : Taken(n) <=> n \in Members
  BY DEF Taken, Members
<1>4. InDirectory!Enter(r) \/ InDirectory!Refuse(r) \/ InDirectory!Confirm(r) \/ InDirectory!Fail(r)
        => InDirectory!Next
  BY DEF InDirectory!Next
<1>7. ASSUME job[r].at = "inserted", rows' = rows \cup {Own(r)}
      PROVE  Members' = Members \cup {Name(r)} /\ Name(r) \notin Members
  <2>1. Own(r).name = Name(r)
    BY DEF Own
  <2>2. Members' = Members \cup {Own(r).name}
    BY <1>7 DEF Members
  <2>3. ~ Taken(Name(r))
    BY <1>7 DEF NamesHeld
  <2> QED
    BY <1>3, <2>1, <2>2, <2>3
<1>5. CASE Do(r) # "create"
  <2>1. rows' = rows
    BY <1>5, StepRows DEF SuitedTasks
  <2>2. Claims' = Claims
    <3>1. /\ \A q \in Requests \ {r} : job'[q] = job[q]
          /\ job'[r].task.do # "create"
      BY <1>5, StepMoves DEF Moves, Do
    <3>2. ClaimOf(job'[r]) = ClaimOf(job[r])
      BY <1>5, <3>1 DEF ClaimOf, Do
    <3> QED
      BY <3>1, <3>2 DEF Claims
  <2> QED
    BY <1>2, <2>1, <2>2
<1>6. CASE Do(r) = "create"
  <2> DEFINE was == Claims[r].at
  <2> DEFINE becomes == ClaimOf(job'[r]).at
  <2>1. /\ Claims[r] = [name |-> Name(r), at |-> was]
        /\ Claims' = [Claims EXCEPT ![r].at = becomes]
        /\ becomes = was => Claims' = Claims
        /\ job'[r] \in ActiveJob /\ job'[r].task = job[r].task
    <3>1. PICK at \in Running \cup {"done"}, id \in Nat, status \in Outcome :
            Moves(r, at, id, status)
      BY StepMoves
    <3>2. job'[r] \in ActiveJob /\ job'[r].task = job[r].task
      BY <3>1 DEF Moves, Job, Idle, Running
    <3> QED
      BY <1>1, <1>6, <3>1, <3>2, ClaimMoves
  <2>2. /\ job[r].at \in {"asked", "free", "inserted"} => was = "asking"
        /\ job[r].at \in {"committed", "stored"} => was = "entered"
    BY <1>1, <1>6, ClaimStates DEF Claims, Do
  <2>3. /\ job'[r].at \in {"asked", "free", "inserted"} => becomes = "asking"
        /\ job'[r].at \in {"committed", "stored"} => becomes = "entered"
        /\ job'[r].at = "done" /\ job'[r].status = 201 => becomes = "created"
        /\ job'[r].at = "done" /\ job'[r].status = 409 => becomes = "refused"
        /\ job'[r].at = "done" /\ job'[r].status = Unhandled => becomes = "failed"
    BY <1>6, <2>1, ClaimStates DEF Do
  <2>4. Claims[r].at = was /\ Claims[r].name = Name(r)
    BY <2>1
  <2> HIDE DEF was, becomes
  <2>5. CASE LookUp(r)
    <3>1. rows' = rows /\ job[r].at = "asked"
      BY <2>5 DEF LookUp
    <3>2. CASE Taken(Name(r))
      <4>1. job'[r].at = "done" /\ job'[r].status = 409
        BY <1>1, <2>5, <3>2, EndMoves DEF LookUp, Raises, Moves, Outcome, Status
      <4> QED
        BY <1>2, <1>3, <1>4, <2>1, <2>2, <2>3, <2>4, <3>1, <3>2, <4>1, DirectorySteps
    <3>3. CASE ~ Taken(Name(r))
      <4>1. job'[r].at = "free"
        BY <1>1, <2>5, <3>3, GoMoves DEF LookUp, Moves, Running
      <4> QED
        BY <1>2, <2>1, <2>2, <2>3, <3>1, <4>1
    <3> QED
      BY <3>2, <3>3
  <2>6. CASE Insert(r)
    <3>1. rows' = rows /\ job[r].at = "free"
      BY <2>6 DEF Insert
    <3>2. \/ job'[r].at = "done" /\ job'[r].status = Unhandled
          \/ job'[r].at = "inserted"
      BY <2>6, Steps DEF Moves
    <3> QED
      BY <1>2, <1>4, <2>1, <2>2, <2>3, <2>4, <3>1, <3>2, DirectorySteps
  <2>7. CASE Commit(r)
    <3>1. job[r].at = "inserted" /\ rows' = rows \cup {Own(r)}
      BY <2>7 DEF Commit
    <3>2. job'[r].at = "committed"
      BY <2>7, Steps DEF Moves
    <3>3. Members' = Members \cup {Name(r)} /\ Name(r) \notin Members
      BY <3>1, <1>7
    <3> QED
      BY <1>4, <2>1, <2>2, <2>3, <2>4, <3>1, <3>2, <3>3, DirectorySteps
  <2>8. CASE Refresh(r)
    <3>1. job[r].at = "committed" /\ rows' = rows
      BY <2>8 DEF Refresh
    <3>2. \/ job'[r].at = "done" /\ job'[r].status \in {Unhandled, 201}
          \/ job'[r].at = "stored"
      BY <1>6, <2>8, Steps DEF Moves
    <3> QED
      BY <1>2, <1>4, <2>1, <2>2, <2>3, <2>4, <3>1, <3>2, DirectorySteps
  <2>9. CASE CacheCall(r)
    <3>1. job[r].at = "stored" /\ rows' = rows
      BY <2>9 DEF CacheCall
    <3>2. job'[r].at = "done" /\ job'[r].status = 201
      BY <1>6, <2>9, Steps DEF Moves
    <3> QED
      BY <1>2, <1>4, <2>1, <2>2, <2>3, <2>4, <3>1, <3>2, DirectorySteps
  <2>10. CASE Break(r)
    <3>0. Moves(r, "done", job[r].id, Unhandled)
      BY <2>10, Steps
    <3>1. job'[r].at = "done" /\ job'[r].status = Unhandled
      BY <3>0 DEF Moves
    <3>2. was \in {"asking", "entered"}
      BY <1>6, <2>2, <2>10 DEF Break, Running, SuitedTasks
    <3>3. CASE rows' = rows
      BY <1>2, <1>4, <2>1, <2>3, <2>4, <3>1, <3>2, <3>3, DirectorySteps
    <3>4. CASE job[r].at = "inserted" /\ rows' = rows \cup {Own(r)}
      <4>1. Members' = Members \cup {Name(r)} /\ Name(r) \notin Members
        BY <3>4, <1>7
      <4> QED
        BY <1>4, <2>1, <2>2, <2>3, <2>4, <3>1, <3>4, <4>1, DirectorySteps
    <3> QED
      BY <3>3, <3>4, StepRows
  <2>11. ~ Login(r) /\ ~ Me(r) /\ ~ Expired(r) /\ ~ PageHit(r) /\ ~ PageMiss(r) /\ ~ Identify(r)
    BY <1>6 DEF Login, Me, Expired, PageHit, PageMiss, Identify
  <2>12. ~ ReadRow(r) /\ ~ LockRow(r) /\ ~ CommitWrite(r)
    BY <1>6 DEF ReadRow, LockRow, CommitWrite, SuitedTasks
  <2> QED
    BY <2>5, <2>6, <2>7, <2>8, <2>9, <2>10, <2>11, <2>12 DEF Step
<1> QED
  BY <1>5, <1>6

\* What comes, goes, dies or is deleted is asking, leaving or being removed.
LEMMA AroundRefines ==
    ASSUME AccountsInv
    PROVE  /\ \A r \in Requests :
                /\ \A w \in Workers, task \in Offered : Begin(r, w, task) =>
                     InDirectory!Next \/ (Members' = Members /\ Claims' = Claims)
                /\ Close(r) => Members' = Members /\ Claims' = Claims
                /\ Finish(r) => InDirectory!Next
           /\ \A w \in Workers : Die(w) => InDirectory!Next
           /\ SeedDeletes => InDirectory!Next
<1> USE DEF AccountsInv
<1>1. ASSUME NEW r \in Requests, NEW w \in Workers, NEW task \in Offered, Begin(r, w, task)
      PROVE  InDirectory!Next \/ (Members' = Members /\ Claims' = Claims)
  <2>1. /\ job[r].at = "idle" /\ job'[r].at = "asked" /\ job'[r].task = task
        /\ \A q \in Requests \ {r} : job'[q] = job[q]
        /\ rows' = rows
    BY <1>1, BeginMoves
  <2>2. Members' = Members
    BY <2>1 DEF Members
  <2>3. Claims[r] = [at |-> "none"] /\ \A q \in Requests \ {r} : Claims'[q] = Claims[q]
    BY <2>1 DEF Claims, ClaimOf
  <2>4. CASE task.do = "create"
    <3>1. task.name \in Names
      BY <2>4 DEF Offered
    <3>2. Claims'[r] = [at |-> "asking", name |-> task.name]
      BY <2>1, <2>4 DEF Claims, ClaimOf
    <3>3. Claims' = [Claims EXCEPT ![r] = [at |-> "asking", name |-> task.name]]
      BY <2>3, <3>2 DEF Claims
    <3>4. InDirectory!Ask(r, task.name)
      BY <2>2, <2>3, <3>3 DEF InDirectory!Ask, InDirectory!NoClaim, Claims, Members
    <3> QED
      BY <3>1, <3>4 DEF InDirectory!Next
  <2>5. CASE task.do # "create"
    <3>1. Claims'[r] = Claims[r]
      BY <2>1, <2>3, <2>5 DEF Claims, ClaimOf
    <3> QED
      BY <2>2, <2>3, <3>1 DEF Claims
  <2> QED
    BY <2>4, <2>5
<1>2. ASSUME NEW leaving \in SUBSET Requests, rows' = rows,
             \A q \in Requests : job'[q] = IF q \in leaving THEN Idle ELSE job[q]
      PROVE  InDirectory!Next
  <2>1. Members' = Members
    BY <1>2 DEF Members
  <2>2. Claims' = [q \in Requests |-> IF q \in leaving THEN [at |-> "none"] ELSE Claims[q]]
    BY <1>2 DEF Claims, ClaimOf, Idle
  <2>3. InDirectory!Leave(leaving)
    BY <2>1, <2>2 DEF InDirectory!Leave, InDirectory!NoClaim, Claims, Members
  <2> QED
    BY <2>3 DEF InDirectory!Next
<1>3. ASSUME NEW r \in Requests, Close(r)
      PROVE  Members' = Members /\ Claims' = Claims
  BY <1>3 DEF Close, Members, Claims
<1>4. ASSUME NEW r \in Requests, Finish(r)
      PROVE  InDirectory!Next
  <2>1. \A q \in Requests : job'[q] = IF q \in {r} THEN Idle ELSE job[q]
    BY <1>4 DEF Finish, TypeOK
  <2> QED
    BY <1>2, <1>4, <2>1 DEF Finish
<1>5. ASSUME NEW w \in Workers, Die(w)
      PROVE  InDirectory!Next
  BY <1>2, <1>5 DEF Die, Served
<1>6. ASSUME SeedDeletes
      PROVE  InDirectory!Next
  <2>1. Members' \in SUBSET Members /\ Claims' = Claims
    BY <1>6 DEF SeedDeletes, Members, Claims
  <2>2. InDirectory!Remove
    BY <2>1 DEF InDirectory!Remove, Members, Claims
  <2> QED
    BY <2>2 DEF InDirectory!Next
<1> QED
  BY <1>1, <1>3, <1>4, <1>5, <1>6

\* Registration implements the directory: its look before the insert, the index,
\* the second look after the commit, and every way to fail.
THEOREM Implements == Spec => DirectorySpec
<1>1. Init => InDirectory!Init
  <2> SUFFICES ASSUME Init PROVE InDirectory!Init
    OBVIOUS
  <2>1. Members \in SUBSET Names
    BY OpeningAssumption DEF Init, Members, Row
  <2>2. Claims = [r \in Requests |-> [at |-> "none"]]
    BY DEF Init, Claims, ClaimOf, Idle
  <2> QED
    BY <2>1, <2>2 DEF InDirectory!Init, InDirectory!NoClaim, Members, Claims
<1>2. ASSUME AccountsInv, NamesHeld, [Next]_vars
      PROVE  InDirectory!Next \/ (Members' = Members /\ Claims' = Claims)
  <2>1. CASE UNCHANGED vars
    BY <2>1 DEF vars, Members, Claims
  <2>2. ASSUME NEW r \in Requests, Step(r)
        PROVE  InDirectory!Next \/ (Members' = Members /\ Claims' = Claims)
    BY <1>2, <2>2, StepRefines
  <2>3. CASE Next
    BY <1>2, <2>2, <2>3, AroundRefines DEF Next, Work, Step
  <2> QED
    BY <1>2, <2>1, <2>3
<1>3. AccountsInv /\ NamesHeld /\ [Next]_vars
        => [InDirectory!Next]_<<{row.name : row \in rows}, [r \in Requests |-> ClaimOf(job[r])]>>
  BY <1>2 DEF Members, Claims
<1> QED
  BY <1>1, <1>3, NamesInvariant, PTL DEF Spec, DirectorySpec, InDirectory!Spec

(* One winner: a consequence of the directory alone.                         *)

\* The claim was entered: its request has been told 201, or is about to be.
Winning == {"entered", "created"}

\* A claim that won has its name in the directory, and no other one has won it.
OneWinner ==
    /\ \A r \in Requests : Claims[r].at \in Winning => Claims[r].name \in Members
    /\ \A r, q \in Requests :
         r # q /\ Claims[r].at \in Winning /\ Claims[q].at \in Winning
           => Claims[r].name # Claims[q].name

\* Nobody deletes rows.
NamesStay == [][Members \subseteq Members']_rows

LEMMA OneClaim ==
    ASSUME NEW r \in Requests, NEW at, Claims[r].at # "none",
           Claims' = [Claims EXCEPT ![r].at = at]
    PROVE  /\ Claims'[r].at = at /\ Claims'[r].name = Claims[r].name
           /\ \A q \in Requests \ {r} : Claims'[q] = Claims[q]
<1>1. Claims[r] = ClaimOf(job[r]) /\ DOMAIN Claims = Requests
  BY DEF Claims
<1>2. Claims[r] = [name |-> Name(r), at |-> Claims[r].at]
  <2>1. ClaimOf(job[r]).at # "none"
    BY <1>1
  <2>2. ClaimOf(job[r]) = [name |-> Name(r), at |-> ClaimOf(job[r]).at]
    BY <2>1 DEF ClaimOf, Name
  <2> QED
    BY <1>1, <2>2
<1> HIDE DEF Claims
<1>3. Claims'[r] = [Claims[r] EXCEPT !.at = at]
  BY <1>1
<1> QED
  BY <1>1, <1>2, <1>3

\* A claim wins a name that was not in the directory, or goes on having won it.
LEMMA WinnerStep ==
    ASSUME OneWinner, Members \subseteq Members', NEW r \in Requests,
           \A q \in Requests \ {r} : Claims'[q] = Claims[q],
           Claims'[r].at \in Winning =>
              /\ Claims'[r].name \in Members'
              /\ \/ Claims[r].at \in Winning /\ Claims'[r].name = Claims[r].name
                 \/ Claims'[r].name \notin Members
    PROVE  OneWinner'
<1>1. \A q \in Requests \ {r} : Claims'[q].at \in Winning =>
         /\ Claims'[q].name \in Members /\ Claims'[q].name \in Members'
         /\ Claims'[r].at \in Winning => Claims'[q].name # Claims'[r].name
  BY DEF OneWinner
<1>2. \A q, s \in Requests \ {r} :
         q # s /\ Claims'[q].at \in Winning /\ Claims'[s].at \in Winning
           => Claims'[q].name # Claims'[s].name
  BY DEF OneWinner
<1>3. \A q, s \in Requests :
         q # s /\ Claims'[q].at \in Winning /\ Claims'[s].at \in Winning
           => Claims'[q].name # Claims'[s].name
  BY <1>1, <1>2
<1>4. \A q \in Requests : Claims'[q].at \in Winning => Claims'[q].name \in Members'
  BY <1>1
<1> HIDE DEF Claims, Members, Winning
<1> QED
  BY <1>3, <1>4 DEF OneWinner

\* A step of the directory.
LEMMA NextWinner ==
    ASSUME InDirectory!Next, OneWinner, Members \subseteq Members'
    PROVE  OneWinner'
<1>1. ASSUME NEW r \in Requests, NEW n \in Names, InDirectory!Ask(r, n)
      PROVE  OneWinner'
  <2>1. Claims' = [Claims EXCEPT ![r] = [at |-> "asking", name |-> n]]
    BY <1>1 DEF InDirectory!Ask, Claims
  <2>2. DOMAIN Claims = Requests
    BY DEF Claims
  <2> HIDE DEF Claims
  <2>3. Claims'[r].at = "asking" /\ \A q \in Requests \ {r} : Claims'[q] = Claims[q]
    BY <2>1, <2>2
  <2>4. Claims'[r].at \notin Winning
    BY <2>3 DEF Winning
  <2> QED
    BY <2>3, <2>4, WinnerStep
<1>2. ASSUME NEW r \in Requests, NEW at, at \notin Winning, Claims[r].at # "none",
             Claims' = [Claims EXCEPT ![r].at = at]
      PROVE  OneWinner'
  <2>1. Claims'[r].at = at /\ \A q \in Requests \ {r} : Claims'[q] = Claims[q]
    BY <1>2, OneClaim
  <2> QED
    BY <1>2, <2>1, WinnerStep
<1>3. ASSUME NEW r \in Requests, InDirectory!Enter(r)
      PROVE  OneWinner'
  <2>1. /\ Claims[r].at = "asking" /\ Claims[r].name \notin Members
        /\ Members' = Members \cup {Claims[r].name}
        /\ Claims' = [Claims EXCEPT ![r].at = "entered"]
    BY <1>3 DEF InDirectory!Enter, InDirectory!Becomes, Claims, Members
  <2>2. /\ Claims'[r].name = Claims[r].name
        /\ \A q \in Requests \ {r} : Claims'[q] = Claims[q]
    BY <2>1, OneClaim
  <2> QED
    BY <2>1, <2>2, WinnerStep
<1>4. ASSUME NEW r \in Requests, InDirectory!Refuse(r)
      PROVE  OneWinner'
  <2>1. Claims[r].at = "asking" /\ Claims' = [Claims EXCEPT ![r].at = "refused"]
    BY <1>4 DEF InDirectory!Refuse, InDirectory!Becomes, Claims
  <2>2. "refused" \notin Winning /\ Claims[r].at # "none"
    BY <2>1 DEF Winning
  <2> HIDE DEF Claims, Members, OneWinner, Winning
  <2> QED
    BY <1>2, <2>1, <2>2
<1>5. ASSUME NEW r \in Requests, InDirectory!Confirm(r)
      PROVE  OneWinner'
  <2>1. Claims[r].at = "entered" /\ Claims' = [Claims EXCEPT ![r].at = "created"]
    BY <1>5 DEF InDirectory!Confirm, InDirectory!Becomes, Claims
  <2>2. /\ Claims'[r].name = Claims[r].name
        /\ \A q \in Requests \ {r} : Claims'[q] = Claims[q]
    BY <2>1, OneClaim
  <2>3. Claims[r].at \in Winning /\ Claims[r].name \in Members
    BY <2>1 DEF Winning, OneWinner
  <2> QED
    BY <2>2, <2>3, WinnerStep
<1>6. ASSUME NEW r \in Requests, InDirectory!Fail(r)
      PROVE  OneWinner'
  <2>1. /\ Claims[r].at \in {"asking", "entered"}
        /\ Claims' = [Claims EXCEPT ![r].at = "failed"]
    BY <1>6 DEF InDirectory!Fail, InDirectory!Becomes, Claims
  <2>2. "failed" \notin Winning /\ Claims[r].at # "none"
    BY <2>1 DEF Winning
  <2> HIDE DEF Claims, Members, OneWinner, Winning
  <2> QED
    BY <1>2, <2>1, <2>2
<1>7. ASSUME NEW leaving \in SUBSET Requests, InDirectory!Leave(leaving)
      PROVE  OneWinner'
  <2>1. \A q \in Requests :
           Claims'[q] = IF q \in leaving THEN [at |-> "none"] ELSE Claims[q]
    BY <1>7 DEF InDirectory!Leave, InDirectory!NoClaim, Claims
  <2>2. \A q \in Requests : Claims'[q].at \in Winning => Claims'[q] = Claims[q]
    BY <2>1 DEF Winning
  <2> HIDE DEF Claims, Members
  <2> QED
    BY <2>2 DEF OneWinner
<1>8. ASSUME InDirectory!Remove
      PROVE  OneWinner'
  <2>1. Claims' = Claims
    BY <1>8 DEF InDirectory!Remove, Claims
  <2> HIDE DEF Claims, Members
  <2> QED
    BY <2>1 DEF OneWinner
<1> QED
  BY <1>1, <1>3, <1>4, <1>5, <1>6, <1>7, <1>8 DEF InDirectory!Next

\* Of any number of overlapping requests for one name at most one is told 201, and
\* a name that was there is never won, unless somebody deletes rows meanwhile.
THEOREM AtMostOneWins == Spec /\ NamesStay => []OneWinner
<1>1. InDirectory!Init => OneWinner
  <2> SUFFICES ASSUME InDirectory!Init PROVE OneWinner
    OBVIOUS
  <2>1. \A r \in Requests : Claims[r].at = "none"
    BY DEF InDirectory!Init, InDirectory!NoClaim, Claims
  <2> QED
    BY <2>1 DEF OneWinner, Winning
<1>2. OneWinner /\ [Members \subseteq Members']_rows
      /\ [InDirectory!Next]_<<{row.name : row \in rows}, [r \in Requests |-> ClaimOf(job[r])]>>
        => OneWinner'
  <2> SUFFICES ASSUME OneWinner, [Members \subseteq Members']_rows,
                      InDirectory!Next \/ (Members' = Members /\ Claims' = Claims)
               PROVE  OneWinner'
    BY DEF Members, Claims
  <2>1. Members \subseteq Members'
    BY DEF Members
  <2>2. Members' = Members /\ Claims' = Claims => OneWinner'
    BY DEF OneWinner
  <2> QED
    BY <2>1, <2>2, NextWinner
<1> QED
  BY <1>1, <1>2, Implements, PTL DEF DirectorySpec, InDirectory!Spec, NamesStay

-----------------------------------------------------------------------------
(* Pipeline.                                                                 *)

\* A request that comes in has a task that may be asked for; until its reply is
\* made it has no headers.
Fresh ==
    \A r \in Requests :
        /\ wire[r].at = "in" => wire[r].task \in Offered
        /\ wire[r].at \in {"in", "handled"} => wire[r].headers = {}

\* A reply that is made has a status.
Statused == \A r \in Requests : wire[r].at = "out" => wire[r].status \in Codes

\* The handler of a request runs in the worker the request came to, from the call of
\* the handler on, and its result stays until the reply is sent.
Linked ==
    \A r \in Requests :
        /\ wire[r].at = "in" => job[r] = Idle
        /\ wire[r].at = "handled" => job[r] # Idle /\ job[r].worker = wire[r].worker
        /\ wire[r].at = "out" =>
             job[r] = Idle \/ (job[r].at = "done" /\ job[r].worker = wire[r].worker)

RequestsInv == Fresh /\ Statused /\ Linked /\ HeadersUnlessCutShort

PipeInv == AccountsInv /\ WireTypeOK /\ RequestsInv

\* The limiter is the outermost layer.
LEMMA StackOrder ==
    Layers = {"limit", "context", "cors"} /\ BeyondLimit = {}
<1>1. /\ Len(Added) = 3
      /\ Added[1] = "cors" /\ Added[2] = "context" /\ Added[3] = "limit"
  BY DEF Added
<1>2. Stack = [i \in 1 .. 3 |-> Added[(3 - i) + 1]]
  BY <1>1 DEF Stack, S!Reverse
<1>3. DOMAIN Stack = 1 .. 3 /\ Stack[1] = "limit" /\ Stack[2] = "context" /\ Stack[3] = "cors"
  BY <1>1, <1>2
<1>4. DOMAIN Stack = {1, 2, 3}
  BY <1>3
<1>5. Layers = {"limit", "context", "cors"}
  BY <1>3, <1>4 DEF Layers
<1>6. \A j \in DOMAIN Stack : 1 \in 1 .. j
  BY <1>4
<1>7. BeyondLimit = {}
  BY <1>3, <1>6 DEF BeyondLimit
<1> QED
  BY <1>5, <1>7

LEMMA OpenWires ==
    ASSUME WireTypeOK, NEW r \in Requests, wire[r].at # "idle"
    PROVE  /\ wire[r] \in OpenWire
           /\ wire[r].at \in {"in", "handled", "out"} /\ wire[r].worker \in Workers
           /\ wire[r].task \in Task /\ wire[r].status \in Codes \cup {0}
           /\ wire[r].headers \in SUBSET Header
<1>1. wire[r] \in OpenWire
  BY DEF WireTypeOK, Wire, NoWire
<1> QED
  BY <1>1 DEF OpenWire

\* Starlette's bare 500 has the headers put on before.
LEMMA BareReply ==
    ASSUME NEW w \in OpenWire, 500 \in Codes \cup {0}
    PROVE  LET bare == [[w EXCEPT !.at = "out"] EXCEPT !.status = 500]
           IN  /\ bare \in OpenWire /\ bare.at = "out" /\ bare.status = 500
               /\ bare.worker = w.worker /\ bare.headers = w.headers
<1> DEFINE v == [w EXCEPT !.at = "out"]
<1>1. v \in OpenWire /\ v.at = "out" /\ v.worker = w.worker /\ v.headers = w.headers
  BY DEF OpenWire
<1> HIDE DEF v
<1> DEFINE bare == [v EXCEPT !.status = 500]
<1>2. /\ bare \in OpenWire /\ bare.at = v.at /\ bare.status = 500
      /\ bare.worker = v.worker /\ bare.headers = v.headers
  BY <1>1 DEF OpenWire
<1> QED
  BY <1>1, <1>2 DEF v

\* What becomes of a request when its reply is made.
LEMMA RepliesAre ==
    ASSUME WireTypeOK, NEW r \in Requests, wire[r].at # "idle", NEW layers,
           NEW s \in Codes \cup {0}, NEW headers \in SUBSET Header
    PROVE  /\ Replied(r, layers, s, headers) =>
                /\ wire' \in [Requests -> Wire]
                /\ wire'[r].at = "out" /\ wire'[r].status = s /\ wire'[r].worker = wire[r].worker
                /\ wire'[r].headers = headers \cup Dress(r, layers, s)
                /\ \A q \in Requests \ {r} : wire'[q] = wire[q]
           /\ Raised(r, layers) =>
                /\ wire' \in [Requests -> Wire]
                /\ wire'[r].at = "out" /\ wire'[r].status = 500 /\ wire'[r].worker = wire[r].worker
                /\ wire'[r].headers = wire[r].headers
                /\ \A q \in Requests \ {r} : wire'[q] = wire[q]
<1>1. wire[r] \in OpenWire
  BY OpenWires
<1>2. Dress(r, layers, s) \in SUBSET Header
  BY DEF Dress, Header
<1>3. ASSUME NEW c \in Codes \cup {0}, NEW h \in SUBSET Header,
             wire' = [wire EXCEPT ![r] = [wire[r] EXCEPT !.at = "out", !.status = c, !.headers = h]]
      PROVE  /\ wire' \in [Requests -> Wire]
             /\ wire'[r].at = "out" /\ wire'[r].status = c /\ wire'[r].worker = wire[r].worker
             /\ wire'[r].headers = h
             /\ \A q \in Requests \ {r} : wire'[q] = wire[q]
  <2>1. [wire[r] EXCEPT !.at = "out", !.status = c, !.headers = h] \in OpenWire
    BY <1>1 DEF OpenWire
  <2> QED
    BY <1>1, <1>3, <2>1 DEF WireTypeOK, Wire, OpenWire
<1>4. ASSUME Replied(r, layers, s, headers)
      PROVE  wire' = [wire EXCEPT ![r] = [wire[r] EXCEPT !.at = "out", !.status = s,
                                            !.headers = headers \cup Dress(r, layers, s)]]
  BY <1>1, <1>4 DEF Replied, WireTypeOK, OpenWire
<1>5. ASSUME Raised(r, layers)
      PROVE  wire' = [wire EXCEPT ![r] = [[wire[r] EXCEPT !.at = "out"] EXCEPT !.status = 500]]
  BY <1>5 DEF Raised, WireTypeOK
<1>6. 500 \in Codes \cup {0} /\ wire[r].headers \in SUBSET Header
      /\ headers \cup Dress(r, layers, s) \in SUBSET Header
  BY <1>2, OpenWires DEF Codes, Status
<1>7. ASSUME Replied(r, layers, s, headers)
      PROVE  /\ wire' \in [Requests -> Wire]
             /\ wire'[r].at = "out" /\ wire'[r].status = s /\ wire'[r].worker = wire[r].worker
             /\ wire'[r].headers = headers \cup Dress(r, layers, s)
             /\ \A q \in Requests \ {r} : wire'[q] = wire[q]
  <2> DEFINE h == headers \cup Dress(r, layers, s)
  <2>1. h \in SUBSET Header
        /\ wire' = [wire EXCEPT ![r] = [wire[r] EXCEPT !.at = "out", !.status = s, !.headers = h]]
    BY <1>4, <1>6, <1>7
  <2> HIDE DEF h
  <2>2. /\ wire' \in [Requests -> Wire]
        /\ wire'[r].at = "out" /\ wire'[r].status = s /\ wire'[r].worker = wire[r].worker
        /\ wire'[r].headers = h
        /\ \A q \in Requests \ {r} : wire'[q] = wire[q]
    BY <1>3, <2>1
  <2> QED
    BY <2>2 DEF h
<1>8. ASSUME Raised(r, layers)
      PROVE  /\ wire' \in [Requests -> Wire]
             /\ wire'[r].at = "out" /\ wire'[r].status = 500 /\ wire'[r].worker = wire[r].worker
             /\ wire'[r].headers = wire[r].headers
             /\ \A q \in Requests \ {r} : wire'[q] = wire[q]
  <2> DEFINE bare == [[wire[r] EXCEPT !.at = "out"] EXCEPT !.status = 500]
  <2>1. /\ bare \in OpenWire /\ bare.at = "out" /\ bare.status = 500
        /\ bare.worker = wire[r].worker /\ bare.headers = wire[r].headers
    BY <1>1, <1>6, BareReply
  <2>2. wire' = [wire EXCEPT ![r] = bare] /\ wire \in [Requests -> Wire]
    BY <1>5, <1>8 DEF WireTypeOK
  <2> HIDE DEF bare
  <2> QED
    BY <2>1, <2>2 DEF Wire
<1> QED
  BY <1>7, <1>8

\* Counting one reply.
LEMMA Counted ==
    ASSUME NEW counter \in [Workers -> [Codes -> Nat]], NEW w \in Workers, NEW s \in Codes
    PROVE  LET next == [counter EXCEPT ![w][s] = @ + 1]
           IN  /\ next \in [Workers -> [Codes -> Nat]]
               /\ \A v \in Workers, c \in Codes :
                    next[v][c] = counter[v][c] + (IF v = w /\ c = s THEN 1 ELSE 0)
<1> DEFINE next == [counter EXCEPT ![w][s] = @ + 1]
<1>1. next = [counter EXCEPT ![w] = [counter[w] EXCEPT ![s] = counter[w][s] + 1]]
  OBVIOUS
<1>2. [counter[w] EXCEPT ![s] = counter[w][s] + 1] \in [Codes -> Nat]
  OBVIOUS
<1>3. \A v \in Workers, c \in Codes :
        next[v][c] = counter[v][c] + (IF v = w /\ c = s THEN 1 ELSE 0)
  OBVIOUS
<1> QED
  BY <1>1, <1>2, <1>3

\* The middlewares take nothing from the handlers' steps and add none.
LEMMA Inner ==
    ASSUME WireTypeOK, Fresh, [PipeNext]_pipeVars
    PROVE  [Next]_vars
<1>1. ASSUME NEW r \in Requests, Handle(r)
      PROVE  Next
  <2>1. wire[r].at = "in" /\ Begin(r, wire[r].worker, wire[r].task)
    BY <1>1 DEF Handle
  <2>2. wire[r].worker \in Workers /\ wire[r].task \in Offered
    BY <2>1, OpenWires DEF Fresh
  <2> QED
    BY <2>1, <2>2 DEF Next
<1>2. ASSUME NEW r \in Requests, Progress(r)
      PROVE  [Next]_vars
  BY <1>1, <1>2 DEF Progress, Leave, Send, Next
<1>3. ASSUME NEW r \in Requests,
             \/ \E w \in Workers, task \in Offered : Arrive(r, w, task)
             \/ Deny(r) \/ LimiterFails(r)
      PROVE  UNCHANGED vars
  BY <1>3 DEF Arrive, Deny, LimiterFails
<1>4. ASSUME NEW r \in Requests, Expired(r) \/ Break(r)
      PROVE  Next
  BY <1>4 DEF Next
<1>5. ASSUME NEW w \in Workers, Restart(w)
      PROVE  Next
  BY <1>5 DEF Restart, Next
<1>6. SeedDeletes => Next
  BY DEF Next
<1>7. UNCHANGED pipeVars => UNCHANGED vars
  BY DEF pipeVars
<1> QED
  BY <1>2, <1>3, <1>4, <1>5, <1>6, <1>7 DEF PipeNext

\* A reply is made, with status s, and counted if the layer that counts is passed.
Makes(r, s, counted) ==
    /\ wire[r].at \in {"in", "handled"}
    /\ wire' \in [Requests -> Wire]
    /\ wire'[r].at = "out" /\ wire'[r].status = s /\ wire'[r].worker = wire[r].worker
    /\ \A q \in Requests \ {r} : wire'[q] = wire[q]
    /\ total' = IF counted THEN Count(r, total, s) ELSE total

\* The three ways to make one, and the headers it has.
LEMMA Replies ==
    ASSUME AccountsInv, WireTypeOK, Fresh, NEW r \in Requests
    PROVE  /\ Deny(r) => Makes(r, 429, FALSE) /\ wire'[r].headers = {"X-RateLimit-Limit"}
           /\ LimiterFails(r) => Makes(r, 500, FALSE) /\ wire'[r].headers = {}
           /\ Leave(r) =>
                IF Answered(r)
                THEN \E s \in Status :
                       /\ Makes(r, s, TRUE)
                       /\ {"X-Request-ID", "Access-Control-Allow-Origin"} \subseteq wire'[r].headers
                ELSE Makes(r, 500, TRUE) /\ wire'[r].headers = {}
<1>1. 429 \in Codes \cup {0} /\ 500 \in Codes \cup {0} /\ {"X-RateLimit-Limit"} \in SUBSET Header
      /\ {} \in SUBSET Header /\ Status \subseteq Codes \cup {0}
  BY DEF Codes, Status, Header
<1>2. ASSUME Deny(r)
      PROVE  Makes(r, 429, FALSE) /\ wire'[r].headers = {"X-RateLimit-Limit"}
  <2>1. /\ wire[r].at = "in" /\ Replied(r, BeyondLimit, 429, {"X-RateLimit-Limit"})
    BY <1>2 DEF Deny
  <2>2. Dress(r, BeyondLimit, 429) = {} /\ total' = total
    BY <2>1, StackOrder DEF Dress, Replied, Record
  <2> QED
    BY <1>1, <2>1, <2>2, RepliesAre DEF Makes
<1>3. ASSUME LimiterFails(r)
      PROVE  Makes(r, 500, FALSE) /\ wire'[r].headers = {}
  <2>1. wire[r].at = "in" /\ Raised(r, BeyondLimit) /\ wire[r].headers = {}
    BY <1>3 DEF LimiterFails, Fresh
  <2>2. total' = total
    BY <2>1, StackOrder DEF Raised, Record
  <2>3. wire[r].at # "idle"
    BY <2>1
  <2>4. /\ wire' \in [Requests -> Wire]
        /\ wire'[r].at = "out" /\ wire'[r].status = 500 /\ wire'[r].worker = wire[r].worker
        /\ wire'[r].headers = wire[r].headers
        /\ \A q \in Requests \ {r} : wire'[q] = wire[q]
    BY <1>1, <2>1, <2>3, RepliesAre
  <2> QED
    BY <2>1, <2>2, <2>4 DEF Makes
<1>4. ASSUME Leave(r), job[r].status = Unhandled
      PROVE  Makes(r, 500, TRUE) /\ wire'[r].headers = {}
  <2>1. wire[r].at = "handled" /\ Raised(r, Layers) /\ wire[r].headers = {}
    BY <1>4 DEF Leave, Fresh
  <2>2. total' = Count(r, total, 500)
    BY <2>1, StackOrder DEF Raised, Record
  <2>3. wire[r].at # "idle"
    BY <2>1
  <2>4. /\ wire' \in [Requests -> Wire]
        /\ wire'[r].at = "out" /\ wire'[r].status = 500 /\ wire'[r].worker = wire[r].worker
        /\ wire'[r].headers = wire[r].headers
        /\ \A q \in Requests \ {r} : wire'[q] = wire[q]
    BY <1>1, <2>1, <2>3, RepliesAre
  <2> QED
    BY <2>1, <2>2, <2>4 DEF Makes
<1>5. ASSUME Leave(r), job[r].status # Unhandled
      PROVE  /\ job[r].status \in Status /\ Makes(r, job[r].status, TRUE)
             /\ {"X-Request-ID", "Access-Control-Allow-Origin"} \subseteq wire'[r].headers
  <2>1. wire[r].at = "handled" /\ Replied(r, Layers, job[r].status, {})
    BY <1>5 DEF Leave
  <2>2. job[r].status \in Status
    BY <1>5, Active, Busy DEF Leave, AccountsInv, Outcome
  <2>3. total' = Count(r, total, job[r].status)
    BY <2>1, StackOrder DEF Replied, Record
  <2>4. {"X-Request-ID", "Access-Control-Allow-Origin"} \subseteq Dress(r, Layers, job[r].status)
    BY StackOrder DEF Dress
  <2> QED
    BY <1>1, <2>1, <2>2, <2>3, <2>4, RepliesAre DEF Makes
<1>6. Unhandled \notin Status
  BY DEF Status, Unhandled
<1>7. ASSUME Leave(r)
      PROVE  Answered(r) <=> job[r].status # Unhandled
  <2>1. job[r].status # Unhandled => job[r].status \in Status
    BY <1>5, <1>7
  <2>2. job[r].at = "done"
    BY <1>7 DEF Leave
  <2> QED
    BY <1>6, <2>1, <2>2 DEF Answered
<1> QED
  BY <1>2, <1>3, <1>4, <1>5, <1>7

\* The other things that happen to a request.
LEMMA Rest ==
    ASSUME WireTypeOK, NEW r \in Requests
    PROVE  /\ \A w \in Workers, task \in Offered : Arrive(r, w, task) =>
                /\ wire[r].at = "idle"
                /\ wire' = [wire EXCEPT ![r] = [at |-> "in", worker |-> w, task |-> task,
                                               status |-> 0, headers |-> {}]]
           /\ Handle(r) => /\ wire[r].at = "in" /\ wire' \in [Requests -> Wire]
                           /\ wire'[r].at = "handled" /\ wire'[r].headers = wire[r].headers
                           /\ wire'[r].worker = wire[r].worker
                           /\ \A q \in Requests \ {r} : wire'[q] = wire[q]
           /\ Send(r) => /\ wire[r].at = "out" /\ wire'[r] = NoWire
                         /\ wire' \in [Requests -> Wire]
                         /\ \A q \in Requests \ {r} : wire'[q] = wire[q]
<1>1. Handle(r) => /\ wire[r].at = "in" /\ wire' \in [Requests -> Wire]
                   /\ wire'[r].at = "handled" /\ wire'[r].headers = wire[r].headers
                   /\ wire'[r].worker = wire[r].worker
                   /\ \A q \in Requests \ {r} : wire'[q] = wire[q]
  <2> SUFFICES ASSUME Handle(r)
               PROVE  /\ wire[r].at = "in" /\ wire' \in [Requests -> Wire]
                      /\ wire'[r].at = "handled" /\ wire'[r].headers = wire[r].headers
                      /\ wire'[r].worker = wire[r].worker
                      /\ \A q \in Requests \ {r} : wire'[q] = wire[q]
    OBVIOUS
  <2>1. wire[r].at = "in" /\ wire' = [wire EXCEPT ![r].at = "handled"]
    BY DEF Handle
  <2>2. wire[r] \in OpenWire
    BY <2>1, OpenWires
  <2>3. [wire[r] EXCEPT !.at = "handled"] \in OpenWire
    BY <2>2 DEF OpenWire
  <2> QED
    BY <2>1, <2>2, <2>3 DEF WireTypeOK, Wire, OpenWire
<1>2. Send(r) => /\ wire[r].at = "out" /\ wire'[r] = NoWire
                 /\ wire' \in [Requests -> Wire]
                 /\ \A q \in Requests \ {r} : wire'[q] = wire[q]
  BY DEF Send, WireTypeOK, Wire
<1>3. \A w \in Workers, task \in Offered : Arrive(r, w, task) =>
        /\ wire[r].at = "idle"
        /\ wire' = [wire EXCEPT ![r] = [at |-> "in", worker |-> w, task |-> task,
                                       status |-> 0, headers |-> {}]]
  BY DEF Arrive, NoWire
<1> QED
  BY <1>1, <1>2, <1>3
-----------------------------------------------------------------------------
(* The invariant of the pipeline, request by request.                        *)

Sound(v, j, offered) ==
    /\ v.at = "in" => v.task \in offered /\ j = Idle
    /\ v.at \in {"in", "handled"} => v.headers = {}
    /\ v.at = "handled" => j # Idle /\ j.worker = v.worker
    /\ v.at = "out" =>
         /\ v.status \in Codes
         /\ j = Idle \/ (j.at = "done" /\ j.worker = v.worker)
         /\ LET due == {"X-Request-ID", "Access-Control-Allow-Origin"}
            IN  IF j.at = "done" /\ j.status \in Status THEN due \subseteq v.headers
                                                        ELSE due \cap v.headers = {}

LEMMA SoundWires ==
    /\ RequestsInv => \A r \in Requests : Sound(wire[r], job[r], Offered)
    /\ (\A r \in Requests : Sound(wire'[r], job'[r], Offered')) => RequestsInv'
  BY DEF RequestsInv, Fresh, Statused, Linked, HeadersUnlessCutShort, Answered, Sound

\* Steps of handlers that the middlewares do not see: of those that run, or whose
\* reply is sent.
Unseen ==
    \/ \E r \in Requests : Step(r) \/ Close(r) \/ (wire[r] = NoWire /\ Finish(r))
    \/ SeedDeletes \/ UNCHANGED vars

LEMMA PipeCases ==
    ASSUME [PipeNext]_pipeVars
    PROVE  \/ \E r \in Requests :
                \/ \E w \in Workers, task \in Offered : Arrive(r, w, task)
                \/ Deny(r) \/ LimiterFails(r) \/ Leave(r) \/ Handle(r) \/ Send(r)
           \/ \E w \in Workers : Restart(w)
           \/ Inside /\ Unseen
<1>1. CASE PipeNext
  <2>1. ASSUME NEW r \in Requests, Inside /\ (Work(r) \/ Expired(r) \/ Break(r))
        PROVE  Unseen
    BY <2>1 DEF Unseen, Step, Work
  <2> QED
    BY <1>1, <2>1 DEF PipeNext, Progress, Unseen
<1>2. CASE UNCHANGED pipeVars
  BY <1>2 DEF pipeVars, Inside, Unseen
<1> QED
  BY <1>1, <1>2

\* A client keeps the tokens it has.
LEMMA OfferedStays ==
    ASSUME AccountsInv, [Next]_vars
    PROVE  Offered \subseteq Offered'
<1>1. ASSUME NEW r \in Requests, Step(r)
      PROVE  tokens \subseteq tokens'
  BY <1>1, StepTables DEF AccountsInv
<1>2. tokens \subseteq tokens'
  <2>1. CASE UNCHANGED tokens
    BY <2>1
  <2>2. CASE Next
    BY <1>1, <2>2 DEF Next, Work, Step, Begin, Close, Finish, Die, SeedDeletes
  <2> QED
    BY <2>1, <2>2 DEF vars
<1> QED
  BY <1>2 DEF Offered

LEMMA StaysSound ==
    ASSUME NEW v, NEW j, NEW offered, NEW more, offered \subseteq more, Sound(v, j, offered)
    PROVE  Sound(v, j, more)
  BY DEF Sound

\* One request moves, and what it becomes is sound.
LEMMA OneMoves ==
    ASSUME PipeInv, [Next]_vars, NEW r \in Requests, Sound(wire'[r], job'[r], Offered'),
           \A q \in Requests \ {r} : wire'[q] = wire[q] /\ job'[q] = job[q]
    PROVE  RequestsInv'
<1>1. \A q \in Requests : Sound(wire[q], job[q], Offered)
  BY SoundWires DEF PipeInv
<1>2. Offered \subseteq Offered'
  BY OfferedStays DEF PipeInv
<1>3. \A q \in Requests : Sound(wire'[q], job'[q], Offered')
  BY <1>1, <1>2, StaysSound
<1> QED
  BY <1>3, SoundWires

\* A handler goes on behind the middlewares: its request waits for it.
LEMMA UnseenSound ==
    ASSUME PipeInv, [Next]_vars, Inside, Unseen
    PROVE  RequestsInv'
<1> USE DEF PipeInv
<1>1. wire' = wire /\ \A q \in Requests : Sound(wire[q], job[q], Offered)
  BY SoundWires DEF Inside
<1>2. Offered \subseteq Offered'
  BY OfferedStays
<1>3. ASSUME \A q \in Requests : Sound(wire[q], job'[q], Offered)
      PROVE  RequestsInv'
  <2>1. \A q \in Requests : Sound(wire'[q], job'[q], Offered')
    BY <1>1, <1>2, <1>3, StaysSound
  <2> QED
    BY <2>1, SoundWires
<1>4. ASSUME NEW r \in Requests, Step(r)
      PROVE  RequestsInv'
  <2>1. PICK at \in Running \cup {"done"} : \E id, status : Moves(r, at, id, status)
    BY <1>4, StepMoves DEF AccountsInv
  <2>2. job[r].at \in Running
    BY <1>4, StepMoves DEF AccountsInv
  <2>3. job'[r].at # "idle" /\ job'[r].worker = job[r].worker
        /\ \A q \in Requests \ {r} : job'[q] = job[q]
    BY <2>1 DEF Moves, Running
  <2>4. wire[r].at \notin {"in", "out"}
    BY <1>1, <2>2 DEF Sound, Idle, Running
  <2>5. Sound(wire[r], job'[r], Offered)
    BY <1>1, <2>3, <2>4 DEF Sound, Idle
  <2> QED
    BY <1>1, <1>3, <2>3, <2>5
<1>5. ASSUME NEW r \in Requests, wire[r] = NoWire, Finish(r)
      PROVE  RequestsInv'
  <2>1. Sound(wire[r], job'[r], Offered)
    BY <1>5 DEF Sound, NoWire
  <2>2. \A q \in Requests \ {r} : job'[q] = job[q]
    BY <1>5 DEF Finish, AccountsInv, TypeOK
  <2> QED
    BY <1>1, <1>3, <2>1, <2>2
<1>6. ASSUME job' = job
      PROVE  RequestsInv'
  BY <1>1, <1>3, <1>6
<1> QED
  BY <1>4, <1>5, <1>6 DEF Unseen, Close, SeedDeletes, vars

LEMMA NextSound ==
    ASSUME PipeInv, [PipeNext]_pipeVars
    PROVE  wire' \in [Requests -> Wire] /\ RequestsInv'
<1> USE DEF PipeInv
<1>1. [Next]_vars
  BY Inner DEF RequestsInv
<1>2. Offered \subseteq Offered' /\ \A q \in Requests : Sound(wire[q], job[q], Offered)
  BY <1>1, OfferedStays, SoundWires
<1>3. ASSUME NEW r \in Requests, NEW w \in Workers, NEW task \in Offered, Arrive(r, w, task)
      PROVE  wire' \in [Requests -> Wire] /\ RequestsInv'
  <2> DEFINE new == [at |-> "in", worker |-> w, task |-> task, status |-> 0, headers |-> {}]
  <2>1. wire' = [wire EXCEPT ![r] = new] /\ job[r] = Idle /\ job' = job
    BY <1>3 DEF Arrive, vars
  <2>2. task \in Task
    BY DEF Offered, AccountsInv, TypeOK, Task
  <2>3. new \in OpenWire /\ Sound(new, Idle, Offered)
    BY <2>2 DEF OpenWire, Sound
  <2> HIDE DEF new
  <2>4. wire' \in [Requests -> Wire] /\ wire'[r] = new
        /\ \A q \in Requests \ {r} : wire'[q] = wire[q]
    BY <2>1, <2>3 DEF WireTypeOK, Wire
  <2>5. Sound(wire'[r], job'[r], Offered')
    BY <1>2, <2>1, <2>3, <2>4, StaysSound
  <2> QED
    BY <1>1, <2>1, <2>4, <2>5, OneMoves
<1>4. ASSUME NEW r \in Requests, Deny(r) \/ LimiterFails(r) \/ Leave(r)
      PROVE  wire' \in [Requests -> Wire] /\ RequestsInv'
  <2>1. /\ wire' \in [Requests -> Wire] /\ wire'[r].at = "out"
        /\ wire'[r].worker = wire[r].worker
        /\ \A q \in Requests \ {r} : wire'[q] = wire[q]
    BY <1>4, Replies DEF Makes, RequestsInv
  <2>2. job' = job
    BY <1>4 DEF Deny, LimiterFails, Leave, vars
  <2>3. ASSUME Deny(r) \/ LimiterFails(r)
        PROVE  Sound(wire'[r], job[r], Offered')
    <3>1. job[r] = Idle
      BY <1>2, <2>3 DEF Deny, LimiterFails, Sound
    <3>2. \/ wire'[r].status = 429 /\ wire'[r].headers = {"X-RateLimit-Limit"}
          \/ wire'[r].status = 500 /\ wire'[r].headers = {}
      BY <2>3, Replies DEF Makes, RequestsInv
    <3> QED
      BY <2>1, <3>1, <3>2 DEF Sound, Idle, Codes, Status
  <2>4. ASSUME Leave(r)
        PROVE  Sound(wire'[r], job[r], Offered')
    <3>1. job[r].at = "done" /\ job[r].worker = wire[r].worker
      BY <1>2, <2>4 DEF Leave, Sound
    <3>2. /\ wire'[r].status \in Codes
          /\ IF Answered(r)
             THEN {"X-Request-ID", "Access-Control-Allow-Origin"} \subseteq wire'[r].headers
             ELSE wire'[r].headers = {}
      BY <2>4, Replies DEF Makes, RequestsInv, Codes, Status
    <3> QED
      BY <2>1, <3>1, <3>2 DEF Sound, Answered
  <2> QED
    BY <1>1, <1>4, <2>1, <2>2, <2>3, <2>4, OneMoves
<1>5. ASSUME NEW r \in Requests, Handle(r)
      PROVE  wire' \in [Requests -> Wire] /\ RequestsInv'
  <2>1. /\ wire[r].at = "in" /\ wire' \in [Requests -> Wire]
        /\ wire'[r].at = "handled" /\ wire'[r].headers = wire[r].headers
        /\ wire'[r].worker = wire[r].worker
        /\ \A q \in Requests \ {r} : wire'[q] = wire[q]
    BY <1>5, Rest
  <2>2. /\ job'[r].worker = wire[r].worker /\ job'[r].at = "asked"
        /\ \A q \in Requests \ {r} : job'[q] = job[q]
    BY <1>5 DEF Handle, Begin, AccountsInv, TypeOK
  <2>3. Sound(wire'[r], job'[r], Offered')
    BY <1>2, <2>1, <2>2 DEF Sound, Idle
  <2> QED
    BY <1>1, <2>1, <2>2, <2>3, OneMoves
<1>6. ASSUME NEW r \in Requests, Send(r)
      PROVE  wire' \in [Requests -> Wire] /\ RequestsInv'
  <2>1. /\ wire'[r] = NoWire /\ wire' \in [Requests -> Wire] /\ job' = job
        /\ \A q \in Requests \ {r} : wire'[q] = wire[q]
    BY <1>6, Rest DEF Send, vars
  <2>2. Sound(wire'[r], job'[r], Offered')
    BY <2>1 DEF Sound, NoWire
  <2> QED
    BY <1>1, <2>1, <2>2, OneMoves
<1>7. ASSUME NEW w \in Workers, Restart(w)
      PROVE  wire' \in [Requests -> Wire] /\ RequestsInv'
  <2>1. wire' = [r \in Requests |->
                   IF wire[r] # NoWire /\ wire[r].worker = w THEN NoWire ELSE wire[r]]
    BY <1>7 DEF Restart
  <2>2. wire' \in [Requests -> Wire]
    BY <2>1 DEF WireTypeOK, Wire
  <2>3. job' = [r \in Requests |-> IF r \in Served(w) THEN Idle ELSE job[r]]
    BY <1>7 DEF Restart, Die
  <2>4. ASSUME NEW q \in Requests
        PROVE  Sound(wire'[q], job'[q], Offered')
    <3>1. CASE wire[q] = NoWire \/ wire[q].worker = w
      <4>1. wire'[q] = NoWire
        BY <2>1, <3>1
      <4> QED
        BY <4>1 DEF Sound, NoWire
    <3>2. CASE wire[q] # NoWire /\ wire[q].worker # w
      <4>1. wire'[q] = wire[q]
        BY <2>1, <3>2
      <4>2. wire[q].at \in {"in", "handled", "out"}
        BY <3>2 DEF WireTypeOK, Wire, OpenWire
      <4>3. job[q] = Idle \/ job[q].worker = wire[q].worker
        BY <1>2, <4>2 DEF Sound
      <4>4. job'[q] = job[q]
        BY <2>3, <3>2, <4>3 DEF Served
      <4> QED
        BY <1>2, <4>1, <4>4, StaysSound
    <3> QED
      BY <3>1, <3>2
  <2> QED
    BY <2>2, <2>4, SoundWires
<1>8. ASSUME Inside, Unseen
      PROVE  wire' \in [Requests -> Wire] /\ RequestsInv'
  BY <1>1, <1>8, UnseenSound DEF Inside, WireTypeOK
<1> QED
  BY <1>3, <1>4, <1>5, <1>6, <1>7, <1>8, PipeCases

LEMMA NextCounters ==
    ASSUME PipeInv, [PipeNext]_pipeVars
    PROVE  /\ arrived' \in 0 .. MaxRequests
           /\ total' \in [Workers -> [Codes -> Nat]]
           /\ refused' \in [Workers -> Nat]
           /\ sent' \in [Workers -> [Codes -> Nat]]
<1> USE DEF PipeInv, RequestsInv
<1>1. /\ arrived \in 0 .. MaxRequests
      /\ total \in [Workers -> [Codes -> Nat]]
      /\ refused \in [Workers -> Nat]
      /\ sent \in [Workers -> [Codes -> Nat]]
  BY DEF WireTypeOK
<1>2. ASSUME NEW r \in Requests, NEW w \in Workers, NEW task \in Offered, Arrive(r, w, task)
      PROVE  arrived' \in 0 .. MaxRequests /\ UNCHANGED counters
  BY <1>1, <1>2, MaxRequestsAssumption DEF Arrive
<1>3. ASSUME NEW r \in Requests, Deny(r) \/ LimiterFails(r) \/ Leave(r)
      PROVE  /\ arrived' = arrived /\ sent' = sent
             /\ total' \in [Workers -> [Codes -> Nat]] /\ refused' \in [Workers -> Nat]
  <2>1. \E s \in Codes : total' = Count(r, total, s) \/ total' = total
    BY <1>3, Replies DEF Makes, Codes, Status
  <2>2. wire[r].worker \in Workers
    BY <1>3, OpenWires DEF Deny, LimiterFails, Leave
  <2> DEFINE w == wire[r].worker
  <2>3. ASSUME NEW s \in Codes
        PROVE  [total EXCEPT ![w][s] = @ + 1] \in [Workers -> [Codes -> Nat]]
    <3>1. w \in Workers
      BY <2>2
    <3> HIDE DEF w
    <3> QED
      BY <1>1, <3>1, Counted
  <2>4. total' \in [Workers -> [Codes -> Nat]]
    BY <1>1, <2>1, <2>3 DEF Count
  <2>5. refused' \in [Workers -> Nat]
    BY <1>1, <1>3, <2>2 DEF Deny, LimiterFails, Leave
  <2> QED
    BY <1>3, <2>4, <2>5 DEF Deny, LimiterFails, Leave
<1>4. ASSUME NEW r \in Requests, Handle(r)
      PROVE  UNCHANGED <<arrived, counters>>
  BY <1>4 DEF Handle
<1>5. ASSUME NEW r \in Requests, Send(r)
      PROVE  UNCHANGED <<arrived, total, refused>> /\ sent' \in [Workers -> [Codes -> Nat]]
  <2>1. wire[r].worker \in Workers /\ wire[r].status \in Codes
    BY <1>5, OpenWires DEF Send, Statused
  <2> QED
    BY <1>1, <1>5, <2>1, Counted DEF Send, Count
<1>6. ASSUME NEW w \in Workers, Restart(w)
      PROVE  /\ UNCHANGED arrived
             /\ total' \in [Workers -> [Codes -> Nat]] /\ refused' \in [Workers -> Nat]
             /\ sent' \in [Workers -> [Codes -> Nat]]
  <2>1. NoneSent \in [Codes -> Nat]
    BY DEF NoneSent
  <2> QED
    BY <1>1, <1>6, <2>1 DEF Restart
<1>7. Inside => UNCHANGED <<arrived, counters>>
  BY DEF Inside
<1> QED
  BY <1>1, <1>2, <1>3, <1>4, <1>5, <1>6, <1>7, PipeCases DEF counters

LEMMA InitPipe == PipeInit => PipeInv
<1> SUFFICES ASSUME PipeInit PROVE PipeInv
  OBVIOUS
<1>1. NoneSent \in [Codes -> Nat]
  BY DEF NoneSent
<1>2. WireTypeOK
  BY <1>1, MaxRequestsAssumption DEF PipeInit, WireTypeOK, Wire
<1>3. \A r \in Requests : wire[r].at = "idle"
  BY DEF PipeInit, NoWire
<1>4. RequestsInv
  BY <1>3 DEF RequestsInv, Fresh, Statused, Linked, HeadersUnlessCutShort
<1> QED
  BY <1>2, <1>4, InitAccounts DEF PipeInit, PipeInv

LEMMA NextPipe == PipeInv /\ [PipeNext]_pipeVars => PipeInv' /\ [Next]_vars
<1> SUFFICES ASSUME PipeInv, [PipeNext]_pipeVars PROVE PipeInv' /\ [Next]_vars
  OBVIOUS
<1>1. [Next]_vars
  BY Inner DEF PipeInv, RequestsInv
<1>2. AccountsInv'
  BY <1>1, NextAccounts DEF PipeInv
<1>3. WireTypeOK'
  BY NextSound, NextCounters DEF WireTypeOK
<1>4. RequestsInv'
  BY NextSound
<1> QED
  BY <1>1, <1>2, <1>3, <1>4 DEF PipeInv

\* The pipeline calls handlers of Accounts and takes no other part in what they do,
\* so whatever holds of Accounts holds behind the middlewares.
THEOREM Composed == PipeSpec => Spec
<1>1. PipeInit => Init
  BY DEF PipeInit
<1> QED
  BY <1>1, InitPipe, NextPipe, PTL DEF PipeSpec, Spec

\* A request inside the middlewares has no headers yet, and each reply a status.
THEOREM PipeInvariant == PipeSpec => []PipeInv
  BY InitPipe, NextPipe, PTL DEF PipeSpec

\* The state of the middlewares, the replies and the counters has its type.
THEOREM WireTyped == PipeSpec => []WireTypeOK
<1>1. PipeInv => WireTypeOK
  BY DEF PipeInv
<1> QED
  BY <1>1, PipeInvariant, PTL

\* The tables, tokens and handlers have their type, behind the middlewares too.
THEOREM Typed == PipeSpec => []TypeOK
<1>1. PipeInv => TypeOK
  BY DEF PipeInv, AccountsInv
<1> QED
  BY <1>1, PipeInvariant, PTL

\* A token of get_current_user opens no other account than that it was issued for.
THEOREM Personal == PipeSpec => []TokensArePersonal
<1>1. PipeInv => TokensArePersonal
  BY DEF PipeInv, AccountsInv
<1> QED
  BY <1>1, PipeInvariant, PTL

\* X-Request-ID and the CORS headers are on every reply but those of the rate
\* limiter and of exceptions nobody handles, which have neither.
THEOREM HeadersHold == PipeSpec => []HeadersUnlessCutShort
<1>1. PipeInv => HeadersUnlessCutShort
  BY DEF PipeInv, RequestsInv
<1> QED
  BY <1>1, PipeInvariant, PTL

-----------------------------------------------------------------------------
(* The counters.                                                             *)

LEMMA MadeFinite ==
    ASSUME NEW w, NEW s
    PROVE  IsFiniteSet(Made(w, s)) /\ OnTheWay(w, s) \in Nat
<1>1. Made(w, s) \in SUBSET Requests
  BY DEF Made
<1>2. IsFiniteSet(Made(w, s))
  BY <1>1, SlotsAssumption, FS_Subset
<1> QED
  BY <1>2, FS_CardinalityType DEF OnTheWay

\* One more reply is on its way.
LEMMA OneMore ==
    ASSUME WireTypeOK, NEW r \in Requests, NEW s, NEW counted, Makes(r, s, counted),
           NEW w \in Workers, NEW c \in Codes
    PROVE  OnTheWay(w, c)' = OnTheWay(w, c) + (IF w = wire[r].worker /\ c = s THEN 1 ELSE 0)
<1>1. r \notin Made(w, c)
  BY DEF Makes, Made
<1>2. \A q \in Requests \ {r} : q \in Made(w, c)' <=> q \in Made(w, c)
  BY DEF Makes, Made
<1>3. r \in Made(w, c)' <=> (w = wire[r].worker /\ c = s)
  BY DEF Makes, Made
<1>4. Made(w, c)' \subseteq Requests /\ Made(w, c) \subseteq Requests
  BY DEF Made
<1>5. CASE w = wire[r].worker /\ c = s
  <2>1. Made(w, c)' = Made(w, c) \cup {r}
    BY <1>2, <1>3, <1>4, <1>5
  <2>2. Cardinality(Made(w, c) \cup {r}) = Cardinality(Made(w, c)) + 1
    BY <1>1, MadeFinite, FS_AddElement
  <2> QED
    BY <1>5, <2>1, <2>2 DEF OnTheWay
<1>6. CASE ~ (w = wire[r].worker /\ c = s)
  <2>1. Made(w, c)' = Made(w, c)
    BY <1>1, <1>2, <1>3, <1>4, <1>6
  <2>2. OnTheWay(w, c)' = OnTheWay(w, c)
    BY <2>1 DEF OnTheWay
  <2> QED
    BY <1>6, <2>2, MadeFinite
<1> QED
  BY <1>5, <1>6

\* One reply less is.
LEMMA OneLess ==
    ASSUME WireTypeOK, NEW r \in Requests, Send(r), NEW w \in Workers, NEW c \in Codes
    PROVE  OnTheWay(w, c)' = OnTheWay(w, c)
                              - (IF w = wire[r].worker /\ c = wire[r].status THEN 1 ELSE 0)
<1>1. /\ wire[r].at = "out" /\ wire'[r] = NoWire
      /\ \A q \in Requests \ {r} : wire'[q] = wire[q]
  BY Rest
<1>2. \A q \in Requests \ {r} : q \in Made(w, c)' <=> q \in Made(w, c)
  BY <1>1 DEF Made
<1>3. r \notin Made(w, c)' /\ (r \in Made(w, c) <=> (w = wire[r].worker /\ c = wire[r].status))
  BY <1>1 DEF Made, NoWire
<1>4. Made(w, c)' \subseteq Requests /\ Made(w, c) \subseteq Requests
  BY DEF Made
<1>5. Made(w, c)' = Made(w, c) \ {r}
  BY <1>2, <1>3, <1>4
<1>6. Cardinality(Made(w, c) \ {r})
        = IF r \in Made(w, c) THEN Cardinality(Made(w, c)) - 1 ELSE Cardinality(Made(w, c))
  BY MadeFinite, FS_RemoveElement
<1>7. OnTheWay(w, c) \in Nat
  BY MadeFinite
<1> QED
  BY <1>3, <1>5, <1>6, <1>7 DEF OnTheWay

LEMMA NoneMade ==
    ASSUME NEW w, NEW c, \A r \in Requests : ~ (wire[r].at = "out" /\ wire[r].worker = w)
    PROVE  OnTheWay(w, c) = 0
<1>1. Made(w, c) = {}
  BY DEF Made
<1> QED
  BY <1>1, FS_EmptySet DEF OnTheWay

\* What the counters of worker w say.
Agrees(w) ==
    /\ \A s \in Status \ {500} : total[w][s] = sent[w][s] + OnTheWay(w, s)
    /\ refused[w] = sent[w][429] + OnTheWay(w, 429)
    /\ total[w][429] = 0
    /\ total[w][500] <= sent[w][500] + OnTheWay(w, 500)

\* Nothing is counted, sent or on its way, as far as worker w is concerned.
LEMMA SameCounts ==
    ASSUME NEW w \in Workers, Agrees(w), \A c \in Codes : OnTheWay(w, c)' = OnTheWay(w, c),
           total'[w] = total[w], refused'[w] = refused[w], sent'[w] = sent[w]
    PROVE  Agrees(w)'
<1>1. Status \subseteq Codes /\ 429 \in Codes /\ 500 \in Codes
  BY DEF Codes, Status
<1> QED
  BY <1>1 DEF Agrees

\* A reply of status s is made by worker v: counted in total if it is of a handler,
\* in refused if it is of the limiter.
LEMMA MakesAgree ==
    ASSUME WireTypeOK, NEW r \in Requests, wire[r].worker \in Workers, NEW s \in Codes,
           NEW counted, Makes(r, s, counted), sent' = sent, NEW w \in Workers, Agrees(w),
           \/ s = 429 /\ counted = FALSE
              /\ refused' = [refused EXCEPT ![wire[r].worker] = @ + 1]
           \/ s = 500 /\ refused' = refused
           \/ s \in Status /\ counted = TRUE /\ refused' = refused
    PROVE  Agrees(w)'
<1> DEFINE v == wire[r].worker
<1>1. /\ total \in [Workers -> [Codes -> Nat]] /\ refused \in [Workers -> Nat]
      /\ sent \in [Workers -> [Codes -> Nat]] /\ v \in Workers
  BY DEF WireTypeOK
<1>2. \A c \in Codes : /\ OnTheWay(w, c) \in Nat
                       /\ OnTheWay(w, c)' = OnTheWay(w, c) + (IF w = v /\ c = s THEN 1 ELSE 0)
  BY OneMore, MadeFinite
<1>3. total' = IF counted THEN [total EXCEPT ![v][s] = @ + 1] ELSE total
  BY DEF Makes, Count
<1>4. refused' = IF s = 429 THEN [refused EXCEPT ![v] = @ + 1] ELSE refused
  BY DEF Status
<1>5. Status \subseteq Codes /\ 429 \in Codes \ Status /\ 500 \in Status
  BY DEF Codes, Status
<1>6. s = 429 => counted = FALSE
  BY <1>5
<1>7. s \in Status \ {500} => counted = TRUE
  BY <1>5
<1> HIDE DEF v
<1>8. \A c \in Codes : total'[w][c] = total[w][c] + (IF counted /\ w = v /\ c = s THEN 1 ELSE 0)
  <2>1. CASE counted
    BY <1>1, <1>3, <2>1, Counted
  <2>2. CASE ~ counted
    BY <1>1, <1>3, <2>2
  <2> QED
    BY <2>1, <2>2
<1>9. refused'[w] = refused[w] + (IF s = 429 /\ w = v THEN 1 ELSE 0)
  BY <1>1, <1>4
<1>10. \A c \in Codes : sent[w][c] \in Nat /\ total[w][c] \in Nat
  BY <1>1
<1>11. refused[w] \in Nat
  BY <1>1
<1>12. \A c \in Status \ {500} : (total[w][c] = sent[w][c] + OnTheWay(w, c))'
  <2> SUFFICES ASSUME NEW c \in Status \ {500}
               PROVE  (total[w][c] = sent[w][c] + OnTheWay(w, c))'
    OBVIOUS
  <2>1. total[w][c] = sent[w][c] + OnTheWay(w, c)
    BY DEF Agrees
  <2>2. total'[w][c] = total[w][c] + (IF w = v /\ c = s THEN 1 ELSE 0)
    BY <1>5, <1>7, <1>8
  <2> QED
    BY <1>2, <1>5, <1>10, <2>1, <2>2
<1>13. (refused[w] = sent[w][429] + OnTheWay(w, 429))'
  BY <1>2, <1>5, <1>9, <1>10, <1>11 DEF Agrees
<1>14. (total[w][429] = 0)'
  BY <1>5, <1>6, <1>8, <1>10 DEF Agrees
<1>15. (total[w][500] <= sent[w][500] + OnTheWay(w, 500))'
  <2>1. total[w][500] <= sent[w][500] + OnTheWay(w, 500)
    BY DEF Agrees
  <2>2. total'[w][500] <= total[w][500] + (IF w = v /\ 500 = s THEN 1 ELSE 0)
    BY <1>5, <1>8, <1>10
  <2>3. /\ total'[w][500] \in Int /\ total[w][500] \in Nat /\ sent[w][500] \in Nat
        /\ OnTheWay(w, 500) \in Nat /\ sent'[w][500] = sent[w][500]
        /\ OnTheWay(w, 500)' = OnTheWay(w, 500) + (IF w = v /\ 500 = s THEN 1 ELSE 0)
    BY <1>2, <1>5, <1>8, <1>10
  <2> QED
    BY <2>1, <2>2, <2>3
<1> QED
  BY <1>12, <1>13, <1>14, <1>15 DEF Agrees

LEMMA SendAgrees ==
    ASSUME WireTypeOK, Statused, NEW r \in Requests, Send(r), NEW w \in Workers, Agrees(w)
    PROVE  Agrees(w)'
<1> DEFINE v == wire[r].worker
           s == wire[r].status
<1>1. /\ sent \in [Workers -> [Codes -> Nat]] /\ v \in Workers /\ s \in Codes
      /\ total' = total /\ refused' = refused
  BY OpenWires DEF Send, Statused, WireTypeOK
<1>2. \A c \in Codes : /\ OnTheWay(w, c) \in Nat
                       /\ OnTheWay(w, c)' = OnTheWay(w, c) - (IF w = v /\ c = s THEN 1 ELSE 0)
  BY OneLess, MadeFinite
<1>3. sent' = [sent EXCEPT ![v][s] = @ + 1]
  BY DEF Send, Count
<1> HIDE DEF v, s
<1>4. \A c \in Codes : sent'[w][c] = sent[w][c] + (IF w = v /\ c = s THEN 1 ELSE 0)
  BY <1>1, <1>3, Counted
<1>5. \A c \in Codes : /\ sent[w][c] \in Nat
                       /\ sent'[w][c] + OnTheWay(w, c)' = sent[w][c] + OnTheWay(w, c)
  BY <1>1, <1>2, <1>4
<1>6. Status \subseteq Codes /\ 429 \in Codes /\ 500 \in Codes
  BY DEF Codes, Status
<1> QED
  BY <1>1, <1>5, <1>6 DEF Agrees

LEMMA NextAgrees ==
    ASSUME PipeInv, \A w \in Workers : Agrees(w), [PipeNext]_pipeVars
    PROVE  \A w \in Workers : Agrees(w)'
<1> USE DEF PipeInv, RequestsInv
<1>1. ASSUME wire' \in [Requests -> Wire],
             \A q \in Requests : wire'[q] = wire[q] \/ (wire[q].at # "out" /\ wire'[q].at # "out"),
             UNCHANGED counters
      PROVE  \A w \in Workers : Agrees(w)'
  <2>1. \A w \in Workers, c \in Codes : Made(w, c)' = Made(w, c)
    BY <1>1 DEF Made
  <2>2. \A w \in Workers, c \in Codes : OnTheWay(w, c)' = OnTheWay(w, c)
    BY <2>1 DEF OnTheWay
  <2> QED
    BY <1>1, <2>2, SameCounts DEF counters
<1>2. wire' \in [Requests -> Wire]
  BY NextSound
<1>3. ASSUME NEW r \in Requests, NEW w \in Workers, NEW task \in Offered, Arrive(r, w, task)
      PROVE  \A v \in Workers : Agrees(v)'
  <2>1. \A q \in Requests : wire'[q] = wire[q] \/ (wire[q].at # "out" /\ wire'[q].at # "out")
    BY <1>3, Rest DEF WireTypeOK
  <2> QED
    BY <1>1, <1>2, <1>3, <2>1 DEF Arrive
<1>4. ASSUME NEW r \in Requests, Handle(r)
      PROVE  \A w \in Workers : Agrees(w)'
  <2>1. \A q \in Requests : wire'[q] = wire[q] \/ (wire[q].at # "out" /\ wire'[q].at # "out")
    BY <1>4, Rest
  <2> QED
    BY <1>1, <1>2, <1>4, <2>1 DEF Handle
<1>5. ASSUME NEW r \in Requests, Deny(r)
      PROVE  \A w \in Workers : Agrees(w)'
  <2>1. wire[r].worker \in Workers /\ 429 \in Codes
    BY <1>5, OpenWires DEF Deny, Codes
  <2>2. Makes(r, 429, FALSE) /\ sent' = sent
        /\ refused' = [refused EXCEPT ![wire[r].worker] = @ + 1]
    <3>1. AccountsInv /\ WireTypeOK /\ Fresh
      OBVIOUS
    <3>2. Deny(r) => Makes(r, 429, FALSE) /\ wire'[r].headers = {"X-RateLimit-Limit"}
      BY <3>1, Replies
    <3>3. Makes(r, 429, FALSE)
      BY <1>5, <3>2
    <3> QED
      BY <1>5, <3>3 DEF Deny
  <2> QED
    BY <2>1, <2>2, MakesAgree
<1>6. ASSUME NEW r \in Requests, LimiterFails(r)
      PROVE  \A w \in Workers : Agrees(w)'
  <2>1. wire[r].worker \in Workers /\ 500 \in Codes
    BY <1>6, OpenWires DEF LimiterFails, Codes, Status
  <2>2. Makes(r, 500, FALSE) /\ sent' = sent /\ refused' = refused
    BY <1>6, Replies DEF LimiterFails
  <2> QED
    BY <2>1, <2>2, MakesAgree
<1>7. ASSUME NEW r \in Requests, Leave(r)
      PROVE  \A w \in Workers : Agrees(w)'
  <2>1. wire[r].worker \in Workers
    BY <1>7, OpenWires DEF Leave
  <2>2. sent' = sent /\ refused' = refused
    BY <1>7 DEF Leave
  <2>3. PICK s \in Status : Makes(r, s, TRUE)
    <3>1. Makes(r, 500, TRUE) \/ \E s \in Status : Makes(r, s, TRUE)
      BY <1>7, Replies
    <3>2. 500 \in Status
      BY DEF Status
    <3> QED
      BY <3>1, <3>2
  <2>4. s \in Codes
    BY <2>3 DEF Codes
  <2> QED
    BY <2>1, <2>2, <2>3, <2>4, MakesAgree
<1>8. ASSUME NEW r \in Requests, Send(r)
      PROVE  \A w \in Workers : Agrees(w)'
  BY <1>8, SendAgrees
<1>9. ASSUME NEW w \in Workers, Restart(w)
      PROVE  \A v \in Workers : Agrees(v)'
  <2>1. ASSUME NEW v \in Workers \ {w}
        PROVE  Agrees(v)'
    <3>1. \A q \in Requests : wire'[q] = IF wire[q] # NoWire /\ wire[q].worker = w
                                         THEN NoWire ELSE wire[q]
      BY <1>9 DEF Restart
    <3>2. \A c \in Codes : Made(v, c)' = Made(v, c)
      BY <3>1 DEF Made, NoWire
    <3>3. \A c \in Codes : OnTheWay(v, c)' = OnTheWay(v, c)
      BY <3>2 DEF OnTheWay
    <3>4. total'[v] = total[v] /\ refused'[v] = refused[v] /\ sent'[v] = sent[v]
      BY <1>9 DEF Restart, WireTypeOK
    <3> QED
      BY <3>3, <3>4, SameCounts
  <2>2. Agrees(w)'
    <3>1. \A q \in Requests : ~ (wire'[q].at = "out" /\ wire'[q].worker = w)
      BY <1>9 DEF Restart, NoWire
    <3>2. \A c \in Codes : Made(w, c)' = {}
      BY <3>1 DEF Made
    <3>3. \A c \in Codes : OnTheWay(w, c)' = 0
      BY <3>2, FS_EmptySet DEF OnTheWay
    <3>4. total'[w] = NoneSent /\ refused'[w] = 0 /\ sent'[w] = NoneSent
      BY <1>9 DEF Restart, WireTypeOK
    <3>5. (\A s \in Codes : NoneSent[s] = 0) /\ Status \subseteq Codes /\ 429 \in Codes
          /\ 500 \in Codes
      BY DEF NoneSent, Codes, Status
    <3> QED
      BY <3>3, <3>4, <3>5 DEF Agrees
  <2> QED
    BY <2>1, <2>2
<1>10. Inside => \A w \in Workers : Agrees(w)'
  BY <1>1, <1>2 DEF Inside
<1> QED
  BY <1>3, <1>4, <1>5, <1>6, <1>7, <1>8, <1>9, <1>10, PipeCases

\* As long as its worker lives, every reply is counted once: those of handlers under
\* their status, those of the limiter as refused; only its exceptions are not.
THEOREM CountersHold == PipeSpec => []CountersAgree
<1>1. PipeInit => \A w \in Workers : Agrees(w)
  <2> SUFFICES ASSUME PipeInit, NEW w \in Workers PROVE Agrees(w)
    OBVIOUS
  <2>1. \A c \in Codes : OnTheWay(w, c) = 0
    BY NoneMade DEF PipeInit, NoWire
  <2>2. (\A s \in Codes : NoneSent[s] = 0) /\ Status \subseteq Codes /\ 429 \in Codes
        /\ 500 \in Codes
    BY DEF NoneSent, Codes, Status
  <2> QED
    BY <2>1, <2>2 DEF Agrees, PipeInit
<1>2. PipeInv /\ (\A w \in Workers : Agrees(w)) /\ [PipeNext]_pipeVars
        => (\A w \in Workers : Agrees(w))'
  BY NextAgrees
<1>3. (\A w \in Workers : Agrees(w)) => CountersAgree
  BY DEF Agrees, CountersAgree
<1> QED
  BY <1>1, <1>2, <1>3, PipeInvariant, PTL DEF PipeSpec
=============================================================================
