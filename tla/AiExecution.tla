----------------------------- MODULE AiExecution -----------------------------
(***************************************************************************)
(* The two machine commands over the AI execution rows: Start AI           *)
(* interpretation (start_ai) and Start integration attempt                 *)
(* (attempt_start), each run inside one transaction that first resolves    *)
(* its idempotency key (CommandIdempotency).                               *)
(*                                                                         *)
(* One step is one statement that can wait: a SELECT ... FOR UPDATE and    *)
(* the guards the handler evaluates on its result up to the next such      *)
(* statement.  A transaction's writes take effect at its commit; every row *)
(* it updates was locked before, and nobody reads the rows it inserts.     *)
(* The operation, the attempt and the command that created them share one  *)
(* id here (three random UUIDs in the code).                               *)
(***************************************************************************)
EXTENDS Naturals, FiniteSets

CONSTANTS Workers,   \* sessions of the server processes
          Requests,  \* service requests a command may name
          Machines,  \* authenticated workflow services
          RawKeys,   \* Idempotency-Key header values
          Configs,   \* AI configuration hashes of the running processes
          Expected,  \* expected aggregate versions clients send
          MaxTx,     \* bound: transactions opened
          MaxClock,  \* bound: database clock
          Window,    \* ai_callback_authorization_seconds
          Others,    \* what the commands outside this module may record
          None

ASSUME MaxTxAssumption == MaxTx \in Nat
ASSUME ExpectedAssumption == Expected \subseteq 1..(MaxTx + 2)
ASSUME ClockAssumption == MaxClock \in Nat /\ Window \in Nat \ {0}
ASSUME OthersAssumption ==
           Others \subseteq {"ReadyForAction", "Succeeded", "TerminalFailure"}

VARIABLES rows, txn, token, answers, lastTx,   \* CommandIdempotency
          requests,    \* service_requests
          operations,  \* logical_operations
          attempts,    \* integration_attempts and their callback credential
          audits,      \* audit_events
          outbox,      \* outbox_messages
          clock,       \* PostgreSQL time
          run          \* each session: program point, now(), settings, row locks

idemVars == <<rows, txn, token, answers, lastTx>>
domain == <<requests, operations, attempts, audits, outbox>>
vars == <<rows, txn, token, answers, lastTx, requests, operations, attempts,
          audits, outbox, clock, run>>

Ids == 1..MaxTx
Versions == 1..(MaxTx + 2)

Commands == [intent : {"StartAi"}, machine : Machines, target : Requests, key : RawKeys]
       \cup [intent : {"StartAttempt"}, machine : Machines, target : Ids, key : RawKeys]

Codes == {"Accepted", "Running", "RESOURCE_NOT_FOUND", "ATTEMPT_NOT_FOUND",
          "CONCURRENCY_CONFLICT", "INVALID_STATE_TRANSITION",
          "ACTIVE_ATTEMPT_EXISTS", "LOGICAL_OPERATION_ALREADY_SUCCEEDED",
          "RETRY_NOT_ALLOWED"}

(* A stored response: what happened and the aggregate version it reports.  *)
Results == [code : Codes, version : Nat]

Idem == INSTANCE CommandIdempotency WITH
            Keys <- Commands, Bodies <- Versions, Snapshots <- Results,
            Careless <- {}

States == {"Pending", "Running", "Succeeded", "TerminalFailure"}

Attempt == [id : Ids, operation : Ids, state : States, version : 1..3,
            service : Machines, deadline : Nat, started : Nat \cup {None}]

Operation == [id : Ids, request : Requests, config : Configs,
              succeeded : Ids \cup {None}]

Request == [version : Versions, status : {"TriagePending", "ReadyForAction"}]

(* An absent value is no command, version, code, stored response or row.   *)
ASSUME NoneAssumption ==
           None \notin Commands \cup Versions \cup Codes \cup Results
                       \cup [version : Nat, status : {"TriagePending", "ReadyForAction"}]

(* An event of an aggregate; command 0 marks the external writers below.   *)
Event == [aggregate : ({"request"} \X Requests) \cup ({"attempt"} \X Ids),
          version : Versions, command : Ids \cup {0}]

Locks == ({"request"} \X Requests) \cup ({"operation", "attempt"} \X Ids)

Run == [step : {"idle", "begin", "operation", "attempts", "request", "done"},
        now : Nat, config : Configs \cup {None}, locks : SUBSET Locks]

Resting == [step |-> "idle", now |-> 0, config |-> None, locks |-> {}]

TypeOK == /\ Idem!TypeOK
          /\ requests \in [Requests -> Request \cup {None}]
          /\ operations \subseteq Operation
          /\ attempts \subseteq Attempt
          /\ audits \subseteq Event
          /\ outbox \subseteq Event
          /\ clock \in 0..MaxClock
          /\ run \in [Workers -> Run]

(* Intake leaves each request at version 1 in TriagePending, or has not    *)
(* created it.                                                             *)
Init == /\ Idem!Init
        /\ requests \in [Requests ->
                           {[version |-> 1, status |-> "TriagePending"], None}]
        /\ operations = {}
        /\ attempts = {}
        /\ audits = {}
        /\ outbox = {}
        /\ clock = 0
        /\ run = [w \in Workers |-> Resting]

-----------------------------------------------------------------------------
(* Where a session is, and the rows its next statement asks for.           *)

Executing(w, intent, step) ==
    /\ txn[w].pc = "reserved"
    /\ txn[w].key.intent = intent
    /\ run[w].step = step

Target(w) == txn[w].key.target

Existing == {r \in Requests : requests[r] # None}

(* The operation of the request's input under this process's settings.     *)
SameWork(w) == {o \in operations : o.request = Target(w) /\ o.config = run[w].config}

Claimed(w) == {a \in attempts : a.id = Target(w)}
OwnOperation(w) == {o \in operations : \E a \in Claimed(w) : a.operation = o.id}
AttemptsOf(o) == {a \in attempts : a.operation = o.id}
(* Mutant: every row is read without FOR UPDATE.                           *)
WantsNothing(w) == {}

Wants(w) ==
    CASE Executing(w, "StartAi", "begin")          -> {<<"request", r>> : r \in Existing \cap {Target(w)}}
      [] Executing(w, "StartAi", "operation")      -> {<<"operation", o.id>> : o \in SameWork(w)}
      [] Executing(w, "StartAi", "attempts")       ->
            {<<"attempt", a.id>> : a \in UNION {AttemptsOf(o) : o \in SameWork(w)}}
      [] Executing(w, "StartAttempt", "begin")     -> {<<"attempt", a.id>> : a \in Claimed(w)}
      [] Executing(w, "StartAttempt", "operation") -> {<<"operation", o.id>> : o \in OwnOperation(w)}
      [] Executing(w, "StartAttempt", "request")   -> {<<"request", o.request>> : o \in OwnOperation(w)}
      [] OTHER -> {}

Blockers(w) == {v \in Workers \ {w} : Wants(w) \cap run[v].locks # {}}

(* The locking read returns; the handler goes on at step next.             *)
Advance(w, next) ==
    /\ Blockers(w) = {}
    /\ run' = [run EXCEPT ![w].step = next, ![w].locks = @ \cup Wants(w)]

Acquire(w, next) == Advance(w, next) /\ UNCHANGED idemVars

(* The locking read returns and decides the command: its result is stored. *)
Decide(w, code, version) ==
    /\ Advance(w, "done")
    /\ Idem!Complete(w, w, [code |-> code, version |-> version])

-----------------------------------------------------------------------------
(* Both commands: the session's transaction begins, which fixes now(), and *)
(* the idempotency key is resolved.  An attempt's id is random: a client   *)
(* names it only after the transaction that drew it has ended.             *)
Open(w, k, b, c) ==
    /\ k.intent = "StartAttempt" =>
          /\ k.target <= lastTx
          /\ \A v \in Workers : txn[v].id = k.target => txn[v].pc = "answering"
    /\ Idem!Open(w, k, b)
    /\ run' = [run EXCEPT ![w] = [Resting EXCEPT !.step = "begin", !.now = clock,
                                                 !.config = c]]
    /\ UNCHANGED <<domain, clock>>

Reserve(w) ==
    /\ Idem!Lookup(w) \/ Idem!Insert(w) \/ Idem!UniqueViolation(w) \/ Idem!ReadWinner(w)
    /\ UNCHANGED <<domain, clock, run>>

-----------------------------------------------------------------------------
(* Start AI interpretation.                                                *)

LockRequest(w) ==
    /\ Executing(w, "StartAi", "begin")
    /\ LET q == requests[Target(w)]
       IN  \/ q = None /\ Decide(w, "RESOURCE_NOT_FOUND", 0)
           \/ /\ q # None
              /\ q.version # txn[w].body
              /\ Decide(w, "CONCURRENCY_CONFLICT", q.version)
           \/ /\ q # None
              /\ q.version = txn[w].body
              /\ q.status # "TriagePending"
              /\ Decide(w, "INVALID_STATE_TRANSITION", 0)
           \/ /\ q # None
              /\ q.version = txn[w].body
              /\ q.status = "TriagePending"
              /\ Acquire(w, "operation")
    /\ UNCHANGED <<domain, clock>>

(* No operation for this input and configuration: create the work.         *)
LockOperation(w) ==
    /\ Executing(w, "StartAi", "operation")
    /\ \/ SameWork(w) = {} /\ Decide(w, "Accepted", txn[w].body + 1)
       \/ SameWork(w) # {} /\ Acquire(w, "attempts")
    /\ UNCHANGED <<domain, clock>>

Active(a) == a.state \in {"Pending", "Running"}

(* _existing_operation_guard; None stands for its inconsistent-rows result,*)
(* which the caller turns into an internal error.                          *)
ExistingOperationGuard(o, as) ==
    LET succeeded == {a \in as : a.state = "Succeeded"}
        active    == {a \in as : Active(a)}
    IN  IF \/ as = {}
           \/ o.succeeded # None /\ o.succeeded \notin {a.id : a \in succeeded}
           \/ succeeded # {} /\ active # {}
        THEN None
        ELSE IF active # {} THEN "ACTIVE_ATTEMPT_EXISTS"
        ELSE IF o.succeeded # None \/ succeeded # {}
             THEN "LOGICAL_OPERATION_ALREADY_SUCCEEDED"
        ELSE "RETRY_NOT_ALLOWED"

LockAttempts(w) ==
    /\ Executing(w, "StartAi", "attempts")
    /\ \E o \in SameWork(w) :
          LET code == ExistingOperationGuard(o, AttemptsOf(o))
          IN  code # None /\ Decide(w, code, 0)
    /\ UNCHANGED <<domain, clock>>

-----------------------------------------------------------------------------
(* Mutant: the assigned service is not compared with the caller.           *)
LockAnyAttempt(w) ==
    /\ Executing(w, "StartAttempt", "begin")
    /\ \/ Claimed(w) = {} /\ Decide(w, "ATTEMPT_NOT_FOUND", 0)
       \/ \E a \in Claimed(w) :
             \/ /\ a.version # txn[w].body
                /\ Decide(w, "CONCURRENCY_CONFLICT", a.version)
             \/ /\ a.version = txn[w].body
                /\ Acquire(w, "operation")
    /\ UNCHANGED <<domain, clock>>

(* Start integration attempt.                                              *)
LockAttempt(w) ==
    /\ Executing(w, "StartAttempt", "begin")
    /\ \/ Claimed(w) = {} /\ Decide(w, "ATTEMPT_NOT_FOUND", 0)
       \/ \E a \in Claimed(w) :
             \/ /\ a.service # txn[w].key.machine
                /\ Decide(w, "ATTEMPT_NOT_FOUND", 0)
             \/ /\ a.service = txn[w].key.machine
                /\ a.version # txn[w].body
                /\ Decide(w, "CONCURRENCY_CONFLICT", a.version)
             \/ /\ a.service = txn[w].key.machine
                /\ a.version = txn[w].body
                /\ Acquire(w, "operation")
    /\ UNCHANGED <<domain, clock>>

LockOwnOperation(w) ==
    /\ Executing(w, "StartAttempt", "operation")
    /\ Acquire(w, "request")
    /\ UNCHANGED <<domain, clock>>

(* Mutants: the attempt's state is not checked; the deadline is inclusive. *)
StartGuardAnyState(a, o, q, now) ==
    IF o.succeeded # None THEN "LOGICAL_OPERATION_ALREADY_SUCCEEDED"
    ELSE IF q.status # "TriagePending" \/ a.deadline <= now THEN "INVALID_STATE_TRANSITION"
    ELSE "Running"
StartGuardInclusive(a, o, q, now) ==
    IF a.state # "Pending" \/ a.deadline < now THEN "INVALID_STATE_TRANSITION"
    ELSE "Running"

(* The guards after the last locking read, in the handler's order.         *)
StartGuard(a, o, q, now) ==
    IF a.state # "Pending" THEN "INVALID_STATE_TRANSITION"
    ELSE IF o.succeeded # None THEN "LOGICAL_OPERATION_ALREADY_SUCCEEDED"
    ELSE IF q.status # "TriagePending" THEN "INVALID_STATE_TRANSITION"
    ELSE IF a.deadline <= now THEN "INVALID_STATE_TRANSITION"
    ELSE "Running"

(* The owning request; an operation has one attempt (OperationGraph), so   *)
(* the locking reads of siblings and of the attempt's credential take      *)
(* nothing that the first read did not.                                    *)
LockOwner(w) ==
    /\ Executing(w, "StartAttempt", "request")
    /\ \E a \in Claimed(w), o \in OwnOperation(w) :
          LET code == StartGuard(a, o, requests[o.request], run[w].now)
          IN  Decide(w, code, IF code = "Running" THEN txn[w].body + 1 ELSE 0)
    /\ UNCHANGED <<domain, clock>>

-----------------------------------------------------------------------------
(* Mutant: the operation is committed without its attempt.                 *)
CreateOperationOnly(w) ==
    LET id == txn[w].id
        r  == Target(w)
        event == [aggregate |-> <<"request", r>>, version |-> txn[w].body + 1,
                  command |-> id]
    IN  /\ requests' = [requests EXCEPT ![r].version = txn[w].body + 1]
        /\ operations' = operations \cup
              {[id |-> id, request |-> r, config |-> run[w].config, succeeded |-> None]}
        /\ audits' = audits \cup {event}
        /\ UNCHANGED <<attempts, outbox>>

(* What a committing execution publishes besides its command record.       *)
CreateWork(w) ==
    LET id == txn[w].id
        r  == Target(w)
        requestEvent == [aggregate |-> <<"request", r>>, version |-> txn[w].body + 1,
                         command |-> id]
        attemptEvent == [aggregate |-> <<"attempt", id>>, version |-> 1, command |-> id]
    IN  /\ requests' = [requests EXCEPT ![r].version = txn[w].body + 1]
        /\ operations' = operations \cup
              {[id |-> id, request |-> r, config |-> run[w].config, succeeded |-> None]}
        /\ attempts' = attempts \cup
              {[id |-> id, operation |-> id, state |-> "Pending", version |-> 1,
                service |-> txn[w].key.machine,
                deadline |-> run[w].now + Window, started |-> None]}
        /\ audits' = audits \cup {requestEvent, attemptEvent}
        /\ outbox' = outbox \cup {attemptEvent}

(* Mutant: the version grows twice, by the handler and by the row's owner. *)
StartWorkBumpedTwice(w) ==
    /\ attempts' = {a \in attempts : a.id # Target(w)} \cup
          {[a EXCEPT !.state = "Running", !.version = txn[w].body + 2,
                     !.started = run[w].now] : a \in Claimed(w)}
    /\ UNCHANGED <<requests, operations, audits, outbox>>

StartWork(w) ==
    LET event == [aggregate |-> <<"attempt", Target(w)>>, version |-> txn[w].body + 1,
                  command |-> txn[w].id]
    IN  /\ attempts' = {a \in attempts : a.id # Target(w)} \cup
              {[a EXCEPT !.state = "Running", !.version = txn[w].body + 1,
                         !.started = run[w].now] : a \in Claimed(w)}
        /\ audits' = audits \cup {event}
        /\ outbox' = outbox \cup {event}
        /\ UNCHANGED <<requests, operations>>
(* Mutant: row locks outlive the transaction.                              *)
KeepLocks(w) == run' = [run EXCEPT ![w] = [Resting EXCEPT !.locks = run[w].locks]]

Release(w) == run' = [run EXCEPT ![w] = Resting]

Commit(w) ==
    /\ Idem!Commit(w)
    /\ Release(w)
    /\ IF txn[w].outcome.kind # "Executed" THEN UNCHANGED domain
       ELSE CASE txn[w].outcome.snapshot.code = "Accepted" -> CreateWork(w)
              [] txn[w].outcome.snapshot.code = "Running"  -> StartWork(w)
              [] OTHER -> UNCHANGED domain
    /\ UNCHANGED clock

Raise(w) == Idem!Raise(w) /\ Release(w) /\ UNCHANGED <<domain, clock>>

(* Mutant: the domain rows were committed by a transaction of their own.   *)
AbortCommandOnly(w) ==
    /\ Idem!Abort(w)
    /\ Release(w)
    /\ IF run[w].step = "done" /\ txn[w].outcome.kind = "Executed"
          /\ txn[w].outcome.snapshot.code = "Accepted"
       THEN CreateWork(w) ELSE UNCHANGED domain
    /\ UNCHANGED clock

(* A failed statement, a failing credential generator or a crash: rollback.*)
Abort(w) == Idem!Abort(w) /\ Release(w) /\ UNCHANGED <<domain, clock>>

Deliver(w) == Idem!Respond(w) /\ UNCHANGED <<domain, clock, run>>

LoseResponse(w) == Idem!LoseResponse(w) /\ UNCHANGED <<domain, clock, run>>

-----------------------------------------------------------------------------
(* External: PostgreSQL and the writers this code has no command for yet.  *)

(* Sessions that wait for each other's row locks.                          *)
WaitCycle(S) == S # {} /\ \A w \in S : Blockers(w) \cap S # {}

(* The deadlock detector fails one statement of a cycle; the handler's     *)
(* OperationalError branch answers 503 and the transaction rolls back.     *)
DeadlockVictim(w) ==
    /\ \E S \in SUBSET Workers : w \in S /\ WaitCycle(S)
    /\ Abort(w)

Tick == /\ clock < MaxClock
        /\ clock' = clock + 1
        /\ UNCHANGED <<idemVars, domain, run>>

Unlocked(ls) == \A w \in Workers : run[w].locks \cap ls = {}

(* Another command moves the request out of TriagePending.                 *)
LeaveTriage(r) ==
    /\ "ReadyForAction" \in Others
    /\ requests[r] # None
    /\ requests[r].status = "TriagePending"
    /\ Unlocked({<<"request", r>>})
    /\ requests' = [requests EXCEPT ![r] = [version |-> @.version + 1,
                                            status  |-> "ReadyForAction"]]
    /\ audits' = audits \cup {[aggregate |-> <<"request", r>>,
                               version |-> requests[r].version + 1, command |-> 0]}
    /\ UNCHANGED <<idemVars, operations, attempts, outbox, clock, run>>

(* A callback command records the result of a running attempt.             *)
Conclude(a, state) ==
    /\ state \in Others
    /\ a.state = "Running"
    /\ Unlocked({<<"attempt", a.id>>, <<"operation", a.operation>>})
    /\ attempts' = (attempts \ {a}) \cup {[a EXCEPT !.state = state, !.version = @ + 1]}
    /\ operations' = {IF o.id = a.operation /\ state = "Succeeded"
                      THEN [o EXCEPT !.succeeded = a.id] ELSE o : o \in operations}
    /\ LET event == [aggregate |-> <<"attempt", a.id>>, version |-> a.version + 1,
                     command |-> 0]
       IN  audits' = audits \cup {event} /\ outbox' = outbox \cup {event}
    /\ UNCHANGED <<idemVars, requests, clock, run>>

-----------------------------------------------------------------------------
(* The steps a handler takes once its command is open.                     *)
Handle(w) ==
    \/ Reserve(w)
    \/ LockRequest(w) \/ LockOperation(w) \/ LockAttempts(w)
    \/ LockAttempt(w) \/ LockOwnOperation(w) \/ LockOwner(w)
    \/ Commit(w) \/ Raise(w) \/ Deliver(w)

External ==
    \/ Tick
    \/ \E r \in Requests : LeaveTriage(r)
    \/ \E a \in attempts, state \in {"Succeeded", "TerminalFailure"} : Conclude(a, state)

Next == \/ \E w \in Workers :
              \/ \E k \in Commands, b \in Expected, c \in Configs : Open(w, k, b, c)
              \/ Handle(w) \/ DeadlockVictim(w) \/ Abort(w) \/ LoseResponse(w)
        \/ External

Spec == Init /\ [][Next]_vars

(* A handler keeps executing, PostgreSQL serves lock queues in order (so a *)
(* waiter enabled again and again proceeds) and detects deadlocks.         *)
Fairness == /\ \A w \in Workers : SF_vars(Handle(w))
            /\ WF_vars(\E w \in Workers : DeadlockVictim(w))

FairSpec == Spec /\ Fairness

-----------------------------------------------------------------------------
(* The committed execution records with a code.                            *)
Recorded(code) == {r \in rows : r.status = "Completed" /\ r.snapshot.code = code}

EventsOf(agg, events) == {e \in events : e.aggregate = agg}

(* events holds exactly one event for each version in vs.                  *)
OnePerVersion(events, vs) ==
    /\ {e.version : e \in events} = vs
    /\ \A d, e \in events : d.version = e.version => d = e

(* A stored success and its domain rows commit together: the commands that *)
(* recorded 202 are exactly those that own an operation and its attempt,   *)
(* and the commands that recorded 200 are exactly the authors of one start *)
(* of the attempt they name.  A retry under a lost response can rely on it.*)
EvidenceIsAtomic ==
    /\ {r.command : r \in Recorded("Accepted")} = {o.id : o \in operations}
    /\ {o.id : o \in operations} = {a.id : a \in attempts}
    /\ \A r \in Recorded("Running") :
          \E e \in audits : e.command = r.command
                              /\ e.aggregate = <<"attempt", r.key.target>>
                              /\ e.version = r.body + 1
    /\ \A e \in audits : e.command # 0 =>
          \E r \in rows : r.command = e.command
                            /\ r.status = "Completed"
                            /\ r.snapshot.code \in {"Accepted", "Running"}

(* No update of an aggregate is lost or unrecorded: every version of every *)
(* request and attempt has exactly one audit event, and the outbox carries *)
(* exactly the attempt events.                                             *)
AuditTrailComplete ==
    /\ \A r \in Requests : requests[r] # None =>
          OnePerVersion(EventsOf(<<"request", r>>, audits), 2..requests[r].version)
    /\ \A a \in attempts :
          OnePerVersion(EventsOf(<<"attempt", a.id>>, audits), 1..a.version)
    /\ outbox = {e \in audits : e.aggregate[1] = "attempt"}

(* Two racing starts never create two operations for one request input and *)
(* configuration: the request lock makes uq_logical_operations_ai_identity *)
(* a backstop that never fires (its violation would surface as a 500).     *)
OneOperationPerWork ==
    \A o, p \in operations :
        o.request = p.request /\ o.config = p.config => o = p

(* The rows both handlers treat as inconsistent (their RuntimeErrors and a *)
(* None guard) never exist: an operation has its one attempt, and its      *)
(* success reference is that attempt's success.                            *)
OperationGraph ==
    \A o \in operations :
        /\ {a.id : a \in AttemptsOf(o)} = {o.id}
        /\ Cardinality(AttemptsOf(o)) = 1
        /\ ExistingOperationGuard(o, AttemptsOf(o)) # None
        /\ requests[o.request] # None

(* Only the workflow service an attempt was assigned to ever starts it:    *)
(* the 200 another service would get is never stored.                      *)
StartedByAssignee ==
    \A r \in Recorded("Running") :
        \E a \in attempts : a.id = r.key.target /\ a.service = r.key.machine

(* At most one command starts an attempt, however many keys its service    *)
(* uses: every other key meets a guard, under every interleaving.          *)
StartedOnce ==
    \A r, s \in Recorded("Running") : r.key.target = s.key.target => r = s

(* Transaction times order the recorded evidence: an attempt's started_at  *)
(* is never before its creation and always before its callback deadline,   *)
(* although both commands read now() before they wait for row locks.       *)
StartRecordedInWindow ==
    \A a \in attempts : a.started # None =>
        a.deadline - Window <= a.started /\ a.started < a.deadline

(* Attempts are never removed and move only forward, one version at a time.*)
NextState == [Pending |-> {"Running"}, Running |-> {"Succeeded", "TerminalFailure"},
              Succeeded |-> {}, TerminalFailure |-> {}]

AttemptsMoveForward ==
    [][\A a \in attempts : \E b \in attempts' :
          /\ <<b.id, b.operation, b.service, b.deadline>>
                = <<a.id, a.operation, a.service, a.deadline>>
          /\ b = a \/ (b.state \in NextState[a.state] /\ b.version = a.version + 1)]_vars

(* The commands drive the idempotency service as its specification allows, *)
(* so everything proved of CommandIdempotency holds here.                  *)
UsesIdempotency == Idem!Spec

(* Every opened command ends, deadlocks included.                          *)
EveryCommandEnds ==
    \A w \in Workers : txn[w].pc # "idle" ~> txn[w].pc = "idle"

(* Multi-aggregate commands require careful lock ordering (ADR 0004): no   *)
(* sessions ever wait for each other's rows.                               *)
NoWaitCycle == \A S \in SUBSET Workers : ~WaitCycle(S)

(* A start is granted only while the attempt's callback context is valid   *)
(* at the moment its guard is evaluated (LockOwner), after the last wait   *)
(* for a row lock.                                                         *)
StartsBeforeDeadline ==
    [][\A w \in Workers :
          /\ run[w].step = "request"
          /\ txn'[w].pc = "decided"
          /\ txn'[w].outcome.snapshot.code = "Running"
          => \A a \in Claimed(w) : clock < a.deadline]_vars
=============================================================================
