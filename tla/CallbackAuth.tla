----------------------------- MODULE CallbackAuth -----------------------------
(***************************************************************************)
(* AttemptCallbackCredentialVerifier: proof, inside a transaction its      *)
(* caller owns, that a call may record the result of one Running attempt.  *)
(* The attempts are those of one AI operation of one request.              *)
(*                                                                         *)
(* One step is one SELECT ... FOR UPDATE.  The rows of the sibling query   *)
(* are locked together.  The credential rows are only ever locked under    *)
(* their attempt's lock, so that query never waits and decides at once.    *)
(*                                                                         *)
(* External: PostgreSQL, and the commands around the verifier that the     *)
(* contracts describe and the code does not hold yet (the result callbacks *)
(* that use the context, retry, replacement and revocation).  Each of      *)
(* these other than the callbacks is one step that finds its rows unlocked.*)
(***************************************************************************)
EXTENDS Naturals, FiniteSets

CONSTANTS Callers,      \* sessions that serve callbacks
          Services,     \* authenticated workflow services
          Assigned,     \* the service the attempts are assigned to
          MaxAttempts,  \* attempts of the operation (attempt_number_valid: 3)
          MaxVersion,   \* bound: credential versions of an attempt
          MaxClock,     \* bound: database clock
          Window        \* ai_callback_authorization_seconds

ASSUME AssignedAssumption == Assigned \in Services
ASSUME BoundsAssumption == /\ MaxAttempts \in 1..3
                           /\ MaxVersion \in Nat \ {0}
                           /\ MaxClock \in Nat
                           /\ Window \in Nat \ {0}

VARIABLES attempts,   \* integration_attempts of the operation, by number
          creds,      \* attempt_callback_credentials, by attempt and version
          succeeded,  \* logical_operations.succeeded_attempt_id, 0 for NULL
          clock,      \* PostgreSQL time
          call,       \* what each session is doing, and its row locks
          results     \* results recorded for each attempt (history)

vars == <<attempts, creds, succeeded, clock, call, results>>

Numbers == 1..MaxAttempts
Versions == 1..MaxVersion

Live == {"Pending", "Running"}
Final == {"Succeeded", "RetryableFailure", "TerminalFailure"}

(* Created at version 1, started at 2, concluded at 3.                     *)
Attempt == [state : Live \cup Final \cup {"None"}, version : 0..3,
            deadline : 0..(MaxClock + Window)]

Credential == [state : {"None", "Active", "Consumed", "Replaced", "Revoked"},
               issued : 0..MaxClock]

Row(n) == <<"attempt", n>>
Operation == <<"operation", 0>>
Request == <<"request", 0>>
Locks == {Row(n) : n \in Numbers} \cup {Operation, Request}

Secrets == Numbers \X Versions

(* version is that of the attempt in the verified context.                 *)
Call == [pc : {"attempt", "operation", "request", "siblings", "credentials",
               "verified", "carried", "refused"},
         attempt : Numbers, service : Services, secret : Secrets,
         now : 0..MaxClock, version : 0..3, locks : SUBSET Locks]

Idle == [pc |-> "idle", locks |-> {}]

TypeOK == /\ attempts \in [Numbers -> Attempt]
          /\ creds \in [Numbers -> [Versions -> Credential]]
          /\ succeeded \in Numbers \cup {0}
          /\ clock \in 0..MaxClock
          /\ call \in [Callers -> Call \cup {Idle}]
          /\ results \in [Numbers -> Nat]

NoAttempt == [state |-> "None", version |-> 0, deadline |-> 0]
NoCredential == [state |-> "None", issued |-> 0]

NewAttempt == [state |-> "Pending", version |-> 1, deadline |-> clock + Window]

FirstCredential == [v \in Versions |->
                      IF v = 1 THEN [state |-> "Active", issued |-> clock] ELSE NoCredential]

(* Start AI has created the operation and its first attempt, now or some   *)
(* time ago.                                                               *)
Init == /\ clock = 0
        /\ \E deadline \in 1..Window :
              attempts = [n \in Numbers |->
                            IF n = 1 THEN [NewAttempt EXCEPT !.deadline = deadline]
                            ELSE NoAttempt]
        /\ creds = [n \in Numbers |-> IF n = 1 THEN FirstCredential
                                      ELSE [v \in Versions |-> NoCredential]]
        /\ succeeded = 0
        /\ call = [c \in Callers |-> Idle]
        /\ results = [n \in Numbers |-> 0]

-----------------------------------------------------------------------------
Existing == {n \in Numbers : attempts[n].state # "None"}

Issued(n) == {v \in Versions : creds[n][v].state # "None"}
Active(n) == {v \in Versions : creds[n][v].state = "Active"}

(* The rows the session's next locking read asks for.                      *)
Wants(c) ==
    CASE call[c].pc = "attempt"   -> {Row(n) : n \in Existing \cap {call[c].attempt}}
      [] call[c].pc = "operation" -> {Operation}
      [] call[c].pc = "request"   -> {Request}
      [] call[c].pc = "siblings"  -> {Row(n) : n \in Existing}
      [] OTHER -> {}

Blockers(c) == {d \in Callers \ {c} : Wants(c) \cap call[d].locks # {}}

(* Mutant: the rows are read without FOR UPDATE.                           *)
ReadOnly(c, pc) ==
    /\ call' = [call EXCEPT ![c].pc = pc]
    /\ UNCHANGED <<attempts, creds, succeeded, clock, results>>

(* The locking read returns.                                               *)
Advance(c, pc) ==
    /\ Blockers(c) = {}
    /\ call' = [call EXCEPT ![c].pc = pc, ![c].locks = @ \cup Wants(c)]
    /\ UNCHANGED <<attempts, creds, succeeded, clock, results>>

(* Mutant: a refused call leaves its caller's transaction open.            *)
KeepLocks(c) == call' = [call EXCEPT ![c] = [Idle EXCEPT !.locks = call[c].locks]]

(* The transaction ends: its locks go.                                     *)
Release(c) == call' = [call EXCEPT ![c] = Idle]

(* A service that holds an issued secret opens a transaction and calls     *)
(* verify: for the secret's attempt or for another.                        *)
Begin(c, n, service, secret) ==
    /\ call[c].pc = "idle"
    /\ secret[2] \in Issued(secret[1])
    /\ call' = [call EXCEPT ![c] =
                  [pc |-> "attempt", attempt |-> n, service |-> service, secret |-> secret,
                   now |-> clock, version |-> 0, locks |-> call[c].locks]]
    /\ UNCHANGED <<attempts, creds, succeeded, clock, results>>

(* A 404 when there is no such attempt, or it is another service's.        *)
LockAttempt(c) ==
    /\ call[c].pc = "attempt"
    /\ IF call[c].attempt \in Existing /\ call[c].service = Assigned
       THEN Advance(c, "operation")
       ELSE Advance(c, "refused")

LockOperation(c) == call[c].pc = "operation" /\ Advance(c, "request")

LockRequest(c) == call[c].pc = "request" /\ Advance(c, "siblings")

LockSiblings(c) == call[c].pc = "siblings" /\ Advance(c, "credentials")

-----------------------------------------------------------------------------
(* _validate_graph: another attempt is live or has succeeded.              *)
Contradicted(n) ==
    \/ succeeded # 0
    \/ \E m \in Existing \ {n} : attempts[m].state \in Live \cup {"Succeeded"}

Newest(n) == CHOOSE v \in Issued(n) : \A u \in Issued(n) : u <= v

(* Every credential but v ended in a consistent way, before now.           *)
HistoryValid(n, v, now) ==
    \A u \in Issued(n) \ {v} :
        /\ creds[n][u].state \in {"Replaced", "Revoked", "Consumed"}
        /\ creds[n][u].state = "Replaced" => u + 1 \in Issued(n)
        /\ creds[n][u].issued <= now

(* Mutant: a credential cannot be used at the instant it was issued.       *)
InWindowExclusive(n, v, now) == creds[n][v].issued < now /\ now < attempts[n].deadline

(* Issued and not expired at the transaction's time.                       *)
InWindow(n, v, now) == creds[n][v].issued <= now /\ now < attempts[n].deadline

(* What the rows just locked say: 0 for a verified caller.                 *)
Verdict(n, secret, now) ==
    IF Contradicted(n) THEN 500
    ELSE IF attempts[n].state # "Running" \/ Active(n) = {} THEN 403
    ELSE LET v == CHOOSE u \in Active(n) : TRUE
         IN  IF Active(n) # {v} \/ v # Newest(n) THEN 500
             ELSE IF ~InWindow(n, v, now) THEN 403
             ELSE IF ~HistoryValid(n, v, now) THEN 500
             ELSE IF secret # <<n, v>> THEN 403 ELSE 0

LockCredentials(c) ==
    /\ call[c].pc = "credentials"
    /\ LET n == call[c].attempt
       IN  IF Verdict(n, call[c].secret, call[c].now) = 0
           THEN call' = [call EXCEPT ![c].pc = "verified", ![c].version = attempts[n].version]
           ELSE call' = [call EXCEPT ![c].pc = "refused"]
    /\ UNCHANGED <<attempts, creds, succeeded, clock, results>>

Refuse(c) ==
    /\ call[c].pc = "refused"
    /\ Release(c)
    /\ UNCHANGED <<attempts, creds, succeeded, clock, results>>

(* A dependency failure or the end of the process: the caller rolls back.  *)
Abort(c) ==
    /\ call[c].pc # "idle"
    /\ Release(c)
    /\ UNCHANGED <<attempts, creds, succeeded, clock, results>>

-----------------------------------------------------------------------------
(* External: the callback command that holds the context.                  *)

(* Mutant: the context is good in any transaction of its session.          *)
BoundToSession(c) == call[c].pc \in {"verified", "carried"}

(* assert_transaction_bound: still in the transaction that verified.       *)
Bound(c) == call[c].pc = "verified"

(* A careless caller ends that transaction and begins another.             *)
Carry(c) ==
    /\ call[c].pc = "verified"
    /\ call' = [call EXCEPT ![c].pc = "carried", ![c].locks = {}]
    /\ UNCHANGED <<attempts, creds, succeeded, clock, results>>

RejectContext(c) ==
    /\ call[c].pc \in {"verified", "carried"}
    /\ ~Bound(c)
    /\ Release(c)
    /\ UNCHANGED <<attempts, creds, succeeded, clock, results>>

(* The result, the consumed credential and the operation's success commit  *)
(* together.                                                               *)
Conclude(c, state) ==
    /\ call[c].pc \in {"verified", "carried"}
    /\ Bound(c)
    /\ LET n == call[c].attempt
       IN  /\ attempts' = [attempts EXCEPT ![n].state = state, ![n].version = @ + 1]
           /\ creds' = [creds EXCEPT ![n][call[c].secret[2]].state = "Consumed"]
           /\ succeeded' = IF state = "Succeeded" THEN n ELSE succeeded
           /\ results' = [results EXCEPT ![n] = @ + 1]
    /\ Release(c)
    /\ UNCHANGED clock

-----------------------------------------------------------------------------
(* External: the other commands, and PostgreSQL.                           *)

Unlocked(ls) == \A c \in Callers : call[c].locks \cap ls = {}

(* Start integration attempt (AiExecution has its steps).                  *)
StartAttempt(n) ==
    /\ attempts[n].state = "Pending"
    /\ Active(n) # {}
    /\ clock < attempts[n].deadline
    /\ ~Contradicted(n)
    /\ Unlocked({Row(m) : m \in Existing} \cup {Operation, Request})
    /\ attempts' = [attempts EXCEPT ![n].state = "Running", ![n].version = @ + 1]
    /\ UNCHANGED <<creds, succeeded, clock, call, results>>

(* The next attempt, after a retryable failure of the latest.              *)
Retry(n) ==
    /\ attempts[n].state = "None"
    /\ n - 1 \in Numbers
    /\ attempts[n - 1].state = "RetryableFailure"
    /\ Unlocked({Row(n - 1), Operation, Request})
    /\ attempts' = [attempts EXCEPT ![n] = NewAttempt]
    /\ creds' = [creds EXCEPT ![n] = FirstCredential]
    /\ UNCHANGED <<succeeded, clock, call, results>>

(* The active credential gives way to the next version.                    *)
Replace(n, v) ==
    /\ attempts[n].state \in Live
    /\ clock < attempts[n].deadline
    /\ v \in Active(n)
    /\ v + 1 \in Versions
    /\ Unlocked({Row(n)})
    /\ creds' = [creds EXCEPT ![n][v].state = "Replaced",
                              ![n][v + 1] = [state |-> "Active", issued |-> clock]]
    /\ UNCHANGED <<attempts, succeeded, clock, call, results>>

Revoke(n, v) ==
    /\ v \in Active(n)
    /\ Unlocked({Row(n)})
    /\ creds' = [creds EXCEPT ![n][v].state = "Revoked"]
    /\ UNCHANGED <<attempts, succeeded, clock, call, results>>

Tick == /\ clock < MaxClock
        /\ clock' = clock + 1
        /\ UNCHANGED <<attempts, creds, succeeded, call, results>>

(* Sessions that wait for each other's row locks: the deadlock detector    *)
(* fails one statement of the cycle, which verify answers with a 503.      *)
WaitCycle(S) == S # {} /\ \A c \in S : Blockers(c) \cap S # {}

DeadlockVictim(c) ==
    /\ \E S \in SUBSET Callers : c \in S /\ WaitCycle(S)
    /\ Abort(c)

-----------------------------------------------------------------------------
Verify(c) == \/ LockAttempt(c) \/ LockOperation(c) \/ LockRequest(c)
             \/ LockSiblings(c) \/ LockCredentials(c) \/ Refuse(c)

Use(c) == RejectContext(c) \/ \E state \in Final : Conclude(c, state)

External == \/ \E n \in Numbers : \/ StartAttempt(n) \/ Retry(n)
                                  \/ \E v \in Versions : Replace(n, v) \/ Revoke(n, v)
            \/ Tick

Next == \/ \E c \in Callers :
              \/ \E n \in Numbers, service \in Services, secret \in Secrets :
                    Begin(c, n, service, secret)
              \/ Verify(c) \/ Carry(c) \/ Use(c) \/ Abort(c) \/ DeadlockVictim(c)
        \/ External

Spec == Init /\ [][Next]_vars

(* A handler keeps executing; PostgreSQL serves the lock queues in order   *)
(* and breaks deadlocks.                                                   *)
Fairness == /\ \A c \in Callers : SF_vars(Verify(c) \/ Use(c))
            /\ WF_vars(\E c \in Callers : DeadlockVictim(c))

FairSpec == Spec /\ Fairness

-----------------------------------------------------------------------------
(* As long as a verified caller's transaction lasts, what verify saw stays *)
(* true whatever the other sessions do: the attempt is Running at the      *)
(* version in the context, the credential is its Active and newest one,    *)
(* issued and unexpired at the transaction's time, and no other attempt of *)
(* the operation is live or has succeeded.                                 *)
AuthorityHolds ==
    \A c \in Callers : call[c].pc = "verified" =>
        LET n == call[c].attempt
            v == call[c].secret[2]
        IN  /\ call[c].secret[1] = n
            /\ call[c].service = Assigned
            /\ attempts[n].state = "Running"
            /\ attempts[n].version = call[c].version
            /\ Active(n) = {v}
            /\ \A u \in Issued(n) : u <= v
            /\ InWindow(n, v, call[c].now)
            /\ succeeded = 0
            /\ \A m \in Existing \ {n} : attempts[m].state \in Final \ {"Succeeded"}

(* Every attempt gets at most one result, which consumed one credential of *)
(* its own, and only the last attempt can be live or have succeeded: late, *)
(* duplicate and contradictory callbacks, with contexts kept past their    *)
(* transaction, change nothing.                                            *)
SettledOnce ==
    /\ \A n \in Numbers :
          /\ results[n] = IF attempts[n].state \in Final THEN 1 ELSE 0
          /\ results[n] = Cardinality({v \in Versions : creds[n][v].state = "Consumed"})
    /\ \A n \in Existing : attempts[n].state = "Succeeded" <=> succeeded = n
    /\ \A n \in Existing : n + 1 \in Existing => attempts[n].state = "RetryableFailure"

(* A callback from the assigned service for the Running attempt, with its  *)
(* Active credential and begun before the deadline, is never refused: not  *)
(* after retries, replacements or a wait for locks across them, although   *)
(* now() was fixed before the wait.                                        *)
CurrentCallbackServed ==
    \A c \in Callers : call[c].pc = "refused" =>
        LET n == call[c].attempt
        IN  \/ call[c].service # Assigned
            \/ n \notin Existing
            \/ attempts[n].state # "Running"
            \/ call[c].secret \notin {<<n, v>> : v \in Active(n)}
            \/ call[c].now >= attempts[n].deadline

(* Every callback transaction ends, although two attempts of one operation *)
(* lock each other's rows in opposite orders.  A verified caller's own     *)
(* progress is part of the assumption.                                     *)
EveryCallbackEnds == \A c \in Callers : call[c].pc # "idle" ~> call[c].pc = "idle"
=============================================================================
