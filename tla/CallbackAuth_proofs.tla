-------------------------- MODULE CallbackAuth_proofs --------------------------
(* What the callback verifier promises, for any number of callers,         *)
(* attempts and credential versions, any clock and any window.             *)
EXTENDS CallbackAuth, FiniteSetTheorems, TLAPS

-----------------------------------------------------------------------------
(* The invariant.                                                          *)

(* FOR UPDATE: no row is locked by two sessions.                           *)
LocksExclusive ==
    \A c, d \in Callers : c # d => call[c].locks \cap call[d].locks = {}

(* A new attempt follows a retryable failure, and only one ever succeeds.  *)
AttemptsInOrder ==
    \A n \in Numbers :
        /\ attempts[n].state = "Pending" => attempts[n].version = 1
        /\ attempts[n].state = "Running" => attempts[n].version = 2
        /\ attempts[n].state = "Succeeded" <=> succeeded = n
        /\ attempts[n].state # "None" =>
              \A m \in Numbers : m < n => attempts[m].state = "RetryableFailure"

(* Credentials are issued in order, and none but the newest is Active.     *)
CredentialsInOrder ==
    \A n \in Numbers, v \in Versions : creds[n][v].state # "None" =>
        /\ attempts[n].state # "None"
        /\ creds[n][v].issued <= clock
        /\ creds[n][v].state = "Replaced" =>
              v + 1 \in Versions /\ creds[n][v + 1].state # "None"
        /\ \A u \in Versions : u < v /\ creds[n][u].state # "None" =>
              creds[n][u].state # "Active" /\ creds[n][u].issued <= creds[n][v].issued

Consumed(n) == {v \in Versions : creds[n][v].state = "Consumed"}

(* A result consumes one credential.                                       *)
ResultsOnRecord ==
    \A n \in Numbers :
        /\ attempts[n].state \in Final =>
              results[n] = 1 /\ \E v \in Versions : Consumed(n) = {v}
        /\ attempts[n].state \notin Final => results[n] = 0 /\ Consumed(n) = {}

(* The rows a session has locked at each program point.                    *)
Holds(c) ==
    /\ call[c].pc \in {"operation", "request", "siblings", "credentials", "verified"} =>
          /\ call[c].service = Assigned
          /\ attempts[call[c].attempt].state # "None"
          /\ Row(call[c].attempt) \in call[c].locks
    /\ call[c].pc \in {"request", "siblings", "credentials", "verified"} =>
          Operation \in call[c].locks
    /\ call[c].pc \in {"credentials", "verified"} =>
          \A m \in Numbers : attempts[m].state # "None" => Row(m) \in call[c].locks

(* A session's secret was issued before its transaction began.             *)
Called(c) ==
    call[c].pc # "idle" =>
        /\ call[c].now <= clock
        /\ creds[call[c].secret[1]][call[c].secret[2]].state # "None"
        /\ creds[call[c].secret[1]][call[c].secret[2]].issued <= call[c].now

(* What a verified caller was told.                                        *)
Authority(c) ==
    call[c].pc = "verified" =>
        LET n == call[c].attempt
            v == call[c].secret[2]
        IN  /\ call[c].secret[1] = n
            /\ attempts[n].state = "Running"
            /\ attempts[n].version = call[c].version
            /\ creds[n][v].state = "Active"
            /\ call[c].now < attempts[n].deadline
            /\ succeeded = 0

(* Why a caller was refused: for good, or under the lock of its attempt.   *)
Refusal(c) ==
    call[c].pc = "refused" =>
        LET n == call[c].attempt
        IN  \/ call[c].service # Assigned
            \/ call[c].secret[1] # n
            \/ /\ attempts[n].state # "None"
               /\ Row(n) \in call[c].locks
               /\ \/ attempts[n].state # "Running"
                  \/ creds[n][call[c].secret[2]].state # "Active"
                  \/ call[c].now >= attempts[n].deadline

Session(c) == Holds(c) /\ Called(c) /\ Authority(c) /\ Refusal(c)

Graph == AttemptsInOrder /\ CredentialsInOrder /\ ResultsOnRecord

IInv == TypeOK /\ LocksExclusive /\ Graph /\ \A c \in Callers : Session(c)

rows == <<attempts, creds, succeeded, clock, results>>

-----------------------------------------------------------------------------
(* Types.                                                                  *)
LEMMA CallFields ==
    ASSUME TypeOK, NEW c \in Callers, call[c].pc # "idle"
    PROVE  /\ call[c] \in Call
           /\ call[c].attempt \in Numbers
           /\ call[c].service \in Services
           /\ call[c].secret \in Secrets
           /\ call[c].secret[1] \in Numbers
           /\ call[c].secret[2] \in Versions
           /\ call[c].now \in Nat
           /\ call[c].version \in 0..3
           /\ call[c].locks \subseteq Locks
  <1>1. call[c] \in Call
    BY DEF TypeOK, Idle
  <1>2. QED
    BY <1>1, BoundsAssumption DEF Call, Secrets

LEMMA RowFields ==
    ASSUME TypeOK, NEW n \in Numbers
    PROVE  /\ attempts[n] \in Attempt
           /\ attempts[n].state \in Live \cup Final \cup {"None"}
           /\ attempts[n].version \in 0..3
           /\ attempts[n].deadline \in Nat
           /\ results[n] \in Nat
           /\ n \in Nat \ {0}
           /\ \A v \in Versions :
                 /\ creds[n][v] \in Credential
                 /\ creds[n][v].state \in {"None", "Active", "Consumed", "Replaced", "Revoked"}
                 /\ creds[n][v].issued \in 0..MaxClock
                 /\ creds[n][v].issued \in Nat
                 /\ v \in Nat \ {0}
  <1>1. attempts[n] \in Attempt /\ results[n] \in Nat
    BY DEF TypeOK
  <1>2. n \in Nat \ {0}
    BY BoundsAssumption DEF Numbers
  <1>3. \A v \in Versions : creds[n][v] \in Credential /\ v \in Nat \ {0}
    BY BoundsAssumption DEF TypeOK, Versions
  <1>4. /\ attempts[n].state \in Live \cup Final \cup {"None"}
        /\ attempts[n].version \in 0..3
        /\ attempts[n].deadline \in Nat
    BY <1>1, BoundsAssumption DEF Attempt
  <1>5. QED
    BY <1>1, <1>2, <1>3, <1>4, BoundsAssumption DEF Credential

LEMMA InitInv == Init => IInv
  <1> SUFFICES ASSUME Init PROVE IInv
    OBVIOUS
  <1>0. PICK deadline \in 1..Window :
           attempts = [n \in Numbers |->
                         IF n = 1 THEN [NewAttempt EXCEPT !.deadline = deadline]
                         ELSE NoAttempt]
    BY DEF Init
  <1>1. /\ [NewAttempt EXCEPT !.deadline = deadline]
             = [state |-> "Pending", version |-> 1, deadline |-> deadline]
        /\ 1 \in Numbers /\ 1 \in Versions /\ clock = 0
    BY BoundsAssumption DEF NewAttempt, Numbers, Versions, Init
  <1>2. \A n \in Numbers :
           attempts[n] = IF n = 1 THEN [state |-> "Pending", version |-> 1, deadline |-> deadline]
                         ELSE [state |-> "None", version |-> 0, deadline |-> 0]
    BY <1>0, <1>1 DEF NoAttempt
  <1>3. \A n \in Numbers, v \in Versions :
           creds[n][v] = IF n = 1 /\ v = 1 THEN [state |-> "Active", issued |-> 0]
                         ELSE [state |-> "None", issued |-> 0]
    BY <1>1 DEF Init, FirstCredential, NoCredential
  <1>4. attempts \in [Numbers -> Attempt]
    BY <1>0, <1>2, BoundsAssumption DEF Attempt, Live, Final
  <1>5. creds \in [Numbers -> [Versions -> Credential]]
    <2>1. /\ [state |-> "Active", issued |-> 0] \in Credential
          /\ [state |-> "None", issued |-> 0] \in Credential
      BY BoundsAssumption DEF Credential
    <2>2. FirstCredential \in [Versions -> Credential]
      BY <1>1, <2>1 DEF FirstCredential, NoCredential
    <2>3. [v \in Versions |-> NoCredential] \in [Versions -> Credential]
      BY <2>1 DEF NoCredential
    <2>4. QED
      BY <2>2, <2>3 DEF Init
  <1>6. TypeOK
    BY <1>1, <1>4, <1>5, BoundsAssumption DEF Init, TypeOK
  <1>7. \A c \in Callers : call[c].pc = "idle" /\ call[c].locks = {}
    BY DEF Init, Idle
  <1>8. LocksExclusive /\ \A c \in Callers : Session(c)
    BY <1>7 DEF LocksExclusive, Session, Holds, Called, Authority, Refusal
  <1>9. AttemptsInOrder
    BY <1>2, BoundsAssumption DEF Init, AttemptsInOrder, Numbers
  <1>10. CredentialsInOrder
    BY <1>1, <1>2, <1>3, BoundsAssumption DEF CredentialsInOrder, Versions
  <1>11. ResultsOnRecord
    BY <1>2, <1>3 DEF Init, ResultsOnRecord, Final, Consumed
  <1>12. QED
    BY <1>6, <1>8, <1>9, <1>10, <1>11 DEF IInv, Graph

LEMMA StutterInv == IInv /\ UNCHANGED vars => IInv'
  BY DEF IInv, vars, TypeOK, LocksExclusive, Graph, AttemptsInOrder, CredentialsInOrder,
         ResultsOnRecord, Consumed, Session, Holds, Called, Authority, Refusal

-----------------------------------------------------------------------------
(* Steps of a session that write no row.                                   *)

(* Such a step disturbs only what is said of that session.                 *)
LEMMA SessionStep ==
    ASSUME IInv, NEW c \in Callers, NEW k \in Call \cup {Idle},
           call' = [call EXCEPT ![c] = k],
           \A d \in Callers \ {c} : k.locks \cap call[d].locks = {},
           UNCHANGED rows,
           Session(c)'
    PROVE  IInv'
  <1>1. /\ call' \in [Callers -> Call \cup {Idle}]
        /\ call'[c] = k
        /\ \A d \in Callers \ {c} : call'[d] = call[d]
    BY DEF IInv, TypeOK
  <1>2. TypeOK'
    BY <1>1 DEF IInv, TypeOK, rows
  <1>3. LocksExclusive'
    BY <1>1 DEF IInv, LocksExclusive
  <1>4. Graph'
    BY DEF IInv, Graph, AttemptsInOrder, CredentialsInOrder, ResultsOnRecord, Consumed, rows
  <1>5. \A d \in Callers \ {c} : Session(d)'
    BY <1>1 DEF IInv, Session, Holds, Called, Authority, Refusal, rows
  <1>6. QED
    BY <1>2, <1>3, <1>4, <1>5 DEF IInv

(* The transaction ends.                                                   *)
LEMMA ReleaseInv ==
    ASSUME IInv, NEW c \in Callers, Release(c), UNCHANGED rows
    PROVE  IInv'
  <1>1. call'[c].pc = "idle" /\ Idle.locks = {}
    BY DEF Release, Idle, IInv, TypeOK
  <1>2. Session(c)'
    BY <1>1 DEF Session, Holds, Called, Authority, Refusal
  <1>3. QED
    BY <1>1, <1>2, SessionStep DEF Release

LEMMA BeginInv ==
    ASSUME IInv, NEW c \in Callers, NEW n \in Numbers, NEW service \in Services,
           NEW secret \in Secrets, Begin(c, n, service, secret)
    PROVE  IInv'
  <1> DEFINE k == [pc |-> "attempt", attempt |-> n, service |-> service, secret |-> secret,
                   now |-> clock, version |-> 0, locks |-> call[c].locks]
  <1>1. k \in Call
    <2>1. call[c].locks \subseteq Locks /\ clock \in 0..MaxClock
      BY DEF IInv, TypeOK, Call, Idle
    <2>2. QED
      BY <2>1 DEF Call
  <1>2. call' = [call EXCEPT ![c] = k] /\ call'[c] = k /\ UNCHANGED rows
    BY DEF Begin, IInv, TypeOK, rows
  <1>3. \A d \in Callers \ {c} : k.locks \cap call[d].locks = {}
    BY DEF IInv, LocksExclusive
  <1>4. k.pc = "attempt" /\ k.secret = secret /\ k.now = clock
    OBVIOUS
  <1> HIDE DEF k
  <1>5. /\ secret[1] \in Numbers /\ secret[2] \in Versions
        /\ creds[secret[1]][secret[2]].state # "None"
    BY DEF Begin, Issued, Secrets
  <1>6. creds[secret[1]][secret[2]].issued <= clock /\ clock <= clock
    BY <1>5, BoundsAssumption DEF IInv, Graph, CredentialsInOrder, TypeOK
  <1>7. Session(c)'
    BY <1>2, <1>4, <1>5, <1>6 DEF Session, Holds, Called, Authority, Refusal, rows
  <1>8. QED
    BY <1>1, <1>2, <1>3, <1>7, SessionStep

(* A locking read adds rows that nobody holds.                             *)
LEMMA AdvanceFields ==
    ASSUME IInv, NEW c \in Callers, call[c].pc # "idle",
           NEW p \in {"operation", "request", "siblings", "credentials", "refused"},
           Advance(c, p)
    PROVE  \E k \in Call :
              /\ call' = [call EXCEPT ![c] = k] /\ call'[c] = k
              /\ k.pc = p
              /\ k.locks = call[c].locks \cup Wants(c)
              /\ k.attempt = call[c].attempt /\ k.service = call[c].service
              /\ k.secret = call[c].secret /\ k.now = call[c].now
              /\ \A d \in Callers \ {c} : k.locks \cap call[d].locks = {}
              /\ UNCHANGED rows
  <1> DEFINE k == [call[c] EXCEPT !.pc = p, !.locks = call[c].locks \cup Wants(c)]
  <1>1. call[c] \in Call
    BY CallFields DEF IInv
  <1>2. Wants(c) \subseteq Locks
    BY DEF Wants, Locks, Existing
  <1>3. k \in Call
    BY <1>1, <1>2 DEF Call
  <1>4. call' = [call EXCEPT ![c] = k] /\ call'[c] = k
    BY DEF Advance, IInv, TypeOK
  <1>5. /\ k.pc = p /\ k.locks = call[c].locks \cup Wants(c)
        /\ k.attempt = call[c].attempt /\ k.service = call[c].service
        /\ k.secret = call[c].secret /\ k.now = call[c].now
    BY <1>1 DEF Call
  <1> HIDE DEF k
  <1>6. \A d \in Callers \ {c} : k.locks \cap call[d].locks = {}
    BY <1>5 DEF Advance, Blockers, IInv, LocksExclusive
  <1>7. QED
    BY <1>3, <1>4, <1>5, <1>6 DEF Advance, rows

LEMMA LockAttemptInv ==
    ASSUME IInv, NEW c \in Callers, LockAttempt(c)
    PROVE  IInv'
  <1> DEFINE found == call[c].attempt \in Existing /\ call[c].service = Assigned
  <1>1. /\ call[c].pc = "attempt"
        /\ IF found THEN Advance(c, "operation") ELSE Advance(c, "refused")
    BY DEF LockAttempt
  <1>2. PICK k \in Call :
           /\ call' = [call EXCEPT ![c] = k] /\ call'[c] = k
           /\ k.pc = IF found THEN "operation" ELSE "refused"
           /\ k.locks = call[c].locks \cup Wants(c)
           /\ k.attempt = call[c].attempt /\ k.service = call[c].service
           /\ k.secret = call[c].secret /\ k.now = call[c].now
           /\ \A d \in Callers \ {c} : k.locks \cap call[d].locks = {}
           /\ UNCHANGED rows
    BY <1>1, AdvanceFields
  <1>3. Called(c) /\ call[c].attempt \in Numbers
    BY <1>1, CallFields DEF IInv, Session
  <1>4. Called(c)' /\ Authority(c)'
    BY <1>1, <1>2, <1>3 DEF Called, Authority, rows
  <1>5. Holds(c)' /\ Refusal(c)'
    <2>1. CASE found
      <3>1. Row(call[c].attempt) \in k.locks /\ attempts[call[c].attempt].state # "None"
        BY <2>1, <1>1, <1>2, <1>3 DEF Wants, Existing
      <3>2. QED
        BY <2>1, <3>1, <1>2 DEF Holds, Refusal, rows
    <2>2. CASE ~found
      <3>1. \/ call[c].service # Assigned
            \/ attempts[call[c].attempt].state = "None"
        BY <2>2, <1>3 DEF Existing
      <3>2. attempts[call[c].secret[1]].state # "None"
        BY <1>1, <1>3, CallFields DEF IInv, Graph, CredentialsInOrder, Called
      <3>3. call[c].service # Assigned \/ call[c].secret[1] # call[c].attempt
        BY <3>1, <3>2
      <3>4. QED
        BY <2>2, <3>3, <1>2 DEF Holds, Refusal
    <2>3. QED
      BY <2>1, <2>2
  <1>6. QED
    BY <1>2, <1>4, <1>5, SessionStep DEF Session

(* The reads of the operation, the request and the siblings.               *)
LEMMA LockGraphInv ==
    ASSUME IInv, NEW c \in Callers,
           LockOperation(c) \/ LockRequest(c) \/ LockSiblings(c)
    PROVE  IInv'
  <1> DEFINE p == IF call[c].pc = "operation" THEN "request"
                  ELSE IF call[c].pc = "request" THEN "siblings" ELSE "credentials"
  <1>1. call[c].pc \in {"operation", "request", "siblings"} /\ Advance(c, p)
    BY DEF LockOperation, LockRequest, LockSiblings
  <1>2. PICK k \in Call :
           /\ call' = [call EXCEPT ![c] = k] /\ call'[c] = k
           /\ k.pc = p
           /\ k.locks = call[c].locks \cup Wants(c)
           /\ k.attempt = call[c].attempt /\ k.service = call[c].service
           /\ k.secret = call[c].secret /\ k.now = call[c].now
           /\ \A d \in Callers \ {c} : k.locks \cap call[d].locks = {}
           /\ UNCHANGED rows
    BY <1>1, AdvanceFields
  <1>3. Called(c) /\ Holds(c)
    BY DEF IInv, Session
  <1>4. Called(c)' /\ Authority(c)' /\ Refusal(c)'
    BY <1>1, <1>2, <1>3 DEF Called, Authority, Refusal, rows
  <1>5. Holds(c)'
    <2>1. call[c].pc = "operation" => Operation \in k.locks
      BY <1>2 DEF Wants
    <2>2. call[c].pc = "siblings" =>
             \A m \in Numbers : attempts[m].state # "None" => Row(m) \in k.locks
      BY <1>2 DEF Wants, Existing
    <2>3. QED
      BY <1>1, <1>2, <1>3, <2>1, <2>2 DEF Holds, rows
  <1>6. QED
    BY <1>2, <1>4, <1>5, SessionStep DEF Session

-----------------------------------------------------------------------------
(* The decision.                                                           *)

(* A verified caller holds the one Active credential of the one live       *)
(* attempt.                                                                *)
LEMMA VerdictSound ==
    ASSUME IInv, NEW n \in Numbers, NEW secret \in Secrets, NEW now,
           Verdict(n, secret, now) = 0
    PROVE  /\ secret[1] = n
           /\ attempts[n].state = "Running"
           /\ secret[2] \in Versions /\ creds[n][secret[2]].state = "Active"
           /\ now < attempts[n].deadline
           /\ succeeded = 0
  <1> DEFINE v == CHOOSE u \in Active(n) : TRUE
  <1>1. ~Contradicted(n)
    BY DEF Verdict
  <1>2. attempts[n].state = "Running" /\ Active(n) # {}
    BY <1>1 DEF Verdict
  <1>3. v \in Active(n)
    BY <1>2
  <1> HIDE DEF v
  <1>4. InWindow(n, v, now) /\ secret = <<n, v>>
    BY <1>1, <1>2 DEF Verdict, v
  <1>5. secret[1] = n /\ secret[2] = v
    BY <1>4
  <1>6. QED
    BY <1>1, <1>2, <1>3, <1>4, <1>5 DEF Contradicted, Active, InWindow

(* The holder of the Active credential of a Running attempt is verified.   *)
LEMMA VerdictComplete ==
    ASSUME IInv, NEW n \in Numbers, NEW v \in Versions, NEW now \in Nat,
           attempts[n].state = "Running", creds[n][v].state = "Active",
           creds[n][v].issued <= now, now < attempts[n].deadline
    PROVE  Verdict(n, <<n, v>>, now) = 0
  <1>1. ~Contradicted(n)
    <2>1. \A m \in Numbers \ {n} :
             attempts[m].state \in {"None", "RetryableFailure"}
      <3> SUFFICES ASSUME NEW m \in Numbers \ {n},
                          attempts[m].state \notin {"None", "RetryableFailure"}
                   PROVE  FALSE
        OBVIOUS
      <3>1. m \in Nat /\ n \in Nat
        BY RowFields DEF IInv
      <3>2. CASE m < n
        BY <3>2 DEF IInv, Graph, AttemptsInOrder
      <3>3. CASE n < m
        BY <3>3 DEF IInv, Graph, AttemptsInOrder
      <3>4. QED
        BY <3>1, <3>2, <3>3
    <2>2. succeeded = 0
      BY <2>1 DEF IInv, TypeOK, Graph, AttemptsInOrder
    <2>3. QED
      BY <2>1, <2>2 DEF Contradicted, Existing, Live
  <1>2. \A u \in Versions : creds[n][u].state # "None" =>
           /\ u <= v
           /\ u # v => creds[n][u].state # "Active"
           /\ creds[n][u].issued <= now
    <2> SUFFICES ASSUME NEW u \in Versions, creds[n][u].state # "None"
                 PROVE  /\ u <= v
                        /\ u # v => creds[n][u].state # "Active"
                        /\ creds[n][u].issued <= now
      OBVIOUS
    <2>1. /\ u \in Nat /\ v \in Nat
          /\ creds[n][u].issued \in Nat /\ creds[n][v].issued \in Nat
      BY RowFields DEF IInv
    <2>2. ~(v < u)
      BY DEF IInv, Graph, CredentialsInOrder
    <2>3. u < v => creds[n][u].state # "Active" /\ creds[n][u].issued <= creds[n][v].issued
      BY DEF IInv, Graph, CredentialsInOrder
    <2>4. QED
      BY <2>1, <2>2, <2>3
  <1>3. Active(n) = {v}
    BY <1>2 DEF Active
  <1>4. (CHOOSE u \in Active(n) : TRUE) = v
    BY <1>3
  <1>5. v = Newest(n)
    <2>1. v \in Issued(n) /\ \A u \in Issued(n) : u <= v
      BY <1>2 DEF Issued
    <2>2. \A w \in Issued(n) : (\A u \in Issued(n) : u <= w) => w = v
      BY <2>1, RowFields DEF IInv, Issued
    <2>3. QED
      BY <2>1, <2>2 DEF Newest
  <1>6. HistoryValid(n, v, now)
    <2> SUFFICES ASSUME NEW u \in Issued(n) \ {v}
                 PROVE  /\ creds[n][u].state \in {"Replaced", "Revoked", "Consumed"}
                        /\ creds[n][u].state = "Replaced" => u + 1 \in Issued(n)
                        /\ creds[n][u].issued <= now
      BY DEF HistoryValid
    <2>1. u \in Versions /\ creds[n][u].state # "None"
      BY DEF Issued
    <2>2. creds[n][u].state = "Replaced" => u + 1 \in Issued(n)
      BY <2>1 DEF IInv, Graph, CredentialsInOrder, Issued
    <2>3. creds[n][u].state \in {"Replaced", "Revoked", "Consumed"}
      BY <2>1, <1>2, RowFields DEF IInv
    <2>4. QED
      BY <2>1, <2>2, <2>3, <1>2
  <1>7. InWindow(n, v, now)
    BY DEF InWindow
  <1>8. QED
    BY <1>1, <1>3, <1>4, <1>5, <1>6, <1>7 DEF Verdict

LEMMA LockCredentialsInv ==
    ASSUME IInv, NEW c \in Callers, LockCredentials(c)
    PROVE  IInv'
  <1> DEFINE n == call[c].attempt
             verdict == Verdict(n, call[c].secret, call[c].now)
  <1>1. call[c] \in Call /\ call[c].pc = "credentials" /\ n \in Numbers
    BY CallFields DEF IInv, LockCredentials
  <1>2. Holds(c) /\ Called(c) /\ UNCHANGED rows
    BY DEF IInv, Session, LockCredentials, rows
  <1>3. CASE verdict = 0
    <2> DEFINE k == [call[c] EXCEPT !.pc = "verified", !.version = attempts[n].version]
    <2>1. attempts[n].version \in 0..3
      BY <1>1, RowFields DEF IInv
    <2>2. k \in Call
      BY <1>1, <2>1 DEF Call
    <2>3. call' = [call EXCEPT ![c] = k] /\ call'[c] = k
      BY <1>3 DEF LockCredentials, IInv, TypeOK
    <2>4. /\ k.pc = "verified" /\ k.version = attempts[n].version /\ k.locks = call[c].locks
          /\ k.attempt = n /\ k.service = call[c].service
          /\ k.secret = call[c].secret /\ k.now = call[c].now
      BY <1>1 DEF Call
    <2> HIDE DEF k
    <2>5. \A d \in Callers \ {c} : k.locks \cap call[d].locks = {}
      BY <2>4 DEF IInv, LocksExclusive
    <2>6. Called(c)' /\ Holds(c)' /\ Refusal(c)'
      BY <1>1, <1>2, <2>3, <2>4 DEF Called, Holds, Refusal, rows
    <2>7. Authority(c)'
      <3>1. /\ call[c].secret[1] = n
            /\ attempts[n].state = "Running"
            /\ creds[n][call[c].secret[2]].state = "Active"
            /\ call[c].now < attempts[n].deadline
            /\ succeeded = 0
        BY <1>1, <1>3, CallFields, VerdictSound DEF IInv
      <3>2. QED
        BY <3>1, <1>2, <2>3, <2>4 DEF Authority, rows
    <2>8. QED
      BY <1>2, <2>2, <2>3, <2>5, <2>6, <2>7, SessionStep DEF Session
  <1>4. CASE verdict # 0
    <2> DEFINE k == [call[c] EXCEPT !.pc = "refused"]
    <2>1. k \in Call
      BY <1>1 DEF Call
    <2>2. call' = [call EXCEPT ![c] = k] /\ call'[c] = k
      BY <1>4 DEF LockCredentials, IInv, TypeOK
    <2>3. /\ k.pc = "refused" /\ k.locks = call[c].locks
          /\ k.attempt = n /\ k.service = call[c].service
          /\ k.secret = call[c].secret /\ k.now = call[c].now
      BY <1>1 DEF Call
    <2> HIDE DEF k
    <2>4. \A d \in Callers \ {c} : k.locks \cap call[d].locks = {}
      BY <2>3 DEF IInv, LocksExclusive
    <2>5. Called(c)' /\ Holds(c)' /\ Authority(c)'
      BY <1>1, <1>2, <2>2, <2>3 DEF Called, Holds, Authority, rows
    <2>6. Refusal(c)'
      <3>1. ~ /\ call[c].secret[1] = n
              /\ attempts[n].state = "Running"
              /\ creds[n][call[c].secret[2]].state = "Active"
              /\ call[c].now < attempts[n].deadline
        <4> SUFFICES ASSUME /\ call[c].secret[1] = n
                            /\ attempts[n].state = "Running"
                            /\ creds[n][call[c].secret[2]].state = "Active"
                            /\ call[c].now < attempts[n].deadline
                     PROVE  FALSE
          OBVIOUS
        <4>1. /\ call[c].secret \in Secrets /\ call[c].secret[2] \in Versions
              /\ call[c].now \in Nat
          BY <1>1, CallFields DEF IInv
        <4>2. call[c].secret = <<n, call[c].secret[2]>>
          BY <4>1 DEF Secrets
        <4>3. creds[n][call[c].secret[2]].issued <= call[c].now
          BY <1>1, <1>2 DEF Called
        <4>4. QED
          BY <4>1, <4>2, <4>3, <1>1, <1>4, VerdictComplete
      <3>2. call[c].now \in Nat /\ attempts[n].deadline \in Nat
        BY <1>1, CallFields, RowFields DEF IInv
      <3>3. QED
        BY <1>1, <1>2, <2>2, <2>3, <3>1, <3>2 DEF Refusal, Holds, rows
    <2>7. QED
      BY <1>2, <2>1, <2>2, <2>4, <2>5, <2>6, SessionStep DEF Session
  <1>5. QED
    BY <1>3, <1>4

LEMMA CarryInv ==
    ASSUME IInv, NEW c \in Callers, Carry(c)
    PROVE  IInv'
  <1> DEFINE k == [call[c] EXCEPT !.pc = "carried", !.locks = {}]
  <1>1. call[c] \in Call /\ call[c].pc = "verified"
    BY CallFields DEF IInv, Carry
  <1>2. k \in Call
    BY <1>1 DEF Call
  <1>3. call' = [call EXCEPT ![c] = k] /\ call'[c] = k /\ UNCHANGED rows
    BY DEF Carry, IInv, TypeOK, rows
  <1>4. /\ k.pc = "carried" /\ k.locks = {}
        /\ k.secret = call[c].secret /\ k.now = call[c].now
    BY <1>1 DEF Call
  <1> HIDE DEF k
  <1>5. Called(c)
    BY DEF IInv, Session
  <1>6. Session(c)'
    BY <1>1, <1>3, <1>4, <1>5 DEF Session, Holds, Called, Authority, Refusal, rows
  <1>7. QED
    BY <1>2, <1>3, <1>4, <1>6, SessionStep

-----------------------------------------------------------------------------
(* Steps that write rows.                                                  *)

(* A session loses nothing to a step of somebody else that changes none of *)
(* its locked rows and withdraws no attempt and no credential.             *)
LEMMA SessionKept ==
    ASSUME IInv, NEW c \in Callers, call'[c] = call[c],
           clock <= clock', clock' \in Nat,
           \A n \in Numbers, v \in Versions : creds[n][v].state # "None" =>
               creds'[n][v].state # "None" /\ creds'[n][v].issued = creds[n][v].issued,
           \A n \in Numbers : attempts[n].state # "None" => attempts'[n].state # "None",
           \A n \in Numbers : Row(n) \in call[c].locks /\ attempts[n].state # "None" =>
               attempts'[n] = attempts[n] /\ creds'[n] = creds[n],
           Operation \in call[c].locks =>
               /\ succeeded' = succeeded
               /\ \A n \in Numbers : attempts'[n].state # "None" => attempts[n].state # "None"
    PROVE  Session(c)'
  <1>1. Holds(c) /\ Called(c) /\ Authority(c) /\ Refusal(c)
    BY DEF IInv, Session
  <1>2. CASE call[c].pc = "idle"
    BY <1>2 DEF Session, Holds, Called, Authority, Refusal
  <1>3. CASE call[c].pc # "idle"
    <2>1. /\ call[c].attempt \in Numbers
          /\ call[c].secret[1] \in Numbers /\ call[c].secret[2] \in Versions
          /\ call[c].now \in Nat /\ clock \in Nat
      BY <1>3, CallFields, BoundsAssumption DEF IInv, TypeOK
    <2>2. Holds(c)'
      BY <1>1, <2>1 DEF Holds
    <2>3. Called(c)'
      BY <1>1, <1>3, <2>1 DEF Called
    <2>4. Authority(c)'
      BY <1>1, <2>1 DEF Authority, Holds
    <2>5. Refusal(c)'
      BY <1>1, <2>1 DEF Refusal
    <2>6. QED
      BY <2>2, <2>3, <2>4, <2>5 DEF Session
  <1>4. QED
    BY <1>2, <1>3

(* Writing one field of one attempt or credential.                         *)
LEMMA AttemptWrite ==
    ASSUME TypeOK, NEW n \in Numbers, NEW s \in Live \cup Final,
           attempts[n].version + 1 \in 0..3,
           attempts' = [attempts EXCEPT ![n].state = s, ![n].version = @ + 1]
    PROVE  /\ attempts' \in [Numbers -> Attempt]
           /\ attempts'[n].state = s
           /\ attempts'[n].version = attempts[n].version + 1
           /\ attempts'[n].deadline = attempts[n].deadline
           /\ \A m \in Numbers \ {n} : attempts'[m] = attempts[m]
  <1> DEFINE a == [attempts[n] EXCEPT !.state = s, !.version = attempts[n].version + 1]
  <1>1. attempts[n] \in Attempt
    BY RowFields
  <1>2. a \in Attempt
    BY <1>1 DEF Attempt
  <1>3. attempts' = [attempts EXCEPT ![n] = a]
    BY DEF TypeOK
  <1>4. /\ a.state = s /\ a.version = attempts[n].version + 1
        /\ a.deadline = attempts[n].deadline
    BY <1>1 DEF Attempt
  <1> HIDE DEF a
  <1>5. QED
    BY <1>2, <1>3, <1>4 DEF TypeOK

LEMMA CredentialWrite ==
    ASSUME TypeOK, NEW n \in Numbers, NEW v \in Versions,
           NEW s \in {"Active", "Consumed", "Replaced", "Revoked"},
           creds' = [creds EXCEPT ![n][v].state = s]
    PROVE  /\ creds' \in [Numbers -> [Versions -> Credential]]
           /\ creds'[n][v].state = s
           /\ creds'[n][v].issued = creds[n][v].issued
           /\ \A u \in Versions \ {v} : creds'[n][u] = creds[n][u]
           /\ \A m \in Numbers \ {n} : creds'[m] = creds[m]
  <1> DEFINE k == [creds[n][v] EXCEPT !.state = s]
  <1>1. creds[n][v] \in Credential
    BY RowFields
  <1>2. k \in Credential
    BY <1>1 DEF Credential
  <1>3. k.state = s /\ k.issued = creds[n][v].issued
    BY <1>1 DEF Credential
  <1>4. creds' = [creds EXCEPT ![n] = [creds[n] EXCEPT ![v] = k]]
    BY DEF TypeOK
  <1> HIDE DEF k
  <1>5. creds[n] \in [Versions -> Credential]
    BY DEF TypeOK
  <1>6. creds'[n] = [creds[n] EXCEPT ![v] = k] /\ \A m \in Numbers \ {n} : creds'[m] = creds[m]
    BY <1>4 DEF TypeOK
  <1>7. creds'[n] \in [Versions -> Credential]
    BY <1>2, <1>5, <1>6
  <1>8. creds' \in [Numbers -> [Versions -> Credential]]
    BY <1>4, <1>6, <1>7 DEF TypeOK
  <1>9. QED
    BY <1>3, <1>5, <1>6, <1>8

(* A bound context concludes its attempt, and with it nobody else's.       *)
LEMMA ConcludeInv ==
    ASSUME IInv, NEW c \in Callers, NEW state \in Final, Conclude(c, state)
    PROVE  IInv'
  <1>0. PICK n \in Numbers, v \in Versions :
           n = call[c].attempt /\ v = call[c].secret[2]
    <2>1. call[c].pc = "verified"
      BY DEF Conclude, Bound
    <2>2. QED
      BY <2>1, CallFields DEF IInv
  <1>1. /\ call[c].pc = "verified" /\ call[c].secret[1] = n
        /\ attempts[n].state = "Running" /\ attempts[n].version = 2
        /\ creds[n][v].state = "Active"
        /\ succeeded = 0
        /\ Row(n) \in call[c].locks /\ Operation \in call[c].locks
    <2>1. call[c].pc = "verified"
      BY DEF Conclude, Bound
    <2>2. QED
      BY <1>0, <2>1 DEF IInv, Session, Holds, Authority, Graph, AttemptsInOrder
  <1>2. /\ attempts' \in [Numbers -> Attempt]
        /\ attempts'[n].state = state
        /\ attempts'[n].version = 3
        /\ \A m \in Numbers \ {n} : attempts'[m] = attempts[m]
    <2>1. attempts' = [attempts EXCEPT ![n].state = state, ![n].version = @ + 1]
      BY <1>0 DEF Conclude
    <2>2. /\ attempts[n].version + 1 = 3 /\ 3 \in 0..3
          /\ state \in Live \cup Final
      BY <1>1
    <2>3. QED
      BY <1>1, <2>1, <2>2, AttemptWrite DEF IInv
  <1>3. /\ creds' \in [Numbers -> [Versions -> Credential]]
        /\ creds'[n][v].state = "Consumed"
        /\ creds'[n][v].issued = creds[n][v].issued
        /\ \A u \in Versions \ {v} : creds'[n][u] = creds[n][u]
        /\ \A m \in Numbers \ {n} : creds'[m] = creds[m]
    <2>1. creds' = [creds EXCEPT ![n][v].state = "Consumed"]
      BY <1>0 DEF Conclude
    <2>2. QED
      BY <1>1, <2>1, CredentialWrite DEF IInv
  <1>4. /\ succeeded' = IF state = "Succeeded" THEN n ELSE 0
        /\ results' = [results EXCEPT ![n] = @ + 1]
        /\ call' = [call EXCEPT ![c] = Idle] /\ clock' = clock
    BY <1>0, <1>1 DEF Conclude, Release
  <1>5. /\ results' \in [Numbers -> Nat] /\ results'[n] = results[n] + 1
        /\ \A m \in Numbers \ {n} : results'[m] = results[m]
    <2>1. n \in Numbers /\ results \in [Numbers -> Nat] /\ results[n] + 1 \in Nat
      BY <1>1 DEF IInv, TypeOK
    <2>2. results' = [results EXCEPT ![n] = results[n] + 1]
      BY <1>4
    <2>3. QED
      BY <2>1, <2>2
  <1>6. /\ call' \in [Callers -> Call \cup {Idle}]
        /\ call'[c].pc = "idle" /\ call'[c].locks = {}
        /\ \A d \in Callers \ {c} : call'[d] = call[d]
    BY <1>4 DEF IInv, TypeOK, Idle
  <1>7. TypeOK'
    BY <1>1, <1>2, <1>3, <1>4, <1>5, <1>6 DEF IInv, TypeOK
  <1>8. LocksExclusive'
    BY <1>6 DEF IInv, LocksExclusive
  <1>9. AttemptsInOrder'
    <2>1. \A m \in Numbers \ {n} : attempts[m].state # "Succeeded"
      BY <1>1, RowFields DEF IInv, Graph, AttemptsInOrder
    <2>2. \A m \in Numbers : n < m => attempts[m].state = "None"
      BY <1>1 DEF IInv, Graph, AttemptsInOrder
    <2>3. n # 0 /\ state \notin {"Pending", "Running", "None"}
      BY <1>1, RowFields DEF IInv, Final
    <2>4. ASSUME NEW m \in Numbers
          PROVE  /\ attempts'[m].state = "Pending" => attempts'[m].version = 1
                 /\ attempts'[m].state = "Running" => attempts'[m].version = 2
                 /\ attempts'[m].state = "Succeeded" <=> succeeded' = m
      <3>1. CASE m = n
        BY <3>1, <1>2, <1>4, <2>3
      <3>2. CASE m # n
        <4>1. m # 0
          BY RowFields DEF IInv
        <4>2. attempts'[m] = attempts[m] /\ attempts[m].state # "Succeeded"
          BY <3>2, <1>2, <2>1
        <4>3. QED
          BY <3>2, <1>4, <4>1, <4>2 DEF IInv, Graph, AttemptsInOrder
      <3>3. QED
        BY <3>1, <3>2
    <2>5. ASSUME NEW m \in Numbers, attempts'[m].state # "None", NEW k \in Numbers, k < m
          PROVE  attempts'[k].state = "RetryableFailure"
      <3>1. attempts[m].state # "None"
        BY <2>5, <1>1, <1>2
      <3>2. attempts[k].state = "RetryableFailure"
        BY <3>1, <2>5 DEF IInv, Graph, AttemptsInOrder
      <3>3. k # n
        BY <3>2, <1>1
      <3>4. QED
        BY <3>2, <3>3, <1>2
    <2>6. QED
      BY <2>4, <2>5 DEF AttemptsInOrder
  <1>10. CredentialsInOrder'
    <2>1. \A m \in Numbers, u \in Versions :
             /\ creds'[m][u].issued = creds[m][u].issued
             /\ creds'[m][u].state = "None" <=> creds[m][u].state = "None"
             /\ creds'[m][u].state = "Replaced" => creds[m][u].state = "Replaced"
             /\ creds'[m][u].state = "Active" => creds[m][u].state = "Active"
      BY <1>1, <1>3
    <2>2. \A m \in Numbers : attempts[m].state # "None" => attempts'[m].state # "None"
      BY <1>2 DEF Final
    <2>3. QED
      BY <2>1, <2>2, <1>4 DEF IInv, Graph, CredentialsInOrder
  <1>11. ResultsOnRecord'
    <2>1. results[n] = 0 /\ Consumed(n) = {}
      BY <1>1 DEF IInv, Graph, ResultsOnRecord, Final
    <2>2. Consumed(n)' = {v}
      <3>1. \A u \in Versions : creds[n][u].state # "Consumed"
        BY <2>1 DEF Consumed
      <3>2. \A u \in Versions : creds'[n][u].state = "Consumed" <=> u = v
        BY <1>1, <1>3, <3>1
      <3>3. QED
        BY <1>1, <3>2 DEF Consumed
    <2>3. \A m \in Numbers \ {n} : Consumed(m)' = Consumed(m)
      BY <1>3 DEF Consumed
    <2>4. ASSUME NEW m \in Numbers
          PROVE  /\ attempts'[m].state \in Final =>
                       results'[m] = 1 /\ \E u \in Versions : Consumed(m)' = {u}
                 /\ attempts'[m].state \notin Final => results'[m] = 0 /\ Consumed(m)' = {}
      <3>1. CASE m = n
        <4>1. attempts'[m].state \in Final /\ results'[m] = 1 /\ Consumed(m)' = {v}
          BY <3>1, <1>2, <1>5, <2>1, <2>2
        <4>2. QED
          BY <4>1, <1>1
      <3>2. CASE m # n
        BY <3>2, <1>2, <1>5, <2>3 DEF IInv, Graph, ResultsOnRecord
      <3>3. QED
        BY <3>1, <3>2
    <2>5. QED
      BY <2>4 DEF ResultsOnRecord
  <1>12. \A d \in Callers : Session(d)'
    <2>1. Session(c)'
      BY <1>6 DEF Session, Holds, Called, Authority, Refusal
    <2>2. ASSUME NEW d \in Callers \ {c} PROVE Session(d)'
      <3>1. Row(n) \notin call[d].locks /\ Operation \notin call[d].locks
        BY <1>1, <2>2 DEF IInv, LocksExclusive
      <3>2. \A m \in Numbers : Row(m) \in call[d].locks =>
               attempts'[m] = attempts[m] /\ creds'[m] = creds[m]
        BY <3>1, <1>2, <1>3
      <3>3. \A m \in Numbers, u \in Versions : creds[m][u].state # "None" =>
               creds'[m][u].state # "None" /\ creds'[m][u].issued = creds[m][u].issued
        BY <1>3
      <3>4. \A m \in Numbers : attempts[m].state # "None" => attempts'[m].state # "None"
        BY <1>2 DEF Final
      <3>5. clock' \in Nat /\ clock <= clock'
        BY <1>4, BoundsAssumption DEF IInv, TypeOK
      <3>6. QED
        BY <3>1, <3>2, <3>3, <3>4, <3>5, <1>6, SessionKept
    <2>3. QED
      BY <2>1, <2>2
  <1>13. QED
    BY <1>7, <1>8, <1>9, <1>10, <1>11, <1>12 DEF IInv, Graph

(* The other commands leave the sessions' program points and locks alone.  *)
LEMMA ExternalInv ==
    ASSUME IInv, UNCHANGED call, TypeOK', Graph', clock <= clock',
           \A n \in Numbers, v \in Versions : creds[n][v].state # "None" =>
               creds'[n][v].state # "None" /\ creds'[n][v].issued = creds[n][v].issued,
           \A n \in Numbers : attempts[n].state # "None" => attempts'[n].state # "None",
           \A c \in Callers, n \in Numbers :
               Row(n) \in call[c].locks /\ attempts[n].state # "None" =>
                   attempts'[n] = attempts[n] /\ creds'[n] = creds[n],
           \A c \in Callers : Operation \in call[c].locks =>
               /\ succeeded' = succeeded
               /\ \A n \in Numbers : attempts'[n].state # "None" => attempts[n].state # "None"
    PROVE  IInv'
  <1>1. clock' \in Nat
    BY BoundsAssumption DEF TypeOK
  <1>2. \A c \in Callers : Session(c)'
    BY <1>1, SessionKept
  <1>3. LocksExclusive'
    BY DEF IInv, LocksExclusive
  <1>4. QED
    BY <1>2, <1>3 DEF IInv

LEMMA StartAttemptInv ==
    ASSUME IInv, NEW n \in Numbers, StartAttempt(n)
    PROVE  IInv'
  <1>1. /\ attempts[n].state = "Pending" /\ attempts[n].version = 1
        /\ UNCHANGED <<creds, succeeded, clock, call, results>>
    BY DEF StartAttempt, IInv, Graph, AttemptsInOrder
  <1>2. /\ attempts' \in [Numbers -> Attempt]
        /\ attempts'[n].state = "Running" /\ attempts'[n].version = 2
        /\ \A m \in Numbers \ {n} : attempts'[m] = attempts[m]
    <2>1. attempts' = [attempts EXCEPT ![n].state = "Running", ![n].version = @ + 1]
      BY DEF StartAttempt
    <2>2. /\ attempts[n].version + 1 = 2 /\ 2 \in 0..3
          /\ "Running" \in Live \cup Final
      BY <1>1 DEF Live
    <2>3. QED
      BY <1>1, <2>1, <2>2, AttemptWrite DEF IInv
  <1>3. TypeOK'
    BY <1>1, <1>2 DEF IInv, TypeOK
  <1>4. \A m \in Numbers :
           /\ attempts'[m].state = "None" <=> attempts[m].state = "None"
           /\ attempts'[m].state = "Succeeded" <=> attempts[m].state = "Succeeded"
           /\ attempts'[m].state = "RetryableFailure" <=> attempts[m].state = "RetryableFailure"
           /\ attempts'[m].state \in Final <=> attempts[m].state \in Final
    BY <1>1, <1>2 DEF Final
  <1>5. AttemptsInOrder'
    BY <1>1, <1>2, <1>4 DEF IInv, Graph, AttemptsInOrder
  <1>6. CredentialsInOrder' /\ ResultsOnRecord'
    BY <1>1, <1>4 DEF IInv, Graph, CredentialsInOrder, ResultsOnRecord, Consumed
  <1>7. \A c \in Callers : Row(n) \notin call[c].locks
    BY <1>1 DEF StartAttempt, Unlocked, Existing
  <1>8. clock <= clock'
    BY <1>1, BoundsAssumption DEF IInv, TypeOK
  <1>9. QED
    BY <1>1, <1>2, <1>3, <1>4, <1>5, <1>6, <1>7, <1>8, ExternalInv DEF Graph

LEMMA RetryInv ==
    ASSUME IInv, NEW n \in Numbers, Retry(n)
    PROVE  IInv'
  <1>1. /\ attempts[n].state = "None"
        /\ n - 1 \in Numbers /\ attempts[n - 1].state = "RetryableFailure"
        /\ UNCHANGED <<succeeded, clock, call, results>>
    BY DEF Retry
  <1>2. clock \in 0..MaxClock /\ clock <= clock
    BY BoundsAssumption DEF IInv, TypeOK
  <1>3. /\ attempts' \in [Numbers -> Attempt]
        /\ attempts'[n].state = "Pending" /\ attempts'[n].version = 1
        /\ \A m \in Numbers \ {n} : attempts'[m] = attempts[m]
    <2>1. /\ NewAttempt \in Attempt
          /\ NewAttempt.state = "Pending" /\ NewAttempt.version = 1
      BY <1>2, BoundsAssumption DEF NewAttempt, Attempt, Live
    <2>2. attempts' = [attempts EXCEPT ![n] = NewAttempt]
      BY DEF Retry
    <2>3. QED
      BY <2>1, <2>2 DEF IInv, TypeOK
  <1>4. /\ creds' \in [Numbers -> [Versions -> Credential]]
        /\ \A v \in Versions : /\ creds'[n][v].state \in {"None", "Active"}
                               /\ creds'[n][v].state = "Active" => v = 1
                               /\ creds'[n][v].issued <= clock
        /\ \A m \in Numbers \ {n} : creds'[m] = creds[m]
    <2>1. FirstCredential \in [Versions -> Credential]
      <3>1. /\ [state |-> "Active", issued |-> clock] \in Credential
            /\ NoCredential \in Credential
        BY <1>2, BoundsAssumption DEF Credential, NoCredential
      <3>2. QED
        BY <3>1 DEF FirstCredential
    <2>2. \A v \in Versions :
             /\ FirstCredential[v].state \in {"None", "Active"}
             /\ FirstCredential[v].state = "Active" => v = 1
             /\ FirstCredential[v].issued <= clock
      BY <1>2, BoundsAssumption DEF FirstCredential, NoCredential
    <2>3. creds' = [creds EXCEPT ![n] = FirstCredential]
      BY DEF Retry
    <2>4. creds'[n] = FirstCredential /\ \A m \in Numbers \ {n} : creds'[m] = creds[m]
      BY <2>3 DEF IInv, TypeOK
    <2>5. creds' \in [Numbers -> [Versions -> Credential]]
      BY <2>1, <2>3 DEF IInv, TypeOK
    <2>6. QED
      BY <2>2, <2>4, <2>5
  <1>5. TypeOK'
    BY <1>1, <1>3, <1>4 DEF IInv, TypeOK
  <1>6. \A v \in Versions : creds[n][v].state = "None"
    BY <1>1 DEF IInv, Graph, CredentialsInOrder
  <1>7. AttemptsInOrder'
    <2>1. succeeded # n
      BY <1>1 DEF IInv, Graph, AttemptsInOrder
    <2>2. \A m \in Numbers : m < n => attempts[m].state = "RetryableFailure"
      <3> SUFFICES ASSUME NEW m \in Numbers, m < n
                   PROVE  attempts[m].state = "RetryableFailure"
        OBVIOUS
      <3>1. m \in Nat /\ n \in Nat
        BY RowFields DEF IInv
      <3>2. m = n - 1 \/ m < n - 1
        BY <3>1
      <3>3. QED
        BY <1>1, <3>2 DEF IInv, Graph, AttemptsInOrder
    <2>3. \A m \in Numbers : n < m => attempts[m].state = "None"
      BY <1>1 DEF IInv, Graph, AttemptsInOrder
    <2>4. ASSUME NEW m \in Numbers
          PROVE  /\ attempts'[m].state = "Pending" => attempts'[m].version = 1
                 /\ attempts'[m].state = "Running" => attempts'[m].version = 2
                 /\ attempts'[m].state = "Succeeded" <=> succeeded' = m
      <3>1. CASE m = n
        BY <3>1, <1>1, <1>3, <2>1
      <3>2. CASE m # n
        BY <3>2, <1>1, <1>3 DEF IInv, Graph, AttemptsInOrder
      <3>3. QED
        BY <3>1, <3>2
    <2>5. ASSUME NEW m \in Numbers, attempts'[m].state # "None", NEW k \in Numbers, k < m
          PROVE  attempts'[k].state = "RetryableFailure"
      <3>1. m \in Nat /\ n \in Nat /\ k \in Nat
        BY RowFields DEF IInv
      <3>2. k # n
        BY <2>3, <2>5, <1>3, <3>1
      <3>3. attempts[k].state = "RetryableFailure"
        BY <2>2, <2>5, <1>3 DEF IInv, Graph, AttemptsInOrder
      <3>4. QED
        BY <3>2, <3>3, <1>3
    <2>6. QED
      BY <2>4, <2>5 DEF AttemptsInOrder
  <1>8. CredentialsInOrder'
    <2> SUFFICES ASSUME NEW m \in Numbers, NEW v \in Versions, creds'[m][v].state # "None"
                 PROVE  /\ attempts'[m].state # "None"
                        /\ creds'[m][v].issued <= clock
                        /\ creds'[m][v].state = "Replaced" =>
                              v + 1 \in Versions /\ creds'[m][v + 1].state # "None"
                        /\ \A u \in Versions : u < v /\ creds'[m][u].state # "None" =>
                              /\ creds'[m][u].state # "Active"
                              /\ creds'[m][u].issued <= creds'[m][v].issued
      BY <1>1 DEF CredentialsInOrder
    <2>1. CASE m = n
      <3>1. v = 1 /\ \A u \in Versions : creds'[m][u].state # "None" => u = 1
        BY <2>1, <1>4
      <3>2. QED
        BY <2>1, <3>1, <1>3, <1>4
    <2>2. CASE m # n
      BY <2>2, <1>3, <1>4 DEF IInv, Graph, CredentialsInOrder
    <2>3. QED
      BY <2>1, <2>2
  <1>9. ResultsOnRecord'
    <2>1. Consumed(n)' = {} /\ \A m \in Numbers \ {n} : Consumed(m)' = Consumed(m)
      BY <1>4 DEF Consumed
    <2>2. results[n] = 0
      BY <1>1 DEF IInv, Graph, ResultsOnRecord, Final
    <2>3. QED
      BY <1>1, <1>3, <2>1, <2>2 DEF IInv, Graph, ResultsOnRecord, Final
  <1>10. \A c \in Callers : Operation \notin call[c].locks
    BY DEF Retry, Unlocked
  <1>11. \A m \in Numbers : attempts[m].state # "None" =>
            m # n /\ attempts'[m] = attempts[m] /\ creds'[m] = creds[m]
    BY <1>1, <1>3, <1>4
  <1>12. \A m \in Numbers, v \in Versions : creds[m][v].state # "None" =>
            creds'[m][v].state # "None" /\ creds'[m][v].issued = creds[m][v].issued
    BY <1>4, <1>6
  <1>13. \A m \in Numbers : attempts[m].state # "None" => attempts'[m].state # "None"
    BY <1>11
  <1>14. QED
    BY <1>1, <1>2, <1>5, <1>7, <1>8, <1>9, <1>10, <1>11, <1>12, <1>13, ExternalInv DEF Graph

(* The replacement is issued now, and its predecessor is no longer Active. *)
LEMMA ReplaceInv ==
    ASSUME IInv, NEW n \in Numbers, NEW v \in Versions, Replace(n, v)
    PROVE  IInv'
  <1>1. /\ attempts[n].state \in Live
        /\ creds[n][v].state = "Active" /\ v + 1 \in Versions /\ v \in Nat
        /\ UNCHANGED <<attempts, succeeded, clock, call, results>>
        /\ \A c \in Callers : Row(n) \notin call[c].locks
    BY RowFields DEF Replace, Active, Unlocked, IInv
  <1>2. clock \in 0..MaxClock /\ clock <= clock
    BY BoundsAssumption DEF IInv, TypeOK
  <1>3. \A u \in Versions : v < u => creds[n][u].state = "None"
    BY <1>1 DEF IInv, Graph, CredentialsInOrder
  <1> DEFINE old == [creds[n][v] EXCEPT !.state = "Replaced"]
             new == [state |-> "Active", issued |-> clock]
             written == [[creds[n] EXCEPT ![v] = old] EXCEPT ![v + 1] = new]
  <1>4. creds[n] \in [Versions -> Credential] /\ creds[n][v] \in Credential
    BY DEF IInv, TypeOK
  <1>5. /\ old \in Credential /\ new \in Credential
        /\ old.state = "Replaced" /\ old.issued = creds[n][v].issued
        /\ new.state = "Active" /\ new.issued = clock
    BY <1>2, <1>4 DEF Credential
  <1>6. creds' = [creds EXCEPT ![n] = written]
    BY <1>1, <1>4 DEF Replace, IInv, TypeOK
  <1> HIDE DEF old, new
  <1>7. /\ written \in [Versions -> Credential]
        /\ written[v] = old /\ written[v + 1] = new
        /\ \A u \in Versions : u \notin {v, v + 1} => written[u] = creds[n][u]
    BY <1>1, <1>4, <1>5
  <1> HIDE DEF written
  <1>8. /\ creds' \in [Numbers -> [Versions -> Credential]]
        /\ creds'[n] = written
        /\ \A m \in Numbers \ {n} : creds'[m] = creds[m]
    BY <1>6, <1>7 DEF IInv, TypeOK
  <1>9. TypeOK'
    BY <1>1, <1>8 DEF IInv, TypeOK
  <1>10. AttemptsInOrder'
    BY <1>1 DEF IInv, Graph, AttemptsInOrder
  <1>11. \A m \in Numbers, u \in Versions : creds[m][u].state # "None" =>
            creds'[m][u].state # "None" /\ creds'[m][u].issued = creds[m][u].issued
    <2>1. creds[n][v + 1].state = "None"
      BY <1>1, <1>3
    <2>2. QED
      BY <1>5, <1>7, <1>8, <2>1
  <1>12. CredentialsInOrder'
    <2> SUFFICES ASSUME NEW m \in Numbers, NEW w \in Versions, creds'[m][w].state # "None"
                 PROVE  /\ attempts[m].state # "None"
                        /\ creds'[m][w].issued <= clock
                        /\ creds'[m][w].state = "Replaced" =>
                              w + 1 \in Versions /\ creds'[m][w + 1].state # "None"
                        /\ \A u \in Versions : u < w /\ creds'[m][u].state # "None" =>
                              /\ creds'[m][u].state # "Active"
                              /\ creds'[m][u].issued <= creds'[m][w].issued
      BY <1>1 DEF CredentialsInOrder
    <2>1. CASE m # n
      BY <2>1, <1>8 DEF IInv, Graph, CredentialsInOrder
    <2>2. CASE m = n /\ w = v + 1
      <3>1. \A u \in Versions : u < v + 1 /\ creds'[n][u].state # "None" =>
               /\ creds'[n][u].state # "Active"
               /\ creds'[n][u].issued <= clock
        <4> SUFFICES ASSUME NEW u \in Versions, u < v + 1, creds'[n][u].state # "None"
                     PROVE  /\ creds'[n][u].state # "Active"
                            /\ creds'[n][u].issued <= clock
          OBVIOUS
        <4>1. u \in Nat
          BY RowFields DEF IInv
        <4>2. CASE u = v
          BY <4>2, <1>1, <1>5, <1>7, <1>8 DEF IInv, Graph, CredentialsInOrder
        <4>3. CASE u < v
          <5>1. creds'[n][u] = creds[n][u]
            BY <4>3, <4>1, <1>1, <1>7, <1>8
          <5>2. QED
            BY <5>1, <4>3, <1>1 DEF IInv, Graph, CredentialsInOrder
        <4>4. QED
          BY <4>1, <4>2, <4>3, <1>1
      <3>2. creds'[n][v + 1] = new
        BY <1>7, <1>8
      <3>3. QED
        BY <2>2, <3>1, <3>2, <1>1, <1>2, <1>5 DEF Live
    <2>3. CASE m = n /\ w # v + 1
      <3>1. creds[n][w].state # "None" /\ creds'[n][w].issued = creds[n][w].issued
        BY <2>3, <1>1, <1>5, <1>7, <1>8
      <3>2. w \in Nat /\ w <= v
        BY <3>1, <1>1, <1>3, RowFields DEF IInv
      <3>3. attempts[n].state # "None" /\ creds'[n][w].issued <= clock
        BY <3>1 DEF IInv, Graph, CredentialsInOrder
      <3>4. creds'[n][w].state = "Replaced" =>
               w + 1 \in Versions /\ creds'[n][w + 1].state # "None"
        <4>1. CASE w = v
          BY <4>1, <1>1, <1>5, <1>7, <1>8
        <4>2. CASE w # v
          <5>1. creds'[n][w] = creds[n][w]
            BY <4>2, <2>3, <1>7, <1>8
          <5>2. QED
            BY <5>1, <3>1, <1>11 DEF IInv, Graph, CredentialsInOrder
        <4>3. QED
          BY <4>1, <4>2
      <3>5. ASSUME NEW u \in Versions, u < w, creds'[n][u].state # "None"
            PROVE  /\ creds'[n][u].state # "Active"
                   /\ creds'[n][u].issued <= creds'[n][w].issued
        <4>1. u \in Nat /\ u \notin {v, v + 1}
          BY <3>2, <3>5, <1>1, RowFields DEF IInv
        <4>2. creds'[n][u] = creds[n][u]
          BY <4>1, <1>7, <1>8
        <4>3. QED
          BY <4>2, <3>1, <3>5 DEF IInv, Graph, CredentialsInOrder
      <3>6. QED
        BY <2>3, <3>3, <3>4, <3>5
    <2>4. QED
      BY <2>1, <2>2, <2>3
  <1>13. ResultsOnRecord'
    <2>1. attempts[n].state \notin Final
      BY <1>1 DEF Live, Final
    <2>2. Consumed(n) = {}
      BY <2>1 DEF IInv, Graph, ResultsOnRecord
    <2>3. Consumed(n)' = {}
      BY <2>2, <1>5, <1>7, <1>8 DEF Consumed
    <2>4. \A m \in Numbers \ {n} : Consumed(m)' = Consumed(m)
      BY <1>8 DEF Consumed
    <2>5. QED
      BY <1>1, <2>1, <2>2, <2>3, <2>4 DEF IInv, Graph, ResultsOnRecord
  <1>14. QED
    BY <1>1, <1>2, <1>8, <1>9, <1>10, <1>11, <1>12, <1>13, ExternalInv DEF Graph

LEMMA RevokeInv ==
    ASSUME IInv, NEW n \in Numbers, NEW v \in Versions, Revoke(n, v)
    PROVE  IInv'
  <1>1. /\ creds[n][v].state = "Active"
        /\ UNCHANGED <<attempts, succeeded, clock, call, results>>
        /\ \A c \in Callers : Row(n) \notin call[c].locks
    BY DEF Revoke, Active, Unlocked
  <1>2. /\ creds' \in [Numbers -> [Versions -> Credential]]
        /\ creds'[n][v].state = "Revoked"
        /\ creds'[n][v].issued = creds[n][v].issued
        /\ \A u \in Versions \ {v} : creds'[n][u] = creds[n][u]
        /\ \A m \in Numbers \ {n} : creds'[m] = creds[m]
    <2>1. creds' = [creds EXCEPT ![n][v].state = "Revoked"]
      BY DEF Revoke
    <2>2. QED
      BY <2>1, CredentialWrite DEF IInv
  <1>3. \A m \in Numbers, u \in Versions :
           /\ creds'[m][u].issued = creds[m][u].issued
           /\ creds'[m][u].state = "None" <=> creds[m][u].state = "None"
           /\ creds'[m][u].state = "Replaced" => creds[m][u].state = "Replaced"
           /\ creds'[m][u].state = "Active" => creds[m][u].state = "Active"
           /\ creds'[m][u].state = "Consumed" <=> creds[m][u].state = "Consumed"
    BY <1>1, <1>2
  <1>4. TypeOK'
    BY <1>1, <1>2 DEF IInv, TypeOK
  <1>5. AttemptsInOrder'
    BY <1>1 DEF IInv, Graph, AttemptsInOrder
  <1>6. CredentialsInOrder'
    BY <1>1, <1>3 DEF IInv, Graph, CredentialsInOrder
  <1>7. ResultsOnRecord'
    <2>1. \A m \in Numbers : Consumed(m)' = Consumed(m)
      BY <1>3 DEF Consumed
    <2>2. QED
      BY <1>1, <2>1 DEF IInv, Graph, ResultsOnRecord
  <1>8. clock <= clock'
    BY <1>1, BoundsAssumption DEF IInv, TypeOK
  <1>9. QED
    BY <1>1, <1>2, <1>3, <1>4, <1>5, <1>6, <1>7, <1>8, ExternalInv DEF Graph

LEMMA TickInv ==
    ASSUME IInv, Tick
    PROVE  IInv'
  <1>1. /\ clock' \in 0..MaxClock /\ clock <= clock'
        /\ clock \in Nat /\ clock' \in Nat
        /\ UNCHANGED <<attempts, creds, succeeded, call, results>>
    BY BoundsAssumption DEF Tick, IInv, TypeOK
  <1>2. TypeOK'
    BY <1>1 DEF IInv, TypeOK
  <1>3. AttemptsInOrder' /\ ResultsOnRecord'
    BY <1>1 DEF IInv, Graph, AttemptsInOrder, ResultsOnRecord, Consumed
  <1>4. \A n \in Numbers, v \in Versions : creds[n][v].issued \in Nat
    BY RowFields DEF IInv
  <1>5. CredentialsInOrder'
    BY <1>1, <1>4 DEF IInv, Graph, CredentialsInOrder
  <1>6. QED
    BY <1>1, <1>2, <1>3, <1>5, ExternalInv DEF Graph

-----------------------------------------------------------------------------
LEMMA NextInv == IInv /\ [Next]_vars => IInv'
  <1> SUFFICES ASSUME IInv, [Next]_vars PROVE IInv'
    OBVIOUS
  <1>1. ASSUME NEW c \in Callers,
               Refuse(c) \/ Abort(c) \/ RejectContext(c) \/ DeadlockVictim(c)
        PROVE  IInv'
    BY <1>1, ReleaseInv DEF Refuse, Abort, RejectContext, DeadlockVictim, rows
  <1>2. ASSUME NEW c \in Callers, Verify(c) \/ Use(c) PROVE IInv'
    BY <1>1, <1>2, LockAttemptInv, LockGraphInv, LockCredentialsInv, ConcludeInv DEF Verify, Use
  <1>3. CASE External
    BY <1>3, StartAttemptInv, RetryInv, ReplaceInv, RevokeInv, TickInv DEF External
  <1>4. CASE UNCHANGED vars
    BY <1>4, StutterInv
  <1>5. QED
    BY <1>1, <1>2, <1>3, <1>4, BeginInv, CarryInv DEF Next

LEMMA InvHolds == Spec => []IInv
  BY InitInv, NextInv, PTL DEF Spec

(* The variables keep their types for any number of callers, attempts and  *)
(* credential versions.                                                    *)
THEOREM TypeCorrect == Spec => []TypeOK
  <1>1. IInv => TypeOK
    BY DEF IInv
  <1>2. QED
    BY <1>1, InvHolds, PTL

(* What a verified caller was told stays true until its transaction ends,  *)
(* whatever the commands around it do.                                     *)
THEOREM VerifiedAuthorityHolds == Spec => []AuthorityHolds
  <1>1. ASSUME IInv, NEW c \in Callers, call[c].pc = "verified"
        PROVE  LET n == call[c].attempt
                   v == call[c].secret[2]
               IN  /\ call[c].secret[1] = n
                   /\ call[c].service = Assigned
                   /\ attempts[n].state = "Running"
                   /\ attempts[n].version = call[c].version
                   /\ Active(n) = {v}
                   /\ \A u \in Issued(n) : u <= v
                   /\ InWindow(n, v, call[c].now)
                   /\ succeeded = 0
                   /\ \A m \in Existing \ {n} : attempts[m].state \in Final \ {"Succeeded"}
    <2> DEFINE n == call[c].attempt
               v == call[c].secret[2]
    <2>1. n \in Numbers /\ v \in Versions
      BY <1>1, CallFields DEF IInv
    <2>2. /\ call[c].secret[1] = n /\ call[c].service = Assigned
          /\ attempts[n].state = "Running" /\ attempts[n].version = call[c].version
          /\ creds[n][v].state = "Active"
          /\ call[c].now < attempts[n].deadline
          /\ succeeded = 0
          /\ creds[n][v].issued <= call[c].now
      BY <1>1 DEF IInv, Session, Holds, Called, Authority
    <2> HIDE DEF n, v
    <2>3. \A u \in Versions : creds[n][u].state # "None" =>
             u <= v /\ (u # v => creds[n][u].state # "Active")
      <3> SUFFICES ASSUME NEW u \in Versions, creds[n][u].state # "None"
                   PROVE  u <= v /\ (u # v => creds[n][u].state # "Active")
        OBVIOUS
      <3>1. u \in Nat /\ v \in Nat
        BY <1>1, <2>1, RowFields DEF IInv
      <3>2. ~(v < u) /\ (u < v => creds[n][u].state # "Active")
        BY <1>1, <2>1, <2>2 DEF IInv, Graph, CredentialsInOrder
      <3>3. QED
        BY <3>1, <3>2
    <2>4. Active(n) = {v} /\ \A u \in Issued(n) : u <= v
      BY <2>1, <2>2, <2>3 DEF Active, Issued
    <2>5. \A m \in Existing \ {n} : attempts[m].state \in Final \ {"Succeeded"}
      <3> SUFFICES ASSUME NEW m \in Numbers \ {n}, attempts[m].state # "None"
                   PROVE  attempts[m].state = "RetryableFailure"
        BY DEF Existing, Final
      <3>1. m \in Nat /\ n \in Nat
        BY <1>1, <2>1, RowFields DEF IInv
      <3>2. ~(n < m)
        BY <1>1, <2>1, <2>2 DEF IInv, Graph, AttemptsInOrder
      <3>3. m < n
        BY <3>1, <3>2
      <3>4. QED
        BY <1>1, <2>1, <2>2, <3>3 DEF IInv, Graph, AttemptsInOrder
    <2>6. InWindow(n, v, call[c].now)
      BY <2>2 DEF InWindow
    <2>7. QED
      BY <2>2, <2>4, <2>5, <2>6 DEF n, v
  <1>2. IInv => AuthorityHolds
    BY <1>1 DEF AuthorityHolds
  <1>3. QED
    BY <1>2, InvHolds, PTL

(* An attempt gets at most one result, for one consumed credential, and    *)
(* only the last attempt of an operation can be live or have succeeded.    *)
THEOREM AttemptsSettleOnce == Spec => []SettledOnce
  <1>1. ASSUME IInv PROVE SettledOnce
    <2>1. ASSUME NEW n \in Numbers
          PROVE  /\ results[n] = IF attempts[n].state \in Final THEN 1 ELSE 0
                 /\ results[n] = Cardinality(Consumed(n))
      <3>1. CASE attempts[n].state \in Final
        <4>1. results[n] = 1 /\ \E v \in Versions : Consumed(n) = {v}
          BY <1>1, <3>1 DEF IInv, Graph, ResultsOnRecord
        <4>2. QED
          BY <3>1, <4>1, FS_Singleton
      <3>2. CASE attempts[n].state \notin Final
        <4>1. results[n] = 0 /\ Consumed(n) = {}
          BY <1>1, <3>2 DEF IInv, Graph, ResultsOnRecord
        <4>2. QED
          BY <3>2, <4>1, FS_EmptySet
      <3>3. QED
        BY <3>1, <3>2
    <2>2. \A n \in Existing : attempts[n].state = "Succeeded" <=> succeeded = n
      BY <1>1 DEF IInv, Graph, AttemptsInOrder, Existing
    <2>3. \A n \in Existing : n + 1 \in Existing => attempts[n].state = "RetryableFailure"
      <3> SUFFICES ASSUME NEW n \in Numbers, n + 1 \in Numbers,
                          attempts[n + 1].state # "None"
                   PROVE  attempts[n].state = "RetryableFailure"
        BY DEF Existing
      <3>1. n < n + 1
        BY <1>1, RowFields DEF IInv
      <3>2. QED
        BY <1>1, <3>1 DEF IInv, Graph, AttemptsInOrder
    <2>4. QED
      BY <2>1, <2>2, <2>3 DEF SettledOnce, Consumed
  <1>2. QED
    BY <1>1, InvHolds, PTL

(* The assigned service's callback for its Running attempt, with the       *)
(* Active credential and begun before the deadline, is never refused.      *)
THEOREM CurrentCallbacksServed == Spec => []CurrentCallbackServed
  <1>1. ASSUME IInv, NEW c \in Callers, call[c].pc = "refused"
        PROVE  LET n == call[c].attempt
               IN  \/ call[c].service # Assigned
                   \/ n \notin Existing
                   \/ attempts[n].state # "Running"
                   \/ call[c].secret \notin {<<n, v>> : v \in Active(n)}
                   \/ call[c].now >= attempts[n].deadline
    <2> DEFINE n == call[c].attempt
    <2>1. ASSUME NEW v \in Active(n), call[c].secret = <<n, v>>
          PROVE  /\ call[c].secret[1] = n
                 /\ creds[n][call[c].secret[2]].state = "Active"
      BY <2>1 DEF Active
    <2>2. Refusal(c)
      BY <1>1 DEF IInv, Session
    <2>3. QED
      BY <1>1, <2>1, <2>2 DEF Refusal
  <1>2. IInv => CurrentCallbackServed
    BY <1>1 DEF CurrentCallbackServed
  <1>3. QED
    BY <1>2, InvHolds, PTL
================================================================================
