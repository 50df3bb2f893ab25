--------------------------- MODULE MachineCommands ---------------------------
(***************************************************************************)
(* The two machine endpoints as a whole: a handler authenticates a signed  *)
(* request (MachineAuth, whose nonce commits first, in a transaction of    *)
(* its own) and then runs the command in another transaction, under the    *)
(* Idempotency-Key header (CommandIdempotency).  The signature covers the  *)
(* body, not that header.  A failure between or after the two leaves the   *)
(* nonce spent: a client retries with the same key and a new signature.    *)
(***************************************************************************)
EXTENDS Integers, FiniteSets

CONSTANTS Handlers, Requests, MaxVersion, MaxClock, Skew, Retention, Drift,
          Processing, Margin, Overlap,          \* MachineAuth
          Keys, Bodies, Snapshots, MaxTx, None  \* CommandIdempotency

(* What MachineAuth and CommandIdempotency assume of their constants, and  *)
(* that a request carries a body.                                          *)
ASSUME RequestsAssumption ==
           \A r \in Requests : /\ {"nonce", "signedAt", "version", "body"} \subseteq DOMAIN r
                              /\ r.signedAt \in Int
                              /\ r.version \in 1..MaxVersion
                              /\ r.body \in Bodies

ASSUME ClockAssumption == /\ {MaxClock, Skew, Retention, Drift, Processing} \subseteq Nat
                          /\ Overlap \in Nat \ {0}
                          /\ MaxVersion \in Nat \ {0}

ASSUME RetentionAssumption == Retention > Skew
ASSUME MarginAssumption == Margin \in Nat /\ Margin >= 2 * Skew + Processing
ASSUME MaxTxAssumption == MaxTx \in Nat
ASSUME NoneAssumption == None \notin Keys \cup Bodies \cup Snapshots

VARIABLES identity, creds, nonces, clock, call, spent,  \* MachineAuth
          rows, txn, token, answers, lastTx,            \* CommandIdempotency
          opened    \* which request each command transaction serves (history)

authVars == <<identity, creds, nonces, clock, call, spent>>
idemVars == <<rows, txn, token, answers, lastTx>>
vars == <<identity, creds, nonces, clock, call, spent,
          rows, txn, token, answers, lastTx, opened>>

Auth == INSTANCE MachineAuth
Idem == INSTANCE CommandIdempotency WITH Workers <- Handlers, Careless <- {}

Init == Auth!Init /\ Idem!Init /\ opened = {}

-----------------------------------------------------------------------------
Receive(h, request, now) ==
    /\ txn[h].pc = "idle"
    /\ Auth!Receive(h, request, now)
    /\ UNCHANGED <<idemVars, opened>>

(* The dependency authenticates before the endpoint's body runs.           *)
Authenticate(h) ==
    /\ \/ Auth!ReadIdentity(h) \/ Auth!ReadCredentials(h) \/ Auth!BeginNonce(h)
       \/ Auth!RefuseNonce(h) \/ Auth!CommitNonce(h)
    /\ UNCHANGED <<idemVars, opened>>

InsertNonce(h) == Auth!InsertNonce(h) /\ UNCHANGED <<idemVars, opened>>

(* A 401, or a request whose key, content type, body or id does not parse. *)
Refuse(h) == Auth!Return(h) /\ UNCHANGED <<idemVars, opened>>

(* Mutant: the nonce row is still uncommitted when the command begins.     *)
ExecuteUncommitted(h, k) ==
    /\ call[h].pc \in {"commit", "accepted"}
    /\ call' = [call EXCEPT ![h] = Auth!Idle]
    /\ Idem!Open(h, k, call[h].request.body)
    /\ opened' = opened \cup {[request |-> call[h].request, tx |-> lastTx + 1]}
    /\ UNCHANGED <<identity, creds, nonces, clock, spent>>

(* The endpoint calls the command's service, which opens its transaction.  *)
Execute(h, k) ==
    /\ call[h].pc = "accepted"
    /\ Auth!Return(h)
    /\ Idem!Open(h, k, call[h].request.body)
    /\ opened' = opened \cup {[request |-> call[h].request, tx |-> lastTx + 1]}

(* What the command does inside its transaction, and its answer.           *)
Command(h) ==
    /\ \/ Idem!Lookup(h) \/ Idem!UniqueViolation(h)
       \/ \E s \in Snapshots : Idem!Complete(h, h, s)
       \/ Idem!Commit(h) \/ Idem!Raise(h) \/ Idem!Respond(h)
    /\ UNCHANGED <<authVars, opened>>

(* The command's steps that wait for another session's key or row.         *)
AwaitKey(h) ==
    /\ Idem!Insert(h) \/ Idem!ReadWinner(h)
    /\ UNCHANGED <<authVars, opened>>

(* A dependency failure or the end of the process, at any point.           *)
Fail(h) ==
    \/ Auth!Abort(h) /\ UNCHANGED <<idemVars, opened>>
    \/ (Idem!Abort(h) \/ Idem!LoseResponse(h)) /\ UNCHANGED <<authVars, opened>>

External == Auth!External /\ UNCHANGED <<idemVars, opened>>

Next == \/ \E h \in Handlers :
              \/ \E request \in Requests, now \in -Drift..(MaxClock + Drift) :
                    Receive(h, request, now)
              \/ Authenticate(h) \/ InsertNonce(h) \/ Refuse(h)
              \/ \E k \in Keys : Execute(h, k)
              \/ Command(h) \/ AwaitKey(h) \/ Fail(h)
        \/ External

Spec == Init /\ [][Next]_vars

(* A process keeps executing its handlers; PostgreSQL serves the inserts   *)
(* and locking reads that wait in queue order.                             *)
Fairness == \A h \in Handlers :
               /\ WF_vars(Authenticate(h) \/ Refuse(h) \/ Command(h))
               /\ SF_vars(InsertNonce(h))
               /\ SF_vars(AwaitKey(h))

FairSpec == Spec /\ Fairness

-----------------------------------------------------------------------------
(* Every command transaction serves a signed request whose nonce has been  *)
(* committed, and however often that request is sent, and wherever the     *)
(* first handling of it failed, no other transaction does.                 *)
OneCommandPerRequest ==
    \A o \in opened : /\ o.request \in spent
                      /\ \A p \in opened : o.request = p.request => o = p

(* What clients are told of a key through any number of signed retries is  *)
(* the one committed execution, and no caller meets an incident.           *)
RetriesAgree == Idem!AnswersAgree /\ Idem!NoIncident

(* Every received request ends, although copies wait for each other's      *)
(* nonce and retries for each other's key.                                 *)
EveryRequestEnds ==
    \A h \in Handlers :
        call[h].pc # "idle" \/ txn[h].pc # "idle" ~>
            call[h].pc = "idle" /\ txn[h].pc = "idle"
=============================================================================
