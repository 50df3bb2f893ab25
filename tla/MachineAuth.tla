----------------------------- MODULE MachineAuth -----------------------------
(***************************************************************************)
(* WorkflowServiceAuthenticator: HMAC verification of one workflow service *)
(* and replay protection by a committed nonce.  A call reads its process's *)
(* clock once, before the body arrives; it then reads the identity and the *)
(* credentials, and commits the nonce in a transaction of its own.  A      *)
(* client may send one signed request any number of times, at any time.    *)
(*                                                                         *)
(* External: PostgreSQL (its clock, the unique index a nonce insert waits  *)
(* on), the operators that rotate, revoke and disable, and the deletion of *)
(* old nonces the documentation describes.  The code contains none of them.*)
(***************************************************************************)
EXTENDS Integers, FiniteSets

CONSTANTS Handlers,    \* handlers of the server processes
          Requests,    \* signed requests: nonce, signing time, signer's version
          MaxVersion,  \* bound: credential versions
          MaxClock,    \* bound: database clock
          Skew,        \* machine_clock_skew_seconds
          Retention,   \* machine_nonce_retention_seconds
          Drift,       \* how far a process clock may be from the database's
          Processing,  \* longest a nonce transaction stays open
          Margin,      \* how long after its expiry a nonce is kept
          Overlap      \* how long a rotated credential stays verifiable

ASSUME RequestsAssumption ==
           \A r \in Requests : /\ {"nonce", "signedAt", "version"} \subseteq DOMAIN r
                              /\ r.signedAt \in Int
                              /\ r.version \in 1..MaxVersion

ASSUME ClockAssumption == /\ {MaxClock, Skew, Retention, Drift, Processing} \subseteq Nat
                          /\ Overlap \in Nat \ {0}
                          /\ MaxVersion \in Nat \ {0}

(* Settings.nonce_retention_exceeds_clock_skew.                            *)
ASSUME RetentionAssumption == Retention > Skew

(* A nonce is kept until every copy of its request is out of the window.   *)
ASSUME MarginAssumption == Margin \in Nat /\ Margin >= 2 * Skew + Processing

VARIABLES identity,  \* status of the service's machine_identities row
          creds,     \* machine_credential_versions of the service
          nonces,    \* machine_request_nonces
          clock,     \* PostgreSQL time
          call,      \* what each handler is doing
          spent      \* requests whose nonce was ever committed (history)

vars == <<identity, creds, nonces, clock, call, spent>>

Versions == 1..MaxVersion
Times == 0..MaxClock

(* until is 0 except for a Previous credential.                            *)
Credential == [status : {"None", "Current", "Previous", "Retired", "Revoked"},
               activated : Int, until : 0..(MaxClock + Overlap)]

NonceRow == [request : Requests, expires : Int]

Steps == {"identity", "credentials", "begin", "insert", "commit", "accepted", "refused"}

(* ended: the versions that could no longer sign when the call arrived     *)
(* (history).                                                              *)
Call == [pc : Steps, request : Requests, now : Int, received : Times,
         ended : SUBSET Versions]

Idle == [pc |-> "idle", ended |-> {}]

TypeOK == /\ identity \in {"Active", "Disabled"}
          /\ creds \in [Versions -> Credential]
          /\ nonces \subseteq NonceRow
          /\ clock \in Times
          /\ call \in [Handlers -> Call \cup {Idle}]
          /\ spent \subseteq Requests

NoCredential == [status |-> "None", activated |-> 0, until |-> 0]

(* One credential, active by every process's clock.                        *)
Init == /\ identity = "Active"
        /\ creds = [v \in Versions |->
                      IF v = 1 THEN [status |-> "Current", activated |-> -Drift, until |-> 0]
                      ELSE NoCredential]
        /\ nonces = {}
        /\ clock = 0
        /\ call = [h \in Handlers |-> Idle]
        /\ spent = {}

-----------------------------------------------------------------------------
Having(status) == {v \in Versions : creds[v].status = status}

(* The versions no clock within the drift can still verify.                *)
Ended == {v \in Versions : \/ identity = "Disabled"
                           \/ creds[v].status \in {"Retired", "Revoked"}
                           \/ creds[v].status = "Previous" /\ creds[v].until < clock - Drift}

(* Mutant: only timestamps in the future are held against the window.      *)
NotTooNew(signedAt, now) == signedAt - now <= Skew

(* validate_timestamp's window.                                            *)
Fresh(signedAt, now) == signedAt - now <= Skew /\ now - signedAt <= Skew

(* The credentials a signature is compared with.                           *)
Candidates(now) ==
    Having("Current") \cup {v \in Having("Previous") : creds[v].until >= now}

(* The set read is usable: one Current, nothing activated after now.       *)
Usable(now) ==
    /\ Cardinality(Having("Current")) = 1
    /\ \A v \in Having("Current") \cup Having("Previous") : creds[v].activated <= now

Inserting(h) == call[h].pc = "commit"

(* Another transaction has inserted the nonce and not ended yet.           *)
InFlightElsewhere(h) ==
    \E g \in Handlers \ {h} :
        Inserting(g) /\ call[g].request.nonce = call[h].request.nonce

(* Mutant: a nonce is unique only within its transaction.                  *)
NoUniqueIndex(h) == FALSE

(* uq_machine_request_nonces_identity_environment_digest holds the nonce.  *)
Recorded(h) == \E n \in nonces : n.request.nonce = call[h].request.nonce

(* expires_at is reckoned from the process clock at the call's arrival.    *)
Expires(h) == call[h].now + Retention

Goto(h, pc) == call' = [call EXCEPT ![h].pc = pc]

-----------------------------------------------------------------------------
(* The headers arrive; a stale timestamp is answered 401 at once.  Then    *)
(* the body is awaited, for any time.                                      *)
Receive(h, request, now) ==
    /\ call[h].pc = "idle"
    /\ now - clock <= Drift /\ clock - now <= Drift
    /\ creds[request.version].status # "None"
    /\ Fresh(request.signedAt, now)
    /\ call' = [call EXCEPT ![h] = [pc |-> "identity", request |-> request, now |-> now,
                                    received |-> 0, ended |-> Ended]]
    /\ UNCHANGED <<identity, creds, nonces, clock, spent>>

(* Mutant: a disabled identity is found as well.                           *)
ReadIdentityAnyStatus(h) ==
    /\ call[h].pc = "identity"
    /\ Goto(h, "credentials")
    /\ UNCHANGED <<identity, creds, nonces, clock, spent>>

(* The Active identity of the service, or a 401.                           *)
ReadIdentity(h) ==
    /\ call[h].pc = "identity"
    /\ Goto(h, IF identity = "Active" THEN "credentials" ELSE "refused")
    /\ UNCHANGED <<identity, creds, nonces, clock, spent>>

(* The second statement of that session, and the comparison with each      *)
(* candidate's secret (secrets differ, so at most one matches).            *)
ReadCredentials(h) ==
    /\ call[h].pc = "credentials"
    /\ LET now == call[h].now
       IN  Goto(h, IF Usable(now) /\ call[h].request.version \in Candidates(now)
                   THEN "begin" ELSE "refused")
    /\ UNCHANGED <<identity, creds, nonces, clock, spent>>

(* The nonce transaction begins, which fixes received_at.                  *)
BeginNonce(h) ==
    /\ call[h].pc = "begin"
    /\ call' = [call EXCEPT ![h].pc = "insert", ![h].received = clock]
    /\ UNCHANGED <<identity, creds, nonces, clock, spent>>

(* Mutant: the table has no expiry check.                                  *)
InsertUnchecked(h) ==
    /\ call[h].pc = "insert"
    /\ ~InFlightElsewhere(h)
    /\ ~Recorded(h)
    /\ Goto(h, "commit")
    /\ UNCHANGED <<identity, creds, nonces, clock, spent>>

(* The insert, when the expiry check and the unique index let it pass.     *)
InsertNonce(h) ==
    /\ call[h].pc = "insert"
    /\ Expires(h) > call[h].received
    /\ ~InFlightElsewhere(h)
    /\ ~Recorded(h)
    /\ Goto(h, "commit")
    /\ UNCHANGED <<identity, creds, nonces, clock, spent>>

(* Mutant: an insert fails at once when the nonce is held by a transaction *)
(* that is still open.                                                     *)
RefuseImpatiently(h) ==
    /\ call[h].pc = "insert"
    /\ Expires(h) <= call[h].received \/ InFlightElsewhere(h) \/ Recorded(h)
    /\ Goto(h, "refused")
    /\ UNCHANGED <<identity, creds, nonces, clock, spent>>

(* The IntegrityError of either.                                           *)
RefuseNonce(h) ==
    /\ call[h].pc = "insert"
    /\ \/ Expires(h) <= call[h].received
       \/ ~InFlightElsewhere(h) /\ Recorded(h)
    /\ Goto(h, "refused")
    /\ UNCHANGED <<identity, creds, nonces, clock, spent>>

CommitNonce(h) ==
    /\ call[h].pc = "commit"
    /\ nonces' = nonces \cup {[request |-> call[h].request, expires |-> Expires(h)]}
    /\ spent' = spent \cup {call[h].request}
    /\ Goto(h, "accepted")
    /\ UNCHANGED <<identity, creds, clock>>

(* Mutant: the handler keeps what it knows of the request.                 *)
ReturnKeeping(h) ==
    /\ call[h].pc \in {"accepted", "refused"}
    /\ Goto(h, "idle")
    /\ UNCHANGED <<identity, creds, nonces, clock, spent>>

(* authenticate returns or raises.                                         *)
Return(h) ==
    /\ call[h].pc \in {"accepted", "refused"}
    /\ call' = [call EXCEPT ![h] = Idle]
    /\ UNCHANGED <<identity, creds, nonces, clock, spent>>

(* An unavailable secret or database (503), or a crash, at any point.      *)
Abort(h) ==
    /\ call[h].pc # "idle"
    /\ call' = [call EXCEPT ![h] = Idle]
    /\ UNCHANGED <<identity, creds, nonces, clock, spent>>

-----------------------------------------------------------------------------
(* External.                                                               *)

(* One transaction makes the new version Current and starts the overlap.   *)
Rotate(v) ==
    /\ creds[v].status = "None"
    /\ \A u \in 1..(v - 1) : creds[u].status # "None"
    /\ creds' = [u \in Versions |->
          IF u = v THEN [status |-> "Current", activated |-> clock, until |-> 0]
          ELSE IF creds[u].status = "Current"
               THEN [creds[u] EXCEPT !.status = "Previous", !.until = clock + Overlap]
          ELSE IF creds[u].status = "Previous"
               THEN [creds[u] EXCEPT !.status = "Retired", !.until = 0]
          ELSE creds[u]]
    /\ UNCHANGED <<identity, nonces, clock, call, spent>>

Revoke(v) ==
    /\ creds[v].status \in {"Current", "Previous"}
    /\ creds' = [creds EXCEPT ![v].status = "Revoked", ![v].until = 0]
    /\ UNCHANGED <<identity, nonces, clock, call, spent>>

Disable ==
    /\ identity = "Active"
    /\ identity' = "Disabled"
    /\ UNCHANGED <<creds, nonces, clock, call, spent>>

Purge(n) ==
    /\ n.expires + Margin <= clock
    /\ nonces' = nonces \ {n}
    /\ UNCHANGED <<identity, creds, clock, call, spent>>

(* Time passes, but no nonce transaction outlives Processing.              *)
Tick ==
    /\ clock < MaxClock
    /\ \A h \in Handlers : call[h].pc \in {"insert", "commit"} =>
                              clock < call[h].received + Processing
    /\ clock' = clock + 1
    /\ UNCHANGED <<identity, creds, nonces, call, spent>>

-----------------------------------------------------------------------------
Progress(h) == \/ ReadIdentity(h) \/ ReadCredentials(h) \/ BeginNonce(h)
               \/ RefuseNonce(h) \/ CommitNonce(h) \/ Return(h)

External == \/ \E v \in Versions : Rotate(v) \/ Revoke(v)
            \/ Disable
            \/ \E n \in nonces : Purge(n)
            \/ Tick

Next == \/ \E h \in Handlers :
              \/ \E request \in Requests, now \in -Drift..(MaxClock + Drift) :
                    Receive(h, request, now)
              \/ Progress(h) \/ InsertNonce(h) \/ Abort(h)
        \/ External

Spec == Init /\ [][Next]_vars

-----------------------------------------------------------------------------
(* A signed request is accepted at most once, ever: neither a racing copy, *)
(* nor a resend after its nonce was deleted, nor one held up by a slow     *)
(* body, passes, whatever the process clocks say.  It takes the timestamp  *)
(* window, the unique index and the table's expiry check together.         *)
AcceptedOnce ==
    [][\A h \in Handlers : call[h].pc = "commit" /\ call'[h].pc = "accepted"
                              => call[h].request \notin spent]_vars

(* A call that arrives after its signer was revoked, retired, disabled or  *)
(* left behind by the overlap (give or take the drift) commits no nonce,   *)
(* although credentials are read in other transactions than the nonce's.   *)
EndedSignerRefused ==
    \A h \in Handlers : call[h].pc \in {"begin", "insert", "commit", "accepted"} =>
        call[h].request.version \notin call[h].ended

(* Every 401 after the timestamp check has a lasting cause: the signer is  *)
(* not verifiable at the call's time, a credential was activated after the *)
(* call's time (a rotation during the call), the nonce was really spent,   *)
(* or the call stood longer than the retention before its nonce was        *)
(* written.  A rival that rolls back never costs a client its request.     *)
RefusedForCause ==
    \A h \in Handlers : call[h].pc = "refused" =>
        LET c == call[h]
            signer == creds[c.request.version]
        IN  \/ identity = "Disabled"
            \/ Having("Current") = {}
            \/ signer.status \in {"Retired", "Revoked"}
            \/ signer.status = "Previous" /\ signer.until < c.now
            \/ \E v \in Versions : creds[v].activated > c.now
            \/ \E r \in spent : r.nonce = c.request.nonce
            \/ c.now + Retention <= c.received
=============================================================================
