-------------------------- MODULE MachineAuth_proofs --------------------------
(***************************************************************************)
(* Proofs about MachineAuth for any set of handlers and signed requests,   *)
(* any skew, drift, retention and overlap that its assumptions admit.      *)
(***************************************************************************)
EXTENDS MachineAuth, FiniteSetTheorems, TLAPS

(* A call in progress passed the timestamp window when it arrived.         *)
CallsFresh ==
    \A h \in Handlers : call[h].pc # "idle" => Fresh(call[h].request.signedAt, call[h].now)

(* A nonce transaction is young.                                           *)
TransactionsYoung ==
    \A h \in Handlers : call[h].pc \in {"insert", "commit"} =>
        call[h].received <= clock /\ clock <= call[h].received + Processing

(* An inserted nonce passed the table's check, is committed nowhere and is *)
(* inserted by nobody else.                                                *)
InsertsUnique ==
    \A h \in Handlers : Inserting(h) =>
        /\ Expires(h) > call[h].received
        /\ \A n \in nonces : n.request.nonce # call[h].request.nonce
        /\ ~InFlightElsewhere(h)

(* A row outlives the earliest time its request may have been checked at.  *)
RowsRetained ==
    \A n \in nonces : n.expires >= n.request.signedAt - Skew + Retention

(* A spent request is remembered until no copy of it can be inserted.      *)
SpentRemembered ==
    \A r \in spent :
        \/ \E n \in nonces : n.request = r
        \/ clock >= r.signedAt - Skew + Retention + Margin

ReplayInv == CallsFresh /\ TransactionsYoung /\ InsertsUnique /\ RowsRetained
                 /\ SpentRemembered

IInv == TypeOK /\ ReplayInv

-----------------------------------------------------------------------------
(* A call in progress is a record of the full type.                        *)
LEMMA CallFields ==
    ASSUME TypeOK, NEW h \in Handlers, call[h].pc # "idle"
    PROVE  /\ call[h] \in Call
           /\ call[h].request \in Requests
           /\ call[h].request.signedAt \in Int
           /\ call[h].request.version \in Versions
           /\ call[h].now \in Int
           /\ call[h].received \in Times
  <1>1. call[h] \in Call
    BY DEF TypeOK, Idle
  <1>2. QED
    BY <1>1, RequestsAssumption DEF Call, Versions

(* Moving one handler to another program point keeps the calls well-typed. *)
LEMMA GotoType ==
    ASSUME TypeOK, NEW h \in Handlers, call[h].pc # "idle",
           NEW p \in Steps, Goto(h, p)
    PROVE  /\ call' \in [Handlers -> Call \cup {Idle}]
           /\ call'[h] = [call[h] EXCEPT !.pc = p]
           /\ call'[h].pc = p
           /\ call'[h].request = call[h].request
           /\ call'[h].now = call[h].now
           /\ call'[h].received = call[h].received
           /\ \A g \in Handlers \ {h} : call'[g] = call[g]
  <1>1. call[h] \in Call
    BY CallFields
  <1>2. [call[h] EXCEPT !.pc = p] \in Call
    BY <1>1 DEF Call
  <1>3. call' = [call EXCEPT ![h] = [call[h] EXCEPT !.pc = p]]
    BY DEF Goto, TypeOK
  <1>4. call'[h] = [call[h] EXCEPT !.pc = p] /\ \A g \in Handlers \ {h} : call'[g] = call[g]
    BY <1>3 DEF TypeOK
  <1>5. QED
    BY <1>1, <1>2, <1>3, <1>4 DEF TypeOK, Call

LEMMA InitInv == Init => IInv
  <1> SUFFICES ASSUME Init PROVE IInv
    OBVIOUS
  <1>1. creds \in [Versions -> Credential]
    BY ClockAssumption DEF Init, NoCredential, Credential, Versions
  <1>2. clock \in Times
    BY ClockAssumption DEF Init, Times
  <1>3. TypeOK
    BY <1>1, <1>2 DEF Init, TypeOK
  <1>4. ReplayInv
    BY DEF Init, ReplayInv, CallsFresh, TransactionsYoung, InsertsUnique, RowsRetained,
           SpentRemembered, Idle, Inserting
  <1>5. QED
    BY <1>3, <1>4 DEF IInv

LEMMA StutterInv == IInv /\ UNCHANGED vars => IInv'
  BY DEF IInv, vars, TypeOK, ReplayInv, CallsFresh, TransactionsYoung, InsertsUnique,
         RowsRetained, SpentRemembered, Inserting, InFlightElsewhere, Expires

-----------------------------------------------------------------------------
(* Steps of a handler that write no nonce.                                 *)

(* A handler that ends, or whose call does not reach the insert, leaves    *)
(* every fact about the others.                                            *)
LEMMA HandlerInv ==
    ASSUME IInv, NEW h \in Handlers,
           UNCHANGED <<nonces, clock, spent>>,
           call' \in [Handlers -> Call \cup {Idle}],
           \A g \in Handlers \ {h} : call'[g] = call[g],
           call'[h].pc # "commit",
           call'[h].pc # "idle" =>
               Fresh(call'[h].request.signedAt, call'[h].now),
           call'[h].pc = "insert" => /\ call'[h].received <= clock
                                     /\ clock <= call'[h].received + Processing
    PROVE  ReplayInv'
  <1>1. CallsFresh'
    BY DEF IInv, ReplayInv, CallsFresh
  <1>2. TransactionsYoung'
    BY DEF IInv, ReplayInv, TransactionsYoung
  <1>3. InsertsUnique'
    BY DEF IInv, ReplayInv, InsertsUnique, Inserting, Expires, InFlightElsewhere
  <1>4. RowsRetained' /\ SpentRemembered'
    BY DEF IInv, ReplayInv, RowsRetained, SpentRemembered
  <1>5. QED
    BY <1>1, <1>2, <1>3, <1>4 DEF ReplayInv

LEMMA ReceiveInv ==
    ASSUME IInv, NEW h \in Handlers, NEW request \in Requests,
           NEW now \in -Drift..(MaxClock + Drift), Receive(h, request, now)
    PROVE  IInv'
  <1> DEFINE c == [pc |-> "identity", request |-> request, now |-> now,
                   received |-> 0, ended |-> Ended]
  <1>1. c \in Call
    BY ClockAssumption DEF Call, Steps, Times, Ended
  <1>2. call' = [call EXCEPT ![h] = c]
    BY DEF Receive
  <1>3. /\ call' \in [Handlers -> Call \cup {Idle}]
        /\ call'[h] = c
        /\ \A g \in Handlers \ {h} : call'[g] = call[g]
    BY <1>1, <1>2 DEF IInv, TypeOK
  <1>4. TypeOK'
    BY <1>3 DEF Receive, IInv, TypeOK
  <1>5. Fresh(call'[h].request.signedAt, call'[h].now)
    BY <1>3 DEF Receive
  <1>6. ReplayInv'
    BY <1>3, <1>5, HandlerInv DEF Receive
  <1>7. QED
    BY <1>4, <1>6 DEF IInv

(* Reads, refusals and other moves to a program point before the insert or *)
(* after the transaction.                                                  *)
LEMMA MoveInv ==
    ASSUME IInv, NEW h \in Handlers, call[h].pc # "idle",
           NEW p \in Steps \ {"insert", "commit"}, Goto(h, p),
           UNCHANGED <<identity, creds, nonces, clock, spent>>
    PROVE  IInv'
  <1>1. /\ call' \in [Handlers -> Call \cup {Idle}]
        /\ call'[h].pc = p
        /\ call'[h].request = call[h].request
        /\ call'[h].now = call[h].now
        /\ \A g \in Handlers \ {h} : call'[g] = call[g]
    BY GotoType DEF IInv
  <1>2. TypeOK'
    BY <1>1 DEF IInv, TypeOK
  <1>3. Fresh(call'[h].request.signedAt, call'[h].now)
    BY <1>1 DEF IInv, ReplayInv, CallsFresh
  <1>4. ReplayInv'
    BY <1>1, <1>3, HandlerInv
  <1>5. QED
    BY <1>2, <1>4 DEF IInv

LEMMA EndInv ==
    ASSUME IInv, NEW h \in Handlers, call' = [call EXCEPT ![h] = Idle],
           UNCHANGED <<identity, creds, nonces, clock, spent>>
    PROVE  IInv'
  <1>1. /\ call' \in [Handlers -> Call \cup {Idle}]
        /\ call'[h].pc = "idle"
        /\ \A g \in Handlers \ {h} : call'[g] = call[g]
    BY DEF IInv, TypeOK, Idle
  <1>2. TypeOK'
    BY <1>1 DEF IInv, TypeOK
  <1>3. ReplayInv'
    BY <1>1, HandlerInv
  <1>4. QED
    BY <1>2, <1>3 DEF IInv

LEMMA BeginNonceInv ==
    ASSUME IInv, NEW h \in Handlers, BeginNonce(h)
    PROVE  IInv'
  <1> DEFINE c == [call[h] EXCEPT !.pc = "insert", !.received = clock]
  <1>1. call[h] \in Call /\ call[h].pc # "idle"
    BY CallFields DEF IInv, BeginNonce
  <1>2. clock \in Times
    BY DEF IInv, TypeOK
  <1>3. c \in Call
    BY <1>1, <1>2 DEF Call, Steps
  <1>4. call' = [call EXCEPT ![h] = c]
    BY DEF BeginNonce, IInv, TypeOK
  <1>5. /\ call' \in [Handlers -> Call \cup {Idle}]
        /\ call'[h] = c
        /\ \A g \in Handlers \ {h} : call'[g] = call[g]
    BY <1>3, <1>4 DEF IInv, TypeOK
  <1>6. /\ c.pc = "insert" /\ c.received = clock
        /\ c.request = call[h].request /\ c.now = call[h].now
    BY <1>1 DEF Call
  <1>7. TypeOK'
    BY <1>5 DEF BeginNonce, IInv, TypeOK
  <1>8. Fresh(c.request.signedAt, c.now)
    BY <1>1, <1>6 DEF IInv, ReplayInv, CallsFresh
  <1>9. c.received <= clock /\ clock <= c.received + Processing
    BY <1>2, <1>6, ClockAssumption DEF Times
  <1> HIDE DEF c
  <1>10. ReplayInv'
    BY <1>5, <1>6, <1>8, <1>9, HandlerInv DEF BeginNonce
  <1>11. QED
    BY <1>7, <1>10 DEF IInv

-----------------------------------------------------------------------------
(* The insert, the commit and the deletion of a nonce.                     *)

LEMMA InsertNonceInv ==
    ASSUME IInv, NEW h \in Handlers, InsertNonce(h)
    PROVE  IInv'
  <1>1. /\ call' \in [Handlers -> Call \cup {Idle}]
        /\ call'[h].pc = "commit"
        /\ call'[h].request = call[h].request
        /\ call'[h].now = call[h].now
        /\ call'[h].received = call[h].received
        /\ \A g \in Handlers \ {h} : call'[g] = call[g]
    BY GotoType DEF IInv, InsertNonce, Steps
  <1>2. TypeOK'
    BY <1>1 DEF InsertNonce, IInv, TypeOK
  <1>3. CallsFresh' /\ TransactionsYoung' /\ RowsRetained' /\ SpentRemembered'
    BY <1>1 DEF InsertNonce, IInv, ReplayInv, CallsFresh, TransactionsYoung, RowsRetained,
                SpentRemembered
  <1>4. InsertsUnique'
    BY <1>1 DEF InsertNonce, IInv, ReplayInv, InsertsUnique, Inserting, Expires,
                InFlightElsewhere, Recorded
  <1>5. QED
    BY <1>2, <1>3, <1>4 DEF IInv, ReplayInv

LEMMA CommitNonceInv ==
    ASSUME IInv, NEW h \in Handlers, CommitNonce(h)
    PROVE  IInv'
  <1> DEFINE n == [request |-> call[h].request, expires |-> Expires(h)]
  <1>1. /\ call' \in [Handlers -> Call \cup {Idle}]
        /\ call'[h].pc = "accepted"
        /\ call'[h].request = call[h].request
        /\ call'[h].now = call[h].now
        /\ \A g \in Handlers \ {h} : call'[g] = call[g]
    BY GotoType DEF IInv, CommitNonce, Steps
  <1>2. /\ call[h].request \in Requests /\ call[h].request.signedAt \in Int
        /\ call[h].now \in Int
    BY CallFields DEF IInv, CommitNonce
  <1>3. n \in NonceRow
    BY <1>2, ClockAssumption DEF NonceRow, Expires
  <1>4. nonces' = nonces \cup {n} /\ spent' = spent \cup {call[h].request}
    BY DEF CommitNonce
  <1>5. TypeOK'
    BY <1>1, <1>2, <1>3, <1>4 DEF CommitNonce, IInv, TypeOK
  <1>6. CallsFresh' /\ TransactionsYoung'
    BY <1>1 DEF CommitNonce, IInv, ReplayInv, CallsFresh, TransactionsYoung
  <1>7. InsertsUnique'
    <2>1. \A g \in Handlers \ {h} :
              Inserting(g) => call[h].request.nonce # call[g].request.nonce
      BY DEF CommitNonce, IInv, ReplayInv, InsertsUnique, Inserting, InFlightElsewhere
    <2>2. n.request = call[h].request
      OBVIOUS
    <2> HIDE DEF n
    <2>3. QED
      BY <1>1, <1>4, <2>1, <2>2 DEF IInv, ReplayInv, InsertsUnique, Inserting, Expires,
                                    InFlightElsewhere
  <1>8. RowsRetained'
    <2>1. Fresh(call[h].request.signedAt, call[h].now)
      BY DEF CommitNonce, IInv, ReplayInv, CallsFresh
    <2>2. n.expires >= n.request.signedAt - Skew + Retention
      BY <1>2, <2>1, ClockAssumption DEF Fresh, Expires
    <2> HIDE DEF n
    <2>3. QED
      BY <1>4, <2>2 DEF IInv, ReplayInv, RowsRetained
  <1>9. SpentRemembered'
    <2>1. n.request = call[h].request /\ clock' = clock
      BY DEF CommitNonce
    <2> HIDE DEF n
    <2>2. QED
      BY <1>4, <2>1 DEF IInv, ReplayInv, SpentRemembered
  <1>10. QED
    BY <1>5, <1>6, <1>7, <1>8, <1>9 DEF IInv, ReplayInv

LEMMA PurgeInv ==
    ASSUME IInv, NEW n \in nonces, Purge(n)
    PROVE  IInv'
  <1>1. nonces' = nonces \ {n} /\ clock' = clock /\ call' = call /\ spent' = spent
    BY DEF Purge
  <1>2. TypeOK'
    BY DEF Purge, IInv, TypeOK
  <1>3. CallsFresh' /\ TransactionsYoung' /\ InsertsUnique' /\ RowsRetained'
    BY <1>1 DEF IInv, ReplayInv, CallsFresh, TransactionsYoung, InsertsUnique,
                RowsRetained, Inserting, InFlightElsewhere, Expires
  <1>4. clock >= n.request.signedAt - Skew + Retention + Margin
    <2>1. n.expires \in Int /\ n.request.signedAt \in Int /\ clock \in Int
      BY RequestsAssumption DEF IInv, TypeOK, NonceRow, Times
    <2>2. n.expires >= n.request.signedAt - Skew + Retention /\ n.expires + Margin <= clock
      BY DEF Purge, IInv, ReplayInv, RowsRetained
    <2>3. QED
      BY <2>1, <2>2, ClockAssumption, MarginAssumption
  <1>5. SpentRemembered'
    BY <1>1, <1>4 DEF IInv, ReplayInv, SpentRemembered
  <1>6. QED
    BY <1>2, <1>3, <1>5 DEF IInv, ReplayInv

-----------------------------------------------------------------------------
(* The operators and the clock.                                            *)

LEMMA CredentialInv ==
    ASSUME IInv, identity' \in {"Active", "Disabled"}, creds' \in [Versions -> Credential],
           UNCHANGED <<nonces, clock, call, spent>>
    PROVE  IInv'
  BY DEF IInv, TypeOK, ReplayInv, CallsFresh, TransactionsYoung, InsertsUnique,
         RowsRetained, SpentRemembered, Inserting, InFlightElsewhere, Expires

LEMMA RotateInv ==
    ASSUME IInv, NEW v \in Versions, Rotate(v)
    PROVE  IInv'
  <1>1. clock \in Times /\ creds \in [Versions -> Credential]
    BY DEF IInv, TypeOK
  <1>2. clock \in Int /\ clock + Overlap \in 0..(MaxClock + Overlap)
        /\ 0 \in 0..(MaxClock + Overlap)
    BY <1>1, ClockAssumption DEF Times
  <1>3. creds' \in [Versions -> Credential]
    <2>1. ASSUME NEW u \in Versions
          PROVE  /\ [status |-> "Current", activated |-> clock, until |-> 0] \in Credential
                 /\ [creds[u] EXCEPT !.status = "Previous", !.until = clock + Overlap]
                       \in Credential
                 /\ [creds[u] EXCEPT !.status = "Retired", !.until = 0] \in Credential
                 /\ creds[u] \in Credential
      BY <1>1, <1>2 DEF Credential
    <2>2. QED
      BY <2>1 DEF Rotate
  <1>4. QED
    BY <1>3, CredentialInv DEF Rotate, IInv, TypeOK

LEMMA RevokeInv ==
    ASSUME IInv, NEW v \in Versions, Revoke(v)
    PROVE  IInv'
  <1>1. creds[v] \in Credential /\ 0 \in 0..(MaxClock + Overlap)
    BY ClockAssumption DEF IInv, TypeOK
  <1>2. [creds[v] EXCEPT !.status = "Revoked", !.until = 0] \in Credential
    BY <1>1 DEF Credential
  <1>3. creds' \in [Versions -> Credential]
    BY <1>2 DEF Revoke, IInv, TypeOK
  <1>4. QED
    BY <1>3, CredentialInv DEF Revoke, IInv, TypeOK

LEMMA TickInv ==
    ASSUME IInv, Tick
    PROVE  IInv'
  <1>1. clock \in Times /\ clock' = clock + 1 /\ clock' \in Times
    BY ClockAssumption DEF Tick, IInv, TypeOK, Times
  <1>2. TypeOK'
    BY <1>1 DEF Tick, IInv, TypeOK
  <1>3. CallsFresh' /\ InsertsUnique' /\ RowsRetained'
    BY DEF Tick, IInv, ReplayInv, CallsFresh, InsertsUnique, RowsRetained, Inserting,
           InFlightElsewhere, Expires
  <1>4. TransactionsYoung'
    <2> SUFFICES ASSUME NEW h \in Handlers, call[h].pc \in {"insert", "commit"}
                 PROVE  /\ call[h].received <= clock + 1
                        /\ clock + 1 <= call[h].received + Processing
      BY <1>1 DEF Tick, TransactionsYoung
    <2>1. call[h].received \in Int
      BY CallFields DEF IInv, Times
    <2>2. call[h].received <= clock /\ clock < call[h].received + Processing
      BY DEF Tick, IInv, ReplayInv, TransactionsYoung
    <2>3. QED
      BY <1>1, <2>1, <2>2, ClockAssumption DEF Times
  <1>5. SpentRemembered'
    <2>1. \A r \in spent : r.signedAt \in Int
      BY RequestsAssumption DEF IInv, TypeOK
    <2>2. QED
      BY <1>1, <2>1, ClockAssumption, MarginAssumption
         DEF Tick, IInv, ReplayInv, SpentRemembered, Times
  <1>6. QED
    BY <1>2, <1>3, <1>4, <1>5 DEF IInv, ReplayInv

-----------------------------------------------------------------------------
LEMMA NextInv == IInv /\ [Next]_vars => IInv'
  <1> SUFFICES ASSUME IInv, [Next]_vars PROVE IInv'
    OBVIOUS
  <1>1. CASE UNCHANGED vars
    BY <1>1, StutterInv
  <1>2. ASSUME NEW h \in Handlers, NEW request \in Requests,
               NEW now \in -Drift..(MaxClock + Drift), Receive(h, request, now)
        PROVE  IInv'
    BY <1>2, ReceiveInv
  <1>3. ASSUME NEW h \in Handlers, ReadIdentity(h) PROVE IInv'
    BY <1>3, MoveInv DEF ReadIdentity, Steps
  <1>4. ASSUME NEW h \in Handlers, ReadCredentials(h) PROVE IInv'
    <2> DEFINE p == IF Usable(call[h].now) /\ call[h].request.version \in Candidates(call[h].now)
                    THEN "begin" ELSE "refused"
    <2>1. Goto(h, p) /\ p \in Steps \ {"insert", "commit"}
      BY <1>4 DEF ReadCredentials, Steps
    <2> HIDE DEF p
    <2>2. QED
      BY <1>4, <2>1, MoveInv DEF ReadCredentials
  <1>5. ASSUME NEW h \in Handlers, BeginNonce(h) PROVE IInv'
    BY <1>5, BeginNonceInv
  <1>6. ASSUME NEW h \in Handlers, InsertNonce(h) PROVE IInv'
    BY <1>6, InsertNonceInv
  <1>7. ASSUME NEW h \in Handlers, RefuseNonce(h) PROVE IInv'
    BY <1>7, MoveInv DEF RefuseNonce, Steps
  <1>8. ASSUME NEW h \in Handlers, CommitNonce(h) PROVE IInv'
    BY <1>8, CommitNonceInv
  <1>9. ASSUME NEW h \in Handlers, Return(h) \/ Abort(h) PROVE IInv'
    BY <1>9, EndInv DEF Return, Abort
  <1>10. ASSUME NEW v \in Versions, Rotate(v) \/ Revoke(v) PROVE IInv'
    BY <1>10, RotateInv, RevokeInv
  <1>11. CASE Disable
    BY <1>11, CredentialInv DEF Disable, IInv, TypeOK
  <1>12. ASSUME NEW n \in nonces, Purge(n) PROVE IInv'
    BY <1>12, PurgeInv
  <1>13. CASE Tick
    BY <1>13, TickInv
  <1>14. QED
    BY <1>1, <1>2, <1>3, <1>4, <1>5, <1>6, <1>7, <1>8, <1>9, <1>10, <1>11, <1>12, <1>13
       DEF Next, Progress, External

(* In every reachable state a call in progress is in its window, a nonce   *)
(* transaction is young, and a spent request is remembered.                *)
LEMMA InvHolds == Spec => []IInv
  BY InitInv, NextInv, PTL DEF Spec

(* The variables keep their types, the credential rows under rotation,     *)
(* revocation and disabling included.                                      *)
THEOREM TypeCorrect == Spec => []TypeOK
  BY InvHolds, PTL DEF IInv

(* When a nonce is committed, its request was never accepted before: the   *)
(* time bounds contradict the deletion of its first row.                   *)
LEMMA CommitsOnce ==
    ASSUME IInv, NEW h \in Handlers, call[h].pc = "commit"
    PROVE  call[h].request \notin spent
  <1> SUFFICES ASSUME call[h].request \in spent PROVE FALSE
    OBVIOUS
  <1> DEFINE r == call[h].request
  <1>1. /\ r.signedAt \in Int /\ call[h].now \in Int /\ call[h].received \in Int
        /\ clock \in Int
    BY CallFields DEF IInv, TypeOK, Times
  <1>2. ~ \E n \in nonces : n.request = r
    BY DEF IInv, ReplayInv, InsertsUnique, Inserting
  <1>3. clock >= r.signedAt - Skew + Retention + Margin
    BY <1>2 DEF IInv, ReplayInv, SpentRemembered
  <1>4. call[h].now <= r.signedAt + Skew
    BY <1>1, ClockAssumption DEF IInv, ReplayInv, CallsFresh, Fresh
  <1>5. call[h].received < call[h].now + Retention
    BY <1>1, ClockAssumption DEF IInv, ReplayInv, InsertsUnique, Inserting, Expires
  <1>6. clock <= call[h].received + Processing
    BY DEF IInv, ReplayInv, TransactionsYoung
  <1>7. QED
    BY <1>1, <1>3, <1>4, <1>5, <1>6, ClockAssumption, MarginAssumption

(* A signed request is accepted at most once, for any number of handlers   *)
(* and copies, whatever the clocks, the skew and the retention, provided a *)
(* nonce outlives its expiry by two skews and a transaction's duration.    *)
THEOREM RequestAcceptedOnce == Spec => AcceptedOnce
  <1>1. IInv /\ [Next]_vars =>
          [\A h \in Handlers : call[h].pc = "commit" /\ call'[h].pc = "accepted"
                                  => call[h].request \notin spent]_vars
    BY CommitsOnce
  <1>2. QED
    BY <1>1, InvHolds, PTL DEF Spec, AcceptedOnce

-----------------------------------------------------------------------------
(* Signers that had ended when the call arrived.                           *)

(* The version can never verify the call again: its row says so for good.  *)
Expired(v, now) == \/ creds[v].status \in {"Retired", "Revoked"}
                   \/ creds[v].status = "Previous" /\ creds[v].until < now

(* Such a call still waits for the read that will refuse it, or was refused.*)
Outdated(h) ==
    LET v == call[h].request.version
    IN  v \in call[h].ended =>
          /\ call[h].pc \in {"identity", "credentials", "refused"}
          /\ call[h].pc = "identity" => identity = "Disabled" \/ Expired(v, call[h].now)
          /\ call[h].pc = "credentials" => Expired(v, call[h].now)

SignerInv == \A h \in Handlers : call[h].pc # "idle" => Outdated(h)

(* A handler's own step disturbs only what is said of its call.            *)
LEMMA SignerHandler ==
    ASSUME IInv, SignerInv, NEW h \in Handlers,
           \A g \in Handlers \ {h} : call'[g] = call[g],
           UNCHANGED <<identity, creds>>,
           call'[h].pc # "idle" => Outdated(h)'
    PROVE  SignerInv'
  BY DEF SignerInv, Outdated, Expired

LEMMA SignerReceive ==
    ASSUME IInv, SignerInv, NEW h \in Handlers, NEW request \in Requests,
           NEW now \in -Drift..(MaxClock + Drift), Receive(h, request, now)
    PROVE  SignerInv'
  <1> DEFINE c == [pc |-> "identity", request |-> request, now |-> now,
                   received |-> 0, ended |-> Ended]
             v == request.version
  <1>1. call'[h] = c /\ \A g \in Handlers \ {h} : call'[g] = call[g]
    BY DEF Receive, IInv, TypeOK
  <1>2. identity' = identity /\ creds' = creds
    BY DEF Receive
  <1>3. ASSUME v \in Ended, identity # "Disabled"
        PROVE  Expired(v, now)
    <2>1. v \in Versions /\ creds[v] \in Credential
      BY RequestsAssumption DEF Versions, IInv, TypeOK
    <2>2. creds[v].until \in Int /\ clock \in Int /\ now \in Int /\ Drift \in Int
      BY <2>1, ClockAssumption DEF Credential, IInv, TypeOK, Times
    <2>3. clock - Drift <= now
      BY <2>2 DEF Receive
    <2>4. QED
      BY <1>3, <2>2, <2>3 DEF Ended, Expired
  <1>4. Outdated(h)'
    BY <1>1, <1>2, <1>3 DEF Outdated, Expired
  <1>5. QED
    BY <1>1, <1>2, <1>4, SignerHandler

(* Moves of one handler: the call keeps its request, its time and what had *)
(* ended.                                                                  *)
LEMMA SignerMove ==
    ASSUME IInv, SignerInv, NEW h \in Handlers, call[h].pc \notin {"idle", "refused"},
           NEW p \in Steps, Goto(h, p), UNCHANGED <<identity, creds>>,
           p # "refused" /\ call[h].pc \in {"identity", "credentials"} =>
               /\ p = "credentials" /\ call[h].pc = "identity" => identity # "Disabled"
               /\ p # "credentials" => ~Expired(call[h].request.version, call[h].now)
               /\ p \in {"credentials", "begin"}
               /\ call[h].pc = "identity" => p = "credentials"
               /\ call[h].pc = "credentials" => p = "begin"
    PROVE  SignerInv'
  <1>1. /\ call'[h] = [call[h] EXCEPT !.pc = p]
        /\ \A g \in Handlers \ {h} : call'[g] = call[g]
    BY GotoType DEF IInv
  <1>2. call[h] \in Call
    BY CallFields DEF IInv
  <1>3. /\ call'[h].pc = p /\ call'[h].request = call[h].request
        /\ call'[h].now = call[h].now /\ call'[h].ended = call[h].ended
    BY <1>1, <1>2 DEF Call
  <1>4. Outdated(h)
    BY DEF SignerInv
  <1>5. Outdated(h)'
    <2>1. CASE p = "refused"
      BY <1>3, <2>1 DEF Outdated
    <2>2. CASE p # "refused" /\ call[h].pc = "identity"
      BY <1>3, <1>4, <2>2 DEF Outdated, Expired
    <2>3. CASE p # "refused" /\ call[h].pc = "credentials"
      BY <1>3, <1>4, <2>3 DEF Outdated, Expired
    <2>4. CASE p # "refused" /\ call[h].pc \notin {"identity", "credentials"}
      BY <1>3, <1>4, <2>4 DEF Outdated
    <2>5. QED
      BY <2>1, <2>2, <2>3, <2>4
  <1>6. QED
    BY <1>1, <1>5, SignerHandler

(* The reads refuse a version that can never verify.                       *)
LEMMA ExpiredRefused ==
    ASSUME IInv, NEW v \in Versions, NEW now \in Int, Expired(v, now)
    PROVE  v \notin Candidates(now)
  <1>1. creds[v].until \in Int
    BY DEF IInv, TypeOK, Credential
  <1>2. QED
    BY <1>1 DEF Expired, Candidates, Having

(* The operators only end more signers.                                    *)
LEMMA SignerExternal ==
    ASSUME IInv, SignerInv, call' = call,
           identity = "Disabled" => identity' = "Disabled",
           \A v \in Versions, now \in Int : Expired(v, now) => Expired(v, now)'
    PROVE  SignerInv'
  <1> SUFFICES ASSUME NEW h \in Handlers, call[h].pc # "idle" PROVE Outdated(h)'
    BY DEF SignerInv
  <1>1. call[h].request.version \in Versions /\ call[h].now \in Int
    BY CallFields DEF IInv
  <1>2. Outdated(h)
    BY DEF SignerInv
  <1> DEFINE v == call[h].request.version
             t == call[h].now
  <1>3. Expired(v, t) => Expired(v, t)'
    BY <1>1
  <1>4. Expired(v, t)' <=> \/ creds'[v].status \in {"Retired", "Revoked"}
                           \/ creds'[v].status = "Previous" /\ creds'[v].until < t
    BY DEF Expired
  <1>5. QED
    BY <1>2, <1>3, <1>4 DEF Outdated, Expired

(* What a rotation makes of each version.                                  *)
LEMMA RotateCredentials ==
    ASSUME IInv, NEW v \in Versions, Rotate(v), NEW u \in Versions
    PROVE  /\ u = v => /\ creds[u].status = "None"
                       /\ creds'[u].status = "Current" /\ creds'[u].activated = clock
           /\ u # v => creds'[u].activated = creds[u].activated
           /\ u # v /\ creds[u].status = "Current" => creds'[u].status = "Previous"
           /\ u # v /\ creds[u].status = "Previous" => creds'[u].status = "Retired"
           /\ u # v /\ creds[u].status \notin {"Current", "Previous"}
                => creds'[u] = creds[u]
  <1>1. creds[u] \in Credential /\ creds[v].status = "None"
    BY DEF IInv, TypeOK, Rotate
  <1>2. creds'[u] = IF u = v
                    THEN [status |-> "Current", activated |-> clock, until |-> 0]
                    ELSE IF creds[u].status = "Current"
                    THEN [creds[u] EXCEPT !.status = "Previous", !.until = clock + Overlap]
                    ELSE IF creds[u].status = "Previous"
                    THEN [creds[u] EXCEPT !.status = "Retired", !.until = 0]
                    ELSE creds[u]
    BY DEF Rotate
  <1>3. QED
    BY <1>1, <1>2 DEF Credential

(* Rotation and revocation never bring an expired version back.            *)
LEMMA RotateExpired ==
    ASSUME IInv, NEW v \in Versions, Rotate(v),
           NEW u \in Versions, NEW now \in Int, Expired(u, now)
    PROVE  Expired(u, now)'
  BY RotateCredentials DEF Expired

LEMMA RevokeCredentials ==
    ASSUME IInv, NEW v \in Versions, Revoke(v), NEW u \in Versions
    PROVE  /\ u = v => /\ creds[u].status \in {"Current", "Previous"}
                       /\ creds'[u].status = "Revoked"
                       /\ creds'[u].activated = creds[u].activated
           /\ u # v => creds'[u] = creds[u]
  <1>1. creds[u] \in Credential
    BY DEF IInv, TypeOK
  <1>2. creds'[u] = IF u = v THEN [creds[u] EXCEPT !.status = "Revoked", !.until = 0]
                    ELSE creds[u]
    BY DEF Revoke, IInv, TypeOK
  <1>3. creds[v].status \in {"Current", "Previous"}
    BY DEF Revoke
  <1>4. QED
    BY <1>1, <1>2, <1>3 DEF Credential

LEMMA RevokeExpired ==
    ASSUME IInv, NEW v \in Versions, Revoke(v),
           NEW u \in Versions, NEW now \in Int, Expired(u, now)
    PROVE  Expired(u, now)'
  BY RevokeCredentials DEF Expired

LEMMA SignerOperators ==
    ASSUME IInv, SignerInv, External
    PROVE  SignerInv'
  <1>1. ASSUME NEW v \in Versions, Rotate(v) PROVE SignerInv'
    BY <1>1, RotateExpired, SignerExternal DEF Rotate
  <1>2. ASSUME NEW v \in Versions, Revoke(v) PROVE SignerInv'
    BY <1>2, RevokeExpired, SignerExternal DEF Revoke
  <1>3. CASE Disable
    BY <1>3, SignerExternal DEF Disable, Expired
  <1>4. CASE Tick \/ \E n \in nonces : Purge(n)
    BY <1>4, SignerExternal DEF Tick, Purge, Expired
  <1>5. QED
    BY <1>1, <1>2, <1>3, <1>4 DEF External

LEMMA SignerNext == IInv /\ SignerInv /\ [Next]_vars => SignerInv'
  <1> SUFFICES ASSUME IInv, SignerInv, [Next]_vars PROVE SignerInv'
    OBVIOUS
  <1>1. CASE UNCHANGED vars
    BY <1>1 DEF vars, SignerInv, Outdated, Expired
  <1>2. ASSUME NEW h \in Handlers, NEW request \in Requests,
               NEW now \in -Drift..(MaxClock + Drift), Receive(h, request, now)
        PROVE  SignerInv'
    BY <1>2, SignerReceive
  <1>3. ASSUME NEW h \in Handlers, ReadIdentity(h) PROVE SignerInv'
    <2> DEFINE p == IF identity = "Active" THEN "credentials" ELSE "refused"
    <2>1. Goto(h, p) /\ p \in Steps /\ p \in {"credentials", "refused"}
          /\ (p = "credentials" => identity # "Disabled")
      BY <1>3 DEF ReadIdentity, Steps
    <2> HIDE DEF p
    <2>2. QED
      BY <1>3, <2>1, SignerMove DEF ReadIdentity
  <1>4. ASSUME NEW h \in Handlers, ReadCredentials(h) PROVE SignerInv'
    <2> DEFINE v == call[h].request.version
               p == IF Usable(call[h].now) /\ v \in Candidates(call[h].now)
                    THEN "begin" ELSE "refused"
    <2>1. v \in Versions /\ call[h].now \in Int
      BY <1>4, CallFields DEF ReadCredentials, IInv
    <2>2. Goto(h, p) /\ p \in Steps /\ p \in {"begin", "refused"}
          /\ (p = "begin" => ~Expired(v, call[h].now))
      BY <1>4, <2>1, ExpiredRefused DEF ReadCredentials, Steps
    <2> HIDE DEF p
    <2>3. QED
      BY <1>4, <2>2, SignerMove DEF ReadCredentials
  <1>5. ASSUME NEW h \in Handlers, BeginNonce(h) PROVE SignerInv'
    <2>1. call[h] \in Call /\ call[h].pc = "begin"
      BY <1>5, CallFields DEF BeginNonce, IInv
    <2>2. /\ call'[h] = [call[h] EXCEPT !.pc = "insert", !.received = clock]
          /\ \A g \in Handlers \ {h} : call'[g] = call[g]
      BY <1>5 DEF BeginNonce, IInv, TypeOK
    <2>3. /\ call'[h].request = call[h].request /\ call'[h].ended = call[h].ended
          /\ call'[h].now = call[h].now
      BY <2>1, <2>2 DEF Call
    <2>4. call[h].request.version \notin call[h].ended
      BY <2>1 DEF SignerInv, Outdated
    <2>5. Outdated(h)'
      BY <2>3, <2>4 DEF Outdated
    <2>6. QED
      BY <1>5, <2>2, <2>5, SignerHandler DEF BeginNonce
  <1>6. ASSUME NEW h \in Handlers, InsertNonce(h) \/ RefuseNonce(h) \/ CommitNonce(h)
        PROVE  SignerInv'
    <2>1. PICK p \in Steps : Goto(h, p)
      BY <1>6 DEF InsertNonce, RefuseNonce, CommitNonce, Steps
    <2>2. call[h].pc \in {"insert", "commit"}
      BY <1>6 DEF InsertNonce, RefuseNonce, CommitNonce
    <2>3. UNCHANGED <<identity, creds>>
      BY <1>6 DEF InsertNonce, RefuseNonce, CommitNonce
    <2>4. QED
      BY <2>1, <2>2, <2>3, SignerMove
  <1>7. ASSUME NEW h \in Handlers, Return(h) \/ Abort(h) PROVE SignerInv'
    <2>1. /\ call'[h] = Idle /\ \A g \in Handlers \ {h} : call'[g] = call[g]
          /\ UNCHANGED <<identity, creds>>
      BY <1>7 DEF Return, Abort, IInv, TypeOK
    <2>2. QED
      BY <2>1, SignerHandler DEF Idle
  <1>8. CASE External
    BY <1>8, SignerOperators
  <1>9. QED
    BY <1>1, <1>2, <1>3, <1>4, <1>5, <1>6, <1>7, <1>8 DEF Next, Progress

(* A call that arrives after its signer was revoked, retired, disabled or  *)
(* left behind by the overlap commits no nonce, for any history of         *)
(* rotations and any interleaving with the two reads.                      *)
THEOREM EndedSignersAreRefused == Spec => []EndedSignerRefused
  <1>1. Init => SignerInv
    BY DEF Init, SignerInv, Idle
  <1>2. SignerInv => EndedSignerRefused
    BY DEF SignerInv, Outdated, EndedSignerRefused
  <1>3. QED
    BY <1>1, <1>2, InvHolds, SignerNext, PTL DEF Spec

-----------------------------------------------------------------------------
(* Why a call was refused.                                                 *)

(* The causes RefusedForCause lists, for a call c.                         *)
Cause(c) ==
    \/ identity = "Disabled"
    \/ Having("Current") = {}
    \/ Expired(c.request.version, c.now)
    \/ \E v \in Versions : creds[v].activated > c.now
    \/ \E r \in spent : r.nonce = c.request.nonce
    \/ c.now + Retention <= c.received

HasCause(h) == call[h].pc = "refused" => Cause(call[h])

RefusalsHaveCause == \A h \in Handlers : HasCause(h)

(* A call is signed with a credential that exists.                         *)
SignersKnown ==
    \A h \in Handlers : call[h].pc # "idle" =>
        creds[call[h].request.version].status # "None"

(* Rotation leaves one Current credential, and revocation leaves none.     *)
OneCurrent ==
    \A u, v \in Versions :
        creds[u].status = "Current" /\ creds[v].status = "Current" => u = v

(* A version that does not exist yet was never activated.                  *)
Unactivated == \A v \in Versions : creds[v].status = "None" => creds[v].activated = 0

(* A nonce is recorded only for a request that was accepted with it.       *)
RowsSpent == \A n \in nonces : n.request \in spent

CauseInv == RefusalsHaveCause /\ SignersKnown /\ OneCurrent /\ Unactivated /\ RowsSpent

(* A handler's step leaves the causes of the others' refusals.             *)
LEMMA CauseHandler ==
    ASSUME IInv, CauseInv, NEW h \in Handlers,
           \A g \in Handlers \ {h} : call'[g] = call[g],
           UNCHANGED <<identity, creds>>, spent \subseteq spent', RowsSpent',
           call'[h].pc # "idle" => creds[call'[h].request.version].status # "None",
           HasCause(h)'
    PROVE  CauseInv'
  <1>1. RefusalsHaveCause'
    BY DEF CauseInv, RefusalsHaveCause, HasCause, Cause, Expired, Having
  <1>2. SignersKnown'
    BY DEF CauseInv, SignersKnown
  <1>3. OneCurrent' /\ Unactivated'
    BY DEF CauseInv, OneCurrent, Unactivated
  <1>4. QED
    BY <1>1, <1>2, <1>3 DEF CauseInv

(* Moves of one handler to a program point other than a refusal.           *)
LEMMA CauseMove ==
    ASSUME IInv, CauseInv, NEW h \in Handlers, call[h].pc # "idle",
           NEW p \in Steps, Goto(h, p),
           UNCHANGED <<identity, creds>>, spent \subseteq spent', RowsSpent',
           p = "refused" => Cause(call[h])
    PROVE  CauseInv'
  <1>1. /\ call'[h].pc = p
        /\ call'[h].request = call[h].request
        /\ call'[h].now = call[h].now
        /\ call'[h].received = call[h].received
        /\ \A g \in Handlers \ {h} : call'[g] = call[g]
    BY GotoType DEF IInv
  <1>2. creds[call'[h].request.version].status # "None"
    BY <1>1 DEF CauseInv, SignersKnown
  <1>3. HasCause(h)'
    BY <1>1 DEF HasCause, Cause, Expired, Having
  <1>4. QED
    BY <1>1, <1>2, <1>3, CauseHandler

(* The credentials read are not usable only when none is Current or one    *)
(* was activated after the call's time.                                    *)
LEMMA Unusable ==
    ASSUME IInv, OneCurrent, NEW now \in Int, ~Usable(now)
    PROVE  \/ Having("Current") = {}
           \/ \E v \in Versions : creds[v].activated > now
  <1>1. CASE Cardinality(Having("Current")) # 1
    <2> SUFFICES ASSUME NEW v \in Having("Current") PROVE FALSE
      OBVIOUS
    <2>1. Having("Current") = {v}
      BY DEF OneCurrent, Having
    <2>2. QED
      BY <1>1, <2>1, FS_Singleton
  <1>2. CASE \E v \in Having("Current") \cup Having("Previous") : ~(creds[v].activated <= now)
    <2>1. \A v \in Versions : creds[v].activated \in Int
      BY DEF IInv, TypeOK, Credential
    <2>2. QED
      BY <1>2, <2>1 DEF Having
  <1>3. QED
    BY <1>1, <1>2 DEF Usable

(* A known version that is no candidate can never verify the call.         *)
LEMMA NoCandidate ==
    ASSUME IInv, NEW v \in Versions, NEW now \in Int,
           creds[v].status # "None", v \notin Candidates(now)
    PROVE  Expired(v, now)
  BY DEF IInv, TypeOK, Credential, Candidates, Having, Expired

(* A refusal's cause lasts while the operators change what it was found    *)
(* in: when no credential was Current, the signer's own is past, and it    *)
(* can only be retired by the rotation that ends this.                     *)
LEMMA CauseExternal ==
    ASSUME IInv, CauseInv, UNCHANGED <<call, spent>>,
           identity = "Disabled" => identity' = "Disabled",
           \A v \in Versions, now \in Int : Expired(v, now) => Expired(v, now)',
           \A v \in Versions : creds'[v].activated >= creds[v].activated,
           \A v \in Versions : creds'[v].activated \in Int,
           \A v \in Versions : creds[v].status # "None" => creds'[v].status # "None",
           Having("Current") = {} =>
               \/ Having("Current")' = {}
               \/ \A v \in Versions : creds[v].status # "None" =>
                     creds'[v].status \in {"Retired", "Revoked"}
    PROVE  RefusalsHaveCause' /\ SignersKnown'
  <1>1. SignersKnown'
    <2> SUFFICES ASSUME NEW h \in Handlers, call[h].pc # "idle"
                 PROVE  creds'[call[h].request.version].status # "None"
      BY DEF SignersKnown
    <2>1. call[h].request.version \in Versions
      BY CallFields DEF IInv
    <2>2. QED
      BY <2>1 DEF CauseInv, SignersKnown
  <1>2. RefusalsHaveCause'
    <2> SUFFICES ASSUME NEW h \in Handlers, call[h].pc = "refused"
                 PROVE  Cause(call[h])'
      BY DEF RefusalsHaveCause, HasCause
    <2>1. PICK c : c = call[h]
      OBVIOUS
    <2>2. Cause(c) /\ creds[c.request.version].status # "None"
      BY <2>1 DEF CauseInv, RefusalsHaveCause, HasCause, SignersKnown
    <2>3. c.request.version \in Versions /\ c.now \in Int /\ c.received \in Int
      BY <2>1, CallFields DEF IInv, Times
    <2>4. Cause(c)'
      <3>1. CASE identity = "Disabled" \/ \E r \in spent : r.nonce = c.request.nonce
                    \/ c.now + Retention <= c.received
        BY <3>1 DEF Cause
      <3>2. CASE Expired(c.request.version, c.now)
        BY <2>3, <3>2 DEF Cause
      <3>3. CASE \E v \in Versions : creds[v].activated > c.now
        <4>1. PICK v \in Versions : creds[v].activated > c.now
          BY <3>3
        <4>2. creds[v].activated \in Int
          BY DEF IInv, TypeOK, Credential
        <4>3. creds'[v].activated > c.now
          BY <2>3, <4>1, <4>2
        <4>4. QED
          BY <4>3 DEF Cause
      <3>4. CASE Having("Current") = {}
        BY <2>2, <2>3, <3>4 DEF Cause, Expired
      <3>5. QED
        BY <2>2, <3>1, <3>2, <3>3, <3>4 DEF Cause
    <2>5. QED
      BY <2>1, <2>4 DEF Cause, Expired
  <1>3. QED
    BY <1>1, <1>2

LEMMA CauseRotate ==
    ASSUME IInv, CauseInv, NEW v \in Versions, Rotate(v)
    PROVE  CauseInv'
  <1>1. clock \in Int /\ clock >= 0 /\ \A u \in Versions : creds[u].activated \in Int
    BY ClockAssumption DEF IInv, TypeOK, Times, Credential
  <1>2. ASSUME NEW u \in Versions
        PROVE  /\ creds'[u].activated >= creds[u].activated
               /\ creds'[u].activated \in Int
               /\ creds'[u].status # "None" \/ creds[u].status = "None"
    <2>1. creds[v].activated = 0
      BY DEF CauseInv, Unactivated, Rotate
    <2>2. QED
      BY <1>1, <2>1, RotateCredentials
  <1>3. ASSUME Having("Current") = {}, NEW u \in Versions, creds[u].status # "None"
        PROVE  creds'[u].status \in {"Retired", "Revoked"}
    <2>1. creds[u].status \in {"Previous", "Retired", "Revoked"} /\ u # v
      BY <1>3 DEF Having, IInv, TypeOK, Credential, Rotate
    <2>2. QED
      BY <2>1, RotateCredentials
  <1>4. RefusalsHaveCause' /\ SignersKnown'
    BY <1>2, <1>3, CauseExternal, RotateExpired DEF Rotate
  <1>5. OneCurrent'
    <2>1. ASSUME NEW u \in Versions, creds'[u].status = "Current" PROVE u = v
      BY <2>1, RotateCredentials
    <2>2. QED
      BY <2>1 DEF OneCurrent
  <1>6. Unactivated'
    <2>1. ASSUME NEW u \in Versions, creds'[u].status = "None" PROVE creds'[u].activated = 0
      BY <2>1, RotateCredentials DEF CauseInv, Unactivated
    <2>2. QED
      BY <2>1 DEF Unactivated
  <1>7. RowsSpent'
    BY DEF CauseInv, RowsSpent, Rotate
  <1>8. QED
    BY <1>4, <1>5, <1>6, <1>7 DEF CauseInv

LEMMA CauseRevoke ==
    ASSUME IInv, CauseInv, NEW v \in Versions, Revoke(v)
    PROVE  CauseInv'
  <1>1. \A u \in Versions : creds[u].activated \in Int
    BY DEF IInv, TypeOK, Credential
  <1>2. ASSUME NEW u \in Versions
        PROVE  /\ creds'[u].activated = creds[u].activated
               /\ creds'[u].status # "None" \/ creds[u].status = "None"
               /\ creds'[u].status = "Current" => creds[u].status = "Current"
               /\ creds'[u].status = "None" => creds[u].status = "None"
    BY RevokeCredentials
  <1>3. Having("Current") = {} => Having("Current")' = {}
    BY <1>2 DEF Having
  <1>4. RefusalsHaveCause' /\ SignersKnown'
    <2>1. UNCHANGED <<identity, call, spent>>
      BY DEF Revoke
    <2>2. \A u \in Versions : /\ creds'[u].activated >= creds[u].activated
                              /\ creds'[u].activated \in Int
      BY <1>1, <1>2
    <2>3. \A u \in Versions, now \in Int : Expired(u, now) => Expired(u, now)'
      BY RevokeExpired
    <2>4. QED
      BY <1>2, <1>3, <2>1, <2>2, <2>3, CauseExternal
  <1>5. OneCurrent' /\ Unactivated'
    BY <1>2 DEF CauseInv, OneCurrent, Unactivated
  <1>6. RowsSpent'
    BY DEF CauseInv, RowsSpent, Revoke
  <1>7. QED
    BY <1>4, <1>5, <1>6 DEF CauseInv

LEMMA CauseNext == IInv /\ CauseInv /\ [Next]_vars => CauseInv'
  <1> SUFFICES ASSUME IInv, CauseInv, [Next]_vars PROVE CauseInv'
    OBVIOUS
  <1>1. CASE UNCHANGED vars
    BY <1>1 DEF vars, CauseInv, RefusalsHaveCause, HasCause, Cause, Expired, Having,
                SignersKnown, OneCurrent, Unactivated, RowsSpent
  <1>2. ASSUME NEW h \in Handlers, NEW request \in Requests,
               NEW now \in -Drift..(MaxClock + Drift), Receive(h, request, now)
        PROVE  CauseInv'
    <2>1. /\ call'[h] = [pc |-> "identity", request |-> request, now |-> now,
                         received |-> 0, ended |-> Ended]
          /\ \A g \in Handlers \ {h} : call'[g] = call[g]
          /\ UNCHANGED <<identity, creds, nonces, spent>>
      BY <1>2 DEF Receive, IInv, TypeOK
    <2>2. RowsSpent'
      BY <2>1 DEF CauseInv, RowsSpent
    <2>3. HasCause(h)'
      BY <2>1 DEF HasCause
    <2>4. creds[call'[h].request.version].status # "None"
      BY <1>2, <2>1 DEF Receive
    <2>5. QED
      BY <2>1, <2>2, <2>3, <2>4, CauseHandler
  <1>3. ASSUME NEW h \in Handlers, ReadIdentity(h) PROVE CauseInv'
    <2> DEFINE p == IF identity = "Active" THEN "credentials" ELSE "refused"
    <2>1. Goto(h, p) /\ p \in Steps /\ (p = "refused" => identity = "Disabled")
      BY <1>3 DEF ReadIdentity, Steps, IInv, TypeOK
    <2>2. RowsSpent' /\ UNCHANGED <<identity, creds, spent>> /\ call[h].pc # "idle"
      BY <1>3 DEF ReadIdentity, CauseInv, RowsSpent
    <2>3. p = "refused" => Cause(call[h])
      BY <2>1 DEF Cause
    <2> HIDE DEF p
    <2>4. QED
      BY <2>1, <2>2, <2>3, CauseMove
  <1>4. ASSUME NEW h \in Handlers, ReadCredentials(h) PROVE CauseInv'
    <2> DEFINE v == call[h].request.version
               now == call[h].now
               p == IF Usable(now) /\ v \in Candidates(now) THEN "begin" ELSE "refused"
    <2>1. v \in Versions /\ now \in Int /\ call[h].pc # "idle"
      BY <1>4, CallFields DEF ReadCredentials, IInv
    <2>2. creds[v].status # "None"
      BY <2>1 DEF CauseInv, SignersKnown
    <2>3. Goto(h, p) /\ p \in Steps
      BY <1>4 DEF ReadCredentials, Steps
    <2>4. RowsSpent' /\ UNCHANGED <<identity, creds, spent>>
      BY <1>4 DEF ReadCredentials, CauseInv, RowsSpent
    <2>5. p = "refused" => Cause(call[h])
      <3>1. CASE ~Usable(now)
        BY <2>1, <3>1, Unusable DEF Cause, CauseInv
      <3>2. CASE v \notin Candidates(now)
        BY <2>1, <2>2, <3>2, NoCandidate DEF Cause
      <3>3. QED
        BY <3>1, <3>2
    <2> HIDE DEF p
    <2>6. QED
      BY <2>1, <2>3, <2>4, <2>5, CauseMove
  <1>5. ASSUME NEW h \in Handlers, BeginNonce(h) PROVE CauseInv'
    <2>1. call[h] \in Call /\ call[h].pc = "begin"
      BY <1>5, CallFields DEF BeginNonce, IInv
    <2>2. /\ call'[h] = [call[h] EXCEPT !.pc = "insert", !.received = clock]
          /\ \A g \in Handlers \ {h} : call'[g] = call[g]
          /\ UNCHANGED <<identity, creds, nonces, spent>>
      BY <1>5 DEF BeginNonce, IInv, TypeOK
    <2>3. call'[h].pc = "insert" /\ call'[h].request = call[h].request
      BY <2>1, <2>2 DEF Call
    <2>4. RowsSpent' /\ HasCause(h)'
      BY <2>2, <2>3 DEF CauseInv, RowsSpent, HasCause
    <2>5. creds[call'[h].request.version].status # "None"
      BY <2>1, <2>3 DEF CauseInv, SignersKnown
    <2>6. QED
      BY <2>2, <2>4, <2>5, CauseHandler
  <1>6. ASSUME NEW h \in Handlers, InsertNonce(h) PROVE CauseInv'
    <2>1. Goto(h, "commit") /\ call[h].pc # "idle" /\ RowsSpent'
          /\ UNCHANGED <<identity, creds, spent>>
      BY <1>6 DEF InsertNonce, CauseInv, RowsSpent
    <2>2. QED
      BY <2>1, CauseMove DEF Steps
  <1>7. ASSUME NEW h \in Handlers, RefuseNonce(h) PROVE CauseInv'
    <2>1. Goto(h, "refused") /\ call[h].pc # "idle" /\ RowsSpent'
          /\ UNCHANGED <<identity, creds, spent>>
      BY <1>7 DEF RefuseNonce, CauseInv, RowsSpent
    <2>2. Cause(call[h])
      BY <1>7 DEF RefuseNonce, Expires, Recorded, Cause, CauseInv, RowsSpent
    <2>3. QED
      BY <2>1, <2>2, CauseMove DEF Steps
  <1>8. ASSUME NEW h \in Handlers, CommitNonce(h) PROVE CauseInv'
    <2>1. Goto(h, "accepted") /\ call[h].pc # "idle" /\ spent \subseteq spent'
          /\ UNCHANGED <<identity, creds>>
      BY <1>8 DEF CommitNonce
    <2>2. RowsSpent'
      BY <1>8 DEF CommitNonce, CauseInv, RowsSpent
    <2>3. QED
      BY <2>1, <2>2, CauseMove DEF Steps
  <1>9. ASSUME NEW h \in Handlers, Return(h) \/ Abort(h) PROVE CauseInv'
    <2>1. /\ call'[h] = Idle /\ \A g \in Handlers \ {h} : call'[g] = call[g]
          /\ UNCHANGED <<identity, creds, nonces, spent>>
      BY <1>9 DEF Return, Abort, IInv, TypeOK
    <2>2. RowsSpent' /\ HasCause(h)' /\ call'[h].pc = "idle"
      BY <2>1 DEF CauseInv, RowsSpent, HasCause, Idle
    <2>3. QED
      BY <2>1, <2>2, CauseHandler
  <1>10. ASSUME NEW v \in Versions, Rotate(v) \/ Revoke(v) PROVE CauseInv'
    BY <1>10, CauseRotate, CauseRevoke
  <1>11. CASE Disable \/ Tick \/ \E n \in nonces : Purge(n)
    <2>1. UNCHANGED <<creds, call, spent>> /\ nonces' \subseteq nonces
          /\ (identity = "Disabled" => identity' = "Disabled")
      BY <1>11 DEF Disable, Tick, Purge
    <2>2. RefusalsHaveCause'
      BY <2>1 DEF CauseInv, RefusalsHaveCause, HasCause, Cause, Expired, Having
    <2>3. SignersKnown' /\ OneCurrent' /\ Unactivated' /\ RowsSpent'
      BY <2>1 DEF CauseInv, SignersKnown, OneCurrent, Unactivated, RowsSpent
    <2>4. QED
      BY <2>2, <2>3 DEF CauseInv
  <1>12. QED
    BY <1>1, <1>2, <1>3, <1>4, <1>5, <1>6, <1>7, <1>8, <1>9, <1>10, <1>11
       DEF Next, Progress, External

(* A 401 after the timestamp check has a cause that still holds when the   *)
(* client is answered, whatever the operators did to the credentials       *)
(* between the handler's reads, its nonce transaction and its answer.      *)
THEOREM RefusalsAreCaused == Spec => []RefusedForCause
  <1>1. Init => CauseInv
    <2> SUFFICES ASSUME Init PROVE CauseInv
      OBVIOUS
    <2>1. \A v \in Versions : creds[v].status = "Current" => v = 1
      BY DEF Init, NoCredential
    <2>2. Unactivated
      BY DEF Init, NoCredential, Unactivated
    <2>3. QED
      BY <2>1, <2>2 DEF Init, CauseInv, RefusalsHaveCause, HasCause, SignersKnown, OneCurrent,
                        RowsSpent, Idle
  <1>2. CauseInv => RefusedForCause
    BY DEF CauseInv, RefusalsHaveCause, HasCause, Cause, Expired, RefusedForCause
  <1>3. QED
    BY <1>1, <1>2, InvHolds, CauseNext, PTL DEF Spec
=============================================================================
