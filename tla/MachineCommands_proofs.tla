------------------------ MODULE MachineCommands_proofs ------------------------
(***************************************************************************)
(* Proofs about MachineCommands for any handlers, signed requests, keys,   *)
(* clocks and bounds.  The composition uses authentication and the command *)
(* service each as its own specification allows, so what is proved of them *)
(* holds here: A and P name their theorems.                                *)
(***************************************************************************)
EXTENDS MachineCommands, TLAPS

A == INSTANCE MachineAuth_proofs
P == INSTANCE CommandIdempotency_proofs WITH Workers <- Handlers, Careless <- {}

(* An accepted call's request is spent, serves no transaction yet, and is  *)
(* held by no other handler.                                               *)
AcceptedHeld ==
    \A h \in Handlers : call[h].pc = "accepted" =>
        /\ call[h].request \in spent
        /\ \A o \in opened : o.request # call[h].request
        /\ \A g \in Handlers \ {h} :
              call[g].pc = "accepted" => call[g].request # call[h].request

Served == OneCommandPerRequest /\ AcceptedHeld

(* Behind every open transaction, and every row, there is the request it   *)
(* serves, with the body that was signed.                                  *)
Serves(o, tx, body) == o.tx = tx /\ o.request.body = body

TransactionsSigned ==
    /\ \A o \in opened : o.tx \in 1..lastTx
    /\ \A o, p \in opened : o.tx = p.tx => o = p
    /\ \A h \in Handlers : P!Active(h) =>
          \E o \in opened : Serves(o, txn[h].id, txn[h].body)

RowsSigned == \A r \in rows : \E o \in opened : Serves(o, r.command, r.body)

Signed == TransactionsSigned /\ RowsSigned

IInv == A!IInv /\ P!IInv /\ P!AllComplete /\ Served /\ Signed

(* Every committed command row stands for exactly one signed request: that *)
(* request's nonce is committed, and the row's body is the one it signed.  *)
RecordsAreSigned ==
    \A r \in rows : \E o \in opened :
        /\ Serves(o, r.command, r.body)
        /\ o.request \in spent
        /\ \A p \in opened : p.request = o.request \/ p.tx = r.command => p = o

-----------------------------------------------------------------------------
(* Each component takes its own steps.                                     *)

LEMMA SameAuthNext == Auth!Next <=> A!Next
  <1>1. ASSUME NEW h \in Handlers, NEW request \in Requests, NEW now \in Int
        PROVE  Auth!Receive(h, request, now) <=> A!Receive(h, request, now)
    BY DEF Auth!Receive, A!Receive, Auth!Ended, A!Ended, Auth!Fresh, A!Fresh,
           Auth!Versions, A!Versions
  <1>2. ASSUME NEW h \in Handlers
        PROVE  Auth!ReadIdentity(h) <=> A!ReadIdentity(h)
    BY DEF Auth!ReadIdentity, A!ReadIdentity, Auth!Goto, A!Goto
  <1>3. ASSUME NEW h \in Handlers
        PROVE  Auth!ReadCredentials(h) <=> A!ReadCredentials(h)
    <2>1. \A status : Auth!Having(status) = A!Having(status)
      BY DEF Auth!Having, A!Having, Auth!Versions, A!Versions
    <2>2. ASSUME NEW now
          PROVE  /\ Auth!Usable(now) <=> A!Usable(now)
                 /\ Auth!Candidates(now) = A!Candidates(now)
      BY <2>1, Zenon DEF Auth!Usable, A!Usable, Auth!Candidates, A!Candidates,
                         Auth!Cardinality, A!Cardinality
    <2>3. QED
      BY <2>2 DEF Auth!ReadCredentials, A!ReadCredentials, Auth!Goto, A!Goto
  <1>4. ASSUME NEW h \in Handlers
        PROVE  Auth!BeginNonce(h) <=> A!BeginNonce(h)
    BY DEF Auth!BeginNonce, A!BeginNonce
  <1>5. ASSUME NEW h \in Handlers
        PROVE  /\ Auth!InFlightElsewhere(h) <=> A!InFlightElsewhere(h)
               /\ Auth!Recorded(h) <=> A!Recorded(h)
               /\ Auth!Expires(h) = A!Expires(h)
    BY DEF Auth!InFlightElsewhere, A!InFlightElsewhere, Auth!Inserting, A!Inserting,
           Auth!Recorded, A!Recorded, Auth!Expires, A!Expires
  <1>6. ASSUME NEW h \in Handlers
        PROVE  Auth!InsertNonce(h) <=> A!InsertNonce(h)
    BY <1>5 DEF Auth!InsertNonce, A!InsertNonce, Auth!Goto, A!Goto
  <1>7. ASSUME NEW h \in Handlers
        PROVE  Auth!RefuseNonce(h) <=> A!RefuseNonce(h)
    BY <1>5 DEF Auth!RefuseNonce, A!RefuseNonce, Auth!Goto, A!Goto
  <1>8. ASSUME NEW h \in Handlers
        PROVE  Auth!CommitNonce(h) <=> A!CommitNonce(h)
    BY <1>5 DEF Auth!CommitNonce, A!CommitNonce, Auth!Goto, A!Goto
  <1>9. ASSUME NEW h \in Handlers
        PROVE  /\ Auth!Return(h) <=> A!Return(h)
               /\ Auth!Abort(h) <=> A!Abort(h)
    BY DEF Auth!Return, A!Return, Auth!Abort, A!Abort, Auth!Idle, A!Idle
  <1>10. Auth!External <=> A!External
    BY DEF Auth!External, A!External, Auth!Rotate, A!Rotate, Auth!Revoke, A!Revoke,
           Auth!Disable, A!Disable, Auth!Purge, A!Purge, Auth!Tick, A!Tick,
           Auth!Versions, A!Versions
  <1>11. ASSUME NEW h \in Handlers
         PROVE  Auth!Progress(h) <=> A!Progress(h)
    BY <1>2, <1>3, <1>4, <1>7, <1>8, <1>9 DEF Auth!Progress, A!Progress
  <1>12. \A now \in -Drift..(MaxClock + Drift) : now \in Int
    OBVIOUS
  <1>13. QED
    BY <1>1, <1>6, <1>9, <1>10, <1>11, <1>12 DEF Auth!Next, A!Next

LEMMA SameIdemNext == Idem!Next <=> P!Next
  BY DEF Idem!Next, P!Next, Idem!Open, P!Open, Idem!Lookup, P!Lookup, Idem!Insert, P!Insert,
         Idem!NewRow, P!NewRow, Idem!InFlightElsewhere, P!InFlightElsewhere,
         Idem!Committed, P!Committed, Idem!UniqueViolation, P!UniqueViolation,
         Idem!ReadWinner, P!ReadWinner, Idem!Decided, P!Decided, Idem!Outcome, P!Outcome,
         Idem!Classify, P!Classify, Idem!Success, P!Success, Idem!RowLockedElsewhere,
         P!RowLockedElsewhere, Idem!Complete, P!Complete, Idem!Eligible, P!Eligible,
         Idem!Owned, P!Owned, Idem!Held, P!Held, Idem!RejectCompletion, P!RejectCompletion,
         Idem!End, P!End, Idem!NoTxn, P!NoTxn, Idem!Commit, P!Commit, Idem!Publish,
         P!Publish, Idem!Finished, P!Finished, Idem!Raise, P!Raise, Idem!CommitIncomplete,
         P!CommitIncomplete, Idem!Respond, P!Respond, Idem!LoseResponse, P!LoseResponse,
         Idem!Abort, P!Abort

LEMMA AuthInit == Auth!Init => A!IInv /\ A!Init
  <1> SUFFICES ASSUME Auth!Init PROVE A!IInv /\ A!Init
    OBVIOUS
  <1>1. A!Init
    BY DEF Auth!Init, A!Init, Auth!Idle, A!Idle, Auth!NoCredential, A!NoCredential,
           Auth!Versions, A!Versions
  <1>2. QED
    BY <1>1, A!InitInv, RequestsAssumption, ClockAssumption, RetentionAssumption,
       MarginAssumption
       DEF A!RequestsAssumption, A!ClockAssumption, A!RetentionAssumption,
           A!MarginAssumption

LEMMA IdemInit == Idem!Init => P!IInv /\ P!AllComplete
  <1> SUFFICES ASSUME Idem!Init PROVE P!IInv /\ P!AllComplete
    OBVIOUS
  <1>1. P!Init
    BY DEF Idem!Init, P!Init, Idem!NoTxn, P!NoTxn
  <1>2. P!IInv
    BY <1>1, P!InitInv, MaxTxAssumption, NoneAssumption
       DEF P!CarelessAssumption, P!MaxTxAssumption, P!NoneAssumption
  <1>3. P!AllComplete
    BY <1>1 DEF P!Init, P!AllComplete, P!NoTxn
  <1>4. QED
    BY <1>2, <1>3

LEMMA AuthNextInv ==
    ASSUME A!IInv, [Auth!Next]_authVars
    PROVE  A!IInv'
  <1>1. [A!Next]_(A!vars)
    BY SameAuthNext DEF authVars, A!vars
  <1>2. QED
    BY <1>1, A!NextInv, RequestsAssumption, ClockAssumption, RetentionAssumption,
       MarginAssumption
       DEF A!RequestsAssumption, A!ClockAssumption, A!RetentionAssumption,
           A!MarginAssumption

LEMMA IdemNextInv ==
    ASSUME P!IInv, P!AllComplete, [Idem!Next]_idemVars
    PROVE  P!IInv' /\ P!AllComplete'
  <1>1. [P!Next]_(P!vars)
    BY SameIdemNext DEF idemVars, P!vars
  <1>2. P!CarelessAssumption /\ P!MaxTxAssumption /\ P!NoneAssumption
    BY MaxTxAssumption, NoneAssumption
       DEF P!CarelessAssumption, P!MaxTxAssumption, P!NoneAssumption
  <1>3. P!IInv'
    BY <1>1, <1>2, P!NextInv
  <1>4. P!AllComplete'
    BY <1>1, <1>2, P!AllCompleteStep
  <1>5. QED
    BY <1>3, <1>4

(* A handler's request carries a body the command service knows.           *)
LEMMA CallRequest ==
    ASSUME A!IInv, NEW h \in Handlers, call[h].pc # "idle"
    PROVE  call[h].request \in Requests /\ call[h].request.body \in Bodies
  <1>1. call[h].request \in Requests
    BY DEF A!IInv, A!TypeOK, A!Idle, A!Call
  <1>2. QED
    BY <1>1, RequestsAssumption

(* The dependency and the endpoint touch each component only through its   *)
(* own operations.                                                         *)
LEMMA NextUses ==
    ASSUME A!IInv, [Next]_vars
    PROVE  [Auth!Next]_authVars /\ [Idem!Next]_idemVars
  <1>1. CASE UNCHANGED vars
    BY <1>1 DEF vars, authVars, idemVars
  <1>2. ASSUME NEW h \in Handlers, NEW request \in Requests,
               NEW now \in -Drift..(MaxClock + Drift), Receive(h, request, now)
        PROVE  Auth!Next /\ UNCHANGED idemVars
    BY <1>2 DEF Receive, Auth!Next
  <1>3. ASSUME NEW h \in Handlers, Authenticate(h) \/ InsertNonce(h) \/ Refuse(h)
        PROVE  Auth!Next /\ UNCHANGED idemVars
    BY <1>3 DEF Authenticate, InsertNonce, Refuse, Auth!Next, Auth!Progress
  <1>4. ASSUME NEW h \in Handlers, NEW k \in Keys, Execute(h, k)
        PROVE  Auth!Next /\ Idem!Next
    <2>1. call[h].request.body \in Bodies
      BY <1>4, CallRequest DEF Execute
    <2>2. Auth!Next
      BY <1>4 DEF Execute, Auth!Next, Auth!Progress
    <2>3. Idem!Next
      BY <1>4, <2>1 DEF Execute, Idem!Next
    <2>4. QED
      BY <2>2, <2>3
  <1>5. ASSUME NEW h \in Handlers, Command(h) \/ AwaitKey(h)
        PROVE  Idem!Next /\ UNCHANGED authVars
    BY <1>5 DEF Command, AwaitKey, Idem!Next
  <1>6. ASSUME NEW h \in Handlers, Fail(h)
        PROVE  \/ Auth!Next /\ UNCHANGED idemVars
               \/ Idem!Next /\ UNCHANGED authVars
    BY <1>6 DEF Fail, Auth!Next, Idem!Next
  <1>7. CASE External
    BY <1>7 DEF External, Auth!Next
  <1>8. QED
    BY <1>1, <1>2, <1>3, <1>4, <1>5, <1>6, <1>7 DEF Next

-----------------------------------------------------------------------------
(* Which transaction serves which request.                                 *)

(* A call becomes accepted only when its request is spent, which it never  *)
(* was before.                                                             *)
AcceptsBySpending ==
    /\ spent \subseteq spent'
    /\ \A h \in Handlers : call'[h].pc = "accepted" =>
          \/ call[h].pc = "accepted" /\ call'[h].request = call[h].request
          \/ /\ call'[h].request \in spent' \ spent
             /\ \A g \in Handlers \ {h} : call'[g] = call[g]

(* A step that opens no transaction serves the requests it had.            *)
LEMMA ServedMove ==
    ASSUME Served, opened' = opened, AcceptsBySpending
    PROVE  Served'
  <1>1. OneCommandPerRequest'
    BY DEF Served, OneCommandPerRequest, AcceptsBySpending
  <1>2. AcceptedHeld'
    BY DEF Served, OneCommandPerRequest, AcceptedHeld, AcceptsBySpending
  <1>3. QED
    BY <1>1, <1>2 DEF Served

(* What one handler's call becomes accepts it only from the commit.        *)
LEMMA GotoAccepts ==
    ASSUME A!TypeOK, NEW g \in Handlers, call[g].pc # "idle",
           NEW p \in A!Steps, A!Goto(g, p)
    PROVE  /\ call'[g].pc = p
           /\ call'[g].request = call[g].request
           /\ \A h \in Handlers \ {g} : call'[h] = call[h]
  BY A!GotoType, RequestsAssumption, ClockAssumption, RetentionAssumption, MarginAssumption
     DEF A!RequestsAssumption, A!ClockAssumption, A!RetentionAssumption, A!MarginAssumption

(* Authentication accepts a call only by committing its nonce, which was   *)
(* never committed before.                                                 *)
LEMMA AuthAccepts ==
    ASSUME A!IInv, [Auth!Next]_authVars
    PROVE  AcceptsBySpending
  <1>1. A!TypeOK /\ call \in [Handlers -> A!Call \cup {A!Idle}]
    BY DEF A!IInv, A!TypeOK
  <1>2. ASSUME spent' = spent, NEW g \in Handlers, call'[g].pc # "accepted",
               \A h \in Handlers \ {g} : call'[h] = call[h]
        PROVE  AcceptsBySpending
    BY <1>2 DEF AcceptsBySpending
  <1>3. ASSUME NEW g \in Handlers, NEW request \in Requests,
               NEW now \in -Drift..(MaxClock + Drift), A!Receive(g, request, now)
        PROVE  AcceptsBySpending
    <2>1. spent' = spent /\ call'[g].pc = "identity"
          /\ \A h \in Handlers \ {g} : call'[h] = call[h]
      BY <1>1, <1>3 DEF A!Receive
    <2>2. QED
      BY <1>2, <2>1
  <1>4. ASSUME NEW g \in Handlers, call[g].pc # "idle", spent' = spent,
               NEW p \in A!Steps \ {"accepted"}, A!Goto(g, p)
        PROVE  AcceptsBySpending
    BY <1>1, <1>2, <1>4, GotoAccepts
  <1>5. ASSUME NEW g \in Handlers,
               \/ A!ReadIdentity(g) \/ A!ReadCredentials(g)
               \/ A!InsertNonce(g) \/ A!RefuseNonce(g)
        PROVE  AcceptsBySpending
    <2>1. call[g].pc # "idle" /\ spent' = spent
      BY <1>5 DEF A!ReadIdentity, A!ReadCredentials, A!InsertNonce, A!RefuseNonce
    <2>2. \E p \in A!Steps \ {"accepted"} : A!Goto(g, p)
      BY <1>5 DEF A!ReadIdentity, A!ReadCredentials, A!InsertNonce, A!RefuseNonce, A!Steps
    <2>3. QED
      BY <1>4, <2>1, <2>2
  <1>6. ASSUME NEW g \in Handlers, A!BeginNonce(g) PROVE AcceptsBySpending
    <2>1. call[g] \in A!Call
      BY <1>1, <1>6 DEF A!BeginNonce, A!Idle
    <2>2. spent' = spent
          /\ call' = [call EXCEPT ![g] = [call[g] EXCEPT !.pc = "insert", !.received = clock]]
      BY <1>1, <1>6 DEF A!BeginNonce
    <2>3. call'[g].pc = "insert" /\ \A h \in Handlers \ {g} : call'[h] = call[h]
      BY <1>1, <2>1, <2>2 DEF A!Call
    <2>4. QED
      BY <1>2, <2>2, <2>3
  <1>7. ASSUME NEW g \in Handlers, A!CommitNonce(g) PROVE AcceptsBySpending
    <2>1. call[g].request \notin spent
      BY <1>7, A!CommitsOnce, RequestsAssumption, ClockAssumption, RetentionAssumption,
         MarginAssumption
         DEF A!CommitNonce, A!RequestsAssumption, A!ClockAssumption, A!RetentionAssumption,
             A!MarginAssumption
    <2>2. /\ call'[g].request = call[g].request
          /\ \A h \in Handlers \ {g} : call'[h] = call[h]
      BY <1>1, <1>7, GotoAccepts DEF A!CommitNonce, A!Steps
    <2>3. spent' = spent \cup {call[g].request}
      BY <1>7 DEF A!CommitNonce
    <2>4. QED
      BY <2>1, <2>2, <2>3 DEF AcceptsBySpending
  <1>8. ASSUME NEW g \in Handlers, A!Return(g) \/ A!Abort(g) PROVE AcceptsBySpending
    <2>1. spent' = spent /\ call'[g].pc = "idle"
          /\ \A h \in Handlers \ {g} : call'[h] = call[h]
      BY <1>1, <1>8 DEF A!Return, A!Abort, A!Idle
    <2>2. QED
      BY <1>2, <2>1
  <1>9. CASE A!External \/ UNCHANGED authVars
    <2>1. spent' = spent /\ call' = call
      BY <1>9 DEF A!External, A!Rotate, A!Revoke, A!Disable, A!Purge, A!Tick, authVars
    <2>2. QED
      BY <2>1 DEF AcceptsBySpending
  <1>10. CASE \E g \in Handlers : A!Progress(g) \/ A!InsertNonce(g) \/ A!Abort(g)
    BY <1>5, <1>6, <1>7, <1>8, <1>10 DEF A!Progress
  <1>11. CASE \E g \in Handlers, request \in Requests, now \in -Drift..(MaxClock + Drift) :
                 A!Receive(g, request, now)
    BY <1>3, <1>11
  <1>12. A!Next \/ UNCHANGED authVars
    BY SameAuthNext
  <1>13. QED
    BY <1>9, <1>10, <1>11, <1>12 DEF A!Next

(* The endpoint's transaction takes the accepted call over.                *)
LEMMA ServedExecute ==
    ASSUME A!IInv, Served, NEW h \in Handlers, NEW k \in Keys, Execute(h, k)
    PROVE  Served'
  <1> DEFINE o == [request |-> call[h].request, tx |-> lastTx + 1]
  <1>1. opened' = opened \cup {o} /\ spent' = spent /\ call[h].pc = "accepted"
    BY DEF Execute, Auth!Return
  <1>2. call'[h].pc = "idle" /\ \A g \in Handlers \ {h} : call'[g] = call[g]
    BY DEF Execute, Auth!Return, Auth!Idle, A!IInv, A!TypeOK
  <1>3. /\ o.request = call[h].request
        /\ o.request \in spent /\ \A p \in opened : p.request # o.request
        /\ \A g \in Handlers \ {h} :
              call[g].pc = "accepted" => call[g].request # o.request
    BY <1>1 DEF Served, AcceptedHeld
  <1> HIDE DEF o
  <1>4. OneCommandPerRequest'
    BY <1>1, <1>3 DEF Served, OneCommandPerRequest
  <1>5. AcceptedHeld'
    BY <1>1, <1>2, <1>3 DEF Served, AcceptedHeld
  <1>6. QED
    BY <1>4, <1>5 DEF Served

(* A transaction's row carries the body and the id of its transaction.     *)
LEMMA SignedMove ==
    ASSUME P!IInv, [Idem!Next]_idemVars, Signed, opened' = opened, lastTx' = lastTx
    PROVE  Signed'
  <1>1. [P!Next]_(P!vars)
    BY SameIdemNext DEF idemVars, P!vars
  <1>2. P!CarelessAssumption /\ P!MaxTxAssumption /\ P!NoneAssumption
    BY MaxTxAssumption, NoneAssumption
       DEF P!CarelessAssumption, P!MaxTxAssumption, P!NoneAssumption
  <1>3. \A h \in Handlers : P!Active(h)' =>
           P!Active(h) /\ txn'[h].id = txn[h].id /\ txn'[h].body = txn[h].body
    BY <1>1, <1>2, P!CallKept
  <1>4. TransactionsSigned'
    BY <1>3 DEF Signed, TransactionsSigned, Serves
  <1>5. rows' = rows \/ \E h \in Handlers : rows' = rows \cup txn[h].own
    BY <1>1, <1>2, P!RowsGrow
  <1>6. ASSUME NEW h \in Handlers, NEW r \in txn[h].own
        PROVE  \E o \in opened : Serves(o, r.command, r.body)
    <2>1. P!Active(h) /\ r.command = txn[h].id /\ r.body = txn[h].body
      BY <1>6 DEF P!IInv, P!Calls, P!Active
    <2>2. QED
      BY <2>1 DEF Signed, TransactionsSigned
  <1>7. RowsSigned'
    BY <1>5, <1>6 DEF Signed, RowsSigned, Serves
  <1>8. QED
    BY <1>4, <1>7 DEF Signed

LEMMA SignedExecute ==
    ASSUME P!IInv, Signed, NEW h \in Handlers, NEW k \in Keys, Execute(h, k)
    PROVE  Signed'
  <1> DEFINE o == [request |-> call[h].request, tx |-> lastTx + 1]
  <1>1. lastTx \in Nat /\ txn \in [Handlers -> P!Txn]
    BY MaxTxAssumption DEF P!IInv, P!TypeOK, P!TxIds
  <1>2. /\ opened' = opened \cup {o}
        /\ lastTx' = lastTx + 1
        /\ rows' = rows
        /\ txn' = [txn EXCEPT ![h] = [Idem!NoTxn EXCEPT !.pc = "lookup", !.id = lastTx + 1,
                                             !.key = k, !.body = call[h].request.body]]
    BY DEF Execute, Idem!Open
  <1>3. o.tx = lastTx + 1 /\ o.request.body = call[h].request.body
    OBVIOUS
  <1>4. /\ txn'[h].id = lastTx + 1 /\ txn'[h].body = call[h].request.body
        /\ \A g \in Handlers \ {h} : txn'[g] = txn[g]
    BY <1>1, <1>2 DEF Idem!NoTxn
  <1> HIDE DEF o
  <1>5. \A p \in opened : p.tx \in 1..lastTx
    BY DEF Signed, TransactionsSigned
  <1>6. \A p \in opened' : p.tx \in 1..lastTx'
    BY <1>1, <1>2, <1>3, <1>5
  <1>7. \A p, q \in opened' : p.tx = q.tx => p = q
    BY <1>1, <1>2, <1>3, <1>5 DEF Signed, TransactionsSigned
  <1>8. ASSUME NEW g \in Handlers, P!Active(g)'
        PROVE  \E p \in opened' : Serves(p, txn'[g].id, txn'[g].body)
    <2>1. CASE g = h
      BY <1>2, <1>3, <1>4, <2>1 DEF Serves
    <2>2. CASE g # h
      BY <1>2, <1>4, <1>8, <2>2 DEF P!Active, Signed, TransactionsSigned
    <2>3. QED
      BY <2>1, <2>2
  <1>9. TransactionsSigned'
    BY <1>6, <1>7, <1>8 DEF TransactionsSigned, Serves
  <1>10. RowsSigned'
    BY <1>2 DEF Signed, RowsSigned, Serves
  <1>11. QED
    BY <1>9, <1>10 DEF Signed

LEMMA NextInv == IInv /\ [Next]_vars => IInv'
  <1> SUFFICES ASSUME IInv, [Next]_vars PROVE IInv'
    OBVIOUS
  <1>1. [Auth!Next]_authVars /\ [Idem!Next]_idemVars
    BY NextUses DEF IInv
  <1>2. A!IInv' /\ P!IInv' /\ P!AllComplete'
    BY <1>1, AuthNextInv, IdemNextInv DEF IInv
  <1>3. Served'
    <2>1. CASE opened' = opened
      BY <1>1, <2>1, AuthAccepts, ServedMove DEF IInv
    <2>2. CASE opened' # opened
      <3>1. \E h \in Handlers, k \in Keys : Execute(h, k)
        BY <2>2 DEF Next, vars, Receive, Authenticate, InsertNonce, Refuse, Command, AwaitKey,
                    Fail, External
      <3>2. QED
        BY <3>1, ServedExecute DEF IInv
    <2>3. QED
      BY <2>1, <2>2
  <1>4. Signed'
    <2>1. CASE \E h \in Handlers, k \in Keys : Execute(h, k)
      BY <2>1, SignedExecute DEF IInv
    <2>2. CASE ~ \E h \in Handlers, k \in Keys : Execute(h, k)
      <3>1. opened' = opened
        BY <2>2 DEF Next, vars, Receive, Authenticate, InsertNonce, Refuse, Command, AwaitKey,
                    Fail, External
      <3>2. lastTx' = lastTx
        BY <2>2 DEF Next, vars, idemVars, Receive, Authenticate, InsertNonce, Refuse, Command,
                    AwaitKey, Fail, External, Idem!Lookup, Idem!UniqueViolation,
                    Idem!Complete, Idem!Commit, Idem!Raise, Idem!Respond, Idem!Insert,
                    Idem!ReadWinner, Idem!Abort, Idem!LoseResponse
      <3>3. QED
        BY <1>1, <3>1, <3>2, SignedMove DEF IInv
    <2>3. QED
      BY <2>1, <2>2
  <1>5. QED
    BY <1>2, <1>3, <1>4 DEF IInv

LEMMA InitInv == Init => IInv
  <1> SUFFICES ASSUME Init PROVE IInv
    OBVIOUS
  <1>1. A!IInv /\ P!IInv /\ P!AllComplete
    BY AuthInit, IdemInit DEF Init
  <1>2. Served
    BY DEF Init, Auth!Init, Auth!Idle, Served, OneCommandPerRequest, AcceptedHeld
  <1>3. Signed
    BY DEF Init, Idem!Init, Idem!NoTxn, Signed, TransactionsSigned, RowsSigned, P!Active
  <1>4. QED
    BY <1>1, <1>2, <1>3 DEF IInv

LEMMA InvHolds == Spec => []IInv
  BY InitInv, NextInv, PTL DEF Spec

-----------------------------------------------------------------------------
(* The composition implements authentication as MachineAuth specifies it:  *)
(* running a command behind it adds no way to accept a request.            *)
THEOREM UsesAuthentication == Spec => Auth!Spec
  <1>1. Init => Auth!Init
    BY DEF Init
  <1>2. IInv /\ [Next]_vars => [Auth!Next]_(Auth!vars)
    BY NextUses DEF IInv, authVars, Auth!vars
  <1>3. QED
    BY <1>1, <1>2, InvHolds, PTL DEF Spec, Auth!Spec

(* It implements the command service as CommandIdempotency specifies it,   *)
(* for callers that complete before they commit: every body a transaction  *)
(* opens with is one the service knows, because requests are signed.       *)
THEOREM UsesIdempotency == Spec => Idem!Spec
  <1>1. Init => Idem!Init
    BY DEF Init
  <1>2. IInv /\ [Next]_vars => [Idem!Next]_(Idem!vars)
    BY NextUses DEF IInv, idemVars, Idem!vars
  <1>3. QED
    BY <1>1, <1>2, InvHolds, PTL DEF Spec, Idem!Spec

(* Every command transaction serves a request whose nonce is committed, and*)
(* no other transaction ever serves that request, however often and to     *)
(* however many handlers its copies are sent, and wherever a handling ends.*)
THEOREM OneCommandForEachRequest == Spec => []OneCommandPerRequest
  BY InvHolds, PTL DEF IInv, Served

(* Clients that retry a key under fresh signatures are told of the one     *)
(* committed execution, and none meets an integrity incident.              *)
THEOREM SignedRetriesAgree == Spec => []RetriesAgree
  <1>1. IInv => RetriesAgree
    <2> SUFFICES ASSUME IInv PROVE RetriesAgree
      OBVIOUS
    <2>1. \A a \in answers : \E r \in rows : r.key = a.key /\ P!Once!Justified(a, r)
      BY DEF IInv, P!IInv, P!Outcomes, P!RestsOn
    <2>2. Idem!AnswersAgree
      BY <2>1 DEF Idem!AnswersAgree, Idem!Committed, Idem!Success, P!Once!Justified
    <2>3. Idem!NoIncident
      BY DEF IInv, P!AllComplete, Idem!NoIncident
    <2>4. QED
      BY <2>2, <2>3 DEF RetriesAgree
  <1>2. QED
    BY <1>1, InvHolds, PTL

(* Every command row that is ever committed was signed for: exactly one    *)
(* request, its nonce committed, carrying the row's body.  A crash between *)
(* the two transactions can lose the command but not forge one.            *)
THEOREM EveryRecordIsSigned == Spec => []RecordsAreSigned
  <1>1. IInv => RecordsAreSigned
    <2> SUFFICES ASSUME IInv, NEW r \in rows
        PROVE  \E o \in opened :
                  /\ Serves(o, r.command, r.body)
                  /\ o.request \in spent
                  /\ \A p \in opened :
                        p.request = o.request \/ p.tx = r.command => p = o
      BY DEF RecordsAreSigned
    <2>1. PICK o \in opened : Serves(o, r.command, r.body)
      BY DEF IInv, Signed, RowsSigned
    <2>2. o.request \in spent
          /\ \A p \in opened : p.request = o.request \/ p.tx = r.command => p = o
      BY <2>1 DEF IInv, Served, OneCommandPerRequest, Signed, TransactionsSigned, Serves
    <2>3. QED
      BY <2>1, <2>2
  <1>2. QED
    BY <1>1, InvHolds, PTL

(* Behind the endpoints a signed request is still accepted at most once,   *)
(* whatever the command that follows it does and wherever it fails.        *)
THEOREM EndpointsAcceptOnce == Spec => Auth!AcceptedOnce
  <1>1. IInv => \A h \in Handlers : call[h].pc = "commit" => call[h].request \notin spent
    BY A!CommitsOnce, RequestsAssumption, ClockAssumption, RetentionAssumption,
       MarginAssumption
       DEF IInv, A!RequestsAssumption, A!ClockAssumption, A!RetentionAssumption,
           A!MarginAssumption
  <1>2. IInv /\ [Next]_vars =>
          [\A h \in Handlers : call[h].pc = "commit" /\ call'[h].pc = "accepted"
                                  => call[h].request \notin spent]_(Auth!vars)
    BY <1>1
  <1>3. QED
    BY <1>2, InvHolds, PTL DEF Spec, Auth!AcceptedOnce

LEMMA SameOnceInit == P!Once!Init <=> Idem!Once!Init
  BY DEF P!Once!Init, Idem!Once!Init, P!Committed, Idem!Committed

LEMMA SameOnceNext == [P!Once!Next]_(P!Once!vars) <=> [Idem!Once!Next]_(Idem!Once!vars)
  BY DEF P!Once!Next, Idem!Once!Next, P!Once!vars, Idem!Once!vars, P!Once!Record,
         Idem!Once!Record, P!Once!Reply, Idem!Once!Reply, P!Once!Justified,
         Idem!Once!Justified, P!Committed, Idem!Committed, P!Row, Idem!Row, P!TxIds,
         Idem!TxIds, P!Statuses, Idem!Statuses

(* The endpoints as a whole implement the write-once ledger of command     *)
(* keys: authentication, its refusals and its failures are stutters of it. *)
THEOREM EndpointsImplementOnce == Spec => Idem!ImplementsOnce
  <1> USE MaxTxAssumption, NoneAssumption
          DEF P!CarelessAssumption, P!MaxTxAssumption, P!NoneAssumption
  <1>1. Init => Idem!Once!Init
    <2>1. Idem!Init => P!Init
      BY DEF Idem!Init, P!Init, Idem!NoTxn, P!NoTxn
    <2>2. P!Init => P!Once!Init
      BY P!InitRefines
    <2>3. QED
      BY <2>1, <2>2, SameOnceInit DEF Init
  <1>2. IInv /\ [Next]_vars => [Idem!Once!Next]_(Idem!Once!vars)
    <2> SUFFICES ASSUME IInv, [Next]_vars PROVE [Idem!Once!Next]_(Idem!Once!vars)
      OBVIOUS
    <2>1. [P!Next]_(P!vars)
      BY NextUses, SameIdemNext DEF IInv, idemVars, P!vars
    <2>2. QED
      BY <2>1, P!NextRefines, SameOnceNext DEF IInv
  <1>3. QED
    BY <1>1, <1>2, InvHolds, PTL DEF Spec, Idem!ImplementsOnce, Idem!Once!Spec
=============================================================================
