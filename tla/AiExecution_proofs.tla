-------------------------- MODULE AiExecution_proofs --------------------------
(***************************************************************************)
(* Proofs about AiExecution for any sets of sessions, requests, services,  *)
(* keys and configurations.  The invariant proved of CommandIdempotency is *)
(* used as it stands: P names its theorems for this module's commands.     *)
(***************************************************************************)
EXTENDS AiExecution, TLAPS

P == INSTANCE CommandIdempotency_proofs WITH
         Keys <- Commands, Bodies <- Versions, Snapshots <- Results, Careless <- {}

(* The rows' types without the bound on versions.                          *)
RequestRow == [version : Nat, status : {"TriagePending", "ReadyForAction"}]
AttemptRow == [id : Ids, operation : Ids, state : States, version : Nat,
               service : Machines, deadline : Nat, started : Nat \cup {None}]

Typed == /\ requests \in [Requests -> RequestRow \cup {None}]
         /\ operations \subseteq Operation
         /\ attempts \subseteq AttemptRow
         /\ clock \in Nat
         /\ run \in [Workers -> Run]

(* FOR UPDATE: no row is locked by two sessions.                           *)
LocksExclusive ==
    \A v, w \in Workers : v # w => run[v].locks \cap run[w].locks = {}

Open_(w) == txn[w].pc \notin {"idle", "answering"}

(* The command's request exists and is locked.                             *)
HoldsRequest(w) == /\ <<"request", Target(w)>> \in run[w].locks
                   /\ requests[Target(w)] \in RequestRow

(* The claimed attempt is the caller's, at the expected version, and locked.*)
HoldsClaim(w) ==
    /\ <<"attempt", Target(w)>> \in run[w].locks
    /\ \E a \in Claimed(w) : a.service = txn[w].key.machine /\ a.version = txn[w].body

(* The commands a session has decided to execute and not committed yet.    *)
Deciding(w, code) == /\ txn[w].pc = "decided"
                     /\ txn[w].outcome.kind = "Executed"
                     /\ txn[w].outcome.snapshot.code = code

(* What a session may rely on at its program point.                        *)
Session(w) ==
    /\ txn[w].pc \in {"lookup", "insert", "race"} => run[w].step = "begin"
    /\ Open_(w) => /\ run[w].config \in Configs
                   /\ run[w].now <= clock
                   /\ txn[w].key.intent = "StartAttempt" => txn[w].key.target < txn[w].id
    /\ Executing(w, "StartAi", "operation") \/ Executing(w, "StartAi", "attempts")
          => HoldsRequest(w)
    /\ Executing(w, "StartAttempt", "operation") \/ Executing(w, "StartAttempt", "request")
          => HoldsClaim(w)
    /\ Deciding(w, "Accepted") => /\ txn[w].key.intent = "StartAi"
                                  /\ HoldsRequest(w)
                                  /\ SameWork(w) = {}
    /\ Deciding(w, "Running") => /\ txn[w].key.intent = "StartAttempt"
                                 /\ HoldsClaim(w)
                                 /\ \A a \in Claimed(w) : a.state = "Pending"
                                                            /\ run[w].now < a.deadline

Sessions == \A w \in Workers : Session(w)

(* Attempts have ids of their own, drawn by ended transactions.            *)
AttemptIds ==
    /\ \A a, b \in attempts : a.id = b.id => a = b
    /\ \A a \in attempts : /\ a.id \in 1..lastTx
                           /\ \A w \in Workers : Open_(w) => a.id # txn[w].id

(* A recorded start names a started attempt of the recording service.      *)
StartsOnRecord ==
    \A r \in Recorded("Running") : \E a \in attempts :
        a.id = r.key.target /\ a.service = r.key.machine /\ a.state # "Pending"

(* Transactions begin in the order of their ids, so none that can name an  *)
(* attempt began before the attempt's own.                                 *)
TimesOrdered ==
    /\ \A v, w \in Workers : Open_(v) /\ Open_(w) /\ txn[v].id < txn[w].id
                                => run[v].now <= run[w].now
    /\ \A a \in attempts :
          /\ a.deadline <= clock + Window
          /\ \A w \in Workers : Open_(w) /\ a.id < txn[w].id
                                   => a.deadline <= run[w].now + Window

IInv == /\ P!IInv
        /\ Typed
        /\ LocksExclusive
        /\ Sessions
        /\ AttemptIds
        /\ OneOperationPerWork
        /\ StartsOnRecord
        /\ StartedOnce
        /\ TimesOrdered
        /\ StartRecordedInWindow

-----------------------------------------------------------------------------
(* What the idempotency steps do to a session.                             *)

(* Every session but w stays where it is.                                  *)
Only(w) == \A v \in Workers \ {w} : txn'[v] = txn[v] /\ run'[v] = run[v]

(* The call itself stays the same.                                         *)
SameCall(w) == /\ txn'[w].id = txn[w].id
               /\ txn'[w].key = txn[w].key
               /\ txn'[w].body = txn[w].body

LEMMA OpenCall ==
    ASSUME P!IInv, NEW w \in Workers, Open_(w)
    PROVE  /\ txn[w].key \in Commands
           /\ txn[w].body \in Versions
           /\ txn[w].id \in Ids
           /\ txn[w].id \in 1..lastTx
           /\ lastTx \in Nat
  BY MaxTxAssumption
     DEF Open_, P!IInv, P!Calls, P!Identities, P!Active, P!TypeOK, P!TxIds, Ids

LEMMA CommandFields ==
    ASSUME NEW k \in Commands
    PROVE  /\ k.machine \in Machines
           /\ k.intent \in {"StartAi", "StartAttempt"}
           /\ k.intent = "StartAi" => k.target \in Requests
           /\ k.intent = "StartAttempt" => k.target \in Ids
  BY DEF Commands

LEMMA ReserveEffect ==
    ASSUME P!IInv, NEW w \in Workers, Reserve(w)
    PROVE  /\ Open_(w) /\ Open_(w)'
           /\ SameCall(w) /\ Only(w)
           /\ txn[w].pc \in {"lookup", "insert", "race"}
           /\ txn'[w].pc \in {"insert", "race", "reserved", "decided"}
           /\ txn'[w].pc = "decided" => txn'[w].outcome.kind # "Executed"
           /\ rows' = rows /\ lastTx' = lastTx
  <1>1. txn \in [Workers -> P!Txn]
    BY DEF P!IInv, P!TypeOK
  <1>2. txn[w] \in P!Txn
    BY <1>1
  <1> DEFINE Keeps(t) == /\ t.pc = "decided" /\ t.outcome.kind # "Executed"
                         /\ t.id = txn[w].id /\ t.key = txn[w].key /\ t.body = txn[w].body
  <1>3. ASSUME NEW r, NEW l
        PROVE  Keeps(Idem!Decided(w, r)) /\ Keeps([Idem!Decided(w, r) EXCEPT !.locked = l])
    <2> DEFINE a == Idem!Outcome(r, txn[w].body, Idem!Classify(r, txn[w].body))
    <2>1. a.kind # "Executed"
      BY DEF Idem!Outcome, Idem!Classify
    <2>2. Idem!Decided(w, r) = [txn[w] EXCEPT !.pc = "decided", !.outcome = a]
      BY DEF Idem!Decided
    <2> HIDE DEF a
    <2>3. QED
      BY <1>2, <2>1, <2>2 DEF P!Txn
  <1>4. ASSUME NEW t, Keeps(t), txn[w].pc \in {"lookup", "race"},
               txn' = [txn EXCEPT ![w] = t]
        PROVE  /\ Open_(w) /\ Open_(w)' /\ SameCall(w)
               /\ \A v \in Workers \ {w} : txn'[v] = txn[v]
               /\ txn'[w].pc = "decided" /\ txn'[w].outcome.kind # "Executed"
    BY <1>1, <1>4 DEF Open_, SameCall
  <1>5. CASE Idem!Lookup(w)
    <2>1. CASE txn' = [txn EXCEPT ![w].pc = "insert"]
      BY <1>1, <1>2, <1>5, <2>1
         DEF Idem!Lookup, Reserve, Open_, SameCall, Only, P!Txn
    <2>2. CASE \E r \in Idem!Committed(txn[w].key) :
                  txn' = [txn EXCEPT ![w] = Idem!Decided(w, r)]
      <3>1. PICK r : txn' = [txn EXCEPT ![w] = Idem!Decided(w, r)]
        BY <2>2
      <3>2. Keeps(Idem!Decided(w, r))
        BY <1>3
      <3> HIDE DEF Keeps
      <3>3. QED
        BY <1>4, <1>5, <3>1, <3>2 DEF Idem!Lookup, Reserve, Only
    <2>3. QED
      BY <1>5, <2>1, <2>2 DEF Idem!Lookup
  <1>6. CASE Idem!Insert(w)
    BY <1>1, <1>2, <1>6 DEF Idem!Insert, Reserve, Open_, SameCall, Only, P!Txn
  <1>7. CASE Idem!UniqueViolation(w)
    BY <1>1, <1>2, <1>7 DEF Idem!UniqueViolation, Reserve, Open_, SameCall, Only, P!Txn
  <1>8. CASE Idem!ReadWinner(w)
    <2>1. PICK r : txn' = [txn EXCEPT ![w] = [Idem!Decided(w, r) EXCEPT !.locked = TRUE]]
      BY <1>8 DEF Idem!ReadWinner
    <2>2. Keeps([Idem!Decided(w, r) EXCEPT !.locked = TRUE])
      BY <1>3
    <2> HIDE DEF Keeps
    <2>3. QED
      BY <1>4, <1>8, <2>1, <2>2 DEF Idem!ReadWinner, Reserve, Only
  <1>9. QED
    BY <1>5, <1>6, <1>7, <1>8 DEF Reserve

(* A locking read that returns takes rows nobody else holds.               *)
LEMMA AdvanceEffect ==
    ASSUME Typed, NEW w \in Workers, NEW s, Advance(w, s)
    PROVE  /\ run'[w].step = s
           /\ run'[w].now = run[w].now
           /\ run'[w].config = run[w].config
           /\ run'[w].locks = run[w].locks \cup Wants(w)
           /\ \A v \in Workers \ {w} : run'[v] = run[v]
           /\ \A v \in Workers \ {w} : Wants(w) \cap run[v].locks = {}
           /\ run' = [run EXCEPT ![w] = run'[w]]
           /\ run'[w] = [run[w] EXCEPT !.step = s, !.locks = run[w].locks \cup Wants(w)]
  <1>1. run \in [Workers -> Run] /\ run[w] \in Run
    BY DEF Typed
  <1>2. run' = [run EXCEPT ![w] = [run[w] EXCEPT !.step = s,
                                                 !.locks = run[w].locks \cup Wants(w)]]
    BY <1>1 DEF Advance
  <1>3. \A v \in Workers \ {w} : Wants(w) \cap run[v].locks = {}
    BY DEF Advance, Blockers
  <1> HIDE DEF Run
  <1>4. run'[w] = [run[w] EXCEPT !.step = s, !.locks = run[w].locks \cup Wants(w)]
    BY <1>1, <1>2
  <1>5. QED
    BY <1>1, <1>2, <1>3, <1>4 DEF Run

LEMMA DecideEffect ==
    ASSUME P!IInv, NEW w \in Workers, NEW c, NEW n, Decide(w, c, n)
    PROVE  /\ txn'[w].pc = "decided"
           /\ txn'[w].outcome.kind = "Executed"
           /\ txn'[w].outcome.snapshot = [code |-> c, version |-> n]
           /\ SameCall(w)
           /\ \A v \in Workers \ {w} : txn'[v] = txn[v]
           /\ rows' = rows /\ lastTx' = lastTx
           /\ Open_(w)
  <1> DEFINE s == [code |-> c, version |-> n]
  <1>1. txn \in [Workers -> P!Txn] /\ txn[w] \in P!Txn /\ rows \subseteq P!Row
    BY DEF P!IInv, P!TypeOK
  <1>2. PICK r \in Idem!Held(w, w) :
           LET done == [r EXCEPT !.status = "Completed", !.snapshot = s]
           IN  txn' = [txn EXCEPT ![w] =
                          [txn[w] EXCEPT !.pc = "decided", !.own = {done},
                               !.outcome = Idem!Outcome(done, done.body, "Executed")]]
    BY DEF Decide, Idem!Complete
  <1>3. r \in P!Row
    BY <1>1 DEF Idem!Held, P!Txn
  <1> DEFINE done == [r EXCEPT !.status = "Completed", !.snapshot = s]
             a == Idem!Outcome(done, done.body, "Executed")
  <1>4. done.snapshot = s
    BY <1>3 DEF P!Row
  <1>5. a.kind = "Executed" /\ a.snapshot = s
    BY <1>4 DEF Idem!Outcome, Idem!Success
  <1>6. txn' = [txn EXCEPT ![w] = [txn[w] EXCEPT !.pc = "decided", !.own = {done},
                                                 !.outcome = a]]
    BY <1>2
  <1> HIDE DEF done, a, s
  <1>7. txn'[w] = [txn[w] EXCEPT !.pc = "decided", !.own = {done}, !.outcome = a]
    BY <1>1, <1>6
  <1>8. \A v \in Workers \ {w} : txn'[v] = txn[v]
    BY <1>1, <1>6
  <1>9. /\ txn'[w].pc = "decided" /\ txn'[w].outcome = a /\ SameCall(w)
    BY <1>1, <1>7 DEF P!Txn, SameCall
  <1>10. rows' = rows /\ lastTx' = lastTx /\ Open_(w)
    BY DEF Decide, Idem!Complete, Open_
  <1>11. QED
    BY <1>5, <1>8, <1>9, <1>10 DEF s

(* The steps that end a transaction without publishing anything.           *)
LEMMA LeaveEffect ==
    ASSUME P!IInv, Typed, NEW w \in Workers,
           Raise(w) \/ Abort(w) \/ Deliver(w) \/ LoseResponse(w)
    PROVE  /\ txn'[w].pc \in {"idle", "answering"}
           /\ Only(w)
           /\ rows' = rows /\ lastTx' = lastTx
           /\ run'[w] = Resting \/ run'[w] = run[w]
           /\ UNCHANGED <<domain, clock>>
           /\ run' \in [Workers -> Run]
  <1>1. txn \in [Workers -> P!Txn] /\ txn[w] \in P!Txn
    BY DEF P!IInv, P!TypeOK
  <1>2. run \in [Workers -> Run] /\ Resting \in Run
    BY DEF Typed, Run, Resting
  <1>3. Idem!NoTxn.pc = "idle"
    BY DEF Idem!NoTxn
  <1>4. Idem!Finished(w, "answering").pc = "answering"
    BY <1>1 DEF Idem!Finished, P!Txn
  <1>5. rows' = rows /\ lastTx' = lastTx /\ UNCHANGED <<domain, clock>>
    BY DEF Raise, Abort, Deliver, LoseResponse, Idem!Raise, Idem!Abort, Idem!Respond,
           Idem!LoseResponse
  <1>6. \/ txn' = [txn EXCEPT ![w] = Idem!NoTxn]
        \/ txn' = [txn EXCEPT ![w] = Idem!Finished(w, "answering")]
    BY DEF Raise, Abort, Deliver, LoseResponse, Idem!Raise, Idem!Abort, Idem!Respond,
           Idem!LoseResponse, Idem!End
  <1>7. run' = run \/ run' = [run EXCEPT ![w] = Resting]
    BY DEF Raise, Abort, Deliver, LoseResponse, Release
  <1>8. /\ txn'[w].pc \in {"idle", "answering"}
        /\ \A v \in Workers \ {w} : txn'[v] = txn[v]
    BY <1>1, <1>3, <1>4, <1>6
  <1>9. /\ run'[w] = Resting \/ run'[w] = run[w]
        /\ \A v \in Workers \ {w} : run'[v] = run[v]
        /\ run' \in [Workers -> Run]
    BY <1>2, <1>7
  <1>10. QED
    BY <1>5, <1>8, <1>9 DEF Only

-----------------------------------------------------------------------------
(* The idempotency service is used as its own specification allows.        *)

LEMMA SameNext == Idem!Next <=> P!Next
  BY DEF Idem!Next, P!Next, Idem!Open, P!Open, Idem!Lookup, P!Lookup, Idem!Insert, P!Insert,
         Idem!NewRow, P!NewRow, Idem!InFlightElsewhere, P!InFlightElsewhere,
         Idem!Committed, P!Committed, Idem!UniqueViolation, P!UniqueViolation,
         Idem!ReadWinner, P!ReadWinner, Idem!Decided, P!Decided, Idem!Outcome, P!Outcome,
         Idem!Classify, P!Classify, Idem!Success, P!Success, Idem!RowLockedElsewhere,
         P!RowLockedElsewhere, Idem!Complete, P!Complete, Idem!Eligible, P!Eligible,
         Idem!Owned, P!Owned, Idem!Held, P!Held, Idem!RejectCompletion, P!RejectCompletion,
         Idem!End, P!End, Idem!NoTxn, P!NoTxn, Idem!Commit, P!Commit, Idem!Publish,
         P!Publish, Idem!Finished, P!Finished, Idem!Raise, P!Raise, Idem!CommitIncomplete,
         P!CommitIncomplete, Idem!Respond, P!Respond, Idem!LoseResponse, P!LoseResponse,
         Idem!Abort, P!Abort

LEMMA IdemInit == Idem!Init => P!IInv
  BY P!InitInv, MaxTxAssumption, NoneAssumption
     DEF P!CarelessAssumption, P!MaxTxAssumption, P!NoneAssumption,
         Idem!Init, P!Init, Idem!NoTxn, P!NoTxn

LEMMA IdemNextInv ==
    ASSUME P!IInv, Idem!Next \/ UNCHANGED idemVars
    PROVE  P!IInv'
  <1>1. [P!Next]_(P!vars)
    BY SameNext DEF idemVars, P!vars
  <1>2. QED
    BY <1>1, P!NextInv, MaxTxAssumption, NoneAssumption
       DEF P!CarelessAssumption, P!MaxTxAssumption, P!NoneAssumption

(* A guard that fails, or the final result, is one the table can store.    *)
LEMMA GuardCodes ==
    ASSUME NEW a, NEW o, NEW q, NEW now, NEW as
    PROVE  /\ StartGuard(a, o, q, now) \in Codes
           /\ StartGuard(a, o, q, now) # "Accepted"
           /\ ExistingOperationGuard(o, as) # None =>
                 /\ ExistingOperationGuard(o, as) \in Codes
                 /\ ExistingOperationGuard(o, as) \notin {"Accepted", "Running"}
  BY DEF StartGuard, ExistingOperationGuard, Codes

LEMMA LockingReads ==
    ASSUME P!IInv, Typed, NEW w \in Workers,
           \/ LockRequest(w) \/ LockOperation(w) \/ LockAttempts(w)
           \/ LockAttempt(w) \/ LockOwnOperation(w) \/ LockOwner(w)
    PROVE  \/ UNCHANGED idemVars
           \/ \E c \in Codes, n \in Nat : Decide(w, c, n)
  <1>1. txn[w].pc = "reserved" /\ Open_(w)
    BY DEF LockRequest, LockOperation, LockAttempts, LockAttempt, LockOwnOperation,
           LockOwner, Executing, Open_
  <1>2. txn[w].key \in Commands /\ txn[w].body \in Versions
    BY <1>1, OpenCall
  <1>3. txn[w].body \in Nat /\ txn[w].body + 1 \in Nat
    BY <1>2, MaxTxAssumption DEF Versions
  <1>4. txn[w].key.intent = "StartAi" => Target(w) \in Requests
    BY <1>2, CommandFields DEF Target
  <1>5. CASE LockRequest(w)
    <2>1. requests[Target(w)] \in RequestRow \cup {None}
      BY <1>4, <1>5 DEF LockRequest, Executing, Typed
    <2>2. requests[Target(w)] # None => requests[Target(w)].version \in Nat
      BY <2>1 DEF RequestRow
    <2>3. 0 \in Nat /\ {"RESOURCE_NOT_FOUND", "CONCURRENCY_CONFLICT",
                        "INVALID_STATE_TRANSITION"} \subseteq Codes
      BY DEF Codes
    <2>4. QED
      BY <1>5, <2>2, <2>3 DEF LockRequest, Acquire
  <1>6. CASE LockOperation(w)
    BY <1>3, <1>6 DEF LockOperation, Acquire, Codes
  <1>7. CASE LockAttempts(w)
    <2>1. PICK o \in SameWork(w) :
             LET code == ExistingOperationGuard(o, AttemptsOf(o))
             IN  code # None /\ Decide(w, code, 0)
      BY <1>7 DEF LockAttempts
    <2>2. QED
      BY <2>1, GuardCodes
  <1>8. CASE LockAttempt(w)
    <2>1. \A a \in Claimed(w) : a.version \in Nat
      BY DEF Claimed, Typed, AttemptRow
    <2>2. QED
      BY <1>8, <2>1 DEF LockAttempt, Acquire, Codes
  <1>9. CASE LockOwnOperation(w)
    BY <1>9 DEF LockOwnOperation, Acquire
  <1>10. CASE LockOwner(w)
    <2>1. PICK a \in Claimed(w), o \in OwnOperation(w) :
             LET code == StartGuard(a, o, requests[o.request], run[w].now)
             IN  Decide(w, code, IF code = "Running" THEN txn[w].body + 1 ELSE 0)
      BY <1>10 DEF LockOwner
    <2> DEFINE code == StartGuard(a, o, requests[o.request], run[w].now)
    <2>2. code \in Codes
      BY GuardCodes
    <2>3. (IF code = "Running" THEN txn[w].body + 1 ELSE 0) \in Nat
      BY <1>3
    <2>4. QED
      BY <2>1, <2>2, <2>3
  <1>11. QED
    BY <1>5, <1>6, <1>7, <1>8, <1>9, <1>10

LEMMA UsesNext ==
    ASSUME P!IInv, Typed, [Next]_vars
    PROVE  Idem!Next \/ UNCHANGED idemVars
  <1>1. CASE UNCHANGED vars
    BY <1>1 DEF vars, idemVars
  <1>2. ASSUME NEW w \in Workers, NEW k \in Commands, NEW b \in Expected, NEW c \in Configs,
               Open(w, k, b, c)
        PROVE  Idem!Next
    BY <1>2, ExpectedAssumption DEF Open, Idem!Next, Versions
  <1>3. ASSUME NEW w \in Workers, Reserve(w) PROVE Idem!Next
    BY <1>3 DEF Reserve, Idem!Next
  <1>4. ASSUME NEW w \in Workers,
               \/ LockRequest(w) \/ LockOperation(w) \/ LockAttempts(w)
               \/ LockAttempt(w) \/ LockOwnOperation(w) \/ LockOwner(w)
        PROVE  Idem!Next \/ UNCHANGED idemVars
    <2>1. CASE \E c \in Codes, n \in Nat : Decide(w, c, n)
      <3>1. PICK c \in Codes, n \in Nat : Decide(w, c, n)
        BY <2>1
      <3>2. [code |-> c, version |-> n] \in Results
        BY DEF Results
      <3>3. QED
        BY <3>1, <3>2 DEF Decide, Idem!Next
    <2>2. QED
      BY <1>4, <2>1, LockingReads
  <1>5. ASSUME NEW w \in Workers,
               \/ Commit(w) \/ Raise(w) \/ Deliver(w) \/ Abort(w) \/ LoseResponse(w)
        PROVE  Idem!Next
    BY <1>5 DEF Commit, Raise, Deliver, Abort, LoseResponse, Idem!Next
  <1>6. CASE External
    BY <1>6 DEF External, Tick, LeaveTriage, Conclude, idemVars
  <1>7. QED
    BY <1>1, <1>2, <1>3, <1>4, <1>5, <1>6 DEF Next, Handle, DeadlockVictim

-----------------------------------------------------------------------------
(* Steps that publish nothing.                                             *)

(* Such a step of w disturbs only what is said of w itself.                *)
LEMMA OwnStep ==
    ASSUME IInv, P!IInv', NEW w \in Workers, Only(w), UNCHANGED <<domain, clock>>,
           rows' = rows, lastTx' = lastTx, run' \in [Workers -> Run],
           \A v \in Workers \ {w} : run'[w].locks \cap run[v].locks = {},
           Open_(w)' => Open_(w) /\ txn'[w].id = txn[w].id /\ run'[w].now = run[w].now,
           Session(w)'
    PROVE  IInv'
  <1>1. UNCHANGED <<requests, operations, attempts, clock>>
    BY DEF domain
  <1>2. Typed'
    BY <1>1 DEF IInv, Typed
  <1>3. LocksExclusive'
    BY DEF IInv, LocksExclusive, Only
  <1>4. Sessions'
    <2>1. ASSUME NEW v \in Workers \ {w} PROVE Session(v)'
      <3>1. Session(v) /\ txn'[v] = txn[v] /\ run'[v] = run[v]
        BY DEF IInv, Sessions, Only
      <3>2. QED
        BY <1>1, <3>1 DEF Session, Open_, Executing, HoldsRequest, HoldsClaim, Deciding,
                          SameWork, Claimed, Target
    <2>2. QED
      BY <2>1 DEF Sessions
  <1>5. AttemptIds'
    BY <1>1 DEF IInv, AttemptIds, Only, Open_
  <1>6. OneOperationPerWork' /\ StartRecordedInWindow'
    BY <1>1 DEF IInv, OneOperationPerWork, StartRecordedInWindow
  <1>7. StartsOnRecord' /\ StartedOnce'
    BY <1>1 DEF IInv, StartsOnRecord, StartedOnce, Recorded
  <1>8. TimesOrdered'
    BY <1>1 DEF IInv, TimesOrdered, Only, Open_
  <1>9. QED
    BY <1>2, <1>3, <1>4, <1>5, <1>6, <1>7, <1>8 DEF IInv

LEMMA ReserveInv ==
    ASSUME IInv, P!IInv', NEW w \in Workers, Reserve(w)
    PROVE  IInv'
  <1>1. /\ Open_(w) /\ Open_(w)' /\ SameCall(w) /\ Only(w)
        /\ txn[w].pc \in {"lookup", "insert", "race"}
        /\ txn'[w].pc \in {"insert", "race", "reserved", "decided"}
        /\ txn'[w].pc = "decided" => txn'[w].outcome.kind # "Executed"
        /\ rows' = rows /\ lastTx' = lastTx
    BY ReserveEffect DEF IInv
  <1>2. UNCHANGED <<domain, clock>> /\ run' = run
    BY DEF Reserve
  <1>3. Session(w) /\ run[w].step = "begin"
    BY <1>1 DEF IInv, Sessions, Session
  <1>4. Session(w)'
    BY <1>1, <1>2, <1>3 DEF Session, SameCall, Executing, Deciding, Open_
  <1>5. /\ run' \in [Workers -> Run]
        /\ \A v \in Workers \ {w} : run'[w].locks \cap run[v].locks = {}
    BY <1>2 DEF IInv, Typed, LocksExclusive
  <1>6. QED
    BY <1>1, <1>2, <1>4, <1>5, OwnStep DEF SameCall

LEMMA LeaveInv ==
    ASSUME IInv, P!IInv', NEW w \in Workers,
           Raise(w) \/ Abort(w) \/ Deliver(w) \/ LoseResponse(w)
    PROVE  IInv'
  <1>1. /\ txn'[w].pc \in {"idle", "answering"} /\ Only(w)
        /\ rows' = rows /\ lastTx' = lastTx
        /\ run'[w] = Resting \/ run'[w] = run[w]
        /\ UNCHANGED <<domain, clock>> /\ run' \in [Workers -> Run]
    BY LeaveEffect DEF IInv
  <1>2. Session(w)'
    BY <1>1 DEF Session, Open_, Executing, Deciding
  <1>3. \A v \in Workers \ {w} : run'[w].locks \cap run[v].locks = {}
    BY <1>1 DEF Resting, IInv, LocksExclusive
  <1>4. QED
    BY <1>1, <1>2, <1>3, OwnStep DEF Open_

(* The rows a statement asks for are rows.                                 *)
LEMMA WantsLocks ==
    ASSUME P!IInv, Typed, NEW w \in Workers, txn[w].pc = "reserved"
    PROVE  Wants(w) \subseteq Locks
  <1>1. txn[w].key \in Commands
    BY OpenCall DEF Open_
  <1>2. \A o \in operations : o.id \in Ids /\ o.request \in Requests
    BY DEF Typed, Operation
  <1>3. \A a \in attempts : a.id \in Ids
    BY DEF Typed, AttemptRow
  <1>4. \A i \in Ids : <<"operation", i>> \in Locks /\ <<"attempt", i>> \in Locks
    BY DEF Locks
  <1>5. \A r \in Requests : <<"request", r>> \in Locks
    BY DEF Locks
  <1>6. /\ {<<"request", r>> : r \in Existing \cap {Target(w)}} \subseteq Locks
        /\ {<<"operation", o.id>> : o \in SameWork(w)} \subseteq Locks
        /\ {<<"attempt", a.id>> : a \in UNION {AttemptsOf(o) : o \in SameWork(w)}}
              \subseteq Locks
        /\ {<<"attempt", a.id>> : a \in Claimed(w)} \subseteq Locks
        /\ {<<"operation", o.id>> : o \in OwnOperation(w)} \subseteq Locks
        /\ {<<"request", o.request>> : o \in OwnOperation(w)} \subseteq Locks
    BY <1>2, <1>3, <1>4, <1>5 DEF Existing, SameWork, AttemptsOf, Claimed, OwnOperation
  <1> HIDE DEF Locks
  <1>7. QED
    BY <1>6 DEF Wants

(* A locking read that returns and decides nothing.                        *)
LEMMA AcquireInv ==
    ASSUME IInv, P!IInv', NEW w \in Workers, txn[w].pc = "reserved",
           NEW s \in {"operation", "attempts", "request"},
           Acquire(w, s), UNCHANGED <<domain, clock>>,
           txn[w].key.intent = "StartAi" =>
               /\ <<"request", Target(w)>> \in run[w].locks \cup Wants(w)
               /\ requests[Target(w)] \in RequestRow,
           txn[w].key.intent = "StartAttempt" =>
               /\ <<"attempt", Target(w)>> \in run[w].locks \cup Wants(w)
               /\ \E a \in Claimed(w) : /\ a.service = txn[w].key.machine
                                        /\ a.version = txn[w].body
    PROVE  IInv'
  <1>1. /\ run'[w].step = s /\ run'[w].now = run[w].now
        /\ run'[w].config = run[w].config
        /\ run'[w].locks = run[w].locks \cup Wants(w)
        /\ \A v \in Workers \ {w} : run'[v] = run[v]
        /\ \A v \in Workers \ {w} : Wants(w) \cap run[v].locks = {}
        /\ run' = [run EXCEPT ![w] = run'[w]]
        /\ run'[w] = [run[w] EXCEPT !.step = s, !.locks = run[w].locks \cup Wants(w)]
    BY AdvanceEffect DEF IInv, Acquire
  <1>2. txn' = txn /\ rows' = rows /\ lastTx' = lastTx
    BY DEF Acquire, idemVars
  <1>3. UNCHANGED <<operations, attempts, requests, clock>>
    BY DEF domain
  <1>4. run' \in [Workers -> Run]
    <2>1. run \in [Workers -> Run] /\ run[w] \in Run /\ Wants(w) \subseteq Locks
      BY WantsLocks DEF IInv, Typed
    <2>2. run'[w] \in Run
      BY <1>1, <2>1 DEF Run
    <2>3. QED
      BY <1>1, <2>1, <2>2
  <1>5. Session(w)'
    <2>1. Session(w) /\ Open_(w)
      BY DEF IInv, Sessions, Open_
    <2>2. txn[w].key.intent = "StartAi" => HoldsRequest(w)'
      BY <1>1, <1>2, <1>3 DEF HoldsRequest, Target
    <2>3. txn[w].key.intent = "StartAttempt" => HoldsClaim(w)'
      BY <1>1, <1>2, <1>3 DEF HoldsClaim, Target, Claimed
    <2>4. QED
      BY <1>1, <1>2, <1>3, <2>1, <2>2, <2>3 DEF Session, Open_, Executing, Deciding
  <1>6. \A v \in Workers \ {w} : run'[w].locks \cap run[v].locks = {}
    BY <1>1 DEF IInv, LocksExclusive
  <1>7. QED
    BY <1>1, <1>2, <1>4, <1>5, <1>6, OwnStep DEF Only, Open_

(* A locking read that decides the command.                                *)
LEMMA DecideInv ==
    ASSUME IInv, P!IInv', NEW w \in Workers, txn[w].pc = "reserved",
           NEW c, NEW n, Decide(w, c, n), UNCHANGED <<domain, clock>>,
           c = "Accepted" => /\ txn[w].key.intent = "StartAi"
                             /\ HoldsRequest(w)
                             /\ SameWork(w) = {},
           c = "Running" => /\ txn[w].key.intent = "StartAttempt"
                            /\ HoldsClaim(w)
                            /\ \A a \in Claimed(w) : a.state = "Pending"
                                                       /\ run[w].now < a.deadline
    PROVE  IInv'
  <1>1. /\ run'[w].step = "done" /\ run'[w].now = run[w].now
        /\ run'[w].config = run[w].config
        /\ run'[w].locks = run[w].locks \cup Wants(w)
        /\ \A v \in Workers \ {w} : run'[v] = run[v]
        /\ \A v \in Workers \ {w} : Wants(w) \cap run[v].locks = {}
        /\ run' = [run EXCEPT ![w] = run'[w]]
        /\ run'[w] = [run[w] EXCEPT !.step = "done", !.locks = run[w].locks \cup Wants(w)]
    BY AdvanceEffect DEF IInv, Decide
  <1>2. /\ txn'[w].pc = "decided" /\ txn'[w].outcome.kind = "Executed"
        /\ txn'[w].outcome.snapshot = [code |-> c, version |-> n]
        /\ SameCall(w)
        /\ \A v \in Workers \ {w} : txn'[v] = txn[v]
        /\ rows' = rows /\ lastTx' = lastTx /\ Open_(w)
    BY DecideEffect DEF IInv
  <1>3. UNCHANGED <<operations, attempts, requests, clock>>
    BY DEF domain
  <1>4. run' \in [Workers -> Run]
    <2>1. run \in [Workers -> Run] /\ run[w] \in Run /\ Wants(w) \subseteq Locks
      BY WantsLocks DEF IInv, Typed
    <2>2. run'[w] \in Run
      BY <1>1, <2>1 DEF Run
    <2>3. QED
      BY <1>1, <2>1, <2>2
  <1>5. Session(w)'
    <2>1. Session(w)
      BY DEF IInv, Sessions
    <2>2. HoldsRequest(w) => HoldsRequest(w)'
      BY <1>1, <1>2, <1>3 DEF HoldsRequest, Target, SameCall
    <2>3. HoldsClaim(w) => HoldsClaim(w)'
      BY <1>1, <1>2, <1>3 DEF HoldsClaim, Target, Claimed, SameCall
    <2>4. SameWork(w)' = SameWork(w) /\ Claimed(w)' = Claimed(w)
      BY <1>1, <1>2, <1>3 DEF SameWork, Claimed, Target, SameCall
    <2>5. \A x : Deciding(w, x)' => x = c
      BY <1>2 DEF Deciding
    <2>6. QED
      BY <1>1, <1>2, <1>3, <2>1, <2>2, <2>3, <2>4, <2>5
         DEF Session, Open_, Executing, SameCall
  <1>6. \A v \in Workers \ {w} : run'[w].locks \cap run[v].locks = {}
    BY <1>1 DEF IInv, LocksExclusive
  <1>7. QED
    BY <1>1, <1>2, <1>4, <1>5, <1>6, OwnStep DEF Only, Open_, SameCall

-----------------------------------------------------------------------------
(* The transaction begins: it is younger than every other and than every   *)
(* attempt.                                                                *)
LEMMA OpenInv ==
    ASSUME IInv, P!IInv', NEW w \in Workers, NEW k \in Commands, NEW b \in Expected,
           NEW c \in Configs, Open(w, k, b, c)
    PROVE  IInv'
  <1>1. txn \in [Workers -> P!Txn] /\ lastTx \in Nat /\ run \in [Workers -> Run]
        /\ clock \in Nat
    BY MaxTxAssumption DEF IInv, P!IInv, P!TypeOK, P!TxIds, Typed
  <1>2. /\ txn'[w].pc = "lookup" /\ txn'[w].id = lastTx + 1
        /\ txn'[w].key = k /\ lastTx' = lastTx + 1 /\ rows' = rows
        /\ \A v \in Workers \ {w} : txn'[v] = txn[v]
    BY <1>1 DEF Open, Idem!Open, Idem!NoTxn
  <1>3. /\ run'[w].step = "begin" /\ run'[w].now = clock
        /\ run'[w].config = c /\ run'[w].locks = {}
        /\ \A v \in Workers \ {w} : run'[v] = run[v]
        /\ run' \in [Workers -> Run]
    <2> DEFINE fresh == [Resting EXCEPT !.step = "begin", !.now = clock, !.config = c]
    <2>1. Resting \in Run /\ Resting.locks = {}
      BY DEF Resting, Run
    <2>2. /\ fresh \in Run /\ fresh.step = "begin" /\ fresh.now = clock
          /\ fresh.config = c /\ fresh.locks = {}
      BY <1>1, <2>1 DEF Run
    <2>3. run' = [run EXCEPT ![w] = fresh]
      BY DEF Open
    <2> HIDE DEF fresh
    <2>4. QED
      BY <1>1, <2>1, <2>2, <2>3
  <1>4. UNCHANGED <<requests, operations, attempts, clock>>
    BY DEF Open, domain
  <1>5. k.intent = "StartAttempt" => k.target < lastTx + 1
    BY <1>1, CommandFields DEF Open, Ids
  <1>6. Typed' /\ LocksExclusive'
    BY <1>3, <1>4 DEF IInv, Typed, LocksExclusive
  <1>7. Sessions'
    <2>1. Session(w)'
      BY <1>1, <1>2, <1>3, <1>4, <1>5 DEF Session, Open_, Executing, Deciding
    <2>2. ASSUME NEW v \in Workers \ {w} PROVE Session(v)'
      <3>1. Session(v)
        BY DEF IInv, Sessions
      <3>2. QED
        BY <1>2, <1>3, <1>4, <3>1
           DEF Session, Open_, Executing, HoldsRequest, HoldsClaim, Deciding, SameWork,
               Claimed, Target
    <2>3. QED
      BY <2>1, <2>2 DEF Sessions
  <1>8. AttemptIds'
    <2>1. \A a \in attempts : a.id \in 1..lastTx' /\ a.id # lastTx + 1
      BY <1>1, <1>2 DEF IInv, AttemptIds
    <2>2. QED
      BY <1>2, <1>4, <2>1 DEF IInv, AttemptIds, Open_
  <1>9. OneOperationPerWork' /\ StartRecordedInWindow' /\ StartsOnRecord' /\ StartedOnce'
    BY <1>2, <1>4
       DEF IInv, OneOperationPerWork, StartRecordedInWindow, StartsOnRecord, StartedOnce,
           Recorded
  <1>10. TimesOrdered'
    <2>1. \A v \in Workers : Open_(v) => txn[v].id <= lastTx /\ run[v].now <= clock
                                           /\ txn[v].id \in Nat
      <3>1. ASSUME NEW v \in Workers, Open_(v)
            PROVE  txn[v].id \in 1..lastTx /\ run[v].now <= clock
        BY <3>1, OpenCall DEF IInv, Sessions, Session
      <3>2. QED
        BY <1>1, <3>1
    <2>2. ASSUME NEW v \in Workers, NEW u \in Workers, Open_(v)', Open_(u)',
                 txn'[v].id < txn'[u].id
          PROVE  run'[v].now <= run'[u].now
      <3>1. CASE v = w /\ u # w
        BY <1>1, <1>2, <2>1, <2>2, <3>1 DEF Open_
      <3>2. CASE v # w /\ u = w
        BY <1>2, <1>3, <2>1, <2>2, <3>2 DEF Open_
      <3>3. CASE v # w /\ u # w
        BY <1>2, <1>3, <2>2, <3>3 DEF Open_, IInv, TimesOrdered
      <3>4. CASE v = w /\ u = w
        BY <1>3, <3>4, <1>1
      <3>5. QED
        BY <3>1, <3>2, <3>3, <3>4
    <2>3. ASSUME NEW a \in attempts
          PROVE  /\ a.deadline <= clock + Window
                 /\ \A v \in Workers : Open_(v)' /\ a.id < txn'[v].id
                                          => a.deadline <= run'[v].now + Window
      BY <1>2, <1>3, <1>4 DEF Open_, IInv, TimesOrdered
    <2>4. QED
      BY <1>4, <2>2, <2>3 DEF TimesOrdered
  <1>11. QED
    BY <1>6, <1>7, <1>8, <1>9, <1>10 DEF IInv

-----------------------------------------------------------------------------
(* The locking reads of the two handlers.                                  *)

LEMMA WantsRequest ==
    ASSUME NEW w, Executing(w, "StartAi", "begin"), Target(w) \in Existing
    PROVE  <<"request", Target(w)>> \in Wants(w)
  BY DEF Wants, Executing

LEMMA WantsClaim ==
    ASSUME NEW w, Executing(w, "StartAttempt", "begin"), NEW a \in Claimed(w)
    PROVE  <<"attempt", Target(w)>> \in Wants(w)
  <1>1. Wants(w) = {<<"attempt", x.id>> : x \in Claimed(w)}
    BY DEF Wants, Executing
  <1>2. a.id = Target(w)
    BY DEF Claimed
  <1>3. QED
    BY <1>1, <1>2

LEMMA StartAiInv ==
    ASSUME IInv, P!IInv', NEW w \in Workers,
           LockRequest(w) \/ LockOperation(w) \/ LockAttempts(w)
    PROVE  IInv'
  <1>1. /\ txn[w].pc = "reserved" /\ txn[w].key.intent = "StartAi"
        /\ UNCHANGED <<domain, clock>>
    BY DEF LockRequest, LockOperation, LockAttempts, Executing
  <1>2. Target(w) \in Requests
    BY <1>1, OpenCall, CommandFields DEF IInv, Open_, Target
  <1>3. Session(w)
    BY DEF IInv, Sessions
  <1>4. ASSUME NEW c, NEW n, Decide(w, c, n), c \notin {"Accepted", "Running"}
        PROVE  IInv'
    BY <1>1, <1>4, DecideInv
  <1>5. CASE LockRequest(w)
    <2>1. CASE \E c, n : Decide(w, c, n) /\ c \notin {"Accepted", "Running"}
      BY <1>4, <2>1
    <2>2. CASE requests[Target(w)] # None /\ Acquire(w, "operation")
      <3>1. <<"request", Target(w)>> \in Wants(w)
        BY <1>2, <1>5, <2>2, WantsRequest DEF LockRequest, Existing
      <3>2. requests[Target(w)] \in RequestRow
        BY <1>2, <2>2 DEF IInv, Typed
      <3>3. QED
        BY <1>1, <2>2, <3>1, <3>2, AcquireInv
    <2>3. QED
      BY <1>5, <2>1, <2>2 DEF LockRequest
  <1>6. CASE LockOperation(w)
    <2>1. HoldsRequest(w)
      BY <1>3, <1>6 DEF LockOperation, Session
    <2>2. CASE SameWork(w) = {} /\ Decide(w, "Accepted", txn[w].body + 1)
      BY <1>1, <2>1, <2>2, DecideInv
    <2>3. CASE Acquire(w, "attempts")
      BY <1>1, <2>1, <2>3, AcquireInv DEF HoldsRequest
    <2>4. QED
      BY <1>6, <2>2, <2>3 DEF LockOperation
  <1>7. CASE LockAttempts(w)
    <2>1. PICK o \in SameWork(w) :
             LET code == ExistingOperationGuard(o, AttemptsOf(o))
             IN  code # None /\ Decide(w, code, 0)
      BY <1>7 DEF LockAttempts
    <2>2. QED
      BY <1>4, <2>1, GuardCodes
  <1>8. QED
    BY <1>5, <1>6, <1>7

LEMMA StartAttemptInv ==
    ASSUME IInv, P!IInv', NEW w \in Workers,
           LockAttempt(w) \/ LockOwnOperation(w) \/ LockOwner(w)
    PROVE  IInv'
  <1>1. /\ txn[w].pc = "reserved" /\ txn[w].key.intent = "StartAttempt"
        /\ UNCHANGED <<domain, clock>>
    BY DEF LockAttempt, LockOwnOperation, LockOwner, Executing
  <1>2. Session(w)
    BY DEF IInv, Sessions
  <1>3. ASSUME NEW c, NEW n, Decide(w, c, n), c \notin {"Accepted", "Running"}
        PROVE  IInv'
    BY <1>1, <1>3, DecideInv
  <1>4. CASE LockAttempt(w)
    <2>1. CASE \E c, n : Decide(w, c, n) /\ c \notin {"Accepted", "Running"}
      BY <1>3, <2>1
    <2>2. CASE \E a \in Claimed(w) : /\ a.service = txn[w].key.machine
                                     /\ a.version = txn[w].body
                                     /\ Acquire(w, "operation")
      <3>1. <<"attempt", Target(w)>> \in Wants(w)
        BY <1>4, <2>2, WantsClaim DEF LockAttempt
      <3>2. QED
        BY <1>1, <2>2, <3>1, AcquireInv
    <2>3. QED
      BY <1>4, <2>1, <2>2 DEF LockAttempt
  <1>5. CASE LockOwnOperation(w)
    <2>1. HoldsClaim(w)
      BY <1>2, <1>5 DEF LockOwnOperation, Session
    <2>2. Acquire(w, "request")
      BY <1>5 DEF LockOwnOperation
    <2>3. QED
      BY <1>1, <2>1, <2>2, AcquireInv DEF HoldsClaim
  <1>6. CASE LockOwner(w)
    <2>1. HoldsClaim(w)
      BY <1>2, <1>6 DEF LockOwner, Session
    <2>2. PICK a \in Claimed(w), o \in OwnOperation(w) :
             LET code == StartGuard(a, o, requests[o.request], run[w].now)
             IN  Decide(w, code, IF code = "Running" THEN txn[w].body + 1 ELSE 0)
      BY <1>6 DEF LockOwner
    <2> DEFINE code == StartGuard(a, o, requests[o.request], run[w].now)
               n == IF code = "Running" THEN txn[w].body + 1 ELSE 0
    <2>3. \A x \in Claimed(w) : x = a
      BY DEF IInv, AttemptIds, Claimed
    <2>4. a.deadline \in Nat /\ run[w].now \in Nat
      BY DEF IInv, Typed, AttemptRow, Run, Claimed
    <2>5. code = "Running" => a.state = "Pending" /\ run[w].now < a.deadline
      BY <2>4 DEF StartGuard
    <2>6. code # "Accepted" /\ Decide(w, code, n)
      BY <2>2, GuardCodes
    <2> HIDE DEF code, n
    <2>7. QED
      BY <1>1, <2>1, <2>3, <2>5, <2>6, DecideInv
  <1>7. QED
    BY <1>4, <1>5, <1>6

-----------------------------------------------------------------------------
(* Steps that publish: what another session relies on stays true.          *)
LEMMA OthersKeep ==
    ASSUME NEW v \in Workers, Session(v), txn'[v] = txn[v], run'[v] = run[v],
           clock \in Nat, clock' \in Nat, run[v].now \in Nat, clock <= clock',
           HoldsRequest(v) => requests'[Target(v)] \in RequestRow,
           HoldsRequest(v) /\ SameWork(v) = {} => SameWork(v)' = {},
           HoldsClaim(v) => Claimed(v)' = Claimed(v)
    PROVE  Session(v)'
  <1>1. HoldsRequest(v) => HoldsRequest(v)'
    BY DEF HoldsRequest, Target
  <1>2. HoldsClaim(v) => HoldsClaim(v)'
    BY DEF HoldsClaim, Target
  <1>3. Open_(v)' <=> Open_(v)
    BY DEF Open_
  <1>4. \A i, p : Executing(v, i, p)' <=> Executing(v, i, p)
    BY DEF Executing
  <1>5. \A x : Deciding(v, x)' <=> Deciding(v, x)
    BY DEF Deciding
  <1>6. QED
    BY <1>1, <1>2, <1>3, <1>4, <1>5 DEF Session

LEMMA CommitEffect ==
    ASSUME P!IInv, Typed, NEW w \in Workers, Commit(w)
    PROVE  /\ txn[w].pc = "decided" /\ txn'[w].pc = "answering" /\ Only(w)
           /\ run'[w] = Resting /\ run' \in [Workers -> Run]
           /\ rows' = rows \cup txn[w].own /\ lastTx' = lastTx /\ clock' = clock
  <1>1. txn \in [Workers -> P!Txn] /\ txn[w] \in P!Txn
    BY DEF P!IInv, P!TypeOK
  <1>2. run \in [Workers -> Run] /\ Resting \in Run
    BY DEF Typed, Run, Resting
  <1>3. Idem!Finished(w, "answering").pc = "answering"
    BY <1>1 DEF Idem!Finished, P!Txn
  <1>4. txn' = [txn EXCEPT ![w] = Idem!Finished(w, "answering")]
    BY DEF Commit, Idem!Commit, Idem!End
  <1>5. txn'[w].pc = "answering" /\ \A v \in Workers \ {w} : txn'[v] = txn[v]
    BY <1>1, <1>3, <1>4
  <1>6. run' = [run EXCEPT ![w] = Resting]
    BY DEF Commit, Release
  <1>7. run'[w] = Resting /\ run' \in [Workers -> Run]
        /\ \A v \in Workers \ {w} : run'[v] = run[v]
    BY <1>2, <1>6
  <1>8. P!Publish(w) = rows \cup txn[w].own
    BY P!PublishAdds, MaxTxAssumption, NoneAssumption
       DEF P!CarelessAssumption, P!MaxTxAssumption, P!NoneAssumption
  <1>9. rows' = rows \cup txn[w].own /\ lastTx' = lastTx /\ clock' = clock
        /\ txn[w].pc = "decided"
    BY <1>8 DEF Commit, Idem!Commit, Idem!Publish, P!Publish
  <1>10. QED
    BY <1>5, <1>7, <1>9 DEF Only

(* What a decided session publishes is its decision.                       *)
LEMMA OwnRecord ==
    ASSUME P!IInv, NEW w \in Workers, txn[w].pc = "decided"
    PROVE  /\ txn[w].outcome.kind # "Executed" => txn[w].own = {}
           /\ txn[w].outcome.kind = "Executed" =>
                 /\ \A o \in txn[w].own : /\ o.key = txn[w].key
                                          /\ o.snapshot = txn[w].outcome.snapshot
                 /\ \A o, p \in txn[w].own : o = p
  <1>1. \A o \in txn[w].own : o.key = txn[w].key
    BY DEF P!IInv, P!Calls
  <1>2. \A o, p \in txn[w].own : o = p
    BY DEF P!IInv, P!Exclusive, P!OwnUnique
  <1>3. ASSUME txn[w].outcome.kind = "Executed"
        PROVE  \E o \in txn[w].own : o.snapshot = txn[w].outcome.snapshot
    <2>1. P!RestsOn(txn[w].outcome, txn[w].own)
      BY <1>3 DEF P!IInv, P!Outcomes
    <2>2. QED
      BY <1>3, <2>1 DEF P!RestsOn, P!Once!Justified
  <1>4. txn[w].outcome.kind # "Executed" => txn[w].own = {}
    BY DEF P!IInv, P!Outcomes
  <1>5. QED
    BY <1>1, <1>2, <1>3, <1>4

(* A replay, or the record of a guard that failed, changes no domain row.  *)
LEMMA QuietCommitInv ==
    ASSUME IInv, P!IInv', NEW w \in Workers, Commit(w), UNCHANGED domain,
           ~Deciding(w, "Running")
    PROVE  IInv'
  <1>1. /\ txn[w].pc = "decided" /\ txn'[w].pc = "answering" /\ Only(w)
        /\ run'[w] = Resting /\ run' \in [Workers -> Run]
        /\ rows' = rows \cup txn[w].own /\ lastTx' = lastTx /\ clock' = clock
    BY CommitEffect DEF IInv
  <1>2. UNCHANGED <<requests, operations, attempts>>
    BY DEF domain
  <1>3. Recorded("Running")' = Recorded("Running")
    <2>1. \A o \in txn[w].own : o.snapshot.code # "Running"
      BY <1>1, OwnRecord DEF IInv, Deciding
    <2>2. QED
      BY <1>1, <2>1 DEF Recorded
  <1>4. Typed' /\ LocksExclusive'
    BY <1>1, <1>2 DEF IInv, Typed, LocksExclusive, Only, Resting
  <1>5. Sessions'
    <2>1. Session(w)'
      BY <1>1 DEF Session, Open_, Executing, Deciding
    <2>2. ASSUME NEW v \in Workers \ {w} PROVE Session(v)'
      <3>1. Session(v) /\ txn'[v] = txn[v] /\ run'[v] = run[v]
        BY <1>1 DEF IInv, Sessions, Only
      <3>2. QED
        BY <1>1, <1>2, <3>1 DEF Session, Open_, Executing, HoldsRequest, HoldsClaim,
                                Deciding, SameWork, Claimed, Target
    <2>3. QED
      BY <2>1, <2>2 DEF Sessions
  <1>6. AttemptIds' /\ TimesOrdered'
    BY <1>1, <1>2 DEF IInv, AttemptIds, TimesOrdered, Only, Open_
  <1>7. OneOperationPerWork' /\ StartRecordedInWindow'
    BY <1>2 DEF IInv, OneOperationPerWork, StartRecordedInWindow
  <1>8. StartsOnRecord' /\ StartedOnce'
    BY <1>2, <1>3 DEF IInv, StartsOnRecord, StartedOnce
  <1>9. QED
    BY <1>4, <1>5, <1>6, <1>7, <1>8 DEF IInv

-----------------------------------------------------------------------------
(* Start AI's commit: a new operation and its attempt.                     *)
LEMMA CreateInv ==
    ASSUME IInv, P!IInv', NEW w \in Workers, Commit(w), CreateWork(w),
           Deciding(w, "Accepted")
    PROVE  IInv'
  <1> DEFINE id == txn[w].id
             r == Target(w)
             op == [id |-> id, request |-> r, config |-> run[w].config, succeeded |-> None]
             at == [id |-> id, operation |-> id, state |-> "Pending", version |-> 1,
                    service |-> txn[w].key.machine, deadline |-> run[w].now + Window,
                    started |-> None]
  <1>1. /\ txn[w].pc = "decided" /\ txn'[w].pc = "answering" /\ Only(w)
        /\ run'[w] = Resting /\ run' \in [Workers -> Run]
        /\ rows' = rows \cup txn[w].own /\ lastTx' = lastTx /\ clock' = clock
    BY CommitEffect DEF IInv
  <1>2. /\ Open_(w) /\ ~Open_(w)'
        /\ txn[w].key.intent = "StartAi" /\ HoldsRequest(w) /\ SameWork(w) = {}
        /\ run[w].config \in Configs /\ run[w].now <= clock
    BY <1>1 DEF IInv, Sessions, Session, Open_
  <1>3. /\ id \in Ids /\ id \in 1..lastTx /\ r \in Requests
        /\ txn[w].key.machine \in Machines /\ txn[w].body \in Versions
    BY <1>2, OpenCall, CommandFields DEF IInv, Target
  <1>4. run[w].now \in Nat /\ clock \in Nat /\ Window \in Nat
    BY ClockAssumption DEF IInv, Typed, Run
  <1>5. txn[w].body + 1 \in Nat
    BY <1>3, MaxTxAssumption DEF Versions
  <1>6. /\ requests' = [requests EXCEPT ![r].version = txn[w].body + 1]
        /\ operations' = operations \cup {op}
        /\ attempts' = attempts \cup {at}
    BY DEF CreateWork
  <1>7. op \in Operation /\ at \in AttemptRow
    BY <1>2, <1>3, <1>4 DEF Operation, AttemptRow, States
  <1>8. /\ op.id = id /\ op.request = r /\ op.config = run[w].config
        /\ at.id = id /\ at.state = "Pending" /\ at.deadline = run[w].now + Window
        /\ at.started = None
    OBVIOUS
  <1>9. /\ requests' \in [Requests -> RequestRow \cup {None}]
        /\ \A q \in Requests : requests[q] \in RequestRow => requests'[q] \in RequestRow
    <2>1. requests[r] \in RequestRow /\ requests \in [Requests -> RequestRow \cup {None}]
      BY <1>2 DEF HoldsRequest, IInv, Typed
    <2>2. [requests[r] EXCEPT !.version = txn[w].body + 1] \in RequestRow
      BY <1>5, <2>1 DEF RequestRow
    <2>3. requests' = [requests EXCEPT ![r] = [requests[r] EXCEPT !.version = txn[w].body + 1]]
      BY <1>3, <1>6, <2>1
    <2>4. QED
      BY <1>3, <2>1, <2>2, <2>3
  <1> HIDE DEF op, at, id, r
  <1>10. Typed'
    BY <1>1, <1>6, <1>7, <1>9 DEF IInv, Typed
  <1>11. LocksExclusive'
    BY <1>1 DEF IInv, LocksExclusive, Only, Resting
  <1>12. \A a \in attempts : a.id # id
    BY <1>2 DEF IInv, AttemptIds, id
  <1>13. Sessions'
    <2>1. Session(w)'
      BY <1>1 DEF Session, Open_, Executing, Deciding
    <2>2. ASSUME NEW v \in Workers \ {w} PROVE Session(v)'
      <3>1. Session(v) /\ txn'[v] = txn[v] /\ run'[v] = run[v] /\ run[v].now \in Nat
        BY <1>1 DEF IInv, Sessions, Only, Typed, Run
      <3>2. HoldsRequest(v) => requests'[Target(v)] \in RequestRow
        <4>1. \A q : requests[q] \in RequestRow => requests'[q] \in RequestRow
          <5>1. requests[r] \in RequestRow /\ requests \in [Requests -> RequestRow \cup {None}]
            BY <1>2 DEF HoldsRequest, IInv, Typed, r
          <5>2. QED
            BY <1>6, <1>9, <5>1
        <4>2. QED
          BY <4>1 DEF HoldsRequest
      <3>3. ASSUME HoldsRequest(v), SameWork(v) = {} PROVE SameWork(v)' = {}
        <4>1. Target(v) # r
          BY <1>2, <3>3 DEF HoldsRequest, IInv, LocksExclusive, r
        <4>2. QED
          BY <1>6, <1>8, <3>1, <3>3, <4>1 DEF SameWork, Target
      <3>4. ASSUME HoldsClaim(v) PROVE Claimed(v)' = Claimed(v)
        <4>1. Target(v) # id
          BY <1>12, <3>4 DEF HoldsClaim, Claimed
        <4>2. QED
          BY <1>6, <1>8, <3>1, <4>1 DEF Claimed, Target
      <3>5. QED
        BY <1>1, <1>4, <3>1, <3>2, <3>3, <3>4, OthersKeep
    <2>3. QED
      BY <2>1, <2>2 DEF Sessions
  <1>14. AttemptIds'
    <2>1. \A v \in Workers \ {w} : Open_(v) => txn[v].id # id
      BY <1>2 DEF IInv, P!IInv, P!Identities, P!Active, Open_, id
    <2>2. QED
      BY <1>1, <1>2, <1>3, <1>6, <1>8, <1>12, <2>1 DEF IInv, AttemptIds, Only, Open_
  <1>15. OneOperationPerWork'
    <2>1. \A o \in operations : o.request # r \/ o.config # run[w].config
      BY <1>2 DEF SameWork, r
    <2>2. QED
      BY <1>6, <1>8, <2>1 DEF IInv, OneOperationPerWork
  <1>16. StartRecordedInWindow'
    BY <1>6, <1>8 DEF IInv, StartRecordedInWindow
  <1>17. Recorded("Running")' = Recorded("Running")
    <2>1. \A o \in txn[w].own : o.snapshot.code # "Running"
      BY <1>1, OwnRecord DEF IInv, Deciding
    <2>2. QED
      BY <1>1, <2>1 DEF Recorded
  <1>18. StartsOnRecord' /\ StartedOnce'
    BY <1>6, <1>17 DEF IInv, StartsOnRecord, StartedOnce
  <1>19. TimesOrdered'
    <2>1. \A v, u \in Workers : Open_(v)' /\ Open_(u)' /\ txn'[v].id < txn'[u].id
                                   => run'[v].now <= run'[u].now
      BY <1>1, <1>2 DEF IInv, TimesOrdered, Only, Open_
    <2>2. at.deadline <= clock + Window
      BY <1>2, <1>4, <1>8
    <2>3. ASSUME NEW v \in Workers, Open_(v)', id < txn'[v].id
          PROVE  at.deadline <= run'[v].now + Window
      <3>1. v # w /\ Open_(v) /\ txn'[v] = txn[v] /\ run'[v] = run[v]
        BY <1>1, <1>2, <2>3 DEF Only, Open_
      <3>2. run[w].now <= run[v].now /\ run[v].now \in Nat
        BY <1>2, <2>3, <3>1 DEF IInv, TimesOrdered, Typed, Run, id
      <3>3. QED
        BY <1>4, <1>8, <3>1, <3>2
    <2>4. \A a \in attempts :
             /\ a.deadline <= clock + Window
             /\ \A v \in Workers : Open_(v)' /\ a.id < txn'[v].id
                                      => a.deadline <= run'[v].now + Window
      BY <1>1, <1>2 DEF IInv, TimesOrdered, Only, Open_
    <2>5. QED
      BY <1>1, <1>6, <1>8, <2>1, <2>2, <2>3, <2>4 DEF TimesOrdered
  <1>20. QED
    BY <1>10, <1>11, <1>13, <1>14, <1>15, <1>16, <1>18, <1>19 DEF IInv

-----------------------------------------------------------------------------
(* Attempt start's commit: the claimed attempt, still as the session locked*)
(* it, starts.                                                             *)
LEMMA StartInv ==
    ASSUME IInv, P!IInv', NEW w \in Workers, Commit(w), StartWork(w),
           Deciding(w, "Running")
    PROVE  IInv'
  <1> DEFINE Started(a) == [a EXCEPT !.state = "Running", !.version = txn[w].body + 1,
                                     !.started = run[w].now]
  <1>1. /\ txn[w].pc = "decided" /\ txn'[w].pc = "answering" /\ Only(w)
        /\ run'[w] = Resting /\ run' \in [Workers -> Run]
        /\ rows' = rows \cup txn[w].own /\ lastTx' = lastTx /\ clock' = clock
    BY CommitEffect DEF IInv
  <1>2. /\ Open_(w) /\ ~Open_(w)'
        /\ txn[w].key.intent = "StartAttempt" /\ HoldsClaim(w)
        /\ \A a \in Claimed(w) : a.state = "Pending" /\ run[w].now < a.deadline
        /\ txn[w].key.target < txn[w].id
    BY <1>1 DEF IInv, Sessions, Session, Open_
  <1>3. txn[w].body + 1 \in Nat
    BY <1>2, OpenCall, MaxTxAssumption DEF IInv, Versions
  <1>4. run[w].now \in Nat /\ clock \in Nat /\ Window \in Nat
    BY ClockAssumption DEF IInv, Typed, Run
  <1>5. PICK c \in Claimed(w) : c.service = txn[w].key.machine /\ c.version = txn[w].body
    BY <1>2 DEF HoldsClaim
  <1>6. /\ c \in attempts /\ c \in AttemptRow /\ c.id = Target(w) /\ c.state = "Pending"
        /\ Claimed(w) = {c} /\ \A a \in attempts : a.id = Target(w) <=> a = c
    BY <1>2, <1>5 DEF Claimed, IInv, AttemptIds, Typed
  <1> DEFINE d == Started(c)
  <1>7. attempts' = {a \in attempts : a.id # Target(w)} \cup {d}
    BY <1>6 DEF StartWork
  <1>8. /\ d \in AttemptRow /\ d.id = c.id /\ d.service = c.service /\ d.state = "Running"
        /\ d.deadline = c.deadline /\ d.started = run[w].now
    BY <1>3, <1>4, <1>6 DEF AttemptRow, States
  <1> HIDE DEF d
  <1>9. requests' = requests /\ operations' = operations
    BY DEF StartWork
  <1>10. Typed' /\ LocksExclusive'
    BY <1>1, <1>7, <1>8, <1>9 DEF IInv, Typed, LocksExclusive, Only, Resting
  <1>11. Sessions'
    <2>1. Session(w)'
      BY <1>1 DEF Session, Open_, Executing, Deciding
    <2>2. ASSUME NEW v \in Workers \ {w} PROVE Session(v)'
      <3>1. Session(v) /\ txn'[v] = txn[v] /\ run'[v] = run[v] /\ run[v].now \in Nat
        BY <1>1 DEF IInv, Sessions, Only, Typed, Run
      <3>2. HoldsRequest(v) => requests'[Target(v)] \in RequestRow
        BY <1>9 DEF HoldsRequest
      <3>3. SameWork(v) = {} => SameWork(v)' = {}
        BY <1>9, <3>1 DEF SameWork, Target
      <3>4. ASSUME HoldsClaim(v) PROVE Claimed(v)' = Claimed(v)
        <4>1. Target(v) # Target(w)
          BY <1>2, <3>4 DEF HoldsClaim, IInv, LocksExclusive
        <4>2. QED
          BY <1>6, <1>7, <1>8, <3>1, <4>1 DEF Claimed, Target
      <3>5. QED
        BY <1>1, <1>4, <3>1, <3>2, <3>3, <3>4, OthersKeep
    <2>3. QED
      BY <2>1, <2>2 DEF Sessions
  <1>12. AttemptIds'
    BY <1>1, <1>2, <1>6, <1>7, <1>8 DEF IInv, AttemptIds, Only, Open_
  <1>13. OneOperationPerWork'
    BY <1>9 DEF IInv, OneOperationPerWork
  <1>14. StartRecordedInWindow'
    <2>1. c.id < txn[w].id /\ run[w].now < c.deadline
      BY <1>2, <1>6 DEF Target
    <2>2. c.deadline <= run[w].now + Window
      BY <1>2, <1>6, <2>1 DEF IInv, TimesOrdered
    <2>3. d.deadline - Window <= d.started /\ d.started < d.deadline
      <3>1. c.deadline \in Nat
        BY <1>6 DEF AttemptRow
      <3>2. QED
        BY <1>4, <1>8, <2>1, <2>2, <3>1
    <2>4. QED
      BY <1>7, <2>3 DEF IInv, StartRecordedInWindow
  <1>15. /\ \A o \in txn[w].own : o.key = txn[w].key
         /\ \A o, p \in txn[w].own : o = p
    BY <1>1, OwnRecord DEF IInv, Deciding
  <1>16. \A s \in Recorded("Running")' : s \in Recorded("Running") \/ s \in txn[w].own
    BY <1>1 DEF Recorded
  <1>17. \A s \in Recorded("Running") : s.key.target # Target(w)
    BY <1>6 DEF IInv, StartsOnRecord
  <1>18. StartsOnRecord'
    <2>1. ASSUME NEW s \in Recorded("Running")
          PROVE  \E a \in attempts' : /\ a.id = s.key.target /\ a.service = s.key.machine
                                      /\ a.state # "Pending"
      BY <1>7, <1>17 DEF IInv, StartsOnRecord
    <2>2. ASSUME NEW s \in txn[w].own
          PROVE  d.id = s.key.target /\ d.service = s.key.machine /\ d.state # "Pending"
      BY <1>5, <1>6, <1>8, <1>15 DEF Target
    <2>3. QED
      BY <1>7, <1>16, <2>1, <2>2 DEF StartsOnRecord
  <1>19. StartedOnce'
    <2>1. \A s \in txn[w].own : s.key.target = Target(w)
      BY <1>15 DEF Target
    <2>2. QED
      BY <1>15, <1>16, <1>17, <2>1 DEF IInv, StartedOnce
  <1>20. TimesOrdered'
    BY <1>1, <1>2, <1>6, <1>7, <1>8 DEF IInv, TimesOrdered, Only, Open_
  <1>21. QED
    BY <1>10, <1>11, <1>12, <1>13, <1>14, <1>18, <1>19, <1>20 DEF IInv

LEMMA CommitInv ==
    ASSUME IInv, P!IInv', NEW w \in Workers, Commit(w)
    PROVE  IInv'
  <1>1. txn[w].pc = "decided"
    BY CommitEffect DEF IInv
  <1>2. CASE txn[w].outcome.kind # "Executed"
    <2>1. UNCHANGED domain
      BY <1>2 DEF Commit
    <2>2. QED
      BY <1>2, <2>1, QuietCommitInv DEF Deciding
  <1>3. CASE Deciding(w, "Accepted")
    <2>1. CreateWork(w)
      BY <1>3 DEF Commit, Deciding
    <2>2. QED
      BY <1>3, <2>1, CreateInv
  <1>4. CASE Deciding(w, "Running")
    <2>1. StartWork(w)
      BY <1>4 DEF Commit, Deciding
    <2>2. QED
      BY <1>4, <2>1, StartInv
  <1>5. CASE /\ txn[w].outcome.kind = "Executed"
             /\ txn[w].outcome.snapshot.code \notin {"Accepted", "Running"}
    <2>1. UNCHANGED domain
      BY <1>5 DEF Commit
    <2>2. QED
      BY <1>5, <2>1, QuietCommitInv DEF Deciding
  <1>6. QED
    BY <1>1, <1>2, <1>3, <1>4, <1>5 DEF Deciding

-----------------------------------------------------------------------------
(* The external steps respect the locks.                                   *)

LEMMA TickInv ==
    ASSUME IInv, P!IInv', Tick
    PROVE  IInv'
  <1>1. clock \in Nat /\ clock' = clock + 1 /\ Window \in Nat
    BY ClockAssumption DEF Tick, IInv, Typed
  <1>2. UNCHANGED <<rows, txn, lastTx, requests, operations, attempts, run>>
    BY DEF Tick, idemVars, domain
  <1>3. Typed' /\ LocksExclusive'
    BY <1>1, <1>2 DEF IInv, Typed, LocksExclusive
  <1>4. Sessions'
    <2>1. ASSUME NEW v \in Workers PROVE Session(v)'
      <3>1. Session(v) /\ run[v].now \in Nat
        BY DEF IInv, Sessions, Typed, Run
      <3>2. clock' \in Nat /\ clock <= clock'
        BY <1>1
      <3>3. /\ HoldsRequest(v) => requests'[Target(v)] \in RequestRow
            /\ SameWork(v)' = SameWork(v) /\ Claimed(v)' = Claimed(v)
        BY <1>2 DEF HoldsRequest, SameWork, Claimed, Target
      <3>4. QED
        BY <1>1, <1>2, <3>1, <3>2, <3>3, OthersKeep
    <2>2. QED
      BY <2>1 DEF Sessions
  <1>5. AttemptIds' /\ OneOperationPerWork' /\ StartRecordedInWindow' /\ StartsOnRecord'
        /\ StartedOnce'
    BY <1>2 DEF IInv, AttemptIds, OneOperationPerWork, StartRecordedInWindow,
                StartsOnRecord, StartedOnce, Recorded, Open_
  <1>6. TimesOrdered'
    <2>1. \A a \in attempts : a.deadline \in Nat /\ a.deadline <= clock + Window
      BY DEF IInv, TimesOrdered, Typed, AttemptRow
    <2>2. \A a \in attempts : a.deadline <= clock' + Window
      BY <1>1, <2>1
    <2>3. QED
      BY <1>2, <2>2 DEF IInv, TimesOrdered, Open_
  <1>7. QED
    BY <1>3, <1>4, <1>5, <1>6 DEF IInv

LEMMA LeaveTriageInv ==
    ASSUME IInv, P!IInv', NEW r \in Requests, LeaveTriage(r)
    PROVE  IInv'
  <1>1. requests[r] \in RequestRow /\ requests \in [Requests -> RequestRow \cup {None}]
    BY DEF LeaveTriage, IInv, Typed
  <1>2. requests' = [requests EXCEPT ![r] = [version |-> requests[r].version + 1,
                                             status |-> "ReadyForAction"]]
    BY DEF LeaveTriage
  <1>3. [version |-> requests[r].version + 1, status |-> "ReadyForAction"] \in RequestRow
    BY <1>1 DEF RequestRow
  <1>4. /\ requests' \in [Requests -> RequestRow \cup {None}]
        /\ \A q : requests[q] \in RequestRow => requests'[q] \in RequestRow
    BY <1>1, <1>2, <1>3
  <1>5. UNCHANGED <<rows, txn, lastTx, operations, attempts, clock, run>>
    BY DEF LeaveTriage, idemVars
  <1>6. Typed' /\ LocksExclusive'
    BY <1>4, <1>5 DEF IInv, Typed, LocksExclusive
  <1>7. Sessions'
    <2>1. ASSUME NEW v \in Workers PROVE Session(v)'
      <3>1. Session(v) /\ run[v].now \in Nat /\ clock \in Nat
        BY DEF IInv, Sessions, Typed, Run
      <3>2. HoldsRequest(v) => requests'[Target(v)] \in RequestRow
        BY <1>4 DEF HoldsRequest
      <3>3. QED
        BY <1>5, <3>1, <3>2, OthersKeep DEF SameWork, Claimed, Target
    <2>2. QED
      BY <2>1 DEF Sessions
  <1>8. AttemptIds' /\ OneOperationPerWork' /\ StartRecordedInWindow' /\ StartsOnRecord'
        /\ StartedOnce' /\ TimesOrdered'
    BY <1>5 DEF IInv, AttemptIds, OneOperationPerWork, StartRecordedInWindow,
                StartsOnRecord, StartedOnce, Recorded, TimesOrdered, Open_
  <1>9. QED
    BY <1>6, <1>7, <1>8 DEF IInv

LEMMA ConcludeInv ==
    ASSUME IInv, P!IInv', NEW c \in attempts,
           NEW s \in {"Succeeded", "TerminalFailure"}, Conclude(c, s)
    PROVE  IInv'
  <1> DEFINE d == [c EXCEPT !.state = s, !.version = c.version + 1]
             Marked(o) == IF o.id = c.operation /\ s = "Succeeded"
                          THEN [o EXCEPT !.succeeded = c.id] ELSE o
  <1>1. c \in AttemptRow /\ c.version + 1 \in Nat
    BY DEF IInv, Typed, AttemptRow
  <1>2. /\ d \in AttemptRow /\ d.id = c.id /\ d.service = c.service /\ d.state # "Pending"
        /\ d.deadline = c.deadline /\ d.started = c.started
    BY <1>1 DEF AttemptRow, States
  <1>3. /\ attempts' = (attempts \ {c}) \cup {d}
        /\ operations' = {Marked(o) : o \in operations}
    BY DEF Conclude
  <1>4. UNCHANGED <<rows, txn, lastTx, requests, clock, run>>
    BY DEF Conclude, idemVars
  <1>5. \A o \in operations : /\ Marked(o) \in Operation
                              /\ Marked(o).request = o.request
                              /\ Marked(o).config = o.config
                              /\ Marked(o).id = o.id
    BY <1>1 DEF IInv, Typed, Operation, AttemptRow
  <1> HIDE DEF d, Marked
  <1>6. Typed' /\ LocksExclusive'
    BY <1>2, <1>3, <1>4, <1>5 DEF IInv, Typed, LocksExclusive
  <1>7. Sessions'
    <2>1. ASSUME NEW v \in Workers PROVE Session(v)'
      <3>1. Session(v) /\ run[v].now \in Nat /\ clock \in Nat
        BY DEF IInv, Sessions, Typed, Run
      <3>2. SameWork(v) = {} => SameWork(v)' = {}
        BY <1>3, <1>4, <1>5 DEF SameWork, Target
      <3>3. ASSUME HoldsClaim(v) PROVE Claimed(v)' = Claimed(v)
        <4>1. Target(v) # c.id
          BY <3>3 DEF HoldsClaim, Conclude, Unlocked
        <4>2. QED
          BY <1>2, <1>3, <1>4, <4>1 DEF Claimed, Target
      <3>4. HoldsRequest(v) => requests'[Target(v)] \in RequestRow
        BY <1>4 DEF HoldsRequest
      <3>5. clock' \in Nat /\ clock <= clock'
        BY <1>4, <3>1
      <3>6. QED
        BY <1>4, <3>1, <3>2, <3>3, <3>4, <3>5, OthersKeep
    <2>2. QED
      BY <2>1 DEF Sessions
  <1>8. AttemptIds'
    BY <1>2, <1>3, <1>4 DEF IInv, AttemptIds, Open_
  <1>9. OneOperationPerWork'
    BY <1>3, <1>5 DEF IInv, OneOperationPerWork
  <1>10. StartRecordedInWindow' /\ TimesOrdered'
    BY <1>2, <1>3, <1>4 DEF IInv, StartRecordedInWindow, TimesOrdered, Open_
  <1>11. StartsOnRecord' /\ StartedOnce'
    BY <1>2, <1>3, <1>4 DEF IInv, StartsOnRecord, StartedOnce, Recorded
  <1>12. QED
    BY <1>6, <1>7, <1>8, <1>9, <1>10, <1>11 DEF IInv

-----------------------------------------------------------------------------
LEMMA InitInv == Init => IInv
  <1> SUFFICES ASSUME Init PROVE IInv
    OBVIOUS
  <1>1. P!IInv
    BY IdemInit DEF Init
  <1>2. requests \in [Requests -> RequestRow \cup {None}]
    <2>1. [version |-> 1, status |-> "TriagePending"] \in RequestRow
      BY DEF RequestRow
    <2>2. QED
      BY <2>1 DEF Init
  <1>3. Resting \in Run
    BY DEF Resting, Run
  <1>4. Typed
    BY <1>2, <1>3 DEF Init, Typed
  <1>5. \A w \in Workers : txn[w].pc = "idle" /\ run[w].locks = {}
    BY DEF Init, Idem!Init, Idem!NoTxn, Resting
  <1>6. LocksExclusive /\ Sessions
    BY <1>5 DEF LocksExclusive, Sessions, Session, Open_, Executing, Deciding
  <1>7. rows = {} /\ operations = {} /\ attempts = {}
    BY DEF Init, Idem!Init
  <1>8. AttemptIds /\ OneOperationPerWork /\ StartsOnRecord /\ StartedOnce
        /\ TimesOrdered /\ StartRecordedInWindow
    BY <1>5, <1>7 DEF AttemptIds, OneOperationPerWork, StartsOnRecord, StartedOnce,
                      TimesOrdered, StartRecordedInWindow, Recorded, Open_
  <1>9. QED
    BY <1>1, <1>4, <1>6, <1>8 DEF IInv

LEMMA StutterInv ==
    ASSUME IInv, P!IInv', UNCHANGED vars
    PROVE  IInv'
  <1>1. UNCHANGED <<rows, txn, lastTx, requests, operations, attempts, clock, run>>
    BY DEF vars
  <1>2. Typed' /\ LocksExclusive'
    BY <1>1 DEF IInv, Typed, LocksExclusive
  <1>3. Sessions'
    BY <1>1 DEF IInv, Sessions, Session, Open_, Executing, HoldsRequest, HoldsClaim,
                Deciding, SameWork, Claimed, Target
  <1>4. AttemptIds' /\ TimesOrdered'
    BY <1>1 DEF IInv, AttemptIds, TimesOrdered, Open_
  <1>5. OneOperationPerWork' /\ StartRecordedInWindow' /\ StartsOnRecord' /\ StartedOnce'
    BY <1>1 DEF IInv, OneOperationPerWork, StartRecordedInWindow, StartsOnRecord,
                StartedOnce, Recorded
  <1>6. QED
    BY <1>2, <1>3, <1>4, <1>5 DEF IInv

LEMMA NextInv == IInv /\ [Next]_vars => IInv'
  <1> SUFFICES ASSUME IInv, [Next]_vars PROVE IInv'
    OBVIOUS
  <1>1. P!IInv'
    BY UsesNext, IdemNextInv DEF IInv
  <1>2. CASE UNCHANGED vars
    BY <1>1, <1>2, StutterInv
  <1>3. ASSUME NEW w \in Workers, NEW k \in Commands, NEW b \in Expected, NEW c \in Configs,
               Open(w, k, b, c)
        PROVE  IInv'
    BY <1>1, <1>3, OpenInv
  <1>4. ASSUME NEW w \in Workers, Reserve(w) PROVE IInv'
    BY <1>1, <1>4, ReserveInv
  <1>5. ASSUME NEW w \in Workers, LockRequest(w) \/ LockOperation(w) \/ LockAttempts(w)
        PROVE  IInv'
    BY <1>1, <1>5, StartAiInv
  <1>6. ASSUME NEW w \in Workers, LockAttempt(w) \/ LockOwnOperation(w) \/ LockOwner(w)
        PROVE  IInv'
    BY <1>1, <1>6, StartAttemptInv
  <1>7. ASSUME NEW w \in Workers, Commit(w) PROVE IInv'
    BY <1>1, <1>7, CommitInv
  <1>8. ASSUME NEW w \in Workers, Raise(w) \/ Abort(w) \/ Deliver(w) \/ LoseResponse(w)
        PROVE  IInv'
    BY <1>1, <1>8, LeaveInv
  <1>9. CASE Tick
    BY <1>1, <1>9, TickInv
  <1>10. ASSUME NEW r \in Requests, LeaveTriage(r) PROVE IInv'
    BY <1>1, <1>10, LeaveTriageInv
  <1>11. ASSUME NEW a \in attempts, NEW s \in {"Succeeded", "TerminalFailure"},
                Conclude(a, s)
         PROVE  IInv'
    BY <1>1, <1>11, ConcludeInv
  <1>12. QED
    BY <1>2, <1>3, <1>4, <1>5, <1>6, <1>7, <1>8, <1>9, <1>10, <1>11
       DEF Next, Handle, DeadlockVictim, External

LEMMA InvHolds == Spec => []IInv
  BY InitInv, NextInv, PTL DEF Spec

-----------------------------------------------------------------------------
(* The two commands drive the idempotency service as CommandIdempotency    *)
(* specifies, with careful callers, so its theorems hold of them: a retry  *)
(* of either command executes once and answers agree.                      *)
THEOREM CommandsUseIdempotency == Spec => UsesIdempotency
  <1>1. IInv /\ [Next]_vars => [Idem!Next]_(Idem!vars)
    BY UsesNext DEF IInv, idemVars, Idem!vars
  <1>2. Init => Idem!Init
    BY DEF Init
  <1>3. QED
    BY <1>1, <1>2, InvHolds, PTL DEF Spec, UsesIdempotency, Idem!Spec

(* Racing starts create one operation per request input and configuration: *)
(* the decision to create rests on the request lock held until commit.     *)
THEOREM WorkIsCreatedOnce == Spec => []OneOperationPerWork
  BY InvHolds, PTL DEF IInv

(* At most one command starts an attempt, under any number of keys,        *)
(* services and deadlocks.                                                 *)
THEOREM AttemptIsStartedOnce == Spec => []StartedOnce
  BY InvHolds, PTL DEF IInv

(* A start is recorded only for the service the attempt is assigned to.    *)
THEOREM AssigneeStarts == Spec => []StartedByAssignee
  <1>1. IInv => StartedByAssignee
    BY DEF IInv, StartsOnRecord, StartedByAssignee
  <1>2. QED
    BY <1>1, InvHolds, PTL

(* A recorded start lies between the attempt's creation and its deadline,  *)
(* although both times are read before the row locks are granted.          *)
THEOREM StartsAreInWindow == Spec => []StartRecordedInWindow
  BY InvHolds, PTL DEF IInv

(* The successors an attempt may have in one step.                         *)
Follows(b, a) ==
    /\ <<b.id, b.operation, b.service, b.deadline>>
          = <<a.id, a.operation, a.service, a.deadline>>
    /\ b = a \/ (b.state \in NextState[a.state] /\ b.version = a.version + 1)

Forward == \A a \in attempts : \E b \in attempts' : Follows(b, a)

LEMMA ForwardWhenKept == ASSUME attempts \subseteq attempts' PROVE Forward
  <1>1. \A a : Follows(a, a)
    BY DEF Follows
  <1>2. QED
    BY <1>1 DEF Forward

LEMMA StartForward ==
    ASSUME IInv, NEW w \in Workers, Deciding(w, "Running"), StartWork(w)
    PROVE  Forward
  <1>1. HoldsClaim(w) /\ \A a \in Claimed(w) : a.state = "Pending"
    BY DEF IInv, Sessions, Session
  <1>2. PICK c \in Claimed(w) : c.version = txn[w].body
    BY <1>1 DEF HoldsClaim
  <1>3. /\ c \in AttemptRow /\ c.state = "Pending"
        /\ \A a \in attempts : a.id = Target(w) => a = c
    BY <1>1 DEF Claimed, IInv, AttemptIds, Typed
  <1> DEFINE d == [c EXCEPT !.state = "Running", !.version = txn[w].body + 1,
                            !.started = run[w].now]
  <1>4. d \in attempts'
    BY DEF StartWork
  <1>5. Follows(d, c)
    <2>1. NextState["Pending"] = {"Running"}
      BY DEF NextState
    <2>2. /\ d.id = c.id /\ d.operation = c.operation /\ d.service = c.service
          /\ d.deadline = c.deadline /\ d.state = "Running" /\ d.version = c.version + 1
      BY <1>2, <1>3 DEF AttemptRow
    <2> HIDE DEF d
    <2>3. QED
      BY <1>3, <2>1, <2>2 DEF Follows
  <1>6. \A a \in attempts : a # c => a \in attempts'
    BY <1>3 DEF StartWork
  <1>7. \A a : Follows(a, a)
    BY DEF Follows
  <1> HIDE DEF d
  <1>8. QED
    BY <1>4, <1>5, <1>6, <1>7 DEF Forward

LEMMA ConcludeForward ==
    ASSUME IInv, NEW c \in attempts, NEW s \in {"Succeeded", "TerminalFailure"},
           Conclude(c, s)
    PROVE  Forward
  <1> DEFINE d == [c EXCEPT !.state = s, !.version = c.version + 1]
  <1>1. attempts' = (attempts \ {c}) \cup {d} /\ c.state = "Running"
    BY DEF Conclude
  <1>2. c \in AttemptRow
    BY DEF IInv, Typed
  <1>3. Follows(d, c)
    <2>1. NextState["Running"] = {"Succeeded", "TerminalFailure"}
      BY DEF NextState
    <2>2. /\ d.id = c.id /\ d.operation = c.operation /\ d.service = c.service
          /\ d.deadline = c.deadline /\ d.state = s /\ d.version = c.version + 1
      BY <1>2 DEF AttemptRow
    <2> HIDE DEF d
    <2>3. QED
      BY <1>1, <2>1, <2>2 DEF Follows
  <1>4. \A a : Follows(a, a)
    BY DEF Follows
  <1> HIDE DEF d
  <1>5. QED
    BY <1>1, <1>3, <1>4 DEF Forward

LEMMA NextForward ==
    ASSUME IInv, [Next]_vars
    PROVE  Forward
  <1>1. CASE attempts' = attempts
    BY <1>1, ForwardWhenKept
  <1>2. ASSUME NEW w \in Workers, Commit(w) PROVE Forward
    <2>1. txn[w].pc = "decided"
      BY <1>2, CommitEffect DEF IInv
    <2>2. CASE Deciding(w, "Running")
      BY <1>2, <2>2, StartForward DEF Commit, Deciding
    <2>3. CASE Deciding(w, "Accepted")
      <3>1. attempts \subseteq attempts'
        BY <1>2, <2>3 DEF Commit, Deciding, CreateWork
      <3>2. QED
        BY <3>1, ForwardWhenKept
    <2>4. CASE ~Deciding(w, "Running") /\ ~Deciding(w, "Accepted")
      <3>1. UNCHANGED domain
        BY <1>2, <2>1, <2>4 DEF Commit, Deciding
      <3>2. QED
        BY <3>1, <1>1 DEF domain
    <2>5. QED
      BY <2>2, <2>3, <2>4
  <1>3. ASSUME NEW a \in attempts, NEW s \in {"Succeeded", "TerminalFailure"},
               Conclude(a, s)
        PROVE  Forward
    BY <1>3, ConcludeForward
  <1>4. CASE \E w \in Workers : \/ \E k \in Commands, b \in Expected, c \in Configs :
                                      Open(w, k, b, c)
                                \/ Reserve(w)
                                \/ LockRequest(w) \/ LockOperation(w) \/ LockAttempts(w)
                                \/ LockAttempt(w) \/ LockOwnOperation(w) \/ LockOwner(w)
                                \/ Raise(w) \/ Deliver(w) \/ Abort(w) \/ LoseResponse(w)
    BY <1>1, <1>4 DEF Open, Reserve, LockRequest, LockOperation, LockAttempts, LockAttempt,
                      LockOwnOperation, LockOwner, Raise, Deliver, Abort, LoseResponse, domain
  <1>5. CASE Tick \/ \E r \in Requests : LeaveTriage(r)
    BY <1>1, <1>5 DEF Tick, LeaveTriage, domain
  <1>6. CASE UNCHANGED vars
    BY <1>1, <1>6 DEF vars
  <1>7. QED
    BY <1>2, <1>3, <1>4, <1>5, <1>6 DEF Next, Handle, DeadlockVictim, External

(* Attempts are never removed and move only forward, one version at a time:*)
(* the start writes the version it locked plus one, whoever else writes.   *)
THEOREM AttemptsNeverMoveBack == Spec => AttemptsMoveForward
  <1>1. IInv /\ [Next]_vars =>
          [\A a \in attempts : \E b \in attempts' :
              /\ <<b.id, b.operation, b.service, b.deadline>>
                    = <<a.id, a.operation, a.service, a.deadline>>
              /\ b = a \/ (b.state \in NextState[a.state] /\ b.version = a.version + 1)]_vars
    BY NextForward DEF Forward, Follows
  <1>2. QED
    BY <1>1, InvHolds, PTL DEF Spec, AttemptsMoveForward
=============================================================================
