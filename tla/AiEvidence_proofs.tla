--------------------------- MODULE AiEvidence_proofs ---------------------------
(***************************************************************************)
(* Proofs about the evidence AiExecution leaves: the stored successes, the *)
(* operations and attempts they created, and the audit and outbox events,  *)
(* for any sets of sessions, requests, services, keys and configurations.  *)
(* They rest on the locking invariant of AiExecution_proofs.               *)
(***************************************************************************)
EXTENDS AiExecution_proofs, FiniteSetTheorems

(* A session that goes on from the request's lock still sees the version   *)
(* its client expects.                                                     *)
VersionHeld(w) ==
    \/ Executing(w, "StartAi", "operation") \/ Executing(w, "StartAi", "attempts")
    \/ Deciding(w, "Accepted")
    => /\ requests[Target(w)].version = txn[w].body
       /\ requests[Target(w)].status = "TriagePending"

VersionsHeld == \A w \in Workers : VersionHeld(w)

(* The operations created for a request.                                   *)
IdsFor(r) == {o.id : o \in {p \in operations : p.request = r}}

(* A request's version counts its operations and its leaving triage.       *)
VersionsCounted ==
    \A r \in Requests : requests[r] \in RequestRow =>
        requests[r].version = Cardinality(IdsFor(r))
                                 + (IF requests[r].status = "TriagePending" THEN 1 ELSE 2)

(* An attempt's version is that of its state.                              *)
StateVersion == [Pending |-> 1, Running |-> 2, Succeeded |-> 3, TerminalFailure |-> 3]

VersionsOfStates == \A a \in attempts : a.version = StateVersion[a.state]

(* An operation belongs to a request, has the attempt of its own id, and   *)
(* refers only to that attempt's success.                                  *)
RowsLinked ==
    /\ \A o \in operations : requests[o.request] \in RequestRow
    /\ {o.id : o \in operations} = {a.id : a \in attempts}
    /\ \A a \in attempts : a.operation = a.id
    /\ \A o \in operations : o.succeeded # None =>
          \E a \in attempts : /\ a.id = o.succeeded /\ a.operation = o.id
                              /\ a.state = "Succeeded"

(* The commands that recorded 202 created the operations.                  *)
CreationsWitnessed == {r.command : r \in Recorded("Accepted")} = {o.id : o \in operations}

(* A command that recorded 200 wrote the event of its start.               *)
StartsWitnessed ==
    \A r \in Recorded("Running") :
        \E e \in audits : e.command = r.command
                            /\ e.aggregate = <<"attempt", r.key.target>>
                            /\ e.version = r.body + 1

(* An event names the committed command that wrote it.                     *)
EventsWitnessed ==
    \A e \in audits : e.command # 0 =>
        \E r \in rows : r.command = e.command
                          /\ r.status = "Completed"
                          /\ r.snapshot.code \in {"Accepted", "Running"}

EventRow == [aggregate : ({"request"} \X Requests) \cup ({"attempt"} \X Ids),
             version : Nat, command : Ids \cup {0}]

(* Every event is of a row that exists.                                    *)
EventsOwned ==
    /\ audits \subseteq EventRow
    /\ \A e \in audits : e.aggregate[1] = "request" => requests[e.aggregate[2]] \in RequestRow
    /\ \A e \in audits : e.aggregate[1] = "attempt" =>
          \E a \in attempts : a.id = e.aggregate[2]

RequestTrails ==
    \A r \in Requests : requests[r] \in RequestRow =>
        OnePerVersion(EventsOf(<<"request", r>>, audits), 2..requests[r].version)

AttemptTrails ==
    \A a \in attempts : OnePerVersion(EventsOf(<<"attempt", a.id>>, audits), 1..a.version)

OutboxCarries == outbox = {e \in audits : e.aggregate[1] = "attempt"}

TrailInv == /\ clock <= MaxClock
            /\ VersionsHeld
            /\ VersionsCounted
            /\ VersionsOfStates
            /\ RowsLinked
            /\ CreationsWitnessed /\ StartsWitnessed /\ EventsWitnessed
            /\ EventsOwned
            /\ RequestTrails
            /\ AttemptTrails
            /\ OutboxCarries

-----------------------------------------------------------------------------
(* Facts about the operators.                                              *)

(* One event more, of the next version, keeps a trail one per version.     *)
LEMMA TrailGrows ==
    ASSUME NEW E, NEW m \in Int, NEW k \in Int, m <= k + 1, OnePerVersion(E, m..k),
           NEW e, e.version = k + 1
    PROVE  OnePerVersion(E \cup {e}, m..(k + 1))
  <1>1. {d.version : d \in E \cup {e}} = {d.version : d \in E} \cup {k + 1}
    OBVIOUS
  <1>2. {d.version : d \in E} = m..k
    BY DEF OnePerVersion
  <1>3. (m..k) \cup {k + 1} = m..(k + 1)
    OBVIOUS
  <1>4. \A d \in E : d.version # k + 1
    <2>1. \A d \in E : d.version \in m..k
      BY <1>2
    <2>2. k + 1 \notin m..k
      OBVIOUS
    <2>3. QED
      BY <2>1, <2>2
  <1>5. \A c, d \in E \cup {e} : c.version = d.version => c = d
    BY <1>4 DEF OnePerVersion
  <1>6. QED
    BY <1>1, <1>2, <1>3, <1>5 DEF OnePerVersion

(* An event of another aggregate is not of this trail.                     *)
LEMMA EventsAdded ==
    ASSUME NEW agg, NEW S, NEW e
    PROVE  /\ e.aggregate = agg => EventsOf(agg, S \cup {e}) = EventsOf(agg, S) \cup {e}
           /\ e.aggregate # agg => EventsOf(agg, S \cup {e}) = EventsOf(agg, S)
  BY DEF EventsOf

(* The operations of a request have ids of ended transactions.             *)
LEMMA IdsFinite ==
    ASSUME IInv, NEW r
    PROVE  /\ IdsFor(r) \subseteq Ids
           /\ IsFiniteSet(IdsFor(r))
           /\ Cardinality(IdsFor(r)) \in 0..MaxTx
  <1>1. IdsFor(r) \subseteq Ids
    BY DEF IdsFor, IInv, Typed, Operation
  <1>2. IsFiniteSet(Ids) /\ Cardinality(Ids) = MaxTx
    BY FS_Interval, MaxTxAssumption DEF Ids
  <1>3. IsFiniteSet(IdsFor(r)) /\ Cardinality(IdsFor(r)) <= MaxTx
    BY <1>1, <1>2, FS_Subset
  <1>4. Cardinality(IdsFor(r)) \in Nat
    BY <1>3, FS_CardinalityType
  <1>5. QED
    BY <1>1, <1>3, <1>4, MaxTxAssumption

(* A request's version stays in bounds: no command leaves more than one.   *)
LEMMA VersionsBounded ==
    ASSUME IInv, VersionsCounted, NEW r \in Requests, requests[r] \in RequestRow
    PROVE  requests[r].version \in Versions /\ requests[r] \in Request
  <1>1. Cardinality(IdsFor(r)) \in 0..MaxTx
    BY IdsFinite
  <1>2. requests[r].version \in Versions
    BY <1>1, MaxTxAssumption DEF VersionsCounted, Versions
  <1>3. QED
    BY <1>2 DEF RequestRow, Request

-----------------------------------------------------------------------------
(* Steps that change no domain row.                                        *)

LEMMA QuietTrail ==
    ASSUME TrailInv, UNCHANGED domain, clock' <= MaxClock,
           Recorded("Accepted")' = Recorded("Accepted"),
           Recorded("Running")' = Recorded("Running"),
           rows \subseteq rows', VersionsHeld'
    PROVE  TrailInv'
  <1>1. UNCHANGED <<requests, operations, attempts, audits, outbox>>
    BY DEF domain
  <1>2. VersionsCounted' /\ VersionsOfStates' /\ RowsLinked'
    BY <1>1 DEF TrailInv, VersionsCounted, VersionsOfStates, RowsLinked, IdsFor
  <1>3. CreationsWitnessed' /\ StartsWitnessed'
    BY <1>1 DEF TrailInv, CreationsWitnessed, StartsWitnessed
  <1>4. EventsWitnessed'
    BY <1>1 DEF TrailInv, EventsWitnessed
  <1>5. EventsOwned' /\ RequestTrails' /\ AttemptTrails' /\ OutboxCarries'
    BY <1>1 DEF TrailInv, EventsOwned, RequestTrails, AttemptTrails, OutboxCarries
  <1>6. QED
    BY <1>2, <1>3, <1>4, <1>5 DEF TrailInv

(* A session keeps what it relies on while its request's row is untouched. *)
LEMMA VersionKept ==
    ASSUME NEW v \in Workers, Session(v), VersionHeld(v), txn'[v] = txn[v], run'[v] = run[v],
           HoldsRequest(v) => requests'[Target(v)] = requests[Target(v)]
    PROVE  VersionHeld(v)'
  <1>1. \A s : Executing(v, "StartAi", s)' <=> Executing(v, "StartAi", s)
    BY DEF Executing
  <1>2. Deciding(v, "Accepted")' <=> Deciding(v, "Accepted")
    BY DEF Deciding
  <1>3. Target(v)' = Target(v)
    BY DEF Target
  <1>4. QED
    BY <1>1, <1>2, <1>3 DEF VersionHeld, Session

(* A step of w that publishes nothing.                                     *)
LEMMA OwnTrail ==
    ASSUME IInv, TrailInv, NEW w \in Workers, Only(w), UNCHANGED <<domain, clock>>,
           rows' = rows, VersionHeld(w)'
    PROVE  TrailInv'
  <1>1. requests' = requests /\ clock' <= MaxClock
    BY DEF domain, TrailInv
  <1>2. ASSUME NEW v \in Workers \ {w} PROVE VersionHeld(v)'
    BY <1>1, VersionKept DEF Only, IInv, Sessions, TrailInv, VersionsHeld
  <1>3. VersionsHeld'
    BY <1>2 DEF VersionsHeld
  <1>4. Recorded("Accepted")' = Recorded("Accepted") /\ Recorded("Running")' = Recorded("Running")
    BY DEF Recorded
  <1>5. QED
    BY <1>1, <1>3, <1>4, QuietTrail

LEMMA OpenTrail ==
    ASSUME IInv, TrailInv, NEW w \in Workers, NEW k \in Commands, NEW b \in Expected,
           NEW c \in Configs, Open(w, k, b, c)
    PROVE  TrailInv'
  <1>1. txn \in [Workers -> P!Txn] /\ run \in [Workers -> Run]
    BY DEF IInv, P!IInv, P!TypeOK, Typed
  <1>2. /\ txn'[w].pc = "lookup" /\ rows' = rows
        /\ \A v \in Workers \ {w} : txn'[v] = txn[v]
    BY <1>1 DEF Open, Idem!Open, Idem!NoTxn
  <1>3. /\ \A v \in Workers \ {w} : run'[v] = run[v]
        /\ UNCHANGED <<domain, clock>>
    BY <1>1 DEF Open
  <1>4. VersionHeld(w)'
    BY <1>2 DEF VersionHeld, Executing, Deciding
  <1>5. QED
    BY <1>2, <1>3, <1>4, OwnTrail DEF Only

LEMMA ReserveTrail ==
    ASSUME IInv, TrailInv, NEW w \in Workers, Reserve(w)
    PROVE  TrailInv'
  <1>1. /\ Open_(w) /\ Only(w) /\ rows' = rows
        /\ txn[w].pc \in {"lookup", "insert", "race"}
        /\ txn'[w].pc = "decided" => txn'[w].outcome.kind # "Executed"
    BY ReserveEffect DEF IInv
  <1>2. UNCHANGED <<domain, clock>> /\ run' = run
    BY DEF Reserve
  <1>3. run[w].step = "begin"
    BY <1>1 DEF IInv, Sessions, Session
  <1>4. VersionHeld(w)'
    BY <1>1, <1>2, <1>3 DEF VersionHeld, Executing, Deciding
  <1>5. QED
    BY <1>1, <1>2, <1>4, OwnTrail

LEMMA LeaveTrail ==
    ASSUME IInv, TrailInv, NEW w \in Workers,
           Raise(w) \/ Abort(w) \/ Deliver(w) \/ LoseResponse(w)
    PROVE  TrailInv'
  <1>1. /\ txn'[w].pc \in {"idle", "answering"} /\ Only(w) /\ rows' = rows
        /\ UNCHANGED <<domain, clock>>
    BY LeaveEffect DEF IInv
  <1>2. VersionHeld(w)'
    BY <1>1 DEF VersionHeld, Executing, Deciding
  <1>3. QED
    BY <1>1, <1>2, OwnTrail

(* A locking read, in terms of what it shows of the request.               *)
LEMMA AcquireTrail ==
    ASSUME IInv, TrailInv, NEW w \in Workers, NEW s, Acquire(w, s),
           UNCHANGED <<domain, clock>>,
           txn[w].key.intent = "StartAi" =>
               /\ requests[Target(w)].version = txn[w].body
               /\ requests[Target(w)].status = "TriagePending",
           txn[w].pc = "reserved"
    PROVE  TrailInv'
  <1>1. txn' = txn /\ rows' = rows /\ requests' = requests
    BY DEF Acquire, idemVars, domain
  <1>2. \A v \in Workers \ {w} : run'[v] = run[v]
    BY AdvanceEffect DEF IInv, Acquire
  <1>3. VersionHeld(w)'
    BY <1>1 DEF VersionHeld, Executing, Deciding, Target
  <1>4. QED
    BY <1>1, <1>2, <1>3, OwnTrail DEF Only

LEMMA DecideTrail ==
    ASSUME IInv, TrailInv, NEW w \in Workers, NEW c, NEW n, Decide(w, c, n),
           UNCHANGED <<domain, clock>>,
           c = "Accepted" => /\ requests[Target(w)].version = txn[w].body
                             /\ requests[Target(w)].status = "TriagePending"
    PROVE  TrailInv'
  <1>1. /\ txn'[w].pc = "decided"
        /\ txn'[w].outcome.snapshot = [code |-> c, version |-> n]
        /\ SameCall(w)
        /\ \A v \in Workers \ {w} : txn'[v] = txn[v]
        /\ rows' = rows
    BY DecideEffect DEF IInv
  <1>2. \A v \in Workers \ {w} : run'[v] = run[v]
    BY AdvanceEffect DEF IInv, Decide
  <1>3. requests' = requests
    BY DEF domain
  <1>4. VersionHeld(w)'
    BY <1>1, <1>3 DEF VersionHeld, Executing, Deciding, Target, SameCall
  <1>5. QED
    BY <1>1, <1>2, <1>4, OwnTrail DEF Only

LEMMA StartAiTrail ==
    ASSUME IInv, TrailInv, NEW w \in Workers,
           LockRequest(w) \/ LockOperation(w) \/ LockAttempts(w)
    PROVE  TrailInv'
  <1>1. txn[w].pc = "reserved" /\ UNCHANGED <<domain, clock>> /\ VersionHeld(w)
    BY DEF LockRequest, LockOperation, LockAttempts, Executing, TrailInv, VersionsHeld
  <1>2. ASSUME NEW c, NEW n, Decide(w, c, n), c # "Accepted" PROVE TrailInv'
    BY <1>1, <1>2, DecideTrail
  <1>3. CASE LockRequest(w)
    <2>1. CASE \E c, n : Decide(w, c, n) /\ c # "Accepted"
      BY <1>2, <2>1
    <2>2. CASE /\ requests[Target(w)].version = txn[w].body
               /\ requests[Target(w)].status = "TriagePending"
               /\ Acquire(w, "operation")
      BY <1>1, <2>2, AcquireTrail
    <2>3. QED
      BY <1>3, <2>1, <2>2 DEF LockRequest
  <1>4. CASE LockOperation(w)
    <2>1. requests[Target(w)].version = txn[w].body
          /\ requests[Target(w)].status = "TriagePending"
      BY <1>1, <1>4 DEF LockOperation, VersionHeld
    <2>2. QED
      BY <1>1, <1>4, <2>1, AcquireTrail, DecideTrail DEF LockOperation
  <1>5. CASE LockAttempts(w)
    <2>1. PICK o \in SameWork(w) :
             LET code == ExistingOperationGuard(o, AttemptsOf(o))
             IN  code # None /\ Decide(w, code, 0)
      BY <1>5 DEF LockAttempts
    <2>2. QED
      BY <1>2, <2>1, GuardCodes
  <1>6. QED
    BY <1>3, <1>4, <1>5

LEMMA StartAttemptTrail ==
    ASSUME IInv, TrailInv, NEW w \in Workers,
           LockAttempt(w) \/ LockOwnOperation(w) \/ LockOwner(w)
    PROVE  TrailInv'
  <1>1. /\ txn[w].pc = "reserved" /\ txn[w].key.intent = "StartAttempt"
        /\ UNCHANGED <<domain, clock>>
    BY DEF LockAttempt, LockOwnOperation, LockOwner, Executing
  <1>2. ASSUME NEW c, NEW n, Decide(w, c, n), c # "Accepted" PROVE TrailInv'
    BY <1>1, <1>2, DecideTrail
  <1>3. ASSUME NEW s, Acquire(w, s) PROVE TrailInv'
    BY <1>1, <1>3, AcquireTrail
  <1>4. CASE LockAttempt(w) \/ LockOwnOperation(w)
    BY <1>2, <1>3, <1>4 DEF LockAttempt, LockOwnOperation
  <1>5. CASE LockOwner(w)
    <2>1. PICK a \in Claimed(w), o \in OwnOperation(w) :
             LET code == StartGuard(a, o, requests[o.request], run[w].now)
             IN  Decide(w, code, IF code = "Running" THEN txn[w].body + 1 ELSE 0)
      BY <1>5 DEF LockOwner
    <2>2. QED
      BY <1>2, <2>1, GuardCodes
  <1>6. QED
    BY <1>4, <1>5

-----------------------------------------------------------------------------
(* Commits.                                                                *)

(* A session that decided an execution publishes one completed row.        *)
LEMMA DecidedRow ==
    ASSUME P!IInv, NEW w \in Workers, NEW code, Deciding(w, code)
    PROVE  \E o : /\ txn[w].own = {o}
                  /\ o.key = txn[w].key /\ o.body = txn[w].body
                  /\ o.command = txn[w].id /\ o.status = "Completed"
                  /\ o.snapshot = txn[w].outcome.snapshot /\ o.snapshot.code = code
  <1>1. PICK o \in txn[w].own : TRUE
    BY DEF Deciding, P!IInv, P!Outcomes, P!RestsOn
  <1>2. \A x \in txn[w].own : x = o
    BY <1>1 DEF P!IInv, P!Exclusive, P!OwnUnique
  <1>3. o.key = txn[w].key /\ o.snapshot = txn[w].outcome.snapshot /\ o.snapshot.code = code
    BY <1>1, OwnRecord DEF Deciding
  <1>4. o.body = txn[w].body /\ o.command = txn[w].id /\ o.status = "Completed"
    BY <1>1 DEF Deciding, P!IInv, P!Calls
  <1>5. QED
    BY <1>1, <1>2, <1>3, <1>4

(* What a commit adds to the committed records of a code.                  *)
LEMMA RecordedGrows ==
    ASSUME NEW o, rows' = rows \cup {o}, o.status = "Completed", NEW code
    PROVE  /\ o.snapshot.code = code => Recorded(code)' = Recorded(code) \cup {o}
           /\ o.snapshot.code # code => Recorded(code)' = Recorded(code)
  BY DEF Recorded

(* Another session's request is not the one this step writes.              *)
LEMMA OthersVersions ==
    ASSUME IInv, TrailInv, NEW w \in Workers, Only(w), VersionHeld(w)',
           \A v \in Workers \ {w} :
               HoldsRequest(v) => requests'[Target(v)] = requests[Target(v)]
    PROVE  VersionsHeld'
  <1>1. ASSUME NEW v \in Workers \ {w} PROVE VersionHeld(v)'
    BY VersionKept DEF Only, IInv, Sessions, TrailInv, VersionsHeld
  <1>2. QED
    BY <1>1 DEF VersionsHeld

(* A request a session holds is in the table.                              *)
LEMMA HeldRequest ==
    ASSUME IInv, NEW v \in Workers, HoldsRequest(v)
    PROVE  Target(v) \in Requests
  <1>1. run[v].locks \subseteq Locks
    BY DEF IInv, Typed, Run
  <1>2. QED
    BY <1>1 DEF HoldsRequest, Locks

LEMMA QuietCommitTrail ==
    ASSUME IInv, TrailInv, NEW w \in Workers, Commit(w), UNCHANGED domain,
           ~Deciding(w, "Running"), ~Deciding(w, "Accepted")
    PROVE  TrailInv'
  <1>1. /\ txn[w].pc = "decided" /\ txn'[w].pc = "answering" /\ Only(w)
        /\ rows' = rows \cup txn[w].own /\ clock' = clock
    BY CommitEffect DEF IInv
  <1>2. \A o \in txn[w].own : o.snapshot.code \notin {"Running", "Accepted"}
    BY <1>1, OwnRecord DEF IInv, Deciding
  <1>3. Recorded("Running")' = Recorded("Running")
    BY <1>1, <1>2 DEF Recorded
  <1>4. Recorded("Accepted")' = Recorded("Accepted")
    BY <1>1, <1>2 DEF Recorded
  <1>5. VersionHeld(w)'
    BY <1>1 DEF VersionHeld, Executing, Deciding
  <1>6. VersionsHeld'
    BY <1>1, <1>5, OthersVersions DEF domain
  <1>7. clock' <= MaxClock
    BY <1>1 DEF TrailInv
  <1>8. QED
    BY <1>1, <1>3, <1>4, <1>6, <1>7, QuietTrail

(* Start AI's commit: the request's next version, a new operation with its *)
(* attempt, and the two events.                                            *)
LEMMA CreateTrail ==
    ASSUME IInv, TrailInv, NEW w \in Workers, Commit(w), CreateWork(w),
           Deciding(w, "Accepted")
    PROVE  TrailInv'
  <1>1. /\ txn[w].pc = "decided" /\ txn'[w].pc = "answering" /\ Only(w)
        /\ rows' = rows \cup txn[w].own /\ clock' = clock
    BY CommitEffect DEF IInv
  <1>2. /\ Open_(w) /\ txn[w].key.intent = "StartAi" /\ HoldsRequest(w) /\ VersionHeld(w)
    BY <1>1 DEF IInv, Sessions, Session, Open_, TrailInv, VersionsHeld
  <1>3. PICK id : id = txn[w].id
    OBVIOUS
  <1>4. PICK r : r = Target(w)
    OBVIOUS
  <1>5. PICK k : k = txn[w].body
    OBVIOUS
  <1>6. id \in Ids /\ r \in Requests /\ k \in Nat
    BY <1>2, <1>3, <1>4, <1>5, OpenCall, CommandFields, MaxTxAssumption
       DEF IInv, Target, Versions
  <1>7. requests[r] \in RequestRow /\ requests[r].version = k
        /\ requests[r].status = "TriagePending"
    BY <1>2, <1>4, <1>5 DEF VersionHeld, HoldsRequest
  <1>8. PICK o : /\ txn[w].own = {o} /\ o.command = id /\ o.status = "Completed"
                 /\ o.snapshot.code = "Accepted"
    BY <1>3, DecidedRow DEF IInv
  <1>9. PICK q : q = [requests[r] EXCEPT !.version = k + 1]
    OBVIOUS
  <1>10. q \in RequestRow /\ q.version = k + 1 /\ q.status = "TriagePending"
    BY <1>6, <1>7, <1>9 DEF RequestRow
  <1>11. PICK op : op = [id |-> id, request |-> r, config |-> run[w].config,
                         succeeded |-> None]
    OBVIOUS
  <1>12. PICK at : at = [id |-> id, operation |-> id, state |-> "Pending", version |-> 1,
                         service |-> txn[w].key.machine,
                         deadline |-> run[w].now + Window, started |-> None]
    OBVIOUS
  <1>13. PICK re : re = [aggregate |-> <<"request", r>>, version |-> k + 1, command |-> id]
    OBVIOUS
  <1>14. PICK ae : ae = [aggregate |-> <<"attempt", id>>, version |-> 1, command |-> id]
    OBVIOUS
  <1>15. /\ operations' = operations \cup {op}
         /\ attempts' = attempts \cup {at}
         /\ audits' = (audits \cup {re}) \cup {ae}
         /\ outbox' = outbox \cup {ae}
    BY <1>3, <1>4, <1>5, <1>11, <1>12, <1>13, <1>14 DEF CreateWork
  <1>16. requests \in [Requests -> RequestRow \cup {None}]
    BY DEF IInv, Typed
  <1>17. requests'[r] = q /\ \A s \in Requests \ {r} : requests'[s] = requests[s]
    BY <1>4, <1>5, <1>6, <1>9, <1>16 DEF CreateWork
  <1>18. \A s \in Requests : requests[s] \in RequestRow => requests'[s] \in RequestRow
    BY <1>10, <1>17
  <1>19. /\ op.id = id /\ op.request = r /\ op.succeeded = None
         /\ at.id = id /\ at.operation = id /\ at.state = "Pending" /\ at.version = 1
    BY <1>11, <1>12
  <1>20. /\ re.aggregate = <<"request", r>> /\ re.version = k + 1 /\ re.command = id
         /\ ae.aggregate = <<"attempt", id>> /\ ae.version = 1 /\ ae.command = id
    BY <1>13, <1>14
  <1>21. \A a \in attempts : a.id # id
    BY <1>2, <1>3 DEF IInv, AttemptIds
  <1>22. \A p \in operations : p.id # id
    BY <1>21 DEF TrailInv, RowsLinked
  <1>23. \A e \in audits : e.aggregate # <<"attempt", id>>
    BY <1>21 DEF TrailInv, EventsOwned
  <1>24. \A c : /\ c = "Accepted" => Recorded(c)' = Recorded(c) \cup {o}
                /\ c # "Accepted" => Recorded(c)' = Recorded(c)
    BY <1>1, <1>8 DEF Recorded
  <1>25. clock' <= MaxClock
    BY <1>1 DEF TrailInv
  <1>26. VersionsHeld'
    <2>1. VersionHeld(w)'
      BY <1>1 DEF VersionHeld, Executing, Deciding
    <2>2. ASSUME NEW v \in Workers \ {w}, HoldsRequest(v)
          PROVE  requests'[Target(v)] = requests[Target(v)]
      <3>1. Target(v) # r
        BY <1>2, <1>4, <2>2 DEF HoldsRequest, IInv, LocksExclusive
      <3>2. Target(v) \in Requests
        BY <2>2, HeldRequest
      <3>3. QED
        BY <1>17, <3>1, <3>2
    <2>3. QED
      BY <1>1, <2>1, <2>2, OthersVersions
  <1>27. VersionsCounted'
    <2>1. IdsFor(r)' = IdsFor(r) \cup {id}
      BY <1>15, <1>19 DEF IdsFor
    <2>2. id \notin IdsFor(r)
      BY <1>22 DEF IdsFor
    <2>3. IsFiniteSet(IdsFor(r)) /\ Cardinality(IdsFor(r)) \in Nat
      BY IdsFinite, FS_CardinalityType
    <2>4. Cardinality(IdsFor(r)') = Cardinality(IdsFor(r)) + 1
      BY <2>1, <2>2, <2>3, FS_AddElement
    <2>5. k = Cardinality(IdsFor(r)) + 1
      BY <1>6, <1>7 DEF TrailInv, VersionsCounted
    <2>6. requests'[r].version = Cardinality(IdsFor(r)') + 1
          /\ requests'[r].status = "TriagePending"
      BY <1>10, <1>17, <2>3, <2>4, <2>5
    <2>7. ASSUME NEW s \in Requests \ {r} PROVE IdsFor(s)' = IdsFor(s)
      BY <1>15, <1>19 DEF IdsFor
    <2>8. ASSUME NEW s \in Requests, requests'[s] \in RequestRow
          PROVE  requests'[s].version = Cardinality(IdsFor(s)')
                    + (IF requests'[s].status = "TriagePending" THEN 1 ELSE 2)
      <3>1. CASE s = r
        BY <2>6, <3>1
      <3>2. CASE s # r
        BY <1>17, <2>7, <2>8, <3>2 DEF TrailInv, VersionsCounted
      <3>3. QED
        BY <3>1, <3>2
    <2>9. QED
      BY <2>8 DEF VersionsCounted
  <1>28. VersionsOfStates'
    BY <1>15, <1>19 DEF TrailInv, VersionsOfStates, StateVersion
  <1>29. RowsLinked'
    <2>1. \A p \in operations' : requests'[p.request] \in RequestRow
      <3>1. \A p \in operations : p.request \in Requests
        BY DEF IInv, Typed, Operation
      <3>2. QED
        BY <1>10, <1>15, <1>17, <1>18, <1>19, <3>1 DEF TrailInv, RowsLinked
    <2>2. {p.id : p \in operations'} = {a.id : a \in attempts'}
      <3>1. {p.id : p \in operations'} = {p.id : p \in operations} \cup {id}
        BY <1>15, <1>19
      <3>2. {a.id : a \in attempts'} = {a.id : a \in attempts} \cup {id}
        BY <1>15, <1>19
      <3>3. QED
        BY <3>1, <3>2 DEF TrailInv, RowsLinked
    <2>3. \A a \in attempts' : a.operation = a.id
      BY <1>15, <1>19 DEF TrailInv, RowsLinked
    <2>4. \A p \in operations' : p.succeeded # None =>
             \E a \in attempts' : /\ a.id = p.succeeded /\ a.operation = p.id
                                  /\ a.state = "Succeeded"
      BY <1>15, <1>19 DEF TrailInv, RowsLinked
    <2>5. QED
      BY <2>1, <2>2, <2>3, <2>4 DEF RowsLinked
  <1>30. CreationsWitnessed'
    <2>1. {s.command : s \in Recorded("Accepted")'}
             = {s.command : s \in Recorded("Accepted")} \cup {id}
      BY <1>8, <1>24
    <2>2. {p.id : p \in operations'} = {p.id : p \in operations} \cup {id}
      BY <1>15, <1>19
    <2>3. QED
      BY <2>1, <2>2 DEF TrailInv, CreationsWitnessed
  <1>31. StartsWitnessed'
    BY <1>15, <1>24 DEF TrailInv, StartsWitnessed
  <1>32. EventsWitnessed'
    <2>1. o \in rows' /\ rows \subseteq rows'
      BY <1>1, <1>8
    <2>2. QED
      BY <1>8, <1>15, <1>20, <2>1 DEF TrailInv, EventsWitnessed
  <1>33. EventsOwned'
    <2>1. re \in EventRow /\ ae \in EventRow
      BY <1>6, <1>13, <1>14 DEF EventRow
    <2>2. audits' \subseteq EventRow
      BY <1>15, <2>1 DEF TrailInv, EventsOwned
    <2>3. ASSUME NEW e \in audits', e.aggregate[1] = "request"
          PROVE  requests'[e.aggregate[2]] \in RequestRow
      <3>1. CASE e \in audits
        <4>1. e.aggregate[2] \in Requests
          BY <2>3, <3>1 DEF TrailInv, EventsOwned, EventRow
        <4>2. QED
          BY <1>18, <2>3, <3>1, <4>1 DEF TrailInv, EventsOwned
      <3>2. CASE e = re
        BY <1>10, <1>17, <1>20, <3>2
      <3>3. CASE e = ae
        BY <1>20, <2>3, <3>3
      <3>4. QED
        BY <1>15, <3>1, <3>2, <3>3
    <2>4. ASSUME NEW e \in audits', e.aggregate[1] = "attempt"
          PROVE  \E a \in attempts' : a.id = e.aggregate[2]
      <3>1. CASE e \in audits
        BY <1>15, <2>4, <3>1 DEF TrailInv, EventsOwned
      <3>2. CASE e = re
        BY <1>20, <2>4, <3>2
      <3>3. CASE e = ae
        BY <1>15, <1>19, <1>20, <3>3
      <3>4. QED
        BY <1>15, <3>1, <3>2, <3>3
    <2>5. QED
      BY <2>2, <2>3, <2>4 DEF EventsOwned
  <1>34. \A s : EventsOf(<<"request", s>>, audits')
                   = EventsOf(<<"request", s>>, audits) \cup {e \in {re} : s = r}
    BY <1>15, <1>20 DEF EventsOf
  <1>35. \A i : EventsOf(<<"attempt", i>>, audits')
                   = EventsOf(<<"attempt", i>>, audits) \cup {e \in {ae} : i = id}
    BY <1>15, <1>20 DEF EventsOf
  <1>36. RequestTrails'
    <2>1. OnePerVersion(EventsOf(<<"request", r>>, audits'), 2..(k + 1))
      <3>1. OnePerVersion(EventsOf(<<"request", r>>, audits), 2..k)
        BY <1>6, <1>7 DEF TrailInv, RequestTrails
      <3>2. k >= 1
        BY <1>2, <1>5, OpenCall, MaxTxAssumption DEF IInv, Versions
      <3>3. EventsOf(<<"request", r>>, audits') = EventsOf(<<"request", r>>, audits) \cup {re}
        BY <1>34
      <3>4. QED
        BY <1>6, <1>20, <3>1, <3>2, <3>3, TrailGrows
    <2>2. ASSUME NEW s \in Requests, requests'[s] \in RequestRow
          PROVE  OnePerVersion(EventsOf(<<"request", s>>, audits'), 2..requests'[s].version)
      <3>1. CASE s = r
        BY <1>10, <1>17, <2>1, <3>1
      <3>2. CASE s # r
        <4>1. EventsOf(<<"request", s>>, audits') = EventsOf(<<"request", s>>, audits)
          BY <1>34, <3>2
        <4>2. requests'[s] = requests[s]
          BY <1>17, <3>2
        <4>3. QED
          BY <2>2, <4>1, <4>2 DEF TrailInv, RequestTrails
      <3>3. QED
        BY <3>1, <3>2
    <2>3. QED
      BY <2>2 DEF RequestTrails
  <1>37. AttemptTrails'
    <2>1. OnePerVersion(EventsOf(<<"attempt", id>>, audits'), 1..1)
      <3>1. EventsOf(<<"attempt", id>>, audits') = {ae}
        BY <1>23, <1>35 DEF EventsOf
      <3>2. 1..1 = {1}
        OBVIOUS
      <3>3. QED
        BY <1>20, <3>1, <3>2 DEF OnePerVersion
    <2>2. ASSUME NEW a \in attempts'
          PROVE  OnePerVersion(EventsOf(<<"attempt", a.id>>, audits'), 1..a.version)
      <3>1. CASE a = at
        BY <1>19, <2>1, <3>1
      <3>2. CASE a \in attempts
        <4>1. EventsOf(<<"attempt", a.id>>, audits') = EventsOf(<<"attempt", a.id>>, audits)
          BY <1>21, <1>35, <3>2
        <4>2. QED
          BY <3>2, <4>1 DEF TrailInv, AttemptTrails
      <3>3. QED
        BY <1>15, <3>1, <3>2
    <2>3. QED
      BY <2>2 DEF AttemptTrails
  <1>38. OutboxCarries'
    <2>1. re.aggregate[1] = "request" /\ ae.aggregate[1] = "attempt"
      BY <1>20
    <2>2. QED
      BY <1>15, <2>1 DEF TrailInv, OutboxCarries
  <1>39. QED
    BY <1>25, <1>26, <1>27, <1>28, <1>29, <1>30, <1>31, <1>32, <1>33, <1>36, <1>37, <1>38
       DEF TrailInv

(* An attempt takes its next version, with the event of it.                *)
LEMMA AttemptMoves ==
    ASSUME IInv, TrailInv, NEW c \in attempts, NEW d, d.id = c.id,
           d.version = c.version + 1, attempts' = (attempts \ {c}) \cup {d},
           NEW e \in EventRow, e.aggregate = <<"attempt", c.id>>, e.version = c.version + 1,
           audits' = audits \cup {e}, outbox' = outbox \cup {e}, requests' = requests
    PROVE  EventsOwned' /\ RequestTrails' /\ AttemptTrails' /\ OutboxCarries'
  <1>1. e.aggregate[1] = "attempt" /\ e.aggregate[2] = c.id
    OBVIOUS
  <1>2. EventsOwned'
    <2>1. \A x \in audits : x.aggregate[1] = "attempt" =>
             \E a \in attempts' : a.id = x.aggregate[2]
      BY DEF TrailInv, EventsOwned
    <2>2. \E a \in attempts' : a.id = e.aggregate[2]
      BY <1>1
    <2>3. QED
      BY <1>1, <2>1, <2>2 DEF TrailInv, EventsOwned
  <1>3. RequestTrails'
    <2>1. ASSUME NEW r \in Requests, requests[r] \in RequestRow
          PROVE  OnePerVersion(EventsOf(<<"request", r>>, audits'), 2..requests[r].version)
      <3>1. EventsOf(<<"request", r>>, audits') = EventsOf(<<"request", r>>, audits)
        BY EventsAdded
      <3>2. QED
        BY <2>1, <3>1 DEF TrailInv, RequestTrails
    <2>2. QED
      BY <2>1 DEF RequestTrails
  <1>4. c.version \in Nat /\ \A a \in attempts : a # c => a.id # c.id
    BY DEF IInv, AttemptIds, Typed, AttemptRow
  <1>5. AttemptTrails'
    <2>1. OnePerVersion(EventsOf(<<"attempt", c.id>>, audits'), 1..(c.version + 1))
      <3>1. OnePerVersion(EventsOf(<<"attempt", c.id>>, audits), 1..c.version)
        BY DEF TrailInv, AttemptTrails
      <3>2. EventsOf(<<"attempt", c.id>>, audits')
               = EventsOf(<<"attempt", c.id>>, audits) \cup {e}
        BY EventsAdded
      <3>3. c.version \in Int /\ 1 \in Int /\ 1 <= c.version + 1
        BY <1>4
      <3>4. OnePerVersion(EventsOf(<<"attempt", c.id>>, audits) \cup {e}, 1..(c.version + 1))
        BY <3>1, <3>3, TrailGrows
      <3>5. QED
        BY <3>2, <3>4
    <2>2. ASSUME NEW a \in attempts, a # c
          PROVE  OnePerVersion(EventsOf(<<"attempt", a.id>>, audits'), 1..a.version)
      <3>1. EventsOf(<<"attempt", a.id>>, audits') = EventsOf(<<"attempt", a.id>>, audits)
        BY <1>4, <2>2, EventsAdded
      <3>2. QED
        BY <3>1 DEF TrailInv, AttemptTrails
    <2>3. QED
      BY <2>1, <2>2 DEF AttemptTrails
  <1>6. OutboxCarries'
    BY <1>1 DEF TrailInv, OutboxCarries
  <1>7. QED
    BY <1>2, <1>3, <1>5, <1>6

(* Attempt start's commit: the claimed attempt's second version.           *)
LEMMA StartTrail ==
    ASSUME IInv, TrailInv, NEW w \in Workers, Commit(w), StartWork(w),
           Deciding(w, "Running")
    PROVE  TrailInv'
  <1>1. /\ txn[w].pc = "decided" /\ txn'[w].pc = "answering" /\ Only(w)
        /\ rows' = rows \cup txn[w].own /\ clock' = clock
    BY CommitEffect DEF IInv
  <1>2. /\ Open_(w) /\ txn[w].key.intent = "StartAttempt" /\ HoldsClaim(w)
        /\ \A a \in Claimed(w) : a.state = "Pending"
    BY <1>1 DEF IInv, Sessions, Session, Open_
  <1>3. PICK c \in Claimed(w) : c.version = txn[w].body
    BY <1>2 DEF HoldsClaim
  <1>4. /\ c \in attempts /\ c \in AttemptRow /\ c.id = Target(w) /\ c.state = "Pending"
        /\ \A a \in attempts : a.id = c.id => a = c
    BY <1>2 DEF Claimed, IInv, AttemptIds, Typed
  <1>5. PICK d : d = [c EXCEPT !.state = "Running", !.version = c.version + 1,
                               !.started = run[w].now]
    OBVIOUS
  <1>6. /\ d.id = c.id /\ d.operation = c.operation /\ d.state = "Running"
        /\ d.version = c.version + 1
    BY <1>4, <1>5 DEF AttemptRow
  <1>7. PICK e : e = [aggregate |-> <<"attempt", c.id>>, version |-> c.version + 1,
                      command |-> txn[w].id]
    OBVIOUS
  <1>8. Claimed(w) = {c}
    BY <1>4 DEF Claimed
  <1>9. attempts' = (attempts \ {c}) \cup {d}
    <2>1. {a \in attempts : a.id # Target(w)} = attempts \ {c}
      BY <1>4
    <2>2. QED
      BY <1>3, <1>5, <1>8, <2>1 DEF StartWork
  <1>10. audits' = audits \cup {e} /\ outbox' = outbox \cup {e}
         /\ requests' = requests /\ operations' = operations
    BY <1>3, <1>4, <1>7 DEF StartWork
  <1>11. c.version = 1
    BY <1>4 DEF TrailInv, VersionsOfStates, StateVersion
  <1>12. txn[w].id \in Ids /\ c.id \in Ids
    BY <1>2, <1>4, OpenCall DEF IInv, AttemptRow
  <1>13. /\ e \in EventRow /\ e.aggregate = <<"attempt", c.id>>
         /\ e.version = c.version + 1 /\ e.command = txn[w].id
    BY <1>7, <1>11, <1>12 DEF EventRow
  <1>14. EventsOwned' /\ RequestTrails' /\ AttemptTrails' /\ OutboxCarries'
    BY <1>4, <1>6, <1>9, <1>10, <1>13, AttemptMoves
  <1>15. PICK o : /\ txn[w].own = {o} /\ o.key = txn[w].key /\ o.body = txn[w].body
                  /\ o.command = txn[w].id /\ o.status = "Completed"
                  /\ o.snapshot.code = "Running"
    BY DecidedRow DEF IInv
  <1>16. /\ Recorded("Running")' = Recorded("Running") \cup {o}
         /\ Recorded("Accepted")' = Recorded("Accepted")
    BY <1>1, <1>15 DEF Recorded
  <1>17. clock' <= MaxClock
    BY <1>1 DEF TrailInv
  <1>18. VersionsHeld'
    <2>1. VersionHeld(w)'
      BY <1>1 DEF VersionHeld, Executing, Deciding
    <2>2. QED
      BY <1>1, <1>10, <2>1, OthersVersions
  <1>19. VersionsCounted'
    BY <1>10 DEF TrailInv, VersionsCounted, IdsFor
  <1>20. VersionsOfStates'
    BY <1>6, <1>9, <1>11 DEF TrailInv, VersionsOfStates, StateVersion
  <1>21. RowsLinked'
    <2>1. {a.id : a \in attempts'} = {a.id : a \in attempts}
      BY <1>4, <1>6, <1>9
    <2>2. \A a \in attempts' : a.operation = a.id
      BY <1>4, <1>6, <1>9 DEF TrailInv, RowsLinked
    <2>3. \A a \in attempts : a.state = "Succeeded" => a \in attempts'
      BY <1>4, <1>9
    <2>4. QED
      BY <1>10, <2>1, <2>2, <2>3 DEF TrailInv, RowsLinked
  <1>22. CreationsWitnessed'
    BY <1>10, <1>16 DEF TrailInv, CreationsWitnessed
  <1>23. StartsWitnessed'
    <2>1. /\ e \in audits' /\ e.command = o.command
          /\ e.aggregate = <<"attempt", o.key.target>> /\ e.version = o.body + 1
      BY <1>3, <1>4, <1>10, <1>13, <1>15 DEF Target
    <2>2. QED
      BY <1>10, <1>16, <2>1 DEF TrailInv, StartsWitnessed
  <1>24. EventsWitnessed'
    <2>1. o \in rows' /\ rows \subseteq rows'
      BY <1>1, <1>15
    <2>2. QED
      BY <1>10, <1>13, <1>15, <2>1 DEF TrailInv, EventsWitnessed
  <1>25. QED
    BY <1>14, <1>17, <1>18, <1>19, <1>20, <1>21, <1>22, <1>23, <1>24 DEF TrailInv

LEMMA CommitTrail ==
    ASSUME IInv, TrailInv, NEW w \in Workers, Commit(w)
    PROVE  TrailInv'
  <1>1. txn[w].pc = "decided"
    BY CommitEffect DEF IInv
  <1>2. CASE Deciding(w, "Accepted")
    <2>1. CreateWork(w)
      BY <1>2 DEF Commit, Deciding
    <2>2. QED
      BY <1>2, <2>1, CreateTrail
  <1>3. CASE Deciding(w, "Running")
    <2>1. StartWork(w)
      BY <1>3 DEF Commit, Deciding
    <2>2. QED
      BY <1>3, <2>1, StartTrail
  <1>4. CASE ~Deciding(w, "Running") /\ ~Deciding(w, "Accepted")
    <2>1. UNCHANGED domain
      BY <1>1, <1>4 DEF Commit, Deciding
    <2>2. QED
      BY <1>4, <2>1, QuietCommitTrail
  <1>5. QED
    BY <1>2, <1>3, <1>4

-----------------------------------------------------------------------------
(* The external steps.                                                     *)

LEMMA TickTrail ==
    ASSUME IInv, TrailInv, Tick
    PROVE  TrailInv'
  <1>1. clock \in Nat /\ clock' = clock + 1 /\ clock < MaxClock /\ MaxClock \in Nat
    BY ClockAssumption DEF Tick, IInv, Typed
  <1>2. UNCHANGED <<rows, txn, requests, run>> /\ UNCHANGED domain
    BY DEF Tick, idemVars, domain
  <1>3. VersionsHeld'
    <2>1. ASSUME NEW v \in Workers PROVE VersionHeld(v)'
      BY <1>2, VersionKept DEF IInv, Sessions, TrailInv, VersionsHeld
    <2>2. QED
      BY <2>1 DEF VersionsHeld
  <1>4. clock' <= MaxClock
    BY <1>1
  <1>5. Recorded("Accepted")' = Recorded("Accepted") /\ Recorded("Running")' = Recorded("Running")
    BY <1>2 DEF Recorded
  <1>6. QED
    BY <1>2, <1>3, <1>4, <1>5, QuietTrail

LEMMA LeaveTriageTrail ==
    ASSUME IInv, TrailInv, NEW r \in Requests, LeaveTriage(r)
    PROVE  TrailInv'
  <1>1. requests[r] \in RequestRow /\ requests \in [Requests -> RequestRow \cup {None}]
        /\ requests[r].status = "TriagePending"
    BY DEF LeaveTriage, IInv, Typed
  <1>2. PICK k : k = requests[r].version
    OBVIOUS
  <1>3. PICK q : q = [version |-> k + 1, status |-> "ReadyForAction"]
    OBVIOUS
  <1>4. k \in Nat /\ q \in RequestRow /\ q.version = k + 1 /\ q.status = "ReadyForAction"
    BY <1>1, <1>2, <1>3 DEF RequestRow
  <1>5. PICK e : e = [aggregate |-> <<"request", r>>, version |-> k + 1, command |-> 0]
    OBVIOUS
  <1>6. e.aggregate = <<"request", r>> /\ e.version = k + 1 /\ e.command = 0 /\ e \in EventRow
    BY <1>4, <1>5 DEF EventRow
  <1>7. /\ requests'[r] = q /\ \A s \in Requests \ {r} : requests'[s] = requests[s]
        /\ audits' = audits \cup {e}
    BY <1>1, <1>2, <1>3, <1>5 DEF LeaveTriage
  <1>8. UNCHANGED <<rows, txn, operations, attempts, outbox, clock, run>>
    BY DEF LeaveTriage, idemVars
  <1>9. \A s \in Requests : requests[s] \in RequestRow => requests'[s] \in RequestRow
    BY <1>4, <1>7
  <1>10. VersionsHeld'
    <2>1. ASSUME NEW v \in Workers PROVE VersionHeld(v)'
      <3>1. ASSUME HoldsRequest(v) PROVE requests'[Target(v)] = requests[Target(v)]
        <4>1. Target(v) # r
          BY <3>1 DEF HoldsRequest, LeaveTriage, Unlocked
        <4>2. Target(v) \in Requests
          BY <3>1, HeldRequest
        <4>3. QED
          BY <1>7, <4>1, <4>2
      <3>2. QED
        BY <1>8, <3>1, VersionKept DEF IInv, Sessions, TrailInv, VersionsHeld
    <2>2. QED
      BY <2>1 DEF VersionsHeld
  <1>11. VersionsCounted'
    <2>1. \A s : IdsFor(s)' = IdsFor(s)
      BY <1>8 DEF IdsFor
    <2>2. k = Cardinality(IdsFor(r)) + 1
      BY <1>1, <1>2 DEF TrailInv, VersionsCounted
    <2>3. Cardinality(IdsFor(r)) \in Nat
      BY IdsFinite, FS_CardinalityType
    <2>4. q.version = Cardinality(IdsFor(r)) + 2 /\ q.status # "TriagePending"
      BY <1>4, <2>2, <2>3
    <2>5. ASSUME NEW s \in Requests, requests'[s] \in RequestRow
          PROVE  requests'[s].version = Cardinality(IdsFor(s)')
                    + (IF requests'[s].status = "TriagePending" THEN 1 ELSE 2)
      <3>1. CASE s = r
        BY <1>7, <2>1, <2>4, <3>1
      <3>2. CASE s # r
        BY <1>7, <2>1, <2>5, <3>2 DEF TrailInv, VersionsCounted
      <3>3. QED
        BY <3>1, <3>2
    <2>6. QED
      BY <2>5 DEF VersionsCounted
  <1>12. VersionsOfStates'
    BY <1>8 DEF TrailInv, VersionsOfStates
  <1>13. RowsLinked'
    <2>1. \A p \in operations : p.request \in Requests
      BY DEF IInv, Typed, Operation
    <2>2. QED
      BY <1>8, <1>9, <2>1 DEF TrailInv, RowsLinked
  <1>14. CreationsWitnessed' /\ StartsWitnessed' /\ EventsWitnessed'
    BY <1>6, <1>7, <1>8
       DEF TrailInv, CreationsWitnessed, StartsWitnessed, EventsWitnessed, Recorded
  <1>15. e.aggregate[1] = "request" /\ e.aggregate[2] = r
    BY <1>6
  <1>16. EventsOwned'
    <2>1. \A x \in audits : x.aggregate[1] = "request" => x.aggregate[2] \in Requests
      BY DEF TrailInv, EventsOwned, EventRow
    <2>2. QED
      BY <1>4, <1>6, <1>7, <1>8, <1>9, <1>15, <2>1 DEF TrailInv, EventsOwned
  <1>17. RequestTrails'
    <2>1. OnePerVersion(EventsOf(<<"request", r>>, audits'), 2..(k + 1))
      <3>1. OnePerVersion(EventsOf(<<"request", r>>, audits), 2..k)
        BY <1>1, <1>2 DEF TrailInv, RequestTrails
      <3>2. EventsOf(<<"request", r>>, audits') = EventsOf(<<"request", r>>, audits) \cup {e}
        BY <1>6, <1>7, EventsAdded
      <3>3. k >= 1
        <4>1. k = Cardinality(IdsFor(r)) + 1 /\ Cardinality(IdsFor(r)) \in Nat
          BY <1>1, <1>2, IdsFinite, FS_CardinalityType DEF TrailInv, VersionsCounted
        <4>2. QED
          BY <4>1
      <3>4. QED
        BY <1>4, <1>6, <3>1, <3>2, <3>3, TrailGrows
    <2>2. ASSUME NEW s \in Requests, requests'[s] \in RequestRow
          PROVE  OnePerVersion(EventsOf(<<"request", s>>, audits'), 2..requests'[s].version)
      <3>1. CASE s = r
        BY <1>4, <1>7, <2>1, <3>1
      <3>2. CASE s # r
        <4>1. EventsOf(<<"request", s>>, audits') = EventsOf(<<"request", s>>, audits)
          BY <1>6, <1>7, <3>2, EventsAdded
        <4>2. QED
          BY <1>7, <2>2, <3>2, <4>1 DEF TrailInv, RequestTrails
      <3>3. QED
        BY <3>1, <3>2
    <2>3. QED
      BY <2>2 DEF RequestTrails
  <1>18. AttemptTrails'
    <2>1. \A i : EventsOf(<<"attempt", i>>, audits') = EventsOf(<<"attempt", i>>, audits)
      BY <1>6, <1>7, EventsAdded
    <2>2. QED
      BY <1>8, <2>1 DEF TrailInv, AttemptTrails
  <1>19. OutboxCarries'
    BY <1>7, <1>8, <1>15 DEF TrailInv, OutboxCarries
  <1>20. clock' <= MaxClock
    BY <1>8 DEF TrailInv
  <1>21. QED
    BY <1>10, <1>11, <1>12, <1>13, <1>14, <1>16, <1>17, <1>18, <1>19, <1>20 DEF TrailInv

LEMMA ConcludeTrail ==
    ASSUME IInv, TrailInv, NEW c \in attempts,
           NEW s \in {"Succeeded", "TerminalFailure"}, Conclude(c, s)
    PROVE  TrailInv'
  <1> DEFINE Marked(p) == IF p.id = c.operation /\ s = "Succeeded"
                          THEN [p EXCEPT !.succeeded = c.id] ELSE p
  <1>1. /\ c \in AttemptRow /\ c.state = "Running" /\ c.version = 2
        /\ \A a \in attempts : a.id = c.id => a = c
    BY DEF Conclude, IInv, Typed, AttemptIds, TrailInv, VersionsOfStates, StateVersion
  <1>2. PICK d : d = [c EXCEPT !.state = s, !.version = c.version + 1]
    OBVIOUS
  <1>3. /\ d.id = c.id /\ d.operation = c.operation /\ d.state = s
        /\ d.version = c.version + 1
    BY <1>1, <1>2 DEF AttemptRow
  <1>4. PICK e : e = [aggregate |-> <<"attempt", c.id>>, version |-> c.version + 1,
                      command |-> 0]
    OBVIOUS
  <1>5. /\ e \in EventRow /\ e.aggregate = <<"attempt", c.id>>
        /\ e.version = c.version + 1 /\ e.command = 0
    BY <1>1, <1>4 DEF EventRow, AttemptRow
  <1>6. /\ attempts' = (attempts \ {c}) \cup {d}
        /\ audits' = audits \cup {e} /\ outbox' = outbox \cup {e}
    BY <1>2, <1>4 DEF Conclude
  <1>7. UNCHANGED <<rows, txn, requests, clock, run>>
    BY DEF Conclude, idemVars
  <1>8. operations' = {Marked(p) : p \in operations}
    BY DEF Conclude
  <1>9. \A p \in operations : /\ Marked(p).id = p.id
                              /\ Marked(p).request = p.request
                              /\ Marked(p).succeeded =
                                    IF p.id = c.operation /\ s = "Succeeded"
                                    THEN c.id ELSE p.succeeded
    BY DEF IInv, Typed, Operation
  <1> HIDE DEF Marked
  <1>10. EventsOwned' /\ RequestTrails' /\ AttemptTrails' /\ OutboxCarries'
    BY <1>3, <1>5, <1>6, <1>7, AttemptMoves
  <1>11. clock' <= MaxClock
    BY <1>7 DEF TrailInv
  <1>12. VersionsHeld'
    <2>1. ASSUME NEW v \in Workers PROVE VersionHeld(v)'
      BY <1>7, VersionKept DEF IInv, Sessions, TrailInv, VersionsHeld
    <2>2. QED
      BY <2>1 DEF VersionsHeld
  <1>13. {p.id : p \in operations'} = {p.id : p \in operations}
    BY <1>8, <1>9
  <1>14. VersionsCounted'
    <2>1. \A r : IdsFor(r)' = IdsFor(r)
      BY <1>8, <1>9 DEF IdsFor
    <2>2. QED
      BY <1>7, <2>1 DEF TrailInv, VersionsCounted
  <1>15. VersionsOfStates'
    BY <1>1, <1>3, <1>6 DEF TrailInv, VersionsOfStates, StateVersion
  <1>16. RowsLinked'
    <2>1. {a.id : a \in attempts'} = {a.id : a \in attempts}
      BY <1>1, <1>3, <1>6
    <2>2. \A a \in attempts' : a.operation = a.id
      BY <1>3, <1>6 DEF TrailInv, RowsLinked
    <2>3. \A a \in attempts : a.state = "Succeeded" => a \in attempts'
      BY <1>1, <1>6
    <2>4. \A p \in operations' : requests'[p.request] \in RequestRow
      BY <1>7, <1>8, <1>9 DEF TrailInv, RowsLinked
    <2>5. ASSUME NEW p \in operations, Marked(p).succeeded # None
          PROVE  \E a \in attempts' : /\ a.id = Marked(p).succeeded
                                      /\ a.operation = Marked(p).id
                                      /\ a.state = "Succeeded"
      <3>1. CASE p.id = c.operation /\ s = "Succeeded"
        BY <1>3, <1>6, <1>9, <3>1
      <3>2. CASE ~(p.id = c.operation /\ s = "Succeeded")
        BY <1>9, <2>3, <2>5, <3>2 DEF TrailInv, RowsLinked
      <3>3. QED
        BY <3>1, <3>2
    <2>6. \A p \in operations' : p.succeeded # None =>
             \E a \in attempts' : /\ a.id = p.succeeded /\ a.operation = p.id
                                  /\ a.state = "Succeeded"
      BY <1>8, <2>5
    <2>7. QED
      BY <1>13, <2>1, <2>2, <2>4, <2>6 DEF TrailInv, RowsLinked
  <1>17. CreationsWitnessed' /\ StartsWitnessed' /\ EventsWitnessed'
    BY <1>5, <1>6, <1>7, <1>13
       DEF TrailInv, CreationsWitnessed, StartsWitnessed, EventsWitnessed, Recorded
  <1>18. QED
    BY <1>10, <1>11, <1>12, <1>14, <1>15, <1>16, <1>17 DEF TrailInv

-----------------------------------------------------------------------------
LEMMA RowIsPresent ==
    ASSUME NEW q \in RequestRow
    PROVE  q # None
  BY NoneAssumption DEF RequestRow

LEMMA TrailInit == Init => TrailInv
  <1> SUFFICES ASSUME Init PROVE TrailInv
    OBVIOUS
  <1>1. /\ operations = {} /\ attempts = {} /\ audits = {} /\ outbox = {} /\ clock = 0
        /\ rows = {} /\ \A w \in Workers : txn[w].pc = "idle"
    BY DEF Init, Idem!Init, Idem!NoTxn
  <1>2. ASSUME NEW r \in Requests, requests[r] \in RequestRow
        PROVE  requests[r].version = 1 /\ requests[r].status = "TriagePending"
    <2>1. requests[r] # None
      BY <1>2, RowIsPresent
    <2>2. QED
      BY <2>1 DEF Init
  <1>3. clock <= MaxClock
    BY <1>1, ClockAssumption
  <1>4. VersionsHeld
    BY <1>1 DEF VersionsHeld, VersionHeld, Executing, Deciding
  <1>5. VersionsCounted
    <2>1. \A r : IdsFor(r) = {}
      BY <1>1 DEF IdsFor
    <2>2. Cardinality({}) = 0
      BY FS_EmptySet
    <2>3. QED
      BY <1>2, <2>1, <2>2 DEF VersionsCounted
  <1>6. VersionsOfStates /\ RowsLinked
    BY <1>1 DEF VersionsOfStates, RowsLinked
  <1>7. CreationsWitnessed /\ StartsWitnessed /\ EventsWitnessed
    BY <1>1 DEF CreationsWitnessed, StartsWitnessed, EventsWitnessed, Recorded
  <1>8. EventsOwned /\ AttemptTrails /\ OutboxCarries
    BY <1>1 DEF EventsOwned, AttemptTrails, OutboxCarries
  <1>9. RequestTrails
    <2>1. \A r : EventsOf(<<"request", r>>, audits) = {}
      BY <1>1 DEF EventsOf
    <2>2. OnePerVersion({}, 2..1)
      BY DEF OnePerVersion
    <2>3. QED
      BY <1>2, <2>1, <2>2 DEF RequestTrails
  <1>10. QED
    BY <1>3, <1>4, <1>5, <1>6, <1>7, <1>8, <1>9 DEF TrailInv

LEMMA TrailNext == IInv /\ TrailInv /\ [Next]_vars => TrailInv'
  <1> SUFFICES ASSUME IInv, TrailInv, [Next]_vars PROVE TrailInv'
    OBVIOUS
  <1>1. CASE UNCHANGED vars
    <2>1. UNCHANGED <<rows, txn, requests, clock, run>> /\ UNCHANGED domain
      BY <1>1 DEF vars, domain
    <2>2. VersionsHeld'
      <3>1. ASSUME NEW v \in Workers PROVE VersionHeld(v)'
        BY <2>1, VersionKept DEF IInv, Sessions, TrailInv, VersionsHeld
      <3>2. QED
        BY <3>1 DEF VersionsHeld
    <2>3. /\ Recorded("Accepted")' = Recorded("Accepted")
          /\ Recorded("Running")' = Recorded("Running")
      BY <2>1 DEF Recorded
    <2>4. clock' <= MaxClock
      BY <2>1 DEF TrailInv
    <2>5. QED
      BY <2>1, <2>2, <2>3, <2>4, QuietTrail
  <1>2. ASSUME NEW w \in Workers, NEW k \in Commands, NEW b \in Expected, NEW c \in Configs,
               Open(w, k, b, c)
        PROVE  TrailInv'
    BY <1>2, OpenTrail
  <1>3. ASSUME NEW w \in Workers, Reserve(w) PROVE TrailInv'
    BY <1>3, ReserveTrail
  <1>4. ASSUME NEW w \in Workers, LockRequest(w) \/ LockOperation(w) \/ LockAttempts(w)
        PROVE  TrailInv'
    BY <1>4, StartAiTrail
  <1>5. ASSUME NEW w \in Workers, LockAttempt(w) \/ LockOwnOperation(w) \/ LockOwner(w)
        PROVE  TrailInv'
    BY <1>5, StartAttemptTrail
  <1>6. ASSUME NEW w \in Workers, Commit(w) PROVE TrailInv'
    BY <1>6, CommitTrail
  <1>7. ASSUME NEW w \in Workers, Raise(w) \/ Abort(w) \/ Deliver(w) \/ LoseResponse(w)
        PROVE  TrailInv'
    BY <1>7, LeaveTrail
  <1>8. CASE Tick
    BY <1>8, TickTrail
  <1>9. ASSUME NEW r \in Requests, LeaveTriage(r) PROVE TrailInv'
    BY <1>9, LeaveTriageTrail
  <1>10. ASSUME NEW a \in attempts, NEW s \in {"Succeeded", "TerminalFailure"},
                Conclude(a, s)
         PROVE  TrailInv'
    BY <1>10, ConcludeTrail
  <1>11. QED
    BY <1>1, <1>2, <1>3, <1>4, <1>5, <1>6, <1>7, <1>8, <1>9, <1>10
       DEF Next, Handle, DeadlockVictim, External

LEMMA TrailHolds == Spec => [](IInv /\ TrailInv)
  BY InitInv, NextInv, TrailInit, TrailNext, PTL DEF Spec

-----------------------------------------------------------------------------
(* Every table keeps the shape its constraints state, and no version and   *)
(* no event number exceeds what the commands can have written.             *)
THEOREM RowsAreTyped == Spec => []TypeOK
  <1>1. ASSUME IInv, TrailInv PROVE TypeOK
    <2>1. Idem!TypeOK
      BY <1>1 DEF IInv, P!IInv, P!TypeOK, Idem!TypeOK, P!Row, Idem!Row, P!Txn, Idem!Txn,
                  P!TxIds, Idem!TxIds, P!Answer, Idem!Answer, P!Statuses, Idem!Statuses,
                  P!Kinds, Idem!Kinds, P!Steps, Idem!Steps
    <2>2. requests \in [Requests -> Request \cup {None}]
      <3>1. \A r \in Requests : requests[r] \in RequestRow => requests[r] \in Request
        BY <1>1, VersionsBounded DEF TrailInv
      <3>2. QED
        BY <1>1, <3>1 DEF IInv, Typed
    <2>3. ASSUME NEW a \in attempts
          PROVE  a \in Attempt /\ a.version \in 1..3 /\ MaxTx \in Nat \ {0}
      <3>1. a \in AttemptRow /\ a.version = StateVersion[a.state]
        BY <1>1 DEF IInv, Typed, TrailInv, VersionsOfStates
      <3>2. a.version \in 1..3
        BY <3>1 DEF AttemptRow, States, StateVersion
      <3>3. a.id \in Ids
        BY <3>1 DEF AttemptRow
      <3>4. QED
        BY <3>1, <3>2, <3>3, MaxTxAssumption DEF AttemptRow, Attempt, Ids
    <2>4. attempts \subseteq Attempt
      BY <2>3
    <2>5. audits \subseteq Event
      <3>1. ASSUME NEW e \in audits PROVE e.version \in Versions
        <4>1. e \in EventRow
          BY <1>1 DEF TrailInv, EventsOwned
        <4>2. CASE e.aggregate[1] = "request"
          <5>1. PICK r \in Requests : e.aggregate = <<"request", r>>
            BY <4>1, <4>2 DEF EventRow
          <5>2. requests[r] \in RequestRow
            BY <1>1, <4>2, <5>1 DEF TrailInv, EventsOwned
          <5>3. requests[r].version \in Versions
            BY <1>1, <5>2, VersionsBounded DEF TrailInv
          <5>4. OnePerVersion(EventsOf(<<"request", r>>, audits), 2..requests[r].version)
            BY <1>1, <5>2 DEF TrailInv, RequestTrails
          <5>5. e \in EventsOf(<<"request", r>>, audits)
            BY <5>1 DEF EventsOf
          <5>6. e.version \in 2..requests[r].version
            BY <5>4, <5>5 DEF OnePerVersion
          <5>7. QED
            BY <5>3, <5>6, MaxTxAssumption DEF Versions
        <4>3. CASE e.aggregate[1] = "attempt"
          <5>1. PICK i \in Ids : e.aggregate = <<"attempt", i>>
            BY <4>1, <4>3 DEF EventRow
          <5>2. PICK a \in attempts : a.id = i
            BY <1>1, <4>3, <5>1 DEF TrailInv, EventsOwned
          <5>3. OnePerVersion(EventsOf(<<"attempt", i>>, audits), 1..a.version)
            BY <1>1, <5>2 DEF TrailInv, AttemptTrails
          <5>4. e \in EventsOf(<<"attempt", i>>, audits)
            BY <5>1 DEF EventsOf
          <5>5. e.version \in 1..a.version
            BY <5>3, <5>4 DEF OnePerVersion
          <5>6. QED
            BY <2>3, <5>5 DEF Versions
        <4>4. QED
          BY <4>1, <4>2, <4>3 DEF EventRow
      <3>2. QED
        BY <1>1, <3>1 DEF TrailInv, EventsOwned, EventRow, Event
    <2>6. outbox \subseteq Event
      BY <1>1, <2>5 DEF TrailInv, OutboxCarries
    <2>7. clock \in 0..MaxClock
      BY <1>1, ClockAssumption DEF IInv, Typed, TrailInv
    <2>8. QED
      BY <1>1, <2>1, <2>2, <2>4, <2>5, <2>6, <2>7 DEF TypeOK, IInv, Typed
  <1>2. QED
    BY <1>1, TrailHolds, PTL

(* A stored success and its rows commit together: the commands that        *)
(* recorded 202 own an operation with its attempt, those that recorded 200 *)
(* the event of their start, and every event of a command has its record.  *)
THEOREM EvidenceCommitsWithRecord == Spec => []EvidenceIsAtomic
  <1>1. TrailInv => EvidenceIsAtomic
    BY DEF TrailInv, RowsLinked, CreationsWitnessed, StartsWitnessed, EventsWitnessed,
           EvidenceIsAtomic
  <1>2. QED
    BY <1>1, TrailHolds, PTL

(* Each version of each request and attempt has exactly one audit event,   *)
(* and the outbox carries exactly the attempt events.                      *)
THEOREM TrailIsComplete == Spec => []AuditTrailComplete
  <1>1. ASSUME IInv, TrailInv PROVE AuditTrailComplete
    <2>1. \A r \in Requests : requests[r] # None => requests[r] \in RequestRow
      BY <1>1 DEF IInv, Typed
    <2>2. QED
      BY <1>1, <2>1
         DEF TrailInv, RequestTrails, AttemptTrails, OutboxCarries, AuditTrailComplete
  <1>2. QED
    BY <1>1, TrailHolds, PTL

(* The inconsistent rows both handlers answer with an internal error never *)
(* exist, whichever commands and external writers interleave.              *)
THEOREM RowsAreConsistent == Spec => []OperationGraph
  <1>1. ASSUME IInv, TrailInv PROVE OperationGraph
    <2>1. ASSUME NEW o \in operations
          PROVE  /\ {a.id : a \in AttemptsOf(o)} = {o.id}
                 /\ Cardinality(AttemptsOf(o)) = 1
                 /\ ExistingOperationGuard(o, AttemptsOf(o)) # None
                 /\ requests[o.request] # None
      <3>1. PICK a \in attempts : a.id = o.id
        BY <1>1 DEF TrailInv, RowsLinked
      <3>2. AttemptsOf(o) = {a}
        BY <1>1, <3>1 DEF TrailInv, RowsLinked, IInv, AttemptIds, AttemptsOf
      <3>3. Cardinality({a}) = 1
        BY FS_Singleton
      <3>4. requests[o.request] # None
        BY <1>1, RowIsPresent DEF TrailInv, RowsLinked
      <3>5. o.succeeded # None => o.succeeded = a.id /\ a.state = "Succeeded"
        BY <1>1, <3>2 DEF TrailInv, RowsLinked, AttemptsOf
      <3>6. /\ "ACTIVE_ATTEMPT_EXISTS" # None
            /\ "LOGICAL_OPERATION_ALREADY_SUCCEEDED" # None
            /\ "RETRY_NOT_ALLOWED" # None
        BY NoneAssumption DEF Codes
      <3>7. ExistingOperationGuard(o, {a}) # None
        BY <3>5, <3>6 DEF ExistingOperationGuard, Active
      <3>8. QED
        BY <3>1, <3>2, <3>3, <3>4, <3>7
    <2>2. QED
      BY <2>1 DEF OperationGraph
  <1>2. QED
    BY <1>1, TrailHolds, PTL

-----------------------------------------------------------------------------
(* What clients are told.                                                  *)

Publishing == {"Accepted", "Running"}

(* A session about to succeed reports the version its command will write.  *)
ReportsNext(w) == \A c \in Publishing :
    Deciding(w, c) => txn[w].outcome.snapshot.version = txn[w].body + 1

RecordsReport ==
    \A c \in Publishing : \A r \in Recorded(c) : r.snapshot.version = r.body + 1

(* A recorded 202 is of the request in its key and wrote that version.     *)
CreationsOwned ==
    \A r \in Recorded("Accepted") :
        /\ \E o \in operations : o.id = r.command /\ o.request = r.key.target
        /\ \E e \in audits : /\ e.aggregate = <<"request", r.key.target>>
                             /\ e.version = r.body + 1
                             /\ e.command = r.command

ToldInv == /\ \A w \in Workers : ReportsNext(w)
           /\ RecordsReport
           /\ CreationsOwned

(* Operations keep their ids and requests, and events stay.                *)
WorkKept == /\ \A o \in operations : \E p \in operations' :
                   p.id = o.id /\ p.request = o.request
            /\ audits \subseteq audits'

LEMMA ToldKept ==
    ASSUME ToldInv, NEW w \in Workers, \A v \in Workers \ {w} : txn'[v] = txn[v],
           ReportsNext(w)', rows' = rows, WorkKept
    PROVE  ToldInv'
  <1>1. ASSUME NEW v \in Workers PROVE ReportsNext(v)'
    BY DEF ToldInv, ReportsNext, Deciding
  <1>2. \A c : Recorded(c)' = Recorded(c)
    BY DEF Recorded
  <1>3. RecordsReport' /\ CreationsOwned'
    BY <1>2 DEF ToldInv, RecordsReport, CreationsOwned, WorkKept
  <1>4. QED
    BY <1>1, <1>3 DEF ToldInv

(* A step of w that publishes nothing and decides no success.              *)
LEMMA OwnTold ==
    ASSUME ToldInv, NEW w \in Workers, \A v \in Workers \ {w} : txn'[v] = txn[v],
           rows' = rows, UNCHANGED domain, ReportsNext(w)'
    PROVE  ToldInv'
  <1>1. WorkKept
    BY DEF WorkKept, domain
  <1>2. QED
    BY <1>1, ToldKept

LEMMA DecideTold ==
    ASSUME IInv, ToldInv, NEW w \in Workers, NEW c, NEW n, Decide(w, c, n),
           UNCHANGED domain, c \in Publishing => n = txn[w].body + 1
    PROVE  ToldInv'
  <1>1. /\ txn'[w].outcome.snapshot = [code |-> c, version |-> n]
        /\ txn'[w].body = txn[w].body
        /\ \A v \in Workers \ {w} : txn'[v] = txn[v]
        /\ rows' = rows
    BY DecideEffect DEF IInv, SameCall
  <1>2. ReportsNext(w)'
    BY <1>1 DEF ReportsNext, Deciding
  <1>3. QED
    BY <1>1, <1>2, OwnTold

LEMMA LockTold ==
    ASSUME IInv, ToldInv, NEW w \in Workers,
           \/ LockRequest(w) \/ LockOperation(w) \/ LockAttempts(w)
           \/ LockAttempt(w) \/ LockOwnOperation(w) \/ LockOwner(w)
    PROVE  ToldInv'
  <1>1. UNCHANGED domain
    BY DEF LockRequest, LockOperation, LockAttempts, LockAttempt, LockOwnOperation, LockOwner
  <1>2. ASSUME NEW s, Acquire(w, s) PROVE ToldInv'
    <2>1. txn' = txn /\ rows' = rows
      BY <1>2 DEF Acquire, idemVars
    <2>2. ReportsNext(w)'
      BY <2>1 DEF ToldInv, ReportsNext, Deciding
    <2>3. QED
      BY <1>1, <2>1, <2>2, OwnTold
  <1>3. ASSUME NEW c, NEW n, Decide(w, c, n), c \in Publishing => n = txn[w].body + 1
        PROVE  ToldInv'
    BY <1>1, <1>3, DecideTold
  <1>4. CASE LockRequest(w) \/ LockAttempt(w) \/ LockOwnOperation(w) \/ LockOperation(w)
    BY <1>2, <1>3, <1>4
       DEF LockRequest, LockAttempt, LockOwnOperation, LockOperation, Publishing
  <1>5. CASE LockAttempts(w)
    <2>1. PICK o \in SameWork(w) :
             LET code == ExistingOperationGuard(o, AttemptsOf(o))
             IN  code # None /\ Decide(w, code, 0)
      BY <1>5 DEF LockAttempts
    <2>2. QED
      BY <1>3, <2>1, GuardCodes DEF Publishing
  <1>6. CASE LockOwner(w)
    <2>1. PICK a \in Claimed(w), o \in OwnOperation(w) :
             LET code == StartGuard(a, o, requests[o.request], run[w].now)
             IN  Decide(w, code, IF code = "Running" THEN txn[w].body + 1 ELSE 0)
      BY <1>6 DEF LockOwner
    <2>2. QED
      BY <1>3, <2>1, GuardCodes DEF Publishing
  <1>7. QED
    BY <1>4, <1>5, <1>6

LEMMA CommitTold ==
    ASSUME IInv, ToldInv, NEW w \in Workers, Commit(w)
    PROVE  ToldInv'
  <1>1. /\ txn[w].pc = "decided" /\ txn'[w].pc = "answering" /\ Only(w)
        /\ rows' = rows \cup txn[w].own
    BY CommitEffect DEF IInv
  <1>2. ASSUME NEW v \in Workers PROVE ReportsNext(v)'
    <2>1. CASE v = w
      BY <1>1, <2>1 DEF ReportsNext, Deciding
    <2>2. CASE v # w
      BY <1>1, <2>2 DEF Only, ToldInv, ReportsNext, Deciding
    <2>3. QED
      BY <2>1, <2>2
  <1>3. RecordsReport'
    <2>1. ASSUME NEW c \in Publishing, NEW o \in txn[w].own, o.snapshot.code = c
          PROVE  o.snapshot.version = o.body + 1
      <3>1. Deciding(w, c)
        BY <1>1, <2>1, OwnRecord DEF IInv, Deciding
      <3>2. o.body = txn[w].body /\ o.snapshot = txn[w].outcome.snapshot
        BY <3>1, DecidedRow DEF IInv
      <3>3. QED
        BY <3>1, <3>2 DEF ToldInv, ReportsNext
    <2>2. QED
      BY <1>1, <2>1 DEF ToldInv, RecordsReport, Recorded
  <1>4. CreationsOwned'
    <2>1. CASE Deciding(w, "Accepted")
      <3>1. CreateWork(w)
        BY <2>1 DEF Commit, Deciding
      <3>2. operations \subseteq operations' /\ audits \subseteq audits'
        BY <3>1 DEF CreateWork
      <3>3. PICK o : /\ txn[w].own = {o} /\ o.key = txn[w].key /\ o.body = txn[w].body
                     /\ o.command = txn[w].id /\ o.snapshot.code = "Accepted"
        BY <2>1, DecidedRow DEF IInv
      <3>4. \E p \in operations' : p.id = o.command /\ p.request = o.key.target
        <4>1. PICK p : p = [id |-> txn[w].id, request |-> Target(w), config |-> run[w].config,
                            succeeded |-> None]
          OBVIOUS
        <4>2. p \in operations'
          BY <3>1, <4>1 DEF CreateWork
        <4>3. p.id = o.command /\ p.request = o.key.target
          BY <3>3, <4>1 DEF Target
        <4>4. QED
          BY <4>2, <4>3
      <3>5. \E e \in audits' : /\ e.aggregate = <<"request", o.key.target>>
                               /\ e.version = o.body + 1 /\ e.command = o.command
        <4>1. PICK e : e = [aggregate |-> <<"request", Target(w)>>,
                            version |-> txn[w].body + 1, command |-> txn[w].id]
          OBVIOUS
        <4>2. e \in audits'
          BY <3>1, <4>1 DEF CreateWork
        <4>3. /\ e.aggregate = <<"request", o.key.target>>
              /\ e.version = o.body + 1 /\ e.command = o.command
          BY <3>3, <4>1 DEF Target
        <4>4. QED
          BY <4>2, <4>3
      <3>6. \A r \in Recorded("Accepted")' : r \in Recorded("Accepted") \/ r = o
        BY <1>1, <3>3 DEF Recorded
      <3>7. QED
        BY <3>2, <3>4, <3>5, <3>6 DEF ToldInv, CreationsOwned
    <2>2. CASE ~Deciding(w, "Accepted")
      <3>1. operations' = operations /\ audits \subseteq audits'
        BY <1>1, <2>2 DEF Commit, Deciding, StartWork, domain
      <3>2. \A o \in txn[w].own : o.snapshot.code # "Accepted"
        BY <1>1, <2>2, OwnRecord DEF IInv, Deciding
      <3>3. Recorded("Accepted")' = Recorded("Accepted")
        BY <1>1, <3>2 DEF Recorded
      <3>4. QED
        BY <3>1, <3>3 DEF ToldInv, CreationsOwned
    <2>3. QED
      BY <2>1, <2>2
  <1>5. QED
    BY <1>2, <1>3, <1>4 DEF ToldInv

LEMMA ToldNext == IInv /\ ToldInv /\ [Next]_vars => ToldInv'
  <1> SUFFICES ASSUME IInv, ToldInv, [Next]_vars PROVE ToldInv'
    OBVIOUS
  <1>1. ASSUME txn' = txn, rows' = rows, WorkKept PROVE ToldInv'
    <2>1. \A c : Recorded(c)' = Recorded(c)
      BY <1>1 DEF Recorded
    <2>2. RecordsReport' /\ CreationsOwned'
      BY <1>1, <2>1 DEF ToldInv, RecordsReport, CreationsOwned, WorkKept
    <2>3. \A w \in Workers : ReportsNext(w)'
      BY <1>1 DEF ToldInv, ReportsNext, Deciding
    <2>4. QED
      BY <2>2, <2>3 DEF ToldInv
  <1>2. CASE UNCHANGED vars \/ Tick \/ \E r \in Requests : LeaveTriage(r)
    <2>1. txn' = txn /\ rows' = rows /\ operations' = operations /\ audits \subseteq audits'
      BY <1>2 DEF vars, Tick, LeaveTriage, idemVars, domain
    <2>2. WorkKept
      BY <2>1 DEF WorkKept
    <2>3. QED
      BY <1>1, <2>1, <2>2
  <1>3. ASSUME NEW a \in attempts, NEW s \in {"Succeeded", "TerminalFailure"},
               Conclude(a, s)
        PROVE  ToldInv'
    <2>1. txn' = txn /\ rows' = rows /\ audits \subseteq audits'
      BY <1>3 DEF Conclude, idemVars
    <2>2. ASSUME NEW o \in operations
          PROVE  \E p \in operations' : p.id = o.id /\ p.request = o.request
      <3>1. PICK p : p = IF o.id = a.operation /\ s = "Succeeded"
                         THEN [o EXCEPT !.succeeded = a.id] ELSE o
        OBVIOUS
      <3>2. p \in operations'
        BY <1>3, <3>1 DEF Conclude
      <3>3. p.id = o.id /\ p.request = o.request
        BY <3>1 DEF IInv, Typed, Operation
      <3>4. QED
        BY <3>2, <3>3
    <2>3. WorkKept
      BY <2>1, <2>2 DEF WorkKept
    <2>4. QED
      BY <1>1, <2>1, <2>3
  <1>4. ASSUME NEW w \in Workers, NEW k \in Commands, NEW b \in Expected, NEW c \in Configs,
               Open(w, k, b, c)
        PROVE  ToldInv'
    <2>1. txn \in [Workers -> P!Txn]
      BY DEF IInv, P!IInv, P!TypeOK
    <2>2. /\ txn'[w].pc = "lookup" /\ rows' = rows /\ UNCHANGED domain
          /\ \A v \in Workers \ {w} : txn'[v] = txn[v]
      BY <1>4, <2>1 DEF Open, Idem!Open, Idem!NoTxn
    <2>3. ReportsNext(w)'
      BY <2>2 DEF ReportsNext, Deciding
    <2>4. QED
      BY <2>2, <2>3, OwnTold
  <1>5. ASSUME NEW w \in Workers, Reserve(w) PROVE ToldInv'
    <2>1. /\ Only(w) /\ rows' = rows
          /\ txn'[w].pc = "decided" => txn'[w].outcome.kind # "Executed"
      BY <1>5, ReserveEffect DEF IInv
    <2>2. ReportsNext(w)'
      BY <2>1 DEF ReportsNext, Deciding
    <2>3. QED
      BY <1>5, <2>1, <2>2, OwnTold DEF Only, Reserve
  <1>6. ASSUME NEW w \in Workers, Raise(w) \/ Abort(w) \/ Deliver(w) \/ LoseResponse(w)
        PROVE  ToldInv'
    <2>1. /\ txn'[w].pc \in {"idle", "answering"} /\ Only(w) /\ rows' = rows
          /\ UNCHANGED domain
      BY <1>6, LeaveEffect DEF IInv
    <2>2. ReportsNext(w)'
      BY <2>1 DEF ReportsNext, Deciding
    <2>3. QED
      BY <2>1, <2>2, OwnTold DEF Only
  <1>7. ASSUME NEW w \in Workers,
               \/ LockRequest(w) \/ LockOperation(w) \/ LockAttempts(w)
               \/ LockAttempt(w) \/ LockOwnOperation(w) \/ LockOwner(w)
        PROVE  ToldInv'
    BY <1>7, LockTold
  <1>8. ASSUME NEW w \in Workers, Commit(w) PROVE ToldInv'
    BY <1>8, CommitTold
  <1>9. QED
    BY <1>2, <1>3, <1>4, <1>5, <1>6, <1>7, <1>8 DEF Next, Handle, DeadlockVictim, External

LEMMA ToldInit == Init => ToldInv
  BY DEF Init, Idem!Init, Idem!NoTxn, ToldInv, ReportsNext, Deciding, RecordsReport,
         CreationsOwned, Recorded

(* Every success a client was given, by the executing call or by a replay, *)
(* describes rows that exist: its 202 the operation of the request it      *)
(* named, its 200 the attempt its own service started, each with the event *)
(* of exactly the version the answer reports.                              *)
AnswersAreTrue ==
    \A a \in answers : Idem!Success(a.kind) =>
        /\ a.snapshot.code = "Accepted" =>
              /\ \E o \in operations : o.id = a.command /\ o.request = a.key.target
              /\ \E e \in audits : /\ e.aggregate = <<"request", a.key.target>>
                                   /\ e.version = a.snapshot.version
                                   /\ e.command = a.command
        /\ a.snapshot.code = "Running" =>
              /\ \E t \in attempts : /\ t.id = a.key.target
                                     /\ t.service = a.key.machine
                                     /\ t.state # "Pending"
              /\ \E e \in audits : /\ e.aggregate = <<"attempt", a.key.target>>
                                   /\ e.version = a.snapshot.version
                                   /\ e.command = a.command

(* What a client is told of a command stays true of the rows, whatever was *)
(* lost or retried in between.                                             *)
THEOREM SuccessesAreTrue == Spec => []AnswersAreTrue
  <1>1. ASSUME IInv, TrailInv, ToldInv PROVE AnswersAreTrue
    <2>1. ASSUME NEW a \in answers, Idem!Success(a.kind)
          PROVE  \E r \in rows : /\ r.key = a.key /\ r.status = "Completed"
                                 /\ r.command = a.command /\ r.snapshot = a.snapshot
      <3>1. PICK r \in rows : r.key = a.key /\ P!Once!Justified(a, r)
        BY <1>1 DEF IInv, P!IInv, P!Outcomes, P!RestsOn
      <3>2. QED
        BY <2>1, <3>1 DEF P!Once!Justified, Idem!Success
    <2>2. ASSUME NEW a \in answers, Idem!Success(a.kind), a.snapshot.code = "Accepted"
          PROVE  /\ \E o \in operations : o.id = a.command /\ o.request = a.key.target
                 /\ \E e \in audits : /\ e.aggregate = <<"request", a.key.target>>
                                      /\ e.version = a.snapshot.version
                                      /\ e.command = a.command
      <3>1. PICK r \in Recorded("Accepted") : /\ r.key = a.key /\ r.command = a.command
                                              /\ r.snapshot = a.snapshot
        BY <2>1, <2>2 DEF Recorded
      <3>2. r.snapshot.version = r.body + 1
        BY <1>1 DEF ToldInv, RecordsReport, Publishing
      <3>3. QED
        BY <1>1, <3>1, <3>2 DEF ToldInv, CreationsOwned
    <2>3. ASSUME NEW a \in answers, Idem!Success(a.kind), a.snapshot.code = "Running"
          PROVE  /\ \E t \in attempts : /\ t.id = a.key.target
                                        /\ t.service = a.key.machine
                                        /\ t.state # "Pending"
                 /\ \E e \in audits : /\ e.aggregate = <<"attempt", a.key.target>>
                                      /\ e.version = a.snapshot.version
                                      /\ e.command = a.command
      <3>1. PICK r \in Recorded("Running") : /\ r.key = a.key /\ r.command = a.command
                                             /\ r.snapshot = a.snapshot
        BY <2>1, <2>3 DEF Recorded
      <3>2. r.snapshot.version = r.body + 1
        BY <1>1 DEF ToldInv, RecordsReport, Publishing
      <3>3. QED
        BY <1>1, <3>1, <3>2 DEF IInv, StartsOnRecord, TrailInv, StartsWitnessed
    <2>4. QED
      BY <2>2, <2>3 DEF AnswersAreTrue
  <1>2. Spec => []ToldInv
    BY ToldInit, ToldNext, InvHolds, PTL DEF Spec
  <1>3. QED
    BY <1>1, <1>2, TrailHolds, PTL

-----------------------------------------------------------------------------
(* What the idempotency service promises, promised by the two commands.    *)

LEMMA SameOnceInit == P!Once!Init <=> Idem!Once!Init
  BY DEF P!Once!Init, Idem!Once!Init, P!Committed, Idem!Committed

LEMMA SameOnceNext == [P!Once!Next]_(P!Once!vars) <=> [Idem!Once!Next]_(Idem!Once!vars)
  BY DEF P!Once!Next, Idem!Once!Next, P!Once!vars, Idem!Once!vars, P!Once!Record,
         Idem!Once!Record, P!Once!Reply, Idem!Once!Reply, P!Once!Justified,
         Idem!Once!Justified, P!Committed, Idem!Committed, P!Row, Idem!Row, P!TxIds,
         Idem!TxIds, P!Statuses, Idem!Statuses

(* The two commands, with their row locks, deadlocks and lost answers,     *)
(* implement one write-once cell per command key: a key is executed once   *)
(* and every answer about it is read off that execution's record.          *)
THEOREM CommandsImplementOnce == Spec => Idem!ImplementsOnce
  <1>1. Init => Idem!Once!Init
    <2>1. Idem!Init => P!Init
      BY DEF Idem!Init, P!Init, Idem!NoTxn, P!NoTxn
    <2>2. P!Init => P!Once!Init
      BY P!InitRefines, MaxTxAssumption, NoneAssumption
         DEF P!CarelessAssumption, P!MaxTxAssumption, P!NoneAssumption
    <2>3. QED
      BY <2>1, <2>2, SameOnceInit DEF Init
  <1>2. IInv /\ [Next]_vars => [Idem!Once!Next]_(Idem!Once!vars)
    <2> SUFFICES ASSUME IInv, [Next]_vars PROVE [Idem!Once!Next]_(Idem!Once!vars)
      OBVIOUS
    <2>1. [P!Next]_(P!vars)
      BY UsesNext, SameNext DEF IInv, idemVars, P!vars
    <2>2. [P!Once!Next]_(P!Once!vars)
      BY <2>1, P!NextRefines, MaxTxAssumption, NoneAssumption
         DEF IInv, P!CarelessAssumption, P!MaxTxAssumption, P!NoneAssumption
    <2>3. QED
      BY <2>2, SameOnceNext
  <1>3. QED
    BY <1>1, <1>2, InvHolds, PTL DEF Spec, Idem!ImplementsOnce, Idem!Once!Spec

(* Both commands complete their reservation before they commit, on every   *)
(* path, so no record stays Processing and no client of theirs is ever     *)
(* answered with the 500 of an integrity incident.                         *)
THEOREM CommandsLeaveNoIncident == Spec => []Idem!NoIncident
  <1>1. Init => P!AllComplete
    BY DEF Init, Idem!Init, Idem!NoTxn, P!AllComplete
  <1>2. IInv /\ P!AllComplete /\ [Next]_vars => P!AllComplete'
    <2> SUFFICES ASSUME IInv, P!AllComplete, [Next]_vars PROVE P!AllComplete'
      OBVIOUS
    <2>1. [P!Next]_(P!vars)
      BY UsesNext, SameNext DEF IInv, idemVars, P!vars
    <2>2. QED
      BY <2>1, P!AllCompleteStep, MaxTxAssumption, NoneAssumption
         DEF IInv, P!CarelessAssumption, P!MaxTxAssumption, P!NoneAssumption
  <1>3. P!AllComplete => Idem!NoIncident
    BY DEF P!AllComplete, Idem!NoIncident
  <1>4. QED
    BY <1>1, <1>2, <1>3, InvHolds, PTL DEF Spec
=============================================================================
