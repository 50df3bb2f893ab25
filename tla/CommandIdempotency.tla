------------------------- MODULE CommandIdempotency -------------------------
(***************************************************************************)
(* CommandIdempotencyService: reserve, replay, conflict and completion of  *)
(* a command key inside a transaction the caller owns.  Workers are        *)
(* database sessions of any number of server processes; each step is one   *)
(* SQL statement or one transaction boundary, so the lookup, the insert    *)
(* and the read of the winner interleave with other sessions.              *)
(*                                                                         *)
(* PostgreSQL at READ COMMITTED is external: a statement sees committed    *)
(* rows and its own, an INSERT waits for another transaction's uncommitted *)
(* row of the same unique key, SELECT ... FOR UPDATE waits for the row's   *)
(* holder, and ROLLBACK discards the transaction's rows and locks.         *)
(***************************************************************************)
EXTENDS Naturals

CONSTANTS Workers,    \* sessions
          Keys,       \* actor, intent, target and key digest (the unique scope)
          Bodies,     \* canonical body hashes
          Snapshots,  \* stored outcomes: HTTP status and safe response
          Careless,   \* callers that may commit without completing, and keep
                      \* a reservation after its transaction has ended
          MaxTx,      \* bound: transactions a behaviour opens
          None

ASSUME CarelessAssumption == Careless \subseteq Workers
ASSUME MaxTxAssumption == MaxTx \in Nat
ASSUME NoneAssumption == None \notin Keys \cup Bodies \cup Snapshots

VARIABLES rows,      \* committed CommandIdempotencyRecord rows
          txn,       \* what each session's open transaction is doing
          token,     \* the reservation object each caller still holds, by tx id
          answers,   \* outcomes delivered to clients
          lastTx     \* transactions opened so far

vars == <<rows, txn, token, answers, lastTx>>

TxIds == 1..MaxTx
Statuses == {"Processing", "Completed"}
Kinds == {"Executed", "Replayed", "Conflict", "Integrity"}

(* A reserve call happens once per transaction, so the transaction id also *)
(* names the command id drawn for it.                                      *)
Row == [key : Keys, body : Bodies, command : TxIds, status : Statuses,
        snapshot : Snapshots \cup {None}]

Answer == [key : Keys, body : Bodies, kind : Kinds,
           command : TxIds \cup {0}, snapshot : Snapshots \cup {None}]

Steps == {"idle", "lookup", "insert", "race", "reserved", "decided", "answering"}

Txn == [pc : Steps, id : TxIds \cup {0},
        key : Keys \cup {None}, body : Bodies \cup {None},
        own : SUBSET Row, locked : BOOLEAN, outcome : Answer \cup {None}]

NoTxn == [pc |-> "idle", id |-> 0, key |-> None, body |-> None,
          own |-> {}, locked |-> FALSE, outcome |-> None]

TypeOK == /\ rows \subseteq Row
          /\ txn \in [Workers -> Txn]
          /\ token \in [Workers -> TxIds \cup {0}]
          /\ answers \subseteq Answer
          /\ lastTx \in TxIds \cup {0}

Init == /\ rows = {}
        /\ txn = [w \in Workers |-> NoTxn]
        /\ token = [w \in Workers |-> 0]
        /\ answers = {}
        /\ lastTx = 0

-----------------------------------------------------------------------------

(* Committed rows of a scoped key: what _find's predicate selects.         *)
Committed(k) == {r \in rows : r.key = k}

(* Mutant: the scope has no unique index.                                  *)
NoUniqueIndex(w) == FALSE

(* Another session's uncommitted row for the key: its INSERT must be       *)
(* resolved before ours can be.                                            *)
InFlightElsewhere(w) ==
    \E v \in Workers \ {w} : \E r \in txn[v].own : r.key = txn[w].key

RowLockedElsewhere(w) ==
    \E v \in Workers \ {w} : txn[v].locked /\ txn[v].key = txn[w].key

(* Mutants: one of _classify's two checks is missing.                      *)
ClassifyAnyStatus(r, b) == IF r.body # b THEN "Conflict" ELSE "Replayed"
ClassifyAnyBody(r, b) == IF r.status # "Completed" THEN "Integrity" ELSE "Replayed"

(* _classify: the body hash is compared before the status is.              *)
Classify(r, b) ==
    IF r.body # b THEN "Conflict"
    ELSE IF r.status # "Completed" THEN "Integrity"
    ELSE "Replayed"

Success(kind) == kind \in {"Executed", "Replayed"}

(* _result for a success; the error outcomes carry no stored response.     *)
Outcome(r, b, kind) ==
    [key |-> r.key, body |-> b, kind |-> kind,
     command  |-> IF Success(kind) THEN r.command ELSE 0,
     snapshot |-> IF Success(kind) THEN r.snapshot ELSE None]

Decided(w, r) ==
    LET b == txn[w].body
    IN  [txn[w] EXCEPT !.pc = "decided",
                       !.outcome = Outcome(r, b, Classify(r, b))]

(* Where the session is after its transaction: production callers drop the *)
(* reservation with the local variable that held it.                       *)
End(w, next) ==
    /\ txn' = [txn EXCEPT ![w] = next]
    /\ token' = IF w \in Careless THEN token ELSE [token EXCEPT ![w] = 0]

-----------------------------------------------------------------------------
(* The caller's session.begin().                                           *)
Open(w, k, b) ==
    /\ txn[w].pc = "idle"
    /\ lastTx < MaxTx
    /\ lastTx' = lastTx + 1
    /\ txn' = [txn EXCEPT ![w] = [NoTxn EXCEPT !.pc = "lookup", !.id = lastTx + 1,
                                               !.key = k, !.body = b]]
    /\ UNCHANGED <<rows, token, answers>>

(* reserve, first _find: a plain read of the committed rows.               *)
Lookup(w) ==
    /\ txn[w].pc = "lookup"
    /\ \/ /\ Committed(txn[w].key) = {}
          /\ txn' = [txn EXCEPT ![w].pc = "insert"]
       \/ \E r \in Committed(txn[w].key) : txn' = [txn EXCEPT ![w] = Decided(w, r)]
    /\ UNCHANGED <<rows, token, answers, lastTx>>
(* Mutant: the record starts in a status the table does not know.          *)
NewRowReceived(w) == [key |-> txn[w].key, body |-> txn[w].body, command |-> txn[w].id,
                      status |-> "Received", snapshot |-> None]

NewRow(w) == [key |-> txn[w].key, body |-> txn[w].body, command |-> txn[w].id,
              status |-> "Processing", snapshot |-> None]

(* reserve, the flush in the savepoint, when it succeeds.                  *)
Insert(w) ==
    /\ txn[w].pc = "insert"
    /\ ~InFlightElsewhere(w)
    /\ Committed(txn[w].key) = {}
    /\ txn' = [txn EXCEPT ![w].pc = "reserved", ![w].own = {NewRow(w)}]
    /\ token' = [token EXCEPT ![w] = txn[w].id]
    /\ UNCHANGED <<rows, answers, lastTx>>

(* Mutant: an insert fails at once when the key is taken by a transaction  *)
(* that is still open.                                                     *)
ImpatientViolation(w) ==
    /\ txn[w].pc = "insert"
    /\ InFlightElsewhere(w) \/ Committed(txn[w].key) # {}
    /\ txn' = [txn EXCEPT ![w].pc = "race"]
    /\ UNCHANGED <<rows, token, answers, lastTx>>

(* reserve, the flush in the savepoint, when the unique constraint rejects *)
(* it: the savepoint is rolled back, the outer transaction goes on.        *)
UniqueViolation(w) ==
    /\ txn[w].pc = "insert"
    /\ ~InFlightElsewhere(w)
    /\ Committed(txn[w].key) # {}
    /\ txn' = [txn EXCEPT ![w].pc = "race"]
    /\ UNCHANGED <<rows, token, answers, lastTx>>

(* reserve, _find(lock=True) after the violation.  The code's 503 for an   *)
(* absent winner is not a branch here: RaceLoserFindsWinner shows why.     *)
ReadWinner(w) ==
    /\ txn[w].pc = "race"
    /\ ~RowLockedElsewhere(w)
    /\ \E r \in Committed(txn[w].key) :
          txn' = [txn EXCEPT ![w] = [Decided(w, r) EXCEPT !.locked = TRUE]]
    /\ UNCHANGED <<rows, token, answers, lastTx>>

-----------------------------------------------------------------------------
(* Mutant: the guard compares the session but not the outer transaction.   *)
OwnedBySession(w, v) == v = w /\ token[v] # 0

(* complete's ownership guard: same session, same outer transaction.       *)
Owned(w, v) == v = w /\ token[v] = txn[w].id

(* The record session.get finds for the reservation v holds.               *)
Held(w, v) == {r \in rows \cup txn[w].own :
                  r.command = token[v] /\ r.status = "Processing"}

Eligible(w, v) == Owned(w, v) /\ Held(w, v) # {}

(* Mutant: the snapshot is stored but the status stays Processing.         *)
CompleteStatusKept(w, v, s) ==
    /\ txn[w].pc \in {"lookup", "reserved"}
    /\ v = w \/ w \in Careless
    /\ Eligible(w, v)
    /\ \E r \in Held(w, v) :
          LET done == [r EXCEPT !.snapshot = s]
          IN  txn' = [txn EXCEPT ![w] =
                         [txn[w] EXCEPT !.pc = "decided", !.own = {done},
                              !.outcome = Outcome(done, done.body, "Executed")]]
    /\ UNCHANGED <<rows, token, answers, lastTx>>

(* complete, with the reservation held by the caller v.                    *)
Complete(w, v, s) ==
    /\ txn[w].pc \in {"lookup", "reserved"}
    /\ v = w \/ w \in Careless
    /\ Eligible(w, v)
    /\ \E r \in Held(w, v) :
          LET done == [r EXCEPT !.status = "Completed", !.snapshot = s]
          IN  txn' = [txn EXCEPT ![w] =
                         [txn[w] EXCEPT !.pc = "decided", !.own = {done},
                              !.outcome = Outcome(done, done.body, "Executed")]]
    /\ UNCHANGED <<rows, token, answers, lastTx>>

(* complete raises ValueError and the caller's transaction rolls back: the *)
(* reservation is another session's, an ended transaction's, or completed. *)
RejectCompletion(w, v) ==
    /\ txn[w].pc \in {"lookup", "reserved", "decided"}
    /\ w \in Careless
    /\ token[v] # 0
    /\ ~Eligible(w, v)
    /\ End(w, NoTxn)
    /\ UNCHANGED <<rows, answers, lastTx>>

-----------------------------------------------------------------------------
(* UPDATE by primary key: the transaction's rows replace their versions.   *)
Publish(w) == {r \in rows : \A o \in txn[w].own : o.command # r.command}
                  \cup txn[w].own

Finished(w, next) ==
    [txn[w] EXCEPT !.pc = next, !.own = {}, !.locked = FALSE]

(* The caller's transaction commits an execution or ends a replay.         *)
Commit(w) ==
    /\ txn[w].pc = "decided"
    /\ Success(txn[w].outcome.kind)
    /\ rows' = Publish(w)
    /\ End(w, Finished(w, "answering"))
    /\ UNCHANGED <<answers, lastTx>>

(* IntakeError leaves the caller's transaction: it rolls back.             *)
Raise(w) ==
    /\ txn[w].pc = "decided"
    /\ ~Success(txn[w].outcome.kind)
    /\ End(w, Finished(w, "answering"))
    /\ UNCHANGED <<rows, answers, lastTx>>

(* External: a caller commits without completing its reservation.          *)
CommitIncomplete(w) ==
    /\ w \in Careless
    /\ txn[w].pc = "reserved"
    /\ rows' = Publish(w)
    /\ End(w, NoTxn)
    /\ UNCHANGED <<answers, lastTx>>

Respond(w) ==
    /\ txn[w].pc = "answering"
    /\ answers' = answers \cup {txn[w].outcome}
    /\ txn' = [txn EXCEPT ![w] = NoTxn]
    /\ UNCHANGED <<rows, token, lastTx>>

(* External: the process or the connection dies after the transaction has  *)
(* ended, so the client never learns the outcome.                          *)
LoseResponse(w) ==
    /\ txn[w].pc = "answering"
    /\ txn' = [txn EXCEPT ![w] = NoTxn]
    /\ UNCHANGED <<rows, token, answers, lastTx>>

(* Mutant: the error answer is sent but the transaction stays open.        *)
AbortWithoutRollback(w) ==
    /\ txn[w].pc \notin {"idle", "answering"}
    /\ txn' = [txn EXCEPT ![w].pc = "idle"]
    /\ UNCHANGED <<rows, token, answers, lastTx>>

(* An SQLAlchemyError (503), an exception of the caller or a crash while   *)
(* the transaction is open: everything it wrote is rolled back.            *)
Abort(w) ==
    /\ txn[w].pc \notin {"idle", "answering"}
    /\ End(w, NoTxn)
    /\ UNCHANGED <<rows, answers, lastTx>>

-----------------------------------------------------------------------------
(* The steps the service and its caller take of their own accord.          *)
Progress(w) ==
    \/ Lookup(w) \/ UniqueViolation(w) \/ Commit(w) \/ Raise(w) \/ Respond(w)
    \/ \E s \in Snapshots : Complete(w, w, s)

Next == \E w \in Workers :
    \/ \E k \in Keys, b \in Bodies : Open(w, k, b)
    \/ Lookup(w) \/ Insert(w) \/ UniqueViolation(w) \/ ReadWinner(w)
    \/ \E v \in Workers : \/ \E s \in Snapshots : Complete(w, v, s)
                          \/ RejectCompletion(w, v)
    \/ Commit(w) \/ Raise(w) \/ CommitIncomplete(w)
    \/ Respond(w) \/ LoseResponse(w) \/ Abort(w)

(* A process keeps executing its handler; PostgreSQL grants a lock or a    *)
(* unique-index wait in queue order, so a waiter that is enabled again and *)
(* again is served.  Opening a call, dying and losing a response need not  *)
(* happen.                                                                 *)
Fairness == \A w \in Workers : /\ WF_vars(Progress(w))
                               /\ SF_vars(Insert(w))
                               /\ SF_vars(ReadWinner(w))

Spec == Init /\ [][Next]_vars
FairSpec == Spec /\ Fairness

-----------------------------------------------------------------------------
(* No two rows, committed or in flight in any transaction, ever share a    *)
(* command key: at most one execution of a command exists at any moment,   *)
(* so a retry waits for the first attempt instead of running beside it.    *)
ReservationExclusive ==
    LET live == rows \cup UNION {txn[w].own : w \in Workers}
    IN  \A r, s \in live : r.key = s.key => r = s

(* Every success a client was ever given for a key carries the one         *)
(* committed execution's body, command id and stored response, whichever   *)
(* of the executing call, a later retry or a racing duplicate received it. *)
AnswersAgree ==
    \A a \in answers : Success(a.kind) =>
        \E r \in Committed(a.key) :
            /\ <<r.body, r.command, r.snapshot>> = <<a.body, a.command, a.snapshot>>
            /\ r.status = "Completed"

(* COMMAND_IDEMPOTENCY_CONFLICT is answered only to a call whose body      *)
(* differs from a command that did commit, never because of a transaction  *)
(* that later rolled back.                                                 *)
ConflictJustified ==
    \A a \in answers : a.kind = "Conflict" =>
        \E r \in Committed(a.key) : r.body # a.body

(* The locked read after a unique violation always finds the winner: the   *)
(* service's 503 for an absent winner is unreachable.                      *)
RaceLoserFindsWinner ==
    \A w \in Workers : txn[w].pc = "race" => Committed(txn[w].key) # {}

(* Callers that complete before they commit never leave a Processing row   *)
(* behind, so no later call meets the 500 integrity incident.              *)
NoIncident ==
    /\ \A r \in rows : r.status = "Completed"
    /\ \A a \in answers : a.kind # "Integrity"

(* A committed row is never rewritten or removed, even by a caller that    *)
(* presents a reservation of another session or of an ended transaction.   *)
CommittedIsFinal == [][rows \subseteq rows']_vars

(* Every opened command ends: no session waits for ever on another's       *)
(* uncommitted key or on the winner's row lock.                            *)
EveryCommandEnds ==
    \A w \in Workers : txn[w].pc # "idle" ~> txn[w].pc = "idle"

-----------------------------------------------------------------------------
(* The service implements the write-once ledger: a key's cell is its       *)
(* committed row.                                                          *)
Once == INSTANCE CommandOnce WITH
            Entries <- Row,
            ledger  <- [k \in Keys |-> Committed(k)],
            answers <- answers

ImplementsOnce == Once!Spec
=============================================================================
