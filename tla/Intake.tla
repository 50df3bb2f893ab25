------------------------------- MODULE Intake -------------------------------
(***************************************************************************)
(* Public intake (IntakeService and its endpoint).  A call runs up to two  *)
(* transactions after its reservation lookup: one that inserts the         *)
(* accepted-key reservation with the whole delivery/request graph and, if  *)
(* the unique index rejects it, one that reads the winner.  No transaction *)
(* spans the lookup and the insert.                                        *)
(*                                                                         *)
(* Workers are handlers of any number of server processes.  The delivery,  *)
(* request, contact and reservation a call creates share its id (four      *)
(* random UUIDs in the code).  PostgreSQL is external, as in               *)
(* CommandIdempotency.                                                     *)
(***************************************************************************)
EXTENDS Naturals, FiniteSets

CONSTANTS Workers,
          Keys,      \* idempotency key digests
          Bodies,    \* request bodies: canonical hashes, or unparseable text
          Rulesets,  \* bodies the validation of some running release accepts
          MaxCalls,  \* bound: calls received
          None

ASSUME RulesetsAssumption == Rulesets \subseteq SUBSET Bodies
ASSUME MaxCallsAssumption == MaxCalls \in Nat
ASSUME NoneAssumption == None \notin Keys \cup Bodies

VARIABLES reservations,  \* accepted_intake_keys
          deliveries,    \* inbound_deliveries
          requests,      \* service_requests, each with its contact
          audits,        \* audit_events
          outbox,        \* outbox_messages
          call,          \* what each handler is doing
          answers,       \* responses delivered to clients
          lastCall       \* calls received so far

tables == <<reservations, deliveries, requests, audits, outbox>>
vars == <<reservations, deliveries, requests, audits, outbox, call, answers, lastCall>>

Ids == 1..MaxCalls
Outcomes == {"New", "IdempotentReplay", "Invalid", "IdempotencyConflict"}

Reservation == [key : Keys, body : Bodies, original : Ids, request : Ids]

(* original and request are None where the row's references are null.      *)
Delivery == [id : Ids, key : Keys, outcome : Outcomes,
             original : Ids \cup {None}, request : Ids \cup {None}]

Request == [id : Ids, delivery : Ids]

Event == [aggregate : {"InboundDelivery", "ServiceRequest"}, id : Ids,
          name : {"inbound_delivery.accepted", "inbound_delivery.rejected",
                  "service_request.created"}]

(* A response with the body it answers.                                    *)
Answer == [delivery : Delivery, body : Bodies]

Steps == {"idle", "validLookup", "rejectLookup", "insert", "reserved", "race",
          "decided", "answering"}

(* inserted: the transaction's uncommitted reservation; delivery: the      *)
(* delivery row it is going to commit; known: the reservations of the key  *)
(* that were committed when the call arrived (history).                    *)
Call == [pc : Steps, id : Ids \cup {0}, key : Keys \cup {None},
         body : Bodies \cup {None}, inserted : SUBSET Reservation,
         delivery : Delivery \cup {None}, known : SUBSET Reservation]

NoCall == [pc |-> "idle", id |-> 0, key |-> None, body |-> None,
           inserted |-> {}, delivery |-> None, known |-> {}]

TypeOK == /\ reservations \subseteq Reservation
          /\ deliveries \subseteq Delivery
          /\ requests \subseteq Request
          /\ audits \subseteq Event
          /\ outbox \subseteq Event
          /\ call \in [Workers -> Call]
          /\ answers \subseteq Answer
          /\ lastCall \in 0..MaxCalls

Init == /\ reservations = {}
        /\ deliveries = {}
        /\ requests = {}
        /\ audits = {}
        /\ outbox = {}
        /\ call = [w \in Workers |-> NoCall]
        /\ answers = {}
        /\ lastCall = 0

-----------------------------------------------------------------------------
(* Mutant: reservations are read outside the transaction's isolation.      *)
DirtyRead(k) == {r \in reservations \cup UNION {call[v].inserted : v \in Workers} :
                    r.key = k}

(* _reservation: committed rows of the scope and digest, not locked.       *)
Reserved(k) == {r \in reservations : r.key = k}
(* Mutant: the scope and digest have no unique index.                      *)
NoUniqueIndex(w) == FALSE

InFlightElsewhere(w) ==
    \E v \in Workers \ {w} : \E r \in call[v].inserted : r.key = call[w].key

OwnReservation(w) == [key |-> call[w].key, body |-> call[w].body,
                      original |-> call[w].id, request |-> call[w].id]

(* _create_new's delivery.                                                 *)
NewDelivery(w) == [id |-> call[w].id, key |-> call[w].key, outcome |-> "New",
                   original |-> None, request |-> call[w].id]

(* _create_replay's delivery: the stored result of the original call.      *)
ReplayDelivery(w, r) ==
    [id |-> call[w].id, key |-> r.key, outcome |-> "IdempotentReplay",
     original |-> r.original, request |-> r.request]

ConflictDelivery(w, r) ==
    [id |-> call[w].id, key |-> r.key, outcome |-> "IdempotencyConflict",
     original |-> r.original, request |-> None]
(* Mutant: the processing status is stored as the outcome.                 *)
RejectedDelivery(w) == [id |-> call[w].id, key |-> call[w].key, outcome |-> "Rejected",
                        original |-> None, request |-> None]

InvalidDelivery(w) == [id |-> call[w].id, key |-> call[w].key, outcome |-> "Invalid",
                       original |-> None, request |-> None]

(* Mutant: the payload hashes are not compared.                            *)
ResolveAnyBody(w, r) == ReplayDelivery(w, r)

(* The delivery of a valid call that found the reservation r.              *)
Resolve(w, r) == IF r.body = call[w].body THEN ReplayDelivery(w, r)
                 ELSE ConflictDelivery(w, r)

Goto(w, pc) == call' = [call EXCEPT ![w].pc = pc]
Decide(w, d) == call' = [call EXCEPT ![w].pc = "decided", ![w].delivery = d]

-----------------------------------------------------------------------------
(* The endpoint parses and validates the body before any lookup, with the  *)
(* rules of the release that serves it.  Unparseable bodies are in no      *)
(* ruleset.                                                                *)
Receive(w, k, b, rules) ==
    /\ call[w].pc = "idle"
    /\ lastCall < MaxCalls
    /\ lastCall' = lastCall + 1
    /\ call' = [call EXCEPT ![w] =
                   [NoCall EXCEPT !.pc = IF b \in rules THEN "validLookup" ELSE "rejectLookup",
                                  !.id = lastCall + 1, !.key = k, !.body = b,
                                  !.known = Reserved(k)]]
    /\ UNCHANGED <<tables, answers>>

(* process_valid, first transaction.                                       *)
LookUp(w) ==
    /\ call[w].pc = "validLookup"
    /\ \/ Reserved(call[w].key) = {} /\ Goto(w, "insert")
       \/ \E r \in Reserved(call[w].key) : Decide(w, Resolve(w, r))
    /\ UNCHANGED <<tables, answers, lastCall>>

(* Mutant: a body that does not validate is rejected without a lookup.     *)
RejectOutright(w) ==
    /\ call[w].pc = "rejectLookup"
    /\ Decide(w, InvalidDelivery(w))
    /\ UNCHANGED <<tables, answers, lastCall>>

(* process_rejected: equality cannot be proved, so any reservation wins.   *)
LookUpRejected(w) ==
    /\ call[w].pc = "rejectLookup"
    /\ \/ Reserved(call[w].key) = {} /\ Decide(w, InvalidDelivery(w))
       \/ \E r \in Reserved(call[w].key) : Decide(w, ConflictDelivery(w, r))
    /\ UNCHANGED <<tables, answers, lastCall>>

(* Mutant: the reservation is inserted although the key is taken.          *)
ReserveAgain(w) ==
    /\ call[w].pc = "insert"
    /\ call' = [call EXCEPT ![w].pc = "reserved", ![w].inserted = {OwnReservation(w)},
                            ![w].delivery = NewDelivery(w)]
    /\ UNCHANGED <<tables, answers, lastCall>>

(* _create_new, the flush of the reservation, then of the rest of the      *)
(* graph, which no other session can see or block.                         *)
Reserve(w) ==
    /\ call[w].pc = "insert"
    /\ ~InFlightElsewhere(w)
    /\ Reserved(call[w].key) = {}
    /\ call' = [call EXCEPT ![w].pc = "reserved", ![w].inserted = {OwnReservation(w)},
                            ![w].delivery = NewDelivery(w)]
    /\ UNCHANGED <<tables, answers, lastCall>>

(* Mutant: an insert fails at once when the key is taken by a transaction  *)
(* that is still open.                                                     *)
ImpatientViolation(w) ==
    /\ call[w].pc = "insert"
    /\ InFlightElsewhere(w) \/ Reserved(call[w].key) # {}
    /\ Goto(w, "race")
    /\ UNCHANGED <<tables, answers, lastCall>>

(* The IntegrityError of the flush: roll back, look up again.              *)
UniqueViolation(w) ==
    /\ call[w].pc = "insert"
    /\ ~InFlightElsewhere(w)
    /\ Reserved(call[w].key) # {}
    /\ Goto(w, "race")
    /\ UNCHANGED <<tables, answers, lastCall>>

(* The transaction after the violation.  The code re-raises for an absent  *)
(* winner; RaceLoserFindsWinner shows why that is not a branch here.       *)
ReadWinner(w) ==
    /\ call[w].pc = "race"
    /\ \E r \in Reserved(call[w].key) : Decide(w, Resolve(w, r))
    /\ UNCHANGED <<tables, answers, lastCall>>

-----------------------------------------------------------------------------
(* _add_event, once per delivery and once per created request.             *)
DeliveryEvent(d) ==
    [aggregate |-> "InboundDelivery", id |-> d.id,
     name |-> IF d.outcome \in {"New", "IdempotentReplay"}
              THEN "inbound_delivery.accepted" ELSE "inbound_delivery.rejected"]

CreatedEvent(i) == [aggregate |-> "ServiceRequest", id |-> i,
                    name |-> "service_request.created"]

EventsOf(w) == {DeliveryEvent(call[w].delivery)}
                   \cup {CreatedEvent(r.request) : r \in call[w].inserted}

Finished(w, pc) == [call EXCEPT ![w].pc = pc, ![w].inserted = {}]

Commit(w) ==
    /\ call[w].pc \in {"reserved", "decided"}
    /\ reservations' = reservations \cup call[w].inserted
    /\ requests' = requests \cup {[id |-> r.request, delivery |-> r.original] :
                                     r \in call[w].inserted}
    /\ deliveries' = deliveries \cup {call[w].delivery}
    /\ audits' = audits \cup EventsOf(w)
    /\ outbox' = outbox \cup EventsOf(w)
    /\ call' = Finished(w, "answering")
    /\ UNCHANGED <<answers, lastCall>>

(* Mutant: the error answer is sent but the transaction stays open.        *)
AbortWithoutRollback(w) ==
    /\ call[w].pc \notin {"idle", "answering"}
    /\ call' = [call EXCEPT ![w].pc = "idle"]
    /\ UNCHANGED <<tables, answers, lastCall>>

(* A database error (500 or 503) or a crash while a transaction is open.   *)
Abort(w) ==
    /\ call[w].pc \notin {"idle", "answering"}
    /\ call' = [call EXCEPT ![w] = NoCall]
    /\ UNCHANGED <<tables, answers, lastCall>>

Respond(w) ==
    /\ call[w].pc = "answering"
    /\ answers' = answers \cup {[delivery |-> call[w].delivery, body |-> call[w].body]}
    /\ call' = [call EXCEPT ![w] = NoCall]
    /\ UNCHANGED <<tables, lastCall>>

(* External: the process or the connection dies after the commit.          *)
LoseResponse(w) ==
    /\ call[w].pc = "answering"
    /\ call' = [call EXCEPT ![w] = NoCall]
    /\ UNCHANGED <<tables, answers, lastCall>>

-----------------------------------------------------------------------------
Progress(w) ==
    \/ LookUp(w) \/ LookUpRejected(w) \/ UniqueViolation(w) \/ ReadWinner(w)
    \/ Commit(w) \/ Respond(w)

Next == \E w \in Workers :
    \/ \E k \in Keys, b \in Bodies, rules \in Rulesets : Receive(w, k, b, rules)
    \/ Reserve(w) \/ Progress(w) \/ Abort(w) \/ LoseResponse(w)

Spec == Init /\ [][Next]_vars

(* Handlers keep executing; PostgreSQL serves the sessions that wait for a *)
(* unique key in queue order.                                              *)
Fairness == \A w \in Workers : WF_vars(Progress(w)) /\ SF_vars(Reserve(w))

FairSpec == Spec /\ Fairness

-----------------------------------------------------------------------------
Accepted(a) == a.delivery.outcome \in {"New", "IdempotentReplay"}

(* All acceptances of a key that clients were ever told of name one        *)
(* request and one body, and only one of them is a 201.                    *)
AcceptancesAgree ==
    \A a, b \in answers :
        Accepted(a) /\ Accepted(b) /\ a.delivery.key = b.delivery.key =>
            /\ a.delivery.request = b.delivery.request
            /\ a.body = b.body
            /\ a.delivery.outcome = "New" /\ b.delivery.outcome = "New" => a = b

(* Committed rows form whole graphs: reservations, requests and New        *)
(* deliveries correspond one to one, replays and conflicts point at the    *)
(* original delivery of their key's reservation, every delivery and request*)
(* has its one event, and whatever a client was told is on record.         *)
GraphComplete ==
    LET New == {d \in deliveries : d.outcome = "New"}
    IN  /\ \A r, s \in reservations : r.key = s.key => r = s
        /\ requests = {[id |-> r.request, delivery |-> r.original] : r \in reservations}
        /\ New = {[id |-> r.original, key |-> r.key, outcome |-> "New",
                   original |-> None, request |-> r.request] : r \in reservations}
        /\ \A d \in deliveries : d.original # None =>
              \E r \in Reserved(d.key) : r.original = d.original
        /\ audits = {DeliveryEvent(d) : d \in deliveries}
                        \cup {CreatedEvent(r.id) : r \in requests}
        /\ Cardinality(deliveries) = Cardinality({d.id : d \in deliveries})
        /\ {a.delivery : a \in answers} \subseteq deliveries

(* A 409 is answered only for a key accepted with another body.            *)
ConflictJustified ==
    \A a \in answers : a.delivery.outcome = "IdempotencyConflict" =>
        \E r \in Reserved(a.delivery.key) : r.body # a.body

(* Once a key's acceptance is committed, every later call with the key is  *)
(* a replay or a conflict: it creates nothing and, even when its body does *)
(* not validate, is never recorded as a mere invalid delivery.             *)
LaterCallsSeeAcceptance ==
    \A w \in Workers : call[w].known # {} /\ call[w].delivery # None =>
        call[w].delivery.outcome \in {"IdempotentReplay", "IdempotencyConflict"}

(* The lookup after a unique violation finds the winner, so the re-raise   *)
(* that would answer 500 is unreachable.                                   *)
RaceLoserFindsWinner ==
    \A w \in Workers : call[w].pc = "race" => Reserved(call[w].key) # {}

(* Every call ends, whatever its competitors for the key do.               *)
EveryCallEnds == \A w \in Workers : call[w].pc # "idle" ~> call[w].pc = "idle"

(* An accepted replay returns the original result without re-running       *)
(* current validation (api-contracts.md): a call that repeats the body its *)
(* key was accepted with, whatever release serves it, is a replay.         *)
ReplayIgnoresCurrentRules ==
    \A w \in Workers : \A r \in call[w].known :
        r.body = call[w].body /\ call[w].delivery # None =>
            call[w].delivery.outcome = "IdempotentReplay"

-----------------------------------------------------------------------------
(* Intake implements the same write-once ledger as the command service: a  *)
(* key's cell is its reservation, whose stored response is the request.    *)
Entry(r) == [key |-> r.key, body |-> r.body, command |-> r.original,
             status |-> "Completed", snapshot |-> r.request]

Kind(d) == CASE d.outcome = "New" -> "Executed"
             [] d.outcome = "IdempotentReplay" -> "Replayed"
             [] d.outcome = "IdempotencyConflict" -> "Conflict"
             [] OTHER -> "Invalid"

(* An answer, without the id of its own physical delivery.                 *)
Reply(a) == [key |-> a.delivery.key, body |-> a.body, kind |-> Kind(a.delivery),
             command |-> IF a.delivery.outcome = "New" THEN a.delivery.id
                         ELSE a.delivery.original,
             snapshot |-> a.delivery.request]

Once == INSTANCE CommandOnce WITH
            Entries <- {Entry(r) : r \in Reservation},
            ledger  <- [k \in Keys |-> {Entry(r) : r \in Reserved(k)}],
            answers <- {Reply(a) : a \in {b \in answers : b.delivery.outcome # "Invalid"}}

ImplementsOnce == Once!Spec
=============================================================================
