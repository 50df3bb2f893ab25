----------------------------- MODULE Intake_proofs -----------------------------
(***************************************************************************)
(* Proofs about Intake for any sets of handlers, keys, bodies and releases.*)
(* Rows are only ever added, whole graphs at a time, and a handler's       *)
(* pending delivery is judged against the committed reservations alone:    *)
(* what was true of it when it was decided stays true until it is answered.*)
(***************************************************************************)
EXTENDS Intake, FiniteSetTheorems, FunctionTheorems, TLAPS

-----------------------------------------------------------------------------
(* The invariant.                                                          *)

NewRow(r) == [id |-> r.original, key |-> r.key, outcome |-> "New",
              original |-> None, request |-> r.request]

RequestRow(r) == [id |-> r.request, delivery |-> r.original]

(* Committed rows form whole graphs, identified by calls already received. *)
Rows ==
    /\ \A r, s \in reservations : r.key = s.key => r = s
    /\ \A r \in reservations : r.request = r.original
    /\ requests = {RequestRow(r) : r \in reservations}
    /\ {d \in deliveries : d.outcome = "New"} = {NewRow(r) : r \in reservations}
    /\ \A d \in deliveries : d.original # None =>
          \E r \in reservations : r.key = d.key /\ r.original = d.original
    /\ audits = {DeliveryEvent(d) : d \in deliveries} \cup {CreatedEvent(r.id) : r \in requests}
    /\ \A d, e \in deliveries : d.id = e.id => d = e
    /\ \A d \in deliveries : d.id \in 1..lastCall

(* A delivery says of its body what the key's reservation says.            *)
Truthful(d, body) ==
    \/ /\ d.outcome = "New"
       /\ \E r \in reservations : r.body = body /\ d = NewRow(r)
    \/ /\ d.outcome \in {"IdempotentReplay", "IdempotencyConflict"}
       /\ \E r \in reservations :
             /\ r.key = d.key /\ r.original = d.original
             /\ d.outcome = "IdempotentReplay" => r.body = body /\ d.request = r.request
    \/ /\ d.outcome = "Invalid"
       /\ d.original = None

Answered == \A a \in answers : a.delivery \in deliveries /\ Truthful(a.delivery, a.body)

(* What a handler is going to commit and answer.                           *)
Owes(c) ==
    /\ c.delivery \in Delivery
    /\ c.delivery.id = c.id
    /\ c.delivery.key = c.key
    /\ Truthful(c.delivery, c.body)
    /\ c.known # {} => c.delivery.outcome \in {"IdempotentReplay", "IdempotencyConflict"}

(* What holds of a handler that does c.                                    *)
Calling(c) ==
    /\ c.pc = "idle" => c = NoCall
    /\ c.pc # "idle" => /\ c.id \in 1..lastCall
                        /\ c.key \in Keys
                        /\ c.body \in Bodies
                        /\ c.known \subseteq Reserved(c.key)
    /\ c.pc = "reserved" =>
          /\ c.inserted = {[key |-> c.key, body |-> c.body, original |-> c.id, request |-> c.id]}
          /\ c.delivery = [id |-> c.id, key |-> c.key, outcome |-> "New",
                           original |-> None, request |-> c.id]
          /\ Reserved(c.key) = {}
    /\ c.pc # "reserved" => c.inserted = {}
    /\ c.pc \in {"validLookup", "rejectLookup", "insert", "race"} => c.delivery = None
    /\ c.pc = "race" => Reserved(c.key) # {}
    /\ c.pc = "decided" => Owes(c) /\ c.delivery.outcome # "New"
    /\ c.pc = "answering" => Owes(c) /\ c.delivery \in deliveries
    /\ c.pc \notin {"idle", "answering"} => \A d \in deliveries : d.id # c.id

(* Calls have ids of their own, and inserted reservations their own keys.  *)
Distinct(c, d) ==
    /\ c.pc # "idle" /\ d.pc # "idle" => c.id # d.id
    /\ c.pc = "reserved" /\ d.pc = "reserved" => c.key # d.key

Calls == \A w \in Workers : Calling(call[w])

Apart == \A v, w \in Workers : v # w => Distinct(call[v], call[w])

IInv == TypeOK /\ Rows /\ Answered /\ Calls /\ Apart

-----------------------------------------------------------------------------
LEMMA CallFields ==
    ASSUME TypeOK, NEW w \in Workers
    PROVE  /\ call[w] \in Call
           /\ call[w].pc \in Steps
           /\ call[w].inserted \subseteq Reservation
           /\ call[w].known \subseteq Reservation
           /\ lastCall \in Nat /\ lastCall \in 0..MaxCalls
  BY MaxCallsAssumption DEF TypeOK, Call

LEMMA InitInv == Init => IInv
  <1> SUFFICES ASSUME Init PROVE IInv
    OBVIOUS
  <1>1. NoCall \in Call /\ NoCall.pc = "idle" /\ NoCall.inserted = {}
    BY DEF NoCall, Call, Steps
  <1>2. TypeOK
    BY <1>1, MaxCallsAssumption DEF Init, TypeOK
  <1>3. Rows /\ Answered
    BY DEF Init, Rows, Answered
  <1>4. \A w \in Workers : call[w] = NoCall
    BY DEF Init
  <1>5. Calls /\ Apart
    BY <1>1, <1>4 DEF Calls, Apart, Calling, Distinct
  <1>6. QED
    BY <1>2, <1>3, <1>5 DEF IInv

LEMMA StutterInv == IInv /\ UNCHANGED vars => IInv'
  BY DEF IInv, vars, tables, TypeOK, Rows, Answered, Calls, Apart, Truthful, Calling, Owes,
         Reserved

-----------------------------------------------------------------------------
(* Steps of a handler that commit nothing.                                 *)

(* Such a step disturbs only what is said of that handler.                 *)
LEMMA HandlerStep ==
    ASSUME IInv, NEW w \in Workers, NEW c \in Call,
           call' = [call EXCEPT ![w] = c],
           UNCHANGED <<tables, answers>>,
           lastCall <= lastCall', lastCall' \in 0..MaxCalls,
           Calling(c)',
           \A v \in Workers \ {w} : Distinct(c, call[v])
    PROVE  IInv'
  <1>1. /\ call' \in [Workers -> Call] /\ call'[w] = c
        /\ \A v \in Workers \ {w} : call'[v] = call[v]
    BY DEF IInv, TypeOK
  <1>2. TypeOK'
    BY <1>1 DEF IInv, TypeOK, tables
  <1>3. \A i \in 1..lastCall : i \in 1..lastCall'
    BY MaxCallsAssumption DEF IInv, TypeOK
  <1>4. Rows'
    BY <1>3 DEF IInv, Rows, tables
  <1>5. Answered'
    BY DEF IInv, Answered, Truthful, tables
  <1>6. ASSUME NEW v \in Workers \ {w} PROVE Calling(call[v])'
    <2>1. Calling(call[v]) /\ call'[v] = call[v]
      BY <1>1, <1>6 DEF IInv, Calls
    <2>2. QED
      BY <2>1, <1>3 DEF Calling, Owes, Truthful, Reserved, tables
  <1>7. Calls'
    BY <1>1, <1>6 DEF Calls
  <1>8. Apart'
    BY <1>1 DEF IInv, Apart, Distinct
  <1>9. QED
    BY <1>2, <1>4, <1>5, <1>7, <1>8 DEF IInv

(* A call ends without an answer.                                          *)
LEMMA EndInv ==
    ASSUME IInv, NEW w \in Workers, call' = [call EXCEPT ![w] = NoCall],
           UNCHANGED <<tables, answers, lastCall>>
    PROVE  IInv'
  <1>1. /\ NoCall \in Call /\ NoCall.pc = "idle" /\ NoCall.inserted = {}
    BY DEF NoCall, Call, Steps
  <1>2. lastCall <= lastCall' /\ lastCall' \in 0..MaxCalls
    BY CallFields DEF IInv
  <1>3. Calling(NoCall)' /\ \A v \in Workers \ {w} : Distinct(NoCall, call[v])
    BY <1>1 DEF Calling, Distinct
  <1>4. QED
    BY <1>1, <1>2, <1>3, HandlerStep

LEMMA ReceiveInv ==
    ASSUME IInv, NEW w \in Workers, NEW k \in Keys, NEW b \in Bodies,
           NEW rules \in Rulesets, Receive(w, k, b, rules)
    PROVE  IInv'
  <1>1. /\ lastCall' = lastCall + 1 /\ lastCall + 1 \in Ids
        /\ lastCall \in Nat
    BY CallFields, MaxCallsAssumption DEF Receive, IInv, Ids
  <1>2. PICK p \in {"validLookup", "rejectLookup"} :
           p = IF b \in rules THEN "validLookup" ELSE "rejectLookup"
    OBVIOUS
  <1>3. PICK c : c = [NoCall EXCEPT !.pc = p, !.id = lastCall + 1, !.key = k, !.body = b,
                                    !.known = Reserved(k)]
    OBVIOUS
  <1>4. call' = [call EXCEPT ![w] = c]
    BY <1>2, <1>3 DEF Receive
  <1>5. NoCall \in Call /\ NoCall.inserted = {} /\ NoCall.delivery = None
    BY DEF NoCall, Call, Steps
  <1>6. Reserved(k) \subseteq Reservation
    BY DEF Reserved, IInv, TypeOK
  <1>7. /\ c \in Call
        /\ c.pc \in {"validLookup", "rejectLookup"} /\ c.id = lastCall + 1
        /\ c.key = k /\ c.body = b /\ c.inserted = {} /\ c.delivery = None
        /\ c.known = Reserved(k)
    BY <1>1, <1>2, <1>3, <1>5, <1>6 DEF Call, Steps
  <1>8. \A d \in deliveries : d.id # lastCall + 1
    BY <1>1 DEF IInv, Rows
  <1>9. /\ deliveries' = deliveries /\ reservations' = reservations
        /\ UNCHANGED <<tables, answers>>
    BY DEF Receive, tables
  <1>10. Calling(c)'
    <2>1. c.id \in 1..lastCall'
      BY <1>1, <1>7
    <2>2. c.known \subseteq Reserved(c.key)'
      BY <1>7, <1>9 DEF Reserved
    <2>3. \A d \in deliveries' : d.id # c.id
      BY <1>7, <1>8, <1>9
    <2>4. QED
      BY <1>7, <2>1, <2>2, <2>3 DEF Calling
  <1>11. ASSUME NEW v \in Workers \ {w} PROVE Distinct(c, call[v])
    <2>1. call[v].pc # "idle" => call[v].id \in 1..lastCall
      BY DEF IInv, Calls, Calling
    <2>2. call[v].pc # "idle" => call[v].id # lastCall + 1
      BY <1>1, <2>1
    <2>3. QED
      BY <1>7, <2>2 DEF Distinct
  <1>12. lastCall <= lastCall' /\ lastCall' \in 0..MaxCalls
    BY <1>1, MaxCallsAssumption DEF Ids
  <1>13. QED
    BY <1>4, <1>7, <1>9, <1>10, <1>11, <1>12, HandlerStep

(* A handler keeps its call and moves on.                                  *)
LEMMA MoveInv ==
    ASSUME IInv, NEW w \in Workers, call[w].pc # "idle", NEW c \in Call,
           call' = [call EXCEPT ![w] = c],
           UNCHANGED <<tables, answers, lastCall>>,
           c.id = call[w].id, c.key = call[w].key,
           Calling(c),
           c.pc = "reserved" => \A v \in Workers \ {w} :
               call[v].pc = "reserved" => call[v].key # call[w].key
    PROVE  IInv'
  <1>1. lastCall <= lastCall' /\ lastCall' \in 0..MaxCalls
    BY CallFields DEF IInv
  <1>2. Calling(c)'
    BY DEF Calling, Owes, Truthful, Reserved, tables
  <1>3. \A v \in Workers \ {w} : Distinct(c, call[v])
    BY DEF Distinct, IInv, Apart
  <1>4. QED
    BY <1>1, <1>2, <1>3, HandlerStep

(* What a decision on a reservation says is true.                          *)
LEMMA DecideInv ==
    ASSUME IInv, NEW w \in Workers,
           call[w].pc \in {"validLookup", "rejectLookup", "race"},
           NEW d \in Delivery, Decide(w, d),
           UNCHANGED <<tables, answers, lastCall>>,
           d.id = call[w].id, d.key = call[w].key, d.outcome # "New",
           Truthful(d, call[w].body),
           call[w].known # {} => d.outcome \in {"IdempotentReplay", "IdempotencyConflict"}
    PROVE  IInv'
  <1>1. call[w] \in Call /\ Calling(call[w]) /\ call[w].inserted = {}
    BY CallFields DEF IInv, Calls, Calling
  <1>2. PICK c : c = [call[w] EXCEPT !.pc = "decided", !.delivery = d]
    OBVIOUS
  <1>3. call' = [call EXCEPT ![w] = c]
    BY <1>1, <1>2 DEF Decide
  <1>4. /\ c \in Call
        /\ c.pc = "decided" /\ c.delivery = d /\ c.inserted = {}
        /\ c.id = call[w].id /\ c.key = call[w].key
        /\ c.body = call[w].body /\ c.known = call[w].known
    BY <1>1, <1>2 DEF Call, Steps
  <1>5. Calling(c)
    BY <1>1, <1>4 DEF Calling, Owes
  <1>6. QED
    BY <1>1, <1>3, <1>4, <1>5, MoveInv

LEMMA ResolveTrue ==
    ASSUME IInv, NEW w \in Workers, call[w].pc # "idle", NEW r \in Reserved(call[w].key),
           NEW d \in {Resolve(w, r), ConflictDelivery(w, r)},
           d = Resolve(w, r) \/ d = ConflictDelivery(w, r)
    PROVE  /\ d \in Delivery /\ d.id = call[w].id /\ d.key = call[w].key
           /\ d.outcome \in {"IdempotentReplay", "IdempotencyConflict"}
           /\ Truthful(d, call[w].body)
  <1>1. r \in reservations /\ r.key = call[w].key
    BY DEF Reserved
  <1>2. r \in Reservation /\ call[w].id \in Ids
    <2>1. r \in Reservation
      BY <1>1 DEF IInv, TypeOK
    <2>2. call[w].id \in 1..lastCall /\ lastCall \in 0..MaxCalls /\ lastCall \in Nat
      BY CallFields DEF IInv, Calls, Calling
    <2>3. QED
      BY <2>1, <2>2, MaxCallsAssumption DEF Ids
  <1>3. \/ d = ReplayDelivery(w, r) /\ r.body = call[w].body
        \/ d = ConflictDelivery(w, r)
    BY DEF Resolve
  <1>4. CASE d = ReplayDelivery(w, r) /\ r.body = call[w].body
    BY <1>1, <1>2, <1>4 DEF ReplayDelivery, Delivery, Outcomes, Reservation, Truthful
  <1>5. CASE d = ConflictDelivery(w, r)
    BY <1>1, <1>2, <1>5 DEF ConflictDelivery, Delivery, Outcomes, Reservation, Truthful
  <1>6. QED
    BY <1>3, <1>4, <1>5

(* The lookups, before the insert and after the lost race.                 *)
LEMMA LookUpInv ==
    ASSUME IInv, NEW w \in Workers,
           LookUp(w) \/ LookUpRejected(w) \/ ReadWinner(w)
    PROVE  IInv'
  <1>1. /\ call[w].pc \in {"validLookup", "rejectLookup", "race"}
        /\ UNCHANGED <<tables, answers, lastCall>>
        /\ Calling(call[w])
    BY DEF LookUp, LookUpRejected, ReadWinner, IInv, Calls
  <1>2. CASE \E r \in Reserved(call[w].key) :
                Decide(w, Resolve(w, r)) \/ Decide(w, ConflictDelivery(w, r))
    <2>1. PICK r \in Reserved(call[w].key) :
             Decide(w, Resolve(w, r)) \/ Decide(w, ConflictDelivery(w, r))
      BY <1>2
    <2>2. PICK d \in {Resolve(w, r), ConflictDelivery(w, r)} : Decide(w, d)
      BY <2>1
    <2>3. QED
      BY <1>1, <2>2, ResolveTrue, DecideInv
  <1>3. CASE Reserved(call[w].key) = {} /\ Decide(w, InvalidDelivery(w))
    <2> DEFINE d == InvalidDelivery(w)
    <2>1. call[w].id \in Ids /\ call[w].key \in Keys /\ call[w].known = {}
      BY <1>1, <1>3, CallFields, MaxCallsAssumption DEF Calling, Ids, IInv
    <2>2. /\ d \in Delivery /\ d.id = call[w].id /\ d.key = call[w].key
          /\ d.outcome = "Invalid" /\ d.original = None
      BY <2>1 DEF InvalidDelivery, Delivery, Outcomes
    <2> HIDE DEF d
    <2>3. Truthful(d, call[w].body)
      BY <2>2 DEF Truthful
    <2>4. QED
      BY <1>1, <1>3, <2>1, <2>2, <2>3, DecideInv DEF d
  <1>4. CASE Reserved(call[w].key) = {} /\ LookUp(w) /\ Goto(w, "insert")
    <2>1. call[w].pc = "validLookup" /\ call[w] \in Call
      BY <1>4, CallFields DEF LookUp, IInv
    <2>2. call[w].delivery = None /\ call[w].inserted = {}
      BY <1>1, <2>1 DEF Calling
    <2>3. PICK c : c = [call[w] EXCEPT !.pc = "insert"]
      OBVIOUS
    <2>4. call' = [call EXCEPT ![w] = c]
      BY <1>4, <2>3 DEF Goto
    <2>5. /\ c \in Call
          /\ c.pc = "insert" /\ c.delivery = None /\ c.inserted = {}
          /\ c.id = call[w].id /\ c.key = call[w].key
          /\ c.body = call[w].body /\ c.known = call[w].known
      BY <2>1, <2>2, <2>3 DEF Call, Steps
    <2>6. Calling(c)
      BY <1>1, <2>1, <2>5 DEF Calling
    <2>7. QED
      BY <1>1, <2>4, <2>5, <2>6, MoveInv
  <1>5. QED
    BY <1>2, <1>3, <1>4 DEF LookUp, LookUpRejected, ReadWinner

LEMMA UniqueViolationInv ==
    ASSUME IInv, NEW w \in Workers, UniqueViolation(w)
    PROVE  IInv'
  <1>1. /\ call[w].pc = "insert" /\ call[w] \in Call /\ Calling(call[w])
        /\ Reserved(call[w].key) # {}
        /\ UNCHANGED <<tables, answers, lastCall>>
    BY CallFields DEF UniqueViolation, IInv, Calls
  <1>2. call[w].delivery = None /\ call[w].inserted = {}
    BY <1>1 DEF Calling
  <1>3. PICK c : c = [call[w] EXCEPT !.pc = "race"]
    OBVIOUS
  <1>4. call' = [call EXCEPT ![w] = c]
    BY <1>3 DEF UniqueViolation, Goto
  <1>5. /\ c \in Call
        /\ c.pc = "race" /\ c.delivery = None /\ c.inserted = {}
        /\ c.id = call[w].id /\ c.key = call[w].key
        /\ c.body = call[w].body /\ c.known = call[w].known
    BY <1>1, <1>2, <1>3 DEF Call, Steps
  <1>6. Calling(c)
    BY <1>1, <1>5 DEF Calling
  <1>7. QED
    BY <1>1, <1>4, <1>5, <1>6, MoveInv

(* The index lets one session per key insert.                              *)
LEMMA ReserveInv ==
    ASSUME IInv, NEW w \in Workers, Reserve(w)
    PROVE  IInv'
  <1>1. /\ call[w].pc = "insert" /\ call[w] \in Call /\ Calling(call[w])
        /\ Reserved(call[w].key) = {} /\ ~InFlightElsewhere(w)
        /\ UNCHANGED <<tables, answers, lastCall>>
    BY CallFields DEF Reserve, IInv, Calls
  <1>2. /\ call[w].id \in Ids /\ call[w].key \in Keys /\ call[w].body \in Bodies
    BY <1>1, CallFields, MaxCallsAssumption DEF Calling, Ids, IInv
  <1>3. NewDelivery(w) \in Delivery /\ {OwnReservation(w)} \in SUBSET Reservation
    BY <1>2 DEF NewDelivery, OwnReservation, Delivery, Outcomes, Reservation
  <1>4. PICK c : c = [call[w] EXCEPT !.pc = "reserved",
                                     !.inserted = {OwnReservation(w)},
                                     !.delivery = NewDelivery(w)]
    OBVIOUS
  <1>5. call' = [call EXCEPT ![w] = c]
    BY <1>4 DEF Reserve
  <1>6. /\ c \in Call
        /\ c.pc = "reserved" /\ c.delivery = NewDelivery(w)
        /\ c.inserted = {OwnReservation(w)}
        /\ c.id = call[w].id /\ c.key = call[w].key
        /\ c.body = call[w].body /\ c.known = call[w].known
    BY <1>1, <1>3, <1>4 DEF Call, Steps
  <1>7. \A v \in Workers \ {w} : call[v].pc = "reserved" => call[v].key # call[w].key
    <2> SUFFICES ASSUME NEW v \in Workers \ {w}, call[v].pc = "reserved",
                        call[v].key = call[w].key
                 PROVE  FALSE
      OBVIOUS
    <2>1. call[v].inserted = {[key |-> call[v].key, body |-> call[v].body,
                               original |-> call[v].id, request |-> call[v].id]}
      BY DEF IInv, Calls, Calling
    <2>2. PICK r \in call[v].inserted : r.key = call[w].key
      BY <2>1
    <2>3. QED
      BY <1>1, <2>2 DEF InFlightElsewhere
  <1>8. Calling(c)
    BY <1>1, <1>6 DEF Calling, NewDelivery, OwnReservation
  <1>9. QED
    BY <1>1, <1>5, <1>6, <1>7, <1>8, MoveInv

-----------------------------------------------------------------------------
(* The commit and the answer.                                              *)

(* More rows never contradict what a delivery says, and never take away    *)
(* what a call knows.                                                      *)
LEMMA RowsKeepTruth ==
    ASSUME reservations \subseteq reservations', NEW d, NEW body, Truthful(d, body)
    PROVE  Truthful(d, body)'
  BY DEF Truthful

LEMMA OwedStays ==
    ASSUME reservations \subseteq reservations', NEW c, Owes(c)
    PROVE  Owes(c)'
  BY RowsKeepTruth DEF Owes

(* What a commit does to the tables, in the terms of the invariant.        *)
LEMMA CommitEffect ==
    ASSUME IInv, NEW w \in Workers, Commit(w)
    PROVE  \E c \in Call, d \in Delivery, new \in SUBSET Reservation :
              /\ d = call[w].delivery
              /\ new = call[w].inserted
              /\ c.pc = "answering" /\ c.inserted = {} /\ c.delivery = d
              /\ c.id = call[w].id /\ c.key = call[w].key
              /\ c.body = call[w].body /\ c.known = call[w].known
              /\ call' = [call EXCEPT ![w] = c]
              /\ reservations' = reservations \cup new
              /\ requests' = requests \cup {RequestRow(r) : r \in new}
              /\ deliveries' = deliveries \cup {d}
              /\ audits' = audits \cup {DeliveryEvent(d)}
                                  \cup {CreatedEvent(r.request) : r \in new}
              /\ outbox' = outbox \cup {DeliveryEvent(d)}
                                  \cup {CreatedEvent(r.request) : r \in new}
              /\ answers' = answers /\ lastCall' = lastCall
  <1>1. /\ call[w] \in Call /\ call[w].pc \in {"reserved", "decided"}
        /\ Calling(call[w]) /\ call[w].inserted \in SUBSET Reservation
    BY CallFields DEF Commit, IInv, Calls
  <1>2. /\ call[w].id \in Ids /\ call[w].key \in Keys
    <2>1. call[w].id \in 1..lastCall /\ lastCall \in 0..MaxCalls /\ lastCall \in Nat
      BY <1>1, CallFields DEF IInv, Calling
    <2>2. QED
      BY <1>1, <2>1, MaxCallsAssumption DEF Ids, Calling
  <1>3. call[w].delivery \in Delivery
    BY <1>1, <1>2 DEF Calling, Owes, Delivery, Outcomes
  <1>4. PICK c : c = [call[w] EXCEPT !.pc = "answering", !.inserted = {}]
    OBVIOUS
  <1>5. /\ c \in Call
        /\ c.pc = "answering" /\ c.inserted = {} /\ c.delivery = call[w].delivery
        /\ c.id = call[w].id /\ c.key = call[w].key
        /\ c.body = call[w].body /\ c.known = call[w].known
    BY <1>1, <1>4 DEF Call, Steps
  <1>6. call' = [call EXCEPT ![w] = c]
    BY <1>4 DEF Commit, Finished
  <1>7. PICK d \in Delivery, new \in SUBSET Reservation :
           d = call[w].delivery /\ new = call[w].inserted
    BY <1>1, <1>3
  <1>8. /\ reservations' = reservations \cup new
        /\ requests' = requests \cup {RequestRow(r) : r \in new}
        /\ deliveries' = deliveries \cup {d}
        /\ audits' = audits \cup {DeliveryEvent(d)}
                            \cup {CreatedEvent(r.request) : r \in new}
        /\ outbox' = outbox \cup {DeliveryEvent(d)}
                            \cup {CreatedEvent(r.request) : r \in new}
        /\ answers' = answers /\ lastCall' = lastCall
    BY <1>7 DEF Commit, EventsOf, RequestRow
  <1>9. QED
    BY <1>5, <1>6, <1>7, <1>8

LEMMA CommitInv ==
    ASSUME IInv, NEW w \in Workers, Commit(w)
    PROVE  IInv'
  <1>1. PICK c \in Call, d \in Delivery, new \in SUBSET Reservation :
              /\ d = call[w].delivery
              /\ new = call[w].inserted
              /\ c.pc = "answering" /\ c.inserted = {} /\ c.delivery = d
              /\ c.id = call[w].id /\ c.key = call[w].key
              /\ c.body = call[w].body /\ c.known = call[w].known
              /\ call' = [call EXCEPT ![w] = c]
              /\ reservations' = reservations \cup new
              /\ requests' = requests \cup {RequestRow(r) : r \in new}
              /\ deliveries' = deliveries \cup {d}
              /\ audits' = audits \cup {DeliveryEvent(d)}
                                  \cup {CreatedEvent(r.request) : r \in new}
              /\ outbox' = outbox \cup {DeliveryEvent(d)}
                                  \cup {CreatedEvent(r.request) : r \in new}
              /\ answers' = answers /\ lastCall' = lastCall
    BY CommitEffect
  <1>2. /\ call[w].pc \in {"reserved", "decided"} /\ Calling(call[w])
        /\ call[w].id \in 1..lastCall
        /\ \A e \in deliveries : e.id # call[w].id
        /\ call[w].known \subseteq Reserved(call[w].key)
    BY DEF Commit, IInv, Calls, Calling
  <1>3. d.id = call[w].id /\ d.key = call[w].key
    BY <1>1, <1>2 DEF Calling, Owes
  <1>4. reservations \subseteq reservations' /\ deliveries \subseteq deliveries'
    BY <1>1
  (* One row, of a key that was free, or none.                             *)
  <1>5. \/ /\ call[w].pc = "reserved"
           /\ \E o \in Reservation :
                 /\ new = {o} /\ o.key = call[w].key /\ o.body = call[w].body
                 /\ o.original = call[w].id /\ o.request = o.original
                 /\ d = NewRow(o)
                 /\ Reserved(o.key) = {}
        \/ call[w].pc = "decided" /\ new = {} /\ Owes(call[w]) /\ d.outcome # "New"
    <2>1. CASE call[w].pc = "reserved"
      <3>1. PICK o \in new : new = {o}
        BY <1>1, <1>2, <2>1 DEF Calling
      <3>2. o = [key |-> call[w].key, body |-> call[w].body,
                 original |-> call[w].id, request |-> call[w].id]
        BY <1>1, <1>2, <2>1, <3>1 DEF Calling
      <3>3. QED
        BY <1>1, <1>2, <2>1, <3>1, <3>2 DEF Calling, NewRow
    <2>2. CASE call[w].pc = "decided"
      BY <1>1, <1>2, <2>2 DEF Calling
    <2>3. QED
      BY <1>2, <2>1, <2>2
  <1>6. TypeOK'
    <2>1. \A r \in Reservation : RequestRow(r) \in Request
                                 /\ CreatedEvent(r.request) \in Event
      BY DEF RequestRow, Request, Reservation, CreatedEvent, Event
    <2>2. DeliveryEvent(d) \in Event
      BY DEF DeliveryEvent, Delivery, Event
    <2>3. QED
      BY <1>1, <2>1, <2>2 DEF TypeOK, IInv
  <1>7. Rows'
    <2>1. CASE call[w].pc = "decided" /\ new = {} /\ Owes(call[w]) /\ d.outcome # "New"
      <3>1. /\ reservations' = reservations /\ requests' = requests
            /\ audits' = audits \cup {DeliveryEvent(d)}
        BY <1>1, <2>1
      <3>2. {e \in deliveries' : e.outcome = "New"} = {NewRow(r) : r \in reservations'}
        BY <1>1, <2>1, <3>1 DEF Rows, IInv
      <3>3. d.original # None => \E r \in reservations' : r.key = d.key /\ r.original = d.original
        <4>1. Truthful(d, call[w].body)
          BY <1>1, <2>1 DEF Owes
        <4>2. QED
          BY <2>1, <3>1, <4>1 DEF Truthful
      <3>4. audits' = {DeliveryEvent(e) : e \in deliveries'}
                         \cup {CreatedEvent(r.id) : r \in requests'}
        BY <1>1, <3>1 DEF Rows, IInv
      <3>5. /\ \A r, t \in reservations' : r.key = t.key => r = t
            /\ \A r \in reservations' : r.request = r.original
            /\ requests' = {RequestRow(r) : r \in reservations'}
        BY <3>1 DEF Rows, IInv
      <3>6. \A e \in deliveries' : e.original # None =>
               \E r \in reservations' : r.key = e.key /\ r.original = e.original
        BY <1>1, <3>1, <3>3 DEF Rows, IInv
      <3>7. /\ \A e, f \in deliveries' : e.id = f.id => e = f
            /\ \A e \in deliveries' : e.id \in 1..lastCall'
        BY <1>1, <1>2, <1>3 DEF Rows, IInv
      <3>8. QED
        BY <3>2, <3>4, <3>5, <3>6, <3>7 DEF Rows
    <2>2. CASE call[w].pc = "reserved"
      <3>1. PICK o \in Reservation :
                 /\ new = {o} /\ o.key = call[w].key /\ o.body = call[w].body
                 /\ o.original = call[w].id /\ o.request = o.original
                 /\ d = NewRow(o)
                 /\ Reserved(o.key) = {}
        BY <1>5, <2>2
      <3>2. /\ reservations' = reservations \cup {o}
            /\ requests' = requests \cup {RequestRow(o)}
            /\ deliveries' = deliveries \cup {NewRow(o)}
            /\ audits' = audits \cup {DeliveryEvent(NewRow(o)), CreatedEvent(o.request)}
        BY <1>1, <3>1
      <3>3. \A r, s \in reservations' : r.key = s.key => r = s
        BY <3>1, <3>2 DEF Rows, IInv, Reserved
      <3>4. \A r \in reservations' : r.request = r.original
        BY <3>1, <3>2 DEF Rows, IInv
      <3>5. requests' = {RequestRow(r) : r \in reservations'}
        BY <3>2 DEF Rows, IInv
      <3>6. NewRow(o).outcome = "New" /\ NewRow(o).original = None
        BY DEF NewRow
      <3>7. {e \in deliveries' : e.outcome = "New"} = {NewRow(r) : r \in reservations'}
        BY <3>2, <3>6 DEF Rows, IInv
      <3>8. \A e \in deliveries' : e.original # None =>
               \E r \in reservations' : r.key = e.key /\ r.original = e.original
        BY <3>2, <3>6 DEF Rows, IInv
      <3>9. CreatedEvent(o.request) = CreatedEvent(RequestRow(o).id)
        BY DEF RequestRow
      <3>10. audits' = {DeliveryEvent(e) : e \in deliveries'}
                          \cup {CreatedEvent(r.id) : r \in requests'}
        BY <3>2, <3>9 DEF Rows, IInv
      <3>11. /\ \A e, f \in deliveries' : e.id = f.id => e = f
             /\ \A e \in deliveries' : e.id \in 1..lastCall'
        BY <1>1, <1>2, <1>3 DEF Rows, IInv
      <3>12. QED
        BY <3>3, <3>4, <3>5, <3>7, <3>8, <3>10, <3>11 DEF Rows
    <2>3. QED
      BY <1>5, <2>1, <2>2
  <1>8. Answered'
    BY <1>1, <1>4, RowsKeepTruth DEF Answered, IInv
  <1>9. call'[w] = c /\ \A v \in Workers \ {w} : call'[v] = call[v]
    BY <1>1 DEF IInv, TypeOK
  <1>10. ASSUME NEW v \in Workers \ {w} PROVE Calling(call[v])'
    <2>1. Calling(call[v]) /\ Distinct(call[v], call[w]) /\ call'[v] = call[v]
      BY <1>9 DEF IInv, Calls, Apart
    <2>2. PICK e : e = call[v]
      OBVIOUS
    <2>3. Calling(e) /\ Distinct(e, call[w])
      BY <2>1, <2>2
    <2>4. e.pc # "idle" => e.id # d.id
      BY <1>2, <1>3, <2>3 DEF Distinct
    <2>5. e.pc = "reserved" => Reserved(e.key)' = {}
      BY <1>1, <1>5, <2>3 DEF Calling, Distinct, Reserved
    <2>6. Owes(e) => Owes(e)'
      BY <1>4, OwedStays
    <2>7. Calling(e)'
      BY <1>1, <1>4, <2>3, <2>4, <2>5, <2>6 DEF Calling, Reserved
    <2>8. QED
      BY <2>1, <2>2, <2>7
  <1>11. Calling(c)'
    <2>1. Owes(c)'
      <3>1. CASE call[w].pc = "decided" /\ new = {} /\ Owes(call[w])
        <4>1. Owes(c)
          BY <1>1, <3>1 DEF Owes
        <4>2. QED
          BY <1>4, <4>1, OwedStays
      <3>2. CASE call[w].pc = "reserved"
        <4>1. PICK o \in Reservation :
                 /\ new = {o} /\ o.key = call[w].key /\ o.body = call[w].body
                 /\ o.original = call[w].id /\ o.request = o.original
                 /\ d = NewRow(o)
                 /\ Reserved(o.key) = {}
          BY <1>5, <3>2
        <4>2. d.outcome = "New" /\ o \in reservations' /\ o.body = c.body
          BY <1>1, <4>1 DEF NewRow
        <4>3. Truthful(d, c.body)'
          BY <4>1, <4>2 DEF Truthful
        <4>4. c.known = {}
          BY <1>1, <1>2, <4>1
        <4>5. QED
          BY <1>1, <1>3, <4>3, <4>4 DEF Owes
      <3>3. QED
        BY <1>5, <3>1, <3>2
    <2>2. c.key \in Keys /\ c.body \in Bodies
      BY <1>1, <1>2 DEF Calling
    <2>3. c.known \subseteq Reserved(c.key)'
      BY <1>1, <1>2, <1>4 DEF Reserved
    <2>4. QED
      BY <1>1, <1>2, <2>1, <2>2, <2>3 DEF Calling
  <1>12. Calls'
    BY <1>9, <1>10, <1>11 DEF Calls
  <1>13. Apart'
    BY <1>1, <1>2, <1>9 DEF Apart, Distinct, IInv
  <1>14. QED
    BY <1>6, <1>7, <1>8, <1>12, <1>13 DEF IInv

LEMMA RespondInv ==
    ASSUME IInv, NEW w \in Workers, Respond(w)
    PROVE  IInv'
  <1> DEFINE a == [delivery |-> call[w].delivery, body |-> call[w].body]
  <1>1. /\ call[w].pc = "answering" /\ Calling(call[w])
        /\ answers' = answers \cup {a}
        /\ call' = [call EXCEPT ![w] = NoCall]
        /\ UNCHANGED <<reservations, deliveries, requests, audits, outbox, lastCall>>
    BY DEF Respond, IInv, Calls, tables
  <1>2. Owes(call[w]) /\ call[w].delivery \in deliveries /\ call[w].body \in Bodies
    BY <1>1 DEF Calling
  <1>3. a \in Answer /\ a.delivery \in deliveries /\ Truthful(a.delivery, a.body)
    BY <1>2 DEF Owes, Answer
  <1> HIDE DEF a
  <1>4. /\ NoCall \in Call /\ NoCall.pc = "idle" /\ NoCall.inserted = {}
    BY DEF NoCall, Call, Steps
  <1>5. call'[w] = NoCall /\ \A v \in Workers \ {w} : call'[v] = call[v]
    BY <1>1 DEF IInv, TypeOK
  <1>6. TypeOK'
    BY <1>1, <1>3, <1>4 DEF IInv, TypeOK
  <1>7. Rows'
    BY <1>1 DEF IInv, Rows
  <1>8. Answered'
    <2>1. \A b \in answers' : b.delivery \in deliveries /\ Truthful(b.delivery, b.body)
      BY <1>1, <1>3 DEF IInv, Answered
    <2>2. QED
      BY <1>1, <2>1 DEF Answered, Truthful
  <1>9. Calls'
    <2>1. Calling(NoCall)'
      BY <1>4 DEF Calling
    <2>2. ASSUME NEW v \in Workers \ {w} PROVE Calling(call[v])'
      <3>1. Calling(call[v]) /\ call'[v] = call[v]
        BY <1>5 DEF IInv, Calls
      <3>2. QED
        BY <1>1, <3>1 DEF Calling, Owes, Truthful, Reserved
    <2>3. QED
      BY <1>5, <2>1, <2>2 DEF Calls
  <1>10. Apart'
    BY <1>4, <1>5 DEF IInv, Apart, Distinct
  <1>11. QED
    BY <1>6, <1>7, <1>8, <1>9, <1>10 DEF IInv

LEMMA NextInv == IInv /\ [Next]_vars => IInv'
  <1> SUFFICES ASSUME IInv, [Next]_vars PROVE IInv'
    OBVIOUS
  <1>1. ASSUME NEW w \in Workers, NEW k \in Keys, NEW b \in Bodies, NEW rules \in Rulesets,
               Receive(w, k, b, rules)
        PROVE  IInv'
    BY <1>1, ReceiveInv
  <1>2. ASSUME NEW w \in Workers, Reserve(w) PROVE IInv'
    BY <1>2, ReserveInv
  <1>3. ASSUME NEW w \in Workers, LookUp(w) \/ LookUpRejected(w) \/ ReadWinner(w) PROVE IInv'
    BY <1>3, LookUpInv
  <1>4. ASSUME NEW w \in Workers, UniqueViolation(w) PROVE IInv'
    BY <1>4, UniqueViolationInv
  <1>5. ASSUME NEW w \in Workers, Commit(w) PROVE IInv'
    BY <1>5, CommitInv
  <1>6. ASSUME NEW w \in Workers, Respond(w) PROVE IInv'
    BY <1>6, RespondInv
  <1>7. ASSUME NEW w \in Workers, Abort(w) \/ LoseResponse(w) PROVE IInv'
    BY <1>7, EndInv DEF Abort, LoseResponse
  <1>8. CASE UNCHANGED vars
    BY <1>8, StutterInv
  <1>9. QED
    BY <1>1, <1>2, <1>3, <1>4, <1>5, <1>6, <1>7, <1>8 DEF Next, Progress

LEMMA InvHolds == Spec => []IInv
  BY InitInv, NextInv, PTL DEF Spec

-----------------------------------------------------------------------------
(* Every state is well typed.                                              *)
THEOREM TypeCorrect == Spec => []TypeOK
  <1>1. IInv => TypeOK
    BY DEF IInv
  <1>2. QED
    BY <1>1, InvHolds, PTL

(* Calls number the deliveries.                                            *)
LEMMA DeliveriesCounted ==
    ASSUME IInv
    PROVE  Cardinality(deliveries) = Cardinality({d.id : d \in deliveries})
  <1> DEFINE ids == {d.id : d \in deliveries}
             number == [d \in deliveries |-> d.id]
  <1>1. IsFiniteSet(ids)
    <2>1. lastCall \in Int /\ 1 \in Int
      BY CallFields, MaxCallsAssumption DEF IInv, TypeOK
    <2>2. IsFiniteSet(1..lastCall)
      BY <2>1, FS_Interval
    <2>3. ids \in SUBSET (1..lastCall)
      BY DEF IInv, Rows
    <2>4. QED
      BY <2>2, <2>3, FS_Subset
  <1>2. number \in Bijection(deliveries, ids)
    <2>1. number \in [deliveries -> ids]
      OBVIOUS
    <2>2. \A d, e \in deliveries : number[d] = number[e] => d = e
      BY DEF IInv, Rows
    <2>3. \A i \in ids : \E d \in deliveries : number[d] = i
      OBVIOUS
    <2>4. QED
      BY <2>1, <2>2, <2>3, Fun_IsBij
  <1> HIDE DEF ids, number
  <1>3. ExistsBijection(ids, deliveries)
    BY <1>2, Fun_ExistsBij, Fun_ExistsBijSymmetric
  <1>4. Cardinality(deliveries) = Cardinality(ids)
    BY <1>1, <1>3, FS_Bijection
  <1>5. QED
    BY <1>4 DEF ids

(* Whatever crashes, races and lost answers do, the tables hold whole      *)
(* graphs: a reservation, its request, its New delivery and their events   *)
(* are all there or none of them is.                                       *)
THEOREM GraphIsComplete == Spec => []GraphComplete
  <1>1. ASSUME IInv PROVE GraphComplete
    <2>1. {d \in deliveries : d.outcome = "New"}
            = {[id |-> r.original, key |-> r.key, outcome |-> "New",
                original |-> None, request |-> r.request] : r \in reservations}
      BY <1>1 DEF IInv, Rows, NewRow
    <2>2. requests = {[id |-> r.request, delivery |-> r.original] : r \in reservations}
      BY <1>1 DEF IInv, Rows, RequestRow
    <2>3. \A d \in deliveries : d.original # None =>
             \E r \in Reserved(d.key) : r.original = d.original
      BY <1>1 DEF IInv, Rows, Reserved
    <2>4. {a.delivery : a \in answers} \subseteq deliveries
      BY <1>1 DEF IInv, Answered
    <2>5. QED
      BY <1>1, <2>1, <2>2, <2>3, <2>4, DeliveriesCounted DEF GraphComplete, IInv, Rows
  <1>2. QED
    BY <1>1, InvHolds, PTL

(* The handler whose insert lost the race always finds the winner's row:   *)
(* reservations are never removed and the violation proves one committed.  *)
THEOREM RaceLosersFindWinner == Spec => []RaceLoserFindsWinner
  <1>1. IInv => RaceLoserFindsWinner
    BY DEF IInv, Calls, Calling, RaceLoserFindsWinner
  <1>2. QED
    BY <1>1, InvHolds, PTL

(* A key's committed acceptance binds every call received after it.        *)
THEOREM LaterCallsBound == Spec => []LaterCallsSeeAcceptance
  <1>1. ASSUME IInv PROVE LaterCallsSeeAcceptance
    <2> SUFFICES ASSUME NEW w \in Workers, call[w].known # {}, call[w].delivery # None
                 PROVE  call[w].delivery.outcome \in {"IdempotentReplay", "IdempotencyConflict"}
      BY DEF LaterCallsSeeAcceptance
    <2>1. Calling(call[w]) /\ call[w].pc \in Steps
      BY <1>1, CallFields DEF IInv, Calls
    <2>2. call[w].pc # "idle"
      BY <2>1 DEF Calling, NoCall
    <2>3. call[w].pc # "reserved"
      BY <2>1 DEF Calling
    <2>4. call[w].pc \in {"decided", "answering"}
      BY <2>1, <2>2, <2>3 DEF Calling, Steps
    <2>5. QED
      BY <2>1, <2>4 DEF Calling, Owes
  <1>2. QED
    BY <1>1, InvHolds, PTL

(* Clients that were told of an acceptance of one key were told the same:  *)
(* one request, one body, and a single 201.                                *)
THEOREM AnswersAgree == Spec => []AcceptancesAgree
  <1>1. ASSUME IInv PROVE AcceptancesAgree
    <2>1. ASSUME NEW a \in answers, Accepted(a)
          PROVE  \E r \in reservations :
                    /\ r.key = a.delivery.key /\ r.body = a.body
                    /\ r.request = a.delivery.request
                    /\ a.delivery.outcome = "New" => a.delivery = NewRow(r)
      BY <1>1, <2>1 DEF IInv, Answered, Truthful, Accepted, NewRow
    <2>2. \A a \in answers : a = [delivery |-> a.delivery, body |-> a.body]
      BY <1>1 DEF IInv, TypeOK, Answer
    <2>3. QED
      BY <1>1, <2>1, <2>2 DEF AcceptancesAgree, IInv, Rows
  <1>2. QED
    BY <1>1, InvHolds, PTL

-----------------------------------------------------------------------------
(* One release.  Every handler validates with the same rules, so a body    *)
(* that does not validate is the body of no reservation.  With a release   *)
(* of changed rules beside it a 409 may answer the accepted body itself    *)
(* (ReplayIgnoresCurrentRules is refuted), and what follows does not hold. *)

SingleRelease == \A R, S \in Rulesets : R = S

Valid(body) == \E R \in Rulesets : body \in R

Contradicted(c) == \E r \in reservations : r.key = c.key /\ r.body # c.body

(* What validation told of a handler's call.                               *)
Validated(c) ==
    /\ c.pc \in {"validLookup", "insert", "reserved", "race"} => Valid(c.body)
    /\ c.pc = "rejectLookup" => ~Valid(c.body)
    /\ c.pc \in {"decided", "answering"} /\ c.delivery.outcome = "IdempotencyConflict" =>
          Contradicted(c)

AllValidated == \A w \in Workers : Validated(call[w])

AcceptedValid == \A r \in reservations : Valid(r.body)

ReleaseInv == AllValidated /\ AcceptedValid /\ ConflictJustified

LEMMA ReleaseInit == Init => ReleaseInv
  BY DEF Init, ReleaseInv, AllValidated, AcceptedValid, ConflictJustified, Validated, NoCall

(* A step that only moves one handler.                                     *)
LEMMA ReleaseStep ==
    ASSUME IInv, ReleaseInv, NEW w \in Workers, NEW c,
           call' = [call EXCEPT ![w] = c],
           reservations' = reservations, answers' = answers,
           Validated(c)
    PROVE  ReleaseInv'
  <1>1. call'[w] = c /\ \A v \in Workers \ {w} : call'[v] = call[v]
    BY DEF IInv, TypeOK
  <1>2. Validated(c)'
    BY DEF Validated, Contradicted
  <1>3. ASSUME NEW v \in Workers \ {w} PROVE Validated(call[v])'
    <2>1. Validated(call[v]) /\ call'[v] = call[v]
      BY <1>1 DEF ReleaseInv, AllValidated
    <2>2. QED
      BY <2>1 DEF Validated, Contradicted
  <1>4. AllValidated'
    BY <1>1, <1>2, <1>3 DEF AllValidated
  <1>5. AcceptedValid' /\ ConflictJustified'
    BY DEF ReleaseInv, AcceptedValid, ConflictJustified, Reserved
  <1>6. QED
    BY <1>4, <1>5 DEF ReleaseInv

LEMMA ReleaseReceive ==
    ASSUME SingleRelease, IInv, ReleaseInv, NEW w \in Workers, NEW k \in Keys,
           NEW b \in Bodies, NEW rules \in Rulesets, Receive(w, k, b, rules)
    PROVE  ReleaseInv'
  <1>1. PICK c : c = [NoCall EXCEPT !.pc = IF b \in rules THEN "validLookup"
                                           ELSE "rejectLookup",
                                    !.id = lastCall + 1, !.key = k, !.body = b,
                                    !.known = Reserved(k)]
    OBVIOUS
  <1>2. /\ call' = [call EXCEPT ![w] = c]
        /\ reservations' = reservations /\ answers' = answers
    BY <1>1 DEF Receive, tables
  <1>3. /\ c.pc = IF b \in rules THEN "validLookup" ELSE "rejectLookup"
        /\ c.body = b
    BY <1>1 DEF NoCall
  <1>4. b \in rules <=> Valid(b)
    BY DEF SingleRelease, Valid
  <1>5. Validated(c)
    BY <1>3, <1>4 DEF Validated
  <1>6. QED
    BY <1>2, <1>5, ReleaseStep

(* A decision answers with what it read.                                   *)
LEMMA ReleaseDecide ==
    ASSUME IInv, ReleaseInv, NEW w \in Workers, NEW d \in Delivery, Decide(w, d),
           UNCHANGED <<tables, answers, lastCall>>,
           d.outcome = "IdempotencyConflict" => Contradicted(call[w])
    PROVE  ReleaseInv'
  <1>1. PICK c : c = [call[w] EXCEPT !.pc = "decided", !.delivery = d]
    OBVIOUS
  <1>2. /\ call' = [call EXCEPT ![w] = c]
        /\ reservations' = reservations /\ answers' = answers
    BY <1>1 DEF Decide, tables
  <1>3. /\ c.pc = "decided" /\ c.delivery = d
        /\ c.key = call[w].key /\ c.body = call[w].body
    BY <1>1, CallFields DEF IInv, Call
  <1>4. Validated(c)
    BY <1>3 DEF Validated, Contradicted
  <1>5. QED
    BY <1>2, <1>4, ReleaseStep

LEMMA ReleaseLookUp ==
    ASSUME IInv, ReleaseInv, NEW w \in Workers,
           LookUp(w) \/ LookUpRejected(w) \/ ReadWinner(w)
    PROVE  ReleaseInv'
  <1>1. /\ call[w].pc \in {"validLookup", "rejectLookup", "race"}
        /\ UNCHANGED <<tables, answers, lastCall>>
        /\ Calling(call[w]) /\ Validated(call[w])
    BY DEF LookUp, LookUpRejected, ReadWinner, IInv, Calls, ReleaseInv, AllValidated
  <1>2. CASE \E r \in Reserved(call[w].key) :
                \/ Decide(w, Resolve(w, r))
                \/ call[w].pc = "rejectLookup" /\ Decide(w, ConflictDelivery(w, r))
    <2>1. PICK r \in Reserved(call[w].key) :
             \/ Decide(w, Resolve(w, r))
             \/ call[w].pc = "rejectLookup" /\ Decide(w, ConflictDelivery(w, r))
      BY <1>2
    <2>2. r \in reservations /\ r.key = call[w].key /\ Valid(r.body)
      BY <2>1 DEF Reserved, ReleaseInv, AcceptedValid
    <2>3. CASE Decide(w, Resolve(w, r))
      <3>1. PICK d \in {Resolve(w, r), ConflictDelivery(w, r)} : d = Resolve(w, r)
        OBVIOUS
      <3>2. d \in Delivery
        BY <1>1, <2>1, <3>1, ResolveTrue
      <3>3. d.outcome = "IdempotencyConflict" => Contradicted(call[w])
        BY <2>2, <3>1 DEF Resolve, ReplayDelivery, Contradicted
      <3>4. QED
        BY <1>1, <2>3, <3>1, <3>2, <3>3, ReleaseDecide
    <2>4. CASE call[w].pc = "rejectLookup" /\ Decide(w, ConflictDelivery(w, r))
      <3>1. PICK d \in {Resolve(w, r), ConflictDelivery(w, r)} : d = ConflictDelivery(w, r)
        OBVIOUS
      <3>2. d \in Delivery
        BY <1>1, <2>1, <3>1, ResolveTrue
      <3>3. Contradicted(call[w])
        BY <1>1, <2>2, <2>4 DEF Contradicted, Validated
      <3>4. QED
        BY <1>1, <2>4, <3>1, <3>2, <3>3, ReleaseDecide
    <2>5. QED
      BY <2>1, <2>3, <2>4
  <1>3. CASE Decide(w, InvalidDelivery(w))
    <2>1. PICK c : c = [call[w] EXCEPT !.pc = "decided", !.delivery = InvalidDelivery(w)]
      OBVIOUS
    <2>2. /\ call' = [call EXCEPT ![w] = c]
          /\ reservations' = reservations /\ answers' = answers
      BY <1>1, <1>3, <2>1 DEF Decide, tables
    <2>3. c.pc = "decided" /\ c.delivery.outcome = "Invalid"
      BY <2>1, CallFields DEF IInv, Call, InvalidDelivery
    <2>4. Validated(c)
      BY <2>3 DEF Validated
    <2>5. QED
      BY <2>2, <2>4, ReleaseStep
  <1>4. CASE call[w].pc = "validLookup" /\ Goto(w, "insert")
    <2>1. PICK c : c = [call[w] EXCEPT !.pc = "insert"]
      OBVIOUS
    <2>2. /\ call' = [call EXCEPT ![w] = c]
          /\ reservations' = reservations /\ answers' = answers
      BY <1>1, <1>4, <2>1 DEF Goto, tables
    <2>3. c.pc = "insert" /\ c.body = call[w].body
      BY <2>1, CallFields DEF IInv, Call
    <2>4. Validated(c)
      BY <1>1, <1>4, <2>3 DEF Validated
    <2>5. QED
      BY <2>2, <2>4, ReleaseStep
  <1>5. QED
    BY <1>2, <1>3, <1>4 DEF LookUp, LookUpRejected, ReadWinner

LEMMA ReleaseInsert ==
    ASSUME IInv, ReleaseInv, NEW w \in Workers, UniqueViolation(w) \/ Reserve(w)
    PROVE  ReleaseInv'
  <1>1. call[w].pc = "insert" /\ Valid(call[w].body)
    BY DEF UniqueViolation, Reserve, ReleaseInv, AllValidated, Validated
  <1>2. /\ reservations' = reservations /\ answers' = answers
    BY DEF UniqueViolation, Reserve, tables
  <1>3. CASE UniqueViolation(w)
    <2>1. PICK c : c = [call[w] EXCEPT !.pc = "race"]
      OBVIOUS
    <2>2. call' = [call EXCEPT ![w] = c]
      BY <1>3, <2>1 DEF UniqueViolation, Goto
    <2>3. c.pc = "race" /\ c.body = call[w].body
      BY <2>1, CallFields DEF IInv, Call
    <2>4. Validated(c)
      BY <1>1, <2>3 DEF Validated
    <2>5. QED
      BY <1>2, <2>2, <2>4, ReleaseStep
  <1>4. CASE Reserve(w)
    <2>1. PICK c : c = [call[w] EXCEPT !.pc = "reserved",
                                       !.inserted = {OwnReservation(w)},
                                       !.delivery = NewDelivery(w)]
      OBVIOUS
    <2>2. call' = [call EXCEPT ![w] = c]
      BY <1>4, <2>1 DEF Reserve
    <2>3. c.pc = "reserved" /\ c.body = call[w].body
      BY <2>1, CallFields DEF IInv, Call
    <2>4. Validated(c)
      BY <1>1, <2>3 DEF Validated
    <2>5. QED
      BY <1>2, <2>2, <2>4, ReleaseStep
  <1>5. QED
    BY <1>3, <1>4

LEMMA ReleaseEnd ==
    ASSUME IInv, ReleaseInv, NEW w \in Workers, Abort(w) \/ LoseResponse(w)
    PROVE  ReleaseInv'
  <1>1. Validated(NoCall)
    BY DEF Validated, NoCall
  <1>2. /\ call' = [call EXCEPT ![w] = NoCall]
        /\ reservations' = reservations /\ answers' = answers
    BY DEF Abort, LoseResponse, tables
  <1>3. QED
    BY <1>1, <1>2, ReleaseStep

LEMMA ReleaseCommit ==
    ASSUME IInv, ReleaseInv, NEW w \in Workers, Commit(w)
    PROVE  ReleaseInv'
  <1>1. /\ call[w].pc \in {"reserved", "decided"}
        /\ Calling(call[w]) /\ Validated(call[w])
        /\ reservations' = reservations \cup call[w].inserted
        /\ answers' = answers
    BY DEF Commit, IInv, Calls, ReleaseInv, AllValidated
  <1>2. \A r \in call[w].inserted : Valid(r.body)
    BY <1>1 DEF Calling, Validated
  <1>3. PICK c : c = [call[w] EXCEPT !.pc = "answering", !.inserted = {}]
    OBVIOUS
  <1>4. call' = [call EXCEPT ![w] = c]
    BY <1>3 DEF Commit, Finished
  <1>5. /\ c.pc = "answering" /\ c.delivery = call[w].delivery
        /\ c.key = call[w].key /\ c.body = call[w].body
    BY <1>3, CallFields DEF IInv, Call
  <1>6. call'[w] = c /\ \A v \in Workers \ {w} : call'[v] = call[v]
    BY <1>4 DEF IInv, TypeOK
  <1>7. Validated(c)'
    <2>1. call[w].pc = "reserved" => call[w].delivery.outcome = "New"
      BY <1>1 DEF Calling
    <2>2. QED
      BY <1>1, <1>5, <2>1 DEF Validated, Contradicted
  <1>8. ASSUME NEW v \in Workers \ {w} PROVE Validated(call[v])'
    <2>1. Validated(call[v]) /\ call'[v] = call[v]
      BY <1>6 DEF ReleaseInv, AllValidated
    <2>2. QED
      BY <1>1, <2>1 DEF Validated, Contradicted
  <1>9. AllValidated'
    BY <1>6, <1>7, <1>8 DEF AllValidated
  <1>10. AcceptedValid' /\ ConflictJustified'
    BY <1>1, <1>2 DEF ReleaseInv, AcceptedValid, ConflictJustified, Reserved
  <1>11. QED
    BY <1>9, <1>10 DEF ReleaseInv

LEMMA ReleaseRespond ==
    ASSUME IInv, ReleaseInv, NEW w \in Workers, Respond(w)
    PROVE  ReleaseInv'
  <1>1. /\ call[w].pc = "answering" /\ Calling(call[w]) /\ Validated(call[w])
        /\ answers' = answers \cup {[delivery |-> call[w].delivery, body |-> call[w].body]}
        /\ call' = [call EXCEPT ![w] = NoCall]
        /\ reservations' = reservations
    BY DEF Respond, IInv, Calls, ReleaseInv, AllValidated, tables
  <1>2. Validated(NoCall)'
    BY DEF Validated, NoCall
  <1>3. call'[w] = NoCall /\ \A v \in Workers \ {w} : call'[v] = call[v]
    BY <1>1 DEF IInv, TypeOK
  <1>4. ASSUME NEW v \in Workers \ {w} PROVE Validated(call[v])'
    <2>1. Validated(call[v]) /\ call'[v] = call[v]
      BY <1>3 DEF ReleaseInv, AllValidated
    <2>2. QED
      BY <1>1, <2>1 DEF Validated, Contradicted
  <1>5. AllValidated'
    BY <1>2, <1>3, <1>4 DEF AllValidated
  <1>6. AcceptedValid'
    BY <1>1 DEF ReleaseInv, AcceptedValid
  <1>7. ConflictJustified'
    <2>1. call[w].delivery.outcome = "IdempotencyConflict" =>
             \E r \in Reserved(call[w].delivery.key) : r.body # call[w].body
      BY <1>1 DEF Validated, Contradicted, Reserved, Calling, Owes
    <2>2. QED
      BY <1>1, <2>1 DEF ReleaseInv, ConflictJustified, Reserved
  <1>8. QED
    BY <1>5, <1>6, <1>7 DEF ReleaseInv

LEMMA ReleaseNext ==
    ASSUME SingleRelease, IInv, ReleaseInv, [Next]_vars
    PROVE  ReleaseInv'
  <1>1. ASSUME NEW w \in Workers, NEW k \in Keys, NEW b \in Bodies, NEW rules \in Rulesets,
               Receive(w, k, b, rules)
        PROVE  ReleaseInv'
    BY <1>1, ReleaseReceive
  <1>2. ASSUME NEW w \in Workers, UniqueViolation(w) \/ Reserve(w) PROVE ReleaseInv'
    BY <1>2, ReleaseInsert
  <1>3. ASSUME NEW w \in Workers, LookUp(w) \/ LookUpRejected(w) \/ ReadWinner(w)
        PROVE  ReleaseInv'
    BY <1>3, ReleaseLookUp
  <1>4. ASSUME NEW w \in Workers, Commit(w) PROVE ReleaseInv'
    BY <1>4, ReleaseCommit
  <1>5. ASSUME NEW w \in Workers, Respond(w) PROVE ReleaseInv'
    BY <1>5, ReleaseRespond
  <1>6. ASSUME NEW w \in Workers, Abort(w) \/ LoseResponse(w) PROVE ReleaseInv'
    BY <1>6, ReleaseEnd
  <1>7. CASE UNCHANGED vars
    BY <1>7 DEF vars, tables, ReleaseInv, AllValidated, AcceptedValid, ConflictJustified,
                Validated, Contradicted, Reserved
  <1>8. QED
    BY <1>1, <1>2, <1>3, <1>4, <1>5, <1>6, <1>7 DEF Next, Progress

LEMMA ReleaseHolds == SingleRelease => (Spec => []ReleaseInv)
  <1> SUFFICES ASSUME SingleRelease PROVE Spec => []ReleaseInv
    OBVIOUS
  <1>1. IInv /\ ReleaseInv /\ [Next]_vars => ReleaseInv'
    BY ReleaseNext
  <1>2. QED
    BY <1>1, ReleaseInit, InvHolds, PTL DEF Spec

(* Under one release a 409 is only ever answered for a key that was        *)
(* accepted with another body.                                             *)
THEOREM ConflictsAreJustified == SingleRelease => (Spec => []ConflictJustified)
  <1> SUFFICES ASSUME SingleRelease PROVE Spec => []ConflictJustified
    OBVIOUS
  <1>1. Spec => []ReleaseInv
    BY ReleaseHolds
  <1>2. ReleaseInv => ConflictJustified
    BY DEF ReleaseInv
  <1>3. QED
    BY <1>1, <1>2, PTL

-----------------------------------------------------------------------------
(* Refinement of the write-once ledger.                                    *)

LEMMA InitRefines == Init => Once!Init
  BY DEF Init, Once!Init, Reserved

(* A commit with a reservation fills the empty cell of its key.            *)
LEMMA CommitRefines ==
    ASSUME IInv, NEW w \in Workers, Commit(w)
    PROVE  [Once!Next]_(Once!vars)
  <1>1. /\ call[w].pc \in {"reserved", "decided"} /\ Calling(call[w])
        /\ reservations' = reservations \cup call[w].inserted
        /\ answers' = answers
        /\ call[w].inserted \subseteq Reservation
    BY CallFields DEF Commit, IInv, Calls
  <1>2. CASE call[w].pc = "decided"
    <2>1. reservations' = reservations
      BY <1>1, <1>2 DEF Calling
    <2>2. QED
      BY <1>1, <2>1 DEF Once!vars, Reserved
  <1>3. CASE call[w].pc = "reserved"
    <2>1. PICK o \in Reservation :
             call[w].inserted = {o} /\ o.key = call[w].key /\ Reserved(o.key) = {}
      <3>1. PICK o \in call[w].inserted : call[w].inserted = {o}
        BY <1>1, <1>3 DEF Calling
      <3>2. o.key = call[w].key /\ Reserved(call[w].key) = {}
        BY <1>1, <1>3, <3>1 DEF Calling
      <3>3. QED
        BY <1>1, <3>1, <3>2
    <2>2. o.key \in Keys /\ Entry(o).key = o.key /\ Entry(o) \in {Entry(r) : r \in Reservation}
      BY <2>1 DEF Reservation, Entry
    <2>3. \A k \in Keys : {Entry(r) : r \in Reserved(k)}'
                             = IF k = o.key THEN {Entry(o)} ELSE {Entry(r) : r \in Reserved(k)}
      BY <1>1, <2>1 DEF Reserved, Entry
    <2>4. [k \in Keys |-> {Entry(r) : r \in Reserved(k)}]'
             = [[k \in Keys |-> {Entry(r) : r \in Reserved(k)}] EXCEPT ![o.key] = {Entry(o)}]
      BY <2>2, <2>3
    <2>5. [k \in Keys |-> {Entry(r) : r \in Reserved(k)}][o.key] = {}
      BY <2>1, <2>2
    <2>6. Once!Record(o.key, Entry(o))
      BY <1>1, <2>4, <2>5 DEF Once!Record
    <2>7. QED
      BY <2>2, <2>6 DEF Once!Next
  <1>4. QED
    BY <1>1, <1>2, <1>3

(* An answer of acceptance or conflict is read off its key's cell.         *)
LEMMA RespondRefines ==
    ASSUME IInv, ReleaseInv, NEW w \in Workers, Respond(w)
    PROVE  [Once!Next]_(Once!vars)
  <1>1. PICK a : a = [delivery |-> call[w].delivery, body |-> call[w].body]
    OBVIOUS
  <1>2. /\ call[w].pc = "answering" /\ Calling(call[w]) /\ Validated(call[w])
        /\ answers' = answers \cup {a}
        /\ reservations' = reservations
    BY <1>1 DEF Respond, IInv, Calls, ReleaseInv, AllValidated, tables
  <1>3. /\ Owes(call[w]) /\ a.delivery = call[w].delivery /\ a.body = call[w].body
        /\ a.delivery.key = call[w].key /\ call[w].key \in Keys
        /\ Truthful(a.delivery, a.body)
    BY <1>1, <1>2 DEF Calling, Owes
  <1>4. [k \in Keys |-> {Entry(r) : r \in Reserved(k)}]'
           = [k \in Keys |-> {Entry(r) : r \in Reserved(k)}]
    BY <1>2 DEF Reserved, Entry
  <1>5. CASE a.delivery.outcome = "Invalid"
    <2>1. {Reply(b) : b \in {c \in answers : c.delivery.outcome # "Invalid"}}'
             = {Reply(b) : b \in {c \in answers : c.delivery.outcome # "Invalid"}}
      BY <1>2, <1>5 DEF Reply, Kind
    <2>2. QED
      BY <1>4, <2>1 DEF Once!vars
  <1>6. CASE a.delivery.outcome # "Invalid"
    <2>1. {Reply(b) : b \in {c \in answers : c.delivery.outcome # "Invalid"}}'
             = {Reply(b) : b \in {c \in answers : c.delivery.outcome # "Invalid"}}
                  \cup {Reply(a)}
      BY <1>2, <1>6 DEF Reply, Kind
    <2>2. Reply(a).key = a.delivery.key /\ a.delivery.key \in Keys
      BY <1>3 DEF Reply
    <2>3. \E r \in Reserved(a.delivery.key) : Once!Justified(Reply(a), Entry(r))
      <3>1. CASE a.delivery.outcome = "New"
        <4>1. PICK r \in reservations : r.body = a.body /\ a.delivery = NewRow(r)
          BY <1>3, <3>1 DEF Truthful
        <4>2. /\ a.delivery.key = r.key /\ a.delivery.id = r.original
              /\ a.delivery.request = r.request
          BY <4>1 DEF NewRow
        <4>3. /\ Reply(a).kind = "Executed" /\ Reply(a).body = r.body
              /\ Reply(a).command = r.original /\ Reply(a).snapshot = r.request
          BY <3>1, <4>1, <4>2 DEF Reply, Kind
        <4>4. Once!Justified(Reply(a), Entry(r))
          BY <4>3 DEF Entry, Once!Justified
        <4>5. QED
          BY <4>1, <4>2, <4>4 DEF Reserved
      <3>2. CASE a.delivery.outcome = "IdempotentReplay"
        <4>1. PICK r \in reservations :
                 /\ r.key = a.delivery.key /\ r.original = a.delivery.original
                 /\ r.body = a.body /\ a.delivery.request = r.request
          BY <1>3, <3>2 DEF Truthful
        <4>2. /\ Reply(a).kind = "Replayed" /\ Reply(a).body = r.body
              /\ Reply(a).command = r.original /\ Reply(a).snapshot = r.request
          BY <3>2, <4>1 DEF Reply, Kind
        <4>3. Once!Justified(Reply(a), Entry(r))
          BY <4>2 DEF Entry, Once!Justified
        <4>4. QED
          BY <4>1, <4>3 DEF Reserved
      <3>3. CASE a.delivery.outcome = "IdempotencyConflict"
        <4>1. PICK r \in reservations : r.key = call[w].key /\ r.body # a.body
          BY <1>2, <1>3, <3>3 DEF Validated, Contradicted
        <4>2. Reply(a).kind = "Conflict" /\ Reply(a).body # r.body
          BY <3>3, <4>1 DEF Reply, Kind
        <4>3. Once!Justified(Reply(a), Entry(r))
          BY <4>2 DEF Entry, Once!Justified
        <4>4. QED
          BY <1>3, <4>1, <4>3 DEF Reserved
      <3>4. QED
        BY <1>3, <1>6, <3>1, <3>2, <3>3 DEF Truthful
    <2>4. \E e \in [k \in Keys |-> {Entry(r) : r \in Reserved(k)}][Reply(a).key] :
             Once!Justified(Reply(a), e)
      BY <2>2, <2>3
    <2>5. Once!Reply(Reply(a))
      BY <1>4, <2>1, <2>4 DEF Once!Reply
    <2>6. QED
      BY <2>1, <2>2, <2>5 DEF Once!Next
  <1>7. QED
    BY <1>5, <1>6

LEMMA NextRefines == IInv /\ ReleaseInv /\ [Next]_vars => [Once!Next]_(Once!vars)
  <1> SUFFICES ASSUME IInv, ReleaseInv, [Next]_vars PROVE [Once!Next]_(Once!vars)
    OBVIOUS
  <1>1. CASE \E w \in Workers : Respond(w)
    BY <1>1, RespondRefines
  <1>2. CASE \E w \in Workers : Commit(w)
    BY <1>2, CommitRefines
  <1>3. CASE ~ \E w \in Workers : Respond(w) \/ Commit(w)
    <2>1. answers' = answers /\ reservations' = reservations
      BY <1>3 DEF Next, Progress, vars, tables, Receive, LookUp, LookUpRejected, Reserve,
           UniqueViolation, ReadWinner, Abort, LoseResponse
    <2>2. QED
      BY <2>1 DEF Once!vars, Reserved
  <1>4. QED
    BY <1>1, <1>2, <1>3

(* Under one release intake, with its races, crashes and lost answers,     *)
(* implements one write-once cell per accepted key.                        *)
THEOREM IntakeImplementsOnce == SingleRelease => (Spec => ImplementsOnce)
  <1> SUFFICES ASSUME SingleRelease PROVE Spec => ImplementsOnce
    OBVIOUS
  <1>1. Spec => []ReleaseInv
    BY ReleaseHolds
  <1>2. QED
    BY <1>1, InitRefines, NextRefines, InvHolds, PTL
       DEF Spec, ImplementsOnce, Once!Spec
=============================================================================
