---------------------- MODULE CommandIdempotency_proofs ----------------------
(***************************************************************************)
(* Proofs about CommandIdempotency for any set of sessions, keys, bodies   *)
(* and outcomes, and any bound MaxTx.                                      *)
(***************************************************************************)
EXTENDS CommandIdempotency, TLAPS

(* The transaction is open: it holds an identity no committed row has.     *)
Active(w) == txn[w].pc \notin {"idle", "answering"}

Identities ==
    /\ \A w \in Workers : Active(w) => txn[w].id \in 1..lastTx
    /\ \A w, v \in Workers : Active(w) /\ Active(v) /\ w # v
                                => txn[w].id # txn[v].id
    /\ \A r \in rows : r.command \in 1..lastTx
    /\ \A w \in Workers, r \in rows : Active(w) => r.command # txn[w].id

(* What a session's call is, and what row its transaction may have written.*)
Calls ==
    \A w \in Workers :
        /\ txn[w].pc # "idle" => txn[w].key \in Keys /\ txn[w].body \in Bodies
        /\ \A o \in txn[w].own :
              /\ txn[w].pc \in {"reserved", "decided"}
              /\ o.key = txn[w].key
              /\ o.body = txn[w].body
              /\ o.command = txn[w].id
              /\ txn[w].pc = "decided" => o.status = "Completed"

(* ReservationExclusive, in the form the steps preserve one by one.        *)
CommittedUnique == \A r, s \in rows : r.key = s.key => r = s
OwnUnique == \A w \in Workers : \A o, p \in txn[w].own : o = p
OwnNotCommitted ==
    \A w \in Workers : \A o \in txn[w].own : \A r \in rows : r.key # o.key
OwnExclusive ==
    \A w, v \in Workers : w # v =>
        \A o \in txn[w].own, p \in txn[v].own : o.key # p.key

Exclusive == CommittedUnique /\ OwnUnique /\ OwnNotCommitted /\ OwnExclusive

RaceFound == \A w \in Workers : txn[w].pc = "race" => Committed(txn[w].key) # {}

(* An answer rests on a row of its key.                                    *)
RestsOn(a, R) == \E r \in R : r.key = a.key /\ Once!Justified(a, r)

Outcomes ==
    /\ \A w \in Workers :
          /\ txn[w].pc \in {"decided", "answering"} => txn[w].outcome \in Answer
          /\ txn[w].pc = "decided" =>
                IF txn[w].outcome.kind = "Executed"
                THEN RestsOn(txn[w].outcome, txn[w].own)
                ELSE txn[w].own = {} /\ RestsOn(txn[w].outcome, rows)
          /\ txn[w].pc = "answering" =>
                txn[w].own = {} /\ RestsOn(txn[w].outcome, rows)
    /\ \A a \in answers : RestsOn(a, rows)

IInv == TypeOK /\ Identities /\ Calls /\ Exclusive /\ RaceFound /\ Outcomes

-----------------------------------------------------------------------------
(* Facts about the operators.                                              *)

(* Classifying a committed row of the call's key yields a well-typed       *)
(* answer that rests on that row.                                          *)
LEMMA ClassifiedAnswer ==
    ASSUME NEW r \in Row, NEW b \in Bodies, NEW R, r \in R
    PROVE  LET a == Outcome(r, b, Classify(r, b))
           IN  a \in Answer /\ a.kind # "Executed" /\ RestsOn(a, R)
  <1> DEFINE a == Outcome(r, b, Classify(r, b))
  <1>1. CASE r.body # b
    BY <1>1 DEF Outcome, Classify, Success, Answer, Kinds, Row, RestsOn, Once!Justified
  <1>2. CASE r.body = b /\ r.status # "Completed"
    BY <1>2 DEF Outcome, Classify, Success, Answer, Kinds, Row, Statuses, RestsOn, Once!Justified
  <1>3. CASE r.body = b /\ r.status = "Completed"
    BY <1>3 DEF Outcome, Classify, Success, Answer, Kinds, Row, RestsOn, Once!Justified
  <1>4. QED
    BY <1>1, <1>2, <1>3

(* The execution's own answer rests on the row it completed.               *)
LEMMA ExecutedAnswer ==
    ASSUME NEW r \in Row, r.status = "Completed"
    PROVE  LET a == Outcome(r, r.body, "Executed")
           IN  a \in Answer /\ a.kind = "Executed" /\ RestsOn(a, {r})
  BY DEF Outcome, Success, Answer, Kinds, Row, RestsOn, Once!Justified

(* An answer keeps resting on its row as rows are added.                   *)
LEMMA RestsOnMonotone ==
    ASSUME NEW a, NEW R, NEW S, R \subseteq S, RestsOn(a, R)
    PROVE  RestsOn(a, S)
  BY DEF RestsOn

(* A transaction that commits replaces no committed row.                   *)
LEMMA PublishAdds ==
    ASSUME IInv, NEW w \in Workers
    PROVE  Publish(w) = rows \cup txn[w].own
  BY DEF IInv, Identities, Calls, Publish, Active

LEMMA InitInv == Init => IInv
  BY MaxTxAssumption, NoneAssumption
     DEF Init, IInv, TypeOK, Identities, Calls, Exclusive, CommittedUnique,
         OwnUnique, OwnNotCommitted, OwnExclusive, RaceFound, Outcomes, NoTxn,
         Txn, Steps, TxIds, Active

(* A step by which w, without writing a row, goes on in its transaction.   *)
LEMMA StutterInv == IInv /\ UNCHANGED vars => IInv'
  BY DEF IInv, vars, TypeOK, Identities, Calls, Exclusive, CommittedUnique,
         OwnUnique, OwnNotCommitted, OwnExclusive, RaceFound, Outcomes, Committed,
         Active

-----------------------------------------------------------------------------
(* Steps that write no row: w moves to the transaction state t, everything *)
(* committed and delivered stays as it is.                                 *)
Moves(w, t) == /\ txn' = [txn EXCEPT ![w] = t]
               /\ UNCHANGED <<rows, answers>>

(* A session that is not executing keeps nothing in its transaction.       *)
LEMMA EndInv ==
    ASSUME IInv, NEW w \in Workers, Moves(w, NoTxn), UNCHANGED lastTx,
           token' \in [Workers -> TxIds \cup {0}]
    PROVE  IInv'
  <1>1. txn'[w] = NoTxn /\ \A v \in Workers : v # w => txn'[v] = txn[v]
    BY DEF Moves, IInv, TypeOK
  <1>2. rows' = rows /\ answers' = answers /\ lastTx' = lastTx
    BY DEF Moves
  <1>3. TypeOK'
    BY <1>2, NoneAssumption DEF Moves, IInv, TypeOK, Txn, NoTxn, Steps
  <1>4. Identities' /\ Calls' /\ Exclusive' /\ RaceFound'
    BY <1>1, <1>2
       DEF IInv, Identities, Calls, Exclusive, CommittedUnique, OwnUnique,
           OwnNotCommitted, OwnExclusive, RaceFound, Committed, Active, NoTxn
  <1>5. Outcomes'
    BY <1>1, <1>2 DEF IInv, Outcomes, NoTxn
  <1>6. QED
    BY <1>3, <1>4, <1>5 DEF IInv

LEMMA OpenInv ==
    ASSUME IInv, NEW w \in Workers, NEW k \in Keys, NEW b \in Bodies, Open(w, k, b)
    PROVE  IInv'
  <1>1. /\ txn'[w].pc = "lookup" /\ txn'[w].id = lastTx + 1
        /\ txn'[w].key = k /\ txn'[w].body = b /\ txn'[w].own = {}
        /\ \A v \in Workers : v # w => txn'[v] = txn[v]
    BY DEF Open, IInv, TypeOK, NoTxn
  <1>2. rows' = rows /\ answers' = answers /\ lastTx' = lastTx + 1
    BY DEF Open
  <1>3. lastTx \in Nat /\ lastTx + 1 \in TxIds
    BY MaxTxAssumption DEF Open, IInv, TypeOK, TxIds
  <1>4. TypeOK'
    BY <1>2, <1>3 DEF Open, IInv, TypeOK, Txn, NoTxn, Steps
  <1>5. Identities'
    BY <1>1, <1>2, <1>3 DEF IInv, Identities, Active
  <1>6. Calls' /\ Exclusive' /\ RaceFound'
    BY <1>1, <1>2
       DEF IInv, Calls, Exclusive, CommittedUnique, OwnUnique,
           OwnNotCommitted, OwnExclusive, RaceFound, Committed
  <1>7. Outcomes'
    BY <1>1, <1>2 DEF IInv, Outcomes
  <1>8. QED
    BY <1>4, <1>5, <1>6, <1>7 DEF IInv

(* A classification of a committed row: the second half of Lookup and of   *)
(* ReadWinner.                                                             *)
LEMMA DecidedInv ==
    ASSUME IInv, NEW w \in Workers, txn[w].pc \in {"lookup", "race"},
           NEW r \in Committed(txn[w].key), NEW l \in BOOLEAN,
           Moves(w, [Decided(w, r) EXCEPT !.locked = l]),
           UNCHANGED <<token, lastTx>>
    PROVE  IInv'
  <1> DEFINE a == Outcome(r, txn[w].body, Classify(r, txn[w].body))
  <1>1. r \in Row /\ r \in rows /\ txn[w].body \in Bodies
    BY DEF IInv, TypeOK, Calls, Committed
  <1>2. a \in Answer /\ a.kind # "Executed" /\ RestsOn(a, rows)
    BY <1>1, ClassifiedAnswer
  <1>3. txn[w] \in Txn /\ txn[w].own = {}
    BY DEF IInv, TypeOK, Calls
  <1>4. /\ txn'[w] \in Txn
        /\ txn'[w].pc = "decided" /\ txn'[w].id = txn[w].id
        /\ txn'[w].key = txn[w].key /\ txn'[w].body = txn[w].body
        /\ txn'[w].own = {} /\ txn'[w].outcome = a
        /\ \A v \in Workers : v # w => txn'[v] = txn[v]
    BY <1>2, <1>3 DEF Moves, Decided, IInv, TypeOK, Txn, Steps
  <1>5. rows' = rows /\ answers' = answers /\ lastTx' = lastTx /\ token' = token
    BY DEF Moves
  <1> HIDE DEF a
  <1>6. TypeOK'
    BY <1>4, <1>5 DEF Moves, IInv, TypeOK
  <1>7. Identities'
    BY <1>4, <1>5 DEF IInv, Identities, Active
  <1>8. Calls' /\ Exclusive' /\ RaceFound'
    BY <1>4, <1>5
       DEF IInv, Calls, Exclusive, CommittedUnique, OwnUnique,
           OwnNotCommitted, OwnExclusive, RaceFound, Committed
  <1>9. Outcomes'
    BY <1>2, <1>4, <1>5 DEF IInv, Outcomes
  <1>10. QED
    BY <1>6, <1>7, <1>8, <1>9 DEF IInv

(* Steps between the plain read and the insert change only the program     *)
(* point.                                                                  *)
LEMMA LookupMissInv ==
    ASSUME IInv, NEW w \in Workers, NEW p \in {"insert", "race"},
           txn[w].pc \in {"lookup", "insert"},
           p = "race" => Committed(txn[w].key) # {},
           txn' = [txn EXCEPT ![w].pc = p],
           UNCHANGED <<rows, token, answers, lastTx>>
    PROVE  IInv'
  <1>1. /\ txn'[w].pc = p /\ txn'[w].id = txn[w].id
        /\ txn'[w].key = txn[w].key /\ txn'[w].body = txn[w].body
        /\ txn'[w].own = txn[w].own
        /\ \A v \in Workers : v # w => txn'[v] = txn[v]
    BY DEF IInv, TypeOK, Txn
  <1>2. TypeOK'
    BY DEF IInv, TypeOK, Txn, Steps
  <1>3. Identities' /\ Calls'
    BY <1>1 DEF IInv, Identities, Calls, Active
  <1>4. Exclusive' /\ RaceFound'
    BY <1>1
       DEF IInv, Exclusive, CommittedUnique, OwnUnique,
           OwnNotCommitted, OwnExclusive, RaceFound, Committed
  <1>5. Outcomes'
    BY <1>1 DEF IInv, Outcomes
  <1>6. QED
    BY <1>2, <1>3, <1>4, <1>5 DEF IInv

-----------------------------------------------------------------------------
(* Steps that write a row into the transaction, or publish it.             *)

LEMMA InsertInv ==
    ASSUME IInv, NEW w \in Workers, Insert(w)
    PROVE  IInv'
  <1>1. /\ txn'[w].pc = "reserved" /\ txn'[w].id = txn[w].id
        /\ txn'[w].key = txn[w].key /\ txn'[w].body = txn[w].body
        /\ txn'[w].own = {NewRow(w)}
        /\ \A v \in Workers : v # w => txn'[v] = txn[v]
    BY DEF Insert, IInv, TypeOK, Txn
  <1>2. rows' = rows /\ answers' = answers /\ lastTx' = lastTx
    BY DEF Insert
  <1>3. Active(w) /\ txn[w].id \in TxIds
    BY MaxTxAssumption DEF Insert, Active, IInv, Identities, TypeOK, TxIds
  <1>4. NewRow(w) \in Row
    BY <1>3 DEF Insert, NewRow, Row, Statuses, IInv, Calls
  <1>5. /\ NewRow(w).key = txn[w].key /\ NewRow(w).body = txn[w].body
        /\ NewRow(w).command = txn[w].id
    BY DEF NewRow
  <1>6. TypeOK'
    <2>1. txn[w] \in Txn /\ {NewRow(w)} \in SUBSET Row
      BY <1>4 DEF IInv, TypeOK
    <2>2. [txn[w] EXCEPT !.pc = "reserved", !.own = {NewRow(w)}] \in Txn
      BY <2>1 DEF Txn, Steps
    <2>3. txn' = [txn EXCEPT ![w] = [txn[w] EXCEPT !.pc = "reserved", !.own = {NewRow(w)}]]
      BY DEF Insert, IInv, TypeOK
    <2>4. txn' \in [Workers -> Txn]
      BY <2>2, <2>3 DEF IInv, TypeOK
    <2>5. token' \in [Workers -> TxIds \cup {0}]
      BY <1>3 DEF Insert, IInv, TypeOK
    <2>6. QED
      BY <1>2, <2>4, <2>5 DEF IInv, TypeOK
  <1>7. Identities'
    BY <1>1, <1>2, <1>3 DEF IInv, Identities, Active
  <1>8. Calls'
    <2>1. txn[w].key \in Keys /\ txn[w].body \in Bodies
      BY DEF Insert, IInv, Calls
    <2>2. \A o \in txn'[w].own : o = NewRow(w)
      BY <1>1
    <2>3. QED
      BY <1>1, <1>5, <2>1, <2>2 DEF IInv, Calls
  <1>9. OwnUnique' /\ CommittedUnique'
    BY <1>1, <1>2 DEF IInv, Exclusive, OwnUnique, CommittedUnique
  <1>10. OwnNotCommitted'
    <2>1. \A r \in rows : r.key # txn[w].key
      BY DEF Insert, Committed
    <2>2. \A o \in txn'[w].own : o.key = txn[w].key
      BY <1>1, <1>5
    <2>3. QED
      BY <1>1, <1>2, <2>1, <2>2 DEF IInv, Exclusive, OwnNotCommitted
  <1>11. OwnExclusive'
    <2>1. \A v \in Workers : v # w => \A p \in txn[v].own : p.key # txn[w].key
      BY DEF Insert, InFlightElsewhere
    <2>2. \A o \in txn'[w].own : o.key = txn[w].key
      BY <1>1, <1>5
    <2>3. QED
      BY <1>1, <2>1, <2>2 DEF IInv, Exclusive, OwnExclusive
  <1>12. RaceFound' /\ Outcomes'
    BY <1>1, <1>2 DEF IInv, RaceFound, Outcomes, Committed
  <1>13. QED
    BY <1>6, <1>7, <1>8, <1>9, <1>10, <1>11, <1>12 DEF IInv, Exclusive

LEMMA CompleteInv ==
    ASSUME IInv, NEW w \in Workers, NEW v \in Workers, NEW s \in Snapshots,
           Complete(w, v, s)
    PROVE  IInv'
  <1>1. v = w /\ token[w] = txn[w].id /\ Active(w)
    BY DEF Complete, Eligible, Owned, Active
  <1>2. PICK r \in Held(w, w) :
          LET done == [r EXCEPT !.status = "Completed", !.snapshot = s]
          IN  txn' = [txn EXCEPT ![w] =
                         [txn[w] EXCEPT !.pc = "decided", !.own = {done},
                              !.outcome = Outcome(done, done.body, "Executed")]]
    BY <1>1 DEF Complete
  <1> DEFINE done == [r EXCEPT !.status = "Completed", !.snapshot = s]
             a == Outcome(done, done.body, "Executed")
  <1>3. r \in txn[w].own /\ r \in Row
    BY <1>1 DEF Held, IInv, Identities, TypeOK, Txn
  <1>4. /\ done \in Row /\ done.status = "Completed"
        /\ done.key = r.key /\ done.body = r.body /\ done.command = r.command
    BY <1>3 DEF Row, Statuses
  <1>5. a \in Answer /\ a.kind = "Executed" /\ RestsOn(a, {done})
    BY <1>4, ExecutedAnswer
  <1>6. /\ txn'[w] \in Txn
        /\ txn'[w].pc = "decided" /\ txn'[w].id = txn[w].id
        /\ txn'[w].key = txn[w].key /\ txn'[w].body = txn[w].body
        /\ txn'[w].own = {done} /\ txn'[w].outcome = a
        /\ \A u \in Workers : u # w => txn'[u] = txn[u]
    <2>1. txn[w] \in Txn /\ {done} \in SUBSET Row
      BY <1>4 DEF IInv, TypeOK
    <2>2. txn' = [txn EXCEPT ![w] = [txn[w] EXCEPT !.pc = "decided", !.own = {done},
                                                   !.outcome = a]]
      BY <1>2
    <2> HIDE DEF done, a
    <2>3. [txn[w] EXCEPT !.pc = "decided", !.own = {done}, !.outcome = a] \in Txn
      BY <1>5, <2>1 DEF Txn, Steps
    <2>4. txn'[w] = [txn[w] EXCEPT !.pc = "decided", !.own = {done}, !.outcome = a]
      BY <2>2 DEF IInv, TypeOK
    <2>5. QED
      BY <2>1, <2>2, <2>3, <2>4 DEF IInv, TypeOK, Txn
  <1>7. rows' = rows /\ answers' = answers /\ lastTx' = lastTx /\ token' = token
    BY DEF Complete
  <1> HIDE DEF done, a
  <1>8. TypeOK'
    BY <1>2, <1>6, <1>7 DEF IInv, TypeOK
  <1>9. Identities'
    BY <1>1, <1>6, <1>7 DEF IInv, Identities, Active
  <1>10. Calls'
    <2>1. /\ txn[w].pc # "idle" /\ r.key = txn[w].key /\ r.body = txn[w].body
          /\ r.command = txn[w].id
      BY <1>3 DEF Complete, IInv, Calls
    <2>2. \A o \in txn'[w].own : o = done
      BY <1>6
    <2>3. QED
      BY <1>4, <1>6, <2>1, <2>2 DEF IInv, Calls
  <1>11. CommittedUnique' /\ OwnUnique'
    BY <1>6, <1>7 DEF IInv, Exclusive, CommittedUnique, OwnUnique
  <1>12. OwnNotCommitted'
    BY <1>3, <1>4, <1>6, <1>7 DEF IInv, Exclusive, OwnNotCommitted
  <1>13. OwnExclusive'
    BY <1>3, <1>4, <1>6 DEF IInv, Exclusive, OwnExclusive
  <1>14. RaceFound' /\ Outcomes'
    <2>1. RestsOn(txn'[w].outcome, txn'[w].own)
      BY <1>5, <1>6
    <2>2. txn'[w].outcome.kind = "Executed" /\ txn'[w].outcome \in Answer
      BY <1>5, <1>6
    <2>3. RaceFound'
      BY <1>6, <1>7 DEF IInv, RaceFound, Committed
    <2>4. QED
      BY <1>6, <1>7, <2>1, <2>2, <2>3 DEF IInv, Outcomes
  <1>15. QED
    BY <1>8, <1>9, <1>10, <1>11, <1>12, <1>13, <1>14 DEF IInv, Exclusive

(* The end of a transaction: its rows, if it commits, become committed and *)
(* its session keeps at most an answer that rests on a committed row.      *)
LEMMA PublishInv ==
    ASSUME IInv, NEW w \in Workers, Active(w),
           NEW t \in Txn, t.own = {},
           \/ t = NoTxn
           \/ /\ t.pc = "answering" /\ t.key = txn[w].key /\ t.body = txn[w].body
              /\ t.outcome \in Answer /\ RestsOn(t.outcome, rows'),
           txn' = [txn EXCEPT ![w] = t],
           rows' = rows \/ rows' = Publish(w),
           token' \in [Workers -> TxIds \cup {0}],
           UNCHANGED <<answers, lastTx>>
    PROVE  IInv'
  <1>1. /\ txn'[w] = t
        /\ \A v \in Workers : v # w => txn'[v] = txn[v]
    BY DEF IInv, TypeOK
  <1>2. t.pc \in {"idle", "answering"}
    BY DEF NoTxn
  <1>3. rows \subseteq rows' /\ rows' \subseteq rows \cup txn[w].own
    BY PublishAdds
  <1>4. TypeOK'
    BY <1>3 DEF IInv, TypeOK, Txn
  <1>5. Identities'
    BY <1>1, <1>2, <1>3 DEF IInv, Identities, Calls, Active
  <1>6. Calls'
    BY <1>1, <1>2 DEF IInv, Calls, NoTxn, Active
  <1>7. CommittedUnique'
    BY <1>3 DEF IInv, Exclusive, CommittedUnique, OwnUnique, OwnNotCommitted
  <1>8. OwnUnique' /\ OwnExclusive'
    BY <1>1 DEF IInv, Exclusive, OwnUnique, OwnExclusive
  <1>9. OwnNotCommitted'
    BY <1>1, <1>3 DEF IInv, Exclusive, OwnNotCommitted, OwnExclusive
  <1>10. RaceFound'
    BY <1>1, <1>2, <1>3 DEF IInv, RaceFound, Committed
  <1>11. Outcomes'
    <2>1. \A v \in Workers : v # w =>
              /\ txn'[v].pc \in {"decided", "answering"} => txn'[v].outcome \in Answer
              /\ txn'[v].pc = "decided" =>
                    IF txn'[v].outcome.kind = "Executed"
                    THEN RestsOn(txn'[v].outcome, txn'[v].own)
                    ELSE txn'[v].own = {} /\ RestsOn(txn'[v].outcome, rows')
              /\ txn'[v].pc = "answering" =>
                    txn'[v].own = {} /\ RestsOn(txn'[v].outcome, rows')
      BY <1>1, <1>3, RestsOnMonotone DEF IInv, Outcomes
    <2>2. \A a \in answers' : RestsOn(a, rows')
      BY <1>3, RestsOnMonotone DEF IInv, Outcomes
    <2>3. t.pc \in {"decided", "answering"} =>
              t.pc = "answering" /\ t.outcome \in Answer /\ RestsOn(t.outcome, rows')
      BY DEF NoTxn
    <2>4. QED
      BY <1>1, <2>1, <2>2, <2>3 DEF Outcomes
  <1>12. QED
    BY <1>4, <1>5, <1>6, <1>7, <1>8, <1>9, <1>10, <1>11 DEF IInv, Exclusive

LEMMA RespondInv ==
    ASSUME IInv, NEW w \in Workers, Respond(w)
    PROVE  IInv'
  <1>1. txn'[w] = NoTxn /\ \A v \in Workers : v # w => txn'[v] = txn[v]
    BY DEF Respond, IInv, TypeOK
  <1>2. /\ rows' = rows /\ lastTx' = lastTx /\ token' = token
        /\ answers' = answers \cup {txn[w].outcome}
    BY DEF Respond
  <1>3. txn[w].outcome \in Answer /\ RestsOn(txn[w].outcome, rows)
    BY DEF Respond, IInv, Outcomes
  <1>4. TypeOK'
    BY <1>2, <1>3, NoneAssumption DEF Respond, IInv, TypeOK, Txn, NoTxn, Steps
  <1>5. Identities' /\ Calls' /\ Exclusive' /\ RaceFound'
    BY <1>1, <1>2
       DEF IInv, Identities, Calls, Exclusive, CommittedUnique, OwnUnique,
           OwnNotCommitted, OwnExclusive, RaceFound, Committed, Active, NoTxn
  <1>6. Outcomes'
    BY <1>1, <1>2, <1>3 DEF IInv, Outcomes, NoTxn
  <1>7. QED
    BY <1>4, <1>5, <1>6 DEF IInv

-----------------------------------------------------------------------------
(* The inductive invariant.                                                *)

LEMMA EndTypes ==
    ASSUME IInv, NEW w \in Workers, NEW t, End(w, t)
    PROVE  token' \in [Workers -> TxIds \cup {0}]
  BY DEF End, IInv, TypeOK

LEMMA IdleIsTxn == NoTxn \in Txn
  BY NoneAssumption DEF NoTxn, Txn, Steps

(* A decided transaction ends in the answering state with its outcome.     *)
LEMMA DecisionEndsInv ==
    ASSUME IInv, NEW w \in Workers, txn[w].pc = "decided",
           End(w, Finished(w, "answering")),
           rows' = IF Success(txn[w].outcome.kind) THEN Publish(w) ELSE rows,
           UNCHANGED <<answers, lastTx>>
    PROVE  IInv'
  <1> DEFINE t == Finished(w, "answering")
  <1>1. txn[w] \in Txn
    BY DEF IInv, TypeOK
  <1>2. /\ t \in Txn /\ t.own = {} /\ t.pc = "answering"
        /\ t.key = txn[w].key /\ t.body = txn[w].body /\ t.outcome = txn[w].outcome
    BY <1>1 DEF Finished, Txn, Steps
  <1>3. t.outcome \in Answer
    BY <1>2 DEF IInv, Outcomes
  <1>4. RestsOn(t.outcome, rows')
    <2>1. CASE txn[w].outcome.kind = "Executed"
      <3>1. RestsOn(txn[w].outcome, txn[w].own) /\ txn[w].own \subseteq rows'
        BY <2>1, PublishAdds DEF IInv, Outcomes, Success
      <3>2. QED
        BY <1>2, <3>1, RestsOnMonotone
    <2>2. CASE txn[w].outcome.kind # "Executed"
      <3>1. RestsOn(txn[w].outcome, rows) /\ rows \subseteq rows'
        BY <2>2, PublishAdds DEF IInv, Outcomes
      <3>2. QED
        BY <1>2, <3>1, RestsOnMonotone
    <2>3. QED
      BY <2>1, <2>2
  <1>5. Active(w) /\ txn' = [txn EXCEPT ![w] = t]
    BY DEF Active, End
  <1>6. token' \in [Workers -> TxIds \cup {0}]
    BY EndTypes
  <1> HIDE DEF t
  <1>7. QED
    BY <1>2, <1>3, <1>4, <1>5, <1>6, PublishInv

LEMMA NextInv == IInv /\ [Next]_vars => IInv'
  <1> SUFFICES ASSUME IInv, [Next]_vars PROVE IInv'
    OBVIOUS
  <1>1. CASE UNCHANGED vars
    BY <1>1, StutterInv
  <1>2. ASSUME NEW w \in Workers, NEW k \in Keys, NEW b \in Bodies, Open(w, k, b)
        PROVE  IInv'
    BY <1>2, OpenInv
  <1>3. ASSUME NEW w \in Workers, Lookup(w) PROVE IInv'
    <2>1. CASE txn' = [txn EXCEPT ![w].pc = "insert"]
      BY <1>3, <2>1, LookupMissInv DEF Lookup
    <2>2. ASSUME NEW r \in Committed(txn[w].key), txn' = [txn EXCEPT ![w] = Decided(w, r)]
          PROVE  IInv'
      <3>1. txn[w].pc = "lookup" /\ txn[w] \in Txn
        BY <1>3 DEF Lookup, IInv, TypeOK
      <3>2. txn[w].locked \in BOOLEAN
        BY <3>1 DEF Txn
      <3>3. Decided(w, r) = [Decided(w, r) EXCEPT !.locked = txn[w].locked]
        BY <3>1 DEF Decided, Txn
      <3>4. Moves(w, [Decided(w, r) EXCEPT !.locked = txn[w].locked])
        BY <1>3, <2>2, <3>3 DEF Moves, Lookup
      <3>5. QED
        BY <1>3, <3>1, <3>2, <3>4, DecidedInv DEF Lookup
    <2>3. QED
      BY <1>3, <2>1, <2>2 DEF Lookup
  <1>4. ASSUME NEW w \in Workers, Insert(w) PROVE IInv'
    BY <1>4, InsertInv
  <1>5. ASSUME NEW w \in Workers, UniqueViolation(w) PROVE IInv'
    BY <1>5, LookupMissInv DEF UniqueViolation
  <1>6. ASSUME NEW w \in Workers, ReadWinner(w) PROVE IInv'
    <2>1. PICK r \in Committed(txn[w].key) :
            txn' = [txn EXCEPT ![w] = [Decided(w, r) EXCEPT !.locked = TRUE]]
      BY <1>6 DEF ReadWinner
    <2>2. QED
      BY <1>6, <2>1, DecidedInv DEF ReadWinner, Moves
  <1>7. ASSUME NEW w \in Workers, NEW v \in Workers, NEW s \in Snapshots, Complete(w, v, s)
        PROVE  IInv'
    BY <1>7, CompleteInv
  <1>8. ASSUME NEW w \in Workers, NEW v \in Workers, RejectCompletion(w, v)
        PROVE  IInv'
    BY <1>8, EndTypes, EndInv DEF RejectCompletion, End, Moves
  <1>9. ASSUME NEW w \in Workers, Commit(w) PROVE IInv'
    BY <1>9, DecisionEndsInv DEF Commit
  <1>10. ASSUME NEW w \in Workers, Raise(w) PROVE IInv'
    BY <1>10, DecisionEndsInv DEF Raise
  <1>11. ASSUME NEW w \in Workers, CommitIncomplete(w) PROVE IInv'
    <2>1. Active(w) /\ NoTxn.own = {} /\ txn' = [txn EXCEPT ![w] = NoTxn]
      BY <1>11 DEF CommitIncomplete, Active, NoTxn, End
    <2>2. token' \in [Workers -> TxIds \cup {0}]
      BY <1>11, EndTypes DEF CommitIncomplete
    <2>3. QED
      BY <1>11, <2>1, <2>2, IdleIsTxn, PublishInv DEF CommitIncomplete
  <1>12. ASSUME NEW w \in Workers, Respond(w) PROVE IInv'
    BY <1>12, RespondInv
  <1>13. ASSUME NEW w \in Workers, LoseResponse(w) PROVE IInv'
    BY <1>13, EndInv DEF LoseResponse, Moves, IInv, TypeOK
  <1>14. ASSUME NEW w \in Workers, Abort(w) PROVE IInv'
    BY <1>14, EndTypes, EndInv DEF Abort, End, Moves
  <1>15. QED
    BY <1>1, <1>2, <1>3, <1>4, <1>5, <1>6, <1>7, <1>8, <1>9, <1>10, <1>11,
       <1>12, <1>13, <1>14 DEF Next

LEMMA InvariantHolds == Spec => []IInv
  BY InitInv, NextInv, PTL DEF Spec

-----------------------------------------------------------------------------
(* Type correctness of the service's state.                                *)
THEOREM TypeCorrect == Spec => []TypeOK
  <1>1. IInv => TypeOK
    BY DEF IInv
  <1>2. QED
    BY <1>1, InvariantHolds, PTL

(* A command key has at most one row, committed or in flight, in every     *)
(* interleaving of any number of sessions: no command runs twice at once.  *)
THEOREM AtMostOneReservation == Spec => []ReservationExclusive
  <1>1. IInv => ReservationExclusive
    BY DEF IInv, Exclusive, CommittedUnique, OwnUnique, OwnNotCommitted,
           OwnExclusive, ReservationExclusive
  <1>2. QED
    BY <1>1, InvariantHolds, PTL

(* All successes ever answered for a key report the one committed          *)
(* execution, and a conflict answer always has a committed command behind  *)
(* it.                                                                     *)
THEOREM AnswersRestOnCommits == Spec => [](AnswersAgree /\ ConflictJustified)
  <1>1. IInv => AnswersAgree /\ ConflictJustified
    BY DEF IInv, Outcomes, RestsOn, Once!Justified, AnswersAgree,
           ConflictJustified, Success, Committed
  <1>2. QED
    BY <1>1, InvariantHolds, PTL

(* The locked read after a unique violation finds the winner.              *)
THEOREM WinnerIsFound == Spec => []RaceLoserFindsWinner
  <1>1. IInv => RaceLoserFindsWinner
    BY DEF IInv, RaceFound, RaceLoserFindsWinner
  <1>2. QED
    BY <1>1, InvariantHolds, PTL

(* Each step leaves the committed rows or adds one transaction's rows.     *)
LEMMA RowsGrow ==
    ASSUME IInv, [Next]_vars
    PROVE  rows' = rows \/ \E w \in Workers : rows' = rows \cup txn[w].own
  BY PublishAdds DEF Next, vars, Open, Lookup, Insert, UniqueViolation, ReadWinner,
     Complete, RejectCompletion, Commit, Raise, CommitIncomplete, Respond,
     LoseResponse, Abort

(* A transaction keeps its identity, key and body for as long as it is     *)
(* open.                                                                   *)
LEMMA CallKept ==
    ASSUME IInv, [Next]_vars, lastTx' = lastTx, NEW w \in Workers, Active(w)'
    PROVE  /\ Active(w) /\ txn'[w].id = txn[w].id
           /\ txn'[w].key = txn[w].key /\ txn'[w].body = txn[w].body
  <1> DEFINE Same(v, t) == /\ t.id = txn[v].id /\ t.key = txn[v].key /\ t.body = txn[v].body
             Goal == /\ Active(w) /\ txn'[w].id = txn[w].id
                     /\ txn'[w].key = txn[w].key /\ txn'[w].body = txn[w].body
  <1>1. txn \in [Workers -> Txn] /\ lastTx \in Nat
    BY MaxTxAssumption DEF IInv, TypeOK, TxIds
  <1>2. ASSUME NEW v \in Workers, NEW t, txn' = [txn EXCEPT ![v] = t],
               t.pc \in {"idle", "answering"} \/ (Active(v) /\ Same(v, t))
        PROVE  Goal
    BY <1>1, <1>2 DEF Active
  <1>3. ASSUME NEW v \in Workers, NEW r
        PROVE  Same(v, Decided(v, r)) /\ Same(v, [Decided(v, r) EXCEPT !.locked = TRUE])
    BY <1>1 DEF Decided, Txn
  <1>4. ASSUME UNCHANGED vars PROVE Goal
    BY <1>4 DEF vars, Active
  <1>5. ASSUME NEW v \in Workers, NEW k \in Keys, NEW b \in Bodies, Open(v, k, b)
        PROVE  Goal
    BY <1>1, <1>5 DEF Open
  <1>6. ASSUME NEW v \in Workers, Lookup(v) \/ ReadWinner(v) PROVE Goal
    <2>1. Active(v)
      BY <1>6 DEF Lookup, ReadWinner, Active
    <2>2. CASE txn' = [txn EXCEPT ![v].pc = "insert"]
      BY <1>1, <2>1, <2>2 DEF Txn, Active
    <2>3. CASE \E r : \/ txn' = [txn EXCEPT ![v] = Decided(v, r)]
                      \/ txn' = [txn EXCEPT ![v] = [Decided(v, r) EXCEPT !.locked = TRUE]]
      <3> HIDE DEF Same, Goal
      <3>1. QED
        BY <1>2, <1>3, <2>1, <2>3
    <2>4. QED
      BY <1>6, <2>2, <2>3 DEF Lookup, ReadWinner
  <1>7. ASSUME NEW v \in Workers, Insert(v) \/ UniqueViolation(v) PROVE Goal
    BY <1>1, <1>7 DEF Insert, UniqueViolation, Txn, Active
  <1>8. ASSUME NEW v \in Workers, NEW u \in Workers, NEW s \in Snapshots, Complete(v, u, s)
        PROVE  Goal
    <2>1. Active(v)
      BY <1>8 DEF Complete, Active
    <2>2. PICK own, outcome :
             txn' = [txn EXCEPT ![v] = [txn[v] EXCEPT !.pc = "decided", !.own = own,
                                                      !.outcome = outcome]]
      BY <1>8 DEF Complete
    <2>3. PICK t : t = [txn[v] EXCEPT !.pc = "decided", !.own = own, !.outcome = outcome]
      OBVIOUS
    <2>4. Same(v, t)
      BY <1>1, <2>3 DEF Txn
    <2> HIDE DEF Same, Goal
    <2>5. QED
      BY <1>2, <2>1, <2>2, <2>3, <2>4
  <1>9. ASSUME NEW v \in Workers, NEW u \in Workers,
               \/ RejectCompletion(v, u) \/ Commit(v) \/ Raise(v) \/ CommitIncomplete(v)
               \/ Respond(v) \/ LoseResponse(v) \/ Abort(v)
        PROVE  Goal
    <2>1. NoTxn.pc = "idle" /\ Finished(v, "answering").pc = "answering"
      BY <1>1 DEF NoTxn, Finished, Txn
    <2>2. \/ txn' = [txn EXCEPT ![v] = NoTxn]
          \/ txn' = [txn EXCEPT ![v] = Finished(v, "answering")]
      BY <1>9 DEF RejectCompletion, Commit, Raise, CommitIncomplete, Respond, LoseResponse,
                  Abort, End
    <2> HIDE DEF Same, Goal
    <2>3. QED
      BY <1>2, <2>1, <2>2
  <1> HIDE DEF Same, Goal
  <1>10. ASSUME Next PROVE Goal
    <2>1. PICK v \in Workers :
             \/ \E k \in Keys, b \in Bodies : Open(v, k, b)
             \/ Lookup(v) \/ Insert(v) \/ UniqueViolation(v) \/ ReadWinner(v)
             \/ \E u \in Workers : \/ \E s \in Snapshots : Complete(v, u, s)
                                   \/ RejectCompletion(v, u)
             \/ Commit(v) \/ Raise(v) \/ CommitIncomplete(v)
             \/ Respond(v) \/ LoseResponse(v) \/ Abort(v)
      BY <1>10 DEF Next
    <2>2. QED
      BY <2>1, <1>5, <1>6, <1>7, <1>8, <1>9
  <1>11. Goal
    BY <1>4, <1>10
  <1>12. QED
    BY <1>11 DEF Goal

(* No committed row is ever rewritten or removed, whatever reservations    *)
(* careless callers present.                                               *)
THEOREM CommittedRowsAreFinal == Spec => CommittedIsFinal
  <1>1. IInv /\ [Next]_vars => [rows \subseteq rows']_vars
    BY RowsGrow
  <1>2. QED
    BY <1>1, InvariantHolds, PTL DEF Spec, CommittedIsFinal

-----------------------------------------------------------------------------
(* Refinement of the write-once ledger.                                    *)

LEMMA InitRefines == Init => Once!Init
  BY DEF Init, Once!Init, Committed

(* Publishing a transaction's row fills the empty cell of its key.         *)
LEMMA PublishRefines ==
    ASSUME IInv, NEW w \in Workers, rows' = rows \cup txn[w].own, answers' = answers
    PROVE  [Once!Next]_(Once!vars)
  <1>1. CASE txn[w].own = {}
    BY <1>1 DEF Once!vars, Committed
  <1>2. CASE txn[w].own # {}
    <2>1. PICK e \in txn[w].own : TRUE
      BY <1>2
    <2>2. txn[w].own = {e} /\ e \in Row /\ e.key \in Keys
      BY <2>1 DEF IInv, TypeOK, Txn, Exclusive, OwnUnique, Row
    <2>3. Committed(e.key) = {}
      BY <2>1 DEF IInv, Exclusive, OwnNotCommitted, Committed
    <2>4. \A k \in Keys : Committed(k)' = IF k = e.key THEN {e} ELSE Committed(k)
      BY <2>2, <2>3 DEF Committed
    <2>5. [k \in Keys |-> Committed(k)]'
             = [[k \in Keys |-> Committed(k)] EXCEPT ![e.key] = {e}]
      BY <2>2, <2>4
    <2>6. Once!Record(e.key, e)
      BY <2>2, <2>3, <2>5 DEF Once!Record
    <2>7. QED
      BY <2>2, <2>6 DEF Once!Next
  <1>3. QED
    BY <1>1, <1>2

(* An answer is read off the cell of its key.                              *)
LEMMA RespondRefines ==
    ASSUME IInv, NEW w \in Workers, Respond(w)
    PROVE  Once!Next
  <1> DEFINE a == txn[w].outcome
  <1>1. a \in Answer /\ RestsOn(a, rows)
    BY DEF Respond, IInv, Outcomes
  <1>2. a.key \in Keys
    BY <1>1 DEF Answer
  <1>3. \E e \in [k \in Keys |-> Committed(k)][a.key] : Once!Justified(a, e)
    BY <1>1, <1>2 DEF RestsOn, Committed
  <1>4. answers' = answers \cup {a} /\ rows' = rows
    BY DEF Respond
  <1>5. [k \in Keys |-> Committed(k)]' = [k \in Keys |-> Committed(k)]
    BY <1>4 DEF Committed
  <1>6. Once!Reply(a)
    BY <1>3, <1>4, <1>5 DEF Once!Reply
  <1>7. QED
    BY <1>2, <1>4, <1>6 DEF Once!Next

LEMMA NextRefines == IInv /\ [Next]_vars => [Once!Next]_(Once!vars)
  <1> SUFFICES ASSUME IInv, [Next]_vars PROVE [Once!Next]_(Once!vars)
    OBVIOUS
  <1>1. CASE \E w \in Workers : Respond(w)
    BY <1>1, RespondRefines
  <1>2. CASE ~ \E w \in Workers : Respond(w)
    <2>1. answers' = answers
      BY <1>2 DEF Next, vars, Open, Lookup, Insert, UniqueViolation, ReadWinner,
           Complete, RejectCompletion, Commit, Raise, CommitIncomplete,
           LoseResponse, Abort
    <2>2. CASE rows' = rows
      BY <2>1, <2>2 DEF Once!vars, Committed
    <2>3. QED
      BY <2>1, <2>2, RowsGrow, PublishRefines
  <1>3. QED
    BY <1>1, <1>2

(* The service, with its sessions, locks, races and lost responses,        *)
(* implements one write-once cell per command key.                         *)
THEOREM ServiceImplementsOnce == Spec => ImplementsOnce
  <1>1. QED
    BY InitRefines, NextRefines, InvariantHolds, PTL
       DEF Spec, ImplementsOnce, Once!Spec

-----------------------------------------------------------------------------
(* Production callers, which complete before they commit.                  *)
AllComplete ==
    /\ \A r \in rows : r.status = "Completed"
    /\ \A a \in answers : a.kind # "Integrity"
    /\ \A w \in Workers : txn[w].pc \in {"decided", "answering"}
                              => txn[w].outcome.kind # "Integrity"

LEMMA AllCompleteStep ==
    ASSUME Careless = {}, IInv, AllComplete, [Next]_vars
    PROVE  AllComplete'
  <1>1. CASE UNCHANGED vars
    BY <1>1 DEF vars, AllComplete
  <1>2. ASSUME NEW w \in Workers, NEW t,
               txn' = [txn EXCEPT ![w] = t],
               t.pc \in {"decided", "answering"} => t.outcome.kind # "Integrity"
        PROVE  \A v \in Workers : txn'[v].pc \in {"decided", "answering"}
                                      => txn'[v].outcome.kind # "Integrity"
    BY <1>2 DEF AllComplete, IInv, TypeOK
  <1>3. ASSUME NEW w \in Workers, NEW r \in Committed(txn[w].key)
        PROVE  Decided(w, r).outcome.kind # "Integrity"
    BY <1>3 DEF AllComplete, IInv, TypeOK, Txn, Committed, Decided, Outcome, Classify
  <1>4. ASSUME NEW w \in Workers, NEW k \in Keys, NEW b \in Bodies, Open(w, k, b)
        PROVE  AllComplete'
    BY <1>2, <1>4 DEF Open, NoTxn, AllComplete
  <1>5. ASSUME NEW w \in Workers, Lookup(w) \/ ReadWinner(w)
        PROVE  AllComplete'
    <2>1. rows' = rows /\ answers' = answers
      BY <1>5 DEF Lookup, ReadWinner
    <2>2. \A v \in Workers : v # w => txn'[v] = txn[v]
      BY <1>5 DEF Lookup, ReadWinner, IInv, TypeOK
    <2>3. txn[w] \in Txn
      BY DEF IInv, TypeOK
    <2>4. txn'[w].pc = "insert" \/ txn'[w].outcome.kind # "Integrity"
      <3>1. CASE txn' = [txn EXCEPT ![w].pc = "insert"]
        BY <2>3, <3>1 DEF IInv, TypeOK, Txn
      <3>2. ASSUME NEW r \in Committed(txn[w].key),
                   \/ txn' = [txn EXCEPT ![w] = Decided(w, r)]
                   \/ txn' = [txn EXCEPT ![w] = [Decided(w, r) EXCEPT !.locked = TRUE]]
            PROVE  txn'[w].outcome = Decided(w, r).outcome
        BY <2>3, <3>2 DEF Decided, IInv, TypeOK, Txn
      <3>3. QED
        BY <1>3, <1>5, <3>1, <3>2 DEF Lookup, ReadWinner
    <2>5. QED
      BY <2>1, <2>2, <2>4 DEF AllComplete
  <1>6. ASSUME NEW w \in Workers, Insert(w) \/ UniqueViolation(w)
        PROVE  AllComplete'
    BY <1>6 DEF Insert, UniqueViolation, AllComplete, IInv, TypeOK, Txn
  <1>7. ASSUME NEW w \in Workers, NEW v \in Workers, NEW s \in Snapshots, Complete(w, v, s)
        PROVE  AllComplete'
    BY <1>7 DEF Complete, AllComplete, IInv, TypeOK, Txn, Outcome
  <1>8. ASSUME NEW w \in Workers, Commit(w) \/ Raise(w) PROVE AllComplete'
    <2>1. \A r \in rows' : r.status = "Completed"
      BY <1>8, PublishAdds DEF Commit, Raise, AllComplete, IInv, Calls
    <2>2. txn[w] \in Txn /\ txn' = [txn EXCEPT ![w] = Finished(w, "answering")]
      BY <1>8 DEF Commit, Raise, End, IInv, TypeOK
    <2>3. Finished(w, "answering").outcome.kind # "Integrity"
      BY <1>8, <2>2 DEF Commit, Raise, Finished, Txn, AllComplete
    <2>4. QED
      BY <1>2, <1>8, <2>1, <2>2, <2>3 DEF Commit, Raise, AllComplete
  <1>9. ASSUME NEW w \in Workers, Respond(w) \/ LoseResponse(w) \/ Abort(w)
        PROVE  AllComplete'
    BY <1>2, <1>9 DEF Respond, LoseResponse, Abort, End, NoTxn, AllComplete
  <1>10. QED
    BY <1>1, <1>4, <1>5, <1>6, <1>7, <1>8, <1>9
       DEF Next, RejectCompletion, CommitIncomplete

(* When every caller completes before it commits, no committed row is ever *)
(* Processing and no call is ever answered with the integrity incident.    *)
THEOREM NoIntegrityIncident ==
    ASSUME Careless = {}
    PROVE  Spec => []NoIncident
  <1>1. Init => AllComplete
    BY DEF Init, AllComplete, NoTxn
  <1>2. IInv /\ AllComplete /\ [Next]_vars => AllComplete'
    BY AllCompleteStep
  <1>3. AllComplete => NoIncident
    BY DEF AllComplete, NoIncident
  <1>4. QED
    BY <1>1, <1>2, <1>3, InvariantHolds, PTL DEF Spec
=============================================================================
