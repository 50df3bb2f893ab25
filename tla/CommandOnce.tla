---------------------------- MODULE CommandOnce ----------------------------
(***************************************************************************)
(* What the command-idempotency service promises its callers, with no      *)
(* sessions, transactions or locks: each command key owns one write-once   *)
(* ledger cell, and every answer about the key is read off that cell.      *)
(***************************************************************************)
EXTENDS Naturals

CONSTANTS Keys,      \* scoped command keys
          Entries    \* what a cell may hold: command, body, status, snapshot

VARIABLES ledger,    \* [Keys -> SUBSET Entries], empty or one entry
          answers    \* answers delivered to clients

vars == <<ledger, answers>>

(* The answers a filled cell e justifies.                                  *)
Justified(a, e) ==
    \/ /\ a.kind = "Conflict"
       /\ e.body # a.body
    \/ /\ a.kind = "Integrity"
       /\ e.body = a.body
       /\ e.status = "Processing"
    \/ /\ a.kind \in {"Executed", "Replayed"}
       /\ e.status = "Completed"
       /\ e.body = a.body
       /\ e.command = a.command
       /\ e.snapshot = a.snapshot

Init == /\ ledger = [k \in Keys |-> {}]
        /\ answers = {}

Record(k, e) == /\ ledger[k] = {}
                /\ ledger' = [ledger EXCEPT ![k] = {e}]
                /\ UNCHANGED answers

Reply(a) == /\ \E e \in ledger[a.key] : Justified(a, e)
            /\ answers' = answers \cup {a}
            /\ UNCHANGED ledger

Next == \/ \E k \in Keys, e \in Entries : e.key = k /\ Record(k, e)
        \/ \E a \in answers' : a.key \in Keys /\ Reply(a)

Spec == Init /\ [][Next]_vars
=============================================================================
