------------------------------- MODULE KeyCache -------------------------------
(***************************************************************************)
(* SupabaseJwtVerifier and its cache of the identity provider's keys.  The *)
(* FastAPI dependency that calls it is a plain function, so calls run in   *)
(* threads of one process and share the cache, whose two attributes are    *)
(* assigned one after the other and without a lock.  Tokens are correctly  *)
(* signed and unexpired here: only their key id matters.                   *)
(*                                                                         *)
(* External: the identity provider, which publishes and withdraws keys and *)
(* never reuses an id.  clock is the process's monotonic clock.            *)
(***************************************************************************)
EXTENDS Naturals

CONSTANTS Threads,
          Kids,      \* key ids
          First,     \* the key ids published at the start
          Cache,     \* jwks_cache_seconds
          MaxLoad,   \* longest a thread takes from the cache check to its key
          MaxClock   \* bound: clock

ASSUME FirstAssumption == First \subseteq Kids
ASSUME ClockAssumption == Cache \in Nat /\ MaxLoad \in Nat /\ MaxClock \in Nat

VARIABLES published,    \* key ids in the provider's document
          withdrawnAt,  \* when a key id left it (history)
          keys,         \* _keys
          loadedAt,     \* _loaded_at
          clock,
          call          \* what each thread is doing

vars == <<published, withdrawnAt, keys, loadedAt, clock, call>>
provider == <<published, withdrawnAt>>
cache == <<keys, loadedAt>>

Times == 0..MaxClock
Never == MaxClock + 1

(* document is the key document in flight.  The last two fields are        *)
(* history: was the key published when the call arrived, and did another   *)
(* thread replace the document that this call had loaded for it.           *)
Call == [pc : {"check", "fetch", "install", "stamp", "get", "refused"},
         kid : Kids, refresh : BOOLEAN, checked : Times, document : SUBSET Kids,
         known : BOOLEAN, overwritten : BOOLEAN]

Idle == [pc |-> "idle"]
Verified == [pc |-> "verified"]

TypeOK == /\ published \subseteq Kids
          /\ withdrawnAt \in [Kids -> 0..Never]
          /\ keys \subseteq Kids
          /\ loadedAt \in Times
          /\ clock \in Times
          /\ call \in [Threads -> Call \cup {Idle, Verified}]

Init == /\ published = First
        /\ withdrawnAt = [k \in Kids |-> Never]
        /\ keys = {}
        /\ loadedAt = 0
        /\ clock = 0
        /\ call = [t \in Threads |-> Idle]

-----------------------------------------------------------------------------
(* Mutant: the cache never expires.                                        *)
NeverExpired == FALSE

Expired == clock - loadedAt >= Cache

Loading(t) == call[t].pc \in {"fetch", "install", "stamp", "get"}

Goto(t, pc) == call' = [call EXCEPT ![t].pc = pc]

Receive(t, k) ==
    /\ call[t].pc = "idle"
    /\ call' = [call EXCEPT ![t] =
          [pc |-> "check", kid |-> k, refresh |-> FALSE, checked |-> clock,
           document |-> {}, known |-> k \in published, overwritten |-> FALSE]]
    /\ UNCHANGED <<provider, cache, clock>>

(* _key: load when told to, when nothing is cached or the cache is old.    *)
CheckCache(t) ==
    /\ call[t].pc = "check"
    /\ call' = [call EXCEPT
          ![t].pc = IF call[t].refresh \/ keys = {} \/ Expired THEN "fetch" ELSE "get",
          ![t].checked = clock, ![t].overwritten = FALSE]
    /\ UNCHANGED <<provider, cache, clock>>

(* The provider answers the loader with the document of the moment.        *)
Fetch(t) ==
    /\ call[t].pc = "fetch"
    /\ call' = [call EXCEPT ![t].pc = "install", ![t].document = published]
    /\ UNCHANGED <<provider, cache, clock>>

(* self._keys is assigned.                                                 *)
Install(t) ==
    /\ call[t].pc = "install"
    /\ keys' = call[t].document
    /\ call' = [u \in Threads |->
          IF u = t THEN [call[u] EXCEPT !.pc = "stamp", !.document = {}]
          ELSE IF call[u].pc \in {"stamp", "get"}
               THEN [call[u] EXCEPT !.overwritten = TRUE]
          ELSE call[u]]
    /\ UNCHANGED <<provider, loadedAt, clock>>

(* self._loaded_at is assigned.                                            *)
Stamp(t) ==
    /\ call[t].pc = "stamp"
    /\ loadedAt' = clock
    /\ Goto(t, "get")
    /\ UNCHANGED <<provider, keys, clock>>

(* Mutant: an unknown key id is not looked for in a fresh document.        *)
GetOnce(t) ==
    /\ call[t].pc = "get"
    /\ IF call[t].kid \in keys
       THEN call' = [call EXCEPT ![t] = Verified]
       ELSE Goto(t, "refused")
    /\ UNCHANGED <<provider, cache, clock>>

(* The key is taken from whatever _keys holds now; an unknown one forces   *)
(* one more load, and is refused after it.                                 *)
Get(t) ==
    /\ call[t].pc = "get"
    /\ \/ /\ call[t].kid \in keys
          /\ call' = [call EXCEPT ![t] = Verified]
       \/ /\ call[t].kid \notin keys
          /\ ~call[t].refresh
          /\ call' = [call EXCEPT ![t].pc = "check", ![t].refresh = TRUE]
       \/ /\ call[t].kid \notin keys
          /\ call[t].refresh
          /\ Goto(t, "refused")
    /\ UNCHANGED <<provider, cache, clock>>

(* Mutant: the thread keeps what it knows of the token.                    *)
ReturnKeeping(t) ==
    /\ call[t].pc \in {"verified", "refused"}
    /\ Goto(t, "idle")
    /\ UNCHANGED <<provider, cache, clock>>

(* verify returns the subject or raises.                                   *)
Return(t) ==
    /\ call[t].pc \in {"verified", "refused"}
    /\ call' = [call EXCEPT ![t] = Idle]
    /\ UNCHANGED <<provider, cache, clock>>

(* The loader fails or returns a malformed document (503).                 *)
FailLoad(t) ==
    /\ call[t].pc \in {"fetch", "install"}
    /\ call' = [call EXCEPT ![t] = Idle]
    /\ UNCHANGED <<provider, cache, clock>>

-----------------------------------------------------------------------------
(* External.                                                               *)

Publish(k) ==
    /\ k \notin published
    /\ withdrawnAt[k] = Never
    /\ published' = published \cup {k}
    /\ UNCHANGED <<withdrawnAt, cache, clock, call>>

Withdraw(k) ==
    /\ k \in published
    /\ published' = published \ {k}
    /\ withdrawnAt' = [withdrawnAt EXCEPT ![k] = clock]
    /\ UNCHANGED <<cache, clock, call>>

(* Time passes, but no thread spends more than MaxLoad in _key.            *)
Tick ==
    /\ clock < MaxClock
    /\ \A t \in Threads : Loading(t) => clock < call[t].checked + MaxLoad
    /\ clock' = clock + 1
    /\ UNCHANGED <<provider, cache, call>>

-----------------------------------------------------------------------------
Next == \/ \E t \in Threads :
              \/ \E k \in Kids : Receive(t, k)
              \/ CheckCache(t) \/ Fetch(t) \/ Install(t) \/ Stamp(t) \/ Get(t)
              \/ Return(t) \/ FailLoad(t)
        \/ \E k \in Kids : Publish(k) \/ Withdraw(k)
        \/ Tick

Spec == Init /\ [][Next]_vars

-----------------------------------------------------------------------------
(* A withdrawn key is accepted for at most the cache time and three loads: *)
(* a slow load can put an old document back after a newer one, and another *)
(* thread's later stamp can make that document look fresh for one cache    *)
(* time more.                                                              *)
WithdrawnKeyExpires ==
    [][\A t \in Threads : call[t].pc = "get" /\ call'[t].pc = "verified" =>
          clock <= withdrawnAt[call[t].kid] + Cache + 3 * MaxLoad]_vars

(* A token whose key was published when the call arrived is refused only   *)
(* if the key was withdrawn meanwhile, or if another thread replaced the   *)
(* document this call had loaded for it.                                   *)
RefusedForCause ==
    \A t \in Threads : call[t].pc = "refused" /\ call[t].known =>
        call[t].kid \notin published \/ call[t].overwritten

(* An unknown key id forces one refresh (test_auth_unit.py), after which a *)
(* token whose key is published is accepted.                               *)
PublishedKeyIsFound ==
    \A t \in Threads : call[t].pc = "refused" /\ call[t].known =>
        call[t].kid \notin published
=============================================================================
