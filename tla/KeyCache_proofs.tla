---------------------------- MODULE KeyCache_proofs ----------------------------
(* A withdrawn key expires and a published one is found, for any number of *)
(* threads and keys and any cache and load time.                           *)
EXTENDS KeyCache, TLAPS

(* What the cache holds was published, and stamped soon after that.        *)
CacheInv ==
    /\ loadedAt <= clock
    /\ \A k \in Kids : /\ k \in published => withdrawnAt[k] = Never
                       /\ withdrawnAt[k] = Never \/ withdrawnAt[k] <= clock
                       /\ k \in keys => loadedAt <= withdrawnAt[k] + 2 * MaxLoad

(* A thread in _key checked the cache a short time ago.                    *)
Timed(t) == Loading(t) => /\ call[t].checked <= clock
                          /\ clock <= call[t].checked + MaxLoad

(* Every key a thread may meet was published when, or not long before, the *)
(* thread checked the cache.                                               *)
Outdated(t) ==
    \A k \in Kids :
        /\ call[t].pc = "install" /\ k \in call[t].document
              => call[t].checked <= withdrawnAt[k]
        /\ call[t].pc = "stamp" /\ k \in keys
              => call[t].checked <= withdrawnAt[k] + MaxLoad
        /\ call[t].pc = "get" /\ k \in keys
              => call[t].checked <= withdrawnAt[k] + Cache + 2 * MaxLoad

(* A thread that looks for a published key has it in its document, then in *)
(* the cache unless another thread has replaced it.                        *)
Searching(t) ==
    call[t].pc \notin {"idle", "verified"} /\ call[t].known =>
        LET k == call[t].kid
        IN  /\ k \in published \/ withdrawnAt[k] # Never
            /\ k \in published =>
                  /\ call[t].pc = "install" => k \in call[t].document
                  /\ call[t].pc \in {"stamp", "get"} /\ call[t].refresh
                        => k \in keys \/ call[t].overwritten
                  /\ call[t].pc = "refused" => call[t].overwritten

Thread(t) == Timed(t) /\ Outdated(t) /\ Searching(t)

IInv == TypeOK /\ CacheInv /\ \A t \in Threads : Thread(t)

-----------------------------------------------------------------------------
(* A call in progress is a record of the full type.                        *)
LEMMA CallFields ==
    ASSUME TypeOK, NEW t \in Threads, call[t].pc \notin {"idle", "verified"}
    PROVE  /\ call[t] \in Call
           /\ call[t].known \in BOOLEAN /\ call[t].refresh \in BOOLEAN
           /\ call[t].overwritten \in BOOLEAN
  <1>1. call[t] \in Call
    BY DEF TypeOK, Idle, Verified
  <1>2. QED
    BY <1>1 DEF Call

LEMMA TimesAreNaturals ==
    ASSUME TypeOK
    PROVE  /\ clock \in Nat /\ loadedAt \in Nat /\ Never \in Nat
           /\ clock < Never
           /\ \A k \in Kids : withdrawnAt[k] \in Nat
           /\ Cache \in Nat /\ MaxLoad \in Nat
  BY ClockAssumption DEF TypeOK, Times, Never

LEMMA InitInv == Init => IInv
  <1> SUFFICES ASSUME Init PROVE IInv
    OBVIOUS
  <1>1. TypeOK
    BY ClockAssumption, FirstAssumption DEF Init, TypeOK, Times, Never
  <1>2. CacheInv
    BY ClockAssumption DEF Init, CacheInv
  <1>3. \A t \in Threads : Thread(t)
    BY DEF Init, Idle, Thread, Timed, Outdated, Searching, Loading
  <1>4. QED
    BY <1>1, <1>2, <1>3 DEF IInv

LEMMA StutterInv == IInv /\ UNCHANGED vars => IInv'
  BY DEF IInv, vars, provider, cache, TypeOK, CacheInv, Thread, Timed, Outdated, Searching,
         Loading

-----------------------------------------------------------------------------
(* A thread's own step disturbs only what is said of that thread.          *)
LEMMA ThreadStep ==
    ASSUME IInv, NEW t \in Threads, NEW c \in Call \cup {Idle, Verified},
           call' = [call EXCEPT ![t] = c],
           UNCHANGED <<provider, cache, clock>>,
           Thread(t)'
    PROVE  IInv'
  <1>1. /\ call' \in [Threads -> Call \cup {Idle, Verified}]
        /\ \A u \in Threads \ {t} : call'[u] = call[u]
    BY DEF IInv, TypeOK
  <1>2. TypeOK'
    BY <1>1 DEF IInv, TypeOK, provider, cache
  <1>3. CacheInv'
    BY DEF IInv, CacheInv, provider, cache
  <1>4. \A u \in Threads \ {t} : Thread(u)'
    BY <1>1 DEF IInv, Thread, Timed, Outdated, Searching, Loading, provider, cache
  <1>5. QED
    BY <1>2, <1>3, <1>4 DEF IInv

(* A call that ends leaves nothing to say of its thread.                   *)
LEMMA EndInv ==
    ASSUME IInv, NEW t \in Threads, NEW c \in {Idle, Verified},
           call' = [call EXCEPT ![t] = c],
           UNCHANGED <<provider, cache, clock>>
    PROVE  IInv'
  <1>1. call'[t].pc \in {"idle", "verified"}
    BY DEF IInv, TypeOK, Idle, Verified
  <1>2. Thread(t)'
    BY <1>1 DEF Thread, Timed, Outdated, Searching, Loading
  <1>3. QED
    BY <1>2, ThreadStep

LEMMA ReceiveInv ==
    ASSUME IInv, NEW t \in Threads, NEW k \in Kids, Receive(t, k)
    PROVE  IInv'
  <1> DEFINE c == [pc |-> "check", kid |-> k, refresh |-> FALSE, checked |-> clock,
                   document |-> {}, known |-> k \in published, overwritten |-> FALSE]
  <1>1. c \in Call
    BY DEF IInv, TypeOK, Call
  <1>2. call'[t] = c
    BY DEF Receive, IInv, TypeOK
  <1>3. c.pc = "check" /\ c.kid = k /\ c.known = (k \in published)
    OBVIOUS
  <1> HIDE DEF c
  <1>4. Timed(t)' /\ Outdated(t)'
    BY <1>2, <1>3 DEF Timed, Outdated, Loading
  <1>5. Searching(t)'
    BY <1>2, <1>3 DEF Receive, Searching, provider
  <1>6. call' = [call EXCEPT ![t] = c]
    BY DEF Receive, c
  <1>7. QED
    BY <1>1, <1>4, <1>5, <1>6, ThreadStep DEF Thread, Receive

LEMMA CheckCacheInv ==
    ASSUME IInv, NEW t \in Threads, CheckCache(t)
    PROVE  IInv'
  <1> DEFINE load == call[t].refresh \/ keys = {} \/ Expired
             c == [call[t] EXCEPT !.pc = IF load THEN "fetch" ELSE "get",
                                  !.checked = clock, !.overwritten = FALSE]
  <1>1. call[t] \in Call /\ call[t].pc = "check"
    BY CallFields DEF IInv, CheckCache
  <1>2. c \in Call
    BY <1>1 DEF IInv, TypeOK, Call
  <1>3. call' = [call EXCEPT ![t] = c] /\ call'[t] = c
    BY DEF CheckCache, IInv, TypeOK
  <1>4. /\ c.pc = IF load THEN "fetch" ELSE "get"
        /\ c.checked = clock /\ c.kid = call[t].kid
        /\ c.known = call[t].known /\ c.refresh = call[t].refresh
    BY <1>1 DEF Call
  <1> HIDE DEF c
  <1>5. Timed(t)'
    <2>1. clock' = clock /\ call'[t].checked = clock
      BY <1>3, <1>4 DEF CheckCache
    <2>2. clock <= clock /\ clock <= clock + MaxLoad
      BY TimesAreNaturals DEF IInv
    <2>3. QED
      BY <2>1, <2>2 DEF Timed
  <1>6. Outdated(t)'
    <2> SUFFICES ASSUME NEW k \in Kids, k \in keys, ~load
                 PROVE  clock <= withdrawnAt[k] + Cache + 2 * MaxLoad
      BY <1>3, <1>4 DEF Outdated, CheckCache, provider, cache
    <2>1. loadedAt <= withdrawnAt[k] + 2 * MaxLoad
      BY DEF IInv, CacheInv
    <2>2. clock - loadedAt < Cache
      BY TimesAreNaturals DEF Expired, IInv
    <2>3. QED
      BY <2>1, <2>2, TimesAreNaturals DEF IInv
  <1>7. Searching(t)'
    BY <1>1, <1>3, <1>4 DEF IInv, Thread, Searching, CheckCache, provider, cache
  <1>8. QED
    BY <1>2, <1>3, <1>5, <1>6, <1>7, ThreadStep DEF Thread, CheckCache

LEMMA FetchInv ==
    ASSUME IInv, NEW t \in Threads, Fetch(t)
    PROVE  IInv'
  <1> DEFINE c == [call[t] EXCEPT !.pc = "install", !.document = published]
  <1>1. call[t] \in Call /\ call[t].pc = "fetch"
    BY CallFields DEF IInv, Fetch
  <1>2. c \in Call
    BY <1>1 DEF IInv, TypeOK, Call
  <1>3. call' = [call EXCEPT ![t] = c] /\ call'[t] = c
    BY DEF Fetch, IInv, TypeOK
  <1>4. /\ c.pc = "install" /\ c.document = published
        /\ c.checked = call[t].checked /\ c.kid = call[t].kid /\ c.known = call[t].known
    BY <1>1 DEF Call
  <1> HIDE DEF c
  <1>5. call[t].checked \in Nat /\ call[t].checked < Never
    BY <1>1, ClockAssumption DEF Call, Times, Never
  <1>6. Timed(t)'
    BY <1>1, <1>3, <1>4 DEF Fetch, Timed, Thread, IInv, Loading
  <1>7. Outdated(t)'
    <2>1. \A k \in published : k \in Kids => call[t].checked <= withdrawnAt[k]
      BY <1>5, TimesAreNaturals DEF IInv, CacheInv
    <2>2. QED
      BY <2>1, <1>3, <1>4 DEF Outdated, Fetch, provider
  <1>8. Searching(t)'
    BY <1>1, <1>3, <1>4 DEF IInv, Thread, Searching, Fetch, provider, cache
  <1>9. QED
    BY <1>2, <1>3, <1>6, <1>7, <1>8, ThreadStep DEF Thread, Fetch

(* The one step of a thread that touches the others: the cache it installs *)
(* holds only keys withdrawn at most a load ago.                           *)
LEMMA InstallInv ==
    ASSUME IInv, NEW t \in Threads, Install(t)
    PROVE  IInv'
  <1>1. call[t] \in Call /\ call[t].pc = "install"
    BY CallFields DEF IInv, Install
  <1>2. call[t].checked \in Nat
    BY <1>1, ClockAssumption DEF Call, Times
  <1> DEFINE new(u) == IF u = t THEN [call[u] EXCEPT !.pc = "stamp", !.document = {}]
                       ELSE IF call[u].pc \in {"stamp", "get"}
                            THEN [call[u] EXCEPT !.overwritten = TRUE]
                       ELSE call[u]
  <1>3. \A u \in Threads : new(u) \in Call \cup {Idle, Verified}
    <2> SUFFICES ASSUME NEW u \in Threads PROVE new(u) \in Call \cup {Idle, Verified}
      OBVIOUS
    <2>1. CASE u = t
      BY <2>1, <1>1 DEF Call
    <2>2. CASE u # t /\ call[u].pc \in {"stamp", "get"}
      <3>1. call[u] \in Call
        BY <2>2, CallFields DEF IInv
      <3>2. QED
        BY <3>1, <2>2 DEF Call
    <2>3. CASE u # t /\ call[u].pc \notin {"stamp", "get"}
      BY <2>3 DEF IInv, TypeOK
    <2>4. QED
      BY <2>1, <2>2, <2>3
  <1>4. \A u \in Threads : call'[u] = new(u)
    BY DEF Install
  <1>5. TypeOK'
    <2>1. call' \in [Threads -> Call \cup {Idle, Verified}]
      BY <1>3 DEF Install
    <2>2. keys' \subseteq Kids
      BY <1>1 DEF Install, Call
    <2>3. QED
      BY <2>1, <2>2 DEF Install, IInv, TypeOK, provider
  <1>6. \A k \in Kids : k \in keys' => clock <= withdrawnAt[k] + MaxLoad
    <2> SUFFICES ASSUME NEW k \in Kids, k \in keys'
                 PROVE  clock <= withdrawnAt[k] + MaxLoad
      OBVIOUS
    <2>1. call[t].checked <= withdrawnAt[k]
      BY <1>1 DEF Install, IInv, Thread, Outdated
    <2>2. clock <= call[t].checked + MaxLoad
      BY <1>1 DEF IInv, Thread, Timed, Loading
    <2>3. QED
      BY <1>2, <2>1, <2>2, TimesAreNaturals DEF IInv
  <1>7. CacheInv'
    <2>1. \A k \in Kids : k \in keys' => loadedAt <= withdrawnAt[k] + 2 * MaxLoad
      BY <1>6, TimesAreNaturals DEF IInv, CacheInv
    <2>2. QED
      BY <2>1 DEF IInv, CacheInv, Install, provider
  <1>8. ASSUME NEW u \in Threads PROVE Thread(u)'
    <2>1. CASE u = t
      <3>1. /\ call'[u].pc = "stamp" /\ call'[u].checked = call[t].checked
            /\ call'[u].kid = call[t].kid /\ call'[u].known = call[t].known
        BY <2>1, <1>1, <1>4 DEF Call
      <3>2. Timed(u)'
        BY <3>1, <2>1, <1>1 DEF IInv, Thread, Timed, Loading, Install
      <3>3. Outdated(u)'
        <4> SUFFICES ASSUME NEW k \in Kids, k \in keys'
                     PROVE  call[t].checked <= withdrawnAt[k] + MaxLoad
          BY <3>1 DEF Outdated, Install, provider
        <4>1. call[t].checked <= clock
          BY <1>1 DEF IInv, Thread, Timed, Loading
        <4>2. QED
          BY <4>1, <1>2, <1>6, TimesAreNaturals DEF IInv
      <3>4. Searching(u)'
        <4>1. Searching(t) /\ call[t].known \in BOOLEAN
          BY <1>1, CallFields DEF IInv, Thread
        <4>2. /\ keys' = call[t].document
              /\ published' = published /\ withdrawnAt' = withdrawnAt
          BY DEF Install, provider
        <4>3. QED
          BY <4>1, <4>2, <3>1, <1>1 DEF Searching
      <3>5. QED
        BY <3>2, <3>3, <3>4 DEF Thread
    <2>2. CASE u # t /\ call[u].pc \in {"stamp", "get"}
      <3>1. call[u] \in Call
        BY <2>2, CallFields DEF IInv
      <3>2. /\ call'[u].pc = call[u].pc /\ call'[u].checked = call[u].checked
            /\ call'[u].kid = call[u].kid /\ call'[u].known = call[u].known
            /\ call'[u].overwritten = TRUE
        BY <2>2, <3>1, <1>4 DEF Call
      <3>3. call[u].checked \in Nat
        BY <3>1, ClockAssumption DEF Call, Times
      <3>4. call[u].checked <= clock
        BY <2>2 DEF IInv, Thread, Timed, Loading
      <3>5. Timed(u)'
        BY <3>2, <2>2 DEF IInv, Thread, Timed, Loading, Install
      <3>6. Outdated(u)'
        <4> SUFFICES ASSUME NEW k \in Kids, k \in keys'
                     PROVE  /\ call[u].checked <= withdrawnAt[k] + MaxLoad
                            /\ call[u].checked <= withdrawnAt[k] + Cache + 2 * MaxLoad
          BY <3>2, <2>2 DEF Outdated, Install, provider
        <4>1. QED
          BY <3>3, <3>4, <1>6, TimesAreNaturals DEF IInv
      <3>7. Searching(u)'
        <4>1. Searching(u) /\ call[u].known \in BOOLEAN
          BY <2>2, CallFields DEF IInv, Thread
        <4>2. published' = published /\ withdrawnAt' = withdrawnAt
          BY DEF Install, provider
        <4>3. QED
          BY <4>1, <4>2, <3>2, <2>2 DEF Searching
      <3>8. QED
        BY <3>5, <3>6, <3>7 DEF Thread
    <2>3. CASE u # t /\ call[u].pc \notin {"stamp", "get"}
      <3>1. call'[u] = call[u]
        BY <2>3, <1>4
      <3>2. QED
        BY <3>1, <2>3 DEF IInv, Thread, Timed, Outdated, Searching, Loading, Install, provider
    <2>4. QED
      BY <2>1, <2>2, <2>3
  <1>9. QED
    BY <1>5, <1>7, <1>8 DEF IInv

LEMMA StampInv ==
    ASSUME IInv, NEW t \in Threads, Stamp(t)
    PROVE  IInv'
  <1> DEFINE c == [call[t] EXCEPT !.pc = "get"]
  <1>1. call[t] \in Call /\ call[t].pc = "stamp"
    BY CallFields DEF IInv, Stamp
  <1>2. c \in Call
    BY <1>1 DEF Call
  <1>3. call' = [call EXCEPT ![t] = c] /\ call'[t] = c
    BY DEF Stamp, Goto, IInv, TypeOK
  <1>4. /\ c.pc = "get" /\ c.checked = call[t].checked /\ c.refresh = call[t].refresh
        /\ c.kid = call[t].kid /\ c.known = call[t].known
        /\ c.overwritten = call[t].overwritten
    BY <1>1 DEF Call
  <1> HIDE DEF c
  <1>5. /\ call[t].checked \in Nat
        /\ call[t].checked <= clock /\ clock <= call[t].checked + MaxLoad
    BY <1>1, ClockAssumption DEF Call, Times, IInv, Thread, Timed, Loading
  <1>6. \A k \in Kids : k \in keys => call[t].checked <= withdrawnAt[k] + MaxLoad
    BY <1>1 DEF IInv, Thread, Outdated
  <1>7. /\ call' \in [Threads -> Call \cup {Idle, Verified}]
        /\ \A u \in Threads \ {t} : call'[u] = call[u]
    BY <1>2, <1>3 DEF IInv, TypeOK
  <1>8. TypeOK'
    BY <1>7 DEF IInv, TypeOK, Stamp, provider
  <1>9. CacheInv'
    BY <1>5, <1>6, TimesAreNaturals DEF IInv, CacheInv, Stamp, provider
  <1>10. \A u \in Threads \ {t} : Thread(u)'
    BY <1>7 DEF IInv, Thread, Timed, Outdated, Searching, Loading, Stamp, provider
  <1>11. Thread(t)'
    <2>1. Timed(t)'
      BY <1>3, <1>4, <1>5 DEF Timed, Stamp
    <2>2. Outdated(t)'
      BY <1>3, <1>4, <1>5, <1>6, TimesAreNaturals DEF Outdated, Stamp, IInv, provider
    <2>3. Searching(t)'
      BY <1>1, <1>3, <1>4 DEF IInv, Thread, Searching, Stamp, provider
    <2>4. QED
      BY <2>1, <2>2, <2>3 DEF Thread
  <1>12. QED
    BY <1>8, <1>9, <1>10, <1>11 DEF IInv

LEMMA GetInv ==
    ASSUME IInv, NEW t \in Threads, Get(t)
    PROVE  IInv'
  <1>1. call[t] \in Call /\ call[t].pc = "get"
    BY CallFields DEF IInv, Get
  <1>2. CASE call' = [call EXCEPT ![t] = Verified]
    BY <1>2, EndInv DEF Get
  <1>3. CASE call' = [call EXCEPT ![t].pc = "check", ![t].refresh = TRUE]
    <2> DEFINE c == [call[t] EXCEPT !.pc = "check", !.refresh = TRUE]
    <2>1. c \in Call
      BY <1>1 DEF Call
    <2>2. call' = [call EXCEPT ![t] = c] /\ call'[t] = c
      BY <1>3 DEF IInv, TypeOK
    <2>3. c.pc = "check" /\ c.kid = call[t].kid /\ c.known = call[t].known
      BY <1>1 DEF Call
    <2> HIDE DEF c
    <2>4. Thread(t)'
      BY <1>1, <2>2, <2>3
         DEF Get, IInv, Thread, Timed, Outdated, Searching, Loading, provider, cache
    <2>5. QED
      BY <2>1, <2>2, <2>4, ThreadStep DEF Get
  <1>4. CASE /\ call[t].kid \notin keys /\ call[t].refresh
             /\ Goto(t, "refused")
    <2> DEFINE c == [call[t] EXCEPT !.pc = "refused"]
    <2>1. c \in Call
      BY <1>1 DEF Call
    <2>2. call' = [call EXCEPT ![t] = c] /\ call'[t] = c
      BY <1>4 DEF IInv, TypeOK, Goto
    <2>3. /\ c.pc = "refused" /\ c.kid = call[t].kid /\ c.known = call[t].known
          /\ c.overwritten = call[t].overwritten
      BY <1>1 DEF Call
    <2> HIDE DEF c
    <2>4. Thread(t)'
      BY <1>1, <1>4, <2>2, <2>3
         DEF Get, IInv, Thread, Timed, Outdated, Searching, Loading, provider, cache
    <2>5. QED
      BY <2>1, <2>2, <2>4, ThreadStep DEF Get
  <1>5. QED
    BY <1>2, <1>3, <1>4 DEF Get

-----------------------------------------------------------------------------
(* The provider and time.                                                  *)
LEMMA PublishInv ==
    ASSUME IInv, NEW k \in Kids, Publish(k)
    PROVE  IInv'
  <1>1. TypeOK' /\ CacheInv'
    BY DEF Publish, IInv, TypeOK, CacheInv, cache
  <1>2. \A t \in Threads : Thread(t)'
    BY DEF Publish, IInv, Thread, Timed, Outdated, Searching, Loading, cache
  <1>3. QED
    BY <1>1, <1>2 DEF IInv

LEMMA WithdrawInv ==
    ASSUME IInv, NEW k \in Kids, Withdraw(k)
    PROVE  IInv'
  <1>1. /\ withdrawnAt'[k] = clock
        /\ \A j \in Kids \ {k} : withdrawnAt'[j] = withdrawnAt[j]
        /\ clock # Never
    BY TimesAreNaturals DEF Withdraw, IInv, TypeOK
  <1>2. TypeOK'
    <2>1. clock \in 0..Never
      BY ClockAssumption DEF IInv, TypeOK, Times, Never
    <2>2. QED
      BY <2>1 DEF Withdraw, IInv, TypeOK, cache
  <1>3. CacheInv'
    BY <1>1, TimesAreNaturals DEF Withdraw, IInv, CacheInv, cache
  <1>4. ASSUME NEW t \in Threads PROVE Thread(t)'
    <2>1. Timed(t)'
      BY DEF Withdraw, IInv, Thread, Timed, Loading
    <2>2. Outdated(t)'
      <3>1. CASE Loading(t)
        <4>1. call[t].checked \in Nat /\ call[t].checked <= clock
          BY <3>1, CallFields, ClockAssumption
             DEF IInv, Thread, Timed, Loading, Call, Times
        <4>2. QED
          BY <4>1, <1>1, TimesAreNaturals DEF IInv, Thread, Outdated, Withdraw, cache
      <3>2. CASE ~Loading(t)
        BY <3>2 DEF Loading, Outdated, Withdraw
      <3>3. QED
        BY <3>1, <3>2
    <2>3. Searching(t)'
      BY <1>1, CallFields DEF IInv, Thread, Searching, Withdraw, cache, Call
    <2>4. QED
      BY <2>1, <2>2, <2>3 DEF Thread
  <1>5. QED
    BY <1>2, <1>3, <1>4 DEF IInv

LEMMA TickInv ==
    ASSUME IInv, Tick
    PROVE  IInv'
  <1>1. TypeOK'
    BY ClockAssumption DEF Tick, IInv, TypeOK, Times, provider, cache
  <1>2. CacheInv'
    BY TimesAreNaturals DEF Tick, IInv, CacheInv, provider, cache
  <1>3. ASSUME NEW t \in Threads PROVE Thread(t)'
    <2>1. Timed(t)'
      <3> SUFFICES ASSUME Loading(t)
                   PROVE  /\ call[t].checked <= clock + 1
                          /\ clock + 1 <= call[t].checked + MaxLoad
        BY DEF Timed, Loading, Tick
      <3>1. call[t].checked \in Nat
        BY CallFields, ClockAssumption DEF IInv, Loading, Call, Times
      <3>2. QED
        BY <3>1, TimesAreNaturals DEF Tick, IInv, Thread, Timed
    <2>2. Outdated(t)' /\ Searching(t)'
      BY DEF Tick, IInv, Thread, Outdated, Searching, provider, cache
    <2>3. QED
      BY <2>1, <2>2 DEF Thread
  <1>4. QED
    BY <1>1, <1>2, <1>3 DEF IInv

-----------------------------------------------------------------------------
LEMMA NextInv == IInv /\ [Next]_vars => IInv'
  <1> SUFFICES ASSUME IInv, [Next]_vars PROVE IInv'
    OBVIOUS
  <1>1. ASSUME NEW t \in Threads, Return(t) \/ FailLoad(t) PROVE IInv'
    BY <1>1, EndInv DEF Return, FailLoad
  <1>2. CASE UNCHANGED vars
    BY <1>2, StutterInv
  <1>3. QED
    BY <1>1, <1>2, ReceiveInv, CheckCacheInv, FetchInv, InstallInv, StampInv, GetInv,
       PublishInv, WithdrawInv, TickInv DEF Next

LEMMA InvHolds == Spec => []IInv
  BY InitInv, NextInv, PTL DEF Spec

(* The variables keep their types for any number of threads and keys.      *)
THEOREM TypeCorrect == Spec => []TypeOK
  <1>1. IInv => TypeOK
    BY DEF IInv
  <1>2. QED
    BY <1>1, InvHolds, PTL

(* A token whose key was published is refused only if the key was          *)
(* withdrawn meanwhile or another thread replaced the document (KeyCache). *)
THEOREM RefusalsHaveCause == Spec => []RefusedForCause
  <1>1. IInv => RefusedForCause
    BY DEF IInv, Thread, Searching, RefusedForCause
  <1>2. QED
    BY <1>1, InvHolds, PTL

(* A thread that takes a key checked the cache a load ago, and the cache   *)
(* was then younger than the cache time.                                   *)
LEMMA AcceptedInTime ==
    ASSUME IInv, [Next]_vars, NEW t \in Threads,
           call[t].pc = "get", call'[t].pc = "verified"
    PROVE  clock <= withdrawnAt[call[t].kid] + Cache + 3 * MaxLoad
  <1>1. call[t] \in Call
    BY CallFields DEF IInv
  <1>2. call[t].checked \in Nat /\ call[t].kid \in Kids
    BY <1>1, ClockAssumption DEF Call, Times
  <1>3. call[t].kid \in keys
    <2>1. call' # call
      OBVIOUS
    <2>2. ~ \E k \in Kids : Publish(k) \/ Withdraw(k)
      BY <2>1 DEF Publish, Withdraw
    <2>3. ~Tick /\ ~UNCHANGED vars
      BY <2>1 DEF Tick, vars
    <2>4. PICK u \in Threads :
             \/ \E k \in Kids : Receive(u, k)
             \/ CheckCache(u) \/ Fetch(u) \/ Install(u) \/ Stamp(u) \/ Get(u)
             \/ Return(u) \/ FailLoad(u)
      BY <2>2, <2>3 DEF Next
    <2>5. CASE Install(u)
      <3>1. u # t
        BY <2>5 DEF Install
      <3>2. call'[t] = [call[t] EXCEPT !.overwritten = TRUE]
        BY <2>5, <3>1 DEF Install
      <3>3. QED
        BY <3>2, <1>1 DEF Call
    <2>6. CASE ~Install(u)
      <3>1. u = t
        BY <2>4, <2>6
           DEF IInv, TypeOK, Receive, CheckCache, Fetch, Stamp, Get, Return, FailLoad, Goto
      <3>2. Get(t)
        BY <2>4, <2>6, <3>1
           DEF Receive, CheckCache, Fetch, Stamp, Return, FailLoad
      <3>3. QED
        BY <3>2, <1>1 DEF Get, Goto, IInv, TypeOK, Call
    <2>7. QED
      BY <2>5, <2>6
  <1>4. call[t].checked <= withdrawnAt[call[t].kid] + Cache + 2 * MaxLoad
    BY <1>2, <1>3 DEF IInv, Thread, Outdated
  <1>5. clock <= call[t].checked + MaxLoad
    BY DEF IInv, Thread, Timed, Loading
  <1>6. QED
    BY <1>2, <1>4, <1>5, TimesAreNaturals DEF IInv

(* A withdrawn key is accepted for at most the cache time and three loads, *)
(* however the threads interleave their assignments to the cache.          *)
THEOREM WithdrawnKeysExpire == Spec => WithdrawnKeyExpires
  <1>1. IInv /\ [Next]_vars =>
          [\A t \in Threads : call[t].pc = "get" /\ call'[t].pc = "verified" =>
              clock <= withdrawnAt[call[t].kid] + Cache + 3 * MaxLoad]_vars
    BY AcceptedInTime
  <1>2. QED
    BY <1>1, InvHolds, PTL DEF Spec, WithdrawnKeyExpires
================================================================================
