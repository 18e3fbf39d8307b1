----------------------------- MODULE TenantPools -----------------------------
(***************************************************************************)
(* The registry of read-only pools of one server process (db.Pools): the   *)
(* shared pool of a catalog connection and, for an organization that has   *)
(* stored a DSN of its own, a pool per organization and connection.  Pools *)
(* are opened on demand outside the lock, kept under the version of the    *)
(* secret they were opened with, and closed when the secret changes, when  *)
(* the budget of tenant pools is used up, or when they are idle.           *)
(*                                                                         *)
(* A section under readonlyMu is one action, unless it closes a pool:      *)
(* pgxpool.Close waits for the connections in use, and the lock is held    *)
(* meanwhile.  lastUsed is kept as the order it induces.                   *)
(***************************************************************************)
EXTENDS Naturals, FiniteSets

CONSTANTS
  Requests,     \* queries served by this process, numbered by arrival
  Conns,        \* (organization, connection) pairs
  Shared,       \* the catalog connection they fall back to
  Nobody,       \* no pool, no key, no owner of the lock
  Server,       \* the goroutine of an administrator's request or the ticker
  MaxOrgPools,  \* maxOrgPools
  MaxChanges    \* bound on changes of secrets

ASSUME PoolAssumption ==
  /\ Requests \subseteq Nat
  /\ IsFiniteSet(Conns)
  /\ Shared \notin Conns
  /\ Nobody \notin Requests \cup Conns \cup {Shared, Server}
  /\ MaxOrgPools \in Nat
  /\ MaxChanges \in Nat

VARIABLES
  secret,    \* organization_connection_secrets: version by pair, 0 if none
  clock,     \* updated_at of the last change
  stale,     \* pairs whose secret was changed here and is to be invalidated
  cached,    \* orgLazy and readonlyLazy: the pool under each key
  older,     \* lastUsed: <<j, k>> when key j was last used before key k
  open,      \* pools that accept connections
  request,   \* progress of every request
  lock,      \* owner of readonlyMu while it waits for Close
  closing    \* the pools it waits for

poolVars == <<secret, clock, stale, cached, older, open, request, lock, closing>>

Keys == Conns \cup {Shared}
\* A pool is named after the request that opened it.
Pool == [key : Keys, version : Nat, opener : Requests]
NoPool == [key |-> Nobody]
Request ==
  [step : {"idle", "validated", "resolved", "opening", "opened", "ready", "querying", "ended"},
   conn : Conns \cup {Nobody},  \* the pair it is for
   seen : Nat,                  \* version its SQL was validated against, 0: the catalog
   want : Nat,                  \* version it asks a pool for, 0: the shared one
   pool : Pool \cup {NoPool}]

IdleQuery == [step |-> "idle", conn |-> Nobody, seen |-> 0, want |-> 0, pool |-> NoPool]

PoolsInit ==
  /\ secret = [c \in Conns |-> 1]
  /\ clock = 1
  /\ stale = {}
  /\ cached = [k \in Keys |-> NoPool]
  /\ older = {}
  /\ open = {}
  /\ request = [r \in Requests |-> IdleQuery]
  /\ lock = Nobody
  /\ closing = {}

-----------------------------------------------------------------------------
(* The map of pools.                                                       *)

Filled(map) == {k \in Keys : map[k] # NoPool}
TenantKeys(map) == Filled(map) \ {Shared}

\* entry.lastUsed = time.Now()
Touched(k) ==
  {p \in older : k \notin {p[1], p[2]} /\ {p[1], p[2]} \subseteq Filled(cached)}
  \cup {<<j, k>> : j \in Filled(cached) \ {k}}

\* The key a request looks its pool up by.
KeyOf(r) == IF request[r].want = 0 THEN Shared ELSE request[r].conn

InUse(p) == \E r \in Requests : request[r].step = "querying" /\ request[r].pool = p

\* Mutant: the budget is compared one too late.
EvictionLate(V, others) ==
  /\ V \subseteq others
  /\ \A v \in V, k \in others \ V : <<v, k>> \in older
  /\ IF Cardinality(others) <= MaxOrgPools
       THEN V = {} ELSE Cardinality(others \ V) = MaxOrgPools

\* V: the least recently used of the other tenant pools, as many as it takes
\* to leave room for one.
Eviction(V, others) ==
  /\ V \subseteq others
  /\ \A v \in V, k \in others \ V : <<v, k>> \in older
  /\ IF Cardinality(others) < MaxOrgPools
       THEN V = {} ELSE Cardinality(others \ V) = MaxOrgPools - 1

\* Close the pools P under the lock: no new connection is given out at once,
\* and the owner goes on when the last one is back.
CloseLocked(owner, P) ==
  /\ closing' = P
  /\ lock' = IF P = {} THEN Nobody ELSE owner

Closed ==
  /\ closing # {}
  /\ \A p \in closing : ~InUse(p)
  /\ lock' = Nobody
  /\ closing' = {}
  /\ UNCHANGED <<secret, clock, stale, cached, older, open, request>>

Moved(r, step) == [request EXCEPT ![r].step = step]
Given(r, pool) == [request EXCEPT ![r].step = "ready", ![r].pool = pool]
\* Served or refused: what the request held no longer matters.
Left(r) == [request EXCEPT ![r] = [IdleQuery EXCEPT !.step = "ended", !.conn = request[r].conn]]

-----------------------------------------------------------------------------
(* A query: Runner.Run.                                                    *)

\* activeValidator: the schemas come with one reading of the secret.  If that
\* fails they are the catalog's (AllowedSchemas drops the error).
Validate(r, c) ==
  /\ request[r] = IdleQuery
  /\ \A q \in Requests : q < r => request[q] # IdleQuery
  /\ \E v \in {secret[c], 0} :
       request' = [request EXCEPT ![r].step = "validated", ![r].conn = c, ![r].seen = v]
  /\ UNCHANGED <<secret, clock, stale, cached, older, open, lock, closing>>

\* activePool reads it again.  A secret that cannot be read or opened refuses.
Resolve(r) ==
  /\ request[r].step = "validated"
  /\ \/ request' = [request EXCEPT ![r].step = "resolved", ![r].want = secret[request[r].conn]]
     \/ request' = Left(r)
  /\ UNCHANGED <<secret, clock, stale, cached, older, open, lock, closing>>

\* Mutants: the version is not compared; the early return keeps the lock.
CurrentAny(entry, r) == entry # NoPool
LockAfterHitKept(r) == r

Current(entry, r) == entry # NoPool /\ entry.version = request[r].want
LockAfterHit(r) == Nobody

\* The first section: a current entry is used, a stale one closed and dropped.
LookUp(r) ==
  LET k == KeyOf(r)
      entry == cached[k]
  IN  /\ request[r].step = "resolved"
      /\ lock = Nobody
      /\ \/ /\ Current(entry, r)
            /\ older' = Touched(k)
            /\ request' = Given(r, entry)
            /\ lock' = LockAfterHit(r)
            /\ UNCHANGED <<cached, open, closing>>
         \/ /\ ~Current(entry, r)
            /\ cached' = [cached EXCEPT ![k] = NoPool]
            /\ open' = open \ {entry}
            /\ request' = Moved(r, "opening")
            /\ CloseLocked(r, {entry} \ {NoPool})
            /\ UNCHANGED older
      /\ UNCHANGED <<secret, clock, stale>>

Opened(r) == [key |-> KeyOf(r), version |-> request[r].want, opener |-> r]

\* VerifyTenantDSNWithOptions and newPoolWithRetries, without the lock.
Open(r) ==
  /\ request[r].step = "opening"
  /\ lock # r
  /\ \/ /\ open' = open \cup {Opened(r)}
        /\ request' = [request EXCEPT ![r].step = "opened", ![r].pool = Opened(r)]
     \/ /\ request' = Left(r)
        /\ UNCHANGED open
  /\ UNCHANGED <<secret, clock, stale, cached, older, lock, closing>>

\* Mutant: the pool opened in vain is not closed.
InVainKept(r) == {}

InVain(r) == {request[r].pool}

\* The second section: somebody else's current entry wins over the own pool.
Discard(r) ==
  LET k == KeyOf(r)
  IN  /\ request[r].step = "opened"
      /\ lock = Nobody
      /\ Current(cached[k], r)
      /\ open' = open \ InVain(r)
      /\ older' = Touched(k)
      /\ request' = Given(r, cached[k])
      /\ UNCHANGED <<secret, clock, stale, cached, lock, closing>>

\* Otherwise a stale entry is closed and the own pool stored; a tenant pool
\* needs a place within the budget, and is closed if there is none.  The map
\* is within the budget before, so at most one pool is closed to make room,
\* and none after a stale entry: one Close to wait for.
Store(r) ==
  LET k == KeyOf(r)
      entry == cached[k]
      others == TenantKeys(cached) \ {k}
  IN  /\ request[r].step = "opened"
      /\ lock = Nobody
      /\ ~Current(entry, r)
      /\ \/ /\ k = Shared \/ MaxOrgPools > 0
            /\ \E V \in SUBSET others :
                 /\ IF k = Shared THEN V = {} ELSE Eviction(V, others)
                 /\ cached' = [j \in Keys |->
                      IF j = k THEN request[r].pool ELSE IF j \in V THEN NoPool ELSE cached[j]]
                 /\ LET P == ({entry} \cup {cached[v] : v \in V}) \ {NoPool}
                    IN  open' = open \ P /\ CloseLocked(r, P)
            /\ older' = Touched(k)
            /\ request' = Given(r, request[r].pool)
         \/ /\ k # Shared /\ MaxOrgPools = 0
            /\ cached' = [cached EXCEPT ![k] = NoPool]
            /\ open' = open \ {request[r].pool, entry}
            /\ CloseLocked(r, {entry} \ {NoPool})
            /\ request' = Left(r)
            /\ UNCHANGED older
      /\ UNCHANGED <<secret, clock, stale>>

\* pool.BeginTx: a pool closed in between gives no connection.
Begin(r) ==
  /\ request[r].step = "ready"
  /\ lock # r
  /\ request' = IF request[r].pool \in open THEN Moved(r, "querying") ELSE Left(r)
  /\ UNCHANGED <<secret, clock, stale, cached, older, open, lock, closing>>

\* The query ends, at the latest with its timeout, and returns its connection.
Finish(r) ==
  /\ request[r].step = "querying"
  /\ request' = Left(r)
  /\ UNCHANGED <<secret, clock, stale, cached, older, open, lock, closing>>

-----------------------------------------------------------------------------
(* Administrators and the ticker.                                          *)

\* Upsert or Delete of a secret commits; the replica that served the request
\* is to invalidate its pool, the others are not told.
ChangeSecret(c) ==
  /\ clock <= MaxChanges
  /\ clock' = clock + 1
  /\ \E v \in {0, clock'} : secret' = [secret EXCEPT ![c] = v]
  /\ stale' \in {stale, stale \cup {c}}
  /\ UNCHANGED <<cached, older, open, request, lock, closing>>

\* InvalidateOrgReadOnlyPool, also after a connection was unassigned.
Invalidate(c) ==
  /\ c \in stale
  /\ lock = Nobody
  /\ stale' = stale \ {c}
  /\ cached' = [cached EXCEPT ![c] = NoPool]
  /\ open' = open \ {cached[c]}
  /\ CloseLocked(Server, {cached[c]} \ {NoPool})
  /\ UNCHANGED <<secret, clock, older, request>>

\* A pool is handed out with its lastUsed set and is used at once, so it is
\* not idle for idleEvict while a request is about to use it.
IdleEntry(k) ==
  /\ cached[k] # NoPool
  /\ \A r \in Requests :
       request[r].pool = cached[k] => request[r].step \notin {"ready", "querying"}

\* evictOnce closes the pools that have been idle for long enough.
EvictOnce ==
  /\ lock = Nobody
  /\ \E S \in SUBSET {k \in Keys : IdleEntry(k)} :
       /\ S # {}
       /\ cached' = [k \in Keys |-> IF k \in S THEN NoPool ELSE cached[k]]
       /\ open' = open \ {cached[k] : k \in S}
       /\ CloseLocked(Server, {cached[k] : k \in S})
  /\ UNCHANGED <<secret, clock, stale, older, request>>

-----------------------------------------------------------------------------

RequestStep(r) ==
  Resolve(r) \/ LookUp(r) \/ Open(r) \/ Discard(r) \/ Store(r) \/ Begin(r) \/ Finish(r)

PoolsNext ==
  \/ \E r \in Requests : (\E c \in Conns : Validate(r, c)) \/ RequestStep(r)
  \/ \E c \in Conns : ChangeSecret(c) \/ Invalidate(c)
  \/ EvictOnce
  \/ Closed

PoolsSpec == PoolsInit /\ [][PoolsNext]_poolVars

\* The steps of a request are code that runs on, or calls with a timeout.
PoolsFairness ==
  /\ \A r \in Requests : WF_poolVars(RequestStep(r))
  /\ WF_poolVars(Closed)

PoolsFairSpec == PoolsSpec /\ PoolsFairness

-----------------------------------------------------------------------------
(* Properties.                                                             *)

\* Types of the registry and the requests.
PoolTypeOK ==
  /\ secret \in [Conns -> Nat]
  /\ clock \in 1..MaxChanges + 1
  /\ stale \in SUBSET Conns
  /\ cached \in [Keys -> Pool \cup {NoPool}]
  /\ older \in SUBSET (Keys \X Keys)
  /\ open \in SUBSET Pool
  /\ request \in [Requests -> Request]
  /\ lock \in Requests \cup {Server, Nobody}
  /\ closing \in SUBSET Pool

\* No pool leaks: one that is open is in the map, or was just opened by a
\* request that has still to store or close it, whatever openers of the same
\* key, changes of the secret and evictions interleave.
PoolsAccountedFor ==
  \A p \in open :
    \/ cached[p.key] = p
    \/ request[p.opener].step = "opened" /\ request[p.opener].pool = p

\* Tenant pools that hold connections: those in use and those whose Close
\* still waits for its queries.
Holding == {p \in open \cup closing : p.key # Shared}

\* Requests that hold a tenant pool beyond the map: from opening it, before a
\* place is reserved, until it is stored and the pool it replaces is closed.
Openers ==
  {r \in Requests : \/ request[r].step = "opened" /\ request[r].want # 0
                    \/ request[r].step = "ready" /\ lock = r}

\* The tenant pools that hold connections exceed their share of the connection
\* budget by no more than the requests that are just opening one, and not at
\* all when there is none.
WithinBudget == Cardinality(Holding) <= MaxOrgPools + Cardinality(Openers)

\* A request queries with a pool of its own organization and connection, of
\* exactly the version it resolved, which is no older than the one its SQL was
\* validated against; late openers and stale entries never reach it.
PoolIsWhatWasResolved ==
  \A r \in Requests :
    request[r].step \in {"ready", "querying"} =>
      /\ request[r].pool.key = KeyOf(r)
      /\ request[r].pool.version = request[r].want
      /\ request[r].want # 0 => request[r].want >= request[r].seen

\* Every query ends although the lock is held while pools in use are closed.
EveryQueryEnds ==
  \A r \in Requests : request[r].step # "idle" ~> request[r].step = "ended"
=============================================================================
