----------------------------- MODULE ClientPool -----------------------------
(***************************************************************************)
(* ClientPool for one account (accounts share no state).  Coroutines take  *)
(* and give back leases on the account's one Telethon client under an      *)
(* asyncio.Lock.  A section under the lock without an await is one action; *)
(* a section that awaits Telethon keeps the lock over several.  asyncio    *)
(* runs a coroutine on (turn) through every free lock it meets, and queues *)
(* it behind the others, first in first out, at a lock that is not free.   *)
(***************************************************************************)
EXTENDS Naturals, Sequences, FiniteSets

CONSTANTS
  Callers,     \* coroutines that use the pool
  Clients,     \* Telethon clients a behaviour can construct (a bound)
  MaxHeld,     \* leases and marks beyond which nobody starts (a bound)
  PoolEvents,  \* "drop" (login, logout), "close", "cancel"
  None

ASSUME PoolAssumption ==
  /\ None \notin Callers \cup Clients
  /\ PoolEvents \subseteq {"drop", "close", "cancel"}
  /\ MaxHeld \in Nat
  /\ IsFiniteSet(Callers)

VARIABLES
  open,     \* FALSE from ClientPool.close on
  pool,     \* clients[account.id]
  link,     \* what became of each client
  leases,   \* _leases[account.id]
  pending,  \* _pending_acquires[account.id]
  owner,    \* the caller that holds the lock over an await
  queue,    \* the lock's waiters
  turn,     \* the caller the event loop is running, if it can go on
  pc,       \* where each caller is
  mine      \* the client in each caller's frame

counts == <<leases, pending>>
vars   == <<open, pool, link, leases, pending, owner, queue, turn, pc, mine>>

\* Sections under the lock: acquire's mark, get, unmark and lease; release;
\* disconnect_account (drop); close.
Section == {"mark", "get", "unmark", "lease", "release", "drop", "close"}
Awaits  == {"connecting", "disconnecting"}
Label   == Section \cup Awaits \cup {"idle", "using"}
Links   == {"new", "connecting", "connected", "closed", "stray"}

\* Every variable has its type, and the lock's queue holds each waiter once.
TypeOK ==
  /\ open \in BOOLEAN
  /\ pool \in Clients \cup {None}
  /\ link \in [Clients -> Links]
  /\ leases \in Nat /\ pending \in Nat
  /\ owner \in Callers \cup {None}
  /\ queue \in Seq(Callers) /\ \A i, j \in DOMAIN queue : queue[i] = queue[j] => i = j
  /\ turn \in Callers \cup {None}
  /\ pc \in [Callers -> Label]
  /\ mine \in [Callers -> Clients \cup {None}]

Init ==
  /\ open = TRUE
  /\ pool = None
  /\ link = [k \in Clients |-> "new"]
  /\ leases = 0 /\ pending = 0
  /\ owner = None
  /\ queue = <<>>
  /\ turn = None
  /\ pc = [c \in Callers |-> "idle"]
  /\ mine = [c \in Callers |-> None]

-----------------------------------------------------------------------------
(* asyncio.Lock *)

\* c may run section s: it is still running, or the lock was handed to it.
At(c, s) ==
  /\ pc[c] = s
  /\ owner = None
  /\ turn = c \/ (turn = None /\ queue # <<>> /\ Head(queue) = c)

\* The waiters once c is no longer one of them.
Left(c) == IF turn = c THEN queue ELSE Tail(queue)

\* c asks for the lock to run section s, with the waiters q before it.
Ask(c, s, q) ==
  /\ pc' = [pc EXCEPT ![c] = s]
  /\ IF owner' = None /\ q = <<>>
     THEN turn' = c /\ queue' = q
     ELSE turn' = None /\ queue' = Append(q, c)

\* c goes on without the lock.
Go(c, s, q) ==
  /\ pc' = [pc EXCEPT ![c] = s]
  /\ turn' = None
  /\ queue' = q

Keep(c, k) == mine' = [mine EXCEPT ![c] = k]
Mark(k, l) == link' = [link EXCEPT ![k] = l]

-----------------------------------------------------------------------------
(* acquire *)

\* A run or an account operation asks for a client.
Acquire(c) ==
  /\ open /\ turn = None
  /\ pc[c] = "idle"
  /\ leases + pending < MaxHeld
  /\ UNCHANGED <<open, pool, link, counts, owner, mine>>
  /\ Ask(c, "mark", queue)

\* Mutant: the mark is set, not counted.
MarkPendingOnce(c) ==
  /\ At(c, "mark")
  /\ pending' = 1
  /\ UNCHANGED <<open, pool, link, leases, owner, mine>>
  /\ Ask(c, "get", Left(c))

\* The pending mark protects the client while get() is awaited.
MarkPending(c) ==
  /\ At(c, "mark")
  /\ pending' = pending + 1
  /\ UNCHANGED <<open, pool, link, leases, owner, mine>>
  /\ Ask(c, "get", Left(c))

\* get finds the account's client.
GetPooled(c) ==
  /\ At(c, "get")
  /\ pool # None
  /\ Keep(c, pool)
  /\ UNCHANGED <<open, pool, link, counts, owner>>
  /\ Ask(c, "unmark", Left(c))

\* Mutant: the client is constructed outside the lock.
GetConnectsUnlocked(c) ==
  /\ At(c, "get")
  /\ pool = None
  /\ \E k \in Clients : /\ link[k] = "new"
                        /\ Mark(k, "connecting")
                        /\ Keep(c, k)
  /\ Go(c, "connecting", Left(c))
  /\ UNCHANGED <<open, pool, counts, owner>>

\* get constructs a client and connects it, holding the lock.
GetConnects(c) ==
  /\ At(c, "get")
  /\ pool = None
  /\ \E k \in Clients : /\ link[k] = "new"
                        /\ Mark(k, "connecting")
                        /\ Keep(c, k)
  /\ owner' = c
  /\ Go(c, "connecting", Left(c))
  /\ UNCHANGED <<open, pool, counts>>

Connected(c) ==
  /\ turn = None /\ pc[c] = "connecting"
  /\ Mark(mine[c], "connected")
  /\ pool' = mine[c]
  /\ owner' = None
  /\ UNCHANGED <<open, counts, mine>>
  /\ Ask(c, "unmark", queue)

\* except Exception: the client is disconnected before the error goes on.
ConnectFailed(c) ==
  /\ turn = None /\ pc[c] = "connecting"
  /\ Mark(mine[c], "closed")
  /\ Keep(c, None)
  /\ owner' = None
  /\ UNCHANGED <<open, pool, counts>>
  /\ Ask(c, "unmark", queue)

\* Mutant: the mark is taken back without looking at the counter.
UnmarkUnguarded(c) ==
  /\ At(c, "unmark")
  /\ pending' = pending - 1
  /\ UNCHANGED <<open, pool, link, leases, owner, mine>>
  /\ IF mine[c] = None THEN Go(c, "idle", Left(c)) ELSE Ask(c, "lease", Left(c))

\* The finally block of acquire; without a client the error goes on.
Unmark(c) ==
  /\ At(c, "unmark")
  /\ pending' = IF pending <= 1 THEN 0 ELSE pending - 1
  /\ UNCHANGED <<open, pool, link, leases, owner, mine>>
  /\ IF mine[c] = None THEN Go(c, "idle", Left(c)) ELSE Ask(c, "lease", Left(c))

\* The client of the pool, or the own one put back, is leased.
TakeLease(c) ==
  LET k == IF pool = None THEN mine[c] ELSE pool
  IN  /\ At(c, "lease")
      /\ pool' = k
      /\ Keep(c, k)
      /\ leases' = leases + 1
      /\ Go(c, "using", Left(c))
      /\ UNCHANGED <<open, link, pending, owner>>

-----------------------------------------------------------------------------
(* release, disconnect_account, close *)

Release(c) ==
  /\ turn = None /\ pc[c] = "using"
  /\ UNCHANGED <<open, pool, link, counts, owner, mine>>
  /\ Ask(c, "release", queue)

\* The rest of a section once it decided whether to disconnect the client.
Disconnect(c, wanted) ==
  IF wanted /\ pool # None
  THEN pool' = None /\ Keep(c, pool) /\ owner' = c /\ Go(c, "disconnecting", Left(c))
  ELSE UNCHANGED <<pool, owner>> /\ Keep(c, None) /\ Go(c, "idle", Left(c))

\* Mutant: the release disconnects although others hold leases.
ReleaseLeaseAlways(c) ==
  /\ At(c, "release")
  /\ leases' = IF leases = 0 THEN 0 ELSE leases - 1
  /\ Disconnect(c, leases > 0 /\ pending = 0)
  /\ UNCHANGED <<open, link, pending>>

\* One lease less; the last one disconnects unless somebody is marked.
ReleaseLease(c) ==
  /\ At(c, "release")
  /\ leases' = IF leases = 0 THEN 0 ELSE leases - 1
  /\ Disconnect(c, leases > 0 /\ leases' = 0 /\ pending = 0)
  /\ UNCHANGED <<open, link, pending>>

\* Login and logout first look at has_active_leases.
Drop(c) ==
  /\ open /\ turn = None
  /\ pc[c] = "idle"
  /\ leases = 0
  /\ UNCHANGED <<open, pool, link, counts, owner, mine>>
  /\ Ask(c, "drop", queue)

\* disconnect_account, refused while leased or marked.
DropClient(c) ==
  /\ At(c, "drop")
  /\ Disconnect(c, leases = 0 /\ pending = 0)
  /\ UNCHANGED <<open, link, counts>>

\* CheckinService.close closes the pool after its runs have ended; requests
\* of the account service may still be under way.
Close(c) ==
  /\ open /\ turn = None
  /\ pc[c] = "idle"
  /\ open' = FALSE
  /\ UNCHANGED <<pool, link, counts, owner, mine>>
  /\ IF pool = None THEN Go(c, "idle", queue) ELSE Ask(c, "close", queue)

CloseClient(c) ==
  /\ At(c, "close")
  /\ leases' = 0 /\ pending' = 0
  /\ Disconnect(c, TRUE)
  /\ UNCHANGED <<open, link>>

\* client.disconnect() returned or failed; either way the client is closed.
Disconnected(c) ==
  /\ turn = None /\ pc[c] = "disconnecting"
  /\ Mark(mine[c], "closed")
  /\ Keep(c, None)
  /\ owner' = None
  /\ Go(c, "idle", queue)
  /\ UNCHANGED <<open, pool, counts>>

-----------------------------------------------------------------------------
(* CancelledError *)

\* The waiters but the i-th.
Without(i) == SubSeq(queue, 1, i - 1) \o SubSeq(queue, i + 1, Len(queue))

\* A waiter leaves the lock's queue: get's error runs acquire's finally block,
\* any other section is lost.
CancelWaiting(c) ==
  /\ turn = None /\ pc[c] \in Section
  /\ UNCHANGED <<open, pool, link, counts, owner>>
  /\ Keep(c, None)
  /\ \E i \in DOMAIN queue :
       /\ queue[i] = c
       /\ IF pc[c] = "get" THEN Ask(c, "unmark", Without(i))
                           ELSE Go(c, "idle", Without(i))

\* get does not catch CancelledError: a client that is already connected
\* stays so, unknown to the pool.
CancelConnecting(c) ==
  /\ turn = None /\ pc[c] = "connecting"
  /\ \E l \in {"closed", "stray"} : Mark(mine[c], l)
  /\ Keep(c, None)
  /\ owner' = None
  /\ UNCHANGED <<open, pool, counts>>
  /\ Ask(c, "unmark", queue)

CancelDisconnecting(c) ==
  /\ turn = None /\ pc[c] = "disconnecting"
  /\ \E l \in {"closed", "stray"} : Mark(mine[c], l)
  /\ Keep(c, None)
  /\ owner' = None
  /\ Go(c, "idle", queue)
  /\ UNCHANGED <<open, pool, counts>>

Cancel(c) == CancelWaiting(c) \/ CancelConnecting(c) \/ CancelDisconnecting(c)

-----------------------------------------------------------------------------
AcquireStep(c) ==
  \/ Acquire(c) \/ MarkPending(c) \/ GetPooled(c) \/ GetConnects(c)
  \/ Connected(c) \/ ConnectFailed(c) \/ Unmark(c) \/ TakeLease(c)

ReleaseStep(c) ==
  \/ Release(c) \/ ReleaseLease(c) \/ Disconnected(c)
  \/ "drop" \in PoolEvents /\ (Drop(c) \/ DropClient(c))
  \/ "close" \in PoolEvents /\ (Close(c) \/ CloseClient(c))

Next ==
  \E c \in Callers : \/ AcquireStep(c)
                     \/ ReleaseStep(c)
                     \/ "cancel" \in PoolEvents /\ Cancel(c)

Spec == Init /\ [][Next]_vars

-----------------------------------------------------------------------------
(* Properties *)

Holders == {c \in Callers : pc[c] \in {"using", "release"}}
Marked  == {c \in Callers : pc[c] \in {"get", "connecting", "unmark"}}

\* Until the pool is closed no counter falls behind the callers it counts,
\* whatever is cancelled: too few leases would disconnect a client in use.
CountsCover ==
  open => Cardinality(Holders) <= leases /\ Cardinality(Marked) <= pending

\* A session file belongs to one client at a time ("sessions cannot be
\* shared", client_pool.py:36): at most one client the pool knows of is being
\* connected, connected or being disconnected.
OneSession ==
  \A k, l \in Clients :
    (link[k] \in {"connecting", "connected"}
       /\ link[l] \in {"connecting", "connected"}) => k = l

\* Until the pool is closed no client is disconnected under a caller that
\* uses it.
LeasedStaysConnected ==
  [][\A c \in Callers :
       (open' /\ pc[c] = "using" /\ link[mine[c]] = "connected") =>
         pool' = mine[c] /\ link'[mine[c]] = "connected"]_vars

\* acquire returns "a connected client" that "a concurrent final release
\* cannot disconnect [...] in the middle of this handoff" (client_pool.py:65).
AcquiredIsConnected ==
  \A c \in Callers : (open /\ pc[c] = "using") => link[mine[c]] = "connected"
=============================================================================
