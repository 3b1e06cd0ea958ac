---------------------------- MODULE AccountChats ----------------------------
(***************************************************************************)
(* Borrowers of one account's pooled client: message probes that listen    *)
(* for a reply, pulls that snapshot the dialogs and hand their lease to a  *)
(* background avatar download, and the avatar files those leave behind.    *)
(* One chat stands for all; its photo changes at Telegram while they run.  *)
(* The pool is its lease count: ClientPool has the details.                *)
(***************************************************************************)
EXTENDS Integers, FiniteSets

CONSTANTS
  Users,   \* requests that probe or pull
  Photos   \* photo versions the chat goes through, 0 when it has none

ChatAssumption == IsFiniteSet(Users) /\ Photos \subseteq Nat \ {0} /\ IsFiniteSet(Photos)

VARIABLES
  active,    \* the account row's is_active
  leases,    \* leases of the account's client
  user,      \* where each request is
  shot,      \* the photo in each pull's snapshot
  listening, \* probes whose handler is registered with the client
  fetch,     \* the download each pull has started, if any
  photo,     \* the chat's photo at Telegram
  row,       \* the cached chat: photo id, whether it is active
  files,     \* versions in the cache directory
  closing    \* whether the service shuts down

vars == <<active, leases, user, shot, listening, fetch, photo, row, files, closing>>
world == <<active, photo, closing>>
cache == <<row, files>>

At == {"idle", "sending", "listening", "reading", "dialogs", "release"}
Fetching == {"none", "scheduled", "locked", "release"}

ChatsTypeOK ==
  /\ {active, closing} \subseteq BOOLEAN
  /\ leases \in Nat
  /\ user \in [Users -> At] /\ fetch \in [Users -> Fetching]
  /\ shot \in [Users -> Photos \cup {0}]
  /\ listening \subseteq Users
  /\ photo \in Photos \cup {0}
  /\ row \in [known : BOOLEAN, current : BOOLEAN, photo : Photos \cup {0}]
  /\ files \subseteq Photos

Init ==
  /\ active \in BOOLEAN /\ closing = FALSE
  /\ leases = 0
  /\ user = [u \in Users |-> "idle"] /\ fetch = [u \in Users |-> "none"]
  /\ shot = [u \in Users |-> 0]
  /\ listening = {}
  /\ photo \in Photos \cup {0}
  /\ row = [known |-> FALSE, current |-> FALSE, photo |-> 0]
  /\ files = {}

Holders == {u \in Users : user[u] # "idle"}
Downloads == {u \in Users : fetch[u] # "none"}
Goto(u, a) == user' = [user EXCEPT ![u] = a]

\* A free request is validated and gets a lease; one that pulls takes its
\* snapshot with it.  A pool that cannot connect raises before a lease.
Acquire(u, a) ==
  /\ user[u] = "idle" /\ fetch[u] = "none"
  /\ active /\ ~closing
  /\ leases' = leases + 1
  /\ Goto(u, a)
  /\ shot' = [shot EXCEPT ![u] = 0]
  /\ UNCHANGED <<listening, fetch, cache, world>>

-----------------------------------------------------------------------------
(* probe_message *)

ProbeOnly == UNCHANGED <<leases, shot, fetch, cache, world>>

Probe(u) == Acquire(u, "sending")

ProbeSent(u) ==
  /\ user[u] = "sending"
  /\ listening' = listening \cup {u}
  /\ Goto(u, "listening")
  /\ ProbeOnly

\* The reply was among the last messages or came as an event: the message is
\* read again for its buttons, without the handler.
ProbeReplied(u) ==
  /\ user[u] = "listening"
  /\ listening' = listening \ {u}
  /\ Goto(u, "reading")
  /\ ProbeOnly

\* Time is up, Telegram failed or the request was cancelled: every way out
\* removes the handler, then releases.
ProbeEnds(u) ==
  /\ user[u] \in {"sending", "listening", "reading"}
  /\ listening' = listening \ {u}
  /\ Goto(u, "release")
  /\ ProbeOnly

-----------------------------------------------------------------------------
(* pull_chats *)

Pull(u) == Acquire(u, "dialogs")

\* iter_dialogs reaches the chat, or the account no longer has it.
Snapshot(u) ==
  /\ user[u] = "dialogs"
  /\ shot' = [shot EXCEPT ![u] = photo]
  /\ UNCHANGED <<leases, user, listening, fetch, cache, world>>

PullFails(u) ==
  /\ user[u] = "dialogs"
  /\ Goto(u, "release")
  /\ UNCHANGED <<leases, shot, listening, fetch, cache, world>>

\* upsert_account_chats: rows that changed are updated, dialogs that are gone
\* become inactive and keep what they had.
Upserted(seen, p) ==
  IF seen THEN [known |-> TRUE, current |-> TRUE, photo |-> p]
  ELSE [row EXCEPT !.current = FALSE]

\* Mutant: the request releases a lease it has handed to the download.
PullEndsReleasing(u, seen) ==
  /\ user[u] = "dialogs"
  /\ row' = Upserted(seen, shot[u])
  /\ fetch' = IF seen /\ shot[u] # 0 THEN [fetch EXCEPT ![u] = "scheduled"] ELSE fetch
  /\ Goto(u, "release")
  /\ UNCHANGED <<leases, shot, listening, files, world>>

\* Saved; a lease with avatars to fetch goes to the background task, any
\* other is released by the request.
PullEnds(u, seen) ==
  /\ user[u] = "dialogs"
  /\ row' = Upserted(seen, shot[u])
  /\ IF seen /\ shot[u] # 0
     THEN fetch' = [fetch EXCEPT ![u] = "scheduled"] /\ Goto(u, "idle")
     ELSE Goto(u, "release") /\ UNCHANGED fetch
  /\ UNCHANGED <<leases, shot, listening, files, world>>

Release(u) ==
  /\ user[u] = "release"
  /\ leases' = leases - 1
  /\ Goto(u, "idle")
  /\ UNCHANGED <<shot, listening, fetch, cache, world>>

-----------------------------------------------------------------------------
(* _prefetch_chat_avatars *)

FetchOnly == UNCHANGED <<user, shot, listening, row, world>>
FetchGoto(u, a) == fetch' = [fetch EXCEPT ![u] = a]

\* Under the lock of its file: a file that exists ends the job.
Lock(u) ==
  /\ fetch[u] = "scheduled"
  /\ \A v \in Users : fetch[v] = "locked" => shot[v] # shot[u]
  /\ FetchGoto(u, IF shot[u] \in files THEN "release" ELSE "locked")
  /\ UNCHANGED <<leases, files>> /\ FetchOnly

\* Stored, and all other versions of the chat deleted.
Store(u) ==
  /\ fetch[u] = "locked"
  /\ files' = {shot[u]}
  /\ FetchGoto(u, "release")
  /\ UNCHANGED leases /\ FetchOnly

NoFile(u) ==
  /\ fetch[u] = "locked"
  /\ FetchGoto(u, "release")
  /\ UNCHANGED <<leases, files>> /\ FetchOnly

FetchEnds(u) ==
  /\ fetch[u] = "release"
  /\ leases' = leases - 1
  /\ FetchGoto(u, "none")
  /\ UNCHANGED files /\ FetchOnly

-----------------------------------------------------------------------------
\* close cancels the downloads.  One that has not begun never reaches its
\* finally, so its lease is left to ClientPool.close.
Close ==
  /\ ~closing /\ closing' = TRUE
  /\ fetch' = [u \in Users |-> CASE fetch[u] = "scheduled" -> "none"
                                 [] fetch[u] = "locked" -> "release"
                                 [] OTHER -> fetch[u]]
  /\ UNCHANGED <<active, leases, user, shot, listening, photo, cache>>

PhotoChanges ==
  /\ \E p \in Photos \cup {0} : p # photo /\ photo' = p
  /\ UNCHANGED <<active, leases, user, shot, listening, fetch, cache, closing>>

\* A login or a logout elsewhere; a logout only while nobody holds a lease.
AccountFlips ==
  /\ ~active \/ leases = 0
  /\ active' = ~active
  /\ UNCHANGED <<leases, user, shot, listening, fetch, photo, cache, closing>>

Step(u) ==
  \/ Probe(u) \/ ProbeSent(u) \/ ProbeReplied(u) \/ ProbeEnds(u)
  \/ Pull(u) \/ Snapshot(u) \/ PullFails(u) \/ (\E seen \in BOOLEAN : PullEnds(u, seen))
  \/ Release(u) \/ Lock(u) \/ Store(u) \/ NoFile(u) \/ FetchEnds(u)

Next == (\E u \in Users : Step(u)) \/ Close \/ PhotoChanges \/ AccountFlips

Spec == Init /\ [][Next]_vars

-----------------------------------------------------------------------------
\* Each lease belongs to one request or one download and is given back once,
\* and a request that listens to the client holds one.
LeasesBalanced ==
  /\ listening \subseteq Holders
  /\ leases >= Cardinality(Holders) + Cardinality(Downloads)
  /\ ~closing => leases = Cardinality(Holders) + Cardinality(Downloads)

\* "Keep only the current photo for this chat": a stored file of the version
\* the cached chat names stays until the chat names another.  (A download of
\* an older snapshot deletes it: see the README.)
CurrentPhotoKept ==
  [][row.photo \in files /\ row' = row => row.photo \in files']_vars
=============================================================================
