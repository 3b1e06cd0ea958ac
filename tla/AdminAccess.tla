---------------------------- MODULE AdminAccess ----------------------------
(***************************************************************************)
(* How an administrator gets in and stays in: TransportKeyManager with its *)
(* rotating keys and one-time nonces, the verification that turns a        *)
(* decrypted key into a session, the failure limiter, and SessionManager   *)
(* with its memory, its table and a rolling lifetime.  Every handler runs  *)
(* to its end under a lock; what interleaves are whole requests, the       *)
(* rotation loop, time, database errors and restarts.                      *)
(***************************************************************************)
EXTENDS Integers, FiniteSets, Sequences, Functions

CONSTANTS
  Challenges,   \* challenges a behaviour can issue (a bound)
  Tokens,       \* sessions a behaviour can create (a bound)
  Rotation,     \* transport_key_rotation_hours
  Grace,        \* old_key_grace_seconds
  NonceTTL,     \* nonce_ttl_seconds
  Skew,         \* DEFAULT_TIMESTAMP_SKEW_SECONDS
  Lifetime,     \* session_days
  PruneEvery,   \* prune_interval_seconds
  MaxFailures, FailureWindow,
  MaxTime, MaxKeys  \* bounds of the clock and of the key's number

AccessAssumption ==
  /\ {Rotation, NonceTTL, Lifetime, PruneEvery, MaxFailures, FailureWindow} \subseteq Nat \ {0}
  /\ {Grace, Skew, MaxTime, MaxKeys} \subseteq Nat
  /\ NonceTTL <= Grace
  /\ IsFiniteSet(Challenges) /\ IsFiniteSet(Tokens)

VARIABLES
  clock,
  key,        \* the current key: number and creation time
  old,        \* former keys: when each is retired
  nonces,     \* registered nonces: key, purpose and end
  issued,     \* history: what each challenge said, by challenge
  used,       \* history: how many payloads reached each nonce
  failures,   \* times of the limiter's failures
  sessions,   \* in memory: when each session ends
  store,      \* the admin_sessions table, likewise
  lastPrune,  \* -1 before the first
  gone        \* history: tokens whose logout was answered

vars == <<clock, key, old, nonces, issued, used, failures, sessions, store, lastPrune, gone>>
keyVars == <<key, old, nonces, issued, used>>
sessionVars == <<sessions, store, lastPrune, gone>>

Purposes == {"admin", "phone"}

AccessTypeOK ==
  /\ clock \in 0 .. MaxTime
  /\ key \in [id : 0 .. MaxKeys, born : 0 .. MaxTime]
  /\ DOMAIN old \subseteq 0 .. key.id - 1 /\ Range(old) \subseteq Nat
  /\ DOMAIN nonces \subseteq DOMAIN issued /\ DOMAIN issued \subseteq Challenges
  /\ \A n \in DOMAIN nonces : nonces[n] = issued[n]
  /\ used \in [Challenges -> Nat]
  /\ Len(failures) <= MaxFailures
  /\ DOMAIN sessions \cup DOMAIN store \cup gone \subseteq Tokens
  /\ lastPrune \in -1 .. MaxTime

Init ==
  /\ clock = 0
  /\ key = [id |-> 0, born |-> 0]
  /\ old = <<>> /\ nonces = <<>> /\ issued = <<>>
  /\ used = [n \in Challenges |-> 0]
  /\ failures = <<>>
  /\ sessions = <<>> /\ store = <<>> /\ lastPrune = -1 /\ gone = {}

\* f with x mapped to y.
Put(f, x, y) == [z \in DOMAIN f \cup {x} |-> IF z = x THEN y ELSE f[z]]

Without(f, x) == Restrict(f, DOMAIN f \ {x})

\* What of f, a map to end times, is not over.
Live(f) == Restrict(f, {x \in DOMAIN f : f[x] > clock})

Tick ==
  /\ clock < MaxTime /\ clock' = clock + 1
  /\ UNCHANGED <<keyVars, failures, sessionVars>>

-----------------------------------------------------------------------------
(* Transport keys *)

Retired == Put(old, key.id, clock + Grace)
Due == clock - key.born >= Rotation
NextKey == [id |-> key.id + 1, born |-> clock]

\* _prune_locked: a nonce is kept while its key can still decrypt.
Pruned(k, olds) ==
  Restrict(nonces, {n \in DOMAIN nonces :
             nonces[n].end > clock /\ (nonces[n].key = k.id \/ nonces[n].key \in DOMAIN olds)})

\* A rotation, when one is due or asked for; then the prune.
Rotate(forced) ==
  LET k    == IF forced \/ Due THEN NextKey ELSE key
      olds == Live(IF forced \/ Due THEN Retired ELSE old)
  IN /\ k.id <= MaxKeys
     /\ key' = k /\ old' = olds
     /\ nonces' = Pruned(k, olds)

RotateKeys(forced) ==
  /\ Rotate(forced)
  /\ UNCHANGED <<clock, issued, used, failures, sessionVars>>

IssueChallenge(n, purpose) ==
  /\ n \notin DOMAIN issued
  /\ LET k    == IF Due THEN NextKey ELSE key
         olds == Live(IF Due THEN Retired ELSE old)
         said == [key |-> k.id, purpose |-> purpose, end |-> clock + NonceTTL]
     IN /\ k.id <= MaxKeys
        /\ key' = k /\ old' = olds
        /\ nonces' = Put(Pruned(k, olds), n, said)
        /\ issued' = Put(issued, n, said)
  /\ UNCHANGED <<clock, used, failures, sessionVars>>

Reaches(n) == n \in DOMAIN Pruned(key, Live(old))

\* decrypt_payload of what a browser encrypted for challenge n: its nonce is
\* spent, whatever is found wrong with the payload afterwards.
Opens(n) ==
  /\ nonces' = Without(Pruned(key, Live(old)), n)
  /\ used' = [used EXCEPT ![n] = IF Reaches(n) THEN @ + 1 ELSE @]

\* Whether the payload, encrypted at time stamp, is taken.
Fits(n, purpose, stamp) ==
  Reaches(n) /\ nonces[n].purpose = purpose /\ clock - stamp <= Skew

\* A request first rotates a key that is due: the two are one action of the
\* code, and two of the model only when the rotation is due.
Settled == ~Due /\ old' = Live(old) /\ UNCHANGED <<key, issued>>

-----------------------------------------------------------------------------
(* The failure limiter *)

\* _discard_expired: failures leave from the front while they are over.
RecentFailures ==
  LET over(i) == failures[i] <= clock - FailureWindow
      left(n) == (\A i \in 1 .. n : over(i)) /\ (n = Len(failures) \/ ~over(n + 1))
      many == CHOOSE n \in 0 .. Len(failures) : left(n)
  IN SubSeq(failures, many + 1, Len(failures))

Limited == Len(RecentFailures) >= MaxFailures

-----------------------------------------------------------------------------
(* Sessions.  Each operation prunes first; the table is pruned at most once *)
(* per interval, and a table that fails fails the request there.           *)

PruneDue == lastPrune = -1 \/ clock - lastPrune >= PruneEvery

\* ok: whether the table's DELETE, if it is due, succeeds.
PrunedStore(ok) == IF PruneDue /\ ok THEN Live(store) ELSE store
Cleanup == lastPrune' = IF PruneDue THEN clock ELSE lastPrune

\* create, after a verification: a table that fails leaves a session nobody
\* was given.
Create(t, ok) ==
  /\ Cleanup
  /\ IF ~ok /\ PruneDue THEN sessions' = Live(sessions) /\ UNCHANGED store
     ELSE /\ sessions' = Put(Live(sessions), t, clock + Lifetime)
          /\ store' = IF ok THEN Put(PrunedStore(ok), t, clock + Lifetime) ELSE store
  /\ UNCHANGED gone

\* POST /api/auth/verify.
Verify(n, stamp, good, t, ok) ==
  /\ n \in DOMAIN issued /\ stamp >= issued[n].end - NonceTTL
  /\ Settled /\ ~Limited
  /\ t \notin DOMAIN sessions \cup DOMAIN store \cup gone
  /\ Opens(n)
  /\ IF good /\ Fits(n, "admin", stamp)
     THEN failures' = <<>> /\ Create(t, ok)
     ELSE failures' = Append(RecentFailures, clock) /\ UNCHANGED sessionVars
  /\ UNCHANGED clock

\* The account routes open a payload of a login the same way.
OpenSecret(n) ==
  /\ n \in DOMAIN issued
  /\ Settled
  /\ Opens(n)
  /\ UNCHANGED <<clock, failures, sessionVars>>

\* Whether t is a session after the prune and, if memory has forgotten it, a
\* look into the table.
Known(t, ok) == \/ t \in DOMAIN Live(sessions)
                \/ ok /\ t \in DOMAIN Live(PrunedStore(ok))

\* The middleware's authenticate; csrf is whether a change carries its token.
Authenticate(t, csrf, ok) ==
  /\ Cleanup
  /\ \/ /\ ~ok /\ PruneDue
        /\ sessions' = Live(sessions) /\ UNCHANGED store
     \/ /\ ok \/ ~PruneDue
        /\ ~Known(t, ok)
        /\ sessions' = Live(sessions) /\ store' = PrunedStore(ok)
     \/ /\ ok \/ ~PruneDue
        /\ Known(t, ok)
        /\ IF csrf
           THEN /\ sessions' = Put(Live(sessions), t, clock + Lifetime)
                /\ store' = IF ok THEN Put(PrunedStore(ok), t, clock + Lifetime) ELSE store
           ELSE /\ sessions' = Put(Live(sessions), t,
                                   IF t \in DOMAIN Live(sessions) THEN sessions[t] ELSE store[t])
                /\ store' = PrunedStore(ok)
  /\ UNCHANGED <<clock, keyVars, failures, gone>>

\* revoke: memory first; a logout is answered once the row is gone too.
Revoke(t, ok) ==
  /\ sessions' = Without(sessions, t)
  /\ store' = IF ok THEN Without(store, t) ELSE store
  /\ gone' = IF ok THEN gone \cup {t} ELSE gone

\* POST /api/auth/logout, already authenticated in the same request.
Logout(t, ok) ==
  /\ t \in DOMAIN Live(sessions)
  /\ Revoke(t, ok)
  /\ UNCHANGED <<clock, keyVars, failures, lastPrune>>

\* A crash or a restart: keys, nonces, failures and memory are lost.
Restart ==
  /\ key.id < MaxKeys
  /\ key' = NextKey /\ old' = <<>> /\ nonces' = <<>>
  /\ issued' = [n \in DOMAIN issued |-> [issued[n] EXCEPT !.end = -1]]
  /\ failures' = <<>>
  /\ sessions' = <<>> /\ lastPrune' = -1
  /\ UNCHANGED <<clock, used, store, gone>>

-----------------------------------------------------------------------------
Next ==
  \/ Tick \/ Restart
  \/ \E forced \in BOOLEAN : RotateKeys(forced)
  \/ \E n \in Challenges :
       \/ \E purpose \in Purposes : IssueChallenge(n, purpose)
       \/ OpenSecret(n)
       \/ \E stamp \in 0 .. clock, good, ok \in BOOLEAN, t \in Tokens :
            Verify(n, stamp, good, t, ok)
  \/ \E t \in Tokens, ok \in BOOLEAN :
       Logout(t, ok) \/ \E csrf \in BOOLEAN : Authenticate(t, csrf, ok)

Spec == Init /\ [][Next]_vars

-----------------------------------------------------------------------------
\* A challenge lasts its advertised time: until it is used it can be opened,
\* however the keys rotate meanwhile; a restart ends all of them.
ChallengeLasts ==
  \A n \in DOMAIN issued :
    used[n] = 0 /\ issued[n].end > clock => n \in DOMAIN Pruned(key, Live(old))

\* One challenge admits one payload, so one key check and one session.
OneUsePerChallenge == \A n \in Challenges : used[n] <= 1

\* An answered logout is final: no later request, prune or restart brings the
\* session back.
LogoutIsFinal == gone \cap (DOMAIN sessions \cup DOMAIN store) = {}
=============================================================================
