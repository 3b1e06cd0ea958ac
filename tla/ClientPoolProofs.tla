-------------------------- MODULE ClientPoolProofs --------------------------
(***************************************************************************)
(* The safety properties of ClientPool that hold whatever is dropped,      *)
(* closed or cancelled, for any set of callers and clients.                *)
(***************************************************************************)
EXTENDS ClientPool, FiniteSetTheorems, SequenceTheorems, TLAPS

\* TypeOK without the queue, which Lined describes.
Typed ==
  /\ open \in BOOLEAN
  /\ pool \in Clients \cup {None}
  /\ link \in [Clients -> Links]
  /\ leases \in Nat /\ pending \in Nat
  /\ owner \in Callers \cup {None}
  /\ turn \in Callers \cup {None}
  /\ pc \in [Callers -> Label]
  /\ mine \in [Callers -> Clients \cup {None}]

\* The lock is held over an await by exactly the caller in that await, and
\* the pool has no client meanwhile; close() runs on a closed pool.
Locking ==
  /\ \A c \in Callers : pc[c] \in Awaits <=> owner = c
  /\ owner # None => pool = None
  /\ \A c \in Callers : pc[c] = "close" => ~open

\* Callers that are beyond get() have a client in their frame.
Frames ==
  \A c \in Callers :
    /\ pc[c] \in Awaits \cup {"lease", "using", "release"} => mine[c] # None
    /\ pc[c] = "connecting" => link[mine[c]] = "connecting"

\* A live client is the pool's, or the one the lock's owner awaits.
Sole ==
  \A k \in Clients : link[k] \in {"connecting", "connected"} =>
    k = pool \/ (owner # None /\ k = mine[owner])

\* A client that is being disconnected has no user.
Drained ==
  (open /\ \E d \in Callers : pc[d] = "disconnecting") =>
    \A c \in Callers : pc[c] # "using"

IInv == Typed /\ Locking /\ Frames /\ Sole /\ Drained /\ CountsCover

-----------------------------------------------------------------------------
(* How many callers are at the labels L of their program *)

Count(L) == Cardinality({c \in Callers : pc[c] \in L})

\* 1 for a label that is counted, 0 for any other.
One(s, L) == IF s \in L THEN 1 ELSE 0

\* A caller that moves from one label to another changes Count(L) by at most
\* one: the counters of the pool are compared with it.
LEMMA CountMoves ==
  ASSUME NEW c \in Callers, NEW s, NEW L,
         pc \in [Callers -> Label],
         pc' = [pc EXCEPT ![c] = s]
  PROVE  /\ Count(L) \in Nat
         /\ Count(L)' \in Nat
         /\ Count(L)' + One(pc[c], L) = Count(L) + One(s, L)
<1> DEFINE S == {d \in Callers : pc[d] \in L}
           T == {d \in Callers : pc'[d] \in L}
<1>1. IsFiniteSet(S) /\ Cardinality(S) \in Nat
  <2>1. IsFiniteSet(Callers)
    BY PoolAssumption
  <2>2. S \in SUBSET Callers
    OBVIOUS
  <2> HIDE DEF S
  <2> QED BY <2>1, <2>2, FS_Subset, FS_CardinalityType
<1>2. T = IF s \in L THEN S \cup {c} ELSE S \ {c}
  <2>1. \A d \in Callers : pc'[d] = IF d = c THEN s ELSE pc[d]
    OBVIOUS
  <2> QED BY <2>1
<1>3. c \in S <=> pc[c] \in L
  OBVIOUS
<1>4. Count(L) = Cardinality(S) /\ Count(L)' = Cardinality(T)
  BY DEF Count
<1> HIDE DEF S, T
<1>5. /\ Cardinality(S \cup {c}) = IF c \in S THEN Cardinality(S) ELSE Cardinality(S) + 1
      /\ Cardinality(S \ {c}) = IF c \in S THEN Cardinality(S) - 1 ELSE Cardinality(S)
      /\ Cardinality(S \cup {c}) \in Nat /\ Cardinality(S \ {c}) \in Nat
  BY <1>1, FS_AddElement, FS_RemoveElement, FS_CardinalityType
<1>6. CASE s \in L
  BY <1>1, <1>2, <1>3, <1>4, <1>5, <1>6 DEF One
<1>7. CASE s \notin L
  BY <1>1, <1>2, <1>3, <1>4, <1>5, <1>7 DEF One
<1> QED BY <1>6, <1>7

-----------------------------------------------------------------------------
(* A step of the pool is one of its actions *)

Step(c) == AcquireStep(c) \/ ReleaseStep(c) \/ Cancel(c)

\* Asking for the lock and going on keep the types of pc and turn.
LEMMA PcTyped ==
  ASSUME Typed, NEW c \in Callers, NEW s \in Label, NEW q, Ask(c, s, q) \/ Go(c, s, q)
  PROVE  pc' \in [Callers -> Label] /\ turn' \in Callers \cup {None}
BY DEF Typed, Ask, Go

\* A step keeps the types: a frame's client is one when its link changes.
LEMMA TypedStep ==
  ASSUME Typed, Locking, Frames, NEW c \in Callers, Step(c)
  PROVE  Typed'
<1> USE DEF At, Keep, Mark, Disconnect, counts, Typed, Frames, Label, Section,
            Awaits, Links
<1>1. CASE Acquire(c)
  BY <1>1, PcTyped DEF Acquire
<1>2. CASE MarkPending(c)
  BY <1>2, PcTyped DEF MarkPending
<1>3. CASE GetPooled(c)
  BY <1>3, PcTyped DEF GetPooled
<1>4. CASE GetConnects(c)
  BY <1>4, PcTyped DEF GetConnects
<1>5. CASE Connected(c)
  BY <1>5, PcTyped DEF Connected
<1>6. CASE ConnectFailed(c)
  BY <1>6, PcTyped DEF ConnectFailed
<1>7. CASE Unmark(c)
  BY <1>7, PcTyped DEF Unmark
<1>8. CASE TakeLease(c)
  BY <1>8, PcTyped DEF TakeLease
<1>9. CASE Release(c)
  BY <1>9, PcTyped DEF Release
<1>10. CASE ReleaseLease(c)
  BY <1>10, PcTyped DEF ReleaseLease
<1>11. CASE Disconnected(c)
  BY <1>11, PcTyped DEF Disconnected
<1>12. CASE Drop(c)
  BY <1>12, PcTyped DEF Drop
<1>13. CASE DropClient(c)
  BY <1>13, PcTyped DEF DropClient
<1>14. CASE Close(c)
  BY <1>14, PcTyped DEF Close
<1>15. CASE CloseClient(c)
  BY <1>15, PcTyped DEF CloseClient
<1>16. CASE CancelWaiting(c)
  BY <1>16, PcTyped DEF CancelWaiting
<1>17. CASE CancelConnecting(c)
  BY <1>17, PcTyped DEF CancelConnecting
<1>18. CASE CancelDisconnecting(c)
  BY <1>18, PcTyped DEF CancelDisconnecting
<1> QED BY <1>1, <1>2, <1>3, <1>4, <1>5, <1>6, <1>7, <1>8, <1>9, <1>10, <1>11,
     <1>12, <1>13, <1>14, <1>15, <1>16, <1>17, <1>18 DEF Step, AcquireStep,
     ReleaseStep, Cancel

\* The lock's owner changes with the caller that enters or leaves an await.
LEMMA LockingStep ==
  ASSUME Typed, Locking, NEW c \in Callers, Step(c)
  PROVE  Locking'
<1> USE DEF At, Ask, Go, Keep, Mark, Disconnect, Typed, Locking, Frames, Section,
            Awaits, Links, Label
<1>1. CASE Acquire(c)
  BY <1>1, PoolAssumption DEF Acquire
<1>2. CASE MarkPending(c)
  BY <1>2, PoolAssumption DEF MarkPending
<1>3. CASE GetPooled(c)
  BY <1>3, PoolAssumption DEF GetPooled
<1>4. CASE GetConnects(c)
  BY <1>4, PoolAssumption DEF GetConnects
<1>5. CASE Connected(c)
  BY <1>5, PoolAssumption DEF Connected
<1>6. CASE ConnectFailed(c)
  BY <1>6, PoolAssumption DEF ConnectFailed
<1>7. CASE Unmark(c)
  BY <1>7, PoolAssumption DEF Unmark
<1>8. CASE TakeLease(c)
  BY <1>8, PoolAssumption DEF TakeLease
<1>9. CASE Release(c)
  BY <1>9, PoolAssumption DEF Release
<1>10. CASE ReleaseLease(c)
  BY <1>10, PoolAssumption DEF ReleaseLease
<1>11. CASE Disconnected(c)
  BY <1>11, PoolAssumption DEF Disconnected
<1>12. CASE Drop(c)
  BY <1>12, PoolAssumption DEF Drop
<1>13. CASE DropClient(c)
  BY <1>13, PoolAssumption DEF DropClient
<1>14. CASE Close(c)
  BY <1>14, PoolAssumption DEF Close
<1>15. CASE CloseClient(c)
  BY <1>15, PoolAssumption DEF CloseClient
<1>16. CASE CancelWaiting(c)
  BY <1>16, PoolAssumption DEF CancelWaiting
<1>17. CASE CancelConnecting(c)
  BY <1>17, PoolAssumption DEF CancelConnecting
<1>18. CASE CancelDisconnecting(c)
  BY <1>18, PoolAssumption DEF CancelDisconnecting
<1> QED BY <1>1, <1>2, <1>3, <1>4, <1>5, <1>6, <1>7, <1>8, <1>9, <1>10, <1>11,
     <1>12, <1>13, <1>14, <1>15, <1>16, <1>17, <1>18 DEF Step, AcquireStep,
     ReleaseStep, Cancel

\* A caller carries the client it was given into the later sections.
LEMMA FramesStep ==
  ASSUME Typed, Locking, Frames, NEW c \in Callers, Step(c)
  PROVE  Frames'
<1> USE DEF At, Ask, Go, Keep, Mark, Disconnect, Typed, Locking, Frames, Section,
            Awaits, Links, Label
<1>1. CASE Acquire(c)
  BY <1>1, PoolAssumption DEF Acquire
<1>2. CASE MarkPending(c)
  BY <1>2, PoolAssumption DEF MarkPending
<1>3. CASE GetPooled(c)
  BY <1>3, PoolAssumption DEF GetPooled
<1>4. CASE GetConnects(c)
  BY <1>4, PoolAssumption DEF GetConnects
<1>5. CASE Connected(c)
  BY <1>5, PoolAssumption DEF Connected
<1>6. CASE ConnectFailed(c)
  BY <1>6, PoolAssumption DEF ConnectFailed
<1>7. CASE Unmark(c)
  BY <1>7, PoolAssumption DEF Unmark
<1>8. CASE TakeLease(c)
  BY <1>8, PoolAssumption DEF TakeLease
<1>9. CASE Release(c)
  BY <1>9, PoolAssumption DEF Release
<1>10. CASE ReleaseLease(c)
  BY <1>10, PoolAssumption DEF ReleaseLease
<1>11. CASE Disconnected(c)
  BY <1>11, PoolAssumption DEF Disconnected
<1>12. CASE Drop(c)
  BY <1>12, PoolAssumption DEF Drop
<1>13. CASE DropClient(c)
  BY <1>13, PoolAssumption DEF DropClient
<1>14. CASE Close(c)
  BY <1>14, PoolAssumption DEF Close
<1>15. CASE CloseClient(c)
  BY <1>15, PoolAssumption DEF CloseClient
<1>16. CASE CancelWaiting(c)
  BY <1>16, PoolAssumption DEF CancelWaiting
<1>17. CASE CancelConnecting(c)
  BY <1>17, PoolAssumption DEF CancelConnecting
<1>18. CASE CancelDisconnecting(c)
  BY <1>18, PoolAssumption DEF CancelDisconnecting
<1> QED BY <1>1, <1>2, <1>3, <1>4, <1>5, <1>6, <1>7, <1>8, <1>9, <1>10, <1>11,
     <1>12, <1>13, <1>14, <1>15, <1>16, <1>17, <1>18 DEF Step, AcquireStep,
     ReleaseStep, Cancel

\* A client comes alive only when the pool is empty and the lock is held.
LEMMA SoleStep ==
  ASSUME Typed, Locking, Frames, Sole, NEW c \in Callers, Step(c)
  PROVE  Sole'
<1> USE DEF At, Ask, Go, Keep, Mark, Disconnect, Typed, Locking, Frames, Section,
            Awaits, Links, Label, Sole
<1>1. CASE Acquire(c)
  BY <1>1, PoolAssumption DEF Acquire
<1>2. CASE MarkPending(c)
  BY <1>2, PoolAssumption DEF MarkPending
<1>3. CASE GetPooled(c)
  BY <1>3, PoolAssumption DEF GetPooled
<1>4. CASE GetConnects(c)
  BY <1>4, PoolAssumption DEF GetConnects
<1>5. CASE Connected(c)
  BY <1>5, PoolAssumption DEF Connected
<1>6. CASE ConnectFailed(c)
  BY <1>6, PoolAssumption DEF ConnectFailed
<1>7. CASE Unmark(c)
  BY <1>7, PoolAssumption DEF Unmark
<1>8. CASE TakeLease(c)
  BY <1>8, PoolAssumption DEF TakeLease
<1>9. CASE Release(c)
  BY <1>9, PoolAssumption DEF Release
<1>10. CASE ReleaseLease(c)
  BY <1>10, PoolAssumption DEF ReleaseLease
<1>11. CASE Disconnected(c)
  BY <1>11, PoolAssumption DEF Disconnected
<1>12. CASE Drop(c)
  BY <1>12, PoolAssumption DEF Drop
<1>13. CASE DropClient(c)
  BY <1>13, PoolAssumption DEF DropClient
<1>14. CASE Close(c)
  BY <1>14, PoolAssumption DEF Close
<1>15. CASE CloseClient(c)
  BY <1>15, PoolAssumption DEF CloseClient
<1>16. CASE CancelWaiting(c)
  BY <1>16, PoolAssumption DEF CancelWaiting
<1>17. CASE CancelConnecting(c)
  BY <1>17, PoolAssumption DEF CancelConnecting
<1>18. CASE CancelDisconnecting(c)
  BY <1>18, PoolAssumption DEF CancelDisconnecting
<1> QED BY <1>1, <1>2, <1>3, <1>4, <1>5, <1>6, <1>7, <1>8, <1>9, <1>10, <1>11,
     <1>12, <1>13, <1>14, <1>15, <1>16, <1>17, <1>18 DEF Step, AcquireStep,
     ReleaseStep, Cancel

-----------------------------------------------------------------------------
(* The counters *)

\* Where a caller is counted in leases, and where in pending.
Held  == {"using", "release"}
Going == {"get", "connecting", "unmark"}

\* A move keeps the counters ahead if they change at least as much as the
\* sets they cover.
LEMMA CoverMoves ==
  ASSUME Typed, CountsCover, NEW c \in Callers, NEW s, pc' = [pc EXCEPT ![c] = s],
         open' => open, leases' \in Nat, pending' \in Nat,
         open' => leases' + One(pc[c], Held) >= leases + One(s, Held),
         open' => pending' + One(pc[c], Going) >= pending + One(s, Going)
  PROVE  CountsCover'
<1>1. /\ Cardinality(Holders) = Count(Held) /\ Cardinality(Holders)' = Count(Held)'
      /\ Cardinality(Marked) = Count(Going) /\ Cardinality(Marked)' = Count(Going)'
  BY DEF Holders, Marked, Count, Held, Going
<1>2. /\ Count(Held) \in Nat /\ Count(Going) \in Nat
      /\ Count(Held)' \in Nat /\ Count(Going)' \in Nat
      /\ Count(Held)' + One(pc[c], Held) = Count(Held) + One(s, Held)
      /\ Count(Going)' + One(pc[c], Going) = Count(Going) + One(s, Going)
  BY CountMoves DEF Typed
<1>3. /\ One(s, Held) \in Nat /\ One(pc[c], Held) \in Nat
      /\ One(s, Going) \in Nat /\ One(pc[c], Going) \in Nat
  BY DEF One
<1> QED BY <1>1, <1>2, <1>3 DEF CountsCover, Typed

\* Every action changes the counters at least as much as the callers counted.
LEMMA CountsStep ==
  ASSUME Typed, Locking, CountsCover, NEW c \in Callers, Step(c)
  PROVE  CountsCover'
<1>1. CASE Acquire(c)
  <2>1. pc' = [pc EXCEPT ![c] = "mark"]
    BY <1>1 DEF Acquire, Ask, Go
  <2>2. /\ open' => open
        /\ leases' \in Nat /\ pending' \in Nat
        /\ open' => leases' + One(pc[c], Held) >= leases + One("mark", Held)
        /\ open' => pending' + One(pc[c], Going) >= pending + One("mark", Going)
    BY <1>1, <2>1 DEF Acquire, At, counts, Typed, Locking, One, Held, Going
  <2> QED BY <2>1, <2>2, CoverMoves
<1>2. CASE MarkPending(c)
  <2>1. pc' = [pc EXCEPT ![c] = "get"]
    BY <1>2 DEF MarkPending, Ask, Go
  <2>2. /\ open' => open
        /\ leases' \in Nat /\ pending' \in Nat
        /\ open' => leases' + One(pc[c], Held) >= leases + One("get", Held)
        /\ open' => pending' + One(pc[c], Going) >= pending + One("get", Going)
    BY <1>2, <2>1 DEF MarkPending, At, counts, Typed, Locking, One, Held, Going
  <2> QED BY <2>1, <2>2, CoverMoves
<1>3. CASE GetPooled(c)
  <2>1. pc' = [pc EXCEPT ![c] = "unmark"]
    BY <1>3 DEF GetPooled, Ask, Go
  <2>2. /\ open' => open
        /\ leases' \in Nat /\ pending' \in Nat
        /\ open' => leases' + One(pc[c], Held) >= leases + One("unmark", Held)
        /\ open' => pending' + One(pc[c], Going) >= pending + One("unmark", Going)
    BY <1>3, <2>1 DEF GetPooled, At, counts, Typed, Locking, One, Held, Going
  <2> QED BY <2>1, <2>2, CoverMoves
<1>4. CASE GetConnects(c)
  <2>1. pc' = [pc EXCEPT ![c] = "connecting"]
    BY <1>4 DEF GetConnects, Ask, Go
  <2>2. /\ open' => open
        /\ leases' \in Nat /\ pending' \in Nat
        /\ open' => leases' + One(pc[c], Held) >= leases + One("connecting", Held)
        /\ open' => pending' + One(pc[c], Going) >= pending + One("connecting", Going)
    BY <1>4, <2>1 DEF GetConnects, At, counts, Typed, Locking, One, Held, Going
  <2> QED BY <2>1, <2>2, CoverMoves
<1>5. CASE Connected(c)
  <2>1. pc' = [pc EXCEPT ![c] = "unmark"]
    BY <1>5 DEF Connected, Ask, Go
  <2>2. /\ open' => open
        /\ leases' \in Nat /\ pending' \in Nat
        /\ open' => leases' + One(pc[c], Held) >= leases + One("unmark", Held)
        /\ open' => pending' + One(pc[c], Going) >= pending + One("unmark", Going)
    BY <1>5, <2>1 DEF Connected, At, counts, Typed, Locking, One, Held, Going
  <2> QED BY <2>1, <2>2, CoverMoves
<1>6. CASE ConnectFailed(c)
  <2>1. pc' = [pc EXCEPT ![c] = "unmark"]
    BY <1>6 DEF ConnectFailed, Ask, Go
  <2>2. /\ open' => open
        /\ leases' \in Nat /\ pending' \in Nat
        /\ open' => leases' + One(pc[c], Held) >= leases + One("unmark", Held)
        /\ open' => pending' + One(pc[c], Going) >= pending + One("unmark", Going)
    BY <1>6, <2>1 DEF ConnectFailed, At, counts, Typed, Locking, One, Held, Going
  <2> QED BY <2>1, <2>2, CoverMoves
<1>7. CASE Unmark(c)
  <2>1. PICK s \in {"idle", "lease"} : pc' = [pc EXCEPT ![c] = s]
    BY <1>7 DEF Unmark, Disconnect, Ask, Go
  <2>2. /\ open' => open
        /\ leases' \in Nat /\ pending' \in Nat
        /\ open' => leases' + One(pc[c], Held) >= leases + One(s, Held)
        /\ open' => pending' + One(pc[c], Going) >= pending + One(s, Going)
    BY <1>7, <2>1 DEF Unmark, At, counts, Typed, Locking, One, Held, Going
  <2> QED BY <2>1, <2>2, CoverMoves
<1>8. CASE TakeLease(c)
  <2>1. pc' = [pc EXCEPT ![c] = "using"]
    BY <1>8 DEF TakeLease, Ask, Go
  <2>2. /\ open' => open
        /\ leases' \in Nat /\ pending' \in Nat
        /\ open' => leases' + One(pc[c], Held) >= leases + One("using", Held)
        /\ open' => pending' + One(pc[c], Going) >= pending + One("using", Going)
    BY <1>8, <2>1 DEF TakeLease, At, counts, Typed, Locking, One, Held, Going
  <2> QED BY <2>1, <2>2, CoverMoves
<1>9. CASE Release(c)
  <2>1. pc' = [pc EXCEPT ![c] = "release"]
    BY <1>9 DEF Release, Ask, Go
  <2>2. /\ open' => open
        /\ leases' \in Nat /\ pending' \in Nat
        /\ open' => leases' + One(pc[c], Held) >= leases + One("release", Held)
        /\ open' => pending' + One(pc[c], Going) >= pending + One("release", Going)
    BY <1>9, <2>1 DEF Release, At, counts, Typed, Locking, One, Held, Going
  <2> QED BY <2>1, <2>2, CoverMoves
<1>10. CASE ReleaseLease(c)
  <2>1. PICK s \in {"idle", "disconnecting"} : pc' = [pc EXCEPT ![c] = s]
    BY <1>10 DEF ReleaseLease, Disconnect, Ask, Go
  <2>2. /\ open' => open
        /\ leases' \in Nat /\ pending' \in Nat
        /\ open' => leases' + One(pc[c], Held) >= leases + One(s, Held)
        /\ open' => pending' + One(pc[c], Going) >= pending + One(s, Going)
    BY <1>10, <2>1 DEF ReleaseLease, At, counts, Typed, Locking, One, Held, Going
  <2> QED BY <2>1, <2>2, CoverMoves
<1>11. CASE Disconnected(c)
  <2>1. pc' = [pc EXCEPT ![c] = "idle"]
    BY <1>11 DEF Disconnected, Ask, Go
  <2>2. /\ open' => open
        /\ leases' \in Nat /\ pending' \in Nat
        /\ open' => leases' + One(pc[c], Held) >= leases + One("idle", Held)
        /\ open' => pending' + One(pc[c], Going) >= pending + One("idle", Going)
    BY <1>11, <2>1 DEF Disconnected, At, counts, Typed, Locking, One, Held, Going
  <2> QED BY <2>1, <2>2, CoverMoves
<1>12. CASE Drop(c)
  <2>1. pc' = [pc EXCEPT ![c] = "drop"]
    BY <1>12 DEF Drop, Ask, Go
  <2>2. /\ open' => open
        /\ leases' \in Nat /\ pending' \in Nat
        /\ open' => leases' + One(pc[c], Held) >= leases + One("drop", Held)
        /\ open' => pending' + One(pc[c], Going) >= pending + One("drop", Going)
    BY <1>12, <2>1 DEF Drop, At, counts, Typed, Locking, One, Held, Going
  <2> QED BY <2>1, <2>2, CoverMoves
<1>13. CASE DropClient(c)
  <2>1. PICK s \in {"idle", "disconnecting"} : pc' = [pc EXCEPT ![c] = s]
    BY <1>13 DEF DropClient, Disconnect, Ask, Go
  <2>2. /\ open' => open
        /\ leases' \in Nat /\ pending' \in Nat
        /\ open' => leases' + One(pc[c], Held) >= leases + One(s, Held)
        /\ open' => pending' + One(pc[c], Going) >= pending + One(s, Going)
    BY <1>13, <2>1 DEF DropClient, At, counts, Typed, Locking, One, Held, Going
  <2> QED BY <2>1, <2>2, CoverMoves
<1>14. CASE Close(c)
  <2>1. PICK s \in {"idle", "close"} : pc' = [pc EXCEPT ![c] = s]
    BY <1>14 DEF Close, Disconnect, Ask, Go
  <2>2. /\ open' => open
        /\ leases' \in Nat /\ pending' \in Nat
        /\ open' => leases' + One(pc[c], Held) >= leases + One(s, Held)
        /\ open' => pending' + One(pc[c], Going) >= pending + One(s, Going)
    BY <1>14, <2>1 DEF Close, At, counts, Typed, Locking, One, Held, Going
  <2> QED BY <2>1, <2>2, CoverMoves
<1>15. CASE CloseClient(c)
  <2>1. PICK s \in {"idle", "disconnecting"} : pc' = [pc EXCEPT ![c] = s]
    BY <1>15 DEF CloseClient, Disconnect, Ask, Go
  <2>2. /\ open' => open
        /\ leases' \in Nat /\ pending' \in Nat
        /\ open' => leases' + One(pc[c], Held) >= leases + One(s, Held)
        /\ open' => pending' + One(pc[c], Going) >= pending + One(s, Going)
    BY <1>15, <2>1 DEF CloseClient, At, counts, Typed, Locking, One, Held, Going
  <2> QED BY <2>1, <2>2, CoverMoves
<1>16. CASE CancelWaiting(c)
  <2>1. PICK s \in {"idle", "unmark"} : pc' = [pc EXCEPT ![c] = s]
    BY <1>16 DEF CancelWaiting, Disconnect, Ask, Go
  <2>2. pc[c] = "get" => s = "unmark"
    BY <1>16, <2>1 DEF CancelWaiting, Ask, Go, Typed, Section
  <2>3. pc[c] # "get" => s = "idle"
    BY <1>16, <2>1 DEF CancelWaiting, Ask, Go, Typed, Section
  <2>4. /\ open' => open
        /\ leases' \in Nat /\ pending' \in Nat
        /\ open' => leases' + One(pc[c], Held) >= leases + One(s, Held)
        /\ open' => pending' + One(pc[c], Going) >= pending + One(s, Going)
    BY <1>16, <2>1, <2>2, <2>3 DEF CancelWaiting, At, counts, Typed, Locking, One,
         Held, Going, Section, Awaits
  <2> QED BY <2>1, <2>4, CoverMoves
<1>17. CASE CancelConnecting(c)
  <2>1. pc' = [pc EXCEPT ![c] = "unmark"]
    BY <1>17 DEF CancelConnecting, Ask, Go
  <2>2. /\ open' => open
        /\ leases' \in Nat /\ pending' \in Nat
        /\ open' => leases' + One(pc[c], Held) >= leases + One("unmark", Held)
        /\ open' => pending' + One(pc[c], Going) >= pending + One("unmark", Going)
    BY <1>17, <2>1 DEF CancelConnecting, At, counts, Typed, Locking, One, Held, Going
  <2> QED BY <2>1, <2>2, CoverMoves
<1>18. CASE CancelDisconnecting(c)
  <2>1. pc' = [pc EXCEPT ![c] = "idle"]
    BY <1>18 DEF CancelDisconnecting, Ask, Go
  <2>2. /\ open' => open
        /\ leases' \in Nat /\ pending' \in Nat
        /\ open' => leases' + One(pc[c], Held) >= leases + One("idle", Held)
        /\ open' => pending' + One(pc[c], Going) >= pending + One("idle", Going)
    BY <1>18, <2>1 DEF CancelDisconnecting, At, counts, Typed, Locking, One, Held, Going
  <2> QED BY <2>1, <2>2, CoverMoves
<1> QED BY <1>1, <1>2, <1>3, <1>4, <1>5, <1>6, <1>7, <1>8, <1>9, <1>10, <1>11,
     <1>12, <1>13, <1>14, <1>15, <1>16, <1>17, <1>18 DEF Step, AcquireStep, ReleaseStep,
     Cancel

\* As long as the pool is open, a caller that holds a lease is counted, and
\* the lease of a second caller is counted besides.
LEMMA Counted ==
  ASSUME Typed, CountsCover, open, NEW c \in Callers, pc[c] = "using"
  PROVE  /\ leases > 0
         /\ \A d \in Callers : (pc[d] = "release") => leases > 1
<1>1. IsFiniteSet(Callers) /\ Holders \in SUBSET Callers /\ c \in Holders
  BY PoolAssumption DEF Holders
<1>2. IsFiniteSet(Holders) /\ Cardinality(Holders) \in Nat
  BY <1>1, FS_Subset, FS_CardinalityType
<1>3. /\ IsFiniteSet(Holders \ {c})
      /\ Cardinality(Holders \ {c}) = Cardinality(Holders) - 1
      /\ Cardinality(Holders \ {c}) \in Nat
  BY <1>1, <1>2, FS_RemoveElement, FS_CardinalityType
<1>4. ASSUME NEW d \in Callers, pc[d] = "release"
      PROVE  Cardinality(Holders) > 1
  <2>1. d \in Holders \ {c}
    BY <1>4 DEF Holders
  <2>2. Cardinality(Holders \ {c}) # 0
    BY <2>1, <1>3, FS_EmptySet
  <2> QED BY <2>2, <1>2, <1>3
<1> QED BY <1>2, <1>3, <1>4 DEF CountsCover, Typed

\* A disconnection starts only when no lease is counted.
LEMMA DrainedStep ==
  ASSUME Typed, Locking, CountsCover, Drained, NEW c \in Callers, Step(c)
  PROVE  Drained'
<1> USE DEF At, Ask, Go, Keep, Mark, Disconnect, counts, Typed, Locking, Frames,
            Section, Awaits, Links, Label, Drained
<1>1. CASE Acquire(c)
  BY <1>1, PoolAssumption, Counted DEF Acquire
<1>2. CASE MarkPending(c)
  BY <1>2, PoolAssumption, Counted DEF MarkPending
<1>3. CASE GetPooled(c)
  BY <1>3, PoolAssumption, Counted DEF GetPooled
<1>4. CASE GetConnects(c)
  BY <1>4, PoolAssumption, Counted DEF GetConnects
<1>5. CASE Connected(c)
  BY <1>5, PoolAssumption, Counted DEF Connected
<1>6. CASE ConnectFailed(c)
  BY <1>6, PoolAssumption, Counted DEF ConnectFailed
<1>7. CASE Unmark(c)
  BY <1>7, PoolAssumption, Counted DEF Unmark
<1>8. CASE TakeLease(c)
  BY <1>8, PoolAssumption, Counted DEF TakeLease
<1>9. CASE Release(c)
  BY <1>9, PoolAssumption, Counted DEF Release
<1>10. CASE ReleaseLease(c)
  BY <1>10, PoolAssumption, Counted DEF ReleaseLease
<1>11. CASE Disconnected(c)
  BY <1>11, PoolAssumption, Counted DEF Disconnected
<1>12. CASE Drop(c)
  BY <1>12, PoolAssumption, Counted DEF Drop
<1>13. CASE DropClient(c)
  BY <1>13, PoolAssumption, Counted DEF DropClient
<1>14. CASE Close(c)
  BY <1>14, PoolAssumption, Counted DEF Close
<1>15. CASE CloseClient(c)
  BY <1>15, PoolAssumption, Counted DEF CloseClient
<1>16. CASE CancelWaiting(c)
  BY <1>16, PoolAssumption, Counted DEF CancelWaiting
<1>17. CASE CancelConnecting(c)
  BY <1>17, PoolAssumption, Counted DEF CancelConnecting
<1>18. CASE CancelDisconnecting(c)
  BY <1>18, PoolAssumption, Counted DEF CancelDisconnecting
<1> QED BY <1>1, <1>2, <1>3, <1>4, <1>5, <1>6, <1>7, <1>8, <1>9, <1>10, <1>11,
     <1>12, <1>13, <1>14, <1>15, <1>16, <1>17, <1>18 DEF Step, AcquireStep,
     ReleaseStep, Cancel

\* A user's live client stays where it is.
LEMMA LeasedStep ==
  ASSUME IInv, NEW c \in Callers, Step(c),
         NEW d \in Callers, open', pc[d] = "using", link[mine[d]] = "connected"
  PROVE  pool' = mine[d] /\ link'[mine[d]] = "connected"
<1> USE DEF IInv
<1>0. owner = None /\ pool = mine[d] /\ mine[d] \in Clients /\ open
  <2>1. mine[d] \in Clients
    BY DEF Typed, Frames
  <2>2. open
    BY DEF Step, AcquireStep, ReleaseStep, Cancel, Acquire, MarkPending, GetPooled,
         GetConnects, Connected, ConnectFailed, Unmark, TakeLease, Release,
         ReleaseLease, Disconnected, Drop, DropClient, Close, CloseClient, CancelWaiting,
         CancelConnecting, CancelDisconnecting
  <2> QED BY <2>1, <2>2, PoolAssumption DEF Typed, Locking, Frames, Sole, Drained,
         Awaits
<1> USE DEF At, Ask, Go, Keep, Mark, Disconnect, counts, Typed, Locking, Frames,
            Section, Awaits, Links, Label
<1>1. CASE Acquire(c)
  BY <1>0, <1>1, PoolAssumption, Counted DEF Acquire
<1>2. CASE MarkPending(c)
  BY <1>0, <1>2, PoolAssumption, Counted DEF MarkPending
<1>3. CASE GetPooled(c)
  BY <1>0, <1>3, PoolAssumption, Counted DEF GetPooled
<1>4. CASE GetConnects(c)
  BY <1>0, <1>4, PoolAssumption, Counted DEF GetConnects
<1>5. CASE Connected(c)
  BY <1>0, <1>5, PoolAssumption, Counted DEF Connected
<1>6. CASE ConnectFailed(c)
  BY <1>0, <1>6, PoolAssumption, Counted DEF ConnectFailed
<1>7. CASE Unmark(c)
  BY <1>0, <1>7, PoolAssumption, Counted DEF Unmark
<1>8. CASE TakeLease(c)
  BY <1>0, <1>8, PoolAssumption, Counted DEF TakeLease
<1>9. CASE Release(c)
  BY <1>0, <1>9, PoolAssumption, Counted DEF Release
<1>10. CASE ReleaseLease(c)
  BY <1>0, <1>10, PoolAssumption, Counted DEF ReleaseLease
<1>11. CASE Disconnected(c)
  BY <1>0, <1>11, PoolAssumption, Counted DEF Disconnected
<1>12. CASE Drop(c)
  BY <1>0, <1>12, PoolAssumption, Counted DEF Drop
<1>13. CASE DropClient(c)
  BY <1>0, <1>13, PoolAssumption, Counted DEF DropClient
<1>14. CASE Close(c)
  BY <1>0, <1>14, PoolAssumption, Counted DEF Close
<1>15. CASE CloseClient(c)
  BY <1>0, <1>15, PoolAssumption, Counted DEF CloseClient
<1>16. CASE CancelWaiting(c)
  BY <1>0, <1>16, PoolAssumption, Counted DEF CancelWaiting
<1>17. CASE CancelConnecting(c)
  BY <1>0, <1>17, PoolAssumption, Counted DEF CancelConnecting
<1>18. CASE CancelDisconnecting(c)
  BY <1>0, <1>18, PoolAssumption, Counted DEF CancelDisconnecting
<1> QED BY <1>1, <1>2, <1>3, <1>4, <1>5, <1>6, <1>7, <1>8, <1>9, <1>10, <1>11,
     <1>12, <1>13, <1>14, <1>15, <1>16, <1>17, <1>18 DEF Step, AcquireStep,
     ReleaseStep, Cancel

-----------------------------------------------------------------------------
(* Theorems *)

\* A fresh pool satisfies the invariant.
LEMMA InitInv == Init => IInv
<1> SUFFICES ASSUME Init PROVE IInv
  OBVIOUS
<1>1. Typed
  BY DEF Init, Typed, Links, Label
<1>2. Locking /\ Frames /\ Sole /\ Drained
  BY PoolAssumption DEF Init, Locking, Frames, Sole, Drained, Awaits
<1>3. Holders = {} /\ Marked = {}
  BY DEF Init, Holders, Marked
<1>4. CountsCover
  BY <1>3, FS_EmptySet DEF Init, CountsCover
<1> QED BY <1>1, <1>2, <1>4 DEF IInv

\* IInv is inductive.
LEMMA NextInv == IInv /\ [Next]_vars => IInv'
<1> SUFFICES ASSUME IInv, [Next]_vars PROVE IInv'
  OBVIOUS
<1>1. CASE Next
  <2>1. PICK c \in Callers : Step(c)
    BY <1>1 DEF Next, Step
  <2> QED BY <2>1, TypedStep, LockingStep, FramesStep, SoleStep, DrainedStep, CountsStep
          DEF IInv
<1>2. CASE UNCHANGED vars
  BY <1>2 DEF vars, counts, IInv, Typed, Locking, Frames, Sole, Drained, CountsCover,
              Holders, Marked
<1> QED BY <1>1, <1>2

\* The inductive invariant holds in every state the pool can reach.
THEOREM PoolInvariant == Spec => []IInv
<1> QED BY InitInv, NextInv, PTL DEF Spec

-----------------------------------------------------------------------------
(* The lock's queue *)

\* Callers other than c that ask for the lock, each once.
Waiting(q, c) ==
  /\ q \in Seq(Callers)
  /\ \A i, j \in 1 .. Len(q) : q[i] = q[j] => i = j
  /\ \A i \in 1 .. Len(q) : pc[q[i]] \in Section /\ q[i] # c

\* The caller that is running is none of the waiters.
Lined == pc \in [Callers -> Label] /\ Waiting(queue, turn)

\* A caller that runs a section has left the queue, or is its head.
LEMMA LeftWaits ==
  ASSUME Lined, NEW c \in Callers, NEW s, At(c, s)
  PROVE  Waiting(Left(c), c)
<1>1. CASE turn = c
  BY <1>1 DEF Lined, Left
<1>2. CASE turn # c
  <2>1. /\ queue \in Seq(Callers) /\ queue # <<>> /\ queue[1] = c /\ Left(c) = Tail(queue)
        /\ \A i, j \in 1 .. Len(queue) : queue[i] = queue[j] => i = j
        /\ \A i \in 1 .. Len(queue) : pc[queue[i]] \in Section
    BY <1>2 DEF At, Left, Lined, Waiting
  <2>2. /\ Left(c) \in Seq(Callers) /\ Len(Left(c)) = Len(queue) - 1 /\ Len(queue) \in Nat \ {0}
        /\ \A i \in 1 .. Len(Left(c)) : i + 1 \in 1 .. Len(queue) /\ Left(c)[i] = queue[i + 1]
    BY <2>1
  <2> HIDE DEF Left
  <2>3. \A i \in 1 .. Len(Left(c)) : pc[Left(c)[i]] \in Section /\ Left(c)[i] # c
    BY <2>1, <2>2
  <2>4. ASSUME NEW i \in 1 .. Len(Left(c)), NEW j \in 1 .. Len(Left(c)), Left(c)[i] = Left(c)[j]
        PROVE  i = j
    <3>1. i + 1 = j + 1
      BY <2>1, <2>2, <2>4
    <3> QED BY <3>1
  <2> QED BY <2>2, <2>3, <2>4 DEF Waiting
<1> QED BY <1>1, <1>2

\* A cancelled waiter leaves its place.
LEMMA WithoutWaits ==
  ASSUME Lined, NEW i \in DOMAIN queue, NEW c, queue[i] = c
  PROVE  Waiting(Without(i), c)
<1>1. /\ queue \in Seq(Callers) /\ Len(queue) \in Nat /\ i \in 1 .. Len(queue)
      /\ \A k, j \in 1 .. Len(queue) : queue[k] = queue[j] => k = j
      /\ \A k \in 1 .. Len(queue) : pc[queue[k]] \in Section
  BY DEF Lined, Waiting
<1>2. /\ Without(i) \in Seq(Callers) /\ Len(Without(i)) = Len(queue) - 1
      /\ \A k \in 1 .. Len(Without(i)) : Without(i)[k] = IF k < i THEN queue[k] ELSE queue[k + 1]
  <2> DEFINE a == SubSeq(queue, 1, i - 1)
             b == SubSeq(queue, i + 1, Len(queue))
  <2>1. /\ a \in Seq(Callers) /\ Len(a) = i - 1 /\ \A k \in 1 .. (i - 1) : a[k] = queue[k]
    BY <1>1
  <2>2. /\ b \in Seq(Callers) /\ Len(b) = Len(queue) - i
        /\ \A k \in 1 .. (Len(queue) - i) : b[k] = queue[k + i]
    BY <1>1
  <2>3. Without(i) = a \o b
    BY DEF Without
  <2> HIDE DEF a, b
  <2>4. /\ a \o b \in Seq(Callers) /\ Len(a \o b) = Len(a) + Len(b)
        /\ \A k \in 1 .. Len(a) + Len(b) : (a \o b)[k] = IF k <= Len(a) THEN a[k] ELSE b[k - Len(a)]
    BY <2>1, <2>2, ConcatProperties
  <2>5. ASSUME NEW k \in 1 .. (Len(queue) - 1)
        PROVE  (a \o b)[k] = IF k < i THEN queue[k] ELSE queue[k + 1]
    <3>1. CASE k < i
      BY <1>1, <2>1, <2>4, <3>1
    <3>2. CASE k >= i
      <4> DEFINE m == k - (i - 1)
      <4>1. /\ m \in 1 .. (Len(queue) - i) /\ m + i = k + 1
            /\ k \in 1 .. Len(a) + Len(b) /\ ~ k <= Len(a) /\ k - Len(a) = m
        BY <1>1, <2>1, <2>2, <2>5, <3>2
      <4>2. (a \o b)[k] = b[m]
        BY <2>4, <4>1
      <4> HIDE DEF m
      <4>3. b[m] = queue[m + i]
        BY <2>2, <4>1
      <4>4. (a \o b)[k] = queue[k + 1] /\ ~ k < i
        BY <1>1, <2>5, <3>2, <4>1, <4>2, <4>3
      <4> QED BY <4>4
    <3>3. k < i \/ k >= i
      BY <1>1, <2>5
    <3> QED BY <3>1, <3>2, <3>3
  <2>6. Len(a \o b) = Len(queue) - 1
    BY <1>1, <2>1, <2>2, <2>4
  <2> QED BY <2>3, <2>4, <2>5, <2>6
<1> DEFINE w == Without(i)
           At0(k) == IF k < i THEN k ELSE k + 1
<1>3. \A k \in 1 .. Len(w) : At0(k) \in 1 .. Len(queue) /\ At0(k) # i /\ w[k] = queue[At0(k)]
  BY <1>1, <1>2
<1>4. \A k, j \in 1 .. Len(w) : At0(k) = At0(j) => k = j
  BY <1>1, <1>2
<1> HIDE DEF w, At0
<1>5. \A k, j \in 1 .. Len(w) : w[k] = w[j] => k = j
  BY <1>1, <1>3, <1>4
<1>6. \A k \in 1 .. Len(w) : pc[w[k]] \in Section /\ w[k] # queue[i]
  BY <1>1, <1>3
<1> QED BY <1>2, <1>5, <1>6 DEF Waiting, w

\* A caller outside the queue that waits at its end, gets the lock, or goes on without it.
LEMMA LinedMove ==
  ASSUME pc \in [Callers -> Label], NEW c \in Callers, NEW s, NEW q, Waiting(q, c),
         (Ask(c, s, q) /\ s \in Section) \/ (Go(c, s, q) /\ s \in Label)
  PROVE  Lined'
<1>0. None \notin Callers /\ Section \subseteq Label
  BY PoolAssumption DEF Label
<1>1. /\ q \in Seq(Callers) /\ \A i, j \in 1 .. Len(q) : q[i] = q[j] => i = j
      /\ \A i \in 1 .. Len(q) : pc[q[i]] \in Section /\ q[i] # c /\ q[i] \in Callers
  BY DEF Waiting
<1>2. /\ pc' = [pc EXCEPT ![c] = s] /\ s \in Label /\ pc' \in [Callers -> Label]
      /\ \A d \in Callers : d # c => pc'[d] = pc[d]
  BY <1>0 DEF Ask, Go
<1>3. \A i \in 1 .. Len(q) : pc'[q[i]] \in Section
  BY <1>1, <1>2
<1>4. CASE queue' = q /\ turn' \in {c, None}
  BY <1>0, <1>1, <1>2, <1>3, <1>4 DEF Lined, Waiting
<1>5. CASE queue' = Append(q, c) /\ turn' = None /\ s \in Section
  <2>1. /\ queue' \in Seq(Callers) /\ Len(queue') = Len(q) + 1 /\ Len(q) \in Nat
        /\ queue'[Len(q) + 1] = c /\ \A i \in 1 .. Len(q) : queue'[i] = q[i]
    BY <1>1, <1>5
  <2>2. \A i \in 1 .. Len(queue') : i \in 1 .. Len(q) \/ i = Len(q) + 1
    BY <2>1
  <2>3. pc'[c] \in Section /\ turn' \notin Callers
    BY <1>0, <1>2, <1>5
  <2>4. \A i \in 1 .. Len(queue') : pc'[queue'[i]] \in Section /\ queue'[i] # turn'
    BY <1>1, <1>3, <2>1, <2>2, <2>3
  <2>5. \A i, j \in 1 .. Len(queue') : queue'[i] = queue'[j] => i = j
    BY <1>1, <2>1, <2>2
  <2> QED BY <1>2, <2>1, <2>4, <2>5 DEF Lined, Waiting
<1> QED BY <1>2, <1>4, <1>5 DEF Ask, Go

\* Who runs a section leaves the head of the queue or was not in it, who asks anew was not
\* in it either, and only a cancelled waiter leaves from the middle.
LEMMA LinedStep ==
  ASSUME Lined, NEW c \in Callers, Step(c)
  PROVE  Lined'
<1>0. /\ pc \in [Callers -> Label] /\ {"idle", "using", "connecting", "disconnecting"} \subseteq Label
      /\ {"mark", "get", "unmark", "lease", "release", "drop", "close"} \subseteq Section
  BY DEF Lined, Label, Awaits, Section
<1>1. ASSUME NEW s \in Label, NEW t, At(c, t),
             (Ask(c, s, Left(c)) /\ s \in Section) \/ Go(c, s, Left(c))
      PROVE  Lined'
  BY <1>0, <1>1, LeftWaits, LinedMove
<1>2. ASSUME NEW s \in Label, pc[c] \notin Section,
             (Ask(c, s, queue) /\ s \in Section) \/ Go(c, s, queue)
      PROVE  Lined'
  <2>1. Waiting(queue, c)
    BY <1>2 DEF Lined, Waiting
  <2> QED BY <1>0, <1>2, <2>1, LinedMove
<1>3. ASSUME NEW t, At(c, t), NEW l, Disconnect(c, l) PROVE Lined'
  BY <1>0, <1>1, <1>3 DEF Disconnect
<1>4. {"idle", "using", "connecting", "disconnecting"} \cap Section = {}
  BY DEF Section
<1>5. CASE AcquireStep(c)
  BY <1>0, <1>1, <1>2, <1>4, <1>5
     DEF AcquireStep, Acquire, MarkPending, GetPooled, GetConnects, Connected,
         ConnectFailed, Unmark, TakeLease, Label
<1>6. CASE ReleaseStep(c)
  BY <1>0, <1>2, <1>3, <1>4, <1>6
     DEF ReleaseStep, Release, ReleaseLease, Disconnected, Drop, DropClient, Close, CloseClient, Label
<1>7. CASE CancelWaiting(c)
  <2>1. PICK i \in DOMAIN queue :
          queue[i] = c /\ (Ask(c, "unmark", Without(i)) \/ Go(c, "idle", Without(i)))
    BY <1>7 DEF CancelWaiting
  <2>2. Waiting(Without(i), c)
    BY <2>1, WithoutWaits
  <2>3. "unmark" \in Section /\ "idle" \in Label
    BY <1>0
  <2> HIDE DEF Without
  <2> QED BY <1>0, <2>1, <2>2, <2>3, LinedMove
<1>8. CASE CancelConnecting(c) \/ CancelDisconnecting(c)
  BY <1>0, <1>2, <1>4, <1>8 DEF CancelConnecting, CancelDisconnecting, Label
<1> QED BY <1>5, <1>6, <1>7, <1>8 DEF Step, Cancel

\* Every variable of the pool keeps its type: marks and leases are never
\* negative, whoever is cancelled where, and each waiter of the lock is in its queue once.
THEOREM PoolTypeCorrect == Spec => []TypeOK
<1>1. Init => Lined
  BY DEF Init, Lined, Waiting, Label
<1>2. Lined /\ [Next]_vars => Lined'
  <2> SUFFICES ASSUME Lined, [Next]_vars PROVE Lined'
    OBVIOUS
  <2>1. CASE Next
    BY <2>1, LinedStep DEF Next, Step
  <2>2. CASE UNCHANGED vars
    BY <2>2 DEF vars, Lined, Waiting
  <2> QED BY <2>1, <2>2
<1>3. Spec => []Lined
  BY <1>1, <1>2, PTL DEF Spec
<1>4. IInv /\ Lined => TypeOK
  BY DEF IInv, Typed, Lined, Waiting, TypeOK
<1> QED BY <1>3, <1>4, PoolInvariant, PTL

\* The counters never fall behind the callers that hold or await a lease,
\* for any number of callers and any cancellations.
THEOREM CountersCover == Spec => []CountsCover
<1>1. IInv => CountsCover
  BY DEF IInv
<1> QED BY <1>1, PoolInvariant, PTL

\* Two clients the pool knows of never share the account's session file.
THEOREM SessionIsExclusive == Spec => []OneSession
<1>1. IInv => OneSession
  BY PoolAssumption DEF IInv, OneSession, Sole, Locking, Typed
<1> QED BY <1>1, PoolInvariant, PTL

\* While the pool is open nobody disconnects a connected client that a run
\* or an account operation is using.
THEOREM UsersKeepTheirClient == Spec => LeasedStaysConnected
<1> DEFINE Kept == \A c \in Callers :
       (open' /\ pc[c] = "using" /\ link[mine[c]] = "connected") =>
         pool' = mine[c] /\ link'[mine[c]] = "connected"
<1>1. IInv /\ [Next]_vars => [Kept]_vars
  <2>1. ASSUME IInv, Next PROVE Kept
    <3>1. PICK c \in Callers : Step(c)
      BY <2>1 DEF Next, Step
    <3> QED BY <2>1, <3>1, LeasedStep
  <2> HIDE DEF Kept
  <2> QED BY <2>1
<1> QED BY <1>1, PoolInvariant, PTL DEF Spec, LeasedStaysConnected
=============================================================================
