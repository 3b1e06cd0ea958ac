----------------------- MODULE TelegramUpdatesProofs -----------------------
(***************************************************************************)
(* Theorems about TelegramUpdates, for any number of updates, sessions,    *)
(* requests and refusals and any window of claimed ids: no update is       *)
(* passed over or handled twice, and none from before a session is.        *)
(***************************************************************************)
EXTENDS TelegramUpdates, SequenceTheorems, TLAPS

\* Each transport leaves the other's state alone, a service that is down has
\* forgotten its requests, and only one that serves has a batch in hand.
Sessions ==
  /\ transport = "long_polling" =>
       /\ seen = <<>> /\ evicted = {} /\ lock = NoRequest
       /\ \A r \in Requests : request[r].stage = "idle"
  /\ transport = "webhook" => batch = {} /\ current = 0 /\ offset = 0
  /\ phase = "down" => lock = NoRequest /\ \A r \in Requests : request[r].stage = "idle"
  /\ batch # {} \/ current # 0 => phase = "serving"

\* The lock belongs to the request that is being handled.  A request that may
\* be handled was ready on arrival: its session still lasts, and its update is
\* not one that the session began by discarding.
Accepted(r) ==
  /\ request[r].stage = "handling" <=> lock = r
  /\ request[r].stage \in {"handle", "handling"} => request[r].ready
  /\ request[r].stage # "idle" =>
       /\ request[r].update \in 1 .. last
       /\ request[r].ready =>
            phase \in {"serving", "closing"} /\ request[r].update \notin stale

\* Telegram holds the batch back from the offset on: what is not in it is newer.
Deliveries ==
  /\ held \cup stale \cup discarded \subseteq 1 .. last /\ offset <= last + 1
  /\ held \cap stale = {}
  /\ batch \subseteq held
  /\ \A b \in batch : b >= offset
  /\ \A u \in held, b \in batch : u >= offset => u \in batch \/ u > b
  /\ current # 0 => current \in held /\ offset = current + 1
  /\ \A i, j \in DOMAIN seen : seen[i] = seen[j] => i = j

\* The last attempt at u was not refused; or there was none, or it was refused.
Done(u) == attempts[u] > refused[u]
Open(u) == attempts[u] <= refused[u]

\* What offset, window and Telegram's queue say about the attempts at u.
Account(u) ==
  /\ attempts[u] >= refused[u]
  /\ u > last => attempts[u] = 0
  /\ current = u => Done(u)
  /\ Claimed(u) => Done(u) \/ u \in discarded
  /\ u \in held /\ u < offset => Done(u)
  /\ u \in held /\ phase \in {"menu", "serving"} =>
       IF transport = "long_polling" THEN u >= offset => Open(u)
       ELSE Claimed(u) \/ u \in evicted \/ Open(u)

\* The same for the update of request r.
Asked(r) ==
  LET u == request[r].update
  IN  /\ request[r].stage \in {"body", "handle"} /\ request[r].ready =>
           Claimed(u) \/ u \in evicted \/ Open(u)
      /\ request[r].stage = "handling" =>
           /\ Done(u)
           /\ u \notin held \cup stale \cup discarded => attempts[u] > refused[u] + 1

\* The inductive invariant, in two halves.
Frame  == UpdatesTypeOK /\ Sessions /\ Deliveries /\ \A r \in Requests : Accepted(r)
Ledger == /\ NothingSkipped /\ HandledOnce
          /\ (\A u \in Updates : Account(u)) /\ \A r \in Requests : Asked(r)

-----------------------------------------------------------------------------
(* The window of claimed ids *)

\* A sequence whose head makes room for e, ...
LEMMA Shifted ==
  ASSUME NEW S, NEW s \in Seq(S), s # <<>>, NEW e \in S, NEW n, n = Append(Tail(s), e)
  PROVE  /\ n \in Seq(S) /\ Len(n) = Len(s)
         /\ \A i \in 1 .. Len(s) - 1 : n[i] = s[i + 1]
         /\ n[Len(s)] = e
<1>1. PICK t : t = Tail(s)
  OBVIOUS
<1>2. /\ t \in Seq(S) /\ Len(t) = Len(s) - 1 /\ Len(s) \in Nat
      /\ \A i \in 1 .. Len(s) - 1 : t[i] = s[i + 1]
  BY <1>1, HeadTailProperties, LenProperties
<1>3. /\ n \in Seq(S) /\ Len(n) = Len(t) + 1
      /\ \A i \in 1 .. Len(t) : n[i] = t[i]
      /\ n[Len(t) + 1] = e
  BY <1>1, <1>2, AppendProperties
<1>4. Len(t) + 1 = Len(s)
  BY <1>2
<1>. QED
  BY <1>2, <1>3, <1>4

\* ... and one without its i-th element.
LEMMA Removed ==
  ASSUME NEW S, NEW s \in Seq(S), NEW i \in 1 .. Len(s),
         NEW n, n = SubSeq(s, 1, i - 1) \o SubSeq(s, i + 1, Len(s))
  PROVE  /\ n \in Seq(S) /\ Len(n) = Len(s) - 1
         /\ \A k \in 1 .. Len(s) - 1 : n[k] = IF k < i THEN s[k] ELSE s[k + 1]
<1>0. PICK l \in Nat : l = Len(s) /\ \A k \in 1 .. l : s[k] \in S
  BY LenProperties, ElementOfSeq
<1>1. PICK a : a = SubSeq(s, 1, i - 1)
  OBVIOUS
<1>2. PICK b : b = SubSeq(s, i + 1, l)
  OBVIOUS
<1>3. /\ a \in Seq(S) /\ Len(a) = IF 1 <= i - 1 THEN (i - 1) - 1 + 1 ELSE 0
      /\ \A k \in 1 .. (i - 1) - 1 + 1 : a[k] = s[1 + k - 1]
  BY <1>0, <1>1, SubSeqProperties
<1>4. /\ b \in Seq(S) /\ Len(b) = IF i + 1 <= l THEN l - (i + 1) + 1 ELSE 0
      /\ \A k \in 1 .. l - (i + 1) + 1 : b[k] = s[i + 1 + k - 1]
  BY <1>0, <1>2, SubSeqProperties
<1>5. i \in 1 .. l /\ Len(a) = i - 1 /\ Len(b) = l - i
  BY <1>0, <1>3, <1>4
<1>6. /\ n \in Seq(S) /\ Len(n) = Len(a) + Len(b)
      /\ \A k \in 1 .. Len(a) + Len(b) : n[k] = IF k <= Len(a) THEN a[k] ELSE b[k - Len(a)]
  <2>1. n = a \o b
    BY <1>0, <1>1, <1>2
  <2>. QED
    BY ONLY <2>1, <1>3, <1>4, ConcatProperties
<1>7. Len(a) + Len(b) = l - 1
  BY <1>0, <1>5
<1>8. ASSUME NEW k \in 1 .. l - 1 PROVE n[k] = IF k < i THEN s[k] ELSE s[k + 1]
  <2>1. n[k] = IF k <= i - 1 THEN a[k] ELSE b[k - (i - 1)]
    BY <1>5, <1>6, <1>7, <1>8
  <2>2. CASE k < i
    <3>1. k \in 1 .. (i - 1) - 1 + 1 /\ 1 + k - 1 = k /\ k <= i - 1
      BY <1>0, <1>5, <1>8, <2>2
    <3>. QED
      BY <1>3, <2>1, <2>2, <3>1
  <2>3. CASE ~(k < i)
    <3>1. /\ k - (i - 1) \in 1 .. l - (i + 1) + 1 /\ ~(k <= i - 1)
          /\ i + 1 + (k - (i - 1)) - 1 = k + 1
      BY <1>0, <1>5, <1>8, <2>3
    <3>. QED
      BY <1>4, <2>1, <2>3, <3>1
  <2>. QED
    BY <2>2, <2>3
<1>. QED
  BY <1>0, <1>6, <1>7, <1>8

\* A claim enters the window, which forgets at most its oldest one.
LEMMA ClaimEffect ==
  ASSUME seen \in Seq(Updates), Len(seen) <= Limit, evicted \subseteq Updates,
         \A i, j \in DOMAIN seen : seen[i] = seen[j] => i = j,
         NEW u \in Updates, ~Claimed(u), Claim(u)
  PROVE  /\ seen' \in Seq(Updates) /\ Len(seen') <= Limit /\ evicted' \subseteq Updates
         /\ \A i, j \in DOMAIN seen' : seen'[i] = seen'[j] => i = j
         /\ Claimed(u)' /\ evicted \subseteq evicted'
         /\ \A w \in Updates : Claimed(w)' => w = u \/ Claimed(w)
         /\ \A w \in Updates : Claimed(w) => Claimed(w)' \/ w \in evicted'
<1>0. Limit \in Nat /\ Limit > 0
  BY TelegramUpdatesAssumption
<1>. PICK l \in Nat : l = Len(seen)
  BY LenProperties
<1>1. DOMAIN seen = 1 .. l /\ l <= Limit /\ \A i \in 1 .. l : seen[i] \in Updates
  BY LenProperties, ElementOfSeq
<1>2. CASE l < Limit
  <2>1. seen' = Append(seen, u) /\ evicted' = evicted
    BY <1>2 DEF Claim
  <2>2. /\ seen' \in Seq(Updates) /\ Len(seen') = l + 1
        /\ \A i \in 1 .. l : seen'[i] = seen[i]
        /\ seen'[l + 1] = u
    BY <2>1, AppendProperties
  <2>3. DOMAIN seen' = 1 .. l + 1
    BY <2>2, LenProperties
  <2>4. \A i \in 1 .. l : seen[i] # u
    BY <1>1 DEF Claimed
  <2>5. \A i, j \in DOMAIN seen' : seen'[i] = seen'[j] => i = j
    BY <1>1, <2>2, <2>3, <2>4
  <2>6. Claimed(u)' /\ \A w \in Updates : Claimed(w) => Claimed(w)'
    BY <1>1, <2>2, <2>3 DEF Claimed
  <2>7. \A w \in Updates : Claimed(w)' => w = u \/ Claimed(w)
    BY <1>1, <2>2, <2>3 DEF Claimed
  <2>. QED
    BY <1>0, <1>2, <2>1, <2>2, <2>5, <2>6, <2>7
<1>3. CASE ~(l < Limit)
  <2>1. seen' = Append(Tail(seen), u) /\ evicted' = evicted \cup {Head(seen)}
    BY <1>3 DEF Claim
  <2>2. l = Limit /\ l > 0
    BY <1>0, <1>1, <1>3
  <2>3. seen # <<>>
    <3>1. Len(seen) # 0
      BY <2>2
    <3>2. Len(<<>>) = 0
      BY EmptySeq
    <3>. QED
      BY ONLY <3>1, <3>2, Zenon
  <2>4. Head(seen) = seen[1] /\ Head(seen) \in Updates
    BY <2>3, HeadTailProperties
  <2>5. /\ seen' \in Seq(Updates) /\ Len(seen') = l
        /\ \A i \in 1 .. l - 1 : seen'[i] = seen[i + 1]
        /\ seen'[l] = u
    BY <2>1, <2>3, Shifted
  <2>6. DOMAIN seen' = 1 .. l
    BY <2>5, LenProperties
  <2>7. \A i \in 1 .. l : seen[i] # u
    BY <1>1 DEF Claimed
  <2>8. \A i, j \in DOMAIN seen' : seen'[i] = seen'[j] => i = j
    <3>. SUFFICES ASSUME NEW i \in 1 .. l, NEW j \in 1 .. l, seen'[i] = seen'[j]
                  PROVE  i = j
      BY <2>6
    <3>1. i # l => i \in 1 .. l - 1 /\ i + 1 \in 1 .. l
      OBVIOUS
    <3>2. j # l => j \in 1 .. l - 1 /\ j + 1 \in 1 .. l
      OBVIOUS
    <3>3. i = l <=> j = l
      BY <2>5, <2>7, <3>1, <3>2
    <3>4. CASE i # l
      <4>1. seen[i + 1] = seen[j + 1]
        BY <2>5, <3>1, <3>2, <3>3, <3>4
      <4>2. i + 1 = j + 1
        BY <1>1, <3>1, <3>2, <3>3, <3>4, <4>1
      <4>. QED
        BY <4>2
    <3>. QED
      BY <3>3, <3>4
  <2>9. Claimed(u)'
    BY <2>2, <2>5, <2>6 DEF Claimed
  <2>10. ASSUME NEW w \in Updates, Claimed(w) PROVE Claimed(w)' \/ w \in evicted'
    <3>1. PICK i \in 1 .. l : seen[i] = w
      BY <1>1, <2>10 DEF Claimed
    <3>2. CASE i = 1
      BY <2>1, <2>4, <3>1, <3>2
    <3>3. CASE i # 1
      <4>1. i - 1 \in 1 .. l - 1 /\ i - 1 + 1 = i /\ i - 1 \in 1 .. l
        BY <3>3
      <4>2. seen'[i - 1] = w
        BY <2>5, <3>1, <4>1
      <4>. QED
        BY <2>6, <4>1, <4>2 DEF Claimed
    <3>. QED
      BY <3>2, <3>3
  <2>11. ASSUME NEW w \in Updates, Claimed(w)' PROVE w = u \/ Claimed(w)
    <3>1. PICK i \in 1 .. l : seen'[i] = w
      BY <2>6, <2>11 DEF Claimed
    <3>2. CASE i # l
      <4>1. i \in 1 .. l - 1 /\ i + 1 \in 1 .. l
        BY <3>2
      <4>. QED
        BY <1>1, <2>5, <3>1, <4>1 DEF Claimed
    <3>. QED
      BY <2>5, <3>1, <3>2
  <2>. QED
    BY <1>1, <2>1, <2>4, <2>5, <2>8, <2>9, <2>10, <2>11
<1>. QED
  BY <1>2, <1>3

\* A withdrawn claim leaves the window, the others stay in it.
LEMMA WithdrawEffect ==
  ASSUME seen \in Seq(Updates), Len(seen) <= Limit,
         \A i, j \in DOMAIN seen : seen[i] = seen[j] => i = j,
         NEW u \in Updates, Withdraw(u)
  PROVE  /\ seen' \in Seq(Updates) /\ Len(seen') <= Limit
         /\ \A i, j \in DOMAIN seen' : seen'[i] = seen'[j] => i = j
         /\ \A w \in Updates : Claimed(w)' <=> Claimed(w) /\ w # u
<1>0. Limit \in Nat
  BY TelegramUpdatesAssumption
<1>. PICK l \in Nat : l = Len(seen)
  BY LenProperties
<1>1. DOMAIN seen = 1 .. l /\ l <= Limit
  BY LenProperties
<1>2. CASE ~Claimed(u)
  BY <1>2 DEF Withdraw, Claimed
<1>3. CASE Claimed(u)
  <2>1. PICK i \in 1 .. l :
          /\ seen[i] = u
          /\ seen' = SubSeq(seen, 1, i - 1) \o SubSeq(seen, i + 1, Len(seen))
    BY <1>1, <1>3 DEF Withdraw
  <2>2. /\ seen' \in Seq(Updates) /\ Len(seen') = l - 1
        /\ \A k \in 1 .. l - 1 : seen'[k] = IF k < i THEN seen[k] ELSE seen[k + 1]
    <3>1. i \in 1 .. Len(seen) /\ Len(seen) = l
      OBVIOUS
    <3>2. PICK n : n = seen'
      OBVIOUS
    <3>3. n = SubSeq(seen, 1, i - 1) \o SubSeq(seen, i + 1, Len(seen))
      BY ONLY <2>1, <3>2
    <3>4. /\ n \in Seq(Updates) /\ Len(n) = Len(seen) - 1
          /\ \A k \in 1 .. Len(seen) - 1 : n[k] = IF k < i THEN seen[k] ELSE seen[k + 1]
      BY ONLY <3>1, <3>3, seen \in Seq(Updates), Removed
    <3>. QED
      BY ONLY <3>1, <3>2, <3>4
  <2>3. DOMAIN seen' = 1 .. l - 1
    BY <2>2, LenProperties
  <2>4. ASSUME NEW w \in Updates, Claimed(w), w # u PROVE Claimed(w)'
    <3>1. PICK k \in 1 .. l : seen[k] = w
      BY <1>1, <2>4 DEF Claimed
    <3>2. CASE k < i
      <4>1. k \in 1 .. l - 1
        BY <3>2
      <4>. QED
        BY <2>2, <2>3, <3>1, <3>2, <4>1 DEF Claimed
    <3>3. CASE k > i
      <4>1. k - 1 \in 1 .. l - 1 /\ k - 1 + 1 = k /\ ~(k - 1 < i)
        BY <3>3
      <4>. QED
        BY <2>2, <2>3, <3>1, <4>1 DEF Claimed
    <3>. QED
      BY <2>1, <2>4, <3>1, <3>2, <3>3
  <2>5. \A k \in 1 .. l - 1 :
          IF k < i THEN k \in 1 .. l /\ k # i ELSE k + 1 \in 1 .. l /\ k + 1 # i
    OBVIOUS
  <2>6. ASSUME NEW w \in Updates, Claimed(w)' PROVE Claimed(w) /\ w # u
    <3>1. PICK k \in 1 .. l - 1 : seen'[k] = w
      BY <2>3, <2>6 DEF Claimed
    <3>2. PICK j \in 1 .. l : j # i /\ seen[j] = w
      BY <2>2, <2>5, <3>1
    <3>. QED
      BY <1>1, <2>1, <3>2 DEF Claimed
  <2>7. ASSUME NEW k \in 1 .. l - 1, NEW j \in 1 .. l - 1, seen'[k] = seen'[j]
        PROVE  k = j
    <3>1. PICK p \in 1 .. l : p = (IF k < i THEN k ELSE k + 1) /\ seen'[k] = seen[p]
      BY <2>2, <2>5
    <3>2. PICK q \in 1 .. l : q = (IF j < i THEN j ELSE j + 1) /\ seen'[j] = seen[q]
      BY <2>2, <2>5
    <3>3. p = q
      BY <1>1, <2>7, <3>1, <3>2
    <3>. QED
      BY <3>1, <3>2, <3>3
  <2>. QED
    BY <1>0, <1>1, <2>2, <2>3, <2>4, <2>6, <2>7
<1>. QED
  BY <1>2, <1>3

-----------------------------------------------------------------------------
(* The frame *)

\* What an answered or a withdrawn request changes is well typed.
LEMMA ClaimTyped ==
  ASSUME Frame, NEW r \in Requests, request[r].stage # "idle",
         ~Claimed(request[r].update), Claim(request[r].update)
  PROVE  /\ seen' \in Seq(Updates) /\ Len(seen') <= Limit /\ evicted' \subseteq Updates
         /\ \A i, j \in DOMAIN seen' : seen'[i] = seen'[j] => i = j
<1>1. request[r].update \in Updates
  BY TelegramUpdatesAssumption DEF Frame, Accepted, UpdatesTypeOK, Updates
<1>. QED
  BY <1>1, ClaimEffect DEF Frame, UpdatesTypeOK, Deliveries

LEMMA TypedStep == ASSUME Frame, [Next]_vars PROVE UpdatesTypeOK'
<1>. USE TelegramUpdatesAssumption
<1>0. /\ UpdatesTypeOK
      /\ \A r \in Requests : request[r].stage # "idle" => request[r].update \in Updates
  <2>1. UpdatesTypeOK /\ last \in 0 .. MaxUpdate
    BY DEF Frame, UpdatesTypeOK
  <2>2. 1 .. last \subseteq Updates
    BY <2>1 DEF Updates
  <2>. QED
    BY <2>1, <2>2 DEF Frame, Accepted
<1>a. \A u \in Updates : u \in 0 .. MaxUpdate /\ u + 1 \in 0 .. MaxUpdate + 1
  BY DEF Updates
<1>b. \A u \in 0 .. MaxUpdate : u # 0 => u \in Updates /\ u \in 0 .. MaxUpdate + 1
  BY DEF Updates
<1>1. CASE Send
  <2>1. last + 1 \in Updates /\ last + 1 \in 0 .. MaxUpdate
    BY <1>0, <1>1 DEF UpdatesTypeOK, Send, Updates
  <2>. QED
    BY <1>0, <1>1, <2>1 DEF UpdatesTypeOK, Send, session, polling, webhook, counts
<1>2. CASE Start
  <2>1. /\ <<>> \in Seq(Updates) /\ Len(<<>>) = 0
    BY EmptySeq
  <2>. QED
    BY <1>0, <1>2, <2>1 DEF UpdatesTypeOK, Start, server, counts
<1>3. CASE DropPending
  BY <1>0, <1>3 DEF UpdatesTypeOK, DropPending, polling, webhook, counts
<1>4. CASE RefreshMenu
  BY <1>0, <1>4 DEF UpdatesTypeOK, RefreshMenu, polling, webhook, server, counts
<1>5. CASE Close
  BY <1>0, <1>5 DEF UpdatesTypeOK, Close, webhook, server, counts
<1>6. CASE Exit
  BY <1>0, <1>6 DEF UpdatesTypeOK, Exit, server, counts, Idle
<1>7. CASE Fetch
  BY <1>0, <1>7 DEF UpdatesTypeOK, Fetch, session, webhook, counts
<1>8. CASE Take
  <2>1. PICK u \in Updates :
          /\ current' = u /\ batch' = batch \ {u} /\ offset' = u + 1
          /\ attempts' = [attempts EXCEPT ![u] = @ + 1]
    BY <1>0, <1>8 DEF UpdatesTypeOK, Take
  <2>2. attempts' \in [Updates -> Nat] /\ u \in 0 .. MaxUpdate /\ u + 1 \in 0 .. MaxUpdate + 1
    BY <1>0, <1>a, <2>1 DEF UpdatesTypeOK
  <2>. QED
    BY <1>0, <1>8, <2>1, <2>2 DEF UpdatesTypeOK, Take, session, webhook, server
<1>9. CASE Handled
  BY <1>0, <1>9 DEF UpdatesTypeOK, Handled, session, webhook, server, counts
<1>10. CASE Refused
  <2>1. current \in Updates /\ current \in 0 .. MaxUpdate + 1
    BY <1>0, <1>10, <1>b DEF UpdatesTypeOK, Refused
  <2>2. refused[current] \in 0 .. MaxRefusals /\ refused[current] + 1 \in 0 .. MaxRefusals
    BY <1>0, <1>10, <2>1 DEF UpdatesTypeOK, Refused
  <2>. QED
    BY <1>0, <1>10, <2>1, <2>2 DEF UpdatesTypeOK, Refused, session, webhook, server
<1>11. ASSUME NEW r \in Requests, Arrive(r) PROVE UpdatesTypeOK'
  BY <1>0, <1>11, <1>a DEF UpdatesTypeOK, Arrive, session, polling, server, counts, Accepts
<1>12. ASSUME NEW r \in Requests, Body(r) PROVE UpdatesTypeOK'
  BY <1>0, <1>12 DEF UpdatesTypeOK, Body, session, polling, server, counts
<1>13. ASSUME NEW r \in Requests, Discard(r) PROVE UpdatesTypeOK'
  <2>1. request[r].stage # "idle" /\ request[r].update \in Updates
    BY <1>0, <1>13 DEF Discard
  <2>2. seen' \in Seq(Updates) /\ Len(seen') <= Limit /\ evicted' \subseteq Updates
    BY <1>0, <1>13, <2>1, ClaimTyped DEF Discard, UpdatesTypeOK
  <2>. QED
    BY <1>0, <1>13, <2>1, <2>2
      DEF UpdatesTypeOK, Discard, Answer, session, polling, Idle
<1>14. ASSUME NEW r \in Requests, Duplicate(r) PROVE UpdatesTypeOK'
  BY <1>0, <1>14 DEF UpdatesTypeOK, Duplicate, Answer, session, polling, Idle
<1>15. ASSUME NEW r \in Requests, Handle(r) PROVE UpdatesTypeOK'
  <2>1. request[r].stage # "idle" /\ request[r].update \in Updates
    BY <1>0, <1>15 DEF Handle
  <2>2. seen' \in Seq(Updates) /\ Len(seen') <= Limit /\ evicted' \subseteq Updates
    BY <1>15, <2>1, ClaimTyped DEF Handle
  <2>. QED
    <3>1. attempts' \in [Updates -> Nat]
      <4>1. attempts \in [Updates -> Nat] /\ attempts[request[r].update] + 1 \in Nat
        BY <1>0, <2>1 DEF UpdatesTypeOK
      <4>. QED
        BY <1>15, <4>1 DEF Handle
    <3>2. request' \in [Requests -> [stage : {"idle", "body", "discard", "handle", "handling"},
                                    update : 0 .. MaxUpdate, ready : BOOLEAN]]
      BY <1>0, <1>15 DEF UpdatesTypeOK, Handle
    <3>. QED
      BY <1>0, <1>15, <2>2, <3>1, <3>2 DEF UpdatesTypeOK, Handle, session, polling, server
<1>16. ASSUME NEW r \in Requests, Completed(r) PROVE UpdatesTypeOK'
  BY <1>0, <1>16 DEF UpdatesTypeOK, Completed, Answer, session, polling, Idle
<1>17. ASSUME NEW r \in Requests, Unavailable(r) PROVE UpdatesTypeOK'
  <2>1. request[r].stage # "idle" /\ request[r].update \in Updates
    BY <1>0, <1>17 DEF Unavailable
  <2>2. seen' \in Seq(Updates) /\ Len(seen') <= Limit
    BY <1>17, <2>1, WithdrawEffect DEF Unavailable, Frame, UpdatesTypeOK, Deliveries
  <2>. QED
    BY <1>0, <1>17, <2>1, <2>2 DEF UpdatesTypeOK, Unavailable, session, polling, server, Idle
<1>18. CASE UNCHANGED vars
  BY <1>0, <1>18 DEF UpdatesTypeOK, vars
<1>. QED
  BY <1>1, <1>2, <1>3, <1>4, <1>5, <1>6, <1>7, <1>8, <1>9, <1>10, <1>11, <1>12,
     <1>13, <1>14, <1>15, <1>16, <1>17, <1>18 DEF Next, Poll, Serve

\* In the proofs below, request' maps every request but r to what it was.
LEMMA SessionsStep == ASSUME Frame, [Next]_vars PROVE Sessions'
<1>0. /\ Sessions /\ request \in [Requests -> [stage : {"idle", "body", "discard", "handle", "handling"},
                                               update : 0 .. MaxUpdate, ready : BOOLEAN]]
      /\ transport \in {"long_polling", "webhook"}
      /\ \A r \in Requests : request[r].stage = "handling" <=> lock = r
  BY DEF Frame, UpdatesTypeOK, Accepted
<1>1. CASE Send
  BY <1>0, <1>1 DEF Sessions, Send, session, polling, webhook, counts
<1>2. CASE Start
  BY <1>0, <1>2 DEF Sessions, Start, server, counts
<1>3. CASE DropPending
  BY <1>0, <1>3 DEF Sessions, DropPending, polling, webhook, counts
<1>4. CASE RefreshMenu
  BY <1>0, <1>4 DEF Sessions, RefreshMenu, polling, webhook, server, counts
<1>5. CASE Close
  BY <1>0, <1>5 DEF Sessions, Close, webhook, server, counts
<1>6. CASE Exit
  BY <1>0, <1>6 DEF Sessions, Exit, server, counts, Idle
<1>7. CASE Fetch
  BY <1>0, <1>7 DEF Sessions, Fetch, session, webhook, counts
<1>8. CASE Take
  BY <1>0, <1>8 DEF Sessions, Take, session, webhook, server
<1>9. CASE Handled
  BY <1>0, <1>9 DEF Sessions, Handled, session, webhook, server, counts
<1>10. CASE Refused
  BY <1>0, <1>10 DEF Sessions, Refused, session, webhook, server
<1>11. ASSUME NEW r \in Requests, Arrive(r) PROVE Sessions'
  BY <1>0, <1>11 DEF Sessions, Arrive, session, polling, server, counts
<1>12. ASSUME NEW r \in Requests, Body(r) PROVE Sessions'
  BY <1>0, <1>12 DEF Sessions, Body, session, polling, server, counts
<1>13. ASSUME NEW r \in Requests, Discard(r) PROVE Sessions'
  BY <1>0, <1>13 DEF Sessions, Discard, Answer, session, polling, Idle
<1>14. ASSUME NEW r \in Requests, Duplicate(r) PROVE Sessions'
  BY <1>0, <1>14 DEF Sessions, Duplicate, Answer, session, polling, Idle
<1>15. ASSUME NEW r \in Requests, Handle(r) PROVE Sessions'
  BY <1>0, <1>15 DEF Sessions, Handle, session, polling, server
<1>16. ASSUME NEW r \in Requests, Completed(r) PROVE Sessions'
  BY <1>0, <1>16 DEF Sessions, Completed, Answer, session, polling, Idle
<1>17. ASSUME NEW r \in Requests, Unavailable(r) PROVE Sessions'
  BY <1>0, <1>17 DEF Sessions, Unavailable, session, polling, server, Idle
<1>18. CASE UNCHANGED vars
  BY <1>0, <1>18 DEF Sessions, vars
<1>. QED
  BY <1>1, <1>2, <1>3, <1>4, <1>5, <1>6, <1>7, <1>8, <1>9, <1>10, <1>11, <1>12,
     <1>13, <1>14, <1>15, <1>16, <1>17, <1>18 DEF Next, Poll, Serve

\* A request of a session that ends is not ready in the next: it is gone.
LEMMA AcceptedStep ==
  ASSUME Frame, [Next]_vars, NEW q \in Requests
  PROVE  Accepted(q)'
<1>0. /\ request \in [Requests -> [stage : {"idle", "body", "discard", "handle", "handling"},
                                   update : 0 .. MaxUpdate, ready : BOOLEAN]]
      /\ last \in Nat /\ held \subseteq 1 .. last /\ held \cap stale = {}
      /\ \A r \in Requests : Accepted(r)
      /\ phase = "down" => lock = NoRequest /\ \A r \in Requests : request[r].stage = "idle"
      /\ NoRequest \notin Requests
  BY TelegramUpdatesAssumption DEF Frame, UpdatesTypeOK, Sessions, Deliveries
<1>1. CASE Send
  BY <1>0, <1>1 DEF Accepted, Send, session, polling, webhook, counts
<1>2. CASE Start
  BY <1>0, <1>2 DEF Accepted, Start, server, counts
<1>3. CASE DropPending
  BY <1>0, <1>3 DEF Accepted, DropPending, polling, webhook, counts
<1>4. CASE RefreshMenu
  BY <1>0, <1>4 DEF Accepted, RefreshMenu, polling, webhook, server, counts
<1>5. CASE Close
  BY <1>0, <1>5 DEF Accepted, Close, webhook, server, counts
<1>6. CASE Exit
  BY <1>0, <1>6 DEF Accepted, Exit, server, counts, Idle
<1>7. CASE Fetch
  BY <1>0, <1>7 DEF Accepted, Fetch, session, webhook, counts
<1>8. CASE Take
  BY <1>0, <1>8 DEF Accepted, Take, session, webhook, server
<1>9. CASE Handled
  BY <1>0, <1>9 DEF Accepted, Handled, session, webhook, server, counts
<1>10. CASE Refused
  BY <1>0, <1>10 DEF Accepted, Refused, session, webhook, server
<1>11. ASSUME NEW r \in Requests, Arrive(r) PROVE Accepted(q)'
  <2>1. PICK u \in held :
          request' = [request EXCEPT ![r] = [stage |-> "body", update |-> u, ready |-> Accepts]]
    BY <1>11 DEF Arrive
  <2>2. /\ request[r].stage = "idle" /\ u \in 1 .. last /\ u \notin stale
        /\ UNCHANGED <<phase, lock, last, stale>>
    BY <1>0, <1>11 DEF Arrive, session, server
  <2>3. Accepts => phase = "serving"
    BY DEF Accepts
  <2>4. CASE q = r
    <3>1. request'[q].stage = "body" /\ request'[q].update = u /\ (request'[q].ready <=> Accepts)
      BY <1>0, <2>1, <2>4
    <3>. QED
      BY <1>0, <2>2, <2>3, <2>4, <3>1 DEF Accepted
  <2>5. CASE q # r
    <3>1. request'[q] = request[q]
      BY <1>0, <2>1, <2>5
    <3>. QED
      BY <1>0, <2>2, <3>1 DEF Accepted
  <2>. QED
    BY <2>4, <2>5
<1>12. ASSUME NEW r \in Requests, Body(r) PROVE Accepted(q)'
  BY <1>0, <1>12 DEF Accepted, Body, session, polling, server, counts
<1>13. ASSUME NEW r \in Requests, Discard(r) PROVE Accepted(q)'
  BY <1>0, <1>13 DEF Accepted, Discard, Answer, session, polling, Idle
<1>14. ASSUME NEW r \in Requests, Duplicate(r) PROVE Accepted(q)'
  BY <1>0, <1>14 DEF Accepted, Duplicate, Answer, session, polling, Idle
<1>15. ASSUME NEW r \in Requests, Handle(r) PROVE Accepted(q)'
  BY <1>0, <1>15 DEF Accepted, Handle, session, polling, server
<1>16. ASSUME NEW r \in Requests, Completed(r) PROVE Accepted(q)'
  BY <1>0, <1>16 DEF Accepted, Completed, Answer, session, polling, Idle
<1>17. ASSUME NEW r \in Requests, Unavailable(r) PROVE Accepted(q)'
  BY <1>0, <1>17 DEF Accepted, Unavailable, session, polling, server, Idle
<1>18. CASE UNCHANGED vars
  BY <1>0, <1>18 DEF Accepted, vars
<1>. QED
  BY <1>1, <1>2, <1>3, <1>4, <1>5, <1>6, <1>7, <1>8, <1>9, <1>10, <1>11, <1>12,
     <1>13, <1>14, <1>15, <1>16, <1>17, <1>18 DEF Next, Poll, Serve

LEMMA DeliveriesStep == ASSUME Frame, [Next]_vars PROVE Deliveries'
<1>0. /\ Deliveries /\ last \in Nat /\ offset \in Nat /\ current \in Nat
      /\ \A u \in 1 .. last : u \in Nat
      /\ \A r \in Requests : request[r].stage # "idle" => request[r].update \in 1 .. last
      /\ (transport = "webhook" => batch = {} /\ current = 0)
      /\ (batch # {} \/ current # 0 => phase = "serving")
  BY TelegramUpdatesAssumption DEF Frame, UpdatesTypeOK, Sessions, Accepted
<1>1. CASE Send
  BY <1>0, <1>1 DEF Deliveries, Send, session, polling, webhook, counts
<1>2. CASE Start
  <2>1. batch' = {} /\ current' = 0 /\ DOMAIN seen' = {}
    BY <1>0, <1>2 DEF Start
  <2>. QED
    BY <1>0, <1>2, <2>1 DEF Deliveries, Start, server, counts
<1>3. CASE DropPending
  BY <1>0, <1>3 DEF Deliveries, DropPending, polling, webhook, counts
<1>4. CASE RefreshMenu
  BY <1>0, <1>4 DEF Deliveries, RefreshMenu, polling, webhook, server, counts
<1>5. CASE Close
  BY <1>0, <1>5 DEF Deliveries, Close, webhook, server, counts
<1>6. CASE Exit
  BY <1>0, <1>6 DEF Deliveries, Exit, server, counts, Idle
<1>7. CASE Fetch
  BY <1>0, <1>7 DEF Deliveries, Fetch, session, webhook, counts
<1>8. CASE Take
  BY <1>0, <1>8 DEF Deliveries, Take, session, webhook, server
<1>9. CASE Handled
  BY <1>0, <1>9 DEF Deliveries, Handled, session, webhook, server, counts
<1>10. CASE Refused
  BY <1>0, <1>10 DEF Deliveries, Refused, session, webhook, server
<1>11. ASSUME NEW r \in Requests, Arrive(r) PROVE Deliveries'
  BY <1>0, <1>11 DEF Deliveries, Arrive, session, polling, server, counts
<1>12. ASSUME NEW r \in Requests, Body(r) PROVE Deliveries'
  BY <1>0, <1>12 DEF Deliveries, Body, session, polling, server, counts
<1>13. ASSUME NEW r \in Requests, Discard(r) PROVE Deliveries'
  <2>1. request[r].stage # "idle"
    BY <1>13 DEF Discard
  <2>2. \A i, j \in DOMAIN seen' : seen'[i] = seen'[j] => i = j
    BY <1>0, <1>13, <2>1, ClaimTyped DEF Discard, Deliveries
  <2>3. batch' = {} /\ current' = 0
    BY <1>0, <1>13, <2>1 DEF Discard, polling, Frame, Sessions, UpdatesTypeOK
  <2>. QED
    BY <1>0, <1>13, <2>1, <2>2, <2>3 DEF Deliveries, Discard, Answer, polling, session
<1>14. ASSUME NEW r \in Requests, Duplicate(r) PROVE Deliveries'
  <2>1. batch' = {} /\ current' = 0
    BY <1>0, <1>14 DEF Duplicate, polling, Frame, Sessions, UpdatesTypeOK
  <2>. QED
    BY <1>0, <1>14, <2>1 DEF Deliveries, Duplicate, Answer, polling, session
<1>15. ASSUME NEW r \in Requests, Handle(r) PROVE Deliveries'
  <2>1. request[r].stage # "idle"
    BY <1>15 DEF Handle
  <2>2. \A i, j \in DOMAIN seen' : seen'[i] = seen'[j] => i = j
    BY <1>0, <1>15, <2>1, ClaimTyped DEF Handle
  <2>. QED
    BY <1>0, <1>15, <2>1, <2>2 DEF Deliveries, Handle, polling, session, server
<1>16. ASSUME NEW r \in Requests, Completed(r) PROVE Deliveries'
  <2>1. batch' = {} /\ current' = 0
    BY <1>0, <1>16 DEF Completed, polling, Frame, Sessions, UpdatesTypeOK
  <2>. QED
    BY <1>0, <1>16, <2>1 DEF Deliveries, Completed, Answer, polling, session
<1>17. ASSUME NEW r \in Requests, Unavailable(r) PROVE Deliveries'
  <2>1. request[r].stage # "idle" /\ request[r].update \in Updates
    BY <1>17 DEF Unavailable, Frame, Accepted, UpdatesTypeOK, Updates
  <2>2. \A i, j \in DOMAIN seen' : seen'[i] = seen'[j] => i = j
    BY <1>17, <2>1, WithdrawEffect DEF Unavailable, Frame, UpdatesTypeOK, Deliveries
  <2>. QED
    BY <1>0, <1>17, <2>2 DEF Deliveries, Unavailable, polling, session, server
<1>18. CASE UNCHANGED vars
  BY <1>0, <1>18 DEF Deliveries, vars
<1>. QED
  BY <1>1, <1>2, <1>3, <1>4, <1>5, <1>6, <1>7, <1>8, <1>9, <1>10, <1>11, <1>12,
     <1>13, <1>14, <1>15, <1>16, <1>17, <1>18 DEF Next, Poll, Serve

-----------------------------------------------------------------------------
(* The ledger *)

\* What the steps below read of the frame.
LEMMA FrameFacts ==
  ASSUME Frame
  PROVE  /\ transport \in {"long_polling", "webhook"} /\ offset \in Nat /\ current \in Nat
         /\ last \in Nat /\ 1 .. last \subseteq Updates /\ Updates \subseteq Nat
         /\ held \cup stale \cup discarded \subseteq 1 .. last
         /\ attempts \in [Updates -> Nat] /\ refused \in [Updates -> Nat]
         /\ request \in [Requests -> [stage : {"idle", "body", "discard", "handle", "handling"},
                                      update : 0 .. MaxUpdate, ready : BOOLEAN]]
         /\ \A r \in Requests : request[r].stage # "idle" => request[r].update \in 1 .. last
<1>1. /\ last \in 0 .. MaxUpdate /\ offset \in 0 .. MaxUpdate + 1 /\ current \in 0 .. MaxUpdate
      /\ MaxUpdate \in Nat
  BY TelegramUpdatesAssumption DEF Frame, UpdatesTypeOK
<1>2. last \in Nat /\ 1 .. last \subseteq Updates /\ Updates \subseteq Nat
  BY <1>1 DEF Updates
<1>3. refused \in [Updates -> Nat]
  <2>1. refused \in [Updates -> 0 .. MaxRefusals] /\ 0 .. MaxRefusals \subseteq Nat
    BY TelegramUpdatesAssumption DEF Frame, UpdatesTypeOK
  <2>. QED
    BY <2>1
<1>4. held \cup stale \cup discarded \subseteq 1 .. last
  BY DEF Frame, Deliveries
<1>5. \A r \in Requests : request[r].stage # "idle" => request[r].update \in 1 .. last
  BY DEF Frame, Accepted
<1>6. /\ transport \in {"long_polling", "webhook"}
      /\ attempts \in [Updates -> Nat]
      /\ request \in [Requests -> [stage : {"idle", "body", "discard", "handle", "handling"},
                                   update : 0 .. MaxUpdate, ready : BOOLEAN]]
  BY DEF Frame, UpdatesTypeOK
<1>. QED
  BY <1>1, <1>2, <1>3, <1>4, <1>5, <1>6

\* Telegram's own steps, and the service's: what Telegram forgets when a
\* session starts counts as stale, and the offset and the window start anew.
LEMMA SessionLedger ==
  ASSUME Frame, Ledger, Send \/ Start \/ DropPending \/ RefreshMenu \/ Close \/ Exit
  PROVE  Ledger'
<1>0. /\ UNCHANGED <<transport, attempts, refused, evicted, discarded>>
      /\ transport \in {"long_polling", "webhook"} /\ offset \in Nat /\ current \in Nat
      /\ last \in Nat /\ 1 .. last \subseteq Updates /\ Updates \subseteq Nat
      /\ held \cup stale \cup discarded \subseteq 1 .. last
      /\ attempts \in [Updates -> Nat] /\ refused \in [Updates -> Nat]
      /\ \A r \in Requests : request[r].stage # "idle" => request[r].update \in 1 .. last
      /\ NothingSkipped /\ HandledOnce
  BY FrameFacts DEF Ledger, Send, Start, DropPending, RefreshMenu, Close, Exit,
     session, polling, webhook, server, counts
<1>1. NothingSkipped'
  <2>1. (last' = last /\ held \cup stale = held' \cup stale') \/ Send
    BY DEF Start, DropPending, RefreshMenu, Close, Exit, server
  <2>2. CASE Send
    BY <1>0, <2>2 DEF NothingSkipped, Send
  <2>. QED
    BY <1>0, <2>1, <2>2 DEF NothingSkipped
<1>2. HandledOnce'
  BY <1>0 DEF HandledOnce
<1>3. ASSUME NEW u \in Updates PROVE Account(u)'
  <2>0. Account(u) /\ u \in Nat /\ u # 0 /\ attempts[u] \in Nat /\ refused[u] \in Nat
    BY <1>0 DEF Ledger, Updates
  <2>1. CASE Send
    <3>1. /\ UNCHANGED <<offset, current, seen, phase>> /\ last' = last + 1
          /\ held' = held \cup {last + 1}
      BY <2>1 DEF Send, session, polling, webhook
    <3>2. Claimed(u)' <=> Claimed(u)
      BY <3>1 DEF Claimed
    <3>3. CASE u = last + 1
      <4>1. attempts[u] = 0 /\ ~ Done(u) /\ Open(u) /\ u # current /\ ~ Claimed(u)'
        BY <1>0, <2>0, <3>2, <3>3 DEF Account, Done, Open
      <4>2. ~(u < offset) /\ ~(u > last')
        BY <1>0, <3>1, <3>3 DEF Frame, Deliveries
      <4>. QED
        BY <1>0, <2>0, <3>1, <3>3, <4>1, <4>2 DEF Account, Done, Open
    <3>4. CASE u # last + 1
      <4>1. (u \in held' <=> u \in held) /\ (u > last' => u > last)
        BY <1>0, <2>0, <3>1, <3>4
      <4>. QED
        BY <1>0, <2>0, <3>1, <3>2, <4>1 DEF Account, Done, Open
    <3>. QED
      BY <3>3, <3>4
  <2>2. CASE Start
    <3>1. ~ Claimed(u)' /\ offset' = 0 /\ current' = 0 /\ phase' = "cleaning" /\ last' = last
      BY <2>2 DEF Start, Claimed, Frame, Sessions, server
    <3>. QED
      BY <1>0, <2>0, <3>1 DEF Account
  <2>3. CASE DropPending
    BY <1>0, <2>0, <2>3 DEF Account, Claimed, Done, DropPending, polling, webhook
  <2>4. CASE RefreshMenu
    BY <1>0, <2>0, <2>4 DEF Account, Claimed, Done, Open, RefreshMenu, polling, webhook, server
  <2>5. CASE Close \/ Exit
    BY <1>0, <2>0, <2>5 DEF Account, Claimed, Done, Close, Exit, webhook, server
  <2>. QED
    BY <2>1, <2>2, <2>3, <2>4, <2>5
<1>4. ASSUME NEW r \in Requests PROVE Asked(r)'
  <2>0. Asked(r)
    BY DEF Ledger
  <2>1. CASE Start \/ Exit
    <3>1. request'[r].stage = "idle"
      BY <2>1 DEF Start, Exit, Idle, Frame, Sessions
    <3>. QED
      BY <3>1 DEF Asked
  <2>2. CASE Send \/ DropPending \/ RefreshMenu \/ Close
    BY <1>0, <2>0, <2>2 DEF Asked, Claimed, Done, Open, Send, DropPending, RefreshMenu, Close,
       polling, webhook, server
  <2>. QED
    BY <2>1, <2>2
<1>. QED
  BY <1>1, <1>2, <1>3, <1>4 DEF Ledger

\* The polling loop: the offset passes an update only when it is handled, and
\* comes back to it when that was refused.
LEMMA PollLedger ==
  ASSUME Frame, Ledger, Fetch \/ Take \/ Handled \/ Refused
  PROVE  Ledger'
<1>0. /\ transport' = transport /\ last' = last /\ stale' = stale /\ discarded' = discarded
      /\ seen' = seen /\ request' = request /\ evicted' = evicted /\ phase' = phase
      /\ transport = "long_polling" /\ evicted = {} /\ offset \in Nat /\ current \in Nat
      /\ last \in Nat /\ 1 .. last \subseteq Updates /\ Updates \subseteq Nat
      /\ held \cup stale \cup discarded \subseteq 1 .. last
      /\ attempts \in [Updates -> Nat] /\ refused \in [Updates -> Nat]
      /\ NothingSkipped /\ HandledOnce /\ \A w \in Updates : ~ Claimed(w) /\ Account(w)
      /\ (batch # {} \/ current # 0 => phase = "serving")
  <2>1. transport = "long_polling"
    BY DEF Fetch, Take, Handled, Refused, Frame, Sessions, UpdatesTypeOK
  <2>. QED
    BY <2>1, FrameFacts DEF Ledger, Fetch, Take, Handled, Refused, Frame, Sessions, Claimed,
       session, polling, webhook, server, counts
<1>1. ASSUME NEW r \in Requests PROVE Asked(r)'
  <2>1. request'[r].stage = "idle"
    BY <1>0 DEF Frame, Sessions
  <2>. QED
    BY <2>1 DEF Asked
<1>2. CASE Fetch
  <2>1. NothingSkipped'
    BY <1>0, <1>2 DEF NothingSkipped, Fetch, Account, Done, counts
  <2>2. HandledOnce' /\ \A u \in Updates : Account(u)'
    BY <1>0, <1>2 DEF HandledOnce, Fetch, Account, Claimed, Done, Open, counts
  <2>. QED
    BY <1>1, <2>1, <2>2 DEF Ledger
<1>3. CASE Handled
  <2>1. current' = 0 /\ UNCHANGED <<offset, held, attempts, refused>>
    BY <1>3 DEF Handled, server, counts
  <2>2. NothingSkipped' /\ HandledOnce'
    BY <1>0, <2>1 DEF NothingSkipped, HandledOnce
  <2>3. ASSUME NEW u \in Updates PROVE Account(u)'
    <3>1. Account(u) /\ ~ Claimed(u) /\ ~ Claimed(u)' /\ u # 0
      BY <1>0 DEF Claimed, Updates
    <3>. QED
      BY <1>0, <2>1, <3>1 DEF Account, Done, Open
  <2>. QED
    BY <1>1, <2>2, <2>3 DEF Ledger
<1>4. CASE Take
  <2>1. PICK u \in batch :
          /\ \A w \in batch : u <= w
          /\ current' = u /\ offset' = u + 1
          /\ attempts' = [attempts EXCEPT ![u] = @ + 1]
          /\ refused' = refused /\ held' = held
    BY <1>4 DEF Take, server
  <2>2. u \in held /\ u \in Updates /\ u \in 1 .. last /\ u >= offset /\ phase = "serving"
    BY <1>0, <2>1 DEF Frame, Deliveries
  <2>3. Open(u)
    BY <1>0, <2>2 DEF Account
  <2>4. \A w \in Updates : attempts'[w] = IF w = u THEN attempts[w] + 1 ELSE attempts[w]
    BY <1>0, <2>1, <2>2
  <2>5. \A w \in held : w >= offset => w >= u
    BY <1>0, <2>1, <2>2 DEF Frame, Deliveries
  <2>6. NothingSkipped'
    BY <1>0, <2>1, <2>4 DEF NothingSkipped
  <2>7. HandledOnce'
    BY <1>0, <2>1, <2>3, <2>4 DEF HandledOnce, Open
  <2>8. ASSUME NEW w \in Updates PROVE Account(w)'
    <3>1. /\ ~ Claimed(w)' /\ Account(w) /\ w \in Nat /\ u \in Nat
          /\ attempts[w] \in Nat /\ refused[w] \in Nat
      BY <1>0, <2>2 DEF Claimed
    <3>2. CASE w = u
      BY <1>0, <2>1, <2>2, <2>3, <2>4, <3>1, <3>2 DEF Account, Done, Open
    <3>3. CASE w # u
      BY <1>0, <2>1, <2>2, <2>4, <2>5, <3>1, <3>3 DEF Account, Done, Open
    <3>. QED
      BY <3>2, <3>3
  <2>. QED
    BY <1>1, <2>6, <2>7, <2>8 DEF Ledger
<1>5. CASE Refused
  <2>1. /\ current # 0 /\ offset' = current /\ current' = 0
        /\ refused' = [refused EXCEPT ![current] = @ + 1]
        /\ attempts' = attempts /\ held' = held
    BY <1>5 DEF Refused, server
  <2>2. current \in held /\ current \in Updates /\ offset = current + 1
    BY <1>0, <2>1 DEF Frame, Deliveries
  <2>3. Done(current) /\ attempts[current] <= refused[current] + 1
    BY <1>0, <2>2 DEF Account, HandledOnce
  <2>4. \A w \in Updates : refused'[w] = IF w = current THEN refused[w] + 1 ELSE refused[w]
    BY <1>0, <2>1, <2>2
  <2>5. NothingSkipped'
    BY <1>0, <2>1, <2>2, <2>4 DEF NothingSkipped
  <2>6. HandledOnce'
    BY <1>0, <2>1, <2>4 DEF HandledOnce
  <2>7. ASSUME NEW w \in Updates PROVE Account(w)'
    <3>1. /\ ~ Claimed(w)' /\ Account(w) /\ w \in Nat
          /\ attempts[w] \in Nat /\ refused[w] \in Nat /\ w # 0
      BY <1>0, <2>2 DEF Claimed, Updates
    <3>2. CASE w = current
      BY <1>0, <2>1, <2>2, <2>3, <2>4, <3>1, <3>2 DEF Account, Done, Open
    <3>3. CASE w # current
      BY <1>0, <2>1, <2>2, <2>4, <3>1, <3>3 DEF Account, Done, Open
    <3>. QED
      BY <3>2, <3>3
  <2>. QED
    BY <1>1, <2>5, <2>6, <2>7 DEF Ledger
<1>. QED
  BY <1>2, <1>3, <1>4, <1>5

\* A webhook request arrives, or its body has been read.
LEMMA ArrivalLedger ==
  ASSUME Frame, Ledger, NEW r \in Requests, Arrive(r) \/ Body(r)
  PROVE  Ledger'
<1>0. /\ UNCHANGED <<transport, phase, offset, current, held, last, stale,
                     attempts, refused, evicted, discarded, seen>>
      /\ \A u \in Updates : Claimed(u)' <=> Claimed(u)
      /\ request \in [Requests -> [stage : {"idle", "body", "discard", "handle", "handling"},
                                   update : 0 .. MaxUpdate, ready : BOOLEAN]]
      /\ held \subseteq Updates
  BY FrameFacts DEF Arrive, Body, session, polling, server, counts, Claimed
<1>1. NothingSkipped' /\ HandledOnce' /\ \A u \in Updates : Account(u)'
  BY <1>0 DEF Ledger, NothingSkipped, HandledOnce, Account, Done, Open
<1>2. ASSUME NEW q \in Requests PROVE Asked(q)'
  <2>0. Asked(q)
    BY DEF Ledger
  <2>a. \A u : Claimed(u)' <=> Claimed(u)
    BY <1>0 DEF Claimed
  <2>1. CASE q # r
    <3>1. request'[q] = request[q]
      BY <1>0, <2>1 DEF Arrive, Body
    <3>. QED
      BY <1>0, <2>0, <2>a, <3>1 DEF Asked, Done, Open
  <2>2. CASE q = r /\ Arrive(r)
    <3>1. PICK u \in held :
            request' = [request EXCEPT ![r] = [stage |-> "body", update |-> u, ready |-> Accepts]]
      BY <2>2 DEF Arrive
    <3>2. /\ request'[q].stage = "body" /\ request'[q].update = u
          /\ (request'[q].ready <=> Accepts)
      BY <1>0, <2>2, <3>1
    <3>3. Account(u) /\ u \in Updates
      BY <1>0 DEF Ledger
    <3>4. Accepts => Claimed(u)' \/ u \in evicted' \/ Open(u)'
      BY <1>0, <3>3 DEF Account, Accepts, Open
    <3>. QED
      BY <3>2, <3>4 DEF Asked
  <2>3. CASE q = r /\ Body(r)
    <3>1. /\ request[q].stage = "body" /\ request'[q].stage \in {"handle", "discard"}
          /\ request'[q].update = request[q].update
          /\ request'[q].ready = request[q].ready
      BY <1>0, <2>3 DEF Body
    <3>. QED
      BY <1>0, <2>0, <2>a, <3>1 DEF Asked, Done, Open
  <2>. QED
    BY <2>1, <2>2, <2>3
<1>. QED
  BY <1>1, <1>2 DEF Ledger

\* A request that ends with an acknowledgement, of an update u that was
\* handled, claimed or discarded, leaves the ledger in order.
LEMMA AnswerLedger ==
  ASSUME Frame, Ledger, NEW r \in Requests, request[r].stage # "idle", Answer(r),
         UNCHANGED <<transport, phase, offset, current, last, stale, attempts, refused>>,
         lock \in {NoRequest, r}, discarded \subseteq discarded', evicted \subseteq evicted',
         Done(request[r].update) \/ request[r].update \in discarded',
         \A w \in Updates : Claimed(w)' => Claimed(w) \/ w \in discarded',
         \A w \in Updates : Claimed(w) => Claimed(w)' \/ w \in evicted'
  PROVE  Ledger'
<1>. PICK u : u = request[r].update
  OBVIOUS
<1>0. /\ u \in Updates /\ 1 .. last \subseteq Updates
      /\ request \in [Requests -> [stage : {"idle", "body", "discard", "handle", "handling"},
                                   update : 0 .. MaxUpdate, ready : BOOLEAN]]
      /\ \A q \in Requests : request[q].stage # "idle" => request[q].update \in Updates
      /\ \A q \in Requests : request[q].stage = "handling" => q = r
      /\ request' = [request EXCEPT ![r] = Idle]
      /\ held' \subseteq held /\ held \subseteq held' \cup {u}
  BY TelegramUpdatesAssumption, FrameFacts DEF Answer, Frame, Accepted
<1>1. NothingSkipped'
  BY <1>0 DEF Ledger, NothingSkipped, Done
<1>2. HandledOnce'
  BY DEF Ledger, HandledOnce
<1>3. ASSUME NEW w \in Updates PROVE Account(w)'
  <2>1. Account(w)
    BY DEF Ledger
  <2>. QED
    BY <1>0, <2>1 DEF Account, Done, Open
<1>4. ASSUME NEW q \in Requests PROVE Asked(q)'
  <2>0. Asked(q)
    BY DEF Ledger
  <2>1. CASE q = r
    <3>1. request'[q].stage = "idle"
      BY <1>0, <2>1 DEF Idle
    <3>. QED
      BY <3>1 DEF Asked
  <2>2. CASE q # r
    <3>1. request'[q] = request[q] /\ request[q].stage # "handling"
      BY <1>0, <2>2
    <3>2. request[q].stage # "idle" => request[q].update \in Updates
      BY <1>0
    <3>. QED
      BY <2>0, <3>1, <3>2 DEF Asked, Done, Open
  <2>. QED
    BY <2>1, <2>2
<1>. QED
  BY <1>1, <1>2, <1>3, <1>4 DEF Ledger

\* What ClaimEffect says, where the frame holds.
LEMMA ClaimLedger ==
  ASSUME Frame, NEW u \in Updates, ~Claimed(u), Claim(u)
  PROVE  /\ Claimed(u)' /\ evicted \subseteq evicted'
         /\ \A w \in Updates : Claimed(w)' => w = u \/ Claimed(w)
         /\ \A w \in Updates : Claimed(w) => Claimed(w)' \/ w \in evicted'
BY ClaimEffect DEF Frame, UpdatesTypeOK, Deliveries

\* The three ways a webhook request is acknowledged.
LEMMA AcknowledgeLedger ==
  ASSUME Frame, Ledger, NEW r \in Requests, Discard(r) \/ Duplicate(r) \/ Completed(r)
  PROVE  Ledger'
<1>. PICK u : u = request[r].update
  OBVIOUS
<1>0. /\ request[r].stage # "idle" /\ u \in Updates /\ Answer(r) /\ lock \in {NoRequest, r}
      /\ UNCHANGED <<transport, phase, offset, current, last, stale, attempts, refused>>
      /\ \A w : seen' = seen => (Claimed(w)' <=> Claimed(w))
      /\ Account(u) /\ Asked(r)
  <2>1. request[r].stage # "idle" /\ Answer(r) /\ lock \in {NoRequest, r}
    BY DEF Discard, Duplicate, Completed, Frame, Accepted
  <2>2. u \in Updates
    BY <2>1, FrameFacts
  <2>3. \A w : seen' = seen => (Claimed(w)' <=> Claimed(w))
    BY DEF Claimed
  <2>4. UNCHANGED <<transport, phase, offset, current, last, stale, attempts, refused>>
    BY DEF Discard, Duplicate, Completed, session, polling
  <2>. QED
    BY <2>1, <2>2, <2>3, <2>4 DEF Ledger
<1>1. CASE Discard(r)
  <2>1. CASE Claimed(u)
    <3>1. UNCHANGED <<seen, evicted, discarded>> /\ (Done(u) \/ u \in discarded)
      BY <1>0, <1>1, <2>1 DEF Discard, Account
    <3>. QED
      BY <1>0, <3>1, AnswerLedger
  <2>2. CASE ~ Claimed(u)
    <3>1. Claim(u) /\ discarded' = discarded \cup {u}
      BY <1>1, <2>2 DEF Discard
    <3>. QED
      BY <1>0, <2>2, <3>1, ClaimLedger, AnswerLedger
  <2>. QED
    BY <2>1, <2>2
<1>2. CASE Duplicate(r)
  <2>1. UNCHANGED <<seen, evicted, discarded>> /\ (Done(u) \/ u \in discarded)
    BY <1>0, <1>2 DEF Duplicate, Account
  <2>. QED
    BY <1>0, <2>1, AnswerLedger
<1>3. CASE Completed(r)
  <2>1. UNCHANGED <<seen, evicted, discarded>> /\ Done(u)
    BY <1>0, <1>3 DEF Completed, Asked
  <2>. QED
    BY <1>0, <2>1, AnswerLedger
<1>. QED
  BY <1>1, <1>2, <1>3

\* A request takes the lock to handle an update that nobody has claimed: the
\* update has not been handled, or the window has forgotten that it was.
LEMMA HandleLedger ==
  ASSUME Frame, Ledger, NEW r \in Requests, Handle(r)
  PROVE  Ledger'
<1>. PICK u : u = request[r].update
  OBVIOUS
<1>0. /\ request[r].stage = "handle" /\ request[r].ready /\ lock = NoRequest
      /\ u \in Updates /\ u \in 1 .. last /\ ~ Claimed(u) /\ Claim(u)
      /\ request' = [request EXCEPT ![r].stage = "handling"]
      /\ attempts' = [attempts EXCEPT ![u] = @ + 1]
      /\ UNCHANGED <<transport, phase, offset, current, held, last, stale, refused, discarded>>
  <2>1. request[r].stage = "handle" /\ request[r].ready
    BY DEF Handle, Frame, Accepted
  <2>2. u \in Updates /\ u \in 1 .. last
    BY <2>1, FrameFacts
  <2>. QED
    BY <2>1, <2>2 DEF Handle, session, polling, server
<1>1. /\ Claimed(u)' /\ evicted \subseteq evicted'
      /\ \A w \in Updates : Claimed(w)' => w = u \/ Claimed(w)
      /\ \A w \in Updates : Claimed(w) => Claimed(w)' \/ w \in evicted'
  BY <1>0, ClaimLedger
<1>2. /\ attempts \in [Updates -> Nat] /\ refused \in [Updates -> Nat]
      /\ \A w \in Updates : attempts'[w] = IF w = u THEN attempts[w] + 1 ELSE attempts[w]
      /\ 1 .. last \subseteq Updates
      /\ \A q \in Requests : request[q].stage # "idle" => request[q].update \in Updates
  BY <1>0, FrameFacts
<1>3. Asked(r) /\ Account(u) /\ (u \in evicted \/ Open(u)) /\ attempts[u] >= refused[u]
  BY <1>0 DEF Ledger, Asked, Account
<1>4. NothingSkipped'
  BY <1>0, <1>2 DEF Ledger, NothingSkipped
<1>5. HandledOnce'
  BY <1>0, <1>1, <1>2, <1>3 DEF Ledger, HandledOnce, Open
<1>6. ASSUME NEW w \in Updates PROVE Account(w)'
  <2>1. Account(w) /\ w \in Nat /\ attempts[w] \in Nat /\ refused[w] \in Nat /\ last \in Nat
    BY <1>2, FrameFacts DEF Ledger
  <2>2. CASE w = u
    <3>1. Done(w)' /\ ~(w > last)
      BY <1>0, <1>2, <1>3, <2>1, <2>2 DEF Done
    <3>2. transport \in {"long_polling", "webhook"} /\ transport # "long_polling"
      BY <1>0, FrameFacts DEF Frame, Sessions
    <3>3. attempts'[w] >= refused'[w]
      BY <1>0, <1>2, <1>3, <2>1, <2>2
    <3>. QED
      BY <1>0, <1>1, <2>1, <2>2, <3>1, <3>2, <3>3 DEF Account
  <2>3. CASE w # u
    <3>1. attempts'[w] = attempts[w] /\ refused'[w] = refused[w]
      BY <1>0, <1>2, <2>3
    <3>. QED
      BY <1>0, <1>1, <2>1, <2>3, <3>1 DEF Account, Done, Open
  <2>. QED
    BY <2>2, <2>3
<1>7. ASSUME NEW q \in Requests PROVE Asked(q)'
  <2>0. Asked(q) /\ request \in [Requests -> [stage : {"idle", "body", "discard", "handle", "handling"},
                                              update : 0 .. MaxUpdate, ready : BOOLEAN]]
    BY FrameFacts DEF Ledger
  <2>1. CASE q = r
    <3>1. request'[q].stage = "handling" /\ request'[q].update = u
      BY <1>0, <2>0, <2>1
    <3>2. Done(u)'
      BY <1>0, <1>2, <1>3 DEF Done
    <3>3. u \notin held' \cup stale' \cup discarded' => attempts'[u] > refused'[u] + 1
      BY <1>0, <1>2 DEF Ledger, NothingSkipped
    <3>. QED
      BY <3>1, <3>2, <3>3 DEF Asked
  <2>2. CASE q # r
    <3>1. request'[q] = request[q] /\ request[q].stage # "handling"
      BY <1>0, <2>0, <2>2, TelegramUpdatesAssumption DEF Frame, Accepted
    <3>2. request[q].stage # "idle" => request[q].update \in Updates
      BY <1>2
    <3>3. \A w \in Updates : Open(w) /\ w # u => Open(w)'
      BY <1>0, <1>2 DEF Open
    <3>. QED
      BY <1>1, <2>0, <3>1, <3>2, <3>3 DEF Asked
  <2>. QED
    BY <2>1, <2>2
<1>. QED
  BY <1>4, <1>5, <1>6, <1>7 DEF Ledger

\* A refused request gives its claim back: the update is open again, for
\* the delivery that Telegram makes after the error.
LEMMA UnavailableLedger ==
  ASSUME Frame, Ledger, NEW r \in Requests, Unavailable(r)
  PROVE  Ledger'
<1>. PICK u : u = request[r].update
  OBVIOUS
<1>0. /\ request[r].stage = "handling" /\ lock = r
      /\ u \in Updates /\ u \in 1 .. last /\ Withdraw(u)
      /\ request' = [request EXCEPT ![r] = Idle]
      /\ refused' = [refused EXCEPT ![u] = @ + 1]
      /\ UNCHANGED <<transport, phase, offset, current, held, last, stale, attempts,
                     discarded, evicted>>
      /\ transport = "webhook" /\ current = 0 /\ offset = 0
  <2>1. request[r].stage = "handling" /\ lock = r
    BY DEF Unavailable, Frame, Accepted
  <2>2. u \in Updates /\ u \in 1 .. last
    BY <2>1, FrameFacts
  <2>3. transport = "webhook" /\ current = 0 /\ offset = 0
    BY <2>1, FrameFacts DEF Frame, Sessions
  <2>. QED
    BY <2>1, <2>2, <2>3 DEF Unavailable, session, polling, server
<1>1. \A w \in Updates : Claimed(w)' <=> Claimed(w) /\ w # u
  BY <1>0, WithdrawEffect DEF Frame, UpdatesTypeOK, Deliveries
<1>2. /\ attempts \in [Updates -> Nat] /\ refused \in [Updates -> Nat]
      /\ \A w \in Updates : refused'[w] = IF w = u THEN refused[w] + 1 ELSE refused[w]
      /\ 1 .. last \subseteq Updates
      /\ \A q \in Requests : request[q].stage # "idle" => request[q].update \in Updates
  BY <1>0, FrameFacts
<1>3. /\ Done(u) /\ (u \in evicted \/ attempts[u] <= refused[u] + 1)
      /\ (u \notin held \cup stale \cup discarded => attempts[u] > refused[u] + 1)
  BY <1>0 DEF Ledger, Asked, HandledOnce
<1>4. NothingSkipped'
  BY <1>0, <1>2, <1>3 DEF Ledger, NothingSkipped
<1>5. HandledOnce'
  BY <1>0, <1>2 DEF Ledger, HandledOnce
<1>6. ASSUME NEW w \in Updates PROVE Account(w)'
  <2>1. /\ Account(w) /\ w \in Nat /\ w # 0 /\ last \in Nat
        /\ attempts[w] \in Nat /\ refused[w] \in Nat
    BY <1>2, FrameFacts DEF Ledger, Updates
  <2>2. CASE w = u
    <3>1. attempts'[w] >= refused'[w] /\ (w \in evicted \/ Open(w)') /\ ~(w > last)
      BY <1>0, <1>2, <1>3, <2>1, <2>2 DEF Done, Open
    <3>. QED
      BY <1>0, <1>1, <2>1, <2>2, <3>1 DEF Account
  <2>3. CASE w # u
    <3>1. attempts'[w] = attempts[w] /\ refused'[w] = refused[w]
      BY <1>0, <1>2, <2>3
    <3>. QED
      BY <1>0, <1>1, <2>1, <2>3, <3>1 DEF Account, Done, Open
  <2>. QED
    BY <2>2, <2>3
<1>7. ASSUME NEW q \in Requests PROVE Asked(q)'
  <2>0. Asked(q) /\ request \in [Requests -> [stage : {"idle", "body", "discard", "handle", "handling"},
                                              update : 0 .. MaxUpdate, ready : BOOLEAN]]
    BY FrameFacts DEF Ledger
  <2>1. CASE q = r
    <3>1. request'[q].stage = "idle"
      BY <1>0, <2>0, <2>1 DEF Idle
    <3>. QED
      BY <3>1 DEF Asked
  <2>2. CASE q # r
    <3>1. request'[q] = request[q] /\ request[q].stage # "handling"
      BY <1>0, <2>0, <2>2 DEF Frame, Accepted
    <3>2. request[q].stage # "idle" => request[q].update \in Updates
      BY <1>2
    <3>3. \A w \in Updates : Claimed(w) \/ w \in evicted \/ Open(w) =>
                               Claimed(w)' \/ w \in evicted' \/ Open(w)'
      <4>. SUFFICES ASSUME NEW w \in Updates, Claimed(w) \/ w \in evicted \/ Open(w)
                    PROVE  Claimed(w)' \/ w \in evicted' \/ Open(w)'
        OBVIOUS
      <4>1. CASE w = u
        BY <1>0, <1>2, <1>3, <4>1 DEF Open
      <4>2. CASE w # u
        BY <1>0, <1>1, <1>2, <4>2 DEF Open
      <4>. QED
        BY <4>1, <4>2
    <3>. QED
      BY <2>0, <3>1, <3>2, <3>3 DEF Asked
  <2>. QED
    BY <2>1, <2>2
<1>. QED
  BY <1>4, <1>5, <1>6, <1>7 DEF Ledger

-----------------------------------------------------------------------------
(* The theorems *)

LEMMA FrameInit == Init => Frame
<1>. SUFFICES ASSUME Init PROVE Frame
  OBVIOUS
<1>1. UpdatesTypeOK
  <2>1. <<>> \in Seq(Updates) /\ Len(<<>>) = 0
    BY EmptySeq
  <2>. QED
    BY <2>1, TelegramUpdatesAssumption DEF Init, UpdatesTypeOK, Idle
<1>2. DOMAIN seen = {} /\ \A r \in Requests : request[r].stage = "idle"
  BY DEF Init, Idle
<1>. QED
  BY <1>1, <1>2, TelegramUpdatesAssumption DEF Init, Frame, Sessions, Deliveries, Accepted

LEMMA FrameStep == Frame /\ [Next]_vars => Frame'
BY TypedStep, SessionsStep, AcceptedStep, DeliveriesStep DEF Frame

LEMMA LedgerInit == Init => Ledger
<1>. SUFFICES ASSUME Init PROVE Ledger
  OBVIOUS
<1>1. \A u \in Updates : attempts[u] = 0 /\ refused[u] = 0 /\ ~ Claimed(u) /\ u # 0
  BY TelegramUpdatesAssumption DEF Init, Claimed, Updates
<1>2. \A r \in Requests : request[r].stage = "idle"
  BY DEF Init, Idle
<1>. QED
  BY <1>1, <1>2 DEF Init, Ledger, NothingSkipped, HandledOnce, Account, Asked, Open, Done

LEMMA LedgerStep == Frame /\ Ledger /\ [Next]_vars => Ledger'
<1>. SUFFICES ASSUME Frame, Ledger, [Next]_vars PROVE Ledger'
  OBVIOUS
<1>1. CASE UNCHANGED vars
  BY <1>1 DEF vars, Ledger, NothingSkipped, HandledOnce, Account, Asked, Claimed, Done, Open
<1>. QED
  BY <1>1, SessionLedger, PollLedger, ArrivalLedger, AcknowledgeLedger, HandleLedger,
     UnavailableLedger DEF Next, Poll, Serve

\* However the command queue refuses, answers get lost and the service comes
\* and goes, no update Telegram stopped delivering was passed over, and none
\* is handled again that was not refused, unless the window forgot its id
\* (TelegramManagementBot._poll_loop, handle_webhook_update).
THEOREM UpdatesAreHandledExactly == Spec => []HandledExactly
<1>1. Frame /\ Ledger => HandledExactly
  BY DEF Frame, Ledger, HandledExactly
<1>. QED
  BY <1>1, FrameInit, FrameStep, LedgerInit, LedgerStep, PTL DEF Spec

\* An update from before the session is never handled: the polling loop asks
\* Telegram only for what it still holds, and a request that may handle
\* its update arrived in the session that is serving (deleteWebhook and setWebhook
\* with drop_pending_updates, webhook_ready).
THEOREM StaleUpdatesAreNeverHandled == Spec => StaleNeverHandled
<1>1. Frame /\ [Next]_vars => [\A u \in stale : attempts'[u] = attempts[u]]_vars
  <2>. SUFFICES ASSUME Frame, Next, NEW u \in stale
                PROVE  attempts'[u] = attempts[u]
    OBVIOUS
  <2>0. /\ attempts \in [Updates -> Nat] /\ held \cap stale = {} /\ batch \subseteq held
        /\ \A r \in Requests : request[r].stage = "handle" => request[r].update \notin stale
    BY DEF Frame, UpdatesTypeOK, Deliveries, Accepted
  <2>1. CASE Take
    BY <2>0, <2>1 DEF Take
  <2>2. ASSUME NEW r \in Requests, Handle(r) PROVE attempts'[u] = attempts[u]
    BY <2>0, <2>2 DEF Handle
  <2>3. CASE attempts' = attempts
    BY <2>3
  <2>. QED
    BY <2>1, <2>2, <2>3 DEF Next, Poll, Serve, Send, Start, DropPending, RefreshMenu, Close,
       Exit, Fetch, Handled, Refused, Arrive, Body, Discard, Duplicate, Completed, Unavailable,
       counts
<1>. QED
  BY <1>1, FrameInit, FrameStep, PTL DEF Spec, StaleNeverHandled
=============================================================================
