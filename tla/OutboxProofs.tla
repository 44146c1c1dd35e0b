---------------------------- MODULE OutboxProofs ----------------------------
(***************************************************************************)
(* Proofs about the outgoing messages of the page, for any words, images   *)
(* and number of submissions.                                              *)
(*                                                                         *)
(* The invariant says what an id stands for.  A submission gets its own id *)
(* or, as a retry, that of an unconfirmed message of equal content; so     *)
(* whatever carries one id, in flight, admitted or kept for a retry, has   *)
(* one content (IdInv, ContentInv), at most one echo on the page (EchoInv) *)
(* and its previews have one owner (PreviewInv).                           *)
(***************************************************************************)
EXTENDS Outbox, TLAPS

Content == wire \union rows \union pending

\* A submission whose id may be in use, by it or by a retry of it.
Used(k) == k \in Ordinary /\ sends[k].phase # "serializing"

\* How far a submission is.
PhaseInv ==
  \A s \in DOMAIN sends :
    /\ InFlight(s) => s \in Ordinary
    /\ sends[s].phase = "serializing" => sends[s].id = s /\ sends[s].retired = "no"
    /\ sends[s].phase = "posting" => sends[s].retired # "failed"
    /\ sends[s].retired = "observed" => \E m \in rows : m.id = sends[s].id

\* An id has one content, wherever it is met.
IdInv ==
  /\ \A s \in DOMAIN sends :
       sends[s].id \in DOMAIN sends /\ (sends[s].id = s \/ Used(sends[s].id))
  /\ \A s, t \in DOMAIN sends : sends[s].id = sends[t].id =>
       sends[s].text = sends[t].text /\ sends[s].images = sends[t].images
ContentInv ==
  /\ \A m \in Content : m.id \in DOMAIN sends /\ Used(m.id)
  /\ \A m, n \in Content : m.id = n.id => m = n
  /\ \A s \in DOMAIN sends, m \in Content : m.id = sends[s].id => Keyed(s, m)

\* Who waits is waiting for its own id, and only what is admitted is shown.
WaitInv ==
  /\ \A r \in retirements :
       /\ r.id = sends[r.send].id /\ sends[r.send].retired = "no"
       /\ sends[r.send].phase # "serializing"
  /\ \A k \in shown : \E m \in rows : m.id = k

\* An id has one echo, and none while it is kept for a retry.
EchoInv ==
  /\ \A s \in outgoing : sends[s].retired = "no"
  /\ \A s, t \in outgoing : sends[s].id = sends[t].id => s = t
  /\ \A s \in outgoing, m \in pending : sends[s].id # m.id

\* A preview URL that is not revoked has one owner.
Holds(s, i) == sends[s].retired = "no" /\ i \in ToSet(sends[s].images)
Distinct(q) == \A k, l \in DOMAIN q : q[k] = q[l] => k = l
Owned(i) ==
  /\ i \in used \ revoked
     <=> i \in ToSet(images) \/ i \in deferred \/ \E s \in DOMAIN sends : Holds(s, i)
  /\ \A s, t \in DOMAIN sends : Holds(s, i) /\ Holds(t, i) => s = t
  /\ \A s \in DOMAIN sends : Holds(s, i) => i \notin ToSet(images) /\ i \notin deferred
  /\ ~(i \in ToSet(images) /\ i \in deferred)
  /\ i \in deferred => i = lightbox
  /\ i = lightbox => i \notin revoked
  /\ i \in revoked => i \in used
PreviewInv ==
  /\ Distinct(images) /\ \A s \in DOMAIN sends : Distinct(sends[s].images)
  /\ \A i \in Images : Owned(i)

-----------------------------------------------------------------------------
(* Sequences: a sequence with each element replaced, what a sequence holds  *)
(* once extended, and once an element is taken out of it.                   *)
LEMMA Replaced ==
  ASSUME NEW S, NEW q \in Seq(S), NEW f, f = [i \in DOMAIN q |-> f[i]],
         \A i \in DOMAIN q : f[i] \in S
  PROVE  f \in Seq(S) /\ Len(f) = Len(q) /\ DOMAIN f = DOMAIN q
<1>1. DOMAIN q = 1..Len(q) /\ Len(q) \in Nat
  OBVIOUS
<1>2. f \in [1..Len(q) -> S]
  BY <1>1
<1> QED BY <1>1, <1>2

LEMMA Joined ==
  ASSUME NEW S, NEW p \in Seq(S), NEW q \in Seq(S)
  PROVE  /\ p \o q \in Seq(S) /\ ToSet(p \o q) = ToSet(p) \union ToSet(q)
         /\ Distinct(p) /\ Distinct(q) /\ ToSet(p) \intersect ToSet(q) = {} => Distinct(p \o q)
<1> DEFINE r == p \o q
<1>1. /\ r \in Seq(S) /\ Len(r) = Len(p) + Len(q) /\ Len(p) \in Nat /\ Len(q) \in Nat
      /\ DOMAIN r = 1..(Len(p) + Len(q)) /\ DOMAIN p = 1..Len(p) /\ DOMAIN q = 1..Len(q)
  OBVIOUS
<1>6. \A k \in 1..(Len(p) + Len(q)) : r[k] = IF k =< Len(p) THEN p[k] ELSE q[k - Len(p)]
  OBVIOUS
<1> HIDE DEF r
<1>2. \A k \in DOMAIN r : \/ k \in DOMAIN p /\ r[k] = p[k]
                          \/ k - Len(p) \in DOMAIN q /\ r[k] = q[k - Len(p)]
  BY <1>1, <1>6
<1>3. /\ \A k \in DOMAIN p : k \in DOMAIN r /\ r[k] = p[k]
      /\ \A k \in DOMAIN q : k + Len(p) \in DOMAIN r /\ r[k + Len(p)] = q[k]
  BY <1>1, <1>6
<1>4. ToSet(r) = ToSet(p) \union ToSet(q)
  BY <1>2, <1>3 DEF ToSet
<1>5. ASSUME Distinct(p), Distinct(q), ToSet(p) \intersect ToSet(q) = {} PROVE Distinct(r)
  <2> SUFFICES ASSUME NEW k \in DOMAIN r, NEW l \in DOMAIN r, r[k] = r[l] PROVE k = l
    BY DEF Distinct
  <2>1. \A i \in DOMAIN p, j \in DOMAIN q : p[i] # q[j]
    BY <1>5 DEF ToSet
  <2>2. k \in Nat /\ l \in Nat
    BY <1>1
  <2>3. CASE k \in DOMAIN p /\ r[k] = p[k]
    BY <1>2, <1>5, <2>1, <2>3 DEF Distinct
  <2>4. CASE k - Len(p) \in DOMAIN q /\ r[k] = q[k - Len(p)]
    <3>1. l - Len(p) \in DOMAIN q /\ r[l] = q[l - Len(p)]
      BY <1>2, <2>1, <2>4
    <3>2. k - Len(p) = l - Len(p)
      BY <1>5, <2>4, <3>1 DEF Distinct
    <3> QED BY <1>1, <2>2, <3>2
  <2> QED BY <1>2, <2>3, <2>4
<1> QED BY <1>1, <1>4, <1>5 DEF r

LEMMA Appended ==
  ASSUME NEW S, NEW q \in Seq(S), NEW x \in S
  PROVE  /\ Append(q, x) \in Seq(S) /\ ToSet(Append(q, x)) = ToSet(q) \union {x}
         /\ Distinct(q) /\ x \notin ToSet(q) => Distinct(Append(q, x))
<1>1. /\ <<x>> \in Seq(S) /\ Append(q, x) = q \o <<x>> /\ DOMAIN <<x>> = {1} /\ <<x>>[1] = x
  OBVIOUS
<1> DEFINE y == <<x>>
<1>2. y \in Seq(S) /\ Append(q, x) = q \o y /\ DOMAIN y = {1} /\ y[1] = x
  BY <1>1
<1> HIDE DEF y
<1>3. ToSet(y) = {x}
  BY <1>2 DEF ToSet
<1>4. Distinct(y)
  BY <1>2 DEF Distinct
<1>5. x \notin ToSet(q) => ToSet(q) \intersect ToSet(y) = {}
  BY <1>3
<1>6. ToSet(q \o y) = ToSet(q) \union ToSet(y) /\ q \o y \in Seq(S)
  BY <1>2, Joined
<1>7. Distinct(q) /\ x \notin ToSet(q) => Distinct(q \o y)
  BY <1>2, <1>4, <1>5, Joined
<1> QED BY <1>2, <1>3, <1>6, <1>7

LEMMA Removed ==
  ASSUME NEW S, NEW q \in Seq(S), NEW k \in DOMAIN q, Distinct(q)
  PROVE  /\ RemoveAt(q, k) \in Seq(S) /\ Distinct(RemoveAt(q, k))
         /\ ToSet(RemoveAt(q, k)) = ToSet(q) \ {q[k]}
<1> DEFINE r == RemoveAt(q, k)
<1>1. /\ k \in 1..Len(q) /\ Len(q) \in Nat /\ DOMAIN q = 1..Len(q)
      /\ r \in Seq(S) /\ Len(r) = Len(q) - 1 /\ DOMAIN r = 1..Len(r)
      /\ \A l \in DOMAIN r : r[l] = IF l < k THEN q[l] ELSE q[l + 1]
  <2> DEFINE x == SubSeq(q, 1, k - 1)
             y == SubSeq(q, k + 1, Len(q))
  <2>1. k \in 1..Len(q) /\ Len(q) \in Nat /\ DOMAIN q = 1..Len(q)
    OBVIOUS
  <2>2. x \in Seq(S) /\ Len(x) = k - 1 /\ \A l \in 1..(k - 1) : x[l] = q[l]
    BY <2>1
  <2>3. y \in Seq(S) /\ Len(y) = Len(q) - k /\ \A l \in 1..(Len(q) - k) : y[l] = q[l + k]
    BY <2>1
  <2>4. r = x \o y
    BY DEF RemoveAt
  <2> HIDE DEF x, y, r
  <2>9. x \in Seq(S) /\ y \in Seq(S)
    BY <2>2, <2>3
  <2>5. r \in Seq(S) /\ Len(r) = Len(x) + Len(y) /\ DOMAIN r = 1..Len(r)
    BY <2>4, <2>9
  <2>6. \A l \in 1..Len(r) : r[l] = IF l =< Len(x) THEN x[l] ELSE y[l - Len(x)]
    BY <2>4, <2>9
  <2>7. Len(r) = Len(q) - 1
    BY <2>1, <2>2, <2>3, <2>5
  <2>8. ASSUME NEW l \in 1..Len(r) PROVE r[l] = IF l < k THEN q[l] ELSE q[l + 1]
    <3>1. CASE l < k
      BY <2>1, <2>2, <2>6, <2>8, <3>1
    <3>2. CASE l >= k
      <4>1. PICK j \in 1..(Len(q) - k) : j = l - (k - 1) /\ j + k = l + 1
        BY <2>1, <2>7, <3>2
      <4>2. r[l] = y[j]
        BY <2>1, <2>2, <2>6, <3>2, <4>1
      <4>3. y[j] = q[l + 1]
        BY <2>3, <4>1
      <4> QED BY <2>1, <3>2, <4>2, <4>3
    <3> QED BY <2>1, <2>7, <3>1, <3>2
  <2> QED BY <2>1, <2>5, <2>7, <2>8
<1> HIDE DEF r
<1> DEFINE at(l) == IF l < k THEN l ELSE l + 1
<1>2. \A l \in DOMAIN r : at(l) \in DOMAIN q /\ at(l) # k /\ r[l] = q[at(l)]
  BY <1>1
<1>3. \A l \in DOMAIN q : \/ l < k /\ l \in DOMAIN r /\ r[l] = q[l]
                          \/ l > k /\ l - 1 \in DOMAIN r /\ r[l - 1] = q[l]
                          \/ l = k
  BY <1>1
<1>4. ToSet(r) = ToSet(q) \ {q[k]}
  <2>1. \A l \in DOMAIN r : \E j \in DOMAIN q : j # k /\ r[l] = q[j]
    BY <1>1, <1>2
  <2>2. \A j \in DOMAIN q : j # k => \E l \in DOMAIN r : r[l] = q[j]
    BY <1>3
  <2>3. \A j \in DOMAIN q : j # k => q[j] # q[k]
    BY DEF Distinct
  <2> QED BY <2>1, <2>2, <2>3 DEF ToSet
<1>5. Distinct(r)
  <2> SUFFICES ASSUME NEW i \in DOMAIN r, NEW j \in DOMAIN r, r[i] = r[j] PROVE i = j
    BY DEF Distinct
  <2>1. i \in Nat /\ j \in Nat /\ k \in Nat
    BY <1>1
  <2>2. at(i) = at(j)
    <3> HIDE DEF at
    <3> QED BY <1>2 DEF Distinct
  <2> QED BY <2>1, <2>2
<1> QED BY <1>1, <1>4, <1>5 DEF r
-----------------------------------------------------------------------------
(* What the steps do to the submissions.                                    *)
Same(s) ==
  /\ sends'[s].text = sends[s].text /\ sends'[s].images = sends[s].images
Unmoved(s) == sends'[s].id = sends[s].id /\ sends'[s].phase = sends[s].phase

\* The previews of T are released, but for what the lightbox shows.
Frees(T) ==
  /\ deferred' \subseteq Images /\ revoked' \subseteq Images
  /\ \A i \in Images :
       LET freed == \E t \in T : i \in ToSet(sends[t].images)
       IN  /\ i \in deferred' <=> i \in deferred \/ (freed /\ i = lightbox)
           /\ i \in revoked' <=> i \in revoked \/ (freed /\ i # lightbox)

\* T are told that their messages were observed.
Tells(T) ==
  /\ T \subseteq DOMAIN sends /\ sends' \in Seq(Send) /\ Len(sends') = Len(sends)
  /\ DOMAIN sends' = DOMAIN sends
  /\ \A t \in T : /\ sends[t].retired = "no" /\ sends'[t].id \in shown'
                  /\ sends'[t].phase # "serializing"
  /\ \A t \in DOMAIN sends :
       /\ Same(t)
       /\ sends'[t].retired = IF t \in T THEN "observed" ELSE sends[t].retired
  /\ outgoing' = { t \in outgoing : sends'[t].id \notin shown' }
  /\ Frees(T)
  /\ \A r \in retirements' : r.send \notin T
  /\ UNCHANGED <<composer, lightbox, used>>

(* One submission replaced by another record.                               *)
LEMMA Changed ==
  ASSUME NEW q \in Seq(Send), NEW s \in DOMAIN q, NEW x \in Send, NEW f, f = [q EXCEPT ![s] = x]
  PROVE  /\ f \in Seq(Send) /\ Len(f) = Len(q) /\ DOMAIN f = DOMAIN q
         /\ f[s] = x /\ \A t \in DOMAIN q \ {s} : f[t] = q[t]
<1>1. f[s] = x /\ \A t \in DOMAIN q \ {s} : f[t] = q[t]
  OBVIOUS
<1>2. f = [i \in DOMAIN q |-> f[i]]
  OBVIOUS
<1>3. \A i \in DOMAIN q : q[i] \in Send
  OBVIOUS
<1>4. \A i \in DOMAIN q : f[i] \in Send
  BY <1>1, <1>3
<1> QED BY <1>1, <1>2, <1>4, Replaced

(* observeOutgoing: those told are those who waited for an id now shown.    *)
LEMMA Observed ==
  ASSUME TypeOK, NEW seen, NEW q \in Seq(Send),
         NEW registered \in SUBSET [id : Ids, send : DOMAIN q], NEW kept,
         Observe(seen, q, registered, kept)
  PROVE  LET told == { r.send : r \in { x \in registered : x.id \in seen } }
         IN  /\ sends' \in Seq(Send) /\ Len(sends') = Len(q) /\ DOMAIN sends' = DOMAIN q
             /\ \A s \in DOMAIN q :
                  /\ sends'[s].id = q[s].id /\ sends'[s].phase = q[s].phase
                  /\ sends'[s].text = q[s].text /\ sends'[s].images = q[s].images
                  /\ sends'[s].retired = IF s \in told THEN "observed" ELSE q[s].retired
             /\ outgoing' = { s \in outgoing : q[s].id \notin seen }
             /\ retirements' = { r \in registered : r.id \notin seen }
             /\ pending' \subseteq kept
             /\ deferred' \subseteq Images /\ revoked' \subseteq Images
             /\ \A i \in Images :
                  LET freed == \E s \in told : i \in ToSet(q[s].images)
                  IN  /\ i \in deferred' <=> i \in deferred \/ (freed /\ i = lightbox)
                      /\ i \in revoked' <=> i \in revoked \/ (freed /\ i # lightbox)
<1> DEFINE told == { r.send : r \in { x \in registered : x.id \in seen } }
           next(s) == IF s \in told THEN [q[s] EXCEPT !.retired = "observed"] ELSE q[s]
<1>1. /\ sends' = [s \in DOMAIN q |-> next(s)]
      /\ outgoing' = { s \in outgoing : q[s].id \notin seen }
      /\ retirements' = registered \ { x \in registered : x.id \in seen }
      /\ pending' = { m \in kept : \A s \in told : ~Keyed(s, m) }
      /\ Release(UNION { ToSet(q[s].images) : s \in told })
  BY DEF Observe
<1>7. told \subseteq DOMAIN q
  OBVIOUS
<1> HIDE DEF told
<1>2. ASSUME NEW s \in DOMAIN q
      PROVE  /\ next(s) \in Send /\ next(s).id = q[s].id /\ next(s).phase = q[s].phase
             /\ next(s).text = q[s].text /\ next(s).images = q[s].images
             /\ next(s).retired = IF s \in told THEN "observed" ELSE q[s].retired
  <2>1. q[s] \in Send
    OBVIOUS
  <2> QED BY <2>1 DEF Send
<1> HIDE DEF next
<1>3. \A s \in DOMAIN q : sends'[s] = next(s)
  BY <1>1
<1>4. sends' \in Seq(Send) /\ Len(sends') = Len(q) /\ DOMAIN sends' = DOMAIN q
  <2>1. sends' = [s \in DOMAIN q |-> sends'[s]]
    BY <1>1, <1>3
  <2> QED BY <1>2, <1>3, <2>1, Replaced
<1>5. retirements' = { r \in registered : r.id \notin seen } /\ pending' \subseteq kept
  BY <1>1
<1>6. \A s \in DOMAIN q :
        /\ sends'[s].id = q[s].id /\ sends'[s].phase = q[s].phase
        /\ sends'[s].text = q[s].text /\ sends'[s].images = q[s].images
        /\ sends'[s].retired = IF s \in told THEN "observed" ELSE q[s].retired
  BY <1>2, <1>3
<1>8. /\ deferred' \subseteq Images /\ revoked' \subseteq Images
      /\ \A i \in Images :
           LET freed == \E s \in told : i \in ToSet(q[s].images)
           IN  /\ i \in deferred' <=> i \in deferred \/ (freed /\ i = lightbox)
               /\ i \in revoked' <=> i \in revoked \/ (freed /\ i # lightbox)
  <2> DEFINE R == UNION { ToSet(q[s].images) : s \in told }
  <2>1. \A i : i \in R <=> \E s \in told : i \in ToSet(q[s].images)
    OBVIOUS
  <2>2. R \subseteq Images
    <3>3. \A s \in told : q[s] \in Send
      BY <1>7
    <3>1. \A s \in told : q[s].images \in Seq(Images)
      BY <3>3 DEF Send
    <3>2. \A s \in told : ToSet(q[s].images) \subseteq Images
      BY <3>1 DEF ToSet
    <3> QED BY <2>1, <3>2
  <2>3. /\ deferred' = deferred \union (R \intersect {lightbox})
        /\ revoked' = revoked \union (R \ {lightbox})
    BY <1>1 DEF Release
  <2>4. deferred \subseteq Images /\ revoked \subseteq Images
    BY DEF TypeOK
  <2> HIDE DEF R
  <2> QED BY <2>1, <2>2, <2>3, <2>4
<1> QED BY <1>1, <1>4, <1>5, <1>6, <1>8 DEF told

(* The feed shows a message.                                                *)
LEMMA RefreshEffect ==
  ASSUME TypeOK, WaitInv, NEW m \in rows, Refresh(m)
  PROVE  /\ \E T : Tells(T)
         /\ \A s \in DOMAIN sends : Unmoved(s)
         /\ shown' = shown \union {m.id} /\ retirements' \subseteq retirements
         /\ pending' \subseteq pending /\ UNCHANGED server
<1>0. PICK seen : seen = shown'
  OBVIOUS
<1> DEFINE told == { r.send : r \in { x \in retirements : x.id \in seen } }
<1>1. /\ Observe(seen, sends, retirements, pending)
      /\ shown' = shown \union {m.id} /\ UNCHANGED <<composer, lightbox, used, server>>
  BY <1>0 DEF Refresh, Observe
<1>2. sends \in Seq(Send) /\ retirements \in SUBSET [id : Ids, send : DOMAIN sends]
  BY DEF TypeOK
<1>3. /\ sends' \in Seq(Send) /\ Len(sends') = Len(sends) /\ DOMAIN sends' = DOMAIN sends
      /\ \A s \in DOMAIN sends :
           /\ sends'[s].id = sends[s].id /\ sends'[s].phase = sends[s].phase
           /\ sends'[s].text = sends[s].text /\ sends'[s].images = sends[s].images
           /\ sends'[s].retired = IF s \in told THEN "observed" ELSE sends[s].retired
      /\ outgoing' = { s \in outgoing : sends[s].id \notin seen }
      /\ retirements' = { r \in retirements : r.id \notin seen }
      /\ pending' \subseteq pending
      /\ deferred' \subseteq Images /\ revoked' \subseteq Images
      /\ \A i \in Images :
           LET freed == \E s \in told : i \in ToSet(sends[s].images)
           IN  /\ i \in deferred' <=> i \in deferred \/ (freed /\ i = lightbox)
               /\ i \in revoked' <=> i \in revoked \/ (freed /\ i # lightbox)
  BY <1>1, <1>2, Observed
<1>4. \A r \in retirements : /\ r.send \in DOMAIN sends /\ r.id = sends[r.send].id
                             /\ sends[r.send].retired = "no"
                             /\ sends[r.send].phase # "serializing"
  BY <1>2 DEF WaitInv
<1>5. \A t \in told : /\ t \in DOMAIN sends /\ sends[t].retired = "no" /\ sends[t].id \in seen
                      /\ sends[t].phase # "serializing"
  BY <1>4
<1>6. \A r \in retirements' : r.send \notin told
  <2>1. \A t \in told : sends[t].id \in seen
    BY <1>5
  <2> HIDE DEF told
  <2> QED BY <1>3, <1>4, <2>1
<1>7. outgoing' = { t \in outgoing : sends'[t].id \notin shown' }
  <2>1. outgoing \subseteq DOMAIN sends
    BY DEF TypeOK
  <2> HIDE DEF told
  <2> QED BY <1>0, <1>3, <2>1
<1> HIDE DEF told
<1>8. Tells(told)
  <2>1. Frees(told)
    BY <1>3 DEF Frees
  <2> QED BY <1>0, <1>1, <1>3, <1>5, <1>6, <1>7, <2>1 DEF Tells, Same
<1> QED BY <1>1, <1>3, <1>8 DEF Unmoved

(* A submission is posted: under the id of the pending message it repeats,  *)
(* or under its own.                                                        *)
Posts(s, id) ==
  /\ \E T : Tells(T)
  /\ id = sends[s].id \/ \E m \in pending : Keyed(s, m) /\ m.id = id
  /\ sends'[s].id = id /\ sends'[s].phase = "posting"
  /\ \A t \in DOMAIN sends \ {s} : Unmoved(t)
  /\ \A r \in retirements' : (r \in retirements /\ r.id # id) \/ r = [id |-> id, send |-> s]
  /\ pending' \subseteq WithoutKey(s)
  /\ wire' = wire \union {[id |-> id, text |-> sends[s].text, images |-> sends[s].images]}
  /\ UNCHANGED <<shown, rows>>

LEMMA PostEffect ==
  ASSUME TypeOK, PhaseInv, WaitInv, NEW s \in DOMAIN sends, Serialized(s)
  PROVE  sends[s].phase = "serializing" /\ \E id \in Ids : Posts(s, id)
<1>1. /\ sends \in Seq(Send) /\ retirements \in SUBSET [id : Ids, send : DOMAIN sends]
      /\ sends[s] \in Send /\ sends[s].phase = "serializing" /\ pending \subseteq Message
      /\ outgoing \subseteq DOMAIN sends
  BY DEF TypeOK, Serialized
<1>2. sends[s].id \in Ids /\ sends[s].id = s /\ sends[s].retired = "no"
  BY <1>1 DEF Send, PhaseInv
<1>3. PICK id : /\ id = sends[s].id \/ \E m \in pending : Keyed(s, m) /\ m.id = id
                /\ Observe(shown, [sends EXCEPT ![s].id = id, ![s].phase = "posting"],
                           { r \in retirements : r.id # id } \union {[id |-> id, send |-> s]},
                           WithoutKey(s))
                /\ wire' = wire \union
                     {[id |-> id, text |-> sends[s].text, images |-> sends[s].images]}
                /\ UNCHANGED <<composer, lightbox, used, shown, rows>>
  BY DEF Serialized, Retried
<1>4. id \in Ids
  BY <1>1, <1>2, <1>3 DEF Message
<1> DEFINE x == [sends[s] EXCEPT !.id = id, !.phase = "posting"]
           q == [sends EXCEPT ![s] = x]
           registered == { r \in retirements : r.id # id } \union {[id |-> id, send |-> s]}
           told == { r.send : r \in { y \in registered : y.id \in shown } }
<1>5. /\ x \in Send /\ x.id = id /\ x.phase = "posting" /\ x.retired = "no"
      /\ x.text = sends[s].text /\ x.images = sends[s].images
  BY <1>1, <1>2, <1>4 DEF Send
<1> HIDE DEF x
<1>6. /\ q \in Seq(Send) /\ Len(q) = Len(sends) /\ DOMAIN q = DOMAIN sends
      /\ q[s] = x /\ \A t \in DOMAIN sends \ {s} : q[t] = sends[t]
  BY <1>1, <1>5, Changed
<1>7. Observe(shown, q, registered, WithoutKey(s))
  <2>1. q = [sends EXCEPT ![s].id = id, ![s].phase = "posting"]
    BY <1>1 DEF x
  <2> HIDE DEF q
  <2> QED BY <1>3, <2>1
<1>8. registered \in SUBSET [id : Ids, send : DOMAIN q]
  BY <1>1, <1>4, <1>6
<1> HIDE DEF q
<1>9. /\ sends' \in Seq(Send) /\ Len(sends') = Len(q) /\ DOMAIN sends' = DOMAIN q
      /\ \A t \in DOMAIN q :
           /\ sends'[t].id = q[t].id /\ sends'[t].phase = q[t].phase
           /\ sends'[t].text = q[t].text /\ sends'[t].images = q[t].images
           /\ sends'[t].retired = IF t \in told THEN "observed" ELSE q[t].retired
      /\ outgoing' = { t \in outgoing : q[t].id \notin shown }
      /\ retirements' = { r \in registered : r.id \notin shown }
      /\ pending' \subseteq WithoutKey(s)
      /\ deferred' \subseteq Images /\ revoked' \subseteq Images
      /\ \A i \in Images :
           LET freed == \E t \in told : i \in ToSet(q[t].images)
           IN  /\ i \in deferred' <=> i \in deferred \/ (freed /\ i = lightbox)
               /\ i \in revoked' <=> i \in revoked \/ (freed /\ i # lightbox)
  <2> HIDE DEF registered
  <2> QED BY <1>6, <1>7, <1>8, Observed
<1>10. \A r \in registered : /\ r.send \in DOMAIN sends /\ r.id = q[r.send].id
                             /\ sends[r.send].retired = "no" /\ q[r.send].phase # "serializing"
  <2>1. ASSUME NEW r \in retirements, r.id # id
        PROVE  /\ r.send \in DOMAIN sends /\ r.id = q[r.send].id
               /\ sends[r.send].retired = "no" /\ q[r.send].phase # "serializing"
    <3>1. /\ r.send \in DOMAIN sends /\ r.id = sends[r.send].id
          /\ sends[r.send].retired = "no" /\ sends[r.send].phase # "serializing"
      BY <1>1 DEF WaitInv
    <3> QED BY <1>1, <1>6, <3>1
  <2> QED BY <1>2, <1>5, <1>6, <2>1
<1>11. /\ \A t \in told : /\ t \in DOMAIN sends /\ sends[t].retired = "no" /\ q[t].id \in shown
                         /\ q[t].phase # "serializing"
       /\ \A r \in registered : r.id \notin shown => r.send \notin told
  <2>1. \A t \in told : /\ t \in DOMAIN sends /\ sends[t].retired = "no" /\ q[t].id \in shown
                        /\ q[t].phase # "serializing"
    <3> HIDE DEF registered
    <3> QED BY <1>10
  <2> HIDE DEF told, registered
  <2> QED BY <1>10, <2>1
<1>12. Tells(told)
  <2> HIDE DEF told, registered
  <2>1. \A t \in DOMAIN sends : q[t].text = sends[t].text /\ q[t].images = sends[t].images
                               /\ q[t].retired = sends[t].retired
    BY <1>2, <1>5, <1>6
  <2>2. outgoing' = { t \in outgoing : sends'[t].id \notin shown' }
    BY <1>1, <1>3, <1>6, <1>9
  <2>3. Frees(told)
    BY <1>6, <1>9, <1>11, <2>1 DEF Frees
  <2> QED BY <1>3, <1>6, <1>9, <1>11, <2>1, <2>2, <2>3 DEF Tells, Same
<1>13. \A r \in retirements' : (r \in retirements /\ r.id # id) \/ r = [id |-> id, send |-> s]
  <2> HIDE DEF told
  <2> QED BY <1>9
<1>14. /\ sends'[s].id = id /\ sends'[s].phase = "posting"
       /\ \A t \in DOMAIN sends \ {s} : Unmoved(t)
  BY <1>5, <1>6, <1>9 DEF Unmoved
<1>15. Posts(s, id)
  <2> HIDE DEF told, registered
  <2> QED BY <1>3, <1>9, <1>12, <1>13, <1>14 DEF Posts
<1> QED BY <1>1, <1>4, <1>15

(* A submission fails: it was observed before, or it returns to the draft.  *)
Ended(s) ==
  /\ sends' \in Seq(Send) /\ Len(sends') = Len(sends) /\ DOMAIN sends' = DOMAIN sends
  /\ Same(s) /\ sends'[s].id = sends[s].id /\ sends'[s].phase = "ended"
  /\ \A t \in DOMAIN sends \ {s} : sends'[t] = sends[t]
Returns(s) ==
  /\ sends[s].retired = "no" /\ sends'[s].retired = "failed"
  /\ outgoing' = { t \in outgoing : sends[t].id # sends[s].id }
  /\ retirements' = { r \in retirements : r.id # sends[s].id }
  /\ pending' = pending \/ (sends[s].phase = "posting" /\ pending' = Unconfirmed(s))
  /\ draft' = sends[s].text \o draft /\ images' = images \o sends[s].images
Fails(s) ==
  /\ Ended(s) /\ UNCHANGED <<previews, shown, rows>> /\ wire' \subseteq wire
  /\ \/ Returns(s)
     \/ /\ sends[s].retired = "observed" /\ sends'[s].retired = "observed"
        /\ UNCHANGED <<composer, outgoing, pending, retirements>>

LEMMA FailEffect ==
  ASSUME TypeOK, PhaseInv, NEW s \in DOMAIN sends,
         SerializeFails(s) \/ PostFails(s) \/ Rejected(s)
  PROVE  InFlight(s) /\ Fails(s)
<1>1. /\ InFlight(s) /\ sends \in Seq(Send) /\ sends[s] \in Send
      /\ sends[s].retired \in {"no", "observed"}
  <2>1. sends[s].phase = "serializing" \/ sends[s].phase = "posting"
    BY DEF SerializeFails, PostFails, Rejected
  <2>2. sends \in Seq(Send) /\ sends[s] \in Send
    BY DEF TypeOK
  <2>3. sends[s].retired \in {"no", "observed", "failed"}
    BY <2>2 DEF Send
  <2>4. sends[s].retired # "failed"
    BY <2>1 DEF PhaseInv
  <2> QED BY <2>1, <2>2, <2>3, <2>4 DEF InFlight
<1>2. PICK kept : /\ Failed(s, kept)
                  /\ kept = pending \/ (sends[s].phase = "posting" /\ kept = Unconfirmed(s))
  BY DEF SerializeFails, PostFails, Rejected
<1>3. UNCHANGED <<previews, shown, rows>> /\ wire' \subseteq wire
  BY DEF SerializeFails, PostFails, Rejected, server
<1>4. CASE sends[s].retired = "observed"
  <2> DEFINE x == [sends[s] EXCEPT !.phase = "ended"]
  <2>1. /\ x \in Send /\ x.id = sends[s].id /\ x.phase = "ended" /\ x.retired = sends[s].retired
        /\ x.text = sends[s].text /\ x.images = sends[s].images
    BY <1>1 DEF Send
  <2>2. /\ sends' = [sends EXCEPT ![s] = x]
        /\ UNCHANGED <<composer, outgoing, pending, retirements>>
    BY <1>2, <1>4 DEF Failed
  <2> HIDE DEF x
  <2> QED BY <1>1, <1>3, <1>4, <2>1, <2>2, Changed DEF Fails, Ended, Same
<1>5. CASE sends[s].retired = "no"
  <2> DEFINE x == [sends[s] EXCEPT !.phase = "ended", !.retired = "failed"]
  <2>1. /\ x \in Send /\ x.id = sends[s].id /\ x.phase = "ended" /\ x.retired = "failed"
        /\ x.text = sends[s].text /\ x.images = sends[s].images
    BY <1>1 DEF Send
  <2>2. /\ sends' = [sends EXCEPT ![s] = x]
        /\ outgoing' = { t \in outgoing : sends[t].id # sends[s].id }
        /\ retirements' = { r \in retirements : r.id # sends[s].id }
        /\ pending' = kept
        /\ draft' = sends[s].text \o draft /\ images' = images \o sends[s].images
    BY <1>2, <1>5 DEF Failed
  <2> HIDE DEF x
  <2>3. Ended(s) /\ sends'[s].retired = "failed"
    BY <1>1, <2>1, <2>2, Changed DEF Ended, Same
  <2>4. Returns(s)
    BY <1>2, <1>5, <2>2, <2>3 DEF Returns
  <2> QED BY <1>1, <1>3, <2>3, <2>4 DEF Fails
<1> QED BY <1>1, <1>4, <1>5

(* A submission, or a command, is answered or ends in the draft.            *)
Ends(s) ==
  /\ Ended(s) /\ sends'[s].retired = sends[s].retired
  /\ draft' = draft \/ draft' = sends[s].text \o draft
  /\ UNCHANGED <<images, previews, outgoing, pending, retirements, shown, server>>
  /\ \/ sends[s].phase = "posting" /\ \E m \in rows : m.id = sends[s].id
     \/ sends[s].phase = "command"

LEMMA EndEffect ==
  ASSUME TypeOK, NEW s \in DOMAIN sends,
         Answered(s) \/ CommandAnswered(s) \/ CommandFails(s)
  PROVE  Ends(s)
<1> DEFINE x == [sends[s] EXCEPT !.phase = "ended"]
<1>1. /\ UNCHANGED <<images, previews, outgoing, pending, retirements, shown, server>>
      /\ \/ sends[s].phase = "posting" /\ \E m \in rows : m.id = sends[s].id
         \/ sends[s].phase = "command"
      /\ sends' = [sends EXCEPT ![s] = x]
      /\ draft' = draft \/ draft' = sends[s].text \o draft
  BY DEF Answered, CommandAnswered, CommandFails, composer
<1>2. sends \in Seq(Send) /\ sends[s] \in Send
  BY DEF TypeOK
<1>3. /\ x \in Send /\ x.id = sends[s].id /\ x.phase = "ended" /\ x.retired = sends[s].retired
      /\ x.text = sends[s].text /\ x.images = sends[s].images
  BY <1>2 DEF Send
<1> HIDE DEF x
<1> QED BY <1>1, <1>2, <1>3, Changed DEF Ends, Ended, Same

(* A draft becomes a submission with an id of its own.                      *)
Submits(n) ==
  /\ n = Len(sends) + 1 /\ n \in Ids /\ n \notin DOMAIN sends
  /\ sends' \in Seq(Send) /\ Len(sends') = n /\ DOMAIN sends' = DOMAIN sends \union {n}
  /\ \A s \in DOMAIN sends : sends'[s] = sends[s]
  /\ sends'[n].id = n /\ sends'[n].retired = "no"
  /\ sends'[n].text = draft /\ sends'[n].images = images
  /\ IF draft = <<Compact>> /\ images = <<>>
     THEN sends'[n].phase = "command" /\ outgoing' = outgoing
     ELSE sends'[n].phase = "serializing" /\ outgoing' = outgoing \union {n}
  /\ draft' = <<>> /\ images' = <<>>
  /\ UNCHANGED <<previews, pending, retirements, shown, server>>

LEMMA SubmitEffect ==
  ASSUME TypeOK, Submit
  PROVE  \E n : Submits(n)
<1> DEFINE n == Len(sends) + 1
           command == draft = <<Compact>> /\ images = <<>>
           x == [id |-> n, text |-> draft, images |-> images, retired |-> "no",
                 phase |-> IF command THEN "command" ELSE "serializing"]
<1>1. /\ sends \in Seq(Send) /\ Len(sends) \in Nat /\ Len(sends) < MaxSends /\ MaxSends \in Nat
      /\ DOMAIN sends = 1..Len(sends) /\ draft \in Seq(Words) /\ images \in Seq(Images)
  BY OutboxAssumption DEF TypeOK, Submit
<1>2. n \in Ids /\ n \notin DOMAIN sends /\ 1..n = DOMAIN sends \union {n}
  BY <1>1 DEF Ids
<1>3. sends' = Append(sends, x) /\ outgoing' = IF command THEN outgoing ELSE outgoing \union {n}
  BY DEF Submit
<1>4. x \in Send /\ x.id = n /\ x.retired = "no" /\ x.text = draft /\ x.images = images
      /\ x.phase = IF command THEN "command" ELSE "serializing"
  BY <1>1, <1>2 DEF Send
<1> HIDE DEF x
<1>5. /\ sends' \in Seq(Send) /\ Len(sends') = n /\ DOMAIN sends' = 1..n
      /\ sends'[n] = x /\ \A s \in DOMAIN sends : sends'[s] = sends[s]
  BY <1>1, <1>3, <1>4
<1>6. /\ draft' = <<>> /\ images' = <<>>
      /\ UNCHANGED <<previews, pending, retirements, shown, server>>
  BY DEF Submit
<1>7. Submits(n)
  <2> HIDE DEF n
  <2> QED BY <1>2, <1>3, <1>4, <1>5, <1>6 DEF Submits, n
<1> QED BY <1>7

(* The steps of the composer and the lightbox.                              *)
Composes ==
  \/ \E w \in Words : TypeWord(w)
  \/ \E i \in Images : AddImage(i) \/ RemoveImage(i) \/ OpenLightbox(i)
  \/ Erase \/ CloseLightbox

(* The kinds of steps there are.                                            *)
LEMMA OutboxCases ==
  ASSUME TypeOK, PhaseInv, WaitInv, [Next]_vars
  PROVE  \/ Composes /\ UNCHANGED <<page, server>>
         \/ \E n : Submits(n)
         \/ \E s \in DOMAIN sends, id \in Ids : sends[s].phase = "serializing" /\ Posts(s, id)
         \/ \E s \in DOMAIN sends : InFlight(s) /\ Fails(s)
         \/ \E s \in DOMAIN sends : Ends(s)
         \/ \E m \in wire : Admit(m) \/ LoseRequest(m)
         \/ \E m \in rows : Refresh(m)
         \/ UNCHANGED vars
<1>1. CASE Composes
  BY <1>1 DEF Composes, TypeWord, Erase, AddImage, RemoveImage, OpenLightbox, CloseLightbox,
              page, server
<1>2. CASE Submit
  BY <1>2, SubmitEffect
<1>3. ASSUME NEW s \in DOMAIN sends, Serialized(s)
      PROVE  \E id \in Ids : sends[s].phase = "serializing" /\ Posts(s, id)
  BY <1>3, PostEffect
<1>4. ASSUME NEW s \in DOMAIN sends, SerializeFails(s) \/ PostFails(s) \/ Rejected(s)
      PROVE  InFlight(s) /\ Fails(s)
  BY <1>4, FailEffect
<1>5. ASSUME NEW s \in DOMAIN sends, Answered(s) \/ CommandAnswered(s) \/ CommandFails(s)
      PROVE  Ends(s)
  BY <1>5, EndEffect
<1> QED BY <1>1, <1>2, <1>3, <1>4, <1>5 DEF Next, Composes
-----------------------------------------------------------------------------
(* Types.                                                                   *)
LEMMA TypesStep ==
  ASSUME TypeOK, PhaseInv, WaitInv, [Next]_vars
  PROVE  TypeOK'
<1> USE DEF composer, previews, page, server
<1>1. /\ draft \in Seq(Words) /\ images \in Seq(Images)
      /\ sends \in Seq(Send) /\ Len(sends) =< MaxSends
      /\ pending \subseteq Message /\ wire \subseteq Message /\ rows \subseteq Message
      /\ retirements \subseteq [id : Ids, send : DOMAIN sends] /\ shown \subseteq Ids
      /\ outgoing \subseteq DOMAIN sends
      /\ \A s \in DOMAIN sends : /\ sends[s].id \in Ids /\ sends[s].text \in Seq(Words)
                                 /\ sends[s].images \in Seq(Images)
  <2>1. sends \in Seq(Send) /\ \A s \in DOMAIN sends : sends[s] \in Send
    BY DEF TypeOK
  <2> QED BY <2>1 DEF TypeOK, Send
<1>2. CASE Composes /\ UNCHANGED <<page, server>>
  <2>1. draft' \in Seq(Words)
    <3>1. <<>> \in Seq(Words) /\ \A w \in Words : Append(draft, w) \in Seq(Words)
      BY <1>1
    <3> QED BY <1>1, <1>2, <3>1
            DEF Composes, TypeWord, AddImage, RemoveImage, OpenLightbox, Erase, CloseLightbox
  <2>2. images' \in Seq(Images)
    <3>1. \A i \in Images : Append(images, i) \in Seq(Images)
      BY <1>1
    <3>2. \A k \in DOMAIN images : RemoveAt(images, k) \in Seq(Images)
      BY <1>1 DEF RemoveAt
    <3> QED BY <1>1, <1>2, <3>1, <3>2
            DEF Composes, TypeWord, AddImage, RemoveImage, OpenLightbox, Erase, CloseLightbox
  <2>3. /\ lightbox' \in Images \union {None}
        /\ deferred' \subseteq Images /\ revoked' \subseteq Images /\ used' \subseteq Images
    <3>1. Displayed \subseteq Images
      <4>1. \A s \in DOMAIN sends : ToSet(sends[s].images) \subseteq Images
        BY <1>1 DEF ToSet
      <4>2. ToSet(images) \subseteq Images
        BY <1>1 DEF ToSet
      <4> QED BY <1>1, <4>1, <4>2 DEF Displayed, Echoed
    <3> QED BY <1>2, <3>1 DEF TypeOK, Release,
              Composes, TypeWord, AddImage, RemoveImage, OpenLightbox, Erase, CloseLightbox
  <2> QED BY <1>2, <2>1, <2>2, <2>3 DEF TypeOK
<1>3. ASSUME NEW n, Submits(n) PROVE TypeOK'
  <2>1. /\ draft' \in Seq(Words) /\ images' \in Seq(Images)
        /\ sends' \in Seq(Send) /\ Len(sends') =< MaxSends /\ DOMAIN sends \subseteq DOMAIN sends'
        /\ outgoing' \subseteq DOMAIN sends'
        /\ UNCHANGED <<previews, pending, retirements, shown, server>>
    BY <1>1, <1>3, OutboxAssumption DEF Submits, Ids
  <2> QED BY <1>1, <2>1 DEF TypeOK
<1>4. ASSUME NEW s \in DOMAIN sends, NEW id \in Ids, Posts(s, id) PROVE TypeOK'
  <2>1. PICK T : Tells(T)
    BY <1>4 DEF Posts
  <2>2. /\ sends' \in Seq(Send) /\ Len(sends') = Len(sends) /\ DOMAIN sends' = DOMAIN sends
        /\ deferred' \subseteq Images /\ revoked' \subseteq Images
        /\ outgoing' \subseteq outgoing
        /\ UNCHANGED <<draft, images, lightbox, used, shown, rows>>
    BY <1>4, <2>1 DEF Tells, Frees, Posts
  <2>3. pending' \subseteq pending /\ wire' \subseteq Message
        /\ retirements' \subseteq [id : Ids, send : DOMAIN sends]
    <3>1. [id |-> id, text |-> sends[s].text, images |-> sends[s].images] \in Message
      BY <1>1 DEF Message
    <3> QED BY <1>1, <1>4, <3>1 DEF Posts, WithoutKey
  <2> QED BY <1>1, <2>2, <2>3 DEF TypeOK
<1>5. ASSUME NEW s \in DOMAIN sends, Fails(s) PROVE TypeOK'
  <2>1. /\ sends' \in Seq(Send) /\ Len(sends') = Len(sends) /\ DOMAIN sends' = DOMAIN sends
        /\ UNCHANGED <<lightbox, deferred, revoked, used, shown, rows>> /\ wire' \subseteq wire
        /\ outgoing' \subseteq outgoing /\ retirements' \subseteq retirements
        /\ pending' = pending \/ pending' = Unconfirmed(s)
        /\ draft' = draft \/ draft' = sends[s].text \o draft
        /\ images' = images \/ images' = images \o sends[s].images
    BY <1>5 DEF Fails, Ended, Returns
  <2>2. draft' \in Seq(Words) /\ images' \in Seq(Images)
    <3>1. sends[s].text \o draft \in Seq(Words) /\ images \o sends[s].images \in Seq(Images)
      BY <1>1
    <3> QED BY <1>1, <2>1, <3>1
  <2>3. /\ Unconfirmed(s) \subseteq Message
        /\ \A m, n \in Unconfirmed(s) : m.text = n.text /\ m.images = n.images => m = n
    <3> DEFINE w == [id |-> sends[s].id, text |-> sends[s].text, images |-> sends[s].images]
    <3>1. /\ w \in Message /\ w.text = sends[s].text /\ w.images = sends[s].images
      BY <1>1 DEF Message
    <3>2. Unconfirmed(s) = { m \in pending : ~Keyed(s, m) } \union {w}
      BY DEF Unconfirmed, WithoutKey
    <3> HIDE DEF w
    <3> QED BY <1>1, <3>1, <3>2 DEF Keyed, TypeOK
  <2> QED BY <1>1, <2>1, <2>2, <2>3 DEF TypeOK
<1>6. ASSUME NEW s \in DOMAIN sends, Ends(s) PROVE TypeOK'
  <2>1. sends[s].text \o draft \in Seq(Words)
    BY <1>1
  <2> QED BY <1>1, <1>6, <2>1 DEF TypeOK, Ended, Ends
<1>7. ASSUME NEW m \in wire, Admit(m) \/ LoseRequest(m) PROVE TypeOK'
  BY <1>7 DEF TypeOK, Admit, LoseRequest
<1>8. ASSUME NEW m \in rows, Refresh(m) PROVE TypeOK'
  <2>1. PICK T : Tells(T)
    BY <1>8, RefreshEffect
  <2>2. /\ sends' \in Seq(Send) /\ Len(sends') = Len(sends) /\ DOMAIN sends' = DOMAIN sends
        /\ deferred' \subseteq Images /\ revoked' \subseteq Images
        /\ outgoing' \subseteq outgoing
        /\ UNCHANGED <<draft, images, lightbox, used>>
    BY <2>1 DEF Tells, Frees
  <2>3. /\ shown' = shown \union {m.id} /\ retirements' \subseteq retirements
        /\ pending' \subseteq pending /\ UNCHANGED <<wire, rows>>
    BY <1>8, RefreshEffect
  <2>4. m.id \in Ids
    BY <1>1 DEF Message
  <2> QED BY <1>1, <2>2, <2>3, <2>4 DEF TypeOK
<1>9. CASE UNCHANGED vars
  BY <1>9 DEF vars, TypeOK
<1> QED BY OutboxCases, <1>2, <1>3, <1>4, <1>5, <1>6, <1>7, <1>8, <1>9
-----------------------------------------------------------------------------
(* What no step undoes: a submission keeps its content, once serialized its *)
(* id, and once retired its end; what is admitted stays.                    *)
Advances(s) ==
  /\ Same(s)
  /\ sends[s].phase # "serializing" => sends'[s].id = sends[s].id
  /\ sends'[s].phase = "serializing" => Unmoved(s) /\ sends'[s].retired = sends[s].retired
  /\ sends'[s].phase = "posting" => /\ InFlight(s)
                                   /\ sends'[s].retired \in {sends[s].retired, "observed"}
  /\ sends[s].retired # "no" => sends'[s].retired = sends[s].retired
  /\ sends'[s].retired = "observed" => sends[s].retired = "observed" \/ sends'[s].id \in shown'
Grows ==
  /\ DOMAIN sends \subseteq DOMAIN sends' /\ rows \subseteq rows'
  /\ \A k \in shown' : k \in shown \/ \E m \in rows : m.id = k
  /\ \A s \in DOMAIN sends : Advances(s)
  /\ \A s \in DOMAIN sends' \ DOMAIN sends : Submits(s)

LEMMA Told ==
  ASSUME NEW T, Tells(T), NEW s \in DOMAIN sends,
         Unmoved(s) \/ (sends[s].phase = "serializing" /\ sends'[s].phase = "posting")
  PROVE  Advances(s)
<1>1. Same(s) /\ sends'[s].retired = IF s \in T THEN "observed" ELSE sends[s].retired
  BY DEF Tells
<1>2. s \in T => sends[s].retired = "no" /\ sends'[s].id \in shown'
                 /\ sends'[s].phase # "serializing"
  BY DEF Tells
<1> QED BY <1>1, <1>2 DEF Advances, Unmoved, InFlight

LEMMA StepGrows ==
  ASSUME TypeOK, PhaseInv, WaitInv, [Next]_vars
  PROVE  Grows
<1> DEFINE Kept == /\ DOMAIN sends' = DOMAIN sends /\ rows \subseteq rows'
                   /\ shown' = shown
                   /\ \A s \in DOMAIN sends : Advances(s)
<1>1. Kept => Grows
  BY DEF Grows
<1>2. sends' = sends => \A s \in DOMAIN sends : Advances(s)
  BY DEF Advances, Same, Unmoved, InFlight
<1>3. CASE Composes /\ UNCHANGED <<page, server>>
  BY <1>1, <1>2, <1>3 DEF page, server
<1>4. ASSUME NEW n, Submits(n) PROVE Grows
  <2>1. \A s \in DOMAIN sends : Advances(s)
    BY <1>4 DEF Submits, Advances, Same, Unmoved, InFlight
  <2>2. \A s \in DOMAIN sends' \ DOMAIN sends : Submits(s)
    BY <1>4 DEF Submits
  <2> QED BY <1>4, <2>1, <2>2 DEF Grows, Submits, server
<1>5. ASSUME NEW s \in DOMAIN sends, NEW id \in Ids, sends[s].phase = "serializing", Posts(s, id)
      PROVE Grows
  <2>1. PICK T : Tells(T)
    BY <1>5 DEF Posts
  <2>2. \A t \in DOMAIN sends : Advances(t)
    BY <1>5, <2>1, Told DEF Posts
  <2> QED BY <1>1, <1>5, <2>1, <2>2 DEF Posts, Tells
<1>6. ASSUME NEW s \in DOMAIN sends, InFlight(s), Fails(s) PROVE Grows
  <2>1. sends'[s].retired # "no" /\ (sends[s].retired = "no" => sends'[s].retired = "failed")
        /\ (sends[s].retired # "no" => sends'[s].retired = sends[s].retired)
    BY <1>6 DEF Fails, Returns
  <2>2. \A t \in DOMAIN sends : Advances(t)
    BY <1>6, <2>1 DEF Fails, Ended, Advances, Same, Unmoved, InFlight
  <2> QED BY <1>1, <1>6, <2>2 DEF Fails, Ended
<1>7. ASSUME NEW s \in DOMAIN sends, Ends(s) PROVE Grows
  <2>1. \A t \in DOMAIN sends : Advances(t)
    BY <1>7 DEF Ends, Ended, Advances, Same, Unmoved, InFlight
  <2> QED BY <1>1, <1>7, <2>1 DEF Ends, Ended, server
<1>8. ASSUME NEW m \in wire, Admit(m) \/ LoseRequest(m) PROVE Grows
  BY <1>1, <1>2, <1>8 DEF Admit, LoseRequest, page
<1>9. ASSUME NEW m \in rows, Refresh(m) PROVE Grows
  <2>1. PICK T : Tells(T)
    BY <1>9, RefreshEffect
  <2>2. /\ \A s \in DOMAIN sends : Unmoved(s)
        /\ shown' = shown \union {m.id} /\ UNCHANGED server
    BY <1>9, RefreshEffect
  <2>3. \A s \in DOMAIN sends : Advances(s)
    BY <2>1, <2>2, Told
  <2>4. DOMAIN sends' = DOMAIN sends
    BY <2>1 DEF Tells
  <2> QED BY <2>2, <2>3, <2>4 DEF Grows, server
<1>10. CASE UNCHANGED vars
  BY <1>1, <1>2, <1>10 DEF vars, page, server
<1> HIDE DEF Kept
<1> QED BY OutboxCases, <1>3, <1>4, <1>5, <1>6, <1>7, <1>8, <1>9, <1>10

(* So who is ordinary, and whose id is in use, stays so.                    *)
LEMMA UsedKept ==
  ASSUME Grows, NEW s \in DOMAIN sends
  PROVE  /\ s \in DOMAIN sends' /\ (s \in Ordinary' <=> s \in Ordinary)
         /\ (InFlight(s)' => InFlight(s)) /\ (Used(s) => Used(s)')
         /\ \A m : Keyed(s, m)' <=> Keyed(s, m)
<1>1. Advances(s) /\ s \in DOMAIN sends'
  BY DEF Grows
<1>2. sends'[s].text = sends[s].text /\ sends'[s].images = sends[s].images
  BY <1>1 DEF Advances, Same
<1>3. s \in Ordinary' <=> s \in Ordinary
  BY <1>1, <1>2 DEF Ordinary
<1>4. /\ sends'[s].phase = "serializing" => sends[s].phase = "serializing"
      /\ sends'[s].phase = "posting" => InFlight(s)
  BY <1>1 DEF Advances, Unmoved
<1>5. InFlight(s)' => InFlight(s)
  BY <1>4 DEF InFlight
<1>6. Used(s) => Used(s)'
  BY <1>3, <1>4 DEF Used
<1>7. \A m : Keyed(s, m)' <=> Keyed(s, m)
  BY <1>2 DEF Keyed
<1> QED BY <1>1, <1>3, <1>5, <1>6, <1>7

LEMMA PhaseStep ==
  ASSUME TypeOK, PhaseInv, WaitInv, Grows
  PROVE  PhaseInv'
<1>1. ASSUME NEW s \in DOMAIN sends' \ DOMAIN sends
      PROVE  /\ InFlight(s)' => s \in Ordinary'
             /\ sends'[s].phase = "serializing" => sends'[s].id = s /\ sends'[s].retired = "no"
             /\ sends'[s].phase = "posting" => sends'[s].retired # "failed"
             /\ sends'[s].retired = "observed" => \E m \in rows' : m.id = sends'[s].id
  <2>1. Submits(s)
    BY <1>1 DEF Grows
  <2> QED BY <1>1, <2>1 DEF Submits, InFlight, Ordinary
<1>2. ASSUME NEW s \in DOMAIN sends
      PROVE  /\ InFlight(s)' => s \in Ordinary'
             /\ sends'[s].phase = "serializing" => sends'[s].id = s /\ sends'[s].retired = "no"
             /\ sends'[s].phase = "posting" => sends'[s].retired # "failed"
             /\ sends'[s].retired = "observed" => \E m \in rows' : m.id = sends'[s].id
  <2>1. Advances(s) /\ rows \subseteq rows'
        /\ \A k \in shown' : \E m \in rows : m.id = k
    BY DEF Grows, WaitInv
  <2>2. InFlight(s)' => s \in Ordinary'
    BY UsedKept DEF PhaseInv
  <2>3. sends'[s].phase = "serializing" => sends'[s].id = s /\ sends'[s].retired = "no"
    BY <2>1 DEF Advances, Unmoved, PhaseInv
  <2>4. sends'[s].phase = "posting" => sends'[s].retired # "failed"
    BY <2>1 DEF Advances, InFlight, PhaseInv
  <2>5. sends'[s].retired = "observed" => \E m \in rows' : m.id = sends'[s].id
    <3>1. CASE sends[s].retired = "observed"
      <4>1. sends'[s].id = sends[s].id
        BY <2>1, <3>1 DEF Advances, PhaseInv
      <4> QED BY <2>1, <3>1, <4>1 DEF PhaseInv
    <3> QED BY <2>1, <3>1 DEF Advances
  <2> QED BY <2>2, <2>3, <2>4, <2>5
<1> QED BY <1>1, <1>2 DEF PhaseInv
-----------------------------------------------------------------------------
(* Ids and what they stand for.                                             *)
Request(s, id) == [id |-> id, text |-> sends[s].text, images |-> sends[s].images]
Steady == DOMAIN sends' = DOMAIN sends /\ \A s \in DOMAIN sends : sends'[s].id = sends[s].id

LEMMA IdCases ==
  ASSUME TypeOK, PhaseInv, WaitInv, [Next]_vars
  PROVE  \/ \E n : Submits(n)
         \/ \E s \in DOMAIN sends, id \in Ids : sends[s].phase = "serializing" /\ Posts(s, id)
         \/ Steady /\ Content' \subseteq Content
         \/ Steady /\ \E s \in DOMAIN sends :
              /\ sends[s].phase = "posting"
              /\ Content' \subseteq Content \union {Request(s, sends[s].id)}
<1>1. CASE Composes /\ UNCHANGED <<page, server>>
  BY <1>1 DEF page, server, Steady, Content
<1>2. ASSUME NEW s \in DOMAIN sends, InFlight(s), Fails(s)
      PROVE  \/ Steady /\ Content' \subseteq Content
             \/ /\ Steady /\ sends[s].phase = "posting"
                /\ Content' \subseteq Content \union {Request(s, sends[s].id)}
  <2>1. Steady
    BY <1>2 DEF Fails, Ended, Steady
  <2>2. wire' \subseteq wire /\ rows' = rows
    BY <1>2 DEF Fails
  <2>3. \/ pending' = pending
        \/ sends[s].phase = "posting" /\ pending' = Unconfirmed(s)
    BY <1>2 DEF Fails, Returns
  <2>4. Unconfirmed(s) \subseteq pending \union {Request(s, sends[s].id)}
    BY DEF Unconfirmed, WithoutKey, Request
  <2> QED BY <2>1, <2>2, <2>3, <2>4 DEF Content
<1>3. ASSUME NEW s \in DOMAIN sends, Ends(s) PROVE Steady /\ Content' \subseteq Content
  <2>1. Steady
    BY <1>3 DEF Ends, Ended, Steady
  <2> QED BY <1>3, <2>1 DEF Ends, Content, server
<1>4. ASSUME NEW m \in wire, Admit(m) \/ LoseRequest(m) PROVE Steady /\ Content' \subseteq Content
  BY <1>4 DEF Admit, LoseRequest, page, Steady, Content
<1>5. ASSUME NEW m \in rows, Refresh(m) PROVE Steady /\ Content' \subseteq Content
  <2>1. PICK T : Tells(T)
    BY <1>5, RefreshEffect
  <2>2. /\ \A s \in DOMAIN sends : Unmoved(s)
        /\ pending' \subseteq pending /\ UNCHANGED server
    BY <1>5, RefreshEffect
  <2> QED BY <2>1, <2>2 DEF Tells, Unmoved, Steady, Content, server
<1>6. CASE UNCHANGED vars
  BY <1>6 DEF vars, page, server, Steady, Content
<1> QED BY OutboxCases, <1>1, <1>2, <1>3, <1>4, <1>5, <1>6

LEMMA IdStep ==
  ASSUME TypeOK, PhaseInv, IdInv, ContentInv, WaitInv, Grows, [Next]_vars
  PROVE  IdInv'
<1>0. /\ \A s \in DOMAIN sends :
           /\ Same(s) /\ s \in DOMAIN sends' /\ (Used(s) => Used(s)')
           /\ sends[s].id \in DOMAIN sends /\ (sends[s].id = s \/ Used(sends[s].id))
      /\ \A s, t \in DOMAIN sends : sends[s].id = sends[t].id =>
           sends[s].text = sends[t].text /\ sends[s].images = sends[t].images
  BY UsedKept DEF Grows, Advances, IdInv
<1> SUFFICES
      /\ \A s \in DOMAIN sends' :
           /\ sends'[s].id \in DOMAIN sends'
           /\ \A k : k = sends'[s].id => k = s \/ Used(k)'
      /\ \A s, t \in DOMAIN sends' : sends'[s].id = sends'[t].id =>
           sends'[s].text = sends'[t].text /\ sends'[s].images = sends'[t].images
  BY DEF IdInv, Used
<1>1. ASSUME NEW n, Submits(n)
      PROVE  /\ \A s \in DOMAIN sends' :
                  /\ sends'[s].id \in DOMAIN sends'
                  /\ \A k : k = sends'[s].id => k = s \/ Used(k)'
             /\ \A s, t \in DOMAIN sends' : sends'[s].id = sends'[t].id =>
                  sends'[s].text = sends'[t].text /\ sends'[s].images = sends'[t].images
  <2>1. /\ DOMAIN sends' = DOMAIN sends \union {n} /\ n \notin DOMAIN sends
        /\ sends'[n].id = n /\ \A s \in DOMAIN sends : sends'[s] = sends[s]
    BY <1>1 DEF Submits
  <2>2. \A s \in DOMAIN sends' :
           /\ sends'[s].id \in DOMAIN sends'
           /\ \A k : k = sends'[s].id => k = s \/ Used(k)'
    BY <1>0, <2>1
  <2>3. \A s \in DOMAIN sends : sends'[s].id # n
    BY <1>0, <2>1
  <2>4. \A s, t \in DOMAIN sends' : sends'[s].id = sends'[t].id =>
          sends'[s].text = sends'[t].text /\ sends'[s].images = sends'[t].images
    BY <1>0, <2>1, <2>3
  <2> QED BY <2>2, <2>4
<1>2. ASSUME NEW s \in DOMAIN sends, NEW id \in Ids, sends[s].phase = "serializing", Posts(s, id)
      PROVE  /\ \A t \in DOMAIN sends' :
                  /\ sends'[t].id \in DOMAIN sends'
                  /\ \A k : k = sends'[t].id => k = t \/ Used(k)'
             /\ \A t, u \in DOMAIN sends' : sends'[t].id = sends'[u].id =>
                  sends'[t].text = sends'[u].text /\ sends'[t].images = sends'[u].images
  <2>1. /\ sends'[s].id = id /\ sends[s].id = s
        /\ \A t \in DOMAIN sends \ {s} : sends'[t].id = sends[t].id
        /\ DOMAIN sends' = DOMAIN sends
    BY <1>2 DEF Posts, Tells, Unmoved, PhaseInv
  <2>2. /\ id \in DOMAIN sends /\ (id = s \/ Used(id))
        /\ \A t \in DOMAIN sends : sends[t].id = id =>
             sends[t].text = sends[s].text /\ sends[t].images = sends[s].images
    <3>1. CASE id = sends[s].id
      BY <1>0, <3>1, <2>1
    <3>2. CASE \E m \in pending : Keyed(s, m) /\ m.id = id
      <4>1. PICK m \in pending : Keyed(s, m) /\ m.id = id
        BY <3>2
      <4>2. /\ m.id \in DOMAIN sends /\ Used(m.id)
            /\ \A t \in DOMAIN sends : m.id = sends[t].id => Keyed(t, m)
        BY <4>1 DEF ContentInv, Content
      <4> QED BY <4>1, <4>2 DEF Keyed
    <3> QED BY <1>2, <3>1, <3>2 DEF Posts
  <2>3. \A t \in DOMAIN sends' :
           /\ sends'[t].id \in DOMAIN sends'
           /\ \A k : k = sends'[t].id => k = t \/ Used(k)'
    BY <1>0, <2>1, <2>2
  <2>4. \A t, u \in DOMAIN sends : sends'[t].id = sends'[u].id =>
          sends[t].text = sends[u].text /\ sends[t].images = sends[u].images
    BY <1>0, <2>1, <2>2
  <2>5. \A t, u \in DOMAIN sends' : sends'[t].id = sends'[u].id =>
          sends'[t].text = sends'[u].text /\ sends'[t].images = sends'[u].images
    BY <1>0, <2>1, <2>4 DEF Same
  <2> QED BY <2>3, <2>5
<1>3. ASSUME Steady
      PROVE  /\ \A s \in DOMAIN sends' :
                  /\ sends'[s].id \in DOMAIN sends'
                  /\ \A k : k = sends'[s].id => k = s \/ Used(k)'
             /\ \A s, t \in DOMAIN sends' : sends'[s].id = sends'[t].id =>
                  sends'[s].text = sends'[t].text /\ sends'[s].images = sends'[t].images
  BY <1>0, <1>3 DEF Steady, Same
<1> QED BY IdCases, <1>1, <1>2, <1>3

(* A request with the id and the content of a submission is the only one of *)
(* its id.                                                                  *)
LEMMA RequestOf ==
  ASSUME TypeOK, ContentInv, NEW s \in DOMAIN sends, NEW id \in Ids, NEW m \in Content,
         m.id = id, Keyed(s, m)
  PROVE  m = Request(s, id)
<1>1. m \in Message
  BY DEF TypeOK, Content
<1> QED BY <1>1 DEF Message, Keyed, Request

LEMMA ContentStep ==
  ASSUME TypeOK, PhaseInv, IdInv, ContentInv, WaitInv, Grows, [Next]_vars
  PROVE  ContentInv'
<1>0. /\ \A s \in DOMAIN sends :
           /\ s \in DOMAIN sends' /\ (Used(s) => Used(s)')
           /\ \A m : Keyed(s, m)' <=> Keyed(s, m)
      /\ \A m \in Content : m.id \in DOMAIN sends /\ Used(m.id)
      /\ \A m, n \in Content : m.id = n.id => m = n
      /\ \A s \in DOMAIN sends, m \in Content : m.id = sends[s].id => Keyed(s, m)
  BY UsedKept DEF ContentInv
<1> SUFFICES
      /\ \A m \in Content' : m.id \in DOMAIN sends' /\ Used(m.id)'
      /\ \A m, n \in Content' : m.id = n.id => m = n
      /\ \A s \in DOMAIN sends', m \in Content' : m.id = sends'[s].id => Keyed(s, m)'
  BY DEF ContentInv
<1>1. ASSUME NEW n, Submits(n)
      PROVE  /\ \A m \in Content' : m.id \in DOMAIN sends' /\ Used(m.id)'
             /\ \A m, k \in Content' : m.id = k.id => m = k
             /\ \A s \in DOMAIN sends', m \in Content' : m.id = sends'[s].id => Keyed(s, m)'
  <2>1. /\ DOMAIN sends' = DOMAIN sends \union {n} /\ n \notin DOMAIN sends
        /\ sends'[n].id = n /\ \A s \in DOMAIN sends : sends'[s] = sends[s]
        /\ Content' = Content
    BY <1>1 DEF Submits, Content, server
  <2>2. \A s \in DOMAIN sends', m \in Content' : m.id = sends'[s].id => Keyed(s, m)'
    <3>1. \A m \in Content : m.id # n
      BY <1>0, <2>1
    <3> QED BY <1>0, <2>1, <3>1
  <2> QED BY <1>0, <2>1, <2>2
<1>2. ASSUME NEW s \in DOMAIN sends, NEW id \in Ids, sends[s].phase = "serializing", Posts(s, id)
      PROVE  /\ \A m \in Content' : m.id \in DOMAIN sends' /\ Used(m.id)'
             /\ \A m, k \in Content' : m.id = k.id => m = k
             /\ \A t \in DOMAIN sends', m \in Content' : m.id = sends'[t].id => Keyed(t, m)'
  <2>1. /\ sends'[s].id = id /\ sends[s].id = s /\ sends'[s].phase = "posting"
        /\ \A t \in DOMAIN sends \ {s} : sends'[t].id = sends[t].id
        /\ DOMAIN sends' = DOMAIN sends
    BY <1>2 DEF Posts, Tells, Unmoved, PhaseInv
  <2>2. Content' \subseteq Content \union {Request(s, id)}
    BY <1>2 DEF Posts, Content, Request, WithoutKey
  <2>3. \A m \in Content : m.id = id => Keyed(s, m)
    <3>1. CASE id = sends[s].id
      BY <1>0, <3>1
    <3>2. CASE \E m \in pending : Keyed(s, m) /\ m.id = id
      BY <1>0, <3>2 DEF Content
    <3> QED BY <1>2, <3>1, <3>2 DEF Posts
  <2>4. \A m \in Content : m.id = id => m = Request(s, id)
    BY <2>3, RequestOf
  <2>5. Request(s, id).id = id /\ Keyed(s, Request(s, id))
    BY DEF Request, Keyed
  <2>6. id \in DOMAIN sends /\ Used(id)'
    <3>1. CASE id = sends[s].id
      <4>1. s \in Ordinary
        BY <1>2 DEF PhaseInv, InFlight
      <4>2. s \in Ordinary'
        BY <4>1, UsedKept
      <4> QED BY <2>1, <3>1, <4>2 DEF Used
    <3>2. CASE \E m \in pending : Keyed(s, m) /\ m.id = id
      BY <1>0, <3>2 DEF Content
    <3> QED BY <1>2, <3>1, <3>2 DEF Posts
  <2>7. \A t \in DOMAIN sends : sends'[t].id = id => Keyed(t, Request(s, id))
    <3>1. CASE id = sends[s].id
      BY <2>1, <2>5, <3>1 DEF IdInv, Keyed
    <3>2. CASE \E m \in pending : Keyed(s, m) /\ m.id = id
      <4>1. PICK m \in pending : Keyed(s, m) /\ m.id = id
        BY <3>2
      <4>2. m = Request(s, id) /\ m \in Content
        BY <2>4, <4>1 DEF Content
      <4> QED BY <1>0, <2>1, <2>5, <4>1, <4>2
    <3> QED BY <1>2, <3>1, <3>2 DEF Posts
  <2>8. \A t \in DOMAIN sends, m \in Content : m.id = sends'[t].id => Keyed(t, m)
    BY <1>0, <2>1, <2>3
  <2> HIDE DEF Content
  <2>9. \A m \in Content' : m.id \in DOMAIN sends' /\ Used(m.id)'
    BY <1>0, <2>1, <2>2, <2>5, <2>6
  <2>10. \A m, k \in Content' : m.id = k.id => m = k
    BY <1>0, <2>2, <2>4, <2>5
  <2>11. \A t \in DOMAIN sends', m \in Content' : m.id = sends'[t].id => Keyed(t, m)'
    BY <1>0, <2>1, <2>2, <2>5, <2>7, <2>8
  <2> QED BY <2>9, <2>10, <2>11
<1>3. ASSUME Steady, Content' \subseteq Content
      PROVE  /\ \A m \in Content' : m.id \in DOMAIN sends' /\ Used(m.id)'
             /\ \A m, n \in Content' : m.id = n.id => m = n
             /\ \A s \in DOMAIN sends', m \in Content' : m.id = sends'[s].id => Keyed(s, m)'
  BY <1>0, <1>3 DEF Steady
<1>4. ASSUME Steady, NEW s \in DOMAIN sends, sends[s].phase = "posting",
             Content' \subseteq Content \union {Request(s, sends[s].id)}
      PROVE  /\ \A m \in Content' : m.id \in DOMAIN sends' /\ Used(m.id)'
             /\ \A m, n \in Content' : m.id = n.id => m = n
             /\ \A t \in DOMAIN sends', m \in Content' : m.id = sends'[t].id => Keyed(t, m)'
  <2>1. PICK id : id = sends[s].id
    OBVIOUS
  <2>2. id \in Ids
    <3>1. sends[s] \in Send
      BY DEF TypeOK
    <3> QED BY <2>1, <3>1 DEF Send
  <2>3. id \in DOMAIN sends /\ Used(id)
    BY <1>4, <2>1 DEF IdInv, PhaseInv, InFlight, Used
  <2>4. \A m \in Content : m.id = id => m = Request(s, id)
    BY <1>0, <2>1, <2>2, RequestOf
  <2>5. Request(s, id).id = id /\ \A t \in DOMAIN sends : sends[t].id = id => Keyed(t, Request(s, id))
    BY <2>1 DEF IdInv, Request, Keyed
  <2>6. \A m \in Content' : m.id \in DOMAIN sends' /\ Used(m.id)'
    BY <1>0, <1>4, <2>1, <2>3, <2>5
  <2>7. \A m, n \in Content' : m.id = n.id => m = n
    BY <1>0, <1>4, <2>1, <2>4, <2>5
  <2>8. \A t \in DOMAIN sends', m \in Content' : m.id = sends'[t].id => Keyed(t, m)'
    BY <1>0, <1>4, <2>1, <2>5 DEF Steady
  <2> QED BY <2>6, <2>7, <2>8
<1> QED BY IdCases, <1>1, <1>2, <1>3, <1>4
-----------------------------------------------------------------------------
(* Who waits, and the echoes.                                               *)
LEMMA WaitStep ==
  ASSUME TypeOK, PhaseInv, WaitInv, Grows, [Next]_vars
  PROVE  WaitInv'
<1> DEFINE Waits(r) == /\ r.id = sends'[r.send].id /\ sends'[r.send].retired = "no"
                       /\ sends'[r.send].phase # "serializing"
<1>0. \A r \in retirements :
        /\ r.send \in DOMAIN sends /\ r.id = sends[r.send].id
        /\ sends[r.send].retired = "no" /\ sends[r.send].phase # "serializing"
  BY DEF WaitInv, TypeOK
<1>1. \A k \in shown' : \E m \in rows' : m.id = k
  BY DEF Grows, WaitInv
<1>2. retirements' = retirements /\ (\A s \in DOMAIN sends : sends'[s] = sends[s])
      => \A r \in retirements' : Waits(r)
  BY <1>0
<1>3. ASSUME Composes, UNCHANGED <<page, server>> PROVE \A r \in retirements' : Waits(r)
  BY <1>2, <1>3 DEF page
<1>4. ASSUME NEW n, Submits(n) PROVE \A r \in retirements' : Waits(r)
  BY <1>2, <1>4 DEF Submits
<1>5. ASSUME NEW s \in DOMAIN sends, NEW id \in Ids, sends[s].phase = "serializing", Posts(s, id)
      PROVE  \A r \in retirements' : Waits(r)
  <2> SUFFICES ASSUME NEW r \in retirements' PROVE Waits(r)
    OBVIOUS
  <2>1. PICK T : Tells(T)
    BY <1>5 DEF Posts
  <2>2. r.send \notin T
        /\ \A t \in DOMAIN sends \ T : sends'[t].retired = sends[t].retired
    BY <2>1 DEF Tells
  <2>3. CASE r \in retirements /\ r.id # id
    <3>1. r.send \in DOMAIN sends \ {s} /\ Unmoved(r.send)
      BY <1>0, <1>5, <2>3 DEF Posts
    <3> QED BY <1>0, <2>2, <2>3, <3>1 DEF Unmoved
  <2>4. CASE r = [id |-> id, send |-> s]
    <3>1. r.id = id /\ r.send = s /\ sends[s].retired = "no"
      BY <1>5, <2>4 DEF PhaseInv
    <3> QED BY <1>5, <2>2, <3>1 DEF Posts
  <2> QED BY <1>5, <2>3, <2>4 DEF Posts
<1>6. ASSUME NEW s \in DOMAIN sends, Fails(s) PROVE \A r \in retirements' : Waits(r)
  <2> SUFFICES ASSUME NEW r \in retirements' PROVE Waits(r)
    OBVIOUS
  <2>1. r \in retirements /\ r.send # s
    BY <1>0, <1>6 DEF Fails, Returns
  <2>2. sends'[r.send] = sends[r.send]
    BY <1>0, <1>6, <2>1 DEF Fails, Ended
  <2> QED BY <1>0, <2>1, <2>2
<1>7. ASSUME NEW s \in DOMAIN sends, Ends(s) PROVE \A r \in retirements' : Waits(r)
  BY <1>0, <1>7 DEF Ends, Ended
<1>8. ASSUME NEW m \in wire, Admit(m) \/ LoseRequest(m) PROVE \A r \in retirements' : Waits(r)
  BY <1>2, <1>8 DEF Admit, LoseRequest, page
<1>9. ASSUME NEW m \in rows, Refresh(m) PROVE \A r \in retirements' : Waits(r)
  <2>1. PICK T : Tells(T)
    BY <1>9, RefreshEffect
  <2>2. /\ \A s \in DOMAIN sends : Unmoved(s)
        /\ retirements' \subseteq retirements
    BY <1>9, RefreshEffect
  <2> QED BY <1>0, <2>1, <2>2 DEF Tells, Unmoved
<1>10. ASSUME UNCHANGED vars PROVE \A r \in retirements' : Waits(r)
  BY <1>2, <1>10 DEF vars, page
<1>11. \A r \in retirements' : Waits(r)
  BY OutboxCases, <1>3, <1>4, <1>5, <1>6, <1>7, <1>8, <1>9, <1>10
<1> QED BY <1>1, <1>11 DEF WaitInv

LEMMA EchoStep ==
  ASSUME TypeOK, PhaseInv, IdInv, ContentInv, WaitInv, EchoInv, [Next]_vars
  PROVE  EchoInv'
<1> DEFINE Echo == /\ \A s \in outgoing' : sends'[s].retired = "no"
                   /\ \A s, t \in outgoing' : sends'[s].id = sends'[t].id => s = t
                   /\ \A s \in outgoing', m \in pending' : sends'[s].id # m.id
<1>0. /\ outgoing \subseteq DOMAIN sends
      /\ \A s \in outgoing : sends[s].retired = "no"
      /\ \A s, t \in outgoing : sends[s].id = sends[t].id => s = t
      /\ \A s \in outgoing, m \in pending : sends[s].id # m.id
  BY DEF EchoInv, TypeOK
<1>1. /\ outgoing' \subseteq outgoing /\ pending' \subseteq pending
      /\ \A s \in DOMAIN sends : sends'[s].id = sends[s].id
      /\ \A s \in outgoing' : sends'[s].retired = sends[s].retired
      => Echo
  BY <1>0
<1>2. ASSUME NEW T, Tells(T)
      PROVE  /\ outgoing' \subseteq outgoing
             /\ \A s \in outgoing' : sends'[s].retired = sends[s].retired
  BY <1>0, <1>2 DEF Tells
<1>3. ASSUME Composes, UNCHANGED <<page, server>> PROVE Echo
  BY <1>1, <1>3 DEF page
<1>4. ASSUME NEW n, Submits(n) PROVE Echo
  <2>1. /\ n \notin DOMAIN sends /\ sends'[n].id = n /\ sends'[n].retired = "no"
        /\ \A s \in DOMAIN sends : sends'[s] = sends[s]
        /\ outgoing' \subseteq outgoing \union {n} /\ pending' = pending
    BY <1>4 DEF Submits
  <2>2. \A s \in DOMAIN sends : sends[s].id # n
    BY <2>1 DEF IdInv
  <2>3. \A m \in pending : m.id # n
    BY <2>1 DEF ContentInv, Content
  <2> QED BY <1>0, <2>1, <2>2, <2>3
<1>5. ASSUME NEW s \in DOMAIN sends, NEW id \in Ids, sends[s].phase = "serializing", Posts(s, id)
      PROVE  Echo
  <2>1. /\ sends'[s].id = id /\ sends[s].id = s
        /\ \A t \in DOMAIN sends \ {s} : sends'[t].id = sends[t].id
    BY <1>5 DEF Posts, Unmoved, PhaseInv
  <2>2. /\ outgoing' \subseteq outgoing
        /\ \A t \in outgoing' : sends'[t].retired = sends[t].retired
    BY <1>2, <1>5 DEF Posts
  <2>3. pending' \subseteq pending /\ \A m \in pending' : ~Keyed(s, m)
    BY <1>5 DEF Posts, WithoutKey
  <2>4. s \in outgoing => \A t \in outgoing \ {s} : sends[t].id # id
    BY <1>0, <1>5 DEF Posts
  <2>5. s \in outgoing => \A m \in pending' : m.id # id
    <3>1. CASE id = sends[s].id
      BY <1>0, <2>3, <3>1
    <3>2. CASE \E m \in pending : Keyed(s, m) /\ m.id = id
      <4>1. \A m, n \in pending : m.id = n.id => m = n
        BY DEF ContentInv, Content
      <4> QED BY <2>3, <3>2, <4>1
    <3> QED BY <1>5, <3>1, <3>2 DEF Posts
  <2>6. \A t, u \in outgoing' : sends'[t].id = sends'[u].id => t = u
    BY <1>0, <2>1, <2>2, <2>4
  <2>7. \A t \in outgoing', m \in pending' : sends'[t].id # m.id
    BY <1>0, <2>1, <2>2, <2>3, <2>5
  <2> QED BY <1>0, <2>2, <2>6, <2>7
<1>6. ASSUME NEW s \in DOMAIN sends, Fails(s) PROVE Echo
  <2>1. \A t \in DOMAIN sends : sends'[t].id = sends[t].id
    BY <1>6 DEF Fails, Ended
  <2>2. \A t \in DOMAIN sends \ {s} : sends'[t].retired = sends[t].retired
    BY <1>6 DEF Fails, Ended
  <2>3. CASE Returns(s)
    <3>1. outgoing' \subseteq outgoing /\ \A t \in outgoing' : sends[t].id # sends[s].id
      BY <2>3 DEF Returns
    <3>2. \A m \in pending' : m \in pending \/ m.id = sends[s].id
      BY <2>3 DEF Returns, Unconfirmed, WithoutKey
    <3> QED BY <1>0, <2>1, <2>2, <3>1, <3>2
  <2>4. CASE sends[s].retired = "observed" /\ UNCHANGED <<outgoing, pending>>
    BY <1>0, <2>1, <2>2, <2>4
  <2> QED BY <1>6, <2>3, <2>4 DEF Fails
<1>7. ASSUME NEW s \in DOMAIN sends, Ends(s) PROVE Echo
  <2>1. \A t \in DOMAIN sends : sends'[t].id = sends[t].id /\ sends'[t].retired = sends[t].retired
    BY <1>7 DEF Ends, Ended
  <2> QED BY <1>0, <1>1, <1>7, <2>1 DEF Ends
<1>8. ASSUME NEW m \in wire, Admit(m) \/ LoseRequest(m) PROVE Echo
  BY <1>1, <1>8 DEF Admit, LoseRequest, page
<1>9. ASSUME NEW m \in rows, Refresh(m) PROVE Echo
  <2>1. PICK T : Tells(T)
    BY <1>9, RefreshEffect
  <2>2. pending' \subseteq pending /\ \A s \in DOMAIN sends : Unmoved(s)
    BY <1>9, RefreshEffect
  <2> QED BY <1>1, <1>2, <2>1, <2>2 DEF Unmoved
<1>10. ASSUME UNCHANGED vars PROVE Echo
  BY <1>1, <1>10 DEF vars, page
<1>11. Echo
  <2> HIDE DEF Echo
  <2> QED BY OutboxCases, <1>3, <1>4, <1>5, <1>6, <1>7, <1>8, <1>9, <1>10
<1> QED BY <1>11 DEF EchoInv

-----------------------------------------------------------------------------
(* A submission is in flight, given back, or at the server.                 *)
LEMMA LostStep ==
  ASSUME TypeOK, PhaseInv, ContentInv, WaitInv, NothingLost, Grows, [Next]_vars
  PROVE  NothingLost'
<1> SUFFICES ASSUME NEW s, s \in Ordinary', ~InFlight(s)', sends'[s].retired # "failed"
             PROVE  (\E m \in rows : m.id = sends[s].id /\ Keyed(s, m))'
  BY DEF NothingLost
<1>1. s \in DOMAIN sends
  <2>1. ASSUME s \in DOMAIN sends' \ DOMAIN sends PROVE FALSE
    <3>1. Submits(s)
      BY <2>1 DEF Grows
    <3>2. sends'[s].phase = "command" \/ sends'[s].phase = "serializing"
      BY <3>1 DEF Submits
    <3>3. sends'[s].phase = "command" /\ sends'[s].text = <<Compact>> /\ sends'[s].images = <<>>
      BY <3>1, <3>2 DEF Submits, InFlight
    <3> QED BY <3>3 DEF Ordinary
  <2> QED BY <2>1 DEF Ordinary
<1>2. /\ s \in Ordinary /\ rows \subseteq rows' /\ Advances(s)
      /\ \A m : Keyed(s, m)' <=> Keyed(s, m)
  BY <1>1, UsedKept DEF Grows
<1>3. (\E m \in rows : m.id = sends'[s].id /\ Keyed(s, m))
      => (\E m \in rows : m.id = sends[s].id /\ Keyed(s, m))'
  BY <1>2
<1>4. \A m \in rows : m.id = sends[s].id => Keyed(s, m)
  BY <1>1 DEF ContentInv, Content
<1>5. CASE ~InFlight(s)
  <2>1. sends[s].retired # "failed" /\ sends'[s].id = sends[s].id
    BY <1>2, <1>5 DEF Advances, InFlight
  <2> QED BY <1>2, <1>3, <1>5, <2>1 DEF NothingLost
<1>6. CASE InFlight(s)
  <2>1. sends'[s].id = sends[s].id /\ \E m \in rows : m.id = sends[s].id
    <3>1. \/ \E t \in DOMAIN sends : InFlight(t) /\ Fails(t)
          \/ \E t \in DOMAIN sends : Ends(t)
          \/ Unmoved(s) \/ sends'[s].phase = "posting"
      <4>1. CASE Composes /\ UNCHANGED <<page, server>>
        BY <4>1 DEF page, Unmoved
      <4>2. ASSUME NEW n, Submits(n) PROVE Unmoved(s)
        BY <1>1, <4>2 DEF Submits, Unmoved
      <4>3. ASSUME NEW t \in DOMAIN sends, NEW id \in Ids, Posts(t, id)
            PROVE  Unmoved(s) \/ sends'[s].phase = "posting"
        BY <1>1, <4>3 DEF Posts
      <4>4. ASSUME NEW m \in wire, Admit(m) \/ LoseRequest(m) PROVE Unmoved(s)
        BY <4>4 DEF Admit, LoseRequest, page, Unmoved
      <4>5. ASSUME NEW m \in rows, Refresh(m) PROVE Unmoved(s)
        BY <1>1, <4>5, RefreshEffect
      <4>6. CASE UNCHANGED vars
        BY <4>6 DEF vars, page, Unmoved
      <4> QED BY OutboxCases, <4>1, <4>2, <4>3, <4>4, <4>5, <4>6
    <3>2. ~Unmoved(s) /\ sends'[s].phase # "posting" /\ sends[s].phase # "command"
      BY <1>6 DEF InFlight, Unmoved
    <3>3. ASSUME NEW t \in DOMAIN sends, Fails(t)
          PROVE  sends'[s].id = sends[s].id /\ \E m \in rows : m.id = sends[s].id
      <4>1. t = s /\ sends'[s].id = sends[s].id
        BY <1>1, <3>2, <3>3 DEF Fails, Ended, Unmoved
      <4>2. sends[s].retired = "observed"
        BY <3>3, <4>1 DEF Fails, Returns
      <4> QED BY <1>1, <4>1, <4>2 DEF PhaseInv
    <3>4. ASSUME NEW t \in DOMAIN sends, Ends(t)
          PROVE  sends'[s].id = sends[s].id /\ \E m \in rows : m.id = sends[s].id
      <4>1. t = s /\ sends'[s].id = sends[s].id
        BY <1>1, <3>2, <3>4 DEF Ends, Ended, Unmoved
      <4> QED BY <3>2, <3>4, <4>1 DEF Ends
    <3> QED BY <3>1, <3>2, <3>3, <3>4
  <2> QED BY <1>3, <1>4, <2>1
<1> QED BY <1>5, <1>6
-----------------------------------------------------------------------------
(* The preview URLs.                                                        *)
LEMMA PreviewStep ==
  ASSUME TypeOK, PhaseInv, WaitInv, EchoInv, PreviewInv, [Next]_vars
  PROVE  PreviewInv'
<1>0. /\ images \in Seq(Images) /\ lightbox \in Images \union {None} /\ None \notin Images
      /\ deferred \subseteq Images /\ outgoing \subseteq DOMAIN sends
      /\ \A s \in DOMAIN sends : sends[s].images \in Seq(Images)
      /\ Distinct(images) /\ \A s \in DOMAIN sends : Distinct(sends[s].images)
  <2>1. \A s \in DOMAIN sends : sends[s] \in Send
    BY DEF TypeOK
  <2> QED BY <2>1, OutboxAssumption DEF TypeOK, PreviewInv, Send
<1>1. ASSUME /\ UNCHANGED <<images, previews>> /\ DOMAIN sends' = DOMAIN sends
             /\ \A s \in DOMAIN sends : Same(s) /\ sends'[s].retired = sends[s].retired
      PROVE  PreviewInv'
  <2>1. \A s \in DOMAIN sends, i \in Images : Holds(s, i)' <=> Holds(s, i)
    BY <1>1 DEF Holds, Same
  <2>2. ASSUME NEW i \in Images PROVE Owned(i)'
    <3>1. Owned(i)
      BY DEF PreviewInv
    <3> QED BY <1>1, <2>1, <3>1 DEF Owned, previews
  <2> QED BY <1>0, <1>1, <2>2 DEF PreviewInv, Same
<1>2. ASSUME sends' = sends, Distinct(images'), \A i \in Images : Owned(i)' PROVE PreviewInv'
  BY <1>0, <1>2 DEF PreviewInv
<1>3. ASSUME sends' = sends
      PROVE  /\ DOMAIN sends' = DOMAIN sends
             /\ \A s \in DOMAIN sends : Same(s) /\ sends'[s].retired = sends[s].retired
             /\ \A s \in DOMAIN sends, i \in Images : Holds(s, i)' <=> Holds(s, i)
  BY <1>3 DEF Same, Holds
<1>4. CASE Composes /\ UNCHANGED <<page, server>>
  <2>0. sends' = sends
    BY <1>4 DEF page
  <2>1. ASSUME NEW w \in Words, TypeWord(w) PROVE PreviewInv'
    BY <1>1, <1>3, <2>0, <2>1 DEF TypeWord
  <2>2. CASE Erase
    BY <1>1, <1>3, <2>0, <2>2 DEF Erase
  <2>3. ASSUME NEW j \in Images, AddImage(j) PROVE PreviewInv'
    <3>1. /\ j \notin used /\ images' = Append(images, j) /\ used' = used \union {j}
          /\ UNCHANGED <<lightbox, deferred, revoked>>
      BY <2>3 DEF AddImage
    <3>2. /\ j \notin ToSet(images) /\ j \notin deferred /\ j \notin revoked
          /\ \A s \in DOMAIN sends : ~Holds(s, j)
      <4>1. Owned(j)
        BY DEF PreviewInv
      <4> QED BY <3>1, <4>1 DEF Owned
    <3>3. ToSet(images)' = ToSet(images) \union {j} /\ Distinct(images')
      BY <1>0, <3>1, <3>2, Appended
    <3>4. ASSUME NEW i \in Images PROVE Owned(i)'
      <4>1. Owned(i)
        BY DEF PreviewInv
      <4>2. CASE i = j
        BY <1>3, <2>0, <3>1, <3>2, <3>3, <4>1, <4>2 DEF Owned
      <4>3. CASE i # j
        BY <1>3, <2>0, <3>1, <3>3, <4>1, <4>3 DEF Owned
      <4> QED BY <4>2, <4>3
    <3> QED BY <1>2, <2>0, <3>3, <3>4
  <2>4. ASSUME NEW j \in Images, RemoveImage(j) PROVE PreviewInv'
    <3>1. PICK k \in DOMAIN images : images[k] = j /\ images' = RemoveAt(images, k)
      BY <2>4 DEF RemoveImage
    <3>2. ToSet(images)' = ToSet(images) \ {j} /\ Distinct(images') /\ j \in ToSet(images)
      BY <1>0, <3>1, Removed DEF ToSet
    <3>3. /\ deferred' = deferred /\ revoked' = revoked \union {j} /\ used' = used
          /\ lightbox = None /\ lightbox' = None
      BY <1>0, <2>4 DEF RemoveImage, Release
    <3>4. ASSUME NEW i \in Images PROVE Owned(i)'
      <4>1. Owned(i) /\ i # lightbox
        BY <1>0, <3>3 DEF PreviewInv
      <4>2. CASE i = j
        BY <1>0, <1>3, <2>0, <3>2, <3>3, <4>1, <4>2 DEF Owned
      <4>3. CASE i # j
        BY <1>3, <2>0, <3>2, <3>3, <4>1, <4>3 DEF Owned
      <4> QED BY <4>2, <4>3
    <3> QED BY <1>2, <2>0, <3>2, <3>4
  <2>5. ASSUME NEW j \in Images, OpenLightbox(j) PROVE PreviewInv'
    <3>1. /\ lightbox = None /\ lightbox' = j /\ j \in Displayed
          /\ UNCHANGED <<images, deferred, revoked, used>>
      BY <2>5 DEF OpenLightbox, composer
    <3>2. j \notin revoked
      <4>1. Owned(j)
        BY DEF PreviewInv
      <4>2. j \in ToSet(images) \/ \E s \in outgoing : j \in ToSet(sends[s].images)
        BY <3>1 DEF Displayed, Echoed
      <4>3. j \in ToSet(images) \/ \E s \in DOMAIN sends : Holds(s, j)
        BY <1>0, <4>2 DEF EchoInv, Holds
      <4> QED BY <4>1, <4>3 DEF Owned
    <3>3. ASSUME NEW i \in Images PROVE Owned(i)'
      <4>1. Owned(i) /\ i \notin deferred
        BY <1>0, <3>1 DEF PreviewInv, Owned
      <4> QED BY <1>3, <2>0, <3>1, <3>2, <4>1 DEF Owned
    <3> QED BY <1>0, <1>2, <2>0, <3>1, <3>3
  <2>6. CASE CloseLightbox
    <3>1. /\ lightbox' = None /\ revoked' = revoked \union deferred /\ deferred' = {}
          /\ UNCHANGED <<images, used>>
      BY <2>6 DEF CloseLightbox, composer
    <3>2. ASSUME NEW i \in Images PROVE Owned(i)'
      <4>1. Owned(i) /\ i # None
        BY <1>0 DEF PreviewInv
      <4>2. CASE i \in deferred
        BY <1>3, <2>0, <3>1, <4>1, <4>2 DEF Owned
      <4>3. CASE i \notin deferred
        BY <1>3, <2>0, <3>1, <4>1, <4>3 DEF Owned
      <4> QED BY <4>2, <4>3
    <3> QED BY <1>0, <1>2, <2>0, <3>1, <3>2
  <2> QED BY <1>4, <2>1, <2>2, <2>3, <2>4, <2>5, <2>6 DEF Composes
<1>5. ASSUME NEW n, Submits(n) PROVE PreviewInv'
  <2>1. /\ DOMAIN sends' = DOMAIN sends \union {n} /\ n \notin DOMAIN sends
        /\ \A s \in DOMAIN sends : sends'[s] = sends[s]
        /\ sends'[n].retired = "no" /\ sends'[n].images = images
        /\ images' = <<>> /\ UNCHANGED <<lightbox, deferred, revoked, used>>
    BY <1>5 DEF Submits, previews
  <2>2. /\ \A s \in DOMAIN sends, i \in Images : Holds(s, i)' <=> Holds(s, i)
        /\ \A i \in Images : Holds(n, i)' <=> i \in ToSet(images)
        /\ ToSet(images)' = {} /\ Distinct(images')
    BY <2>1 DEF Holds, ToSet, Distinct
  <2>3. ASSUME NEW i \in Images PROVE Owned(i)'
    <3>1. Owned(i)
      BY DEF PreviewInv
    <3> QED BY <2>1, <2>2, <3>1 DEF Owned
  <2>4. \A s \in DOMAIN sends' : Distinct(sends'[s].images)
    BY <1>0, <2>1
  <2> QED BY <2>2, <2>3, <2>4 DEF PreviewInv
<1>6. ASSUME NEW T, Tells(T) PROVE PreviewInv'
  <2>1. /\ DOMAIN sends' = DOMAIN sends /\ T \subseteq DOMAIN sends
        /\ \A t \in T : sends[t].retired = "no"
        /\ \A t \in DOMAIN sends : /\ Same(t)
             /\ sends'[t].retired = IF t \in T THEN "observed" ELSE sends[t].retired
        /\ Frees(T) /\ UNCHANGED <<images, lightbox, used>>
    BY <1>6 DEF Tells, composer
  <2>2. \A s \in DOMAIN sends, i \in Images : Holds(s, i)' <=> Holds(s, i) /\ s \notin T
    BY <2>1 DEF Holds, Same
  <2>3. ASSUME NEW i \in Images PROVE Owned(i)'
    <3>1. Owned(i)
      BY DEF PreviewInv
    <3> DEFINE freed == \E t \in T : Holds(t, i)
    <3>2. /\ i \in deferred' <=> i \in deferred \/ (freed /\ i = lightbox)
          /\ i \in revoked' <=> i \in revoked \/ (freed /\ i # lightbox)
      BY <2>1 DEF Frees, Holds
    <3>3. CASE freed
      <4>1. PICK t \in T : Holds(t, i)
        BY <3>3
      <4>2. /\ i \in used /\ i \notin revoked /\ i \notin ToSet(images) /\ i \notin deferred
            /\ \A s \in DOMAIN sends : Holds(s, i) => s = t
        BY <2>1, <3>1, <4>1 DEF Owned
      <4>3. \A s \in DOMAIN sends : ~Holds(s, i)'
        BY <2>2, <4>1, <4>2
      <4>4. /\ i \in deferred' <=> i = lightbox
            /\ i \in revoked' <=> i # lightbox
        BY <3>2, <4>1, <4>2
      <4> QED BY <2>1, <4>2, <4>3, <4>4 DEF Owned
    <3>4. CASE ~freed
      <4>1. /\ i \in deferred' <=> i \in deferred
            /\ i \in revoked' <=> i \in revoked
            /\ \A s \in DOMAIN sends : Holds(s, i)' <=> Holds(s, i)
        BY <2>2, <3>2, <3>4
      <4> QED BY <2>1, <3>1, <4>1 DEF Owned
    <3> QED BY <3>3, <3>4
  <2>4. \A s \in DOMAIN sends' : Distinct(sends'[s].images)
    BY <1>0, <2>1 DEF Same
  <2> QED BY <1>0, <2>1, <2>3, <2>4 DEF PreviewInv
<1>7. ASSUME NEW s \in DOMAIN sends, NEW id \in Ids, Posts(s, id) PROVE PreviewInv'
  BY <1>6, <1>7 DEF Posts
<1>8. ASSUME NEW s \in DOMAIN sends, Fails(s) PROVE PreviewInv'
  <2>1. /\ DOMAIN sends' = DOMAIN sends /\ UNCHANGED previews
        /\ \A t \in DOMAIN sends : Same(t)
        /\ \A t \in DOMAIN sends \ {s} : sends'[t].retired = sends[t].retired
    BY <1>8 DEF Fails, Ended, Same
  <2>2. CASE Returns(s)
    <3>1. /\ sends[s].retired = "no" /\ sends'[s].retired = "failed"
          /\ images' = images \o sends[s].images
      BY <2>2 DEF Returns
    <3>2. /\ \A i \in Images : Holds(s, i) <=> i \in ToSet(sends[s].images)
          /\ \A t \in DOMAIN sends, i \in Images : Holds(t, i)' <=> Holds(t, i) /\ t # s
      BY <2>1, <3>1 DEF Holds, Same
    <3>3. ToSet(sends[s].images) \subseteq Images
      BY <1>0 DEF ToSet
    <3>4. ToSet(images) \intersect ToSet(sends[s].images) = {}
      BY <3>2, <3>3 DEF PreviewInv, Owned
    <3>5. ToSet(images)' = ToSet(images) \union ToSet(sends[s].images) /\ Distinct(images')
      BY <1>0, <3>1, <3>4, Joined
    <3>6. ASSUME NEW i \in Images PROVE Owned(i)'
      <4>1. Owned(i)
        BY DEF PreviewInv
      <4>2. i \in ToSet(images)' <=> i \in ToSet(images) \/ Holds(s, i)
        BY <3>2, <3>5
      <4>3. CASE Holds(s, i)
        BY <2>1, <3>2, <4>1, <4>2, <4>3 DEF Owned, previews
      <4>4. CASE ~Holds(s, i)
        BY <2>1, <3>2, <4>1, <4>2, <4>4 DEF Owned, previews
      <4> QED BY <4>3, <4>4
    <3>7. \A t \in DOMAIN sends' : Distinct(sends'[t].images)
      BY <1>0, <2>1 DEF Same
    <3> QED BY <3>5, <3>6, <3>7 DEF PreviewInv
  <2>3. CASE sends[s].retired = "observed" /\ sends'[s].retired = "observed" /\ UNCHANGED composer
    BY <1>1, <2>1, <2>3 DEF composer
  <2> QED BY <1>8, <2>2, <2>3 DEF Fails
<1>9. ASSUME NEW s \in DOMAIN sends, Ends(s) PROVE PreviewInv'
  <2>1. /\ DOMAIN sends' = DOMAIN sends /\ UNCHANGED <<images, previews>>
        /\ \A t \in DOMAIN sends : Same(t) /\ sends'[t].retired = sends[t].retired
    BY <1>9 DEF Ends, Ended, Same
  <2> QED BY <1>1, <2>1
<1>10. ASSUME NEW m \in wire, Admit(m) \/ LoseRequest(m) PROVE PreviewInv'
  BY <1>1, <1>3, <1>10 DEF Admit, LoseRequest, page, composer
<1>11. ASSUME NEW m \in rows, Refresh(m) PROVE PreviewInv'
  BY <1>6, <1>11, RefreshEffect
<1>12. CASE UNCHANGED vars
  BY <1>1, <1>3, <1>12 DEF vars, page, composer
<1> QED BY OutboxCases, <1>4, <1>5, <1>7, <1>8, <1>9, <1>10, <1>11, <1>12

-----------------------------------------------------------------------------
OutboxInv ==
  /\ TypeOK /\ PhaseInv /\ IdInv /\ ContentInv /\ WaitInv /\ EchoInv /\ PreviewInv
  /\ NothingLost

LEMMA OutboxStep == OutboxInv /\ [Next]_vars => OutboxInv'
<1> SUFFICES ASSUME OutboxInv, [Next]_vars PROVE OutboxInv'
  OBVIOUS
<1>1. /\ TypeOK /\ PhaseInv /\ IdInv /\ ContentInv /\ WaitInv /\ EchoInv /\ PreviewInv
      /\ NothingLost
  BY DEF OutboxInv
<1>2. Grows
  BY <1>1, StepGrows
<1>3. TypeOK' /\ PhaseInv' /\ IdInv' /\ ContentInv'
  BY <1>1, <1>2, TypesStep, PhaseStep, IdStep, ContentStep
<1>4. WaitInv' /\ EchoInv' /\ PreviewInv' /\ NothingLost'
  BY <1>1, <1>2, WaitStep, EchoStep, PreviewStep, LostStep
<1> QED BY <1>3, <1>4 DEF OutboxInv

LEMMA OutboxInit == Init => OutboxInv
<1> SUFFICES ASSUME Init PROVE OutboxInv
  OBVIOUS
<1>1. /\ draft = <<>> /\ images = <<>> /\ sends = <<>> /\ DOMAIN sends = {} /\ Len(sends) = 0
      /\ lightbox = None /\ deferred = {} /\ revoked = {} /\ used = {}
      /\ outgoing = {} /\ pending = {} /\ retirements = {} /\ shown = {} /\ wire = {} /\ rows = {}
  BY DEF Init
<1>2. draft \in Seq(Words) /\ images \in Seq(Images) /\ sends \in Seq(Send)
  BY <1>1
<1>3. TypeOK
  BY <1>1, <1>2, OutboxAssumption DEF TypeOK
<1>4. PhaseInv /\ IdInv /\ ContentInv /\ WaitInv /\ EchoInv /\ NothingLost
  BY <1>1 DEF PhaseInv, IdInv, ContentInv, Content, WaitInv, EchoInv, NothingLost, Ordinary
<1>5. PreviewInv
  <2>1. ToSet(images) = {} /\ Distinct(images)
    BY <1>1 DEF ToSet, Distinct
  <2>2. ASSUME NEW i \in Images PROVE Owned(i)
    BY <1>1, <2>1, OutboxAssumption DEF Owned
  <2> QED BY <1>1, <2>1, <2>2 DEF PreviewInv
<1> QED BY <1>3, <1>4, <1>5 DEF OutboxInv

THEOREM Outgoing == Spec => []OutboxInv
  BY OutboxInit, OutboxStep, PTL DEF Spec

(* Nothing the user submitted is lost: it is still on its way, given back   *)
(* to the draft, or at the server under its id with exactly its content     *)
(* (+page.svelte:105-130).                                                  *)
THEOREM SubmissionsKept == Spec => []NothingLost
<1>1. OutboxInv => NothingLost
  BY DEF OutboxInv
<1> QED BY Outgoing, <1>1, PTL

(* One message has one bubble: never two echoes of one id on the screen,    *)
(* whatever was retried, failed or observed in between                      *)
(* (+page.svelte:33-37, 44, 114-119).                                       *)
THEOREM BubblesSingle == Spec => []OneBubble
<1>1. OutboxInv => OneBubble
  BY DEF OutboxInv, EchoInv, OneBubble, Echoed
<1> QED BY Outgoing, <1>1, PTL

(* No submission is lost, and none is shown twice.                          *)
THEOREM SubmissionsShownOnce == Spec => []NeitherLostNorDoubled
<1>1. NothingLost /\ OneBubble => NeitherLostNorDoubled
  BY DEF NeitherLostNorDoubled
<1> QED BY <1>1, SubmissionsKept, BubblesSingle, PTL

(* A preview is revoked once nobody shows or holds it, and not before: the  *)
(* previews not revoked are exactly those of the draft, of the submissions  *)
(* not yet retired and of the closing lightbox                              *)
(* (Companion.svelte:406-441, 457-483).                                     *)
THEOREM PreviewsHeld == Spec => []PreviewsOwned
<1>1. OutboxInv => PreviewsOwned
  <2> SUFFICES ASSUME OutboxInv PROVE PreviewsOwned
    OBVIOUS
  <2> DEFINE held == ToSet(images) \union deferred
                     \union UNION { ToSet(sends[s].images) :
                                      s \in { t \in DOMAIN sends : sends[t].retired = "no" } }
  <2>1. /\ images \in Seq(Images) /\ deferred \subseteq Images /\ used \subseteq Images
        /\ revoked \subseteq Images /\ lightbox \in Images \union {None}
        /\ outgoing \subseteq DOMAIN sends
        /\ \A s \in DOMAIN sends : sends[s].images \in Seq(Images)
    <3>1. \A s \in DOMAIN sends : sends[s] \in Send
      BY DEF OutboxInv, TypeOK
    <3> QED BY <3>1 DEF OutboxInv, TypeOK, Send
  <2>2. /\ ToSet(images) \subseteq Images
        /\ \A s \in DOMAIN sends : ToSet(sends[s].images) \subseteq Images
    BY <2>1 DEF ToSet
  <2>3. \A i : i \in held <=> \/ i \in ToSet(images) \/ i \in deferred
                             \/ \E s \in DOMAIN sends : Holds(s, i)
    BY DEF Holds
  <2>4. held \subseteq Images
    BY <2>1, <2>2
  <2> HIDE DEF held
  <2>5. \A i \in Images : Owned(i)
    BY DEF OutboxInv, PreviewInv
  <2>6. \A i \in Images : i \in used \ revoked <=> i \in held
    BY <2>3, <2>5 DEF Owned
  <2>7. used \ revoked = held
    BY <2>1, <2>4, <2>6
  <2>8. ASSUME NEW i \in Displayed PROVE i \notin revoked
    <3>1. i \in ToSet(images) \/ \E s \in outgoing : i \in ToSet(sends[s].images)
      BY <2>8 DEF Displayed, Echoed
    <3>2. i \in held
      BY <2>1, <2>3, <3>1 DEF OutboxInv, EchoInv, Holds
    <3> QED BY <2>7, <3>2
  <2>9. lightbox \notin revoked
    BY <2>1, <2>5, OutboxAssumption DEF Owned
  <2> QED BY <2>7, <2>8, <2>9 DEF PreviewsOwned, held
<1> QED BY Outgoing, <1>1, PTL

(* A submission is retired once: what failed and was given back is never    *)
(* reported as observed, nor the other way round (+page.svelte:117-129).    *)
THEOREM RetiredForGood == Spec => RetiredOnce
<1>1. OutboxInv /\ [Next]_vars
      => [\A s \in DOMAIN sends :
            sends[s].retired # "no" => sends'[s].retired = sends[s].retired]_vars
  BY StepGrows DEF OutboxInv, Grows, Advances
<1> QED BY Outgoing, <1>1, PTL DEF Spec, RetiredOnce
=============================================================================
